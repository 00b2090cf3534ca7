--------------------------- MODULE MCLinkMonitor ----------------------------
(***************************************************************************)
(* LinkMonitor in units of 50 ms: samples and status ticks of two units,   *)
(* flashes of two, a carrier of four edges per unit and a counter that     *)
(* holds eight units of carrier.                                           *)
(***************************************************************************)
EXTENDS LinkMonitor

MCPulses == {2}
=============================================================================
