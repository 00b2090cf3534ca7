---------------------------- MODULE MCCscService ----------------------------
(***************************************************************************)
(* CscService with ten time units per second, an event time of four ticks  *)
(* per second that rolls over after two seconds, and a count of at most 3. *)
(***************************************************************************)
EXTENDS CscService

MCTurnTimes == {7, 10}
=============================================================================
