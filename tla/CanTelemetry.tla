---------------------------- MODULE CanTelemetry ----------------------------
(***************************************************************************)
(* Telemetry on the CAN bus: the publisher (ir_spoke_can.c), which the     *)
(* receive task calls for every accepted blockage, and its transport, an   *)
(* MCP2515 on SPI (main/ir_spoke_can_mcp2515_adapter.c).  A transfer that  *)
(* reports an error may have reached the chip or not.  The chip sends its  *)
(* buffer when the bus lets it, and a restart of the program does not      *)
(* reset it: only the RESET command does.                                  *)
(*                                                                         *)
(* A telemetry is the number of its blockage.  The transmit buffer is      *)
(* written in two halves, so that a frame can turn out mixed.              *)
(***************************************************************************)
EXTENDS Naturals, Sequences

CONSTANTS MaxBlockages, \* bound: blockages accepted
          MaxRestarts   \* bound: restarts of the program

ASSUME CanAssumption == MaxBlockages \in Nat /\ MaxRestarts \in Nat

VARIABLES boot,         \* the next step of the start, or "ready"
          restarts,
          chip,         \* mode, mode asked for, timing, transmit buffer, TXREQ
          publish,      \* the next step of send_frame
          blockage,     \* the last accepted blockage
          counted,      \* the telemetries that sequence counts
          bus           \* the frames on the bus

canVars == <<boot, restarts, chip, publish, blockage, counted, bus>>

Empty == <<0, 0>>
ResetChip == [mode |-> "config", asked |-> "config", timed |-> FALSE,
              buffer |-> Empty, pending |-> FALSE]

(* Power on: the chip is in the state a RESET command gives it. *)
CanInit ==
  /\ boot = "reset" /\ restarts = 0
  /\ chip = ResetChip
  /\ publish = "idle" /\ blockage = 0
  /\ counted = {} /\ bus = <<>>

-----------------------------------------------------------------------------
(* The program restarts (ESP_ERROR_CHECK in app_main, of this transport or *)
(* of another part); the publisher begins anew and the chip goes on.       *)
Restarts ==
  /\ restarts < MaxRestarts
  /\ restarts' = restarts + 1
  /\ boot' = "reset" /\ publish' = "idle" /\ counted' = {}

Restart == Restarts /\ UNCHANGED <<chip, blockage, bus>>

(* One transfer of the start: it succeeds and the next step follows, or it *)
(* fails, before or after it reached the chip, and the program restarts.   *)
StartStep(step, next, changed) ==
  /\ boot = step
  /\ \/ /\ chip' = changed
        /\ boot' = next
        /\ UNCHANGED <<restarts, publish, counted>>
     \/ /\ chip' \in {chip, changed}
        /\ Restarts
  /\ UNCHANGED <<blockage, bus>>

ResetCommand == StartStep("reset", "timing", ResetChip)
BitTiming == StartStep("timing", "interrupts", [chip EXCEPT !.timed = TRUE])
InterruptMask == StartStep("interrupts", "normal", chip)
NormalMode == StartStep("normal", "status", [chip EXCEPT !.asked = "normal"])

(* CANSTAT must say that the chip has reached the normal mode. *)
ModeStatus == chip.mode = "normal" /\ StartStep("status", "ready", chip)
ModeNotReached == chip.mode # "normal" /\ boot = "status" /\ Restart

-----------------------------------------------------------------------------
(* ir_spoke_can_publish_estimate and send_frame.                           *)

Publish ==
  /\ boot = "ready" /\ publish = "idle"
  /\ blockage < MaxBlockages
  /\ blockage' = blockage + 1
  /\ publish' = "control"
  /\ UNCHANGED <<boot, restarts, chip, counted, bus>>

(* A plausible slip: a frame that still waits is not looked for. *)
ReadControlBlindly ==
  /\ publish = "control"
  /\ publish' \in {"first half", "idle"}
  /\ UNCHANGED <<boot, restarts, chip, blockage, counted, bus>>

(* TXB0CTRL: nothing is loaded while a frame waits (-3), or after an error. *)
ReadControl ==
  /\ publish = "control"
  /\ publish' \in IF chip.pending THEN {"idle"} ELSE {"first half", "idle"}
  /\ UNCHANGED <<boot, restarts, chip, blockage, counted, bus>>

(* The transfer of the 13 bytes; an error may leave any part of them.      *)
WriteFirstHalf ==
  /\ publish = "first half"
  /\ chip' = [chip EXCEPT !.buffer[1] = blockage]
  /\ publish' = "second half"
  /\ UNCHANGED <<boot, restarts, blockage, counted, bus>>

WriteSecondHalf ==
  /\ publish = "second half"
  /\ chip' = [chip EXCEPT !.buffer[2] = blockage]
  /\ publish' \in {"request", "idle"}
  /\ UNCHANGED <<boot, restarts, blockage, counted, bus>>

WriteFails ==
  /\ publish \in {"first half", "second half"}
  /\ publish' = "idle"
  /\ UNCHANGED <<boot, restarts, chip, blockage, counted, bus>>

(* MCP_RTS_TX0; only a transfer without an error advances the sequence.    *)
RequestToSend ==
  /\ publish = "request"
  /\ publish' = "idle"
  /\ \/ /\ chip' = [chip EXCEPT !.pending = TRUE]
        /\ counted' \in {counted, counted \cup {blockage}}
     \/ UNCHANGED <<chip, counted>>
  /\ UNCHANGED <<boot, restarts, blockage, bus>>

-----------------------------------------------------------------------------
(* The chip: it changes its mode when the bus is quiet, and sends the      *)
(* buffer when the bus is free, again until a node acknowledges it.        *)

ChangeMode ==
  /\ chip.mode # chip.asked
  /\ chip' = [chip EXCEPT !.mode = chip.asked]
  /\ UNCHANGED <<boot, restarts, publish, blockage, counted, bus>>

Transmit ==
  /\ chip.mode = "normal" /\ chip.pending
  /\ chip' = [chip EXCEPT !.pending = FALSE]
  /\ bus' = Append(bus, [halves |-> chip.buffer, timed |-> chip.timed])
  /\ UNCHANGED <<boot, restarts, publish, blockage, counted>>

Starting ==
  \/ ResetCommand \/ BitTiming \/ InterruptMask \/ NormalMode
  \/ ModeStatus \/ ModeNotReached

Sending ==
  \/ Publish \/ ReadControl \/ WriteFirstHalf \/ WriteSecondHalf
  \/ WriteFails \/ RequestToSend

CanNext == Restart \/ Starting \/ Sending \/ ChangeMode \/ Transmit

CanSpec == CanInit /\ [][CanNext]_canVars

-----------------------------------------------------------------------------
Waiting == IF chip.pending THEN {chip.buffer[1]} ELSE {}
SentBlockages == {bus[k].halves[1] : k \in 1..Len(bus)}

(* send_frame and ir_spoke_can_publish_estimate: whatever transfers fail   *)
(* half-way, however long the bus is busy and wherever the program is      *)
(* restarted, every frame on the bus is one whole telemetry, sent with the *)
(* bit timing set, in the order of the blockages and once; and a telemetry *)
(* that the sequence counts is on the bus or still waits for it.           *)
TelemetryIsWhole ==
  /\ \A k \in 1..Len(bus) :
       /\ bus[k].timed
       /\ bus[k].halves[1] = bus[k].halves[2]
       /\ \A l \in 1..(k - 1) : bus[l].halves[1] < bus[k].halves[1]
  /\ boot = "ready" => counted \subseteq SentBlockages \cup Waiting
=============================================================================
