---------------------------- MODULE SampleChain ----------------------------
(***************************************************************************)
(* The digital half of simulation/ir_spoke_sim.py, a sample at a time: the *)
(* comparator with its hysteresis and delay, the carrier removal of the    *)
(* RMT receiver, and the currents of the 3.3 V rail that the samples are   *)
(* charged with.  The optics and the analog filters appear as the level of *)
(* the band-pass output, any level at any sample; the noise covers it.     *)
(* Currents are in units of the tables, rounded to naturals.               *)
(***************************************************************************)
EXTENDS Integers, Sequences

CONSTANTS Samples,      \* t.size
          Delay,        \* samples of comparator delay
          Hold,         \* hold_samples of rmt_carrier_remove
          Rise,         \* samples of the supply ramp
          CpuSamples,   \* samples_per_event, 0 without cpu_duty
          WifiSamples, CanSamples,
          Active, Waiti, WifiPeak, Overhead, Led, Base, AfeStatic, Inrush,
          Vref, EdgeCharge, CanIdle, CanDominant

ASSUME SampleAssumption ==
  /\ Samples \in Nat /\ Delay \in Nat /\ Rise \in Nat /\ CpuSamples \in Nat
  /\ Active \in Nat /\ Waiti \in Nat /\ WifiPeak \in Nat /\ Overhead \in Nat
  /\ Led \in Nat /\ Base \in Nat /\ AfeStatic \in Nat /\ Inrush \in Nat /\ Vref \in Nat
  /\ EdgeCharge \in Nat /\ CanIdle \in Nat /\ CanDominant \in Nat
  /\ Hold \in Nat \ {0}
  /\ WifiSamples \in 0..Samples /\ CanSamples \in 0..Samples

(* config/system.json: the radio's peak is the largest current of the chip. *)
ASSUME RadioIsLargest == Waiti <= WifiPeak /\ Active <= WifiPeak

VARIABLES ideal,        \* comparator_ideal, the samples so far
          comparator,   \* the same, delayed
          countdown,    \* of rmt_carrier_remove
          clear,        \* clear_digital, the samples so far
          cpu,          \* samples the CPU stays active
          vref,         \* vref_startup_extra_ma, decaying
          highest,      \* largest system current of the samples so far
          toggled       \* comparator_dynamic_ma.max() is not zero

sampleVars == <<ideal, comparator, countdown, clear, cpu, vref, highest, toggled>>

SampleInit ==
  /\ ideal = <<>> /\ comparator = <<>> /\ clear = <<>>
  /\ countdown = 0 /\ cpu = 0 /\ vref = Vref /\ highest = 0 /\ toggled = FALSE

Last(s) == s[Len(s)]

(* The state switches above the rising and below the falling threshold. *)
Switch(state, level) ==
  CASE level = "above" -> 1 [] level = "below" -> 0 [] OTHER -> state

Delayed(s) == IF Len(s) <= Delay THEN s[1] ELSE s[Len(s) - Delay]

(* A block of n samples in the middle: the Wi-Fi burst, the dominant bits. *)
Centred(n, i) == i >= (Samples - n) \div 2 /\ i < (Samples - n) \div 2 + n

(* esp32_current_ma + led + base + afe + can at sample i. *)
Current(i, carrier, active, extra, edge) ==
  (IF Centred(WifiSamples, i) THEN WifiPeak ELSE IF active THEN Active ELSE Waiti)
  + Overhead
  + (IF carrier THEN Led + Base ELSE 0)
  + AfeStatic + (IF i < Rise THEN Inrush ELSE 0) + extra
  + (IF edge THEN EdgeCharge ELSE 0)
  + CanIdle + (IF Centred(CanSamples, i) THEN CanDominant ELSE 0)

(* Plausible slip: the countdown starts one sample late. *)
RetriggerLate(edge) ==
  IF edge THEN Hold + 1 ELSE IF countdown > 0 THEN countdown - 1 ELSE 0

(* rmt_carrier_remove: a transition extends the clear state. *)
Retrigger(edge) ==
  IF edge THEN Hold ELSE IF countdown > 0 THEN countdown - 1 ELSE 0

Sample(level, carrier, extra) ==
  LET i == Len(ideal)
      state == Switch(IF i = 0 THEN 0 ELSE Last(ideal), level)
      delayed == Delayed(Append(ideal, state))
      edge == i > 0 /\ delayed # Last(comparator)
      present == IF Retrigger(edge) > 0 THEN 1 ELSE 0
      event == i > 0 /\ present # Last(clear)
      busy == IF event THEN CpuSamples ELSE IF cpu > 0 THEN cpu - 1 ELSE 0
      ma == Current(i, carrier, busy > 0, extra, edge)
  IN /\ i < Samples /\ extra <= vref
     /\ ideal' = Append(ideal, state)
     /\ comparator' = Append(comparator, delayed)
     /\ countdown' = Retrigger(edge)
     /\ clear' = Append(clear, present)
     /\ cpu' = busy
     /\ vref' = extra
     /\ highest' = IF ma > highest THEN ma ELSE highest
     /\ toggled' = (toggled \/ edge)

SampleNext ==
  \E level \in {"below", "between", "above"}, carrier \in BOOLEAN, extra \in 0..Vref :
    Sample(level, carrier, extra)

SampleSpec == SampleInit /\ [][SampleNext]_sampleVars

(* system_peak_estimate_ma; the slip forgets the dominant bits. *)
PeakUnlessDominant == WifiPeak + Overhead + Led + Base + AfeStatic + Inrush + Vref
  + (IF toggled THEN EdgeCharge ELSE 0) + CanIdle

PeakEstimate == WifiPeak + Overhead + Led + Base + AfeStatic + Inrush + Vref
  + (IF toggled THEN EdgeCharge ELSE 0) + CanIdle + CanDominant

-----------------------------------------------------------------------------
Transition(s, k) == s[k] # s[k - 1]

(* rmt_carrier_remove: the carrier counts as present exactly at the        *)
(* samples with a transition of the delayed comparator among the last      *)
(* Hold, so a blockage begins Hold samples after the last transition and   *)
(* ends with the next.                                                     *)
BlockedIffNoCarrier ==
  \A k \in 1..Len(clear) :
    (clear[k] = 1) <=> \E e \in 2..k : e > k - Hold /\ Transition(comparator, e)

(* ir_spoke_sim.py, simulate: the reported peak of the system current,     *)
(* which the check of the regulator's capacity uses, is never below a      *)
(* sample of the trace it is reported with.                                *)
PeakBoundsTrace == highest <= PeakEstimate

(* The chain is as long as its samples. *)
SampleTypeOK ==
  /\ ideal \in Seq({0, 1}) /\ comparator \in Seq({0, 1}) /\ clear \in Seq({0, 1})
  /\ Len(comparator) = Len(ideal) /\ Len(clear) = Len(ideal)
  /\ countdown \in 0..Hold /\ cpu \in 0..CpuSamples
  /\ vref \in 0..Vref /\ highest \in Nat /\ toggled \in BOOLEAN
=============================================================================
