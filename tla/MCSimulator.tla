---------------------------- MODULE MCSimulator ----------------------------
(***************************************************************************)
(* The simulator on small instances.  A behaviour is spent on one scene,   *)
(* chosen at the start: the guard while files are written, the page with   *)
(* its server, a configuration, or the samples of a simulation.            *)
(***************************************************************************)
EXTENDS LocalServer, ConfigCheck, SampleChain, TLC

VARIABLE scene

vars == <<serverVars, configVars, sampleVars, scene>>

(* Around each limit, at each pair that is compared, and fractions.        *)
MCTyped ==
  [tx_gpio |-> {-10, 16, 20, 490},        rx_gpio |-> {10, 500},
   carrier |-> {250000, 499990, 600000},  duty |-> {10, 90},
   resolution |-> {4000000, 3000000, 2999990},
   mem |-> {100, 6000},                   queue |-> {0, 100},
   ratio |-> {40, 99},                    demod_duty |-> {10, 90},
   glitch |-> {0, 100},                   blocked_min |-> {100, 2500},
   blocked_max |-> {2500, 20000},         link_loss |-> {20000, 15000},
   count_min |-> {320},                   count_max |-> {240}]

Init ==
  /\ ServerInit /\ ConfigInit /\ SampleInit
  /\ scene \in {"guard", "page", "config", "samples"}
  /\ scene = "guard" => text.digest = contract.is /\ sheet.is = contract.is.nets
  /\ scene \in {"config", "samples"} => contract.is = [nets |-> sheet.is, rest |-> "broken"]

InGuard == scene = "guard" /\ ConnNext /\ UNCHANGED <<pageVars, request, configVars, sampleVars>>
InPage == scene = "page" /\ ServerNext /\ UNCHANGED <<configVars, sampleVars>>
InConfig == scene = "config" /\ ConfigNext /\ UNCHANGED <<serverVars, sampleVars>>
InSamples == scene = "samples" /\ SampleNext /\ UNCHANGED <<serverVars, configVars>>

Next == (InGuard \/ InPage \/ InConfig \/ InSamples) /\ UNCHANGED scene

Spec == Init /\ [][Next]_vars /\ ServerFairness
=============================================================================
