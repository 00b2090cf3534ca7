---------------------------- MODULE LocalServer ----------------------------
(***************************************************************************)
(* The local simulator.  The page (local_simulator/index.html) sends its   *)
(* values 130 ms after the last edit, and the server                       *)
(* (simulation/local_server.py) answers each request in a thread of its    *)
(* own: it merges and validates the values, asks the connectivity guard,   *)
(* and simulates.  Requests overlap, answers arrive in any order.          *)
(*                                                                         *)
(* Values are named by the edit that made them, 0 being the defaults.      *)
(***************************************************************************)
EXTENDS Connectivity

CONSTANTS MaxEdits,     \* bound: edits of the user
          Bad           \* values that validate_code_parameters rejects, before
                        \* the guard, or simulate(), after it

ASSUME ServerAssumption == MaxEdits \in Nat /\ Bad \subseteq 1..MaxEdits

VARIABLES values,       \* the values of the page
          edits,        \* edits made
          timer,        \* schedule() has set the timeout
          resetting,    \* the button has asked for the defaults
          request,      \* the request that each thread serves
          result,       \* the values whose simulation the page shows
          config,       \* the values whose C configuration it offers
          status        \* the line of status, and whether its answer was overtaken

pageVars == <<values, edits, timer, resetting, result, config, status>>
serverVars == <<connVars, pageVars, request>>

NoRequest == [path |-> "none", values |-> 0, overtaken |-> FALSE, earlier |-> {}]
Flying(t) == request[t].path # "none"
Line(says) == [says |-> says, overtaken |-> FALSE]

(* init(): the defaults have arrived and are about to be simulated. *)
ServerInit ==
  /\ ConnInit
  /\ values = 0 /\ edits = 0 /\ timer = TRUE /\ resetting = FALSE
  /\ request = [t \in Threads |-> NoRequest]
  /\ result = 0 /\ config = 0
  /\ status = Line("starting")

-----------------------------------------------------------------------------
(* The page. *)

Edit ==
  /\ edits < MaxEdits
  /\ edits' = edits + 1 /\ values' = edits + 1
  /\ timer' = TRUE
  /\ UNCHANGED <<connVars, resetting, result, config, status, request>>

(* fetch: a free thread takes the request.  It knows the requests for      *)
(* simulations that were sent earlier and are not answered.                *)
Send(path, vals) ==
  \E t \in Threads :
    /\ ~Flying(t)
    /\ request' = [request EXCEPT ![t] =
         [path |-> path, values |-> vals, overtaken |-> FALSE,
          earlier |-> {u \in Threads : request[u].path = "simulate"}]]

Run ==
  /\ timer
  /\ timer' = FALSE
  /\ Send("simulate", values)
  /\ status' = Line("calculating")
  /\ UNCHANGED <<connVars, values, edits, resetting, result, config>>

ClickReset ==
  /\ ~resetting /\ edits < MaxEdits
  /\ resetting' = TRUE
  /\ UNCHANGED <<connVars, values, edits, timer, result, config, status, request>>

(* A plausible slip: the defaults are shown but not simulated. *)
ResetOnly ==
  /\ resetting
  /\ resetting' = FALSE
  /\ values' = 0
  /\ UNCHANGED <<connVars, edits, timer, result, config, status, request>>

(* The defaults arrive.  run() is called at once, and a timer that is set  *)
(* still fires.                                                            *)
Reset ==
  /\ resetting
  /\ resetting' = FALSE
  /\ values' = 0
  /\ Send("simulate", 0)
  /\ status' = Line("calculating")
  /\ UNCHANGED <<connVars, edits, timer, result, config>>

ClickGenerate ==
  /\ \A t \in Threads : request[t].path # "generate"
  /\ config # values
  /\ Send("generate", values)
  /\ UNCHANGED <<connVars, pageVars>>

-----------------------------------------------------------------------------
(* The server.  do_POST merges the values with the defaults and validates  *)
(* them, and simulate() starts with the guard.                             *)

Validate(t) ==
  /\ Flying(t)
  /\ Call(t)
  /\ UNCHANGED <<contract, sheet, text, gen, validated, pageVars, request>>

Serve(t) == Flying(t) /\ Guarding(t) /\ UNCHANGED <<pageVars, request>>

(* A plausible slip: the connection stays open when the thread has ended. *)
OutcomeUnlessExit(t) ==
  CASE GuardAt(t, "idle") /\ request[t].values \in Bad -> "400"
    [] GuardAt(t, "accepted") -> IF request[t].values \in Bad THEN "400" ELSE "200"
    [] GuardAt(t, "refused") -> IF Valid(guard[t].contract) THEN "500" ELSE "400"
    [] OTHER -> "none"

(* What comes back: the ValueErrors, that of an invalid contract included, *)
(* are 400, what else the guard raises is 500, and a SystemExit ends the   *)
(* thread, which closes the connection.                                    *)
Outcome(t) ==
  CASE GuardAt(t, "idle") /\ request[t].values \in Bad -> "400"
    [] GuardAt(t, "accepted") -> IF request[t].values \in Bad THEN "400" ELSE "200"
    [] GuardAt(t, "refused") -> IF Valid(guard[t].contract) THEN "500" ELSE "400"
    [] GuardAt(t, "exit") -> "closed"
    [] OTHER -> "none"

(* The answer arrives, and the page shows it whatever was answered before. *)
(* Nobody catches the error of a configuration's closed connection.        *)
Answer(t) ==
  /\ Flying(t) /\ Outcome(t) # "none"
  /\ LET r == request[t] IN
     /\ request' = [u \in Threads |->
          IF u = t THEN NoRequest
          ELSE [request[u] EXCEPT
                  !.overtaken = @ \/ (r.path = "simulate" /\ u \in r.earlier),
                  !.earlier = @ \ {t}]]
     /\ CASE Outcome(t) = "200" /\ r.path = "simulate" ->
               /\ status' = [says |-> "model current", overtaken |-> r.overtaken]
               /\ result' = r.values
               /\ UNCHANGED config
          [] Outcome(t) = "200" /\ r.path = "generate" ->
               status' = Line("C config generated") /\ config' = r.values /\ UNCHANGED result
          [] Outcome(t) = "closed" /\ r.path = "generate" ->
               UNCHANGED <<status, result, config>>
          [] OTHER -> status' = Line("error") /\ UNCHANGED <<result, config>>
  /\ guard' = [guard EXCEPT ![t] = NotCalled]
  /\ UNCHANGED <<contract, sheet, text, gen, validated, values, edits, timer, resetting>>

Page == Edit \/ Run \/ ClickReset \/ Reset \/ ClickGenerate
Thread(t) == Validate(t) \/ Serve(t) \/ Answer(t)

ServerNext == Page \/ \E t \in Threads : Thread(t)

ServerSpec == ServerInit /\ [][ServerNext]_serverVars

(* Timers fire, threads run and answers arrive. *)
ServerFairness ==
  /\ \A t \in Threads : WF_serverVars(Thread(t))
  /\ WF_serverVars(Run) /\ WF_serverVars(Reset)

-----------------------------------------------------------------------------
(* index.html, run and schedule: when nothing is under way and the page    *)
(* says "model current", it shows the simulation of its values, unless the *)
(* answer it shows was overtaken by that of a later request.               *)
SettledPageIsCurrent ==
  (\A t \in Threads : ~Flying(t)) /\ ~timer /\ ~resetting
    /\ status.says = "model current" /\ ~status.overtaken => result = values

(* index.html, run: the page never calculates for ever, whatever the       *)
(* server does with the request: validation errors, a guard that refuses   *)
(* and a guard that exits the thread all end in an answer or a closed      *)
(* connection.                                                             *)
CalculatingEnds == status.says = "calculating" ~> status.says # "calculating"
=============================================================================
