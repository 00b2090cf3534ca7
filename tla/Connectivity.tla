---------------------------- MODULE Connectivity ----------------------------
(***************************************************************************)
(* The electrical contract and its guard.  hardware/connectivity.json is   *)
(* the contract, the KiCad schematic the drawing that must agree with it,  *)
(* and simulation/generated_connectivity.inc the SPICE text made from it   *)
(* by tools/generate_connectivity.py.  simulation/connectivity_guard.py    *)
(* lets a simulation start only when the text is that of the contract and  *)
(* the drawing agrees; it remembers the modification times it has checked, *)
(* in a global that all threads of the simulator share.                    *)
(*                                                                         *)
(* A contract is its nets, which the drawing repeats, and the rest (the    *)
(* harness, the probes); hashes are compared as what they are hashes of.   *)
(* A modification time counts the writes of its file.                      *)
(***************************************************************************)
EXTENDS Naturals

CONSTANTS Nets,         \* the pin assignments a contract may make
          Rests,        \* the rest of a contract; "broken" fails its validation
          Threads,      \* threads that call the guard
          MaxWrites     \* bound: writes of each file

ASSUME ConnectivityAssumption == MaxWrites \in Nat /\ "broken" \in Rests

VARIABLES contract,     \* hardware/connectivity.json
          sheet,        \* the schematic
          text,         \* the generated SPICE text
          gen,          \* the run of generate_connectivity.py
          guard,        \* the call of each thread
          validated     \* _validated_key

connVars == <<contract, sheet, text, gen, guard, validated>>

Contracts == [nets : Nets, rest : Rests]
Valid(c) == c.rest # "broken"
NeverValidated == <<MaxWrites + 1, 0, 0>>
Key == <<contract.mtime, sheet.mtime, text.mtime>>
NotRunning == [at |-> "idle", nets |-> "none"]
NotCalled == [at |-> "idle", contract |-> [nets |-> "none", rest |-> "none"],
              endpoints |-> "none", nets |-> "none",
              key |-> NeverValidated]
GuardAt(t, place) == guard[t].at = place

(* The text was made for some valid contract; contract and drawing may     *)
(* have been edited since.                                                 *)
ConnInit ==
  /\ \E c \in Contracts, n \in Nets : contract = [is |-> c, mtime |-> 0] /\ sheet = [is |-> n, mtime |-> 0]
  /\ \E c \in Contracts :
       /\ Valid(c)
       /\ text = [digest |-> c, endpoints |-> c.nets, mtime |-> 0]
  /\ gen = NotRunning
  /\ guard = [t \in Threads |-> NotCalled]
  /\ validated = NeverValidated

-----------------------------------------------------------------------------
(* Editors of the contract and of the drawing. *)

EditContract ==
  /\ contract.mtime < MaxWrites
  /\ \E c \in Contracts \ {contract.is} :
       contract' = [is |-> c, mtime |-> contract.mtime + 1]
  /\ UNCHANGED <<sheet, text, gen, guard, validated>>

EditSheet ==
  /\ sheet.mtime < MaxWrites
  /\ \E n \in Nets \ {sheet.is} : sheet' = [is |-> n, mtime |-> sheet.mtime + 1]
  /\ UNCHANGED <<contract, text, gen, guard, validated>>

-----------------------------------------------------------------------------
(* generate(): the drawing is exported and compared with the contract, the *)
(* contract is read again, validated, and the text is written.             *)

ExportForGenerator ==
  /\ gen.at = "idle"
  /\ gen' = [at |-> "compare", nets |-> sheet.is]
  /\ UNCHANGED <<contract, sheet, text, guard, validated>>

CompareForGenerator ==
  /\ gen.at = "compare"
  /\ gen' = IF contract.is.nets = gen.nets THEN [gen EXCEPT !.at = "write"] ELSE NotRunning
  /\ UNCHANGED <<contract, sheet, text, guard, validated>>

WriteText ==
  /\ gen.at = "write"
  /\ gen' = NotRunning
  /\ IF Valid(contract.is)
       THEN /\ text.mtime < MaxWrites
            /\ text' = [digest |-> contract.is, endpoints |-> gen.nets, mtime |-> text.mtime + 1]
       ELSE UNCHANGED text
  /\ UNCHANGED <<contract, sheet, guard, validated>>

-----------------------------------------------------------------------------
(* validate_simulation_connectivity(), called by thread t.  It ends in     *)
(* "accepted", in "refused" (an exception) or in "exit" (SystemExit).      *)

Call(t) ==
  /\ GuardAt(t, "idle")
  /\ guard' = [guard EXCEPT ![t].at = "contract"]

ReadContract(t) ==
  /\ GuardAt(t, "contract")
  /\ guard' = [guard EXCEPT ![t].at = IF Valid(contract.is) THEN "text" ELSE "refused",
                            ![t].contract = contract.is]

ReadText(t) ==
  /\ GuardAt(t, "text")
  /\ guard' = [guard EXCEPT ![t].at = IF text.digest = guard[t].contract THEN "stat" ELSE "refused",
                            ![t].endpoints = text.endpoints]

(* The modification times are taken before the drawing is exported. *)
Stat(t) ==
  /\ GuardAt(t, "stat")
  /\ guard' = [guard EXCEPT ![t].at = IF Key = validated THEN "accepted" ELSE "export",
                            ![t].key = Key]

Export(t) ==
  /\ GuardAt(t, "export")
  /\ guard' = [guard EXCEPT ![t].at = "compare", ![t].nets = sheet.is]

(* validate() of the netlist reads the contract anew, and exits on any     *)
(* difference.                                                             *)
Compare(t) ==
  /\ GuardAt(t, "compare")
  /\ guard' = [guard EXCEPT ![t].at = IF contract.is.nets = guard[t].nets THEN "remember" ELSE "exit"]

ReadingGuard(t) ==
  /\ ReadContract(t) \/ ReadText(t) \/ Stat(t) \/ Export(t) \/ Compare(t)
  /\ UNCHANGED <<contract, sheet, text, gen, validated>>

(* The endpoints the text was made for are those of the drawing: the key   *)
(* is remembered.                                                          *)
RememberKey(t, key) ==
  /\ GuardAt(t, "remember")
  /\ IF guard[t].endpoints = guard[t].nets
       THEN /\ validated' = key
            /\ guard' = [guard EXCEPT ![t].at = "accepted"]
       ELSE /\ guard' = [guard EXCEPT ![t].at = "refused"]
            /\ UNCHANGED validated
  /\ UNCHANGED <<contract, sheet, text, gen>>

(* A plausible slip: the modification times are those after the check. *)
RememberLatest(t) == RememberKey(t, Key)

Remember(t) == RememberKey(t, guard[t].key)

Guarding(t) == ReadingGuard(t) \/ Remember(t)

Writing == EditContract \/ EditSheet \/ ExportForGenerator \/ CompareForGenerator \/ WriteText

(* A thread that calls the guard whenever it likes. *)
Calling(t) ==
  \/ Call(t) /\ UNCHANGED <<contract, sheet, text, gen, validated>>
  \/ /\ guard[t].at \in {"accepted", "refused", "exit"}
     /\ guard' = [guard EXCEPT ![t] = NotCalled]
     /\ UNCHANGED <<contract, sheet, text, gen, validated>>

ConnNext == Writing \/ \E t \in Threads : Guarding(t) \/ Calling(t)

ConnSpec == ConnInit /\ [][ConnNext]_connVars

-----------------------------------------------------------------------------
(* While the files have the modification times the guard remembers, the    *)
(* drawing agrees with the contract: what it skips it need not check,      *)
(* whatever was saved or generated while a thread was checking.            *)
RememberedKeyIsSound == validated = Key => sheet.is = contract.is.nets
=============================================================================
