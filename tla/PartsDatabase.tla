--------------------------- MODULE PartsDatabase ---------------------------
(***************************************************************************)
(* The parts snapshot and the database made from it.                       *)
(* tools/refresh_jlc_links.py looks every part of the BOMs up and writes   *)
(* the snapshot; tools/build_konnect_jlc_db.py turns a snapshot without    *)
(* failed or missing parts into a SQLite file beside the database, moves   *)
(* it over the database, and records its hash.  Any run may be interrupted *)
(* at any step, and several builds may run at once.                        *)
(***************************************************************************)
EXTENDS Naturals

CONSTANTS Parts,        \* JLCPCB part numbers, looked up in their order
          Boms,         \* what the BOM files may list: library by part number
          Builders,     \* runs of build_konnect_jlc_db.py
          MaxSnapshots  \* bound: snapshots begun

Libraries == {"Basic", "Extended"}

ASSUME PartsAssumption ==
  /\ Parts \subseteq Nat
  /\ MaxSnapshots \in Nat
  /\ \A b \in Boms : DOMAIN b \subseteq Parts

VARIABLES bom,          \* the BOM files: "Basic", "Extended" or "cable" by part
          snapshot,     \* jlcpcb_parts_snapshot.json; torn while it is written
          refresh,      \* the run of refresh_jlc_links.py
          build,        \* the builds, with the temporary file of each
          database,     \* the database Konnect opens
          record,       \* konnect_database_manifest.json
          taken         \* history: the snapshots written so far

partsVars == <<bom, snapshot, refresh, build, database, record, taken>>

Nothing == [n \in {} |-> "Extended"]
NoSnapshot == [stamp |-> 0, parts |-> Nothing]
Waiting == [at |-> "idle", todo |-> {}, got |-> Nothing]
NoBuild == [at |-> "idle", source |-> NoSnapshot, rows |-> Nothing, stored |-> {}]
BuildAt(b, place) == build[b].at = place

PartsInit ==
  /\ bom \in Boms
  /\ snapshot = [torn |-> TRUE, content |-> NoSnapshot]
  /\ refresh = Waiting
  /\ build = [b \in Builders |-> NoBuild]
  /\ database = [stamp |-> 0, rows |-> Nothing]
  /\ record = [digest |-> database, stamp |-> 0]
  /\ taken = {}

EditBom ==
  /\ bom' \in Boms \ {bom}
  /\ UNCHANGED <<snapshot, refresh, build, database, record, taken>>

-----------------------------------------------------------------------------
(* refresh_jlc_links.py *)

(* part_numbers() of both BOM files, each number once. *)
BeginRefresh ==
  /\ refresh.at = "idle"
  /\ refresh' = [at |-> "lookup", todo |-> DOMAIN bom, got |-> Nothing]
  /\ UNCHANGED <<bom, snapshot, build, database, record, taken>>

(* The parts are looked up by number; a record says what is in stock. *)
Lookup ==
  /\ refresh.at = "lookup"
  /\ \E n \in refresh.todo, status \in {"stocked", "empty"} :
       /\ \A m \in refresh.todo : n <= m
       /\ refresh' = [refresh EXCEPT
            !.todo = @ \ {n},
            !.got = [m \in DOMAIN @ \cup {n} |-> IF m = n THEN status ELSE @[m]]]
  /\ UNCHANGED <<bom, snapshot, build, database, record, taken>>

(* write_text empties the file before it fills it. *)
OpenSnapshot ==
  /\ refresh.at = "lookup"
  /\ refresh.todo = {}
  /\ snapshot.content.stamp < MaxSnapshots
  /\ snapshot' = [snapshot EXCEPT !.torn = TRUE]
  /\ refresh' = [refresh EXCEPT !.at = "write"]
  /\ UNCHANGED <<bom, build, database, record, taken>>

FillSnapshot ==
  /\ refresh.at = "write"
  /\ LET s == [stamp |-> snapshot.content.stamp + 1, parts |-> refresh.got]
     IN  /\ snapshot' = [torn |-> FALSE, content |-> s]
         /\ taken' = taken \cup {s}
  /\ refresh' = Waiting
  /\ UNCHANGED <<bom, build, database, record>>

(* One failed lookup ends the run, and so does an interruption. *)
RefreshStops ==
  /\ refresh.at # "idle"
  /\ refresh' = Waiting
  /\ UNCHANGED <<bom, snapshot, build, database, record, taken>>

-----------------------------------------------------------------------------
(* build_konnect_jlc_db.py *)

Sound(s) == \A n \in DOMAIN s.parts : s.parts[n] = "stocked"

(* A plausible slip: the snapshot is not searched for bad records. *)
ReadAnySnapshot(b) ==
  /\ BuildAt(b, "idle")
  /\ ~snapshot.torn
  /\ build' = [build EXCEPT ![b] = [at |-> "classify", source |-> snapshot.content,
                                    rows |-> Nothing, stored |-> {}]]
  /\ UNCHANGED <<bom, snapshot, refresh, database, record, taken>>

(* A torn snapshot is no JSON, and an unsound one is refused. *)
ReadSnapshot(b) ==
  /\ BuildAt(b, "idle")
  /\ ~snapshot.torn
  /\ Sound(snapshot.content)
  /\ build' = [build EXCEPT ![b] = [at |-> "classify", source |-> snapshot.content,
                                    rows |-> Nothing, stored |-> {}]]
  /\ UNCHANGED <<bom, snapshot, refresh, database, record, taken>>

(* The library of a part is what the board's BOM says now; what it does    *)
(* not list, or lists otherwise, is Extended.                              *)
Library(n) == IF n \in DOMAIN bom /\ bom[n] = "Basic" THEN "Basic" ELSE "Extended"

Classify(b) ==
  /\ BuildAt(b, "classify")
  /\ LET s == build[b].source
     IN  build' = [build EXCEPT ![b] = [at |-> "insert", source |-> s,
                    rows |-> [n \in DOMAIN s.parts |-> Library(n)], stored |-> {}]]
  /\ UNCHANGED <<bom, snapshot, refresh, database, record, taken>>

InsertRow(b) ==
  /\ BuildAt(b, "insert")
  /\ \E n \in DOMAIN build[b].rows \ build[b].stored :
       /\ \A m \in DOMAIN build[b].rows \ build[b].stored : n <= m
       /\ build' = [build EXCEPT ![b].stored = @ \cup {n}]
  /\ UNCHANGED <<bom, snapshot, refresh, database, record, taken>>

Commit(b) ==
  /\ BuildAt(b, "insert")
  /\ build[b].stored = DOMAIN build[b].rows
  /\ build' = [build EXCEPT ![b].at = "replace"]
  /\ UNCHANGED <<bom, snapshot, refresh, database, record, taken>>

TemporaryFile(b) ==
  [stamp |-> build[b].source.stamp,
   rows  |-> [n \in build[b].stored |-> build[b].rows[n]]]

(* os.replace: the database is the old file or the new one. *)
ReplaceDatabase(b) ==
  /\ BuildAt(b, "replace")
  /\ database' = TemporaryFile(b)
  /\ build' = [build EXCEPT ![b].at = "record"]
  /\ UNCHANGED <<bom, snapshot, refresh, record, taken>>

(* The hash is taken of the file that is there now. *)
WriteRecord(b) ==
  /\ BuildAt(b, "record")
  /\ record' = [digest |-> database, stamp |-> build[b].source.stamp]
  /\ build' = [build EXCEPT ![b] = NoBuild]
  /\ UNCHANGED <<bom, snapshot, refresh, database, taken>>

(* An exception removes the temporary file; a killed run leaves one behind *)
(* that nobody opens again.                                                *)
BuildStops(b) ==
  /\ ~BuildAt(b, "idle")
  /\ build' = [build EXCEPT ![b] = NoBuild]
  /\ UNCHANGED <<bom, snapshot, refresh, database, record, taken>>

BuildNext(b) ==
  \/ ReadSnapshot(b) \/ Classify(b) \/ InsertRow(b) \/ Commit(b)
  \/ ReplaceDatabase(b) \/ WriteRecord(b) \/ BuildStops(b)

PartsNext ==
  \/ EditBom
  \/ BeginRefresh \/ Lookup \/ OpenSnapshot \/ FillSnapshot \/ RefreshStops
  \/ \E b \in Builders : BuildNext(b)

PartsSpec == PartsInit /\ [][PartsNext]_partsVars

-----------------------------------------------------------------------------
(* The two scripts implement the catalogue: whatever is interrupted,       *)
(* overtaken or run twice, Konnect finds the old database or a new one     *)
(* with every part of one snapshot, all of them in stock.                  *)
Catalogue == INSTANCE PartsCatalogue WITH snapshots <- taken, published <- database

ImplementsCatalogue == Catalogue!Spec
=============================================================================
