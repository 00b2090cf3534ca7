--------------------------- MODULE PartsCatalogue ---------------------------
(***************************************************************************)
(* What the parts database promises to Konnect, its reader: there is one   *)
(* database at a time, it changes in one step, and it holds every part of  *)
(* one snapshot of the JLCPCB catalogue in which all of them were in stock.*)
(***************************************************************************)
EXTENDS Naturals

CONSTANT Parts          \* the JLCPCB part numbers

Libraries == {"Basic", "Extended"}

VARIABLES snapshots,    \* the snapshots taken so far
          published     \* the database, and the snapshot it was made from

AllStocked(s) == \A n \in DOMAIN s.parts : s.parts[n] = "stocked"

Init ==
  /\ snapshots = {}
  /\ published = [stamp |-> 0, rows |-> [n \in {} |-> "Extended"]]

(* A snapshot lists some parts, each in stock or not. *)
Take ==
  /\ snapshots \subseteq snapshots'
  /\ UNCHANGED published

Publish ==
  /\ \E s \in snapshots :
       /\ AllStocked(s)
       /\ \E rows \in [DOMAIN s.parts -> Libraries] :
            published' = [stamp |-> s.stamp, rows |-> rows]
  /\ UNCHANGED snapshots

Next == Take \/ Publish

Spec == Init /\ [][Next]_<<snapshots, published>>
=============================================================================
