---------------------------- MODULE ZoteroUpload ----------------------------
(***************************************************************************)
(* docs/zotero_upload_pdfs.py: a list of datasheets is made into records   *)
(* of a Zotero collection, each with its PDF.  A run lists the titles in   *)
(* the collection once, skips those, and for every other title sends two   *)
(* requests, the record and its attachment.  Zotero may refuse a request,  *)
(* carry it out and lose the answer, or the run may be stopped; the script *)
(* is then started again.                                                  *)
(***************************************************************************)
EXTENDS Naturals, FiniteSets

CONSTANTS Titles,       \* the records of the script, numbered in their order
          Limit,        \* the items a listing returns (100)
          Others        \* items of the collection that are not the script's

ASSUME ZoteroAssumption ==
  /\ Titles \subseteq Nat /\ IsFiniteSet(Titles)
  /\ Limit \in Nat /\ Others \in Nat

VARIABLES documents,    \* documents[t]: the records with title t
          pdfs,         \* pdfs[t]: the attachments of those records
          upload        \* the run of the script

zoteroVars == <<documents, pdfs, upload>>

Stopped == [at |-> "stopped", existing |-> {}, todo |-> {}]

ZoteroInit ==
  /\ documents = [t \in Titles |-> 0]
  /\ pdfs = [t \in Titles |-> 0]
  /\ upload = Stopped

Present == {t \in Titles : documents[t] > 0}
Attached == {t \in Titles : pdfs[t] > 0}
Items == Others + Cardinality(Present) + Cardinality(Attached)

(* The listing names what is there, up to its limit: attachments count,    *)
(* and so do items of others, and any of the rest may be left out.         *)
Listings ==
  IF Items <= Limit THEN {Present} ELSE SUBSET Present

(* A plausible slip: the titles are not listed. *)
StartWithoutListing ==
  /\ upload.at = "stopped"
  /\ upload' = [at |-> "record", existing |-> {}, todo |-> Titles]
  /\ UNCHANGED <<documents, pdfs>>

ListTitles ==
  /\ upload.at = "stopped"
  /\ \E existing \in Listings :
       upload' = [at |-> "record", existing |-> existing, todo |-> Titles]
  /\ UNCHANGED <<documents, pdfs>>

First(t) == t \in upload.todo /\ \A u \in upload.todo : t <= u

Skip(t) ==
  /\ upload.at = "record" /\ First(t)
  /\ t \in upload.existing
  /\ upload' = [upload EXCEPT !.todo = @ \ {t}]
  /\ UNCHANGED <<documents, pdfs>>

(* saveItems: carried out or not, and answered with 201 or not. *)
SaveItem(t) ==
  /\ upload.at = "record" /\ First(t)
  /\ t \notin upload.existing
  /\ \/ /\ documents' = [documents EXCEPT ![t] = @ + 1]
        /\ upload' \in {[upload EXCEPT !.at = "attach"], Stopped}
     \/ UNCHANGED documents /\ upload' = Stopped
  /\ UNCHANGED pdfs

(* saveAttachment, after reading the file; any failure ends the run. *)
SaveAttachment(t) ==
  /\ upload.at = "attach" /\ First(t)
  /\ \/ /\ pdfs' = [pdfs EXCEPT ![t] = @ + 1]
        /\ upload' \in {[upload EXCEPT !.at = "record", !.todo = @ \ {t}], Stopped}
     \/ UNCHANGED pdfs /\ upload' = Stopped
  /\ UNCHANGED documents

Finish ==
  /\ upload.at = "record"
  /\ upload.todo = {}
  /\ upload' = Stopped
  /\ UNCHANGED <<documents, pdfs>>

Break == upload.at # "stopped" /\ upload' = Stopped /\ UNCHANGED <<documents, pdfs>>

ZoteroNext ==
  \/ ListTitles \/ Finish \/ Break
  \/ \E t \in Titles : Skip(t) \/ SaveItem(t) \/ SaveAttachment(t)

ZoteroSpec == ZoteroInit /\ [][ZoteroNext]_zoteroVars

-----------------------------------------------------------------------------
Fits == Others + 2 * Cardinality(Titles) <= Limit

(* However often the script fails, is stopped and started again, no record *)
(* is made twice and no PDF is attached without its record or twice, as    *)
(* long as the collection fits one listing.                                *)
NoDuplicateRecord ==
  Fits => \A t \in Titles : documents[t] <= 1 /\ pdfs[t] <= documents[t]
=============================================================================
