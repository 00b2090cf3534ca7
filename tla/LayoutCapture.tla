--------------------------- MODULE LayoutCapture ---------------------------
(***************************************************************************)
(* Capturing and restoring the layout (hardware/ir_spoke_link).  KiCad     *)
(* editors save the schematic and the board; capture_layout.py checks both *)
(* and copies them to templates with a manifest of their hashes and of the *)
(* routing; generate_pcb.py and generate_schematic.py restore them from    *)
(* templates that match the manifest; verify_project_entry.py repairs the  *)
(* project file when the board is the captured one.                        *)
(*                                                                         *)
(* A file is the number of the save that made it, which stands for its     *)
(* hash.  What a save contains is given by the constants: the routing of a *)
(* board, and which boards and schematics pass the checks.  The window     *)
(* preferences are not modelled apart from the board they are copied with. *)
(***************************************************************************)
EXTENDS Naturals

CONSTANTS Contents,     \* the saves of each file, a set of numbers
          Routing,      \* Routing[b]: the tracks and vias of board b
          RouteText,    \* RouteText[b]: their text in the file
          CleanBoards,  \* the boards that pass DRC
          CleanSheets   \* the schematics that pass ERC and the netlist check

ASSUME LayoutAssumption ==
  /\ Contents \subseteq Nat /\ 0 \in Contents
  /\ DOMAIN Routing = Contents /\ DOMAIN RouteText = Contents
  /\ CleanBoards \subseteq Contents /\ CleanSheets \subseteq Contents

(* The layout the repository starts with was captured clean. *)
ASSUME CleanStart == 0 \in CleanBoards /\ 0 \in CleanSheets

VARIABLES work,         \* the sheet and the board KiCad works on
          locks,        \* the editors that are open
          template,     \* the captured copies
          layoutManifest,
          entry,        \* the project file names the sheet as its top level
          capture,      \* the run of capture_layout.py
          restore,      \* what generate_pcb.py or generate_schematic.py is about to replace
          captured,     \* history: the pair that was there when the board was copied
                        \* by the last capture that was recorded
          intruded      \* history: an editor was opened during a capture

layoutVars == <<work, locks, template, layoutManifest, entry, capture, restore,
                captured, intruded>>

Editors == {"sheet", "board"}
Files == [sheet : Contents, board : Contents]
Resting == [at |-> "idle", route |-> Routing[0], text |-> RouteText[0],
            pair |-> [sheet |-> 0, board |-> 0]]
Capturing == capture.at # "idle"

LayoutInit ==
  /\ work = [sheet |-> 0, board |-> 0]
  /\ locks = {}
  /\ template = work
  /\ layoutManifest = [sheet |-> 0, board |-> 0,
                       route |-> Routing[0], text |-> RouteText[0]]
  /\ entry = TRUE
  /\ capture = Resting
  /\ restore = "nothing"
  /\ captured = work
  /\ intruded = FALSE

-----------------------------------------------------------------------------
(* KiCad: an editor holds the lock of its file from opening to closing.    *)

OpenEditor(f) ==
  /\ f \notin locks
  /\ locks' = locks \cup {f}
  /\ intruded' = (intruded \/ Capturing)
  /\ UNCHANGED <<work, template, layoutManifest, entry, capture, restore, captured>>

SaveFile(f) ==
  /\ f \in locks
  /\ \E c \in Contents : work' = [work EXCEPT ![f] = c]
  /\ UNCHANGED <<locks, template, layoutManifest, entry, capture, restore, captured, intruded>>

(* Closing the project may leave another list of top-level sheets behind. *)
CloseEditor(f) ==
  /\ f \in locks
  /\ locks' = locks \ {f}
  /\ entry' \in {entry, FALSE}
  /\ UNCHANGED <<work, template, layoutManifest, capture, restore, captured, intruded>>

-----------------------------------------------------------------------------
(* capture_layout.py *)

Goes(from, to) == capture.at = from /\ capture' = [capture EXCEPT !.at = to]
Refuses == capture' = Resting

(* A plausible slip: the locks are not looked for. *)
BeginWithoutLocks ==
  /\ capture.at = "idle"
  /\ Goes("idle", "signature")
  /\ UNCHANGED <<work, locks, template, layoutManifest, entry, restore, captured, intruded>>

BeginCapture ==
  /\ capture.at = "idle"
  /\ locks = {}
  /\ Goes("idle", "signature")
  /\ UNCHANGED <<work, locks, template, layoutManifest, entry, restore, captured, intruded>>

TakeSignature ==
  /\ capture.at = "signature"
  /\ capture' = [capture EXCEPT !.at = "text", !.route = Routing[work.board]]
  /\ UNCHANGED <<work, locks, template, layoutManifest, entry, restore, captured, intruded>>

TakeRouteText ==
  /\ capture.at = "text"
  /\ capture' = [capture EXCEPT !.at = "drc", !.text = RouteText[work.board]]
  /\ UNCHANGED <<work, locks, template, layoutManifest, entry, restore, captured, intruded>>

RunDrc ==
  /\ capture.at = "drc"
  /\ IF work.board \in CleanBoards THEN Goes("drc", "erc") ELSE Refuses
  /\ UNCHANGED <<work, locks, template, layoutManifest, entry, restore, captured, intruded>>

(* ERC, and tools/validate_kicad_netlist.py on the same schematic. *)
RunErc ==
  /\ capture.at = "erc"
  /\ IF work.sheet \in CleanSheets THEN Goes("erc", "copy sheet") ELSE Refuses
  /\ UNCHANGED <<work, locks, template, layoutManifest, entry, restore, captured, intruded>>

CopySheet ==
  /\ Goes("copy sheet", "copy board")
  /\ template' = [template EXCEPT !.sheet = work.sheet]
  /\ UNCHANGED <<work, locks, layoutManifest, entry, restore, captured, intruded>>

CopyBoard ==
  /\ capture.at = "copy board"
  /\ template' = [template EXCEPT !.board = work.board]
  /\ capture' = [capture EXCEPT !.at = "record", !.pair = work]
  /\ UNCHANGED <<work, locks, layoutManifest, entry, restore, captured, intruded>>

(* The hashes are those of the copies, the routing is that of the first step. *)
WriteLayoutManifest ==
  /\ capture.at = "record"
  /\ layoutManifest' = [sheet |-> template.sheet, board |-> template.board,
                        route |-> capture.route, text |-> capture.text]
  /\ captured' = capture.pair
  /\ capture' = Resting
  /\ UNCHANGED <<work, locks, template, entry, restore, intruded>>

InterruptCapture ==
  /\ Capturing
  /\ Refuses
  /\ UNCHANGED <<work, locks, template, layoutManifest, entry, restore, captured, intruded>>

-----------------------------------------------------------------------------
(* generate_schematic.py and generate_pcb.py *)

(* A plausible slip: the hash of the schematic's template is not compared. *)
SheetAcceptedUnread == template.sheet \in Contents

SheetAccepted == template.sheet = layoutManifest.sheet

BoardAccepted ==
  /\ template.board = layoutManifest.board
  /\ Routing[template.board] = layoutManifest.route
  /\ RouteText[template.board] = layoutManifest.text

Accepted(f) == IF f = "sheet" THEN SheetAccepted ELSE BoardAccepted

BeginRestore(f) ==
  /\ restore = "nothing"
  /\ Accepted(f)
  /\ restore' = f
  /\ UNCHANGED <<work, locks, template, layoutManifest, entry, capture, captured, intruded>>

(* The copy appears under its name at once (os.replace), open editors or not. *)
Replace(f) ==
  /\ restore = f
  /\ work' = [work EXCEPT ![f] = template[f]]
  /\ restore' = "nothing"
  /\ UNCHANGED <<locks, template, layoutManifest, entry, capture, captured, intruded>>

InterruptRestore ==
  /\ restore # "nothing"
  /\ restore' = "nothing"
  /\ UNCHANGED <<work, locks, template, layoutManifest, entry, capture, captured, intruded>>

(* verify_project_entry.py: refuses a board that is not the captured one,  *)
(* and rewrites the project file only while no editor of it is open.       *)
VerifyEntry ==
  /\ template.board = layoutManifest.board
  /\ work.board = layoutManifest.board
  /\ ~entry
  /\ "board" \notin locks
  /\ entry' = TRUE
  /\ UNCHANGED <<work, locks, template, layoutManifest, capture, restore, captured, intruded>>

LayoutNext ==
  \/ \E f \in Editors : \/ OpenEditor(f) \/ SaveFile(f) \/ CloseEditor(f)
                        \/ BeginRestore(f) \/ Replace(f)
  \/ InterruptRestore
  \/ BeginCapture \/ TakeSignature \/ TakeRouteText \/ RunDrc \/ RunErc
  \/ CopySheet \/ CopyBoard \/ WriteLayoutManifest \/ InterruptCapture
  \/ VerifyEntry

LayoutSpec == LayoutInit /\ [][LayoutNext]_layoutVars

-----------------------------------------------------------------------------
(* What the restoring scripts accept together is the last capture: the two *)
(* files that were there at one time when it copied them, both checked.  A *)
(* capture that is refused or interrupted anywhere, and may leave one new  *)
(* template beside an old one, leaves nothing that both scripts accept but *)
(* what the capture before it has recorded.  It holds as long as no editor *)
(* is opened during a capture: the locks are looked for only once.         *)
AcceptedIsOneCapture ==
  SheetAccepted /\ BoardAccepted /\ ~intruded =>
    /\ template = captured
    /\ template.board \in CleanBoards
    /\ template.sheet \in CleanSheets
=============================================================================
