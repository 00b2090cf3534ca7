---------------------------- MODULE ReadmeRender ----------------------------
(***************************************************************************)
(* The README's picture of the board (tools/readme_pcb_render.py): the     *)
(* KiCad command line renders the same board file as the interactive BOM   *)
(* is drawn from, the size of the picture is checked, and a manifest       *)
(* records the hashes of both.  An image is the board it shows, and        *)
(* whether its header has the size the README expects; a torn file shows   *)
(* no board, but its header may be whole.                                  *)
(***************************************************************************)
EXTENDS InteractiveBom

VARIABLES image,            \* the file at OUTPUT
          renderManifest,   \* the hashes of the board and of the image
          render,           \* the run of --generate
          renderOvertaken   \* history: the board changed between its use and its hash

renderVars == <<image, renderManifest, render, renderOvertaken>>

Torn == [of : {Edited}, sized : BOOLEAN]
RenderAt(places) == render.at \in places
AtRest == [at |-> "idle", from |-> 0, source |-> 0]

RenderInit ==
  /\ image = [of |-> 0, sized |-> TRUE]
  /\ renderManifest = [source |-> 0, image |-> image]
  /\ render = AtRest
  /\ renderOvertaken = FALSE

(* A save of the board, as the render sees it. *)
SaveUnderRender ==
  /\ Save
  /\ renderOvertaken' = (renderOvertaken \/ RenderAt({"render", "size", "hash"}))
  /\ UNCHANGED <<image, renderManifest, render>>

RemoveUnderRender == Remove /\ UNCHANGED renderVars

(* generate() begins: the command line is looked for, and may be missing.  *)
FindKicadCli ==
  /\ RenderAt({"idle"})
  /\ render' = [render EXCEPT !.at = "load"]
  /\ UNCHANGED <<bomVars, image, renderManifest, renderOvertaken>>

RenderLoads ==
  /\ RenderAt({"load"})
  /\ there
  /\ render' = [render EXCEPT !.at = "render", !.from = board]
  /\ UNCHANGED <<bomVars, image, renderManifest, renderOvertaken>>

(* The picture is written, of the expected size or (another KiCad) not. *)
RenderWrites ==
  /\ RenderAt({"render"})
  /\ \E sized \in BOOLEAN : image' = [of |-> render.from, sized |-> sized]
  /\ render' = [render EXCEPT !.at = "size"]
  /\ UNCHANGED <<bomVars, renderManifest, renderOvertaken>>

(* A picture of another size ends the run before the manifest is touched. *)
CheckSize ==
  /\ RenderAt({"size"})
  /\ render' = IF image.sized THEN [render EXCEPT !.at = "hash"] ELSE AtRest
  /\ UNCHANGED <<bomVars, image, renderManifest, renderOvertaken>>

(* expected_metadata hashes the board, then the picture. *)
HashForManifest ==
  /\ RenderAt({"hash"})
  /\ there
  /\ render' = [render EXCEPT !.at = "record", !.source = board]
  /\ UNCHANGED <<bomVars, image, renderManifest, renderOvertaken>>

WriteRenderManifest ==
  /\ RenderAt({"record"})
  /\ renderManifest' = [source |-> render.source, image |-> image]
  /\ render' = AtRest
  /\ UNCHANGED <<bomVars, image, renderOvertaken>>

(* The command fails or is interrupted, perhaps with half a picture on     *)
(* disk, or the board is away when it is needed.                           *)
RenderStops ==
  /\ \/ RenderAt({"load"}) /\ UNCHANGED image
     \/ RenderAt({"render"}) /\ image' \in {image} \cup Torn
     \/ RenderAt({"hash"}) /\ ~there /\ UNCHANGED image
  /\ render' = AtRest
  /\ UNCHANGED <<bomVars, renderManifest, renderOvertaken>>

RenderNext ==
  \/ SaveUnderRender \/ RemoveUnderRender
  \/ FindKicadCli \/ RenderLoads \/ RenderWrites \/ CheckSize
  \/ HashForManifest \/ WriteRenderManifest \/ RenderStops

(* Both tools at one board. *)
BomUnderRender ==
  /\ \/ EditPage \/ Serve \/ StartWatch \/ Look \/ Update \/ Generate("serve")
     \/ ByHand \/ Browsing
  /\ UNCHANGED renderVars

BoardSpec ==
  /\ BomInit /\ RenderInit
  /\ [][RenderNext \/ BomUnderRender]_<<bomVars, renderVars>>

(* check(): the size, and every entry of the manifest but the wording. *)
RenderCheckPasses ==
  /\ there
  /\ image.sized
  /\ renderManifest = [source |-> board, image |-> image]

(* --check of the README picture passes only on a whole picture of the     *)
(* expected size of the current board, unless the board is saved between   *)
(* its rendering and its hash, however a run fails or is interrupted.      *)
RenderMeansCurrent == RenderCheckPasses /\ ~renderOvertaken => image.of = board

(* Both checks the repository runs on files made from the board: a page or *)
(* a picture that passes is of the current board (see CheckMeansCurrent).  *)
PassedChecksAreCurrent == CheckMeansCurrent /\ RenderMeansCurrent
=============================================================================
