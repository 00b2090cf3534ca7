---------------------------- MODULE MCWorkbench ----------------------------
(***************************************************************************)
(* The tools of the workbench on small instances.  The tools share no      *)
(* state but the board, so a behaviour is spent at one desk, chosen at the *)
(* start: the BOM watcher with runs by hand or with browser tabs, the      *)
(* README picture, the layout capture, the parts database, or the upload.  *)
(***************************************************************************)
EXTENDS ReadmeRender, LayoutCapture, PartsDatabase, ZoteroUpload, TLC

VARIABLE desk

vars == <<bomVars, renderVars, layoutVars, partsVars, zoteroVars, desk>>

Desks == {"hand", "tabs", "render", "capture", "parts", "upload"}

(* Boards 0 and 1 have the same routing, and board 1 fails DRC. *)
MCRouting == [c \in Contents |-> IF c = 2 THEN "other route" ELSE "route"]
MCRouteText == [c \in Contents |-> IF c = 2 THEN "other text" ELSE "text"]

(* A board BOM with a cable part, and one that was edited. *)
MCBoms == {1 :> "Basic" @@ 2 :> "cable", 2 :> "Basic"}

Init ==
  /\ BomInit /\ RenderInit /\ LayoutInit /\ PartsInit /\ ZoteroInit
  /\ desk \in Desks

(* The BOM watcher with the runs by hand, and with the tabs. *)
AtBom ==
  /\ \/ desk \in {"hand", "tabs"} /\ Watching
     \/ desk = "hand" /\ ByHand
     \/ desk = "tabs" /\ Browsing
  /\ UNCHANGED <<renderVars, layoutVars, partsVars, zoteroVars>>

AtRender ==
  /\ desk = "render" /\ RenderNext
  /\ UNCHANGED <<layoutVars, partsVars, zoteroVars>>

(* Once an editor was opened during a capture nothing is claimed any more. *)
AtCapture ==
  /\ desk = "capture" /\ ~intruded /\ LayoutNext
  /\ UNCHANGED <<bomVars, renderVars, partsVars, zoteroVars>>

AtParts ==
  /\ desk = "parts" /\ PartsNext
  /\ UNCHANGED <<bomVars, renderVars, layoutVars, zoteroVars>>

AtUpload ==
  /\ desk = "upload" /\ ZoteroNext
  /\ UNCHANGED <<bomVars, renderVars, layoutVars, partsVars>>

Next == (AtBom \/ AtRender \/ AtCapture \/ AtParts \/ AtUpload) /\ UNCHANGED desk

(* A tab polls where there is one. *)
TabsPoll ==
  \A t \in Tabs : WF_bomVars(desk = "tabs" /\ Load(t)) /\ WF_bomVars(desk = "tabs" /\ Poll(t))

Spec == Init /\ [][Next]_vars /\ BomFairness /\ TabsPoll
=============================================================================
