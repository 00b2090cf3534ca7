--------------------------- MODULE InteractiveBom ---------------------------
(***************************************************************************)
(* The interactive BOM (tools/interactive_bom.py): the page is drawn from  *)
(* the KiCad board by an external generator, the manifest records the      *)
(* hashes of both, --check compares them, and --watch draws the page anew  *)
(* after every save and serves it to browser tabs that poll its version.   *)
(*                                                                         *)
(* A board is the number of the save that made it, which stands for its    *)
(* modification time and its hash; a page is the board it was drawn from.  *)
(* Two runs of the tool are modelled: the watcher ("serve") and one by     *)
(* hand (--generate, "hand"), each step of generate() a step of theirs.    *)
(***************************************************************************)
EXTENDS Integers

CONSTANTS MaxSaves,     \* bound: saves of the board
          Tabs          \* browser tabs

ASSUME BomAssumption == MaxSaves \in Nat

VARIABLES board,        \* the last save of the board
          there,        \* the board's file exists (a checkout removes it first)
          page,         \* the board the page was drawn from, or Edited
          bomManifest,  \* the hashes in interactive_bom.json
          job,          \* generate() of each run
          watch,        \* the watcher's thread; baseline and made are history
          version,      \* LiveState.version; its error message is only logged
          tab,          \* what a tab shows, and the version it remembers
          overtaken     \* history: the board changed between its use and its hash

bomVars == <<board, there, page, bomManifest, job, watch, version, tab, overtaken>>

Runs == {"serve", "hand"}
Saves == 0..MaxSaves
Edited == -1            \* a page somebody edited
None == -2              \* nothing shown, nothing remembered

Serving == watch.at \in {"start", "poll", "work", "update", "dead"}
At(p, places) == job[p].at \in places
Blank == [shows |-> None, known |-> None]
Idle == [at |-> "idle", from |-> 0, source |-> 0]
Off == [at |-> "off", last |-> 0, current |-> 0, baseline |-> 0, made |-> 0]
Dead == [Off EXCEPT !.at = "dead"]      \* the thread has ended, the pages are served

BomInit ==
  /\ board = 0 /\ page = 0 /\ there = TRUE /\ overtaken = FALSE
  /\ bomManifest = [source |-> 0, page |-> 0]
  /\ job = [p \in Runs |-> Idle]
  /\ watch = Off
  /\ version = 0
  /\ tab = [t \in Tabs |-> Blank]

-----------------------------------------------------------------------------
(* The world: KiCad saves the board, a checkout replaces it, somebody      *)
(* edits the page.                                                         *)

Save ==
  /\ board < MaxSaves
  /\ board' = board + 1
  /\ there' = TRUE
  /\ overtaken' = (overtaken \/ \E p \in Runs : At(p, {"drawing", "drawn"}))
  /\ UNCHANGED <<page, bomManifest, job, watch, version, tab>>

Remove ==
  /\ board < MaxSaves
  /\ there
  /\ there' = FALSE
  /\ UNCHANGED <<board, page, bomManifest, job, watch, version, tab, overtaken>>

EditPage ==
  /\ page # Edited
  /\ \A p \in Runs : At(p, {"idle"})
  /\ page' = Edited
  /\ UNCHANGED <<board, there, bomManifest, job, watch, version, tab, overtaken>>

-----------------------------------------------------------------------------
(* generate(), line by line.                                               *)

(* require_generator misses the generator and raises SystemExit: serve     *)
(* ends with its first page, but in the thread nobody catches it.          *)
GeneratorMissing(p) ==
  /\ At(p, {"starting"})
  /\ job' = [job EXCEPT ![p] = Idle]
  /\ watch' = CASE p = "hand" -> watch
                [] p = "serve" /\ watch.at = "first" -> Off
                [] p = "serve" /\ watch.at = "work" -> Dead
  /\ UNCHANGED <<board, there, page, bomManifest, version, tab, overtaken>>

LoadBoard(p) ==
  /\ At(p, {"starting"})
  /\ there
  /\ job' = [job EXCEPT ![p].at = "drawing", ![p].from = board]
  /\ UNCHANGED <<board, there, page, bomManifest, watch, version, tab, overtaken>>

WritePage(p) ==
  /\ At(p, {"drawing"})
  /\ page' = job[p].from
  /\ job' = [job EXCEPT ![p].at = "drawn"]
  /\ UNCHANGED <<board, there, bomManifest, watch, version, tab, overtaken>>

HashBoard(p) ==
  /\ At(p, {"drawn"})
  /\ there
  /\ job' = [job EXCEPT ![p].at = "hashed", ![p].source = board]
  /\ UNCHANGED <<board, there, page, bomManifest, watch, version, tab, overtaken>>

(* What serve and watch do when generate returns: the first page gives the *)
(* version to serve, a later one is still to be hashed by LiveState.update. *)
Returned ==
  IF watch.at = "first"
    THEN /\ watch' = [watch EXCEPT !.at = "start", !.made = job["serve"].from]
         /\ version' = page
    ELSE /\ watch' = [watch EXCEPT !.at = "update", !.made = job["serve"].from]
         /\ UNCHANGED version

WriteManifest(p) ==
  /\ At(p, {"hashed"})
  /\ bomManifest' = [source |-> job[p].source, page |-> page]
  /\ job' = [job EXCEPT ![p] = Idle]
  /\ IF p = "serve" THEN Returned ELSE UNCHANGED <<watch, version>>
  /\ UNCHANGED <<board, there, page, tab, overtaken>>

(* The generator fails, or the board is away when it is loaded or hashed:  *)
(* a first page is the end of serve, a later one is tried again.           *)
Fail(p) ==
  /\ \/ At(p, {"drawing"})
     \/ At(p, {"starting", "drawn"}) /\ ~there
  /\ job' = [job EXCEPT ![p] = Idle]
  /\ CASE p = "hand" -> UNCHANGED <<watch, version>>
       [] p = "serve" /\ watch.at = "first" ->
            watch' = Off /\ UNCHANGED version
       [] p = "serve" /\ watch.at = "work" ->
            watch' = [watch EXCEPT !.at = "poll"] /\ UNCHANGED version
  /\ UNCHANGED <<board, there, page, bomManifest, tab, overtaken>>

GenerateByHand ==
  /\ At("hand", {"idle"})
  /\ job' = [job EXCEPT !["hand"].at = "starting"]
  /\ UNCHANGED <<board, there, page, bomManifest, watch, version, tab, overtaken>>

-----------------------------------------------------------------------------
(* serve() and watch().                                                    *)

Serve ==
  /\ watch.at = "off"
  /\ watch' = [watch EXCEPT !.at = "first"]
  /\ job' = [job EXCEPT !["serve"].at = "starting"]
  /\ UNCHANGED <<board, there, page, bomManifest, version, tab, overtaken>>

(* The thread's first line, outside any try block. *)
StartWatch ==
  /\ watch.at = "start"
  /\ watch' = IF there
                THEN [watch EXCEPT !.at = "poll", !.last = board, !.baseline = board]
                ELSE Dead
  /\ UNCHANGED <<board, there, page, bomManifest, job, version, tab, overtaken>>

(* One poll that finds another modification time, or no board at all. *)
Look ==
  /\ watch.at = "poll"
  /\ \/ /\ ~there
        /\ watch' = Dead
        /\ UNCHANGED job
     \/ /\ there
        /\ board # watch.last
        /\ watch' = [watch EXCEPT !.at = "work", !.current = board]
        /\ job' = [job EXCEPT !["serve"].at = "starting"]
  /\ UNCHANGED <<board, there, page, bomManifest, version, tab, overtaken>>

(* A plausible slip: the modification time is taken after the generation. *)
UpdateStatAfterwards ==
  /\ watch.at = "update"
  /\ version' = page
  /\ watch' = [watch EXCEPT !.at = "poll", !.last = board, !.current = 0]
  /\ UNCHANGED <<board, there, page, bomManifest, job, tab, overtaken>>

Update ==
  /\ watch.at = "update"
  /\ version' = page
  /\ watch' = [watch EXCEPT !.at = "poll", !.last = watch.current, !.current = 0]
  /\ UNCHANGED <<board, there, page, bomManifest, job, tab, overtaken>>

(* Ctrl-C ends a run, and with it the generator it waits for. *)
Interrupt(p) ==
  /\ IF p = "hand" THEN ~At("hand", {"idle"}) ELSE watch.at # "off"
  /\ job' = [job EXCEPT ![p] = Idle]
  /\ watch' = IF p = "serve" THEN Off ELSE watch
  /\ UNCHANGED <<board, there, page, bomManifest, version, tab, overtaken>>

-----------------------------------------------------------------------------
(* The tabs: do_GET for the page and for its version, and the script in it. *)

Load(t) ==
  /\ Serving
  /\ tab[t].shows = None
  /\ tab' = [tab EXCEPT ![t] = [shows |-> page, known |-> None]]
  /\ UNCHANGED <<board, there, page, bomManifest, job, watch, version, overtaken>>

Poll(t) ==
  /\ Serving
  /\ tab[t].shows # None
  /\ \/ /\ tab[t].known = None
        /\ tab' = [tab EXCEPT ![t].known = version]
     \/ /\ tab[t].known \notin {None, version}
        /\ tab' = [tab EXCEPT ![t] = Blank]
  /\ UNCHANGED <<board, there, page, bomManifest, job, watch, version, overtaken>>

Generate(p) ==
  \/ GeneratorMissing(p)
  \/ LoadBoard(p) \/ WritePage(p) \/ HashBoard(p) \/ WriteManifest(p)
  \/ Fail(p) \/ Interrupt(p)

Watching == Save \/ Remove \/ EditPage \/ Serve \/ StartWatch \/ Look \/ Update \/ Generate("serve")
ByHand == GenerateByHand \/ Generate("hand")
Browsing == \E t \in Tabs : Load(t) \/ Poll(t)

BomNext == Watching \/ ByHand \/ Browsing

(* The watcher's thread runs on; a generator that is called again and      *)
(* again does not fail for ever.                                           *)
BomFairness ==
  /\ WF_bomVars(StartWatch) /\ WF_bomVars(Look) /\ WF_bomVars(Update)
  /\ WF_bomVars(LoadBoard("serve")) /\ SF_bomVars(WritePage("serve"))
  /\ WF_bomVars(HashBoard("serve")) /\ WF_bomVars(WriteManifest("serve"))
  /\ WF_bomVars(Fail("serve") /\ ~there)

(* So do the tabs' timers. *)
TabFairness == \A t \in Tabs : WF_bomVars(Load(t)) /\ WF_bomVars(Poll(t))

BomSpec == BomInit /\ [][BomNext]_bomVars /\ BomFairness /\ TabFairness

(* A plausible slip: the check forgets the board. *)
CheckPassesPageOnly == there /\ bomManifest.page = page

-----------------------------------------------------------------------------
(* check(): the recorded hashes are those of the files. *)
CheckPasses == there /\ bomManifest = [source |-> board, page |-> page]

(* --check never passes on a page drawn from another board, whatever runs  *)
(* of the tool overlap, fail or are interrupted, as long as the board is   *)
(* not saved between the generator's use of it and its hash.               *)
CheckMeansCurrent == CheckPasses /\ ~overtaken => page = board

(* What docs/interactive_bom.md promises without that condition: the check *)
(* fails if either file is stale. *)
StalePageFailsCheck == CheckPasses => page = board

(* A save that follows the start of the watch is not lost while the thread *)
(* lives: the watcher draws the page from it or from a later one, even     *)
(* when it is saved while a page is being drawn or a drawing fails.        *)
SavesGetDrawn ==
  \A v \in Saves :
    (watch.at = "poll" /\ board = v /\ v # watch.baseline)
      ~> (watch.made >= v \/ watch.at \in {"off", "dead"})

(* What docs/interactive_bom.md promises without these conditions: while   *)
(* the page is served, it is regenerated after every complete save.        *)
EverySaveIsDrawn ==
  \A v \in Saves :
    (Serving /\ there /\ board = v) ~> (watch.made >= v \/ ~Serving)

(* What docs/interactive_bom.md promises of the tabs: a page that is older *)
(* than the one whose hash is served reloads.                              *)
StalePageReloads ==
  \A t \in Tabs :
    (Serving /\ tab[t].shows \in Saves /\ tab[t].shows < version)
      ~> (tab[t].shows \in {None, version} \/ ~Serving)
=============================================================================
