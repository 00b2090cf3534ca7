-------------------------- MODULE WorkbenchProofs ---------------------------
(***************************************************************************)
(* Proofs about the tools of the workbench, for any number of saves, parts *)
(* and titles: the files made from the board, the layout capture, the      *)
(* parts database and the upload of documents.                             *)
(***************************************************************************)
EXTENDS ReadmeRender, LayoutCapture, PartsDatabase, ZoteroUpload,
        FiniteSetTheorems, TLAPS

-----------------------------------------------------------------------------
(***************************************************************************)
(* What the checks of the page and of the picture let pass is of the       *)
(* current board, for any number of saves, tabs and runs that overlap,     *)
(* fail or are interrupted.  A run that was not overtaken holds the        *)
(* current board until it has hashed it; from then on what it records is   *)
(* either of the current board or already stale by its hash, since no      *)
(* board comes back.                                                       *)
(***************************************************************************)

Boards == 0..MaxSaves
Jobs == [at : {"idle", "starting", "drawing", "drawn", "hashed"}, from : Boards, source : Boards]

(* A hash that may be compared: of an older board, or of this one, and     *)
(* then it goes with what was made of this one.                            *)
Vouches(source, of) == source \in 0..board /\ (source = board => of = board)

JobSound(p) ==
  /\ At(p, {"drawing", "drawn"}) => job[p].from = board
  /\ At(p, {"drawn"}) => page = board
  /\ At(p, {"hashed"}) => Vouches(job[p].source, page)

BomTypeOK == board \in Boards /\ job \in [Runs -> Jobs]

BomInv ==
  /\ BomTypeOK
  /\ ~overtaken =>
       /\ Vouches(bomManifest.source, bomManifest.page)
       /\ \A p \in Runs : JobSound(p)

(* A step that touches neither the board nor its page, and moves one job. *)
LEMMA JobMoves ==
  ASSUME BomInv, NEW p \in Runs, NEW j \in Jobs,
         job' = [job EXCEPT ![p] = j], UNCHANGED <<board, page, bomManifest, overtaken>>,
         ~overtaken => /\ j.at \in {"drawing", "drawn"} => j.from = board
                       /\ j.at = "drawn" => page = board
                       /\ j.at = "hashed" => Vouches(j.source, page)
  PROVE  BomInv'
  <1>1. BomTypeOK' /\ job'[p] = j /\ \A q \in Runs \ {p} : job'[q] = job[q]
    BY DEF BomInv, BomTypeOK
  <1>2. ASSUME ~overtaken, NEW q \in Runs PROVE JobSound(q)'
    <2>1. CASE q = p
      BY <1>1, <1>2, <2>1 DEF JobSound, At, Vouches
    <2>2. CASE q # p
      BY <1>1, <1>2, <2>2 DEF BomInv, JobSound, At, Vouches
    <2> QED BY <2>1, <2>2
  <1>3. ~overtaken => Vouches(bomManifest.source, bomManifest.page)'
    BY DEF BomInv, Vouches
  <1> QED BY <1>1, <1>2, <1>3 DEF BomInv

(* A run that ends: its job is idle. *)
LEMMA JobEnds ==
  ASSUME BomInv, NEW p \in Runs,
         job' = [job EXCEPT ![p] = Idle], UNCHANGED <<board, page, bomManifest, overtaken>>
  PROVE  BomInv'
  <1>1. Idle \in Jobs /\ Idle.at = "idle"
    BY BomAssumption DEF Idle, Jobs, Boards
  <1> QED BY <1>1, JobMoves

(* A run that begins. *)
LEMMA JobBegins ==
  ASSUME BomInv, NEW p \in Runs,
         job' = [job EXCEPT ![p].at = "starting"],
         UNCHANGED <<board, page, bomManifest, overtaken>>
  PROVE  BomInv'
  <1> DEFINE j == [job[p] EXCEPT !.at = "starting"]
  <1>1. j \in Jobs /\ j.at = "starting"
    BY DEF BomInv, BomTypeOK, Jobs
  <1>2. job' = [job EXCEPT ![p] = j]
    OBVIOUS
  <1> HIDE DEF j
  <1> QED BY <1>1, <1>2, JobMoves

(* A save makes every hash that was taken one of an older board. *)
LEMMA SaveKeepsBom == ASSUME BomInv, Save PROVE BomInv'
  <1>1. /\ board' = board + 1 /\ board < MaxSaves
        /\ overtaken' = (overtaken \/ \E p \in Runs : At(p, {"drawing", "drawn"}))
        /\ UNCHANGED <<page, bomManifest, job>>
    BY DEF Save
  <1>2. board \in Nat /\ board' \in Boards
    BY <1>1, BomAssumption DEF BomInv, BomTypeOK, Boards
  <1>3. BomTypeOK'
    BY <1>1, <1>2 DEF BomInv, BomTypeOK
  <1> SUFFICES ASSUME ~overtaken'
               PROVE  /\ Vouches(bomManifest.source, bomManifest.page)'
                      /\ \A p \in Runs : JobSound(p)'
    BY <1>3 DEF BomInv
  <1>4. ~overtaken /\ \A p \in Runs : ~At(p, {"drawing", "drawn"})
    BY <1>1
  <1>5. bomManifest.source \in 0..board /\ bomManifest'.source = bomManifest.source
    BY <1>1, <1>4 DEF BomInv, Vouches
  <1>6. ASSUME NEW s \in 0..board PROVE s \in 0..board' /\ s # board'
    BY <1>1, <1>2
  <1>7. ASSUME NEW p \in Runs PROVE JobSound(p)'
    BY <1>1, <1>4, <1>6, <1>7 DEF BomInv, JobSound, At, Vouches
  <1> QED BY <1>5, <1>6, <1>7 DEF Vouches

(* The steps of generate(). *)
LEMMA GenerateKeepsBom ==
  ASSUME BomInv, NEW p \in Runs, Generate(p) PROVE BomInv'
  <1>1. CASE LoadBoard(p)
    <2> DEFINE j == [job[p] EXCEPT !.at = "drawing", !.from = board]
    <2>1. j \in Jobs /\ j.at = "drawing" /\ j.from = board
      BY DEF BomInv, BomTypeOK, Jobs
    <2>2. /\ job' = [job EXCEPT ![p] = j]
          /\ UNCHANGED <<board, page, bomManifest, overtaken>>
      BY <1>1 DEF LoadBoard
    <2> HIDE DEF j
    <2> QED BY <2>1, <2>2, JobMoves
  <1>2. CASE WritePage(p)
    <2> DEFINE j == [job[p] EXCEPT !.at = "drawn"]
    <2>1. /\ j \in Jobs /\ j.at = "drawn" /\ j.from = job[p].from
          /\ job[p].at = "drawing"
      BY <1>2 DEF BomInv, BomTypeOK, Jobs, WritePage, At
    <2>2. /\ job' = [job EXCEPT ![p] = j] /\ page' = job[p].from
          /\ UNCHANGED <<board, bomManifest, overtaken>>
      BY <1>2 DEF WritePage
    <2> HIDE DEF j
    <2>3. BomTypeOK' /\ job'[p] = j /\ \A q \in Runs \ {p} : job'[q] = job[q]
      BY <2>1, <2>2 DEF BomInv, BomTypeOK
    <2>4. ~overtaken => page' = board
      BY <2>1, <2>2 DEF BomInv, JobSound, At
    <2>5. ASSUME ~overtaken, NEW q \in Runs PROVE JobSound(q)'
      <3>1. CASE q = p
        BY <2>1, <2>2, <2>3, <2>4, <2>5, <3>1 DEF JobSound, At, BomInv
      <3>2. CASE q # p
        BY <2>2, <2>3, <2>4, <2>5, <3>2 DEF JobSound, At, BomInv, Vouches
      <3> QED BY <3>1, <3>2
    <2>6. ~overtaken => Vouches(bomManifest.source, bomManifest.page)'
      BY <2>2 DEF BomInv, Vouches
    <2> QED BY <2>2, <2>3, <2>5, <2>6 DEF BomInv
  <1>3. CASE HashBoard(p)
    <2> DEFINE j == [job[p] EXCEPT !.at = "hashed", !.source = board]
    <2>1. j \in Jobs /\ j.at = "hashed" /\ j.source = board /\ job[p].at = "drawn"
      BY <1>3 DEF BomInv, BomTypeOK, Jobs, HashBoard, At
    <2>2. /\ job' = [job EXCEPT ![p] = j]
          /\ UNCHANGED <<board, page, bomManifest, overtaken>>
      BY <1>3 DEF HashBoard
    <2> HIDE DEF j
    <2>3. ~overtaken => Vouches(j.source, page)
      BY <2>1 DEF BomInv, BomTypeOK, Boards, JobSound, At, Vouches
    <2> QED BY <2>1, <2>2, <2>3, JobMoves
  <1>4. CASE WriteManifest(p)
    <2>1. /\ bomManifest' = [source |-> job[p].source, page |-> page]
          /\ job' = [job EXCEPT ![p] = Idle] /\ job[p].at = "hashed"
          /\ UNCHANGED <<board, page, overtaken>>
      BY <1>4 DEF WriteManifest, At
    <2>2. Idle \in Jobs /\ Idle.at = "idle"
      BY BomAssumption DEF Idle, Jobs, Boards
    <2>3. /\ BomTypeOK' /\ job'[p].at = "idle"
          /\ \A q \in Runs \ {p} : job'[q] = job[q]
      BY <2>1, <2>2 DEF BomInv, BomTypeOK
    <2>4. ASSUME ~overtaken, NEW q \in Runs PROVE JobSound(q)'
      <3>1. CASE q = p
        BY <2>3, <3>1 DEF JobSound, At
      <3>2. CASE q # p
        BY <2>1, <2>3, <2>4, <3>2 DEF JobSound, At, BomInv, Vouches
      <3> QED BY <3>1, <3>2
    <2>5. ~overtaken => Vouches(bomManifest.source, bomManifest.page)'
      BY <2>1 DEF BomInv, JobSound, At, Vouches
    <2> QED BY <2>1, <2>3, <2>4, <2>5 DEF BomInv
  <1>5. CASE Fail(p)
    BY <1>5, JobEnds DEF Fail
  <1>6. CASE GeneratorMissing(p) \/ Interrupt(p)
    BY <1>6, JobEnds DEF GeneratorMissing, Interrupt
  <1> QED BY <1>1, <1>2, <1>3, <1>4, <1>5, <1>6 DEF Generate

(* Nobody edits a page that a run is making. *)
LEMMA EditPageKeepsBom == ASSUME BomInv, EditPage PROVE BomInv'
  <1>1. /\ \A p \in Runs : job[p].at = "idle"
        /\ UNCHANGED <<board, bomManifest, job, overtaken>>
    BY DEF EditPage, At
  <1>2. ASSUME NEW p \in Runs PROVE JobSound(p)'
    BY <1>1 DEF JobSound, At
  <1> QED BY <1>1, <1>2 DEF BomInv, BomTypeOK, Vouches

(* Steps that touch nothing of this. *)
LEMMA OthersKeepBom ==
  ASSUME BomInv, UNCHANGED <<board, page, bomManifest, job, overtaken>> PROVE BomInv'
  BY DEF BomInv, BomTypeOK, JobSound, At, Vouches

LEMMA BomUnderRenderKeeps == ASSUME BomInv, BomUnderRender PROVE BomInv'
  <1>1. "serve" \in Runs /\ "hand" \in Runs
    BY DEF Runs
  <1>2. CASE EditPage
    BY <1>2, EditPageKeepsBom
  <1>3. CASE StartWatch \/ Update \/ Browsing
    <2>1. UNCHANGED <<board, page, bomManifest, job, overtaken>>
      BY <1>3 DEF StartWatch, Update, Browsing, Load, Poll
    <2> QED BY <2>1, OthersKeepBom
  <1>4. CASE Serve
    BY <1>1, <1>4, JobBegins DEF Serve
  <1>5. CASE Look
    <2>1. CASE UNCHANGED job
      BY <1>5, <2>1, OthersKeepBom DEF Look
    <2>2. CASE job' = [job EXCEPT !["serve"].at = "starting"]
      BY <1>1, <1>5, <2>2, JobBegins DEF Look
    <2> QED BY <1>5, <2>1, <2>2 DEF Look
  <1>6. CASE GenerateByHand
    BY <1>1, <1>6, JobBegins DEF GenerateByHand
  <1>7. CASE Generate("serve") \/ Generate("hand")
    BY <1>1, <1>7, GenerateKeepsBom
  <1> QED BY <1>2, <1>3, <1>4, <1>5, <1>6, <1>7 DEF BomUnderRender, ByHand

(* The picture, likewise. *)
RenderTypeOK ==
  /\ render \in [at : {"idle", "load", "render", "size", "hash", "record"},
                 from : Boards, source : Boards]

RenderInv ==
  /\ RenderTypeOK
  /\ ~renderOvertaken =>
       /\ Vouches(renderManifest.source, renderManifest.image.of)
       /\ RenderAt({"render", "size", "hash"}) => render.from = board
       /\ RenderAt({"size", "hash"}) => image.of = board
       /\ RenderAt({"record"}) => Vouches(render.source, image.of)

LEMMA SaveKeepsRender == ASSUME BomInv, RenderInv, SaveUnderRender PROVE RenderInv'
  <1>1. /\ board' = board + 1 /\ board \in Nat
        /\ renderOvertaken' = (renderOvertaken \/ RenderAt({"render", "size", "hash"}))
        /\ UNCHANGED <<image, renderManifest, render>>
    BY BomAssumption DEF SaveUnderRender, Save, BomInv, BomTypeOK, Boards
  <1>2. ASSUME NEW s \in 0..board PROVE s \in 0..board' /\ s # board'
    BY <1>1
  <1> QED BY <1>1, <1>2 DEF RenderInv, RenderTypeOK, RenderAt, Vouches

LEMMA RenderKeeps ==
  ASSUME BomInv, RenderInv,
         \/ FindKicadCli \/ RenderLoads \/ RenderWrites \/ CheckSize
         \/ HashForManifest \/ WriteRenderManifest \/ RenderStops
  PROVE  RenderInv' /\ UNCHANGED bomVars
  <1>1. UNCHANGED <<bomVars, renderOvertaken>> /\ board' = board /\ board \in Boards
    BY DEF FindKicadCli, RenderLoads, RenderWrites, CheckSize, HashForManifest,
           WriteRenderManifest, RenderStops, bomVars, BomInv, BomTypeOK
  <1>2. AtRest.at = "idle" /\ AtRest \in [at : {"idle", "load", "render", "size", "hash", "record"},
                                          from : Boards, source : Boards]
    BY BomAssumption DEF AtRest, Boards
  <1>3. CASE FindKicadCli
    <2>1. /\ render' = [render EXCEPT !.at = "load"] /\ UNCHANGED <<image, renderManifest>>
      BY <1>3 DEF FindKicadCli
    <2>2. RenderTypeOK' /\ render'.at = "load"
      BY <2>1 DEF RenderInv, RenderTypeOK
    <2> QED BY <1>1, <2>1, <2>2 DEF RenderInv, RenderAt, Vouches
  <1>4. CASE RenderLoads
    <2>1. /\ render' = [render EXCEPT !.at = "render", !.from = board]
          /\ UNCHANGED <<image, renderManifest>>
      BY <1>4 DEF RenderLoads
    <2>2. RenderTypeOK' /\ render'.at = "render" /\ render'.from = board
      BY <1>1, <2>1 DEF RenderInv, RenderTypeOK
    <2> QED BY <1>1, <2>1, <2>2 DEF RenderInv, RenderAt, Vouches
  <1>5. CASE RenderWrites
    <2>1. /\ render.at = "render" /\ image'.of = render.from
          /\ render' = [render EXCEPT !.at = "size"] /\ UNCHANGED renderManifest
      BY <1>5 DEF RenderWrites, RenderAt
    <2>2. RenderTypeOK' /\ render'.at = "size" /\ render'.from = render.from
      BY <2>1 DEF RenderInv, RenderTypeOK
    <2> QED BY <1>1, <2>1, <2>2 DEF RenderInv, RenderAt, Vouches
  <1>6. CASE CheckSize
    <2>1. render.at = "size" /\ UNCHANGED <<image, renderManifest>>
      BY <1>6 DEF CheckSize, RenderAt
    <2>2. CASE render' = AtRest
      BY <1>1, <1>2, <2>1, <2>2 DEF RenderInv, RenderTypeOK, RenderAt, Vouches
    <2>3. CASE render' = [render EXCEPT !.at = "hash"]
      <3>1. RenderTypeOK' /\ render'.at = "hash" /\ render'.from = render.from
        BY <2>3 DEF RenderInv, RenderTypeOK
      <3> QED BY <1>1, <2>1, <3>1 DEF RenderInv, RenderAt, Vouches
    <2> QED BY <1>6, <2>2, <2>3 DEF CheckSize
  <1>7. CASE HashForManifest
    <2>1. /\ render.at = "hash" /\ render' = [render EXCEPT !.at = "record", !.source = board]
          /\ UNCHANGED <<image, renderManifest>>
      BY <1>7 DEF HashForManifest, RenderAt
    <2>2. RenderTypeOK' /\ render'.at = "record" /\ render'.source = board
      BY <1>1, <2>1 DEF RenderInv, RenderTypeOK
    <2> QED BY <1>1, <2>1, <2>2 DEF RenderInv, RenderAt, Vouches, Boards
  <1>8. CASE WriteRenderManifest
    <2>1. /\ render.at = "record" /\ render' = AtRest /\ UNCHANGED image
          /\ renderManifest' = [source |-> render.source, image |-> image]
      BY <1>8 DEF WriteRenderManifest, RenderAt
    <2>2. renderManifest'.source = render.source /\ renderManifest'.image = image
      BY <2>1
    <2> QED BY <1>1, <1>2, <2>1, <2>2 DEF RenderInv, RenderTypeOK, RenderAt, Vouches
  <1>9. CASE RenderStops
    <2>1. render' = AtRest /\ UNCHANGED renderManifest
      BY <1>9 DEF RenderStops
    <2> QED BY <1>1, <1>2, <2>1 DEF RenderInv, RenderTypeOK, RenderAt, Vouches
  <1> QED BY <1>1, <1>3, <1>4, <1>5, <1>6, <1>7, <1>8, <1>9

LEMMA BoardStep ==
  BomInv /\ RenderInv /\ [RenderNext \/ BomUnderRender]_<<bomVars, renderVars>>
    => BomInv' /\ RenderInv'
  <1> SUFFICES ASSUME BomInv, RenderInv, [RenderNext \/ BomUnderRender]_<<bomVars, renderVars>>
               PROVE  BomInv' /\ RenderInv'
    OBVIOUS
  <1>1. CASE SaveUnderRender
    BY <1>1, SaveKeepsBom, SaveKeepsRender DEF SaveUnderRender
  <1>2. ASSUME UNCHANGED <<board, renderVars>> PROVE RenderInv'
    BY <1>2 DEF renderVars, RenderInv, RenderTypeOK, RenderAt, Vouches
  <1>3. CASE RemoveUnderRender
    <2>1. UNCHANGED <<board, page, bomManifest, job, overtaken, renderVars>>
      BY <1>3 DEF RemoveUnderRender, Remove
    <2> QED BY <1>2, <2>1, OthersKeepBom
  <1>4. CASE \/ FindKicadCli \/ RenderLoads \/ RenderWrites \/ CheckSize
             \/ HashForManifest \/ WriteRenderManifest \/ RenderStops
    BY <1>4, RenderKeeps, OthersKeepBom DEF bomVars
  <1>5. CASE BomUnderRender
    <2>1. UNCHANGED <<board, renderVars>>
      BY <1>5 DEF BomUnderRender, EditPage, Serve, StartWatch, Look, Update, ByHand,
                  GenerateByHand, Generate, GeneratorMissing, LoadBoard, WritePage,
                  HashBoard, WriteManifest, Fail, Interrupt, Browsing, Load, Poll
    <2> QED BY <1>2, <1>5, <2>1, BomUnderRenderKeeps
  <1>6. CASE UNCHANGED <<bomVars, renderVars>>
    BY <1>2, <1>6, OthersKeepBom DEF bomVars
  <1> QED BY <1>1, <1>3, <1>4, <1>5, <1>6 DEF RenderNext

(* A page or a picture whose check passes is of the current board, unless  *)
(* the board was saved between its use and its hash, however the watcher,  *)
(* runs by hand and the renderer overlap, fail or are interrupted.         *)
THEOREM ChecksVouchForTheBoard == BoardSpec => []PassedChecksAreCurrent
  <1>1. BomInit /\ RenderInit => BomInv /\ RenderInv
    <2> SUFFICES ASSUME BomInit, RenderInit PROVE BomInv /\ RenderInv
      OBVIOUS
    <2>1. 0 \in Boards /\ board = 0
      BY BomAssumption DEF BomInit, Boards
    <2>2. BomInv
      BY <2>1 DEF BomInit, Idle, BomInv, BomTypeOK, Jobs, JobSound, At, Vouches
    <2>3. RenderInv
      BY <2>1 DEF RenderInit, AtRest, RenderInv, RenderTypeOK, RenderAt, Vouches
    <2> QED BY <2>2, <2>3
  <1>2. BomInv /\ RenderInv => PassedChecksAreCurrent
    <2>1. BomInv => CheckMeansCurrent
      BY DEF BomInv, CheckMeansCurrent, CheckPasses, Vouches
    <2>2. RenderInv => RenderMeansCurrent
      BY DEF RenderInv, RenderMeansCurrent, RenderCheckPasses, Vouches
    <2> QED BY <2>1, <2>2 DEF PassedChecksAreCurrent
  <1> QED BY <1>1, <1>2, BoardStep, PTL DEF BoardSpec

-----------------------------------------------------------------------------
(***************************************************************************)
(* The two scripts of the parts database implement PartsCatalogue, for any *)
(* parts, BOM files and number of builds.  A whole snapshot is one of the  *)
(* snapshots taken, a build keeps the snapshot it read, which is sound,    *)
(* and what it moves over the database holds a row for every part of it.   *)
(* So only ReplaceDatabase is a step of the catalogue's Publish, only the  *)
(* snapshot's completion one of Take, and all else is a stutter.           *)
(***************************************************************************)

SourceIsTaken(s) == s \in taken /\ Sound(s)

(* What build b holds at each place of its run. *)
BuildInv(b) ==
  /\ build[b].at \in {"idle", "classify", "insert", "replace", "record"}
  /\ ~BuildAt(b, "idle") => SourceIsTaken(build[b].source)
  /\ build[b].at \in {"insert", "replace"} =>
       build[b].rows \in [DOMAIN build[b].source.parts -> Libraries]
  /\ BuildAt(b, "insert") => build[b].stored \subseteq DOMAIN build[b].rows
  /\ BuildAt(b, "replace") => build[b].stored = DOMAIN build[b].rows

BuildType ==
  /\ DOMAIN build = Builders
  /\ \A b \in Builders : build[b] = [at     |-> build[b].at,
                                     source |-> build[b].source,
                                     rows   |-> build[b].rows,
                                     stored |-> build[b].stored]

PartsInv ==
  /\ BuildType
  /\ snapshot = [torn |-> snapshot.torn, content |-> snapshot.content]
  /\ ~snapshot.torn => snapshot.content \in taken
  /\ \A b \in Builders : BuildInv(b)

-----------------------------------------------------------------------------
LEMMA InitHolds == PartsInit => PartsInv
  <1> SUFFICES ASSUME PartsInit PROVE PartsInv
    OBVIOUS
  <1>1. DOMAIN build = Builders /\ \A b \in Builders : build[b] = NoBuild
    BY DEF PartsInit
  <1>2. BuildType
    BY <1>1 DEF BuildType, NoBuild
  <1>3. \A b \in Builders : BuildInv(b)
    BY <1>1 DEF BuildInv, BuildAt, NoBuild
  <1>4. snapshot.torn /\ snapshot = [torn |-> snapshot.torn, content |-> snapshot.content]
    BY DEF PartsInit
  <1> QED BY <1>2, <1>3, <1>4 DEF PartsInv

(* A build that may go on: its new record is well formed, the others keep  *)
(* theirs, and the snapshots stay as they are.                             *)
LEMMA OneBuildMoves ==
  ASSUME PartsInv, NEW b \in Builders, NEW r, build' = [build EXCEPT ![b] = r],
         UNCHANGED <<snapshot, taken>>,
         r = [at |-> r.at, source |-> r.source, rows |-> r.rows, stored |-> r.stored],
         r.at \in {"idle", "classify", "insert", "replace", "record"},
         r.at # "idle" => SourceIsTaken(r.source),
         r.at \in {"insert", "replace"} => r.rows \in [DOMAIN r.source.parts -> Libraries],
         r.at = "insert" => r.stored \subseteq DOMAIN r.rows,
         r.at = "replace" => r.stored = DOMAIN r.rows
  PROVE  PartsInv'
  <1>1. build'[b] = r /\ \A c \in Builders \ {b} : build'[c] = build[c]
    BY DEF PartsInv, BuildType
  <1>2. DOMAIN build' = Builders
    BY DEF PartsInv, BuildType
  <1>3. BuildType'
    BY <1>1, <1>2 DEF PartsInv, BuildType
  <1>4. BuildInv(b)'
    BY <1>1 DEF BuildInv, BuildAt, SourceIsTaken, Sound
  <1>5. ASSUME NEW c \in Builders \ {b} PROVE BuildInv(c)'
    BY <1>1, <1>5 DEF PartsInv, BuildInv, BuildAt, SourceIsTaken, Sound
  <1> QED BY <1>3, <1>4, <1>5 DEF PartsInv

LEMMA BuildKeeps ==
  ASSUME PartsInv, NEW b \in Builders, BuildNext(b)
  PROVE  PartsInv'
  <1>1. CASE ReadSnapshot(b)
    <2> DEFINE r == [at |-> "classify", source |-> snapshot.content,
                     rows |-> Nothing, stored |-> {}]
    <2>1. SourceIsTaken(snapshot.content)
      BY <1>1 DEF ReadSnapshot, PartsInv, SourceIsTaken
    <2>2. build' = [build EXCEPT ![b] = r] /\ UNCHANGED <<snapshot, taken>>
      BY <1>1 DEF ReadSnapshot
    <2>3. /\ r.at = "classify" /\ r.source = snapshot.content /\ r.stored = {}
          /\ r = [at |-> r.at, source |-> r.source, rows |-> r.rows, stored |-> r.stored]
      OBVIOUS
    <2> HIDE DEF r
    <2> QED BY <2>3, <2>1, <2>2, OneBuildMoves
  <1>2. CASE Classify(b)
    <2> DEFINE table == [n \in DOMAIN build[b].source.parts |-> Library(n)]
               r == [at |-> "insert", source |-> build[b].source, rows |-> table, stored |-> {}]
    <2>1. table \in [DOMAIN build[b].source.parts -> Libraries]
      BY DEF Library, Libraries
    <2>2. SourceIsTaken(build[b].source)
      BY <1>2 DEF Classify, PartsInv, BuildInv, BuildAt
    <2>3. /\ r.at = "insert" /\ r.source = build[b].source /\ r.rows = table /\ r.stored = {}
          /\ r = [at |-> r.at, source |-> r.source, rows |-> r.rows, stored |-> r.stored]
      OBVIOUS
    <2>4. build' = [build EXCEPT ![b] = r] /\ UNCHANGED <<snapshot, taken>>
      BY <1>2 DEF Classify
    <2> HIDE DEF table, r
    <2> QED BY <2>1, <2>2, <2>3, <2>4, OneBuildMoves
  <1>3. CASE InsertRow(b)
    <2>1. PICK n \in DOMAIN build[b].rows \ build[b].stored :
            build' = [build EXCEPT ![b].stored = @ \cup {n}]
      BY <1>3 DEF InsertRow
    <2> DEFINE r == [at |-> "insert", source |-> build[b].source,
                     rows |-> build[b].rows, stored |-> build[b].stored \cup {n}]
    <2>2. BuildAt(b, "insert") /\ UNCHANGED <<snapshot, taken>>
      BY <1>3 DEF InsertRow
    <2>3. /\ SourceIsTaken(build[b].source)
          /\ build[b].rows \in [DOMAIN build[b].source.parts -> Libraries]
          /\ build[b].stored \cup {n} \subseteq DOMAIN build[b].rows
      BY <2>1, <2>2 DEF PartsInv, BuildInv, BuildAt
    <2>4. build' = [build EXCEPT ![b] = r]
      <3>1. [build[b] EXCEPT !.stored = @ \cup {n}] = r
        <4>1. build[b] = [at     |-> build[b].at, source |-> build[b].source,
                          rows   |-> build[b].rows, stored |-> build[b].stored]
          BY DEF PartsInv, BuildType
        <4>2. build[b].at = "insert"
          BY <2>2 DEF BuildAt
        <4> QED BY <4>1, <4>2
      <3> HIDE DEF r
      <3> QED BY <2>1, <3>1 DEF PartsInv, BuildType
    <2>5. /\ r.at = "insert" /\ r.source = build[b].source
          /\ r.rows = build[b].rows /\ r.stored = build[b].stored \cup {n}
          /\ r = [at |-> r.at, source |-> r.source, rows |-> r.rows, stored |-> r.stored]
      OBVIOUS
    <2> HIDE DEF r
    <2> QED BY <2>2, <2>3, <2>4, <2>5, OneBuildMoves
  <1>4. CASE Commit(b)
    BY <1>4 DEF Commit, PartsInv, BuildType, BuildInv, BuildAt, SourceIsTaken, Sound
  <1>5. CASE ReplaceDatabase(b)
    BY <1>5 DEF ReplaceDatabase, PartsInv, BuildType, BuildInv, BuildAt, SourceIsTaken, Sound
  <1>6. CASE WriteRecord(b)
    BY <1>6 DEF WriteRecord, PartsInv, BuildType, BuildInv, BuildAt, SourceIsTaken, Sound, NoBuild
  <1>7. CASE BuildStops(b)
    BY <1>7 DEF BuildStops, PartsInv, BuildType, BuildInv, BuildAt, SourceIsTaken, Sound, NoBuild
  <1> QED BY <1>1, <1>2, <1>3, <1>4, <1>5, <1>6, <1>7 DEF BuildNext

(* The BOM files and the run of the refresh: only a completed snapshot     *)
(* adds to what was taken.                                                 *)
LEMMA RestKeeps ==
  ASSUME PartsInv,
         EditBom \/ BeginRefresh \/ Lookup \/ OpenSnapshot \/ FillSnapshot \/ RefreshStops
  PROVE  /\ PartsInv'
         /\ taken \subseteq taken' /\ UNCHANGED <<build, database>>
  <1>1. UNCHANGED <<build, database>> /\ taken \subseteq taken'
    BY DEF EditBom, BeginRefresh, Lookup, OpenSnapshot, FillSnapshot, RefreshStops
  <1>2. /\ snapshot' = [torn |-> snapshot'.torn, content |-> snapshot'.content]
        /\ ~snapshot'.torn => snapshot'.content \in taken'
    <2>1. CASE EditBom \/ BeginRefresh \/ Lookup \/ RefreshStops
      BY <2>1 DEF PartsInv, EditBom, BeginRefresh, Lookup, RefreshStops
    <2>2. CASE OpenSnapshot
      <3>1. snapshot' = [snapshot EXCEPT !.torn = TRUE] /\ UNCHANGED taken
        BY <2>2 DEF OpenSnapshot
      <3>2. snapshot' = [torn |-> TRUE, content |-> snapshot.content]
        BY <3>1 DEF PartsInv
      <3> QED BY <3>2
    <2>3. CASE FillSnapshot
      BY <2>3 DEF FillSnapshot
    <2> QED BY <2>1, <2>2, <2>3
  <1>3. BuildType' /\ \A b \in Builders : BuildInv(b)'
    BY <1>1 DEF PartsInv, BuildType, BuildInv, BuildAt, SourceIsTaken, Sound
  <1> QED BY <1>1, <1>2, <1>3 DEF PartsInv

LEMMA PartsStep == PartsInv /\ [PartsNext]_partsVars => PartsInv'
  <1> SUFFICES ASSUME PartsInv, [PartsNext]_partsVars PROVE PartsInv'
    OBVIOUS
  <1>1. CASE \E b \in Builders : BuildNext(b)
    BY <1>1, BuildKeeps
  <1>2. CASE EditBom \/ BeginRefresh \/ Lookup \/ OpenSnapshot \/ FillSnapshot \/ RefreshStops
    BY <1>2, RestKeeps
  <1>3. CASE UNCHANGED partsVars
    BY <1>3 DEF partsVars, PartsInv, BuildType, BuildInv, BuildAt, SourceIsTaken, Sound
  <1> QED BY <1>1, <1>2, <1>3 DEF PartsNext

-----------------------------------------------------------------------------
(* What is moved over the database is a publication of the catalogue.      *)
LEMMA ReplacePublishes ==
  ASSUME PartsInv, NEW b \in Builders, ReplaceDatabase(b)
  PROVE  Catalogue!Publish
  <1> DEFINE s == build[b].source
             rows == [n \in build[b].stored |-> build[b].rows[n]]
  <1>1. /\ BuildAt(b, "replace") /\ UNCHANGED taken
        /\ database' = [stamp |-> s.stamp, rows |-> rows]
    BY DEF ReplaceDatabase, TemporaryFile
  <1>2. s \in taken /\ Catalogue!AllStocked(s)
    BY <1>1 DEF PartsInv, BuildInv, BuildAt, SourceIsTaken, Sound, Catalogue!AllStocked
  <1>3. rows \in [DOMAIN s.parts -> Catalogue!Libraries]
    BY <1>1 DEF PartsInv, BuildInv, BuildAt, Libraries, Catalogue!Libraries
  <1> QED BY <1>1, <1>2, <1>3 DEF Catalogue!Publish

(* Every other step of a build is hidden from the reader. *)
LEMMA BuildIsPrivate ==
  ASSUME PartsInv, NEW b \in Builders, BuildNext(b)
  PROVE  Catalogue!Publish \/ UNCHANGED <<taken, database>>
  BY ReplacePublishes
     DEF BuildNext, ReadSnapshot, Classify, InsertRow, Commit, WriteRecord, BuildStops

LEMMA StepImplements ==
  PartsInv /\ [PartsNext]_partsVars => [Catalogue!Next]_<<taken, database>>
  <1> SUFFICES ASSUME PartsInv, [PartsNext]_partsVars
               PROVE  Catalogue!Next \/ UNCHANGED <<taken, database>>
    OBVIOUS
  <1>1. CASE \E b \in Builders : BuildNext(b)
    BY <1>1, BuildIsPrivate DEF Catalogue!Next
  <1>2. CASE EditBom \/ BeginRefresh \/ Lookup \/ OpenSnapshot \/ FillSnapshot \/ RefreshStops
    BY <1>2, RestKeeps DEF Catalogue!Next, Catalogue!Take
  <1>3. CASE UNCHANGED partsVars
    BY <1>3 DEF partsVars
  <1> QED BY <1>1, <1>2, <1>3 DEF PartsNext

LEMMA InitImplements == PartsInit => Catalogue!Init
  BY DEF PartsInit, Nothing, Catalogue!Init

(* However runs of the two scripts are interrupted, interleaved or         *)
(* repeated, the reader of the database sees the catalogue: build_konnect_ *)
(* jlc_db.py replaces it in one step by all parts of one sound snapshot.   *)
THEOREM DatabaseImplementsCatalogue == PartsSpec => ImplementsCatalogue
  <1> QED BY InitHolds, PartsStep, StepImplements, InitImplements, PTL
          DEF PartsSpec, ImplementsCatalogue, Catalogue!Spec

-----------------------------------------------------------------------------
(***************************************************************************)
(* What the restoring scripts accept is one capture, for any saves of the  *)
(* two files and whatever passes the checks.  While no editor is opened    *)
(* during a capture, the working files change under it only by a restore,  *)
(* and a restore brings back a template: templates are clean, so what the  *)
(* checks have passed stays clean until it is copied, and the sheet stays  *)
(* the one that was copied.                                                *)
(***************************************************************************)

Later(places) == capture.at \in places

(* While no editor intruded, with every place a capture can have reached. *)
CleanUnderway ==
  /\ Capturing => locks = {}
  /\ template.board \in CleanBoards /\ template.sheet \in CleanSheets
  /\ Later({"erc", "copy sheet", "copy board"}) => work.board \in CleanBoards
  /\ Later({"copy sheet", "copy board"}) => work.sheet \in CleanSheets
  /\ Later({"copy board"}) => template.sheet = work.sheet
  /\ Later({"record"}) => capture.pair = template
  /\ captured = [sheet |-> layoutManifest.sheet, board |-> layoutManifest.board]

LayoutTypeOK ==
  /\ work = [sheet |-> work.sheet, board |-> work.board]
  /\ template = [sheet |-> template.sheet, board |-> template.board]
  /\ capture = [at |-> capture.at, route |-> capture.route,
                text |-> capture.text, pair |-> capture.pair]
  /\ capture.at \in {"idle", "signature", "text", "drc", "erc",
                     "copy sheet", "copy board", "record"}
  /\ restore \in Editors \cup {"nothing"}
  /\ intruded \in BOOLEAN

LayoutInv == LayoutTypeOK /\ (~intruded => CleanUnderway)

-----------------------------------------------------------------------------
LEMMA LayoutInitHolds == LayoutInit => LayoutInv
  <1> SUFFICES ASSUME LayoutInit PROVE LayoutInv
    OBVIOUS
  <1>1. /\ work = [sheet |-> 0, board |-> 0] /\ template = work /\ captured = work
        /\ layoutManifest.sheet = 0 /\ layoutManifest.board = 0
        /\ restore = "nothing" /\ intruded = FALSE /\ locks = {}
        /\ capture = [at |-> "idle", route |-> Routing[0], text |-> RouteText[0],
                           pair |-> [sheet |-> 0, board |-> 0]]
    BY DEF LayoutInit, Resting
  <1>2. LayoutTypeOK
    BY <1>1 DEF LayoutTypeOK
  <1>3. CleanUnderway
    BY <1>1, CleanStart DEF CleanUnderway, Later, Capturing
  <1> QED BY <1>2, <1>3 DEF LayoutInv

(* The editors: nothing is saved under a capture unless one intruded. *)
LEMMA EditorKeeps ==
  ASSUME LayoutInv, NEW f \in Editors, OpenEditor(f) \/ SaveFile(f) \/ CloseEditor(f)
  PROVE  LayoutInv'
  <1>1. CASE OpenEditor(f)
    BY <1>1 DEF OpenEditor, LayoutInv, LayoutTypeOK, CleanUnderway, Later, Capturing
  <1>2. CASE SaveFile(f)
    BY <1>2 DEF SaveFile, LayoutInv, LayoutTypeOK, CleanUnderway, Later, Capturing, Editors
  <1>3. CASE CloseEditor(f)
    BY <1>3 DEF CloseEditor, LayoutInv, LayoutTypeOK, CleanUnderway, Later, Capturing
  <1> QED BY <1>1, <1>2, <1>3

LEMMA RestoreKeeps ==
  ASSUME LayoutInv, NEW f \in Editors, BeginRestore(f) \/ Replace(f) \/ InterruptRestore
  PROVE  LayoutInv'
  <1>1. CASE BeginRestore(f)
    BY <1>1 DEF BeginRestore, LayoutInv, LayoutTypeOK, CleanUnderway, Later, Capturing
  <1>2. CASE Replace(f)
    BY <1>2 DEF Replace, LayoutInv, LayoutTypeOK, CleanUnderway, Later, Capturing, Editors
  <1>3. CASE InterruptRestore
    BY <1>3 DEF InterruptRestore, LayoutInv, LayoutTypeOK, CleanUnderway, Later, Capturing
  <1> QED BY <1>1, <1>2, <1>3

LEMMA CaptureKeeps ==
  ASSUME LayoutInv,
         \/ BeginCapture \/ TakeSignature \/ TakeRouteText \/ RunDrc \/ RunErc
         \/ CopySheet \/ CopyBoard \/ WriteLayoutManifest \/ InterruptCapture
  PROVE  LayoutInv'
  <1> USE DEF LayoutInv, LayoutTypeOK, CleanUnderway, Later, Capturing
  <1>1. CASE BeginCapture
    BY <1>1 DEF BeginCapture, Goes
  <1>2. CASE TakeSignature
    BY <1>2 DEF TakeSignature
  <1>3. CASE TakeRouteText
    BY <1>3 DEF TakeRouteText
  <1>4. CASE RunDrc
    <2>1. /\ capture.at = "drc"
          /\ UNCHANGED <<work, locks, template, restore, captured, layoutManifest, intruded>>
      BY <1>4 DEF RunDrc, Goes, Refuses, Resting
    <2>2. CASE work.board \in CleanBoards
      <3>1. capture' = [capture EXCEPT !.at = "erc"]
        BY <1>4, <2>2 DEF RunDrc, Goes
      <3>2. capture' = [at |-> "erc", route |-> capture.route,
                        text |-> capture.text, pair |-> capture.pair]
        BY <3>1
      <3> QED BY <2>1, <2>2, <3>2
    <2>3. CASE ~(work.board \in CleanBoards)
      <3>1. capture' = [at |-> "idle", route |-> Routing[0], text |-> RouteText[0],
                           pair |-> [sheet |-> 0, board |-> 0]]
        BY <1>4, <2>3 DEF RunDrc, Refuses, Resting
      <3> QED BY <2>1, <3>1
    <2> QED BY <2>2, <2>3
  <1>5. CASE RunErc
    <2>1. /\ capture.at = "erc"
          /\ UNCHANGED <<work, locks, template, restore, captured, layoutManifest, intruded>>
      BY <1>5 DEF RunErc, Goes, Refuses, Resting
    <2>2. CASE work.sheet \in CleanSheets
      <3>1. capture' = [capture EXCEPT !.at = "copy sheet"]
        BY <1>5, <2>2 DEF RunErc, Goes
      <3>2. capture' = [at |-> "copy sheet", route |-> capture.route,
                        text |-> capture.text, pair |-> capture.pair]
        BY <3>1
      <3> QED BY <2>1, <2>2, <3>2
    <2>3. CASE ~(work.sheet \in CleanSheets)
      <3>1. capture' = [at |-> "idle", route |-> Routing[0], text |-> RouteText[0],
                           pair |-> [sheet |-> 0, board |-> 0]]
        BY <1>5, <2>3 DEF RunErc, Refuses, Resting
      <3> QED BY <2>1, <3>1
    <2> QED BY <2>2, <2>3
  <1>6. CASE CopySheet
    <2>1. /\ capture.at = "copy sheet" /\ UNCHANGED <<work, locks, restore, captured, layoutManifest, intruded>>
          /\ template' = [template EXCEPT !.sheet = work.sheet]
          /\ capture' = [capture EXCEPT !.at = "copy board"]
      BY <1>6 DEF CopySheet, Goes
    <2>2. template' = [sheet |-> work.sheet, board |-> template.board]
      BY <2>1
    <2>3. capture' = [at |-> "copy board", route |-> capture.route,
                      text |-> capture.text, pair |-> capture.pair]
      BY <2>1
    <2> QED BY <2>1, <2>2, <2>3
  <1>7. CASE CopyBoard
    <2>1. /\ capture.at = "copy board" /\ UNCHANGED <<work, locks, restore, captured, layoutManifest, intruded>>
          /\ template' = [template EXCEPT !.board = work.board]
          /\ capture' = [capture EXCEPT !.at = "record", !.pair = work]
      BY <1>7 DEF CopyBoard
    <2>2. template' = [sheet |-> template.sheet, board |-> work.board]
      BY <2>1
    <2>3. capture' = [at |-> "record", route |-> capture.route, text |-> capture.text,
                      pair |-> work]
      BY <2>1
    <2> QED BY <2>1, <2>2, <2>3
  <1>8. CASE WriteLayoutManifest
    BY <1>8 DEF WriteLayoutManifest, Resting
  <1>9. CASE InterruptCapture
    BY <1>9 DEF InterruptCapture, Refuses, Resting
  <1> QED BY <1>1, <1>2, <1>3, <1>4, <1>5, <1>6, <1>7, <1>8, <1>9

LEMMA LayoutStep == LayoutInv /\ [LayoutNext]_layoutVars => LayoutInv'
  <1> SUFFICES ASSUME LayoutInv, [LayoutNext]_layoutVars PROVE LayoutInv'
    OBVIOUS
  <1>1. CASE \E f \in Editors : OpenEditor(f) \/ SaveFile(f) \/ CloseEditor(f)
    BY <1>1, EditorKeeps
  <1>2. CASE InterruptRestore \/ \E f \in Editors : BeginRestore(f) \/ Replace(f)
    BY <1>2, RestoreKeeps DEF Editors
  <1>3. CASE \/ BeginCapture \/ TakeSignature \/ TakeRouteText \/ RunDrc \/ RunErc
             \/ CopySheet \/ CopyBoard \/ WriteLayoutManifest \/ InterruptCapture
    BY <1>3, CaptureKeeps
  <1>4. CASE VerifyEntry
    BY <1>4 DEF VerifyEntry, LayoutInv, LayoutTypeOK, CleanUnderway, Later, Capturing
  <1>5. CASE UNCHANGED layoutVars
    BY <1>5 DEF layoutVars, LayoutInv, LayoutTypeOK, CleanUnderway, Later, Capturing
  <1> QED BY <1>1, <1>2, <1>3, <1>4, <1>5 DEF LayoutNext

(* Templates that capture_layout.py left, however often it was refused or  *)
(* interrupted, are restored only as one checked pair of files.            *)
THEOREM RestoresOneCapture == LayoutSpec => []AcceptedIsOneCapture
  <1>1. LayoutInv => AcceptedIsOneCapture
    BY DEF LayoutInv, LayoutTypeOK, CleanUnderway, AcceptedIsOneCapture,
           SheetAccepted, BoardAccepted
  <1> QED BY <1>1, LayoutInitHolds, LayoutStep, PTL DEF LayoutSpec

-----------------------------------------------------------------------------
(***************************************************************************)
(* The upload makes no record twice, for any list of titles, any limit of  *)
(* a listing that the collection fits, and however often it is refused,    *)
(* stopped and started again.  The reason: what a run still has to do and  *)
(* did not find in its listing is not there, except the record it has just *)
(* made and is about to attach a PDF to.                                   *)
(***************************************************************************)

ZoteroTypeOK ==
  /\ documents \in [Titles -> Nat] /\ pdfs \in [Titles -> Nat]
  /\ upload \in [at : {"stopped", "record", "attach"},
                 existing : SUBSET Titles, todo : SUBSET Titles]

Unmade(t) == t \in upload.todo \ upload.existing => documents[t] = 0

UploadInv ==
  /\ ZoteroTypeOK
  /\ \A t \in Titles : documents[t] <= 1 /\ pdfs[t] <= documents[t]
  /\ upload.at = "record" => \A t \in Titles : Unmade(t)
  /\ upload.at = "attach" =>
       \A t \in Titles : IF First(t) THEN documents[t] = 1 /\ pdfs[t] = 0 ELSE Unmade(t)

-----------------------------------------------------------------------------
(* A collection that fits is listed completely. *)
LEMMA ListingIsComplete ==
  ASSUME Fits PROVE Listings = {Present}
  <1>1. Present \subseteq Titles /\ Attached \subseteq Titles
    BY DEF Present, Attached
  <1>2. /\ Cardinality(Titles) \in Nat
        /\ Cardinality(Present) \in Nat /\ Cardinality(Present) <= Cardinality(Titles)
        /\ Cardinality(Attached) \in Nat /\ Cardinality(Attached) <= Cardinality(Titles)
    BY <1>1, ZoteroAssumption, FS_CardinalityType, FS_Subset
  <1>3. Items <= Limit
    BY <1>2, ZoteroAssumption DEF Items, Fits
  <1> QED BY <1>3 DEF Listings

LEMMA UploadInitHolds == ZoteroInit => UploadInv
  BY DEF ZoteroInit, UploadInv, ZoteroTypeOK, Unmade, First, Stopped

LEMMA ListKeeps ==
  ASSUME Fits, UploadInv, ListTitles PROVE UploadInv'
  <1>1. upload' = [at |-> "record", existing |-> Present, todo |-> Titles]
    BY ListingIsComplete DEF ListTitles
  <1>2. UNCHANGED <<documents, pdfs>>
    BY DEF ListTitles
  <1>3. \A t \in Titles \ Present : documents[t] = 0
    BY DEF Present, UploadInv, ZoteroTypeOK
  <1>4. Present \subseteq Titles
    BY DEF Present
  <1> QED BY <1>1, <1>2, <1>3, <1>4 DEF UploadInv, ZoteroTypeOK, Unmade

LEMMA SkipKeeps ==
  ASSUME UploadInv, NEW t \in Titles, Skip(t) PROVE UploadInv'
  BY DEF UploadInv, ZoteroTypeOK, Unmade, Skip

(* Only one title is the first, and it is not in the listing. *)
LEMMA SaveKeeps ==
  ASSUME UploadInv, NEW t \in Titles, SaveItem(t) PROVE UploadInv'
  <1>1. upload.at = "record" /\ First(t) /\ documents[t] = 0 /\ pdfs[t] = 0
    BY DEF SaveItem, UploadInv, ZoteroTypeOK, Unmade, First
  <1>2. UNCHANGED pdfs
    BY DEF SaveItem
  <1>3. CASE UNCHANGED documents /\ upload' = Stopped
    BY <1>2, <1>3 DEF UploadInv, ZoteroTypeOK, Stopped
  <1>4. CASE documents' = [documents EXCEPT ![t] = @ + 1]
             /\ upload' \in {[upload EXCEPT !.at = "attach"], Stopped}
    <2>1. documents' \in [Titles -> Nat] /\ documents'[t] = 1
          /\ \A u \in Titles \ {t} : documents'[u] = documents[u]
      BY <1>1, <1>4 DEF UploadInv, ZoteroTypeOK
    <2>2. CASE upload' = Stopped
      BY <1>1, <1>2, <2>1, <2>2 DEF UploadInv, ZoteroTypeOK, Stopped
    <2>3. CASE upload' = [upload EXCEPT !.at = "attach"]
      <3>1. /\ upload'.at = "attach" /\ upload'.existing = upload.existing
            /\ upload'.todo = upload.todo
            /\ upload' \in [at : {"stopped", "record", "attach"},
                            existing : SUBSET Titles, todo : SUBSET Titles]
        BY <2>3 DEF UploadInv, ZoteroTypeOK
      <3>2. \A u \in Titles : First(u) => u = t
        BY <1>1, ZoteroAssumption DEF First
      <3>3. \A u \in Titles : First(u)' <=> First(u)
        BY <3>1 DEF First
      <3>4. ASSUME NEW u \in Titles
            PROVE  IF First(u)' THEN documents'[u] = 1 /\ pdfs'[u] = 0 ELSE Unmade(u)'
        BY <1>1, <1>2, <2>1, <3>1, <3>2, <3>3 DEF UploadInv, Unmade
      <3> QED BY <1>1, <1>2, <2>1, <3>1, <3>4 DEF UploadInv, ZoteroTypeOK
    <2> QED BY <1>4, <2>2, <2>3
  <1> QED BY <1>3, <1>4 DEF SaveItem

LEMMA AttachKeeps ==
  ASSUME UploadInv, NEW t \in Titles, SaveAttachment(t) PROVE UploadInv'
  <1>1. upload.at = "attach" /\ First(t) /\ documents[t] = 1 /\ pdfs[t] = 0
    BY DEF SaveAttachment, UploadInv
  <1>2. UNCHANGED documents
    BY DEF SaveAttachment
  <1>3. CASE UNCHANGED pdfs /\ upload' = Stopped
    BY <1>2, <1>3 DEF UploadInv, ZoteroTypeOK, Stopped
  <1>4. CASE pdfs' = [pdfs EXCEPT ![t] = @ + 1]
             /\ upload' \in {[upload EXCEPT !.at = "record", !.todo = @ \ {t}], Stopped}
    <2>1. pdfs' \in [Titles -> Nat] /\ pdfs'[t] = 1
          /\ \A u \in Titles \ {t} : pdfs'[u] = pdfs[u]
      BY <1>1, <1>4 DEF UploadInv, ZoteroTypeOK
    <2>2. \A u \in Titles : documents'[u] <= 1 /\ pdfs'[u] <= documents'[u]
      BY <1>1, <1>2, <2>1 DEF UploadInv
    <2>3. CASE upload' = Stopped
      BY <1>2, <2>1, <2>2, <2>3 DEF UploadInv, ZoteroTypeOK, Stopped
    <2>4. CASE upload' = [upload EXCEPT !.at = "record", !.todo = @ \ {t}]
      <3>1. /\ upload'.at = "record" /\ upload'.existing = upload.existing
            /\ upload'.todo = upload.todo \ {t}
            /\ upload' \in [at : {"stopped", "record", "attach"},
                            existing : SUBSET Titles, todo : SUBSET Titles]
        BY <2>4 DEF UploadInv, ZoteroTypeOK
      <3>2. \A u \in Titles \ {t} : ~First(u)
        BY <1>1, ZoteroAssumption DEF First
      <3>3. \A u \in Titles : Unmade(u)'
        BY <1>1, <1>2, <3>1, <3>2 DEF UploadInv, Unmade
      <3> QED BY <1>2, <2>1, <2>2, <3>1, <3>3 DEF UploadInv, ZoteroTypeOK
    <2> QED BY <1>4, <2>3, <2>4
  <1> QED BY <1>3, <1>4 DEF SaveAttachment

LEMMA UploadStep == Fits /\ UploadInv /\ [ZoteroNext]_zoteroVars => UploadInv'
  <1> SUFFICES ASSUME Fits, UploadInv, [ZoteroNext]_zoteroVars PROVE UploadInv'
    OBVIOUS
  <1>1. CASE ListTitles
    BY <1>1, ListKeeps
  <1>2. CASE Finish \/ Break
    BY <1>2 DEF Finish, Break, UploadInv, ZoteroTypeOK, Stopped
  <1>3. CASE \E t \in Titles : Skip(t) \/ SaveItem(t) \/ SaveAttachment(t)
    BY <1>3, SkipKeeps, SaveKeeps, AttachKeeps
  <1>4. CASE UNCHANGED zoteroVars
    BY <1>4 DEF zoteroVars, UploadInv, ZoteroTypeOK, Unmade, First
  <1> QED BY <1>1, <1>2, <1>3, <1>4 DEF ZoteroNext

(* docs/zotero_upload_pdfs.py may be run again after any failure. *)
THEOREM UploadMakesNoDuplicate == ZoteroSpec => []NoDuplicateRecord
  <1>1. CASE Fits
    <2>1. UploadInv => NoDuplicateRecord
      BY DEF UploadInv, NoDuplicateRecord
    <2>2. UploadInv /\ [ZoteroNext]_zoteroVars => UploadInv'
      BY <1>1, UploadStep
    <2> QED BY <2>1, <2>2, UploadInitHolds, PTL DEF ZoteroSpec
  <1>2. CASE ~Fits
    <2>1. NoDuplicateRecord
      BY <1>2 DEF NoDuplicateRecord
    <2> QED BY <2>1, PTL
  <1> QED BY <1>1, <1>2
=============================================================================
