-------------------------- MODULE SimulatorProofs ---------------------------
(***************************************************************************)
(* Proofs about the simulator, for any number of threads, edits, writes    *)
(* and samples: the connectivity guard, the page with its server, the way  *)
(* of a configuration to the firmware, and the sample chain.               *)
(***************************************************************************)
EXTENDS LocalServer, ConfigCheck, SampleChain, TLAPS

-----------------------------------------------------------------------------
(***************************************************************************)
(* RememberedKeyIsSound for any number of threads, nets and writes.  The   *)
(* argument: a modification time only grows, so a key that a thread took   *)
(* is the present one only if no file was written since, and then what     *)
(* the thread has exported and compared since is what the files hold.      *)
(***************************************************************************)

Keys == Nat \X Nat \X Nat
GenPlaces == {"idle", "compare", "write"}
GuardPlaces == {"idle", "contract", "text", "stat", "export", "compare", "remember",
                "accepted", "refused", "exit"}
SomeNets == Nets \cup {"none"}
SomeContracts == Contracts \cup {[nets |-> "none", rest |-> "none"]}

ConnTypeOK ==
  /\ contract \in [is : Contracts, mtime : 0..MaxWrites]
  /\ sheet \in [is : Nets, mtime : 0..MaxWrites]
  /\ text \in [digest : Contracts, endpoints : SomeNets, mtime : 0..MaxWrites]
  /\ gen \in [at : GenPlaces, nets : SomeNets]
  /\ guard \in [Threads -> [at : GuardPlaces, contract : SomeContracts, endpoints : SomeNets,
                            nets : SomeNets, key : Keys]]
  /\ validated \in Keys

(* No file is older than it was when the key was taken. *)
Seen(key) == key[1] <= contract.mtime /\ key[2] <= sheet.mtime /\ key[3] <= text.mtime

ThreadSound(t) ==
  /\ guard[t].at \in {"export", "compare", "remember"} => Seen(guard[t].key)
  /\ guard[t].at \in {"compare", "remember"} /\ guard[t].key = Key => guard[t].nets = sheet.is
  /\ guard[t].at = "remember" /\ guard[t].key = Key => contract.is.nets = guard[t].nets

ConnInv ==
  /\ ConnTypeOK
  /\ validated = NeverValidated \/ Seen(validated)
  /\ \A t \in Threads : ThreadSound(t)
  /\ RememberedKeyIsSound

-----------------------------------------------------------------------------
(* The invariant holds in every checkout. *)
LEMMA ConnInitEstablishes == ConnInit => ConnInv
  <1> SUFFICES ASSUME ConnInit PROVE ConnInv
    OBVIOUS
  <1>1. ConnTypeOK
    <2>1. NeverValidated \in Keys
      BY ConnectivityAssumption DEF NeverValidated, Keys
    <2>2. PICK c \in Contracts, n \in Nets :
            contract = [is |-> c, mtime |-> 0] /\ sheet = [is |-> n, mtime |-> 0]
      BY DEF ConnInit
    <2>3. PICK d \in Contracts : text = [digest |-> d, endpoints |-> d.nets, mtime |-> 0]
      BY DEF ConnInit
    <2>4. d.nets \in SomeNets
      BY DEF Contracts, SomeNets
    <2>5. gen \in [at : GenPlaces, nets : SomeNets]
      BY DEF ConnInit, NotRunning, SomeNets, GenPlaces
    <2>6. guard \in [Threads -> [at : GuardPlaces, contract : SomeContracts, endpoints : SomeNets,
                                 nets : SomeNets, key : Keys]]
      BY <2>1 DEF ConnInit, NotCalled, SomeContracts, SomeNets, GuardPlaces
    <2>7. validated \in Keys
      BY <2>1 DEF ConnInit
    <2> QED BY <2>2, <2>3, <2>4, <2>5, <2>6, <2>7, ConnectivityAssumption DEF ConnTypeOK
  <1>2. \A t \in Threads : ThreadSound(t)
    BY DEF ConnInit, ThreadSound, NotCalled
  <1>3. validated # Key
    BY ConnectivityAssumption DEF ConnInit, Key, NeverValidated
  <1> QED BY <1>1, <1>2, <1>3 DEF ConnInit, ConnInv, RememberedKeyIsSound

(* A write of one of the three files makes every key that was taken before *)
(* an old one, so nothing that was known of the files is claimed any more. *)
LEMMA WriteMakesKeysOld ==
  ASSUME ConnInv, ConnTypeOK',
         UNCHANGED <<guard, validated>>,
         contract'.mtime >= contract.mtime, sheet'.mtime >= sheet.mtime,
         text'.mtime >= text.mtime,
         \/ contract'.mtime > contract.mtime
         \/ sheet'.mtime > sheet.mtime
         \/ text'.mtime > text.mtime
  PROVE  ConnInv'
  <1>1. ASSUME NEW key \in Keys, Seen(key) PROVE Seen(key)' /\ key # Key'
    BY <1>1 DEF ConnInv, ConnTypeOK, Keys, Seen, Key
  <1>2. NeverValidated # Key'
    BY ConnectivityAssumption DEF ConnInv, ConnTypeOK, NeverValidated, Key
  <1>3. \A t \in Threads : ThreadSound(t)'
    <2> SUFFICES ASSUME NEW t \in Threads PROVE ThreadSound(t)'
      OBVIOUS
    <2>1. guard[t].key \in Keys /\ ThreadSound(t)
      BY DEF ConnInv, ConnTypeOK
    <2> QED BY <1>1, <2>1 DEF ThreadSound
  <1>4. (validated = NeverValidated \/ Seen(validated))' /\ validated' # Key'
    BY <1>1, <1>2 DEF ConnInv, ConnTypeOK
  <1> QED BY <1>3, <1>4 DEF ConnInv, RememberedKeyIsSound

(* Editors and the generator. *)
LEMMA WritingKeeps == ConnInv /\ Writing => ConnInv'
  <1> SUFFICES ASSUME ConnInv, Writing PROVE ConnInv'
    OBVIOUS
  <1> USE DEF ConnInv
  <1>1. CASE EditContract
    <2>1. PICK c \in Contracts : contract' = [is |-> c, mtime |-> contract.mtime + 1]
      BY <1>1 DEF EditContract
    <2>2. ConnTypeOK'
      BY <1>1, <2>1, ConnectivityAssumption DEF EditContract, ConnTypeOK
    <2>3. contract'.mtime > contract.mtime
      BY <2>1 DEF ConnTypeOK
    <2> QED BY <1>1, <2>2, <2>3, WriteMakesKeysOld DEF EditContract, ConnTypeOK
  <1>2. CASE EditSheet
    <2>1. PICK n \in Nets : sheet' = [is |-> n, mtime |-> sheet.mtime + 1]
      BY <1>2 DEF EditSheet
    <2>2. ConnTypeOK'
      BY <1>2, <2>1, ConnectivityAssumption DEF EditSheet, ConnTypeOK
    <2>3. sheet'.mtime > sheet.mtime
      BY <2>1 DEF ConnTypeOK
    <2> QED BY <1>2, <2>2, <2>3, WriteMakesKeysOld DEF EditSheet, ConnTypeOK
  <1>3. CASE /\ UNCHANGED <<contract, sheet, text, guard, validated>>
             /\ gen' \in [at : GenPlaces, nets : SomeNets]
    <2>1. ConnTypeOK'
      BY <1>3 DEF ConnTypeOK
    <2> QED BY <1>3, <2>1 DEF ThreadSound, Seen, Key, RememberedKeyIsSound
  <1>4. CASE ExportForGenerator
    BY <1>3, <1>4 DEF ExportForGenerator, ConnTypeOK, SomeNets, GenPlaces
  <1>5. CASE CompareForGenerator
    BY <1>3, <1>5 DEF CompareForGenerator, NotRunning, ConnTypeOK, SomeNets, GenPlaces
  <1>6. CASE WriteText
    <2>1. gen' \in [at : GenPlaces, nets : SomeNets]
      BY <1>6 DEF WriteText, NotRunning, SomeNets, GenPlaces, ConnTypeOK
    <2>2. CASE UNCHANGED text
      BY <1>3, <1>6, <2>1, <2>2 DEF WriteText
    <2>3. CASE text' # text
      <3>1. /\ text.mtime < MaxWrites
            /\ text' = [digest |-> contract.is, endpoints |-> gen.nets, mtime |-> text.mtime + 1]
        BY <1>6, <2>3 DEF WriteText
      <3>2. ConnTypeOK'
        BY <1>6, <2>1, <3>1, ConnectivityAssumption DEF WriteText, ConnTypeOK
      <3>3. text'.mtime > text.mtime
        BY <3>1 DEF ConnTypeOK
      <3> QED BY <1>6, <3>2, <3>3, WriteMakesKeysOld DEF WriteText, ConnTypeOK
    <2> QED BY <2>2, <2>3
  <1> QED BY <1>1, <1>2, <1>4, <1>5, <1>6 DEF Writing

(* The steps of the guard.  A thread learns of a file only what the file   *)
(* holds at that step, and writes nothing but the key.                     *)
LEMMA GuardingKeeps == ASSUME NEW t \in Threads, ConnInv, Guarding(t) PROVE ConnInv'
  <1> USE DEF ConnInv
  <1>1. UNCHANGED <<contract, sheet, text, gen>>
    BY DEF Guarding, ReadingGuard, Remember, RememberKey
  <1>2. Key' = Key /\ (\A key : Seen(key)' <=> Seen(key))
    BY <1>1 DEF Key, Seen
  <1>3. Key \in Keys /\ Seen(Key)
    BY DEF Key, Keys, Seen, ConnTypeOK
  <1>4. \A u \in Threads \ {t} : guard'[u] = guard[u]
    BY DEF Guarding, ReadingGuard, ReadContract, ReadText, Stat, Export, Compare, Remember,
           RememberKey, ConnTypeOK
  <1>5. \A u \in Threads \ {t} : ThreadSound(u)'
    BY <1>1, <1>2, <1>4 DEF ThreadSound
  <1>6. ASSUME ReadingGuard(t) PROVE ConnTypeOK' /\ ThreadSound(t)'
    <2>1. contract.is \in SomeContracts /\ sheet.is \in SomeNets /\ text.endpoints \in SomeNets
      BY DEF ConnTypeOK, SomeContracts, SomeNets
    <2>2. CASE ReadContract(t)
      <3>1. PICK at \in {"text", "refused"} : guard' = [guard EXCEPT ![t].at = at, ![t].contract = contract.is]
        BY <2>2 DEF ReadContract
      <3>2. ConnTypeOK'
        BY <1>1, <1>6, <2>1, <3>1 DEF ReadingGuard, ConnTypeOK, GuardPlaces
      <3>3. ThreadSound(t)'
        BY <1>1, <1>6, <2>1, <2>2, <3>1 DEF ReadContract, ConnTypeOK, ThreadSound, GuardAt
      <3> QED BY <3>2, <3>3
    <2>3. CASE ReadText(t)
      <3>1. PICK at \in {"stat", "refused"} : guard' = [guard EXCEPT ![t].at = at, ![t].endpoints = text.endpoints]
        BY <2>3 DEF ReadText
      <3>2. ConnTypeOK'
        BY <1>1, <1>6, <2>1, <3>1 DEF ReadingGuard, ConnTypeOK, GuardPlaces
      <3>3. ThreadSound(t)'
        BY <1>1, <1>6, <2>1, <2>3, <3>1 DEF ReadText, ConnTypeOK, ThreadSound, GuardAt
      <3> QED BY <3>2, <3>3
    <2>4. CASE Stat(t)
      <3>1. PICK at \in {"accepted", "export"} : guard' = [guard EXCEPT ![t].at = at, ![t].key = Key]
        BY <2>4 DEF Stat
      <3>2. ConnTypeOK'
        BY <1>1, <1>2, <1>3, <1>6, <3>1 DEF ReadingGuard, ConnTypeOK, GuardPlaces
      <3>3. ThreadSound(t)'
        BY <1>1, <1>2, <1>3, <1>6, <2>4, <3>1 DEF Stat, ConnTypeOK, ThreadSound, GuardAt
      <3> QED BY <3>2, <3>3
    <2>5. CASE Export(t)
      <3>1. PICK at \in {"compare"} : guard' = [guard EXCEPT ![t].at = at, ![t].nets = sheet.is]
        BY <2>5 DEF Export
      <3>2. ConnTypeOK'
        BY <1>1, <1>2, <1>6, <2>1, <3>1 DEF ReadingGuard, ConnTypeOK, GuardPlaces
      <3>3. ThreadSound(t)'
        BY <1>1, <1>2, <1>6, <2>1, <2>5, <3>1 DEF Export, ConnTypeOK, ThreadSound, GuardAt
      <3> QED BY <3>2, <3>3
    <2>6. CASE Compare(t)
      BY <1>1, <1>2, <1>6, <2>6 DEF ReadingGuard, Compare, ConnTypeOK, ThreadSound, GuardAt, GuardPlaces
    <2> QED BY <1>6, <2>2, <2>3, <2>4, <2>5, <2>6 DEF ReadingGuard
  <1>7. CASE ReadingGuard(t)
    <2>1. validated' = validated
      BY <1>7 DEF ReadingGuard
    <2> QED BY <1>1, <1>2, <1>5, <1>6, <1>7, <2>1 DEF RememberedKeyIsSound
  <1>8. CASE Remember(t)
    <2>1. ThreadSound(t) /\ guard[t].at = "remember" /\ guard[t].key \in Keys
      BY <1>8 DEF Remember, RememberKey, GuardAt, ConnTypeOK
    <2>2. validated' \in {validated, guard[t].key}
      BY <1>8 DEF Remember, RememberKey
    <2>3. ConnTypeOK' /\ ThreadSound(t)'
      BY <1>1, <1>8, <2>1, <2>2 DEF Remember, RememberKey, ConnTypeOK, ThreadSound, GuardPlaces
    <2>4. (validated = NeverValidated \/ Seen(validated))'
      BY <1>2, <2>1, <2>2 DEF ThreadSound, NeverValidated
    <2>5. RememberedKeyIsSound'
      BY <1>1, <1>2, <2>1, <2>2 DEF ThreadSound, RememberedKeyIsSound
    <2> QED BY <1>5, <2>3, <2>4, <2>5
  <1> QED BY <1>7, <1>8 DEF Guarding

(* A call and its end. *)
LEMMA CallingKeeps == ASSUME NEW t \in Threads, ConnInv, Calling(t) PROVE ConnInv'
  <1> USE DEF ConnInv
  <1>1. UNCHANGED <<contract, sheet, text, gen, validated>>
    BY DEF Calling
  <1>2. NotCalled \in [at : GuardPlaces, contract : SomeContracts, endpoints : SomeNets,
                       nets : SomeNets, key : Keys]
    BY ConnectivityAssumption DEF NotCalled, NeverValidated, SomeContracts, SomeNets, Keys,
        GuardPlaces
  <1>3. ConnTypeOK'
    BY <1>1, <1>2 DEF Calling, Call, ConnTypeOK, GuardPlaces
  <1>4. guard'[t].at \in {"contract", "idle"} /\ \A u \in Threads \ {t} : guard'[u] = guard[u]
    BY DEF Calling, Call, NotCalled, ConnTypeOK
  <1>5. \A u \in Threads : ThreadSound(u)'
    BY <1>1, <1>4 DEF ThreadSound, Seen, Key
  <1> QED BY <1>1, <1>3, <1>5 DEF RememberedKeyIsSound, Seen, Key

-----------------------------------------------------------------------------
(* The guard's memory is sound, for every number of threads, nets and      *)
(* writes, and every interleaving of guards, editors and generator.        *)
THEOREM GuardRemembersSoundly == ConnSpec => []RememberedKeyIsSound
  <1>1. ConnInv /\ [ConnNext]_connVars => ConnInv'
    <2> SUFFICES ASSUME ConnInv, [ConnNext]_connVars PROVE ConnInv'
      OBVIOUS
    <2>1. CASE ConnNext
      BY <2>1, WritingKeeps, GuardingKeeps, CallingKeeps DEF ConnNext
    <2>2. CASE UNCHANGED connVars
      BY <2>2 DEF connVars, ConnInv, ConnTypeOK, ThreadSound, Seen, Key, RememberedKeyIsSound
    <2> QED BY <2>1, <2>2
  <1>2. ConnInv => RememberedKeyIsSound
    BY DEF ConnInv
  <1> QED BY <1>1, <1>2, ConnInitEstablishes, PTL DEF ConnSpec

-----------------------------------------------------------------------------
(***************************************************************************)
(* The page shows its own values when it has settled, for any number of    *)
(* edits, threads and requests under way.  Among the simulations that are  *)
(* not answered there is at most one that all others precede; it carries   *)
(* the values of the page, and its answer overtakes what is still out.     *)
(***************************************************************************)

Requests == [path : {"none", "simulate", "generate"}, values : Nat,
             overtaken : BOOLEAN, earlier : SUBSET Threads]

PageTypeOK ==
  /\ request \in [Threads -> Requests]
  /\ values \in Nat /\ edits \in Nat
  /\ \A t, u \in Threads : u \in request[t].earlier => request[u].path = "simulate"

(* The simulation asked for last, as long as it is not answered. *)
Latest(t) ==
  /\ request[t].path = "simulate"
  /\ \A u \in Threads \ {t} :
       request[u].path = "simulate" => u \in request[t].earlier /\ t \notin request[u].earlier

LatestIsOut ==
  \E t \in Threads : Latest(t) /\ request[t].values = values /\ ~request[t].overtaken

LatestIsShown ==
  /\ \A t \in Threads : request[t].path = "simulate" => request[t].overtaken
  /\ status.says = "model current" /\ ~status.overtaken => result = values

PageInv ==
  /\ PageTypeOK
  /\ ~timer /\ ~resetting => LatestIsOut \/ LatestIsShown

(* A request goes to a free thread and knows those before it. *)
LEMMA SendIsTyped ==
  ASSUME PageTypeOK, NEW path \in {"simulate", "generate"}, NEW vals \in Nat,
         Send(path, vals), values' \in Nat, edits' \in Nat
  PROVE  PageTypeOK'
  <1>1. PICK t \in Threads :
          /\ ~Flying(t)
          /\ request' = [request EXCEPT ![t] =
               [path |-> path, values |-> vals, overtaken |-> FALSE,
                earlier |-> {u \in Threads : request[u].path = "simulate"}]]
    BY DEF Send
  <1>2. request' \in [Threads -> Requests]
    BY <1>1 DEF PageTypeOK, Requests
  <1>3. /\ request'[t].earlier = {u \in Threads : request[u].path = "simulate"}
        /\ \A u \in Threads \ {t} : request'[u] = request[u]
    BY <1>1 DEF PageTypeOK
  <1>4. \A u \in Threads : request[u].path = "simulate" => request'[u].path = "simulate"
    BY <1>1, <1>3 DEF Flying
  <1>5. \A v, u \in Threads : u \in request'[v].earlier => request'[u].path = "simulate"
    BY <1>3, <1>4 DEF PageTypeOK
  <1> QED BY <1>2, <1>5 DEF PageTypeOK

(* A simulation that is asked for is the latest. *)
LEMMA SimulationIsLatest ==
  ASSUME PageTypeOK, Send("simulate", values')
  PROVE  LatestIsOut'
  <1>1. PICK t \in Threads :
          /\ ~Flying(t)
          /\ request' = [request EXCEPT ![t] =
               [path |-> "simulate", values |-> values', overtaken |-> FALSE,
                earlier |-> {u \in Threads : request[u].path = "simulate"}]]
    BY DEF Send
  <1>2. /\ request'[t].path = "simulate" /\ request'[t].values = values'
        /\ ~request'[t].overtaken
        /\ request'[t].earlier = {u \in Threads : request[u].path = "simulate"}
        /\ \A u \in Threads \ {t} : request'[u] = request[u]
    BY <1>1 DEF PageTypeOK
  <1>3. \A u \in Threads : t \notin request[u].earlier
    BY <1>1 DEF PageTypeOK, Flying
  <1>4. Latest(t)'
    BY <1>2, <1>3 DEF Latest
  <1> QED BY <1>2, <1>4 DEF LatestIsOut

(* A configuration is asked for: the simulations stay as they are. *)
LEMMA GenerateKeeps ==
  ASSUME PageInv, ClickGenerate PROVE PageInv'
  <1>1. PICK t \in Threads :
          /\ ~Flying(t)
          /\ request' = [request EXCEPT ![t] =
               [path |-> "generate", values |-> values, overtaken |-> FALSE,
                earlier |-> {u \in Threads : request[u].path = "simulate"}]]
    BY DEF ClickGenerate, Send
  <1>2. PageTypeOK'
    BY SendIsTyped DEF PageInv, PageTypeOK, ClickGenerate, pageVars
  <1>3. /\ request'[t].path = "generate" /\ request[t].path # "simulate"
        /\ \A u \in Threads \ {t} : request'[u] = request[u]
    BY <1>1 DEF PageInv, PageTypeOK, Flying
  <1>4. UNCHANGED <<values, timer, resetting, status, result>>
    BY DEF ClickGenerate, pageVars
  <1>5. \A u \in Threads : Latest(u) => Latest(u)'
    BY <1>3 DEF Latest
  <1>6. LatestIsOut => LatestIsOut'
    <2> SUFFICES ASSUME NEW u \in Threads, Latest(u), request[u].values = values,
                        ~request[u].overtaken
                 PROVE  LatestIsOut'
      BY DEF LatestIsOut
    <2>1. u # t
      BY <1>3 DEF Latest
    <2> QED BY <1>3, <1>4, <1>5, <2>1 DEF LatestIsOut
  <1>7. LatestIsShown => LatestIsShown'
    BY <1>3, <1>4 DEF LatestIsShown
  <1> QED BY <1>2, <1>4, <1>6, <1>7 DEF PageInv

(* What an answer does to the requests. *)
LEMMA AnswerTells ==
  ASSUME PageTypeOK, NEW t \in Threads, Answer(t)
  PROVE  /\ request'[t].path = "none"
         /\ \A u \in Threads \ {t} :
              /\ request'[u].path = request[u].path
              /\ request'[u].values = request[u].values
              /\ request'[u].earlier = request[u].earlier \ {t}
              /\ request'[u].overtaken <=>
                   \/ request[u].overtaken
                   \/ request[t].path = "simulate" /\ u \in request[t].earlier
         /\ UNCHANGED <<values, edits, timer, resetting>>
         /\ PageTypeOK'
  <1> DEFINE overtakes(u) == request[t].path = "simulate" /\ u \in request[t].earlier
             told(u) == [request[u] EXCEPT !.overtaken = @ \/ overtakes(u), !.earlier = @ \ {t}]
  <1>1. /\ request' = [u \in Threads |-> IF u = t THEN NoRequest ELSE told(u)]
        /\ UNCHANGED <<values, edits, timer, resetting>>
    BY DEF Answer
  <1>2. request'[t] = NoRequest
    BY <1>1
  <1>3. ASSUME NEW u \in Threads \ {t}
        PROVE  /\ request'[u].path = request[u].path
               /\ request'[u].values = request[u].values
               /\ request'[u].earlier = request[u].earlier \ {t}
               /\ request'[u].overtaken <=> request[u].overtaken \/ overtakes(u)
               /\ request'[u] \in Requests
    <2>1. request[u] \in Requests
      BY DEF PageTypeOK
    <2>3. request'[u] = told(u)
      BY <1>1
    <2>4. (request[u].overtaken \/ overtakes(u)) \in BOOLEAN
      OBVIOUS
    <2>5. request[u].earlier \ {t} \in SUBSET Threads
      BY <2>1 DEF Requests
    <2> DEFINE b == request[u].overtaken \/ overtakes(u)
               e == request[u].earlier \ {t}
    <2>6. /\ request[u] \in Requests /\ b \in BOOLEAN /\ e \in SUBSET Threads
          /\ request'[u] = [request[u] EXCEPT !.overtaken = b, !.earlier = e]
      BY <2>1, <2>3, <2>4, <2>5
    <2> HIDE DEF b, e
    <2>7. /\ request'[u] \in Requests /\ request'[u].path = request[u].path
          /\ request'[u].values = request[u].values
          /\ request'[u].earlier = e /\ request'[u].overtaken = b
      BY <2>6 DEF Requests
    <2> QED BY <2>7 DEF b, e
  <1>4. PageTypeOK'
    <2>1. NoRequest \in Requests
      BY DEF NoRequest, Requests
    <2>2. request' \in [Threads -> Requests]
      <3>1. \A u \in Threads : request'[u] \in Requests
        BY <1>2, <1>3, <2>1
      <3>2. \E f : request' = [u \in Threads |-> f[u]]
        <4>1. request' = [u \in Threads |-> request'[u]]
          BY <1>1
        <4> QED BY <4>1
      <3> QED BY <3>1, <3>2
    <2>3. \A v, u \in Threads : u \in request'[v].earlier => request'[u].path = "simulate"
      BY <1>2, <1>3 DEF PageTypeOK, NoRequest
    <2> QED BY <1>1, <2>2, <2>3 DEF PageTypeOK
  <1>5. request'[t].path = "none"
    BY <1>2 DEF NoRequest
  <1> QED BY <1>1, <1>3, <1>4, <1>5

(* What the page makes of an answer. *)
LEMMA AnswerShows ==
  ASSUME NEW t \in Threads, Answer(t)
  PROVE  /\ request[t].path = "simulate" =>
              \/ status'.says = "error"
              \/ result' = request[t].values /\ (request[t].overtaken => status'.overtaken)
         /\ request[t].path # "simulate" =>
              UNCHANGED <<status, result>> \/ status'.says # "model current"
  <1> DEFINE r == request[t]
             seen == Outcome(t) = "200" /\ r.path = "simulate"
             made == Outcome(t) = "200" /\ r.path = "generate"
             lost == Outcome(t) = "closed" /\ r.path = "generate"
  <1>1. CASE seen
    <2>1. /\ status' = [says |-> "model current", overtaken |-> r.overtaken]
          /\ result' = r.values
      BY <1>1 DEF Answer
    <2>2. r.overtaken => status'.overtaken
      BY <2>1
    <2> QED BY <1>1, <2>1, <2>2
  <1>2. CASE made
    <2>1. ~seen
      BY <1>2
    <2>2. status' = Line("C config generated")
      BY <1>2, <2>1 DEF Answer
    <2>3. status'.says = "C config generated"
      BY <2>2 DEF Line
    <2> QED BY <1>2, <2>3
  <1>3. CASE lost
    <2>1. UNCHANGED <<status, result>>
      BY <1>3 DEF Answer
    <2> QED BY <1>3, <2>1
  <1>4. CASE ~seen /\ ~made /\ ~lost
    <2>1. status' = Line("error")
      BY <1>4 DEF Answer
    <2>2. status'.says = "error"
      BY <2>1 DEF Line
    <2> QED BY <2>2
  <1> QED BY <1>1, <1>2, <1>3, <1>4

LEMMA AnswerKeeps ==
  ASSUME PageInv, NEW t \in Threads, Answer(t) PROVE PageInv'
  <1>1. PageTypeOK
    BY DEF PageInv
  <1>2. /\ PageTypeOK'
        /\ UNCHANGED <<values, timer, resetting>>
        /\ request'[t].path = "none"
        /\ \A u \in Threads \ {t} :
              /\ request'[u].path = request[u].path
              /\ request'[u].values = request[u].values
              /\ request'[u].earlier = request[u].earlier \ {t}
              /\ request'[u].overtaken <=>
                   \/ request[u].overtaken
                   \/ request[t].path = "simulate" /\ u \in request[t].earlier
    BY <1>1, AnswerTells
  <1> SUFFICES ASSUME ~timer, ~resetting PROVE LatestIsOut' \/ LatestIsShown'
    BY <1>2 DEF PageInv
  <1>3. CASE LatestIsShown
    <2>1. \A u \in Threads : request'[u].path = "simulate" => request'[u].overtaken
      BY <1>2, <1>3 DEF LatestIsShown
    <2>2. status'.says = "model current" /\ ~status'.overtaken => result' = values'
      BY <1>2, <1>3, AnswerShows DEF LatestIsShown
    <2> QED BY <2>1, <2>2 DEF LatestIsShown
  <1>4. CASE LatestIsOut
    <2>1. PICK w \in Threads : Latest(w) /\ request[w].values = values /\ ~request[w].overtaken
      BY <1>4 DEF LatestIsOut
    <2>2. CASE w = t
      <3>1. \A u \in Threads : request'[u].path = "simulate" => request'[u].overtaken
        BY <1>2, <2>1, <2>2 DEF Latest
      <3>2. status'.says = "model current" => result' = values'
        BY <1>2, <2>1, <2>2, AnswerShows DEF Latest
      <3> QED BY <3>1, <3>2 DEF LatestIsShown
    <2>3. CASE w # t
      <3>1. request[t].path = "simulate" => w \notin request[t].earlier
        BY <2>1, <2>3 DEF Latest
      <3>2. ~request'[w].overtaken /\ request'[w].values = values'
        BY <1>2, <2>1, <2>3, <3>1
      <3>3. Latest(w)'
        BY <1>2, <2>1, <2>3 DEF Latest
      <3> QED BY <3>2, <3>3 DEF LatestIsOut
    <2> QED BY <2>2, <2>3
  <1> QED BY <1>3, <1>4 DEF PageInv

LEMMA ServerKeeps == PageInv /\ [ServerNext]_serverVars => PageInv'
  <1> SUFFICES ASSUME PageInv, [ServerNext]_serverVars PROVE PageInv'
    OBVIOUS
  <1>1. CASE Edit \/ ClickReset
    <2>1. /\ UNCHANGED request /\ (timer' \/ resetting')
          /\ values' \in Nat /\ edits' \in Nat
      BY <1>1 DEF Edit, ClickReset, PageInv, PageTypeOK
    <2> QED BY <2>1 DEF PageInv, PageTypeOK
  <1>2. CASE Run
    <2>1. /\ Send("simulate", values') /\ UNCHANGED <<values, edits>>
      BY <1>2 DEF Run
    <2>2. values' \in Nat /\ edits' \in Nat
      BY <2>1 DEF PageInv, PageTypeOK
    <2> QED BY <2>1, <2>2, SendIsTyped, SimulationIsLatest DEF PageInv
  <1>3. CASE Reset
    <2>1. Send("simulate", values') /\ values' = 0 /\ UNCHANGED edits
      BY <1>3 DEF Reset
    <2>2. values' \in Nat /\ edits' \in Nat
      BY <2>1 DEF PageInv, PageTypeOK
    <2> QED BY <2>1, <2>2, SendIsTyped, SimulationIsLatest DEF PageInv
  <1>4. CASE ClickGenerate
    BY <1>4, GenerateKeeps
  <1>5. ASSUME NEW t \in Threads, Answer(t) PROVE PageInv'
    BY <1>5, AnswerKeeps
  <1>6. ASSUME UNCHANGED <<pageVars, request>> PROVE PageInv'
    BY <1>6 DEF pageVars, PageInv, PageTypeOK, LatestIsOut, LatestIsShown, Latest
  <1>7. ASSUME NEW t \in Threads, Validate(t) \/ Serve(t) PROVE PageInv'
    BY <1>6, <1>7 DEF Validate, Serve
  <1>8. CASE UNCHANGED serverVars
    BY <1>6, <1>8 DEF serverVars
  <1> QED BY <1>1, <1>2, <1>3, <1>4, <1>5, <1>7, <1>8 DEF ServerNext, Page, Thread

(* A page that has settled and says "model current" shows the simulation   *)
(* of its values, unless the answer it shows was overtaken, whatever the   *)
(* threads answer and in which order.                                      *)
THEOREM PageSettlesOnItsValues == ServerSpec => []SettledPageIsCurrent
  <1>1. ServerInit => PageInv
    BY ServerAssumption DEF ServerInit, PageInv, PageTypeOK, Requests, NoRequest
  <1>2. PageInv => SettledPageIsCurrent
    <2> SUFFICES ASSUME PageInv, \A t \in Threads : ~Flying(t), ~timer, ~resetting
                 PROVE  LatestIsShown
      BY DEF SettledPageIsCurrent, LatestIsShown
    <2> QED BY DEF PageInv, LatestIsOut, Latest, Flying
  <1> QED BY <1>1, <1>2, ServerKeeps, PTL DEF ServerSpec

-----------------------------------------------------------------------------
(***************************************************************************)
(* The firmware accepts a header made from values the page can hold, for   *)
(* whatever is typed into the controls and however often.                  *)
(***************************************************************************)

ControlsClamped ==
  /\ control \in [Controls -> Int]
  /\ \A key \in Controls : Schema[key][2] <= control[key] /\ control[key] <= Schema[key][3]
  /\ changes \in Nat

LEMMA SchemaIsOrdered ==
  \A key \in Controls :
    /\ Schema[key][1] \in Int /\ Schema[key][2] \in Int /\ Schema[key][3] \in Int
    /\ Schema[key][2] <= Schema[key][1] /\ Schema[key][1] <= Schema[key][3]
  BY DEF Controls, Schema

LEMMA ClampIsClamped ==
  ASSUME NEW key \in Controls, NEW n \in Int
  PROVE  /\ Clamp(key, n) \in Int
         /\ Schema[key][2] <= Clamp(key, n) /\ Clamp(key, n) <= Schema[key][3]
  <1> DEFINE low == Schema[key][2]
             high == Schema[key][3]
  <1>1. low \in Int /\ high \in Int /\ low <= high
    BY SchemaIsOrdered
  <1> HIDE DEF low, high
  <1>2. Clamp(key, n) = IF n < low THEN low ELSE IF n > high THEN high ELSE n
    BY <1>1 DEF Clamp, low, high
  <1>3. Clamp(key, n) \in Int /\ low <= Clamp(key, n) /\ Clamp(key, n) <= high
    BY <1>1, <1>2
  <1> QED BY <1>3 DEF low, high

(* A whole number is rounded to itself. *)
LEMMA WholeNumbersStay ==
  ASSUME NEW n \in Int, n % 10 = 0
  PROVE  Rounded(n) \in Int /\ n = 10 * Rounded(n) /\ Cut(n) = Rounded(n)
  <1>1. Rounded(n) = n \div 10
    BY DEF Rounded
  <1>2. n \div 10 \in Int /\ n = 10 * (n \div 10)
    OBVIOUS
  <1> QED BY <1>1, <1>2 DEF Cut

(* A whole number of the page is in the header as it is. *)
LEMMA HeaderKeepsWholeNumbers ==
  ASSUME ControlsClamped, NEW key \in Controls \ Fractions, control[key] % 10 = 0
  PROVE  LET n == Header(control)[key] IN
         /\ n \in Int /\ control[key] = 10 * n /\ Cut(control[key]) = n
         /\ Schema[key][2] <= 10 * n /\ 10 * n <= Schema[key][3]
  <1>1. Header(control)[key] = Rounded(control[key])
    BY DEF Header
  <1>2. /\ control[key] \in Int
        /\ Schema[key][2] <= control[key] /\ control[key] <= Schema[key][3]
    BY DEF ControlsClamped
  <1>3. /\ Rounded(control[key]) \in Int /\ control[key] = 10 * Rounded(control[key])
        /\ Cut(control[key]) = Rounded(control[key])
    BY <1>2, WholeNumbersStay
  <1> QED BY <1>1, <1>2, <1>3

(* The limits of ir_spoke_config_validate, number by number. *)
LEMMA LimitsAreAccepted ==
  ASSUME NEW c, NEW tx, NEW rx, NEW hz, NEW res, NEW glitch, NEW low, NEW high, NEW lost,
         tx = c["tx_gpio"] /\ rx = c["rx_gpio"] /\ hz = c["carrier"] /\ res = c["resolution"],
         glitch = c["glitch"] /\ low = c["blocked_min"] /\ high = c["blocked_max"]
           /\ lost = c["link_loss"],
         tx # rx /\ tx \in 0..48 /\ rx \in 0..48 /\ hz >= 25000 /\ hz <= 50000,
         res >= 8 * hz /\ res <= 80000000,
         glitch # 0 /\ glitch * hz < 500000,
         low # 0 /\ low < high /\ lost > high,
         c["mem"] \in 48..512 /\ c["queue"] \in 1..8,
         c["duty"] \in 20..80 /\ c["demod_duty"] \in 20..80
           /\ c["ratio"] >= 50 /\ c["ratio"] < 100
  PROVE  FirmwareAccepts(c)
  BY DEF FirmwareAccepts

(* What the server lets through is what the firmware accepts. *)
LEMMA ValidMeansAccepted == ControlsClamped => HeaderAcceptedByFirmware
  <1>1. SUFFICES ASSUME ControlsClamped, \A key \in Controls \ Fractions : control[key] % 10 = 0,
                        Validates(control)
                 PROVE  FirmwareAccepts(Header(control))
    BY DEF HeaderAcceptedByFirmware
  <1>2. {"tx_gpio", "rx_gpio", "carrier", "resolution", "mem", "queue", "glitch",
         "blocked_min", "blocked_max", "link_loss"} \subseteq Controls \ Fractions
    BY DEF Fractions, Controls, Schema
  <1>3. {"duty", "demod_duty", "ratio"} \subseteq Fractions /\ Fractions \subseteq Controls
    BY DEF Fractions, Controls, Schema
  <1> DEFINE c == Header(control)
             tx == c["tx_gpio"]
             rx == c["rx_gpio"]
             hz == c["carrier"]
             res == c["resolution"]
             glitch == c["glitch"]
             low == c["blocked_min"]
             high == c["blocked_max"]
             lost == c["link_loss"]
  <1>4. tx \in Int /\ control["tx_gpio"] = 10 * tx /\ Cut(control["tx_gpio"]) = tx
        /\ 0 <= 10 * tx /\ 10 * tx <= 480
    <2>1. Schema["tx_gpio"][2] = 0 /\ Schema["tx_gpio"][3] = 480
      BY DEF Schema
    <2> QED BY <1>1, <1>2, <2>1, HeaderKeepsWholeNumbers
  <1>5. rx \in Int /\ control["rx_gpio"] = 10 * rx /\ Cut(control["rx_gpio"]) = rx
        /\ 0 <= 10 * rx /\ 10 * rx <= 480
    <2>1. Schema["rx_gpio"][2] = 0 /\ Schema["rx_gpio"][3] = 480
      BY DEF Schema
    <2> QED BY <1>1, <1>2, <2>1, HeaderKeepsWholeNumbers
  <1>6. hz \in Int /\ control["carrier"] = 10 * hz /\ 250000 <= 10 * hz /\ 10 * hz <= 500000
    <2>1. Schema["carrier"][2] = 250000 /\ Schema["carrier"][3] = 500000
      BY DEF Schema
    <2> QED BY <1>1, <1>2, <2>1, HeaderKeepsWholeNumbers
  <1>7. res \in Int /\ control["resolution"] = 10 * res /\ 10 * res <= 40000000
    <2>1. Schema["resolution"][3] = 40000000
      BY DEF Schema
    <2> QED BY <1>1, <1>2, <2>1, HeaderKeepsWholeNumbers
  <1>8. Cut(control["mem"]) = c["mem"] /\ Cut(control["queue"]) = c["queue"]
    BY <1>1, <1>2, HeaderKeepsWholeNumbers
  <1>9. glitch \in Int /\ control["glitch"] = 10 * glitch /\ 10 <= 10 * glitch
    <2>1. Schema["glitch"][2] = 10
      BY DEF Schema
    <2> QED BY <1>1, <1>2, <2>1, HeaderKeepsWholeNumbers
  <1>10. low \in Int /\ control["blocked_min"] = 10 * low /\ 200 <= 10 * low
    <2>1. Schema["blocked_min"][2] = 200
      BY DEF Schema
    <2> QED BY <1>1, <1>2, <2>1, HeaderKeepsWholeNumbers
  <1>11. /\ high \in Int /\ control["blocked_max"] = 10 * high
         /\ lost \in Int /\ control["link_loss"] = 10 * lost
    BY <1>1, <1>2, HeaderKeepsWholeNumbers
  <1>12. \A key \in Fractions : /\ c[key] = control[key] /\ c[key] \in Int
                                /\ Schema[key][2] <= c[key] /\ c[key] <= Schema[key][3]
    BY <1>1, <1>3 DEF Header, ControlsClamped
  <1>13. /\ Cut(control["tx_gpio"]) # Cut(control["rx_gpio"])
         /\ control["resolution"] >= 8 * control["carrier"]
         /\ Cut(control["mem"]) \in 48..512 /\ Cut(control["queue"]) \in 1..8
         /\ control["glitch"] * control["carrier"] < 50000000
         /\ control["blocked_min"] < control["blocked_max"]
         /\ control["blocked_max"] < control["link_loss"]
    BY <1>1 DEF Validates
  <1>14. /\ c["duty"] \in 20..80 /\ c["demod_duty"] \in 20..80
         /\ c["ratio"] >= 50 /\ c["ratio"] < 100
    <2>1. /\ Schema["duty"][2] = 20 /\ Schema["duty"][3] = 80
          /\ Schema["demod_duty"][2] = 20 /\ Schema["demod_duty"][3] = 80
          /\ Schema["ratio"][2] = 50 /\ Schema["ratio"][3] = 90
      BY DEF Schema
    <2>2. /\ c["duty"] \in Int /\ 20 <= c["duty"] /\ c["duty"] <= 80
          /\ c["demod_duty"] \in Int /\ 20 <= c["demod_duty"] /\ c["demod_duty"] <= 80
          /\ c["ratio"] \in Int /\ 50 <= c["ratio"] /\ c["ratio"] <= 90
      BY <1>3, <1>12, <2>1
    <2> HIDE DEF c
    <2> QED BY <2>2
  <1> HIDE DEF tx, rx, hz, res, glitch, low, high, lost
  <1>15. tx # rx /\ tx \in 0..48 /\ rx \in 0..48 /\ hz >= 25000 /\ hz <= 50000
    BY <1>4, <1>5, <1>6, <1>13
  <1>16. res >= 8 * hz /\ res <= 80000000
    <2>1. 10 * res >= 8 * (10 * hz)
      BY <1>6, <1>7, <1>13
    <2> QED BY <1>6, <1>7, <2>1
  <1>17. glitch # 0 /\ glitch * hz < 500000
    <2>1. (10 * glitch) * (10 * hz) < 50000000
      BY <1>6, <1>9, <1>13
    <2>2. (10 * glitch) * (10 * hz) = 100 * (glitch * hz) /\ glitch * hz \in Int
      BY <1>6, <1>9, SMT
    <2> DEFINE product == glitch * hz
    <2>3. product \in Int /\ 100 * product < 50000000
      BY <2>1, <2>2
    <2> HIDE DEF product
    <2>4. product < 500000
      BY <2>3
    <2> QED BY <1>9, <2>4 DEF product
  <1>18. low # 0 /\ low < high /\ lost > high
    <2>1. 10 * low < 10 * high /\ 10 * high < 10 * lost
      BY <1>10, <1>11, <1>13
    <2> QED BY <1>10, <1>11, <2>1
  <1>19. c["mem"] \in 48..512 /\ c["queue"] \in 1..8
    BY <1>8, <1>13
  <1> HIDE DEF c
  <1>20. FirmwareAccepts(c)
    <2>1. tx = c["tx_gpio"] /\ rx = c["rx_gpio"] /\ hz = c["carrier"] /\ res = c["resolution"]
      BY DEF tx, rx, hz, res
    <2>2. /\ glitch = c["glitch"] /\ low = c["blocked_min"] /\ high = c["blocked_max"]
          /\ lost = c["link_loss"]
      BY DEF glitch, low, high, lost
    <2> QED BY <1>14, <1>15, <1>16, <1>17, <1>18, <1>19, <2>1, <2>2, LimitsAreAccepted
  <1> QED BY <1>20 DEF c

(* validate_code_parameters lets no header through that the firmware       *)
(* refuses when it starts, for all whole numbers the page can hold.        *)
THEOREM HeaderIsAccepted == ConfigSpec => []HeaderAcceptedByFirmware
  <1>1. ConfigInit => ControlsClamped
    BY SchemaIsOrdered DEF ConfigInit, ControlsClamped
  <1>2. ASSUME ControlsClamped, [ConfigNext]_configVars PROVE ControlsClamped'
    <2>1. ASSUME NEW key \in Controls, NEW n \in Typed[key], Type(key, n) PROVE ControlsClamped'
      <3>1. n \in Int
        BY ConfigAssumption
      <3>2. /\ control' = [control EXCEPT ![key] = Clamp(key, n)] /\ changes' = changes + 1
        BY <2>1 DEF Type
      <3>3. control'[key] = Clamp(key, n) /\ \A k \in Controls \ {key} : control'[k] = control[k]
        BY <1>2, <3>2 DEF ControlsClamped
      <3> QED BY <1>2, <3>1, <3>2, <3>3, ClampIsClamped DEF ControlsClamped
    <2>2. CASE UNCHANGED configVars
      BY <1>2, <2>2 DEF configVars, ControlsClamped
    <2> QED BY <1>2, <2>1, <2>2 DEF ConfigNext
  <1>3. ControlsClamped /\ [ConfigNext]_configVars => ControlsClamped'
    BY <1>2
  <1> QED BY <1>1, <1>3, ValidMeansAccepted, PTL DEF ConfigSpec

-----------------------------------------------------------------------------
(***************************************************************************)
(* What the sample chain reports is right for any length, delay, hold time *)
(* and currents.  The countdown is the hold time less the age of the last  *)
(* transition of the delayed comparator, which gives BlockedIffNoCarrier;  *)
(* each term of the peak bounds its term of a sample, which gives          *)
(* PeakBoundsTrace.                                                        *)
(***************************************************************************)

(* No transition is younger than the countdown says. *)
CountsFromLatest ==
  \A e \in 2..Len(comparator) : Transition(comparator, e) => countdown >= Hold - (Len(comparator) - e)

(* A countdown under way has a transition it counts from. *)
CountsFromSome ==
  countdown > 0 =>
    \E e \in 2..Len(comparator) :
      Transition(comparator, e) /\ countdown = Hold - (Len(comparator) - e)

SampleInv ==
  /\ SampleTypeOK
  /\ CountsFromLatest /\ CountsFromSome
  /\ BlockedIffNoCarrier
  /\ PeakBoundsTrace

-----------------------------------------------------------------------------
LEMMA SampleInitEstablishes == SampleInit => SampleInv
  <1> SUFFICES ASSUME SampleInit PROVE SampleInv
    OBVIOUS
  <1>1. SampleTypeOK
    <2>1. <<>> \in Seq({0, 1}) /\ Len(<<>>) = 0
      OBVIOUS
    <2>2. countdown \in 0..Hold /\ cpu \in 0..CpuSamples /\ vref \in 0..Vref /\ highest \in Nat
      BY SampleAssumption DEF SampleInit
    <2>3. ideal = <<>> /\ comparator = <<>> /\ clear = <<>> /\ toggled \in BOOLEAN
      BY DEF SampleInit
    <2> QED BY <2>1, <2>2, <2>3 DEF SampleTypeOK
  <1>2. CountsFromLatest /\ CountsFromSome /\ BlockedIffNoCarrier
    BY DEF SampleInit, CountsFromLatest, CountsFromSome, BlockedIffNoCarrier
  <1>3. PeakBoundsTrace
    BY SampleAssumption DEF SampleInit, PeakBoundsTrace, PeakEstimate
  <1> QED BY <1>1, <1>2, <1>3 DEF SampleInv

(* A sample is never charged with more than the peak allows for. *)
LEMMA SampleBelowPeak ==
  ASSUME NEW i \in Nat, NEW carrier \in BOOLEAN, NEW active \in BOOLEAN,
         NEW extra \in 0..Vref, NEW edge \in BOOLEAN
  PROVE  /\ Current(i, carrier, active, extra, edge) \in Nat
         /\ Current(i, carrier, active, extra, edge)
              <= WifiPeak + Overhead + Led + Base + AfeStatic + Inrush + Vref
                 + (IF edge THEN EdgeCharge ELSE 0) + CanIdle + CanDominant
  <1> DEFINE chip == IF Centred(WifiSamples, i) THEN WifiPeak ELSE IF active THEN Active ELSE Waiti
             beam == IF carrier THEN Led + Base ELSE 0
             rush == IF i < Rise THEN Inrush ELSE 0
             toggle == IF edge THEN EdgeCharge ELSE 0
             bus == IF Centred(CanSamples, i) THEN CanDominant ELSE 0
  <1>1. chip \in Nat /\ chip <= WifiPeak
    BY SampleAssumption, RadioIsLargest
  <1>2. beam \in Nat /\ beam <= Led + Base /\ rush \in Nat /\ rush <= Inrush
    BY SampleAssumption
  <1>3. toggle \in Nat /\ bus \in Nat /\ bus <= CanDominant
    BY SampleAssumption
  <1>4. Current(i, carrier, active, extra, edge)
          = chip + Overhead + beam + AfeStatic + rush + extra + toggle + CanIdle + bus
    BY DEF Current
  <1> HIDE DEF chip, beam, rush, toggle, bus
  <1>5. /\ Current(i, carrier, active, extra, edge) \in Nat
        /\ Current(i, carrier, active, extra, edge)
             <= WifiPeak + Overhead + Led + Base + AfeStatic + Inrush + Vref
                + toggle + CanIdle + CanDominant
    BY <1>1, <1>2, <1>3, <1>4, SampleAssumption
  <1> QED BY <1>5 DEF toggle

(* The comparator's state and what comes out of the delay are bits. *)
LEMMA ChainOfBits ==
  ASSUME SampleTypeOK, NEW level,
         NEW state, state = Switch(IF Len(ideal) = 0 THEN 0 ELSE Last(ideal), level)
  PROVE  /\ state \in {0, 1}
         /\ Delayed(Append(ideal, state)) \in {0, 1}
  <1>1. state \in {0, 1}
    BY DEF SampleTypeOK, Switch, Last
  <1> DEFINE s == Append(ideal, state)
  <1>2. s \in Seq({0, 1}) /\ Len(s) = Len(ideal) + 1
    BY <1>1 DEF SampleTypeOK
  <1> HIDE DEF s
  <1>3. Delayed(s) \in {0, 1}
    BY <1>2, SampleAssumption DEF Delayed, SampleTypeOK
  <1> QED BY <1>1, <1>3 DEF s

LEMMA SampleKeeps ==
  ASSUME SampleInv, NEW level, NEW carrier \in BOOLEAN, NEW extra \in 0..Vref,
         Sample(level, carrier, extra)
  PROVE  SampleInv'
  <1> DEFINE n == Len(ideal)
             state == Switch(IF n = 0 THEN 0 ELSE Last(ideal), level)
             delayed == Delayed(Append(ideal, state))
             edge == n > 0 /\ delayed # Last(comparator)
             present == IF Retrigger(edge) > 0 THEN 1 ELSE 0
             event == n > 0 /\ present # Last(clear)
             busy == IF event THEN CpuSamples ELSE IF cpu > 0 THEN cpu - 1 ELSE 0
             ma == Current(n, carrier, busy > 0, extra, edge)
  <1>1. /\ ideal' = Append(ideal, state)
        /\ comparator' = Append(comparator, delayed)
        /\ countdown' = Retrigger(edge)
        /\ clear' = Append(clear, present)
        /\ cpu' = busy
        /\ vref' = extra
        /\ highest' = IF ma > highest THEN ma ELSE highest
        /\ toggled' = (toggled \/ edge)
    BY DEF Sample
  <1>2. SampleTypeOK /\ n \in Nat /\ Len(comparator) = n /\ Len(clear) = n
    BY DEF SampleInv, SampleTypeOK
  <1>3. state \in {0, 1} /\ delayed \in {0, 1}
    BY <1>2, ChainOfBits
  <1>4. edge \in BOOLEAN /\ present \in {0, 1} /\ busy \in 0..CpuSamples
    BY <1>2, SampleAssumption DEF SampleTypeOK
  <1>5. /\ Len(comparator') = n + 1 /\ Len(clear') = n + 1
        /\ \A k \in 1..n : comparator'[k] = comparator[k] /\ clear'[k] = clear[k]
        /\ comparator'[n + 1] = delayed /\ clear'[n + 1] = present
    BY <1>1, <1>2, <1>3, <1>4 DEF SampleTypeOK
  <1>6. \A e \in 2..n : Transition(comparator', e) <=> Transition(comparator, e)
    BY <1>2, <1>5 DEF Transition
  <1>7. n > 0 => (Transition(comparator', n + 1) <=> edge)
    <2>1. n > 0 => n + 1 - 1 \in 1..n /\ n + 1 - 1 = n
      BY <1>2
    <2>2. n > 0 => comparator'[n + 1 - 1] = Last(comparator)
      BY <1>2, <1>5, <2>1 DEF Last
    <2>3. comparator'[n + 1] = delayed
      BY <1>5
    <2>4. n > 0 => (edge <=> delayed # Last(comparator))
      OBVIOUS
    <2>5. n > 0 => (Transition(comparator', n + 1) <=> delayed # Last(comparator))
      BY <2>2, <2>3 DEF Transition
    <2> QED BY <2>4, <2>5
  <1>8. countdown' = IF edge THEN Hold ELSE IF countdown > 0 THEN countdown - 1 ELSE 0
    BY <1>1 DEF Retrigger
  <1>9. ma \in Nat /\ ma <= WifiPeak + Overhead + Led + Base + AfeStatic + Inrush + Vref
                            + (IF edge THEN EdgeCharge ELSE 0) + CanIdle + CanDominant
    <2>1. n \in Nat /\ edge \in BOOLEAN /\ (busy > 0) \in BOOLEAN
      BY <1>2, <1>4
    <2> HIDE DEF n, edge, busy
    <2> QED BY <2>1, SampleBelowPeak
  <1> HIDE DEF n, state, delayed, edge, present, event, busy, ma
  <1>10. SampleTypeOK'
    <2>1. ideal' \in Seq({0, 1}) /\ comparator' \in Seq({0, 1}) /\ clear' \in Seq({0, 1})
      BY <1>1, <1>2, <1>3, <1>4 DEF SampleTypeOK
    <2>2. Len(ideal') = n + 1
      BY <1>1, <1>2, <1>3 DEF SampleTypeOK, n
    <2>3. countdown' \in 0..Hold
      BY <1>2, <1>8, SampleAssumption DEF SampleTypeOK
    <2> QED BY <1>1, <1>2, <1>4, <1>5, <1>9, <2>1, <2>2, <2>3 DEF SampleTypeOK
  <1>11. CountsFromLatest'
    <2> SUFFICES ASSUME NEW e \in 2..(n + 1), Transition(comparator', e) PROVE countdown' >= Hold - (n + 1 - e)
      BY <1>2, <1>5 DEF CountsFromLatest, Transition
    <2>1. CASE e = n + 1
      <3>1. n > 0 /\ Transition(comparator', n + 1)
        BY <1>2, <2>1
      <3>2. countdown' = Hold
        BY <1>7, <1>8, <3>1
      <3> QED BY <1>2, <2>1, <3>2, SampleAssumption
    <2>2. CASE e \in 2..n
      <3>1. countdown >= Hold - (n - e)
        BY <1>2, <1>6, <2>2 DEF SampleInv, CountsFromLatest
      <3> QED BY <1>2, <1>8, <2>2, <3>1, SampleAssumption DEF SampleTypeOK
    <2> QED BY <1>2, <2>1, <2>2
  <1>12. CountsFromSome'
    <2> SUFFICES ASSUME countdown' > 0
                 PROVE \E e \in 2..(n + 1) : Transition(comparator', e) /\ countdown' = Hold - (n + 1 - e)
      BY <1>2, <1>5 DEF CountsFromSome, Transition
    <2>1. CASE edge
      <3>1. n > 0
        BY <2>1 DEF edge
      <3>2. n + 1 \in 2..(n + 1) /\ Transition(comparator', n + 1) /\ countdown' = Hold - (n + 1 - (n + 1))
        BY <1>2, <1>7, <1>8, <2>1, <3>1, SampleAssumption
      <3> QED BY <3>2
    <2>2. CASE ~edge
      <3>1. countdown > 0 /\ countdown' = countdown - 1
        BY <1>2, <1>8, <2>2 DEF SampleTypeOK
      <3>2. PICK e \in 2..n : Transition(comparator, e) /\ countdown = Hold - (n - e)
        BY <1>2, <3>1 DEF SampleInv, CountsFromSome
      <3>3. e \in 2..(n + 1) /\ countdown' = Hold - (n + 1 - e)
        BY <1>2, <3>1, <3>2, SampleAssumption
      <3>4. Transition(comparator', e)
        BY <1>6, <3>2
      <3> QED BY <3>3, <3>4
    <2> QED BY <2>1, <2>2
  <1>13. BlockedIffNoCarrier'
    <2> SUFFICES ASSUME NEW k \in 1..(n + 1)
                 PROVE (clear'[k] = 1) <=> \E e \in 2..k : e > k - Hold /\ Transition(comparator', e)
      BY <1>5 DEF BlockedIffNoCarrier
    <2>1. CASE k \in 1..n
      <3>1. (clear[k] = 1) <=> \E e \in 2..k : e > k - Hold /\ Transition(comparator, e)
        BY <1>2, <2>1 DEF SampleInv, BlockedIffNoCarrier
      <3>2. 2..k \subseteq 2..n
        BY <1>2, <2>1
      <3> QED BY <1>5, <1>6, <2>1, <3>1, <3>2
    <2>2. CASE k = n + 1
      <3>1. (clear'[k] = 1) <=> countdown' > 0
        BY <1>1, <1>5, <2>2 DEF present
      <3>2. ASSUME countdown' > 0 PROVE \E e \in 2..k : e > k - Hold /\ Transition(comparator', e)
        <4>1. PICK e \in 2..(n + 1) : Transition(comparator', e) /\ countdown' = Hold - (n + 1 - e)
          BY <1>2, <1>5, <1>12, <3>2 DEF CountsFromSome, Transition
        <4>2. e \in 2..k /\ e > k - Hold
          BY <1>2, <2>2, <3>2, <4>1, SampleAssumption
        <4> QED BY <4>1, <4>2
      <3>3. ASSUME NEW e \in 2..k, e > k - Hold, Transition(comparator', e) PROVE countdown' > 0
        <4>1. countdown' >= Hold - (n + 1 - e)
          BY <1>2, <1>5, <1>11, <2>2, <3>3 DEF CountsFromLatest, Transition
        <4>2. countdown' \in 0..Hold
          BY <1>10 DEF SampleTypeOK
        <4> QED BY <1>2, <2>2, <3>3, <4>1, <4>2, SampleAssumption
      <3> QED BY <3>1, <3>2, <3>3
    <2> QED BY <1>2, <2>1, <2>2
  <1>14. PeakBoundsTrace'
    <2>1. highest \in Nat /\ toggled \in BOOLEAN /\ highest <= PeakEstimate
      BY <1>2 DEF SampleInv, SampleTypeOK, PeakBoundsTrace
    <2>2. CASE highest' = highest
      BY <1>1, <1>4, <2>1, <2>2, SampleAssumption DEF PeakBoundsTrace, PeakEstimate
    <2>3. CASE highest' = ma
      BY <1>1, <1>4, <1>9, <2>1, <2>3, SampleAssumption DEF PeakBoundsTrace, PeakEstimate
    <2> QED BY <1>1, <2>2, <2>3
  <1> QED BY <1>10, <1>11, <1>12, <1>13, <1>14 DEF SampleInv

LEMMA SampleInvariance == SampleSpec => []SampleInv
  <1>1. SampleInv /\ [SampleNext]_sampleVars => SampleInv'
    <2> SUFFICES ASSUME SampleInv, [SampleNext]_sampleVars PROVE SampleInv'
      OBVIOUS
    <2>1. CASE SampleNext
      BY <2>1, SampleKeeps DEF SampleNext
    <2>2. CASE UNCHANGED sampleVars
      BY <2>2 DEF sampleVars, SampleInv, SampleTypeOK, CountsFromLatest, CountsFromSome,
                  Transition, BlockedIffNoCarrier, PeakBoundsTrace, PeakEstimate
    <2> QED BY <2>1, <2>2
  <1> QED BY <1>1, SampleInitEstablishes, PTL DEF SampleSpec

(* The carrier removal follows the transitions, for every delay and hold.  *)
THEOREM DemodulatorIsExact == SampleSpec => []BlockedIffNoCarrier
  <1>1. SampleInv => BlockedIffNoCarrier
    BY DEF SampleInv
  <1> QED BY <1>1, SampleInvariance, PTL

(* The reported peak bounds every trace, for every set of currents.        *)
THEOREM ReportedPeakIsHighest == SampleSpec => []PeakBoundsTrace
  <1>1. SampleInv => PeakBoundsTrace
    BY DEF SampleInv
  <1> QED BY <1>1, SampleInvariance, PTL
=============================================================================
