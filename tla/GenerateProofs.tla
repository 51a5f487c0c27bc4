--------------------------- MODULE GenerateProofs ---------------------------
(***************************************************************************)
(* Proofs about Generate.  OpInv holds for any number of nodes and says    *)
(* what pixels, files and jobs have to do with each other whatever the     *)
(* session does; LifeInv ties a lambda to its worker.  What depends on the *)
(* session is proved under what makes it true: one node for files that     *)
(* keep to their model files (the session's contract, whose invariant      *)
(* SdSessionProofs has), one set of model files for a context that, once   *)
(* no load is under way, stays.                                            *)
(***************************************************************************)
EXTENDS Generate, SdSessionProofs

NodeRecords ==
  [alive : BOOLEAN, prompt : Prompts, seed : Seeds \cup {Random}, paths : Paths,
   lora : OptLoras,
   status : {"Cooking", "Ready", "other"}, dirty : BOOLEAN,
   shown : Seeds \cup {None}, lastSeed : Seeds,
   loaded : Keys \cup {None}, pixels : Images \cup {Torn, None},
   baking : Keys \cup {None},
   worker : {"Idle", "Running", "Done", "Error", "Cancelled"}]

JobRecords ==
  [pc : {"none", "session", "write", "rename", "return"}, key : Keys \cup {None},
   seed : Seeds, lora : OptLoras, made : OptPaths, shared : BOOLEAN]

(* An image that was made for the prompt and the seed of the key.          *)
MadeFor(image, k) == image.prompt = k.prompt /\ image.seed = k.seed

BufferInv(nd) ==
  nd.pixels \notin {None, Torn} => nd.loaded # None /\ MadeFor(nd.pixels, nd.loaded)

Good(nd) == nd \in NodeRecords /\ BufferInv(nd)

(* The lambda was given the seed its key was computed with.                *)
JobInv(j) == j.pc # "none" => j.key \in Keys /\ j.seed = j.key.seed

GoodJob(j) == j \in JobRecords /\ JobInv(j)

FilesInv ==
  /\ files \in [Keys -> Images \cup {Absent, Unreadable, Torn}]
  /\ \A k \in Keys : files[k] \in Images => MadeFor(files[k], k)

WorldInv ==
  /\ loraFiles \subseteq Loras
  /\ mainPc \in [at : {"ready", "cached", "launch", "delete"}, node : Nodes \cup {None}]
  /\ edits \in 0 .. MaxEdits

NodesInv == node \in [Nodes -> NodeRecords] /\ \A n \in Nodes : Good(node[n])
JobsInv == job \in [Nodes -> JobRecords] /\ \A n \in Nodes : GoodJob(job[n])

OpInv == NodesInv /\ JobsInv /\ FilesInv /\ WorldInv

(* One node: its call is inside the session exactly during the lambda's    *)
(* session calls, for the files of the key.                                *)
OneNode == \A a, b \in Nodes : a = b

ModelInv(j, r) ==
  /\ j.pc = "session" => r.pc # "idle" /\ r.paths = j.key.paths
  /\ j.pc # "session" => r.pc = "idle" /\ r.result = Pending
  /\ j.pc \in {"write", "rename", "return"} => j.made = j.key.paths

OneNodeInv == SessionInv /\ (\A n \in Nodes : ModelInv(job[n], call[n])) /\ FilesOfOwnModel

-----------------------------------------------------------------------------
(* The pieces of the handlers *)

LEMMA Distinct ==
  /\ None \notin Images /\ Torn \notin Images /\ Absent \notin Images /\ Unreadable \notin Images
  /\ None # Torn /\ Torn # Absent /\ Torn # Unreadable /\ 0 \in Seeds
  BY GenerateAssumption

LEMMA KeysAreImages == Keys \subseteq Images
  BY DEF Keys, Images, OptPaths

LEMMA KeyType ==
  ASSUME NEW nd \in NodeRecords
  PROVE  /\ KeyOf(nd) \in Keys /\ KeyOf(nd) # None
         /\ KeyOf(nd).seed = nd.lastSeed /\ KeyOf(nd).paths = nd.paths
<1>1. KeyOf(nd) \in Keys /\ KeyOf(nd).seed = nd.lastSeed /\ KeyOf(nd).paths = nd.paths
  BY DEF NodeRecords, KeyOf, Keys
<1> QED BY <1>1, Distinct, KeysAreImages

LEMMA DirtyGood ==
  ASSUME NEW nd, Good(nd), NEW d \in BOOLEAN
  PROVE  LET new == [nd EXCEPT !.dirty = d] IN
           /\ Good(new) /\ new.alive = nd.alive /\ new.worker = nd.worker
           /\ KeyOf(new) = KeyOf(nd)
<1> DEFINE new == [nd EXCEPT !.dirty = d]
<1>1. /\ new \in NodeRecords /\ new.loaded = nd.loaded /\ new.pixels = nd.pixels
      /\ new.alive = nd.alive /\ new.worker = nd.worker /\ new.prompt = nd.prompt
      /\ new.lastSeed = nd.lastSeed /\ new.paths = nd.paths /\ new.lora = nd.lora
  BY DEF Good, NodeRecords
<1> HIDE DEF new
<1>2. Good(new) /\ KeyOf(new) = KeyOf(nd)
  BY <1>1 DEF Good, BufferInv, KeyOf
<1> QED BY <1>1, <1>2 DEF new

LEMMA TextGood ==
  ASSUME NEW nd, Good(nd), NEW text
  PROVE  LET new == SetStatus(nd, text) IN
           /\ Good(new) /\ new.alive = nd.alive /\ new.worker = nd.worker
           /\ KeyOf(new) = KeyOf(nd)
<1> DEFINE shown == IF text \in {"Cooking", "Ready"} THEN text ELSE "other"
           d == nd.dirty \/ shown # nd.status
           new == [nd EXCEPT !.status = shown, !.dirty = d]
<1>1. shown \in {"Cooking", "Ready", "other"} /\ d \in BOOLEAN /\ SetStatus(nd, text) = new
  BY DEF SetStatus, Good, NodeRecords
<1> HIDE DEF shown, d
<1>2. /\ new \in NodeRecords /\ new.loaded = nd.loaded /\ new.pixels = nd.pixels
      /\ new.alive = nd.alive /\ new.worker = nd.worker /\ new.prompt = nd.prompt
      /\ new.lastSeed = nd.lastSeed /\ new.paths = nd.paths /\ new.lora = nd.lora
  <2>1. nd \in NodeRecords
    BY DEF Good
  <2>2. new \in NodeRecords
    BY <1>1, <2>1 DEF NodeRecords
  <2> QED BY <2>1, <2>2 DEF NodeRecords
<1> HIDE DEF new
<1>3. Good(new) /\ KeyOf(new) = KeyOf(nd)
  BY <1>2 DEF Good, BufferInv, KeyOf
<1> QED BY <1>1, <1>2, <1>3

LEMMA CookingGood ==
  ASSUME NEW nd, Good(nd), NEW moved \in BOOLEAN
  PROVE  LET new == SetCooking(nd, moved) IN
           /\ Good(new) /\ new.alive = nd.alive /\ new.worker = nd.worker
           /\ KeyOf(new) = KeyOf(nd)
<1> DEFINE told == SetStatus(nd, "Cooking")
           d == told.dirty \/ moved
           new == [told EXCEPT !.dirty = d]
<1>1. /\ Good(told) /\ told.alive = nd.alive /\ told.worker = nd.worker
      /\ KeyOf(told) = KeyOf(nd)
  BY TextGood
<1>2. SetCooking(nd, moved) = new
  BY DEF SetCooking
<1> HIDE DEF told
<1>3. d \in BOOLEAN
  BY <1>1 DEF Good, NodeRecords
<1> HIDE DEF d
<1> QED BY <1>1, <1>2, <1>3, DirtyGood

LEMMA DroppedGood == ASSUME NEW nd, Good(nd) PROVE Good(Dropped(nd))
<1>1. Dropped(nd) \in NodeRecords /\ Dropped(nd).pixels = None
  BY DEF Dropped, Good, NodeRecords
<1> QED BY <1>1 DEF Good, BufferInv

LEMMA TryLoadGood ==
  ASSUME NEW nd, Good(nd), NEW k \in Keys, FilesInv
  PROVE  Good(TryLoad(nd, k))
<1>1. CASE k # nd.loaded /\ Readable(k)
  <2> DEFINE px == files[k]
             new == [nd EXCEPT !.loaded = k, !.pixels = px]
  <2>1. TryLoad(nd, k) = new
    BY <1>1 DEF TryLoad
  <2>2. px \in Images \cup {Torn} /\ (px # Torn => MadeFor(px, k))
    BY <1>1 DEF FilesInv, Readable
  <2>3. new = [nd EXCEPT !.loaded = k, !.pixels = px]
    OBVIOUS
  <2> HIDE DEF px, new
  <2>4. new \in NodeRecords /\ new.loaded = k /\ new.pixels = px
    BY <2>2, <2>3 DEF Good, NodeRecords
  <2>5. k # None
    BY Distinct, KeysAreImages
  <2> QED BY <2>1, <2>2, <2>4, <2>5 DEF Good, BufferInv
<1> QED BY <1>1 DEF TryLoad

LEMMA ReportedGood == ASSUME NEW nd, Good(nd), NEW text PROVE Good(Reported(nd, text))
<1> DEFINE told == SetStatus(nd, text)
           new == [told EXCEPT !.worker = "Idle", !.baking = None]
<1>1. Good(told) /\ Reported(nd, text) = new
  BY TextGood DEF Reported
<1> HIDE DEF told
<1>2. new \in NodeRecords /\ new.loaded = told.loaded /\ new.pixels = told.pixels
  <2>1. told \in NodeRecords
    BY <1>1 DEF Good
  <2> QED BY <2>1 DEF NodeRecords
<1> HIDE DEF new
<1> QED BY <1>1, <1>2 DEF Good, BufferInv

LEMMA PollGood ==
  ASSUME NEW nd, Good(nd), NEW moved \in BOOLEAN
  PROVE  Good(Poll(nd, moved))
<1>1. CASE nd.worker = "Idle"
  BY <1>1 DEF Poll
<1>2. CASE nd.worker = "Running"
  BY <1>2, CookingGood DEF Poll
<1>3. CASE nd.worker = "Done"
  <2> DEFINE kept == IF nd.baking # None /\ nd.loaded # nd.baking THEN Dropped(nd) ELSE nd
  <2>1. Good(kept)
    BY DroppedGood
  <2>2. Poll(nd, moved) = Reported(kept, "Ready")
    BY <1>3 DEF Poll
  <2> HIDE DEF kept
  <2> QED BY <2>1, <2>2, ReportedGood
<1>4. CASE nd.worker \in {"Error", "Cancelled"}
  BY <1>4, ReportedGood DEF Poll
<1> QED BY <1>1, <1>2, <1>3, <1>4 DEF Good, NodeRecords

LEMMA ValidatedGood ==
  ASSUME NEW nd, Good(nd), NEW moved \in BOOLEAN, FilesInv
  PROVE  Good(Validated(nd, moved))
<1> DEFINE seen == [nd EXCEPT !.dirty = BumpsRevision]
           polled == Poll(seen, moved)
<1>1. Good(seen)
  BY DirtyGood, GenerateAssumption
<1> HIDE DEF seen
<1>2. Good(polled)
  BY <1>1, PollGood
<1>3. KeyOf(nd) \in Keys /\ Validated(nd, moved) = TryLoad(polled, KeyOf(nd))
  BY KeyType DEF Good, Validated, seen
<1> HIDE DEF polled
<1> QED BY <1>2, <1>3, TryLoadGood

LEMMA FreshGood ==
  ASSUME NEW nd, Good(nd)
  PROVE  Good(Fresh(nd)) /\ Good([Fresh(nd) EXCEPT !.alive = FALSE])
<1> DEFINE new == Fresh(nd)
           gone == [new EXCEPT !.alive = FALSE]
<1>1. new \in NodeRecords /\ new.pixels = None
  BY Distinct DEF Fresh, Good, NodeRecords
<1> HIDE DEF new
<1>2. gone \in NodeRecords /\ gone.pixels = None
  BY <1>1 DEF NodeRecords
<1> HIDE DEF gone
<1>3. Good(new) /\ Good(gone)
  BY <1>1, <1>2 DEF Good, BufferInv
<1> QED BY <1>3 DEF gone, new

(* Members that the buffer does not depend on get other values.            *)
LEMMA BakingGood ==
  ASSUME NEW nd, Good(nd), NEW moved \in BOOLEAN
  PROVE  LET new == Cooking(nd, moved) IN Good(new) /\ Good([new EXCEPT !.worker = "Running"])
<1> DEFINE told == SetCooking(nd, moved)
           k == KeyOf(nd)
           new == [told EXCEPT !.baking = k]
           started == [new EXCEPT !.worker = "Running"]
<1>1. Good(told) /\ k \in Keys /\ Cooking(nd, moved) = new
  BY CookingGood, KeyType DEF Good, Cooking
<1> HIDE DEF told, k
<1>2. new \in NodeRecords /\ new.loaded = told.loaded /\ new.pixels = told.pixels
  BY <1>1 DEF Good, NodeRecords
<1> HIDE DEF new
<1>3. started \in NodeRecords /\ started.loaded = new.loaded /\ started.pixels = new.pixels
  BY <1>2 DEF NodeRecords
<1> HIDE DEF started
<1>4. Good(new) /\ Good(started)
  BY <1>1, <1>2, <1>3 DEF Good, BufferInv
<1> QED BY <1>1, <1>4 DEF started

LEMMA ResolvedGood == ASSUME NEW nd, Good(nd), NEW s \in Seeds PROVE Good(Resolved(nd, s))
<1> DEFINE d == nd.dirty \/ s # nd.shown
           new == [nd EXCEPT !.lastSeed = s, !.shown = s, !.dirty = d]
<1>1. d \in BOOLEAN /\ Resolved(nd, s) = new
  BY DEF Resolved, Good, NodeRecords
<1> HIDE DEF d
<1>2. new \in NodeRecords /\ new.loaded = nd.loaded /\ new.pixels = nd.pixels
  BY <1>1 DEF Good, NodeRecords
<1> HIDE DEF new
<1>3. Good(new)
  BY <1>2 DEF Good, BufferInv
<1> QED BY <1>1, <1>3

LEMMA OutcomeGood ==
  ASSUME NEW nd, Good(nd), NEW outcome \in {"Done", "Error", "Cancelled"}
  PROVE  Good([nd EXCEPT !.worker = outcome])
  BY DEF Good, BufferInv, NodeRecords

-----------------------------------------------------------------------------
(* The parts of OpInv, each kept by what it does not see and by a change   *)
(* of one node, job or file.                                               *)

LEMMA NodeSet ==
  ASSUME NodesInv, NEW n \in Nodes, NEW nd, Good(nd), SetNode(n, nd)
  PROVE  NodesInv' /\ node'[n] = nd
  BY DEF NodesInv, Good, SetNode

LEMMA JobSet ==
  ASSUME JobsInv, NEW n \in Nodes, NEW j, GoodJob(j), SetJob(n, j)
  PROVE  JobsInv' /\ job'[n] = j
  BY DEF JobsInv, GoodJob, SetJob

LEMMA FileSet ==
  ASSUME FilesInv, NEW k \in Keys, NEW content,
         content \in {Absent, Unreadable, Torn} \/ (content \in Images /\ MadeFor(content, k)),
         files' = [files EXCEPT ![k] = content]
  PROVE  FilesInv'
  BY Distinct DEF FilesInv

LEMMA FilesCleared ==
  ASSUME FilesInv, NEW kept \in SUBSET Keys,
         files' = [k \in Keys |-> IF k \in kept THEN files[k] ELSE Absent]
  PROVE  FilesInv'
<1>1. \A k \in Keys : files'[k] \in {files[k], Absent}
  OBVIOUS
<1>2. files' = [k \in Keys |-> files'[k]]
  OBVIOUS
<1>3. files' \in [Keys -> Images \cup {Absent, Unreadable, Torn}]
  BY <1>1, <1>2 DEF FilesInv
<1> QED BY <1>1, <1>3, Distinct DEF FilesInv

LEMMA WorldSet ==
  ASSUME WorldInv, NEW at \in {"ready", "cached", "launch", "delete"}, NEW n \in Nodes \cup {None},
         UNCHANGED mainPc \/ mainPc' = InMain(at, n), UNCHANGED loraFiles,
         edits' \in 0 .. MaxEdits
  PROVE  WorldInv'
  BY DEF WorldInv, InMain

LEMMA Kept ==
  /\ NodesInv /\ UNCHANGED node => NodesInv'
  /\ JobsInv /\ UNCHANGED job => JobsInv'
  /\ FilesInv /\ UNCHANGED files => FilesInv'
  /\ WorldInv /\ UNCHANGED <<mainPc, loraFiles, edits>> => WorldInv'
  BY DEF NodesInv, JobsInv, FilesInv, WorldInv

LEMMA NoJobGood == GoodJob(NoJob) /\ NoJob.pc = "none"
<1>1. NoJob \in JobRecords
  BY Distinct DEF NoJob, JobRecords, OptLoras, OptPaths
<1> QED BY <1>1 DEF NoJob, GoodJob, JobInv

LEMMA FirstJobGood ==
  ASSUME NEW k \in Keys, NEW l \in OptLoras
  PROVE  LET j == [NoJob EXCEPT !.pc = "session", !.key = k, !.seed = k.seed, !.lora = l] IN
           GoodJob(j) /\ j.pc = "session" /\ j.key = k
<1> DEFINE seed == k.seed
           j == [NoJob EXCEPT !.pc = "session", !.key = k, !.seed = seed, !.lora = l]
<1>1. seed \in Seeds /\ j = [NoJob EXCEPT !.pc = "session", !.key = k, !.seed = seed, !.lora = l]
  BY DEF Keys
<1>2. NoJob \in JobRecords
  BY NoJobGood DEF GoodJob
<1>3. j.seed = seed
  BY <1>2 DEF JobRecords
<1> HIDE DEF seed, j
<1>4. j \in JobRecords /\ j.pc = "session" /\ j.key = k
  BY <1>1, <1>2 DEF JobRecords
<1>5. GoodJob(j)
  BY <1>3, <1>4 DEF GoodJob, JobInv, seed
<1> QED BY <1>4, <1>5 DEF j, seed

(* The lambda goes on, with what its session call made.                    *)
LEMMA JobMoved ==
  ASSUME NEW j, GoodJob(j), j.pc # "none", NEW pc \in {"write", "rename", "return"},
         NEW made \in OptPaths, NEW shared \in BOOLEAN
  PROVE  LET new == [j EXCEPT !.pc = pc, !.made = made, !.shared = shared] IN
           GoodJob(new) /\ new.key = j.key /\ new.made = made /\ new.pc = pc
<1> DEFINE new == [j EXCEPT !.pc = pc, !.made = made, !.shared = shared]
<1>1. /\ new \in JobRecords /\ new.key = j.key /\ new.seed = j.seed
      /\ new.made = made /\ new.pc = pc
  BY DEF GoodJob, JobRecords
<1> HIDE DEF new
<1>2. GoodJob(new)
  BY <1>1 DEF GoodJob, JobInv
<1> QED BY <1>1, <1>2 DEF new

LEMMA SharedSet ==
  ASSUME NEW j, GoodJob(j)
  PROVE  LET new == [j EXCEPT !.shared = TRUE] IN
           GoodJob(new) /\ new.pc = j.pc /\ new.key = j.key /\ new.made = j.made
  BY DEF GoodJob, JobInv, JobRecords

LEMMA PcSet ==
  ASSUME NEW j, GoodJob(j), j.pc # "none", NEW pc \in {"rename", "return"}
  PROVE  LET new == [j EXCEPT !.pc = pc] IN
           GoodJob(new) /\ new.pc = pc /\ new.key = j.key /\ new.made = j.made
  BY DEF GoodJob, JobInv, JobRecords

LEMMA Facts ==
  ASSUME OpInv, NEW n \in Nodes
  PROVE  /\ NodesInv /\ JobsInv /\ FilesInv /\ WorldInv
         /\ Good(node[n]) /\ node[n] \in NodeRecords
         /\ GoodJob(job[n]) /\ job[n] \in JobRecords
         /\ edits \in 0 .. MaxEdits
  BY DEF OpInv, NodesInv, JobsInv, WorldInv, Good, GoodJob

(* A handler that changes its node and nothing that others see.            *)
LEMMA OnMain ==
  ASSUME OpInv, NEW n \in Nodes, NEW nd, Good(nd), SetNode(n, nd), UNCHANGED <<job, files>>,
         NEW at \in {"ready", "cached", "launch", "delete"}, NEW m \in Nodes \cup {None},
         UNCHANGED mainPc \/ mainPc' = InMain(at, m), UNCHANGED loraFiles,
         edits' \in 0 .. MaxEdits
  PROVE  OpInv'
<1>1. NodesInv /\ JobsInv /\ FilesInv /\ WorldInv
  BY DEF OpInv
<1>2. NodesInv' /\ JobsInv' /\ FilesInv'
  BY <1>1, NodeSet, Kept
<1>3. WorldInv'
  BY <1>1, WorldSet
<1> QED BY <1>2, <1>3 DEF OpInv

LEMMA EditOp ==
  ASSUME OpInv, NEW n \in Nodes, Edit(n)
  PROVE  OpInv'
<1>1. Good(node[n]) /\ node[n] \in NodeRecords /\ BufferInv(node[n])
  BY Facts DEF Good
<1>2. PICK nd :
        /\ Edited(n, nd)
        /\ \/ \E p \in Prompts : nd = [node[n] EXCEPT !.prompt = p]
           \/ \E s \in Seeds \cup {Random} : nd = [node[n] EXCEPT !.seed = s]
           \/ \E p \in Paths : nd = [node[n] EXCEPT !.paths = p]
           \/ \E l \in OptLoras : nd = [node[n] EXCEPT !.lora = l]
  BY DEF Edit
<1>3. nd \in NodeRecords /\ nd.loaded = node[n].loaded /\ nd.pixels = node[n].pixels
  BY <1>1, <1>2 DEF NodeRecords
<1>4. Good([nd EXCEPT !.dirty = TRUE]) /\ SetNode(n, [nd EXCEPT !.dirty = TRUE])
  <2>1. Good(nd)
    BY <1>1, <1>3 DEF Good, BufferInv
  <2> QED BY <1>2, <2>1, DirtyGood DEF Edited
<1>5. edits' \in 0 .. MaxEdits
  BY Facts, GenerateAssumption DEF Edit
<1>6. None \in Nodes \cup {None} /\ UNCHANGED <<job, files, mainPc, loraFiles>>
  BY DEF Edit
<1> QED BY <1>4, <1>5, <1>6, OnMain

(* The handlers that leave job, files and edits alone.                     *)
LEMMA MainOp ==
  ASSUME OpInv, NEW n \in Nodes,
         \/ ViewerValidates(n) \/ TimerPoll(n) \/ ClearNoDirectory(n)
         \/ BakeRunning(n) \/ BakeRefused(n) \/ BakeLookup(n) \/ BakeCached(n)
         \/ BakeStartRefused(n) \/ DeleteNode(n) \/ DeleteJoined(n)
  PROVE  OpInv'
<1>1. /\ Good(node[n]) /\ node[n] \in NodeRecords /\ FilesInv
      /\ edits \in 0 .. MaxEdits /\ n \in Nodes \cup {None} /\ None \in Nodes \cup {None}
  BY Facts
<1>2. \E nd : Good(nd) /\ SetNode(n, nd)
  <2>1. CASE ViewerValidates(n) \/ TimerPoll(n)
    BY <1>1, <2>1, ValidatedGood DEF ViewerValidates, TimerPoll
  <2>2. CASE ClearNoDirectory(n) \/ BakeRunning(n) \/ BakeRefused(n)
    BY <1>1, <2>2, TextGood DEF ClearNoDirectory, BakeRunning, BakeRefused
  <2>3. CASE BakeLookup(n)
    <3>1. SeedChoices(node[n]) \subseteq Seeds
      BY <1>1, GenerateAssumption DEF SeedChoices, NodeRecords
    <3>2. PICK s \in SeedChoices(node[n]) : SetNode(n, Resolved(node[n], s))
      BY <2>3 DEF BakeLookup
    <3> QED BY <1>1, <3>1, <3>2, ResolvedGood
  <2>4. CASE BakeCached(n)
    <3>1. Good(SetStatus(node[n], "Already cached")) /\ KeyOf(node[n]) \in Keys
      BY <1>1, TextGood, KeyType
    <3>2. Good(TryLoad(SetStatus(node[n], "Already cached"), KeyOf(node[n])))
      BY <1>1, <3>1, TryLoadGood
    <3> QED BY <2>4, <3>2 DEF BakeCached
  <2>5. CASE BakeStartRefused(n)
    BY <1>1, <2>5, BakingGood DEF BakeStartRefused
  <2>6. CASE DeleteNode(n)
    <3>1. SetNode(n, node[n])
      BY <2>6, Facts DEF DeleteNode, SetNode, NodesInv
    <3> QED BY <1>1, <3>1
  <2>7. CASE DeleteJoined(n)
    BY <1>1, <2>7, FreshGood DEF DeleteJoined
  <2> QED BY <2>1, <2>2, <2>3, <2>4, <2>5, <2>6, <2>7
<1>3. PICK nd : Good(nd) /\ SetNode(n, nd)
  BY <1>2
<1>4. UNCHANGED <<job, files, loraFiles, edits>>
  BY DEF ViewerValidates, TimerPoll, ClearNoDirectory, BakeRunning, BakeRefused, BakeLookup,
     BakeCached, BakeStartRefused, DeleteNode, DeleteJoined
<1>5. \/ UNCHANGED mainPc
      \/ mainPc' = InMain("ready", None)
      \/ \E at \in {"cached", "launch", "delete"} : mainPc' = InMain(at, n)
  BY DEF ViewerValidates, TimerPoll, ClearNoDirectory, BakeRunning, BakeRefused, BakeLookup,
     BakeCached, BakeStartRefused, DeleteNode, DeleteJoined
<1> QED BY <1>1, <1>3, <1>4, <1>5, OnMain

LEMMA ClearOp ==
  ASSUME OpInv, NEW n \in Nodes, ClearCache(n) \/ ClearThrows(n)
  PROVE  OpInv'
<1>1. NodesInv /\ JobsInv /\ FilesInv /\ WorldInv /\ Good(node[n])
  BY Facts
<1>2. NodesInv'
  <2>1. Good(SetStatus(Dropped(node[n]), "Cleared"))
    BY <1>1, DroppedGood, TextGood
  <2> QED BY <1>1, <2>1, NodeSet, Kept DEF ClearCache, ClearThrows
<1>3. FilesInv'
  BY <1>1, FilesCleared DEF ClearCache, ClearThrows
<1> QED BY <1>1, <1>2, <1>3, Kept DEF OpInv, ClearCache, ClearThrows

LEMMA BakeLaunchOp ==
  ASSUME OpInv, NEW n \in Nodes, BakeLaunch(n)
  PROVE  OpInv' /\ job'[n].pc = "session" /\ job'[n].key = KeyOf(node[n])
<1>1. NodesInv /\ JobsInv /\ FilesInv /\ WorldInv /\ Good(node[n]) /\ node[n] \in NodeRecords
  BY Facts
<1>2. NodesInv'
  <2>1. PICK moved \in BOOLEAN : SetNode(n, [Cooking(node[n], moved) EXCEPT !.worker = "Running"])
    BY DEF BakeLaunch
  <2>2. Good([Cooking(node[n], moved) EXCEPT !.worker = "Running"])
    BY <1>1, BakingGood
  <2> QED BY <1>1, <2>1, <2>2, NodeSet
<1> DEFINE k == KeyOf(node[n])
           lora == IF node[n].lora \in loraFiles THEN node[n].lora ELSE NoLora
           j == [NoJob EXCEPT !.pc = "session", !.key = k, !.seed = k.seed, !.lora = lora]
<1>3. k \in Keys /\ k.seed = node[n].lastSeed /\ lora \in OptLoras
  BY <1>1, KeyType DEF NodeRecords, OptLoras
<1>4. SetJob(n, j)
  BY <1>3 DEF BakeLaunch, SetJob
<1> HIDE DEF k, lora
<1>5. GoodJob(j) /\ j.pc = "session" /\ j.key = k
  BY <1>3, FirstJobGood
<1> HIDE DEF j
<1>6. JobsInv' /\ job'[n] = j
  BY <1>1, <1>4, <1>5, JobSet
<1>7. WorldInv'
  BY <1>1 DEF BakeLaunch, WorldInv, InMain
<1> QED BY <1>1, <1>2, <1>5, <1>6, <1>7, Kept DEF OpInv, BakeLaunch, k

LEMMA EndJobOp ==
  ASSUME OpInv, NEW n \in Nodes, NEW outcome \in {"Done", "Error", "Cancelled"},
         EndJob(n, outcome), UNCHANGED <<files, loraFiles, mainPc, edits>>
  PROVE  OpInv'
<1>1. Good([node[n] EXCEPT !.worker = outcome])
  BY Facts, OutcomeGood
<1>2. NodesInv'
  BY <1>1, Facts, NodeSet DEF EndJob
<1>3. JobsInv'
  BY Facts, NoJobGood, JobSet DEF EndJob
<1> QED BY <1>2, <1>3, Facts, Kept DEF OpInv

LEMMA JobEndsOp ==
  ASSUME OpInv, NEW n \in Nodes, JobSessionFailed(n) \/ JobWriteFails(n) \/ JobReturn(n)
  PROVE  OpInv'
  BY EndJobOp DEF JobSessionFailed, JobWriteFails, JobReturn

(* The job, or one that writes the same key, determines the file.          *)
LEMMA FileContent ==
  ASSUME NEW n \in Nodes, JobRemoveOld(n) \/ JobRename(n)
  PROVE  \E o \in Rivals(n) \cup {n} :
           /\ o \in Nodes /\ job[o].pc # "none" /\ job[o].key = job[n].key
           /\ \E content : /\ content \in {Absent, Unreadable, Torn, Baked(job[o])}
                           /\ files' = [files EXCEPT ![job[n].key] = content]
<1>1. \A o \in Rivals(n) \cup {n} : o \in Nodes /\ job[o].pc # "none" /\ job[o].key = job[n].key
  BY DEF Rivals, JobRemoveOld, JobRename
<1>2. CASE JobRemoveOld(n)
  BY <1>1, <1>2 DEF JobRemoveOld
<1>3. CASE JobRename(n)
  <2>1. PICK content \in Renamed(n) : files' = [files EXCEPT ![job[n].key] = content]
    BY <1>3 DEF JobRename
  <2>2. \E o \in Rivals(n) \cup {n} : content \in {Unreadable, Torn, Baked(job[o])}
    BY DEF Renamed
  <2> QED BY <1>1, <2>1, <2>2
<1> QED BY <1>2, <1>3

LEMMA JobFilesOp ==
  ASSUME OpInv, NEW n \in Nodes, JobRemoveOld(n) \/ JobRename(n)
  PROVE  OpInv'
<1>1. /\ NodesInv /\ JobsInv /\ FilesInv /\ WorldInv /\ GoodJob(job[n])
      /\ job[n] \in JobRecords /\ job[n].pc # "none"
  BY Facts DEF JobRemoveOld, JobRename
<1>2. job[n].key \in Keys /\ job[n].seed = job[n].key.seed
  BY <1>1 DEF GoodJob, JobInv
<1>3. FilesInv'
  <2>1. PICK o \in Nodes :
          /\ job[o].pc # "none" /\ job[o].key = job[n].key
          /\ \E content : /\ content \in {Absent, Unreadable, Torn, Baked(job[o])}
                          /\ files' = [files EXCEPT ![job[n].key] = content]
    BY FileContent
  <2>2. job[o] \in JobRecords /\ job[o].seed = job[n].key.seed
    BY <2>1, Facts DEF GoodJob, JobInv
  <2>3. Baked(job[o]) \in Images /\ MadeFor(Baked(job[o]), job[n].key)
    BY <1>2, <2>1, <2>2 DEF Baked, MadeFor, JobRecords, Keys, Images
  <2> QED BY <1>1, <1>2, <2>1, <2>3, FileSet
<1>4. JobsInv'
  <2>1. PICK pc \in {"rename", "return"} : SetJob(n, [job[n] EXCEPT !.pc = pc])
    BY DEF JobRemoveOld, JobRename
  <2>2. GoodJob([job[n] EXCEPT !.pc = pc])
    BY <1>1, PcSet
  <2> QED BY <1>1, <2>1, <2>2, JobSet
<1>5. NodesInv' /\ WorldInv'
  BY <1>1, Kept DEF JobRemoveOld, JobRename
<1> QED BY <1>3, <1>4, <1>5 DEF OpInv

(* image_cache_write begins; the rivals learn of it. *)
LEMMA JobGeneratedOp ==
  ASSUME OpInv, SessionTypeOK, NEW n \in Nodes, JobGenerated(n)
  PROVE  OpInv'
<1> DEFINE made == call[n].result.made
           shared == Rivals(n) # {}
<1>1. made \in OptPaths /\ shared \in BOOLEAN
  <2>1. call[n] \in CallRecords
    BY Typed DEF Nodes
  <2> QED BY <2>1 DEF CallRecords, Results
<1>2. job' = [o \in Nodes |->
        IF o = n THEN [job[n] EXCEPT !.pc = "write", !.made = made, !.shared = shared]
        ELSE IF o \in Rivals(n) THEN [job[o] EXCEPT !.shared = TRUE]
        ELSE job[o]]
  BY DEF JobGenerated
<1>3. job[n].pc # "none"
  BY DEF JobGenerated
<1> HIDE DEF made, shared
<1>4. ASSUME NEW o \in Nodes PROVE GoodJob(job'[o])
  <2>1. GoodJob(job[o])
    BY Facts
  <2>2. CASE o = n
    BY <1>1, <1>2, <1>3, <2>1, <2>2, JobMoved
  <2>3. CASE o # n /\ o \in Rivals(n)
    BY <1>2, <2>1, <2>3, SharedSet
  <2>4. CASE o # n /\ o \notin Rivals(n)
    BY <1>2, <2>1, <2>4
  <2> QED BY <2>2, <2>3, <2>4
<1>5. job' \in [Nodes -> JobRecords]
  <2>1. job' = [o \in Nodes |-> job'[o]]
    BY <1>2
  <2> QED BY <1>4, <2>1 DEF GoodJob
<1> QED BY <1>4, <1>5, Facts, Kept DEF OpInv, JobsInv, JobGenerated

-----------------------------------------------------------------------------
(* What the op does to the session's variables besides SessionStep: it     *)
(* gives a call another record.                                            *)

CallGiven(n) ==
  \E new \in CallRecords : SetCall(n, new) /\ UNCHANGED <<session, cb>>

LEMMA CallSet ==
  ASSUME SessionTypeOK, NEW n \in Nodes, CallGiven(n)
  PROVE  SessionTypeOK'
<1>1. PICK new \in CallRecords : SetCall(n, new) /\ UNCHANGED <<session, cb>>
  BY DEF CallGiven
<1>2. call' \in [Callers -> CallRecords]
  BY <1>1, SetCallTyped DEF Nodes
<1> QED BY <1>1, <1>2, Typed, TypedNext

LEMMA CancelTyped ==
  ASSUME NEW r \in CallRecords, NEW b \in BOOLEAN
  PROVE  LET new == [r EXCEPT !.cancel = b] IN
           new \in CallRecords /\ new.pc = r.pc /\ new.paths = r.paths /\ new.result = r.result
                                /\ new.freed = r.freed
  BY DEF CallRecords

LEMMA CallsGiven ==
  ASSUME OpInv, SessionTypeOK, NEW n \in Nodes,
         BakeLaunch(n) \/ JobSessionFailed(n) \/ JobGenerated(n) \/ JobReturn(n) \/ DeleteNode(n)
  PROVE  CallGiven(n)
<1>1. call[n] \in CallRecords /\ call[n].cancel \in BOOLEAN
  BY Typed DEF Nodes, CallRecords
<1>2. CASE BakeLaunch(n)
  <2>1. node[n].paths \in Paths
    BY Facts DEF NodeRecords
  <2> QED BY <1>2, <2>1, EnteredType DEF BakeLaunch, CallGiven
<1>3. CASE JobSessionFailed(n) \/ JobReturn(n)
  BY <1>3, NoCallType DEF JobSessionFailed, JobReturn, CallGiven
<1>4. CASE JobGenerated(n)
  <2>1. [NoCall EXCEPT !.cancel = call[n].cancel] \in CallRecords
    BY <1>1, NoCallType, CancelTyped
  <2> QED BY <1>4, <2>1 DEF JobGenerated, CallGiven
<1>5. CASE DeleteNode(n)
  <2>1. (job[n] # NoJob) \in BOOLEAN
    OBVIOUS
  <2>2. [call[n] EXCEPT !.cancel = (job[n] # NoJob)] \in CallRecords
    BY <1>1, <2>1, CancelTyped
  <2> QED BY <1>5, <2>2 DEF DeleteNode, CallGiven
<1> QED BY <1>2, <1>3, <1>4, <1>5

(* All other steps of the op leave the session alone.                      *)
LEMMA SessionUntouched ==
  ASSUME NEW n \in Nodes,
         \/ Edit(n) \/ ViewerValidates(n) \/ TimerPoll(n)
         \/ ClearCache(n) \/ ClearThrows(n) \/ ClearNoDirectory(n)
         \/ BakeRunning(n) \/ BakeRefused(n) \/ BakeLookup(n) \/ BakeCached(n)
         \/ BakeStartRefused(n) \/ DeleteJoined(n)
         \/ JobRemoveOld(n) \/ JobWriteFails(n) \/ JobRename(n)
  PROVE  UNCHANGED sessionVars
  BY DEF Edit, ViewerValidates, TimerPoll, ClearCache, ClearThrows, ClearNoDirectory, BakeRunning,
     BakeRefused, BakeLookup, BakeCached, BakeStartRefused, DeleteJoined,
     JobRemoveOld, JobWriteFails, JobRename

TypedInv == OpInv /\ SessionTypeOK

LEMMA RestartTyped == ASSUME TypedInv, Restart PROVE TypedInv'
<1>1. NodesInv'
  <2>1. \A n \in Nodes : Good(node'[n])
    BY Facts, FreshGood, DirtyGood DEF Restart, TypedInv
  <2>2. node' = [n \in Nodes |-> node'[n]]
    BY DEF Restart
  <2> QED BY <2>1, <2>2 DEF NodesInv, Good
<1>2. JobsInv'
  BY NoJobGood DEF Restart, JobsInv, GoodJob
<1>3. FilesInv' /\ WorldInv'
  BY DEF TypedInv, OpInv, FilesInv, WorldInv, Restart, InMain
<1>4. SessionTypeOK'
  <2>1. session' \in SessionRecords /\ cb' \in CbRecords
    BY DEF Restart, NoSession, SessionRecords, CbRecords, OptPaths
  <2>2. call' \in [Callers -> CallRecords]
    BY NoCallType DEF Restart, Nodes
  <2> QED BY <2>1, <2>2, TypedNext
<1> QED BY <1>1, <1>2, <1>3, <1>4 DEF TypedInv, OpInv

LEMMA InitTyped == Init => TypedInv
<1> SUFFICES ASSUME Init PROVE TypedInv
  OBVIOUS
<1>1. ASSUME NEW n \in Nodes PROVE Good(node[n])
  <2>1. node[n] \in
         [alive : {TRUE}, prompt : Prompts, seed : Seeds \cup {Random}, paths : Paths,
          lora : OptLoras, status : {"other"}, dirty : {TRUE}, shown : {None}, lastSeed : {0},
          loaded : {None}, pixels : {None}, baking : {None}, worker : {"Idle"}]
    BY DEF Init
  <2>2. node[n].pixels = None /\ node[n] \in NodeRecords
    BY <2>1, Distinct DEF NodeRecords
  <2> QED BY <2>2 DEF Good, BufferInv
<1>2. NodesInv
  <2>1. node = [n \in Nodes |-> node[n]]
    BY DEF Init
  <2> QED BY <1>1, <2>1 DEF NodesInv, Good
<1>3. JobsInv
  BY NoJobGood DEF Init, JobsInv, GoodJob
<1>4. FilesInv
  BY Distinct DEF Init, FilesInv
<1>5. WorldInv
  BY GenerateAssumption DEF Init, WorldInv, InMain
<1>6. SessionTypeOK
  BY SessionInitInv DEF Init, SessionInv
<1> QED BY <1>2, <1>3, <1>4, <1>5, <1>6 DEF TypedInv, OpInv

LEMMA NextTyped == TypedInv /\ [Next]_vars => TypedInv'
<1> SUFFICES ASSUME TypedInv, [Next]_vars PROVE TypedInv'
  OBVIOUS
<1>1. OpInv /\ SessionTypeOK /\ (UNCHANGED sessionVars => SessionTypeOK')
  BY DEF TypedInv, sessionVars, SessionTypeOK
<1>2. ASSUME NEW n \in Nodes, UserStep(n) \/ HandlerStep(n) \/ TimerPoll(n)
      PROVE  TypedInv'
  <2>1. OpInv'
    BY <1>1, <1>2, EditOp, MainOp, ClearOp, BakeLaunchOp DEF UserStep, HandlerStep
  <2>2. SessionTypeOK'
    BY <1>1, <1>2, SessionUntouched, CallsGiven, CallSet DEF UserStep, HandlerStep
  <2> QED BY <2>1, <2>2 DEF TypedInv
<1>3. ASSUME NEW n \in Nodes, JobStep(n) PROVE TypedInv'
  <2>1. CASE JobInSession(n)
    <3>1. OpInv'
      BY <1>1, <2>1, Kept DEF JobInSession, opVars, OpInv
    <3>2. SessionTypeOK'
      BY <1>1, <2>1, SessionStepTypes DEF JobInSession, Nodes
    <3> QED BY <3>1, <3>2 DEF TypedInv
  <2>2. CASE ~ JobInSession(n)
    <3>1. OpInv'
      BY <1>1, <1>3, <2>2, JobEndsOp, JobFilesOp, JobGeneratedOp DEF JobStep
    <3>2. SessionTypeOK'
      BY <1>1, <1>3, <2>2, SessionUntouched, CallsGiven, CallSet DEF JobStep
    <3> QED BY <3>1, <3>2 DEF TypedInv
  <2> QED BY <2>1, <2>2
<1>4. CASE LoraFilesChange
  <2>1. edits' \in 0 .. MaxEdits /\ loraFiles' \subseteq Loras
    BY <1>1, <1>4, GenerateAssumption DEF LoraFilesChange, OpInv, WorldInv
  <2>2. WorldInv' /\ UNCHANGED sessionVars
    BY <1>1, <1>4, <2>1 DEF LoraFilesChange, OpInv, WorldInv
  <2> QED BY <1>1, <1>4, <2>2, Kept DEF LoraFilesChange, TypedInv, OpInv
<1>5. CASE UNCHANGED vars
  BY <1>1, <1>5, Kept DEF vars, opVars, TypedInv, OpInv
<1> QED BY <1>2, <1>3, <1>4, <1>5, RestartTyped DEF Next

LEMMA TypedInvariance == Spec => []TypedInv
  BY InitTyped, NextTyped, PTL DEF Spec

(* The fields keep to their ranges, the session's included although its    *)
(* contract is not kept, for any number of nodes.                          *)
THEOREM Types == Spec => []TypeOK
<1>1. TypedInv => TypeOK
  BY DEF TypedInv, OpInv, NodesInv, JobsInv, FilesInv, WorldInv, TypeOK, NodeRecords, JobRecords
<1> QED BY <1>1, TypedInvariance, PTL

(* The pixels of a node belong to the key it says it has loaded: prompt    *)
(* and seed never come apart, whoever wrote the file and however calls     *)
(* interleaved in the session.                                             *)
THEOREM PixelsKeepToKey == Spec => []PixelsOfLoadedKey
<1>1. TypedInv => PixelsOfLoadedKey
  BY DEF TypedInv, OpInv, NodesInv, Good, BufferInv, MadeFor, PixelsOfLoadedKey
<1> QED BY <1>1, TypedInvariance, PTL

-----------------------------------------------------------------------------
(* WorkersKeepPhases.  A lambda belongs to a running worker of a node that *)
(* is there, and a handler that main is inside of is one of such a node.   *)

LifeInv ==
  /\ \A n \in Nodes : /\ job[n].pc # "none" <=> node[n].worker = "Running"
                      /\ job[n].pc # "none" => node[n].alive
  /\ mainPc.at # "ready" => mainPc.node \in Nodes /\ node[mainPc.node].alive

KeepsPhase(n) == [Worker(n)!Moves]_(Phase(n))

(* What a handler that goes on with its node does to alive and worker      *)
SameLife(old, new) == new.alive = old.alive /\ new.worker = old.worker

Handled(old, new) ==
  /\ new.alive = old.alive
  /\ \/ new.worker = old.worker
     \/ old.worker \in {"Done", "Error", "Cancelled"} /\ new.worker = "Idle"

LEMMA TextLife ==
  ASSUME NEW nd, Good(nd), NEW text
  PROVE  SameLife(nd, SetStatus(nd, text))
  BY TextGood DEF SameLife

LEMMA BufferLife ==
  ASSUME NEW nd, Good(nd), NEW k
  PROVE  SameLife(nd, Dropped(nd)) /\ SameLife(nd, TryLoad(nd, k))
<1> DEFINE px == files[k]
           new == [nd EXCEPT !.loaded = k, !.pixels = px]
<1>1. TryLoad(nd, k) \in {nd, new}
  BY DEF TryLoad
<1> HIDE DEF px
<1>2. SameLife(nd, new) /\ SameLife(nd, nd)
  BY DEF SameLife, Good, NodeRecords
<1>3. SameLife(nd, Dropped(nd))
  BY DEF SameLife, Dropped, Good, NodeRecords
<1> QED BY <1>1, <1>2, <1>3

LEMMA BakeLife ==
  ASSUME NEW nd, Good(nd), NEW s, NEW moved \in BOOLEAN
  PROVE  SameLife(nd, Resolved(nd, s)) /\ SameLife(nd, Cooking(nd, moved))
<1> DEFINE told == SetCooking(nd, moved)
           k == KeyOf(nd)
           new == [told EXCEPT !.baking = k]
           d == nd.dirty \/ s # nd.shown
           resolved == [nd EXCEPT !.lastSeed = s, !.shown = s, !.dirty = d]
<1>1. Good(told) /\ SameLife(nd, told) /\ Cooking(nd, moved) = new
  BY CookingGood DEF Cooking, SameLife
<1>2. Resolved(nd, s) = resolved
  BY DEF Resolved
<1> HIDE DEF told, k, d
<1>3. SameLife(told, new)
  BY <1>1 DEF SameLife, Good, NodeRecords
<1> HIDE DEF new
<1>4. SameLife(nd, Resolved(nd, s))
  BY <1>2 DEF SameLife, Good, NodeRecords
<1> QED BY <1>1, <1>3, <1>4 DEF SameLife

LEMMA PollLife ==
  ASSUME NEW nd, Good(nd), NEW moved \in BOOLEAN
  PROVE  Handled(nd, Poll(nd, moved))
<1>1. ASSUME NEW old, Good(old), SameLife(nd, old), NEW text,
             nd.worker \in {"Done", "Error", "Cancelled"}
      PROVE  Handled(nd, Reported(old, text))
  <2> DEFINE told == SetStatus(old, text)
             new == [told EXCEPT !.worker = "Idle", !.baking = None]
  <2>1. Good(told) /\ SameLife(old, told) /\ Reported(old, text) = new
    BY <1>1, TextGood, TextLife DEF Reported
  <2> HIDE DEF told
  <2>2. new.worker = "Idle" /\ new.alive = told.alive
    BY <2>1 DEF Good, NodeRecords
  <2> HIDE DEF new
  <2> QED BY <1>1, <2>1, <2>2 DEF SameLife, Handled
<1>2. CASE nd.worker = "Idle"
  BY <1>2 DEF Poll, Handled
<1>3. CASE nd.worker = "Running"
  BY <1>3, CookingGood DEF Poll, Handled
<1>4. CASE nd.worker = "Done"
  <2> DEFINE kept == IF nd.baking # None /\ nd.loaded # nd.baking THEN Dropped(nd) ELSE nd
  <2>1. Good(kept) /\ SameLife(nd, kept)
    BY DroppedGood, BufferLife DEF SameLife
  <2>2. Poll(nd, moved) = Reported(kept, "Ready")
    BY <1>4 DEF Poll
  <2> HIDE DEF kept
  <2> QED BY <1>1, <1>4, <2>1, <2>2
<1>5. CASE nd.worker \in {"Error", "Cancelled"}
  BY <1>1, <1>5 DEF Poll, SameLife
<1> QED BY <1>2, <1>3, <1>4, <1>5 DEF Good, NodeRecords

LEMMA ValidatedLife ==
  ASSUME NEW nd, Good(nd), NEW moved \in BOOLEAN
  PROVE  Handled(nd, Validated(nd, moved))
<1> DEFINE seen == [nd EXCEPT !.dirty = BumpsRevision]
           polled == Poll(seen, moved)
           k == KeyOf(nd)
<1>1. Good(seen) /\ SameLife(nd, seen)
  BY DirtyGood, GenerateAssumption DEF SameLife
<1>2. Validated(nd, moved) = TryLoad(polled, k)
  BY DEF Validated
<1> HIDE DEF seen, k
<1>3. Good(polled) /\ Handled(seen, polled)
  BY <1>1, PollGood, PollLife
<1> HIDE DEF polled
<1>4. SameLife(polled, Validated(nd, moved))
  BY <1>2, <1>3, BufferLife
<1> QED BY <1>1, <1>3, <1>4 DEF Handled, SameLife

(* A result is taken, or nothing happens. *)
LEMMA HandledPhase ==
  ASSUME NEW n \in Nodes, Handled(node[n], node'[n])
  PROVE  KeepsPhase(n)
<1>1. CASE node'[n].worker = node[n].worker \/ ~ node[n].alive
  BY <1>1 DEF KeepsPhase, Phase, Alive, Handled
<1>2. CASE /\ node[n].alive
           /\ node[n].worker \in {"Done", "Error", "Cancelled"} /\ node'[n].worker = "Idle"
  BY <1>2 DEF KeepsPhase, Phase, Alive, Handled, Worker!Moves, Worker!Resets, Worker!Ended
<1> QED BY <1>1, <1>2 DEF Handled

LEMMA OthersKept ==
  ASSUME OpInv, NEW n \in Nodes, NEW nd, SetNode(n, nd)
  PROVE  node'[n] = nd /\ \A o \in Nodes \ {n} : node'[o] = node[o]
  BY DEF OpInv, NodesInv, SetNode

(* Nobody's worker moves, or one result is taken. *)
LEMMA OnMainLife ==
  ASSUME OpInv, LifeInv, NEW n \in Nodes, NEW nd, SetNode(n, nd), Handled(node[n], nd),
         \A o \in Nodes : job'[o].pc # "none" <=> job[o].pc # "none",
         \/ UNCHANGED mainPc
         \/ mainPc' = InMain("ready", None)
         \/ node[n].alive /\ \E at \in {"cached", "launch", "delete"} : mainPc' = InMain(at, n)
  PROVE  LifeInv' /\ \A o \in Nodes : KeepsPhase(o)
<1>1. node'[n] = nd /\ \A o \in Nodes \ {n} : node'[o] = node[o]
  BY OthersKept
<1>2. \A o \in Nodes : Handled(node[o], node'[o])
  BY <1>1 DEF Handled
<1>3. ASSUME NEW o \in Nodes
      PROVE  /\ job'[o].pc # "none" <=> node'[o].worker = "Running"
             /\ job'[o].pc # "none" => node'[o].alive
  BY <1>2 DEF LifeInv, Handled
<1>4. mainPc'.at # "ready" => mainPc'.node \in Nodes /\ node'[mainPc'.node].alive
  <2>1. CASE UNCHANGED mainPc
    BY <1>2, <2>1 DEF LifeInv, Handled
  <2>2. CASE mainPc' = InMain("ready", None)
    BY <2>2 DEF InMain
  <2>3. CASE node[n].alive /\ \E at \in {"cached", "launch", "delete"} : mainPc' = InMain(at, n)
    BY <1>2, <2>3 DEF InMain, Handled
  <2> QED BY <2>1, <2>2, <2>3
<1> QED BY <1>2, <1>3, <1>4, HandledPhase DEF LifeInv

(* The handlers that leave the lambdas alone *)
LEMMA MainLife ==
  ASSUME OpInv, LifeInv, NEW n \in Nodes,
         \/ Edit(n) \/ ViewerValidates(n) \/ TimerPoll(n)
         \/ ClearCache(n) \/ ClearThrows(n) \/ ClearNoDirectory(n)
         \/ BakeRunning(n) \/ BakeRefused(n) \/ BakeLookup(n) \/ BakeCached(n)
         \/ BakeStartRefused(n) \/ DeleteNode(n)
  PROVE  LifeInv' /\ \A o \in Nodes : KeepsPhase(o)
<1>1. Good(node[n]) /\ node[n] \in NodeRecords
  BY Facts
<1>2. \E nd : SetNode(n, nd) /\ Handled(node[n], nd)
  <2>1. CASE Edit(n)
    <3>1. PICK nd :
            /\ SetNode(n, [nd EXCEPT !.dirty = TRUE])
            /\ \/ \E p \in Prompts : nd = [node[n] EXCEPT !.prompt = p]
               \/ \E s \in Seeds \cup {Random} : nd = [node[n] EXCEPT !.seed = s]
               \/ \E p \in Paths : nd = [node[n] EXCEPT !.paths = p]
               \/ \E l \in OptLoras : nd = [node[n] EXCEPT !.lora = l]
      BY <2>1 DEF Edit, Edited
    <3>2. nd \in NodeRecords /\ SameLife(node[n], nd)
      BY <1>1, <3>1 DEF SameLife, NodeRecords
    <3> QED BY <3>1, <3>2 DEF SameLife, Handled, NodeRecords
  <2>2. CASE ViewerValidates(n) \/ TimerPoll(n)
    BY <1>1, <2>2, ValidatedLife DEF ViewerValidates, TimerPoll
  <2>3. CASE ClearCache(n)
    <3>1. SameLife(node[n], SetStatus(Dropped(node[n]), "Cleared"))
      BY <1>1, DroppedGood, BufferLife, TextLife DEF SameLife
    <3> QED BY <2>3, <3>1 DEF ClearCache, SameLife, Handled
  <2>4. CASE ClearNoDirectory(n) \/ BakeRunning(n) \/ BakeRefused(n)
    BY <1>1, <2>4, TextLife DEF ClearNoDirectory, BakeRunning, BakeRefused, SameLife, Handled
  <2>5. CASE BakeLookup(n)
    <3>1. \E s \in SeedChoices(node[n]) : SetNode(n, Resolved(node[n], s))
      BY <2>5 DEF BakeLookup
    <3>2. \A s : SameLife(node[n], Resolved(node[n], s))
      BY <1>1, BakeLife
    <3> QED BY <3>1, <3>2 DEF SameLife, Handled
  <2>6. CASE BakeCached(n)
    <3> DEFINE told == SetStatus(node[n], "Already cached")
               k == KeyOf(node[n])
    <3>1. Good(told) /\ SameLife(node[n], told) /\ SetNode(n, TryLoad(told, k))
      BY <1>1, <2>6, TextGood, TextLife DEF BakeCached
    <3> HIDE DEF told, k
    <3>2. SameLife(told, TryLoad(told, k))
      BY <3>1, BufferLife
    <3> QED BY <3>1, <3>2 DEF SameLife, Handled
  <2>7. CASE BakeStartRefused(n)
    BY <1>1, <2>7, BakeLife DEF BakeStartRefused, SameLife, Handled
  <2>8. CASE DeleteNode(n) \/ ClearThrows(n)
    BY <2>8, Facts DEF DeleteNode, ClearThrows, SetNode, NodesInv, Handled
  <2> QED BY <2>1, <2>2, <2>3, <2>4, <2>5, <2>6, <2>7, <2>8
<1>3. PICK nd : SetNode(n, nd) /\ Handled(node[n], nd)
  BY <1>2
<1>4. /\ UNCHANGED job
      /\ \/ UNCHANGED mainPc
         \/ mainPc' = InMain("ready", None)
         \/ node[n].alive /\ \E at \in {"cached", "launch", "delete"} : mainPc' = InMain(at, n)
  BY DEF Edit, ViewerValidates, TimerPoll, ClearCache, ClearThrows, ClearNoDirectory, BakeRunning,
     BakeRefused, BakeLookup, BakeCached, BakeStartRefused, DeleteNode, Alive
<1> QED BY <1>3, <1>4, OnMainLife

(* The worker was idle when start() was called. *)
LEMMA LaunchLife ==
  ASSUME OpInv, LifeInv, NEW n \in Nodes, BakeLaunch(n)
  PROVE  LifeInv' /\ \A o \in Nodes : KeepsPhase(o)
<1>0. PICK moved \in BOOLEAN : SetNode(n, [Cooking(node[n], moved) EXCEPT !.worker = "Running"])
  BY DEF BakeLaunch
<1> DEFINE cooking == Cooking(node[n], moved)
           new == [cooking EXCEPT !.worker = "Running"]
<1>1. /\ SetNode(n, new) /\ node[n].worker = "Idle" /\ node[n].alive
      /\ mainPc' = InMain("ready", None)
  BY <1>0 DEF BakeLaunch, LifeInv, InMain
<1>2. new.worker = "Running" /\ new.alive
  <2>1. Good(cooking) /\ SameLife(node[n], cooking)
    BY Facts, BakingGood, BakeLife
  <2> HIDE DEF cooking
  <2> QED BY <1>1, <2>1 DEF Good, NodeRecords, SameLife
<1> HIDE DEF new
<1>3. node'[n] = new /\ \A o \in Nodes \ {n} : node'[o] = node[o]
  BY <1>1, OthersKept
<1>4. job'[n].pc = "session" /\ \A o \in Nodes \ {n} : job'[o] = job[o]
  <2>1. \A o \in Nodes \ {n} : job'[o] = job[o]
    BY Facts DEF BakeLaunch, JobsInv
  <2> QED BY <2>1, BakeLaunchOp
<1>5. KeepsPhase(n)
  BY <1>1, <1>2, <1>3 DEF KeepsPhase, Phase, Alive, Worker!Moves, Worker!Starts
<1>6. \A o \in Nodes \ {n} : KeepsPhase(o)
  BY <1>3, HandledPhase DEF Handled
<1>7. LifeInv'
  BY <1>1, <1>2, <1>3, <1>4 DEF LifeInv, InMain
<1> QED BY <1>5, <1>6, <1>7

(* run() publishes how the lambda ended, once. *)
LEMMA EndLife ==
  ASSUME OpInv, LifeInv, NEW n \in Nodes, job[n].pc # "none",
         NEW outcome \in {"Done", "Error", "Cancelled"}, EndJob(n, outcome), UNCHANGED mainPc
  PROVE  LifeInv' /\ \A o \in Nodes : KeepsPhase(o)
<1> DEFINE new == [node[n] EXCEPT !.worker = outcome]
<1>1. SetNode(n, new) /\ SetJob(n, NoJob)
  BY DEF EndJob
<1>2. new.worker = outcome /\ new.alive = node[n].alive
  BY Facts DEF NodeRecords
<1> HIDE DEF new
<1>3. node'[n] = new /\ \A o \in Nodes \ {n} : node'[o] = node[o]
  BY <1>1, OthersKept
<1>4. job'[n].pc = "none" /\ \A o \in Nodes \ {n} : job'[o] = job[o]
  BY <1>1, Facts, NoJobGood DEF SetJob, JobsInv
<1>5. node[n].worker = "Running" /\ node[n].alive
  BY DEF LifeInv
<1>6. KeepsPhase(n)
  BY <1>2, <1>3, <1>5 DEF KeepsPhase, Phase, Alive, Worker!Moves, Worker!Ends, Worker!Ended
<1>7. \A o \in Nodes \ {n} : KeepsPhase(o)
  BY <1>3, HandledPhase DEF Handled
<1>8. ASSUME NEW o \in Nodes
      PROVE  /\ job'[o].pc # "none" <=> node'[o].worker = "Running"
             /\ job'[o].pc # "none" => node'[o].alive
             /\ node'[o].alive = node[o].alive
  BY <1>2, <1>3, <1>4 DEF LifeInv
<1>9. LifeInv'
  BY <1>8 DEF LifeInv
<1> QED BY <1>6, <1>7, <1>9

(* The lambda goes on, or ends. *)
LEMMA JobLife ==
  ASSUME OpInv, LifeInv, NEW n \in Nodes, JobStep(n)
  PROVE  LifeInv' /\ \A o \in Nodes : KeepsPhase(o)
<1>1. CASE JobSessionFailed(n) \/ JobWriteFails(n) \/ JobReturn(n)
  BY <1>1, EndLife DEF JobSessionFailed, JobWriteFails, JobReturn
<1>2. ASSUME UNCHANGED <<node, mainPc>>,
             \A o \in Nodes : job'[o].pc # "none" <=> job[o].pc # "none"
      PROVE  LifeInv' /\ \A o \in Nodes : KeepsPhase(o)
  BY <1>2, HandledPhase DEF LifeInv, Handled
<1>3. CASE JobInSession(n)
  BY <1>2, <1>3 DEF JobInSession, opVars
<1>4. CASE JobGenerated(n)
  <2> DEFINE made == call[n].result.made
             shared == Rivals(n) # {}
             new == [job[n] EXCEPT !.pc = "write", !.made = made, !.shared = shared]
  <2>1. ASSUME NEW o \in Nodes
        PROVE  job'[o] \in IF o = n THEN {new} ELSE {job[o], [job[o] EXCEPT !.shared = TRUE]}
    BY <1>4 DEF JobGenerated
  <2>2. new.pc = "write" /\ job[n].pc # "none"
    <3> HIDE DEF made, shared
    <3> QED BY <1>4, Facts DEF JobGenerated, JobRecords
  <2> HIDE DEF new
  <2>3. ASSUME NEW o \in Nodes PROVE job'[o].pc # "none" <=> job[o].pc # "none"
    <3>1. [job[o] EXCEPT !.shared = TRUE].pc = job[o].pc
      BY Facts DEF JobRecords
    <3> QED BY <2>1, <2>2, <3>1
  <2> QED BY <1>2, <1>4, <2>3 DEF JobGenerated
<1>5. CASE JobRemoveOld(n) \/ JobRename(n)
  <2>1. PICK pc \in {"rename", "return"} : SetJob(n, [job[n] EXCEPT !.pc = pc])
    BY <1>5 DEF JobRemoveOld, JobRename
  <2>2. job'[n] = [job[n] EXCEPT !.pc = pc] /\ \A o \in Nodes \ {n} : job'[o] = job[o]
    BY <2>1, Facts DEF SetJob, JobsInv
  <2>3. job'[n].pc = pc /\ job[n].pc # "none"
    BY <1>5, <2>2, Facts DEF JobRecords, JobRemoveOld, JobRename
  <2> QED BY <1>2, <1>5, <2>2, <2>3 DEF JobRemoveOld, JobRename
<1> QED BY <1>1, <1>3, <1>4, <1>5 DEF JobStep

(* The destructor's join is over: the worker is not running. *)
LEMMA DeleteLife ==
  ASSUME OpInv, LifeInv, NEW n \in Nodes, DeleteJoined(n)
  PROVE  LifeInv' /\ \A o \in Nodes : KeepsPhase(o)
<1> DEFINE fresh == Fresh(node[n])
           new == [fresh EXCEPT !.alive = FALSE]
<1>1. /\ SetNode(n, new) /\ job' = job /\ job[n] = NoJob
      /\ mainPc = InMain("delete", n) /\ mainPc' = InMain("ready", None)
  BY DEF DeleteJoined
<1>2. ~ new.alive /\ new.worker = "Idle"
  <2>1. Good(fresh) /\ fresh.worker = "Idle"
    BY Facts, FreshGood DEF Fresh, NodeRecords
  <2> HIDE DEF fresh
  <2> QED BY <2>1 DEF Good, NodeRecords
<1> HIDE DEF new
<1>3. node'[n] = new /\ \A o \in Nodes \ {n} : node'[o] = node[o]
  BY <1>1, OthersKept
<1>4. job[n].pc = "none" /\ node[n].alive /\ node[n].worker # "Running"
  BY <1>1, NoJobGood DEF LifeInv, InMain
<1>5. KeepsPhase(n)
  <2>1. Phase(n) \in {"Idle", "Done", "Error", "Cancelled"} /\ Phase(n)' = "Destroyed"
    BY <1>2, <1>3, <1>4, Facts DEF NodeRecords, Phase, Alive
  <2> QED BY <2>1 DEF KeepsPhase, Worker!Moves, Worker!Dies, Worker!Ended
<1>6. \A o \in Nodes \ {n} : KeepsPhase(o)
  BY <1>3, HandledPhase DEF Handled
<1>7. LifeInv'
  BY <1>1, <1>2, <1>3, <1>4 DEF LifeInv, InMain
<1> QED BY <1>5, <1>6, <1>7

LEMMA RestartLife == ASSUME OpInv, Restart PROVE LifeInv'
<1>1. ASSUME NEW n \in Nodes PROVE [Fresh(node[n]) EXCEPT !.dirty = TRUE].worker = "Idle"
  <2>1. Good(Fresh(node[n])) /\ Fresh(node[n]).worker = "Idle"
    BY Facts, FreshGood DEF Fresh, NodeRecords
  <2> QED BY <2>1, DirtyGood
<1> QED BY <1>1, NoJobGood DEF Restart, LifeInv, InMain

LEMMA LifeStep ==
  ASSUME OpInv, LifeInv, [Next]_vars
  PROVE  LifeInv' /\ (Restart \/ \A o \in Nodes : KeepsPhase(o))
<1>1. ASSUME NEW n \in Nodes, UserStep(n) \/ HandlerStep(n) \/ TimerPoll(n) \/ JobStep(n)
      PROVE  LifeInv' /\ \A o \in Nodes : KeepsPhase(o)
  BY <1>1, MainLife, LaunchLife, JobLife, DeleteLife DEF UserStep, HandlerStep
<1>2. CASE LoraFilesChange \/ UNCHANGED vars
  BY <1>2, HandledPhase DEF LoraFilesChange, vars, opVars, LifeInv, Handled
<1> QED BY <1>1, <1>2, RestartLife DEF Next

LEMMA LifeInit == Init => LifeInv /\ \A n \in Nodes : Worker(n)!Unused
<1> SUFFICES ASSUME Init PROVE LifeInv /\ \A n \in Nodes : Worker(n)!Unused
  OBVIOUS
<1>1. \A n \in Nodes : node[n].alive /\ node[n].worker = "Idle"
  BY DEF Init
<1>2. LifeInv
  BY <1>1, NoJobGood DEF Init, LifeInv, InMain
<1> QED BY <1>1, <1>2 DEF Worker!Unused, Phase, Alive

LEMMA LifeInvariance == Spec => [](TypedInv /\ LifeInv)
<1>1. TypedInv /\ LifeInv /\ [Next]_vars => LifeInv'
  BY LifeStep DEF TypedInv
<1> QED BY <1>1, LifeInit, TypedInvariance, PTL DEF Spec

(* Every node uses its worker as AiWorker allows, however the lambdas of   *)
(* several nodes meet in the session: a launch whose start() is refused    *)
(* starts nothing, no result is lost by a second bake, and a deleted       *)
(* node's job has ended.                                                   *)
THEOREM WorkersAreUsedRight == Spec => WorkersKeepPhases
<1>1. TypedInv /\ LifeInv /\ [Next]_vars =>
        [Restart \/ \A n \in Nodes : [Worker(n)!Moves]_(Phase(n))]_vars
  BY LifeStep DEF TypedInv, KeepsPhase
<1> QED BY <1>1, LifeInit, LifeInvariance, PTL DEF Spec, WorkersKeepPhases

-----------------------------------------------------------------------------
(* One node: the contract of the session is kept, and a file says what     *)
(* model files made it.                                                    *)

LEMMA OneAlone == ASSUME OneNode, NEW n \in Nodes PROVE OthersIdle(n) /\ n \in Callers
  BY DEF OneNode, OthersIdle, Nodes

(* The call of a job that is inside the session                            *)
LEMMA OneNodeStep ==
  ASSUME OneNode, TypedInv, OneNodeInv, NEW n \in Nodes, JobInSession(n)
  PROVE  OneNodeInv'
<1>1. SessionStep(n) /\ UNCHANGED <<job, files>> /\ job[n].pc = "session"
  BY DEF JobInSession, opVars
<1>2. SessionInv'
  BY <1>1, OneAlone, SessionStepInv DEF OneNodeInv
<1>3. call'[n].paths = call[n].paths /\ call'[n].pc # "idle"
  BY <1>1, StepKeepsPaths DEF TypedInv, Nodes
<1>4. ModelInv(job'[n], call'[n])
  BY <1>1, <1>3 DEF OneNodeInv, ModelInv
<1>5. \A m \in Nodes : ModelInv(job'[m], call'[m])
  BY <1>4 DEF OneNode
<1> QED BY <1>1, <1>2, <1>5 DEF OneNodeInv, FilesOfOwnModel

LEMMA OneNodeFrame ==
  ASSUME OneNode, NEW n \in Nodes, SessionInv', ModelInv(job'[n], call'[n]), FilesOfOwnModel'
  PROVE  OneNodeInv'
<1>1. \A m \in Nodes : ModelInv(job'[m], call'[m])
  BY DEF OneNode
<1> QED BY <1>1 DEF OneNodeInv

LEMMA SessionKept == ASSUME SessionInv, UNCHANGED sessionVars PROVE SessionInv'
  BY SessionNextInv

LEMMA OwnModelCleared ==
  ASSUME FilesOfOwnModel, \A k \in Keys : files'[k] \in {files[k], Absent}
  PROVE  FilesOfOwnModel'
  BY Distinct DEF FilesOfOwnModel

(* Main, on its own *)
LEMMA OneNodeMain ==
  ASSUME OneNode, TypedInv, OneNodeInv, NEW n \in Nodes,
         \/ Edit(n) \/ ViewerValidates(n) \/ TimerPoll(n)
         \/ ClearCache(n) \/ ClearThrows(n) \/ ClearNoDirectory(n)
         \/ BakeRunning(n) \/ BakeRefused(n) \/ BakeLookup(n) \/ BakeCached(n)
         \/ BakeStartRefused(n) \/ DeleteJoined(n)
  PROVE  OneNodeInv'
<1>1. UNCHANGED sessionVars
  BY SessionUntouched
<1>2. job' = job /\ call' = call
  BY <1>1 DEF sessionVars, Edit, ViewerValidates, TimerPoll, ClearCache, ClearNoDirectory, BakeRunning,
     BakeRefused, BakeLookup, BakeCached, BakeStartRefused, DeleteJoined, ClearThrows
<1>3. \A k \in Keys : files'[k] \in {files[k], Absent}
  <2>1. CASE ClearCache(n) \/ ClearThrows(n)
    BY <2>1 DEF ClearCache, ClearThrows
  <2>2. CASE UNCHANGED files
    BY <2>2
  <2> QED BY <2>1, <2>2 DEF Edit, ViewerValidates, TimerPoll, ClearNoDirectory, BakeRunning,
          BakeRefused, BakeLookup, BakeCached, BakeStartRefused, DeleteJoined
<1>4. SessionInv' /\ ModelInv(job'[n], call'[n]) /\ FilesOfOwnModel'
  BY <1>1, <1>2, <1>3, SessionKept, OwnModelCleared DEF OneNodeInv
<1> QED BY <1>4, OneNodeFrame

LEMMA OneNodeLaunch ==
  ASSUME OneNode, TypedInv, LifeInv, OneNodeInv, NEW n \in Nodes, BakeLaunch(n)
  PROVE  OneNodeInv'
<1>0. ~ In(n, "freeing")
  BY DEF LifeInv, OneNodeInv, ModelInv, BakeLaunch, In
<1>1. node[n] \in NodeRecords /\ node[n].paths \in Paths /\ KeyOf(node[n]).paths = node[n].paths
  BY Facts, KeyType DEF TypedInv, NodeRecords
<1>2. job'[n].pc = "session" /\ job'[n].key = KeyOf(node[n])
  BY BakeLaunchOp DEF TypedInv
<1>3. SetCall(n, Entered(node[n].paths)) /\ UNCHANGED <<session, cb, files>>
  BY DEF BakeLaunch
<1>4. SessionInv'
  BY <1>0, <1>1, <1>3, OneAlone, EnterInv DEF OneNodeInv
<1>5. /\ call'[n] = Entered(node[n].paths)
      /\ Entered(node[n].paths).pc = "ensure" /\ Entered(node[n].paths).paths = node[n].paths
  BY <1>1, <1>3, Typed, EnteredType DEF TypedInv, SetCall, Nodes
<1>6. ModelInv(job'[n], call'[n])
  BY <1>1, <1>2, <1>5 DEF ModelInv
<1> QED BY <1>3, <1>4, <1>6, OneNodeFrame DEF OneNodeInv, FilesOfOwnModel

(* The call leaves the session together with the lambda, or before it      *)
(* writes its file.                                                        *)
LEMMA CallLeaves ==
  ASSUME OneNode, TypedInv, OneNodeInv, NEW n \in Nodes, ~ In(n, "freeing"),
         NEW new \in CallRecords, new.pc = "idle", new.result = Pending,
         SetCall(n, new), UNCHANGED <<session, cb>>
  PROVE  SessionInv' /\ call'[n].pc = "idle" /\ call'[n].result = Pending
<1>1. SessionInv'
  BY OneAlone, LeaveInv DEF OneNodeInv
<1>2. call'[n] = new
  BY Typed DEF TypedInv, SetCall, Nodes
<1> QED BY <1>1, <1>2

LEMMA NoCallIdle ==
  /\ NoCall \in CallRecords /\ NoCall.pc = "idle" /\ NoCall.result = Pending
  /\ \A b \in BOOLEAN : /\ [NoCall EXCEPT !.cancel = b] \in CallRecords
                         /\ [NoCall EXCEPT !.cancel = b].pc = "idle"
                         /\ [NoCall EXCEPT !.cancel = b].result = Pending
<1>1. NoCall \in CallRecords /\ NoCall.pc = "idle" /\ NoCall.result = Pending
  BY NoCallType DEF NoCall
<1> QED BY <1>1, CancelTyped

LEMMA OneNodeEnds ==
  ASSUME OneNode, TypedInv, OneNodeInv, NEW n \in Nodes,
         JobSessionFailed(n) \/ JobReturn(n) \/ JobWriteFails(n)
  PROVE  OneNodeInv'
<1>1. JobsInv /\ UNCHANGED files /\ SetJob(n, NoJob)
  BY DEF TypedInv, OpInv, JobSessionFailed, JobReturn, JobWriteFails, EndJob
<1>2. job'[n].pc = "none"
  BY <1>1, NoJobGood, JobSet
<1>3. SessionInv' /\ call'[n].pc = "idle" /\ call'[n].result = Pending
  <2>1. CASE JobSessionFailed(n) \/ JobReturn(n)
    <3>1. ~ In(n, "freeing")
      BY <2>1 DEF JobSessionFailed, JobReturn, OneNodeInv, ModelInv, In
    <3> QED BY <2>1, <3>1, NoCallIdle, CallLeaves DEF JobSessionFailed, JobReturn
  <2>2. CASE JobWriteFails(n)
    <3>1. UNCHANGED sessionVars /\ job[n].pc # "session"
      BY <2>2 DEF JobWriteFails
    <3> QED BY <3>1, SessionKept DEF OneNodeInv, ModelInv, sessionVars
  <2> QED BY <2>1, <2>2
<1> QED BY <1>1, <1>2, <1>3, OneNodeFrame DEF OneNodeInv, ModelInv, FilesOfOwnModel

LEMMA OneNodeGenerated ==
  ASSUME OneNode, TypedInv, OneNodeInv, NEW n \in Nodes, JobGenerated(n)
  PROVE  OneNodeInv'
<1>1. /\ call[n] \in CallRecords /\ call[n].cancel \in BOOLEAN /\ CallInv(n)
      /\ ModelInv(job[n], call[n]) /\ GoodJob(job[n])
  BY Facts, Inside DEF TypedInv, OneNodeInv, Nodes, CallRecords
<1>2. call[n].result.made = job[n].key.paths /\ call[n].result.made \in OptPaths
  BY <1>1 DEF JobGenerated, ModelInv, CallInv, ResultInv, In, CallRecords, Results
<1>3. /\ SetCall(n, [NoCall EXCEPT !.cancel = call[n].cancel])
      /\ UNCHANGED <<session, cb, files>>
  BY DEF JobGenerated
<1>4. SessionInv' /\ call'[n].pc = "idle" /\ call'[n].result = Pending
  BY <1>1, <1>3, NoCallIdle, CallLeaves DEF JobGenerated, In
<1> DEFINE made == call[n].result.made
           shared == Rivals(n) # {}
<1>5. /\ job'[n] = [job[n] EXCEPT !.pc = "write", !.made = made, !.shared = shared]
      /\ shared \in BOOLEAN /\ job[n].pc # "none"
  BY DEF JobGenerated
<1> HIDE DEF made, shared
<1>6. job'[n].pc = "write" /\ job'[n].key = job[n].key /\ job'[n].made = made
  <2>1. made \in OptPaths
    BY <1>2 DEF made
  <2>2. job[n] \in JobRecords
    BY <1>1 DEF GoodJob
  <2> QED BY <1>5, <2>1, <2>2 DEF JobRecords
<1>7. ModelInv(job'[n], call'[n])
  BY <1>2, <1>4, <1>6 DEF ModelInv, made
<1> QED BY <1>3, <1>4, <1>7, OneNodeFrame DEF OneNodeInv, FilesOfOwnModel

LEMMA OneNodeFiles ==
  ASSUME OneNode, TypedInv, OneNodeInv, NEW n \in Nodes, JobRemoveOld(n) \/ JobRename(n)
  PROVE  OneNodeInv'
<1>1. GoodJob(job[n]) /\ JobsInv /\ FilesInv /\ ModelInv(job[n], call[n])
  BY Facts DEF TypedInv, OneNodeInv
<1>2. UNCHANGED sessionVars /\ job[n].pc \in {"write", "rename"}
  BY SessionUntouched DEF JobRemoveOld, JobRename
<1>3. job[n].key \in Keys /\ job[n].made = job[n].key.paths
  BY <1>1, <1>2 DEF GoodJob, JobInv, ModelInv
<1>4. PICK pc \in {"rename", "return"} : SetJob(n, [job[n] EXCEPT !.pc = pc])
  BY DEF JobRemoveOld, JobRename
<1>5. job'[n].pc = pc /\ job'[n].key = job[n].key /\ job'[n].made = job[n].made
  <2> DEFINE new == [job[n] EXCEPT !.pc = pc]
  <2>1. job[n].pc # "none" /\ job[n] \in JobRecords
    BY <1>1, <1>2 DEF GoodJob
  <2>2. GoodJob(new)
    BY <1>1, <2>1, PcSet
  <2>3. new.pc = pc /\ new.key = job[n].key /\ new.made = job[n].made
    BY <2>1 DEF JobRecords
  <2>4. SetJob(n, new)
    BY <1>4
  <2> HIDE DEF new
  <2>5. job'[n] = new
    BY <1>1, <2>2, <2>4, JobSet
  <2> QED BY <2>3, <2>5
<1>6. ModelInv(job'[n], call'[n])
  BY <1>1, <1>2, <1>3, <1>5 DEF ModelInv, sessionVars
<1>7. FilesOfOwnModel'
  <2>1. \E content : /\ content \in {Absent, Unreadable, Torn, Baked(job[n])}
                     /\ files' = [files EXCEPT ![job[n].key] = content]
    BY FileContent DEF OneNode
  <2>2. Baked(job[n]).paths = job[n].key.paths
    BY <1>3 DEF Baked
  <2> QED BY <1>1, <1>3, <2>1, <2>2, Distinct DEF FilesInv, OneNodeInv, FilesOfOwnModel
<1> QED BY <1>2, <1>6, <1>7, SessionKept, OneNodeFrame DEF OneNodeInv

LEMMA OneNodeDelete ==
  ASSUME OneNode, TypedInv, OneNodeInv, NEW n \in Nodes, DeleteNode(n)
  PROVE  OneNodeInv'
<1>1. /\ call[n] \in CallRecords /\ call[n].cancel \in BOOLEAN
      /\ ModelInv(job[n], call[n]) /\ SessionTypeOK /\ n \in Callers
  BY Typed DEF TypedInv, OneNodeInv, Nodes, CallRecords
<1> DEFINE stop == job[n] # NoJob
           new == [call[n] EXCEPT !.cancel = stop]
<1>2. stop \in BOOLEAN /\ SetCall(n, new) /\ UNCHANGED <<job, files, session, cb>>
  BY DEF DeleteNode
<1>3. call[n].pc # "idle" => stop
  BY <1>1, NoJobGood DEF ModelInv
<1> HIDE DEF stop
<1>4. new \in CallRecords /\ new.pc = call[n].pc /\ new.paths = call[n].paths /\ new.result = call[n].result
  BY <1>1, <1>2, CancelTyped
<1>5. call'[n] = new
  BY <1>1, <1>2, Typed DEF SetCall
<1>6. SessionInv'
  <2>1. CASE call[n].pc = "idle"
    <3>1. new.result = Pending
      BY <1>1, <1>4, <2>1, SessionAssumption DEF OneNodeInv, SessionInv, CallInv, ResultInv, In
    <3> HIDE DEF new
    <3> QED BY <1>2, <1>4, <2>1, <3>1, CallLeaves DEF In
  <2>2. CASE call[n].pc # "idle"
    <3>1. stop = TRUE
      BY <1>2, <1>3, <2>2
    <3>2. WantCancel(n)
      BY <1>2, <2>2, <3>1 DEF WantCancel, In
    <3> QED BY <1>1, <3>2, WantCancelInv DEF OneNodeInv
  <2> QED BY <2>1, <2>2
<1> HIDE DEF new
<1>7. ModelInv(job'[n], call'[n])
  BY <1>1, <1>2, <1>4, <1>5 DEF ModelInv
<1> QED BY <1>2, <1>6, <1>7, OneNodeFrame DEF OneNodeInv, FilesOfOwnModel

LEMMA OneNodeRestart == ASSUME OneNodeInv, Restart PROVE OneNodeInv'
<1>1. SessionInit'
  BY DEF Restart, SessionInit, Nodes
<1>2. (SessionInit => SessionInv)'
  BY SessionInitInv, PTL
<1>3. \A n \in Nodes : ModelInv(job'[n], call'[n])
  BY NoCallIdle, NoJobGood DEF Restart, ModelInv
<1> QED BY <1>1, <1>2, <1>3 DEF OneNodeInv, FilesOfOwnModel, Restart

LEMMA OneNodeNext == OneNode /\ TypedInv /\ LifeInv /\ OneNodeInv /\ [Next]_vars => OneNodeInv'
<1> SUFFICES ASSUME OneNode, TypedInv, LifeInv, OneNodeInv, [Next]_vars PROVE OneNodeInv'
  OBVIOUS
<1>1. ASSUME NEW n \in Nodes, UserStep(n) \/ HandlerStep(n) \/ TimerPoll(n) PROVE OneNodeInv'
  BY <1>1, OneNodeMain, OneNodeLaunch, OneNodeDelete DEF UserStep, HandlerStep
<1>2. ASSUME NEW n \in Nodes, JobStep(n) PROVE OneNodeInv'
  BY <1>2, OneNodeStep, OneNodeEnds, OneNodeGenerated, OneNodeFiles DEF JobStep
<1>3. CASE LoraFilesChange \/ UNCHANGED vars
  <2>1. UNCHANGED sessionVars /\ UNCHANGED <<job, files>>
    BY <1>3 DEF LoraFilesChange, vars, opVars
  <2> QED BY <2>1, SessionKept DEF OneNodeInv, FilesOfOwnModel, sessionVars
<1> QED BY <1>1, <1>2, <1>3, OneNodeRestart DEF Next

(* With one node a file under a key was made by the model files of the     *)
(* key, through edits, failed loads, cancelled and killed bakes.           *)
THEOREM OneNodeFilesOwnModel == OneNode => (Spec => []FilesOfOwnModel)
<1> SUFFICES ASSUME OneNode PROVE Spec => []FilesOfOwnModel
  OBVIOUS
<1>1. Init => OneNodeInv
  <2> SUFFICES ASSUME Init PROVE OneNodeInv
    OBVIOUS
  <2>1. SessionInv
    BY SessionInitInv DEF Init
  <2>2. \A n \in Nodes : ModelInv(job[n], call[n])
    BY NoCallIdle, NoJobGood DEF Init, SessionInit, ModelInv, Nodes
  <2>3. FilesOfOwnModel
    BY Distinct DEF Init, FilesOfOwnModel
  <2> QED BY <2>1, <2>2, <2>3 DEF OneNodeInv
<1>2. TypedInv /\ LifeInv /\ OneNodeInv /\ [Next]_vars => OneNodeInv'
  BY OneNodeNext
<1>3. OneNodeInv => FilesOfOwnModel
  BY DEF OneNodeInv
<1> QED BY <1>1, <1>2, <1>3, LifeInvariance, PTL DEF Spec

-----------------------------------------------------------------------------
(* One set of model files: what a load is made of, and who frees what.     *)

OneModel == \A p, q \in Paths : p = q

SharedInv ==
  /\ session.loaded => session.ctx # NoPaths /\ session.paths \in Paths
  /\ session.dangling => \E c \in Callers : In(c, "freeing")
  /\ \A c \in Callers :
       /\ call[c].pc # "idle" => call[c].paths \in Paths
       /\ call[c].pc = "creating" => session.paths \in Paths
       /\ job[c].pc # "session" => call[c].pc = "idle"

(* The step of one call, seen by the other calls and by the session.       *)
LEMMA StepOthers ==
  ASSUME SessionTypeOK, NEW c \in Callers, SessionStep(c), NEW o \in Callers \ {c}
  PROVE  /\ call'[o].pc = call[o].pc /\ call'[o].paths = call[o].paths
         /\ call'[o].freed = call[o].freed \/ EnsureFree(c)
<1>1. call[o] \in CallRecords /\ call \in [Callers -> CallRecords]
  BY Typed
<1>2. ASSUME NEW new, SetCall(c, new) PROVE call'[o] = call[o]
  BY <1>1, <1>2 DEF SetCall
<1>3. \/ call'[o] \in {call[o], [call[o] EXCEPT !.held = FALSE], [call[o] EXCEPT !.alone = FALSE]}
      \/ EnsureFree(c) /\ call'[o] = [call[o] EXCEPT !.freed = TRUE]
  <2>1. CASE EnsureFree(c)
    BY <2>1 DEF EnsureFree, AfterFree
  <2>2. CASE EnsureNull(c) \/ Create(c)
    BY <2>2 DEF EnsureNull, Create, AfterOverwrite
  <2>3. CASE StartSampling(c)
    BY <2>3 DEF StartSampling, AfterStart
  <2>4. CASE ~ (EnsureFree(c) \/ EnsureNull(c) \/ Create(c) \/ StartSampling(c))
    BY <1>2, <2>4 DEF SessionStep, EnsureReuse, EnsureStale, NothingToFree, StorePaths, CreateFails,
       GenerateRefused, Install, Sample, Detach, DetachFailed, CheckResult, Return
  <2> QED BY <2>1, <2>2, <2>3, <2>4
<1> QED BY <1>1, <1>3 DEF CallRecords

LEMMA StepSession ==
  ASSUME SessionTypeOK, NEW c \in Callers, SessionStep(c)
  PROVE  \/ /\ EnsureFree(c) /\ session' = [session EXCEPT !.dangling = TRUE]
            /\ call'[c].pc = "freeing"
         \/ EnsureNull(c) /\ call'[c].pc = "store"
         \/ StorePaths(c) /\ call'[c].pc = "creating"
         \/ Create(c) /\ call'[c].pc = "loaded"
         \/ /\ session' = session /\ ~ In(c, "freeing")
            /\ EnsureStale(c) \/ call[c].pc \notin {"ensure", "loaded", "installed", "sampling", "detached"}
                 \/ call'[c].pc \in {"loaded", "installed", "sampling", "detached", "returned"}
            /\ call'[c].pc \notin {"creating", "freeing"}
<1>1. call[c] \in CallRecords /\ call \in [Callers -> CallRecords]
  BY Typed
<1>2. ASSUME NEW pc \in Pcs,
             \/ SetCall(c, [call[c] EXCEPT !.pc = pc])
             \/ call' = AfterOverwrite(c, pc)
             \/ pc = "freeing" /\ call' = AfterFree(c)
      PROVE  call'[c].pc = pc
  <2>1. call'[c] = [call[c] EXCEPT !.pc = pc]
    BY <1>1, <1>2 DEF SetCall, AfterOverwrite, AfterFree
  <2> QED BY <1>1, <2>1 DEF CallRecords
<1>3. ASSUME NEW result, Return(c, result) PROVE call'[c].pc = "returned"
  <2>1. call'[c] = [call[c] EXCEPT !.pc = "returned", !.result = result]
    BY <1>1, <1>3 DEF Return, SetCall
  <2> QED BY <1>1, <2>1 DEF CallRecords
<1>4. CASE EnsureFree(c) \/ EnsureNull(c) \/ StorePaths(c) \/ Create(c)
  BY <1>2, <1>4 DEF EnsureFree, EnsureNull, StorePaths, Create, Pcs
<1>5. CASE EnsureReuse(c) \/ EnsureStale(c) \/ NothingToFree(c) \/ Install(c)
  BY <1>2, <1>5 DEF EnsureReuse, EnsureStale, NothingToFree, Install, Pcs, In
<1>6. CASE CreateFails(c) \/ GenerateRefused(c) \/ DetachFailed(c) \/ CheckResult(c)
  BY <1>3, <1>6 DEF CreateFails, GenerateRefused, DetachFailed, CheckResult, In
<1>7. CASE StartSampling(c)
  <2> DEFINE freed == session.ctx = NoPaths \/ session.dangling
             alone == \A x \in Callers : ~ Sampling(x)
             ctx == session.ctx
             new == [call[c] EXCEPT !.pc = "sampling", !.ctx = ctx, !.held = TRUE,
                                    !.freed = freed, !.alone = alone]
  <2>1. call'[c] = new
    BY <1>7 DEF StartSampling, AfterStart
  <2> HIDE DEF freed, alone, ctx
  <2>2. new.pc = "sampling"
    BY <1>1 DEF CallRecords
  <2> HIDE DEF new
  <2> QED BY <1>7, <2>1, <2>2 DEF StartSampling, In
<1>8. CASE Sample(c)
  <2> DEFINE step == call[c].steps + 1
             told == cb'.cancel
             new == [call[c] EXCEPT !.steps = step, !.told = told]
  <2>1. SetCall(c, new) /\ In(c, "sampling") /\ session' = session
    BY <1>8 DEF Sample
  <2> HIDE DEF step, told
  <2>2. new.pc = "sampling"
    BY <1>1, <2>1 DEF CallRecords, In
  <2> HIDE DEF new
  <2>3. call'[c] = new
    BY <1>1, <2>1 DEF SetCall
  <2> QED BY <2>1, <2>2, <2>3 DEF In
<1>9. CASE Detach(c)
  <2>1. PICK result \in Made(c) \cup {Failed} :
          SetCall(c, [call[c] EXCEPT !.pc = "detached", !.result = result])
    BY <1>9 DEF Detach
  <2>2. call'[c] = [call[c] EXCEPT !.pc = "detached", !.result = result]
    BY <1>1, <2>1 DEF SetCall
  <2>3. call'[c].pc = "detached"
    BY <1>1, <2>2 DEF CallRecords
  <2> QED BY <1>9, <2>3 DEF Detach, In
<1> QED BY <1>4, <1>5, <1>6, <1>7, <1>8, <1>9 DEF SessionStep

LEMMA SharedStep ==
  ASSUME SessionTypeOK, SharedInv, NEW n \in Nodes, JobInSession(n)
  PROVE  SharedInv'
<1>1. /\ SessionStep(n) /\ n \in Callers /\ UNCHANGED job /\ job[n].pc = "session"
      /\ session \in SessionRecords /\ call[n].pc # "idle" /\ call[n].paths \in Paths
  <2>1. call[n].pc # "idle" /\ SessionStep(n) /\ n \in Callers
    BY DEF JobInSession, Nodes, SessionStep, EnsureReuse, EnsureStale, NothingToFree, EnsureFree,
       EnsureNull, StorePaths, Create, CreateFails, GenerateRefused, Install, StartSampling,
       Sample, Detach, DetachFailed, CheckResult, In
  <2> QED BY <2>1, Typed DEF JobInSession, opVars, SharedInv
<1>2. call'[n].paths = call[n].paths /\ call'[n].pc # "idle"
  BY <1>1, StepKeepsPaths
<1>3. \A o \in Callers \ {n} : call'[o].pc = call[o].pc /\ call'[o].paths = call[o].paths
  BY <1>1, StepOthers
<1>4. \A o \in Callers : /\ call'[o].pc # "idle" => call'[o].paths \in Paths
                         /\ job'[o].pc # "session" => call'[o].pc = "idle"
  BY <1>1, <1>2, <1>3 DEF SharedInv
<1>5. CASE EnsureFree(n) /\ call'[n].pc = "freeing"
  <2>1. /\ session'.dangling /\ session'.ctx = session.ctx /\ session'.loaded = session.loaded
        /\ session'.paths = session.paths
    BY <1>1, <1>5 DEF EnsureFree, SessionRecords
  <2> QED BY <1>1, <1>3, <1>4, <1>5, <2>1 DEF SharedInv, In
<1>6. CASE EnsureNull(n) /\ call'[n].pc = "store"
  <2>1. ~ session'.dangling /\ ~ session'.loaded /\ session'.paths = session.paths
    BY <1>1, <1>6 DEF EnsureNull, SessionRecords
  <2> QED BY <1>1, <1>3, <1>4, <1>6, <2>1 DEF SharedInv
<1>7. CASE StorePaths(n) /\ call'[n].pc = "creating"
  <2>1. /\ session'.dangling = session.dangling /\ session'.ctx = session.ctx
        /\ session'.loaded = session.loaded /\ session'.paths = call[n].paths
        /\ In(n, "store")
    BY <1>1, <1>7 DEF StorePaths, SessionRecords
  <2>2. session'.dangling => \E c \in Callers : In(c, "freeing")'
    BY <1>3, <2>1 DEF SharedInv, In
  <2> QED BY <1>1, <1>3, <1>4, <1>7, <2>1, <2>2 DEF SharedInv
<1>8. CASE Create(n) /\ call'[n].pc = "loaded"
  <2>1. session.paths \in Paths
    BY <1>1, <1>8 DEF SharedInv, Create, In
  <2>2. /\ ~ session'.dangling /\ session'.ctx \in {call[n].paths, session.paths}
        /\ session'.paths = session.paths
    BY <1>1, <1>8 DEF Create, SessionRecords
  <2>3. session'.ctx # NoPaths
    BY <1>1, <2>1, <2>2, SessionAssumption
  <2> QED BY <1>3, <1>4, <2>1, <2>2, <2>3 DEF SharedInv
<1>9. CASE session' = session /\ ~ In(n, "freeing") /\ call'[n].pc \notin {"creating", "freeing"}
  <2>1. session'.dangling => \E c \in Callers : In(c, "freeing")'
    BY <1>3, <1>9 DEF SharedInv, In
  <2> QED BY <1>3, <1>4, <1>9, <2>1 DEF SharedInv
<1> QED BY <1>1, <1>5, <1>6, <1>7, <1>8, <1>9, StepSession

(* The op gives its call another record, outside the loading.              *)
GivenOutside(n) ==
  \E new \in CallRecords :
    /\ SetCall(n, new) /\ UNCHANGED session
    /\ \/ new.pc \in {"idle", "ensure"} /\ ~ new.freed /\ call[n].pc \in {"idle", "returned"}
       \/ new.pc = call[n].pc /\ new.freed = call[n].freed
    /\ new.pc # "idle" => new.paths \in Paths
    /\ job'[n].pc # "session" => new.pc = "idle"

LEMMA GivenIsOutside ==
  ASSUME TypedInv, LifeInv, SharedInv, NEW n \in Nodes,
         BakeLaunch(n) \/ JobSessionFailed(n) \/ JobGenerated(n) \/ JobReturn(n) \/ DeleteNode(n)
  PROVE  GivenOutside(n)
<1>1. /\ call[n] \in CallRecords /\ call[n].cancel \in BOOLEAN /\ n \in Callers
      /\ node[n].paths \in Paths /\ OpInv
  BY Typed, Facts DEF Nodes, CallRecords, TypedInv, NodeRecords
<1>2. /\ NoCall \in CallRecords /\ NoCall.pc = "idle" /\ ~ NoCall.freed
  BY NoCallType DEF NoCall
<1>3. CASE BakeLaunch(n)
  <2> DEFINE new == Entered(node[n].paths)
  <2>1. new \in CallRecords /\ new.pc = "ensure" /\ new.paths \in Paths /\ ~ new.freed
    BY <1>1, EnteredType DEF Entered, NoCall
  <2>2. SetCall(n, new) /\ UNCHANGED session /\ call[n].pc = "idle"
    BY <1>1, <1>3 DEF BakeLaunch, LifeInv, SharedInv
  <2>3. job'[n].pc = "session"
    BY <1>1, <1>3, BakeLaunchOp
  <2> HIDE DEF new
  <2> QED BY <2>1, <2>2, <2>3 DEF GivenOutside
<1>4. CASE JobSessionFailed(n) \/ JobReturn(n)
  <2>1. SetCall(n, NoCall) /\ UNCHANGED session /\ call[n].pc \in {"idle", "returned"}
    BY <1>1, <1>4 DEF JobSessionFailed, JobReturn, SharedInv, In
  <2> QED BY <1>2, <2>1 DEF GivenOutside
<1>5. CASE JobGenerated(n)
  <2> DEFINE new == [NoCall EXCEPT !.cancel = call[n].cancel]
  <2>1. new \in CallRecords /\ new.pc = "idle" /\ ~ new.freed
    BY <1>1, <1>2, CancelTyped
  <2>2. SetCall(n, new) /\ UNCHANGED session /\ call[n].pc \in {"idle", "returned"}
    BY <1>5 DEF JobGenerated, In
  <2> HIDE DEF new
  <2> QED BY <2>1, <2>2 DEF GivenOutside
<1>6. CASE DeleteNode(n)
  <2> DEFINE stop == job[n] # NoJob
             new == [call[n] EXCEPT !.cancel = stop]
  <2>1. stop \in BOOLEAN /\ SetCall(n, new) /\ UNCHANGED <<job, session>>
    BY <1>6 DEF DeleteNode
  <2> HIDE DEF stop
  <2>2. /\ new \in CallRecords /\ new.pc = call[n].pc /\ new.paths = call[n].paths
        /\ new.freed = call[n].freed
    BY <1>1, <2>1, CancelTyped
  <2> HIDE DEF new
  <2> QED BY <1>1, <2>1, <2>2 DEF GivenOutside, SharedInv
<1> QED BY <1>3, <1>4, <1>5, <1>6

LEMMA OtherJobs ==
  ASSUME OpInv, NEW n \in Nodes, NEW o \in Nodes \ {n},
         \/ BakeLaunch(n) \/ JobSessionFailed(n) \/ JobGenerated(n) \/ JobReturn(n) \/ DeleteNode(n)
         \/ JobRemoveOld(n) \/ JobWriteFails(n) \/ JobRename(n)
  PROVE  job'[o].pc = job[o].pc
<1>1. job[o] \in JobRecords /\ job \in [Nodes -> JobRecords]
  BY Facts DEF OpInv, JobsInv
<1>2. job'[o] \in {job[o], [job[o] EXCEPT !.shared = TRUE]}
  BY <1>1 DEF BakeLaunch, JobSessionFailed, JobGenerated, JobReturn, DeleteNode, JobRemoveOld,
     JobWriteFails, JobRename, EndJob, SetJob
<1> QED BY <1>1, <1>2 DEF JobRecords

LEMMA SharedGiven ==
  ASSUME TypedInv, LifeInv, SharedInv, NEW n \in Nodes,
         BakeLaunch(n) \/ JobSessionFailed(n) \/ JobGenerated(n) \/ JobReturn(n) \/ DeleteNode(n)
  PROVE  SharedInv'
<1>1. GivenOutside(n) /\ call \in [Callers -> CallRecords] /\ n \in Callers
  BY GivenIsOutside, Typed DEF TypedInv, Nodes
<1>2. PICK new \in CallRecords :
        /\ SetCall(n, new) /\ UNCHANGED session
        /\ \/ new.pc \in {"idle", "ensure"} /\ call[n].pc \in {"idle", "returned"}
           \/ new.pc = call[n].pc
        /\ new.pc # "idle" => new.paths \in Paths
        /\ job'[n].pc # "session" => new.pc = "idle"
  BY <1>1 DEF GivenOutside
<1>3. call'[n] = new /\ \A o \in Callers \ {n} : call'[o] = call[o] /\ job'[o].pc = job[o].pc
  BY <1>1, <1>2, OtherJobs DEF SetCall, TypedInv, Nodes
<1>4. \A o \in Callers : /\ call'[o].pc = "freeing" <=> call[o].pc = "freeing"
                         /\ call'[o].pc = "creating" => call[o].pc = "creating"
                         /\ call'[o].pc # "idle" => call'[o].paths \in Paths
                         /\ job'[o].pc # "session" => call'[o].pc = "idle"
  BY <1>2, <1>3 DEF SharedInv
<1> QED BY <1>2, <1>4 DEF SharedInv, In

LEMMA SharedKept ==
  ASSUME SharedInv, UNCHANGED sessionVars,
         \A n \in Nodes : job'[n].pc = "session" <=> job[n].pc = "session"
  PROVE  SharedInv'
  BY DEF SharedInv, sessionVars, In, Nodes

LEMMA SharedRestart == ASSUME Restart PROVE SharedInv'
<1>1. ~ session'.loaded /\ ~ session'.dangling /\ \A c \in Callers : call'[c].pc = "idle"
  BY DEF Restart, NoSession, Nodes, NoCall
<1> QED BY <1>1 DEF SharedInv

(* Main and the ends of a lambda that are not the session's business       *)
LEMMA SharedAside ==
  ASSUME TypedInv, SharedInv, NEW n \in Nodes,
         \/ Edit(n) \/ ViewerValidates(n) \/ TimerPoll(n)
         \/ ClearCache(n) \/ ClearThrows(n) \/ ClearNoDirectory(n)
         \/ BakeRunning(n) \/ BakeRefused(n) \/ BakeLookup(n) \/ BakeCached(n)
         \/ BakeStartRefused(n) \/ DeleteJoined(n)
         \/ JobRemoveOld(n) \/ JobWriteFails(n) \/ JobRename(n)
  PROVE  SharedInv' /\ UNCHANGED sessionVars
<1>1. UNCHANGED sessionVars
  BY SessionUntouched
<1>2. CASE UNCHANGED job
  BY <1>1, <1>2, SharedKept
<1>3. CASE JobRemoveOld(n) \/ JobWriteFails(n) \/ JobRename(n)
  <2>1. job[n] \in JobRecords /\ JobsInv /\ job[n].pc \in {"write", "rename"}
    BY <1>3, Facts DEF TypedInv, JobRemoveOld, JobWriteFails, JobRename
  <2>2. PICK j \in {NoJob} \cup {[job[n] EXCEPT !.pc = pc] : pc \in {"rename", "return"}} :
          SetJob(n, j)
    BY <1>3 DEF JobRemoveOld, JobWriteFails, JobRename, EndJob
  <2>3. j.pc # "session"
    BY <2>1, <2>2, NoJobGood DEF JobRecords
  <2>4. job'[n] = j
    BY <2>1, <2>2 DEF SetJob, JobsInv
  <2>5. \A o \in Nodes \ {n} : job'[o].pc = job[o].pc
    BY <1>3, OtherJobs DEF TypedInv
  <2> QED BY <1>1, <2>1, <2>3, <2>4, <2>5, SharedKept
<1> QED BY <1>1, <1>2, <1>3 DEF Edit, ViewerValidates, TimerPoll, ClearCache, ClearThrows,
     ClearNoDirectory, BakeRunning, BakeRefused, BakeLookup, BakeCached, BakeStartRefused,
     DeleteJoined

LEMMA SharedNext == TypedInv /\ LifeInv /\ SharedInv /\ [Next]_vars => SharedInv'
<1> SUFFICES ASSUME TypedInv, LifeInv, SharedInv, [Next]_vars PROVE SharedInv'
  OBVIOUS
<1>1. ASSUME NEW n \in Nodes, UserStep(n) \/ HandlerStep(n) \/ TimerPoll(n) PROVE SharedInv'
  BY <1>1, SharedAside, SharedGiven DEF UserStep, HandlerStep
<1>2. ASSUME NEW n \in Nodes, JobStep(n) PROVE SharedInv'
  BY <1>2, SharedAside, SharedGiven, SharedStep DEF JobStep, TypedInv
<1>3. CASE LoraFilesChange \/ UNCHANGED vars
  BY <1>3, SharedKept DEF LoraFilesChange, vars, opVars
<1> QED BY <1>1, <1>2, <1>3, SharedRestart DEF Next

SettledKept ==
  Settled' /\ session' = session /\ \A c \in Callers : call'[c].freed => call[c].freed

(* Where the context is ready for reuse, every call of the same model      *)
(* files passes the reuse test: nothing is loaded or freed.                *)
LEMMA SettledStep ==
  ASSUME OneModel, SessionTypeOK, SharedInv, Settled, NEW c \in Callers, SessionStep(c)
  PROVE  SettledKept
<1>1. /\ session.loaded /\ session.ctx # NoPaths /\ session.paths \in Paths /\ ~ session.dangling
      /\ \A o \in Callers : call[o].pc \notin {"free", "freeing", "store", "creating"}
      /\ call[c] \in CallRecords /\ call \in [Callers -> CallRecords]
  BY Typed DEF Settled, SharedInv, In
<1>2. ~ EnsureStale(c)
  BY <1>1 DEF EnsureStale, Reusable, OneModel, SharedInv, In
<1>3. ~ (NothingToFree(c) \/ EnsureFree(c) \/ EnsureNull(c) \/ StorePaths(c) \/ Create(c) \/ CreateFails(c))
  BY <1>1 DEF NothingToFree, EnsureFree, EnsureNull, StorePaths, Create, CreateFails, In
<1>4. session' = session /\ call'[c].pc \notin {"free", "freeing", "store", "creating"}
  <2>1. call[c].pc \in {"ensure", "loaded", "installed", "sampling", "detached"}
    BY <1>3 DEF SessionStep, EnsureReuse, EnsureStale, GenerateRefused, Install, StartSampling,
       Sample, Detach, DetachFailed, CheckResult, In
  <2> QED BY <1>2, <1>3, <2>1, StepSession
<1>5. \A o \in Callers \ {c} : call'[o].pc = call[o].pc /\ call'[o].freed = call[o].freed
  BY <1>3, StepOthers
<1>6. call'[c].freed => call[c].freed
  <2>1. CASE StartSampling(c)
    <3> DEFINE alone == \A x \in Callers : ~ Sampling(x)
               ctx == session.ctx
               new == [call[c] EXCEPT !.pc = "sampling", !.ctx = ctx, !.held = TRUE,
                                      !.freed = FALSE, !.alone = alone]
    <3>1. (session.ctx = NoPaths \/ session.dangling) = FALSE
      BY <1>1
    <3>2. call'[c] = new
      BY <2>1, <3>1 DEF StartSampling, AfterStart
    <3> HIDE DEF alone, ctx
    <3>3. ~ new.freed
      BY <1>1 DEF CallRecords
    <3> HIDE DEF new
    <3> QED BY <3>2, <3>3
  <2>2. CASE ~ StartSampling(c)
    <3>1. PICK new : SetCall(c, new) /\ new.freed = call[c].freed
      <4>1. CASE EnsureReuse(c) \/ Install(c)
        <5>1. PICK pc \in Pcs : SetCall(c, [call[c] EXCEPT !.pc = pc])
          BY <4>1 DEF EnsureReuse, Install, Pcs
        <5>2. [call[c] EXCEPT !.pc = pc].freed = call[c].freed
          BY <1>1 DEF CallRecords
        <5> QED BY <5>1, <5>2
      <4>2. CASE GenerateRefused(c) \/ DetachFailed(c) \/ CheckResult(c)
        <5>1. PICK result : SetCall(c, [call[c] EXCEPT !.pc = "returned", !.result = result])
          BY <4>2 DEF GenerateRefused, DetachFailed, CheckResult, Return
        <5>2. [call[c] EXCEPT !.pc = "returned", !.result = result].freed = call[c].freed
          BY <1>1 DEF CallRecords
        <5> QED BY <5>1, <5>2
      <4>3. CASE Detach(c)
        <5>1. PICK result : SetCall(c, [call[c] EXCEPT !.pc = "detached", !.result = result])
          BY <4>3 DEF Detach
        <5>2. [call[c] EXCEPT !.pc = "detached", !.result = result].freed = call[c].freed
          BY <1>1 DEF CallRecords
        <5> QED BY <5>1, <5>2
      <4>4. CASE Sample(c)
        <5> DEFINE step == call[c].steps + 1
                   told == cb'.cancel
                   new == [call[c] EXCEPT !.steps = step, !.told = told]
        <5>1. SetCall(c, new)
          BY <4>4 DEF Sample
        <5> HIDE DEF step, told
        <5>2. new.freed = call[c].freed
          BY <1>1 DEF CallRecords
        <5> HIDE DEF new
        <5> QED BY <5>1, <5>2
      <4> QED BY <1>2, <1>3, <2>2, <4>1, <4>2, <4>3, <4>4 DEF SessionStep
    <3> QED BY <1>1, <3>1 DEF SetCall
  <2> QED BY <2>1, <2>2
<1> QED BY <1>1, <1>4, <1>5, <1>6 DEF SettledKept, Settled

LEMMA SettledGiven ==
  ASSUME SessionTypeOK, Settled, NEW n \in Nodes, GivenOutside(n)
  PROVE  SettledKept
<1>1. call \in [Callers -> CallRecords] /\ n \in Callers
  BY Typed DEF Nodes
<1>2. PICK new :
        /\ SetCall(n, new) /\ UNCHANGED session
        /\ \/ new.pc \in {"idle", "ensure"} /\ ~ new.freed
           \/ new.pc = call[n].pc /\ new.freed = call[n].freed
  BY DEF GivenOutside
<1>3. call'[n] = new /\ \A o \in Callers \ {n} : call'[o] = call[o]
  BY <1>1, <1>2 DEF SetCall
<1> QED BY <1>1, <1>2, <1>3 DEF SettledKept, Settled

LEMMA SettledNext ==
  ASSUME OneModel, TypedInv, LifeInv, SharedInv, [Next]_vars, Settled, ~ Restart
  PROVE  SettledKept
<1>1. ASSUME UNCHANGED sessionVars PROVE SettledKept
  BY <1>1 DEF sessionVars, SettledKept, Settled
<1>2. ASSUME NEW n \in Nodes, UserStep(n) \/ HandlerStep(n) \/ TimerPoll(n) PROVE SettledKept
  BY <1>1, <1>2, SharedAside, GivenIsOutside, SettledGiven DEF UserStep, HandlerStep, TypedInv
<1>3. ASSUME NEW n \in Nodes, JobStep(n) PROVE SettledKept
  <2>1. CASE JobInSession(n)
    BY <2>1, SettledStep DEF JobInSession, TypedInv, Nodes
  <2> QED BY <1>1, <1>3, <2>1, SharedAside, GivenIsOutside, SettledGiven DEF JobStep, TypedInv
<1>4. CASE LoraFilesChange \/ UNCHANGED vars
  BY <1>1, <1>4 DEF LoraFilesChange, vars
<1> QED BY <1>2, <1>3, <1>4 DEF Next

(* Where all nodes name the same model files: once a bake has loaded them  *)
(* and no other call is on its way to load them too, no bake of any number *)
(* of nodes frees or replaces the context or samples without one, until    *)
(* Nuke ends.                                                              *)
THEOREM OneModelSettles == OneModel => (Spec => SettledStays)
<1> SUFFICES ASSUME OneModel PROVE Spec => SettledStays
  OBVIOUS
<1>1. Init => SharedInv
  <2> SUFFICES ASSUME Init PROVE SharedInv
    OBVIOUS
  <2>1. ~ session.loaded /\ ~ session.dangling /\ \A c \in Callers : call[c].pc = "idle"
    BY DEF Init, SessionInit, NoSession, NoCall
  <2> QED BY <2>1 DEF SharedInv
<1>2. TypedInv /\ LifeInv /\ SharedInv /\ [Next]_vars => SharedInv'
  BY SharedNext
<1>3. TypedInv /\ LifeInv /\ SharedInv /\ [Next]_vars =>
        [Settled /\ ~ Restart =>
           /\ Settled' /\ session' = session
           /\ \A c \in Callers : call'[c].freed => call[c].freed]_vars
  BY SettledNext DEF SettledKept
<1> QED BY <1>1, <1>2, <1>3, LifeInvariance, PTL DEF Spec, SettledStays
=============================================================================
