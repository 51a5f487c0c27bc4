-------------------------- MODULE SmartFillProofs --------------------------
(***************************************************************************)
(* Proofs about SmartFill for any number of nodes, inputs and networks,    *)
(* with or without the timer's bump of the revision.  The handlers are     *)
(* built from functions of one node; each of them is shown once to keep a  *)
(* node good and to leave its lifetime alone, and every action then only   *)
(* has to say which functions it applies.                                  *)
(***************************************************************************)
EXTENDS SmartFill, TLAPS

NodeRecords ==
  [alive : BOOLEAN, input : Inputs \cup {None}, model : Models,
   status : {"Cooking", "Ready", "other"},
   percent : 0 .. 100, dirty : BOOLEAN,
   current : Keys \cup {None}, loaded : Keys \cup {None},
   pixels : Keys \cup {Torn, None}, baking : Keys \cup {None},
   session : Sessions \cup {None},
   worker : {"Idle", "Running", "Done", "Error", "Cancelled"},
   cancel : BOOLEAN]

JobRecords ==
  [pc : {"none", "prepare", "session", "inferred", "composited", "write", "rename", "return"},
   key : Keys \cup {None}, model : Models \cup {None}, shared : BOOLEAN]

(* The buffer of a node is what it says it has loaded: never empty, and    *)
(* unless torn computed from the inputs of that key.                       *)
BufferInv(nd) ==
  nd.loaded # None =>
    \/ nd.pixels = Torn
    \/ nd.pixels \in Keys /\ nd.pixels.input = nd.loaded.input

Good(nd) == nd \in NodeRecords /\ BufferInv(nd)

(* On the main thread a worker is left alone or its result is taken.       *)
Handled(old, new) ==
  \/ new.worker = old.worker
  \/ old.worker \in {"Done", "Error", "Cancelled"} /\ new.worker = "Idle"

(* What ends only with the node. *)
SameLife(a, b) == a.alive = b.alive /\ a.session = b.session

(* A lambda has a key, after inference a network, and the node and its     *)
(* session around it.                                                      *)
JobInv(nd, j) ==
  j.pc # "none" =>
    /\ nd.alive /\ nd.session # None
    /\ j.key \in Keys
    /\ j.pc \in {"inferred", "composited", "write", "rename", "return"} => j.model \in Models

(* A file under a key was computed from the inputs of that key.            *)
FilesInv ==
  /\ files \in [Keys -> Keys \cup {Absent, Unreadable, Torn}]
  /\ \A k \in Keys : files[k] \in Keys => files[k].input = k.input

(* A handler works on a node that is there. *)
MainInv ==
  /\ mainPc \in [at : {"ready", "cached", "launch", "delete"}, node : Nodes \cup {None}]
  /\ mainPc.at # "ready" => mainPc.node \in Nodes /\ node[mainPc.node].alive

IInv ==
  /\ node \in [Nodes -> NodeRecords] /\ \A n \in Nodes : Good(node[n])
  /\ job \in [Nodes -> JobRecords] /\ \A n \in Nodes : JobInv(node[n], job[n])
  /\ FilesInv
  /\ MainInv

-----------------------------------------------------------------------------
(* The pieces of the handlers *)

LEMMA NoneIsNothing ==
  /\ None \notin Keys /\ None \notin Sessions /\ None # Torn /\ Torn \notin Keys
  /\ Absent \notin Keys /\ Unreadable \notin Keys
  /\ Torn # Absent /\ Torn # Unreadable /\ None \notin Nodes
  BY SmartFillAssumption

LEMMA KeyType == ASSUME NEW nd \in NodeRecords PROVE KeyOf(nd) \in Keys
  BY DEF NodeRecords, KeyOf, Keys

(* A new text of the status knob leaves the rest as it is.                 *)
LEMMA StatusGood ==
  ASSUME NEW nd, Good(nd), NEW text, NEW percent \in 0 .. 100
  PROVE  LET new == SetStatusAt(nd, text, percent) IN
           /\ Good(new) /\ SameLife(nd, new)
           /\ KeyOf(new) = KeyOf(nd) /\ new.worker = nd.worker
           /\ new.current = nd.current /\ new.loaded = nd.loaded /\ new.pixels = nd.pixels
           /\ new.status = IF text \in {"Cooking", "Ready"} THEN text ELSE "other"
<1> DEFINE shown == IF text \in {"Cooking", "Ready"} THEN text ELSE "other"
           dirty == nd.dirty \/ <<shown, percent>> # <<nd.status, nd.percent>>
           new == [nd EXCEPT !.status = shown, !.percent = percent, !.dirty = dirty]
<1>1. nd \in NodeRecords /\ BufferInv(nd)
  BY DEF Good
<1>2. shown \in {"Cooking", "Ready", "other"} /\ dirty \in BOOLEAN
  BY <1>1 DEF NodeRecords
<1>3. new = SetStatusAt(nd, text, percent)
  BY DEF SetStatusAt
<1> HIDE DEF shown, dirty
<1>4. new = [nd EXCEPT !.status = shown, !.percent = percent, !.dirty = dirty]
  OBVIOUS
<1> HIDE DEF new
<1>5. /\ new \in NodeRecords /\ new.status = shown
      /\ new.alive = nd.alive /\ new.session = nd.session /\ new.worker = nd.worker
      /\ new.input = nd.input /\ new.model = nd.model
      /\ new.current = nd.current /\ new.loaded = nd.loaded /\ new.pixels = nd.pixels
  BY <1>1, <1>2, <1>4 DEF NodeRecords
<1> QED BY <1>1, <1>3, <1>5 DEF Good, BufferInv, SameLife, KeyOf, shown

LEMMA TextGood ==
  ASSUME NEW nd, Good(nd), NEW text
  PROVE  /\ Good(SetStatus(nd, text)) /\ SameLife(nd, SetStatus(nd, text))
         /\ KeyOf(SetStatus(nd, text)) = KeyOf(nd)
         /\ SetStatus(nd, text).worker = nd.worker
         /\ SetStatus(nd, text).status = IF text \in {"Cooking", "Ready"} THEN text ELSE "other"
<1>1. 0 \in 0 .. 100
  OBVIOUS
<1> QED BY <1>1, StatusGood DEF SetStatus

LEMMA DroppedGood ==
  ASSUME NEW nd, Good(nd)
  PROVE  LET new == Dropped(nd) IN
           /\ Good(new) /\ SameLife(nd, new)
           /\ KeyOf(new) = KeyOf(nd) /\ new.worker = nd.worker
           /\ new.current = nd.current /\ new.status = nd.status
<1> DEFINE new == [nd EXCEPT !.loaded = None, !.pixels = None]
<1>1. nd \in NodeRecords
  BY DEF Good
<1>2. new \in NodeRecords
  BY <1>1 DEF NodeRecords
<1>3. /\ new.loaded = None /\ new.alive = nd.alive /\ new.session = nd.session
      /\ new.input = nd.input /\ new.model = nd.model /\ new.worker = nd.worker
      /\ new.current = nd.current /\ new.status = nd.status
  BY <1>1 DEF NodeRecords
<1>4. Dropped(nd) = new
  BY DEF Dropped
<1> HIDE DEF new
<1>5. Good(new) /\ SameLife(nd, new) /\ KeyOf(new) = KeyOf(nd)
  BY <1>2, <1>3 DEF Good, BufferInv, SameLife, KeyOf
<1> QED BY <1>3, <1>4, <1>5

(* What was found under a key is good for it.                              *)
LEMMA TryLoadGood ==
  ASSUME NEW nd, Good(nd), NEW k \in Keys, FilesInv
  PROVE  LET new == TryLoad(nd, k) IN
           /\ Good(new) /\ SameLife(nd, new)
           /\ new.worker = nd.worker /\ new.current = nd.current /\ new.status = nd.status
           /\ Readable(k) => new.loaded = k
<1>1. CASE nd.loaded = k /\ nd.pixels # None
  BY <1>1 DEF TryLoad, SameLife
<1>2. CASE ~ (nd.loaded = k /\ nd.pixels # None) /\ ~ Readable(k)
  BY <1>2, DroppedGood DEF TryLoad
<1>3. CASE ~ (nd.loaded = k /\ nd.pixels # None) /\ Readable(k)
  <2> DEFINE px == files[k]
             new == [nd EXCEPT !.loaded = k, !.pixels = px]
  <2>1. TryLoad(nd, k) = new
    BY <1>3 DEF TryLoad
  <2>2. px = Torn \/ (px \in Keys /\ px.input = k.input)
    BY <1>3 DEF FilesInv, Readable
  <2>3. new = [nd EXCEPT !.loaded = k, !.pixels = px] /\ px \in Keys \cup {Torn}
    BY <2>2
  <2> HIDE DEF px, new
  <2>4. /\ new \in NodeRecords /\ new.loaded = k /\ new.pixels = px
        /\ new.alive = nd.alive /\ new.session = nd.session /\ new.worker = nd.worker
        /\ new.current = nd.current /\ new.status = nd.status
    BY <2>3 DEF Good, NodeRecords
  <2> QED BY <2>1, <2>2, <2>4 DEF Good, BufferInv, SameLife
<1> QED BY <1>1, <1>2, <1>3

LEMMA ResetGood ==
  ASSUME NEW nd, Good(nd)
  PROVE  LET new == Reset(nd) IN
           /\ Good(new) /\ SameLife(nd, new)
           /\ KeyOf(new) = KeyOf(nd) /\ new.worker = "Idle" /\ new.status = nd.status
           /\ new.current = nd.current /\ new.loaded = nd.loaded
  BY DEF Good, BufferInv, SameLife, KeyOf, Reset, NodeRecords

LEMMA PercentRange == ASSUME NEW j \in JobRecords PROVE Percent(j) \in 0 .. 100
  BY DEF Percent, JobRecords

(* What poll_worker does with a job that has ended *)
LEMMA ReportedGood ==
  ASSUME NEW nd, Good(nd), NEW text
  PROVE  LET new == [Reset(SetStatus(nd, text)) EXCEPT !.baking = None] IN
           Good(new) /\ SameLife(nd, new) /\ KeyOf(new) = KeyOf(nd) /\ new.worker = "Idle"
<1> DEFINE shown == SetStatus(nd, text)
           idle == Reset(shown)
           new == [idle EXCEPT !.baking = None]
<1>1. Good(shown) /\ SameLife(nd, shown) /\ KeyOf(shown) = KeyOf(nd)
  BY TextGood
<1> HIDE DEF shown
<1>2. Good(idle) /\ SameLife(nd, idle) /\ KeyOf(idle) = KeyOf(nd) /\ idle.worker = "Idle"
  BY <1>1, ResetGood DEF SameLife
<1>3. new = [Reset(SetStatus(nd, text)) EXCEPT !.baking = None]
  BY DEF shown
<1> HIDE DEF idle
<1>4. Good(new) /\ SameLife(idle, new) /\ KeyOf(new) = KeyOf(idle) /\ new.worker = idle.worker
  BY <1>2 DEF Good, BufferInv, SameLife, KeyOf, NodeRecords
<1> HIDE DEF new
<1> QED BY <1>2, <1>3, <1>4 DEF SameLife

LEMMA PollGood ==
  ASSUME NEW nd, Good(nd), NEW j \in JobRecords
  PROVE  LET new == Poll(nd, j) IN
           /\ Good(new) /\ SameLife(nd, new) /\ KeyOf(new) = KeyOf(nd)
           /\ Handled(nd, new)
           /\ nd.worker = "Idle" => new = nd
<1>1. CASE nd.worker = "Idle"
  BY <1>1 DEF Poll, SameLife, Handled
<1>2. CASE nd.worker = "Running"
  <2>1. Poll(nd, j) = SetStatusAt(nd, "Cooking", Percent(j))
    BY <1>2 DEF Poll
  <2> DEFINE new == SetStatusAt(nd, "Cooking", Percent(j))
  <2>2. Good(new) /\ SameLife(nd, new) /\ KeyOf(new) = KeyOf(nd) /\ new.worker = nd.worker
    BY StatusGood, PercentRange
  <2> HIDE DEF new
  <2> QED BY <1>2, <2>1, <2>2 DEF Handled, new
<1>3. CASE nd.worker = "Done"
  <2> DEFINE kept == IF nd.loaded = nd.baking THEN nd ELSE Dropped(nd)
  <2>1. Poll(nd, j) = [Reset(SetStatus(kept, "Ready")) EXCEPT !.baking = None]
    BY <1>3 DEF Poll
  <2>2. Good(kept) /\ SameLife(nd, kept) /\ KeyOf(kept) = KeyOf(nd)
    BY DroppedGood DEF SameLife
  <2> HIDE DEF kept
  <2> QED BY <1>3, <2>1, <2>2, ReportedGood DEF SameLife, Handled
<1>4. CASE nd.worker = "Error"
  BY <1>4, ReportedGood DEF Poll, Handled
<1>5. CASE nd.worker = "Cancelled"
  BY <1>5, ReportedGood DEF Poll, Handled
<1> QED BY <1>1, <1>2, <1>3, <1>4, <1>5 DEF Good, NodeRecords

(* _validate ends with the current key set and its file, if it can be      *)
(* read, loaded; a worker that was idle makes no other text.               *)
LEMMA ValidatedGood ==
  ASSUME NEW nd, Good(nd), NEW j \in JobRecords, FilesInv
  PROVE  LET new == Validated(nd, j) IN
           /\ Good(new) /\ SameLife(nd, new)
           /\ new.current = KeyOf(nd)
           /\ Readable(KeyOf(nd)) => new.loaded = KeyOf(nd)
           /\ Handled(nd, new)
           /\ nd.worker = "Idle" => new.worker = "Idle" /\ new.status = nd.status
<1> DEFINE k == KeyOf(nd)
           clean == [nd EXCEPT !.dirty = BumpsRevision]
           polled == Poll(clean, j)
           keyed == [polled EXCEPT !.current = k]
<1>1. k \in Keys
  BY KeyType DEF Good
<1>2. /\ Good(clean) /\ SameLife(nd, clean)
      /\ clean.worker = nd.worker /\ clean.status = nd.status
  BY SmartFillAssumption DEF Good, BufferInv, SameLife, NodeRecords
<1> HIDE DEF clean
<1>3. /\ Good(polled) /\ SameLife(nd, polled) /\ Handled(nd, polled)
      /\ nd.worker = "Idle" => polled = clean
  BY <1>2, PollGood DEF SameLife, Handled
<1> HIDE DEF polled, k
<1>4. /\ Good(keyed) /\ SameLife(nd, keyed) /\ keyed.current = k
      /\ keyed.worker = polled.worker /\ keyed.status = polled.status
  BY <1>1, <1>3 DEF Good, BufferInv, SameLife, NodeRecords
<1> HIDE DEF keyed
<1>5. /\ Good(TryLoad(keyed, k)) /\ SameLife(nd, TryLoad(keyed, k))
      /\ TryLoad(keyed, k).current = k
      /\ Readable(k) => TryLoad(keyed, k).loaded = k
      /\ TryLoad(keyed, k).worker = polled.worker /\ TryLoad(keyed, k).status = polled.status
  BY <1>1, <1>4, TryLoadGood DEF SameLife
<1>6. Validated(nd, j) = TryLoad(keyed, k)
  BY DEF Validated, keyed, polled, clean, k
<1> QED BY <1>2, <1>3, <1>5, <1>6 DEF k, Handled

LEMMA CurrentSet ==
  ASSUME NEW nd, Good(nd), NEW k \in Keys
  PROVE  LET new == [nd EXCEPT !.current = k] IN
           Good(new) /\ SameLife(nd, new) /\ new.status = nd.status
  BY DEF Good, BufferInv, NodeRecords, SameLife

-----------------------------------------------------------------------------
(* The frame of an action: the node, job or file of one node changes.      *)

LEMMA Facts ==
  ASSUME IInv, NEW n \in Nodes
  PROVE  /\ Good(node[n]) /\ node[n] \in NodeRecords
         /\ job[n] \in JobRecords /\ JobInv(node[n], job[n])
         /\ KeyOf(node[n]) \in Keys
  BY KeyType DEF IInv, Good

(* A member that the buffer does not depend on gets another value.         *)
LEMMA AliveSet ==
  ASSUME NEW nd, Good(nd), NEW b \in BOOLEAN
  PROVE  Good([nd EXCEPT !.alive = b]) /\ [nd EXCEPT !.alive = b].alive = b
  BY DEF Good, BufferInv, NodeRecords

LEMMA DirtySet ==
  ASSUME NEW nd, Good(nd), NEW b \in BOOLEAN
  PROVE  LET new == [nd EXCEPT !.dirty = b] IN
           /\ Good(new) /\ SameLife(nd, new)
           /\ new.worker = nd.worker /\ new.status = nd.status
  BY DEF Good, BufferInv, NodeRecords, SameLife

LEMMA CancelSet ==
  ASSUME NEW nd, Good(nd), NEW b \in BOOLEAN
  PROVE  LET new == [nd EXCEPT !.cancel = b] IN Good(new) /\ SameLife(nd, new)
  BY DEF Good, BufferInv, NodeRecords, SameLife

LEMMA FreshGood ==
  ASSUME NEW nd, Good(nd)
  PROVE  LET new == Fresh(nd) IN
           /\ Good(new) /\ new.alive = nd.alive /\ new.status = nd.status
           /\ Good([new EXCEPT !.alive = FALSE]) /\ Good([new EXCEPT !.dirty = TRUE])
           /\ [new EXCEPT !.dirty = TRUE].alive = nd.alive
<1> DEFINE new == Fresh(nd)
<1>1. new = [nd EXCEPT !.current = None, !.loaded = None, !.pixels = None, !.baking = None,
                       !.session = None, !.worker = "Idle", !.cancel = FALSE]
  BY DEF Fresh
<1> HIDE DEF new
<1>2. new \in NodeRecords /\ new.loaded = None /\ new.alive = nd.alive /\ new.status = nd.status
  BY <1>1 DEF Good, NodeRecords
<1>3. Good(new)
  BY <1>2 DEF Good, BufferInv
<1>4. Good([new EXCEPT !.alive = FALSE])
  BY <1>3, AliveSet
<1>5. Good([new EXCEPT !.dirty = TRUE]) /\ [new EXCEPT !.dirty = TRUE].alive = new.alive
  BY <1>3, DirtySet DEF SameLife
<1> QED BY <1>2, <1>3, <1>4, <1>5 DEF new

LEMMA NoJobType == NoJob \in JobRecords /\ NoJob.pc = "none"
  BY DEF NoJob, JobRecords

(* Main stays where it is, returns, or is now in a handler of the node.    *)
MainMoves(n, nd) ==
  \/ UNCHANGED mainPc /\ nd.alive = node[n].alive
  \/ mainPc' = InMain("ready", None)
  \/ nd.alive /\ \E at \in {"cached", "launch", "delete"} : mainPc' = InMain(at, n)

LEMMA NodeMoved ==
  ASSUME IInv, NEW n \in Nodes, NEW nd, Good(nd), SetNode(n, nd),
         job' \in [Nodes -> JobRecords], JobInv(nd, job'[n]),
         \A o \in Nodes \ {n} : JobInv(node[o], job'[o]),
         FilesInv', MainMoves(n, nd)
  PROVE  IInv'
<1>1. /\ node' \in [Nodes -> NodeRecords] /\ node'[n] = nd
      /\ \A o \in Nodes \ {n} : node'[o] = node[o]
  BY DEF IInv, Good, SetNode
<1>2. \A o \in Nodes : Good(node'[o]) /\ JobInv(node'[o], job'[o])
  BY <1>1 DEF IInv
<1>3. MainInv'
  BY <1>1 DEF IInv, MainInv, MainMoves, InMain
<1> QED BY <1>1, <1>2, <1>3 DEF IInv

(* A handler on the main thread: the job goes on beside it.                *)
LEMMA OnMain ==
  ASSUME IInv, NEW n \in Nodes, NEW nd, Good(nd), SameLife(node[n], nd), SetNode(n, nd),
         UNCHANGED job, FilesInv', MainMoves(n, nd)
  PROVE  IInv'
<1>1. job' \in [Nodes -> JobRecords] /\ \A o \in Nodes : JobInv(node[o], job'[o])
  BY DEF IInv
<1>2. JobInv(nd, job'[n])
  BY <1>1 DEF JobInv, SameLife
<1> QED BY <1>1, <1>2, NodeMoved

(* A step of the lambda: main stays where it is.                           *)
LEMMA OnWorker ==
  ASSUME IInv, NEW n \in Nodes, NEW nd, Good(nd), nd.alive = node[n].alive, SetNode(n, nd),
         NEW j \in JobRecords, JobInv(nd, j), SetJob(n, j), FilesInv', UNCHANGED mainPc
  PROVE  IInv'
<1>1. /\ job' \in [Nodes -> JobRecords] /\ job'[n] = j
      /\ \A o \in Nodes \ {n} : job'[o] = job[o]
  BY DEF IInv, SetJob
<1>2. \A o \in Nodes \ {n} : JobInv(node[o], job'[o])
  BY <1>1 DEF IInv
<1> QED BY <1>1, <1>2, NodeMoved DEF MainMoves

LEMMA FilesKept == ASSUME IInv, UNCHANGED files PROVE FilesInv /\ FilesInv'
  BY DEF IInv, FilesInv

LEMMA NodeKept == ASSUME IInv, NEW n \in Nodes, UNCHANGED node PROVE SetNode(n, node[n])
  BY DEF IInv, SetNode

-----------------------------------------------------------------------------
(* What the user does *)

LEMMA EditInv == ASSUME IInv, NEW n \in Nodes, Edit(n) PROVE IInv'
<1>1. PICK k \in Keys \ {KeyOf(node[n])} :
        SetNode(n, [node[n] EXCEPT !.input = k.input, !.model = k.model, !.dirty = TRUE])
  BY DEF Edit
<1> DEFINE input == k.input
           model == k.model
           new == [node[n] EXCEPT !.input = input, !.model = model, !.dirty = TRUE]
<1>2. input \in Inputs \cup {None} /\ model \in Models
  BY DEF Keys
<1>3. SetNode(n, new)
  BY <1>1
<1> HIDE DEF input, model
<1>4. Good(new) /\ SameLife(node[n], new) /\ new.alive = node[n].alive
  <2>1. Good(node[n]) /\ node[n] \in NodeRecords
    BY Facts
  <2>2. new = [node[n] EXCEPT !.input = input, !.model = model, !.dirty = TRUE]
    OBVIOUS
  <2> HIDE DEF new
  <2>3. /\ new \in NodeRecords
        /\ new.alive = node[n].alive /\ new.session = node[n].session
        /\ new.loaded = node[n].loaded /\ new.pixels = node[n].pixels
    BY <1>2, <2>1, <2>2 DEF NodeRecords
  <2> QED BY <2>1, <2>3 DEF Good, BufferInv, SameLife
<1> HIDE DEF new
<1>5. UNCHANGED <<job, files, mainPc>>
  BY DEF Edit
<1> QED BY <1>3, <1>4, <1>5, FilesKept, OnMain DEF MainMoves

LEMMA ValidatesInv ==
  ASSUME IInv, NEW n \in Nodes, ViewerValidates(n) \/ TimerPoll(n)
  PROVE  IInv'
<1> DEFINE new == Validated(node[n], job[n])
<1>1. SetNode(n, new) /\ UNCHANGED <<job, files, mainPc>>
  BY DEF ViewerValidates, TimerPoll
<1>2. Good(new) /\ SameLife(node[n], new)
  BY <1>1, Facts, FilesKept, ValidatedGood
<1> HIDE DEF new
<1> QED BY <1>1, <1>2, FilesKept, OnMain DEF MainMoves, SameLife

LEMMA ClearInv ==
  ASSUME IInv, NEW n \in Nodes, ClearCache(n) \/ ClearThrows(n) \/ ClearNoDirectory(n)
  PROVE  IInv'
<1>1. ASSUME ClearCache(n) \/ ClearThrows(n) PROVE FilesInv'
  <2>1. PICK kept \in SUBSET {k \in Keys : Present(k)} :
          files' = [k \in Keys |-> IF k \in kept THEN files[k] ELSE Absent]
    BY <1>1 DEF ClearCache, ClearThrows
  <2>2. \A k \in Keys : files'[k] \in {files[k], Absent}
    BY <2>1
  <2>3. files' \in [Keys -> Keys \cup {Absent, Unreadable, Torn}]
    <3>1. files' = [k \in Keys |-> files'[k]]
      BY <2>1
    <3> QED BY <2>2, <3>1 DEF IInv, FilesInv
  <2> QED BY <2>2, <2>3, NoneIsNothing DEF IInv, FilesInv
<1>2. CASE ClearCache(n)
  <2> DEFINE dropped == Dropped(node[n])
             new == SetStatus(dropped, "Cleared")
  <2>1. Good(dropped) /\ SameLife(node[n], dropped)
    BY Facts, DroppedGood
  <2> HIDE DEF dropped
  <2>2. Good(new) /\ SameLife(node[n], new)
    BY <2>1, TextGood DEF SameLife
  <2>3. SetNode(n, new) /\ UNCHANGED <<job, mainPc>>
    BY <1>2 DEF ClearCache, dropped
  <2> HIDE DEF new
  <2> QED BY <1>1, <1>2, <2>2, <2>3, OnMain DEF MainMoves, SameLife
<1>3. CASE ClearThrows(n)
  BY <1>1, <1>3 DEF ClearThrows, IInv, MainInv
<1>4. CASE ClearNoDirectory(n)
  <2>1. Good(SetStatus(node[n], "No directory")) /\ SameLife(node[n], SetStatus(node[n], "No directory"))
    BY Facts, TextGood
  <2> QED BY <1>4, <2>1, FilesKept, OnMain DEF ClearNoDirectory, MainMoves, SameLife
<1> QED BY <1>2, <1>3, <1>4

LEMMA BakeRefusedInv ==
  ASSUME IInv, NEW n \in Nodes, BakeRunning(n) \/ BakeNoInput(n)
  PROVE  IInv'
<1>1. CASE BakeRunning(n)
  <2>1. Good(SetStatus(node[n], "Already cooking")) /\ SameLife(node[n], SetStatus(node[n], "Already cooking"))
    BY Facts, TextGood
  <2> QED BY <1>1, <2>1, FilesKept, OnMain DEF BakeRunning, MainMoves, SameLife
<1>2. CASE BakeNoInput(n)
  <2> DEFINE reset == Reset(node[n])
  <2>1. Good(reset) /\ SameLife(node[n], reset)
    BY Facts, ResetGood
  <2>2. SetNode(n, SetStatus(reset, "Error")) /\ UNCHANGED <<job, files, mainPc>>
    BY <1>2 DEF BakeNoInput
  <2> HIDE DEF reset
  <2>3. Good(SetStatus(reset, "Error")) /\ SameLife(node[n], SetStatus(reset, "Error"))
    BY <2>1, TextGood DEF SameLife
  <2> QED BY <2>2, <2>3, FilesKept, OnMain DEF MainMoves, SameLife
<1> QED BY <1>1, <1>2

(* reset(), and validate(true) if the node is not valid. *)
LEMMA ResetValidated ==
  ASSUME IInv, NEW n \in Nodes, NEW nd \in {Reset(node[n]), Validated(Reset(node[n]), job[n])}
  PROVE  Good(nd) /\ SameLife(node[n], nd) /\ nd.worker = "Idle" /\ nd.status = node[n].status
<1> DEFINE reset == Reset(node[n])
<1>1. Good(reset) /\ SameLife(node[n], reset) /\ reset.worker = "Idle" /\ reset.status = node[n].status
  BY Facts, ResetGood
<1>2. nd \in {reset, Validated(reset, job[n])}
  OBVIOUS
<1> HIDE DEF reset
<1>3. FilesInv /\ job[n] \in JobRecords
  BY DEF IInv
<1>4. LET new == Validated(reset, job[n]) IN
        Good(new) /\ SameLife(reset, new) /\ new.worker = "Idle" /\ new.status = reset.status
  BY <1>1, <1>3, ValidatedGood
<1> QED BY <1>1, <1>2, <1>4 DEF SameLife

LEMMA BakeLookupInv ==
  ASSUME IInv, NEW n \in Nodes, BakeEmpty(n) \/ BakeLookup(n)
  PROVE  IInv'
<1>1. CASE BakeEmpty(n)
  <2>1. PICK nd \in {Reset(node[n]), Validated(Reset(node[n]), job[n])} :
          SetNode(n, SetStatus(nd, "Error"))
    BY <1>1 DEF BakeEmpty
  <2>2. Good(nd) /\ SameLife(node[n], nd)
    BY ResetValidated
  <2>3. Good(SetStatus(nd, "Error")) /\ SameLife(node[n], SetStatus(nd, "Error"))
    BY <2>2, TextGood DEF SameLife
  <2> QED BY <1>1, <2>1, <2>3, FilesKept, OnMain DEF BakeEmpty, MainMoves, SameLife
<1>2. CASE BakeLookup(n)
  <2>1. PICK nd \in {Reset(node[n]), Validated(Reset(node[n]), job[n])} : SetNode(n, nd)
    BY <1>2 DEF BakeLookup
  <2>2. Good(nd) /\ SameLife(node[n], nd)
    BY ResetValidated
  <2>3. nd.alive /\ \E at \in {"cached", "launch"} : mainPc' = InMain(at, n)
    BY <1>2, <2>2 DEF BakeLookup, Alive, SameLife
  <2>4. UNCHANGED <<job, files>>
    BY <1>2 DEF BakeLookup
  <2> QED BY <2>1, <2>2, <2>3, <2>4, FilesKept, OnMain DEF MainMoves
<1> QED BY <1>1, <1>2

LEMMA BakeCachedInv == ASSUME IInv, NEW n \in Nodes, BakeCached(n) PROVE IInv'
<1> DEFINE k == KeyOf(node[n])
           told == SetStatus(node[n], "Already cached")
           keyed == [told EXCEPT !.current = k]
           new == TryLoad(keyed, k)
<1>1. SetNode(n, new) /\ UNCHANGED <<job, files>> /\ mainPc' = InMain("ready", None)
  BY DEF BakeCached
<1>2. k \in Keys /\ Good(told) /\ SameLife(node[n], told)
  BY Facts, TextGood
<1> HIDE DEF k, told
<1>3. Good(keyed) /\ SameLife(node[n], keyed)
  BY <1>2, CurrentSet DEF SameLife
<1> HIDE DEF keyed
<1>4. Good(new) /\ SameLife(node[n], new)
  BY <1>1, <1>2, <1>3, FilesKept, TryLoadGood DEF SameLife
<1> HIDE DEF new
<1> QED BY <1>1, <1>4, FilesKept, OnMain DEF MainMoves

LEMMA BakeInputsInvalidInv == ASSUME IInv, NEW n \in Nodes, BakeInputsInvalid(n) PROVE IInv'
<1>1. PICK nd \in {SetStatus(node[n], "Error"), node[n]} : SetNode(n, nd)
  BY DEF BakeInputsInvalid
<1>2. Good(nd) /\ SameLife(node[n], nd)
  BY Facts, TextGood DEF SameLife
<1> QED BY <1>1, <1>2, FilesKept, OnMain DEF BakeInputsInvalid, MainMoves

(* The session is there from the launch on.                                *)
LEMMA LaunchGood ==
  ASSUME NEW nd, Good(nd)
  PROVE  LET new == [Launched(nd) EXCEPT !.worker = "Running", !.cancel = FALSE] IN
           Good(new) /\ new.alive = nd.alive /\ new.session # None
<1> DEFINE told == SetStatus(nd, "Cooking")
           s == SessionFor(nd)
           k == KeyOf(nd)
           new == [Launched(nd) EXCEPT !.worker = "Running", !.cancel = FALSE]
<1>1. Good(told) /\ SameLife(nd, told) /\ k \in Keys
  BY TextGood, KeyType DEF Good
<1>2. s \in Sessions
  <2>1. nd.session \in Sessions \cup {None} /\ nd.model \in Models
    BY DEF Good, NodeRecords
  <2> QED BY <2>1 DEF SessionFor, Sessions
<1>3. new = [told EXCEPT !.session = s, !.baking = k, !.current = k,
                         !.worker = "Running", !.cancel = FALSE]
  BY DEF Launched
<1> HIDE DEF new, told, s, k
<1>4. /\ new \in NodeRecords /\ new.alive = told.alive /\ new.session = s
      /\ new.loaded = told.loaded /\ new.pixels = told.pixels
  <2>1. told \in NodeRecords
    BY <1>1 DEF Good
  <2>2. new \in NodeRecords
    BY <1>1, <1>2, <1>3, <2>1 DEF NodeRecords
  <2> QED BY <1>3, <2>1, <2>2 DEF NodeRecords
<1>5. Good(new) /\ new.alive = nd.alive /\ new.session # None
  BY <1>1, <1>2, <1>4, NoneIsNothing DEF Good, BufferInv, SameLife
<1> QED BY <1>5 DEF new

LEMMA FirstJob ==
  ASSUME NEW k \in Keys
  PROVE  LET j == [NoJob EXCEPT !.pc = "prepare", !.key = k] IN
           j \in JobRecords /\ j.key \in Keys /\ j.pc = "prepare"
  BY NoJobType DEF JobRecords

LEMMA BakeLaunchInv ==
  ASSUME IInv, NEW n \in Nodes, BakeLaunch(n) \/ BakeLaunchThrows(n)
  PROVE  IInv'
<1> DEFINE new == [Launched(node[n]) EXCEPT !.worker = "Running", !.cancel = FALSE]
           j == [NoJob EXCEPT !.pc = "prepare", !.key = KeyOf(Launched(node[n]))]
<1>1. SetNode(n, new) /\ UNCHANGED files /\ mainPc' = InMain("ready", None)
  BY DEF BakeLaunch, BakeLaunchThrows
<1>2. Good(new) /\ new.alive = node[n].alive /\ new.session # None
  BY Facts, LaunchGood
<1>3. new.alive
  <2>1. mainPc = InMain("launch", n)
    BY DEF BakeLaunch, BakeLaunchThrows
  <2> QED BY <1>2, <2>1 DEF IInv, MainInv, InMain
<1>4. j \in JobRecords /\ j.key \in Keys /\ j.pc = "prepare"
  <2>1. Launched(node[n]).input = node[n].input /\ Launched(node[n]).model = node[n].model
    BY Facts DEF Launched, SetStatus, SetStatusAt, NodeRecords
  <2>2. KeyOf(Launched(node[n])) \in Keys
    BY <2>1, Facts DEF KeyOf
  <2> QED BY <2>2, FirstJob
<1> HIDE DEF new
<1>5. CASE BakeLaunch(n)
  <2>1. job' = [job EXCEPT ![n] = j]
    BY <1>5 DEF BakeLaunch
  <2> HIDE DEF j
  <2>2. /\ job' \in [Nodes -> JobRecords] /\ job'[n] = j
        /\ \A o \in Nodes \ {n} : job'[o] = job[o]
    BY <1>4, <2>1 DEF IInv
  <2>3. JobInv(new, job'[n]) /\ \A o \in Nodes \ {n} : JobInv(node[o], job'[o])
    BY <1>2, <1>3, <1>4, <2>2 DEF IInv, JobInv
  <2> QED BY <1>1, <1>2, <2>2, <2>3, FilesKept, NodeMoved DEF MainMoves
<1>6. CASE BakeLaunchThrows(n)
  <2>1. job' = job
    BY <1>6 DEF BakeLaunchThrows
  <2>2. job' \in [Nodes -> JobRecords] /\ \A o \in Nodes : JobInv(node[o], job'[o])
    BY <2>1 DEF IInv
  <2>3. JobInv(new, job'[n])
    BY <1>2, <1>3, <2>2 DEF JobInv
  <2> QED BY <1>1, <1>2, <2>2, <2>3, FilesKept, NodeMoved DEF MainMoves
<1> QED BY <1>5, <1>6

-----------------------------------------------------------------------------
(* The lambda *)

(* What the end of AiWorker::run stores in the node *)
LEMMA OutcomeGood ==
  ASSUME NEW nd, Good(nd), NEW outcome \in {"Done", "Error", "Cancelled"}
  PROVE  LET new == [nd EXCEPT !.worker = outcome] IN Good(new) /\ SameLife(nd, new)
  BY DEF Good, BufferInv, NodeRecords, SameLife

LEMMA EndJobInv ==
  ASSUME IInv, NEW n \in Nodes, NEW outcome \in {"Done", "Error", "Cancelled"},
         EndJob(n, outcome), UNCHANGED <<files, mainPc>>
  PROVE  IInv'
<1> DEFINE new == [node[n] EXCEPT !.worker = outcome]
<1>1. Good(new) /\ new.alive = node[n].alive
  BY Facts, OutcomeGood DEF SameLife
<1>2. SetNode(n, new) /\ SetJob(n, NoJob)
  BY DEF EndJob
<1>3. JobInv(new, NoJob) /\ NoJob \in JobRecords
  BY NoJobType DEF JobInv
<1> HIDE DEF new
<1> QED BY <1>1, <1>2, <1>3, FilesKept, OnWorker

LEMMA JobEndsInv ==
  ASSUME IInv, NEW n \in Nodes,
         \/ JobThrowsCancelled(n) \/ JobSessionError(n) \/ JobInferenceFails(n)
         \/ JobWriteFails(n) \/ JobReturn(n)
  PROVE  IInv'
  BY EndJobInv DEF JobThrowsCancelled, JobSessionError, JobInferenceFails, JobWriteFails, JobReturn

(* The lambda goes on to its next step, with the network it ran if it has  *)
(* not known it before.                                                    *)
LEMMA JobMovedInv ==
  ASSUME IInv, NEW n \in Nodes, job[n].pc # "none",
         NEW pc \in {"session", "inferred", "composited", "rename", "return"},
         NEW m \in Models \cup {None},
         pc \in {"inferred", "composited", "rename", "return"} => m \in Models,
         SetJob(n, [job[n] EXCEPT !.pc = pc, !.model = m]),
         UNCHANGED <<node, mainPc>>, FilesInv'
  PROVE  IInv'
<1> DEFINE j == [job[n] EXCEPT !.pc = pc, !.model = m]
<1>1. job[n] \in JobRecords /\ JobInv(node[n], job[n]) /\ Good(node[n])
  BY Facts
<1>2. j \in JobRecords /\ j.pc = pc /\ j.model = m /\ j.key = job[n].key
  BY <1>1 DEF JobRecords
<1>3. SetJob(n, j)
  OBVIOUS
<1> HIDE DEF j
<1>4. JobInv(node[n], j)
  BY <1>1, <1>2 DEF JobInv
<1> QED BY <1>1, <1>2, <1>3, <1>4, NodeKept, OnWorker

LEMMA SameModel ==
  ASSUME NEW j \in JobRecords, NEW pc
  PROVE  [j EXCEPT !.pc = pc] = [j EXCEPT !.pc = pc, !.model = j.model]
  BY DEF JobRecords

LEMMA JobStepsInv ==
  ASSUME IInv, NEW n \in Nodes, JobPrepared(n) \/ JobInfer(n) \/ JobComposited(n)
  PROVE  IInv'
<1>1. /\ job[n] \in JobRecords /\ JobInv(node[n], job[n]) /\ node[n] \in NodeRecords
      /\ job[n].model \in Models \cup {None}
  BY Facts DEF JobRecords
<1>2. CASE JobPrepared(n)
  <2>1. /\ job[n].pc # "none" /\ UNCHANGED <<node, mainPc, files>>
        /\ SetJob(n, [job[n] EXCEPT !.pc = "session", !.model = job[n].model])
    BY <1>1, <1>2, SameModel DEF JobPrepared
  <2> QED BY <1>1, <2>1, FilesKept, JobMovedInv
<1>3. CASE JobInfer(n)
  <2>1. node[n].session.model \in Models
    BY <1>1, <1>3 DEF JobInfer, JobInv, NodeRecords, Sessions
  <2>2. /\ job[n].pc # "none" /\ UNCHANGED <<node, mainPc, files>>
        /\ SetJob(n, [job[n] EXCEPT !.pc = "inferred", !.model = node[n].session.model])
    BY <1>3 DEF JobInfer
  <2> QED BY <2>1, <2>2, FilesKept, JobMovedInv
<1>4. CASE JobComposited(n)
  <2>1. /\ job[n].pc = "inferred" /\ UNCHANGED <<node, mainPc, files>>
        /\ SetJob(n, [job[n] EXCEPT !.pc = "composited", !.model = job[n].model])
    BY <1>1, <1>4, SameModel DEF JobComposited
  <2>2. job[n].model \in Models
    BY <1>1, <2>1 DEF JobInv
  <2> QED BY <2>1, <2>2, FilesKept, JobMovedInv
<1> QED BY <1>2, <1>3, <1>4

LEMMA JobInitSessionInv == ASSUME IInv, NEW n \in Nodes, JobInitSession(n) PROVE IInv'
<1>1. PICK result \in {"ok", "failed"} : SetNode(n, [node[n] EXCEPT !.session.init = result])
  BY DEF JobInitSession
<1>2. node[n] \in NodeRecords /\ Good(node[n]) /\ JobInv(node[n], job[n]) /\ job[n] \in JobRecords
  BY Facts
<1>3. node[n].session \in Sessions
  BY <1>2 DEF NodeRecords, JobInitSession, JobInv
<1> DEFINE s == [node[n].session EXCEPT !.init = result]
           new == [node[n] EXCEPT !.session = s]
<1>4. s \in Sessions
  BY <1>3 DEF Sessions
<1>5. SetNode(n, new)
  BY <1>1
<1> HIDE DEF s
<1>6. Good(new) /\ new.alive = node[n].alive /\ new.session = s
  BY <1>2, <1>4 DEF Good, BufferInv, NodeRecords
<1> HIDE DEF new
<1>7. JobInv(new, job[n])
  BY <1>2, <1>4, <1>6, NoneIsNothing DEF JobInv
<1>8. SetJob(n, job[n]) /\ UNCHANGED <<files, mainPc>>
  BY DEF JobInitSession, SetJob, IInv
<1> QED BY <1>2, <1>5, <1>6, <1>7, <1>8, FilesKept, OnWorker

LEMMA JobOpenFileInv == ASSUME IInv, NEW n \in Nodes, JobOpenFile(n) PROVE IInv'
<1>1. ASSUME NEW o \in Nodes PROVE job'[o] \in JobRecords /\ JobInv(node[o], job'[o])
  <2>1. job[o] \in JobRecords /\ JobInv(node[o], job[o]) /\ (o = n => job[o].pc = "composited")
    BY Facts DEF JobOpenFile
  <2>2. \/ job'[o] = job[o]
        \/ job'[o] = [job[o] EXCEPT !.shared = TRUE]
        \/ o = n /\ job'[o] = [job[o] EXCEPT !.pc = "write", !.shared = Rivals(n) # {}]
    BY DEF JobOpenFile
  <2> DEFINE shared == Rivals(n) # {}
  <2>3. shared \in BOOLEAN
    OBVIOUS
  <2>4. \/ job'[o] = job[o]
        \/ job'[o] = [job[o] EXCEPT !.shared = TRUE]
        \/ o = n /\ job'[o] = [job[o] EXCEPT !.pc = "write", !.shared = shared]
    BY <2>2
  <2> HIDE DEF shared
  <2>5. /\ job'[o] \in JobRecords /\ job'[o].key = job[o].key /\ job'[o].model = job[o].model
        /\ job'[o].pc = job[o].pc \/ job[o].pc = "composited"
    BY <2>1, <2>3, <2>4 DEF JobRecords
  <2> QED BY <2>1, <2>5 DEF JobInv
<1>2. job' \in [Nodes -> JobRecords]
  <2>1. job' = [o \in Nodes |-> job'[o]]
    BY DEF JobOpenFile
  <2> QED BY <1>1, <2>1
<1>3. Good(node[n]) /\ SetNode(n, node[n]) /\ FilesInv' /\ UNCHANGED mainPc
  BY Facts, FilesKept, NodeKept DEF JobOpenFile
<1> QED BY <1>1, <1>2, <1>3, NodeMoved DEF MainMoves

(* What the lambda writes was computed from the inputs of its key.         *)
LEMMA FileWritten ==
  ASSUME FilesInv, NEW k \in Keys, NEW content,
         content \in {Absent, Unreadable, Torn} \/ (content \in Keys /\ content.input = k.input),
         files' = [files EXCEPT ![k] = content]
  PROVE  FilesInv'
  BY NoneIsNothing DEF FilesInv

LEMMA JobFilesInv ==
  ASSUME IInv, NEW n \in Nodes, JobRemoveOld(n) \/ JobRename(n)
  PROVE  IInv'
<1>1. /\ job[n] \in JobRecords /\ JobInv(node[n], job[n])
      /\ job[n].pc \in {"write", "rename"} /\ UNCHANGED <<node, mainPc>>
  BY Facts DEF JobRemoveOld, JobRename
<1>2. job[n].key \in Keys /\ job[n].model \in Models /\ FilesInv
  BY <1>1 DEF JobInv, IInv
<1>3. CASE JobRemoveOld(n)
  <2>1. files' = [files EXCEPT ![job[n].key] = Absent]
    BY <1>3 DEF JobRemoveOld
  <2>2. FilesInv'
    BY <1>2, <2>1, FileWritten
  <2>3. SetJob(n, [job[n] EXCEPT !.pc = "rename", !.model = job[n].model])
    BY <1>1, <1>3, SameModel DEF JobRemoveOld
  <2> QED BY <1>1, <1>2, <2>2, <2>3, JobMovedInv
<1>4. CASE JobRename(n)
  <2>1. PICK content \in {Unreadable, Torn} \cup {Baked(o) : o \in Rivals(n) \cup {n}} :
          files' = [files EXCEPT ![job[n].key] = content]
    BY <1>4 DEF JobRename, Renamed
  <2>2. ASSUME NEW o \in Rivals(n) \cup {n}
        PROVE  Baked(o) \in Keys /\ Baked(o).input = job[n].key.input
    <3>1. o \in Nodes /\ job[o].key = job[n].key /\ job[o].pc \in {"write", "rename"}
      BY <1>1 DEF Rivals
    <3>2. job[o].model \in Models
      BY <3>1, Facts DEF JobInv
    <3> QED BY <1>2, <3>1, <3>2 DEF Baked, Keys
  <2>3. FilesInv'
    BY <1>2, <2>1, <2>2, FileWritten
  <2>4. SetJob(n, [job[n] EXCEPT !.pc = "return", !.model = job[n].model])
    BY <1>1, <1>4, SameModel DEF JobRename
  <2> QED BY <1>1, <1>2, <2>3, <2>4, JobMovedInv
<1> QED BY <1>3, <1>4

LEMMA JobStepInv == ASSUME IInv, NEW n \in Nodes, JobStep(n) PROVE IInv'
  BY JobEndsInv, JobStepsInv, JobInitSessionInv, JobOpenFileInv, JobFilesInv DEF JobStep

-----------------------------------------------------------------------------
(* The end of a node, and of the process *)

LEMMA DeleteInv ==
  ASSUME IInv, NEW n \in Nodes, DeleteNode(n) \/ DeleteJoined(n)
  PROVE  IInv'
<1>1. CASE DeleteNode(n)
  <2> DEFINE new == [node[n] EXCEPT !.cancel = TRUE]
  <2>1. Good(new) /\ SameLife(node[n], new) /\ new.alive
    BY <1>1, Facts, CancelSet DEF SameLife, DeleteNode, Alive
  <2>2. SetNode(n, new) /\ UNCHANGED <<job, files>> /\ mainPc' = InMain("delete", n)
    BY <1>1 DEF DeleteNode
  <2> HIDE DEF new
  <2> QED BY <2>1, <2>2, FilesKept, OnMain DEF MainMoves
<1>2. CASE DeleteJoined(n)
  <2> DEFINE new == [Fresh(node[n]) EXCEPT !.alive = FALSE]
  <2>1. Good(new) /\ SetNode(n, new) /\ job' = job /\ mainPc' = InMain("ready", None)
        /\ job[n] = NoJob /\ UNCHANGED files
    BY <1>2, Facts, FreshGood DEF DeleteJoined
  <2> HIDE DEF new
  <2>2. /\ job' \in [Nodes -> JobRecords] /\ JobInv(new, job'[n])
        /\ \A o \in Nodes \ {n} : JobInv(node[o], job'[o])
    BY <2>1, NoJobType DEF IInv, JobInv
  <2> QED BY <2>1, <2>2, FilesKept, NodeMoved DEF MainMoves
<1> QED BY <1>1, <1>2

LEMMA RestartInv == ASSUME IInv, Restart PROVE IInv'
<1>1. \A n \in Nodes : Good(node'[n]) /\ job'[n] = NoJob
  BY Facts, FreshGood DEF Restart
<1>2. node' \in [Nodes -> NodeRecords]
  <2>1. node' = [n \in Nodes |-> node'[n]]
    BY DEF Restart
  <2> QED BY <1>1, <2>1 DEF Good
<1>3. job' \in [Nodes -> JobRecords] /\ \A n \in Nodes : JobInv(node'[n], job'[n])
  BY <1>1, NoJobType DEF Restart, JobInv
<1>4. mainPc' = InMain("ready", None) /\ UNCHANGED files
  BY DEF Restart
<1>5. MainInv'
  BY <1>4 DEF MainInv, InMain
<1> QED BY <1>1, <1>2, <1>3, <1>4, <1>5, FilesKept DEF IInv

-----------------------------------------------------------------------------
LEMMA InitInv == Init => IInv
<1> SUFFICES ASSUME Init PROVE IInv
  OBVIOUS
<1>1. ASSUME NEW n \in Nodes PROVE Good(node[n])
  <2>1. node[n] \in [alive : {TRUE}, input : Inputs, model : Models, status : {"other"},
                     percent : {0}, dirty : {TRUE}, current : {None}, loaded : {None},
                     pixels : {None}, baking : {None}, session : {None}, worker : {"Idle"},
                     cancel : {FALSE}]
    BY DEF Init
  <2>2. node[n].loaded = None
    BY <2>1
  <2>3. 0 \in 0 .. 100
    OBVIOUS
  <2>4. node[n] \in NodeRecords
    BY <2>1, <2>3 DEF NodeRecords
  <2> QED BY <2>2, <2>4 DEF Good, BufferInv
<1>2. node \in [Nodes -> NodeRecords]
  <2>1. node = [n \in Nodes |-> node[n]]
    BY DEF Init
  <2> QED BY <1>1, <2>1 DEF Good
<1>3. job \in [Nodes -> JobRecords] /\ \A n \in Nodes : JobInv(node[n], job[n])
  BY NoJobType DEF Init, JobInv
<1>4. FilesInv
  BY NoneIsNothing DEF Init, FilesInv
<1>5. MainInv
  BY DEF Init, MainInv, InMain
<1> QED BY <1>1, <1>2, <1>3, <1>4, <1>5 DEF IInv

LEMMA NextInv == IInv /\ [Next]_vars => IInv'
<1> SUFFICES ASSUME IInv, [Next]_vars PROVE IInv'
  OBVIOUS
<1>1. ASSUME NEW n \in Nodes, UserStep(n) \/ HandlerStep(n) PROVE IInv'
  BY <1>1, EditInv, ValidatesInv, ClearInv, BakeRefusedInv, BakeLookupInv, BakeCachedInv,
     BakeInputsInvalidInv, BakeLaunchInv, DeleteInv DEF UserStep, HandlerStep
<1>2. CASE UNCHANGED vars
  BY <1>2 DEF vars, IInv, FilesInv, MainInv
<1> QED BY <1>1, <1>2, ValidatesInv, JobStepInv, RestartInv DEF Next

LEMMA Invariance == Spec => []IInv
  BY InitInv, NextInv, PTL DEF Spec

(* The fields keep to their ranges for any number of nodes.                *)
THEOREM Types == Spec => []TypeOK
<1>1. IInv => TypeOK
  BY DEF IInv, FilesInv, MainInv, TypeOK, NodeRecords, JobRecords
<1> QED BY <1>1, Invariance, PTL

(* What engine() serves was computed from the inputs of the last           *)
(* _validate, whoever baked it and whatever happened to node, file and     *)
(* process in between: the buffer follows its key, the file its name.      *)
THEOREM ServedInputIsOwn == Spec => []ServesOwnInput
<1>1. IInv => ServesOwnInput
  <2> SUFFICES ASSUME IInv, NEW n \in Nodes, Serves(node[n]), node[n].pixels # Torn
               PROVE  node[n].pixels.input = node[n].current.input
    BY DEF ServesOwnInput
  <2>1. BufferInv(node[n])
    BY DEF IInv, Good
  <2> QED BY <2>1 DEF BufferInv, Serves
<1> QED BY <1>1, Invariance, PTL

(* The lambda never outlives the node and the session it points to.        *)
THEOREM SessionOutlives == Spec => []SessionOutlivesJob
<1>1. IInv => SessionOutlivesJob
  BY DEF IInv, JobInv, SessionOutlivesJob, Alive
<1> QED BY <1>1, Invariance, PTL

-----------------------------------------------------------------------------
(* What may become of a finished result *)

KeepsResult(n) ==
  /\ Taken(n) => \/ ServedNow(n)
                 \/ node'[n].status = "other"
                 \/ mainPc' \in {InMain("cached", n), InMain("launch", n)}
  /\ mainPc = InMain("cached", n) /\ mainPc' # mainPc => ServedNow(n)

LEMMA ResultFrame ==
  ASSUME IInv, NEW n \in Nodes, NEW nd, SetNode(n, nd), KeepsResult(n),
         mainPc' = mainPc \/ mainPc.at # "cached" \/ mainPc.node = n
  PROVE  \A o \in Nodes : KeepsResult(o)
<1>1. \A o \in Nodes \ {n} : node'[o] = node[o]
  BY DEF IInv, SetNode
<1>2. \A o \in Nodes \ {n} : ~ (mainPc = InMain("cached", o) /\ mainPc' # mainPc)
  BY DEF InMain
<1> QED BY <1>1, <1>2 DEF KeepsResult, Taken

(* A step that takes no result, or reports something else *)
LEMMA NotTaken ==
  ASSUME IInv, NEW n \in Nodes, NEW nd, SetNode(n, nd),
         mainPc' = mainPc \/ mainPc.at # "cached",
         \/ nd.status = "other"
         \/ nd.worker = node[n].worker \/ nd.worker # "Idle" \/ ~ nd.alive
  PROVE  \A o \in Nodes : KeepsResult(o)
<1>1. node'[n] = nd
  BY DEF IInv, SetNode
<1>2. KeepsResult(n)
  BY <1>1 DEF KeepsResult, Taken, InMain
<1> QED BY <1>2, ResultFrame

LEMMA StatusOther ==
  ASSUME NEW nd, Good(nd), NEW text, text \notin {"Cooking", "Ready"}
  PROVE  SetStatus(nd, text).status = "other"
  BY TextGood

(* A bake that does not start, and one that does *)
LEMMA BakeServes ==
  ASSUME IInv, NEW n \in Nodes,
         \/ BakeRunning(n) \/ BakeNoInput(n) \/ BakeEmpty(n) \/ BakeLookup(n)
         \/ BakeCached(n) \/ BakeInputsInvalid(n)
         \/ BakeLaunch(n) \/ BakeLaunchThrows(n)
  PROVE  \A o \in Nodes : KeepsResult(o)
<1>1. CASE BakeRunning(n)
  <2>1. mainPc.at # "cached"
    BY <1>1 DEF BakeRunning, Ready
  <2> QED BY <1>1, <2>1, Facts, StatusOther, NotTaken DEF BakeRunning
<1>2. CASE BakeNoInput(n)
  <2>0. mainPc.at # "cached"
    BY <1>2 DEF BakeNoInput, Ready
  <2>1. Good(Reset(node[n])) /\ SetNode(n, SetStatus(Reset(node[n]), "Error"))
    BY <1>2, Facts, ResetGood DEF BakeNoInput
  <2> QED BY <2>0, <2>1, StatusOther, NotTaken
<1>3. CASE BakeEmpty(n)
  <2>0. mainPc.at # "cached"
    BY <1>3 DEF BakeEmpty, Ready
  <2>1. PICK nd \in {Reset(node[n]), Validated(Reset(node[n]), job[n])} :
          SetNode(n, SetStatus(nd, "Error"))
    BY <1>3 DEF BakeEmpty
  <2>2. Good(nd)
    BY ResetValidated
  <2> QED BY <2>0, <2>1, <2>2, StatusOther, NotTaken
<1>4. CASE BakeLookup(n)
  <2>1. PICK nd \in {Reset(node[n]), Validated(Reset(node[n]), job[n])} : SetNode(n, nd)
    BY <1>4 DEF BakeLookup
  <2>2. /\ mainPc.at = "ready"
        /\ mainPc' \in {InMain("cached", n), InMain("launch", n)}
    BY <1>4 DEF BakeLookup, Ready
  <2>3. KeepsResult(n)
    BY <2>2 DEF KeepsResult, InMain
  <2> QED BY <2>1, <2>2, <2>3, ResultFrame
<1>5. CASE BakeCached(n)
  <2> DEFINE k == KeyOf(node[n])
             told == SetStatus(node[n], "Already cached")
             keyed == [told EXCEPT !.current = k]
             new == TryLoad(keyed, k)
  <2>1. SetNode(n, new) /\ UNCHANGED files
    BY <1>5 DEF BakeCached
  <2>2. /\ k \in Keys /\ Good(told) /\ told.worker = node[n].worker
        /\ mainPc = InMain("cached", n)
    BY <1>5, Facts, TextGood DEF BakeCached
  <2> HIDE DEF told
  <2>3. Good(keyed) /\ keyed.worker = told.worker /\ keyed.current = k
    BY <2>2, CurrentSet DEF Good, NodeRecords
  <2> HIDE DEF k, keyed
  <2>4. /\ new.worker = node[n].worker /\ new.current = k
        /\ Readable(k) => new.loaded = k
    BY <2>1, <2>2, <2>3, FilesKept, TryLoadGood
  <2> HIDE DEF new
  <2>5. node'[n] = new
    BY <2>1 DEF IInv, SetNode
  <2>6. KeepsResult(n)
    BY <2>4, <2>5 DEF KeepsResult, Taken, ServedNow, k
  <2> QED BY <2>1, <2>2, <2>6, ResultFrame DEF InMain
<1>6. CASE BakeInputsInvalid(n)
  <2>1. mainPc.at # "cached"
    BY <1>6 DEF BakeInputsInvalid, InMain
  <2> QED BY <1>6, <2>1, Facts, StatusOther, NotTaken DEF BakeInputsInvalid
<1>7. CASE BakeLaunch(n) \/ BakeLaunchThrows(n)
  <2> DEFINE new == [Launched(node[n]) EXCEPT !.worker = "Running", !.cancel = FALSE]
  <2>1. SetNode(n, new)
    BY <1>7 DEF BakeLaunch, BakeLaunchThrows
  <2>2. new \in NodeRecords
    BY Facts, LaunchGood DEF Good
  <2>3. new.worker = "Running"
    BY Facts DEF Launched, SetStatus, SetStatusAt, NodeRecords
  <2> HIDE DEF new
  <2>4. mainPc.at # "cached"
    BY <1>7 DEF BakeLaunch, BakeLaunchThrows, InMain
  <2> QED BY <2>1, <2>3, <2>4, NotTaken
<1> QED BY <1>1, <1>2, <1>3, <1>4, <1>5, <1>6, <1>7

LEMMA NodeServes ==
  ASSUME IInv, NEW n \in Nodes,
         \/ Edit(n) \/ ViewerValidates(n) \/ TimerPoll(n)
         \/ ClearCache(n) \/ ClearThrows(n) \/ ClearNoDirectory(n)
         \/ DeleteNode(n) \/ DeleteJoined(n)
  PROVE  \A o \in Nodes : KeepsResult(o)
<1>0. mainPc.at # "cached"
  <2>1. CASE DeleteJoined(n)
    BY <2>1 DEF DeleteJoined, InMain
  <2>2. CASE ~ DeleteJoined(n)
    <3>1. Ready
      BY <2>2 DEF Edit, ViewerValidates, TimerPoll, ClearCache, ClearThrows, ClearNoDirectory, DeleteNode
    <3> QED BY <3>1 DEF Ready
  <2> QED BY <2>1, <2>2
<1>1. CASE Edit(n)
  <2>1. PICK k \in Keys : SetNode(n, [node[n] EXCEPT !.input = k.input, !.model = k.model, !.dirty = TRUE])
    BY <1>1 DEF Edit
  <2>2. [node[n] EXCEPT !.input = k.input, !.model = k.model, !.dirty = TRUE].worker = node[n].worker
    BY Facts DEF NodeRecords
  <2> QED BY <2>1, <2>2, <1>0, NotTaken
<1>2. CASE ViewerValidates(n) \/ TimerPoll(n)
  <2> DEFINE new == Validated(node[n], job[n])
  <2>1. SetNode(n, new) /\ UNCHANGED files
    BY <1>2 DEF ViewerValidates, TimerPoll
  <2>2. /\ new.current = KeyOf(node[n])
        /\ Readable(KeyOf(node[n])) => new.loaded = KeyOf(node[n])
    BY <2>1, Facts, FilesKept, ValidatedGood
  <2> HIDE DEF new
  <2>3. node'[n] = new
    BY <2>1 DEF IInv, SetNode
  <2>4. KeepsResult(n)
    BY <1>0, <2>2, <2>3 DEF KeepsResult, ServedNow, InMain
  <2> QED BY <1>0, <2>1, <2>4, ResultFrame
<1>3. CASE ClearCache(n)
  <2>1. Good(Dropped(node[n])) /\ SetNode(n, SetStatus(Dropped(node[n]), "Cleared"))
    BY <1>3, Facts, DroppedGood DEF ClearCache
  <2> QED BY <2>1, StatusOther, <1>0, NotTaken
<1>4. CASE ClearNoDirectory(n)
  BY <1>4, Facts, StatusOther, <1>0, NotTaken DEF ClearNoDirectory
<1>5. CASE DeleteNode(n)
  <2>1. [node[n] EXCEPT !.cancel = TRUE].worker = node[n].worker
    BY Facts DEF NodeRecords
  <2> QED BY <1>5, <2>1, <1>0, NotTaken DEF DeleteNode
<1>6. CASE DeleteJoined(n)
  <2> DEFINE fresh == Fresh(node[n])
  <2>1. fresh \in NodeRecords
    BY Facts, FreshGood DEF Good
  <2>2. SetNode(n, [fresh EXCEPT !.alive = FALSE])
    BY <1>6 DEF DeleteJoined
  <2> HIDE DEF fresh
  <2>3. ~ [fresh EXCEPT !.alive = FALSE].alive
    BY <2>1 DEF NodeRecords
  <2> QED BY <1>0, <2>2, <2>3, NotTaken
<1>7. CASE ClearThrows(n)
  BY <1>0, <1>7 DEF ClearThrows, KeepsResult, Taken, InMain
<1> QED BY <1>1, <1>2, <1>3, <1>4, <1>5, <1>6, <1>7

LEMMA JobServes ==
  ASSUME IInv, NEW n \in Nodes, JobStep(n)
  PROVE  \A o \in Nodes : KeepsResult(o)
<1>0. mainPc' = mainPc
  BY DEF JobStep, JobThrowsCancelled, JobPrepared, JobInitSession, JobSessionError, JobInfer,
     JobInferenceFails, JobComposited, JobOpenFile, JobRemoveOld, JobWriteFails, JobRename, JobReturn
<1>1. ASSUME NEW outcome \in {"Done", "Error", "Cancelled"}, EndJob(n, outcome)
      PROVE  \A o \in Nodes : KeepsResult(o)
  <2>1. [node[n] EXCEPT !.worker = outcome].worker # "Idle"
    BY Facts DEF NodeRecords
  <2> QED BY <1>1, <2>1, <1>0, NotTaken DEF EndJob, SetNode
<1>2. CASE JobInitSession(n)
  <2>1. PICK result \in {"ok", "failed"} : SetNode(n, [node[n] EXCEPT !.session.init = result])
    BY <1>2 DEF JobInitSession
  <2>2. [node[n] EXCEPT !.session.init = result].worker = node[n].worker
    BY Facts DEF NodeRecords
  <2> QED BY <2>1, <2>2, <1>0, NotTaken
<1>3. ASSUME node' = node PROVE \A o \in Nodes : KeepsResult(o)
  BY <1>0, <1>3 DEF KeepsResult, Taken
<1> QED
  BY <1>1, <1>2, <1>3 DEF JobStep, JobThrowsCancelled, JobPrepared, JobSessionError, JobInfer,
     JobInferenceFails, JobComposited, JobOpenFile, JobRemoveOld, JobWriteFails, JobRename, JobReturn

(* A finished result is not taken off the worker and forgotten: a          *)
(* _validate that takes it ends with the file of the current knobs loaded, *)
(* a press of Bake that takes it says an error or goes on to look for that *)
(* file, and ends with it loaded if it is there and can be read.           *)
THEOREM ConsumedServes == Spec => ConsumedIsServed
<1>1. ASSUME IInv, [Next]_vars PROVE Restart \/ \A n \in Nodes : KeepsResult(n)
  <2>1. ASSUME NEW n \in Nodes, UserStep(n) \/ HandlerStep(n) \/ TimerPoll(n) \/ JobStep(n)
        PROVE  \A o \in Nodes : KeepsResult(o)
    BY <1>1, <2>1, BakeServes, NodeServes, JobServes DEF UserStep, HandlerStep
  <2>2. CASE UNCHANGED vars
    BY <2>2 DEF vars, KeepsResult, Taken
  <2> QED BY <1>1, <2>1, <2>2 DEF Next
<1>2. IInv /\ [Next]_vars =>
        [Restart \/ \A n \in Nodes :
           /\ Taken(n) => \/ ServedNow(n)
                          \/ node'[n].status = "other"
                          \/ mainPc' \in {InMain("cached", n), InMain("launch", n)}
           /\ mainPc = InMain("cached", n) /\ mainPc' # mainPc => ServedNow(n)]_vars
  BY <1>1 DEF KeepsResult
<1> QED BY <1>2, Invariance, PTL DEF Spec, ConsumedIsServed

-----------------------------------------------------------------------------
(* WorkersKeepPhases.  A lambda belongs to a running worker, and between   *)
(* start_bake's reset and its start() the worker is idle.                  *)

LifeInv ==
  /\ \A n \in Nodes : job[n].pc # "none" => node[n].worker = "Running"
  /\ mainPc.at \in {"cached", "launch"} => node[mainPc.node].worker = "Idle"

KeepsPhase(n) == [Worker(n)!Moves]_(Phase(n))

(* A step that leaves alone what a node sees of its worker. *)
LEMMA SamePhase ==
  ASSUME NEW n \in Nodes, node'[n].alive = node[n].alive, node'[n].worker = node[n].worker,
         job'[n].pc = "none" <=> job[n].pc = "none"
  PROVE  KeepsPhase(n)
  BY DEF KeepsPhase, Phase, Alive

(* A result is taken, or nothing happens. *)
LEMMA HandledPhase ==
  ASSUME NEW n \in Nodes, node'[n].alive = node[n].alive, Handled(node[n], node'[n]),
         job'[n].pc = "none" <=> job[n].pc = "none",
         node[n].alive \in BOOLEAN
  PROVE  KeepsPhase(n)
<1>1. CASE node'[n].worker = node[n].worker
  BY <1>1, SamePhase
<1>2. CASE node[n].worker \in {"Done", "Error", "Cancelled"} /\ node'[n].worker = "Idle"
  <2>1. CASE ~ node[n].alive
    BY <2>1 DEF KeepsPhase, Phase, Alive
  <2>2. CASE node[n].alive
    <3>1. Phase(n) \in {"Done", "Error", "Cancelled"} /\ Phase(n)' = "Idle"
      BY <1>2, <2>2 DEF Phase, Alive
    <3> QED BY <3>1 DEF KeepsPhase, Worker!Moves, Worker!Resets, Worker!Ended
  <2> QED BY <2>1, <2>2
<1> QED BY <1>1, <1>2 DEF Handled

LEMMA OthersKept ==
  ASSUME IInv, NEW n \in Nodes, NEW nd, SetNode(n, nd)
  PROVE  node'[n] = nd /\ \A o \in Nodes \ {n} : node'[o] = node[o]
  BY DEF IInv, SetNode

(* Where main goes with a node that start_bake may launch on               *)
LaunchMoves(n, nd) ==
  \/ UNCHANGED mainPc
  \/ \E at \in {"ready", "delete"}, o \in Nodes \cup {None} : mainPc' = InMain(at, o)
  \/ nd.worker = "Idle" /\ \E at \in {"cached", "launch"} : mainPc' = InMain(at, n)

(* A handler on the main thread *)
LEMMA OnMainPhases ==
  ASSUME IInv, LifeInv, NEW n \in Nodes, NEW nd, SetNode(n, nd), UNCHANGED job,
         SameLife(node[n], nd), Handled(node[n], nd), LaunchMoves(n, nd)
  PROVE  LifeInv' /\ \A o \in Nodes : KeepsPhase(o)
<1>1. node'[n] = nd /\ \A o \in Nodes \ {n} : node'[o] = node[o]
  BY OthersKept
<1>2. \A o \in Nodes : node[o].alive \in BOOLEAN
  BY Facts DEF NodeRecords
<1>3. \A o \in Nodes : KeepsPhase(o)
  <2> TAKE o \in Nodes
  <2>1. CASE o = n
    BY <1>1, <1>2, <2>1, HandledPhase DEF SameLife
  <2>2. CASE o # n
    BY <1>1, <2>2, SamePhase
  <2> QED BY <2>1, <2>2
<1>4. \A o \in Nodes : Handled(node[o], node'[o])
  BY <1>1 DEF Handled
<1>5. \A o \in Nodes : job'[o].pc # "none" => node'[o].worker = "Running"
  BY <1>4 DEF LifeInv, Handled
<1>6. mainPc'.at \in {"cached", "launch"} => node'[mainPc'.node].worker = "Idle"
  <2>1. CASE UNCHANGED mainPc
    <3>1. mainPc.at \in {"cached", "launch"} => mainPc.node \in Nodes
      BY DEF IInv, MainInv
    <3> QED BY <1>4, <2>1, <3>1 DEF LifeInv, Handled
  <2>2. CASE \E at \in {"ready", "delete"}, o \in Nodes \cup {None} : mainPc' = InMain(at, o)
    BY <2>2 DEF InMain
  <2>3. CASE nd.worker = "Idle" /\ \E at \in {"cached", "launch"} : mainPc' = InMain(at, n)
    BY <1>1, <2>3 DEF InMain
  <2> QED BY <2>1, <2>2, <2>3 DEF LaunchMoves
<1> QED BY <1>3, <1>5, <1>6 DEF LifeInv

LEMMA MainPhases ==
  ASSUME IInv, LifeInv, NEW n \in Nodes,
         \/ Edit(n) \/ ViewerValidates(n) \/ TimerPoll(n)
         \/ ClearCache(n) \/ ClearThrows(n) \/ ClearNoDirectory(n) \/ DeleteNode(n)
         \/ BakeRunning(n) \/ BakeNoInput(n) \/ BakeEmpty(n) \/ BakeLookup(n)
         \/ BakeCached(n) \/ BakeInputsInvalid(n)
  PROVE  LifeInv' /\ \A o \in Nodes : KeepsPhase(o)
<1> USE DEF LaunchMoves
<1>1. CASE Edit(n)
  <2>1. PICK k \in Keys : SetNode(n, [node[n] EXCEPT !.input = k.input, !.model = k.model, !.dirty = TRUE])
    BY <1>1 DEF Edit
  <2> DEFINE new == [node[n] EXCEPT !.input = k.input, !.model = k.model, !.dirty = TRUE]
  <2>2. SameLife(node[n], new) /\ Handled(node[n], new)
    BY Facts DEF NodeRecords, SameLife, Handled
  <2> HIDE DEF new
  <2> QED BY <1>1, <2>1, <2>2, OnMainPhases DEF Edit, new
<1>2. CASE ViewerValidates(n) \/ TimerPoll(n)
  <2> DEFINE new == Validated(node[n], job[n])
  <2>1. SetNode(n, new) /\ UNCHANGED <<job, files, mainPc>>
    BY <1>2 DEF ViewerValidates, TimerPoll
  <2>2. SameLife(node[n], new) /\ Handled(node[n], new)
    BY <2>1, Facts, FilesKept, ValidatedGood
  <2> HIDE DEF new
  <2> QED BY <2>1, <2>2, OnMainPhases
<1>3. CASE ClearCache(n)
  <2> DEFINE dropped == Dropped(node[n])
             new == SetStatus(dropped, "Cleared")
  <2>1. Good(dropped) /\ SameLife(node[n], dropped) /\ dropped.worker = node[n].worker
    BY Facts, DroppedGood
  <2>2. SetNode(n, new) /\ UNCHANGED <<job, mainPc>>
    BY <1>3 DEF ClearCache
  <2> HIDE DEF dropped
  <2>3. SameLife(node[n], new) /\ Handled(node[n], new)
    BY <2>1, TextGood DEF SameLife, Handled
  <2> HIDE DEF new
  <2> QED BY <2>2, <2>3, OnMainPhases
<1>4. ASSUME NEW text, NEW nd, Good(nd), SameLife(node[n], nd), Handled(node[n], nd),
             SetNode(n, SetStatus(nd, text)), UNCHANGED <<job, mainPc>>
      PROVE  LifeInv' /\ \A o \in Nodes : KeepsPhase(o)
  <2> DEFINE new == SetStatus(nd, text)
  <2>1. SameLife(node[n], new) /\ Handled(node[n], new) /\ SetNode(n, new)
    BY <1>4, TextGood DEF SameLife, Handled
  <2> HIDE DEF new
  <2> QED BY <1>4, <2>1, OnMainPhases
<1>5. Good(node[n]) /\ SameLife(node[n], node[n]) /\ Handled(node[n], node[n])
  BY Facts DEF SameLife, Handled
<1>6. ASSUME NEW nd \in {Reset(node[n]), Validated(Reset(node[n]), job[n])},
             node[n].worker # "Running"
      PROVE  Good(nd) /\ SameLife(node[n], nd) /\ nd.worker = "Idle" /\ Handled(node[n], nd)
  <2>1. node[n].worker \in {"Idle", "Running", "Done", "Error", "Cancelled"}
    BY Facts DEF NodeRecords
  <2> QED BY <1>6, <2>1, ResetValidated DEF Handled
<1>7. CASE ClearNoDirectory(n)
  BY <1>4, <1>5, <1>7 DEF ClearNoDirectory
<1>8. CASE BakeRunning(n)
  BY <1>4, <1>5, <1>8 DEF BakeRunning
<1>9. CASE BakeNoInput(n)
  BY <1>4, <1>6, <1>9 DEF BakeNoInput
<1>10. CASE BakeEmpty(n)
  BY <1>4, <1>6, <1>10 DEF BakeEmpty
<1>11. CASE BakeLookup(n)
  <2>1. PICK nd \in {Reset(node[n]), Validated(Reset(node[n]), job[n])} : SetNode(n, nd)
    BY <1>11 DEF BakeLookup
  <2>2. UNCHANGED job /\ \E at \in {"cached", "launch"} : mainPc' = InMain(at, n)
    BY <1>11 DEF BakeLookup
  <2>3. SameLife(node[n], nd) /\ nd.worker = "Idle" /\ Handled(node[n], nd)
    BY <1>6, <1>11 DEF BakeLookup
  <2> QED BY <2>1, <2>2, <2>3, OnMainPhases
<1>12. CASE BakeCached(n)
  <2> DEFINE k == KeyOf(node[n])
             told == SetStatus(node[n], "Already cached")
             keyed == [told EXCEPT !.current = k]
             new == TryLoad(keyed, k)
  <2>1. SetNode(n, new) /\ UNCHANGED <<job, files>> /\ mainPc' = InMain("ready", None)
    BY <1>12 DEF BakeCached
  <2>2. /\ k \in Keys /\ Good(told) /\ SameLife(node[n], told)
        /\ told.worker = node[n].worker /\ told \in NodeRecords
    BY Facts, TextGood DEF Good
  <2> HIDE DEF k, told
  <2>3. Good(keyed) /\ SameLife(node[n], keyed) /\ keyed.worker = node[n].worker
    <3>1. keyed.worker = told.worker
      BY <2>2 DEF NodeRecords
    <3> QED BY <2>2, <3>1, CurrentSet DEF SameLife
  <2> HIDE DEF keyed
  <2>4. SameLife(node[n], new) /\ Handled(node[n], new)
    BY <2>1, <2>2, <2>3, FilesKept, TryLoadGood DEF SameLife, Handled
  <2> HIDE DEF new
  <2> QED BY <2>1, <2>4, OnMainPhases
<1>13. CASE BakeInputsInvalid(n)
  <2>1. PICK nd \in {SetStatus(node[n], "Error"), node[n]} : SetNode(n, nd)
    BY <1>13 DEF BakeInputsInvalid
  <2>2. SameLife(node[n], nd) /\ Handled(node[n], nd)
    BY <1>5, TextGood DEF Handled
  <2> QED BY <1>13, <2>1, <2>2, OnMainPhases DEF BakeInputsInvalid
<1>14. CASE DeleteNode(n)
  <2> DEFINE new == [node[n] EXCEPT !.cancel = TRUE]
  <2>1. SameLife(node[n], new) /\ Handled(node[n], new)
    BY Facts DEF NodeRecords, SameLife, Handled
  <2>2. SetNode(n, new) /\ UNCHANGED job /\ mainPc' = InMain("delete", n)
    BY <1>14 DEF DeleteNode
  <2> HIDE DEF new
  <2> QED BY <2>1, <2>2, OnMainPhases
<1>15. CASE ClearThrows(n)
  <2>1. UNCHANGED <<node, job, mainPc>>
    BY <1>15 DEF ClearThrows
  <2> QED BY <2>1, SamePhase DEF LifeInv
<1> QED
  BY <1>1, <1>2, <1>3, <1>7, <1>8, <1>9, <1>10, <1>11, <1>12, <1>13, <1>14, <1>15

(* start() finds the worker idle and without a thread.                     *)
LEMMA LaunchPhases ==
  ASSUME IInv, LifeInv, NEW n \in Nodes, BakeLaunch(n) \/ BakeLaunchThrows(n)
  PROVE  LifeInv' /\ \A o \in Nodes : KeepsPhase(o)
<1> DEFINE new == [Launched(node[n]) EXCEPT !.worker = "Running", !.cancel = FALSE]
<1>1. /\ SetNode(n, new) /\ mainPc' = InMain("ready", None) /\ mainPc = InMain("launch", n)
      /\ \A o \in Nodes \ {n} : job'[o] = job[o]
      /\ job'[n] = job[n] \/ job'[n].pc = "prepare"
  <2>1. CASE BakeLaunch(n)
    <3> DEFINE j == [NoJob EXCEPT !.pc = "prepare", !.key = KeyOf(Launched(node[n]))]
    <3>1. j.pc = "prepare" /\ job' = [job EXCEPT ![n] = j]
      BY <2>1 DEF BakeLaunch, NoJob
    <3> HIDE DEF j
    <3>2. job \in [Nodes -> JobRecords]
      BY DEF IInv
    <3>3. job'[n] = j /\ \A o \in Nodes \ {n} : job'[o] = job[o]
      BY <3>1, <3>2
    <3> QED BY <2>1, <3>1, <3>3 DEF BakeLaunch
  <2>2. CASE BakeLaunchThrows(n)
    BY <2>2 DEF BakeLaunchThrows
  <2> QED BY <2>1, <2>2
<1>2. Good(new) /\ new.alive = node[n].alive /\ new.worker = "Running"
  <2>1. Launched(node[n]).worker = node[n].worker /\ DOMAIN Launched(node[n]) = DOMAIN node[n]
    BY Facts DEF Launched, SetStatus, SetStatusAt, NodeRecords
  <2>2. new.worker = "Running"
    BY <2>1, Facts DEF NodeRecords
  <2> HIDE DEF new
  <2> QED BY <2>2, Facts, LaunchGood DEF new
<1> HIDE DEF new
<1>3. node'[n] = new /\ \A o \in Nodes \ {n} : node'[o] = node[o]
  BY <1>1, OthersKept
<1>4. node[n].alive /\ node[n].worker = "Idle" /\ job[n].pc = "none"
  BY <1>1 DEF IInv, MainInv, LifeInv, InMain
<1>5. Phase(n) = "Idle" /\ Phase(n)' \in {"Idle", "Running"}
  BY <1>1, <1>2, <1>3, <1>4 DEF Phase, Alive
<1>6. KeepsPhase(n)
  BY <1>5 DEF KeepsPhase, Worker!Moves, Worker!Starts
<1>7. \A o \in Nodes \ {n} : KeepsPhase(o)
  BY <1>1, <1>3, SamePhase
<1>8. LifeInv'
  BY <1>1, <1>2, <1>3 DEF LifeInv, InMain
<1> QED BY <1>6, <1>7, <1>8

(* A step of the lambda that is not its last *)
LEMMA GoesOnPhases ==
  ASSUME IInv, LifeInv, UNCHANGED mainPc,
         \A o \in Nodes : /\ node'[o].alive = node[o].alive /\ node'[o].worker = node[o].worker
                          /\ job'[o].pc = "none" <=> job[o].pc = "none"
  PROVE  LifeInv' /\ \A o \in Nodes : KeepsPhase(o)
<1>1. mainPc.at \in {"cached", "launch"} => mainPc.node \in Nodes
  BY DEF IInv, MainInv
<1> QED BY <1>1, SamePhase DEF LifeInv

(* run() publishes the outcome, from Running. *)
LEMMA EndPhases ==
  ASSUME IInv, LifeInv, NEW n \in Nodes, job[n].pc # "none",
         NEW outcome \in {"Done", "Error", "Cancelled"}, EndJob(n, outcome), UNCHANGED mainPc
  PROVE  LifeInv' /\ \A o \in Nodes : KeepsPhase(o)
<1> DEFINE new == [node[n] EXCEPT !.worker = outcome]
<1>1. /\ SetNode(n, new) /\ new.worker = outcome /\ new.alive = node[n].alive
      /\ node[n].alive /\ node[n].worker = "Running"
  BY Facts DEF EndJob, NodeRecords, LifeInv, JobInv
<1> HIDE DEF new
<1>2. node'[n] = new /\ \A o \in Nodes \ {n} : node'[o] = node[o]
  BY <1>1, OthersKept
<1>3. job'[n].pc = "none" /\ \A o \in Nodes \ {n} : job'[o] = job[o]
  BY NoJobType DEF EndJob, SetJob, IInv
<1>4. Phase(n) = "Running" /\ Phase(n)' = outcome
  BY <1>1, <1>2, <1>3 DEF Phase, Alive
<1>5. KeepsPhase(n)
  BY <1>4 DEF KeepsPhase, Worker!Moves, Worker!Ends, Worker!Ended
<1>6. \A o \in Nodes \ {n} : KeepsPhase(o)
  BY <1>2, <1>3, SamePhase
<1>7. mainPc.at \in {"cached", "launch"} => mainPc.node \in Nodes \ {n}
  BY <1>1 DEF IInv, MainInv, LifeInv
<1>8. LifeInv'
  BY <1>2, <1>3, <1>7 DEF LifeInv
<1> QED BY <1>5, <1>6, <1>8

LEMMA JobPhases ==
  ASSUME IInv, LifeInv, NEW n \in Nodes, JobStep(n)
  PROVE  LifeInv' /\ \A o \in Nodes : KeepsPhase(o)
<1>1. CASE \/ JobThrowsCancelled(n) \/ JobSessionError(n) \/ JobInferenceFails(n)
           \/ JobWriteFails(n) \/ JobReturn(n)
  BY <1>1, EndPhases DEF JobThrowsCancelled, JobSessionError, JobInferenceFails, JobWriteFails, JobReturn
<1>2. CASE JobInitSession(n)
  <2>1. PICK result \in {"ok", "failed"} : SetNode(n, [node[n] EXCEPT !.session.init = result])
    BY <1>2 DEF JobInitSession
  <2> DEFINE new == [node[n] EXCEPT !.session.init = result]
  <2>2. new.worker = node[n].worker /\ new.alive = node[n].alive
    BY Facts DEF NodeRecords
  <2> HIDE DEF new
  <2>3. node'[n] = new /\ \A o \in Nodes \ {n} : node'[o] = node[o]
    BY <2>1, OthersKept DEF new
  <2> QED BY <1>2, <2>2, <2>3, GoesOnPhases DEF JobInitSession
<1>3. ASSUME NEW pc, pc # "none", job[n].pc # "none", UNCHANGED <<node, mainPc>>,
             NEW j, j.pc = pc, SetJob(n, j)
      PROVE  LifeInv' /\ \A o \in Nodes : KeepsPhase(o)
  <2>1. job'[n] = j /\ \A o \in Nodes \ {n} : job'[o] = job[o]
    BY <1>3 DEF SetJob, IInv
  <2> QED BY <1>3, <2>1, GoesOnPhases
<1>4. job[n] \in JobRecords
  BY Facts
<1>5. CASE JobPrepared(n)
  <2>1. [job[n] EXCEPT !.pc = "session"].pc = "session"
    BY <1>4 DEF JobRecords
  <2> QED BY <1>3, <1>5, <2>1 DEF JobPrepared
<1>6. CASE JobInfer(n)
  <2> DEFINE j == [job[n] EXCEPT !.pc = "inferred", !.model = node[n].session.model]
  <2>1. j.pc = "inferred"
    BY <1>4 DEF JobRecords
  <2>2. SetJob(n, j) /\ UNCHANGED <<node, mainPc>> /\ job[n].pc # "none"
    BY <1>6 DEF JobInfer
  <2> HIDE DEF j
  <2> QED BY <1>3, <2>1, <2>2
<1>7. CASE JobComposited(n)
  <2>1. [job[n] EXCEPT !.pc = "composited"].pc = "composited"
    BY <1>4 DEF JobRecords
  <2> QED BY <1>3, <1>7, <2>1 DEF JobComposited
<1>8. CASE JobOpenFile(n)
  <2>1. ASSUME NEW o \in Nodes PROVE job'[o].pc = "none" <=> job[o].pc = "none"
    <3>1. job[o] \in JobRecords /\ (o = n => job[o].pc = "composited")
      BY <1>8, Facts DEF JobOpenFile
    <3>2. \/ job'[o] = job[o]
          \/ job'[o] = [job[o] EXCEPT !.shared = TRUE]
          \/ o = n /\ job'[o] = [job[o] EXCEPT !.pc = "write", !.shared = Rivals(n) # {}]
      BY <1>8 DEF JobOpenFile
    <3>3. \A b : [job[o] EXCEPT !.shared = b].pc = job[o].pc
                 /\ [job[o] EXCEPT !.pc = "write", !.shared = b].pc = "write"
      BY <3>1 DEF JobRecords
    <3> QED BY <3>1, <3>2, <3>3
  <2> QED BY <1>8, <2>1, GoesOnPhases DEF JobOpenFile
<1>9. CASE JobRemoveOld(n)
  <2>1. [job[n] EXCEPT !.pc = "rename"].pc = "rename"
    BY <1>4 DEF JobRecords
  <2> QED BY <1>3, <1>9, <2>1 DEF JobRemoveOld
<1>10. CASE JobRename(n)
  <2>1. [job[n] EXCEPT !.pc = "return"].pc = "return"
    BY <1>4 DEF JobRecords
  <2> QED BY <1>3, <1>10, <2>1 DEF JobRename
<1> QED BY <1>1, <1>2, <1>5, <1>6, <1>7, <1>8, <1>9, <1>10 DEF JobStep

(* The destructor's join is over: the worker is not running. *)
LEMMA DeletePhases ==
  ASSUME IInv, LifeInv, NEW n \in Nodes, DeleteJoined(n)
  PROVE  LifeInv' /\ \A o \in Nodes : KeepsPhase(o)
<1> DEFINE fresh == Fresh(node[n])
           new == [fresh EXCEPT !.alive = FALSE]
<1>1. /\ SetNode(n, new) /\ job' = job /\ job[n] = NoJob
      /\ mainPc = InMain("delete", n) /\ mainPc' = InMain("ready", None)
  BY DEF DeleteJoined
<1>2. ~ new.alive
  <2>1. Good(fresh)
    BY Facts, FreshGood
  <2> HIDE DEF fresh
  <2> QED BY <2>1, AliveSet
<1> HIDE DEF new
<1>3. node'[n] = new /\ \A o \in Nodes \ {n} : node'[o] = node[o]
  BY <1>1, OthersKept
<1>4. job[n].pc = "none" /\ node[n].alive
  BY <1>1, NoJobType DEF IInv, MainInv, InMain
<1>5. Phase(n) \in {"Idle", "Done", "Error", "Cancelled"} /\ Phase(n)' = "Destroyed"
  <2>1. node[n].worker \in {"Idle", "Running", "Done", "Error", "Cancelled"}
    BY Facts DEF NodeRecords
  <2> QED BY <1>2, <1>3, <1>4, <2>1 DEF Phase, Alive
<1>6. KeepsPhase(n)
  BY <1>5 DEF KeepsPhase, Worker!Moves, Worker!Dies, Worker!Ended
<1>7. \A o \in Nodes \ {n} : KeepsPhase(o)
  BY <1>1, <1>3, SamePhase
<1>8. LifeInv'
  BY <1>1, <1>3, <1>4 DEF LifeInv, InMain
<1> QED BY <1>6, <1>7, <1>8

LEMMA RestartLife == ASSUME Restart PROVE LifeInv'
  BY NoJobType DEF Restart, LifeInv, InMain

LEMMA PhasesStep ==
  ASSUME IInv, LifeInv, [Next]_vars
  PROVE  LifeInv' /\ (Restart \/ \A o \in Nodes : KeepsPhase(o))
<1>1. ASSUME NEW n \in Nodes, UserStep(n) \/ HandlerStep(n) \/ TimerPoll(n) \/ JobStep(n)
      PROVE  LifeInv' /\ \A o \in Nodes : KeepsPhase(o)
  BY <1>1, MainPhases, LaunchPhases, JobPhases, DeletePhases DEF UserStep, HandlerStep
<1>2. CASE Restart
  BY <1>2, RestartLife
<1>3. CASE UNCHANGED vars
  BY <1>3, GoesOnPhases DEF vars
<1> QED BY <1>1, <1>2, <1>3 DEF Next

(* Every node uses its worker as AiWorker allows and as JobLifecycle says  *)
(* it behaves, whatever other nodes, the timer and failures do: no bake is *)
(* started on top of a result or a thread of the one before, and ~AiWorker *)
(* lets the job end.                                                       *)
THEOREM WorkersAreUsedRight == Spec => WorkersKeepPhases
<1>1. Init => LifeInv /\ \A n \in Nodes : Worker(n)!Unused
  <2> SUFFICES ASSUME Init PROVE LifeInv /\ \A n \in Nodes : Worker(n)!Unused
    OBVIOUS
  <2>1. LifeInv
    BY NoJobType DEF Init, LifeInv, InMain
  <2>2. \A n \in Nodes : node[n].alive /\ node[n].worker = "Idle"
    BY DEF Init
  <2> QED BY <2>1, <2>2 DEF Worker!Unused, Phase, Alive
<1>2. IInv /\ LifeInv /\ [Next]_vars => LifeInv'
  BY PhasesStep
<1>3. IInv /\ LifeInv /\ [Next]_vars =>
        [Restart \/ \A n \in Nodes : [Worker(n)!Moves]_(Phase(n))]_vars
  BY PhasesStep DEF KeepsPhase
<1> QED BY <1>1, <1>2, <1>3, Invariance, PTL DEF Spec, WorkersKeepPhases
=============================================================================
