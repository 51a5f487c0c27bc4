----------------------------- MODULE SmartFill ------------------------------
(***************************************************************************)
(* ops/AISmartFill/AISmartFill.cpp with what it drives: its AiWorker (at   *)
(* the level of JobLifecycle, which AiWorker implements), its LamaSession, *)
(* the .aifill files of a cache directory that all nodes share, and        *)
(* the polling timer of either menu.py: scripts/menu.py bumps the          *)
(* revision, src/menu.py does not.  Handlers run one at a time on Nuke's   *)
(* main thread; each node has at most one worker thread.                   *)
(*                                                                         *)
(* A cache key stands for the SHA-256 of the same fields: what the inputs  *)
(* are (input hashes and threshold) and which network is asked for (model  *)
(* path and backend).  The pixels of a bake are identified by what they    *)
(* were really computed from, a record of the same shape.                  *)
(***************************************************************************)
EXTENDS Naturals

CONSTANTS
  Nodes,         \* AISmartFill nodes of the script
  Inputs,        \* contents of source and mask, thresholds
  Models,        \* model_path and backend knobs
  BumpsRevision, \* the timer bumps cook_revision before forceValidate
  None,          \* no key, no pixels, no input connected
  Absent,        \* no file
  Unreadable,    \* a file with a bad header or cut short: the read fails
  Torn           \* a complete file with blocks of two writers

Keys == [input : Inputs \cup {None}, model : Models]
Sessions == [model : Models, init : {"no", "ok", "failed"}]

ASSUME SmartFillAssumption ==
  /\ None \notin Inputs \cup Models \cup Nodes
  /\ {None, Absent, Unreadable, Torn} \cap Keys = {}
  /\ None \notin Sessions
  /\ None \notin {Absent, Unreadable, Torn}
  /\ Absent # Unreadable /\ Absent # Torn /\ Unreadable # Torn
  /\ BumpsRevision \in BOOLEAN

VARIABLES
  node,          \* [Nodes -> knobs and members of the op]
  job,           \* [Nodes -> the lambda on the worker thread]
  files,         \* [Keys -> what the .aifill file of that key holds]
  mainPc         \* the handler that main is inside of, and its node

vars == <<node, job, files, mainPc>>

Present(k) == files[k] # Absent
Readable(k) == files[k] \notin {Absent, Unreadable}

(* compute_cache_key; None for the hash of an input that is not connected. *)
KeyOf(nd) == [input |-> nd.input, model |-> nd.model]

InMain(at, n) == [at |-> at, node |-> n]

NoJob == [pc |-> "none", key |-> None, model |-> None, shared |-> FALSE]

(* The constructor's values: the knobs keep theirs. *)
Fresh(nd) ==
  [nd EXCEPT !.current = None, !.loaded = None, !.pixels = None, !.baking = None,
             !.session = None, !.worker = "Idle", !.cancel = FALSE]

Init ==
  /\ node \in [Nodes ->
       [alive : {TRUE}, input : Inputs, model : Models, status : {"other"},
        percent : {0}, dirty : {TRUE}, current : {None}, loaded : {None}, pixels : {None},
        baking : {None}, session : {None}, worker : {"Idle"}, cancel : {FALSE}]]
  /\ job = [n \in Nodes |-> NoJob]
  /\ files = [k \in Keys |-> Absent]
  /\ mainPc = InMain("ready", None)

Ready == mainPc.at = "ready"
Alive(n) == node[n].alive

-----------------------------------------------------------------------------
(* Pieces of the handlers, as functions of the node they run for *)

Dropped(nd) == [nd EXCEPT !.loaded = None, !.pixels = None]

(* A new text of the status knob dirties the node for forceValidate; the   *)
(* percentage is part of the text "Cooking N%".  Of the texts, two matter  *)
(* to somebody.                                                            *)
SetStatusAt(nd, text, percent) ==
  LET shown == IF text \in {"Cooking", "Ready"} THEN text ELSE "other" IN
  [nd EXCEPT !.status = shown, !.percent = percent,
             !.dirty = @ \/ <<shown, percent>> # <<nd.status, nd.percent>>]
SetStatus(nd, text) == SetStatusAt(nd, text, 0)

(* AiWorkerContext::progress at the steps of the lambda.  Only the test of  *)
(* forceValidate depends on the number in the text.                        *)
Percent(j) ==
  CASE BumpsRevision \/ j.pc = "none" -> 0
    [] j.pc = "prepare" -> 5
    [] j.pc = "session" -> 22
    [] j.pc = "inferred" -> 73
    [] j.pc = "composited" -> 90
    [] j.pc \in {"write", "rename"} -> 93
    [] j.pc = "return" -> 100

(* try_load_cache_for_key *)
TryLoad(nd, k) ==
  IF nd.loaded = k /\ nd.pixels # None THEN nd
  ELSE IF Readable(k) THEN [nd EXCEPT !.loaded = k, !.pixels = files[k]]
  ELSE Dropped(nd)

(* AiWorker::reset() *)
Reset(nd) == [nd EXCEPT !.worker = "Idle"]

(* poll_worker *)
Poll(nd, j) ==
  CASE nd.worker = "Idle" -> nd
    [] nd.worker = "Running" -> SetStatusAt(nd, "Cooking", Percent(j))
    [] nd.worker = "Done" ->
         LET kept == IF nd.loaded = nd.baking THEN nd ELSE Dropped(nd)
         IN  [Reset(SetStatus(kept, "Ready")) EXCEPT !.baking = None]
    [] nd.worker = "Error" ->
         [Reset(SetStatus(nd, "Error")) EXCEPT !.baking = None]
    [] nd.worker = "Cancelled" ->
         [Reset(SetStatus(nd, "Cancelled")) EXCEPT !.baking = None]

(* Mutant: the file is looked for before the worker is polled. *)
ValidatedPollLast(nd, j) ==
  Poll(TryLoad([nd EXCEPT !.dirty = BumpsRevision, !.current = KeyOf(nd)], KeyOf(nd)), j)

(* Mutant: _validate leaves the polling to others. *)
ValidatedUnpolled(nd, j) ==
  TryLoad([nd EXCEPT !.dirty = BumpsRevision, !.current = KeyOf(nd)], KeyOf(nd))

(* _validate: poll, then look for the file of the knobs as they are now.   *)
Validated(nd, j) ==
  LET polled == Poll([nd EXCEPT !.dirty = BumpsRevision], j)
  IN  TryLoad([polled EXCEPT !.current = KeyOf(nd)], KeyOf(nd))

-----------------------------------------------------------------------------
(* What the user and Nuke do on the main thread *)

SetNode(n, nd) == node' = [node EXCEPT ![n] = nd]

(* Knobs or the graph above change: the node asks for another key.         *)
Edit(n) ==
  /\ Ready /\ Alive(n)
  /\ \E k \in Keys \ {KeyOf(node[n])} :
       SetNode(n, [node[n] EXCEPT !.input = k.input, !.model = k.model, !.dirty = TRUE])
  /\ UNCHANGED <<job, files, mainPc>>

(* A viewer or a render asks for the node, or Refresh Viewer is pressed.   *)
ViewerValidates(n) ==
  /\ Ready /\ Alive(n)
  /\ SetNode(n, Validated(node[n], job[n]))
  /\ UNCHANGED <<job, files, mainPc>>

(* _is_active: the status holds one of the markers; of the texts the op    *)
(* sets, only "Cooking N%" does.                                           *)
Active(nd) == nd.status = "Cooking"

(* forceValidate passes only if a knob changed since the last _validate,   *)
(* as cook_revision always has where the timer bumps it.                   *)
TimerPoll(n) ==
  /\ Ready /\ Alive(n)
  /\ Active(node[n])
  /\ node[n].dirty
  /\ SetNode(n, Validated(node[n], job[n]))
  /\ UNCHANGED <<job, files, mainPc>>

-----------------------------------------------------------------------------
(* clear_cache_dir *)

ClearCache(n) ==
  /\ Ready /\ Alive(n)
  /\ \E kept \in SUBSET {k \in Keys : Present(k)} :      \* fs::remove may fail
       files' = [k \in Keys |-> IF k \in kept THEN files[k] ELSE Absent]
  /\ SetNode(n, SetStatus(Dropped(node[n]), "Cleared"))
  /\ UNCHANGED <<job, mainPc>>

(* The directory iterator throws on its way, and knob_changed catches:     *)
(* what was removed is gone, the rest is as it was.                        *)
ClearThrows(n) ==
  /\ Ready /\ Alive(n)
  /\ \E kept \in SUBSET {k \in Keys : Present(k)} :
       files' = [k \in Keys |-> IF k \in kept THEN files[k] ELSE Absent]
  /\ UNCHANGED <<node, job, mainPc>>

(* There is no cache directory: nothing is cleared, the buffer included. *)
ClearNoDirectory(n) ==
  /\ Ready /\ Alive(n)
  /\ \A k \in Keys : ~ Present(k)
  /\ SetNode(n, SetStatus(node[n], "No directory"))
  /\ UNCHANGED <<job, files, mainPc>>

-----------------------------------------------------------------------------
(* start_bake *)

BakeRunning(n) ==
  /\ Ready /\ Alive(n)
  /\ node[n].worker = "Running"
  /\ SetNode(n, SetStatus(node[n], "Already cooking"))
  /\ UNCHANGED <<job, files, mainPc>>

(* The source may turn out to have zero size, after validate(true). *)
BakeEmpty(n) ==
  /\ Ready /\ Alive(n)
  /\ node[n].worker # "Running"
  /\ node[n].input # None
  /\ \E nd \in {Reset(node[n]), Validated(Reset(node[n]), job[n])} :
       SetNode(n, SetStatus(nd, "Error"))
  /\ UNCHANGED <<job, files, mainPc>>

(* A result nobody has polled is reset; then the inputs are checked.       *)
BakeNoInput(n) ==
  /\ Ready /\ Alive(n)
  /\ node[n].worker # "Running"
  /\ node[n].input = None
  /\ SetNode(n, SetStatus(Reset(node[n]), "Error"))
  /\ UNCHANGED <<job, files, mainPc>>

(* Mutant: a result nobody has polled is not reset. *)
BakeLookupUnreset(n) ==
  /\ Ready /\ Alive(n)
  /\ node[n].worker # "Running"
  /\ node[n].input # None
  /\ \E nd \in {node[n], Validated(node[n], job[n])} : SetNode(n, nd)
  /\ mainPc' = InMain(IF Present(KeyOf(node[n])) THEN "cached" ELSE "launch", n)
  /\ UNCHANGED <<job, files>>

(* validate(true) does nothing if the node is valid already; then the file *)
(* of the key is looked for.                                               *)
BakeLookup(n) ==
  /\ Ready /\ Alive(n)
  /\ node[n].worker # "Running"
  /\ node[n].input # None
  /\ \E nd \in {Reset(node[n]), Validated(Reset(node[n]), job[n])} : SetNode(n, nd)
  /\ mainPc' = InMain(IF Present(KeyOf(node[n])) THEN "cached" ELSE "launch", n)
  /\ UNCHANGED <<job, files>>

BakeCached(n) ==
  /\ mainPc = InMain("cached", n)
  /\ LET k == KeyOf(node[n]) IN
       SetNode(n, TryLoad([SetStatus(node[n], "Already cached") EXCEPT !.current = k], k))
  /\ mainPc' = InMain("ready", None)
  /\ UNCHANGED <<job, files>>

(* An input is no image, or reading it throws: no lambda is started. *)
BakeInputsInvalid(n) ==
  /\ mainPc = InMain("launch", n)
  /\ \E nd \in {SetStatus(node[n], "Error"), node[n]} : SetNode(n, nd)
  /\ mainPc' = InMain("ready", None)
  /\ UNCHANGED <<job, files>>

(* The session is built once, for the model and backend of that bake.      *)
SessionFor(nd) ==
  IF nd.session # None THEN nd.session ELSE [model |-> nd.model, init |-> "no"]

Launched(nd) ==
  [SetStatus(nd, "Cooking") EXCEPT !.session = SessionFor(nd), !.baking = KeyOf(nd),
                                   !.current = KeyOf(nd)]

(* The inputs are read here, on the main thread, and given to the lambda.  *)
BakeLaunch(n) ==
  LET nd == Launched(node[n]) IN
  /\ mainPc = InMain("launch", n)
  /\ SetNode(n, [nd EXCEPT !.worker = "Running", !.cancel = FALSE])
  /\ job' = [job EXCEPT ![n] = [NoJob EXCEPT !.pc = "prepare", !.key = KeyOf(nd)]]
  /\ mainPc' = InMain("ready", None)
  /\ UNCHANGED files

(* No thread can be created: knob_changed catches what start() throws, and *)
(* the worker stays Running.                                               *)
BakeLaunchThrows(n) ==
  /\ mainPc = InMain("launch", n)
  /\ SetNode(n, [Launched(node[n]) EXCEPT !.worker = "Running", !.cancel = FALSE])
  /\ mainPc' = InMain("ready", None)
  /\ UNCHANGED <<job, files>>

-----------------------------------------------------------------------------
(* The lambda on the worker thread, and the end of AiWorker::run *)

SetJob(n, j) == job' = [job EXCEPT ![n] = j]

EndJob(n, outcome) ==
  /\ SetJob(n, NoJob)
  /\ SetNode(n, [node[n] EXCEPT !.worker = outcome])

(* report_progress: the callback returns false once cancel was requested,  *)
(* and inpaint_image throws "cancelled".                                   *)
JobThrowsCancelled(n) ==
  /\ job[n].pc \in {"prepare", "inferred"}
  /\ node[n].cancel
  /\ EndJob(n, "Error")
  /\ UNCHANGED <<files, mainPc>>

JobPrepared(n) ==
  /\ job[n].pc = "prepare"
  /\ ~ node[n].cancel
  /\ SetJob(n, [job[n] EXCEPT !.pc = "session"])
  /\ UNCHANGED <<node, files, mainPc>>

(* ensure_initialized: the first call decides, for good; the model file    *)
(* may be missing or of no use.                                            *)
JobInitSession(n) ==
  /\ job[n].pc = "session"
  /\ node[n].session.init = "no"
  /\ \E result \in {"ok", "failed"} :
       SetNode(n, [node[n] EXCEPT !.session.init = result])
  /\ UNCHANGED <<job, files, mainPc>>

JobSessionError(n) ==
  /\ job[n].pc = "session"
  /\ node[n].session.init = "failed"
  /\ EndJob(n, "Error")
  /\ UNCHANGED <<files, mainPc>>

JobInfer(n) ==
  /\ job[n].pc = "session"
  /\ node[n].session.init = "ok"
  /\ SetJob(n, [job[n] EXCEPT !.pc = "inferred", !.model = node[n].session.model])
  /\ UNCHANGED <<node, files, mainPc>>

JobInferenceFails(n) ==
  /\ job[n].pc = "session"
  /\ node[n].session.init = "ok"
  /\ EndJob(n, "Error")
  /\ UNCHANGED <<files, mainPc>>

(* Others that are writing the file of the same key. *)
Rivals(n) == {o \in Nodes \ {n} : job[o].pc \in {"write", "rename"} /\ job[o].key = job[n].key}

(* inpaint_image returns; nobody looks at the flag until the lambda ends.  *)
JobComposited(n) ==
  /\ job[n].pc = "inferred"
  /\ ~ node[n].cancel
  /\ SetJob(n, [job[n] EXCEPT !.pc = "composited"])
  /\ UNCHANGED <<node, files, mainPc>>

JobOpenFile(n) ==
  /\ job[n].pc = "composited"
  /\ job' = [o \in Nodes |->
       IF o = n THEN [job[n] EXCEPT !.pc = "write", !.shared = Rivals(n) # {}]
       ELSE IF o \in Rivals(n) THEN [job[o] EXCEPT !.shared = TRUE]
       ELSE job[o]]
  /\ UNCHANGED <<node, files, mainPc>>

JobRemoveOld(n) ==
  /\ job[n].pc = "write"
  /\ files' = [files EXCEPT ![job[n].key] = Absent]
  /\ SetJob(n, [job[n] EXCEPT !.pc = "rename"])
  /\ UNCHANGED <<node, mainPc>>

(* image_cache_write returns false, before or after removing the old file. *)
JobWriteFails(n) ==
  /\ job[n].pc \in {"write", "rename"}
  /\ EndJob(n, "Error")
  /\ UNCHANGED <<files, mainPc>>

(* image_cache_write returns true.  ImageCache: the file is the image, or  *)
(* lacks its tail, or, with other writers of the key, is theirs or torn.   *)
Baked(n) == [input |-> job[n].key.input, model |-> job[n].model]

Renamed(n) ==
  {Unreadable} \cup {Baked(o) : o \in Rivals(n) \cup {n}}
    \cup (IF job[n].shared THEN {Torn} ELSE {})

(* Mutant: the path is made from the knobs when the file is written. *)
JobRenameToKnobs(n) ==
  /\ job[n].pc = "rename"
  /\ \E content \in Renamed(n) : files' = [files EXCEPT ![KeyOf(node[n])] = content]
  /\ SetJob(n, [job[n] EXCEPT !.pc = "return"])
  /\ UNCHANGED <<node, mainPc>>

JobRename(n) ==
  /\ job[n].pc = "rename"
  /\ \E content \in Renamed(n) : files' = [files EXCEPT ![job[n].key] = content]
  /\ SetJob(n, [job[n] EXCEPT !.pc = "return"])
  /\ UNCHANGED <<node, mainPc>>

JobReturn(n) ==
  /\ job[n].pc = "return"
  /\ EndJob(n, IF node[n].cancel THEN "Cancelled" ELSE "Done")
  /\ UNCHANGED <<files, mainPc>>

-----------------------------------------------------------------------------
(* The node is deleted: ~AiWorker cancels and joins, then session_ goes.   *)

DeleteNode(n) ==
  /\ Ready /\ Alive(n)
  /\ SetNode(n, [node[n] EXCEPT !.cancel = TRUE])
  /\ mainPc' = InMain("delete", n)
  /\ UNCHANGED <<job, files>>

(* Mutant: session_ declared after worker_, so destroyed before it. *)
DeleteSessionFirst(n) ==
  /\ mainPc = InMain("delete", n)
  /\ SetNode(n, [node[n] EXCEPT !.session = None, !.alive = job[n] # NoJob])
  /\ mainPc' = IF job[n] = NoJob THEN InMain("ready", None) ELSE mainPc
  /\ UNCHANGED <<job, files>>

DeleteJoined(n) ==
  /\ mainPc = InMain("delete", n)
  /\ job[n] = NoJob
  /\ SetNode(n, [Fresh(node[n]) EXCEPT !.alive = FALSE])
  /\ mainPc' = InMain("ready", None)
  /\ UNCHANGED <<job, files>>

(* Nuke ends and the script is opened again: status is a saved knob, the   *)
(* members are not.  A killed worker leaves at most its .tmp file.         *)
Restart ==
  /\ node' = [n \in Nodes |-> [Fresh(node[n]) EXCEPT !.dirty = TRUE]]
  /\ job' = [n \in Nodes |-> NoJob]
  /\ mainPc' = InMain("ready", None)
  /\ UNCHANGED files

-----------------------------------------------------------------------------
JobStep(n) ==
  \/ JobThrowsCancelled(n) \/ JobPrepared(n) \/ JobInitSession(n)
  \/ JobSessionError(n) \/ JobInfer(n) \/ JobInferenceFails(n)
  \/ JobComposited(n) \/ JobOpenFile(n) \/ JobRemoveOld(n) \/ JobWriteFails(n) \/ JobRename(n)
  \/ JobReturn(n)

HandlerStep(n) ==
  \/ BakeCached(n) \/ BakeInputsInvalid(n) \/ BakeLaunch(n) \/ BakeLaunchThrows(n)
  \/ DeleteJoined(n)

UserStep(n) ==
  \/ Edit(n) \/ ViewerValidates(n)
  \/ ClearCache(n) \/ ClearThrows(n) \/ ClearNoDirectory(n)
  \/ BakeRunning(n) \/ BakeNoInput(n) \/ BakeEmpty(n) \/ BakeLookup(n) \/ DeleteNode(n)

Next ==
  \/ \E n \in Nodes : UserStep(n) \/ HandlerStep(n) \/ TimerPoll(n) \/ JobStep(n)
  \/ Restart

(* Threads that can run do, a handler goes on until it returns, and the    *)
(* timer, which always re-arms itself, gets its turn on the main thread    *)
(* between two handlers however busy the user is.                          *)
Fairness ==
  \A n \in Nodes :
    /\ WF_vars(JobStep(n))
    /\ WF_vars(HandlerStep(n))
    /\ SF_vars(TimerPoll(n))

Spec == Init /\ [][Next]_vars /\ Fairness

-----------------------------------------------------------------------------
(* What a node sees of its worker.  A launch that failed leaves the state  *)
(* Running and no job, as in AiWorker's refinement.                        *)
Phase(n) ==
  IF ~ Alive(n) THEN "Destroyed"
  ELSE IF node[n].worker = "Running" /\ job[n].pc = "none" THEN "Idle"
  ELSE node[n].worker

Worker(n) == INSTANCE JobPhase WITH phase <- Phase(n)

(* Fields keep to their ranges. *)
TypeOK ==
  /\ node \in [Nodes ->
       [alive : BOOLEAN, input : Inputs \cup {None}, model : Models,
        status : {"Cooking", "Ready", "other"},
        percent : 0 .. 100, dirty : BOOLEAN,
        current : Keys \cup {None}, loaded : Keys \cup {None},
        pixels : Keys \cup {Torn, None}, baking : Keys \cup {None},
        session : Sessions \cup {None},
        worker : {"Idle", "Running", "Done", "Error", "Cancelled"},
        cancel : BOOLEAN]]
  /\ job \in [Nodes ->
       [pc : {"none", "prepare", "session", "inferred", "composited", "write",
              "rename", "return"},
        key : Keys \cup {None}, model : Models \cup {None}, shared : BOOLEAN]]
  /\ files \in [Keys -> Keys \cup {Absent, Unreadable, Torn}]
  /\ mainPc \in [at : {"ready", "cached", "launch", "delete"}, node : Nodes \cup {None}]

(* engine() serves the buffer only if it was loaded for the current key.   *)
Serves(nd) == nd.loaded # None /\ nd.loaded = nd.current

(* What engine() serves was computed from the inputs the knobs and the     *)
(* node graph described at the last _validate, whatever was changed, baked *)
(* by other nodes or restarted since the pixels were made.                 *)
ServesOwnInput ==
  \A n \in Nodes :
    Serves(node[n]) /\ node[n].pixels # Torn => node[n].pixels.input = node[n].current.input

(* ... and by the network the key names (ai_cache.h: the key is derived    *)
(* from the full input state, the model path included).                    *)
ServesOwnModel ==
  \A n \in Nodes :
    Serves(node[n]) /\ node[n].pixels # Torn => node[n].pixels.model = node[n].current.model

(* The lambda holds a bare pointer to session_: the session is there as    *)
(* long as the job is.                                                     *)
SessionOutlivesJob ==
  \A n \in Nodes : job[n].pc # "none" => Alive(n) /\ node[n].session # None

(* A finished result is not taken off the worker and forgotten.  The       *)
(* _validate that takes it ends with the file of the current knobs loaded, *)
(* if there is a readable one; a press of Bake that takes it reports an    *)
(* error or goes on to look for that file, and one that finds the file     *)
(* ends with it loaded in the same way.                                    *)
ServedNow(n) ==
  /\ node'[n].current = KeyOf(node[n])
  /\ Readable(KeyOf(node[n])) => node'[n].loaded = KeyOf(node[n])

Taken(n) == node[n].worker = "Done" /\ node'[n].worker = "Idle" /\ node'[n].alive

ConsumedIsServed ==
  [][Restart \/ \A n \in Nodes :
       /\ Taken(n) => \/ ServedNow(n)
                      \/ node'[n].status = "other"
                      \/ mainPc' \in {InMain("cached", n), InMain("launch", n)}
       /\ mainPc = InMain("cached", n) /\ mainPc' # mainPc => ServedNow(n)]_vars

(* start_bake does not look at what start() answers, nor does poll_worker  *)
(* wait for a thread: the op uses its worker only as AiWorker allows.  No  *)
(* bake starts on a worker whose last result nobody has taken, nothing is  *)
(* reset or reported while a job runs, and the worker is destroyed after   *)
(* its job.  Only a restart begins with new workers.                       *)
WorkersKeepPhases ==
  /\ \A n \in Nodes : Worker(n)!Unused
  /\ [][Restart \/ \A n \in Nodes : [Worker(n)!Moves]_(Phase(n))]_vars

Ended(nd) == nd.worker \in {"Done", "Error", "Cancelled"}

(* While the status says Cooking, an ended job is noticed: the timer does  *)
(* what it is there for.  It needs BumpsRevision; the installed            *)
(* src/menu.py never sees the end of a job whose last text was polled.     *)
PollKeepsUp ==
  \A n \in Nodes :
    Ended(node[n]) /\ Active(node[n]) ~> ~ (Ended(node[n]) /\ Active(node[n]))

(* Every result is taken off the worker without the user's help: the timer *)
(* drives _validate until the job has been reported.                       *)
BakeConsumed == \A n \in Nodes : Ended(node[n]) ~> ~ Ended(node[n])

(* The warning of try_load_cache_for_key, "will re-bake on next press": a  *)
(* press of Bake does not take an unreadable file for a cached result.     *)
UnreadableRebakes ==
  [][\A n \in Nodes :
       Ready /\ mainPc' = InMain("cached", n) => files[KeyOf(node[n])] # Unreadable]_vars

(* A status that says Cooking is that of a job.                            *)
CookingMeansJob == \A n \in Nodes : Active(node[n]) => node[n].worker # "Idle"
=============================================================================
