------------------------------ MODULE Generate ------------------------------
(***************************************************************************)
(* ops/AIGenerate/AIGenerate.cpp: nodes that make an image from a prompt,  *)
(* a seed, model files and a LoRA.  Handlers run one at a time on Nuke's   *)
(* main thread; each node's AiWorker (at the level of JobLifecycle) runs   *)
(* one lambda, which calls the session all nodes share.  The nodes are the *)
(* session's Callers, and their lambdas enter it without asking whether    *)
(* another one is inside.  The timer of menu.py polls.                     *)
(*                                                                         *)
(* A cache key stands for the SHA-256 of its fields; an image is a record  *)
(* of the same shape that says what it was made from.                      *)
(***************************************************************************)
EXTENDS SdSession

CONSTANTS
  Prompts,      \* prompt, size, steps, strengths, connected images
  Seeds,        \* values of a seed
  Loras,        \* LoRA files the knob can name
  MaxEdits,     \* bound: knob edits and changes of the LoRA files
  BumpsRevision, \* the timer bumps cook_revision before forceValidate
  Random,       \* the seed knob holds -1
  NoLora,
  None,         \* no key, no pixels, no text
  Absent,       \* no file
  Unreadable,   \* a file whose read fails
  Torn          \* a complete file with blocks of two writers

Nodes == Callers
OptLoras == Loras \cup {NoLora}
Keys == [prompt : Prompts, seed : Seeds, paths : Paths, lora : OptLoras]
Images == [prompt : Prompts, seed : Seeds, paths : OptPaths, lora : OptLoras]

ASSUME GenerateAssumption ==
  /\ 0 \in Seeds /\ Random \notin Seeds
  /\ NoLora \notin Loras
  /\ {None, Absent, Unreadable, Torn} \cap Images = {}
  /\ None \notin {Absent, Unreadable, Torn} \cup Callers
  /\ Absent # Unreadable /\ Absent # Torn /\ Unreadable # Torn
  /\ MaxEdits \in Nat
  /\ BumpsRevision \in BOOLEAN

VARIABLES
  node,         \* [Nodes -> knobs and members of the op]
  job,          \* [Nodes -> the lambda on the worker thread]
  files,        \* [Keys -> what the .aigen file of that key holds]
  loraFiles,    \* the LoRA files on disk
  mainPc,       \* the handler that main is inside of, and its node
  edits         \* edits made so far

opVars == <<node, job, files, loraFiles, mainPc, edits>>
vars == <<opVars, sessionVars>>

Present(k) == files[k] # Absent
Readable(k) == files[k] \notin {Absent, Unreadable}

InMain(at, n) == [at |-> at, node |-> n]
Ready == mainPc.at = "ready"
Alive(n) == node[n].alive

NoJob ==
  [pc |-> "none", key |-> None, seed |-> 0, lora |-> NoLora, made |-> NoPaths,
   shared |-> FALSE]

(* The constructor's values: the knobs, last_seed among them, keep theirs. *)
Fresh(nd) ==
  [nd EXCEPT !.lastSeed = 0, !.loaded = None, !.pixels = None, !.baking = None,
             !.worker = "Idle"]

Init ==
  /\ node \in [Nodes ->
       [alive : {TRUE}, prompt : Prompts, seed : Seeds \cup {Random}, paths : Paths,
        lora : OptLoras, status : {"other"}, dirty : {TRUE}, shown : {None}, lastSeed : {0},
        loaded : {None}, pixels : {None}, baking : {None}, worker : {"Idle"}]]
  /\ job = [n \in Nodes |-> NoJob]
  /\ files = [k \in Keys |-> Absent]
  /\ loraFiles = Loras
  /\ mainPc = InMain("ready", None)
  /\ edits = 0
  /\ SessionInit

(* compute_cache_key: the seed is the one of the latest bake. *)
KeyOf(nd) ==
  [prompt |-> nd.prompt, seed |-> nd.lastSeed, paths |-> nd.paths, lora |-> nd.lora]

-----------------------------------------------------------------------------
(* Pieces of the handlers, as functions of the node they run for *)

Dropped(nd) == [nd EXCEPT !.loaded = None, !.pixels = None]

(* A new text of the status knob dirties the node for forceValidate.  Of   *)
(* the texts, two matter to somebody.                                      *)
SetStatus(nd, text) ==
  LET shown == IF text \in {"Cooking", "Ready"} THEN text ELSE "other" IN
  [nd EXCEPT !.status = shown, !.dirty = @ \/ shown # nd.status]

(* try_load_cache_for_key: what was loaded before stays if this fails. *)
TryLoad(nd, k) ==
  IF k # nd.loaded /\ Readable(k) THEN [nd EXCEPT !.loaded = k, !.pixels = files[k]]
  ELSE nd

(* "Cooking N%"; moved: N is not the percentage shown before. *)
SetCooking(nd, moved) == [SetStatus(nd, "Cooking") EXCEPT !.dirty = @ \/ moved]

(* poll_worker *)
Reported(nd, text) == [SetStatus(nd, text) EXCEPT !.worker = "Idle", !.baking = None]

Poll(nd, moved) ==
  CASE nd.worker = "Idle" -> nd
    [] nd.worker = "Running" -> SetCooking(nd, moved)
    [] nd.worker = "Done" ->
         Reported(IF nd.baking # None /\ nd.loaded # nd.baking THEN Dropped(nd) ELSE nd,
                  "Ready")
    [] nd.worker = "Error" -> Reported(nd, "Error")
    [] nd.worker = "Cancelled" -> Reported(nd, "Cancelled")

(* Mutant: _validate leaves the polling to others. *)
ValidatedUnpolled(nd, moved) == TryLoad([nd EXCEPT !.dirty = BumpsRevision], KeyOf(nd))

(* _validate *)
Validated(nd, moved) == TryLoad(Poll([nd EXCEPT !.dirty = BumpsRevision], moved), KeyOf(nd))

(* resolve_seed *)
Resolved(nd, s) ==
  [nd EXCEPT !.lastSeed = s, !.shown = s, !.dirty = @ \/ s # nd.shown]

SetNode(n, nd) == node' = [node EXCEPT ![n] = nd]

-----------------------------------------------------------------------------
(* What the user and Nuke do on the main thread *)

Edited(n, nd) == SetNode(n, [nd EXCEPT !.dirty = TRUE])

Edit(n) ==
  /\ Ready /\ Alive(n)
  /\ edits < MaxEdits
  /\ \/ \E p \in Prompts \ {node[n].prompt} : Edited(n, [node[n] EXCEPT !.prompt = p])
     \/ \E s \in (Seeds \cup {Random}) \ {node[n].seed} : Edited(n, [node[n] EXCEPT !.seed = s])
     \/ \E p \in Paths \ {node[n].paths} : Edited(n, [node[n] EXCEPT !.paths = p])
     \/ \E l \in OptLoras \ {node[n].lora} : Edited(n, [node[n] EXCEPT !.lora = l])
  /\ edits' = edits + 1
  /\ UNCHANGED <<job, files, loraFiles, mainPc, sessionVars>>

(* Somebody adds or removes a LoRA file. *)
LoraFilesChange ==
  /\ edits < MaxEdits
  /\ \E l \in Loras : loraFiles' = (loraFiles \ {l}) \cup ({l} \ loraFiles)
  /\ edits' = edits + 1
  /\ UNCHANGED <<node, job, files, mainPc, sessionVars>>

(* A viewer or a render asks for the node, or Refresh Viewer is pressed.   *)
ViewerValidates(n) ==
  /\ Ready /\ Alive(n)
  /\ \E moved \in BOOLEAN : SetNode(n, Validated(node[n], moved))
  /\ UNCHANGED <<job, files, loraFiles, mainPc, edits, sessionVars>>

(* _poll_step.  forceValidate passes only if a knob changed since the last *)
(* _validate, as cook_revision always has where the timer bumps it.        *)
Active(nd) == nd.status = "Cooking"

TimerPoll(n) ==
  /\ Ready /\ Alive(n)
  /\ Active(node[n])
  /\ node[n].dirty
  /\ \E moved \in BOOLEAN : SetNode(n, Validated(node[n], moved))
  /\ UNCHANGED <<job, files, loraFiles, mainPc, edits, sessionVars>>

(* clear_cache_on_disk; a file that is being read elsewhere may stay. *)
ClearCache(n) ==
  /\ Ready /\ Alive(n)
  /\ \E kept \in SUBSET {k \in Keys : Present(k)} :
       files' = [k \in Keys |-> IF k \in kept THEN files[k] ELSE Absent]
  /\ SetNode(n, SetStatus(Dropped(node[n]), "Cleared"))
  /\ UNCHANGED <<job, loraFiles, mainPc, edits, sessionVars>>

(* The directory iterator throws on its way, and knob_changed does not     *)
(* catch: what was removed is gone, the rest is as it was.                 *)
ClearThrows(n) ==
  /\ Ready /\ Alive(n)
  /\ \E kept \in SUBSET {k \in Keys : Present(k)} :
       files' = [k \in Keys |-> IF k \in kept THEN files[k] ELSE Absent]
  /\ UNCHANGED <<node, job, loraFiles, mainPc, edits, sessionVars>>

(* There is no cache directory: nothing is cleared, the buffer included. *)
ClearNoDirectory(n) ==
  /\ Ready /\ Alive(n)
  /\ \A k \in Keys : ~ Present(k)
  /\ SetNode(n, SetStatus(node[n], "No directory"))
  /\ UNCHANGED <<job, files, loraFiles, mainPc, edits, sessionVars>>

-----------------------------------------------------------------------------
(* start_bake *)

BakeRunning(n) ==
  /\ Ready /\ Alive(n)
  /\ node[n].worker = "Running"
  /\ SetNode(n, SetStatus(node[n], "Already cooking"))
  /\ UNCHANGED <<job, files, loraFiles, mainPc, edits, sessionVars>>

(* A parameter, a model file or an input image is not in order. *)
BakeRefused(n) ==
  /\ Ready /\ Alive(n)
  /\ node[n].worker # "Running"
  /\ SetNode(n, SetStatus(node[n], "Error"))
  /\ UNCHANGED <<job, files, loraFiles, mainPc, edits, sessionVars>>

SeedChoices(nd) == IF nd.seed = Random THEN Seeds ELSE {nd.seed}

(* The seed is resolved and shown, then the file of the key is looked for. *)
BakeLookup(n) ==
  /\ Ready /\ Alive(n)
  /\ node[n].worker # "Running"
  /\ \E s \in SeedChoices(node[n]) :
       LET nd == Resolved(node[n], s) IN
         /\ SetNode(n, nd)
         /\ mainPc' = InMain(IF Present(KeyOf(nd)) THEN "cached" ELSE "launch", n)
  /\ UNCHANGED <<job, files, loraFiles, edits, sessionVars>>

BakeCached(n) ==
  /\ mainPc = InMain("cached", n)
  /\ SetNode(n, TryLoad(SetStatus(node[n], "Already cached"), KeyOf(node[n])))
  /\ mainPc' = InMain("ready", None)
  /\ UNCHANGED <<job, files, loraFiles, edits, sessionVars>>

Cooking(nd, moved) == [SetCooking(nd, moved) EXCEPT !.baking = KeyOf(nd)]

(* Mutant: the lambda is given the seed knob as it was before resolve_seed *)
(* made a random one of it.                                                *)
BakeLaunchStaleSeed(n) ==
  /\ mainPc = InMain("launch", n)
  /\ node[n].worker = "Idle"
  /\ \E moved \in BOOLEAN :
       SetNode(n, [Cooking(node[n], moved) EXCEPT !.worker = "Running"])
  /\ job' = [job EXCEPT ![n] =
       [NoJob EXCEPT !.pc = "session",
          !.key = KeyOf(node[n]), !.seed = IF node[n].seed = Random THEN 0 ELSE node[n].seed,
          !.lora = IF node[n].lora \in loraFiles THEN node[n].lora ELSE NoLora]]
  /\ SetCall(n, Entered(node[n].paths))
  /\ mainPc' = InMain("ready", None)
  /\ UNCHANGED <<files, loraFiles, edits, session, cb>>

(* The lambda gets the seed that resolve_seed returned and the path of the *)
(* key; a LoRA whose file is missing is dropped after the key was computed.*)
BakeLaunch(n) ==
  /\ mainPc = InMain("launch", n)
  /\ node[n].worker = "Idle"
  /\ \E moved \in BOOLEAN :
       SetNode(n, [Cooking(node[n], moved) EXCEPT !.worker = "Running"])
  /\ job' = [job EXCEPT ![n] =
       [NoJob EXCEPT !.pc = "session", !.key = KeyOf(node[n]), !.seed = node[n].lastSeed,
          !.lora = IF node[n].lora \in loraFiles THEN node[n].lora ELSE NoLora]]
  /\ SetCall(n, Entered(node[n].paths))
  /\ mainPc' = InMain("ready", None)
  /\ UNCHANGED <<files, loraFiles, edits, session, cb>>

(* An ended job nobody has polled is not reset: start() returns false.     *)
BakeStartRefused(n) ==
  /\ mainPc = InMain("launch", n)
  /\ node[n].worker # "Idle"
  /\ \E moved \in BOOLEAN : SetNode(n, Cooking(node[n], moved))
  /\ mainPc' = InMain("ready", None)
  /\ UNCHANGED <<job, files, loraFiles, edits, sessionVars>>

-----------------------------------------------------------------------------
(* The lambda after its session calls, and the end of AiWorker::run *)

SetJob(n, j) == job' = [job EXCEPT ![n] = j]

EndJob(n, outcome) ==
  /\ SetJob(n, NoJob)
  /\ SetNode(n, [node[n] EXCEPT !.worker = outcome])

JobInSession(n) ==
  /\ job[n].pc = "session"
  /\ SessionStep(n)
  /\ UNCHANGED opVars

(* ensure_loaded or generate returned false: the lambda throws. *)
JobSessionFailed(n) ==
  /\ job[n].pc = "session"
  /\ In(n, "returned") /\ call[n].result.kind # "image"
  /\ EndJob(n, "Error")
  /\ SetCall(n, NoCall)
  /\ UNCHANGED <<files, loraFiles, mainPc, edits, session, cb>>

(* image_cache_write opens its .tmp file; others may have the same open.   *)
Rivals(n) == {o \in Nodes \ {n} : job[o].pc \in {"write", "rename"} /\ job[o].key = job[n].key}

(* The cancel flag, kept in the call, can still be set until the end.      *)
JobGenerated(n) ==
  /\ job[n].pc = "session"
  /\ In(n, "returned") /\ call[n].result.kind = "image"
  /\ job' = [o \in Nodes |->
       IF o = n THEN [job[n] EXCEPT !.pc = "write", !.made = call[n].result.made,
                                    !.shared = Rivals(n) # {}]
       ELSE IF o \in Rivals(n) THEN [job[o] EXCEPT !.shared = TRUE]
       ELSE job[o]]
  /\ SetCall(n, [NoCall EXCEPT !.cancel = call[n].cancel])
  /\ UNCHANGED <<node, files, loraFiles, mainPc, edits, session, cb>>

JobRemoveOld(n) ==
  /\ job[n].pc = "write"
  /\ files' = [files EXCEPT ![job[n].key] = Absent]
  /\ SetJob(n, [job[n] EXCEPT !.pc = "rename"])
  /\ UNCHANGED <<node, loraFiles, mainPc, edits, sessionVars>>

JobWriteFails(n) ==
  /\ job[n].pc \in {"write", "rename"}
  /\ EndJob(n, "Error")
  /\ UNCHANGED <<files, loraFiles, mainPc, edits, sessionVars>>

Baked(j) ==
  [prompt |-> j.key.prompt, seed |-> j.seed, paths |-> j.made, lora |-> j.lora]

(* ImageCache: the file is the image, lacks its tail, or, with other       *)
(* writers of the key, is theirs or torn.                                  *)
Renamed(n) ==
  {Unreadable} \cup {Baked(job[o]) : o \in Rivals(n) \cup {n}}
    \cup (IF job[n].shared THEN {Torn} ELSE {})

JobRename(n) ==
  /\ job[n].pc = "rename"
  /\ \E content \in Renamed(n) : files' = [files EXCEPT ![job[n].key] = content]
  /\ SetJob(n, [job[n] EXCEPT !.pc = "return"])
  /\ UNCHANGED <<node, loraFiles, mainPc, edits, sessionVars>>

(* Mutant: the end of the job is handed to the main thread. *)
JobReturnOnMain(n) ==
  /\ job[n].pc = "return"
  /\ Ready
  /\ EndJob(n, IF call[n].cancel THEN "Cancelled" ELSE "Done")
  /\ SetCall(n, NoCall)
  /\ UNCHANGED <<files, loraFiles, mainPc, edits, session, cb>>

JobReturn(n) ==
  /\ job[n].pc = "return"
  /\ EndJob(n, IF call[n].cancel THEN "Cancelled" ELSE "Done")
  /\ SetCall(n, NoCall)
  /\ UNCHANGED <<files, loraFiles, mainPc, edits, session, cb>>

-----------------------------------------------------------------------------
(* The node is deleted: ~AiWorker cancels and joins. *)

DeleteNode(n) ==
  /\ Ready /\ Alive(n)
  /\ SetCall(n, [call[n] EXCEPT !.cancel = job[n] # NoJob])
  /\ mainPc' = InMain("delete", n)
  /\ UNCHANGED <<node, job, files, loraFiles, edits, session, cb>>

(* Mutant: the destructor sets the cancel flag and does not join. *)
DeleteUnjoined(n) ==
  /\ mainPc = InMain("delete", n)
  /\ SetNode(n, [Fresh(node[n]) EXCEPT !.alive = FALSE])
  /\ mainPc' = InMain("ready", None)
  /\ UNCHANGED <<job, files, loraFiles, edits, sessionVars>>

DeleteJoined(n) ==
  /\ mainPc = InMain("delete", n)
  /\ job[n] = NoJob
  /\ SetNode(n, [Fresh(node[n]) EXCEPT !.alive = FALSE])
  /\ mainPc' = InMain("ready", None)
  /\ UNCHANGED <<job, files, loraFiles, edits, sessionVars>>

(* Nuke ends, also where sd.cpp or an exception nobody catches ends it,    *)
(* and the script is opened again.                                         *)
Restart ==
  /\ node' = [n \in Nodes |-> [Fresh(node[n]) EXCEPT !.dirty = TRUE]]
  /\ job' = [n \in Nodes |-> NoJob]
  /\ mainPc' = InMain("ready", None)
  /\ session' = NoSession
  /\ cb' = [inUse |-> FALSE, callback |-> NoCaller, cancel |-> FALSE]
  /\ call' = [n \in Nodes |-> NoCall]
  /\ UNCHANGED <<files, loraFiles, edits>>

-----------------------------------------------------------------------------
JobStep(n) ==
  \/ JobInSession(n) \/ JobSessionFailed(n) \/ JobGenerated(n)
  \/ JobRemoveOld(n) \/ JobWriteFails(n) \/ JobRename(n) \/ JobReturn(n)

HandlerStep(n) ==
  BakeCached(n) \/ BakeLaunch(n) \/ BakeStartRefused(n) \/ DeleteJoined(n)

UserStep(n) ==
  \/ Edit(n) \/ ViewerValidates(n) \/ ClearCache(n) \/ ClearThrows(n) \/ ClearNoDirectory(n)
  \/ BakeRunning(n) \/ BakeRefused(n) \/ BakeLookup(n) \/ DeleteNode(n)

Next ==
  \/ \E n \in Nodes : UserStep(n) \/ HandlerStep(n) \/ TimerPoll(n) \/ JobStep(n)
  \/ LoraFilesChange
  \/ Restart

(* Threads that can run do (new_sd_ctx and generate_image end), a handler  *)
(* goes on until it returns, and the timer gets its turns on main.         *)
Fairness ==
  \A n \in Nodes :
    /\ WF_vars(JobStep(n))
    /\ WF_vars(HandlerStep(n))
    /\ SF_vars(TimerPoll(n))

Spec == Init /\ [][Next]_vars /\ Fairness

-----------------------------------------------------------------------------
(* What a node sees of its worker *)
Phase(n) == IF Alive(n) THEN node[n].worker ELSE "Destroyed"

Worker(n) == INSTANCE JobPhase WITH phase <- Phase(n)

(* Fields keep to their ranges. *)
TypeOK ==
  /\ SessionTypeOK
  /\ node \in [Nodes ->
       [alive : BOOLEAN, prompt : Prompts, seed : Seeds \cup {Random}, paths : Paths,
        lora : OptLoras,
        status : {"Cooking", "Ready", "other"}, dirty : BOOLEAN,
        shown : Seeds \cup {None}, lastSeed : Seeds,
        loaded : Keys \cup {None}, pixels : Images \cup {Torn, None},
        baking : Keys \cup {None},
        worker : {"Idle", "Running", "Done", "Error", "Cancelled"}]]
  /\ job \in [Nodes ->
       [pc : {"none", "session", "write", "rename", "return"}, key : Keys \cup {None},
        seed : Seeds, lora : OptLoras, made : OptPaths, shared : BOOLEAN]]
  /\ files \in [Keys -> Images \cup {Absent, Unreadable, Torn}]
  /\ loraFiles \subseteq Loras
  /\ mainPc \in [at : {"ready", "cached", "launch", "delete"}, node : Nodes \cup {None}]
  /\ edits \in 0 .. MaxEdits

(* The pixels a node holds are those of the key it says it has loaded:     *)
(* same prompt, same seed.                                                 *)
PixelsOfLoadedKey ==
  \A n \in Nodes :
    node[n].pixels \notin {None, Torn} =>
      /\ node[n].loaded # None
      /\ node[n].pixels.prompt = node[n].loaded.prompt
      /\ node[n].pixels.seed = node[n].loaded.seed

(* A file holds nothing that other model files made than its key names.    *)
FilesOfOwnModel ==
  \A k \in Keys : files[k] \in Images => files[k].paths = k.paths

(* ... nor with another LoRA ("LoRAs are part of the input identity").     *)
FilesOfOwnLora ==
  \A k \in Keys : files[k] \in Images => files[k].lora = k.lora

(* start_bake ignores that start() may refuse: the op uses its worker only *)
(* as AiWorker allows.  No bake starts on a worker whose last result       *)
(* nobody has taken, nothing is reset while a job runs, a job ends once    *)
(* and belongs to a node, and the worker is destroyed after its job.       *)
WorkersKeepPhases ==
  /\ \A n \in Nodes : Worker(n)!Unused
  /\ [][Restart \/ \A n \in Nodes : [Worker(n)!Moves]_(Phase(n))]_vars

Ended(nd) == nd.worker \in {"Done", "Error", "Cancelled"}

(* An ended job whose status says Cooking is noticed whenever forceValidate *)
(* passes: the timer does not lose it among edits, bakes, clears and       *)
(* refused starts.  With the timer that bumps cook_revision it always      *)
(* passes.                                                                 *)
PollKeepsUp ==
  \A n \in Nodes :
    LET unnoticed == Ended(node[n]) /\ Active(node[n]) IN
    unnoticed /\ node[n].dirty ~> ~ unnoticed

(* The docstring of src/menu.py: the timer "ensures poll_worker() runs in  *)
(* C++ to detect worker thread completion".  It needs BumpsRevision.       *)
EndIsNoticed ==
  \A n \in Nodes :
    Ended(node[n]) /\ Active(node[n]) ~> ~ (Ended(node[n]) /\ Active(node[n]))

(* Every handler on the main thread returns, ~AiWorker's join included.    *)
HandlersReturn == ~ Ready ~> Ready

(* A press of Bake that announces "Cooking 0%" has started a job.          *)
CookingStartsJob ==
  [][\A n \in Nodes :
       mainPc = InMain("launch", n) /\ node'[n].baking # None => job'[n] # NoJob]_vars

(* No ensure_loaded that found the model missing is still under way, and   *)
(* the session says loaded.                                                *)
Settled ==
  /\ session.loaded
  /\ \A c \in Callers : call[c].pc \notin {"free", "freeing", "store", "creating"}

(* Where all nodes name the same model files: from then on until Nuke ends *)
(* no bake of any node loads, frees or replaces the context, no call loses *)
(* the one it samples with, and none starts without one.                   *)
SettledStays ==
  [][Settled /\ ~ Restart =>
       /\ Settled' /\ session' = session
       /\ \A c \in Callers : call'[c].freed => call[c].freed]_vars

(* The resolved seed of the most recent bake "persists via the hidden      *)
(* last_seed_text_ knob so it survives node serialization": it is what the *)
(* knob shows.                                                             *)
SeedSurvives == \A n \in Nodes : node[n].shown # None => node[n].lastSeed = node[n].shown
=============================================================================
