# SmartFill in TLA+

A verification development for the Nuke plugin of this repository: two image
operators, `AISmartFill` (fills a masked region with the LaMa network) and
`AIGenerate` (text to image with stable-diffusion.cpp), the core library they
share, and the Python timer that keeps their panels up to date. TLA+ modules
model the parts that hold state, TLC checks them on small instances, TLAPS
proves the safety properties for every size.

Source paths are given without the leading `src/`.

## 1. Inventory

| Part | State | Operations | Talks to |
|---|---|---|---|
| `AiWorker` (`core/*/ai_worker.*`) | atomic state, cancel flag, progress, status text, error text, `std::thread` | `start`, `cancel`, `join`, `reset`, destructor on the owner; `run` on its thread | the op that owns it, the lambda it runs |
| image cache file (`core/*/image_cache.*`) | the `.aifill` / `.aigen` file and its `.tmp` | `image_cache_write`, `_read`, `_inspect` | file system, every node with the same key |
| `AISmartFill` op | knobs, `current_key_`, `loaded_key_`, `baking_key_`, pixel buffer, `worker_`, `session_` | Bake, Clear, Refresh, `_validate`, `engine`, `poll_worker`, `knob_changed`, destructor | its worker, its session, the cache directory, the timer |
| `menu.py` timer | "a polling timer is armed" | `_poll_step` every 0.3 s | the status knob of each node, `forceValidate` |
| `AIGenerate` op | knobs, `last_resolved_seed_`, `loaded_key_`, `baking_key_`, buffer, `worker_` | the same handlers, `resolve_seed`, LoRA scan | its worker, the process-wide session |
| `SdSession` | sd.cpp context, `loaded`, `loaded_paths`, the global `g_cb_state` | `ensure_loaded`, `generate`, `request_cancel` | sd.cpp through global callbacks |
| `LamaSession` | ONNX session, `init_flag`, active backend, stored error | lazy initialisation, `run`, introspection | ONNX Runtime |
| LaMa tiler | none | `inpaint_image` (crop, resize, composite) | the progress callback of its caller |
| `AiCache` | cache directory with images and sidecars | `has`, `lookup`, `write_sidecar`, `clear`, `prune` | file system (the ops use their own files instead) |
| `CacheKeyBuilder`, `ai_hash` | hash state, chunk buffer, bit count | typed `add`s, `finalize`; streaming SHA-256 | `compute_cache_key` of both ops |
| plugin path, DLL bootstrap | none after load | path lookup, loader setup | operating system |
| presets script, ControlNet converter, build and deploy scripts | none at run time | | |

### How they interact

Nuke calls every handler of a node on its main thread, one at a time. Bake
looks for the file of the current key; if there is none it reads its inputs
and gives a lambda to the node's `AiWorker`. The lambda runs on its own
thread, reports progress through atomics, computes, writes the cache file and
returns; nothing calls back. The main thread learns of the end only when
`_validate` runs `poll_worker`, which happens when a viewer asks or when the
timer of `menu.py` finds "Cooking" in the status knob and calls
`forceValidate`. The result travels through the *file*: the `_validate` that
takes the state `Done` off the worker drops the old buffer and loads the file.
The two ops differ in their session: each `AISmartFill` node has one,
all `AIGenerate` nodes share one.

### What is hard about it

* the owner's `start`, `reset` and destructor against a thread that has
  published its result and not yet exited; stores of result and state in order;
* the interval between Bake and the end of the lambda, in which knobs,
  inputs, cache and node can change or go away;
* the cache directory, which every node and every earlier or later process
  writes to, replaces files in and clears, with kills at any point;
* a result that nobody is obliged to fetch: a polling loop driven by the
  text of a knob;
* one session and one global callback for several worker threads;
* a cache directory that is pruned file by file from lists that others have
  made stale;
* keys that must tell apart whatever makes a different image, through two
  layers that only see streams of bytes;
* an initialisation that happens once, in whichever thread comes first, and
  can fail; images that go to the network and back through two resizes.

`PROJECT.json` lists these at their lines under "hazards", each with the
properties that would catch it or a note on why none does.

### What makes each part correct

* **AiWorker**: never two threads, no thread after destruction, nothing of the
  last run after `reset`, a message with every error, a cancel that is neither
  inherited nor lost, calls that return.
* **Cache file**: what is found under the final name and what a read reports
  as good is one complete image, whatever failed or was killed before.
* **Ops**: what is shown belongs to what is asked for; a finished job is
  noticed, reported once and shown; handlers return.
* **SdSession**: `loaded` tells the truth after failed loads, images come from
  the files that were asked for, cancels belong to their call, nobody samples
  with a freed context.
* **LamaSession**: all callers learn the same of the model, and every call ends.
* **Tiler**: an unmasked pixel is the source's, a masked one what the network
  made of the place the mask named.
* **Cache keys**: equal only if the image is, and always if two nodes differ in
  the spelling of paths alone; the digest is that of the standard.
* **AiCache**: `prune` leaves the newest entries within the limits and takes no
  other, also beside another `prune`; `clear` takes the cache's files and
  nothing else.

## 2. Modules

| Module | Models | Extends / uses |
|---|---|---|
| `JobPhase` | the diagram of `ai_worker.h`, as what `state()` may do | |
| `JobLifecycle` | what a worker promises: the phases and the error report | `JobPhase` |
| `AiWorker` | `ai_worker.cpp`, implements `JobLifecycle` | `JobLifecycle` by `INSTANCE` |
| `AiWorkerProofs` | theorems about `AiWorker` | `AiWorker`, `TLAPS` |
| `ImageCache` | `image_cache_write` and `_read` on a small file system | |
| `ImageCacheProofs` | theorems about `ImageCache` | `ImageCache`, `TLAPS` |
| `SmartFill`, `MCSmartFill` | the AISmartFill op, its worker and session, the cache directory, the timer | `JobPhase` by `INSTANCE` |
| `SmartFillProofs` | theorems about `SmartFill` | `SmartFill`, `TLAPS` |
| `SdSession` | `sd_session.cpp` and the global callback state | |
| `SdSessionProofs` | theorems about `SdSession` under its contract | `SdSession`, `TLAPS` |
| `Generate`, `MCGenerate` | the AIGenerate op and its nodes on the one session | `SdSession`; `JobPhase` by `INSTANCE` |
| `GenerateProofs` | theorems about `Generate` | `Generate`, `SdSessionProofs` |
| `LamaSession` | `lama_session.cpp`: `call_once`, kept error, `run` | |
| `LamaTiler` | `inpaint_image` of several threads on one session | `LamaSession` |
| `LamaProofs` | theorems about `LamaTiler` and the `LamaSession` in it | `LamaTiler`, `TLAPS` |
| `Sha256` | buffering and padding of `ai_hash.cpp` | |
| `CacheKey`, `MCCacheKey` | `CacheKeyBuilder` and the field lists of both ops | `Sha256` |
| `CacheKeyProofs` | theorems about `CacheKey` and the `Sha256` in it | `CacheKey`, `TLAPS` |
| `AiCache` | `clear` and `prune` of `ai_cache.cpp` | |
| `AiCacheProofs` | theorems about `AiCache` | `AiCache`, `TLAPS` |

`MC` modules only add the symmetry of interchangeable nodes, or the small sets
of values that a `.cfg` cannot write down. Definitions that
start with the comment "Mutant:" are wrong on purpose: each is a plausible
mistake in the definition next to it, and substituting it makes the named
property of a run fail, which shows that the property depends on that code.

### AiWorker

One variable per member, and three that the code has implicitly: `mainPc`
(where the owner is inside a call), `workerPc[r]` (where the thread of run `r`
is) and `finalState[r]` (the local variable of `run()`). Runs are numbered, so
that a thread of an earlier run that is still alive would be visible.
`StartCas`, `StartClear`, `StartJoin`, `StartLaunch` are the compare-exchange,
the clearing of the context, the join of the previous thread and the
construction of the new one; `reset` and the destructor are cut the same way,
`run()` into the task, the look at the cancel flag, the store of the message,
the store of the state and the exit of the thread. Atomics and mutexes are
sequentially consistent, which is what the code asks for. `terminated` stands
for `std::terminate` (a joinable `std::thread` overwritten). The history
variable `cancelled` records the runs that were cancelled in time.

### JobPhase and JobLifecycle

`JobPhase` has the five phases and a "Destroyed", and the four moves between
them. It is written once and used from both sides: `JobLifecycle` adds a job
number and the job whose error can be read, and `AiWorker` implements that;
`SmartFill` and `Generate` instantiate `JobPhase` for the phase each node sees
(`Worker(n)`), and `WorkersKeepPhases` says that the node moves it only as the
diagram allows. So the ops' models, which hold a worker in one field, ask
nothing of it that `AiWorker` does not give. `AiWorker` implements it under
`Phase`, `JobNumber`, `Report`: a run counts as begun when its thread is
launched (after the compare-exchange the state reads Running, but no job exists
yet), ends when the state is published and is consumed when `reset` stores Idle.

### ImageCache

Names (`dst`, `tmp`) point to inodes; an inode is a sequence of blocks marked
with the image they were written for. A writer opens `.tmp` with truncation (the
same inode if someone else has it open), writes block by block, closes, removes
the destination and renames. The last block stays in the stream's buffer until
the implicit close, which may lose it; `flushLost` remembers that. `Remove` may
or may not succeed, whatever the reason: a file that somebody has open on
Windows, a lock or a right outside of the program. Nobody reads its error in the
code, so nothing follows from it in the model. A reader keeps its handle while
names change under it. Clear removes the final name, and `Crash` ends every call
and leaves the files.

### SmartFill

`node[n]` is a record of the knobs and members the handlers read; a cache key
is the record of the fields it is the SHA-256 of (input hashes and threshold
are one value, model path and backend another), and pixels are named by what
they were computed *from*, so that "the right pixels" can be stated.
`Poll`, `TryLoad`, `Validated`, `Launched` are the helper functions of the op
as functions from record to record. A handler that has no point at which a
worker's step could matter is one action; Bake is two (`BakeLookup`, then
`BakeCached` / `BakeInputsInvalid` / `BakeLaunch` / `BakeLaunchThrows`),
deletion is two (cancel, join). The lambda is the chain `JobPrepared`,
`JobInitSession`, `JobInfer`, `JobComposited`, `JobOpenFile`, `JobRemoveOld`,
`JobRename`, `JobReturn` with its failures. The worker is taken at the level of
`JobLifecycle`, the file at the level of what `ImageCache` shows: the image,
an unreadable file (lost flush), or, if two writers met, the other one's image
or a torn one. What a file holds is decided at the rename: a writer whose
`.tmp` another one has renamed, and which goes on writing to it, is not followed.

The `dirty` flag models that `forceValidate` does nothing on a node whose
knobs are unchanged; `BumpsRevision` tells the two versions of the timer apart
(`scripts/menu.py` bumps a knob first, `menu.py` does not). The one that
`CMakeLists.txt:148` and `deploy.ps1:37` install is `menu.py`. `Generate` has the
same flag and the same constant. What depends on it is whether the end of a job is
noticed. `PollKeepsUp` of `SmartFill` holds with the bump (`SmartFill_one`) and is
refuted without it (`SmartFill_menu`). `Generate_one` has the installed menu and
the weaker `PollKeepsUp` of `Generate`, which asks for notice only where
`forceValidate` passes; without that condition it is `EndIsNoticed` (section 5).

### SdSession and Generate

`SdSession` has the context as "what it was made of", the three fields of
the global callback state, and per caller the call it is in. `ensure_loaded` is
cut wherever another thread can come between a test and its use: the reuse test,
the test of `ctx`, `free_sd_ctx`, the reset of the pointer, the store of the
paths, `new_sd_ctx`; so is `generate`, between its check of the context and the
moment it hands it to `generate_image`. `dangling` says that the pointer is to
freed memory, `held` that a sampling call's context is still the session's, and
`freed` that it is gone under the call; from then on the outcome is any (use
after free has no meaning of its own). Two calls of `generate_image` at a time
make the outcome any, too (`alone`). `SessionNext` obeys the
header's rule that calls of two threads do not interleave (`Exclusive`).
`Generate` uses the same actions without `Exclusive`, because nothing in
`AIGenerate.cpp` establishes it: the callers are the nodes. The op's own part
resembles `SmartFill`; new are the resolved seed, the LoRA files that are
looked for after the key was computed, `start()` refusing an ended worker, and
that a failed load keeps the old buffer.

### LamaSession and LamaTiler

`LamaSession` follows a call of `run` through `ensure_initialized`
(`EnterOnce`, or `PassOnce` once somebody is done), the steps of `initialize`
(backend, session, look at the model's inputs and outputs), each of which can
fail, and inference. `InitFails` is the `catch` that keeps the exception.
`verdicts` is the history of what callers were told of the model.

`LamaTiler` adds what `inpaint_image` does around that call. A pixel is not a
number but the *set of places its value comes from*: `Samples` gives the
columns that enter one bilinear sample with a weight other than zero, with the
position as an exact fraction, so that `Canvas` says which source pixels the
network sees in a place and `Composite` from which places of the canvas each
shown pixel is taken. Float rounding of the positions and the values themselves
are left out. `rgb_out` is written in `Compose` only; a cancel at the last
report comes after it.

### Sha256 and CacheKey

`Sha256` has the members of the class, with `state_` as the sequence of bytes
compressed so far, which takes the compression function to be collision free.
Chunk size, width of the length and bits of a byte are constants (64, 8, 8 in
the code). One turn of `update`'s loop is one step, so a chunk boundary can
fall anywhere in any argument. `CacheKey` feeds it: `Pieces` are the calls of
`update` that one `add` makes, `GenerateFields` and `SmartFillFields` the `add`s
of the two `compute_cache_key`, on paths as `normalize_path` writes them (`Slashed`,
`Cleaned`). Width, height and steps are one number, the four
model paths one text. What a key has to tell is stated apart from the key.
`Given` is what `start_bake` hands to the job: no strength without an input, and
no ControlNet at all without its input. `MayShare` allows one key to nodes with
the same `Given`, `MustShare` asks it of nodes that differ only in how a path is
typed; in between (the strength of a ControlNet without input, say) the key may
tell more than the image needs. A path names one file with either slash, as on
Windows, the platform of the plugin; what the file holds is not in the key (see
section 5). Assumed of the environment, in
`CacheKeyAssumption`: texts are shorter than 2^32 bytes, LoRA stacks shorter than
2^32 entries, numbers fit their words, and the hash of a connected op is not
0, which `AISmartFill` uses for "not connected".

### AiCache

`files` maps each name to the time of its last write. `clear` and `prune` open
the directory, take its entries one by one and remove files one by one, so two
callers, stores and the clock interleave at each of these points; a loop that is
reading the directory may or may not come across a new file. Keys are the names
that `is_hex_key` accepts, `Foreign` the others. Every call remembers the
directory it began with (`began`) and whether something has since happened that
its documentation does not provide for (`disturbed`: a store, a removal that
failed, a `clear` under a `prune`); after that it promises nothing. Two prunes
do not disturb each other. Images have distinct write times (`TimesDiffer`), and
the conversion of a write time through two clock reads (`ai_cache.cpp:264-268`) is
taken as exact: its jitter could exchange two entries written within it.
The counts that the calls return are left out.

### Abstractions common to the two ops

* SHA-256 is injective: equal keys mean equal fields.
* Of the status texts only "Cooking" (the timer looks for it) and "Ready"
  (the report of a finished job) are kept; others are "other".
* `_validate`, Clear and Bake do not change the directory knob.
* The six reads of `ensure_loaded`'s reuse test are one step, and so are the two
  adjacent stores of `ctx` and `loaded` after the free and after the load.
* Clear drops the buffer after its loop over the directory. The loop's `++` can
  throw: `ClearThrows` leaves some files removed and the node as it was.
  `knob_changed` of AISmartFill catches the exception (`:354`); that of AIGenerate
  does not, so Nuke catches it (`ClearThrows`) or ends (`Restart`).
* `start_bake` of AIGenerate has no `try` around `start()`; a throw ends Nuke,
  which is `Restart`.
* What `engine()` serves is a definition (`Serves`), not an action: it
  changes nothing.

## 3. Runs

Passing runs:

| Run | Instance | Shows |
|---|---|---|
| `AiWorker_safety` | 3 runs, progress 0..2 | all interleavings of owner and worker keep the seven invariants; calls return; `JobLifecycle` is implemented, liveness included |
| `ImageCache_safety` | 1 writer, 2 readers, 3 writes of 3 blocks, 1 kill | no partial image is published (unless a flush was lost), read as good or reported as written; an old one goes only for a complete one |
| `SmartFill_one` | 1 node, 2 inputs, 1 model | shown pixels are those of the current input through edits, clears, restarts, failures and deletion; session outlives job; a result that is taken is served, reported or looked for; the worker is used as it allows; the timer that bumps keeps up |
| `SmartFill_two` | 2 nodes, 1 input (or none connected), 1 model, symmetric | the same for two nodes that overwrite each other's files |
| `SdSession_contract` | 2 callers, 2 sets of files, 2 steps | the session's promises under the header's threading rule, a living context among them |
| `Generate_one` | 1 node, 2 models, 1 LoRA, 2 seeds, 1 edit, 1 step | pixels and files belong to their key; the worker is used as it allows; handlers return, `~AiWorker`'s join included; with the installed menu an ended job is noticed whenever `forceValidate` passes |
| `LamaTiler_shared` | 2 callers, canvas of 4x4, images 3 or 8 wide and 1 or 7 high, refused ones | one verdict on the model for all callers; unmasked pixels untouched, masked ones taken from where the network was asked; calls end |
| `CacheKey_collision` | 2 keys one after the other; chunks of 8 bytes of 3 bits, length field of 2 bytes; both ops' states, lists of up to 2 fields | the standard's padding for every length and cut; equal keys only for the same image, and always for the same paths typed differently |
| `AiCache_sharing` | 2 callers, 3 entries, 1 foreign name, limits 0 and 1, 1 store, 1 fault | what `prune` and `clear` leave and take |

Runs that are meant to fail, each a disagreement between the code and what the
repository says of it (quotes in `PROJECT.json`, "findings"):

| Run | What TLC shows |
|---|---|
| `SmartFill_model` | the session is built once; after a change of the model the old network's result is stored and served under the new key |
| `SmartFill_menu` | with the `menu.py` that is installed nobody notices the end of a job on a node that was validated since its last change |
| `Generate_context` | two nodes with the *same* model bake from a session that is not loaded: the second frees the context the first has just stored and samples with |

### Bounds and why they are enough

Every bound is a CONSTANT. *AiWorker*: a run interferes with its predecessor
only (the thread of run r-1 at the start of run r); three runs give a
predecessor that itself had one, and the theorems need no bound. *ImageCache*:
three blocks are the smallest file with a header, a block that reaches the disk
on its own and a block that stays in the buffer; three writes give an old file,
a replacement and a retry, one kill falls on any of them. *SmartFill*: a stale
result needs an input, a second one, and the way back; the ops have no counters,
so the state space is finite without any other bound, and every behaviour of any
length is covered. `SmartFill_two` leaves out the second input, since `None` is
one: `BakeNoInput` and the key of an unconnected input are reached through
`Edit`. *SdSession*: two files and two callers are the least that can disturb
each other, two steps distinguish a cancel before, between and after callbacks.
*Generate*: `MaxEdits` limits knob edits and changes of the LoRA files; one edit
after any prefix covers "the knobs are no longer what they were at the press".
`FirstSpec` starts with one of the two models, since nothing tells them apart.
*LamaTiler*: 3 and 1 fit the canvas, 8 is twice it, 7 makes a side that has to
be rounded; wider and higher images make the height or the width the shorter
side, and masks are full, every second column, or empty. `ShownWhereAsked` was
also checked by one caller for all sizes up to 12x10 and canvases of 4 and 5.
Two callers are enough for a first call and one that waits. *CacheKey*: the
messages are up to some 40 bytes long, so that with chunks of 8 every position
of the end in its chunk, both cases of the padding and several chunks occur;
texts hold bytes that look like tags and sizes, either slash and trailing
blanks; nodes differ in up to two places; two keys show whether the hasher is
clean after the first. *AiCache*: three entries are the least where two prunes
that may each keep one can disagree on which; one store and one fault fall
anywhere; the clock moves on once during the calls.

### Fairness

`AiWorker`: weak fairness of the owner's steps *inside* a call and of the
worker's steps. The scheduler runs both, and a task returns or throws, being an
inference over finitely many steps. Nothing obliges the owner to call.
`SmartFill`, `Generate`: weak fairness of job and handler steps for the same
reason; strong fairness of the timer, because it re-arms itself in every outcome
and its turn comes between two handlers, whereas it is disabled during each of
them. Nothing obliges the user to press, look at or edit anything. `LamaTiler`:
weak fairness of each thread's steps; the progress callback, ONNX Runtime and
its provider return or throw, and nobody is obliged to call. `ImageCache`,
`SdSession`, `CacheKey` and `AiCache` have safety properties only and no
fairness. Deadlock is checked in every run but `CacheKey_collision`, which ends
when the last key is made.

## 4. What is proved

The theorems hold for every value of the constants that satisfies the named
assumption of the module, bounds such as `MaxCrashes` included; TLC evaluates
the assumptions on every run. Where a theorem has a hypothesis of its own it is
part of the statement (`OneWriter => (Spec => []...)`), and the text says what
happens without it. Each inductive invariant was checked by TLC on the run of
its module before it was proved.

### AiWorkerProofs

For every `MaxRuns` and `MaxProgress` that are positive (`WorkerAssumption`,
the only assumption):

| Theorem | Property |
|---|---|
| `TypeCorrect` | `TypeOK` |
| `OneThreadOnly` | `OneThread` |
| `IdleQuiescent` | `IdleIsQuiescent` |
| `DestructionIsSafe` | `NoUseAfterFree` |
| `ErrorIsPublished` | `ErrorPublished` |
| `CancelIsOwn` | `NoStaleCancel` |
| `CancelIsHonoured` | `CancelHonoured` |
| `ImplementsLifecycle` | the safety part of `ImplementsJob` |

The properties are not inductive. `OneThread`, for instance, says nothing of a
worker whose state is Done and whose owner is about to start again: that the
thread will be joined first follows from where it is. The inductive invariant
`IInv` therefore ties the program counters together:

* `ThreadInv`: the only live thread is that of `thread`, which is the latest
  run's; there is none between the join and the launch, after `reset`'s join
  and after destruction;
* `StateInv`: what each value of `state` says about the owner's place, the
  thread's place and the members (Idle: all clear; Running: the run is unborn
  or before its publication; ended: published with that state);
* `ErrorInv`: a run that is to end in Error has stored its message by the
  time it can publish;
* `CancelInv`: while a run has not looked yet, the flag is up exactly if the
  run is in the history `cancelled`.

`InitInv` and the step lemmas (`TypeStep`, `InvStep`, one case per action) give
`Invariance`; each theorem then follows from one conjunct or two. The
refinement is `JobStep`: under `IInv` every step is one of `Begin`, `Finish`,
`Consume`, `Destroy` or leaves phase, number and report alone.

### ImageCacheProofs

| Theorem | Property |
|---|---|
| `PublishedIsWhole` | `PublishedWhole` |
| `ReadsAreWhole` | `ReadOkIsWhole` |
| `TruePublishes` | `TrueMeansPublished` |
| `OldGivesWay` | `OldGoesForWhole` |

`FalseLeavesNoPartial` is not among them: the code does not keep it (section 5).
For any readers, blocks, writes, failures and kills, with `OneWriter`: at most
one thread writes the path at a time. All writers of a path share one temporary
name, so two at once can publish a mixture; this is the `Torn` of `SmartFill`
and `Generate` and the reason for the hypothesis. The invariant says that the
inode under the temporary name is neither the one under the final name nor one
that a reader has open (`NamesInv`, `ReaderInv`), so what is published or being
read is never written again; that the writer has filled it exactly as far as its
position says (`WriterInv`); and that an inode that can be read is one image,
whole, or short of its last block if a flush was lost.

### SmartFillProofs

| Theorem | Property |
|---|---|
| `Types` | `TypeOK` |
| `ServedInputIsOwn` | `ServesOwnInput` |
| `SessionOutlives` | `SessionOutlivesJob` |
| `ConsumedServes` | `ConsumedIsServed` |
| `WorkersAreUsedRight` | `WorkersKeepPhases` |

For any number of nodes, inputs and networks and both versions of the timer. The
property about what is served becomes inductive with two more facts: a file
under a key was computed from the inputs of that key (`FilesInv`), and a node's
buffer belongs to the key in `loaded_key_` (`BufferInv`), both up to `Torn`.
The lambda writes under the key it was given while its node is alive (`JobInv`).
The handlers are functions of one node (`TryLoad`, `Dropped`, `SetStatus`,
...), and there is one lemma for each that it keeps a node good, so every action
is shown from the functions it applies. `WorkersKeepPhases` needs that a lambda
belongs to a running worker and that between `start_bake`'s reset and its
`start()` the worker is idle (`LifeInv`): both hold because `poll_worker` and
`start_bake` are the only ones to reset, and never reset a running job (`Handled`).
`ConsumedServes` says what becomes of a result when it is
taken: `_validate` loads the file of the current knobs if it can; Bake, which
takes an unpolled result by its own reset, says an error or goes on to the look-up
of that file, and loads it where it finds it. Restarts are excepted. Of the network
nothing follows: that is the finding of the run `SmartFill_model`.

### SdSessionProofs

| Theorem | Property |
|---|---|
| `SessionTypes` | `SessionTypeOK` |
| `LoadedMeansContext` | `LoadedIsContext` |
| `ImagesAreOwn` | `ImageOfOwnPaths` |
| `CancelIsNotInherited` | `NoForeignCancel` |
| `CancelIsFinal` | `CancelSeenHonoured` |
| `ContextOutlivesSampling` | `ContextAlive` |

About `SessionSpec`, in which calls keep to the header's "do not interleave from
multiple threads", for any threads, files and steps. `OneInside` is
that rule as an invariant; `CallInv` says for each place of a call what it may
rely on while it is alone: the stored paths are its own from their store on, the
callback and the context are its own while it samples, and a raised cancel flag
was raised for it. The step lemmas are about `SessionStep` alone and serve
`GenerateProofs` too.

### GenerateProofs

| Theorem | Property | Hypothesis |
|---|---|---|
| `Types` | `TypeOK` | |
| `PixelsKeepToKey` | `PixelsOfLoadedKey` | |
| `WorkersAreUsedRight` | `WorkersKeepPhases` | |
| `OneModelSettles` | `SettledStays` | `OneModel` |
| `OneNodeFilesOwnModel` | `FilesOfOwnModel` | `OneNode` |

For any number of nodes, prompts, seeds, model files and LoRA files. The op
enters the one session from the worker threads of all nodes, so the session's
rule is not kept here and `SdSession`'s theorems cannot be used as they are.
What does not depend on the session holds without hypothesis (`OpInv`: prompt
and seed of pixels, files and jobs). The same goes for the use of the worker
(`LifeInv`: a lambda runs exactly while its node's worker does, and its node is
alive), although `start_bake` does not reset an ended job and `start()` may
refuse. `ContextAlive` holds in no shared session, not even with one model (the
run `Generate_context`): the first loads can free each other's contexts. What one
model gives is `SettledStays`: once the session is loaded and no call that found it
otherwise is under way, no bake leaves that state, no context is freed and none is
replaced, until Nuke ends. `SharedInv` says why: what is stored as the paths of the
context is the one set of files, and a dangling pointer belongs to a free that is
still on, so that in a settled session every reuse test passes. TLC agrees on two
nodes (the constants of `Generate_context`). That the model files of a key are
those it was made with needs one node: then the rule is kept, and
`OneNodeInv` takes `SdSessionProofs`' invariant into the op by one lemma per
lambda step that calls the session.

### LamaProofs

| Theorem | Property |
|---|---|
| `VerdictIsOne` | `OneVerdict` |
| `StaysInside` | `TypeOK` |
| `KeepsUnmasked` | `Composited` |
| `ShowsWhatWasAsked` | `ShownWhereAsked` |

For any set of callers, any canvas and images of any size. `OneVerdict` alone
does not say why a second caller cannot slip in while the first initialises. The
inductive invariant adds that each place inside `call_once` implies that it runs
(`PcInv`), that at most one caller is in such a place (`Alone`), and that
nothing has been answered before it is done and afterwards only what the kept
exception says (`OnceInv`). All that `inpaint_image` does around it moves one
caller between places outside of it, which is one lemma (`OutsideStep`).

The other three rest on arithmetic about one column: what `Resized` samples lies
in the source (`SamplesInside`, from `Division`), a size scaled to the canvas
fits it (`ScaledFits`, `ShortenedFits`), and scaling down and back up returns to
where it began (`ThereAndBack`, `Hit`), which is where "up to twice the canvas"
comes from. `ImageInv` then says what the buffers of a call hold in each place.

### CacheKeyProofs

| Theorem | States |
|---|---|
| `KeysAreToldApart` | `Spec => []KeysTellApart` |
| `KeyTypes` | `Spec => []TypeOK` |
| `PadsAsTheStandard` | `ShaSpec => []DigestIsStandard` |
| `BuilderUsesHasher` | `Spec => ShaSpec`, so the line before holds in the builder |
| `EncodedInjective` | no two lists of typed fields feed the same bytes |
| `StandardUnique` | a padded message determines the message |

For chunks, length fields, words and bytes of any size, any texts, numbers,
hashes, LoRA stacks, nodes and lists of fields, and any number of keys. The
hasher's invariant is `Streamed`: state, buffer and unread data are together the
message, only whole chunks are in the state, the buffer is not full, and the bit
counter counts modulo its width. `AbsorbStep` moves a prefix of the data
(`Moved`); `FinalizeStep` shows that both cases of the padding add the marker
and fewer zeros than a chunk (`PaddedIsFilling`) and that the result is a
multiple of the chunk.

`KeysTellApart` speaks of finished keys only. `KeyInv` says what leads there: at
any time the message so far and the pieces that are still to come are together
the message of the request, and a finished key's message is the whole of it.
What remains is that this message determines what it was made of. A field's
bytes never begin another's (`PrefixFree`): the tag gives the kind, the kind the
number of words, a string's word its size; and words determine their numbers
(`WordInjective`, digit by digit). Without the size the theorem would be false,
which is the mutant `PiecesUnsized`. Hence equal messages come from equal lists
(`EncodedInjective`). That equal lists come from nodes that agree in what
matters, paths as `normalize_path` leaves them, is `GenerateDecoded`, `AgreeGiven`
and `SmartFillDecoded`: the LoRA count, the empty
path of a ControlNet and the text "no input" against a hash tell how many fields
follow, and a connected op's hash is never the 0 of "not connected".

A key is the concatenation (`FlattenSeq`, a recursive definition) of as many
pieces as its request has, so lengths and digits need induction. The library's
induction theorems take operators as parameters, which the provers cannot
instantiate; `Induction` is over *sets* of numbers instead, obtained from a least
element (`LeastNumber`, from the library's well-foundedness of `<`), and
`UnfoldingExists` and `UnfoldingUnique` give `FlattenSeq` its defining equation
from it. Of arithmetic it is assumed what it means to be a power
(`PowerAssumption`, `WordAssumption`), beside `Sha256Assumption` on the sizes and
`CacheKeyAssumption` above; TLC evaluates all four.

### AiCacheProofs

| Theorem | Property |
|---|---|
| `Types` | `TypeOK` |
| `ClearIsComplete` | `ClearLeavesForeignOnly` |
| `PruneIsExact` | `PruneLeavesNewest` |

For any keys (finitely many), foreign files, callers, limits and bounds. For
`clear` it is enough that what is there is still to be read (`ClearInv`). For
`prune` the difficulty is that several calls remove entries from one directory,
each by the list it made itself. The invariant calls an entry *spent* when it is
over the age limit or `max_entries` newer ones are still there, and says of each
undisturbed call that whatever has gone since it began is spent (`SinceInv`)
and whatever it is going to remove is spent too (`ProgressInv`). Two lemmas
carry the proof. `SpentStays`: an entry stays spent when another spent one goes
before it, because either the other one was too old, and so is the older one, or
`max_entries` newer ones count against both. `SurplusIsSpent`: what the sort puts
past the first `max_entries` is spent even if some of the first have gone
meanwhile. Both need that images have different write times; with two equal
ones two prunes can remove one each, which `TimesDiffer` excludes in the model.

### Only model-checked

* `CallsReturn`, `CallsEnd`, `PollKeepsUp`, `HandlersReturn` and the
  liveness half of `ImplementsJob`: liveness is outside what the proof system
  handles. Every invariant that a passing run checks is also a theorem, and
  `TypeOK` of the two ops is a theorem (`Types`) that no run repeats.
* What several writers of one path, or several nodes in one session
  that is not settled, can still rely on: beyond the theorems above nothing is
  claimed for every number of them.

## 5. Disagreements without a run of their own

TLC refutes these formulas too, which the modules state for the purpose; each
with the constants of the smallest instance that shows it.

| Formula | Instance | The repository says | The code does |
|---|---|---|---|
| `AiWorker!RunningHasThread` | `MaxRuns` 1, `MaxProgress` 1 | `ai_worker.h:53` "Transitions out of Running are made by the worker thread." | `start()` (`ai_worker.cpp:53`, `:72`) sets Running before it constructs the thread; if that throws there is none, and `reset` and `start` refuse for good |
| `ImageCache!PublishedWhole` | 2 writers, no reader, 3 blocks, 2 writes, no kill | `image_cache.cpp:101-104` "either sees the old file or the new one, never a half-written one" | the temporary name is path + ".tmp" for everyone (`:105`): two writers of one key fill one file, and the first to finish renames it under the other |
| `ImageCache!NeverVanishes` | 1 writer, 1 reader, 2 writes | `image_cache.cpp:103` "a concurrent reader either sees the old file or the new one" | the destination is removed first (`:144`); between remove and rename there is no file |
| `ImageCache!FalseLeavesNoPartial` | 1 writer, 1 reader, 2 blocks, 2 writes, no kill | `image_cache.h:40` "On failure, leaves no partial file on disk" | the removals of the `.tmp` after a failed write (`image_cache.cpp:135`) or rename (`:151`) can fail too, and nobody reads their error |
| `ImageCache!PublishedWhole` without its `flushLost` | 1 writer, 1 write | `image_cache.h:40-42` "On failure, leaves no partial file on disk" | the destructor's flush after the last `out.good()` can fail unseen (`:131-138`) |
| `SmartFill!BakeConsumed` | 1 node, 1 input, 1 model | tooltip, `AISmartFill.cpp:301-305`: Refresh Viewer "Should not be needed in normal use" | a second press of Bake sets "Already cooking" (`:700`), which holds no marker of the timer: the job's end stays unreported |
| `SmartFill!UnreadableRebakes` | 1 node, 1 input, 1 model | `AISmartFill.cpp:577` "cache file unreadable (%s); will re-bake on next press" | Bake asks only whether the file exists (`:734`) and answers "Already cached" |
| `SmartFill!CookingMeansJob` | 1 node, 1 input, 1 model | `ai_worker.h:25` "The timer auto-deregisters when no nodes report Cooking state." | the status knob is saved with the script (`:294`); reopened during a bake it says Cooking for ever |
| `SdSession!CancelStopsSampling` | 1 caller, 1 path, 2 steps | `sd_session.h:149-151` "will return false ... at the next sd.cpp progress callback boundary" | the callback sets a flag that is read after `generate_image` (`sd_session.cpp:92`, `:415`) |
| `Generate!FilesOfOwnModel` | 2 nodes, 2 models, no LoRA, no edit | help text, `AIGenerate.cpp:61-62`: cached by "prompt + seed + steps + dimensions + model files" | another node's `ensure_loaded` comes between `ensure_loaded` (`:1400`) and `generate` (`:1439`) |
| `Generate!NoForeignCancel` | 2 nodes, 1 model | `sd_session.cpp:49-50` "We serialize SdSession use via this state." | a second call replaces the callback (`:279`); its cancel ends the first call as cancelled |
| `Generate!FilesOfOwnLora` | 1 node, 1 model, 1 LoRA, 1 edit | `AIGenerate.cpp:981-983` "LoRAs are part of the input identity" | missing files are dropped (`:1362-1377`) after the key was computed (`:1327`) |
| `Generate!CookingStartsJob` | 1 node, 1 model | `ai_worker.h:131-132` `start` refuses only "if a task is already running" | it refuses in Done, Error and Cancelled too; `start_bake` ignores the answer (`:1387`) |
| `Generate!EndIsNoticed` | 1 node, 1 model, no edit, `BumpsRevision` FALSE | `menu.py:45-48` the poll "ensures poll_worker() runs in C++ to detect worker thread completion" | as in `SmartFill_menu`: `forceValidate` on an unchanged node does nothing (`menu.py:63`) |
| `Generate!SeedSurvives` | 1 node, seeds 0 and 1 | `AIGenerate.cpp:195-196` the seed "survives node serialization" | nothing reads the knob back; the constructor sets 0 (`:128`) |
| `CacheKey!StrengthIsKeyed` | constants of `CacheKey_collision`, `MCCacheKey` | `AIGenerate.cpp:992-996` "strength has no effect, but we still include both in the key" | without an input the strength is not added (`:999-1007`); the image is the same, so it is the comment that is wrong |
| `LamaTiler!ShownWhereAskedAnySize` | 1 caller, canvas of 4, image 9x1 | `lama_tiler.h:8-10` "composite only over the masked pixels", as `run` was told of them | above twice the canvas (1024 pixels) bilinear downsampling skips pixels: a mask of single columns may not reach the network (`lama_tiler.cpp:204`), whose result is shown there all the same |

Read in the source and not stated as formulas:

* `active_backend()` before the first `run` is `Cpu` (`lama_session.cpp:33`,
  `:206`); the header says "returns the preferred backend if never run".
* `ai_cache.cpp:9-10` "error_code overloads exclusively, so no exception escapes
  from any cache call": the loops over the directory (`:214`, `:249`) step with
  `operator++`, which throws. `ScanThrows` is that exception.
* `prune` is announced as "Cheap LRU" (`ai_cache.h:128`); `lookup` leaves the
  write time alone, so it is first in, first out.
* `prune` counts a file that it could not remove, drops its sidecar and does not
  count it against `max_entries` (`ai_cache.cpp:282-289`); `clear` counts files,
  not entries.
* `prune` decides by the write times of its scan: an entry stored again since
  then is removed fresh. Of two entries with equal times two prunes may remove
  one each.
* `ai_cache.h:9` lists the model's mtime as part of the key. Neither op adds it:
  a replaced model file keeps its old results. `KeysTellApart` compares the names
  of files, not what they hold.

## 6. Not modelled, and why

* `engine()` running beside `_validate` on another thread: whether Nuke does
  that to one op instance is not in this repository.
* `image_cache_inspect`, plugin path lookup, DLL bootstrap: no state.
* Presets and ControlNet scripts, build, packaging: they do not take part at
  run time; which `menu.py` is deployed is a constant of `SmartFill` and `Generate`.
* The compression function of SHA-256 (`transform`) and float rounding in the
  tiler: values, not control.
* The lookup of effective paths on disk (`compute_effective_paths`), which
  AIGenerate does once for the bake and again for the key: the models take paths
  as knob values.
* Knob layout, texts, logging, pixel conversion.

## 7. Plan

Order of the work, the most important behaviour first; done: 1 to 5.

1. `JobLifecycle`, `AiWorker`, `AiWorkerProofs`: everything else rests on them.
2. `ImageCache`: the channel through which all results travel.
3. `SmartFill` with timer and restarts, one node and two.
4. `SdSession` by contract, `Generate` without it.
5. `LamaSession` with concurrent callers and `LamaTiler` on top of it; `Sha256`,
   `CacheKey`; `AiCache`.
6. An abstract cache directory that `ImageCache` implements and that `SmartFill`
   and `Generate` use by name; `engine()` against the main thread as a parameter.
7. Proofs. Done: every safety property that a passing run checks, for all
   constants, and that the ops use their workers as `AiWorker` allows. Left: the
   abstract directory of 6, and what several writers of one path still get.

Runs are kept to one per question. A formula that TLC refutes for a reason
already understood needs no run of its own and is listed in section 5.

## 8. Running it

    tlc -workers 2 -config AiWorker_safety.cfg AiWorker
    tlc -workers 2 -config SmartFill_two.cfg MCSmartFill
    tlapm AiWorkerProofs.tla
    tlapm LamaProofs.tla
    tlapm CacheKeyProofs.tla
    tlapm ImageCacheProofs.tla
    tlapm SmartFillProofs.tla
    tlapm SdSessionProofs.tla
    tlapm GenerateProofs.tla
    tlapm AiCacheProofs.tla

Each run takes from a few seconds to a good two minutes and the proofs take a few
minutes. A formula of section 5 is checked by naming it in a copy of the
configuration with the constants given there.
