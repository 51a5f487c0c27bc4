----------------------------- MODULE SdSession ------------------------------
(***************************************************************************)
(* core/include/sd_session.h, core/src/sd_session.cpp: the one session of  *)
(* the process (AIGenerate's get_session()) with the sd.cpp context it     *)
(* owns and the global state behind sd.cpp's progress callback.  Callers   *)
(* are worker threads that call ensure_loaded() and, if it succeeds,       *)
(* generate().  ensure_loaded() is cut between its reuse test, its test of *)
(* the context, free_sd_ctx, the reset after it, the store of the paths    *)
(* and new_sd_ctx; generate() between its check, generate_image's start,   *)
(* every progress callback, its end with the removal of the callback, and  *)
(* the look at the cancel flag.                                            *)
(*                                                                         *)
(* Next keeps to the header's rule that calls of several threads do not    *)
(* interleave; a module that drives the session otherwise uses the actions *)
(* without Exclusive.                                                      *)
(***************************************************************************)
EXTENDS Naturals

CONSTANTS
  Callers,      \* worker threads
  Paths,        \* sets of model files
  Steps,        \* sampling steps of generate_image
  NoPaths,      \* nullptr context, no files stored
  NoCaller      \* no callback

ASSUME SessionAssumption ==
  /\ NoPaths \notin Paths
  /\ NoCaller \notin Callers
  /\ Steps \in Nat \ {0}

VARIABLES
  session,      \* Impl: the context (as what it was made of), whether its memory
                \*   is freed and the pointer still there, loaded, loaded_paths
  cb,           \* g_cb_state
  call          \* [Callers -> the call it is in]

sessionVars == <<session, cb, call>>

OptPaths == Paths \cup {NoPaths}

(* What became of the call: not known yet, false, false with "cancelled",  *)
(* or an image made with the context of some files.                        *)
Pending == [kind |-> "pending", made |-> NoPaths]
Failed == [kind |-> "failed", made |-> NoPaths]
CancelledResult == [kind |-> "cancelled", made |-> NoPaths]
Image(p) == [kind |-> "image", made |-> p]

NoSession == [ctx |-> NoPaths, dangling |-> FALSE, loaded |-> FALSE, paths |-> NoPaths]

(* Of the context a call samples with: ctx says what it was made of, held  *)
(* that the session still has it, freed that its memory is gone.           *)
NoCall ==
  [pc |-> "idle", paths |-> NoPaths, ctx |-> NoPaths, held |-> FALSE, freed |-> FALSE,
   alone |-> TRUE, steps |-> 0, cancel |-> FALSE, told |-> FALSE, asked |-> FALSE,
   result |-> Pending]

Entered(p) == [NoCall EXCEPT !.pc = "ensure", !.paths = p]

SessionInit ==
  /\ session = NoSession
  /\ cb = [inUse |-> FALSE, callback |-> NoCaller, cancel |-> FALSE]
  /\ call = [c \in Callers |-> NoCall]

In(c, pc) == call[c].pc = pc
Sampling(o) == In(o, "sampling")
SetCall(c, r) == call' = [call EXCEPT ![c] = r]
Return(c, result) == SetCall(c, [call[c] EXCEPT !.pc = "returned", !.result = result])

-----------------------------------------------------------------------------
(* The callers *)

Exclusive(c) == \A o \in Callers \ {c} : In(o, "idle")

Enter(c, p) ==
  /\ In(c, "idle")
  /\ SetCall(c, Entered(p))
  /\ UNCHANGED <<session, cb>>

(* The flag the caller's on_progress reads is set. *)
WantCancel(c) ==
  /\ ~ In(c, "idle")
  /\ SetCall(c, [call[c] EXCEPT !.cancel = TRUE])
  /\ UNCHANGED <<session, cb>>

(* "Call generate() one or more times": once more for the same files.      *)
GenerateAgain(c) ==
  /\ In(c, "returned")
  /\ SetCall(c, [Entered(call[c].paths) EXCEPT !.pc = "loaded"])
  /\ UNCHANGED <<session, cb>>

Leave(c) ==
  /\ In(c, "returned")
  /\ SetCall(c, NoCall)
  /\ UNCHANGED <<session, cb>>

(* request_cancel(), from any thread at any time. *)
RequestCancel ==
  /\ cb' = [cb EXCEPT !.cancel = TRUE]
  /\ call' = [c \in Callers |->
       IF call[c].pc \in {"installed", "sampling", "detached"}
         THEN [call[c] EXCEPT !.asked = TRUE]
         ELSE call[c]]
  /\ UNCHANGED session

-----------------------------------------------------------------------------
(* ensure_loaded() *)

(* Mutant: the paths are not compared. *)
ReusableAny(p) == session.loaded

Reusable(p) == session.loaded /\ session.paths = p

EnsureReuse(c) ==
  /\ In(c, "ensure")
  /\ Reusable(call[c].paths)
  /\ SetCall(c, [call[c] EXCEPT !.pc = "loaded"])
  /\ UNCHANGED <<session, cb>>

(* The answer no is kept; what is freed is looked up later. *)
EnsureStale(c) ==
  /\ In(c, "ensure")
  /\ ~ Reusable(call[c].paths)
  /\ SetCall(c, [call[c] EXCEPT !.pc = "free"])
  /\ UNCHANGED <<session, cb>>

NothingToFree(c) ==
  /\ In(c, "free")
  /\ session.ctx = NoPaths
  /\ SetCall(c, [call[c] EXCEPT !.pc = "store"])
  /\ UNCHANGED <<session, cb>>

(* free_sd_ctx(impl_->ctx): whoever samples with that context goes on with *)
(* freed memory.                                                           *)
AfterFree(c) ==
  [o \in Callers |->
     IF o = c THEN [call[c] EXCEPT !.pc = "freeing"]
     ELSE IF Sampling(o) /\ call[o].held THEN [call[o] EXCEPT !.freed = TRUE]
     ELSE call[o]]

EnsureFree(c) ==
  /\ In(c, "free")
  /\ session.ctx # NoPaths
  /\ session' = [session EXCEPT !.dangling = TRUE]
  /\ call' = AfterFree(c)
  /\ UNCHANGED cb

(* The session's pointer is overwritten: a context that another call has   *)
(* stored since, and samples with, is nobody's to free any more.           *)
AfterOverwrite(c, pc) ==
  [o \in Callers |->
     IF o = c THEN [call[c] EXCEPT !.pc = pc]
     ELSE IF Sampling(o) THEN [call[o] EXCEPT !.held = FALSE]
     ELSE call[o]]

(* Mutant: ctx and loaded are left as they were after the free. *)
FreeKeepsContext(c) ==
  /\ In(c, "freeing")
  /\ call' = AfterOverwrite(c, "store")
  /\ UNCHANGED <<session, cb>>

(* ctx = nullptr; loaded = false *)
EnsureNull(c) ==
  /\ In(c, "freeing")
  /\ session' = [session EXCEPT !.ctx = NoPaths, !.dangling = FALSE, !.loaded = FALSE]
  /\ call' = AfterOverwrite(c, "store")
  /\ UNCHANGED cb

StorePaths(c) ==
  /\ In(c, "store")
  /\ session' = [session EXCEPT !.paths = call[c].paths]
  /\ SetCall(c, [call[c] EXCEPT !.pc = "creating"])
  /\ UNCHANGED cb

(* new_sd_ctx reads the stored paths, which another caller may have        *)
(* replaced.                                                               *)
Create(c) ==
  /\ In(c, "creating")
  /\ \E p \in {call[c].paths, session.paths} :
       session' = [session EXCEPT !.ctx = p, !.dangling = FALSE, !.loaded = TRUE]
  /\ call' = AfterOverwrite(c, "loaded")
  /\ UNCHANGED cb

CreateFails(c) ==
  /\ In(c, "creating")
  /\ Return(c, Failed)
  /\ UNCHANGED <<session, cb>>

-----------------------------------------------------------------------------
(* generate() *)

GenerateRefused(c) ==
  /\ In(c, "loaded")
  /\ ~ session.loaded \/ session.ctx = NoPaths
  /\ Return(c, Failed)
  /\ UNCHANGED <<session, cb>>

(* Mutant: the request of an earlier call is not cleared. *)
InstallKeepsCancel(c) ==
  /\ In(c, "loaded")
  /\ session.loaded /\ session.ctx # NoPaths
  /\ cb' = [cb EXCEPT !.inUse = TRUE, !.callback = c]
  /\ SetCall(c, [call[c] EXCEPT !.pc = "installed"])
  /\ UNCHANGED session

(* The check that there is a context; clear the cancel request, set the    *)
(* callback.                                                               *)
Install(c) ==
  /\ In(c, "loaded")
  /\ session.loaded /\ session.ctx # NoPaths
  /\ cb' = [inUse |-> TRUE, callback |-> c, cancel |-> FALSE]
  /\ SetCall(c, [call[c] EXCEPT !.pc = "installed"])
  /\ UNCHANGED session

(* generate_image is not made to run twice at a time. *)
AfterStart(c) ==
  [o \in Callers |->
     IF o = c
       THEN [call[c] EXCEPT !.pc = "sampling", !.ctx = session.ctx, !.held = TRUE,
                            !.freed = session.ctx = NoPaths \/ session.dangling,
                            !.alone = \A x \in Callers : ~ Sampling(x)]
     ELSE IF Sampling(o) THEN [call[o] EXCEPT !.alone = FALSE]
     ELSE call[o]]

(* generate_image(impl_->ctx, ...): the pointer is read again. *)
StartSampling(c) ==
  /\ In(c, "installed")
  /\ call' = AfterStart(c)
  /\ UNCHANGED <<session, cb>>

(* progress_callback_thunk: the installed callback reads the flag of the   *)
(* call it belongs to, whichever thread is sampling.                       *)
Sample(c) ==
  LET heard == cb.inUse /\ cb.callback # NoCaller /\ call[cb.callback].cancel IN
  /\ In(c, "sampling")
  /\ call[c].steps < Steps
  /\ cb' = [cb EXCEPT !.cancel = @ \/ heard]
  /\ SetCall(c, [call[c] EXCEPT !.steps = @ + 1, !.told = cb'.cancel])
  /\ UNCHANGED session

(* generate_image returns an image, made with the context it was given or, *)
(* where it ran on freed memory or beside another one, garbage.            *)
Made(c) ==
  {Image(call[c].ctx)} \cup (IF call[c].freed \/ ~ call[c].alone THEN {Image(NoPaths)} ELSE {})

(* Mutant: the request is forgotten together with the callback. *)
DetachClearsCancel(c) ==
  /\ In(c, "sampling")
  /\ call[c].steps = Steps
  /\ cb' = [inUse |-> FALSE, callback |-> NoCaller, cancel |-> FALSE]
  /\ \E result \in Made(c) \cup {Failed} :
       SetCall(c, [call[c] EXCEPT !.pc = "detached", !.result = result])
  /\ UNCHANGED session

(* generate_image returns that image or one without data, seen below. *)
Detach(c) ==
  /\ In(c, "sampling")
  /\ call[c].steps = Steps
  /\ cb' = [cb EXCEPT !.inUse = FALSE, !.callback = NoCaller]
  /\ \E result \in Made(c) \cup {Failed} :
       SetCall(c, [call[c] EXCEPT !.pc = "detached", !.result = result])
  /\ UNCHANGED session

(* generate_image returns NULL, at any step. *)
DetachFailed(c) ==
  /\ In(c, "sampling")
  /\ cb' = [cb EXCEPT !.inUse = FALSE, !.callback = NoCaller]
  /\ Return(c, Failed)
  /\ UNCHANGED session

(* The cancel request is looked at; the image is handed over. *)
CheckResult(c) ==
  /\ In(c, "detached")
  /\ Return(c, IF cb.cancel THEN CancelledResult ELSE call[c].result)
  /\ UNCHANGED <<session, cb>>

-----------------------------------------------------------------------------
SessionStep(c) ==
  \/ EnsureReuse(c) \/ EnsureStale(c) \/ NothingToFree(c) \/ EnsureFree(c) \/ EnsureNull(c)
  \/ StorePaths(c) \/ Create(c) \/ CreateFails(c)
  \/ GenerateRefused(c) \/ Install(c) \/ StartSampling(c) \/ Sample(c)
  \/ Detach(c) \/ DetachFailed(c) \/ CheckResult(c)

SessionNext ==
  \/ \E c \in Callers :
       \/ \E p \in Paths : Exclusive(c) /\ Enter(c, p)
       \/ WantCancel(c) \/ GenerateAgain(c) \/ Leave(c) \/ SessionStep(c)
  \/ RequestCancel

SessionSpec == SessionInit /\ [][SessionNext]_sessionVars

-----------------------------------------------------------------------------
Results == [kind : {"pending", "failed", "cancelled", "image"}, made : OptPaths]

(* Fields keep to their ranges. *)
SessionTypeOK ==
  /\ session \in [ctx : OptPaths, dangling : BOOLEAN, loaded : BOOLEAN, paths : OptPaths]
  /\ cb \in [inUse : BOOLEAN, callback : Callers \cup {NoCaller}, cancel : BOOLEAN]
  /\ call \in [Callers ->
       [pc : {"idle", "ensure", "free", "freeing", "store", "creating", "loaded",
              "installed", "sampling", "detached", "returned"},
        paths : OptPaths, ctx : OptPaths, held : BOOLEAN, freed : BOOLEAN, alone : BOOLEAN,
        steps : 0 .. Steps, cancel : BOOLEAN, told : BOOLEAN, asked : BOOLEAN,
        result : Results]]

(* loaded means what the reuse test takes it to mean, through reloads and  *)
(* failed loads: there is a context, and it was made of the stored paths.  *)
LoadedIsContext ==
  session.loaded => session.ctx # NoPaths /\ session.ctx = session.paths

(* A call that ensured some files and got an image got it from a context   *)
(* made of those files.                                                    *)
ImageOfOwnPaths ==
  \A c \in Callers :
    In(c, "returned") /\ call[c].result.kind = "image" => call[c].result.made = call[c].paths

(* generate() answers "cancelled" only if its own callback said so or      *)
(* request_cancel() came while it ran: a request is never inherited.       *)
NoForeignCancel ==
  \A c \in Callers :
    call[c].result.kind = "cancelled" => call[c].cancel \/ call[c].asked

(* A callback that returned false is never overruled: no image comes out.  *)
CancelSeenHonoured ==
  \A c \in Callers :
    In(c, "returned") /\ call[c].told => call[c].result.kind # "image"

(* Nobody samples with a context whose memory was freed, by another call   *)
(* under it or by an earlier one whose reload then failed.                 *)
ContextAlive == \A c \in Callers : Sampling(c) => ~ call[c].freed

(* "The current generate() call will return false ... at the next sd.cpp   *)
(* progress callback boundary" (sd_session.h:149-151): no further step is  *)
(* sampled after a callback that found the request.                        *)
CancelStopsSampling ==
  [][\A c \in Callers : call'[c].steps > call[c].steps => ~ call[c].told]_sessionVars
=============================================================================
