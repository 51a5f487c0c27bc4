------------------------------ MODULE AiWorker ------------------------------
(***************************************************************************)
(* core/include/ai_worker.h, core/src/ai_worker.cpp: the background job    *)
(* runner of both ops.  The owner (Nuke's main thread) calls start,        *)
(* cancel, join, reset and the destructor one after the other; each call   *)
(* is cut where the worker thread can run in between.  Every successful    *)
(* start is a "run" with a number; its thread has its own program counter, *)
(* so that a thread left over from an earlier run is a state the model     *)
(* could reach.  Loads and stores of the atomics and the two mutexes are   *)
(* sequentially consistent steps.                                          *)
(***************************************************************************)
EXTENDS Integers, FiniteSets

CONSTANTS
  MaxRuns,        \* bound: how often start() passes its compare-exchange
  MaxProgress     \* progress 0.0 .. 1.0 is 0 .. MaxProgress

ASSUME WorkerAssumption ==
  /\ MaxRuns \in Nat \ {0}
  /\ MaxProgress \in Nat \ {0}

VARIABLES
  state,          \* AiWorkerState
  cancelRequest,  \* AiWorkerContext::cancel_request_
  progress,       \* AiWorkerContext::progress_
  statusText,     \* AiWorkerContext::status_text_
  errorMessage,   \* the run whose exception text is stored, or 0
  thread,         \* thread_: the run whose thread is joinable, or 0
  terminated,     \* std::terminate(): a joinable std::thread overwritten
  mainPc,         \* where the owner is: "ready" between two calls
  run,            \* number of the latest run
  workerPc,       \* [Runs -> where the run's thread is]
  finalState,     \* [Runs -> the local final_state of run()]
  cancelled       \* history: runs that got a cancel() before they looked

ownerVars == <<thread, terminated, mainPc, run>>
contextVars == <<cancelRequest, progress, statusText>>
threadVars == <<workerPc, finalState>>
vars == <<state, errorMessage, cancelled, contextVars, ownerVars, threadVars>>

Runs == 1 .. MaxRuns
Terminal == {"Done", "Error", "Cancelled"}
States == {"Idle", "Running"} \cup Terminal
Texts == {"", "Starting", "task"}      \* "task": any text the lambda sets

MainPcs == {"ready", "start_clear", "start_join", "start_launch",
            "reset_join", "reset_clear", "join", "dtor_join", "gone"}
WorkerPcs == {"unborn", "task", "check", "store_error", "publish",
              "published", "exited"}

Live(r) == workerPc[r] \notin {"unborn", "exited"}

Init ==
  /\ state = "Idle"
  /\ cancelRequest = FALSE
  /\ progress = 0
  /\ statusText = ""
  /\ errorMessage = 0
  /\ thread = 0
  /\ terminated = FALSE
  /\ mainPc = "ready"
  /\ run = 0
  /\ workerPc = [r \in Runs |-> "unborn"]
  /\ finalState = [r \in Runs |-> "Done"]
  /\ cancelled = {}

-----------------------------------------------------------------------------
(* Mutant: progress stored as reported. *)
ClampNot(p) == p

(* set_progress clamps what the lambda reports. *)
Clamp(p) == IF p < 0 THEN 0 ELSE IF p > MaxProgress THEN MaxProgress ELSE p

(* thread_.joinable() with the thread still running blocks the caller. *)
Joinable == thread # 0
(* Mutant: detach() where the code joins. *)
CanJoinAtOnce == TRUE

CanJoin == Joinable => ~ Live(thread)

-----------------------------------------------------------------------------
(* start() *)

(* The compare-exchange fails: start() returns false. *)
StartRefused ==
  /\ mainPc = "ready"
  /\ state # "Idle"
  /\ UNCHANGED vars

StartCas ==
  /\ mainPc = "ready"
  /\ state = "Idle"
  /\ run < MaxRuns
  /\ state' = "Running"
  /\ run' = run + 1
  /\ mainPc' = "start_clear"
  /\ UNCHANGED <<errorMessage, cancelled, contextVars, thread, terminated,
                 threadVars>>

(* Mutant: start() keeps the cancel request it finds. *)
StartClearKeepsCancel ==
  /\ mainPc = "start_clear"
  /\ progress' = 0
  /\ statusText' = "Starting"
  /\ mainPc' = "start_join"
  /\ UNCHANGED <<state, errorMessage, cancelled, cancelRequest, thread,
                 terminated, run, threadVars>>

(* clear_cancel_for_run, set_progress(0), set_status_text("Starting") *)
StartClear ==
  /\ mainPc = "start_clear"
  /\ cancelRequest' = FALSE
  /\ progress' = 0
  /\ statusText' = "Starting"
  /\ mainPc' = "start_join"
  /\ UNCHANGED <<state, errorMessage, cancelled, thread, terminated, run,
                 threadVars>>

StartJoin ==
  /\ mainPc = "start_join"
  /\ CanJoin
  /\ thread' = 0
  /\ mainPc' = "start_launch"
  /\ UNCHANGED <<state, errorMessage, cancelled, contextVars, terminated, run,
                 threadVars>>

(* thread_ = std::thread(...): overwriting a joinable thread terminates. *)
StartLaunch ==
  /\ mainPc = "start_launch"
  /\ workerPc' = [workerPc EXCEPT ![run] = "task"]
  /\ thread' = run
  /\ terminated' = Joinable
  /\ mainPc' = "ready"
  /\ UNCHANGED <<state, errorMessage, cancelled, contextVars, run, finalState>>

(* The std::thread constructor throws system_error: the exception leaves   *)
(* start() with state_ already Running.                                    *)
StartLaunchThrows ==
  /\ mainPc = "start_launch"
  /\ mainPc' = "ready"
  /\ UNCHANGED <<state, errorMessage, cancelled, contextVars, thread,
                 terminated, run, threadVars>>

-----------------------------------------------------------------------------
(* cancel(), join(), reset(), ~AiWorker() *)

(* History: the current run can still notice this request. *)
NoteCancel ==
  cancelled' = cancelled \cup {r \in {run} \cap Runs : workerPc[r] \in {"task", "check"}}

Cancel ==
  /\ mainPc = "ready"
  /\ cancelRequest' = TRUE
  /\ NoteCancel
  /\ UNCHANGED <<state, errorMessage, progress, statusText, ownerVars,
                 threadVars>>

JoinCall ==
  /\ mainPc = "ready"
  /\ Joinable
  /\ mainPc' = "join"
  /\ UNCHANGED <<state, errorMessage, cancelled, contextVars, thread,
                 terminated, run, threadVars>>

JoinReturn ==
  /\ mainPc = "join"
  /\ CanJoin
  /\ thread' = 0
  /\ mainPc' = "ready"
  /\ UNCHANGED <<state, errorMessage, cancelled, contextVars, terminated, run,
                 threadVars>>

(* reset() returns at once from Idle and from Running. *)
ResetIgnored ==
  /\ mainPc = "ready"
  /\ state \in {"Idle", "Running"}
  /\ UNCHANGED vars

ResetCall ==
  /\ mainPc = "ready"
  /\ state \in Terminal
  /\ mainPc' = "reset_join"
  /\ UNCHANGED <<state, errorMessage, cancelled, contextVars, thread,
                 terminated, run, threadVars>>

(* Mutant: reset() does not wait for the thread. *)
ResetJoinDetaches ==
  /\ mainPc = "reset_join"
  /\ thread' = 0
  /\ mainPc' = "reset_clear"
  /\ UNCHANGED <<state, errorMessage, cancelled, contextVars, terminated, run,
                 threadVars>>

ResetJoin ==
  /\ mainPc = "reset_join"
  /\ CanJoin
  /\ thread' = 0
  /\ mainPc' = "reset_clear"
  /\ UNCHANGED <<state, errorMessage, cancelled, contextVars, terminated, run,
                 threadVars>>

(* No thread is left to observe the stores one by one. *)
ResetClear ==
  /\ mainPc = "reset_clear"
  /\ errorMessage' = 0
  /\ progress' = 0
  /\ statusText' = ""
  /\ state' = "Idle"
  /\ mainPc' = "ready"
  /\ UNCHANGED <<cancelRequest, cancelled, thread, terminated, run, threadVars>>

(* ~AiWorker(): cancel(), then join(). *)
DtorCancel ==
  /\ mainPc = "ready"
  /\ cancelRequest' = TRUE
  /\ NoteCancel
  /\ mainPc' = "dtor_join"
  /\ UNCHANGED <<state, errorMessage, progress, statusText, thread, terminated,
                 run, threadVars>>

(* Mutant: the destructor detaches a thread that is still running. *)
DtorJoinDetaches ==
  /\ mainPc = "dtor_join"
  /\ thread' = 0
  /\ mainPc' = "gone"
  /\ UNCHANGED <<state, errorMessage, cancelled, contextVars, terminated, run,
                 threadVars>>

DtorJoin ==
  /\ mainPc = "dtor_join"
  /\ CanJoin
  /\ thread' = 0
  /\ mainPc' = "gone"
  /\ UNCHANGED <<state, errorMessage, cancelled, contextVars, terminated, run,
                 threadVars>>

-----------------------------------------------------------------------------
(* run(task), on the thread of run r *)

(* The lambda reports through the AiWorkerContext it was given. *)
TaskReport(r) ==
  /\ workerPc[r] = "task"
  /\ \E p \in -1 .. MaxProgress + 1 : progress' = Clamp(p)
  /\ statusText' = "task"
  /\ UNCHANGED <<state, errorMessage, cancelled, cancelRequest, ownerVars,
                 threadVars>>

TaskReturn(r) ==
  /\ workerPc[r] = "task"
  /\ workerPc' = [workerPc EXCEPT ![r] = "check"]
  /\ UNCHANGED <<state, errorMessage, cancelled, contextVars, ownerVars,
                 finalState>>

(* Mutant: the message is dropped on the way to the state. *)
TaskThrowNoMessage(r) ==
  /\ workerPc[r] = "task"
  /\ workerPc' = [workerPc EXCEPT ![r] = "publish"]
  /\ finalState' = [finalState EXCEPT ![r] = "Error"]
  /\ UNCHANGED <<state, errorMessage, cancelled, contextVars, ownerVars>>

(* Both catch clauses: final_state = Error, err = what the run threw. *)
TaskThrow(r) ==
  /\ workerPc[r] = "task"
  /\ workerPc' = [workerPc EXCEPT ![r] = "store_error"]
  /\ finalState' = [finalState EXCEPT ![r] = "Error"]
  /\ UNCHANGED <<state, errorMessage, cancelled, contextVars, ownerVars>>

(* Mutant: a task that returns is Done whatever was asked. *)
CheckCancelNever(r) ==
  /\ workerPc[r] = "check"
  /\ workerPc' = [workerPc EXCEPT ![r] = "publish"]
  /\ finalState' = [finalState EXCEPT ![r] = "Done"]
  /\ UNCHANGED <<state, errorMessage, cancelled, contextVars, ownerVars>>

(* if (context_.should_cancel()) final_state = Cancelled *)
CheckCancel(r) ==
  /\ workerPc[r] = "check"
  /\ workerPc' = [workerPc EXCEPT ![r] = "publish"]
  /\ finalState' = [finalState EXCEPT ![r] = IF cancelRequest THEN "Cancelled"
                                                              ELSE "Done"]
  /\ UNCHANGED <<state, errorMessage, cancelled, contextVars, ownerVars>>

StoreError(r) ==
  /\ workerPc[r] = "store_error"
  /\ errorMessage' = r
  /\ workerPc' = [workerPc EXCEPT ![r] = "publish"]
  /\ UNCHANGED <<state, cancelled, contextVars, ownerVars, finalState>>

(* Mutant: a cancelled run goes away without leaving Running. *)
PublishUnlessCancelled(r) ==
  /\ workerPc[r] = "publish"
  /\ state' = IF finalState[r] = "Cancelled" THEN state ELSE finalState[r]
  /\ workerPc' = [workerPc EXCEPT ![r] = "published"]
  /\ UNCHANGED <<errorMessage, cancelled, contextVars, ownerVars, finalState>>

(* state_.store(final_state), the last thing run() does. *)
Publish(r) ==
  /\ workerPc[r] = "publish"
  /\ state' = finalState[r]
  /\ workerPc' = [workerPc EXCEPT ![r] = "published"]
  /\ UNCHANGED <<errorMessage, cancelled, contextVars, ownerVars, finalState>>

(* Mutant: the worker waits to be released by the owner. *)
ThreadExitReleased(r) ==
  /\ workerPc[r] = "published"
  /\ thread # r
  /\ workerPc' = [workerPc EXCEPT ![r] = "exited"]
  /\ UNCHANGED <<state, errorMessage, cancelled, contextVars, ownerVars,
                 finalState>>

ThreadExit(r) ==
  /\ workerPc[r] = "published"
  /\ workerPc' = [workerPc EXCEPT ![r] = "exited"]
  /\ UNCHANGED <<state, errorMessage, cancelled, contextVars, ownerVars,
                 finalState>>

-----------------------------------------------------------------------------
(* The owner may call anything between two calls ... *)
OwnerCall ==
  \/ StartRefused \/ StartCas \/ Cancel \/ JoinCall
  \/ ResetIgnored \/ ResetCall \/ DtorCancel

(* ... and then goes on until the call returns. *)
OwnerStep ==
  \/ StartClear \/ StartJoin \/ StartLaunch \/ StartLaunchThrows
  \/ JoinReturn \/ ResetJoin \/ ResetClear \/ DtorJoin

(* The steps of run() other than reporting: they end the run. *)
WorkerStep(r) ==
  \/ TaskReturn(r) \/ TaskThrow(r) \/ CheckCancel(r)
  \/ StoreError(r) \/ Publish(r) \/ ThreadExit(r)

(* The object is destroyed: nothing more happens. *)
Destroyed == mainPc = "gone" /\ UNCHANGED vars

Next ==
  \/ OwnerCall
  \/ OwnerStep
  \/ \E r \in Runs : TaskReport(r) \/ WorkerStep(r)
  \/ Destroyed

SafeSpec == Init /\ [][Next]_vars

(* The scheduler runs every thread that can run, and a task (an inference  *)
(* over finitely many steps) returns or throws.  Nothing obliges the owner *)
(* to make a call.                                                         *)
Fairness ==
  /\ WF_vars(OwnerStep)
  /\ \A r \in Runs : WF_vars(WorkerStep(r))

Spec == SafeSpec /\ Fairness

-----------------------------------------------------------------------------
(* Every variable stays within the values the fields can hold. *)
TypeOK ==
  /\ state \in States
  /\ cancelRequest \in BOOLEAN
  /\ progress \in 0 .. MaxProgress
  /\ statusText \in Texts
  /\ errorMessage \in 0 .. MaxRuns
  /\ thread \in 0 .. MaxRuns
  /\ terminated \in BOOLEAN
  /\ mainPc \in MainPcs
  /\ run \in 0 .. MaxRuns
  /\ workerPc \in [Runs -> WorkerPcs]
  /\ finalState \in [Runs -> Terminal]
  /\ cancelled \in SUBSET Runs

(* reset() hands back a worker with no trace of the run before: no thread  *)
(* still on its way out, nothing left of its message, text or progress.    *)
IdleIsQuiescent ==
  state = "Idle" =>
    /\ \A r \in Runs : ~ Live(r)
    /\ thread = 0
    /\ errorMessage = 0 /\ progress = 0 /\ statusText = ""

(* At most one thread is inside run(), and it is the one of thread_.       *)
OneThread ==
  /\ \A r \in Runs : Live(r) => thread = r
  /\ ~ terminated

(* The destructor lets no thread outlive the object it writes to.          *)
NoUseAfterFree == mainPc = "gone" => \A r \in Runs : ~ Live(r)

(* error_message() read after seeing Error is the message of the very run  *)
(* that failed: run() stores it before it publishes the state.             *)
ErrorPublished == state = "Error" => errorMessage = run

(* A run ends Cancelled only if cancel() was called during that run: a     *)
(* request left over from the run before is cleared by start().            *)
NoStaleCancel ==
  \A r \in Runs : finalState[r] = "Cancelled" => r \in cancelled

(* A request made before run() looks at the flag is never lost: the run    *)
(* does not come out as Done.                                              *)
CancelHonoured ==
  \A r \in cancelled : workerPc[r] \in {"publish", "published", "exited"} =>
                         finalState[r] # "Done"

(* What the header says of Running: the worker thread is there to leave    *)
(* it.  Not so after a failed launch.                                      *)
RunningHasThread ==
  mainPc = "ready" /\ state = "Running" => Live(run)

(* Every call of the owner returns: no join() waits for ever.              *)
CallsReturn == mainPc \notin {"ready", "gone"} ~> mainPc \in {"ready", "gone"}

-----------------------------------------------------------------------------
(* The refinement: a run counts as begun once its thread is launched.      *)
Launched == run # 0 /\ workerPc[run] # "unborn"

Phase == IF mainPc = "gone" THEN "Destroyed"
         ELSE IF state = "Running" /\ ~ Launched THEN "Idle"
         ELSE state
JobNumber == IF run = 0 \/ Launched THEN run ELSE run - 1
Report == IF mainPc # "gone" /\ state = "Error" THEN errorMessage ELSE 0

Job == INSTANCE JobLifecycle WITH phase <- Phase, job <- JobNumber, report <- Report

(* AiWorker implements the life cycle of the header's diagram, with the    *)
(* liveness: a launched job ends.                                          *)
ImplementsJob == Job!Spec
=============================================================================
