---------------------------- MODULE JobLifecycle ----------------------------
(***************************************************************************)
(* What AiWorker promises to the op that owns it: the phases of JobPhase,  *)
(* with the thread, the cancel flag and the order of the stores hidden.    *)
(* A job's error report appears together with the Error phase and stays    *)
(* until the owner takes the result.                                       *)
(***************************************************************************)
EXTENDS JobPhase, Naturals

CONSTANT MaxRuns        \* bound on the jobs of one behaviour

VARIABLES
  job,                  \* number of the latest job
  report                \* the job whose error message can be read, or 0

vars == <<phase, job, report>>

Init ==
  /\ Unused
  /\ job = 0
  /\ report = 0

(* start(): a job begins. *)
Begin ==
  /\ Starts
  /\ job < MaxRuns
  /\ job' = job + 1
  /\ UNCHANGED report

(* The job ends; an error is reported in the same instant as the phase. *)
Finish ==
  /\ Ends
  /\ report' = IF phase' = "Error" THEN job ELSE 0
  /\ UNCHANGED job

(* reset(): the report goes with the result. *)
Consume ==
  /\ Resets
  /\ report' = 0
  /\ UNCHANGED job

(* ~AiWorker() *)
Destroy ==
  /\ Dies
  /\ report' = 0
  /\ UNCHANGED job

Next == Begin \/ Finish \/ Consume \/ Destroy

SafeSpec == Init /\ [][Next]_vars

(* A job that has begun does not run for ever. *)
Spec == SafeSpec /\ WF_vars(Finish)
=============================================================================
