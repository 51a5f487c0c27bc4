------------------------------ MODULE JobPhase ------------------------------
(***************************************************************************)
(* The diagram at the top of core/include/ai_worker.h: what state()        *)
(* returns as the owner of an AiWorker sees it.  A job runs and ends in    *)
(* one of three ways; the worker runs no other job before the owner has    *)
(* taken that result, and is not destroyed while a job runs.               *)
(***************************************************************************)
VARIABLE phase           \* what state() returns, or "Destroyed"

Ended == {"Done", "Error", "Cancelled"}

Unused == phase = "Idle"

(* start(): only from Idle. *)
Starts == phase = "Idle" /\ phase' = "Running"

(* run() publishes how the task ended. *)
Ends == phase = "Running" /\ phase' \in Ended

(* reset(): the owner has taken the result. *)
Resets == phase \in Ended /\ phase' = "Idle"

(* ~AiWorker(): a running job is first brought to its end. *)
Dies == phase \in Ended \cup {"Idle"} /\ phase' = "Destroyed"

Moves == Starts \/ Ends \/ Resets \/ Dies
=============================================================================
