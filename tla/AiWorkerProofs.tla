--------------------------- MODULE AiWorkerProofs ---------------------------
(***************************************************************************)
(* Proofs about AiWorker for every number of runs and every resolution of  *)
(* progress.  IInv is the inductive invariant: where each thread can be,   *)
(* given where the owner is and what the state says.                       *)
(***************************************************************************)
EXTENDS AiWorker, TLAPS

Unfinished == {"task", "check", "store_error", "publish"}
AfterCheck == {"publish", "published", "exited"}

(* Threads: the only one that is not over is the latest run's.             *)
ThreadInv ==
  /\ terminated = FALSE
  /\ \A r \in Runs : Live(r) => thread = r
  /\ \A r \in Runs : r > run => workerPc[r] = "unborn"
  /\ thread # 0 => thread = run /\ workerPc[run] # "unborn"
  /\ mainPc = "start_launch" => thread = 0
  /\ mainPc \in {"reset_clear", "gone"} => thread = 0

(* The state against the program counters of owner and thread.             *)
StateInv ==
  /\ mainPc \in {"start_clear", "start_join", "start_launch"} =>
       state = "Running" /\ run # 0 /\ workerPc[run] = "unborn" /\ thread = 0
  /\ mainPc \in {"reset_join", "reset_clear"} => state \in Terminal
  /\ state = "Idle" =>
       /\ thread = 0
       /\ errorMessage = 0 /\ progress = 0 /\ statusText = ""
       /\ run = 0 \/ workerPc[run] # "unborn"
  /\ state = "Running" =>
       run # 0 /\ workerPc[run] \in {"unborn", "task", "check", "store_error", "publish"}
  /\ state \in Terminal =>
       run # 0 /\ workerPc[run] \in {"published", "exited"} /\ finalState[run] = state

(* The message is stored before the state that refers to it is published.  *)
ErrorInv ==
  /\ \A r \in Runs : workerPc[r] = "store_error" => finalState[r] = "Error"
  /\ state # "Idle" /\ run # 0 /\ workerPc[run] \in AfterCheck /\ finalState[run] = "Error"
       => errorMessage = run

(* The history of cancel() against the flag and the outcome.               *)
CancelInv ==
  /\ mainPc \in {"start_join", "start_launch"} => cancelRequest = FALSE
  /\ run # 0 /\ workerPc[run] \in {"task", "check"} => (cancelRequest <=> run \in cancelled)
  /\ \A r \in cancelled : workerPc[r] # "unborn"
  /\ \A r \in cancelled : workerPc[r] \in AfterCheck => finalState[r] # "Done"
  /\ \A r \in Runs : finalState[r] = "Cancelled" => r \in cancelled

IInv == TypeOK /\ ThreadInv /\ StateInv /\ ErrorInv /\ CancelInv

-----------------------------------------------------------------------------
(* What set_progress stores is in range, whatever the lambda reports.      *)
LEMMA ClampRange == ASSUME NEW p \in Int PROVE Clamp(p) \in 0 .. MaxProgress
  BY WorkerAssumption DEF WorkerAssumption, Clamp

(* Zero is a run number (none) and a progress.                             *)
LEMMA ZeroInRange == 0 \in 0 .. MaxRuns /\ 0 \in 0 .. MaxProgress
  BY WorkerAssumption DEF WorkerAssumption

(* The first state satisfies the invariant.                                *)
LEMMA InitInv == Init => IInv
<1> SUFFICES ASSUME Init PROVE IInv
  OBVIOUS
<1>1. TypeOK
  <2>1. state \in States /\ statusText \in Texts /\ mainPc \in MainPcs
    BY DEF Init, States, Texts, MainPcs
  <2>2. workerPc \in [Runs -> WorkerPcs] /\ finalState \in [Runs -> Terminal]
    BY DEF Init, WorkerPcs, Terminal
  <2> QED
    BY <2>1, <2>2, ZeroInRange DEF Init, TypeOK
<1>2. ThreadInv
  BY DEF Init, ThreadInv, Live
<1>3. StateInv
  BY DEF Init, StateInv, Terminal
<1>4. ErrorInv
  BY DEF Init, ErrorInv
<1>5. CancelInv
  BY DEF Init, CancelInv
<1> QED
  BY <1>1, <1>2, <1>3, <1>4, <1>5 DEF IInv

(* Every step keeps the fields in their ranges.                            *)
LEMMA TypeStep == ASSUME TypeOK, [Next]_vars PROVE TypeOK'
<1>1. CASE StartRefused
  BY <1>1 DEF TypeOK, StartRefused, vars, contextVars, ownerVars, threadVars
<1>2. CASE StartCas
  BY <1>2, WorkerAssumption DEF TypeOK, WorkerAssumption, StartCas, States,
     MainPcs, contextVars, threadVars
<1>3. CASE StartClear
  <2>1. statusText' \in Texts /\ mainPc' \in MainPcs
    BY <1>3 DEF StartClear, Texts, MainPcs
  <2> QED
    BY <1>3, <2>1, ZeroInRange DEF TypeOK, StartClear, threadVars
<1>4. CASE StartJoin
  BY <1>4, ZeroInRange DEF TypeOK, StartJoin, MainPcs, contextVars, threadVars
<1>5. CASE StartLaunch
  BY <1>5 DEF TypeOK, StartLaunch, MainPcs, WorkerPcs, Joinable, contextVars
<1>6. CASE StartLaunchThrows
  BY <1>6 DEF TypeOK, StartLaunchThrows, MainPcs, contextVars, threadVars
<1>7. CASE Cancel
  BY <1>7 DEF TypeOK, Cancel, NoteCancel, ownerVars, threadVars
<1>8. CASE JoinCall
  BY <1>8 DEF TypeOK, JoinCall, MainPcs, contextVars, threadVars
<1>9. CASE JoinReturn
  BY <1>9, ZeroInRange DEF TypeOK, JoinReturn, MainPcs, contextVars, threadVars
<1>10. CASE ResetIgnored
  BY <1>10 DEF TypeOK, ResetIgnored, vars, contextVars, ownerVars, threadVars
<1>11. CASE ResetCall
  BY <1>11 DEF TypeOK, ResetCall, MainPcs, contextVars, threadVars
<1>12. CASE ResetJoin
  BY <1>12, ZeroInRange DEF TypeOK, ResetJoin, MainPcs, contextVars, threadVars
<1>13. CASE ResetClear
  <2>1. state' \in States /\ statusText' \in Texts /\ mainPc' \in MainPcs
    BY <1>13 DEF ResetClear, States, Texts, MainPcs
  <2> QED
    BY <1>13, <2>1, ZeroInRange DEF TypeOK, ResetClear, threadVars
<1>14. CASE DtorCancel
  BY <1>14 DEF TypeOK, DtorCancel, NoteCancel, MainPcs, threadVars
<1>15. CASE DtorJoin
  BY <1>15, ZeroInRange DEF TypeOK, DtorJoin, MainPcs, contextVars, threadVars
<1>16. ASSUME NEW r \in Runs, TaskReport(r) PROVE TypeOK'
  <2>1. progress' \in 0 .. MaxProgress
    BY <1>16, ClampRange, WorkerAssumption DEF WorkerAssumption, TaskReport
  <2> QED
    BY <1>16, <2>1 DEF TypeOK, TaskReport, Texts, ownerVars, threadVars
<1>17. ASSUME NEW r \in Runs, TaskReturn(r) PROVE TypeOK'
  BY <1>17 DEF TypeOK, TaskReturn, WorkerPcs, contextVars, ownerVars
<1>18. ASSUME NEW r \in Runs, TaskThrow(r) PROVE TypeOK'
  <2>1. workerPc' \in [Runs -> WorkerPcs]
    BY <1>18 DEF TypeOK, TaskThrow, WorkerPcs
  <2>2. finalState' \in [Runs -> Terminal]
    BY <1>18 DEF TypeOK, TaskThrow, Terminal
  <2> QED
    BY <1>18, <2>1, <2>2 DEF TypeOK, TaskThrow, contextVars, ownerVars
<1>19. ASSUME NEW r \in Runs, CheckCancel(r) PROVE TypeOK'
  BY <1>19 DEF TypeOK, CheckCancel, WorkerPcs, Terminal, contextVars, ownerVars
<1>20. ASSUME NEW r \in Runs, StoreError(r) PROVE TypeOK'
  BY <1>20 DEF TypeOK, StoreError, Runs, WorkerPcs, contextVars, ownerVars
<1>21. ASSUME NEW r \in Runs, Publish(r) PROVE TypeOK'
  BY <1>21 DEF TypeOK, Publish, States, WorkerPcs, contextVars, ownerVars
<1>22. ASSUME NEW r \in Runs, ThreadExit(r) PROVE TypeOK'
  BY <1>22 DEF TypeOK, ThreadExit, WorkerPcs, contextVars, ownerVars
<1>23. CASE UNCHANGED vars
  BY <1>23 DEF TypeOK, vars, contextVars, ownerVars, threadVars
<1> QED
  BY <1>1, <1>2, <1>3, <1>4, <1>5, <1>6, <1>7, <1>8, <1>9, <1>10, <1>11,
     <1>12, <1>13, <1>14, <1>15, <1>16, <1>17, <1>18, <1>19, <1>20, <1>21,
     <1>22, <1>23 DEF Next, OwnerCall, OwnerStep, WorkerStep, Destroyed

(* A thread that is not over is the latest run's, and the owner is not   *)
(* between a join and what follows it.                                     *)
LEMMA LiveIsLatest ==
  ASSUME IInv, NEW r \in Runs, Live(r)
  PROVE  /\ r = run /\ thread = run /\ run # 0
         /\ mainPc \notin {"start_clear", "start_join", "start_launch", "reset_clear", "gone"}
         /\ state # "Idle"
         /\ workerPc[r] \in Unfinished => state = "Running" /\ mainPc # "reset_join"
<1>1. thread = r /\ r # 0
  BY DEF IInv, ThreadInv, Runs
<1>2. run = r
  BY <1>1 DEF IInv, ThreadInv
<1>3. mainPc \notin {"start_clear", "start_join", "start_launch", "reset_clear", "gone"}
  BY <1>1 DEF IInv, ThreadInv, StateInv
<1>4. state # "Idle"
  BY <1>1 DEF IInv, StateInv
<1>5. ASSUME workerPc[r] \in Unfinished PROVE state = "Running" /\ mainPc # "reset_join"
  BY <1>2, <1>4, <1>5 DEF IInv, StateInv, TypeOK, States, Unfinished, Terminal
<1> QED BY <1>1, <1>2, <1>3, <1>4, <1>5

(* start() finds no thread and takes a number that was never used.         *)
LEMMA StartCasFacts ==
  ASSUME IInv, StartCas
  PROVE /\ run + 1 \in Runs /\ run + 1 # 0 /\ workerPc[run + 1] = "unborn"
        /\ \A r \in Runs : r > run + 1 => r > run
        /\ \A r \in Runs : workerPc[r] \in {"unborn", "exited"}
        /\ run + 1 \notin cancelled
        /\ thread = 0 /\ errorMessage = 0
        /\ run' = run + 1
<1>1. run + 1 \in Runs /\ run + 1 # 0 /\ run + 1 > run
  BY WorkerAssumption DEF WorkerAssumption, IInv, TypeOK, StartCas, Runs
<1>2. workerPc[run + 1] = "unborn"
  BY <1>1 DEF IInv, ThreadInv
<1>3. \A r \in Runs : r > run + 1 => r > run
  BY <1>1 DEF IInv, TypeOK, Runs
<1>4. thread = 0 /\ errorMessage = 0
  BY DEF IInv, StateInv, StartCas
<1>5. \A r \in Runs : workerPc[r] \in {"unborn", "exited"}
  BY <1>4 DEF IInv, ThreadInv, Live, Runs
<1>6. run + 1 \notin cancelled
  BY <1>2 DEF IInv, CancelInv
<1> QED BY <1>1, <1>2, <1>3, <1>4, <1>5, <1>6 DEF StartCas

(* Every step preserves the four parts of the invariant about threads.     *)
LEMMA InvStep ==
  ASSUME IInv, [Next]_vars
  PROVE  ThreadInv' /\ StateInv' /\ ErrorInv' /\ CancelInv'
<1>1. CASE StartRefused
  BY <1>1 DEF IInv, ThreadInv, StateInv, ErrorInv, CancelInv, Live, Terminal,
     AfterCheck, StartRefused, vars, contextVars, ownerVars, threadVars
<1>2. CASE StartCas
  <2>1. ThreadInv'
    BY <1>2, StartCasFacts DEF IInv, ThreadInv, Live, StartCas, contextVars,
       threadVars
  <2>2. StateInv'
    BY <1>2, StartCasFacts DEF IInv, StateInv, Terminal, StartCas,
       contextVars, threadVars
  <2>3. ErrorInv'
    BY <1>2, StartCasFacts DEF IInv, ErrorInv, AfterCheck, StartCas,
       contextVars, threadVars
  <2>4. CancelInv'
    BY <1>2, StartCasFacts DEF IInv, CancelInv, AfterCheck, StartCas,
       contextVars, threadVars
  <2> QED
    BY <2>1, <2>2, <2>3, <2>4
<1>3. CASE StartClear
  <2>1. ThreadInv'
    BY <1>3 DEF IInv, ThreadInv, Live, StartClear, threadVars
  <2>2. StateInv'
    BY <1>3 DEF IInv, StateInv, Terminal, StartClear, threadVars
  <2>3. ErrorInv'
    BY <1>3 DEF IInv, ErrorInv, AfterCheck, StartClear, threadVars
  <2>4. CancelInv'
    BY <1>3 DEF IInv, CancelInv, AfterCheck, StateInv, StartClear, threadVars
  <2> QED
    BY <2>1, <2>2, <2>3, <2>4
<1>4. CASE StartJoin
  BY <1>4 DEF IInv, ThreadInv, StateInv, ErrorInv, CancelInv, Live, Terminal,
     AfterCheck, StartJoin, CanJoin, Joinable, contextVars, threadVars
<1>5. CASE StartLaunch
  <2>1. run \in Runs /\ workerPc[run] = "unborn" /\ \A r \in Runs : ~ Live(r)
    <3>1. thread = 0 /\ run \in Runs /\ workerPc[run] = "unborn"
      BY <1>5 DEF IInv, ThreadInv, StateInv, StartLaunch, TypeOK, Runs
    <3> QED
      BY <3>1 DEF IInv, ThreadInv, Runs
  <2>2. \A r \in Runs : workerPc'[r] = IF r = run THEN "task" ELSE workerPc[r]
    BY <1>5 DEF IInv, TypeOK, StartLaunch
  <2>3. ThreadInv'
    BY <1>5, <2>1, <2>2 DEF IInv, ThreadInv, Live, StateInv, Runs, TypeOK,
       StartLaunch, Joinable, contextVars
  <2>4. StateInv'
    BY <1>5, <2>1, <2>2 DEF IInv, StateInv, Terminal, StartLaunch, Joinable,
       contextVars
  <2>5. ErrorInv'
    BY <1>5, <2>1, <2>2 DEF IInv, ErrorInv, AfterCheck, StateInv, StartLaunch,
       Joinable, contextVars
  <2>6. CancelInv'
    BY <1>5, <2>1, <2>2 DEF IInv, CancelInv, AfterCheck, StateInv,
       StartLaunch, Joinable, contextVars
  <2> QED
    BY <2>3, <2>4, <2>5, <2>6
<1>6. CASE StartLaunchThrows
  BY <1>6 DEF IInv, ThreadInv, StateInv, ErrorInv, CancelInv, Live, Terminal,
     AfterCheck, StartLaunchThrows, contextVars, threadVars
<1>7. CASE Cancel
  <2>1. ThreadInv'
    BY <1>7 DEF IInv, ThreadInv, Live, Cancel, ownerVars, threadVars
  <2>2. StateInv'
    BY <1>7 DEF IInv, StateInv, Terminal, Cancel, ownerVars, threadVars
  <2>3. ErrorInv'
    BY <1>7 DEF IInv, ErrorInv, AfterCheck, Cancel, ownerVars, threadVars
  <2>4. CancelInv'
    <3>1. run # 0 => run \in Runs
      BY DEF IInv, TypeOK, Runs
    <3>2. \A r : r \in cancelled' <=>
            \/ r \in cancelled
            \/ r = run /\ r \in Runs /\ workerPc[r] \in {"task", "check"}
      BY <1>7 DEF Cancel, NoteCancel
    <3> QED
      BY <1>7, <3>1, <3>2 DEF IInv, CancelInv, AfterCheck, Cancel, ownerVars,
         threadVars
  <2> QED
    BY <2>1, <2>2, <2>3, <2>4
<1>8. CASE JoinCall
  BY <1>8 DEF IInv, ThreadInv, StateInv, ErrorInv, CancelInv, Live, Terminal,
     AfterCheck, JoinCall, Joinable, contextVars, threadVars
<1>9. CASE JoinReturn
  BY <1>9 DEF IInv, ThreadInv, StateInv, ErrorInv, CancelInv, Live, Terminal,
     AfterCheck, JoinReturn, CanJoin, Joinable, contextVars, threadVars
<1>10. CASE ResetIgnored
  BY <1>10 DEF IInv, ThreadInv, StateInv, ErrorInv, CancelInv, Live, Terminal,
     AfterCheck, ResetIgnored, vars, contextVars, ownerVars, threadVars
<1>11. CASE ResetCall
  BY <1>11 DEF IInv, ThreadInv, StateInv, ErrorInv, CancelInv, Live, Terminal,
     AfterCheck, ResetCall, contextVars, threadVars
<1>12. CASE ResetJoin
  BY <1>12 DEF IInv, ThreadInv, StateInv, ErrorInv, CancelInv, Live, Terminal,
     AfterCheck, ResetJoin, CanJoin, Joinable, contextVars, threadVars
<1>13. CASE ResetClear
  <2>1. ThreadInv'
    BY <1>13 DEF IInv, ThreadInv, Live, ResetClear, threadVars
  <2>2. StateInv'
    BY <1>13 DEF IInv, StateInv, Terminal, ThreadInv, TypeOK, ResetClear,
       threadVars
  <2>3. ErrorInv'
    BY <1>13 DEF IInv, ErrorInv, AfterCheck, ResetClear, threadVars
  <2>4. CancelInv'
    BY <1>13 DEF IInv, CancelInv, AfterCheck, ResetClear, threadVars
  <2> QED
    BY <2>1, <2>2, <2>3, <2>4
<1>14. CASE DtorCancel
  <2>1. ThreadInv'
    BY <1>14 DEF IInv, ThreadInv, Live, DtorCancel, threadVars
  <2>2. StateInv'
    BY <1>14 DEF IInv, StateInv, Terminal, DtorCancel, threadVars
  <2>3. ErrorInv'
    BY <1>14 DEF IInv, ErrorInv, AfterCheck, DtorCancel, threadVars
  <2>4. CancelInv'
    <3>1. run # 0 => run \in Runs
      BY DEF IInv, TypeOK, Runs
    <3>2. \A r : r \in cancelled' <=>
            \/ r \in cancelled
            \/ r = run /\ r \in Runs /\ workerPc[r] \in {"task", "check"}
      BY <1>14 DEF DtorCancel, NoteCancel
    <3> QED
      BY <1>14, <3>1, <3>2 DEF IInv, CancelInv, AfterCheck, DtorCancel,
         ownerVars, threadVars
  <2> QED
    BY <2>1, <2>2, <2>3, <2>4
<1>15. CASE DtorJoin
  BY <1>15 DEF IInv, ThreadInv, StateInv, ErrorInv, CancelInv, Live, Terminal,
     AfterCheck, DtorJoin, CanJoin, Joinable, contextVars, threadVars
<1>16. ASSUME NEW r \in Runs, TaskReport(r)
      PROVE  ThreadInv' /\ StateInv' /\ ErrorInv' /\ CancelInv'
  <2>1. Live(r)
    BY <1>16 DEF TaskReport, Live
  <2>2. /\ r = run /\ thread = run /\ run # 0
        /\ mainPc \notin {"start_clear", "start_join", "start_launch", "reset_clear", "gone"}
        /\ state # "Idle"
        /\ workerPc[r] \in Unfinished => state = "Running" /\ mainPc # "reset_join"
    BY <2>1, LiveIsLatest
  <2>3. workerPc[r] = "task"
    BY <1>16 DEF TaskReport
  <2>4. ThreadInv'
    BY <1>16, <2>2, <2>3 DEF IInv, ThreadInv, Live, Unfinished, TaskReport,
       Clamp, ownerVars, threadVars
  <2>5. StateInv'
    BY <1>16, <2>2, <2>3 DEF IInv, StateInv, Terminal, Unfinished, TaskReport,
       Clamp, ownerVars, threadVars
  <2>6. ErrorInv'
    BY <1>16, <2>2, <2>3 DEF IInv, ErrorInv, AfterCheck, Unfinished,
       TaskReport, Clamp, ownerVars, threadVars
  <2>7. CancelInv'
    BY <1>16, <2>2, <2>3 DEF IInv, CancelInv, AfterCheck, Unfinished, TypeOK,
       TaskReport, Clamp, ownerVars, threadVars
  <2> QED
    BY <2>4, <2>5, <2>6, <2>7
<1>17. ASSUME NEW r \in Runs, TaskReturn(r)
      PROVE  ThreadInv' /\ StateInv' /\ ErrorInv' /\ CancelInv'
  <2>1. Live(r)
    BY <1>17 DEF TaskReturn, Live
  <2>2. /\ r = run /\ thread = run /\ run # 0
        /\ mainPc \notin {"start_clear", "start_join", "start_launch", "reset_clear", "gone"}
        /\ state # "Idle"
        /\ workerPc[r] \in Unfinished => state = "Running" /\ mainPc # "reset_join"
    BY <2>1, LiveIsLatest
  <2>3. /\ \A q \in Runs : q # r => workerPc'[q] = workerPc[q] /\ finalState'[q] = finalState[q]
        /\ workerPc'[r] = "check"
        /\ finalState'[r] = finalState[r]
        /\ finalState[r] \in Terminal
    BY <1>17 DEF IInv, TypeOK, TaskReturn
  <2>4. ThreadInv'
    BY <1>17, <2>2, <2>3 DEF IInv, ThreadInv, Live, Unfinished, TaskReturn,
       contextVars, ownerVars
  <2>5. StateInv'
    BY <1>17, <2>2, <2>3 DEF IInv, StateInv, Terminal, Unfinished, TaskReturn,
       contextVars, ownerVars
  <2>6. ErrorInv'
    BY <1>17, <2>2, <2>3 DEF IInv, ErrorInv, AfterCheck, Unfinished,
       TaskReturn, contextVars, ownerVars
  <2>7. CancelInv'
    BY <1>17, <2>2, <2>3 DEF IInv, CancelInv, AfterCheck, Unfinished, TypeOK,
       TaskReturn, contextVars, ownerVars
  <2> QED
    BY <2>4, <2>5, <2>6, <2>7
<1>18. ASSUME NEW r \in Runs, TaskThrow(r)
      PROVE  ThreadInv' /\ StateInv' /\ ErrorInv' /\ CancelInv'
  <2>1. Live(r)
    BY <1>18 DEF TaskThrow, Live
  <2>2. /\ r = run /\ thread = run /\ run # 0
        /\ mainPc \notin {"start_clear", "start_join", "start_launch", "reset_clear", "gone"}
        /\ state # "Idle"
        /\ workerPc[r] \in Unfinished => state = "Running" /\ mainPc # "reset_join"
    BY <2>1, LiveIsLatest
  <2>3. /\ \A q \in Runs : q # r => workerPc'[q] = workerPc[q] /\ finalState'[q] = finalState[q]
        /\ workerPc'[r] = "store_error"
        /\ finalState'[r] = "Error"
        /\ finalState[r] \in Terminal
    BY <1>18 DEF IInv, TypeOK, TaskThrow
  <2>4. ThreadInv'
    BY <1>18, <2>2, <2>3 DEF IInv, ThreadInv, Live, Unfinished, TaskThrow,
       contextVars, ownerVars
  <2>5. StateInv'
    BY <1>18, <2>2, <2>3 DEF IInv, StateInv, Terminal, Unfinished, TaskThrow,
       contextVars, ownerVars
  <2>6. ErrorInv'
    BY <1>18, <2>2, <2>3 DEF IInv, ErrorInv, AfterCheck, Unfinished,
       TaskThrow, contextVars, ownerVars
  <2>7. CancelInv'
    BY <1>18, <2>2, <2>3 DEF IInv, CancelInv, AfterCheck, Unfinished, TypeOK,
       TaskThrow, contextVars, ownerVars
  <2> QED
    BY <2>4, <2>5, <2>6, <2>7
<1>19. ASSUME NEW r \in Runs, CheckCancel(r)
      PROVE  ThreadInv' /\ StateInv' /\ ErrorInv' /\ CancelInv'
  <2>1. Live(r)
    BY <1>19 DEF CheckCancel, Live
  <2>2. /\ r = run /\ thread = run /\ run # 0
        /\ mainPc \notin {"start_clear", "start_join", "start_launch", "reset_clear", "gone"}
        /\ state # "Idle"
        /\ workerPc[r] \in Unfinished => state = "Running" /\ mainPc # "reset_join"
    BY <2>1, LiveIsLatest
  <2>3. /\ \A q \in Runs : q # r => workerPc'[q] = workerPc[q] /\ finalState'[q] = finalState[q]
        /\ workerPc'[r] = "publish"
        /\ finalState'[r] = (IF cancelRequest THEN "Cancelled" ELSE "Done")
        /\ finalState[r] \in Terminal
    BY <1>19 DEF IInv, TypeOK, CheckCancel
  <2>4. ThreadInv'
    BY <1>19, <2>2, <2>3 DEF IInv, ThreadInv, Live, Unfinished, CheckCancel,
       contextVars, ownerVars
  <2>5. StateInv'
    BY <1>19, <2>2, <2>3 DEF IInv, StateInv, Terminal, Unfinished,
       CheckCancel, contextVars, ownerVars
  <2>6. ErrorInv'
    BY <1>19, <2>2, <2>3 DEF IInv, ErrorInv, AfterCheck, Unfinished,
       CheckCancel, contextVars, ownerVars
  <2>7. CancelInv'
    BY <1>19, <2>2, <2>3 DEF IInv, CancelInv, AfterCheck, Unfinished, TypeOK,
       CheckCancel, contextVars, ownerVars
  <2> QED
    BY <2>4, <2>5, <2>6, <2>7
<1>20. ASSUME NEW r \in Runs, StoreError(r)
      PROVE  ThreadInv' /\ StateInv' /\ ErrorInv' /\ CancelInv'
  <2>1. Live(r)
    BY <1>20 DEF StoreError, Live
  <2>2. /\ r = run /\ thread = run /\ run # 0
        /\ mainPc \notin {"start_clear", "start_join", "start_launch", "reset_clear", "gone"}
        /\ state # "Idle"
        /\ workerPc[r] \in Unfinished => state = "Running" /\ mainPc # "reset_join"
    BY <2>1, LiveIsLatest
  <2>3. /\ \A q \in Runs : q # r => workerPc'[q] = workerPc[q] /\ finalState'[q] = finalState[q]
        /\ workerPc'[r] = "publish"
        /\ finalState'[r] = finalState[r]
        /\ finalState[r] \in Terminal
    BY <1>20 DEF IInv, TypeOK, StoreError
  <2>4. ThreadInv'
    BY <1>20, <2>2, <2>3 DEF IInv, ThreadInv, Live, Unfinished, StoreError,
       contextVars, ownerVars
  <2>5. StateInv'
    BY <1>20, <2>2, <2>3 DEF IInv, StateInv, Terminal, Unfinished, StoreError,
       contextVars, ownerVars
  <2>6. ErrorInv'
    BY <1>20, <2>2, <2>3 DEF IInv, ErrorInv, AfterCheck, Unfinished,
       StoreError, contextVars, ownerVars
  <2>7. CancelInv'
    BY <1>20, <2>2, <2>3 DEF IInv, CancelInv, AfterCheck, Unfinished,
       ErrorInv, TypeOK, StoreError, contextVars, ownerVars
  <2> QED
    BY <2>4, <2>5, <2>6, <2>7
<1>21. ASSUME NEW r \in Runs, Publish(r)
      PROVE  ThreadInv' /\ StateInv' /\ ErrorInv' /\ CancelInv'
  <2>1. Live(r)
    BY <1>21 DEF Publish, Live
  <2>2. /\ r = run /\ thread = run /\ run # 0
        /\ mainPc \notin {"start_clear", "start_join", "start_launch", "reset_clear", "gone"}
        /\ state # "Idle"
        /\ workerPc[r] \in Unfinished => state = "Running" /\ mainPc # "reset_join"
    BY <2>1, LiveIsLatest
  <2>3. /\ \A q \in Runs : q # r => workerPc'[q] = workerPc[q] /\ finalState'[q] = finalState[q]
        /\ workerPc'[r] = "published"
        /\ finalState'[r] = finalState[r]
        /\ finalState[r] \in Terminal
    BY <1>21 DEF IInv, TypeOK, Publish
  <2>4. ThreadInv'
    BY <1>21, <2>2, <2>3 DEF IInv, ThreadInv, Live, Unfinished, Publish,
       contextVars, ownerVars
  <2>5. StateInv'
    BY <1>21, <2>2, <2>3 DEF IInv, StateInv, Terminal, Unfinished, Publish,
       contextVars, ownerVars
  <2>6. ErrorInv'
    BY <1>21, <2>2, <2>3 DEF IInv, ErrorInv, AfterCheck, Unfinished, Publish,
       contextVars, ownerVars
  <2>7. CancelInv'
    BY <1>21, <2>2, <2>3 DEF IInv, CancelInv, AfterCheck, Unfinished, TypeOK,
       Publish, contextVars, ownerVars
  <2> QED
    BY <2>4, <2>5, <2>6, <2>7
<1>22. ASSUME NEW r \in Runs, ThreadExit(r)
      PROVE  ThreadInv' /\ StateInv' /\ ErrorInv' /\ CancelInv'
  <2>1. Live(r)
    BY <1>22 DEF ThreadExit, Live
  <2>2. /\ r = run /\ thread = run /\ run # 0
        /\ mainPc \notin {"start_clear", "start_join", "start_launch", "reset_clear", "gone"}
        /\ state # "Idle"
        /\ workerPc[r] \in Unfinished => state = "Running" /\ mainPc # "reset_join"
    BY <2>1, LiveIsLatest
  <2>3. /\ \A q \in Runs : q # r => workerPc'[q] = workerPc[q] /\ finalState'[q] = finalState[q]
        /\ workerPc'[r] = "exited"
        /\ finalState'[r] = finalState[r]
        /\ finalState[r] \in Terminal
    BY <1>22 DEF IInv, TypeOK, ThreadExit
  <2>4. ThreadInv'
    BY <1>22, <2>2, <2>3 DEF IInv, ThreadInv, Live, Unfinished, ThreadExit,
       contextVars, ownerVars
  <2>5. StateInv'
    BY <1>22, <2>2, <2>3 DEF IInv, StateInv, Terminal, Unfinished, ThreadExit,
       contextVars, ownerVars
  <2>6. ErrorInv'
    BY <1>22, <2>2, <2>3 DEF IInv, ErrorInv, AfterCheck, Unfinished,
       ThreadExit, contextVars, ownerVars
  <2>7. CancelInv'
    BY <1>22, <2>2, <2>3 DEF IInv, CancelInv, AfterCheck, Unfinished, TypeOK,
       ThreadExit, contextVars, ownerVars
  <2> QED
    BY <2>4, <2>5, <2>6, <2>7
<1>23. CASE UNCHANGED vars
  BY <1>23 DEF IInv, ThreadInv, StateInv, ErrorInv, CancelInv, Live, vars,
     contextVars, ownerVars, threadVars
<1> QED
  BY <1>1, <1>2, <1>3, <1>4, <1>5, <1>6, <1>7, <1>8, <1>9, <1>10, <1>11,
     <1>12, <1>13, <1>14, <1>15, <1>16, <1>17, <1>18, <1>19, <1>20, <1>21,
     <1>22, <1>23 DEF Next, OwnerCall, OwnerStep, WorkerStep, Destroyed

(* IInv holds in every reachable state.                                    *)
THEOREM Invariance == SafeSpec => []IInv
<1>1. IInv /\ [Next]_vars => IInv'
  <2> SUFFICES ASSUME IInv, [Next]_vars PROVE IInv'
    OBVIOUS
  <2>1. TypeOK'
    BY TypeStep DEF IInv
  <2> QED
    BY <2>1, InvStep DEF IInv
<1> QED
  BY InitInv, <1>1, PTL DEF SafeSpec

-----------------------------------------------------------------------------
(* Every field of AiWorker keeps to its range.                             *)
THEOREM TypeCorrect == SafeSpec => []TypeOK
<1>1. IInv => TypeOK
  BY DEF IInv
<1> QED
  BY Invariance, <1>1, PTL

(* There is never more than one thread inside run(), and no joinable       *)
(* std::thread is ever overwritten, which would terminate Nuke.            *)
THEOREM OneThreadOnly == SafeSpec => []OneThread
<1>1. IInv => OneThread
  BY DEF IInv, ThreadInv, OneThread
<1> QED
  BY Invariance, <1>1, PTL

(* A worker handed back by reset() has no thread on its way out and no     *)
(* trace of the run before.                                                *)
THEOREM IdleQuiescent == SafeSpec => []IdleIsQuiescent
<1>1. ASSUME IInv, state = "Idle"
      PROVE  thread = 0 /\ errorMessage = 0 /\ progress = 0 /\ statusText = ""
  BY <1>1 DEF IInv, StateInv
<1>2. ASSUME IInv, thread = 0 PROVE \A r \in Runs : ~ Live(r)
  BY <1>2 DEF IInv, ThreadInv, Runs
<1>3. IInv => IdleIsQuiescent
  BY <1>1, <1>2 DEF IdleIsQuiescent
<1> QED
  BY Invariance, <1>3, PTL

(* No thread outlives ~AiWorker().                                         *)
THEOREM DestructionIsSafe == SafeSpec => []NoUseAfterFree
<1>1. IInv => NoUseAfterFree
  BY DEF IInv, ThreadInv, NoUseAfterFree, Runs
<1> QED
  BY Invariance, <1>1, PTL

(* Who sees the state Error reads the message of that very run.            *)
THEOREM ErrorIsPublished == SafeSpec => []ErrorPublished
<1>1. IInv => ErrorPublished
  BY DEF IInv, StateInv, ErrorInv, ErrorPublished, AfterCheck, Terminal
<1> QED
  BY Invariance, <1>1, PTL

(* A run is Cancelled only by a cancel() of its own time ...               *)
THEOREM CancelIsOwn == SafeSpec => []NoStaleCancel
<1>1. IInv => NoStaleCancel
  BY DEF IInv, CancelInv, NoStaleCancel
<1> QED
  BY Invariance, <1>1, PTL

(* ... and one that came in time is never lost.                            *)
THEOREM CancelIsHonoured == SafeSpec => []CancelHonoured
<1>1. IInv => CancelHonoured
  BY DEF IInv, CancelInv, CancelHonoured, AfterCheck
<1> QED
  BY Invariance, <1>1, PTL
-----------------------------------------------------------------------------
(* The refinement: every step of AiWorker is a step of JobLifecycle, or    *)
(* none.  JobStutter serves the steps that the owner cannot see.           *)
LEMMA JobStutter ==
  ASSUME UNCHANGED <<Phase, JobNumber, Report>>
  PROVE  [Job!Next]_(Job!vars)
  BY DEF Job!vars

(* Steps that leave alone what the mapping reads. *)
LEMMA JobUnchanged ==
  ASSUME UNCHANGED <<state, errorMessage, run, workerPc>>,
         mainPc # "gone", mainPc' # "gone"
  PROVE  UNCHANGED <<Phase, JobNumber, Report>>
  BY DEF Phase, JobNumber, Report, Launched

(* A launched run takes steps that do not end it. *)
LEMMA JobGoesOn ==
  ASSUME IInv, NEW r \in Runs, Live(r), UNCHANGED <<state, run, mainPc>>,
         state = "Error" => errorMessage' = errorMessage,
         workerPc'[r] # "unborn"
  PROVE  UNCHANGED <<Phase, JobNumber, Report>>
<1>1. r = run /\ workerPc[run] # "unborn" /\ run # 0
  BY LiveIsLatest DEF Live
<1> QED
  BY <1>1 DEF Phase, JobNumber, Report, Launched

(* Every step refines. *)
LEMMA JobStep == ASSUME IInv, IInv', [Next]_vars PROVE [Job!Next]_(Job!vars)
<1> DEFINE J == [Job!Next]_(Job!vars)
<1>1. CASE StartCas
  <2>1. /\ run + 1 \in Runs /\ run + 1 # 0 /\ workerPc[run + 1] = "unborn" /\ run \in Nat
        /\ run = 0 \/ workerPc[run] # "unborn"
    <3>1. run \in Nat
      BY DEF IInv, TypeOK
    <3>2. run = 0 \/ workerPc[run] # "unborn"
      BY <1>1 DEF IInv, StateInv, StartCas
    <3> QED
      BY <1>1, <3>1, <3>2, StartCasFacts
  <2>2. UNCHANGED <<Phase, JobNumber, Report>>
    BY <1>1, <2>1 DEF StartCas, Phase, JobNumber, Report, Launched, threadVars
  <2> QED
    BY <2>2, JobStutter
<1>2. CASE StartLaunch
  <2>1. /\ state = "Running" /\ run \in Runs /\ run # 0 /\ workerPc[run] = "unborn"
        /\ workerPc'[run] = "task"
    BY <1>2 DEF IInv, TypeOK, StateInv, StartLaunch, Runs
  <2>2. Phase = "Idle" /\ JobNumber = run - 1 /\ Report = 0
    BY <1>2, <2>1 DEF StartLaunch, Phase, JobNumber, Report, Launched
  <2>3. Phase' = "Running" /\ JobNumber' = run /\ Report' = 0
    BY <1>2, <2>1 DEF StartLaunch, Phase, JobNumber, Report, Launched
  <2>4. run - 1 < MaxRuns /\ (run - 1) + 1 = run
    BY <2>1, WorkerAssumption DEF WorkerAssumption, Runs
  <2>5. Job!Begin
    BY <2>2, <2>3, <2>4 DEF Job!Begin, Job!Starts
  <2> QED
    BY <2>5 DEF Job!Next
<1>3. ASSUME NEW r \in Runs, Publish(r) PROVE J
  <2>1. /\ r = run /\ run # 0 /\ state = "Running" /\ mainPc # "gone"
        /\ workerPc[run] = "publish" /\ workerPc'[run] = "published"
        /\ finalState[run] \in Terminal /\ finalState' = finalState
        /\ finalState[run] = "Error" => errorMessage = run
    BY <1>3, LiveIsLatest DEF IInv, TypeOK, ErrorInv, AfterCheck, Publish, Live, Unfinished
  <2>2. Phase = "Running" /\ JobNumber = run /\ Report = 0
    BY <2>1 DEF Phase, JobNumber, Report, Launched
  <2>3. /\ Phase' = finalState[run] /\ JobNumber' = run
        /\ Report' = IF finalState[run] = "Error" THEN run ELSE 0
    BY <1>3, <2>1 DEF Publish, Phase, JobNumber, Report, Launched, Terminal, ownerVars
  <2>4. Job!Finish
    BY <2>1, <2>2, <2>3 DEF Job!Finish, Job!Ends, Job!Ended, Terminal
  <2> QED
    BY <2>4 DEF Job!Next
<1>4. CASE ResetClear
  <2>1. state \in Terminal /\ run # 0 /\ workerPc[run] # "unborn"
    BY <1>4 DEF IInv, StateInv, ResetClear
  <2>2. Phase = state /\ JobNumber = run
    BY <1>4, <2>1 DEF ResetClear, Phase, JobNumber, Launched, Terminal
  <2>3. Phase' = "Idle" /\ JobNumber' = run /\ Report' = 0
    BY <1>4, <2>1 DEF ResetClear, Phase, JobNumber, Report, Launched, threadVars
  <2>4. Job!Consume
    BY <2>1, <2>2, <2>3 DEF Job!Consume, Job!Resets, Job!Ended, Terminal
  <2> QED
    BY <2>4 DEF Job!Next
<1>5. CASE DtorJoin
  <2>1. state = "Running" => ~ Launched
    <3> SUFFICES ASSUME state = "Running", Launched PROVE FALSE
      OBVIOUS
    <3>1. run \in Runs /\ Live(run)
      <4>1. run # 0 /\ workerPc[run] # "unborn" /\ workerPc[run] # "exited"
        BY DEF IInv, StateInv, Launched
      <4>2. run \in 0 .. MaxRuns
        BY DEF IInv, TypeOK
      <4> QED
        BY <4>1, <4>2 DEF Live, Runs
    <3>2. thread = run /\ thread # 0
      BY <3>1 DEF IInv, ThreadInv, Runs
    <3> QED
      BY <1>5, <3>1, <3>2 DEF DtorJoin, CanJoin, Joinable
  <2>2. Phase \in {"Done", "Error", "Cancelled", "Idle"}
    BY <1>5, <2>1 DEF IInv, TypeOK, States, Terminal, DtorJoin, Phase
  <2>3. Phase' = "Destroyed" /\ JobNumber' = JobNumber /\ Report' = 0
    BY <1>5 DEF DtorJoin, Phase, JobNumber, Report, Launched, threadVars
  <2>4. Job!Destroy
    BY <2>2, <2>3 DEF Job!Destroy, Job!Dies, Job!Ended
  <2> QED
    BY <2>4 DEF Job!Next
<1>6. ASSUME StartRefused \/ ResetIgnored \/ Destroyed \/ UNCHANGED vars PROVE J
  <2>1. UNCHANGED <<Phase, JobNumber, Report>>
    BY <1>6 DEF StartRefused, ResetIgnored, Destroyed, Phase, JobNumber, Report, Launched,
       vars, ownerVars, threadVars
  <2> QED
    BY <2>1, JobStutter
<1>7. ASSUME \/ StartClear \/ StartJoin \/ StartLaunchThrows
             \/ Cancel \/ JoinCall \/ JoinReturn \/ ResetCall \/ ResetJoin \/ DtorCancel
      PROVE  J
  <2>1. UNCHANGED <<state, errorMessage, run, workerPc>> /\ mainPc # "gone" /\ mainPc' # "gone"
    BY <1>7 DEF StartClear, StartJoin, StartLaunchThrows, Cancel, JoinCall, JoinReturn,
       ResetCall, ResetJoin, DtorCancel, ownerVars, threadVars
  <2> QED
    BY <2>1, JobUnchanged, JobStutter
<1>8. ASSUME NEW r \in Runs,
             TaskReport(r) \/ TaskReturn(r) \/ TaskThrow(r) \/ CheckCancel(r) \/ StoreError(r)
               \/ ThreadExit(r)
      PROVE  J
  <2>1. Live(r)
    BY <1>8 DEF TaskReport, TaskReturn, TaskThrow, CheckCancel, StoreError, ThreadExit, Live
  <2>2. UNCHANGED <<state, run, mainPc>>
    BY <1>8 DEF TaskReport, TaskReturn, TaskThrow, CheckCancel, StoreError, ThreadExit, ownerVars
  <2>3. workerPc'[r] # "unborn"
    BY <1>8 DEF IInv, TypeOK, TaskReport, TaskReturn, TaskThrow, CheckCancel, StoreError,
       ThreadExit, threadVars
  <2>4. state = "Error" => errorMessage' = errorMessage
    <3>1. CASE StoreError(r)
      BY <2>1, <3>1, LiveIsLatest DEF StoreError, Unfinished
    <3>2. CASE ~ StoreError(r)
      BY <1>8, <3>2 DEF TaskReport, TaskReturn, TaskThrow, CheckCancel, ThreadExit
    <3> QED
      BY <3>1, <3>2
  <2> QED
    BY <2>1, <2>2, <2>3, <2>4, JobGoesOn, JobStutter
<1> QED
  BY <1>1, <1>2, <1>3, <1>4, <1>5, <1>6, <1>7, <1>8
     DEF Next, OwnerCall, OwnerStep, WorkerStep

(* AiWorker implements the safety part of the life cycle that the header   *)
(* draws, for every number of runs.                                        *)
THEOREM ImplementsLifecycle == SafeSpec => Job!SafeSpec
<1>1. Init => Job!Init
  BY DEF Init, Job!Init, Job!Unused, Phase, JobNumber, Report, Launched
<1>2. IInv /\ IInv' /\ [Next]_vars => [Job!Next]_(Job!vars)
  BY JobStep
<1> QED
  BY <1>1, <1>2, Invariance, PTL DEF SafeSpec, Job!SafeSpec
=============================================================================
