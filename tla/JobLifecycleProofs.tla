------------------------ MODULE JobLifecycleProofs ------------------------
(***************************************************************************)
(* Proofs about JobLifecycle, for any number of jobs, users, workers and   *)
(* API processes and any bounds on the faults: type correctness, one       *)
(* execution per job, at most one deduction per job, that a stop which was *)
(* answered is final, that the module implements Execution, and which runs *)
(* end without a deduction.                                                *)
(***************************************************************************)
EXTENDS JobLifecycle, TLAPS

-----------------------------------------------------------------------------
(* The inductive invariant. *)

\* A run_job holds its in-progress key.
HoldsKey == \A w \in Workers, j \in Jobs : pc[w][j] # "idle" => j \in inProgress

\* Past its first pipeline, a run_job has counted its try.
TryCounted ==
    \A w \in Workers, j \in Jobs : pc[w][j] \notin {"idle", "picked"} => tries[j] > 0

\* Up to the deduction the job has not been charged, and the status about to be
\* committed is terminal.
Uncharged ==
    \A w \in Workers, j \in Jobs :
        /\ pc[w][j] \in {"select", "start", "spider", "commit", "charge"} => charges[j] = 0
        /\ pc[w][j] \in {"commit", "charge"} => local[w][j] \in Terminal

\* A job that is charged, or about to be, is no longer RUNNING in the database,
\* so no later start-up takes it for an orphan.
ChargedNotRunning ==
    \A j \in Jobs :
        charges[j] > 0 \/ (\E w \in Workers : pc[w][j] = "charge") => status[j] # "RUNNING"

\* A charged job that arq could still run has a try against it already.
ChargedIsTried ==
    \A j \in Jobs :
        charges[j] > 0 /\ (j \in queue \/ \E w \in Workers : pc[w][j] = "picked")
            => tries[j] > 0

\* A job that a start-up is about to enqueue, and that was charged since its
\* SELECT, is refused: by its result or by its try.
RequeueIsRefused ==
    \A a \in ApiProcs, j \in Jobs :
        j \in todo[a] => /\ bootPc[a] = "requeue"
                         /\ charges[j] > 0 => tries[j] > 0 \/ j \in resultKey

\* Nothing has happened to a job that start_job has not enqueued yet.
UntouchedBeforeEnqueue ==
    \A j \in Jobs : startPc[j] # "answered" =>
        /\ j \notin queue
        /\ charges[j] = 0
        /\ status[j] # "RUNNING"
        /\ \A w \in Workers : pc[w][j] = "idle"
        /\ \A a \in ApiProcs : j \notin todo[a]

ExecInv == TypeOK /\ HoldsKey /\ OneExecution

ChargeInv ==
    /\ TryCounted /\ Uncharged /\ ChargedNotRunning /\ ChargedIsTried
    /\ RequeueIsRefused /\ UntouchedBeforeEnqueue /\ ChargedAtMostOnce

-----------------------------------------------------------------------------
(* Type correctness *)

\* Counting an event keeps the counters natural numbers.
LEMMA SpendType ==
  ASSUME TypeOK, NEW k \in Events, Spend(k)
  PROVE  used' \in [Events -> Nat]
BY DEF TypeOK, Spend

\* An interrupt moves one coroutine and touches no other.
LEMMA InterruptMoves ==
  ASSUME NEW w, NEW j, NEW escape, Interrupt(w, j, escape)
  PROVE  /\ pc[w][j] \in Coroutine
         /\ \E to \in {"commit", escape} : pc' = [pc EXCEPT ![w][j] = to]
BY DEF Interrupt, SetPc, Coroutine

\* Cancelled fetch workers break at most the session of their own run.
LEMMA TasksType ==
  ASSUME TypeOK, NEW w \in Workers, NEW j \in Jobs,
         UNCHANGED broken \/ TasksCancelled(w, j)
  PROVE  broken' \in [Workers -> [Jobs -> BOOLEAN]]
<1>1. CASE UNCHANGED broken
  BY <1>1 DEF TypeOK
<1>2. CASE broken' = [broken EXCEPT ![w][j] = TRUE]
  BY <1>2 DEF TypeOK
<1> QED
  BY <1>1, <1>2 DEF TasksCancelled

\* Wherever a cancellation finds the coroutine, what it changes stays well typed.
LEMMA InterruptType ==
  ASSUME TypeOK, NEW w \in Workers, NEW j \in Jobs,
         NEW escape \in {"finish", "rerun"}, Interrupt(w, j, escape)
  PROVE  /\ status' \in [Jobs -> Status \union {"none"}]
         /\ charges' \in [Jobs -> Nat]
         /\ local' \in [Workers -> [Jobs -> Status \union {"none"}]]
         /\ pc' \in [Workers -> [Jobs -> RunJobPc]]
         /\ broken' \in [Workers -> [Jobs -> BOOLEAN]]
<1> USE DEF TypeOK, SetPc, RunJobPc, Coroutine, dbVars
<1>1. \E to \in RunJobPc : pc' = [pc EXCEPT ![w][j] = to]
  BY InterruptMoves
<1>2. pc' \in [Workers -> [Jobs -> RunJobPc]]
  BY <1>1
<1>3. \/ status' = status
      \/ status' = [status EXCEPT ![j] = "RUNNING"]
      \/ status' = [status EXCEPT ![j] = local[w][j]]
  BY DEF Interrupt, WriteRunning
<1>4. status' \in [Jobs -> Status \union {"none"}]
  BY <1>3, SMTT(20) DEF Status, Active
<1>5. local' = local \/ local' = [local EXCEPT ![w][j] = "STOPPED"]
  BY DEF Interrupt
<1>6. local' \in [Workers -> [Jobs -> Status \union {"none"}]]
  <2>1. CASE local' = local
    BY <2>1
  <2>2. CASE local' = [local EXCEPT ![w][j] = "STOPPED"]
    BY <2>2 DEF Status, Terminal
  <2>3. QED
    BY <1>5, <2>1, <2>2
<1>7. charges' = charges \/ charges' = [charges EXCEPT ![j] = @ + 1]
  BY DEF Interrupt
<1>8. charges' \in [Jobs -> Nat]
  <2>1. CASE charges' = charges
    BY <2>1
  <2>2. CASE charges' = [charges EXCEPT ![j] = @ + 1]
    BY <2>2
  <2>3. QED
    BY <1>7, <2>1, <2>2
<1>9. broken' \in [Workers -> [Jobs -> BOOLEAN]]
  BY TasksType DEF Interrupt
<1>10. QED
  BY <1>2, <1>4, <1>6, <1>8, <1>9

\* Every step of every process keeps the variables in their types.
LEMMA TypeStep == TypeOK /\ [Next]_vars => TypeOK'
<1> SUFFICES ASSUME TypeOK, [Next]_vars PROVE TypeOK'
  OBVIOUS
<1> USE DEF TypeOK, RunJobPc, Coroutine
<1>1. ASSUME NEW j \in Jobs, StartCount(j)
      PROVE  TypeOK'
  BY <1>1 DEF dbVars, redisVars, apiVars, taskVars, StartCount
<1>2. ASSUME NEW j \in Jobs, StartInsert(j)
      PROVE  TypeOK'
  BY <1>2 DEF dbVars, redisVars, apiVars, taskVars, StartInsert, Status, Active
<1>3. ASSUME NEW j \in Jobs, StartEnqueue(j)
      PROVE  TypeOK'
  BY <1>3 DEF dbVars, redisVars, apiVars, taskVars, StartEnqueue, EnqueueJob
<1>4. ASSUME NEW j \in Jobs, StartLost(j)
      PROVE  TypeOK'
  BY <1>4, SpendType DEF dbVars, redisVars, apiVars, taskVars, StartLost, Events
<1>5. ASSUME NEW j \in Jobs, StopRead(j)
      PROVE  TypeOK'
  BY <1>5, SpendType DEF dbVars, redisVars, apiVars, taskVars, StopRead, Events, Active,
     Status, Terminal
<1>6. ASSUME NEW j \in Jobs, StopCommit(j)
      PROVE  TypeOK'
  BY <1>6 DEF dbVars, redisVars, apiVars, taskVars, StopCommit, Status, Terminal
<1>7. ASSUME NEW j \in Jobs, StopPublish(j)
      PROVE  TypeOK'
  BY <1>7 DEF dbVars, redisVars, apiVars, taskVars, StopPublish
<1>8. ASSUME NEW j \in Jobs, StopAbort(j)
      PROVE  TypeOK'
  BY <1>8 DEF dbVars, redisVars, apiVars, taskVars, StopAbort
<1>9. ASSUME NEW j \in Jobs, StopReturn(j)
      PROVE  TypeOK'
  BY <1>9 DEF dbVars, redisVars, apiVars, taskVars, StopReturn
<1>10. ASSUME NEW j \in Jobs, WsStop(j)
      PROVE  TypeOK'
  BY <1>10, SpendType DEF dbVars, redisVars, apiVars, taskVars, WsStop, Events
<1>11. ASSUME NEW j \in Jobs, CommandIgnored(j)
      PROVE  TypeOK'
  BY <1>11 DEF dbVars, redisVars, apiVars, taskVars, CommandIgnored
<1>12. ASSUME NEW j \in Jobs, InProgressExpires(j)
      PROVE  TypeOK'
  BY <1>12 DEF dbVars, redisVars, apiVars, taskVars, InProgressExpires, Idle
<1>13. ASSUME NEW j \in Jobs, ResultExpires(j)
      PROVE  TypeOK'
  BY <1>13 DEF dbVars, redisVars, apiVars, taskVars, ResultExpires
<1>14. ASSUME NEW a \in ApiProcs, BootPurge(a)
      PROVE  TypeOK'
  BY <1>14, SpendType DEF dbVars, redisVars, apiVars, taskVars, BootPurge, Events
<1>15. ASSUME NEW a \in ApiProcs, BootSelect(a)
      PROVE  TypeOK'
  BY <1>15 DEF dbVars, redisVars, apiVars, taskVars, BootSelect
<1>16. ASSUME NEW a \in ApiProcs, BootCommit(a)
      PROVE  TypeOK'
  BY <1>16 DEF dbVars, redisVars, apiVars, taskVars, BootCommit, Status, Active
<1>17. ASSUME NEW a \in ApiProcs, NEW j \in Jobs, BootEnqueue(a, j)
      PROVE  TypeOK'
  BY <1>17 DEF dbVars, redisVars, apiVars, taskVars, BootEnqueue, EnqueueJob
<1>18. ASSUME NEW late \in SUBSET Jobs, HungSelect(late)
      PROVE  TypeOK'
  BY <1>18 DEF dbVars, redisVars, apiVars, taskVars, HungSelect
<1>19. ASSUME HungCommit
      PROVE  TypeOK'
  BY <1>19 DEF dbVars, redisVars, apiVars, taskVars, HungCommit, Status, Terminal
<1>20. ASSUME NEW w \in Workers, NEW j \in Jobs, Pick(w, j)
      PROVE  TypeOK'
  BY <1>20 DEF dbVars, redisVars, apiVars, taskVars, Pick, SetPc
<1>21. ASSUME NEW w \in Workers, NEW j \in Jobs, RunJob(w, j)
      PROVE  TypeOK'
  BY <1>21 DEF dbVars, redisVars, apiVars, taskVars, RunJob, SetPc
<1>22. ASSUME NEW w \in Workers, NEW j \in Jobs, FinishFailed(w, j)
      PROVE  TypeOK'
  BY <1>22 DEF dbVars, redisVars, apiVars, taskVars, FinishFailed, Forget, SetPc
<1>23. ASSUME NEW w \in Workers, NEW j \in Jobs, FinishJob(w, j)
      PROVE  TypeOK'
  BY <1>23 DEF dbVars, redisVars, apiVars, taskVars, FinishJob, Forget, ForgetLocals, SetPc
<1>24. ASSUME NEW w \in Workers, NEW j \in Jobs, FinishRerun(w, j)
      PROVE  TypeOK'
  BY <1>24 DEF dbVars, redisVars, apiVars, taskVars, FinishRerun, ForgetLocals, SetPc
<1>25. ASSUME NEW w \in Workers, NEW j \in Jobs, SelectJob(w, j)
      PROVE  TypeOK'
  BY <1>25 DEF dbVars, redisVars, apiVars, taskVars, SelectJob, SetPc
<1>26. ASSUME NEW w \in Workers, NEW j \in Jobs, PrologueFails(w, j)
      PROVE  TypeOK'
  BY <1>26, SpendType DEF dbVars, redisVars, apiVars, taskVars, PrologueFails, Events, SetPc
<1>27. ASSUME NEW w \in Workers, NEW j \in Jobs, MarkRunning(w, j)
      PROVE  TypeOK'
  BY <1>27 DEF dbVars, redisVars, apiVars, taskVars, MarkRunning, WriteRunning, Status,
     Active, SetPc
<1>28. ASSUME NEW w \in Workers, NEW j \in Jobs, PushEmail(w, j)
      PROVE  TypeOK'
  <2>1. used' \in [Events -> Nat]
    BY <1>28, SpendType DEF PushEmail, Events
  <2>2. broken' = broken \/ broken' = [broken EXCEPT ![w][j] = TRUE]
    BY <1>28 DEF PushEmail
  <2>3. broken' \in [Workers -> [Jobs -> BOOLEAN]]
    <3>1. CASE broken' = broken
      BY <3>1
    <3>2. CASE broken' = [broken EXCEPT ![w][j] = TRUE]
      BY <3>2
    <3>3. QED
      BY <2>2, <3>1, <3>2
  <2>4. found' \in [Workers -> [Jobs -> BOOLEAN]]
    BY <1>28 DEF PushEmail
  <2>5. QED
    BY <1>28, <2>1, <2>3, <2>4 DEF dbVars, redisVars, apiVars, PushEmail
<1>29. ASSUME NEW w \in Workers, NEW j \in Jobs, SpiderEnds(w, j)
      PROVE  TypeOK'
  BY <1>29, TasksType DEF dbVars, redisVars, apiVars, taskVars, SpiderEnds, Status,
     Terminal, SetPc
<1>30. ASSUME NEW w \in Workers, NEW j \in Jobs, FinalCommit(w, j)
      PROVE  TypeOK'
  BY <1>30 DEF dbVars, redisVars, apiVars, taskVars, FinalCommit, Status, Active, Terminal, SetPc
<1>31. ASSUME NEW w \in Workers, NEW j \in Jobs, FinallyFails(w, j)
      PROVE  TypeOK'
  BY <1>31, SpendType DEF dbVars, redisVars, apiVars, taskVars, FinallyFails, Events, SetPc
<1>32. ASSUME NEW w \in Workers, NEW j \in Jobs, Charge(w, j)
      PROVE  TypeOK'
  <2>1. charges' \in [Jobs -> Nat] /\ used' \in [Events -> Nat]
    <3>1. CASE charges' = [charges EXCEPT ![j] = @ + 1] /\ UNCHANGED used
      BY <3>1
    <3>2. CASE Spend("refusal") /\ UNCHANGED charges
      BY <3>2, SpendType DEF Events
    <3> QED
      BY <1>32, <3>1, <3>2 DEF Charge
  <2>2. pc' \in [Workers -> [Jobs -> RunJobPc]]
    BY <1>32 DEF Charge, SetPc
  <2> QED
    BY <1>32, <2>1, <2>2 DEF redisVars, apiVars, Charge
<1>33. ASSUME NEW w \in Workers, NEW j \in Jobs, Announce(w, j)
      PROVE  TypeOK'
  BY <1>33 DEF dbVars, redisVars, apiVars, taskVars, Announce, SetPc
<1>34. ASSUME NEW w \in Workers, NEW j \in Jobs, CommandCancels(w, j)
      PROVE  TypeOK'
  BY <1>34, InterruptType DEF dbVars, redisVars, apiVars, taskVars, CommandCancels
<1>35. ASSUME NEW w \in Workers, NEW j \in Jobs, CancelAborted(w, j)
      PROVE  TypeOK'
  BY <1>35, InterruptType DEF dbVars, redisVars, apiVars, taskVars, CancelAborted, Cancellable
<1>36. ASSUME NEW w \in Workers, NEW j \in Jobs, JobTimeout(w, j)
      PROVE  TypeOK'
  BY <1>36, SpendType, InterruptType DEF dbVars, redisVars, apiVars, taskVars, JobTimeout, Events
<1>37. ASSUME NEW w \in Workers, NEW j \in Jobs, SignalCancels(w, j)
      PROVE  TypeOK'
  BY <1>37, SpendType, InterruptType DEF dbVars, redisVars, apiVars, taskVars, SignalCancels, Events
<1>38. ASSUME NEW w \in Workers, WorkerCrash(w)
      PROVE  TypeOK'
  BY <1>38, SpendType DEF dbVars, redisVars, apiVars, taskVars, WorkerCrash, Events, Spend
<1>39. CASE UNCHANGED vars
  BY <1>39 DEF dbVars, redisVars, apiVars, taskVars, vars
<1>40. QED
  BY <1>1, <1>2, <1>3, <1>4, <1>5, <1>6, <1>7, <1>8, <1>9, <1>10, <1>11, <1>12, <1>13,
     <1>14, <1>15, <1>16, <1>17, <1>18, <1>19, <1>20, <1>21, <1>22, <1>23, <1>24, <1>25,
     <1>26, <1>27, <1>28, <1>29, <1>30, <1>31, <1>32, <1>33, <1>34, <1>35, <1>36, <1>37,
     <1>38, <1>39
  DEF Next, StartStep, StopStep, BootStep, WorkerStep

-----------------------------------------------------------------------------
(* One execution per job *)

\* A cancellation moves a coroutine that its worker already holds: nobody else
\* gets hold of the job.
LEMMA ExecInterrupt ==
  ASSUME ExecInv, NEW w \in Workers, NEW j \in Jobs, NEW escape,
         Interrupt(w, j, escape), inProgress' = inProgress
  PROVE  HoldsKey' /\ OneExecution'
<1>1. PICK to : pc' = [pc EXCEPT ![w][j] = to]
  BY InterruptMoves
<1>2. pc[w][j] # "idle"
  BY InterruptMoves DEF Coroutine
<1>3. \A v \in Workers, k \in Jobs : pc'[v][k] # "idle" => pc[v][k] # "idle"
  BY <1>1, <1>2 DEF ExecInv, TypeOK
<1>4. QED
  BY <1>3 DEF ExecInv, HoldsKey, OneExecution

\* Every step keeps the in-progress key with the worker that holds the job.  Pick is
\* the only way in, and the key is released only on the way out.
LEMMA ExecStep == ExecInv /\ [Next]_vars => HoldsKey' /\ OneExecution'
<1> SUFFICES ASSUME ExecInv, [Next]_vars PROVE HoldsKey' /\ OneExecution'
  OBVIOUS
<1> USE DEF ExecInv, TypeOK, HoldsKey, OneExecution
<1>1. ASSUME NEW j \in Jobs, StartCount(j)
      PROVE  HoldsKey' /\ OneExecution'
  BY <1>1 DEF redisVars, taskVars, StartCount
<1>2. ASSUME NEW j \in Jobs, StartInsert(j)
      PROVE  HoldsKey' /\ OneExecution'
  BY <1>2 DEF redisVars, taskVars, StartInsert
<1>3. ASSUME NEW j \in Jobs, StartEnqueue(j)
      PROVE  HoldsKey' /\ OneExecution'
  BY <1>3 DEF redisVars, taskVars, StartEnqueue
<1>4. ASSUME NEW j \in Jobs, StartLost(j)
      PROVE  HoldsKey' /\ OneExecution'
  BY <1>4 DEF redisVars, taskVars, StartLost
<1>5. ASSUME NEW j \in Jobs, StopRead(j)
      PROVE  HoldsKey' /\ OneExecution'
  BY <1>5 DEF redisVars, taskVars, StopRead
<1>6. ASSUME NEW j \in Jobs, StopCommit(j)
      PROVE  HoldsKey' /\ OneExecution'
  BY <1>6 DEF redisVars, taskVars, StopCommit
<1>7. ASSUME NEW j \in Jobs, StopPublish(j)
      PROVE  HoldsKey' /\ OneExecution'
  BY <1>7 DEF redisVars, taskVars, StopPublish
<1>8. ASSUME NEW j \in Jobs, StopAbort(j)
      PROVE  HoldsKey' /\ OneExecution'
  BY <1>8 DEF redisVars, taskVars, StopAbort
<1>9. ASSUME NEW j \in Jobs, StopReturn(j)
      PROVE  HoldsKey' /\ OneExecution'
  BY <1>9 DEF redisVars, taskVars, StopReturn
<1>10. ASSUME NEW j \in Jobs, WsStop(j)
      PROVE  HoldsKey' /\ OneExecution'
  BY <1>10 DEF redisVars, taskVars, WsStop
<1>11. ASSUME NEW j \in Jobs, CommandIgnored(j)
      PROVE  HoldsKey' /\ OneExecution'
  BY <1>11 DEF redisVars, taskVars, CommandIgnored
<1>12. ASSUME NEW j \in Jobs, InProgressExpires(j)
      PROVE  HoldsKey' /\ OneExecution'
  BY <1>12 DEF redisVars, taskVars, InProgressExpires, Idle
<1>13. ASSUME NEW j \in Jobs, ResultExpires(j)
      PROVE  HoldsKey' /\ OneExecution'
  BY <1>13 DEF redisVars, taskVars, ResultExpires
<1>14. ASSUME NEW a \in ApiProcs, BootPurge(a)
      PROVE  HoldsKey' /\ OneExecution'
  BY <1>14 DEF redisVars, taskVars, BootPurge
<1>15. ASSUME NEW a \in ApiProcs, BootSelect(a)
      PROVE  HoldsKey' /\ OneExecution'
  BY <1>15 DEF redisVars, taskVars, BootSelect
<1>16. ASSUME NEW a \in ApiProcs, BootCommit(a)
      PROVE  HoldsKey' /\ OneExecution'
  BY <1>16 DEF redisVars, taskVars, BootCommit
<1>17. ASSUME NEW a \in ApiProcs, NEW j \in Jobs, BootEnqueue(a, j)
      PROVE  HoldsKey' /\ OneExecution'
  BY <1>17 DEF redisVars, taskVars, BootEnqueue, EnqueueJob
<1>18. ASSUME NEW late \in SUBSET Jobs, HungSelect(late)
      PROVE  HoldsKey' /\ OneExecution'
  BY <1>18 DEF redisVars, taskVars, HungSelect
<1>19. ASSUME HungCommit
      PROVE  HoldsKey' /\ OneExecution'
  BY <1>19 DEF redisVars, taskVars, HungCommit
<1>20. ASSUME NEW w \in Workers, NEW j \in Jobs, Pick(w, j)
      PROVE  HoldsKey' /\ OneExecution'
  BY <1>20 DEF redisVars, taskVars, Pick, SetPc
<1>21. ASSUME NEW w \in Workers, NEW j \in Jobs, RunJob(w, j)
      PROVE  HoldsKey' /\ OneExecution'
  BY <1>21 DEF redisVars, taskVars, RunJob, SetPc
<1>22. ASSUME NEW w \in Workers, NEW j \in Jobs, FinishFailed(w, j)
      PROVE  HoldsKey' /\ OneExecution'
  BY <1>22 DEF redisVars, taskVars, FinishFailed, Forget, SetPc
<1>23. ASSUME NEW w \in Workers, NEW j \in Jobs, FinishJob(w, j)
      PROVE  HoldsKey' /\ OneExecution'
  BY <1>23 DEF redisVars, taskVars, FinishJob, Forget, SetPc
<1>24. ASSUME NEW w \in Workers, NEW j \in Jobs, FinishRerun(w, j)
      PROVE  HoldsKey' /\ OneExecution'
  BY <1>24 DEF redisVars, taskVars, FinishRerun, SetPc
<1>25. ASSUME NEW w \in Workers, NEW j \in Jobs, SelectJob(w, j)
      PROVE  HoldsKey' /\ OneExecution'
  BY <1>25 DEF redisVars, taskVars, SelectJob, SetPc
<1>26. ASSUME NEW w \in Workers, NEW j \in Jobs, PrologueFails(w, j)
      PROVE  HoldsKey' /\ OneExecution'
  BY <1>26 DEF redisVars, taskVars, PrologueFails, SetPc
<1>27. ASSUME NEW w \in Workers, NEW j \in Jobs, MarkRunning(w, j)
      PROVE  HoldsKey' /\ OneExecution'
  BY <1>27 DEF redisVars, taskVars, MarkRunning, SetPc
<1>28. ASSUME NEW w \in Workers, NEW j \in Jobs, PushEmail(w, j)
      PROVE  HoldsKey' /\ OneExecution'
  BY <1>28 DEF redisVars, taskVars, PushEmail
<1>29. ASSUME NEW w \in Workers, NEW j \in Jobs, SpiderEnds(w, j)
      PROVE  HoldsKey' /\ OneExecution'
  BY <1>29 DEF redisVars, taskVars, SpiderEnds, SetPc
<1>30. ASSUME NEW w \in Workers, NEW j \in Jobs, FinalCommit(w, j)
      PROVE  HoldsKey' /\ OneExecution'
  BY <1>30 DEF redisVars, taskVars, FinalCommit, SetPc
<1>31. ASSUME NEW w \in Workers, NEW j \in Jobs, FinallyFails(w, j)
      PROVE  HoldsKey' /\ OneExecution'
  BY <1>31 DEF redisVars, taskVars, FinallyFails, SetPc
<1>32. ASSUME NEW w \in Workers, NEW j \in Jobs, Charge(w, j)
      PROVE  HoldsKey' /\ OneExecution'
  BY <1>32 DEF redisVars, taskVars, Charge, SetPc
<1>33. ASSUME NEW w \in Workers, NEW j \in Jobs, Announce(w, j)
      PROVE  HoldsKey' /\ OneExecution'
  BY <1>33 DEF redisVars, taskVars, Announce, SetPc
<1>34. ASSUME NEW w \in Workers, NEW j \in Jobs, CommandCancels(w, j)
      PROVE  HoldsKey' /\ OneExecution'
  BY <1>34, ExecInterrupt DEF redisVars, CommandCancels
<1>35. ASSUME NEW w \in Workers, NEW j \in Jobs, CancelAborted(w, j)
      PROVE  HoldsKey' /\ OneExecution'
  BY <1>35, ExecInterrupt DEF redisVars, CancelAborted
<1>36. ASSUME NEW w \in Workers, NEW j \in Jobs, JobTimeout(w, j)
      PROVE  HoldsKey' /\ OneExecution'
  BY <1>36, ExecInterrupt DEF redisVars, JobTimeout
<1>37. ASSUME NEW w \in Workers, NEW j \in Jobs, SignalCancels(w, j)
      PROVE  HoldsKey' /\ OneExecution'
  BY <1>37, ExecInterrupt DEF redisVars, SignalCancels
<1>38. ASSUME NEW w \in Workers, WorkerCrash(w)
      PROVE  HoldsKey' /\ OneExecution'
  BY <1>38 DEF redisVars, taskVars, WorkerCrash
<1>39. CASE UNCHANGED vars
  BY <1>39 DEF redisVars, taskVars, vars
<1>40. QED
  BY <1>1, <1>2, <1>3, <1>4, <1>5, <1>6, <1>7, <1>8, <1>9, <1>10, <1>11, <1>12, <1>13,
     <1>14, <1>15, <1>16, <1>17, <1>18, <1>19, <1>20, <1>21, <1>22, <1>23, <1>24, <1>25,
     <1>26, <1>27, <1>28, <1>29, <1>30, <1>31, <1>32, <1>33, <1>34, <1>35, <1>36, <1>37,
     <1>38, <1>39
  DEF Next, StartStep, StopStep, BootStep, WorkerStep

-----------------------------------------------------------------------------
(* At most one deduction per job *)

\* A cancellation charges at most once: at the deduction, which it then leaves.
LEMMA ChargeInterrupt ==
  ASSUME ExecInv, ChargeInv, NEW w \in Workers, NEW j \in Jobs,
         NEW escape \in {"finish", "rerun"}, Interrupt(w, j, escape),
         UNCHANGED <<queue, tries, resultKey, startPc, todo, bootPc>>
  PROVE  ChargeInv'
<1> USE DEF ExecInv, TypeOK, HoldsKey, OneExecution, ChargeInv, TryCounted, Uncharged,
            ChargedNotRunning, ChargedIsTried, RequeueIsRefused,
            UntouchedBeforeEnqueue, ChargedAtMostOnce, Terminal, SetPc
<1>1. CASE /\ pc[w][j] \in {"spider", "commit"}
           /\ local' = [local EXCEPT ![w][j] = "STOPPED"]
           /\ SetPc(w, j, "commit")
           /\ UNCHANGED dbVars
  BY <1>1 DEF dbVars
<1>2. CASE /\ pc[w][j] \in Coroutine \ {"spider"}
           /\ SetPc(w, j, escape)
           /\ UNCHANGED <<local, dbVars>>
  BY <1>2 DEF dbVars, Coroutine
<1>3. CASE /\ pc[w][j] = "start"
           /\ SetPc(w, j, escape)
           /\ WriteRunning(w, j)
           /\ UNCHANGED <<local, charges>>
  BY <1>3 DEF WriteRunning
<1>4. CASE /\ pc[w][j] = "commit" /\ ~broken[w][j]
           /\ SetPc(w, j, escape)
           /\ status' = [status EXCEPT ![j] = local[w][j]]
           /\ UNCHANGED <<local, charges>>
  BY <1>4
<1>5. CASE /\ pc[w][j] = "charge"
           /\ SetPc(w, j, escape)
           /\ charges' = [charges EXCEPT ![j] = @ + 1]
           /\ UNCHANGED <<local, status>>
  BY <1>5
<1>6. QED
  BY <1>1, <1>2, <1>3, <1>4, <1>5 DEF Interrupt

\* A picked job without a try against it has not been charged.
LEMMA UntriedUncharged ==
  ASSUME TypeOK, ChargedIsTried, NEW w \in Workers, NEW j \in Jobs,
         pc[w][j] = "picked", tries[j] = 0
  PROVE  charges[j] = 0
<1>1. charges[j] \in Nat
  BY DEF TypeOK
<1>2. ~(charges[j] > 0)
  BY DEF ChargedIsTried
<1>3. QED
  BY <1>1, <1>2

\* Every step keeps the account of tries and charges: wherever arq could still run a
\* charged job, a try counts against it.
LEMMA ChargeStep ==
  ASSUME MaxTries = 1
  PROVE  ExecInv /\ ChargeInv /\ [Next]_vars => ChargeInv'
<1> SUFFICES ASSUME ExecInv, ChargeInv, [Next]_vars PROVE ChargeInv'
  OBVIOUS
<1> USE DEF ExecInv, TypeOK, HoldsKey, OneExecution, ChargeInv, TryCounted, Uncharged,
            ChargedNotRunning, ChargedIsTried, RequeueIsRefused,
            UntouchedBeforeEnqueue, ChargedAtMostOnce, Terminal
<1>1. ASSUME NEW j \in Jobs, StartCount(j)
      PROVE  ChargeInv'
  BY <1>1 DEF dbVars, redisVars, apiVars, taskVars, StartCount
<1>2. ASSUME NEW j \in Jobs, StartInsert(j)
      PROVE  ChargeInv'
  BY <1>2 DEF dbVars, redisVars, apiVars, taskVars, StartInsert
<1>3. ASSUME NEW j \in Jobs, StartEnqueue(j)
      PROVE  ChargeInv'
  BY <1>3 DEF dbVars, redisVars, apiVars, taskVars, StartEnqueue, EnqueueJob
<1>4. ASSUME NEW j \in Jobs, StartLost(j)
      PROVE  ChargeInv'
  BY <1>4 DEF dbVars, redisVars, apiVars, taskVars, StartLost
<1>5. ASSUME NEW j \in Jobs, StopRead(j)
      PROVE  ChargeInv'
  BY <1>5 DEF dbVars, redisVars, apiVars, taskVars, StopRead
<1>6. ASSUME NEW j \in Jobs, StopCommit(j)
      PROVE  ChargeInv'
  BY <1>6 DEF dbVars, redisVars, apiVars, taskVars, StopCommit
<1>7. ASSUME NEW j \in Jobs, StopPublish(j)
      PROVE  ChargeInv'
  BY <1>7 DEF dbVars, redisVars, apiVars, taskVars, StopPublish
<1>8. ASSUME NEW j \in Jobs, StopAbort(j)
      PROVE  ChargeInv'
  BY <1>8 DEF dbVars, redisVars, apiVars, taskVars, StopAbort
<1>9. ASSUME NEW j \in Jobs, StopReturn(j)
      PROVE  ChargeInv'
  BY <1>9 DEF dbVars, redisVars, apiVars, taskVars, StopReturn
<1>10. ASSUME NEW j \in Jobs, WsStop(j)
      PROVE  ChargeInv'
  BY <1>10 DEF dbVars, redisVars, apiVars, taskVars, WsStop
<1>11. ASSUME NEW j \in Jobs, CommandIgnored(j)
      PROVE  ChargeInv'
  BY <1>11 DEF dbVars, redisVars, apiVars, taskVars, CommandIgnored
<1>12. ASSUME NEW j \in Jobs, InProgressExpires(j)
      PROVE  ChargeInv'
  BY <1>12 DEF dbVars, redisVars, apiVars, taskVars, InProgressExpires
<1>13. ASSUME NEW j \in Jobs, ResultExpires(j)
      PROVE  ChargeInv'
  BY <1>13 DEF dbVars, redisVars, apiVars, taskVars, ResultExpires
<1>14. ASSUME NEW a \in ApiProcs, BootPurge(a)
      PROVE  ChargeInv'
  BY <1>14 DEF dbVars, redisVars, apiVars, taskVars, BootPurge
<1>15. ASSUME NEW a \in ApiProcs, BootSelect(a)
      PROVE  ChargeInv'
  BY <1>15 DEF dbVars, redisVars, apiVars, taskVars, BootSelect
<1>16. ASSUME NEW a \in ApiProcs, BootCommit(a)
      PROVE  ChargeInv'
  BY <1>16 DEF dbVars, redisVars, apiVars, taskVars, BootCommit
<1>17. ASSUME NEW a \in ApiProcs, NEW j \in Jobs, BootEnqueue(a, j)
      PROVE  ChargeInv'
  BY <1>17 DEF dbVars, redisVars, apiVars, taskVars, BootEnqueue, EnqueueJob
<1>18. ASSUME NEW late \in SUBSET Jobs, HungSelect(late)
      PROVE  ChargeInv'
  BY <1>18 DEF dbVars, redisVars, apiVars, taskVars, HungSelect
<1>19. ASSUME HungCommit
      PROVE  ChargeInv'
  BY <1>19 DEF dbVars, redisVars, apiVars, taskVars, HungCommit
<1>20. ASSUME NEW w \in Workers, NEW j \in Jobs, Pick(w, j)
      PROVE  ChargeInv'
  BY <1>20 DEF dbVars, redisVars, apiVars, taskVars, Pick, SetPc
<1>21. ASSUME NEW w \in Workers, NEW j \in Jobs, RunJob(w, j)
      PROVE  ChargeInv'
  <2>1. tries[j] \in Nat /\ tries' = [tries EXCEPT ![j] = @ + 1] /\ pc[w][j] = "picked"
    BY <1>21 DEF RunJob
  <2>2. UNCHANGED <<status, charges, queue, resultKey, startPc, todo, bootPc, local>>
    BY <1>21 DEF RunJob, dbVars, apiVars
  <2>3. CASE tries[j] = 0
    <3>1. charges[j] = 0
      BY <2>1, <2>3, UntriedUncharged
    <3>2. PICK to \in {"fail", "select"} : pc' = [pc EXCEPT ![w][j] = to]
      BY <1>21 DEF RunJob, SetPc
    <3>3. QED
      BY <2>1, <2>2, <3>1, <3>2
  <2>4. CASE tries[j] # 0
    <3>1. tries[j] + 1 > MaxTries
      BY <2>1, <2>4
    <3>2. pc' = [pc EXCEPT ![w][j] = "fail"]
      BY <1>21, <3>1 DEF RunJob, SetPc
    <3>3. QED
      BY <2>1, <2>2, <3>2
  <2>5. QED
    BY <2>3, <2>4
<1>22. ASSUME NEW w \in Workers, NEW j \in Jobs, FinishFailed(w, j)
      PROVE  ChargeInv'
  BY <1>22 DEF dbVars, redisVars, apiVars, taskVars, FinishFailed, Forget, SetPc
<1>23. ASSUME NEW w \in Workers, NEW j \in Jobs, FinishJob(w, j)
      PROVE  ChargeInv'
  BY <1>23 DEF dbVars, redisVars, apiVars, taskVars, FinishJob, Forget, ForgetLocals, SetPc
<1>24. ASSUME NEW w \in Workers, NEW j \in Jobs, FinishRerun(w, j)
      PROVE  ChargeInv'
  BY <1>24 DEF dbVars, redisVars, apiVars, taskVars, FinishRerun, ForgetLocals, SetPc
<1>25. ASSUME NEW w \in Workers, NEW j \in Jobs, SelectJob(w, j)
      PROVE  ChargeInv'
  BY <1>25 DEF dbVars, redisVars, apiVars, taskVars, SelectJob, SetPc
<1>26. ASSUME NEW w \in Workers, NEW j \in Jobs, PrologueFails(w, j)
      PROVE  ChargeInv'
  BY <1>26 DEF dbVars, redisVars, apiVars, taskVars, PrologueFails, SetPc
<1>27. ASSUME NEW w \in Workers, NEW j \in Jobs, MarkRunning(w, j)
      PROVE  ChargeInv'
  BY <1>27 DEF dbVars, redisVars, apiVars, taskVars, MarkRunning, WriteRunning, SetPc
<1>28. ASSUME NEW w \in Workers, NEW j \in Jobs, PushEmail(w, j)
      PROVE  ChargeInv'
  BY <1>28 DEF dbVars, redisVars, apiVars, taskVars, PushEmail
<1>29. ASSUME NEW w \in Workers, NEW j \in Jobs, SpiderEnds(w, j)
      PROVE  ChargeInv'
  BY <1>29 DEF dbVars, redisVars, apiVars, taskVars, SpiderEnds, SetPc
<1>30. ASSUME NEW w \in Workers, NEW j \in Jobs, FinalCommit(w, j)
      PROVE  ChargeInv'
  <2>1. CASE broken[w][j]
    BY <1>30, <2>1 DEF redisVars, apiVars, FinalCommit, SetPc
  <2>2. CASE ~broken[w][j]
    <3>1. status' = [status EXCEPT ![j] = local[w][j]] /\ local[w][j] \in Terminal
      BY <1>30, <2>2 DEF FinalCommit
    <3>2. PICK to \in {"charge", "announce"} : pc' = [pc EXCEPT ![w][j] = to]
      BY <1>30 DEF FinalCommit, SetPc
    <3>3. UNCHANGED <<charges, queue, tries, resultKey, startPc, todo, bootPc, local>>
      BY <1>30 DEF FinalCommit, redisVars, apiVars
    <3>4. pc[w][j] = "commit"
      BY <1>30 DEF FinalCommit
    <3>5. QED
      BY <3>1, <3>2, <3>3, <3>4
  <2>3. QED
    BY <2>1, <2>2
<1>31. ASSUME NEW w \in Workers, NEW j \in Jobs, FinallyFails(w, j)
      PROVE  ChargeInv'
  BY <1>31 DEF dbVars, redisVars, apiVars, taskVars, FinallyFails, SetPc
<1>32. ASSUME NEW w \in Workers, NEW j \in Jobs, Charge(w, j)
      PROVE  ChargeInv'
  <2>1. /\ pc[w][j] = "charge" /\ pc' = [pc EXCEPT ![w][j] = "announce"]
        /\ UNCHANGED <<status, queue, tries, resultKey, startPc, todo, bootPc, local>>
    BY <1>32 DEF Charge, SetPc, redisVars, apiVars
  <2>2. CASE charges' = [charges EXCEPT ![j] = @ + 1]
    BY <2>1, <2>2
  <2>3. CASE UNCHANGED charges
    BY <2>1, <2>3
  <2> QED
    BY <1>32, <2>2, <2>3 DEF Charge
<1>33. ASSUME NEW w \in Workers, NEW j \in Jobs, Announce(w, j)
      PROVE  ChargeInv'
  BY <1>33 DEF dbVars, redisVars, apiVars, taskVars, Announce, SetPc
<1>34. ASSUME NEW w \in Workers, NEW j \in Jobs, CommandCancels(w, j)
      PROVE  ChargeInv'
  BY <1>34, ChargeInterrupt DEF redisVars, apiVars, CommandCancels
<1>35. ASSUME NEW w \in Workers, NEW j \in Jobs, CancelAborted(w, j)
      PROVE  ChargeInv'
  BY <1>35, ChargeInterrupt DEF redisVars, apiVars, CancelAborted
<1>36. ASSUME NEW w \in Workers, NEW j \in Jobs, JobTimeout(w, j)
      PROVE  ChargeInv'
  BY <1>36, ChargeInterrupt DEF redisVars, apiVars, JobTimeout
<1>37. ASSUME NEW w \in Workers, NEW j \in Jobs, SignalCancels(w, j)
      PROVE  ChargeInv'
  BY <1>37, ChargeInterrupt DEF redisVars, apiVars, SignalCancels
<1>38. ASSUME NEW w \in Workers, WorkerCrash(w)
      PROVE  ChargeInv'
  BY <1>38 DEF dbVars, redisVars, apiVars, taskVars, WorkerCrash
<1>39. CASE UNCHANGED vars
  BY <1>39 DEF dbVars, redisVars, apiVars, taskVars, vars
<1>40. QED
  BY <1>1, <1>2, <1>3, <1>4, <1>5, <1>6, <1>7, <1>8, <1>9, <1>10, <1>11, <1>12, <1>13,
     <1>14, <1>15, <1>16, <1>17, <1>18, <1>19, <1>20, <1>21, <1>22, <1>23, <1>24, <1>25,
     <1>26, <1>27, <1>28, <1>29, <1>30, <1>31, <1>32, <1>33, <1>34, <1>35, <1>36, <1>37,
     <1>38, <1>39
  DEF Next, StartStep, StopStep, BootStep, WorkerStep

\* A cancellation takes no coroutine into its spider.
LEMMA InterruptEntry ==
  ASSUME TypeOK, NEW w \in Workers, NEW j \in Jobs,
         NEW escape \in {"finish", "rerun"}, Interrupt(w, j, escape)
  PROVE  \A v \in Workers, k \in Jobs : pc'[v][k] = "spider" => pc[v][k] = "spider"
<1>1. PICK to \in {"commit", "finish", "rerun"} : pc' = [pc EXCEPT ![w][j] = to]
  BY InterruptMoves
<1>2. QED
  BY <1>1 DEF TypeOK

\* The one way into spider.run is the commit of RUNNING.
LEMMA EntryStep ==
  ASSUME TypeOK, [Next]_vars
  PROVE  \A v \in Workers, k \in Jobs :
             pc[v][k] # "spider" /\ pc'[v][k] = "spider" => pc[v][k] = "start"
<1> DEFINE SpiderEntry == \A v \in Workers, k \in Jobs :
       pc[v][k] # "spider" /\ pc'[v][k] = "spider" => pc[v][k] = "start"
<1> SUFFICES SpiderEntry
  OBVIOUS
<1> USE DEF TypeOK
<1>1. ASSUME NEW j \in Jobs, StartCount(j)
      PROVE  SpiderEntry
  BY <1>1 DEF taskVars, StartCount
<1>2. ASSUME NEW j \in Jobs, StartInsert(j)
      PROVE  SpiderEntry
  BY <1>2 DEF taskVars, StartInsert
<1>3. ASSUME NEW j \in Jobs, StartEnqueue(j)
      PROVE  SpiderEntry
  BY <1>3 DEF taskVars, StartEnqueue
<1>4. ASSUME NEW j \in Jobs, StartLost(j)
      PROVE  SpiderEntry
  BY <1>4 DEF taskVars, StartLost
<1>5. ASSUME NEW j \in Jobs, StopRead(j)
      PROVE  SpiderEntry
  BY <1>5 DEF taskVars, StopRead
<1>6. ASSUME NEW j \in Jobs, StopCommit(j)
      PROVE  SpiderEntry
  BY <1>6 DEF taskVars, StopCommit
<1>7. ASSUME NEW j \in Jobs, StopPublish(j)
      PROVE  SpiderEntry
  BY <1>7 DEF taskVars, StopPublish
<1>8. ASSUME NEW j \in Jobs, StopAbort(j)
      PROVE  SpiderEntry
  BY <1>8 DEF taskVars, StopAbort
<1>9. ASSUME NEW j \in Jobs, StopReturn(j)
      PROVE  SpiderEntry
  BY <1>9 DEF taskVars, StopReturn
<1>10. ASSUME NEW j \in Jobs, WsStop(j)
      PROVE  SpiderEntry
  BY <1>10 DEF taskVars, WsStop
<1>11. ASSUME NEW j \in Jobs, CommandIgnored(j)
      PROVE  SpiderEntry
  BY <1>11 DEF taskVars, CommandIgnored
<1>12. ASSUME NEW j \in Jobs, InProgressExpires(j)
      PROVE  SpiderEntry
  BY <1>12 DEF taskVars, InProgressExpires
<1>13. ASSUME NEW j \in Jobs, ResultExpires(j)
      PROVE  SpiderEntry
  BY <1>13 DEF taskVars, ResultExpires
<1>14. ASSUME NEW a \in ApiProcs, BootPurge(a)
      PROVE  SpiderEntry
  BY <1>14 DEF taskVars, BootPurge
<1>15. ASSUME NEW a \in ApiProcs, BootSelect(a)
      PROVE  SpiderEntry
  BY <1>15 DEF taskVars, BootSelect
<1>16. ASSUME NEW a \in ApiProcs, BootCommit(a)
      PROVE  SpiderEntry
  BY <1>16 DEF taskVars, BootCommit
<1>17. ASSUME NEW a \in ApiProcs, NEW j \in Jobs, BootEnqueue(a, j)
      PROVE  SpiderEntry
  BY <1>17 DEF taskVars, BootEnqueue
<1>18. ASSUME NEW late \in SUBSET Jobs, HungSelect(late)
      PROVE  SpiderEntry
  BY <1>18 DEF taskVars, HungSelect
<1>19. ASSUME HungCommit
      PROVE  SpiderEntry
  BY <1>19 DEF taskVars, HungCommit
<1>20. ASSUME NEW w \in Workers, NEW j \in Jobs, Pick(w, j)
      PROVE  SpiderEntry
  BY <1>20 DEF taskVars, Pick, SetPc
<1>21. ASSUME NEW w \in Workers, NEW j \in Jobs, RunJob(w, j)
      PROVE  SpiderEntry
  BY <1>21 DEF taskVars, RunJob, SetPc
<1>22. ASSUME NEW w \in Workers, NEW j \in Jobs, FinishFailed(w, j)
      PROVE  SpiderEntry
  BY <1>22 DEF taskVars, FinishFailed, SetPc
<1>23. ASSUME NEW w \in Workers, NEW j \in Jobs, FinishJob(w, j)
      PROVE  SpiderEntry
  BY <1>23 DEF taskVars, FinishJob, SetPc
<1>24. ASSUME NEW w \in Workers, NEW j \in Jobs, FinishRerun(w, j)
      PROVE  SpiderEntry
  BY <1>24 DEF taskVars, FinishRerun, SetPc
<1>25. ASSUME NEW w \in Workers, NEW j \in Jobs, SelectJob(w, j)
      PROVE  SpiderEntry
  BY <1>25 DEF taskVars, SelectJob, SetPc
<1>26. ASSUME NEW w \in Workers, NEW j \in Jobs, PrologueFails(w, j)
      PROVE  SpiderEntry
  BY <1>26 DEF taskVars, PrologueFails, SetPc
<1>27. ASSUME NEW w \in Workers, NEW j \in Jobs, MarkRunning(w, j)
      PROVE  SpiderEntry
  BY <1>27 DEF taskVars, MarkRunning, SetPc
<1>28. ASSUME NEW w \in Workers, NEW j \in Jobs, PushEmail(w, j)
      PROVE  SpiderEntry
  BY <1>28 DEF taskVars, PushEmail
<1>29. ASSUME NEW w \in Workers, NEW j \in Jobs, SpiderEnds(w, j)
      PROVE  SpiderEntry
  BY <1>29 DEF taskVars, SpiderEnds, SetPc
<1>30. ASSUME NEW w \in Workers, NEW j \in Jobs, FinalCommit(w, j)
      PROVE  SpiderEntry
  BY <1>30 DEF taskVars, FinalCommit, SetPc
<1>31. ASSUME NEW w \in Workers, NEW j \in Jobs, FinallyFails(w, j)
      PROVE  SpiderEntry
  BY <1>31 DEF taskVars, FinallyFails, SetPc
<1>32. ASSUME NEW w \in Workers, NEW j \in Jobs, Charge(w, j)
      PROVE  SpiderEntry
  BY <1>32 DEF taskVars, Charge, SetPc
<1>33. ASSUME NEW w \in Workers, NEW j \in Jobs, Announce(w, j)
      PROVE  SpiderEntry
  BY <1>33 DEF taskVars, Announce, SetPc
<1>34. ASSUME NEW w \in Workers, NEW j \in Jobs, CommandCancels(w, j)
      PROVE  SpiderEntry
  BY <1>34, InterruptEntry DEF CommandCancels
<1>35. ASSUME NEW w \in Workers, NEW j \in Jobs, CancelAborted(w, j)
      PROVE  SpiderEntry
  BY <1>35, InterruptEntry DEF CancelAborted
<1>36. ASSUME NEW w \in Workers, NEW j \in Jobs, JobTimeout(w, j)
      PROVE  SpiderEntry
  BY <1>36, InterruptEntry DEF JobTimeout
<1>37. ASSUME NEW w \in Workers, NEW j \in Jobs, SignalCancels(w, j)
      PROVE  SpiderEntry
  BY <1>37, InterruptEntry DEF SignalCancels
<1>38. ASSUME NEW w \in Workers, WorkerCrash(w)
      PROVE  SpiderEntry
  BY <1>38 DEF taskVars, WorkerCrash
<1>39. CASE UNCHANGED vars
  BY <1>39 DEF taskVars, vars
<1>40. QED
  BY <1>1, <1>2, <1>3, <1>4, <1>5, <1>6, <1>7, <1>8, <1>9, <1>10, <1>11, <1>12, <1>13,
     <1>14, <1>15, <1>16, <1>17, <1>18, <1>19, <1>20, <1>21, <1>22, <1>23, <1>24, <1>25,
     <1>26, <1>27, <1>28, <1>29, <1>30, <1>31, <1>32, <1>33, <1>34, <1>35, <1>36, <1>37,
     <1>38, <1>39
  DEF Next, StartStep, StopStep, BootStep, WorkerStep

-----------------------------------------------------------------------------
(* The theorems *)

\* Every variable keeps the type the code gives it, in every interleaving of
\* requests, start-ups, workers, cancellations and crashes.
THEOREM TypeCorrect == Spec => []TypeOK
<1>1. Init => TypeOK
  BY DEF Init, TypeOK, RunJobPc, Events
<1>2. QED
  BY <1>1, TypeStep, PTL DEF Spec

\* The inductive strengthening of OneExecution is an invariant.
LEMMA ExecInvariant == Spec => []ExecInv
<1>1. Init => ExecInv
  <2>1. Init => TypeOK
    BY DEF Init, TypeOK, RunJobPc, Events
  <2>2. Init => HoldsKey /\ OneExecution
    BY DEF Init, HoldsKey, OneExecution
  <2>3. QED
    BY <2>1, <2>2 DEF ExecInv
<1>2. ExecInv /\ [Next]_vars => ExecInv'
  BY TypeStep, ExecStep DEF ExecInv
<1>3. QED
  BY <1>1, <1>2, PTL DEF Spec

\* No job is ever executed by two arq workers at once: the in-progress key that
\* start_jobs takes under WATCH outlives the run_job that took it.
THEOREM OneExecutionAlways == Spec => []OneExecution
BY ExecInvariant, PTL DEF ExecInv

\* With one try per job, the account of tries and charges is an invariant.
LEMMA ChargeInvariant ==
  ASSUME MaxTries = 1
  PROVE  Spec => []ChargeInv
<1>1. Init => ChargeInv
  BY DEF Init, ChargeInv, TryCounted, Uncharged, ChargedNotRunning, ChargedIsTried,
         RequeueIsRefused, UntouchedBeforeEnqueue, ChargedAtMostOnce
<1>2. ExecInv /\ ChargeInv /\ [Next]_vars => ChargeInv'
  BY ChargeStep
<1>3. QED
  BY <1>1, <1>2, ExecInvariant, PTL DEF Spec

\* With max_tries = 1, as WorkerSettings has it, the credits of a job are
\* deducted at most once, whatever restarts and cancellations do to it.
THEOREM ChargedAtMostOnceAlways ==
  ASSUME MaxTries = 1
  PROVE  Spec => []ChargedAtMostOnce
BY ChargeInvariant, PTL DEF ChargeInv

\* With max_tries = 1, a job that was charged never enters spider.run again.
THEOREM NoRunAfterChargeAlways ==
  ASSUME MaxTries = 1
  PROVE  Spec => NoRunAfterCharge
<1> DEFINE NoRun == \A j \in Jobs, w \in Workers :
       charges[j] > 0 => ~(pc[w][j] # "spider" /\ pc'[w][j] = "spider")
<1>1. ExecInv /\ ChargeInv /\ [Next]_vars => [NoRun]_vars
  <2> SUFFICES ASSUME ExecInv, ChargeInv, [Next]_vars,
                      NEW j \in Jobs, NEW w \in Workers,
                      pc[w][j] # "spider", pc'[w][j] = "spider"
               PROVE  ~(charges[j] > 0)
    OBVIOUS
  <2>1. pc[w][j] = "start"
    BY EntryStep DEF ExecInv
  <2>2. charges[j] = 0
    BY <2>1 DEF ChargeInv, Uncharged
  <2>3. QED
    BY <2>2
<1>2. QED
  BY <1>1, ExecInvariant, ChargeInvariant, PTL DEF Spec, NoRunAfterCharge

-----------------------------------------------------------------------------
(* A stop that was answered *)

\* While no API process restarts, only the start request of a job enqueues it.
NeverBooted == used["boot"] = 0 /\ \A a \in ApiProcs : bootPc[a] = "up"

\* A job is in the queue exactly as long as somebody may have to do with it.
QueueOK ==
    \A j \in Jobs :
        /\ \A w \in Workers : pc[w][j] # "idle" => j \in queue
        /\ j \in resultKey => j \notin queue
        /\ startPc[j] # "answered" => j \notin queue

\* A stop that overtakes the start request leaves its mark for the run to come.
AbortAwaitsStart ==
    \A j \in Jobs : startPc[j] # "answered" /\ stopPc[j] \in {"wait", "answered"}
                        => j \in abortSet

\* A run that may still come meets the abort, or the try of one that has met it.
RunIsRefused ==
    \A j \in Jobs : stopPc[j] = "answered" =>
        /\ \A w \in Workers : pc[w][j] \in {"idle", "picked", "fail"}
        /\ j \in queue => j \in abortSet \/ tries[j] >= 1

HaltInv == NeverBooted /\ QueueOK /\ AbortAwaitsStart /\ RunIsRefused

\* A cancel keeps HaltInv: what it leaves of the run is refused or at its end.
LEMMA HaltInterrupt ==
  ASSUME ExecInv, HaltInv, NEW w \in Workers, NEW j \in Jobs, NEW escape,
         Interrupt(w, j, escape), abortSet' \in {abortSet, abortSet \ {j}},
         UNCHANGED <<queue, resultKey, startPc, stopPc, bootPc, tries>>,
         used'["boot"] = used["boot"]
  PROVE  HaltInv'
<1> USE DEF HaltInv
<1>1. PICK to : pc' = [pc EXCEPT ![w][j] = to]
  BY InterruptMoves
<1>2. pc[w][j] \in Coroutine
  BY InterruptMoves
<1>3. stopPc[j] # "answered" /\ startPc[j] = "answered" /\ j \in queue
  BY <1>2 DEF RunIsRefused, QueueOK, Coroutine
<1>4. \A v \in Workers, k \in Jobs : k # j => pc'[v][k] = pc[v][k]
  BY <1>1 DEF ExecInv, TypeOK
<1>5. QueueOK'
  BY <1>3, <1>4 DEF QueueOK
<1>6. AbortAwaitsStart' /\ RunIsRefused'
  BY <1>3, <1>4 DEF AbortAwaitsStart, RunIsRefused
<1> QED
  BY <1>5, <1>6 DEF NeverBooted

\* The run of a job is over: it is nobody's any more.
LEMMA HaltForget ==
  ASSUME ExecInv, HaltInv, NEW w \in Workers, NEW j \in Jobs,
         pc[w][j] # "idle", Forget(j), SetPc(w, j, "idle"),
         UNCHANGED <<startPc, stopPc, bootPc, used>>
  PROVE  HaltInv'
<1> USE DEF HaltInv
<1>1. startPc[j] = "answered"
  BY DEF QueueOK
<1>2. \A v \in Workers : pc'[v][j] = "idle"
  BY DEF SetPc, ExecInv, TypeOK, OneExecution
<1>3. /\ \A v \in Workers, k \in Jobs : k # j => pc'[v][k] = pc[v][k]
      /\ \A k \in Jobs : k # j => tries'[k] = tries[k]
  BY DEF SetPc, Forget, ExecInv, TypeOK
<1>4. QueueOK' /\ AbortAwaitsStart' /\ RunIsRefused'
  BY <1>1, <1>2, <1>3 DEF Forget, QueueOK, AbortAwaitsStart, RunIsRefused
<1> QED
  BY <1>4 DEF NeverBooted

\* A count of events never goes down.
LEMMA SpentStays ==
  ASSUME TypeOK, [Next]_vars, NEW k \in Events
  PROVE  used[k] \in Nat /\ used'[k] \in Nat /\ used[k] <= used'[k]
<1>1. \/ used' = used
      \/ \E e \in Events : Spend(e)
  <2>1. ASSUME NEW j \in Jobs, StartLost(j) \/ StopRead(j) \/ WsStop(j)
        PROVE  \E e \in Events : Spend(e)
    BY <2>1 DEF StartLost, StopRead, WsStop, Events
  <2>2. ASSUME NEW a \in ApiProcs, BootPurge(a) PROVE \E e \in Events : Spend(e)
    BY <2>2 DEF BootPurge, Events
  <2>3. ASSUME NEW w \in Workers, NEW j \in Jobs,
               PrologueFails(w, j) \/ FinallyFails(w, j) \/ JobTimeout(w, j)
                 \/ SignalCancels(w, j)
        PROVE  \E e \in Events : Spend(e)
    BY <2>3 DEF PrologueFails, FinallyFails, JobTimeout, SignalCancels, Events
  <2>4. ASSUME NEW w \in Workers, NEW j \in Jobs, PushEmail(w, j) \/ Charge(w, j)
        PROVE  used' = used \/ \E e \in Events : Spend(e)
    BY <2>4 DEF PushEmail, Charge, Events
  <2>5. ASSUME NEW w \in Workers, WorkerCrash(w) PROVE \E e \in Events : Spend(e)
    BY <2>5 DEF WorkerCrash, Events
  <2>6. ASSUME NEW j \in Jobs,
               \/ StartCount(j) \/ StartInsert(j) \/ StartEnqueue(j) \/ StopStep(j)
               \/ CommandIgnored(j) \/ InProgressExpires(j) \/ ResultExpires(j)
        PROVE  used' = used
    BY <2>6 DEF StartCount, StartInsert, StartEnqueue, StopStep, StopCommit, StopPublish,
       StopAbort, StopReturn, CommandIgnored, InProgressExpires, ResultExpires
  <2>7. ASSUME NEW a \in ApiProcs, BootStep(a) PROVE used' = used
    BY <2>7 DEF BootStep, BootSelect, BootCommit, BootEnqueue
  <2>8. ASSUME NEW late \in SUBSET Jobs, HungSelect(late) \/ HungCommit PROVE used' = used
    BY <2>8 DEF HungSelect, HungCommit
  <2>9. ASSUME NEW w \in Workers, NEW j \in Jobs,
               Pick(w, j) \/ WorkerStep(w, j) \/ CommandCancels(w, j) \/ CancelAborted(w, j),
               ~Charge(w, j)
        PROVE  used' = used
    BY <2>9 DEF Pick, WorkerStep, RunJob, FinishFailed, FinishJob, FinishRerun, SelectJob,
       MarkRunning, SpiderEnds, FinalCommit, Announce, CommandCancels, CancelAborted
  <2>10. CASE UNCHANGED vars
    BY <2>10 DEF vars
  <2> QED
    BY <2>1, <2>2, <2>3, <2>4, <2>5, <2>6, <2>7, <2>8, <2>9, <2>10 DEF Next, StartStep, WorkerStep
<1>2. CASE \E e \in Events : Spend(e)
  <2>1. PICK e \in Events : used' = [used EXCEPT ![e] = @ + 1]
    BY <1>2 DEF Spend
  <2>2. used[e] \in Nat /\ used[k] \in Nat
    BY DEF TypeOK
  <2>3. used'[k] = IF k = e THEN used[k] + 1 ELSE used[k]
    BY <2>1 DEF TypeOK
  <2> QED
    BY <2>2, <2>3
<1>3. CASE used' = used
  BY <1>3 DEF TypeOK
<1> QED
  BY <1>1, <1>2, <1>3

\* Every step keeps HaltInv.
LEMMA HaltStep ==
  ASSUME MaxTries = 1, ExecInv, HaltInv, [Next]_vars, used'["boot"] = 0
  PROVE  HaltInv'
<1> USE DEF HaltInv, NeverBooted, QueueOK, AbortAwaitsStart, RunIsRefused
<1>0. TypeOK /\ \A k \in Events \ {"boot"} : Spend(k) => used'["boot"] = used["boot"]
  BY DEF ExecInv, Spend, TypeOK, Events
<1>1. ASSUME NEW j \in Jobs, StartCount(j) \/ StartInsert(j) PROVE HaltInv'
  BY <1>0, <1>1 DEF StartCount, StartInsert, TypeOK, redisVars, taskVars
<1>2. ASSUME NEW j \in Jobs, StartEnqueue(j) PROVE HaltInv'
  <2>1. /\ startPc[j] = "enqueue" /\ startPc' = [startPc EXCEPT ![j] = "answered"]
        /\ queue' = queue \/ (j \notin resultKey /\ queue' = queue \union {j})
        /\ UNCHANGED <<used, bootPc, stopPc, pc, resultKey, abortSet, tries>>
    BY <1>2 DEF StartEnqueue, EnqueueJob, taskVars
  <2> QED
    BY <1>0, <2>1 DEF TypeOK
<1>3. ASSUME NEW j \in Jobs, StartLost(j) PROVE HaltInv'
  BY <1>0, <1>3 DEF StartLost, TypeOK, redisVars, taskVars, Events
<1>4. ASSUME NEW j \in Jobs, StopRead(j) PROVE HaltInv'
  BY <1>0, <1>4 DEF StopRead, TypeOK, redisVars, taskVars, Events
<1>5. ASSUME NEW j \in Jobs, StopCommit(j) \/ StopPublish(j) PROVE HaltInv'
  BY <1>0, <1>5 DEF StopCommit, StopPublish, TypeOK, redisVars, taskVars
<1>6. ASSUME NEW j \in Jobs, StopAbort(j) PROVE HaltInv'
  BY <1>0, <1>6 DEF StopAbort, TypeOK, taskVars
<1>7. ASSUME NEW j \in Jobs, StopReturn(j) PROVE HaltInv'
  <2>1. /\ stopPc[j] = "wait" /\ stopPc' = [stopPc EXCEPT ![j] = "answered"]
        /\ j \notin queue
        /\ UNCHANGED <<used, bootPc, startPc, pc, queue, resultKey, abortSet, tries>>
    BY <1>7 DEF StopReturn, redisVars, taskVars
  <2>2. \A w \in Workers : pc[w][j] = "idle"
    BY <2>1
  <2> QED
    BY <1>0, <2>1, <2>2 DEF TypeOK
<1>8. ASSUME NEW j \in Jobs, WsStop(j) PROVE HaltInv'
  BY <1>0, <1>8 DEF WsStop, apiVars, taskVars, Events
<1>9. ASSUME NEW a \in ApiProcs, BootPurge(a) \/ BootStep(a) PROVE HaltInv'
  <2>1. ~BootPurge(a)
    BY <1>0 DEF BootPurge, Spend, TypeOK, Events
  <2>2. ~BootStep(a)
    BY DEF BootStep, BootSelect, BootEnqueue, BootCommit
  <2> QED
    BY <1>9, <2>1, <2>2
<1>10. ASSUME NEW late \in SUBSET Jobs, HungSelect(late) \/ HungCommit PROVE HaltInv'
  BY <1>10 DEF HungSelect, HungCommit, redisVars, taskVars
<1>11. ASSUME NEW w \in Workers, NEW j \in Jobs, Pick(w, j) PROVE HaltInv'
  <2>1. /\ j \in queue /\ pc[w][j] = "idle" /\ pc' = [pc EXCEPT ![w][j] = "picked"]
        /\ UNCHANGED <<used, bootPc, startPc, stopPc, queue, resultKey, abortSet, tries>>
    BY <1>11 DEF Pick, SetPc, apiVars
  <2> QED
    BY <1>0, <2>1 DEF TypeOK
<1>12. ASSUME NEW w \in Workers, NEW j \in Jobs, RunJob(w, j) PROVE HaltInv'
  <2>1. /\ pc[w][j] = "picked" /\ tries' = [tries EXCEPT ![j] = @ + 1]
        /\ abortSet' = abortSet \ {j}
        /\ pc' = [pc EXCEPT ![w][j] =
                    IF j \notin jobKey \/ j \in abortSet \/ tries[j] + 1 > MaxTries
                    THEN "fail" ELSE "select"]
        /\ UNCHANGED <<used, bootPc, startPc, stopPc, queue, resultKey>>
    BY <1>12 DEF RunJob, SetPc, apiVars
  <2>2. j \in queue /\ startPc[j] = "answered" /\ tries[j] \in Nat
    BY <1>0, <2>1 DEF TypeOK
  <2>3. QueueOK' /\ AbortAwaitsStart'
    BY <1>0, <2>1, <2>2 DEF TypeOK
  <2>4. stopPc[j] = "answered" => pc'[w][j] = "fail"
    BY <1>0, <2>1, <2>2 DEF TypeOK
  <2>5. RunIsRefused'
    <3> SUFFICES ASSUME NEW k \in Jobs, stopPc[k] = "answered"
                 PROVE  /\ \A v \in Workers : pc'[v][k] \in {"idle", "picked", "fail"}
                        /\ k \in queue => k \in abortSet' \/ tries'[k] >= 1
      BY <2>1
    <3>1. CASE k = j
      BY <1>0, <2>1, <2>2, <2>4, <3>1 DEF TypeOK
    <3>2. CASE k # j
      BY <1>0, <2>1, <3>2 DEF TypeOK
    <3> QED
      BY <3>1, <3>2
  <2> QED
    BY <2>1, <2>3, <2>5
<1>13. ASSUME NEW w \in Workers, NEW j \in Jobs, FinishFailed(w, j) \/ FinishJob(w, j)
       PROVE  HaltInv'
  BY <1>13, HaltForget DEF FinishFailed, FinishJob, apiVars
<1>14. ASSUME NEW w \in Workers, NEW j \in Jobs, FinishRerun(w, j) PROVE HaltInv'
  <2>1. /\ pc[w][j] = "rerun" /\ pc' = [pc EXCEPT ![w][j] = "idle"]
        /\ UNCHANGED <<used, bootPc, startPc, stopPc, queue, resultKey, abortSet, tries>>
    BY <1>14 DEF FinishRerun, SetPc, apiVars
  <2> QED
    BY <1>0, <2>1 DEF TypeOK
\* The coroutine goes on: a stop that was answered excludes it.
<1>a. ASSUME NEW w \in Workers, NEW j \in Jobs, NEW to,
             pc[w][j] \in Coroutine, pc' = [pc EXCEPT ![w][j] = to],
             UNCHANGED <<startPc, stopPc, bootPc, queue, resultKey, abortSet, tries>>,
             used'["boot"] = used["boot"]
      PROVE  HaltInv'
  <2>1. stopPc[j] # "answered" /\ j \in queue
    BY <1>a DEF Coroutine
  <2>2. \A v \in Workers, k \in Jobs : k # j => pc'[v][k] = pc[v][k]
    BY <1>0, <1>a DEF TypeOK
  <2> QED
    BY <1>a, <2>1, <2>2
<1>15. ASSUME NEW w \in Workers, NEW j \in Jobs,
              SelectJob(w, j) \/ MarkRunning(w, j) \/ SpiderEnds(w, j)
                \/ FinalCommit(w, j) \/ Announce(w, j)
       PROVE  HaltInv'
  <2>1. CASE SelectJob(w, j) \/ MarkRunning(w, j) \/ Announce(w, j)
    <3>1. /\ pc[w][j] \in Coroutine
          /\ \E to : pc' = [pc EXCEPT ![w][j] = to]
      BY <2>1 DEF SelectJob, MarkRunning, Announce, SetPc, Coroutine
    <3>2. UNCHANGED <<startPc, stopPc, bootPc, queue, resultKey, abortSet, tries, used>>
      BY <2>1 DEF SelectJob, MarkRunning, Announce, redisVars, apiVars
    <3> QED
      BY <1>a, <3>1, <3>2
  <2>2. CASE SpiderEnds(w, j)
    <3>1. /\ pc[w][j] = "spider" /\ pc' = [pc EXCEPT ![w][j] = "commit"]
          /\ UNCHANGED <<startPc, stopPc, bootPc, queue, resultKey, abortSet, tries, used>>
      BY <2>2 DEF SpiderEnds, SetPc, redisVars, apiVars
    <3> QED
      BY <1>a, <3>1 DEF Coroutine
  <2>3. CASE FinalCommit(w, j)
    BY <2>3, <1>a, SMTT(20) DEF FinalCommit, SetPc, Coroutine, redisVars, apiVars
  <2> QED
    BY <1>15, <2>1, <2>2, <2>3
<1>16. ASSUME NEW w \in Workers, NEW j \in Jobs,
              PrologueFails(w, j) \/ FinallyFails(w, j) \/ Charge(w, j)
       PROVE  HaltInv'
  <2>1. /\ pc[w][j] \in Coroutine
        /\ \E to : pc' = [pc EXCEPT ![w][j] = to]
        /\ UNCHANGED <<startPc, stopPc, bootPc, queue, resultKey, abortSet, tries>>
    BY <1>16 DEF PrologueFails, FinallyFails, Charge, SetPc, Coroutine, redisVars, apiVars
  <2>2. used'["boot"] = used["boot"]
    BY <1>0, <1>16 DEF PrologueFails, FinallyFails, Charge, Spend, TypeOK, Events
  <2> QED
    BY <1>a, <2>1, <2>2
<1>17. ASSUME NEW w \in Workers, NEW j \in Jobs, PushEmail(w, j) PROVE HaltInv'
  BY <1>0, <1>17 DEF PushEmail, redisVars, apiVars, Events
<1>18. ASSUME NEW w \in Workers, NEW j \in Jobs, CommandCancels(w, j) PROVE HaltInv'
  BY <1>18, HaltInterrupt DEF CommandCancels, apiVars
<1>19. ASSUME NEW w \in Workers, NEW j \in Jobs, CancelAborted(w, j) PROVE HaltInv'
  BY <1>19, HaltInterrupt DEF CancelAborted, apiVars
<1>20. ASSUME NEW w \in Workers, NEW j \in Jobs, JobTimeout(w, j) \/ SignalCancels(w, j)
       PROVE  HaltInv'
  BY <1>0, <1>20, HaltInterrupt DEF JobTimeout, SignalCancels, redisVars, apiVars, Events
<1>21. ASSUME NEW w \in Workers, WorkerCrash(w) PROVE HaltInv'
  <2>1. /\ pc' = [pc EXCEPT ![w] = [j \in Jobs |-> "idle"]]
        /\ UNCHANGED <<bootPc, startPc, stopPc, queue, resultKey, abortSet, tries>>
        /\ used'["boot"] = used["boot"]
    BY <1>0, <1>21 DEF WorkerCrash, redisVars, apiVars, Events
  <2> QED
    BY <1>0, <2>1 DEF TypeOK
<1>22. ASSUME NEW j \in Jobs, CommandIgnored(j) \/ InProgressExpires(j) \/ ResultExpires(j)
       PROVE  HaltInv'
  BY <1>22 DEF CommandIgnored, InProgressExpires, ResultExpires, apiVars, taskVars
<1>23. CASE UNCHANGED vars
  BY <1>23 DEF vars, redisVars, apiVars, taskVars
<1> QED
  BY <1>1, <1>2, <1>3, <1>4, <1>5, <1>6, <1>7, <1>8, <1>9, <1>10, <1>11, <1>12, <1>13,
     <1>14, <1>15, <1>16, <1>17, <1>18, <1>19, <1>20, <1>21, <1>22, <1>23
  DEF Next, StartStep, StopStep, WorkerStep

\* With max_tries = 1, a job whose DELETE request was answered is nowhere run, and will not
\* be before an API process restarts: whichever way the request and the cancellations,
\* crashes, time-outs and signals of its run fall.
THEOREM StopAnsweredIsHaltedAlways ==
  ASSUME MaxTries = 1
  PROVE  Spec => []StopAnsweredIsHalted
<1> DEFINE Halt == used["boot"] = 0 => HaltInv
<1>1. Init => Halt
  BY DEF Init, HaltInv, NeverBooted, QueueOK, AbortAwaitsStart, RunIsRefused, Events
<1>2. ExecInv /\ Halt /\ [Next]_vars => Halt'
  <2> SUFFICES ASSUME ExecInv, Halt, [Next]_vars, used'["boot"] = 0
               PROVE  HaltInv'
    OBVIOUS
  <2>1. used["boot"] \in Nat /\ used["boot"] <= 0
    BY SpentStays DEF ExecInv, Events
  <2>2. HaltInv
    BY <2>1
  <2> QED
    BY <2>2, HaltStep
<1>3. Halt => StopAnsweredIsHalted
  BY DEF HaltInv, RunIsRefused, StopAnsweredIsHalted, Coroutine
<1> HIDE DEF Halt
<1>4. QED
  BY <1>1, <1>2, <1>3, ExecInvariant, PTL DEF Spec

-----------------------------------------------------------------------------
(* The refinement of Execution *)

\* Only a run that has not returned yet may have found something, and nothing is
\* deducted for a run that has not.
FoundOK ==
    \A w \in Workers, j \in Jobs :
        /\ found[w][j] => pc[w][j] \in InRun \union {"finish", "rerun"}
        /\ pc[w][j] = "charge" => found[w][j]

\* The variables of Execution, as JobLifecycle substitutes them.
Runners  == [j \in Jobs |-> {w \in Workers : pc[w][j] \in InRun}]
Fruitful == {j \in Jobs : \E w \in Workers : pc[w][j] \in InRun /\ found[w][j]}

ExecutionKept ==
    FoundOK' /\ (Promise!Next \/ UNCHANGED <<Runners, Fruitful, charges>>)

\* What no coroutine sees is a stutter.
LEMMA UnseenStep ==
  ASSUME FoundOK, UNCHANGED <<pc, found, charges>>
  PROVE  ExecutionKept
BY DEF ExecutionKept, FoundOK, Runners, Fruitful

\* So is a move outside of the run.
LEMMA OutsideStep ==
  ASSUME TypeOK, FoundOK, NEW w \in Workers, NEW j \in Jobs,
         NEW to \in RunJobPc \ InRun,
         pc[w][j] \notin InRun, pc' = [pc EXCEPT ![w][j] = to],
         found' \in {found, [found EXCEPT ![w][j] = FALSE]},
         found'[w][j] => to \in {"finish", "rerun"}, charges' = charges
  PROVE  ExecutionKept
<1>1. /\ pc'[w][j] = to
      /\ \A v \in Workers, k \in Jobs :
            ~(v = w /\ k = j) => pc'[v][k] = pc[v][k] /\ found'[v][k] = found[v][k]
  BY DEF TypeOK
<1>2. FoundOK'
  BY <1>1, SMTT(20) DEF FoundOK, InRun
<1>3. \A v \in Workers, k \in Jobs :
         /\ pc'[v][k] \in InRun <=> pc[v][k] \in InRun
         /\ pc[v][k] \in InRun => found'[v][k] = found[v][k]
  BY <1>1
<1>4. UNCHANGED <<Runners, Fruitful, charges>>
  BY <1>3 DEF Runners, Fruitful
<1> QED
  BY <1>2, <1>4 DEF ExecutionKept

\* So is a move inside of the run.
LEMMA InsideStep ==
  ASSUME TypeOK, FoundOK, NEW w \in Workers, NEW j \in Jobs, NEW to \in InRun,
         pc[w][j] \in InRun, pc' = [pc EXCEPT ![w][j] = to],
         to = "charge" => found[w][j], found' = found, charges' = charges
  PROVE  ExecutionKept
<1>1. /\ pc'[w][j] = to
      /\ \A v \in Workers, k \in Jobs : ~(v = w /\ k = j) => pc'[v][k] = pc[v][k]
  BY DEF TypeOK
<1>2. FoundOK'
  BY <1>1 DEF FoundOK
<1>3. \A v \in Workers, k \in Jobs : pc'[v][k] \in InRun <=> pc[v][k] \in InRun
  BY <1>1
<1>4. UNCHANGED <<Runners, Fruitful, charges>>
  BY <1>3 DEF Runners, Fruitful
<1> QED
  BY <1>2, <1>4 DEF ExecutionKept

\* A run that ends leaves its job without a runner.
LEMMA LeaveEnds ==
  ASSUME TypeOK, FoundOK, OneExecution, NEW w \in Workers, NEW j \in Jobs,
         NEW to \in {"finish", "rerun"},
         pc[w][j] \in InRun, pc' = [pc EXCEPT ![w][j] = to], found' = found
  PROVE  FoundOK' /\ Promise!End({j})
<1>1. /\ pc'[w][j] = to /\ to \notin InRun
      /\ \A v \in Workers, k \in Jobs : ~(v = w /\ k = j) => pc'[v][k] = pc[v][k]
  BY DEF TypeOK, InRun
<1>2. FoundOK'
  BY <1>1 DEF FoundOK
<1>3. \A v \in Workers : pc'[v][j] \notin InRun
  BY <1>1 DEF OneExecution, InRun
<1>4. \A v \in Workers, k \in Jobs : k # j => pc'[v][k] = pc[v][k]
  BY <1>1
<1>5. Promise!End({j})
  BY <1>3, <1>4 DEF Promise!End
<1> QED
  BY <1>2, <1>5

LEMMA LeaveStep ==
  ASSUME TypeOK, FoundOK, OneExecution, NEW w \in Workers, NEW j \in Jobs,
         NEW to \in {"finish", "rerun"},
         pc[w][j] \in InRun, pc' = [pc EXCEPT ![w][j] = to], found' = found,
         charges' = charges
  PROVE  ExecutionKept
<1>1. FoundOK' /\ Promise!Stop({j})
  BY LeaveEnds DEF Promise!Stop
<1> QED
  BY <1>1 DEF ExecutionKept, Promise!Next

\* The commit of RUNNING begins a run that nobody has and nobody paid for.
LEMMA BeginStep ==
  ASSUME ExecInv, Uncharged, FoundOK, NEW w \in Workers, NEW j \in Jobs, MarkRunning(w, j)
  PROVE  ExecutionKept
<1> USE DEF ExecInv, TypeOK
<1>1. /\ pc[w][j] = "start" /\ pc' = [pc EXCEPT ![w][j] = "spider"]
      /\ UNCHANGED <<found, charges>>
  BY DEF MarkRunning, SetPc
<1>2. \A v \in Workers, k \in Jobs : ~(v = w /\ k = j) => pc'[v][k] = pc[v][k]
  BY <1>1
<1>3. pc'[w][j] = "spider"
  BY <1>1
<1>4. \A v \in Workers : v # w => pc[v][j] \notin InRun
  BY <1>1 DEF OneExecution, InRun
<1>5. FoundOK'
  BY <1>1, <1>2, <1>3, SMTT(20) DEF FoundOK, InRun
<1>6. Runners[j] = {}
  BY <1>1, <1>4 DEF Runners, InRun
<1>7. Runners' = [Runners EXCEPT ![j] = {w}]
  <2>1. {v \in Workers : pc'[v][j] \in InRun} = {w}
    BY <1>2, <1>3, <1>4 DEF InRun
  <2>2. ASSUME NEW k \in Jobs, k # j
        PROVE  {v \in Workers : pc'[v][k] \in InRun} = {v \in Workers : pc[v][k] \in InRun}
    BY <1>2, <2>2
  <2> QED
    BY <2>1, <2>2 DEF Runners
<1>8. UNCHANGED Fruitful
  <2>1. ~found[w][j]
    BY <1>1 DEF FoundOK, InRun
  <2>2. \A v \in Workers, k \in Jobs : found[v][k] =>
           (pc'[v][k] \in InRun <=> pc[v][k] \in InRun)
    BY <1>2, <2>1
  <2> QED
    BY <1>1, <2>2 DEF Fruitful
<1>9. charges[j] = 0
  BY <1>1 DEF Uncharged
<1>10. Promise!Begin(w, j)
  BY <1>1, <1>6, <1>7, <1>8, <1>9 DEF Promise!Begin, Runners, Fruitful
<1> QED
  BY <1>5, <1>10 DEF ExecutionKept, Promise!Next

\* An e-mail is found by a run that is not charged.
LEMMA FindStep ==
  ASSUME ExecInv, Uncharged, FoundOK, NEW w \in Workers, NEW j \in Jobs, PushEmail(w, j)
  PROVE  ExecutionKept
<1> USE DEF ExecInv, TypeOK
<1>1. /\ pc[w][j] = "spider" /\ found' = [found EXCEPT ![w][j] = TRUE]
      /\ UNCHANGED <<pc, charges>>
  BY DEF PushEmail, dbVars
<1>2. \A v \in Workers, k \in Jobs : ~(v = w /\ k = j) => found'[v][k] = found[v][k]
  BY <1>1
<1>3. found'[w][j]
  BY <1>1
<1>4. FoundOK'
  BY <1>1, <1>2, <1>3 DEF FoundOK, InRun
<1>5. UNCHANGED Runners /\ Runners[j] # {}
  BY <1>1 DEF Runners, InRun
<1>6. Fruitful' = Fruitful \union {j}
  BY <1>1, <1>2, <1>3 DEF Fruitful, InRun
<1>7. charges[j] = 0
  BY <1>1 DEF Uncharged
<1>8. Promise!Find(j)
  BY <1>1, <1>5, <1>6, <1>7 DEF Promise!Find, Runners, Fruitful
<1> QED
  BY <1>4, <1>8 DEF ExecutionKept, Promise!Next

\* A deduction is the first one, and it ends the run at most.
LEMMA PayStep ==
  ASSUME ExecInv, Uncharged, FoundOK, NEW w \in Workers, NEW j \in Jobs,
         NEW to \in {"announce", "finish", "rerun"},
         pc[w][j] = "charge", pc' = [pc EXCEPT ![w][j] = to], found' = found,
         charges' = [charges EXCEPT ![j] = @ + 1]
  PROVE  ExecutionKept
<1> USE DEF ExecInv
<1>1. charges[j] = 0 /\ charges' = [charges EXCEPT ![j] = 1]
  <2>1. charges[j] = 0
    BY DEF Uncharged
  <2>2. charges[j] + 1 = 1
    BY <2>1
  <2> QED
    BY <2>1, <2>2
<1>2. found[w][j] /\ pc[w][j] \in InRun
  BY DEF FoundOK, InRun
<1>3. j \in Fruitful
  BY <1>2 DEF Fruitful
<1>4. FoundOK' /\ (Promise!End({}) \/ Promise!End({j}))
  <2>1. CASE to = "announce"
    <3>1. /\ pc'[w][j] = "announce"
          /\ \A v \in Workers, k \in Jobs : ~(v = w /\ k = j) => pc'[v][k] = pc[v][k]
      BY <2>1 DEF TypeOK
    <3>2. FoundOK'
      BY <3>1 DEF FoundOK, InRun
    <3>3. \A v \in Workers, k \in Jobs : pc'[v][k] \in InRun <=> pc[v][k] \in InRun
      BY <1>2, <3>1 DEF InRun
    <3>4. Promise!End({})
      BY <3>3 DEF Promise!End
    <3> QED
      BY <3>2, <3>4
  <2>2. CASE to \in {"finish", "rerun"}
    BY <1>2, <2>2, LeaveEnds
  <2> QED
    BY <2>1, <2>2
<1>5. Promise!Charge(j)
  BY <1>1, <1>3, <1>4 DEF Promise!Charge, Fruitful
<1> QED
  BY <1>4, <1>5 DEF ExecutionKept, Promise!Next

\* A cancellation leaves the run, or pays in leaving it, or lets it close down.
LEMMA CancelStep ==
  ASSUME ExecInv, Uncharged, FoundOK, NEW w \in Workers, NEW j \in Jobs,
         NEW escape \in {"finish", "rerun"}, Interrupt(w, j, escape), UNCHANGED found
  PROVE  ExecutionKept
<1> USE DEF ExecInv, SetPc
<1>1. CASE /\ pc[w][j] \in {"spider", "commit"} /\ SetPc(w, j, "commit")
           /\ UNCHANGED charges
  BY <1>1, InsideStep DEF InRun
<1>2. CASE /\ pc[w][j] \in Coroutine \ {"spider"} /\ SetPc(w, j, escape)
           /\ UNCHANGED charges
  <2>1. CASE pc[w][j] \in InRun
    BY <1>2, <2>1, LeaveStep
  <2>2. CASE pc[w][j] \notin InRun
    BY <1>2, <2>2, OutsideStep DEF RunJobPc, InRun
  <2> QED
    BY <2>1, <2>2
<1>3. CASE /\ pc[w][j] = "charge" /\ SetPc(w, j, escape)
           /\ charges' = [charges EXCEPT ![j] = @ + 1]
  BY <1>3, PayStep
<1> QED
  BY <1>1, <1>2, <1>3 DEF Interrupt, Coroutine, dbVars

\* A worker that dies ends the runs it has.
LEMMA CrashStep ==
  ASSUME ExecInv, FoundOK, NEW w \in Workers, WorkerCrash(w)
  PROVE  ExecutionKept
<1>0. PICK ended \in SUBSET Jobs : ended = {j \in Jobs : pc[w][j] \in InRun}
  OBVIOUS
<1>1. /\ pc' = [pc EXCEPT ![w] = [j \in Jobs |-> "idle"]]
      /\ found' = [found EXCEPT ![w] = [j \in Jobs |-> FALSE]]
      /\ UNCHANGED charges
  BY DEF WorkerCrash, dbVars
<1>2. /\ \A j \in Jobs : pc'[w][j] = "idle" /\ ~found'[w][j]
      /\ \A v \in Workers, j \in Jobs :
            v # w => pc'[v][j] = pc[v][j] /\ found'[v][j] = found[v][j]
  BY <1>1 DEF ExecInv, TypeOK
<1>3. FoundOK'
  BY <1>2 DEF FoundOK
<1>4. \A v \in Workers, j \in Jobs :
         /\ j \in ended => pc'[v][j] \notin InRun
         /\ j \notin ended => (pc'[v][j] \in InRun <=> pc[v][j] \in InRun)
         /\ j \notin ended /\ pc[v][j] \in InRun => found'[v][j] = found[v][j]
  BY <1>0, <1>2 DEF ExecInv, OneExecution, InRun
<1>5. Promise!End(ended)
  BY <1>4 DEF Promise!End
<1>6. CASE ended = {}
  <2>1. UNCHANGED <<Runners, Fruitful, charges>>
    BY <1>1, <1>4, <1>6 DEF Runners, Fruitful
  <2> QED
    BY <1>3, <2>1 DEF ExecutionKept
<1>7. CASE ended # {}
  <2>1. Promise!Stop(ended)
    BY <1>1, <1>5, <1>7 DEF Promise!Stop
  <2>2. Promise!Next
    BY <2>1 DEF Promise!Next
  <2> QED
    BY <1>3, <2>2 DEF ExecutionKept
<1> QED
  BY <1>6, <1>7

\* Every step of every process is a step of Execution or a stutter.
LEMMA ExecutionStep ==
  ASSUME ExecInv, Uncharged, FoundOK, [Next]_vars
  PROVE  ExecutionKept
<1> USE DEF ExecInv
<1>1. ASSUME NEW j \in Jobs,
             \/ StartStep(j) \/ StopRead(j) \/ StopStep(j) \/ WsStop(j)
             \/ CommandIgnored(j) \/ InProgressExpires(j) \/ ResultExpires(j)
      PROVE  ExecutionKept
  <2>1. UNCHANGED <<pc, found, charges>>
    BY <1>1 DEF StartStep, StopStep, StartCount, StartInsert, StartEnqueue, StartLost,
       StopRead, StopCommit, StopPublish, StopAbort, StopReturn, WsStop, CommandIgnored,
       InProgressExpires, ResultExpires, dbVars, taskVars
  <2> QED
    BY <2>1, UnseenStep
<1>2. ASSUME NEW a \in ApiProcs, BootPurge(a) \/ BootStep(a)
      PROVE  ExecutionKept
  <2>1. UNCHANGED <<pc, found, charges>>
    BY <1>2 DEF BootPurge, BootStep, BootSelect, BootCommit, BootEnqueue, dbVars, taskVars
  <2> QED
    BY <2>1, UnseenStep
<1>3. ASSUME NEW late \in SUBSET Jobs, HungSelect(late) \/ HungCommit
      PROVE  ExecutionKept
  <2>1. UNCHANGED <<pc, found, charges>>
    BY <1>3 DEF HungSelect, HungCommit, dbVars, taskVars
  <2> QED
    BY <2>1, UnseenStep
<1>4. ASSUME NEW w \in Workers, NEW j \in Jobs,
             Pick(w, j) \/ RunJob(w, j) \/ FinishFailed(w, j) \/ FinishJob(w, j)
               \/ FinishRerun(w, j) \/ SelectJob(w, j)
      PROVE  ExecutionKept
  <2>1. /\ pc[w][j] \in {"idle", "picked", "fail", "finish", "rerun", "select"}
        /\ UNCHANGED charges
    BY <1>4 DEF Pick, RunJob, FinishFailed, FinishJob, FinishRerun, SelectJob, dbVars
  <2>2. \E to \in {"idle", "picked", "fail", "select", "start", "finish"} :
           pc' = [pc EXCEPT ![w][j] = to]
    BY <1>4 DEF Pick, RunJob, FinishFailed, FinishJob, FinishRerun, SelectJob, SetPc
  <2>3. \/ UNCHANGED found /\ pc[w][j] \notin {"finish", "rerun"}
        \/ found' = [found EXCEPT ![w][j] = FALSE]
    BY <1>4 DEF Pick, RunJob, FinishFailed, FinishJob, FinishRerun, SelectJob, ForgetLocals
  <2>4. ~found'[w][j]
    <3>1. CASE UNCHANGED found /\ pc[w][j] \notin {"finish", "rerun"}
      BY <2>1, <3>1 DEF FoundOK, InRun
    <3>2. CASE found' = [found EXCEPT ![w][j] = FALSE]
      BY <3>2 DEF TypeOK
    <3> QED
      BY <2>3, <3>1, <3>2
  <2>5. pc[w][j] \notin InRun
    BY <2>1 DEF InRun
  <2>6. PICK to \in RunJobPc \ InRun : pc' = [pc EXCEPT ![w][j] = to]
    BY <2>2 DEF InRun, RunJobPc, Coroutine
  <2>7. found' \in {found, [found EXCEPT ![w][j] = FALSE]}
    BY <2>3
  <2> QED
    BY <2>1, <2>4, <2>5, <2>6, <2>7, OutsideStep
<1>5. ASSUME NEW w \in Workers, NEW j \in Jobs, PrologueFails(w, j)
      PROVE  ExecutionKept
  <2>1. /\ pc[w][j] \in {"select", "start"} /\ pc' = [pc EXCEPT ![w][j] = "finish"]
        /\ UNCHANGED <<charges, found>>
    BY <1>5 DEF PrologueFails, SetPc, dbVars
  <2> QED
    BY <2>1, OutsideStep DEF InRun, RunJobPc
<1>6. ASSUME NEW w \in Workers, NEW j \in Jobs, MarkRunning(w, j) \/ PushEmail(w, j)
      PROVE  ExecutionKept
  BY <1>6, BeginStep, FindStep
<1>7. ASSUME NEW w \in Workers, NEW j \in Jobs,
             SpiderEnds(w, j) \/ FinalCommit(w, j) \/ FinallyFails(w, j)
      PROVE  ExecutionKept
  <2>1. pc[w][j] \in InRun /\ UNCHANGED <<charges, found>>
    BY <1>7 DEF SpiderEnds, FinalCommit, FinallyFails, InRun, dbVars
  <2>2. \E to \in InRun : /\ pc' = [pc EXCEPT ![w][j] = to]
                          /\ to = "charge" => found[w][j]
    BY <1>7 DEF SpiderEnds, FinalCommit, FinallyFails, InRun, SetPc
  <2> QED
    BY <2>1, <2>2, InsideStep
<1>8. ASSUME NEW w \in Workers, NEW j \in Jobs, Charge(w, j)
      PROVE  ExecutionKept
  <2>1. /\ pc[w][j] = "charge" /\ pc' = [pc EXCEPT ![w][j] = "announce"]
        /\ UNCHANGED found
    BY <1>8 DEF Charge, SetPc
  <2>2. CASE charges' = [charges EXCEPT ![j] = @ + 1]
    BY <2>1, <2>2, PayStep
  <2>3. CASE UNCHANGED charges
    BY <2>1, <2>3, InsideStep DEF InRun
  <2> QED
    BY <1>8, <2>2, <2>3 DEF Charge
<1>9. ASSUME NEW w \in Workers, NEW j \in Jobs, Announce(w, j)
      PROVE  ExecutionKept
  BY <1>9, LeaveStep DEF Announce, SetPc, InRun, dbVars
<1>10. ASSUME NEW w \in Workers, NEW j \in Jobs,
              CommandCancels(w, j) \/ CancelAborted(w, j) \/ JobTimeout(w, j)
                \/ SignalCancels(w, j)
       PROVE  ExecutionKept
  BY <1>10, CancelStep DEF CommandCancels, CancelAborted, JobTimeout, SignalCancels
<1>11. ASSUME NEW w \in Workers, WorkerCrash(w)
       PROVE  ExecutionKept
  BY <1>11, CrashStep
<1>12. CASE UNCHANGED vars
  BY <1>12, UnseenStep DEF vars, dbVars, taskVars
<1> QED
  BY <1>1, <1>2, <1>3, <1>4, <1>5, <1>6, <1>7, <1>8, <1>9, <1>10, <1>11, <1>12
  DEF Next, WorkerStep

\* With max_tries = 1 the whole protocol of API, start-up code, arq workers and clean-up
\* implements the execution README.md promises: one worker at a time runs a job, the
\* credits are taken once and by a run that found an e-mail, and a job that was paid
\* for is not run again.
THEOREM JobImplementsExecution ==
  ASSUME MaxTries = 1
  PROVE  Spec => ImplementsExecution
<1>1. Init => FoundOK /\ Promise!Init
  BY DEF Init, FoundOK, Promise!Init, InRun
<1>2. ExecInv /\ ChargeInv /\ FoundOK /\ [Next]_vars
         => FoundOK' /\ [Promise!Next]_<<Runners, Fruitful, charges>>
  BY ExecutionStep DEF ChargeInv, ExecutionKept
<1>3. QED
  BY <1>1, <1>2, ExecInvariant, ChargeInvariant, PTL
  DEF Spec, ImplementsExecution, Promise!Spec, Runners, Fruitful
-----------------------------------------------------------------------------
(* Which runs are not charged *)

\* Cancellations of j that were asked for and have not arrived.
Owed(j) ==
    (IF j \in commands THEN 1 ELSE 0) + (IF j \in abortSet THEN 1 ELSE 0)
      + (CASE stopPc[j] \in {"commit", "publish"} -> 2
           [] stopPc[j] = "abort" -> 1
           [] OTHER -> 0)

\* The one that ended the spider.
Hit(w, j) == IF pc[w][j] \in InRun /\ local[w][j] = "STOPPED" THEN 1 ELSE 0

CancelsCounted == \A w \in Workers, j \in Jobs : Owed(j) + Hit(w, j) <= Cancellations

\* Both are numbers, and no step takes a cancellation back.
LEMMA CancellationsGrow ==
  ASSUME TypeOK, [Next]_vars
  PROVE  Cancellations \in Nat /\ Cancellations' \in Nat /\ Cancellations <= Cancellations'
<1>1. \A k \in {"stop", "wsStop", "timeout", "signal"} :
         used[k] \in Nat /\ used'[k] \in Nat /\ used[k] <= used'[k]
  BY SpentStays DEF Events
<1> QED
  BY <1>1 DEF Cancellations

\* A DELETE request counts twice, every other source once.
LEMMA SpendCancels ==
  ASSUME TypeOK
  PROVE  /\ Spend("stop") => Cancellations' = Cancellations + 2
         /\ \A k \in {"wsStop", "timeout", "signal"} :
               Spend(k) => Cancellations' = Cancellations + 1
<1>1. used \in [Events -> Nat]
  BY DEF TypeOK
<1>2. ASSUME NEW k \in {"stop", "wsStop", "timeout", "signal"}, Spend(k)
      PROVE  /\ used'[k] = used[k] + 1
             /\ \A e \in Events : e # k => used'[e] = used[e]
  BY <1>1, <1>2 DEF Spend, Events
<1>3. \A k \in {"stop", "wsStop", "timeout", "signal"} : used[k] \in Nat /\ k \in Events
  BY <1>1 DEF Events
<1>4. ASSUME NEW k \in {"stop", "wsStop", "timeout", "signal"}, Spend(k)
      PROVE  \A e \in {"stop", "wsStop", "timeout", "signal"} :
                used'[e] = IF e = k THEN used[e] + 1 ELSE used[e]
  BY <1>2, <1>3, <1>4
<1>5. ASSUME Spend("stop")
      PROVE  Cancellations' = Cancellations + 2
  BY <1>3, <1>4, <1>5 DEF Cancellations
<1>6. ASSUME NEW k \in {"wsStop", "timeout", "signal"}, Spend(k)
      PROVE  Cancellations' = Cancellations + 1
  BY <1>3, <1>4, <1>6 DEF Cancellations
<1> QED
  BY <1>5, <1>6

LEMMA OwedType ==
  ASSUME TypeOK, NEW w \in Workers, NEW j \in Jobs
  PROVE  Owed(j) \in Nat /\ Hit(w, j) \in {0, 1}
BY DEF Owed, Hit

\* A cancellation stops the spider of one run and touches no other.
LEMMA InterruptHits ==
  ASSUME TypeOK, NEW w \in Workers, NEW j \in Jobs,
         NEW escape \in {"finish", "rerun"}, Interrupt(w, j, escape)
  PROVE  /\ Hit(w, j)' \in {0, 1}
         /\ \A v \in Workers, i \in Jobs : ~(v = w /\ i = j) => Hit(v, i)' = Hit(v, i)
<1>1. PICK to \in RunJobPc : pc' = [pc EXCEPT ![w][j] = to]
  BY InterruptMoves DEF RunJobPc, Coroutine
<1>2. local' = local \/ local' = [local EXCEPT ![w][j] = "STOPPED"]
  BY DEF Interrupt
<1>3. \A v \in Workers, i \in Jobs :
         ~(v = w /\ i = j) => pc'[v][i] = pc[v][i] /\ local'[v][i] = local[v][i]
  BY <1>1, <1>2 DEF TypeOK
<1> QED
  BY <1>3 DEF Hit

\* What neither asks for nor delivers a cancellation keeps the count.
LEMMA CountKept ==
  ASSUME TypeOK, CancelsCounted, [Next]_vars,
         \A j \in Jobs : Owed(j)' <= Owed(j) /\ Owed(j)' \in Nat,
         \A w \in Workers, j \in Jobs : Hit(w, j)' <= Hit(w, j) /\ Hit(w, j)' \in {0, 1}
  PROVE  CancelsCounted'
<1> SUFFICES ASSUME NEW w \in Workers, NEW j \in Jobs
             PROVE  Owed(j)' + Hit(w, j)' <= Cancellations'
  BY DEF CancelsCounted
<1>1. Owed(j) + Hit(w, j) <= Cancellations
  BY DEF CancelsCounted
<1>2. Owed(j) \in Nat /\ Hit(w, j) \in {0, 1}
  BY OwedType
<1>3. Cancellations \in Nat /\ Cancellations' \in Nat /\ Cancellations <= Cancellations'
  BY CancellationsGrow
<1> QED
  BY <1>1, <1>2, <1>3

\* No step of a worker by itself turns a run into a cancelled one.
LEMMA WorkHits ==
  ASSUME TypeOK, NEW w \in Workers, NEW j \in Jobs,
         Pick(w, j) \/ WorkerStep(w, j) \/ PrologueFails(w, j) \/ FinallyFails(w, j)
           \/ PushEmail(w, j),
         NEW v \in Workers, NEW i \in Jobs
  PROVE  Hit(v, i)' <= Hit(v, i) /\ Hit(v, i)' \in {0, 1}
<1> USE DEF SetPc, InRun, TypeOK
<1>1. CASE Pick(w, j) \/ RunJob(w, j) \/ FinishFailed(w, j) \/ PrologueFails(w, j)
  <2>1. UNCHANGED local /\ \E to \in {"picked", "fail", "select", "idle", "finish"} :
                                pc' = [pc EXCEPT ![w][j] = to]
    BY <1>1 DEF Pick, RunJob, FinishFailed, PrologueFails
  <2>2. local'[v][i] = local[v][i] /\ (pc'[v][i] \in InRun => pc[v][i] \in InRun)
    BY <2>1
  <2> QED
    BY <2>2 DEF Hit
<1>2. CASE FinishJob(w, j) \/ FinishRerun(w, j) \/ SelectJob(w, j)
  <2>1. /\ \E to \in {"idle", "start", "finish"} : pc' = [pc EXCEPT ![w][j] = to]
        /\ \E to \in Status \union {"none"} : local' = [local EXCEPT ![w][j] = to]
    BY <1>2 DEF FinishJob, FinishRerun, SelectJob, ForgetLocals
  <2>2. pc'[v][i] \in InRun => pc[v][i] \in InRun /\ local'[v][i] = local[v][i]
    BY <2>1
  <2> QED
    BY <2>2 DEF Hit
<1>3. CASE MarkRunning(w, j) \/ SpiderEnds(w, j)
  <2>1. /\ \E to \in {"spider", "commit"} : pc' = [pc EXCEPT ![w][j] = to]
        /\ \E to \in {"RUNNING", "COMPLETED", "ERROR"} : local' = [local EXCEPT ![w][j] = to]
    BY <1>3 DEF MarkRunning, SpiderEnds
  <2>2. local'[v][i] = "STOPPED" => pc'[v][i] = pc[v][i] /\ local'[v][i] = local[v][i]
    BY <2>1
  <2> QED
    BY <2>2 DEF Hit
<1>4. CASE \/ FinalCommit(w, j) \/ Charge(w, j) \/ Announce(w, j) \/ FinallyFails(w, j)
           \/ PushEmail(w, j)
  <2>1. /\ UNCHANGED local
        /\ \/ UNCHANGED pc
           \/ pc[w][j] \in InRun /\ \E to \in {"charge", "announce", "finish"} :
                                         pc' = [pc EXCEPT ![w][j] = to]
    BY <1>4 DEF FinalCommit, Charge, Announce, FinallyFails, PushEmail
  <2>2. pc'[v][i] \in InRun => pc[v][i] \in InRun
    <3>1. CASE UNCHANGED pc
      BY <3>1
    <3>2. ASSUME NEW to \in {"charge", "announce", "finish"}, pc[w][j] \in InRun,
                 pc' = [pc EXCEPT ![w][j] = to]
          PROVE  pc'[v][i] \in InRun => pc[v][i] \in InRun
      BY <3>2
    <3> QED
      BY <2>1, <3>1, <3>2
  <2> QED
    BY <2>1, <2>2 DEF Hit
<1> QED
  BY <1>1, <1>2, <1>3, <1>4 DEF WorkerStep

\* A cancellation that arrives is one that was owed, or comes with its own event.
LEMMA CountCancel ==
  ASSUME TypeOK, CancelsCounted, NEW w \in Workers, NEW j \in Jobs,
         NEW escape \in {"finish", "rerun"}, Interrupt(w, j, escape), UNCHANGED stopPc,
         \/ /\ UNCHANGED used
            /\ \/ j \in commands /\ commands' = commands \ {j} /\ UNCHANGED abortSet
               \/ j \in abortSet /\ abortSet' = abortSet \ {j} /\ UNCHANGED commands
         \/ /\ Spend("timeout") \/ Spend("signal")
            /\ UNCHANGED <<commands, abortSet>>
  PROVE  CancelsCounted'
<1> SUFFICES ASSUME NEW v \in Workers, NEW i \in Jobs
             PROVE  Owed(i)' + Hit(v, i)' <= Cancellations'
  BY DEF CancelsCounted
<1>1. /\ Owed(i) + Hit(v, i) <= Cancellations
      /\ Owed(i) \in Nat /\ Hit(v, i) \in {0, 1} /\ Hit(v, i)' \in {0, 1}
      /\ ~(v = w /\ i = j) => Hit(v, i)' = Hit(v, i)
  BY OwedType, InterruptHits DEF CancelsCounted
<1>2. CASE UNCHANGED used
  <2>1. Cancellations' = Cancellations /\ Cancellations \in Nat
    BY <1>2 DEF Cancellations, TypeOK, Events
  <2>2. /\ Owed(i)' \in Nat /\ Owed(i)' <= Owed(i)
        /\ i = j => Owed(i)' + 1 = Owed(i)
    <3>0. ~Spend("timeout") /\ ~Spend("signal")
      BY <1>2 DEF Spend, TypeOK, Events
    <3>1. CASE j \in commands /\ commands' = commands \ {j} /\ UNCHANGED abortSet
      BY <3>1 DEF Owed
    <3>2. CASE j \in abortSet /\ abortSet' = abortSet \ {j} /\ UNCHANGED commands
      BY <3>2 DEF Owed
    <3> QED
      BY <3>0, <3>1, <3>2
  <2> QED
    BY <1>1, <2>1, <2>2
<1>3. CASE Spend("timeout") \/ Spend("signal")
  <2>1. Cancellations' = Cancellations + 1 /\ Cancellations \in Nat
    BY <1>3, SpendCancels DEF Cancellations, TypeOK, Events
  <2>2. Owed(i)' = Owed(i)
    <3>1. UNCHANGED <<commands, abortSet>>
      BY <1>3 DEF Spend, TypeOK, Events
    <3> QED
      BY <3>1 DEF Owed
  <2> QED
    BY <1>1, <2>1, <2>2
<1> QED
  BY <1>2, <1>3

\* Every step keeps the count: what is delivered or on its way was sent.
LEMMA CountStep ==
  ASSUME TypeOK, CancelsCounted, [Next]_vars
  PROVE  CancelsCounted'
<1>1. ASSUME \A w \in Workers, j \in Jobs : Hit(w, j)' = Hit(w, j),
             \A j \in Jobs : Owed(j)' <= Owed(j) /\ Owed(j)' \in Nat
      PROVE  CancelsCounted'
  <2>1. \A w \in Workers, j \in Jobs : Hit(w, j)' <= Hit(w, j) /\ Hit(w, j)' \in {0, 1}
    BY <1>1, OwedType
  <2> QED
    BY <1>1, <2>1, CountKept
<1>2. ASSUME UNCHANGED <<pc, local, stopPc>>, commands' \subseteq commands,
             abortSet' \subseteq abortSet
      PROVE  CancelsCounted'
  BY <1>1, <1>2 DEF Hit, Owed
<1>3. CASE UNCHANGED vars
  BY <1>2, <1>3 DEF vars, redisVars, apiVars, taskVars
<1>4. ASSUME NEW j \in Jobs,
             \/ StartStep(j) \/ CommandIgnored(j) \/ InProgressExpires(j) \/ ResultExpires(j)
      PROVE  CancelsCounted'
  BY <1>2, <1>4 DEF StartStep, StartCount, StartInsert, StartEnqueue, StartLost,
     CommandIgnored, InProgressExpires, ResultExpires, redisVars, apiVars, taskVars
<1>5. ASSUME NEW a \in ApiProcs, BootPurge(a) \/ BootStep(a)
      PROVE  CancelsCounted'
  BY <1>2, <1>5 DEF BootPurge, BootStep, BootSelect, BootEnqueue, BootCommit, redisVars, taskVars
<1>6. ASSUME NEW late \in SUBSET Jobs, HungSelect(late) \/ HungCommit
      PROVE  CancelsCounted'
  BY <1>2, <1>6 DEF HungSelect, HungCommit, redisVars, taskVars
<1>7. ASSUME NEW j \in Jobs, StopStep(j)
      PROVE  CancelsCounted'
  <2>1. UNCHANGED <<pc, local>>
    BY <1>7 DEF StopStep, StopCommit, StopPublish, StopAbort, StopReturn, taskVars
  <2>2. ASSUME NEW i \in Jobs
        PROVE  Owed(i)' <= Owed(i) /\ Owed(i)' \in Nat
    <3> USE DEF TypeOK
    <3>1. CASE StopCommit(j)
      BY <3>1 DEF StopCommit, Owed, redisVars
    <3>2. CASE StopPublish(j)
      BY <3>2 DEF StopPublish, Owed
    <3>3. CASE StopAbort(j)
      BY <3>3 DEF StopAbort, Owed
    <3>4. CASE StopReturn(j)
      BY <3>4 DEF StopReturn, Owed, redisVars
    <3> QED
      BY <1>7, <3>1, <3>2, <3>3, <3>4 DEF StopStep
  <2> QED
    BY <1>1, <2>1, <2>2 DEF Hit
<1>8. ASSUME NEW j \in Jobs, StopRead(j) \/ WsStop(j)
      PROVE  CancelsCounted'
  <2> SUFFICES ASSUME NEW w \in Workers, NEW i \in Jobs
               PROVE  Owed(i)' + Hit(w, i)' <= Cancellations'
    BY DEF CancelsCounted
  <2>1. /\ Owed(i) + Hit(w, i) <= Cancellations /\ Cancellations \in Nat
        /\ Owed(i) \in Nat /\ Hit(w, i) \in {0, 1} /\ Hit(w, i)' = Hit(w, i)
    <3>1. UNCHANGED <<pc, local>>
      BY <1>8 DEF StopRead, WsStop, taskVars
    <3> QED
      BY <3>1, OwedType, CancellationsGrow DEF CancelsCounted, Hit
  <2>2. CASE StopRead(j)
    <3>1. Owed(i)' \in Nat /\ Owed(i)' <= Owed(i) + 2
      BY <2>2 DEF StopRead, Owed, redisVars, TypeOK
    <3>2. Cancellations' = Cancellations + 2
      BY <2>2, SpendCancels DEF StopRead
    <3> QED
      BY <2>1, <3>1, <3>2
  <2>3. CASE WsStop(j)
    <3>1. Owed(i)' \in Nat /\ Owed(i)' <= Owed(i) + 1
      BY <2>3 DEF WsStop, Owed, apiVars, TypeOK
    <3>2. Cancellations' = Cancellations + 1
      BY <2>3, SpendCancels DEF WsStop
    <3> QED
      BY <2>1, <3>1, <3>2
  <2> QED
    BY <1>8, <2>2, <2>3
<1>9. ASSUME NEW w \in Workers, NEW j \in Jobs,
             Pick(w, j) \/ WorkerStep(w, j) \/ PrologueFails(w, j) \/ FinallyFails(w, j)
               \/ PushEmail(w, j)
      PROVE  CancelsCounted'
  <2>1. UNCHANGED <<commands, stopPc>> /\ abortSet' \subseteq abortSet
    BY <1>9 DEF Pick, WorkerStep, RunJob, FinishFailed, FinishJob, FinishRerun, Forget,
       SelectJob, MarkRunning, SpiderEnds, FinalCommit, Charge, Announce, PrologueFails,
       FinallyFails, PushEmail, redisVars, apiVars
  <2>2. \A i \in Jobs : Owed(i)' <= Owed(i) /\ Owed(i)' \in Nat
    BY <2>1 DEF Owed
  <2>3. \A v \in Workers, i \in Jobs : Hit(v, i)' <= Hit(v, i) /\ Hit(v, i)' \in {0, 1}
    BY <1>9, WorkHits
  <2> QED
    BY <2>2, <2>3, CountKept
<1>10. ASSUME NEW w \in Workers, NEW j \in Jobs,
              CommandCancels(w, j) \/ CancelAborted(w, j) \/ JobTimeout(w, j)
                \/ SignalCancels(w, j)
       PROVE  CancelsCounted'
  <2>1. \E escape \in {"finish", "rerun"} : Interrupt(w, j, escape)
    BY <1>10 DEF CommandCancels, CancelAborted, JobTimeout, SignalCancels
  <2> QED
    BY <1>10, <2>1, CountCancel DEF CommandCancels, CancelAborted, JobTimeout, SignalCancels,
       redisVars, apiVars
<1>11. ASSUME NEW w \in Workers, WorkerCrash(w)
       PROVE  CancelsCounted'
  <2>1. /\ \A j \in Jobs : pc'[w][j] = "idle"
        /\ \A v \in Workers, j \in Jobs :
              v # w => pc'[v][j] = pc[v][j] /\ local'[v][j] = local[v][j]
    BY <1>11 DEF WorkerCrash, TypeOK
  <2>2. \A v \in Workers, j \in Jobs : Hit(v, j)' <= Hit(v, j) /\ Hit(v, j)' \in {0, 1}
    BY <2>1 DEF Hit, InRun
  <2>3. \A j \in Jobs : Owed(j)' <= Owed(j) /\ Owed(j)' \in Nat
    BY <1>11 DEF WorkerCrash, Owed, redisVars, apiVars
  <2> QED
    BY <2>2, <2>3, CountKept
<1> QED
  BY <1>3, <1>4, <1>5, <1>6, <1>7, <1>8, <1>9, <1>10, <1>11 DEF Next

\* A run that found something leaves its account open only by the steps that
\* PaidUnlessDisturbed names.
LEMMA PaidStep ==
  ASSUME TypeOK, CancelsCounted, [Next]_vars,
         NEW w \in Workers, NEW j \in Jobs,
         found[w][j], pc[w][j] \in Unsettled, pc'[w][j] \notin Unsettled, charges'[j] = 0
  PROVE  \/ pc'[w][j] = "announce" /\ (broken'[w][j] \/ used'["refusal"] > used["refusal"])
         \/ pc'[w][j] = "idle" /\ used'["crash"] > used["crash"]
         \/ /\ pc[w][j] # "spider" /\ pc'[w][j] \in {"finish", "rerun"}
            /\ Cancellations' >= IF local[w][j] = "STOPPED" THEN 2 ELSE 1
<1> DEFINE Explained ==
      \/ pc'[w][j] = "announce" /\ (broken'[w][j] \/ used'["refusal"] > used["refusal"])
      \/ pc'[w][j] = "idle" /\ used'["crash"] > used["crash"]
      \/ /\ pc[w][j] # "spider" /\ pc'[w][j] \in {"finish", "rerun"}
         /\ Cancellations' >= IF local[w][j] = "STOPPED" THEN 2 ELSE 1
<1> SUFFICES Explained
  OBVIOUS
<1> USE DEF TypeOK, SetPc
<1>1. pc'[w][j] # pc[w][j]
  OBVIOUS
<1>2. ASSUME NEW i \in Jobs,
             \/ StartStep(i) \/ StopRead(i) \/ StopStep(i) \/ WsStop(i)
             \/ CommandIgnored(i) \/ InProgressExpires(i) \/ ResultExpires(i)
      PROVE  FALSE
  <2>1. UNCHANGED pc
    BY <1>2 DEF StartStep, StopStep, StartCount, StartInsert, StartEnqueue, StartLost,
       StopRead, StopCommit, StopPublish, StopAbort, StopReturn, WsStop, CommandIgnored,
       InProgressExpires, ResultExpires, taskVars
  <2> QED
    BY <1>1, <2>1
<1>3. ASSUME NEW a \in ApiProcs, BootPurge(a) \/ BootStep(a)
      PROVE  FALSE
  BY <1>1, <1>3 DEF BootPurge, BootStep, BootSelect, BootCommit, BootEnqueue, taskVars
<1>4. ASSUME NEW late \in SUBSET Jobs, HungSelect(late) \/ HungCommit
      PROVE  FALSE
  BY <1>1, <1>4 DEF HungSelect, HungCommit, taskVars
<1>5. ASSUME NEW v \in Workers, NEW i \in Jobs,
             \/ Pick(v, i) \/ RunJob(v, i) \/ FinishFailed(v, i) \/ FinishJob(v, i)
             \/ FinishRerun(v, i) \/ SelectJob(v, i) \/ PrologueFails(v, i)
             \/ MarkRunning(v, i) \/ Announce(v, i)
      PROVE  FALSE
  <2>1. /\ pc[v][i] \notin Unsettled
        /\ \E to \in RunJobPc : pc' = [pc EXCEPT ![v][i] = to]
    BY <1>5 DEF Pick, RunJob, FinishFailed, FinishJob, FinishRerun, SelectJob, PrologueFails,
       MarkRunning, Announce, Unsettled, RunJobPc, Coroutine
  <2> QED
    BY <1>1, <2>1
<1>6. ASSUME NEW v \in Workers, NEW i \in Jobs, SpiderEnds(v, i) \/ PushEmail(v, i)
      PROVE  FALSE
  <2>1. UNCHANGED pc \/ pc' = [pc EXCEPT ![v][i] = "commit"]
    BY <1>6 DEF SpiderEnds, PushEmail
  <2> QED
    BY <1>1, <2>1 DEF Unsettled
\* One that goes on to "done" unpaid has a failed commit behind it, or no credits.
<1>7. ASSUME NEW v \in Workers, NEW i \in Jobs,
             FinalCommit(v, i) \/ Charge(v, i) \/ FinallyFails(v, i)
      PROVE  Explained
  <2>1. \E to \in {"charge", "announce"} : pc' = [pc EXCEPT ![v][i] = to]
    BY <1>7, Zenon DEF FinalCommit, Charge, FinallyFails
  <2>2. v = w /\ i = j /\ pc'[w][j] = "announce"
    BY <1>1, <2>1 DEF Unsettled
  <2>3. CASE FinalCommit(v, i)
    <3>1. pc' = [pc EXCEPT ![w][j] =
                   IF found[w][j] /\ ~broken[w][j] THEN "charge" ELSE "announce"]
      BY <2>2, <2>3 DEF FinalCommit
    <3>2. broken[w][j]
      BY <2>2, <3>1
    <3> QED
      BY <2>2, <2>3, <3>2 DEF FinalCommit
  <2>4. CASE Charge(v, i)
    <3>1. charges' # [charges EXCEPT ![j] = @ + 1]
      OBVIOUS
    <3>2. Spend("refusal")
      BY <2>2, <2>4, <3>1 DEF Charge
    <3>3. used'["refusal"] = used["refusal"] + 1 /\ used["refusal"] \in Nat
      BY <3>2 DEF Spend, Events
    <3> QED
      BY <2>2, <3>3
  <2>5. CASE FinallyFails(v, i)
    <3>1. broken'[w][j]
      BY <2>2, <2>5 DEF FinallyFails
    <3> QED
      BY <2>2, <3>1
  <2> QED
    BY <1>7, <2>3, <2>4, <2>5
<1>8. ASSUME NEW v \in Workers, WorkerCrash(v)
      PROVE  Explained
  <2>1. used'["crash"] = used["crash"] + 1 /\ used["crash"] \in Nat
    BY <1>8 DEF WorkerCrash, Spend, Events
  <2>2. pc'[w][j] = "idle"
    BY <1>1, <1>8 DEF WorkerCrash
  <2> QED
    BY <2>1, <2>2
\* One that is cut off later than in its spider needs a cancellation that was sent.
<1>9. ASSUME NEW v \in Workers, NEW i \in Jobs,
             CommandCancels(v, i) \/ CancelAborted(v, i) \/ JobTimeout(v, i)
               \/ SignalCancels(v, i)
      PROVE  Explained
  <2>1. PICK escape \in {"finish", "rerun"} : Interrupt(v, i, escape)
    BY <1>9 DEF CommandCancels, CancelAborted, JobTimeout, SignalCancels
  <2>2. v = w /\ i = j
    <3>1. PICK to : pc' = [pc EXCEPT ![v][i] = to]
      BY <2>1, InterruptMoves
    <3> QED
      BY <1>1, <3>1
  <2>3. pc[w][j] # "spider" /\ pc'[w][j] \in {"finish", "rerun"}
    <3>1. pc' # [pc EXCEPT ![w][j] = "commit"]
      BY DEF Unsettled
    <3>2. pc[w][j] # "spider"
      BY <2>1, <2>2, <3>1 DEF Interrupt
    <3> QED
      BY <2>1, <2>2, <3>1, <3>2, InterruptMoves
  <2>4. /\ Owed(j) + Hit(w, j) <= Cancellations
        /\ Owed(j) \in Nat /\ Cancellations \in Nat
        /\ Cancellations' \in Nat /\ Cancellations <= Cancellations'
    BY OwedType, CancellationsGrow DEF CancelsCounted
  <2>5. Hit(w, j) = IF local[w][j] = "STOPPED" THEN 1 ELSE 0
    BY DEF Hit, Unsettled, InRun
  <2>6. CASE JobTimeout(v, i) \/ SignalCancels(v, i)
    <3>1. Cancellations' = Cancellations + 1
      BY <2>6, SpendCancels DEF JobTimeout, SignalCancels
    <3> QED
      BY <2>3, <2>4, <2>5, <3>1
  <2>7. CASE CommandCancels(v, i) \/ CancelAborted(v, i)
    <3>1. j \in commands \/ j \in abortSet
      BY <2>2, <2>7 DEF CommandCancels, CancelAborted
    <3>2. Owed(j) >= 1
      BY <3>1 DEF Owed
    <3> QED
      BY <2>3, <2>4, <2>5, <3>2
  <2> QED
    BY <1>9, <2>6, <2>7
<1>10. CASE UNCHANGED vars
  BY <1>1, <1>10 DEF vars, taskVars
<1> HIDE DEF Explained
<1> QED
  BY <1>2, <1>3, <1>4, <1>5, <1>6, <1>7, <1>8, <1>9, <1>10 DEF Next, WorkerStep

\* A run that found an e-mail and reports itself done without a deduction had a commit
\* that failed or was cut off, or an owner with too few credits; one that ends before is
\* killed or hit by a cancellation outside of its spider, which for a job that was stopped
\* while its spider ran is the second one.  Without any of them the promise of README.md
\* holds, for any number of jobs, workers, restarts and tries.
THEOREM PaidUnlessDisturbedAlways == Spec => PaidUnlessDisturbed
<1> DEFINE Paid ==
      \A j \in Jobs, w \in Workers :
          /\ found[w][j] /\ pc[w][j] \in Unsettled
          /\ pc'[w][j] \notin Unsettled /\ charges'[j] = 0
          => \/ pc'[w][j] = "announce" /\ (broken'[w][j] \/ used'["refusal"] > used["refusal"])
             \/ pc'[w][j] = "idle" /\ used'["crash"] > used["crash"]
             \/ /\ pc[w][j] # "spider" /\ pc'[w][j] \in {"finish", "rerun"}
                /\ Cancellations' >= IF local[w][j] = "STOPPED" THEN 2 ELSE 1
<1>1. Init => CancelsCounted
  BY DEF Init, CancelsCounted, Owed, Hit, InRun, Cancellations, Events
<1>2. TypeOK /\ CancelsCounted /\ [Next]_vars => CancelsCounted'
  BY CountStep
<1>3. TypeOK /\ CancelsCounted /\ [Next]_vars => [Paid]_vars
  BY PaidStep
<1> HIDE DEF Paid
<1>4. Spec => [][Paid]_vars
  BY TypeCorrect, <1>1, <1>2, <1>3, PTL DEF Spec
<1> QED
  BY <1>4 DEF Paid, PaidUnlessDisturbed
=============================================================================
