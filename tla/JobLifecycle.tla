---------------------------- MODULE JobLifecycle ----------------------------
(***************************************************************************)
(* The life of a scrape job, from POST /api/start to the last commit of    *)
(* the worker that ran it.  Four kinds of process touch it without any     *)
(* common lock:                                                            *)
(*                                                                         *)
(*   - the API handlers start_job and stop_job (routes/scraper_routes.py)  *)
(*     and the "stop" message of the WebSocket;                            *)
(*   - the lifespan start-up code of every gunicorn process (app.py);      *)
(*   - the arq worker processes and the coroutine start_spider_for_job     *)
(*     (worker.py on top of arq's Worker);                                 *)
(*   - the hourly cleanup_hung_jobs (queue_manager.py).                    *)
(*                                                                         *)
(* They meet in one PostgreSQL row per job and in arq's Redis keys.  Every *)
(* await at which another process can run is a boundary between two        *)
(* actions.  Time is abstracted: a deferral, a TTL or a time budget may    *)
(* end at any moment, except where a guard says otherwise.                 *)
(***************************************************************************)
EXTENDS Naturals, FiniteSets

CONSTANTS
    Jobs,       \* the jobs that may be submitted, one start request each
    Users,
    Owner,      \* Owner[j]: the user whose request creates j
    Limit,      \* Limit[u]: 1 for a free user, 3 for a paid one
    Workers,    \* arq worker processes
    ApiProcs,   \* gunicorn processes, each running the lifespan code
    MaxJobs,    \* WorkerSettings.max_jobs
    MaxTries,   \* WorkerSettings.max_tries
    Budget      \* Budget[k]: how often the event k may happen (bounds TLC)

\* Events of the environment, each bounded by Budget.
Events == {"lostStart", "stop", "wsStop", "crash", "boot", "dbError", "timeout", "signal",
           "refusal"}

ASSUME ConstantsAssumption ==
    /\ Owner \in [Jobs -> Users]
    /\ Limit \in [Users -> Nat]
    /\ MaxJobs \in Nat
    /\ MaxTries \in Nat
    /\ Budget \in [Events -> Nat]

Terminal == {"STOPPED", "COMPLETED", "ERROR"}
Active   == {"QUEUED", "RUNNING"}
Status   == Active \union Terminal

\* Where the coroutine start_spider_for_job of one job stands: at its first
\* SELECTs, at the commit of RUNNING, inside spider.run, at the commit of the
\* final status, at the credit deduction, at the "done" broadcast.
Coroutine == {"select", "start", "spider", "commit", "charge", "announce"}
\* The states of arq's run_job around it: picked from the queue, about to call
\* finish_failed_job, about to call finish_job with finish TRUE or FALSE.
RunJobPc == {"idle", "picked", "fail", "finish", "rerun"} \union Coroutine

VARIABLES
    status,     \* status[j]: the committed Job.status, or "none" without a row
    charges,    \* charges[j]: number of committed credit deductions for j
    jobKey,     \* jobs with an arq:job:<id> key
    queue,      \* members of the arq:queue sorted set
    inProgress, \* jobs with an arq:in-progress:<id> key
    tries,      \* tries[j]: the arq:retry:<id> counter
    abortSet,   \* members of the arq:abort sorted set
    resultKey,  \* jobs with an arq:result:<id> key
    commands,   \* "stop" published on command:<id>, not yet received
    startPc,    \* startPc[j]: the POST /api/start request that creates j
    stopPc,     \* stopPc[j]: the DELETE /api/stop request for j
    bootPc,     \* bootPc[a]: lifespan of API process a
    orphans,    \* orphans[a]: the rows its SELECT returned
    todo,       \* todo[a]: those of them it has not enqueued yet
    hung,       \* rows cleanup_hung_jobs has marked in memory, not committed
    pc,         \* pc[w][j]: run_job / coroutine of j on worker w
    local,      \* local[w][j]: job.status in the coroutine's own session
    found,      \* found[w][j]: email_count_tracker[0] > 0
    broken,     \* broken[w][j]: a commit of the run failed or was cut off, and the
                \* session needs a rollback nobody issues
    aborting,   \* aborting[w]: Worker.aborting_tasks
    used        \* used[k]: events of kind k so far

dbVars    == <<status, charges>>
redisVars == <<jobKey, queue, inProgress, tries, abortSet, resultKey, commands>>
apiVars   == <<startPc, stopPc, bootPc, orphans, todo, hung>>
taskVars  == <<pc, local, found, broken, aborting>>
vars      == <<dbVars, redisVars, apiVars, taskVars, used>>

Init ==
    /\ status = [j \in Jobs |-> "none"]
    /\ charges = [j \in Jobs |-> 0]
    /\ jobKey = {} /\ queue = {} /\ inProgress = {} /\ abortSet = {}
    /\ resultKey = {} /\ commands = {}
    /\ tries = [j \in Jobs |-> 0]
    /\ startPc = [j \in Jobs |-> "idle"]
    /\ stopPc = [j \in Jobs |-> "idle"]
    /\ bootPc = [a \in ApiProcs |-> "up"]
    /\ orphans = [a \in ApiProcs |-> {}]
    /\ todo = [a \in ApiProcs |-> {}]
    /\ hung = {}
    /\ pc = [w \in Workers |-> [j \in Jobs |-> "idle"]]
    /\ local = [w \in Workers |-> [j \in Jobs |-> "none"]]
    /\ found = [w \in Workers |-> [j \in Jobs |-> FALSE]]
    /\ broken = [w \in Workers |-> [j \in Jobs |-> FALSE]]
    /\ aborting = [w \in Workers |-> {}]
    /\ used = [k \in Events |-> 0]

\* One more event of kind k, if the bound allows it.
Spend(k) == used[k] < Budget[k] /\ used' = [used EXCEPT ![k] = @ + 1]

Idle(j) == \A w \in Workers : pc[w][j] = "idle"

\* ArqRedis.enqueue_job: nothing happens while the job or its result exists.
EnqueueJob(j) ==
    IF j \in jobKey \union resultKey
    THEN UNCHANGED <<jobKey, queue>>
    ELSE jobKey' = jobKey \union {j} /\ queue' = queue \union {j}

-----------------------------------------------------------------------------
(* POST /api/start *)

ActiveJobs(u) == {k \in Jobs : Owner[k] = u /\ status[k] \in Active}

\* The SELECT count(...) of the user's active jobs; a 429 changes nothing.
StartCount(j) ==
    /\ startPc[j] = "idle"
    /\ Cardinality(ActiveJobs(Owner[j])) < Limit[Owner[j]]
    /\ startPc' = [startPc EXCEPT ![j] = "insert"]
    /\ UNCHANGED <<dbVars, redisVars, stopPc, bootPc, orphans, todo, hung, taskVars, used>>

StartInsert(j) ==
    /\ startPc[j] = "insert"
    /\ status' = [status EXCEPT ![j] = "QUEUED"]
    /\ startPc' = [startPc EXCEPT ![j] = "enqueue"]
    /\ UNCHANGED <<charges, redisVars, stopPc, bootPc, orphans, todo, hung, taskVars, used>>

StartEnqueue(j) ==
    /\ startPc[j] = "enqueue"
    /\ EnqueueJob(j)
    /\ startPc' = [startPc EXCEPT ![j] = "answered"]
    /\ UNCHANGED <<dbVars, inProgress, tries, abortSet, resultKey, commands,
                   stopPc, bootPc, orphans, todo, hung, taskVars, used>>

\* The process dies, Redis raises or arq_pool is None after the row is
\* committed: the request ends in a 500 and nothing is enqueued.
StartLost(j) ==
    /\ startPc[j] = "enqueue"
    /\ Spend("lostStart")
    /\ startPc' = [startPc EXCEPT ![j] = "answered"]
    /\ UNCHANGED <<dbVars, redisVars, stopPc, bootPc, orphans, todo, hung, taskVars>>

-----------------------------------------------------------------------------
(* DELETE /api/stop and the "stop" action of the WebSocket *)

\* Mutant of StopRead: only a job that is running is marked STOPPED.
StopReadRunning(j) ==
    /\ stopPc[j] = "idle" /\ status[j] # "none"
    /\ Spend("stop")
    /\ stopPc' = [stopPc EXCEPT ![j] = IF status[j] = "RUNNING" THEN "commit" ELSE "publish"]
    /\ UNCHANGED <<dbVars, redisVars, startPc, bootPc, orphans, todo, hung, taskVars>>

\* The SELECT of the row; a job in a terminal state is not written again.
StopRead(j) ==
    /\ stopPc[j] = "idle" /\ status[j] # "none"
    /\ Spend("stop")
    /\ stopPc' = [stopPc EXCEPT ![j] = IF status[j] \in Active THEN "commit" ELSE "publish"]
    /\ UNCHANGED <<dbVars, redisVars, startPc, bootPc, orphans, todo, hung, taskVars>>

StopCommit(j) ==
    /\ stopPc[j] = "commit"
    /\ status' = [status EXCEPT ![j] = "STOPPED"]
    /\ stopPc' = [stopPc EXCEPT ![j] = "publish"]
    /\ UNCHANGED <<charges, redisVars, startPc, bootPc, orphans, todo, hung, taskVars, used>>

StopPublish(j) ==
    /\ stopPc[j] = "publish"
    /\ commands' = commands \union {j}
    /\ stopPc' = [stopPc EXCEPT ![j] = "abort"]
    /\ UNCHANGED <<dbVars, jobKey, queue, inProgress, tries, abortSet, resultKey,
                   startPc, bootPc, orphans, todo, hung, taskVars, used>>

\* Job.abort: record the abort, then wait.
StopAbort(j) ==
    /\ stopPc[j] = "abort"
    /\ abortSet' = abortSet \union {j}
    /\ stopPc' = [stopPc EXCEPT ![j] = "wait"]
    /\ UNCHANGED <<dbVars, jobKey, queue, inProgress, tries, resultKey, commands,
                   startPc, bootPc, orphans, todo, hung, taskVars, used>>

\* Job.result polls without a timeout: it returns when a result exists or the
\* job is not in the queue, and stop_job answers {"status": "stopped"}.
StopReturn(j) ==
    /\ stopPc[j] = "wait"
    /\ j \in resultKey \/ j \notin queue
    /\ stopPc' = [stopPc EXCEPT ![j] = "answered"]
    /\ UNCHANGED <<dbVars, redisVars, startPc, bootPc, orphans, todo, hung, taskVars, used>>

\* The WebSocket handler only publishes the command.
WsStop(j) ==
    /\ status[j] # "none"
    /\ Spend("wsStop")
    /\ commands' = commands \union {j}
    /\ UNCHANGED <<dbVars, jobKey, queue, inProgress, tries, abortSet, resultKey,
                   apiVars, taskVars>>

-----------------------------------------------------------------------------
(* lifespan: start-up of one gunicorn process, with the others serving *)

\* KEYS arq:job:* and DEL.
BootPurge(a) ==
    /\ bootPc[a] = "up"
    /\ Spend("boot")
    /\ jobKey' = {}
    /\ bootPc' = [bootPc EXCEPT ![a] = "recover"]
    /\ UNCHANGED <<dbVars, queue, inProgress, tries, abortSet, resultKey, commands,
                   startPc, stopPc, orphans, todo, hung, taskVars>>

\* SELECT the rows in RUNNING; without any, nothing is committed.
BootSelect(a) ==
    LET running == {j \in Jobs : status[j] = "RUNNING"} IN
    /\ bootPc[a] = "recover"
    /\ orphans' = [orphans EXCEPT ![a] = running]
    /\ todo' = [todo EXCEPT ![a] = running]
    /\ bootPc' = [bootPc EXCEPT ![a] = IF running = {} THEN "up" ELSE "requeue"]
    /\ UNCHANGED <<dbVars, redisVars, startPc, stopPc, hung, taskVars, used>>

\* One iteration of the loop: status is set in memory only, the enqueue is real.
BootEnqueue(a, j) ==
    /\ bootPc[a] = "requeue" /\ j \in todo[a]
    /\ EnqueueJob(j)
    /\ todo' = [todo EXCEPT ![a] = @ \ {j}]
    /\ UNCHANGED <<dbVars, inProgress, tries, abortSet, resultKey, commands,
                   startPc, stopPc, bootPc, orphans, hung, taskVars, used>>

\* The commit writes QUEUED over whatever the rows hold by now.
BootCommit(a) ==
    /\ bootPc[a] = "requeue" /\ todo[a] = {}
    /\ status' = [j \in Jobs |-> IF j \in orphans[a] THEN "QUEUED" ELSE status[j]]
    /\ orphans' = [orphans EXCEPT ![a] = {}]
    /\ bootPc' = [bootPc EXCEPT ![a] = "up"]
    /\ UNCHANGED <<charges, redisVars, startPc, stopPc, todo, hung, taskVars, used>>

-----------------------------------------------------------------------------
(* cleanup_hung_jobs *)

\* A row is overdue ten minutes after its time budget.  spider.run returns within
\* seconds of its budget, so the coroutine of an overdue row is gone.
HungSelect(late) ==
    /\ hung = {} /\ late # {}
    /\ \A j \in late : status[j] = "RUNNING" /\ Idle(j)
    /\ hung' = late
    /\ UNCHANGED <<dbVars, redisVars, startPc, stopPc, bootPc, orphans, todo, taskVars, used>>

\* Mutant of HungCommit: count is not incremented, so the commit is skipped.
HungForgotten ==
    /\ hung # {}
    /\ hung' = {}
    /\ UNCHANGED <<dbVars, redisVars, startPc, stopPc, bootPc, orphans, todo, taskVars, used>>

HungCommit ==
    /\ hung # {}
    /\ status' = [j \in Jobs |-> IF j \in hung THEN "ERROR" ELSE status[j]]
    /\ hung' = {}
    /\ UNCHANGED <<charges, redisVars, startPc, stopPc, bootPc, orphans, todo, taskVars, used>>

-----------------------------------------------------------------------------
(* arq: Worker.start_jobs and Worker.run_job *)

SetPc(w, j, to) == pc' = [pc EXCEPT ![w][j] = to]

\* Mutant of Pick: the in-progress key of another worker is not looked at.
PickUnwatched(w, j) ==
    /\ pc[w][j] = "idle"
    /\ Cardinality({k \in Jobs : pc[w][k] # "idle"}) < MaxJobs
    /\ j \in queue
    /\ inProgress' = inProgress \union {j}
    /\ SetPc(w, j, "picked")
    /\ UNCHANGED <<dbVars, jobKey, queue, tries, abortSet, resultKey, commands,
                   apiVars, local, found, broken, aborting, used>>

\* WATCH, EXISTS, ZSCORE and PSETEX of the in-progress key in one transaction.
Pick(w, j) ==
    /\ pc[w][j] = "idle"
    /\ Cardinality({k \in Jobs : pc[w][k] # "idle"}) < MaxJobs
    /\ j \in queue \ inProgress
    /\ inProgress' = inProgress \union {j}
    /\ SetPc(w, j, "picked")
    /\ UNCHANGED <<dbVars, jobKey, queue, tries, abortSet, resultKey, commands,
                   apiVars, local, found, broken, aborting, used>>

\* Mutant of RunJob: the abort recorded before the start is dropped.
RunJobUnaborted(w, j) ==
    /\ pc[w][j] = "picked"
    /\ tries' = [tries EXCEPT ![j] = @ + 1]
    /\ abortSet' = abortSet \ {j}
    /\ SetPc(w, j, IF j \notin jobKey \/ tries[j] + 1 > MaxTries THEN "fail" ELSE "select")
    /\ UNCHANGED <<dbVars, jobKey, queue, inProgress, resultKey, commands,
                   apiVars, local, found, broken, aborting, used>>

\* Mutant of RunJob: max_tries left at a value that permits a second run.
RunJobRetried(w, j) ==
    /\ pc[w][j] = "picked"
    /\ tries' = [tries EXCEPT ![j] = @ + 1]
    /\ abortSet' = abortSet \ {j}
    /\ SetPc(w, j, IF j \notin jobKey \/ j \in abortSet THEN "fail" ELSE "select")
    /\ UNCHANGED <<dbVars, jobKey, queue, inProgress, resultKey, commands,
                   apiVars, local, found, broken, aborting, used>>

\* The pipeline at the top of run_job, and what it decides.
RunJob(w, j) ==
    /\ pc[w][j] = "picked"
    /\ tries' = [tries EXCEPT ![j] = @ + 1]
    /\ abortSet' = abortSet \ {j}
    /\ SetPc(w, j, IF j \notin jobKey \/ j \in abortSet \/ tries[j] + 1 > MaxTries
                   THEN "fail" ELSE "select")
    /\ UNCHANGED <<dbVars, jobKey, queue, inProgress, resultKey, commands,
                   apiVars, local, found, broken, aborting, used>>

\* Mutant of Forget: the entry stays in the sorted set and no result is kept.
ForgetKeysOnly(j) ==
    /\ tries' = [tries EXCEPT ![j] = 0]
    /\ inProgress' = inProgress \ {j}
    /\ jobKey' = jobKey \ {j}
    /\ abortSet' = abortSet \ {j}
    /\ UNCHANGED <<queue, resultKey>>

\* What both endings delete and store.
Forget(j) ==
    /\ tries' = [tries EXCEPT ![j] = 0]
    /\ inProgress' = inProgress \ {j}
    /\ jobKey' = jobKey \ {j}
    /\ queue' = queue \ {j}
    /\ abortSet' = abortSet \ {j}
    /\ resultKey' = resultKey \union {j}

\* The coroutine's locals are gone once run_job is over.
ForgetLocals(w, j) ==
    /\ local' = [local EXCEPT ![w][j] = "none"]
    /\ found' = [found EXCEPT ![w][j] = FALSE]
    /\ broken' = [broken EXCEPT ![w][j] = FALSE]

\* finish_failed_job
FinishFailed(w, j) ==
    /\ pc[w][j] = "fail"
    /\ Forget(j)
    /\ SetPc(w, j, "idle")
    /\ UNCHANGED <<dbVars, commands, apiVars, local, found, broken, aborting, used>>

\* finish_job with finish = TRUE
FinishJob(w, j) ==
    /\ pc[w][j] = "finish"
    /\ Forget(j)
    /\ SetPc(w, j, "idle")
    /\ ForgetLocals(w, j)
    /\ UNCHANGED <<dbVars, commands, apiVars, aborting, used>>

\* finish_job with finish = FALSE: "cancelled, will be run again".
FinishRerun(w, j) ==
    /\ pc[w][j] = "rerun"
    /\ inProgress' = inProgress \ {j}
    /\ SetPc(w, j, "idle")
    /\ ForgetLocals(w, j)
    /\ UNCHANGED <<dbVars, jobKey, queue, tries, abortSet, resultKey, commands,
                   apiVars, aborting, used>>

-----------------------------------------------------------------------------
(* start_spider_for_job *)

\* The SELECT; a terminal row is skipped.
SelectJob(w, j) ==
    /\ pc[w][j] = "select"
    /\ local' = [local EXCEPT ![w][j] = status[j]]
    /\ SetPc(w, j, IF status[j] \in Active THEN "start" ELSE "finish")
    /\ UNCHANGED <<dbVars, redisVars, apiVars, found, broken, aborting, used>>

\* A database error before the try block leaves the coroutine as it is; arq
\* stores the exception as the result.
PrologueFails(w, j) ==
    /\ pc[w][j] \in {"select", "start"}
    /\ Spend("dbError")
    /\ SetPc(w, j, "finish")
    /\ UNCHANGED <<dbVars, redisVars, apiVars, local, found, broken, aborting>>

\* The ORM writes an attribute only when it differs from the loaded value.
WriteRunning(w, j) ==
    status' = IF local[w][j] = "RUNNING" THEN status
              ELSE [status EXCEPT ![j] = "RUNNING"]

MarkRunning(w, j) ==
    /\ pc[w][j] = "start"
    /\ WriteRunning(w, j)
    /\ local' = [local EXCEPT ![w][j] = "RUNNING"]
    /\ SetPc(w, j, "spider")
    /\ UNCHANGED <<charges, redisVars, apiVars, found, broken, aborting, used>>

\* push_data_fn counts the rows before its commit, and only logs an error there.
PushEmail(w, j) ==
    /\ pc[w][j] = "spider" /\ ~broken[w][j]
    /\ \/ ~found[w][j] /\ UNCHANGED <<broken, used>>
       \/ Spend("dbError") /\ broken' = [broken EXCEPT ![w][j] = TRUE]
    /\ found' = [found EXCEPT ![w][j] = TRUE]
    /\ UNCHANGED <<dbVars, redisVars, apiVars, pc, local, aborting>>

\* On its way out spider.run cancels its fetch workers.  One that is cancelled inside
\* the commit of push_data_fn leaves the session they share as a failed commit does.
TasksCancelled(w, j) ==
    \/ UNCHANGED broken
    \/ found[w][j] /\ broken' = [broken EXCEPT ![w][j] = TRUE]

\* Mutant of SpiderEnds: an error status that JobStatus does not have.
SpiderEndsUntyped(w, j) ==
    /\ pc[w][j] = "spider"
    /\ \E outcome \in {"COMPLETED", "FAILED"} :
          local' = [local EXCEPT ![w][j] = outcome]
    /\ TasksCancelled(w, j)
    /\ SetPc(w, j, "commit")
    /\ UNCHANGED <<dbVars, redisVars, apiVars, found, aborting, used>>

\* spider.run is about to return or to raise.
SpiderEnds(w, j) ==
    /\ pc[w][j] = "spider"
    /\ \E outcome \in {"COMPLETED", "ERROR"} :
          local' = [local EXCEPT ![w][j] = outcome]
    /\ TasksCancelled(w, j)
    /\ SetPc(w, j, "commit")
    /\ UNCHANGED <<dbVars, redisVars, apiVars, found, aborting, used>>

\* Mutant of FinalCommit: a job that was stopped is not charged.
FinalCommitStoppedFree(w, j) ==
    /\ pc[w][j] = "commit"
    /\ status' = IF broken[w][j] THEN status
                 ELSE [status EXCEPT ![j] = local[w][j]]
    /\ SetPc(w, j, IF found[w][j] /\ ~broken[w][j] /\ local[w][j] # "STOPPED"
                   THEN "charge" ELSE "announce")
    /\ UNCHANGED <<charges, redisVars, apiVars, local, found, broken, aborting, used>>

\* The commit of the final status in the finally block.  On a broken session it
\* raises, and the except clause jumps over the deduction.
FinalCommit(w, j) ==
    /\ pc[w][j] = "commit"
    /\ status' = IF broken[w][j] THEN status
                 ELSE [status EXCEPT ![j] = local[w][j]]
    /\ SetPc(w, j, IF found[w][j] /\ ~broken[w][j] THEN "charge" ELSE "announce")
    /\ UNCHANGED <<charges, redisVars, apiVars, local, found, broken, aborting, used>>

\* deduct_credits and track_usage, each with its own commit.  With fewer credits left
\* than were found, deduct_credits takes none, and nobody looks at what it returns.
Charge(w, j) ==
    /\ pc[w][j] = "charge"
    /\ \/ charges' = [charges EXCEPT ![j] = @ + 1] /\ UNCHANGED used
       \/ Spend("refusal") /\ UNCHANGED charges
    /\ SetPc(w, j, "announce")
    /\ UNCHANGED <<status, redisVars, apiVars, local, found, broken, aborting>>

\* A database error in the finally block is logged; the rest is skipped.
FinallyFails(w, j) ==
    /\ pc[w][j] \in {"commit", "charge"}
    /\ Spend("dbError")
    /\ broken' = [broken EXCEPT ![w][j] = TRUE]
    /\ SetPc(w, j, "announce")
    /\ UNCHANGED <<dbVars, redisVars, apiVars, local, found, aborting>>

\* The "done" broadcast and the return.
Announce(w, j) ==
    /\ pc[w][j] = "announce"
    /\ SetPc(w, j, "finish")
    /\ UNCHANGED <<dbVars, redisVars, apiVars, local, found, broken, aborting, used>>

-----------------------------------------------------------------------------
(* Cancellation.  Task.cancel raises CancelledError at the await where the
   coroutine stands.  Inside spider.run it is caught and the finally block
   runs, also when spider.run is already waiting for the fetch workers it
   cancelled; anywhere else it leaves the coroutine, because the finally block
   only catches Exception.  A commit that was on its way may or may not have
   reached the database. *)

Cancellable(w, j) == pc[w][j] \in Coroutine

\* What the CancelledError skips at each await; escape is where run_job goes
\* when the exception leaves the coroutine.
Interrupt(w, j, escape) ==
    \/ /\ pc[w][j] \in {"spider", "commit"}
       /\ local' = [local EXCEPT ![w][j] = "STOPPED"]
       /\ TasksCancelled(w, j)
       /\ SetPc(w, j, "commit")
       /\ UNCHANGED dbVars
    \/ /\ pc[w][j] \in Coroutine \ {"spider"}
       /\ SetPc(w, j, escape)
       /\ UNCHANGED <<local, broken, dbVars>>
    \/ /\ pc[w][j] = "start"
       /\ SetPc(w, j, escape)
       /\ WriteRunning(w, j)
       /\ UNCHANGED <<local, broken, charges>>
    \/ /\ pc[w][j] = "commit" /\ ~broken[w][j]
       /\ SetPc(w, j, escape)
       /\ status' = [status EXCEPT ![j] = local[w][j]]
       /\ UNCHANGED <<local, broken, charges>>
    \/ /\ pc[w][j] = "charge"
       /\ SetPc(w, j, escape)
       /\ charges' = [charges EXCEPT ![j] = @ + 1]
       /\ UNCHANGED <<local, broken, status>>

\* _command_listener on the worker that runs j: a plain cancel.  run_job ends
\* with finish = TRUE only if it is aborting j.
CommandCancels(w, j) ==
    /\ j \in commands /\ Cancellable(w, j)
    /\ Interrupt(w, j, IF j \in aborting[w] THEN "finish" ELSE "rerun")
    /\ commands' = commands \ {j}
    /\ aborting' = [aborting EXCEPT ![w] = IF pc'[w][j] = "finish" THEN @ \ {j} ELSE @]
    /\ UNCHANGED <<jobKey, queue, inProgress, tries, abortSet, resultKey,
                   apiVars, found, used>>

\* No worker has the job in _running_tasks: the message is lost.
CommandIgnored(j) ==
    /\ j \in commands
    /\ \A w \in Workers : ~Cancellable(w, j)
    /\ commands' = commands \ {j}
    /\ UNCHANGED <<dbVars, jobKey, queue, inProgress, tries, abortSet, resultKey,
                   apiVars, taskVars, used>>

\* _cancel_aborted_jobs: only jobs in job_tasks leave the sorted set.
CancelAborted(w, j) ==
    /\ j \in abortSet /\ Cancellable(w, j)
    /\ Interrupt(w, j, "finish")
    /\ aborting' = [aborting EXCEPT ![w] =
                       IF pc'[w][j] = "finish" THEN @ \ {j} ELSE @ \union {j}]
    /\ abortSet' = abortSet \ {j}
    /\ UNCHANGED <<jobKey, queue, inProgress, tries, resultKey, commands,
                   apiVars, found, used>>

\* start.sh ends its workers by a signal, on which arq's handle_sig cancels the tasks
\* it has: each of them ends or stays queued for another try.  (At an await of run_job
\* itself the signal is what WorkerCrash is.)
SignalCancels(w, j) ==
    /\ Cancellable(w, j)
    /\ Spend("signal")
    /\ Interrupt(w, j, IF j \in aborting[w] THEN "finish" ELSE "rerun")
    /\ aborting' = [aborting EXCEPT ![w] = IF pc'[w][j] = "finish" THEN @ \ {j} ELSE @]
    /\ UNCHANGED <<redisVars, apiVars, found>>

\* wait_for(task, job_timeout): a CancelledError that leaves the coroutine
\* becomes a TimeoutError, which run_job finishes.  The largest time budget of a
\* spider is as long as job_timeout, so it may fire in the finally block too.
JobTimeout(w, j) ==
    /\ pc[w][j] \in Coroutine \ {"select", "start"}
    /\ Spend("timeout")
    /\ Interrupt(w, j, "finish")
    /\ UNCHANGED <<redisVars, apiVars, found, aborting>>

-----------------------------------------------------------------------------
(* Crashes and expiring keys *)

\* A worker is killed and restarted; what it held in memory is gone, what it
\* stored in Redis and PostgreSQL stays.
WorkerCrash(w) ==
    /\ \E j \in Jobs : pc[w][j] # "idle"
    /\ Spend("crash")
    /\ pc' = [pc EXCEPT ![w] = [j \in Jobs |-> "idle"]]
    /\ local' = [local EXCEPT ![w] = [j \in Jobs |-> "none"]]
    /\ found' = [found EXCEPT ![w] = [j \in Jobs |-> FALSE]]
    /\ broken' = [broken EXCEPT ![w] = [j \in Jobs |-> FALSE]]
    /\ aborting' = [aborting EXCEPT ![w] = {}]
    /\ UNCHANGED <<dbVars, redisVars, apiVars>>

\* The key lives ten seconds longer than job_timeout, so it outlives run_job.
InProgressExpires(j) ==
    /\ j \in inProgress /\ Idle(j)
    /\ inProgress' = inProgress \ {j}
    /\ UNCHANGED <<dbVars, jobKey, queue, tries, abortSet, resultKey, commands,
                   apiVars, taskVars, used>>

\* keep_result: a stored result lives for an hour, longer than a start-up or a
\* polling stop request needs to look at it.
ResultExpires(j) ==
    /\ j \in resultKey /\ stopPc[j] # "wait"
    /\ \A a \in ApiProcs : bootPc[a] = "up"
    /\ resultKey' = resultKey \ {j}
    /\ UNCHANGED <<dbVars, jobKey, queue, inProgress, tries, abortSet, commands,
                   apiVars, taskVars, used>>

-----------------------------------------------------------------------------
StartStep(j) == StartCount(j) \/ StartInsert(j) \/ StartEnqueue(j) \/ StartLost(j)

StopStep(j) == StopCommit(j) \/ StopPublish(j) \/ StopAbort(j) \/ StopReturn(j)

BootStep(a) == BootSelect(a) \/ BootCommit(a) \/ \E j \in Jobs : BootEnqueue(a, j)

\* The steps the code takes by itself once arq has picked the job.
WorkerStep(w, j) ==
    \/ RunJob(w, j) \/ FinishFailed(w, j) \/ FinishJob(w, j) \/ FinishRerun(w, j)
    \/ SelectJob(w, j) \/ MarkRunning(w, j) \/ SpiderEnds(w, j)
    \/ FinalCommit(w, j) \/ Charge(w, j) \/ Announce(w, j)

Next ==
    \/ \E j \in Jobs :
          \/ StartStep(j) \/ StopRead(j) \/ StopStep(j) \/ WsStop(j)
          \/ CommandIgnored(j) \/ InProgressExpires(j) \/ ResultExpires(j)
    \/ \E a \in ApiProcs : BootPurge(a) \/ BootStep(a)
    \/ \E late \in SUBSET Jobs : HungSelect(late)
    \/ HungCommit
    \/ \E w \in Workers, j \in Jobs :
          \/ Pick(w, j) \/ WorkerStep(w, j) \/ PrologueFails(w, j) \/ FinallyFails(w, j)
          \/ PushEmail(w, j)
          \/ CommandCancels(w, j) \/ CancelAborted(w, j) \/ JobTimeout(w, j)
          \/ SignalCancels(w, j)
    \/ \E w \in Workers : WorkerCrash(w)

Spec == Init /\ [][Next]_vars

\* What keeps moving: requests in flight, the worker loops and the coroutines
\* they own (a spider ends by its time budget), the hourly clean-up, and TTLs.
\* Nobody is obliged to start or stop a job, and faults need never happen.
Fairness ==
    /\ \A j \in Jobs :
          /\ WF_vars(StartInsert(j) \/ StartEnqueue(j)) /\ WF_vars(StopStep(j))
          /\ WF_vars(CommandIgnored(j) \/ \E w \in Workers : CommandCancels(w, j))
          /\ WF_vars(InProgressExpires(j))
          /\ WF_vars(\E late \in SUBSET Jobs : j \in late /\ HungSelect(late))
    /\ WF_vars(HungCommit)
    /\ \A a \in ApiProcs : WF_vars(BootStep(a))
    /\ \A w \in Workers, j \in Jobs :
          WF_vars(WorkerStep(w, j)) /\ WF_vars(CancelAborted(w, j))
    /\ \A j \in Jobs : SF_vars(\E w \in Workers : Pick(w, j))

FairSpec == Spec /\ Fairness

-----------------------------------------------------------------------------
TypeOK ==
    /\ status \in [Jobs -> Status \union {"none"}]
    /\ charges \in [Jobs -> Nat]
    /\ jobKey \subseteq Jobs /\ queue \subseteq Jobs /\ inProgress \subseteq Jobs
    /\ abortSet \subseteq Jobs /\ resultKey \subseteq Jobs /\ commands \subseteq Jobs
    /\ tries \in [Jobs -> Nat]
    /\ startPc \in [Jobs -> {"idle", "insert", "enqueue", "answered"}]
    /\ stopPc \in [Jobs -> {"idle", "commit", "publish", "abort", "wait", "answered"}]
    /\ bootPc \in [ApiProcs -> {"up", "recover", "requeue"}]
    /\ orphans \in [ApiProcs -> SUBSET Jobs]
    /\ todo \in [ApiProcs -> SUBSET Jobs]
    /\ hung \subseteq Jobs
    /\ pc \in [Workers -> [Jobs -> RunJobPc]]
    /\ local \in [Workers -> [Jobs -> Status \union {"none"}]]
    /\ found \in [Workers -> [Jobs -> BOOLEAN]]
    /\ broken \in [Workers -> [Jobs -> BOOLEAN]]
    /\ aborting \in [Workers -> SUBSET Jobs]
    /\ used \in [Events -> Nat]

\* However often the API restarts and re-enqueues, no job is ever in the hands
\* of two arq workers: the in-progress key that start_jobs takes under WATCH is
\* only released by the run_job that took it, or by its TTL afterwards.
OneExecution ==
    \A j \in Jobs : \A v, w \in Workers :
        pc[v][j] # "idle" /\ pc[w][j] # "idle" => v = w

\* "Double-deduction prevention": across stops, cancellations, crashes, restarts
\* and re-enqueues, the credits of a job are deducted at most once.
ChargedAtMostOnce == \A j \in Jobs : charges[j] <= 1

\* Once DELETE /api/stop has answered "stopped", the coroutine of the job is not
\* running, and no later step of anyone brings it back before an API process restarts.
StopAnsweredIsHalted ==
    used["boot"] = 0 =>
        \A j \in Jobs : stopPc[j] = "answered" =>
            \A w \in Workers : pc[w][j] \notin Coroutine

\* A job whose credits were deducted never starts its spider again.
NoRunAfterCharge ==
    [][\A j \in Jobs, w \in Workers :
          charges[j] > 0 => ~(pc[w][j] # "spider" /\ pc'[w][j] = "spider")]_vars

\* The coroutine is past the commit of RUNNING and has not returned.
InRun == {"spider", "commit", "charge", "announce"}

Promise == INSTANCE Execution WITH
    runners <- [j \in Jobs |-> {w \in Workers : pc[w][j] \in InRun}],
    fruitful <- {j \in Jobs : \E w \in Workers : pc[w][j] \in InRun /\ found[w][j]}

\* Seen through its runs and its deductions, the life of a job is an execution as README.md
\* promises it: one worker at a time, charged once and by a run that found an e-mail, and
\* nothing is run or found for a job that was charged.
ImplementsExecution == Promise!Spec

\* Cancellations that the requests, time-outs and signals so far account for: a
\* DELETE request sends two.
Cancellations == 2 * used["stop"] + used["wsStop"] + used["timeout"] + used["signal"]

\* Up to here the account of a run is open.
Unsettled == {"spider", "commit", "charge"}

\* "Credits deducted for actual emails found", and when not: a run that found an
\* e-mail goes on to its "done" broadcast without a deduction only if a commit of this
\* very run failed or was cut off, or the credits do not suffice; and it leaves its
\* account open only if its worker is killed, or by a cancellation that arrives after
\* spider.run, which is the second one if the run was stopped.
\* Each source cancels once: no command or abort is delivered twice.
PaidUnlessDisturbed ==
    [][\A j \in Jobs, w \in Workers :
          /\ found[w][j] /\ pc[w][j] \in Unsettled
          /\ pc'[w][j] \notin Unsettled /\ charges'[j] = 0
          => \/ pc'[w][j] = "announce" /\ (broken'[w][j] \/ used'["refusal"] > used["refusal"])
             \/ pc'[w][j] = "idle" /\ used'["crash"] > used["crash"]
             \/ /\ pc[w][j] # "spider" /\ pc'[w][j] \in {"finish", "rerun"}
                /\ Cancellations' >= IF local[w][j] = "STOPPED" THEN 2 ELSE 1]_vars

\* DELETE /api/stop waits for arq's result without a timeout, yet it answers.
StopIsAnswered == \A j \in Jobs : stopPc[j] = "wait" ~> stopPc[j] = "answered"

\* "Worker crash recovery": a row does not stay RUNNING, whatever crashes, errors and
\* cancellations end the coroutine that set it.
RunningSettles == \A j \in Jobs : status[j] = "RUNNING" ~> status[j] \in Terminal

\* Faults that may strand a row in QUEUED; a stop, a timeout or an empty account is none.
Faulted == \E k \in Events \ {"stop", "timeout", "refusal"} : used[k] > 0

\* A job that was enqueued reaches a terminal state unless something fails,
\* whichever way its DELETE request and its timeout fall.
JobSettles == \A j \in Jobs : j \in queue ~> status[j] \in Terminal \/ Faulted

-----------------------------------------------------------------------------
(* What comments and documentation say and the code does not do. *)

\* app.py: "Recover orphaned jobs from a previous crash".  The retry counter of
\* the crashed run makes arq refuse the second one, and the row stays QUEUED.
OrphanIsRecovered ==
    \A a \in ApiProcs, j \in Jobs :
        j \in orphans[a] /\ Idle(j) ~> status[j] \in Terminal

\* README.md: "Job completion or stop -> Credits deducted for actual emails found
\* only".  stop_job cancels twice, and the CancelledError that finds spider.run over
\* leaves the finally block before the deduction, although no commit failed.
DeductedAtEnd ==
    [][\A j \in Jobs, w \in Workers :
          /\ pc[w][j] \in Coroutine /\ pc'[w][j] \notin Coroutine
          /\ found[w][j] /\ ~broken[w][j]
          => charges'[j] > 0]_vars
=============================================================================
