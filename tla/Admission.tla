------------------------------ MODULE Admission ------------------------------
(***************************************************************************)
(* The way of POST /api/start through one of the API processes:            *)
(* get_current_user with its lazy provisioning (dependencies.py, auth.py), *)
(* the credit check, the limit of active jobs per user and the insertion   *)
(* of the row (scraper_routes.py), for requests that run at the same time. *)
(* Beside them the hourly clean-up deletes expired rows (queue_manager.py).*)
(*                                                                         *)
(* A job row is reduced to what the limit and the clean-up see of it; the  *)
(* steps by which a row ends, or becomes active again after it has ended,  *)
(* are JobLifecycle's and may happen here at any time.                     *)
(***************************************************************************)
EXTENDS Retention

CONSTANTS
    Ids,            \* user ids, the "sub" of the tokens
    Emails,
    EmailOf,        \* EmailOf[u]: the address in u's tokens
    Callers,        \* the users who send requests
    Requests,       \* requests that may be under way at once
    Jobs,           \* ids of rows (bounds TLC)
    FreeLimit,      \* active jobs a free user may have (1)
    PaidLimit,      \* ... and a user with paid credits or the add-on (3)
    MaxRevived,     \* rows active again after their end (bounds TLC)
    Deployments,    \* the requests and cleaners of one behaviour (bounds TLC)
    Initial         \* the rows of users there may be at the beginning

Plans == {"addon", "paid", "free", "spent"}

ASSUME AdmissionAssumption ==
    /\ Ids # {} /\ Callers \subseteq Ids /\ MaxRevived \in Nat
    /\ EmailOf \in [Ids -> Emails]
    /\ IsFiniteSet(Requests) /\ IsFiniteSet(Jobs)
    /\ FreeLimit \in Nat \ {0} /\ PaidLimit \in Nat /\ FreeLimit <= PaidLimit
    /\ Initial \subseteq [Ids -> Plans \union {"absent"}]
    /\ \A a \in Initial : \A u, v \in Ids :
          a[u] # "absent" /\ a[v] # "absent" /\ EmailOf[u] = EmailOf[v] => u = v

VARIABLES
    account,    \* account[u]: the users row, reduced to its plan, or "absent"
    granted,    \* granted[u]: the plan u's row began with, or "absent"
    pc,         \* pc[r]: where request r stands
    caller,     \* caller[r]: the user of its token
    loaded,     \* loaded[r]: the plan in the User object of its session
    status,     \* status[j]: "absent", "active", "ended" or "revived"
    owner,      \* owner[j]
    expires     \* expires[j]: "never", "later" or "due"

requestVars == <<pc, caller, loaded>>
rowVars     == <<status, owner, expires>>
vars == <<account, granted, requestVars, rowVars, retentionVars>>

RequestStates == {"absent", "idle", "lookup", "insert", "refetch", "failed",
                  "count", "commit"}

LimitOf(plan) == IF plan \in {"addon", "paid"} THEN PaidLimit ELSE FreeLimit

RequestsPresent == {r \in Requests : pc[r] # "absent"}

Init ==
    /\ \E D \in Deployments :
          /\ RetentionInit(D)
          /\ pc = [r \in Requests |-> IF r \in D THEN "idle" ELSE "absent"]
    /\ account \in Initial
    /\ granted = account
    /\ caller = [r \in Requests |-> CHOOSE u \in Ids : TRUE]
    /\ loaded = [r \in Requests |-> "free"]
    /\ status = [j \in Jobs |-> "absent"]
    /\ owner = [j \in Jobs |-> CHOOSE u \in Ids : TRUE]
    /\ expires = [j \in Jobs |-> "never"]

Fresh == {j \in Jobs : status[j] = "absent"}
Active(u) == {j \in Jobs : status[j] \in {"active", "revived"} /\ owner[j] = u}

-----------------------------------------------------------------------------
(* get_current_user *)

Move(r, there) == pc' = [pc EXCEPT ![r] = there]

\* The answer is sent and the session with its User object closed.
Answer(r) ==
    /\ Move(r, "idle")
    /\ loaded' = [loaded EXCEPT ![r] = "free"]

\* A token was accepted.
Arrive(r, u) ==
    /\ pc[r] = "idle"
    /\ caller' = [caller EXCEPT ![r] = u]
    /\ Move(r, "lookup")
    /\ UNCHANGED <<account, granted, loaded, rowVars, retentionVars>>

\* The session now has the row; without credits the answer is 402.
Admit(r) ==
    IF account[caller[r]] = "spent"
    THEN Answer(r)
    ELSE /\ loaded' = [loaded EXCEPT ![r] = account[caller[r]]]
         /\ Move(r, "count")

\* get_user_by_id.
Lookup(r) ==
    /\ pc[r] = "lookup"
    /\ IF account[caller[r]] = "absent"
       THEN Move(r, "insert") /\ UNCHANGED loaded
       ELSE Admit(r)
    /\ UNCHANGED <<account, granted, caller, rowVars, retentionVars>>

\* The primary key or the unique index on the address refuses the row.
Conflict(u) == \E v \in Ids : account[v] # "absent" /\ EmailOf[v] = EmailOf[u]

\* Mutant of Insert: the violated index is not handled.
InsertUnhandled(r) ==
    /\ pc[r] = "insert"
    /\ IF Conflict(caller[r])
       THEN UNCHANGED <<account, granted>>
       ELSE /\ account' = [account EXCEPT ![caller[r]] = "free"]
            /\ granted' = [granted EXCEPT ![caller[r]] = "free"]
    /\ Move(r, IF Conflict(caller[r]) THEN "failed" ELSE "refetch")
    /\ UNCHANGED <<caller, loaded, rowVars, retentionVars>>

\* create_local_user: INSERT and commit, or IntegrityError and rollback.
Insert(r) ==
    /\ pc[r] = "insert"
    /\ IF Conflict(caller[r])
       THEN UNCHANGED <<account, granted>>
       ELSE /\ account' = [account EXCEPT ![caller[r]] = "free"]
            /\ granted' = [granted EXCEPT ![caller[r]] = "free"]
    /\ Move(r, "refetch")
    /\ UNCHANGED <<caller, loaded, rowVars, retentionVars>>

\* Mutant of Refetch: nobody asks whether there is a row.
RefetchUnchecked(r) ==
    /\ pc[r] = "refetch"
    /\ Admit(r)
    /\ UNCHANGED <<account, granted, caller, rowVars, retentionVars>>

\* db.refresh after the commit, get_user_by_id after the rollback: the winner of a
\* race, or an exception if the address is another user's.
Refetch(r) ==
    /\ pc[r] = "refetch"
    /\ IF account[caller[r]] = "absent"
       THEN Move(r, "failed") /\ UNCHANGED loaded
       ELSE Admit(r)
    /\ UNCHANGED <<account, granted, caller, rowVars, retentionVars>>

Answer500(r) ==
    /\ pc[r] = "failed"
    /\ Answer(r)
    /\ UNCHANGED <<account, granted, caller, rowVars, retentionVars>>

-----------------------------------------------------------------------------
(* start_job *)

\* Mutant of Count: a request is refused above the limit, not at it.
CountAbove(r) ==
    /\ pc[r] = "count"
    /\ IF Cardinality(Active(caller[r])) > LimitOf(loaded[r])
       THEN Answer(r)
       ELSE Move(r, "commit") /\ UNCHANGED loaded
    /\ UNCHANGED <<account, granted, caller, rowVars, retentionVars>>

\* The SELECT count(*) of QUEUED and RUNNING rows; at the limit the answer is 429.
Count(r) ==
    /\ pc[r] = "count"
    /\ IF Cardinality(Active(caller[r])) >= LimitOf(loaded[r])
       THEN Answer(r)
       ELSE Move(r, "commit") /\ UNCHANGED loaded
    /\ UNCHANGED <<account, granted, caller, rowVars, retentionVars>>

\* Mutant of Retained: rows of paying users are kept as well.
RetainedUnlessFree(plan) == IF plan = "free" THEN "later" ELSE "never"

\* expires_at of a new row.
Retained(plan) == IF plan = "addon" THEN "never" ELSE "later"

\* The row is committed.  Whether its job is enqueued after that changes no row.
CommitJob(r) ==
    /\ pc[r] = "commit"
    /\ Fresh # {}
    /\ LET j == CHOOSE i \in Fresh : TRUE
       IN  /\ status' = [status EXCEPT ![j] = "active"]
           /\ owner' = [owner EXCEPT ![j] = caller[r]]
           /\ expires' = [expires EXCEPT ![j] = Retained(loaded[r])]
    /\ Answer(r)
    /\ UNCHANGED <<account, granted, caller, retentionVars>>

-----------------------------------------------------------------------------
(* The rest of a job's life, see JobLifecycle and CreditLedger. *)

\* The plans that deductions leave of what the row began with.
Lower(plan) ==
    CASE plan = "addon" -> {"addon", "spent"}
      [] plan = "paid"  -> {"paid", "free", "spent"}
      [] plan = "free"  -> {"free", "spent"}
      [] OTHER          -> {plan}

\* Completed, stopped, failed or hung.
JobEnds(j) ==
    /\ status[j] \in {"active", "revived"}
    /\ status' = [status EXCEPT ![j] = "ended"]
    /\ UNCHANGED <<account, granted, requestVars, owner, expires, retentionVars>>

\* deduct_credits, after the row has ended: absolute values, from an object loaded when
\* the job began.  Where jobs of the user overlap they may put back what another job has
\* taken (run credit_race), never more than the row began with.
Deduct(j) ==
    /\ status[j] \in {"ended", "revived"}
    /\ \E p \in Lower(granted[owner[j]]) : account' = [account EXCEPT ![owner[j]] = p]
    /\ UNCHANGED <<granted, requestVars, rowVars, retentionVars>>

\* The worker's RUNNING, or a boot's QUEUED, is written over a final status.
JobRevives(j) ==
    /\ status[j] = "ended"
    /\ Cardinality({i \in Jobs : status[i] = "revived"}) < MaxRevived
    /\ status' = [status EXCEPT ![j] = "revived"]
    /\ UNCHANGED <<account, granted, requestVars, owner, expires, retentionVars>>

\* Seven days have passed.
FallsDue(j) ==
    /\ status[j] # "absent" /\ expires[j] = "later"
    /\ expires' = [expires EXCEPT ![j] = "due"]
    /\ UNCHANGED <<account, granted, requestVars, status, owner, retentionVars>>

-----------------------------------------------------------------------------
(* The clean-up's two passes over the rows. *)

\* Mutant of Overdue: a row that has not ended is spared.
OverdueEnded == {j \in Jobs : expires[j] = "due" /\ status[j] = "ended"}

Overdue == {j \in Jobs : expires[j] = "due"}

\* cleanup_expired_data: all expired rows, whatever their status.
CleanExpired(c) ==
    /\ At(c, "expired")
    /\ status' = [j \in Jobs |-> IF j \in Overdue THEN "absent" ELSE status[j]]
    /\ expires' = [j \in Jobs |-> IF j \in Overdue THEN "never" ELSE expires[j]]
    /\ Go(c, "hung")
    /\ UNCHANGED <<account, granted, requestVars, owner, lock, slow, failures>>

\* cleanup_hung_jobs writes ERROR into rows it has read as RUNNING; they may have
\* ended or been queued again since.
CleanHung(c) ==
    /\ At(c, "hung")
    /\ \E S \in SUBSET {j \in Jobs : status[j] # "absent"} :
          status' = [j \in Jobs |-> IF j \in S THEN "ended" ELSE status[j]]
    /\ Go(c, "release")
    /\ UNCHANGED <<account, granted, requestVars, owner, expires, lock, slow, failures>>

\* The steps that touch the lock only.
Keep == UNCHANGED <<account, granted, requestVars, rowVars>>
CleanerStep(c) ==
    \/ Acquire(c) /\ Keep
    \/ CleanExpired(c)
    \/ CleanHung(c)
    \/ Release(c) /\ Keep

TtlEnds == LockExpires /\ Cleaning = {} /\ Keep

RequestStep(r) ==
    \/ \E u \in Callers : Arrive(r, u)
    \/ Lookup(r) \/ Insert(r) \/ Refetch(r) \/ Answer500(r)
    \/ Count(r) \/ CommitJob(r)

JobStep(j) == JobEnds(j) \/ Deduct(j) \/ JobRevives(j) \/ FallsDue(j)

Next ==
    \/ \E r \in Requests : RequestStep(r)
    \/ \E j \in Jobs : JobStep(j)
    \/ \E c \in Cleaners : CleanerStep(c) \/ (CleanerFails(c) /\ Keep)
    \/ LockExpires /\ Keep

\* Time passes and the clean-up tasks run; nobody has to send a request, and no
\* job has to end.
Fairness ==
    /\ \A j \in Jobs : WF_vars(FallsDue(j))
    /\ \A c \in Cleaners : WF_vars(CleanerStep(c))
    /\ WF_vars(TtlEnds)

Spec == Init /\ [][Next]_vars
FairSpec == Spec /\ Fairness

-----------------------------------------------------------------------------
TypeOK ==
    /\ RetentionTypeOK
    /\ account \in [Ids -> Plans \union {"absent"}]
    /\ granted \in [Ids -> Plans \union {"absent"}]
    /\ pc \in [Requests -> RequestStates]
    /\ caller \in [Requests -> Ids]
    /\ loaded \in [Requests -> Plans]
    /\ status \in [Jobs -> {"absent", "active", "ended", "revived"}]
    /\ owner \in [Jobs -> Ids]
    /\ expires \in [Jobs -> {"never", "later", "due"}]

\* Rows of u that have not ended yet, and rows that are about to be inserted.
Unended(u)  == {j \in Jobs : status[j] = "active" /\ owner[j] = u}
Admitted(u) == {r \in Requests : pc[r] = "commit" /\ caller[r] = u}

\* The count is taken before the rows of concurrent requests are committed: a user
\* can pass the limit his row began with, but by no more than the requests under way less
\* one, and by the rows that were written active again after they had ended; a balance
\* that a stale deduction puts back gives him no higher one.
JobLimit ==
    \A u \in Ids :
        Cardinality(Unended(u)) + Cardinality(Admitted(u))
            <= LimitOf(granted[u]) - 1 + Cardinality(RequestsPresent)

\* Of several first requests of a user one inserts the row and all go on with it.
\* Provisioning fails only if another user has the address.
FailsOnlyIfTaken ==
    \A r \in Requests : pc[r] = "failed" =>
        \E v \in Ids \ {caller[r]} :
            account[v] # "absent" /\ EmailOf[v] = EmailOf[caller[r]]

\* Whatever fails, and whoever deletes whose lock, an expired row goes.
ExpiredAreDeleted ==
    \A j \in Jobs : expires[j] = "due" ~> expires[j] # "due"

\* Rows nobody will ever run again count against the limit, and only the row's
\* expiry frees the place: a user without the add-on gets it back, or a request of his
\* is let in although it is taken, on a better plan that was read before.
NotLockedOut ==
    \A u \in Ids :
        []<>(\/ account[u] \in {"addon", "spent"}
             \/ Cardinality(Active(u)) < LimitOf(account[u])
             \/ Admitted(u) # {})
=============================================================================
