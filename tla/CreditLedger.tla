---------------------------- MODULE CreditLedger ----------------------------
(***************************************************************************)
(* The credits of one user, from the cap that start_job puts on a job to   *)
(* deduct_credits and track_usage in the finally block of the worker.      *)
(*                                                                         *)
(* Every job runs in a session of its own.  The session loads the User row *)
(* when the job starts; the SELECT ... FOR UPDATE at the end locks the row *)
(* but returns the object the session already holds, with the values it    *)
(* had then: SQLAlchemy does not refresh a loaded object, and the session  *)
(* factory sets expire_on_commit=False.  A commit writes the columns whose *)
(* value differs from the loaded one, as absolute numbers.                 *)
(***************************************************************************)
EXTENDS Naturals, FiniteSets

CONSTANTS
    Jobs,           \* the jobs of the user
    Slots,          \* jobs that run at the same time, over all workers
    OpeningFree,    \* free_credits of the account
    OpeningPaid,    \* paid_credits of the account
    MaxWanted,      \* largest maxEmails of a request
    FreeCap,        \* cap on a job of a free user
    PaidCap,        \* cap on a job of a paying user
    HasAddon        \* has_db_addon

ASSUME ConstantsAssumption ==
    /\ IsFiniteSet(Jobs)
    /\ {Slots, OpeningFree, OpeningPaid, MaxWanted, FreeCap, PaidCap} \subseteq Nat
    /\ HasAddon \in BOOLEAN

NoOne == "nobody"
Credits == [free : Nat, paid : Nat]
Total(c) == c.free + c.paid

VARIABLES
    row,        \* the committed columns of the User row
    lock,       \* the job whose transaction holds the row lock, or NoOne
    usage,      \* credits_used of the month's Usage row; exists is FALSE without one
    pc,         \* where each job stands
    cap,        \* cap[j]: Job.max_emails
    snap,       \* snap[j]: the User object in the session of j
    count,      \* count[j]: email_count_tracker[0]
    seen,       \* seen[j]: the Usage row as j's session read it
    debited,    \* emails deducted so far, over all jobs (history)
    overlapped  \* jobs that were in a slot while another one was (history)

userVars == <<row, lock, usage>>
jobVars  == <<pc, cap, snap, count, seen>>
history  == <<debited, overlapped>>
vars     == <<userVars, jobVars, history>>

Steps == {"new", "queued", "running", "ended", "locked", "settled", "tracking", "done"}
Usage == [exists : BOOLEAN, used : Nat]
NoUsage == [exists |-> FALSE, used |-> 0]
Opening == [free |-> OpeningFree, paid |-> OpeningPaid]

Init ==
    /\ row = Opening /\ lock = NoOne /\ usage = NoUsage
    /\ pc = [j \in Jobs |-> "new"]
    /\ cap = [j \in Jobs |-> 0]
    /\ snap = [j \in Jobs |-> Opening]
    /\ count = [j \in Jobs |-> 0]
    /\ seen = [j \in Jobs |-> NoUsage]
    /\ debited = 0 /\ overlapped = {}

Go(j, to) == pc' = [pc EXCEPT ![j] = to]

Least(m, n) == IF m <= n THEN m ELSE n

\* start_job: 402 without credits, else the cap on the job.
TierCap == IF row.paid = 0 /\ ~HasAddon THEN FreeCap ELSE PaidCap

StartJob(j, wanted) ==
    /\ pc[j] = "new" /\ Total(row) > 0
    /\ cap' = [cap EXCEPT ![j] = Least(wanted, Least(Total(row), TierCap))]
    /\ Go(j, "queued")
    /\ UNCHANGED <<userVars, snap, count, seen, history>>

\* Mutant of InSlot: the slot is free once the final status is committed.
RunsSpider(j) == pc[j] = "running"

\* A coroutine keeps its slot until it returns.
InSlot(j) == pc[j] \notin {"new", "queued", "done"}

Running == {j \in Jobs : InSlot(j)}

\* A worker slot becomes free and the coroutine SELECTs its user.
LoadUser(j) ==
    /\ pc[j] = "queued"
    /\ Cardinality(Running) < Slots
    /\ snap' = [snap EXCEPT ![j] = row]
    /\ overlapped' = IF Running = {} THEN overlapped ELSE overlapped \union Running \union {j}
    /\ Go(j, "running")
    /\ UNCHANGED <<userVars, cap, count, seen, debited>>

\* The spider is over with n emails and the final status is committed.
EndJob(j, n) ==
    /\ pc[j] = "running"
    /\ count' = [count EXCEPT ![j] = n]
    /\ Go(j, IF n > 0 THEN "ended" ELSE "done")
    /\ UNCHANGED <<userVars, cap, snap, seen, history>>

\* SELECT ... FOR UPDATE
LockUser(j) ==
    /\ pc[j] = "ended" /\ lock = NoOne
    /\ lock' = j
    /\ Go(j, "locked")
    /\ UNCHANGED <<row, usage, cap, snap, count, seen, history>>

\* Mutant of Deducted: paid credits are used up first.
PaidFirst(c, n) ==
    IF c.paid >= n THEN [c EXCEPT !.paid = @ - n]
    ELSE [paid |-> 0, free |-> c.free - (n - c.paid)]

\* The two columns after a deduction of n credits.
Deducted(c, n) ==
    IF c.free >= n THEN [c EXCEPT !.free = @ - n]
    ELSE [free |-> 0, paid |-> c.paid - (n - c.free)]

\* The UPDATE sets the columns that changed in the object.
Write(old, new) ==
    [free |-> IF new.free = old.free THEN row.free ELSE new.free,
     paid |-> IF new.paid = old.paid THEN row.paid ELSE new.paid]

\* Mutant of Deduct: the total is not compared with the count.
DeductUnchecked(j) ==
    LET after == Deducted(snap[j], count[j]) IN
    /\ pc[j] = "locked"
    /\ row' = Write(snap[j], after)
    /\ snap' = [snap EXCEPT ![j] = after]
    /\ debited' = debited + count[j]
    /\ lock' = NoOne
    /\ Go(j, "settled")
    /\ UNCHANGED <<usage, cap, count, seen, overlapped>>

\* Mutant of Deduct: the job is charged for the emails it was allowed to find.
DeductCap(j) ==
    LET after == Deducted(snap[j], cap[j]) IN
    /\ pc[j] = "locked" /\ Total(snap[j]) >= cap[j]
    /\ row' = Write(snap[j], after)
    /\ snap' = [snap EXCEPT ![j] = after]
    /\ debited' = debited + count[j]
    /\ lock' = NoOne
    /\ Go(j, "settled")
    /\ UNCHANGED <<usage, cap, count, seen, overlapped>>

\* deduct_credits: its commit ends the transaction and releases the row.
Deduct(j) ==
    LET after == Deducted(snap[j], count[j]) IN
    /\ pc[j] = "locked" /\ Total(snap[j]) >= count[j]
    /\ row' = Write(snap[j], after)
    /\ snap' = [snap EXCEPT ![j] = after]
    /\ debited' = debited + count[j]
    /\ lock' = NoOne
    /\ Go(j, "settled")
    /\ UNCHANGED <<usage, cap, count, seen, overlapped>>

\* Mutant of DeductRefused: what is left is taken, without a word.
DeductRest(j) ==
    /\ pc[j] = "locked" /\ Total(snap[j]) < count[j]
    /\ row' = [free |-> 0, paid |-> 0]
    /\ lock' = NoOne
    /\ Go(j, "settled")
    /\ UNCHANGED <<usage, cap, snap, count, seen, history>>

\* deduct_credits returns False: nothing is taken and the row stays locked.
DeductRefused(j) ==
    /\ pc[j] = "locked" /\ Total(snap[j]) < count[j]
    /\ Go(j, "settled")
    /\ UNCHANGED <<userVars, cap, snap, count, seen, history>>

\* track_usage: the SELECT, then the commit of an absolute value.  It runs
\* whatever deduct_credits returned.
ReadUsage(j) ==
    /\ pc[j] = "settled"
    /\ seen' = [seen EXCEPT ![j] = usage]
    /\ Go(j, "tracking")
    /\ UNCHANGED <<userVars, cap, snap, count, history>>

\* Mutant of WriteUsage: the count is added once as emails and once as credits.
WriteUsageTwice(j) ==
    /\ pc[j] = "tracking"
    /\ usage' = [exists |-> TRUE, used |-> seen[j].used + 2 * count[j]]
    /\ lock' = IF lock = j THEN NoOne ELSE lock
    /\ Go(j, "done")
    /\ UNCHANGED <<row, cap, snap, count, seen, history>>

\* Two sessions that both saw no row insert one each, and the unique index
\* refuses the second; the exception is logged and the rollback releases the row.
WriteUsage(j) ==
    /\ pc[j] = "tracking"
    /\ usage' = IF ~seen[j].exists /\ usage.exists THEN usage
                ELSE [exists |-> TRUE, used |-> seen[j].used + count[j]]
    /\ lock' = IF lock = j THEN NoOne ELSE lock
    /\ Go(j, "done")
    /\ UNCHANGED <<row, cap, snap, count, seen, history>>

\* A CancelledError, a database error or a crash in the finally block: the rest
\* is skipped and the open transaction is rolled back.
Interrupted(j) ==
    /\ pc[j] \in {"ended", "locked", "settled", "tracking"}
    /\ lock' = IF lock = j THEN NoOne ELSE lock
    /\ Go(j, "done")
    /\ UNCHANGED <<row, usage, cap, snap, count, seen, history>>

Next ==
    \E j \in Jobs :
        \/ \E wanted \in 1..MaxWanted : StartJob(j, wanted)
        \/ LoadUser(j)
        \/ \E n \in 0..cap[j] : EndJob(j, n)
        \/ LockUser(j) \/ Deduct(j) \/ DeductRefused(j)
        \/ ReadUsage(j) \/ WriteUsage(j) \/ Interrupted(j)

Spec == Init /\ [][Next]_vars

-----------------------------------------------------------------------------
TypeOK ==
    /\ row \in Credits
    /\ lock \in Jobs \union {NoOne}
    /\ usage \in Usage
    /\ pc \in [Jobs -> Steps]
    /\ cap \in [Jobs -> Nat]
    /\ snap \in [Jobs -> Credits]
    /\ count \in [Jobs -> Nat]
    /\ seen \in [Jobs -> Usage]
    /\ debited \in Nat
    /\ overlapped \subseteq Jobs

\* However stale the objects that finishing jobs deduct from, and however many
\* jobs finish together: the balance never goes down by more than was deducted.
NeverOvercharged == Total(row) + debited >= OpeningFree + OpeningPaid

\* The emails that the jobs of a set found.
Emails(js) == UNION {{j} \X (1..count[j]) : j \in js}

\* Monthly usage counts emails that were found by jobs that are over, and none of
\* them twice, although several jobs read and write the Usage row without a lock.
UsageNeverExceeds == usage.used <= Cardinality(Emails({j \in Jobs : pc[j] = "done"}))

\* The account that README.md describes: every change of the balance is the debit of the
\* emails one job found.
AccountSpec == INSTANCE Account WITH
    Opening <- OpeningFree + OpeningPaid, balance <- Total(row), debited <- debited

\* However many slots there are: a job that met no other job of its user in them pays for
\* exactly what it found, "free credits first, then paid" (README.md), or for nothing if
\* it found more than there is.
ExactWhenAlone ==
    [][\A j \in Jobs \ overlapped : pc[j] = "locked" /\ pc'[j] = "settled" =>
          \/ AccountSpec!Debit(count[j]) /\ (row'.paid < row.paid => row'.free = 0)
          \/ Total(row) < count[j] /\ UNCHANGED <<row, debited>>]_vars

\* While the jobs of the user take turns, as they do in one slot, the ledger implements
\* that account.  (The limit of one active job does not make them: a row is ended before
\* its deduction.)
ImplementsAccount == AccountSpec!Spec

-----------------------------------------------------------------------------
(* What comments and documentation say and the code does not do. *)

\* worker.py: "Deduct from DB with row-level lock to prevent race condition when
\* multiple concurrent jobs finish for the same user".
DeductionsAddUp == Total(row) + debited = OpeningFree + OpeningPaid
=============================================================================
