------------------------------ MODULE Retention ------------------------------
(***************************************************************************)
(* retention_worker (queue_manager.py): every API process runs one, and a  *)
(* Redis key with a time to live is to let one of them clean up at a time. *)
(* The key names no owner: whoever has cleaned up deletes it, also when    *)
(* his own has expired and the key is another's.                           *)
(*                                                                         *)
(* The module holds the lock and the cleaners' control; what they do to    *)
(* the rows is in Admission, which extends it.                             *)
(***************************************************************************)
EXTENDS Naturals, FiniteSets

CONSTANTS
    Cleaners,       \* the retention tasks, one per API process
    MaxSlow,        \* clean-ups that outlive the lock's TTL (bounds TLC)
    MaxFailures     \* clean-ups that end in an exception (bounds TLC)

ASSUME RetentionAssumption ==
    /\ IsFiniteSet(Cleaners)
    /\ {MaxSlow, MaxFailures} \subseteq Nat

VARIABLES
    lock,           \* LOCK_KEY exists
    cleaner,        \* cleaner[c]: where the task of process c stands
    slow,           \* how often the key expired under a clean-up
    failures

retentionVars == <<lock, cleaner, slow, failures>>

\* "absent" is a process the instance does not have.
CleanerStates == {"absent", "asleep", "expired", "hung", "release"}

Cleaning == {c \in Cleaners : cleaner[c] \in {"expired", "hung", "release"}}

At(c, here) == cleaner[c] = here
Go(c, there) == cleaner' = [cleaner EXCEPT ![c] = there]

RetentionTypeOK ==
    /\ lock \in BOOLEAN
    /\ cleaner \in [Cleaners -> CleanerStates]
    /\ slow \in 0..MaxSlow
    /\ failures \in 0..MaxFailures

\* The lifespan of every API process in D has started its task.
RetentionInit(D) ==
    /\ lock = FALSE
    /\ cleaner = [c \in Cleaners |-> IF c \in D THEN "asleep" ELSE "absent"]
    /\ slow = 0 /\ failures = 0

-----------------------------------------------------------------------------
\* Mutant of Acquire: SET without NX.
AcquireAnyhow(c) ==
    /\ At(c, "asleep")
    /\ lock' = TRUE
    /\ Go(c, "expired")
    /\ UNCHANGED <<slow, failures>>

\* The hour is over and SET NX finds no key.  A task that finds one sleeps on.
Acquire(c) ==
    /\ At(c, "asleep") /\ ~lock
    /\ lock' = TRUE
    /\ Go(c, "expired")
    /\ UNCHANGED <<slow, failures>>

\* The time to live ends, after the task that set the key failed or, at most MaxSlow
\* times, while a clean-up is still going on.
LockExpires ==
    /\ lock
    /\ lock' = FALSE
    /\ \/ Cleaning = {} /\ UNCHANGED slow
       \/ Cleaning # {} /\ slow < MaxSlow /\ slow' = slow + 1
    /\ UNCHANGED <<cleaner, failures>>

\* DELETE, whosever key it is.
Release(c) ==
    /\ At(c, "release")
    /\ lock' = FALSE
    /\ Go(c, "asleep")
    /\ UNCHANGED <<slow, failures>>

\* An exception in the middle: it is logged, and the key is left to its TTL.
CleanerFails(c) ==
    /\ c \in Cleaning /\ failures < MaxFailures
    /\ failures' = failures + 1
    /\ Go(c, "asleep")
    /\ UNCHANGED <<lock, slow>>

-----------------------------------------------------------------------------
\* A clean-up that outlives its lock lets one more in beside it, however long the
\* chain of cleaners that delete each other's keys becomes.
OverlapBounded == Cardinality(Cleaning) <= 1 + slow
=============================================================================
