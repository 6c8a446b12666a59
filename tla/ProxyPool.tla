----------------------------- MODULE ProxyPool -----------------------------
(***************************************************************************)
(* ProxyManager (engine/proxy_manager.py): the proxies of one spider, the  *)
(* failures each has had in a row, and the quarantine of those that failed *)
(* too often.  Every method runs to its end under the lock and is one      *)
(* operator; YouTubeAccess makes them part of its steps.                   *)
(*                                                                         *)
(* Every quarantine lasts the same time, so the cooldown stamps matter by  *)
(* their order alone: resting lists the quarantined proxies by expiry.     *)
(* Success rates only weigh a random choice in which every healthy proxy   *)
(* has a chance, and are left out with the counters they come from.        *)
(* Proxies are told apart by their URL; the list names none twice.         *)
(***************************************************************************)
EXTENDS Naturals, Sequences

CONSTANTS
    Proxies,        \* what a job's filters or PROXY_LIST may name
    MaxFailures     \* PROXY_MAX_CONSECUTIVE_FAILURES

Direct == "direct"      \* the empty string: no proxy configured

ASSUME PoolAssumption ==
    /\ MaxFailures \in Nat
    /\ Direct \notin Proxies

VARIABLES
    pool,           \* self._proxies, fixed when the spider is built
    resting,        \* those with a cooldown_until to come, the earliest first
    streak          \* streak[p]: consecutive_failures, counted up to MaxFailures

poolVars == <<pool, resting, streak>>

PoolInit ==
    /\ pool \in SUBSET Proxies
    /\ resting = <<>>
    /\ streak = [p \in pool |-> 0]

Resting == {resting[i] : i \in DOMAIN resting}
Healthy == pool \ Resting

\* get_proxy returns p: a healthy one or, when all rest, the one with the earliest
\* expiry, which is released with a clean record.
GetProxy(p) ==
    /\ UNCHANGED pool
    /\ \/ pool = {} /\ p = Direct /\ UNCHANGED <<resting, streak>>
       \/ p \in Healthy /\ UNCHANGED <<resting, streak>>
       \/ /\ pool # {} /\ Healthy = {}
          /\ p = Head(resting)
          /\ resting' = Tail(resting)
          /\ streak' = [streak EXCEPT ![p] = 0]

\* A success does not end a quarantine that other requests have brought about.
ReportSuccess(p) ==
    /\ streak' = [q \in pool |-> IF q = p THEN 0 ELSE streak[q]]
    /\ UNCHANGED <<pool, resting>>

\* Mutant of ReportFailure: a failure during the quarantine queues it once more.
FailureQueuesTwice(p) ==
    /\ streak' = [q \in pool |-> IF q = p /\ streak[q] < MaxFailures
                                 THEN streak[q] + 1 ELSE streak[q]]
    /\ resting' = IF p \in pool /\ streak'[p] = MaxFailures
                  THEN Append(resting, p) ELSE resting
    /\ UNCHANGED pool

\* The queue with p at its end, wherever it was before.
ToBack(p) ==
    LET n == IF p \in Resting THEN Len(resting) ELSE Len(resting) + 1
        i == IF p \in Resting THEN CHOOSE k \in DOMAIN resting : resting[k] = p ELSE n
    IN [k \in 1..n |-> IF k = n THEN p ELSE IF k < i THEN resting[k] ELSE resting[k + 1]]

\* report_failure and report_rate_limit: from the MaxFailures-th failure in a row on,
\* every one begins the quarantine anew.
ReportFailure(p) ==
    /\ streak' = [q \in pool |-> IF q = p /\ streak[q] < MaxFailures
                                 THEN streak[q] + 1 ELSE streak[q]]
    /\ resting' = IF p \in pool /\ streak'[p] = MaxFailures THEN ToBack(p) ELSE resting
    /\ UNCHANGED pool

\* The earliest cooldown_until has come; the record of failures stays.
CooldownOver ==
    /\ resting # <<>>
    /\ resting' = Tail(resting)
    /\ UNCHANGED <<pool, streak>>

\* The types; no proxy rests twice.
PoolTyped ==
    /\ pool \subseteq Proxies /\ streak \in [pool -> 0..MaxFailures]
    /\ resting \in Seq(pool)
    /\ \A i, k \in DOMAIN resting : resting[i] = resting[k] => i = k
=============================================================================
