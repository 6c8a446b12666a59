--------------------------- MODULE MCJobLifecycle ---------------------------
(* Instances of JobLifecycle for TLC. *)
EXTENDS JobLifecycle, TLC

CONSTANT u1

MCUsers == {u1}

\* Every job belongs to u1, who is on the free tier.
MCOwner   == [j \in Jobs |-> u1]
FreeLimit == [u \in Users |-> 1]

\* Every event happens at most once, API restarts twice, and no job_timeout: to arq it
\* is one more cancellation that ends the job, as the abort of a stop request is.
FaultsAndRestarts ==
    [k \in Events |-> CASE k = "boot" -> 2 [] k = "timeout" -> 0 [] OTHER -> 1]
\* Every event happens at most once, but no API restart.
NoRestart == [k \in Events |-> IF k = "boot" THEN 0 ELSE 1]
\* One worker crash and one API restart.
CrashAndRestart == [k \in Events |-> IF k \in {"boot", "crash"} THEN 1 ELSE 0]
\* One DELETE request and nothing else.
JustStop == [k \in Events |-> IF k = "stop" THEN 1 ELSE 0]

Symmetry == Permutations(Workers) \union Permutations(ApiProcs)
=============================================================================
