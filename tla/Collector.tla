----------------------------- MODULE Collector -----------------------------
(***************************************************************************)
(* What a job promises about the e-mails it collects: one after another,   *)
(* each address once, no more than were asked for, and none once the run   *)
(* is over.                                                                *)
(***************************************************************************)
EXTENDS Naturals

CONSTANTS Emails, MaxEmails

VARIABLES
    rows,       \* the addresses collected
    tracker,    \* how many the job is charged for
    open        \* the run goes on

vars == <<rows, tracker, open>>

Init == rows = {} /\ tracker = 0 /\ open = TRUE

Collect(e) ==
    /\ open /\ e \notin rows /\ tracker < MaxEmails
    /\ rows' = rows \union {e}
    /\ tracker' = tracker + 1
    /\ UNCHANGED open

Close == open /\ open' = FALSE /\ UNCHANGED <<rows, tracker>>

Next == Close \/ \E e \in Emails : Collect(e)

Spec == Init /\ [][Next]_vars
=============================================================================
