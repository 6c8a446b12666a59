----------------------------- MODULE Execution -----------------------------
(***************************************************************************)
(* What README.md promises about the execution of jobs: one worker at a    *)
(* time runs a job, the credits for it are taken once, by the run that     *)
(* found something, and a job that was paid for is not run again.          *)
(***************************************************************************)
EXTENDS Naturals

CONSTANTS Workers, Jobs

VARIABLES
    runners,    \* runners[j]: the worker that runs j, in a set, or no one
    fruitful,   \* jobs whose current run has found an e-mail
    charges     \* charges[j]: how often the credits of j were taken

Init ==
    /\ runners = [j \in Jobs |-> {}]
    /\ fruitful = {}
    /\ charges = [j \in Jobs |-> 0]

Begin(w, j) ==
    /\ runners[j] = {} /\ charges[j] = 0
    /\ runners' = [runners EXCEPT ![j] = {w}]
    /\ UNCHANGED <<fruitful, charges>>

Find(j) ==
    /\ charges[j] = 0 /\ runners[j] # {}
    /\ fruitful' = fruitful \union {j}
    /\ UNCHANGED <<runners, charges>>

\* The runs of these jobs are over.
End(ended) ==
    /\ runners' = [j \in Jobs |-> IF j \in ended THEN {} ELSE runners[j]]
    /\ fruitful' = fruitful \ ended

\* A worker that dies ends all of its runs.
Stop(ended) == ended # {} /\ End(ended) /\ UNCHANGED charges

\* A cancelled run may take the credits in its last step.
Charge(j) ==
    /\ charges[j] = 0 /\ j \in fruitful
    /\ charges' = [charges EXCEPT ![j] = 1]
    /\ End({}) \/ End({j})

Next ==
    \/ \E j \in Jobs : Find(j) \/ Charge(j) \/ \E w \in Workers : Begin(w, j)
    \/ \E ended \in SUBSET Jobs : Stop(ended)

Spec == Init /\ [][Next]_<<runners, fruitful, charges>>
=============================================================================
