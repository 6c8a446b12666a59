------------------------------ MODULE Account ------------------------------
(***************************************************************************)
(* What README.md promises about the credits of one user: the balance only *)
(* changes by debits, each debit takes exactly the emails it pays for, and *)
(* a balance never becomes negative.                                       *)
(***************************************************************************)
EXTENDS Naturals

CONSTANT Opening    \* the balance the user starts with

VARIABLES
    balance,        \* credits left
    debited         \* emails paid for so far

Init == balance = Opening /\ debited = 0

Debit(n) ==
    /\ n \in 1..balance
    /\ balance' = balance - n
    /\ debited' = debited + n

Next == \E n \in 1..balance : Debit(n)

Spec == Init /\ [][Next]_<<balance, debited>>
=============================================================================
