------------------------- MODULE CreditLedgerProofs -------------------------
(***************************************************************************)
(* Theorems about CreditLedger, for any number of jobs and slots, any      *)
(* opening balance and any caps.  Where jobs of the user overlap, a        *)
(* deduction may be lost (run credit_race) but none is made twice          *)
(* (NeverOverchargedAlways), and each job that ran alone is charged        *)
(* exactly (ExactWhenAloneAlways).                                         *)
(***************************************************************************)
EXTENDS CreditLedger, FiniteSetTheorems, TLAPS

USE ConstantsAssumption

\* A job whose session holds the User object that it will deduct from.
Holding(j) == pc[j] \in {"running", "ended", "locked"}

\* The two bounds a stale object respects.  The second is there because the
\* UPDATE leaves a column alone that the session did not change: then the free
\* credits come from the object and the paid credits from another job.
Bounded ==
    /\ NeverOvercharged
    /\ \A j \in Jobs : Holding(j) =>
          /\ Total(snap[j]) + debited >= OpeningFree + OpeningPaid
          /\ snap[j].free + row.paid + debited >= OpeningFree + OpeningPaid

\* Two jobs in slots at one time have overlapped; the object of a job that has
\* not is the row; what a job found is at least one email once it gets to the
\* deduction.
Alone ==
    /\ \A j, k \in Jobs : InSlot(j) /\ InSlot(k) /\ j # k => j \in overlapped
    /\ \A j \in Jobs : Holding(j) /\ j \notin overlapped => snap[j] = row
    /\ \A j \in Jobs : pc[j] \in {"ended", "locked"} => count[j] > 0

-----------------------------------------------------------------------------
(* Arithmetic of one deduction *)

\* deduct_credits takes exactly n from the two columns, and never goes below 0.
LEMMA DeductedTakes ==
    ASSUME NEW c \in Credits, NEW n \in Nat, Total(c) >= n
    PROVE  Deducted(c, n) \in Credits /\ Total(Deducted(c, n)) = Total(c) - n
BY DEF Deducted, Total, Credits

\* A commit writes both columns or leaves one of them to the row.
LEMMA WriteType ==
    ASSUME NEW old \in Credits, NEW new \in Credits, row \in Credits
    PROVE  Write(old, new) \in Credits
BY DEF Write, Credits

\* A session whose object is the row writes what it computed.
LEMMA WriteFresh ==
    ASSUME NEW new \in Credits, row \in Credits
    PROVE  Write(row, new) = new
BY DEF Write, Credits

-----------------------------------------------------------------------------
(* Typing *)

\* Every step keeps the variables in their types; in particular no balance ever
\* becomes negative.
LEMMA TypeStep ==
    ASSUME TypeOK, [Next]_vars
    PROVE  TypeOK'
<1> USE DEF TypeOK, Go, Usage, Steps, userVars, history
<1>1. CASE UNCHANGED vars
  BY <1>1 DEF vars, jobVars
<1>2. ASSUME NEW j \in Jobs, NEW wanted \in 1..MaxWanted, StartJob(j, wanted)
      PROVE  TypeOK'
  <2>1. Total(row) \in Nat
    BY DEF Total, Credits
  <2>2. Least(wanted, Least(Total(row), TierCap)) \in Nat
    BY <2>1 DEF Least, TierCap
  <2> QED
    BY <1>2, <2>2 DEF StartJob
<1>3. ASSUME NEW j \in Jobs, LoadUser(j)
      PROVE  TypeOK'
  BY <1>3 DEF LoadUser, Running
<1>4. ASSUME NEW j \in Jobs, NEW n \in 0..cap[j], EndJob(j, n)
      PROVE  TypeOK'
  <2>1. n \in Nat
    OBVIOUS
  <2> QED
    BY <1>4, <2>1 DEF EndJob
<1>5. ASSUME NEW j \in Jobs, LockUser(j)
      PROVE  TypeOK'
  BY <1>5 DEF LockUser
<1>6. ASSUME NEW j \in Jobs, Deduct(j)
      PROVE  TypeOK'
  <2>1. snap[j] \in Credits /\ count[j] \in Nat
    OBVIOUS
  <2>2. Deducted(snap[j], count[j]) \in Credits
    BY <1>6, <2>1, DeductedTakes DEF Deduct
  <2>3. row' \in Credits
    BY <1>6, <2>1, <2>2, WriteType DEF Deduct
  <2> QED
    BY <1>6, <2>1, <2>2, <2>3 DEF Deduct
<1>7. ASSUME NEW j \in Jobs, DeductRefused(j)
      PROVE  TypeOK'
  BY <1>7 DEF DeductRefused
<1>8. ASSUME NEW j \in Jobs, ReadUsage(j)
      PROVE  TypeOK'
  BY <1>8 DEF ReadUsage
<1>9. ASSUME NEW j \in Jobs, WriteUsage(j)
      PROVE  TypeOK'
  BY <1>9 DEF WriteUsage
<1>10. ASSUME NEW j \in Jobs, Interrupted(j)
       PROVE  TypeOK'
  BY <1>10 DEF Interrupted
<1> QED
  BY <1>1, <1>2, <1>3, <1>4, <1>5, <1>6, <1>7, <1>8, <1>9, <1>10 DEF Next

\* The initial state is well typed.
LEMMA TypeInit == Init => TypeOK
BY DEF Init, TypeOK, Credits, Usage, Steps, NoUsage, Opening

\* TypeOK is an invariant: absolute writes of stale columns never make a balance
\* negative.
THEOREM TypeCorrect == Spec => []TypeOK
<1>1. TypeOK /\ [Next]_vars => TypeOK'
  BY TypeStep
<1> QED
  BY TypeInit, <1>1, PTL DEF Spec

-----------------------------------------------------------------------------
(* NeverOvercharged *)

\* Every step keeps the bounds; only Deduct needs an argument, by the columns
\* its UPDATE writes.
LEMMA BoundedStep ==
    ASSUME TypeOK, Bounded, [Next]_vars
    PROVE  Bounded'
<1> USE DEF Bounded, NeverOvercharged, Holding, Go, userVars, history
<1>0. /\ row.free \in Nat /\ row.paid \in Nat /\ debited \in Nat
      /\ \A k \in Jobs : snap[k].free \in Nat /\ snap[k].paid \in Nat
      /\ pc \in [Jobs -> Steps]
  BY DEF TypeOK, Credits
<1>1. CASE UNCHANGED vars
  BY <1>1 DEF vars, jobVars
<1>2. ASSUME NEW j \in Jobs, NEW wanted \in 1..MaxWanted, StartJob(j, wanted)
      PROVE  Bounded'
  BY <1>0, <1>2 DEF StartJob
<1>3. ASSUME NEW j \in Jobs, LoadUser(j)
      PROVE  Bounded'
  <2>1. snap \in [Jobs -> Credits]
    BY DEF TypeOK
  <2> QED
    BY <1>0, <1>3, <2>1 DEF LoadUser, Total
<1>4. ASSUME NEW j \in Jobs, NEW n \in 0..cap[j], EndJob(j, n)
      PROVE  Bounded'
  BY <1>0, <1>4 DEF EndJob
<1>5. ASSUME NEW j \in Jobs, LockUser(j)
      PROVE  Bounded'
  BY <1>0, <1>5 DEF LockUser
<1>6. ASSUME NEW j \in Jobs, Deduct(j)
      PROVE  Bounded'
  <2> DEFINE c == snap[j]
             n == count[j]
             d == Deducted(c, n)
             B == OpeningFree + OpeningPaid
  <2>1. c \in Credits /\ n \in Nat /\ B \in Nat
    BY DEF TypeOK
  <2>2. /\ c.free + c.paid >= n
        /\ c.free + c.paid + debited >= B
        /\ c.free + row.paid + debited >= B
    BY <1>6 DEF Deduct, Total
  <2>3. /\ row' = Write(c, d) /\ debited' = debited + n
        /\ \A k \in Jobs : Holding(k)' => Holding(k) /\ k # j /\ snap'[k] = snap[k]
    <3>1. snap \in [Jobs -> Credits]
      BY DEF TypeOK
    <3> QED
      BY <1>0, <1>6, <3>1 DEF Deduct
  <2>4. CASE c.free >= n
    <3>1. d.free = c.free - n /\ d.paid = c.paid
      BY <2>1, <2>4 DEF Deducted, Credits
    <3>2. /\ row'.paid = row.paid /\ row'.free \in Nat
          /\ \/ row'.free + n >= c.free
             \/ n = 0 /\ row'.free = row.free
      <4>1. /\ row'.free = IF d.free = c.free THEN row.free ELSE d.free
            /\ row'.paid = IF d.paid = c.paid THEN row.paid ELSE d.paid
        BY <2>3 DEF Write
      <4>2. c.free \in Nat
        BY <2>1 DEF Credits
      <4> HIDE DEF c, d, n
      <4> QED
        BY <1>0, <2>1, <2>4, <3>1, <4>1, <4>2
    <3> QED
      BY <1>0, <2>1, <2>2, <2>3, <3>2 DEF Total
  <2>5. CASE c.free < n
    <3>1. /\ d.free = 0 /\ d.paid = c.paid - (n - c.free) /\ d.paid # c.paid
          /\ d.paid \in Nat
      BY <2>1, <2>2, <2>5 DEF Deducted, Credits
    <3>2. row'.paid + n = c.free + c.paid /\ row'.free \in Nat /\ row'.paid \in Nat
      BY <1>0, <2>1, <2>2, <2>3, <2>5, <3>1 DEF Write, Credits
    <3>3. row'.free + row'.paid + debited' >= B
      BY <1>0, <2>1, <2>2, <2>3, <3>2
    <3>4. ASSUME NEW k \in Jobs, Holding(k)'
          PROVE  /\ Total(snap'[k]) + debited' >= B
                 /\ snap'[k].free + row'.paid + debited' >= B
      <4>1. Holding(k) /\ snap'[k] = snap[k]
        BY <2>3, <3>4
      <4>2. snap[k].free + snap[k].paid + debited >= B
        BY <4>1 DEF Total
      <4> QED
        BY <1>0, <2>1, <2>2, <2>3, <3>2, <4>1, <4>2 DEF Total
    <3> QED
      BY <3>3, <3>4 DEF Total
  <2> QED
    BY <2>1, <2>4, <2>5 DEF Credits
<1>7. ASSUME NEW j \in Jobs, DeductRefused(j)
      PROVE  Bounded'
  BY <1>0, <1>7 DEF DeductRefused
<1>8. ASSUME NEW j \in Jobs, ReadUsage(j)
      PROVE  Bounded'
  BY <1>0, <1>8 DEF ReadUsage
<1>9. ASSUME NEW j \in Jobs, WriteUsage(j)
      PROVE  Bounded'
  BY <1>0, <1>9 DEF WriteUsage
<1>10. ASSUME NEW j \in Jobs, Interrupted(j)
       PROVE  Bounded'
  BY <1>0, <1>10 DEF Interrupted
<1> QED
  BY <1>1, <1>2, <1>3, <1>4, <1>5, <1>6, <1>7, <1>8, <1>9, <1>10 DEF Next

\* However many jobs of a user finish together, over any number of slots, the
\* balance never goes down by more than was deducted.
THEOREM NeverOverchargedAlways == Spec => []NeverOvercharged
<1>1. Init => Bounded
  BY DEF Init, Bounded, NeverOvercharged, Holding, Opening, Total
<1>2. TypeOK /\ Bounded /\ [Next]_vars => Bounded'
  BY BoundedStep
<1>3. Bounded => NeverOvercharged
  BY DEF Bounded
<1> QED
  BY TypeCorrect, <1>1, <1>2, <1>3, PTL DEF Spec

-----------------------------------------------------------------------------
(* Jobs that run alone *)

\* Every step keeps the object of a job that runs alone equal to the row: only a
\* job in a slot writes it.
LEMMA AloneStep ==
    ASSUME TypeOK, Alone, [Next]_vars
    PROVE  Alone'
<1> USE DEF Alone, Holding, InSlot, Go, userVars, history
<1>0. /\ pc \in [Jobs -> Steps] /\ snap \in [Jobs -> Credits]
      /\ count \in [Jobs -> Nat] /\ row \in Credits
  BY DEF TypeOK
<1>1. CASE UNCHANGED vars
  BY <1>1 DEF vars, jobVars
<1>2. ASSUME NEW j \in Jobs, NEW wanted \in 1..MaxWanted, StartJob(j, wanted)
      PROVE  Alone'
  BY <1>0, <1>2 DEF StartJob
<1>3. ASSUME NEW j \in Jobs, LoadUser(j)
      PROVE  Alone'
  <2>1. /\ pc' = [pc EXCEPT ![j] = "running"] /\ pc[j] = "queued"
        /\ snap' = [snap EXCEPT ![j] = row] /\ row' = row /\ count' = count
    BY <1>3 DEF LoadUser
  <2>2. CASE Running = {}
    BY <1>0, <1>3, <2>1, <2>2 DEF LoadUser, Running
  <2>3. CASE Running # {}
    <3>1. overlapped' = overlapped \union Running \union {j}
      BY <1>3, <2>3 DEF LoadUser
    <3> QED
      BY <1>0, <2>1, <3>1 DEF Running
  <2> QED
    BY <2>2, <2>3
<1>4. ASSUME NEW j \in Jobs, NEW n \in 0..cap[j], EndJob(j, n)
      PROVE  Alone'
  BY <1>0, <1>4 DEF EndJob
<1>5. ASSUME NEW j \in Jobs, LockUser(j)
      PROVE  Alone'
  BY <1>0, <1>5 DEF LockUser
<1>6. ASSUME NEW j \in Jobs, Deduct(j)
      PROVE  Alone'
  <2>1. \A k \in Jobs : Holding(k)' => k # j /\ InSlot(k) /\ InSlot(j)
    BY <1>0, <1>6 DEF Deduct
  <2>2. \A k \in Jobs : Holding(k)' => k \in overlapped'
    BY <1>6, <2>1 DEF Deduct
  <2> QED
    BY <1>0, <1>6, <2>2 DEF Deduct
<1>7. ASSUME NEW j \in Jobs, DeductRefused(j)
      PROVE  Alone'
  BY <1>0, <1>7 DEF DeductRefused
<1>8. ASSUME NEW j \in Jobs, ReadUsage(j)
      PROVE  Alone'
  BY <1>0, <1>8 DEF ReadUsage
<1>9. ASSUME NEW j \in Jobs, WriteUsage(j)
      PROVE  Alone'
  BY <1>0, <1>9 DEF WriteUsage
<1>10. ASSUME NEW j \in Jobs, Interrupted(j)
       PROVE  Alone'
  BY <1>0, <1>10 DEF Interrupted
<1> QED
  BY <1>1, <1>2, <1>3, <1>4, <1>5, <1>6, <1>7, <1>8, <1>9, <1>10 DEF Next

\* A job that ran alone and can pay writes the row it loaded, less what it found.
LEMMA AlonePays ==
    ASSUME TypeOK, Alone, NEW j \in Jobs, j \notin overlapped, Deduct(j)
    PROVE  /\ AccountSpec!Debit(count[j]) /\ count[j] \in 1..Total(row)
           /\ row'.paid < row.paid => row'.free = 0
<1> DEFINE n == count[j]
<1>1. snap[j] = row /\ n \in Nat /\ n > 0 /\ Total(row) >= n /\ row \in Credits
  BY DEF Deduct, Alone, Holding, TypeOK
<1>2. /\ Deducted(row, n) \in Credits
      /\ Total(Deducted(row, n)) = Total(row) - n
  BY <1>1, DeductedTakes
<1>3. row' = Deducted(row, n) /\ debited' = debited + n
  BY <1>1, <1>2, WriteFresh DEF Deduct
<1>4. Total(row') = Total(row) - n
  BY <1>2, <1>3
<1>5. n \in 1..Total(row)
  <2>1. Total(row) \in Nat
    BY <1>1 DEF Total, Credits
  <2> QED
    BY <1>1, <2>1
<1>6. AccountSpec!Debit(n)
  BY <1>3, <1>4, <1>5 DEF AccountSpec!Debit, Total
<1>7. row'.paid < row.paid => row'.free = 0
  <2> HIDE DEF n
  <2> QED
    BY <1>1, <1>3 DEF Deducted, Credits
<1> QED
  BY <1>5, <1>6, <1>7

\* Only Deduct changes the row or the history of deductions.
LEMMA OthersLeaveRow ==
    ASSUME [Next]_vars, \A j \in Jobs : ~Deduct(j)
    PROVE  row' = row /\ debited' = debited
<1>1. CASE UNCHANGED vars
  BY <1>1 DEF vars, userVars, history
<1>2. CASE Next
  BY <1>2 DEF Next, StartJob, LoadUser, EndJob, LockUser, DeductRefused,
     ReadUsage, WriteUsage, Interrupted, userVars, history
<1> QED
  BY <1>1, <1>2

\* Alone holds in every state of every behaviour.
LEMMA AloneAlways == Spec => []Alone
<1>1. Init => Alone
  BY DEF Init, Alone, InSlot, Holding
<1>2. TypeOK /\ Alone /\ [Next]_vars => Alone'
  BY AloneStep
<1> QED
  BY TypeCorrect, <1>1, <1>2, PTL DEF Spec

\* For any number of slots: a job that met no other job of its user in them pays
\* exactly what it found, free credits first, or nothing if it found more than
\* there is.
THEOREM ExactWhenAloneAlways == Spec => ExactWhenAlone
<1> DEFINE Exact(j) == \/ AccountSpec!Debit(count[j]) /\ (row'.paid < row.paid => row'.free = 0)
                       \/ Total(row) < count[j] /\ UNCHANGED <<row, debited>>
           Step == \A j \in Jobs \ overlapped : pc[j] = "locked" /\ pc'[j] = "settled" => Exact(j)
<1>1. TypeOK /\ Alone /\ [Next]_vars => [Step]_vars
  <2> SUFFICES ASSUME TypeOK, Alone, Next, NEW j \in Jobs \ overlapped,
                      pc[j] = "locked", pc'[j] = "settled"
               PROVE  Exact(j)
    OBVIOUS
  <2>0. pc \in [Jobs -> Steps]
    BY DEF TypeOK
  <2>1. Deduct(j) \/ DeductRefused(j)
    BY <2>0 DEF Next, StartJob, LoadUser, EndJob, LockUser, Deduct, DeductRefused,
       ReadUsage, WriteUsage, Interrupted, Go
  <2>2. CASE Deduct(j)
    BY <2>2, AlonePays
  <2>3. CASE DeductRefused(j)
    BY <2>3 DEF DeductRefused, Alone, Holding, userVars, history
  <2> QED
    BY <2>1, <2>2, <2>3
<1> QED
  BY TypeCorrect, AloneAlways, <1>1, PTL DEF Spec, ExactWhenAlone

\* In every behaviour in which no two jobs of the user overlap, whatever the number
\* of slots, the credit code implements the account README.md describes: a balance
\* that only changes by debits of what one job found, never below zero.
THEOREM SerialImplementsAccount == Spec => ([](overlapped = {}) => ImplementsAccount)
<1>1. Init => AccountSpec!Init
  BY DEF Init, Opening, Total, AccountSpec!Init
<1>2. TypeOK /\ Alone /\ overlapped = {} /\ [Next]_vars
         => [AccountSpec!Next]_<<Total(row), debited>>
  <2> SUFFICES ASSUME TypeOK, Alone, overlapped = {}, [Next]_vars
               PROVE  AccountSpec!Next \/ UNCHANGED <<Total(row), debited>>
    OBVIOUS
  <2>1. ASSUME NEW j \in Jobs, Deduct(j)
        PROVE  AccountSpec!Next
    BY <2>1, AlonePays DEF AccountSpec!Next
  <2>2. CASE \A j \in Jobs : ~Deduct(j)
    BY <2>2, OthersLeaveRow DEF Total
  <2> QED
    BY <2>1, <2>2
<1> QED
  BY TypeCorrect, AloneAlways, <1>1, <1>2, PTL
  DEF Spec, ImplementsAccount, AccountSpec!Spec

-----------------------------------------------------------------------------
(* UsageNeverExceeds *)

Over == {j \in Jobs : pc[j] = "done"}

\* The month's row, and every older state of it that a job still holds, is backed
\* by emails of jobs that are over: of a job that is not over, nothing is counted.
Backed ==
    /\ usage.used <= Cardinality(Emails(Over))
    /\ \A j \in Jobs : seen[j].used <= Cardinality(Emails(Over))

\* The emails of one more job come on top of those of the others.
LEMMA EmailsOfOneMore ==
    ASSUME TypeOK, NEW js \in SUBSET Jobs, NEW j \in Jobs \ js
    PROVE  /\ IsFiniteSet(Emails(js))
           /\ Cardinality(Emails(js)) \in Nat
           /\ Cardinality(Emails(js \union {j})) = Cardinality(Emails(js)) + count[j]
<1> DEFINE own == {j} \X (1..count[j])
<1>0. \A k \in Jobs : count[k] \in Nat
  BY DEF TypeOK
<1>1. \A k \in Jobs : /\ IsFiniteSet({k} \X (1..count[k]))
                      /\ Cardinality({k} \X (1..count[k])) = count[k]
  <2> SUFFICES ASSUME NEW k \in Jobs
               PROVE  /\ IsFiniteSet({k} \X (1..count[k]))
                      /\ Cardinality({k} \X (1..count[k])) = count[k]
    OBVIOUS
  <2>1. IsFiniteSet({k}) /\ Cardinality({k}) = 1
    BY FS_Singleton
  <2>2. IsFiniteSet(1..count[k]) /\ Cardinality(1..count[k]) = count[k]
    <3>1. 1 \in Int /\ count[k] \in Int
      BY <1>0
    <3>2. /\ IsFiniteSet(1..count[k])
          /\ Cardinality(1..count[k]) = IF 1 > count[k] THEN 0 ELSE count[k] - 1 + 1
      BY <3>1, FS_Interval
    <3> QED
      BY <1>0, <3>2
  <2>3. /\ IsFiniteSet({k} \X (1..count[k]))
        /\ Cardinality({k} \X (1..count[k])) = Cardinality({k}) * Cardinality(1..count[k])
    BY <2>1, <2>2, FS_Product
  <2> QED
    BY <1>0, <2>1, <2>2, <2>3
<1>2. IsFiniteSet(Emails(js))
  <2> DEFINE sets == {{k} \X (1..count[k]) : k \in js}
             f == [k \in js |-> {k} \X (1..count[k])]
  <2>1. IsFiniteSet(js)
    BY FS_Subset
  <2>2. f \in Surjection(js, sets)
    BY DEF Surjection
  <2>3. IsFiniteSet(sets)
    BY <2>1, <2>2, FS_Surjection
  <2>4. \A T \in sets : IsFiniteSet(T)
    BY <1>1
  <2>5. IsFiniteSet(UNION sets)
    BY <2>3, <2>4, FS_UNION
  <2> QED
    BY <2>5 DEF Emails
<1>3. Emails(js \union {j}) = Emails(js) \union own
  BY DEF Emails
<1>4. Emails(js) \intersect own = {}
  BY DEF Emails
<1>5. IsFiniteSet(own) /\ Cardinality(own) = count[j]
  BY <1>1
<1>6. Cardinality(Emails(js) \union own) =
        Cardinality(Emails(js)) + Cardinality(own) - Cardinality(Emails(js) \intersect own)
  BY <1>2, <1>5, FS_Union
<1>7. Cardinality(Emails(js)) \in Nat /\ Cardinality({}) = 0
  BY <1>2, FS_CardinalityType, FS_EmptySet
<1> HIDE DEF own
<1>8. Cardinality(Emails(js) \union own) = Cardinality(Emails(js)) + count[j]
  <2>1. count[j] \in Nat
    BY <1>0
  <2>2. Cardinality(Emails(js) \intersect own) = 0
    BY <1>4, <1>7, Zenon
  <2> QED
    BY <1>5, <1>6, <1>7, <2>1, <2>2
<1> QED
  BY <1>2, <1>3, <1>7, <1>8

\* What is backed stays backed when a job ends, and a job that ends may add its
\* own count to what it has read.
LEMMA BackedStep ==
    ASSUME TypeOK, Backed, [Next]_vars
    PROVE  Backed'
<1> USE DEF Go, userVars, history
<1>0. /\ pc \in [Jobs -> Steps] /\ count \in [Jobs -> Nat] /\ seen \in [Jobs -> Usage]
      /\ usage \in Usage
  BY DEF TypeOK
<1> DEFINE E == Cardinality(Emails(Over))
<1>1. ASSUME Over' = Over, \A k \in Over : count'[k] = count[k], usage' = usage,
             \A k \in Jobs : seen'[k] = seen[k] \/ seen'[k] = usage
      PROVE  Backed'
  <2>1. Emails(Over)' = Emails(Over)
    BY <1>1 DEF Emails
  <2> QED
    BY <1>1, <2>1 DEF Backed
<1>2. ASSUME NEW j \in Jobs, Over' = Over \union {j}, j \notin Over,
             count' = count, seen' = seen,
             usage' = usage \/ usage'.used = seen[j].used + count[j]
      PROVE  Backed'
  <2>1. /\ Cardinality(Emails(Over)') = E + count[j] /\ E \in Nat /\ count[j] \in Nat
    <3>1. Over \in SUBSET Jobs /\ j \in Jobs \ Over
      BY <1>2 DEF Over
    <3>2. Emails(Over)' = Emails(Over \union {j})
      BY <1>2 DEF Emails
    <3> QED
      BY <1>0, <3>1, <3>2, EmailsOfOneMore
  <2>2. \A k \in Jobs : seen[k].used \in Nat /\ seen[k].used <= E
    BY <1>0 DEF Backed, Usage
  <2>3. usage.used \in Nat /\ usage.used <= E
    BY <1>0 DEF Backed, Usage
  <2>4. usage'.used <= E + count[j]
    BY <1>2, <2>1, <2>2, <2>3
  <2>5. \A k \in Jobs : seen'[k].used <= E + count[j]
    BY <1>2, <2>1, <2>2
  <2> HIDE DEF E
  <2> QED
    BY <2>1, <2>4, <2>5 DEF Backed
<1>3. CASE UNCHANGED vars
  BY <1>1, <1>3 DEF vars, jobVars, Over
<1>4. ASSUME NEW j \in Jobs, NEW wanted \in 1..MaxWanted, StartJob(j, wanted)
      PROVE  Backed'
  BY <1>0, <1>1, <1>4 DEF StartJob, Over
<1>5. ASSUME NEW j \in Jobs, LoadUser(j)
      PROVE  Backed'
  BY <1>0, <1>1, <1>5 DEF LoadUser, Over
<1>6. ASSUME NEW j \in Jobs, NEW n \in 0..cap[j], EndJob(j, n)
      PROVE  Backed'
  <2>1. j \notin Over /\ \A k \in Over : count'[k] = count[k]
    BY <1>0, <1>6 DEF EndJob, Over
  <2>2. CASE n > 0
    BY <1>0, <1>1, <1>6, <2>1, <2>2 DEF EndJob, Over
  <2>3. CASE n = 0
    <3>1. Over' = Over \union {j} /\ count'[j] = 0
      BY <1>0, <1>6, <2>3 DEF EndJob, Over
    <3>2. Emails(Over)' = Emails(Over)
      BY <2>1, <3>1 DEF Emails
    <3> QED
      BY <1>6, <3>2 DEF EndJob, Backed
  <2> QED
    BY <2>2, <2>3
<1>7. ASSUME NEW j \in Jobs, LockUser(j) \/ Deduct(j) \/ DeductRefused(j)
      PROVE  Backed'
  BY <1>0, <1>1, <1>7 DEF LockUser, Deduct, DeductRefused, Over
<1>8. ASSUME NEW j \in Jobs, ReadUsage(j)
      PROVE  Backed'
  BY <1>0, <1>1, <1>8 DEF ReadUsage, Over
<1>9. ASSUME NEW j \in Jobs, WriteUsage(j) \/ Interrupted(j)
      PROVE  Backed'
  <2>1. /\ Over' = Over \union {j} /\ j \notin Over /\ count' = count /\ seen' = seen
    BY <1>0, <1>9 DEF WriteUsage, Interrupted, Over
  <2>2. usage' = usage \/ usage'.used = seen[j].used + count[j]
    BY <1>9 DEF WriteUsage, Interrupted
  <2> QED
    BY <1>2, <2>1, <2>2
<1> QED
  BY <1>3, <1>4, <1>5, <1>6, <1>7, <1>8, <1>9 DEF Next

\* However many jobs read and write the month's row without a lock, it never shows
\* more emails than the jobs that are over have found.
THEOREM UsageNeverExceedsAlways == Spec => []UsageNeverExceeds
<1>1. Init => Backed
  <2> SUFFICES ASSUME Init
               PROVE  Backed
    OBVIOUS
  <2>1. Emails(Over) = {}
    BY DEF Init, Over, Emails
  <2> QED
    BY <2>1, FS_EmptySet DEF Init, Backed, NoUsage
<1>2. TypeOK /\ Backed /\ [Next]_vars => Backed'
  BY BackedStep
<1>3. Backed => UsageNeverExceeds
  BY DEF Backed, UsageNeverExceeds, Over
<1> QED
  BY TypeCorrect, <1>1, <1>2, <1>3, PTL DEF Spec
=============================================================================
