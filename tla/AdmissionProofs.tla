--------------------------- MODULE AdmissionProofs ---------------------------
(***************************************************************************)
(* Theorems about Admission and the retention lock, for any number of      *)
(* users, requests, API processes and rows, and any limits.                *)
(***************************************************************************)
EXTENDS Admission, FiniteSetTheorems, TLAPS

USE AdmissionAssumption, RetentionAssumption

-----------------------------------------------------------------------------
(* Typing *)

\* The initial state is typed.
LEMMA TypeInit == Init => TypeOK
<1> SUFFICES ASSUME Init PROVE TypeOK
  OBVIOUS
<1>1. (CHOOSE u \in Ids : TRUE) \in Ids
  OBVIOUS
<1>2. RetentionTypeOK
  <2>1. cleaner \in [Cleaners -> CleanerStates]
    BY DEF Init, RetentionInit, CleanerStates
  <2>2. lock = FALSE /\ slow = 0 /\ failures = 0
    BY DEF Init, RetentionInit
  <2>3. 0 \in 0..MaxSlow /\ 0 \in 0..MaxFailures
    OBVIOUS
  <2> QED
    BY <2>1, <2>2, <2>3 DEF RetentionTypeOK
<1>3. account \in [Ids -> Plans \union {"absent"}]
  BY DEF Init
<1>4. granted \in [Ids -> Plans \union {"absent"}]
  BY DEF Init
<1>5. pc \in [Requests -> RequestStates]
  BY DEF Init, RequestStates
<1>6. /\ caller \in [Requests -> Ids] /\ owner \in [Jobs -> Ids]
      /\ loaded \in [Requests -> Plans]
      /\ status \in [Jobs -> {"absent", "active", "ended", "revived"}]
      /\ expires \in [Jobs -> {"never", "later", "due"}]
  BY <1>1 DEF Init, Plans
<1> QED
  BY <1>2, <1>3, <1>4, <1>5, <1>6 DEF TypeOK

\* Admit loads a plan, or closes the session.
LEMMA AdmitTyped ==
    ASSUME TypeOK, NEW r \in Requests, account[caller[r]] # "absent", Admit(r)
    PROVE  /\ pc' \in [Requests -> RequestStates]
           /\ loaded' \in [Requests -> Plans]
  BY DEF TypeOK, Admit, Answer, Move, RequestStates, Plans

\* A step of a request keeps the types.
LEMMA RequestTyped ==
    ASSUME TypeOK, NEW r \in Requests, RequestStep(r)
    PROVE  TypeOK'
<1> USE DEF TypeOK, requestVars, rowVars, retentionVars
<1>0. UNCHANGED retentionVars => RetentionTypeOK'
  BY DEF RetentionTypeOK
<1>1. ASSUME NEW u \in Callers, Arrive(r, u) PROVE TypeOK'
  BY <1>0, <1>1 DEF Arrive, Move, RequestStates
<1>2. CASE Lookup(r)
  <2>1. CASE account[caller[r]] = "absent"
    BY <1>0, <1>2, <2>1 DEF Lookup, Move, RequestStates
  <2>2. CASE account[caller[r]] # "absent"
    BY <1>0, <1>2, <2>2, AdmitTyped DEF Lookup
  <2> QED
    BY <2>1, <2>2
<1>3. CASE Insert(r)
  BY <1>0, <1>3 DEF Insert, Move, RequestStates, Plans
<1>4. CASE Refetch(r)
  <2>1. CASE account[caller[r]] = "absent"
    BY <1>0, <1>4, <2>1 DEF Refetch, Move, RequestStates
  <2>2. CASE account[caller[r]] # "absent"
    BY <1>0, <1>4, <2>2, AdmitTyped DEF Refetch
  <2> QED
    BY <2>1, <2>2
<1>5. CASE Answer500(r)
  BY <1>0, <1>5 DEF Answer500, Answer, Move, RequestStates, Plans
<1>6. CASE Count(r)
  BY <1>0, <1>6 DEF Count, Answer, Move, RequestStates, Plans
<1>7. CASE CommitJob(r)
  <2>1. (CHOOSE i \in Fresh : TRUE) \in Jobs
    BY <1>7 DEF CommitJob, Fresh
  <2> QED
    BY <1>0, <1>7, <2>1 DEF CommitJob, Answer, Move, RequestStates, Plans, Retained
<1> QED
  BY <1>1, <1>2, <1>3, <1>4, <1>5, <1>6, <1>7 DEF RequestStep

\* What is left of a plan is a plan, with no higher limit.
LEMMA LowerIsPlan ==
    ASSUME NEW p \in Plans \union {"absent"}, NEW q \in Lower(p)
    PROVE  /\ q \in Plans \union {"absent"} /\ LimitOf(q) <= LimitOf(p)
           /\ p # "absent" <=> q # "absent"
  BY DEF Lower, Plans, LimitOf

\* A plan may stay what it is.
LEMMA LowerIsReflexive ==
    ASSUME NEW p \in Plans \union {"absent"}
    PROVE  p \in Lower(p)
  BY DEF Lower, Plans

\* A step of a job row keeps the types.
LEMMA JobTyped ==
    ASSUME TypeOK, NEW j \in Jobs, JobStep(j)
    PROVE  TypeOK'
<1> USE DEF TypeOK, requestVars, rowVars, retentionVars
<1>0. RetentionTypeOK'
  BY DEF JobStep, JobEnds, Deduct, JobRevives, FallsDue, RetentionTypeOK
<1>1. CASE JobEnds(j)
  BY <1>0, <1>1 DEF JobEnds
<1>4. CASE Deduct(j)
  <2>1. owner[j] \in Ids /\ granted[owner[j]] \in Plans \union {"absent"}
    OBVIOUS
  <2>2. account' \in [Ids -> Plans \union {"absent"}]
    BY <1>4, <2>1, LowerIsPlan DEF Deduct
  <2> QED
    BY <1>0, <1>4, <2>2 DEF Deduct
<1>2. CASE JobRevives(j)
  BY <1>0, <1>2 DEF JobRevives
<1>3. CASE FallsDue(j)
  BY <1>0, <1>3 DEF FallsDue
<1> QED
  BY <1>1, <1>2, <1>3, <1>4 DEF JobStep

\* A step of a clean-up keeps the types.
LEMMA CleanerTyped ==
    ASSUME TypeOK, NEW c \in Cleaners,
           CleanerStep(c) \/ (CleanerFails(c) /\ Keep)
    PROVE  TypeOK'
<1> USE DEF TypeOK, RetentionTypeOK, CleanerStates, requestVars, rowVars,
            retentionVars, Keep, Go
<1>1. CASE Acquire(c) /\ Keep
  BY <1>1 DEF Acquire
<1>2. CASE CleanExpired(c)
  BY <1>2 DEF CleanExpired
<1>3. CASE CleanHung(c)
  BY <1>3 DEF CleanHung
<1>4. CASE Release(c) /\ Keep
  BY <1>4 DEF Release
<1>5. CASE CleanerFails(c) /\ Keep
  BY <1>5 DEF CleanerFails
<1> QED
  BY <1>1, <1>2, <1>3, <1>4, <1>5 DEF CleanerStep

\* The key may expire also where there is no cleaner.
LEMMA ExpiryTyped == ASSUME TypeOK, LockExpires, Keep PROVE TypeOK'
<1>1. lock' = FALSE /\ UNCHANGED <<cleaner, failures>>
  BY DEF LockExpires
<1>2. slow' \in 0..MaxSlow
  <2>1. slow' = slow \/ (slow < MaxSlow /\ slow' = slow + 1)
    BY DEF LockExpires
  <2> QED
    BY <2>1 DEF TypeOK, RetentionTypeOK
<1> QED
  BY <1>1, <1>2 DEF TypeOK, RetentionTypeOK, Keep, requestVars, rowVars

\* Every step keeps the types.
LEMMA TypeStep == TypeOK /\ [Next]_vars => TypeOK'
<1> SUFFICES ASSUME TypeOK, [Next]_vars PROVE TypeOK'
  OBVIOUS
<1>1. CASE UNCHANGED vars
  BY <1>1 DEF vars, TypeOK, RetentionTypeOK, requestVars, rowVars, retentionVars
<1>2. CASE Next
  BY <1>2, RequestTyped, JobTyped, CleanerTyped, ExpiryTyped DEF Next
<1> QED
  BY <1>1, <1>2

\* Every reachable state is typed: a request works with a plan that some row has, and
\* at most MaxSlow clean-ups outlive their lock.
THEOREM TypeCorrect == Spec => []TypeOK
  BY TypeInit, TypeStep, PTL DEF Spec

-----------------------------------------------------------------------------
(* The retention lock *)

\* A key that is set stands for one clean-up at most, an expiry for another.
OverlapInv == Cardinality(Cleaning) <= slow + (IF lock THEN 1 ELSE 0)

\* The clean-ups under way can be counted.
LEMMA CleaningFinite == IsFiniteSet(Cleaning) /\ Cardinality(Cleaning) \in Nat
<1>1. Cleaning \in SUBSET Cleaners
  BY DEF Cleaning
<1> QED
  BY <1>1, FS_Subset, FS_CardinalityType

\* A task that begins to clean, and one that ends.
LEMMA CleaningGrows ==
    ASSUME TypeOK, NEW c \in Cleaners, At(c, "asleep"), Go(c, "expired")
    PROVE  Cardinality(Cleaning') = Cardinality(Cleaning) + 1
<1>1. c \notin Cleaning /\ Cleaning' = Cleaning \union {c}
  BY DEF TypeOK, RetentionTypeOK, At, Go, Cleaning
<1> QED
  BY <1>1, CleaningFinite, FS_AddElement

\* A clean-up that goes to sleep is one less under way.
LEMMA CleaningShrinks ==
    ASSUME TypeOK, NEW c \in Cleaning, Go(c, "asleep")
    PROVE  Cardinality(Cleaning') = Cardinality(Cleaning) - 1
<1>1. Cleaning' = Cleaning \ {c}
  BY DEF TypeOK, RetentionTypeOK, Go, Cleaning
<1> QED
  BY <1>1, CleaningFinite, FS_RemoveElement

\* OverlapInv holds initially: nobody cleans and no lock has expired.
LEMMA OverlapInit == Init => OverlapInv
<1> SUFFICES ASSUME Init PROVE OverlapInv
  OBVIOUS
<1>1. Cleaning = {} /\ slow = 0
  BY DEF Init, RetentionInit, Cleaning
<1> QED
  BY <1>1, FS_EmptySet DEF OverlapInv

\* Every step keeps OverlapInv: one clean-up more needs the lock, and a lost lock is counted.
LEMMA OverlapStep == TypeOK /\ OverlapInv /\ [Next]_vars => OverlapInv'
<1> SUFFICES ASSUME TypeOK, OverlapInv, [Next]_vars PROVE OverlapInv'
  OBVIOUS
<1> USE DEF OverlapInv
<1>0. Cardinality(Cleaning) \in Nat /\ slow \in Nat /\ lock \in BOOLEAN
  BY CleaningFinite DEF TypeOK, RetentionTypeOK
<1>1. CASE Cleaning' = Cleaning /\ UNCHANGED <<lock, slow>>
  BY <1>1
<1>2. ASSUME NEW c \in Cleaners, Acquire(c) PROVE OverlapInv'
  <2>1. Cardinality(Cleaning') = Cardinality(Cleaning) + 1
    BY <1>2, CleaningGrows DEF Acquire
  <2>2. ~lock /\ lock' /\ slow' = slow
    BY <1>2 DEF Acquire
  <2> QED
    BY <1>0, <2>1, <2>2
<1>3. ASSUME NEW c \in Cleaners, CleanExpired(c) \/ CleanHung(c) PROVE OverlapInv'
  <2>1. Cleaning' = Cleaning
    BY <1>3 DEF CleanExpired, CleanHung, At, Go, Cleaning, TypeOK, RetentionTypeOK
  <2> QED
    BY <1>1, <1>3, <2>1 DEF CleanExpired, CleanHung
<1>4. ASSUME NEW c \in Cleaners, Release(c) PROVE OverlapInv'
  <2>1. c \in Cleaning
    BY <1>4 DEF Release, At, Cleaning
  <2>2. Cardinality(Cleaning') = Cardinality(Cleaning) - 1
    BY <1>4, <2>1, CleaningShrinks DEF Release
  <2> QED
    BY <1>0, <1>4, <2>2 DEF Release
<1>5. ASSUME NEW c \in Cleaners, CleanerFails(c) PROVE OverlapInv'
  <2>1. Cardinality(Cleaning') = Cardinality(Cleaning) - 1
    BY <1>5, CleaningShrinks DEF CleanerFails
  <2> QED
    BY <1>0, <1>5, <2>1 DEF CleanerFails
<1>6. CASE LockExpires
  <2>1. Cleaning' = Cleaning
    BY <1>6 DEF LockExpires, Cleaning
  <2>2. CASE Cleaning = {} /\ slow' = slow
    BY <1>0, <1>6, <2>1, <2>2, FS_EmptySet DEF LockExpires
  <2>3. CASE slow' = slow + 1
    BY <1>0, <1>6, <2>1, <2>3 DEF LockExpires
  <2> QED
    BY <1>6, <2>2, <2>3 DEF LockExpires
<1>7. ASSUME NEW r \in Requests, RequestStep(r) PROVE OverlapInv'
  BY <1>1, <1>7 DEF RequestStep, Arrive, Lookup, Insert, Refetch, Answer500, Count,
                    CommitJob, retentionVars, Cleaning
<1>8. ASSUME NEW j \in Jobs, JobStep(j) PROVE OverlapInv'
  BY <1>1, <1>8 DEF JobStep, JobEnds, Deduct, JobRevives, FallsDue, retentionVars, Cleaning
<1>9. CASE UNCHANGED vars
  BY <1>1, <1>9 DEF vars, retentionVars, Cleaning
<1> QED
  BY <1>2, <1>3, <1>4, <1>5, <1>6, <1>7, <1>8, <1>9 DEF Next, CleanerStep

\* Clean-ups overlap by no more than the expiries they let happen, although every
\* cleaner deletes a key that may be another's.
THEOREM OverlapBoundedAlways == Spec => []OverlapBounded
<1>1. TypeOK /\ OverlapInv => OverlapBounded
  BY CleaningFinite DEF OverlapInv, OverlapBounded, TypeOK, RetentionTypeOK
<1> QED
  BY <1>1, OverlapInit, OverlapStep, TypeCorrect, PTL DEF Spec

-----------------------------------------------------------------------------
(* Provisioning *)

\* What a step does to the users' rows: a missing one is inserted for the caller of a
\* request whose address is free, or a deduction leaves some of what it began with.
AccountStep ==
    \/ UNCHANGED <<account, granted>>
    \/ \E r \in Requests :
          /\ pc[r] = "insert" /\ ~Conflict(caller[r])
          /\ account' = [account EXCEPT ![caller[r]] = "free"]
          /\ granted' = [granted EXCEPT ![caller[r]] = "free"]
    \/ \E u \in Ids : \E p \in Lower(granted[u]) :
          account' = [account EXCEPT ![u] = p] /\ UNCHANGED granted

\* Every step changes the accounts as AccountStep allows.
LEMMA AccountSteps == TypeOK /\ [Next]_vars => AccountStep
<1> SUFFICES ASSUME TypeOK, [Next]_vars PROVE AccountStep
  OBVIOUS
<1> USE DEF AccountStep
<1>1. ASSUME NEW r \in Requests, RequestStep(r) PROVE AccountStep
  BY <1>1 DEF RequestStep, Arrive, Lookup, Insert, Refetch, Answer500, Count, CommitJob
<1>2. ASSUME NEW j \in Jobs, JobStep(j) PROVE AccountStep
  BY <1>2 DEF JobStep, JobEnds, Deduct, JobRevives, FallsDue, TypeOK
<1>3. ASSUME NEW c \in Cleaners, CleanerStep(c) \/ (CleanerFails(c) /\ Keep)
      PROVE  AccountStep
  BY <1>3 DEF CleanerStep, CleanExpired, CleanHung, Keep
<1>4. CASE LockExpires /\ Keep
  BY <1>4 DEF Keep
<1>5. CASE UNCHANGED vars
  BY <1>5 DEF vars
<1> QED
  BY <1>1, <1>2, <1>3, <1>4, <1>5 DEF Next

\* What a user has is what deductions left of what the row began with.
PlanInv == \A u \in Ids : account[u] \in Lower(granted[u])

\* Every step keeps PlanInv, and the highest limit of a user.
LEMMA PlanStep ==
    ASSUME TypeOK, PlanInv, AccountStep
    PROVE  PlanInv' /\ \A u \in Ids : LimitOf(granted'[u]) = LimitOf(granted[u])
<1> SUFFICES ASSUME NEW u \in Ids
             PROVE  /\ account'[u] \in Lower(granted'[u])
                    /\ LimitOf(granted'[u]) = LimitOf(granted[u])
  BY DEF PlanInv
<1>0. account[u] \in Lower(granted[u]) /\ granted[u] \in Plans \union {"absent"}
  BY DEF PlanInv, TypeOK
<1>1. CASE UNCHANGED <<account, granted>>
  BY <1>0, <1>1
<1>2. ASSUME NEW r \in Requests, ~Conflict(caller[r]),
             account' = [account EXCEPT ![caller[r]] = "free"],
             granted' = [granted EXCEPT ![caller[r]] = "free"]
      PROVE  /\ account'[u] \in Lower(granted'[u])
             /\ LimitOf(granted'[u]) = LimitOf(granted[u])
  <2>1. CASE caller[r] = u
    <3>1. account[u] = "absent"
      BY <2>1, <1>2 DEF Conflict
    <3>2. granted[u] = "absent"
      BY <1>0, <3>1, LowerIsPlan
    <3>3. account'[u] = "free" /\ granted'[u] = "free"
      BY <1>2, <2>1 DEF TypeOK
    <3> QED
      BY <3>2, <3>3 DEF Lower, LimitOf
  <2>2. CASE caller[r] # u
    BY <1>0, <1>2, <2>2 DEF TypeOK
  <2> QED
    BY <2>1, <2>2
<1>3. ASSUME NEW v \in Ids, NEW p \in Lower(granted[v]),
             account' = [account EXCEPT ![v] = p], granted' = granted
      PROVE  /\ account'[u] \in Lower(granted'[u])
             /\ LimitOf(granted'[u]) = LimitOf(granted[u])
  BY <1>0, <1>3 DEF TypeOK
<1> QED
  BY <1>1, <1>2, <1>3 DEF AccountStep

\* At the start a user has what the row began with.
LEMMA PlanInit == Init => PlanInv
<1> SUFFICES ASSUME Init, NEW u \in Ids PROVE account[u] \in Lower(granted[u])
  BY DEF PlanInv
<1>1. account[u] \in Plans \union {"absent"} /\ granted = account
  BY DEF Init
<1> QED
  BY <1>1, LowerIsReflexive

\* A row that is there stays there.
LEMMA RowsStay ==
    ASSUME TypeOK, PlanInv, AccountStep, NEW u \in Ids, account[u] # "absent"
    PROVE  account'[u] # "absent"
<1>0. granted[u] \in Plans \union {"absent"} /\ account[u] \in Lower(granted[u])
  BY DEF PlanInv, TypeOK
<1>1. granted[u] \in Plans \union {"absent"} /\ granted[u] # "absent"
  BY <1>0, LowerIsPlan
<1>2. PlanInv'
  BY PlanStep
<1>3. granted'[u] = granted[u] \/ granted'[u] = "free"
  BY DEF AccountStep, TypeOK
<1> QED
  BY <1>1, <1>2, <1>3, LowerIsPlan DEF PlanInv, Plans

Taken(u) == \E v \in Ids \ {u} : account[v] # "absent" /\ EmailOf[v] = EmailOf[u]

\* After the INSERT there is a row for the caller or another one with his address.
Provisioned(r) ==
    /\ pc[r] = "refetch" => account[caller[r]] # "absent" \/ Taken(caller[r])
    /\ pc[r] = "failed" => Taken(caller[r])

ProvisionInv == \A r \in Requests : Provisioned(r)

\* An id or an address of e-mail, once taken, stays taken.
LEMMA TakenStays ==
    ASSUME TypeOK, PlanInv, AccountStep, NEW r \in Requests, caller'[r] = caller[r]
    PROVE  /\ Taken(caller[r]) => Taken(caller[r])'
           /\ account[caller[r]] # "absent" => (account[caller[r]] # "absent")'
<1>1. caller[r] \in Ids
  BY DEF TypeOK
<1> QED
  BY <1>1, RowsStay DEF Taken

\* Every step keeps ProvisionInv.
LEMMA ProvisionStep == TypeOK /\ PlanInv /\ ProvisionInv /\ [Next]_vars => ProvisionInv'
<1> SUFFICES ASSUME TypeOK, PlanInv, ProvisionInv, [Next]_vars, NEW q \in Requests
             PROVE  Provisioned(q)'
  BY DEF ProvisionInv
<1> USE DEF Provisioned
<1>0. AccountStep /\ caller[q] \in Ids /\ Provisioned(q)
  BY AccountSteps DEF TypeOK, ProvisionInv
<1>1. CASE pc'[q] = pc[q] /\ caller'[q] = caller[q]
  BY <1>0, <1>1, TakenStays
<1>2. CASE pc'[q] \notin {"refetch", "failed"}
  BY <1>2
<1>3. ASSUME NEW r \in Requests, RequestStep(r), q # r
      PROVE  pc'[q] = pc[q] /\ caller'[q] = caller[q]
  BY <1>3 DEF RequestStep, Arrive, Lookup, Insert, Refetch, Answer500, Count,
              CommitJob, Admit, Answer, Move, TypeOK
<1>4. CASE RequestStep(q)
  <2>1. CASE \/ \E u \in Callers : Arrive(q, u)
             \/ Lookup(q) \/ Answer500(q) \/ Count(q) \/ CommitJob(q)
    <3>1. pc'[q] \notin {"refetch", "failed"}
      BY <2>1 DEF Arrive, Lookup, Answer500, Count, CommitJob, Admit, Answer, Move, TypeOK
    <3> QED
      BY <1>2, <3>1
  <2>2. CASE Insert(q)
    <3>1. pc'[q] = "refetch" /\ caller' = caller
      BY <2>2 DEF Insert, Move, TypeOK
    <3>2. CASE Conflict(caller[q])
      <4>1. account[caller[q]] # "absent" \/ Taken(caller[q])
        BY <3>2 DEF Conflict, Taken
      <4> QED
        BY <1>0, <3>1, <4>1, TakenStays
    <3>3. CASE ~Conflict(caller[q])
      BY <1>0, <2>2, <3>1, <3>3 DEF Insert, TypeOK
    <3> QED
      BY <3>2, <3>3
  <2>3. CASE Refetch(q)
    <3>1. CASE account[caller[q]] = "absent"
      <4>1. Taken(caller[q]) /\ pc'[q] = "failed" /\ caller' = caller
        BY <1>0, <2>3, <3>1 DEF Refetch, Move, TypeOK
      <4> QED
        BY <1>0, <4>1, TakenStays
    <3>2. CASE account[caller[q]] # "absent"
      <4>1. pc'[q] \notin {"refetch", "failed"}
        BY <2>3, <3>2 DEF Refetch, Admit, Answer, Move, TypeOK
      <4> QED
        BY <1>2, <4>1
    <3> QED
      BY <3>1, <3>2
  <2> QED
    BY <1>4, <2>1, <2>2, <2>3 DEF RequestStep
<1>5. ASSUME NEW j \in Jobs, JobStep(j) PROVE pc'[q] = pc[q] /\ caller'[q] = caller[q]
  BY <1>5 DEF JobStep, JobEnds, Deduct, JobRevives, FallsDue, requestVars
<1>6. ASSUME NEW c \in Cleaners, CleanerStep(c) \/ (CleanerFails(c) /\ Keep)
      PROVE  pc'[q] = pc[q] /\ caller'[q] = caller[q]
  BY <1>6 DEF CleanerStep, CleanExpired, CleanHung, Keep, requestVars
<1>7. CASE LockExpires /\ Keep
  BY <1>1, <1>7 DEF Keep, requestVars
<1>8. CASE UNCHANGED vars
  BY <1>1, <1>8 DEF vars, requestVars
<1> QED
  BY <1>1, <1>3, <1>4, <1>5, <1>6, <1>7, <1>8 DEF Next

\* PlanInv holds in every state of every behaviour.
LEMMA PlanAlways == Spec => []PlanInv
<1>1. TypeOK /\ PlanInv /\ [Next]_vars => PlanInv'
  BY AccountSteps, PlanStep
<1> QED
  BY <1>1, PlanInit, TypeCorrect, PTL DEF Spec

\* A request whose INSERT was refused finds its user, unless another has the address.
THEOREM FailsOnlyIfTakenAlways == Spec => []FailsOnlyIfTaken
<1>1. Init => ProvisionInv
  BY DEF Init, ProvisionInv, Provisioned
<1>2. ProvisionInv => FailsOnlyIfTaken
  BY DEF ProvisionInv, Provisioned, FailsOnlyIfTaken, Taken
<1> QED
  BY <1>1, <1>2, ProvisionStep, PlanAlways, TypeCorrect, PTL DEF Spec

-----------------------------------------------------------------------------
(* The limit of active jobs *)

\* The highest limit of a user.
Highest(u) == LimitOf(granted[u])

\* What a request has loaded, and what a user has, is covered by his highest limit; a
\* request that passed the count did so when fewer rows than that were active.
LimitInv ==
    /\ PlanInv
    /\ \A r \in Requests :
          pc[r] \in {"count", "commit"} => LimitOf(loaded[r]) <= Highest(caller[r])
    /\ JobLimit

\* The sets that the limit compares can be counted.
LEMMA Finite ==
    ASSUME NEW u \in Ids
    PROVE  /\ IsFiniteSet(Unended(u)) /\ IsFiniteSet(Active(u))
           /\ IsFiniteSet(Admitted(u)) /\ IsFiniteSet(RequestsPresent)
           /\ Cardinality(Unended(u)) \in Nat /\ Cardinality(Active(u)) \in Nat
           /\ Cardinality(Admitted(u)) \in Nat
           /\ Cardinality(RequestsPresent) \in Nat
<1>1. /\ Unended(u) \in SUBSET Jobs /\ Active(u) \in SUBSET Jobs
      /\ Admitted(u) \in SUBSET Requests /\ RequestsPresent \in SUBSET Requests
  BY DEF Unended, Active, Admitted, RequestsPresent
<1> QED
  BY <1>1, FS_Subset, FS_CardinalityType

\* While neither set grows the limit holds.
LEMMA CountsFall ==
    ASSUME LimitInv, TypeOK, NEW u \in Ids,
           Unended(u)' \subseteq Unended(u), Admitted(u)' \subseteq Admitted(u)
    PROVE  Cardinality(Unended(u)') + Cardinality(Admitted(u)')
               <= Highest(u) - 1 + Cardinality(RequestsPresent)
<1>1. /\ IsFiniteSet(Unended(u)') /\ Cardinality(Unended(u)') <= Cardinality(Unended(u))
      /\ IsFiniteSet(Admitted(u)')
      /\ Cardinality(Admitted(u)') <= Cardinality(Admitted(u))
  BY Finite, FS_Subset
<1>2. /\ Cardinality(Unended(u)') \in Nat /\ Cardinality(Admitted(u)') \in Nat
  BY <1>1, FS_CardinalityType
<1>3. Highest(u) \in Nat
  BY DEF Highest, LimitOf
<1> QED
  BY <1>1, <1>2, <1>3, Finite DEF LimitInv, JobLimit, Highest

\* A limit is a natural number, and what a user has does not exceed the highest.
LEMMA LimitsKnown ==
    ASSUME TypeOK, PlanInv, NEW u \in Ids
    PROVE  /\ Highest(u) \in Nat \ {0} /\ LimitOf(account[u]) <= Highest(u)
           /\ \A plan : LimitOf(plan) \in Nat \ {0}
<1>1. account[u] \in Lower(granted[u]) /\ granted[u] \in Plans \union {"absent"}
  BY DEF PlanInv, TypeOK
<1>2. LimitOf(account[u]) <= LimitOf(granted[u])
  BY <1>1, LowerIsPlan
<1> QED
  BY <1>2 DEF Highest, LimitOf

\* LimitInv holds initially: there is no job.
LEMMA LimitInit == Init => LimitInv
<1> SUFFICES ASSUME Init PROVE LimitInv
  OBVIOUS
<1>1. ASSUME NEW u \in Ids
      PROVE  /\ Unended(u) = {} /\ Admitted(u) = {}
             /\ LimitOf(granted[u]) \in Nat \ {0}
  BY <1>1 DEF Init, Unended, Admitted, LimitOf
<1>2. JobLimit
  BY <1>1, Finite, FS_EmptySet DEF JobLimit
<1>3. \A r \in Requests : pc[r] \notin {"count", "commit"}
  BY DEF Init
<1> QED
  BY <1>2, <1>3, PlanInit DEF LimitInv

-----------------------------------------------------------------------------
\* A step of a request keeps LimitInv: what one adds to the rows it takes from the requests.
LEMMA RequestLimit ==
    ASSUME TypeOK, TypeOK', LimitInv, AccountStep, NEW r \in Requests, RequestStep(r)
    PROVE  LimitInv'
<1> DEFINE c == caller[r]
<1> USE DEF requestVars, rowVars
<1>0. /\ c \in Ids /\ LimitOf(account[c]) <= Highest(c)
      /\ \A u \in Ids : Highest(u)' = Highest(u)
      /\ PlanInv'
  BY LimitsKnown, PlanStep DEF TypeOK, LimitInv, Highest
<1>1. RequestsPresent' = RequestsPresent
  BY DEF RequestStep, Arrive, Lookup, Insert, Refetch, Answer500, Count, CommitJob,
         Admit, Answer, Move, TypeOK, RequestsPresent
<1>2. \A q \in Requests \ {r} :
          pc'[q] = pc[q] /\ caller'[q] = caller[q] /\ loaded'[q] = loaded[q]
  BY DEF RequestStep, Arrive, Lookup, Insert, Refetch, Answer500, Count, CommitJob,
         Admit, Answer, Move, TypeOK
<1>3. pc'[r] \in {"count", "commit"} => LimitOf(loaded'[r]) <= Highest(caller'[r])
  BY <1>0 DEF RequestStep, Arrive, Lookup, Insert, Refetch, Answer500, Count,
         CommitJob, Admit, Answer, Move, TypeOK, LimitInv
<1>4. ASSUME NEW u \in Ids
      PROVE  Cardinality(Unended(u)') + Cardinality(Admitted(u)')
                 <= Highest(u) - 1 + Cardinality(RequestsPresent)
  <2>1. CASE pc'[r] # "commit" /\ rowVars' = rowVars
    <3>1. Unended(u)' = Unended(u)
      BY <2>1 DEF Unended
    <3>2. Admitted(u)' \subseteq Admitted(u)
      BY <1>2, <2>1 DEF Admitted
    <3> QED
      BY <3>1, <3>2, CountsFall
  <2>2. CASE Count(r) /\ pc'[r] = "commit"
    <3>1. Cardinality(Active(c)) < LimitOf(loaded[r]) /\ rowVars' = rowVars
             /\ caller' = caller /\ pc[r] = "count"
      <4>1. Cardinality(Active(c)) \in Nat /\ LimitOf(loaded[r]) \in Nat
        BY <1>0, Finite DEF LimitOf
      <4> QED
        BY <2>2, <4>1 DEF Count, Answer, Move, TypeOK
    <3>2. Unended(u)' = Unended(u)
      BY <3>1 DEF Unended
    <3>3. CASE u # c
      <4>1. Admitted(u)' \subseteq Admitted(u)
        BY <1>2, <3>1, <3>3 DEF Admitted
      <4> QED
        BY <3>2, <4>1, CountsFall
    <3>4. CASE u = c
      <4>1. Unended(u) \subseteq Active(u)
        BY DEF Unended, Active
      <4>2. Cardinality(Unended(u)) <= Cardinality(Active(u))
        BY <4>1, Finite, FS_Subset
      <4>3. LimitOf(loaded[r]) <= Highest(u) /\ LimitOf(loaded[r]) \in Nat /\ Highest(u) \in Nat
        BY <3>1, <3>4, LimitsKnown DEF LimitInv
      <4>4. Admitted(u)' \subseteq RequestsPresent
        BY <1>1 DEF Admitted, RequestsPresent
      <4>5. IsFiniteSet(Admitted(u)')
               /\ Cardinality(Admitted(u)') <= Cardinality(RequestsPresent)
        BY <4>4, Finite, FS_Subset
      <4>6. Cardinality(Admitted(u)') \in Nat
        BY <4>5, FS_CardinalityType
      <4> QED
        BY <3>1, <3>2, <3>4, <4>2, <4>3, <4>5, <4>6, Finite
    <3> QED
      BY <3>3, <3>4
  <2>3. CASE CommitJob(r)
    <3>1. PICK j \in Fresh : /\ status' = [status EXCEPT ![j] = "active"]
                             /\ owner' = [owner EXCEPT ![j] = c]
      BY <2>3 DEF CommitJob
    <3>2. pc[r] = "commit" /\ pc'[r] = "idle" /\ caller' = caller
      BY <2>3 DEF CommitJob, Answer, Move, TypeOK
    <3>3. CASE u # c
      <4>1. Unended(u)' \subseteq Unended(u)
        BY <3>1, <3>3 DEF Unended, Fresh, TypeOK
      <4>2. Admitted(u)' \subseteq Admitted(u)
        BY <1>2, <3>2 DEF Admitted
      <4> QED
        BY <4>1, <4>2, CountsFall
    <3>4. CASE u = c
      <4>1. Unended(u)' = Unended(u) \union {j} /\ j \notin Unended(u)
        BY <3>1, <3>4 DEF Unended, Fresh, TypeOK
      <4>2. Admitted(u)' = Admitted(u) \ {r} /\ r \in Admitted(u)
        BY <1>2, <3>2, <3>4 DEF Admitted
      <4>3. Cardinality(Unended(u)') = Cardinality(Unended(u)) + 1
        BY <4>1, Finite, FS_AddElement
      <4>4. Cardinality(Admitted(u)') = Cardinality(Admitted(u)) - 1
        <5>1. IsFiniteSet(Admitted(u)) /\ r \in Admitted(u)
          BY <4>2, Finite
        <5>2. Cardinality(Admitted(u) \ {r}) = Cardinality(Admitted(u)) - 1
          BY <5>1, FS_RemoveElement
        <5> QED
          BY <4>2, <5>2
      <4>5. Highest(u) \in Nat
        BY LimitsKnown DEF LimitInv
      <4> QED
        BY <3>4, <4>3, <4>4, <4>5, Finite DEF LimitInv, JobLimit, Highest
    <3> QED
      BY <3>3, <3>4
  <2> QED
    BY <2>1, <2>2, <2>3 DEF RequestStep, Arrive, Lookup, Insert, Refetch, Answer500,
         Count, Admit, Answer, Move, TypeOK
<1>5. \A q \in Requests : pc'[q] \in {"count", "commit"}
          => LimitOf(loaded'[q]) <= Highest(caller'[q])
  BY <1>2, <1>3 DEF LimitInv
<1> QED
  <2>1. \A q \in Requests : caller'[q] \in Ids
    BY DEF TypeOK
  <2>2. \A q \in Requests : pc'[q] \in {"count", "commit"}
            => LimitOf(loaded'[q]) <= (Highest(caller[q]))'
    BY <1>0, <1>5, <2>1 DEF Highest
  <2>3. JobLimit'
    BY <1>0, <1>1, <1>4 DEF JobLimit, Highest
  <2> QED
    BY <1>0, <2>2, <2>3 DEF LimitInv

\* Every other step takes rows away from the count, or none.
LEMMA OtherLimit ==
    ASSUME TypeOK, LimitInv, AccountStep, UNCHANGED requestVars,
           \A j \in Jobs : (status[j] = "active" /\ owner[j] = owner'[j])
                               \/ status'[j] # "active"
    PROVE  LimitInv'
<1> USE DEF requestVars
<1>1. RequestsPresent' = RequestsPresent
  BY DEF RequestsPresent
<1>2. ASSUME NEW u \in Ids
      PROVE  Unended(u)' \subseteq Unended(u) /\ Admitted(u)' \subseteq Admitted(u)
  BY DEF Unended, Admitted
<1> QED
  <2>1. PlanInv' /\ \A u \in Ids : Highest(u)' = Highest(u)
    BY PlanStep DEF LimitInv, Highest
  <2>2. JobLimit'
    BY <1>1, <1>2, <2>1, CountsFall DEF JobLimit, Highest
  <2>3. \A r \in Requests : pc'[r] \in {"count", "commit"}
            => LimitOf(loaded'[r]) <= (Highest(caller[r]))'
    <3>1. \A r \in Requests : caller[r] \in Ids
      BY DEF TypeOK
    <3> QED
      BY <2>1, <3>1 DEF LimitInv, Highest
  <2> QED
    BY <2>1, <2>2, <2>3 DEF LimitInv

\* Every step keeps LimitInv.
LEMMA LimitStep == TypeOK /\ TypeOK' /\ LimitInv /\ [Next]_vars => LimitInv'
<1> SUFFICES ASSUME TypeOK, TypeOK', LimitInv, [Next]_vars PROVE LimitInv'
  OBVIOUS
<1> USE DEF requestVars, rowVars
<1>0. AccountStep
  BY AccountSteps
<1>1. ASSUME NEW r \in Requests, RequestStep(r) PROVE LimitInv'
  BY <1>0, <1>1, RequestLimit
<1>2. ASSUME NEW j \in Jobs, JobStep(j) PROVE LimitInv'
  BY <1>0, <1>2, OtherLimit DEF JobStep, JobEnds, Deduct, JobRevives, FallsDue, TypeOK
<1>3. ASSUME NEW c \in Cleaners, CleanerStep(c) \/ (CleanerFails(c) /\ Keep)
      PROVE  LimitInv'
  BY <1>0, <1>3, OtherLimit DEF CleanerStep, CleanExpired, CleanHung, Keep, TypeOK
<1>4. CASE LockExpires /\ Keep
  BY <1>0, <1>4, OtherLimit DEF Keep
<1>5. CASE UNCHANGED vars
  BY <1>0, <1>5, OtherLimit DEF vars
<1> QED
  BY <1>1, <1>2, <1>3, <1>4, <1>5 DEF Next

\* However the counts and the commits of concurrent requests interleave, a user passes
\* the limit by at most the requests under way less one.
THEOREM JobLimitAlways == Spec => []JobLimit
<1>1. LimitInv => JobLimit
  BY DEF LimitInv
<1> QED
  BY <1>1, LimitInit, LimitStep, TypeCorrect, PTL DEF Spec
=============================================================================
