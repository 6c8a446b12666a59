----------------------- MODULE SpiderPipelineProofs -----------------------
(***************************************************************************)
(* Theorems about SpiderPipeline for any channels, addresses, number of    *)
(* workers, target and queue size.                                         *)
(***************************************************************************)
EXTENDS SpiderPipeline, FiniteSetTheorems, TLAPS

USE ConstantsAssumption

\* What the workers have counted and what they have stored: every address on its
\* way to push_data_fn is counted once in seen_emails and has no row yet, and no
\* two workers push the same one.  That is why a row may be added long after the
\* check without another look at the target.
Counted ==
    /\ total = Cardinality(seenEmails)
    /\ total <= MaxEmails
    /\ tracker = Cardinality(rows)
    /\ rows \subseteq seenEmails
    /\ \A w \in Fetchers : At(w, "push") => email[w] \in seenEmails \ rows
    /\ \A v, w \in Fetchers : At(v, "push") /\ At(w, "push") /\ email[v] = email[w] => v = w

\* Nobody works once run is over.
AllOff ==
    main \in {"returned", "cancelled"} => \A w \in Fetchers : At(w, "off")

-----------------------------------------------------------------------------
(* Typing *)

\* The initial state is well typed.
LEMMA TypeInit == Init => TypeOK
<1> SUFFICES ASSUME Init PROVE TypeOK
  OBVIOUS
<1>1. channelQueue \in Seq(Channels)
  BY DEF Init
<1>2. /\ fetcher \in [Fetchers -> {"top", "get", "fetch", "channel", "email", "push",
                                   "commit", "off"}]
      /\ batch \in [Fetchers -> SUBSET Channels]
      /\ emails \in [Fetchers -> SUBSET Emails]
      /\ email \in [Fetchers -> Emails \union {Nobody}]
  BY DEF Init
<1>3. /\ main \in {"poll", "grace", "returned", "cancelled"}
      /\ stop \in BOOLEAN
      /\ producer \in {"loop", "feed", "off"}
      /\ batches \in Nat /\ total \in Nat /\ tracker \in Nat
      /\ pending \subseteq Channels /\ seenChannels \subseteq Channels
      /\ seenEmails \subseteq Emails /\ rows \subseteq Emails
      /\ dbLock \in Fetchers \union {Nobody}
  BY DEF Init
<1> QED
  BY <1>1, <1>2, <1>3 DEF TypeOK

\* Every step of every task keeps the variables in their types.
LEMMA TypeStep ==
    ASSUME TypeOK, Counted, [Next]_vars
    PROVE  TypeOK'
<1> USE DEF TypeOK, Goto, mainVars, producerVars, fetchVars, countVars, pushVars
<1>1. CASE UNCHANGED vars
  BY <1>1 DEF vars
<1>2. CASE ProducerStops
  BY <1>2 DEF ProducerStops
<1>3. CASE Search
  BY <1>3 DEF Search
<1>4. ASSUME NEW c \in Channels, Feed(c)
      PROVE  TypeOK'
  BY <1>4 DEF Feed
<1>5. CASE SeesStop
  BY <1>5 DEF SeesStop
<1>6. ASSUME NEW outcome \in {"returned", "cancelled"}, Shutdown(outcome)
      PROVE  TypeOK'
  BY <1>6 DEF Shutdown
<1>7. ASSUME NEW w \in Fetchers, FetcherTop(w)
      PROVE  TypeOK'
  BY <1>7 DEF FetcherTop
<1>8. ASSUME NEW w \in Fetchers, GetTimeout(w)
      PROVE  TypeOK'
  BY <1>8 DEF GetTimeout
<1>9. ASSUME NEW w \in Fetchers, GetBatch(w)
      PROVE  TypeOK'
  <2> DEFINE len == Len(channelQueue)
             n == IF len < BatchSize THEN len ELSE BatchSize
  <2>1. len \in Nat /\ n \in Nat /\ n <= len
    OBVIOUS
  <2>2. {channelQueue[i] : i \in 1..n} \subseteq Channels
    BY <2>1
  <2>3. SubSeq(channelQueue, n + 1, len) \in Seq(Channels)
    BY <2>1
  <2> QED
    BY <1>9, <2>2, <2>3 DEF GetBatch
<1>10. ASSUME NEW w \in Fetchers, Fetched(w)
       PROVE  TypeOK'
  BY <1>10 DEF Fetched
<1>11. ASSUME NEW w \in Fetchers, Extract(w)
       PROVE  TypeOK'
  BY <1>11 DEF Extract
<1>12. ASSUME NEW w \in Fetchers, NEW e \in Emails, AddEmail(w, e)
       PROVE  TypeOK'
  BY <1>12 DEF AddEmail
<1>13. ASSUME NEW w \in Fetchers, EmailsDone(w)
       PROVE  TypeOK'
  BY <1>13 DEF EmailsDone
<1>14. ASSUME NEW w \in Fetchers, PushRow(w)
       PROVE  TypeOK'
  BY <1>14 DEF PushRow, Counted, At
<1>15. ASSUME NEW w \in Fetchers, PushDone(w)
       PROVE  TypeOK'
  BY <1>15 DEF PushDone
<1> QED
  BY <1>1, <1>2, <1>3, <1>4, <1>5, <1>6, <1>7, <1>8, <1>9, <1>10, <1>11, <1>12, <1>13, <1>14, <1>15
  DEF Next, ProducerStep, MainStep, FetcherStep, GraceOver, TimeIsUp, ExternalCancel

\* A step of the event loop keeps Counted: the check and both counters move
\* together in AddEmail, and PushRow only moves an address from one set to the other.
LEMMA CountedStep ==
    ASSUME TypeOK, Counted, [Next]_vars
    PROVE  Counted'
<1> USE DEF Counted, At, Goto, mainVars, producerVars, fetchVars, countVars, pushVars
<1>0. /\ IsFiniteSet(seenEmails) /\ IsFiniteSet(rows)
      /\ total \in Nat /\ tracker \in Nat
      /\ fetcher \in [Fetchers -> {"top", "get", "fetch", "channel", "email", "push",
                                   "commit", "off"}]
      /\ email \in [Fetchers -> Emails \union {Nobody}]
  BY FS_Subset DEF TypeOK
<1>1. CASE UNCHANGED vars
  BY <1>0, <1>1 DEF vars
<1>2. CASE ProducerStops
  BY <1>0, <1>2 DEF ProducerStops
<1>3. CASE Search
  BY <1>0, <1>3 DEF Search
<1>4. ASSUME NEW c \in Channels, Feed(c)
      PROVE  Counted'
  BY <1>0, <1>4 DEF Feed
<1>5. CASE SeesStop
  BY <1>0, <1>5 DEF SeesStop
<1>6. ASSUME NEW outcome \in {"returned", "cancelled"}, Shutdown(outcome)
      PROVE  Counted'
  BY <1>0, <1>6 DEF Shutdown
<1>7. ASSUME NEW w \in Fetchers, FetcherTop(w)
      PROVE  Counted'
  BY <1>0, <1>7 DEF FetcherTop
<1>8. ASSUME NEW w \in Fetchers, GetTimeout(w)
      PROVE  Counted'
  BY <1>0, <1>8 DEF GetTimeout
<1>9. ASSUME NEW w \in Fetchers, GetBatch(w)
      PROVE  Counted'
  BY <1>0, <1>9 DEF GetBatch
<1>10. ASSUME NEW w \in Fetchers, Fetched(w)
       PROVE  Counted'
  BY <1>0, <1>10 DEF Fetched
<1>11. ASSUME NEW w \in Fetchers, Extract(w)
       PROVE  Counted'
  BY <1>0, <1>11 DEF Extract
<1>12. ASSUME NEW w \in Fetchers, NEW e \in Emails, AddEmail(w, e)
       PROVE  Counted'
  <2>1. /\ e \notin seenEmails /\ total < MaxEmails /\ ~At(w, "push")
        /\ seenEmails' = seenEmails \union {e} /\ total' = total + 1
        /\ email' = [email EXCEPT ![w] = e] /\ fetcher' = [fetcher EXCEPT ![w] = "push"]
        /\ UNCHANGED <<tracker, rows>>
    BY <1>12 DEF AddEmail, RoomLeft, Unseen
  <2>2. total' = Cardinality(seenEmails')
    BY <1>0, <2>1, FS_AddElement
  <2>3. \A v \in Fetchers \ {w} :
           (At(v, "push")' <=> At(v, "push")) /\ email'[v] = email[v]
    BY <1>0, <2>1
  <2>4. email'[w] = e
    BY <1>0, <2>1
  <2> QED
    BY <1>0, <2>1, <2>2, <2>3, <2>4
<1>13. ASSUME NEW w \in Fetchers, EmailsDone(w)
       PROVE  Counted'
  BY <1>0, <1>13 DEF EmailsDone
<1>14. ASSUME NEW w \in Fetchers, PushRow(w)
       PROVE  Counted'
  <2>1. /\ At(w, "push") /\ rows' = rows \union {email[w]} /\ tracker' = tracker + 1
        /\ fetcher' = [fetcher EXCEPT ![w] = "commit"]
        /\ UNCHANGED <<email, seenEmails, total>>
    BY <1>14 DEF PushRow
  <2>2. email[w] \in seenEmails \ rows
    BY <2>1
  <2>3. tracker' = Cardinality(rows')
    BY <1>0, <2>1, <2>2, FS_AddElement
  <2>4. \A v \in Fetchers : At(v, "push")' => v # w /\ At(v, "push")
    BY <1>0, <2>1
  <2>5. \A v \in Fetchers : At(v, "push")' => email[v] # email[w]
    BY <2>1, <2>4
  <2> QED
    BY <1>0, <2>1, <2>2, <2>3, <2>4, <2>5
<1>15. ASSUME NEW w \in Fetchers, PushDone(w)
       PROVE  Counted'
  BY <1>0, <1>15 DEF PushDone
<1> QED
  BY <1>1, <1>2, <1>3, <1>4, <1>5, <1>6, <1>7, <1>8, <1>9, <1>10, <1>11, <1>12, <1>13, <1>14, <1>15
  DEF Next, ProducerStep, MainStep, FetcherStep, GraceOver, TimeIsUp, ExternalCancel

\* Once run has returned or was cancelled no task takes a step.
LEMMA AllOffStep ==
    ASSUME TypeOK, AllOff, [Next]_vars
    PROVE  AllOff'
<1> USE DEF AllOff, At, Goto, mainVars, producerVars, fetchVars, countVars, pushVars
<1>0. /\ fetcher \in [Fetchers -> {"top", "get", "fetch", "channel", "email", "push",
                                   "commit", "off"}]
      /\ main \in {"poll", "grace", "returned", "cancelled"}
  BY DEF TypeOK
<1>1. CASE UNCHANGED vars
  BY <1>0, <1>1 DEF vars
<1>2. CASE ProducerStops
  BY <1>0, <1>2 DEF ProducerStops
<1>3. CASE Search
  BY <1>0, <1>3 DEF Search
<1>4. ASSUME NEW c \in Channels, Feed(c)
      PROVE  AllOff'
  BY <1>0, <1>4 DEF Feed
<1>5. CASE SeesStop
  BY <1>0, <1>5 DEF SeesStop
<1>6. ASSUME NEW outcome \in {"returned", "cancelled"}, Shutdown(outcome)
      PROVE  AllOff'
  BY <1>0, <1>6 DEF Shutdown
<1>7. ASSUME NEW w \in Fetchers, FetcherTop(w)
      PROVE  AllOff'
  BY <1>0, <1>7 DEF FetcherTop
<1>8. ASSUME NEW w \in Fetchers, GetTimeout(w)
      PROVE  AllOff'
  BY <1>0, <1>8 DEF GetTimeout
<1>9. ASSUME NEW w \in Fetchers, GetBatch(w)
      PROVE  AllOff'
  BY <1>0, <1>9 DEF GetBatch
<1>10. ASSUME NEW w \in Fetchers, Fetched(w)
       PROVE  AllOff'
  BY <1>0, <1>10 DEF Fetched
<1>11. ASSUME NEW w \in Fetchers, Extract(w)
       PROVE  AllOff'
  BY <1>0, <1>11 DEF Extract
<1>12. ASSUME NEW w \in Fetchers, NEW e \in Emails, AddEmail(w, e)
       PROVE  AllOff'
  BY <1>0, <1>12 DEF AddEmail
<1>13. ASSUME NEW w \in Fetchers, EmailsDone(w)
       PROVE  AllOff'
  BY <1>0, <1>13 DEF EmailsDone
<1>14. ASSUME NEW w \in Fetchers, PushRow(w)
       PROVE  AllOff'
  BY <1>0, <1>14 DEF PushRow
<1>15. ASSUME NEW w \in Fetchers, PushDone(w)
       PROVE  AllOff'
  BY <1>0, <1>15 DEF PushDone
<1> QED
  BY <1>1, <1>2, <1>3, <1>4, <1>5, <1>6, <1>7, <1>8, <1>9, <1>10, <1>11, <1>12, <1>13, <1>14, <1>15
  DEF Next, ProducerStep, MainStep, FetcherStep, GraceOver, TimeIsUp, ExternalCancel

-----------------------------------------------------------------------------
(* What a cut run loses *)

\* Every step keeps what was counted stored or in somebody's hands: a worker that has an
\* address at push_data_fn finds no other before it is stored.
LEMMA InFlightStep ==
    ASSUME TypeOK, LostInFlight, [Next]_vars
    PROVE  LostInFlight'
<1> USE DEF LostInFlight, At, Goto, mainVars, producerVars, fetchVars, countVars, pushVars
<1>0. /\ fetcher \in [Fetchers -> {"top", "get", "fetch", "channel", "email", "push",
                                   "commit", "off"}]
      /\ email \in [Fetchers -> Emails \union {Nobody}]
  BY DEF TypeOK
<1>1. ASSUME UNCHANGED <<seenEmails, rows, fetcher, email>> PROVE LostInFlight'
  BY <1>1
\* A worker moves that has none in its hands.
<1>2. ASSUME NEW w \in Fetchers, NEW to, fetcher[w] \notin {"push", "off"},
             fetcher' = [fetcher EXCEPT ![w] = to],
             \/ email' = email
             \/ \E e : email' = [email EXCEPT ![w] = e],
             UNCHANGED <<seenEmails, rows>>
      PROVE  LostInFlight'
  <2>1. \A v \in Fetchers \ {w} : fetcher'[v] = fetcher[v] /\ email'[v] = email[v]
    BY <1>0, <1>2
  <2> QED
    BY <1>2, <2>1
<1>3. CASE ProducerStep
  BY <1>1, <1>3 DEF ProducerStep, ProducerStops, Search, Feed
<1>4. CASE SeesStop
  BY <1>1, <1>4 DEF SeesStop
<1>5. ASSUME NEW outcome, Shutdown(outcome) PROVE LostInFlight'
  BY <1>5 DEF Shutdown
<1>6. ASSUME NEW w \in Fetchers,
             FetcherTop(w) \/ GetTimeout(w) \/ GetBatch(w) \/ Fetched(w) \/ Extract(w)
               \/ EmailsDone(w) \/ PushDone(w)
      PROVE  LostInFlight'
  <2>1. fetcher[w] \notin {"push", "off"} /\ UNCHANGED <<seenEmails, rows>>
    BY <1>6 DEF FetcherTop, GetTimeout, GetBatch, Fetched, Extract, EmailsDone, PushDone
  <2>2. \E to : fetcher' = [fetcher EXCEPT ![w] = to]
    BY <1>6 DEF FetcherTop, GetTimeout, GetBatch, Fetched, Extract, EmailsDone, PushDone
  <2>3. email' = email \/ \E e : email' = [email EXCEPT ![w] = e]
    BY <1>6 DEF FetcherTop, GetTimeout, GetBatch, Fetched, Extract, EmailsDone, PushDone
  <2> QED
    BY <1>2, <2>1, <2>2, <2>3
<1>7. ASSUME NEW w \in Fetchers, NEW e \in Emails, AddEmail(w, e) PROVE LostInFlight'
  <2>1. /\ fetcher[w] = "email" /\ fetcher' = [fetcher EXCEPT ![w] = "push"]
        /\ email' = [email EXCEPT ![w] = e]
        /\ seenEmails' = seenEmails \union {e} /\ rows' = rows
    BY <1>7 DEF AddEmail
  <2>2. fetcher'[w] = "push" /\ email'[w] = e
    BY <1>0, <2>1
  <2>3. \A v \in Fetchers \ {w} : fetcher'[v] = fetcher[v] /\ email'[v] = email[v]
    BY <1>0, <2>1
  <2> QED
    BY <2>1, <2>2, <2>3
<1>8. ASSUME NEW w \in Fetchers, PushRow(w) PROVE LostInFlight'
  <2>1. /\ rows' = rows \union {email[w]} /\ UNCHANGED <<seenEmails, email>>
        /\ fetcher' = [fetcher EXCEPT ![w] = "commit"]
    BY <1>8 DEF PushRow
  <2>2. \A v \in Fetchers \ {w} : fetcher'[v] = fetcher[v]
    BY <1>0, <2>1
  <2> QED
    BY <2>1, <2>2
<1>9. CASE UNCHANGED vars
  BY <1>1, <1>9 DEF vars
<1> QED
  BY <1>3, <1>4, <1>5, <1>6, <1>7, <1>8, <1>9
  DEF Next, MainStep, FetcherStep, GraceOver, TimeIsUp, ExternalCancel

-----------------------------------------------------------------------------
(* Theorems *)

\* The inductive invariant of the pipeline.
IInv == TypeOK /\ Counted /\ AllOff

\* IInv holds in every reachable state.
LEMMA Invariant == Spec => []IInv
<1>1. Init => IInv
  <2>1. Init => Counted
    BY FS_EmptySet DEF Init, Counted, At
  <2>2. Init => AllOff
    BY DEF Init, AllOff
  <2> QED
    BY <2>1, <2>2, TypeInit DEF IInv
<1>2. IInv /\ [Next]_vars => IInv'
  BY TypeStep, CountedStep, AllOffStep DEF IInv
<1> QED
  BY <1>1, <1>2, PTL DEF Spec

\* TypeOK is an invariant.
THEOREM TypeCorrect == Spec => []TypeOK
<1>1. IInv => TypeOK
  BY DEF IInv
<1> QED
  BY Invariant, <1>1, PTL

\* What has a row is part of what was counted, so rows never outnumber the target.
LEMMA RowsBounded ==
    ASSUME TypeOK, Counted
    PROVE  tracker <= total /\ total <= MaxEmails
<1>1. IsFiniteSet(seenEmails)
  BY FS_Subset DEF TypeOK
<1>2. Cardinality(rows) <= Cardinality(seenEmails)
  BY <1>1, FS_Subset DEF Counted
<1> QED
  BY <1>2 DEF Counted

\* With any number of workers, a job is never charged for more addresses than its
\* cap, although the cap is checked before an await and the row is added after it.
THEOREM WithinTargetAlways == Spec => []WithinTarget
<1>1. IInv => WithinTarget
  <2> SUFFICES ASSUME IInv PROVE WithinTarget
    OBVIOUS
  <2>1. tracker <= total /\ total <= MaxEmails /\ tracker \in Nat /\ total \in Nat
    BY RowsBounded DEF IInv, TypeOK
  <2> QED
    BY <2>1 DEF WithinTarget
<1> QED
  BY Invariant, <1>1, PTL

\* No two rows of a job hold the same address.
THEOREM DistinctRowsAlways == Spec => []DistinctRows
<1>1. IInv => DistinctRows
  BY DEF IInv, Counted, DistinctRows
<1> QED
  BY Invariant, <1>1, PTL

\* Whatever cuts a run, an address that was found and not stored was in the hands of a
\* worker at that moment.
THEOREM LostInFlightAlways == Spec => []LostInFlight
<1>1. Init => LostInFlight
  BY DEF Init, LostInFlight
<1>2. TypeOK /\ LostInFlight /\ [Next]_vars => LostInFlight'
  BY InFlightStep
<1> QED
  BY TypeCorrect, <1>1, <1>2, PTL DEF Spec

\* So a run that is cut has found at most one address per worker more than the job has
\* rows and is charged for.
THEOREM LossBounded ==
    ASSUME IsFiniteSet(Fetchers)
    PROVE  Spec => [](total <= tracker + Cardinality(Fetchers))
<1>1. IInv /\ LostInFlight => total <= tracker + Cardinality(Fetchers)
  <2> SUFFICES ASSUME IInv, LostInFlight
               PROVE  total <= tracker + Cardinality(Fetchers)
    OBVIOUS
  <2> DEFINE held == {email[w] : w \in Fetchers}
             lost == seenEmails \ rows
  <2>1. IsFiniteSet(seenEmails) /\ IsFiniteSet(rows)
    BY FS_Subset DEF IInv, TypeOK
  <2>2. email \in Surjection(Fetchers, held)
    BY DEF Surjection, IInv, TypeOK
  <2>3. IsFiniteSet(held) /\ Cardinality(held) <= Cardinality(Fetchers)
    BY <2>2, FS_Surjection
  <2>4. lost \subseteq held
    BY DEF LostInFlight
  <2>5. Cardinality(lost) <= Cardinality(held)
    BY <2>3, <2>4, FS_Subset
  <2>6. Cardinality(lost) = Cardinality(seenEmails) - Cardinality(rows)
    <3>1. seenEmails \cap rows = rows
      BY DEF IInv, Counted
    <3> QED
      BY <2>1, <3>1, FS_Difference
  <2>7. /\ Cardinality(seenEmails) \in Nat /\ Cardinality(rows) \in Nat
        /\ Cardinality(lost) \in Nat /\ Cardinality(held) \in Nat
        /\ Cardinality(Fetchers) \in Nat
    BY <2>1, <2>3, <2>4, FS_CardinalityType, FS_Subset
  <2> QED
    BY <2>3, <2>5, <2>6, <2>7 DEF IInv, Counted
<1> QED
  BY Invariant, LostInFlightAlways, <1>1, PTL

\* A step of the pipeline is a step of Collector or leaves it alone.
LEMMA CollectorStep ==
    ASSUME IInv, [Next]_vars
    PROVE  [Promise!Next]_<<rows, tracker, main \in {"poll", "grace"}>>
<1> USE DEF mainVars, producerVars, fetchVars, countVars, pushVars
<1>0. TypeOK /\ Counted /\ AllOff
  BY DEF IInv
<1>1. ASSUME UNCHANGED <<rows, tracker>>, UNCHANGED main
      PROVE  UNCHANGED <<rows, tracker, main \in {"poll", "grace"}>>
  BY <1>1
<1>2. ASSUME NEW w \in Fetchers, PushRow(w)
      PROVE  Promise!Next
  <2> DEFINE e == email[w]
  <2>1. /\ At(w, "push") /\ rows' = rows \union {e} /\ tracker' = tracker + 1
        /\ UNCHANGED main
    BY <1>2 DEF PushRow
  <2>2. e \in seenEmails \ rows /\ e \in Emails
    BY <1>0, <2>1 DEF Counted, TypeOK
  <2>3. main \in {"poll", "grace"}
    BY <1>0, <2>1 DEF AllOff, At, TypeOK
  <2>4. tracker < MaxEmails
    <3>1. IsFiniteSet(seenEmails) /\ IsFiniteSet(rows)
      BY <1>0, FS_Subset DEF TypeOK, Counted
    <3>2. /\ Cardinality(rows \union {e}) = Cardinality(rows) + 1
          /\ IsFiniteSet(rows \union {e})
      BY <2>2, <3>1, FS_AddElement
    <3>3. Cardinality(rows \union {e}) <= Cardinality(seenEmails)
      BY <1>0, <2>2, <3>1, FS_Subset DEF Counted
    <3>4. Cardinality(rows) \in Nat /\ Cardinality(seenEmails) \in Nat
      BY <3>1, FS_CardinalityType
    <3> QED
      BY <1>0, <3>2, <3>3, <3>4 DEF Counted
  <2>5. UNCHANGED (main \in {"poll", "grace"})
    BY <2>1
  <2>6. Promise!Collect(e)
    BY <2>1, <2>2, <2>3, <2>4, <2>5 DEF Promise!Collect
  <2> QED
    BY <2>2, <2>6 DEF Promise!Next
<1>3. ASSUME NEW outcome \in {"returned", "cancelled"}, main \in {"poll", "grace"},
             Shutdown(outcome)
      PROVE  Promise!Next
  BY <1>3 DEF Shutdown, Promise!Next, Promise!Close
<1>4. CASE SeesStop
  BY <1>4 DEF SeesStop
<1>5. CASE UNCHANGED vars
  BY <1>1, <1>5 DEF vars
<1>6. CASE ProducerStep
  BY <1>1, <1>6 DEF ProducerStep, ProducerStops, Search, Feed
<1>7. CASE MainStep
  BY <1>3, <1>4, <1>7 DEF MainStep, GraceOver, TimeIsUp, ExternalCancel
<1>8. ASSUME NEW w \in Fetchers, FetcherStep(w)
      PROVE  [Promise!Next]_<<rows, tracker, main \in {"poll", "grace"}>>
  BY <1>1, <1>2, <1>8 DEF FetcherStep, FetcherTop, GetTimeout, GetBatch, Fetched,
     Extract, AddEmail, EmailsDone, PushDone
<1> QED
  BY <1>5, <1>6, <1>7, <1>8 DEF Next

\* The pipeline keeps the promise of Collector: distinct addresses, no more than
\* were asked for, and none after run is over.
THEOREM PipelineImplementsCollector == Spec => ImplementsCollector
<1>1. Init => Promise!Init
  BY DEF Init, Promise!Init
<1>2. IInv /\ [Next]_vars => [Promise!Next]_<<rows, tracker, main \in {"poll", "grace"}>>
  BY CollectorStep
<1> QED
  BY Invariant, <1>1, <1>2, PTL DEF Spec, ImplementsCollector, Promise!Spec, Promise!vars
=============================================================================
