------------------------ MODULE ResultStreamProofs ------------------------
(***************************************************************************)
(* Theorems about ResultStream, for any number of addresses, drops,        *)
(* reloads, resumptions and lost publishes.                                *)
(***************************************************************************)
EXTENDS ResultStream, FiniteSetTheorems, TLAPS

USE ConstantsAssumption

\* What was added to the session is at most one row, the address published last;
\* nothing is on its way over a socket that is not subscribed.
Waiting ==
    /\ pending = {} \/ pending = {found}
    /\ stored \subseteq 1..found
    /\ socket \notin {"subscribed", "selected"} => ~listening /\ replay = {}

-----------------------------------------------------------------------------
(* The inbox *)

\* A publish adds its message to an open subscription, and nothing else.
LEMMA PublishKeeps ==
    ASSUME TypeOK, NEW m \in Rows \union {Done}, Publish(m)
    PROVE  /\ inbox' \in Seq(Rows \union {Done})
           /\ InInbox \subseteq InInbox' /\ InInbox' \subseteq InInbox \union {m}
           /\ listening => m \in InInbox'
<1>1. inbox \in Seq(Rows \union {Done})
  BY DEF TypeOK, WorkerType, SocketType, PageType
<1>2. CASE listening
  <2>1. inbox' = Append(inbox, m)
    BY <1>2 DEF Publish
  <2>2. /\ Len(inbox') = Len(inbox) + 1 /\ inbox'[Len(inbox) + 1] = m
        /\ \A i \in 1..Len(inbox) : inbox'[i] = inbox[i]
        /\ Len(inbox) \in Nat /\ inbox' \in Seq(Rows \union {Done})
    BY <1>1, <2>1
  <2>3. \A i \in 1..(Len(inbox) + 1) : i \in 1..Len(inbox) \/ i = Len(inbox) + 1
    BY <2>2
  <2> QED
    BY <2>2, <2>3 DEF InInbox
<1>3. CASE ~listening
  BY <1>1, <1>3 DEF Publish, InInbox
<1> QED
  BY <1>2, <1>3

\* The relay takes the first message and leaves the others.
LEMMA RelayTakesHead ==
    ASSUME TypeOK, inbox # <<>>, inbox' = Tail(inbox)
    PROVE  /\ inbox' \in Seq(Rows \union {Done})
           /\ Head(inbox) \in Rows \union {Done} /\ Head(inbox) \in InInbox
           /\ InInbox' \subseteq InInbox
           /\ InInbox \subseteq InInbox' \union {Head(inbox)}
<1>1. inbox \in Seq(Rows \union {Done})
  BY DEF TypeOK, WorkerType, SocketType, PageType
<1>2. /\ Len(inbox) \in Nat \ {0} /\ Len(inbox') = Len(inbox) - 1
      /\ Head(inbox) = inbox[1] /\ inbox' \in Seq(Rows \union {Done})
      /\ \A i \in 1..Len(inbox') : inbox'[i] = inbox[i + 1]
  BY <1>1
<1>3. ASSUME NEW i \in 1..Len(inbox), i # 1
      PROVE  inbox[i] \in InInbox'
  <2>1. i - 1 \in 1..Len(inbox') /\ inbox'[i - 1] = inbox[i]
    BY <1>2, <1>3
  <2> QED
    BY <2>1 DEF InInbox
<1>4. inbox[1] \in Rows \union {Done}
  BY <1>1, <1>2
<1>5. ASSUME NEW i \in 1..Len(inbox')
      PROVE  inbox'[i] \in InInbox
  <2>1. i + 1 \in 1..Len(inbox) /\ inbox'[i] = inbox[i + 1]
    BY <1>2, <1>5
  <2> QED
    BY <2>1 DEF InInbox
<1>6. InInbox' \subseteq InInbox
  BY <1>5 DEF InInbox
<1>7. 1 \in 1..Len(inbox)
  BY <1>2
<1>8. Head(inbox) \in Rows \union {Done} /\ Head(inbox) \in InInbox
  BY <1>2, <1>4, <1>7 DEF InInbox
<1>9. InInbox \subseteq InInbox' \union {Head(inbox)}
  BY <1>2, <1>3 DEF InInbox
<1> QED
  BY <1>2, <1>6, <1>8, <1>9

\* The page only ever adds the row it is sent.
LEMMA ShowAdds ==
    ASSUME TypeOK, NEW r \in Rows, Show(r)
    PROVE  shown' \in [Rows -> Nat] /\ Shown' = Shown \union {r}
BY DEF TypeOK, WorkerType, SocketType, PageType, Show, Shown

-----------------------------------------------------------------------------
(* Typing *)

\* The steps of the worker keep its variables in their types, the others leave them.
LEMMA WorkerTypeStep ==
    ASSUME TypeOK, [Next]_vars
    PROVE  WorkerType'
<1> USE DEF WorkerType, Rows
<1>0. WorkerType
  BY DEF TypeOK
<1>1. CASE UNCHANGED workerVars
  BY <1>0, <1>1 DEF workerVars
<1>2. CASE Found
  BY <1>0, <1>2 DEF Found
<1>3. CASE CommitRow \/ SpiderOver \/ Announce
  BY <1>0, <1>3 DEF CommitRow, SpiderOver, Announce
<1>4. CASE CommitFails
  BY <1>0, <1>4 DEF CommitFails
<1>5. CASE FinalCommit
  <2>1. active' \in BOOLEAN
    BY <1>0, <1>5, Zenon DEF FinalCommit
  <2> QED
    BY <1>0, <1>5, <2>1 DEF FinalCommit
<1>6. CASE FinalFails
  BY <1>0, <1>6 DEF FinalFails
<1>7. CASE WorkerDies \/ CleanUp
  BY <1>0, <1>7 DEF WorkerDies, CleanUp
<1>8. CASE Deliver \/ Drop \/ PageStep
  BY <1>1, <1>8 DEF Deliver, Connect, Subscribe, SelectRows, ListenerDies, Relay, Replay, Drop,
     PageStep, StopJob, Reload, AuthEvent, ResumeStatus, ResumeFails, ResumeResults, ViewRows
<1> QED
  BY <1>1, <1>2, <1>3, <1>4, <1>5, <1>6, <1>7, <1>8 DEF Next, WorkerStep, vars

\* Every step keeps the variables of the socket in their types.
LEMMA SocketTypeStep ==
    ASSUME TypeOK, [Next]_vars
    PROVE  SocketType'
<1> USE DEF SocketType, Rows, Done
<1>0. SocketType /\ WorkerType /\ <<>> \in Seq(Rows \union {Done})
  BY DEF TypeOK
<1>1. CASE UNCHANGED socketVars
  BY <1>0, <1>1 DEF socketVars
<1>2. CASE Found
  <2>1. found + 1 \in Rows
    BY <1>0, <1>2 DEF Found, WorkerType
  <2>2. inbox' \in Seq(Rows \union {Done})
    BY <1>0, <1>2, <2>1, PublishKeeps DEF Found
  <2> QED
    BY <1>0, <1>2, <2>2 DEF Found
<1>3. CASE Announce
  <2>1. inbox' \in Seq(Rows \union {Done})
    BY <1>3, PublishKeeps DEF Announce
  <2> QED
    BY <1>0, <1>3, <2>1 DEF Announce
<1>4. CASE CommitRow \/ CommitFails \/ SpiderOver \/ FinalCommit \/ FinalFails \/ WorkerDies \/ CleanUp
  BY <1>1, <1>4 DEF CommitRow, CommitFails, SpiderOver, FinalCommit, FinalFails, WorkerDies, CleanUp
<1>5. CASE Connect \/ Subscribe
  BY <1>0, <1>5 DEF Connect, Subscribe
<1>6. CASE SelectRows
  BY <1>0, <1>6 DEF SelectRows, WorkerType
<1>7. CASE ListenerDies
  BY <1>0, <1>7 DEF ListenerDies
<1>8. CASE Relay
  <2>1. inbox' \in Seq(Rows \union {Done})
    BY <1>8, RelayTakesHead DEF Relay
  <2> QED
    BY <1>0, <1>8, <2>1 DEF Relay
<1>9. ASSUME NEW r \in Rows, Replay(r)
      PROVE  SocketType'
  BY <1>0, <1>9 DEF Replay
<1>10. ASSUME Hangup, socket' \in {"none", "retry", "open"}
       PROVE  SocketType'
  BY <1>0, <1>10 DEF Hangup
<1>11. CASE Drop \/ Reload \/ \E upTo \in 0..found : ResumeResults(upTo)
  BY <1>10, <1>11 DEF Drop, Reload, ResumeResults
<1>12. CASE \/ StopJob \/ AuthEvent \/ ResumeStatus \/ ResumeFails
            \/ \E upTo \in 0..found : ViewRows(upTo)
  BY <1>1, <1>12 DEF StopJob, AuthEvent, ResumeStatus, ResumeFails, ViewRows
<1> QED
  BY <1>1, <1>2, <1>3, <1>4, <1>5, <1>6, <1>7, <1>8, <1>9, <1>11, <1>12
  DEF Next, WorkerStep, Deliver, PageStep, vars

\* Every step keeps the variables of the page in their types.
LEMMA PageTypeStep ==
    ASSUME TypeOK, [Next]_vars
    PROVE  PageType'
<1> USE DEF PageType, resumeVars, history
<1>0. PageType
  BY DEF TypeOK
<1>1. CASE UNCHANGED pageVars
  BY <1>0, <1>1 DEF pageVars
<1>2. CASE Found \/ WorkerStep \/ WorkerDies \/ CleanUp \/ Subscribe \/ ListenerDies \/ Drop
  BY <1>1, <1>2 DEF Found, WorkerStep, CommitRow, CommitFails, SpiderOver, FinalCommit,
     FinalFails, Announce, WorkerDies, CleanUp, Subscribe, ListenerDies, Drop
<1>3. CASE Connect
  <2>1. overlap' \in BOOLEAN
    BY <1>3, Zenon DEF Connect
  <2> QED
    BY <1>0, <1>3, <2>1 DEF Connect
<1>4. CASE SelectRows
  BY <1>0, <1>4 DEF SelectRows
<1>5. ASSUME NEW r \in Rows, Show(r), UNCHANGED <<page, resumeVars, history>>
      PROVE  PageType'
  BY <1>0, <1>5, ShowAdds
<1>6. CASE Relay
  <2>1. Head(inbox) \in Rows \union {Done}
    BY <1>6, RelayTakesHead DEF Relay
  <2>2. CASE Head(inbox) = Done
    BY <1>0, <1>6, <2>2 DEF Relay, JobFinished
  <2>3. CASE Head(inbox) # Done
    BY <1>5, <1>6, <2>1, <2>3 DEF Relay
  <2> QED
    BY <2>2, <2>3
<1>7. ASSUME NEW r \in Rows, Replay(r)
      PROVE  PageType'
  BY <1>5, <1>7 DEF Replay
<1>8. CASE StopJob
  BY <1>0, <1>8 DEF StopJob, JobFinished
<1>9. CASE Reload
  <2>1. saved' \in BOOLEAN /\ shown' \in [Rows -> Nat]
    BY <1>0, <1>9 DEF Reload, Nothing
  <2> QED
    BY <1>9, <2>1 DEF Reload
<1>10. CASE AuthEvent
  BY <1>0, <1>10 DEF AuthEvent
<1>11. CASE ResumeStatus
  <2>1. CASE active
    <3>1. overlap' \in BOOLEAN
      BY <1>11, <2>1, Zenon DEF ResumeStatus
    <3>2. shown' \in [Rows -> Nat]
      BY <1>11, <2>1 DEF ResumeStatus, Nothing
    <3>3. asking' \in Nat /\ fetching' \in Nat
      BY <1>0, <1>11, <2>1 DEF ResumeStatus
    <3>4. page' = "live" /\ whole' = FALSE /\ resumed' = 0 /\ saved' = saved
      BY <1>11, <2>1, Zenon DEF ResumeStatus
    <3> QED
      BY <1>0, <3>1, <3>2, <3>3, <3>4
  <2>2. CASE ~active
    <3>1. asking' \in Nat
      BY <1>0, <1>11, <2>2 DEF ResumeStatus
    <3>2. saved' = FALSE /\ UNCHANGED <<page, shown, fetching, resumed, overlap, whole>>
      BY <1>11, <2>2, Zenon DEF ResumeStatus, history
    <3> QED
      BY <1>0, <3>1, <3>2
  <2> QED
    BY <2>1, <2>2
<1>12. CASE ResumeFails
  <2>1. asking' \in Nat /\ fetching' \in Nat
    BY <1>0, <1>12 DEF ResumeFails
  <2> QED
    BY <1>0, <1>12, <2>1 DEF ResumeFails
<1>13. ASSUME NEW upTo \in 0..found, ResumeResults(upTo)
       PROVE  PageType'
  <2>1. shown' \in [Rows -> Nat]
    BY <1>0, <1>13 DEF ResumeResults
  <2>2. fetching' \in Nat /\ resumed' \in Nat
    BY <1>0, <1>13 DEF ResumeResults
  <2>3. whole' = FALSE /\ UNCHANGED <<page, saved, asking, overlap>>
    BY <1>13, Zenon DEF ResumeResults
  <2> QED
    BY <1>0, <2>1, <2>2, <2>3
<1>14. ASSUME NEW upTo \in 0..found, ViewRows(upTo)
       PROVE  PageType'
  <2>1. shown' \in [Rows -> Nat]
    BY <1>14 DEF ViewRows
  <2>2. overlap' \in BOOLEAN
    BY <1>14, Zenon DEF ViewRows
  <2> QED
    BY <1>0, <1>14, <2>1, <2>2 DEF ViewRows
<1> QED
  BY <1>1, <1>2, <1>3, <1>4, <1>6, <1>7, <1>8, <1>9, <1>10, <1>11, <1>12, <1>13, <1>14
  DEF Next, Deliver, PageStep, vars

\* Every step keeps the variables in their types.
LEMMA TypeStep ==
    ASSUME TypeOK, [Next]_vars
    PROVE  TypeOK'
<1>1. drops \in Nat /\ reloads \in Nat /\ auths \in Nat /\ lost \in Nat
  BY DEF TypeOK
<1>2. drops' \in Nat /\ reloads' \in Nat /\ auths' \in Nat /\ lost' \in Nat
  <2>1. CASE UNCHANGED counters
    BY <1>1, <2>1 DEF counters
  <2>2. CASE Found \/ Drop \/ Reload \/ AuthEvent
    BY <1>1, <2>2 DEF Found, Drop, Reload, AuthEvent
  <2> QED
    BY <2>1, <2>2 DEF Next, WorkerStep, CommitRow, CommitFails, SpiderOver, FinalCommit,
       FinalFails, Announce, WorkerDies, CleanUp, Deliver, Connect, Subscribe, SelectRows,
       ListenerDies, Relay, Replay, PageStep, StopJob, ResumeStatus, ResumeFails,
       ResumeResults, ViewRows, vars
<1> QED
  BY <1>2, WorkerTypeStep, SocketTypeStep, PageTypeStep DEF TypeOK

\* TypeOK is an invariant.
THEOREM TypeCorrect == Spec => []TypeOK
<1>1. Init => TypeOK
  <2> SUFFICES ASSUME Init
               PROVE  TypeOK
    OBVIOUS
  <2>1. SocketType
    <3>1. inbox \in Seq(Rows \union {Done})
      BY DEF Init
    <3> QED
      BY <3>1 DEF Init, SocketType
  <2>2. WorkerType
    <3>1. broken \in BOOLEAN /\ active \in BOOLEAN
      BY Zenon DEF Init
    <3> QED
      BY <3>1 DEF Init, WorkerType
  <2>3. PageType
    <3>1. saved \in BOOLEAN /\ overlap \in BOOLEAN /\ whole \in BOOLEAN
      BY Zenon DEF Init
    <3> QED
      BY <3>1 DEF Init, PageType, Nothing
  <2> QED
    BY <2>1, <2>2, <2>3 DEF Init, TypeOK
<1>2. TypeOK /\ [Next]_vars => TypeOK'
  BY TypeStep
<1> QED
  BY <1>1, <1>2, PTL DEF Spec

-----------------------------------------------------------------------------
(* AtMostOneMissed *)

\* Every step keeps Waiting.
LEMMA WaitingStep ==
    ASSUME TypeOK, Waiting, [Next]_vars
    PROVE  Waiting'
<1> USE DEF Waiting
<1>0. /\ found \in 0..MaxFound /\ pending \subseteq Rows /\ stored \subseteq Rows
      /\ listening \in BOOLEAN
  BY DEF TypeOK, WorkerType, SocketType
<1>1. ASSUME UNCHANGED <<found, pending, stored>>,
             socket' \notin {"subscribed", "selected"} => ~listening' /\ replay' = {}
      PROVE  Waiting'
  BY <1>1
<1>2. ASSUME UNCHANGED <<socket, listening, replay>>,
             pending' = {} \/ pending' = {found'}, stored' \subseteq 1..found'
      PROVE  Waiting'
  BY <1>2
<1>3. CASE UNCHANGED vars
  BY <1>3 DEF vars, workerVars, socketVars
<1>4. CASE Found
  <2>1. UNCHANGED <<socket, listening, replay, stored>> /\ found' = found + 1
        /\ pending' \in {{}, {found + 1}}
    BY <1>4 DEF Found
  <2> QED
    BY <1>0, <1>2, <2>1
<1>5. CASE CommitRow \/ CommitFails \/ SpiderOver \/ FinalCommit \/ FinalFails \/ Announce
           \/ WorkerDies \/ CleanUp
  <2>1. UNCHANGED <<socket, listening, replay, found>> /\ pending' \in {{}, pending}
        /\ stored' \subseteq stored \union pending
    BY <1>5 DEF CommitRow, CommitFails, SpiderOver, FinalCommit, FinalFails, Announce,
       WorkerDies, CleanUp, socketVars
  <2>2. stored \union pending \subseteq 1..found
    BY <1>0 DEF Rows
  <2> QED
    BY <1>2, <2>1, <2>2
<1>6. CASE Connect \/ Subscribe \/ SelectRows \/ ListenerDies
  BY <1>0, <1>1, <1>6 DEF Connect, Subscribe, SelectRows, ListenerDies, workerVars
<1>7. CASE Relay \/ \E r \in Rows : Replay(r)
  BY <1>1, <1>7 DEF Relay, Replay, workerVars
<1>8. CASE Drop \/ Reload \/ \E upTo \in 0..found : ResumeResults(upTo)
  <2>1. UNCHANGED <<found, pending, stored>> /\ Hangup
    BY <1>8, Zenon DEF Drop, Reload, ResumeResults, workerVars
  <2> QED
    BY <1>1, <2>1 DEF Hangup
<1>9. CASE \/ StopJob \/ AuthEvent \/ ResumeStatus \/ ResumeFails
           \/ \E upTo \in 0..found : ViewRows(upTo)
  <2>1. UNCHANGED <<found, pending, stored, socket, listening, replay>>
    BY <1>9, Zenon DEF StopJob, AuthEvent, ResumeStatus, ResumeFails, ViewRows, workerVars,
       socketVars
  <2> QED
    BY <2>1
<1> QED
  BY <1>3, <1>4, <1>5, <1>6, <1>7, <1>8, <1>9 DEF Next, WorkerStep, Deliver, PageStep

\* A set that did not gain a row keeps its bound; one that gained a row whose
\* publish failed grows with lost.
LEMMA MissedStep ==
    ASSUME TypeOK, Waiting, AtMostOneMissed, [Next]_vars
    PROVE  AtMostOneMissed'
<1> SUFFICES ASSUME socket' = "selected", listening', whole'
             PROVE  Cardinality(Missed') <= 1 + lost'
  BY DEF AtMostOneMissed
<1>0. /\ IsFiniteSet(Missed) /\ Cardinality(Missed) \in Nat /\ lost \in Nat
      /\ IsFiniteSet(pending) /\ Cardinality(pending) <= 1 /\ Cardinality(pending) \in Nat
  <2>0. IsFiniteSet(1..MaxFound)
    <3>1. 1 \in Int /\ MaxFound \in Int
      OBVIOUS
    <3> QED
      BY <3>1, FS_Interval
  <2>1. IsFiniteSet(Rows) /\ Missed \subseteq Rows /\ pending \subseteq Rows
    BY <2>0 DEF Rows, Missed, TypeOK, WorkerType, SocketType, PageType
  <2>2. Cardinality(pending) <= 1
    <3>1. pending = {} => Cardinality(pending) = 0
      BY FS_EmptySet
    <3>2. pending = {found} => Cardinality(pending) = 1
      BY FS_Singleton
    <3> QED
      BY <3>1, <3>2 DEF Waiting
  <2> QED
    BY <2>1, <2>2, FS_Subset, FS_CardinalityType DEF TypeOK, WorkerType, SocketType, PageType
<1> USE DEF history, resumeVars
<1>1. ASSUME Missed' \subseteq Missed, socket = "selected", listening, whole, lost' = lost
      PROVE  Cardinality(Missed') <= 1 + lost'
  <2>1. Cardinality(Missed) <= 1 + lost
    BY <1>1 DEF AtMostOneMissed
  <2>2. Cardinality(Missed') <= Cardinality(Missed) /\ Cardinality(Missed') \in Nat
    BY <1>0, <1>1, FS_Subset, FS_CardinalityType
  <2> QED
    BY <1>0, <1>1, <2>1, <2>2
<1>2. CASE UNCHANGED vars
  BY <1>1, <1>2 DEF vars, workerVars, socketVars, pageVars, counters, Missed, Shown, InInbox
<1>3. CASE Found
  <2> DEFINE r == found + 1
  <2>1. /\ socket = "selected" /\ listening /\ whole /\ stored' = stored /\ pending = {} /\ pending' \subseteq {r}
        /\ shown' = shown /\ replay' = replay /\ r \in Rows
    BY <1>3 DEF Found, pageVars, TypeOK, WorkerType, Rows
  <2>2. CASE Publish(r) /\ UNCHANGED lost
    <3>1. InInbox \subseteq InInbox' /\ r \in InInbox'
      BY <2>1, <2>2, PublishKeeps
    <3>2. Missed' \subseteq Missed
      BY <2>1, <3>1 DEF Missed, Shown
    <3> QED
      BY <1>1, <2>1, <2>2, <3>2
  <2>3. CASE lost' = lost + 1 /\ UNCHANGED inbox
    <3>1. Missed' \subseteq Missed \union {r}
      BY <2>1, <2>3 DEF Missed, Shown, InInbox
    <3>2. /\ IsFiniteSet(Missed \union {r})
          /\ Cardinality(Missed \union {r}) <= Cardinality(Missed) + 1
          /\ Cardinality(Missed \union {r}) \in Nat
      <4>1. /\ IsFiniteSet(Missed \union {r})
            /\ Cardinality(Missed \union {r}) =
                 IF r \in Missed THEN Cardinality(Missed) ELSE Cardinality(Missed) + 1
        BY <1>0, FS_AddElement
      <4>2. Cardinality(Missed \union {r}) \in Nat
        BY <4>1, FS_CardinalityType
      <4> QED
        BY <1>0, <4>1, <4>2
    <3>3. Cardinality(Missed') <= Cardinality(Missed \union {r}) /\ Cardinality(Missed') \in Nat
      BY <3>1, <3>2, FS_Subset, FS_CardinalityType
    <3>4. Cardinality(Missed) <= 1 + lost
      BY <2>1 DEF AtMostOneMissed
    <3> QED
      BY <1>0, <2>3, <3>2, <3>3, <3>4
  <2> QED
    BY <1>3, <2>2, <2>3 DEF Found
<1>4. CASE \/ CommitRow \/ CommitFails \/ SpiderOver \/ FinalCommit \/ FinalFails
           \/ WorkerDies \/ CleanUp
  <2>1. /\ socket = "selected" /\ listening /\ whole /\ lost' = lost
        /\ UNCHANGED <<shown, replay, inbox>>
        /\ stored' \union pending' \subseteq stored \union pending
    BY <1>4 DEF CommitRow, CommitFails, SpiderOver, FinalCommit, FinalFails, WorkerDies,
       CleanUp, socketVars, pageVars, counters
  <2>2. Missed' \subseteq Missed
    BY <2>1 DEF Missed, Shown, InInbox
  <2> QED
    BY <1>1, <2>1, <2>2
<1>5. CASE Announce
  <2>1. /\ socket = "selected" /\ listening /\ whole /\ lost' = lost /\ UNCHANGED <<shown, replay, stored, pending>>
    BY <1>5 DEF Announce, pageVars, counters
  <2>2. InInbox \subseteq InInbox'
    BY <1>5, PublishKeeps DEF Announce
  <2>3. Missed' \subseteq Missed
    BY <2>1, <2>2 DEF Missed, Shown
  <2> QED
    BY <1>1, <2>1, <2>3
<1>6. CASE SelectRows
  <2>1. Missed' \subseteq pending
    BY <1>6 DEF SelectRows, Missed, workerVars
  <2>2. Cardinality(Missed') <= Cardinality(pending) /\ Cardinality(Missed') \in Nat
    BY <1>0, <2>1, FS_Subset, FS_CardinalityType
  <2>3. lost' = lost
    BY <1>6 DEF SelectRows, counters
  <2> QED
    BY <1>0, <2>2, <2>3
<1>7. CASE Relay
  <2>1. /\ socket = "selected" /\ listening /\ whole /\ lost' = lost /\ UNCHANGED <<replay, stored, pending>>
    BY <1>7 DEF Relay, workerVars, counters
  <2>2. /\ Head(inbox) \in Rows \union {Done}
        /\ InInbox \subseteq InInbox' \union {Head(inbox)}
    BY <1>7, RelayTakesHead DEF Relay
  <2>3. CASE Head(inbox) = Done
    <3>1. shown' = shown /\ Done \notin Rows
      BY <1>7, <2>3 DEF Relay, Done, Rows
    <3>2. Missed' \subseteq Missed
      BY <2>1, <2>2, <2>3, <3>1 DEF Missed, Shown, TypeOK, WorkerType, SocketType, PageType
    <3> QED
      BY <1>1, <2>1, <3>2
  <2>4. CASE Head(inbox) # Done
    <3>1. Head(inbox) \in Rows /\ Show(Head(inbox))
      BY <1>7, <2>2, <2>4 DEF Relay
    <3>2. Shown' = Shown \union {Head(inbox)}
      BY <3>1, ShowAdds
    <3>3. Missed' \subseteq Missed
      BY <2>1, <2>2, <3>2 DEF Missed
    <3> QED
      BY <1>1, <2>1, <3>3
  <2> QED
    BY <2>3, <2>4
<1>8. ASSUME NEW r \in Rows, Replay(r)
      PROVE  Cardinality(Missed') <= 1 + lost'
  <2>1. /\ socket = "selected" /\ listening /\ whole /\ lost' = lost /\ UNCHANGED <<inbox, stored, pending>>
        /\ replay' = replay \ {r} /\ Shown' = Shown \union {r}
    BY <1>8, ShowAdds DEF Replay, workerVars, counters
  <2>2. Missed' \subseteq Missed
    BY <2>1 DEF Missed, InInbox
  <2> QED
    BY <1>1, <2>1, <2>2
<1>9. CASE StopJob \/ AuthEvent \/ ResumeStatus \/ ResumeFails
  <2>1. /\ socket = "selected" /\ listening /\ whole /\ lost' = lost
        /\ UNCHANGED <<shown, replay, inbox, stored, pending>>
    BY <1>9 DEF StopJob, AuthEvent, ResumeStatus, ResumeFails, workerVars, socketVars, counters
  <2> QED
    BY <1>1, <2>1 DEF Missed, Shown, InInbox
<1>10. CASE \/ Connect \/ Subscribe \/ ListenerDies \/ Drop \/ Reload
            \/ \E upTo \in 0..found : ResumeResults(upTo) \/ ViewRows(upTo)
  BY <1>10 DEF Connect, Subscribe, ListenerDies, Drop, Reload, ResumeResults, ViewRows, Hangup,
     socketVars
<1> QED
  BY <1>2, <1>3, <1>4, <1>5, <1>6, <1>7, <1>8, <1>9, <1>10 DEF Next, WorkerStep, Deliver, PageStep

\* A page whose socket is served, and whose list is not replaced, misses at most one
\* address, apart from those whose publish failed, however often it reconnected, was
\* reloaded or resumed the job before.
THEOREM AtMostOneMissedAlways == Spec => []AtMostOneMissed
<1>1. Init => Waiting /\ AtMostOneMissed
  BY DEF Init, Waiting, AtMostOneMissed
<1>2. TypeOK /\ Waiting /\ [Next]_vars => Waiting'
  BY WaitingStep
<1>3. TypeOK /\ Waiting /\ AtMostOneMissed /\ [Next]_vars => AtMostOneMissed'
  BY MissedStep
<1> QED
  BY TypeCorrect, <1>1, <1>2, <1>3, PTL DEF Spec

-----------------------------------------------------------------------------
(* PhantomBounded *)

\* What a page can list was found, and without a failed commit every address found
\* is stored or about to be, except the last one of a worker that was killed.
Kept ==
    /\ Shown \subseteq 1..found /\ replay \subseteq 1..found
    /\ InInbox \ {Done} \subseteq 1..found
    /\ ~broken => 1..(found - 1) \subseteq stored
    /\ ~broken /\ phase # "dead" => 1..found \subseteq stored \union pending

\* A step of the worker other than a publish keeps Kept.
LEMMA KeptWork ==
    ASSUME TypeOK, Waiting, Kept,
           \/ CommitRow \/ CommitFails \/ SpiderOver \/ FinalCommit \/ FinalFails
           \/ WorkerDies \/ CleanUp
    PROVE  Kept'
<1> USE DEF CommitRow, CommitFails, SpiderOver, FinalCommit, FinalFails, WorkerDies, CleanUp
<1>1. UNCHANGED <<found, inbox, replay, shown>>
  BY DEF socketVars, pageVars
<1>2. Shown' = Shown /\ InInbox' = InInbox
  BY <1>1 DEF Shown, InInbox
<1>3. (~broken' => ~broken) /\ stored \subseteq stored'
  OBVIOUS
<1>4. ASSUME ~broken', phase' # "dead"
      PROVE  1..found \subseteq stored' \union pending'
  BY <1>4 DEF Kept
<1> QED
  BY <1>1, <1>2, <1>3, <1>4 DEF Kept

\* Every step keeps Kept.
LEMMA KeptStep ==
    ASSUME TypeOK, Waiting, Kept, [Next]_vars
    PROVE  Kept'
<1> USE DEF socketVars, pageVars, resumeVars, history, workerVars
<1>0. found \in Nat /\ shown \in [Rows -> Nat]
  BY DEF TypeOK, WorkerType, SocketType, PageType
<1>1. CASE UNCHANGED vars
  BY <1>1 DEF vars, Kept, Shown, InInbox
<1>2. CASE Found
  <2> DEFINE r == found + 1
  <2>1. /\ phase = "run" /\ phase' = phase /\ found' = r /\ pending = {} /\ r \in Rows
        /\ UNCHANGED <<broken, stored, replay, shown>>
        /\ pending' = IF broken THEN {} ELSE {r}
    BY <1>2 DEF Found, TypeOK, WorkerType, Rows
  <2>2. InInbox' \subseteq InInbox \union {r}
    <3>1. CASE Publish(r)
      BY <2>1, <3>1, PublishKeeps
    <3>2. CASE UNCHANGED inbox
      BY <3>2 DEF InInbox
    <3> QED
      BY <1>2, <3>1, <3>2 DEF Found
  <2>3. 1..found \subseteq 1..r /\ r \in 1..r /\ 1..(r - 1) = 1..found
        /\ 1..r = 1..found \union {r}
    BY <1>0
  <2>4. Shown' = Shown
    BY <2>1 DEF Shown
  <2>5. ~broken => 1..found \subseteq stored
    BY <2>1 DEF Kept
  <2>6. /\ Shown' \subseteq 1..r /\ replay' \subseteq 1..r
        /\ InInbox' \ {Done} \subseteq 1..r
    BY <2>1, <2>2, <2>3, <2>4 DEF Kept
  <2>7. ~broken => 1..(r - 1) \subseteq stored /\ 1..r \subseteq stored \union {r}
    BY <2>3, <2>5
  <2> QED
    BY <2>1, <2>6, <2>7 DEF Kept
<1>3. CASE \/ CommitRow \/ CommitFails \/ SpiderOver \/ FinalCommit \/ FinalFails
           \/ WorkerDies \/ CleanUp
  BY <1>3, KeptWork
<1>4. CASE Announce
  <2>1. InInbox' \ {Done} \subseteq InInbox \ {Done}
    BY <1>4, PublishKeeps DEF Announce
  <2>2. phase' # "dead" /\ phase # "dead"
        /\ UNCHANGED <<found, pending, stored, broken, replay, shown>>
    BY <1>4 DEF Announce
  <2> QED
    BY <2>1, <2>2 DEF Kept, Shown
<1>5. ASSUME UNCHANGED workerVars,
             Shown' \subseteq Shown \union replay \union (InInbox \ {Done}) \union stored,
             replay' \subseteq replay \union stored, InInbox' \subseteq InInbox
      PROVE  Kept'
  BY <1>5 DEF Kept, Waiting
<1>6. CASE \/ Connect \/ Subscribe \/ SelectRows \/ ListenerDies
           \/ StopJob \/ AuthEvent \/ ResumeStatus \/ ResumeFails
  <2> USE DEF Connect, Subscribe, SelectRows, ListenerDies, StopJob, AuthEvent, ResumeStatus,
          ResumeFails
  <2>1. Shown' \subseteq Shown
    BY <1>6 DEF Nothing, Shown
  <2>2. InInbox' \subseteq InInbox
    BY <1>6 DEF InInbox
  <2>3. UNCHANGED workerVars /\ replay' \subseteq replay \union stored
    BY <1>6
  <2> HIDE DEF Connect, Subscribe, SelectRows, ListenerDies, StopJob, AuthEvent, ResumeStatus,
           ResumeFails
  <2> QED
    BY <1>5, <2>1, <2>2, <2>3
<1>7. ASSUME NEW r \in Rows, Replay(r)
      PROVE  Kept'
  <2>1. Shown' = Shown \union {r} /\ r \in replay
    BY <1>7, ShowAdds DEF Replay
  <2> QED
    BY <1>5, <1>7, <2>1 DEF Replay, InInbox
<1>8. CASE Relay
  <2>1. Head(inbox) \in Rows \union {Done} /\ Head(inbox) \in InInbox /\ InInbox' \subseteq InInbox
    BY <1>8, RelayTakesHead DEF Relay
  <2>2. Shown' \subseteq Shown \union (InInbox \ {Done})
    <3>1. CASE Head(inbox) = Done
      BY <1>8, <3>1 DEF Relay, Shown
    <3>2. CASE Head(inbox) # Done
      BY <1>8, <2>1, <3>2, ShowAdds DEF Relay
    <3> QED
      BY <3>1, <3>2
  <2> QED
    BY <1>5, <1>8, <2>1, <2>2 DEF Relay
<1>9. CASE Drop \/ Reload
  <2>1. InInbox' = {} /\ replay' = {}
    BY <1>9 DEF Drop, Reload, Hangup, InInbox
  <2>2. Shown' \subseteq Shown
    BY <1>9 DEF Drop, Reload, Nothing, Shown
  <2> QED
    BY <1>5, <1>9, <2>1, <2>2 DEF Drop, Reload
<1>10. ASSUME NEW upTo \in 0..found, ResumeResults(upTo)
       PROVE  Kept'
  <2>1. Shown' \subseteq Shown \union stored
    BY <1>0, <1>10 DEF ResumeResults, Answer, Shown
  <2>2. InInbox' = {} /\ replay' = {} /\ UNCHANGED workerVars
    BY <1>10 DEF ResumeResults, Hangup, InInbox
  <2> QED
    BY <1>5, <2>1, <2>2
<1>11. ASSUME NEW upTo \in 0..found, ViewRows(upTo)
       PROVE  Kept'
  <2>1. Shown' \subseteq stored
    BY <1>11 DEF ViewRows, Answer, Shown
  <2> QED
    BY <1>5, <1>11, <2>1 DEF ViewRows, InInbox
<1> QED
  BY <1>1, <1>2, <1>3, <1>4, <1>6, <1>7, <1>8, <1>9, <1>10, <1>11
  DEF Next, WorkerStep, Deliver, PageStep

\* Unless a commit fails or is cut off, the user is shown at most one address that no export will
\* hold, and none unless the worker is killed.
THEOREM PhantomBoundedAlways == Spec => []PhantomBounded
<1>1. Init => Waiting /\ Kept
  BY DEF Init, Waiting, Kept, Shown, InInbox, Nothing
<1>2. TypeOK /\ Waiting /\ [Next]_vars => Waiting'
  BY WaitingStep
<1>3. TypeOK /\ Waiting /\ Kept /\ [Next]_vars => Kept'
  BY KeptStep
<1>4. TypeOK /\ Kept => PhantomBounded
  <2> SUFFICES ASSUME TypeOK, Kept, ~broken
               PROVE  (phase # "dead" => Phantoms = {}) /\ Cardinality(Phantoms) <= 1
    BY DEF PhantomBounded
  <2>1. found \in Nat /\ 1..found \subseteq 1..(found - 1) \union {found}
    BY DEF TypeOK, WorkerType, SocketType, PageType
  <2>2. phase # "dead" => Phantoms = {}
    BY DEF Kept, Phantoms
  <2>3. Phantoms \subseteq {found}
    BY <2>1 DEF Kept, Phantoms
  <2>4. IsFiniteSet({found}) /\ Cardinality({found}) = 1
    BY FS_Singleton
  <2> QED
    BY <2>2, <2>3, <2>4, FS_Subset
<1> QED
  BY TypeCorrect, <1>1, <1>2, <1>3, <1>4, PTL DEF Spec

-----------------------------------------------------------------------------
(* ShownBounded *)

\* A list that resumeJob emptied with nothing else under way stays empty until the
\* results come: no socket is open, and no other answer is awaited.
Listed ==
    /\ overlap => \A r \in Rows : shown[r] <= 1 + resumed
    /\ ~overlap => \/ fetching = 0 /\ \A r \in Rows : shown[r] <= 1
                   \/ fetching = 1 /\ socket \in {"none", "retry"} /\ shown = Nothing

\* Every step keeps Listed.
LEMMA ListedStep ==
    ASSUME TypeOK, Waiting, Listed, [Next]_vars
    PROVE  Listed'
<1> USE DEF Listed, socketVars, pageVars, resumeVars, history
<1>0. /\ shown \in [Rows -> Nat] /\ fetching \in Nat /\ resumed \in Nat
      /\ overlap \in BOOLEAN
  BY DEF TypeOK, WorkerType, SocketType, PageType
<1>1. ASSUME UNCHANGED <<shown, fetching, resumed, overlap>>,
             socket' = socket \/ socket \notin {"none", "retry"} \/ socket' \in {"none", "retry"}
      PROVE  Listed'
  BY <1>1 DEF Nothing
<1>2. CASE UNCHANGED vars
  BY <1>1, <1>2 DEF vars
<1>3. CASE Found \/ WorkerStep \/ WorkerDies \/ CleanUp
  BY <1>1, <1>3 DEF Found, WorkerStep, CommitRow, CommitFails, SpiderOver, FinalCommit,
     FinalFails, Announce, WorkerDies, CleanUp
<1>4. CASE Subscribe \/ SelectRows \/ ListenerDies \/ Drop \/ StopJob \/ AuthEvent
  BY <1>1, <1>4 DEF Subscribe, SelectRows, ListenerDies, Drop, StopJob, AuthEvent
<1>5. CASE Connect
  <2>1. /\ overlap' <=> overlap \/ fetching > 0
        /\ UNCHANGED <<shown, fetching, resumed>>
    BY <1>5, Zenon DEF Connect
  <2> QED
    BY <1>0, <2>1 DEF Nothing
<1>6. ASSUME NEW r \in Rows, Show(r), socket \notin {"none", "retry"},
             UNCHANGED <<fetching, resumed, overlap, socket>>
      PROVE  Listed'
  <2>1. \A q \in Rows : shown'[q] <= 1 \/ shown'[q] = shown[q]
    BY <1>0, <1>6 DEF Show
  <2>2. shown' \in [Rows -> Nat]
    BY <1>6, ShowAdds
  <2> QED
    BY <1>0, <1>6, <2>1, <2>2
<1>7. CASE Relay
  <2>1. socket \notin {"none", "retry"} /\ UNCHANGED <<fetching, resumed, overlap, socket>>
    BY <1>7 DEF Relay, Waiting
  <2>2. CASE Head(inbox) = Done
    BY <1>1, <1>7, <2>1, <2>2 DEF Relay
  <2>3. CASE Head(inbox) # Done
    <3>1. Head(inbox) \in Rows /\ Show(Head(inbox))
      BY <1>7, <2>3, RelayTakesHead DEF Relay
    <3> QED
      BY <1>6, <2>1, <3>1
  <2> QED
    BY <2>2, <2>3
<1>8. ASSUME NEW r \in Rows, Replay(r)
      PROVE  Listed'
  BY <1>6, <1>8 DEF Replay, Waiting
<1>9. CASE Reload
  BY <1>9 DEF Reload, Nothing
<1>10. CASE ResumeStatus
  <2>1. CASE active
    <3>1. /\ overlap' <=> fetching > 0 \/ socket \notin {"none", "retry"}
          /\ shown' = Nothing /\ resumed' = 0 /\ fetching' = fetching + 1 /\ socket' = socket
      BY <1>10, <2>1, Zenon DEF ResumeStatus
    <3> QED
      BY <1>0, <3>1 DEF Nothing
  <2>2. CASE ~active
    BY <1>1, <1>10, <2>2 DEF ResumeStatus
  <2> QED
    BY <2>1, <2>2
<1>11. CASE ResumeFails
  <2>1. \A r \in Rows : Nothing[r] <= 1
    BY DEF Nothing
  <2> QED
    BY <1>0, <1>11, <2>1 DEF ResumeFails
<1>12. ASSUME NEW upTo \in 0..found, ResumeResults(upTo)
       PROVE  Listed'
  <2>1. /\ \A r \in Rows : shown'[r] <= shown[r] + 1
        /\ resumed' = resumed + 1 /\ overlap' = overlap
        /\ fetching > 0 /\ fetching' = fetching - 1
    BY <1>0, <1>12 DEF ResumeResults
  <2>2. CASE overlap
    <3>1. \A r \in Rows : shown[r] <= 1 + resumed /\ shown[r] \in Nat
      BY <1>0, <2>2
    <3>2. ASSUME NEW r \in Rows
          PROVE  shown'[r] <= 1 + resumed'
      <4>1. shown'[r] \in Nat
        BY <1>0, <1>12 DEF ResumeResults
      <4> QED
        BY <1>0, <2>1, <3>1, <4>1
    <3> QED
      BY <2>1, <2>2, <3>2
  <2>3. CASE ~overlap
    <3>1. fetching = 1 /\ shown = Nothing
      BY <1>0, <2>1, <2>3
    <3>2. \A r \in Rows : shown'[r] <= 1
      BY <1>12, <3>1 DEF ResumeResults, Nothing
    <3> QED
      BY <2>1, <2>3, <3>1, <3>2
  <2> QED
    BY <2>2, <2>3
<1>13. ASSUME NEW upTo \in 0..found, ViewRows(upTo)
       PROVE  Listed'
  <2>1. \A r \in Rows : shown'[r] \in {0, 1}
    BY <1>13 DEF ViewRows
  <2>2. /\ overlap' <=> overlap \/ fetching > 0
        /\ UNCHANGED <<fetching, resumed>>
    BY <1>13, Zenon DEF ViewRows
  <2> QED
    BY <1>0, <2>1, <2>2
<1> QED
  BY <1>2, <1>3, <1>4, <1>5, <1>7, <1>8, <1>9, <1>10, <1>11, <1>12, <1>13
  DEF Next, Deliver, PageStep

\* The page lists an address once, or, if resumeJob emptied the list while a socket or
\* another answer was under way, once more for every answer it has listed since.
THEOREM ShownBoundedAlways == Spec => []ShownBounded
<1>1. Init => Waiting /\ Listed
  BY DEF Init, Waiting, Listed, Nothing
<1>2. TypeOK /\ Waiting /\ [Next]_vars => Waiting'
  BY WaitingStep
<1>3. TypeOK /\ Waiting /\ Listed /\ [Next]_vars => Listed'
  BY ListedStep
<1>4. Listed => ShownBounded
  BY DEF Listed, ShownBounded, Nothing
<1> QED
  BY TypeCorrect, <1>1, <1>2, <1>3, <1>4, PTL DEF Spec
=============================================================================
