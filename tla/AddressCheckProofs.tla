------------------------- MODULE AddressCheckProofs -------------------------
(***************************************************************************)
(* Theorems about AddressCheck, for any jobs, workers, channels and        *)
(* addresses, and whatever the resolver answers.                           *)
(***************************************************************************)
EXTENDS AddressCheck, FiniteSetTheorems, TLAPS

USE PageAssumption, CheckAssumption

-----------------------------------------------------------------------------
(* What is read from a channel *)

\* The sources of the description, one after the other, are the text of one page.
LEMMA ReadsOnePage ==
    ASSUME NEW c
    PROVE  /\ ShowsText(DataRead(c)) => ReadChannel(c) = FromInitialData(DataRead(c))
           /\ ~ShowsText(DataRead(c)) => ReadChannel(c) = FromHtml(c.html)
<1>1. ASSUME NEW data PROVE ShowsText(data) <=> FromInitialData(data).text # {}
  BY DEF ShowsText, FromInitialData, Description, None
<1> QED
  BY <1>1 DEF DataRead, ReadChannel

\* What the validation keeps of the words of a channel is what there is to read on it.
LEMMA ReadsAll ==
    ASSUME NEW c \in Channels
    PROVE  Extract(Result[c].text) = Expected[c]
<1> DEFINE p == PageOf[c]
           data == DataRead(p)
<1>1. ASSUME NEW a \in Addresses PROVE a \in Result[c].text /\ IsValid(a) <=> Readable(p, a)
  <2>1. CASE ShowsText(data)
    <3>1. Result[c].text = Description(data) \union Appended(data)
      BY <2>1, ReadsOnePage DEF Result, FromInitialData, ShowsText, Description
    <3>2. a \in Description(data) <=>
             \/ a \in data.metadata
             \/ data.metadata = {} /\ a \in data.micro
             \/ data.metadata \union data.micro = {} /\ a \in data.about
      BY DEF Description
    <3>3. a \in Appended(data) <=>
             \E i \in DOMAIN data.sections :
                /\ a \in data.sections[i].mailto \union data.sections[i].contact
                           \union data.sections[i].business
                /\ \A k \in 1..i : ~data.sections[k].broken
      BY DEF Appended, SectionsRead
    <3> QED
      BY <2>1, <3>1, <3>2, <3>3 DEF Readable
  <2>2. CASE ~ShowsText(data)
    <3>1. Result[c].text = IF p.html.pattern # {} THEN p.html.pattern ELSE p.html.meta
      <4>1. Result[c] = FromHtml(p.html)
        BY <2>2, ReadsOnePage DEF Result
      <4>2. CASE p.html.pattern = {} /\ p.html.meta = {}
        <5>1. FromHtml(p.html) = None
          BY <4>2 DEF FromHtml
        <5>2. None.text = {}
          BY DEF None
        <5> QED
          BY <4>1, <4>2, <5>1, <5>2
      <4>3. CASE p.html.pattern # {} \/ p.html.meta # {}
        BY <4>1, <4>3 DEF FromHtml
      <4> QED
        BY <4>2, <4>3
    <3> QED
      BY <2>2, <3>1 DEF Readable, ShowsText
  <2> QED
    BY <2>1, <2>2
<1>2. Expected[c] = {a \in Addresses : Readable(p, a)}
  BY DEF Expected
<1> QED
  BY <1>1, <1>2 DEF Extract

\* A truncated number is one short of the exact one at most.
LEMMA SubsAreClose ==
    ASSUME NEW c \in Channels, Result[c].text # {}
    PROVE  /\ Exact[c] \in Nat /\ Result[c].subs \in Nat
           /\ Result[c].subs = Exact[c] \/ Result[c].subs = Exact[c] - 1
<1> DEFINE p == PageOf[c]
           data == DataRead(p)
<1>1. ASSUME NEW shown, ShownOK(shown)
      PROVE  /\ ParseSubscribers(shown) \in Nat /\ ShownNumber(shown) \in Nat
             /\ \/ ParseSubscribers(shown) = ShownNumber(shown)
                \/ ParseSubscribers(shown) = ShownNumber(shown) - 1
             /\ ParseSubscribers(shown) = 0 <=> ShownNumber(shown) = 0
  BY <1>1 DEF ShownOK, ParseSubscribers, ShownNumber
<1>2. ShownOK(data.tabbed) /\ ShownOK(data.header) /\ ShownOK(p.html.shown)
  BY DEF PageOK, DataRead
<1>3. Exact[c] = ExactSubs(p) /\ Result[c] = ReadChannel(p)
  BY DEF Exact, Result
<1>4. CASE ShowsText(data)
  <2>1. Result[c].subs = Subscribers(data)
    BY <1>3, <1>4, ReadsOnePage DEF FromInitialData, ShowsText, Description
  <2>2. Exact[c] = IF ShownNumber(data.tabbed) # 0 THEN ShownNumber(data.tabbed)
                   ELSE ShownNumber(data.header)
    BY <1>3, <1>4 DEF ExactSubs
  <2> QED
    BY <1>1, <1>2, <2>1, <2>2 DEF Subscribers
<1>5. CASE ~ShowsText(data)
  <2>1. Result[c].subs = ParseSubscribers(p.html.shown)
    BY <1>3, <1>5, ReadsOnePage DEF FromHtml, None
  <2>2. Exact[c] = ShownNumber(p.html.shown)
    BY <1>3, <1>5 DEF ExactSubs
  <2> QED
    BY <1>1, <1>2, <2>1, <2>2
<1> QED
  BY <1>4, <1>5

\* What a page yields can be counted.
LEMMA ResultTyped ==
    ASSUME NEW c \in Channels
    PROVE  Result[c].subs \in Nat /\ Cardinality(Result[c].social) \in Nat
<1>1. Cardinality(Result[c].social) \in Nat
  BY FS_CardinalityType DEF PageOK, Result
<1>2. CASE Result[c].text = {}
  <2>1. Result[c] = FromHtml(PageOf[c].html)
    <3>1. ASSUME NEW data, FromInitialData(data).text = {} PROVE ~ShowsText(data)
      BY <3>1 DEF ShowsText, FromInitialData, Description, None
    <3> QED
      BY <1>2, <3>1, ReadsOnePage DEF Result
  <2>2. FromHtml(PageOf[c].html) = None
    BY <1>2, <2>1 DEF FromHtml
  <2> QED
    BY <1>1, <2>1, <2>2 DEF None
<1> QED
  BY <1>1, <1>2, SubsAreClose

\* The score of a verified address, which no cap has to bound.
LEMMA ConfidenceRange ==
    ASSUME NEW a, NEW subs \in Nat, NEW n \in Nat
    PROVE  Confidence(a, subs, n, TRUE) \in 45..100
<1>1. /\ PatternPoints(a) \in 10..25 /\ AuthorityPoints(subs) \in 5..25
      /\ SocialPoints(n) \in 0..20
  BY DEF PatternPoints, AuthorityPoints, SocialPoints
<1> QED
  BY <1>1 DEF Confidence

-----------------------------------------------------------------------------
(* Typing *)

\* The initial state is typed.
LEMMA TypeInit == Init => TypeOK
<1> SUFFICES ASSUME Init PROVE TypeOK
  OBVIOUS
<1>1. AnyChannel \in Channels
  BY DEF AnyChannel
<1> QED
  BY <1>1 DEF Init, TypeOK

\* Every step keeps the types.
LEMMA TypeStep == TypeOK /\ [Next]_vars => TypeOK'
<1> SUFFICES ASSUME TypeOK, [Next]_vars PROVE TypeOK'
  OBVIOUS
<1> USE DEF TypeOK, workerVars, cacheVars, jobVars, channelVars, Goto, Finish, Settle
<1>0. AnyChannel \in Channels /\ \A w \in Workers : JobOf[w] \in Jobs
  BY DEF AnyChannel
<1>1. ASSUME NEW w \in Workers, NEW c \in Channels, Take(w, c) PROVE TypeOK'
  <2>1. /\ pc[w] = "idle" /\ JobOf[w] \in Jobs
        /\ supply' = [supply EXCEPT ![JobOf[w]] = @ \ {c}]
        /\ UNCHANGED <<asked, verified, held, cacheVars, jobVars>>
    BY <1>0, <1>1 DEF Take
  <2>2. CASE /\ finished' = [finished EXCEPT ![JobOf[w]] = @ \union {c}]
             /\ UNCHANGED <<pc, channel, unchecked>>
    BY <2>1, <2>2
  <2>3. CASE /\ channel' = [channel EXCEPT ![w] = c]
             /\ unchecked' = [unchecked EXCEPT ![w] = Extract(Result[c].text)]
             /\ pc' = [pc EXCEPT ![w] = "check"] /\ UNCHANGED finished
    BY <2>1, <2>3 DEF Extract
  <2> QED
    BY <1>1, <2>2, <2>3 DEF Take
<1>2. ASSUME NEW w \in Workers, NEW a \in Addresses, Hit(w, a) PROVE TypeOK'
  BY <1>2 DEF Hit
<1>3. ASSUME NEW w \in Workers, NEW a \in Addresses, Miss(w, a) PROVE TypeOK'
  BY <1>3 DEF Miss
<1>4. ASSUME NEW w \in Workers, NEW a \in Addresses, NEW failure \in BOOLEAN,
             Answer(w, a, failure)
      PROVE  TypeOK'
  <2>1. asked[w] \in Domains
    BY <1>4 DEF Answer
  <2> QED
    BY <1>4, <2>1 DEF Answer, Remember
<1>5. ASSUME NEW w \in Workers, NEW a \in Addresses, Add(w, a) PROVE TypeOK'
  <2>1. /\ pc[w] = "add" /\ JobOf[w] \in Jobs
        /\ verified' = [verified EXCEPT ![w] = @ \ {a}]
        /\ UNCHANGED <<channel, unchecked, asked, rows, cacheVars, channelVars>>
    BY <1>0, <1>5 DEF Add
  <2>2. CASE UNCHANGED <<pc, held, seen, total>>
    BY <2>1, <2>2
  <2>3. CASE /\ seen' = [seen EXCEPT ![JobOf[w]] = @ \union {a}]
             /\ total' = [total EXCEPT ![JobOf[w]] = @ + 1]
             /\ held' = [held EXCEPT ![w] = a] /\ pc' = [pc EXCEPT ![w] = "push"]
    BY <2>1, <2>3
  <2> QED
    BY <1>5, <2>2, <2>3 DEF Add
<1>9. ASSUME NEW w \in Workers, Push(w) PROVE TypeOK'
  <2> DEFINE j == JobOf[w]
             row == RowOf(held[w], channel[w])
  <2>1. /\ pc[w] = "push" /\ j \in Jobs /\ held[w] \in Addresses /\ channel[w] \in Channels
        /\ rows' = [rows EXCEPT ![j] = @ \union {row}]
        /\ held' = [held EXCEPT ![w] = Nobody] /\ pc' = [pc EXCEPT ![w] = "add"]
        /\ UNCHANGED <<channel, unchecked, asked, verified, seen, total, cacheVars,
                       channelVars>>
    BY <1>0, <1>9 DEF Push
  <2>2. row \in Row
    <3>1. row.confidence \in 45..100
      BY <2>1, ResultTyped, ConfidenceRange DEF RowOf
    <3> QED
      BY <2>1, <3>1 DEF Row, RowOf
  <2> HIDE DEF row
  <2>3. rows' \in [Jobs -> SUBSET Row]
    BY <2>1, <2>2
  <2>4. /\ held' \in [Workers -> Addresses \union {Nobody}]
        /\ pc' \in [Workers -> {"idle", "check", "query", "add", "push", "off"}]
    BY <2>1
  <2>5. \A v \in Workers : /\ asked'[v] # Nobody <=> pc'[v] = "query"
                           /\ pc'[v] = "push" => held'[v] # Nobody
    BY <2>1
  <2> QED
    BY <2>1, <2>3, <2>4, <2>5
<1>6. ASSUME NEW w \in Workers, Checked(w) PROVE TypeOK'
  BY <1>6 DEF Checked
<1>10. ASSUME NEW w \in Workers, Done(w) PROVE TypeOK'
  BY <1>0, <1>10 DEF Done
<1>7. ASSUME NEW j \in Jobs, Cancel(j) PROVE TypeOK'
  BY <1>0, <1>7 DEF Cancel
<1>8. CASE UNCHANGED vars
  BY <1>8 DEF vars
<1> QED
  BY <1>1, <1>2, <1>3, <1>4, <1>5, <1>6, <1>7, <1>8, <1>9, <1>10
     DEF Next, WorkerStep

\* The variables hold what their names say, and a worker waits for the resolver exactly
\* while it has asked: the bookkeeping around the await of the resolver in has_mx_record and
\* around that of push_data_fn in _add_email.
THEOREM TypeCorrect == Spec => []TypeOK
<1> QED
  BY TypeInit, TypeStep, PTL DEF Spec

-----------------------------------------------------------------------------
(* What is delivered, and what is lost *)

Busy(w) == pc[w] \in {"check", "query", "add", "push"}

\* The cache is right, except for a domain whose query failed.
CacheOK ==
    \A d \in Domains :
        /\ mx[d] = "yes" => d \in HasMail
        /\ mx[d] = "no" => d \notin HasMail \ failed

\* A worker is at a channel that passed, and has only what is on it.
WorkersOK ==
    \A w \in Workers :
        /\ ~Busy(w) => verified[w] = {}
        /\ pc[w] \in {"add", "push"} => unchecked[w] = {}
        /\ held[w] # Nobody => pc[w] \in {"push", "off"}
        /\ pc[w] = "push" => held[w] \in Expected[channel[w]] /\ DomainOf(held[w]) \in HasMail
        /\ Busy(w) =>
              /\ Result[channel[w]].text # {}
              /\ PassesSubFilter(Result[channel[w]].subs)
              /\ unchecked[w] \union verified[w] \subseteq Expected[channel[w]]
              /\ \A a \in verified[w] : DomainOf(a) \in HasMail

HasRow(j, a) == \E r \in rows[j] : r.email = a

Taken(j, a) == HasRow(j, a) \/ InHand(j, a)

Delivered(j, a) == total[j] < MaxEmails => Taken(j, a)

\* It still has to look at an address, or it has done with it what it should.
WorkersAccount ==
    \A w \in Workers : Busy(w) =>
        \A a \in Expected[channel[w]] : DomainOf(a) \in HasMail \ failed =>
            a \in unchecked[w] \union verified[w] \/ Delivered(JobOf[w], a)

SeenAreTaken == \A j \in Jobs : \A a \in seen[j] : Taken(j, a)

ChannelsAccount ==
    \A j \in Jobs : \A c \in finished[j] : ClearlyInside(Exact[c]) =>
        \A a \in Expected[c] : DomainOf(a) \in HasMail \ failed => Delivered(j, a)

DeliveryInv ==
    /\ TypeOK /\ CacheOK /\ WorkersOK /\ WorkersAccount /\ SeenAreTaken
    /\ ChannelsAccount /\ RowsVerified

\* DeliveryInv holds initially: no worker holds a channel and nothing is cached.
LEMMA DeliveryInit == Init => DeliveryInv
<1> SUFFICES ASSUME Init PROVE DeliveryInv
  OBVIOUS
<1>1. TypeOK
  BY TypeInit
<1>2. CacheOK
  BY DEF Init, CacheOK
<1>3. WorkersOK /\ WorkersAccount
  BY DEF Init, WorkersOK, WorkersAccount, Busy
<1>4. SeenAreTaken /\ ChannelsAccount /\ RowsVerified
  BY DEF Init, SeenAreTaken, ChannelsAccount, RowsVerified
<1> QED
  BY <1>1, <1>2, <1>3, <1>4 DEF DeliveryInv

\* Rows and counters only grow, and an address leaves a hand for a row: what is accounted
\* for stays so.
LEMMA DeliveredStays ==
    ASSUME TypeOK, NEW j \in Jobs, NEW a \in Addresses,
           rows[j] \subseteq rows'[j], total[j] <= total'[j], total'[j] \in Nat,
           \A w \in Workers : held[w] = a => held'[w] = a \/ HasRow(JobOf[w], a)'
    PROVE  /\ Taken(j, a) => Taken(j, a)'
           /\ Delivered(j, a) => Delivered(j, a)'
<1>1. Taken(j, a) => Taken(j, a)'
  BY DEF Taken, HasRow, InHand
<1> QED
  BY <1>1 DEF TypeOK, Delivered

\* A channel that is skipped has no address to lose: it has no text, or its number is
\* not clearly inside the bounds.
LEMMA SkippedHasNothing ==
    ASSUME NEW c \in Channels, ClearlyInside(Exact[c]),
           Result[c].text = {} \/ ~PassesSubFilter(Result[c].subs)
    PROVE  Expected[c] = {}
<1>1. CASE Result[c].text = {}
  BY <1>1, ReadsAll DEF Extract
<1>2. CASE Result[c].text # {}
  BY <1>2, SubsAreClose DEF ClearlyInside, PassesSubFilter
<1> QED
  BY <1>1, <1>2

\* A number that passes is inside the bounds, give or take one.
LEMMA PassedIsInside ==
    ASSUME NEW c \in Channels, Result[c].text # {}, PassesSubFilter(Result[c].subs)
    PROVE  Inside(Exact[c])
  BY SubsAreClose DEF Inside, PassesSubFilter

\* A channel that is taken is skipped for a reason or held by its worker.
LEMMA TakeKeeps ==
    ASSUME DeliveryInv, TypeOK', NEW w \in Workers, NEW c \in Channels, Take(w, c)
    PROVE  DeliveryInv'
<1> USE DEF DeliveryInv
<1> DEFINE j == JobOf[w]
<1>0. /\ j \in Jobs /\ pc[w] = "idle"
      /\ UNCHANGED <<asked, verified, held, mx, queries, failed, seen, total, rows>>
  BY DEF Take, cacheVars, jobVars
<1>1. CacheOK' /\ SeenAreTaken' /\ RowsVerified'
  BY <1>0 DEF CacheOK, SeenAreTaken, Taken, HasRow, InHand, RowsVerified
<1>2. CASE Result[c].text = {} \/ ~PassesSubFilter(Result[c].subs)
  <2>1. /\ UNCHANGED <<pc, channel, unchecked>>
        /\ finished' = [finished EXCEPT ![j] = @ \union {c}]
    BY <1>2 DEF Take, Finish
  <2>2. WorkersOK' /\ WorkersAccount'
    BY <1>0, <2>1 DEF WorkersOK, WorkersAccount, Busy, Delivered, Taken, HasRow, InHand
  <2>3. ChannelsAccount'
    <3> SUFFICES ASSUME NEW k \in Jobs, NEW d \in finished'[k], ClearlyInside(Exact[d]),
                        NEW a \in Expected[d], DomainOf(a) \in HasMail \ failed
                 PROVE  Delivered(k, a)'
      BY <1>0 DEF ChannelsAccount
    <3>1. d \in finished[k] \/ d = c
      BY <2>1 DEF TypeOK
    <3>2. d \in finished[k]
      BY <1>2, <3>1, SkippedHasNothing
    <3> QED
      BY <1>0, <3>2 DEF ChannelsAccount, Delivered, Taken, HasRow, InHand
  <2> QED
    BY <1>1, <2>2, <2>3
<1>3. CASE ~(Result[c].text = {} \/ ~PassesSubFilter(Result[c].subs))
  <2>1. /\ channel' = [channel EXCEPT ![w] = c]
        /\ unchecked' = [unchecked EXCEPT ![w] = Expected[c]]
        /\ pc' = [pc EXCEPT ![w] = "check"]
        /\ UNCHANGED finished
    BY <1>3, ReadsAll DEF Take, Goto
  <2>2. verified[w] = {}
    BY <1>0 DEF WorkersOK, Busy
  <2>3. WorkersOK'
    BY <1>0, <1>3, <2>1, <2>2 DEF WorkersOK, Busy, TypeOK
  <2>4. WorkersAccount'
    BY <1>0, <2>1 DEF WorkersAccount, Busy, TypeOK, Delivered, Taken, HasRow, InHand
  <2>5. ChannelsAccount'
    BY <1>0, <2>1 DEF ChannelsAccount, Delivered, Taken, HasRow, InHand
  <2> QED
    BY <1>1, <2>3, <2>4, <2>5
<1> QED
  BY <1>2, <1>3

\* An address is looked up, in the cache or by a query: it is verified, or its domain
\* has no mail or is one that failed.
LEMMA SettleKeeps ==
    ASSUME DeliveryInv, TypeOK', NEW w \in Workers, NEW a \in Addresses,
           pc[w] \in {"check", "query"}, a \in unchecked[w],
           Settle(w, a, mx'[DomainOf(a)] = "yes"), mx'[DomainOf(a)] # "unknown",
           pc' = [pc EXCEPT ![w] = "check"], failed \subseteq failed', CacheOK',
           UNCHANGED <<channel, held, seen, total, rows, finished>>
    PROVE  DeliveryInv'
<1> USE DEF DeliveryInv
<1>0. DomainOf(a) \in Domains /\ mx'[DomainOf(a)] \in {"yes", "no"}
  BY DEF TypeOK
<1>1. WorkersOK'
  <2>1. mx'[DomainOf(a)] = "yes" => DomainOf(a) \in HasMail
    BY <1>0 DEF CacheOK
  <2>2. /\ \A v \in Workers \ {w} : /\ pc'[v] = pc[v] /\ unchecked'[v] = unchecked[v]
                                   /\ verified'[v] = verified[v]
        /\ pc'[w] = "check" /\ unchecked'[w] = unchecked[w] \ {a}
        /\ \A b \in verified'[w] :
               b \in verified[w] \/ (b = a /\ DomainOf(a) \in HasMail)
    BY <2>1 DEF TypeOK, Settle
  <2>3. held[w] = Nobody
    BY DEF WorkersOK
  <2>4. Busy(w) /\ \A v \in Workers \ {w} : Busy(v)' <=> Busy(v)
    BY <2>2 DEF Busy
  <2>5. ASSUME NEW v \in Workers \ {w}
        PROVE  /\ ~Busy(v)' => verified'[v] = {}
               /\ pc'[v] \in {"add", "push"} => unchecked'[v] = {}
               /\ held'[v] # Nobody => pc'[v] \in {"push", "off"}
    BY <2>2, <2>4 DEF WorkersOK
  <2>6. ASSUME NEW v \in Workers \ {w}
        PROVE  /\ pc'[v] = "push" => /\ held'[v] \in Expected[channel'[v]]
                                     /\ DomainOf(held'[v]) \in HasMail
               /\ Busy(v)' => /\ Result[channel'[v]].text # {}
                              /\ PassesSubFilter(Result[channel'[v]].subs)
                              /\ unchecked'[v] \union verified'[v]
                                     \subseteq Expected[channel'[v]]
                              /\ \A b \in verified'[v] : DomainOf(b) \in HasMail
    BY <2>2, <2>4 DEF WorkersOK
  <2>7. /\ Busy(w)' /\ held'[w] = Nobody /\ pc'[w] = "check"
        /\ Result[channel'[w]].text # {} /\ PassesSubFilter(Result[channel'[w]].subs)
        /\ unchecked'[w] \union verified'[w] \subseteq Expected[channel'[w]]
        /\ \A b \in verified'[w] : DomainOf(b) \in HasMail
    BY <2>2, <2>3, <2>4 DEF WorkersOK, Busy
  <2> QED
    BY <2>5, <2>6, <2>7 DEF WorkersOK
<1>2. WorkersAccount'
  <2> SUFFICES ASSUME NEW v \in Workers, Busy(v)', NEW b \in Expected[channel[v]],
                      DomainOf(b) \in HasMail \ failed'
               PROVE  b \in unchecked'[v] \union verified'[v] \/ Delivered(JobOf[v], b)'
    BY DEF WorkersAccount
  <2>1. Busy(v) /\ DomainOf(b) \in HasMail \ failed
    BY DEF Busy, TypeOK
  <2>2. b \in unchecked[v] \union verified[v] \/ Delivered(JobOf[v], b)
    BY <2>1 DEF WorkersAccount
  <2>3. Delivered(JobOf[v], b) => Delivered(JobOf[v], b)'
    BY DEF Delivered, Taken, HasRow, InHand
  <2>4. CASE v = w /\ b = a
    BY <1>0, <2>4 DEF CacheOK, Settle, TypeOK
  <2>5. CASE ~(v = w /\ b = a)
    BY <2>2, <2>3, <2>5 DEF Settle, TypeOK
  <2> QED
    BY <2>4, <2>5
<1>3. SeenAreTaken' /\ ChannelsAccount' /\ RowsVerified'
  BY DEF SeenAreTaken, ChannelsAccount, RowsVerified, Taken, HasRow, InHand,
                      Delivered
<1> QED
  BY <1>1, <1>2, <1>3

\* A cached verdict moves one address of the worker, and loses it only to a cached failure.
LEMMA HitKeeps ==
    ASSUME DeliveryInv, TypeOK', NEW w \in Workers, NEW a \in Addresses, Hit(w, a)
    PROVE  DeliveryInv'
<1>1. /\ pc[w] = "check" /\ a \in unchecked[w] /\ mx[DomainOf(a)] # "unknown"
      /\ Settle(w, a, mx'[DomainOf(a)] = "yes")
      /\ UNCHANGED <<pc, channel, held, mx, failed, seen, total, rows, finished>>
  BY DEF Hit, Settle, cacheVars, jobVars, channelVars
<1>2. pc' = [pc EXCEPT ![w] = "check"]
  BY <1>1 DEF DeliveryInv, TypeOK
<1>3. CacheOK'
  BY <1>1 DEF DeliveryInv, CacheOK
<1> QED
  BY <1>1, <1>2, <1>3, SettleKeeps

\* An answer of the resolver settles one address and fills the cache with the same verdict.
LEMMA AnswerKeeps ==
    ASSUME DeliveryInv, TypeOK', NEW w \in Workers, NEW a \in Addresses,
           NEW failure \in BOOLEAN, Answer(w, a, failure)
    PROVE  DeliveryInv'
<1> DEFINE d == DomainOf(a)
           answer == ~failure /\ d \in HasMail
<1>1. /\ pc[w] = "query" /\ a \in unchecked[w] /\ asked[w] = d
      /\ failed' = IF failure THEN failed \union {d} ELSE failed
      /\ mx' = [mx EXCEPT ![d] = IF answer THEN "yes" ELSE "no"]
      /\ Settle(w, a, mx'[d] = "yes")
      /\ pc' = [pc EXCEPT ![w] = "check"]
      /\ UNCHANGED <<channel, held, seen, total, rows, finished>>
  BY DEF Answer, Remember, Goto, jobVars, channelVars
<1>2. d \in Domains /\ mx \in [Domains -> {"unknown", "yes", "no"}]
  BY DEF DeliveryInv, TypeOK
<1>3. CacheOK'
  BY <1>1, <1>2 DEF DeliveryInv, CacheOK
<1>4. mx'[d] # "unknown" /\ failed \subseteq failed'
  BY <1>1, <1>2
<1> QED
  BY <1>1, <1>3, <1>4, SettleKeeps

\* A worker that looks up an address, or has looked up all of them, only moves on.
LEMMA MoveKeeps ==
    ASSUME DeliveryInv, TypeOK', NEW w \in Workers, NEW there \in {"query", "add"},
           pc[w] = "check", there = "add" => unchecked[w] = {},
           pc' = [pc EXCEPT ![w] = there],
           UNCHANGED <<channel, unchecked, verified, held, mx, failed, seen, total, rows,
                       finished>>
    PROVE  DeliveryInv'
<1> USE DEF DeliveryInv
<1>1. \A v \in Workers : Busy(v)' <=> Busy(v)
  BY DEF Busy, TypeOK
<1>2. WorkersOK'
  BY <1>1 DEF WorkersOK, TypeOK
<1>3. \A j, a : Delivered(j, a)' <=> Delivered(j, a)
  BY DEF Delivered, Taken, HasRow, InHand
<1>4. WorkersAccount' /\ ChannelsAccount'
  BY <1>1, <1>3 DEF WorkersAccount, ChannelsAccount
<1>5. CacheOK' /\ SeenAreTaken' /\ RowsVerified'
  BY DEF CacheOK, SeenAreTaken, Taken, HasRow, InHand, RowsVerified
<1> QED
  BY <1>2, <1>4, <1>5

\* A verified address is taken in hand, or was taken already, or the job is full.
LEMMA AddKeeps ==
    ASSUME DeliveryInv, TypeOK', NEW w \in Workers, NEW a \in Addresses, Add(w, a)
    PROVE  DeliveryInv'
<1> USE DEF DeliveryInv
<1> DEFINE j == JobOf[w]
<1>0. /\ j \in Jobs /\ pc[w] = "add" /\ a \in verified[w] /\ held[w] = Nobody
      /\ verified' = [verified EXCEPT ![w] = @ \ {a}]
      /\ UNCHANGED <<channel, unchecked, asked, mx, queries, failed, rows, supply, finished>>
  BY DEF Add, TypeOK, WorkersOK, cacheVars, channelVars
<1>1. CacheOK' /\ RowsVerified'
  BY <1>0 DEF CacheOK, RowsVerified
<1>2. CASE a \in seen[j] \/ ~(total[j] < MaxEmails)
  <2>1. UNCHANGED <<pc, held, seen, total>>
    BY <1>2 DEF Add
  <2>2. WorkersOK'
    BY <1>0, <2>1 DEF WorkersOK, Busy, TypeOK
  <2>3. ASSUME NEW k, NEW b
        PROVE  /\ Taken(k, b) => Taken(k, b)'
               /\ Delivered(k, b) => Delivered(k, b)'
    BY <1>0, <2>1 DEF Delivered, Taken, HasRow, InHand
  <2>4. Delivered(j, a)
    BY <1>0, <1>2 DEF Delivered, SeenAreTaken
  <2>5. SeenAreTaken'
    BY <2>1, <2>3 DEF SeenAreTaken
  <2>7. ChannelsAccount'
    BY <1>0, <2>3 DEF ChannelsAccount
  <2>6. WorkersAccount'
    <3> SUFFICES ASSUME NEW v \in Workers, Busy(v)', NEW b \in Expected[channel[v]],
                        DomainOf(b) \in HasMail \ failed
                 PROVE  b \in unchecked'[v] \union verified'[v] \/ Delivered(JobOf[v], b)'
      BY <1>0 DEF WorkersAccount
    <3>1. b \in unchecked[v] \union verified[v] \/ Delivered(JobOf[v], b)
      BY <2>1 DEF WorkersAccount, Busy
    <3> QED
      BY <1>0, <2>3, <2>4, <3>1 DEF TypeOK
  <2> QED
    BY <1>1, <2>2, <2>5, <2>6, <2>7
<1>3. CASE a \notin seen[j] /\ total[j] < MaxEmails
  <2>1. /\ seen' = [seen EXCEPT ![j] = @ \union {a}]
        /\ total' = [total EXCEPT ![j] = @ + 1]
        /\ held' = [held EXCEPT ![w] = a]
        /\ pc' = [pc EXCEPT ![w] = "push"]
    BY <1>3 DEF Add, Goto
  <2>2. WorkersOK'
    BY <1>0, <2>1 DEF WorkersOK, Busy, TypeOK
  <2>3. ASSUME NEW k \in Jobs, NEW b \in Addresses
        PROVE  /\ Taken(k, b) => Taken(k, b)'
               /\ Delivered(k, b) => Delivered(k, b)'
    <3>1. rows[k] \subseteq rows'[k] /\ total[k] <= total'[k] /\ total'[k] \in Nat
      BY <1>0, <2>1 DEF TypeOK
    <3>2. \A v \in Workers : held[v] = b => held'[v] = b
      BY <1>0, <2>1 DEF TypeOK
    <3> QED
      BY <3>1, <3>2, DeliveredStays
  <2>4. Taken(j, a)' /\ Delivered(j, a)'
    BY <1>0, <2>1 DEF Taken, InHand, Delivered, TypeOK
  <2>5. SeenAreTaken'
    <3> SUFFICES ASSUME NEW k \in Jobs, NEW b \in seen'[k] PROVE Taken(k, b)'
      BY DEF SeenAreTaken
    <3>1. (k = j /\ b = a) \/ b \in seen[k]
      BY <1>0, <2>1 DEF TypeOK
    <3>2. b \in Addresses
      BY DEF TypeOK
    <3> QED
      BY <2>3, <2>4, <3>1, <3>2 DEF SeenAreTaken
  <2>6. WorkersAccount'
    <3> SUFFICES ASSUME NEW v \in Workers, Busy(v)', NEW b \in Expected[channel[v]],
                        DomainOf(b) \in HasMail \ failed
                 PROVE  b \in unchecked'[v] \union verified'[v] \/ Delivered(JobOf[v], b)'
      BY <1>0 DEF WorkersAccount
    <3>1. Busy(v) /\ JobOf[v] \in Jobs /\ b \in Addresses
      BY <1>0, <2>1 DEF Busy, TypeOK, Expected
    <3>2. b \in unchecked[v] \union verified[v] \/ Delivered(JobOf[v], b)
      BY <3>1 DEF WorkersAccount
    <3> QED
      BY <1>0, <2>3, <2>4, <3>1, <3>2 DEF TypeOK
  <2>7. ChannelsAccount'
    <3> SUFFICES ASSUME NEW k \in Jobs, NEW d \in finished[k], ClearlyInside(Exact[d]),
                        NEW b \in Expected[d], DomainOf(b) \in HasMail \ failed
                 PROVE  Delivered(k, b)'
      BY <1>0 DEF ChannelsAccount
    <3>1. Delivered(k, b) /\ b \in Addresses
      BY DEF ChannelsAccount, TypeOK, Expected
    <3> QED
      BY <2>3, <3>1
  <2> QED
    BY <1>1, <2>2, <2>5, <2>6, <2>7
<1> QED
  BY <1>2, <1>3

\* What is pushed leaves the hand of the worker for a row, which is as it should be.
LEMMA PushKeeps ==
    ASSUME DeliveryInv, TypeOK', NEW w \in Workers, Push(w)
    PROVE  DeliveryInv'
<1> USE DEF DeliveryInv
<1> DEFINE j == JobOf[w]
<1>a. PICK a \in Addresses : a = held[w]
  BY DEF Push, TypeOK
<1>c. PICK c \in Channels : c = channel[w]
  BY DEF TypeOK
<1>0. /\ j \in Jobs /\ pc[w] = "push"
      /\ held' = [held EXCEPT ![w] = Nobody] /\ pc' = [pc EXCEPT ![w] = "add"]
      /\ UNCHANGED <<channel, unchecked, asked, verified, mx, queries, failed, seen, total,
                     supply, finished>>
  BY DEF Push, Goto, TypeOK, cacheVars, channelVars
<1>1. PICK row : /\ row.email = a /\ row.channel = c
                 /\ rows' = [rows EXCEPT ![j] = @ \union {row}]
  <2>1. rows' = [rows EXCEPT ![j] = @ \union {RowOf(a, c)}]
    BY <1>a, <1>c DEF Push
  <2>2. RowOf(a, c).email = a /\ RowOf(a, c).channel = c
    BY DEF RowOf
  <2> QED
    BY <2>1, <2>2
<1>2. CacheOK' /\ WorkersOK'
  BY <1>0 DEF CacheOK, WorkersOK, Busy, TypeOK
<1>3. RowsVerified'
  <2>1. a \in Expected[c] /\ DomainOf(a) \in HasMail /\ Inside(Exact[c])
    BY <1>0, <1>a, <1>c, PassedIsInside DEF WorkersOK, Busy
  <2>2. \A k \in Jobs : \A r \in rows'[k] : r \in rows[k] \/ r = row
    BY <1>0, <1>1 DEF TypeOK
  <2> QED
    BY <1>1, <2>1, <2>2 DEF RowsVerified
<1>4. ASSUME NEW k \in Jobs, NEW b \in Addresses
      PROVE  /\ Taken(k, b) => Taken(k, b)'
             /\ Delivered(k, b) => Delivered(k, b)'
  <2>1. rows[k] \subseteq rows'[k] /\ total[k] <= total'[k] /\ total'[k] \in Nat
    BY <1>0, <1>1 DEF TypeOK
  <2>2. HasRow(j, a)'
    BY <1>0, <1>1 DEF TypeOK, HasRow
  <2>3. \A v \in Workers : held[v] = b => held'[v] = b \/ HasRow(JobOf[v], b)'
    BY <1>0, <1>a, <2>2 DEF TypeOK
  <2> QED
    BY <2>1, <2>3, DeliveredStays
<1>5. SeenAreTaken'
  BY <1>0, <1>4 DEF SeenAreTaken, TypeOK
<1>6. WorkersAccount'
  <2> SUFFICES ASSUME NEW v \in Workers, Busy(v)', NEW b \in Expected[channel[v]],
                      DomainOf(b) \in HasMail \ failed
               PROVE  b \in unchecked[v] \union verified[v] \/ Delivered(JobOf[v], b)'
    BY <1>0 DEF WorkersAccount
  <2>1. Busy(v) /\ JobOf[v] \in Jobs /\ b \in Addresses
    BY <1>0 DEF Busy, TypeOK, Expected
  <2>2. b \in unchecked[v] \union verified[v] \/ Delivered(JobOf[v], b)
    BY <2>1 DEF WorkersAccount
  <2> QED
    BY <1>4, <2>1, <2>2
<1>7. ChannelsAccount'
  <2> SUFFICES ASSUME NEW k \in Jobs, NEW d \in finished[k], ClearlyInside(Exact[d]),
                      NEW b \in Expected[d], DomainOf(b) \in HasMail \ failed
               PROVE  Delivered(k, b)'
    BY <1>0 DEF ChannelsAccount
  <2>1. Delivered(k, b) /\ b \in Addresses
    BY DEF ChannelsAccount, TypeOK, Expected
  <2> QED
    BY <1>4, <2>1
<1> QED
  BY <1>2, <1>3, <1>5, <1>6, <1>7

\* The worker is done: nothing is left to look up or to add.
LEMMA DoneKeeps ==
    ASSUME DeliveryInv, TypeOK', NEW w \in Workers, Done(w)
    PROVE  DeliveryInv'
<1> USE DEF DeliveryInv
<1> DEFINE j == JobOf[w]
<1>0. /\ j \in Jobs /\ pc[w] = "add" /\ verified[w] = {} /\ unchecked[w] = {}
      /\ pc' = [pc EXCEPT ![w] = "idle"]
      /\ channel' = [channel EXCEPT ![w] = AnyChannel]
      /\ finished' = [finished EXCEPT ![j] = @ \union {channel[w]}]
      /\ UNCHANGED <<unchecked, verified, held, mx, failed, seen, total, rows>>
  BY DEF Done, Goto, Finish, WorkersOK, cacheVars, jobVars
<1>1. CacheOK' /\ SeenAreTaken' /\ RowsVerified'
  BY <1>0 DEF CacheOK, SeenAreTaken, Taken, HasRow, InHand, RowsVerified
<1>2. WorkersOK'
  BY <1>0 DEF WorkersOK, Busy, TypeOK
<1>4. WorkersAccount'
  <2>1. \A k, a : Delivered(k, a)' <=> Delivered(k, a)
    BY <1>0 DEF Delivered, Taken, HasRow, InHand
  <2> QED
    BY <1>0, <2>1 DEF WorkersAccount, Busy, TypeOK
<1>3. ChannelsAccount'
  <2> SUFFICES ASSUME NEW k \in Jobs, NEW d \in finished'[k], ClearlyInside(Exact[d]),
                      NEW a \in Expected[d], DomainOf(a) \in HasMail \ failed
               PROVE  Delivered(k, a)'
    BY <1>0 DEF ChannelsAccount
  <2>1. d \in finished[k] \/ (k = j /\ d = channel[w])
    BY <1>0 DEF TypeOK
  <2>2. Delivered(k, a)
    BY <1>0, <2>1 DEF ChannelsAccount, WorkersAccount, Busy
  <2> QED
    BY <1>0, <2>2 DEF Delivered, Taken, HasRow, InHand
<1> QED
  BY <1>1, <1>2, <1>3, <1>4

\* Every step keeps DeliveryInv; TakeKeeps to DoneKeeps are its actions with something to show.
LEMMA DeliveryStep == DeliveryInv /\ [Next]_vars => DeliveryInv'
<1> SUFFICES ASSUME DeliveryInv, [Next]_vars PROVE DeliveryInv'
  OBVIOUS
<1>0. TypeOK'
  BY TypeStep DEF DeliveryInv
<1>1. ASSUME NEW w \in Workers, NEW c \in Channels, Take(w, c) PROVE DeliveryInv'
  BY <1>0, <1>1, TakeKeeps
<1>2. ASSUME NEW w \in Workers, NEW a \in Addresses, Hit(w, a) PROVE DeliveryInv'
  BY <1>0, <1>2, HitKeeps
<1>3. ASSUME NEW w \in Workers, NEW a \in Addresses, Miss(w, a) PROVE DeliveryInv'
  <2>1. /\ pc[w] = "check" /\ pc' = [pc EXCEPT ![w] = "query"]
        /\ UNCHANGED <<channel, unchecked, verified, held, mx, failed, seen, total, rows,
                       finished>>
    BY <1>3 DEF Miss, Goto, jobVars, channelVars
  <2> QED
    BY <1>0, <2>1, MoveKeeps
<1>4. ASSUME NEW w \in Workers, NEW a \in Addresses, NEW failure \in BOOLEAN,
             Answer(w, a, failure)
      PROVE  DeliveryInv'
  BY <1>0, <1>4, AnswerKeeps
<1>5. ASSUME NEW w \in Workers, NEW a \in Addresses, Add(w, a) PROVE DeliveryInv'
  BY <1>0, <1>5, AddKeeps
<1>10. ASSUME NEW w \in Workers, Push(w) PROVE DeliveryInv'
  BY <1>0, <1>10, PushKeeps
<1>6. ASSUME NEW w \in Workers, Checked(w) PROVE DeliveryInv'
  <2>1. /\ pc[w] = "check" /\ unchecked[w] = {} /\ pc' = [pc EXCEPT ![w] = "add"]
        /\ UNCHANGED <<channel, unchecked, verified, held, mx, failed, seen, total, rows,
                       finished>>
    BY <1>6 DEF Checked, Goto, cacheVars, jobVars, channelVars
  <2> QED
    BY <1>0, <2>1, MoveKeeps
<1>7. ASSUME NEW w \in Workers, Done(w) PROVE DeliveryInv'
  BY <1>0, <1>7, DoneKeeps
<1>8. ASSUME NEW j \in Jobs, Cancel(j) PROVE DeliveryInv'
  <2>1. /\ \A w \in Workers :
              \/ pc'[w] = "off" /\ verified'[w] = {} /\ unchecked'[w] = {}
              \/ /\ pc'[w] = pc[w] /\ verified'[w] = verified[w]
                 /\ unchecked'[w] = unchecked[w] /\ channel'[w] = channel[w]
        /\ UNCHANGED <<held, mx, failed, seen, total, rows, finished>>
    BY <1>8 DEF Cancel, cacheVars, jobVars, channelVars
  <2> QED
    BY <1>0, <2>1 DEF DeliveryInv, CacheOK, WorkersOK, WorkersAccount, Busy,
                      SeenAreTaken, ChannelsAccount, RowsVerified, Taken, HasRow, InHand,
                      Delivered
<1>9. CASE UNCHANGED vars
  BY <1>0, <1>9 DEF vars, workerVars, cacheVars, jobVars, channelVars, DeliveryInv, CacheOK,
                    WorkersOK, WorkersAccount, Busy, SeenAreTaken, ChannelsAccount,
                    RowsVerified, Taken, HasRow, InHand, Delivered
<1> QED
  BY <1>1, <1>2, <1>3, <1>4, <1>5, <1>6, <1>7, <1>8, <1>9, <1>10
     DEF Next, WorkerStep

\* Whatever queries fail and however the workers of all jobs interleave around the
\* shared _mx_cache, a delivered address was on the channel it names, the channel is
\* inside the bounds of the job up to the truncation, and the domain has mail.
THEOREM RowsVerifiedAlways == Spec => []RowsVerified
<1>1. DeliveryInv => RowsVerified
  BY DEF DeliveryInv
<1> QED
  BY <1>1, DeliveryInit, DeliveryStep, PTL DEF Spec

\* A worker that is done with a channel has delivered every address on it whose domain
\* has mail, unless a query for the domain failed or the job has its max_emails.
THEOREM LostOnlyToFailureAlways == Spec => []LostOnlyToFailure
<1>1. DeliveryInv => LostOnlyToFailure
  BY DEF DeliveryInv, ChannelsAccount, Delivered, Taken, HasRow, InHand, LostOnlyToFailure
<1> QED
  BY <1>1, DeliveryInit, DeliveryStep, PTL DEF Spec

-----------------------------------------------------------------------------
(* What a domain costs *)

\* The workers that have asked for d, or may have before they were cancelled.
Askers(d) == {w \in Workers : asked[w] = d \/ pc[w] = "off"}

\* While there is no answer, each query was sent by a worker that sent no other.
QueriesInv ==
    /\ TypeOK
    /\ \A d \in Domains : mx[d] = "unknown" => queries[d] <= Cardinality(Askers(d))
    /\ QueriesBounded

\* The workers that ask are no more than the workers.
LEMMA AskersBounded ==
    ASSUME NEW S \in SUBSET Workers
    PROVE  /\ IsFiniteSet(S) /\ Cardinality(S) \in Nat /\ Cardinality(Workers) \in Nat
           /\ Cardinality(S) <= Cardinality(Workers)
  BY FS_Subset, FS_CardinalityType

\* Every step keeps QueriesInv: a query needs an asker, and the first answer closes the domain.
LEMMA QueriesStep == QueriesInv /\ [Next]_vars => QueriesInv'
<1> SUFFICES ASSUME QueriesInv, [Next]_vars PROVE QueriesInv'
  OBVIOUS
<1>0. TypeOK /\ TypeOK'
  BY TypeStep DEF QueriesInv
<1>a. \A d : Askers(d) \in SUBSET Workers /\ Askers(d)' \in SUBSET Workers
  BY DEF Askers
\* A step that sends no query and leaves the askers of the open domains in place.
<1>b. ASSUME UNCHANGED queries,
             \A d \in Domains : mx'[d] = "unknown" =>
                 mx[d] = "unknown" /\ Askers(d) \subseteq Askers(d)'
      PROVE  QueriesInv'
  <2>1. ASSUME NEW d \in Domains, mx'[d] = "unknown"
        PROVE  queries'[d] <= Cardinality(Askers(d)')
    <3>1. Cardinality(Askers(d)) <= Cardinality(Askers(d)')
      BY <1>a, <1>b, <2>1, AskersBounded, FS_Subset
    <3>2. queries[d] <= Cardinality(Askers(d)) /\ queries[d] \in Nat
      BY <1>0, <1>b, <2>1 DEF QueriesInv, TypeOK
    <3>3. Cardinality(Askers(d)) \in Nat /\ Cardinality(Askers(d)') \in Nat
      BY <1>a, AskersBounded
    <3> QED
      BY <1>b, <3>1, <3>2, <3>3
  <2>2. QueriesBounded'
    BY <1>b DEF QueriesInv, QueriesBounded
  <2> QED
    BY <1>0, <2>1, <2>2 DEF QueriesInv
<1>1. ASSUME NEW w \in Workers, NEW a \in Addresses, Miss(w, a) PROVE QueriesInv'
  <2> DEFINE d == DomainOf(a)
  <2>1. /\ pc[w] = "check" /\ mx[d] = "unknown" /\ UNCHANGED mx
        /\ asked' = [asked EXCEPT ![w] = d]
        /\ queries' = [queries EXCEPT ![d] = @ + 1]
        /\ pc' = [pc EXCEPT ![w] = "query"]
    BY <1>1 DEF Miss, Goto
  <2>2. d \in Domains /\ d # Nobody /\ asked[w] = Nobody
    BY <1>0, <2>1 DEF TypeOK
  <2>3. w \notin Askers(d) /\ Askers(d)' = Askers(d) \union {w}
    BY <1>0, <2>1, <2>2 DEF Askers, TypeOK
  <2>4. Cardinality(Askers(d)') = Cardinality(Askers(d)) + 1
    BY <1>a, <2>3, AskersBounded, FS_AddElement
  <2>5. /\ queries[d] <= Cardinality(Askers(d)) /\ queries[d] \in Nat
        /\ Cardinality(Askers(d)) \in Nat /\ Cardinality(Askers(d)') \in Nat
        /\ Cardinality(Askers(d)') <= Cardinality(Workers) /\ Cardinality(Workers) \in Nat
    BY <1>0, <1>a, <2>1, <2>2, AskersBounded DEF QueriesInv, TypeOK
  <2>6. queries'[d] = queries[d] + 1
    BY <1>0, <2>1, <2>2 DEF TypeOK
  <2>7. ASSUME NEW e \in Domains, e # d
        PROVE  queries'[e] = queries[e] /\ Askers(e)' = Askers(e)
    BY <1>0, <2>1, <2>2, <2>7 DEF TypeOK, Askers
  <2>8. \A e \in Domains : mx'[e] = "unknown" => queries'[e] <= Cardinality(Askers(e)')
    BY <2>1, <2>4, <2>5, <2>6, <2>7 DEF QueriesInv
  <2>9. QueriesBounded'
    BY <2>4, <2>5, <2>6, <2>7 DEF QueriesInv, QueriesBounded
  <2> QED
    BY <1>0, <2>8, <2>9 DEF QueriesInv
<1>2. ASSUME NEW w \in Workers, NEW a \in Addresses, NEW failure \in BOOLEAN,
             Answer(w, a, failure)
      PROVE  QueriesInv'
  <2>1. /\ pc[w] = "query" /\ asked[w] \in Domains
        /\ UNCHANGED queries /\ pc' = [pc EXCEPT ![w] = "check"]
        /\ asked' = [asked EXCEPT ![w] = Nobody]
        /\ mx' = [mx EXCEPT ![asked[w]] =
                     IF ~failure /\ asked[w] \in HasMail THEN "yes" ELSE "no"]
    BY <1>2 DEF Answer, Remember, Goto
  <2> QED
    BY <1>0, <1>b, <2>1 DEF TypeOK, Askers
<1>3. ASSUME NEW j \in Jobs, Cancel(j) PROVE QueriesInv'
  <2>1. /\ UNCHANGED <<queries, mx>>
        /\ \A w \in Workers : pc'[w] = "off" \/ (pc'[w] = pc[w] /\ asked'[w] = asked[w])
    BY <1>3 DEF Cancel, cacheVars
  <2> QED
    BY <1>b, <2>1 DEF Askers
<1>4. ASSUME UNCHANGED <<queries, mx, asked>>,
             \A w \in Workers : pc[w] = "off" => pc'[w] = "off"
      PROVE  QueriesInv'
  BY <1>b, <1>4 DEF Askers
<1>5. ASSUME NEW w \in Workers, NEW c \in Channels, Take(w, c) PROVE QueriesInv'
  BY <1>0, <1>4, <1>5 DEF Take, Goto, cacheVars, TypeOK
<1>6. ASSUME NEW w \in Workers, NEW a \in Addresses, Hit(w, a)
      PROVE  QueriesInv'
  BY <1>4, <1>6 DEF Hit, cacheVars
<1>9. ASSUME NEW w \in Workers, NEW a \in Addresses, Add(w, a) PROVE QueriesInv'
  BY <1>0, <1>4, <1>9 DEF Add, Goto, cacheVars, TypeOK
<1>7. ASSUME NEW w \in Workers, Checked(w) \/ Push(w) \/ Done(w) PROVE QueriesInv'
  BY <1>0, <1>4, <1>7 DEF Checked, Push, Done, Goto, cacheVars, TypeOK
<1>8. CASE UNCHANGED vars
  BY <1>4, <1>8 DEF vars, workerVars, cacheVars
<1> QED
  BY <1>1, <1>2, <1>3, <1>5, <1>6, <1>7, <1>8, <1>9 DEF Next, WorkerStep

\* All the workers of a process together query a domain at most once each, though any
\* number of them may be between the read of the cache and the write to it.
THEOREM QueriesBoundedAlways == Spec => []QueriesBounded
<1>1. Init => QueriesInv
  <2> SUFFICES ASSUME Init PROVE QueriesInv
    OBVIOUS
  <2>1. \A d \in Domains : queries[d] = 0
    BY DEF Init
  <2>2. \A d : Cardinality(Askers(d)) \in Nat /\ Cardinality(Workers) \in Nat
    BY AskersBounded DEF Askers
  <2> QED
    BY <2>1, <2>2, TypeInit DEF QueriesInv, QueriesBounded
<1>2. QueriesInv => QueriesBounded
  BY DEF QueriesInv
<1> QED
  BY <1>1, <1>2, QueriesStep, PTL DEF Spec

\* Once no query for a domain is out, its entry in _mx_cache is never written again.
THEOREM VerdictIsFinalAlways == Spec => VerdictIsFinal
<1>1. TypeOK /\ [Next]_vars =>
          [\A d \in Domains : Settled(d) => Settled(d)' /\ mx'[d] = mx[d]]_vars
  <2> SUFFICES ASSUME TypeOK, Next, NEW d \in Domains, Settled(d)
               PROVE  Settled(d)' /\ mx'[d] = mx[d]
    OBVIOUS
  <2> USE DEF Settled, Goto
  <2>0. d # Nobody
    OBVIOUS
  <2>1. ASSUME NEW w \in Workers, NEW c \in Channels, Take(w, c)
        PROVE  Settled(d)' /\ mx'[d] = mx[d]
    BY <2>1 DEF Take, cacheVars
  <2>2. ASSUME NEW w \in Workers, NEW a \in Addresses, Hit(w, a) \/ Add(w, a)
        PROVE  Settled(d)' /\ mx'[d] = mx[d]
    BY <2>2 DEF Hit, Add, cacheVars
  <2>3. ASSUME NEW w \in Workers, NEW a \in Addresses, Miss(w, a)
        PROVE  Settled(d)' /\ mx'[d] = mx[d]
    BY <2>3 DEF Miss, TypeOK
  <2>4. ASSUME NEW w \in Workers, NEW a \in Addresses, NEW failure \in BOOLEAN,
               Answer(w, a, failure)
        PROVE  Settled(d)' /\ mx'[d] = mx[d]
    BY <2>0, <2>4 DEF Answer, Remember, TypeOK
  <2>5. ASSUME NEW w \in Workers, Checked(w) \/ Push(w) \/ Done(w)
        PROVE  Settled(d)' /\ mx'[d] = mx[d]
    BY <2>5 DEF Checked, Push, Done, cacheVars
  <2>6. ASSUME NEW j \in Jobs, Cancel(j) PROVE Settled(d)' /\ mx'[d] = mx[d]
    BY <2>0, <2>6 DEF Cancel, cacheVars
  <2> QED
    BY <2>1, <2>2, <2>3, <2>4, <2>5, <2>6 DEF Next, WorkerStep
<1> QED
  BY <1>1, TypeInit, TypeStep, PTL DEF Spec, VerdictIsFinal
=============================================================================
