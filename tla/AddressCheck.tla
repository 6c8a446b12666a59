---------------------------- MODULE AddressCheck ----------------------------
(***************************************************************************)
(* From a fetched channel to the rows of a job: the fetch workers of the   *)
(* spiders in one worker process read the channel, look up the MX record   *)
(* of every address (email_validator.py), count what is verified and new   *)
(* (desc_fetch_worker and _add_email in engine/spider.py) and push it      *)
(* (push_data_fn in worker.py), which waits for the lock of the job's      *)
(* session: a worker that is cancelled there loses an address.             *)
(*                                                                         *)
(* The jobs of a process share one cache of MX answers for its lifetime.   *)
(* It is read before an await and written after it, so several workers may *)
(* ask for a domain at once, and a query that fails, by a timeout or an    *)
(* error, is remembered like an answer that there is no mail.              *)
(***************************************************************************)
EXTENDS ChannelPage

CONSTANTS
    Jobs,
    Workers,        \* the desc_fetch_worker tasks of all jobs
    JobOf,          \* JobOf[w]
    Channels,       \* what the workers may be handed
    PageOf,         \* PageOf[c]: what the pages of channel c hold
    Domains,
    HasMail,        \* the domains with an MX record
    MaxEmails,      \* max_emails of every job
    Supplies,       \* the channels the searches of the jobs may find (bounds TLC)
    MaxFailures     \* queries that fail (bounds TLC)

Nobody == "none"

ASSUME CheckAssumption ==
    /\ JobOf \in [Workers -> Jobs]
    /\ IsFiniteSet(Workers)
    /\ \A a \in Addresses : DomainOf(a) \in Domains
    /\ HasMail \subseteq Domains /\ Nobody \notin Domains \union Addresses
    /\ Channels # {} /\ \A c \in Channels : PageOK(PageOf[c])
    /\ Supplies \subseteq [Jobs -> SUBSET Channels]
    /\ {MaxEmails, MaxFailures} \subseteq Nat

\* What the spider reads, and what there is to read.
Result == [c \in Channels |-> ReadChannel(PageOf[c])]
Expected == [c \in Channels |-> {a \in Addresses : Readable(PageOf[c], a)}]

VARIABLES
    pc,             \* pc[w]: "idle", "check", "query", "add", "push" or "off"
    channel,        \* channel[w]: the channel it is at
    unchecked,      \* unchecked[w]: its addresses not looked up yet
    asked,          \* asked[w]: the domain whose MX record it waits for
    verified,       \* verified[w]: its addresses with a mail server
    held,           \* held[w]: the address it has counted and not pushed; what a
                    \*   cancelled worker held is lost
    mx,             \* mx[d]: _mx_cache
    seen,           \* seen[j]: seen_emails
    total,          \* total[j]: _total_scraped
    rows,           \* rows[j]: what push_data_fn has added to the session of the job
    supply,         \* supply[j]: channels found and not handed out yet
    finished,       \* finished[j]: channels that are done with (history)
    queries,        \* queries[d]: how often d was asked for (history)
    failed          \* domains for which a query failed (history)

workerVars  == <<pc, channel, unchecked, asked, verified, held>>
cacheVars   == <<mx, queries, failed>>
jobVars     == <<seen, total, rows>>
channelVars == <<supply, finished>>
vars == <<workerVars, cacheVars, jobVars, channelVars>>

\* What the variable of an idle worker holds does not matter.
AnyChannel == CHOOSE c \in Channels : TRUE

Init ==
    /\ pc = [w \in Workers |-> "idle"]
    /\ channel = [w \in Workers |-> AnyChannel]
    /\ unchecked = [w \in Workers |-> {}]
    /\ asked = [w \in Workers |-> Nobody]
    /\ verified = [w \in Workers |-> {}]
    /\ held = [w \in Workers |-> Nobody]
    /\ mx = [d \in Domains |-> "unknown"]
    /\ queries = [d \in Domains |-> 0]
    /\ failed = {}
    /\ seen = [j \in Jobs |-> {}]
    /\ total = [j \in Jobs |-> 0]
    /\ rows = [j \in Jobs |-> {}]
    /\ supply \in Supplies
    /\ finished = [j \in Jobs |-> {}]

Goto(w, there) == pc' = [pc EXCEPT ![w] = there]

Finish(j, c) == finished' = [finished EXCEPT ![j] = @ \union {c}]

-----------------------------------------------------------------------------
\* A channel is fetched: without a description, or outside the bounds, it is skipped.
Take(w, c) ==
    LET j == JobOf[w] IN
    /\ pc[w] = "idle" /\ c \in supply[j]
    /\ supply' = [supply EXCEPT ![j] = @ \ {c}]
    /\ IF Result[c].text = {} \/ ~PassesSubFilter(Result[c].subs)
       THEN Finish(j, c) /\ UNCHANGED <<pc, channel, unchecked>>
       ELSE /\ channel' = [channel EXCEPT ![w] = c]
            /\ unchecked' = [unchecked EXCEPT ![w] = Extract(Result[c].text)]
            /\ Goto(w, "check")
            /\ UNCHANGED finished
    /\ UNCHANGED <<asked, verified, held, cacheVars, jobVars>>

\* Only an address whose domain is known to have mail is kept.
Settle(w, a, valid) ==
    /\ unchecked' = [unchecked EXCEPT ![w] = @ \ {a}]
    /\ verified' = [verified EXCEPT ![w] = IF valid THEN @ \union {a} ELSE @]

\* has_mx_record finds the domain in the cache.
Hit(w, a) ==
    /\ pc[w] = "check" /\ a \in unchecked[w]
    /\ mx[DomainOf(a)] # "unknown"
    /\ Settle(w, a, mx[DomainOf(a)] = "yes")
    /\ UNCHANGED <<pc, channel, asked, held, cacheVars, jobVars, channelVars>>

\* Mutant of Miss: only a positive entry of the cache is used.
MissUnlessYes(w, a) ==
    /\ pc[w] = "check" /\ a \in unchecked[w]
    /\ mx[DomainOf(a)] # "yes"
    /\ asked' = [asked EXCEPT ![w] = DomainOf(a)]
    /\ queries' = [queries EXCEPT ![DomainOf(a)] = @ + 1]
    /\ Goto(w, "query")
    /\ UNCHANGED <<channel, unchecked, verified, held, mx, failed, jobVars, channelVars>>

\* It does not, and awaits the resolver.
Miss(w, a) ==
    /\ pc[w] = "check" /\ a \in unchecked[w]
    /\ mx[DomainOf(a)] = "unknown"
    /\ asked' = [asked EXCEPT ![w] = DomainOf(a)]
    /\ queries' = [queries EXCEPT ![DomainOf(a)] = @ + 1]
    /\ Goto(w, "query")
    /\ UNCHANGED <<channel, unchecked, verified, held, mx, failed, jobVars, channelVars>>

\* Mutant of Remember: a query that fails leaves no entry.
RememberAnswers(w, answer, failure) ==
    mx' = [mx EXCEPT ![asked[w]] =
              IF answer THEN "yes" ELSE IF failure THEN @ ELSE "no"]

\* Mutant of Remember: what has failed counts as valid.
RememberFailure(w, answer, failure) ==
    mx' = [mx EXCEPT ![asked[w]] = IF answer \/ failure THEN "yes" ELSE "no"]

Remember(w, answer, failure) ==
    mx' = [mx EXCEPT ![asked[w]] = IF answer THEN "yes" ELSE "no"]

\* The query returns, or raises; the entry is written whatever it is by now.
Answer(w, a, failure) ==
    LET answer == ~failure /\ asked[w] \in HasMail IN
    /\ pc[w] = "query" /\ a \in unchecked[w] /\ DomainOf(a) = asked[w]
    /\ failed' = IF failure THEN failed \union {asked[w]} ELSE failed
    /\ Cardinality(failed') <= MaxFailures
    /\ Remember(w, answer, failure)
    /\ Settle(w, a, mx'[asked[w]] = "yes")
    /\ asked' = [asked EXCEPT ![w] = Nobody]
    /\ Goto(w, "check")
    /\ UNCHANGED <<channel, held, queries, jobVars, channelVars>>

\* Mutant of Checked: without a verified address the worker stays in the loop.
CheckedIfAny(w) ==
    /\ pc[w] = "check" /\ unchecked[w] = {} /\ verified[w] # {}
    /\ Goto(w, "add")
    /\ UNCHANGED <<channel, unchecked, asked, verified, held, cacheVars, jobVars,
                   channelVars>>

\* extract_emails_async returns.
Checked(w) ==
    /\ pc[w] = "check" /\ unchecked[w] = {}
    /\ Goto(w, "add")
    /\ UNCHANGED <<channel, unchecked, asked, verified, held, cacheVars, jobVars,
                   channelVars>>

\* An address that no worker of the job has taken before is marked and counted, in one
\* go: seen_emails.add and _add_email up to the await of push_data_fn.
Add(w, a) ==
    LET j == JobOf[w] IN
    /\ pc[w] = "add" /\ a \in verified[w]
    /\ verified' = [verified EXCEPT ![w] = @ \ {a}]
    /\ IF a \notin seen[j] /\ total[j] < MaxEmails
       THEN /\ seen' = [seen EXCEPT ![j] = @ \union {a}]
            /\ total' = [total EXCEPT ![j] = @ + 1]
            /\ held' = [held EXCEPT ![w] = a]
            /\ Goto(w, "push")
       ELSE UNCHANGED <<pc, held, seen, total>>
    /\ UNCHANGED <<channel, unchecked, asked, rows, cacheVars, channelVars>>

RowOf(a, c) ==
    [email |-> a, channel |-> c,
     confidence |-> Confidence(a, Result[c].subs, Cardinality(Result[c].social), TRUE)]

\* push_data_fn has the lock; the worker goes on to its next address when it returns.
Push(w) ==
    /\ pc[w] = "push"
    /\ rows' = [rows EXCEPT ![JobOf[w]] = @ \union {RowOf(held[w], channel[w])}]
    /\ held' = [held EXCEPT ![w] = Nobody]
    /\ Goto(w, "add")
    /\ UNCHANGED <<channel, unchecked, asked, verified, seen, total, cacheVars,
                   channelVars>>

Done(w) ==
    /\ pc[w] = "add" /\ verified[w] = {}
    /\ Goto(w, "idle")
    /\ Finish(JobOf[w], channel[w])
    /\ channel' = [channel EXCEPT ![w] = AnyChannel]
    /\ UNCHANGED <<unchecked, asked, verified, held, cacheVars, jobVars, supply>>

\* The tasks of a job are cancelled: CancelledError is no Exception, so a lookup that
\* awaits the resolver leaves no entry, and a push that awaits the lock no row.
Cancel(j) ==
    LET mine == {w \in Workers : JobOf[w] = j} IN
    /\ \E w \in mine : pc[w] # "off"
    /\ pc' = [w \in Workers |-> IF w \in mine THEN "off" ELSE pc[w]]
    /\ channel' = [w \in Workers |-> IF w \in mine THEN AnyChannel ELSE channel[w]]
    /\ asked' = [w \in Workers |-> IF w \in mine THEN Nobody ELSE asked[w]]
    /\ unchecked' = [w \in Workers |-> IF w \in mine THEN {} ELSE unchecked[w]]
    /\ verified' = [w \in Workers |-> IF w \in mine THEN {} ELSE verified[w]]
    /\ UNCHANGED <<held, cacheVars, jobVars, channelVars>>

WorkerStep(w) ==
    \/ \E a \in Addresses :
          \/ Hit(w, a) \/ Miss(w, a) \/ Add(w, a)
          \/ \E failure \in BOOLEAN : Answer(w, a, failure)
    \/ Checked(w) \/ Push(w) \/ Done(w)

Next ==
    \/ \E w \in Workers : WorkerStep(w) \/ \E c \in Channels : Take(w, c)
    \/ \E j \in Jobs : Cancel(j)

Spec == Init /\ [][Next]_vars

\* The resolver answers or times out, the lock is passed on, and the event loop runs
\* every task that is ready.  Nobody has to hand out a channel.
Fairness == \A w \in Workers : WF_vars(WorkerStep(w))

FairSpec == Spec /\ Fairness

-----------------------------------------------------------------------------
\* 45 points are the fewest a row can have: its domain has mail.
Row == [email: Addresses, channel: Channels, confidence: 45..100]

TypeOK ==
    /\ pc \in [Workers -> {"idle", "check", "query", "add", "push", "off"}]
    /\ channel \in [Workers -> Channels]
    /\ unchecked \in [Workers -> SUBSET Addresses]
    /\ verified \in [Workers -> SUBSET Addresses]
    /\ asked \in [Workers -> Domains \union {Nobody}]
    /\ held \in [Workers -> Addresses \union {Nobody}]
    /\ mx \in [Domains -> {"unknown", "yes", "no"}]
    /\ queries \in [Domains -> Nat]
    /\ failed \subseteq Domains
    /\ seen \in [Jobs -> SUBSET Addresses]
    /\ total \in [Jobs -> Nat]
    /\ rows \in [Jobs -> SUBSET Row]
    /\ supply \in [Jobs -> SUBSET Channels]
    /\ finished \in [Jobs -> SUBSET Channels]
    /\ \A w \in Workers : /\ asked[w] # Nobody <=> pc[w] = "query"
                          /\ pc[w] = "push" => held[w] # Nobody

\* A number that is truncated may be one short of a bound it meets.
ClearlyInside(n) == (MinSubs > 0 => n > MinSubs) /\ (MaxSubs > 0 => n <= MaxSubs)
Inside(n) == (MinSubs > 0 => n >= MinSubs) /\ (MaxSubs > 0 => n <= MaxSubs + 1)

Exact == [c \in Channels |-> ExactSubs(PageOf[c])]

\* Nothing is delivered that was not on the channel, whose channel is outside the bounds
\* (a number that cannot be read counts as 0), or whose domain has no mail: not even if
\* queries for it fail, or other workers and jobs have had other answers.
RowsVerified ==
    \A j \in Jobs : \A r \in rows[j] :
        /\ r.email \in Expected[r.channel]
        /\ Inside(Exact[r.channel])
        /\ DomainOf(r.email) \in HasMail

\* A worker of job j has counted a and is about to push it, or was when it was cancelled.
InHand(j, a) == \E w \in Workers : JobOf[w] = j /\ held[w] = a

\* An address of a channel that is done with is delivered, or in the hands of a worker
\* that is about to push it, unless its domain has no mail, a query for the domain failed
\* at some time, in whichever job, or the job has enough.  A worker that is cancelled
\* takes one such address with it: the others have skipped it as seen.
LostOnlyToFailure ==
    \A j \in Jobs : total[j] < MaxEmails =>
        \A c \in finished[j] : ClearlyInside(Exact[c]) =>
            \A a \in Expected[c] : DomainOf(a) \in HasMail \ failed =>
                (\E r \in rows[j] : r.email = a) \/ InHand(j, a)

\* However the channels of all jobs are interleaved, a domain costs at most one query
\* per worker: those that were sent before the first of them was answered.
QueriesBounded == \A d \in Domains : queries[d] <= Cardinality(Workers)

\* There is a verdict on d and no query that was sent before it is still out.
Settled(d) == mx[d] # "unknown" /\ \A w \in Workers : asked[w] # d

\* Such a verdict, right or wrong, is the last: no worker of any job asks again.
VerdictIsFinal ==
    [][\A d \in Domains : Settled(d) => Settled(d)' /\ mx'[d] = mx[d]]_vars

\* No worker stays at a channel: whatever the resolver does, it comes back for more.
ChannelsEnd == \A w \in Workers : []<>(pc[w] \in {"idle", "off"})
=============================================================================
