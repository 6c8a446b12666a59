--------------------------- MODULE SpiderPipeline ---------------------------
(***************************************************************************)
(* MaxSpeedSpider.run (engine/spider.py): a search producer feeds channels *)
(* through a bounded asyncio.Queue to several fetch workers, which extract *)
(* addresses and push each of them through push_data_fn (worker.py).  The  *)
(* tasks share one event loop, so they interleave exactly at their awaits: *)
(* what lies between two awaits is one action.                             *)
(*                                                                         *)
(* Time is abstracted: a deadline, a stall or the end of a grace period    *)
(* may come at any moment.  Which channels a search returns, which of them *)
(* can be fetched and pass the subscriber filter is nondeterministic;      *)
(* which addresses a description holds is the constant EmailsOf.           *)
(***************************************************************************)
EXTENDS Naturals, Sequences, FiniteSets

CONSTANTS
    Channels,       \* what a search may return
    Emails,
    EmailsOf,       \* EmailsOf[c]: addresses in the description of c
    Fetchers,       \* the desc_fetch_worker tasks (NUM_FETCH_WORKERS)
    MaxEmails,      \* max_emails
    QueueSize,      \* CHANNEL_QUEUE_SIZE
    HighWater,      \* queue length from which the producer waits (80 %)
    BatchSize,      \* channels a worker takes at a time (10)
    MaxBatches,     \* MAX_SEARCH_BATCHES
    MayBeCut        \* the deadline, a stall or a stop request may occur

ASSUME ConstantsAssumption ==
    /\ EmailsOf \in [Channels -> SUBSET Emails]
    /\ IsFiniteSet(Emails)
    /\ {MaxEmails, QueueSize, HighWater, BatchSize, MaxBatches} \subseteq Nat
    /\ BatchSize > 0
    /\ MayBeCut \in BOOLEAN

Nobody == "none"

VARIABLES
    main,           \* run itself: "poll", "grace", then how it ended
    stop,           \* stop_event
    producer,       \* yt_search_producer: "loop", "feed" or "off"
    batches,        \* batch_num
    pending,        \* channels of the batch not yet put into the queue
    seenChannels,   \* self.seen_channels
    channelQueue,
    fetcher,        \* fetcher[w]: where worker w awaits
    batch,          \* batch[w]: channels it is fetching or has still to look at
    emails,         \* emails[w]: addresses of its current channel
    email,          \* email[w]: the address it pushes, or Nobody
    seenEmails,     \* self.seen_emails
    total,          \* self._total_scraped
    dbLock,         \* who holds db_lock of push_data_fn
    tracker,        \* email_count_tracker[0], what the job is charged for
    rows            \* the addresses of the Result rows in the session

mainVars     == <<main, stop>>
producerVars == <<producer, batches, pending, seenChannels>>
fetchVars    == <<fetcher, batch, emails, email>>
countVars    == <<seenEmails, total>>
pushVars     == <<dbLock, tracker, rows>>
vars == <<mainVars, producerVars, channelQueue, fetchVars, countVars, pushVars>>

Init ==
    /\ main = "poll" /\ stop = FALSE
    /\ producer = "loop" /\ batches = 0 /\ pending = {} /\ seenChannels = {}
    /\ channelQueue = <<>>
    /\ fetcher = [w \in Fetchers |-> "top"]
    /\ batch = [w \in Fetchers |-> {}]
    /\ emails = [w \in Fetchers |-> {}]
    /\ email = [w \in Fetchers |-> Nobody]
    /\ seenEmails = {} /\ total = 0
    /\ dbLock = Nobody /\ tracker = 0 /\ rows = {}

TargetReached == total >= MaxEmails

-----------------------------------------------------------------------------
(* yt_search_producer *)

\* The checks at the head of the loop that end the search.
ProducerStops ==
    /\ producer = "loop"
    /\ \/ stop \/ TargetReached \/ batches >= MaxBatches
       \/ MayBeCut          \* out of time, or no address for 90 s
    /\ producer' = "off" /\ stop' = TRUE
    /\ UNCHANGED <<main, batches, pending, seenChannels, channelQueue,
                   fetchVars, countVars, pushVars>>

\* One batch of searches, unless the queue is above its high-water mark.
Search ==
    /\ producer = "loop" /\ ~stop /\ ~TargetReached /\ batches < MaxBatches
    /\ Len(channelQueue) < HighWater
    /\ batches' = batches + 1
    /\ pending' \in SUBSET (Channels \ seenChannels)
    /\ producer' = IF pending' = {} THEN "loop" ELSE "feed"
    /\ UNCHANGED <<mainVars, seenChannels, channelQueue, fetchVars, countVars, pushVars>>

\* await channel_queue.put(ch): waits while the queue is full.
Feed(c) ==
    /\ producer = "feed" /\ c \in pending
    /\ Len(channelQueue) < QueueSize
    /\ channelQueue' = Append(channelQueue, c)
    /\ seenChannels' = seenChannels \union {c}
    /\ pending' = pending \ {c}
    /\ producer' = IF pending' = {} THEN "loop" ELSE "feed"
    /\ UNCHANGED <<mainVars, batches, fetchVars, countVars, pushVars>>

-----------------------------------------------------------------------------
(* desc_fetch_worker *)

At(w, here) == fetcher[w] = here
Goto(w, there) == fetcher' = [fetcher EXCEPT ![w] = there]

\* Mutant of FetcherTop: it leaves its loop without setting stop_event.
FetcherQuits(w) ==
    /\ At(w, "top")
    /\ Goto(w, IF stop \/ TargetReached THEN "off" ELSE "get")
    /\ UNCHANGED <<mainVars, producerVars, channelQueue, batch, emails, email,
                   countVars, pushVars>>

FetcherTop(w) ==
    /\ At(w, "top")
    /\ IF stop \/ TargetReached
       THEN Goto(w, "off") /\ stop' = TRUE
       ELSE Goto(w, "get") /\ UNCHANGED stop
    /\ UNCHANGED <<main, producerVars, channelQueue, batch, emails, email,
                   countVars, pushVars>>

\* Mutant of GetTimeout: the worker leaves its loop when the queue is empty.
GetGivesUp(w) ==
    /\ At(w, "get") /\ channelQueue = <<>>
    /\ Goto(w, "off")
    /\ UNCHANGED <<mainVars, producerVars, channelQueue, batch, emails, email,
                   countVars, pushVars>>

\* wait_for(channel_queue.get(), timeout=1)
GetTimeout(w) ==
    /\ At(w, "get") /\ channelQueue = <<>>
    /\ Goto(w, "top")
    /\ UNCHANGED <<mainVars, producerVars, channelQueue, batch, emails, email,
                   countVars, pushVars>>

\* The first channel, and what else is there without waiting.
GetBatch(w) ==
    LET n == IF Len(channelQueue) < BatchSize THEN Len(channelQueue) ELSE BatchSize IN
    /\ At(w, "get") /\ channelQueue # <<>>
    /\ batch' = [batch EXCEPT ![w] = {channelQueue[i] : i \in 1..n}]
    /\ channelQueue' = SubSeq(channelQueue, n + 1, Len(channelQueue))
    /\ Goto(w, "fetch")
    /\ UNCHANGED <<mainVars, producerVars, emails, email, countVars, pushVars>>

\* The gather is over; some of the channels have a description to look at.
Fetched(w) ==
    /\ At(w, "fetch")
    /\ \E usable \in SUBSET batch[w] : batch' = [batch EXCEPT ![w] = usable]
    /\ Goto(w, "channel")
    /\ UNCHANGED <<mainVars, producerVars, channelQueue, emails, email,
                   countVars, pushVars>>

\* await extract_emails_async for the next channel, or the end of the batch.
Extract(w) ==
    /\ At(w, "channel")
    /\ \/ \E c \in batch[w] :
             /\ batch' = [batch EXCEPT ![w] = @ \ {c}]
             /\ emails' = [emails EXCEPT ![w] = EmailsOf[c]]
             /\ Goto(w, "email")
       \/ batch[w] = {} /\ Goto(w, "top") /\ UNCHANGED <<batch, emails>>
    /\ UNCHANGED <<mainVars, producerVars, channelQueue, email, countVars, pushVars>>

\* Mutant of RoomLeft: the rows are counted, which lag behind the addresses found.
RoomInRows == tracker < MaxEmails

RoomLeft == total < MaxEmails

Unseen(e) == e \notin seenEmails

\* Mutant of AddEmail: the row is built without the address.
AddNameless(w, e) ==
    /\ At(w, "email") /\ e \in emails[w]
    /\ Unseen(e) /\ RoomLeft
    /\ seenEmails' = seenEmails \union {e}
    /\ total' = total + 1
    /\ emails' = [emails EXCEPT ![w] = @ \ {e}]
    /\ Goto(w, "push")
    /\ UNCHANGED <<mainVars, producerVars, channelQueue, batch, email, pushVars>>

\* Mutant of AddEmail: the callback of one address is not awaited before the next.
AddUnpushed(w, e) ==
    /\ At(w, "email") /\ e \in emails[w]
    /\ Unseen(e) /\ RoomLeft
    /\ seenEmails' = seenEmails \union {e}
    /\ total' = total + 1
    /\ email' = [email EXCEPT ![w] = e]
    /\ emails' = [emails EXCEPT ![w] = @ \ {e}]
    /\ Goto(w, IF emails'[w] = {} THEN "push" ELSE "email")
    /\ UNCHANGED <<mainVars, producerVars, channelQueue, batch, pushVars>>

\* The check, seen_emails.add and the increment in _add_email: no await between.
AddEmail(w, e) ==
    /\ At(w, "email") /\ e \in emails[w]
    /\ Unseen(e) /\ RoomLeft
    /\ seenEmails' = seenEmails \union {e}
    /\ total' = total + 1
    /\ email' = [email EXCEPT ![w] = e]
    /\ emails' = [emails EXCEPT ![w] = @ \ {e}]
    /\ Goto(w, "push")
    /\ UNCHANGED <<mainVars, producerVars, channelQueue, batch, pushVars>>

\* No address of the channel is left that the check lets through.
EmailsDone(w) ==
    /\ At(w, "email")
    /\ \A e \in emails[w] : ~(Unseen(e) /\ RoomLeft)
    /\ emails' = [emails EXCEPT ![w] = {}]
    /\ Goto(w, "channel")
    /\ UNCHANGED <<mainVars, producerVars, channelQueue, batch, email,
                   countVars, pushVars>>

\* push_data_fn: once it has db_lock, the row is counted and added.
PushRow(w) ==
    /\ At(w, "push") /\ dbLock = Nobody
    /\ dbLock' = w
    /\ tracker' = tracker + 1
    /\ rows' = rows \union {email[w]}
    /\ Goto(w, "commit")
    /\ UNCHANGED <<mainVars, producerVars, channelQueue, batch, emails, email, countVars>>

\* The broadcast and the commit are over, whatever came of the commit.
PushDone(w) ==
    /\ At(w, "commit")
    /\ dbLock' = Nobody
    /\ email' = [email EXCEPT ![w] = Nobody]
    /\ Goto(w, "email")
    /\ UNCHANGED <<mainVars, producerVars, channelQueue, batch, emails,
                   countVars, tracker, rows>>

-----------------------------------------------------------------------------
(* The poll loop of run, and its three ways out *)

SeesStop ==
    /\ main = "poll" /\ stop
    /\ main' = "grace"
    /\ UNCHANGED <<stop, producerVars, channelQueue, fetchVars, countVars, pushVars>>

\* stop_event.set() and task.cancel() on every task: a cancelled task raises at
\* its await and does nothing more; a row it added stays in the session, and
\* leaving "async with db_lock" releases the lock.
Shutdown(outcome) ==
    /\ main' = outcome /\ stop' = TRUE
    /\ producer' = "off"
    /\ fetcher' = [w \in Fetchers |-> "off"]
    /\ dbLock' = Nobody
    /\ UNCHANGED <<batches, pending, seenChannels, channelQueue, batch, emails, email,
                   countVars, tracker, rows>>

\* Three seconds after the stop.
GraceOver == main = "grace" /\ Shutdown("returned")

TimeIsUp == main = "poll" /\ MayBeCut /\ Shutdown("returned")

ExternalCancel == main \in {"poll", "grace"} /\ MayBeCut /\ Shutdown("cancelled")

-----------------------------------------------------------------------------
ProducerStep == ProducerStops \/ Search \/ \E c \in Channels : Feed(c)

FetcherStep(w) ==
    \/ FetcherTop(w) \/ GetTimeout(w) \/ GetBatch(w) \/ Fetched(w) \/ Extract(w)
    \/ \E e \in Emails : AddEmail(w, e)
    \/ EmailsDone(w) \/ PushRow(w) \/ PushDone(w)

MainStep == SeesStop \/ GraceOver \/ TimeIsUp \/ ExternalCancel

Next == ProducerStep \/ MainStep \/ \E w \in Fetchers : FetcherStep(w)

Spec == Init /\ [][Next]_vars

\* The event loop runs every task that is ready; every await of the pipeline ends
\* by a time limit of its own.
Fairness ==
    /\ WF_vars(ProducerStep)
    /\ WF_vars(SeesStop \/ GraceOver)
    /\ \A w \in Fetchers : WF_vars(FetcherStep(w))

FairSpec == Spec /\ Fairness

-----------------------------------------------------------------------------
TypeOK ==
    /\ main \in {"poll", "grace", "returned", "cancelled"}
    /\ stop \in BOOLEAN
    /\ producer \in {"loop", "feed", "off"}
    /\ batches \in Nat
    /\ pending \subseteq Channels /\ seenChannels \subseteq Channels
    /\ channelQueue \in Seq(Channels)
    /\ fetcher \in [Fetchers -> {"top", "get", "fetch", "channel", "email", "push",
                                 "commit", "off"}]
    /\ batch \in [Fetchers -> SUBSET Channels]
    /\ emails \in [Fetchers -> SUBSET Emails]
    /\ email \in [Fetchers -> Emails \union {Nobody}]
    /\ seenEmails \subseteq Emails
    /\ total \in Nat
    /\ dbLock \in Fetchers \union {Nobody}
    /\ tracker \in Nat
    /\ rows \subseteq Emails

\* A job is never charged for more addresses than it was capped to, although the
\* workers check the target at one await and store the row at another.
WithinTarget == tracker <= MaxEmails

\* The job is charged for distinct addresses: two workers that find the same
\* address in two channels at the same time store it once.
DistinctRows == tracker = Cardinality(rows)

\* An address that was counted against the target is stored, or one worker has it in its
\* hands or had it when its task was cancelled: a run that is cut loses at most one address
\* per worker, which nobody is charged for.
LostInFlight ==
    \A e \in seenEmails \ rows : \E w \in Fetchers :
        email[w] = e /\ fetcher[w] \in {"push", "off"}

\* The pipeline implements the promise of Collector.
Promise == INSTANCE Collector WITH open <- main \in {"poll", "grace"}
ImplementsCollector == Promise!Spec

\* The target is noticed by the tasks themselves, without the deadline: the poll
\* loop of run looks at self.results, which nobody ever fills.
StopsAtTarget == total = MaxEmails ~> main \in {"returned", "cancelled"}

\* The producer is not stuck on a full queue for good.
FeedGoesOn == producer = "feed" ~> producer # "feed"
=============================================================================
