--------------------------- MODULE YouTubeAccess ---------------------------
(***************************************************************************)
(* The network calls of MaxSpeedSpider (engine/spider.py): _curl_search    *)
(* for one query and _fetch_channel_desc for one channel.  Both ask the    *)
(* InnerTube API first and fall back to the HTML page; both stop asking    *)
(* InnerTube once it has failed often enough.  The calls are coroutines on *)
(* one event loop that share two failure counters, two semaphores and the  *)
(* proxy pool: a request whose answer is awaited was sent under counters   *)
(* that other calls change meanwhile.                                      *)
(*                                                                         *)
(* What YouTube answers is nondeterministic.  Delays have no length.       *)
(***************************************************************************)
EXTENDS ProxyPool, FiniteSets

CONSTANTS
    Searches,           \* the _curl_search coroutines of a batch
    Visits,             \* the _fetch_channel_desc coroutines
    MaxCalls,           \* bound: calls under way at once
    SearchSlots,        \* search_workers, the size of search_sem
    VisitSlots,         \* channel_workers, the size of fetch_sem
    Tries,              \* PROXY_RETRY_COUNT + 1
    MorePages,          \* MAX_CONTINUATION_PAGES
    SearchFailLimit,    \* 5 in _curl_search
    BrowseFailLimit     \* 10 in _try_innertube_browse

Calls == Searches \union Visits
Nobody == "none"

ASSUME AccessAssumption ==
    /\ IsFiniteSet(Searches) /\ IsFiniteSet(Visits)
    /\ Searches \intersect Visits = {}
    /\ {MaxCalls, SearchSlots, VisitSlots, MorePages} \subseteq Nat
    /\ {Tries, SearchFailLimit, BrowseFailLimit} \subseteq Nat \ {0}
    /\ Nobody \notin Proxies

VARIABLES
    stage,          \* stage[c]: "idle", "api", "html" or "more" (continuation)
    at,             \* at[c]: "wait" for a slot, "sent" or, backing off, "sleep"
    attempt,        \* attempt[c]: number of the attempt, or of the further page
    proxy,          \* proxy[c]: what its request was sent through
    searchFails,    \* _consecutive_innertube_fails
    browseFails,    \* _innertube_browse_fails
    browseBlocked   \* _innertube_browse_blocked

callVars   == <<stage, at, attempt>>
browseVars == <<browseFails, browseBlocked>>
vars == <<callVars, proxy, searchFails, browseVars, poolVars>>

Init ==
    /\ stage = [c \in Calls |-> "idle"]
    /\ at = [c \in Calls |-> "wait"]
    /\ attempt = [c \in Calls |-> 1]
    /\ proxy = [c \in Calls |-> Nobody]
    /\ searchFails = 0 /\ browseFails = 0 /\ browseBlocked = FALSE
    /\ PoolInit

At(c, s, a) == stage[c] = s /\ at[c] = a

Goto(c, s, a, n) ==
    /\ stage' = [stage EXCEPT ![c] = s]
    /\ at' = [at EXCEPT ![c] = a]
    /\ attempt' = [attempt EXCEPT ![c] = n]

Return(c) == Goto(c, "idle", "wait", 1)
ToHtml(c) == Goto(c, "html", "wait", 1)

Busy == {c \in Calls : stage[c] # "idle"}

\* Who is inside `async with sem`: the back-off after a 429 is slept there.
Holds(c) == at[c] \in {"sent", "sleep"}

SlotFree(c) ==
    \/ c \in Searches /\ Cardinality({d \in Searches : Holds(d)}) < SearchSlots
    \/ c \in Visits /\ Cardinality({d \in Visits : Holds(d)}) < VisitSlots

\* Mutant of SearchOff: == in place of >=.
SearchOffAtLimit == searchFails = SearchFailLimit

SearchOff == searchFails >= SearchFailLimit

-----------------------------------------------------------------------------
(* Both kinds of call *)

\* The first test of _curl_search, or of _fetch_channel_desc.
Begin(c) ==
    /\ stage[c] = "idle" /\ Cardinality(Busy) < MaxCalls
    /\ \/ c \in Searches /\ SearchOff /\ ToHtml(c)
       \/ c \in Searches /\ ~SearchOff /\ Goto(c, "api", "wait", 1)
       \/ c \in Visits /\ browseBlocked /\ ToHtml(c)
       \/ c \in Visits /\ ~browseBlocked /\ Goto(c, "api", "wait", 1)
    /\ UNCHANGED <<proxy, searchFails, browseVars, poolVars>>

\* The semaphore is acquired, a proxy chosen and the request sent.
Send(c) ==
    /\ stage[c] # "idle" /\ at[c] = "wait" /\ SlotFree(c)
    /\ \E p \in pool \union {Direct} :
          GetProxy(p) /\ proxy' = [proxy EXCEPT ![c] = p]
    /\ at' = [at EXCEPT ![c] = "sent"]
    /\ UNCHANGED <<stage, attempt, searchFails, browseVars>>

Answered(c) == at[c] = "sent" /\ proxy' = [proxy EXCEPT ![c] = Nobody]

\* The stages that are a loop over attempts: all but the one browse request.
InLoop(c) == stage[c] = "html" \/ (stage[c] = "api" /\ c \in Searches)

\* The next turn of the loop or, after the last, what follows it: a search without
\* an answer from InnerTube counts a failure and falls back.
NextTurn(c) ==
    \/ /\ attempt[c] < Tries
       /\ Goto(c, stage[c], "wait", attempt[c] + 1)
       /\ UNCHANGED searchFails
    \/ /\ attempt[c] >= Tries /\ stage[c] = "api"
       /\ searchFails' = searchFails + 1
       /\ ToHtml(c)
    \/ /\ attempt[c] >= Tries /\ stage[c] = "html"
       /\ Return(c)
       /\ UNCHANGED searchFails

\* Status 429: the call sleeps before its next turn.
RateLimited(c) ==
    /\ InLoop(c) /\ Answered(c)
    /\ ReportFailure(proxy[c])
    /\ at' = [at EXCEPT ![c] = "sleep"]
    /\ UNCHANGED <<stage, attempt, searchFails, browseVars>>

\* Any other status but 200.
Refused(c) ==
    /\ InLoop(c) /\ Answered(c)
    /\ ReportFailure(proxy[c])
    /\ NextTurn(c)
    /\ UNCHANGED browseVars

\* Mutant of Raised: a visit tries again without counting the attempt.
RaisedUncounted(c) ==
    /\ InLoop(c) /\ Answered(c)
    /\ ReportFailure(proxy[c])
    /\ \/ attempt[c] >= Tries /\ Return(c)
       \/ attempt[c] < Tries /\ c \in Searches /\ Goto(c, stage[c], "sleep", attempt[c])
       \/ attempt[c] < Tries /\ c \in Visits /\ Goto(c, "html", "wait", attempt[c])
    /\ UNCHANGED <<searchFails, browseVars>>

\* An exception: after the last attempt the call returns at once, and a search
\* neither counts it nor falls back.  Only a search sleeps before the next attempt.
Raised(c) ==
    /\ InLoop(c) /\ Answered(c)
    /\ ReportFailure(proxy[c])
    /\ \/ attempt[c] >= Tries /\ Return(c)
       \/ attempt[c] < Tries /\ c \in Searches /\ Goto(c, stage[c], "sleep", attempt[c])
       \/ attempt[c] < Tries /\ c \in Visits /\ Goto(c, "html", "wait", attempt[c] + 1)
    /\ UNCHANGED <<searchFails, browseVars>>

\* The back-off of a loop is over.
Wake(c) ==
    /\ InLoop(c) /\ at[c] = "sleep"
    /\ NextTurn(c)
    /\ UNCHANGED <<proxy, browseVars, poolVars>>

\* Mutant of HtmlPage: a fallback that works clears the failures of InnerTube.
HtmlPageResets(c) ==
    /\ stage[c] = "html" /\ Answered(c)
    /\ ReportSuccess(proxy[c])
    /\ searchFails' = 0
    /\ Return(c)
    /\ UNCHANGED browseVars

\* Status 200 from the HTML page, whatever can be read from it.
HtmlPage(c) ==
    /\ stage[c] = "html" /\ Answered(c)
    /\ ReportSuccess(proxy[c])
    /\ Return(c)
    /\ UNCHANGED <<searchFails, browseVars>>

-----------------------------------------------------------------------------
(* _curl_search *)

\* InnerTube's answer holds channels; more pages follow if it has a token and there
\* is time.
SearchFound(c) ==
    /\ c \in Searches /\ stage[c] = "api" /\ Answered(c)
    /\ ReportSuccess(proxy[c])
    /\ searchFails' = 0
    /\ Return(c) \/ (MorePages > 0 /\ Goto(c, "more", "wait", 1))
    /\ UNCHANGED browseVars

\* Status 200 without a channel that is new to the spider and passes its filters.
SearchEmpty(c) ==
    /\ c \in Searches /\ stage[c] = "api" /\ Answered(c)
    /\ ReportSuccess(proxy[c])
    /\ searchFails' = searchFails + 1
    /\ ToHtml(c)
    /\ UNCHANGED browseVars

\* _fetch_continuation: whatever comes of it, the pool is told nothing.
NextPage(c) ==
    /\ stage[c] = "more" /\ Answered(c)
    /\ Return(c) \/ (attempt[c] < MorePages /\ Goto(c, "more", "wait", attempt[c] + 1))
    /\ UNCHANGED <<searchFails, browseVars, poolVars>>

-----------------------------------------------------------------------------
(* _try_innertube_browse *)

Browsed(c) == c \in Visits /\ stage[c] = "api" /\ Answered(c)

\* A description: the count starts again, but a block is not lifted.
BrowseFound(c) ==
    /\ Browsed(c)
    /\ ReportSuccess(proxy[c])
    /\ browseFails' = 0
    /\ Return(c)
    /\ UNCHANGED <<searchFails, browseBlocked>>

\* Another status, or 200 without a description.
BrowseMissed(c) ==
    /\ Browsed(c)
    /\ ReportFailure(proxy[c]) \/ ReportSuccess(proxy[c])
    /\ browseFails' = browseFails + 1
    /\ browseBlocked' = (browseBlocked \/ browseFails' >= BrowseFailLimit)
    /\ ToHtml(c)
    /\ UNCHANGED searchFails

\* The request raised, or its answer could not be read: not counted.
BrowseRaised(c) ==
    /\ Browsed(c)
    /\ ReportFailure(proxy[c]) \/ ReportSuccess(proxy[c])
    /\ ToHtml(c)
    /\ UNCHANGED <<searchFails, browseVars>>

-----------------------------------------------------------------------------
Answer(c) ==
    \/ RateLimited(c) \/ Refused(c) \/ Raised(c) \/ HtmlPage(c)
    \/ SearchFound(c) \/ SearchEmpty(c) \/ NextPage(c)
    \/ BrowseFound(c) \/ BrowseMissed(c) \/ BrowseRaised(c)

Cooldown == CooldownOver /\ UNCHANGED <<callVars, proxy, searchFails, browseVars>>

Next ==
    \/ \E c \in Calls : Begin(c) \/ Send(c) \/ Answer(c) \/ Wake(c)
    \/ Cooldown

Spec == Init /\ [][Next]_vars

\* A request is answered or times out after CFFI_TIMEOUT, a sleep ends, and a slot
\* that is free is taken.  No call need begin.
Fairness ==
    \A c \in Calls : WF_vars(Send(c) \/ Answer(c) \/ Wake(c))

FairSpec == Spec /\ Fairness

-----------------------------------------------------------------------------
(* Properties *)

CallsTyped ==
    /\ stage \in [Calls -> {"idle", "api", "html", "more"}]
    /\ at \in [Calls -> {"wait", "sent", "sleep"}]
    /\ attempt \in [Calls -> Nat \ {0}]
    /\ searchFails \in Nat /\ browseFails \in Nat /\ browseBlocked \in BOOLEAN

\* A request, and nothing else, has a proxy to report on.
ProxiesKnown ==
    /\ proxy \in [Calls -> pool \union {Direct, Nobody}]
    /\ \A c \in Calls : proxy[c] # Nobody <=> at[c] = "sent"
    /\ \A c \in Calls : stage[c] = "idle" => at[c] = "wait"

\* The types, with the queue of resting proxies and the proxies of the requests.
TypeOK == CallsTyped /\ PoolTyped /\ ProxiesKnown

\* Both counters are tested before a request and raised after its answer, so they
\* pass their limits, but only by the calls that were under way: each further call
\* of InnerTube that is blocked costs the time of all its attempts.
FailuresBounded ==
    /\ searchFails < SearchFailLimit + Cardinality(Searches)
    /\ browseFails < BrowseFailLimit + Cardinality(Visits)

\* InnerTube is off and no first request that could still turn it on is under way.
SearchGivenUp == SearchOff /\ \A c \in Searches : stage[c] # "api"
BrowseGivenUp == browseBlocked /\ \A c \in Visits : stage[c] # "api"

\* No search goes on to further pages, and one that reads them does not start over.
PagesRunOut ==
    \A c \in Calls : stage'[c] = "more" => stage[c] = "more" /\ attempt[c] <= attempt'[c]

\* Once InnerTube is given up no call of this spider opens with it again, whatever the
\* fallbacks, the further pages and the other kind of call report.  All it is still asked
\* for is the rest of the further pages (MAX_CONTINUATION_PAGES) that a search has begun
\* to read: _curl_search tests the counter only once, before its first request.
OffForGood ==
    [][/\ SearchGivenUp => SearchGivenUp' /\ PagesRunOut
       /\ BrowseGivenUp => BrowseGivenUp']_vars

\* When the producer and the workers begin no more calls, those under way all return:
\* their attempts are bounded, none waits for a slot that it holds itself, and the
\* pool has an answer even when all its proxies rest.
Drains == <>[][~\E c \in Calls : Begin(c)]_vars => <>[](Busy = {})
=============================================================================
