---------------------------- MODULE ResultStream ----------------------------
(***************************************************************************)
(* How the addresses of one running job reach the browser.  push_data_fn   *)
(* (worker.py) publishes an address on the Redis channel of the job and    *)
(* commits its row afterwards; websocket_endpoint subscribes, relays what  *)
(* the channel carries, and at the same time replays the rows it found     *)
(* with one SELECT; static/app.js merges both, reconnects when the socket  *)
(* closes, and resumes a job after a page reload and, the socket still    *)
(* open, at every renewal of the login.                                    *)
(*                                                                         *)
(* Redis pub/sub keeps nothing: a message goes to whoever is subscribed at *)
(* that moment.  The addresses of a job are 1, 2, ..., the row ids.        *)
(***************************************************************************)
EXTENDS Naturals, Sequences, FiniteSets

CONSTANTS
    MaxFound,       \* addresses the spider may find (bounds TLC)
    FetchLimit,     \* rows resumeJob asks for (500)
    MaxDrops,       \* closed sockets (bounds TLC)
    MaxReloads,     \* page reloads (bounds TLC)
    MaxAuths,       \* checks of the login while a job is saved (bounds TLC)
    MaxLost,        \* publishes that fail (bounds TLC)
    MayDie,         \* the worker may be killed
    MayFail         \* a commit of the worker may fail or be cut off

ASSUME ConstantsAssumption ==
    /\ {MaxFound, FetchLimit, MaxDrops, MaxReloads, MaxAuths, MaxLost} \subseteq Nat
    /\ MayDie \in BOOLEAN /\ MayFail \in BOOLEAN

Rows == 1..MaxFound
Done == 0           \* the message of type "done"; the others carry a row

VARIABLES
    phase,      \* the worker: "run", "final" (commit), "announce", "over", "dead"
    found,      \* number of addresses published so far
    pending,    \* rows added to the session that its next commit writes
    stored,     \* committed rows
    broken,     \* a commit failed or was cut off: the session needs a rollback
    active,     \* the committed Job.status is not a final one
    socket,     \* "none", "retry" (to be opened), "open", "subscribed" or "selected"
    listening,  \* pubsub_listener runs
    inbox,      \* what the subscription holds and the listener has not sent
    replay,     \* rows the streaming cursor has still to send
    page,       \* "live": the stop button is there; or "finished"
    saved,      \* localStorage holds the job
    asking,     \* calls of resumeJob that wait for the status
    fetching,   \* calls of resumeJob that wait for the results
    shown,      \* shown[r]: how often row r is in the page's results
    resumed,    \* answers listed since resumeJob last emptied the list (history)
    overlap,    \* since then a socket or a second answer was under way too (history)
    whole,      \* the list was not replaced since the socket's SELECT (history)
    drops, reloads, auths, lost

workerVars == <<phase, found, pending, stored, broken, active>>
socketVars == <<socket, listening, inbox, replay>>
resumeVars == <<saved, asking, fetching>>
history    == <<resumed, overlap, whole>>
pageVars   == <<page, shown, resumeVars, history>>
counters   == <<drops, reloads, auths, lost>>
vars       == <<workerVars, socketVars, pageVars, counters>>

Nothing == [r \in Rows |-> 0]

Init ==
    /\ phase = "run" /\ found = 0 /\ pending = {} /\ stored = {}
    /\ broken = FALSE /\ active = TRUE
    /\ socket = "retry" /\ listening = FALSE /\ inbox = <<>> /\ replay = {}
    /\ page = "live" /\ shown = Nothing
    /\ saved = TRUE /\ asking = 0 /\ fetching = 0
    /\ resumed = 0 /\ overlap = FALSE /\ whole = FALSE
    /\ drops = 0 /\ reloads = 0 /\ auths = 0 /\ lost = 0

-----------------------------------------------------------------------------
(* worker.py *)

\* broadcast: delivered to the subscription there is, if any.
Publish(m) == inbox' = IF listening THEN Append(inbox, m) ELSE inbox

\* Mutant of Found: the rows of several addresses wait for one commit.
FoundBatched ==
    /\ phase = "run" /\ found < MaxFound
    /\ found' = found + 1
    /\ pending' = pending \union {found + 1}
    /\ \/ Publish(found + 1) /\ UNCHANGED lost
       \/ lost < MaxLost /\ lost' = lost + 1 /\ UNCHANGED inbox
    /\ UNCHANGED <<phase, stored, broken, active, socket, listening, replay, pageVars,
                  drops, reloads, auths>>

\* push_data_fn under db_lock: the row is added, then published.  broadcast only
\* logs a Redis error.  A broken session never writes what is added to it.
Found ==
    /\ phase = "run" /\ pending = {} /\ found < MaxFound
    /\ found' = found + 1
    /\ pending' = IF broken THEN {} ELSE {found + 1}
    /\ \/ Publish(found + 1) /\ UNCHANGED lost
       \/ lost < MaxLost /\ lost' = lost + 1 /\ UNCHANGED inbox
    /\ UNCHANGED <<phase, stored, broken, active, socket, listening, replay, pageVars,
                  drops, reloads, auths>>

CommitRow ==
    /\ phase = "run" /\ pending # {}
    /\ stored' = stored \union pending
    /\ pending' = {}
    /\ UNCHANGED <<phase, found, broken, active, socketVars, pageVars, counters>>

\* The commit fails, which push_data_fn only logs, or its fetch worker is cancelled in it:
\* before or after the server committed.
CommitFails ==
    /\ MayFail /\ phase = "run" /\ pending # {}
    /\ broken' = TRUE
    /\ stored' \in {stored, stored \union pending}
    /\ pending' = {}
    /\ UNCHANGED <<phase, found, active, socketVars, pageVars, counters>>

\* spider.run is over, or was cancelled between the publish and the commit.
SpiderOver ==
    /\ phase = "run"
    /\ phase' = "final"
    /\ UNCHANGED <<found, pending, stored, broken, active, socketVars, pageVars, counters>>

\* Mutant of FinalCommit: a rollback clears the session before the final commit.
FinalRollback ==
    /\ phase = "final"
    /\ pending' = {}
    /\ active' = FALSE
    /\ phase' = "announce"
    /\ UNCHANGED <<found, stored, broken, socketVars, pageVars, counters>>

\* The commit of the final status also writes the row that was left; on a broken
\* session it raises, which the finally block logs.
FinalCommit ==
    /\ phase = "final"
    /\ stored' = stored \union pending
    /\ pending' = {}
    /\ active' = (active /\ broken)
    /\ phase' = "announce"
    /\ UNCHANGED <<found, broken, socketVars, pageVars, counters>>

\* It may be the first commit that fails, before or after the server committed.
FinalFails ==
    /\ MayFail /\ phase = "final" /\ ~broken
    /\ broken' = TRUE
    /\ \/ UNCHANGED <<stored, active>>
       \/ stored' = stored \union pending /\ active' = FALSE
    /\ pending' = {}
    /\ phase' = "announce"
    /\ UNCHANGED <<found, socketVars, pageVars, counters>>

\* Mutant of Announce: a message type the page does not know.
AnnounceEnd ==
    /\ phase = "announce"
    /\ Publish(MaxFound + 1)
    /\ phase' = "over"
    /\ UNCHANGED <<found, pending, stored, broken, active, socket, listening, replay,
                  pageVars, counters>>

Announce ==
    /\ phase = "announce"
    /\ Publish(Done)
    /\ phase' = "over"
    /\ UNCHANGED <<found, pending, stored, broken, active, socket, listening, replay,
                  pageVars, counters>>

\* The worker is killed: what it had not committed is rolled back.
WorkerDies ==
    /\ MayDie /\ phase \notin {"over", "dead"}
    /\ pending' = {}
    /\ phase' = "dead"
    /\ UNCHANGED <<found, stored, broken, active, socketVars, pageVars, counters>>

\* cleanup_hung_jobs ends the row of a job whose coroutine is gone.
CleanUp ==
    /\ phase \in {"over", "dead"} /\ active
    /\ active' = FALSE
    /\ UNCHANGED <<phase, found, pending, stored, broken, socketVars, pageVars, counters>>

-----------------------------------------------------------------------------
(* websocket_endpoint *)

\* connectWebSocket, the handshake, the token and the ownership check.
Connect ==
    /\ socket = "retry"
    /\ socket' = "open"
    /\ overlap' = (overlap \/ fetching > 0)
    /\ UNCHANGED <<workerVars, listening, inbox, replay, page, shown, resumeVars,
                  resumed, whole, counters>>

Subscribe ==
    /\ socket = "open"
    /\ socket' = "subscribed" /\ listening' = TRUE
    /\ UNCHANGED <<workerVars, inbox, replay, pageVars, counters>>

\* The cursor sees the rows committed when it opens.
SelectRows ==
    /\ socket = "subscribed"
    /\ replay' = stored
    /\ socket' = "selected" /\ whole' = TRUE
    /\ UNCHANGED <<workerVars, listening, inbox, page, shown, resumeVars,
                  resumed, overlap, counters>>

\* An error of Redis or of the send ends pubsub_listener; the socket stays open.
ListenerDies ==
    /\ listening
    /\ listening' = FALSE /\ inbox' = <<>>
    /\ UNCHANGED <<workerVars, socket, replay, pageVars, counters>>

\* Mutant of Show: every message becomes a result.
ShowAgain(r) == shown' = [shown EXCEPT ![r] = @ + 1]

\* ws.onmessage: an address the page already has is skipped.
Show(r) == shown' = IF shown[r] = 0 THEN [shown EXCEPT ![r] = 1] ELSE shown

\* Rows are replayed in the order of their ids.
Replay(r) ==
    /\ r \in replay /\ \A s \in replay : r <= s
    /\ replay' = replay \ {r}
    /\ Show(r)
    /\ UNCHANGED <<workerVars, socket, listening, inbox, page, resumeVars, history, counters>>

\* jobFinished: the stop button goes and the job is no longer saved.
JobFinished == page' = "finished" /\ saved' = FALSE

\* pubsub_listener runs beside the replay.
Relay ==
    /\ listening /\ inbox # <<>>
    /\ inbox' = Tail(inbox)
    /\ IF Head(inbox) = Done
       THEN JobFinished /\ UNCHANGED shown
       ELSE Show(Head(inbox)) /\ UNCHANGED <<page, saved>>
    /\ UNCHANGED <<workerVars, socket, listening, replay, asking, fetching, history, counters>>

\* What was on its way over the socket is lost.
Hangup == listening' = FALSE /\ inbox' = <<>> /\ replay' = {}

\* The socket closes; ws.onclose reconnects while the stop button is there.
Drop ==
    /\ socket \notin {"none", "retry"} /\ drops < MaxDrops
    /\ drops' = drops + 1
    /\ socket' = IF page = "live" THEN "retry" ELSE "none"
    /\ Hangup
    /\ UNCHANGED <<workerVars, pageVars, reloads, auths, lost>>

-----------------------------------------------------------------------------
(* static/app.js *)

\* stopJob: the page is done with the job once DELETE has answered.
StopJob ==
    /\ page = "live"
    /\ JobFinished
    /\ UNCHANGED <<workerVars, socketVars, shown, asking, fetching, history, counters>>

\* A reload keeps nothing but the saved job.
Reload ==
    /\ saved /\ reloads < MaxReloads
    /\ reloads' = reloads + 1
    /\ page' = "finished" /\ shown' = Nothing
    /\ asking' = 0 /\ fetching' = 0
    /\ resumed' = 0 /\ overlap' = FALSE /\ whole' = FALSE
    /\ socket' = "none" /\ Hangup
    /\ UNCHANGED <<workerVars, saved, drops, auths, lost>>

\* checkAuth, at every SIGNED_IN and TOKEN_REFRESHED and once after a page load:
\* a saved job is resumed, whether or not its socket is open.
AuthEvent ==
    /\ saved /\ auths < MaxAuths
    /\ auths' = auths + 1
    /\ asking' = asking + 1
    /\ UNCHANGED <<workerVars, socketVars, page, shown, saved, fetching, history,
                  drops, reloads, lost>>

\* resumeJob has the status: the list of an active job is emptied, a job that is over
\* is forgotten.
ResumeStatus ==
    /\ asking > 0
    /\ asking' = asking - 1
    /\ IF active
       THEN /\ page' = "live" /\ shown' = Nothing
            /\ fetching' = fetching + 1
            /\ resumed' = 0 /\ whole' = FALSE
            /\ overlap' = (fetching > 0 \/ socket \notin {"none", "retry"})
            /\ UNCHANGED saved
       ELSE saved' = FALSE /\ UNCHANGED <<page, shown, fetching, history>>
    /\ UNCHANGED <<workerVars, socketVars, counters>>

\* One of its requests fails: the job is forgotten, and the list stays as it is.
ResumeFails ==
    /\ \/ asking > 0 /\ asking' = asking - 1 /\ UNCHANGED fetching
       \/ fetching > 0 /\ fetching' = fetching - 1 /\ UNCHANGED asking
    /\ saved' = FALSE
    /\ UNCHANGED <<workerVars, socketVars, page, shown, history, counters>>

\* GET /api/results: the first page of the rows that were committed when the server
\* read them; an error answer has none.
Answer(upTo) ==
    {r \in stored : r <= upTo /\ Cardinality({s \in stored : s <= r}) <= FetchLimit}

\* resumeJob has the results and lists them all, without looking for those that are
\* there; connectWebSocket then closes the socket there is and opens one.
ResumeResults(upTo) ==
    /\ fetching > 0
    /\ fetching' = fetching - 1
    /\ shown' = [r \in Rows |-> IF r \in Answer(upTo) THEN shown[r] + 1 ELSE shown[r]]
    /\ resumed' = resumed + 1
    /\ whole' = FALSE
    /\ socket' = "open" /\ Hangup
    /\ UNCHANGED <<workerVars, page, saved, asking, overlap, counters>>

\* renderStaticResults and viewJob replace the list by such an answer.
ViewRows(upTo) ==
    /\ shown' = [r \in Rows |-> IF r \in Answer(upTo) THEN 1 ELSE 0]
    /\ overlap' = (overlap \/ fetching > 0)
    /\ whole' = FALSE
    /\ UNCHANGED <<workerVars, socketVars, page, resumeVars, resumed, counters>>

-----------------------------------------------------------------------------
WorkerStep ==
    CommitRow \/ CommitFails \/ SpiderOver \/ FinalCommit \/ FinalFails \/ Announce

Deliver ==
    Connect \/ Subscribe \/ SelectRows \/ ListenerDies \/ Relay \/ \E r \in Rows : Replay(r)

PageStep ==
    \/ StopJob \/ Reload \/ AuthEvent \/ ResumeStatus \/ ResumeFails
    \/ \E upTo \in 0..found : ResumeResults(upTo) \/ ViewRows(upTo)

Next ==
    \/ Found \/ WorkerStep \/ WorkerDies \/ CleanUp
    \/ Deliver \/ Drop \/ PageStep

Spec == Init /\ [][Next]_vars

-----------------------------------------------------------------------------
InInbox == {inbox[i] : i \in 1..Len(inbox)}
Shown == {r \in Rows : shown[r] > 0}

WorkerType ==
    /\ phase \in {"run", "final", "announce", "over", "dead"}
    /\ found \in 0..MaxFound
    /\ pending \subseteq Rows /\ stored \subseteq Rows
    /\ broken \in BOOLEAN /\ active \in BOOLEAN

SocketType ==
    /\ socket \in {"none", "retry", "open", "subscribed", "selected"}
    /\ listening \in BOOLEAN
    /\ inbox \in Seq(Rows \union {Done})
    /\ replay \subseteq Rows

PageType ==
    /\ page \in {"live", "finished"}
    /\ shown \in [Rows -> Nat]
    /\ saved \in BOOLEAN /\ asking \in Nat /\ fetching \in Nat
    /\ resumed \in Nat /\ overlap \in BOOLEAN /\ whole \in BOOLEAN

TypeOK ==
    /\ WorkerType /\ SocketType /\ PageType
    /\ {drops, reloads, auths, lost} \subseteq Nat

\* A row may arrive over the channel, by the replay of every reconnection, and with
\* every GET /api/results.  The page lists it once, unless resumeJob emptied the list
\* while a socket or an earlier call was still under way: then once more for every answer.
ShownBounded ==
    \A r \in Rows : shown[r] <= IF overlap THEN 1 + resumed ELSE 1

\* Rows that are neither on the page nor on their way to it.
Missed == (stored \union pending) \ (Shown \union replay \union InInbox)

\* Once a socket has read the rows, and as long as its listener runs and nothing replaces
\* the list, the page misses at most the one address that was published before the socket
\* subscribed and committed after its SELECT, and those whose publish failed: push_data_fn
\* holds db_lock from the publish to the commit.
AtMostOneMissed ==
    socket = "selected" /\ listening /\ whole => Cardinality(Missed) <= 1 + lost

\* Addresses the user was shown, or is about to be, that no export will hold.
Phantoms == (Shown \union (InInbox \ {Done})) \ (stored \union pending)

\* push_data_fn publishes before it commits.  As long as no commit fails or is cut off,
\* only a killed worker leaves such an address, and only one, over any number of
\* reconnections, reloads and resumptions.
PhantomBounded ==
    ~broken =>
        /\ phase # "dead" => Phantoms = {}
        /\ Cardinality(Phantoms) <= 1
=============================================================================
