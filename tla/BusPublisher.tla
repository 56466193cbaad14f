---------------------------- MODULE BusPublisher ----------------------------
(***************************************************************************)
(* The way of an event from a producer to Redis, and the shutdown of the   *)
(* process: the bounded publish queue, in Block mode the staging buffer    *)
(* and its forwarder, the publisher task that takes batches, and the main  *)
(* task that stops the listener, waits for the requests in flight and then *)
(* for the outbound queues, each for a bounded time.                       *)
(***************************************************************************)
EXTENDS Naturals, Sequences, Functions

CONSTANTS
    Req,            \* HTTP publish requests, one envelope each
    Ws,             \* envelopes that connection tasks publish
    PublishCap,     \* capacity of the publish queue
    StagingLimit,   \* budget of the staging buffer, in envelopes
    BatchMax        \* recv_many's limit

Envelope == Req \cup Ws
Nothing == "nothing"

ASSUME PublisherConstants ==
    Req \cap Ws = {} /\ {PublishCap, BatchMax} \subseteq Nat \ {0} /\ StagingLimit \in Nat

VARIABLES
    mode,       \* PublishOverflow
    request,    \* request[r]: where an HTTP request is
    queue,      \* the publish queue
    staging,    \* the staging buffer's queue
    stagedBytes,\* its byte counter
    forwarder,  \* what the forwarder is doing with which envelope
    batch,      \* the publisher's batch
    publisher,  \* where the publisher task is
    publishing, \* its counter
    out,        \* the envelopes handed to Redis, in order
    dropped,    \* envelopes counted as dropped, or that Redis did not take in time
    shutdown,   \* where the main task is
    poll,       \* what drain_outbound has read so far
    deadline,   \* OUTBOUND_DRAIN_TIMEOUT has passed
    accepted,   \* history: envelopes in the order in which they were enqueued
    overtime,   \* history: a deadline of the shutdown has passed
    inHand      \* history: a poll fell between the publisher's receive and store

pipe == <<queue, staging, stagedBytes, forwarder, batch, publisher, publishing>>
pubVars == <<mode, request, pipe, out, dropped, shutdown, poll, deadline, accepted, overtime, inHand>>

PubInit ==
    /\ mode \in {"best_effort", "block"}
    /\ request = [r \in Req |-> "none"]
    /\ queue = <<>>
    /\ staging = <<>>
    /\ stagedBytes = 0
    /\ forwarder = [at |-> "idle", env |-> Nothing]
    /\ batch = <<>>
    /\ publisher = "idle"
    /\ publishing = 0
    /\ out = <<>>
    /\ dropped = {}
    /\ shutdown = "serving"
    /\ poll = "none"
    /\ deadline = FALSE
    /\ accepted = <<>>
    /\ overtime = FALSE
    /\ inHand = FALSE

Running == shutdown # "exited"

(***************************************************************************)
(* Producers                                                               *)
(***************************************************************************)

HasRoom == Len(queue) < PublishCap

\* Mutant of Staged: an envelope takes the direct way when there is room.
StagedIfFull == mode = "block" /\ ~HasRoom

\* Whether an envelope goes through the staging buffer.
Staged == mode = "block"

\* spawn_publish
SpawnPublish(e) ==
    LET fits == IF Staged THEN stagedBytes < StagingLimit ELSE HasRoom IN
    /\ queue' = IF fits /\ ~Staged THEN Append(queue, e) ELSE queue
    /\ staging' = IF fits /\ Staged THEN Append(staging, e) ELSE staging
    /\ stagedBytes' = IF fits /\ Staged THEN stagedBytes + 1 ELSE stagedBytes
    /\ accepted' = IF fits THEN Append(accepted, e) ELSE accepted
    /\ dropped' = IF fits THEN dropped ELSE dropped \cup {e}
    /\ UNCHANGED <<forwarder, batch, publisher, publishing>>

\* The listener takes a request until it drains.
AcceptRequest(r) ==
    /\ request[r] = "none"
    /\ shutdown \in {"serving", "draining"}
    /\ request' = [request EXCEPT ![r] = "reading"]
    /\ UNCHANGED <<mode, pipe, out, dropped, shutdown, poll, deadline, accepted, overtime, inHand>>

\* deadline_and_metrics: only reading the body is bounded in time and size, so
\* what is refused has published nothing.
DeadlineAndMetrics(r) ==
    /\ Running
    /\ request[r] = "reading"
    /\ \E next \in {"in flight", "refused"} : request' = [request EXCEPT ![r] = next]
    /\ UNCHANGED <<mode, pipe, out, dropped, shutdown, poll, deadline, accepted, overtime, inHand>>

\* dispatch_message, then the answer.
HandleRequest(r) ==
    /\ Running
    /\ request[r] = "in flight"
    /\ SpawnPublish(r)
    /\ request' = [request EXCEPT ![r] = "answered"]
    /\ UNCHANGED <<mode, out, shutdown, poll, deadline, overtime, inHand>>

\* A connection task publishes, at any time: nobody waits for its cleanup.
WsPublish(e) ==
    /\ Running
    /\ e \notin Range(accepted) \cup dropped
    /\ SpawnPublish(e)
    /\ UNCHANGED <<mode, request, out, shutdown, poll, deadline, overtime, inHand>>

(***************************************************************************)
(* Forwarder and publisher                                                 *)
(***************************************************************************)

ForwarderTake ==
    /\ Running
    /\ forwarder.at = "idle"
    /\ staging # <<>>
    /\ forwarder' = [at |-> "sending", env |-> Head(staging)]
    /\ staging' = Tail(staging)
    /\ UNCHANGED <<mode, request, queue, stagedBytes, batch, publisher, publishing, out,
                   dropped, shutdown, poll, deadline, accepted, overtime, inHand>>

ForwarderSend ==
    /\ Running
    /\ forwarder.at = "sending"
    /\ HasRoom
    /\ queue' = Append(queue, forwarder.env)
    /\ forwarder' = [at |-> "sent", env |-> Nothing]
    /\ UNCHANGED <<mode, request, staging, stagedBytes, batch, publisher, publishing, out,
                   dropped, shutdown, poll, deadline, accepted, overtime, inHand>>

\* The budget is given back after the queue has the envelope.
ForwarderRelease ==
    /\ Running
    /\ forwarder.at = "sent"
    /\ stagedBytes' = stagedBytes - 1
    /\ forwarder' = [at |-> "idle", env |-> Nothing]
    /\ UNCHANGED <<mode, request, queue, staging, batch, publisher, publishing, out, dropped,
                   shutdown, poll, deadline, accepted, overtime, inHand>>

\* recv_many
PublisherTake ==
    /\ Running
    /\ publisher = "idle"
    /\ queue # <<>>
    /\ LET n == IF Len(queue) < BatchMax THEN Len(queue) ELSE BatchMax
       IN  /\ batch' = SubSeq(queue, 1, n)
           /\ queue' = SubSeq(queue, n + 1, Len(queue))
    /\ publisher' = "taken"
    /\ UNCHANGED <<mode, request, staging, stagedBytes, forwarder, publishing, out, dropped,
                   shutdown, poll, deadline, accepted, overtime, inHand>>

PublisherMark ==
    /\ Running
    /\ publisher = "taken"
    /\ publishing' = Len(batch)
    /\ publisher' = "publishing"
    /\ UNCHANGED <<mode, request, queue, staging, stagedBytes, forwarder, batch, out, dropped,
                   shutdown, poll, deadline, accepted, overtime, inHand>>

\* join_all polls the batch in order: Redis takes the next envelope.
PublisherPublish ==
    /\ Running
    /\ publisher = "publishing"
    /\ batch # <<>>
    /\ out' = Append(out, Head(batch))
    /\ batch' = Tail(batch)
    /\ UNCHANGED <<mode, request, queue, staging, stagedBytes, forwarder, publisher, publishing,
                   dropped, shutdown, poll, deadline, accepted, overtime, inHand>>

\* Mutant of PublisherTimeout: a stalled Redis parks the publisher.
PublisherNoTimeout == FALSE /\ UNCHANGED pubVars

\* Redis does not take it: the publish fails, or the batch has timed out, and
\* then some of the rest may still land.
PublisherTimeout ==
    /\ Running
    /\ publisher = "publishing"
    /\ batch # <<>>
    /\ dropped' = dropped \cup {Head(batch)}
    /\ batch' = Tail(batch)
    /\ UNCHANGED <<mode, request, queue, staging, stagedBytes, forwarder, publisher, publishing,
                   out, shutdown, poll, deadline, accepted, overtime, inHand>>

PublisherUnmark ==
    /\ Running
    /\ publisher = "publishing"
    /\ batch = <<>>
    /\ publishing' = 0
    /\ publisher' = "idle"
    /\ UNCHANGED <<mode, request, queue, staging, stagedBytes, forwarder, batch, out, dropped,
                   shutdown, poll, deadline, accepted, overtime, inHand>>

(***************************************************************************)
(* Shutdown                                                                *)
(***************************************************************************)

\* A signal or the restart file: shutdown_now.
BeginShutdown ==
    /\ shutdown = "serving"
    /\ shutdown' = "draining"
    /\ UNCHANGED <<mode, request, pipe, out, dropped, poll, deadline, accepted, overtime, inHand>>

\* WS_CLOSE_FLUSH_DELAY has passed: the listener accepts no more.
ListenerDrains ==
    /\ shutdown = "draining"
    /\ shutdown' = "listener drains"
    /\ UNCHANGED <<mode, request, pipe, out, dropped, poll, deadline, accepted, overtime, inHand>>

\* The listener's future ends when the handlers have answered.
RequestsAreDone == \A r \in Req : request[r] \notin {"reading", "in flight"}

\* Mutant of PollOrder: the counters are read against the direction of the flow.
PollBackwards == <<"publishing", "queue", "staged">>

\* pending_publishes reads three counters, one after the other.
PollOrder == <<"staged", "queue", "publishing">>

\* The listener has drained, or GRACEFUL_HTTP_TIMEOUT drops what is in flight.
ListenerDone ==
    /\ shutdown = "listener drains"
    /\ \/ RequestsAreDone /\ UNCHANGED <<request, overtime>>
       \/ /\ ~RequestsAreDone
          /\ request' = [r \in Req |-> IF request[r] = "in flight" THEN "aborted" ELSE request[r]]
          /\ overtime' = TRUE
    /\ shutdown' = "flushing"
    /\ poll' = PollOrder[1]
    /\ UNCHANGED <<mode, pipe, out, dropped, deadline, accepted, inHand>>

Reading(what) == CASE what = "staged" -> IF stagedBytes > 0 THEN 1 ELSE 0
                   [] what = "queue" -> Len(queue)
                   [] what = "publishing" -> publishing

\* One read; a counter above zero starts the poll again, unless the deadline
\* has passed, and three zeros in a row end it.
PollCounter(i) ==
    LET busy == Reading(poll) > 0
        exits == IF busy THEN deadline ELSE i = 3
    IN  /\ shutdown = "flushing"
        /\ poll = PollOrder[i]
        /\ inHand' = (inHand \/ (poll = "publishing" /\ publisher = "taken"))
        /\ poll' = IF exits THEN "none" ELSE PollOrder[IF busy THEN 1 ELSE i + 1]
        /\ shutdown' = IF exits THEN "exited" ELSE shutdown
        /\ overtime' = (overtime \/ (busy /\ deadline))
        /\ UNCHANGED <<mode, request, pipe, out, dropped, deadline, accepted>>

DeadlinePasses ==
    /\ shutdown = "flushing"
    /\ ~deadline
    /\ deadline' = TRUE
    /\ UNCHANGED <<mode, request, pipe, out, dropped, shutdown, poll, accepted, overtime, inHand>>

PubNext ==
    \/ \E r \in Req : AcceptRequest(r) \/ DeadlineAndMetrics(r) \/ HandleRequest(r)
    \/ \E e \in Ws : WsPublish(e)
    \/ ForwarderTake \/ ForwarderSend \/ ForwarderRelease
    \/ PublisherTake \/ PublisherMark \/ PublisherPublish
    \/ PublisherTimeout \/ PublisherUnmark
    \/ BeginShutdown \/ ListenerDrains \/ ListenerDone \/ DeadlinePasses
    \/ \E i \in 1..3 : PollCounter(i)

PubSpec == PubInit /\ [][PubNext]_pubVars

\* The tasks go on and the timers fire.  Redis need not answer, and a request
\* handler need not finish.
PubFairness ==
    /\ WF_pubVars(ForwarderTake) /\ WF_pubVars(ForwarderSend) /\ WF_pubVars(ForwarderRelease)
    /\ WF_pubVars(PublisherTake) /\ WF_pubVars(PublisherMark)
    /\ WF_pubVars(PublisherTimeout) /\ WF_pubVars(PublisherUnmark)
    /\ WF_pubVars(ListenerDrains) /\ WF_pubVars(ListenerDone) /\ WF_pubVars(DeadlinePasses)
    /\ WF_pubVars(\E i \in 1..3 : PollCounter(i))

(***************************************************************************)
(* Properties                                                              *)
(***************************************************************************)

\* x comes before y in the sequence s.
Before(s, x, y) == \E k, l \in 1..Len(s) : k < l /\ s[k] = x /\ s[l] = y

\* Envelopes reach Redis in the order in which they were enqueued, whichever
\* way they took; some may be missing.
PublishedInOrder ==
    /\ Range(out) \subseteq Range(accepted)
    /\ \A i, j \in 1..Len(out) : i < j => Before(accepted, out[i], out[j])

\* An event whose request was answered is not lost by a shutdown: when the
\* process exits it is with Redis, or was counted as dropped, or a deadline had
\* passed.  Excluded: a batch that the publisher had taken and not yet counted
\* while drain_outbound was reading.
AnsweredIsPublished ==
    shutdown = "exited" /\ ~overtime /\ ~inHand =>
        \A r \in Req : request[r] = "answered" => r \in Range(out) \cup dropped

\* While the process runs, an enqueued envelope leaves it: the forwarder and the
\* publisher do not wait for each other for ever.
EnqueuedLeaves ==
    \A e \in Envelope :
        (e \in Range(accepted)) ~> (e \in Range(out) \cup dropped \/ shutdown = "exited")
=============================================================================
