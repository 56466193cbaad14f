-------------------------- MODULE WebhookDelivery ---------------------------
(***************************************************************************)
(* Webhooks: events are enqueued without waiting, in Block mode through a  *)
(* staging buffer; the drain loop takes one at a time, and for every       *)
(* matching target acquires a delivery slot and starts a delivery; a       *)
(* failed delivery is retried without holding a slot while it waits.       *)
(***************************************************************************)
EXTENDS Naturals, Sequences, FiniteSets

CONSTANTS
    Hook,           \* events
    Target,         \* URLs
    Wants,          \* Wants[e]: the targets whose filters match event e
    HookCap,        \* WEBHOOK_QUEUE_CAPACITY
    HookStaging,    \* the staging budget, in events
    Slots,          \* MAX_IN_FLIGHT_DELIVERIES
    MaxRetrying,    \* MAX_PENDING_RETRIES
    MaxTries        \* attempts that fit into RETRY_WINDOW

NoHook == "no event"

ASSUME WebhookConstants ==
    /\ IsFiniteSet(Hook) /\ NoHook \notin Hook
    /\ IsFiniteSet(Target) /\ Wants \in [Hook -> SUBSET Target]
    /\ {HookCap, Slots, MaxTries} \subseteq Nat \ {0} /\ {HookStaging, MaxRetrying} \subseteq Nat

VARIABLES
    hookMode,   \* WebhookOverflow
    hooks,      \* the queue
    stagedHooks,\* the staging buffer's queue
    hookBytes,  \* its byte counter
    moving,     \* the forwarder
    loop,       \* the drain loop: where it is, its event, the targets to go
    dequeued,   \* 1 while the loop holds an event
    slots,      \* free permits of the semaphore
    inFlight,   \* its counter of deliveries
    retrying,   \* the counter pending_retries
    delivery,   \* delivery[e][t]: the state of a delivery
    tries,      \* tries[e][t]: its attempts
    counted,    \* deliveries with counted_as_pending
    enqueued,   \* history: events that were accepted
    hookPoll,   \* a caller of pending(): what it reads next
    asked,      \* history: what had been enqueued when it began
    slipped     \* history: an event passed where the caller could not see it

intake == <<hookMode, hooks, stagedHooks, hookBytes, moving>>
work == <<slots, inFlight, retrying, delivery, tries, counted>>
hookVars == <<intake, loop, dequeued, work, enqueued, hookPoll, asked, slipped>>

Delivery == {d \in Hook \X Target : d[2] \in Wants[d[1]]}

HookInit ==
    /\ hookMode \in {"best_effort", "block"}
    /\ hooks = <<>>
    /\ stagedHooks = <<>>
    /\ hookBytes = 0
    /\ moving = [at |-> "idle", event |-> NoHook]
    /\ loop = [at |-> "idle", event |-> NoHook, todo |-> {}]
    /\ dequeued = 0
    /\ slots = Slots
    /\ inFlight = 0
    /\ retrying = 0
    /\ delivery = [d \in Delivery |-> "none"]
    /\ tries = [d \in Delivery |-> 0]
    /\ counted = {}
    /\ enqueued = {}
    /\ hookPoll = "none"
    /\ asked = {}
    /\ slipped = FALSE

(***************************************************************************)
(* Intake                                                                  *)
(***************************************************************************)

\* enqueue: an event that finds no room is dropped and counted.
Enqueue(e) ==
    /\ e \notin enqueued
    /\ IF hookMode = "block"
       THEN /\ hookBytes < HookStaging
            /\ stagedHooks' = Append(stagedHooks, e)
            /\ hookBytes' = hookBytes + 1
            /\ UNCHANGED hooks
       ELSE /\ Len(hooks) < HookCap
            /\ hooks' = Append(hooks, e)
            /\ UNCHANGED <<stagedHooks, hookBytes>>
    /\ enqueued' = enqueued \cup {e}
    /\ UNCHANGED <<hookMode, moving, loop, dequeued, work, hookPoll, asked, slipped>>

MoverTake ==
    /\ moving.at = "idle"
    /\ stagedHooks # <<>>
    /\ moving' = [at |-> "sending", event |-> Head(stagedHooks)]
    /\ stagedHooks' = Tail(stagedHooks)
    /\ UNCHANGED <<hookMode, hooks, hookBytes, loop, dequeued, work, enqueued, hookPoll, asked, slipped>>

\* pending() reads the queue before the staging counter: an event that moves
\* between the two reads is missed.
MoverSend ==
    /\ moving.at = "sending"
    /\ Len(hooks) < HookCap
    /\ hooks' = Append(hooks, moving.event)
    /\ moving' = [at |-> "sent", event |-> NoHook]
    /\ slipped' = (slipped \/ hookPoll = "staged")
    /\ UNCHANGED <<hookMode, stagedHooks, hookBytes, loop, dequeued, work, enqueued, hookPoll, asked>>

MoverRelease ==
    /\ moving.at = "sent"
    /\ hookBytes' = hookBytes - 1
    /\ moving' = [at |-> "idle", event |-> NoHook]
    /\ UNCHANGED <<hookMode, hooks, stagedHooks, loop, dequeued, work, enqueued, hookPoll, asked, slipped>>

(***************************************************************************)
(* The drain loop                                                          *)
(***************************************************************************)

LoopTake ==
    /\ loop.at = "idle"
    /\ hooks # <<>>
    /\ loop' = [at |-> "taken", event |-> Head(hooks), todo |-> {}]
    /\ hooks' = Tail(hooks)
    /\ UNCHANGED <<hookMode, stagedHooks, hookBytes, moving, dequeued, work, enqueued, hookPoll, asked, slipped>>

\* The event is counted, and its targets are looked up and filtered.
LoopMark ==
    /\ loop.at = "taken"
    /\ dequeued' = 1
    /\ loop' = [loop EXCEPT !.at = "spawning", !.todo = Wants[loop.event]]
    /\ UNCHANGED <<intake, work, enqueued, hookPoll, asked, slipped>>

\* A slot is acquired before the delivery is spawned.
LoopSpawn(t) ==
    LET d == <<loop.event, t>> IN
    /\ loop.at = "spawning"
    /\ t \in loop.todo
    /\ slots > 0
    /\ slots' = slots - 1
    /\ inFlight' = inFlight + 1
    /\ delivery' = [delivery EXCEPT ![d] = "requesting"]
    /\ tries' = [tries EXCEPT ![d] = 1]
    /\ loop' = [loop EXCEPT !.todo = @ \ {t}]
    /\ UNCHANGED <<intake, dequeued, retrying, counted, enqueued, hookPoll, asked, slipped>>

LoopDone ==
    /\ loop.at = "spawning"
    /\ loop.todo = {}
    /\ dequeued' = 0
    /\ loop' = [at |-> "idle", event |-> NoHook, todo |-> {}]
    /\ UNCHANGED <<intake, work, enqueued, hookPoll, asked, slipped>>

(***************************************************************************)
(* deliver                                                                 *)
(***************************************************************************)

\* The end of deliver, with the slot of its last request given back.
Settle(d, outcome) ==
    /\ delivery' = [delivery EXCEPT ![d] = outcome]
    /\ slots' = slots + 1
    /\ inFlight' = inFlight - 1
    /\ retrying' = IF d \in counted THEN retrying - 1 ELSE retrying
    /\ counted' = counted \ {d}

RequestSucceeds(d) ==
    /\ delivery[d] = "requesting"
    /\ Settle(d, "delivered")
    /\ UNCHANGED <<intake, loop, dequeued, tries, enqueued, hookPoll, asked, slipped>>

\* The window is over, or too many deliveries are waiting already.
GivesUp(d) == tries[d] = MaxTries \/ (d \notin counted /\ retrying >= MaxRetrying)

\* Mutant of Backoff: the slot is kept while the delivery waits.
BackoffInSlot(d) ==
    /\ delivery' = [delivery EXCEPT ![d] = "backoff"]
    /\ retrying' = IF d \in counted THEN retrying ELSE retrying + 1
    /\ counted' = counted \cup {d}
    /\ UNCHANGED <<slots, inFlight>>

\* Mutant of Backoff: every failure is counted again.
BackoffRecounted(d) ==
    /\ delivery' = [delivery EXCEPT ![d] = "backoff"]
    /\ slots' = slots + 1
    /\ retrying' = retrying + 1
    /\ counted' = counted \cup {d}
    /\ UNCHANGED inFlight

\* The slot is free while the delivery waits; it is counted once.
Backoff(d) ==
    /\ delivery' = [delivery EXCEPT ![d] = "backoff"]
    /\ slots' = slots + 1
    /\ retrying' = IF d \in counted THEN retrying ELSE retrying + 1
    /\ counted' = counted \cup {d}
    /\ UNCHANGED inFlight

\* A status other than 2xx, a transport error or the client's timeout.
RequestFails(d) ==
    /\ delivery[d] = "requesting"
    /\ IF GivesUp(d) THEN Settle(d, "abandoned") ELSE Backoff(d)
    /\ UNCHANGED <<intake, loop, dequeued, tries, enqueued, hookPoll, asked, slipped>>

\* The backoff is over and a slot is free.
Retry(d) ==
    /\ delivery[d] = "backoff"
    /\ slots > 0
    /\ slots' = slots - 1
    /\ delivery' = [delivery EXCEPT ![d] = "requesting"]
    /\ tries' = [tries EXCEPT ![d] = @ + 1]
    /\ UNCHANGED <<intake, loop, dequeued, inFlight, retrying, counted, enqueued, hookPoll, asked, slipped>>

(***************************************************************************)
(* pending(), as drain_outbound calls it                                   *)
(***************************************************************************)

\* Mutant of PendingOrder: deliveries are counted before the loop's event.
PendingSwapped == <<"queued", "staged", "in flight", "dequeued">>

\* The order in which pending() reads.
PendingOrder == <<"queued", "staged", "dequeued", "in flight">>

PendingTerm(what) == CASE what = "queued" -> Len(hooks)
                       [] what = "staged" -> hookBytes
                       [] what = "dequeued" -> dequeued
                       [] what = "in flight" -> inFlight

PendingStart ==
    /\ hookPoll = "none"
    /\ hookPoll' = PendingOrder[1]
    /\ asked' = enqueued
    /\ slipped' = FALSE
    /\ UNCHANGED <<intake, loop, dequeued, work, enqueued>>

\* A term above zero: work is pending.  Four zeros: nothing is.
PendingRead(i) ==
    /\ hookPoll = PendingOrder[i]
    /\ hookPoll' = IF PendingTerm(hookPoll) > 0 THEN "none"
                   ELSE IF i = 4 THEN "clear" ELSE PendingOrder[i + 1]
    /\ slipped' = (slipped \/ (hookPoll = "dequeued" /\ loop.at = "taken"))
    /\ UNCHANGED <<intake, loop, dequeued, work, enqueued, asked>>

HookNext ==
    \/ \E e \in Hook : Enqueue(e)
    \/ MoverTake \/ MoverSend \/ MoverRelease
    \/ LoopTake \/ LoopMark \/ LoopDone \/ \E t \in Target : LoopSpawn(t)
    \/ \E d \in Delivery : RequestSucceeds(d) \/ RequestFails(d) \/ Retry(d)
    \/ PendingStart \/ \E i \in 1..4 : PendingRead(i)

HookSpec == HookInit /\ [][HookNext]_hookVars

\* The tasks go on, a request ends within the client's timeout, and a free slot
\* goes to somebody who waits for one.
HookFairness ==
    /\ WF_hookVars(MoverTake) /\ WF_hookVars(MoverSend) /\ WF_hookVars(MoverRelease)
    /\ WF_hookVars(LoopTake) /\ WF_hookVars(LoopMark) /\ WF_hookVars(LoopDone)
    /\ WF_hookVars(\/ \E t \in Target : LoopSpawn(t)
                   \/ \E d \in Delivery : Retry(d))
    /\ \A d \in Delivery : WF_hookVars(RequestSucceeds(d) \/ RequestFails(d))

(***************************************************************************)
(* Properties                                                              *)
(***************************************************************************)

\* On every path through deliver the slots and both counters are given back:
\* slots are held by requests only, retries are counted once.
SlotsAndCountersBalance ==
    /\ slots + Cardinality({d \in Delivery : delivery[d] = "requesting"}) = Slots
    /\ retrying = Cardinality(counted) /\ retrying <= MaxRetrying
    /\ inFlight = Cardinality({d \in Delivery : delivery[d] \in {"requesting", "backoff"}})

\* When pending() adds up to zero, every event enqueued before the call has been
\* delivered or abandoned.  Excluded: events that the loop has received and not
\* yet counted, and events that leave the staging buffer between its reads.
PendingIsHonest ==
    hookPoll = "clear" /\ ~slipped =>
        \A d \in Delivery : d[1] \in asked => delivery[d] \in {"delivered", "abandoned"}

\* Every event is delivered or abandoned at every target, even if another
\* target fails all the time.
EventsSettle ==
    \A d \in Delivery : (d[1] \in enqueued) ~> (delivery[d] \in {"delivered", "abandoned"})
=============================================================================
