-------------------------- MODULE BusSubscription ---------------------------
(***************************************************************************)
(* How a node keeps hearing the bus: the Redis subscriber and the watchdog *)
(* that forces it to reconnect, the broadcast channel that the bridge      *)
(* fills, and the supervised task that reads it.                           *)
(***************************************************************************)
EXTENDS Naturals

CONSTANTS
    MaxFailedPings,  \* SUBSCRIBER_MAX_FAILED_PINGS
    Retained,        \* capacity of the broadcast channel
    MaxBackoff,      \* longest pause of the supervisor, in units of the first
    MaxForwarded     \* bound: messages forwarded by the bridge

ASSUME SubscriptionConstants ==
    {MaxFailedPings, Retained, MaxBackoff, MaxForwarded} \subseteq Nat \ {0}

VARIABLES
    wire,       \* the subscriber's connection: up, or dead without notice
    ping,       \* the watchdog: between ticks, waiting for a reply, reconnecting
    failedPings,
    forwarded,  \* messages that the bridge has put on the broadcast channel
    reader,     \* scaling_subscriber: spawned, receiving, handling, panicked, pausing
    cursor,     \* the message that it receives next
    pause       \* backoff_ms

subscriptionVars == <<wire, ping, failedPings, forwarded, reader, cursor, pause>>
watchdogVars == <<wire, ping, failedPings>>
readerVars == <<forwarded, reader, cursor, pause>>

SubscriptionInit ==
    /\ wire = "up"
    /\ ping = "idle"
    /\ failedPings = 0
    /\ forwarded = 0
    /\ reader = "spawned"
    /\ cursor = 1
    /\ pause = 1

(***************************************************************************)
(* The subscriber and its watchdog                                         *)
(***************************************************************************)

\* A half-open connection, or a reconnect that fred never schedules.
WireDies ==
    /\ wire = "up"
    /\ wire' = "dead"
    /\ UNCHANGED <<ping, failedPings, readerVars>>

PingTick ==
    /\ ping = "idle"
    /\ ping' = "sent"
    /\ UNCHANGED <<wire, failedPings, readerVars>>

PingReply ==
    /\ ping = "sent"
    /\ wire = "up"
    /\ ping' = "idle"
    /\ failedPings' = 0
    /\ UNCHANGED <<wire, readerVars>>

\* Mutant of CountFailure: the counter starts over with every tick.
CountFailureAnew == 1

CountFailure == failedPings + 1

\* No reply within SUBSCRIBER_PING_TIMEOUT; on a live connection one may be slow.
PingTimesOut ==
    /\ ping = "sent"
    /\ failedPings' = CountFailure
    /\ ping' = IF failedPings' >= MaxFailedPings THEN "reconnect" ELSE "idle"
    /\ UNCHANGED <<wire, readerVars>>

\* force_reconnection, which subscribes again, or fails and is left to the
\* failures to come.
ForceReconnection(ok) ==
    /\ ping = "reconnect"
    /\ ping' = "idle"
    /\ failedPings' = 0
    /\ wire' = IF ok THEN "up" ELSE wire
    /\ UNCHANGED readerVars

(***************************************************************************)
(* The bridge, the reader and its supervisor                               *)
(***************************************************************************)

\* The bridge passes a message on whether or not anybody reads.
Forward ==
    /\ wire = "up"
    /\ forwarded < MaxForwarded
    /\ forwarded' = forwarded + 1
    /\ UNCHANGED <<watchdogVars, reader, cursor, pause>>

\* provider.subscribe: a new receiver starts behind what was sent before.
SubscribeReader ==
    /\ reader = "spawned"
    /\ reader' = "receiving"
    /\ cursor' = forwarded + 1
    /\ UNCHANGED <<watchdogVars, forwarded, pause>>

\* The oldest message that the broadcast channel still holds.
OldestRetained == IF forwarded > Retained THEN forwarded - Retained + 1 ELSE 1

ReceiveMessage ==
    /\ reader = "receiving"
    /\ cursor \in OldestRetained..forwarded
    /\ reader' = "handling"
    /\ cursor' = cursor + 1
    /\ UNCHANGED <<watchdogVars, forwarded, pause>>

\* Lagged: what was overwritten is skipped.
ReceiveLagged ==
    /\ reader = "receiving"
    /\ cursor < OldestRetained
    /\ cursor' = OldestRetained
    /\ UNCHANGED <<watchdogVars, forwarded, reader, pause>>

\* parse and handle_incoming, which may panic.
Handled(panics) ==
    /\ reader = "handling"
    /\ reader' = IF panics THEN "panicked" ELSE "receiving"
    /\ UNCHANGED <<watchdogVars, forwarded, cursor, pause>>

\* What makes the supervisor start the task again.  The provider keeps the sender,
\* so that the stream never ends by itself.
Respawns == reader = "panicked"

\* supervise: pause, and double the next pause.
Supervise ==
    /\ Respawns
    /\ reader' = "pausing"
    /\ pause' = IF 2 * pause < MaxBackoff THEN 2 * pause ELSE MaxBackoff
    /\ UNCHANGED <<watchdogVars, forwarded, cursor>>

PauseIsOver ==
    /\ reader = "pausing"
    /\ reader' = "spawned"
    /\ UNCHANGED <<watchdogVars, forwarded, cursor, pause>>

SubscriptionNext ==
    \/ WireDies \/ PingTick \/ PingReply \/ PingTimesOut
    \/ \E ok \in BOOLEAN : ForceReconnection(ok)
    \/ Forward \/ SubscribeReader \/ ReceiveMessage \/ ReceiveLagged
    \/ \E panics \in BOOLEAN : Handled(panics)
    \/ Supervise \/ PauseIsOver

\* Timers fire and ready tasks run.  A reconnection that is tried again and
\* again succeeds at some point; nothing else is assumed of Redis.
WatchdogStep == PingTick \/ PingReply \/ PingTimesOut \/ \E ok \in BOOLEAN : ForceReconnection(ok)
ReaderStep ==
    \/ SubscribeReader \/ ReceiveMessage \/ ReceiveLagged \/ Supervise \/ PauseIsOver
    \/ \E panics \in BOOLEAN : Handled(panics)

(***************************************************************************)
(* Property                                                                *)
(***************************************************************************)

\* A node does not stay deaf: however often its subscriber dies unnoticed, fails
\* to reconnect, or the reading task lags or panics, it is connected again and
\* reads again (subscriber_watchdog, supervise).
NeverStaysDeaf == (wire = "dead" ~> wire = "up") /\ (reader = "panicked" ~> reader = "receiving")
=============================================================================
