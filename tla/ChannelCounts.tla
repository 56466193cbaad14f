--------------------------- MODULE ChannelCounts ---------------------------
(***************************************************************************)
(* The number of subscribers of one channel without presence, across the   *)
(* nodes of a fleet: each node shares its own count, live and by periodic  *)
(* snapshots, adds up what its peers report, tells its subscribers the     *)
(* total and decides who reports the channel as occupied or vacated.       *)
(*                                                                         *)
(* A join or a leave holds the channel's transition lock to its last step. *)
(* Of the others only the broadcast after a snapshot takes that lock: the  *)
(* bus consumer, the GC and the snapshot publisher run between the         *)
(* handler's steps, which are therefore separate, as theirs are.           *)
(***************************************************************************)
EXTENDS Naturals, Sequences, Functions

CONSTANTS
    Server,     \* node ids, numbers because the code compares them
    MaxLen,     \* bound on the subscribers of a node
    MaxNumbers, \* bound on the sequence numbers drawn by all nodes together
    MaxOutages  \* bound on lost messages and crashes together

ASSUME ServersAreOrdered == Server \subseteq Nat

VARIABLES
    alive,      \* the nodes that run
    len,        \* len[n]: subscribers on n
    drawn,      \* drawn[n]: the last sequence number n has drawn
    outbox,     \* outbox[n]: the live count that n has numbered and not yet enqueued
    pending,    \* pending[n]: the snapshot that n prepares
    wire,       \* wire[m][n]: messages of m on their way to n, in order
    counts,     \* counts[n][m]: n's entry of m's count
    latest,     \* latest[n][m]: highest sequence number of m applied by n
    noted,      \* noted[n]: n withheld channel_vacated
    task,       \* task[n][t]: where the handler, the consumer and the GC of n are
    shown,      \* shown[n]: the total that n's subscribers were last sent
    outages,    \* messages lost and nodes crashed so far
    gap,        \* history: the last number of m that n missed, until a later snapshot
    crossed,    \* history: n's last total was out of date when it was sent
    vacated,    \* history: reports of the end since the last join
    calm        \* history: since the last join a leave found nothing under way, and
                \* no flag was missed

countVars == <<alive, len, drawn, outbox, pending, wire, counts, latest, noted, task, shown,
               outages, gap, crossed, vacated, calm>>

NoCount == [age |-> "none", count |-> 0]
NotPending == [step |-> "idle", seq |-> 0, count |-> 0]
AtRest == [step |-> "idle", total |-> 0]

CountInit ==
    /\ alive = Server
    /\ len = [n \in Server |-> 0]
    /\ drawn = [n \in Server |-> 0]
    /\ outbox = [n \in Server |-> <<>>]
    /\ pending = [n \in Server |-> NotPending]
    /\ wire = [m \in Server |-> [n \in Server |-> <<>>]]
    /\ counts = [n \in Server |-> [m \in Server |-> NoCount]]
    /\ latest = [n \in Server |-> [m \in Server |-> 0]]
    /\ noted = [n \in Server |-> FALSE]
    /\ task = [n \in Server |-> [t \in {"handler", "bus", "gc"} |-> AtRest]]
    /\ shown = [n \in Server |-> 0]
    /\ outages = 0
    /\ gap = [n \in Server |-> [m \in Server |-> 0]]
    /\ crossed = [n \in Server |-> FALSE]
    /\ vacated = 0
    /\ calm = FALSE

(***************************************************************************)
(* PeerChannelCounts                                                       *)
(***************************************************************************)

SetCount(c, m, k) == [c EXCEPT ![m] = [age |-> "live", count |-> k]]

TouchCount(c, m) == IF c[m].age = "none" THEN c ELSE [c EXCEPT ![m].age = "live"]

\* The live counts of the peers.
PeerSum(c) == FoldFunction(+, 0, [m \in Server |-> IF c[m].age = "live" THEN c[m].count ELSE 0])

\* Mutant of OccupiedOnPeers: the peers are not asked.
OccupiedNever(n) == FALSE

\* occupied_on_peers: the sum of the live counts is positive.
OccupiedOnPeers(n) == \E m \in Server : counts[n][m].age = "live" /\ counts[n][m].count > 0

Total(n) == len[n] + PeerSum(counts[n])

(***************************************************************************)
(* Messages                                                                *)
(***************************************************************************)

MayNumber == FoldFunction(+, 0, drawn) < MaxNumbers

Send(n, msg) ==
    wire' = [wire EXCEPT ![n] = [m \in Server |-> IF m \in alive \ {n} THEN Append(@[m], msg) ELSE @[m]]]

\* spawn_publish draws the number; EnqueueCount puts the message on the queue.
PublishSubscriptionCount(n, k, withheld) ==
    /\ outbox' = [outbox EXCEPT ![n] =
           <<[type |-> "count", seq |-> drawn[n] + 1, count |-> k, withheld |-> withheld]>>]
    /\ drawn' = [drawn EXCEPT ![n] = @ + 1]

PublishChannelCountSnapshot(n) ==
    Send(n, [type |-> "snapshot", seq |-> pending[n].seq, count |-> pending[n].count, withheld |-> FALSE])

\* The total reaches the subscribers of n, if it has any.
BroadcastTotal(n, total) ==
    IF len[n] = 0 THEN UNCHANGED <<shown, crossed>>
    ELSE /\ shown' = [shown EXCEPT ![n] = total]
         /\ crossed' = [crossed EXCEPT ![n] = total # Total(n)]

At(n, t) == task[n][t].step

Goto(n, t, step, total) ==
    task' = [task EXCEPT ![n][t] = [step |-> step, total |-> total]]

(***************************************************************************)
(* Subscribing and unsubscribing, under the transition lock                *)
(***************************************************************************)

BusIsQuiet ==
    /\ \A m, n \in Server : wire[m][n] = <<>>
    /\ \A n \in Server : At(n, "handler") = "idle" /\ At(n, "bus") = "idle"

\* Every server has heard the others out, and none has withheld a report.
NothingUnderWay == BusIsQuiet /\ \A n \in Server : pending[n] = NotPending /\ ~noted[n]

\* A report of an end that is one, counted.
CountReport(reporting) ==
    vacated' = IF reporting /\ \A n \in Server : len[n] = 0 THEN vacated + 1 ELSE vacated

CountJoin(n) ==
    /\ n \in alive
    /\ At(n, "handler") = "idle"
    /\ len[n] < MaxLen
    /\ MayNumber
    /\ len' = [len EXCEPT ![n] = @ + 1]
    /\ vacated' = 0
    /\ calm' = FALSE
    /\ Goto(n, "handler", "changed", 0)
    /\ UNCHANGED <<alive, drawn, outbox, pending, wire, counts, latest, noted, shown, outages, gap, crossed>>

CountLeave(n) ==
    /\ n \in alive
    /\ At(n, "handler") = "idle"
    /\ len[n] > 0
    /\ MayNumber
    /\ len' = [len EXCEPT ![n] = @ - 1]
    /\ calm' = (calm \/ NothingUnderWay)
    /\ Goto(n, "handler", IF len[n] = 1 THEN "emptied" ELSE "changed", 0)
    /\ UNCHANGED <<alive, drawn, outbox, pending, wire, counts, latest, noted, shown, outages, gap, crossed,
                   vacated>>

\* The last subscriber withholds the report while a peer has subscribers.
CheckPeers(n) ==
    /\ At(n, "handler") = "emptied"
    /\ CountReport(~OccupiedOnPeers(n))
    /\ Goto(n, "handler", IF OccupiedOnPeers(n) THEN "withholding" ELSE "counted", 0)
    /\ UNCHANGED <<alive, len, drawn, outbox, pending, wire, counts, latest, noted, shown, outages, gap, crossed,
                   calm>>

NoteWithheld(n) ==
    /\ At(n, "handler") = "withholding"
    /\ noted' = [noted EXCEPT ![n] = TRUE]
    /\ Goto(n, "handler", "withheld", 0)
    /\ UNCHANGED <<alive, len, drawn, outbox, pending, wire, counts, latest, shown, outages, gap, crossed, vacated,
                   calm>>

\* announce_subscription_count reads the total; of an empty channel nobody is told.
ReadTotal(n) ==
    /\ At(n, "handler") = "changed"
    /\ Goto(n, "handler", "counted", Total(n))
    /\ UNCHANGED <<alive, len, drawn, outbox, pending, wire, counts, latest, noted, shown, outages, gap, crossed,
                   vacated, calm>>

\* The total goes to the subscribers, and the local count gets its number.
AnnounceSubscriptionCount(n) ==
    /\ At(n, "handler") \in {"counted", "withheld"}
    /\ BroadcastTotal(n, task[n]["handler"].total)
    /\ PublishSubscriptionCount(n, len[n], At(n, "handler") = "withheld")
    /\ Goto(n, "handler", "sending", 0)
    /\ UNCHANGED <<alive, len, pending, wire, counts, latest, noted, outages, gap, vacated, calm>>

\* The message goes on the queue to the peers; then the lock is released.
EnqueueCount(n) ==
    /\ At(n, "handler") = "sending"
    /\ Send(n, Head(outbox[n]))
    /\ outbox' = [outbox EXCEPT ![n] = <<>>]
    /\ Goto(n, "handler", "idle", 0)
    /\ UNCHANGED <<alive, len, drawn, pending, counts, latest, noted, shown, outages, gap, crossed, vacated, calm>>

(***************************************************************************)
(* The count snapshot: draw a number, read the length, publish             *)
(***************************************************************************)

CountSnapshotDraw(n) ==
    /\ n \in alive
    /\ pending[n] = NotPending
    /\ MayNumber
    /\ drawn' = [drawn EXCEPT ![n] = @ + 1]
    /\ pending' = [pending EXCEPT ![n] = [step |-> "drawn", seq |-> drawn[n] + 1, count |-> 0]]
    /\ UNCHANGED <<alive, len, outbox, wire, counts, latest, noted, task, shown, outages, gap, crossed, vacated, calm>>

\* Read without the lock: after a leave and before its occupied_on_peers, the
\* snapshot may tell a peer of an end that this server has yet to judge.
CountSnapshotCapture(n) ==
    /\ pending[n].step = "drawn"
    /\ pending' = [pending EXCEPT ![n].step = "captured", ![n].count = len[n]]
    /\ calm' = (calm /\ At(n, "handler") # "emptied")
    /\ UNCHANGED <<alive, len, drawn, outbox, wire, counts, latest, noted, task, shown, outages, gap, crossed, vacated>>

\* Also sent when the channel is empty: peers drop what it omits.
CountSnapshotSend(n) ==
    /\ pending[n].step = "captured"
    /\ PublishChannelCountSnapshot(n)
    /\ pending' = [pending EXCEPT ![n] = NotPending]
    /\ UNCHANGED <<alive, len, drawn, outbox, counts, latest, noted, task, shown, outages, gap, crossed, vacated, calm>>

(***************************************************************************)
(* The bus consumer                                                        *)
(***************************************************************************)

\* Mutant of AcceptCount: every message is applied.
AcceptAllCounts(n, m, s) == TRUE

\* accept_seq
AcceptCount(n, m, s) == s > latest[n][m]

Receive(m, n, type) ==
    LET msg == Head(wire[m][n]) IN
    /\ wire[m][n] # <<>>
    /\ msg.type = type
    /\ n \in alive
    /\ At(n, "bus") = "idle"
    /\ wire' = [wire EXCEPT ![m][n] = Tail(@)]
    /\ latest' = [latest EXCEPT ![n][m] = IF AcceptCount(n, m, msg.seq) THEN msg.seq ELSE @]

LowerReports(n, m) == n < m

\* The withheld flag that n waits for, or is about to, is dropped with a count
\* that a later snapshot has overtaken.
FlagRefused(n, m, msg) ==
    msg.withheld /\ LowerReports(n, m) /\ (noted[n] \/ At(n, "handler") = "withholding")

\* apply_remote_subscription_count
ApplySubscriptionCount(m, n) ==
    LET msg == Head(wire[m][n]) IN
        /\ Receive(m, n, "count")
        /\ IF AcceptCount(n, m, msg.seq)
           THEN /\ counts' = [counts EXCEPT ![n] = SetCount(@, m, msg.count)]
                /\ Goto(n, "bus", IF msg.count = 0 /\ msg.withheld /\ LowerReports(n, m) THEN "ended" ELSE "set", 0)
           ELSE UNCHANGED <<counts, task>>
        /\ calm' = (calm /\ (AcceptCount(n, m, msg.seq) \/ ~FlagRefused(n, m, msg)))
        /\ UNCHANGED <<alive, len, drawn, outbox, pending, noted, shown, outages, gap, crossed, vacated>>

\* Both nodes left at once: is nobody left?  Read without the lock.
BusCheckEmpty(n) ==
    /\ At(n, "bus") = "ended"
    /\ Goto(n, "bus", IF len[n] = 0 /\ ~OccupiedOnPeers(n) THEN "claim" ELSE "set", 0)
    /\ UNCHANGED <<alive, len, drawn, outbox, pending, wire, counts, latest, noted, shown, outages, gap, crossed, vacated, calm>>

\* claim_withheld, report_transition; too early if n has yet to make its note.
BusClaim(n) ==
    /\ At(n, "bus") = "claim"
    /\ noted' = [noted EXCEPT ![n] = FALSE]
    /\ calm' = (calm /\ At(n, "handler") # "withholding")
    /\ CountReport(noted[n])
    /\ Goto(n, "bus", "set", 0)
    /\ UNCHANGED <<alive, len, drawn, outbox, pending, wire, counts, latest, shown, outages, gap, crossed>>

\* The total is read, and broadcast in a later step, without the lock.
BusReadTotal(n) ==
    /\ At(n, "bus") = "set"
    /\ IF len[n] = 0 THEN Goto(n, "bus", "idle", 0) ELSE Goto(n, "bus", "emit", Total(n))
    /\ UNCHANGED <<alive, len, drawn, outbox, pending, wire, counts, latest, noted, shown, outages, gap, crossed, vacated, calm>>

EmitTotal(n, t) ==
    /\ At(n, t) = "emit"
    /\ BroadcastTotal(n, task[n][t].total)
    /\ Goto(n, t, "idle", 0)
    /\ UNCHANGED <<alive, len, drawn, outbox, pending, wire, counts, latest, noted, outages, gap, vacated, calm>>

\* Mutant of Affected: only the channels that the snapshot lists.
AffectedListed(listed, dropped) == listed

\* The channels whose total is sent again.
Affected(listed, dropped) == listed \/ dropped

\* apply_remote_channel_count_snapshot: a count of zero is an omitted channel.
ApplyCountSnapshot(m, n) ==
    LET msg == Head(wire[m][n])
        accepted == AcceptCount(n, m, msg.seq)
        listed == msg.count > 0
        dropped == ~listed /\ counts[n][m].age # "none" /\ accepted
    IN  /\ Receive(m, n, "snapshot")
        /\ counts' = [counts EXCEPT ![n] =
               IF listed /\ accepted THEN SetCount(@, m, msg.count)
               ELSE IF listed THEN TouchCount(@, m)
               ELSE IF dropped THEN [@ EXCEPT ![m] = NoCount]
               ELSE @]
        /\ gap' = IF accepted /\ msg.seq > gap[n][m] THEN [gap EXCEPT ![n][m] = 0] ELSE gap
        /\ Goto(n, "bus", IF Affected(listed, dropped) THEN "relock" ELSE "idle", 0)
        /\ UNCHANGED <<alive, len, drawn, outbox, pending, noted, shown, outages, crossed, vacated, calm>>

\* The snapshot's total is read and broadcast under the transition lock.
BusReemit(n) ==
    /\ At(n, "bus") = "relock"
    /\ At(n, "handler") = "idle"
    /\ BroadcastTotal(n, Total(n))
    /\ Goto(n, "bus", "idle", 0)
    /\ UNCHANGED <<alive, len, drawn, outbox, pending, wire, counts, latest, noted, outages, gap, vacated, calm>>

(***************************************************************************)
(* Expiry and step 2 of the GC pass                                        *)
(***************************************************************************)

ExpireCount(n, m) ==
    /\ n \in alive
    /\ counts[n][m].age = "live"
    /\ wire[m][n] = <<>> /\ outbox[m] = <<>> /\ pending[m] = NotPending
    /\ task[n]["bus"] = AtRest /\ task[n]["gc"] = AtRest
    /\ m \notin alive \/ gap[n][m] > 0
    /\ counts' = [counts EXCEPT ![n][m].age = "stale"]
    /\ UNCHANGED <<alive, len, drawn, outbox, pending, wire, latest, noted, task, shown, outages, gap, crossed, vacated, calm>>

\* PeerChannelCounts::gc_expired
ReapCounts(c) == [m \in Server |-> IF c[m].age = "stale" THEN NoCount ELSE c[m]]

\* The leader reports a channel that a vanished peer has left empty; whether
\* a lower node still counts as a live peer is left open.
GcCounts(n) ==
    LET stale == {m \in Server : counts[n][m].age = "stale"}
        left == ReapCounts(counts[n])
    IN  /\ n \in alive
        /\ At(n, "gc") = "idle"
        /\ stale # {}
        /\ counts' = [counts EXCEPT ![n] = left]
        /\ \E leader \in {TRUE} \cup {FALSE : m \in {x \in Server : x < n}} :
               vacated' = IF /\ leader /\ PeerSum(left) = 0 /\ \A m \in Server : len[m] = 0
                             /\ \E m \in stale : counts[n][m].count > 0
                          THEN vacated + 1 ELSE vacated
        /\ Goto(n, "gc", IF len[n] = 0 THEN "idle" ELSE "emit", len[n] + PeerSum(left))
        /\ UNCHANGED <<alive, len, drawn, outbox, pending, wire, latest, noted, shown, outages, gap, crossed, calm>>

\* WITHHELD_WINDOW has passed: longer than any message takes.
ForgetNoted(n) ==
    /\ n \in alive
    /\ noted[n]
    /\ BusIsQuiet
    /\ noted' = [noted EXCEPT ![n] = FALSE]
    /\ UNCHANGED <<alive, len, drawn, outbox, pending, wire, counts, latest, task, shown, outages, gap, crossed, vacated, calm>>

(***************************************************************************)
(* Faults                                                                  *)
(***************************************************************************)

LoseCount(m, n) ==
    /\ outages < MaxOutages
    /\ wire[m][n] # <<>>
    /\ outages' = outages + 1
    /\ wire' = [wire EXCEPT ![m][n] = Tail(@)]
    /\ gap' = [gap EXCEPT ![n][m] = IF Head(wire[m][n]).seq > @ THEN Head(wire[m][n]).seq ELSE @]
    /\ UNCHANGED <<alive, len, drawn, outbox, pending, counts, latest, noted, task, shown, crossed, vacated, calm>>

CrashServer(n) ==
    /\ n \in alive
    /\ outages < MaxOutages
    /\ outages' = outages + 1
    /\ alive' = alive \ {n}
    /\ len' = [len EXCEPT ![n] = 0]
    /\ outbox' = [outbox EXCEPT ![n] = <<>>]
    /\ pending' = [pending EXCEPT ![n] = NotPending]
    /\ wire' = [m \in Server |-> [wire[m] EXCEPT ![n] = <<>>]]
    /\ counts' = [counts EXCEPT ![n] = [m \in Server |-> NoCount]]
    /\ noted' = [noted EXCEPT ![n] = FALSE]
    /\ task' = [task EXCEPT ![n] = [t \in DOMAIN @ |-> AtRest]]
    /\ UNCHANGED <<drawn, latest, shown, gap, crossed, vacated, calm>>

CountNext ==
    \/ \E n \in Server : CountJoin(n) \/ CountLeave(n) \/ CheckPeers(n) \/ NoteWithheld(n)
    \/ \E n \in Server : ReadTotal(n) \/ AnnounceSubscriptionCount(n) \/ EnqueueCount(n)
    \/ \E n \in Server : CountSnapshotDraw(n) \/ CountSnapshotCapture(n) \/ CountSnapshotSend(n)
    \/ \E m, n \in Server : ApplySubscriptionCount(m, n) \/ ApplyCountSnapshot(m, n)
    \/ \E n \in Server : BusCheckEmpty(n) \/ BusClaim(n) \/ BusReadTotal(n) \/ BusReemit(n)
    \/ \E n \in Server, t \in {"bus", "gc"} : EmitTotal(n, t)
    \/ \E n, m \in Server : ExpireCount(n, m) \/ LoseCount(m, n)
    \/ \E n \in Server : GcCounts(n) \/ ForgetNoted(n) \/ CrashServer(n)

CountSpec == CountInit /\ [][CountNext]_countVars

(***************************************************************************)
(* Properties                                                              *)
(***************************************************************************)

UpToDate(n, m) ==
    wire[m][n] = <<>> /\ pending[m] = NotPending /\ At(m, "handler") = "idle" /\ gap[n][m] = 0

\* Counts reach the peers in the order they changed, and a snapshot captured
\* before a later change never overwrites it: a node that has all that a peer
\* sent, or a snapshot since it missed something, knows the peer's count.
CountsAreExact ==
    \A n, m \in alive : n # m /\ UpToDate(n, m) => counts[n][m].count = len[m]

\* Every change of a peer's count, however it becomes known (live, listed by a
\* snapshot, dropped by one that omits it, reaped by the GC), is followed by a
\* new total to the subscribers.  A total that was overtaken between its reading
\* and its broadcast is left out (`crossed`).  A handler that has only to enqueue
\* its count has told them.
SubscribersSeeTotal ==
    \A n \in alive :
        /\ len[n] > 0 /\ ~crossed[n]
        /\ \A t \in DOMAIN task[n] : At(n, t) \in {"idle", "sending"}
        /\ \A m \in Server : counts[n][m].age # "stale"
        => shown[n] = Total(n)

\* A channel that all leave at about the same moment, when each server knew of
\* the others' subscribers, is reported as vacated: whoever withholds the report
\* is told by the last zero on its way to it, and the lowest of them reports.
VacatedReported ==
    outages = 0 /\ calm /\ BusIsQuiet /\ (\A n \in Server : len[n] = 0) => vacated > 0

\* Of two servers that lose their last subscriber at the same moment and both
\* withhold channel_vacated exactly one reports it, once the counts have crossed
\* (note_withheld, claim_withheld, the flag on the bus).  Three orders of steps are
\* left out (`calm`), in which the code does not keep this: a snapshot overtakes the
\* count that has the flag; the flag arrives after occupied_on_peers was read and
\* before note_withheld; a snapshot is captured between the leave and its
\* occupied_on_peers, so that both servers find the channel empty and report.
VacatedOnce == VacatedReported /\ (outages = 0 /\ calm => vacated <= 1)
=============================================================================
