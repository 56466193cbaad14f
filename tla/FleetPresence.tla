--------------------------- MODULE FleetPresence ---------------------------
(***************************************************************************)
(* One presence channel across the nodes of a fleet.  A node holds its own *)
(* roster and a cache of every peer's; joins, leaves and snapshots travel  *)
(* over a bus that keeps the order of one origin and may lose messages.    *)
(*                                                                         *)
(* What happens inside one node (the channel map, the transition lock, the *)
(* outbound queues) is PresenceChannel's subject: here the work done under *)
(* one hold of the transition lock is one step, but for its end: a live    *)
(* message gets its number in that step and is put into the publisher's    *)
(* queue in a later one, because the snapshot task, which takes no lock,   *)
(* may put a snapshot with a later number there in between.                *)
(***************************************************************************)
EXTENDS Naturals, Sequences, Functions

CONSTANTS
    Node,       \* node ids, numbers because the code compares them
    Boot,       \* the nodes that run from the start; the others may start later
    User,
    MaxDraws,   \* bound on the sequence numbers drawn by all nodes together
    MaxFaults   \* bound on lost messages and crashes together

ASSUME NodesAreOrdered == Node \subseteq Nat /\ Boot \subseteq Node

VARIABLES
    up,         \* the nodes that run
    fresh,      \* the nodes that have not started yet; a restart is a new id
    roster,     \* roster[n]: users with a socket on n
    seq,        \* seq[n]: the last sequence number n has drawn
    hand,       \* hand[n]: the message that n has numbered and not yet queued
    snap,       \* snap[n]: the snapshot n's publisher task is preparing
    net,        \* net[m][n]: messages of m on their way to n, in order
    cache,      \* cache[n][m]: n's entry of m's roster
    seen,       \* seen[n]: the peers n has heard of within the TTL
    applied,    \* applied[n][m]: highest sequence number of m applied by n
    withheld,   \* withheld[n]: users, or the channel, whose webhook n withheld
    view,       \* view[n][u]: whom u's client on n believes to be present
    hook,       \* the users present, and the occupancy, by the webhooks sent
    faults,     \* messages lost and nodes crashed so far
    missed,     \* history: the last number of m that n missed, until a later snapshot
    blind,      \* history: users n's clients were not told about in time
    reports,    \* history: reports of an end since a user, or the channel, was there
    calm,       \* history: since its last join, a leave found nothing under way
    slipped     \* history: since its last join, a peer ignored a flagged leave

vars == <<up, fresh, roster, seq, hand, snap, net, cache, seen, applied, withheld,
          view, hook, faults, missed, blind, reports, calm, slipped>>

history == <<faults, missed, blind, reports, calm, slipped>>

Channel == "channel"
NoEntry == [age |-> "none", users |-> {}]
Idle == [step |-> "idle", seq |-> 0, users |-> {}]

(***************************************************************************)
(* The presence cache of a node                                            *)
(***************************************************************************)

\* The users that peers other than `o` report, past-TTL entries left out.
RemoteExcept(c, o) == UNION {c[m].users : m \in {p \in Node \ {o} : c[p].age = "live"}}
Remote(c) == UNION {c[m].users : m \in {p \in Node : c[p].age = "live"}}

\* The users of every stored entry, past their TTL or not.
Announced(c) == UNION {c[m].users : m \in Node}

\* Users that only entries past their TTL name.
Hidden(c) == Announced(c) \ Remote(c)

InsertSnapshot(c, m, users) == [c EXCEPT ![m] = [age |-> "live", users |-> users]]

AddLive(c, m, u) == [c EXCEPT ![m] = [age |-> "live", users |-> @.users \cup {u}]]

RemoveLive(c, m, u) ==
    IF c[m].age = "none" THEN c
    ELSE [c EXCEPT ![m] = [age |-> "live", users |-> @.users \ {u}]]

Touch(c, m) == IF c[m].age = "none" THEN c ELSE [c EXCEPT ![m].age = "live"]

\* The cache without its expired entries.
Reaped(c) == [m \in Node |-> IF c[m].age = "expired" THEN NoEntry ELSE c[m]]

Init ==
    /\ up = Boot
    /\ fresh = Node \ Boot
    /\ roster = [n \in Node |-> {}]
    /\ seq = [n \in Node |-> 0]
    /\ hand = [n \in Node |-> <<>>]
    /\ snap = [n \in Node |-> Idle]
    /\ net = [m \in Node |-> [n \in Node |-> <<>>]]
    /\ cache = [n \in Node |-> [m \in Node |-> NoEntry]]
    /\ seen = [n \in Node |-> {}]
    /\ applied = [n \in Node |-> [m \in Node |-> 0]]
    /\ withheld = [n \in Node |-> {}]
    /\ view = [n \in Node |-> [u \in User |-> {}]]
    /\ hook = [members |-> {}, occupied |-> FALSE]
    /\ faults = 0
    /\ missed = [n \in Node |-> [m \in Node |-> 0]]
    /\ blind = [n \in Node |-> {}]
    /\ reports = [w \in User \cup {Channel} |-> 0]
    /\ calm = {}
    /\ slipped = {}

(***************************************************************************)
(* Publishing                                                              *)
(***************************************************************************)

\* Redis hands a message to every node that is subscribed; its origin skips it.
Publish(n, msg) ==
    net' = [net EXCEPT ![n] = [m \in Node |-> IF m \in up \ {n} THEN Append(@[m], msg) ELSE @[m]]]

NextSeq(n) == seq[n] + 1

MayDraw == FoldFunction(+, 0, seq) < MaxDraws

\* spawn_publish of a live message draws its number first.
Number(n, msg) ==
    /\ seq' = [seq EXCEPT ![n] = NextSeq(n)]
    /\ hand' = [hand EXCEPT ![n] = <<msg>>]

PublishMemberAdded(n, u) ==
    Number(n, [type |-> "added", seq |-> NextSeq(n), users |-> {u}, hook |-> FALSE, vacated |-> FALSE])

PublishMemberRemoved(n, u, hookWithheld, vacatedWithheld) ==
    Number(n, [type |-> "removed", seq |-> NextSeq(n), users |-> {u},
               hook |-> hookWithheld, vacated |-> vacatedWithheld])

PublishPresenceSnapshot(n, s, users) ==
    Publish(n, [type |-> "snapshot", seq |-> s, users |-> users, hook |-> FALSE, vacated |-> FALSE])

\* Frames to the local members of n: `gone` leave and `come` enter their view.
Tell(n, members, gone, come) ==
    [u \in User |-> IF u \in members THEN (view[n][u] \ gone) \cup come ELSE view[n][u]]

(***************************************************************************)
(* Joins and leaves of a user's first and last socket on a node            *)
(***************************************************************************)

\* No handler of n holds the transition lock.
Unlocked(n) == hand[n] = <<>>

\* The webhooks of a join: of the user and of the channel, each only if no
\* peer is known to have reported it.  (Whether a peer has the channel is read
\* just before the lock is taken.)
JoinHooks(n, u) ==
    [members |-> IF u \in Remote(cache[n]) THEN hook.members ELSE hook.members \cup {u},
     occupied |-> hook.occupied \/ (roster[n] = {} /\ Remote(cache[n]) = {})]

Join(n, u) ==
    /\ n \in up
    /\ Unlocked(n)
    /\ u \notin roster[n]
    /\ MayDraw
    /\ LET remote == Remote(cache[n])
           come == IF u \in remote THEN {} ELSE {u}
       IN  /\ roster' = [roster EXCEPT ![n] = @ \cup {u}]
           /\ view' = [view EXCEPT ![n] =
                  [Tell(n, roster[n], {}, come) EXCEPT ![u] = roster[n] \cup {u} \cup remote]]
           /\ hook' = JoinHooks(n, u)
           /\ blind' = [blind EXCEPT ![n] = @ \cup Hidden(cache[n])]
    /\ PublishMemberAdded(n, u)
    /\ reports' = [reports EXCEPT ![u] = 0, ![Channel] = 0]
    /\ calm' = calm \ {u, Channel}
    /\ slipped' = slipped \ {u, Channel}
    /\ UNCHANGED <<up, fresh, snap, net, cache, seen, applied, withheld, faults, missed>>

\* The reports of an end that really is one, counted.
Reported(ends, r) ==
    [w \in DOMAIN reports |->
        IF w \in ends /\ (\A n \in Node : IF w = Channel THEN r[n] = {} ELSE w \notin r[n])
        THEN reports[w] + 1 ELSE reports[w]]

\* What a leaving node does not report because a peer still looks present.
Withhold(n, u) ==
    (IF u \in Remote(cache[n]) THEN {u} ELSE {})
        \cup (IF roster[n] = {u} /\ Remote(cache[n]) # {} THEN {Channel} ELSE {})

\* Nothing that m said is on its way to n.
Heard(n, m) == net[m][n] = <<>> /\ hand[m] = <<>>

\* n has all that m has said.
Caught(n, m) == Heard(n, m) /\ snap[m].step = "idle" /\ missed[n][m] = 0

\* Every node has heard the others out, and none has withheld the end of w.
NothingUnderWay(w) == \A n \in up : w \notin withheld[n] /\ \A m \in up \ {n} : Caught(n, m)

Leave(n, u) ==
    /\ n \in up
    /\ Unlocked(n)
    /\ u \in roster[n]
    /\ MayDraw
    /\ LET held == Withhold(n, u)
           stay == roster[n] \ {u}
           gone == {u} \ Remote(cache[n])
       IN  /\ roster' = [roster EXCEPT ![n] = stay]
           /\ view' = [view EXCEPT ![n] = [Tell(n, stay, gone, {}) EXCEPT ![u] = {}]]
           /\ withheld' = [withheld EXCEPT ![n] = @ \cup held]
           /\ calm' = calm \cup {w \in {u, Channel} : NothingUnderWay(w)}
           /\ hook' = [members |-> hook.members \ ({u} \ held),
                       occupied |-> hook.occupied /\ (stay # {} \/ Channel \in held)]
           /\ reports' = Reported(({u} \cup (IF stay = {} THEN {Channel} ELSE {})) \ held, roster')
           /\ blind' = [blind EXCEPT ![n] = IF stay = {} THEN {} ELSE @ \cup ({u} \cap Hidden(cache[n]))]
           /\ PublishMemberRemoved(n, u, u \in held, Channel \in held)
    /\ UNCHANGED <<up, fresh, snap, net, cache, seen, applied, faults, missed, slipped>>

\* spawn_publish, the end: into the queue; then the lock is released.
Enqueue(n) ==
    /\ hand[n] # <<>>
    /\ Publish(n, Head(hand[n]))
    /\ hand' = [hand EXCEPT ![n] = <<>>]
    /\ UNCHANGED <<up, fresh, roster, seq, snap, cache, seen, applied, withheld, view, hook, history>>

(***************************************************************************)
(* The periodic snapshot: draw a number, read the roster, publish          *)
(***************************************************************************)

SnapshotDraw(n) ==
    /\ n \in up
    /\ snap[n].step = "idle"
    /\ MayDraw
    /\ seq' = [seq EXCEPT ![n] = NextSeq(n)]
    /\ snap' = [snap EXCEPT ![n] = [step |-> "drawn", seq |-> NextSeq(n), users |-> {}]]
    /\ UNCHANGED <<up, fresh, roster, hand, net, cache, seen, applied, withheld, view, hook, history>>

\* An empty roster is not published.
SnapshotCapture(n) ==
    /\ snap[n].step = "drawn"
    /\ snap' = [snap EXCEPT ![n] =
           IF roster[n] = {} THEN Idle ELSE [@ EXCEPT !.step = "captured", !.users = roster[n]]]
    /\ UNCHANGED <<up, fresh, roster, seq, hand, net, cache, seen, applied, withheld, view, hook, history>>

SnapshotSend(n) ==
    /\ snap[n].step = "captured"
    /\ PublishPresenceSnapshot(n, snap[n].seq, snap[n].users)
    /\ snap' = [snap EXCEPT ![n] = Idle]
    /\ UNCHANGED <<up, fresh, roster, seq, hand, cache, seen, applied, withheld, view, hook, history>>

(***************************************************************************)
(* The bus consumer                                                        *)
(***************************************************************************)

\* Mutant of AcceptSeq: every message is applied.
AcceptAny(n, m, s) == TRUE

AcceptSeq(n, m, s) == s > applied[n][m]

\* Local members are told only what changes the fleet's roster for them.
ApplyMemberAdded(n, m, u) ==
    /\ cache' = [cache EXCEPT ![n] = AddLive(@, m, u)]
    /\ view' = [view EXCEPT ![n] =
           Tell(n, roster[n], {}, {u} \ (roster[n] \cup RemoteExcept(cache[n], m)))]
    /\ UNCHANGED <<withheld, hook, blind, reports>>

\* Mutant of TieBreak: both nodes think it is theirs to report.
TieBreakNone(n, m) == TRUE

\* Of two nodes that both withheld a webhook the lower id reports it.
TieBreak(n, m) == n < m

\* What n reports on behalf of the fleet after m's leave of u.
Claimed(n, m, u, msg, c) ==
    {w \in withheld[n] :
        /\ TieBreak(n, m)
        /\ \/ w = u /\ msg.hook /\ u \notin roster[n] \cup Remote(c)
           \/ w = Channel /\ msg.vacated /\ roster[n] \cup Remote(c) = {}}

ApplyMemberRemoved(n, m, u, msg) ==
    LET c == RemoveLive(cache[n], m, u)
        gone == {u} \ (roster[n] \cup Remote(c))
        claimed == Claimed(n, m, u, msg, c)
    IN  /\ cache' = [cache EXCEPT ![n] = c]
        /\ view' = [view EXCEPT ![n] = Tell(n, roster[n], gone, {})]
        /\ withheld' = [withheld EXCEPT ![n] = @ \ claimed]
        /\ hook' = [members |-> hook.members \ claimed,
                    occupied |-> hook.occupied /\ Channel \notin claimed]
        /\ blind' = [blind EXCEPT ![n] = @ \cup (gone \cap Hidden(c))]
        /\ reports' = Reported(claimed, roster)

\* The difference is taken between all stored rosters, so that what a client
\* was told is what is compared.
ApplyPresenceSnapshot(n, m, users) ==
    LET c == InsertSnapshot(cache[n], m, users)
        before == Announced(cache[n])
        after == Announced(c)
    IN  /\ cache' = [cache EXCEPT ![n] = c]
        /\ view' = [view EXCEPT ![n] =
               Tell(n, roster[n], (before \ after) \ roster[n], (after \ before) \ roster[n])]
        /\ UNCHANGED <<withheld, hook, blind, reports>>

\* The ends that a leave says its node withheld.
Flagged(msg) == (IF msg.hook THEN msg.users ELSE {}) \cup (IF msg.vacated THEN {Channel} ELSE {})

\* handle_incoming on n for the next message of m, under the transition lock.
Deliver(m, n) ==
    /\ n \in up
    /\ Unlocked(n)
    /\ net[m][n] # <<>>
    /\ LET msg == Head(net[m][n])
           u == CHOOSE x \in msg.users : TRUE
       IN  IF AcceptSeq(n, m, msg.seq)
           THEN /\ applied' = [applied EXCEPT ![n][m] = msg.seq]
                /\ \/ msg.type = "added" /\ ApplyMemberAdded(n, m, u)
                   \/ msg.type = "removed" /\ ApplyMemberRemoved(n, m, u, msg)
                   \/ msg.type = "snapshot" /\ ApplyPresenceSnapshot(n, m, msg.users)
                /\ missed' = IF msg.type = "snapshot" /\ msg.seq > missed[n][m]
                             THEN [missed EXCEPT ![n][m] = 0] ELSE missed
                /\ UNCHANGED slipped
           ELSE /\ slipped' = slipped \cup Flagged(msg)
                /\ cache' = IF msg.type = "snapshot" THEN [cache EXCEPT ![n] = Touch(@, m)] ELSE cache
                /\ UNCHANGED <<applied, withheld, view, hook, missed, blind, reports>>
    /\ net' = [net EXCEPT ![m][n] = Tail(@)]
    /\ seen' = [seen EXCEPT ![n] = @ \cup {m}]
    /\ UNCHANGED <<up, fresh, roster, seq, hand, snap, faults, calm>>

(***************************************************************************)
(* Time: expiry, the GC pass, forgetting                                   *)
(***************************************************************************)

\* A peer is silent for longer than the TTL if it is down, if what it sent
\* was lost, or if it has nobody to report.
Silent(n, m) == Heard(n, m) /\ snap[m] = Idle /\ (m \notin up \/ (faults > 0 /\ missed[n][m] > 0))

Expire(n, m) ==
    /\ n \in up
    /\ cache[n][m].age = "live"
    /\ Silent(n, m) \/ (roster[m] = {} /\ Heard(n, m))
    /\ cache' = [cache EXCEPT ![n][m].age = "expired"]
    /\ UNCHANGED <<up, fresh, roster, seq, hand, snap, net, seen, applied, withheld, view, hook, history>>

\* Any other message of m, such as the count snapshot that it always sends.
Heartbeat(m, n) ==
    /\ {m, n} \subseteq up
    /\ m # n
    /\ seen' = [seen EXCEPT ![n] = @ \cup {m}]
    /\ UNCHANGED <<up, fresh, roster, seq, hand, snap, net, cache, applied, withheld, view, hook, history>>

\* peers_seen is refreshed by every message, so it lapses last.
ForgetPeer(n, m) ==
    /\ n \in up
    /\ m \in seen[n]
    /\ Silent(n, m)
    /\ cache[n][m].age # "live"
    /\ seen' = [seen EXCEPT ![n] = @ \ {m}]
    /\ UNCHANGED <<up, fresh, roster, seq, hand, snap, net, cache, applied, withheld, view, hook, history>>

IsFleetLeader(n) == \A m \in seen[n] : m > n

\* Mutant of GcGone: users with a socket here are announced as gone as well.
GcGoneAll(n, c) == Announced(cache[n]) \ Announced(c)

\* The users that the pass announces as gone.
GcGone(n, c) == (Announced(cache[n]) \ Announced(c)) \ roster[n]

\* Step 1 of the GC pass.  Without a local channel nothing is announced or
\* reported.  Sequence numbers of peers long silent are dropped as well.
GcPass(n) ==
    /\ n \in up
    /\ Unlocked(n)
    /\ \E m \in Node : cache[n][m].age = "expired"
    /\ LET c == Reaped(cache[n])
           gone == IF roster[n] = {} THEN {} ELSE GcGone(n, c)
           reported == IF IsFleetLeader(n) THEN gone ELSE {}
       IN  /\ cache' = [cache EXCEPT ![n] = c]
           /\ view' = [view EXCEPT ![n] = Tell(n, roster[n], gone, {})]
           /\ hook' = [hook EXCEPT !.members = @ \ reported]
           /\ blind' = [blind EXCEPT ![n] = @ \cap (Announced(c) \cup roster[n])]
           /\ reports' = Reported(reported, roster)
    /\ applied' = [applied EXCEPT ![n] =
           [m \in Node |-> IF Silent(n, m) /\ m \notin seen[n] THEN 0 ELSE @[m]]]
    /\ UNCHANGED <<up, fresh, roster, seq, hand, snap, net, seen, withheld, faults, missed, calm, slipped>>

\* WITHHELD_WINDOW has passed: longer than any message takes.
ForgetWithheld(n) ==
    /\ n \in up
    /\ withheld[n] # {}
    /\ \A l, m \in Node : Heard(m, l)
    /\ withheld' = [withheld EXCEPT ![n] = {}]
    /\ UNCHANGED <<up, fresh, roster, seq, hand, snap, net, cache, seen, applied, view, hook, history>>

(***************************************************************************)
(* Faults                                                                  *)
(***************************************************************************)

\* A message does not reach one node: dropped by the publisher's queue, by
\* Redis while n is disconnected, or by n's lagging receiver.
Lose(m, n) ==
    /\ faults < MaxFaults
    /\ net[m][n] # <<>>
    /\ net' = [net EXCEPT ![m][n] = Tail(@)]
    /\ missed' = [missed EXCEPT ![n][m] = IF Head(net[m][n]).seq > @ THEN Head(net[m][n]).seq ELSE @]
    /\ faults' = faults + 1
    /\ UNCHANGED <<up, fresh, roster, seq, hand, snap, cache, seen, applied, withheld, view, hook, blind, reports, calm, slipped>>

\* What is on the bus arrives, what is on its way to n, or in its hand, is lost.
Crash(n) ==
    /\ n \in up
    /\ faults < MaxFaults
    /\ faults' = faults + 1
    /\ up' = up \ {n}
    /\ roster' = [roster EXCEPT ![n] = {}]
    /\ hand' = [hand EXCEPT ![n] = <<>>]
    /\ snap' = [snap EXCEPT ![n] = Idle]
    /\ net' = [m \in Node |-> [net[m] EXCEPT ![n] = <<>>]]
    /\ cache' = [cache EXCEPT ![n] = [m \in Node |-> NoEntry]]
    /\ seen' = [seen EXCEPT ![n] = {}]
    /\ applied' = [applied EXCEPT ![n] = [m \in Node |-> 0]]
    /\ withheld' = [withheld EXCEPT ![n] = {}]
    /\ view' = [view EXCEPT ![n] = [u \in User |-> {}]]
    /\ missed' = [missed EXCEPT ![n] = [m \in Node |-> 0]]
    /\ blind' = [blind EXCEPT ![n] = {}]
    /\ UNCHANGED <<fresh, seq, hook, reports, calm, slipped>>

\* A node joins the fleet, or comes back under a new id, knowing nothing.
Start(n) ==
    /\ n \in fresh
    /\ up' = up \cup {n}
    /\ fresh' = fresh \ {n}
    /\ missed' = [missed EXCEPT ![n] = seq]
    /\ UNCHANGED <<roster, seq, hand, snap, net, cache, seen, applied, withheld, view, hook, faults, blind,
                   reports, calm, slipped>>

\* What the publishing side of a node does, and what happens to nodes.
Publishing ==
    \/ \E n \in Node : Enqueue(n) \/ SnapshotDraw(n) \/ SnapshotCapture(n) \/ SnapshotSend(n)
    \/ \E n \in Node : Crash(n) \/ Start(n)

\* When a peer was last heard of.
Hearing == \E m, n \in Node : Heartbeat(m, n) \/ ForgetPeer(n, m)

\* Joins and leaves, the bus consumer, expiry and the GC.
Changing ==
    \/ \E n \in Node, u \in User : Join(n, u) \/ Leave(n, u)
    \/ \E m, n \in Node : Deliver(m, n) \/ Lose(m, n) \/ Expire(n, m)
    \/ \E n \in Node : GcPass(n) \/ ForgetWithheld(n)

Next == Publishing \/ Hearing \/ Changing

Spec == Init /\ [][Next]_vars

(***************************************************************************)
(* Properties                                                              *)
(***************************************************************************)

Fleet == UNION {roster[n] : n \in up}

\* Whatever was lost, delayed or overtaken: once a node has applied a snapshot
\* of a peer and all that followed it, its cache of that peer is the peer's
\* roster.  A snapshot captured before a join or leave that overtook it must
\* not undo it (accept_seq, the sequence drawn before the capture).
CacheIsExact ==
    \A n, m \in up : n # m /\ Caught(n, m) => cache[n][m].users = roster[m]

\* When a node has all that its peers have said, and nothing is left of nodes
\* that are gone, its clients see exactly the users of the fleet, however the
\* news came (live, by snapshot, by the GC).  Users that a client could not be
\* told of because their entry was past its TTL are left out, see `blind`.
ViewIsFleet ==
    \A n \in up :
        /\ \A m \in up \ {n} : Caught(n, m)
        /\ \A m \in Node \ up : cache[n][m] = NoEntry /\ Heard(n, m)
        => \A u \in roster[n] : view[n][u] \ blind[n] = Fleet \ blind[n]

Quiet == \A m, n \in Node : Heard(n, m)

\* w is a user that is nowhere, or the channel and nobody is anywhere.
Ended(w) == IF w = Channel THEN Fleet = {} ELSE w \notin Fleet

\* Two nodes leave at the same moment and each withholds its webhook because
\* the other still looks present: exactly one of the two reports the end, once
\* their messages have crossed (note_withheld, claim_withheld, the tie-break).
\* The fleet was at rest when the leaving began, and no peer ignored a leave
\* because a snapshot with a later number had overtaken it (`slipped`).
ExactlyOneReports ==
    faults = 0 => \A w \in calm \ slipped :
        /\ reports[w] <= 1
        /\ Quiet /\ Ended(w) => reports[w] = 1

\* The same end without that exception, as leave_channel has it: "if both leave
\* at once - the flags on the bus let exactly one of them report it".
OneOfThemReports ==
    faults = 0 => \A w \in calm : Quiet /\ Ended(w) => reports[w] > 0

\* With no message lost, once the bus is quiet and the survivors of a crash have
\* dropped what the crashed node held, every end has been reported.
EndsAreReported ==
    /\ Quiet
    /\ up # {}
    /\ \A n \in up, m \in Node : missed[n][m] = 0 /\ (m \in up \/ cache[n][m].age = "none")
    => hook.members \subseteq Fleet /\ (hook.occupied => Fleet # {})
=============================================================================
