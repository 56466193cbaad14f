--------------------------- MODULE PresenceChannel ---------------------------
(***************************************************************************)
(* One presence channel of one app on one node: the entry of the           *)
(* channel map (ChannelManager), the channel object behind it (Channel),   *)
(* the roster cached for every peer node (PresenceCache), and the tasks    *)
(* that work on them concurrently:                                         *)
(*   - one connection task per socket (subscribe, unsubscribe, cleanup);   *)
(*   - the bus consumer, which applies what peers publish;                 *)
(*   - the periodic GC, which drops the rosters of silent peers.           *)
(* Each action is one stretch of code between two points where another     *)
(* task can get in: taking the map entry, taking the channel's transition  *)
(* lock, or leaving them.                                                  *)
(*                                                                         *)
(* Channel objects are reference counted (Arc<Channel>): a task can hold   *)
(* an object that the map has already dropped, so the model has a set      *)
(* Objects of allocations, and an allocation is reused once neither the    *)
(* map nor a task refers to it.                                            *)
(*                                                                         *)
(* Left out: the webhooks of the same handlers, which feed back into       *)
(* nothing here; request validation and authentication, which return       *)
(* before any state changes; the time between a peer roster passing its    *)
(* TTL and the GC pass that reaps it; the cached payload of a              *)
(* presence-cache- channel, which keeps an empty channel in the map.       *)
(***************************************************************************)
EXTENDS Integers, Sequences, FiniteSets

CONSTANTS
    Sockets,             \* connections of this node
    Users,               \* presence user ids
    JoinAs,              \* per socket: the user ids it subscribes with
    Peers,               \* other nodes of the fleet
    SilentPeers,         \* those that may go silent for longer than the TTL
    PeerUsers,           \* the users that peers' messages name
    Objects,             \* allocations of Channel
    None,                \* no user, no object, no lock holder
    MaxPresenceMembers,  \* app.max_presence_members_per_channel
    OutboundCapacity     \* capacity of a connection's outbound queue

Tasks == Sockets \union {"bus", "gc"}

ASSUME ConstantsAreSane ==
    /\ IsFiniteSet(Sockets) /\ IsFiniteSet(Users)
    /\ JoinAs \in [Sockets -> SUBSET Users]
    /\ SilentPeers \subseteq Peers /\ PeerUsers \subseteq Users
    /\ None \notin Users \union Objects \union Tasks
    /\ "bus" \notin Sockets /\ "gc" \notin Sockets
    /\ MaxPresenceMembers \in Nat
    /\ OutboundCapacity \in Nat \ {0}

VARIABLES
    chan,        \* the object the channel map holds for this name, or None
    entryLock,   \* the socket that holds the map entry across subscribe_with
    transLock,   \* per object: the task inside with_transition
    members,     \* per object: the user each member socket joined with
    refs,        \* per object: Channel.user_refcounts (0: no entry)
    cache,       \* PresenceCache: the roster of every peer
    pc,          \* where each task is
    obj,         \* the object each task holds a reference to
    join,        \* what a connection task remembers inside one handler
    subscribed,  \* sockets whose Connection lists the channel
    closing,     \* sockets inside cleanup_connection
    kicked,      \* sockets whose kick signal is set
    queue,       \* per socket: outbound frames not yet written
    view,        \* per socket: the roster its client believes in
    event,       \* the envelope the bus consumer is applying
    diff,        \* member frames a presence snapshot still has to emit
    expired,     \* <<peer, user>> the GC pass dropped and has not announced
    busRoster,   \* users whose last presence message on the bus was an add
    tainted,     \* history: sockets whose roster missed an update
    late         \* history: users whose last presence message on the bus was
                 \* published from an object the map had dropped

chanVars == <<members, refs>>
connVars == <<subscribed, closing>>
outVars  == <<queue, kicked>>
peerVars == <<cache, event, diff, expired>>
histVars == <<tainted, late>>
vars == <<chan, entryLock, transLock, chanVars, pc, obj, join, connVars,
          outVars, view, peerVars, busRoster, histVars>>

Frames == [kind : {"added", "removed"}, user : Users]

\* What peers publish about this channel. An empty roster is never
\* published as a snapshot.
Events == [kind : {"added", "removed"}, peer : Peers, user : PeerUsers]
          \union [kind : {"snapshot"}, peer : Peers, users : SUBSET PeerUsers \ {{}}]

\* Where a task can be.
Labels == {"idle", "sub_lock", "admit", "subscribe", "announce", "leave_lock",
           "unsubscribe", "announce_leave", "reap", "close", "bus_lock", "apply", "diff",
           "gc_lock", "gc_decide"}

\* What handle_subscribe and leave_channel keep in locals: the user, the
\* peers' users and whether the user is among them, and whether the socket
\* was the user's first or last.
Joins == [user : Users \union {None}, remote : SUBSET Users, present : BOOLEAN,
          changed : BOOLEAN]

NoMembers == [s \in Sockets |-> None]
NoRefs == [u \in Users |-> 0]
NoJoin == [user |-> None, remote |-> {}, present |-> FALSE, changed |-> FALSE]

LocalUsers(o) == {u \in Users : refs[o][u] > 0}
IsMember(o, s) == members[o][s] # None
IsEmpty(o) == \A s \in Sockets : ~IsMember(o, s)
RemoteUsers == UNION {cache[p] : p \in Peers}

Init ==
    /\ chan = None /\ entryLock = None
    /\ transLock = [o \in Objects |-> None]
    /\ members = [o \in Objects |-> NoMembers]
    /\ refs = [o \in Objects |-> NoRefs]
    /\ cache = [p \in Peers |-> {}]
    /\ pc = [t \in Tasks |-> "idle"]
    /\ obj = [t \in Tasks |-> None]
    /\ join = [s \in Sockets |-> NoJoin]
    /\ subscribed = {} /\ closing = {} /\ kicked = {}
    /\ queue = [s \in Sockets |-> <<>>]
    /\ view = [s \in Sockets |-> {}]
    /\ event = None /\ diff = {} /\ expired = {}
    /\ busRoster = {} /\ tainted = {} /\ late = {}

-----------------------------------------------------------------------------
(* Steps shared by the tasks. *)

Goto(t, label) == pc' = [pc EXCEPT ![t] = label]

\* An allocation nobody refers to.
Unreferenced(o) == o # chan /\ \A t \in Tasks : obj[t] # o

\* Mutant: a full queue drops the frame and nothing else.
DropOnly(full) == UNCHANGED kicked

KickAll(full) == kicked' = kicked \union full

\* Channel::send_to_members with ConnectionHandle::try_send: a full outbound
\* queue drops the frame and kicks the connection.
Broadcast(o, frame, except) ==
    LET to == {s \in Sockets : IsMember(o, s) /\ s # except}
        full == {s \in to : Len(queue[s]) >= OutboundCapacity}
    IN  /\ queue' = [s \in Sockets |-> IF s \in to \ full
                                       THEN Append(queue[s], frame)
                                       ELSE queue[s]]
        /\ KickAll(full)

Added(u) == [kind |-> "added", user |-> u]
Removed(u) == [kind |-> "removed", user |-> u]

\* Mutant: with_transition does not exclude anybody.
LockShared(t) == transLock' = [transLock EXCEPT ![obj[t]] = t]

\* Entering and leaving with_transition on the object the task refers to.
Lock(t) ==
    /\ transLock[obj[t]] = None
    /\ transLock' = [transLock EXCEPT ![obj[t]] = t]

Unlock(t) == transLock' = [transLock EXCEPT ![obj[t]] = None]

Release(t) == obj' = [obj EXCEPT ![t] = None]

\* Mutants: the entry is let go at once; the map is never tidied.
HoldNothing(s) == UNCHANGED entryLock

TidiedNever == chan

\* subscribe_with keeps the map entry until the socket is subscribed.
HoldEntry(s) == entryLock' = s

\* remove_if: whatever channel the map holds now goes if it is empty.
Tidied == IF chan # None /\ IsEmpty(chan) THEN None ELSE chan

-----------------------------------------------------------------------------
(* Connections. *)

\* The connection task writes one queued frame; a client that is subscribed
\* applies it.
Deliver(s) ==
    /\ pc[s] = "idle"
    /\ queue[s] # <<>>
    /\ queue' = [queue EXCEPT ![s] = Tail(@)]
    /\ view' = [view EXCEPT ![s] = LET f == Head(queue[s]) IN
                  IF s \notin subscribed THEN @
                  ELSE IF f.kind = "added" THEN @ \union {f.user}
                  ELSE @ \ {f.user}]
    /\ UNCHANGED <<chan, entryLock, transLock, chanVars, pc, obj, join, connVars,
                   kicked, peerVars, busRoster, histVars>>

-----------------------------------------------------------------------------
(* Joining: handle_subscribe and ChannelManager::subscribe_with. *)

\* A new Channel for the name.
Allocate(o) ==
    /\ Unreferenced(o)
    /\ chan' = o
    /\ members' = [members EXCEPT ![o] = NoMembers]
    /\ refs' = [refs EXCEPT ![o] = NoRefs]

\* Takes the map entry, creating the channel if the name has none.
HandleSubscribe(s, u) ==
    /\ pc[s] = "idle"
    /\ entryLock = None
    /\ HoldEntry(s)
    /\ \/ chan # None /\ UNCHANGED <<chan, chanVars>>
       \/ chan = None /\ \E o \in Objects : Allocate(o)
    /\ obj' = [obj EXCEPT ![s] = chan']
    /\ join' = [join EXCEPT ![s] = [NoJoin EXCEPT !.user = u]]
    /\ Goto(s, "sub_lock")
    /\ UNCHANGED <<transLock, connVars, outVars, view, peerVars, busRoster, histVars>>

SubscribeLock(s) ==
    /\ pc[s] = "sub_lock"
    /\ Lock(s)
    /\ Goto(s, "admit")
    /\ UNCHANGED <<chan, entryLock, chanVars, obj, join, connVars, outVars, view,
                   peerVars, busRoster, histVars>>

\* Mutant: one user too many.
UnderCapOffByOne(o, u) ==
    \/ u \in LocalUsers(o) \union RemoteUsers
    \/ Cardinality(LocalUsers(o)) + Cardinality(RemoteUsers \ LocalUsers(o))
         <= MaxPresenceMembers

\* The cap of the `admit` closure: distinct users here plus those only on
\* peers; a user who is already present is always let in.
UnderCap(o, u) ==
    \/ u \in LocalUsers(o) \union RemoteUsers
    \/ Cardinality(LocalUsers(o)) + Cardinality(RemoteUsers \ LocalUsers(o))
         < MaxPresenceMembers

\* The `admit` closure lets the socket in, and keeps the peers' rosters it
\* read. Frames of an earlier membership that are still queued will follow
\* the new roster: the history variable remembers it.
Admit(s) ==
    LET o == obj[s]  u == join[s].user IN
    /\ pc[s] = "admit"
    /\ UnderCap(o, u)
    /\ join' = [join EXCEPT ![s] = [@ EXCEPT !.remote = RemoteUsers,
                                             !.present = u \in RemoteUsers]]
    /\ tainted' = IF IsMember(o, s) THEN tainted
                  ELSE IF queue[s] = <<>> THEN tainted \ {s}
                  ELSE tainted \union {s}
    /\ Goto(s, "subscribe")
    /\ UNCHANGED <<chan, entryLock, transLock, chanVars, obj, connVars, outVars,
                   view, peerVars, busRoster, late>>

\* `admit` returned false: both locks are left, then the map is tidied.
Reject(s) ==
    /\ pc[s] = "admit"
    /\ ~UnderCap(obj[s], join[s].user)
    /\ Unlock(s)
    /\ entryLock' = None
    /\ Release(s)
    /\ join' = [join EXCEPT ![s] = NoJoin]
    /\ Goto(s, "reap")
    /\ UNCHANGED <<chan, chanVars, connVars, outVars, view, peerVars, busRoster,
                   histVars>>

\* Mutant: a further socket of the same user is not counted.
CountOnce(o, u) == [refs EXCEPT ![o][u] = 1]

CountUser(o, u) == [refs EXCEPT ![o][u] = @ + 1]

\* Channel::subscribe, and the roster for the reply. The reply is written
\* before the outbound queue is drained again, so what the client goes by is
\* this roster followed by the queued frames.
Subscribe(s) ==
    LET o == obj[s]  u == join[s].user  isNew == ~IsMember(o, s) IN
    /\ pc[s] = "subscribe"
    /\ members' = IF isNew THEN [members EXCEPT ![o][s] = u] ELSE members
    /\ refs' = IF isNew THEN CountUser(o, u) ELSE refs
    /\ join' = [join EXCEPT ![s] = [@ EXCEPT !.changed = isNew /\ refs[o][u] = 0]]
    /\ view' = [view EXCEPT ![s] = {v \in Users : \E t \in Sockets : members'[o][t] = v}
                                   \union join[s].remote]
    /\ Goto(s, "announce")
    /\ UNCHANGED <<chan, entryLock, transLock, obj, connVars, outVars, peerVars,
                   busRoster, histVars>>

\* The `on_subscribed` closure; then both locks are left and the connection
\* records the subscription.
AnnounceJoin(s) ==
    LET u == join[s].user IN
    /\ pc[s] = "announce"
    /\ IF join[s].changed /\ ~join[s].present
         THEN Broadcast(obj[s], Added(u), s)
         ELSE UNCHANGED outVars
    /\ IF join[s].changed
         THEN busRoster' = busRoster \union {u} /\ late' = late \ {u}
         ELSE UNCHANGED <<busRoster, late>>
    /\ Unlock(s)
    /\ entryLock' = None
    /\ Release(s)
    /\ join' = [join EXCEPT ![s] = NoJoin]
    /\ subscribed' = subscribed \union {s}
    /\ Goto(s, "idle")
    /\ UNCHANGED <<chan, chanVars, closing, view, peerVars, tainted>>

-----------------------------------------------------------------------------
(* Leaving: leave_channel and ChannelManager::unsubscribe_with. *)

\* Mutant: the map entry stays borrowed for the whole leave.
FindToLeaveBorrowed(s, otherwise) ==
    /\ entryLock = None
    /\ entryLock' = IF chan = None THEN None ELSE s
    /\ obj' = [obj EXCEPT ![s] = chan]
    /\ Goto(s, IF chan = None THEN otherwise ELSE "leave_lock")

\* Clones the channel out of the map, or returns if the name has none.
FindToLeave(s, otherwise) ==
    /\ entryLock = None
    /\ UNCHANGED entryLock
    /\ obj' = [obj EXCEPT ![s] = chan]
    /\ Goto(s, IF chan = None THEN otherwise ELSE "leave_lock")

HandleUnsubscribe(s) ==
    /\ pc[s] = "idle"
    /\ subscribed' = subscribed \ {s}
    /\ FindToLeave(s, "idle")
    /\ view' = [view EXCEPT ![s] = {}]
    /\ UNCHANGED <<chan, transLock, chanVars, join, closing, outVars, peerVars,
                   busRoster, histVars>>

\* Mutant: the connection is closed without leaving its channels.
LeavesNothing(s) == FALSE

LeavesOnClose(s) == s \in subscribed

\* The connection's loop ends; cleanup_connection leaves what it lists.
Cleanup(s) ==
    /\ pc[s] = "idle"
    /\ IF LeavesOnClose(s)
         THEN /\ FindToLeave(s, "close")
              /\ closing' = IF chan = None THEN closing ELSE closing \union {s}
         ELSE Goto(s, "close") /\ UNCHANGED <<obj, entryLock, closing>>
    /\ subscribed' = subscribed \ {s}
    /\ view' = [view EXCEPT ![s] = {}]
    /\ UNCHANGED <<chan, transLock, chanVars, join, outVars, peerVars, busRoster,
                   histVars>>

\* The client closes, a write fails, or the server shuts the socket.
Disconnect(s) == Cleanup(s)

\* Mutant: the loop does not look at the kick signal.
KickIgnored(s) == FALSE

\* The kick signal ends the loop.
Kick(s) == s \in kicked /\ Cleanup(s)

\* The connection is unregistered and its outbound queue dropped; the next
\* connection takes the slot.
Close(s) ==
    /\ pc[s] = "close"
    /\ Goto(s, "idle")
    /\ queue' = [queue EXCEPT ![s] = <<>>]
    /\ kicked' = kicked \ {s}
    /\ UNCHANGED <<chan, entryLock, transLock, chanVars, obj, join, connVars,
                   view, peerVars, busRoster, histVars>>

LeaveLock(s) ==
    /\ pc[s] = "leave_lock"
    /\ Lock(s)
    /\ Goto(s, "unsubscribe")
    /\ UNCHANGED <<chan, entryLock, chanVars, obj, join, connVars, outVars, view,
                   peerVars, busRoster, histVars>>

\* Channel::unsubscribe; a user is removed with their last socket.
Unsubscribe(s) ==
    LET o == obj[s]  u == members[o][s] IN
    /\ pc[s] = "unsubscribe"
    /\ IF IsMember(o, s)
         THEN /\ members' = [members EXCEPT ![o][s] = None]
              /\ refs' = [refs EXCEPT ![o][u] = @ - 1]
              /\ join' = [join EXCEPT ![s] = [@ EXCEPT !.user = u, !.changed = refs[o][u] = 1]]
         ELSE UNCHANGED <<chanVars, join>>
    /\ tainted' = tainted \ {s}
    /\ Goto(s, "announce_leave")
    /\ UNCHANGED <<chan, entryLock, transLock, obj, connVars, outVars, view,
                   peerVars, busRoster, late>>

\* The `on_unsubscribed` closure; then the transition lock is left.
AnnounceLeave(s) ==
    LET u == join[s].user IN
    /\ pc[s] = "announce_leave"
    /\ IF join[s].changed /\ u \notin RemoteUsers
         THEN Broadcast(obj[s], Removed(u), None)
         ELSE UNCHANGED outVars
    /\ IF join[s].changed
         THEN /\ busRoster' = busRoster \ {u}
              /\ late' = IF obj[s] = chan THEN late \ {u} ELSE late \union {u}
         ELSE UNCHANGED <<busRoster, late>>
    /\ Unlock(s)
    /\ join' = [join EXCEPT ![s] = NoJoin]
    /\ Goto(s, "reap")
    /\ UNCHANGED <<chan, entryLock, chanVars, obj, connVars, view, peerVars, tainted>>

\* The remove_if that ends unsubscribe_with and a rejected subscribe_with.
Reap(s) ==
    /\ pc[s] = "reap"
    /\ entryLock = None
    /\ chan' = Tidied
    /\ Release(s)
    /\ Goto(s, IF s \in closing THEN "close" ELSE "idle")
    /\ closing' = closing \ {s}
    /\ UNCHANGED <<entryLock, transLock, chanVars, join, subscribed, outVars, view,
                   peerVars, busRoster, histVars>>

-----------------------------------------------------------------------------
(* The bus consumer: one envelope at a time, from handle_incoming. *)

\* apply_remote_*: find_channel comes before the lock, and a name without a
\* channel is applied without any lock.
BusFind(e) ==
    /\ pc["bus"] = "idle"
    /\ entryLock = None
    /\ event' = e
    /\ obj' = [obj EXCEPT !["bus"] = chan]
    /\ Goto("bus", IF chan = None THEN "apply" ELSE "bus_lock")
    /\ UNCHANGED <<chan, entryLock, transLock, chanVars, join, connVars, outVars,
                   view, cache, diff, expired, busRoster, histVars>>

BusLock ==
    /\ pc["bus"] = "bus_lock"
    /\ Lock("bus")
    /\ Goto("bus", "apply")
    /\ UNCHANGED <<chan, entryLock, chanVars, obj, join, connVars, outVars, view,
                   peerVars, busRoster, histVars>>

BusDone ==
    /\ IF obj["bus"] = None THEN UNCHANGED transLock ELSE Unlock("bus")
    /\ Release("bus")
    /\ Goto("bus", "idle")
    /\ event' = None

HereVia(o, u) == o # None /\ u \in LocalUsers(o)

ApplyMemberAdded ==
    LET o == obj["bus"]  p == event.peer  u == event.user
        elsewhere == \E q \in Peers \ {p} : u \in cache[q]
    IN  /\ event.kind = "added"
        /\ cache' = [cache EXCEPT ![p] = @ \union {u}]
        /\ IF o # None /\ ~HereVia(o, u) /\ ~elsewhere
             THEN Broadcast(o, Added(u), None)
             ELSE UNCHANGED outVars
        /\ BusDone
        /\ UNCHANGED diff

ApplyMemberRemoved ==
    LET o == obj["bus"]  p == event.peer  u == event.user
        elsewhere == \E q \in Peers \ {p} : u \in cache[q]
    IN  /\ event.kind = "removed"
        /\ cache' = [cache EXCEPT ![p] = @ \ {u}]
        /\ IF o # None /\ ~HereVia(o, u) /\ ~elsewhere
             THEN Broadcast(o, Removed(u), None)
             ELSE UNCHANGED outVars
        /\ BusDone
        /\ UNCHANGED diff

\* Replaces the peer's roster; the frames that correct the local clients
\* are emitted one by one, under the same lock.
ApplySnapshot ==
    LET o == obj["bus"]  p == event.peer
        after == event.users \union UNION {cache[q] : q \in Peers \ {p}}
    IN  /\ event.kind = "snapshot"
        /\ cache' = [cache EXCEPT ![p] = event.users]
        /\ IF o = None
             THEN BusDone /\ UNCHANGED diff
             ELSE /\ diff' = {Removed(u) : u \in (RemoteUsers \ after) \ LocalUsers(o)}
                        \union {Added(u) : u \in (after \ RemoteUsers) \ LocalUsers(o)}
                  /\ Goto("bus", "diff")
                  /\ UNCHANGED <<transLock, obj, event>>
        /\ UNCHANGED outVars

\* Sockets that joined, or read the peers' rosters, under another object's
\* lock than the one this update is applied under.
Missed ==
    {s \in Sockets : /\ chan \notin {None, obj["bus"]}
                     /\ IsMember(chan, s) \/ pc[s] = "subscribe"}

BusApply ==
    /\ pc["bus"] = "apply"
    /\ ApplyMemberAdded \/ ApplyMemberRemoved \/ ApplySnapshot
    /\ tainted' = tainted \union Missed
    /\ UNCHANGED <<chan, entryLock, chanVars, join, connVars, view, expired, busRoster, late>>

\* The frames of a snapshot, one by one: who left, then who came.
BusDiff ==
    /\ pc["bus"] = "diff"
    /\ \E f \in diff : /\ f.kind = "added" => \A g \in diff : g.kind = "added"
                      /\ Broadcast(obj["bus"], f, None)
                      /\ diff' = diff \ {f}
    /\ UNCHANGED <<chan, entryLock, transLock, chanVars, pc, obj, join, connVars,
                   view, cache, event, expired, busRoster, histVars>>

BusDiffDone ==
    /\ pc["bus"] = "diff"
    /\ diff = {}
    /\ BusDone
    /\ UNCHANGED <<chan, entryLock, chanVars, join, connVars, outVars, view, cache,
                   diff, expired, busRoster, histVars>>

-----------------------------------------------------------------------------
(* The GC task: presence_cache_gc, step 1. *)

\* gc_expired drops the rosters of peers that went silent, without a lock.
GcExpire(silent) ==
    /\ pc["gc"] = "idle" /\ expired = {}
    /\ expired' = {x \in silent \X Users : x[2] \in cache[x[1]]}
    /\ cache' = [p \in Peers |-> IF p \in silent THEN {} ELSE cache[p]]
    /\ UNCHANGED <<chan, entryLock, transLock, chanVars, pc, obj, join, connVars,
                   outVars, view, event, diff, busRoster, histVars>>

\* The next member of the list, in any order: find_channel, or skip the member.
GcFind ==
    /\ pc["gc"] = "idle"
    /\ entryLock = None
    /\ \E x \in expired :
          IF chan = None
            THEN expired' = expired \ {x} /\ UNCHANGED <<pc, obj>>
            ELSE /\ obj' = [obj EXCEPT !["gc"] = chan]
                 /\ Goto("gc", "gc_lock")
                 /\ UNCHANGED expired
    /\ UNCHANGED <<chan, entryLock, transLock, chanVars, join, connVars, outVars,
                   view, cache, event, diff, busRoster, histVars>>

GcLock ==
    /\ pc["gc"] = "gc_lock"
    /\ Lock("gc")
    /\ Goto("gc", "gc_decide")
    /\ UNCHANGED <<chan, entryLock, chanVars, obj, join, connVars, outVars, view,
                   peerVars, busRoster, histVars>>

\* Mutant: the sockets on this node are forgotten.
GoneFromPeers(o, u) == u \notin RemoteUsers

Gone(o, u) == u \notin RemoteUsers \union LocalUsers(o)

\* Announces the member unless they are still here or on another peer.
GcDecide ==
    LET o == obj["gc"] IN
    /\ pc["gc"] = "gc_decide"
    /\ \E x \in expired :
         /\ expired' = expired \ {x}
         /\ IF Gone(o, x[2]) THEN Broadcast(o, Removed(x[2]), None)
                             ELSE UNCHANGED outVars
    /\ Unlock("gc")
    /\ Release("gc")
    /\ Goto("gc", "idle")
    /\ UNCHANGED <<chan, entryLock, chanVars, join, connVars, view, cache, event,
                   diff, busRoster, histVars>>

-----------------------------------------------------------------------------
SocketStep(s) ==
    \/ Deliver(s)
    \/ \E u \in JoinAs[s] : HandleSubscribe(s, u)
    \/ SubscribeLock(s) \/ Admit(s) \/ Reject(s) \/ Subscribe(s) \/ AnnounceJoin(s)
    \/ HandleUnsubscribe(s) \/ Disconnect(s) \/ Kick(s)
    \/ LeaveLock(s) \/ Unsubscribe(s) \/ AnnounceLeave(s) \/ Reap(s) \/ Close(s)

BusStep ==
    (\E e \in Events : BusFind(e)) \/ BusLock \/ BusApply \/ BusDiff \/ BusDiffDone

GcStep ==
    (\E silent \in SUBSET SilentPeers \ {{}} : GcExpire(silent)) \/ GcFind \/ GcLock \/ GcDecide

Next == (\E s \in Sockets : SocketStep(s)) \/ BusStep \/ GcStep

Spec == Init /\ [][Next]_vars

\* A task that is inside a handler goes on, since tokio runs every ready task,
\* and since mutexes and the map's shard locks queue their waiters a task that
\* waits for one gets it. The select loop picks among its ready branches at
\* random, so a kick signal that stays set is taken.
Proceed(s) ==
    \/ SubscribeLock(s) \/ Admit(s) \/ Reject(s) \/ Subscribe(s) \/ AnnounceJoin(s)
    \/ LeaveLock(s) \/ Unsubscribe(s) \/ AnnounceLeave(s) \/ Reap(s) \/ Close(s)

Fairness ==
    /\ \A s \in Sockets : SF_vars(Proceed(s)) /\ SF_vars(Kick(s))
    /\ SF_vars(BusLock \/ BusApply \/ BusDiff \/ BusDiffDone)
    /\ SF_vars(GcFind \/ GcLock \/ GcDecide)

FairSpec == Spec /\ Fairness

-----------------------------------------------------------------------------
(* Properties. *)

TypeOK ==
    /\ chan \in Objects \union {None}
    /\ entryLock \in Sockets \union {None}
    /\ transLock \in [Objects -> Tasks \union {None}]
    /\ members \in [Objects -> [Sockets -> Users \union {None}]]
    /\ refs \in [Objects -> [Users -> Nat]]
    /\ cache \in [Peers -> SUBSET Users]
    /\ pc \in [Tasks -> Labels]
    /\ obj \in [Tasks -> Objects \union {None}]
    /\ join \in [Sockets -> Joins]
    /\ subscribed \subseteq Sockets /\ closing \subseteq Sockets
    /\ kicked \subseteq Sockets /\ tainted \subseteq Sockets
    /\ queue \in [Sockets -> Seq(Frames)]
    /\ view \in [Sockets -> SUBSET Users]
    /\ event \in Events \union {None}
    /\ diff \subseteq Frames
    /\ expired \subseteq Peers \X Users
    /\ busRoster \subseteq Users /\ late \subseteq Users

\* A socket is only ever a member of the channel the map holds: an
\* unsubscribe or a rejected join that tidies the map can never strand a
\* member on an object that broadcasts no longer reach.
NoStrandedMembers ==
    \A o \in Objects \ {chan} : IsEmpty(o)

\* A connection that is between two requests lists the channel exactly when
\* the channel lists the connection, so that cleanup_connection leaves
\* nothing behind.
SubscriptionsMatchMembership ==
    \A s \in Sockets : pc[s] \in {"idle", "close"} =>
        (s \in subscribed <=> chan # None /\ IsMember(chan, s))

Here(u) == chan # None /\ \E s \in Sockets : members[chan][s] = u

Quiet == \A o \in Objects : transLock[o] = None

\* While no task is inside a transition lock, the last presence message
\* published for a user matches whether the user has a socket here. (Except for
\* a message published from an object that the map had already dropped.)
BusMatchesMembership ==
    Quiet => \A u \in Users \ late : u \in busRoster <=> Here(u)

\* The same without the exception, as the regression test for leave and
\* rejoin has it: "The last presence message on the bus must always match the
\* final membership."
BusAlwaysMatchesMembership ==
    Quiet => \A u \in Users : u \in busRoster <=> Here(u)

\* The map keeps an empty channel only while somebody is on the way to join
\* it or to tidy it away.
EmptyChannelIsReaped ==
    chan # None /\ IsEmpty(chan) =>
        \E s \in Sockets : pc[s] \notin {"idle", "close"}

\* On a node without peers the number of distinct users never passes the cap.
CapRespected ==
    chan # None => Cardinality(LocalUsers(chan)) <= MaxPresenceMembers

\* What the client of s will believe about u once its queue is drained.
Told(s, u) ==
    LET about == {i \in 1..Len(queue[s]) : queue[s][i].user = u}
    IN  IF about = {} THEN u \in view[s]
        ELSE \E i \in about : queue[s][i].kind = "added" /\ \A j \in about : j <= i

Settled(u) ==
    /\ chan # None /\ transLock[chan] = None
    /\ \A x \in expired : x[2] # u

RosterCorrect(s) ==
    \A u \in Users : Settled(u) =>
        (Told(s, u) <=> u \in LocalUsers(chan) \union RemoteUsers)

\* The roster a member was sent, followed by the member_added and
\* member_removed frames queued for it, is the channel's roster: the users
\* with a socket here or on a peer. (Outside the transition lock, for members
\* that were not kicked, whose join saw every update and who joined with no
\* frame of an earlier membership in their queue.)
RosterMatchesStream ==
    \A s \in subscribed \ (kicked \union tainted) : RosterCorrect(s)

\* The same without the exception for members that missed an update, as the
\* comment in handle_subscribe has it: "the roster sent to this joiner then
\* matches the member_added/member_removed stream that follows it".
RosterAlwaysMatchesStream ==
    \A s \in subscribed \ kicked : RosterCorrect(s)

\* No handler is stuck: the order in which the map entry and the transition
\* lock are taken lets every request that has started come to its end.
HandlersFinish ==
    \A s \in Sockets : []<>(pc[s] = "idle")

\* A slow subscriber is really removed: a socket does not stay both kicked
\* and in the channel.
KickedSocketLeaves ==
    \A s \in Sockets : []<>(s \in kicked => chan = None \/ ~IsMember(chan, s))

-----------------------------------------------------------------------------
(* The room this channel implements: the members of the object that the map
   holds, and the change a handler has made and not announced yet. *)

RoomMembers == IF chan = None THEN NoMembers ELSE members[chan]

RoomNews ==
    [s \in Sockets |->
        [kind |-> IF ~join[s].changed THEN "none"
                  ELSE IF pc[s] = "announce" THEN "in" ELSE "out",
         user |-> IF join[s].changed THEN join[s].user ELSE None]]

AbstractRoom == INSTANCE Room WITH room <- RoomMembers, news <- RoomNews

\* The map of reference-counted channels with its two locks behaves like one
\* room: whatever the interleaving, subscribing and unsubscribing take effect
\* in one step on the members of the room, the answer "this user is new" or
\* "this user is gone" is the right one at that step, and neither tidying the
\* map nor a stale reference to a dropped channel has any effect on the room.
ImplementsRoom == AbstractRoom!Spec
=============================================================================
