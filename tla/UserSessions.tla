---------------------------- MODULE UserSessions ----------------------------
(***************************************************************************)
(* Signed-in users of one app on one node: sign-in, the user index, the    *)
(* watchlists and their online and offline events, the sessions that peers *)
(* report, and what this node tells the peers.                             *)
(*                                                                         *)
(* Everything that follows from a change of one user's state runs under a  *)
(* mutex of that user.  The mutexes live in a map, are created on demand   *)
(* and removed when nobody holds a reference; a task keeps its reference   *)
(* over the whole critical section.  A step is the code between two points *)
(* where another task can get in.                                          *)
(***************************************************************************)
EXTENDS Naturals, FiniteSets

CONSTANTS
    Socket,
    User,
    Peer,
    PeerUser,   \* the users that peers may report
    SignsIn,    \* SignsIn[s]: the user that s signs in as
    Watchlist,  \* Watchlist[s]: whom s asks to watch
    Mutex,      \* the allocations of user mutexes
    Nobody      \* no mutex, no work

ASSUME UserConstants ==
    /\ "bus" \notin Socket /\ "gc" \notin Socket /\ Nobody \notin Mutex
    /\ SignsIn \in [Socket -> User] /\ Watchlist \in [Socket -> SUBSET User] /\ PeerUser \subseteq User

Task == Socket \cup {"bus", "gc"}

VARIABLES
    pc,         \* pc[t]: where task t is
    lockOf,     \* user_locks: lockOf[u], the mutex in the map
    arc,        \* arc[t]: the mutex that t holds a reference to
    index,      \* user_index: index[u], the sockets of u
    watchers,   \* watchers[u]: the users that watch u
    found,      \* found[s]: the watched users that sign-in saw online
    tell,       \* tell[t]: the event that t has decided to send
    sessions,   \* sessions[p]: the peer's users and the age of the entry
    work,       \* what the bus consumer and the GC are at
    todo,       \* what is left of a session snapshot, and of a GC pass
    told,       \* told[s]: the users whose last event to s was "online"
    known,      \* the users that a peer takes to be signed in here
    snap,       \* the session snapshot being prepared
    since,      \* users announced live since the snapshot's number was drawn
    misled,     \* history: events that reached s before an older "online"
    blind       \* history: users decided on while a stale entry named them

locks == <<lockOf, arc>>
registry == <<index, watchers>>
peers == <<sessions, work, todo>>
published == <<known, snap, since>>
clients == <<told, misled, blind>>
userVars == <<pc, locks, registry, found, tell, peers, published, clients>>

NoSession == [age |-> "none", users |-> {}]
NoSnapshot == [step |-> "idle", users |-> {}]

UserInit ==
    /\ pc = [t \in Task |-> IF t \in Socket THEN "new" ELSE "idle"]
    /\ lockOf = [u \in User |-> Nobody]
    /\ arc = [t \in Task |-> Nobody]
    /\ index = [u \in User |-> {}]
    /\ watchers = [u \in User |-> {}]
    /\ found = [s \in Socket |-> {}]
    /\ tell = [t \in Task |-> "nothing"]
    /\ sessions = [p \in Peer |-> NoSession]
    /\ work = [bus |-> Nobody, gc |-> Nobody]
    /\ todo = [bus |-> {}, gc |-> {}]
    /\ told = [s \in Socket |-> {}]
    /\ known = {}
    /\ snap = NoSnapshot
    /\ since = {}
    /\ misled = {}
    /\ blind = {}

(***************************************************************************)
(* Who is online                                                           *)
(***************************************************************************)

IsUserOnline(u) == index[u] # {}

\* PeerUserSessions::is_present_excluding; entries past their TTL do not count.
IsPresentExcluding(sess, u, except) ==
    \E p \in Peer \ except : sess[p].age = "live" /\ u \in sess[p].users

Online(u) == IsUserOnline(u) \/ IsPresentExcluding(sessions, u, {})

StaleNames(u) == \E p \in Peer : sessions[p].age = "stale" /\ u \in sessions[p].users

UserOf(t) == CASE t \in Socket -> SignsIn[t]
               [] t = "bus" -> work.bus.user
               [] t = "gc" -> work.gc

(***************************************************************************)
(* with_user_transition: reference, mutex, critical section, tidying       *)
(***************************************************************************)

InSection == {"bound", "listed", "unbound", "applied"}

MutexFree(t) == \A x \in Task : pc[x] \in InSection => arc[x] # arc[t]

Unused == Mutex \ ({lockOf[u] : u \in User} \cup {arc[t] : t \in Task})

\* The map's mutex of u, a new one if it has none.
TakeArc(t, u) ==
    /\ lockOf[u] = Nobody => Unused # {}
    /\ LET l == IF lockOf[u] # Nobody THEN lockOf[u] ELSE CHOOSE x \in Unused : TRUE
       IN  /\ lockOf' = [lockOf EXCEPT ![u] = l]
           /\ arc' = [arc EXCEPT ![t] = l]

\* Mutant of Unreferenced: the mutex leaves the map after every use.
UnreferencedAlways(t) == TRUE

\* Arc::strong_count == 1 once t's reference is gone: only the map has it.
Unreferenced(t) == \A x \in Task \ {t} : arc[x] # lockOf[UserOf(t)]

\* The guard and the reference are dropped, and remove_if takes the mutex out
\* of the map if nobody else refers to it.
Release(t) ==
    /\ arc' = [arc EXCEPT ![t] = Nobody]
    /\ lockOf' = IF Unreferenced(t) THEN [lockOf EXCEPT ![UserOf(t)] = Nobody] ELSE lockOf

(***************************************************************************)
(* Watchlist events                                                        *)
(***************************************************************************)

\* The connections of the users that watch u.
Targets(u) == UNION {index[w] : w \in watchers[u]}

\* fanout_watchlist_event, emit_local_watchlist_event.
Fanout(u, event) ==
    CASE event = "nothing" -> UNCHANGED clients
      [] event = "online" ->
            /\ told' = [s \in Socket |-> IF s \in Targets(u) THEN told[s] \cup {u} ELSE told[s]]
            /\ misled' = misled \ (Targets(u) \X {u})
            /\ blind' = blind \ {u}
      [] event = "offline" ->
            /\ told' = [s \in Socket |-> IF s \in Targets(u) THEN told[s] \ {u} ELSE told[s]]
            /\ misled' = (misled \ (Targets(u) \X {u}))
                   \cup ({s \in Targets(u) : pc[s] = "listed" /\ u \in found[s]} \X {u})
            /\ UNCHANGED blind

\* The decision that u is gone overlooks an entry past its TTL.
Overlook(u, event) ==
    blind' = IF event # "offline" THEN blind
             ELSE IF StaleNames(u) THEN blind \cup {u} ELSE blind \ {u}

(***************************************************************************)
(* handle_signin                                                           *)
(***************************************************************************)

\* Refused requests, and a second sign-in on the same connection, change nothing.
HandleSignin(s) ==
    /\ pc[s] = "new"
    /\ TakeArc(s, SignsIn[s])
    /\ pc' = [pc EXCEPT ![s] = "signin"]
    /\ UNCHANGED <<registry, found, tell, peers, published, clients>>

BindUser(u, s) == [index EXCEPT ![u] = @ \cup {s}]

AddWatcher(s) ==
    [x \in User |-> IF x \in Watchlist[s] THEN watchers[x] \cup {SignsIn[s]} ELSE watchers[x]]

\* Bind, then register the watches.
SigninBind(s) ==
    /\ pc[s] = "signin"
    /\ MutexFree(s)
    /\ tell' = [tell EXCEPT ![s] = IF Online(SignsIn[s]) THEN "nothing" ELSE "online"]
    /\ index' = BindUser(SignsIn[s], s)
    /\ watchers' = AddWatcher(s)
    /\ pc' = [pc EXCEPT ![s] = "bound"]
    /\ UNCHANGED <<locks, found, peers, published, clients>>

\* The watched users are looked up without their mutexes.
SigninList(s) ==
    /\ pc[s] = "bound"
    /\ found' = [found EXCEPT ![s] = {u \in Watchlist[s] : Online(u)}]
    /\ blind' = blind \cup {u \in Watchlist[s] : ~Online(u) /\ StaleNames(u)}
    /\ pc' = [pc EXCEPT ![s] = "listed"]
    /\ UNCHANGED <<locks, registry, tell, peers, published, told, misled>>

\* A live message on the bus: it overtakes a snapshot under way.
PublishUserOnline(u) ==
    /\ known' = known \cup {u}
    /\ since' = IF snap.step = "idle" THEN {} ELSE since \cup {u}

PublishUserOffline(u) ==
    /\ known' = known \ {u}
    /\ since' = IF snap.step = "idle" THEN {} ELSE since \cup {u}

\* The list is sent to s, the transition announced to the watchers and peers.
SigninTell(s) ==
    LET u == SignsIn[s]
        reach == IF tell[s] = "online" THEN Targets(u) ELSE {}
    IN  /\ pc[s] = "listed"
        /\ told' = [x \in Socket |-> told[x] \cup (IF x = s THEN found[s] ELSE {})
                                             \cup (IF x \in reach THEN {u} ELSE {})]
        /\ misled' = misled \ (reach \X {u})
        /\ blind' = IF tell[s] = "online" THEN blind \ {u} ELSE blind
        /\ IF index[u] = {s} THEN PublishUserOnline(u) ELSE UNCHANGED <<known, since>>
        /\ Release(s)
        /\ tell' = [tell EXCEPT ![s] = "nothing"]
        /\ found' = [found EXCEPT ![s] = {}]
        /\ pc' = [pc EXCEPT ![s] = "in"]
        /\ UNCHANGED <<registry, peers, snap>>

(***************************************************************************)
(* The end of a connection (cleanup_connection)                            *)
(***************************************************************************)

Disconnect(s) ==
    /\ pc[s] = "in"
    /\ TakeArc(s, SignsIn[s])
    /\ pc' = [pc EXCEPT ![s] = "leaving"]
    /\ UNCHANGED <<registry, found, tell, peers, published, clients>>

UnbindUser(u, s) == [index EXCEPT ![u] = @ \ {s}]

\* The events of a connection that is gone no longer matter.
Forget(s) ==
    /\ told' = [told EXCEPT ![s] = {}]
    /\ misled' = misled \ ({s} \X User)

CleanupUnbind(s) ==
    LET u == SignsIn[s]
        last == index[u] = {s}
        event == IF last /\ ~IsPresentExcluding(sessions, u, {}) THEN "offline" ELSE "nothing"
    IN  /\ pc[s] = "leaving"
        /\ MutexFree(s)
        /\ index' = UnbindUser(u, s)
        /\ Forget(s)
        /\ Overlook(u, event)
        /\ tell' = [tell EXCEPT ![s] = event]
        /\ IF last
           THEN pc' = [pc EXCEPT ![s] = "unbound"] /\ UNCHANGED locks
           ELSE pc' = [pc EXCEPT ![s] = "new"] /\ Release(s)
        /\ UNCHANGED <<watchers, found, peers, published>>

\* Mutant of RemoveAllWatches: the watches stay behind.
RemoveNoWatches(u) == watchers

\* Unless the user is online again.
RemoveAllWatches(u) ==
    IF index[u] # {} THEN watchers ELSE [x \in User |-> watchers[x] \ {u}]

CleanupTell(s) ==
    LET u == SignsIn[s] IN
    /\ pc[s] = "unbound"
    /\ Fanout(u, tell[s])
    /\ PublishUserOffline(u)
    /\ watchers' = RemoveAllWatches(u)
    /\ Release(s)
    /\ tell' = [tell EXCEPT ![s] = "nothing"]
    /\ pc' = [pc EXCEPT ![s] = "new"]
    /\ UNCHANGED <<index, found, peers, snap>>

(***************************************************************************)
(* The bus consumer: online, offline and the session snapshot of a peer    *)
(***************************************************************************)

\* The consumer turns to one user; a message with an old number is skipped,
\* which changes nothing.
BusStart(item) ==
    /\ pc["bus"] = "idle"
    /\ TakeArc("bus", item.user)
    /\ work' = [work EXCEPT !.bus = item]
    /\ pc' = [pc EXCEPT !["bus"] = "apply"]

BusLive(p, u, event) ==
    /\ todo.bus = {}
    /\ BusStart([peer |-> p, user |-> u, event |-> event])
    /\ UNCHANGED <<registry, found, tell, sessions, todo, published, clients>>

\* The entry is refreshed, then the differences are taken.
BusSnapshot(p, reported) ==
    LET previous == sessions[p].users IN
    /\ pc["bus"] = "idle"
    /\ todo.bus = {}
    /\ sessions' = [sessions EXCEPT ![p].age = "live"]
    /\ todo' = [todo EXCEPT !.bus =
           {[peer |-> p, user |-> u, event |-> "online"] : u \in reported \ previous}
               \cup {[peer |-> p, user |-> u, event |-> "offline"] : u \in previous \ reported}]
    /\ UNCHANGED <<pc, locks, registry, found, tell, work, published, clients>>

BusDifference(item) ==
    /\ todo' = [todo EXCEPT !.bus = @ \ {item}]
    /\ \/ BusStart(item)
       \/ pc["bus"] = "idle" /\ UNCHANGED <<pc, locks, work>>
    /\ UNCHANGED <<registry, found, tell, sessions, published, clients>>

AddSession(p, u) == [sessions EXCEPT ![p] = [age |-> "live", users |-> @.users \cup {u}]]

RemoveSession(p, u) ==
    IF sessions[p].age = "none" THEN sessions
    ELSE [sessions EXCEPT ![p] = [age |-> "live", users |-> @.users \ {u}]]

\* Whether u is online apart from what peer p says.
Elsewhere(p, u) == IsUserOnline(u) \/ IsPresentExcluding(sessions, u, {p})

\* apply_remote_user_online, apply_remote_user_offline: update, then decide.
BusApply ==
    LET item == work.bus
        u == item.user
        event == IF Elsewhere(item.peer, u) THEN "nothing" ELSE item.event
    IN  /\ pc["bus"] = "apply"
        /\ MutexFree("bus")
        /\ sessions' = IF item.event = "online" THEN AddSession(item.peer, u) ELSE RemoveSession(item.peer, u)
        /\ Overlook(u, event)
        /\ tell' = [tell EXCEPT !["bus"] = event]
        /\ pc' = [pc EXCEPT !["bus"] = "applied"]
        /\ UNCHANGED <<locks, registry, found, work, todo, published, told, misled>>

BusTell ==
    /\ pc["bus"] = "applied"
    /\ Fanout(work.bus.user, tell["bus"])
    /\ Release("bus")
    /\ tell' = [tell EXCEPT !["bus"] = "nothing"]
    /\ work' = [work EXCEPT !.bus = Nobody]
    /\ pc' = [pc EXCEPT !["bus"] = "idle"]
    /\ UNCHANGED <<registry, found, sessions, todo, published>>

(***************************************************************************)
(* Expiry and step 3 of the GC pass                                        *)
(***************************************************************************)

\* A peer has been silent for longer than the TTL, which is far longer than a
\* bus message or a GC pass takes.
ExpireSession(p) ==
    /\ sessions[p].age = "live"
    /\ pc["bus"] = "idle" /\ pc["gc"] = "idle" /\ todo = [bus |-> {}, gc |-> {}]
    /\ sessions' = [sessions EXCEPT ![p].age = "stale"]
    /\ UNCHANGED <<pc, locks, registry, found, tell, work, todo, published, clients>>

\* PeerUserSessions::gc_expired
GcSessions ==
    LET stale == {p \in Peer : sessions[p].age = "stale"}
        left == [p \in Peer |-> IF p \in stale THEN NoSession ELSE sessions[p]]
    IN  /\ pc["gc"] = "idle"
        /\ todo.gc = {}
        /\ stale # {}
        /\ sessions' = left
        /\ todo' = [todo EXCEPT !.gc = UNION {sessions[p].users : p \in stale}]
        /\ blind' = {u \in blind : IsUserOnline(u) \/ \E p \in Peer : u \in left[p].users}
        /\ UNCHANGED <<pc, locks, registry, found, tell, work, published, told, misled>>

GcUser(u) ==
    /\ pc["gc"] = "idle"
    /\ TakeArc("gc", u)
    /\ work' = [work EXCEPT !.gc = u]
    /\ pc' = [pc EXCEPT !["gc"] = "decide"]
    /\ UNCHANGED <<registry, found, tell, sessions, todo, published, clients>>

\* Decided and told under the mutex.
GcDecide ==
    LET u == work.gc IN
    /\ pc["gc"] = "decide"
    /\ MutexFree("gc")
    /\ Fanout(u, IF Online(u) THEN "nothing" ELSE "offline")
    /\ Release("gc")
    /\ todo' = [todo EXCEPT !.gc = @ \ {u}]
    /\ work' = [work EXCEPT !.gc = Nobody]
    /\ pc' = [pc EXCEPT !["gc"] = "idle"]
    /\ UNCHANGED <<registry, found, tell, sessions, published>>

(***************************************************************************)
(* The session snapshot: draw a number, capture, publish                   *)
(***************************************************************************)

SessionSnapshotDraw ==
    /\ snap.step = "idle"
    /\ snap' = [step |-> "drawn", users |-> {}]
    /\ UNCHANGED <<pc, locks, registry, found, tell, peers, known, since, clients>>

LocalUserIds == {u \in User : IsUserOnline(u)}

SessionSnapshotCapture ==
    /\ snap.step = "drawn"
    /\ snap' = [step |-> "captured", users |-> LocalUserIds]
    /\ UNCHANGED <<pc, locks, registry, found, tell, peers, known, since, clients>>

\* Mutant of Superseded: a peer applies whatever arrives last.
SupersededNever == {}

\* Users with a live message of a higher number than the snapshot's.
Superseded == since

PublishUserSessionSnapshot ==
    /\ snap.step = "captured"
    /\ known' = (known \cap Superseded) \cup (snap.users \ Superseded)
    /\ snap' = NoSnapshot
    /\ since' = {}
    /\ UNCHANGED <<pc, locks, registry, found, tell, peers, clients>>

UserNext ==
    \/ \E s \in Socket : HandleSignin(s) \/ SigninBind(s) \/ SigninList(s) \/ SigninTell(s)
    \/ \E s \in Socket : Disconnect(s) \/ CleanupUnbind(s) \/ CleanupTell(s)
    \/ \E p \in Peer, u \in PeerUser, event \in {"online", "offline"} : BusLive(p, u, event)
    \/ \E p \in Peer, reported \in SUBSET PeerUser : BusSnapshot(p, reported)
    \/ \E item \in todo.bus : BusDifference(item)
    \/ BusApply \/ BusTell
    \/ \E p \in Peer : ExpireSession(p)
    \/ GcSessions \/ GcDecide
    \/ \E u \in todo.gc : GcUser(u)
    \/ SessionSnapshotDraw \/ SessionSnapshotCapture \/ PublishUserSessionSnapshot

UserSpec == UserInit /\ [][UserNext]_userVars

(***************************************************************************)
(* Properties                                                              *)
(***************************************************************************)

\* Nobody is changing or announcing u's state, and no peer that named u has
\* gone silent without the GC having looked.
Settled(u) ==
    /\ \A t \in Task : pc[t] \in InSection => UserOf(t) # u
    /\ u \notin todo.gc
    /\ ~StaleNames(u)

\* Whatever order sockets of one user sign in and go away in, here and on the
\* peers, a client is in the end told the truth about everybody it watches.
\* Left out are events that overtook the list sent at sign-in (`misled`) and
\* users decided on between the TTL of a peer and the GC pass (`blind`).
WatchersKnow ==
    \A s \in Socket : pc[s] = "in" =>
        \A u \in Watchlist[s] \ blind :
            Settled(u) /\ <<s, u>> \notin misled => (u \in told[s]) = Online(u)

\* A reconnect is never announced to the peers before the disconnect that it
\* follows, and a session snapshot never undoes a later live message: the peers
\* know who is signed in here.
PeersKnowSessions ==
    \A u \in User :
        snap.step = "idle" /\ (\A s \in Socket : pc[s] \in InSection => SignsIn[s] # u)
            => (u \in known) = IsUserOnline(u)

\* A user that is signed in is registered with everybody its connections watch,
\* one that is not is registered with nobody: a sign-in that races the cleanup of
\* the user's last connection keeps its watches, and none are left behind.
WatchesMatchSessions ==
    /\ \A s \in Socket : pc[s] \in {"bound", "listed", "in", "leaving"} =>
           \A u \in Watchlist[s] : SignsIn[s] \in watchers[u]
    /\ \A u \in User : Settled(u) /\ ~IsUserOnline(u) => \A x \in User : u \notin watchers[x]
=============================================================================
