------------------------- MODULE UserSessionsProofs -------------------------
(***************************************************************************)
(* Signed-in users, for any number of sockets, users, peers and mutexes    *)
(* and any watchlists: what peers and watchers are told is what is so.     *)
(*                                                                         *)
(* Everything rests on the per-user mutex.  It lives in a map only while   *)
(* somebody refers to it, so that it excludes anybody has to be proved     *)
(* first (LockInv); then nobody else changes a user's state between a      *)
(* decision about that user and its announcement.                          *)
(***************************************************************************)
EXTENDS UserSessions, TLAPS

\* A task refers to its user's mutex; a socket is in the user index.
Referring == {"signin", "bound", "listed", "leaving", "unbound", "apply", "applied", "decide"}
Registered == {"bound", "listed", "in", "leaving"}

Item == [peer : Peer, user : User, event : {"online", "offline"}]

UserTypeOK ==
    /\ pc \in [Task -> {"new", "signin", "bound", "listed", "in", "leaving", "unbound",
                        "idle", "apply", "applied", "decide"}]
    /\ \A s \in Socket : pc[s] \in {"new", "signin", "bound", "listed", "in", "leaving", "unbound"}
    /\ pc["bus"] \in {"idle", "apply", "applied"}
    /\ pc["gc"] \in {"idle", "decide"}
    /\ lockOf \in [User -> Mutex \cup {Nobody}]
    /\ arc \in [Task -> Mutex \cup {Nobody}]
    /\ index \in [User -> SUBSET Socket]
    /\ watchers \in [User -> SUBSET User]
    /\ found \in [Socket -> SUBSET User]
    /\ tell \in [Task -> {"nothing", "online", "offline"}]
    /\ sessions \in [Peer -> [age : {"none", "live", "stale"}, users : SUBSET User]]
    /\ DOMAIN work = {"bus", "gc"} /\ DOMAIN todo = {"bus", "gc"}
    /\ pc["bus"] # "idle" => work.bus \in Item
    /\ pc["gc"] = "decide" => work.gc \in todo.gc
    /\ todo.bus \subseteq Item /\ todo.gc \subseteq User
    /\ told \in [Socket -> SUBSET User]
    /\ known \subseteq User
    /\ snap \in [step : {"idle", "drawn", "captured"}, users : SUBSET User]
    /\ since \subseteq User

\* A mutex that is referred to stays in the map, and users share none.
LockInv ==
    /\ \A t \in Task : IF pc[t] \in Referring THEN arc[t] = lockOf[UserOf(t)] /\ arc[t] # Nobody
                                              ELSE arc[t] = Nobody
    /\ \A u, v \in User : lockOf[u] = lockOf[v] /\ lockOf[u] # Nobody => u = v
    /\ \A t, x \in Task : pc[t] \in InSection /\ pc[x] \in InSection /\ UserOf(t) = UserOf(x) => t = x

\* The index holds the registered sockets.
IndexInv ==
    /\ \A u \in User : index[u] = {s \in Socket : SignsIn[s] = u /\ pc[s] \in Registered}
    /\ \A s \in Socket : pc[s] = "unbound" => index[SignsIn[s]] = {}

WatchInv ==
    /\ \A s \in Socket : pc[s] \in Registered => \A u \in Watchlist[s] : SignsIn[s] \in watchers[u]
    /\ \A u \in User : index[u] = {} /\ (\A s \in Socket : pc[s] = "unbound" => SignsIn[s] # u)
                          => \A x \in User : u \notin watchers[x]

\* What the peers hold of u once the snapshot under way has arrived.
Believed(u) == IF snap.step = "captured" /\ u \notin since THEN u \in snap.users ELSE u \in known

\* Whether u's entry is not captured yet.
Open(u) == snap.step = "drawn" /\ u \notin since

KnownInv ==
    /\ snap.step = "idle" => since = {}
    /\ \A u \in User : ~Open(u) =>
          /\ (\A s \in Socket : pc[s] \in InSection => SignsIn[s] # u) => (Believed(u) <=> index[u] # {})
          /\ \A s \in Socket : pc[s] \in {"bound", "listed"} /\ SignsIn[s] = u /\ index[u] # {s} => Believed(u)

\* Whether a socket or any entry, an old one too, names u.
Named(u) == index[u] # {} \/ \E p \in Peer : u \in sessions[p].users

\* What s has been told, or is about to be.
Heard(s) == told[s] \cup found[s]

\* Somebody has decided on an event about u that is not sent yet.
Deciding(u) == \E t \in Task : pc[t] \in InSection /\ tell[t] # "nothing" /\ UserOf(t) = u

SessionsInv ==
    /\ \A p \in Peer : sessions[p].age = "none" => sessions[p].users = {}
    /\ todo.gc # {} => \A p \in Peer : sessions[p].age # "stale"

\* A decision is still right when it is announced.
DecisionInv ==
    /\ \A t \in Task : pc[t] \notin InSection => tell[t] = "nothing"
    /\ \A s \in Socket : /\ tell[s] = "online" => pc[s] \in {"bound", "listed"}
                         /\ tell[s] = "offline" => pc[s] = "unbound"
    /\ tell["bus"] = "online" => /\ sessions[work.bus.peer].age = "live"
                                 /\ work.bus.user \in sessions[work.bus.peer].users
    /\ \A t \in Task : tell[t] = "offline" /\ Named(UserOf(t)) => UserOf(t) \in blind

\* What a client has heard is so, and it has heard what is so.
TruthInv ==
    /\ \A s \in Socket : /\ pc[s] # "listed" => found[s] = {}
                         /\ pc[s] \notin Registered => told[s] = {}
    /\ \A s \in Socket : \A u \in Watchlist[s] : <<s, u>> \notin misled /\ ~Deciding(u) =>
          /\ u \in Heard(s) => Named(u) \/ u \in todo.gc
          /\ pc[s] \in {"listed", "in", "leaving"} /\ Named(u) /\ u \notin blind => u \in Heard(s)

UserInv ==
    /\ UserTypeOK /\ LockInv /\ IndexInv /\ WatchInv /\ KnownInv
    /\ SessionsInv /\ DecisionInv /\ TruthInv

(***************************************************************************)
(* The mutex of a user                                                     *)
(***************************************************************************)

\* Whose state a task is working on.
LEMMA UserOfTask ==
    /\ \A s \in Socket : /\ UserOf(s) = SignsIn[s] /\ UserOf(s)' = SignsIn[s]
                         /\ SignsIn[s] \in User /\ s \in Task /\ s # "bus" /\ s # "gc"
    /\ UserOf("bus") = work.bus.user /\ UserOf("bus")' = work'.bus.user
    /\ UserOf("gc") = work.gc /\ UserOf("gc")' = work'.gc
    /\ "bus" \in Task /\ "gc" \in Task
    /\ \A t \in Task : t \in Socket \/ t = "bus" \/ t = "gc"
<1>1. "bus" \notin Socket /\ "gc" \notin Socket /\ "bus" # "gc" /\ SignsIn \in [Socket -> User]
  BY Zenon, UserConstants
<1>2. \A s \in Socket : s # "bus" /\ s # "gc" /\ SignsIn[s] \in User
  BY Zenon, <1>1
<1> QED
  BY Zenon, <1>1, <1>2 DEF UserOf, Task

\* A task that refers to a mutex works on a user.
LEMMA UserOfReferring ==
    ASSUME UserTypeOK, NEW t \in Task, pc[t] \in Referring
    PROVE  UserOf(t) \in User
<1>1. CASE t \in Socket
  BY Zenon, <1>1, UserOfTask
<1>2. CASE t = "bus"
  <2>1. work.bus \in Item
    BY Zenon, <1>2 DEF UserTypeOK, Referring
  <2> QED
    BY Zenon, <1>2, <2>1, UserOfTask DEF Item
<1>3. CASE t = "gc"
  BY <1>3, UserOfTask DEF UserTypeOK, Referring
<1> QED
  BY Zenon, <1>1, <1>2, <1>3, UserOfTask

\* The mutex in the map, or a new one.
LEMMA TakeArcFacts ==
    ASSUME UserTypeOK, NEW t \in Task, NEW u \in User, TakeArc(t, u)
    PROVE  \E l \in Mutex :
              /\ lockOf' = [lockOf EXCEPT ![u] = l] /\ arc' = [arc EXCEPT ![t] = l]
              /\ \/ l = lockOf[u]
                 \/ lockOf[u] = Nobody /\ (\A v \in User : lockOf[v] # l) /\ (\A x \in Task : arc[x] # l)
<1> DEFINE l == IF lockOf[u] # Nobody THEN lockOf[u] ELSE CHOOSE x \in Unused : TRUE
<1>1. lockOf' = [lockOf EXCEPT ![u] = l] /\ arc' = [arc EXCEPT ![t] = l] /\ (lockOf[u] = Nobody => Unused # {})
  BY Zenon DEF TakeArc
<1>2. CASE lockOf[u] # Nobody
  <2>1. l = lockOf[u]
    BY Zenon, <1>2
  <2>2. lockOf[u] \in Mutex
    BY <1>2 DEF UserTypeOK
  <2> QED
    BY Zenon, <1>1, <2>1, <2>2
<1>3. CASE lockOf[u] = Nobody
  <2>1. l \in Unused
    BY Zenon, <1>1, <1>3
  <2>2. l \in Mutex /\ (\A v \in User : lockOf[v] # l) /\ (\A x \in Task : arc[x] # l)
    BY Zenon, <2>1 DEF Unused
  <2> QED
    BY Zenon, <1>1, <1>3, <2>2
<1> QED
  BY Zenon, <1>2, <1>3

\* Referring to the mutex.
LEMMA AcquireKeepsLocks ==
    ASSUME UserTypeOK, LockInv, NEW t \in Task, NEW u \in User, pc[t] \notin Referring, TakeArc(t, u),
           NEW v \in {"signin", "leaving", "apply", "decide"}, pc' = [pc EXCEPT ![t] = v],
           UserOf(t)' = u, \A x \in Task : x # t => UserOf(x)' = UserOf(x)
    PROVE  /\ LockInv'
           /\ lockOf' \in [User -> Mutex \cup {Nobody}] /\ arc' \in [Task -> Mutex \cup {Nobody}]
<1>1. PICK l \in Mutex :
         /\ lockOf' = [lockOf EXCEPT ![u] = l] /\ arc' = [arc EXCEPT ![t] = l]
         /\ \/ l = lockOf[u]
            \/ lockOf[u] = Nobody /\ (\A w \in User : lockOf[w] # l) /\ (\A x \in Task : arc[x] # l)
  BY Zenon, TakeArcFacts
<1>2. /\ arc'[t] = l /\ \A x \in Task : x # t => arc'[x] = arc[x]
      /\ lockOf'[u] = l /\ \A w \in User : w # u => lockOf'[w] = lockOf[w]
      /\ lockOf' \in [User -> Mutex \cup {Nobody}] /\ arc' \in [Task -> Mutex \cup {Nobody}]
  BY Zenon, <1>1 DEF UserTypeOK
<1>3. pc'[t] = v /\ \A x \in Task : x # t => pc'[x] = pc[x]
  BY Zenon DEF UserTypeOK
<1>4. v \in Referring /\ v \notin InSection /\ l # Nobody
  BY Zenon, UserConstants DEF Referring, InSection
<1>5. \A x \in Task : pc[x] \in Referring => UserOf(x) \in User
  BY Zenon, UserOfReferring
<1>6. ASSUME NEW x \in Task
      PROVE  IF pc'[x] \in Referring THEN arc'[x] = lockOf'[UserOf(x)'] /\ arc'[x] # Nobody ELSE arc'[x] = Nobody
  <2>1. CASE x = t
    BY Zenon, <1>2, <1>3, <1>4, <2>1
  <2>2. CASE x # t /\ pc[x] \notin Referring
    BY Zenon, <1>2, <1>3, <2>2 DEF LockInv
  <2>3. CASE x # t /\ pc[x] \in Referring
    <3>1. arc[x] = lockOf[UserOf(x)] /\ arc[x] # Nobody /\ UserOf(x) \in User
      BY Zenon, <1>5, <2>3 DEF LockInv
    <3>2. UserOf(x) = u => l = lockOf[u]
      BY Zenon, <1>1, <3>1
    <3> QED
      BY Zenon, <1>2, <1>3, <2>3, <3>1, <3>2
  <2> QED
    BY Zenon, <2>1, <2>2, <2>3
<1>7. ASSUME NEW w \in User, NEW y \in User, lockOf'[w] = lockOf'[y], lockOf'[w] # Nobody
      PROVE  w = y
  BY <1>1, <1>2, <1>4, <1>7 DEF LockInv
<1>8. ASSUME NEW y \in Task, NEW x \in Task, pc'[y] \in InSection, pc'[x] \in InSection, UserOf(y)' = UserOf(x)'
      PROVE  y = x
  <2>1. y # t /\ x # t
    BY Zenon, <1>3, <1>4, <1>8
  <2>2. pc[y] \in InSection /\ pc[x] \in InSection /\ UserOf(y) = UserOf(x)
    BY Zenon, <1>3, <1>4, <1>8, <2>1
  <2> QED
    BY Zenon, <2>2 DEF LockInv
<1> QED
  BY Zenon, <1>2, <1>6, <1>7, <1>8 DEF LockInv

\* Dropping the reference takes the mutex out of the map if nobody refers to it.
LEMMA ReleaseKeepsLocks ==
    ASSUME UserTypeOK, LockInv, NEW t \in Task, pc[t] \in Referring, Release(t),
           NEW v, v \notin Referring, pc' = [pc EXCEPT ![t] = v],
           \A x \in Task : x # t => UserOf(x)' = UserOf(x)
    PROVE  /\ LockInv'
           /\ lockOf' \in [User -> Mutex \cup {Nobody}] /\ arc' \in [Task -> Mutex \cup {Nobody}]
<1> DEFINE u == UserOf(t)
<1>1. /\ arc' = [arc EXCEPT ![t] = Nobody]
      /\ \/ lockOf' = lockOf
         \/ lockOf' = [lockOf EXCEPT ![u] = Nobody] /\ \A x \in Task : x # t => arc[x] # lockOf[u]
  BY Zenon DEF Release, Unreferenced
<1>2. u \in User
  BY Zenon, UserOfReferring
<1> HIDE DEF u
<1>3. /\ arc'[t] = Nobody /\ \A x \in Task : x # t => arc'[x] = arc[x]
      /\ \A w \in User : lockOf'[w] = lockOf[w] \/ (w = u /\ lockOf'[w] = Nobody /\ \A x \in Task : x # t => arc[x] # lockOf[u])
      /\ lockOf' \in [User -> Mutex \cup {Nobody}] /\ arc' \in [Task -> Mutex \cup {Nobody}]
  BY <1>1, <1>2 DEF UserTypeOK
<1>4. pc'[t] = v /\ \A x \in Task : x # t => pc'[x] = pc[x]
  BY Zenon DEF UserTypeOK
<1>5. v \notin InSection
  BY Zenon DEF Referring, InSection
<1>6. \A x \in Task : pc[x] \in Referring => UserOf(x) \in User
  BY Zenon, UserOfReferring
<1>7. ASSUME NEW x \in Task
      PROVE  IF pc'[x] \in Referring THEN arc'[x] = lockOf'[UserOf(x)'] /\ arc'[x] # Nobody ELSE arc'[x] = Nobody
  <2>1. CASE x = t
    BY Zenon, <1>3, <1>4, <2>1
  <2>2. CASE x # t /\ pc[x] \notin Referring
    BY Zenon, <1>3, <1>4, <2>2 DEF LockInv
  <2>3. CASE x # t /\ pc[x] \in Referring
    <3>1. arc[x] = lockOf[UserOf(x)] /\ arc[x] # Nobody /\ UserOf(x) \in User
      BY Zenon, <1>6, <2>3 DEF LockInv
    <3>2. lockOf'[UserOf(x)] = lockOf[UserOf(x)]
      BY Zenon, <1>3, <2>3, <3>1
    <3> QED
      BY Zenon, <1>3, <1>4, <2>3, <3>1, <3>2
  <2> QED
    BY Zenon, <2>1, <2>2, <2>3
<1>8. ASSUME NEW w \in User, NEW y \in User, lockOf'[w] = lockOf'[y], lockOf'[w] # Nobody
      PROVE  w = y
  BY <1>3, <1>8 DEF LockInv
<1>9. ASSUME NEW y \in Task, NEW x \in Task, pc'[y] \in InSection, pc'[x] \in InSection, UserOf(y)' = UserOf(x)'
      PROVE  y = x
  <2>1. y # t /\ x # t
    BY Zenon, <1>4, <1>5, <1>9
  <2>2. pc[y] \in InSection /\ pc[x] \in InSection /\ UserOf(y) = UserOf(x)
    BY Zenon, <1>4, <1>5, <1>9, <2>1
  <2> QED
    BY Zenon, <2>2 DEF LockInv
<1> QED
  BY Zenon, <1>3, <1>7, <1>8, <1>9 DEF LockInv

\* With the mutex free, nobody else is in a section of the same user.
LEMMA MutexExcludes ==
    ASSUME UserTypeOK, LockInv, NEW t \in Task, pc[t] \in Referring, MutexFree(t)
    PROVE  \A x \in Task : pc[x] \in InSection => UserOf(x) # UserOf(t)
<1>1. \A x \in Task : pc[x] \in InSection => pc[x] \in Referring
  BY Zenon DEF InSection, Referring
<1> QED
  BY Zenon, <1>1 DEF MutexFree, LockInv

\* Steps within a section, and steps that enter one.
LEMMA SectionKeepsLocks ==
    ASSUME UserTypeOK, LockInv, NEW t \in Task, pc[t] \in Referring,
           pc[t] \in InSection \/ MutexFree(t),
           NEW v \in InSection, pc' = [pc EXCEPT ![t] = v], UNCHANGED <<lockOf, arc>>,
           \A x \in Task : UserOf(x)' = UserOf(x)
    PROVE  LockInv'
<1>1. pc'[t] = v /\ \A x \in Task : x # t => pc'[x] = pc[x]
  BY Zenon DEF UserTypeOK
<1>2. v \in Referring
  BY Zenon DEF Referring, InSection
<1>3. \A x \in Task : x # t /\ pc[x] \in InSection => UserOf(x) # UserOf(t)
  BY Zenon, MutexExcludes DEF LockInv
<1>4. ASSUME NEW y \in Task, NEW x \in Task, pc'[y] \in InSection, pc'[x] \in InSection, UserOf(y)' = UserOf(x)'
      PROVE  y = x
  BY <1>1, <1>3, <1>4 DEF LockInv
<1>5. \A x \in Task :
         IF pc'[x] \in Referring THEN arc'[x] = lockOf'[UserOf(x)'] /\ arc'[x] # Nobody ELSE arc'[x] = Nobody
  BY Zenon, <1>1, <1>2 DEF LockInv
<1> QED
  BY Zenon, <1>4, <1>5 DEF LockInv

\* Steps of nobody who refers to a mutex.
LEMMA LocksStay ==
    ASSUME LockInv, UNCHANGED <<pc, lockOf, arc>>, \A x \in Task : UserOf(x)' = UserOf(x)
    PROVE  LockInv'
BY Zenon DEF LockInv

(***************************************************************************)
(* Steps that change nobody's state                                        *)
(***************************************************************************)

\* A step of a socket's task, of the bus consumer and of the GC.
LEMMA SocketMoves ==
    ASSUME UserTypeOK, NEW s \in Socket,
           NEW v \in {"new", "signin", "bound", "listed", "in", "leaving", "unbound"}, pc' = [pc EXCEPT ![s] = v]
    PROVE  /\ pc'[s] = v /\ \A x \in Task : x # s => pc'[x] = pc[x]
           /\ pc' \in [Task -> {"new", "signin", "bound", "listed", "in", "leaving", "unbound",
                                "idle", "apply", "applied", "decide"}]
           /\ \A x \in Socket : pc'[x] \in {"new", "signin", "bound", "listed", "in", "leaving", "unbound"}
           /\ pc'["bus"] = pc["bus"] /\ pc'["gc"] = pc["gc"]
<1>1. s # "bus" /\ s # "gc" /\ "bus" \in Task /\ "gc" \in Task /\ \A x \in Socket : x \in Task
  BY Zenon, UserOfTask
<1>2. pc'[s] = v /\ \A x \in Task : x # s => pc'[x] = pc[x]
  BY Zenon, <1>1 DEF UserTypeOK
<1>3. pc' \in [Task -> {"new", "signin", "bound", "listed", "in", "leaving", "unbound",
                        "idle", "apply", "applied", "decide"}]
  BY Zenon, <1>1 DEF UserTypeOK
<1>4. \A x \in Socket : pc'[x] \in {"new", "signin", "bound", "listed", "in", "leaving", "unbound"}
  BY Zenon, <1>1, <1>2 DEF UserTypeOK
<1> QED
  BY Zenon, <1>1, <1>2, <1>3, <1>4

LEMMA TaskMoves ==
    ASSUME UserTypeOK, NEW t \in {"bus", "gc"}, NEW v \in {"idle", "apply", "applied", "decide"},
           pc' = [pc EXCEPT ![t] = v]
    PROVE  /\ pc'[t] = v /\ \A x \in Task : x # t => pc'[x] = pc[x]
           /\ pc' \in [Task -> {"new", "signin", "bound", "listed", "in", "leaving", "unbound",
                                "idle", "apply", "applied", "decide"}]
           /\ \A x \in Socket : x # t /\ pc'[x] = pc[x]
<1>1. t \in Task /\ \A x \in Socket : x \in Task /\ x # t
  BY Zenon, UserOfTask
<1>2. pc'[t] = v /\ \A x \in Task : x # t => pc'[x] = pc[x]
  BY Zenon, <1>1 DEF UserTypeOK
<1>3. pc' \in [Task -> {"new", "signin", "bound", "listed", "in", "leaving", "unbound",
                        "idle", "apply", "applied", "decide"}]
  BY Zenon, <1>1 DEF UserTypeOK
<1> QED
  BY Zenon, <1>1, <1>2, <1>3

\* Where a task goes before it has the mutex is of no consequence.
LEMMA QuietStep ==
    ASSUME UserInv, NEW t \in Task, NEW v,
           \/ pc[t] = "new" /\ v = "signin"
           \/ pc[t] = "in" /\ v = "leaving"
           \/ pc[t] = "idle" /\ v \in {"apply", "decide"},
           pc' = [pc EXCEPT ![t] = v],
           \A x \in Task : x # t => UserOf(x)' = UserOf(x),
           t # "bus" => work'.bus = work.bus,
           UNCHANGED <<index, watchers, found, tell, sessions, told, misled, blind, known, snap, since>>,
           todo'.gc = todo.gc
    PROVE  IndexInv' /\ WatchInv' /\ KnownInv' /\ SessionsInv' /\ DecisionInv' /\ TruthInv'
<1> USE DEF UserInv
<1>1. pc'[t] = v /\ \A x \in Task : x # t => pc'[x] = pc[x]
  BY Zenon DEF UserTypeOK
<1>2. \A x \in Task : /\ pc'[x] \in Registered <=> pc[x] \in Registered
                      /\ pc'[x] \in {"bound", "listed"} <=> pc[x] \in {"bound", "listed"}
                      /\ pc'[x] \in {"listed", "in", "leaving"} <=> pc[x] \in {"listed", "in", "leaving"}
                      /\ pc'[x] = "listed" <=> pc[x] = "listed"
                      /\ pc'[x] = "unbound" <=> pc[x] = "unbound"
                      /\ pc'[x] \in InSection <=> pc[x] \in InSection
  BY Zenon, <1>1 DEF Registered, InSection
<1>3. pc[t] \notin InSection
  BY Zenon DEF InSection
<1>4. \A s \in Socket : s \in Task
  BY Zenon DEF Task
<1>5. IndexInv'
  BY Zenon, <1>2, <1>4 DEF IndexInv
<1>6. WatchInv'
  BY Zenon, <1>2, <1>4 DEF WatchInv
<1>7. \A u : (Believed(u)' <=> Believed(u)) /\ (Open(u)' <=> Open(u))
  BY Zenon DEF Believed, Open
<1>8. KnownInv'
  BY Zenon, <1>2, <1>4, <1>7 DEF KnownInv
<1>9. SessionsInv'
  BY Zenon DEF SessionsInv
<1>10. \A u : (Named(u)' <=> Named(u)) /\ (Deciding(u)' <=> Deciding(u))
  <2>1. \A u : Named(u)' <=> Named(u)
    BY Zenon DEF Named
  <2>2. \A x \in Task : x # t => (pc'[x] \in InSection /\ tell'[x] # "nothing" <=> pc[x] \in InSection /\ tell[x] # "nothing")
    BY Zenon, <1>2
  <2>3. \A u : Deciding(u)' <=> Deciding(u)
    BY Zenon, <1>2, <1>3, <2>2 DEF Deciding
  <2> QED
    BY Zenon, <2>1, <2>3
<1>11. tell[t] = "nothing"
  BY Zenon, <1>3 DEF DecisionInv
<1>12. DecisionInv'
  <2>1. tell["bus"]' = "online" => work'.bus = work.bus
    BY Zenon, <1>11
  <2>2. \A x \in Task : tell'[x] = "offline" => UserOf(x)' = UserOf(x)
    BY Zenon, <1>11
  <2>3. \A x \in Task : Named(UserOf(x))' <=> Named(UserOf(x)')
    BY Zenon DEF Named
  <2>4. \A x \in Task : tell'[x] = "offline" /\ Named(UserOf(x))' => UserOf(x)' \in blind'
    BY Zenon, <1>10, <2>2, <2>3 DEF DecisionInv, Named
  <2> QED
    BY Zenon, <1>2, <1>4, <2>1, <2>4 DEF DecisionInv
<1>13. \A s : Heard(s)' = Heard(s)
  BY Zenon DEF Heard
<1>14. TruthInv'
  BY Zenon, <1>2, <1>4, <1>10, <1>13 DEF TruthInv
<1> QED
  BY Zenon, <1>5, <1>6, <1>8, <1>9, <1>12, <1>14

\* Nor is how old the entries of the peers are, as long as they name the same users.
LEMMA EntriesStay ==
    ASSUME UserInv, UNCHANGED <<pc, lockOf, arc, work, index, watchers, found, tell, told, misled,
                                blind, known, snap, since>>,
           sessions' \in [Peer -> [age : {"none", "live", "stale"}, users : SUBSET User]],
           \A p \in Peer : sessions'[p].users = sessions[p].users,
           SessionsInv', tell["bus"] = "nothing",
           DOMAIN todo' = {"bus", "gc"}, todo'.gc = todo.gc, todo'.bus \subseteq Item
    PROVE  UserInv'
<1> USE DEF UserInv
<1>1. \A x : UserOf(x)' = UserOf(x)
  BY Zenon DEF UserOf
<1>2. UserTypeOK' /\ LockInv' /\ IndexInv' /\ WatchInv'
  <2>1. UserTypeOK'
    BY Zenon DEF UserTypeOK
  <2>2. LockInv' /\ IndexInv' /\ WatchInv'
    BY Zenon, <1>1 DEF LockInv, IndexInv, WatchInv
  <2> QED
    BY Zenon, <2>1, <2>2
<1>3. \A u : /\ Believed(u)' <=> Believed(u)
             /\ Open(u)' <=> Open(u)
             /\ Named(u)' <=> Named(u)
             /\ Deciding(u)' <=> Deciding(u)
             /\ Heard(u)' = Heard(u)
  BY Zenon, <1>1 DEF Believed, Open, Named, Deciding, Heard
<1>4. KnownInv' /\ TruthInv'
  BY Zenon, <1>3 DEF KnownInv, TruthInv
<1>5. \A x : Named(UserOf(x))' <=> Named(UserOf(x))
  BY Zenon, <1>1 DEF Named
<1>6. tell["bus"]' # "online"
  OBVIOUS
<1>7. DecisionInv'
  BY Zenon, <1>1, <1>5, <1>6 DEF DecisionInv
<1> QED
  BY Zenon, <1>2, <1>4, <1>7

\* A sign-in or a cleanup begins.
LEMMA SocketBeginsStep ==
    ASSUME UserInv, NEW s \in Socket, HandleSignin(s) \/ Disconnect(s)
    PROVE  UserInv'
<1> USE DEF UserInv
<1>1. PICK v \in {"signin", "leaving"} :
         /\ \/ pc[s] = "new" /\ v = "signin"
            \/ pc[s] = "in" /\ v = "leaving"
         /\ pc' = [pc EXCEPT ![s] = v]
         /\ TakeArc(s, SignsIn[s])
         /\ UNCHANGED <<registry, found, tell, peers, published, clients>>
  <2>1. CASE HandleSignin(s)
    <3>1. /\ pc[s] = "new"
          /\ pc' = [pc EXCEPT ![s] = "signin"]
          /\ TakeArc(s, SignsIn[s])
          /\ UNCHANGED <<registry, found, tell, peers, published, clients>>
      BY Zenon, <2>1 DEF HandleSignin
    <3> QED
      BY Zenon, <3>1
  <2>2. CASE Disconnect(s)
    <3>1. /\ pc[s] = "in"
          /\ pc' = [pc EXCEPT ![s] = "leaving"]
          /\ TakeArc(s, SignsIn[s])
          /\ UNCHANGED <<registry, found, tell, peers, published, clients>>
      BY Zenon, <2>2 DEF Disconnect
    <3> QED
      BY Zenon, <3>1
  <2> QED
    BY Zenon, <2>1, <2>2
<1>2. UNCHANGED <<index, watchers, found, tell, sessions, work, todo, told, misled, blind, known, snap, since>>
  BY Zenon, <1>1 DEF registry, peers, published, clients
<1>3. s \in Task /\ SignsIn[s] \in User /\ UserOf(s)' = SignsIn[s] /\ pc[s] \notin Referring
  BY Zenon, <1>1, UserOfTask DEF Referring
<1>4. \A x \in Task : UserOf(x)' = UserOf(x)
  BY Zenon, <1>2 DEF UserOf
<1>5. /\ LockInv'
      /\ lockOf' \in [User -> Mutex \cup {Nobody}] /\ arc' \in [Task -> Mutex \cup {Nobody}]
  <2>1. v \in {"signin", "leaving", "apply", "decide"}
    BY Zenon, <1>1
  <2> QED
    BY Zenon, <1>1, <1>3, <1>4, <2>1, AcquireKeepsLocks
<1>6. IndexInv' /\ WatchInv' /\ KnownInv' /\ SessionsInv' /\ DecisionInv' /\ TruthInv'
  BY Zenon, <1>1, <1>2, <1>3, <1>4, QuietStep
<1>7. /\ pc' \in [Task -> {"new", "signin", "bound", "listed", "in", "leaving", "unbound",
                           "idle", "apply", "applied", "decide"}]
      /\ \A x \in Socket : pc'[x] \in {"new", "signin", "bound", "listed", "in", "leaving", "unbound"}
      /\ pc'["bus"] = pc["bus"] /\ pc'["gc"] = pc["gc"]
  <2>1. v \in {"new", "signin", "bound", "listed", "in", "leaving", "unbound"}
    BY Zenon, <1>1
  <2> QED
    BY Zenon, <1>1, <2>1, SocketMoves
<1>8. UserTypeOK'
  BY Zenon, <1>2, <1>5, <1>7 DEF UserTypeOK
<1> QED
  BY Zenon, <1>5, <1>6, <1>8

\* The bus consumer has nothing to tell between two items.
LEMMA BusTellsNothing ==
    ASSUME UserInv, pc["bus"] = "idle"
    PROVE  tell["bus"] = "nothing"
<1>1. pc["bus"] \notin InSection
  BY Zenon DEF InSection
<1> QED
  BY Zenon, <1>1, UserOfTask DEF UserInv, DecisionInv

\* The bus consumer turns to a user.
LEMMA BusStartStep ==
    ASSUME UserInv, NEW item \in Item, BusStart(item),
           todo'.gc = todo.gc, DOMAIN todo' = {"bus", "gc"}, todo'.bus \subseteq todo.bus,
           UNCHANGED <<registry, found, tell, sessions, published, clients>>
    PROVE  UserInv'
<1> USE DEF UserInv
<1>1. /\ pc["bus"] = "idle" /\ pc' = [pc EXCEPT !["bus"] = "apply"] /\ TakeArc("bus", item.user)
      /\ work' = [work EXCEPT !.bus = item]
      /\ UNCHANGED <<index, watchers, found, tell, sessions, told, misled, blind, known, snap, since>>
  BY Zenon DEF BusStart, registry, published, clients
<1>2. work'.bus = item /\ work'.gc = work.gc /\ DOMAIN work' = {"bus", "gc"}
  BY Zenon, <1>1 DEF UserTypeOK
<1>3. item.user \in User
  BY Zenon DEF Item
<1>4. UserOf("bus")' = item.user /\ pc["bus"] \notin Referring /\ "bus" \in Task
  BY Zenon, <1>1, <1>2, UserOfTask DEF Referring
<1>5. \A x \in Task : x # "bus" => UserOf(x)' = UserOf(x)
  BY Zenon, <1>2, UserOfTask
<1>6. /\ LockInv'
      /\ lockOf' \in [User -> Mutex \cup {Nobody}] /\ arc' \in [Task -> Mutex \cup {Nobody}]
  BY Zenon, <1>1, <1>3, <1>4, <1>5, AcquireKeepsLocks
<1>7. IndexInv' /\ WatchInv' /\ KnownInv' /\ SessionsInv' /\ DecisionInv' /\ TruthInv'
  BY Zenon, <1>1, <1>4, <1>5, QuietStep
<1>8. /\ pc'["bus"] = "apply" /\ pc'["gc"] = pc["gc"] /\ \A x \in Socket : pc'[x] = pc[x]
      /\ pc' \in [Task -> {"new", "signin", "bound", "listed", "in", "leaving", "unbound",
                           "idle", "apply", "applied", "decide"}]
  BY Zenon, <1>1, TaskMoves, UserOfTask
<1>9. UserTypeOK'
  <2>1. todo'.bus \subseteq Item
    BY Zenon DEF UserTypeOK
  <2>2. pc'["bus"] \in {"idle", "apply", "applied"}
    BY Zenon, <1>8
  <2> QED
    BY ZenonT(30), <1>1, <1>2, <1>6, <1>8, <2>1, <2>2 DEF UserTypeOK
<1> QED
  BY Zenon, <1>6, <1>7, <1>9

\* A live message.
LEMMA BusLiveStep ==
    ASSUME UserInv, NEW p \in Peer, NEW u \in PeerUser, NEW event \in {"online", "offline"}, BusLive(p, u, event)
    PROVE  UserInv'
<1> DEFINE item == [peer |-> p, user |-> u, event |-> event]
<1>1. item \in Item
  BY Zenon, UserConstants DEF Item
<1>2. BusStart(item) /\ todo' = todo /\ UNCHANGED <<registry, found, tell, sessions, published, clients>>
  BY Zenon DEF BusLive
<1>3. DOMAIN todo' = {"bus", "gc"} /\ todo'.gc = todo.gc /\ todo'.bus \subseteq todo.bus
  BY Zenon, <1>2 DEF UserInv, UserTypeOK
<1> HIDE DEF item
<1> QED
  BY Zenon, <1>1, <1>2, <1>3, BusStartStep

\* The next difference between a session snapshot and the entry.
LEMMA BusDifferenceStep ==
    ASSUME UserInv, NEW item \in todo.bus, BusDifference(item)
    PROVE  UserInv'
<1> USE DEF UserInv
<1>1. /\ todo' = [todo EXCEPT !.bus = @ \ {item}]
      /\ UNCHANGED <<registry, found, tell, sessions, published, clients>>
      /\ BusStart(item) \/ UNCHANGED <<pc, locks, work>>
      /\ pc["bus"] = "idle"
  BY Zenon DEF BusDifference, BusStart
<1>2. DOMAIN todo' = {"bus", "gc"} /\ todo'.gc = todo.gc /\ todo'.bus \subseteq todo.bus /\ item \in Item
  BY Zenon, <1>1 DEF UserTypeOK
<1>3. CASE BusStart(item)
  BY Zenon, <1>1, <1>2, <1>3, BusStartStep
<1>4. CASE UNCHANGED <<pc, locks, work>>
  <2>1. UNCHANGED <<pc, lockOf, arc, work, index, watchers, found, tell, sessions, told, misled, blind, known,
                    snap, since>>
    BY Zenon, <1>1, <1>4 DEF locks, registry, published, clients
  <2> QED
    <3>1. tell["bus"] = "nothing"
      BY Zenon, <1>1, BusTellsNothing
    <3>2. SessionsInv' /\ todo'.bus \subseteq Item
      BY Zenon, <1>2, <2>1 DEF SessionsInv, UserTypeOK
    <3>3. /\ sessions' \in [Peer -> [age : {"none", "live", "stale"}, users : SUBSET User]]
          /\ \A p \in Peer : sessions'[p].users = sessions[p].users
      BY Zenon, <2>1 DEF UserTypeOK
    <3> QED
      BY Zenon, <1>2, <2>1, <3>1, <3>2, <3>3, EntriesStay
<1> QED
  BY Zenon, <1>1, <1>3, <1>4

\* The GC turns to a user.
LEMMA GcUserStep ==
    ASSUME UserInv, NEW u \in todo.gc, GcUser(u)
    PROVE  UserInv'
<1> USE DEF UserInv
<1>1. /\ pc["gc"] = "idle" /\ pc' = [pc EXCEPT !["gc"] = "decide"] /\ TakeArc("gc", u)
      /\ work' = [work EXCEPT !.gc = u]
      /\ UNCHANGED <<index, watchers, found, tell, sessions, todo, told, misled, blind, known, snap, since>>
  BY Zenon DEF GcUser, registry, published, clients
<1>2. work'.gc = u /\ work'.bus = work.bus /\ DOMAIN work' = {"bus", "gc"}
  BY Zenon, <1>1 DEF UserTypeOK
<1>3. u \in User
  BY Zenon DEF UserTypeOK
<1>4. UserOf("gc")' = u /\ pc["gc"] \notin Referring /\ "gc" \in Task /\ "gc" # "bus"
  BY Zenon, <1>1, <1>2, UserOfTask DEF Referring
<1>5. \A x \in Task : x # "gc" => UserOf(x)' = UserOf(x)
  BY Zenon, <1>2, UserOfTask
<1>6. /\ LockInv'
      /\ lockOf' \in [User -> Mutex \cup {Nobody}] /\ arc' \in [Task -> Mutex \cup {Nobody}]
  BY Zenon, <1>1, <1>3, <1>4, <1>5, AcquireKeepsLocks
<1>7. IndexInv' /\ WatchInv' /\ KnownInv' /\ SessionsInv' /\ DecisionInv' /\ TruthInv'
  BY Zenon, <1>1, <1>2, <1>4, <1>5, QuietStep
<1>8. /\ pc'["gc"] = "decide" /\ pc'["bus"] = pc["bus"] /\ \A x \in Socket : pc'[x] = pc[x]
      /\ pc' \in [Task -> {"new", "signin", "bound", "listed", "in", "leaving", "unbound",
                           "idle", "apply", "applied", "decide"}]
  BY Zenon, <1>1, TaskMoves, UserOfTask
<1>9. UserTypeOK'
  <2>1. pc'["gc"] \in {"idle", "decide"}
    BY Zenon, <1>8
  <2> QED
    BY Zenon, <1>1, <1>2, <1>6, <1>8, <2>1 DEF UserTypeOK
<1> QED
  BY Zenon, <1>6, <1>7, <1>9

\* A session snapshot arrives: the entry is live again and names whom it named.
LEMMA BusSnapshotStep ==
    ASSUME UserInv, NEW p \in Peer, NEW reported \in SUBSET PeerUser, BusSnapshot(p, reported)
    PROVE  UserInv'
<1> USE DEF UserInv
<1>1. /\ sessions' = [sessions EXCEPT ![p].age = "live"]
      /\ \E S : todo' = [todo EXCEPT !.bus = S]
      /\ pc["bus"] = "idle"
      /\ UNCHANGED <<pc, lockOf, arc, work, index, watchers, found, tell, told, misled, blind, known, snap, since>>
  BY Zenon DEF BusSnapshot, locks, registry, published, clients
<1>2. /\ sessions' \in [Peer -> [age : {"none", "live", "stale"}, users : SUBSET User]]
      /\ \A q \in Peer : sessions'[q].users = sessions[q].users
      /\ \A q \in Peer : sessions'[q].age = sessions[q].age \/ sessions'[q].age = "live"
  BY <1>1 DEF UserTypeOK
<1>3. DOMAIN todo' = {"bus", "gc"} /\ todo'.gc = todo.gc
  BY Zenon, <1>1 DEF UserTypeOK
<1>4. todo'.bus \subseteq Item
  <2>1. sessions[p].users \subseteq User /\ reported \subseteq User
    BY Zenon, UserConstants DEF UserTypeOK
  <2>2. todo'.bus = {[peer |-> p, user |-> u, event |-> "online"] : u \in reported \ sessions[p].users}
                       \cup {[peer |-> p, user |-> u, event |-> "offline"] : u \in sessions[p].users \ reported}
    BY Zenon DEF BusSnapshot, UserTypeOK
  <2> QED
    BY <2>1, <2>2 DEF Item
<1>5. SessionsInv'
  BY Zenon, <1>2, <1>3 DEF SessionsInv
<1> QED
  BY Zenon, <1>1, <1>2, <1>3, <1>4, <1>5, BusTellsNothing, EntriesStay

\* An entry grows old between two GC passes.
LEMMA ExpireSessionStep ==
    ASSUME UserInv, NEW p \in Peer, ExpireSession(p)
    PROVE  UserInv'
<1> USE DEF UserInv
<1>1. /\ sessions' = [sessions EXCEPT ![p].age = "stale"] /\ todo' = todo /\ todo = [bus |-> {}, gc |-> {}]
      /\ sessions[p].age = "live" /\ pc["bus"] = "idle"
      /\ UNCHANGED <<pc, lockOf, arc, work, index, watchers, found, tell, told, misled, blind, known, snap, since>>
  BY Zenon DEF ExpireSession, locks, registry, published, clients
<1>2. /\ sessions' \in [Peer -> [age : {"none", "live", "stale"}, users : SUBSET User]]
      /\ \A q \in Peer : sessions'[q].users = sessions[q].users
      /\ \A q \in Peer : sessions'[q].age = "none" => sessions[q].age = "none"
  BY <1>1 DEF UserTypeOK
<1>3. DOMAIN todo' = {"bus", "gc"} /\ todo'.gc = todo.gc /\ todo'.bus \subseteq Item /\ todo'.gc = {}
  BY Zenon, <1>1 DEF UserTypeOK
<1>4. SessionsInv'
  BY Zenon, <1>2, <1>3 DEF SessionsInv
<1> QED
  BY Zenon, <1>1, <1>2, <1>3, <1>4, BusTellsNothing, EntriesStay

(***************************************************************************)
(* What the peers know                                                     *)
(***************************************************************************)

\* The steps of the session snapshot touch only what the peers know.
LEMMA OnlyPublished ==
    ASSUME UserInv, UNCHANGED <<pc, locks, registry, found, tell, peers, clients>>,
           known' \subseteq User, since' \subseteq User,
           snap' \in [step : {"idle", "drawn", "captured"}, users : SUBSET User], KnownInv'
    PROVE  UserInv'
<1> USE DEF UserInv
<1>1. UNCHANGED <<pc, lockOf, arc, index, watchers, found, tell, sessions, work, todo, told, misled, blind>>
  BY Zenon DEF locks, registry, peers, clients
<1>2. \A x : UserOf(x)' = UserOf(x)
  BY Zenon, <1>1 DEF UserOf
<1>3. UserTypeOK' /\ LockInv' /\ IndexInv' /\ WatchInv' /\ SessionsInv'
  <2>1. UserTypeOK'
    BY Zenon, <1>1 DEF UserTypeOK
  <2>2. LockInv' /\ IndexInv' /\ WatchInv' /\ SessionsInv'
    BY Zenon, <1>1, <1>2 DEF LockInv, IndexInv, WatchInv, SessionsInv
  <2> QED
    BY Zenon, <2>1, <2>2
<1>4. \A u : (Named(u)' <=> Named(u)) /\ (Deciding(u)' <=> Deciding(u)) /\ Heard(u)' = Heard(u)
  BY Zenon, <1>1, <1>2 DEF Named, Deciding, Heard
<1>5. TruthInv'
  BY Zenon, <1>1, <1>4 DEF TruthInv
<1>6. \A x : Named(UserOf(x))' <=> Named(UserOf(x))
  BY Zenon, <1>1, <1>2 DEF Named
<1>7. DecisionInv'
  BY Zenon, <1>1, <1>2, <1>6 DEF DecisionInv
<1> QED
  BY Zenon, <1>3, <1>5, <1>7

\* Between the draw and the publication of a snapshot, live messages have the
\* higher numbers; without one, the snapshot tells what was so when it was captured
\* and has not changed.
LEMMA SessionSnapshotStep ==
    ASSUME UserInv, SessionSnapshotDraw \/ SessionSnapshotCapture \/ PublishUserSessionSnapshot
    PROVE  UserInv'
<1> USE DEF UserInv
<1>1. UNCHANGED <<pc, locks, registry, found, tell, peers, clients>> /\ UNCHANGED <<pc, index>>
  BY Zenon DEF SessionSnapshotDraw, SessionSnapshotCapture, PublishUserSessionSnapshot, registry
<1>2. CASE SessionSnapshotDraw
  <2>1. snap'.step = "drawn" /\ snap'.users = {} /\ known' = known /\ since' = since /\ since = {}
    BY Zenon, <1>2 DEF SessionSnapshotDraw, KnownInv
  <2>2. \A u \in User : Open(u)'
    BY Zenon, <2>1 DEF Open
  <2>3. KnownInv'
    BY Zenon, <2>1, <2>2 DEF KnownInv
  <2>4. snap' \in [step : {"idle", "drawn", "captured"}, users : SUBSET User]
    BY Zenon, <1>2 DEF SessionSnapshotDraw
  <2> QED
    BY Zenon, <1>1, <2>1, <2>3, <2>4, OnlyPublished DEF UserTypeOK
<1>3. CASE SessionSnapshotCapture
  <2>1. /\ snap.step = "drawn" /\ snap' = [step |-> "captured", users |-> LocalUserIds]
        /\ known' = known /\ since' = since
    BY Zenon, <1>3 DEF SessionSnapshotCapture
  <2>2. snap'.step = "captured" /\ snap'.users = LocalUserIds
    BY Zenon, <2>1
  <2>3. \A u \in User : ~Open(u)' /\ (u \in since => (Believed(u)' <=> Believed(u)) /\ ~Open(u))
    BY Zenon, <2>1, <2>2 DEF Open, Believed
  <2>4. \A u \in User : u \notin since => (Believed(u)' <=> index[u] # {})
    BY Zenon, <2>1, <2>2 DEF Believed, LocalUserIds, IsUserOnline
  <2>5. \A s \in Socket : pc[s] \in {"bound", "listed"} => index[SignsIn[s]] # {}
    BY UserOfTask DEF IndexInv, Registered
  <2>6. KnownInv'
    <3>1. snap'.step # "idle"
      BY Zenon, <2>2
    <3>2. ASSUME NEW u \in User
          PROVE  /\ (\A s \in Socket : pc[s] \in InSection => SignsIn[s] # u) => (Believed(u)' <=> index[u] # {})
                 /\ \A s \in Socket : pc[s] \in {"bound", "listed"} /\ SignsIn[s] = u /\ index[u] # {s} => Believed(u)'
      BY Zenon, <2>3, <2>4, <2>5 DEF KnownInv
    <3> QED
      BY Zenon, <1>1, <3>1, <3>2 DEF KnownInv
  <2>7. snap' \in [step : {"idle", "drawn", "captured"}, users : SUBSET User]
    BY Zenon, <2>1 DEF LocalUserIds
  <2> QED
    BY Zenon, <1>1, <2>1, <2>6, <2>7, OnlyPublished DEF UserTypeOK
<1>4. CASE PublishUserSessionSnapshot
  <2>1. /\ snap.step = "captured" /\ known' = (known \cap since) \cup (snap.users \ since)
        /\ snap' = NoSnapshot /\ since' = {}
    BY Zenon, <1>4 DEF PublishUserSessionSnapshot, Superseded
  <2>2. snap'.step = "idle" /\ snap' \in [step : {"idle", "drawn", "captured"}, users : SUBSET User]
    BY Zenon, <2>1 DEF NoSnapshot
  <2>3. \A u \in User : (Believed(u)' <=> Believed(u)) /\ ~Open(u)
    BY Zenon, <2>1, <2>2 DEF Believed, Open
  <2>4. KnownInv'
    BY Zenon, <1>1, <2>1, <2>3 DEF KnownInv
  <2>5. known' \subseteq User /\ since' \subseteq User
    BY Zenon, <2>1 DEF UserTypeOK
  <2> QED
    BY Zenon, <1>1, <2>2, <2>4, <2>5, OnlyPublished
<1> QED
  BY Zenon, <1>2, <1>3, <1>4

(***************************************************************************)
(* Decisions and announcements                                             *)
(***************************************************************************)

\* Online means named by a socket or a live entry.
LEMMA NamedOnline ==
    ASSUME UserInv, NEW u \in User
    PROVE  /\ Online(u) => Named(u)
           /\ Named(u) => Online(u) \/ StaleNames(u)
           /\ Named(u) /\ todo.gc # {} => Online(u)
<1>1. Online(u) => Named(u)
  BY Zenon DEF Online, IsUserOnline, IsPresentExcluding, Named
<1>2. ASSUME NEW p \in Peer, u \in sessions[p].users PROVE sessions[p].age \in {"live", "stale"}
  <2>1. sessions[p].age \in {"none", "live", "stale"} /\ sessions[p].age # "none"
    BY Zenon, <1>2 DEF UserInv, UserTypeOK, SessionsInv
  <2> QED
    BY Zenon, <2>1
<1>3. Named(u) => Online(u) \/ StaleNames(u)
  BY Zenon, <1>2 DEF Online, IsUserOnline, IsPresentExcluding, Named, StaleNames
<1>4. todo.gc # {} => ~StaleNames(u)
  BY Zenon DEF UserInv, SessionsInv, StaleNames
<1> QED
  BY Zenon, <1>1, <1>3, <1>4

\* The connections that an event about u goes to.
LEMMA Reach ==
    ASSUME UserInv, NEW u \in User
    PROVE  /\ \A s \in Targets(u) : s \in Socket /\ pc[s] \in Registered
           /\ \A s \in Socket : pc[s] \in Registered /\ u \in Watchlist[s] => s \in Targets(u)
<1>1. \A w \in User : \A s \in index[w] : s \in Socket /\ pc[s] \in Registered
  BY Zenon DEF UserInv, IndexInv
<1>2. watchers[u] \subseteq User
  BY Zenon DEF UserInv, UserTypeOK
<1>3. \A s \in Targets(u) : s \in Socket /\ pc[s] \in Registered
  BY Zenon, <1>1, <1>2 DEF Targets
<1>4. ASSUME NEW s \in Socket, pc[s] \in Registered, u \in Watchlist[s] PROVE s \in Targets(u)
  <2>1. SignsIn[s] \in watchers[u]
    BY Zenon, <1>4 DEF UserInv, WatchInv
  <2>2. s \in index[SignsIn[s]]
    BY SMTT(30), <1>4, UserOfTask DEF UserInv, IndexInv
  <2> QED
    BY Zenon, <2>1, <2>2 DEF Targets
<1> QED
  BY Zenon, <1>3, <1>4

\* What an event about u changes.
LEMMA FanoutFacts ==
    ASSUME UserInv, NEW u \in User, NEW event \in {"nothing", "online", "offline"}, Fanout(u, event)
    PROVE  /\ told' \in [Socket -> SUBSET User]
           /\ \A s \in Socket, v \in User : v # u =>
                 /\ v \in told'[s] <=> v \in told[s]
                 /\ <<s, v>> \in misled' <=> <<s, v>> \in misled
           /\ \A v \in User : v # u => (v \in blind' <=> v \in blind)
           /\ \A s \in Socket : pc[s] \notin Registered => told'[s] = told[s]
           /\ event = "nothing" => UNCHANGED <<told, misled, blind>>
           /\ event = "offline" => blind' = blind
           /\ \A s \in Socket : pc[s] \in Registered /\ u \in Watchlist[s] =>
                 /\ event = "online" => u \in told'[s]
                 /\ event = "offline" =>
                       u \notin told'[s] /\ (pc[s] = "listed" /\ u \in found[s] => <<s, u>> \in misled')
<1> DEFINE T == Targets(u)
<1>1. told \in [Socket -> SUBSET User]
  BY Zenon DEF UserInv, UserTypeOK
<1>2. /\ \A s \in T : s \in Socket /\ pc[s] \in Registered
      /\ \A s \in Socket : pc[s] \in Registered /\ u \in Watchlist[s] => s \in T
  BY Zenon, Reach
<1>3. CASE event = "nothing"
  <2>1. UNCHANGED <<told, misled, blind>>
    BY Zenon, <1>3 DEF Fanout, clients
  <2> QED
    BY Zenon, <1>1, <1>3, <2>1
<1>4. CASE event = "online"
  <2>1. /\ told' = [s \in Socket |-> IF s \in T THEN told[s] \cup {u} ELSE told[s]]
        /\ misled' = misled \ (T \X {u})
        /\ blind' = blind \ {u}
    BY Zenon, <1>4 DEF Fanout
  <2> HIDE DEF T
  <2>2. told' \in [Socket -> SUBSET User]
    BY Zenon, <1>1, <2>1
  <2>3. \A s \in Socket : told'[s] = IF s \in T THEN told[s] \cup {u} ELSE told[s]
    BY Zenon, <2>1
  <2>4. \A s \in Socket, v \in User : v # u =>
           /\ v \in told'[s] <=> v \in told[s]
           /\ <<s, v>> \in misled' <=> <<s, v>> \in misled
    BY Zenon, <2>1, <2>3
  <2>5. \A v \in User : v # u => (v \in blind' <=> v \in blind)
    BY Zenon, <2>1
  <2>6. \A s \in Socket : pc[s] \notin Registered => told'[s] = told[s]
    BY Zenon, <1>2, <2>3
  <2>7. \A s \in Socket : pc[s] \in Registered /\ u \in Watchlist[s] => u \in told'[s]
    BY Zenon, <1>2, <2>3
  <2> QED
    BY Zenon, <1>4, <2>2, <2>4, <2>5, <2>6, <2>7
<1>5. CASE event = "offline"
  <2>1. /\ told' = [s \in Socket |-> IF s \in T THEN told[s] \ {u} ELSE told[s]]
        /\ misled' = (misled \ (T \X {u})) \cup ({s \in T : pc[s] = "listed" /\ u \in found[s]} \X {u})
        /\ blind' = blind
    BY Zenon, <1>5 DEF Fanout
  <2> HIDE DEF T
  <2>2. told' \in [Socket -> SUBSET User]
    BY Zenon, <1>1, <2>1
  <2>3. \A s \in Socket : told'[s] = IF s \in T THEN told[s] \ {u} ELSE told[s]
    BY Zenon, <2>1
  <2>4. \A s \in Socket, v \in User : v # u =>
           /\ v \in told'[s] <=> v \in told[s]
           /\ <<s, v>> \in misled' <=> <<s, v>> \in misled
    BY Zenon, <2>1, <2>3
  <2>5. \A s \in Socket : pc[s] \notin Registered => told'[s] = told[s]
    BY Zenon, <1>2, <2>3
  <2>6. \A s \in Socket : pc[s] \in Registered /\ u \in Watchlist[s] =>
           u \notin told'[s] /\ (pc[s] = "listed" /\ u \in found[s] => <<s, u>> \in misled')
    BY Zenon, <1>2, <2>1, <2>3
  <2> QED
    BY Zenon, <1>5, <2>1, <2>2, <2>4, <2>5, <2>6
<1> QED
  BY Zenon, <1>3, <1>4, <1>5

\* The events that are decided on about other users, and about u.
LEMMA DecidingMoves ==
    ASSUME NEW t \in Task, NEW u,
           \A x \in Task : x # t => pc'[x] = pc[x] /\ tell'[x] = tell[x] /\ UserOf(x)' = UserOf(x),
           pc[t] \in InSection => UserOf(t) = u, pc'[t] \in InSection => UserOf(t)' = u,
           \A x \in Task : x # t /\ pc[x] \in InSection => UserOf(x) # u
    PROVE  /\ \A v : v # u => (Deciding(v)' <=> Deciding(v))
           /\ Deciding(u) <=> pc[t] \in InSection /\ tell[t] # "nothing"
           /\ Deciding(u)' <=> pc'[t] \in InSection /\ tell'[t] # "nothing"
BY Zenon DEF Deciding

\* The step of an announcement: afterwards everybody who is connected knows.
LEMMA AnnouncementKeepsTruth ==
    ASSUME UserInv, NEW u \in User, NEW event \in {"nothing", "online", "offline"}, Fanout(u, event),
           UNCHANGED <<index, sessions, found>>,
           \A s \in Socket : pc'[s] = pc[s] \/ (pc[s] = "unbound" /\ pc'[s] = "new"),
           \A v \in User : v # u => (Deciding(v)' <=> Deciding(v)) /\ (v \in todo'.gc <=> v \in todo.gc),
           event = "nothing" => ~Deciding(u) /\ (Named(u) \/ (u \in todo.gc => u \in todo'.gc)),
           event = "online" => Named(u),
           event = "offline" /\ Named(u) => u \in blind
    PROVE  TruthInv'
<1>1. /\ told' \in [Socket -> SUBSET User]
      /\ \A s \in Socket, v \in User : v # u =>
             /\ v \in told'[s] <=> v \in told[s]
             /\ <<s, v>> \in misled' <=> <<s, v>> \in misled
      /\ \A v \in User : v # u => (v \in blind' <=> v \in blind)
      /\ \A s \in Socket : pc[s] \notin Registered => told'[s] = told[s]
      /\ event = "nothing" => UNCHANGED <<told, misled, blind>>
      /\ event = "offline" => blind' = blind
      /\ \A s \in Socket : pc[s] \in Registered /\ u \in Watchlist[s] =>
            /\ event = "online" => u \in told'[s]
            /\ event = "offline" =>
                  u \notin told'[s] /\ (pc[s] = "listed" /\ u \in found[s] => <<s, u>> \in misled')
  BY ZenonT(30), FanoutFacts
<1>2. \A s \in Socket : /\ pc'[s] \in Registered <=> pc[s] \in Registered
                        /\ pc'[s] \in {"listed", "in", "leaving"} <=> pc[s] \in {"listed", "in", "leaving"}
                        /\ pc'[s] = "listed" <=> pc[s] = "listed"
                        /\ pc[s] \in {"listed", "in", "leaving"} => pc[s] \in Registered
  BY Zenon DEF Registered
<1>3. \A v : Named(v)' <=> Named(v)
  BY Zenon DEF Named
<1>4. \A s \in Socket : /\ pc'[s] # "listed" => found'[s] = {}
                        /\ pc'[s] \notin Registered => told'[s] = {}
  BY Zenon, <1>1, <1>2 DEF UserInv, TruthInv
<1>5. ASSUME NEW s \in Socket, NEW v \in Watchlist[s], <<s, v>> \notin misled', ~Deciding(v)'
      PROVE  /\ v \in Heard(s)' => Named(v)' \/ v \in todo'.gc
             /\ pc'[s] \in {"listed", "in", "leaving"} /\ Named(v)' /\ v \notin blind' => v \in Heard(s)'
  <2>1. v \in User
    BY Zenon, UserConstants
  <2>2. v \in Heard(s)' <=> v \in told'[s] \/ v \in found[s]
    BY Zenon DEF Heard
  <2>3. v \in Heard(s) <=> v \in told[s] \/ v \in found[s]
    BY Zenon DEF Heard
  <2>4. <<s, v>> \notin misled /\ ~Deciding(v) =>
           /\ v \in Heard(s) => Named(v) \/ v \in todo.gc
           /\ pc[s] \in {"listed", "in", "leaving"} /\ Named(v) /\ v \notin blind => v \in Heard(s)
    BY Zenon DEF UserInv, TruthInv
  <2>5. /\ pc[s] # "listed" => v \notin found[s]
        /\ pc[s] \notin Registered => v \notin told[s]
    BY Zenon DEF UserInv, TruthInv
  <2>6. CASE v # u
    BY Zenon, <1>1, <1>2, <1>3, <1>5, <2>1, <2>2, <2>3, <2>4, <2>6
  <2>7. CASE v = u /\ event = "nothing"
    <3>1. <<s, v>> \notin misled /\ ~Deciding(v) /\ told' = told /\ blind' = blind
      BY Zenon, <1>1, <1>5, <2>7
    <3> QED
      BY Zenon, <1>2, <1>3, <2>2, <2>3, <2>4, <2>7, <3>1
  <2>8. CASE v = u /\ event = "online"
    BY Zenon, <1>1, <1>2, <1>3, <2>2, <2>8
  <2>9. CASE v = u /\ event = "offline"
    <3>1. v \notin Heard(s)'
      BY Zenon, <1>1, <1>2, <1>5, <2>2, <2>5, <2>9
    <3> QED
      BY Zenon, <1>1, <1>3, <2>9, <3>1
  <2> QED
    BY Zenon, <2>6, <2>7, <2>8, <2>9
<1> QED
  BY Zenon, <1>4, <1>5 DEF TruthInv
\* While t works on u under the mutex, or is about to, nobody else does.
LEMMA Alone ==
    ASSUME UserInv, NEW t \in Task, pc[t] \in Referring, pc[t] \in InSection \/ MutexFree(t)
    PROVE  \A x \in Task : x # t /\ pc[x] \in InSection => UserOf(x) # UserOf(t)
BY Zenon, MutexExcludes DEF UserInv, LockInv

\* The decisions about other users stand.
LEMMA DecisionsOfOthers ==
    ASSUME UserInv, NEW t \in Task, NEW u,
           \A x \in Task : x # t => pc'[x] = pc[x] /\ tell'[x] = tell[x] /\ UserOf(x)' = UserOf(x),
           \A x \in Task : x # t /\ pc[x] \in InSection => UserOf(x) # u,
           \A v \in User : v # u => (Named(v)' => Named(v)) /\ (v \in blind => v \in blind')
    PROVE  \A x \in Task : x # t =>
              /\ pc'[x] \notin InSection => tell'[x] = "nothing"
              /\ x \in Socket /\ tell'[x] = "online" => pc'[x] \in {"bound", "listed"}
              /\ x \in Socket /\ tell'[x] = "offline" => pc'[x] = "unbound"
              /\ tell'[x] = "offline" /\ Named(UserOf(x))' => UserOf(x)' \in blind'
<1>1. ASSUME NEW x \in Task, x # t, tell'[x] = "offline", Named(UserOf(x))' PROVE UserOf(x)' \in blind'
  <2>1. pc[x] \in InSection /\ tell[x] = "offline"
    <3>1. "offline" # "nothing"
      OBVIOUS
    <3> QED
      BY Zenon, <1>1, <3>1 DEF UserInv, DecisionInv
  <2>2. InSection \subseteq Referring
    BY Zenon DEF InSection, Referring
  <2>3. UserOf(x) \in User /\ UserOf(x) # u /\ UserOf(x)' = UserOf(x)
    BY Zenon, <1>1, <2>1, <2>2, UserOfReferring DEF UserInv
  <2>4. Named(UserOf(x))
    BY Zenon, <1>1, <2>3 DEF Named
  <2>5. UserOf(x) \in blind
    BY Zenon, <2>1, <2>4 DEF UserInv, DecisionInv
  <2> QED
    BY Zenon, <2>3, <2>5
<1>2. \A x \in Task : x # t =>
         /\ pc'[x] \notin InSection => tell'[x] = "nothing"
         /\ x \in Socket /\ tell'[x] = "online" => pc'[x] \in {"bound", "listed"}
         /\ x \in Socket /\ tell'[x] = "offline" => pc'[x] = "unbound"
  BY Zenon DEF UserInv, DecisionInv
<1> QED
  BY Zenon, <1>1, <1>2

\* Steps of the bus consumer and of the GC leave the index, the watches and what
\* peers know alone.
LEMMA SocketsStay ==
    ASSUME UserInv, \A s \in Socket : pc'[s] = pc[s], UNCHANGED <<index, watchers, known, snap, since>>
    PROVE  IndexInv' /\ WatchInv' /\ KnownInv'
<1>1. IndexInv'
  BY Zenon DEF UserInv, IndexInv
<1>2. WatchInv'
  BY Zenon DEF UserInv, WatchInv
<1>3. \A u : (Believed(u)' <=> Believed(u)) /\ (Open(u)' <=> Open(u))
  BY Zenon DEF Believed, Open
<1>4. KnownInv'
  BY Zenon, <1>3 DEF UserInv, KnownInv
<1> QED
  BY Zenon, <1>1, <1>2, <1>4

(***************************************************************************)
(* The bus consumer and the GC                                             *)
(***************************************************************************)

\* The consumer announces what it decided.
LEMMA BusTellStep ==
    ASSUME UserInv, BusTell
    PROVE  UserInv'
<1> USE DEF UserInv
<1> DEFINE u == work.bus.user
           event == tell["bus"]
<1>1. /\ pc["bus"] = "applied" /\ Fanout(u, event) /\ Release("bus")
      /\ tell' = [tell EXCEPT !["bus"] = "nothing"] /\ work' = [work EXCEPT !.bus = Nobody]
      /\ pc' = [pc EXCEPT !["bus"] = "idle"]
      /\ UNCHANGED <<index, watchers, found, sessions, todo, known, snap, since>>
  BY Zenon DEF BusTell, registry, published
<1>2. /\ UserOf("bus") = u /\ u \in User /\ pc["bus"] \in Referring /\ pc["bus"] \in InSection /\ "bus" \in Task
      /\ event \in {"nothing", "online", "offline"}
      /\ "idle" \notin Referring /\ "idle" \notin InSection
  BY Zenon, <1>1, UserOfTask DEF UserTypeOK, Item, Referring, InSection
<1>3. work'.gc = work.gc /\ DOMAIN work' = {"bus", "gc"}
  BY Zenon, <1>1 DEF UserTypeOK
<1>4. \A x \in Task : x # "bus" => UserOf(x)' = UserOf(x)
  BY Zenon, <1>3, UserOfTask
<1>5. /\ pc'["bus"] = "idle" /\ pc'["gc"] = pc["gc"] /\ \A x \in Socket : pc'[x] = pc[x]
      /\ pc' \in [Task -> {"new", "signin", "bound", "listed", "in", "leaving", "unbound",
                           "idle", "apply", "applied", "decide"}]
      /\ \A x \in Task : x # "bus" => pc'[x] = pc[x]
  BY Zenon, <1>1, TaskMoves, UserOfTask
<1>6. /\ LockInv'
      /\ lockOf' \in [User -> Mutex \cup {Nobody}] /\ arc' \in [Task -> Mutex \cup {Nobody}]
  BY Zenon, <1>1, <1>2, <1>4, ReleaseKeepsLocks
<1>7. IndexInv' /\ WatchInv' /\ KnownInv'
  BY Zenon, <1>1, <1>5, SocketsStay
<1>8. SessionsInv'
  BY Zenon, <1>1 DEF SessionsInv
<1>9. /\ tell'["bus"] = "nothing" /\ \A x \in Task : x # "bus" => tell'[x] = tell[x]
      /\ tell' \in [Task -> {"nothing", "online", "offline"}]
  BY Zenon, <1>1, <1>2 DEF UserTypeOK
<1>10. \A x \in Task : x # "bus" /\ pc[x] \in InSection => UserOf(x) # u
  BY Zenon, <1>2, Alone
<1>0. UserOf("bus") = u /\ tell["bus"] = event
  BY Zenon, <1>2
<1> HIDE DEF u, event
<1>11. /\ told' \in [Socket -> SUBSET User]
       /\ \A v \in User : v # u => (v \in blind' <=> v \in blind)
  BY Zenon, <1>1, <1>2, FanoutFacts
<1>12. \A v : Named(v)' <=> Named(v)
  BY Zenon, <1>1 DEF Named
<1>13. DecisionInv'
  <2>1. tell'["bus"] # "online" /\ tell'["bus"] # "offline"
    BY Zenon, <1>9
  <2>2. \A x \in Task : x # "bus" =>
           /\ pc'[x] \notin InSection => tell'[x] = "nothing"
           /\ x \in Socket /\ tell'[x] = "online" => pc'[x] \in {"bound", "listed"}
           /\ x \in Socket /\ tell'[x] = "offline" => pc'[x] = "unbound"
           /\ tell'[x] = "offline" /\ Named(UserOf(x))' => UserOf(x)' \in blind'
    <3>1. \A x \in Task : x # "bus" => pc'[x] = pc[x] /\ tell'[x] = tell[x] /\ UserOf(x)' = UserOf(x)
      BY Zenon, <1>4, <1>5, <1>9
    <3>2. \A v \in User : v # u => (Named(v)' => Named(v)) /\ (v \in blind => v \in blind')
      BY Zenon, <1>11, <1>12
    <3> QED
      BY <1>2, <1>10, <3>1, <3>2, DecisionsOfOthers
  <2> QED
    BY Zenon, <1>9, <2>1, <2>2, UserOfTask DEF DecisionInv
<1>14. TruthInv'
  <2>1. /\ \A v : v # u => (Deciding(v)' <=> Deciding(v))
        /\ Deciding(u) <=> pc["bus"] \in InSection /\ event # "nothing"
    <3>1. \A x \in Task : x # "bus" => pc'[x] = pc[x] /\ tell'[x] = tell[x] /\ UserOf(x)' = UserOf(x)
      BY Zenon, <1>4, <1>5, <1>9
    <3>2. pc'["bus"] \notin InSection
      BY Zenon, <1>2, <1>5
    <3> QED
      BY Zenon, <1>0, <1>2, <1>10, <3>1, <3>2, DecidingMoves
  <2>2. event = "online" => Named(u)
    <3>1. event = "online" => work.bus.peer \in Peer /\ u \in sessions[work.bus.peer].users
      BY Zenon, <1>1 DEF UserTypeOK, Item, DecisionInv, event, u
    <3> QED
      BY Zenon, <3>1 DEF Named
  <2>3. event = "offline" /\ Named(u) => u \in blind
    BY Zenon, <1>2 DEF DecisionInv, event
  <2> QED
    BY Zenon, <1>1, <1>2, <1>5, <2>1, <2>2, <2>3, AnnouncementKeepsTruth
<1>15. UserTypeOK'
  BY Zenon, <1>1, <1>3, <1>5, <1>6, <1>9, <1>11 DEF UserTypeOK
<1> QED
  BY Zenon, <1>6, <1>7, <1>8, <1>13, <1>14, <1>15
\* Under the mutex the consumer updates the entry and decides.
LEMMA BusApplyStep ==
    ASSUME UserInv, BusApply
    PROVE  UserInv'
<1> USE DEF UserInv
<1>0. PICK p, u, kind, event :
         /\ p = work.bus.peer /\ u = work.bus.user /\ kind = work.bus.event
         /\ event = IF Elsewhere(p, u) THEN "nothing" ELSE kind
  OBVIOUS
<1>1. /\ pc["bus"] = "apply" /\ MutexFree("bus")
      /\ sessions' = IF kind = "online" THEN AddSession(p, u) ELSE RemoveSession(p, u)
      /\ Overlook(u, event)
      /\ tell' = [tell EXCEPT !["bus"] = event]
      /\ pc' = [pc EXCEPT !["bus"] = "applied"]
      /\ UNCHANGED <<lockOf, arc, index, watchers, found, work, todo, known, snap, since, told, misled>>
  BY Zenon, <1>0 DEF BusApply, locks, registry, published
<1>2. /\ UserOf("bus") = u /\ u \in User /\ p \in Peer /\ kind \in {"online", "offline"}
      /\ pc["bus"] \in Referring /\ pc["bus"] \notin InSection /\ "bus" \in Task
      /\ "applied" \in InSection
  BY Zenon, <1>0, <1>1, UserOfTask DEF UserTypeOK, Item, Referring, InSection
<1>3. \A x \in Task : UserOf(x)' = UserOf(x)
  BY Zenon, <1>1 DEF UserOf
<1>4. /\ pc'["bus"] = "applied" /\ pc'["gc"] = pc["gc"] /\ \A x \in Socket : pc'[x] = pc[x]
      /\ pc' \in [Task -> {"new", "signin", "bound", "listed", "in", "leaving", "unbound",
                           "idle", "apply", "applied", "decide"}]
      /\ \A x \in Task : x # "bus" => pc'[x] = pc[x]
  BY Zenon, <1>1, TaskMoves, UserOfTask
<1>5. LockInv'
  BY Zenon, <1>1, <1>2, <1>3, SectionKeepsLocks
<1>6. IndexInv' /\ WatchInv' /\ KnownInv'
  BY Zenon, <1>1, <1>4, SocketsStay
<1>7. \A x \in Task : x # "bus" /\ pc[x] \in InSection => UserOf(x) # u
  BY Zenon, <1>1, <1>2, Alone
<1>8. event \in {"nothing", "online", "offline"} /\ (event # "nothing" => event = kind /\ ~Elsewhere(p, u))
  BY Zenon, <1>0, <1>2
<1>9. work.bus.peer = p /\ work.bus.user = u /\ (event = "nothing" => Elsewhere(p, u))
  BY Zenon, <1>0, <1>2
<1>10. /\ tell'["bus"] = event /\ \A x \in Task : x # "bus" => tell'[x] = tell[x]
       /\ tell' \in [Task -> {"nothing", "online", "offline"}]
  BY Zenon, <1>1, <1>2, <1>8 DEF UserTypeOK
<1>11. /\ sessions' \in [Peer -> [age : {"none", "live", "stale"}, users : SUBSET User]]
       /\ \A q \in Peer : q # p => sessions'[q] = sessions[q]
       /\ \A v : v # u => (v \in sessions'[p].users <=> v \in sessions[p].users)
       /\ kind = "online" => sessions'[p].age = "live" /\ u \in sessions'[p].users
       /\ kind = "offline" /\ sessions[p].age # "none" => sessions'[p].age = "live" /\ u \notin sessions'[p].users
       /\ kind = "offline" /\ sessions[p].age = "none" => sessions'[p] = sessions[p]
  BY <1>1, <1>2 DEF AddSession, RemoveSession, UserTypeOK
<1>12. SessionsInv'
  <2>1. sessions'[p].age = "live" \/ sessions'[p] = sessions[p]
    BY Zenon, <1>2, <1>11
  <2> QED
    BY <1>1, <1>11, <2>1 DEF SessionsInv
<1>13. \A v : v # u => (Named(v)' <=> Named(v))
  BY Zenon, <1>1, <1>2, <1>11 DEF Named
<1>14. Elsewhere(p, u) => Named(u) /\ Named(u)'
  BY Zenon, <1>1, <1>2, <1>11 DEF Elsewhere, IsUserOnline, IsPresentExcluding, Named
<1>15. /\ event # "offline" => blind' = blind
       /\ event = "offline" => IF StaleNames(u) THEN blind' = blind \cup {u} ELSE blind' = blind \ {u}
  BY Zenon, <1>1 DEF Overlook
<1>16. \A v : v # u => (v \in blind' <=> v \in blind)
  BY Zenon, <1>15
<1>17. event = "offline" /\ Named(u)' => u \in blind'
  <2> SUFFICES ASSUME event = "offline", Named(u)' PROVE u \in blind'
    OBVIOUS
  <2>1. ~Elsewhere(p, u) /\ kind = "offline"
    BY Zenon, <1>8
  <2>2. index[u] = {}
    BY Zenon, <2>1 DEF Elsewhere, IsUserOnline
  <2>3. u \notin sessions'[p].users
    BY Zenon, <1>2, <1>11, <2>1 DEF SessionsInv
  <2>4. PICK q \in Peer : u \in sessions'[q].users
    BY Zenon, <1>1, <2>2 DEF Named
  <2>5. q # p /\ u \in sessions[q].users /\ sessions[q].age # "live"
    BY Zenon, <1>11, <2>1, <2>3, <2>4 DEF Elsewhere, IsPresentExcluding
  <2>6. sessions[q].age \in {"none", "live", "stale"} /\ sessions[q].age # "none"
    BY Zenon, <2>5 DEF UserTypeOK, SessionsInv
  <2>7. StaleNames(u)
    BY Zenon, <2>5, <2>6 DEF StaleNames
  <2> QED
    BY Zenon, <1>15, <2>7
<1>18. DecisionInv'
  <2>1. \A x \in Task : x # "bus" =>
           /\ pc'[x] \notin InSection => tell'[x] = "nothing"
           /\ x \in Socket /\ tell'[x] = "online" => pc'[x] \in {"bound", "listed"}
           /\ x \in Socket /\ tell'[x] = "offline" => pc'[x] = "unbound"
           /\ tell'[x] = "offline" /\ Named(UserOf(x))' => UserOf(x)' \in blind'
    <3>1. \A x \in Task : x # "bus" => pc'[x] = pc[x] /\ tell'[x] = tell[x] /\ UserOf(x)' = UserOf(x)
      BY Zenon, <1>3, <1>4, <1>10
    <3>2. \A v \in User : v # u => (Named(v)' => Named(v)) /\ (v \in blind => v \in blind')
      BY Zenon, <1>13, <1>16
    <3> QED
      BY <1>2, <1>7, <3>1, <3>2, DecisionsOfOthers
  <2>2. tell'["bus"] = "online" => /\ sessions'[work'.bus.peer].age = "live"
                                   /\ work'.bus.user \in sessions'[work'.bus.peer].users
    BY Zenon, <1>1, <1>8, <1>9, <1>10, <1>11
  <2>3. tell'["bus"] = "offline" /\ Named(UserOf("bus"))' => UserOf("bus")' \in blind'
    <3>1. UserOf("bus")' = u
      BY Zenon, <1>2, <1>3
    <3> QED
      BY Zenon, <1>10, <1>17, <3>1 DEF Named
  <2>4. pc'["bus"] \in InSection
    BY Zenon, <1>2, <1>4
  <2> QED
    BY Zenon, <2>1, <2>2, <2>3, <2>4, UserOfTask DEF DecisionInv
<1>19. TruthInv'
  <2>1. /\ \A v : v # u => (Deciding(v)' <=> Deciding(v))
        /\ Deciding(u) <=> pc["bus"] \in InSection /\ tell["bus"] # "nothing"
        /\ Deciding(u)' <=> pc'["bus"] \in InSection /\ tell'["bus"] # "nothing"
    <3>1. \A x \in Task : x # "bus" => pc'[x] = pc[x] /\ tell'[x] = tell[x] /\ UserOf(x)' = UserOf(x)
      BY Zenon, <1>3, <1>4, <1>10
    <3>2. UserOf("bus")' = u
      BY Zenon, <1>2, <1>3
    <3> QED
      BY Zenon, <1>2, <1>7, <3>1, <3>2, DecidingMoves
  <2>2. ~Deciding(u) /\ (~Deciding(u)' => Elsewhere(p, u))
    BY Zenon, <1>2, <1>4, <1>9, <1>10, <2>1
  <2>3. \A x : Heard(x)' = Heard(x)
    BY Zenon, <1>1 DEF Heard
  <2>4. \A v : ~Deciding(v)' => ~Deciding(v) /\ (Named(v)' <=> Named(v)) /\ (v \in blind' <=> v \in blind)
    <3>1. ~Deciding(u)' => blind' = blind
      <4>1. ~Deciding(u)' => event = "nothing"
        BY Zenon, <1>2, <1>4, <1>10, <2>1
      <4>2. event = "nothing" => event # "offline"
        OBVIOUS
      <4> QED
        BY Zenon, <1>15, <4>1, <4>2
    <3>2. ~Deciding(u)' => ~Deciding(u) /\ (Named(u)' <=> Named(u)) /\ (u \in blind' <=> u \in blind)
      BY Zenon, <1>14, <2>2, <3>1
    <3>3. \A v : v # u => (~Deciding(v)' => ~Deciding(v) /\ (Named(v)' <=> Named(v)) /\ (v \in blind' <=> v \in blind))
      BY Zenon, <1>13, <1>16, <2>1
    <3> QED
      BY Zenon, <3>2, <3>3
  <2> QED
    BY Zenon, <1>1, <1>4, <2>3, <2>4 DEF TruthInv
<1>20. UserTypeOK'
  <2>1. pc'["bus"] \in {"idle", "apply", "applied"} /\ work'.bus \in Item
    BY Zenon, <1>1, <1>4 DEF UserTypeOK
  <2> QED
    BY ZenonT(30), <1>1, <1>4, <1>10, <1>11, <2>1 DEF UserTypeOK
<1> QED
  BY Zenon, <1>5, <1>6, <1>12, <1>18, <1>19, <1>20

\* Entries past their TTL are dropped; their users are looked at one by one.
LEMMA GcSessionsStep ==
    ASSUME UserInv, GcSessions
    PROVE  UserInv'
<1> USE DEF UserInv
<1> DEFINE stale == {p \in Peer : sessions[p].age = "stale"}
<1>1. /\ todo.gc = {}
      /\ sessions' = [p \in Peer |-> IF p \in stale THEN NoSession ELSE sessions[p]]
      /\ todo' = [todo EXCEPT !.gc = UNION {sessions[p].users : p \in stale}]
      /\ UNCHANGED <<pc, lockOf, arc, index, watchers, found, tell, work, known, snap, since, told, misled>>
  BY Zenon DEF GcSessions, locks, registry, published
<1>2. blind' = {u \in blind : Named(u)'}
  BY Zenon, <1>1 DEF GcSessions, Named, IsUserOnline
<1>3. /\ DOMAIN todo' = {"bus", "gc"} /\ todo'.bus = todo.bus
      /\ todo'.gc = UNION {sessions[p].users : p \in stale}
  BY Zenon, <1>1 DEF UserTypeOK
<1>4. todo'.gc \subseteq User
  BY <1>3 DEF UserTypeOK
<1>5. /\ \A p \in stale : sessions'[p] = [age |-> "none", users |-> {}]
      /\ \A p \in Peer : p \notin stale => sessions'[p] = sessions[p]
  BY Zenon, <1>1 DEF NoSession
<1>6. sessions' \in [Peer -> [age : {"none", "live", "stale"}, users : SUBSET User]]
  BY Zenon, <1>1 DEF NoSession, UserTypeOK
<1>7. /\ \A p \in Peer : sessions'[p].age = "none" => sessions'[p].users = {}
      /\ \A p \in Peer : sessions'[p].age # "stale"
      /\ \A p \in Peer : sessions'[p].users \subseteq sessions[p].users
      /\ \A p \in Peer : sessions[p].age = "live" => sessions'[p] = sessions[p]
  BY <1>5 DEF SessionsInv
<1>8. \A u : /\ Named(u)' => Named(u)
             /\ Named(u) => Named(u)' \/ u \in todo'.gc
  <2>1. ASSUME NEW u, NEW p \in Peer, u \in sessions[p].users, u \notin todo'.gc PROVE u \in sessions'[p].users
    BY Zenon, <1>3, <1>5, <2>1
  <2> QED
    BY Zenon, <1>1, <1>7, <2>1 DEF Named
<1>9. \A x : UserOf(x)' = UserOf(x)
  BY Zenon, <1>1 DEF UserOf
<1>10. UserTypeOK'
  <2>1. pc["gc"] = "idle" /\ "idle" # "decide"
    BY Zenon DEF GcSessions
  <2> QED
    BY Zenon, <1>1, <1>3, <1>4, <1>6, <2>1 DEF UserTypeOK
<1>11. LockInv' /\ IndexInv' /\ WatchInv' /\ KnownInv' /\ SessionsInv'
  <2>1. LockInv'
    BY Zenon, <1>1, <1>9, LocksStay
  <2>2. IndexInv' /\ WatchInv' /\ KnownInv'
    BY Zenon, <1>1, SocketsStay
  <2>3. SessionsInv'
    BY Zenon, <1>7 DEF SessionsInv
  <2> QED
    BY Zenon, <2>1, <2>2, <2>3
<1>12. DecisionInv'
  <2>1. tell'["bus"] = "online" => /\ sessions'[work'.bus.peer].age = "live"
                                   /\ work'.bus.user \in sessions'[work'.bus.peer].users
    <3>1. tell["bus"] = "online" => work.bus \in Item
      <4>1. tell["bus"] = "online" => pc["bus"] # "idle"
        BY Zenon, BusTellsNothing
      <4> QED
        BY Zenon, <4>1 DEF UserTypeOK
    <3>2. tell["bus"] = "online" => work.bus.peer \in Peer
      BY Zenon, <3>1 DEF Item
    <3> QED
      BY Zenon, <1>1, <1>7, <3>2 DEF DecisionInv
  <2>2. \A x \in Task : tell'[x] = "offline" /\ Named(UserOf(x))' => UserOf(x)' \in blind'
    <3>1. \A x : Named(UserOf(x))' => Named(UserOf(x))
      BY Zenon, <1>8, <1>9 DEF Named
    <3>2. \A x : UserOf(x) \in blind /\ Named(UserOf(x))' => UserOf(x)' \in blind'
      BY Zenon, <1>2, <1>9 DEF Named
    <3> QED
      BY Zenon, <1>1, <3>1, <3>2 DEF DecisionInv
  <2> QED
    BY Zenon, <1>1, <2>1, <2>2 DEF DecisionInv
<1>13. TruthInv'
  <2>1. \A v : (Deciding(v)' <=> Deciding(v)) /\ Heard(v)' = Heard(v)
    BY Zenon, <1>1, <1>9 DEF Deciding, Heard
  <2>2. \A v : Named(v)' /\ v \notin blind' => Named(v) /\ v \notin blind
    BY Zenon, <1>2, <1>8
  <2>3. \A v : v \notin todo.gc
    BY Zenon, <1>1
  <2> QED
    BY Zenon, <1>1, <1>8, <2>1, <2>2, <2>3 DEF TruthInv
<1> QED
  BY Zenon, <1>10, <1>11, <1>12, <1>13
\* The GC decides and announces in one go.
LEMMA GcDecideStep ==
    ASSUME UserInv, GcDecide
    PROVE  UserInv'
<1> USE DEF UserInv
<1>0. PICK u, event : u = work.gc /\ event = IF Online(u) THEN "nothing" ELSE "offline"
  OBVIOUS
<1>1. /\ pc["gc"] = "decide" /\ MutexFree("gc") /\ Fanout(u, event) /\ Release("gc")
      /\ todo' = [todo EXCEPT !.gc = @ \ {u}] /\ work' = [work EXCEPT !.gc = Nobody]
      /\ pc' = [pc EXCEPT !["gc"] = "idle"]
      /\ UNCHANGED <<index, watchers, found, tell, sessions, known, snap, since>>
  BY Zenon, <1>0 DEF GcDecide, registry, published
<1>2. /\ UserOf("gc") = u /\ u \in User /\ u \in todo.gc
      /\ pc["gc"] \in Referring /\ pc["gc"] \notin InSection /\ "gc" \in Task
      /\ event \in {"nothing", "offline"}
      /\ "idle" \notin Referring /\ "idle" \notin InSection
  BY Zenon, <1>0, <1>1, UserOfTask DEF UserTypeOK, Referring, InSection
<1>3. work'.bus = work.bus /\ DOMAIN work' = {"bus", "gc"}
  BY Zenon, <1>1 DEF UserTypeOK
<1>4. DOMAIN todo' = {"bus", "gc"} /\ todo'.bus = todo.bus /\ todo'.gc = todo.gc \ {u}
  BY Zenon, <1>1 DEF UserTypeOK
<1>5. \A x \in Task : x # "gc" => UserOf(x)' = UserOf(x)
  BY Zenon, <1>3, UserOfTask
<1>6. /\ pc'["gc"] = "idle" /\ pc'["bus"] = pc["bus"] /\ \A x \in Socket : pc'[x] = pc[x]
      /\ pc' \in [Task -> {"new", "signin", "bound", "listed", "in", "leaving", "unbound",
                           "idle", "apply", "applied", "decide"}]
      /\ \A x \in Task : x # "gc" => pc'[x] = pc[x]
  BY Zenon, <1>1, TaskMoves, UserOfTask
<1>7. /\ LockInv'
      /\ lockOf' \in [User -> Mutex \cup {Nobody}] /\ arc' \in [Task -> Mutex \cup {Nobody}]
  BY Zenon, <1>1, <1>2, <1>5, ReleaseKeepsLocks
<1>8. IndexInv' /\ WatchInv' /\ KnownInv'
  BY Zenon, <1>1, <1>6, SocketsStay
<1>9. SessionsInv'
  <2>1. todo'.gc # {} => todo.gc # {}
    BY Zenon, <1>2
  <2> QED
    BY Zenon, <1>1, <2>1 DEF SessionsInv
<1>10. \A x \in Task : x # "gc" /\ pc[x] \in InSection => UserOf(x) # u
  BY Zenon, <1>1, <1>2, Alone
<1>11. event \in {"nothing", "online", "offline"}
  BY Zenon, <1>2
<1>12. /\ told' \in [Socket -> SUBSET User]
       /\ \A v \in User : v # u => (v \in blind' <=> v \in blind)
  BY Zenon, <1>1, <1>2, <1>11, FanoutFacts
<1>13. \A v : Named(v)' <=> Named(v)
  BY Zenon, <1>1 DEF Named
<1>14. tell["gc"] = "nothing"
  BY Zenon, <1>2 DEF DecisionInv
<1>15. \A x \in Task : x # "gc" => pc'[x] = pc[x] /\ tell'[x] = tell[x] /\ UserOf(x)' = UserOf(x)
  BY Zenon, <1>1, <1>5, <1>6
<1>16. DecisionInv'
  <2>1. tell'["gc"] = "nothing" /\ tell'["gc"] # "offline"
    BY Zenon, <1>1, <1>14
  <2>2. \A v \in User : v # u => (Named(v)' => Named(v)) /\ (v \in blind => v \in blind')
    BY Zenon, <1>12, <1>13
  <2>3. \A x \in Task : x # "gc" =>
           /\ pc'[x] \notin InSection => tell'[x] = "nothing"
           /\ x \in Socket /\ tell'[x] = "online" => pc'[x] \in {"bound", "listed"}
           /\ x \in Socket /\ tell'[x] = "offline" => pc'[x] = "unbound"
           /\ tell'[x] = "offline" /\ Named(UserOf(x))' => UserOf(x)' \in blind'
    BY <1>2, <1>10, <1>15, <2>2, DecisionsOfOthers
  <2>4. tell'["bus"] = "online" => /\ sessions'[work'.bus.peer].age = "live"
                                   /\ work'.bus.user \in sessions'[work'.bus.peer].users
    BY Zenon, <1>1, <1>3 DEF DecisionInv
  <2> QED
    BY Zenon, <2>1, <2>3, <2>4, UserOfTask DEF DecisionInv
<1>17. TruthInv'
  <2>1. /\ \A v : v # u => (Deciding(v)' <=> Deciding(v))
        /\ ~Deciding(u)
    <3>1. pc'["gc"] \notin InSection
      BY Zenon, <1>2, <1>6
    <3> QED
      BY Zenon, <1>2, <1>10, <1>14, <1>15, <3>1, DecidingMoves
  <2>2. Named(u) => Online(u)
    BY Zenon, <1>2, NamedOnline
  <2>3. Online(u) => Named(u)
    BY Zenon, <1>2, NamedOnline
  <2>4. /\ event = "nothing" => Named(u)
        /\ event # "online"
        /\ event = "offline" => ~Named(u)
    BY Zenon, <1>0, <2>2, <2>3
  <2>5. \A v \in User : v # u => (Deciding(v)' <=> Deciding(v)) /\ (v \in todo'.gc <=> v \in todo.gc)
    BY Zenon, <1>4, <2>1
  <2>6. \A s \in Socket : pc'[s] = pc[s] \/ (pc[s] = "unbound" /\ pc'[s] = "new")
    BY Zenon, <1>6
  <2> QED
    BY Zenon, <1>1, <1>2, <1>11, <2>1, <2>4, <2>5, <2>6, AnnouncementKeepsTruth
<1>18. UserTypeOK'
  <2>1. todo'.gc \subseteq User /\ pc'["gc"] \in {"idle", "decide"} /\ pc'["gc"] # "decide"
    BY Zenon, <1>4, <1>6 DEF UserTypeOK
  <2> QED
    BY Zenon, <1>1, <1>3, <1>4, <1>6, <1>7, <1>12, <2>1 DEF UserTypeOK
<1> QED
  BY Zenon, <1>7, <1>8, <1>9, <1>16, <1>17, <1>18

(***************************************************************************)
(* Sign-in and the end of a connection                                     *)
(***************************************************************************)

\* What the index, the watches, the peers' knowledge and the pending decisions owe to
\* the steps of the task of s, alone on its user.
LEMMA SocketWorks ==
    ASSUME UserInv, NEW s \in Socket, pc[s] \in Referring, pc[s] \in InSection \/ MutexFree(s),
           NEW v \in {"new", "signin", "bound", "listed", "in", "leaving", "unbound"},
           pc' = [pc EXCEPT ![s] = v], NEW event \in {"nothing", "online", "offline"},
           tell' = [tell EXCEPT ![s] = event], UNCHANGED <<work, todo, sessions>>,
           v \notin InSection => event = "nothing"
    PROVE  LET u == SignsIn[s] IN
           /\ u \in User /\ UserOf(s) = u /\ UserOf(s)' = u /\ s \in Task
           /\ pc'[s] = v /\ \A x \in Task : x # s => pc'[x] = pc[x]
           /\ \A x \in Socket : x # s => pc'[x] = pc[x] /\ tell'[x] = tell[x]
           /\ tell'[s] = event
           /\ \A x \in Task : UserOf(x)' = UserOf(x)
           /\ \A x \in Socket : x # s /\ pc[x] \in InSection => SignsIn[x] # u
           /\ \A w : w # u => (Deciding(w)' <=> Deciding(w))
           /\ Deciding(u) <=> tell[s] # "nothing"
           /\ Deciding(u)' <=> event # "nothing"
           /\ SessionsInv'
<1> USE DEF UserInv
<1> DEFINE u == SignsIn[s]
<1>1. u \in User /\ UserOf(s) = u /\ UserOf(s)' = u /\ s \in Task /\ s # "bus" /\ \A x \in Socket : x \in Task
  BY Zenon, UserOfTask
<1>2. /\ pc'[s] = v /\ \A x \in Task : x # s => pc'[x] = pc[x]
      /\ tell'[s] = event /\ \A x \in Task : x # s => tell'[x] = tell[x]
  BY Zenon, <1>1 DEF UserTypeOK
<1>3. \A x \in Task : UserOf(x)' = UserOf(x)
  BY Zenon DEF UserOf
<1>4. \A x \in Task : x # s /\ pc[x] \in InSection => UserOf(x) # u
  BY Zenon, <1>1, Alone
<1>5. /\ \A w : w # u => (Deciding(w)' <=> Deciding(w))
      /\ Deciding(u) <=> pc[s] \in InSection /\ tell[s] # "nothing"
      /\ Deciding(u)' <=> pc'[s] \in InSection /\ tell'[s] # "nothing"
  <2>1. \A x \in Task : x # s => pc'[x] = pc[x] /\ tell'[x] = tell[x] /\ UserOf(x)' = UserOf(x)
    BY Zenon, <1>2, <1>3
  <2> QED
    BY Zenon, <1>1, <1>4, <2>1, DecidingMoves
<1>6. pc[s] \notin InSection => tell[s] = "nothing"
  BY Zenon, <1>1 DEF DecisionInv
<1>7. SessionsInv'
  BY Zenon DEF SessionsInv
<1>8. \A x \in Socket : x # s /\ pc[x] \in InSection => SignsIn[x] # u
  BY Zenon, <1>1, <1>4, UserOfTask
<1> QED
  BY Zenon, <1>1, <1>2, <1>3, <1>5, <1>6, <1>7, <1>8

\* The decisions after a step of the task of s.
LEMMA SocketDecides ==
    ASSUME UserInv, NEW s \in Socket, pc[s] \in Referring, pc[s] \in InSection \/ MutexFree(s),
           NEW v \in {"new", "signin", "bound", "listed", "in", "leaving", "unbound"},
           pc' = [pc EXCEPT ![s] = v], NEW event \in {"nothing", "online", "offline"},
           tell' = [tell EXCEPT ![s] = event], UNCHANGED <<work, todo, sessions>>,
           v \notin InSection => event = "nothing",
           event = "online" => v \in {"bound", "listed"},
           event = "offline" => v = "unbound" /\ (Named(SignsIn[s])' => SignsIn[s] \in blind'),
           \A w \in User : w # SignsIn[s] => (Named(w)' => Named(w)) /\ (w \in blind => w \in blind')
    PROVE  /\ DecisionInv'
           /\ tell' \in [Task -> {"nothing", "online", "offline"}]
<1> USE DEF UserInv
<1> DEFINE u == SignsIn[s]
<1>1. UserOf(s) = u /\ UserOf(s)' = u /\ s \in Task /\ s # "bus" /\ "bus" \in Task /\ \A x \in Socket : x \in Task
  BY Zenon, UserOfTask
<1>2. /\ pc'[s] = v /\ \A x \in Task : x # s => pc'[x] = pc[x]
      /\ tell'[s] = event /\ \A x \in Task : x # s => tell'[x] = tell[x]
  BY SMTT(30), <1>1 DEF UserTypeOK
<1>3. \A x \in Task : x # s => pc'[x] = pc[x] /\ tell'[x] = tell[x] /\ UserOf(x)' = UserOf(x)
  BY Zenon, <1>2 DEF UserOf
<1>4. \A x \in Task : x # s /\ pc[x] \in InSection => UserOf(x) # u
  BY Zenon, <1>1, Alone
<1>5. \A x \in Task : x # s =>
         /\ pc'[x] \notin InSection => tell'[x] = "nothing"
         /\ x \in Socket /\ tell'[x] = "online" => pc'[x] \in {"bound", "listed"}
         /\ x \in Socket /\ tell'[x] = "offline" => pc'[x] = "unbound"
         /\ tell'[x] = "offline" /\ Named(UserOf(x))' => UserOf(x)' \in blind'
  BY <1>1, <1>3, <1>4, DecisionsOfOthers
<1>6. tell'["bus"] = "online" => /\ sessions'[work'.bus.peer].age = "live"
                                 /\ work'.bus.user \in sessions'[work'.bus.peer].users
  BY Zenon, <1>1, <1>2 DEF DecisionInv
<1>7. tell'[s] = "offline" /\ Named(UserOf(s))' => UserOf(s)' \in blind'
  BY Zenon, <1>1, <1>2 DEF Named
<1>8. DecisionInv'
  <2>1. \A x \in Task : pc'[x] \notin InSection => tell'[x] = "nothing"
    BY Zenon, <1>2, <1>5
  <2>2. \A x \in Socket : /\ tell'[x] = "online" => pc'[x] \in {"bound", "listed"}
                          /\ tell'[x] = "offline" => pc'[x] = "unbound"
    BY Zenon, <1>1, <1>2, <1>5
  <2>3. \A x \in Task : tell'[x] = "offline" /\ Named(UserOf(x))' => UserOf(x)' \in blind'
    BY Zenon, <1>5, <1>7
  <2> QED
    BY Zenon, <1>6, <2>1, <2>2, <2>3 DEF DecisionInv
<1>9. tell' \in [Task -> {"nothing", "online", "offline"}]
  BY Zenon, <1>1 DEF UserTypeOK
<1> QED
  BY Zenon, <1>8, <1>9
\* The user is bound and the watches registered.
LEMMA SigninBindStep ==
    ASSUME UserInv, NEW s \in Socket, SigninBind(s)
    PROVE  UserInv'
<1> USE DEF UserInv
<1> DEFINE u == SignsIn[s]
<1>0. PICK event : event = IF Online(u) THEN "nothing" ELSE "online"
  OBVIOUS
<1>1. /\ pc[s] = "signin" /\ MutexFree(s)
      /\ tell' = [tell EXCEPT ![s] = event]
      /\ index' = [index EXCEPT ![u] = @ \cup {s}]
      /\ watchers' = [x \in User |-> IF x \in Watchlist[s] THEN watchers[x] \cup {u} ELSE watchers[x]]
      /\ pc' = [pc EXCEPT ![s] = "bound"]
      /\ UNCHANGED <<lockOf, arc, found, sessions, work, todo, known, snap, since, told, misled, blind>>
  BY Zenon, <1>0 DEF SigninBind, BindUser, AddWatcher, locks, peers, published, clients
<1>2. /\ event \in {"nothing", "online", "offline"} /\ event # "offline" /\ (event = "nothing" <=> Online(u))
      /\ pc[s] \in Referring /\ pc[s] \notin InSection /\ pc[s] \notin Registered
      /\ "bound" \in {"new", "signin", "bound", "listed", "in", "leaving", "unbound"}
      /\ "bound" \in InSection /\ "bound" \in Registered /\ "bound" \in {"bound", "listed"}
      /\ "bound" \notin {"listed", "in", "leaving"} /\ pc[s] \notin {"listed", "in", "leaving"}
      /\ "bound" # "unbound" /\ pc[s] # "unbound" /\ "bound" # "listed"
      /\ pc[s] \notin {"bound", "listed"}
  BY Zenon, <1>0, <1>1 DEF Referring, InSection, Registered
<1>3. /\ u \in User /\ UserOf(s) = u /\ UserOf(s)' = u /\ s \in Task
      /\ pc'[s] = "bound" /\ (\A x \in Task : x # s => pc'[x] = pc[x])
      /\ \A x \in Socket : x # s => pc'[x] = pc[x] /\ tell'[x] = tell[x]
      /\ tell'[s] = event
      /\ \A x \in Task : UserOf(x)' = UserOf(x)
      /\ \A x \in Socket : x # s /\ pc[x] \in InSection => SignsIn[x] # u
      /\ \A w : w # u => (Deciding(w)' <=> Deciding(w))
      /\ Deciding(u) <=> tell[s] # "nothing"
      /\ Deciding(u)' <=> event # "nothing"
      /\ SessionsInv'
  BY Zenon, <1>1, <1>2, SocketWorks
<1>4. tell[s] = "nothing"
  BY Zenon, <1>2, <1>3 DEF DecisionInv
<1>5. /\ index'[u] = index[u] \cup {s} /\ \A w \in User : w # u => index'[w] = index[w]
      /\ index' \in [User -> SUBSET Socket]
      /\ watchers' \in [User -> SUBSET User]
      /\ \A x \in User : watchers[x] \subseteq watchers'[x] /\ (\A w \in User : w # u /\ w \in watchers'[x] => w \in watchers[x])
      /\ \A x \in Watchlist[s] : x \in User /\ u \in watchers'[x]
  BY <1>1, <1>3, UserConstants DEF UserTypeOK
<1>6. \A w \in User : (w # u => (Named(w)' <=> Named(w))) /\ Named(u)'
  <2>1. index'[u] # {}
    BY Zenon, <1>5
  <2> QED
    BY Zenon, <1>1, <1>3, <1>5, <2>1 DEF Named
<1>7. LockInv'
  BY Zenon, <1>1, <1>2, <1>3, SectionKeepsLocks
<1>8. IndexInv'
  <2>1. \A w \in User : index'[w] = {x \in Socket : SignsIn[x] = w /\ pc'[x] \in Registered}
    <3>1. index'[u] = {x \in Socket : SignsIn[x] = u /\ pc'[x] \in Registered}
      BY <1>2, <1>3, <1>5 DEF IndexInv
    <3>2. ASSUME NEW w \in User, w # u PROVE index'[w] = {x \in Socket : SignsIn[x] = w /\ pc'[x] \in Registered}
      <4>1. \A x \in Socket : SignsIn[x] = w => pc'[x] = pc[x]
        BY Zenon, <1>3, <3>2
      <4>2. index'[w] = {x \in Socket : SignsIn[x] = w /\ pc[x] \in Registered}
        BY Zenon, <1>5, <3>2 DEF IndexInv
      <4> QED
        BY <4>1, <4>2
    <3> QED
      BY Zenon, <3>1, <3>2
  <2>2. \A x \in Socket : pc'[x] = "unbound" => index'[SignsIn[x]] = {}
    <3>1. \A x \in Socket : pc'[x] = "unbound" => x # s /\ pc[x] = "unbound" /\ pc[x] \in InSection /\ SignsIn[x] \in User
      BY Zenon, <1>2, <1>3, UserOfTask DEF InSection
    <3> QED
      BY Zenon, <1>3, <1>5, <3>1 DEF IndexInv
  <2> QED
    BY Zenon, <2>1, <2>2 DEF IndexInv
<1>9. WatchInv'
  <2>1. ASSUME NEW x \in Socket, pc'[x] \in Registered, NEW w \in Watchlist[x] PROVE SignsIn[x] \in watchers'[w]
    <3>1. w \in User
      BY Zenon, UserConstants
    <3>2. CASE x = s
      BY Zenon, <1>5, <2>1, <3>2
    <3>3. CASE x # s
      BY Zenon, <1>3, <1>5, <2>1, <3>1, <3>3 DEF WatchInv
    <3> QED
      BY Zenon, <3>2, <3>3
  <2>2. ASSUME NEW w \in User, index'[w] = {}, \A x \in Socket : pc'[x] = "unbound" => SignsIn[x] # w, NEW y \in User
        PROVE  w \notin watchers'[y]
    <3>1. w # u
      BY Zenon, <1>5, <2>2
    <3>2. index[w] = {} /\ \A x \in Socket : pc[x] = "unbound" => SignsIn[x] # w
      BY Zenon, <1>2, <1>3, <1>5, <2>2, <3>1
    <3> QED
      BY Zenon, <1>5, <3>1, <3>2 DEF WatchInv
  <2> QED
    BY Zenon, <2>1, <2>2 DEF WatchInv
<1>10. KnownInv'
  <2>1. \A w : (Believed(w)' <=> Believed(w)) /\ (Open(w)' <=> Open(w))
    BY Zenon, <1>1 DEF Believed, Open
  <2>2. ASSUME NEW w \in User, ~Open(w)
        PROVE  /\ (\A x \in Socket : pc'[x] \in InSection => SignsIn[x] # w) => (Believed(w) <=> index'[w] # {})
               /\ \A x \in Socket : pc'[x] \in {"bound", "listed"} /\ SignsIn[x] = w /\ index'[w] # {x} => Believed(w)
    <3>1. CASE w = u
      <4>1. \A x \in Socket : pc[x] \in InSection => SignsIn[x] # u
        BY Zenon, <1>2, <1>3
      <4>2. Believed(u) <=> index[u] # {}
        BY Zenon, <2>2, <3>1, <4>1 DEF KnownInv
      <4>3. index'[u] # {s} => index[u] # {}
        BY Zenon, <1>5
      <4>4. \A x \in Socket : x # s /\ SignsIn[x] = u => pc'[x] \notin {"bound", "listed"}
        BY Zenon, <1>3, <4>1 DEF InSection
      <4> QED
        BY Zenon, <1>2, <1>3, <3>1, <4>2, <4>3, <4>4
    <3>2. CASE w # u
      <4>1. \A x \in Socket : SignsIn[x] = w => pc'[x] = pc[x]
        BY Zenon, <1>3, <3>2
      <4> QED
        BY Zenon, <1>5, <2>2, <3>2, <4>1 DEF KnownInv
    <3> QED
      BY Zenon, <3>1, <3>2
  <2> QED
    BY Zenon, <1>1, <2>1, <2>2 DEF KnownInv
<1>11. /\ DecisionInv'
       /\ tell' \in [Task -> {"nothing", "online", "offline"}]
  <2>1. \A w \in User : w # u => (Named(w)' => Named(w)) /\ (w \in blind => w \in blind')
    BY Zenon, <1>1, <1>6
  <2> QED
    BY Zenon, <1>1, <1>2, <2>1, SocketDecides
<1>12. TruthInv'
  <2>1. \A x : Heard(x)' = Heard(x)
    BY Zenon, <1>1 DEF Heard
  <2>2. Online(u) => Named(u)
    BY Zenon, <1>3, NamedOnline
  <2>3. \A w \in User : ~Deciding(w)' => ~Deciding(w) /\ (Named(w)' <=> Named(w))
    BY Zenon, <1>2, <1>3, <1>4, <1>6, <2>2
  <2>4. \A x \in Socket : /\ pc'[x] \in {"listed", "in", "leaving"} <=> pc[x] \in {"listed", "in", "leaving"}
                          /\ pc'[x] \notin Registered => pc[x] \notin Registered
                          /\ pc'[x] = "listed" <=> pc[x] = "listed"
    BY Zenon, <1>1, <1>2, <1>3
  <2>5. \A x \in Socket : \A w \in Watchlist[x] : w \in User
    BY Zenon, UserConstants
  <2>6. \A x \in Socket : /\ pc'[x] # "listed" => found'[x] = {}
                          /\ pc'[x] \notin Registered => told'[x] = {}
    BY Zenon, <1>1, <2>4 DEF TruthInv
  <2>7. ASSUME NEW x \in Socket, NEW w \in Watchlist[x], <<x, w>> \notin misled', ~Deciding(w)'
        PROVE  /\ w \in Heard(x)' => Named(w)' \/ w \in todo'.gc
               /\ pc'[x] \in {"listed", "in", "leaving"} /\ Named(w)' /\ w \notin blind' => w \in Heard(x)'
    BY Zenon, <1>1, <2>1, <2>3, <2>4, <2>5, <2>7 DEF TruthInv
  <2> QED
    BY Zenon, <2>6, <2>7 DEF TruthInv
<1>13. UserTypeOK'
  <2>1. /\ pc' \in [Task -> {"new", "signin", "bound", "listed", "in", "leaving", "unbound",
                             "idle", "apply", "applied", "decide"}]
        /\ \A x \in Socket : pc'[x] \in {"new", "signin", "bound", "listed", "in", "leaving", "unbound"}
        /\ pc'["bus"] = pc["bus"] /\ pc'["gc"] = pc["gc"]
    BY Zenon, <1>1, <1>2, SocketMoves
  <2> QED
    BY Zenon, <1>1, <1>5, <1>11, <2>1 DEF UserTypeOK
<1> QED
  BY Zenon, <1>3, <1>7, <1>8, <1>9, <1>10, <1>11, <1>12, <1>13
\* The watched users are looked up: who is online, or named only by an old entry.
LEMMA SigninListStep ==
    ASSUME UserInv, NEW s \in Socket, SigninList(s)
    PROVE  UserInv'
<1> USE DEF UserInv
<1> DEFINE u == SignsIn[s]
<1>1. /\ pc[s] = "bound"
      /\ found' = [found EXCEPT ![s] = {w \in Watchlist[s] : Online(w)}]
      /\ blind' = blind \cup {w \in Watchlist[s] : ~Online(w) /\ StaleNames(w)}
      /\ pc' = [pc EXCEPT ![s] = "listed"]
      /\ UNCHANGED <<lockOf, arc, index, watchers, tell, sessions, work, todo, known, snap, since, told, misled>>
  BY Zenon DEF SigninList, locks, registry, peers, published
<1>2. PICK event : event = tell[s]
  OBVIOUS
<1>3. s \in Task /\ u \in User /\ \A x \in Socket : x \in Task
  BY Zenon, UserOfTask
<1>4. tell' = [tell EXCEPT ![s] = event]
  BY Zenon, <1>1, <1>2, <1>3 DEF UserTypeOK
<1>5. /\ event \in {"nothing", "online", "offline"}
      /\ pc[s] \in Referring /\ pc[s] \in InSection /\ pc[s] \in Registered
      /\ "listed" \in {"new", "signin", "bound", "listed", "in", "leaving", "unbound"}
      /\ "listed" \in InSection /\ "listed" \in Registered /\ "listed" \in {"bound", "listed"}
      /\ "listed" \in {"listed", "in", "leaving"} /\ pc[s] \in {"bound", "listed"}
      /\ "listed" # "unbound" /\ pc[s] # "unbound" /\ pc[s] # "listed"
  BY Zenon, <1>1, <1>2, <1>3 DEF Referring, InSection, Registered, UserTypeOK
<1>6. /\ pc'[s] = "listed" /\ (\A x \in Task : x # s => pc'[x] = pc[x])
      /\ \A x \in Task : UserOf(x)' = UserOf(x)
      /\ \A w : w # u => (Deciding(w)' <=> Deciding(w))
      /\ Deciding(u) <=> tell[s] # "nothing"
      /\ Deciding(u)' <=> event # "nothing"
      /\ SessionsInv'
  BY Zenon, <1>1, <1>4, <1>5, SocketWorks
<1>7. \A x \in Socket : /\ pc'[x] \in Registered <=> pc[x] \in Registered
                        /\ pc'[x] \in {"bound", "listed"} <=> pc[x] \in {"bound", "listed"}
                        /\ pc'[x] \in InSection <=> pc[x] \in InSection
                        /\ pc'[x] = "unbound" <=> pc[x] = "unbound"
                        /\ x # s => pc'[x] = pc[x]
  BY Zenon, <1>3, <1>5, <1>6
<1>8. LockInv'
  BY Zenon, <1>1, <1>3, <1>5, <1>6, SectionKeepsLocks
<1>9. IndexInv' /\ WatchInv'
  <2>1. IndexInv'
    BY Zenon, <1>1, <1>7 DEF IndexInv
  <2>2. WatchInv'
    BY Zenon, <1>1, <1>7 DEF WatchInv
  <2> QED
    BY Zenon, <2>1, <2>2
<1>10. KnownInv'
  <2>1. \A w : (Believed(w)' <=> Believed(w)) /\ (Open(w)' <=> Open(w))
    BY Zenon, <1>1 DEF Believed, Open
  <2> QED
    BY Zenon, <1>1, <1>7, <2>1 DEF KnownInv
<1>11. \A w : (Named(w)' <=> Named(w)) /\ (w \in blind => w \in blind')
  <2>1. \A w : Named(w)' <=> Named(w)
    BY Zenon, <1>1 DEF Named
  <2> QED
    BY Zenon, <1>1, <2>1
<1>12. /\ DecisionInv'
       /\ tell' \in [Task -> {"nothing", "online", "offline"}]
  <2>1. event # "offline"
    BY Zenon, <1>1, <1>2 DEF DecisionInv
  <2>2. \A w \in User : w # u => (Named(w)' => Named(w)) /\ (w \in blind => w \in blind')
    BY Zenon, <1>11
  <2> QED
    BY Zenon, <1>1, <1>4, <1>5, <2>1, <2>2, SocketDecides
<1>13. /\ found' \in [Socket -> SUBSET User]
       /\ found'[s] = {w \in Watchlist[s] : Online(w)} /\ \A x \in Socket : x # s => found'[x] = found[x]
  <2>1. found \in [Socket -> SUBSET User]
    BY Zenon DEF UserTypeOK
  <2>2. found'[s] = {w \in Watchlist[s] : Online(w)} /\ \A x \in Socket : x # s => found'[x] = found[x]
    BY Zenon, <1>1, <2>1
  <2>3. {w \in Watchlist[s] : Online(w)} \in SUBSET User
    BY UserConstants
  <2>4. found' \in [Socket -> SUBSET User]
    BY Zenon, <1>1, <2>1, <2>3
  <2> QED
    BY Zenon, <2>2, <2>4
<1>14. \A x \in Socket : \A w \in Watchlist[x] : w \in User
  BY Zenon, UserConstants
<1>15. TruthInv'
  <2>1. \A w : Deciding(w)' <=> Deciding(w)
    BY Zenon, <1>2, <1>6
  <2>2. \A x \in Socket : /\ pc'[x] # "listed" => found'[x] = {}
                          /\ pc'[x] \notin Registered => told'[x] = {}
    BY Zenon, <1>1, <1>6, <1>7, <1>13 DEF TruthInv
  <2>3. \A x \in Socket : x # s => Heard(x)' = Heard(x)
    BY Zenon, <1>1, <1>13 DEF Heard
  <2>4. ASSUME NEW w \in Watchlist[s], <<s, w>> \notin misled, ~Deciding(w)
        PROVE  /\ w \in Heard(s)' => Named(w) \/ w \in todo.gc
               /\ Named(w) /\ w \notin blind' => w \in Heard(s)'
    <3>1. w \in Heard(s)' <=> w \in told[s] \/ Online(w)
      BY Zenon, <1>1, <1>13 DEF Heard
    <3>2. w \in told[s] => Named(w) \/ w \in todo.gc
      BY Zenon, <2>4 DEF TruthInv, Heard
    <3>3. (Online(w) => Named(w)) /\ (Named(w) => Online(w) \/ StaleNames(w))
      BY Zenon, <1>14, NamedOnline
    <3>4. ~Online(w) /\ StaleNames(w) => w \in blind'
      BY Zenon, <1>1
    <3> QED
      BY Zenon, <3>1, <3>2, <3>3, <3>4
  <2>5. ASSUME NEW x \in Socket, NEW w \in Watchlist[x], <<x, w>> \notin misled', ~Deciding(w)'
        PROVE  /\ w \in Heard(x)' => Named(w)' \/ w \in todo'.gc
               /\ pc'[x] \in {"listed", "in", "leaving"} /\ Named(w)' /\ w \notin blind' => w \in Heard(x)'
    <3>1. CASE x = s
      BY Zenon, <1>1, <1>11, <2>1, <2>4, <2>5, <3>1
    <3>2. CASE x # s
      BY Zenon, <1>1, <1>7, <1>11, <2>1, <2>3, <2>5, <3>2 DEF TruthInv
    <3> QED
      BY Zenon, <3>1, <3>2
  <2> QED
    BY Zenon, <2>2, <2>5 DEF TruthInv
<1>16. UserTypeOK'
  <2>1. /\ pc' \in [Task -> {"new", "signin", "bound", "listed", "in", "leaving", "unbound",
                             "idle", "apply", "applied", "decide"}]
        /\ \A x \in Socket : pc'[x] \in {"new", "signin", "bound", "listed", "in", "leaving", "unbound"}
        /\ pc'["bus"] = pc["bus"] /\ pc'["gc"] = pc["gc"]
    BY Zenon, <1>1, <1>5, SocketMoves
  <2> QED
    BY Zenon, <1>1, <1>12, <1>13, <2>1 DEF UserTypeOK
<1> QED
  BY Zenon, <1>6, <1>8, <1>9, <1>10, <1>12, <1>15, <1>16

\* A live message settles what the peers hold of u, and of u only.
LEMMA LiveMessage ==
    ASSUME UserInv, NEW u \in User, UNCHANGED snap,
           since' = IF snap.step = "idle" THEN {} ELSE since \cup {u},
           known' = known \cup {u} \/ known' = known \ {u}
    PROVE  /\ snap.step = "idle" => since' = {}
           /\ known' \subseteq User /\ since' \subseteq User
           /\ \A w : w # u => (Believed(w)' <=> Believed(w)) /\ (Open(w)' <=> Open(w))
           /\ Believed(u)' <=> u \in known'
<1>1. snap.step = "idle" => since = {}
  BY Zenon DEF UserInv, KnownInv
<1>2. known \subseteq User /\ since \subseteq User
  BY Zenon DEF UserInv, UserTypeOK
<1>3. \A w : w # u => (w \in since' <=> w \in since) /\ (w \in known' <=> w \in known)
  BY Zenon, <1>1
<1>4. snap.step = "captured" => u \in since'
  OBVIOUS
<1>5. known' \subseteq User /\ since' \subseteq User
  BY Zenon, <1>2
<1>6. \A w : w # u => (Believed(w)' <=> Believed(w)) /\ (Open(w)' <=> Open(w))
  BY Zenon, <1>3 DEF Believed, Open
<1>7. Believed(u)' <=> u \in known'
  BY Zenon, <1>4 DEF Believed
<1> QED
  BY Zenon, <1>5, <1>6, <1>7

\* The list and the event go out, and the peers are told about the user's first socket.
LEMMA SigninTellStep ==
    ASSUME UserInv, NEW s \in Socket, SigninTell(s)
    PROVE  UserInv'
<1> USE DEF UserInv
<1> DEFINE u == SignsIn[s]
<1>0. PICK reach : reach = IF tell[s] = "online" THEN Targets(u) ELSE {}
  OBVIOUS
<1>1. /\ pc[s] = "listed"
      /\ told' = [x \in Socket |-> told[x] \cup (IF x = s THEN found[s] ELSE {}) \cup (IF x \in reach THEN {u} ELSE {})]
      /\ misled' = misled \ (reach \X {u})
      /\ blind' = IF tell[s] = "online" THEN blind \ {u} ELSE blind
      /\ IF index[u] = {s} THEN PublishUserOnline(u) ELSE UNCHANGED <<known, since>>
      /\ Release(s)
      /\ tell' = [tell EXCEPT ![s] = "nothing"]
      /\ found' = [found EXCEPT ![s] = {}]
      /\ pc' = [pc EXCEPT ![s] = "in"]
      /\ UNCHANGED <<index, watchers, sessions, work, todo, snap>>
  BY Zenon, <1>0 DEF SigninTell, registry, peers
<1>2. /\ pc[s] \in Referring /\ pc[s] \in InSection /\ pc[s] \in Registered
      /\ "in" \in {"new", "signin", "bound", "listed", "in", "leaving", "unbound"}
      /\ "in" \notin InSection /\ "in" \in Registered /\ "in" \notin Referring
      /\ "in" \in {"listed", "in", "leaving"} /\ pc[s] \in {"listed", "in", "leaving"}
      /\ "in" # "unbound" /\ pc[s] # "unbound" /\ "in" # "listed" /\ "in" \notin {"bound", "listed"}
      /\ "nothing" \in {"nothing", "online", "offline"} /\ "nothing" # "online" /\ "nothing" # "offline"
  BY Zenon, <1>1 DEF Referring, InSection, Registered
<1>3. /\ u \in User /\ UserOf(s) = u /\ UserOf(s)' = u /\ s \in Task
      /\ pc'[s] = "in" /\ (\A x \in Task : x # s => pc'[x] = pc[x])
      /\ \A x \in Socket : x # s => pc'[x] = pc[x] /\ tell'[x] = tell[x]
      /\ \A x \in Task : UserOf(x)' = UserOf(x)
      /\ \A x \in Socket : x # s /\ pc[x] \in InSection => SignsIn[x] # u
      /\ \A w : w # u => (Deciding(w)' <=> Deciding(w))
      /\ Deciding(u) <=> tell[s] # "nothing"
      /\ SessionsInv'
  BY Zenon, <1>1, <1>2, SocketWorks
<1>4. \A x \in Socket : /\ pc'[x] \in Registered <=> pc[x] \in Registered
                        /\ pc'[x] \in {"listed", "in", "leaving"} <=> pc[x] \in {"listed", "in", "leaving"}
                        /\ pc'[x] = "unbound" <=> pc[x] = "unbound"
  BY Zenon, <1>2, <1>3
<1>5. /\ LockInv'
      /\ lockOf' \in [User -> Mutex \cup {Nobody}] /\ arc' \in [Task -> Mutex \cup {Nobody}]
  BY Zenon, <1>1, <1>2, <1>3, ReleaseKeepsLocks
<1>6. IndexInv' /\ WatchInv'
  <2>1. IndexInv'
    BY Zenon, <1>1, <1>4 DEF IndexInv
  <2>2. WatchInv'
    BY Zenon, <1>1, <1>4 DEF WatchInv
  <2> QED
    BY Zenon, <2>1, <2>2
<1>7. s \in index[u]
  BY Zenon, <1>2, <1>3 DEF IndexInv
<1>8. /\ snap.step = "idle" => since' = {}
      /\ known' \subseteq User /\ since' \subseteq User
      /\ \A w : w # u => (Believed(w)' <=> Believed(w)) /\ (Open(w)' <=> Open(w))
      /\ ~Open(u)' => Believed(u)'
  <2>1. CASE index[u] = {s}
    <3>1. known' = known \cup {u} /\ since' = IF snap.step = "idle" THEN {} ELSE since \cup {u}
      BY Zenon, <1>1, <2>1 DEF PublishUserOnline
    <3>2. u \in known'
      BY Zenon, <3>1
    <3> QED
      BY Zenon, <1>1, <1>3, <3>1, <3>2, LiveMessage
  <2>2. CASE index[u] # {s}
    <3>1. known' = known /\ since' = since
      BY Zenon, <1>1, <2>2
    <3>2. \A w : (Believed(w)' <=> Believed(w)) /\ (Open(w)' <=> Open(w))
      BY Zenon, <1>1, <3>1 DEF Believed, Open
    <3>3. ~Open(u) => Believed(u)
      <4>1. pc[s] \in {"bound", "listed"}
        BY Zenon, <1>1
      <4> QED
        BY Zenon, <1>3, <2>2, <4>1 DEF KnownInv
    <3> QED
      BY Zenon, <3>1, <3>2, <3>3 DEF KnownInv, UserTypeOK
  <2> QED
    BY Zenon, <2>1, <2>2
<1>9. KnownInv'
  <2>1. ASSUME NEW w \in User, ~Open(w)'
        PROVE  /\ (\A x \in Socket : pc'[x] \in InSection => SignsIn[x] # w) => (Believed(w)' <=> index[w] # {})
               /\ \A x \in Socket : pc'[x] \in {"bound", "listed"} /\ SignsIn[x] = w /\ index[w] # {x} => Believed(w)'
    <3>1. CASE w = u
      <4>1. Believed(u)' /\ index[u] # {}
        BY Zenon, <1>7, <1>8, <2>1, <3>1
      <4> QED
        BY Zenon, <3>1, <4>1
    <3>2. CASE w # u
      <4>1. \A x \in Socket : SignsIn[x] = w => pc'[x] = pc[x]
        BY Zenon, <1>3, <3>2
      <4> QED
        BY Zenon, <1>8, <2>1, <3>2, <4>1 DEF KnownInv
    <3> QED
      BY Zenon, <3>1, <3>2
  <2> QED
    BY Zenon, <1>1, <1>8, <2>1 DEF KnownInv
<1>10. \A w : (Named(w)' <=> Named(w)) /\ Named(u)
  BY Zenon, <1>1, <1>7 DEF Named
<1>11. \A w : w # u => (w \in blind' <=> w \in blind)
  BY Zenon, <1>1
<1>12. /\ DecisionInv'
       /\ tell' \in [Task -> {"nothing", "online", "offline"}]
  <2>1. \A w \in User : w # u => (Named(w)' => Named(w)) /\ (w \in blind => w \in blind')
    BY Zenon, <1>10, <1>11
  <2> QED
    BY Zenon, <1>1, <1>2, <2>1, SocketDecides
<1>13. /\ found' \in [Socket -> SUBSET User] /\ told' \in [Socket -> SUBSET User]
       /\ found'[s] = {} /\ \A x \in Socket : x # s => found'[x] = found[x]
       /\ told'[s] = told[s] \cup found[s] \cup (IF s \in reach THEN {u} ELSE {})
       /\ \A x \in Socket : x # s => told'[x] = told[x] \cup (IF x \in reach THEN {u} ELSE {})
  BY <1>1, <1>3 DEF UserTypeOK
<1>14. \A x \in Socket : \A w \in Watchlist[x] : w \in User
  BY Zenon, UserConstants
<1>15. \A x \in Socket : x \notin reach => Heard(x)' = Heard(x)
  BY Zenon, <1>13 DEF Heard
<1>16. \A x \in Socket : \A w : (w # u => (w \in Heard(x)' <=> w \in Heard(x))) /\ (x \in reach => u \in Heard(x)')
  BY Zenon, <1>13 DEF Heard
<1>17. \A x \in reach : x \in Socket /\ pc[x] \in Registered
  <2>1. \A x \in Targets(u) : x \in Socket /\ pc[x] \in Registered
    BY Zenon, <1>3, Reach
  <2> QED
    BY Zenon, <1>0, <2>1
<1>18. TruthInv'
  <2>1. \A x \in Socket : pc'[x] # "listed" => found'[x] = {}
    BY Zenon, <1>3, <1>13 DEF TruthInv
  <2>2. ASSUME NEW x \in Socket, pc'[x] \notin Registered PROVE told'[x] = {}
    <3>1. pc[x] \notin Registered /\ x # s /\ x \notin reach
      BY Zenon, <1>2, <1>3, <1>4, <1>17, <2>2
    <3>2. told[x] = {}
      BY Zenon, <3>1 DEF TruthInv
    <3> QED
      BY Zenon, <1>13, <3>1, <3>2
  <2>3. ASSUME NEW x \in Socket, NEW w \in Watchlist[x], <<x, w>> \notin misled', ~Deciding(w)'
        PROVE  /\ w \in Heard(x)' => Named(w)' \/ w \in todo'.gc
               /\ pc'[x] \in {"listed", "in", "leaving"} /\ Named(w)' /\ w \notin blind' => w \in Heard(x)'
    <3>1. CASE w # u
      <4>1. <<x, w>> \notin misled
        BY Zenon, <1>1, <2>3, <3>1
      <4>2. ~Deciding(w)
        BY Zenon, <1>3, <2>3, <3>1
      <4> QED
        BY Zenon, <1>1, <1>4, <1>10, <1>11, <1>16, <3>1, <4>1, <4>2 DEF TruthInv
    <3>2. CASE w = u /\ tell[s] = "online"
      <4>1. pc[x] \in {"listed", "in", "leaving"} => pc[x] \in Registered
        BY Zenon DEF Registered
      <4>2. pc[x] \in Registered => x \in reach
        BY Zenon, <1>0, <1>3, <3>2, Reach
      <4> QED
        BY Zenon, <1>4, <1>10, <1>16, <3>2, <4>1, <4>2
    <3>3. CASE w = u /\ tell[s] # "online"
      <4>1. tell[s] = "nothing"
        <5>1. tell[s] \in {"nothing", "online", "offline"} /\ tell[s] # "offline"
          BY Zenon, <1>1, <1>3 DEF UserTypeOK, DecisionInv
        <5> QED
          BY Zenon, <3>3, <5>1
      <4>2. reach = {} /\ blind' = blind
        BY Zenon, <1>0, <1>1, <3>3
      <4>3. <<x, w>> \notin misled /\ ~Deciding(w) /\ Heard(x)' = Heard(x)
        <5>1. misled' = misled /\ x \notin reach
          BY Zenon, <1>1, <4>2
        <5> QED
          BY Zenon, <1>3, <1>15, <2>3, <3>3, <4>1, <5>1
      <4>4. /\ w \in Heard(x) => Named(w) \/ w \in todo.gc
            /\ pc[x] \in {"listed", "in", "leaving"} /\ Named(w) /\ w \notin blind => w \in Heard(x)
        BY Zenon, <4>3 DEF TruthInv
      <4> QED
        BY Zenon, <1>1, <1>4, <1>10, <4>2, <4>3, <4>4
    <3> QED
      BY Zenon, <3>1, <3>2, <3>3
  <2> QED
    BY Zenon, <2>1, <2>2, <2>3 DEF TruthInv
<1>19. UserTypeOK'
  <2>1. /\ pc' \in [Task -> {"new", "signin", "bound", "listed", "in", "leaving", "unbound",
                             "idle", "apply", "applied", "decide"}]
        /\ \A x \in Socket : pc'[x] \in {"new", "signin", "bound", "listed", "in", "leaving", "unbound"}
        /\ pc'["bus"] = pc["bus"] /\ pc'["gc"] = pc["gc"]
    BY Zenon, <1>1, <1>2, SocketMoves
  <2> QED
    BY Zenon, <1>1, <1>5, <1>8, <1>12, <1>13, <2>1 DEF UserTypeOK
<1> QED
  BY Zenon, <1>3, <1>5, <1>6, <1>9, <1>12, <1>18, <1>19
\* The socket leaves the index, and what follows is decided.
LEMMA CleanupUnbindStep ==
    ASSUME UserInv, NEW s \in Socket, CleanupUnbind(s)
    PROVE  UserInv'
<1> USE DEF UserInv
<1> DEFINE u == SignsIn[s]
           last == index[u] = {s}
<1>0. PICK event, v :
         /\ event = IF last /\ ~IsPresentExcluding(sessions, u, {}) THEN "offline" ELSE "nothing"
         /\ v = IF last THEN "unbound" ELSE "new"
  OBVIOUS
<1>1. /\ pc[s] = "leaving" /\ MutexFree(s)
      /\ index' = [index EXCEPT ![u] = @ \ {s}]
      /\ told' = [told EXCEPT ![s] = {}]
      /\ misled' = misled \ ({s} \X User)
      /\ Overlook(u, event)
      /\ tell' = [tell EXCEPT ![s] = event]
      /\ pc' = [pc EXCEPT ![s] = v]
      /\ IF last THEN UNCHANGED <<lockOf, arc>> ELSE Release(s)
      /\ UNCHANGED <<watchers, found, sessions, work, todo, known, snap, since>>
  <2>1. CASE last
    BY Zenon, <1>0, <2>1 DEF CleanupUnbind, UnbindUser, Forget, locks, peers, published
  <2>2. CASE ~last
    BY Zenon, <1>0, <2>2 DEF CleanupUnbind, UnbindUser, Forget, locks, peers, published
  <2> QED
    BY Zenon, <2>1, <2>2
<1>2. /\ event \in {"nothing", "online", "offline"} /\ event # "online"
      /\ event = "offline" => last /\ v = "unbound" /\ ~IsPresentExcluding(sessions, u, {})
      /\ event # "offline" => event = "nothing"
      /\ event = "nothing" => ~last \/ IsPresentExcluding(sessions, u, {})
      /\ pc[s] \in Referring /\ pc[s] \notin InSection /\ pc[s] \in Registered
      /\ v \in {"new", "signin", "bound", "listed", "in", "leaving", "unbound"}
      /\ last => v = "unbound" /\ v \in InSection
      /\ ~last => v = "new" /\ v \notin Referring /\ v \notin InSection
      /\ v \notin Registered /\ v \notin {"listed", "in", "leaving"} /\ v \notin {"bound", "listed"}
      /\ v # "listed" /\ pc[s] # "listed" /\ pc[s] # "unbound"
      /\ v = "unbound" => last
      /\ v \notin InSection => event = "nothing"
  BY Zenon, <1>0, <1>1 DEF Referring, InSection, Registered
<1>3. /\ u \in User /\ UserOf(s) = u /\ UserOf(s)' = u /\ s \in Task
      /\ pc'[s] = v /\ (\A x \in Task : x # s => pc'[x] = pc[x])
      /\ \A x \in Socket : x # s => pc'[x] = pc[x] /\ tell'[x] = tell[x]
      /\ tell'[s] = event
      /\ \A x \in Task : UserOf(x)' = UserOf(x)
      /\ \A x \in Socket : x # s /\ pc[x] \in InSection => SignsIn[x] # u
      /\ \A w : w # u => (Deciding(w)' <=> Deciding(w))
      /\ Deciding(u) <=> tell[s] # "nothing"
      /\ Deciding(u)' <=> event # "nothing"
      /\ SessionsInv'
  <2>1. /\ pc[s] \in Referring /\ MutexFree(s) /\ pc' = [pc EXCEPT ![s] = v] /\ tell' = [tell EXCEPT ![s] = event]
        /\ UNCHANGED <<work, todo, sessions>>
    BY Zenon, <1>1, <1>2
  <2>2. /\ event \in {"nothing", "online", "offline"} /\ (v \notin InSection => event = "nothing")
        /\ v \in {"new", "signin", "bound", "listed", "in", "leaving", "unbound"}
    BY Zenon, <1>2
  <2> QED
    <3>1. CASE v = "unbound"
      BY Zenon, <2>1, <2>2, <3>1, SocketWorks
    <3>2. CASE v = "new"
      BY Zenon, <2>1, <2>2, <3>2, SocketWorks
    <3> QED
      BY Zenon, <1>2, <3>1, <3>2
<1>4. tell[s] = "nothing"
  BY Zenon, <1>2, <1>3 DEF DecisionInv
<1>5. /\ index'[u] = index[u] \ {s} /\ \A w \in User : w # u => index'[w] = index[w]
      /\ index' \in [User -> SUBSET Socket]
      /\ told'[s] = {} /\ \A x \in Socket : x # s => told'[x] = told[x]
      /\ told' \in [Socket -> SUBSET User]
  <2>1. index \in [User -> SUBSET Socket] /\ told \in [Socket -> SUBSET User]
    BY Zenon DEF UserTypeOK
  <2>2. /\ index'[u] = index[u] \ {s} /\ \A w \in User : w # u => index'[w] = index[w]
        /\ told'[s] = {} /\ \A x \in Socket : x # s => told'[x] = told[x]
    BY Zenon, <1>1, <1>3, <2>1
  <2>3. index[u] \ {s} \in SUBSET Socket /\ {} \in SUBSET User
    BY <1>3, <2>1
  <2>4. index' \in [User -> SUBSET Socket]
    BY Zenon, <1>1, <2>1, <2>3
  <2>5. told' \in [Socket -> SUBSET User]
    BY Zenon, <1>1, <2>1, <2>3
  <2> QED
    BY Zenon, <2>2, <2>4, <2>5
<1>6. s \in index[u]
  BY Zenon, <1>2, <1>3 DEF IndexInv
<1>7. (last => index'[u] = {}) /\ (~last => index'[u] # {})
  BY Zenon, <1>5, <1>6
<1> HIDE DEF last
<1>8. /\ LockInv'
      /\ lockOf' \in [User -> Mutex \cup {Nobody}] /\ arc' \in [Task -> Mutex \cup {Nobody}]
  <2>1. CASE last
    <3>1. LockInv'
      BY Zenon, <1>1, <1>2, <1>3, <2>1, SectionKeepsLocks
    <3> QED
      BY Zenon, <1>1, <2>1, <3>1 DEF UserTypeOK
  <2>2. CASE ~last
    BY Zenon, <1>1, <1>2, <1>3, <2>2, ReleaseKeepsLocks
  <2> QED
    BY Zenon, <2>1, <2>2
<1>9. IndexInv'
  <2>1. \A w \in User : index'[w] = {x \in Socket : SignsIn[x] = w /\ pc'[x] \in Registered}
    <3>1. index'[u] = {x \in Socket : SignsIn[x] = u /\ pc'[x] \in Registered}
      <4>1. index[u] = {x \in Socket : SignsIn[x] = u /\ pc[x] \in Registered}
        BY Zenon, <1>3 DEF IndexInv
      <4>2. pc'[s] \notin Registered /\ \A x \in Socket : x # s => pc'[x] = pc[x]
        BY Zenon, <1>2, <1>3
      <4>3. index'[u] = index[u] \ {s}
        BY Zenon, <1>5
      <4> QED
        BY <4>1, <4>2, <4>3
    <3>2. ASSUME NEW w \in User, w # u PROVE index'[w] = {x \in Socket : SignsIn[x] = w /\ pc'[x] \in Registered}
      <4>1. \A x \in Socket : SignsIn[x] = w => pc'[x] = pc[x]
        BY Zenon, <1>3, <3>2
      <4>2. index'[w] = {x \in Socket : SignsIn[x] = w /\ pc[x] \in Registered}
        BY Zenon, <1>5, <3>2 DEF IndexInv
      <4> QED
        BY <4>1, <4>2
    <3> QED
      BY Zenon, <3>1, <3>2
  <2>2. ASSUME NEW x \in Socket, pc'[x] = "unbound" PROVE index'[SignsIn[x]] = {}
    <3>1. CASE x = s
      BY Zenon, <1>2, <1>3, <1>7, <2>2, <3>1
    <3>2. CASE x # s
      <4>1. pc[x] = "unbound" /\ pc[x] \in InSection /\ SignsIn[x] \in User
        BY Zenon, <1>3, <2>2, <3>2, UserOfTask DEF InSection
      <4> QED
        BY Zenon, <1>3, <1>5, <3>2, <4>1 DEF IndexInv
    <3> QED
      BY Zenon, <3>1, <3>2
  <2> QED
    BY Zenon, <2>1, <2>2 DEF IndexInv
<1>10. WatchInv'
  <2>1. ASSUME NEW x \in Socket, pc'[x] \in Registered, NEW w \in Watchlist[x] PROVE SignsIn[x] \in watchers'[w]
    BY Zenon, <1>1, <1>2, <1>3, <2>1 DEF WatchInv
  <2>2. ASSUME NEW w \in User, index'[w] = {}, \A x \in Socket : pc'[x] = "unbound" => SignsIn[x] # w, NEW y \in User
        PROVE  w \notin watchers'[y]
    <3>1. w # u
      BY Zenon, <1>2, <1>3, <1>7, <2>2
    <3>2. index[w] = {} /\ \A x \in Socket : pc[x] = "unbound" => SignsIn[x] # w
      BY Zenon, <1>2, <1>3, <1>5, <2>2, <3>1
    <3> QED
      BY Zenon, <1>1, <3>2 DEF WatchInv
  <2> QED
    BY Zenon, <2>1, <2>2 DEF WatchInv
<1>11. KnownInv'
  <2>1. \A w : (Believed(w)' <=> Believed(w)) /\ (Open(w)' <=> Open(w))
    BY Zenon, <1>1 DEF Believed, Open
  <2>2. ASSUME NEW w \in User, ~Open(w)
        PROVE  /\ (\A x \in Socket : pc'[x] \in InSection => SignsIn[x] # w) => (Believed(w) <=> index'[w] # {})
               /\ \A x \in Socket : pc'[x] \in {"bound", "listed"} /\ SignsIn[x] = w /\ index'[w] # {x} => Believed(w)
    <3>1. CASE w = u
      <4>1. \A x \in Socket : pc[x] \in InSection => SignsIn[x] # u
        BY Zenon, <1>2, <1>3
      <4>2. Believed(u) <=> index[u] # {}
        BY Zenon, <2>2, <3>1, <4>1 DEF KnownInv
      <4>3. Believed(u)
        BY Zenon, <1>6, <4>2
      <4>4. \A x \in Socket : x # s /\ SignsIn[x] = u => pc'[x] \notin {"bound", "listed"}
        BY Zenon, <1>3, <4>1 DEF InSection
      <4> QED
        BY Zenon, <1>2, <1>3, <1>7, <3>1, <4>3, <4>4
    <3>2. CASE w # u
      <4>1. \A x \in Socket : SignsIn[x] = w => pc'[x] = pc[x]
        BY Zenon, <1>3, <3>2
      <4> QED
        BY Zenon, <1>5, <2>2, <3>2, <4>1 DEF KnownInv
    <3> QED
      BY Zenon, <3>1, <3>2
  <2> QED
    BY Zenon, <1>1, <2>1, <2>2 DEF KnownInv
<1>12. /\ \A w \in User : w # u => (Named(w)' <=> Named(w))
       /\ event = "nothing" => Named(u) /\ Named(u)'
  <2>1. Named(u)
    BY Zenon, <1>6 DEF Named
  <2>2. IsPresentExcluding(sessions, u, {}) => Named(u)'
    BY Zenon, <1>1 DEF IsPresentExcluding, Named
  <2>3. ~last => Named(u)'
    BY Zenon, <1>7 DEF Named
  <2>4. \A w \in User : w # u => (Named(w)' <=> Named(w))
    BY Zenon, <1>1, <1>5 DEF Named
  <2> QED
    BY Zenon, <1>2, <2>1, <2>2, <2>3, <2>4
<1>13. /\ event # "offline" => blind' = blind
       /\ event = "offline" => IF StaleNames(u) THEN blind' = blind \cup {u} ELSE blind' = blind \ {u}
  BY Zenon, <1>1 DEF Overlook
<1>14. \A w : w # u => (w \in blind' <=> w \in blind)
  BY Zenon, <1>13
<1>15. event = "offline" /\ Named(u)' => u \in blind'
  <2> SUFFICES ASSUME event = "offline", Named(u)' PROVE u \in blind'
    OBVIOUS
  <2>1. index'[u] = {} /\ ~IsPresentExcluding(sessions, u, {})
    BY Zenon, <1>2, <1>7
  <2>2. PICK q \in Peer : u \in sessions[q].users
    BY Zenon, <1>1, <2>1 DEF Named
  <2>3. sessions[q].age # "live"
    BY Zenon, <2>1, <2>2 DEF IsPresentExcluding
  <2>4. sessions[q].age \in {"none", "live", "stale"} /\ sessions[q].age # "none"
    BY Zenon, <2>2 DEF UserTypeOK, SessionsInv
  <2>5. StaleNames(u)
    BY Zenon, <2>2, <2>3, <2>4 DEF StaleNames
  <2> QED
    BY Zenon, <1>13, <2>5
<1>16. /\ DecisionInv'
       /\ tell' \in [Task -> {"nothing", "online", "offline"}]
  <2>1. \A w \in User : w # u => (Named(w)' => Named(w)) /\ (w \in blind => w \in blind')
    BY Zenon, <1>12, <1>14
  <2> QED
    BY Zenon, <1>1, <1>2, <1>15, <2>1, SocketDecides
<1>17. TruthInv'
  <2>1. \A x \in Socket : x # s => Heard(x)' = Heard(x)
    BY Zenon, <1>1, <1>5 DEF Heard
  <2>2. found[s] = {}
    BY Zenon, <1>2 DEF TruthInv
  <2>3. \A w : w \notin Heard(s)'
    BY Zenon, <1>1, <1>5, <2>2 DEF Heard
  <2>4. \A w \in User : ~Deciding(w)' => ~Deciding(w) /\ (Named(w)' <=> Named(w)) /\ (w \in blind' <=> w \in blind)
    <3>1. ~Deciding(u)' => ~Deciding(u) /\ (Named(u)' <=> Named(u)) /\ blind' = blind
      <4>1. event = "nothing" => event # "offline"
        OBVIOUS
      <4> QED
        BY Zenon, <1>3, <1>4, <1>12, <1>13, <4>1
    <3> QED
      BY Zenon, <1>3, <1>12, <1>14, <3>1
  <2>5. \A x \in Socket : \A w \in Watchlist[x] : w \in User
    BY Zenon, UserConstants
  <2>6. \A x \in Socket : /\ pc'[x] # "listed" => found'[x] = {}
                          /\ pc'[x] \notin Registered => told'[x] = {}
    <3>1. found'[s] = {} /\ told'[s] = {}
      BY Zenon, <1>1, <1>5, <2>2
    <3>2. \A x \in Socket : x # s => pc'[x] = pc[x] /\ found'[x] = found[x] /\ told'[x] = told[x]
      BY Zenon, <1>1, <1>3, <1>5
    <3> QED
      BY Zenon, <3>1, <3>2 DEF TruthInv
  <2>7. ASSUME NEW x \in Socket, NEW w \in Watchlist[x], <<x, w>> \notin misled', ~Deciding(w)'
        PROVE  /\ w \in Heard(x)' => Named(w)' \/ w \in todo'.gc
               /\ pc'[x] \in {"listed", "in", "leaving"} /\ Named(w)' /\ w \notin blind' => w \in Heard(x)'
    <3>1. CASE x = s
      BY Zenon, <1>2, <1>3, <2>3, <3>1
    <3>2. CASE x # s
      <4>1. <<x, w>> \notin misled
        BY Zenon, <1>1, <2>7, <3>2
      <4>2. ~Deciding(w) /\ (Named(w)' <=> Named(w)) /\ (w \in blind' <=> w \in blind)
        BY Zenon, <2>4, <2>5, <2>7
      <4>3. Heard(x)' = Heard(x) /\ pc'[x] = pc[x] /\ todo' = todo
        BY Zenon, <1>1, <1>3, <2>1, <3>2
      <4>4. /\ w \in Heard(x) => Named(w) \/ w \in todo.gc
            /\ pc[x] \in {"listed", "in", "leaving"} /\ Named(w) /\ w \notin blind => w \in Heard(x)
        BY Zenon, <4>1, <4>2 DEF TruthInv
      <4> QED
        BY Zenon, <4>2, <4>3, <4>4
    <3> QED
      BY Zenon, <3>1, <3>2
  <2> QED
    BY Zenon, <2>6, <2>7 DEF TruthInv
<1>18. UserTypeOK'
  <2>1. /\ pc' \in [Task -> {"new", "signin", "bound", "listed", "in", "leaving", "unbound",
                             "idle", "apply", "applied", "decide"}]
        /\ \A x \in Socket : pc'[x] \in {"new", "signin", "bound", "listed", "in", "leaving", "unbound"}
        /\ pc'["bus"] = pc["bus"] /\ pc'["gc"] = pc["gc"]
    BY Zenon, <1>1, <1>2, SocketMoves
  <2> QED
    BY Zenon, <1>1, <1>5, <1>8, <1>16, <2>1 DEF UserTypeOK
<1> QED
  BY Zenon, <1>3, <1>8, <1>9, <1>10, <1>11, <1>16, <1>17, <1>18

\* The last socket of a user is gone: the event, the peers, and the user's own watches.
LEMMA CleanupTellStep ==
    ASSUME UserInv, NEW s \in Socket, CleanupTell(s)
    PROVE  UserInv'
<1> USE DEF UserInv
<1> DEFINE u == SignsIn[s]
<1>0. PICK event : event = tell[s]
  OBVIOUS
<1>1. /\ pc[s] = "unbound" /\ Fanout(u, event)
      /\ known' = known \ {u} /\ since' = IF snap.step = "idle" THEN {} ELSE since \cup {u}
      /\ watchers' = RemoveAllWatches(u)
      /\ Release(s)
      /\ tell' = [tell EXCEPT ![s] = "nothing"]
      /\ pc' = [pc EXCEPT ![s] = "new"]
      /\ UNCHANGED <<index, found, sessions, work, todo, snap>>
  BY Zenon, <1>0 DEF CleanupTell, PublishUserOffline, peers
<1>2. /\ pc[s] \in Referring /\ pc[s] \in InSection /\ pc[s] \notin Registered
      /\ "new" \in {"new", "signin", "bound", "listed", "in", "leaving", "unbound"}
      /\ "new" \notin InSection /\ "new" \notin Registered /\ "new" \notin Referring
      /\ "new" \notin {"bound", "listed"} /\ pc[s] \notin {"bound", "listed"}
      /\ "new" # "unbound"
      /\ "nothing" \in {"nothing", "online", "offline"} /\ "nothing" # "online" /\ "nothing" # "offline"
  BY Zenon, <1>1 DEF Referring, InSection, Registered
<1>3. /\ u \in User /\ UserOf(s) = u /\ UserOf(s)' = u /\ s \in Task
      /\ pc'[s] = "new" /\ (\A x \in Task : x # s => pc'[x] = pc[x])
      /\ \A x \in Socket : x # s => pc'[x] = pc[x] /\ tell'[x] = tell[x]
      /\ \A x \in Task : UserOf(x)' = UserOf(x)
      /\ \A x \in Socket : x # s /\ pc[x] \in InSection => SignsIn[x] # u
      /\ \A w : w # u => (Deciding(w)' <=> Deciding(w))
      /\ Deciding(u) <=> tell[s] # "nothing"
      /\ SessionsInv'
  BY Zenon, <1>1, <1>2, SocketWorks
<1>4. event \in {"nothing", "online", "offline"} /\ event # "online"
  <2>1. tell[s] # "online"
    BY Zenon, <1>2 DEF DecisionInv
  <2> QED
    BY Zenon, <1>0, <1>3, <2>1 DEF UserTypeOK
<1>5. \A x \in Socket : pc'[x] \in Registered <=> pc[x] \in Registered
  BY Zenon, <1>2, <1>3
<1>6. index[u] = {}
  BY Zenon, <1>1 DEF IndexInv
<1>7. watchers' = [x \in User |-> watchers[x] \ {u}]
  BY Zenon, <1>1, <1>6 DEF RemoveAllWatches
<1>8. /\ watchers' \in [User -> SUBSET User]
      /\ \A x \in User : watchers'[x] = watchers[x] \ {u}
  BY Zenon, <1>7 DEF UserTypeOK
<1>9. /\ LockInv'
      /\ lockOf' \in [User -> Mutex \cup {Nobody}] /\ arc' \in [Task -> Mutex \cup {Nobody}]
  BY Zenon, <1>1, <1>2, <1>3, ReleaseKeepsLocks
<1>10. IndexInv'
  <2>1. \A x \in Socket : pc'[x] = "unbound" => pc[x] = "unbound"
    BY Zenon, <1>2, <1>3
  <2> QED
    BY Zenon, <1>1, <1>5, <2>1 DEF IndexInv
<1>11. WatchInv'
  <2>1. ASSUME NEW x \in Socket, pc'[x] \in Registered, NEW w \in Watchlist[x] PROVE SignsIn[x] \in watchers'[w]
    <3>1. w \in User /\ pc[x] \in Registered /\ SignsIn[x] \in User
      BY Zenon, <1>5, <2>1, UserConstants
    <3>2. x \in index[SignsIn[x]]
      BY <3>1 DEF IndexInv
    <3>3. SignsIn[x] # u
      BY Zenon, <1>6, <3>2
    <3>4. SignsIn[x] \in watchers[w]
      BY Zenon, <2>1, <3>1 DEF WatchInv
    <3> QED
      BY Zenon, <1>8, <3>1, <3>3, <3>4
  <2>2. ASSUME NEW w \in User, index'[w] = {}, \A x \in Socket : pc'[x] = "unbound" => SignsIn[x] # w, NEW y \in User
        PROVE  w \notin watchers'[y]
    <3>1. CASE w = u
      BY Zenon, <1>8, <3>1
    <3>2. CASE w # u
      <4>1. index[w] = {} /\ \A x \in Socket : pc[x] = "unbound" => SignsIn[x] # w
        BY Zenon, <1>1, <1>3, <2>2, <3>2
      <4>2. w \notin watchers[y]
        BY Zenon, <4>1 DEF WatchInv
      <4> QED
        BY Zenon, <1>8, <4>2
    <3> QED
      BY Zenon, <3>1, <3>2
  <2> QED
    BY Zenon, <2>1, <2>2 DEF WatchInv
<1>12. /\ snap.step = "idle" => since' = {}
       /\ known' \subseteq User /\ since' \subseteq User
       /\ \A w : w # u => (Believed(w)' <=> Believed(w)) /\ (Open(w)' <=> Open(w))
       /\ Believed(u)' <=> u \in known'
  BY Zenon, <1>1, <1>3, LiveMessage
<1>13. KnownInv'
  <2>1. ASSUME NEW w \in User, ~Open(w)'
        PROVE  /\ (\A x \in Socket : pc'[x] \in InSection => SignsIn[x] # w) => (Believed(w)' <=> index[w] # {})
               /\ \A x \in Socket : pc'[x] \in {"bound", "listed"} /\ SignsIn[x] = w /\ index[w] # {x} => Believed(w)'
    <3>1. CASE w = u
      <4>1. ~Believed(u)'
        BY Zenon, <1>1, <1>12
      <4>2. \A x \in Socket : SignsIn[x] = u => pc'[x] \notin {"bound", "listed"}
        <5>1. \A x \in Socket : pc'[x] \in {"bound", "listed"} => x # s /\ pc[x] \in InSection
          BY Zenon, <1>2, <1>3 DEF InSection
        <5> QED
          BY Zenon, <1>3, <5>1
      <4> QED
        BY Zenon, <1>6, <3>1, <4>1, <4>2
    <3>2. CASE w # u
      <4>1. \A x \in Socket : SignsIn[x] = w => pc'[x] = pc[x]
        BY Zenon, <1>3, <3>2
      <4> QED
        BY Zenon, <1>12, <2>1, <3>2, <4>1 DEF KnownInv
    <3> QED
      BY Zenon, <3>1, <3>2
  <2> QED
    BY Zenon, <1>1, <1>12, <2>1 DEF KnownInv
<1>14. \A w : Named(w)' <=> Named(w)
  BY Zenon, <1>1 DEF Named
<1>15. /\ told' \in [Socket -> SUBSET User]
       /\ \A w \in User : w # u => (w \in blind' <=> w \in blind)
  BY SMTT(30), <1>1, <1>3, <1>4, FanoutFacts
<1>16. /\ DecisionInv'
       /\ tell' \in [Task -> {"nothing", "online", "offline"}]
  <2>1. \A w \in User : w # u => (Named(w)' => Named(w)) /\ (w \in blind => w \in blind')
    BY Zenon, <1>14, <1>15
  <2> QED
    BY Zenon, <1>1, <1>2, <2>1, SocketDecides
<1>17. TruthInv'
  <2>1. event = "nothing" => ~Deciding(u) /\ (u \in todo.gc => u \in todo'.gc)
    BY Zenon, <1>0, <1>1, <1>3
  <2>2. event = "offline" /\ Named(u) => u \in blind
    BY Zenon, <1>0, <1>3 DEF DecisionInv
  <2>3. \A w \in User : w # u => (Deciding(w)' <=> Deciding(w)) /\ (w \in todo'.gc <=> w \in todo.gc)
    BY Zenon, <1>1, <1>3
  <2>4. \A x \in Socket : pc'[x] = pc[x] \/ (pc[x] = "unbound" /\ pc'[x] = "new")
    BY Zenon, <1>1, <1>3
  <2> QED
    BY Zenon, <1>1, <1>3, <1>4, <2>1, <2>2, <2>3, <2>4, AnnouncementKeepsTruth
<1>18. UserTypeOK'
  <2>1. /\ pc' \in [Task -> {"new", "signin", "bound", "listed", "in", "leaving", "unbound",
                             "idle", "apply", "applied", "decide"}]
        /\ \A x \in Socket : pc'[x] \in {"new", "signin", "bound", "listed", "in", "leaving", "unbound"}
        /\ pc'["bus"] = pc["bus"] /\ pc'["gc"] = pc["gc"]
    BY Zenon, <1>1, <1>2, SocketMoves
  <2> QED
    BY Zenon, <1>1, <1>8, <1>9, <1>12, <1>15, <1>16, <2>1 DEF UserTypeOK
<1> QED
  BY Zenon, <1>3, <1>9, <1>10, <1>11, <1>13, <1>16, <1>17, <1>18

(***************************************************************************)
(* The theorems                                                            *)
(***************************************************************************)

\* At the start.
LEMMA UserInitInv ==
    ASSUME UserInit
    PROVE  UserInv
<1> USE DEF UserInit
<1>1. UserTypeOK
  <2>1. /\ pc \in [Task -> {"new", "signin", "bound", "listed", "in", "leaving", "unbound",
                            "idle", "apply", "applied", "decide"}]
        /\ \A s \in Socket : pc[s] \in {"new", "signin", "bound", "listed", "in", "leaving", "unbound"}
        /\ pc["bus"] = "idle" /\ pc["gc"] = "idle"
    BY Zenon, UserConstants DEF Task
  <2>2. DOMAIN work = {"bus", "gc"} /\ DOMAIN todo = {"bus", "gc"} /\ todo.bus = {} /\ todo.gc = {}
    OBVIOUS
  <2>3. sessions \in [Peer -> [age : {"none", "live", "stale"}, users : SUBSET User]]
    BY Zenon DEF NoSession
  <2>4. snap \in [step : {"idle", "drawn", "captured"}, users : SUBSET User]
    BY Zenon DEF NoSnapshot
  <2> QED
    BY Zenon, <2>1, <2>2, <2>3, <2>4 DEF UserTypeOK
<1>2. \A t \in Task : pc[t] \notin InSection /\ pc[t] \notin Referring /\ pc[t] \notin Registered
  BY Zenon DEF InSection, Referring, Registered
<1>3. \A s \in Socket : s \in Task
  BY Zenon DEF Task
<1>4. LockInv
  BY Zenon, <1>2 DEF LockInv
<1>5. IndexInv
  <2>1. \A s \in Socket : pc[s] # "unbound"
    BY Zenon, <1>3
  <2> QED
    BY Zenon, <1>2, <1>3, <2>1 DEF IndexInv
<1>6. WatchInv
  BY Zenon, <1>2, <1>3 DEF WatchInv
<1>7. KnownInv
  <2>1. snap.step = "idle"
    BY Zenon DEF NoSnapshot
  <2>2. \A u \in User : ~Believed(u)
    BY Zenon, <2>1 DEF Believed
  <2>3. \A s \in Socket : pc[s] \notin {"bound", "listed"}
    BY Zenon, <1>3
  <2> QED
    BY Zenon, <2>2, <2>3 DEF KnownInv
<1>8. \A p \in Peer : sessions[p].age = "none" /\ sessions[p].users = {}
  BY Zenon DEF NoSession
<1>9. SessionsInv
  BY Zenon, <1>8 DEF SessionsInv
<1>10. DecisionInv
  BY Zenon, <1>3, UserOfTask DEF DecisionInv
<1>11. TruthInv
  <2>1. \A s \in Socket : found[s] = {} /\ told[s] = {}
    OBVIOUS
  <2>2. \A s \in Socket : \A u : u \notin Heard(s)
    BY Zenon, <2>1 DEF Heard
  <2>3. \A u \in User : ~Named(u)
    BY Zenon, <1>8 DEF Named
  <2>4. \A s \in Socket : \A u \in Watchlist[s] : u \in User
    BY Zenon, UserConstants
  <2> QED
    BY Zenon, <2>1, <2>2, <2>3, <2>4 DEF TruthInv
<1> QED
  BY Zenon, <1>1, <1>4, <1>5, <1>6, <1>7, <1>9, <1>10, <1>11 DEF UserInv

\* Every step keeps the invariant.
LEMMA UserNextInv ==
    ASSUME UserInv, [UserNext]_userVars
    PROVE  UserInv'
<1>1. CASE UNCHANGED userVars
  <2>1. /\ UNCHANGED <<pc, lockOf, arc, index, watchers, found, tell, sessions, work, todo>>
        /\ UNCHANGED <<told, misled, blind, known, snap, since>>
    BY Zenon, <1>1 DEF userVars, locks, registry, peers, published, clients
  <2>2. UNCHANGED <<pc, locks, registry, found, tell, peers, clients>>
    BY Zenon, <2>1 DEF locks, registry, peers, clients
  <2>3. KnownInv'
    <3>1. \A u : (Believed(u)' <=> Believed(u)) /\ (Open(u)' <=> Open(u))
      BY Zenon, <2>1 DEF Believed, Open
    <3> QED
      BY Zenon, <2>1, <3>1 DEF UserInv, KnownInv
  <2>4. /\ known' \subseteq User /\ since' \subseteq User
        /\ snap' \in [step : {"idle", "drawn", "captured"}, users : SUBSET User]
    BY Zenon, <2>1 DEF UserInv, UserTypeOK
  <2> QED
    BY Zenon, <2>2, <2>3, <2>4, OnlyPublished
<1>2. CASE \E s \in Socket : HandleSignin(s) \/ SigninBind(s) \/ SigninList(s) \/ SigninTell(s)
  BY Zenon, <1>2, SocketBeginsStep, SigninBindStep, SigninListStep, SigninTellStep
<1>3. CASE \E s \in Socket : Disconnect(s) \/ CleanupUnbind(s) \/ CleanupTell(s)
  BY Zenon, <1>3, SocketBeginsStep, CleanupUnbindStep, CleanupTellStep
<1>4. CASE \E p \in Peer, u \in PeerUser, event \in {"online", "offline"} : BusLive(p, u, event)
  BY Zenon, <1>4, BusLiveStep
<1>5. CASE \E p \in Peer, reported \in SUBSET PeerUser : BusSnapshot(p, reported)
  BY Zenon, <1>5, BusSnapshotStep
<1>6. CASE \E item \in todo.bus : BusDifference(item)
  BY Zenon, <1>6, BusDifferenceStep
<1>7. CASE BusApply \/ BusTell
  BY Zenon, <1>7, BusApplyStep, BusTellStep
<1>8. CASE \E p \in Peer : ExpireSession(p)
  BY Zenon, <1>8, ExpireSessionStep
<1>9. CASE GcSessions \/ GcDecide
  BY Zenon, <1>9, GcSessionsStep, GcDecideStep
<1>10. CASE \E u \in todo.gc : GcUser(u)
  BY Zenon, <1>10, GcUserStep
<1>11. CASE SessionSnapshotDraw \/ SessionSnapshotCapture \/ PublishUserSessionSnapshot
  BY Zenon, <1>11, SessionSnapshotStep
<1> QED
  BY Zenon, <1>1, <1>2, <1>3, <1>4, <1>5, <1>6, <1>7, <1>8, <1>9, <1>10, <1>11 DEF UserNext

\* The mutex of a user excludes, and a decision about a user is still right when it
\* is announced, in every reachable state (with_user_transition).
THEOREM UserInvariance == UserSpec => []UserInv
<1>1. UserInit => UserInv
  BY Zenon, UserInitInv
<1>2. UserInv /\ [UserNext]_userVars => UserInv'
  BY Zenon, UserNextInv
<1> QED
  BY <1>1, <1>2, PTL DEF UserSpec

\* While no session snapshot is under way and nobody is changing u's state, the
\* peers take u to be signed in exactly if it is (handle_signin,
\* cleanup_connection, publish_user_session_snapshot).
THEOREM PeersAlwaysKnow == UserSpec => []PeersKnowSessions
<1>1. UserInv => PeersKnowSessions
  <2> SUFFICES ASSUME UserInv, NEW u \in User, snap.step = "idle",
                      \A s \in Socket : pc[s] \in InSection => SignsIn[s] # u
               PROVE  (u \in known) = IsUserOnline(u)
    BY Zenon DEF PeersKnowSessions
  <2>1. ~Open(u) /\ (Believed(u) <=> u \in known)
    BY Zenon DEF Open, Believed
  <2>2. Believed(u) <=> index[u] # {}
    BY Zenon, <2>1 DEF UserInv, KnownInv
  <2> QED
    BY <2>1, <2>2 DEF IsUserOnline
<1> QED
  BY <1>1, UserInvariance, PTL

\* A registered socket's user is registered with everybody it watches, a user who
\* is not signed in with nobody (add_watcher, remove_all_watches).
THEOREM WatchesAlwaysMatch == UserSpec => []WatchesMatchSessions
<1>1. UserInv => WatchesMatchSessions
  <2> SUFFICES ASSUME UserInv PROVE WatchesMatchSessions
    OBVIOUS
  <2>1. \A s \in Socket : pc[s] \in {"bound", "listed", "in", "leaving"} =>
           \A u \in Watchlist[s] : SignsIn[s] \in watchers[u]
    BY Zenon DEF UserInv, WatchInv, Registered
  <2>2. ASSUME NEW u \in User, Settled(u), ~IsUserOnline(u) PROVE \A x \in User : u \notin watchers[x]
    <3>1. \A s \in Socket : pc[s] = "unbound" => pc[s] \in InSection
      BY Zenon DEF InSection
    <3>2. \A s \in Socket : pc[s] = "unbound" => SignsIn[s] # u
      BY Zenon, <2>2, <3>1, UserOfTask DEF Settled
    <3> QED
      BY Zenon, <2>2, <3>2 DEF UserInv, WatchInv, IsUserOnline
  <2> QED
    BY Zenon, <2>1, <2>2 DEF WatchesMatchSessions
<1> QED
  BY <1>1, UserInvariance, PTL

\* Once nothing is pending about u, a client that watches u has last been told
\* "online" exactly if u is (fanout_watchlist_event, emit_local_watchlist_event).
THEOREM WatchersAlwaysKnow == UserSpec => []WatchersKnow
<1>1. UserInv => WatchersKnow
  <2> SUFFICES ASSUME UserInv, NEW s \in Socket, pc[s] = "in", NEW u \in Watchlist[s] \ blind, Settled(u),
                      <<s, u>> \notin misled
               PROVE  (u \in told[s]) = Online(u)
    BY Zenon DEF WatchersKnow
  <2>1. u \in User /\ u \in Watchlist[s] /\ u \notin blind
    BY Zenon, UserConstants
  <2>2. ~Deciding(u) /\ u \notin todo.gc /\ ~StaleNames(u)
    BY Zenon DEF Settled, Deciding
  <2>3. (Online(u) => Named(u)) /\ (Named(u) => Online(u))
    BY Zenon, <2>1, <2>2, NamedOnline
  <2>4. found[s] = {}
    BY Zenon DEF UserInv, TruthInv
  <2>5. u \in Heard(s) <=> u \in told[s]
    BY Zenon, <2>4 DEF Heard
  <2>6. pc[s] \in {"listed", "in", "leaving"}
    OBVIOUS
  <2>7. u \in told[s] <=> Named(u)
    BY Zenon, <2>1, <2>2, <2>5, <2>6 DEF UserInv, TruthInv
  <2> QED
    <3>1. Online(u) \in BOOLEAN
      BY Zenon DEF Online, IsUserOnline, IsPresentExcluding
    <3> QED
      BY <2>3, <2>7, <3>1
<1> QED
  BY <1>1, UserInvariance, PTL
=============================================================================
