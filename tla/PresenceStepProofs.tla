------------------------- MODULE PresenceStepProofs -------------------------
(***************************************************************************)
(* The steps of the presence channel: each preserves CoreInv, and each is  *)
(* a step of the abstract room or leaves it as it is.  There is one lemma  *)
(* per action, or per pair of like actions.                                *)
(***************************************************************************)
EXTENDS PresenceInvariant, TLAPS

\* A step of kind A preserves CoreInv.
Keeps(A) == CoreInv /\ A => CoreInv'

USE DEF vars, chanVars, connVars, outVars, peerVars, histVars

\* None is no task, user or object, and the background tasks are no sockets.
LEMMA Distinct ==
    /\ None \notin Tasks /\ None \notin Users /\ None \notin Objects
    /\ "bus" \in Tasks \ Sockets /\ "gc" \in Tasks \ Sockets
    /\ Sockets \subseteq Tasks
    /\ \A s \in Sockets : JoinAs[s] \subseteq Users
  BY Zenon, ConstantsAreSane DEF Tasks

\* A change that is still to be published stays so while nobody joins or
\* leaves: the step moves neither the members nor the objects of those who
\* have yet to announce.
LEMMA PendingFrame ==
    ASSUME PendingInv, members' = members,
           \A s \in Sockets, u \in Users :
               /\ Arriving(s, u)' => Arriving(s, u) /\ chan' = chan
               /\ Departing(s, u)' => Departing(s, u) /\ obj'[s] = obj[s]
    PROVE  PendingInv'
<1> SUFFICES ASSUME NEW s \in Sockets, NEW u \in Users
             PROVE  /\ Arriving(s, u)' => \A t \in Sockets : members'[chan'][t] = u <=> t = s
                    /\ Departing(s, u)' => \A t \in Sockets : members'[obj'[s]][t] # u
  BY Zenon DEF PendingInv
<1>1. /\ Arriving(s, u) => \A t \in Sockets : members[chan][t] = u <=> t = s
      /\ Departing(s, u) => \A t \in Sockets : members[obj[s]][t] # u
  BY Zenon DEF PendingInv
<1>2. ASSUME Arriving(s, u)'
      PROVE  \A t \in Sockets : members'[chan'][t] = u <=> t = s
  <2>1. Arriving(s, u) /\ chan' = chan
    BY Zenon, <1>2
  <2> QED BY Zenon, <1>1, <2>1
<1>3. ASSUME Departing(s, u)'
      PROVE  \A t \in Sockets : members'[obj'[s]][t] # u
  <2>1. Departing(s, u) /\ obj'[s] = obj[s]
    BY Zenon, <1>3
  <2> QED BY Zenon, <1>1, <2>1
<1> QED BY Zenon, <1>2, <1>3

\* What the count of a user says when one of the user's sockets is a member.
LEMMA CountOfMember ==
    ASSUME CountInv, NEW o \in Objects, NEW u \in Users, NEW s \in Sockets, members[o][s] = u
    PROVE  /\ refs[o][u] # 0
           /\ (refs[o][u] = 1 <=> \A t \in Sockets \ {s} : members[o][t] # u)
<1>1. refs[o][u] = 0 <=> \A t \in Sockets : members[o][t] # u
  BY Zenon DEF CountInv
<1>2. \A r \in Sockets :
          members[o][r] = u => (refs[o][u] = 1 <=> \A t \in Sockets \ {r} : members[o][t] # u)
  BY DEF CountInv
<1>3. ~(\A t \in Sockets : members[o][t] # u)
  BY Zenon
<1>4. refs[o][u] # 0
  BY Zenon, <1>1, <1>3
<1>5. refs[o][u] = 1 <=> \A t \in Sockets \ {s} : members[o][t] # u
  BY Zenon, <1>2
<1> QED BY Zenon, <1>4, <1>5

\* send_to_members queues well-formed frames and kicks only sockets.
LEMMA BroadcastType ==
    ASSUME queue \in [Sockets -> Seq(Frames)], kicked \subseteq Sockets,
           NEW o, NEW frame \in Frames, NEW except, Broadcast(o, frame, except)
    PROVE  queue' \in [Sockets -> Seq(Frames)] /\ kicked' \subseteq Sockets
  BY DEF Broadcast, KickAll

\* A step that leaves the map entry, the members and every connection task
\* where they are preserves CoreInv if it preserves the types, the background
\* tasks' own state and the ownership of the transition locks.
Undisturbed ==
    /\ TypeOK' /\ BackgroundInv' /\ TransInv'
    /\ \A s \in Sockets : pc'[s] = pc[s] /\ obj'[s] = obj[s]
    /\ UNCHANGED <<chan, entryLock, chanVars, join, connVars, busRoster, late>>

\* Such a step keeps everything the handlers rely on.
LEMMA BackgroundFrame == Keeps(Undisturbed)
<1> SUFFICES ASSUME CoreInv, Undisturbed
             PROVE  CoreInv'
  BY Zenon DEF Keeps
<1> USE DEF Undisturbed
<1>1. SocketInv' /\ EntryInv'
  BY Zenon DEF CoreInv, SocketInv, EntryInv
<1>2. MemberInv' /\ EmptyChannelIsReaped'
  BY Zenon DEF CoreInv, MemberInv, EmptyChannelIsReaped, IsEmpty, IsMember
<1>3. \A t \in Sockets, u \in Users :
          (Arriving(t, u)' <=> Arriving(t, u)) /\ (Departing(t, u)' <=> Departing(t, u))
  BY Zenon DEF Arriving, Departing
<1>4. PendingInv' /\ BusInv'
  BY <1>3 DEF CoreInv, PendingInv, BusInv, Here
<1> QED BY Zenon, <1>1, <1>2, <1>4 DEF CoreInv

\* Writing a queued frame changes only what the client believes.
LEMMA DeliverStep == \A s \in Sockets : Keeps(Deliver(s))
<1> SUFFICES ASSUME CoreInv, NEW s \in Sockets, Deliver(s)
             PROVE  CoreInv'
  BY Zenon DEF Keeps
<1>1. UNCHANGED <<chan, entryLock, transLock, chanVars, pc, obj, join, connVars, kicked, peerVars,
                  busRoster, histVars>>
  BY Zenon DEF Deliver
<1>2. queue[s] \in Seq(Frames) /\ queue[s] # <<>>
  BY Zenon DEF CoreInv, TypeOK, Deliver
<1>3. Tail(queue[s]) \in Seq(Frames) /\ Head(queue[s]).user \in Users
  <2>1. Tail(queue[s]) \in Seq(Frames) /\ Head(queue[s]) \in Frames
    BY <1>2
  <2> QED BY Zenon, <2>1 DEF Frames
<1>4. queue' \in [Sockets -> Seq(Frames)]
  BY Zenon, <1>3 DEF CoreInv, TypeOK, Deliver
<1>5. view' \in [Sockets -> SUBSET Users]
  BY Zenon, <1>3 DEF CoreInv, TypeOK, Deliver
<1>6. TypeOK'
  BY Zenon, <1>1, <1>4, <1>5 DEF CoreInv, TypeOK
<1>7. BackgroundInv' /\ TransInv'
  BY Zenon, <1>1 DEF CoreInv, BackgroundInv, TransInv
<1> QED BY Zenon, <1>1, <1>6, <1>7, BackgroundFrame DEF Keeps, Undisturbed

\* find_channel takes no lock; what it found may be dropped by the map later.
LEMMA FindSteps == Keeps((\E e \in Events : BusFind(e)) \/ GcFind)
<1> SUFFICES ASSUME CoreInv, (\E e \in Events : BusFind(e)) \/ GcFind
             PROVE  CoreInv'
  BY Zenon DEF Keeps
<1> USE Distinct
<1>1. CASE \E e \in Events : BusFind(e)
  <2>1. /\ pc' = [pc EXCEPT !["bus"] = IF chan = None THEN "apply" ELSE "bus_lock"]
        /\ obj' = [obj EXCEPT !["bus"] = chan]
        /\ event' \in Events /\ pc["bus"] = "idle"
        /\ UNCHANGED <<chan, entryLock, transLock, chanVars, join, connVars, outVars, view,
                       cache, diff, expired, busRoster, histVars>>
    BY Zenon, <1>1 DEF BusFind, Goto
  <2>2. TypeOK'
    BY Zenon, <2>1 DEF CoreInv, TypeOK, Labels
  <2>3. BackgroundInv'
    BY Zenon, <2>1 DEF CoreInv, TypeOK, BackgroundInv
  <2>4. TransInv'
    BY <2>1 DEF CoreInv, TypeOK, TransInv, Critical
  <2>5. \A s \in Sockets : pc'[s] = pc[s] /\ obj'[s] = obj[s]
    BY Zenon, <2>1 DEF CoreInv, TypeOK
  <2> QED BY Zenon, <2>1, <2>2, <2>3, <2>4, <2>5, BackgroundFrame DEF Keeps, Undisturbed
<1>2. CASE GcFind
  <2>1. /\ pc["gc"] = "idle" /\ expired' \subseteq expired
        /\ UNCHANGED <<chan, entryLock, transLock, chanVars, join, connVars, outVars, view,
                       cache, event, diff, busRoster, histVars>>
    BY Zenon, <1>2 DEF GcFind
  <2>2. \/ pc' = pc /\ obj' = obj
        \/ /\ chan # None /\ pc' = [pc EXCEPT !["gc"] = "gc_lock"]
           /\ obj' = [obj EXCEPT !["gc"] = chan]
    BY Zenon, <1>2 DEF GcFind, Goto
  <2>3. TypeOK'
    BY <2>1, <2>2 DEF CoreInv, TypeOK, Labels
  <2>4. BackgroundInv'
    BY <2>1, <2>2 DEF CoreInv, TypeOK, BackgroundInv
  <2>5. TransInv'
    BY <2>1, <2>2 DEF CoreInv, TypeOK, TransInv, Critical
  <2>6. \A s \in Sockets : pc'[s] = pc[s] /\ obj'[s] = obj[s]
    BY Zenon, <2>2 DEF CoreInv, TypeOK
  <2> QED BY Zenon, <2>1, <2>3, <2>4, <2>5, <2>6, BackgroundFrame DEF Keeps, Undisturbed
<1> QED BY Zenon, <1>1, <1>2

\* Both background tasks wait for the transition lock of what they found.
LEMMA BackgroundLockSteps == Keeps(BusLock \/ GcLock)
<1> SUFFICES ASSUME CoreInv, BusLock \/ GcLock
             PROVE  CoreInv'
  BY Zenon DEF Keeps
<1> USE Distinct
<1>1. PICK t \in {"bus", "gc"}, label \in {"apply", "gc_decide"} :
         /\ pc[t] \in {"bus_lock", "gc_lock"} /\ pc' = [pc EXCEPT ![t] = label]
         /\ (t = "bus") <=> (label = "apply")
         /\ transLock[obj[t]] = None /\ transLock' = [transLock EXCEPT ![obj[t]] = t]
         /\ UNCHANGED <<chan, entryLock, chanVars, obj, join, connVars, outVars, view,
                        peerVars, busRoster, histVars>>
  BY Zenon DEF BusLock, GcLock, Lock, Goto
<1>2. obj[t] \in Objects /\ t \in Tasks /\ t \notin Sockets
  BY Zenon, <1>1 DEF CoreInv, BackgroundInv
<1>3. TypeOK'
  BY Zenon, <1>1, <1>2 DEF CoreInv, TypeOK, Labels
<1>4. BackgroundInv'
  BY Zenon, <1>1, <1>2 DEF CoreInv, TypeOK, BackgroundInv
<1>5. TransInv'
  BY <1>1, <1>2 DEF CoreInv, TypeOK, TransInv, Critical
<1>6. \A s \in Sockets : pc'[s] = pc[s] /\ obj'[s] = obj[s]
  BY Zenon, <1>1, <1>2 DEF CoreInv, TypeOK
<1> QED BY Zenon, <1>1, <1>3, <1>4, <1>5, <1>6, BackgroundFrame DEF Keeps, Undisturbed

\* What the end of an apply_remote_* function, where the lock, if any, is
\* left, means for the tasks and the locks.
BusReleased ==
    /\ pc' \in [Tasks -> Labels] /\ obj' \in [Tasks -> Objects \union {None}]
    /\ transLock' \in [Objects -> Tasks \union {None}] /\ event' = None
    /\ BackgroundInv' /\ TransInv'
    /\ \A s \in Sockets : pc'[s] = pc[s] /\ obj'[s] = obj[s]

\* The end of an apply_remote_* function leaves the connection tasks alone.
LEMMA BusDoneInv ==
    ASSUME CoreInv, BusDone, pc["bus"] \in {"apply", "diff"}
    PROVE  BusReleased
<1> USE Distinct
<1>1. /\ pc' = [pc EXCEPT !["bus"] = "idle"] /\ obj' = [obj EXCEPT !["bus"] = None]
      /\ transLock' = IF obj["bus"] = None THEN transLock
                                           ELSE [transLock EXCEPT ![obj["bus"]] = None]
      /\ event' = None
  BY Zenon DEF BusDone, Unlock, Release, Goto
<1>2. pc' \in [Tasks -> Labels] /\ obj' \in [Tasks -> Objects \union {None}]
      /\ transLock' \in [Objects -> Tasks \union {None}]
  BY Zenon, <1>1 DEF CoreInv, TypeOK, Labels
<1>3. BackgroundInv'
  BY Zenon, <1>1 DEF CoreInv, TypeOK, BackgroundInv
<1>4. TransInv'
  BY SMTT(30), <1>1 DEF CoreInv, TypeOK, TransInv, Critical
<1> QED BY Zenon, <1>1, <1>2, <1>3, <1>4 DEF CoreInv, TypeOK, BusReleased

\* A peer's message touches the cache and the clients, never the membership.
LEMMA BusApplyStep == Keeps(BusApply)
<1> SUFFICES ASSUME CoreInv, BusApply
             PROVE  CoreInv'
  BY Zenon DEF Keeps
<1> USE Distinct
<1>1. /\ pc["bus"] = "apply" /\ event \in Events
      /\ UNCHANGED <<chan, entryLock, chanVars, join, connVars, view, expired, busRoster, late>>
  BY Zenon DEF CoreInv, BusApply, BackgroundInv
<1>2. tainted' \subseteq Sockets
  BY Zenon DEF BusApply, Missed, CoreInv, TypeOK
<1>3. ASSUME NEW kind \in {"added", "removed"}, event.kind = kind
      PROVE  event.peer \in Peers /\ event.user \in Users
             /\ Added(event.user) \in Frames /\ Removed(event.user) \in Frames
  BY Zenon, <1>1, <1>3, ConstantsAreSane DEF Events, Frames, Added, Removed
<1>4. CASE ApplyMemberAdded \/ ApplyMemberRemoved
  <2>1. BusDone /\ diff' = diff /\ event.kind \in {"added", "removed"}
    BY Zenon, <1>4 DEF ApplyMemberAdded, ApplyMemberRemoved
  <2>2. cache' \in [Peers -> SUBSET Users]
    <3>1. cache \in [Peers -> SUBSET Users] /\ event.user \in Users
      BY Zenon, <1>3, <2>1 DEF CoreInv, TypeOK
    <3>2. CASE ApplyMemberAdded
      BY Zenon, <3>1, <3>2 DEF ApplyMemberAdded
    <3>3. CASE ApplyMemberRemoved
      BY Zenon, <3>1, <3>3 DEF ApplyMemberRemoved
    <3> QED BY Zenon, <1>4, <3>2, <3>3
  <2>3. queue' \in [Sockets -> Seq(Frames)] /\ kicked' \subseteq Sockets
    BY Zenon, <1>3, <1>4, BroadcastType DEF ApplyMemberAdded, ApplyMemberRemoved, CoreInv, TypeOK
  <2>4. BusReleased
    BY Zenon, <1>1, <2>1, BusDoneInv
  <2>5. TypeOK'
    BY Zenon, <1>1, <1>2, <2>1, <2>2, <2>3, <2>4 DEF CoreInv, TypeOK, BusReleased
  <2> QED BY Zenon, <1>1, <2>4, <2>5, BackgroundFrame DEF Keeps, Undisturbed, BusReleased
<1>5. CASE ApplySnapshot
  <2>1. event.peer \in Peers /\ event.users \subseteq Users /\ event.kind = "snapshot"
    BY Zenon, <1>1, <1>5, ConstantsAreSane DEF Events, ApplySnapshot
  <2>2. cache' \in [Peers -> SUBSET Users] /\ queue' = queue /\ kicked' = kicked
    BY Zenon, <1>5, <2>1 DEF ApplySnapshot, CoreInv, TypeOK
  <2>3. RemoteUsers \subseteq Users /\ \A p \in Peers : cache[p] \subseteq Users
    BY DEF RemoteUsers, CoreInv, TypeOK
  <2>4. CASE obj["bus"] = None
    <3>1. BusDone /\ diff' = diff
      BY Zenon, <1>5, <2>4 DEF ApplySnapshot
    <3>2. BusReleased
      BY Zenon, <1>1, <3>1, BusDoneInv
    <3>3. TypeOK'
      BY Zenon, <1>1, <1>2, <2>2, <3>1, <3>2 DEF CoreInv, TypeOK, BusReleased
    <3> QED BY Zenon, <1>1, <3>2, <3>3, BackgroundFrame DEF Keeps, Undisturbed, BusReleased
  <2>5. CASE obj["bus"] # None
    <3>1. pc' = [pc EXCEPT !["bus"] = "diff"] /\ UNCHANGED <<transLock, obj, event>>
      BY Zenon, <1>5, <2>5 DEF ApplySnapshot, Goto
    <3>2. diff' \subseteq Frames
      BY <1>5, <2>1, <2>3, <2>5 DEF ApplySnapshot, Frames, Added, Removed
    <3>3. TypeOK'
      BY Zenon, <1>1, <1>2, <2>2, <3>1, <3>2 DEF CoreInv, TypeOK, Labels
    <3>4. BackgroundInv'
      BY Zenon, <1>1, <2>5, <3>1 DEF CoreInv, TypeOK, BackgroundInv
    <3>5. TransInv'
      BY <1>1, <3>1 DEF CoreInv, TypeOK, TransInv, Critical
    <3>6. \A s \in Sockets : pc'[s] = pc[s] /\ obj'[s] = obj[s]
      BY Zenon, <3>1 DEF CoreInv, TypeOK
    <3> QED BY Zenon, <1>1, <3>3, <3>4, <3>5, <3>6, BackgroundFrame DEF Keeps, Undisturbed
  <2> QED BY Zenon, <2>4, <2>5
<1> QED BY Zenon, <1>4, <1>5 DEF BusApply

\* The frames that correct the clients after a snapshot change no membership.
LEMMA BusDiffSteps == Keeps(BusDiff \/ BusDiffDone)
<1> SUFFICES ASSUME CoreInv, BusDiff \/ BusDiffDone
             PROVE  CoreInv'
  BY Zenon DEF Keeps
<1>1. CASE BusDiff
  <2>1. UNCHANGED <<chan, entryLock, transLock, chanVars, pc, obj, join, connVars, view, cache,
                    event, expired, busRoster, histVars>>
    BY Zenon, <1>1 DEF BusDiff
  <2>2. diff' \subseteq Frames /\ queue' \in [Sockets -> Seq(Frames)] /\ kicked' \subseteq Sockets
    BY Zenon, <1>1, BroadcastType DEF BusDiff, CoreInv, TypeOK
  <2>3. TypeOK'
    BY Zenon, <2>1, <2>2 DEF CoreInv, TypeOK
  <2>4. BackgroundInv' /\ TransInv'
    BY Zenon, <2>1 DEF CoreInv, BackgroundInv, TransInv
  <2> QED BY Zenon, <2>1, <2>3, <2>4, BackgroundFrame DEF Keeps, Undisturbed
<1>2. CASE BusDiffDone
  <2>1. /\ pc["bus"] = "diff" /\ BusDone
        /\ UNCHANGED <<chan, entryLock, chanVars, join, connVars, outVars, view, cache, diff,
                       expired, busRoster, histVars>>
    BY Zenon, <1>2 DEF BusDiffDone
  <2>2. BusReleased
    BY Zenon, <2>1, BusDoneInv
  <2>3. TypeOK'
    BY Zenon, <2>1, <2>2 DEF CoreInv, TypeOK, BusReleased
  <2> QED BY Zenon, <2>1, <2>2, <2>3, BackgroundFrame DEF Keeps, Undisturbed, BusReleased
<1> QED BY Zenon, <1>1, <1>2

\* The invariant says nothing about what stays as it is.
LEMMA CoreStutter == Keeps(UNCHANGED vars)
<1> SUFFICES ASSUME CoreInv, UNCHANGED vars
             PROVE  CoreInv'
  BY Zenon DEF Keeps
<1>1. TypeOK' /\ BackgroundInv' /\ TransInv'
  BY Zenon DEF CoreInv, TypeOK, BackgroundInv, TransInv
<1> QED BY Zenon, <1>1, BackgroundFrame DEF Keeps, Undisturbed

(***************************************************************************)
(* The steps of handle_subscribe                                           *)
(***************************************************************************)

\* The map entry is free, so nobody is joining; a channel that is created
\* for the name is one that no task refers to.
LEMMA HandleSubscribeStep ==
    \A s \in Sockets : \A u \in JoinAs[s] : Keeps(HandleSubscribe(s, u))
<1> SUFFICES ASSUME CoreInv, NEW s \in Sockets, NEW u \in JoinAs[s], HandleSubscribe(s, u)
             PROVE  CoreInv'
  BY Zenon DEF Keeps
<1> USE Distinct
<1>1. /\ pc[s] = "idle" /\ pc' = [pc EXCEPT ![s] = "sub_lock"]
      /\ entryLock = None /\ entryLock' = s
      /\ obj' = [obj EXCEPT ![s] = chan']
      /\ join' = [join EXCEPT ![s] = [NoJoin EXCEPT !.user = u]]
      /\ UNCHANGED <<transLock, connVars, outVars, view, peerVars, busRoster, histVars>>
  BY Zenon DEF HandleSubscribe, Goto, HoldEntry
<1>2. \/ chan # None /\ chan' = chan /\ members' = members /\ refs' = refs
      \/ /\ chan = None
         /\ \E o \in Objects :
               /\ \A t \in Tasks : obj[t] # o
               /\ chan' = o
               /\ members' = [members EXCEPT ![o] = NoMembers]
               /\ refs' = [refs EXCEPT ![o] = NoRefs]
  BY Zenon DEF HandleSubscribe, Allocate, Unreferenced
<1>3. \A t \in Sockets : pc[t] \notin Joining
  BY Zenon, <1>1 DEF CoreInv, EntryInv
<1>4. u \in Users /\ chan' \in Objects
  BY Zenon, <1>2 DEF CoreInv, TypeOK
<1>5. NoMembers \in [Sockets -> Users \union {None}] /\ NoRefs \in [Users -> Nat]
  BY Zenon DEF NoMembers, NoRefs
<1>6. members' \in [Objects -> [Sockets -> Users \union {None}]] /\ refs' \in [Objects -> [Users -> Nat]]
  <2>1. CASE chan # None
    BY Zenon, <1>2, <2>1 DEF CoreInv, TypeOK
  <2>2. CASE chan = None
    <3>1. PICK o \in Objects : /\ members' = [members EXCEPT ![o] = NoMembers]
                               /\ refs' = [refs EXCEPT ![o] = NoRefs]
      BY Zenon, <1>2, <2>2
    <3>2. members \in [Objects -> [Sockets -> Users \union {None}]] /\ refs \in [Objects -> [Users -> Nat]]
      BY Zenon DEF CoreInv, TypeOK
    <3> QED BY Zenon, <1>5, <3>1, <3>2
  <2> QED BY Zenon, <2>1, <2>2
<1>7. join' \in [Sockets -> Joins] /\ join'[s].user = u /\ ~join'[s].changed
      /\ \A t \in Sockets \ {s} : join'[t] = join[t]
  BY Zenon, <1>1, <1>4 DEF CoreInv, TypeOK, NoJoin, Joins
<1>8. /\ \A o \in Objects \ {chan'} : members'[o] = members[o]
      /\ \A t \in Tasks : chan' # obj[t] \/ chan = chan'
      /\ chan = None => \A o \in Objects, t \in Sockets : members'[o][t] = None
      /\ chan # None => members' = members /\ refs' = refs /\ chan' = chan
  BY <1>2 DEF CoreInv, TypeOK, MemberInv, IsMember, NoMembers
<1>9. TypeOK'
  BY Zenon, <1>1, <1>4, <1>6, <1>7 DEF CoreInv, TypeOK, Labels
<1>10. SocketInv'
  <2>1. ASSUME NEW t \in Sockets, t # s PROVE pc'[t] = pc[t] /\ obj'[t] = obj[t] /\ join'[t] = join[t]
    BY Zenon, <1>1, <1>7, <2>1 DEF CoreInv, TypeOK
  <2>2. pc'[s] = "sub_lock" /\ obj'[s] = chan' /\ s \notin closing
    BY Zenon, <1>1, <1>4 DEF CoreInv, TypeOK, SocketInv, Leaving
  <2> QED BY <1>1, <1>3, <1>4, <1>7, <2>1, <2>2 DEF CoreInv, SocketInv, Joining, Leaving
<1>11. BackgroundInv' /\ EntryInv'
  BY <1>1, <1>3 DEF CoreInv, TypeOK, BackgroundInv, EntryInv, Joining
<1>12. TransInv'
  BY SMTT(30), <1>1 DEF CoreInv, TypeOK, TransInv, Critical
<1>13. MemberInv'
  <2>1. CASE chan # None
    BY <1>1, <1>8, <2>1 DEF CoreInv, TypeOK, MemberInv, IsMember, Joining
  <2>2. CASE chan = None
    <3>1. \A t \in Sockets : t \notin subscribed' /\ ~IsMember(chan, t)'
                           /\ pc'[t] # "announce" /\ \A o \in Objects : ~IsMember(o, t)'
      BY Zenon, <1>1, <1>3, <1>4, <1>8, <2>2 DEF CoreInv, TypeOK, MemberInv, IsMember, Joining
    <3> QED BY Zenon, <3>1 DEF MemberInv
  <2> QED BY Zenon, <2>1, <2>2
<1>15. EmptyChannelIsReaped'
  BY Zenon, <1>1 DEF CoreInv, TypeOK, EmptyChannelIsReaped
<1>16. \A t \in Sockets, v \in Users :
          ~Arriving(t, v)' /\ ~Arriving(t, v)
          /\ (Departing(t, v)' <=> Departing(t, v) /\ t # s) /\ (Departing(t, v) => t # s)
  BY Zenon, <1>1, <1>3, <1>7 DEF CoreInv, TypeOK, Arriving, Departing, Joining
<1>17. PendingInv'
  <2>1. \A t \in Sockets : t # s => obj'[t] = obj[t]
    BY Zenon, <1>1 DEF CoreInv, TypeOK
  <2>2. \A t \in Sockets, v \in Users : Departing(t, v) => members'[obj[t]] = members[obj[t]]
    BY <1>8 DEF CoreInv, SocketInv, Departing, Leaving
  <2> QED BY <1>16, <2>1, <2>2 DEF CoreInv, PendingInv
<1>18. \A v \in Users : Here(v)' <=> Here(v)
  BY <1>4, <1>8 DEF Here
<1>19. BusInv'
  BY Zenon, <1>1, <1>16, <1>18 DEF CoreInv, BusInv
<1> QED BY Zenon, <1>9, <1>10, <1>11, <1>12, <1>13, <1>15, <1>17, <1>19 DEF CoreInv

\* A join waits for the transition lock holding the map entry, a leave waits
\* for it without.
LEMMA SocketLockSteps == \A s \in Sockets : Keeps(SubscribeLock(s) \/ LeaveLock(s))
<1> SUFFICES ASSUME CoreInv, NEW s \in Sockets, SubscribeLock(s) \/ LeaveLock(s)
             PROVE  CoreInv'
  BY Zenon DEF Keeps
<1> USE Distinct
<1>1. PICK label \in {"admit", "unsubscribe"} :
         /\ pc[s] = (IF label = "admit" THEN "sub_lock" ELSE "leave_lock")
         /\ pc' = [pc EXCEPT ![s] = label]
  BY Zenon DEF SubscribeLock, LeaveLock, Goto
<1>2. /\ transLock[obj[s]] = None /\ transLock' = [transLock EXCEPT ![obj[s]] = s]
      /\ UNCHANGED <<chan, entryLock, chanVars, obj, join, connVars, outVars, view,
                     peerVars, busRoster, histVars>>
  BY Zenon DEF SubscribeLock, LeaveLock, Lock
<1>3. obj[s] \in Objects
  BY Zenon, <1>1 DEF CoreInv, TypeOK, SocketInv, Joining, Leaving
<1>4. TypeOK'
  BY Zenon, <1>1, <1>2, <1>3 DEF CoreInv, TypeOK, Labels
<1>5. SocketInv'
  BY Zenon, <1>1, <1>2 DEF CoreInv, TypeOK, SocketInv, Joining, Leaving
<1>6. BackgroundInv' /\ EntryInv'
  BY <1>1, <1>2 DEF CoreInv, TypeOK, BackgroundInv, EntryInv, Joining
<1>7. TransInv'
  BY <1>1, <1>2, <1>3 DEF CoreInv, TypeOK, TransInv, Critical
<1>8. MemberInv'
  BY Zenon, <1>1, <1>2 DEF CoreInv, TypeOK, MemberInv, IsMember, Joining
<1>9. EmptyChannelIsReaped'
  BY Zenon, <1>1, <1>2 DEF CoreInv, TypeOK, EmptyChannelIsReaped, IsEmpty, IsMember
<1>10. \A t \in Sockets, u \in Users :
          (Arriving(t, u)' <=> Arriving(t, u)) /\ (Departing(t, u)' <=> Departing(t, u))
  BY Zenon, <1>1, <1>2 DEF CoreInv, TypeOK, Arriving, Departing
<1>11. PendingInv' /\ BusInv'
  BY <1>2, <1>10 DEF CoreInv, PendingInv, BusInv, Here
<1> QED BY Zenon, <1>4, <1>5, <1>6, <1>7, <1>8, <1>9, <1>11 DEF CoreInv

\* The admit closure reads the caches and changes only what the task remembers.
LEMMA AdmitStep == \A s \in Sockets : Keeps(Admit(s))
<1> SUFFICES ASSUME CoreInv, NEW s \in Sockets, Admit(s)
             PROVE  CoreInv'
  BY Zenon DEF Keeps
<1> USE Distinct
<1>1. pc[s] = "admit" /\ pc' = [pc EXCEPT ![s] = "subscribe"]
  BY Zenon DEF Admit, Goto
<1>2. UNCHANGED <<chan, entryLock, transLock, chanVars, obj, connVars, outVars, view,
                  peerVars, busRoster, late>>
  BY Zenon DEF Admit
<1>3. tainted' \subseteq Sockets
  BY Zenon DEF CoreInv, TypeOK, Admit
<1>4. RemoteUsers \in SUBSET Users
  BY DEF CoreInv, TypeOK, RemoteUsers
<1>5. join' \in [Sockets -> Joins] /\ \A t \in Sockets : /\ join'[t].user = join[t].user
                                                        /\ join'[t].changed = join[t].changed
  <2> DEFINE b == join[s].user \in RemoteUsers
             j == [join[s] EXCEPT !.remote = RemoteUsers, !.present = b]
  <2>1. b \in BOOLEAN
    OBVIOUS
  <2>2. join \in [Sockets -> Joins] /\ join' = [join EXCEPT ![s] = j]
    BY Zenon DEF CoreInv, TypeOK, Admit
  <2>3. join[s] \in Joins /\ j = [join[s] EXCEPT !.remote = RemoteUsers, !.present = b]
    BY Zenon, <2>2
  <2> HIDE DEF b, j
  <2>4. j \in Joins /\ j.user = join[s].user /\ j.changed = join[s].changed
    BY Zenon, <1>4, <2>1, <2>3 DEF Joins
  <2> QED BY Zenon, <2>2, <2>4
<1>7. TypeOK'
  BY Zenon, <1>1, <1>2, <1>3, <1>5 DEF CoreInv, TypeOK, Labels
<1>8. SocketInv'
  BY Zenon, <1>1, <1>2, <1>5 DEF CoreInv, TypeOK, SocketInv, Joining, Leaving
<1>9. BackgroundInv' /\ EntryInv'
  BY Zenon, <1>1, <1>2 DEF CoreInv, TypeOK, BackgroundInv, EntryInv, Joining
<1>10. TransInv'
  BY <1>1, <1>2 DEF CoreInv, TypeOK, TransInv, Critical
<1>11. MemberInv'
  BY Zenon, <1>1, <1>2 DEF CoreInv, TypeOK, MemberInv, IsMember, Joining
<1>12. EmptyChannelIsReaped'
  BY Zenon, <1>1, <1>2 DEF CoreInv, TypeOK, EmptyChannelIsReaped, IsEmpty, IsMember
<1>13. \A t \in Sockets, u \in Users :
          (Arriving(t, u)' <=> Arriving(t, u)) /\ (Departing(t, u)' <=> Departing(t, u))
  BY Zenon, <1>1, <1>2, <1>5 DEF CoreInv, TypeOK, Arriving, Departing
<1>14. PendingInv' /\ BusInv'
  <2>1. PendingInv /\ BusInv
    BY Zenon DEF CoreInv
  <2>2. PendingInv'
    BY SMTT(30), <1>2, <1>13, <2>1 DEF PendingInv
  <2>3. BusInv'
    BY Zenon, <1>2, <1>13, <2>1 DEF BusInv, Here
  <2> QED BY Zenon, <2>2, <2>3
<1> QED BY Zenon, <1>7, <1>8, <1>9, <1>10, <1>11, <1>12, <1>14 DEF CoreInv

\* A rejected join leaves both locks and changes no membership.
LEMMA RejectStep == \A s \in Sockets : Keeps(Reject(s))
<1> SUFFICES ASSUME CoreInv, NEW s \in Sockets, Reject(s)
             PROVE  CoreInv'
  BY Zenon DEF Keeps
<1> USE Distinct
<1>1. /\ pc[s] = "admit" /\ pc' = [pc EXCEPT ![s] = "reap"]
      /\ entryLock' = None
      /\ transLock' = [transLock EXCEPT ![obj[s]] = None]
      /\ obj' = [obj EXCEPT ![s] = None]
      /\ join' = [join EXCEPT ![s] = NoJoin]
      /\ UNCHANGED <<chan, chanVars, connVars, outVars, view, peerVars, busRoster, histVars>>
  BY Zenon DEF Reject, Goto, Unlock, Release
<1>2. chan \in Objects /\ obj[s] = chan /\ entryLock = s /\ transLock[chan] = s
  BY <1>1 DEF CoreInv, TypeOK, SocketInv, EntryInv, TransInv, Joining, Critical
<1>3. join' \in [Sockets -> Joins] /\ ~join'[s].changed
      /\ \A t \in Sockets \ {s} : join'[t] = join[t]
  BY Zenon, <1>1 DEF CoreInv, TypeOK, NoJoin, Joins
<1>4. TypeOK'
  BY Zenon, <1>1, <1>3 DEF CoreInv, TypeOK, Labels
<1>5. SocketInv'
  BY Zenon, <1>1, <1>3 DEF CoreInv, TypeOK, SocketInv, Joining, Leaving
<1>6. BackgroundInv' /\ EntryInv'
  BY Zenon, <1>1, <1>2 DEF CoreInv, TypeOK, BackgroundInv, EntryInv, Joining
<1>7. TransInv'
  BY <1>1, <1>2 DEF CoreInv, TypeOK, TransInv, Critical
<1>8. MemberInv'
  BY Zenon, <1>1, <1>2 DEF CoreInv, TypeOK, SocketInv, MemberInv, IsMember, Joining, Leaving
<1>9. EmptyChannelIsReaped'
  BY Zenon, <1>1 DEF CoreInv, TypeOK, EmptyChannelIsReaped
<1>10. \A t \in Sockets, u \in Users :
          /\ Arriving(t, u)' <=> Arriving(t, u)
          /\ Departing(t, u)' <=> Departing(t, u)
          /\ Departing(t, u) => obj'[t] = obj[t]
  BY Zenon, <1>1, <1>3 DEF CoreInv, TypeOK, Arriving, Departing
<1>11. PendingInv' /\ BusInv'
  BY <1>1, <1>10 DEF CoreInv, PendingInv, BusInv, Here
<1> QED BY Zenon, <1>4, <1>5, <1>6, <1>7, <1>8, <1>9, <1>11 DEF CoreInv

\* Inside the transition lock nobody else changes the members, so the count
\* tells whether the socket is the user's first.
LEMMA SubscribeStep == \A s \in Sockets : Keeps(CountInv /\ Subscribe(s))
<1> SUFFICES ASSUME CoreInv, CountInv, NEW s \in Sockets, Subscribe(s)
             PROVE  CoreInv'
  BY Zenon DEF Keeps
<1> USE Distinct
<1>0. PICK u \in Users : u = join[s].user
  BY Zenon DEF Subscribe, CoreInv, SocketInv, Joining
<1> DEFINE isNew == members[chan][s] = None
<1>1. /\ pc[s] = "subscribe" /\ pc' = [pc EXCEPT ![s] = "announce"]
      /\ UNCHANGED <<chan, entryLock, transLock, obj, connVars, outVars, peerVars,
                     busRoster, histVars>>
  BY Zenon DEF Subscribe, Goto
<1>2. chan \in Objects /\ obj[s] = chan /\ entryLock = s /\ transLock[chan] = s
  BY <1>1 DEF CoreInv, TypeOK, SocketInv, EntryInv, TransInv, Joining, Critical
<1>3. /\ members' = IF isNew THEN [members EXCEPT ![chan][s] = u] ELSE members
      /\ refs' = IF isNew THEN [refs EXCEPT ![chan][u] = @ + 1] ELSE refs
  BY Zenon, <1>0, <1>2 DEF Subscribe, IsMember, CountUser
<1>4. \A t \in Sockets : t # s => pc[t] \notin Joining
  BY Zenon, <1>2 DEF CoreInv, EntryInv
<1>5. members' \in [Objects -> [Sockets -> Users \union {None}]] /\ refs' \in [Objects -> [Users -> Nat]]
  BY <1>2, <1>3 DEF CoreInv, TypeOK
<1>6. /\ members'[chan][s] # None
      /\ isNew => members'[chan][s] = u
      /\ ~isNew => members'[chan][s] = members[chan][s]
      /\ \A o \in Objects, t \in Sockets : o # chan \/ t # s => members'[o][t] = members[o][t]
      /\ \A o \in Objects, v \in Users : o # chan \/ v # u \/ ~isNew => refs'[o][v] = refs[o][v]
      /\ isNew => refs'[chan][u] = refs[chan][u] + 1
  BY <1>2, <1>3 DEF CoreInv, TypeOK
<1>7. /\ join' \in [Sockets -> Joins] /\ join'[s].user = u
      /\ join'[s].changed <=> isNew /\ refs[chan][u] = 0
      /\ \A t \in Sockets \ {s} : join'[t] = join[t]
  <2> DEFINE b == isNew /\ refs[chan][u] = 0
             j == [join[s] EXCEPT !.changed = b]
  <2>1. b \in BOOLEAN
    OBVIOUS
  <2>2. join \in [Sockets -> Joins] /\ join' = [join EXCEPT ![s] = j]
    BY Zenon, <1>0, <1>2 DEF CoreInv, TypeOK, Subscribe, IsMember
  <2>3. join[s] \in Joins /\ j = [join[s] EXCEPT !.changed = b]
    BY Zenon, <2>2
  <2> HIDE DEF b, j
  <2>4. j \in Joins /\ j.user = join[s].user /\ j.changed = b
    BY Zenon, <2>1, <2>3 DEF Joins
  <2>5. join' \in [Sockets -> Joins] /\ join'[s] = j /\ \A t \in Sockets \ {s} : join'[t] = join[t]
    BY Zenon, <2>2, <2>4
  <2> QED BY Zenon, <1>0, <2>4, <2>5 DEF b
<1>8. view' \in [Sockets -> SUBSET Users]
  <2>1. join[s].remote \subseteq Users
    BY Zenon DEF CoreInv, TypeOK, Joins
  <2> QED BY Zenon, <2>1 DEF CoreInv, TypeOK, Subscribe
<1>9. TypeOK'
  BY Zenon, <1>1, <1>5, <1>7, <1>8 DEF CoreInv, TypeOK, Labels
<1>10. SocketInv'
  BY SMTT(30), <1>0, <1>1, <1>2, <1>7 DEF CoreInv, TypeOK, SocketInv, Joining, Leaving
<1>11. BackgroundInv' /\ EntryInv'
  BY Zenon, <1>1, <1>2 DEF CoreInv, TypeOK, BackgroundInv, EntryInv, Joining
<1>12. TransInv'
  BY <1>1, <1>2 DEF CoreInv, TypeOK, TransInv, Critical
<1>13. MemberInv'
  <2>1. \A o \in Objects, t \in Sockets : IsMember(o, t)' <=> IsMember(o, t) \/ (o = chan /\ t = s)
    BY <1>2, <1>6 DEF IsMember
  <2> QED BY Zenon, <1>1, <1>2, <2>1 DEF CoreInv, TypeOK, MemberInv, Joining
<1>16. EmptyChannelIsReaped'
  BY Zenon, <1>1 DEF CoreInv, TypeOK, EmptyChannelIsReaped
<1>17. (refs[chan][u] = 0) <=> \A t \in Sockets : members[chan][t] # u
  BY Zenon, <1>2 DEF CountInv
<1>18. \A t \in Sockets, v \in Users :
          /\ Arriving(t, v)' <=> t = s /\ v = u /\ join'[s].changed
          /\ ~Arriving(t, v)
          /\ Departing(t, v)' <=> Departing(t, v)
          /\ Departing(t, v) => t # s /\ obj[t] \in Objects /\ obj[t] # chan
  <2>1. \A t \in Sockets : t # s => pc'[t] = pc[t] /\ pc[t] # "announce"
    BY Zenon, <1>1, <1>4 DEF CoreInv, TypeOK, Joining
  <2>2. pc'[s] = "announce"
    BY Zenon, <1>1 DEF CoreInv, TypeOK
  <2>3. \A t \in Sockets : pc[t] = "announce_leave" => obj[t] \in Objects /\ obj[t] # chan
    BY <1>1, <1>2 DEF CoreInv, SocketInv, TransInv, Leaving, Critical
  <2> QED BY <1>1, <1>7, <2>1, <2>2, <2>3 DEF Arriving, Departing
<1>19. PendingInv'
  <2>1. ASSUME join'[s].changed
        PROVE  \A t \in Sockets : members'[chan][t] = u <=> t = s
    BY <1>2, <1>6, <1>7, <1>17, <2>1
  <2>2. ASSUME NEW t \in Sockets, NEW v \in Users, Departing(t, v)
        PROVE  \A r \in Sockets : members'[obj[t]][r] # v
    <3>1. \A r \in Sockets : members[obj[t]][r] # v
      BY Zenon, <2>2 DEF CoreInv, PendingInv
    <3> QED BY Zenon, <1>6, <1>18, <2>2, <3>1
  <2>3. chan' = chan /\ obj' = obj
    BY Zenon, <1>1
  <2> QED BY Zenon, <1>18, <2>1, <2>2, <2>3 DEF PendingInv
<1>20. \A v \in Users : Here(v)' <=> Here(v) \/ (v = u /\ isNew)
  BY <1>1, <1>2, <1>6 DEF Here
<1>21. isNew /\ ~Here(u) => Arriving(s, u)'
  BY Zenon, <1>2, <1>7, <1>17, <1>18 DEF Here
<1>22. BusInv'
  <2> SUFFICES ASSUME NEW v \in Users, v \notin late'
               PROVE  /\ Here(v)' => v \in busRoster' \/ \E t \in Sockets : Arriving(t, v)'
                      /\ v \in busRoster' => Here(v)' \/ \E t \in Sockets : Departing(t, v)'
    BY Zenon DEF BusInv
  <2>1. v \notin late /\ busRoster' = busRoster
    BY Zenon, <1>1
  <2>2. /\ Here(v) => v \in busRoster
        /\ v \in busRoster => Here(v) \/ \E t \in Sockets : Departing(t, v)
    BY Zenon, <1>18, <2>1 DEF CoreInv, BusInv
  <2>3. CASE isNew /\ v = u /\ ~Here(u)
    <3>1. Here(v)' /\ Arriving(s, v)'
      BY Zenon, <1>20, <1>21, <2>3
    <3> QED BY Zenon, <3>1
  <2>4. CASE ~(isNew /\ v = u /\ ~Here(u))
    <3>1. Here(v)' <=> Here(v)
      BY Zenon, <1>20, <2>4
    <3> QED BY Zenon, <1>18, <2>1, <2>2, <3>1
  <2> QED BY Zenon, <2>3, <2>4
<1> QED BY Zenon, <1>9, <1>10, <1>11, <1>12, <1>13, <1>16, <1>19, <1>22 DEF CoreInv

(***************************************************************************)
(* The steps of leave_channel, by request or at the end of a connection    *)
(***************************************************************************)

\* A socket that asks to leave refers to the channel it is a member of.
LEMMA HandleUnsubscribeStep == \A s \in Sockets : Keeps(HandleUnsubscribe(s))
<1> SUFFICES ASSUME CoreInv, NEW s \in Sockets, HandleUnsubscribe(s)
             PROVE  CoreInv'
  BY Zenon DEF Keeps
<1> USE Distinct
<1>1. /\ pc[s] = "idle" /\ entryLock = None
      /\ pc' = [pc EXCEPT ![s] = IF chan = None THEN "idle" ELSE "leave_lock"]
      /\ obj' = [obj EXCEPT ![s] = chan]
      /\ subscribed' = subscribed \ {s}
      /\ view' = [view EXCEPT ![s] = {}]
      /\ UNCHANGED <<chan, entryLock, transLock, chanVars, join, closing, outVars, peerVars,
                     busRoster, histVars>>
  BY Zenon DEF HandleUnsubscribe, FindToLeave, Goto
<1>2. TypeOK'
  BY Zenon, <1>1 DEF CoreInv, TypeOK, Labels
<1>3. SocketInv'
  BY Zenon, <1>1 DEF CoreInv, TypeOK, SocketInv, Joining, Leaving
<1>4. BackgroundInv' /\ EntryInv'
  BY Zenon, <1>1 DEF CoreInv, TypeOK, BackgroundInv, EntryInv, Joining
<1>5. TransInv'
  BY SMTT(30), <1>1 DEF CoreInv, TypeOK, TransInv, Critical
<1>6. MemberInv'
  BY Zenon, <1>1 DEF CoreInv, TypeOK, MemberInv, IsMember, Joining
<1>7. EmptyChannelIsReaped'
  BY Zenon, <1>1 DEF CoreInv, TypeOK, EmptyChannelIsReaped
<1>8. \A t \in Sockets, u \in Users :
          /\ Arriving(t, u)' <=> Arriving(t, u)
          /\ Departing(t, u)' <=> Departing(t, u)
          /\ Departing(t, u) => obj'[t] = obj[t]
  BY Zenon, <1>1 DEF CoreInv, TypeOK, Arriving, Departing
<1>9. PendingInv' /\ BusInv'
  <2>1. /\ PendingInv /\ BusInv /\ chan' = chan /\ members' = members
        /\ busRoster' = busRoster /\ late' = late
    BY Zenon, <1>1 DEF CoreInv
  <2>2. \A t \in Sockets, u \in Users : Departing(t, u) => obj'[t] = obj[t]
    BY Zenon, <1>1, <1>8
  <2>3. PendingInv'
    BY Zenon, <1>8, <2>1, <2>2, PendingFrame
  <2>4. \A u \in Users : Here(u)' <=> Here(u)
    BY Zenon, <2>1 DEF Here
  <2>5. BusInv'
    BY Zenon, <1>8, <2>1, <2>4 DEF BusInv
  <2> QED BY Zenon, <2>3, <2>5
<1> QED BY Zenon, <1>2, <1>3, <1>4, <1>5, <1>6, <1>7, <1>9 DEF CoreInv

\* cleanup_connection leaves what the connection lists, so nothing stays.
LEMMA CleanupStep == \A s \in Sockets : Keeps(Cleanup(s))
<1> SUFFICES ASSUME CoreInv, NEW s \in Sockets, Cleanup(s)
             PROVE  CoreInv'
  BY Zenon DEF Keeps
<1> USE Distinct
<1>1. /\ pc[s] = "idle"
      /\ subscribed' = subscribed \ {s}
      /\ view' = [view EXCEPT ![s] = {}]
      /\ UNCHANGED <<chan, entryLock, transLock, chanVars, join, outVars, peerVars,
                     busRoster, histVars>>
  BY Zenon DEF Cleanup, FindToLeave
<1>2. \/ /\ s \in subscribed /\ chan # None /\ entryLock = None
         /\ pc' = [pc EXCEPT ![s] = "leave_lock"] /\ obj' = [obj EXCEPT ![s] = chan]
         /\ closing' = closing \union {s}
      \/ /\ s \notin subscribed /\ pc' = [pc EXCEPT ![s] = "close"]
         /\ obj' = obj /\ closing' = closing
  BY Zenon DEF Cleanup, FindToLeave, LeavesOnClose, Goto, CoreInv, MemberInv
<1>3. TypeOK'
  <2>1. pc' \in [Tasks -> Labels]
    BY Zenon, <1>2 DEF CoreInv, TypeOK, Labels
  <2>2. chan \in Objects \union {None} /\ obj \in [Tasks -> Objects \union {None}] /\ closing \subseteq Sockets
    BY Zenon DEF CoreInv, TypeOK
  <2>3. obj' \in [Tasks -> Objects \union {None}]
    BY Zenon, <1>2, <2>2
  <2>4. closing' \subseteq Sockets
    BY Zenon, <1>2, <2>2
  <2> QED BY Zenon, <1>1, <2>1, <2>3, <2>4 DEF CoreInv, TypeOK
<1>4. SocketInv'
  BY <1>1, <1>2 DEF CoreInv, TypeOK, SocketInv, Joining, Leaving
<1>5. BackgroundInv' /\ EntryInv'
  BY <1>1, <1>2 DEF CoreInv, TypeOK, BackgroundInv, EntryInv, Joining
<1>6. TransInv'
  BY <1>1, <1>2 DEF CoreInv, TypeOK, TransInv, Critical
<1>7. MemberInv'
  BY <1>1, <1>2 DEF CoreInv, TypeOK, MemberInv, IsMember, Joining
<1>8. EmptyChannelIsReaped'
  <2>1. \A t \in Sockets : pc[t] \notin {"idle", "close"} => pc'[t] = pc[t]
    BY Zenon, <1>1, <1>2 DEF CoreInv, TypeOK
  <2> QED BY Zenon, <1>1, <2>1 DEF CoreInv, EmptyChannelIsReaped, IsEmpty, IsMember
<1>9. \A t \in Sockets, u \in Users :
          /\ Arriving(t, u)' <=> Arriving(t, u)
          /\ Departing(t, u)' <=> Departing(t, u)
          /\ Departing(t, u) => obj'[t] = obj[t]
  BY Zenon, <1>1, <1>2 DEF CoreInv, TypeOK, Arriving, Departing
<1>10. PendingInv'
  <2>1. PendingInv
    BY Zenon DEF CoreInv
  <2>2. chan' = chan /\ members' = members
    BY Zenon, <1>1
  <2> QED BY Zenon, <1>9, <2>1, <2>2, PendingFrame
<1>11. BusInv'
  <2>1. BusInv
    BY Zenon DEF CoreInv
  <2>2. \A u \in Users : Here(u)' <=> Here(u)
    BY Zenon, <1>1 DEF Here
  <2> QED BY Zenon, <1>1, <1>9, <2>1, <2>2 DEF BusInv
<1> QED BY Zenon, <1>3, <1>4, <1>5, <1>6, <1>7, <1>8, <1>10, <1>11 DEF CoreInv

\* Closing the socket drops its queue; it left its channels before.
LEMMA CloseStep == \A s \in Sockets : Keeps(Close(s))
<1> SUFFICES ASSUME CoreInv, NEW s \in Sockets, Close(s)
             PROVE  CoreInv'
  BY Zenon DEF Keeps
<1> USE Distinct
<1>1. /\ pc[s] = "close" /\ pc' = [pc EXCEPT ![s] = "idle"]
      /\ queue' = [queue EXCEPT ![s] = <<>>]
      /\ kicked' = kicked \ {s}
      /\ UNCHANGED <<chan, entryLock, transLock, chanVars, obj, join, connVars, view, peerVars,
                     busRoster, histVars>>
  BY Zenon DEF Close, Goto
<1>2. TypeOK'
  BY <1>1 DEF CoreInv, TypeOK, Labels
<1>3. SocketInv'
  BY Zenon, <1>1 DEF CoreInv, TypeOK, SocketInv, Joining, Leaving
<1>4. BackgroundInv' /\ EntryInv'
  BY SMTT(30), <1>1 DEF CoreInv, TypeOK, BackgroundInv, EntryInv, Joining
<1>5. TransInv'
  BY SMTT(30), <1>1 DEF CoreInv, TypeOK, TransInv, Critical
<1>6. MemberInv'
  BY Zenon, <1>1 DEF CoreInv, TypeOK, MemberInv, IsMember, Joining
<1>7. EmptyChannelIsReaped'
  <2>1. \A t \in Sockets : pc[t] \notin {"idle", "close"} => pc'[t] = pc[t]
    BY Zenon, <1>1 DEF CoreInv, TypeOK
  <2> QED BY Zenon, <1>1, <2>1 DEF CoreInv, EmptyChannelIsReaped, IsEmpty, IsMember
<1>8. \A t \in Sockets, u \in Users :
          (Arriving(t, u)' <=> Arriving(t, u)) /\ (Departing(t, u)' <=> Departing(t, u))
  BY Zenon, <1>1 DEF CoreInv, TypeOK, Arriving, Departing
<1>9. PendingInv' /\ BusInv'
  <2>1. /\ PendingInv /\ BusInv /\ chan' = chan /\ members' = members
        /\ busRoster' = busRoster /\ late' = late
    BY Zenon, <1>1 DEF CoreInv
  <2>2. \A t \in Sockets, u \in Users : Departing(t, u) => obj'[t] = obj[t]
    BY Zenon, <1>1, <1>8
  <2>3. PendingInv'
    BY Zenon, <1>8, <2>1, <2>2, PendingFrame
  <2>4. \A u \in Users : Here(u)' <=> Here(u)
    BY Zenon, <2>1 DEF Here
  <2>5. BusInv'
    BY Zenon, <1>8, <2>1, <2>4 DEF BusInv
  <2> QED BY Zenon, <2>3, <2>5
<1> QED BY Zenon, <1>2, <1>3, <1>4, <1>5, <1>6, <1>7, <1>9 DEF CoreInv

\* Inside the transition lock the count tells whether the socket was the
\* user's last.
LEMMA UnsubscribeStep == \A s \in Sockets : Keeps(CountInv /\ Unsubscribe(s))
<1> SUFFICES ASSUME CoreInv, CountInv, NEW s \in Sockets, Unsubscribe(s)
             PROVE  CoreInv'
  BY Zenon DEF Keeps
<1> USE Distinct
<1>1. /\ pc[s] = "unsubscribe" /\ pc' = [pc EXCEPT ![s] = "announce_leave"]
      /\ tainted' = tainted \ {s}
      /\ UNCHANGED <<chan, entryLock, transLock, obj, connVars, outVars, view, peerVars,
                     busRoster, late>>
  BY Zenon DEF Unsubscribe, Goto
<1>2. PICK o \in Objects : o = obj[s] /\ transLock[o] = s
  BY <1>1 DEF CoreInv, SocketInv, TransInv, Leaving, Critical
<1>3. s \notin subscribed /\ ~join[s].changed
  BY Zenon, <1>1 DEF CoreInv, MemberInv, SocketInv, Joining
<1>4. \A t \in Sockets, v \in Users : Departing(t, v) => t # s /\ obj[t] \in Objects \ {o}
  BY <1>1, <1>2 DEF CoreInv, SocketInv, TransInv, Departing, Leaving, Critical
<1>5. SocketInv' /\ TypeOK' /\ members' \in [Objects -> [Sockets -> Users \union {None}]] =>
        (BackgroundInv /\ EntryInv /\ TransInv /\ EmptyChannelIsReaped)'
  <2>1. BackgroundInv'
    BY Zenon, <1>1 DEF CoreInv, TypeOK, BackgroundInv
  <2>2. EntryInv'
    BY Zenon, <1>1 DEF CoreInv, TypeOK, EntryInv, Joining
  <2>3. TransInv'
    BY <1>1 DEF CoreInv, TypeOK, TransInv, Critical
  <2>4. EmptyChannelIsReaped'
    BY Zenon, <1>1 DEF CoreInv, TypeOK, EmptyChannelIsReaped
  <2> QED BY Zenon, <2>1, <2>2, <2>3, <2>4
<1>6. CASE members[o][s] = None
  <2>1. members' = members /\ refs' = refs /\ join' = join
    BY Zenon, <1>2, <1>6 DEF Unsubscribe, IsMember
  <2>2. TypeOK'
    BY Zenon, <1>1, <2>1 DEF CoreInv, TypeOK, Labels
  <2>3. SocketInv'
    BY Zenon, <1>1, <1>2, <1>3, <2>1 DEF CoreInv, TypeOK, SocketInv, Joining, Leaving
  <2>4. MemberInv'
    BY Zenon, <1>1, <1>2, <1>3, <1>6, <2>1 DEF CoreInv, TypeOK, MemberInv, IsMember, Joining
  <2>6. \A t \in Sockets, u \in Users :
            (Arriving(t, u)' <=> Arriving(t, u)) /\ (Departing(t, u)' <=> Departing(t, u))
    BY Zenon, <1>1, <1>3, <2>1 DEF CoreInv, TypeOK, Arriving, Departing
  <2>7. PendingInv' /\ BusInv'
    <3>1. /\ PendingInv /\ BusInv /\ chan' = chan /\ members' = members /\ obj' = obj
          /\ busRoster' = busRoster /\ late' = late
      BY Zenon, <1>1, <2>1 DEF CoreInv
    <3>2. PendingInv'
      BY Zenon, <2>6, <3>1, PendingFrame
    <3>3. \A u \in Users : Here(u)' <=> Here(u)
      BY Zenon, <3>1 DEF Here
    <3>4. BusInv'
      BY Zenon, <2>6, <3>1, <3>3 DEF BusInv
    <3> QED BY Zenon, <3>2, <3>4
  <2> QED BY Zenon, <1>5, <2>2, <2>3, <2>4, <2>7 DEF CoreInv, TypeOK
<1>7. CASE members[o][s] # None
  <2>1. PICK u \in Users : u = members[o][s]
    BY <1>7 DEF CoreInv, TypeOK
  <2>2. o = chan
    BY Zenon, <1>7 DEF CoreInv, MemberInv, IsMember
  <2>3. \A t \in Sockets, v \in Users : ~Arriving(t, v)
    BY <1>1, <1>2, <2>2 DEF CoreInv, SocketInv, TransInv, Arriving, Joining, Critical
  <2>4. /\ members' = [members EXCEPT ![o][s] = None]
        /\ refs' = [refs EXCEPT ![o][u] = @ - 1]
    BY Zenon, <1>2, <1>7, <2>1 DEF Unsubscribe, IsMember
  <2>5. (refs[o][u] = 1 <=> \A t \in Sockets \ {s} : members[o][t] # u) /\ refs[o][u] # 0
    <3>1. members[o][s] = u
      BY Zenon, <2>1
    <3> QED BY SMTT(30), <3>1, CountOfMember
  <2>8. refs[o][u] - 1 \in Nat
    <3>1. refs[o][u] \in Nat
      <4>1. refs \in [Objects -> [Users -> Nat]]
        BY Zenon DEF CoreInv, TypeOK
      <4> QED BY Zenon, <4>1
    <3>2. refs[o][u] # 0
      BY Zenon, <2>5
    <3> QED BY <3>1, <3>2
  <2>9. members' \in [Objects -> [Sockets -> Users \union {None}]] /\ refs' \in [Objects -> [Users -> Nat]]
    BY Zenon, <2>4, <2>8 DEF CoreInv, TypeOK
  <2>10. /\ members'[o][s] = None
         /\ \A q \in Objects, t \in Sockets : q # o \/ t # s => members'[q][t] = members[q][t]
         /\ \A q \in Objects, v \in Users : q # o \/ v # u => refs'[q][v] = refs[q][v]
         /\ refs'[o][u] = refs[o][u] - 1
    BY Zenon, <2>4 DEF CoreInv, TypeOK
  <2>11. /\ join' \in [Sockets -> Joins] /\ join'[s].user = u
         /\ join'[s].changed <=> refs[o][u] = 1
         /\ \A t \in Sockets \ {s} : join'[t] = join[t]
    <3> DEFINE b == refs[o][u] = 1
               j == [join[s] EXCEPT !.user = u, !.changed = b]
    <3>1. b \in BOOLEAN
      OBVIOUS
    <3>2. join \in [Sockets -> Joins] /\ join' = [join EXCEPT ![s] = j]
      BY Zenon, <1>2, <1>7, <2>1 DEF CoreInv, TypeOK, Unsubscribe, IsMember
    <3>3. join[s] \in Joins /\ j = [join[s] EXCEPT !.user = u, !.changed = b]
      BY Zenon, <3>2
    <3> HIDE DEF b, j
    <3>4. j \in Joins /\ j.user = u /\ j.changed = b
      BY Zenon, <3>1, <3>3 DEF Joins
    <3>5. join' \in [Sockets -> Joins] /\ join'[s] = j /\ \A t \in Sockets \ {s} : join'[t] = join[t]
      BY Zenon, <3>2, <3>4
    <3> QED BY Zenon, <3>4, <3>5 DEF b
  <2>12. TypeOK'
    BY Zenon, <1>1, <2>9, <2>11 DEF CoreInv, TypeOK, Labels
  <2>13. SocketInv'
    BY Zenon, <1>1, <1>2, <2>11 DEF CoreInv, TypeOK, SocketInv, Joining, Leaving
  <2>14. MemberInv'
    <3>1. \A q \in Objects, t \in Sockets : IsMember(q, t)' <=> IsMember(q, t) /\ ~(q = o /\ t = s)
      BY Zenon, <2>10 DEF IsMember
    <3> QED BY <1>1, <1>2, <1>3, <2>2, <3>1 DEF CoreInv, TypeOK, MemberInv, Joining
  <2>17. (refs[o][u] = 1) <=> \A t \in Sockets : members'[o][t] # u
    BY <2>5, <2>10
  <2>18. \A t \in Sockets, v \in Users :
            /\ ~Arriving(t, v)'
            /\ Departing(t, v)' <=> Departing(t, v) \/ (t = s /\ v = u /\ refs[o][u] = 1)
    <3>1. pc'[s] = "announce_leave" /\ \A t \in Sockets : t # s => pc'[t] = pc[t] /\ join'[t] = join[t]
      BY Zenon, <1>1, <2>11 DEF CoreInv, TypeOK
    <3>2. ASSUME NEW t \in Sockets, NEW v \in Users, t # s
          PROVE  ~Arriving(t, v)' /\ (Departing(t, v)' <=> Departing(t, v))
      BY Zenon, <2>3, <3>1, <3>2 DEF Arriving, Departing
    <3>3. ASSUME NEW v \in Users
          PROVE  /\ ~Arriving(s, v)' /\ ~Departing(s, v)
                 /\ Departing(s, v)' <=> v = u /\ refs[o][u] = 1
      <4>1. ~Arriving(s, v)' /\ ~Departing(s, v)
        BY Zenon, <1>3, <3>1 DEF Arriving, Departing
      <4>2. Departing(s, v)' <=> v = u /\ refs[o][u] = 1
        BY Zenon, <2>11, <3>1 DEF Departing
      <4> QED BY Zenon, <4>1, <4>2
    <3> QED BY Zenon, <3>2, <3>3
  <2>19. PendingInv'
    <3>1. ASSUME NEW t \in Sockets, NEW v \in Users, Departing(t, v)
          PROVE  \A r \in Sockets : members'[obj[t]][r] # v
      <4>1. \A r \in Sockets : members[obj[t]][r] # v
        BY Zenon, <3>1 DEF CoreInv, PendingInv
      <4> QED BY Zenon, <1>4, <2>10, <3>1, <4>1
    <3> QED BY Zenon, <1>1, <1>2, <2>17, <2>18, <3>1 DEF PendingInv
  <2>20. \A v \in Users : Here(v)' <=> Here(v) /\ ~(v = u /\ refs[o][u] = 1)
    <3>1. \A v \in Users : v # u => (Here(v)' <=> Here(v))
      <4>1. \A v \in Users : v # u => \A t \in Sockets : members'[o][t] = v <=> members[o][t] = v
        BY ZenonT(30), <2>1, <2>10
      <4> QED BY Zenon, <1>1, <2>2, <4>1 DEF Here
    <3>2. Here(u) /\ (Here(u)' <=> refs[o][u] # 1)
      BY Zenon, <1>1, <2>1, <2>2, <2>17 DEF Here
    <3> QED BY Zenon, <3>1, <3>2
  <2>21. BusInv'
    <3> SUFFICES ASSUME NEW v \in Users, v \notin late'
                 PROVE  /\ Here(v)' => v \in busRoster'
                        /\ v \in busRoster' => Here(v)' \/ \E t \in Sockets : Departing(t, v)'
      BY Zenon DEF BusInv
    <3>1. v \notin late /\ busRoster' = busRoster
      BY Zenon, <1>1
    <3>2. /\ Here(v) => v \in busRoster
          /\ v \in busRoster => Here(v) \/ \E t \in Sockets : Departing(t, v)
      BY Zenon, <2>3, <3>1 DEF CoreInv, BusInv
    <3> QED BY Zenon, <2>18, <2>20, <3>1, <3>2
  <2> QED BY Zenon, <1>5, <2>9, <2>12, <2>13, <2>14, <2>19, <2>21 DEF CoreInv
<1> QED BY Zenon, <1>6, <1>7

(***************************************************************************)
(* Telling the members and the bus what a subscribe or an unsubscribe did, *)
(* telling the members that a peer's roster has expired, and letting go of *)
(* a channel left empty                                                    *)
(***************************************************************************)

\* The join is published before the locks are left.
LEMMA AnnounceJoinStep == \A s \in Sockets : Keeps(AnnounceJoin(s))
<1> SUFFICES ASSUME CoreInv, NEW s \in Sockets, AnnounceJoin(s)
             PROVE  CoreInv'
  BY Zenon DEF Keeps
<1> USE Distinct
<1> DEFINE u == join[s].user
<1>1. /\ pc[s] = "announce" /\ pc' = [pc EXCEPT ![s] = "idle"]
      /\ entryLock' = None
      /\ transLock' = [transLock EXCEPT ![obj[s]] = None]
      /\ obj' = [obj EXCEPT ![s] = None]
      /\ join' = [join EXCEPT ![s] = NoJoin]
      /\ subscribed' = subscribed \union {s}
      /\ UNCHANGED <<chan, chanVars, closing, view, peerVars, tainted>>
  BY Zenon DEF AnnounceJoin, Goto, Unlock, Release
<1>2. IF join[s].changed THEN busRoster' = busRoster \union {u} /\ late' = late \ {u}
                         ELSE UNCHANGED <<busRoster, late>>
  BY Zenon DEF AnnounceJoin
<1>3. /\ chan \in Objects /\ obj[s] = chan /\ u \in Users /\ IsMember(chan, s)
      /\ entryLock = s /\ transLock[chan] = s
  BY Zenon, <1>1 DEF CoreInv, TypeOK, SocketInv, MemberInv, EntryInv, TransInv, Joining, Critical
<1>4. queue' \in [Sockets -> Seq(Frames)] /\ kicked' \subseteq Sockets
  <2>1. Added(u) \in Frames
    BY Zenon, <1>3 DEF Added, Frames
  <2> QED BY Zenon, <2>1, BroadcastType DEF AnnounceJoin, CoreInv, TypeOK
<1>5. join' \in [Sockets -> Joins] /\ ~join'[s].changed
      /\ \A t \in Sockets \ {s} : join'[t] = join[t]
  BY Zenon, <1>1 DEF CoreInv, TypeOK, NoJoin, Joins
<1>6. TypeOK'
  <2>1. busRoster' \subseteq Users /\ late' \subseteq Users
    <3>1. busRoster \subseteq Users /\ late \subseteq Users
      BY Zenon DEF CoreInv, TypeOK
    <3> QED BY Zenon, <1>2, <1>3, <3>1
  <2>2. /\ pc' \in [Tasks -> Labels] /\ entryLock' \in Sockets \union {None}
        /\ transLock' \in [Objects -> Tasks \union {None}] /\ obj' \in [Tasks -> Objects \union {None}]
        /\ subscribed' \subseteq Sockets
    BY Zenon, <1>1, <1>3 DEF CoreInv, TypeOK, Labels
  <2> QED BY Zenon, <1>1, <1>4, <1>5, <2>1, <2>2 DEF CoreInv, TypeOK
<1>7. SocketInv'
  BY Zenon, <1>1, <1>5 DEF CoreInv, TypeOK, SocketInv, Joining, Leaving
<1>8. BackgroundInv' /\ EntryInv'
  BY Zenon, <1>1, <1>3 DEF CoreInv, TypeOK, BackgroundInv, EntryInv, Joining
<1>9. TransInv'
  <2>1. ~(pc'[s] \in Critical) /\ \A t \in Tasks : t # s => pc'[t] = pc[t] /\ obj'[t] = obj[t]
    BY Zenon, <1>1 DEF CoreInv, TypeOK, Critical
  <2>2. transLock'[obj[s]] = None /\ \A o \in Objects : o # obj[s] => transLock'[o] = transLock[o]
    BY Zenon, <1>1, <1>3 DEF CoreInv, TypeOK
  <2> SUFFICES ASSUME NEW t \in Tasks, NEW o \in Objects
               PROVE  transLock'[o] = t <=> pc'[t] \in Critical /\ obj'[t] = o
    BY Zenon DEF TransInv
  <2>3. /\ transLock[o] = t <=> pc[t] \in Critical /\ obj[t] = o
        /\ transLock[o] = s <=> pc[s] \in Critical /\ obj[s] = o
    BY Zenon DEF CoreInv, TransInv
  <2>4. pc[s] \in Critical
    BY Zenon, <1>1 DEF Critical
  <2>5. CASE o = obj[s]
    BY Zenon, <1>3, <2>1, <2>2, <2>3, <2>4, <2>5
  <2>6. CASE o # obj[s]
    BY Zenon, <1>3, <2>1, <2>2, <2>3, <2>4, <2>6
  <2> QED BY Zenon, <2>5, <2>6
<1>10. MemberInv'
  BY Zenon, <1>1, <1>3 DEF CoreInv, TypeOK, SocketInv, MemberInv, IsMember, Joining, Leaving
<1>11. EmptyChannelIsReaped'
  BY Zenon, <1>1, <1>3 DEF CoreInv, TypeOK, EmptyChannelIsReaped, IsEmpty, IsMember
<1>12. \A t \in Sockets, v \in Users :
          /\ ~Arriving(t, v)'
          /\ Arriving(t, v) <=> t = s /\ v = u /\ join[s].changed
          /\ Departing(t, v)' <=> Departing(t, v)
          /\ Departing(t, v) => obj'[t] = obj[t]
  BY Zenon, <1>1, <1>3, <1>5 DEF CoreInv, TypeOK, EntryInv, Arriving, Departing, Joining
<1>13. PendingInv'
  <2>1. PendingInv /\ members' = members
    BY Zenon, <1>1 DEF CoreInv
  <2> QED BY Zenon, <1>12, <2>1, PendingFrame
<1>14. (\A v \in Users : Here(v)' <=> Here(v)) /\ (join[s].changed => Here(u))
  <2>1. \A v \in Users : Here(v)' <=> Here(v)
    BY Zenon, <1>1 DEF Here
  <2>2. join[s].changed => members[chan][s] = u
    <3>1. join[s].changed => Arriving(s, u)
      BY Zenon, <1>3, <1>12
    <3>2. Arriving(s, u) => \A t \in Sockets : members[chan][t] = u <=> t = s
      BY Zenon, <1>3 DEF CoreInv, PendingInv
    <3> QED BY Zenon, <3>1, <3>2
  <2>3. join[s].changed => Here(u)
    BY Zenon, <1>3, <2>2 DEF Here
  <2> QED BY Zenon, <2>1, <2>3
<1>15. BusInv'
  <2> SUFFICES ASSUME NEW v \in Users, v \notin late'
               PROVE  /\ Here(v)' => v \in busRoster'
                      /\ v \in busRoster' => Here(v)' \/ \E t \in Sockets : Departing(t, v)'
    BY Zenon DEF BusInv
  <2>1. CASE join[s].changed /\ v = u
    BY Zenon, <1>2, <1>14, <2>1
  <2>2. CASE ~(join[s].changed /\ v = u)
    <3>1. v \notin late /\ (v \in busRoster' <=> v \in busRoster)
      BY Zenon, <1>2, <2>2
    <3>2. /\ Here(v) => v \in busRoster
          /\ v \in busRoster => Here(v) \/ \E t \in Sockets : Departing(t, v)
      BY Zenon, <1>12, <2>2, <3>1 DEF CoreInv, BusInv
    <3> QED BY Zenon, <1>12, <1>14, <3>1, <3>2
  <2> QED BY Zenon, <2>1, <2>2
<1> QED BY Zenon, <1>6, <1>7, <1>8, <1>9, <1>10, <1>11, <1>13, <1>15 DEF CoreInv

\* The leave is published before the transition lock is left. Only a leave
\* from an object that the map has dropped may come too late.
LEMMA AnnounceLeaveStep == \A s \in Sockets : Keeps(AnnounceLeave(s))
<1> SUFFICES ASSUME CoreInv, NEW s \in Sockets, AnnounceLeave(s)
             PROVE  CoreInv'
  BY Zenon DEF Keeps
<1> USE Distinct
<1> DEFINE u == join[s].user
<1>1. /\ pc[s] = "announce_leave" /\ pc' = [pc EXCEPT ![s] = "reap"]
      /\ transLock' = [transLock EXCEPT ![obj[s]] = None]
      /\ join' = [join EXCEPT ![s] = NoJoin]
      /\ UNCHANGED <<chan, entryLock, chanVars, obj, connVars, view, peerVars, tainted>>
  BY Zenon DEF AnnounceLeave, Goto, Unlock
<1>2. IF join[s].changed
        THEN /\ busRoster' = busRoster \ {u}
             /\ late' = IF obj[s] = chan THEN late \ {u} ELSE late \union {u}
        ELSE UNCHANGED <<busRoster, late>>
  BY Zenon DEF AnnounceLeave
<1>3. obj[s] \in Objects /\ transLock[obj[s]] = s /\ (join[s].changed => u \in Users)
  BY Zenon, <1>1 DEF CoreInv, SocketInv, TransInv, Leaving, Critical
<1>4. queue' \in [Sockets -> Seq(Frames)] /\ kicked' \subseteq Sockets
  <2>1. CASE join[s].changed
    <3>1. Removed(u) \in Frames
      BY Zenon, <1>3, <2>1 DEF Removed, Frames
    <3> QED BY Zenon, <3>1, BroadcastType DEF AnnounceLeave, CoreInv, TypeOK
  <2>2. CASE ~join[s].changed
    BY Zenon, <2>2 DEF AnnounceLeave, CoreInv, TypeOK
  <2> QED BY Zenon, <2>1, <2>2
<1>5. join' \in [Sockets -> Joins] /\ ~join'[s].changed
      /\ \A t \in Sockets \ {s} : join'[t] = join[t]
  BY Zenon, <1>1 DEF CoreInv, TypeOK, NoJoin, Joins
<1>6. busRoster' \subseteq Users /\ late' \subseteq Users
  <2>1. busRoster \subseteq Users /\ late \subseteq Users
    BY Zenon DEF CoreInv, TypeOK
  <2> QED BY Zenon, <1>2, <1>3, <2>1
<1>7. TypeOK'
  BY Zenon, <1>1, <1>4, <1>5, <1>6 DEF CoreInv, TypeOK, Labels
<1>8. SocketInv'
  BY Zenon, <1>1, <1>5 DEF CoreInv, TypeOK, SocketInv, Joining, Leaving
<1>9. BackgroundInv' /\ EntryInv'
  BY SMTT(30), <1>1 DEF CoreInv, TypeOK, BackgroundInv, EntryInv, Joining
<1>10. TransInv'
  <2>1. ~(pc'[s] \in Critical) /\ \A t \in Tasks : t # s => pc'[t] = pc[t] /\ obj'[t] = obj[t]
    BY Zenon, <1>1 DEF CoreInv, TypeOK, Critical
  <2>2. transLock'[obj[s]] = None /\ \A o \in Objects : o # obj[s] => transLock'[o] = transLock[o]
    BY Zenon, <1>1, <1>3 DEF CoreInv, TypeOK
  <2> SUFFICES ASSUME NEW t \in Tasks, NEW o \in Objects
               PROVE  transLock'[o] = t <=> pc'[t] \in Critical /\ obj'[t] = o
    BY Zenon DEF TransInv
  <2>3. /\ transLock[o] = t <=> pc[t] \in Critical /\ obj[t] = o
        /\ transLock[o] = s <=> pc[s] \in Critical /\ obj[s] = o
    BY Zenon DEF CoreInv, TransInv
  <2>4. pc[s] \in Critical
    BY Zenon, <1>1 DEF Critical
  <2>5. CASE o = obj[s]
    BY Zenon, <1>3, <2>1, <2>2, <2>3, <2>4, <2>5
  <2>6. CASE o # obj[s]
    BY Zenon, <1>3, <2>1, <2>2, <2>3, <2>4, <2>6
  <2> QED BY Zenon, <2>5, <2>6
<1>11. MemberInv'
  BY Zenon, <1>1 DEF CoreInv, TypeOK, MemberInv, IsMember, Joining
<1>12. EmptyChannelIsReaped'
  BY Zenon, <1>1 DEF CoreInv, TypeOK, EmptyChannelIsReaped
<1>13. \A t \in Sockets, v \in Users :
          /\ Arriving(t, v)' <=> Arriving(t, v)
          /\ Departing(t, v)' <=> Departing(t, v) /\ t # s
          /\ Departing(s, v) <=> v = u /\ join[s].changed
  BY Zenon, <1>1, <1>5 DEF CoreInv, TypeOK, Arriving, Departing
<1>14. PendingInv'
  <2>1. PendingInv /\ chan' = chan /\ members' = members /\ obj' = obj
    BY Zenon, <1>1 DEF CoreInv
  <2> QED BY Zenon, <1>13, <2>1, PendingFrame
<1>15. \A v \in Users : Here(v)' <=> Here(v)
  BY Zenon, <1>1 DEF Here
<1>16. BusInv'
  <2> SUFFICES ASSUME NEW v \in Users, v \notin late'
               PROVE  /\ Here(v)' => v \in busRoster' \/ \E t \in Sockets : Arriving(t, v)'
                      /\ v \in busRoster' => Here(v)' \/ \E t \in Sockets : Departing(t, v)'
    BY Zenon DEF BusInv
  <2>1. CASE join[s].changed /\ v = u
    <3>1. obj[s] = chan /\ v \notin busRoster'
      BY Zenon, <1>2, <2>1
    <3>2. ~Here(v)
      <4>1. Departing(s, v)
        BY Zenon, <1>13, <2>1
      <4>2. \A t \in Sockets : members[obj[s]][t] # v
        BY Zenon, <4>1 DEF CoreInv, PendingInv
      <4> QED BY Zenon, <3>1, <4>2 DEF Here
    <3> QED BY Zenon, <1>15, <3>1, <3>2
  <2>2. CASE ~(join[s].changed /\ v = u)
    <3>1. v \notin late /\ (v \in busRoster' <=> v \in busRoster)
      BY Zenon, <1>2, <2>2
    <3>2. /\ Here(v) => v \in busRoster \/ \E t \in Sockets : Arriving(t, v)
          /\ v \in busRoster => Here(v) \/ \E t \in Sockets : Departing(t, v)
      BY Zenon, <3>1 DEF CoreInv, BusInv
    <3>3. ~Departing(s, v)
      BY Zenon, <1>13, <2>2
    <3> QED BY Zenon, <1>13, <1>15, <3>1, <3>2, <3>3
  <2> QED BY Zenon, <2>1, <2>2
<1> QED BY Zenon, <1>7, <1>8, <1>9, <1>10, <1>11, <1>12, <1>14, <1>16 DEF CoreInv

\* Tidying the map removes a channel only when nobody is in it or joining it.
LEMMA ReapStep == \A s \in Sockets : Keeps(Reap(s))
<1> SUFFICES ASSUME CoreInv, NEW s \in Sockets, Reap(s)
             PROVE  CoreInv'
  BY Zenon DEF Keeps
<1> USE Distinct
<1>1. /\ pc[s] = "reap" /\ entryLock = None
      /\ pc' = [pc EXCEPT ![s] = IF s \in closing THEN "close" ELSE "idle"]
      /\ obj' = [obj EXCEPT ![s] = None]
      /\ closing' = closing \ {s}
      /\ UNCHANGED <<entryLock, transLock, chanVars, join, subscribed, outVars, view, peerVars,
                     busRoster, histVars>>
  BY Zenon DEF Reap, Goto, Release
<1>2. \/ chan' = chan /\ (chan = None \/ ~IsEmpty(chan))
      \/ chan' = None /\ chan # None /\ IsEmpty(chan)
  BY Zenon DEF Reap, Tidied
<1>3. \A t \in Sockets : pc[t] \notin Joining
  BY Zenon, <1>1 DEF CoreInv, EntryInv
<1>4. TypeOK'
  BY Zenon, <1>1, <1>2 DEF CoreInv, TypeOK, Labels
<1>5. SocketInv'
  BY Zenon, <1>1, <1>3 DEF CoreInv, TypeOK, SocketInv, Joining, Leaving
<1>6. BackgroundInv' /\ EntryInv'
  BY Zenon, <1>1 DEF CoreInv, TypeOK, BackgroundInv, EntryInv, Joining
<1>7. TransInv'
  BY SMTT(30), <1>1 DEF CoreInv, TypeOK, TransInv, Critical
<1>8. MemberInv'
  <2>1. CASE chan' = chan
    BY Zenon, <1>1, <2>1 DEF CoreInv, TypeOK, MemberInv, IsMember, Joining
  <2>2. CASE chan' # chan
    <3>1. \A t \in Sockets : t \notin subscribed' /\ pc'[t] # "announce"
                             /\ \A o \in Objects : ~IsMember(o, t)'
      BY Zenon, <1>1, <1>2, <1>3, <2>2 DEF CoreInv, TypeOK, MemberInv, IsMember, IsEmpty, Joining
    <3>2. chan' = None
      BY Zenon, <1>2, <2>2
    <3> QED BY Zenon, <3>1, <3>2 DEF MemberInv
  <2> QED BY Zenon, <2>1, <2>2
<1>9. EmptyChannelIsReaped'
  BY Zenon, <1>1, <1>2 DEF CoreInv, EmptyChannelIsReaped, IsEmpty, IsMember
<1>10. \A t \in Sockets, u \in Users :
          /\ ~Arriving(t, u)' /\ ~Arriving(t, u)
          /\ Departing(t, u)' <=> Departing(t, u)
          /\ Departing(t, u) => obj'[t] = obj[t]
  BY Zenon, <1>1, <1>3 DEF CoreInv, TypeOK, Arriving, Departing, Joining
<1>11. \A u \in Users : Here(u)' <=> Here(u)
  BY Zenon, <1>1, <1>2 DEF Here, IsEmpty, IsMember
<1>12. PendingInv' /\ BusInv'
  <2>1. PendingInv /\ BusInv /\ members' = members /\ busRoster' = busRoster /\ late' = late
    BY Zenon, <1>1 DEF CoreInv
  <2>2. PendingInv'
    BY Zenon, <1>10, <2>1, PendingFrame
  <2>3. BusInv'
    BY Zenon, <1>10, <1>11, <2>1 DEF BusInv
  <2> QED BY Zenon, <2>2, <2>3
<1> QED BY Zenon, <1>4, <1>5, <1>6, <1>7, <1>8, <1>9, <1>12 DEF CoreInv

\* The GC drops rosters without a lock and announces under it.
LEMMA GcExpireStep == \A silent \in SUBSET SilentPeers : Keeps(GcExpire(silent))
<1> SUFFICES ASSUME CoreInv, NEW silent \in SUBSET SilentPeers, GcExpire(silent)
             PROVE  CoreInv'
  BY Zenon DEF Keeps
<1>1. UNCHANGED <<chan, entryLock, transLock, chanVars, pc, obj, join, connVars, outVars, view,
                  event, diff, busRoster, histVars>>
  BY Zenon DEF GcExpire
<1>2. expired' \subseteq Peers \X Users
  BY Zenon, ConstantsAreSane DEF GcExpire
<1>3. cache' \in [Peers -> SUBSET Users]
  BY Zenon DEF GcExpire, CoreInv, TypeOK
<1>4. TypeOK'
  BY Zenon, <1>1, <1>2, <1>3 DEF CoreInv, TypeOK
<1>5. BackgroundInv' /\ TransInv'
  BY Zenon, <1>1 DEF CoreInv, BackgroundInv, TransInv
<1> QED BY Zenon, <1>1, <1>4, <1>5, BackgroundFrame DEF Keeps, Undisturbed

\* The GC announces one expired member under the lock and then leaves it.
LEMMA GcDecideStep == Keeps(GcDecide)
<1> SUFFICES ASSUME CoreInv, GcDecide
             PROVE  CoreInv'
  BY Zenon DEF Keeps
<1> USE Distinct
<1>1. /\ pc["gc"] = "gc_decide" /\ pc' = [pc EXCEPT !["gc"] = "idle"]
      /\ obj' = [obj EXCEPT !["gc"] = None]
      /\ transLock' = [transLock EXCEPT ![obj["gc"]] = None]
      /\ UNCHANGED <<chan, entryLock, chanVars, join, connVars, view, cache, event, diff,
                     busRoster, histVars>>
  BY Zenon DEF GcDecide, Unlock, Release, Goto
<1>2. obj["gc"] \in Objects
  BY Zenon, <1>1 DEF CoreInv, BackgroundInv
<1>3. /\ expired' \subseteq Peers \X Users
      /\ queue' \in [Sockets -> Seq(Frames)] /\ kicked' \subseteq Sockets
  <2>1. PICK x \in expired :
           /\ expired' = expired \ {x}
           /\ IF Gone(obj["gc"], x[2]) THEN Broadcast(obj["gc"], Removed(x[2]), None)
                                       ELSE UNCHANGED outVars
    BY Zenon DEF GcDecide
  <2>2. Removed(x[2]) \in Frames
    BY Zenon DEF CoreInv, TypeOK, Removed, Frames
  <2> QED BY Zenon, <2>1, <2>2, BroadcastType DEF CoreInv, TypeOK
<1>4. TypeOK'
  BY Zenon, <1>1, <1>2, <1>3 DEF CoreInv, TypeOK, Labels
<1>5. BackgroundInv'
  BY Zenon, <1>1 DEF CoreInv, TypeOK, BackgroundInv
<1>6. TransInv'
  BY <1>1, <1>2 DEF CoreInv, TypeOK, TransInv, Critical
<1>7. \A s \in Sockets : pc'[s] = pc[s] /\ obj'[s] = obj[s]
  BY Zenon, <1>1 DEF CoreInv, TypeOK
<1> QED BY Zenon, <1>1, <1>4, <1>5, <1>6, <1>7, BackgroundFrame DEF Keeps, Undisturbed

USE DEF vars, chanVars, connVars, outVars, peerVars, histVars, AbstractRoom!vars

(***************************************************************************)
(* The steps of the presence channel are steps of the abstract Room.       *)
(* Subscribe is Enter, Unsubscribe is Leave, the two announcements are     *)
(* Report, and every other step leaves the room as it is: creating and     *)
(* tidying channel objects is invisible because an object that enters or   *)
(* leaves the map has no members.                                          *)
(***************************************************************************)

\* A task that moves on without having changed anything makes no news.
LEMMA SameNews ==
    ASSUME \A s \in Sockets :
              \/ join'[s] = join[s] /\ pc'[s] = pc[s]
              \/ ~join[s].changed /\ ~join'[s].changed
    PROVE  RoomNews' = RoomNews
  BY Zenon DEF RoomNews

\* At the start nobody is in the room.
LEMMA RoomInit == Init => AbstractRoom!Init
<1> SUFFICES ASSUME Init PROVE AbstractRoom!Init
  OBVIOUS
<1>1. RoomMembers = [s \in Sockets |-> None]
  BY Zenon DEF Init, RoomMembers, NoMembers
<1>2. RoomNews = [s \in Sockets |-> AbstractRoom!NoNews]
  BY Zenon DEF Init, RoomNews, NoJoin, AbstractRoom!NoNews
<1> QED BY Zenon, <1>1, <1>2 DEF AbstractRoom!Init

\* Outside the two announcements a task has changed nothing that is pending.
LEMMA NothingPending ==
    ASSUME CoreInv, NEW s \in Sockets, pc[s] \notin {"announce", "announce_leave"}
    PROVE  ~join[s].changed
  BY Zenon DEF CoreInv, SocketInv

\* Steps of a handler that neither touch a membership nor announce one.
LEMMA QuietStep ==
    ASSUME CoreInv, NEW s \in Sockets,
           Deliver(s) \/ SubscribeLock(s) \/ Admit(s) \/ Reject(s) \/ HandleUnsubscribe(s)
             \/ Cleanup(s) \/ Close(s) \/ LeaveLock(s)
    PROVE  UNCHANGED AbstractRoom!vars
<1>1. chan' = chan /\ members' = members
  BY Zenon DEF Deliver, SubscribeLock, Admit, Reject, HandleUnsubscribe, Cleanup, Close, LeaveLock
<1>2. pc[s] \notin {"announce", "announce_leave"}
  BY Zenon DEF Deliver, SubscribeLock, Admit, Reject, HandleUnsubscribe, Cleanup, Close, LeaveLock
<1>3. \A t \in Sockets \ {s} : pc'[t] = pc[t]
  <2>1. \E l : pc' = pc \/ pc' = [pc EXCEPT ![s] = l]
    BY Zenon DEF Deliver, SubscribeLock, Admit, Reject, HandleUnsubscribe, Cleanup, Close, LeaveLock,
           Goto, FindToLeave
  <2> QED BY Zenon, <2>1, Distinct DEF CoreInv, TypeOK
<1>4. \/ join' = join
      \/ join' = [join EXCEPT ![s] = NoJoin]
      \/ \E r, p : join' = [join EXCEPT ![s] = [@ EXCEPT !.remote = r, !.present = p]]
  BY Zenon DEF Deliver, SubscribeLock, Admit, Reject, HandleUnsubscribe, Cleanup, Close, LeaveLock
<1>5. ~join[s].changed /\ join \in [Sockets -> Joins]
  BY Zenon, <1>2, NothingPending DEF CoreInv, TypeOK
<1>6. \A t \in Sockets \ {s} : join'[t] = join[t]
  BY Zenon, <1>4, <1>5
<1>7. ~join'[s].changed
  <2>1. CASE join' = join
    BY Zenon, <1>5, <2>1
  <2>2. CASE join' = [join EXCEPT ![s] = NoJoin]
    BY Zenon, <1>5, <2>2 DEF NoJoin
  <2>3. ASSUME NEW r, NEW p, join' = [join EXCEPT ![s] = [@ EXCEPT !.remote = r, !.present = p]]
        PROVE  ~join'[s].changed
    <3>1. join'[s] = [join[s] EXCEPT !.remote = r, !.present = p] /\ join[s] \in Joins
      BY Zenon, <1>5, <2>3
    <3>2. join'[s].changed = join[s].changed
      BY Zenon, <3>1 DEF Joins
    <3> QED BY Zenon, <1>5, <3>2
  <2> QED BY Zenon, <1>4, <2>1, <2>2, <2>3
<1>8. RoomNews' = RoomNews
  BY Zenon, <1>3, <1>5, <1>6, <1>7, SameNews
<1> QED BY Zenon, <1>1, <1>8 DEF RoomMembers

\* The peers' messages and the GC do not concern the room of this node.
LEMMA BackgroundStep ==
    ASSUME CoreInv, BusStep \/ GcStep
    PROVE  UNCHANGED AbstractRoom!vars
<1>1. UNCHANGED <<chan, members, join>>
  BY Zenon DEF BusStep, GcStep, BusFind, BusLock, BusApply, BusDiff, BusDiffDone, GcExpire, GcFind,
         GcLock, GcDecide
<1>2. \E t \in {"bus", "gc"} : \E l : pc' = pc \/ pc' = [pc EXCEPT ![t] = l]
  BY Zenon DEF BusStep, GcStep, BusFind, BusLock, BusApply, BusDiff, BusDiffDone, GcExpire, GcFind,
         GcLock, GcDecide, Goto, BusDone, ApplyMemberAdded, ApplyMemberRemoved, ApplySnapshot
<1>3. \A s \in Sockets : pc'[s] = pc[s]
  BY Zenon, <1>2, Distinct DEF CoreInv, TypeOK
<1>4. RoomNews' = RoomNews
  BY Zenon, <1>1, <1>3, SameNews
<1> QED BY Zenon, <1>1, <1>4 DEF RoomMembers

\* A channel object enters the map without members.
LEMMA CreateStep ==
    ASSUME CoreInv, NEW s \in Sockets, NEW u \in Users, HandleSubscribe(s, u)
    PROVE  UNCHANGED AbstractRoom!vars
<1>1. /\ pc[s] = "idle" /\ pc' = [pc EXCEPT ![s] = "sub_lock"]
      /\ join' = [join EXCEPT ![s] = [NoJoin EXCEPT !.user = u]]
  BY Zenon DEF HandleSubscribe, Goto
<1>2. ~join[s].changed
  BY Zenon, <1>1, NothingPending
<1>3. \A t \in Sockets : \/ join'[t] = join[t] /\ pc'[t] = pc[t]
                         \/ ~join[t].changed /\ ~join'[t].changed
  BY Zenon, <1>1, <1>2 DEF CoreInv, TypeOK, Tasks, NoJoin
<1>4. RoomMembers' = RoomMembers
  BY Distinct DEF HandleSubscribe, Allocate, RoomMembers, CoreInv, TypeOK
<1> QED BY Zenon, <1>3, <1>4, SameNews

\* ... and leaves it without members.
LEMMA TidyStep ==
    ASSUME CoreInv, NEW s \in Sockets, Reap(s)
    PROVE  UNCHANGED AbstractRoom!vars
<1>1. /\ pc[s] = "reap" /\ join' = join /\ members' = members /\ chan' = Tidied
      /\ \A t \in Sockets \ {s} : pc'[t] = pc[t]
  BY DEF Reap, Goto, CoreInv, TypeOK
<1>2. RoomNews' = RoomNews
  BY Zenon, <1>1, NothingPending, SameNews
<1>3. chan # None /\ IsEmpty(chan) => members[chan] = NoMembers
  BY Zenon DEF IsEmpty, IsMember, NoMembers, CoreInv, TypeOK
<1>4. RoomMembers' = RoomMembers
  BY Zenon, <1>1, <1>3 DEF RoomMembers, Tidied
<1> QED BY Zenon, <1>2, <1>4

\* The announcements pass the news on.
LEMMA ReportStep ==
    ASSUME CoreInv, NEW s \in Sockets, AnnounceJoin(s) \/ AnnounceLeave(s)
    PROVE  AbstractRoom!Report(s) \/ UNCHANGED AbstractRoom!vars
<1>1. /\ UNCHANGED <<chan, members>> /\ join' = [join EXCEPT ![s] = NoJoin]
      /\ \A t \in Sockets \ {s} : pc'[t] = pc[t]
  <2>1. /\ UNCHANGED <<chan, members>> /\ join' = [join EXCEPT ![s] = NoJoin]
        /\ \E l : pc' = [pc EXCEPT ![s] = l]
    BY Zenon DEF AnnounceJoin, AnnounceLeave, Goto
  <2> QED BY Zenon, <2>1, Distinct DEF CoreInv, TypeOK
<1>2. RoomMembers' = RoomMembers
  BY Zenon, <1>1 DEF RoomMembers
<1>3. join \in [Sockets -> Joins] /\ ~NoJoin.changed
  BY Zenon DEF CoreInv, TypeOK, NoJoin
<1>4. CASE ~join[s].changed
  <2>1. RoomNews' = RoomNews
    BY Zenon, <1>1, <1>3, <1>4, SameNews
  <2> QED BY Zenon, <1>2, <2>1
<1>5. CASE join[s].changed
  <2>1. RoomNews[s] # AbstractRoom!NoNews
    <3>1. RoomNews[s].kind \in {"in", "out"}
      BY Zenon, <1>5 DEF RoomNews
    <3>2. AbstractRoom!NoNews.kind = "none"
      BY Zenon DEF AbstractRoom!NoNews
    <3> QED BY Zenon, <3>1, <3>2
  <2>2. RoomNews' = [RoomNews EXCEPT ![s] = AbstractRoom!NoNews]
    BY Zenon, <1>1, <1>3 DEF RoomNews, AbstractRoom!NoNews
  <2> QED BY Zenon, <1>2, <2>1, <2>2 DEF AbstractRoom!Report
<1> QED BY Zenon, <1>4, <1>5

\* Channel::subscribe answers "first socket of the user" exactly when the
\* user was not in the room.
LEMMA EnterStep ==
    ASSUME CoreInv, CountInv, NEW s \in Sockets, Subscribe(s)
    PROVE  \E u \in Users : AbstractRoom!Enter(s, u)
<1> USE Distinct
<1>1. PICK u \in Users : u = join[s].user
  BY Zenon DEF Subscribe, CoreInv, SocketInv, Joining
<1> DEFINE isNew == members[chan][s] = None
<1>2. /\ pc[s] = "subscribe" /\ pc' = [pc EXCEPT ![s] = "announce"] /\ chan' = chan
      /\ chan \in Objects /\ obj[s] = chan /\ ~join[s].changed
  BY Zenon DEF Subscribe, Goto, CoreInv, TypeOK, SocketInv, Joining
<1>3. RoomMembers = members[chan] /\ RoomMembers' = members'[chan]
  BY Zenon, <1>2 DEF RoomMembers
<1>4. RoomMembers' = [RoomMembers EXCEPT ![s] = IF @ = None THEN u ELSE @]
  <2>1. CASE isNew
    <3>1. members' = [members EXCEPT ![chan][s] = u]
      BY Zenon, <1>1, <1>2, <2>1 DEF Subscribe, IsMember
    <3> QED BY Zenon, <1>2, <1>3, <2>1, <3>1 DEF CoreInv, TypeOK
  <2>2. CASE ~isNew
    <3>1. members' = members
      BY Zenon, <1>2, <2>2 DEF Subscribe, IsMember
    <3> QED BY Zenon, <1>2, <1>3, <2>2, <3>1 DEF CoreInv, TypeOK
  <2> QED BY Zenon, <2>1, <2>2
<1>5. refs[chan][u] = 0 <=> ~AbstractRoom!In(u)
  BY SMTT(30), <1>2, <1>3 DEF CountInv, AbstractRoom!In
<1>6. /\ join'[s].user = u
      /\ join'[s].changed <=> isNew /\ refs[chan][u] = 0
      /\ \A t \in Sockets \ {s} : join'[t] = join[t]
  <2> DEFINE b == isNew /\ refs[chan][u] = 0
             j == [join[s] EXCEPT !.changed = b]
  <2>1. b \in BOOLEAN
    OBVIOUS
  <2>2. join \in [Sockets -> Joins] /\ join' = [join EXCEPT ![s] = j]
    BY Zenon, <1>1, <1>2 DEF CoreInv, TypeOK, Subscribe, IsMember
  <2>3. join[s] \in Joins /\ j = [join[s] EXCEPT !.changed = b]
    BY Zenon, <2>2
  <2> HIDE DEF b, j
  <2>4. j.user = join[s].user /\ j.changed = b
    BY Zenon, <2>1, <2>3 DEF Joins
  <2>5. join'[s] = j /\ \A t \in Sockets \ {s} : join'[t] = join[t]
    BY Zenon, <2>2
  <2>6. b <=> isNew /\ refs[chan][u] = 0
    BY Zenon DEF b
  <2> QED BY Zenon, <1>1, <2>4, <2>5, <2>6
<1>7. RoomNews' = [RoomNews EXCEPT ![s] =
                     IF RoomMembers[s] = None /\ ~AbstractRoom!In(u)
                       THEN [kind |-> "in", user |-> u] ELSE AbstractRoom!NoNews]
  <2>1. pc'[s] = "announce" /\ \A t \in Sockets \ {s} : pc'[t] = pc[t]
    BY Zenon, <1>2 DEF CoreInv, TypeOK
  <2>2. RoomNews'[s] = IF RoomMembers[s] = None /\ ~AbstractRoom!In(u)
                         THEN [kind |-> "in", user |-> u] ELSE AbstractRoom!NoNews
    <3>1. RoomNews'[s] = IF ~join'[s].changed THEN AbstractRoom!NoNews
                                              ELSE [kind |-> "in", user |-> join'[s].user]
      BY Zenon, <2>1 DEF RoomNews, AbstractRoom!NoNews
    <3>2. join'[s].changed <=> RoomMembers[s] = None /\ ~AbstractRoom!In(u)
      BY Zenon, <1>3, <1>5, <1>6
    <3> QED BY Zenon, <1>6, <3>1, <3>2
  <2>3. \A t \in Sockets \ {s} : RoomNews'[t] = RoomNews[t]
    BY Zenon, <1>6, <2>1 DEF RoomNews
  <2>4. RoomNews = [t \in Sockets |-> RoomNews[t]] /\ RoomNews' = [t \in Sockets |-> RoomNews'[t]]
    BY Zenon DEF RoomNews
  <2> HIDE DEF RoomNews
  <2> QED BY Zenon, <2>2, <2>3, <2>4
<1> QED BY Zenon, <1>4, <1>7 DEF AbstractRoom!Enter

\* Channel::unsubscribe answers "last socket of the user" exactly when the
\* user is out of the room; on a dropped object it finds nobody.
LEMMA LeaveStep ==
    ASSUME CoreInv, CountInv, NEW s \in Sockets, Unsubscribe(s)
    PROVE  AbstractRoom!Leave(s) \/ UNCHANGED AbstractRoom!vars
<1> USE Distinct
<1>1. /\ pc[s] = "unsubscribe" /\ pc' = [pc EXCEPT ![s] = "announce_leave"] /\ chan' = chan
      /\ ~join[s].changed
  BY Zenon DEF Unsubscribe, Goto, CoreInv, SocketInv
<1>2. PICK o \in Objects : o = obj[s]
  BY Zenon, <1>1 DEF CoreInv, SocketInv, Leaving
<1>3. pc'[s] = "announce_leave" /\ \A t \in Sockets \ {s} : pc'[t] = pc[t]
  BY Zenon, <1>1 DEF CoreInv, TypeOK
<1>4. CASE members[o][s] = None
  <2>1. members' = members /\ join' = join
    BY Zenon, <1>2, <1>4 DEF Unsubscribe, IsMember
  <2>2. RoomNews' = RoomNews
    BY Zenon, <1>1, <1>3, <2>1, SameNews
  <2> QED BY Zenon, <1>1, <2>1, <2>2 DEF RoomMembers
<1>5. CASE members[o][s] # None
  <2>1. PICK u \in Users : u = members[o][s]
    BY <1>5 DEF CoreInv, TypeOK
  <2>2. o = chan
    BY Zenon, <1>5 DEF CoreInv, MemberInv, IsMember
  <2>3. RoomMembers = members[o] /\ RoomMembers' = members'[o]
    BY Zenon, <1>1, <2>2 DEF RoomMembers
  <2>4. members' = [members EXCEPT ![o][s] = None]
    BY Zenon, <1>2, <1>5 DEF Unsubscribe, IsMember
  <2>5. RoomMembers' = [RoomMembers EXCEPT ![s] = None]
    BY Zenon, <2>3, <2>4 DEF CoreInv, TypeOK
  <2>6. refs[o][u] = 1 <=> \A t \in Sockets \ {s} : members[o][t] # u
    BY <2>1 DEF CountInv
  <2>7. /\ join'[s].user = u
        /\ join'[s].changed <=> refs[o][u] = 1
        /\ \A t \in Sockets \ {s} : join'[t] = join[t]
    <3> DEFINE b == refs[o][u] = 1
               j == [join[s] EXCEPT !.user = u, !.changed = b]
    <3>1. b \in BOOLEAN
      OBVIOUS
    <3>2. join \in [Sockets -> Joins] /\ join' = [join EXCEPT ![s] = j]
      BY Zenon, <1>2, <1>5, <2>1 DEF CoreInv, TypeOK, Unsubscribe, IsMember
    <3>3. join[s] \in Joins /\ j = [join[s] EXCEPT !.user = u, !.changed = b]
      BY Zenon, <3>2
    <3> HIDE DEF b, j
    <3>4. j.user = u /\ j.changed = b
      BY Zenon, <3>1, <3>3 DEF Joins
    <3>5. join'[s] = j /\ \A t \in Sockets \ {s} : join'[t] = join[t]
      BY Zenon, <3>2
    <3>6. b <=> refs[o][u] = 1
      BY Zenon DEF b
    <3> QED BY Zenon, <3>4, <3>5, <3>6
  <2>8. RoomNews' = [RoomNews EXCEPT ![s] =
                       IF RoomMembers[s] # None /\ \A t \in Sockets \ {s} : RoomMembers[t] # RoomMembers[s]
                         THEN [kind |-> "out", user |-> RoomMembers[s]] ELSE AbstractRoom!NoNews]
    <3>1. RoomNews'[s] = IF \A t \in Sockets \ {s} : members[o][t] # u
                           THEN [kind |-> "out", user |-> u] ELSE AbstractRoom!NoNews
      <4>1. RoomNews'[s] = IF ~join'[s].changed THEN AbstractRoom!NoNews
                                                ELSE [kind |-> "out", user |-> join'[s].user]
        BY Zenon, <1>3 DEF RoomNews, AbstractRoom!NoNews
      <4> QED BY Zenon, <2>6, <2>7, <4>1
    <3>2. \A t \in Sockets \ {s} : RoomNews'[t] = RoomNews[t]
      BY Zenon, <1>3, <2>7 DEF RoomNews
    <3>3. RoomMembers[s] = u /\ u # None
      BY Zenon, <1>5, <2>1, <2>3
    <3>4. RoomNews'[s] = IF RoomMembers[s] # None
                            /\ \A t \in Sockets \ {s} : RoomMembers[t] # RoomMembers[s]
                           THEN [kind |-> "out", user |-> RoomMembers[s]] ELSE AbstractRoom!NoNews
      BY Zenon, <2>3, <3>1, <3>3
    <3>5. RoomNews' = [t \in Sockets |-> RoomNews'[t]] /\ RoomNews = [t \in Sockets |-> RoomNews[t]]
      BY Zenon DEF RoomNews
    <3> QED BY Zenon, <3>2, <3>4, <3>5
  <2> QED BY Zenon, <2>5, <2>8 DEF AbstractRoom!Leave
<1> QED BY Zenon, <1>4, <1>5

\* Every step of the channel is a step of the room or leaves it alone.
LEMMA RoomNext ==
    ASSUME CoreInv, CountInv, [Next]_vars
    PROVE  [AbstractRoom!Next]_(AbstractRoom!vars)
<1>1. ASSUME NEW s \in Sockets, SocketStep(s)
      PROVE  [AbstractRoom!Next]_(AbstractRoom!vars)
  <2>1. CASE Deliver(s) \/ SubscribeLock(s) \/ Admit(s) \/ Reject(s) \/ HandleUnsubscribe(s)
               \/ Disconnect(s) \/ Kick(s) \/ Close(s) \/ LeaveLock(s)
    BY Zenon, <2>1, QuietStep DEF Disconnect, Kick
  <2>2. CASE \E u \in JoinAs[s] : HandleSubscribe(s, u)
    BY Zenon, <2>2, CreateStep, ConstantsAreSane
  <2>3. CASE Subscribe(s)
    BY Zenon, <2>3, EnterStep DEF AbstractRoom!Next
  <2>4. CASE Unsubscribe(s)
    BY Zenon, <2>4, LeaveStep DEF AbstractRoom!Next
  <2>5. CASE AnnounceJoin(s) \/ AnnounceLeave(s)
    BY Zenon, <2>5, ReportStep DEF AbstractRoom!Next
  <2>6. CASE Reap(s)
    BY Zenon, <2>6, TidyStep
  <2> QED BY Zenon, <1>1, <2>1, <2>2, <2>3, <2>4, <2>5, <2>6 DEF SocketStep
<1>2. CASE BusStep \/ GcStep
  BY Zenon, <1>2, BackgroundStep
<1>3. CASE UNCHANGED vars
  BY Zenon, <1>3 DEF RoomMembers, RoomNews
<1> QED BY Zenon, <1>1, <1>2, <1>3 DEF Next

=============================================================================
