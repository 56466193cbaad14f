----------------------- MODULE PresenceChannelProofs ------------------------
(***************************************************************************)
(* Safety of the presence channel for every number of sockets, users,      *)
(* peers and allocations, every cap and every queue capacity, and its      *)
(* refinement of a room that sockets enter and leave in one step.          *)
(*                                                                         *)
(* PresenceStepProofs and PresenceRosterProofs have the steps; what is     *)
(* left are the reference counts, the theorems, and the cap.               *)
(***************************************************************************)
EXTENDS PresenceStepProofs, PresenceRosterProofs, FiniteSetTheorems

USE DEF vars, chanVars, connVars, outVars, peerVars, histVars

(***************************************************************************)
(* The reference counts, and the theorems                                  *)
(***************************************************************************)

\* A channel nobody is in counts nobody.
LEMMA NoRefsCount == \A u \in Users : NoRefs[u] = Cardinality({s \in Sockets : NoMembers[s] = u})
<1> TAKE u \in Users
<1>1. {s \in Sockets : NoMembers[s] = u} = {}
  BY Zenon, Distinct DEF NoMembers
<1> QED BY Zenon, <1>1, FS_EmptySet DEF NoRefs

\* A count of zero means that nobody of the user is in, a count of one that
\* there is no other socket.
LEMMA FirstAndLast == RefInv => CountInv
<1> SUFFICES ASSUME RefInv, NEW o \in Objects, NEW u \in Users
             PROVE  /\ refs[o][u] = 0 <=> \A s \in Sockets : members[o][s] # u
                    /\ \A s \in Sockets : members[o][s] = u =>
                          (refs[o][u] = 1 <=> \A t \in Sockets \ {s} : members[o][t] # u)
  BY Zenon DEF CountInv
<1> DEFINE Of == {t \in Sockets : members[o][t] = u}
<1>1. refs[o][u] = Cardinality(Of) /\ IsFiniteSet(Of)
  BY Zenon, ConstantsAreSane, FS_Subset DEF RefInv
<1>2. Cardinality(Of) = 0 <=> Of = {}
  BY Zenon, <1>1, FS_EmptySet
<1>3. ASSUME NEW s \in Sockets, members[o][s] = u
      PROVE  Cardinality(Of) = 1 <=> Of \ {s} = {}
  <2>1. IsFiniteSet(Of \ {s}) /\ Cardinality(Of \ {s}) = Cardinality(Of) - 1
    BY Zenon, <1>1, <1>3, FS_RemoveElement
  <2>2. Cardinality(Of) \in Nat
    BY Zenon, <1>1, FS_CardinalityType
  <2>3. Cardinality(Of \ {s}) = 0 <=> Of \ {s} = {}
    BY Zenon, <2>1, FS_EmptySet
  <2> QED BY <2>1, <2>2, <2>3
<1> QED BY Zenon, <1>1, <1>2, <1>3

\* Channel::subscribe counts a socket that is new to the channel,
\* Channel::unsubscribe one that was in it, and a new channel counts nobody.
LEMMA RefNext ==
    ASSUME CoreInv, RefInv, [Next]_vars
    PROVE  RefInv'
<1> USE Distinct
<1> DEFINE Of(o, u) == {t \in Sockets : members[o][t] = u}
<1>1. CASE UNCHANGED chanVars
  BY Zenon, <1>1 DEF RefInv
<1>2. ASSUME NEW s \in Sockets, NEW u \in JoinAs[s], HandleSubscribe(s, u), ~UNCHANGED chanVars
      PROVE  RefInv'
  <2>1. PICK o \in Objects : /\ members' = [members EXCEPT ![o] = NoMembers]
                             /\ refs' = [refs EXCEPT ![o] = NoRefs]
    BY Zenon, <1>2 DEF HandleSubscribe, Allocate
  <2>2. \A q \in Objects \ {o} : members'[q] = members[q] /\ refs'[q] = refs[q]
    BY Zenon, <2>1 DEF CoreInv, TypeOK
  <2>3. members'[o] = NoMembers /\ refs'[o] = NoRefs
    BY Zenon, <2>1 DEF CoreInv, TypeOK
  <2> QED BY <2>2, <2>3, NoRefsCount DEF RefInv
<1>3. ASSUME NEW s \in Sockets, NEW o \in Objects, NEW u \in Users,
             members[o][s] \in {None, u}, members'[o][s] \in {None, u},
             \A q \in Objects, t \in Sockets : q # o \/ t # s => members'[q][t] = members[q][t],
             \A q \in Objects, w \in Users : q # o \/ w # u => refs'[q][w] = refs[q][w],
             refs'[o][u] = Cardinality({t \in Sockets : members'[o][t] = u})
      PROVE  RefInv'
  <2>1. ASSUME NEW q \in Objects, NEW w \in Users
        PROVE  refs'[q][w] = Cardinality({t \in Sockets : members'[q][t] = w})
    <3>1. CASE q = o /\ w = u
      BY Zenon, <1>3, <3>1
    <3>2. CASE q # o \/ w # u
      <4>1. {t \in Sockets : members'[q][t] = w} = Of(q, w)
        BY <1>3, <3>2, Distinct
      <4> QED BY <1>3, <3>2, <4>1 DEF RefInv
    <3> QED BY Zenon, <3>1, <3>2
  <2> QED BY Zenon, <2>1 DEF RefInv
<1>4. \A o \in Objects, u \in Users : refs[o][u] = Cardinality(Of(o, u)) /\ IsFiniteSet(Of(o, u))
  BY ConstantsAreSane, FS_Subset DEF RefInv
<1>5. ASSUME NEW s \in Sockets, Subscribe(s), ~UNCHANGED chanVars PROVE RefInv'
  <2>0. pc[s] = "subscribe" /\ chan \in Objects \union {None}
    BY Zenon, <1>5 DEF Subscribe, CoreInv, TypeOK
  <2>1. PICK o \in Objects, u \in Users : o = obj[s] /\ u = join[s].user
    BY Zenon, <2>0 DEF CoreInv, SocketInv, Joining
  <2>2. /\ members[o][s] = None /\ members' = [members EXCEPT ![o][s] = u]
        /\ refs' = [refs EXCEPT ![o][u] = @ + 1]
    BY Zenon, <1>5, <2>1 DEF Subscribe, IsMember, CountUser
  <2>3. /\ members'[o][s] = u /\ refs'[o][u] = refs[o][u] + 1
        /\ \A q \in Objects, t \in Sockets : q # o \/ t # s => members'[q][t] = members[q][t]
        /\ \A q \in Objects, w \in Users : q # o \/ w # u => refs'[q][w] = refs[q][w]
    BY <2>2 DEF CoreInv, TypeOK
  <2>4. {t \in Sockets : members'[o][t] = u} = Of(o, u) \union {s} /\ s \notin Of(o, u)
    BY <2>2, <2>3, Distinct
  <2>5. IsFiniteSet(Of(o, u)) /\ refs[o][u] = Cardinality(Of(o, u))
    BY Zenon, <1>4
  <2>6. Cardinality(Of(o, u) \union {s}) = Cardinality(Of(o, u)) + 1
    BY Zenon, <2>4, <2>5, FS_AddElement
  <2>7. refs'[o][u] = Cardinality({t \in Sockets : members'[o][t] = u})
    BY Zenon, <2>3, <2>4, <2>5, <2>6
  <2> QED BY <1>3, <2>2, <2>3, <2>7
<1>6. ASSUME NEW s \in Sockets, Unsubscribe(s), ~UNCHANGED chanVars PROVE RefInv'
  <2>1. PICK o \in Objects : o = obj[s]
    BY Zenon, <1>6 DEF Unsubscribe, CoreInv, SocketInv, Leaving
  <2>2. members[o][s] # None
    BY Zenon, <1>6, <2>1 DEF Unsubscribe, IsMember
  <2>3. PICK u \in Users : u = members[o][s]
    BY <2>2 DEF CoreInv, TypeOK
  <2>4. /\ members' = [members EXCEPT ![o][s] = None]
        /\ refs' = [refs EXCEPT ![o][u] = @ - 1]
    BY Zenon, <1>6, <2>1, <2>2, <2>3 DEF Unsubscribe, IsMember
  <2>5. /\ members'[o][s] = None /\ refs'[o][u] = refs[o][u] - 1
        /\ \A q \in Objects, t \in Sockets : q # o \/ t # s => members'[q][t] = members[q][t]
        /\ \A q \in Objects, w \in Users : q # o \/ w # u => refs'[q][w] = refs[q][w]
    BY <2>4 DEF CoreInv, TypeOK
  <2>6. {t \in Sockets : members'[o][t] = u} = Of(o, u) \ {s} /\ s \in Of(o, u)
    BY <2>3, <2>5, Distinct
  <2>7. IsFiniteSet(Of(o, u)) /\ refs[o][u] = Cardinality(Of(o, u))
    BY Zenon, <1>4
  <2>8. Cardinality(Of(o, u) \ {s}) = Cardinality(Of(o, u)) - 1
    BY Zenon, <2>6, <2>7, FS_RemoveElement
  <2>9. refs'[o][u] = Cardinality({t \in Sockets : members'[o][t] = u})
    BY Zenon, <2>5, <2>6, <2>7, <2>8
  <2> QED BY Zenon, <1>3, <2>3, <2>5, <2>9
<1> QED BY ZenonT(60), <1>1, <1>2, <1>5, <1>6
     DEF Next, SocketStep, BusStep, GcStep, Deliver, SubscribeLock, Admit, Reject, AnnounceJoin,
         HandleUnsubscribe, Disconnect, Kick, Cleanup, LeaveLock, AnnounceLeave, Reap, Close,
         BusFind, BusLock, BusApply, BusDiff, BusDiffDone, GcExpire, GcFind, GcLock, GcDecide

\* The invariant holds on an empty node.
LEMMA IInvInit == Init => IInv
<1> SUFFICES ASSUME Init PROVE IInv
  OBVIOUS
<1> USE Distinct DEF Init
<1>1. TypeOK
  <2>1. NoMembers \in [Sockets -> Users \union {None}] /\ NoRefs \in [Users -> Nat]
    BY Zenon DEF NoMembers, NoRefs
  <2>2. NoJoin \in Joins
    BY Zenon DEF NoJoin, Joins
  <2>3. \A s \in Sockets : <<>> \in Seq(Frames)
    OBVIOUS
  <2> QED BY Zenon, <2>1, <2>2, <2>3 DEF TypeOK, Labels
<1>2. SocketInv /\ BackgroundInv /\ EntryInv
  BY Zenon DEF SocketInv, BackgroundInv, EntryInv, Joining, Leaving, NoJoin
<1>3. TransInv /\ MemberInv
  BY Zenon DEF TransInv, MemberInv, IsMember, NoMembers, Critical
<1>4. RefInv
  BY Zenon, NoRefsCount DEF RefInv
<1>5. EmptyChannelIsReaped /\ PendingInv /\ BusInv
  BY Zenon DEF EmptyChannelIsReaped, PendingInv, BusInv, Here, Arriving, Departing, NoJoin
<1> QED BY Zenon, <1>1, <1>2, <1>3, <1>4, <1>5 DEF IInv, CoreInv

\* The invariant survives every step of every task.
LEMMA IInvNext ==
    ASSUME IInv, [Next]_vars
    PROVE  IInv'
<1>1. CoreInv /\ RefInv /\ CountInv
  BY Zenon, FirstAndLast DEF IInv
<1>2. SUFFICES CoreInv'
  BY Zenon, <1>1, RefNext DEF IInv
<1>3. CASE \E s \in Sockets : SocketStep(s)
  BY Zenon, <1>1, <1>3, DeliverStep, HandleSubscribeStep, SocketLockSteps, AdmitStep, RejectStep,
     SubscribeStep, AnnounceJoinStep, HandleUnsubscribeStep, CleanupStep, CloseStep,
     UnsubscribeStep, AnnounceLeaveStep, ReapStep
     DEF SocketStep, Disconnect, Kick, Keeps
<1>4. CASE BusStep
  BY Zenon, <1>1, <1>4, FindSteps, BackgroundLockSteps, BusApplyStep, BusDiffSteps DEF BusStep, Keeps
<1>5. CASE GcStep
  BY Zenon, <1>1, <1>5, FindSteps, BackgroundLockSteps, GcExpireStep, GcDecideStep DEF GcStep, Keeps
<1>6. CASE UNCHANGED vars
  BY Zenon, <1>1, <1>6, CoreStutter DEF Keeps
<1> QED BY Zenon, <1>3, <1>4, <1>5, <1>6 DEF Next

\* Every step of every connection task, of the bus consumer and of the GC
\* preserves what each task holds and remembers, who is a member of what, the
\* reference counts, and what is still to be published.
THEOREM Invariance == Spec => []IInv
  BY IInvInit, IInvNext, PTL DEF Spec

\* Every variable stays in its type; in particular user_refcounts, which
\* unsubscribe decrements, never goes below zero.
THEOREM TypeCorrect == Spec => []TypeOK
<1>1. IInv => TypeOK
  BY Zenon DEF IInv, CoreInv
<1> QED BY <1>1, Invariance, PTL

\* Whatever the interleaving of subscribe_with, unsubscribe_with and the
\* reaping of empty channels, no member is left on a channel object that the
\* map has dropped.
THEOREM MembersNeverStranded == Spec => []NoStrandedMembers
<1>1. IInv => NoStrandedMembers
  BY Zenon DEF IInv, CoreInv, MemberInv, NoStrandedMembers, IsEmpty
<1> QED BY <1>1, Invariance, PTL

\* Between two requests a connection lists the channel exactly when the
\* channel lists the connection, so cleanup_connection leaves nothing behind.
THEOREM SubscriptionsCorrect == Spec => []SubscriptionsMatchMembership
<1>1. IInv => SubscriptionsMatchMembership
  BY Zenon DEF IInv, CoreInv, MemberInv, SubscriptionsMatchMembership
<1> QED BY <1>1, Invariance, PTL

\* An empty channel stays in the map only while a handler that will join it
\* or tidy it away is under way.
THEOREM EmptyChannelsAreReaped == Spec => []EmptyChannelIsReaped
<1>1. IInv => EmptyChannelIsReaped
  BY Zenon DEF IInv, CoreInv
<1> QED BY <1>1, Invariance, PTL

\* Outside the transition locks the last presence message published for a
\* user agrees with the membership, but for a leave published from an object
\* that the map had dropped.
THEOREM BusCorrect == Spec => []BusMatchesMembership
<1>1. IInv => BusMatchesMembership
  <2> SUFFICES ASSUME IInv, Quiet, NEW u \in Users, u \notin late
               PROVE  u \in busRoster <=> Here(u)
    BY Zenon DEF BusMatchesMembership
  <2>1. ASSUME NEW s \in Sockets PROVE ~Arriving(s, u) /\ ~Departing(s, u)
    <3>1. pc[s] \notin {"announce", "announce_leave"}
      BY Distinct DEF IInv, CoreInv, TypeOK, SocketInv, TransInv, Quiet, Joining, Leaving, Critical
    <3> QED BY Zenon, <3>1 DEF Arriving, Departing
  <2> QED BY Zenon, <2>1 DEF IInv, CoreInv, BusInv
<1> QED BY <1>1, Invariance, PTL

\* The channel map with its two locks and its reference-counted channels
\* behaves like one room that sockets enter and leave in one step, and the
\* answers "first socket of this user" and "last socket of this user" that
\* handle_subscribe and leave_channel announce are right at that step.
THEOREM ChannelImplementsRoom == Spec => ImplementsRoom
<1>1. IInv => CoreInv /\ CountInv
  BY Zenon, FirstAndLast DEF IInv
<1>2. CoreInv /\ CountInv /\ [Next]_vars => [AbstractRoom!Next]_(AbstractRoom!vars)
  BY Zenon, RoomNext
<1> QED BY <1>1, <1>2, RoomInit, Invariance, PTL DEF Spec, ImplementsRoom, AbstractRoom!Spec

\* handle_subscribe, leave_channel, apply_remote_* and presence_cache_gc: what a
\* client was sent and will be sent differs from the channel's roster only by
\* what the holder of the transition lock has still to tell.
THEOREM RosterInvariance == Spec => []RosterInv
<1>1. IInv => HandlerInv
  BY Zenon, FirstAndLast DEF IInv, HandlerInv
<1>2. HandlerInv /\ HandlerInv' /\ RosterInv /\ [Next]_vars => RosterInv'
  BY Zenon, RosterNext
<1> QED BY <1>1, <1>2, RosterInit, Invariance, PTL DEF Spec

\* The comment in handle_subscribe: the roster sent to a joiner, followed by the
\* member_added and member_removed frames, is the roster of the channel, for any
\* number of sockets, users, peers and allocations and every queue capacity, but
\* for the clients that were kicked or that missed an update.
THEOREM RosterAlwaysMatches == Spec => []RosterMatchesStream
<1>1. ASSUME IInv, RosterInv PROVE RosterMatchesStream
  <2> SUFFICES ASSUME NEW s \in subscribed \ (kicked \union tainted), NEW u \in Users, Settled(u)
               PROVE  Told(s, u) <=> u \in LocalUsers(chan) \union RemoteUsers
    BY Zenon DEF RosterMatchesStream, RosterCorrect
  <2>1. s \in Sockets /\ InScope(s)
    BY Zenon, <1>1 DEF InScope, IInv, CoreInv, TypeOK
  <2>2. chan \in Objects /\ transLock[chan] = None
    BY Zenon, <1>1 DEF Settled, IInv, CoreInv, TypeOK
  <2>3. \A t \in Tasks : pc[t] \in Critical => obj[t] # chan
    <3>1. \A t \in Tasks : transLock[chan] # t
      BY Zenon, <2>2, Distinct
    <3> QED BY Zenon, <1>1, <2>2, <3>1 DEF IInv, CoreInv, TransInv
  <2>4. ~AtDiff
    <3>1. "diff" \in Critical
      BY DEF Critical
    <3> QED BY Zenon, <2>3, <3>1, Distinct DEF AtDiff
  <2>5. \A t \in Sockets : pc[t] # "announce" /\ (pc[t] = "announce_leave" => obj[t] # chan)
    <3>1. {"announce", "announce_leave"} \subseteq Critical /\ "announce" \in Joining
      BY DEF Critical, Joining
    <3>2. \A t \in Sockets : pc[t] = "announce" => obj[t] = chan
      BY Zenon, <1>1, <3>1 DEF IInv, CoreInv, SocketInv
    <3> QED BY Zenon, <2>3, <3>1, <3>2, Distinct
  <2>6. ~Coming(s, u) /\ ~Going(u)
    BY Zenon, <2>4, <2>5 DEF Coming, Going
  <2>7. ~Excused(u)
    BY Zenon DEF Settled, Excused
  <2>8. Up(s, u) /\ Down(s, u)
    BY Zenon, <1>1, <2>1 DEF RosterInv, StreamInv
  <2> QED BY Zenon, <2>6, <2>7, <2>8 DEF Up, Down, Present
<1> QED BY <1>1, Invariance, RosterInvariance, PTL

(***************************************************************************)
(* The cap on a node without peers                                         *)
(***************************************************************************)

\* A socket that the `admit` closure has let in still fits when it subscribes.
Fits(s) ==
    \/ join[s].user \in LocalUsers(obj[s])
    \/ Cardinality(LocalUsers(obj[s])) < MaxPresenceMembers

CapInv == CapRespected /\ \A s \in Sockets : pc[s] = "subscribe" => Fits(s)

\* The set of users of a channel is finite, and grows by one user at a time.
LEMMA UsersAreCounted ==
    ASSUME NEW S \in SUBSET Users
    PROVE  /\ Cardinality(S) \in Nat
           /\ \A T \in SUBSET S : Cardinality(T) <= Cardinality(S)
           /\ \A u \in Users : Cardinality(S \union {u}) <= Cardinality(S) + 1
<1>1. IsFiniteSet(S)
  BY ConstantsAreSane, FS_Subset
<1>2. Cardinality(S) \in Nat
  BY <1>1, FS_CardinalityType
<1>3. ASSUME NEW T \in SUBSET S PROVE Cardinality(T) <= Cardinality(S)
  BY <1>1, FS_Subset
<1>4. ASSUME NEW u \in Users PROVE Cardinality(S \union {u}) <= Cardinality(S) + 1
  <2>1. Cardinality(S \union {u}) = IF u \in S THEN Cardinality(S) ELSE Cardinality(S) + 1
    BY <1>1, FS_AddElement
  <2> QED BY <1>2, <2>1
<1> QED BY <1>2, <1>3, <1>4

\* A step that moves no count and lets nobody in.
LEMMA CapFrame ==
    ASSUME CapInv, refs' = refs, chan' \in {chan, None},
           \A s \in Sockets : pc'[s] = "subscribe" =>
               pc[s] = "subscribe" /\ obj'[s] = obj[s] /\ join'[s].user = join[s].user
    PROVE  CapInv'
<1>2. CapRespected'
  <2>1. CASE chan' = None
    BY Zenon, <2>1 DEF CapRespected
  <2>2. CASE chan' = chan
    <3>1. LocalUsers(chan)' = LocalUsers(chan)
      BY Zenon, <2>2 DEF LocalUsers
    <3> QED BY Zenon, <2>2, <3>1 DEF CapInv, CapRespected
  <2> QED BY Zenon, <2>1, <2>2
<1>3. ASSUME NEW s \in Sockets, pc'[s] = "subscribe" PROVE Fits(s)'
  <2>1. LocalUsers(obj[s])' = LocalUsers(obj[s])
    BY Zenon, <1>3 DEF LocalUsers
  <2> QED BY Zenon, <1>3, <2>1 DEF CapInv, Fits
<1> QED BY Zenon, <1>2, <1>3 DEF CapInv

\* The joiner that holds the map entry is the only one there is.
LEMMA OneJoiner ==
    ASSUME EntryInv, NEW s \in Sockets, NEW t \in Sockets, pc[s] \in Joining, pc[t] \in Joining
    PROVE  t = s
  BY Zenon DEF EntryInv

\* `admit`, which on a node without peers compares the users of the channel
\* with the cap.
LEMMA CapAdmit ==
    ASSUME Peers = {}, CoreInv, CapInv, NEW s \in Sockets, Admit(s)
    PROVE  CapInv'
<1>1. /\ refs' = refs /\ chan' = chan /\ obj' = obj /\ UnderCap(obj[s], join[s].user)
      /\ pc' = [pc EXCEPT ![s] = "subscribe"] /\ pc \in [Tasks -> Labels] /\ join \in [Sockets -> Joins]
  BY Zenon DEF Admit, Goto, CoreInv, TypeOK
<1>2. join'[s].user = join[s].user /\ \A t \in Sockets : t # s => join'[t] = join[t]
  BY <1>1 DEF Admit, Joins
<1>3. \A t \in Sockets : t # s => pc'[t] = pc[t]
  BY <1>1, Distinct
<1>4. RemoteUsers = {}
  BY DEF RemoteUsers
<1>5. \A o : LocalUsers(o)' = LocalUsers(o)
  BY Zenon, <1>1 DEF LocalUsers
<1>6. Fits(s)
  <2>1. Cardinality(RemoteUsers \ LocalUsers(obj[s])) = 0
    BY <1>4, FS_EmptySet
  <2>2. Cardinality(LocalUsers(obj[s])) \in Nat
    BY Zenon, UsersAreCounted DEF LocalUsers
  <2> QED BY <1>1, <1>4, <2>1, <2>2 DEF UnderCap, Fits
<1>7. CapRespected'
  BY Zenon, <1>1 DEF CapInv, CapRespected, LocalUsers
<1>8. ASSUME NEW t \in Sockets, pc'[t] = "subscribe" PROVE Fits(t)'
  <2>1. LocalUsers(obj[t])' = LocalUsers(obj[t])
    BY Zenon, <1>1 DEF LocalUsers
  <2>2. Fits(t) /\ join'[t].user = join[t].user
    BY Zenon, <1>2, <1>3, <1>6, <1>8 DEF CapInv
  <2> QED BY Zenon, <1>1, <2>1, <2>2 DEF Fits
<1> QED BY Zenon, <1>7, <1>8 DEF CapInv

\* Channel::subscribe adds the user that was let in, and nobody came in between.
LEMMA CapSubscribe ==
    ASSUME CoreInv, CapInv, NEW s \in Sockets, Subscribe(s)
    PROVE  CapInv'
<1>1. /\ chan' = chan /\ pc' = [pc EXCEPT ![s] = "announce"] /\ pc \in [Tasks -> Labels]
      /\ pc[s] = "subscribe" /\ refs \in [Objects -> [Users -> Nat]]
  BY Zenon DEF Subscribe, Goto, CoreInv, TypeOK
<1>2. "subscribe" \in Joining
  BY DEF Joining
<1>3. obj[s] = chan /\ chan # None /\ join[s].user \in Users /\ chan \in Objects
  BY Zenon, <1>1, <1>2 DEF CoreInv, SocketInv, TypeOK
<1>4. ASSUME NEW t \in Sockets, pc'[t] = "subscribe" PROVE FALSE
  <2>1. pc'[s] = "announce" /\ (t # s => pc'[t] = pc[t])
    BY Zenon, <1>1, Distinct
  <2>2. t # s
    BY <1>4, <2>1
  <2> QED BY Zenon, <1>1, <1>2, <1>4, <2>1, <2>2, OneJoiner DEF CoreInv
<1>5. LocalUsers(chan)' \subseteq LocalUsers(chan) \union {join[s].user}
  <2>1. CASE refs' = refs
    BY Zenon, <1>1, <2>1 DEF LocalUsers
  <2>2. CASE refs' = [refs EXCEPT ![chan][join[s].user] = @ + 1]
    <3>1. \A u \in Users : u # join[s].user => refs'[chan][u] = refs[chan][u]
      BY <1>1, <1>3, <2>2
    <3> QED BY Zenon, <1>1, <3>1 DEF LocalUsers
  <2> QED BY <1>3, <2>1, <2>2 DEF Subscribe, CountUser
<1>6. CapRespected'
  <2> DEFINE L == LocalUsers(chan)
             K == LocalUsers(chan)'
             u == join[s].user
  <2>1. L \subseteq Users /\ K \subseteq Users /\ L \union {u} \subseteq Users /\ K \subseteq L \union {u}
    BY <1>3, <1>5 DEF LocalUsers
  <2>2. (u \in L \/ Cardinality(L) < MaxPresenceMembers) /\ Cardinality(L) <= MaxPresenceMembers
    BY Zenon, <1>1, <1>3 DEF CapInv, CapRespected, Fits
  <2> HIDE DEF L, K, u
  <2>3. /\ Cardinality(L) \in Nat /\ Cardinality(K) \in Nat /\ Cardinality(L \union {u}) \in Nat
        /\ Cardinality(K) <= Cardinality(L \union {u})
    BY Zenon, <2>1, UsersAreCounted
  <2>4. Cardinality(L \union {u}) <= MaxPresenceMembers
    <3>1. CASE u \in L
      <4>1. L \union {u} = L
        BY <3>1
      <4> QED BY Zenon, <2>2, <4>1
    <3>2. CASE Cardinality(L) < MaxPresenceMembers
      <4>1. Cardinality(L \union {u}) <= Cardinality(L) + 1
        BY Zenon, <1>3, <2>1, UsersAreCounted DEF u
      <4> QED BY <2>3, <3>2, <4>1, ConstantsAreSane
    <3> QED BY <2>2, <3>1, <3>2
  <2>5. Cardinality(K) <= MaxPresenceMembers
    BY <2>3, <2>4, ConstantsAreSane
  <2> QED BY Zenon, <1>1, <2>5 DEF CapRespected, K
<1> QED BY Zenon, <1>4, <1>6 DEF CapInv

\* Channel::unsubscribe removes users only, and not under a joiner's lock.
LEMMA CapUnsubscribe ==
    ASSUME CoreInv, CapInv, NEW s \in Sockets, Unsubscribe(s)
    PROVE  CapInv'
<1>1. /\ chan' = chan /\ obj' = obj /\ pc' = [pc EXCEPT ![s] = "announce_leave"] /\ pc \in [Tasks -> Labels]
      /\ pc[s] = "unsubscribe" /\ refs \in [Objects -> [Users -> Nat]] /\ join \in [Sockets -> Joins]
      /\ members \in [Objects -> [Sockets -> Users \union {None}]]
  BY Zenon DEF Unsubscribe, Goto, CoreInv, TypeOK
<1>2. obj[s] \in Objects
  BY <1>1 DEF CoreInv, SocketInv, Leaving
<1>3. \A t \in Sockets : t # s => join'[t] = join[t] /\ pc'[t] = pc[t]
  BY <1>1 DEF Unsubscribe
<1>4. pc'[s] # "subscribe"
  BY <1>1, Distinct
<1>5. /\ \A o \in Objects : o # obj[s] => refs'[o] = refs[o]
      /\ \A o \in Objects : LocalUsers(o)' \subseteq LocalUsers(o)
  <2>1. CASE refs' = refs
    BY Zenon, <2>1 DEF LocalUsers
  <2>2. CASE IsMember(obj[s], s)
    <3>1. PICK u \in Users : refs' = [refs EXCEPT ![obj[s]][u] = @ - 1]
      <4>1. members[obj[s]][s] \in Users
        BY <1>1, <1>2, <2>2 DEF IsMember
      <4> QED BY Zenon, <2>2, <4>1 DEF Unsubscribe
    <3>2. ASSUME NEW o \in Objects, NEW v \in Users, refs'[o][v] > 0 PROVE refs[o][v] > 0
      BY <1>1, <1>2, <3>1, <3>2
    <3>3. \A o \in Objects : o # obj[s] => refs'[o] = refs[o]
      BY Zenon, <1>1, <1>2, <3>1
    <3> QED BY Zenon, <3>2, <3>3 DEF LocalUsers
  <2> QED BY Zenon, <2>1, <2>2 DEF Unsubscribe
<1>6. CapRespected'
  <2> SUFFICES ASSUME chan # None PROVE Cardinality(LocalUsers(chan)') <= MaxPresenceMembers
    BY Zenon, <1>1 DEF CapRespected
  <2>1. chan \in Objects
    BY Zenon DEF CoreInv, TypeOK
  <2>2. PICK L, K : L = LocalUsers(chan) /\ K = LocalUsers(chan)'
    OBVIOUS
  <2>3. K \subseteq L /\ L \subseteq Users /\ K \subseteq Users
    <3>1. LocalUsers(chan)' \subseteq LocalUsers(chan)
      BY Zenon, <1>1, <1>5, <2>1
    <3>2. LocalUsers(chan) \subseteq Users
      BY Zenon DEF LocalUsers
    <3> QED BY Zenon, <2>2, <3>1, <3>2
  <2>4. Cardinality(L) <= MaxPresenceMembers
    BY Zenon, <2>2 DEF CapInv, CapRespected
  <2>5. Cardinality(L) \in Nat /\ Cardinality(K) \in Nat /\ Cardinality(K) <= Cardinality(L)
    BY Zenon, <2>3, UsersAreCounted
  <2> QED BY <2>2, <2>4, <2>5, ConstantsAreSane
<1>7. ASSUME NEW t \in Sockets, pc'[t] = "subscribe" PROVE Fits(t)'
  <2>1. t # s /\ pc[t] = "subscribe" /\ Fits(t) /\ join'[t] = join[t]
    BY Zenon, <1>3, <1>4, <1>7 DEF CapInv
  <2>2. obj[t] \in Objects /\ obj[t] # obj[s]
    <3>1. pc[t] \in Joining /\ pc[t] \in Critical /\ pc[s] \in Critical
      BY <1>1, <2>1 DEF Joining, Critical
    <3>2. obj[t] = chan /\ chan # None /\ chan \in Objects \union {None}
      BY Zenon, <3>1 DEF CoreInv, SocketInv, TypeOK
    <3>3. chan \in Objects /\ s \in Tasks /\ t \in Tasks
      BY Zenon, <3>2, Distinct
    <3>4. transLock[chan] = t
      BY Zenon, <3>1, <3>2, <3>3 DEF CoreInv, TransInv
    <3>5. obj[s] = chan => transLock[chan] = s
      BY Zenon, <3>1, <3>3 DEF CoreInv, TransInv
    <3> QED BY Zenon, <2>1, <3>2, <3>3, <3>4, <3>5
  <2>3. LocalUsers(obj[t])' = LocalUsers(obj[t])
    BY Zenon, <1>1, <1>5, <2>2 DEF LocalUsers
  <2> QED BY Zenon, <2>1, <2>3 DEF Fits
<1> QED BY Zenon, <1>6, <1>7 DEF CapInv

\* A new channel is empty.
LEMMA CapCreate ==
    ASSUME CoreInv, CapInv, NEW s \in Sockets, NEW u \in JoinAs[s], HandleSubscribe(s, u)
    PROVE  CapInv'
<1>1. pc' = [pc EXCEPT ![s] = "sub_lock"] /\ pc \in [Tasks -> Labels] /\ entryLock = None
  BY Zenon DEF HandleSubscribe, Goto, CoreInv, TypeOK
<1>2. ASSUME NEW t \in Sockets PROVE pc'[t] # "subscribe"
  <2>1. pc[t] \notin Joining
    <3>1. entryLock # t
      BY Zenon, <1>1, Distinct
    <3> QED BY Zenon, <3>1 DEF CoreInv, EntryInv
  <2> QED BY <1>1, <2>1, Distinct DEF Joining
<1>3. CASE chan' = chan /\ refs' = refs
  <2>1. LocalUsers(chan)' = LocalUsers(chan)
    BY Zenon, <1>3 DEF LocalUsers
  <2> QED BY Zenon, <1>2, <1>3, <2>1 DEF CapInv, CapRespected
<1>4. CASE \E o \in Objects : Allocate(o)
  <2>1. PICK o \in Objects : chan' = o /\ refs' = [refs EXCEPT ![o] = NoRefs]
    BY Zenon, <1>4 DEF Allocate
  <2>2. refs'[o] = NoRefs
    BY Zenon, <2>1 DEF CoreInv, TypeOK
  <2>3. LocalUsers(chan)' = {}
    BY <2>1, <2>2 DEF LocalUsers, NoRefs
  <2>4. Cardinality(LocalUsers(chan)') <= MaxPresenceMembers
    BY <2>3, FS_EmptySet, ConstantsAreSane
  <2> QED BY Zenon, <1>2, <2>4 DEF CapInv, CapRespected
<1> QED BY Zenon, <1>3, <1>4 DEF HandleSubscribe

\* The other steps of a connection task, and those of the other tasks.
LEMMA CapOthers ==
    ASSUME CoreInv, CapInv,
           \/ \E s \in Sockets : \/ Deliver(s) \/ SubscribeLock(s) \/ Reject(s) \/ AnnounceJoin(s)
                                 \/ HandleUnsubscribe(s) \/ Cleanup(s) \/ Close(s) \/ LeaveLock(s)
                                 \/ AnnounceLeave(s) \/ Reap(s)
           \/ BusStep \/ GcStep \/ UNCHANGED vars
    PROVE  CapInv'
<1>1. pc \in [Tasks -> Labels] /\ obj \in [Tasks -> Objects \union {None}] /\ join \in [Sockets -> Joins]
  BY Zenon DEF CoreInv, TypeOK
<1>2. CASE \E s \in Sockets : \/ Deliver(s) \/ SubscribeLock(s) \/ Reject(s) \/ AnnounceJoin(s)
                              \/ HandleUnsubscribe(s) \/ Cleanup(s) \/ Close(s) \/ LeaveLock(s)
                              \/ AnnounceLeave(s) \/ Reap(s)
  <2>1. PICK s \in Sockets : \/ Deliver(s) \/ SubscribeLock(s) \/ Reject(s) \/ AnnounceJoin(s)
                             \/ HandleUnsubscribe(s) \/ Cleanup(s) \/ Close(s) \/ LeaveLock(s)
                             \/ AnnounceLeave(s) \/ Reap(s)
    BY <1>2
  <2>2. refs' = refs /\ chan' \in {chan, None}
    BY Zenon, <2>1 DEF Deliver, SubscribeLock, Reject, AnnounceJoin, HandleUnsubscribe, Cleanup, Close,
       LeaveLock, AnnounceLeave, Reap, Tidied
  <2>3. \A t \in Sockets : t # s => pc'[t] = pc[t] /\ obj'[t] = obj[t] /\ join'[t] = join[t]
    BY <1>1, <2>1, Distinct DEF Deliver, SubscribeLock, Reject, AnnounceJoin, HandleUnsubscribe, Cleanup, Close,
       LeaveLock, AnnounceLeave, Reap, Goto, Release, FindToLeave
  <2>4. pc'[s] # "subscribe" \/ (pc' = pc /\ obj' = obj /\ join' = join)
    BY <1>1, <2>1, Distinct DEF Deliver, SubscribeLock, Reject, AnnounceJoin, HandleUnsubscribe, Cleanup, Close,
       LeaveLock, AnnounceLeave, Reap, Goto, FindToLeave
  <2> QED BY Zenon, <2>2, <2>3, <2>4, CapFrame
<1>3. CASE BusStep \/ GcStep
  <2>1. refs' = refs /\ chan' = chan /\ join' = join
    BY Zenon, <1>3 DEF BusStep, GcStep, BusFind, BusLock, BusApply, BusDiff, BusDiffDone, GcExpire, GcFind, GcLock, GcDecide
  <2>2. \A t \in Sockets : pc'[t] = pc[t] /\ obj'[t] = obj[t]
    BY <1>1, <1>3, Distinct DEF BusStep, GcStep, BusFind, BusLock, BusApply, BusDiff, BusDiffDone, GcExpire,
       GcFind, GcLock, GcDecide, Goto, Release, BusDone, ApplyMemberAdded, ApplyMemberRemoved, ApplySnapshot
  <2> QED BY Zenon, <2>1, <2>2, CapFrame
<1>4. CASE UNCHANGED vars
  BY Zenon, <1>4, CapFrame
<1> QED BY Zenon, <1>2, <1>3, <1>4

\* The `admit` closure of handle_subscribe: on a node without peers a channel
\* never has more distinct users than max_presence_members_per_channel, however
\* joins and leaves interleave, for every cap and every number of sockets.
THEOREM CapNeverExceeded ==
    ASSUME Peers = {}
    PROVE  Spec => []CapRespected
<1>1. Init => CapInv
  BY Distinct DEF Init, CapInv, CapRespected
<1>2. ASSUME IInv, CapInv, [Next]_vars PROVE CapInv'
  <2>1. CoreInv
    BY Zenon, <1>2 DEF IInv
  <2>2. CASE \E s \in Sockets : SocketStep(s)
    BY Zenon, <1>2, <2>1, <2>2, CapAdmit, CapSubscribe, CapUnsubscribe, CapCreate, CapOthers
       DEF SocketStep, Disconnect, Kick
  <2> QED BY Zenon, <1>2, <2>1, <2>2, CapOthers DEF Next
<1>3. CapInv => CapRespected
  BY Zenon DEF CapInv
<1> QED BY <1>1, <1>2, <1>3, Invariance, PTL DEF Spec

=============================================================================
