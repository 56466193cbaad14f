------------------------ MODULE PresenceRosterProofs ------------------------
(***************************************************************************)
(* The roster of each client of a presence channel: that every step keeps  *)
(* it, given what the handlers rely on (HandlerInv), which                 *)
(* PresenceChannelProofs proves.                                           *)
(*                                                                         *)
(* A client's roster is what it was sent when it joined followed by the    *)
(* frames in its queue. RosterInv says by how much it may differ from the  *)
(* channel: by the frames that the holder of the transition lock has still *)
(* to broadcast, and by the members that a GC pass has dropped and not yet *)
(* looked up.                                                              *)
(***************************************************************************)
EXTENDS PresenceInvariant, TLAPS

USE DEF vars, chanVars, connVars, outVars, peerVars, histVars

\* What the handlers rely on.
HandlerInv == CoreInv /\ CountInv

\* The same as Distinct of PresenceStepProofs: None is no task, user or object, and the background tasks are no sockets.
LEMMA Apart ==
    /\ None \notin Tasks /\ None \notin Users /\ None \notin Objects
    /\ "bus" \in Tasks \ Sockets /\ "gc" \in Tasks \ Sockets
    /\ Sockets \subseteq Tasks
    /\ \A s \in Sockets : JoinAs[s] \subseteq Users
  BY Zenon, ConstantsAreSane DEF Tasks

(***************************************************************************)
(* The roster: what a client was sent, followed by its queue               *)
(***************************************************************************)

\* A client that was sent the roster and is to be sent every change.
InScope(s) == (s \in subscribed \/ pc[s] = "announce") /\ s \notin kicked \union tainted

\* The GC pass has dropped u from a peer's roster and has yet to look u up in
\* the channel that the map holds.
Excused(u) ==
    (\E x \in expired : x[2] = u) /\ (pc["gc"] = "idle" \/ obj["gc"] = chan)

\* The frames that the holder of the transition lock has still to broadcast.
AtDiff == pc["bus"] = "diff" /\ obj["bus"] = chan

Coming(s, u) ==
    \/ \E t \in Sockets \ {s} : /\ pc[t] = "announce"
                               /\ join[t].changed /\ join[t].user = u /\ ~join[t].present
    \/ AtDiff /\ Added(u) \in diff

Going(u) ==
    \/ \E t \in Sockets : /\ pc[t] = "announce_leave"
                          /\ join[t].changed /\ join[t].user = u /\ obj[t] = chan
    \/ AtDiff /\ Removed(u) \in diff

\* A joiner that found u on a peer will not announce u.
Kept(u) == \E t \in Sockets : pc[t] = "subscribe" /\ u \in join[t].remote

Present(u) == u \in LocalUsers(chan) \union RemoteUsers

Up(s, u) == (Present(u) \/ Kept(u)) /\ ~Coming(s, u) => Told(s, u)
Down(s, u) == Told(s, u) /\ ~Going(u) /\ ~Excused(u) => Present(u)

\* The roster of a client is behind the channel's only by such frames.
StreamInv == \A s \in Sockets, u \in Users : InScope(s) => Up(s, u) /\ Down(s, u)

\* What a joiner read in `admit` is what the peers' rosters are, as long as it
\* holds the transition lock.
ReadOk(t) ==
    /\ join[t].present <=> join[t].user \in join[t].remote
    /\ t \notin tainted =>
          /\ \A u \in Users : u \in RemoteUsers => u \in join[t].remote
          /\ \A u \in Users : u \in join[t].remote => u \in RemoteUsers \/ Excused(u)
          /\ IsMember(chan, t) \/ queue[t] = <<>>

ReadInv == \A t \in Sockets : pc[t] = "subscribe" => ReadOk(t)

\* The frames that are left of a snapshot are still right.
DiffInv ==
    AtDiff => \A u \in Users :
                 /\ Removed(u) \in diff => ~Present(u)
                 /\ Added(u) \in diff => u \in RemoteUsers \/ Excused(u)

RosterInv == StreamInv /\ ReadInv /\ DiffInv

-----------------------------------------------------------------------------
(* What a client knows from a roster v and a queue q of frames. *)

Knows(q, v, u) ==
    LET about == {i \in 1..Len(q) : q[i].user = u}
    IN  IF about = {} THEN u \in v
        ELSE \E i \in about : q[i].kind = "added" /\ \A j \in about : j <= i

\* The client's view of a user is what the queue and the roster make of it.
LEMMA ToldIsKnown ==
    \A s, u : /\ Told(s, u) <=> Knows(queue[s], view[s], u)
              /\ Told(s, u)' <=> Knows(queue'[s], view'[s], u)
  BY Zenon DEF Told, Knows

\* With no frame on its way the client goes by the roster.
LEMMA KnowsEmpty == \A v, u : Knows(<<>>, v, u) <=> u \in v
  BY DEF Knows

\* With another roster under the same queue a client goes by the one or the other.
LEMMA KnowsReplaced ==
    ASSUME NEW q, NEW v, NEW w, NEW u
    PROVE  (Knows(q, w, u) <=> u \in w) \/ (Knows(q, w, u) <=> Knows(q, v, u))
  BY Zenon DEF Knows

\* try_send of a member frame: the last word about its user.
LEMMA KnowsAppend ==
    ASSUME NEW q \in Seq(Frames), NEW f \in Frames, NEW v, NEW u
    PROVE  /\ f.user = u => (Knows(Append(q, f), v, u) <=> f.kind = "added")
           /\ f.user # u => (Knows(Append(q, f), v, u) <=> Knows(q, v, u))
<1> DEFINE r == Append(q, f)
           n == Len(q)
           Of == {i \in 1..Len(q) : q[i].user = u}
           Now == {i \in 1..Len(r) : r[i].user = u}
<1>1. /\ n \in Nat /\ Len(r) = n + 1 /\ r[n + 1] = f
      /\ \A i \in 1..n : r[i] = q[i]
  OBVIOUS
<1> HIDE DEF r
<1>2. ASSUME f.user = u PROVE Knows(r, v, u) <=> f.kind = "added"
  <2>1. n + 1 \in Now /\ \A j \in Now : j <= n + 1
    BY <1>1, <1>2
  <2>2. \A i \in Now : (\A j \in Now : j <= i) => i = n + 1
    BY <1>1, <2>1
  <2> QED BY <1>1, <2>1, <2>2 DEF Knows
<1>3. ASSUME f.user # u PROVE Knows(r, v, u) <=> Knows(q, v, u)
  <2>1. Now = Of
    BY <1>1, <1>3
  <2>2. \A i \in Of : r[i].kind = q[i].kind
    BY <1>1
  <2> QED BY Zenon, <2>1, <2>2 DEF Knows
<1> QED BY Zenon, <1>2, <1>3 DEF r

\* Writing a frame moves what it says from the queue to the client.
LEMMA KnowsTail ==
    ASSUME NEW q \in Seq(Frames), q # <<>>, NEW v, NEW w, NEW u,
           w = IF Head(q).kind = "added" THEN v \union {Head(q).user} ELSE v \ {Head(q).user}
    PROVE  Knows(Tail(q), w, u) <=> Knows(q, v, u)
<1> DEFINE r == Tail(q)
           Of == {i \in 1..Len(q) : q[i].user = u}
           Now == {i \in 1..Len(r) : r[i].user = u}
<1> PICK h : h = Head(q)
  OBVIOUS
<1>0. /\ h.user # u => (u \in w <=> u \in v)
      /\ h.user = u => (u \in w <=> h.kind = "added")
  <2>1. w = IF h.kind = "added" THEN v \union {h.user} ELSE v \ {h.user}
    OBVIOUS
  <2> QED BY Zenon, <2>1
<1>1. /\ Len(q) \in Nat \ {0} /\ Len(r) = Len(q) - 1 /\ h = q[1]
      /\ \A i \in 1..Len(r) : r[i] = q[i + 1]
  OBVIOUS
<1>2. \A i \in 1..Len(q) : i = 1 \/ (i - 1 \in 1..Len(r) /\ q[i] = r[i - 1])
  BY <1>1
<1> SUFFICES Knows(r, w, u) <=> Knows(q, v, u)
  OBVIOUS
<1> HIDE DEF r
<1>3. \A i \in Now : i + 1 \in Of /\ r[i].kind = q[i + 1].kind
  BY <1>1
<1>4. \A i \in Of : i = 1 \/ (i - 1 \in Now /\ r[i - 1].kind = q[i].kind)
  BY <1>2
<1>5. Of \subseteq Nat /\ Now \subseteq Nat /\ 1 \in 1..Len(q) /\ \A i \in Of : 1 <= i
  BY <1>1
<1>6. CASE Now = {}
  <2>1. Knows(r, w, u) <=> u \in w
    BY <1>6 DEF Knows
  <2>2. Of = {} \/ Of = {1}
    BY <1>4, <1>6
  <2>3. CASE Of = {}
    <3>1. h.user # u
      BY <1>1, <1>5, <2>3
    <3>2. Knows(q, v, u) <=> u \in v
      BY <2>3 DEF Knows
    <3> QED BY Zenon, <1>0, <2>1, <3>1, <3>2
  <2>4. CASE Of = {1}
    <3>1. h.user = u
      BY <1>1, <2>4
    <3>2. Knows(q, v, u) <=> q[1].kind = "added"
      <4>1. Of # {} /\ 1 \in Of /\ \A i \in Of : i = 1
        BY <2>4
      <4>2. \A j \in Of : j <= 1
        BY <2>4
      <4>3. Knows(q, v, u) <=> \E i \in Of : q[i].kind = "added" /\ \A j \in Of : j <= i
        BY Zenon, <4>1 DEF Knows
      <4> QED BY Zenon, <4>1, <4>2, <4>3
    <3> QED BY Zenon, <1>0, <1>1, <2>1, <3>1, <3>2
  <2> QED BY <2>2, <2>3, <2>4
<1>7. CASE Now # {}
  <2>1. Of # {}
    BY <1>3, <1>7
  <2>2. ASSUME NEW i \in Now PROVE (\A j \in Now : j <= i) <=> (\A j \in Of : j <= i + 1)
    BY <1>3, <1>4, <1>5
  <2>3. ~(\A j \in Of : j <= 1)
    BY <1>3, <1>5, <1>7
  <2>4. Knows(r, w, u) <=> \E i \in Now : r[i].kind = "added" /\ \A j \in Now : j <= i
    BY Zenon, <1>7 DEF Knows
  <2>5. Knows(q, v, u) <=> \E i \in Of : q[i].kind = "added" /\ \A j \in Of : j <= i
    BY Zenon, <2>1 DEF Knows
  <2>6. ASSUME NEW i \in Now, r[i].kind = "added", \A j \in Now : j <= i
        PROVE  \E k \in Of : q[k].kind = "added" /\ \A j \in Of : j <= k
    BY Zenon, <1>3, <2>2, <2>6
  <2>7. ASSUME NEW k \in Of, q[k].kind = "added", \A j \in Of : j <= k
        PROVE  \E i \in Now : r[i].kind = "added" /\ \A j \in Now : j <= i
    <3>1. k # 1
      BY Zenon, <2>3, <2>7
    <3>2. PICK i : i = k - 1
      OBVIOUS
    <3>3. i \in Now /\ r[i].kind = "added" /\ k = i + 1
      BY <1>4, <1>5, <2>7, <3>1, <3>2
    <3> QED BY Zenon, <2>2, <2>7, <3>3
  <2>8. Knows(r, w, u) => Knows(q, v, u)
    BY Zenon, <2>4, <2>5, <2>6
  <2>9. Knows(q, v, u) => Knows(r, w, u)
    BY Zenon, <2>4, <2>5, <2>7
  <2> QED BY Zenon, <2>8, <2>9
<1> QED BY Zenon, <1>6, <1>7

-----------------------------------------------------------------------------
(* What the locks and the membership say about those in scope. *)

\* Whoever is in scope is a member of the channel that the map holds.
LEMMA ScopeMember ==
    ASSUME CoreInv, NEW s \in Sockets, InScope(s)
    PROVE  chan \in Objects /\ IsMember(chan, s) /\ s \notin kicked /\ s \notin tainted
<1>1. "announce" \in Joining
  BY DEF Joining
<1>2. chan # None /\ IsMember(chan, s)
  BY Zenon, <1>1 DEF InScope, CoreInv, MemberInv, SocketInv
<1> QED BY Zenon, <1>2 DEF InScope, CoreInv, TypeOK

\* Who is inside the transition lock of the map's channel is there alone.
LEMMA Alone ==
    ASSUME CoreInv, chan \in Objects, NEW t \in Tasks, pc[t] \in Critical, obj[t] = chan
    PROVE  /\ \A r \in Sockets : r # t =>
                 /\ pc[r] \notin {"admit", "subscribe", "announce"}
                 /\ pc[r] \in {"unsubscribe", "announce_leave"} => obj[r] # chan
           /\ t # "bus" => ~AtDiff
<1>1. ASSUME NEW r \in Tasks, pc[r] \in Critical, obj[r] = chan PROVE r = t
  <2>1. transLock[chan] = t
    BY Zenon DEF CoreInv, TransInv
  <2>2. transLock[chan] = r
    BY Zenon, <1>1 DEF CoreInv, TransInv
  <2> QED BY Zenon, <2>1, <2>2
<1>2. ASSUME NEW r \in Sockets, pc[r] \in {"admit", "subscribe", "announce"} PROVE r = t
  <2>1. pc[r] \in Critical /\ pc[r] \in Joining
    BY <1>2 DEF Critical, Joining
  <2>2. obj[r] = chan
    BY Zenon, <2>1 DEF CoreInv, SocketInv
  <2> QED BY Zenon, <1>1, <2>1, <2>2, Apart
<1>3. ASSUME NEW r \in Sockets, pc[r] \in {"unsubscribe", "announce_leave"}, obj[r] = chan PROVE r = t
  <2>1. pc[r] \in Critical
    BY <1>3 DEF Critical
  <2> QED BY Zenon, <1>1, <1>3, <2>1, Apart
<1>4. ASSUME AtDiff PROVE t = "bus"
  <2>1. pc["bus"] \in Critical /\ obj["bus"] = chan
    BY <1>4 DEF Critical, AtDiff
  <2> QED BY Zenon, <1>1, <2>1, Apart
<1> QED BY Zenon, <1>2, <1>3, <1>4

\* While the map entry is free nobody has read the peers' rosters for a join.
LEMMA NobodyReads ==
    ASSUME CoreInv, entryLock = None
    PROVE  \A t \in Sockets : pc[t] # "subscribe" /\ pc[t] # "announce"
<1> SUFFICES ASSUME NEW t \in Sockets PROVE pc[t] \notin Joining
  BY DEF Joining
<1>1. entryLock # t
  BY Zenon, Apart
<1> QED BY Zenon, <1>1 DEF CoreInv, EntryInv

LocalMatch ==
    \A o \in Objects, u \in Users : u \in LocalUsers(o) <=> \E s \in Sockets : members[o][s] = u

\* A user is local exactly if one of their sockets is a member.
LEMMA LocalIsMember == HandlerInv => LocalMatch
<1> SUFFICES ASSUME HandlerInv, NEW o \in Objects, NEW u \in Users
             PROVE  u \in LocalUsers(o) <=> \E s \in Sockets : members[o][s] = u
  BY Zenon DEF LocalMatch
<1>1. refs[o][u] = 0 <=> \A s \in Sockets : members[o][s] # u
  BY Zenon DEF HandlerInv, CountInv
<1>3. refs[o][u] \in Nat
  <2>1. refs \in [Objects -> [Users -> Nat]]
    BY Zenon DEF HandlerInv, CoreInv, TypeOK
  <2>2. refs[o] \in [Users -> Nat]
    BY Zenon, <2>1
  <2> QED BY Zenon, <2>2
<1>2. u \in LocalUsers(o) <=> refs[o][u] # 0
  BY <1>3 DEF LocalUsers
<1> QED BY Zenon, <1>1, <1>2

\* send_to_members: a member that is not kicked has the frame as the last word
\* about its user, and nobody else is sent anything.
LEMMA BroadcastTells ==
    ASSUME CoreInv, NEW o, NEW f \in Frames, NEW except, Broadcast(o, f, except), view' = view
    PROVE  /\ \A t \in Sockets : t \in kicked => t \in kicked'
           /\ \A t \in Sockets, u \in Users : IsMember(o, t) /\ t # except /\ t \notin kicked' =>
                 /\ f.user = u => (Told(t, u)' <=> f.kind = "added")
                 /\ f.user # u => (Told(t, u)' <=> Told(t, u))
           /\ \A t \in Sockets : ~IsMember(o, t) \/ t = except =>
                 /\ queue'[t] = queue[t] /\ (t \in kicked' <=> t \in kicked)
                 /\ \A u \in Users : Told(t, u)' <=> Told(t, u)
<1> DEFINE to == {t \in Sockets : IsMember(o, t) /\ t # except}
           full == {t \in to : Len(queue[t]) >= OutboundCapacity}
<1>1. /\ queue' = [t \in Sockets |-> IF t \in to \ full THEN Append(queue[t], f) ELSE queue[t]]
      /\ kicked' = kicked \union full
  BY Zenon DEF Broadcast, KickAll
<1>2. \A t \in Sockets : queue[t] \in Seq(Frames)
  BY Zenon DEF CoreInv, TypeOK
<1>3. ASSUME NEW t \in Sockets, NEW u \in Users, IsMember(o, t), t # except, t \notin kicked'
      PROVE  /\ f.user = u => (Told(t, u)' <=> f.kind = "added")
             /\ f.user # u => (Told(t, u)' <=> Told(t, u))
  <2>1. t \in to \ full
    BY Zenon, <1>1, <1>3
  <2>2. queue'[t] = Append(queue[t], f)
    BY Zenon, <1>1, <2>1
  <2>3. /\ Told(t, u) <=> Knows(queue[t], view[t], u)
        /\ Told(t, u)' <=> Knows(Append(queue[t], f), view[t], u)
    BY Zenon, <2>2, ToldIsKnown
  <2> QED BY Zenon, <1>2, <2>3, KnowsAppend
<1>4. ASSUME NEW t \in Sockets, ~IsMember(o, t) \/ t = except
      PROVE  /\ queue'[t] = queue[t] /\ (t \in kicked' <=> t \in kicked)
             /\ \A u \in Users : Told(t, u)' <=> Told(t, u)
  <2>1. t \notin to
    BY Zenon, <1>4
  <2>2. queue'[t] = queue[t] /\ (t \in kicked' <=> t \in kicked)
    BY Zenon, <1>1, <2>1
  <2>3. ASSUME NEW u \in Users PROVE Told(t, u)' <=> Told(t, u)
    <3>1. /\ Told(t, u) <=> Knows(queue[t], view[t], u)
          /\ Told(t, u)' <=> Knows(queue[t], view[t], u)
      BY Zenon, <2>2, ToldIsKnown
    <3> QED BY Zenon, <3>1
  <2> QED BY Zenon, <2>2, <2>3
<1>5. \A t \in Sockets : t \in kicked => t \in kicked'
  BY Zenon, <1>1
<1> QED BY Zenon, <1>3, <1>4, <1>5

\* A broadcast on an object that the map has dropped reaches nobody.
LEMMA BroadcastElsewhere ==
    ASSUME CoreInv, NEW o \in Objects, o # chan, NEW f, NEW except, Broadcast(o, f, except)
    PROVE  queue' = queue /\ kicked' = kicked
<1>1. \A t \in Sockets : ~IsMember(o, t)
  BY Zenon DEF CoreInv, MemberInv
<1>2. {t \in Sockets : IsMember(o, t) /\ t # except} = {}
  BY Zenon, <1>1
<1>3. /\ queue' = [t \in Sockets |-> queue[t]]
      /\ kicked' = kicked \union {}
  BY <1>2 DEF Broadcast, KickAll
<1> QED BY <1>3 DEF CoreInv, TypeOK

-----------------------------------------------------------------------------
(* Steps that tell nobody anything. *)

Speaking == {"subscribe", "announce", "announce_leave"}

\* A step of s outside of the code that reads, tells or is about to tell.
Aside(s) ==
    /\ UNCHANGED <<chan, members, refs, cache, expired, diff>>
    /\ \A t \in Tasks \ {s} : pc'[t] = pc[t] /\ obj'[t] = obj[t]
    /\ \A t \in Sockets \ {s} :
          /\ join'[t] = join[t] /\ queue'[t] = queue[t] /\ view'[t] = view[t]
          /\ t \in subscribed' <=> t \in subscribed
          /\ t \in kicked' <=> t \in kicked
          /\ t \in tainted' <=> t \in tainted
    /\ pc[s] \notin Speaking /\ pc'[s] \notin Speaking
    /\ InScope(s)' => InScope(s) /\ \A u \in Users : Told(s, u)' <=> Told(s, u)

\* Such a step keeps every roster.
LEMMA AsideFrame ==
    ASSUME RosterInv, NEW s \in Sockets, Aside(s)
    PROVE  RosterInv'
<1> USE DEF Aside
<1>1. /\ pc'["bus"] = pc["bus"] /\ obj'["bus"] = obj["bus"]
      /\ pc'["gc"] = pc["gc"] /\ obj'["gc"] = obj["gc"]
  BY Zenon, Apart
<1>2. /\ pc[s] # "subscribe" /\ pc[s] # "announce" /\ pc[s] # "announce_leave"
      /\ pc'[s] # "subscribe" /\ pc'[s] # "announce" /\ pc'[s] # "announce_leave"
  BY DEF Speaking
<1>3. \A t \in Sockets : t # s => pc'[t] = pc[t] /\ obj'[t] = obj[t]
  BY Zenon, Apart
<1>4. /\ AtDiff' <=> AtDiff
      /\ \A u : (Present(u)' <=> Present(u)) /\ (Excused(u)' <=> Excused(u))
      /\ \A u : u \in RemoteUsers' <=> u \in RemoteUsers
  <2>1. RemoteUsers' = RemoteUsers
    BY Zenon DEF RemoteUsers
  <2>2. LocalUsers(chan)' = LocalUsers(chan)
    BY Zenon DEF LocalUsers
  <2>3. AtDiff' <=> AtDiff
    BY Zenon, <1>1 DEF AtDiff
  <2>4. \A u : Excused(u)' <=> Excused(u)
    BY Zenon, <1>1 DEF Excused
  <2>5. \A u : Present(u)' <=> Present(u)
    BY Zenon, <2>1, <2>2 DEF Present
  <2> QED BY Zenon, <2>1, <2>3, <2>4, <2>5
<1>5. \A u : Kept(u)' <=> Kept(u)
  BY Zenon, <1>2, <1>3 DEF Kept
<1>6. \A u : Going(u)' <=> Going(u)
  BY Zenon, <1>2, <1>3, <1>4 DEF Going
<1>7. \A t, u : Coming(t, u)' <=> Coming(t, u)
  BY Zenon, <1>2, <1>3, <1>4 DEF Coming
<1>8. ASSUME NEW t \in Sockets, InScope(t)'
      PROVE  InScope(t) /\ \A u \in Users : Told(t, u)' <=> Told(t, u)
  <2>1. CASE t = s
    BY Zenon, <1>8, <2>1
  <2>2. CASE t # s
    <3>1. InScope(t)
      BY Zenon, <1>3, <1>8, <2>2 DEF InScope
    <3>2. \A u : /\ Told(t, u) <=> Knows(queue[t], view[t], u)
                 /\ Told(t, u)' <=> Knows(queue[t], view[t], u)
      BY Zenon, <2>2, ToldIsKnown
    <3> QED BY Zenon, <3>1, <3>2
  <2> QED BY Zenon, <2>1, <2>2
<1>9. StreamInv'
  BY Zenon, <1>4, <1>5, <1>6, <1>7, <1>8 DEF RosterInv, StreamInv, Up, Down
<1>10. ReadInv'
  <2> SUFFICES ASSUME NEW t \in Sockets, pc'[t] = "subscribe" PROVE ReadOk(t)'
    BY Zenon DEF ReadInv
  <2>1. t # s /\ pc[t] = "subscribe" /\ ReadOk(t)
    BY Zenon, <1>2, <1>3 DEF RosterInv, ReadInv
  <2> QED BY Zenon, <1>4, <2>1 DEF ReadOk, IsMember
<1>11. DiffInv'
  BY Zenon, <1>4 DEF RosterInv, DiffInv
<1> QED BY Zenon, <1>9, <1>10, <1>11 DEF RosterInv

\* A step of the bus consumer or the GC that queues no frame.
Backstage ==
    /\ UNCHANGED <<chan, members, refs, join, subscribed, view, queue, kicked, tainted>>
    /\ \A t \in Sockets : pc'[t] = pc[t] /\ obj'[t] = obj[t]

SameDiff ==
    \A u \in Users : /\ (AtDiff' /\ Added(u) \in diff') <=> (AtDiff /\ Added(u) \in diff)
                     /\ (AtDiff' /\ Removed(u) \in diff') <=> (AtDiff /\ Removed(u) \in diff)

\* Such a step keeps every roster if all that it forgets of the peers is
\* remembered as expired.
LEMMA BackstageFrame ==
    ASSUME RosterInv, Backstage, SameDiff,
           \A u \in Users : /\ Excused(u) => Excused(u)'
                            /\ u \in RemoteUsers' => u \in RemoteUsers
                            /\ u \in RemoteUsers => u \in RemoteUsers' \/ Excused(u)'
    PROVE  RosterInv'
<1>0. \A t \in Sockets, u \in Users : Told(t, u)' <=> Told(t, u)
  BY Zenon DEF Told, Backstage
<1>1. \A t \in Sockets : InScope(t)' <=> InScope(t)
  BY Zenon DEF InScope, Backstage
<1>2. LocalUsers(chan)' = LocalUsers(chan)
  BY Zenon DEF LocalUsers, Backstage
<1>3. \A u \in Users : (Present(u)' => Present(u)) /\ (Present(u) => Present(u)' \/ Excused(u)')
  BY Zenon, <1>2 DEF Present
<1>4. \A u : Kept(u)' <=> Kept(u)
  BY Zenon DEF Kept, Backstage
<1>5. \A u \in Users : Going(u)' <=> Going(u)
  BY Zenon DEF Going, Backstage, SameDiff
<1>6. \A t \in Sockets, u \in Users : Coming(t, u)' <=> Coming(t, u)
  BY Zenon DEF Coming, Backstage, SameDiff
<1>7. StreamInv'
  <2> SUFFICES ASSUME NEW t \in Sockets, NEW u \in Users, InScope(t)' PROVE Up(t, u)' /\ Down(t, u)'
    BY Zenon DEF StreamInv
  <2>0. Told(t, u)' <=> Told(t, u)
    BY Zenon, <1>0
  <2>1. InScope(t)
    BY Zenon, <1>1
  <2>2. Up(t, u) /\ Down(t, u)
    BY Zenon, <2>1 DEF RosterInv, StreamInv
  <2>3. /\ Present(u)' => Present(u)
        /\ Present(u) => Present(u)' \/ Excused(u)'
        /\ Excused(u) => Excused(u)'
        /\ Kept(u)' <=> Kept(u)
        /\ Going(u)' <=> Going(u)
        /\ Coming(t, u)' <=> Coming(t, u)
    BY Zenon, <1>3, <1>4, <1>5, <1>6
  <2> QED BY Zenon, <2>0, <2>2, <2>3 DEF Up, Down
<1>8. ReadInv'
  <2> SUFFICES ASSUME NEW t \in Sockets, pc'[t] = "subscribe" PROVE ReadOk(t)'
    BY Zenon DEF ReadInv
  <2>1. ReadOk(t) /\ join'[t] = join[t] /\ queue'[t] = queue[t] /\ tainted' = tainted
        /\ (IsMember(chan, t)' <=> IsMember(chan, t))
    BY Zenon DEF RosterInv, ReadInv, Backstage, IsMember
  <2> QED BY Zenon, <2>1 DEF ReadOk
<1>9. DiffInv'
  BY Zenon, <1>3 DEF RosterInv, DiffInv, SameDiff
<1> QED BY Zenon, <1>7, <1>8, <1>9 DEF RosterInv

-----------------------------------------------------------------------------
(* The connection tasks. *)

\* Waiting for a lock tells nobody anything.
LEMMA RosterWaits ==
    ASSUME CoreInv, RosterInv, NEW s \in Sockets, SubscribeLock(s) \/ LeaveLock(s)
    PROVE  RosterInv'
<1>1. /\ UNCHANGED <<chan, members, refs, cache, expired, diff, obj, join, queue, view, subscribed,
                     kicked, tainted>>
      /\ \/ pc[s] = "sub_lock" /\ pc' = [pc EXCEPT ![s] = "admit"]
         \/ pc[s] = "leave_lock" /\ pc' = [pc EXCEPT ![s] = "unsubscribe"]
  BY Zenon DEF SubscribeLock, LeaveLock, Goto
<1>2. pc \in [Tasks -> Labels] /\ s \in Tasks
  BY Zenon, Apart DEF CoreInv, TypeOK
<1>3. pc[s] \notin Speaking /\ pc'[s] \notin Speaking
  BY <1>1, <1>2 DEF Speaking
<1>4. \A t \in Tasks \ {s} : pc'[t] = pc[t] /\ obj'[t] = obj[t]
  BY <1>1, <1>2
<1>5. InScope(s)' => InScope(s)
  BY <1>1, <1>3 DEF InScope, Speaking
<1>6. \A u \in Users : Told(s, u)' <=> Told(s, u)
  BY Zenon, <1>1 DEF Told
<1>7. Aside(s)
  BY Zenon, <1>1, <1>3, <1>4, <1>5, <1>6 DEF Aside
<1> QED BY Zenon, <1>7, AsideFrame

\* Writing a frame to the client: the client knows afterwards what it would
\* have known.
LEMMA RosterDeliver ==
    ASSUME CoreInv, RosterInv, NEW s \in Sockets, Deliver(s)
    PROVE  RosterInv'
<1>1. /\ UNCHANGED <<chan, members, refs, cache, expired, diff, pc, obj, join, subscribed,
                     kicked, tainted>>
      /\ pc[s] = "idle" /\ queue[s] # <<>>
      /\ queue' = [queue EXCEPT ![s] = Tail(queue[s])]
  BY Zenon DEF Deliver
<1>2. queue \in [Sockets -> Seq(Frames)] /\ view \in [Sockets -> SUBSET Users]
  BY Zenon DEF CoreInv, TypeOK
<1>3. pc[s] \notin Speaking
  BY <1>1 DEF Speaking
<1>4. \A t \in Sockets \ {s} : queue'[t] = queue[t] /\ view'[t] = view[t]
  BY Zenon, <1>1, <1>2 DEF Deliver
<1>5. InScope(s)' => InScope(s) /\ s \in subscribed
  BY <1>1 DEF InScope
<1>6. ASSUME s \in subscribed, NEW u \in Users PROVE Told(s, u)' <=> Told(s, u)
  <2>1. queue'[s] = Tail(queue[s])
    BY Zenon, <1>1, <1>2
  <2>2. view'[s] = IF Head(queue[s]).kind = "added" THEN view[s] \union {Head(queue[s]).user}
                                                   ELSE view[s] \ {Head(queue[s]).user}
    BY Zenon, <1>2, <1>6 DEF Deliver
  <2>3. PICK q, v, w : q = queue[s] /\ v = view[s] /\ w = view'[s]
    OBVIOUS
  <2>4. q \in Seq(Frames) /\ q # <<>>
    BY Zenon, <1>1, <1>2, <2>3
  <2>5. w = IF Head(q).kind = "added" THEN v \union {Head(q).user} ELSE v \ {Head(q).user}
    BY Zenon, <2>2, <2>3
  <2>6. Knows(Tail(q), w, u) <=> Knows(q, v, u)
    BY Zenon, <2>4, <2>5, KnowsTail
  <2> QED BY Zenon, <2>1, <2>3, <2>6, ToldIsKnown
<1>7. Aside(s)
  BY Zenon, <1>1, <1>3, <1>4, <1>5, <1>6 DEF Aside
<1> QED BY Zenon, <1>7, AsideFrame

\* A step of s after which s is in no channel.
LEMMA RosterLeaves ==
    ASSUME CoreInv, RosterInv, NEW s \in Sockets,
           HandleUnsubscribe(s) \/ Cleanup(s) \/ Close(s) \/ Reject(s)
    PROVE  RosterInv'
<1>1. /\ UNCHANGED <<chan, members, refs, cache, expired, diff, tainted>>
      /\ pc[s] \in {"idle", "close", "admit"}
  BY Zenon DEF HandleUnsubscribe, Cleanup, Close, Reject
<1>2. /\ pc \in [Tasks -> Labels] /\ obj \in [Tasks -> Objects \union {None}] /\ s \in Tasks
      /\ queue \in [Sockets -> Seq(Frames)] /\ view \in [Sockets -> SUBSET Users]
      /\ join \in [Sockets -> Joins]
  BY Zenon, Apart DEF CoreInv, TypeOK
<1>3. PICK label \in {"idle", "close", "leave_lock", "reap"} : pc' = [pc EXCEPT ![s] = label]
  BY Zenon DEF HandleUnsubscribe, Cleanup, Close, Reject, FindToLeave, Goto
<1>4. pc[s] \notin Speaking /\ pc'[s] \notin Speaking /\ pc'[s] # "announce"
  BY <1>1, <1>2, <1>3 DEF Speaking
<1>5. \A t \in Tasks \ {s} : pc'[t] = pc[t]
  BY <1>2, <1>3
<1>6. \A t \in Tasks \ {s} : obj'[t] = obj[t]
  <2>1. PICK o : obj' = obj \/ obj' = [obj EXCEPT ![s] = o]
    BY Zenon DEF HandleUnsubscribe, Cleanup, Close, Reject, FindToLeave, Release
  <2> QED BY Zenon, <1>2, <2>1
<1>7. \A t \in Sockets \ {s} :
          /\ join'[t] = join[t] /\ queue'[t] = queue[t] /\ view'[t] = view[t]
          /\ t \in subscribed' <=> t \in subscribed
          /\ t \in kicked' <=> t \in kicked
  BY <1>2 DEF HandleUnsubscribe, Cleanup, Close, Reject
<1>8. ~InScope(s)' \/ (InScope(s) /\ \A u \in Users : Told(s, u)' <=> Told(s, u))
  <2>1. CASE HandleUnsubscribe(s) \/ Cleanup(s)
    BY <1>4, <2>1 DEF InScope, HandleUnsubscribe, Cleanup
  <2>2. CASE Close(s)
    <3>1. s \notin subscribed
      BY <2>2 DEF Close, CoreInv, MemberInv, Joining
    <3> QED BY <1>4, <2>2, <3>1 DEF InScope, Close
  <2>3. CASE Reject(s)
    <3>1. UNCHANGED <<subscribed, kicked, tainted, queue, view>>
      BY Zenon, <2>3 DEF Reject
    <3>2. InScope(s)' => InScope(s)
      BY Zenon, <1>4, <3>1 DEF InScope
    <3>3. \A u \in Users : Told(s, u)' <=> Told(s, u)
      BY Zenon, <3>1 DEF Told
    <3> QED BY Zenon, <3>2, <3>3
  <2> QED BY Zenon, <2>1, <2>2, <2>3
<1>9. Aside(s)
  BY Zenon, <1>1, <1>4, <1>5, <1>6, <1>7, <1>8 DEF Aside
<1> QED BY Zenon, <1>9, AsideFrame

\* With no channel, or an empty one, there is nobody to tell.
LEMMA RosterOfNobody ==
    ASSUME \A t \in Sockets : ~InScope(t)' /\ pc'[t] # "subscribe", ~AtDiff'
    PROVE  RosterInv'
<1>1. StreamInv'
  BY Zenon DEF StreamInv
<1>2. ReadInv'
  BY Zenon DEF ReadInv
<1>3. DiffInv'
  BY Zenon DEF DiffInv
<1> QED BY Zenon, <1>1, <1>2, <1>3 DEF RosterInv

\* Taking the map entry; a new channel has no members.
LEMMA RosterHandleSubscribe ==
    ASSUME CoreInv, RosterInv, NEW s \in Sockets, NEW user \in JoinAs[s], HandleSubscribe(s, user)
    PROVE  RosterInv'
<1>1. /\ UNCHANGED <<cache, expired, diff, tainted, queue, view, kicked, subscribed>>
      /\ pc[s] = "idle" /\ pc' = [pc EXCEPT ![s] = "sub_lock"]
      /\ obj' = [obj EXCEPT ![s] = chan']
      /\ join' = [join EXCEPT ![s] = [NoJoin EXCEPT !.user = user]]
      /\ entryLock = None
  BY Zenon DEF HandleSubscribe, Goto
<1>2. /\ pc \in [Tasks -> Labels] /\ obj \in [Tasks -> Objects \union {None}] /\ s \in Tasks
      /\ join \in [Sockets -> Joins]
  BY Zenon, Apart DEF CoreInv, TypeOK
<1>3. pc[s] \notin Speaking /\ pc'[s] \notin Speaking /\ pc'[s] # "announce" /\ pc'[s] # "subscribe"
  BY <1>1, <1>2 DEF Speaking
<1>4. /\ \A t \in Tasks \ {s} : pc'[t] = pc[t] /\ obj'[t] = obj[t]
      /\ \A t \in Sockets \ {s} : join'[t] = join[t]
  BY Zenon, <1>1, <1>2
<1>5. CASE UNCHANGED <<chan, chanVars>>
  <2>1. InScope(s)' => InScope(s)
    BY Zenon, <1>1, <1>3 DEF InScope
  <2>2. \A u \in Users : Told(s, u)' <=> Told(s, u)
    BY Zenon, <1>1 DEF Told
  <2>3. Aside(s)
    BY Zenon, <1>1, <1>3, <1>4, <1>5, <2>1, <2>2 DEF Aside
  <2> QED BY Zenon, <2>3, AsideFrame
<1>6. CASE chan = None /\ \E o \in Objects : Allocate(o)
  <2>1. \A t \in Sockets : pc'[t] # "subscribe" /\ pc'[t] # "announce"
    <3>1. \A t \in Sockets : pc[t] # "subscribe" /\ pc[t] # "announce"
      BY Zenon, <1>1, NobodyReads
    <3> QED BY Zenon, <1>3, <1>4, <3>1, Apart
  <2>2. ASSUME NEW t \in Sockets PROVE ~InScope(t)'
    <3>1. t \notin subscribed
      BY Zenon, <1>6 DEF CoreInv, MemberInv
    <3> QED BY Zenon, <1>1, <2>1, <3>1 DEF InScope
  <2>3. ~AtDiff'
    <3>1. chan' # obj["bus"]
      BY Zenon, <1>6, Apart DEF Allocate, Unreferenced
    <3>2. obj'["bus"] = obj["bus"]
      BY Zenon, <1>4, Apart
    <3> QED BY Zenon, <3>1, <3>2 DEF AtDiff
  <2> QED BY Zenon, <2>1, <2>2, <2>3, RosterOfNobody
<1> QED BY Zenon, <1>5, <1>6 DEF HandleSubscribe

\* remove_if drops the channel only when there is nobody in it.
LEMMA RosterReap ==
    ASSUME CoreInv, RosterInv, NEW s \in Sockets, Reap(s)
    PROVE  RosterInv'
<1>1. /\ UNCHANGED <<members, refs, cache, expired, diff, join, tainted, queue, view, kicked, subscribed>>
      /\ pc[s] = "reap" /\ obj' = [obj EXCEPT ![s] = None]
      /\ pc' = [pc EXCEPT ![s] = IF s \in closing THEN "close" ELSE "idle"]
      /\ entryLock = None
      /\ \/ chan' = chan
         \/ chan # None /\ IsEmpty(chan) /\ chan' = None
  BY Zenon DEF Reap, Goto, Release, Tidied
<1>2. /\ pc \in [Tasks -> Labels] /\ obj \in [Tasks -> Objects \union {None}] /\ s \in Tasks
  BY Zenon, Apart DEF CoreInv, TypeOK
<1>3. pc[s] \notin Speaking /\ pc'[s] \notin Speaking /\ pc'[s] # "announce" /\ pc'[s] # "subscribe"
  BY <1>1, <1>2 DEF Speaking
<1>4. \A t \in Tasks \ {s} : pc'[t] = pc[t] /\ obj'[t] = obj[t]
  <2>1. \A t \in Tasks \ {s} : pc'[t] = pc[t]
    BY <1>1, <1>2
  <2>2. \A t \in Tasks \ {s} : obj'[t] = obj[t]
    BY Zenon, <1>1, <1>2
  <2> QED BY Zenon, <2>1, <2>2
<1>5. CASE chan' = chan
  <2>1. InScope(s)' => InScope(s)
    BY Zenon, <1>1, <1>3 DEF InScope
  <2>2. \A u \in Users : Told(s, u)' <=> Told(s, u)
    BY Zenon, <1>1 DEF Told
  <2>3. Aside(s)
    BY Zenon, <1>1, <1>3, <1>4, <1>5, <2>1, <2>2 DEF Aside
  <2> QED BY Zenon, <2>3, AsideFrame
<1>6. CASE chan # None /\ IsEmpty(chan) /\ chan' = None
  <2>1. \A t \in Sockets : pc'[t] # "subscribe" /\ pc'[t] # "announce"
    <3>1. \A t \in Sockets : pc[t] # "subscribe" /\ pc[t] # "announce"
      BY Zenon, <1>1, NobodyReads
    <3> QED BY Zenon, <1>3, <1>4, <3>1, Apart
  <2>2. ASSUME NEW t \in Sockets PROVE ~InScope(t)'
    <3>1. t \notin subscribed
      BY Zenon, <1>6 DEF CoreInv, MemberInv, IsEmpty
    <3> QED BY Zenon, <1>1, <2>1, <3>1 DEF InScope
  <2>3. ~AtDiff'
    <3>1. pc'["bus"] = pc["bus"] /\ obj'["bus"] = obj["bus"]
      BY Zenon, <1>4, Apart
    <3>2. pc["bus"] = "diff" => obj["bus"] \in Objects
      BY DEF CoreInv, BackgroundInv
    <3> QED BY Zenon, <1>6, <3>1, <3>2, Apart DEF AtDiff
  <2> QED BY Zenon, <2>1, <2>2, <2>3, RosterOfNobody
<1> QED BY Zenon, <1>1, <1>5, <1>6

\* Inside the transition lock of the map's channel, and outside of its
\* announcements, a joiner finds every client up to date.
LEMMA UpToDate ==
    ASSUME CoreInv, RosterInv, NEW s \in Sockets, pc[s] \in {"admit", "subscribe"}
    PROVE  /\ chan \in Objects /\ obj[s] = chan /\ join[s].user \in Users
           /\ ~AtDiff
           /\ \A t \in Sockets : t # s => pc[t] \notin {"admit", "subscribe", "announce"}
           /\ \A t \in Sockets : pc[t] = "announce_leave" => obj[t] # chan
           /\ \A t \in Sockets, u \in Users : InScope(t) =>
                 /\ Present(u) \/ Kept(u) => Told(t, u)
                 /\ Told(t, u) /\ ~Excused(u) => Present(u)
<1>1. pc[s] \in Joining /\ pc[s] \in Critical /\ pc[s] # "announce" /\ pc[s] # "announce_leave"
  BY DEF Joining, Critical
<1>2. chan \in Objects /\ obj[s] = chan /\ join[s].user \in Users
  BY Zenon, <1>1 DEF CoreInv, SocketInv, TypeOK
<1>3. s \in Tasks /\ s # "bus"
  BY Zenon, Apart
<1>4. /\ ~AtDiff
      /\ \A t \in Sockets : t # s => pc[t] \notin {"admit", "subscribe", "announce"}
      /\ \A t \in Sockets : t # s /\ pc[t] \in {"unsubscribe", "announce_leave"} => obj[t] # chan
  BY Zenon, <1>1, <1>2, <1>3, Alone
<1>5. \A t \in Sockets : pc[t] # "announce" /\ (pc[t] = "announce_leave" => obj[t] # chan)
  BY <1>1, <1>4
<1>6. \A t \in Sockets, u \in Users : ~Coming(t, u)
  BY Zenon, <1>4, <1>5 DEF Coming
<1>7. \A u \in Users : ~Going(u)
  BY Zenon, <1>4, <1>5 DEF Going
<1>8. ASSUME NEW t \in Sockets, NEW u \in Users, InScope(t)
      PROVE  /\ Present(u) \/ Kept(u) => Told(t, u)
             /\ Told(t, u) /\ ~Excused(u) => Present(u)
  <2>1. Up(t, u) /\ Down(t, u)
    BY Zenon, <1>8 DEF RosterInv, StreamInv
  <2> QED BY Zenon, <1>6, <1>7, <2>1 DEF Up, Down
<1> QED BY Zenon, <1>2, <1>4, <1>5, <1>8

\* `admit` reads the peers' rosters.
LEMMA RosterAdmit ==
    ASSUME CoreInv, RosterInv, NEW s \in Sockets, Admit(s)
    PROVE  RosterInv'
<1>1. /\ UNCHANGED <<chan, members, refs, cache, expired, diff, obj, queue, view, subscribed, kicked>>
      /\ pc[s] = "admit" /\ pc' = [pc EXCEPT ![s] = "subscribe"]
      /\ join' = [join EXCEPT ![s] = [join[s] EXCEPT !.remote = RemoteUsers,
                                                     !.present = join[s].user \in RemoteUsers]]
      /\ tainted' = IF IsMember(obj[s], s) THEN tainted
                    ELSE IF queue[s] = <<>> THEN tainted \ {s}
                    ELSE tainted \union {s}
  BY Zenon DEF Admit, Goto
<1>2. /\ pc \in [Tasks -> Labels] /\ join \in [Sockets -> Joins] /\ s \in Tasks
  BY Zenon, Apart DEF CoreInv, TypeOK
<1>3. /\ chan \in Objects /\ obj[s] = chan /\ join[s].user \in Users
      /\ \A t \in Sockets : t # s => pc[t] \notin {"admit", "subscribe", "announce"}
      /\ ~AtDiff
  BY <1>1, UpToDate
<1>4. ASSUME NEW t \in Sockets, NEW u \in Users, InScope(t)
      PROVE  /\ Present(u) \/ Kept(u) => Told(t, u)
             /\ Told(t, u) /\ ~Excused(u) => Present(u)
  <2>1. pc[s] \in {"admit", "subscribe"}
    BY <1>1
  <2> QED BY Zenon, <1>4, <2>1, UpToDate
<1>5. /\ \A t \in Tasks \ {s} : pc'[t] = pc[t]
      /\ pc'[s] = "subscribe"
  BY Zenon, <1>1, <1>2
<1>6. /\ join'[s].remote = RemoteUsers /\ join'[s].user = join[s].user
      /\ join'[s].present <=> join[s].user \in RemoteUsers
  BY <1>1, <1>2 DEF Joins
<1>7. /\ RemoteUsers' = RemoteUsers /\ LocalUsers(chan)' = LocalUsers(chan)
  BY Zenon, <1>1 DEF RemoteUsers, LocalUsers
<1>8. \A u : (Present(u)' <=> Present(u)) /\ (Excused(u)' <=> Excused(u))
  <2>1. pc'["gc"] = pc["gc"] /\ obj' = obj
    BY Zenon, <1>1, <1>5, Apart
  <2>2. \A u : Excused(u)' <=> Excused(u)
    BY Zenon, <1>1, <2>1 DEF Excused
  <2>3. \A u : Present(u)' <=> Present(u)
    BY Zenon, <1>7 DEF Present
  <2> QED BY Zenon, <2>2, <2>3
<1>9. \A t \in Sockets : t # s => pc'[t] # "subscribe" /\ pc'[t] # "announce"
  <2>1. \A t \in Sockets : t # s => pc'[t] = pc[t]
    BY Zenon, <1>5, Apart
  <2> QED BY <1>3, <2>1
<1>10. \A u : Kept(u)' => Present(u)
  <2>1. \A u : Kept(u)' => u \in RemoteUsers
    BY Zenon, <1>6, <1>9 DEF Kept
  <2> QED BY Zenon, <2>1 DEF Present
<1>11. ~AtDiff'
  <2>1. pc'["bus"] = pc["bus"]
    BY Zenon, <1>5, Apart
  <2> QED BY Zenon, <1>1, <1>3, <2>1 DEF AtDiff
<1>12. ASSUME NEW t \in Sockets, InScope(t)' PROVE InScope(t)
  <2>1. t \in subscribed /\ t \notin kicked /\ t \notin tainted'
    BY <1>1, <1>5, <1>9, <1>12 DEF InScope
  <2>2. t # s \/ IsMember(obj[s], s)
    BY Zenon, <1>3, <2>1 DEF CoreInv, MemberInv
  <2>3. t \notin tainted
    BY Zenon, <1>1, <2>1, <2>2
  <2> QED BY Zenon, <2>1, <2>3 DEF InScope
<1>13. StreamInv'
  <2> SUFFICES ASSUME NEW t \in Sockets, NEW u \in Users, InScope(t)' PROVE Up(t, u)' /\ Down(t, u)'
    BY Zenon DEF StreamInv
  <2>1. Told(t, u)' <=> Told(t, u)
    BY Zenon, <1>1 DEF Told
  <2>2. /\ Present(u) => Told(t, u)
        /\ Told(t, u) /\ ~Excused(u) => Present(u)
    BY Zenon, <1>4, <1>12
  <2>3. (Present(u)' <=> Present(u)) /\ (Excused(u)' <=> Excused(u)) /\ (Kept(u)' => Present(u))
    BY Zenon, <1>8, <1>10
  <2> QED BY Zenon, <2>1, <2>2, <2>3 DEF Up, Down
<1>14. ReadInv'
  <2> SUFFICES ReadOk(s)'
    BY Zenon, <1>9 DEF ReadInv
  <2>1. join'[s].present <=> join'[s].user \in join'[s].remote
    BY Zenon, <1>6
  <2>2. ASSUME s \notin tainted' PROVE IsMember(chan, s)' \/ queue'[s] = <<>>
    <3>1. IsMember(chan, s)' <=> IsMember(obj[s], s)
      BY Zenon, <1>1, <1>3 DEF IsMember
    <3> QED BY Zenon, <1>1, <2>2, <3>1
  <2> QED BY Zenon, <1>6, <1>7, <2>1, <2>2 DEF ReadOk
<1>15. DiffInv'
  BY Zenon, <1>11 DEF DiffInv
<1> QED BY Zenon, <1>13, <1>14, <1>15 DEF RosterInv

\* Channel::subscribe and the roster for the reply: the joiner is sent the
\* channel's roster, and what the others have yet to hear is what `on_subscribed`
\* is about to tell them.
LEMMA RosterSubscribe ==
    ASSUME HandlerInv, HandlerInv', RosterInv, NEW s \in Sockets, Subscribe(s)
    PROVE  RosterInv'
<1> DEFINE user == join[s].user
           isNew == ~IsMember(obj[s], s)
<1>0. CoreInv /\ CoreInv'
  BY Zenon DEF HandlerInv
<1>1. /\ UNCHANGED <<chan, cache, expired, diff, obj, queue, subscribed, kicked, tainted>>
      /\ pc[s] = "subscribe" /\ pc' = [pc EXCEPT ![s] = "announce"]
      /\ members' = IF isNew THEN [members EXCEPT ![obj[s]][s] = user] ELSE members
      /\ refs' = IF isNew THEN CountUser(obj[s], user) ELSE refs
      /\ join' = [join EXCEPT ![s] = [join[s] EXCEPT !.changed = isNew /\ refs[obj[s]][user] = 0]]
      /\ view' = [view EXCEPT ![s] = {v \in Users : \E t \in Sockets : members'[obj[s]][t] = v}
                                     \union join[s].remote]
  BY Zenon DEF Subscribe, Goto
<1>2. /\ pc \in [Tasks -> Labels] /\ join \in [Sockets -> Joins] /\ s \in Tasks
      /\ refs \in [Objects -> [Users -> Nat]] /\ view \in [Sockets -> SUBSET Users]
  BY Zenon, <1>0, Apart DEF CoreInv, TypeOK
<1>3. /\ chan \in Objects /\ obj[s] = chan /\ user \in Users
      /\ \A t \in Sockets : t # s => pc[t] \notin {"admit", "subscribe", "announce"}
      /\ \A t \in Sockets : pc[t] = "announce_leave" => obj[t] # chan
      /\ ~AtDiff
  BY <1>0, <1>1, UpToDate
<1>4. ASSUME NEW t \in Sockets, NEW u \in Users, InScope(t)
      PROVE  /\ Present(u) \/ Kept(u) => Told(t, u)
             /\ Told(t, u) /\ ~Excused(u) => Present(u)
  <2>1. pc[s] \in {"admit", "subscribe"}
    BY <1>1
  <2> QED BY Zenon, <1>0, <1>4, <2>1, UpToDate
<1>5. /\ \A t \in Tasks \ {s} : pc'[t] = pc[t]
      /\ pc'[s] = "announce"
  BY Zenon, <1>1, <1>2
<1>6. /\ join'[s].remote = join[s].remote /\ join'[s].user = user /\ join'[s].present = join[s].present
      /\ join'[s].changed <=> isNew /\ refs[obj[s]][user] = 0
  BY <1>1, <1>2 DEF Joins
<1>7. \A t \in Sockets : t # s => pc'[t] # "subscribe" /\ pc'[t] # "announce"
  <2>1. \A t \in Sockets : t # s => pc'[t] = pc[t]
    BY Zenon, <1>5, Apart
  <2> QED BY <1>3, <2>1
<1>8. pc'["bus"] = pc["bus"] /\ pc'["gc"] = pc["gc"]
  BY Zenon, <1>5, Apart
<1>9. ~AtDiff'
  BY Zenon, <1>1, <1>3, <1>8 DEF AtDiff
<1>10. \A u : (Excused(u)' <=> Excused(u)) /\ ~Kept(u)'
  <2>1. \A u : Excused(u)' <=> Excused(u)
    BY Zenon, <1>1, <1>8 DEF Excused
  <2>2. pc'[s] # "subscribe"
    BY <1>5
  <2> QED BY Zenon, <1>7, <2>1, <2>2 DEF Kept
<1>11. RemoteUsers' = RemoteUsers
  BY Zenon, <1>1 DEF RemoteUsers
<1>12. /\ \A u \in Users : u # user => (u \in LocalUsers(chan)' <=> u \in LocalUsers(chan))
       /\ user \in LocalUsers(chan) => user \in LocalUsers(chan)'
       /\ ~join'[s].changed => (user \in LocalUsers(chan)' => user \in LocalUsers(chan))
  <2>1. CASE isNew
    <3>1. refs' = [refs EXCEPT ![chan][user] = @ + 1]
      BY Zenon, <1>1, <1>3, <2>1 DEF CountUser
    <3>2. \A u \in Users : u # user => refs'[chan][u] = refs[chan][u]
      BY <1>2, <1>3, <3>1
    <3>3. refs[chan][user] \in Nat /\ refs'[chan][user] = refs[chan][user] + 1
      BY <1>2, <1>3, <3>1
    <3>4. ~join'[s].changed => refs[chan][user] # 0
      BY Zenon, <1>3, <1>6, <2>1
    <3>5. ~join'[s].changed => user \in LocalUsers(chan)
      BY <1>3, <3>3, <3>4 DEF LocalUsers
    <3>6. user \in LocalUsers(chan) => user \in LocalUsers(chan)'
      BY <1>1, <1>3, <3>3 DEF LocalUsers
    <3> QED BY Zenon, <1>1, <3>2, <3>5, <3>6 DEF LocalUsers
  <2>2. CASE ~isNew
    <3>1. LocalUsers(chan)' = LocalUsers(chan)
      BY Zenon, <1>1, <2>2 DEF LocalUsers
    <3> QED BY Zenon, <3>1
  <2> QED BY Zenon, <2>1, <2>2
<1>13. \A u \in Users : u \in view'[s] <=> u \in LocalUsers(chan)' \/ u \in join[s].remote
  <2>1. \A u \in Users : u \in LocalUsers(chan)' <=> \E t \in Sockets : members'[chan][t] = u
    <3>1. LocalMatch'
      BY LocalIsMember, PTL
    <3> QED BY Zenon, <1>1, <1>3, <3>1 DEF LocalMatch
  <2>2. view'[s] = {v \in Users : \E t \in Sockets : members'[chan][t] = v} \union join[s].remote
    BY Zenon, <1>1, <1>2, <1>3
  <2> QED BY Zenon, <2>1, <2>2
<1>14. ASSUME NEW t \in Sockets, t # s, InScope(t)', NEW u \in Users
       PROVE  Up(t, u)' /\ Down(t, u)'
  <2>1. InScope(t)
    BY Zenon, <1>1, <1>7, <1>14 DEF InScope
  <2>2. Told(t, u)' <=> Told(t, u)
    <3>1. view'[t] = view[t]
      BY Zenon, <1>1, <1>2, <1>14
    <3> QED BY Zenon, <1>1, <3>1 DEF Told
  <2>3. /\ Present(u) \/ Kept(u) => Told(t, u)
        /\ Told(t, u) /\ ~Excused(u) => Present(u)
    BY Zenon, <1>4, <2>1
  <2>4. Present(u) => Present(u)'
    BY Zenon, <1>11, <1>12 DEF Present
  <2>5. Down(t, u)'
    BY Zenon, <1>10, <2>2, <2>3, <2>4 DEF Down
  <2>6. ASSUME Present(u)', ~Coming(t, u)' PROVE Present(u) \/ Kept(u)
    <3>1. CASE u # user \/ ~join'[s].changed
      BY Zenon, <1>11, <1>12, <2>6, <3>1 DEF Present
    <3>2. CASE u = user /\ join'[s].changed
      <4>1. join'[s].present
        BY Zenon, <1>5, <1>6, <1>14, <2>6, <3>2 DEF Coming
      <4>2. user \in join[s].remote
        BY Zenon, <1>1, <1>6, <4>1 DEF RosterInv, ReadInv, ReadOk
      <4> QED BY Zenon, <1>1, <3>2, <4>2 DEF Kept
    <3> QED BY Zenon, <3>1, <3>2
  <2>7. Up(t, u)'
    BY Zenon, <1>10, <2>2, <2>3, <2>6 DEF Up
  <2> QED BY Zenon, <2>5, <2>7
<1>15. ASSUME InScope(s)', NEW u \in Users
       PROVE  Up(s, u)' /\ Down(s, u)'
  <2>1. s \notin kicked /\ s \notin tainted
    BY Zenon, <1>1, <1>15 DEF InScope
  <2>2. /\ u \in RemoteUsers => u \in join[s].remote
        /\ u \in join[s].remote => u \in RemoteUsers \/ Excused(u)
        /\ IsMember(chan, s) \/ queue[s] = <<>>
    BY Zenon, <1>1, <2>1 DEF RosterInv, ReadInv, ReadOk
  <2>3. /\ Present(u)' => u \in view'[s]
        /\ u \in view'[s] /\ ~Excused(u)' => Present(u)'
    BY Zenon, <1>10, <1>11, <1>13, <2>2 DEF Present
  <2>4. (Told(s, u)' <=> u \in view'[s]) \/ (IsMember(chan, s) /\ (Told(s, u)' <=> Told(s, u)))
    <3>1. PICK q, v, w : q = queue[s] /\ v = view[s] /\ w = view'[s]
      OBVIOUS
    <3>2. (Told(s, u)' <=> Knows(q, w, u)) /\ (Told(s, u) <=> Knows(q, v, u))
      BY Zenon, <1>1, <3>1, ToldIsKnown
    <3>3. CASE queue[s] = <<>>
      BY Zenon, <3>1, <3>2, <3>3, KnowsEmpty
    <3>4. CASE IsMember(chan, s)
      BY Zenon, <3>1, <3>2, <3>4, KnowsReplaced
    <3> QED BY Zenon, <2>2, <3>3, <3>4
  <2>5. CASE Told(s, u)' <=> u \in view'[s]
    BY Zenon, <1>10, <2>3, <2>5 DEF Up, Down
  <2>6. CASE IsMember(chan, s) /\ (Told(s, u)' <=> Told(s, u))
    <3>1. InScope(s)
      <4>1. s \in subscribed
        BY <1>1, <1>3, <2>6, <1>0, Apart DEF CoreInv, MemberInv
      <4> QED BY Zenon, <2>1, <4>1 DEF InScope
    <3>2. Present(u)' <=> Present(u)
      <4>1. LocalUsers(chan)' = LocalUsers(chan)
        BY Zenon, <1>1, <1>3, <2>6 DEF LocalUsers
      <4> QED BY Zenon, <1>11, <4>1 DEF Present
    <3>3. /\ Present(u) \/ Kept(u) => Told(s, u)
          /\ Told(s, u) /\ ~Excused(u) => Present(u)
      BY Zenon, <1>4, <3>1
    <3> QED BY Zenon, <1>10, <2>6, <3>2, <3>3 DEF Up, Down
  <2> QED BY Zenon, <2>4, <2>5, <2>6
<1>16. StreamInv'
  BY Zenon, <1>14, <1>15 DEF StreamInv
<1>17. ReadInv'
  <2>1. pc'[s] # "subscribe"
    BY <1>5
  <2> QED BY Zenon, <1>7, <2>1 DEF ReadInv
<1>18. DiffInv'
  BY Zenon, <1>9 DEF DiffInv
<1> QED BY Zenon, <1>16, <1>17, <1>18 DEF RosterInv

\* A user who is about to be announced is here, one who is about to be
\* announced as gone is not.
LEMMA PendingIsRight ==
    ASSUME CoreInv, LocalMatch, NEW s \in Sockets, NEW u \in Users, chan \in Objects
    PROVE  /\ Arriving(s, u) => u \in LocalUsers(chan)
           /\ Departing(s, u) /\ obj[s] = chan => u \notin LocalUsers(chan)
<1>1. u \in LocalUsers(chan) <=> \E t \in Sockets : members[chan][t] = u
  BY Zenon DEF LocalMatch
<1>2. /\ Arriving(s, u) => \A t \in Sockets : members[chan][t] = u <=> t = s
      /\ Departing(s, u) => \A t \in Sockets : members[obj[s]][t] # u
  BY Zenon DEF CoreInv, PendingInv
<1> QED BY Zenon, <1>1, <1>2

\* `on_subscribed`: the others are told of a user who was not there, and every
\* roster is the channel's again.
LEMMA RosterAnnounceJoin ==
    ASSUME HandlerInv, RosterInv, NEW s \in Sockets, AnnounceJoin(s)
    PROVE  RosterInv'
<1> PICK user : user = join[s].user
  OBVIOUS
<1> DEFINE tells == join[s].changed /\ ~join[s].present
<1>0. CoreInv /\ LocalMatch
  BY Zenon, LocalIsMember DEF HandlerInv
<1>1. /\ UNCHANGED <<chan, members, refs, cache, expired, diff, view, tainted>>
      /\ pc[s] = "announce" /\ pc' = [pc EXCEPT ![s] = "idle"]
      /\ obj' = [obj EXCEPT ![s] = None] /\ subscribed' = subscribed \union {s}
      /\ tells => Broadcast(obj[s], Added(user), s)
      /\ ~tells => UNCHANGED <<queue, kicked>>
  BY Zenon DEF AnnounceJoin, Goto, Release
<1>2. /\ pc \in [Tasks -> Labels] /\ obj \in [Tasks -> Objects \union {None}] /\ s \in Tasks /\ s # "bus"
  BY Zenon, <1>0, Apart DEF CoreInv, TypeOK
<1>3. /\ chan \in Objects /\ obj[s] = chan /\ user \in Users /\ pc[s] \in Critical
  <2>1. pc[s] \in Joining /\ pc[s] \in Critical
    BY <1>1 DEF Joining, Critical
  <2> QED BY Zenon, <1>0, <2>1 DEF CoreInv, SocketInv, TypeOK
<1>4. /\ ~AtDiff
      /\ \A t \in Sockets : t # s => pc[t] \notin {"admit", "subscribe", "announce"}
  BY Zenon, <1>0, <1>2, <1>3, Alone
<1>5. /\ \A t \in Tasks \ {s} : pc'[t] = pc[t] /\ obj'[t] = obj[t]
      /\ pc'[s] = "idle"
  BY Zenon, <1>1, <1>2
<1>6. \A t \in Sockets : pc'[t] # "subscribe" /\ pc'[t] # "announce"
  <2>1. \A t \in Sockets : t # s => pc'[t] = pc[t]
    BY Zenon, <1>5, Apart
  <2> QED BY <1>4, <1>5, <2>1
<1>7. /\ pc'["bus"] = pc["bus"] /\ pc'["gc"] = pc["gc"]
      /\ obj'["bus"] = obj["bus"] /\ obj'["gc"] = obj["gc"]
  BY Zenon, <1>5, Apart
<1>8. ~AtDiff'
  BY Zenon, <1>1, <1>4, <1>7 DEF AtDiff
<1>9. \A u : /\ Excused(u)' <=> Excused(u)
             /\ ~Kept(u)'
             /\ Present(u)' <=> Present(u)
  <2>1. \A u : Excused(u)' <=> Excused(u)
    BY Zenon, <1>1, <1>7 DEF Excused
  <2>2. RemoteUsers' = RemoteUsers /\ LocalUsers(chan)' = LocalUsers(chan)
    BY Zenon, <1>1 DEF RemoteUsers, LocalUsers
  <2>3. \A u : Present(u)' <=> Present(u)
    BY Zenon, <2>2 DEF Present
  <2> QED BY Zenon, <1>6, <2>1, <2>3 DEF Kept
<1>10. /\ \A u : ~Coming(s, u)
       /\ \A t, u : Coming(t, u) => tells /\ u = user
  BY <1>4 DEF Coming
<1>11. \A u : Going(u) => Going(u)'
  <2>1. \A t \in Sockets : pc[t] = "announce_leave" =>
             pc'[t] = pc[t] /\ obj'[t] = obj[t] /\ join'[t] = join[t]
    <3>1. join \in [Sockets -> Joins]
      BY Zenon, <1>0 DEF CoreInv, TypeOK
    <3>2. \A t \in Sockets : t # s => pc'[t] = pc[t] /\ obj'[t] = obj[t] /\ join'[t] = join[t]
      BY Zenon, <1>5, <3>1, Apart DEF AnnounceJoin
    <3>3. pc[s] # "announce_leave"
      BY <1>1
    <3> QED BY Zenon, <3>2, <3>3
  <2> QED BY Zenon, <1>1, <1>4, <2>1 DEF Going
<1>12. ASSUME NEW t \in Sockets, InScope(t)'
       PROVE  InScope(t) /\ IsMember(chan, t) /\ t \notin kicked'
  <2>1. t \in kicked => t \in kicked'
    <3>1. CASE tells
      <4>1. Added(user) \in Frames
        BY <1>3 DEF Added, Frames
      <4> QED BY Zenon, <1>0, <1>1, <3>1, <4>1, BroadcastTells
    <3>2. CASE ~tells
      BY Zenon, <1>1, <3>2
    <3> QED BY Zenon, <3>1, <3>2
  <2>2. InScope(t)
    <3>1. t \notin kicked /\ t \notin tainted /\ (t \in subscribed \/ t = s)
      BY Zenon, <1>1, <1>6, <1>12, <2>1 DEF InScope
    <3> QED BY Zenon, <1>1, <3>1 DEF InScope
  <2>3. t \notin kicked'
    BY Zenon, <1>12 DEF InScope
  <2> QED BY Zenon, <1>0, <2>2, <2>3, ScopeMember
<1>13. ASSUME NEW t \in Sockets, InScope(t)', NEW u \in Users
       PROVE  Up(t, u)' /\ Down(t, u)'
  <2>1. Up(t, u) /\ Down(t, u)
    BY Zenon, <1>12, <1>13 DEF RosterInv, StreamInv
  <2>2. CASE (Told(t, u)' <=> Told(t, u)) /\ ~Coming(t, u)
    BY Zenon, <1>9, <1>11, <2>1, <2>2 DEF Up, Down
  <2>3. CASE Told(t, u)' /\ Present(u)
    BY Zenon, <1>9, <2>3 DEF Up, Down
  <2>4. CASE ~tells
    <3>1. Told(t, u)' <=> Told(t, u)
      BY Zenon, <1>1, <2>4 DEF Told
    <3> QED BY Zenon, <1>10, <2>2, <2>4, <3>1
  <2>5. CASE tells
    <3>1. Added(user) \in Frames /\ Added(user).user = user /\ Added(user).kind = "added"
      BY <1>3 DEF Added, Frames
    <3>2. Broadcast(chan, Added(user), s) /\ view' = view
      BY Zenon, <1>1, <1>3, <2>5
    <3>3. CASE t = s
      <4>1. Told(t, u)' <=> Told(t, u)
        BY Zenon, <1>0, <3>1, <3>2, <3>3, BroadcastTells
      <4> QED BY Zenon, <1>10, <2>2, <3>3, <4>1
    <3>4. CASE t # s /\ u # user
      <4>1. Told(t, u)' <=> Told(t, u)
        BY Zenon, <1>0, <1>12, <1>13, <3>1, <3>2, <3>4, BroadcastTells
      <4>2. ~Coming(t, u)
        BY Zenon, <1>10, <3>4
      <4> QED BY Zenon, <2>2, <4>1, <4>2
    <3>5. CASE t # s /\ u = user
      <4>1. Told(t, u)'
        <5>1. IsMember(chan, t) /\ t \notin kicked' /\ Added(user).user = u
          BY Zenon, <1>12, <1>13, <3>1, <3>5
        <5>2. Told(t, u)' <=> Added(user).kind = "added"
          BY SMTT(30), <1>0, <3>1, <3>2, <3>5, <5>1, BroadcastTells
        <5> QED BY Zenon, <3>1, <5>2
      <4>2. Present(u)
        <5>1. Arriving(s, user)
          BY Zenon, <1>1, <2>5 DEF Arriving
        <5>2. user \in LocalUsers(chan)
          BY Zenon, <1>0, <1>3, <5>1, PendingIsRight
        <5> QED BY Zenon, <3>5, <5>2 DEF Present
      <4> QED BY Zenon, <2>3, <4>1, <4>2
    <3> QED BY Zenon, <3>3, <3>4, <3>5
  <2> QED BY Zenon, <2>4, <2>5
<1>14. StreamInv'
  BY Zenon, <1>13 DEF StreamInv
<1>15. ReadInv'
  BY Zenon, <1>6 DEF ReadInv
<1>16. DiffInv'
  BY Zenon, <1>8 DEF DiffInv
<1> QED BY Zenon, <1>14, <1>15, <1>16 DEF RosterInv

\* Channel::unsubscribe: a user who left with the last socket is the one that
\* `on_unsubscribed` is about to tell of.
LEMMA RosterUnsubscribe ==
    ASSUME HandlerInv, RosterInv, NEW s \in Sockets, Unsubscribe(s)
    PROVE  RosterInv'
<1> PICK o : o = obj[s]
  OBVIOUS
<1> PICK user : user = members[o][s]
  OBVIOUS
<1>0. CoreInv
  BY Zenon DEF HandlerInv
<1>1. /\ UNCHANGED <<chan, cache, expired, diff, obj, queue, view, subscribed, kicked>>
      /\ pc[s] = "unsubscribe" /\ pc' = [pc EXCEPT ![s] = "announce_leave"]
      /\ tainted' = tainted \ {s}
      /\ IsMember(o, s) =>
            /\ refs' = [refs EXCEPT ![o][user] = @ - 1]
            /\ members' = [members EXCEPT ![o][s] = None]
            /\ join' = [join EXCEPT ![s] = [join[s] EXCEPT !.user = user, !.changed = refs[o][user] = 1]]
      /\ ~IsMember(o, s) => UNCHANGED <<members, refs, join>>
  BY Zenon DEF Unsubscribe, Goto
<1>2. /\ pc \in [Tasks -> Labels] /\ s \in Tasks /\ s # "bus" /\ join \in [Sockets -> Joins]
      /\ refs \in [Objects -> [Users -> Nat]] /\ members \in [Objects -> [Sockets -> Users \union {None}]]
  BY Zenon, <1>0, Apart DEF CoreInv, TypeOK
<1>3. o \in Objects /\ pc[s] \in Critical
  BY <1>0, <1>1 DEF CoreInv, SocketInv, Leaving, Critical
<1>4. /\ \A t \in Tasks \ {s} : pc'[t] = pc[t]
      /\ pc'[s] = "announce_leave"
  BY Zenon, <1>1, <1>2
<1>5. \A t \in Sockets \ {s} : pc'[t] = pc[t] /\ join'[t] = join[t]
  <2>1. \A t \in Sockets \ {s} : join'[t] = join[t]
    BY Zenon, <1>1, <1>2
  <2> QED BY Zenon, <1>4, <2>1, Apart
<1>6. /\ pc'["bus"] = pc["bus"] /\ pc'["gc"] = pc["gc"] /\ obj' = obj
  BY Zenon, <1>1, <1>4, Apart
<1>7. /\ pc[s] # "announce" /\ pc[s] # "subscribe" /\ pc[s] # "announce_leave"
      /\ pc'[s] # "announce" /\ pc'[s] # "subscribe"
  BY <1>1, <1>4
<1>8. /\ AtDiff' <=> AtDiff
      /\ \A u : Excused(u)' <=> Excused(u)
      /\ \A u : Kept(u)' <=> Kept(u)
      /\ RemoteUsers' = RemoteUsers
  <2>1. AtDiff' <=> AtDiff
    BY Zenon, <1>1, <1>6 DEF AtDiff
  <2>2. \A u : Excused(u)' <=> Excused(u)
    BY Zenon, <1>1, <1>6 DEF Excused
  <2>3. \A u : Kept(u)' <=> Kept(u)
    BY Zenon, <1>5, <1>7 DEF Kept
  <2>4. RemoteUsers' = RemoteUsers
    <3>1. cache' = cache
      BY Zenon, <1>1
    <3> QED BY Zenon, <3>1 DEF RemoteUsers
  <2> QED BY Zenon, <2>1, <2>2, <2>3, <2>4
<1>9. \A t, u : Coming(t, u) => Coming(t, u)'
  BY Zenon, <1>1, <1>5, <1>7, <1>8 DEF Coming
<1>10. \A u : Going(u) => Going(u)'
  <2>1. \A t \in Sockets : pc[t] = "announce_leave" => pc'[t] = pc[t] /\ join'[t] = join[t]
    BY Zenon, <1>5, <1>7
  <2> QED BY Zenon, <1>1, <1>8, <2>1 DEF Going
<1>11. ASSUME NEW t \in Sockets, InScope(t)' PROVE InScope(t)
  <2>1. s \notin subscribed
    BY <1>0, <1>1 DEF CoreInv, MemberInv, Joining
  <2>2. t # s
    BY Zenon, <1>1, <1>7, <1>11, <2>1 DEF InScope
  <2> QED BY Zenon, <1>1, <1>5, <1>11, <2>2 DEF InScope
<1>12. \A t \in Sockets, u \in Users : Told(t, u)' <=> Told(t, u)
  <2>1. queue' = queue /\ view' = view
    BY Zenon, <1>1
  <2> QED BY Zenon, <2>1 DEF Told
<1>13. /\ \A u \in Users : Present(u)' => Present(u)
       /\ \A u \in Users : Present(u) => Present(u)' \/ Going(u)'
  <2>1. CASE ~IsMember(o, s)
    <3>1. LocalUsers(chan)' = LocalUsers(chan)
      BY Zenon, <1>1, <2>1 DEF LocalUsers
    <3> QED BY Zenon, <1>8, <3>1 DEF Present
  <2>2. CASE IsMember(o, s)
    <3>1. o = chan
      BY Zenon, <1>0, <1>3, <2>2 DEF CoreInv, MemberInv
    <3>2. user \in Users
      <4>1. members[o] \in [Sockets -> Users \union {None}]
        BY Zenon, <1>2, <1>3
      <4>2. members[o][s] \in Users \union {None}
        BY Zenon, <4>1
      <4> QED BY Zenon, <2>2, <4>2 DEF IsMember
    <3>3. refs' = [refs EXCEPT ![chan][user] = @ - 1]
      BY Zenon, <1>1, <2>2, <3>1
    <3>4. \A u \in Users : u # user => refs'[chan][u] = refs[chan][u]
      BY Zenon, <1>2, <1>3, <3>1, <3>3
    <3>5. refs[chan][user] \in Nat /\ refs'[chan][user] = refs[chan][user] - 1
      BY Zenon, <1>2, <1>3, <3>1, <3>2, <3>3
    <3>6. \A u \in Users : u # user => (u \in LocalUsers(chan)' <=> u \in LocalUsers(chan))
      BY Zenon, <1>1, <3>4 DEF LocalUsers
    <3>7. /\ user \in LocalUsers(chan)' => user \in LocalUsers(chan)
          /\ user \in LocalUsers(chan) => user \in LocalUsers(chan)' \/ refs[chan][user] = 1
      <4>1. /\ user \in LocalUsers(chan) <=> refs[chan][user] > 0
            /\ user \in LocalUsers(chan)' <=> refs'[chan][user] > 0
        BY Zenon, <1>1, <3>2 DEF LocalUsers
      <4>2. PICK n \in Nat : n = refs[chan][user]
        BY Zenon, <3>5
      <4>3. /\ n - 1 > 0 => n > 0
            /\ n > 0 => n - 1 > 0 \/ n = 1
        BY <4>2
      <4>4. refs'[chan][user] = n - 1
        BY Zenon, <3>5, <4>2
      <4> QED BY Zenon, <4>1, <4>2, <4>3, <4>4
    <3>8. refs[chan][user] = 1 => Going(user)'
      <4>1. join'[s].user = user /\ (join'[s].changed <=> refs[chan][user] = 1)
        <5>1. PICK b \in BOOLEAN : b = (refs[chan][user] = 1)
          BY Zenon
        <5>2. join' = [join EXCEPT ![s] = [join[s] EXCEPT !.user = user, !.changed = b]]
          BY Zenon, <1>1, <2>2, <3>1, <5>1
        <5>3. join'[s].user = user /\ join'[s].changed = b
          BY <1>2, <5>2 DEF Joins
        <5> QED BY Zenon, <5>1, <5>3
      <4> QED BY Zenon, <1>1, <1>4, <3>1, <4>1 DEF Going
    <3> QED BY Zenon, <1>8, <3>2, <3>6, <3>7, <3>8 DEF Present
  <2> QED BY Zenon, <2>1, <2>2
<1>14. StreamInv'
  <2> SUFFICES ASSUME NEW t \in Sockets, NEW u \in Users, InScope(t)' PROVE Up(t, u)' /\ Down(t, u)'
    BY Zenon DEF StreamInv
  <2>1. Up(t, u) /\ Down(t, u)
    BY Zenon, <1>11 DEF RosterInv, StreamInv
  <2>2. Told(t, u)' <=> Told(t, u)
    BY Zenon, <1>12
  <2>3. /\ Present(u)' => Present(u)
        /\ Present(u) => Present(u)' \/ Going(u)'
        /\ Excused(u)' <=> Excused(u)
        /\ Kept(u)' <=> Kept(u)
        /\ Going(u) => Going(u)'
        /\ Coming(t, u) => Coming(t, u)'
    BY Zenon, <1>8, <1>9, <1>10, <1>13
  <2> QED BY Zenon, <2>1, <2>2, <2>3 DEF Up, Down
<1>15. ASSUME IsMember(o, s) PROVE ~AtDiff /\ \A t \in Sockets : pc[t] # "subscribe"
  <2>1. o = chan
    BY Zenon, <1>0, <1>3, <1>15 DEF CoreInv, MemberInv
  <2>2. /\ ~AtDiff
        /\ \A t \in Sockets : t # s => pc[t] \notin {"admit", "subscribe", "announce"}
    BY Zenon, <1>0, <1>2, <1>3, <2>1, Alone
  <2> QED BY <1>7, <2>2
<1>16. ReadInv'
  <2> SUFFICES ASSUME NEW t \in Sockets, pc'[t] = "subscribe" PROVE ReadOk(t)'
    BY Zenon DEF ReadInv
  <2>1. t # s /\ pc[t] = "subscribe" /\ ReadOk(t) /\ join'[t] = join[t] /\ (t \in tainted' <=> t \in tainted)
    BY Zenon, <1>1, <1>5, <1>7 DEF RosterInv, ReadInv
  <2>2. members' = members
    BY Zenon, <1>1, <1>15, <2>1
  <2>3. queue'[t] = queue[t] /\ (IsMember(chan, t)' <=> IsMember(chan, t))
    BY Zenon, <1>1, <2>2 DEF IsMember
  <2> QED BY Zenon, <1>8, <2>1, <2>3 DEF ReadOk
<1>17. DiffInv'
  BY Zenon, <1>1, <1>8, <1>13, <1>15 DEF RosterInv, DiffInv
<1> QED BY Zenon, <1>14, <1>16, <1>17 DEF RosterInv

\* A broadcast on the map's channel while nobody is joining: everyone in scope
\* has it, or is kicked.
LEMMA ToldToAll ==
    ASSUME CoreInv, NEW f \in Frames, Broadcast(chan, f, None), view' = view,
           subscribed' = subscribed, tainted' = tainted,
           \A r \in Sockets : pc'[r] # "announce",
           NEW t \in Sockets, InScope(t)'
    PROVE  /\ InScope(t)
           /\ \A u \in Users : /\ f.user = u => (Told(t, u)' <=> f.kind = "added")
                               /\ f.user # u => (Told(t, u)' <=> Told(t, u))
<1>1. t \in subscribed /\ t \notin kicked' /\ t \notin tainted
  BY Zenon DEF InScope
<1>2. t \notin kicked
  BY Zenon, <1>1, BroadcastTells
<1>3. InScope(t)
  BY Zenon, <1>1, <1>2 DEF InScope
<1>4. IsMember(chan, t) /\ t # None
  BY Zenon, <1>3, ScopeMember, Apart
<1> QED BY Zenon, <1>1, <1>3, <1>4, BroadcastTells

\* `on_unsubscribed`: the members are told of a user who is neither here nor on
\* a peer any more; from a dropped object it reaches nobody.
LEMMA RosterAnnounceLeave ==
    ASSUME HandlerInv, RosterInv, NEW s \in Sockets, AnnounceLeave(s)
    PROVE  RosterInv'
<1> PICK user : user = join[s].user
  OBVIOUS
<1> DEFINE tells == join[s].changed /\ user \notin RemoteUsers
<1>0. CoreInv /\ LocalMatch
  BY Zenon, LocalIsMember DEF HandlerInv
<1>1. /\ UNCHANGED <<chan, members, refs, cache, expired, diff, view, tainted, obj, subscribed>>
      /\ pc[s] = "announce_leave" /\ pc' = [pc EXCEPT ![s] = "reap"]
      /\ join' = [join EXCEPT ![s] = NoJoin]
      /\ tells => Broadcast(obj[s], Removed(user), None)
      /\ ~tells => UNCHANGED <<queue, kicked>>
  BY Zenon DEF AnnounceLeave, Goto
<1>2. /\ pc \in [Tasks -> Labels] /\ join \in [Sockets -> Joins] /\ s \in Tasks /\ s # "bus"
  BY Zenon, <1>0, Apart DEF CoreInv, TypeOK
<1>3. obj[s] \in Objects /\ pc[s] \in Critical /\ (join[s].changed => user \in Users)
  BY <1>0, <1>1 DEF CoreInv, SocketInv, Leaving, Critical
<1>4. /\ \A t \in Tasks \ {s} : pc'[t] = pc[t]
      /\ pc'[s] = "reap"
  BY Zenon, <1>1, <1>2
<1>5. \A t \in Sockets : t # s => pc'[t] = pc[t] /\ join'[t] = join[t]
  BY Zenon, <1>1, <1>2, <1>4, Apart
<1>6. pc'["bus"] = pc["bus"] /\ pc'["gc"] = pc["gc"] /\ obj' = obj
  BY Zenon, <1>1, <1>4, Apart
<1>7. /\ pc[s] # "announce" /\ pc[s] # "subscribe"
      /\ pc'[s] # "announce" /\ pc'[s] # "subscribe" /\ pc'[s] # "announce_leave"
  BY <1>1, <1>4
<1>8. /\ AtDiff' <=> AtDiff
      /\ \A u : Excused(u)' <=> Excused(u)
      /\ \A u : Kept(u)' <=> Kept(u)
      /\ \A u : Present(u)' <=> Present(u)
      /\ RemoteUsers' = RemoteUsers
  <2>0. UNCHANGED <<chan, refs, cache, expired>>
    BY Zenon, <1>1
  <2>1. AtDiff' <=> AtDiff
    BY Zenon, <1>6, <2>0 DEF AtDiff
  <2>2. \A u : Excused(u)' <=> Excused(u)
    BY Zenon, <1>6, <2>0 DEF Excused
  <2>3. \A u : Kept(u)' <=> Kept(u)
    BY Zenon, <1>5, <1>7 DEF Kept
  <2>4. RemoteUsers' = RemoteUsers /\ LocalUsers(chan)' = LocalUsers(chan)
    BY Zenon, <2>0 DEF RemoteUsers, LocalUsers
  <2>5. \A u : Present(u)' <=> Present(u)
    BY Zenon, <2>4 DEF Present
  <2> QED BY Zenon, <2>1, <2>2, <2>3, <2>4, <2>5
<1>9. \A t, u : Coming(t, u)' <=> Coming(t, u)
  <2>1. diff' = diff
    BY Zenon, <1>1
  <2> QED BY Zenon, <1>5, <1>7, <1>8, <2>1 DEF Coming
<1>10. \A u : Going(u) => Going(u)' \/ (obj[s] = chan /\ join[s].changed /\ u = user)
  <2>1. chan' = chan /\ diff' = diff
    BY Zenon, <1>1
  <2> QED BY Zenon, <1>5, <1>6, <1>8, <2>1 DEF Going
<1>11. CASE queue' = queue /\ kicked' = kicked /\ (obj[s] = chan /\ join[s].changed => user \in RemoteUsers)
  <2>1. StreamInv'
    <3> SUFFICES ASSUME NEW t \in Sockets, NEW u \in Users, InScope(t)' PROVE Up(t, u)' /\ Down(t, u)'
      BY Zenon DEF StreamInv
    <3>1. InScope(t)
      <4>1. UNCHANGED <<subscribed, kicked, tainted>>
        BY Zenon, <1>1, <1>11
      <4> QED BY Zenon, <1>5, <1>7, <4>1 DEF InScope
    <3>2. Up(t, u) /\ Down(t, u)
      BY Zenon, <3>1 DEF RosterInv, StreamInv
    <3>3. Told(t, u)' <=> Told(t, u)
      <4>1. queue' = queue /\ view' = view
        BY Zenon, <1>1, <1>11
      <4> QED BY Zenon, <4>1 DEF Told
    <3>4. Going(u) => Going(u)' \/ Present(u)
      BY Zenon, <1>10, <1>11 DEF Present
    <3> QED BY Zenon, <1>8, <1>9, <3>2, <3>3, <3>4 DEF Up, Down
  <2>2. ReadInv'
    <3> SUFFICES ASSUME NEW t \in Sockets, pc'[t] = "subscribe" PROVE ReadOk(t)'
      BY Zenon DEF ReadInv
    <3>1. t # s /\ pc[t] = "subscribe" /\ ReadOk(t) /\ join'[t] = join[t]
      BY Zenon, <1>5, <1>7 DEF RosterInv, ReadInv
    <3>2. queue' = queue /\ tainted' = tainted /\ (IsMember(chan, t)' <=> IsMember(chan, t))
      BY Zenon, <1>1, <1>11 DEF IsMember
    <3> QED BY Zenon, <1>8, <3>1, <3>2 DEF ReadOk
  <2>3. DiffInv'
    <3>1. diff' = diff
      BY Zenon, <1>1
    <3> QED BY Zenon, <1>8, <3>1 DEF RosterInv, DiffInv
  <2> QED BY Zenon, <2>1, <2>2, <2>3 DEF RosterInv
<1>12. CASE obj[s] = chan /\ tells
  <2>1. chan \in Objects /\ user \in Users /\ Removed(user) \in Frames
        /\ Removed(user).user = user /\ Removed(user).kind # "added"
    BY <1>3, <1>12 DEF Removed, Frames
  <2>2. /\ ~AtDiff
        /\ \A t \in Sockets : t # s => /\ pc[t] \notin {"admit", "subscribe", "announce"}
                                       /\ pc[t] \in {"unsubscribe", "announce_leave"} => obj[t] # chan
    BY Zenon, <1>0, <1>2, <1>3, <1>12, <2>1, Alone
  <2>3. \A t \in Sockets : pc'[t] # "announce" /\ pc'[t] # "subscribe"
    BY <1>5, <1>7, <2>2
  <2>4. ~Present(user)
    <3>1. Departing(s, user)
      BY Zenon, <1>1, <1>12 DEF Departing
    <3>2. user \notin LocalUsers(chan)
      BY Zenon, <1>0, <1>12, <2>1, <3>1, PendingIsRight
    <3> QED BY Zenon, <1>12, <3>2 DEF Present
  <2>5. StreamInv'
    <3> SUFFICES ASSUME NEW t \in Sockets, NEW u \in Users, InScope(t)' PROVE Up(t, u)' /\ Down(t, u)'
      BY Zenon DEF StreamInv
    <3>1. Broadcast(chan, Removed(user), None) /\ UNCHANGED <<view, subscribed, tainted>>
      BY Zenon, <1>1, <1>12
    <3>2. /\ InScope(t)
          /\ user = u => (Told(t, u)' <=> Removed(user).kind = "added")
          /\ user # u => (Told(t, u)' <=> Told(t, u))
      BY Zenon, <1>0, <2>1, <2>3, <3>1, ToldToAll
    <3>3. Up(t, u) /\ Down(t, u)
      BY Zenon, <3>2 DEF RosterInv, StreamInv
    <3>4. ~Kept(u)'
      BY Zenon, <2>3 DEF Kept
    <3>5. CASE u = user
      <4>1. ~Told(t, u)' /\ ~Present(u)
        BY Zenon, <2>1, <2>4, <3>2, <3>5
      <4> QED BY Zenon, <1>8, <3>4, <4>1 DEF Up, Down
    <3>6. CASE u # user
      <4>1. (Told(t, u)' <=> Told(t, u)) /\ (Going(u) => Going(u)')
        BY Zenon, <1>10, <3>2, <3>6
      <4> QED BY Zenon, <1>8, <1>9, <3>3, <4>1 DEF Up, Down
    <3> QED BY Zenon, <3>5, <3>6
  <2>6. ReadInv'
    BY Zenon, <2>3 DEF ReadInv
  <2>7. DiffInv'
    BY Zenon, <1>8, <2>2 DEF DiffInv
  <2> QED BY Zenon, <2>5, <2>6, <2>7 DEF RosterInv
<1>13. CASE obj[s] # chan
  <2>1. queue' = queue /\ kicked' = kicked
    BY Zenon, <1>0, <1>1, <1>3, <1>13, BroadcastElsewhere
  <2> QED BY Zenon, <1>11, <1>13, <2>1
<1>14. CASE ~tells
  BY Zenon, <1>1, <1>11, <1>14
<1> QED BY Zenon, <1>12, <1>13, <1>14

-----------------------------------------------------------------------------
(* The bus consumer and the GC. *)

\* Finding a channel and waiting for its lock.
LEMMA RosterBusWaits ==
    ASSUME CoreInv, RosterInv, (\E e \in Events : BusFind(e)) \/ BusLock \/ BusDiffDone
    PROVE  RosterInv'
<1>1. /\ UNCHANGED <<chan, members, refs, join, subscribed, view, queue, kicked, tainted, cache, expired, diff>>
      /\ pc["bus"] = "diff" => diff = {}
  BY Apart DEF BusFind, BusLock, BusDiffDone
<1>2. pc \in [Tasks -> Labels] /\ obj \in [Tasks -> Objects \union {None}]
  BY Zenon DEF CoreInv, TypeOK
<1>3. /\ \A t \in Tasks : t # "bus" => pc'[t] = pc[t] /\ obj'[t] = obj[t]
      /\ pc'["bus"] # "diff"
  BY <1>2, Apart DEF BusFind, BusLock, BusDiffDone, BusDone, Goto, Release
<1>4. \A t \in Sockets : pc'[t] = pc[t] /\ obj'[t] = obj[t]
  BY Zenon, <1>3, Apart
<1>5. Backstage
  BY Zenon, <1>1, <1>4 DEF Backstage
<1>6. SameDiff
  <2>1. ~AtDiff' /\ (AtDiff => diff = {})
    BY Zenon, <1>1, <1>3 DEF AtDiff
  <2> QED BY <2>1 DEF SameDiff
<1>7. pc'["gc"] = pc["gc"] /\ obj'["gc"] = obj["gc"]
  BY <1>3, Apart
<1>8. \A u \in Users : /\ Excused(u) => Excused(u)'
                       /\ u \in RemoteUsers' => u \in RemoteUsers
                       /\ u \in RemoteUsers => u \in RemoteUsers' \/ Excused(u)'
  <2>1. \A u : Excused(u) => Excused(u)'
    BY Zenon, <1>1, <1>7 DEF Excused
  <2>2. RemoteUsers' = RemoteUsers
    BY Zenon, <1>1 DEF RemoteUsers
  <2> QED BY Zenon, <2>1, <2>2
<1> QED BY Zenon, <1>5, <1>6, <1>8, BackstageFrame

\* While the bus consumer or the GC is inside the transition lock of the map's
\* channel, the connection tasks have nothing left to tell.
LEMMA HeldByBackground ==
    ASSUME CoreInv, RosterInv, NEW b \in {"bus", "gc"}, pc[b] \in Critical, obj[b] = chan, chan \in Objects
    PROVE  /\ \A t \in Sockets : pc[t] # "subscribe" /\ pc[t] # "announce"
           /\ \A u : ~Kept(u)
           /\ \A t, u : Coming(t, u) <=> AtDiff /\ Added(u) \in diff
           /\ \A u : Going(u) <=> AtDiff /\ Removed(u) \in diff
           /\ b # "bus" => ~AtDiff
           /\ \A t \in Sockets, u \in Users : InScope(t) => Up(t, u) /\ Down(t, u)
<1>1. b \in Tasks /\ b \notin Sockets
  BY Zenon, Apart
<1>2. /\ \A t \in Sockets : t # b => /\ pc[t] \notin {"admit", "subscribe", "announce"}
                                     /\ pc[t] \in {"unsubscribe", "announce_leave"} => obj[t] # chan
      /\ b # "bus" => ~AtDiff
  BY Zenon, <1>1, Alone
<1>3. \A t \in Sockets : /\ pc[t] # "subscribe" /\ pc[t] # "announce"
                         /\ pc[t] = "announce_leave" => obj[t] # chan
  BY <1>1, <1>2
<1>4. /\ \A u : ~Kept(u)
      /\ \A t, u : Coming(t, u) <=> AtDiff /\ Added(u) \in diff
      /\ \A u : Going(u) <=> AtDiff /\ Removed(u) \in diff
  BY Zenon, <1>3 DEF Kept, Coming, Going
<1> QED BY Zenon, <1>2, <1>3, <1>4 DEF RosterInv, StreamInv

\* The same after a step that leaves the connection tasks and the channel.
LEMMA StillHeld ==
    ASSUME chan' = chan, \A t \in Sockets : pc'[t] = pc[t] /\ obj'[t] = obj[t],
           \A t \in Sockets : /\ pc[t] # "subscribe" /\ pc[t] # "announce"
                              /\ pc[t] = "announce_leave" => obj[t] # chan
    PROVE  /\ \A t \in Sockets : pc'[t] # "subscribe" /\ pc'[t] # "announce"
           /\ \A u : ~Kept(u)'
           /\ \A t, u : Coming(t, u)' <=> AtDiff' /\ Added(u) \in diff'
           /\ \A u : Going(u)' <=> AtDiff' /\ Removed(u) \in diff'
  BY Zenon DEF Kept, Coming, Going

\* What a message does to the users on the peers.
LEMMA RemoteChanges ==
    ASSUME CoreInv, event \in Events
    PROVE  /\ ApplyMemberAdded => \A u : u \in RemoteUsers' <=> u \in RemoteUsers \/ u = event.user
           /\ ApplyMemberRemoved =>
                 \A u : u \in RemoteUsers' <=>
                           /\ u \in RemoteUsers
                           /\ u = event.user => \E q \in Peers \ {event.peer} : u \in cache[q]
           /\ ApplySnapshot =>
                 \A u : u \in RemoteUsers' <=>
                           u \in event.users \union UNION {cache[q] : q \in Peers \ {event.peer}}
<1>1. cache \in [Peers -> SUBSET Users] /\ event.peer \in Peers
  BY Zenon DEF CoreInv, TypeOK, Events
<1>2. PICK p : p = event.peer
  OBVIOUS
<1>3. \A u : u \in RemoteUsers <=> \E q \in Peers : u \in cache[q]
  BY Zenon DEF RemoteUsers
<1>4. \A u : u \in RemoteUsers' <=> \E q \in Peers : u \in cache'[q]
  BY Zenon DEF RemoteUsers
<1>5. ASSUME NEW new, cache' = [cache EXCEPT ![p] = new]
      PROVE  \A u : u \in RemoteUsers' <=> u \in new \/ \E q \in Peers \ {p} : u \in cache[q]
  <2>1. cache'[p] = new /\ \A q \in Peers \ {p} : cache'[q] = cache[q]
    BY Zenon, <1>1, <1>2, <1>5
  <2> QED BY Zenon, <1>1, <1>2, <1>4, <2>1
<1>6. ASSUME ApplyMemberAdded
      PROVE  \A u : u \in RemoteUsers' <=> u \in RemoteUsers \/ u = event.user
  <2>1. cache' = [cache EXCEPT ![p] = cache[p] \union {event.user}]
    BY Zenon, <1>2, <1>6 DEF ApplyMemberAdded
  <2>2. \A u : u \in RemoteUsers' <=> u \in cache[p] \union {event.user} \/ \E q \in Peers \ {p} : u \in cache[q]
    BY Zenon, <1>5, <2>1
  <2> QED BY Zenon, <1>1, <1>2, <1>3, <2>2
<1>7. ASSUME ApplyMemberRemoved
      PROVE  \A u : u \in RemoteUsers' <=>
                       /\ u \in RemoteUsers
                       /\ u = event.user => \E q \in Peers \ {event.peer} : u \in cache[q]
  <2>1. cache' = [cache EXCEPT ![p] = cache[p] \ {event.user}]
    BY Zenon, <1>2, <1>7 DEF ApplyMemberRemoved
  <2>2. \A u : u \in RemoteUsers' <=> u \in cache[p] \ {event.user} \/ \E q \in Peers \ {p} : u \in cache[q]
    BY Zenon, <1>5, <2>1
  <2> QED BY Zenon, <1>1, <1>2, <1>3, <2>2
<1>8. ASSUME ApplySnapshot
      PROVE  \A u : u \in RemoteUsers' <=>
                       u \in event.users \union UNION {cache[q] : q \in Peers \ {event.peer}}
  <2>1. cache' = [cache EXCEPT ![p] = event.users]
    BY Zenon, <1>2, <1>8 DEF ApplySnapshot
  <2>2. \A u : u \in RemoteUsers' <=> u \in event.users \/ \E q \in Peers \ {p} : u \in cache[q]
    BY Zenon, <1>5, <2>1
  <2> QED BY Zenon, <1>2, <2>2
<1> QED BY Zenon, <1>6, <1>7, <1>8

\* apply_remote_*: under the lock of the map's channel the clients are told what
\* changes; under any other lock, or none, those who miss it are marked.
LEMMA RosterBusApply ==
    ASSUME CoreInv, RosterInv, BusApply
    PROVE  RosterInv'
<1> PICK o : o = obj["bus"]
  OBVIOUS
<1>1. /\ UNCHANGED <<chan, members, refs, join, subscribed, view, expired>>
      /\ pc["bus"] = "apply" /\ event \in Events
      /\ ApplyMemberAdded \/ ApplyMemberRemoved \/ ApplySnapshot
      /\ tainted' = tainted \union Missed
  BY DEF BusApply, CoreInv, BackgroundInv
<1>2. pc \in [Tasks -> Labels] /\ obj \in [Tasks -> Objects \union {None}] /\ chan \in Objects \union {None}
  BY Zenon DEF CoreInv, TypeOK
<1>3. \/ BusDone /\ diff' = diff
      \/ o # None /\ pc' = [pc EXCEPT !["bus"] = "diff"] /\ obj' = obj
  BY Zenon, <1>1 DEF ApplyMemberAdded, ApplyMemberRemoved, ApplySnapshot, Goto
<1>4. /\ \A t \in Tasks : t # "bus" => pc'[t] = pc[t] /\ obj'[t] = obj[t]
      /\ pc'["bus"] = "diff" => obj'["bus"] = o /\ o # None
  <2>1. CASE BusDone
    BY <1>2, <2>1, Apart DEF BusDone, Goto, Release
  <2>2. CASE o # None /\ pc' = [pc EXCEPT !["bus"] = "diff"] /\ obj' = obj
    BY <1>2, <2>2, Apart
  <2> QED BY Zenon, <1>3, <2>1, <2>2
<1>5. \A t \in Sockets : pc'[t] = pc[t] /\ obj'[t] = obj[t]
  BY Zenon, <1>4, Apart
<1>6. \A u : Excused(u)' <=> Excused(u)
  <2>1. pc'["gc"] = pc["gc"] /\ obj'["gc"] = obj["gc"] /\ expired' = expired /\ chan' = chan
    BY <1>1, <1>4, Apart
  <2> QED BY Zenon, <2>1 DEF Excused
<1>7. CASE chan # o \/ chan = None
  <2>1. ~AtDiff'
    BY Zenon, <1>1, <1>4, <1>7 DEF AtDiff
  <2>2. ASSUME NEW t \in Sockets PROVE ~InScope(t)'
    <3> SUFFICES ASSUME InScope(t)' PROVE FALSE
      OBVIOUS
    <3>1. (t \in subscribed \/ pc[t] = "announce") /\ t \notin tainted' /\ pc[t] = pc'[t]
      BY Zenon, <1>1, <1>5 DEF InScope
    <3>2. chan # None /\ IsMember(chan, t)
      <4>1. "announce" \in Joining
        BY DEF Joining
      <4> QED BY Zenon, <3>1, <4>1 DEF CoreInv, MemberInv, SocketInv
    <3>3. t \in Missed
      BY Zenon, <1>7, <3>2 DEF Missed
    <3> QED BY Zenon, <1>1, <3>1, <3>3
  <2>3. ReadInv'
    <3> SUFFICES ASSUME NEW t \in Sockets, pc'[t] = "subscribe" PROVE ReadOk(t)'
      BY Zenon DEF ReadInv
    <3>1. pc[t] = "subscribe" /\ ReadOk(t) /\ join' = join
      BY Zenon, <1>1, <1>5 DEF RosterInv, ReadInv
    <3>2. t \in tainted'
      <4>1. "subscribe" \in Joining
        BY DEF Joining
      <4>2. chan # None
        BY Zenon, <3>1, <4>1 DEF CoreInv, SocketInv
      <4>3. t \in Missed
        BY Zenon, <1>7, <3>1, <4>2 DEF Missed
      <4> QED BY Zenon, <1>1, <4>3
    <3> QED BY Zenon, <3>1, <3>2 DEF ReadOk
  <2>4. StreamInv'
    BY Zenon, <2>2 DEF StreamInv
  <2>5. DiffInv'
    BY Zenon, <2>1 DEF DiffInv
  <2> QED BY Zenon, <2>3, <2>4, <2>5 DEF RosterInv
<1>8. CASE chan = o /\ chan # None
  <2>0. chan \in Objects /\ pc["bus"] \in Critical /\ ~AtDiff
    BY <1>1, <1>2, <1>8 DEF Critical, AtDiff
  <2>1. /\ \A t \in Sockets : pc[t] # "subscribe" /\ pc[t] # "announce"
        /\ \A u : ~Kept(u)
        /\ \A t, u : ~Coming(t, u)
        /\ \A u : ~Going(u)
        /\ \A t \in Sockets, u \in Users : InScope(t) => Up(t, u) /\ Down(t, u)
    <3>1. obj["bus"] = chan
      BY Zenon, <1>8
    <3> QED BY Zenon, <2>0, <3>1, HeldByBackground
  <2>2. \A t \in Sockets, u \in Users : InScope(t) =>
            /\ Present(u) => Told(t, u)
            /\ Told(t, u) /\ ~Excused(u) => Present(u)
    BY Zenon, <2>1 DEF Up, Down
  <2>3. \A t \in Sockets : pc[t] = "announce_leave" => obj[t] # chan
    <3>1. obj["bus"] = chan /\ "bus" \in Tasks /\ "bus" \notin Sockets
      BY Zenon, <1>8, Apart
    <3>2. \A t \in Sockets : t # "bus" => (pc[t] \in {"unsubscribe", "announce_leave"} => obj[t] # chan)
      BY Zenon, <2>0, <3>1, Alone
    <3> QED BY <3>1, <3>2
  <2>4. /\ \A t \in Sockets : pc'[t] # "subscribe" /\ pc'[t] # "announce"
        /\ \A u : ~Kept(u)'
        /\ \A t, u : Coming(t, u)' <=> AtDiff' /\ Added(u) \in diff'
        /\ \A u : Going(u)' <=> AtDiff' /\ Removed(u) \in diff'
    BY Zenon, <1>1, <1>5, <2>1, <2>3, StillHeld
  <2>5. tainted' = tainted
    <3>1. Missed = {}
      BY Zenon, <1>8 DEF Missed
    <3> QED BY Zenon, <1>1, <3>1
  <2>6. ReadInv'
    BY Zenon, <2>4 DEF ReadInv
  <2>7. LocalUsers(chan)' = LocalUsers(chan)
    BY Zenon, <1>1 DEF LocalUsers
  <2>8. \A u : Present(u)' <=> u \in LocalUsers(chan) \/ u \in RemoteUsers'
    BY Zenon, <2>7 DEF Present
  <2>9. CASE ApplyMemberAdded \/ ApplyMemberRemoved
    <3> PICK user : user = event.user
      OBVIOUS
    <3> PICK f : f = IF ApplyMemberAdded THEN Added(user) ELSE Removed(user)
      OBVIOUS
    <3> DEFINE elsewhere == \E q \in Peers \ {event.peer} : user \in cache[q]
               silent == user \in LocalUsers(chan) \/ elsewhere
    <3>1. BusDone /\ event.kind \in {"added", "removed"}
      BY Zenon, <2>9 DEF ApplyMemberAdded, ApplyMemberRemoved
    <3>2. user \in Users /\ (ApplyMemberAdded => ~ApplyMemberRemoved)
      BY <1>1, <3>1, ConstantsAreSane DEF Events, ApplyMemberAdded, ApplyMemberRemoved
    <3>3. /\ f \in Frames /\ f.user = user
          /\ f.kind = "added" <=> ApplyMemberAdded
      BY <3>2 DEF Added, Removed, Frames
    <3>4. ~AtDiff'
      <4>1. pc'["bus"] = "idle"
        BY Zenon, <1>2, <3>1, Apart DEF BusDone, Goto
      <4> QED BY <4>1 DEF AtDiff
    <3>5. /\ ~silent => Broadcast(chan, f, None)
          /\ silent => queue' = queue /\ kicked' = kicked
      <4>1. HereVia(o, user) <=> user \in LocalUsers(chan)
        BY Zenon, <1>8 DEF HereVia
      <4>2. CASE ApplyMemberAdded
        BY Zenon, <1>8, <4>1, <4>2 DEF ApplyMemberAdded
      <4>3. CASE ApplyMemberRemoved
        <5>1. f = Removed(user)
          BY Zenon, <3>2, <4>3
        <5> QED BY Zenon, <1>8, <4>1, <4>3, <5>1 DEF ApplyMemberRemoved
      <4> QED BY Zenon, <2>9, <4>2, <4>3
    <3>6. \A u : u # user => (Present(u)' <=> Present(u))
      BY Zenon, <1>1, <2>8, <2>9, RemoteChanges DEF Present
    <3>7. /\ silent => (Present(user)' <=> Present(user))
          /\ ~silent => (Present(user)' <=> ApplyMemberAdded)
      <4>1. elsewhere => user \in RemoteUsers
        BY Zenon DEF RemoteUsers
      <4>2. ApplyMemberAdded => user \in RemoteUsers'
        BY Zenon, <1>1, RemoteChanges
      <4>3. ApplyMemberRemoved => (user \in RemoteUsers' <=> user \in RemoteUsers /\ elsewhere)
        BY Zenon, <1>1, RemoteChanges
      <4> QED BY Zenon, <2>8, <2>9, <4>1, <4>2, <4>3 DEF Present
    <3>8. StreamInv'
      <4> SUFFICES ASSUME NEW t \in Sockets, NEW u \in Users, InScope(t)' PROVE Up(t, u)' /\ Down(t, u)'
        BY Zenon DEF StreamInv
      <4>1. ~Kept(u)' /\ ~Coming(t, u)' /\ ~Going(u)'
        BY Zenon, <2>4, <3>4
      <4>2. CASE InScope(t) /\ (Told(t, u)' <=> Told(t, u)) /\ (Present(u)' <=> Present(u))
        <5>1. /\ Present(u) => Told(t, u)
              /\ Told(t, u) /\ ~Excused(u) => Present(u)
          BY Zenon, <2>2, <4>2
        <5> QED BY Zenon, <1>6, <4>1, <4>2, <5>1 DEF Up, Down
      <4>3. CASE Told(t, u)' <=> Present(u)'
        BY Zenon, <4>1, <4>3 DEF Up, Down
      <4>4. CASE silent
        <5>1. InScope(t)
          BY Zenon, <1>1, <1>5, <2>5, <3>5, <4>4 DEF InScope
        <5>2. Told(t, u)' <=> Told(t, u)
          BY Zenon, <1>1, <3>5, <4>4 DEF Told
        <5>3. Present(u)' <=> Present(u)
          BY Zenon, <3>6, <3>7, <4>4
        <5> QED BY Zenon, <4>2, <5>1, <5>2, <5>3
      <4>5. CASE ~silent
        <5>1. /\ InScope(t)
              /\ f.user = u => (Told(t, u)' <=> f.kind = "added")
              /\ f.user # u => (Told(t, u)' <=> Told(t, u))
          BY Zenon, <1>1, <2>4, <2>5, <3>3, <3>5, <4>5, ToldToAll
        <5>2. CASE u = user
          BY Zenon, <3>3, <3>7, <4>3, <4>5, <5>1, <5>2
        <5>3. CASE u # user
          BY Zenon, <3>3, <3>6, <4>2, <5>1, <5>3
        <5> QED BY Zenon, <5>2, <5>3
      <4> QED BY Zenon, <4>4, <4>5
    <3>9. DiffInv'
      BY Zenon, <3>4 DEF DiffInv
    <3> QED BY Zenon, <2>6, <3>8, <3>9 DEF RosterInv
  <2>10. CASE ApplySnapshot
    <3> DEFINE after == event.users \union UNION {cache[q] : q \in Peers \ {event.peer}}
    <3>1. /\ queue' = queue /\ kicked' = kicked
          /\ diff' = {Removed(u) : u \in (RemoteUsers \ after) \ LocalUsers(chan)}
                     \union {Added(u) : u \in (after \ RemoteUsers) \ LocalUsers(chan)}
      BY Zenon, <1>8, <2>10 DEF ApplySnapshot
    <3>2. \A u : u \in RemoteUsers' <=> u \in after
      BY Zenon, <1>1, <2>10, RemoteChanges
    <3> HIDE DEF after
    <3>3. \A u, v : /\ Added(u) # Removed(v)
                    /\ Added(u) = Added(v) => u = v
                    /\ Removed(u) = Removed(v) => u = v
      BY DEF Added, Removed
    <3>4. \A u : /\ Removed(u) \in diff' <=> u \in RemoteUsers /\ u \notin RemoteUsers' /\ u \notin LocalUsers(chan)
                 /\ Added(u) \in diff' <=> u \in RemoteUsers' /\ u \notin RemoteUsers /\ u \notin LocalUsers(chan)
      BY Zenon, <3>1, <3>2, <3>3
    <3>5. AtDiff'
      <4>1. pc' = [pc EXCEPT !["bus"] = "diff"] /\ obj' = obj
        BY Zenon, <1>8, <2>10 DEF ApplySnapshot, Goto
      <4> QED BY Zenon, <1>1, <1>2, <1>8, <4>1, Apart DEF AtDiff
    <3>6. StreamInv'
      <4> SUFFICES ASSUME NEW t \in Sockets, NEW u \in Users, InScope(t)' PROVE Up(t, u)' /\ Down(t, u)'
        BY Zenon DEF StreamInv
      <4>1. InScope(t)
        BY Zenon, <1>1, <1>5, <2>5, <3>1 DEF InScope
      <4>2. Told(t, u)' <=> Told(t, u)
        <5>1. queue' = queue /\ view' = view
          BY Zenon, <1>1, <3>1
        <5> QED BY Zenon, <5>1 DEF Told
      <4>3. /\ Present(u) => Told(t, u)
            /\ Told(t, u) /\ ~Excused(u) => Present(u)
        BY Zenon, <2>2, <4>1
      <4>4. /\ Present(u)' /\ ~Coming(t, u)' => Present(u)
            /\ Present(u) /\ ~Going(u)' => Present(u)'
        <5>1. /\ Present(u)' <=> u \in LocalUsers(chan) \/ u \in RemoteUsers'
              /\ Present(u) <=> u \in LocalUsers(chan) \/ u \in RemoteUsers
          BY Zenon, <2>8 DEF Present
        <5>2. /\ Coming(t, u)' <=> Added(u) \in diff'
              /\ Going(u)' <=> Removed(u) \in diff'
          BY Zenon, <2>4, <3>5
        <5> QED BY Zenon, <3>4, <5>1, <5>2
      <4> QED BY Zenon, <1>6, <2>4, <4>2, <4>3, <4>4 DEF Up, Down
    <3>7. DiffInv'
      BY Zenon, <2>8, <3>4 DEF DiffInv
    <3> QED BY Zenon, <2>6, <3>6, <3>7 DEF RosterInv
  <2> QED BY Zenon, <1>1, <2>9, <2>10
<1> QED BY Zenon, <1>7, <1>8

\* A frame of a snapshot, under the same lock.
LEMMA RosterBusDiff ==
    ASSUME CoreInv, RosterInv, BusDiff
    PROVE  RosterInv'
<1>1. PICK f \in diff : Broadcast(obj["bus"], f, None) /\ diff' = diff \ {f}
  BY Zenon DEF BusDiff
<1>2. /\ UNCHANGED <<chan, members, refs, pc, obj, join, subscribed, view, cache, expired, tainted>>
      /\ pc["bus"] = "diff"
  BY Zenon DEF BusDiff
<1>3. /\ obj["bus"] \in Objects /\ pc["bus"] \in Critical
      /\ f \in Frames /\ (f = Added(f.user) \/ f = Removed(f.user)) /\ f.user \in Users
  BY <1>2 DEF CoreInv, BackgroundInv, TypeOK, Critical, Frames, Added, Removed
<1>4. /\ AtDiff' <=> AtDiff
      /\ \A u : (Present(u)' <=> Present(u)) /\ (Excused(u)' <=> Excused(u))
      /\ RemoteUsers' = RemoteUsers
  <2>1. AtDiff' <=> AtDiff
    BY Zenon, <1>2 DEF AtDiff
  <2>2. \A u : Excused(u)' <=> Excused(u)
    BY Zenon, <1>2 DEF Excused
  <2>3. RemoteUsers' = RemoteUsers /\ LocalUsers(chan)' = LocalUsers(chan)
    BY Zenon, <1>2 DEF RemoteUsers, LocalUsers
  <2> QED BY Zenon, <2>1, <2>2, <2>3 DEF Present
<1>5. CASE obj["bus"] # chan
  <2>1. queue' = queue /\ kicked' = kicked
    BY Zenon, <1>1, <1>3, <1>5, BroadcastElsewhere
  <2>2. Backstage
    BY Zenon, <1>2, <2>1 DEF Backstage
  <2>3. SameDiff
    BY Zenon, <1>4, <1>5 DEF SameDiff, AtDiff
  <2> QED BY Zenon, <1>4, <2>2, <2>3, BackstageFrame
<1>6. CASE obj["bus"] = chan
  <2>0. AtDiff /\ chan \in Objects
    BY Zenon, <1>2, <1>3, <1>6 DEF AtDiff
  <2>1. /\ \A t \in Sockets : pc[t] # "subscribe" /\ pc[t] # "announce"
        /\ \A u : ~Kept(u)
        /\ \A t, u : Coming(t, u) <=> Added(u) \in diff
        /\ \A u : Going(u) <=> Removed(u) \in diff
        /\ \A t \in Sockets, u \in Users : InScope(t) => Up(t, u) /\ Down(t, u)
    BY Zenon, <1>3, <1>6, <2>0, HeldByBackground
  <2>2. \A t \in Sockets : pc[t] = "announce_leave" => obj[t] # chan
    <3>1. "bus" \in Tasks /\ "bus" \notin Sockets
      BY Zenon, Apart
    <3>2. \A t \in Sockets : t # "bus" => (pc[t] \in {"unsubscribe", "announce_leave"} => obj[t] # chan)
      BY Zenon, <1>3, <1>6, <2>0, <3>1, Alone
    <3> QED BY <3>1, <3>2
  <2>3. /\ \A t \in Sockets : pc'[t] # "subscribe" /\ pc'[t] # "announce"
        /\ \A u : ~Kept(u)'
        /\ \A t, u : Coming(t, u)' <=> AtDiff' /\ Added(u) \in diff'
        /\ \A u : Going(u)' <=> AtDiff' /\ Removed(u) \in diff'
    <3>1. chan' = chan /\ \A t \in Sockets : pc'[t] = pc[t] /\ obj'[t] = obj[t]
      BY Zenon, <1>2
    <3> QED BY Zenon, <2>1, <2>2, <3>1, StillHeld
  <2>4. \A u : u # f.user => /\ Added(u) \in diff' <=> Added(u) \in diff
                             /\ Removed(u) \in diff' <=> Removed(u) \in diff
    <3>1. \A u : Added(u).user = u /\ Removed(u).user = u
      BY DEF Added, Removed
    <3> QED BY Zenon, <1>1, <3>1
  <2>5. /\ f.kind = "added" => Present(f.user) \/ Excused(f.user)
        /\ f.kind # "added" => ~Present(f.user)
    <3>1. CASE f = Added(f.user)
      <4>1. Present(f.user) \/ Excused(f.user)
        BY Zenon, <1>1, <1>3, <2>0, <3>1 DEF RosterInv, DiffInv, Present
      <4>2. f.kind = "added"
        BY <3>1 DEF Added
      <4> QED BY Zenon, <4>1, <4>2
    <3>2. CASE f = Removed(f.user)
      <4>1. ~Present(f.user)
        BY Zenon, <1>1, <1>3, <2>0, <3>2 DEF RosterInv, DiffInv
      <4>2. f.kind # "added"
        BY <3>2 DEF Removed
      <4> QED BY Zenon, <4>1, <4>2
    <3> QED BY Zenon, <1>3, <3>1, <3>2
  <2>6. StreamInv'
    <3> SUFFICES ASSUME NEW t \in Sockets, NEW u \in Users, InScope(t)' PROVE Up(t, u)' /\ Down(t, u)'
      BY Zenon DEF StreamInv
    <3>1. /\ InScope(t)
          /\ f.user = u => (Told(t, u)' <=> f.kind = "added")
          /\ f.user # u => (Told(t, u)' <=> Told(t, u))
      <4>1. Broadcast(chan, f, None) /\ UNCHANGED <<view, subscribed, tainted>>
        BY Zenon, <1>1, <1>2, <1>6
      <4> QED BY Zenon, <1>3, <2>3, <4>1, ToldToAll
    <3>2. Up(t, u) /\ Down(t, u)
      BY Zenon, <2>1, <3>1
    <3>3. CASE u = f.user
      BY Zenon, <1>4, <2>3, <2>5, <3>1, <3>3 DEF Up, Down
    <3>4. CASE u # f.user
      <4>1. (Coming(t, u)' <=> Coming(t, u)) /\ (Going(u)' <=> Going(u))
        BY Zenon, <1>4, <2>0, <2>1, <2>3, <2>4, <3>4
      <4>2. Told(t, u)' <=> Told(t, u)
        BY Zenon, <3>1, <3>4
      <4> QED BY Zenon, <1>4, <2>3, <3>2, <4>1, <4>2 DEF Up, Down
    <3> QED BY Zenon, <3>3, <3>4
  <2>7. ReadInv'
    BY Zenon, <2>3 DEF ReadInv
  <2>8. DiffInv'
    BY Zenon, <1>1, <1>4 DEF RosterInv, DiffInv
  <2> QED BY Zenon, <2>6, <2>7, <2>8 DEF RosterInv
<1> QED BY Zenon, <1>5, <1>6

\* gc_expired: what is dropped is on the list of the pass.
LEMMA RosterGcExpire ==
    ASSUME CoreInv, RosterInv, NEW silent \in SUBSET SilentPeers, GcExpire(silent)
    PROVE  RosterInv'
<1>1. /\ UNCHANGED <<chan, members, refs, pc, obj, join, subscribed, view, queue, kicked, diff, tainted>>
      /\ pc["gc"] = "idle" /\ expired = {}
      /\ expired' = {x \in silent \X Users : x[2] \in cache[x[1]]}
      /\ cache' = [p \in Peers |-> IF p \in silent THEN {} ELSE cache[p]]
  BY Zenon DEF GcExpire
<1>2. Backstage
  BY Zenon, <1>1 DEF Backstage
<1>3. SameDiff
  BY Zenon, <1>1 DEF SameDiff, AtDiff
<1>4. \A u : ~Excused(u)
  BY <1>1 DEF Excused
<1>5. /\ \A u : u \in RemoteUsers <=> \E p \in Peers : u \in cache[p]
      /\ \A u : u \in RemoteUsers' <=> \E p \in Peers : u \in cache'[p]
  BY Zenon DEF RemoteUsers
<1>6. /\ \A p \in Peers : p \in silent => cache'[p] = {}
      /\ \A p \in Peers : p \notin silent => cache'[p] = cache[p]
  BY Zenon, <1>1
<1>7. \A u : u \in RemoteUsers' => u \in RemoteUsers
  BY Zenon, <1>5, <1>6
<1>8. ASSUME NEW u \in Users, u \in RemoteUsers PROVE u \in RemoteUsers' \/ Excused(u)'
  <2>1. PICK p \in Peers : u \in cache[p]
    BY Zenon, <1>5, <1>8
  <2>2. CASE p \in silent
    <3>1. <<p, u>> \in expired' /\ <<p, u>>[2] = u
      BY <1>1, <2>1, <2>2
    <3>2. pc'["gc"] = "idle"
      BY Zenon, <1>1
    <3> QED BY Zenon, <3>1, <3>2 DEF Excused
  <2>3. CASE p \notin silent
    BY Zenon, <1>5, <1>6, <2>1, <2>3
  <2> QED BY Zenon, <2>2, <2>3
<1> QED BY Zenon, <1>2, <1>3, <1>4, <1>7, <1>8, BackstageFrame

\* The pass goes on to the next member and waits for the channel's lock.
LEMMA RosterGcWaits ==
    ASSUME CoreInv, RosterInv, GcFind \/ GcLock
    PROVE  RosterInv'
<1>1. /\ UNCHANGED <<chan, members, refs, join, subscribed, view, queue, kicked, tainted, cache, diff>>
      /\ pc["gc"] \in {"idle", "gc_lock"}
  BY Zenon DEF GcFind, GcLock
<1>2. pc \in [Tasks -> Labels] /\ obj \in [Tasks -> Objects \union {None}]
  BY Zenon DEF CoreInv, TypeOK
<1>3. \A t \in Tasks : t # "gc" => pc'[t] = pc[t] /\ obj'[t] = obj[t]
  BY <1>2, Apart DEF GcFind, GcLock, Goto
<1>4. \A t \in Sockets : pc'[t] = pc[t] /\ obj'[t] = obj[t]
  BY Zenon, <1>3, Apart
<1>5. pc'["bus"] = pc["bus"] /\ obj'["bus"] = obj["bus"]
  BY <1>3, Apart
<1>6. CASE chan = None /\ GcFind
  <2>1. \A t \in Sockets : pc'[t] # "subscribe" /\ pc'[t] # "announce"
    <3>1. entryLock = None
      BY Zenon, <1>6 DEF GcFind
    <3> QED BY Zenon, <1>4, <3>1, NobodyReads
  <2>2. ASSUME NEW t \in Sockets PROVE ~InScope(t)'
    <3>1. t \notin subscribed
      BY Zenon, <1>6 DEF CoreInv, MemberInv
    <3> QED BY Zenon, <1>1, <2>1, <3>1 DEF InScope
  <2>3. ~AtDiff'
    <3>1. pc["bus"] = "diff" => obj["bus"] # None
      BY Apart DEF CoreInv, BackgroundInv
    <3> QED BY Zenon, <1>1, <1>5, <1>6, <3>1 DEF AtDiff
  <2> QED BY Zenon, <2>1, <2>2, <2>3, RosterOfNobody
<1>7. CASE chan # None \/ GcLock
  <2>1. expired' = expired
    BY Zenon, <1>7 DEF GcFind, GcLock
  <2>2. \A u : Excused(u) => Excused(u)'
    <3>1. CASE GcLock
      <4>1. obj' = obj /\ pc["gc"] # "idle"
        BY <3>1 DEF GcLock
      <4> QED BY Zenon, <1>1, <2>1, <4>1 DEF Excused
    <3>2. CASE GcFind /\ chan # None
      <4>1. obj' = [obj EXCEPT !["gc"] = chan]
        BY Zenon, <3>2 DEF GcFind
      <4>2. obj'["gc"] = chan
        BY Zenon, <1>2, <4>1, Apart
      <4> QED BY Zenon, <1>1, <2>1, <4>2 DEF Excused
    <3> QED BY Zenon, <1>7, <3>1, <3>2
  <2>3. RemoteUsers' = RemoteUsers
    BY Zenon, <1>1 DEF RemoteUsers
  <2>4. Backstage
    BY Zenon, <1>1, <1>4 DEF Backstage
  <2>5. SameDiff
    BY Zenon, <1>1, <1>5 DEF SameDiff, AtDiff
  <2> QED BY Zenon, <2>2, <2>3, <2>4, <2>5, BackstageFrame
<1> QED BY Zenon, <1>6, <1>7

\* The GC looks a dropped member up under the channel's lock, and announces
\* those who are neither here nor on a peer.
LEMMA RosterGcDecide ==
    ASSUME CoreInv, RosterInv, GcDecide
    PROVE  RosterInv'
<1>1. PICK x \in expired :
         /\ expired' = expired \ {x}
         /\ IF Gone(obj["gc"], x[2]) THEN Broadcast(obj["gc"], Removed(x[2]), None)
                                     ELSE queue' = queue /\ kicked' = kicked
  BY Zenon DEF GcDecide
<1>2. /\ UNCHANGED <<chan, members, refs, join, subscribed, view, tainted, cache, diff>>
      /\ pc["gc"] = "gc_decide" /\ pc' = [pc EXCEPT !["gc"] = "idle"] /\ obj' = [obj EXCEPT !["gc"] = None]
  BY Zenon DEF GcDecide, Goto, Release
<1>3. /\ pc \in [Tasks -> Labels] /\ obj \in [Tasks -> Objects \union {None}]
      /\ obj["gc"] \in Objects /\ pc["gc"] \in Critical /\ x[2] \in Users
  <2>1. expired \subseteq Peers \X Users
    BY Zenon DEF CoreInv, TypeOK
  <2>2. x[2] \in Users
    BY <2>1
  <2>3. obj["gc"] \in Objects /\ pc["gc"] \in Critical
    BY <1>2 DEF CoreInv, BackgroundInv, Critical
  <2> QED BY Zenon, <2>2, <2>3 DEF CoreInv, TypeOK
<1>4. /\ \A t \in Tasks : t # "gc" => pc'[t] = pc[t] /\ obj'[t] = obj[t]
      /\ pc'["gc"] = "idle"
  BY <1>2, <1>3, Apart
<1>5. \A t \in Sockets : pc'[t] = pc[t] /\ obj'[t] = obj[t]
  BY Zenon, <1>4, Apart
<1>6. pc'["bus"] = pc["bus"] /\ obj'["bus"] = obj["bus"]
  BY <1>4, Apart
<1>7. /\ AtDiff' <=> AtDiff
      /\ \A u : Present(u)' <=> Present(u)
      /\ RemoteUsers' = RemoteUsers
  <2>0. UNCHANGED <<chan, refs, cache>>
    BY Zenon, <1>2
  <2>1. AtDiff' <=> AtDiff
    BY Zenon, <1>6, <2>0 DEF AtDiff
  <2>3. RemoteUsers' = RemoteUsers /\ LocalUsers(chan)' = LocalUsers(chan)
    BY Zenon, <2>0 DEF RemoteUsers, LocalUsers
  <2> QED BY Zenon, <2>1, <2>3 DEF Present
<1>8. CASE obj["gc"] # chan
  <2>1. queue' = queue /\ kicked' = kicked
    BY Zenon, <1>1, <1>3, <1>8, BroadcastElsewhere
  <2>2. Backstage
    BY Zenon, <1>2, <1>5, <2>1 DEF Backstage
  <2>3. SameDiff
    BY Zenon, <1>2, <1>7 DEF SameDiff
  <2>4. \A u : ~Excused(u)
    BY <1>2, <1>8 DEF Excused
  <2> QED BY Zenon, <1>7, <2>2, <2>3, <2>4, BackstageFrame
<1>9. CASE obj["gc"] = chan
  <2> PICK user : user = x[2]
    OBVIOUS
  <2>0. chan \in Objects /\ user \in Users
    BY Zenon, <1>3, <1>9
  <2>1. /\ \A t \in Sockets : pc[t] # "subscribe" /\ pc[t] # "announce"
        /\ ~AtDiff
        /\ \A t, u : ~Coming(t, u)
        /\ \A u : ~Going(u)
        /\ \A t \in Sockets, u \in Users : InScope(t) => Up(t, u) /\ Down(t, u)
    <3>1. "gc" # "bus"
      OBVIOUS
    <3> QED BY Zenon, <1>3, <1>9, <2>0, <3>1, HeldByBackground
  <2>2. \A t \in Sockets : pc[t] = "announce_leave" => obj[t] # chan
    <3>1. "gc" \in Tasks /\ "gc" \notin Sockets
      BY Zenon, Apart
    <3>2. \A t \in Sockets : t # "gc" => (pc[t] \in {"unsubscribe", "announce_leave"} => obj[t] # chan)
      BY Zenon, <1>3, <1>9, <2>0, <3>1, Alone
    <3> QED BY <3>1, <3>2
  <2>3. /\ \A t \in Sockets : pc'[t] # "subscribe" /\ pc'[t] # "announce"
        /\ \A u : ~Kept(u)'
        /\ \A t, u : ~Coming(t, u)'
        /\ \A u : ~Going(u)'
    BY Zenon, <1>2, <1>5, <1>7, <2>1, <2>2, StillHeld
  <2>4. \A u : u # user => (Excused(u) => Excused(u)')
    BY Zenon, <1>1, <1>4 DEF Excused
  <2>5. Gone(chan, user) <=> ~Present(user)
    BY Zenon DEF Gone, Present
  <2>6. StreamInv'
    <3> SUFFICES ASSUME NEW t \in Sockets, NEW u \in Users, InScope(t)' PROVE Up(t, u)' /\ Down(t, u)'
      BY Zenon DEF StreamInv
    <3>1. CASE Present(user)
      <4>0. queue' = queue /\ kicked' = kicked
        BY Zenon, <1>1, <1>9, <2>5, <3>1
      <4>1. InScope(t)
        BY Zenon, <1>2, <1>5, <4>0 DEF InScope
      <4>2. Told(t, u)' <=> Told(t, u)
        BY Zenon, <1>2, <4>0 DEF Told
      <4>3. Up(t, u) /\ Down(t, u)
        BY Zenon, <2>1, <4>1
      <4>4. Excused(u) => Excused(u)' \/ Present(u)
        BY Zenon, <2>4, <3>1
      <4> QED BY Zenon, <1>7, <2>1, <2>3, <4>2, <4>3, <4>4 DEF Up, Down
    <3>2. CASE ~Present(user)
      <4>1. Removed(user) \in Frames /\ Removed(user).user = user /\ Removed(user).kind # "added"
        BY <2>0 DEF Removed, Frames
      <4>2. Broadcast(chan, Removed(user), None) /\ UNCHANGED <<view, subscribed, tainted>>
        BY Zenon, <1>1, <1>2, <1>9, <2>5, <3>2
      <4>3. /\ InScope(t)
            /\ user = u => (Told(t, u)' <=> Removed(user).kind = "added")
            /\ user # u => (Told(t, u)' <=> Told(t, u))
        BY Zenon, <2>3, <4>1, <4>2, ToldToAll
      <4>4. Up(t, u) /\ Down(t, u)
        BY Zenon, <2>1, <4>3
      <4>5. CASE u = user
        <5>1. ~Told(t, u)' /\ ~Present(u)'
          BY Zenon, <1>7, <3>2, <4>1, <4>3, <4>5
        <5> QED BY Zenon, <2>3, <5>1 DEF Up, Down
      <4>6. CASE u # user
        <5>1. (Told(t, u)' <=> Told(t, u)) /\ (Excused(u) => Excused(u)')
          BY Zenon, <2>4, <4>3, <4>6
        <5> QED BY Zenon, <1>7, <2>1, <2>3, <4>4, <5>1 DEF Up, Down
      <4> QED BY Zenon, <4>5, <4>6
    <3> QED BY Zenon, <3>1, <3>2
  <2>7. ReadInv'
    BY Zenon, <2>3 DEF ReadInv
  <2>8. DiffInv'
    BY Zenon, <1>7, <2>1 DEF DiffInv
  <2> QED BY Zenon, <2>6, <2>7, <2>8 DEF RosterInv
<1> QED BY Zenon, <1>8, <1>9

-----------------------------------------------------------------------------
(* The theorems. *)

\* Every step of the system keeps the rosters.
LEMMA RosterNext ==
    ASSUME HandlerInv, HandlerInv', RosterInv, [Next]_vars
    PROVE  RosterInv'
<1>1. CoreInv
  BY Zenon DEF HandlerInv
<1>2. CASE \E s \in Sockets : SocketStep(s)
  BY Zenon, <1>1, <1>2, RosterWaits, RosterDeliver, RosterLeaves, RosterHandleSubscribe, RosterReap,
     RosterAdmit, RosterSubscribe, RosterAnnounceJoin, RosterUnsubscribe, RosterAnnounceLeave
     DEF SocketStep, Disconnect, Kick
<1>3. CASE BusStep
  BY Zenon, <1>1, <1>3, RosterBusWaits, RosterBusApply, RosterBusDiff DEF BusStep
<1>4. CASE GcStep
  <2>1. CASE \E silent \in SUBSET SilentPeers \ {{}} : GcExpire(silent)
    BY Zenon, <1>1, <2>1, RosterGcExpire
  <2> QED BY Zenon, <1>1, <1>4, <2>1, RosterGcWaits, RosterGcDecide DEF GcStep
<1>5. CASE UNCHANGED vars
  <2>1. UNCHANGED <<chan, members, refs, pc, obj, join, subscribed, view, queue, kicked, tainted, cache,
                    expired, diff>>
    BY Zenon, <1>5
  <2>2. Backstage
    BY Zenon, <2>1 DEF Backstage
  <2>3. SameDiff
    BY Zenon, <2>1 DEF SameDiff, AtDiff
  <2>4. \A u : (Excused(u)' <=> Excused(u)) /\ (u \in RemoteUsers' <=> u \in RemoteUsers)
    BY Zenon, <2>1 DEF Excused, RemoteUsers
  <2> QED BY Zenon, <2>2, <2>3, <2>4, BackstageFrame
<1> QED BY Zenon, <1>2, <1>3, <1>4, <1>5 DEF Next

\* Nobody is in scope at the start.
LEMMA RosterInit == Init => RosterInv
<1> SUFFICES ASSUME Init PROVE RosterInv
  OBVIOUS
<1>1. \A t \in Tasks : pc[t] = "idle"
  BY Zenon DEF Init
<1>2. \A t \in Sockets : ~InScope(t) /\ pc[t] # "subscribe"
  BY <1>1, Apart DEF Init, InScope
<1>3. ~AtDiff
  BY <1>1, Apart DEF AtDiff
<1> QED BY Zenon, <1>2, <1>3 DEF RosterInv, StreamInv, ReadInv, DiffInv

=============================================================================
