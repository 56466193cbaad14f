---------------------------- MODULE CountProofs -----------------------------
(***************************************************************************)
(* Subscription counts across the fleet, for every set of nodes and every  *)
(* number of subscribers, messages and faults: what a node knows of a peer *)
(* once it has all that the peer sent, and what its subscribers were told. *)
(*                                                                         *)
(* While messages are on their way a node's entry need not agree with the  *)
(* peer's count, so the invariant speaks of the last message on the way    *)
(* that accept_seq will let through: what it says is true, unless it was   *)
(* numbered before something that was lost.  A live count is on the way    *)
(* from the moment it has its number, at the end of what is on the bus: a  *)
(* snapshot that is enqueued first goes before it.                         *)
(***************************************************************************)
EXTENDS ChannelCounts, TLAPS

\* Messages, entries and snapshots of counts.
CountMsg == [type : {"count", "snapshot"}, seq : Nat, count : Nat, withheld : BOOLEAN]
CountEntry == [age : {"none", "live", "stale"}, count : Nat]
CountSnap == [step : {"idle", "drawn", "captured"}, seq : Nat, count : Nat]
Tasks == {"handler", "bus", "gc"}

\* A message that accept_seq will let through when its turn comes, and the last
\* of them, which decides what the node will believe.
Takes(s, a, i) == s[i].seq > a /\ \A j \in 1..Len(s) : j < i => s[j].seq < s[i].seq
Final(s, a, i) == Takes(s, a, i) /\ \A j \in 1..Len(s) : j > i => ~Takes(s, a, j)

\* Numbers are drawn before they are used.
CountNumbers(s, a, lost, top, sn) ==
    /\ a <= top /\ lost <= top
    /\ \A i \in 1..Len(s) : s[i].seq > 0 /\ s[i].seq <= top
    /\ sn.step # "idle" => sn.seq > 0 /\ sn.seq <= top

\* The last message is true, unless it may be older than what was lost; so is the
\* entry, when nothing was lost and nothing is on the way; so is a snapshot, unless
\* something newer was numbered since.
LastTruth(s, a, lost, r) ==
    \A i \in 1..Len(s) : Final(s, a, i) /\ s[i].seq > lost => s[i].count = r
HeldTruth(s, a, lost, r, c) ==
    lost = 0 /\ (\A i \in 1..Len(s) : ~Takes(s, a, i)) => c.count = r
ReadTruth(s, a, lost, r, sn) ==
    /\ sn.step = "captured" /\ sn.seq > a /\ sn.seq > lost
    /\ \A i \in 1..Len(s) : s[i].seq <= sn.seq
    => sn.count = r

\* An entry passes its TTL only if something was lost.
HeldInv(lost, c) == (c.age = "none" => c.count = 0) /\ (c.age = "stale" => lost > 0)

\* What one node has of one peer, as values: s is the stream of messages on the
\* way, a the number applied last, lost the number missed last, top the last
\* number drawn, r the number of subscribers, c the entry, sn the snapshot under
\* way; busy between a change of r and the number of its announcement.
Told(s, a, lost, top, r, c, sn, busy) ==
    /\ CountNumbers(s, a, lost, top, sn)
    /\ ~busy => LastTruth(s, a, lost, r) /\ HeldTruth(s, a, lost, r, c) /\ ReadTruth(s, a, lost, r, sn)
    /\ HeldInv(lost, c)

ToldType(s, a, lost, top, r, c, sn) ==
    /\ s \in Seq(CountMsg) /\ a \in Nat /\ lost \in Nat /\ top \in Nat
    /\ r \in Nat /\ c \in CountEntry /\ sn \in CountSnap

CountTypeOK ==
    /\ alive \subseteq Server
    /\ len \in [Server -> Nat]
    /\ drawn \in [Server -> Nat]
    /\ outbox \in [Server -> Seq(CountMsg)]
    /\ pending \in [Server -> CountSnap]
    /\ wire \in [Server -> [Server -> Seq(CountMsg)]]
    /\ counts \in [Server -> [Server -> CountEntry]]
    /\ latest \in [Server -> [Server -> Nat]]
    /\ gap \in [Server -> [Server -> Nat]]
    /\ crossed \in [Server -> BOOLEAN]

\* What is broadcast is a sum, of which only the place matters here.
TaskShape == \E T : task \in [Server -> [Tasks -> T]]
ShownShape == \E T : shown \in [Server -> T]

\* The messages of m on their way to n, with the one that m has yet to enqueue.
WithBox(s, h) == IF h = <<>> THEN s ELSE Append(s, h[1])
Stream(m, n) == WithBox(wire[m][n], outbox[m])

Busy(m) == At(m, "handler") \notin {"idle", "sending"}

ToldOf(n, m) ==
    Told(Stream(m, n), latest[n][m], gap[n][m], drawn[m], len[m], counts[n][m], pending[m], Busy(m))

ToldInv == \A n, m \in alive : n # m => ToldOf(n, m)

\* A count waits to be enqueued while its handler is about to do so.
BoxInv == \A n \in Server : outbox[n] # <<>> <=> At(n, "handler") = "sending"

CountInv == CountTypeOK /\ TaskShape /\ ShownShape /\ BoxInv /\ ToldInv /\ SubscribersSeeTotal

(***************************************************************************)
(* Streams of counts                                                       *)
(***************************************************************************)

\* The numbers of a stream.
LEMMA CountStream ==
    ASSUME NEW s \in Seq(CountMsg)
    PROVE  Len(s) \in Nat /\ \A i \in 1..Len(s) : s[i] \in CountMsg /\ s[i].seq \in Nat
<1>1. Len(s) \in Nat /\ \A i \in 1..Len(s) : s[i] \in CountMsg
  OBVIOUS
<1>2. \A x \in CountMsg : x.seq \in Nat
  BY Zenon DEF CountMsg
<1> QED
  BY Zenon, <1>1, <1>2

\* t is s with the message x at its end, and t is s without its first message.
Longer(t, s, x, a) ==
    /\ Len(t) \in 1..Len(t) /\ t[Len(t)] = x
    /\ \A i \in 1..Len(t) : i \in 1..Len(s) \/ i = Len(t)
    /\ \A i \in 1..Len(s) : i \in 1..Len(t) /\ t[i] = s[i] /\ i < Len(t)
    /\ \A i \in 1..Len(s) : Takes(t, a, i) <=> Takes(s, a, i)
    /\ Takes(t, a, Len(t)) <=> x.seq > a /\ \A i \in 1..Len(s) : s[i].seq < x.seq
Shorter(t, s) ==
    /\ t \in Seq(CountMsg) /\ Len(s) \in Nat /\ Len(t) \in Nat
    /\ Head(s) = s[1] /\ s[1] \in CountMsg /\ 1 \in 1..Len(s)
    /\ \A i \in 1..Len(t) : i + 1 \in 1..Len(s) /\ i + 1 > 1 /\ t[i] = s[i + 1]
    /\ \A i \in 1..Len(s) : i = 1 \/ (i > 1 /\ \E k \in 1..Len(t) : k + 1 = i /\ t[k] = s[i])
    /\ \A i, j \in 1..Len(t) : i < j <=> i + 1 < j + 1

\* A message put at the end does not change which of the others are let through.
LEMMA AppendTakes ==
    ASSUME NEW s \in Seq(CountMsg), NEW x \in CountMsg, NEW a
    PROVE  Longer(Append(s, x), s, x, a)
<1>0. PICK t : t = Append(s, x)
  BY Zenon
<1>1. /\ t \in Seq(CountMsg) /\ Len(s) \in Nat /\ Len(t) = Len(s) + 1 /\ t[Len(s) + 1] = x
      /\ \A i \in 1..Len(s) : t[i] = s[i]
  BY <1>0
<1>2. /\ Len(t) \in 1..Len(t)
      /\ \A i \in 1..Len(t) : i \in 1..Len(s) \/ i = Len(t)
      /\ \A i \in 1..Len(s) : i \in 1..Len(t) /\ i < Len(t)
      /\ \A i, j \in 1..Len(t) : i \in 1..Len(s) /\ j < i => j \in 1..Len(s)
      /\ ~(Len(t) < Len(t))
  BY <1>1
<1>3. t[Len(t)] = x
  BY Zenon, <1>1
<1>4. ASSUME NEW i \in 1..Len(s) PROVE Takes(t, a, i) <=> Takes(s, a, i)
  BY Zenon, <1>1, <1>2 DEF Takes
<1>5. Takes(t, a, Len(t)) <=> x.seq > a /\ \A i \in 1..Len(s) : s[i].seq < x.seq
  BY Zenon, <1>1, <1>2, <1>3 DEF Takes
<1> QED
  BY Zenon, <1>0, <1>1, <1>2, <1>3, <1>4, <1>5 DEF Longer

\* The first message and the others.
LEMMA TailTakes ==
    ASSUME NEW s \in Seq(CountMsg), s # <<>>
    PROVE  Shorter(Tail(s), s)
<1>0. PICK t : t = Tail(s)
  BY Zenon
<1>1. /\ t \in Seq(CountMsg) /\ Len(s) \in Nat /\ Len(t) \in Nat /\ Len(s) # 0 /\ Len(t) + 1 = Len(s)
      /\ Head(s) = s[1] /\ s[1] \in CountMsg
      /\ \A i \in 1..Len(t) : t[i] = s[i + 1]
  BY <1>0
<1>2. 1 \in 1..Len(s)
  BY <1>1
<1>3. \A i \in 1..Len(t) : i + 1 \in 1..Len(s) /\ i + 1 > 1
  BY <1>1
<1>4. ASSUME NEW i \in 1..Len(s), i # 1
      PROVE  i > 1 /\ \E k \in 1..Len(t) : k + 1 = i /\ t[k] = s[i]
  <2>1. i > 1 /\ i - 1 \in 1..Len(t) /\ (i - 1) + 1 = i
    BY <1>1, <1>4
  <2> QED
    BY Zenon, <1>1, <2>1
<1>5. \A i, j \in 1..Len(t) : i < j <=> i + 1 < j + 1
  BY <1>1
<1> QED
  BY Zenon, <1>0, <1>1, <1>2, <1>3, <1>4, <1>5 DEF Shorter

\* A stream with the message that is yet to be enqueued.
LEMMA BoxFacts ==
    ASSUME NEW s \in Seq(CountMsg), NEW h \in Seq(CountMsg)
    PROVE  /\ WithBox(s, h) \in Seq(CountMsg)
           /\ s # <<>> => /\ WithBox(s, h) # <<>> /\ Head(WithBox(s, h)) = Head(s)
                          /\ Tail(WithBox(s, h)) = WithBox(Tail(s), h)
<1>1. CASE h = <<>>
  BY <1>1 DEF WithBox
<1>2. CASE h # <<>>
  <2>1. PICK x \in CountMsg : x = h[1]
    BY <1>2
  <2>2. WithBox(s, h) = Append(s, x) /\ WithBox(Tail(s), h) = Append(Tail(s), x)
    BY Zenon, <1>2, <2>1 DEF WithBox
  <2>3. Append(s, x) \in Seq(CountMsg)
    OBVIOUS
  <2>4. s # <<>> => Append(s, x) # <<>> /\ Head(Append(s, x)) = Head(s)
    OBVIOUS
  <2>5. s # <<>> => Tail(Append(s, x)) = Append(Tail(s), x)
    OBVIOUS
  <2> QED
    BY Zenon, <2>2, <2>3, <2>4, <2>5
<1> QED
  BY Zenon, <1>1, <1>2

\* A delivery lets through the same messages as before: accept_seq moves the mark.
LEMMA DeliverTakes ==
    ASSUME NEW s \in Seq(CountMsg), s # <<>>, NEW t, t = Tail(s), NEW a \in Nat,
           NEW b, b = IF s[1].seq > a THEN s[1].seq ELSE a
    PROVE  \A i \in 1..Len(t) : Takes(t, b, i) <=> Takes(s, a, i + 1)
<1>1. /\ t \in Seq(CountMsg) /\ Len(s) \in Nat /\ Len(t) \in Nat
      /\ s[1] \in CountMsg /\ 1 \in 1..Len(s)
      /\ \A i \in 1..Len(t) : i + 1 \in 1..Len(s) /\ i + 1 > 1 /\ t[i] = s[i + 1]
      /\ \A i \in 1..Len(s) : i = 1 \/ (i > 1 /\ \E k \in 1..Len(t) : k + 1 = i /\ t[k] = s[i])
      /\ \A i, j \in 1..Len(t) : i < j <=> i + 1 < j + 1
  BY Zenon, TailTakes DEF Shorter
<1>2. \A i \in 1..Len(s) : s[i].seq \in Nat
  BY Zenon, CountStream
<1>3. SUFFICES ASSUME NEW i \in 1..Len(t)
               PROVE  Takes(t, b, i) <=> Takes(s, a, i + 1)
  OBVIOUS
<1>4. i + 1 \in 1..Len(s) /\ i + 1 > 1 /\ t[i] = s[i + 1] /\ s[i + 1].seq \in Nat /\ s[1].seq \in Nat
  BY Zenon, <1>1, <1>2
<1>5. t[i].seq > b <=> s[i + 1].seq > a /\ s[1].seq < s[i + 1].seq
  BY <1>4
<1>6. ASSUME Takes(t, b, i) PROVE Takes(s, a, i + 1)
  <2>1. s[i + 1].seq > a /\ s[1].seq < s[i + 1].seq
    BY Zenon, <1>5, <1>6 DEF Takes
  <2>2. ASSUME NEW j \in 1..Len(s), j < i + 1, j # 1 PROVE s[j].seq < s[i + 1].seq
    <3>1. PICK k \in 1..Len(t) : k + 1 = j /\ t[k] = s[j]
      BY Zenon, <1>1, <2>2
    <3>2. k < i
      BY Zenon, <1>1, <2>2, <3>1
    <3> QED
      BY Zenon, <1>4, <1>6, <3>1, <3>2 DEF Takes
  <2> QED
    BY Zenon, <2>1, <2>2 DEF Takes
<1>7. ASSUME Takes(s, a, i + 1) PROVE Takes(t, b, i)
  <2>1. t[i].seq > b
    <3>1. 1 < i + 1
      BY <1>4
    <3> QED
      BY Zenon, <1>1, <1>5, <1>7, <3>1 DEF Takes
  <2>2. ASSUME NEW j \in 1..Len(t), j < i PROVE t[j].seq < t[i].seq
    <3>1. j + 1 \in 1..Len(s) /\ j + 1 < i + 1 /\ t[j] = s[j + 1]
      BY Zenon, <1>1, <2>2
    <3> QED
      BY Zenon, <1>4, <1>7, <3>1 DEF Takes
  <2> QED
    BY Zenon, <2>1, <2>2 DEF Takes
<1> QED
  BY Zenon, <1>6, <1>7

(***************************************************************************)
(* What each event does to what a node has of a peer                       *)
(***************************************************************************)

\* The peer's count changes; nothing is said of it yet.
LEMMA ToldBusy ==
    ASSUME NEW s, NEW a, NEW lost, NEW top, NEW r, NEW c, NEW sn, NEW busy, NEW q, NEW b,
           Told(s, a, lost, top, r, c, sn, busy), b
    PROVE  Told(s, a, lost, top, q, c, sn, b)
  BY Zenon DEF Told

\* The peer announces its count with a new number.
LEMMA ToldAnnounce ==
    ASSUME NEW s, NEW a, NEW lost, NEW top, NEW r, NEW c, NEW sn, NEW busy,
           ToldType(s, a, lost, top, r, c, sn), Told(s, a, lost, top, r, c, sn, busy),
           NEW x \in CountMsg, x.count = r, x.seq = top + 1, NEW b
    PROVE  Told(Append(s, x), a, lost, top + 1, r, c, sn, b)
<1>1. PICK t : t = Append(s, x)
  BY Zenon
<1>2. /\ s \in Seq(CountMsg) /\ a \in Nat /\ lost \in Nat /\ top \in Nat /\ sn \in CountSnap
      /\ CountNumbers(s, a, lost, top, sn) /\ HeldInv(lost, c)
  BY Zenon DEF ToldType, Told
<1>3. /\ Len(t) \in 1..Len(t) /\ t[Len(t)] = x
      /\ \A i \in 1..Len(t) : i \in 1..Len(s) \/ i = Len(t)
      /\ \A i \in 1..Len(s) : i \in 1..Len(t) /\ t[i] = s[i] /\ i < Len(t)
      /\ \A i \in 1..Len(s) : Takes(t, a, i) <=> Takes(s, a, i)
      /\ Takes(t, a, Len(t)) <=> x.seq > a /\ \A i \in 1..Len(s) : s[i].seq < x.seq
  BY Zenon, <1>1, <1>2, AppendTakes DEF Longer
<1>4. \A i \in 1..Len(s) : s[i].seq \in Nat
  BY Zenon, <1>2, CountStream
<1>5. sn.seq \in Nat
  BY Zenon, <1>2 DEF CountSnap
<1>6. /\ x.seq > a /\ x.seq > 0 /\ x.seq <= top + 1 /\ a <= top + 1 /\ lost <= top + 1
      /\ sn.step # "idle" => sn.seq > 0 /\ sn.seq <= top + 1 /\ ~(x.seq <= sn.seq)
  BY <1>2, <1>5 DEF CountNumbers
<1>7. \A i \in 1..Len(s) : s[i].seq < x.seq /\ s[i].seq > 0 /\ s[i].seq <= top + 1
  BY <1>2, <1>4 DEF CountNumbers
<1>8. Takes(t, a, Len(t))
  BY Zenon, <1>3, <1>6, <1>7
<1>9. CountNumbers(t, a, lost, top + 1, sn)
  <2>1. \A i \in 1..Len(t) : t[i].seq > 0 /\ t[i].seq <= top + 1
    BY Zenon, <1>3, <1>6, <1>7
  <2> QED
    BY Zenon, <1>6, <2>1 DEF CountNumbers
<1>10. LastTruth(t, a, lost, r)
  <2>1. ASSUME NEW i \in 1..Len(t), Final(t, a, i) PROVE i = Len(t)
    <3>1. i \in 1..Len(s) => Len(t) > i
      <4>1. Len(s) \in Nat
        BY Zenon, <1>2, CountStream
      <4> QED
        BY <1>3, <4>1
    <3> QED
      BY Zenon, <1>3, <1>8, <2>1, <3>1 DEF Final
  <2> QED
    BY Zenon, <1>3, <2>1 DEF LastTruth
<1>11. HeldTruth(t, a, lost, r, c)
  BY Zenon, <1>3, <1>8 DEF HeldTruth
<1>12. ReadTruth(t, a, lost, r, sn)
  <2>1. sn.step = "captured" => sn.step # "idle"
    OBVIOUS
  <2> QED
    BY Zenon, <1>3, <1>6, <2>1 DEF ReadTruth
<1> QED
  BY Zenon, <1>1, <1>2, <1>9, <1>10, <1>11, <1>12 DEF Told

\* The peer draws the number of a snapshot.
LEMMA ToldDraw ==
    ASSUME NEW s, NEW a, NEW lost, NEW top, NEW r, NEW c, NEW sn, NEW busy,
           ToldType(s, a, lost, top, r, c, sn), Told(s, a, lost, top, r, c, sn, busy),
           NEW z, z.step = "drawn", z.seq = top + 1
    PROVE  Told(s, a, lost, top + 1, r, c, z, busy)
<1>1. /\ s \in Seq(CountMsg) /\ a \in Nat /\ lost \in Nat /\ top \in Nat
      /\ CountNumbers(s, a, lost, top, sn)
  BY Zenon DEF ToldType, Told
<1>2. \A i \in 1..Len(s) : s[i].seq \in Nat
  BY Zenon, <1>1, CountStream
<1>3. CountNumbers(s, a, lost, top + 1, z)
  <2>1. a <= top + 1 /\ lost <= top + 1 /\ top + 1 > 0 /\ top + 1 <= top + 1
    BY <1>1 DEF CountNumbers
  <2>2. \A i \in 1..Len(s) : s[i].seq > 0 /\ s[i].seq <= top + 1
    BY <1>1, <1>2 DEF CountNumbers
  <2> QED
    BY Zenon, <1>1, <2>1, <2>2 DEF CountNumbers
<1>4. ReadTruth(s, a, lost, r, z)
  BY DEF ReadTruth
<1> QED
  BY Zenon, <1>3, <1>4 DEF Told

\* The peer reads its count into the snapshot.
LEMMA ToldCapture ==
    ASSUME NEW s, NEW a, NEW lost, NEW top, NEW r, NEW c, NEW sn, NEW busy,
           Told(s, a, lost, top, r, c, sn, busy), sn.step = "drawn",
           NEW z, z.seq = sn.seq, z.count = r
    PROVE  Told(s, a, lost, top, r, c, z, busy)
<1>1. sn.step # "idle"
  OBVIOUS
<1>2. CountNumbers(s, a, lost, top, z) /\ ReadTruth(s, a, lost, r, z)
  BY Zenon, <1>1 DEF Told, CountNumbers, ReadTruth
<1> QED
  BY Zenon, <1>2 DEF Told

\* The peer sends the snapshot.
LEMMA ToldSend ==
    ASSUME NEW s, NEW a, NEW lost, NEW top, NEW r, NEW c, NEW sn, NEW busy,
           ToldType(s, a, lost, top, r, c, sn), Told(s, a, lost, top, r, c, sn, busy),
           sn.step = "captured",
           NEW x \in CountMsg, x.count = sn.count, x.seq = sn.seq
    PROVE  Told(Append(s, x), a, lost, top, r, c, NotPending, busy)
<1>1. PICK t : t = Append(s, x)
  BY Zenon
<1>2. /\ s \in Seq(CountMsg) /\ a \in Nat /\ sn \in CountSnap
      /\ CountNumbers(s, a, lost, top, sn) /\ HeldInv(lost, c)
  BY Zenon DEF ToldType, Told
<1>3. /\ Len(t) \in 1..Len(t) /\ t[Len(t)] = x
      /\ \A i \in 1..Len(t) : i \in 1..Len(s) \/ i = Len(t)
      /\ \A i \in 1..Len(s) : i \in 1..Len(t) /\ t[i] = s[i] /\ i < Len(t)
      /\ \A i \in 1..Len(s) : Takes(t, a, i) <=> Takes(s, a, i)
      /\ Takes(t, a, Len(t)) <=> x.seq > a /\ \A i \in 1..Len(s) : s[i].seq < x.seq
  BY Zenon, <1>1, <1>2, AppendTakes DEF Longer
<1>4. sn.step # "idle" /\ NotPending.step = "idle"
  BY DEF NotPending
<1>5. CountNumbers(t, a, lost, top, NotPending)
  <2>1. \A i \in 1..Len(t) : t[i].seq > 0 /\ t[i].seq <= top
    BY Zenon, <1>2, <1>3, <1>4 DEF CountNumbers
  <2> QED
    BY Zenon, <1>2, <1>4, <2>1 DEF CountNumbers
<1>6. ASSUME ~busy PROVE LastTruth(t, a, lost, r)
  <2> SUFFICES ASSUME NEW i \in 1..Len(t), Final(t, a, i), t[i].seq > lost
               PROVE  t[i].count = r
    BY Zenon DEF LastTruth
  <2>1. LastTruth(s, a, lost, r) /\ ReadTruth(s, a, lost, r, sn)
    BY Zenon, <1>6 DEF Told
  <2>2. CASE i = Len(t)
    <3>1. sn.seq > a /\ (\A k \in 1..Len(s) : s[k].seq < sn.seq) /\ sn.seq > lost
      BY Zenon, <1>3, <2>2 DEF Final
    <3>2. sn.seq \in Nat /\ \A k \in 1..Len(s) : s[k].seq \in Nat
      BY Zenon, <1>2, CountStream DEF CountSnap
    <3>3. \A k \in 1..Len(s) : s[k].seq <= sn.seq
      BY <3>1, <3>2
    <3> QED
      BY Zenon, <1>3, <2>1, <2>2, <3>1, <3>3 DEF ReadTruth
  <2>3. CASE i # Len(t)
    <3>1. i \in 1..Len(s) /\ t[i] = s[i]
      BY Zenon, <1>3, <2>3
    <3>2. Final(s, a, i)
      BY Zenon, <1>3, <3>1 DEF Final
    <3> QED
      BY Zenon, <2>1, <3>1, <3>2 DEF LastTruth
  <2> QED
    BY Zenon, <2>2, <2>3
<1>7. ASSUME ~busy PROVE HeldTruth(t, a, lost, r, c)
  <2>1. HeldTruth(s, a, lost, r, c)
    BY Zenon, <1>7 DEF Told
  <2> QED
    BY Zenon, <1>3, <2>1 DEF HeldTruth
<1>8. ReadTruth(t, a, lost, r, NotPending)
  BY <1>4 DEF ReadTruth
<1> QED
  BY Zenon, <1>1, <1>2, <1>5, <1>6, <1>7, <1>8 DEF Told

\* The peer sends the snapshot while its handler has a count to enqueue.  It
\* silences that count if its number is the later one, and was read after it.
LEMMA ToldInsert ==
    ASSUME NEW s \in Seq(CountMsg), NEW y \in CountMsg,
           NEW a, NEW lost, NEW top, NEW r, NEW c, NEW sn, NEW busy,
           ToldType(Append(s, y), a, lost, top, r, c, sn), Told(Append(s, y), a, lost, top, r, c, sn, busy),
           sn.step = "captured",
           NEW x \in CountMsg, x.count = sn.count, x.seq = sn.seq
    PROVE  Told(Append(Append(s, x), y), a, lost, top, r, c, NotPending, busy)
<1>0. PICK k : k = Len(s)
  BY Zenon
<1>1. PICK o : o = Append(s, y)
  BY Zenon
<1>2. PICK p : p = Append(s, x)
  BY Zenon
<1>3. PICK t : t = Append(p, y)
  BY Zenon
<1>4. k \in Nat /\ \A i \in 1..k : s[i].seq \in Nat
  BY Zenon, <1>0, CountStream
<1>5. Len(o) = k + 1 /\ o[k + 1] = y /\ \A i \in 1..k : o[i] = s[i]
  BY <1>0, <1>1
<1>6. p \in Seq(CountMsg) /\ Len(p) = k + 1 /\ p[k + 1] = x /\ \A i \in 1..k : p[i] = s[i]
  BY <1>0, <1>2
<1>7. Len(t) = k + 2 /\ t[k + 2] = y /\ t[k + 1] = x /\ \A i \in 1..k : t[i] = s[i]
  <2>1. Len(t) = Len(p) + 1 /\ t[Len(p) + 1] = y /\ \A i \in 1..Len(p) : t[i] = p[i]
    BY <1>3, <1>6
  <2>2. Len(p) + 1 = k + 2 /\ k + 1 \in 1..Len(p) /\ \A i \in 1..k : i \in 1..Len(p)
    BY <1>4, <1>6
  <2> QED
    BY Zenon, <1>6, <2>1, <2>2
<1>8. /\ 1..Len(o) = 1..k \cup {k + 1} /\ 1..Len(t) = 1..k \cup {k + 1, k + 2}
      /\ k + 1 \in 1..Len(t) /\ k + 2 \in 1..Len(t) /\ k + 1 \in 1..Len(o)
      /\ \A i \in 1..k : i < k + 1 /\ i < k + 2 /\ ~(k + 1 < i) /\ ~(k + 2 < i)
      /\ k + 1 < k + 2 /\ ~(k + 2 < k + 1) /\ ~(k + 1 < k + 1) /\ ~(k + 2 < k + 2)
  BY <1>4, <1>5, <1>7
<1>9. a \in Nat /\ lost \in Nat /\ top \in Nat /\ sn.seq \in Nat /\ y.seq \in Nat
  BY Zenon DEF ToldType, CountSnap, CountMsg
<1>10. CountNumbers(o, a, lost, top, sn) /\ HeldInv(lost, c)
  BY Zenon, <1>1 DEF Told
\* Which messages are let through.
<1>11. \A i \in 1..k : Takes(t, a, i) <=> Takes(o, a, i)
  <2> SUFFICES ASSUME NEW i \in 1..k PROVE Takes(t, a, i) <=> Takes(o, a, i)
    BY Zenon
  <2>1. Takes(o, a, i) <=> s[i].seq > a /\ \A j \in 1..k : j < i => s[j].seq < s[i].seq
    BY Zenon, <1>5, <1>8 DEF Takes
  <2>2. Takes(t, a, i) <=> s[i].seq > a /\ \A j \in 1..k : j < i => s[j].seq < s[i].seq
    BY Zenon, <1>7, <1>8 DEF Takes
  <2> QED
    BY Zenon, <2>1, <2>2
<1>12. Takes(t, a, k + 1) <=> sn.seq > a /\ \A i \in 1..k : s[i].seq < sn.seq
  BY Zenon, <1>7, <1>8 DEF Takes
<1>13. Takes(o, a, k + 1) <=> y.seq > a /\ \A i \in 1..k : s[i].seq < y.seq
  BY Zenon, <1>5, <1>8 DEF Takes
<1>14. Takes(t, a, k + 2) <=> Takes(o, a, k + 1) /\ sn.seq < y.seq
  <2>1. Takes(t, a, k + 2) <=> y.seq > a /\ (\A i \in 1..k : s[i].seq < y.seq) /\ sn.seq < y.seq
    BY Zenon, <1>7, <1>8 DEF Takes
  <2> QED
    BY Zenon, <1>13, <2>1
\* If the count is silenced, it is by the snapshot.
<1>15. Takes(o, a, k + 1) => Takes(t, a, k + 2) \/ Takes(t, a, k + 1)
  <2> SUFFICES ASSUME Takes(o, a, k + 1), ~(sn.seq < y.seq) PROVE Takes(t, a, k + 1)
    BY Zenon, <1>14
  <2>1. y.seq > a /\ \A i \in 1..k : s[i].seq < y.seq
    BY Zenon, <1>13
  <2>2. sn.seq >= y.seq
    BY <1>9
  <2>3. sn.seq > a /\ \A i \in 1..k : s[i].seq < sn.seq
    BY <1>4, <1>9, <2>1, <2>2
  <2> QED
    BY Zenon, <1>12, <2>3
<1>16. CountNumbers(t, a, lost, top, NotPending)
  <2>1. \A i \in 1..k : s[i].seq > 0 /\ s[i].seq <= top
    BY Zenon, <1>5, <1>8, <1>10 DEF CountNumbers
  <2>2. sn.step # "idle" /\ NotPending.step = "idle"
    BY DEF NotPending
  <2>3. y.seq > 0 /\ y.seq <= top /\ sn.seq > 0 /\ sn.seq <= top
    BY Zenon, <1>5, <1>8, <1>10, <2>2 DEF CountNumbers
  <2>4. \A i \in 1..Len(t) : t[i].seq > 0 /\ t[i].seq <= top
    BY Zenon, <1>7, <1>8, <2>1, <2>3
  <2> QED
    BY Zenon, <1>10, <2>2, <2>4 DEF CountNumbers
<1>17. ASSUME ~busy PROVE LastTruth(t, a, lost, r)
  <2> SUFFICES ASSUME NEW i \in 1..Len(t), Final(t, a, i), t[i].seq > lost
               PROVE  t[i].count = r
    BY Zenon DEF LastTruth
  <2>0. /\ LastTruth(o, a, lost, r) /\ ReadTruth(o, a, lost, r, sn) /\ Takes(t, a, i)
        /\ \A j \in 1..Len(t) : j > i => ~Takes(t, a, j)
    BY Zenon, <1>1, <1>17 DEF Told, Final
  <2>1. CASE i = k + 2
    <3>1. Takes(o, a, k + 1) /\ o[k + 1] = t[i]
      BY Zenon, <1>5, <1>7, <1>14, <2>0, <2>1
    <3>2. \A j \in 1..Len(o) : ~(j > k + 1)
      BY <1>4, <1>5
    <3>3. Final(o, a, k + 1)
      BY Zenon, <3>1, <3>2 DEF Final
    <3> QED
      BY Zenon, <1>8, <2>0, <3>1, <3>3 DEF LastTruth
  <2>2. CASE i = k + 1
    <3>1. sn.seq > a /\ sn.seq > lost /\ \A j \in 1..k : s[j].seq < sn.seq
      BY Zenon, <1>7, <1>12, <2>0, <2>2
    <3>2. \A j \in 1..k : s[j].seq <= sn.seq
      BY <1>4, <1>9, <3>1
    <3>3. y.seq <= sn.seq
      <4> SUFFICES ASSUME ~(y.seq <= sn.seq) PROVE FALSE
        BY Zenon
      <4>1. sn.seq < y.seq /\ y.seq > a /\ \A j \in 1..k : s[j].seq < y.seq
        BY <1>4, <1>9, <3>1
      <4>2. Takes(t, a, k + 2)
        BY Zenon, <1>13, <1>14, <4>1
      <4>3. k + 2 > i
        BY <1>4, <2>2
      <4> QED
        BY Zenon, <1>8, <2>0, <4>2, <4>3
    <3>4. \A j \in 1..Len(o) : o[j].seq <= sn.seq
      BY Zenon, <1>5, <1>8, <3>2, <3>3
    <3>5. sn.count = r
      BY Zenon, <2>0, <3>1, <3>4 DEF ReadTruth
    <3> QED
      BY Zenon, <1>7, <2>2, <3>5
  <2>3. CASE i \in 1..k
    <3>1. Takes(o, a, i) /\ o[i] = t[i] /\ i \in 1..Len(o)
      BY Zenon, <1>5, <1>7, <1>8, <1>11, <2>0, <2>3
    <3>2. k + 1 > i /\ k + 2 > i
      BY <1>4, <2>3
    <3>3. ~Takes(o, a, k + 1)
      BY Zenon, <1>8, <1>15, <2>0, <3>2
    <3>4. \A j \in 1..Len(o) : j > i => ~Takes(o, a, j)
      BY Zenon, <1>8, <1>11, <2>0, <3>3
    <3>5. Final(o, a, i)
      BY Zenon, <3>1, <3>4 DEF Final
    <3> QED
      BY Zenon, <2>0, <3>1, <3>5 DEF LastTruth
  <2> QED
    BY Zenon, <1>8, <2>1, <2>2, <2>3
<1>18. ASSUME ~busy PROVE HeldTruth(t, a, lost, r, c)
  <2>1. HeldTruth(o, a, lost, r, c)
    BY Zenon, <1>1, <1>18 DEF Told
  <2>2. (\A i \in 1..Len(t) : ~Takes(t, a, i)) => \A i \in 1..Len(o) : ~Takes(o, a, i)
    BY Zenon, <1>8, <1>11, <1>15
  <2> QED
    BY Zenon, <2>1, <2>2 DEF HeldTruth
<1>19. ReadTruth(t, a, lost, r, NotPending)
  BY DEF ReadTruth, NotPending
<1>20. Told(t, a, lost, top, r, c, NotPending, busy)
  BY Zenon, <1>10, <1>16, <1>17, <1>18, <1>19 DEF Told
<1> QED
  BY Zenon, <1>2, <1>3, <1>20

\* accept_seq: the mark after x, and what is still missed.
MarkAfter(x, a) == IF x.seq > a THEN x.seq ELSE a
GapAfter(x, a, lost) == IF x.seq > a /\ x.type = "snapshot" /\ x.seq > lost THEN 0 ELSE lost
Believes(x, a, c, d) == d.count = IF x.seq > a THEN x.count ELSE c.count

\* The node applies the first message on the way, or drops it as too old.
LEMMA ToldDeliver ==
    ASSUME NEW s, NEW a, NEW lost, NEW top, NEW r, NEW c, NEW sn, NEW busy,
           ToldType(s, a, lost, top, r, c, sn), Told(s, a, lost, top, r, c, sn, busy), s # <<>>,
           NEW d, HeldInv(GapAfter(Head(s), a, lost), d), Believes(Head(s), a, c, d)
    PROVE  Told(Tail(s), MarkAfter(Head(s), a), GapAfter(Head(s), a, lost), top, r, d, sn, busy)
<1>1. PICK t, b, left : t = Tail(s) /\ b = MarkAfter(Head(s), a) /\ left = GapAfter(Head(s), a, lost)
  BY Zenon
<1>2. /\ s \in Seq(CountMsg) /\ a \in Nat /\ lost \in Nat /\ top \in Nat /\ sn \in CountSnap
      /\ CountNumbers(s, a, lost, top, sn)
  BY Zenon DEF ToldType, Told
<1>3. /\ t \in Seq(CountMsg) /\ Len(s) \in Nat /\ Len(t) \in Nat
      /\ Head(s) = s[1] /\ s[1] \in CountMsg /\ 1 \in 1..Len(s)
      /\ \A i \in 1..Len(t) : i + 1 \in 1..Len(s) /\ i + 1 > 1 /\ t[i] = s[i + 1]
      /\ \A i \in 1..Len(s) : i = 1 \/ (i > 1 /\ \E k \in 1..Len(t) : k + 1 = i /\ t[k] = s[i])
      /\ \A i, j \in 1..Len(t) : i < j <=> i + 1 < j + 1
  BY Zenon, <1>1, <1>2, TailTakes DEF Shorter
<1>4. /\ b = IF s[1].seq > a THEN s[1].seq ELSE a
      /\ left = IF s[1].seq > a /\ s[1].type = "snapshot" /\ s[1].seq > lost THEN 0 ELSE lost
      /\ d.count = IF s[1].seq > a THEN s[1].count ELSE c.count
      /\ HeldInv(left, d)
  BY Zenon, <1>1, <1>3 DEF MarkAfter, GapAfter, Believes
<1>5. \A i \in 1..Len(s) : s[i].seq \in Nat
  BY Zenon, <1>2, CountStream
<1>6. \A i \in 1..Len(t) : Takes(t, b, i) <=> Takes(s, a, i + 1)
  BY Zenon, <1>1, <1>2, <1>4, DeliverTakes
<1>7. /\ s[1].seq \in Nat /\ s[1].seq > 0 /\ s[1].seq <= top /\ a <= top /\ lost <= top
      /\ b \in Nat /\ left \in Nat /\ b >= a /\ b >= s[1].seq /\ b <= top /\ left <= top
  BY <1>2, <1>3, <1>4, <1>5 DEF CountNumbers
<1>8. Takes(s, a, 1) <=> s[1].seq > a
  <2>1. \A j \in 1..Len(s) : ~(j < 1)
    BY <1>3
  <2> QED
    BY Zenon, <2>1 DEF Takes
<1>9. CountNumbers(t, b, left, top, sn)
  <2>1. \A i \in 1..Len(t) : t[i].seq > 0 /\ t[i].seq <= top
    BY Zenon, <1>2, <1>3 DEF CountNumbers
  <2> QED
    BY Zenon, <1>2, <1>7, <2>1 DEF CountNumbers
<1>10. ASSUME ~busy PROVE LastTruth(t, b, left, r)
  <2> SUFFICES ASSUME NEW i \in 1..Len(t), Final(t, b, i), t[i].seq > left
               PROVE  t[i].count = r
    BY Zenon DEF LastTruth
  <2>1. i + 1 \in 1..Len(s) /\ t[i] = s[i + 1] /\ i + 1 > 1 /\ Takes(s, a, i + 1)
    BY Zenon, <1>3, <1>6 DEF Final
  <2>2. Final(s, a, i + 1)
    <3>1. ASSUME NEW j \in 1..Len(s), j > i + 1 PROVE ~Takes(s, a, j)
      <4>1. j # 1
        BY <1>3, <2>1, <3>1
      <4>2. PICK k \in 1..Len(t) : k + 1 = j
        BY Zenon, <1>3, <4>1
      <4>3. k > i
        BY <1>3, <3>1, <4>2
      <4> QED
        BY Zenon, <1>6, <4>2, <4>3 DEF Final
    <3> QED
      BY Zenon, <2>1, <3>1 DEF Final
  <2>3. s[i + 1].seq > lost
    <3>1. CASE left = lost
      BY Zenon, <2>1, <3>1
    <3>2. CASE left # lost
      <4>1. s[1].seq > lost
        BY Zenon, <1>4, <3>2
      <4>2. s[1].seq < s[i + 1].seq
        <5>1. 1 < i + 1
          BY <2>1
        <5> QED
          BY Zenon, <1>3, <2>1, <5>1 DEF Takes
      <4>3. s[i + 1].seq \in Nat
        BY Zenon, <1>5, <2>1
      <4> QED
        BY <1>2, <1>7, <4>1, <4>2, <4>3
    <3> QED
      BY Zenon, <3>1, <3>2
  <2>4. LastTruth(s, a, lost, r)
    BY Zenon, <1>10 DEF Told
  <2> QED
    BY Zenon, <2>1, <2>2, <2>3, <2>4 DEF LastTruth
<1>11. ASSUME ~busy PROVE HeldTruth(t, b, left, r, d)
  <2> SUFFICES ASSUME left = 0, \A i \in 1..Len(t) : ~Takes(t, b, i)
               PROVE  d.count = r
    BY Zenon DEF HeldTruth
  <2>1. \A i \in 1..Len(s) : i # 1 => ~Takes(s, a, i)
    BY Zenon, <1>3, <1>6
  <2>2. LastTruth(s, a, lost, r) /\ HeldTruth(s, a, lost, r, c)
    BY Zenon, <1>11 DEF Told
  <2>3. CASE s[1].seq > a
    <3>1. Final(s, a, 1)
      <4>1. \A j \in 1..Len(s) : j > 1 => j # 1
        BY <1>3
      <4> QED
        BY Zenon, <1>8, <2>1, <2>3, <4>1 DEF Final
    <3>2. s[1].seq > lost
      <4>1. CASE lost = 0
        BY Zenon, <1>7, <4>1
      <4>2. CASE lost # 0
        BY Zenon, <1>4, <4>2
      <4> QED
        BY Zenon, <4>1, <4>2
    <3>3. s[1].count = r
      BY Zenon, <1>3, <2>2, <3>1, <3>2 DEF LastTruth
    <3> QED
      BY Zenon, <1>4, <2>3, <3>3
  <2>4. CASE ~(s[1].seq > a)
    <3>1. lost = 0 /\ d.count = c.count
      BY Zenon, <1>4, <2>4
    <3>2. \A i \in 1..Len(s) : ~Takes(s, a, i)
      BY Zenon, <1>8, <2>1, <2>4
    <3> QED
      BY Zenon, <2>2, <3>1, <3>2 DEF HeldTruth
  <2> QED
    BY Zenon, <2>3, <2>4
<1>12. ASSUME ~busy PROVE ReadTruth(t, b, left, r, sn)
  <2> SUFFICES ASSUME sn.step = "captured", sn.seq > b, sn.seq > left,
                      \A i \in 1..Len(t) : t[i].seq <= sn.seq
               PROVE  sn.count = r
    BY Zenon DEF ReadTruth
  <2>1. sn.seq \in Nat
    BY Zenon, <1>2 DEF CountSnap
  <2>2. sn.seq > a /\ s[1].seq < sn.seq /\ s[1].seq <= sn.seq
    BY <1>2, <1>7, <2>1
  <2>3. sn.seq > lost
    <3>1. left = lost \/ s[1].seq > lost
      BY Zenon, <1>4
    <3> QED
      BY <1>2, <1>7, <2>1, <2>2, <3>1
  <2>4. \A i \in 1..Len(s) : s[i].seq <= sn.seq
    BY Zenon, <1>3, <2>2
  <2>5. ReadTruth(s, a, lost, r, sn)
    BY Zenon, <1>12 DEF Told
  <2> QED
    BY Zenon, <2>2, <2>3, <2>4, <2>5 DEF ReadTruth
<1> QED
  BY Zenon, <1>1, <1>4, <1>9, <1>10, <1>11, <1>12 DEF Told

\* The first message on the way is lost.
GapLost(x, lost) == IF x.seq > lost THEN x.seq ELSE lost

\* accept_seq never sees it, and nothing is believed that may be older.
LEMMA ToldLose ==
    ASSUME NEW s, NEW a, NEW lost, NEW top, NEW r, NEW c, NEW sn, NEW busy,
           ToldType(s, a, lost, top, r, c, sn), Told(s, a, lost, top, r, c, sn, busy), s # <<>>
    PROVE  Told(Tail(s), a, GapLost(Head(s), lost), top, r, c, sn, busy)
<1>1. PICK t, left : t = Tail(s) /\ left = GapLost(Head(s), lost)
  BY Zenon
<1>2. /\ s \in Seq(CountMsg) /\ a \in Nat /\ lost \in Nat /\ top \in Nat /\ sn \in CountSnap
      /\ CountNumbers(s, a, lost, top, sn) /\ HeldInv(lost, c)
  BY Zenon DEF ToldType, Told
<1>3. /\ t \in Seq(CountMsg) /\ Len(s) \in Nat /\ Len(t) \in Nat
      /\ Head(s) = s[1] /\ s[1] \in CountMsg /\ 1 \in 1..Len(s)
      /\ \A i \in 1..Len(t) : i + 1 \in 1..Len(s) /\ i + 1 > 1 /\ t[i] = s[i + 1]
      /\ \A i \in 1..Len(s) : i = 1 \/ (i > 1 /\ \E k \in 1..Len(t) : k + 1 = i /\ t[k] = s[i])
      /\ \A i, j \in 1..Len(t) : i < j <=> i + 1 < j + 1
  BY Zenon, <1>1, <1>2, TailTakes DEF Shorter
<1>4. left = IF s[1].seq > lost THEN s[1].seq ELSE lost
  BY Zenon, <1>1, <1>3 DEF GapLost
<1>5. \A i \in 1..Len(s) : s[i].seq \in Nat
  BY Zenon, <1>2, CountStream
<1>6. /\ s[1].seq \in Nat /\ s[1].seq > 0 /\ a <= top
      /\ left \in Nat /\ left >= lost /\ left >= s[1].seq /\ left <= top /\ left > 0 /\ left # 0
  BY <1>2, <1>3, <1>4, <1>5 DEF CountNumbers
<1>7. ASSUME NEW i \in 1..Len(t), Takes(s, a, i + 1) PROVE Takes(t, a, i)
  <2>1. ASSUME NEW j \in 1..Len(t), j < i PROVE t[j].seq < t[i].seq
    <3>1. j + 1 \in 1..Len(s) /\ j + 1 < i + 1 /\ t[j] = s[j + 1]
      BY Zenon, <1>3, <2>1
    <3> QED
      BY Zenon, <1>3, <1>7, <3>1 DEF Takes
  <2> QED
    BY Zenon, <1>3, <1>7, <2>1 DEF Takes
<1>8. ASSUME NEW i \in 1..Len(t), Takes(t, a, i), t[i].seq > left PROVE Takes(s, a, i + 1)
  <2>1. i + 1 \in 1..Len(s) /\ t[i] = s[i + 1] /\ s[i + 1].seq \in Nat
    BY Zenon, <1>3, <1>5
  <2>2. s[1].seq < s[i + 1].seq
    BY <1>6, <1>8, <2>1
  <2>3. ASSUME NEW j \in 1..Len(s), j < i + 1, j # 1 PROVE s[j].seq < s[i + 1].seq
    <3>1. PICK k \in 1..Len(t) : k + 1 = j /\ t[k] = s[j]
      BY Zenon, <1>3, <2>3
    <3>2. k < i
      BY Zenon, <1>3, <2>3, <3>1
    <3> QED
      BY Zenon, <1>8, <2>1, <3>1, <3>2 DEF Takes
  <2> QED
    BY Zenon, <1>8, <2>1, <2>2, <2>3 DEF Takes
<1>9. CountNumbers(t, a, left, top, sn)
  <2>1. \A i \in 1..Len(t) : t[i].seq > 0 /\ t[i].seq <= top
    BY Zenon, <1>2, <1>3 DEF CountNumbers
  <2> QED
    BY Zenon, <1>2, <1>6, <2>1 DEF CountNumbers
<1>10. ASSUME ~busy PROVE LastTruth(t, a, left, r)
  <2> SUFFICES ASSUME NEW i \in 1..Len(t), Final(t, a, i), t[i].seq > left
               PROVE  t[i].count = r
    BY Zenon DEF LastTruth
  <2>1. i + 1 \in 1..Len(s) /\ t[i] = s[i + 1] /\ i + 1 > 1 /\ s[i + 1].seq \in Nat
    BY Zenon, <1>3, <1>5
  <2>2. Takes(s, a, i + 1)
    BY Zenon, <1>8 DEF Final
  <2>3. Final(s, a, i + 1)
    <3>1. ASSUME NEW j \in 1..Len(s), j > i + 1, Takes(s, a, j) PROVE FALSE
      <4>1. j # 1
        BY <1>3, <2>1, <3>1
      <4>2. PICK k \in 1..Len(t) : k + 1 = j
        BY Zenon, <1>3, <4>1
      <4>3. k > i
        BY <1>3, <3>1, <4>2
      <4> QED
        BY Zenon, <1>7, <3>1, <4>2, <4>3 DEF Final
    <3> QED
      BY Zenon, <2>2, <3>1 DEF Final
  <2>4. s[i + 1].seq > lost
    BY <1>2, <1>6, <2>1
  <2>5. LastTruth(s, a, lost, r)
    BY Zenon, <1>10 DEF Told
  <2> QED
    BY Zenon, <2>1, <2>3, <2>4, <2>5 DEF LastTruth
<1>11. HeldTruth(t, a, left, r, c) /\ HeldInv(left, c)
  BY Zenon, <1>2, <1>6 DEF HeldTruth, HeldInv
<1>12. ASSUME ~busy PROVE ReadTruth(t, a, left, r, sn)
  <2> SUFFICES ASSUME sn.step = "captured", sn.seq > a, sn.seq > left,
                      \A i \in 1..Len(t) : t[i].seq <= sn.seq
               PROVE  sn.count = r
    BY Zenon DEF ReadTruth
  <2>1. sn.seq \in Nat
    BY Zenon, <1>2 DEF CountSnap
  <2>2. sn.seq > lost /\ s[1].seq <= sn.seq
    BY <1>2, <1>6, <2>1
  <2>3. \A i \in 1..Len(s) : s[i].seq <= sn.seq
    BY Zenon, <1>3, <2>2
  <2>4. ReadTruth(s, a, lost, r, sn)
    BY Zenon, <1>12 DEF Told
  <2> QED
    BY Zenon, <2>2, <2>3, <2>4 DEF ReadTruth
<1> QED
  BY Zenon, <1>1, <1>9, <1>10, <1>11, <1>12 DEF Told

\* An entry goes stale or is reaped only after something was lost.
LEMMA ToldAged ==
    ASSUME NEW s, NEW a, NEW lost, NEW top, NEW r, NEW c, NEW sn, NEW busy,
           ToldType(s, a, lost, top, r, c, sn), Told(s, a, lost, top, r, c, sn, busy), lost > 0,
           NEW d, d.age = "none" => d.count = 0
    PROVE  Told(s, a, lost, top, r, d, sn, busy)
<1>1. lost # 0
  BY DEF ToldType
<1> QED
  BY Zenon, <1>1 DEF Told, HeldTruth, HeldInv

\* Nothing has happened yet.
LEMMA ToldStart ==
    ASSUME NEW b
    PROVE  Told(<<>>, 0, 0, 0, 0, NoCount, NotPending, b)
<1>1. NoCount.count = 0 /\ NoCount.age = "none" /\ NotPending.step = "idle"
  BY DEF NoCount, NotPending
<1>2. \A i \in 1..Len(<<>>) : FALSE
  OBVIOUS
<1>3. CountNumbers(<<>>, 0, 0, 0, NotPending)
  BY <1>1, <1>2 DEF CountNumbers
<1>4. LastTruth(<<>>, 0, 0, 0) /\ HeldTruth(<<>>, 0, 0, 0, NoCount) /\ ReadTruth(<<>>, 0, 0, 0, NotPending)
  BY <1>1, <1>2 DEF LastTruth, HeldTruth, ReadTruth
<1>5. HeldInv(0, NoCount)
  BY <1>1 DEF HeldInv
<1> QED
  BY Zenon, <1>3, <1>4, <1>5 DEF Told

(***************************************************************************)
(* Frames                                                                  *)
(***************************************************************************)

\* One cell of a table of tables.
LEMMA CellChanges ==
    ASSUME NEW S, NEW T, NEW f \in [S -> [S -> T]], NEW i \in S, NEW j \in S, NEW v \in T,
           NEW g, g = [f EXCEPT ![i][j] = v]
    PROVE  /\ g \in [S -> [S -> T]] /\ g[i][j] = v
           /\ \A k, l \in S : k # i \/ l # j => g[k][l] = f[k][l]
           /\ \A k \in S : k # i => g[k] = f[k]
  OBVIOUS

\* What one node has of another is well typed.
LEMMA ToldTyped ==
    ASSUME CountTypeOK, NEW n \in Server, NEW m \in Server
    PROVE  /\ ToldType(Stream(m, n), latest[n][m], gap[n][m], drawn[m], len[m], counts[n][m], pending[m])
           /\ wire[m][n] \in Seq(CountMsg) /\ outbox[m] \in Seq(CountMsg)
<1>1. len[m] \in Nat /\ drawn[m] \in Nat /\ pending[m] \in CountSnap /\ outbox[m] \in Seq(CountMsg)
  BY Zenon DEF CountTypeOK
<1>2. wire[m] \in [Server -> Seq(CountMsg)] /\ counts[n] \in [Server -> CountEntry]
  BY Zenon DEF CountTypeOK
<1>3. latest[n] \in [Server -> Nat] /\ gap[n] \in [Server -> Nat]
  BY Zenon DEF CountTypeOK
<1>4. wire[m][n] \in Seq(CountMsg) /\ counts[n][m] \in CountEntry /\ latest[n][m] \in Nat /\ gap[n][m] \in Nat
  BY Zenon, <1>2, <1>3
<1>5. Stream(m, n) \in Seq(CountMsg)
  BY Zenon, <1>1, <1>4, BoxFacts DEF Stream
<1> QED
  BY Zenon, <1>1, <1>4, <1>5 DEF ToldType

\* Nothing that a node has of another changes.
SameTold(n, m) ==
    /\ wire'[m][n] = wire[m][n] /\ outbox'[m] = outbox[m]
    /\ latest'[n][m] = latest[n][m] /\ gap'[n][m] = gap[n][m]
    /\ drawn'[m] = drawn[m] /\ len'[m] = len[m] /\ counts'[n][m] = counts[n][m]
    /\ pending'[m] = pending[m] /\ task'[m]["handler"] = task[m]["handler"]

\* Then what was true of it still is.
LEMMA ToldStays ==
    ASSUME NEW n, NEW m, ToldOf(n, m), SameTold(n, m)
    PROVE  ToldOf(n, m)'
  BY Zenon DEF ToldOf, SameTold, Stream, Busy, At

\* The outbox of one node at most changes, and its handler with it.
LEMMA BoxKeeps ==
    ASSUME BoxInv, NEW n,
           \A k \in Server : k # n => outbox'[k] = outbox[k] /\ task'[k]["handler"] = task[k]["handler"],
           n \in Server => (outbox'[n] # <<>> <=> task'[n]["handler"].step = "sending")
    PROVE  BoxInv'
<1> SUFFICES ASSUME NEW k \in Server PROVE (outbox[k] # <<>> <=> At(k, "handler") = "sending")'
  BY Zenon DEF BoxInv
<1>1. CASE k = n
  BY Zenon, <1>1 DEF At
<1>2. CASE k # n
  <2>1. outbox[k] # <<>> <=> task[k]["handler"].step = "sending"
    BY Zenon DEF BoxInv, At
  <2> QED
    BY Zenon, <1>2, <2>1 DEF At
<1> QED
  BY Zenon, <1>1, <1>2

\* No outbox changes, and no handler.
LEMMA BoxStays ==
    ASSUME BoxInv, \A k \in Server : outbox'[k] = outbox[k] /\ task'[k]["handler"] = task[k]["handler"]
    PROVE  BoxInv'
  BY Zenon DEF BoxInv, At

\* A node's subscribers have the total, unless a new one is under way.
SeesTotal(n) ==
    /\ len[n] > 0 /\ ~crossed[n]
    /\ \A t \in DOMAIN task[n] : At(n, t) \in {"idle", "sending"}
    /\ \A m \in Server : counts[n][m].age # "stale"
    => shown[n] = Total(n)

\* They still have it if nothing of it changes.
LEMMA SeesStays ==
    ASSUME NEW n, SeesTotal(n), len'[n] = len[n], crossed'[n] = crossed[n], task'[n] = task[n],
           counts'[n] = counts[n], shown'[n] = shown[n]
    PROVE  SeesTotal(n)'
<1>1. Total(n)' = Total(n)
  BY Zenon DEF Total
<1> QED
  BY Zenon, <1>1 DEF SeesTotal, At

\* A task is on its way to send one.
LEMMA SeesLater ==
    ASSUME NEW n, NEW t \in DOMAIN task'[n], task'[n][t].step \notin {"idle", "sending"}
    PROVE  SeesTotal(n)'
  BY Zenon DEF SeesTotal, At

\* Nobody to send it to.
LEMMA SeesNobody ==
    ASSUME NEW n, len'[n] = 0
    PROVE  SeesTotal(n)'
  BY DEF SeesTotal

\* A task moves.
Moves(n, t, x) == task' = [task EXCEPT ![n][t] = x]

\* Goto changes the place of one task of one node.
LEMMA TaskMoves ==
    ASSUME TaskShape, NEW n \in Server, NEW t \in Tasks, NEW x, Moves(n, t, x)
    PROVE  /\ TaskShape' /\ task'[n][t] = x /\ t \in DOMAIN task'[n]
           /\ \A k \in Server, u \in Tasks : k # n \/ u # t => task'[k][u] = task[k][u]
           /\ \A k \in Server : k # n => task'[k] = task[k]
<1>1. PICK T : task \in [Server -> [Tasks -> T]]
  BY Zenon DEF TaskShape
<1>2. task \in [Server -> [Tasks -> T \cup {x}]]
  BY <1>1
<1>3. /\ task' \in [Server -> [Tasks -> T \cup {x}]] /\ task'[n][t] = x
      /\ \A k \in Server, u \in Tasks : k # n \/ u # t => task'[k][u] = task[k][u]
      /\ \A k \in Server : k # n => task'[k] = task[k]
  BY <1>2 DEF Moves
<1>4. t \in DOMAIN task'[n]
  <2>1. task'[n] \in [Tasks -> T \cup {x}]
    BY Zenon, <1>3
  <2> QED
    BY Zenon, <2>1
<1> QED
  BY Zenon, <1>3, <1>4 DEF TaskShape

\* The tasks of a node.
LEMMA TasksOf ==
    ASSUME TaskShape, TaskShape', NEW n \in Server
    PROVE  DOMAIN task'[n] = Tasks /\ DOMAIN task[n] = Tasks
<1>1. PICK T : task \in [Server -> [Tasks -> T]]
  BY Zenon DEF TaskShape
<1>2. PICK U : task' \in [Server -> [Tasks -> U]]
  BY Zenon DEF TaskShape
<1>3. task[n] \in [Tasks -> T] /\ task'[n] \in [Tasks -> U]
  BY Zenon, <1>1, <1>2
<1> QED
  BY Zenon, <1>3

\* A total is broadcast: it is the one of this moment, or crossed says so.
LEMMA BroadcastKeeps ==
    ASSUME CountTypeOK, ShownShape, NEW n \in Server, NEW total, BroadcastTotal(n, total),
           len' = len, counts' = counts
    PROVE  /\ ShownShape' /\ crossed' \in [Server -> BOOLEAN]
           /\ \A k \in Server : k # n => shown'[k] = shown[k] /\ crossed'[k] = crossed[k]
           /\ SeesTotal(n)'
<1>1. PICK T : shown \in [Server -> T]
  BY Zenon DEF ShownShape
<1>2. crossed \in [Server -> BOOLEAN] /\ len \in [Server -> Nat]
  BY Zenon DEF CountTypeOK
<1>3. CASE len[n] = 0
  <2>1. shown' = shown /\ crossed' = crossed
    BY Zenon, <1>3 DEF BroadcastTotal
  <2>2. SeesTotal(n)'
    BY <1>3 DEF SeesTotal
  <2> QED
    BY Zenon, <1>2, <2>1, <2>2 DEF ShownShape
<1>4. CASE len[n] # 0
  <2>1. PICK b : b = (total # Total(n))
    BY Zenon
  <2>2. /\ shown' = [shown EXCEPT ![n] = total]
        /\ crossed' = [crossed EXCEPT ![n] = b]
    BY Zenon, <1>4, <2>1 DEF BroadcastTotal
  <2>3. b \in BOOLEAN
    BY Zenon, <2>1
  <2>4. /\ crossed' \in [Server -> BOOLEAN] /\ crossed'[n] = b
        /\ \A k \in Server : k # n => crossed'[k] = crossed[k]
    BY Zenon, <1>2, <2>2, <2>3
  <2>5. shown \in [Server -> T \cup {total}]
    BY <1>1
  <2>6. /\ shown' \in [Server -> T \cup {total}] /\ shown'[n] = total
        /\ \A k \in Server : k # n => shown'[k] = shown[k]
    BY <2>2, <2>5
  <2>7. Total(n)' = Total(n)
    BY Zenon DEF Total
  <2>8. SeesTotal(n)'
    BY Zenon, <2>1, <2>4, <2>6, <2>7 DEF SeesTotal
  <2> QED
    BY Zenon, <2>4, <2>6, <2>8 DEF ShownShape
<1> QED
  BY Zenon, <1>3, <1>4

\* A message goes to every other node that runs.
LEMMA SendReaches ==
    ASSUME CountTypeOK, NEW n \in Server, NEW x \in CountMsg, Send(n, x)
    PROVE  /\ wire' \in [Server -> [Server -> Seq(CountMsg)]]
           /\ \A k \in alive : k # n => wire'[n][k] = Append(wire[n][k], x)
           /\ \A k, l \in Server : k # n => wire'[k][l] = wire[k][l]
           /\ wire'[n][n] = wire[n][n]
<1> DEFINE row == [m \in Server |-> IF m \in alive \ {n} THEN Append(wire[n][m], x) ELSE wire[n][m]]
<1>1. wire \in [Server -> [Server -> Seq(CountMsg)]] /\ alive \subseteq Server
  BY Zenon DEF CountTypeOK
<1>2. wire' = [wire EXCEPT ![n] = row]
  BY DEF Send
<1>3. wire[n] \in [Server -> Seq(CountMsg)]
  BY Zenon, <1>1
<1>4. \A m \in Server : wire[n][m] \in Seq(CountMsg) /\ Append(wire[n][m], x) \in Seq(CountMsg)
  BY <1>3
<1>5. row \in [Server -> Seq(CountMsg)]
  BY Zenon, <1>4
<1>6. (\A k \in alive : k # n => row[k] = Append(wire[n][k], x)) /\ row[n] = wire[n][n]
  BY <1>1
<1> HIDE DEF row
<1>7. wire' \in [Server -> [Server -> Seq(CountMsg)]] /\ wire'[n] = row /\ \A k \in Server : k # n => wire'[k] = wire[k]
  BY Zenon, <1>1, <1>2, <1>5
<1> QED
  BY Zenon, <1>6, <1>7

(***************************************************************************)
(* The steps of a node that counts                                         *)
(***************************************************************************)

\* The tables that only other steps change.
quiet == <<alive, drawn, outbox, pending, wire, counts, latest, gap>>

\* Before its announcement: the count may change, and a handler has to announce it.
LEMMA LenChanges ==
    ASSUME CountInv, NEW n \in Server, At(n, "handler") # "sending",
           len' \in [Server -> Nat], \A k \in Server : k # n => len'[k] = len[k],
           NEW x, x.step \notin {"idle", "sending"}, Moves(n, "handler", x),
           UNCHANGED quiet, UNCHANGED <<shown, crossed>>
    PROVE  CountInv'
<1>1. CountTypeOK /\ TaskShape /\ ShownShape /\ BoxInv /\ ToldInv /\ SubscribersSeeTotal /\ alive \subseteq Server
  BY Zenon DEF CountInv, CountTypeOK
<1>3. "handler" \in Tasks
  BY Zenon DEF Tasks
<1>4. /\ TaskShape' /\ task'[n]["handler"] = x /\ "handler" \in DOMAIN task'[n]
      /\ \A k \in Server : k # n => task'[k] = task[k]
  BY SMT, <1>1, <1>3, TaskMoves
<1>5. CountTypeOK' /\ ShownShape'
  BY Zenon, <1>1 DEF CountTypeOK, ShownShape, quiet
<1>6. ToldInv'
  <2> SUFFICES ASSUME NEW k \in alive, NEW m \in alive, k # m PROVE ToldOf(k, m)'
    BY Zenon DEF ToldInv, quiet
  <2>1. ToldOf(k, m) /\ m \in Server /\ k \in Server
    BY Zenon, <1>1 DEF ToldInv
  <2>2. CASE m = n
    <3>1. PICK b : b = Busy(m)'
      BY Zenon
    <3>2. b
      BY Zenon, <1>4, <2>2, <3>1 DEF At, Busy
    <3>3. Told(Stream(m, k), latest[k][m], gap[k][m], drawn[m], len'[m], counts[k][m], pending[m], b)
      BY Zenon, <2>1, <3>2, ToldBusy DEF ToldOf
    <3> QED
      BY Zenon, <3>1, <3>3 DEF ToldOf, Stream, quiet
  <2>3. CASE m # n
    <3>1. SameTold(k, m)
      BY Zenon, <1>4, <2>1, <2>3 DEF SameTold, quiet
    <3> QED
      BY Zenon, <2>1, <3>1, ToldStays
  <2> QED
    BY Zenon, <2>2, <2>3
<1>7. SubscribersSeeTotal'
  <2> SUFFICES ASSUME NEW k \in alive PROVE SeesTotal(k)'
    BY Zenon DEF SubscribersSeeTotal, SeesTotal, quiet
  <2>1. CASE k = n
    BY Zenon, <1>4, <2>1, SeesLater
  <2>2. CASE k # n
    <3>1. SeesTotal(k)
      BY Zenon, <1>1 DEF SubscribersSeeTotal, SeesTotal
    <3>2. len'[k] = len[k] /\ task'[k] = task[k] /\ crossed'[k] = crossed[k] /\ counts'[k] = counts[k] /\ shown'[k] = shown[k]
      BY Zenon, <1>1, <1>4, <2>2 DEF quiet
    <3> QED
      BY Zenon, <3>1, <3>2, SeesStays
  <2> QED
    BY Zenon, <2>1, <2>2
<1>8. BoxInv'
  <2>1. outbox' = outbox /\ outbox[n] = <<>>
    BY Zenon, <1>1 DEF BoxInv, quiet
  <2>2. task'[n]["handler"].step # "sending"
    BY Zenon, <1>4
  <2> QED
    BY Zenon, <1>1, <1>4, <2>1, <2>2, BoxKeeps
<1> QED
  BY Zenon, <1>4, <1>5, <1>6, <1>7, <1>8 DEF CountInv

\* A subscriber comes or goes, the handler asks the peers, makes its note, reads
\* the total.
LEMMA HandlerCounts ==
    ASSUME CountInv, NEW n \in Server,
           CountJoin(n) \/ CountLeave(n) \/ CheckPeers(n) \/ NoteWithheld(n) \/ ReadTotal(n)
    PROVE  CountInv'
<1>1. len \in [Server -> Nat] /\ len[n] \in Nat
  BY Zenon DEF CountInv, CountTypeOK
<1>2. \E st \in {"changed", "emptied", "withholding", "withheld", "counted"} :
          \E total : Moves(n, "handler", [step |-> st, total |-> total])
  <2>1. CASE CountJoin(n)
    BY Zenon, <2>1 DEF CountJoin, Goto, Moves
  <2>2. CASE CountLeave(n)
    BY Zenon, <2>2 DEF CountLeave, Goto, Moves
  <2>3. CASE CheckPeers(n)
    BY Zenon, <2>3 DEF CheckPeers, Goto, Moves
  <2>4. CASE NoteWithheld(n)
    BY Zenon, <2>4 DEF NoteWithheld, Goto, Moves
  <2>5. CASE ReadTotal(n)
    BY Zenon, <2>5 DEF ReadTotal, Goto, Moves
  <2> QED
    BY Zenon, <2>1, <2>2, <2>3, <2>4, <2>5
<1>3. PICK st \in {"changed", "emptied", "withholding", "withheld", "counted"} :
          \E total : Moves(n, "handler", [step |-> st, total |-> total])
  BY Zenon, <1>2
<1>4. PICK x : x.step \notin {"idle", "sending"} /\ Moves(n, "handler", x)
  <2>1. PICK total : Moves(n, "handler", [step |-> st, total |-> total])
    BY Zenon, <1>3
  <2>2. PICK x : x = [step |-> st, total |-> total]
    BY Zenon
  <2>3. x.step \notin {"idle", "sending"}
    BY <1>3, <2>2
  <2> QED
    BY Zenon, <2>1, <2>2, <2>3
<1>5. At(n, "handler") # "sending"
  BY DEF CountJoin, CountLeave, CheckPeers, NoteWithheld, ReadTotal
<1>6. UNCHANGED quiet /\ UNCHANGED <<shown, crossed>>
  BY Zenon DEF CountJoin, CountLeave, CheckPeers, NoteWithheld, ReadTotal, quiet
<1>7. len' \in [Server -> Nat] /\ \A k \in Server : k # n => len'[k] = len[k]
  <2>1. CASE CountJoin(n)
    <3>1. len' = [len EXCEPT ![n] = len[n] + 1]
      BY <2>1 DEF CountJoin
    <3> QED
      BY <1>1, <3>1
  <2>2. CASE CountLeave(n)
    <3>1. len' = [len EXCEPT ![n] = len[n] - 1] /\ len[n] > 0
      BY <2>2 DEF CountLeave
    <3> QED
      BY <1>1, <3>1
  <2>3. CASE CheckPeers(n) \/ NoteWithheld(n) \/ ReadTotal(n)
    BY Zenon, <1>1, <2>3 DEF CheckPeers, NoteWithheld, ReadTotal
  <2> QED
    BY Zenon, <2>1, <2>2, <2>3
<1> QED
  BY Zenon, <1>4, <1>5, <1>6, <1>7, LenChanges

\* A task other than the handler moves, and a total may be broadcast with it.
LEMMA OtherTaskMoves ==
    ASSUME CountInv, NEW n \in Server, NEW t \in {"bus", "gc"}, NEW x,
           Moves(n, t, x), UNCHANGED quiet, UNCHANGED len,
           \/ /\ UNCHANGED <<shown, crossed>>
              /\ x.step \notin {"idle", "sending"} \/ len[n] = 0
           \/ \E total : BroadcastTotal(n, total)
    PROVE  CountInv'
<1>1. CountTypeOK /\ TaskShape /\ ShownShape /\ BoxInv /\ ToldInv /\ SubscribersSeeTotal /\ alive \subseteq Server
  BY Zenon DEF CountInv, CountTypeOK
<1>2. t \in Tasks /\ t # "handler" /\ "handler" \in Tasks
  BY DEF Tasks
<1>3. /\ TaskShape' /\ task'[n][t] = x /\ t \in DOMAIN task'[n]
      /\ \A k \in Server, u \in Tasks : k # n \/ u # t => task'[k][u] = task[k][u]
      /\ \A k \in Server : k # n => task'[k] = task[k]
  BY Zenon, <1>1, <1>2, TaskMoves
<1>4. /\ ShownShape' /\ crossed' \in [Server -> BOOLEAN]
      /\ \A k \in Server : k # n => shown'[k] = shown[k] /\ crossed'[k] = crossed[k]
      /\ SeesTotal(n)'
  <2>1. CASE UNCHANGED <<shown, crossed>> /\ (x.step \notin {"idle", "sending"} \/ len[n] = 0)
    <3>1. SeesTotal(n)'
      BY Zenon, <1>3, <2>1, SeesLater, SeesNobody
    <3> QED
      BY Zenon, <1>1, <2>1, <3>1 DEF ShownShape, CountTypeOK
  <2>2. CASE \E total : BroadcastTotal(n, total)
    <3>1. len' = len /\ counts' = counts
      BY Zenon DEF quiet
    <3> QED
      BY Zenon, <1>1, <2>2, <3>1, BroadcastKeeps
  <2> QED
    BY Zenon, <2>1, <2>2
<1>5. CountTypeOK'
  BY Zenon, <1>1, <1>4 DEF CountTypeOK, quiet
<1>6. ToldInv'
  <2> SUFFICES ASSUME NEW k \in alive, NEW m \in alive, k # m PROVE ToldOf(k, m)'
    BY Zenon DEF ToldInv, quiet
  <2>1. ToldOf(k, m) /\ m \in Server
    BY Zenon, <1>1 DEF ToldInv
  <2>2. SameTold(k, m)
    BY Zenon, <1>2, <1>3, <2>1 DEF SameTold, quiet
  <2> QED
    BY Zenon, <2>1, <2>2, ToldStays
<1>7. SubscribersSeeTotal'
  <2> SUFFICES ASSUME NEW k \in alive PROVE SeesTotal(k)'
    BY Zenon DEF SubscribersSeeTotal, SeesTotal, quiet
  <2>1. CASE k = n
    BY Zenon, <1>4, <2>1
  <2>2. CASE k # n
    <3>1. SeesTotal(k)
      BY Zenon, <1>1 DEF SubscribersSeeTotal, SeesTotal
    <3>2. len'[k] = len[k] /\ task'[k] = task[k] /\ crossed'[k] = crossed[k] /\ counts'[k] = counts[k] /\ shown'[k] = shown[k]
      BY Zenon, <1>1, <1>3, <1>4, <2>2 DEF quiet
    <3> QED
      BY Zenon, <3>1, <3>2, SeesStays
  <2> QED
    BY Zenon, <2>1, <2>2
<1>8. BoxInv'
  BY Zenon, <1>1, <1>2, <1>3, BoxStays DEF quiet
<1> QED
  BY Zenon, <1>3, <1>4, <1>5, <1>6, <1>7, <1>8 DEF CountInv

\* The steps of the consumer and the GC between what they change and what they
\* broadcast.
LEMMA ConsumerSteps ==
    ASSUME CountInv, NEW n \in Server,
           \/ BusCheckEmpty(n) \/ BusClaim(n) \/ BusReadTotal(n) \/ BusReemit(n)
           \/ \E t \in {"bus", "gc"} : EmitTotal(n, t)
    PROVE  CountInv'
<1>1. CASE BusCheckEmpty(n) \/ BusClaim(n)
  <2>1. PICK st \in {"claim", "set"} : Moves(n, "bus", [step |-> st, total |-> 0])
    BY Zenon, <1>1 DEF BusCheckEmpty, BusClaim, Goto, Moves
  <2>2. UNCHANGED quiet /\ UNCHANGED len /\ UNCHANGED <<shown, crossed>>
    BY <1>1 DEF BusCheckEmpty, BusClaim, quiet
  <2>3. PICK x : x = [step |-> st, total |-> 0]
    BY Zenon
  <2>4. x.step \notin {"idle", "sending"}
    BY <2>1, <2>3
  <2> QED
    BY Zenon, <2>1, <2>2, <2>3, <2>4, OtherTaskMoves
<1>2. CASE BusReadTotal(n)
  <2>1. UNCHANGED quiet /\ UNCHANGED len /\ UNCHANGED <<shown, crossed>>
    BY <1>2 DEF BusReadTotal, quiet
  <2>2. PICK x : Moves(n, "bus", x) /\ (x.step \notin {"idle", "sending"} \/ len[n] = 0)
    <3>1. CASE len[n] = 0
      BY Zenon, <1>2, <3>1 DEF BusReadTotal, Goto, Moves
    <3>2. CASE len[n] # 0
      <4>1. Moves(n, "bus", [step |-> "emit", total |-> Total(n)])
        BY Zenon, <1>2, <3>2 DEF BusReadTotal, Goto, Moves
      <4>2. PICK x : x = [step |-> "emit", total |-> Total(n)]
        BY Zenon
      <4>3. x.step \notin {"idle", "sending"}
        BY <4>2
      <4> QED
        BY Zenon, <4>1, <4>2, <4>3
    <3> QED
      BY Zenon, <3>1, <3>2
  <2> QED
    BY Zenon, <2>1, <2>2, OtherTaskMoves
<1>3. CASE BusReemit(n)
  <2>1. /\ UNCHANGED quiet /\ UNCHANGED len /\ BroadcastTotal(n, Total(n))
        /\ Moves(n, "bus", [step |-> "idle", total |-> 0])
    BY Zenon, <1>3 DEF BusReemit, Goto, Moves, quiet
  <2> QED
    BY Zenon, <2>1, OtherTaskMoves
<1>4. CASE \E t \in {"bus", "gc"} : EmitTotal(n, t)
  <2>1. PICK t \in {"bus", "gc"} : EmitTotal(n, t)
    BY Zenon, <1>4
  <2>2. /\ UNCHANGED quiet /\ UNCHANGED len /\ BroadcastTotal(n, task[n][t].total)
        /\ Moves(n, t, [step |-> "idle", total |-> 0])
    BY Zenon, <2>1 DEF EmitTotal, Goto, Moves, quiet
  <2> QED
    BY Zenon, <2>2, OtherTaskMoves
<1> QED
  BY Zenon, <1>1, <1>2, <1>3, <1>4

(***************************************************************************)
(* Announcements and snapshots                                             *)
(***************************************************************************)

\* Nothing changes that a node's subscribers depend on.
SameSeen(k) ==
    /\ len'[k] = len[k] /\ crossed'[k] = crossed[k] /\ task'[k] = task[k]
    /\ counts'[k] = counts[k] /\ shown'[k] = shown[k]

\* A step that concerns the subscribers of one node only.
LEMMA OthersSee ==
    ASSUME CountInv, alive' \subseteq alive, NEW n, n \in alive' => SeesTotal(n)',
           \A k \in Server : k # n => SameSeen(k)
    PROVE  SubscribersSeeTotal'
<1>1. alive \subseteq Server /\ SubscribersSeeTotal
  BY Zenon DEF CountInv, CountTypeOK
<1> SUFFICES ASSUME NEW k \in alive' PROVE SeesTotal(k)'
  BY Zenon DEF SubscribersSeeTotal, SeesTotal
<1>2. CASE k = n
  BY Zenon, <1>2
<1>3. CASE k # n
  <2>1. k \in Server /\ SeesTotal(k)
    BY Zenon, <1>1 DEF SubscribersSeeTotal, SeesTotal
  <2> QED
    BY Zenon, <1>3, <2>1, SeesStays DEF SameSeen
<1> QED
  BY Zenon, <1>2, <1>3

\* The subscribers still have the total if no task has come to rest.
LEMMA SeesQuietly ==
    ASSUME NEW n, SeesTotal(n), len'[n] = len[n], crossed'[n] = crossed[n],
           counts'[n] = counts[n], shown'[n] = shown[n],
           (\A t \in DOMAIN task'[n] : task'[n][t].step \in {"idle", "sending"})
               => \A t \in DOMAIN task[n] : task[n][t].step \in {"idle", "sending"}
    PROVE  SeesTotal(n)'
<1>1. Total(n)' = Total(n)
  BY Zenon DEF Total
<1> QED
  BY Zenon, <1>1 DEF SeesTotal, At

\* A count announced under the lock is the one that the peers will believe.
LEMMA AnnounceCounts ==
    ASSUME CountInv, NEW n \in Server, AnnounceSubscriptionCount(n)
    PROVE  CountInv'
<1>1. CountTypeOK /\ TaskShape /\ ShownShape /\ BoxInv /\ ToldInv /\ alive \subseteq Server
  BY Zenon DEF CountInv, CountTypeOK
<1>2. PICK x : x = [type |-> "count", seq |-> drawn[n] + 1, count |-> len[n],
                    withheld |-> At(n, "handler") = "withheld"]
  BY Zenon
<1>3. /\ BroadcastTotal(n, task[n]["handler"].total) /\ outbox' = [outbox EXCEPT ![n] = <<x>>]
      /\ len' = len /\ counts' = counts /\ alive' = alive /\ pending' = pending /\ wire' = wire
      /\ latest' = latest /\ gap' = gap /\ Moves(n, "handler", [step |-> "sending", total |-> 0])
  BY Zenon, <1>2 DEF AnnounceSubscriptionCount, PublishSubscriptionCount, Goto, Moves
<1>4. drawn' = [drawn EXCEPT ![n] = drawn[n] + 1]
  BY DEF AnnounceSubscriptionCount, PublishSubscriptionCount
<1>5. drawn \in [Server -> Nat] /\ len[n] \in Nat /\ drawn[n] \in Nat /\ outbox \in [Server -> Seq(CountMsg)]
  BY Zenon, <1>1 DEF CountTypeOK
<1>6. drawn' \in [Server -> Nat] /\ drawn'[n] = drawn[n] + 1 /\ \A k \in Server : k # n => drawn'[k] = drawn[k]
  BY <1>4, <1>5
<1>7. x \in CountMsg /\ x.count = len[n] /\ x.seq = drawn[n] + 1
  <2>1. (At(n, "handler") = "withheld") \in BOOLEAN
    OBVIOUS
  <2> QED
    BY <1>2, <1>5, <2>1 DEF CountMsg
<1>8. /\ outbox' \in [Server -> Seq(CountMsg)] /\ outbox'[n] = <<x>>
      /\ \A k \in Server : k # n => outbox'[k] = outbox[k]
  <2>1. <<x>> \in Seq(CountMsg)
    BY <1>7
  <2> QED
    BY Zenon, <1>3, <1>5, <2>1
<1>9. /\ ShownShape' /\ crossed' \in [Server -> BOOLEAN]
      /\ \A k \in Server : k # n => shown'[k] = shown[k] /\ crossed'[k] = crossed[k]
      /\ SeesTotal(n)'
  BY Zenon, <1>1, <1>3, BroadcastKeeps
<1>10. /\ TaskShape' /\ task'[n]["handler"] = [step |-> "sending", total |-> 0]
       /\ \A k \in Server : k # n => task'[k] = task[k]
  <2>1. "handler" \in Tasks
    BY DEF Tasks
  <2> QED
    BY SMT, <1>1, <1>3, <2>1, TaskMoves
<1>11. CountTypeOK'
  BY Zenon, <1>1, <1>3, <1>6, <1>8, <1>9 DEF CountTypeOK
<1>12. BoxInv'
  <2>1. task'[n]["handler"].step = "sending" /\ <<x>> # <<>>
    BY <1>10
  <2> QED
    BY Zenon, <1>1, <1>8, <1>10, <2>1, BoxKeeps
<1>13. ToldInv'
  <2> SUFFICES ASSUME NEW k \in alive, NEW m \in alive, k # m PROVE ToldOf(k, m)'
    BY Zenon, <1>3 DEF ToldInv
  <2>1. ToldOf(k, m) /\ m \in Server /\ k \in Server
    BY Zenon, <1>1 DEF ToldInv
  <2>2. CASE m = n
    <3>1. PICK b : b = Busy(n)'
      BY Zenon
    <3>2. ToldType(Stream(n, k), latest[k][n], gap[k][n], drawn[n], len[n], counts[k][n], pending[n])
      BY Zenon, <1>1, <2>1, ToldTyped
    <3>3. Told(Append(Stream(n, k), x), latest[k][n], gap[k][n], drawn[n] + 1, len[n], counts[k][n], pending[n], b)
      BY Zenon, <1>7, <2>1, <2>2, <3>2, ToldAnnounce DEF ToldOf
    <3>4. Append(Stream(n, k), x) = Stream(n, k)'
      <4>1. outbox[n] = <<>>
        <5>1. At(n, "handler") # "sending"
          BY DEF AnnounceSubscriptionCount
        <5> QED
          BY Zenon, <1>1, <5>1 DEF BoxInv
      <4>2. <<x>>[1] = x /\ <<x>> # <<>>
        OBVIOUS
      <4> QED
        BY Zenon, <1>3, <1>8, <4>1, <4>2 DEF Stream, WithBox
    <3> QED
      BY Zenon, <1>3, <1>6, <2>2, <3>1, <3>3, <3>4 DEF ToldOf
  <2>3. CASE m # n
    <3>1. SameTold(k, m)
      BY Zenon, <1>3, <1>6, <1>8, <1>10, <2>1, <2>3 DEF SameTold
    <3> QED
      BY Zenon, <2>1, <3>1, ToldStays
  <2> QED
    BY Zenon, <2>2, <2>3
<1>14. SubscribersSeeTotal'
  BY Zenon, <1>3, <1>9, <1>10, OthersSee DEF SameSeen
<1> QED
  BY Zenon, <1>9, <1>10, <1>11, <1>12, <1>13, <1>14 DEF CountInv

\* The numbered count goes on the bus: it was at the end of the stream already.
LEMMA EnqueueCounts ==
    ASSUME CountInv, NEW n \in Server, EnqueueCount(n)
    PROVE  CountInv'
<1>1. CountTypeOK /\ TaskShape /\ ShownShape /\ BoxInv /\ ToldInv /\ alive \subseteq Server
  BY Zenon DEF CountInv, CountTypeOK
<1>2. PICK x : x = Head(outbox[n])
  BY Zenon
<1>3. /\ Send(n, x) /\ outbox' = [outbox EXCEPT ![n] = <<>>] /\ drawn' = drawn
      /\ len' = len /\ counts' = counts /\ alive' = alive /\ pending' = pending
      /\ latest' = latest /\ gap' = gap /\ shown' = shown /\ crossed' = crossed
      /\ Moves(n, "handler", [step |-> "idle", total |-> 0])
  BY Zenon, <1>2 DEF EnqueueCount, Goto, Moves
<1>4. outbox \in [Server -> Seq(CountMsg)] /\ outbox[n] \in Seq(CountMsg)
  BY Zenon, <1>1 DEF CountTypeOK
<1>5. At(n, "handler") = "sending" /\ outbox[n] # <<>>
  BY Zenon, <1>1 DEF EnqueueCount, BoxInv
<1>6. x \in CountMsg /\ x = outbox[n][1]
  BY <1>2, <1>4, <1>5
<1>7. /\ outbox' \in [Server -> Seq(CountMsg)] /\ outbox'[n] = <<>>
      /\ \A k \in Server : k # n => outbox'[k] = outbox[k]
  <2>1. <<>> \in Seq(CountMsg)
    OBVIOUS
  <2> QED
    BY Zenon, <1>3, <1>4, <2>1
<1>8. /\ wire' \in [Server -> [Server -> Seq(CountMsg)]]
      /\ \A k \in alive : k # n => wire'[n][k] = Append(wire[n][k], x)
      /\ \A k, l \in Server : k # n => wire'[k][l] = wire[k][l]
  BY Zenon, <1>1, <1>3, <1>6, SendReaches
<1>9. "handler" \in Tasks
  BY DEF Tasks
<1>10. /\ TaskShape' /\ task'[n]["handler"] = [step |-> "idle", total |-> 0]
       /\ \A k \in Server, u \in Tasks : k # n \/ u # "handler" => task'[k][u] = task[k][u]
       /\ \A k \in Server : k # n => task'[k] = task[k]
  BY SMT, <1>1, <1>3, <1>9, TaskMoves
<1>11. task'[n]["handler"].step = "idle" /\ "idle" # "sending"
  BY <1>10
<1>12. CountTypeOK' /\ ShownShape'
  BY Zenon, <1>1, <1>3, <1>7, <1>8 DEF CountTypeOK, ShownShape
<1>13. BoxInv'
  BY Zenon, <1>1, <1>7, <1>10, <1>11, BoxKeeps
<1>14. ToldInv'
  <2> SUFFICES ASSUME NEW k \in alive, NEW m \in alive, k # m PROVE ToldOf(k, m)'
    BY Zenon, <1>3 DEF ToldInv
  <2>1. ToldOf(k, m) /\ m \in Server /\ k \in Server
    BY Zenon, <1>1 DEF ToldInv
  <2>2. CASE m = n
    <3>1. Stream(n, k)' = Stream(n, k)
      BY Zenon, <1>5, <1>6, <1>7, <1>8, <2>2 DEF Stream, WithBox
    <3>2. ~Busy(n) /\ ~Busy(n)'
      BY Zenon, <1>5, <1>11 DEF Busy, At
    <3>3. PICK b, c : b = Busy(n) /\ c = Busy(n)'
      BY Zenon
    <3>4. Told(Stream(n, k), latest[k][n], gap[k][n], drawn[n], len[n], counts[k][n], pending[n], b)
      BY Zenon, <2>1, <2>2, <3>3 DEF ToldOf
    <3>5. Told(Stream(n, k), latest[k][n], gap[k][n], drawn[n], len[n], counts[k][n], pending[n], c)
      BY Zenon, <3>2, <3>3, <3>4 DEF Told
    <3> QED
      BY Zenon, <1>3, <2>2, <3>1, <3>3, <3>5 DEF ToldOf
  <2>3. CASE m # n
    <3>1. SameTold(k, m)
      BY Zenon, <1>3, <1>7, <1>8, <1>10, <2>1, <2>3 DEF SameTold
    <3> QED
      BY Zenon, <2>1, <3>1, ToldStays
  <2> QED
    BY Zenon, <2>2, <2>3
<1>15. SubscribersSeeTotal'
  <2>1. DOMAIN task'[n] = Tasks /\ DOMAIN task[n] = Tasks
    BY Zenon, <1>1, <1>10, TasksOf
  <2>2. (\A t \in Tasks : task'[n][t].step \in {"idle", "sending"})
            => \A t \in Tasks : task[n][t].step \in {"idle", "sending"}
    BY Zenon, <1>5, <1>10 DEF At
  <2>3. n \in alive => SeesTotal(n)
    BY Zenon DEF CountInv, SubscribersSeeTotal, SeesTotal
  <2>4. n \in alive' => SeesTotal(n)'
    BY Zenon, <1>3, <2>1, <2>2, <2>3, SeesQuietly
  <2> QED
    BY Zenon, <1>3, <1>10, <2>4, OthersSee DEF SameSeen
<1> QED
  BY Zenon, <1>10, <1>12, <1>13, <1>14, <1>15 DEF CountInv

\* The number of a snapshot is drawn, the count is read, the snapshot goes out.
LEMMA SnapshotCounts ==
    ASSUME CountInv, NEW n \in Server,
           CountSnapshotDraw(n) \/ CountSnapshotCapture(n) \/ CountSnapshotSend(n)
    PROVE  CountInv'
<1>1. CountTypeOK /\ TaskShape /\ ShownShape /\ BoxInv /\ ToldInv /\ alive \subseteq Server
  BY Zenon DEF CountInv, CountTypeOK
<1>2. /\ len' = len /\ counts' = counts /\ alive' = alive /\ task' = task /\ crossed' = crossed
      /\ latest' = latest /\ gap' = gap /\ shown' = shown /\ outbox' = outbox
  BY Zenon DEF CountSnapshotDraw, CountSnapshotCapture, CountSnapshotSend
<1>3. /\ drawn \in [Server -> Nat] /\ pending \in [Server -> CountSnap]
      /\ len[n] \in Nat /\ drawn[n] \in Nat /\ pending[n] \in CountSnap
  BY Zenon, <1>1 DEF CountTypeOK
<1>4. /\ drawn' \in [Server -> Nat] /\ pending' \in [Server -> CountSnap]
      /\ wire' \in [Server -> [Server -> Seq(CountMsg)]]
      /\ \A k \in Server : k # n => drawn'[k] = drawn[k] /\ pending'[k] = pending[k]
      /\ \A k, l \in Server : k # n => wire'[k][l] = wire[k][l]
      /\ \A k \in alive : k # n /\ n \in alive => ToldOf(k, n)'
  <2>1. CASE CountSnapshotDraw(n)
    <3>1. PICK z : z = [step |-> "drawn", seq |-> drawn[n] + 1, count |-> 0]
      BY Zenon
    <3>2. drawn' = [drawn EXCEPT ![n] = drawn[n] + 1] /\ pending' = [pending EXCEPT ![n] = z] /\ wire' = wire
      BY <2>1, <3>1 DEF CountSnapshotDraw
    <3>3. z \in CountSnap /\ z.step = "drawn" /\ z.seq = drawn[n] + 1
      BY <1>3, <3>1 DEF CountSnap
    <3>4. /\ drawn' \in [Server -> Nat] /\ drawn'[n] = drawn[n] + 1
          /\ \A k \in Server : k # n => drawn'[k] = drawn[k]
      BY <1>3, <3>2
    <3>5. /\ pending' \in [Server -> CountSnap] /\ pending'[n] = z
          /\ \A k \in Server : k # n => pending'[k] = pending[k]
      BY <1>3, <3>2, <3>3
    <3>6. ASSUME NEW k \in alive, k # n, n \in alive PROVE ToldOf(k, n)'
      <4>1. ToldOf(k, n) /\ k \in Server
        BY Zenon, <1>1, <3>6 DEF ToldInv
      <4>2. ToldType(Stream(n, k), latest[k][n], gap[k][n], drawn[n], len[n], counts[k][n], pending[n])
        BY Zenon, <1>1, <4>1, ToldTyped
      <4>3. Told(Stream(n, k), latest[k][n], gap[k][n], drawn[n] + 1, len[n], counts[k][n], z,
                 Busy(n))
        BY Zenon, <3>3, <4>1, <4>2, ToldDraw DEF ToldOf
      <4>4. wire' = wire
        BY Zenon, <3>2
      <4> QED
        BY Zenon, <1>2, <3>4, <3>5, <4>3, <4>4 DEF ToldOf, Stream, Busy, At
    <3>7. wire' = wire /\ wire \in [Server -> [Server -> Seq(CountMsg)]]
      BY Zenon, <1>1, <3>2 DEF CountTypeOK
    <3> QED
      BY Zenon, <3>4, <3>5, <3>6, <3>7
  <2>2. CASE CountSnapshotCapture(n)
    <3>1. PICK z : z = [pending[n] EXCEPT !.step = "captured", !.count = len[n]]
      BY Zenon
    <3>2. pending' = [pending EXCEPT ![n] = z] /\ wire' = wire /\ drawn' = drawn /\ pending[n].step = "drawn"
      BY ZenonT(30), <2>2, <3>1, <1>3 DEF CountSnapshotCapture
    <3>3. z \in CountSnap /\ z.seq = pending[n].seq /\ z.count = len[n]
      BY ZenonT(30), <1>3, <3>1 DEF CountSnap
    <3>4. /\ pending' \in [Server -> CountSnap] /\ pending'[n] = z
          /\ \A k \in Server : k # n => pending'[k] = pending[k]
      BY <1>3, <3>2, <3>3
    <3>5. ASSUME NEW k \in alive, k # n, n \in alive PROVE ToldOf(k, n)'
      <4>1. ToldOf(k, n) /\ pending[n].step = "drawn"
        BY Zenon, <1>1, <3>2, <3>5 DEF ToldInv
      <4>2. Told(Stream(n, k), latest[k][n], gap[k][n], drawn[n], len[n], counts[k][n], z,
                 Busy(n))
        BY Zenon, <3>3, <4>1, ToldCapture DEF ToldOf
      <4>3. wire' = wire /\ drawn' = drawn
        BY Zenon, <3>2
      <4> QED
        BY Zenon, <1>2, <3>4, <4>2, <4>3 DEF ToldOf, Stream, Busy, At
    <3>6. wire' = wire /\ drawn' = drawn /\ wire \in [Server -> [Server -> Seq(CountMsg)]]
      BY Zenon, <1>1, <3>2 DEF CountTypeOK
    <3> QED
      BY Zenon, <1>3, <3>4, <3>5, <3>6
  <2>3. CASE CountSnapshotSend(n)
    <3>1. PICK x : x = [type |-> "snapshot", seq |-> pending[n].seq, count |-> pending[n].count, withheld |-> FALSE]
      BY Zenon
    <3>2. Send(n, x) /\ drawn' = drawn /\ pending[n].step = "captured"
      BY Zenon, <2>3, <3>1 DEF CountSnapshotSend, PublishChannelCountSnapshot
    <3>3. pending' = [pending EXCEPT ![n] = NotPending] /\ NotPending \in CountSnap
      BY <2>3 DEF CountSnapshotSend, NotPending, CountSnap
    <3>4. x \in CountMsg /\ x.type = "snapshot" /\ x.count = pending[n].count /\ x.seq = pending[n].seq
      BY <1>3, <3>1 DEF CountMsg, CountSnap
    <3>5. /\ wire' \in [Server -> [Server -> Seq(CountMsg)]]
          /\ \A k \in alive : k # n => wire'[n][k] = Append(wire[n][k], x)
          /\ \A k, l \in Server : k # n => wire'[k][l] = wire[k][l]
      BY Zenon, <1>1, <3>2, <3>4, SendReaches
    <3>6. /\ pending' \in [Server -> CountSnap] /\ pending'[n] = NotPending
          /\ \A k \in Server : k # n => pending'[k] = pending[k]
      BY <1>3, <3>3
    <3>7. ASSUME NEW k \in alive, k # n, n \in alive PROVE ToldOf(k, n)'
      <4>1. ToldOf(k, n) /\ k \in Server
        BY Zenon, <1>1, <3>7 DEF ToldInv
      <4>2. ToldType(Stream(n, k), latest[k][n], gap[k][n], drawn[n], len[n], counts[k][n], pending[n])
        BY Zenon, <1>1, <4>1, ToldTyped
      <4>3. wire'[n][k] = Append(wire[n][k], x) /\ wire[n][k] \in Seq(CountMsg) /\ outbox[n] \in Seq(CountMsg)
        BY Zenon, <1>1, <3>5, <3>7, <4>1, ToldTyped
      <4>4. Told(Stream(n, k)', latest[k][n], gap[k][n], drawn[n], len[n], counts[k][n], NotPending, Busy(n))
        <5>1. CASE outbox[n] = <<>>
          <6>1. Stream(n, k)' = Append(Stream(n, k), x)
            BY Zenon, <1>2, <4>3, <5>1 DEF Stream, WithBox
          <6>2. Told(Append(Stream(n, k), x), latest[k][n], gap[k][n], drawn[n], len[n], counts[k][n],
                     NotPending, Busy(n))
            BY Zenon, <3>2, <3>4, <4>1, <4>2, ToldSend DEF ToldOf
          <6> QED
            BY Zenon, <6>1, <6>2
        <5>2. CASE outbox[n] # <<>>
          <6>1. PICK y \in CountMsg : y = outbox[n][1]
            BY <4>3, <5>2
          <6>2. Stream(n, k) = Append(wire[n][k], y) /\ Stream(n, k)' = Append(Append(wire[n][k], x), y)
            BY Zenon, <1>2, <4>3, <5>2, <6>1 DEF Stream, WithBox
          <6>3. Told(Append(Append(wire[n][k], x), y), latest[k][n], gap[k][n], drawn[n], len[n], counts[k][n],
                     NotPending, Busy(n))
            BY Zenon, <3>2, <3>4, <4>1, <4>2, <4>3, <6>2, ToldInsert DEF ToldOf
          <6> QED
            BY Zenon, <6>2, <6>3
        <5> QED
          BY Zenon, <5>1, <5>2
      <4> QED
        BY Zenon, <1>2, <3>2, <3>6, <4>4 DEF ToldOf, Busy, At
    <3> QED
      BY Zenon, <1>3, <3>2, <3>5, <3>6, <3>7
  <2> QED
    BY Zenon, <2>1, <2>2, <2>3
<1>5. CountTypeOK' /\ TaskShape' /\ ShownShape'
  BY Zenon, <1>1, <1>2, <1>4 DEF CountTypeOK, TaskShape, ShownShape
<1>6. ToldInv'
  <2> SUFFICES ASSUME NEW k \in alive, NEW m \in alive, k # m PROVE ToldOf(k, m)'
    BY Zenon, <1>2 DEF ToldInv
  <2>1. ToldOf(k, m) /\ m \in Server /\ k \in Server
    BY Zenon, <1>1 DEF ToldInv
  <2>2. CASE m = n
    BY Zenon, <1>4, <2>2
  <2>3. CASE m # n
    <3>1. SameTold(k, m)
      BY Zenon, <1>2, <1>4, <2>1, <2>3 DEF SameTold
    <3> QED
      BY Zenon, <2>1, <3>1, ToldStays
  <2> QED
    BY Zenon, <2>2, <2>3
<1>7. SubscribersSeeTotal'
  <2>1. n \in alive' => SeesTotal(n)'
    <3>1. n \in alive => SeesTotal(n)
      BY Zenon DEF CountInv, SubscribersSeeTotal, SeesTotal
    <3> QED
      BY Zenon, <1>2, <3>1, SeesStays
  <2> QED
    BY Zenon, <1>2, <2>1, OthersSee DEF SameSeen
<1>8. BoxInv'
  BY Zenon, <1>1, <1>2, BoxStays
<1> QED
  BY Zenon, <1>5, <1>6, <1>7, <1>8 DEF CountInv

(***************************************************************************)
(* Deliveries                                                              *)
(***************************************************************************)

\* The entry that n has of m changes, and no other.
EntryBecomes(n, m, d) ==
    /\ counts' \in [Server -> [Server -> CountEntry]] /\ counts'[n][m] = d
    /\ \A k, l \in Server : k # n \/ l # m => counts'[k][l] = counts[k][l]
    /\ \A k \in Server : k # n => counts'[k] = counts[k]

\* The same of what n has missed of m.
GapBecomes(n, m, g) ==
    /\ gap' \in [Server -> [Server -> Nat]] /\ gap'[n][m] = g
    /\ \A k, l \in Server : k # n \/ l # m => gap'[k][l] = gap[k][l]

\* A message leaves the wire and accept_seq moves the mark.
LEMMA ReceiveChanges ==
    ASSUME CountTypeOK, NEW m \in Server, NEW n \in Server, NEW type, Receive(m, n, type)
    PROVE  /\ wire[m][n] # <<>> /\ wire' \in [Server -> [Server -> Seq(CountMsg)]] /\ wire'[m][n] = Tail(wire[m][n])
           /\ \A k, l \in Server : k # m \/ l # n => wire'[k][l] = wire[k][l]
           /\ latest' \in [Server -> [Server -> Nat]] /\ latest'[n][m] = MarkAfter(Head(wire[m][n]), latest[n][m])
           /\ \A k, l \in Server : k # n \/ l # m => latest'[k][l] = latest[k][l]
<1>1. PICK x : x = Head(wire[m][n])
  BY Zenon
<1>2. /\ wire[m][n] # <<>>
      /\ wire' = [wire EXCEPT ![m][n] = Tail(wire[m][n])]
      /\ latest' = [latest EXCEPT ![n][m] = MarkAfter(x, latest[n][m])]
  BY <1>1 DEF Receive, MarkAfter, AcceptCount
<1>3. /\ wire \in [Server -> [Server -> Seq(CountMsg)]] /\ latest \in [Server -> [Server -> Nat]]
      /\ wire[m][n] \in Seq(CountMsg) /\ latest[n][m] \in Nat
  <2>1. /\ ToldType(Stream(m, n), latest[n][m], gap[n][m], drawn[m], len[m], counts[n][m], pending[m])
        /\ wire[m][n] \in Seq(CountMsg)
    BY Zenon, ToldTyped
  <2> QED
    BY Zenon, <2>1 DEF CountTypeOK, ToldType
<1>4. Tail(wire[m][n]) \in Seq(CountMsg) /\ MarkAfter(x, latest[n][m]) \in Nat
  <2>1. Tail(wire[m][n]) \in Seq(CountMsg) /\ x \in CountMsg
    BY <1>1, <1>2, <1>3
  <2>2. x.seq \in Nat
    BY <2>1 DEF CountMsg
  <2> QED
    BY Zenon, <1>3, <2>1, <2>2 DEF MarkAfter
<1>5. /\ wire' \in [Server -> [Server -> Seq(CountMsg)]] /\ wire'[m][n] = Tail(wire[m][n])
      /\ \A k, l \in Server : k # m \/ l # n => wire'[k][l] = wire[k][l]
  BY Zenon, <1>2, <1>3, <1>4, CellChanges
<1>6. /\ latest' \in [Server -> [Server -> Nat]] /\ latest'[n][m] = MarkAfter(x, latest[n][m])
      /\ \A k, l \in Server : k # n \/ l # m => latest'[k][l] = latest[k][l]
  BY Zenon, <1>2, <1>3, <1>4, CellChanges
<1> QED
  BY Zenon, <1>1, <1>2, <1>5, <1>6

\* The consumer of n takes the next message x of m: it applies it, so that its
\* entry of m becomes d, or drops it as too old, and goes on to tell the
\* subscribers of n if an entry changed.
Applied(m, n, type, x, d) ==
    /\ Receive(m, n, type) /\ x = Head(wire[m][n]) /\ EntryBecomes(n, m, d)
    /\ HeldInv(gap[n][m], counts[n][m]) =>
           HeldInv(GapAfter(x, latest[n][m], gap[n][m]), d) /\ Believes(x, latest[n][m], counts[n][m], d)
    /\ GapBecomes(n, m, GapAfter(x, latest[n][m], gap[n][m]))
    /\ \/ \E y : Moves(n, "bus", y) /\ (y.step \notin {"idle", "sending"} \/ counts'[n] = counts[n])
       \/ UNCHANGED task /\ counts'[n] = counts[n]
    /\ UNCHANGED <<alive, len, drawn, outbox, pending, shown, crossed>>

\* Then what n has of m agrees with the numbers as before.
LEMMA DeliverCounts ==
    ASSUME CountInv, NEW m \in Server, NEW n \in Server, NEW type, NEW x, NEW d, Applied(m, n, type, x, d)
    PROVE  CountInv'
<1>1. CountTypeOK /\ TaskShape /\ ShownShape /\ BoxInv /\ ToldInv /\ alive \subseteq Server
  BY Zenon DEF CountInv, CountTypeOK
<1>2. /\ alive' = alive /\ len' = len /\ drawn' = drawn /\ pending' = pending /\ shown' = shown /\ crossed' = crossed
      /\ outbox' = outbox
  BY Zenon DEF Applied
<1>3. wire[m][n] # <<>> /\ n \in alive /\ task[n]["bus"].step = "idle"
  BY Zenon DEF Applied, Receive, At
<1>4. /\ EntryBecomes(n, m, d) /\ GapBecomes(n, m, GapAfter(x, latest[n][m], gap[n][m]))
      /\ \/ \E y : Moves(n, "bus", y) /\ (y.step \notin {"idle", "sending"} \/ counts'[n] = counts[n])
         \/ UNCHANGED task /\ counts'[n] = counts[n]
  BY Zenon DEF Applied
<1>5. Receive(m, n, type) /\ x = Head(wire[m][n])
  BY Zenon DEF Applied
<1>6. /\ wire' \in [Server -> [Server -> Seq(CountMsg)]] /\ wire'[m][n] = Tail(wire[m][n])
      /\ \A k, l \in Server : k # m \/ l # n => wire'[k][l] = wire[k][l]
  BY Zenon, <1>1, <1>5, ReceiveChanges
<1>7. /\ latest' \in [Server -> [Server -> Nat]] /\ latest'[n][m] = MarkAfter(x, latest[n][m])
      /\ \A k, l \in Server : k # n \/ l # m => latest'[k][l] = latest[k][l]
  BY Zenon, <1>1, <1>5, ReceiveChanges
<1>8. /\ TaskShape' /\ \A k \in Server : task'[k]["handler"] = task[k]["handler"]
      /\ \A k \in Server : k # n => task'[k] = task[k]
      /\ n \in alive => SeesTotal(n)'
  <2>1. n \in alive => SeesTotal(n)
    BY Zenon DEF CountInv, SubscribersSeeTotal, SeesTotal
  <2>2. CASE \E y : Moves(n, "bus", y) /\ (y.step \notin {"idle", "sending"} \/ counts'[n] = counts[n])
    <3>1. PICK y : Moves(n, "bus", y) /\ (y.step \notin {"idle", "sending"} \/ counts'[n] = counts[n])
      BY Zenon, <2>2
    <3>2. "bus" \in Tasks /\ "handler" \in Tasks /\ "handler" # "bus"
      BY DEF Tasks
    <3>3. /\ TaskShape' /\ task'[n]["bus"] = y /\ "bus" \in DOMAIN task'[n]
          /\ \A k \in Server, u \in Tasks : k # n \/ u # "bus" => task'[k][u] = task[k][u]
          /\ \A k \in Server : k # n => task'[k] = task[k]
      BY Zenon, <1>1, <3>1, <3>2, TaskMoves
    <3>4. CASE y.step \notin {"idle", "sending"}
      <4>1. SeesTotal(n)'
        BY Zenon, <3>3, <3>4, SeesLater
      <4> QED
        BY Zenon, <3>2, <3>3, <4>1
    <3>5. CASE counts'[n] = counts[n]
      <4>1. DOMAIN task'[n] = Tasks /\ DOMAIN task[n] = Tasks
        BY Zenon, <1>1, <3>3, TasksOf
      <4>2. (\A t \in Tasks : task'[n][t].step \in {"idle", "sending"})
                => \A t \in Tasks : task[n][t].step \in {"idle", "sending"}
        BY Zenon, <1>3, <3>3
      <4>3. n \in alive => SeesTotal(n)'
        BY Zenon, <1>2, <2>1, <3>5, <4>1, <4>2, SeesQuietly
      <4> QED
        BY Zenon, <3>2, <3>3, <4>3
    <3> QED
      BY Zenon, <3>1, <3>4, <3>5
  <2>3. CASE UNCHANGED task /\ counts'[n] = counts[n]
    <3>1. n \in alive => SeesTotal(n)'
      BY Zenon, <1>2, <2>1, <2>3, SeesStays
    <3> QED
      BY Zenon, <1>1, <2>3, <3>1 DEF TaskShape
  <2> QED
    BY Zenon, <1>4, <2>2, <2>3
<1>9. CountTypeOK' /\ ShownShape'
  BY Zenon, <1>1, <1>2, <1>4, <1>6, <1>7 DEF CountTypeOK, ShownShape, EntryBecomes, GapBecomes
<1>10. ToldInv'
  <2> SUFFICES ASSUME NEW k \in alive, NEW l \in alive, k # l PROVE ToldOf(k, l)'
    BY Zenon, <1>2 DEF ToldInv
  <2>1. ToldOf(k, l) /\ k \in Server /\ l \in Server
    BY Zenon, <1>1 DEF ToldInv
  <2>2. CASE k = n /\ l = m
    <3>1. PICK s : s = Stream(m, n)
      BY Zenon
    <3>2. /\ s # <<>> /\ Head(s) = x /\ Tail(s) = Stream(m, n)'
          /\ ToldType(s, latest[n][m], gap[n][m], drawn[m], len[m], counts[n][m], pending[m])
      <4>1. /\ ToldType(Stream(m, n), latest[n][m], gap[n][m], drawn[m], len[m], counts[n][m], pending[m])
            /\ wire[m][n] \in Seq(CountMsg) /\ outbox[m] \in Seq(CountMsg)
        BY Zenon, <1>1, ToldTyped
      <4>2. s # <<>> /\ Head(s) = Head(wire[m][n]) /\ Tail(s) = WithBox(Tail(wire[m][n]), outbox[m])
        BY Zenon, <1>3, <3>1, <4>1, BoxFacts DEF Stream
      <4> QED
        BY Zenon, <1>2, <1>5, <1>6, <3>1, <4>1, <4>2 DEF Stream
    <3>3. Told(s, latest[n][m], gap[n][m], drawn[m], len[m], counts[n][m], pending[m], Busy(m))
      BY Zenon, <2>1, <2>2, <3>1 DEF ToldOf
    <3>4. /\ HeldInv(GapAfter(x, latest[n][m], gap[n][m]), d)
          /\ Believes(x, latest[n][m], counts[n][m], d)
      BY Zenon, <3>3 DEF Applied, Told
    <3>5. Told(Tail(s), MarkAfter(x, latest[n][m]), GapAfter(x, latest[n][m], gap[n][m]), drawn[m],
               len[m], d, pending[m], Busy(m))
      BY Zenon, <3>2, <3>3, <3>4, ToldDeliver
    <3>6. Busy(m)' = Busy(m)
      BY Zenon, <1>8 DEF Busy, At
    <3> QED
      BY Zenon, <1>2, <1>4, <1>7, <2>2, <3>2, <3>5, <3>6 DEF ToldOf, EntryBecomes, GapBecomes
  <2>3. CASE k # n \/ l # m
    <3>1. SameTold(k, l)
      BY ZenonT(30), <1>2, <1>4, <1>6, <1>7, <1>8, <2>1, <2>3 DEF SameTold, EntryBecomes, GapBecomes
    <3> QED
      BY Zenon, <2>1, <3>1, ToldStays
  <2> QED
    BY Zenon, <2>2, <2>3
<1>11. SubscribersSeeTotal'
  BY Zenon, <1>2, <1>4, <1>8, OthersSee DEF SameSeen, EntryBecomes, GapBecomes
<1>12. BoxInv'
  BY Zenon, <1>1, <1>2, <1>8, BoxStays
<1> QED
  BY Zenon, <1>8, <1>9, <1>10, <1>11, <1>12 DEF CountInv

\* A live count is applied, or dropped as too old.
LEMMA CountDelivered ==
    ASSUME CountInv, NEW m \in Server, NEW n \in Server, ApplySubscriptionCount(m, n)
    PROVE  \E x, d : Applied(m, n, "count", x, d)
<1>1. /\ wire[m][n] \in Seq(CountMsg) /\ gap \in [Server -> [Server -> Nat]]
      /\ counts \in [Server -> [Server -> CountEntry]] /\ counts[n] \in [Server -> CountEntry]
  <2>1. CountTypeOK
    BY Zenon DEF CountInv
  <2>2. /\ ToldType(Stream(m, n), latest[n][m], gap[n][m], drawn[m], len[m], counts[n][m], pending[m])
        /\ wire[m][n] \in Seq(CountMsg)
    BY Zenon, <2>1, ToldTyped
  <2> QED
    BY Zenon, <2>1, <2>2 DEF CountTypeOK, ToldType
<1>2. PICK x : x = Head(wire[m][n])
  BY Zenon
<1>3. /\ Receive(m, n, "count") /\ wire[m][n] # <<>> /\ x.type = "count" /\ gap' = gap
      /\ UNCHANGED <<alive, len, drawn, outbox, pending, shown, crossed>>
  BY Zenon, <1>2 DEF ApplySubscriptionCount, Receive
<1>4. x \in CountMsg
  BY <1>1, <1>2, <1>3
<1>5. GapAfter(x, latest[n][m], gap[n][m]) = gap[n][m] /\ GapBecomes(n, m, GapAfter(x, latest[n][m], gap[n][m]))
  <2>1. GapAfter(x, latest[n][m], gap[n][m]) = gap[n][m]
    BY <1>3 DEF GapAfter
  <2> QED
    BY Zenon, <1>1, <1>3, <2>1 DEF GapBecomes
<1>6. CASE AcceptCount(n, m, x.seq)
  <2>1. PICK d : d = [age |-> "live", count |-> x.count]
    BY Zenon
  <2>2. d \in CountEntry /\ d.age = "live" /\ d.count = x.count
    BY <1>4, <2>1 DEF CountEntry, CountMsg
  <2>3. counts' = [counts EXCEPT ![n] = [counts[n] EXCEPT ![m] = d]]
    BY <1>2, <1>6, <2>1 DEF ApplySubscriptionCount, SetCount
  <2>4. EntryBecomes(n, m, d)
    BY <1>1, <2>2, <2>3 DEF EntryBecomes
  <2>5. HeldInv(GapAfter(x, latest[n][m], gap[n][m]), d) /\ Believes(x, latest[n][m], counts[n][m], d)
    BY <1>6, <2>2 DEF HeldInv, Believes, AcceptCount
  <2>6. PICK st \in {"ended", "set"} : Moves(n, "bus", [step |-> st, total |-> 0])
    BY Zenon, <1>2, <1>6 DEF ApplySubscriptionCount, Goto, Moves
  <2>7. PICK y : y = [step |-> st, total |-> 0]
    BY Zenon
  <2>8. y.step \notin {"idle", "sending"}
    BY <2>6, <2>7
  <2>9. Moves(n, "bus", y)
    BY Zenon, <2>6, <2>7
  <2> QED
    BY Zenon, <1>2, <1>3, <1>5, <2>4, <2>5, <2>8, <2>9 DEF Applied
<1>7. CASE ~AcceptCount(n, m, x.seq)
  <2>1. counts' = counts /\ task' = task
    BY Zenon, <1>2, <1>7 DEF ApplySubscriptionCount
  <2>2. EntryBecomes(n, m, counts[n][m])
    BY Zenon, <1>1, <2>1 DEF EntryBecomes
  <2>3. Believes(x, latest[n][m], counts[n][m], counts[n][m])
    BY Zenon, <1>7 DEF Believes, AcceptCount
  <2> QED
    BY Zenon, <1>2, <1>3, <1>5, <2>1, <2>2, <2>3 DEF Applied
<1> QED
  BY Zenon, <1>6, <1>7

\* The entry after a snapshot: replaced, kept alive, dropped or left as it is.
EntryAfter(x, a, c) ==
    IF x.count > 0 /\ x.seq > a THEN [age |-> "live", count |-> x.count]
    ELSE IF x.count > 0 THEN (IF c.age = "none" THEN c ELSE [age |-> "live", count |-> c.count])
    ELSE IF c.age # "none" /\ x.seq > a THEN NoCount
    ELSE c

\* apply_remote_channel_count_snapshot leaves an entry that agrees with the
\* snapshot if it was accepted, and with the old entry otherwise.
LEMMA EntryAfterSnapshot ==
    ASSUME NEW x \in CountMsg, NEW a \in Nat, NEW c \in CountEntry, NEW lost, x.type = "snapshot"
    PROVE  /\ EntryAfter(x, a, c) \in CountEntry
           /\ HeldInv(lost, c) => /\ HeldInv(GapAfter(x, a, lost), EntryAfter(x, a, c))
                                  /\ Believes(x, a, c, EntryAfter(x, a, c))
<1>1. x.count \in Nat /\ x.seq \in Nat /\ c.count \in Nat /\ c.age \in {"none", "live", "stale"}
  BY DEF CountMsg, CountEntry
<1>2. NoCount \in CountEntry /\ NoCount.age = "none" /\ NoCount.count = 0
  BY DEF NoCount, CountEntry
<1>3. PICK d : d = EntryAfter(x, a, c)
  BY Zenon
<1>4. CASE x.count > 0 /\ x.seq > a
  <2>1. d = [age |-> "live", count |-> x.count]
    BY <1>3, <1>4 DEF EntryAfter
  <2>2. d \in CountEntry /\ d.age = "live" /\ d.count = x.count
    BY <1>1, <2>1 DEF CountEntry
  <2> QED
    BY <1>3, <1>4, <2>2 DEF HeldInv, Believes
<1>5. CASE x.count > 0 /\ ~(x.seq > a)
  <2>1. GapAfter(x, a, lost) = lost
    BY <1>5 DEF GapAfter
  <2>2. CASE c.age = "none"
    <3>1. d = c
      BY <1>3, <1>5, <2>2 DEF EntryAfter
    <3> QED
      BY <1>3, <1>5, <2>1, <3>1 DEF HeldInv, Believes
  <2>3. CASE c.age # "none"
    <3>1. d = [age |-> "live", count |-> c.count]
      BY <1>3, <1>5, <2>3 DEF EntryAfter
    <3>2. d \in CountEntry /\ d.age = "live" /\ d.count = c.count
      BY <1>1, <3>1 DEF CountEntry
    <3> QED
      BY <1>3, <1>5, <3>2 DEF HeldInv, Believes
  <2> QED
    BY <2>2, <2>3
<1>6. CASE ~(x.count > 0) /\ c.age # "none" /\ x.seq > a
  <2>1. d = NoCount /\ x.count = 0
    BY <1>1, <1>3, <1>6 DEF EntryAfter
  <2> QED
    BY <1>2, <1>3, <1>6, <2>1 DEF HeldInv, Believes
<1>7. CASE ~(x.count > 0) /\ ~(c.age # "none" /\ x.seq > a)
  <2>1. d = c /\ x.count = 0
    BY <1>1, <1>3, <1>7 DEF EntryAfter
  <2>2. CASE c.age = "none"
    BY <1>3, <2>1, <2>2 DEF HeldInv, Believes
  <2>3. CASE ~(x.seq > a)
    <3>1. GapAfter(x, a, lost) = lost
      BY <2>3 DEF GapAfter
    <3> QED
      BY <1>3, <2>1, <2>3, <3>1 DEF HeldInv, Believes
  <2> QED
    BY <1>7, <2>2, <2>3
<1> QED
  BY <1>4, <1>5, <1>6, <1>7

\* A snapshot of counts is applied, or only keeps the entry alive.
LEMMA SnapshotDelivered ==
    ASSUME CountInv, NEW m \in Server, NEW n \in Server, ApplyCountSnapshot(m, n)
    PROVE  \E x, d : Applied(m, n, "snapshot", x, d)
<1>1. /\ wire[m][n] \in Seq(CountMsg) /\ gap \in [Server -> [Server -> Nat]] /\ latest[n][m] \in Nat
      /\ counts \in [Server -> [Server -> CountEntry]] /\ counts[n] \in [Server -> CountEntry]
      /\ counts[n][m] \in CountEntry /\ gap[n][m] \in Nat
  <2>1. CountTypeOK
    BY Zenon DEF CountInv
  <2>2. /\ ToldType(Stream(m, n), latest[n][m], gap[n][m], drawn[m], len[m], counts[n][m], pending[m])
        /\ wire[m][n] \in Seq(CountMsg)
    BY Zenon, <2>1, ToldTyped
  <2> QED
    BY Zenon, <2>1, <2>2 DEF CountTypeOK, ToldType
<1>2. PICK x, a, c, d : x = Head(wire[m][n]) /\ a = latest[n][m] /\ c = counts[n][m] /\ d = EntryAfter(x, a, c)
  BY Zenon
<1>3. /\ Receive(m, n, "snapshot") /\ wire[m][n] # <<>> /\ x.type = "snapshot"
      /\ UNCHANGED <<alive, len, drawn, outbox, pending, shown, crossed>>
  BY Zenon, <1>2 DEF ApplyCountSnapshot, Receive
<1>4. x \in CountMsg
  BY <1>1, <1>2, <1>3
<1>5. d \in CountEntry /\ (HeldInv(gap[n][m], c) => HeldInv(GapAfter(x, a, gap[n][m]), d) /\ Believes(x, a, c, d))
  BY Zenon, <1>1, <1>2, <1>3, <1>4, EntryAfterSnapshot
<1>6. PICK row : /\ counts' = [counts EXCEPT ![n] = row]
                 /\ row = IF x.count > 0 /\ x.seq > a THEN SetCount(counts[n], m, x.count)
                          ELSE IF x.count > 0 THEN TouchCount(counts[n], m)
                          ELSE IF c.age # "none" /\ x.seq > a THEN [counts[n] EXCEPT ![m] = NoCount]
                          ELSE counts[n]
  BY ZenonT(30), <1>2 DEF ApplyCountSnapshot, AcceptCount
<1>7. row \in [Server -> CountEntry] /\ row[m] = d /\ \A l \in Server : l # m => row[l] = counts[n][l]
  <2>1. CASE x.count > 0 /\ x.seq > a
    <3>1. row = [counts[n] EXCEPT ![m] = d]
      BY <1>2, <1>6, <2>1 DEF SetCount, EntryAfter
    <3> QED
      BY <1>1, <1>5, <3>1
  <2>2. CASE x.count > 0 /\ ~(x.seq > a) /\ c.age = "none"
    <3>1. row = counts[n] /\ d = c
      BY <1>2, <1>6, <2>2 DEF TouchCount, EntryAfter
    <3> QED
      BY <1>1, <1>2, <3>1
  <2>3. CASE x.count > 0 /\ ~(x.seq > a) /\ c.age # "none"
    <3>1. row = [counts[n] EXCEPT ![m].age = "live"] /\ d = [age |-> "live", count |-> c.count]
      BY <1>2, <1>6, <2>3 DEF TouchCount, EntryAfter
    <3>2. [counts[n][m] EXCEPT !.age = "live"] = d
      BY <1>1, <1>2, <3>1 DEF CountEntry
    <3>3. row = [counts[n] EXCEPT ![m] = d]
      BY <3>1, <3>2
    <3> QED
      BY <1>1, <1>5, <3>3
  <2>4. CASE ~(x.count > 0) /\ c.age # "none" /\ x.seq > a
    <3>1. row = [counts[n] EXCEPT ![m] = d]
      BY <1>2, <1>6, <2>4 DEF EntryAfter
    <3> QED
      BY <1>1, <1>5, <3>1
  <2>5. CASE ~(x.count > 0) /\ ~(c.age # "none" /\ x.seq > a)
    <3>1. row = counts[n] /\ d = c
      BY <1>2, <1>6, <2>5 DEF EntryAfter
    <3> QED
      BY <1>1, <1>2, <3>1
  <2> QED
    BY Zenon, <2>1, <2>2, <2>3, <2>4, <2>5
<1>8. counts'[n] = row /\ EntryBecomes(n, m, d)
  <2>1. /\ counts' \in [Server -> [Server -> CountEntry]] /\ counts'[n] = row
        /\ \A k \in Server : k # n => counts'[k] = counts[k]
    BY <1>1, <1>6, <1>7
  <2> QED
    BY Zenon, <1>7, <2>1 DEF EntryBecomes
<1>9. GapBecomes(n, m, GapAfter(x, a, gap[n][m]))
  <2>1. gap' = IF x.seq > a /\ x.seq > gap[n][m] THEN [gap EXCEPT ![n][m] = 0] ELSE gap
    BY Zenon, <1>2 DEF ApplyCountSnapshot, AcceptCount
  <2>2. CASE x.seq > a /\ x.seq > gap[n][m]
    <3>1. gap' = [gap EXCEPT ![n][m] = 0]
      BY Zenon, <2>1, <2>2
    <3>2. GapAfter(x, a, gap[n][m]) = 0
      BY <1>3, <2>2 DEF GapAfter
    <3>3. 0 \in Nat
      OBVIOUS
    <3>4. /\ gap' \in [Server -> [Server -> Nat]] /\ gap'[n][m] = 0
          /\ \A i, j \in Server : i # n \/ j # m => gap'[i][j] = gap[i][j]
      BY Zenon, <1>1, <3>1, <3>3, CellChanges
    <3> QED
      BY Zenon, <3>2, <3>4 DEF GapBecomes
  <2>3. CASE ~(x.seq > a /\ x.seq > gap[n][m])
    <3>1. gap' = gap /\ GapAfter(x, a, gap[n][m]) = gap[n][m]
      BY <2>1, <2>3 DEF GapAfter
    <3> QED
      BY Zenon, <1>1, <3>1 DEF GapBecomes
  <2> QED
    BY Zenon, <2>2, <2>3
<1>10. \E y : Moves(n, "bus", y) /\ (y.step \notin {"idle", "sending"} \/ counts'[n] = counts[n])
  <2>1. CASE x.count > 0 \/ (c.age # "none" /\ x.seq > a)
    <3>1. Moves(n, "bus", [step |-> "relock", total |-> 0])
      BY ZenonT(30), <1>2, <2>1 DEF ApplyCountSnapshot, AcceptCount, Affected, Goto, Moves
    <3>2. PICK y : y = [step |-> "relock", total |-> 0]
      BY Zenon
    <3>3. y.step \notin {"idle", "sending"}
      BY <3>2
    <3> QED
      BY Zenon, <3>1, <3>2, <3>3
  <2>2. CASE ~(x.count > 0 \/ (c.age # "none" /\ x.seq > a))
    <3>1. PICK y : Moves(n, "bus", y)
      BY Zenon DEF ApplyCountSnapshot, Goto, Moves
    <3>2. row = counts[n]
      BY Zenon, <1>6, <2>2
    <3> QED
      BY Zenon, <1>8, <3>1, <3>2
  <2> QED
    BY Zenon, <2>1, <2>2
<1>11. /\ HeldInv(gap[n][m], counts[n][m]) =>
              HeldInv(GapAfter(x, latest[n][m], gap[n][m]), d) /\ Believes(x, latest[n][m], counts[n][m], d)
       /\ GapBecomes(n, m, GapAfter(x, latest[n][m], gap[n][m])) /\ x = Head(wire[m][n])
  BY Zenon, <1>2, <1>5, <1>9
<1>12. EntryBecomes(n, m, d)
  BY Zenon, <1>8
<1> QED
  BY Zenon, <1>3, <1>10, <1>11, <1>12 DEF Applied

(***************************************************************************)
(* Expiry and faults                                                       *)
(***************************************************************************)

\* An entry passes its TTL: something of the peer was lost.
LEMMA ExpiryCounts ==
    ASSUME CountInv, NEW n \in Server, NEW m \in Server, ExpireCount(n, m)
    PROVE  CountInv'
<1>1. /\ CountTypeOK /\ TaskShape /\ ShownShape /\ BoxInv /\ ToldInv /\ alive \subseteq Server
      /\ counts \in [Server -> [Server -> CountEntry]]
  BY Zenon DEF CountInv, CountTypeOK
<1>2. /\ alive' = alive /\ len' = len /\ drawn' = drawn /\ pending' = pending /\ shown' = shown /\ crossed' = crossed
      /\ wire' = wire /\ outbox' = outbox /\ latest' = latest /\ gap' = gap /\ task' = task /\ (m \in alive => gap[n][m] > 0)
  BY Zenon DEF ExpireCount
<1>3. counts[n] \in [Server -> CountEntry] /\ counts[n][m] \in CountEntry
  <2>1. counts[n] \in [Server -> CountEntry]
    BY Zenon, <1>1
  <2> QED
    BY Zenon, <2>1
<1>4. PICK d : d = [counts[n][m] EXCEPT !.age = "stale"]
  BY Zenon
<1>5. d \in CountEntry /\ d.age = "stale"
  BY <1>3, <1>4 DEF CountEntry
<1>6. counts' = [counts EXCEPT ![n][m] = d]
  BY <1>4 DEF ExpireCount
<1>7. /\ counts' \in [Server -> [Server -> CountEntry]] /\ counts'[n][m] = d
      /\ \A k, l \in Server : k # n \/ l # m => counts'[k][l] = counts[k][l]
      /\ \A k \in Server : k # n => counts'[k] = counts[k]
  BY Zenon, <1>1, <1>5, <1>6, CellChanges
<1>8. CountTypeOK' /\ TaskShape' /\ ShownShape'
  BY Zenon, <1>1, <1>2, <1>7 DEF CountTypeOK, TaskShape, ShownShape
<1>9. ToldInv'
  <2> SUFFICES ASSUME NEW k \in alive, NEW l \in alive, k # l PROVE ToldOf(k, l)'
    BY Zenon, <1>2 DEF ToldInv
  <2>1. ToldOf(k, l) /\ k \in Server /\ l \in Server
    BY Zenon, <1>1 DEF ToldInv
  <2>2. CASE k = n /\ l = m
    <3>1. ToldType(Stream(m, n), latest[n][m], gap[n][m], drawn[m], len[m], counts[n][m], pending[m])
      BY Zenon, <1>1, ToldTyped
    <3>2. Told(Stream(m, n), latest[n][m], gap[n][m], drawn[m], len[m], counts[n][m], pending[m], Busy(m))
      BY Zenon, <2>1, <2>2 DEF ToldOf
    <3>3. gap[n][m] > 0 /\ (d.age = "none" => d.count = 0)
      BY <1>2, <1>5, <2>2
    <3>4. Told(Stream(m, n), latest[n][m], gap[n][m], drawn[m], len[m], d, pending[m], Busy(m))
      BY Zenon, <3>1, <3>2, <3>3, ToldAged
    <3> QED
      BY Zenon, <1>2, <1>7, <2>2, <3>4 DEF ToldOf, Stream, Busy, At
  <2>3. CASE k # n \/ l # m
    <3>1. SameTold(k, l)
      BY Zenon, <1>2, <1>7, <2>1, <2>3 DEF SameTold
    <3> QED
      BY Zenon, <2>1, <3>1, ToldStays
  <2> QED
    BY Zenon, <2>2, <2>3
<1>10. SubscribersSeeTotal'
  <2>1. SeesTotal(n)'
    BY Zenon, <1>5, <1>7 DEF SeesTotal
  <2> QED
    BY Zenon, <1>2, <1>7, <2>1, OthersSee DEF SameSeen
<1>11. BoxInv'
  BY Zenon, <1>1, <1>2, BoxStays
<1> QED
  BY Zenon, <1>8, <1>9, <1>10, <1>11 DEF CountInv

\* A message is lost.
LEMMA LossCounts ==
    ASSUME CountInv, NEW m \in Server, NEW n \in Server, LoseCount(m, n)
    PROVE  CountInv'
<1>1. /\ CountTypeOK /\ TaskShape /\ ShownShape /\ BoxInv /\ ToldInv /\ alive \subseteq Server
      /\ wire \in [Server -> [Server -> Seq(CountMsg)]] /\ gap \in [Server -> [Server -> Nat]]
  BY Zenon DEF CountInv, CountTypeOK
<1>2. /\ alive' = alive /\ len' = len /\ drawn' = drawn /\ pending' = pending /\ shown' = shown /\ crossed' = crossed
      /\ latest' = latest /\ counts' = counts /\ task' = task /\ outbox' = outbox /\ wire[m][n] # <<>>
  BY Zenon DEF LoseCount
<1>3. /\ wire' = [wire EXCEPT ![m][n] = Tail(wire[m][n])]
      /\ gap' = [gap EXCEPT ![n][m] = GapLost(Head(wire[m][n]), gap[n][m])]
  BY DEF LoseCount, GapLost
<1>4. /\ ToldType(Stream(m, n), latest[n][m], gap[n][m], drawn[m], len[m], counts[n][m], pending[m])
      /\ wire[m][n] \in Seq(CountMsg) /\ outbox[m] \in Seq(CountMsg)
  BY Zenon, <1>1, ToldTyped
<1>5. Tail(wire[m][n]) \in Seq(CountMsg) /\ GapLost(Head(wire[m][n]), gap[n][m]) \in Nat
  <2>1. wire[m][n] \in Seq(CountMsg) /\ gap[n][m] \in Nat
    BY Zenon, <1>4 DEF ToldType
  <2>2. Tail(wire[m][n]) \in Seq(CountMsg) /\ Head(wire[m][n]) \in CountMsg
    BY <1>2, <2>1
  <2>3. Head(wire[m][n]).seq \in Nat
    BY <2>2 DEF CountMsg
  <2> QED
    BY Zenon, <2>1, <2>2, <2>3 DEF GapLost
<1>6. /\ wire' \in [Server -> [Server -> Seq(CountMsg)]] /\ wire'[m][n] = Tail(wire[m][n])
      /\ \A k, l \in Server : k # m \/ l # n => wire'[k][l] = wire[k][l]
  BY Zenon, <1>1, <1>3, <1>5, CellChanges
<1>7. /\ gap' \in [Server -> [Server -> Nat]] /\ gap'[n][m] = GapLost(Head(wire[m][n]), gap[n][m])
      /\ \A k, l \in Server : k # n \/ l # m => gap'[k][l] = gap[k][l]
  BY Zenon, <1>1, <1>3, <1>5, CellChanges
<1>8. CountTypeOK' /\ TaskShape' /\ ShownShape'
  BY Zenon, <1>1, <1>2, <1>6, <1>7 DEF CountTypeOK, TaskShape, ShownShape
<1>9. ToldInv'
  <2> SUFFICES ASSUME NEW k \in alive, NEW l \in alive, k # l PROVE ToldOf(k, l)'
    BY Zenon, <1>2 DEF ToldInv
  <2>1. ToldOf(k, l) /\ k \in Server /\ l \in Server
    BY Zenon, <1>1 DEF ToldInv
  <2>2. CASE k = n /\ l = m
    <3>1. PICK s : s = Stream(m, n)
      BY Zenon
    <3>2. s # <<>> /\ Head(s) = Head(wire[m][n]) /\ Tail(s) = Stream(m, n)'
      <4>1. s # <<>> /\ Head(s) = Head(wire[m][n]) /\ Tail(s) = WithBox(Tail(wire[m][n]), outbox[m])
        BY Zenon, <1>2, <1>4, <3>1, BoxFacts DEF Stream
      <4> QED
        BY Zenon, <1>2, <1>6, <3>1, <4>1 DEF Stream
    <3>3. Told(s, latest[n][m], gap[n][m], drawn[m], len[m], counts[n][m], pending[m], Busy(m))
      BY Zenon, <2>1, <2>2, <3>1 DEF ToldOf
    <3>4. Told(Tail(s), latest[n][m], GapLost(Head(s), gap[n][m]), drawn[m], len[m],
               counts[n][m], pending[m], Busy(m))
      BY Zenon, <1>4, <3>1, <3>2, <3>3, ToldLose
    <3> QED
      BY Zenon, <1>2, <1>7, <2>2, <3>2, <3>4 DEF ToldOf, Busy, At
  <2>3. CASE k # n \/ l # m
    <3>1. SameTold(k, l)
      BY Zenon, <1>2, <1>6, <1>7, <2>1, <2>3 DEF SameTold
    <3> QED
      BY Zenon, <2>1, <3>1, ToldStays
  <2> QED
    BY Zenon, <2>2, <2>3
<1>10. SubscribersSeeTotal'
  <2>1. n \in alive => SeesTotal(n)
    BY Zenon DEF CountInv, SubscribersSeeTotal, SeesTotal
  <2>2. n \in alive' => SeesTotal(n)'
    BY Zenon, <1>2, <2>1, SeesStays
  <2> QED
    BY Zenon, <1>2, <2>2, OthersSee DEF SameSeen
<1>11. BoxInv'
  BY Zenon, <1>1, <1>2, BoxStays
<1> QED
  BY Zenon, <1>8, <1>9, <1>10, <1>11 DEF CountInv

\* The GC reaps stale entries and tells the subscribers what is left.
LEMMA GcPassCounts ==
    ASSUME CountInv, NEW n \in Server, GcCounts(n)
    PROVE  CountInv'
<1>1. /\ CountTypeOK /\ TaskShape /\ ShownShape /\ BoxInv /\ ToldInv /\ alive \subseteq Server
      /\ counts \in [Server -> [Server -> CountEntry]]
  BY Zenon DEF CountInv, CountTypeOK
<1>2. /\ alive' = alive /\ len' = len /\ drawn' = drawn /\ pending' = pending /\ shown' = shown /\ crossed' = crossed
      /\ latest' = latest /\ wire' = wire /\ outbox' = outbox /\ gap' = gap
  BY Zenon DEF GcCounts
<1>3. PICK row : row = ReapCounts(counts[n])
  BY Zenon
<1>4. counts' = [counts EXCEPT ![n] = row]
  BY Zenon, <1>3 DEF GcCounts
<1>5. counts[n] \in [Server -> CountEntry]
  BY Zenon, <1>1
<1>6. NoCount \in CountEntry
  BY DEF NoCount, CountEntry
<1>7. /\ row \in [Server -> CountEntry]
      /\ \A m \in Server : row[m] = IF counts[n][m].age = "stale" THEN NoCount ELSE counts[n][m]
  BY <1>3, <1>5, <1>6 DEF ReapCounts
<1>8. /\ counts' \in [Server -> [Server -> CountEntry]] /\ counts'[n] = row
      /\ \A k \in Server : k # n => counts'[k] = counts[k]
  BY Zenon, <1>1, <1>4, <1>7
<1>9. PICK y : Moves(n, "gc", y) /\ (y.step \notin {"idle", "sending"} \/ len[n] = 0)
  <2>1. CASE len[n] = 0
    BY Zenon, <2>1 DEF GcCounts, Goto, Moves
  <2>2. CASE len[n] # 0
    <3>1. Moves(n, "gc", [step |-> "emit", total |-> len[n] + PeerSum(ReapCounts(counts[n]))])
      BY Zenon, <2>2 DEF GcCounts, Goto, Moves
    <3>2. PICK y : y = [step |-> "emit", total |-> len[n] + PeerSum(ReapCounts(counts[n]))]
      BY Zenon
    <3>3. y.step \notin {"idle", "sending"}
      BY <3>2
    <3> QED
      BY Zenon, <3>1, <3>2, <3>3
  <2> QED
    BY Zenon, <2>1, <2>2
<1>10. "gc" \in Tasks /\ "handler" \in Tasks /\ "handler" # "gc"
  BY DEF Tasks
<1>11. /\ TaskShape' /\ task'[n]["gc"] = y /\ "gc" \in DOMAIN task'[n]
       /\ \A k \in Server, u \in Tasks : k # n \/ u # "gc" => task'[k][u] = task[k][u]
       /\ \A k \in Server : k # n => task'[k] = task[k]
  BY Zenon, <1>1, <1>9, <1>10, TaskMoves
<1>12. CountTypeOK' /\ ShownShape'
  BY Zenon, <1>1, <1>2, <1>8 DEF CountTypeOK, ShownShape
<1>13. ToldInv'
  <2> SUFFICES ASSUME NEW k \in alive, NEW l \in alive, k # l PROVE ToldOf(k, l)'
    BY Zenon, <1>2 DEF ToldInv
  <2>1. ToldOf(k, l) /\ k \in Server /\ l \in Server /\ task'[l]["handler"] = task[l]["handler"]
    BY Zenon, <1>1, <1>10, <1>11 DEF ToldInv
  <2>2. CASE k = n /\ counts[n][l].age = "stale"
    <3>1. ToldType(Stream(l, n), latest[n][l], gap[n][l], drawn[l], len[l], counts[n][l], pending[l])
      BY Zenon, <1>1, <2>1, ToldTyped
    <3>2. Told(Stream(l, n), latest[n][l], gap[n][l], drawn[l], len[l], counts[n][l], pending[l], Busy(l))
      BY Zenon, <2>1, <2>2 DEF ToldOf
    <3>3. gap[n][l] > 0
      BY Zenon, <2>2, <3>2 DEF Told, HeldInv
    <3>4. NoCount.count = 0
      BY DEF NoCount
    <3>5. Told(Stream(l, n), latest[n][l], gap[n][l], drawn[l], len[l], NoCount, pending[l], Busy(l))
      BY Zenon, <3>1, <3>2, <3>3, <3>4, ToldAged
    <3>6. counts'[n][l] = NoCount
      BY Zenon, <1>7, <1>8, <2>1, <2>2
    <3> QED
      BY Zenon, <1>2, <2>1, <2>2, <3>5, <3>6 DEF ToldOf, Stream, Busy, At
  <2>3. CASE ~(k = n /\ counts[n][l].age = "stale")
    <3>1. counts'[k][l] = counts[k][l]
      BY Zenon, <1>7, <1>8, <2>1, <2>3
    <3>2. SameTold(k, l)
      BY Zenon, <1>2, <2>1, <3>1 DEF SameTold
    <3> QED
      BY Zenon, <2>1, <3>2, ToldStays
  <2> QED
    BY Zenon, <2>2, <2>3
<1>14. SubscribersSeeTotal'
  <2>1. SeesTotal(n)'
    BY Zenon, <1>2, <1>9, <1>11, SeesLater, SeesNobody
  <2> QED
    BY Zenon, <1>2, <1>8, <1>11, <2>1, OthersSee DEF SameSeen
<1>15. BoxInv'
  BY Zenon, <1>1, <1>2, <1>10, <1>11, BoxStays
<1> QED
  BY Zenon, <1>11, <1>12, <1>13, <1>14, <1>15 DEF CountInv

\* A node stops: it is no longer one of those that have to know, or be known.
LEMMA CrashCounts ==
    ASSUME CountInv, NEW n \in Server, CrashServer(n)
    PROVE  CountInv'
<1>1. /\ CountTypeOK /\ TaskShape /\ ShownShape /\ BoxInv /\ ToldInv /\ alive \subseteq Server
      /\ counts \in [Server -> [Server -> CountEntry]] /\ wire \in [Server -> [Server -> Seq(CountMsg)]]
      /\ len \in [Server -> Nat] /\ pending \in [Server -> CountSnap] /\ outbox \in [Server -> Seq(CountMsg)]
  BY Zenon DEF CountInv, CountTypeOK
<1>2. /\ alive' = alive \ {n} /\ drawn' = drawn /\ shown' = shown /\ crossed' = crossed
      /\ latest' = latest /\ gap' = gap
  BY Zenon DEF CrashServer
<1>3. len' \in [Server -> Nat] /\ \A k \in Server : k # n => len'[k] = len[k]
  BY <1>1 DEF CrashServer
<1>4. pending' \in [Server -> CountSnap] /\ \A k \in Server : k # n => pending'[k] = pending[k]
  <2>1. NotPending \in CountSnap
    BY DEF NotPending, CountSnap
  <2>2. pending' = [pending EXCEPT ![n] = NotPending]
    BY Zenon DEF CrashServer
  <2> QED
    BY <1>1, <2>1, <2>2
<1>5. wire' \in [Server -> [Server -> Seq(CountMsg)]] /\ \A k, l \in Server : l # n => wire'[k][l] = wire[k][l]
  <2>1. wire' = [m \in Server |-> [wire[m] EXCEPT ![n] = <<>>]]
    BY Zenon DEF CrashServer
  <2>2. ASSUME NEW m \in Server
        PROVE  /\ wire'[m] \in [Server -> Seq(CountMsg)]
               /\ \A l \in Server : l # n => wire'[m][l] = wire[m][l]
    <3>1. wire[m] \in [Server -> Seq(CountMsg)]
      BY Zenon, <1>1
    <3>2. wire'[m] = [wire[m] EXCEPT ![n] = <<>>]
      BY Zenon, <2>1
    <3>3. <<>> \in Seq(CountMsg)
      OBVIOUS
    <3> QED
      BY <3>1, <3>2, <3>3
  <2>3. wire' = [m \in Server |-> wire'[m]]
    BY <2>1
  <2> QED
    BY Zenon, <2>2, <2>3
<1>6. counts' \in [Server -> [Server -> CountEntry]] /\ \A k \in Server : k # n => counts'[k] = counts[k]
  <2>1. NoCount \in CountEntry
    BY DEF NoCount, CountEntry
  <2>2. PICK row : row = [m \in Server |-> NoCount]
    BY Zenon
  <2>3. row \in [Server -> CountEntry]
    BY <2>1, <2>2
  <2>4. counts' = [counts EXCEPT ![n] = row]
    BY Zenon, <2>2 DEF CrashServer
  <2> QED
    BY <1>1, <2>3, <2>4
<1>7. /\ TaskShape' /\ task'[n]["handler"] = AtRest
      /\ \A k \in Server : k # n => task'[k] = task[k]
  <2>1. PICK T : task \in [Server -> [Tasks -> T]]
    BY Zenon, <1>1 DEF TaskShape
  <2>2. task' = [task EXCEPT ![n] = [t \in DOMAIN task[n] |-> AtRest]]
    BY DEF CrashServer
  <2>3. task[n] \in [Tasks -> T]
    BY Zenon, <2>1
  <2>4. PICK row : row = [t \in DOMAIN task[n] |-> AtRest]
    BY Zenon
  <2>5. row \in [Tasks -> T \cup {AtRest}] /\ row["handler"] = AtRest
    BY <2>3, <2>4 DEF Tasks
  <2>6. task \in [Server -> [Tasks -> T \cup {AtRest}]]
    BY <2>1
  <2>7. /\ task' \in [Server -> [Tasks -> T \cup {AtRest}]] /\ task'[n] = row
        /\ \A k \in Server : k # n => task'[k] = task[k]
    BY <2>2, <2>4, <2>5, <2>6
  <2> QED
    BY Zenon, <2>5, <2>7 DEF TaskShape
<1>11. /\ outbox' \in [Server -> Seq(CountMsg)] /\ outbox'[n] = <<>>
       /\ \A k \in Server : k # n => outbox'[k] = outbox[k]
  <2>1. <<>> \in Seq(CountMsg)
    OBVIOUS
  <2>2. outbox' = [outbox EXCEPT ![n] = <<>>]
    BY Zenon DEF CrashServer
  <2> QED
    BY Zenon, <1>1, <2>1, <2>2
<1>8. CountTypeOK' /\ ShownShape'
  <2>1. alive' \subseteq Server
    BY Zenon, <1>1, <1>2
  <2> QED
    BY Zenon, <1>1, <1>2, <1>3, <1>4, <1>5, <1>6, <1>11, <2>1 DEF CountTypeOK, ShownShape
<1>9. ToldInv'
  <2> SUFFICES ASSUME NEW k \in alive', NEW l \in alive', k # l PROVE ToldOf(k, l)'
    BY Zenon DEF ToldInv
  <2>1. k \in alive /\ l \in alive /\ k # n /\ l # n
    BY Zenon, <1>2
  <2>2. ToldOf(k, l) /\ k \in Server /\ l \in Server
    BY Zenon, <1>1, <2>1 DEF ToldInv
  <2>3. SameTold(k, l)
    BY Zenon, <1>2, <1>3, <1>4, <1>5, <1>6, <1>7, <1>11, <2>1, <2>2 DEF SameTold
  <2> QED
    BY Zenon, <2>2, <2>3, ToldStays
<1>10. SubscribersSeeTotal'
  <2>1. n \notin alive' /\ alive' \subseteq alive
    BY Zenon, <1>2
  <2>2. \A k \in Server : k # n => SameSeen(k)
    BY Zenon, <1>2, <1>3, <1>6, <1>7 DEF SameSeen
  <2> QED
    BY Zenon, <2>1, <2>2, OthersSee
<1>12. BoxInv'
  <2>1. AtRest.step # "sending"
    BY DEF AtRest
  <2> QED
    BY Zenon, <1>1, <1>7, <1>11, <2>1, BoxKeeps
<1> QED
  BY Zenon, <1>7, <1>8, <1>9, <1>10, <1>12 DEF CountInv

(***************************************************************************)
(* The counts of the fleet                                                 *)
(***************************************************************************)

\* The invariant holds when the nodes start.
LEMMA CountStarts ==
    ASSUME CountInit
    PROVE  CountInv
<1>1. NoCount \in CountEntry /\ NotPending \in CountSnap /\ <<>> \in Seq(CountMsg) /\ 0 \in Nat
  BY DEF NoCount, CountEntry, NotPending, CountSnap
<1>2. CountTypeOK
  BY <1>1 DEF CountInit, CountTypeOK
<1>3. TaskShape /\ ShownShape
  <2>1. task \in [Server -> [Tasks -> {AtRest}]] /\ shown \in [Server -> {0}]
    BY DEF CountInit, Tasks
  <2> QED
    BY Zenon, <2>1 DEF TaskShape, ShownShape
<1>4. ToldInv
  <2> SUFFICES ASSUME NEW n \in Server, NEW m \in Server PROVE ToldOf(n, m)
    BY Zenon, <1>2 DEF ToldInv, CountTypeOK
  <2>1. /\ wire[m][n] = <<>> /\ latest[n][m] = 0 /\ gap[n][m] = 0 /\ drawn[m] = 0 /\ len[m] = 0
        /\ counts[n][m] = NoCount /\ pending[m] = NotPending /\ outbox[m] = <<>>
    BY DEF CountInit
  <2>2. PICK b : b = Busy(m)
    BY Zenon
  <2> QED
    BY Zenon, <2>1, <2>2, ToldStart DEF ToldOf, Stream, WithBox
<1>5. SubscribersSeeTotal
  <2>1. \A n \in alive : ~(len[n] > 0)
    BY DEF CountInit
  <2> QED
    BY Zenon, <2>1 DEF SubscribersSeeTotal
<1>6. BoxInv
  <2>1. \A n \in Server : outbox[n] = <<>> /\ task[n]["handler"] = AtRest
    BY DEF CountInit
  <2>2. AtRest.step # "sending"
    BY DEF AtRest
  <2> QED
    BY Zenon, <2>1, <2>2 DEF BoxInv, At
<1> QED
  BY Zenon, <1>2, <1>3, <1>4, <1>5, <1>6 DEF CountInv

\* Every step of every node, of the bus and of the faults keeps it.
LEMMA CountKeeps ==
    ASSUME CountInv, [CountNext]_countVars
    PROVE  CountInv'
<1>1. CASE UNCHANGED countVars
  BY Zenon, <1>1 DEF CountInv, CountTypeOK, TaskShape, ShownShape, ToldInv, ToldOf, Stream, Busy, BoxInv,
     SubscribersSeeTotal, At, Total, countVars
<1>2. CASE \/ \E n \in Server : CountJoin(n) \/ CountLeave(n) \/ CheckPeers(n) \/ NoteWithheld(n)
           \/ \E n \in Server : ReadTotal(n) \/ AnnounceSubscriptionCount(n) \/ EnqueueCount(n)
  BY Zenon, <1>2, HandlerCounts, AnnounceCounts, EnqueueCounts
<1>3. CASE \E n \in Server : CountSnapshotDraw(n) \/ CountSnapshotCapture(n) \/ CountSnapshotSend(n)
  BY Zenon, <1>3, SnapshotCounts
<1>4. CASE \E m, n \in Server : ApplySubscriptionCount(m, n) \/ ApplyCountSnapshot(m, n)
  BY Zenon, <1>4, CountDelivered, SnapshotDelivered, DeliverCounts
<1>5. CASE \/ \E n \in Server : BusCheckEmpty(n) \/ BusClaim(n) \/ BusReadTotal(n) \/ BusReemit(n)
           \/ \E n \in Server, t \in {"bus", "gc"} : EmitTotal(n, t)
  BY Zenon, <1>5, ConsumerSteps
<1>6. CASE \E n, m \in Server : ExpireCount(n, m) \/ LoseCount(m, n)
  BY Zenon, <1>6, ExpiryCounts, LossCounts
<1>7. CASE \E n \in Server : GcCounts(n) \/ CrashServer(n)
  BY Zenon, <1>7, GcPassCounts, CrashCounts
<1>8. CASE \E n \in Server : ForgetNoted(n)
  <2>1. UNCHANGED quiet /\ UNCHANGED <<len, task, shown, crossed>>
    BY Zenon, <1>8 DEF ForgetNoted, quiet
  <2> QED
    BY Zenon, <2>1 DEF CountInv, CountTypeOK, TaskShape, ShownShape, ToldInv, ToldOf, Stream, Busy, BoxInv,
       SubscribersSeeTotal, At, Total, quiet
<1> QED
  BY Zenon, <1>1, <1>2, <1>3, <1>4, <1>5, <1>6, <1>7, <1>8 DEF CountNext

\* For any fleet, whatever is sent, delivered late, lost or reaped, in any order:
\* what a node has been told of a peer agrees with the peer's count as far as
\* the numbers say it should.
THEOREM CountInvariance == CountSpec => []CountInv
<1>1. CountInit => CountInv
  BY Zenon, CountStarts
<1>2. CountInv /\ [CountNext]_countVars => CountInv'
  BY Zenon, CountKeeps
<1> QED
  BY PTL, <1>1, <1>2 DEF CountSpec

\* announce_subscription_count, publish_channel_count_snapshot and accept_seq: a
\* node that has all that a peer sent, or a snapshot since it missed something,
\* knows the peer's count, in a fleet of any size.
THEOREM CountsConverge == CountSpec => []CountsAreExact
<1>1. CountInv => CountsAreExact
  <2> SUFFICES ASSUME CountInv, NEW n \in alive, NEW m \in alive, n # m, UpToDate(n, m)
               PROVE  counts[n][m].count = len[m]
    BY Zenon DEF CountsAreExact
  <2>1. wire[m][n] = <<>> /\ At(m, "handler") = "idle" /\ gap[n][m] = 0
    BY Zenon DEF UpToDate
  <2>2. ToldOf(n, m) /\ BoxInv /\ m \in Server
    BY Zenon DEF CountInv, ToldInv, CountTypeOK
  <2>3. outbox[m] = <<>> /\ ~Busy(m)
    <3>1. At(m, "handler") # "sending"
      BY <2>1
    <3> QED
      BY Zenon, <2>1, <2>2, <3>1 DEF BoxInv, Busy
  <2>4. Stream(m, n) = <<>>
    BY Zenon, <2>1, <2>3 DEF Stream, WithBox
  <2>5. HeldTruth(<<>>, latest[n][m], gap[n][m], len[m], counts[n][m])
    BY Zenon, <2>2, <2>3, <2>4 DEF ToldOf, Told
  <2>6. \A i \in 1..Len(<<>>) : FALSE
    OBVIOUS
  <2> QED
    BY Zenon, <2>1, <2>5, <2>6 DEF HeldTruth
<1> QED
  BY PTL, <1>1, CountInvariance

\* announce_subscription_count and the consumer's and the GC's emissions: every
\* change of a count is followed by a new total to the subscribers.
THEOREM TotalsAreShown == CountSpec => []SubscribersSeeTotal
<1>1. CountInv => SubscribersSeeTotal
  BY Zenon DEF CountInv
<1> QED
  BY PTL, <1>1, CountInvariance
=============================================================================
