---------------------------- MODULE FleetProofs ----------------------------
(***************************************************************************)
(* Proofs about FleetPresence, for any set of nodes and users and any      *)
(* number of sequence numbers, lost messages and crashes: once a node has  *)
(* all that a peer has said, its cache of the peer is the peer's roster,   *)
(* and its clients see the users of the fleet.                             *)
(***************************************************************************)
EXTENDS FleetInvariant, TLAPS

(***************************************************************************)
(* Streams                                                                 *)
(***************************************************************************)

\* A message put at the end of a stream.
LEMMA AppendFacts ==
    ASSUME NEW s \in Seq(Message), NEW x \in Message
    PROVE  /\ Append(s, x) \in Seq(Message) /\ Len(Append(s, x)) = Len(s) + 1
           /\ Append(s, x)[Len(s) + 1] = x
           /\ \A i \in 1..Len(s) : Append(s, x)[i] = s[i]
  OBVIOUS

\* A message taken from the front.
LEMMA TailFacts ==
    ASSUME NEW s \in Seq(Message), s # <<>>
    PROVE  /\ Tail(s) \in Seq(Message) /\ Len(Tail(s)) + 1 = Len(s)
           /\ Head(s) = s[1] /\ Head(s) \in Message
           /\ \A i \in 1..Len(Tail(s)) : Tail(s)[i] = s[i + 1]
  OBVIOUS

\* A stream with a message in hand at its end.
LEMMA WithFacts ==
    ASSUME NEW s \in Seq(Message), NEW h \in Seq(Message)
    PROVE  /\ With(s, h) \in Seq(Message)
           /\ s # <<>> => /\ With(s, h) # <<>> /\ Head(With(s, h)) = Head(s)
                          /\ Tail(With(s, h)) = With(Tail(s), h)
<1>1. CASE h = <<>>
  BY <1>1 DEF With
<1>2. CASE h # <<>>
  <2>1. PICK x \in Message : x = h[1]
    BY <1>2
  <2>2. With(s, h) = Append(s, x) /\ With(Tail(s), h) = Append(Tail(s), x)
    BY Zenon, <1>2, <2>1 DEF With
  <2>3. Append(s, x) \in Seq(Message)
    BY Zenon, AppendFacts
  <2>4. s # <<>> => Append(s, x) # <<>> /\ Head(Append(s, x)) = Head(s)
    OBVIOUS
  <2>5. s # <<>> => Tail(Append(s, x)) = Append(Tail(s), x)
    OBVIOUS
  <2> QED BY Zenon, <2>2, <2>3, <2>4, <2>5
<1> QED BY Zenon, <1>1, <1>2

\* The numbers of a stream.
LEMMA StreamNumbers ==
    ASSUME NEW s \in Seq(Message)
    PROVE  Len(s) \in Nat /\ \A i \in 1..Len(s) : s[i] \in Message /\ s[i].seq \in Nat
<1>1. Len(s) \in Nat /\ \A i \in 1..Len(s) : s[i] \in Message
  OBVIOUS
<1>2. \A x \in Message : x.seq \in Nat
  BY Zenon DEF Message
<1> QED BY Zenon, <1>1, <1>2

\* What is put at the end does not change which of the others take effect.
LEMMA AppendEffective ==
    ASSUME NEW s \in Seq(Message), NEW t \in Seq(Message), NEW a \in Nat,
           Len(t) = Len(s) + 1, \A i \in 1..Len(s) : t[i] = s[i]
    PROVE  /\ \A i \in 1..Len(s) : Effective(t, a, i) <=> Effective(s, a, i)
           /\ Effective(t, a, Len(t)) <=>
                  t[Len(t)].seq > a /\ \A i \in 1..Len(s) : s[i].seq < t[Len(t)].seq
<1>1. Len(s) \in Nat /\ Len(t) \in Nat
  BY StreamNumbers
<1>2. ASSUME NEW i \in 1..Len(s)
      PROVE  Effective(t, a, i) <=> Effective(s, a, i)
  BY <1>1, <1>2 DEF Effective
<1>3. Effective(t, a, Len(t)) <=> t[Len(t)].seq > a /\ \A i \in 1..Len(s) : s[i].seq < t[Len(t)].seq
  BY <1>1 DEF Effective
<1> QED BY Zenon, <1>2, <1>3

\* Nor does the delivery of the first: accept_seq moves the mark past it.
LEMMA DeliverEffective ==
    ASSUME NEW s \in Seq(Message), NEW t \in Seq(Message), NEW a \in Nat, NEW b \in Nat,
           Len(t) + 1 = Len(s), \A i \in 1..Len(t) : t[i] = s[i + 1], s # <<>>,
           b = IF s[1].seq > a THEN s[1].seq ELSE a
    PROVE  \A i \in 1..Len(t) : Effective(t, b, i) <=> Effective(s, a, i + 1)
<1>1. Len(s) \in Nat /\ Len(t) \in Nat /\ \A i \in 1..Len(s) : s[i].seq \in Nat
  BY StreamNumbers
<1>2. SUFFICES ASSUME NEW i \in 1..Len(t)
               PROVE  Effective(t, b, i) <=> Effective(s, a, i + 1)
  OBVIOUS
<1>3. i + 1 \in 1..Len(s) /\ 1 \in 1..Len(s) /\ 1 < i + 1 /\ t[i] = s[i + 1]
  BY <1>1
<1>4. ASSUME Effective(t, b, i)
      PROVE  Effective(s, a, i + 1)
  <2>1. s[i + 1].seq > a /\ s[1].seq < s[i + 1].seq
    BY SMTT(30), <1>1, <1>3, <1>4 DEF Effective
  <2>2. ASSUME NEW j \in 1..Len(s), j < i + 1
        PROVE  s[j].seq < s[i + 1].seq
    <3>1. CASE j = 1
      BY <2>1, <3>1
    <3>2. CASE j # 1
      <4>1. j - 1 \in 1..Len(t) /\ j - 1 < i /\ (j - 1) + 1 = j
        BY <1>1, <2>2, <3>2
      <4>2. t[j - 1] = s[j]
        BY Zenon, <4>1
      <4> QED BY Zenon, <1>3, <1>4, <4>1, <4>2 DEF Effective
    <3> QED BY <3>1, <3>2
  <2> QED BY <2>1, <2>2 DEF Effective
<1>5. ASSUME Effective(s, a, i + 1)
      PROVE  Effective(t, b, i)
  <2>1. t[i].seq > b
    BY <1>1, <1>3, <1>5 DEF Effective
  <2>2. ASSUME NEW j \in 1..Len(t), j < i
        PROVE  t[j].seq < t[i].seq
    <3>1. j + 1 \in 1..Len(s) /\ j + 1 < i + 1 /\ t[j] = s[j + 1]
      BY <1>1, <2>2
    <3> QED BY <1>3, <1>5, <3>1 DEF Effective
  <2> QED BY <2>1, <2>2 DEF Effective
<1> QED BY <1>4, <1>5

(***************************************************************************)
(* What each event does to a pair                                          *)
(***************************************************************************)

\* The peer lets a user in or out and publishes it with a new number.
LEMMA PairLive ==
    ASSUME NEW s, NEW a, NEW lost, NEW top, NEW r, NEW c, NEW sn,
           PairType(s, a, lost, top, r, c, sn), Pair(s, a, lost, top, r, c, sn),
           NEW u \in User, NEW x \in Message, x.type \in {"added", "removed"},
           x.users = {u}, x.seq = top + 1,
           NEW q \in SUBSET User, u \in q <=> x.type = "added",
           \A v \in User : v # u => (v \in q <=> v \in r)
    PROVE  Pair(Append(s, x), a, lost, top + 1, q, c, sn)
<1> DEFINE t == Append(s, x)
<1>1. /\ s \in Seq(Message) /\ a \in Nat /\ lost \in Nat /\ top \in Nat
      /\ c \in Entry /\ sn \in Snap
  BY Zenon DEF PairType
<1>2. /\ Numbers(s, a, lost, top, sn) /\ StreamTruth(s, a, lost, r)
      /\ CacheTruth(s, a, lost, r, c) /\ EntryInv(lost, c) /\ SnapTruth(s, a, lost, r, sn)
  BY Zenon DEF Pair
<1>3. /\ t \in Seq(Message) /\ Len(t) = Len(s) + 1 /\ t[Len(s) + 1] = x
      /\ \A i \in 1..Len(s) : t[i] = s[i]
  BY Zenon, <1>1, AppendFacts
<1>4. Len(s) \in Nat /\ \A i \in 1..Len(s) : s[i] \in Message /\ s[i].seq \in Nat
  BY Zenon, <1>1, StreamNumbers
<1> HIDE DEF t
<1>5. 1..Len(t) = 1..Len(s) \cup {Len(t)} /\ t[Len(t)] = x /\ \A i \in 1..Len(s) : i < Len(t) /\ i # Len(t)
  BY <1>3, <1>4
<1>6. \A i \in 1..Len(s) : Effective(t, a, i) <=> Effective(s, a, i)
  BY Zenon, <1>1, <1>3, AppendEffective
<1>7. Effective(t, a, Len(t))
  <2>1. x.seq > a /\ \A i \in 1..Len(s) : s[i].seq < x.seq
    BY <1>1, <1>2, <1>4 DEF Numbers
  <2>2. Effective(t, a, Len(t)) <=>
            t[Len(t)].seq > a /\ \A i \in 1..Len(s) : s[i].seq < t[Len(t)].seq
    BY Zenon, <1>1, <1>3, AppendEffective
  <2> QED BY Zenon, <1>5, <2>1, <2>2
<1>8. Concerns(x, u) /\ (Says(x, u) <=> u \in q) /\ \A v \in User : v # u => ~Concerns(x, v)
  BY DEF Concerns, Says
<1>9. Numbers(t, a, lost, top + 1, sn)
  <2>1. a <= top + 1 /\ lost <= top + 1 /\ (sn.step # "idle" => sn.seq > 0 /\ sn.seq <= top + 1)
    BY <1>1, <1>2 DEF Numbers, Snap
  <2>2. \A i \in 1..Len(s) : t[i].seq > 0 /\ t[i].seq <= top + 1
    BY <1>1, <1>2, <1>3, <1>4 DEF Numbers
  <2>3. x.seq > 0 /\ x.seq <= top + 1
    BY <1>1
  <2>4. \A i \in 1..Len(t) : t[i].seq > 0 /\ t[i].seq <= top + 1
    BY Zenon, <1>5, <2>2, <2>3
  <2> QED BY Zenon, <2>1, <2>4 DEF Numbers
<1>10. StreamTruth(t, a, lost, q)
  <2> SUFFICES ASSUME NEW v \in User, NEW i \in 1..Len(t), LastWord(t, a, i, v),
                      t[i].seq > lost
               PROVE  Says(t[i], v) <=> v \in q
    BY Zenon DEF StreamTruth
  <2>1. CASE i = Len(t)
    <3>1. v = u
      BY Zenon, <1>5, <1>8, <2>1 DEF LastWord
    <3> QED BY Zenon, <1>5, <1>8, <2>1, <3>1
  <2>2. CASE i # Len(t)
    <3>1. i \in 1..Len(s) /\ t[i] = s[i] /\ Len(t) \in 1..Len(t)
      BY Zenon, <1>3, <1>5, <2>2
    <3>2. v # u
      BY Zenon, <1>5, <1>7, <1>8, <3>1 DEF LastWord
    <3>3. LastWord(s, a, i, v)
      BY Zenon, <1>3, <1>5, <1>6, <3>1 DEF LastWord
    <3>4. Says(s[i], v) <=> v \in r
      BY Zenon, <1>2, <3>1, <3>3 DEF StreamTruth
    <3> QED BY Zenon, <3>1, <3>2, <3>4
  <2> QED BY Zenon, <2>1, <2>2
<1>11. CacheTruth(t, a, lost, q, c)
  <2> SUFFICES ASSUME lost = 0, NEW v \in User, Settled(t, a, v)
               PROVE  v \in c.users <=> v \in q
    BY Zenon DEF CacheTruth
  <2>1. v # u
    BY Zenon, <1>5, <1>7, <1>8 DEF Settled
  <2>2. Settled(s, a, v)
    BY Zenon, <1>3, <1>5, <1>6 DEF Settled
  <2> QED BY Zenon, <1>2, <2>1, <2>2 DEF CacheTruth
<1>12. SnapTruth(t, a, lost, q, sn)
  <2> SUFFICES ASSUME sn.step = "captured", sn.seq > a, sn.seq > lost, NEW v \in User,
                      \A i \in 1..Len(t) : t[i].seq > sn.seq => ~Concerns(t[i], v)
               PROVE  v \in sn.users <=> v \in q
    BY Zenon DEF SnapTruth
  <2>1. x.seq > sn.seq
    BY <1>1, <1>2 DEF Numbers, Snap
  <2>2. v # u
    BY Zenon, <1>5, <1>8, <2>1
  <2>3. \A i \in 1..Len(s) : s[i].seq > sn.seq => ~Concerns(s[i], v)
    BY Zenon, <1>3, <1>5
  <2>4. v \in sn.users <=> v \in r
    BY Zenon, <1>2, <2>3 DEF SnapTruth
  <2> QED BY Zenon, <2>2, <2>4
<1> QED BY Zenon, <1>2, <1>9, <1>10, <1>11, <1>12 DEF Pair, t

\* The peer draws a number for a snapshot.
LEMMA PairDraw ==
    ASSUME NEW s, NEW a, NEW lost, NEW top, NEW r, NEW c, NEW sn,
           PairType(s, a, lost, top, r, c, sn), Pair(s, a, lost, top, r, c, sn),
           NEW new \in Snap, new.step = "drawn", new.seq = top + 1
    PROVE  Pair(s, a, lost, top + 1, r, c, new)
<1>1. /\ s \in Seq(Message) /\ a \in Nat /\ lost \in Nat /\ top \in Nat
  BY Zenon DEF PairType
<1>2. \A i \in 1..Len(s) : s[i].seq \in Nat
  BY Zenon, <1>1, StreamNumbers
<1>3. Numbers(s, a, lost, top, sn)
  BY Zenon DEF Pair
<1>4. Numbers(s, a, lost, top + 1, new)
  <2>1. a <= top + 1 /\ lost <= top + 1 /\ new.seq > 0 /\ new.seq <= top + 1
    BY <1>1, <1>3 DEF Numbers
  <2>2. \A i \in 1..Len(s) : s[i].seq > 0 /\ s[i].seq <= top + 1
    BY <1>1, <1>2, <1>3 DEF Numbers
  <2> QED BY Zenon, <1>3, <2>1, <2>2 DEF Numbers
<1>5. SnapTruth(s, a, lost, r, new)
  BY Zenon DEF SnapTruth
<1> QED BY Zenon, <1>4, <1>5 DEF Pair

\* The peer reads its roster for the snapshot, or has nobody to report.
LEMMA PairCapture ==
    ASSUME NEW s, NEW a, NEW lost, NEW top, NEW r, NEW c, NEW sn,
           Pair(s, a, lost, top, r, c, sn), NEW new,
           \/ new.step = "idle"
           \/ sn.step = "drawn" /\ new.step = "captured" /\ new.seq = sn.seq /\ new.users = r
    PROVE  Pair(s, a, lost, top, r, c, new)
<1>1. Numbers(s, a, lost, top, new)
  BY Zenon DEF Pair, Numbers
<1>2. SnapTruth(s, a, lost, r, new)
  BY Zenon DEF SnapTruth
<1> QED BY Zenon, <1>1, <1>2 DEF Pair

\* The snapshot goes out.  It takes effect only if nothing newer went out since
\* its number was drawn, and is then the roster.
LEMMA PairSend ==
    ASSUME NEW s, NEW a, NEW lost, NEW top, NEW r, NEW c, NEW sn,
           PairType(s, a, lost, top, r, c, sn), Pair(s, a, lost, top, r, c, sn),
           sn.step = "captured",
           NEW x \in Message, x.type = "snapshot", x.users = sn.users, x.seq = sn.seq
    PROVE  Pair(Append(s, x), a, lost, top, r, c, Idle)
<1> DEFINE t == Append(s, x)
<1>1. /\ s \in Seq(Message) /\ a \in Nat /\ lost \in Nat /\ top \in Nat
      /\ c \in Entry /\ sn \in Snap
  BY Zenon DEF PairType
<1>2. /\ Numbers(s, a, lost, top, sn) /\ StreamTruth(s, a, lost, r)
      /\ CacheTruth(s, a, lost, r, c) /\ EntryInv(lost, c) /\ SnapTruth(s, a, lost, r, sn)
  BY Zenon DEF Pair
<1>3. /\ t \in Seq(Message) /\ Len(t) = Len(s) + 1 /\ t[Len(s) + 1] = x
      /\ \A i \in 1..Len(s) : t[i] = s[i]
  BY Zenon, <1>1, AppendFacts
<1>4. Len(s) \in Nat /\ \A i \in 1..Len(s) : s[i].seq \in Nat
  BY Zenon, <1>1, StreamNumbers
<1> HIDE DEF t
<1>5. 1..Len(t) = 1..Len(s) \cup {Len(t)} /\ t[Len(t)] = x /\ \A i \in 1..Len(s) : i < Len(t) /\ i # Len(t)
  BY <1>3, <1>4
<1>6. \A i \in 1..Len(s) : Effective(t, a, i) <=> Effective(s, a, i)
  BY Zenon, <1>1, <1>3, AppendEffective
<1>7. Effective(t, a, Len(t)) <=> sn.seq > a /\ \A i \in 1..Len(s) : s[i].seq < sn.seq
  <2>1. Effective(t, a, Len(t)) <=>
            t[Len(t)].seq > a /\ \A i \in 1..Len(s) : s[i].seq < t[Len(t)].seq
    BY Zenon, <1>1, <1>3, AppendEffective
  <2> QED BY Zenon, <1>5, <2>1
<1>8. \A v \in User : Concerns(x, v) /\ (Says(x, v) <=> v \in sn.users)
  BY DEF Concerns, Says
<1>9. Numbers(t, a, lost, top, Idle)
  <2>1. \A i \in 1..Len(t) : t[i].seq > 0 /\ t[i].seq <= top
    BY Zenon, <1>2, <1>3, <1>5 DEF Numbers
  <2>2. Idle.step = "idle"
    BY Zenon DEF Idle
  <2> QED BY Zenon, <1>2, <2>1, <2>2 DEF Numbers
<1>10. StreamTruth(t, a, lost, r)
  <2> SUFFICES ASSUME NEW v \in User, NEW i \in 1..Len(t), LastWord(t, a, i, v),
                      t[i].seq > lost
               PROVE  Says(t[i], v) <=> v \in r
    BY Zenon DEF StreamTruth
  <2>1. CASE i = Len(t)
    <3>1. Effective(t, a, Len(t)) /\ sn.seq > lost
      BY Zenon, <1>5, <2>1 DEF LastWord
    <3>2. sn.seq > a /\ \A j \in 1..Len(s) : s[j].seq < sn.seq
      BY Zenon, <1>7, <3>1
    <3>3. \A j \in 1..Len(s) : ~(s[j].seq > sn.seq)
      BY <1>1, <1>4, <3>2 DEF Snap
    <3>4. v \in sn.users <=> v \in r
      BY Zenon, <1>2, <3>1, <3>2, <3>3 DEF SnapTruth
    <3> QED BY Zenon, <1>5, <1>8, <2>1, <3>4
  <2>2. CASE i # Len(t)
    <3>1. i \in 1..Len(s) /\ t[i] = s[i]
      BY Zenon, <1>3, <1>5, <2>2
    <3>2. LastWord(s, a, i, v)
      BY Zenon, <1>3, <1>5, <1>6, <3>1 DEF LastWord
    <3> QED BY Zenon, <1>2, <3>1, <3>2 DEF StreamTruth
  <2> QED BY Zenon, <2>1, <2>2
<1>11. CacheTruth(t, a, lost, r, c)
  <2>1. \A v \in User : Settled(t, a, v) => Settled(s, a, v)
    BY Zenon, <1>3, <1>5, <1>6 DEF Settled
  <2> QED BY Zenon, <1>2, <2>1 DEF CacheTruth
<1>12. SnapTruth(t, a, lost, r, Idle)
  BY Zenon DEF SnapTruth, Idle
<1> QED BY Zenon, <1>2, <1>9, <1>10, <1>11, <1>12 DEF Pair, t

\* The snapshot goes out before the live message that is in the peer's hand.  It
\* silences that message if its number is the later one, and was captured after it.
LEMMA PairInsert ==
    ASSUME NEW s \in Seq(Message), NEW a, NEW lost, NEW top, NEW r, NEW c, NEW sn,
           NEW y \in Message,
           PairType(Append(s, y), a, lost, top, r, c, sn), Pair(Append(s, y), a, lost, top, r, c, sn),
           sn.step = "captured",
           NEW x \in Message, x.type = "snapshot", x.users = sn.users, x.seq = sn.seq
    PROVE  Pair(Append(Append(s, x), y), a, lost, top, r, c, Idle)
<1>0. PICK k : k = Len(s)
  BY Zenon
<1>1. PICK o \in Seq(Message) : o = Append(s, y)
  BY Zenon, AppendFacts
<1>2. PICK p \in Seq(Message) : p = Append(s, x)
  BY Zenon, AppendFacts
<1>3. PICK t \in Seq(Message) : t = Append(p, y)
  BY Zenon, AppendFacts
<1>4. k \in Nat /\ \A i \in 1..k : s[i].seq \in Nat
  BY Zenon, <1>0, StreamNumbers
<1>5. Len(o) = k + 1 /\ o[k + 1] = y /\ \A i \in 1..k : o[i] = s[i]
  <2>1. /\ Len(Append(s, y)) = Len(s) + 1 /\ Append(s, y)[Len(s) + 1] = y
        /\ \A i \in 1..Len(s) : Append(s, y)[i] = s[i]
    BY Zenon, AppendFacts
  <2> QED BY Zenon, <1>0, <1>1, <2>1
<1>6. Len(p) = k + 1 /\ p[k + 1] = x /\ \A i \in 1..k : p[i] = s[i]
  <2>1. /\ Len(Append(s, x)) = Len(s) + 1 /\ Append(s, x)[Len(s) + 1] = x
        /\ \A i \in 1..Len(s) : Append(s, x)[i] = s[i]
    BY Zenon, AppendFacts
  <2> QED BY Zenon, <1>0, <1>2, <2>1
<1>7. Len(t) = k + 2 /\ t[k + 2] = y /\ t[k + 1] = x /\ \A i \in 1..k : t[i] = s[i]
  <2>1. Len(t) = Len(p) + 1 /\ t[Len(p) + 1] = y /\ \A i \in 1..Len(p) : t[i] = p[i]
    <3>1. /\ Len(Append(p, y)) = Len(p) + 1 /\ Append(p, y)[Len(p) + 1] = y
          /\ \A i \in 1..Len(p) : Append(p, y)[i] = p[i]
      BY Zenon, AppendFacts
    <3> QED BY Zenon, <1>3, <3>1
  <2>2. Len(p) + 1 = k + 2 /\ k + 1 \in 1..Len(p) /\ \A i \in 1..k : i \in 1..Len(p)
    BY <1>4, <1>6
  <2> QED BY Zenon, <1>6, <2>1, <2>2
<1>8. /\ 1..Len(o) = 1..k \cup {k + 1} /\ 1..Len(t) = 1..k \cup {k + 1, k + 2}
      /\ k + 1 \in 1..Len(t) /\ k + 2 \in 1..Len(t) /\ k + 1 \in 1..Len(o)
      /\ \A i \in 1..k : i < k + 1 /\ i < k + 2 /\ ~(k + 1 < i) /\ ~(k + 2 < i)
      /\ k + 1 < k + 2 /\ ~(k + 2 < k + 1) /\ ~(k + 1 < k + 1) /\ ~(k + 2 < k + 2)
  <2>1. 1..(k + 1) = 1..k \cup {k + 1} /\ 1..(k + 2) = 1..(k + 1) \cup {k + 2}
    <3>1. \A i \in Int : i \in 1..(k + 1) <=> i \in 1..k \/ i = k + 1
      BY <1>4
    <3>2. \A i \in Int : i \in 1..(k + 2) <=> i \in 1..(k + 1) \/ i = k + 2
      BY <1>4
    <3>3. k + 1 \in Int /\ k + 2 \in Int /\ \A l \in Int : 1..l \subseteq Int
      BY <1>4
    <3>4. k \in Int
      BY <1>4
    <3> QED BY Zenon, <3>1, <3>2, <3>3, <3>4
  <2>2. /\ \A i \in 1..k : i < k + 1 /\ i < k + 2 /\ ~(k + 1 < i) /\ ~(k + 2 < i)
        /\ k + 1 < k + 2 /\ ~(k + 2 < k + 1) /\ ~(k + 1 < k + 1) /\ ~(k + 2 < k + 2)
    BY <1>4
  <2> QED BY Zenon, <1>5, <1>7, <2>1, <2>2
<1>9. /\ a \in Nat /\ lost \in Nat /\ top \in Nat /\ c \in Entry /\ sn.seq \in Nat /\ y.seq \in Nat
  BY Zenon DEF PairType, Snap, Message
<1>10. /\ Numbers(o, a, lost, top, sn) /\ StreamTruth(o, a, lost, r)
       /\ CacheTruth(o, a, lost, r, c) /\ EntryInv(lost, c) /\ SnapTruth(o, a, lost, r, sn)
  BY Zenon, <1>1 DEF Pair
<1>11. \A v \in User : Concerns(x, v) /\ (Says(x, v) <=> v \in sn.users)
  BY DEF Concerns, Says
\* What takes effect.
<1>12. \A i \in 1..k : Effective(t, a, i) <=> Effective(o, a, i)
  <2> SUFFICES ASSUME NEW i \in 1..k
               PROVE  Effective(t, a, i) <=> Effective(o, a, i)
    BY Zenon
  <2>1. Effective(o, a, i) <=> s[i].seq > a /\ \A j \in 1..k : j < i => s[j].seq < s[i].seq
    BY Zenon, <1>5, <1>8 DEF Effective
  <2>2. Effective(t, a, i) <=> s[i].seq > a /\ \A j \in 1..k : j < i => s[j].seq < s[i].seq
    BY Zenon, <1>7, <1>8 DEF Effective
  <2> QED BY Zenon, <2>1, <2>2
<1>13. Effective(t, a, k + 1) <=> sn.seq > a /\ \A i \in 1..k : s[i].seq < sn.seq
  BY Zenon, <1>7, <1>8 DEF Effective
<1>14. Effective(o, a, k + 1) <=> y.seq > a /\ \A i \in 1..k : s[i].seq < y.seq
  BY Zenon, <1>5, <1>8 DEF Effective
<1>15. Effective(t, a, k + 2) <=> Effective(o, a, k + 1) /\ sn.seq < y.seq
  <2>1. Effective(t, a, k + 2) <=> y.seq > a /\ (\A i \in 1..k : s[i].seq < y.seq) /\ sn.seq < y.seq
    BY Zenon, <1>7, <1>8 DEF Effective
  <2> QED BY Zenon, <1>14, <2>1
\* If what is in hand is silenced, it is by the snapshot.
<1>16. Effective(o, a, k + 1) => Effective(t, a, k + 2) \/ Effective(t, a, k + 1)
  <2> SUFFICES ASSUME Effective(o, a, k + 1), ~(sn.seq < y.seq)
               PROVE  Effective(t, a, k + 1)
    BY Zenon, <1>15
  <2>1. y.seq > a /\ \A i \in 1..k : s[i].seq < y.seq
    BY Zenon, <1>14
  <2>2. sn.seq >= y.seq
    BY <1>9
  <2>3. sn.seq > a /\ \A i \in 1..k : s[i].seq < sn.seq
    BY <1>4, <1>9, <2>1, <2>2
  <2> QED BY Zenon, <1>13, <2>3
<1>17. Numbers(t, a, lost, top, Idle)
  <2>1. \A i \in 1..k : s[i].seq > 0 /\ s[i].seq <= top
    BY Zenon, <1>5, <1>8, <1>10 DEF Numbers
  <2>2. y.seq > 0 /\ y.seq <= top /\ sn.seq > 0 /\ sn.seq <= top
    BY Zenon, <1>5, <1>8, <1>10 DEF Numbers
  <2>3. \A i \in 1..Len(t) : t[i].seq > 0 /\ t[i].seq <= top
    BY Zenon, <1>7, <1>8, <2>1, <2>2
  <2>4. Idle.step = "idle"
    BY Zenon DEF Idle
  <2> QED BY Zenon, <1>10, <2>3, <2>4 DEF Numbers
<1>18. StreamTruth(t, a, lost, r)
  <2> SUFFICES ASSUME NEW v \in User, NEW i \in 1..Len(t), LastWord(t, a, i, v), t[i].seq > lost
               PROVE  Says(t[i], v) <=> v \in r
    BY Zenon DEF StreamTruth
  <2>0. /\ Effective(t, a, i) /\ Concerns(t[i], v)
        /\ \A j \in 1..Len(t) : j > i /\ Effective(t, a, j) => ~Concerns(t[j], v)
    BY Zenon DEF LastWord
  <2>1. CASE i = k + 2
    <3>1. Effective(o, a, k + 1) /\ Concerns(o[k + 1], v) /\ o[k + 1] = t[i]
      BY Zenon, <1>5, <1>7, <1>15, <2>0, <2>1
    <3>2. \A j \in 1..Len(o) : ~(j > k + 1)
      BY <1>4, <1>5
    <3>3. LastWord(o, a, k + 1, v)
      BY Zenon, <3>1, <3>2 DEF LastWord
    <3> QED BY Zenon, <1>8, <1>10, <3>1, <3>3 DEF StreamTruth
  <2>2. CASE i = k + 1
    <3>1. sn.seq > a /\ sn.seq > lost /\ \A j \in 1..k : s[j].seq < sn.seq
      BY Zenon, <1>7, <1>13, <2>0, <2>2
    <3>2. \A j \in 1..k : ~(s[j].seq > sn.seq)
      BY <1>4, <1>9, <3>1
    <3>3. y.seq > sn.seq => ~Concerns(y, v)
      <4> SUFFICES ASSUME y.seq > sn.seq PROVE ~Concerns(y, v)
        BY Zenon
      <4>1. y.seq > a /\ \A j \in 1..k : s[j].seq < y.seq
        BY <1>4, <1>9, <3>1
      <4>2. sn.seq < y.seq
        BY <1>9
      <4>3. Effective(t, a, k + 2)
        BY Zenon, <1>14, <1>15, <4>1, <4>2
      <4>4. k + 2 > i
        BY <1>4, <2>2
      <4> QED BY Zenon, <1>7, <1>8, <2>0, <4>3, <4>4
    <3>4. \A j \in 1..Len(o) : o[j].seq > sn.seq => ~Concerns(o[j], v)
      BY Zenon, <1>5, <1>8, <3>2, <3>3
    <3>5. v \in sn.users <=> v \in r
      BY Zenon, <1>10, <3>1, <3>4 DEF SnapTruth
    <3> QED BY Zenon, <1>7, <1>11, <2>2, <3>5
  <2>3. CASE i \in 1..k
    <3>1. Effective(o, a, i) /\ Concerns(o[i], v) /\ o[i] = t[i] /\ i \in 1..Len(o)
      BY Zenon, <1>5, <1>7, <1>8, <1>12, <2>0, <2>3
    <3>2. k + 1 > i /\ k + 2 > i
      BY <1>4, <2>3
    <3>3. ~Effective(t, a, k + 1)
      BY Zenon, <1>7, <1>8, <1>11, <2>0, <3>2
    <3>4. Effective(o, a, k + 1) => ~Concerns(y, v)
      BY Zenon, <1>7, <1>8, <1>16, <2>0, <3>2, <3>3
    <3>5. ASSUME NEW j \in 1..Len(o), j > i, Effective(o, a, j)
          PROVE  ~Concerns(o[j], v)
      <4>1. CASE j = k + 1
        BY Zenon, <1>5, <3>4, <3>5, <4>1
      <4>2. CASE j \in 1..k
        BY Zenon, <1>5, <1>7, <1>8, <1>12, <2>0, <3>5, <4>2
      <4> QED BY Zenon, <1>8, <4>1, <4>2
    <3>6. LastWord(o, a, i, v)
      BY Zenon, <3>1, <3>5 DEF LastWord
    <3> QED BY Zenon, <1>10, <3>1, <3>6 DEF StreamTruth
  <2> QED BY Zenon, <1>8, <2>1, <2>2, <2>3
<1>19. CacheTruth(t, a, lost, r, c)
  <2>1. ASSUME NEW v \in User, Settled(t, a, v)
        PROVE  Settled(o, a, v)
    <3>1. ~Effective(t, a, k + 1) /\ (Effective(t, a, k + 2) => ~Concerns(y, v))
      BY Zenon, <1>7, <1>8, <1>11, <2>1 DEF Settled
    <3>2. Effective(o, a, k + 1) => ~Concerns(y, v)
      BY Zenon, <1>16, <3>1
    <3>3. \A i \in 1..k : Effective(o, a, i) => ~Concerns(o[i], v)
      BY Zenon, <1>5, <1>7, <1>8, <1>12, <2>1 DEF Settled
    <3> QED BY Zenon, <1>5, <1>8, <3>2, <3>3 DEF Settled
  <2> QED BY Zenon, <1>10, <2>1 DEF CacheTruth
<1>20. SnapTruth(t, a, lost, r, Idle)
  BY Zenon DEF SnapTruth, Idle
<1>21. Pair(t, a, lost, top, r, c, Idle)
  BY Zenon, <1>10, <1>17, <1>18, <1>19, <1>20 DEF Pair
<1> QED BY Zenon, <1>2, <1>3, <1>21

\* The node applies the first message on the way, or drops it as too old.
LEMMA PairDeliver ==
    ASSUME NEW s, NEW a, NEW lost, NEW top, NEW r, NEW c, NEW sn,
           PairType(s, a, lost, top, r, c, sn), Pair(s, a, lost, top, r, c, sn), s # <<>>,
           NEW b, b = IF Head(s).seq > a THEN Head(s).seq ELSE a,
           NEW left, left = IF Head(s).seq > a /\ Head(s).type = "snapshot" /\ Head(s).seq > lost
                            THEN 0 ELSE lost,
           NEW d, EntryInv(left, d),
           \A u \in User : IF Head(s).seq > a /\ Concerns(Head(s), u)
                           THEN u \in d.users <=> Says(Head(s), u)
                           ELSE u \in d.users <=> u \in c.users
    PROVE  Pair(Tail(s), b, left, top, r, d, sn)
<1> DEFINE t == Tail(s)
<1>1. /\ s \in Seq(Message) /\ a \in Nat /\ lost \in Nat /\ top \in Nat
      /\ c \in Entry /\ sn \in Snap
  BY Zenon DEF PairType
<1>2. /\ Numbers(s, a, lost, top, sn) /\ StreamTruth(s, a, lost, r)
      /\ CacheTruth(s, a, lost, r, c) /\ SnapTruth(s, a, lost, r, sn)
  BY Zenon DEF Pair
<1>3. /\ t \in Seq(Message) /\ Len(t) + 1 = Len(s) /\ Head(s) = s[1]
      /\ \A i \in 1..Len(t) : t[i] = s[i + 1]
  BY Zenon, <1>1, TailFacts
<1>4. /\ Len(s) \in Nat /\ Len(t) \in Nat
      /\ \A i \in 1..Len(s) : s[i] \in Message /\ s[i].seq \in Nat
  BY Zenon, <1>1, <1>3, StreamNumbers
<1> HIDE DEF t
<1>5. /\ 1 \in 1..Len(s)
      /\ \A i \in 1..Len(t) : i + 1 \in 1..Len(s) /\ i + 1 > 1
      /\ \A i \in 1..Len(s) : i > 1 => i - 1 \in 1..Len(t) /\ (i - 1) + 1 = i
      /\ \A i \in 1..Len(s) : i = 1 \/ i > 1
      /\ \A i, j \in 1..Len(t) : i < j <=> i + 1 < j + 1
  BY <1>3, <1>4
<1>6. /\ b \in Nat /\ left \in Nat /\ b >= a /\ b >= s[1].seq /\ b <= top /\ left <= top
      /\ s[1].seq \in Nat /\ s[1].seq > 0
  BY <1>1, <1>2, <1>3, <1>4, <1>5 DEF Numbers
<1>7. \A i \in 1..Len(t) : Effective(t, b, i) <=> Effective(s, a, i + 1)
  BY Zenon, <1>1, <1>3, <1>6, DeliverEffective
<1>8. \A i \in 1..Len(s) : i > 1 => (Effective(s, a, i) <=> Effective(t, b, i - 1)) /\ t[i - 1] = s[i]
  <2>1. ASSUME NEW i \in 1..Len(s), i > 1, NEW k \in 1..Len(t), k + 1 = i
        PROVE  (Effective(s, a, i) <=> Effective(t, b, k)) /\ t[k] = s[i]
    BY Zenon, <1>3, <1>7, <2>1
  <2> QED BY Zenon, <1>5, <2>1
<1>9. Effective(s, a, 1) <=> s[1].seq > a
  BY <1>4 DEF Effective
<1>10. Numbers(t, b, left, top, sn)
  <2>1. \A i \in 1..Len(t) : t[i].seq > 0 /\ t[i].seq <= top
    BY Zenon, <1>2, <1>3, <1>5 DEF Numbers
  <2> QED BY Zenon, <1>2, <1>6, <2>1 DEF Numbers
<1>11. StreamTruth(t, b, left, r)
  <2> SUFFICES ASSUME NEW v \in User, NEW i \in 1..Len(t), LastWord(t, b, i, v),
                      t[i].seq > left
               PROVE  Says(t[i], v) <=> v \in r
    BY Zenon DEF StreamTruth
  <2>1. i + 1 \in 1..Len(s) /\ t[i] = s[i + 1] /\ i + 1 > 1
    BY Zenon, <1>3, <1>5
  <2>2. LastWord(s, a, i + 1, v)
    <3>1. Effective(s, a, i + 1) /\ Concerns(s[i + 1], v)
      BY Zenon, <1>7, <2>1 DEF LastWord
    <3>2. ASSUME NEW j \in 1..Len(s), j > i + 1, Effective(s, a, j)
          PROVE  ~Concerns(s[j], v)
      <4>1. j > 1 /\ j - 1 > i
        BY <1>4, <3>2
      <4>2. j - 1 \in 1..Len(t) /\ t[j - 1] = s[j] /\ Effective(t, b, j - 1)
        BY Zenon, <1>5, <1>8, <3>2, <4>1
      <4> QED BY Zenon, <4>1, <4>2 DEF LastWord
    <3> QED BY Zenon, <3>1, <3>2 DEF LastWord
  <2>3. s[i + 1].seq > lost
    <3>1. CASE left = lost
      BY Zenon, <2>1, <3>1
    <3>2. CASE left # lost
      <4>1. s[1].seq > lost
        BY Zenon, <1>3, <3>2
      <4>2. s[1].seq < s[i + 1].seq
        BY <1>5, <2>1, <2>2 DEF LastWord, Effective
      <4> QED BY <1>1, <1>4, <1>5, <2>1, <4>1, <4>2
    <3> QED BY Zenon, <3>1, <3>2
  <2> QED BY Zenon, <1>2, <2>1, <2>2, <2>3 DEF StreamTruth
<1>12. CacheTruth(t, b, left, r, d)
  <2> SUFFICES ASSUME left = 0, NEW v \in User, Settled(t, b, v)
               PROVE  v \in d.users <=> v \in r
    BY Zenon DEF CacheTruth
  <2>1. \A i \in 1..Len(s) : i > 1 /\ Effective(s, a, i) => ~Concerns(s[i], v)
    BY Zenon, <1>5, <1>8 DEF Settled
  <2>2. CASE s[1].seq > a /\ Concerns(s[1], v)
    <3>1. LastWord(s, a, 1, v)
      BY Zenon, <1>9, <2>1, <2>2 DEF LastWord
    <3>2. s[1].seq > lost
      <4>1. CASE lost = 0
        BY Zenon, <1>6, <4>1
      <4>2. CASE lost # 0
        BY Zenon, <1>3, <4>2
      <4> QED BY Zenon, <4>1, <4>2
    <3>3. Says(s[1], v) <=> v \in r
      BY Zenon, <1>2, <1>5, <3>1, <3>2 DEF StreamTruth
    <3> QED BY Zenon, <1>3, <2>2, <3>3
  <2>3. CASE ~(s[1].seq > a /\ Concerns(s[1], v))
    <3>1. lost = 0
      <4>1. ~(s[1].seq > a /\ s[1].type = "snapshot")
        BY Zenon, <2>3 DEF Concerns
      <4> QED BY Zenon, <1>3, <4>1
    <3>2. Settled(s, a, v)
      BY Zenon, <1>5, <1>9, <2>1, <2>3 DEF Settled
    <3>3. v \in c.users <=> v \in r
      BY Zenon, <1>2, <3>1, <3>2 DEF CacheTruth
    <3> QED BY Zenon, <1>3, <2>3, <3>3
  <2> QED BY Zenon, <2>2, <2>3
<1>13. SnapTruth(t, b, left, r, sn)
  <2> SUFFICES ASSUME sn.step = "captured", sn.seq > b, sn.seq > left, NEW v \in User,
                      \A i \in 1..Len(t) : t[i].seq > sn.seq => ~Concerns(t[i], v)
               PROVE  v \in sn.users <=> v \in r
    BY Zenon DEF SnapTruth
  <2>0. sn.seq \in Nat
    BY Zenon, <1>1 DEF Snap
  <2>1. sn.seq > a /\ s[1].seq < sn.seq /\ ~(s[1].seq > sn.seq)
    BY <1>1, <1>6, <2>0
  <2>2. sn.seq > lost
    <3>1. left = lost \/ s[1].seq > lost
      BY Zenon, <1>3
    <3> QED BY <1>1, <1>6, <2>0, <2>1, <3>1
  <2>3. \A i \in 1..Len(s) : s[i].seq > sn.seq => ~Concerns(s[i], v)
    BY Zenon, <1>5, <1>8, <2>1
  <2> QED BY Zenon, <1>2, <2>1, <2>2, <2>3 DEF SnapTruth
<1> QED BY Zenon, <1>10, <1>11, <1>12, <1>13 DEF Pair, t

\* The same, for the operators.
LEMMA PairReceive ==
    ASSUME NEW s, NEW a, NEW lost, NEW top, NEW r, NEW c, NEW sn,
           PairType(s, a, lost, top, r, c, sn), Pair(s, a, lost, top, r, c, sn), s # <<>>,
           NEW d, EntryInv(Left(Head(s), a, lost), d), Applies(Head(s), a, c, d)
    PROVE  Pair(Tail(s), Mark(Head(s), a), Left(Head(s), a, lost), top, r, d, sn)
<1>1. PICK b : b = Mark(Head(s), a)
  BY Zenon
<1>2. PICK left : left = Left(Head(s), a, lost)
  BY Zenon
<1>3. b = IF Head(s).seq > a THEN Head(s).seq ELSE a
  BY Zenon, <1>1 DEF Mark
<1>4. left = IF Head(s).seq > a /\ Head(s).type = "snapshot" /\ Head(s).seq > lost THEN 0 ELSE lost
  BY Zenon, <1>2 DEF Left
<1>5. EntryInv(left, d)
  BY Zenon, <1>2
<1>6. \A u \in User : IF Head(s).seq > a /\ Concerns(Head(s), u)
                      THEN u \in d.users <=> Says(Head(s), u)
                      ELSE u \in d.users <=> u \in c.users
  BY Zenon DEF Applies
<1>7. Pair(Tail(s), b, left, top, r, d, sn)
  BY Zenon, <1>3, <1>4, <1>5, <1>6, PairDeliver
<1> QED BY Zenon, <1>1, <1>2, <1>7

\* The first message on the way is lost.
LEMMA PairLose ==
    ASSUME NEW s, NEW a, NEW lost, NEW top, NEW r, NEW c, NEW sn,
           PairType(s, a, lost, top, r, c, sn), Pair(s, a, lost, top, r, c, sn), s # <<>>,
           NEW left, left = IF Head(s).seq > lost THEN Head(s).seq ELSE lost
    PROVE  Pair(Tail(s), a, left, top, r, c, sn)
<1> DEFINE t == Tail(s)
<1>1. /\ s \in Seq(Message) /\ a \in Nat /\ lost \in Nat /\ top \in Nat
      /\ c \in Entry /\ sn \in Snap
  BY Zenon DEF PairType
<1>2. /\ Numbers(s, a, lost, top, sn) /\ StreamTruth(s, a, lost, r)
      /\ SnapTruth(s, a, lost, r, sn) /\ EntryInv(lost, c)
  BY Zenon DEF Pair
<1>3. /\ t \in Seq(Message) /\ Len(t) + 1 = Len(s) /\ Head(s) = s[1]
      /\ \A i \in 1..Len(t) : t[i] = s[i + 1]
  BY Zenon, <1>1, TailFacts
<1>4. /\ Len(s) \in Nat /\ Len(t) \in Nat
      /\ \A i \in 1..Len(s) : s[i] \in Message /\ s[i].seq \in Nat
  BY Zenon, <1>1, <1>3, StreamNumbers
<1> HIDE DEF t
<1>5. /\ 1 \in 1..Len(s)
      /\ \A i \in 1..Len(t) : i + 1 \in 1..Len(s) /\ i + 1 > 1
      /\ \A i \in 1..Len(s) : i > 1 => i - 1 \in 1..Len(t) /\ (i - 1) + 1 = i /\ t[i - 1] = s[i]
      /\ \A i \in 1..Len(s) : i = 1 \/ i > 1
  BY <1>3, <1>4
<1>6. /\ left \in Nat /\ left >= lost /\ left >= s[1].seq /\ left <= top /\ left > 0
      /\ s[1].seq \in Nat
  BY <1>1, <1>2, <1>3, <1>4, <1>5 DEF Numbers
<1>7. ASSUME NEW i \in 1..Len(t), Effective(s, a, i + 1)
      PROVE  Effective(t, a, i)
  <2>1. t[i].seq > a
    BY Zenon, <1>3, <1>7 DEF Effective
  <2>2. ASSUME NEW j \in 1..Len(t), j < i
        PROVE  t[j].seq < t[i].seq
    <3>1. j + 1 \in 1..Len(s) /\ j + 1 < i + 1
      BY <1>4, <1>5, <2>2
    <3> QED BY Zenon, <1>3, <1>7, <3>1 DEF Effective
  <2> QED BY Zenon, <2>1, <2>2 DEF Effective
<1>8. ASSUME NEW i \in 1..Len(t), Effective(t, a, i), t[i].seq > left
      PROVE  Effective(s, a, i + 1)
  <2>1. s[i + 1].seq > a
    BY Zenon, <1>3, <1>8 DEF Effective
  <2>2. ASSUME NEW j \in 1..Len(s), j < i + 1
        PROVE  s[j].seq < s[i + 1].seq
    <3>1. CASE j = 1
      <4>1. s[i + 1].seq \in Nat /\ s[i + 1].seq > left
        BY Zenon, <1>3, <1>4, <1>5, <1>8
      <4> QED BY <1>6, <3>1, <4>1
    <3>2. CASE j # 1
      <4>1. j - 1 \in 1..Len(t) /\ j - 1 < i /\ t[j - 1] = s[j]
        BY <1>4, <1>5, <2>2, <3>2
      <4> QED BY Zenon, <1>3, <1>8, <4>1 DEF Effective
    <3> QED BY Zenon, <3>1, <3>2
  <2> QED BY Zenon, <2>1, <2>2 DEF Effective
<1>9. Numbers(t, a, left, top, sn)
  <2>1. \A i \in 1..Len(t) : t[i].seq > 0 /\ t[i].seq <= top
    BY Zenon, <1>2, <1>3, <1>5 DEF Numbers
  <2> QED BY Zenon, <1>2, <1>6, <2>1 DEF Numbers
<1>10. StreamTruth(t, a, left, r)
  <2> SUFFICES ASSUME NEW v \in User, NEW i \in 1..Len(t), LastWord(t, a, i, v),
                      t[i].seq > left
               PROVE  Says(t[i], v) <=> v \in r
    BY Zenon DEF StreamTruth
  <2>1. i + 1 \in 1..Len(s) /\ t[i] = s[i + 1]
    BY Zenon, <1>3, <1>5
  <2>2. Effective(s, a, i + 1)
    BY Zenon, <1>8 DEF LastWord
  <2>3. LastWord(s, a, i + 1, v)
    <3>1. Concerns(s[i + 1], v)
      BY Zenon, <2>1 DEF LastWord
    <3>2. ASSUME NEW j \in 1..Len(s), j > i + 1, Effective(s, a, j)
          PROVE  ~Concerns(s[j], v)
      <4>1. j > 1 /\ j - 1 > i
        BY <1>4, <3>2
      <4>2. PICK k \in 1..Len(t) : k > i /\ k + 1 = j /\ t[k] = s[j]
        BY Zenon, <1>5, <4>1
      <4>3. Effective(t, a, k)
        BY Zenon, <1>7, <3>2, <4>2
      <4> QED BY Zenon, <4>2, <4>3 DEF LastWord
    <3> QED BY Zenon, <2>2, <3>1, <3>2 DEF LastWord
  <2>4. s[i + 1].seq > lost
    <3>1. s[i + 1].seq \in Nat
      BY Zenon, <1>4, <2>1
    <3>2. s[i + 1].seq > left => s[i + 1].seq > lost
      BY <1>1, <1>6, <3>1
    <3> QED BY Zenon, <2>1, <3>2
  <2> QED BY Zenon, <1>2, <2>1, <2>3, <2>4 DEF StreamTruth
<1>11. left # 0
  BY <1>6
<1>12. CacheTruth(t, a, left, r, c) /\ EntryInv(left, c)
  BY Zenon, <1>2, <1>11 DEF CacheTruth, EntryInv
<1>13. SnapTruth(t, a, left, r, sn)
  <2> SUFFICES ASSUME sn.step = "captured", sn.seq > a, sn.seq > left, NEW v \in User,
                      \A i \in 1..Len(t) : t[i].seq > sn.seq => ~Concerns(t[i], v)
               PROVE  v \in sn.users <=> v \in r
    BY Zenon DEF SnapTruth
  <2>1. sn.seq \in Nat
    BY Zenon, <1>1 DEF Snap
  <2>2. sn.seq > lost /\ ~(s[1].seq > sn.seq)
    BY <1>1, <1>6, <2>1
  <2>3. \A i \in 1..Len(s) : s[i].seq > sn.seq => ~Concerns(s[i], v)
    BY Zenon, <1>5, <2>2
  <2> QED BY Zenon, <1>2, <2>2, <2>3 DEF SnapTruth
<1> QED BY Zenon, <1>9, <1>10, <1>12, <1>13 DEF Pair, t

\* An entry passes its TTL.
LEMMA PairExpire ==
    ASSUME NEW s, NEW a, NEW lost, NEW top, NEW r, NEW c, NEW sn,
           PairType(s, a, lost, top, r, c, sn), Pair(s, a, lost, top, r, c, sn),
           NEW d, d.users = c.users, d.age = "expired",
           lost > 0 \/ (r = {} /\ s = <<>>)
    PROVE  Pair(s, a, lost, top, r, d, sn)
<1>1. CacheTruth(s, a, lost, r, c) /\ lost \in Nat /\ c \in Entry
  BY Zenon DEF Pair, PairType
<1>2. CacheTruth(s, a, lost, r, d)
  BY Zenon, <1>1 DEF CacheTruth
<1>3. lost = 0 => d.users = {}
  <2>1. ASSUME lost = 0, NEW v \in User
        PROVE  v \notin c.users
    <3>1. s = <<>> /\ r = {}
      BY <1>1, <2>1
    <3>2. Settled(s, a, v)
      BY <3>1 DEF Settled
    <3> QED BY Zenon, <1>1, <2>1, <3>1, <3>2 DEF CacheTruth
  <2>2. c.users \subseteq User
    BY Zenon, <1>1 DEF Entry
  <2> QED BY Zenon, <2>1, <2>2
<1>4. EntryInv(lost, d)
  BY Zenon, <1>3 DEF EntryInv
<1> QED BY Zenon, <1>2, <1>4 DEF Pair

\* The GC drops an entry that is past its TTL.
LEMMA PairReap ==
    ASSUME NEW s, NEW a, NEW lost, NEW top, NEW r, NEW c, NEW sn,
           Pair(s, a, lost, top, r, c, sn), c.age = "expired"
    PROVE  Pair(s, a, lost, top, r, NoEntry, sn)
<1>1. CacheTruth(s, a, lost, r, c) /\ EntryInv(lost, c)
  BY Zenon DEF Pair
<1>2. CacheTruth(s, a, lost, r, NoEntry)
  BY Zenon, <1>1 DEF CacheTruth, EntryInv, NoEntry
<1>3. EntryInv(lost, NoEntry)
  BY Zenon DEF EntryInv, NoEntry
<1> QED BY Zenon, <1>2, <1>3 DEF Pair

\* The sequence number of a peer that has been silent for long is forgotten: what
\* it sent last was lost.
LEMMA PairForget ==
    ASSUME NEW a, NEW lost, NEW top, NEW r, NEW c, NEW sn,
           PairType(<<>>, a, lost, top, r, c, sn), Pair(<<>>, a, lost, top, r, c, sn),
           sn.step = "idle", lost > 0
    PROVE  Pair(<<>>, 0, lost, top, r, c, sn)
<1> DEFINE s == <<>>
<1>1. Numbers(s, a, lost, top, sn) /\ EntryInv(lost, c) /\ lost \in Nat /\ a \in Nat /\ top \in Nat
  BY Zenon DEF Pair, PairType
<1>2. \A i \in 1..Len(s) : FALSE
  OBVIOUS
<1>3. lost # 0 /\ 0 <= top
  BY <1>1
<1> HIDE DEF s
<1>4. Numbers(s, 0, lost, top, sn)
  BY Zenon, <1>1, <1>2, <1>3 DEF Numbers
<1>5. StreamTruth(s, 0, lost, r) /\ CacheTruth(s, 0, lost, r, c) /\ SnapTruth(s, 0, lost, r, sn)
  BY Zenon, <1>2, <1>3 DEF StreamTruth, CacheTruth, SnapTruth
<1> QED BY Zenon, <1>1, <1>4, <1>5 DEF Pair, s

\* A node that knows nothing of a peer, and has missed all that it ever sent.
LEMMA PairStart ==
    ASSUME NEW s \in Seq(Message), NEW top \in Nat, NEW r \in SUBSET User, NEW sn \in Snap,
           top = 0 => r = {}, \A i \in 1..Len(s) : s[i].seq > 0 /\ s[i].seq <= top,
           sn.step # "idle" => sn.seq > 0 /\ sn.seq <= top
    PROVE  Pair(s, 0, top, top, r, NoEntry, sn)
<1>1. \A i \in 1..Len(s) : ~(s[i].seq > top)
  BY StreamNumbers
<1>2. 0 <= top /\ top <= top
  OBVIOUS
<1>3. sn.step # "idle" => ~(sn.seq > top)
  <2>1. sn.seq \in Nat
    BY Zenon DEF Snap
  <2> QED BY <2>1
<1>4. NoEntry.users = {} /\ NoEntry.age = "none"
  BY Zenon DEF NoEntry
<1>5. Numbers(s, 0, top, top, sn)
  BY Zenon, <1>1, <1>2 DEF Numbers
<1>6. StreamTruth(s, 0, top, r) /\ CacheTruth(s, 0, top, r, NoEntry) /\ SnapTruth(s, 0, top, r, sn)
  BY Zenon, <1>1, <1>3, <1>4 DEF StreamTruth, CacheTruth, SnapTruth
<1>7. EntryInv(top, NoEntry)
  BY Zenon, <1>4 DEF EntryInv
<1> QED BY Zenon, <1>5, <1>6, <1>7 DEF Pair

(***************************************************************************)
(* Frames and messages                                                     *)
(***************************************************************************)

\* The variables that the invariant is about.
coreVars == <<up, fresh, roster, seq, hand, snap, net, cache, applied, missed, view, blind>>

\* Heartbeats, and what a node forgets of a silent peer, are not among them.
LEMMA CoreFrame ==
    ASSUME FleetInv, UNCHANGED coreVars
    PROVE  FleetInv'
<1>1. FleetTypeOK'
  BY Zenon DEF FleetInv, FleetTypeOK, coreVars
<1>2. AbsentInv'
  BY ZenonT(40) DEF FleetInv, AbsentInv, coreVars
<1>3. PairsInv'
  BY Zenon DEF FleetInv, PairsInv, PairOf, Stream, coreVars
<1>4. ViewInv'
  BY Zenon DEF FleetInv, ViewInv, coreVars
<1> QED BY Zenon, <1>1, <1>2, <1>3, <1>4 DEF FleetInv

\* What PairsInv has of two nodes that run.
LEMMA PairTyped ==
    ASSUME FleetTypeOK, NEW n \in Node, NEW m \in Node
    PROVE  /\ PairType(Stream(m, n), applied[n][m], missed[n][m], seq[m], roster[m], cache[n][m], snap[m])
           /\ net[m][n] \in Seq(Message) /\ hand[m] \in Seq(Message) /\ applied[n][m] \in Nat
           /\ missed[n][m] \in Nat /\ cache[n][m] \in Entry
<1>1. roster[m] \in SUBSET User /\ seq[m] \in Nat /\ snap[m] \in Snap /\ hand[m] \in Seq(Message)
  BY Zenon DEF FleetTypeOK
<1>2. net[m] \in [Node -> Seq(Message)] /\ cache[n] \in [Node -> Entry]
  BY Zenon DEF FleetTypeOK
<1>3. applied[n] \in [Node -> Nat] /\ missed[n] \in [Node -> Nat]
  BY Zenon DEF FleetTypeOK
<1>4. net[m][n] \in Seq(Message) /\ cache[n][m] \in Entry /\ applied[n][m] \in Nat /\ missed[n][m] \in Nat
  BY Zenon, <1>2, <1>3
<1>5. Stream(m, n) \in Seq(Message)
  BY Zenon, <1>1, <1>4, WithFacts DEF Stream
<1> QED BY Zenon, <1>1, <1>4, <1>5 DEF PairType

\* What publish puts on the bus.
LEMMA PublishFacts ==
    ASSUME FleetTypeOK, NEW n \in up, NEW x \in Message, Publish(n, x)
    PROVE  /\ net' \in [Node -> [Node -> Seq(Message)]]
           /\ \A m \in up : m # n => net'[n][m] = Append(net[n][m], x)
           /\ \A m \in Node : m \notin up \/ m = n => net'[n][m] = net[n][m]
           /\ \A k, m \in Node : k # n => net'[k][m] = net[k][m]
<1> DEFINE f == [m \in Node |-> IF m \in up \ {n} THEN Append(net[n][m], x) ELSE net[n][m]]
<1>1. net \in [Node -> [Node -> Seq(Message)]] /\ n \in Node /\ up \subseteq Node
  BY Zenon DEF FleetTypeOK
<1>2. net' = [net EXCEPT ![n] = f]
  BY Zenon DEF Publish
<1>3. \A m \in Node : f[m] \in Seq(Message)
  <2>1. net[n] \in [Node -> Seq(Message)]
    BY Zenon, <1>1
  <2>2. ASSUME NEW m \in Node
        PROVE  net[n][m] \in Seq(Message) /\ Append(net[n][m], x) \in Seq(Message)
    <3>1. net[n][m] \in Seq(Message)
      BY Zenon, <2>1
    <3> QED BY Zenon, <3>1, AppendFacts
  <2> QED BY Zenon, <2>2
<1>4. f \in [Node -> Seq(Message)]
  BY Zenon, <1>3
<1>5. /\ \A m \in up : m # n => f[m] = Append(net[n][m], x)
      /\ \A m \in Node : m \notin up \/ m = n => f[m] = net[n][m]
  BY Zenon, <1>1
<1> HIDE DEF f
<1>6. net' \in [Node -> [Node -> Seq(Message)]] /\ net'[n] = f /\ \A k \in Node : k # n => net'[k] = net[k]
  BY Zenon, <1>1, <1>2, <1>4
<1> QED BY Zenon, <1>5, <1>6

\* Nobody hears of a message that nobody but the nodes that run can have.
LEMMA PublishAbsent ==
    ASSUME FleetTypeOK, AbsentInv, NEW n \in up, NEW x \in Message, Publish(n, x)
    PROVE  /\ \A k \in Node \ up, m \in Node : net'[m][k] = <<>>
           /\ \A k \in Node : net'[k][k] = <<>>
           /\ \A m \in fresh, k \in Node : net'[m][k] = <<>>
<1>1. n \in Node /\ n \notin fresh /\ fresh \subseteq Node
  BY Zenon DEF FleetTypeOK
<1>2. /\ \A m \in Node : m \notin up \/ m = n => net'[n][m] = net[n][m]
      /\ \A k, m \in Node : k # n => net'[k][m] = net[k][m]
  BY Zenon, PublishFacts
<1>3. \A k \in Node \ up, m \in Node : net'[m][k] = net[m][k]
  BY Zenon, <1>1, <1>2
<1>4. \A k \in Node : net'[k][k] = net[k][k]
  BY Zenon, <1>1, <1>2
<1>5. \A m \in fresh, k \in Node : net'[m][k] = net[m][k]
  BY Zenon, <1>1, <1>2
<1>6. /\ \A k \in Node \ up, m \in Node : net[m][k] = <<>>
      /\ \A k \in Node : net[k][k] = <<>>
      /\ \A m \in fresh, k \in Node : net[m][k] = <<>>
  BY Zenon DEF AbsentInv
<1>7. \A k \in Node \ up, m \in Node : net'[m][k] = <<>>
  BY Zenon, <1>3, <1>6
<1>8. \A k \in Node : net'[k][k] = <<>>
  BY Zenon, <1>4, <1>6
<1>9. \A m \in fresh, k \in Node : net'[m][k] = <<>>
  BY SMTT(30), <1>5, <1>6
<1> QED BY Zenon, <1>7, <1>8, <1>9

(***************************************************************************)
(* The sets a cache stands for                                             *)
(***************************************************************************)

\* The operators of the cache, by membership: whom it announces, whom it counts as
\* present, and whom it names only in entries past their TTL.
LEMMA CacheSets ==
    ASSUME NEW c \in [Node -> Entry]
    PROVE  /\ \A x : x \in Announced(c) <=> \E m \in Node : x \in c[m].users
           /\ \A x : x \in Remote(c) <=> \E m \in Node : c[m].age = "live" /\ x \in c[m].users
           /\ \A x : x \in Hidden(c) <=> x \in Announced(c) /\ x \notin Remote(c)
           /\ \A o \in Node : RemoteExcept(c, o) \subseteq Announced(c)
           /\ Remote(c) \subseteq Announced(c) /\ Announced(c) \subseteq User
<1>1. \A x : x \in Announced(c) <=> \E m \in Node : x \in c[m].users
  BY Zenon DEF Announced
<1>2. \A x : x \in Remote(c) <=> \E m \in Node : c[m].age = "live" /\ x \in c[m].users
  BY Zenon DEF Remote
<1>3. \A x : x \in Hidden(c) <=> x \in Announced(c) /\ x \notin Remote(c)
  BY Zenon DEF Hidden
<1>4. \A o \in Node : RemoteExcept(c, o) \subseteq Announced(c)
  BY Zenon, <1>1 DEF RemoteExcept
<1>5. \A m \in Node : c[m].users \subseteq User
  BY Zenon DEF Entry
<1>6. Remote(c) \subseteq Announced(c) /\ Announced(c) \subseteq User
  BY Zenon, <1>1, <1>2, <1>5
<1> QED BY Zenon, <1>1, <1>2, <1>3, <1>4, <1>6

(***************************************************************************)
(* Joins, leaves and snapshots                                             *)
(***************************************************************************)

\* Pairs that a step leaves alone.
LEMMA PairFrame ==
    ASSUME PairsInv, NEW n \in up, NEW m \in up, n # m,
           net'[m][n] = net[m][n], applied'[n][m] = applied[n][m], missed'[n][m] = missed[n][m],
           hand'[m] = hand[m], seq'[m] = seq[m], roster'[m] = roster[m], cache'[n][m] = cache[n][m], snap'[m] = snap[m]
    PROVE  PairOf(n, m)'
<1>1. PairOf(n, m)
  BY Zenon DEF PairsInv
<1> QED BY Zenon, <1>1 DEF PairOf, Stream

\* What a step of one node leaves absent.
LEMMA AbsentStep ==
    ASSUME FleetTypeOK, AbsentInv, NEW n \in up, up' = up, fresh' = fresh,
           \A m \in Node : m # n =>
               /\ roster'[m] = roster[m] /\ seq'[m] = seq[m] /\ snap'[m] = snap[m] /\ hand'[m] = hand[m]
               /\ cache'[m] = cache[m] /\ applied'[m] = applied[m] /\ missed'[m] = missed[m],
           seq'[n] = 0 => roster'[n] = {},
           snap'[n].step # "idle" => snap'[n].seq > 0 /\ snap'[n].seq <= seq'[n],
           hand'[n] # <<>> => hand'[n][1].seq > 0 /\ hand'[n][1].seq <= seq'[n],
           \A k \in Node \ up, m \in Node : net'[m][k] = <<>>,
           \A k \in Node : net'[k][k] = <<>>,
           \A m \in fresh, k \in Node : net'[m][k] = <<>>,
           cache'[n][n] = NoEntry,
           \A m \in fresh : cache'[n][m] = NoEntry /\ applied'[n][m] = 0 /\ missed'[n][m] = 0
    PROVE  AbsentInv'
<1>1. n \in Node /\ n \notin fresh /\ fresh \subseteq Node
  BY Zenon DEF FleetTypeOK
<1>2. \A m \in Node : seq'[m] = 0 => roster'[m] = {}
  BY Zenon DEF AbsentInv
<1>3. /\ \A m \in Node : snap'[m].step # "idle" => snap'[m].seq > 0 /\ snap'[m].seq <= seq'[m]
      /\ \A m \in Node : hand'[m] # <<>> => hand'[m][1].seq > 0 /\ hand'[m][1].seq <= seq'[m]
  <2>1. /\ \A m \in Node : snap[m].step # "idle" => snap[m].seq > 0 /\ snap[m].seq <= seq[m]
        /\ \A m \in Node : hand[m] # <<>> => hand[m][1].seq > 0 /\ hand[m][1].seq <= seq[m]
    BY Zenon DEF AbsentInv
  <2>2. ASSUME NEW m \in Node
        PROVE  /\ snap'[m].step # "idle" => snap'[m].seq > 0 /\ snap'[m].seq <= seq'[m]
               /\ hand'[m] # <<>> => hand'[m][1].seq > 0 /\ hand'[m][1].seq <= seq'[m]
    <3>1. CASE m = n
      BY Zenon, <3>1
    <3>2. CASE m # n
      <4>1. seq'[m] = seq[m] /\ snap'[m] = snap[m] /\ hand'[m] = hand[m]
        BY Zenon, <3>2
      <4> QED BY Zenon, <2>1, <4>1
    <3> QED BY Zenon, <3>1, <3>2
  <2> QED BY Zenon, <2>2
<1>4. \A m \in fresh' : seq'[m] = 0
  BY SMTT(30), <1>1 DEF AbsentInv
<1>5. \A m \in Node \ up' : roster'[m] = {} /\ snap'[m] = Idle /\ hand'[m] = <<>>
  BY Zenon DEF AbsentInv
<1>6. \A k \in Node \ up', m \in Node :
          net'[m][k] = <<>> /\ cache'[k][m] = NoEntry /\ applied'[k][m] = 0
  <2> SUFFICES ASSUME NEW k \in Node \ up, NEW m \in Node
               PROVE  net'[m][k] = <<>> /\ cache'[k][m] = NoEntry /\ applied'[k][m] = 0
    BY Zenon
  <2>1. cache[k][m] = NoEntry /\ applied[k][m] = 0
    BY SMTT(30) DEF AbsentInv
  <2>2. k \in Node /\ k # n
    BY Zenon
  <2>3. cache'[k] = cache[k] /\ applied'[k] = applied[k]
    BY Zenon, <2>2
  <2> QED BY Zenon, <2>1, <2>3
<1>7. \A k \in Node : net'[k][k] = <<>> /\ cache'[k][k] = NoEntry
  <2> SUFFICES ASSUME NEW k \in Node, k # n
               PROVE  cache'[k][k] = NoEntry
    BY Zenon
  <2>1. cache[k][k] = NoEntry /\ cache'[k] = cache[k]
    BY Zenon DEF AbsentInv
  <2> QED BY Zenon, <2>1
<1>8. \A m \in fresh', k \in Node :
          /\ net'[m][k] = <<>> /\ cache'[k][m] = NoEntry
          /\ applied'[k][m] = 0 /\ missed'[k][m] = 0
  <2> SUFFICES ASSUME NEW m \in fresh, NEW k \in Node, k # n
               PROVE  cache'[k][m] = NoEntry /\ applied'[k][m] = 0 /\ missed'[k][m] = 0
    BY ZenonT(40)
  <2>1. cache[k][m] = NoEntry /\ applied[k][m] = 0 /\ missed[k][m] = 0
    BY SMTT(30) DEF AbsentInv
  <2>2. cache'[k] = cache[k] /\ applied'[k] = applied[k] /\ missed'[k] = missed[k]
    BY Zenon
  <2> QED BY Zenon, <2>1, <2>2
<1> QED BY <1>2, <1>3, <1>4, <1>5, <1>6, <1>7, <1>8 DEF AbsentInv

\* What is in the hand of a node that runs.
LEMMA HandFacts ==
    ASSUME FleetTypeOK, NEW n \in Node, NEW x \in Message, hand' = [hand EXCEPT ![n] = <<x>>]
    PROVE  /\ hand' \in [Node -> Seq(Message)] /\ \A m \in Node : Len(hand'[m]) <= 1
           /\ hand'[n] # <<>> /\ hand'[n][1] = x /\ \A m \in Node : m # n => hand'[m] = hand[m]
           /\ \A s : With(s, hand'[n]) = Append(s, x)
<1>1. hand \in [Node -> Seq(Message)] /\ \A m \in Node : Len(hand[m]) <= 1
  BY Zenon DEF FleetTypeOK
<1>2. PICK h : h = <<x>>
  BY Zenon
<1>3. h \in Seq(Message) /\ Len(h) <= 1 /\ h # <<>> /\ h[1] = x
  BY <1>2
<1>4. hand' \in [Node -> Seq(Message)] /\ hand'[n] = h /\ \A m \in Node : m # n => hand'[m] = hand[m]
  BY Zenon, <1>1, <1>2, <1>3
<1>5. \A m \in Node : Len(hand'[m]) <= 1
  BY Zenon, <1>1, <1>3, <1>4
<1>6. \A s : With(s, hand'[n]) = Append(s, x)
  BY Zenon, <1>3, <1>4 DEF With
<1> QED BY Zenon, <1>3, <1>4, <1>5, <1>6

\* The part of joins and leaves that is the same: the roster changes by one user
\* and the change is numbered, to go out next.
LEMMA LiveKeeps ==
    ASSUME FleetTypeOK, AbsentInv, PairsInv,
           NEW n \in up, Unlocked(n), NEW u \in User, NEW x \in Message, hand' = [hand EXCEPT ![n] = <<x>>],
           x.type \in {"added", "removed"}, x.users = {u}, x.seq = seq[n] + 1,
           NEW q \in SUBSET User, roster' = [roster EXCEPT ![n] = q],
           u \in q <=> x.type = "added", \A v \in User : v # u => (v \in q <=> v \in roster[n]),
           seq' = [seq EXCEPT ![n] = seq[n] + 1],
           UNCHANGED <<up, fresh, snap, net, cache, applied, missed>>
    PROVE  AbsentInv' /\ PairsInv'
<1>1. n \in Node /\ n \notin fresh /\ up \subseteq Node /\ fresh \subseteq Node /\ seq \in [Node -> Nat]
      /\ roster \in [Node -> SUBSET User] /\ snap \in [Node -> Snap]
  BY Zenon DEF FleetTypeOK
<1>2. /\ roster'[n] = q /\ \A m \in Node : m # n => roster'[m] = roster[m]
      /\ seq'[n] = seq[n] + 1 /\ \A m \in Node : m # n => seq'[m] = seq[m]
  BY Zenon, <1>1
<1>3. seq[n] \in Nat /\ snap[n].seq \in Nat
  BY Zenon, <1>1 DEF Snap
<1>4. /\ hand'[n][1] = x /\ (\A s : With(s, hand'[n]) = Append(s, x))
      /\ \A m \in Node : m # n => hand'[m] = hand[m]
  BY Zenon, <1>1, HandFacts
<1>5. AbsentInv'
  <2>1. seq'[n] # 0
    BY <1>2, <1>3
  <2>2. snap'[n].step # "idle" => snap'[n].seq > 0 /\ snap'[n].seq <= seq'[n]
    <3>1. snap[n].step # "idle" => snap[n].seq > 0 /\ snap[n].seq <= seq[n]
      BY Zenon, <1>1 DEF AbsentInv
    <3> QED BY <1>2, <1>3, <3>1
  <2>3. /\ \A k \in Node \ up, m \in Node : net'[m][k] = <<>>
        /\ \A k \in Node : net'[k][k] = <<>>
        /\ \A m \in fresh, k \in Node : net'[m][k] = <<>>
    BY Zenon DEF AbsentInv
  <2>4. cache'[n][n] = NoEntry /\ \A m \in fresh :
            cache'[n][m] = NoEntry /\ applied'[n][m] = 0 /\ missed'[n][m] = 0
    BY Zenon, <1>1 DEF AbsentInv
  <2>5. hand'[n][1].seq > 0 /\ hand'[n][1].seq <= seq'[n]
    <3>1. hand'[n][1].seq = seq[n] + 1 /\ seq'[n] = seq[n] + 1
      BY Zenon, <1>2, <1>4
    <3>2. seq[n] + 1 > 0 /\ seq[n] + 1 <= seq[n] + 1
      BY <1>3
    <3> QED BY Zenon, <3>1, <3>2
  <2>6. \A m \in Node : m # n =>
            /\ roster'[m] = roster[m] /\ seq'[m] = seq[m] /\ snap'[m] = snap[m] /\ hand'[m] = hand[m]
            /\ cache'[m] = cache[m] /\ applied'[m] = applied[m] /\ missed'[m] = missed[m]
    BY Zenon, <1>2, <1>4
  <2>7. up' = up /\ fresh' = fresh
    BY Zenon
  <2> QED BY ZenonT(40), <2>1, <2>2, <2>3, <2>4, <2>5, <2>6, <2>7, AbsentStep
<1>6. PairsInv'
  <2> SUFFICES ASSUME NEW k \in up, NEW m \in up, k # m
               PROVE  PairOf(k, m)'
    BY Zenon DEF PairsInv
  <2>1. k \in Node /\ m \in Node
    BY Zenon, <1>1
  <2>2. CASE m = n
    <3>1. /\ PairType(Stream(n, k), applied[k][n], missed[k][n], seq[n], roster[n], cache[k][n], snap[n])
          /\ Pair(Stream(n, k), applied[k][n], missed[k][n], seq[n], roster[n], cache[k][n], snap[n])
      BY Zenon, <2>1, <2>2, PairTyped DEF PairsInv, PairOf
    <3>2. Stream(n, k) = net[n][k] /\ Stream(n, k)' = Append(net[n][k], x)
      BY Zenon, <1>4 DEF Stream, With, Unlocked
    <3>3. Pair(Append(net[n][k], x), applied[k][n], missed[k][n], seq[n] + 1, q, cache[k][n], snap[n])
      BY Zenon, <3>1, <3>2, PairLive
    <3> QED BY Zenon, <1>2, <2>2, <3>2, <3>3 DEF PairOf
  <2>3. CASE m # n
    BY Zenon, <1>2, <1>4, <2>1, <2>3, PairFrame
  <2> QED BY Zenon, <2>2, <2>3
<1> QED BY Zenon, <1>5, <1>6

\* Views of nodes other than the one that moves.
LEMMA ViewFrame ==
    ASSUME ViewInv, NEW n, up' \subseteq up,
           \A k \in up : k # n => /\ roster'[k] = roster[k] /\ view'[k] = view[k]
                                  /\ cache'[k] = cache[k] /\ blind'[k] = blind[k],
           n \in up' => \A u \in roster'[n] :
               Sees(view'[n][u], roster'[n], Announced(cache'[n]), blind'[n])
    PROVE  ViewInv'
<1> SUFFICES ASSUME NEW k \in up', NEW u \in roster'[k]
             PROVE  Sees(view'[k][u], roster'[k], Announced(cache'[k]), blind'[k])
  BY Zenon DEF ViewInv
<1>1. CASE k = n
  BY Zenon, <1>1
<1>2. CASE k # n
  <2>1. /\ k \in up /\ roster'[k] = roster[k] /\ view'[k] = view[k]
        /\ cache'[k] = cache[k] /\ blind'[k] = blind[k]
    BY Zenon, <1>2
  <2>2. u \in roster[k]
    BY Zenon, <2>1
  <2>3. Sees(view[k][u], roster[k], Announced(cache[k]), blind[k])
    BY Zenon, <2>1, <2>2 DEF ViewInv
  <2> QED BY Zenon, <2>1, <2>3
<1> QED BY Zenon, <1>1, <1>2

\* What the frames to the members of n do.
LEMMA TellFacts ==
    ASSUME FleetTypeOK, NEW n \in Node, NEW members, NEW gone, NEW come \in SUBSET User
    PROVE  /\ Tell(n, members, gone, come) \in [User -> SUBSET User]
           /\ \A u \in User : u \in members =>
                  Tell(n, members, gone, come)[u] = (view[n][u] \ gone) \cup come
<1>1. \A u \in User : view[n][u] \in SUBSET User
  <2>1. view[n] \in [User -> SUBSET User]
    BY Zenon DEF FleetTypeOK
  <2> QED BY Zenon, <2>1
<1>2. \A u \in User : (view[n][u] \ gone) \cup come \in SUBSET User
  BY Zenon, <1>1
<1> QED BY Zenon, <1>1, <1>2 DEF Tell

\* A user's first socket on a node: its client gets the roster, the others hear of
\* it unless a peer has reported the user before (handle_presence_subscribe).
LEMMA JoinStep ==
    ASSUME FleetInv, NEW n \in Node, NEW u \in User, Join(n, u)
    PROVE  FleetInv'
<1> DEFINE r == roster[n]
           remote == Remote(cache[n])
           come == IF u \in remote THEN {} ELSE {u}
           told == Tell(n, r, {}, come)
           x == [type |-> "added", seq |-> seq[n] + 1, users |-> {u}, hook |-> FALSE, vacated |-> FALSE]
<1>1. FleetTypeOK /\ AbsentInv /\ PairsInv /\ ViewInv
  BY Zenon DEF FleetInv
<1>2. /\ n \in up /\ u \notin r
      /\ roster' = [roster EXCEPT ![n] = r \cup {u}]
      /\ view' = [view EXCEPT ![n] = [told EXCEPT ![u] = r \cup {u} \cup remote]]
      /\ blind' = [blind EXCEPT ![n] = blind[n] \cup Hidden(cache[n])]
      /\ hand' = [hand EXCEPT ![n] = <<x>>] /\ seq' = [seq EXCEPT ![n] = seq[n] + 1] /\ Unlocked(n)
      /\ UNCHANGED <<up, fresh, snap, net, cache, applied, missed>>
  BY Zenon DEF Join, PublishMemberAdded, Number, NextSeq
<1>3. /\ up \subseteq Node /\ roster \in [Node -> SUBSET User] /\ seq \in [Node -> Nat]
      /\ view \in [Node -> [User -> SUBSET User]] /\ blind \in [Node -> SUBSET User]
      /\ cache[n] \in [Node -> Entry]
  BY Zenon, <1>1 DEF FleetTypeOK
<1>4. seq[n] + 1 \in Nat
  <2>1. seq[n] \in Nat
    BY Zenon, <1>3
  <2> QED BY <2>1
<1>5. x \in Message /\ x.type = "added" /\ x.seq = seq[n] + 1 /\ x.users = {u}
  BY Zenon, <1>4 DEF Message
<1>6. r \cup {u} \in SUBSET User /\ r \in SUBSET User
  BY Zenon, <1>3
<1>7. /\ remote \subseteq Announced(cache[n]) /\ Announced(cache[n]) \subseteq User
      /\ \A w : w \in Hidden(cache[n]) <=> w \in Announced(cache[n]) /\ w \notin remote
  BY Zenon, <1>3, CacheSets
<1>8. come \in SUBSET User
  BY Zenon
<1>9. told \in [User -> SUBSET User] /\ \A w \in User : w \in r => told[w] = (view[n][w] \ {}) \cup come
  <2>1. PICK e \in SUBSET User : e = come
    BY Zenon, <1>8
  <2>2. /\ Tell(n, r, {}, e) \in [User -> SUBSET User]
        /\ \A w \in User : w \in r => Tell(n, r, {}, e)[w] = (view[n][w] \ {}) \cup e
    BY <1>1, TellFacts
  <2>3. told = Tell(n, r, {}, e)
    BY Zenon, <2>1
  <2> QED BY Zenon, <2>1, <2>2, <2>3
<1> HIDE DEF x, told
<1>10. AbsentInv' /\ PairsInv'
  <2>1. x.type \in {"added", "removed"}
    BY Zenon, <1>5
  <2>2. u \in r \cup {u} <=> x.type = "added"
    BY Zenon, <1>5
  <2>3. \A v \in User : v # u => (v \in r \cup {u} <=> v \in roster[n])
    BY Zenon
  <2>4. PICK q \in SUBSET User : q = r \cup {u}
    BY Zenon, <1>6
  <2>5. roster' = [roster EXCEPT ![n] = q]
    BY Zenon, <1>2, <2>4
  <2>6. u \in q <=> x.type = "added"
    BY Zenon, <2>2, <2>4
  <2>7. \A v \in User : v # u => (v \in q <=> v \in roster[n])
    BY Zenon, <2>3, <2>4
  <2>8. /\ n \in up /\ Unlocked(n)
        /\ hand' = [hand EXCEPT ![n] = <<x>>] /\ seq' = [seq EXCEPT ![n] = seq[n] + 1]
    BY Zenon, <1>2
  <2>9. UNCHANGED <<up, fresh, snap, net, cache, applied, missed>>
    BY Zenon, <1>2
  <2> QED BY ZenonT(40), <1>1, <1>5, <2>1, <2>5, <2>6, <2>7, <2>8, <2>9, LiveKeeps
<1>11. r \cup {u} \cup remote \in SUBSET User /\ blind[n] \cup Hidden(cache[n]) \in SUBSET User
  <2>1. blind[n] \in SUBSET User
    BY Zenon, <1>3
  <2> QED BY Zenon, <1>6, <1>7, <2>1
<1>12. FleetTypeOK'
  <2>1. roster' \in [Node -> SUBSET User] /\ blind' \in [Node -> SUBSET User]
    BY Zenon, <1>2, <1>3, <1>6, <1>11
  <2>2. seq' \in [Node -> Nat]
    BY Zenon, <1>2, <1>3, <1>4
  <2>3. [told EXCEPT ![u] = r \cup {u} \cup remote] \in [User -> SUBSET User]
    BY Zenon, <1>9, <1>11
  <2>4. view' \in [Node -> [User -> SUBSET User]]
    BY Zenon, <1>2, <1>3, <2>3
  <2>5. hand' \in [Node -> Seq(Message)] /\ \A m \in Node : Len(hand'[m]) <= 1
    BY Zenon, <1>1, <1>2, <1>5, HandFacts
  <2> QED BY Zenon, <1>1, <1>2, <2>1, <2>2, <2>4, <2>5 DEF FleetTypeOK
<1>13. /\ roster'[n] = r \cup {u} /\ cache'[n] = cache[n]
       /\ blind'[n] = blind[n] \cup Hidden(cache[n])
       /\ view'[n][u] = r \cup {u} \cup remote
       /\ \A w \in r : w # u => view'[n][w] = view[n][w] \cup come
  <2>1. /\ roster'[n] = r \cup {u} /\ cache'[n] = cache[n]
        /\ blind'[n] = blind[n] \cup Hidden(cache[n])
        /\ view'[n] = [told EXCEPT ![u] = r \cup {u} \cup remote]
    BY Zenon, <1>2, <1>3
  <2>2. view'[n][u] = r \cup {u} \cup remote /\ \A w \in User : w # u => view'[n][w] = told[w]
    BY Zenon, <1>9, <2>1
  <2>3. \A w \in r : w # u => view'[n][w] = view[n][w] \cup come
    <3>1. \A w : view[n][w] \ {} = view[n][w]
      BY Zenon
    <3> QED BY Zenon, <1>6, <1>9, <2>2, <3>1
  <2> QED BY Zenon, <2>1, <2>2, <2>3
<1>14. ViewInv'
  <2>1. \A w \in roster'[n] : Sees(view'[n][w], roster'[n], Announced(cache'[n]), blind'[n])
    <3>1. Sees(r \cup {u} \cup remote, r \cup {u}, Announced(cache[n]), blind[n] \cup Hidden(cache[n]))
      BY <1>7 DEF Sees
    <3>2. ASSUME NEW w \in r
          PROVE  Sees(view[n][w] \cup come, r \cup {u}, Announced(cache[n]), blind[n] \cup Hidden(cache[n]))
      <4>1. Sees(view[n][w], r, Announced(cache[n]), blind[n])
        BY Zenon, <1>1, <1>2 DEF ViewInv
      <4> HIDE DEF r, remote
      <4> QED BY <1>7, <4>1 DEF Sees
    <3> QED BY ZenonT(40), <1>2, <1>13, <3>1, <3>2
  <2>2. \A k \in up : k # n => /\ roster'[k] = roster[k] /\ view'[k] = view[k]
                               /\ cache'[k] = cache[k] /\ blind'[k] = blind[k]
    BY Zenon, <1>2, <1>3
  <2>3. up' \subseteq up
    BY Zenon, <1>2
  <2> QED BY Zenon, <1>1, <2>1, <2>2, <2>3, ViewFrame
<1> QED BY Zenon, <1>10, <1>12, <1>14 DEF FleetInv

\* A user's last socket on a node: the others hear of it unless a peer still has
\* the user (handle_presence_unsubscribe).
LEMMA LeaveStep ==
    ASSUME FleetInv, NEW n \in Node, NEW u \in User, Leave(n, u)
    PROVE  FleetInv'
<1> DEFINE stay == roster[n] \ {u}
           remote == Remote(cache[n])
           gone == {u} \ remote
           held == Withhold(n, u)
           told == Tell(n, stay, gone, {})
           unsure == IF stay = {} THEN {} ELSE blind[n] \cup ({u} \cap Hidden(cache[n]))
           x == [type |-> "removed", seq |-> seq[n] + 1, users |-> {u},
                 hook |-> u \in held, vacated |-> Channel \in held]
<1>1. FleetTypeOK /\ AbsentInv /\ PairsInv /\ ViewInv
  BY Zenon DEF FleetInv
<1>2. /\ n \in up
      /\ roster' = [roster EXCEPT ![n] = stay]
      /\ view' = [view EXCEPT ![n] = [told EXCEPT ![u] = {}]]
      /\ blind' = [blind EXCEPT ![n] = unsure]
      /\ hand' = [hand EXCEPT ![n] = <<x>>] /\ seq' = [seq EXCEPT ![n] = seq[n] + 1] /\ Unlocked(n)
      /\ UNCHANGED <<up, fresh, snap, net, cache, applied, missed>>
  BY Zenon DEF Leave, PublishMemberRemoved, Number, NextSeq
<1>3. /\ up \subseteq Node /\ roster \in [Node -> SUBSET User] /\ seq \in [Node -> Nat]
      /\ view \in [Node -> [User -> SUBSET User]] /\ blind \in [Node -> SUBSET User]
      /\ cache[n] \in [Node -> Entry]
  BY Zenon, <1>1 DEF FleetTypeOK
<1>4. seq[n] + 1 \in Nat
  <2>1. seq[n] \in Nat
    BY Zenon, <1>3
  <2> QED BY <2>1
<1>5. x \in Message /\ x.type = "removed" /\ x.seq = seq[n] + 1 /\ x.users = {u}
  <2>1. (u \in held) \in BOOLEAN /\ (Channel \in held) \in BOOLEAN
    OBVIOUS
  <2> HIDE DEF held
  <2> QED BY Zenon, <1>4, <2>1 DEF Message
<1>6. stay \in SUBSET User /\ unsure \in SUBSET User
  <2>1. roster[n] \in SUBSET User /\ blind[n] \in SUBSET User
    BY Zenon, <1>3
  <2> QED BY Zenon, <2>1
<1>7. /\ remote \subseteq Announced(cache[n])
      /\ \A w : w \in Hidden(cache[n]) <=> w \in Announced(cache[n]) /\ w \notin remote
  BY Zenon, <1>3, CacheSets
<1>8. told \in [User -> SUBSET User] /\ \A w \in User : w \in stay => told[w] = (view[n][w] \ gone) \cup {}
  <2>1. {} \in SUBSET User
    BY Zenon
  <2> HIDE DEF stay, gone
  <2> QED BY <1>1, <2>1, TellFacts
<1> HIDE DEF x, told, unsure
<1>9. AbsentInv' /\ PairsInv'
  <2>1. PICK q \in SUBSET User : q = stay
    BY Zenon, <1>6
  <2>2. roster' = [roster EXCEPT ![n] = q]
    BY Zenon, <1>2, <2>1
  <2>3. u \in q <=> x.type = "added"
    BY Zenon, <1>5, <2>1
  <2>4. \A v \in User : v # u => (v \in q <=> v \in roster[n])
    BY Zenon, <2>1
  <2>5. x.type \in {"added", "removed"}
    BY Zenon, <1>5
  <2>6. /\ n \in up /\ Unlocked(n)
        /\ hand' = [hand EXCEPT ![n] = <<x>>] /\ seq' = [seq EXCEPT ![n] = seq[n] + 1]
    BY Zenon, <1>2
  <2>7. UNCHANGED <<up, fresh, snap, net, cache, applied, missed>>
    BY Zenon, <1>2
  <2>8. x \in Message /\ x.seq = seq[n] + 1 /\ x.users = {u}
    BY Zenon, <1>5
  <2> QED BY ZenonT(40), <1>1, <2>2, <2>3, <2>4, <2>5, <2>6, <2>7, <2>8, LiveKeeps
<1>10. FleetTypeOK'
  <2>1. roster' \in [Node -> SUBSET User] /\ blind' \in [Node -> SUBSET User]
    BY Zenon, <1>2, <1>3, <1>6
  <2>2. seq' \in [Node -> Nat]
    BY Zenon, <1>2, <1>3, <1>4
  <2>3. [told EXCEPT ![u] = {}] \in [User -> SUBSET User]
    BY Zenon, <1>8
  <2>4. view' \in [Node -> [User -> SUBSET User]]
    BY Zenon, <1>2, <1>3, <2>3
  <2>5. hand' \in [Node -> Seq(Message)] /\ \A m \in Node : Len(hand'[m]) <= 1
    BY Zenon, <1>1, <1>2, <1>5, HandFacts
  <2> QED BY Zenon, <1>1, <1>2, <2>1, <2>2, <2>4, <2>5 DEF FleetTypeOK
<1>11. /\ roster'[n] = stay /\ cache'[n] = cache[n] /\ blind'[n] = unsure
       /\ \A w \in stay : view'[n][w] = view[n][w] \ gone
  <2>1. /\ roster'[n] = stay /\ cache'[n] = cache[n] /\ blind'[n] = unsure
        /\ view'[n] = [told EXCEPT ![u] = {}]
    BY Zenon, <1>2, <1>3
  <2>2. \A w \in User : w # u => view'[n][w] = told[w]
    BY Zenon, <1>8, <2>1
  <2>3. \A w \in stay : view'[n][w] = view[n][w] \ gone
    <3>1. \A w : (view[n][w] \ gone) \cup {} = view[n][w] \ gone
      BY Zenon
    <3>2. \A w \in stay : w \in User /\ w # u
      BY Zenon, <1>6
    <3> QED BY Zenon, <1>8, <2>2, <3>1, <3>2
  <2> QED BY Zenon, <2>1, <2>3
<1>12. ViewInv'
  <2>1. \A w \in roster'[n] : Sees(view'[n][w], roster'[n], Announced(cache'[n]), blind'[n])
    <3>1. ASSUME NEW w \in stay
          PROVE  Sees(view[n][w] \ gone, stay, Announced(cache[n]), unsure)
      <4>1. Sees(view[n][w], roster[n], Announced(cache[n]), blind[n])
        BY Zenon, <1>1, <1>2 DEF ViewInv
      <4>2. unsure = blind[n] \cup ({u} \cap Hidden(cache[n]))
        BY Zenon DEF unsure
      <4> HIDE DEF remote
      <4> QED BY <1>7, <4>1, <4>2 DEF Sees
    <3> QED BY Zenon, <1>11, <3>1
  <2>2. \A k \in up : k # n => /\ roster'[k] = roster[k] /\ view'[k] = view[k]
                               /\ cache'[k] = cache[k] /\ blind'[k] = blind[k]
    BY Zenon, <1>2, <1>3
  <2>3. up' \subseteq up
    BY Zenon, <1>2
  <2> QED BY Zenon, <1>1, <2>1, <2>2, <2>3, ViewFrame
<1> QED BY Zenon, <1>9, <1>10, <1>12 DEF FleetInv

\* The draw of a snapshot's number.
LEMMA SnapshotDrawStep ==
    ASSUME FleetInv, NEW n \in Node, SnapshotDraw(n)
    PROVE  FleetInv'
<1> DEFINE new == [step |-> "drawn", seq |-> seq[n] + 1, users |-> {}]
<1>1. FleetTypeOK /\ AbsentInv /\ PairsInv /\ ViewInv
  BY Zenon DEF FleetInv
<1>2. /\ n \in up
      /\ seq' = [seq EXCEPT ![n] = seq[n] + 1]
      /\ snap' = [snap EXCEPT ![n] = new]
      /\ UNCHANGED <<up, fresh, roster, hand, net, cache, applied, missed, view, blind>>
  BY Zenon DEF SnapshotDraw, NextSeq, history
<1>3. up \subseteq Node /\ seq \in [Node -> Nat] /\ snap \in [Node -> Snap] /\ fresh \subseteq Node /\ n \notin fresh
  BY Zenon, <1>1, <1>2 DEF FleetTypeOK
<1>4. seq[n] + 1 \in Nat /\ seq[n] + 1 # 0 /\ seq[n] + 1 > 0 /\ seq[n] + 1 <= seq[n] + 1
  <2>1. seq[n] \in Nat
    BY Zenon, <1>3
  <2> QED BY <2>1
<1>5. new \in Snap /\ new.step = "drawn" /\ new.seq = seq[n] + 1
  BY Zenon, <1>4 DEF Snap
<1> HIDE DEF new
<1>6. /\ seq'[n] = seq[n] + 1 /\ snap'[n] = new
      /\ \A m \in Node : m # n => seq'[m] = seq[m] /\ snap'[m] = snap[m]
  BY Zenon, <1>2, <1>3
<1>7. FleetTypeOK'
  <2>1. seq' \in [Node -> Nat] /\ snap' \in [Node -> Snap]
    BY Zenon, <1>2, <1>3, <1>4, <1>5
  <2> QED BY Zenon, <1>1, <1>2, <2>1 DEF FleetTypeOK
<1>8. AbsentInv'
  <2>1. /\ \A k \in Node \ up, m \in Node : net[m][k] = <<>>
        /\ \A k \in Node : net[k][k] = <<>>
        /\ \A m \in fresh, k \in Node : net[m][k] = <<>>
    BY Zenon, <1>1 DEF AbsentInv
  <2>2. cache[n][n] = NoEntry /\ \A m \in fresh :
            cache[n][m] = NoEntry /\ applied[n][m] = 0 /\ missed[n][m] = 0
    BY Zenon, <1>1 DEF AbsentInv
  <2>3. seq'[n] # 0 /\ snap'[n].seq > 0 /\ snap'[n].seq <= seq'[n]
    BY Zenon, <1>4, <1>5, <1>6
  <2>4. hand'[n] # <<>> => hand'[n][1].seq > 0 /\ hand'[n][1].seq <= seq'[n]
    <3>1. hand[n] # <<>> => hand[n][1].seq > 0 /\ hand[n][1].seq <= seq[n]
      BY Zenon, <1>1 DEF AbsentInv
    <3>2. hand[n] # <<>> => hand[n][1].seq \in Nat
      <4>1. hand[n] \in Seq(Message)
        BY Zenon, <1>1 DEF FleetTypeOK
      <4>2. hand[n] # <<>> => hand[n][1] \in Message
        BY <4>1
      <4> QED BY Zenon, <4>2 DEF Message
    <3>3. seq[n] \in Nat
      BY Zenon, <1>3
    <3>4. hand[n] # <<>> => hand[n][1].seq <= seq[n] + 1
      BY <3>1, <3>2, <3>3
    <3> QED BY Zenon, <1>2, <1>6, <3>1, <3>4
  <2>5. \A m \in Node : m # n =>
            /\ roster'[m] = roster[m] /\ seq'[m] = seq[m] /\ snap'[m] = snap[m] /\ hand'[m] = hand[m]
            /\ cache'[m] = cache[m] /\ applied'[m] = applied[m] /\ missed'[m] = missed[m]
    BY Zenon, <1>2, <1>6
  <2> QED BY ZenonT(40), <1>1, <1>2, <2>1, <2>2, <2>3, <2>4, <2>5, AbsentStep
<1>9. PairsInv'
  <2> SUFFICES ASSUME NEW k \in up, NEW m \in up, k # m
               PROVE  PairOf(k, m)'
    BY Zenon, <1>2 DEF PairsInv
  <2>1. k \in Node /\ m \in Node
    BY Zenon, <1>3
  <2>2. CASE m = n
    <3>1. /\ PairType(Stream(n, k), applied[k][n], missed[k][n], seq[n], roster[n], cache[k][n], snap[n])
          /\ Pair(Stream(n, k), applied[k][n], missed[k][n], seq[n], roster[n], cache[k][n], snap[n])
      BY Zenon, <1>1, <2>1, <2>2, PairTyped DEF PairsInv, PairOf
    <3>2. Pair(Stream(n, k), applied[k][n], missed[k][n], seq[n] + 1, roster[n], cache[k][n], new)
      BY Zenon, <1>5, <3>1, PairDraw
    <3> QED BY Zenon, <1>2, <1>6, <2>2, <3>2 DEF PairOf, Stream
  <2>3. CASE m # n
    BY Zenon, <1>1, <1>2, <1>6, <2>1, <2>3, PairFrame
  <2> QED BY Zenon, <2>2, <2>3
<1>10. ViewInv'
  BY Zenon, <1>1, <1>2 DEF ViewInv
<1> QED BY Zenon, <1>7, <1>8, <1>9, <1>10 DEF FleetInv

\* The roster is read for a snapshot; an empty one is not sent.
LEMMA SnapshotCaptureStep ==
    ASSUME FleetInv, NEW n \in Node, SnapshotCapture(n)
    PROVE  FleetInv'
<1> DEFINE new == IF roster[n] = {} THEN Idle
                  ELSE [snap[n] EXCEPT !.step = "captured", !.users = roster[n]]
<1>1. FleetTypeOK /\ AbsentInv /\ PairsInv /\ ViewInv
  BY Zenon DEF FleetInv
<1>2. /\ snap[n].step = "drawn" /\ snap' = [snap EXCEPT ![n] = new]
      /\ UNCHANGED <<up, fresh, roster, seq, hand, net, cache, applied, missed, view, blind>>
  BY Zenon DEF SnapshotCapture, history
<1>3. n \in up
  <2>1. n \notin up => snap[n] = Idle
    BY Zenon, <1>1 DEF AbsentInv
  <2>2. Idle.step = "idle"
    BY Zenon DEF Idle
  <2> QED BY Zenon, <1>2, <2>1, <2>2
<1>4. up \subseteq Node /\ snap \in [Node -> Snap] /\ roster[n] \in SUBSET User /\ snap[n] \in Snap
  BY Zenon, <1>1 DEF FleetTypeOK
<1>5. /\ new \in Snap
      /\ \/ new.step = "idle"
         \/ new.step = "captured" /\ new.seq = snap[n].seq /\ new.users = roster[n]
  BY ZenonT(30), <1>4 DEF Snap, Idle
<1> HIDE DEF new
<1>6. snap'[n] = new /\ \A m \in Node : m # n => snap'[m] = snap[m]
  BY Zenon, <1>2, <1>4
<1>7. FleetTypeOK'
  <2>1. snap' \in [Node -> Snap]
    BY Zenon, <1>2, <1>4, <1>5
  <2> QED BY Zenon, <1>1, <1>2, <2>1 DEF FleetTypeOK
<1>8. AbsentInv'
  <2>1. /\ \A k \in Node \ up, m \in Node : net[m][k] = <<>>
        /\ \A k \in Node : net[k][k] = <<>>
        /\ \A m \in fresh, k \in Node : net[m][k] = <<>>
    BY Zenon, <1>1 DEF AbsentInv
  <2>2. cache[n][n] = NoEntry /\ \A m \in fresh :
            cache[n][m] = NoEntry /\ applied[n][m] = 0 /\ missed[n][m] = 0
    BY Zenon, <1>1 DEF AbsentInv
  <2>3. (seq[n] = 0 => roster[n] = {}) /\ snap[n].seq > 0 /\ snap[n].seq <= seq[n]
    BY Zenon, <1>1, <1>2 DEF AbsentInv
  <2>4. snap'[n].step # "idle" => snap'[n].seq > 0 /\ snap'[n].seq <= seq'[n]
    BY Zenon, <1>2, <1>5, <1>6, <2>3
  <2>5. hand'[n] # <<>> => hand'[n][1].seq > 0 /\ hand'[n][1].seq <= seq'[n]
    BY Zenon, <1>1, <1>2 DEF AbsentInv
  <2>6. \A m \in Node : m # n =>
            /\ roster'[m] = roster[m] /\ seq'[m] = seq[m] /\ snap'[m] = snap[m] /\ hand'[m] = hand[m]
            /\ cache'[m] = cache[m] /\ applied'[m] = applied[m] /\ missed'[m] = missed[m]
    BY Zenon, <1>2, <1>6
  <2> QED BY ZenonT(40), <1>1, <1>2, <1>3, <2>1, <2>2, <2>3, <2>4, <2>5, <2>6, AbsentStep
<1>9. PairsInv'
  <2> SUFFICES ASSUME NEW k \in up, NEW m \in up, k # m
               PROVE  PairOf(k, m)'
    BY Zenon, <1>2 DEF PairsInv
  <2>1. k \in Node /\ m \in Node
    BY Zenon, <1>4
  <2>2. CASE m = n
    <3>1. Pair(Stream(n, k), applied[k][n], missed[k][n], seq[n], roster[n], cache[k][n], snap[n])
      BY Zenon, <1>1, <2>1, <2>2 DEF PairsInv, PairOf
    <3>2. Pair(Stream(n, k), applied[k][n], missed[k][n], seq[n], roster[n], cache[k][n], new)
      BY Zenon, <1>2, <1>5, <3>1, PairCapture
    <3> QED BY Zenon, <1>2, <1>6, <2>2, <3>2 DEF PairOf, Stream
  <2>3. CASE m # n
    BY Zenon, <1>1, <1>2, <1>6, <2>1, <2>3, PairFrame
  <2> QED BY Zenon, <2>2, <2>3
<1>10. ViewInv'
  BY Zenon, <1>1, <1>2 DEF ViewInv
<1> QED BY Zenon, <1>7, <1>8, <1>9, <1>10 DEF FleetInv

\* The snapshot goes out, perhaps behind joins and leaves with higher numbers.
LEMMA SnapshotSendStep ==
    ASSUME FleetInv, NEW n \in Node, SnapshotSend(n)
    PROVE  FleetInv'
<1> DEFINE x == [type |-> "snapshot", seq |-> snap[n].seq, users |-> snap[n].users,
                 hook |-> FALSE, vacated |-> FALSE]
<1>1. FleetTypeOK /\ AbsentInv /\ PairsInv /\ ViewInv
  BY Zenon DEF FleetInv
<1>2. /\ snap[n].step = "captured" /\ Publish(n, x) /\ snap' = [snap EXCEPT ![n] = Idle]
      /\ UNCHANGED <<up, fresh, roster, seq, hand, cache, applied, missed, view, blind>>
  BY Zenon DEF SnapshotSend, PublishPresenceSnapshot, history
<1>3. n \in up
  <2>1. n \notin up => snap[n] = Idle
    BY Zenon, <1>1 DEF AbsentInv
  <2>2. Idle.step = "idle"
    BY Zenon DEF Idle
  <2> QED BY Zenon, <1>2, <2>1, <2>2
<1>4. up \subseteq Node /\ snap \in [Node -> Snap] /\ snap[n] \in Snap
  BY Zenon, <1>1 DEF FleetTypeOK
<1>5. x \in Message /\ x.type = "snapshot" /\ x.users = snap[n].users /\ x.seq = snap[n].seq
  <2>1. snap[n].seq \in Nat /\ snap[n].users \in SUBSET User
    BY Zenon, <1>4 DEF Snap
  <2> QED BY Zenon, <2>1 DEF Message
<1>6. Idle \in Snap /\ Idle.step = "idle"
  BY DEF Idle, Snap
<1> HIDE DEF x
<1>7. snap'[n] = Idle /\ \A m \in Node : m # n => snap'[m] = snap[m]
  BY Zenon, <1>2, <1>4
<1>8. /\ net' \in [Node -> [Node -> Seq(Message)]]
      /\ \A m \in up : m # n => net'[n][m] = Append(net[n][m], x)
      /\ \A k, m \in Node : k # n => net'[k][m] = net[k][m]
  BY Zenon, <1>1, <1>2, <1>3, <1>5, PublishFacts
<1>9. FleetTypeOK'
  <2>1. snap' \in [Node -> Snap]
    BY Zenon, <1>2, <1>4, <1>6
  <2> QED BY Zenon, <1>1, <1>2, <1>8, <2>1 DEF FleetTypeOK
<1>10. AbsentInv'
  <2>1. /\ \A k \in Node \ up, m \in Node : net'[m][k] = <<>>
        /\ \A k \in Node : net'[k][k] = <<>>
        /\ \A m \in fresh, k \in Node : net'[m][k] = <<>>
    BY Zenon, <1>1, <1>2, <1>3, <1>5, PublishAbsent
  <2>2. cache[n][n] = NoEntry /\ \A m \in fresh :
            cache[n][m] = NoEntry /\ applied[n][m] = 0 /\ missed[n][m] = 0
    BY Zenon, <1>1 DEF AbsentInv
  <2>3. seq[n] = 0 => roster[n] = {}
    BY Zenon, <1>1 DEF AbsentInv
  <2>4. snap'[n].step = "idle"
    BY Zenon, <1>6, <1>7
  <2>5. hand'[n] # <<>> => hand'[n][1].seq > 0 /\ hand'[n][1].seq <= seq'[n]
    BY Zenon, <1>1, <1>2 DEF AbsentInv
  <2>6. \A m \in Node : m # n =>
            /\ roster'[m] = roster[m] /\ seq'[m] = seq[m] /\ snap'[m] = snap[m] /\ hand'[m] = hand[m]
            /\ cache'[m] = cache[m] /\ applied'[m] = applied[m] /\ missed'[m] = missed[m]
    BY Zenon, <1>2, <1>7
  <2> QED BY ZenonT(40), <1>1, <1>2, <1>3, <2>1, <2>2, <2>3, <2>4, <2>5, <2>6, AbsentStep
<1>11. PairsInv'
  <2> SUFFICES ASSUME NEW k \in up, NEW m \in up, k # m
               PROVE  PairOf(k, m)'
    BY Zenon, <1>2 DEF PairsInv
  <2>1. k \in Node /\ m \in Node
    BY Zenon, <1>4
  <2>2. CASE m = n
    <3>1. /\ PairType(Stream(n, k), applied[k][n], missed[k][n], seq[n], roster[n], cache[k][n], snap[n])
          /\ Pair(Stream(n, k), applied[k][n], missed[k][n], seq[n], roster[n], cache[k][n], snap[n])
      BY Zenon, <1>1, <2>1, <2>2, PairTyped DEF PairsInv, PairOf
    <3>2. PICK s \in Seq(Message) : s = net[n][k]
      BY Zenon, <1>1, <2>1, <2>2, PairTyped
    <3>3. Stream(n, k) = With(s, hand[n]) /\ Stream(n, k)' = With(Append(s, x), hand[n])
      BY Zenon, <1>2, <1>8, <2>2, <3>2 DEF Stream
    <3>4. Pair(With(Append(s, x), hand[n]), applied[k][n], missed[k][n], seq[n], roster[n], cache[k][n], Idle)
      <4>1. CASE hand[n] = <<>>
        <5>1. With(s, hand[n]) = s /\ With(Append(s, x), hand[n]) = Append(s, x)
          BY Zenon, <4>1 DEF With
        <5>2. Pair(Append(s, x), applied[k][n], missed[k][n], seq[n], roster[n], cache[k][n], Idle)
          BY Zenon, <1>2, <1>5, <3>1, <3>3, <5>1, PairSend
        <5> QED BY Zenon, <5>1, <5>2
      <4>2. CASE hand[n] # <<>>
        <5>1. hand[n] \in Seq(Message)
          BY Zenon, <1>1 DEF FleetTypeOK
        <5>2. PICK y \in Message : y = hand[n][1]
          BY <4>2, <5>1
        <5>3. With(s, hand[n]) = Append(s, y) /\ With(Append(s, x), hand[n]) = Append(Append(s, x), y)
          BY Zenon, <4>2, <5>2 DEF With
        <5>4. Pair(Append(Append(s, x), y), applied[k][n], missed[k][n], seq[n], roster[n], cache[k][n], Idle)
          BY Zenon, <1>2, <1>5, <3>1, <3>3, <5>3, PairInsert
        <5> QED BY Zenon, <5>3, <5>4
      <4> QED BY Zenon, <4>1, <4>2
    <3> QED BY Zenon, <1>2, <1>7, <2>2, <3>3, <3>4 DEF PairOf
  <2>3. CASE m # n
    BY Zenon, <1>1, <1>2, <1>7, <1>8, <2>1, <2>3, PairFrame
  <2> QED BY Zenon, <2>2, <2>3
<1>12. ViewInv'
  BY Zenon, <1>1, <1>2 DEF ViewInv
<1> QED BY Zenon, <1>9, <1>10, <1>11, <1>12 DEF FleetInv

\* A live message leaves the hand for the bus: the stream is what it was.
LEMMA EnqueueStep ==
    ASSUME FleetInv, NEW n \in Node, Enqueue(n)
    PROVE  FleetInv'
<1>1. FleetTypeOK /\ AbsentInv /\ PairsInv /\ ViewInv
  BY Zenon DEF FleetInv
<1>2. /\ hand[n] # <<>> /\ Publish(n, Head(hand[n])) /\ hand' = [hand EXCEPT ![n] = <<>>]
      /\ UNCHANGED <<up, fresh, roster, seq, snap, cache, applied, missed, view, blind>>
  BY Zenon DEF Enqueue, history
<1>3. n \in up
  BY Zenon, <1>1, <1>2 DEF AbsentInv
<1>4. /\ up \subseteq Node /\ fresh \subseteq Node /\ hand \in [Node -> Seq(Message)]
      /\ hand[n] \in Seq(Message) /\ \A m \in Node : Len(hand[m]) <= 1
  BY Zenon, <1>1 DEF FleetTypeOK
<1>5. PICK x \in Message : x = hand[n][1] /\ x = Head(hand[n])
  <2>1. hand[n][1] \in Message /\ hand[n][1] = Head(hand[n])
    BY <1>2, <1>4
  <2> QED BY Zenon, <2>1
<1>6. Publish(n, x)
  BY Zenon, <1>2, <1>5
<1>7. /\ net' \in [Node -> [Node -> Seq(Message)]]
      /\ \A m \in up : m # n => net'[n][m] = Append(net[n][m], x)
      /\ \A k, m \in Node : k # n => net'[k][m] = net[k][m]
  BY Zenon, <1>1, <1>3, <1>6, PublishFacts
<1>8. <<>> \in Seq(Message) /\ Len(<<>>) <= 1
  OBVIOUS
<1>9. /\ hand' \in [Node -> Seq(Message)] /\ hand'[n] = <<>>
      /\ \A m \in Node : m # n => hand'[m] = hand[m]
  BY Zenon, <1>2, <1>4, <1>8
<1>10. \A m \in Node : Len(hand'[m]) <= 1
  BY Zenon, <1>4, <1>8, <1>9
<1>11. FleetTypeOK'
  BY Zenon, <1>1, <1>2, <1>7, <1>9, <1>10 DEF FleetTypeOK
<1>12. AbsentInv'
  <2>1. /\ \A k \in Node \ up, m \in Node : net'[m][k] = <<>>
        /\ \A k \in Node : net'[k][k] = <<>>
        /\ \A m \in fresh, k \in Node : net'[m][k] = <<>>
    BY Zenon, <1>1, <1>3, <1>6, PublishAbsent
  <2>2. cache'[n][n] = NoEntry /\ \A m \in fresh :
            cache'[n][m] = NoEntry /\ applied'[n][m] = 0 /\ missed'[n][m] = 0
    BY Zenon, <1>1, <1>2 DEF AbsentInv
  <2>3. /\ seq'[n] = 0 => roster'[n] = {}
        /\ snap'[n].step # "idle" => snap'[n].seq > 0 /\ snap'[n].seq <= seq'[n]
    BY Zenon, <1>1, <1>2 DEF AbsentInv
  <2>4. \A m \in Node : m # n =>
            /\ roster'[m] = roster[m] /\ seq'[m] = seq[m] /\ snap'[m] = snap[m] /\ hand'[m] = hand[m]
            /\ cache'[m] = cache[m] /\ applied'[m] = applied[m] /\ missed'[m] = missed[m]
    BY Zenon, <1>2, <1>9
  <2>5. up' = up /\ fresh' = fresh
    BY Zenon, <1>2
  <2> QED BY ZenonT(40), <1>1, <1>3, <1>9, <2>1, <2>2, <2>3, <2>4, <2>5, AbsentStep
<1>13. PairsInv'
  <2> SUFFICES ASSUME NEW k \in up, NEW m \in up, k # m
               PROVE  PairOf(k, m)'
    BY Zenon, <1>2 DEF PairsInv
  <2>1. k \in Node /\ m \in Node
    BY Zenon, <1>4
  <2>2. CASE m = n
    <3>1. Stream(n, k) = Append(net[n][k], x) /\ Stream(n, k)' = Append(net[n][k], x)
      BY Zenon, <1>2, <1>5, <1>7, <1>9, <2>2 DEF Stream, With
    <3>2. Pair(Stream(n, k), applied[k][n], missed[k][n], seq[n], roster[n], cache[k][n], snap[n])
      BY Zenon, <1>1, <2>2 DEF PairsInv, PairOf
    <3>3. Stream(n, k)' = Stream(n, k)
      BY Zenon, <3>1
    <3> QED BY Zenon, <1>2, <2>2, <3>2, <3>3 DEF PairOf
  <2>3. CASE m # n
    <3>1. net'[m][k] = net[m][k] /\ hand'[m] = hand[m]
      BY Zenon, <1>7, <1>9, <2>1, <2>3
    <3> QED BY Zenon, <1>1, <1>2, <3>1, PairFrame
  <2> QED BY Zenon, <2>2, <2>3
<1>14. ViewInv'
  BY Zenon, <1>1, <1>2 DEF ViewInv
<1> QED BY Zenon, <1>11, <1>12, <1>13, <1>14 DEF FleetInv

(***************************************************************************)
(* What arrives                                                            *)
(***************************************************************************)

\* g is f but for what n has of m.
ChangesAt(f, g, n, m, v) ==
    /\ g[n][m] = v
    /\ \A k \in Node : k # m => g[n][k] = f[n][k]
    /\ \A k \in Node : k # n => g[k] = f[k]

\* An update of one place of a matrix.
LEMMA ExceptAt ==
    ASSUME NEW T, NEW f \in [Node -> [Node -> T]], NEW n \in Node, NEW m \in Node, NEW v \in T
    PROVE  /\ [f EXCEPT ![n][m] = v] \in [Node -> [Node -> T]]
           /\ ChangesAt(f, [f EXCEPT ![n][m] = v], n, m, v)
<1>0. PICK g : g = [f EXCEPT ![n][m] = v]
  BY Zenon
<1>1. f[n] \in [Node -> T] /\ g = [f EXCEPT ![n] = [f[n] EXCEPT ![m] = v]]
  BY Zenon, <1>0
<1>2. PICK h : h = [f[n] EXCEPT ![m] = v]
  BY Zenon
<1>3. h \in [Node -> T] /\ h[m] = v /\ \A k \in Node : k # m => h[k] = f[n][k]
  BY Zenon, <1>1, <1>2
<1>4. g = [f EXCEPT ![n] = h]
  BY Zenon, <1>1, <1>2
<1>5. g \in [Node -> [Node -> T]] /\ g[n] = h /\ \A k \in Node : k # n => g[k] = f[k]
  BY Zenon, <1>3, <1>4
<1>6. ChangesAt(f, g, n, m, v)
  BY Zenon, <1>3, <1>5 DEF ChangesAt
<1> QED BY Zenon, <1>0, <1>5, <1>6

\* A step of n that changes only what n has of its peers.
LEMMA ReceiverKeeps ==
    ASSUME FleetTypeOK, AbsentInv, PairsInv, NEW n \in up,
           UNCHANGED <<up, fresh, roster, seq, hand, snap>>,
           \A k \in Node : k # n =>
               cache'[k] = cache[k] /\ applied'[k] = applied[k] /\ missed'[k] = missed[k],
           \A k, m \in Node : k # n => net'[m][k] = net[m][k],
           net'[n][n] = <<>>, cache'[n][n] = NoEntry,
           \A m \in fresh : /\ net'[m][n] = <<>> /\ cache'[n][m] = NoEntry
                            /\ applied'[n][m] = 0 /\ missed'[n][m] = 0,
           \A m \in up : m # n => PairOf(n, m)'
    PROVE  AbsentInv' /\ PairsInv'
<1>1. n \in Node /\ up \subseteq Node /\ fresh \subseteq Node
  BY Zenon DEF FleetTypeOK
<1>2. AbsentInv'
  <2>1. \A k \in Node \ up, m \in Node : net'[m][k] = <<>>
    <3>1. \A k \in Node \ up, m \in Node : net[m][k] = <<>>
      BY Zenon DEF AbsentInv
    <3>2. \A k \in Node \ up : k \in Node /\ k # n
      BY Zenon
    <3> QED BY SMTT(30), <3>1, <3>2
  <2>2. \A k \in Node : net'[k][k] = <<>>
    <3>1. \A k \in Node : net[k][k] = <<>>
      BY Zenon DEF AbsentInv
    <3> QED BY Zenon, <3>1
  <2>3. \A m \in fresh, k \in Node : net'[m][k] = <<>>
    <3>1. \A m \in fresh, k \in Node : net[m][k] = <<>>
      BY Zenon DEF AbsentInv
    <3> QED BY ZenonT(40), <1>1, <3>1
  <2>4. seq[n] = 0 => roster[n] = {}
    BY Zenon, <1>1 DEF AbsentInv
  <2>5. /\ snap[n].step # "idle" => snap[n].seq > 0 /\ snap[n].seq <= seq[n]
        /\ hand[n] # <<>> => hand[n][1].seq > 0 /\ hand[n][1].seq <= seq[n]
    BY Zenon, <1>1 DEF AbsentInv
  <2>6. up' = up /\ fresh' = fresh /\ roster' = roster /\ seq' = seq /\ hand' = hand /\ snap' = snap
    BY Zenon
  <2>7. \A m \in Node : m # n =>
            /\ roster'[m] = roster[m] /\ seq'[m] = seq[m] /\ snap'[m] = snap[m] /\ hand'[m] = hand[m]
            /\ cache'[m] = cache[m] /\ applied'[m] = applied[m] /\ missed'[m] = missed[m]
    BY Zenon, <2>6
  <2> QED BY ZenonT(40), <2>1, <2>2, <2>3, <2>4, <2>5, <2>6, <2>7, AbsentStep
<1>3. PairsInv'
  <2> SUFFICES ASSUME NEW k \in up, NEW m \in up, k # m
               PROVE  PairOf(k, m)'
    BY Zenon DEF PairsInv
  <2>1. CASE k = n
    BY Zenon, <2>1
  <2>2. CASE k # n
    <3>1. k \in Node /\ m \in Node
      BY Zenon, <1>1
    <3>2. /\ cache'[k] = cache[k] /\ applied'[k] = applied[k] /\ missed'[k] = missed[k]
          /\ net'[m][k] = net[m][k]
      BY Zenon, <2>2, <3>1
    <3> QED BY Zenon, <3>2, PairFrame
  <2> QED BY Zenon, <2>1, <2>2
<1> QED BY Zenon, <1>2, <1>3

\* g is f but for what node n has, or its clients.
RowIs(f, g, n, v) == g[n] = v /\ \A k \in Node : k # n => g[k] = f[k]

\* An update of one row.
LEMMA ExceptRow ==
    ASSUME NEW T, NEW f \in [Node -> T], NEW n \in Node, NEW v \in T
    PROVE  [f EXCEPT ![n] = v] \in [Node -> T] /\ RowIs(f, [f EXCEPT ![n] = v], n, v)
BY Zenon DEF RowIs

\* n takes the next message of m off the stream, whatever it says: d is the cache
\* that it leaves, w what n's clients see then, and unsure whom they may not see.
Received(n, m, d, w, unsure) ==
    /\ UNCHANGED <<up, fresh, roster, seq, hand, snap>>
    /\ net' \in [Node -> [Node -> Seq(Message)]]
    /\ cache' \in [Node -> [Node -> Entry]]
    /\ applied' \in [Node -> [Node -> Nat]]
    /\ missed' \in [Node -> [Node -> Nat]]
    /\ view' \in [Node -> [User -> SUBSET User]]
    /\ blind' \in [Node -> SUBSET User]
    /\ ChangesAt(net, net', m, n, Tail(net[m][n]))
    /\ ChangesAt(applied, applied', n, m, Mark(Head(net[m][n]), applied[n][m]))
    /\ ChangesAt(missed, missed', n, m, Left(Head(net[m][n]), applied[n][m], missed[n][m]))
    /\ RowIs(cache, cache', n, d) /\ RowIs(view, view', n, w) /\ RowIs(blind, blind', n, unsure)

\* The new cache and the clients' views fit the message.
Fits(n, m, d, w, unsure) ==
    /\ \A k \in Node : k # m => d[k] = cache[n][k]
    /\ m \in up => /\ EntryInv(Left(Head(net[m][n]), applied[n][m], missed[n][m]), d[m])
                   /\ Applies(Head(net[m][n]), applied[n][m], cache[n][m], d[m])
    /\ \A u \in roster[n] : Sees(w[u], roster[n], Announced(d), unsure)

\* The part of every delivery that is the same.
LEMMA DeliverKeeps ==
    ASSUME FleetInv, NEW n \in up, NEW m \in Node, net[m][n] # <<>>,
           NEW d, NEW w, NEW unsure, Received(n, m, d, w, unsure), Fits(n, m, d, w, unsure)
    PROVE  FleetInv'
<1> DEFINE b == Mark(Head(net[m][n]), applied[n][m])
           left == Left(Head(net[m][n]), applied[n][m], missed[n][m])
<1>0. up' = up /\ fresh' = fresh /\ roster' = roster /\ seq' = seq /\ hand' = hand /\ snap' = snap
  BY Zenon DEF Received
<1>1. FleetTypeOK /\ AbsentInv /\ PairsInv /\ ViewInv
  BY Zenon DEF FleetInv
<1>2. n \in Node /\ up \subseteq Node /\ fresh \subseteq Node
  BY Zenon, <1>1 DEF FleetTypeOK
<1>3. m # n /\ m \notin fresh
  BY Zenon, <1>1, <1>2 DEF AbsentInv
<1>4. FleetTypeOK'
  BY Zenon, <1>0, <1>1 DEF FleetTypeOK, Received
<1>5. /\ net'[m][n] = Tail(net[m][n])
      /\ \A k \in Node : k # n => net'[m][k] = net[m][k]
      /\ \A l, k \in Node : l # m => net'[l][k] = net[l][k]
  BY Zenon DEF Received, ChangesAt
<1>6. /\ applied'[n][m] = b /\ missed'[n][m] = left
      /\ \A k \in Node : k # m => applied'[n][k] = applied[n][k] /\ missed'[n][k] = missed[n][k]
      /\ \A k \in Node : k # n => applied'[k] = applied[k] /\ missed'[k] = missed[k]
  BY Zenon DEF Received, ChangesAt
<1>7. cache'[n] = d /\ \A k \in Node : k # n => cache'[k] = cache[k]
  BY Zenon DEF Received, RowIs
<1>8. /\ view'[n] = w /\ blind'[n] = unsure
      /\ \A k \in Node : k # n => view'[k] = view[k] /\ blind'[k] = blind[k]
  BY Zenon DEF Received, RowIs
<1>9. AbsentInv' /\ PairsInv'
  <2>1. ASSUME NEW l \in up, l # n
        PROVE  PairOf(n, l)'
    <3>1. CASE l = m
      <4>1. /\ PairType(Stream(m, n), applied[n][m], missed[n][m], seq[m], roster[m], cache[n][m], snap[m])
            /\ Pair(Stream(m, n), applied[n][m], missed[n][m], seq[m], roster[m], cache[n][m], snap[m])
        BY Zenon, <1>1, <1>2, <2>1, <3>1, PairTyped DEF PairsInv, PairOf
      <4>2. EntryInv(left, d[m]) /\ Applies(Head(net[m][n]), applied[n][m], cache[n][m], d[m])
        BY Zenon, <2>1, <3>1 DEF Fits
      <4>6. net[m][n] \in Seq(Message) /\ hand[m] \in Seq(Message)
        BY Zenon, <1>1, <1>2, PairTyped
      <4>7. /\ Stream(m, n) # <<>> /\ Head(Stream(m, n)) = Head(net[m][n])
            /\ Tail(Stream(m, n)) = With(Tail(net[m][n]), hand[m])
        BY Zenon, <4>6, WithFacts DEF Stream
      <4>3. Pair(Tail(Stream(m, n)), b, left, seq[m], roster[m], d[m], snap[m])
        BY Zenon, <4>1, <4>2, <4>7, PairReceive
      <4>4. /\ Stream(m, n)' = Tail(Stream(m, n)) /\ applied'[n][m] = b /\ missed'[n][m] = left
            /\ seq'[m] = seq[m] /\ roster'[m] = roster[m] /\ cache'[n][m] = d[m] /\ snap'[m] = snap[m]
        BY Zenon, <1>0, <1>5, <1>6, <1>7, <4>7 DEF Stream
      <4>5. PairOf(n, m)'
        BY Zenon, <4>3, <4>4 DEF PairOf
      <4> QED BY Zenon, <3>1, <4>5
    <3>2. CASE l # m
      <4>0. \A k \in Node : k # m => d[k] = cache[n][k]
        BY Zenon DEF Fits
      <4>1. l \in Node
        BY Zenon, <1>2
      <4>2. net'[l][n] = net[l][n] /\ applied'[n][l] = applied[n][l] /\ missed'[n][l] = missed[n][l]
        BY Zenon, <1>2, <1>5, <1>6, <3>2, <4>1
      <4>3. cache'[n][l] = cache[n][l]
        BY Zenon, <1>7, <3>2, <4>0, <4>1
      <4> QED BY Zenon, <1>0, <1>1, <2>1, <4>2, <4>3, PairFrame
    <3> QED BY Zenon, <3>1, <3>2
  <2>2. net'[n][n] = <<>> /\ cache'[n][n] = NoEntry
    <3>1. net[n][n] = <<>> /\ cache[n][n] = NoEntry
      BY Zenon, <1>1, <1>2 DEF AbsentInv
    <3>2. net'[n][n] = net[n][n] /\ cache'[n][n] = cache[n][n]
      BY Zenon, <1>2, <1>3, <1>5, <1>7 DEF Fits
    <3> QED BY Zenon, <3>1, <3>2
  <2>3. ASSUME NEW l \in fresh
        PROVE  net'[l][n] = <<>> /\ cache'[n][l] = NoEntry /\ applied'[n][l] = 0 /\ missed'[n][l] = 0
    <3>1. net[l][n] = <<>> /\ cache[n][l] = NoEntry /\ applied[n][l] = 0 /\ missed[n][l] = 0
      BY Zenon, <1>1, <1>2 DEF AbsentInv
    <3>2. l \in Node /\ l # m
      BY Zenon, <1>2, <1>3
    <3>3. net'[l][n] = net[l][n] /\ applied'[n][l] = applied[n][l] /\ missed'[n][l] = missed[n][l]
      BY Zenon, <1>2, <1>5, <1>6, <3>2
    <3>4. cache'[n][l] = cache[n][l]
      BY Zenon, <1>7, <3>2 DEF Fits
    <3> QED BY Zenon, <3>1, <3>3, <3>4
  <2>4. \A k, l \in Node : k # n => net'[l][k] = net[l][k]
    BY Zenon, <1>5
  <2>5. \A k \in Node : k # n =>
            cache'[k] = cache[k] /\ applied'[k] = applied[k] /\ missed'[k] = missed[k]
    BY Zenon, <1>6, <1>7
  <2>6. \A l \in up : l # n => PairOf(n, l)'
    BY Zenon, <2>1
  <2>7. \A l \in fresh : /\ net'[l][n] = <<>> /\ cache'[n][l] = NoEntry
                         /\ applied'[n][l] = 0 /\ missed'[n][l] = 0
    BY Zenon, <2>3
  <2>8. UNCHANGED <<up, fresh, roster, seq, hand, snap>>
    BY Zenon DEF Received
  <2> QED BY Zenon, <1>1, <2>2, <2>4, <2>5, <2>6, <2>7, <2>8, ReceiverKeeps
<1>10. ViewInv'
  <2>1. \A u \in roster'[n] : Sees(view'[n][u], roster'[n], Announced(cache'[n]), blind'[n])
    BY Zenon, <1>0, <1>7, <1>8 DEF Fits
  <2>2. \A k \in up : k # n => /\ roster'[k] = roster[k] /\ view'[k] = view[k]
                               /\ cache'[k] = cache[k] /\ blind'[k] = blind[k]
    BY Zenon, <1>0, <1>2, <1>7, <1>8
  <2>3. up' \subseteq up
    BY Zenon, <1>0
  <2> QED BY Zenon, <1>1, <2>1, <2>2, <2>3, ViewFrame
<1> QED BY Zenon, <1>4, <1>9, <1>10 DEF FleetInv

\* One entry of a cache is replaced.
LEMMA CacheUpdate ==
    ASSUME NEW c \in [Node -> Entry], NEW m \in Node, NEW d \in [Node -> Entry],
           \A k \in Node : k # m => d[k] = c[k]
    PROVE  /\ \A y : y \in Announced(d) => y \in Announced(c) \/ y \in d[m].users
           /\ \A y : y \in Announced(c) => y \in Announced(d) \/ (y \in c[m].users /\ y \notin d[m].users)
           /\ d[m].users \subseteq Announced(d)
<1>1. \A y : y \in Announced(d) <=> \E k \in Node : y \in d[k].users
  BY Zenon, CacheSets
<1>2. \A y : y \in Announced(c) <=> \E k \in Node : y \in c[k].users
  BY Zenon, CacheSets
<1>3. ASSUME NEW y \in Announced(d) PROVE y \in Announced(c) \/ y \in d[m].users
  <2>1. PICK k \in Node : y \in d[k].users
    BY Zenon, <1>1
  <2>2. k = m \/ d[k] = c[k]
    BY Zenon
  <2> QED BY Zenon, <1>2, <2>1, <2>2
<1>4. ASSUME NEW y \in Announced(c) PROVE y \in Announced(d) \/ (y \in c[m].users /\ y \notin d[m].users)
  <2>1. PICK k \in Node : y \in c[k].users
    BY Zenon, <1>2
  <2>2. k = m \/ d[k] = c[k]
    BY Zenon
  <2> QED BY Zenon, <1>1, <2>1, <2>2
<1>5. d[m].users \subseteq Announced(d)
  BY Zenon, <1>1
<1> QED BY Zenon, <1>3, <1>4, <1>5

\* What a delivery has to begin with.
LEMMA DeliverBegins ==
    ASSUME FleetInv, NEW n \in up, NEW m \in Node, net[m][n] # <<>>
    PROVE  /\ n \in Node /\ m # n
           /\ cache[n] \in [Node -> Entry] /\ cache[n][m] \in Entry
           /\ Head(net[m][n]) \in Message
           /\ applied[n][m] \in Nat /\ missed[n][m] \in Nat
           /\ roster[n] \in SUBSET User /\ blind[n] \in SUBSET User
           /\ m \in up => EntryInv(missed[n][m], cache[n][m])
<1>1. FleetTypeOK /\ AbsentInv /\ PairsInv
  BY Zenon DEF FleetInv
<1>2. n \in Node /\ cache[n] \in [Node -> Entry] /\ roster[n] \in SUBSET User /\ blind[n] \in SUBSET User
  BY Zenon, <1>1 DEF FleetTypeOK
<1>3. m # n
  BY Zenon, <1>1, <1>2 DEF AbsentInv
<1>4. net[m][n] \in Seq(Message) /\ applied[n][m] \in Nat /\ missed[n][m] \in Nat /\ cache[n][m] \in Entry
  BY Zenon, <1>1, <1>2, PairTyped
<1>5. Head(net[m][n]) \in Message
  BY Zenon, <1>4, TailFacts
<1>6. m \in up => EntryInv(missed[n][m], cache[n][m])
  BY Zenon, <1>1, <1>3 DEF PairsInv, PairOf, Pair
<1> QED BY Zenon, <1>2, <1>3, <1>4, <1>5, <1>6

\* add_live puts the user in the peer's entry and touches no other.
LEMMA AddLiveFacts ==
    ASSUME NEW c \in [Node -> Entry], NEW m \in Node, NEW u \in User
    PROVE  /\ AddLive(c, m, u) \in [Node -> Entry]
           /\ \A k \in Node : k # m => AddLive(c, m, u)[k] = c[k]
           /\ AddLive(c, m, u)[m].age = "live" /\ AddLive(c, m, u)[m].users = c[m].users \cup {u}
           /\ \A y : y \in Announced(AddLive(c, m, u)) <=> y \in Announced(c) \/ y = u
<1>1. c[m] \in Entry /\ c[m].users \in SUBSET User
  BY Zenon DEF Entry
<1>2. PICK e : e = [age |-> "live", users |-> c[m].users \cup {u}]
  BY Zenon
<1>3. e \in Entry /\ e.age = "live" /\ e.users = c[m].users \cup {u}
  BY Zenon, <1>1, <1>2 DEF Entry
<1>4. PICK d : d = AddLive(c, m, u)
  BY Zenon
<1>5. d = [c EXCEPT ![m] = e]
  BY Zenon, <1>2, <1>4 DEF AddLive
<1>6. d \in [Node -> Entry] /\ d[m] = e /\ \A k \in Node : k # m => d[k] = c[k]
  BY Zenon, <1>3, <1>5
<1>7. /\ \A y : y \in Announced(d) => y \in Announced(c) \/ y \in d[m].users
      /\ \A y : y \in Announced(c) => y \in Announced(d) \/ (y \in c[m].users /\ y \notin d[m].users)
      /\ d[m].users \subseteq Announced(d)
  BY Zenon, <1>6, CacheUpdate
<1>8. c[m].users \subseteq Announced(c)
  BY Zenon, CacheSets
<1>9. \A y : y \in Announced(d) <=> y \in Announced(c) \/ y = u
  BY Zenon, <1>3, <1>6, <1>7, <1>8
<1> QED BY Zenon, <1>3, <1>4, <1>6, <1>9

\* remove_live takes the user out of the peer's entry and touches no other.
LEMMA RemoveLiveFacts ==
    ASSUME NEW c \in [Node -> Entry], NEW m \in Node, NEW u \in User
    PROVE  /\ RemoveLive(c, m, u) \in [Node -> Entry]
           /\ \A k \in Node : k # m => RemoveLive(c, m, u)[k] = c[k]
           /\ IF c[m].age = "none" THEN RemoveLive(c, m, u)[m] = c[m]
              ELSE /\ RemoveLive(c, m, u)[m].age = "live"
                   /\ RemoveLive(c, m, u)[m].users = c[m].users \ {u}
           /\ Announced(RemoveLive(c, m, u)) \subseteq Announced(c)
           /\ \A y \in Announced(c) : y # u => y \in Announced(RemoveLive(c, m, u))
<1>1. CASE c[m].age = "none"
  <2>1. RemoveLive(c, m, u) = c
    BY Zenon, <1>1 DEF RemoveLive
  <2> QED BY Zenon, <1>1, <2>1
<1>2. CASE c[m].age # "none"
  <2>1. c[m] \in Entry /\ c[m].users \in SUBSET User
    BY Zenon DEF Entry
  <2>2. PICK e : e = [age |-> "live", users |-> c[m].users \ {u}]
    BY Zenon
  <2>3. e \in Entry /\ e.age = "live" /\ e.users = c[m].users \ {u}
    BY Zenon, <2>1, <2>2 DEF Entry
  <2>4. PICK d : d = RemoveLive(c, m, u)
    BY Zenon
  <2>5. d = [c EXCEPT ![m] = e]
    BY Zenon, <1>2, <2>2, <2>4 DEF RemoveLive
  <2>6. d \in [Node -> Entry] /\ d[m] = e /\ \A k \in Node : k # m => d[k] = c[k]
    BY Zenon, <2>3, <2>5
  <2>7. /\ \A y : y \in Announced(d) => y \in Announced(c) \/ y \in d[m].users
        /\ \A y : y \in Announced(c) => y \in Announced(d) \/ (y \in c[m].users /\ y \notin d[m].users)
    BY Zenon, <2>6, CacheUpdate
  <2>8. c[m].users \subseteq Announced(c)
    BY Zenon, CacheSets
  <2>9. Announced(d) \subseteq Announced(c)
    BY Zenon, <2>3, <2>6, <2>7, <2>8
  <2>10. \A y \in Announced(c) : y # u => y \in Announced(d)
    BY Zenon, <2>3, <2>6, <2>7
  <2> QED BY Zenon, <1>2, <2>3, <2>4, <2>6, <2>9, <2>10
<1> QED BY Zenon, <1>1, <1>2

\* insert_snapshot replaces the peer's entry and touches no other.
LEMMA InsertFacts ==
    ASSUME NEW c \in [Node -> Entry], NEW m \in Node, NEW q \in SUBSET User
    PROVE  /\ InsertSnapshot(c, m, q) \in [Node -> Entry]
           /\ \A k \in Node : k # m => InsertSnapshot(c, m, q)[k] = c[k]
           /\ InsertSnapshot(c, m, q)[m].age = "live" /\ InsertSnapshot(c, m, q)[m].users = q
<1>1. PICK e : e = [age |-> "live", users |-> q]
  BY Zenon
<1>2. e \in Entry /\ e.age = "live" /\ e.users = q
  BY Zenon, <1>1 DEF Entry
<1>3. PICK d : d = InsertSnapshot(c, m, q)
  BY Zenon
<1>4. d = [c EXCEPT ![m] = e]
  BY Zenon, <1>1, <1>3 DEF InsertSnapshot
<1>5. d \in [Node -> Entry] /\ d[m] = e /\ \A k \in Node : k # m => d[k] = c[k]
  BY Zenon, <1>2, <1>4
<1> QED BY Zenon, <1>2, <1>3, <1>5

\* A change of age alone leaves the users.
Age == {"none", "live", "expired"}
Aged(c, m, a) == [c EXCEPT ![m].age = a]

\* Expiry and touch change the age of an entry and no user of it.
LEMMA AgeFacts ==
    ASSUME NEW c \in [Node -> Entry], NEW m \in Node, NEW a \in Age
    PROVE  /\ Aged(c, m, a) \in [Node -> Entry]
           /\ \A k \in Node : k # m => Aged(c, m, a)[k] = c[k]
           /\ Aged(c, m, a)[m].age = a /\ Aged(c, m, a)[m].users = c[m].users
           /\ \A y : y \in Announced(Aged(c, m, a)) <=> y \in Announced(c)
<1>1. c[m] \in Entry
  BY Zenon
<1>2. PICK e : e = [c[m] EXCEPT !.age = a]
  BY Zenon
<1>3. e \in Entry /\ e.age = a /\ e.users = c[m].users
  BY <1>1, <1>2 DEF Entry, Age
<1>4. PICK d : d = Aged(c, m, a)
  BY Zenon
<1>5. d = [c EXCEPT ![m] = e]
  BY Zenon, <1>2, <1>4 DEF Aged
<1>6. d \in [Node -> Entry] /\ d[m] = e /\ \A k \in Node : k # m => d[k] = c[k]
  BY Zenon, <1>3, <1>5
<1>7. \A k \in Node : d[k].users = c[k].users
  BY Zenon, <1>3, <1>6
<1>8. \A y : y \in Announced(d) <=> y \in Announced(c)
  <2>1. \A y : y \in Announced(d) <=> \E k \in Node : y \in d[k].users
    BY Zenon, <1>6, CacheSets
  <2>2. \A y : y \in Announced(c) <=> \E k \in Node : y \in c[k].users
    BY Zenon, CacheSets
  <2> QED BY Zenon, <1>7, <2>1, <2>2
<1> QED BY Zenon, <1>3, <1>4, <1>6, <1>8

\* A message that accept_seq refuses may still keep the entry alive (touch).
LEMMA TouchFacts ==
    ASSUME NEW c \in [Node -> Entry], NEW m \in Node, NEW d
    PROVE  d = c \/ d = Touch(c, m) =>
           /\ d \in [Node -> Entry] /\ \A k \in Node : k # m => d[k] = c[k]
           /\ d[m].users = c[m].users /\ d[m].age \in {c[m].age, "live"}
           /\ \A y : y \in Announced(d) <=> y \in Announced(c)
<1>1. CASE d = c
  BY Zenon, <1>1
<1>2. CASE d # c /\ d = Touch(c, m)
  <2>1. PICK a \in Age : a = "live"
    BY Zenon DEF Age
  <2>2. d = Aged(c, m, a)
    BY Zenon, <1>2, <2>1 DEF Touch, Aged
  <2>3. d \in [Node -> Entry] /\ \A k \in Node : k # m => d[k] = c[k]
    BY ZenonT(40), <2>2, AgeFacts
  <2>4. d[m].users = c[m].users /\ d[m].age = a
    BY <2>2, AgeFacts
  <2>5. \A y : y \in Announced(d) <=> y \in Announced(c)
    BY Zenon, <2>2, AgeFacts
  <2> QED BY Zenon, <2>1, <2>3, <2>4, <2>5
<1> QED BY Zenon, <1>1, <1>2

\* A peer's join arrives (apply_member_added).
LEMMA AddedStep ==
    ASSUME FleetInv, NEW n \in up, NEW m \in Node, net[m][n] # <<>>,
           Head(net[m][n]).type = "added", Head(net[m][n]).seq > applied[n][m],
           NEW u \in User, Head(net[m][n]).users = {u}, NEW come,
           come = {u} \ (roster[n] \cup RemoteExcept(cache[n], m)),
           Received(n, m, AddLive(cache[n], m, u), Tell(n, roster[n], {}, come), blind[n])
    PROVE  FleetInv'
<1>1. FleetTypeOK /\ ViewInv
  BY Zenon DEF FleetInv
<1>2. n \in Node /\ cache[n] \in [Node -> Entry] /\ roster[n] \in SUBSET User
  BY Zenon, DeliverBegins
<1>3. PICK d : d = AddLive(cache[n], m, u)
  BY Zenon
<1>4. /\ \A k \in Node : k # m => d[k] = cache[n][k]
      /\ d[m].age = "live" /\ d[m].users = cache[n][m].users \cup {u}
      /\ \A y : y \in Announced(d) <=> y \in Announced(cache[n]) \/ y = u
  BY <1>2, <1>3, AddLiveFacts
<1>5. RemoteExcept(cache[n], m) \subseteq Announced(cache[n])
  BY Zenon, <1>2, CacheSets
<1>6. come \in SUBSET User
  BY Zenon
<1>7. PICK w : w = Tell(n, roster[n], {}, come)
  BY Zenon
<1>8. \A v \in User : v \in roster[n] => w[v] = (view[n][v] \ {}) \cup come
  BY <1>1, <1>2, <1>6, <1>7, TellFacts
<1>9. ASSUME NEW v \in roster[n]
      PROVE  Sees(w[v], roster[n], Announced(d), blind[n])
  <2>1. Sees(view[n][v], roster[n], Announced(cache[n]), blind[n])
    BY Zenon, <1>1 DEF ViewInv
  <2>2. w[v] = (view[n][v] \ {}) \cup come
    BY Zenon, <1>2, <1>8
  <2> QED BY <1>4, <1>5, <2>1, <2>2 DEF Sees
<1>10. EntryInv(Left(Head(net[m][n]), applied[n][m], missed[n][m]), d[m])
  BY <1>4 DEF EntryInv
<1>11. Applies(Head(net[m][n]), applied[n][m], cache[n][m], d[m])
  <2>1. \A v \in User : (Concerns(Head(net[m][n]), v) <=> v = u) /\ (Says(Head(net[m][n]), v) <=> v = u)
    BY DEF Concerns, Says
  <2> QED BY Zenon, <1>4, <2>1 DEF Applies
<1>12. Received(n, m, d, w, blind[n])
  BY Zenon, <1>3, <1>7
<1>13. \A v \in roster[n] : Sees(w[v], roster[n], Announced(d), blind[n])
  BY Zenon, <1>9
<1>14. \A k \in Node : k # m => d[k] = cache[n][k]
  BY Zenon, <1>4
<1>15. Fits(n, m, d, w, blind[n])
  BY Zenon, <1>10, <1>11, <1>13, <1>14 DEF Fits
<1> QED BY Zenon, <1>12, <1>15, DeliverKeeps

\* A peer's leave arrives (apply_member_removed).
LEMMA RemovedStep ==
    ASSUME FleetInv, NEW n \in up, NEW m \in Node, net[m][n] # <<>>,
           Head(net[m][n]).type = "removed", Head(net[m][n]).seq > applied[n][m],
           NEW u \in User, Head(net[m][n]).users = {u}, NEW d, NEW gone, NEW unsure
    PROVE  /\ d = RemoveLive(cache[n], m, u)
           /\ gone = {u} \ (roster[n] \cup Remote(d))
           /\ unsure = blind[n] \cup (gone \cap Hidden(d))
           /\ Received(n, m, d, Tell(n, roster[n], gone, {}), unsure)
           => FleetInv'
<1>0. SUFFICES ASSUME d = RemoveLive(cache[n], m, u),
                      gone = {u} \ (roster[n] \cup Remote(d)),
                      unsure = blind[n] \cup (gone \cap Hidden(d)),
                      Received(n, m, d, Tell(n, roster[n], gone, {}), unsure)
               PROVE  FleetInv'
  BY Zenon
<1>1. FleetTypeOK /\ ViewInv
  BY Zenon DEF FleetInv
<1>2. /\ n \in Node /\ cache[n] \in [Node -> Entry] /\ roster[n] \in SUBSET User
      /\ m \in up => EntryInv(missed[n][m], cache[n][m])
  BY Zenon, DeliverBegins
<1>3. /\ d \in [Node -> Entry] /\ \A k \in Node : k # m => d[k] = cache[n][k]
      /\ IF cache[n][m].age = "none" THEN d[m] = cache[n][m]
         ELSE d[m].age = "live" /\ d[m].users = cache[n][m].users \ {u}
      /\ Announced(d) \subseteq Announced(cache[n])
      /\ \A y \in Announced(cache[n]) : y # u => y \in Announced(d)
  BY <1>0, <1>2, RemoveLiveFacts
<1>4. /\ \A y : y \in Hidden(d) <=> y \in Announced(d) /\ y \notin Remote(d)
      /\ Remote(d) \subseteq Announced(d)
  BY Zenon, <1>3, CacheSets
<1>5. PICK w : w = Tell(n, roster[n], gone, {})
  BY Zenon
<1>6. \A v \in User : v \in roster[n] => w[v] = (view[n][v] \ gone) \cup {}
  <2>1. {} \in SUBSET User
    BY Zenon
  <2>2. \A v \in User : v \in roster[n] => Tell(n, roster[n], gone, {})[v] = (view[n][v] \ gone) \cup {}
    BY SMTT(30), <1>1, <1>2, <2>1, TellFacts
  <2> QED BY Zenon, <1>5, <2>2
<1>7. ASSUME NEW v \in roster[n]
      PROVE  Sees(w[v], roster[n], Announced(d), unsure)
  <2>1. Sees(view[n][v], roster[n], Announced(cache[n]), blind[n])
    BY Zenon, <1>1 DEF ViewInv
  <2>2. w[v] = (view[n][v] \ gone) \cup {}
    BY Zenon, <1>2, <1>6
  <2>3. w[v] \subseteq roster[n] \cup Announced(d)
    BY <1>0, <1>3, <1>4, <2>1, <2>2 DEF Sees
  <2>4. (roster[n] \cup Announced(d)) \ unsure \subseteq w[v]
    BY <1>0, <1>3, <1>4, <2>1, <2>2 DEF Sees
  <2> QED BY Zenon, <2>3, <2>4 DEF Sees
<1>8. Left(Head(net[m][n]), applied[n][m], missed[n][m]) = missed[n][m]
  BY DEF Left
<1>9. m \in up => EntryInv(Left(Head(net[m][n]), applied[n][m], missed[n][m]), d[m])
  <2>1. m \in up => EntryInv(missed[n][m], d[m])
    BY <1>2, <1>3 DEF EntryInv
  <2> QED BY Zenon, <1>8, <2>1
<1>10. m \in up => Applies(Head(net[m][n]), applied[n][m], cache[n][m], d[m])
  <2>1. \A v \in User : (Concerns(Head(net[m][n]), v) <=> v = u) /\ ~Says(Head(net[m][n]), v)
    BY DEF Concerns, Says
  <2>2. m \in up => d[m].users = cache[n][m].users \ {u}
    BY <1>2, <1>3 DEF EntryInv
  <2> QED BY <2>1, <2>2 DEF Applies
<1>11. Received(n, m, d, w, unsure)
  BY Zenon, <1>0, <1>5
<1>12. \A v \in roster[n] : Sees(w[v], roster[n], Announced(d), unsure)
  BY Zenon, <1>7
<1>13. \A k \in Node : k # m => d[k] = cache[n][k]
  BY Zenon, <1>3
<1>14. m \in up => /\ EntryInv(Left(Head(net[m][n]), applied[n][m], missed[n][m]), d[m])
                   /\ Applies(Head(net[m][n]), applied[n][m], cache[n][m], d[m])
  BY Zenon, <1>9, <1>10
<1>15. Fits(n, m, d, w, unsure)
  BY Zenon, <1>12, <1>13, <1>14 DEF Fits
<1> QED BY Zenon, <1>11, <1>15, DeliverKeeps

\* A peer's snapshot arrives and is not an old one (apply_presence_snapshot).
LEMMA SnapshotStep ==
    ASSUME FleetInv, NEW n \in up, NEW m \in Node, net[m][n] # <<>>,
           Head(net[m][n]).type = "snapshot", Head(net[m][n]).seq > applied[n][m],
           NEW d, NEW gone, NEW come
    PROVE  /\ d = InsertSnapshot(cache[n], m, Head(net[m][n]).users)
           /\ gone = (Announced(cache[n]) \ Announced(d)) \ roster[n]
           /\ come = (Announced(d) \ Announced(cache[n])) \ roster[n]
           /\ Received(n, m, d, Tell(n, roster[n], gone, come), blind[n])
           => FleetInv'
<1>0. SUFFICES ASSUME d = InsertSnapshot(cache[n], m, Head(net[m][n]).users),
                      gone = (Announced(cache[n]) \ Announced(d)) \ roster[n],
                      come = (Announced(d) \ Announced(cache[n])) \ roster[n],
                      Received(n, m, d, Tell(n, roster[n], gone, come), blind[n])
               PROVE  FleetInv'
  BY Zenon
<1>1. FleetTypeOK /\ ViewInv
  BY Zenon DEF FleetInv
<1>2. /\ n \in Node /\ cache[n] \in [Node -> Entry] /\ roster[n] \in SUBSET User
      /\ Head(net[m][n]).users \in SUBSET User
  BY Zenon, DeliverBegins DEF Message
<1>3. /\ d \in [Node -> Entry] /\ \A k \in Node : k # m => d[k] = cache[n][k]
      /\ d[m].age = "live" /\ d[m].users = Head(net[m][n]).users
  <2>1. PICK q \in SUBSET User : q = Head(net[m][n]).users
    BY Zenon, <1>2
  <2>2. d = InsertSnapshot(cache[n], m, q)
    BY Zenon, <1>0, <2>1
  <2>3. d \in [Node -> Entry] /\ \A k \in Node : k # m => d[k] = cache[n][k]
    BY <1>2, <2>2, InsertFacts
  <2>4. d[m].age = "live" /\ d[m].users = q
    BY <1>2, <2>2, InsertFacts
  <2> QED BY Zenon, <2>1, <2>3, <2>4
<1>4. come \in SUBSET User
  <2>1. Announced(d) \subseteq User
    BY Zenon, <1>3, CacheSets
  <2> QED BY Zenon, <1>0, <2>1
<1>5. PICK w : w = Tell(n, roster[n], gone, come)
  BY Zenon
<1>6. \A v \in User : v \in roster[n] => w[v] = (view[n][v] \ gone) \cup come
  BY <1>1, <1>2, <1>4, <1>5, TellFacts
<1>7. ASSUME NEW v \in roster[n]
      PROVE  Sees(w[v], roster[n], Announced(d), blind[n])
  <2>1. Sees(view[n][v], roster[n], Announced(cache[n]), blind[n])
    BY Zenon, <1>1 DEF ViewInv
  <2>2. w[v] = (view[n][v] \ gone) \cup come
    BY Zenon, <1>2, <1>6
  <2> QED BY <1>0, <2>1, <2>2 DEF Sees
<1>8. EntryInv(Left(Head(net[m][n]), applied[n][m], missed[n][m]), d[m])
  BY <1>3 DEF EntryInv
<1>9. Applies(Head(net[m][n]), applied[n][m], cache[n][m], d[m])
  BY <1>3 DEF Applies, Concerns, Says
<1>10. Received(n, m, d, w, blind[n])
  BY Zenon, <1>0, <1>5
<1>11. \A v \in roster[n] : Sees(w[v], roster[n], Announced(d), blind[n])
  BY Zenon, <1>7
<1>12. \A k \in Node : k # m => d[k] = cache[n][k]
  BY Zenon, <1>3
<1>13. m \in up => /\ EntryInv(Left(Head(net[m][n]), applied[n][m], missed[n][m]), d[m])
                   /\ Applies(Head(net[m][n]), applied[n][m], cache[n][m], d[m])
  BY Zenon, <1>8, <1>9
<1>14. Fits(n, m, d, w, blind[n])
  BY Zenon, <1>11, <1>12, <1>13 DEF Fits
<1> QED BY Zenon, <1>10, <1>14, DeliverKeeps

\* An old message arrives: at most, an old snapshot shows that the peer is alive.
LEMMA RejectedStep ==
    ASSUME FleetInv, NEW n \in up, NEW m \in Node, net[m][n] # <<>>,
           ~(Head(net[m][n]).seq > applied[n][m]),
           NEW d, d = cache[n] \/ d = Touch(cache[n], m),
           Received(n, m, d, view[n], blind[n])
    PROVE  FleetInv'
<1>1. ViewInv
  BY Zenon DEF FleetInv
<1>2. /\ n \in Node /\ cache[n] \in [Node -> Entry]
      /\ m \in up => EntryInv(missed[n][m], cache[n][m])
  BY Zenon, DeliverBegins
<1>3. /\ \A k \in Node : k # m => d[k] = cache[n][k]
      /\ d[m].users = cache[n][m].users /\ d[m].age \in {cache[n][m].age, "live"}
      /\ Announced(d) = Announced(cache[n])
  <2>1. /\ \A k \in Node : k # m => d[k] = cache[n][k]
        /\ d[m].users = cache[n][m].users /\ d[m].age \in {cache[n][m].age, "live"}
        /\ \A y : y \in Announced(d) <=> y \in Announced(cache[n])
    BY SMTT(30), <1>2, TouchFacts
  <2> QED BY Zenon, <2>1
<1>4. \A v \in roster[n] : Sees(view[n][v], roster[n], Announced(d), blind[n])
  BY Zenon, <1>1, <1>3 DEF ViewInv
<1>5. m \in up => EntryInv(Left(Head(net[m][n]), applied[n][m], missed[n][m]), d[m])
  <2>1. m \in up => EntryInv(missed[n][m], d[m])
    BY <1>2, <1>3 DEF EntryInv
  <2>2. Left(Head(net[m][n]), applied[n][m], missed[n][m]) = missed[n][m]
    BY Zenon DEF Left
  <2> QED BY Zenon, <2>1, <2>2
<1>6. Applies(Head(net[m][n]), applied[n][m], cache[n][m], d[m])
  BY Zenon, <1>3 DEF Applies
<1>7. \A k \in Node : k # m => d[k] = cache[n][k]
  BY Zenon, <1>3
<1>8. Fits(n, m, d, view[n], blind[n])
  BY Zenon, <1>4, <1>5, <1>6, <1>7 DEF Fits
<1> QED BY Zenon, <1>8, DeliverKeeps

\* What does not change, as an update.
LEMMA SameExcept ==
    ASSUME NEW T, NEW f \in [Node -> T], NEW n \in Node
    PROVE  f = [f EXCEPT ![n] = f[n]]
BY Zenon

\* A change at one place of a nested map, read as one row of it.
LEMMA SameExceptAt ==
    ASSUME NEW T, NEW f \in [Node -> [Node -> T]], NEW n \in Node, NEW m \in Node
    PROVE  f = [f EXCEPT ![n][m] = f[n][m]]
<1>1. f[n] \in [Node -> T]
  BY Zenon
<1>2. f[n] = [f[n] EXCEPT ![m] = f[n][m]]
  BY Zenon, <1>1
<1>3. f = [f EXCEPT ![n] = f[n]]
  BY Zenon
<1> QED BY Zenon, <1>2, <1>3

\* Every branch of handle_incoming is a Received.
LEMMA ReceivedIntro ==
    ASSUME FleetTypeOK, NEW n \in Node, NEW m \in Node, net[m][n] # <<>>,
           NEW d \in [Node -> Entry], NEW w \in [User -> SUBSET User], NEW unsure \in SUBSET User,
           NEW b \in Nat, NEW left \in Nat
    PROVE  /\ b = Mark(Head(net[m][n]), applied[n][m])
           /\ left = Left(Head(net[m][n]), applied[n][m], missed[n][m])
           /\ net' = [net EXCEPT ![m][n] = Tail(@)]
           /\ cache' = [cache EXCEPT ![n] = d]
           /\ view' = [view EXCEPT ![n] = w]
           /\ blind' = [blind EXCEPT ![n] = unsure]
           /\ applied' = [applied EXCEPT ![n][m] = b]
           /\ missed' = [missed EXCEPT ![n][m] = left]
           /\ UNCHANGED <<up, fresh, roster, seq, hand, snap>>
           => Received(n, m, d, w, unsure)
<1>1. /\ net \in [Node -> [Node -> Seq(Message)]] /\ cache \in [Node -> [Node -> Entry]]
      /\ applied \in [Node -> [Node -> Nat]] /\ missed \in [Node -> [Node -> Nat]]
      /\ view \in [Node -> [User -> SUBSET User]] /\ blind \in [Node -> SUBSET User]
  BY Zenon DEF FleetTypeOK
<1>2. PICK t \in Seq(Message) : t = Tail(net[m][n])
  BY Zenon, PairTyped, TailFacts
<1>3. /\ [net EXCEPT ![m][n] = t] \in [Node -> [Node -> Seq(Message)]]
      /\ ChangesAt(net, [net EXCEPT ![m][n] = t], m, n, t)
  BY Zenon, <1>1, ExceptAt
<1>4. /\ [applied EXCEPT ![n][m] = b] \in [Node -> [Node -> Nat]]
      /\ ChangesAt(applied, [applied EXCEPT ![n][m] = b], n, m, b)
  BY Zenon, <1>1, ExceptAt
<1>5. /\ [missed EXCEPT ![n][m] = left] \in [Node -> [Node -> Nat]]
      /\ ChangesAt(missed, [missed EXCEPT ![n][m] = left], n, m, left)
  BY Zenon, <1>1, ExceptAt
<1>6. [cache EXCEPT ![n] = d] \in [Node -> [Node -> Entry]] /\ RowIs(cache, [cache EXCEPT ![n] = d], n, d)
  BY Zenon, <1>1, ExceptRow
<1>7. [view EXCEPT ![n] = w] \in [Node -> [User -> SUBSET User]] /\ RowIs(view, [view EXCEPT ![n] = w], n, w)
  BY Zenon, <1>1, ExceptRow
<1>8. [blind EXCEPT ![n] = unsure] \in [Node -> SUBSET User] /\ RowIs(blind, [blind EXCEPT ![n] = unsure], n, unsure)
  BY Zenon, <1>1, ExceptRow
<1>9. SUFFICES ASSUME b = Mark(Head(net[m][n]), applied[n][m]),
                      left = Left(Head(net[m][n]), applied[n][m], missed[n][m]),
                      net' = [net EXCEPT ![m][n] = Tail(@)],
                      cache' = [cache EXCEPT ![n] = d],
                      view' = [view EXCEPT ![n] = w],
                      blind' = [blind EXCEPT ![n] = unsure],
                      applied' = [applied EXCEPT ![n][m] = b],
                      missed' = [missed EXCEPT ![n][m] = left],
                      UNCHANGED <<up, fresh, roster, seq, hand, snap>>
               PROVE  Received(n, m, d, w, unsure)
  BY Zenon
<1>10. net' \in [Node -> [Node -> Seq(Message)]] /\ ChangesAt(net, net', m, n, Tail(net[m][n]))
  BY Zenon, <1>2, <1>3, <1>9
<1>11. /\ applied' \in [Node -> [Node -> Nat]]
       /\ ChangesAt(applied, applied', n, m, Mark(Head(net[m][n]), applied[n][m]))
  BY Zenon, <1>4, <1>9
<1>12. /\ missed' \in [Node -> [Node -> Nat]]
       /\ ChangesAt(missed, missed', n, m, Left(Head(net[m][n]), applied[n][m], missed[n][m]))
  BY Zenon, <1>5, <1>9
<1>13. cache' \in [Node -> [Node -> Entry]] /\ RowIs(cache, cache', n, d)
  BY Zenon, <1>6, <1>9
<1>14. view' \in [Node -> [User -> SUBSET User]] /\ RowIs(view, view', n, w)
  BY Zenon, <1>7, <1>9
<1>15. blind' \in [Node -> SUBSET User] /\ RowIs(blind, blind', n, unsure)
  BY Zenon, <1>8, <1>9
<1>16. UNCHANGED <<up, fresh, roster, seq, hand, snap>>
  BY Zenon, <1>9
<1> QED BY Zenon, <1>10, <1>11, <1>12, <1>13, <1>14, <1>15, <1>16 DEF Received

\* handle_incoming.
LEMMA DeliverStep ==
    ASSUME FleetInv, NEW m \in Node, NEW n \in Node
    PROVE  Deliver(m, n) => FleetInv'
<1> DEFINE x == Head(net[m][n])
           u == CHOOSE y \in x.users : TRUE
<1>1. SUFFICES ASSUME Deliver(m, n) PROVE FleetInv'
  BY Zenon
<1>2. /\ n \in up /\ net[m][n] # <<>>
      /\ net' = [net EXCEPT ![m][n] = Tail(@)] /\ UNCHANGED <<up, fresh, roster, seq, hand, snap>>
      /\ IF x.seq > applied[n][m]
         THEN /\ applied' = [applied EXCEPT ![n][m] = x.seq]
              /\ \/ x.type = "added" /\ ApplyMemberAdded(n, m, u)
                 \/ x.type = "removed" /\ ApplyMemberRemoved(n, m, u, x)
                 \/ x.type = "snapshot" /\ ApplyPresenceSnapshot(n, m, x.users)
              /\ missed' = IF x.type = "snapshot" /\ x.seq > missed[n][m]
                           THEN [missed EXCEPT ![n][m] = 0] ELSE missed
         ELSE /\ cache' = IF x.type = "snapshot" THEN [cache EXCEPT ![n] = Touch(@, m)] ELSE cache
              /\ UNCHANGED <<applied, view, missed, blind>>
  BY Zenon, <1>1 DEF Deliver, AcceptSeq
<1>3. FleetTypeOK
  BY Zenon DEF FleetInv
<1>4. /\ cache[n] \in [Node -> Entry] /\ x \in Message /\ applied[n][m] \in Nat /\ missed[n][m] \in Nat
      /\ roster[n] \in SUBSET User /\ blind[n] \in SUBSET User
  BY Zenon, <1>2, DeliverBegins
<1>5. /\ x.seq \in Nat /\ x.users \in SUBSET User
      /\ x.type \in {"added", "removed"} => u \in User /\ x.users = {u}
  <2>1. x.seq \in Nat /\ x.users \in SUBSET User
    BY Zenon, <1>4 DEF Message
  <2>2. x.type \in {"added", "removed"} => \E y \in User : x.users = {y}
    BY Zenon, <1>4 DEF Message
  <2>3. ASSUME x.type \in {"added", "removed"} PROVE u \in User /\ x.users = {u}
    <3>1. PICK y \in User : x.users = {y}
      BY Zenon, <2>2, <2>3
    <3>2. u \in x.users
      BY Zenon, <3>1
    <3> QED BY Zenon, <3>1, <3>2
  <2> QED BY Zenon, <2>1, <2>3
<1>6. view[n] \in [User -> SUBSET User] /\ view \in [Node -> [User -> SUBSET User]]
      /\ blind \in [Node -> SUBSET User] /\ missed \in [Node -> [Node -> Nat]]
      /\ applied \in [Node -> [Node -> Nat]] /\ cache \in [Node -> [Node -> Entry]]
  BY Zenon, <1>3 DEF FleetTypeOK
<1>7. /\ view = [view EXCEPT ![n] = view[n]] /\ blind = [blind EXCEPT ![n] = blind[n]]
      /\ missed = [missed EXCEPT ![n][m] = missed[n][m]] /\ cache = [cache EXCEPT ![n] = cache[n]]
      /\ applied = [applied EXCEPT ![n][m] = applied[n][m]]
  <2>1. view = [view EXCEPT ![n] = view[n]] /\ blind = [blind EXCEPT ![n] = blind[n]]
    BY Zenon, <1>6, SameExcept
  <2>2. missed = [missed EXCEPT ![n][m] = missed[n][m]]
    BY <1>6, SameExceptAt
  <2>4. applied = [applied EXCEPT ![n][m] = applied[n][m]]
    BY <1>6, SameExceptAt
  <2>3. cache = [cache EXCEPT ![n] = cache[n]]
    BY Zenon, <1>6, SameExcept
  <2> QED BY Zenon, <2>1, <2>2, <2>3, <2>4
<1> HIDE DEF x, u
<1>8. CASE x.seq > applied[n][m] /\ x.type = "added"
  <2>1. /\ applied' = [applied EXCEPT ![n][m] = x.seq] /\ missed' = missed
        /\ ApplyMemberAdded(n, m, u) /\ u \in User /\ x.users = {u}
    BY Zenon, <1>2, <1>5, <1>8
  <2>2. PICK come : come = {u} \ (roster[n] \cup RemoteExcept(cache[n], m))
    BY Zenon
  <2>3. PICK d : d = AddLive(cache[n], m, u)
    BY Zenon
  <2>4. PICK w : w = Tell(n, roster[n], {}, come)
    BY Zenon
  <2>5. /\ cache' = [cache EXCEPT ![n] = d] /\ view' = [view EXCEPT ![n] = w]
        /\ blind' = [blind EXCEPT ![n] = blind[n]] /\ missed' = [missed EXCEPT ![n][m] = missed[n][m]]
    BY Zenon, <1>7, <2>1, <2>2, <2>3, <2>4 DEF ApplyMemberAdded
  <2>6. d \in [Node -> Entry]
    BY <1>4, <2>1, <2>3, AddLiveFacts
  <2>7. w \in [User -> SUBSET User]
    <3>1. come \in SUBSET User
      BY Zenon, <2>1, <2>2
    <3> QED BY <1>3, <2>4, <3>1, TellFacts
  <2>8. x.seq = Mark(x, applied[n][m]) /\ missed[n][m] = Left(x, applied[n][m], missed[n][m])
    BY <1>8 DEF Mark, Left
  <2>9. Received(n, m, d, w, blind[n])
    <3>1. x.seq = Mark(Head(net[m][n]), applied[n][m])
      BY Zenon, <2>8 DEF x
    <3>2. missed[n][m] = Left(Head(net[m][n]), applied[n][m], missed[n][m])
      BY Zenon, <2>8 DEF x
    <3> QED BY ZenonT(30), <1>2, <1>3, <1>4, <1>5, <2>1, <2>5, <2>6, <2>7, <3>1, <3>2, ReceivedIntro
  <2>10. /\ Head(net[m][n]).type = "added" /\ Head(net[m][n]).seq > applied[n][m]
         /\ Head(net[m][n]).users = {u}
    BY Zenon, <1>8, <2>1 DEF x
  <2>11. Received(n, m, AddLive(cache[n], m, u), Tell(n, roster[n], {}, come), blind[n])
    BY Zenon, <2>3, <2>4, <2>9
  <2> QED BY ZenonT(30), <1>2, <2>1, <2>2, <2>10, <2>11, AddedStep
<1>9. CASE x.seq > applied[n][m] /\ x.type = "removed"
  <2>1. /\ applied' = [applied EXCEPT ![n][m] = x.seq] /\ missed' = missed
        /\ ApplyMemberRemoved(n, m, u, x) /\ u \in User /\ x.users = {u}
    BY Zenon, <1>2, <1>5, <1>9
  <2>2. PICK d : d = RemoveLive(cache[n], m, u)
    BY Zenon
  <2>3. PICK gone : gone = {u} \ (roster[n] \cup Remote(d))
    BY Zenon
  <2>4. PICK w : w = Tell(n, roster[n], gone, {})
    BY Zenon
  <2>5. PICK unsure : unsure = blind[n] \cup (gone \cap Hidden(d))
    BY Zenon
  <2>6. /\ cache' = [cache EXCEPT ![n] = d] /\ view' = [view EXCEPT ![n] = w]
        /\ blind' = [blind EXCEPT ![n] = unsure] /\ missed' = [missed EXCEPT ![n][m] = missed[n][m]]
    BY Zenon, <1>7, <2>1, <2>2, <2>3, <2>4, <2>5 DEF ApplyMemberRemoved
  <2>7. d \in [Node -> Entry]
    BY <1>4, <2>1, <2>2, RemoveLiveFacts
  <2>8. w \in [User -> SUBSET User] /\ unsure \in SUBSET User
    <3>1. {} \in SUBSET User
      BY Zenon
    <3>2. unsure \in SUBSET User
      BY <1>4, <2>1, <2>3, <2>5
    <3> QED BY <1>3, <2>4, <3>1, <3>2, TellFacts
  <2>9. x.seq = Mark(x, applied[n][m]) /\ missed[n][m] = Left(x, applied[n][m], missed[n][m])
    BY <1>9 DEF Mark, Left
  <2>10. Received(n, m, d, w, unsure)
    <3>1. x.seq = Mark(Head(net[m][n]), applied[n][m])
      BY Zenon, <2>9 DEF x
    <3>2. missed[n][m] = Left(Head(net[m][n]), applied[n][m], missed[n][m])
      BY Zenon, <2>9 DEF x
    <3> QED BY ZenonT(30), <1>2, <1>3, <1>4, <1>5, <2>1, <2>6, <2>7, <2>8, <3>1, <3>2, ReceivedIntro
  <2>11. /\ Head(net[m][n]).type = "removed" /\ Head(net[m][n]).seq > applied[n][m]
         /\ Head(net[m][n]).users = {u}
    BY Zenon, <1>9, <2>1 DEF x
  <2>12. Received(n, m, d, Tell(n, roster[n], gone, {}), unsure)
    BY Zenon, <2>4, <2>10
  <2> QED BY ZenonT(30), <1>2, <2>1, <2>2, <2>3, <2>5, <2>11, <2>12, RemovedStep
<1>10. CASE x.seq > applied[n][m] /\ x.type = "snapshot"
  <2>1. /\ applied' = [applied EXCEPT ![n][m] = x.seq]
        /\ missed' = IF x.seq > missed[n][m] THEN [missed EXCEPT ![n][m] = 0] ELSE missed
        /\ ApplyPresenceSnapshot(n, m, x.users)
    BY Zenon, <1>2, <1>10
  <2>2. PICK d : d = InsertSnapshot(cache[n], m, x.users)
    BY Zenon
  <2>3. PICK gone : gone = (Announced(cache[n]) \ Announced(d)) \ roster[n]
    BY Zenon
  <2>4. PICK come : come = (Announced(d) \ Announced(cache[n])) \ roster[n]
    BY Zenon
  <2>5. PICK w : w = Tell(n, roster[n], gone, come)
    BY Zenon
  <2>6. PICK left : left = IF x.seq > missed[n][m] THEN 0 ELSE missed[n][m]
    BY Zenon
  <2>7. /\ cache' = [cache EXCEPT ![n] = d] /\ view' = [view EXCEPT ![n] = w]
        /\ blind' = [blind EXCEPT ![n] = blind[n]]
    BY Zenon, <1>7, <2>1, <2>2, <2>3, <2>4, <2>5 DEF ApplyPresenceSnapshot
  <2>8. missed' = [missed EXCEPT ![n][m] = left]
    BY Zenon, <1>7, <2>1, <2>6
  <2>9. d \in [Node -> Entry]
    BY <1>4, <1>5, <2>2, InsertFacts
  <2>10. w \in [User -> SUBSET User]
    <3>1. Announced(d) \subseteq User
      BY Zenon, <2>9, CacheSets
    <3>2. come \in SUBSET User
      BY Zenon, <2>4, <3>1
    <3> QED BY <1>3, <2>5, <3>2, TellFacts
  <2>11. x.seq = Mark(x, applied[n][m]) /\ left = Left(x, applied[n][m], missed[n][m]) /\ left \in Nat
    BY <1>4, <1>10, <2>6 DEF Mark, Left
  <2>12. Received(n, m, d, w, blind[n])
    <3>1. x.seq = Mark(Head(net[m][n]), applied[n][m])
      BY Zenon, <2>11 DEF x
    <3>2. left = Left(Head(net[m][n]), applied[n][m], missed[n][m])
      BY Zenon, <2>11 DEF x
    <3> QED BY ZenonT(30), <1>2, <1>3, <1>4, <1>5, <2>1, <2>7, <2>8, <2>9, <2>10, <2>11, <3>1, <3>2, ReceivedIntro
  <2>13. /\ Head(net[m][n]).type = "snapshot" /\ Head(net[m][n]).seq > applied[n][m]
         /\ d = InsertSnapshot(cache[n], m, Head(net[m][n]).users)
    BY Zenon, <1>10, <2>2 DEF x
  <2>14. Received(n, m, d, Tell(n, roster[n], gone, come), blind[n])
    BY Zenon, <2>5, <2>12
  <2> QED BY ZenonT(30), <1>2, <2>3, <2>4, <2>13, <2>14, SnapshotStep
<1>11. CASE ~(x.seq > applied[n][m])
  <2>1. /\ cache' = IF x.type = "snapshot" THEN [cache EXCEPT ![n] = Touch(@, m)] ELSE cache
        /\ applied' = applied /\ view' = view /\ missed' = missed /\ blind' = blind
    BY Zenon, <1>2, <1>11
  <2>2. PICK d : d = IF x.type = "snapshot" THEN Touch(cache[n], m) ELSE cache[n]
    BY Zenon
  <2>3. /\ cache' = [cache EXCEPT ![n] = d] /\ view' = [view EXCEPT ![n] = view[n]]
        /\ blind' = [blind EXCEPT ![n] = blind[n]]
    BY Zenon, <1>7, <2>1, <2>2
  <2>4. /\ applied' = [applied EXCEPT ![n][m] = applied[n][m]]
        /\ missed' = [missed EXCEPT ![n][m] = missed[n][m]]
    BY Zenon, <1>7, <2>1
  <2>5. d = cache[n] \/ d = Touch(cache[n], m)
    BY Zenon, <2>2
  <2>6. d \in [Node -> Entry]
    BY ZenonT(30), <1>4, <2>5, TouchFacts
  <2>7. applied[n][m] = Mark(x, applied[n][m]) /\ missed[n][m] = Left(x, applied[n][m], missed[n][m])
    BY <1>11 DEF Mark, Left
  <2>8. Received(n, m, d, view[n], blind[n])
    <3>1. applied[n][m] = Mark(Head(net[m][n]), applied[n][m])
      BY Zenon, <2>7 DEF x
    <3>2. missed[n][m] = Left(Head(net[m][n]), applied[n][m], missed[n][m])
      BY Zenon, <2>7 DEF x
    <3> QED BY ZenonT(30), <1>2, <1>3, <1>4, <1>6, <2>3, <2>4, <2>6, <3>1, <3>2, ReceivedIntro
  <2>9. ~(Head(net[m][n]).seq > applied[n][m])
    BY Zenon, <1>11 DEF x
  <2> QED BY <1>2, <2>5, <2>8, <2>9, RejectedStep
<1> QED BY Zenon, <1>2, <1>8, <1>9, <1>10, <1>11

(***************************************************************************)
(* What is lost, and what passes its TTL                                   *)
(***************************************************************************)

\* A message is lost on its way to one node.
LEMMA LoseStep ==
    ASSUME FleetInv, NEW m \in Node, NEW n \in Node
    PROVE  Lose(m, n) => FleetInv'
<1>0. SUFFICES ASSUME Lose(m, n) PROVE FleetInv'
  BY Zenon
<1>1. FleetTypeOK /\ AbsentInv /\ PairsInv /\ ViewInv
  BY Zenon DEF FleetInv
<1>2. /\ net[m][n] # <<>>
      /\ net' = [net EXCEPT ![m][n] = Tail(net[m][n])]
      /\ missed' = [missed EXCEPT ![n][m] = IF Head(net[m][n]).seq > missed[n][m]
                                            THEN Head(net[m][n]).seq ELSE missed[n][m]]
      /\ UNCHANGED <<up, fresh, roster, seq, hand, snap, cache, applied, view, blind>>
  BY Zenon, <1>0 DEF Lose
<1>3. n \in up /\ m # n /\ m \notin fresh
  BY Zenon, <1>1, <1>2 DEF AbsentInv
<1>4. /\ up \subseteq Node /\ fresh \subseteq Node
      /\ net \in [Node -> [Node -> Seq(Message)]] /\ missed \in [Node -> [Node -> Nat]]
  BY Zenon, <1>1 DEF FleetTypeOK
<1>5. net[m][n] \in Seq(Message) /\ missed[n][m] \in Nat
  BY Zenon, <1>1, PairTyped
<1>6. Tail(net[m][n]) \in Seq(Message) /\ Head(net[m][n]).seq \in Nat
  BY Zenon, <1>2, <1>5, TailFacts DEF Message
<1>7. PICK t \in Seq(Message) : t = Tail(net[m][n])
  BY Zenon, <1>6
<1>8. PICK left \in Nat : left = IF Head(net[m][n]).seq > missed[n][m]
                                 THEN Head(net[m][n]).seq ELSE missed[n][m]
  BY Zenon, <1>5, <1>6
<1>9. net' \in [Node -> [Node -> Seq(Message)]] /\ ChangesAt(net, net', m, n, t)
  <2>1. net' = [net EXCEPT ![m][n] = t]
    BY Zenon, <1>2, <1>7
  <2>2. /\ [net EXCEPT ![m][n] = t] \in [Node -> [Node -> Seq(Message)]]
        /\ ChangesAt(net, [net EXCEPT ![m][n] = t], m, n, t)
    BY Zenon, <1>4, ExceptAt
  <2> QED BY Zenon, <2>1, <2>2
<1>10. missed' \in [Node -> [Node -> Nat]] /\ ChangesAt(missed, missed', n, m, left)
  <2>1. missed' = [missed EXCEPT ![n][m] = left]
    BY Zenon, <1>2, <1>8
  <2>2. /\ [missed EXCEPT ![n][m] = left] \in [Node -> [Node -> Nat]]
        /\ ChangesAt(missed, [missed EXCEPT ![n][m] = left], n, m, left)
    BY Zenon, <1>4, ExceptAt
  <2> QED BY Zenon, <2>1, <2>2
<1>11. /\ net'[m][n] = t /\ \A k \in Node : k # n => net'[m][k] = net[m][k]
       /\ \A l, k \in Node : l # m => net'[l][k] = net[l][k]
  BY Zenon, <1>9 DEF ChangesAt
<1>12. /\ missed'[n][m] = left /\ \A k \in Node : k # m => missed'[n][k] = missed[n][k]
       /\ \A k \in Node : k # n => missed'[k] = missed[k]
  BY Zenon, <1>10 DEF ChangesAt
<1>13. FleetTypeOK'
  BY Zenon, <1>1, <1>2, <1>9, <1>10 DEF FleetTypeOK
<1>14. AbsentInv' /\ PairsInv'
  <2>1. ASSUME NEW l \in up, l # n
        PROVE  PairOf(n, l)'
    <3>1. CASE l = m
      <4>1. /\ PairType(Stream(m, n), applied[n][m], missed[n][m], seq[m], roster[m], cache[n][m], snap[m])
            /\ Pair(Stream(m, n), applied[n][m], missed[n][m], seq[m], roster[m], cache[n][m], snap[m])
        BY Zenon, <1>1, <1>3, <2>1, <3>1, PairTyped DEF PairsInv, PairOf
      <4>2. hand[m] \in Seq(Message)
        BY Zenon, <1>1, PairTyped
      <4>3. /\ Stream(m, n) # <<>> /\ Head(Stream(m, n)) = Head(net[m][n])
            /\ Tail(Stream(m, n)) = With(Tail(net[m][n]), hand[m])
        BY Zenon, <1>2, <1>5, <4>2, WithFacts DEF Stream
      <4>4. Pair(Tail(Stream(m, n)), applied[n][m], left, seq[m], roster[m], cache[n][m], snap[m])
        BY Zenon, <1>8, <4>1, <4>3, PairLose
      <4>5. Stream(m, n)' = Tail(Stream(m, n))
        BY Zenon, <1>2, <1>7, <1>11, <4>3 DEF Stream
      <4>6. PairOf(n, m)'
        BY ZenonT(30), <1>2, <1>12, <4>4, <4>5 DEF PairOf
      <4> QED BY Zenon, <3>1, <4>6
    <3>2. CASE l # m
      <4>1. l \in Node
        BY Zenon, <1>4
      <4>2. net'[l][n] = net[l][n] /\ missed'[n][l] = missed[n][l]
        BY Zenon, <1>11, <1>12, <3>2, <4>1
      <4> QED BY Zenon, <1>1, <1>2, <1>3, <2>1, <4>2, PairFrame
    <3> QED BY Zenon, <3>1, <3>2
  <2>2. net'[n][n] = <<>> /\ cache'[n][n] = NoEntry
    <3>1. net[n][n] = <<>> /\ cache[n][n] = NoEntry
      BY Zenon, <1>1 DEF AbsentInv
    <3>2. net'[n][n] = net[n][n] /\ cache'[n][n] = cache[n][n]
      BY Zenon, <1>2, <1>3, <1>11
    <3> QED BY Zenon, <3>1, <3>2
  <2>3. ASSUME NEW l \in fresh
        PROVE  net'[l][n] = <<>> /\ cache'[n][l] = NoEntry /\ applied'[n][l] = 0 /\ missed'[n][l] = 0
    <3>1. net[l][n] = <<>> /\ cache[n][l] = NoEntry /\ applied[n][l] = 0 /\ missed[n][l] = 0
      BY Zenon, <1>1 DEF AbsentInv
    <3>2. l \in Node /\ l # m
      BY Zenon, <1>3, <1>4
    <3>3. net'[l][n] = net[l][n] /\ missed'[n][l] = missed[n][l]
      BY Zenon, <1>11, <1>12, <3>2
    <3> QED BY Zenon, <1>2, <3>1, <3>3
  <2>4. \A k, l \in Node : k # n => net'[l][k] = net[l][k]
    BY Zenon, <1>11
  <2>5. \A k \in Node : k # n =>
            cache'[k] = cache[k] /\ applied'[k] = applied[k] /\ missed'[k] = missed[k]
    BY Zenon, <1>2, <1>12
  <2>6. \A l \in up : l # n => PairOf(n, l)'
    BY Zenon, <2>1
  <2>7. \A l \in fresh : /\ net'[l][n] = <<>> /\ cache'[n][l] = NoEntry
                         /\ applied'[n][l] = 0 /\ missed'[n][l] = 0
    BY Zenon, <2>3
  <2>8. UNCHANGED <<up, fresh, roster, seq, hand, snap>>
    BY Zenon, <1>2
  <2> QED BY Zenon, <1>1, <1>3, <2>2, <2>4, <2>5, <2>6, <2>7, <2>8, ReceiverKeeps
<1>15. ViewInv'
  BY Zenon, <1>1, <1>2 DEF ViewInv
<1> QED BY Zenon, <1>13, <1>14, <1>15 DEF FleetInv

\* An entry passes its TTL.
LEMMA ExpireStep ==
    ASSUME FleetInv, NEW n \in Node, NEW m \in Node
    PROVE  Expire(n, m) => FleetInv'
<1>0. SUFFICES ASSUME Expire(n, m) PROVE FleetInv'
  BY Zenon
<1>1. FleetTypeOK /\ AbsentInv /\ PairsInv /\ ViewInv
  BY Zenon DEF FleetInv
<1>2. /\ n \in up /\ cache[n][m].age = "live"
      /\ m \in up => missed[n][m] > 0 \/ (roster[m] = {} /\ Stream(m, n) = <<>>)
      /\ cache' = [cache EXCEPT ![n] = [cache[n] EXCEPT ![m].age = "expired"]]
      /\ UNCHANGED <<up, fresh, roster, seq, hand, snap, net, applied, missed, view, blind>>
  BY Zenon, <1>0 DEF Expire, Silent, Heard, Stream, With, history
<1>3. /\ up \subseteq Node /\ fresh \subseteq Node
      /\ cache \in [Node -> [Node -> Entry]] /\ cache[n] \in [Node -> Entry]
  BY Zenon, <1>1 DEF FleetTypeOK
<1>4. m # n /\ m \notin fresh
  <2>1. NoEntry.age # "live"
    BY DEF NoEntry
  <2>2. cache[n][n] = NoEntry /\ (m \in fresh => cache[n][m] = NoEntry)
    BY Zenon, <1>1 DEF AbsentInv
  <2>3. cache[n][m] # NoEntry
    BY <1>2, <2>1
  <2> QED BY Zenon, <2>2, <2>3
<1>5. PICK d : d = [cache[n] EXCEPT ![m].age = "expired"]
  BY Zenon
<1>6. /\ d \in [Node -> Entry] /\ \A k \in Node : k # m => d[k] = cache[n][k]
      /\ d[m].age = "expired" /\ d[m].users = cache[n][m].users
      /\ Announced(d) = Announced(cache[n])
  <2>1. PICK a \in Age : a = "expired"
    BY Zenon DEF Age
  <2>2. d = Aged(cache[n], m, a)
    BY Zenon, <1>5, <2>1 DEF Aged
  <2>3. d \in [Node -> Entry] /\ \A k \in Node : k # m => d[k] = cache[n][k]
    BY ZenonT(40), <1>3, <2>2, AgeFacts
  <2>4. d[m].age = a /\ d[m].users = cache[n][m].users
    BY <1>3, <2>2, AgeFacts
  <2>5. \A y : y \in Announced(d) <=> y \in Announced(cache[n])
    BY Zenon, <1>3, <2>2, AgeFacts
  <2>6. Announced(d) = Announced(cache[n])
    BY Zenon, <2>5
  <2> QED BY Zenon, <2>1, <2>3, <2>4, <2>6
<1>7. cache' \in [Node -> [Node -> Entry]] /\ RowIs(cache, cache', n, d)
  <2>1. cache' = [cache EXCEPT ![n] = d]
    BY Zenon, <1>2, <1>5
  <2>2. [cache EXCEPT ![n] = d] \in [Node -> [Node -> Entry]] /\ RowIs(cache, [cache EXCEPT ![n] = d], n, d)
    BY Zenon, <1>3, <1>6, ExceptRow
  <2> QED BY Zenon, <2>1, <2>2
<1>8. cache'[n] = d /\ \A k \in Node : k # n => cache'[k] = cache[k]
  BY Zenon, <1>7 DEF RowIs
<1>9. FleetTypeOK'
  BY Zenon, <1>1, <1>2, <1>7 DEF FleetTypeOK
<1>10. AbsentInv' /\ PairsInv'
  <2>1. ASSUME NEW l \in up, l # n
        PROVE  PairOf(n, l)'
    <3>1. CASE l = m
      <4>1. /\ PairType(Stream(m, n), applied[n][m], missed[n][m], seq[m], roster[m], cache[n][m], snap[m])
            /\ Pair(Stream(m, n), applied[n][m], missed[n][m], seq[m], roster[m], cache[n][m], snap[m])
        BY Zenon, <1>1, <1>2, <2>1, <3>1, PairTyped DEF PairsInv, PairOf
      <4>2. missed[n][m] > 0 \/ (roster[m] = {} /\ Stream(m, n) = <<>>)
        BY Zenon, <1>2, <2>1, <3>1
      <4>3. Pair(Stream(m, n), applied[n][m], missed[n][m], seq[m], roster[m], d[m], snap[m])
        BY Zenon, <1>6, <4>1, <4>2, PairExpire
      <4>4. PairOf(n, m)'
        BY Zenon, <1>2, <1>8, <4>3 DEF PairOf, Stream
      <4> QED BY Zenon, <3>1, <4>4
    <3>2. CASE l # m
      <4>1. cache'[n][l] = cache[n][l]
        BY Zenon, <1>3, <1>6, <1>8, <3>2
      <4> QED BY Zenon, <1>1, <1>2, <2>1, <4>1, PairFrame
    <3> QED BY Zenon, <3>1, <3>2
  <2>2. net'[n][n] = <<>> /\ cache'[n][n] = NoEntry
    <3>1. net[n][n] = <<>> /\ cache[n][n] = NoEntry
      BY Zenon, <1>1 DEF AbsentInv
    <3>2. net'[n][n] = net[n][n] /\ cache'[n][n] = cache[n][n]
      BY Zenon, <1>2, <1>4, <1>6, <1>8
    <3> QED BY Zenon, <3>1, <3>2
  <2>3. ASSUME NEW l \in fresh
        PROVE  net'[l][n] = <<>> /\ cache'[n][l] = NoEntry /\ applied'[n][l] = 0 /\ missed'[n][l] = 0
    <3>1. net[l][n] = <<>> /\ cache[n][l] = NoEntry /\ applied[n][l] = 0 /\ missed[n][l] = 0
      BY Zenon, <1>1 DEF AbsentInv
    <3>2. l \in Node /\ l # m
      BY Zenon, <1>3, <1>4
    <3>3. cache'[n][l] = cache[n][l]
      BY Zenon, <1>6, <1>8, <3>2
    <3> QED BY Zenon, <1>2, <3>1, <3>3
  <2>4. \A k, l \in Node : k # n => net'[l][k] = net[l][k]
    BY Zenon, <1>2
  <2>5. \A k \in Node : k # n =>
            cache'[k] = cache[k] /\ applied'[k] = applied[k] /\ missed'[k] = missed[k]
    BY Zenon, <1>2, <1>8
  <2>6. \A l \in up : l # n => PairOf(n, l)'
    BY Zenon, <2>1
  <2>7. \A l \in fresh : /\ net'[l][n] = <<>> /\ cache'[n][l] = NoEntry
                         /\ applied'[n][l] = 0 /\ missed'[n][l] = 0
    BY Zenon, <2>3
  <2>8. UNCHANGED <<up, fresh, roster, seq, hand, snap>>
    BY Zenon, <1>2
  <2> QED BY Zenon, <1>1, <1>2, <2>2, <2>4, <2>5, <2>6, <2>7, <2>8, ReceiverKeeps
<1>11. ViewInv'
  <2>1. ASSUME NEW u \in roster[n]
        PROVE  Sees(view[n][u], roster[n], Announced(d), blind[n])
    BY Zenon, <1>1, <1>2, <1>6 DEF ViewInv
  <2>2. \A u \in roster'[n] : Sees(view'[n][u], roster'[n], Announced(cache'[n]), blind'[n])
    BY Zenon, <1>2, <1>8, <2>1
  <2>3. \A k \in up : k # n => /\ roster'[k] = roster[k] /\ view'[k] = view[k]
                               /\ cache'[k] = cache[k] /\ blind'[k] = blind[k]
    BY Zenon, <1>2, <1>3, <1>8
  <2>4. up' \subseteq up
    BY Zenon, <1>2
  <2> QED BY Zenon, <1>1, <2>2, <2>3, <2>4, ViewFrame
<1> QED BY Zenon, <1>9, <1>10, <1>11 DEF FleetInv

\* The cache after the GC pass names no more users than before.
LEMMA ReapedFacts ==
    ASSUME NEW c \in [Node -> Entry]
    PROVE  /\ Reaped(c) \in [Node -> Entry] /\ Announced(Reaped(c)) \subseteq Announced(c)
           /\ \A m \in Node : Reaped(c)[m] = IF c[m].age = "expired" THEN NoEntry ELSE c[m]
<1>1. NoEntry \in Entry /\ NoEntry.users = {}
  BY DEF NoEntry, Entry
<1>2. PICK d : d = Reaped(c)
  BY Zenon
<1>3. d \in [Node -> Entry] /\ \A m \in Node : d[m] = IF c[m].age = "expired" THEN NoEntry ELSE c[m]
  BY Zenon, <1>1, <1>2 DEF Reaped
<1>4. Announced(d) \subseteq Announced(c)
  <2>1. \A y : y \in Announced(d) <=> \E k \in Node : y \in d[k].users
    BY Zenon, <1>3, CacheSets
  <2>2. \A y : y \in Announced(c) <=> \E k \in Node : y \in c[k].users
    BY Zenon, CacheSets
  <2>3. \A k \in Node : d[k] = NoEntry \/ d[k] = c[k]
    BY Zenon, <1>3
  <2> QED BY Zenon, <1>1, <2>1, <2>2, <2>3
<1> QED BY Zenon, <1>2, <1>3, <1>4

\* The GC pass: it announces who is gone with the entries past their TTL.
LEMMA GcStep ==
    ASSUME FleetInv, NEW n \in Node
    PROVE  GcPass(n) => FleetInv'
<1>0. SUFFICES ASSUME GcPass(n) PROVE FleetInv'
  BY Zenon
<1>1. FleetTypeOK /\ AbsentInv /\ PairsInv /\ ViewInv
  BY Zenon DEF FleetInv
<1>2. PICK d : d = Reaped(cache[n])
  BY Zenon
<1>3. PICK gone : gone = IF roster[n] = {} THEN {} ELSE (Announced(cache[n]) \ Announced(d)) \ roster[n]
  BY Zenon
<1>4. PICK w : w = Tell(n, roster[n], gone, {})
  BY Zenon
<1>5. PICK unsure : unsure = blind[n] \cap (Announced(d) \cup roster[n])
  BY Zenon
<1>6. PICK marks : marks = [m \in Node |-> IF Silent(n, m) /\ m \notin seen[n] THEN 0 ELSE applied[n][m]]
  BY Zenon
<1>7. /\ n \in up
      /\ cache' = [cache EXCEPT ![n] = d] /\ view' = [view EXCEPT ![n] = w]
      /\ blind' = [blind EXCEPT ![n] = unsure] /\ applied' = [applied EXCEPT ![n] = marks]
      /\ UNCHANGED <<up, fresh, roster, seq, hand, snap, net, missed>>
  BY Zenon, <1>0, <1>2, <1>3, <1>4, <1>5, <1>6 DEF GcPass, GcGone
<1>8. /\ up \subseteq Node /\ fresh \subseteq Node
      /\ cache \in [Node -> [Node -> Entry]] /\ cache[n] \in [Node -> Entry]
      /\ applied \in [Node -> [Node -> Nat]] /\ applied[n] \in [Node -> Nat]
      /\ view \in [Node -> [User -> SUBSET User]]
      /\ blind \in [Node -> SUBSET User] /\ blind[n] \in SUBSET User /\ roster[n] \in SUBSET User
  BY Zenon, <1>1 DEF FleetTypeOK
<1>9. /\ d \in [Node -> Entry] /\ Announced(d) \subseteq Announced(cache[n])
      /\ \A m \in Node : d[m] = IF cache[n][m].age = "expired" THEN NoEntry ELSE cache[n][m]
  BY Zenon, <1>2, <1>8, ReapedFacts
<1>10. w \in [User -> SUBSET User] /\ \A v \in User : v \in roster[n] => w[v] = (view[n][v] \ gone) \cup {}
  <2>1. {} \in SUBSET User
    BY Zenon
  <2> QED BY <1>1, <1>4, <2>1, TellFacts
<1>11. unsure \in SUBSET User
  BY Zenon, <1>5, <1>8
<1>12. /\ marks \in [Node -> Nat]
       /\ \A m \in Node : marks[m] = applied[n][m] \/ (Silent(n, m) /\ marks[m] = 0)
  <2>1. \A m \in Node : applied[n][m] \in Nat
    BY Zenon, <1>8
  <2>2. 0 \in Nat
    OBVIOUS
  <2> QED BY Zenon, <1>6, <2>1, <2>2
<1>13. cache' \in [Node -> [Node -> Entry]] /\ RowIs(cache, cache', n, d)
  <2>1. [cache EXCEPT ![n] = d] \in [Node -> [Node -> Entry]] /\ RowIs(cache, [cache EXCEPT ![n] = d], n, d)
    BY Zenon, <1>8, <1>9, ExceptRow
  <2> QED BY Zenon, <1>7, <2>1
<1>14. view' \in [Node -> [User -> SUBSET User]] /\ RowIs(view, view', n, w)
  <2>1. [view EXCEPT ![n] = w] \in [Node -> [User -> SUBSET User]] /\ RowIs(view, [view EXCEPT ![n] = w], n, w)
    BY Zenon, <1>8, <1>10, ExceptRow
  <2> QED BY Zenon, <1>7, <2>1
<1>15. blind' \in [Node -> SUBSET User] /\ RowIs(blind, blind', n, unsure)
  <2>1. [blind EXCEPT ![n] = unsure] \in [Node -> SUBSET User] /\ RowIs(blind, [blind EXCEPT ![n] = unsure], n, unsure)
    BY Zenon, <1>8, <1>11, ExceptRow
  <2> QED BY Zenon, <1>7, <2>1
<1>16. applied' \in [Node -> [Node -> Nat]] /\ RowIs(applied, applied', n, marks)
  <2>1. [applied EXCEPT ![n] = marks] \in [Node -> [Node -> Nat]] /\ RowIs(applied, [applied EXCEPT ![n] = marks], n, marks)
    BY Zenon, <1>8, <1>12, ExceptRow
  <2> QED BY Zenon, <1>7, <2>1
<1>17. /\ cache'[n] = d /\ view'[n] = w /\ blind'[n] = unsure /\ applied'[n] = marks
       /\ \A k \in Node : k # n => /\ cache'[k] = cache[k] /\ view'[k] = view[k]
                                   /\ blind'[k] = blind[k] /\ applied'[k] = applied[k]
  BY Zenon, <1>13, <1>14, <1>15, <1>16 DEF RowIs
<1>18. /\ n \in up /\ up' = up /\ fresh' = fresh /\ roster' = roster /\ seq' = seq /\ hand' = hand /\ snap' = snap
       /\ net' = net /\ missed' = missed
  BY Zenon, <1>7
<1>19. FleetTypeOK'
  BY Zenon, <1>1, <1>13, <1>14, <1>15, <1>16, <1>18 DEF FleetTypeOK
<1>20. AbsentInv' /\ PairsInv'
  <2>1. ASSUME NEW m \in up, m # n
        PROVE  PairOf(n, m)'
    <3>1. m \in Node
      BY Zenon, <1>8
    <3>2. /\ PairType(Stream(m, n), applied[n][m], missed[n][m], seq[m], roster[m], cache[n][m], snap[m])
          /\ Pair(Stream(m, n), applied[n][m], missed[n][m], seq[m], roster[m], cache[n][m], snap[m])
      BY Zenon, <1>1, <1>18, <2>1, <3>1, PairTyped DEF PairsInv, PairOf
    <3>3. Pair(Stream(m, n), applied[n][m], missed[n][m], seq[m], roster[m], d[m], snap[m])
      <4>1. CASE cache[n][m].age = "expired"
        <5>1. d[m] = NoEntry
          BY Zenon, <1>9, <3>1, <4>1
        <5> QED BY Zenon, <3>2, <4>1, <5>1, PairReap
      <4>2. CASE cache[n][m].age # "expired"
        <5>1. d[m] = cache[n][m]
          BY Zenon, <1>9, <3>1, <4>2
        <5> QED BY Zenon, <3>2, <5>1
      <4> QED BY Zenon, <4>1, <4>2
    <3>4. Pair(Stream(m, n), marks[m], missed[n][m], seq[m], roster[m], d[m], snap[m])
      <4>1. CASE marks[m] = applied[n][m]
        BY Zenon, <3>3, <4>1
      <4>2. CASE Silent(n, m) /\ marks[m] = 0
        <5>1. Stream(m, n) = <<>> /\ snap[m].step = "idle" /\ missed[n][m] > 0
          <6>1. Stream(m, n) = <<>> /\ snap[m] = Idle /\ missed[n][m] > 0
            BY Zenon, <2>1, <4>2 DEF Silent, Heard, Stream, With
          <6>2. Idle.step = "idle"
            BY Zenon DEF Idle
          <6> QED BY Zenon, <6>1, <6>2
        <5>2. PairType(<<>>, applied[n][m], missed[n][m], seq[m], roster[m], d[m], snap[m])
          <6>1. d[m] \in Entry
            BY Zenon, <1>9, <3>1
          <6> QED BY Zenon, <3>2, <5>1, <6>1 DEF PairType
        <5>3. Pair(<<>>, applied[n][m], missed[n][m], seq[m], roster[m], d[m], snap[m])
          BY Zenon, <3>3, <5>1
        <5>4. Pair(<<>>, 0, missed[n][m], seq[m], roster[m], d[m], snap[m])
          BY Zenon, <5>1, <5>2, <5>3, PairForget
        <5> QED BY Zenon, <4>2, <5>1, <5>4
      <4> QED BY Zenon, <1>12, <3>1, <4>1, <4>2
    <3> QED BY Zenon, <1>17, <1>18, <3>4 DEF PairOf, Stream
  <2>2. net'[n][n] = <<>> /\ cache'[n][n] = NoEntry
    <3>1. net[n][n] = <<>> /\ cache[n][n] = NoEntry
      BY Zenon, <1>1 DEF AbsentInv
    <3> QED BY Zenon, <1>9, <1>17, <1>18, <3>1
  <2>3. ASSUME NEW l \in fresh
        PROVE  net'[l][n] = <<>> /\ cache'[n][l] = NoEntry /\ applied'[n][l] = 0 /\ missed'[n][l] = 0
    <3>1. net[l][n] = <<>> /\ cache[n][l] = NoEntry /\ applied[n][l] = 0 /\ missed[n][l] = 0
      BY Zenon, <1>1 DEF AbsentInv
    <3>2. d[l] = NoEntry /\ marks[l] = 0
      BY Zenon, <1>8, <1>9, <1>12, <3>1
    <3> QED BY Zenon, <1>17, <1>18, <3>1, <3>2
  <2>4. \A k, l \in Node : k # n => net'[l][k] = net[l][k]
    BY Zenon, <1>18
  <2>5. \A k \in Node : k # n =>
            cache'[k] = cache[k] /\ applied'[k] = applied[k] /\ missed'[k] = missed[k]
    BY Zenon, <1>17, <1>18
  <2>6. \A l \in up : l # n => PairOf(n, l)'
    BY Zenon, <2>1
  <2>7. \A l \in fresh : /\ net'[l][n] = <<>> /\ cache'[n][l] = NoEntry
                         /\ applied'[n][l] = 0 /\ missed'[n][l] = 0
    BY Zenon, <2>3
  <2>8. UNCHANGED <<up, fresh, roster, seq, hand, snap>>
    BY Zenon, <1>18
  <2> QED BY Zenon, <1>1, <1>18, <2>2, <2>4, <2>5, <2>6, <2>7, <2>8, ReceiverKeeps
<1>21. ViewInv'
  <2>1. ASSUME NEW v \in roster[n]
        PROVE  Sees(w[v], roster[n], Announced(d), unsure)
    <3>1. Sees(view[n][v], roster[n], Announced(cache[n]), blind[n])
      BY Zenon, <1>1, <1>18 DEF ViewInv
    <3>2. w[v] = (view[n][v] \ gone) \cup {}
      BY Zenon, <1>8, <1>10
    <3>3. gone = (Announced(cache[n]) \ Announced(d)) \ roster[n]
      BY Zenon, <1>3
    <3> QED BY <1>5, <1>9, <3>1, <3>2, <3>3 DEF Sees
  <2>2. \A u \in roster'[n] : Sees(view'[n][u], roster'[n], Announced(cache'[n]), blind'[n])
    BY Zenon, <1>17, <1>18, <2>1
  <2>3. \A k \in up : k # n => /\ roster'[k] = roster[k] /\ view'[k] = view[k]
                               /\ cache'[k] = cache[k] /\ blind'[k] = blind[k]
    BY Zenon, <1>8, <1>17, <1>18
  <2>4. up' \subseteq up
    BY Zenon, <1>18
  <2> QED BY Zenon, <1>1, <2>2, <2>3, <2>4, ViewFrame
<1> QED BY Zenon, <1>19, <1>20, <1>21 DEF FleetInv

(***************************************************************************)
(* Crashes and starts                                                      *)
(***************************************************************************)

\* A node crashes: what it had and what was on its way to it are gone.
LEMMA CrashStep ==
    ASSUME FleetInv, NEW n \in Node
    PROVE  Crash(n) => FleetInv'
<1>0. SUFFICES ASSUME Crash(n) PROVE FleetInv'
  BY Zenon
<1>1. FleetTypeOK /\ AbsentInv /\ PairsInv /\ ViewInv
  BY Zenon DEF FleetInv
<1>2. /\ up \subseteq Node /\ fresh \subseteq Node \ up
      /\ roster \in [Node -> SUBSET User] /\ snap \in [Node -> Snap]
      /\ net \in [Node -> [Node -> Seq(Message)]] /\ cache \in [Node -> [Node -> Entry]]
      /\ applied \in [Node -> [Node -> Nat]] /\ missed \in [Node -> [Node -> Nat]]
      /\ view \in [Node -> [User -> SUBSET User]] /\ blind \in [Node -> SUBSET User]
  BY Zenon, <1>1 DEF FleetTypeOK
<1>3. n \in up /\ up' = up \ {n} /\ fresh' = fresh /\ seq' = seq
  BY Zenon, <1>0 DEF Crash
<1>4. Idle \in Snap /\ Idle.step = "idle" /\ NoEntry \in Entry /\ 0 \in Nat /\ <<>> \in Seq(Message)
  BY DEF Idle, Snap, NoEntry, Entry
<1>5. roster' \in [Node -> SUBSET User] /\ roster'[n] = {} /\ \A k \in Node : k # n => roster'[k] = roster[k]
  BY Zenon, <1>0, <1>2 DEF Crash
<1>15. /\ hand' \in [Node -> Seq(Message)] /\ hand'[n] = <<>> /\ \A k \in Node : k # n => hand'[k] = hand[k]
       /\ \A k \in Node : Len(hand'[k]) <= 1
  <2>1. hand \in [Node -> Seq(Message)] /\ \A k \in Node : Len(hand[k]) <= 1
    BY Zenon, <1>1 DEF FleetTypeOK
  <2>2. hand' = [hand EXCEPT ![n] = <<>>]
    BY Zenon, <1>0 DEF Crash
  <2>3. hand' \in [Node -> Seq(Message)] /\ hand'[n] = <<>> /\ \A k \in Node : k # n => hand'[k] = hand[k]
    BY Zenon, <1>4, <2>1, <2>2
  <2>4. Len(<<>>) <= 1
    OBVIOUS
  <2> QED BY Zenon, <2>1, <2>3, <2>4
<1>6. snap' \in [Node -> Snap] /\ snap'[n] = Idle /\ \A k \in Node : k # n => snap'[k] = snap[k]
  BY Zenon, <1>0, <1>2, <1>4 DEF Crash
<1>7. /\ net' \in [Node -> [Node -> Seq(Message)]]
      /\ \A m \in Node : net'[m][n] = <<>> /\ \A k \in Node : k # n => net'[m][k] = net[m][k]
  <2>1. net' = [m \in Node |-> [net[m] EXCEPT ![n] = <<>>]]
    BY Zenon, <1>0 DEF Crash
  <2>2. ASSUME NEW m \in Node
        PROVE  /\ net'[m] \in [Node -> Seq(Message)] /\ net'[m][n] = <<>>
               /\ \A k \in Node : k # n => net'[m][k] = net[m][k]
    <3>1. net'[m] = [net[m] EXCEPT ![n] = <<>>] /\ net[m] \in [Node -> Seq(Message)]
      BY Zenon, <1>2, <2>1
    <3> QED BY Zenon, <1>4, <3>1
  <2>3. net' \in [Node -> [Node -> Seq(Message)]]
    BY <2>1, <2>2
  <2> QED BY Zenon, <2>2, <2>3
<1>8. /\ cache' \in [Node -> [Node -> Entry]] /\ \A m \in Node : cache'[n][m] = NoEntry
      /\ \A k \in Node : k # n => cache'[k] = cache[k]
  <2>1. PICK f : f = [m \in Node |-> NoEntry]
    BY Zenon
  <2>2. f \in [Node -> Entry] /\ \A m \in Node : f[m] = NoEntry
    BY Zenon, <1>4, <2>1
  <2>3. cache' = [cache EXCEPT ![n] = f]
    BY Zenon, <1>0, <2>1 DEF Crash
  <2>4. cache' \in [Node -> [Node -> Entry]] /\ cache'[n] = f /\ \A k \in Node : k # n => cache'[k] = cache[k]
    BY Zenon, <1>2, <2>2, <2>3
  <2> QED BY Zenon, <2>2, <2>4
<1>9. /\ applied' \in [Node -> [Node -> Nat]] /\ missed' \in [Node -> [Node -> Nat]]
      /\ \A m \in Node : applied'[n][m] = 0 /\ missed'[n][m] = 0
      /\ \A k \in Node : k # n => applied'[k] = applied[k] /\ missed'[k] = missed[k]
  <2>1. PICK f : f = [m \in Node |-> 0]
    BY Zenon
  <2>2. f \in [Node -> Nat] /\ \A m \in Node : f[m] = 0
    BY Zenon, <1>4, <2>1
  <2>3. applied' = [applied EXCEPT ![n] = f] /\ missed' = [missed EXCEPT ![n] = f]
    BY Zenon, <1>0, <2>1 DEF Crash
  <2>4. applied' \in [Node -> [Node -> Nat]] /\ applied'[n] = f /\ \A k \in Node : k # n => applied'[k] = applied[k]
    BY Zenon, <1>2, <2>2, <2>3
  <2>5. missed' \in [Node -> [Node -> Nat]] /\ missed'[n] = f /\ \A k \in Node : k # n => missed'[k] = missed[k]
    BY Zenon, <1>2, <2>2, <2>3
  <2> QED BY Zenon, <2>2, <2>4, <2>5
<1>10. /\ view' \in [Node -> [User -> SUBSET User]] /\ blind' \in [Node -> SUBSET User]
       /\ \A k \in Node : k # n => view'[k] = view[k] /\ blind'[k] = blind[k]
  <2>1. [u \in User |-> {}] \in [User -> SUBSET User]
    BY Zenon
  <2>2. PICK f \in [User -> SUBSET User] : f = [u \in User |-> {}]
    BY Zenon, <2>1
  <2>3. view' = [view EXCEPT ![n] = f] /\ blind' = [blind EXCEPT ![n] = {}]
    BY Zenon, <1>0, <2>2 DEF Crash
  <2> QED BY Zenon, <1>2, <2>3
<1>11. FleetTypeOK'
  <2>1. up' \subseteq Node /\ fresh' \subseteq Node \ up'
    BY Zenon, <1>2, <1>3
  <2> QED BY Zenon, <1>1, <1>3, <1>5, <1>6, <1>7, <1>8, <1>9, <1>10, <1>15, <2>1 DEF FleetTypeOK
<1>12. AbsentInv'
  <2>1. \A m \in Node : seq'[m] = 0 => roster'[m] = {}
    BY Zenon, <1>1, <1>3, <1>5 DEF AbsentInv
  <2>2. \A m \in Node : snap'[m].step # "idle" => snap'[m].seq > 0 /\ snap'[m].seq <= seq'[m]
    BY Zenon, <1>1, <1>3, <1>4, <1>6 DEF AbsentInv
  <2>10. \A m \in Node : hand'[m] # <<>> => hand'[m][1].seq > 0 /\ hand'[m][1].seq <= seq'[m]
    BY Zenon, <1>1, <1>3, <1>15 DEF AbsentInv
  <2>3. \A m \in fresh' : seq'[m] = 0
    BY Zenon, <1>1, <1>3 DEF AbsentInv
  <2>4. \A m \in Node \ up' : roster'[m] = {} /\ snap'[m] = Idle /\ hand'[m] = <<>>
    <3>1. \A m \in Node \ up : roster[m] = {} /\ snap[m] = Idle /\ hand[m] = <<>>
      BY Zenon, <1>1 DEF AbsentInv
    <3>2. \A m \in Node \ up' : m = n \/ m \in Node \ up
      BY Zenon, <1>3
    <3> QED BY Zenon, <1>5, <1>6, <1>15, <3>1, <3>2
  <2>5. \A k \in Node \ up', m \in Node :
            net'[m][k] = <<>> /\ cache'[k][m] = NoEntry /\ applied'[k][m] = 0
    <3>1. \A k \in Node \ up, m \in Node :
              net[m][k] = <<>> /\ cache[k][m] = NoEntry /\ applied[k][m] = 0
      BY Zenon, <1>1 DEF AbsentInv
    <3>2. ASSUME NEW k \in Node \ up', NEW m \in Node
          PROVE  net'[m][k] = <<>> /\ cache'[k][m] = NoEntry /\ applied'[k][m] = 0
      <4>1. CASE k = n
        BY Zenon, <1>7, <1>8, <1>9, <4>1
      <4>2. CASE k # n
        <5>1. k \in Node /\ k \in Node \ up
          BY Zenon, <1>3, <4>2
        <5>2. net'[m][k] = net[m][k] /\ cache'[k] = cache[k] /\ applied'[k] = applied[k]
          BY Zenon, <1>7, <1>8, <1>9, <4>2, <5>1
        <5> QED BY ZenonT(30), <3>1, <5>1, <5>2
      <4> QED BY Zenon, <4>1, <4>2
    <3> QED BY Zenon, <3>2
  <2>6. \A k \in Node : net'[k][k] = <<>> /\ cache'[k][k] = NoEntry
    <3>1. \A k \in Node : net[k][k] = <<>> /\ cache[k][k] = NoEntry
      BY Zenon, <1>1 DEF AbsentInv
    <3> QED BY Zenon, <1>7, <1>8, <3>1
  <2>7. \A m \in fresh', k \in Node : net'[m][k] = <<>> /\ cache'[k][m] = NoEntry
    <3>1. \A m \in fresh, k \in Node : net[m][k] = <<>> /\ cache[k][m] = NoEntry
      BY Zenon, <1>1 DEF AbsentInv
    <3>2. ASSUME NEW m \in fresh, NEW k \in Node
          PROVE  net'[m][k] = <<>> /\ cache'[k][m] = NoEntry
      <4>1. m \in Node
        BY Zenon, <1>2
      <4>2. net'[m][k] = <<>>
        <5>1. net[m][k] = <<>> /\ net'[m][n] = <<>> /\ (k # n => net'[m][k] = net[m][k])
          BY Zenon, <1>7, <3>1, <4>1
        <5> QED BY Zenon, <5>1
      <4>3. cache'[k][m] = NoEntry
        BY Zenon, <1>8, <3>1, <4>1
      <4> QED BY Zenon, <4>2, <4>3
    <3> QED BY Zenon, <1>3, <3>2
  <2>8. \A m \in fresh', k \in Node : applied'[k][m] = 0 /\ missed'[k][m] = 0
    <3> SUFFICES ASSUME NEW m \in fresh, NEW k \in Node
                 PROVE  applied'[k][m] = 0 /\ missed'[k][m] = 0
      BY Zenon, <1>3
    <3>1. applied[k][m] = 0 /\ missed[k][m] = 0
      BY Zenon, <1>1 DEF AbsentInv
    <3>2. m \in Node
      BY Zenon, <1>2
    <3>3. CASE k = n
      BY Zenon, <1>9, <3>2, <3>3
    <3>4. CASE k # n
      BY Zenon, <1>9, <3>1, <3>4
    <3> QED BY Zenon, <3>3, <3>4
  <2>9. \A m \in fresh', k \in Node :
            /\ net'[m][k] = <<>> /\ cache'[k][m] = NoEntry
            /\ applied'[k][m] = 0 /\ missed'[k][m] = 0
    BY Zenon, <2>7, <2>8
  <2> QED BY Zenon, <2>1, <2>2, <2>3, <2>4, <2>5, <2>6, <2>9, <2>10 DEF AbsentInv
<1>13. PairsInv'
  <2> SUFFICES ASSUME NEW k \in up', NEW m \in up', k # m
               PROVE  PairOf(k, m)'
    BY Zenon DEF PairsInv
  <2>1. k \in up /\ m \in up /\ k # n /\ m # n /\ k \in Node /\ m \in Node
    BY Zenon, <1>2, <1>3
  <2>2. net'[m][k] = net[m][k] /\ applied'[k] = applied[k] /\ missed'[k] = missed[k] /\ cache'[k] = cache[k]
    BY Zenon, <1>7, <1>8, <1>9, <2>1
  <2>3. seq'[m] = seq[m] /\ roster'[m] = roster[m] /\ snap'[m] = snap[m] /\ hand'[m] = hand[m]
    BY Zenon, <1>3, <1>5, <1>6, <1>15, <2>1
  <2> QED BY Zenon, <1>1, <2>1, <2>2, <2>3, PairFrame
<1>14. ViewInv'
  <2>1. up' \subseteq up /\ n \notin up'
    BY Zenon, <1>3
  <2>2. \A k \in up : k # n => /\ roster'[k] = roster[k] /\ view'[k] = view[k]
                               /\ cache'[k] = cache[k] /\ blind'[k] = blind[k]
    BY Zenon, <1>2, <1>5, <1>8, <1>10
  <2> QED BY Zenon, <1>1, <2>1, <2>2, ViewFrame
<1> QED BY Zenon, <1>11, <1>12, <1>13, <1>14 DEF FleetInv

\* A node starts, knowing nothing of what the others have said.
LEMMA StartStep ==
    ASSUME FleetInv, NEW n \in Node
    PROVE  Start(n) => FleetInv'
<1>0. SUFFICES ASSUME Start(n) PROVE FleetInv'
  BY Zenon
<1>1. FleetTypeOK /\ AbsentInv /\ PairsInv /\ ViewInv
  BY Zenon DEF FleetInv
<1>2. /\ n \in fresh /\ up' = up \cup {n} /\ fresh' = fresh \ {n} /\ missed' = [missed EXCEPT ![n] = seq]
      /\ UNCHANGED <<roster, seq, hand, snap, net, cache, applied, view, blind>>
  BY Zenon, <1>0 DEF Start
<1>3. /\ up \subseteq Node /\ fresh \subseteq Node \ up /\ n \notin up /\ fresh \subseteq Node
      /\ seq \in [Node -> Nat] /\ missed \in [Node -> [Node -> Nat]]
      /\ roster \in [Node -> SUBSET User] /\ snap \in [Node -> Snap]
  BY Zenon, <1>1, <1>2 DEF FleetTypeOK
<1>4. /\ missed' \in [Node -> [Node -> Nat]] /\ missed'[n] = seq
      /\ \A k \in Node : k # n => missed'[k] = missed[k]
  BY Zenon, <1>2, <1>3
<1>5. FleetTypeOK'
  <2>1. up' \subseteq Node /\ fresh' \subseteq Node \ up'
    BY Zenon, <1>2, <1>3
  <2> QED BY Zenon, <1>1, <1>2, <1>4, <2>1 DEF FleetTypeOK
<1>6. AbsentInv'
  <2>1. /\ \A m \in Node : seq'[m] = 0 => roster'[m] = {}
        /\ \A m \in Node : snap'[m].step # "idle" => snap'[m].seq > 0 /\ snap'[m].seq <= seq'[m]
        /\ \A m \in Node : hand'[m] # <<>> => hand'[m][1].seq > 0 /\ hand'[m][1].seq <= seq'[m]
    BY Zenon, <1>1, <1>2 DEF AbsentInv
  <2>2. \A m \in fresh' : seq'[m] = 0
    BY Zenon, <1>1, <1>2 DEF AbsentInv
  <2>3. \A m \in Node \ up' : roster'[m] = {} /\ snap'[m] = Idle /\ hand'[m] = <<>>
    BY Zenon, <1>1, <1>2 DEF AbsentInv
  <2>4. \A k \in Node \ up', m \in Node :
            net'[m][k] = <<>> /\ cache'[k][m] = NoEntry /\ applied'[k][m] = 0
    <3>1. \A k \in Node \ up, m \in Node :
              net[m][k] = <<>> /\ cache[k][m] = NoEntry /\ applied[k][m] = 0
      BY Zenon, <1>1 DEF AbsentInv
    <3>2. \A k \in Node \ up' : k \in Node \ up
      BY Zenon, <1>2
    <3> QED BY Zenon, <1>2, <3>1, <3>2
  <2>5. \A k \in Node : net'[k][k] = <<>> /\ cache'[k][k] = NoEntry
    BY Zenon, <1>1, <1>2 DEF AbsentInv
  <2>6. ASSUME NEW m \in fresh', NEW k \in Node
        PROVE  /\ net'[m][k] = <<>> /\ cache'[k][m] = NoEntry
               /\ applied'[k][m] = 0 /\ missed'[k][m] = 0
    <3>1. m \in fresh
      BY Zenon, <1>2
    <3>2. /\ net[m][k] = <<>> /\ cache[k][m] = NoEntry /\ applied[k][m] = 0 /\ missed[k][m] = 0
          /\ seq[m] = 0
      BY Zenon, <1>1, <3>1 DEF AbsentInv
    <3>3. missed'[k][m] = 0
      BY Zenon, <1>4, <3>2
    <3> QED BY Zenon, <1>2, <3>2, <3>3
  <2> QED BY <2>1, <2>2, <2>3, <2>4, <2>5, <2>6 DEF AbsentInv
<1>7. PairsInv'
  <2> SUFFICES ASSUME NEW k \in up', NEW m \in up', k # m
               PROVE  PairOf(k, m)'
    BY Zenon DEF PairsInv
  <2>1. k \in Node /\ m \in Node
    BY Zenon, <1>2, <1>3
  <2>2. roster[m] \in SUBSET User /\ snap[m] \in Snap /\ seq[m] \in Nat
    BY Zenon, <1>3, <2>1
  <2>3. (seq[m] = 0 => roster[m] = {}) /\ (snap[m].step # "idle" => snap[m].seq > 0 /\ snap[m].seq <= seq[m])
    BY Zenon, <1>1, <2>1 DEF AbsentInv
  <2>4. Pair(With(<<>>, hand[m]), 0, seq[m], seq[m], roster[m], NoEntry, snap[m])
    <3>1. /\ hand[m] \in Seq(Message) /\ <<>> \in Seq(Message)
          /\ hand[m] # <<>> => hand[m][1].seq > 0 /\ hand[m][1].seq <= seq[m]
      <4>1. <<>> \in Seq(Message)
        OBVIOUS
      <4> QED BY Zenon, <1>1, <2>1, <4>1 DEF FleetTypeOK, AbsentInv
    <3>2. PICK s \in Seq(Message) : s = With(<<>>, hand[m])
      BY Zenon, <3>1, WithFacts
    <3>3. \A i \in 1..Len(s) : s[i].seq > 0 /\ s[i].seq <= seq[m]
      <4>1. CASE hand[m] = <<>>
        <5>1. s = <<>>
          BY Zenon, <3>2, <4>1 DEF With
        <5> QED BY <5>1
      <4>2. CASE hand[m] # <<>>
        <5>1. s = Append(<<>>, hand[m][1])
          BY Zenon, <3>2, <4>2 DEF With
        <5>2. \A i \in 1..Len(s) : s[i] = hand[m][1]
          BY <5>1
        <5> QED BY Zenon, <3>1, <4>2, <5>2
      <4> QED BY Zenon, <4>1, <4>2
    <3>4. Pair(s, 0, seq[m], seq[m], roster[m], NoEntry, snap[m])
      BY Zenon, <2>2, <2>3, <3>3, PairStart
    <3> QED BY Zenon, <3>2, <3>4
  <2>5. CASE k = n
    <3>0. n \in Node \ up
      BY Zenon, <1>3
    <3>1. net[m][n] = <<>> /\ applied[n][m] = 0 /\ cache[n][m] = NoEntry
      BY Zenon, <1>1, <2>1, <3>0 DEF AbsentInv
    <3>2. missed'[n][m] = seq[m]
      BY Zenon, <1>4
    <3> QED BY Zenon, <1>2, <2>4, <2>5, <3>1, <3>2 DEF PairOf, Stream
  <2>6. CASE m = n
    <3>1. net[n][k] = <<>> /\ applied[k][n] = 0 /\ cache[k][n] = NoEntry /\ missed[k][n] = 0 /\ seq[n] = 0
      BY Zenon, <1>1, <1>2, <2>1 DEF AbsentInv
    <3>2. missed'[k][n] = 0
      BY Zenon, <1>4, <2>1, <2>6, <3>1
    <3> QED BY Zenon, <1>2, <2>4, <2>6, <3>1, <3>2 DEF PairOf, Stream
  <2>7. CASE k # n /\ m # n
    <3>1. k \in up /\ m \in up /\ missed'[k] = missed[k]
      BY Zenon, <1>2, <1>4, <2>1, <2>7
    <3> QED BY Zenon, <1>1, <1>2, <3>1, PairFrame
  <2> QED BY Zenon, <2>5, <2>6, <2>7
<1>8. ViewInv'
  <2> SUFFICES ASSUME NEW k \in up', NEW u \in roster[k]
               PROVE  Sees(view[k][u], roster[k], Announced(cache[k]), blind[k])
    BY Zenon, <1>2 DEF ViewInv
  <2>1. roster[n] = {}
    BY Zenon, <1>1, <1>3 DEF AbsentInv
  <2>2. k \in up
    BY Zenon, <1>2, <2>1
  <2> QED BY Zenon, <1>1, <2>2 DEF ViewInv
<1> QED BY Zenon, <1>5, <1>6, <1>7, <1>8 DEF FleetInv

(***************************************************************************)
(* The theorems                                                            *)
(***************************************************************************)

\* Nobody is there, nothing is on the bus, and no cache holds anything.
LEMMA FleetStarts == Init => FleetInv
<1>0. SUFFICES ASSUME Init PROVE FleetInv
  BY Zenon
<1>1. /\ 0 \in Nat /\ Idle \in Snap /\ NoEntry \in Entry /\ <<>> \in Seq(Message)
      /\ Idle.step = "idle"
  BY DEF Idle, Snap, NoEntry, Entry
<1>2. /\ up = Boot /\ fresh = Node \ Boot /\ Boot \subseteq Node
      /\ \A n \in Node : roster[n] = {} /\ seq[n] = 0 /\ hand[n] = <<>> /\ snap[n] = Idle
      /\ \A n, m \in Node : net[m][n] = <<>> /\ cache[n][m] = NoEntry /\ applied[n][m] = 0 /\ missed[n][m] = 0
  BY Zenon, <1>0, NodesAreOrdered DEF Init
<1>3. FleetTypeOK
  <2>1. up \subseteq Node /\ fresh \subseteq Node \ up
    BY Zenon, <1>2
  <2>2. roster \in [Node -> SUBSET User] /\ seq \in [Node -> Nat] /\ snap \in [Node -> Snap]
    BY Zenon, <1>0, <1>1 DEF Init
  <2>3. net \in [Node -> [Node -> Seq(Message)]] /\ cache \in [Node -> [Node -> Entry]]
    BY Zenon, <1>0, <1>1 DEF Init
  <2>4. applied \in [Node -> [Node -> Nat]] /\ missed \in [Node -> [Node -> Nat]]
    BY Zenon, <1>0, <1>1 DEF Init
  <2>5. view \in [Node -> [User -> SUBSET User]] /\ blind \in [Node -> SUBSET User]
    BY Zenon, <1>0 DEF Init
  <2>6. hand \in [Node -> Seq(Message)]
    BY Zenon, <1>0, <1>1 DEF Init
  <2>7. \A n \in Node : Len(hand[n]) <= 1
    <3>1. Len(<<>>) <= 1
      OBVIOUS
    <3> QED BY Zenon, <1>2, <3>1
  <2> QED BY Zenon, <2>1, <2>2, <2>3, <2>4, <2>5, <2>6, <2>7 DEF FleetTypeOK
<1>4. AbsentInv
  BY Zenon, <1>1, <1>2 DEF AbsentInv
<1>5. PairsInv
  <2>1. ASSUME NEW n \in up, NEW m \in up
        PROVE  PairOf(n, m)
    <3>1. n \in Node /\ m \in Node
      BY Zenon, <1>2
    <3>2. PICK s \in Seq(Message) : s = <<>>
      BY Zenon, <1>1
    <3>3. \A i \in 1..Len(s) : FALSE
      BY <3>2
    <3>4. {} \in SUBSET User
      BY Zenon
    <3>5. Pair(s, 0, 0, 0, {}, NoEntry, Idle)
      BY Zenon, <1>1, <3>3, <3>4, PairStart
    <3>6. Stream(m, n) = s
      BY Zenon, <1>2, <3>1, <3>2 DEF Stream, With
    <3> QED BY Zenon, <1>2, <3>1, <3>5, <3>6 DEF PairOf
  <2> QED BY Zenon, <2>1 DEF PairsInv
<1>6. ViewInv
  BY Zenon, <1>2 DEF ViewInv
<1> QED BY Zenon, <1>3, <1>4, <1>5, <1>6 DEF FleetInv

\* Every handler keeps the invariant.
LEMMA FleetSteps == FleetInv /\ [Next]_vars => FleetInv'
<1> SUFFICES ASSUME FleetInv, [Next]_vars PROVE FleetInv'
  BY Zenon
<1>1. CASE Publishing
  <2>1. CASE \E n \in Node : Enqueue(n) \/ SnapshotDraw(n) \/ SnapshotCapture(n) \/ SnapshotSend(n)
    BY Zenon, <2>1, EnqueueStep, SnapshotDrawStep, SnapshotCaptureStep, SnapshotSendStep
  <2>2. CASE \E n \in Node : Crash(n) \/ Start(n)
    BY Zenon, <2>2, CrashStep, StartStep
  <2> QED BY Zenon, <1>1, <2>1, <2>2 DEF Publishing
<1>2. CASE Hearing
  <2>1. CASE \E m, n \in Node : Heartbeat(m, n)
    BY Zenon, <2>1, CoreFrame DEF Heartbeat, coreVars, history
  <2>2. CASE \E m, n \in Node : ForgetPeer(n, m)
    BY Zenon, <2>2, CoreFrame DEF ForgetPeer, coreVars, history
  <2> QED BY Zenon, <1>2, <2>1, <2>2 DEF Hearing
<1>3. CASE Changing
  <2>1. CASE \E n \in Node, u \in User : Join(n, u) \/ Leave(n, u)
    BY Zenon, <2>1, JoinStep, LeaveStep
  <2>2. CASE \E m, n \in Node : Deliver(m, n) \/ Lose(m, n) \/ Expire(n, m)
    BY Zenon, <2>2, DeliverStep, LoseStep, ExpireStep
  <2>3. CASE \E n \in Node : GcPass(n)
    BY Zenon, <2>3, GcStep
  <2>4. CASE \E n \in Node : ForgetWithheld(n)
    BY Zenon, <2>4, CoreFrame DEF ForgetWithheld, coreVars, history
  <2> QED BY Zenon, <1>3, <2>1, <2>2, <2>3, <2>4 DEF Changing
<1>4. CASE UNCHANGED vars
  BY Zenon, <1>4, CoreFrame DEF vars, coreVars
<1> QED BY Zenon, <1>1, <1>2, <1>3, <1>4 DEF Next

\* The invariant holds always, in every fleet, whatever is lost and whoever
\* crashes or joins.
THEOREM FleetInvariance == Spec => []FleetInv
<1> QED BY FleetStarts, FleetSteps, PTL DEF Spec

\* A peer that has been heard out is cached as it is.
LEMMA HeardOut == FleetInv => CacheIsExact
<1>0. SUFFICES ASSUME FleetInv, NEW n \in up, NEW m \in up, n # m, Caught(n, m)
               PROVE  cache[n][m].users = roster[m]
  BY Zenon DEF CacheIsExact
<1>1. n \in Node /\ m \in Node /\ FleetTypeOK
  BY Zenon, <1>0 DEF FleetInv, FleetTypeOK
<1>2. cache[n][m].users \subseteq User /\ roster[m] \subseteq User
  <2>1. PairType(Stream(m, n), applied[n][m], missed[n][m], seq[m], roster[m], cache[n][m], snap[m])
    BY Zenon, <1>1, PairTyped
  <2> QED BY Zenon, <2>1 DEF PairType, Entry
<1>3. PairOf(n, m)
  BY Zenon, <1>0 DEF FleetInv, PairsInv
<1>4. CacheTruth(Stream(m, n), applied[n][m], missed[n][m], roster[m], cache[n][m])
  BY Zenon, <1>3 DEF PairOf, Pair
<1>5. missed[n][m] = 0 /\ Stream(m, n) = <<>>
  BY Zenon, <1>0 DEF Caught, Heard, Stream, With
<1>6. \A u : Settled(Stream(m, n), applied[n][m], u)
  <2>1. PICK s : s = Stream(m, n)
    BY Zenon
  <2>2. \A i \in 1..Len(s) : FALSE
    BY <1>5, <2>1
  <2> QED BY Zenon, <2>1, <2>2 DEF Settled
<1> QED BY Zenon, <1>2, <1>4, <1>5, <1>6 DEF CacheTruth

\* CacheIsExact: the sequence numbers of accept_seq, drawn before a snapshot is
\* captured, make a cache converge on the peer's roster in a fleet of any size,
\* whatever is lost, delayed or overtaken.
THEOREM CacheAlwaysExact == Spec => []CacheIsExact
<1> QED BY FleetInvariance, HeardOut, PTL

\* What a node announces is what its peers have, once it has heard them out.
LEMMA ViewsFollow == FleetInv => ViewIsFleet
<1>0. SUFFICES ASSUME FleetInv, NEW n \in up,
                      \A m \in up \ {n} : Caught(n, m),
                      \A m \in Node \ up : cache[n][m] = NoEntry,
                      NEW u \in roster[n]
               PROVE  view[n][u] \ blind[n] = Fleet \ blind[n]
  BY Zenon DEF ViewIsFleet
<1>1. up \subseteq Node /\ n \in Node /\ cache[n] \in [Node -> Entry]
  BY Zenon, <1>0 DEF FleetInv, FleetTypeOK
<1>2. NoEntry.users = {}
  BY Zenon DEF NoEntry
<1>3. \A m \in up : m # n => cache[n][m].users = roster[m]
  BY Zenon, <1>0, HeardOut DEF CacheIsExact
<1>4. cache[n][n] = NoEntry
  BY Zenon, <1>0, <1>1 DEF FleetInv, AbsentInv
<1>5. \A x : x \in Announced(cache[n]) <=> \E m \in Node : x \in cache[n][m].users
  BY Zenon, <1>1, CacheSets
<1>6. \A x : x \in roster[n] \cup Announced(cache[n]) <=> x \in Fleet
  <2>1. ASSUME NEW x \in Announced(cache[n])
        PROVE  x \in Fleet
    <3>1. PICK m \in Node : x \in cache[n][m].users
      BY Zenon, <1>5, <2>1
    <3>2. m \in up /\ m # n
      BY Zenon, <1>0, <1>2, <1>4, <3>1
    <3> QED BY Zenon, <1>3, <3>1, <3>2 DEF Fleet
  <2>2. ASSUME NEW x \in Fleet
        PROVE  x \in roster[n] \/ x \in Announced(cache[n])
    <3>1. PICK m \in up : x \in roster[m]
      BY Zenon, <2>2 DEF Fleet
    <3>2. CASE m = n
      BY Zenon, <3>1, <3>2
    <3>3. CASE m # n
      BY Zenon, <1>1, <1>3, <1>5, <3>1, <3>3
    <3> QED BY Zenon, <3>2, <3>3
  <2>3. roster[n] \subseteq Fleet
    BY Zenon, <1>0 DEF Fleet
  <2> QED BY Zenon, <2>1, <2>2, <2>3
<1>7. Sees(view[n][u], roster[n], Announced(cache[n]), blind[n])
  BY Zenon, <1>0 DEF FleetInv, ViewInv
<1> QED BY Zenon, <1>6, <1>7 DEF Sees

\* ViewIsFleet: however the news of joins, leaves and crashes came, a node that
\* has heard its peers out shows its clients exactly the users of the fleet, but
\* for those whose entry was past its TTL when they were to be told of.
THEOREM ViewsAreTheFleet == Spec => []ViewIsFleet
<1> QED BY FleetInvariance, ViewsFollow, PTL
=============================================================================
