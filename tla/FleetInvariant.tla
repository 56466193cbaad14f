--------------------------- MODULE FleetInvariant ---------------------------
(***************************************************************************)
(* The inductive invariant of FleetPresence.                               *)
(*                                                                         *)
(* The first part is about what one node has of one peer, as values: s is  *)
(* the stream of messages on the way, the one in the peer's hand included, *)
(* a the number applied last, lost the number missed last, top the last    *)
(* number drawn, r the peer's roster, c the entry of the cache, sn the     *)
(* snapshot under way.                                                     *)
(***************************************************************************)
EXTENDS FleetPresence

\* A join or a leave is about one user.
Message ==
    {x \in [type : {"added", "removed", "snapshot"}, seq : Nat, users : SUBSET User,
            hook : BOOLEAN, vacated : BOOLEAN] :
        x.type = "snapshot" \/ \E u \in User : x.users = {u}}
Entry == [age : {"none", "live", "expired"}, users : SUBSET User]
Snap == [step : {"idle", "drawn", "captured"}, seq : Nat, users : SUBSET User]

\* A message that accept_seq will let through when its turn comes.
Effective(s, a, i) ==
    s[i].seq > a /\ \A j \in 1..Len(s) : j < i => s[j].seq < s[i].seq

\* What a message says, and about whom.
Concerns(msg, u) == msg.type = "snapshot" \/ u \in msg.users
Says(msg, u) == msg.type # "removed" /\ u \in msg.users

\* The message that decides what the node will believe about u.
LastWord(s, a, i, u) ==
    /\ Effective(s, a, i) /\ Concerns(s[i], u)
    /\ \A j \in 1..Len(s) : j > i /\ Effective(s, a, j) => ~Concerns(s[j], u)

\* Nothing on the way will change what the node believes about u.
Settled(s, a, u) == \A i \in 1..Len(s) : Effective(s, a, i) => ~Concerns(s[i], u)

\* accept_seq: the mark after x, and what is still missed.
Mark(x, a) == IF x.seq > a THEN x.seq ELSE a
Left(x, a, lost) == IF x.seq > a /\ x.type = "snapshot" /\ x.seq > lost THEN 0 ELSE lost

\* d is the entry c after the message x, which is ignored if it is an old one.
Applies(x, a, c, d) ==
    \A u \in User : IF x.seq > a /\ Concerns(x, u)
                    THEN u \in d.users <=> Says(x, u) ELSE u \in d.users <=> u \in c.users

\* Numbers are drawn before they are used.
Numbers(s, a, lost, top, sn) ==
    /\ a <= top /\ lost <= top
    /\ \A i \in 1..Len(s) : s[i].seq > 0 /\ s[i].seq <= top
    /\ sn.step # "idle" => sn.seq > 0 /\ sn.seq <= top

\* The last word about u is true, unless it is older than what was lost.
StreamTruth(s, a, lost, r) ==
    \A u \in User, i \in 1..Len(s) :
        LastWord(s, a, i, u) /\ s[i].seq > lost =>
            (Says(s[i], u) <=> u \in r)

\* So is what the cache has, when nothing was lost.
CacheTruth(s, a, lost, r, c) ==
    lost = 0 => \A u \in User : Settled(s, a, u) => (u \in c.users <=> u \in r)

\* A captured snapshot is right about u, unless something newer about u was
\* numbered since.
SnapTruth(s, a, lost, r, sn) ==
    sn.step = "captured" /\ sn.seq > a /\ sn.seq > lost =>
        \A u \in User : (\A i \in 1..Len(s) : s[i].seq > sn.seq => ~Concerns(s[i], u)) =>
            (u \in sn.users <=> u \in r)

\* An entry may pass its TTL unheard only if it names nobody.
EntryInv(lost, c) ==
    /\ c.age = "none" => c.users = {}
    /\ c.age = "expired" /\ lost = 0 => c.users = {}

Pair(s, a, lost, top, r, c, sn) ==
    /\ Numbers(s, a, lost, top, sn)
    /\ StreamTruth(s, a, lost, r)
    /\ CacheTruth(s, a, lost, r, c)
    /\ SnapTruth(s, a, lost, r, sn)
    /\ EntryInv(lost, c)

PairType(s, a, lost, top, r, c, sn) ==
    /\ s \in Seq(Message) /\ a \in Nat /\ lost \in Nat /\ top \in Nat
    /\ r \in SUBSET User /\ c \in Entry /\ sn \in Snap

FleetTypeOK ==
    /\ up \subseteq Node /\ fresh \subseteq Node \ up
    /\ roster \in [Node -> SUBSET User]
    /\ seq \in [Node -> Nat]
    /\ hand \in [Node -> Seq(Message)] /\ \A n \in Node : Len(hand[n]) <= 1
    /\ snap \in [Node -> Snap]
    /\ net \in [Node -> [Node -> Seq(Message)]]
    /\ cache \in [Node -> [Node -> Entry]]
    /\ applied \in [Node -> [Node -> Nat]]
    /\ missed \in [Node -> [Node -> Nat]]
    /\ view \in [Node -> [User -> SUBSET User]]
    /\ blind \in [Node -> SUBSET User]

\* What is not there: nodes that have drawn no number, that have not started, or
\* that have crashed; a node has no entry of itself.
AbsentInv ==
    /\ \A m \in Node : seq[m] = 0 => roster[m] = {}
    /\ \A m \in Node : snap[m].step # "idle" => snap[m].seq > 0 /\ snap[m].seq <= seq[m]
    /\ \A m \in Node : hand[m] # <<>> => hand[m][1].seq > 0 /\ hand[m][1].seq <= seq[m]
    /\ \A m \in fresh : seq[m] = 0
    /\ \A m \in Node \ up : roster[m] = {} /\ snap[m] = Idle /\ hand[m] = <<>>
    /\ \A n \in Node \ up, m \in Node :
           net[m][n] = <<>> /\ cache[n][m] = NoEntry /\ applied[n][m] = 0
    /\ \A n \in Node : net[n][n] = <<>> /\ cache[n][n] = NoEntry
    /\ \A m \in fresh, n \in Node :
           net[m][n] = <<>> /\ cache[n][m] = NoEntry /\ applied[n][m] = 0 /\ missed[n][m] = 0

\* A stream with what is in hand at its end.
With(s, h) == IF h = <<>> THEN s ELSE Append(s, h[1])

Stream(m, n) == With(net[m][n], hand[m])

PairOf(n, m) == Pair(Stream(m, n), applied[n][m], missed[n][m], seq[m], roster[m], cache[n][m], snap[m])

PairsInv == \A n, m \in up : n # m => PairOf(n, m)

\* A client sees nobody who is not there, and everybody but those in blind.
Sees(v, r, announced, unsure) ==
    v \subseteq r \cup announced /\ (r \cup announced) \ unsure \subseteq v

ViewInv ==
    \A n \in up : \A u \in roster[n] :
        Sees(view[n][u], roster[n], Announced(cache[n]), blind[n])

FleetInv == FleetTypeOK /\ AbsentInv /\ PairsInv /\ ViewInv
=============================================================================
