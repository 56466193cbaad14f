--------------------------- MODULE PipelineProofs ---------------------------
(***************************************************************************)
(* The two outbound pipelines of a node: the publisher of the scaling bus  *)
(* and webhook deliveries.                                                 *)
(*                                                                         *)
(* Publisher: what becomes of the envelopes, for every set of requests,    *)
(* every queue capacity and every limit of the staging buffer: they reach  *)
(* Redis in the order they were enqueued, and none is left behind by a     *)
(* shutdown that drained in time.                                          *)
(*                                                                         *)
(* Webhooks: the counters of a delivery and what pending() says, for every *)
(* finite set of events and targets, every filter and every limit.         *)
(***************************************************************************)
EXTENDS WebhookDelivery, BusPublisher, TLAPS

\* Whether e is in the queue s, and whether s holds each event once.
Holds(s, e) == \E i \in 1..Len(s) : s[i] = e
NoRepeat(s) == \A i, j \in 1..Len(s) : s[i] = s[j] => i = j

\* What is sent to a queue is in it, behind what was there.
LEMMA AppendHolds ==
    ASSUME NEW S, NEW s \in Seq(S), NEW x \in S
    PROVE  /\ Append(s, x) \in Seq(S)
           /\ Len(Append(s, x)) = Len(s) + 1
           /\ \A e : Holds(Append(s, x), e) <=> Holds(s, e) \/ e = x
           /\ NoRepeat(s) /\ ~Holds(s, x) => NoRepeat(Append(s, x))
<1> DEFINE t == Append(s, x)
<1>1. /\ t \in Seq(S) /\ Len(s) \in Nat /\ Len(t) = Len(s) + 1
      /\ \A i \in 1..Len(s) : t[i] = s[i]
      /\ t[Len(s) + 1] = x
  OBVIOUS
<1> HIDE DEF t
<1>2. \A i \in 1..Len(t) : i \in 1..Len(s) \/ i = Len(s) + 1
  BY <1>1
<1>3. 1..Len(s) \subseteq 1..Len(t) /\ Len(s) + 1 \in 1..Len(t)
  BY <1>1
<1>4. ASSUME NEW e PROVE Holds(t, e) <=> Holds(s, e) \/ e = x
  BY Zenon, <1>1, <1>2, <1>3 DEF Holds
<1>5. ASSUME NoRepeat(s), ~Holds(s, x) PROVE NoRepeat(t)
  BY Zenon, <1>1, <1>2, <1>5 DEF Holds, NoRepeat
<1> QED
  BY Zenon, <1>1, <1>4, <1>5 DEF t

\* One queue behind another.
LEMMA Joined ==
    ASSUME NEW S, NEW s \in Seq(S), NEW t \in Seq(S)
    PROVE  /\ s \o t \in Seq(S) /\ Len(s \o t) = Len(s) + Len(t)
           /\ \A i \in 1..(Len(s) + Len(t)) :
                  (s \o t)[i] = IF i <= Len(s) THEN s[i] ELSE t[i - Len(s)]
  OBVIOUS

\* Three queues in a row.
LEMMA JoinedThree ==
    ASSUME NEW S, NEW s \in Seq(S), NEW t \in Seq(S), NEW u \in Seq(S)
    PROVE  (s \o t) \o u = s \o (t \o u)
  BY SMTT(30)

\* What is in a queue.
LEMMA RangeOfQueue ==
    ASSUME NEW S, NEW s \in Seq(S)
    PROVE  Range(s) = {s[i] : i \in 1..Len(s)}
  BY DEF Range

\* An empty queue in front of another or behind it.
LEMMA JoinedToNone ==
    ASSUME NEW S, NEW s \in Seq(S)
    PROVE  s \o <<>> = s /\ <<>> \o s = s
  OBVIOUS

(***************************************************************************)
(* The publisher's queues                                                  *)
(***************************************************************************)

\* The envelope that the forwarder is sending, as a queue.
Carried == IF forwarder.at = "sending" THEN <<forwarder.env>> ELSE <<>>

\* What has been handed to Redis and what is on its way there, first to last.
Rest == batch \o (queue \o (Carried \o staging))
Line == out \o Rest

PubTypeOK ==
    /\ mode \in {"best_effort", "block"}
    /\ request \in [Req -> {"none", "reading", "refused", "in flight", "answered", "aborted"}]
    /\ queue \in Seq(Envelope)
    /\ staging \in Seq(Envelope)
    /\ stagedBytes = Len(staging) + (IF forwarder.at = "idle" THEN 0 ELSE 1)
    /\ forwarder \in [at : {"idle", "sending", "sent"}, env : Envelope \cup {Nothing}]
    /\ forwarder.at = "sending" => forwarder.env \in Envelope
    /\ batch \in Seq(Envelope)
    /\ publisher \in {"idle", "taken", "publishing"}
    /\ publishing \in Nat
    /\ out \in Seq(Envelope)
    /\ shutdown \in {"serving", "draining", "listener drains", "flushing", "exited"}
    /\ shutdown = "flushing" => poll \in {"staged", "queue", "publishing"}
    /\ accepted \in Seq(Envelope)
    /\ overtime \in BOOLEAN
    /\ inHand \in BOOLEAN

\* s lists envelopes of a in the order of a.
Follows(s, a) ==
    /\ \A i \in 1..Len(s) : Holds(a, s[i])
    /\ \A i, j \in 1..Len(s) : i < j => Before(a, s[i], s[j])

\* The line keeps the order in which the envelopes were enqueued.  Without the
\* staging buffer nobody uses it.  No envelope is enqueued twice.
OrderInv ==
    /\ Follows(Line, accepted)
    /\ mode = "best_effort" => staging = <<>> /\ forwarder.at = "idle"
    /\ NoRepeat(accepted)
    /\ \A r \in Req : request[r] # "answered" => ~Holds(accepted, r)

InForwarder(e) == forwarder.at = "sending" /\ forwarder.env = e

\* The envelope of an answered request is in the pipeline or has left it.
AnsweredInv ==
    \A r \in Req : request[r] = "answered" =>
        \/ Holds(out, r) \/ r \in dropped \/ Holds(batch, r)
        \/ Holds(queue, r) \/ InForwarder(r) \/ Holds(staging, r)

\* publishing counts from the mark on, and until then the batch is in hand.
BatchInv ==
    /\ publisher = "idle" => batch = <<>>
    /\ publisher = "publishing" => publishing > 0
    /\ publisher = "taken" => batch # <<>>

\* What drain_outbound knows after the listener has drained in time, and from
\* each zero that it has read.
DrainInv ==
    /\ shutdown \in {"flushing", "exited"} /\ ~overtime => RequestsAreDone
    /\ shutdown = "flushing" /\ ~overtime => \A r \in Req :
          /\ poll \in {"queue", "publishing"} => ~InForwarder(r) /\ ~Holds(staging, r)
          /\ poll = "publishing" => ~Holds(queue, r)
    /\ AnsweredIsPublished

PubInv == PubTypeOK /\ OrderInv /\ AnsweredInv /\ BatchInv /\ DrainInv

(***************************************************************************)
(* The line of envelopes                                                   *)
(***************************************************************************)

\* What is received from a queue and what stays are what was in it.
LEMMA HeadOrTail ==
    ASSUME NEW S, NEW s \in Seq(S), s # <<>>
    PROVE  /\ Head(s) \in S /\ Tail(s) \in Seq(S)
           /\ Len(Tail(s)) = Len(s) - 1
           /\ s = <<Head(s)>> \o Tail(s)
           /\ \A e : Holds(s, e) <=> e = Head(s) \/ Holds(Tail(s), e)
<1> DEFINE t == Tail(s)
           h == Head(s)
<1>1. /\ h \in S /\ t \in Seq(S)
      /\ Len(s) \in Nat /\ Len(s) # 0 /\ Len(t) = Len(s) - 1
      /\ h = s[1]
      /\ \A i \in 1..Len(t) : t[i] = s[i + 1]
  OBVIOUS
<1>2. s = <<h>> \o t
  OBVIOUS
<1> HIDE DEF t, h
<1>3. \A i \in 1..Len(s) : i = 1 \/ (i - 1 \in 1..Len(t) /\ t[i - 1] = s[i])
  BY <1>1
<1>4. 1 \in 1..Len(s) /\ \A i \in 1..Len(t) : i + 1 \in 1..Len(s)
  BY <1>1
<1>5. ASSUME NEW e PROVE Holds(s, e) <=> e = h \/ Holds(t, e)
  BY SMTT(30), <1>1, <1>3, <1>4 DEF Holds
<1> QED
  BY Zenon, <1>1, <1>2, <1>5 DEF t, h

\* recv_many takes the front of the queue and leaves the rest.
LEMMA FrontAndRest ==
    ASSUME NEW S, NEW s \in Seq(S), NEW n \in 1..Len(s)
    PROVE  /\ SubSeq(s, 1, n) \in Seq(S) /\ SubSeq(s, n + 1, Len(s)) \in Seq(S)
           /\ SubSeq(s, 1, n) # <<>>
           /\ s = SubSeq(s, 1, n) \o SubSeq(s, n + 1, Len(s))
           /\ \A e : Holds(s, e) <=> Holds(SubSeq(s, 1, n), e) \/ Holds(SubSeq(s, n + 1, Len(s)), e)
<1> DEFINE f == SubSeq(s, 1, n)
           t == SubSeq(s, n + 1, Len(s))
<1>1. Len(s) \in Nat /\ n \in Nat /\ n # 0 /\ n <= Len(s) /\ \A i \in 1..Len(s) : s[i] \in S
  OBVIOUS
<1>2. f \in Seq(S) /\ Len(f) = n /\ \A i \in 1..n : f[i] = s[i]
  BY <1>1
<1>3. t \in Seq(S) /\ Len(t) = Len(s) - n /\ \A i \in 1..(Len(s) - n) : t[i] = s[n + i]
  BY <1>1
<1>4. f \o t = s
  OBVIOUS
<1> HIDE DEF f, t
<1>5. f # <<>>
  BY <1>1, <1>2
<1>6. \A i \in 1..Len(s) : \/ i \in 1..Len(f) /\ f[i] = s[i]
                           \/ i - n \in 1..Len(t) /\ t[i - n] = s[i]
  BY <1>1, <1>2, <1>3
<1>7. /\ \A i \in 1..Len(f) : i \in 1..Len(s) /\ f[i] = s[i]
      /\ \A i \in 1..Len(t) : n + i \in 1..Len(s) /\ t[i] = s[n + i]
  BY <1>1, <1>2, <1>3
<1>8. ASSUME NEW e PROVE Holds(s, e) <=> Holds(f, e) \/ Holds(t, e)
  BY ZenonT(30), <1>6, <1>7 DEF Holds
<1> QED
  BY Zenon, <1>2, <1>3, <1>4, <1>5, <1>8 DEF f, t

\* Sending to the last queue of a line sends to the line.
LEMMA AppendLast ==
    ASSUME NEW S, NEW s \in Seq(S), NEW t \in Seq(S), NEW e \in S, NEW u, u = Append(t, e)
    PROVE  s \o u = Append(s \o t, e)
  OBVIOUS

\* Moving an envelope from the head of a queue to the end of the one before.
LEMMA HeadMoves ==
    ASSUME NEW S, NEW s \in Seq(S), NEW t \in Seq(S), NEW e \in S
    PROVE  Append(s, e) \o t = s \o (<<e>> \o t)
  OBVIOUS

\* A sequence in the order of a, and one more at the end of both.
LEMMA FollowsAppend ==
    ASSUME NEW S, NEW s \in Seq(S), NEW a \in Seq(S), NEW e \in S, Follows(s, a)
    PROVE  Follows(Append(s, e), Append(a, e))
<1> DEFINE s2 == Append(s, e)
           a2 == Append(a, e)
<1>1. /\ Len(s) \in Nat /\ Len(s2) = Len(s) + 1
      /\ \A i \in 1..Len(s) : s2[i] = s[i]
      /\ s2[Len(s) + 1] = e
  OBVIOUS
<1>2. /\ Len(a) \in Nat /\ Len(a2) = Len(a) + 1
      /\ \A i \in 1..Len(a) : a2[i] = a[i]
      /\ a2[Len(a) + 1] = e
  OBVIOUS
<1>3. \A y : Holds(a2, y) <=> Holds(a, y) \/ y = e
  BY Zenon, AppendHolds
<1> HIDE DEF s2, a2
<1>4. \A i \in 1..Len(s2) : i \in 1..Len(s) \/ i = Len(s) + 1
  BY <1>1
<1>5. \A x, y : Before(a, x, y) => Before(a2, x, y)
  <2>1. 1..Len(a) \subseteq 1..Len(a2)
    BY <1>2
  <2> QED
    BY Zenon, <1>2, <2>1 DEF Before
<1>6. \A x : Holds(a, x) => Before(a2, x, e)
  <2>1. \A k \in 1..Len(a) : k \in 1..Len(a2) /\ k < Len(a) + 1
    BY <1>2
  <2>2. Len(a) + 1 \in 1..Len(a2)
    BY <1>2
  <2> QED
    BY Zenon, <1>2, <2>1, <2>2 DEF Before, Holds
<1>7. \A i \in 1..Len(s2) : Holds(a2, s2[i])
  BY Zenon, <1>1, <1>3, <1>4 DEF Follows
<1>8. ASSUME NEW i \in 1..Len(s2), NEW j \in 1..Len(s2), i < j
      PROVE  Before(a2, s2[i], s2[j])
  <2>1. i \in 1..Len(s)
    BY <1>1, <1>8
  <2>2. CASE j \in 1..Len(s)
    BY Zenon, <1>1, <1>5, <1>8, <2>1, <2>2 DEF Follows
  <2>3. CASE j = Len(s) + 1
    BY Zenon, <1>1, <1>6, <2>1, <2>3 DEF Follows
  <2> QED
    BY Zenon, <1>4, <2>2, <2>3
<1> QED
  BY Zenon, <1>7, <1>8 DEF Follows, s2, a2

\* A sequence that leaves some elements out keeps the order.
LEMMA FollowsFewer ==
    ASSUME NEW s, NEW a, Follows(s, a), NEW t, NEW f \in [1..Len(t) -> 1..Len(s)],
           \A i \in 1..Len(t) : t[i] = s[f[i]],
           \A i, j \in 1..Len(t) : i < j => f[i] < f[j]
    PROVE  Follows(t, a)
<1>1. \A i \in 1..Len(t) : f[i] \in 1..Len(s)
  OBVIOUS
<1> QED
  BY Zenon, <1>1 DEF Follows

\* What has left first is in order.
LEMMA FollowsFirst ==
    ASSUME NEW S, NEW s \in Seq(S), NEW t \in Seq(S), NEW a, Follows(s \o t, a)
    PROVE  Follows(s, a)
<1> DEFINE f == [i \in 1..Len(s) |-> i]
<1>1. Len(s) \in Nat /\ Len(t) \in Nat /\ Len(s \o t) = Len(s) + Len(t)
  OBVIOUS
<1>2. f \in [1..Len(s) -> 1..Len(s \o t)]
  BY <1>1
<1>3. \A i \in 1..Len(s) : s[i] = (s \o t)[f[i]]
  BY <1>1
<1>4. \A i, j \in 1..Len(s) : i < j => f[i] < f[j]
  OBVIOUS
<1> HIDE DEF f
<1> QED
  BY Zenon, <1>2, <1>3, <1>4, FollowsFewer

\* An envelope that Redis does not take leaves the others in order.
LEMMA FollowsWithout ==
    ASSUME NEW S, NEW s \in Seq(S), NEW t \in Seq(S), NEW x \in S, NEW a,
           Follows(s \o (<<x>> \o t), a)
    PROVE  Follows(s \o t, a)
<1> DEFINE u == <<x>> \o t
           f == [i \in 1..(Len(s) + Len(t)) |-> IF i <= Len(s) THEN i ELSE i + 1]
<1>1. /\ Len(s) \in Nat /\ Len(t) \in Nat /\ u \in Seq(S)
      /\ Len(u) = Len(t) + 1 /\ \A i \in 1..Len(t) : u[i + 1] = t[i]
  OBVIOUS
<1> HIDE DEF u
<1>2. /\ Len(s \o t) = Len(s) + Len(t) /\ Len(s \o u) = Len(s) + Len(u)
      /\ \A i \in 1..(Len(s) + Len(t)) : (s \o t)[i] = IF i <= Len(s) THEN s[i] ELSE t[i - Len(s)]
      /\ \A i \in 1..(Len(s) + Len(u)) : (s \o u)[i] = IF i <= Len(s) THEN s[i] ELSE u[i - Len(s)]
  BY <1>1, Joined
<1>3. f \in [1..Len(s \o t) -> 1..Len(s \o u)]
  BY <1>1, <1>2
<1>4. ASSUME NEW i \in 1..Len(s \o t) PROVE (s \o t)[i] = (s \o u)[f[i]]
  <2>1. CASE i <= Len(s)
    BY <1>1, <1>2, <2>1
  <2>2. CASE ~(i <= Len(s))
    <3>1. f[i] = i + 1 /\ i + 1 \in 1..(Len(s) + Len(u)) /\ ~(i + 1 <= Len(s))
      BY <1>1, <1>2, <2>2
    <3>2. (s \o u)[i + 1] = u[i + 1 - Len(s)] /\ (s \o t)[i] = t[i - Len(s)]
      BY <1>1, <1>2, <2>2, <3>1
    <3>3. i - Len(s) \in 1..Len(t) /\ i + 1 - Len(s) = (i - Len(s)) + 1
      BY <1>1, <1>2, <2>2
    <3> QED
      BY Zenon, <1>1, <3>1, <3>2, <3>3
  <2> QED
    BY Zenon, <2>1, <2>2
<1>5. \A i, j \in 1..Len(s \o t) : i < j => f[i] < f[j]
  BY <1>1, <1>2
<1> HIDE DEF f
<1>6. Follows(s \o u, a)
  BY Zenon DEF u
<1> QED
  BY Zenon, <1>3, <1>4, <1>5, <1>6, FollowsFewer

\* The stages of the line are queues of envelopes.
LEMMA LineType ==
    ASSUME PubTypeOK
    PROVE  /\ Carried \in Seq(Envelope) /\ Carried \o staging \in Seq(Envelope)
           /\ queue \o (Carried \o staging) \in Seq(Envelope)
           /\ Rest \in Seq(Envelope) /\ Line \in Seq(Envelope)
<1>1. Carried \in Seq(Envelope)
  <2>1. CASE forwarder.at = "sending"
    <3>1. forwarder.env \in Envelope
      BY Zenon, <2>1 DEF PubTypeOK
    <3>2. <<forwarder.env>> \in Seq(Envelope)
      BY <3>1
    <3> QED
      BY Zenon, <2>1, <3>2 DEF Carried
  <2>2. CASE forwarder.at # "sending"
    BY <2>2 DEF Carried
  <2> QED
    BY Zenon, <2>1, <2>2
<1>2. staging \in Seq(Envelope) /\ queue \in Seq(Envelope) /\ batch \in Seq(Envelope) /\ out \in Seq(Envelope)
  BY Zenon DEF PubTypeOK
<1>3. Carried \o staging \in Seq(Envelope)
  BY Zenon, <1>1, <1>2, Joined
<1>4. queue \o (Carried \o staging) \in Seq(Envelope)
  BY Zenon, <1>2, <1>3, Joined
<1>5. Rest \in Seq(Envelope)
  BY Zenon, <1>2, <1>4, Joined DEF Rest
<1>6. Line \in Seq(Envelope)
  BY Zenon, <1>2, <1>5, Joined DEF Line
<1> QED
  BY Zenon, <1>1, <1>3, <1>4, <1>5, <1>6

\* spawn_publish puts an envelope that fits at the end of the line, whichever
\* way it takes, and counts any other as dropped.
LEMMA SpawnKeeps ==
    ASSUME PubTypeOK, OrderInv, NEW e \in Envelope, ~Holds(accepted, e),
           SpawnPublish(e), UNCHANGED <<mode, out>>
    PROVE  /\ queue' \in Seq(Envelope) /\ staging' \in Seq(Envelope) /\ accepted' \in Seq(Envelope)
           /\ stagedBytes' = Len(staging') + (IF forwarder'.at = "idle" THEN 0 ELSE 1)
           /\ Follows(Line', accepted')
           /\ mode' = "best_effort" => staging' = <<>> /\ forwarder'.at = "idle"
           /\ NoRepeat(accepted')
           /\ \A x : Holds(accepted', x) => Holds(accepted, x) \/ x = e
           /\ \A x : Holds(queue, x) => Holds(queue', x)
           /\ \A x : Holds(staging, x) => Holds(staging', x)
           /\ \A x : Holds(queue', x) => Holds(queue, x) \/ x = e
           /\ \A x : Holds(staging', x) => Holds(staging, x) \/ x = e
           /\ dropped \subseteq dropped'
           /\ Holds(queue', e) \/ Holds(staging', e) \/ e \in dropped'
<1> DEFINE fits == IF Staged THEN stagedBytes < StagingLimit ELSE HasRoom
<1>1. /\ queue' = IF fits /\ ~Staged THEN Append(queue, e) ELSE queue
      /\ staging' = IF fits /\ Staged THEN Append(staging, e) ELSE staging
      /\ stagedBytes' = IF fits /\ Staged THEN stagedBytes + 1 ELSE stagedBytes
      /\ accepted' = IF fits THEN Append(accepted, e) ELSE accepted
      /\ dropped' = IF fits THEN dropped ELSE dropped \cup {e}
      /\ forwarder' = forwarder /\ batch' = batch
      /\ mode' = mode /\ out' = out
  BY Zenon DEF SpawnPublish
<1> HIDE DEF fits
<1>2. Carried' = Carried
  BY Zenon, <1>1 DEF Carried
<1>3. /\ staging \in Seq(Envelope) /\ queue \in Seq(Envelope) /\ accepted \in Seq(Envelope)
      /\ batch \in Seq(Envelope) /\ out \in Seq(Envelope)
      /\ Carried \in Seq(Envelope) /\ Carried \o staging \in Seq(Envelope)
      /\ queue \o (Carried \o staging) \in Seq(Envelope)
      /\ Rest \in Seq(Envelope) /\ Line \in Seq(Envelope)
  BY Zenon, LineType DEF PubTypeOK
<1>4. CASE ~fits
  <2>1. /\ queue' = queue /\ staging' = staging /\ accepted' = accepted /\ stagedBytes' = stagedBytes
        /\ dropped' = dropped \cup {e}
    BY Zenon, <1>1, <1>4
  <2>2. Line' = Line
    BY Zenon, <1>1, <1>2, <2>1 DEF Line, Rest
  <2>3. stagedBytes' = Len(staging') + (IF forwarder'.at = "idle" THEN 0 ELSE 1)
    BY Zenon, <1>1, <2>1 DEF PubTypeOK
  <2>4. dropped \subseteq dropped' /\ e \in dropped'
    BY Zenon, <2>1
  <2> QED
    BY Zenon, <1>1, <1>3, <2>1, <2>2, <2>3, <2>4 DEF OrderInv
<1>5. CASE fits
  <2>1. accepted' = Append(accepted, e) /\ dropped' = dropped
    BY Zenon, <1>1, <1>5
  <2>2. accepted' \in Seq(Envelope) /\ NoRepeat(accepted') /\ \A x : Holds(accepted', x) => Holds(accepted, x) \/ x = e
    BY Zenon, <1>3, <2>1, AppendHolds DEF OrderInv
  <2>3. Line' = Append(Line, e) => Follows(Line', accepted')
    BY Zenon, <1>3, <2>1, FollowsAppend DEF OrderInv
  <2>4. CASE Staged
    <3>1. queue' = queue /\ staging' = Append(staging, e) /\ stagedBytes' = stagedBytes + 1
      BY Zenon, <1>1, <1>5, <2>4
    <3>2. /\ staging' \in Seq(Envelope) /\ Len(staging') = Len(staging) + 1
          /\ \A x : Holds(staging', x) <=> Holds(staging, x) \/ x = e
      BY Zenon, <1>3, <3>1, AppendHolds
    <3>3. Carried \o staging' = Append(Carried \o staging, e)
      <4>1. Carried \in Seq(Envelope) /\ staging \in Seq(Envelope)
        BY Zenon, <1>3
      <4> QED
        BY <4>1, <3>1, AppendLast
    <3>4. queue \o (Carried \o staging') = Append(queue \o (Carried \o staging), e)
      <4>1. queue \in Seq(Envelope) /\ Carried \o staging \in Seq(Envelope)
        BY Zenon, <1>3
      <4> QED
        BY SMTT(30), <4>1, <3>3, AppendLast
    <3>5. Rest' = Append(Rest, e)
      <4>1. Rest' = batch \o (queue \o (Carried \o staging'))
        BY Zenon, <1>1, <1>2, <3>1 DEF Rest
      <4>2. PICK q, u : q = queue \o (Carried \o staging) /\ u = queue \o (Carried \o staging')
        OBVIOUS
      <4>3. batch \in Seq(Envelope) /\ q \in Seq(Envelope) /\ u = Append(q, e)
        BY Zenon, <1>3, <3>4, <4>2
      <4>4. batch \o u = Append(batch \o q, e)
        BY <4>3, AppendLast
      <4> QED
        BY Zenon, <4>1, <4>2, <4>4 DEF Rest
    <3>6. Line' = Append(Line, e)
      <4>1. out \o Rest' = Append(out \o Rest, e)
        <5>1. out \in Seq(Envelope) /\ Rest \in Seq(Envelope)
          BY Zenon, <1>3
        <5> QED
          BY <5>1, <3>5, AppendLast
      <4> QED
        BY Zenon, <1>1, <4>1 DEF Line
    <3>7. stagedBytes' = Len(staging') + (IF forwarder'.at = "idle" THEN 0 ELSE 1)
      <4>1. Len(staging) \in Nat /\ stagedBytes = Len(staging) + (IF forwarder.at = "idle" THEN 0 ELSE 1)
        <5>1. staging \in Seq(Envelope)
              /\ stagedBytes = Len(staging) + (IF forwarder.at = "idle" THEN 0 ELSE 1)
          BY Zenon, <1>3 DEF PubTypeOK
        <5>2. Len(staging) \in Nat
          BY <5>1
        <5> QED
          BY Zenon, <5>1, <5>2
      <4>2. forwarder' = forwarder /\ stagedBytes' = stagedBytes + 1 /\ Len(staging') = Len(staging) + 1
        BY Zenon, <1>1, <3>1, <3>2
      <4> QED
        BY <4>1, <4>2
    <3>8. mode' # "best_effort"
      BY <1>1, <2>4 DEF Staged
    <3> QED
      BY Zenon, <1>3, <2>1, <2>2, <2>3, <3>1, <3>2, <3>6, <3>7, <3>8
  <2>5. CASE ~Staged
    <3>1. queue' = Append(queue, e) /\ staging' = staging /\ stagedBytes' = stagedBytes
      BY Zenon, <1>1, <1>5, <2>5
    <3>2. /\ queue' \in Seq(Envelope)
          /\ \A x : Holds(queue', x) <=> Holds(queue, x) \/ x = e
      BY Zenon, <1>3, <3>1, AppendHolds
    <3>3. mode = "best_effort"
      BY Zenon, <2>5 DEF Staged, PubTypeOK
    <3>4. staging = <<>> /\ forwarder.at = "idle"
      BY Zenon, <3>3 DEF OrderInv
    <3>5. Carried = <<>>
      BY <3>4 DEF Carried
    <3>6. Carried \o staging = <<>>
      BY <3>4, <3>5
    <3>7. queue \o (Carried \o staging) = queue /\ queue' \o (Carried \o staging) = queue'
      BY Zenon, <1>3, <3>2, <3>6, JoinedToNone
    <3>8. Rest' = Append(Rest, e)
      <4>1. Rest' = batch \o queue' /\ Rest = batch \o queue
        BY Zenon, <1>1, <1>2, <3>1, <3>7 DEF Rest
      <4>2. batch \o queue' = Append(batch \o queue, e)
        <5>1. batch \in Seq(Envelope) /\ queue \in Seq(Envelope)
          BY Zenon, <1>3
        <5> QED
          BY <5>1, <3>1, AppendLast
      <4> QED
        BY Zenon, <4>1, <4>2
    <3>9. Line' = Append(Line, e)
      <4>1. out \o Rest' = Append(out \o Rest, e)
        <5>1. out \in Seq(Envelope) /\ Rest \in Seq(Envelope)
          BY Zenon, <1>3
        <5> QED
          BY <5>1, <3>8, AppendLast
      <4> QED
        BY Zenon, <1>1, <4>1 DEF Line
    <3>10. stagedBytes' = Len(staging') + (IF forwarder'.at = "idle" THEN 0 ELSE 1)
      BY Zenon, <1>1, <3>1 DEF PubTypeOK
    <3> QED
      BY Zenon, <1>1, <1>3, <2>1, <2>2, <2>3, <3>1, <3>2, <3>4, <3>9, <3>10
  <2> QED
    BY Zenon, <2>4, <2>5
<1> QED
  BY Zenon, <1>4, <1>5

\* A step that leaves the stages alone leaves the line alone.
LEMMA LineStays ==
    ASSUME UNCHANGED <<queue, staging, forwarder, batch, out, dropped>>
    PROVE  /\ Line' = Line
           /\ \A e : InForwarder(e)' <=> InForwarder(e)
           /\ \A e : /\ Holds(out, e)' <=> Holds(out, e)
                     /\ Holds(batch, e)' <=> Holds(batch, e)
                     /\ Holds(queue, e)' <=> Holds(queue, e)
                     /\ Holds(staging, e)' <=> Holds(staging, e)
  BY Zenon DEF Line, Rest, Carried, InForwarder, Holds

\* A request that was answered is one that has been handled.
LEMMA HandleStep ==
    ASSUME PubInv, NEW r \in Req, HandleRequest(r)
    PROVE  PubInv'
<1>1. /\ shutdown # "exited" /\ request[r] = "in flight" /\ SpawnPublish(r)
      /\ request' = [request EXCEPT ![r] = "answered"]
      /\ UNCHANGED <<mode, out, shutdown, poll, deadline, overtime, inHand>>
  BY Zenon DEF HandleRequest, Running
<1>2. UNCHANGED <<forwarder, batch, publisher, publishing>>
  BY Zenon, <1>1 DEF SpawnPublish
<1>3. r \in Envelope /\ ~Holds(accepted, r)
  BY <1>1 DEF PubInv, OrderInv, Envelope
<1>4. /\ queue' \in Seq(Envelope) /\ staging' \in Seq(Envelope) /\ accepted' \in Seq(Envelope)
      /\ stagedBytes' = Len(staging') + (IF forwarder'.at = "idle" THEN 0 ELSE 1)
      /\ Follows(Line', accepted')
      /\ mode' = "best_effort" => staging' = <<>> /\ forwarder'.at = "idle"
      /\ NoRepeat(accepted')
      /\ \A x : Holds(accepted', x) => Holds(accepted, x) \/ x = r
      /\ \A x : Holds(queue, x) => Holds(queue', x)
      /\ \A x : Holds(staging, x) => Holds(staging', x)
      /\ dropped \subseteq dropped'
      /\ Holds(queue', r) \/ Holds(staging', r) \/ r \in dropped'
  BY Zenon, <1>1, <1>3, SpawnKeeps DEF PubInv
<1>5. request \in [Req -> {"none", "reading", "refused", "in flight", "answered", "aborted"}]
  BY Zenon DEF PubInv, PubTypeOK
<1>6. request'[r] = "answered" /\ \A q \in Req : q # r => request'[q] = request[q]
  BY Zenon, <1>1, <1>5
<1>7. PubTypeOK'
  <2>1. request' \in [Req -> {"none", "reading", "refused", "in flight", "answered", "aborted"}]
    BY <1>1, <1>5
  <2> QED
    BY ZenonT(30), <1>1, <1>2, <1>4, <2>1 DEF PubInv, PubTypeOK
<1>8. OrderInv'
  BY Zenon, <1>4, <1>6 DEF PubInv, OrderInv
<1>9. AnsweredInv'
  <2>1. \A e : InForwarder(e)' <=> InForwarder(e)
    BY Zenon, <1>2 DEF InForwarder
  <2>2. \A e : (Holds(out, e)' <=> Holds(out, e)) /\ (Holds(batch, e)' <=> Holds(batch, e))
    BY Zenon, <1>1, <1>2
  <2> QED
    BY Zenon, <1>4, <1>6, <2>1, <2>2 DEF PubInv, AnsweredInv
<1>10. BatchInv'
  BY Zenon, <1>2 DEF PubInv, BatchInv
<1>11. DrainInv'
  <2>1. ~(shutdown \in {"flushing", "exited"} /\ ~overtime)
    BY <1>1 DEF PubInv, DrainInv, RequestsAreDone
  <2> QED
    BY <1>1, <2>1 DEF DrainInv, AnsweredIsPublished
<1> QED
  BY Zenon, <1>7, <1>8, <1>9, <1>10, <1>11 DEF PubInv

\* Connection tasks publish at any time, but nothing that a request waits for.
LEMMA WsStep ==
    ASSUME PubInv, NEW e \in Ws, WsPublish(e)
    PROVE  PubInv'
<1>1. /\ shutdown # "exited" /\ e \notin Range(accepted) /\ SpawnPublish(e)
      /\ UNCHANGED <<mode, request, out, shutdown, poll, deadline, overtime, inHand>>
  BY Zenon DEF WsPublish, Running
<1>2. UNCHANGED <<forwarder, batch, publisher, publishing>>
  BY Zenon, <1>1 DEF SpawnPublish
<1>3. e \in Envelope /\ e \notin Req /\ ~Holds(accepted, e)
  <2>1. e \in Envelope /\ e \notin Req
    BY PublisherConstants DEF Envelope
  <2>2. accepted \in Seq(Envelope)
    BY Zenon DEF PubInv, PubTypeOK
  <2>3. Range(accepted) = {accepted[i] : i \in 1..Len(accepted)}
    BY <2>2, RangeOfQueue
  <2> QED
    BY Zenon, <1>1, <2>1, <2>3 DEF Holds
<1>4. /\ queue' \in Seq(Envelope) /\ staging' \in Seq(Envelope) /\ accepted' \in Seq(Envelope)
      /\ stagedBytes' = Len(staging') + (IF forwarder'.at = "idle" THEN 0 ELSE 1)
      /\ Follows(Line', accepted')
      /\ mode' = "best_effort" => staging' = <<>> /\ forwarder'.at = "idle"
      /\ NoRepeat(accepted')
      /\ \A x : Holds(accepted', x) => Holds(accepted, x) \/ x = e
      /\ \A x : Holds(queue, x) => Holds(queue', x)
      /\ \A x : Holds(staging, x) => Holds(staging', x)
      /\ \A x : Holds(queue', x) => Holds(queue, x) \/ x = e
      /\ \A x : Holds(staging', x) => Holds(staging, x) \/ x = e
      /\ dropped \subseteq dropped'
  BY Zenon, <1>1, <1>3, SpawnKeeps DEF PubInv
<1>5. PubTypeOK'
  BY ZenonT(30), <1>1, <1>2, <1>4 DEF PubInv, PubTypeOK
<1>6. OrderInv'
  BY Zenon, <1>1, <1>3, <1>4 DEF PubInv, OrderInv
<1>7. /\ \A x : InForwarder(x)' <=> InForwarder(x)
      /\ \A x : (Holds(out, x)' <=> Holds(out, x)) /\ (Holds(batch, x)' <=> Holds(batch, x))
  BY Zenon, <1>1, <1>2 DEF InForwarder
<1>8. AnsweredInv'
  BY Zenon, <1>1, <1>4, <1>7 DEF PubInv, AnsweredInv
<1>9. BatchInv'
  BY Zenon, <1>2 DEF PubInv, BatchInv
<1>10. DrainInv'
  <2>1. RequestsAreDone' <=> RequestsAreDone
    BY Zenon, <1>1 DEF RequestsAreDone
  <2>2. AnsweredIsPublished'
    BY Zenon, <1>1 DEF AnsweredIsPublished
  <2> QED
    BY Zenon, <1>1, <1>3, <1>4, <1>7, <2>1, <2>2 DEF PubInv, DrainInv
<1> QED
  BY Zenon, <1>5, <1>6, <1>8, <1>9, <1>10 DEF PubInv

\* The forwarder takes the first staged envelope in hand.
LEMMA TakeStep ==
    ASSUME PubInv, ForwarderTake
    PROVE  PubInv'
<1>1. /\ shutdown # "exited" /\ forwarder.at = "idle" /\ staging # <<>>
      /\ forwarder' = [at |-> "sending", env |-> Head(staging)]
      /\ staging' = Tail(staging)
      /\ UNCHANGED <<mode, request, queue, stagedBytes, batch, publisher, publishing, out,
                     dropped, shutdown, poll, deadline, accepted, overtime, inHand>>
  BY Zenon DEF ForwarderTake, Running
<1>2. staging \in Seq(Envelope)
  BY Zenon DEF PubInv, PubTypeOK
<1>3. /\ Head(staging) \in Envelope /\ staging' \in Seq(Envelope)
      /\ Len(staging') = Len(staging) - 1
      /\ staging = <<Head(staging)>> \o staging'
      /\ \A e : Holds(staging, e) <=> e = Head(staging) \/ Holds(staging', e)
  BY Zenon, <1>1, <1>2, HeadOrTail
<1>4. forwarder'.at = "sending" /\ forwarder'.env = Head(staging)
  BY <1>1
<1>5. \A e : InForwarder(e)' <=> e = Head(staging)
  BY Zenon, <1>4 DEF InForwarder
<1>6. PubTypeOK'
  <2>1. forwarder' \in [at : {"idle", "sending", "sent"}, env : Envelope \cup {Nothing}]
    BY <1>1, <1>3
  <2>2. stagedBytes' = Len(staging') + (IF forwarder'.at = "idle" THEN 0 ELSE 1)
    <3>1. Len(staging) \in Nat
      BY <1>2
    <3>2. stagedBytes' = Len(staging) + 0
      BY Zenon, <1>1 DEF PubInv, PubTypeOK
    <3> QED
      BY <1>3, <1>4, <3>1, <3>2
  <2> QED
    BY ZenonT(30), <1>1, <1>3, <1>4, <2>1, <2>2 DEF PubInv, PubTypeOK
<1>7. Line' = Line
  <2>1. Carried = <<>> /\ Carried' = <<Head(staging)>>
    BY <1>1, <1>4 DEF Carried
  <2>2. Carried \o staging = staging
    BY <1>2, <2>1, JoinedToNone
  <2>3. Carried' \o staging' = Carried \o staging
    BY Zenon, <1>3, <2>1, <2>2
  <2> QED
    BY Zenon, <1>1, <2>3 DEF Line, Rest
<1>8. OrderInv'
  <2>1. mode # "best_effort"
    BY <1>1 DEF PubInv, OrderInv
  <2> QED
    BY Zenon, <1>1, <1>7, <2>1 DEF PubInv, OrderInv
<1>9. \A e : /\ Holds(out, e)' <=> Holds(out, e)
             /\ Holds(batch, e)' <=> Holds(batch, e)
             /\ Holds(queue, e)' <=> Holds(queue, e)
  BY Zenon, <1>1
<1>10. AnsweredInv'
  BY Zenon, <1>1, <1>3, <1>5, <1>9 DEF PubInv, AnsweredInv, InForwarder
<1>11. BatchInv'
  BY Zenon, <1>1 DEF PubInv, BatchInv
<1>12. DrainInv'
  <2>1. RequestsAreDone' <=> RequestsAreDone
    BY Zenon, <1>1 DEF RequestsAreDone
  <2>2. AnsweredIsPublished'
    BY Zenon, <1>1 DEF AnsweredIsPublished
  <2> QED
    BY Zenon, <1>1, <1>3, <1>5, <1>9, <2>1, <2>2 DEF PubInv, DrainInv
<1> QED
  BY Zenon, <1>6, <1>8, <1>10, <1>11, <1>12 DEF PubInv

\* It sends it to the publish queue.
LEMMA SendStep ==
    ASSUME PubInv, ForwarderSend
    PROVE  PubInv'
<1>1. /\ shutdown # "exited" /\ forwarder.at = "sending"
      /\ queue' = Append(queue, forwarder.env)
      /\ forwarder' = [at |-> "sent", env |-> Nothing]
      /\ UNCHANGED <<mode, request, staging, stagedBytes, batch, publisher, publishing, out,
                     dropped, shutdown, poll, deadline, accepted, overtime, inHand>>
  BY Zenon DEF ForwarderSend, Running
<1>2. queue \in Seq(Envelope) /\ staging \in Seq(Envelope) /\ forwarder.env \in Envelope
  BY Zenon, <1>1 DEF PubInv, PubTypeOK
<1>3. /\ queue' \in Seq(Envelope)
      /\ \A e : Holds(queue', e) <=> Holds(queue, e) \/ e = forwarder.env
  <2>1. PICK x : x = forwarder.env
    OBVIOUS
  <2>2. x \in Envelope /\ queue' = Append(queue, x)
    BY Zenon, <1>1, <1>2, <2>1
  <2>3. queue' \in Seq(Envelope) /\ \A e : Holds(queue', e) <=> Holds(queue, e) \/ e = x
    BY Zenon, <1>2, <2>2, AppendHolds
  <2> QED
    BY Zenon, <2>1, <2>3
<1>4. forwarder'.at = "sent"
  BY <1>1
<1>5. \A e : /\ ~InForwarder(e)'
             /\ InForwarder(e) <=> e = forwarder.env
  BY Zenon, <1>1, <1>4 DEF InForwarder
<1>6. PubTypeOK'
  <2>1. forwarder' \in [at : {"idle", "sending", "sent"}, env : Envelope \cup {Nothing}]
    BY <1>1
  <2>2. stagedBytes' = Len(staging') + (IF forwarder'.at = "idle" THEN 0 ELSE 1)
    <3>1. stagedBytes = Len(staging) + (IF forwarder.at = "idle" THEN 0 ELSE 1)
      BY Zenon DEF PubInv, PubTypeOK
    <3> QED
      BY <1>1, <1>4, <3>1
  <2> QED
    BY Zenon, <1>1, <1>3, <1>4, <2>1, <2>2 DEF PubInv, PubTypeOK
<1>7. Line' = Line
  <2>1. Carried = <<forwarder.env>> /\ Carried' = <<>>
    BY <1>1, <1>4 DEF Carried
  <2>2. Carried' \o staging' = staging
    BY <1>1, <1>2, <2>1, JoinedToNone
  <2>3. Append(queue, forwarder.env) \o staging = queue \o (<<forwarder.env>> \o staging)
    BY <1>2, HeadMoves
  <2>4. (queue \o (Carried \o staging))' = queue \o (Carried \o staging)
    BY Zenon, <1>1, <2>1, <2>2, <2>3
  <2> QED
    BY Zenon, <1>1, <2>4 DEF Line, Rest
<1>8. OrderInv'
  <2>1. mode # "best_effort"
    BY <1>1 DEF PubInv, OrderInv
  <2> QED
    BY Zenon, <1>1, <1>7, <2>1 DEF PubInv, OrderInv
<1>9. \A e : /\ Holds(out, e)' <=> Holds(out, e)
             /\ Holds(batch, e)' <=> Holds(batch, e)
             /\ Holds(staging, e)' <=> Holds(staging, e)
  BY Zenon, <1>1
<1>10. AnsweredInv'
  BY Zenon, <1>1, <1>3, <1>5, <1>9 DEF PubInv, AnsweredInv
<1>11. BatchInv'
  BY Zenon, <1>1 DEF PubInv, BatchInv
<1>12. DrainInv'
  <2>1. RequestsAreDone' <=> RequestsAreDone
    BY Zenon, <1>1 DEF RequestsAreDone
  <2>2. AnsweredIsPublished'
    BY Zenon, <1>1 DEF AnsweredIsPublished
  <2> QED
    BY Zenon, <1>1, <1>3, <1>5, <1>9, <2>1, <2>2 DEF PubInv, DrainInv
<1> QED
  BY Zenon, <1>6, <1>8, <1>10, <1>11, <1>12 DEF PubInv

\* It gives the budget back.
LEMMA ReleaseStep ==
    ASSUME PubInv, ForwarderRelease
    PROVE  PubInv'
<1>1. /\ shutdown # "exited" /\ forwarder.at = "sent"
      /\ stagedBytes' = stagedBytes - 1
      /\ forwarder' = [at |-> "idle", env |-> Nothing]
      /\ UNCHANGED <<mode, request, queue, staging, batch, publisher, publishing, out, dropped,
                     shutdown, poll, deadline, accepted, overtime, inHand>>
  BY Zenon DEF ForwarderRelease, Running
<1>2. forwarder'.at = "idle"
  BY <1>1
<1>3. \A e : ~InForwarder(e)' /\ ~InForwarder(e)
  BY <1>1, <1>2 DEF InForwarder
<1>4. PubTypeOK'
  <2>1. forwarder' \in [at : {"idle", "sending", "sent"}, env : Envelope \cup {Nothing}]
    BY <1>1
  <2>2. stagedBytes' = Len(staging') + (IF forwarder'.at = "idle" THEN 0 ELSE 1)
    <3>1. staging \in Seq(Envelope) /\ stagedBytes = Len(staging) + (IF forwarder.at = "idle" THEN 0 ELSE 1)
      BY Zenon DEF PubInv, PubTypeOK
    <3>2. Len(staging) \in Nat
      BY <3>1
    <3> QED
      BY <1>1, <1>2, <3>1, <3>2
  <2> QED
    BY Zenon, <1>1, <1>2, <2>1, <2>2 DEF PubInv, PubTypeOK
<1>5. Line' = Line
  <2>1. Carried = <<>> /\ Carried' = <<>>
    BY <1>1, <1>2 DEF Carried
  <2> QED
    BY Zenon, <1>1, <2>1 DEF Line, Rest
<1>6. OrderInv'
  BY Zenon, <1>1, <1>2, <1>5 DEF PubInv, OrderInv
<1>7. \A e : /\ Holds(out, e)' <=> Holds(out, e)
             /\ Holds(batch, e)' <=> Holds(batch, e)
             /\ Holds(queue, e)' <=> Holds(queue, e)
             /\ Holds(staging, e)' <=> Holds(staging, e)
  BY Zenon, <1>1
<1>8. AnsweredInv'
  BY Zenon, <1>1, <1>3, <1>7 DEF PubInv, AnsweredInv
<1>9. BatchInv'
  BY Zenon, <1>1 DEF PubInv, BatchInv
<1>10. DrainInv'
  <2>1. RequestsAreDone' <=> RequestsAreDone
    BY Zenon, <1>1 DEF RequestsAreDone
  <2>2. AnsweredIsPublished'
    BY Zenon, <1>1 DEF AnsweredIsPublished
  <2> QED
    BY Zenon, <1>1, <1>3, <1>7, <2>1, <2>2 DEF PubInv, DrainInv
<1> QED
  BY Zenon, <1>4, <1>6, <1>8, <1>9, <1>10 DEF PubInv

\* recv_many moves the front of the queue into the empty batch.
LEMMA BatchStep ==
    ASSUME PubInv, PublisherTake
    PROVE  PubInv'
<1> DEFINE n == IF Len(queue) < BatchMax THEN Len(queue) ELSE BatchMax
<1>1. /\ shutdown # "exited" /\ publisher = "idle" /\ queue # <<>>
      /\ batch' = SubSeq(queue, 1, n) /\ queue' = SubSeq(queue, n + 1, Len(queue))
      /\ publisher' = "taken"
      /\ UNCHANGED <<mode, request, staging, stagedBytes, forwarder, publishing, out, dropped,
                     shutdown, poll, deadline, accepted, overtime, inHand>>
  BY Zenon DEF PublisherTake, Running
<1>2. queue \in Seq(Envelope) /\ batch = <<>>
  BY Zenon, <1>1 DEF PubInv, PubTypeOK, BatchInv
<1>3. n \in 1..Len(queue)
  <2>1. Len(queue) \in Nat /\ Len(queue) # 0
    BY <1>1, <1>2
  <2>2. BatchMax \in Nat /\ BatchMax # 0
    BY PublisherConstants
  <2> QED
    BY <2>1, <2>2
<1> HIDE DEF n
<1>4. /\ batch' \in Seq(Envelope) /\ queue' \in Seq(Envelope) /\ batch' # <<>>
      /\ queue = batch' \o queue'
      /\ \A e : Holds(queue, e) <=> Holds(batch', e) \/ Holds(queue', e)
  BY Zenon, <1>1, <1>2, <1>3, FrontAndRest
<1>5. PubTypeOK'
  BY ZenonT(30), <1>1, <1>4 DEF PubInv, PubTypeOK
<1>6. Line' = Line
  <2>1. PICK x : x = Carried \o staging
    OBVIOUS
  <2>2. (Carried \o staging)' = x
    BY Zenon, <1>1, <2>1 DEF Carried
  <2>3. x \in Seq(Envelope) /\ queue \o x \in Seq(Envelope)
    BY Zenon, <2>1, LineType DEF PubInv
  <2>4. (batch' \o queue') \o x = batch' \o (queue' \o x)
    <3>1. batch' \in Seq(Envelope) /\ queue' \in Seq(Envelope) /\ x \in Seq(Envelope)
      BY Zenon, <1>4, <2>3
    <3> QED
      BY SMTT(30), <3>1, JoinedThree
  <2>5. batch \o (queue \o x) = queue \o x
    BY <1>2, <2>3, JoinedToNone
  <2>6. Rest' = Rest
    BY Zenon, <1>4, <2>1, <2>2, <2>4, <2>5 DEF Rest
  <2> QED
    BY Zenon, <1>1, <2>6 DEF Line
<1>7. OrderInv'
  BY Zenon, <1>1, <1>6 DEF PubInv, OrderInv
<1>8. \A e : /\ Holds(out, e)' <=> Holds(out, e)
             /\ Holds(staging, e)' <=> Holds(staging, e)
             /\ InForwarder(e)' <=> InForwarder(e)
  BY Zenon, <1>1 DEF InForwarder
<1>9. \A e : ~Holds(batch, e)
  BY <1>2 DEF Holds
<1>10. AnsweredInv'
  BY Zenon, <1>1, <1>4, <1>8, <1>9 DEF PubInv, AnsweredInv
<1>11. BatchInv'
  BY <1>1, <1>4 DEF BatchInv
<1>12. DrainInv'
  <2>1. RequestsAreDone' <=> RequestsAreDone
    BY Zenon, <1>1 DEF RequestsAreDone
  <2>2. AnsweredIsPublished'
    BY Zenon, <1>1 DEF AnsweredIsPublished
  <2> QED
    BY Zenon, <1>1, <1>4, <1>8, <2>1, <2>2 DEF PubInv, DrainInv
<1> QED
  BY Zenon, <1>5, <1>7, <1>10, <1>11, <1>12 DEF PubInv

\* What a step of the publisher leaves alone.
LEMMA PublisherSteps ==
    ASSUME PubInv, shutdown # "exited", publisher = "publishing", batch # <<>>, batch' = Tail(batch),
           UNCHANGED <<mode, request, queue, staging, stagedBytes, forwarder, publisher, publishing,
                       shutdown, poll, deadline, accepted, overtime, inHand>>,
           out' \in Seq(Envelope), Follows(Line', accepted),
           \A e : Holds(out, e) => Holds(out', e),
           dropped \subseteq dropped', Holds(out', Head(batch)) \/ Head(batch) \in dropped'
    PROVE  PubInv'
<1>1. batch \in Seq(Envelope)
  BY Zenon DEF PubInv, PubTypeOK
<1>2. /\ batch' \in Seq(Envelope)
      /\ \A e : Holds(batch, e) <=> e = Head(batch) \/ Holds(batch', e)
  BY Zenon, <1>1, HeadOrTail
<1>3. PubTypeOK'
  BY ZenonT(30), <1>2 DEF PubInv, PubTypeOK
<1>4. OrderInv'
  BY Zenon DEF PubInv, OrderInv
<1>5. \A e : /\ Holds(queue, e)' <=> Holds(queue, e)
             /\ Holds(staging, e)' <=> Holds(staging, e)
             /\ InForwarder(e)' <=> InForwarder(e)
  BY Zenon DEF InForwarder
<1>6. AnsweredInv'
  BY Zenon, <1>2, <1>5 DEF PubInv, AnsweredInv
<1>7. BatchInv'
  BY DEF PubInv, BatchInv
<1>8. DrainInv'
  <2>1. RequestsAreDone' <=> RequestsAreDone
    BY Zenon DEF RequestsAreDone
  <2>2. AnsweredIsPublished'
    BY Zenon DEF AnsweredIsPublished
  <2> QED
    BY Zenon, <1>5, <2>1, <2>2 DEF PubInv, DrainInv
<1> QED
  BY Zenon, <1>3, <1>4, <1>6, <1>7, <1>8 DEF PubInv

\* Redis takes the first envelope of the batch, or never does.
LEMMA PublishStep ==
    ASSUME PubInv, PublisherPublish \/ PublisherTimeout
    PROVE  PubInv'
<1>1. /\ shutdown # "exited" /\ publisher = "publishing" /\ batch # <<>>
      /\ batch' = Tail(batch)
      /\ UNCHANGED <<mode, request, queue, staging, stagedBytes, forwarder, publisher, publishing,
                     shutdown, poll, deadline, accepted, overtime, inHand>>
  BY Zenon DEF PublisherPublish, PublisherTimeout, Running
<1>2. PICK h, t, x, y : h = Head(batch) /\ t = Tail(batch) /\ x = queue \o (Carried \o staging) /\ y = t \o x
  OBVIOUS
<1>3. /\ batch \in Seq(Envelope) /\ out \in Seq(Envelope) /\ x \in Seq(Envelope)
      /\ Follows(Line, accepted)
  BY Zenon, <1>2, LineType DEF PubInv, PubTypeOK, OrderInv
<1>4. h \in Envelope /\ t \in Seq(Envelope) /\ batch = <<h>> \o t
  BY Zenon, <1>1, <1>2, <1>3, HeadOrTail
<1>5. y \in Seq(Envelope)
  BY Zenon, <1>2, <1>3, <1>4, Joined
<1>6. Line = out \o (<<h>> \o y)
  <2>1. <<h>> \in Seq(Envelope)
    BY <1>4
  <2>2. (<<h>> \o t) \o x = <<h>> \o (t \o x)
    BY <1>3, <1>4, <2>1, JoinedThree
  <2> QED
    BY Zenon, <1>2, <1>4, <2>2 DEF Line, Rest
<1>7. Line' = out' \o y
  <2>1. (queue \o (Carried \o staging))' = x
    BY Zenon, <1>1, <1>2 DEF Carried
  <2> QED
    BY Zenon, <1>1, <1>2, <2>1 DEF Line, Rest
<1>8. CASE PublisherPublish
  <2>1. out' = Append(out, h) /\ dropped' = dropped
    BY Zenon, <1>2, <1>8 DEF PublisherPublish
  <2>2. out' \in Seq(Envelope) /\ \A e : Holds(out', e) <=> Holds(out, e) \/ e = h
    BY Zenon, <1>3, <1>4, <2>1, AppendHolds
  <2>3. Append(out, h) \o y = out \o (<<h>> \o y)
    BY <1>3, <1>4, <1>5, HeadMoves
  <2>4. Follows(Line', accepted)
    BY Zenon, <1>3, <1>6, <1>7, <2>1, <2>3
  <2> QED
    BY Zenon, <1>1, <1>2, <2>1, <2>2, <2>4, PublisherSteps
<1>9. CASE PublisherTimeout
  <2>1. out' = out /\ dropped' = dropped \cup {h}
    BY Zenon, <1>2, <1>9 DEF PublisherTimeout
  <2>2. Follows(out \o (<<h>> \o y), accepted)
    BY Zenon, <1>3, <1>6
  <2>3. Follows(out \o y, accepted)
    BY Zenon, <1>3, <1>4, <1>5, <2>2, FollowsWithout
  <2>4. Follows(Line', accepted)
    BY Zenon, <1>7, <2>1, <2>3
  <2>5. out' \in Seq(Envelope) /\ (\A e : Holds(out, e) => Holds(out', e)) /\ dropped \subseteq dropped' /\ h \in dropped'
    BY Zenon, <1>3, <2>1
  <2> QED
    BY Zenon, <1>1, <1>2, <2>4, <2>5, PublisherSteps
<1> QED
  BY Zenon, <1>8, <1>9

\* publishing is stored before the batch is published, and cleared after it.
LEMMA MarkStep ==
    ASSUME PubInv, PublisherMark \/ PublisherUnmark
    PROVE  PubInv'
<1>1. /\ shutdown # "exited"
      /\ UNCHANGED <<mode, request, queue, staging, stagedBytes, forwarder, batch, out, dropped,
                     shutdown, poll, deadline, accepted, overtime, inHand>>
  BY Zenon DEF PublisherMark, PublisherUnmark, Running
<1>2. batch \in Seq(Envelope)
  BY Zenon DEF PubInv, PubTypeOK
<1>3. \/ /\ publisher = "taken" /\ publisher' = "publishing" /\ publishing' = Len(batch)
      \/ /\ publisher = "publishing" /\ batch = <<>> /\ publisher' = "idle" /\ publishing' = 0
  BY Zenon DEF PublisherMark, PublisherUnmark
<1>4. publisher' \in {"idle", "taken", "publishing"} /\ publishing' \in Nat
  BY <1>2, <1>3
<1>5. PubTypeOK'
  BY Zenon, <1>1, <1>4 DEF PubInv, PubTypeOK
<1>6. /\ Line' = Line
      /\ \A e : InForwarder(e)' <=> InForwarder(e)
      /\ \A e : /\ Holds(out, e)' <=> Holds(out, e)
                /\ Holds(batch, e)' <=> Holds(batch, e)
                /\ Holds(queue, e)' <=> Holds(queue, e)
                /\ Holds(staging, e)' <=> Holds(staging, e)
  BY Zenon, <1>1, LineStays
<1>7. OrderInv'
  BY Zenon, <1>1, <1>6 DEF PubInv, OrderInv
<1>8. AnsweredInv'
  BY Zenon, <1>1, <1>6 DEF PubInv, AnsweredInv
<1>9. BatchInv'
  BY <1>1, <1>2, <1>3 DEF PubInv, BatchInv
<1>10. DrainInv'
  <2>1. RequestsAreDone' <=> RequestsAreDone
    BY Zenon, <1>1 DEF RequestsAreDone
  <2>2. AnsweredIsPublished'
    BY Zenon, <1>1 DEF AnsweredIsPublished
  <2> QED
    BY Zenon, <1>1, <1>6, <2>1, <2>2 DEF PubInv, DrainInv
<1> QED
  BY Zenon, <1>5, <1>7, <1>8, <1>9, <1>10 DEF PubInv

\* A step of the listener, of a request before it is handled or of the main task
\* leaves the line and the answered requests as they are.
LEMMA QuietStep ==
    ASSUME PubInv, UNCHANGED <<mode, pipe, out, dropped, accepted>>,
           request' \in [Req -> {"none", "reading", "refused", "in flight", "answered", "aborted"}],
           \A r \in Req : request'[r] = "answered" <=> request[r] = "answered",
           shutdown' \in {"serving", "draining", "listener drains", "flushing", "exited"},
           shutdown' = "flushing" => poll' \in {"staged", "queue", "publishing"},
           overtime' \in BOOLEAN, inHand' \in BOOLEAN, DrainInv'
    PROVE  PubInv'
<1>1. UNCHANGED <<queue, staging, stagedBytes, forwarder, batch, publisher, publishing>>
  BY Zenon DEF pipe
<1>2. PubTypeOK'
  BY Zenon, <1>1 DEF PubInv, PubTypeOK
<1>3. /\ Line' = Line
      /\ \A e : InForwarder(e)' <=> InForwarder(e)
      /\ \A e : /\ Holds(out, e)' <=> Holds(out, e)
                /\ Holds(batch, e)' <=> Holds(batch, e)
                /\ Holds(queue, e)' <=> Holds(queue, e)
                /\ Holds(staging, e)' <=> Holds(staging, e)
  BY Zenon, <1>1, LineStays
<1>4. OrderInv'
  BY Zenon, <1>1, <1>3 DEF PubInv, OrderInv
<1>5. AnsweredInv'
  BY Zenon, <1>1, <1>3 DEF PubInv, AnsweredInv
<1>6. BatchInv'
  BY Zenon, <1>1 DEF PubInv, BatchInv
<1> QED
  BY Zenon, <1>2, <1>4, <1>5, <1>6 DEF PubInv

\* Requests are taken, read and refused; none of this happens once the listener
\* has drained in time.
LEMMA RequestStep ==
    ASSUME PubInv, NEW r \in Req, AcceptRequest(r) \/ DeadlineAndMetrics(r)
    PROVE  PubInv'
<1>1. /\ shutdown # "exited"
      /\ UNCHANGED <<mode, pipe, out, dropped, shutdown, poll, deadline, accepted, overtime, inHand>>
      /\ \/ shutdown \in {"serving", "draining"}
         \/ request[r] = "reading"
      /\ request[r] \in {"none", "reading"}
      /\ \E v \in {"reading", "in flight", "refused"} : request' = [request EXCEPT ![r] = v]
  BY DEF AcceptRequest, DeadlineAndMetrics, Running
<1>2. PICK v \in {"reading", "in flight", "refused"} : request' = [request EXCEPT ![r] = v]
  BY Zenon, <1>1
<1>3. request \in [Req -> {"none", "reading", "refused", "in flight", "answered", "aborted"}]
  BY Zenon DEF PubInv, PubTypeOK
<1>4. request' \in [Req -> {"none", "reading", "refused", "in flight", "answered", "aborted"}]
  BY <1>2, <1>3
<1>5. \A q \in Req : request'[q] = "answered" <=> request[q] = "answered"
  BY <1>1, <1>2, <1>3
<1>6. DrainInv'
  <2>1. ~(shutdown \in {"flushing", "exited"} /\ ~overtime)
    BY <1>1 DEF PubInv, DrainInv, RequestsAreDone
  <2> QED
    BY <1>1, <2>1 DEF DrainInv, AnsweredIsPublished
<1>7. /\ shutdown \in {"serving", "draining", "listener drains", "flushing", "exited"}
      /\ shutdown = "flushing" => poll \in {"staged", "queue", "publishing"}
      /\ overtime \in BOOLEAN /\ inHand \in BOOLEAN
  BY Zenon DEF PubInv, PubTypeOK
<1> QED
  BY Zenon, <1>1, <1>4, <1>5, <1>6, <1>7, QuietStep

\* The shutdown begins, and its last deadline passes.
LEMMA ShutdownStep ==
    ASSUME PubInv, BeginShutdown \/ ListenerDrains \/ DeadlinePasses
    PROVE  PubInv'
<1>1. /\ UNCHANGED <<mode, request, pipe, out, dropped, accepted, overtime, inHand, poll>>
      /\ \/ shutdown' \in {"draining", "listener drains"}
         \/ shutdown' = "flushing" /\ shutdown = "flushing"
  BY DEF BeginShutdown, ListenerDrains, DeadlinePasses
<1>2. /\ request \in [Req -> {"none", "reading", "refused", "in flight", "answered", "aborted"}]
      /\ shutdown = "flushing" => poll \in {"staged", "queue", "publishing"}
      /\ overtime \in BOOLEAN /\ inHand \in BOOLEAN
  BY Zenon DEF PubInv, PubTypeOK
<1>3. shutdown' \in {"serving", "draining", "listener drains", "flushing", "exited"}
  BY Zenon, <1>1
<1>4. UNCHANGED <<queue, staging, forwarder, batch>>
  BY Zenon, <1>1 DEF pipe
<1>5. DrainInv'
  <2>1. CASE shutdown' \in {"draining", "listener drains"}
    BY <2>1 DEF DrainInv, AnsweredIsPublished
  <2>2. CASE shutdown' = "flushing" /\ shutdown = "flushing"
    <3>1. RequestsAreDone' <=> RequestsAreDone
      BY Zenon, <1>1 DEF RequestsAreDone
    <3>2. AnsweredIsPublished'
      BY <2>2 DEF AnsweredIsPublished
    <3>3. \A e : /\ InForwarder(e)' <=> InForwarder(e)
                 /\ Holds(queue, e)' <=> Holds(queue, e)
                 /\ Holds(staging, e)' <=> Holds(staging, e)
      BY Zenon, <1>4 DEF InForwarder
    <3> QED
      BY Zenon, <1>1, <2>2, <3>1, <3>2, <3>3 DEF PubInv, DrainInv
  <2> QED
    BY Zenon, <1>1, <2>1, <2>2
<1>6. shutdown' = "flushing" => poll' \in {"staged", "queue", "publishing"}
  BY <1>1, <1>2
<1>7. request' = request /\ overtime' = overtime /\ inHand' = inHand
  BY Zenon, <1>1
<1> QED
  BY Zenon, <1>1, <1>2, <1>3, <1>5, <1>6, <1>7, QuietStep

\* The listener is done: no request is left, or the time is over.
LEMMA ListenerStep ==
    ASSUME PubInv, ListenerDone
    PROVE  PubInv'
<1>1. /\ shutdown' = "flushing" /\ poll' = "staged"
      /\ UNCHANGED <<mode, pipe, out, dropped, deadline, accepted, inHand>>
      /\ \/ RequestsAreDone /\ request' = request /\ overtime' = overtime
         \/ /\ request' = [r \in Req |-> IF request[r] = "in flight" THEN "aborted" ELSE request[r]]
            /\ overtime' = TRUE
  BY DEF ListenerDone, PollOrder
<1>2. /\ request \in [Req -> {"none", "reading", "refused", "in flight", "answered", "aborted"}]
      /\ overtime \in BOOLEAN /\ inHand \in BOOLEAN
  BY Zenon DEF PubInv, PubTypeOK
<1>3. /\ request' \in [Req -> {"none", "reading", "refused", "in flight", "answered", "aborted"}]
      /\ \A r \in Req : request'[r] = "answered" <=> request[r] = "answered"
  BY <1>1, <1>2
<1>4. overtime' \in BOOLEAN
  BY Zenon, <1>1, <1>2
<1>5. DrainInv'
  <2>1. ~overtime' => RequestsAreDone'
    BY Zenon, <1>1 DEF RequestsAreDone
  <2> QED
    BY <1>1, <2>1 DEF DrainInv, AnsweredIsPublished
<1>6. shutdown' \in {"serving", "draining", "listener drains", "flushing", "exited"} /\ poll' \in {"staged", "queue", "publishing"}
  BY Zenon, <1>1
<1> QED
  BY Zenon, <1>1, <1>2, <1>3, <1>4, <1>5, <1>6, QuietStep

\* What the three counters say when they are zero.
LEMMA ZeroCounters ==
    ASSUME PubInv
    PROVE  /\ ~(Reading("staged") > 0) => \A e : ~InForwarder(e) /\ ~Holds(staging, e)
           /\ ~(Reading("queue") > 0) => \A e : ~Holds(queue, e)
           /\ ~(Reading("publishing") > 0) /\ publisher # "taken" => \A e : ~Holds(batch, e)
<1>1. /\ staging \in Seq(Envelope) /\ queue \in Seq(Envelope) /\ batch \in Seq(Envelope)
      /\ stagedBytes = Len(staging) + (IF forwarder.at = "idle" THEN 0 ELSE 1)
      /\ publishing \in Nat
      /\ publisher \in {"idle", "taken", "publishing"}
  BY Zenon DEF PubInv, PubTypeOK
<1>2. Len(staging) \in Nat /\ Len(queue) \in Nat
  BY <1>1
<1>3. ASSUME ~(Reading("staged") > 0) PROVE \A e : ~InForwarder(e) /\ ~Holds(staging, e)
  <2>1. ~(stagedBytes > 0)
    BY <1>3 DEF Reading
  <2>2. forwarder.at = "idle" /\ Len(staging) = 0
    BY <1>1, <1>2, <2>1
  <2> QED
    BY <2>2 DEF InForwarder, Holds
<1>4. ASSUME ~(Reading("queue") > 0) PROVE \A e : ~Holds(queue, e)
  <2>1. Len(queue) = 0
    BY <1>2, <1>4 DEF Reading
  <2> QED
    BY <2>1 DEF Holds
<1>5. ASSUME ~(Reading("publishing") > 0), publisher # "taken" PROVE \A e : ~Holds(batch, e)
  <2>1. ~(publishing > 0)
    BY <1>5 DEF Reading
  <2>2. batch = <<>>
    BY Zenon, <1>1, <1>5, <2>1 DEF PubInv, BatchInv
  <2> QED
    BY <2>2 DEF Holds
<1> QED
  BY Zenon, <1>3, <1>4, <1>5

\* drain_outbound reads one counter.
LEMMA PollStep ==
    ASSUME PubInv, NEW i \in 1..3, PollCounter(i)
    PROVE  PubInv'
<1> DEFINE busy == Reading(poll) > 0
           exits == IF busy THEN deadline ELSE i = 3
<1>1. /\ shutdown = "flushing" /\ poll = PollOrder[i]
      /\ inHand' = (inHand \/ (poll = "publishing" /\ publisher = "taken"))
      /\ poll' = IF exits THEN "none" ELSE PollOrder[IF busy THEN 1 ELSE i + 1]
      /\ shutdown' = IF exits THEN "exited" ELSE shutdown
      /\ overtime' = (overtime \/ (busy /\ deadline))
      /\ UNCHANGED <<mode, request, pipe, out, dropped, deadline, accepted>>
  BY Zenon DEF PollCounter
<1>2. UNCHANGED <<queue, staging, stagedBytes, forwarder, batch, publisher, publishing>>
  BY Zenon, <1>1 DEF pipe
<1>3. \/ i = 1 /\ poll = "staged" /\ (~busy => ~exits /\ poll' = "queue")
      \/ i = 2 /\ poll = "queue" /\ (~busy => ~exits /\ poll' = "publishing")
      \/ i = 3 /\ poll = "publishing" /\ (~busy => exits)
  BY <1>1 DEF PollOrder
<1>4. busy /\ ~exits => poll' = "staged"
  BY <1>1 DEF PollOrder
<1>5. busy /\ exits => overtime'
  BY Zenon, <1>1
<1>6. (exits => shutdown' = "exited") /\ (~exits => shutdown' = "flushing")
  BY Zenon, <1>1
<1>7. /\ ~busy /\ poll = "staged" => \A e : ~InForwarder(e) /\ ~Holds(staging, e)
      /\ ~busy /\ poll = "queue" => \A e : ~Holds(queue, e)
      /\ ~busy /\ poll = "publishing" /\ publisher # "taken" => \A e : ~Holds(batch, e)
  BY Zenon, ZeroCounters
<1> HIDE DEF busy, exits
<1>8. /\ \A e : InForwarder(e)' <=> InForwarder(e)
      /\ \A e : /\ Holds(out, e)' <=> Holds(out, e)
                /\ Holds(batch, e)' <=> Holds(batch, e)
                /\ Holds(queue, e)' <=> Holds(queue, e)
                /\ Holds(staging, e)' <=> Holds(staging, e)
  BY Zenon, <1>1, <1>2, LineStays
<1>9. ~overtime' => ~overtime /\ RequestsAreDone
  BY Zenon, <1>1 DEF PubInv, DrainInv
<1>10. RequestsAreDone' <=> RequestsAreDone
  BY Zenon, <1>1 DEF RequestsAreDone
<1>11. ASSUME ~exits, ~overtime', NEW r \in Req
       PROVE  /\ poll' \in {"queue", "publishing"} => ~InForwarder(r) /\ ~Holds(staging, r)
              /\ poll' = "publishing" => ~Holds(queue, r)
  <2>1. CASE busy
    BY <1>4, <1>11, <2>1
  <2>2. CASE ~busy /\ poll = "staged"
    BY <1>3, <1>7, <2>2
  <2>3. CASE ~busy /\ poll = "queue"
    <3>1. ~InForwarder(r) /\ ~Holds(staging, r)
      BY Zenon, <1>1, <1>9, <1>11, <2>3 DEF PubInv, DrainInv
    <3> QED
      BY Zenon, <1>7, <2>3, <3>1
  <2> QED
    BY Zenon, <1>3, <1>11, <2>1, <2>2, <2>3
<1>12. AnsweredIsPublished'
  <2> SUFFICES ASSUME exits, ~overtime', ~inHand', NEW r \in Req, request'[r] = "answered"
               PROVE  r \in Range(out') \cup dropped'
    <3>1. shutdown' = "exited" => exits
      BY <1>6
    <3> QED
      BY Zenon, <3>1 DEF AnsweredIsPublished
  <2>1. ~busy /\ poll = "publishing"
    BY Zenon, <1>3, <1>5
  <2>2. publisher # "taken"
    BY Zenon, <1>1, <2>1
  <2>3. ~Holds(batch, r)
    BY Zenon, <1>7, <2>1, <2>2
  <2>4. ~InForwarder(r) /\ ~Holds(staging, r) /\ ~Holds(queue, r)
    BY Zenon, <1>1, <1>9, <2>1 DEF PubInv, DrainInv
  <2>5. Holds(out, r) \/ r \in dropped
    BY Zenon, <1>1, <2>3, <2>4 DEF PubInv, AnsweredInv
  <2>6. Holds(out, r) => r \in Range(out)
    <3>1. out \in Seq(Envelope)
      BY Zenon DEF PubInv, PubTypeOK
    <3>2. Range(out) = {out[k] : k \in 1..Len(out)}
      BY <3>1, RangeOfQueue
    <3> QED
      BY Zenon, <3>2 DEF Holds
  <2> QED
    BY Zenon, <1>1, <2>5, <2>6
<1>13. DrainInv'
  <2>1. ASSUME shutdown' = "flushing" PROVE ~exits
    BY <1>6, <2>1
  <2> QED
    BY Zenon, <1>8, <1>9, <1>10, <1>11, <1>12, <2>1 DEF DrainInv
<1>14. /\ shutdown' \in {"serving", "draining", "listener drains", "flushing", "exited"}
       /\ shutdown' = "flushing" => poll' \in {"staged", "queue", "publishing"}
  BY <1>3, <1>4, <1>6
<1>15. /\ request \in [Req -> {"none", "reading", "refused", "in flight", "answered", "aborted"}]
       /\ overtime \in BOOLEAN /\ inHand \in BOOLEAN
  BY Zenon DEF PubInv, PubTypeOK
<1>16. overtime' \in BOOLEAN /\ inHand' \in BOOLEAN
  BY Zenon, <1>1
<1> QED
  BY Zenon, <1>1, <1>13, <1>14, <1>15, <1>16, QuietStep

\* Nothing is enqueued and nobody asks when the node starts.
LEMMA PubStarts == PubInit => PubInv
<1> SUFFICES ASSUME PubInit PROVE PubInv
  OBVIOUS
<1> USE DEF PubInit
<1>1. forwarder.at = "idle"
  OBVIOUS
<1>2. PubTypeOK
  <2>1. request \in [Req -> {"none", "reading", "refused", "in flight", "answered", "aborted"}]
    OBVIOUS
  <2>2. forwarder \in [at : {"idle", "sending", "sent"}, env : Envelope \cup {Nothing}]
    OBVIOUS
  <2>3. <<>> \in Seq(Envelope) /\ Len(staging) = 0
    OBVIOUS
  <2>4. stagedBytes = Len(staging) + (IF forwarder.at = "idle" THEN 0 ELSE 1)
    BY <1>1, <2>3
  <2> QED
    BY <1>1, <2>1, <2>2, <2>3, <2>4 DEF PubTypeOK
<1>3. OrderInv
  <2>1. Line = <<>>
    BY <1>1 DEF Line, Rest, Carried
  <2>2. Len(Line) = 0 /\ Len(accepted) = 0
    BY <2>1
  <2> QED
    BY <1>1, <2>2 DEF OrderInv, Follows, NoRepeat, Holds
<1>4. AnsweredInv
  BY DEF AnsweredInv
<1>5. BatchInv
  BY DEF BatchInv
<1>6. DrainInv
  BY DEF DrainInv, AnsweredIsPublished
<1> QED
  BY Zenon, <1>2, <1>3, <1>4, <1>5, <1>6 DEF PubInv

\* Every step keeps the invariant.
LEMMA PubKeeps ==
    ASSUME PubInv, [PubNext]_pubVars
    PROVE  PubInv'
<1>1. ASSUME NEW r \in Req, AcceptRequest(r) \/ DeadlineAndMetrics(r) \/ HandleRequest(r) PROVE PubInv'
  BY Zenon, <1>1, RequestStep, HandleStep
<1>2. ASSUME NEW e \in Ws, WsPublish(e) PROVE PubInv'
  BY Zenon, <1>2, WsStep
<1>3. ASSUME NEW i \in 1..3, PollCounter(i) PROVE PubInv'
  BY Zenon, <1>3, PollStep
<1>4. CASE ForwarderTake \/ ForwarderSend \/ ForwarderRelease
  BY Zenon, <1>4, TakeStep, SendStep, ReleaseStep
<1>5. CASE PublisherTake \/ PublisherMark \/ PublisherPublish \/ PublisherTimeout \/ PublisherUnmark
  BY Zenon, <1>5, BatchStep, MarkStep, PublishStep
<1>6. CASE BeginShutdown \/ ListenerDrains \/ ListenerDone \/ DeadlinePasses
  BY Zenon, <1>6, ShutdownStep, ListenerStep
<1>7. CASE UNCHANGED pubVars
  <2>1. UNCHANGED <<mode, request, pipe, out, dropped, shutdown, poll, accepted, overtime, inHand>>
    BY Zenon, <1>7 DEF pubVars
  <2>2. UNCHANGED <<queue, staging, forwarder, batch>>
    BY Zenon, <2>1 DEF pipe
  <2>3. /\ request \in [Req -> {"none", "reading", "refused", "in flight", "answered", "aborted"}]
        /\ shutdown \in {"serving", "draining", "listener drains", "flushing", "exited"}
        /\ shutdown = "flushing" => poll \in {"staged", "queue", "publishing"}
        /\ overtime \in BOOLEAN /\ inHand \in BOOLEAN
    BY Zenon DEF PubInv, PubTypeOK
  <2>4. DrainInv'
    <3>1. RequestsAreDone' <=> RequestsAreDone
      BY Zenon, <2>1 DEF RequestsAreDone
    <3>2. AnsweredIsPublished' <=> AnsweredIsPublished
      BY Zenon, <2>1 DEF AnsweredIsPublished
    <3>3. \A e : /\ InForwarder(e)' <=> InForwarder(e)
                 /\ Holds(queue, e)' <=> Holds(queue, e)
                 /\ Holds(staging, e)' <=> Holds(staging, e)
      BY Zenon, <2>2 DEF InForwarder
    <3> QED
      BY Zenon, <2>1, <3>1, <3>2, <3>3 DEF PubInv, DrainInv
  <2> QED
    BY Zenon, <2>1, <2>3, <2>4, QuietStep
<1> QED
  BY Zenon, <1>1, <1>2, <1>3, <1>4, <1>5, <1>6, <1>7 DEF PubNext

\* The invariant of the pipeline, for every set of requests and envelopes, every
\* queue size and budget and both overflow modes.
THEOREM PubInvariance == PubSpec => []PubInv
  BY PubStarts, PubKeeps, PTL DEF PubSpec

\* Envelopes reach Redis in the order in which spawn_publish enqueued them,
\* through the staging buffer or straight into the queue, batch after batch and
\* whichever of them Redis fails to take.
THEOREM PublishesInOrder == PubSpec => []PublishedInOrder
<1>1. PubInv => PublishedInOrder
  <2> SUFFICES ASSUME PubInv PROVE PublishedInOrder
    OBVIOUS
  <2>1. out \in Seq(Envelope) /\ Rest \in Seq(Envelope) /\ accepted \in Seq(Envelope)
    BY Zenon, LineType DEF PubInv, PubTypeOK
  <2>2. Follows(out \o Rest, accepted)
    BY Zenon DEF PubInv, OrderInv, Line
  <2>3. Follows(out, accepted)
    BY Zenon, <2>1, <2>2, FollowsFirst
  <2>4. /\ Range(out) = {out[k] : k \in 1..Len(out)}
        /\ Range(accepted) = {accepted[k] : k \in 1..Len(accepted)}
    BY <2>1, RangeOfQueue
  <2>5. Range(out) \subseteq Range(accepted)
    BY Zenon, <2>3, <2>4 DEF Follows, Holds
  <2> QED
    BY Zenon, <2>3, <2>5 DEF PublishedInOrder, Follows
<1> QED
  BY <1>1, PubInvariance, PTL

\* When drain_outbound ends within its time, an event whose request was answered
\* is with Redis or counted as dropped, unless the publisher held a batch that it
\* had not yet counted while the counters were read.
THEOREM AnsweredArePublished == PubSpec => []AnsweredIsPublished
<1>1. PubInv => AnsweredIsPublished
  BY Zenon DEF PubInv, DrainInv
<1> QED
  BY <1>1, PubInvariance, PTL

(***************************************************************************)
(* The places of a webhook event                                           *)
(***************************************************************************)

INSTANCE FiniteSetTheorems

HookTypeOK ==
    /\ hooks \in Seq(Hook)
    /\ stagedHooks \in Seq(Hook)
    /\ moving \in [at : {"idle", "sending", "sent"}, event : Hook \cup {NoHook}]
    /\ moving.at = "sending" => moving.event \in Hook
    /\ loop \in [at : {"idle", "taken", "spawning"}, event : Hook \cup {NoHook}, todo : SUBSET Target]
    /\ loop.at # "idle" => loop.event \in Hook
    /\ delivery \in [Delivery -> {"none", "requesting", "backoff", "delivered", "abandoned"}]
    /\ slots \in Nat
    /\ enqueued \subseteq Hook
    /\ asked \subseteq enqueued
    /\ hookPoll \in {"none", "queued", "staged", "dequeued", "in flight", "clear"}

InMover(e) == moving.at = "sending" /\ moving.event = e
InLoop(e) == loop.at # "idle" /\ loop.event = e
Untouched(e) == \A d \in Delivery : d[1] = e => delivery[d] = "none"

\* An event is in one place at a time, and no delivery of it has begun before the
\* loop has marked it.
OnePlace ==
    /\ NoRepeat(hooks) /\ NoRepeat(stagedHooks)
    /\ \A e \in Hook :
          /\ Holds(hooks, e) => ~Holds(stagedHooks, e) /\ ~InMover(e) /\ ~InLoop(e)
          /\ Holds(stagedHooks, e) => ~InMover(e) /\ ~InLoop(e)
          /\ InMover(e) => ~InLoop(e)
          /\ Holds(hooks, e) \/ Holds(stagedHooks, e) \/ InMover(e) \/ InLoop(e) => e \in enqueued
          /\ Holds(hooks, e) \/ Holds(stagedHooks, e) \/ InMover(e) => Untouched(e)
          /\ e \notin enqueued => Untouched(e)
    /\ loop.at = "taken" => Untouched(loop.event)
    /\ loop.at = "spawning" => loop.todo \subseteq Wants[loop.event]
    /\ \A d \in Delivery :
          loop.at = "spawning" /\ loop.event = d[1] /\ d[2] \in loop.todo => delivery[d] = "none"

\* A delivery of an accepted event that has not begun is still to come.
Accounted ==
    \A d \in Delivery : d[1] \in enqueued /\ delivery[d] = "none" =>
        \/ Holds(hooks, d[1]) \/ Holds(stagedHooks, d[1]) \/ InMover(d[1])
        \/ loop.at = "taken" /\ loop.event = d[1]
        \/ loop.at = "spawning" /\ loop.event = d[1] /\ d[2] \in loop.todo

Requesting == {d \in Delivery : delivery[d] = "requesting"}
Started == {d \in Delivery : delivery[d] \in {"requesting", "backoff"}}

\* The counters that pending() reads, and who counts as waiting for a retry.
Counters ==
    /\ hookBytes = Len(stagedHooks) + (IF moving.at = "idle" THEN 0 ELSE 1)
    /\ dequeued = IF loop.at = "spawning" THEN 1 ELSE 0
    /\ counted \subseteq Started
    /\ \A d \in Delivery : delivery[d] = "backoff" => d \in counted

\* What each zero that pending() has read says of the events it was asked about.
ZerosRead ==
    ~slipped => \A e \in asked :
        /\ hookPoll \in {"staged", "dequeued", "in flight"} => ~Holds(hooks, e)
        /\ hookPoll \in {"dequeued", "in flight"} => ~Holds(stagedHooks, e) /\ ~InMover(e)
        /\ hookPoll = "in flight" => ~InLoop(e)

HookInv ==
    /\ HookTypeOK /\ OnePlace /\ Accounted /\ Counters /\ SlotsAndCountersBalance
    /\ ZerosRead /\ PendingIsHonest

(***************************************************************************)
(* Queues and counts                                                       *)
(***************************************************************************)

\* What is received from a queue was in it, and is in it no more if it was once.
LEMMA TailHolds ==
    ASSUME NEW S, NEW s \in Seq(S), s # <<>>
    PROVE  /\ Head(s) \in S /\ Tail(s) \in Seq(S)
           /\ Len(Tail(s)) = Len(s) - 1
           /\ Holds(s, Head(s))
           /\ NoRepeat(s) => NoRepeat(Tail(s)) /\ \A e : Holds(Tail(s), e) <=> Holds(s, e) /\ e # Head(s)
<1> DEFINE t == Tail(s)
<1>1. /\ Head(s) \in S /\ t \in Seq(S)
      /\ Len(s) \in Nat /\ Len(s) # 0 /\ Len(t) = Len(s) - 1
      /\ Head(s) = s[1]
      /\ \A i \in 1..Len(t) : t[i] = s[i + 1]
  OBVIOUS
<1> HIDE DEF t
<1>2. \A i \in 1..Len(s) : i = 1 \/ (i - 1 \in 1..Len(t) /\ t[i - 1] = s[i])
  BY <1>1
<1>3. \A i \in 1..Len(t) : i + 1 \in 1..Len(s) /\ i + 1 # 1
  BY <1>1
<1>4. 1 \in 1..Len(s)
  BY <1>1
<1>5. ASSUME NoRepeat(s), NEW e PROVE Holds(t, e) <=> Holds(s, e) /\ e # Head(s)
  BY <1>1, <1>2, <1>3, <1>4, <1>5 DEF Holds, NoRepeat
<1>6. ASSUME NoRepeat(s) PROVE NoRepeat(t)
  BY <1>1, <1>3, <1>6 DEF NoRepeat
<1>7. Holds(s, Head(s))
  BY Zenon, <1>1, <1>4 DEF Holds
<1> QED
  BY Zenon, <1>1, <1>5, <1>6, <1>7 DEF t

\* There are finitely many deliveries, so the sets behind the counters are finite.
LEMMA DeliveriesFinite ==
    /\ IsFiniteSet(Delivery)
    /\ \A D \in SUBSET Delivery : IsFiniteSet(D) /\ Cardinality(D) \in Nat
<1>1. IsFiniteSet(Hook \X Target)
  BY Zenon, FS_Product, WebhookConstants
<1>2. IsFiniteSet(Delivery)
  BY Zenon, <1>1, FS_Subset DEF Delivery
<1> QED
  BY Zenon, <1>2, FS_Subset, FS_CardinalityType

(***************************************************************************)
(* Deliveries                                                              *)
(***************************************************************************)

\* What concerns the places of events is untouched by a step that moves no event
\* and begins no delivery.
LEMMA PlacesStay ==
    ASSUME HookInv, UNCHANGED <<hooks, stagedHooks, moving, loop, enqueued, hookPoll, asked>>,
           slipped => slipped',
           \A x \in Delivery : delivery'[x] = "none" <=> delivery[x] = "none"
    PROVE  OnePlace' /\ Accounted' /\ ZerosRead'
<1>1. \A e \in Hook : /\ Untouched(e)' <=> Untouched(e)
                      /\ InMover(e)' <=> InMover(e)
                      /\ InLoop(e)' <=> InLoop(e)
                      /\ Holds(hooks, e)' <=> Holds(hooks, e)
                      /\ Holds(stagedHooks, e)' <=> Holds(stagedHooks, e)
  BY Zenon DEF Untouched, InMover, InLoop, Holds
<1>2. loop.at = "taken" => loop.event \in Hook
  BY Zenon DEF HookInv, HookTypeOK
<1>3. OnePlace'
  BY Zenon, <1>1, <1>2 DEF HookInv, OnePlace, NoRepeat
<1>4. Accounted'
  <2>1. \A d \in Delivery : d[1] \in Hook
    BY Zenon DEF Delivery
  <2> QED
    BY Zenon, <1>1, <2>1 DEF HookInv, Accounted
<1>5. ZerosRead'
  <2>1. asked \subseteq Hook
    BY Zenon DEF HookInv, HookTypeOK
  <2> QED
    BY Zenon, <1>1, <2>1 DEF HookInv, ZerosRead
<1> QED
  BY Zenon, <1>3, <1>4, <1>5

\* The end of deliver gives back a slot, its count as in flight and, if it was
\* waiting for retries, its count as such.
LEMMA SettleBalances ==
    ASSUME HookInv, NEW d \in Delivery, delivery[d] = "requesting",
           NEW v \in {"delivered", "abandoned"}, Settle(d, v)
    PROVE  /\ slots' \in Nat
           /\ counted' \subseteq Started'
           /\ \A x \in Delivery : delivery'[x] = "backoff" => x \in counted'
           /\ SlotsAndCountersBalance'
<1> USE DEF HookInv
<1>1. /\ delivery' = [delivery EXCEPT ![d] = v]
      /\ slots' = slots + 1
      /\ inFlight' = inFlight - 1
      /\ retrying' = IF d \in counted THEN retrying - 1 ELSE retrying
      /\ counted' = counted \ {d}
  BY Zenon DEF Settle
<1>2. /\ delivery'[d] = v
      /\ \A x \in Delivery : x # d => delivery'[x] = delivery[x]
  BY Zenon, <1>1 DEF HookTypeOK
<1>3. Requesting' = Requesting \ {d} /\ Started' = Started \ {d}
  BY Zenon, <1>2 DEF Requesting, Started
<1>4. d \in Requesting /\ d \in Started
  BY Zenon DEF Requesting, Started
<1>5. /\ IsFiniteSet(Requesting) /\ IsFiniteSet(Started) /\ IsFiniteSet(counted)
      /\ Cardinality(Requesting) \in Nat /\ Cardinality(Started) \in Nat /\ Cardinality(counted) \in Nat
  <2>1. Requesting \subseteq Delivery /\ Started \subseteq Delivery /\ counted \subseteq Delivery
    BY Zenon DEF Requesting, Started, Counters
  <2> QED
    BY Zenon, <2>1, DeliveriesFinite
<1>6. /\ Cardinality(Requesting') = Cardinality(Requesting) - 1
      /\ Cardinality(Started') = Cardinality(Started) - 1
      /\ Cardinality(counted') = IF d \in counted THEN Cardinality(counted) - 1 ELSE Cardinality(counted)
  BY Zenon, <1>1, <1>3, <1>4, <1>5, FS_RemoveElement
<1>7. /\ slots + Cardinality(Requesting) = Slots /\ slots \in Nat
      /\ retrying = Cardinality(counted) /\ retrying <= MaxRetrying
      /\ inFlight = Cardinality(Started)
  BY Zenon DEF SlotsAndCountersBalance, Requesting, Started, HookTypeOK
<1>8. /\ slots' \in Nat
      /\ slots' + Cardinality(Requesting') = Slots
      /\ retrying' = Cardinality(counted') /\ retrying' <= MaxRetrying
      /\ inFlight' = Cardinality(Started')
  <2>1. MaxRetrying \in Nat
    BY Zenon, WebhookConstants
  <2>2. slots' \in Nat /\ slots' + Cardinality(Requesting') = Slots /\ inFlight' = Cardinality(Started')
    BY <1>1, <1>5, <1>6, <1>7
  <2>3. retrying' = Cardinality(counted') /\ retrying' <= MaxRetrying
    BY <1>1, <1>5, <1>6, <1>7, <2>1
  <2> QED
    BY Zenon, <2>2, <2>3
<1>9. counted' \subseteq Started' /\ \A x \in Delivery : delivery'[x] = "backoff" => x \in counted'
  BY Zenon, <1>1, <1>2, <1>3 DEF Counters
<1>10. SlotsAndCountersBalance'
  BY Zenon, <1>8 DEF SlotsAndCountersBalance, Requesting, Started
<1> QED
  BY Zenon, <1>8, <1>9, <1>10

\* A delivery that waits for its next attempt holds no slot and is counted once.
LEMMA BackoffBalances ==
    ASSUME HookInv, NEW d \in Delivery, delivery[d] = "requesting", ~GivesUp(d), Backoff(d)
    PROVE  /\ slots' \in Nat
           /\ counted' \subseteq Started'
           /\ \A x \in Delivery : delivery'[x] = "backoff" => x \in counted'
           /\ SlotsAndCountersBalance'
<1> USE DEF HookInv
<1>1. /\ delivery' = [delivery EXCEPT ![d] = "backoff"]
      /\ slots' = slots + 1
      /\ inFlight' = inFlight
      /\ retrying' = IF d \in counted THEN retrying ELSE retrying + 1
      /\ counted' = counted \cup {d}
  BY Zenon DEF Backoff
<1>2. /\ delivery'[d] = "backoff"
      /\ \A x \in Delivery : x # d => delivery'[x] = delivery[x]
  BY Zenon, <1>1 DEF HookTypeOK
<1>3. Requesting' = Requesting \ {d} /\ Started' = Started
  BY Zenon, <1>2 DEF Requesting, Started
<1>4. d \in Requesting /\ d \in Started
  BY Zenon DEF Requesting, Started
<1>5. /\ IsFiniteSet(Requesting) /\ IsFiniteSet(counted)
      /\ Cardinality(Requesting) \in Nat /\ Cardinality(counted) \in Nat
  <2>1. Requesting \subseteq Delivery /\ counted \subseteq Delivery
    BY Zenon DEF Requesting, Started, Counters
  <2> QED
    BY Zenon, <2>1, DeliveriesFinite
<1>6. /\ Cardinality(Requesting') = Cardinality(Requesting) - 1
      /\ Cardinality(counted') = IF d \in counted THEN Cardinality(counted) ELSE Cardinality(counted) + 1
  BY Zenon, <1>1, <1>3, <1>4, <1>5, FS_RemoveElement, FS_AddElement
<1>7. /\ slots + Cardinality(Requesting) = Slots /\ slots \in Nat
      /\ retrying = Cardinality(counted) /\ retrying <= MaxRetrying
      /\ inFlight = Cardinality(Started)
  BY Zenon DEF SlotsAndCountersBalance, Requesting, Started, HookTypeOK
<1>8. /\ slots' \in Nat
      /\ slots' + Cardinality(Requesting') = Slots
      /\ retrying' = Cardinality(counted') /\ retrying' <= MaxRetrying
      /\ inFlight' = Cardinality(Started')
  <2>1. MaxRetrying \in Nat
    BY Zenon, WebhookConstants
  <2>2. slots' \in Nat /\ slots' + Cardinality(Requesting') = Slots /\ inFlight' = Cardinality(Started')
    BY <1>1, <1>3, <1>5, <1>6, <1>7
  <2>3. d \notin counted => ~(retrying >= MaxRetrying)
    BY Zenon DEF GivesUp
  <2>4. retrying' = Cardinality(counted') /\ retrying' <= MaxRetrying
    BY <1>1, <1>5, <1>6, <1>7, <2>1, <2>3
  <2> QED
    BY Zenon, <2>2, <2>4
<1>9. counted' \subseteq Started' /\ \A x \in Delivery : delivery'[x] = "backoff" => x \in counted'
  BY Zenon, <1>1, <1>2, <1>3, <1>4 DEF Counters
<1>10. SlotsAndCountersBalance'
  BY Zenon, <1>8 DEF SlotsAndCountersBalance, Requesting, Started
<1> QED
  BY Zenon, <1>8, <1>9, <1>10

\* A request takes a slot; the first one of a delivery counts it as in flight.
LEMMA RequestBalances ==
    ASSUME HookInv, NEW d \in Delivery, delivery[d] \in {"none", "backoff"}, slots > 0,
           delivery' = [delivery EXCEPT ![d] = "requesting"],
           slots' = slots - 1,
           inFlight' = IF delivery[d] = "none" THEN inFlight + 1 ELSE inFlight,
           UNCHANGED <<retrying, counted>>
    PROVE  /\ slots' \in Nat
           /\ counted' \subseteq Started'
           /\ \A x \in Delivery : delivery'[x] = "backoff" => x \in counted'
           /\ SlotsAndCountersBalance'
<1> USE DEF HookInv
<1>1. /\ delivery'[d] = "requesting"
      /\ \A x \in Delivery : x # d => delivery'[x] = delivery[x]
  BY Zenon DEF HookTypeOK
<1>2. Requesting' = Requesting \cup {d} /\ Started' = Started \cup {d}
  BY Zenon, <1>1 DEF Requesting, Started
<1>3. d \notin Requesting /\ (d \in Started <=> delivery[d] = "backoff")
  BY Zenon DEF Requesting, Started
<1>4. /\ IsFiniteSet(Requesting) /\ IsFiniteSet(Started)
      /\ Cardinality(Requesting) \in Nat /\ Cardinality(Started) \in Nat
  <2>1. Requesting \subseteq Delivery /\ Started \subseteq Delivery
    BY Zenon DEF Requesting, Started
  <2> QED
    BY Zenon, <2>1, DeliveriesFinite
<1>5. /\ Cardinality(Requesting') = Cardinality(Requesting) + 1
      /\ Cardinality(Started') = IF d \in Started THEN Cardinality(Started) ELSE Cardinality(Started) + 1
  BY Zenon, <1>2, <1>3, <1>4, FS_AddElement
<1>6. /\ slots + Cardinality(Requesting) = Slots /\ slots \in Nat
      /\ retrying = Cardinality(counted) /\ retrying <= MaxRetrying
      /\ inFlight = Cardinality(Started)
  BY Zenon DEF SlotsAndCountersBalance, Requesting, Started, HookTypeOK
<1>7. slots' \in Nat /\ slots' + Cardinality(Requesting') = Slots
  BY <1>4, <1>5, <1>6
<1>8. inFlight' = Cardinality(Started')
  BY Zenon, <1>3, <1>4, <1>5, <1>6
<1>9. counted' \subseteq Started' /\ \A x \in Delivery : delivery'[x] = "backoff" => x \in counted'
  BY Zenon, <1>1, <1>2 DEF Counters
<1>10. SlotsAndCountersBalance'
  BY Zenon, <1>6, <1>7, <1>8 DEF SlotsAndCountersBalance, Requesting, Started
<1> QED
  BY Zenon, <1>7, <1>9, <1>10

\* Every path through deliver keeps the invariant.
LEMMA DeliverStep ==
    ASSUME HookInv, NEW d \in Delivery, RequestSucceeds(d) \/ RequestFails(d) \/ Retry(d)
    PROVE  HookInv'
<1> USE DEF HookInv
<1>1. UNCHANGED <<hooks, stagedHooks, hookBytes, moving, loop, dequeued, enqueued, hookPoll, asked, slipped>>
  BY Zenon DEF RequestSucceeds, RequestFails, Retry, intake
<1>2. PICK v \in {"delivered", "abandoned", "backoff", "requesting"} :
          delivery' = [delivery EXCEPT ![d] = v]
  BY Zenon DEF RequestSucceeds, RequestFails, Retry, Settle, Backoff
<1>3. delivery[d] \in {"requesting", "backoff"}
  BY Zenon DEF RequestSucceeds, RequestFails, Retry
<1>4. /\ delivery' \in [Delivery -> {"none", "requesting", "backoff", "delivered", "abandoned"}]
      /\ delivery'[d] = v
      /\ \A x \in Delivery : x # d => delivery'[x] = delivery[x]
  BY Zenon, <1>2 DEF HookTypeOK
<1>5. OnePlace' /\ Accounted' /\ ZerosRead'
  BY Zenon, <1>1, <1>3, <1>4, PlacesStay
<1>6. /\ slots' \in Nat
      /\ counted' \subseteq Started'
      /\ \A x \in Delivery : delivery'[x] = "backoff" => x \in counted'
      /\ SlotsAndCountersBalance'
  <2>1. CASE RequestSucceeds(d)
    BY Zenon, <2>1, SettleBalances DEF RequestSucceeds
  <2>2. CASE RequestFails(d)
    BY Zenon, <2>2, SettleBalances, BackoffBalances DEF RequestFails
  <2>3. CASE Retry(d)
    <3>1. inFlight' = IF delivery[d] = "none" THEN inFlight + 1 ELSE inFlight
      BY Zenon, <2>3 DEF Retry
    <3> QED
      BY Zenon, <2>3, <3>1, RequestBalances DEF Retry
  <2> QED
    BY Zenon, <2>1, <2>2, <2>3
<1>7. HookTypeOK' /\ Counters'
  BY Zenon, <1>1, <1>4, <1>6 DEF HookTypeOK, Counters
<1>8. PendingIsHonest'
  BY Zenon, <1>1, <1>3, <1>4 DEF PendingIsHonest
<1> QED
  BY Zenon, <1>5, <1>6, <1>7, <1>8

(***************************************************************************)
(* Intake and the drain loop                                               *)
(***************************************************************************)

\* A step that touches no delivery and does not hide anything from the caller of
\* pending() keeps the balance and what the caller has concluded.
LEMMA WorkStays ==
    ASSUME HookInv, UNCHANGED <<slots, inFlight, retrying, delivery, counted, hookPoll, asked>>,
           slipped => slipped'
    PROVE  /\ SlotsAndCountersBalance' /\ PendingIsHonest'
           /\ slots' \in Nat
           /\ delivery' \in [Delivery -> {"none", "requesting", "backoff", "delivered", "abandoned"}]
           /\ counted' \subseteq Started'
           /\ \A x \in Delivery : delivery'[x] = "backoff" => x \in counted'
           /\ \A e : Untouched(e)' <=> Untouched(e)
BY Zenon DEF HookInv, HookTypeOK, Counters, SlotsAndCountersBalance, PendingIsHonest, Started, Untouched

\* Accepting an event: it is new, so no reader has asked about it.
LEMMA EnqueueStep ==
    ASSUME HookInv, NEW e \in Hook, Enqueue(e)
    PROVE  HookInv'
<1> USE DEF HookInv
<1>1. /\ e \notin enqueued /\ enqueued' = enqueued \cup {e}
      /\ UNCHANGED <<moving, loop, dequeued, slots, inFlight, retrying, delivery, counted, hookPoll, asked, slipped>>
  BY Zenon DEF Enqueue, work
<1>2. /\ SlotsAndCountersBalance' /\ PendingIsHonest'
      /\ slots' \in Nat
      /\ delivery' \in [Delivery -> {"none", "requesting", "backoff", "delivered", "abandoned"}]
      /\ counted' \subseteq Started'
      /\ \A x \in Delivery : delivery'[x] = "backoff" => x \in counted'
      /\ \A f : Untouched(f)' <=> Untouched(f)
  BY Zenon, <1>1, WorkStays
<1>3. ~Holds(hooks, e) /\ ~Holds(stagedHooks, e) /\ ~InMover(e) /\ ~InLoop(e) /\ Untouched(e) /\ e \notin asked
  BY Zenon, <1>1 DEF OnePlace, HookTypeOK
<1>4. \A f \in Hook : (InMover(f)' <=> InMover(f)) /\ (InLoop(f)' <=> InLoop(f))
  BY Zenon, <1>1 DEF InMover, InLoop
<1>5. /\ hooks' \in Seq(Hook) /\ stagedHooks' \in Seq(Hook)
      /\ NoRepeat(hooks') /\ NoRepeat(stagedHooks')
      /\ hookBytes' = Len(stagedHooks') + (IF moving.at = "idle" THEN 0 ELSE 1)
      /\ \/ /\ \A f : Holds(hooks', f) <=> Holds(hooks, f)
            /\ \A f : Holds(stagedHooks', f) <=> Holds(stagedHooks, f) \/ f = e
         \/ /\ \A f : Holds(hooks', f) <=> Holds(hooks, f) \/ f = e
            /\ \A f : Holds(stagedHooks', f) <=> Holds(stagedHooks, f)
  <2>1. hooks \in Seq(Hook) /\ stagedHooks \in Seq(Hook) /\ NoRepeat(hooks) /\ NoRepeat(stagedHooks)
    BY Zenon DEF HookTypeOK, OnePlace
  <2>2. CASE hookMode = "block"
    <3>1. stagedHooks' = Append(stagedHooks, e) /\ hookBytes' = hookBytes + 1 /\ hooks' = hooks
      BY Zenon, <2>2 DEF Enqueue
    <3>2. /\ stagedHooks' \in Seq(Hook) /\ NoRepeat(stagedHooks')
          /\ Len(stagedHooks') = Len(stagedHooks) + 1
          /\ \A f : Holds(stagedHooks', f) <=> Holds(stagedHooks, f) \/ f = e
      BY Zenon, <1>3, <2>1, <3>1, AppendHolds
    <3>3. hookBytes' = Len(stagedHooks') + (IF moving.at = "idle" THEN 0 ELSE 1)
      <4>1. Len(stagedHooks) \in Nat
        BY <2>1
      <4> QED
        BY <3>1, <3>2, <4>1 DEF Counters
    <3> QED
      BY Zenon, <2>1, <3>1, <3>2, <3>3
  <2>3. CASE hookMode # "block"
    <3>1. hooks' = Append(hooks, e) /\ UNCHANGED <<stagedHooks, hookBytes>>
      BY Zenon, <2>3 DEF Enqueue
    <3>2. /\ hooks' \in Seq(Hook) /\ NoRepeat(hooks')
          /\ \A f : Holds(hooks', f) <=> Holds(hooks, f) \/ f = e
      BY Zenon, <1>3, <2>1, <3>1, AppendHolds
    <3>3. hookBytes' = Len(stagedHooks') + (IF moving.at = "idle" THEN 0 ELSE 1)
      BY Zenon, <3>1 DEF Counters
    <3> QED
      BY Zenon, <2>1, <3>1, <3>2, <3>3
  <2> QED
    BY Zenon, <2>2, <2>3
<1>6. HookTypeOK'
  BY Zenon, <1>1, <1>2, <1>5 DEF HookTypeOK
<1>7. OnePlace'
  <2>1. loop.at = "taken" => loop.event \in Hook
    BY Zenon DEF HookTypeOK
  <2>2. \A f \in Hook :
          /\ Holds(hooks', f) => ~Holds(stagedHooks', f) /\ ~InMover(f)' /\ ~InLoop(f)'
          /\ Holds(stagedHooks', f) => ~InMover(f)' /\ ~InLoop(f)'
          /\ InMover(f)' => ~InLoop(f)'
          /\ Holds(hooks', f) \/ Holds(stagedHooks', f) \/ InMover(f)' \/ InLoop(f)' => f \in enqueued'
          /\ Holds(hooks', f) \/ Holds(stagedHooks', f) \/ InMover(f)' => Untouched(f)'
          /\ f \notin enqueued' => Untouched(f)'
    BY Zenon, <1>1, <1>2, <1>3, <1>4, <1>5 DEF OnePlace
  <2> QED
    BY Zenon, <1>1, <1>2, <1>5, <2>1, <2>2 DEF OnePlace
<1>8. Accounted'
  <2>1. \A d \in Delivery : d[1] \in Hook
    BY Zenon DEF Delivery
  <2> QED
    BY Zenon, <1>1, <1>4, <1>5, <2>1 DEF Accounted
<1>9. Counters'
  BY Zenon, <1>1, <1>2, <1>5 DEF Counters
<1>10. ZerosRead'
  <2>1. asked \subseteq Hook
    BY Zenon DEF HookTypeOK
  <2> QED
    BY Zenon, <1>1, <1>3, <1>4, <1>5, <2>1 DEF ZerosRead
<1> QED
  BY Zenon, <1>2, <1>6, <1>7, <1>8, <1>9, <1>10
\* Events move from place to place and no delivery changes: it is enough to say
\* where each event is afterwards.
LEMMA MoveStep ==
    ASSUME HookInv,
           UNCHANGED <<slots, inFlight, retrying, delivery, counted, enqueued, hookPoll, asked>>,
           slipped => slipped',
           hooks' \in Seq(Hook), stagedHooks' \in Seq(Hook),
           moving' \in [at : {"idle", "sending", "sent"}, event : Hook \cup {NoHook}],
           moving'.at = "sending" => moving'.event \in Hook,
           loop' \in [at : {"idle", "taken", "spawning"}, event : Hook \cup {NoHook}, todo : SUBSET Target],
           loop'.at # "idle" => loop'.event \in Hook,
           NoRepeat(hooks'), NoRepeat(stagedHooks'),
           \A f \in Hook :
              /\ Holds(hooks', f) => ~Holds(stagedHooks', f) /\ ~InMover(f)' /\ ~InLoop(f)'
              /\ Holds(stagedHooks', f) => ~InMover(f)' /\ ~InLoop(f)'
              /\ InMover(f)' => ~InLoop(f)'
              /\ Holds(hooks', f) \/ Holds(stagedHooks', f) \/ InMover(f)' \/ InLoop(f)' =>
                    Holds(hooks, f) \/ Holds(stagedHooks, f) \/ InMover(f) \/ InLoop(f)
              /\ Holds(hooks', f) \/ Holds(stagedHooks', f) \/ InMover(f)' => Untouched(f),
           loop'.at = "taken" => Untouched(loop'.event),
           loop'.at = "spawning" => loop'.todo \subseteq Wants[loop'.event],
           \A d \in Delivery : loop'.at = "spawning" /\ loop'.event = d[1] /\ d[2] \in loop'.todo
                                => delivery[d] = "none",
           Accounted', ZerosRead',
           hookBytes' = Len(stagedHooks') + (IF moving'.at = "idle" THEN 0 ELSE 1),
           dequeued' = IF loop'.at = "spawning" THEN 1 ELSE 0
    PROVE  HookInv'
<1>1. /\ SlotsAndCountersBalance' /\ PendingIsHonest'
      /\ slots' \in Nat
      /\ delivery' \in [Delivery -> {"none", "requesting", "backoff", "delivered", "abandoned"}]
      /\ counted' \subseteq Started'
      /\ \A x \in Delivery : delivery'[x] = "backoff" => x \in counted'
      /\ \A e : Untouched(e)' <=> Untouched(e)
  BY Zenon, WorkStays
<1>2. HookTypeOK'
  BY Zenon, <1>1 DEF HookInv, HookTypeOK
<1>3. Untouched(loop.event)' <=> Untouched(loop'.event)
  BY Zenon DEF Untouched
<1>4. OnePlace'
  BY Zenon, <1>1, <1>3 DEF HookInv, OnePlace
<1>5. Counters'
  BY Zenon, <1>1 DEF Counters
<1> QED
  BY Zenon, <1>1, <1>2, <1>4, <1>5 DEF HookInv

\* The forwarder takes the oldest staged event.
LEMMA MoverTakeStep ==
    ASSUME HookInv, MoverTake
    PROVE  HookInv'
<1> USE DEF HookInv
<1> DEFINE e == Head(stagedHooks)
           rest == Tail(stagedHooks)
<1>1. /\ moving.at = "idle" /\ moving' = [at |-> "sending", event |-> e] /\ stagedHooks' = rest
      /\ UNCHANGED <<hooks, hookBytes, loop, dequeued, slots, inFlight, retrying, delivery, counted,
                     enqueued, hookPoll, asked, slipped>>
  BY Zenon DEF MoverTake, work
<1>2. /\ e \in Hook /\ rest \in Seq(Hook) /\ Len(rest) = Len(stagedHooks) - 1 /\ Holds(stagedHooks, e)
      /\ NoRepeat(rest) /\ \A f : Holds(rest, f) <=> Holds(stagedHooks, f) /\ f # e
  BY Zenon, TailHolds DEF MoverTake, HookTypeOK, OnePlace
<1>3. Len(stagedHooks) \in Nat
  <2>1. stagedHooks \in Seq(Hook)
    BY Zenon DEF HookTypeOK
  <2> QED
    BY <2>1
<1> HIDE DEF e, rest
<1>4. moving'.at = "sending" /\ moving'.event = e
  BY Zenon, <1>1
<1>5. \A f : /\ ~InMover(f)
             /\ InMover(f)' <=> f = e
             /\ InLoop(f)' <=> InLoop(f)
  BY Zenon, <1>1, <1>4 DEF InMover, InLoop
<1>6. /\ hooks' \in Seq(Hook) /\ stagedHooks' \in Seq(Hook)
      /\ moving' \in [at : {"idle", "sending", "sent"}, event : Hook \cup {NoHook}]
      /\ loop' \in [at : {"idle", "taken", "spawning"}, event : Hook \cup {NoHook}, todo : SUBSET Target]
      /\ loop'.at # "idle" => loop'.event \in Hook
  BY Zenon, <1>1, <1>2 DEF HookTypeOK
<1>7. /\ loop'.at = "taken" => Untouched(loop'.event)
      /\ loop'.at = "spawning" => loop'.todo \subseteq Wants[loop'.event]
      /\ \A d \in Delivery : loop'.at = "spawning" /\ loop'.event = d[1] /\ d[2] \in loop'.todo
                              => delivery[d] = "none"
  BY Zenon, <1>1 DEF OnePlace
<1>8. \A f \in Hook :
         /\ Holds(hooks', f) => ~Holds(stagedHooks', f) /\ ~InMover(f)' /\ ~InLoop(f)'
         /\ Holds(stagedHooks', f) => ~InMover(f)' /\ ~InLoop(f)'
         /\ InMover(f)' => ~InLoop(f)'
         /\ Holds(hooks', f) \/ Holds(stagedHooks', f) \/ InMover(f)' \/ InLoop(f)' =>
               Holds(hooks, f) \/ Holds(stagedHooks, f) \/ InMover(f) \/ InLoop(f)
         /\ Holds(hooks', f) \/ Holds(stagedHooks', f) \/ InMover(f)' => Untouched(f)
  BY Zenon, <1>1, <1>2, <1>5 DEF OnePlace
<1>9. Accounted'
  BY Zenon, <1>1, <1>2, <1>5 DEF Accounted
<1>10. ZerosRead'
  <2>1. ASSUME ~slipped, NEW f \in asked
        PROVE  /\ hookPoll \in {"staged", "dequeued", "in flight"} => ~Holds(hooks, f)
               /\ hookPoll \in {"dequeued", "in flight"} => ~Holds(stagedHooks, f) /\ f # e
               /\ hookPoll = "in flight" => ~InLoop(f)
    BY Zenon, <1>2, <2>1 DEF ZerosRead
  <2> QED
    BY Zenon, <1>1, <1>2, <1>5, <2>1 DEF ZerosRead
<1>11. /\ hookBytes' = Len(stagedHooks') + (IF moving'.at = "idle" THEN 0 ELSE 1)
       /\ dequeued' = IF loop'.at = "spawning" THEN 1 ELSE 0
  BY <1>1, <1>2, <1>3, <1>4 DEF Counters
<1> QED
  BY Zenon, <1>1, <1>2, <1>4, <1>6, <1>7, <1>8, <1>9, <1>10, <1>11, MoveStep DEF OnePlace

\* It sends the event to the queue: a caller of pending() that has read the queue
\* and not the staging counter does not see it.
LEMMA MoverSendStep ==
    ASSUME HookInv, MoverSend
    PROVE  HookInv'
<1> USE DEF HookInv
<1> DEFINE e == moving.event
           more == Append(hooks, e)
<1>1. /\ moving.at = "sending" /\ moving' = [at |-> "sent", event |-> NoHook] /\ hooks' = more
      /\ slipped' = (slipped \/ hookPoll = "staged")
      /\ UNCHANGED <<stagedHooks, hookBytes, loop, dequeued, slots, inFlight, retrying, delivery, counted,
                     enqueued, hookPoll, asked>>
  BY Zenon DEF MoverSend, work
<1>2. e \in Hook /\ InMover(e)
  BY Zenon, <1>1 DEF HookTypeOK, InMover
<1>3. ~Holds(hooks, e)
  BY Zenon, <1>2 DEF OnePlace
<1>4. more \in Seq(Hook) /\ NoRepeat(more) /\ \A f : Holds(more, f) <=> Holds(hooks, f) \/ f = e
  <2>1. hooks \in Seq(Hook) /\ NoRepeat(hooks)
    BY Zenon DEF HookTypeOK, OnePlace
  <2> QED
    BY Zenon, <1>2, <1>3, <2>1, AppendHolds
<1> HIDE DEF more
<1>5. moving'.at = "sent" /\ moving'.event = NoHook
  BY Zenon, <1>1
<1>6. \A f : /\ InMover(f) <=> f = e
             /\ ~InMover(f)'
             /\ InLoop(f)' <=> InLoop(f)
  BY Zenon, <1>1, <1>5 DEF InMover, InLoop
<1> HIDE DEF e
<1>7. /\ hooks' \in Seq(Hook) /\ stagedHooks' \in Seq(Hook)
      /\ moving' \in [at : {"idle", "sending", "sent"}, event : Hook \cup {NoHook}]
      /\ loop' \in [at : {"idle", "taken", "spawning"}, event : Hook \cup {NoHook}, todo : SUBSET Target]
      /\ loop'.at # "idle" => loop'.event \in Hook
  BY Zenon, <1>1, <1>4 DEF HookTypeOK
<1>8. /\ loop'.at = "taken" => Untouched(loop'.event)
      /\ loop'.at = "spawning" => loop'.todo \subseteq Wants[loop'.event]
      /\ \A d \in Delivery : loop'.at = "spawning" /\ loop'.event = d[1] /\ d[2] \in loop'.todo
                              => delivery[d] = "none"
  BY Zenon, <1>1 DEF OnePlace
<1>9. \A f \in Hook :
         /\ Holds(hooks', f) => ~Holds(stagedHooks', f) /\ ~InMover(f)' /\ ~InLoop(f)'
         /\ Holds(stagedHooks', f) => ~InMover(f)' /\ ~InLoop(f)'
         /\ InMover(f)' => ~InLoop(f)'
         /\ Holds(hooks', f) \/ Holds(stagedHooks', f) \/ InMover(f)' \/ InLoop(f)' =>
               Holds(hooks, f) \/ Holds(stagedHooks, f) \/ InMover(f) \/ InLoop(f)
         /\ Holds(hooks', f) \/ Holds(stagedHooks', f) \/ InMover(f)' => Untouched(f)
  BY Zenon, <1>1, <1>4, <1>6 DEF OnePlace
<1>10. Accounted'
  BY Zenon, <1>1, <1>4, <1>6 DEF Accounted
<1>11. ZerosRead'
  <2>1. ASSUME ~slipped', NEW f \in asked
        PROVE  /\ hookPoll # "staged"
               /\ hookPoll \in {"staged", "dequeued", "in flight"} => ~Holds(hooks, f)
               /\ hookPoll \in {"dequeued", "in flight"} => ~Holds(stagedHooks, f) /\ ~InMover(f)
               /\ hookPoll = "in flight" => ~InLoop(f)
    BY Zenon, <1>1, <2>1 DEF ZerosRead
  <2>2. ASSUME ~slipped', NEW f \in asked
        PROVE  /\ hookPoll' \in {"staged", "dequeued", "in flight"} => ~Holds(hooks', f)
               /\ hookPoll' \in {"dequeued", "in flight"} => ~Holds(stagedHooks', f) /\ ~InMover(f)'
               /\ hookPoll' = "in flight" => ~InLoop(f)'
    BY Zenon, <1>1, <1>4, <1>6, <2>1, <2>2
  <2> QED
    BY Zenon, <1>1, <2>2 DEF ZerosRead
<1>12. /\ hookBytes' = Len(stagedHooks') + (IF moving'.at = "idle" THEN 0 ELSE 1)
       /\ dequeued' = IF loop'.at = "spawning" THEN 1 ELSE 0
  BY Zenon, <1>1, <1>5 DEF Counters
<1> QED
  BY Zenon, <1>1, <1>4, <1>5, <1>7, <1>8, <1>9, <1>10, <1>11, <1>12, MoveStep DEF OnePlace

\* It gives back the staged bytes.
LEMMA MoverReleaseStep ==
    ASSUME HookInv, MoverRelease
    PROVE  HookInv'
<1> USE DEF HookInv
<1>1. /\ moving.at = "sent" /\ moving' = [at |-> "idle", event |-> NoHook] /\ hookBytes' = hookBytes - 1
      /\ UNCHANGED <<hooks, stagedHooks, loop, dequeued, slots, inFlight, retrying, delivery, counted,
                     enqueued, hookPoll, asked, slipped>>
  BY Zenon DEF MoverRelease, work
<1>2. moving'.at = "idle" /\ moving'.event = NoHook
  BY Zenon, <1>1
<1>3. \A f : ~InMover(f) /\ ~InMover(f)' /\ (InLoop(f)' <=> InLoop(f))
  BY Zenon, <1>1, <1>2 DEF InMover, InLoop
<1>4. /\ hooks' \in Seq(Hook) /\ stagedHooks' \in Seq(Hook)
      /\ moving' \in [at : {"idle", "sending", "sent"}, event : Hook \cup {NoHook}]
      /\ loop' \in [at : {"idle", "taken", "spawning"}, event : Hook \cup {NoHook}, todo : SUBSET Target]
      /\ loop'.at # "idle" => loop'.event \in Hook
  BY Zenon, <1>1 DEF HookTypeOK
<1>5. /\ loop'.at = "taken" => Untouched(loop'.event)
      /\ loop'.at = "spawning" => loop'.todo \subseteq Wants[loop'.event]
      /\ NoRepeat(hooks') /\ NoRepeat(stagedHooks')
      /\ \A d \in Delivery : loop'.at = "spawning" /\ loop'.event = d[1] /\ d[2] \in loop'.todo
                              => delivery[d] = "none"
  BY Zenon, <1>1 DEF OnePlace
<1>6. \A f \in Hook :
         /\ Holds(hooks', f) => ~Holds(stagedHooks', f) /\ ~InMover(f)' /\ ~InLoop(f)'
         /\ Holds(stagedHooks', f) => ~InMover(f)' /\ ~InLoop(f)'
         /\ InMover(f)' => ~InLoop(f)'
         /\ Holds(hooks', f) \/ Holds(stagedHooks', f) \/ InMover(f)' \/ InLoop(f)' =>
               Holds(hooks, f) \/ Holds(stagedHooks, f) \/ InMover(f) \/ InLoop(f)
         /\ Holds(hooks', f) \/ Holds(stagedHooks', f) \/ InMover(f)' => Untouched(f)
  BY Zenon, <1>1, <1>3 DEF OnePlace
<1>7. Accounted' /\ ZerosRead'
  BY Zenon, <1>1, <1>3 DEF Accounted, ZerosRead
<1>8. Len(stagedHooks) \in Nat
  <2>1. stagedHooks \in Seq(Hook)
    BY Zenon DEF HookTypeOK
  <2> QED
    BY <2>1
<1>9. /\ hookBytes' = Len(stagedHooks') + (IF moving'.at = "idle" THEN 0 ELSE 1)
      /\ dequeued' = IF loop'.at = "spawning" THEN 1 ELSE 0
  BY <1>1, <1>2, <1>8 DEF Counters
<1> QED
  BY Zenon, <1>1, <1>2, <1>4, <1>5, <1>6, <1>7, <1>9, MoveStep
\* The drain loop receives the oldest event.
LEMMA LoopTakeStep ==
    ASSUME HookInv, LoopTake
    PROVE  HookInv'
<1> USE DEF HookInv
<1> DEFINE e == Head(hooks)
           rest == Tail(hooks)
<1>1. /\ loop.at = "idle" /\ loop' = [at |-> "taken", event |-> e, todo |-> {}] /\ hooks' = rest
      /\ UNCHANGED <<stagedHooks, hookBytes, moving, dequeued, slots, inFlight, retrying, delivery, counted,
                     enqueued, hookPoll, asked, slipped>>
  BY Zenon DEF LoopTake, work
<1>2. /\ e \in Hook /\ rest \in Seq(Hook) /\ Holds(hooks, e)
      /\ NoRepeat(rest) /\ \A f : Holds(rest, f) <=> Holds(hooks, f) /\ f # e
  BY Zenon, TailHolds DEF LoopTake, HookTypeOK, OnePlace
<1> HIDE DEF e, rest
<1>3. loop'.at = "taken" /\ loop'.event = e
  BY Zenon, <1>1
<1>4. \A f : /\ ~InLoop(f)
             /\ InLoop(f)' <=> f = e
             /\ InMover(f)' <=> InMover(f)
  BY Zenon, <1>1, <1>3 DEF InMover, InLoop
<1>5. /\ hooks' \in Seq(Hook) /\ stagedHooks' \in Seq(Hook)
      /\ moving' \in [at : {"idle", "sending", "sent"}, event : Hook \cup {NoHook}]
      /\ moving'.at = "sending" => moving'.event \in Hook
      /\ loop' \in [at : {"idle", "taken", "spawning"}, event : Hook \cup {NoHook}, todo : SUBSET Target]
      /\ loop'.at # "idle" => loop'.event \in Hook
  BY Zenon, <1>1, <1>2 DEF HookTypeOK
<1>6. NoRepeat(hooks') /\ NoRepeat(stagedHooks') /\ Untouched(loop'.event)
  BY Zenon, <1>1, <1>2, <1>3 DEF OnePlace
<1>7. \A f \in Hook :
         /\ Holds(hooks', f) => ~Holds(stagedHooks', f) /\ ~InMover(f)' /\ ~InLoop(f)'
         /\ Holds(stagedHooks', f) => ~InMover(f)' /\ ~InLoop(f)'
         /\ InMover(f)' => ~InLoop(f)'
         /\ Holds(hooks', f) \/ Holds(stagedHooks', f) \/ InMover(f)' \/ InLoop(f)' =>
               Holds(hooks, f) \/ Holds(stagedHooks, f) \/ InMover(f) \/ InLoop(f)
         /\ Holds(hooks', f) \/ Holds(stagedHooks', f) \/ InMover(f)' => Untouched(f)
  BY Zenon, <1>1, <1>2, <1>4 DEF OnePlace
<1>8. Accounted'
  <2>1. loop.at # "taken" /\ loop.at # "spawning"
    BY Zenon, <1>1
  <2> QED
    BY Zenon, <1>1, <1>2, <1>3, <1>4, <2>1 DEF Accounted
<1>9. ZerosRead'
  <2>1. ASSUME ~slipped, NEW f \in asked
        PROVE  /\ hookPoll \in {"staged", "dequeued", "in flight"} => ~Holds(hooks, f) /\ f # e
               /\ hookPoll \in {"dequeued", "in flight"} => ~Holds(stagedHooks, f) /\ ~InMover(f)
    BY Zenon, <1>2, <2>1 DEF ZerosRead
  <2> QED
    BY Zenon, <1>1, <1>2, <1>4, <2>1 DEF ZerosRead
<1>10. /\ hookBytes' = Len(stagedHooks') + (IF moving'.at = "idle" THEN 0 ELSE 1)
       /\ dequeued' = IF loop'.at = "spawning" THEN 1 ELSE 0
  BY Zenon, <1>1, <1>3 DEF Counters
<1>11. loop'.at # "spawning"
  BY Zenon, <1>3
<1> QED
  BY Zenon, <1>1, <1>5, <1>6, <1>7, <1>8, <1>9, <1>10, <1>11, MoveStep

\* It counts the event and looks up its targets: every one is to be served.
LEMMA LoopMarkStep ==
    ASSUME HookInv, LoopMark
    PROVE  HookInv'
<1> USE DEF HookInv
<1>1. /\ loop.at = "taken" /\ dequeued' = 1
      /\ loop' = [loop EXCEPT !.at = "spawning", !.todo = Wants[loop.event]]
      /\ UNCHANGED <<hooks, stagedHooks, hookBytes, moving, slots, inFlight, retrying, delivery, counted,
                     enqueued, hookPoll, asked, slipped>>
  BY Zenon DEF LoopMark, work, intake
<1>2. loop.event \in Hook /\ Wants[loop.event] \subseteq Target
  BY Zenon, <1>1, WebhookConstants DEF HookTypeOK
<1>3. loop'.at = "spawning" /\ loop'.event = loop.event /\ loop'.todo = Wants[loop.event]
  BY Zenon, <1>1 DEF HookTypeOK
<1>4. \A f : (InMover(f)' <=> InMover(f)) /\ (InLoop(f)' <=> InLoop(f))
  BY Zenon, <1>1, <1>3 DEF InMover, InLoop
<1>5. /\ hooks' \in Seq(Hook) /\ stagedHooks' \in Seq(Hook)
      /\ moving' \in [at : {"idle", "sending", "sent"}, event : Hook \cup {NoHook}]
      /\ moving'.at = "sending" => moving'.event \in Hook
      /\ loop' \in [at : {"idle", "taken", "spawning"}, event : Hook \cup {NoHook}, todo : SUBSET Target]
  BY Zenon, <1>1, <1>2 DEF HookTypeOK
<1>6. /\ NoRepeat(hooks') /\ NoRepeat(stagedHooks')
      /\ \A d \in Delivery : loop.event = d[1] => delivery[d] = "none"
  BY Zenon, <1>1 DEF OnePlace, Untouched
<1>7. \A f \in Hook :
         /\ Holds(hooks', f) => ~Holds(stagedHooks', f) /\ ~InMover(f)' /\ ~InLoop(f)'
         /\ Holds(stagedHooks', f) => ~InMover(f)' /\ ~InLoop(f)'
         /\ InMover(f)' => ~InLoop(f)'
         /\ Holds(hooks', f) \/ Holds(stagedHooks', f) \/ InMover(f)' \/ InLoop(f)' =>
               Holds(hooks, f) \/ Holds(stagedHooks, f) \/ InMover(f) \/ InLoop(f)
         /\ Holds(hooks', f) \/ Holds(stagedHooks', f) \/ InMover(f)' => Untouched(f)
  BY Zenon, <1>1, <1>4 DEF OnePlace
<1>8. Accounted'
  <2>1. \A d \in Delivery : d[2] \in Wants[d[1]]
    BY Zenon DEF Delivery
  <2>2. loop.at # "spawning"
    BY Zenon, <1>1
  <2> QED
    BY Zenon, <1>1, <1>3, <1>4, <2>1, <2>2 DEF Accounted
<1>9. ZerosRead'
  BY Zenon, <1>1, <1>4 DEF ZerosRead
<1>10. /\ hookBytes' = Len(stagedHooks') + (IF moving'.at = "idle" THEN 0 ELSE 1)
       /\ dequeued' = IF loop'.at = "spawning" THEN 1 ELSE 0
  BY Zenon, <1>1, <1>3 DEF Counters
<1>11. loop'.at # "taken"
  BY Zenon, <1>3
<1> QED
  BY Zenon, <1>1, <1>2, <1>3, <1>5, <1>6, <1>7, <1>8, <1>9, <1>10, <1>11, MoveStep

\* With no target left, every delivery of the event has begun.
LEMMA LoopDoneStep ==
    ASSUME HookInv, LoopDone
    PROVE  HookInv'
<1> USE DEF HookInv
<1>1. /\ loop.at = "spawning" /\ loop.todo = {} /\ dequeued' = 0
      /\ loop' = [at |-> "idle", event |-> NoHook, todo |-> {}]
      /\ UNCHANGED <<hooks, stagedHooks, hookBytes, moving, slots, inFlight, retrying, delivery, counted,
                     enqueued, hookPoll, asked, slipped>>
  BY Zenon DEF LoopDone, work, intake
<1>2. loop'.at = "idle"
  BY Zenon, <1>1
<1>3. \A f : (InMover(f)' <=> InMover(f)) /\ ~InLoop(f)'
  BY Zenon, <1>1, <1>2 DEF InMover, InLoop
<1>4. /\ hooks' \in Seq(Hook) /\ stagedHooks' \in Seq(Hook)
      /\ moving' \in [at : {"idle", "sending", "sent"}, event : Hook \cup {NoHook}]
      /\ moving'.at = "sending" => moving'.event \in Hook
      /\ loop' \in [at : {"idle", "taken", "spawning"}, event : Hook \cup {NoHook}, todo : SUBSET Target]
  BY Zenon, <1>1 DEF HookTypeOK
<1>5. NoRepeat(hooks') /\ NoRepeat(stagedHooks')
  BY Zenon, <1>1 DEF OnePlace
<1>6. \A f \in Hook :
         /\ Holds(hooks', f) => ~Holds(stagedHooks', f) /\ ~InMover(f)' /\ ~InLoop(f)'
         /\ Holds(stagedHooks', f) => ~InMover(f)' /\ ~InLoop(f)'
         /\ InMover(f)' => ~InLoop(f)'
         /\ Holds(hooks', f) \/ Holds(stagedHooks', f) \/ InMover(f)' \/ InLoop(f)' =>
               Holds(hooks, f) \/ Holds(stagedHooks, f) \/ InMover(f) \/ InLoop(f)
         /\ Holds(hooks', f) \/ Holds(stagedHooks', f) \/ InMover(f)' => Untouched(f)
  BY Zenon, <1>1, <1>3 DEF OnePlace
<1>7. Accounted'
  <2>1. loop.at # "taken" /\ \A t : t \notin loop.todo
    BY Zenon, <1>1
  <2> QED
    BY Zenon, <1>1, <1>3, <2>1 DEF Accounted
<1>8. ZerosRead'
  BY Zenon, <1>1, <1>3 DEF ZerosRead
<1>9. /\ hookBytes' = Len(stagedHooks') + (IF moving'.at = "idle" THEN 0 ELSE 1)
      /\ dequeued' = IF loop'.at = "spawning" THEN 1 ELSE 0
  BY Zenon, <1>1, <1>2 DEF Counters
<1>10. loop'.at # "taken" /\ loop'.at # "spawning"
  BY Zenon, <1>2
<1> QED
  BY Zenon, <1>1, <1>2, <1>4, <1>5, <1>6, <1>7, <1>8, <1>9, <1>10, MoveStep

\* It starts the delivery of the event to a target, once.
LEMMA LoopSpawnStep ==
    ASSUME HookInv, NEW t \in Target, LoopSpawn(t)
    PROVE  HookInv'
<1> USE DEF HookInv
<1> DEFINE d == <<loop.event, t>>
<1>1. /\ loop.at = "spawning" /\ t \in loop.todo /\ slots > 0 /\ slots' = slots - 1
      /\ inFlight' = inFlight + 1
      /\ delivery' = [delivery EXCEPT ![d] = "requesting"]
      /\ loop' = [loop EXCEPT !.todo = @ \ {t}]
      /\ UNCHANGED <<hooks, stagedHooks, hookBytes, moving, dequeued, retrying, counted,
                     enqueued, hookPoll, asked, slipped>>
  BY Zenon DEF LoopSpawn, intake
<1>2. loop.event \in Hook /\ t \in Wants[loop.event]
  BY Zenon, <1>1 DEF HookTypeOK, OnePlace
<1>3. d \in Delivery /\ d[1] = loop.event /\ d[2] = t
  BY Zenon, <1>2 DEF Delivery
<1>4. \A x \in Delivery : x[1] = loop.event /\ x[2] = t => x = d
  BY DEF Delivery
<1> HIDE DEF d
<1>5. delivery[d] = "none"
  BY Zenon, <1>1, <1>3 DEF OnePlace
<1>6. /\ delivery' \in [Delivery -> {"none", "requesting", "backoff", "delivered", "abandoned"}]
      /\ delivery'[d] = "requesting"
      /\ \A x \in Delivery : x # d => delivery'[x] = delivery[x]
  BY Zenon, <1>1, <1>3 DEF HookTypeOK
<1>7. /\ loop'.at = "spawning" /\ loop'.event = loop.event /\ loop'.todo = loop.todo \ {t}
      /\ loop' \in [at : {"idle", "taken", "spawning"}, event : Hook \cup {NoHook}, todo : SUBSET Target]
  BY Zenon, <1>1 DEF HookTypeOK
<1>8. \A f : (InMover(f)' <=> InMover(f)) /\ (InLoop(f)' <=> InLoop(f))
  BY Zenon, <1>1, <1>7 DEF InMover, InLoop
<1>9. InLoop(loop.event)
  BY Zenon, <1>1 DEF InLoop
<1>10. \A f \in Hook : f # loop.event => (Untouched(f)' <=> Untouched(f))
  BY Zenon, <1>3, <1>6 DEF Untouched
<1>11. /\ slots' \in Nat
       /\ counted' \subseteq Started'
       /\ \A x \in Delivery : delivery'[x] = "backoff" => x \in counted'
       /\ SlotsAndCountersBalance'
  BY Zenon, <1>1, <1>3, <1>5, RequestBalances
<1>12. HookTypeOK'
  BY Zenon, <1>1, <1>2, <1>6, <1>7, <1>11 DEF HookTypeOK
<1>13. OnePlace'
  <2>1. \A f \in Hook :
          /\ Holds(hooks', f) => ~Holds(stagedHooks', f) /\ ~InMover(f)' /\ ~InLoop(f)'
          /\ Holds(stagedHooks', f) => ~InMover(f)' /\ ~InLoop(f)'
          /\ InMover(f)' => ~InLoop(f)'
          /\ Holds(hooks', f) \/ Holds(stagedHooks', f) \/ InMover(f)' \/ InLoop(f)' => f \in enqueued'
    BY Zenon, <1>1, <1>8 DEF OnePlace
  <2>2. \A f \in Hook :
          /\ Holds(hooks', f) \/ Holds(stagedHooks', f) \/ InMover(f)' => Untouched(f)'
          /\ f \notin enqueued' => Untouched(f)'
    <3> SUFFICES ASSUME NEW f \in Hook, Holds(hooks', f) \/ Holds(stagedHooks', f) \/ InMover(f)' \/ f \notin enqueued'
                 PROVE  Untouched(f)'
      BY Zenon
    <3>1. Holds(hooks, f) \/ Holds(stagedHooks, f) \/ InMover(f) \/ f \notin enqueued
      BY Zenon, <1>1, <1>8
    <3>2. f # loop.event /\ Untouched(f)
      BY Zenon, <1>2, <1>9, <3>1 DEF OnePlace
    <3> QED
      BY Zenon, <1>10, <3>2
  <2>3. NoRepeat(hooks') /\ NoRepeat(stagedHooks') /\ loop'.at # "taken" /\ loop'.todo \subseteq Wants[loop'.event]
    BY Zenon, <1>1, <1>7 DEF OnePlace
  <2>4. ASSUME NEW x \in Delivery, loop'.event = x[1], x[2] \in loop'.todo PROVE delivery'[x] = "none"
    BY Zenon, <1>1, <1>3, <1>6, <1>7, <2>4 DEF OnePlace
  <2> QED
    BY Zenon, <1>7, <2>1, <2>2, <2>3, <2>4 DEF OnePlace
<1>14. Accounted'
  <2> SUFFICES ASSUME NEW x \in Delivery, x[1] \in enqueued', delivery'[x] = "none"
               PROVE  \/ Holds(hooks', x[1]) \/ Holds(stagedHooks', x[1]) \/ InMover(x[1])'
                      \/ loop'.at = "spawning" /\ loop'.event = x[1] /\ x[2] \in loop'.todo
    BY Zenon DEF Accounted
  <2>1. x # d
    BY Zenon, <1>6
  <2>2. \/ Holds(hooks, x[1]) \/ Holds(stagedHooks, x[1]) \/ InMover(x[1])
        \/ loop.event = x[1] /\ x[2] \in loop.todo
    BY Zenon, <1>1, <1>6, <2>1 DEF Accounted
  <2>3. loop.event = x[1] /\ x[2] \in loop.todo => x[2] \in loop'.todo
    BY Zenon, <1>4, <1>7, <2>1
  <2> QED
    BY Zenon, <1>1, <1>7, <1>8, <2>2, <2>3
<1>15. Counters'
  BY Zenon, <1>1, <1>7, <1>11 DEF Counters
<1>16. ZerosRead'
  BY Zenon, <1>1, <1>8 DEF ZerosRead
<1>17. PendingIsHonest'
  BY Zenon, <1>1, <1>5, <1>6 DEF PendingIsHonest
<1> QED
  BY Zenon, <1>11, <1>12, <1>13, <1>14, <1>15, <1>16, <1>17

(***************************************************************************)
(* pending()                                                               *)
(***************************************************************************)

\* A step of the caller of pending() changes nothing but what it knows.
LEMMA CallerStays ==
    ASSUME HookInv, UNCHANGED <<intake, loop, dequeued, work, enqueued>>,
           asked' \subseteq enqueued,
           hookPoll' \in {"none", "queued", "staged", "dequeued", "in flight", "clear"}
    PROVE  HookTypeOK' /\ OnePlace' /\ Accounted' /\ Counters' /\ SlotsAndCountersBalance'
<1> USE DEF HookInv
<1>1. UNCHANGED <<hooks, stagedHooks, hookBytes, moving, loop, dequeued, slots, inFlight, retrying, delivery,
                  counted, enqueued>>
  BY Zenon DEF intake, work
<1>2. \A e : /\ Untouched(e)' <=> Untouched(e)
             /\ InMover(e)' <=> InMover(e)
             /\ InLoop(e)' <=> InLoop(e)
  BY Zenon, <1>1 DEF Untouched, InMover, InLoop
<1>3. HookTypeOK' /\ Counters' /\ SlotsAndCountersBalance'
  BY Zenon, <1>1 DEF HookTypeOK, Counters, SlotsAndCountersBalance, Started
<1>4. Untouched(loop.event)' <=> Untouched(loop.event)
  BY Zenon, <1>1 DEF Untouched
<1>5. OnePlace' /\ Accounted'
  BY Zenon, <1>1, <1>2, <1>4 DEF OnePlace, Accounted
<1> QED
  BY Zenon, <1>3, <1>5

\* pending() is called.
LEMMA PendingStartStep ==
    ASSUME HookInv, PendingStart
    PROVE  HookInv'
<1>1. hookPoll' = "queued" /\ asked' = enqueued /\ UNCHANGED <<intake, loop, dequeued, work, enqueued>>
  BY Zenon DEF PendingStart, PendingOrder
<1>2. HookTypeOK' /\ OnePlace' /\ Accounted' /\ Counters' /\ SlotsAndCountersBalance'
  BY Zenon, <1>1, CallerStays
<1>3. ZerosRead' /\ PendingIsHonest'
  BY Zenon, <1>1 DEF ZerosRead, PendingIsHonest
<1> QED
  BY Zenon, <1>2, <1>3 DEF HookInv

\* The order of the reads is the order in which an event goes: what has not been
\* where pending() has looked already is where it looks next, or settled.
LEMMA PendingReadStep ==
    ASSUME HookInv, NEW i \in 1..4, PendingRead(i)
    PROVE  HookInv'
<1> USE DEF HookInv
<1>1. /\ UNCHANGED <<intake, loop, dequeued, work, enqueued, asked>>
      /\ slipped' = (slipped \/ (hookPoll = "dequeued" /\ loop.at = "taken"))
      /\ hookPoll' = IF PendingTerm(hookPoll) > 0 THEN "none"
                     ELSE IF i = 4 THEN "clear" ELSE PendingOrder[i + 1]
  BY Zenon DEF PendingRead
<1>2. UNCHANGED <<hooks, stagedHooks, moving, loop, delivery>>
  BY Zenon, <1>1 DEF intake, work
<1>3. \/ hookPoll' = "none"
      \/ hookPoll = "queued" /\ ~(Len(hooks) > 0) /\ hookPoll' = "staged"
      \/ hookPoll = "staged" /\ ~(hookBytes > 0) /\ hookPoll' = "dequeued"
      \/ hookPoll = "dequeued" /\ ~(dequeued > 0) /\ hookPoll' = "in flight"
      \/ hookPoll = "in flight" /\ ~(inFlight > 0) /\ hookPoll' = "clear"
  <2>1. /\ PendingOrder[1] = "queued" /\ PendingOrder[2] = "staged"
        /\ PendingOrder[3] = "dequeued" /\ PendingOrder[4] = "in flight"
    BY Zenon DEF PendingOrder
  <2>2. hookPoll = PendingOrder[i]
    BY Zenon DEF PendingRead
  <2>3. i = 1 \/ i = 2 \/ i = 3 \/ i = 4
    OBVIOUS
  <2>4. CASE i = 1
    <3>1. hookPoll = "queued" /\ PendingTerm(hookPoll) = Len(hooks)
      BY Zenon, <2>1, <2>2, <2>4 DEF PendingTerm
    <3>2. i + 1 = 2 /\ i # 4
      BY <2>4
    <3> QED
      BY Zenon, <1>1, <2>1, <3>1, <3>2
  <2>5. CASE i = 2
    <3>1. hookPoll = "staged" /\ PendingTerm(hookPoll) = hookBytes
      BY Zenon, <2>1, <2>2, <2>5 DEF PendingTerm
    <3>2. i + 1 = 3 /\ i # 4
      BY <2>5
    <3> QED
      BY Zenon, <1>1, <2>1, <3>1, <3>2
  <2>6. CASE i = 3
    <3>1. hookPoll = "dequeued" /\ PendingTerm(hookPoll) = dequeued
      BY Zenon, <2>1, <2>2, <2>6 DEF PendingTerm
    <3>2. i + 1 = 4 /\ i # 4
      BY <2>6
    <3> QED
      BY Zenon, <1>1, <2>1, <3>1, <3>2
  <2>7. CASE i = 4
    <3>1. hookPoll = "in flight" /\ PendingTerm(hookPoll) = inFlight
      BY Zenon, <2>1, <2>2, <2>7 DEF PendingTerm
    <3>2. i = 4
      BY Zenon, <2>1, <2>7
    <3> QED
      BY Zenon, <1>1, <3>1, <3>2
  <2> QED
    BY Zenon, <2>3, <2>4, <2>5, <2>6, <2>7
<1>4. hookPoll' \in {"none", "queued", "staged", "dequeued", "in flight", "clear"}
  BY Zenon, <1>3
<1>5. HookTypeOK' /\ OnePlace' /\ Accounted' /\ Counters' /\ SlotsAndCountersBalance'
  <2>1. asked' \subseteq enqueued
    BY Zenon, <1>1 DEF HookTypeOK
  <2> QED
    BY Zenon, <1>1, <1>4, <2>1, CallerStays
<1>6. \A e : (InMover(e)' <=> InMover(e)) /\ (InLoop(e)' <=> InLoop(e))
  BY Zenon, <1>2 DEF InMover, InLoop
<1>7. hooks \in Seq(Hook) /\ Len(hooks) \in Nat /\ stagedHooks \in Seq(Hook) /\ Len(stagedHooks) \in Nat
  <2>1. hooks \in Seq(Hook) /\ stagedHooks \in Seq(Hook)
    BY Zenon DEF HookTypeOK
  <2> QED
    BY <2>1
<1>8. CASE hookPoll' = "none"
  BY Zenon, <1>5, <1>8 DEF ZerosRead, PendingIsHonest
<1>9. CASE hookPoll = "queued" /\ ~(Len(hooks) > 0) /\ hookPoll' = "staged"
  <2>1. \A e : ~Holds(hooks, e)
    BY <1>7, <1>9 DEF Holds
  <2>2. ZerosRead' /\ PendingIsHonest'
    BY Zenon, <1>2, <1>9, <2>1 DEF ZerosRead, PendingIsHonest
  <2> QED
    BY Zenon, <1>5, <2>2
<1>10. CASE hookPoll = "staged" /\ ~(hookBytes > 0) /\ hookPoll' = "dequeued"
  <2>1. Len(stagedHooks) = 0 /\ moving.at = "idle"
    BY <1>7, <1>10 DEF Counters
  <2>2. \A e : ~Holds(stagedHooks, e) /\ ~InMover(e)
    BY <2>1 DEF Holds, InMover
  <2>3. ~slipped => \A e \in asked : ~Holds(hooks, e)
    BY Zenon, <1>10 DEF ZerosRead
  <2>4. ZerosRead' /\ PendingIsHonest'
    BY Zenon, <1>1, <1>2, <1>6, <1>10, <2>2, <2>3 DEF ZerosRead, PendingIsHonest
  <2> QED
    BY Zenon, <1>5, <2>4
<1>11. CASE hookPoll = "dequeued" /\ ~(dequeued > 0) /\ hookPoll' = "in flight"
  <2>1. ~slipped' => loop.at = "idle" /\ ~slipped
    <3>1. loop.at # "spawning"
      <4>1. loop.at = "spawning" => dequeued = 1
        BY Zenon DEF Counters
      <4>2. 1 > 0
        OBVIOUS
      <4> QED
        BY Zenon, <1>11, <4>1, <4>2
    <3>2. loop.at \in {"idle", "taken", "spawning"}
      BY Zenon DEF HookTypeOK
    <3>3. slipped' <=> slipped \/ loop.at = "taken"
      BY Zenon, <1>1, <1>11
    <3> QED
      BY Zenon, <3>1, <3>2, <3>3
  <2>2. ~slipped' => \A e : ~InLoop(e)
    BY Zenon, <2>1 DEF InLoop
  <2>3. ~slipped => \A e \in asked : ~Holds(hooks, e) /\ ~Holds(stagedHooks, e) /\ ~InMover(e)
    BY Zenon, <1>11 DEF ZerosRead
  <2>4. ZerosRead' /\ PendingIsHonest'
    BY Zenon, <1>1, <1>2, <1>6, <1>11, <2>1, <2>2, <2>3 DEF ZerosRead, PendingIsHonest
  <2> QED
    BY Zenon, <1>5, <2>4
<1>12. CASE hookPoll = "in flight" /\ ~(inFlight > 0) /\ hookPoll' = "clear"
  <2>1. IsFiniteSet(Started) /\ Cardinality(Started) \in Nat /\ inFlight = Cardinality(Started)
    BY Zenon, DeliveriesFinite DEF Started, SlotsAndCountersBalance
  <2>2. Started = {}
    <3>1. Cardinality(Started) = 0
      <4>1. \A n \in Nat : ~(n > 0) => n = 0
        OBVIOUS
      <4> QED
        BY Zenon, <1>12, <2>1, <4>1
    <3> QED
      BY Zenon, <2>1, <3>1, FS_EmptySet
  <2>3. \A d \in Delivery : delivery[d] \notin {"requesting", "backoff"}
    BY Zenon, <2>2 DEF Started
  <2>4. ASSUME ~slipped', NEW d \in Delivery, d[1] \in asked PROVE delivery[d] # "none"
    <3>1. ~slipped
      BY Zenon, <1>1, <2>4
    <3>2. ~Holds(hooks, d[1]) /\ ~Holds(stagedHooks, d[1]) /\ ~InMover(d[1]) /\ ~InLoop(d[1])
      BY Zenon, <1>12, <2>4, <3>1 DEF ZerosRead
    <3>3. d[1] \in enqueued
      BY Zenon, <2>4 DEF HookTypeOK
    <3> QED
      BY Zenon, <3>2, <3>3 DEF Accounted, InLoop
  <2>5. \A d \in Delivery : delivery[d] \in {"none", "requesting", "backoff", "delivered", "abandoned"}
    BY Zenon DEF HookTypeOK
  <2>6. PendingIsHonest'
    <3>1. ASSUME ~slipped', NEW d \in Delivery, d[1] \in asked PROVE delivery[d] \in {"delivered", "abandoned"}
      BY Zenon, <2>3, <2>4, <2>5, <3>1
    <3> QED
      BY Zenon, <1>1, <1>2, <3>1 DEF PendingIsHonest
  <2>7. ZerosRead'
    BY Zenon, <1>12 DEF ZerosRead
  <2> QED
    BY Zenon, <1>5, <2>6, <2>7
<1> QED
  BY Zenon, <1>3, <1>8, <1>9, <1>10, <1>11, <1>12

(***************************************************************************)
(* Theorems                                                                *)
(***************************************************************************)

\* The inductive invariant of webhook delivery: an event is in one place, every
\* delivery that has not begun is still to come, and the counters count it.
THEOREM HookInvariance == HookSpec => []HookInv
<1>1. HookInit => HookInv
  <2> SUFFICES ASSUME HookInit PROVE HookInv
    OBVIOUS
  <2>1. hooks = <<>> /\ stagedHooks = <<>> /\ \A e : ~Holds(<<>>, e)
    BY DEF HookInit, Holds
  <2>2. moving.at = "idle" /\ loop.at = "idle"
    BY Zenon DEF HookInit
  <2>3. \A e : ~InMover(e) /\ ~InLoop(e) /\ Untouched(e)
    BY Zenon, <2>2 DEF HookInit, InMover, InLoop, Untouched
  <2>4. \A d \in Delivery : delivery[d] = "none"
    BY Zenon DEF HookInit
  <2>5. Slots \in Nat /\ MaxRetrying \in Nat
    BY Zenon, WebhookConstants
  <2>6. HookTypeOK
    BY <2>2, <2>5 DEF HookInit, HookTypeOK
  <2>7. OnePlace
    <3>1. NoRepeat(<<>>)
      BY DEF NoRepeat
    <3>2. loop.at # "taken" /\ loop.at # "spawning"
      BY Zenon, <2>2
    <3> QED
      BY Zenon, <2>1, <2>3, <3>1, <3>2 DEF OnePlace
  <2>8. Accounted /\ ZerosRead
    BY Zenon DEF HookInit, Accounted, ZerosRead
  <2>9. Requesting = {} /\ Started = {} /\ counted = {} /\ Cardinality({}) = 0
    BY Zenon, <2>4, FS_EmptySet DEF HookInit, Requesting, Started
  <2>10. Counters
    BY <2>2, <2>4, <2>9 DEF HookInit, Counters
  <2>11. SlotsAndCountersBalance
    <3>1. /\ slots + Cardinality(Requesting) = Slots
          /\ retrying = Cardinality(counted) /\ retrying <= MaxRetrying
          /\ inFlight = Cardinality(Started)
      BY <2>5, <2>9 DEF HookInit
    <3> QED
      BY Zenon, <3>1 DEF SlotsAndCountersBalance, Requesting, Started
  <2>12. PendingIsHonest
    BY Zenon DEF HookInit, PendingIsHonest
  <2> QED
    BY Zenon, <2>6, <2>7, <2>8, <2>10, <2>11, <2>12 DEF HookInv
<1>2. HookInv /\ [HookNext]_hookVars => HookInv'
  <2> SUFFICES ASSUME HookInv, [HookNext]_hookVars PROVE HookInv'
    OBVIOUS
  <2>1. ASSUME NEW e \in Hook, Enqueue(e) PROVE HookInv'
    BY Zenon, <2>1, EnqueueStep
  <2>2. CASE MoverTake \/ MoverSend \/ MoverRelease
    BY Zenon, <2>2, MoverTakeStep, MoverSendStep, MoverReleaseStep
  <2>3. CASE LoopTake \/ LoopMark \/ LoopDone
    BY Zenon, <2>3, LoopTakeStep, LoopMarkStep, LoopDoneStep
  <2>4. ASSUME NEW t \in Target, LoopSpawn(t) PROVE HookInv'
    BY Zenon, <2>4, LoopSpawnStep
  <2>5. ASSUME NEW d \in Delivery, RequestSucceeds(d) \/ RequestFails(d) \/ Retry(d) PROVE HookInv'
    BY Zenon, <2>5, DeliverStep
  <2>6. CASE PendingStart
    BY Zenon, <2>6, PendingStartStep
  <2>7. ASSUME NEW i \in 1..4, PendingRead(i) PROVE HookInv'
    BY Zenon, <2>7, PendingReadStep
  <2>8. CASE UNCHANGED hookVars
    <3>1. UNCHANGED <<intake, loop, dequeued, work, enqueued, hookPoll, asked, slipped>>
      BY Zenon, <2>8 DEF hookVars
    <3>2. HookTypeOK' /\ OnePlace' /\ Accounted' /\ Counters' /\ SlotsAndCountersBalance'
      BY Zenon, <3>1, CallerStays DEF HookInv, HookTypeOK
    <3>3. UNCHANGED <<hooks, stagedHooks, moving, loop, delivery>>
      BY Zenon, <3>1 DEF intake, work
    <3>4. \A e : (InMover(e)' <=> InMover(e)) /\ (InLoop(e)' <=> InLoop(e))
      BY Zenon, <3>3 DEF InMover, InLoop
    <3>5. ZerosRead' /\ PendingIsHonest'
      BY Zenon, <3>1, <3>3, <3>4 DEF HookInv, ZerosRead, PendingIsHonest
    <3> QED
      BY Zenon, <3>2, <3>5 DEF HookInv
  <2> QED
    BY Zenon, <2>1, <2>2, <2>3, <2>4, <2>5, <2>6, <2>7, <2>8 DEF HookNext
<1> QED
  BY <1>1, <1>2, PTL DEF HookSpec

\* deliver gives back its slot and both of its counts on every path, for any
\* number of events, targets, slots and attempts.
THEOREM CountersNeverLeak == HookSpec => []SlotsAndCountersBalance
<1>1. HookInv => SlotsAndCountersBalance
  BY Zenon DEF HookInv
<1> QED
  BY <1>1, HookInvariance, PTL

\* When pending() adds up to zero, drain_outbound loses nothing that was enqueued
\* before the call, apart from the two windows that PendingIsHonest excludes.
THEOREM DrainLosesNothing == HookSpec => []PendingIsHonest
<1>1. HookInv => PendingIsHonest
  BY Zenon DEF HookInv
<1> QED
  BY <1>1, HookInvariance, PTL

=============================================================================
