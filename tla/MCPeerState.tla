---------------------------- MODULE MCPeerState -----------------------------
(***************************************************************************)
(* What a node keeps about its peers besides presence: user sessions, and  *)
(* the subscriber counts of channels.  In the model the two share no       *)
(* state, so a behaviour runs one of them while the other stays in its     *)
(* initial state.  The counts are run twice, for what subscribers are told *)
(* and for who reports the end.                                            *)
(***************************************************************************)
EXTENDS UserSessions, ChannelCounts, TLC

CONSTANTS s1, s2, s3, ann, bob

VARIABLE part

\* Two sockets of one user, and one socket of another; each watches the other user.
As == s1 :> ann @@ s2 :> ann @@ s3 :> bob
Lists == s1 :> {bob} @@ s2 :> {bob} @@ s3 :> {ann}
Two == {1, 2}
Same == Permutations({s1, s2})

\* A snapshot of this node's sessions reads and writes nothing that the bus
\* consumer and the GC read or write, and no property looks at both: behaviours
\* in which they overlap add nothing.
Apart ==
    \/ snap.step = "idle"
    \/ pc["bus"] = "idle" /\ pc["gc"] = "idle" /\ todo = [bus |-> {}, gc |-> {}]

\* The part "totals": whether a report is withheld and claimed is read by no step
\* that changes a count or a total, so it is decided at once.  Fewer numbers and
\* fewer subscribers: here messages may be lost.
Deciding(n) == At(n, "handler") \in {"emptied", "withholding"} \/ At(n, "bus") \in {"ended", "claim"}

Starting == len' # len \/ (drawn' # drawn /\ pending' # pending)

TotalsNext ==
    IF \E n \in Server : Deciding(n)
    THEN \E n \in Server : CheckPeers(n) \/ NoteWithheld(n) \/ BusCheckEmpty(n) \/ BusClaim(n)
    ELSE /\ CountNext
         /\ FoldFunction(+, 0, len') <= 2 /\ (Starting => FoldFunction(+, 0, drawn) < 3)

\* The part "ends": what the subscribers are told is read by no step that reports,
\* and the number follows the decision, so these steps are taken at once.  What
\* happens before a leave that finds nothing under way matters only by where it
\* ends, so until then one change is followed by the next.
Telling(n) == At(n, "handler") \in {"changed", "counted", "withheld"} \/ At(n, "bus") \in {"set", "emit"}

EndsNext ==
    IF \E n \in Server : Telling(n)
    THEN \E n \in Server : ReadTotal(n) \/ AnnounceSubscriptionCount(n) \/ BusReadTotal(n) \/ EmitTotal(n, "bus")
    ELSE /\ CountNext
         /\ outages' = 0 /\ \A n \in Server : len'[n] <= 1
         /\ calm \/ calm' \/ NothingUnderWay \/ len' = len

Init == part \in {"users", "totals", "ends"} /\ UserInit /\ CountInit

Next ==
    /\ UNCHANGED part
    /\ \/ part = "users" /\ UserNext /\ Apart' /\ UNCHANGED countVars
       \/ part = "totals" /\ TotalsNext /\ UNCHANGED userVars
       \/ part = "ends" /\ EndsNext /\ UNCHANGED userVars

Spec == Init /\ [][Next]_<<part, userVars, countVars>>
=============================================================================
