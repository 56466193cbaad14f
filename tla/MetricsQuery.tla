---------------------------- MODULE MetricsQuery ----------------------------
(***************************************************************************)
(* The fleet-wide query behind GET /channels and /connections: a node asks *)
(* its peers over the bus, collects the answers until every peer that it   *)
(* believes to be alive has answered or the wait is over, and merges them  *)
(* with its own channels.  One presence channel stands for all.            *)
(***************************************************************************)
EXTENDS Naturals, FiniteSets, Sequences

CONSTANTS
    Ask,        \* queries
    Here,       \* the node that asks
    Remote,     \* its peers
    Guest,      \* presence users
    MaxMoves    \* bound on their moves

Server == {Here} \cup Remote

ASSUME QueryConstants == Here \notin Remote /\ IsFiniteSet(Remote) /\ MaxMoves \in Nat

VARIABLES
    present,    \* present[n]: the users on node n
    moves,      \* moves of users so far
    ask,        \* ask[q]: where query q is
    expected,   \* expected[q]: live_peer_count at its start
    inflight,   \* metrics_inflight
    requests,   \* <<p, q>>: requests that p has still to handle
    answers,    \* answers under way
    inbox,      \* inbox[q]: answers handed to the query
    responders, \* responders[q]
    merged,     \* merged[q]: the users found so far
    early,      \* history: queries that ended with the last expected answer
    alive,      \* history: alive[q]: the peers that expected stands for
    stayed,     \* history: stayed[q]: <<n, u>>, u on n since q began
    ever        \* history: ever[q]: users seen anywhere since q began

queryVars == <<present, moves, ask, expected, inflight, requests, answers, inbox,
               responders, merged, early, alive, stayed, ever>>

QueryInit ==
    /\ present \in [Server -> SUBSET Guest]
    /\ moves = 0
    /\ ask = [q \in Ask |-> "none"]
    /\ expected = [q \in Ask |-> 0]
    /\ inflight = {}
    /\ requests = {}
    /\ answers = {}
    /\ inbox = [q \in Ask |-> {}]
    /\ responders = [q \in Ask |-> {}]
    /\ merged = [q \in Ask |-> {}]
    /\ early = {}
    /\ alive = [q \in Ask |-> {}]
    /\ stayed = [q \in Ask |-> {}]
    /\ ever = [q \in Ask |-> {}]

Asking(q) == ask[q] \in {"local", "waiting", "ending"}

(***************************************************************************)
(* The fleet around the query                                              *)
(***************************************************************************)

\* A user comes to a node or leaves it.
Come(n, u) ==
    /\ u \notin present[n]
    /\ moves < MaxMoves
    /\ moves' = moves + 1
    /\ present' = [present EXCEPT ![n] = @ \cup {u}]
    /\ ever' = [q \in Ask |-> IF Asking(q) THEN ever[q] \cup {u} ELSE ever[q]]
    /\ UNCHANGED <<ask, expected, inflight, requests, answers, inbox, responders,
                   merged, early, alive, stayed>>

Go(n, u) ==
    /\ u \in present[n]
    /\ moves < MaxMoves
    /\ moves' = moves + 1
    /\ present' = [present EXCEPT ![n] = @ \ {u}]
    /\ stayed' = [q \in Ask |-> IF Asking(q) THEN stayed[q] \ {<<n, u>>} ELSE stayed[q]]
    /\ UNCHANGED <<ask, expected, inflight, requests, answers, inbox, responders,
                   merged, early, alive, ever>>

(***************************************************************************)
(* The query                                                               *)
(***************************************************************************)

\* list_channels reads its own channels first.  Queries share nothing but the
\* map of those in flight; they are bounded to one at a time, while answers to
\* the earlier ones may still be under way.
ReadLocal(q) ==
    /\ ask[q] = "none"
    /\ \A other \in Ask : ~Asking(other)
    /\ ask' = [ask EXCEPT ![q] = "local"]
    /\ merged' = [merged EXCEPT ![q] = present[Here]]
    /\ stayed' = [stayed EXCEPT ![q] = {x \in Server \X Guest : x[2] \in present[x[1]]}]
    /\ ever' = [ever EXCEPT ![q] = UNION {present[n] : n \in Server}]
    /\ UNCHANGED <<present, moves, expected, inflight, requests, answers, inbox, responders, early, alive>>

\* Mutant of LivePeerCount: one answer less is enough.
LivePeerCountLess(seen) == Cardinality(seen) - 1

\* The peers whose last message is younger than SNAPSHOT_TTL.
LivePeerCount(seen) == Cardinality(seen)

\* ask_fleet: the query is registered before it is published.  Which peers were
\* heard of lately depends on the bus: any set.
AskFleet(q, seen) ==
    /\ ask[q] = "local"
    /\ ask' = [ask EXCEPT ![q] = "waiting"]
    /\ expected' = [expected EXCEPT ![q] = LivePeerCount(seen)]
    /\ alive' = [alive EXCEPT ![q] = seen]
    /\ inflight' = inflight \cup {q}
    /\ requests' = requests \cup (Remote \X {q})
    /\ UNCHANGED <<present, moves, answers, inbox, responders, merged, early, stayed, ever>>

\* respond_to_metrics_request
RespondToMetricsRequest(p, q) ==
    /\ <<p, q>> \in requests
    /\ requests' = requests \ {<<p, q>>}
    /\ answers' = answers \cup {[from |-> p, to |-> q, users |-> present[p]]}
    /\ UNCHANGED <<present, moves, ask, expected, inflight, inbox, responders, merged, early,
                   alive, stayed, ever>>

\* Mutant of Waiting: an answer goes to whoever waits.
WaitingAny(a) == inflight

\* The query that an answer belongs to, if it is still registered.
Waiting(a) == {a.to} \cap inflight

\* MetricsResponse
MetricsResponse(a) ==
    /\ a \in answers
    /\ answers' = answers \ {a}
    /\ inbox' = [q \in Ask |-> IF q \in Waiting(a) THEN inbox[q] \cup {a} ELSE inbox[q]]
    /\ UNCHANGED <<present, moves, ask, expected, inflight, requests, responders, merged, early, alive,
                   stayed, ever>>

\* Redis may lose a request, or its answer; or the peer is gone.
LoseRequest(p, q) ==
    /\ <<p, q>> \in requests
    /\ requests' = requests \ {<<p, q>>}
    /\ UNCHANGED <<present, moves, ask, expected, inflight, answers, inbox, responders, merged,
                   early, alive, stayed, ever>>

\* Whether the answers so far are all that were expected.
Enough(q, rs) == expected[q] > 0 /\ Cardinality(rs) >= expected[q]

\* list_channels adds an answer to what it has; a user on several nodes counts
\* once.
Merge(users, a) == users \cup a.users

Collect(q, a) ==
    LET rs == responders[q] \cup {a.from} IN
    /\ ask[q] = "waiting"
    /\ a \in inbox[q]
    /\ inbox' = [inbox EXCEPT ![q] = @ \ {a}]
    /\ responders' = [responders EXCEPT ![q] = rs]
    /\ merged' = [merged EXCEPT ![q] = Merge(@, a)]
    /\ IF Enough(q, rs)
       THEN ask' = [ask EXCEPT ![q] = "ending"] /\ early' = early \cup {q}
       ELSE UNCHANGED <<ask, early>>
    /\ UNCHANGED <<present, moves, expected, inflight, requests, answers, alive, stayed, ever>>

\* The wait of 750 ms is over.
WaitIsOver(q) ==
    /\ ask[q] = "waiting"
    /\ ask' = [ask EXCEPT ![q] = "ending"]
    /\ UNCHANGED <<present, moves, expected, inflight, requests, answers, inbox, responders, merged,
                   early, alive, stayed, ever>>

\* The query is taken off the map and returns; answers that come later go
\* nowhere.
Unregister(q) ==
    /\ ask[q] = "ending"
    /\ ask' = [ask EXCEPT ![q] = "done"]
    /\ inflight' = inflight \ {q}
    /\ expected' = [expected EXCEPT ![q] = 0]
    /\ inbox' = [inbox EXCEPT ![q] = {}]
    /\ responders' = [responders EXCEPT ![q] = {}]
    /\ merged' = [merged EXCEPT ![q] = {}]
    /\ early' = early \ {q}
    /\ alive' = [alive EXCEPT ![q] = {}]
    /\ stayed' = [stayed EXCEPT ![q] = {}]
    /\ ever' = [ever EXCEPT ![q] = {}]
    /\ UNCHANGED <<present, moves, requests, answers>>

QueryNext ==
    \/ \E n \in Server, u \in Guest : Come(n, u) \/ Go(n, u)
    \/ \E q \in Ask : ReadLocal(q) \/ WaitIsOver(q) \/ Unregister(q)
    \/ \E q \in Ask, seen \in SUBSET Remote : AskFleet(q, seen)
    \/ \E p \in Remote, q \in Ask : RespondToMetricsRequest(p, q) \/ LoseRequest(p, q)
    \/ \E a \in answers : MetricsResponse(a)
    \/ \E q \in Ask : \E a \in inbox[q] : Collect(q, a)

QuerySpec == QueryInit /\ [][QueryNext]_queryVars

(***************************************************************************)
(* Properties                                                              *)
(***************************************************************************)

\* A query that ends early has every user who was, all the while, on this node or
\* on a peer that was known to be alive.  Excluded: queries answered by a peer
\* that had not been heard of, which is counted in place of another.
EarlyAnswerIsComplete ==
    \A q \in early :
        responders[q] \subseteq alive[q] =>
            \A x \in stayed[q] : x[1] \in {Here} \cup alive[q] => x[2] \in merged[q]

\* No query reports a user who was nowhere while it ran: late answers to an
\* earlier query do not count.
AnswersAreCurrent == \A q \in Ask : merged[q] \subseteq ever[q]
=============================================================================
