-------------------------------- MODULE Room --------------------------------
(***************************************************************************)
(* What a presence channel promises its callers, without the channel map,  *)
(* its locks and its reference-counted channel objects: a room is a        *)
(* function from sockets to the users they came in as, a socket comes in   *)
(* and goes out in one step, and each step knows whether it changed the    *)
(* set of users in the room. `news` is that answer, the one the caller     *)
(* turns into member_added, member_removed and messages to the peers.      *)
(***************************************************************************)
CONSTANTS Sockets, Users, None

VARIABLES
    room,    \* the user each socket is in the room as, or None
    news     \* per socket: the change of the user set its last step made

vars == <<room, news>>

NoNews == [kind |-> "none", user |-> None]

In(u) == \E s \in Sockets : room[s] = u

Init ==
    /\ room = [s \in Sockets |-> None]
    /\ news = [s \in Sockets |-> NoNews]

\* A socket that is already in stays in as the user it came in as.
Enter(s, u) ==
    /\ room' = [room EXCEPT ![s] = IF @ = None THEN u ELSE @]
    /\ news' = [news EXCEPT ![s] =
                  IF room[s] = None /\ ~In(u) THEN [kind |-> "in", user |-> u] ELSE NoNews]

\* The user is out with their last socket.
Leave(s) ==
    /\ room' = [room EXCEPT ![s] = None]
    /\ news' = [news EXCEPT ![s] =
                  IF room[s] # None /\ \A t \in Sockets \ {s} : room[t] # room[s]
                    THEN [kind |-> "out", user |-> room[s]] ELSE NoNews]

\* The news was passed on.
Report(s) == news[s] # NoNews /\ news' = [news EXCEPT ![s] = NoNews] /\ UNCHANGED room

Next == \E s \in Sockets : (\E u \in Users : Enter(s, u)) \/ Leave(s) \/ Report(s)

Spec == Init /\ [][Next]_vars
=============================================================================
