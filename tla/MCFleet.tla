------------------------------ MODULE MCFleet ------------------------------
(* FleetPresence with node ids and users for TLC. *)
EXTENDS FleetPresence, TLC

One == {1}
Two == {1, 2}
UserSymmetry == Permutations(User)

\* While a message is numbered and not yet queued, only steps of the publishing
\* side, a crash or a start can make a difference: every other step commutes with
\* the queueing.
NothingInHand == \A n \in Node : Unlocked(n)

\* When a peer was last heard of matters only to a GC pass that has something to
\* reap, and is brought up to date by the next message.
SomethingExpired == \E n, m \in Node : cache[n][m].age = "expired"

\* Next without the interleavings that add nothing.
PromptNext ==
    \/ Publishing
    \/ NothingInHand /\ SomethingExpired /\ Hearing
    \/ NothingInHand /\ Changing

PromptSpec == Init /\ [][PromptNext]_vars
=============================================================================
