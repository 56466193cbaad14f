------------------------- MODULE MCPresenceChannel -------------------------
EXTENDS PresenceChannel, TLC

\* Every socket may join as every user.
AnyUser == [s \in Sockets |-> Users]

\* Every socket joins as a user of its own.
OwnUser ==
    CHOOSE f \in [Sockets -> SUBSET Users] :
        /\ \A s \in Sockets : Cardinality(f[s]) = 1
        /\ \A s, t \in Sockets : s # t => f[s] # f[t]

\* Sockets that may join as any user, and allocations, are interchangeable.
Symmetry == Permutations(Objects) \union Permutations(Users \ PeerUsers)
            \union (IF JoinAs = AnyUser THEN Permutations(Sockets) ELSE {})
=============================================================================
