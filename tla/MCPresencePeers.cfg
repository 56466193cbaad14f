SPECIFICATION Spec
CONSTANTS
    None = None
    Sockets = {s1}
    Users = {u1, u2}
    JoinAs <- AnyUser
    Peers = {p1, p2}
    SilentPeers = {p1}
    PeerUsers = {u2}
    Objects = {o1, o2, o3}
    MaxPresenceMembers = 2
    OutboundCapacity = 2
SYMMETRY Symmetry
INVARIANT RosterMatchesStream
