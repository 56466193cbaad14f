SPECIFICATION Spec
CONSTANTS
    None = None
    Sockets = {s1}
    Users = {u1, u2}
    JoinAs <- AnyUser
    Peers = {p1}
    SilentPeers = {}
    PeerUsers = {u2}
    Objects = {o1, o2}
    MaxPresenceMembers = 2
    OutboundCapacity = 1
INVARIANT RosterAlwaysMatchesStream
