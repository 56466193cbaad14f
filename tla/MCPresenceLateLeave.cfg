SPECIFICATION Spec
CONSTANTS
    None = None
    Sockets = {s1, s2}
    Users = {u1, u2}
    JoinAs <- AnyUser
    Peers = {}
    SilentPeers = {}
    PeerUsers = {}
    Objects = {o1, o2}
    MaxPresenceMembers = 2
    OutboundCapacity = 1
INVARIANT BusAlwaysMatchesMembership
