SPECIFICATION Spec
CONSTANTS
    None = None
    Sockets = {s1, s2, s3}
    Users = {u1, u2}
    JoinAs <- AnyUser
    Peers = {}
    SilentPeers = {}
    PeerUsers = {}
    Objects = {o1, o2, o3}
    MaxPresenceMembers = 1
    OutboundCapacity = 1
SYMMETRY Symmetry
INVARIANT TypeOK
INVARIANT NoStrandedMembers
INVARIANT SubscriptionsMatchMembership
INVARIANT BusMatchesMembership
INVARIANT EmptyChannelIsReaped
INVARIANT CapRespected
PROPERTY ImplementsRoom
