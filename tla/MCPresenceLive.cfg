SPECIFICATION FairSpec
CONSTANTS
    None = None
    Sockets = {s1, s2}
    Users = {u1, u2}
    JoinAs <- OwnUser
    Peers = {}
    SilentPeers = {}
    PeerUsers = {}
    Objects = {o1, o2}
    MaxPresenceMembers = 2
    OutboundCapacity = 1
PROPERTY KickedSocketLeaves
PROPERTY HandlersFinish
