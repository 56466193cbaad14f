SPECIFICATION Spec
CONSTANTS
    \* UserSessions
    s1 = s1
    s2 = s2
    s3 = s3
    ann = ann
    bob = bob
    Socket = {s1, s2, s3}
    User = {ann, bob}
    Peer = {p1}
    PeerUser = {ann}
    SignsIn <- As
    Watchlist <- Lists
    Mutex = {m1, m2, m3}
    Nobody = Nobody
    \* ChannelCounts
    Server <- Two
    MaxLen = 2
    MaxNumbers = 5
    MaxOutages = 1
SYMMETRY Same
INVARIANTS
    WatchersKnow
    PeersKnowSessions
    WatchesMatchSessions
    CountsAreExact
    SubscribersSeeTotal
    VacatedOnce
CHECK_DEADLOCK FALSE
