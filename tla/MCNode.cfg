SPECIFICATION Spec
CONSTANTS
    \* CacheChannel
    Client = {c1, c2}
    Object = {o1, o2, o3}
    Batches <- Requests
    MaxEvents = 2
    \* Connections
    a = a
    b = b
    Conn = {a, b}
    Key = {"k1"}
    OriginOf <- Origins
    Table <- Tables
    MaxConnections = 1
    QueueCap = 1
    MaxAttempts = 0
    TerminateOnLimit = FALSE
    \* Keepalive
    PingInterval = 2
    PongGrace = 2
    \* MetricsQuery
    Ask = {q1, q2}
    Here = h
    Remote = {p1, p2}
    Guest = {u}
    MaxMoves = 1
    \* BusPublisher
    Req = {r1, r2}
    Ws = {w1}
    PublishCap = 1
    StagingLimit = 2
    BatchMax = 2
    \* WebhookDelivery
    Hook = {"e1", "e2"}
    Target = {"t1", "t2"}
    Wants <- Targets
    HookCap = 1
    HookStaging = 2
    Slots = 1
    MaxRetrying = 1
    MaxTries = 3
INVARIANTS
    KeptForLateSubscribers
    SubscribersAreCurrent
    MissIsReportedOnce
    QuotaHolds
    ReloadClosesRevoked
    StaleWasPinged
    EarlyAnswerIsComplete
    AnswersAreCurrent
    PublishedInOrder
    AnsweredIsPublished
    SlotsAndCountersBalance
    PendingIsHonest
CHECK_DEADLOCK FALSE
