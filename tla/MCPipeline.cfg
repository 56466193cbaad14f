SPECIFICATION Spec
CONSTANTS
    \* BusPublisher
    Req = {r1}
    Ws = {w1}
    PublishCap = 1
    StagingLimit = 2
    BatchMax = 2
    \* WebhookDelivery
    Hook = {"e1", "e2"}
    Target = {"t1", "t2"}
    Wants <- Targets
    HookCap = 1
    HookStaging = 2
    Slots = 1
    MaxRetrying = 1
    MaxTries = 2
    \* Connections
    a = a
    Conn = {a}
    Key = {"k1"}
    OriginOf <- Origins
    Table <- Tables
    MaxConnections = 1
    QueueCap = 1
    MaxAttempts = 1
    TerminateOnLimit = TRUE
    \* Keepalive
    PingInterval = 2
    PongGrace = 2
    \* BusSubscription
    MaxFailedPings = 2
    Retained = 2
    MaxBackoff = 4
    MaxForwarded = 5
PROPERTIES
    EnqueuedLeaves
    EventsSettle
    CloseIsCarriedOut
    DrainClosesAll
    SilentClientIsClosed
    NeverStaysDeaf
CHECK_DEADLOCK FALSE
