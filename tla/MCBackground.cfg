CONSTANTS
    pos = pos
    cancel = cancel
    webhook = webhook
    expiry = expiry
    sync1 = sync1
    order1 = order1
    hold1 = hold1
    till = till
    Services = {pos, cancel, webhook, expiry}
    Offline = {}
    Documents = {order1, hold1, till}
    Variants = 3
    Document <- MCDocument
    Lines <- MCLines
    Mails = {m1, m2, m3}
    Workers = {w1, w2}
    Tamano = 1
    Stop = Stop
    Deliveries = {d1}
    Deliverers = {k1, k2}
    Batch = 2
    Retries = 1
    MaxTrouble = 1
    Idle = Idle
    Jobs = {j1}
    TryOnCalls = {c1, c2, c3}
    MaxImages = 2
    NobodyTryOn = NobodyTryOn
    Ticks = {t1, t2}
    Requests = {r1, r2}
    Connections = {n1, n2, n3}
    MaxDepth = 2
    NoConnection = NoConnection

SPECIFICATION BackgroundSpec

CHECK_DEADLOCK FALSE

INVARIANTS
    TypesOK
    NoWaitCycle
    MailAccounted
    StatusIsTrue
    TryOnKept
    OneRunAtATime

PROPERTIES
    LocksCommit
    MailAnswered
    AlwaysSettles
