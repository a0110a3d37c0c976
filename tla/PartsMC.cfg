CONSTANTS
    Links = {"l"}
    PlMaxCount = 1
    PlMaxTime = 1
    Threshold = 2
    AuMaxTime = 1
    AuMaxCalls = 3
    Workers = {w1, w2}
    Tokens = {"t1", "t2", "t3"}
    Sessions = {"s"}
    MaxChanges = 1
    TkMaxFaults = 1
    Keys = {"k1", "k2", "k3"}
    AkMaxCalls = 5
    AkMaxFaults = 1
    Disputes = {"d1", "d2"}
    MaxUpdates = 3
    Payments = {"p"}
    MaxEntered = 2
    SeMaxTime = 2
    MaxRuns = 2
    SeMaxFaults = 2
    Users = {"a", "u"}
    Admin = "a"
    Roles = {"r", "s"}
    AdminRole = "r"
    AcMaxCalls = 2
    DefaultLimit = 3
    DefaultTtl = 1
    BulkLimit = 2
    WebhookLimit = 4
    QrLimit = 2
    AuthLimit = 2
    AuthTtl = 3
    ThMaxTime = 8
    MaxSent = 5
    Nonces = {"a1", "a2"}
    Tolerance = 1
    WnMaxTime = 4
    MaxRestarts = 1
    Ttl = 1
    RaMaxTime = 4
    RaMaxFaults = 1
    Deliveries = {"d1", "d2"}
    WdJobs = {"j1", "j2"}
    WdAttempts = 2
    WdThreshold = 2
    MaxEvents = 1
    MaxUpsets = 1
    Mails = {"m1", "m2"}
    EjAttempts = 3
    EjMaxFaults = 2
    Txs = {"x1", "x2"}
    Signers = {"a", "b", "stranger"}
    Weight <- MCWeight
    OwnWeight = 1
    MedThreshold = 3
    MsMaxCalls = 4
    MsMaxFaults = 1
SYMMETRY Symmetry
SPECIFICATION Spec
CHECK_DEADLOCK FALSE
INVARIANTS DisputesEndOnce SignaturesAddUp TypeOK AccessKept CredentialsEnd FactorsKept WindowsKept SettledOnce
PROPERTIES LinksKept DeliveriesKept
