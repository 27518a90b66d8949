CONSTANTS
    Schemes = {"pulsar", "pulsar+ssl", "http"}
    ExecutorKinds = {"Tokio", "AsyncStd"}
    DnsResults = {"err", "empty", "addrs"}
    TransportFaults = {"tcp", "tls_build", "tls_connect", "send"}
    HandshakeReplies = {"error", "connected", "other", "end", "err"}
    SpawnMayFail = TRUE
SPECIFICATION MCFairSpec
INVARIANTS
    TypeOK
    OutcomeMatchesSpec
    
PROPERTY
    TasksEventuallyStop
