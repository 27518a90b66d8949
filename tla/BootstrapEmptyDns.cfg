CONSTANTS
    Schemes = {"pulsar"}
    ExecutorKinds = {"AsyncStd"}
    DnsResults = {"empty"}
    TransportFaults = {}
    HandshakeReplies = {"connected"}
    SpawnMayFail = FALSE
SPECIFICATION Spec
INVARIANT
    OutcomeMatchesSpec
