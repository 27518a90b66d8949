\* Every operation of the ConnectionSender, every transport fault, broker
\* pings and deliveries; request ids cannot wrap (64-bit usize).
CONSTANTS
  Callers = {c1, c2}
  Producers = {p1}
  ConsumerIds = {k1}
  Ops = {"rpc", "close_consumer", "subscribe", "send", "ping", "fire_and_forget"}
  MaxOps = 1
  IdBits = 3
  ResponseKinds = {"success", "error", "unexpected"}
  InboundFaults = {"eof", "error"}
  MaxSinkErrors = 1
  MaxBrokerPings = 1
  MaxDeliveries = 1
  None = None
  c1 = c1
  c2 = c2
  p1 = p1
  k1 = k1

SPECIFICATION Spec
SYMMETRY Symmetry
INVARIANT TypeOK
INVARIANT ResponseMatchesRequest
INVARIANT StashHasRegistration
INVARIANT RequestDisconnectedMeansDead
