CONSTANTS
  Callers = {c1, c2}
  Producers = {p1}
  ConsumerIds = {k1}
  Ops = {"rpc", "close_consumer", "subscribe", "send", "fire_and_forget"}
  MaxOps = 1
  IdBits = 3
  ResponseKinds = {"success", "error", "unexpected"}
  InboundFaults = {"eof"}
  MaxSinkErrors = 1
  MaxBrokerPings = 0
  MaxDeliveries = 1
  None = None
  c1 = c1
  c2 = c2
  p1 = p1
  k1 = k1
SYMMETRY Symmetry
SPECIFICATION Spec
PROPERTY
  Refines
