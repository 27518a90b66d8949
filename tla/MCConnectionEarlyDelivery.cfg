\* subscribe posts the consumer registration before the Subscribe frame,
\* but a Receiver busy reading inbound frames may not have drained it when
\* the broker, having accepted the consumer, starts delivering to it.
CONSTANTS
  Callers = {c1, c2}
  Producers = {p1}
  ConsumerIds = {k1}
  Ops = {"subscribe", "rpc"}
  MaxOps = 1
  IdBits = 3
  ResponseKinds = {"success"}
  InboundFaults = {}
  MaxSinkErrors = 0
  MaxBrokerPings = 0
  MaxDeliveries = 1
  None = None
  c1 = c1
  c2 = c2
  p1 = p1
  k1 = k1

SPECIFICATION Spec
INVARIANT NoDeliveryDropped
