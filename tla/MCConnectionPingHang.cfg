\* send_ping registers its resolver and enqueues the Ping in one step, but a
\* Receiver busy reading inbound frames can read the Pong before it drains
\* the registration: the Pong is ignored and the caller awaits forever.
CONSTANTS
  Callers = {c1, c2}
  Producers = {p1}
  ConsumerIds = {k1}
  Ops = {"ping", "rpc"}
  MaxOps = 1
  IdBits = 3
  ResponseKinds = {"success"}
  InboundFaults = {}
  MaxSinkErrors = 0
  MaxBrokerPings = 1
  MaxDeliveries = 0
  None = None
  c1 = c1
  c2 = c2
  p1 = p1
  k1 = k1

SPECIFICATION FairSpec
PROPERTY CallsEventuallyReturn
