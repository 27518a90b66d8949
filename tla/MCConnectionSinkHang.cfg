\* A failed write ends the Writer and sets the error cell, but the Receiver
\* keeps running while the inbound stream is open: the caller whose frame
\* was lost keeps its resolver registered and awaits forever.
CONSTANTS
  Callers = {c1, c2}
  Producers = {p1}
  ConsumerIds = {k1}
  Ops = {"rpc"}
  MaxOps = 1
  IdBits = 3
  ResponseKinds = {"success"}
  InboundFaults = {}
  MaxSinkErrors = 1
  MaxBrokerPings = 0
  MaxDeliveries = 0
  None = None
  c1 = c1
  c2 = c2
  p1 = p1
  k1 = k1

SPECIFICATION FairSpec
PROPERTY CallsEventuallyReturn
