\* Every call returns, under the fairness of the executor and a responsive
\* broker, when the inbound stream may end but writes never fail and no
\* caller uses send_ping (both are the subject of violation runs).
CONSTANTS
  Callers = {c1, c2}
  Producers = {p1}
  ConsumerIds = {k1}
  Ops = {"rpc", "subscribe", "send"}
  MaxOps = 1
  IdBits = 3
  ResponseKinds = {"success", "error"}
  InboundFaults = {"eof"}
  MaxSinkErrors = 0
  MaxBrokerPings = 0
  MaxDeliveries = 1
  None = None
  c1 = c1
  c2 = c2
  p1 = p1
  k1 = k1

SPECIFICATION FairSpec
PROPERTY CallsEventuallyReturn
PROPERTY InboundEndFailsWaiters
PROPERTY PendingEntriesDrain
