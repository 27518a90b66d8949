\* SerialId counts in a usize: on a 32-bit target request ids repeat after
\* 2^32 requests.  The width is scaled down to one bit: the third request
\* reuses the first one's id while it is still in flight.
CONSTANTS
  Callers = {c1, c2}
  Producers = {p1}
  ConsumerIds = {k1}
  Ops = {"rpc"}
  MaxOps = 2
  IdBits = 1
  ResponseKinds = {"success"}
  InboundFaults = {}
  MaxSinkErrors = 0
  MaxBrokerPings = 0
  MaxDeliveries = 0
  None = None
  c1 = c1
  c2 = c2
  p1 = p1
  k1 = k1

SPECIFICATION Spec
INVARIANT ResponseMatchesRequest
