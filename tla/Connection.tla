----------------------------- MODULE Connection -----------------------------
(***************************************************************************)
(* The connection core of pulsar-rs (src/connection.rs): user tasks        *)
(* calling the ConnectionSender, the Receiver task, the Writer task, the   *)
(* shared error cell and the drop of the Connection, over a broker that    *)
(* answers requests in any order, pings, delivers to consumers and whose   *)
(* transport may fail.                                                     *)
(*                                                                         *)
(* Every channel of the code is a sequence: the registrations channel      *)
(* (regs), the outbound channel (outbound), the socket towards the broker  *)
(* (wire) and back (inbound).  A oneshot resolver is named by the caller   *)
(* and the number of the call that created it, <<c, n>>; frames carry the  *)
(* resolver of the call they answer as a ghost field, never read by the    *)
(* code, so that properties can say who a response was meant for.         *)
(***************************************************************************)
EXTENDS Naturals, Sequences, FiniteSets, Functions, TLC

CONSTANTS
  Callers,        \* user tasks holding the ConnectionSender
  Producers,      \* producer ids passed to send()
  ConsumerIds,    \* consumer ids passed to subscribe()
  Ops,            \* the ConnectionSender operations the callers call
  MaxOps,         \* operations each caller performs
  IdBits,         \* width in bits of the request-id counter (usize)
  ResponseKinds,  \* what the broker answers: the expected command, an error, another command
  InboundFaults,  \* how the inbound stream may end: "eof" (None) or "error" (Some(Err))
  MaxSinkErrors,  \* failed writes the transport may produce
  MaxBrokerPings, \* broker-initiated Pings
  MaxDeliveries,  \* broker-initiated frames per consumer
  None            \* a model value: no key, no resolver, no error

AllOps == {"rpc", "close_consumer", "subscribe", "send", "ping", "fire_and_forget"}

ASSUME /\ Ops \subseteq AllOps
       /\ ResponseKinds \subseteq {"success", "error", "unexpected"}
       /\ InboundFaults \subseteq {"eof", "error"}
       /\ \A n \in {MaxOps, IdBits, MaxSinkErrors, MaxBrokerPings, MaxDeliveries} : n \in Nat

VARIABLES
  pc,          \* [Callers -> {"idle", "waiting"}]
  opCount,     \* calls each caller has started; <<c, opCount[c]>> is its current resolver
  call,        \* kind of the caller's current or last call: "request", "ping", "fire"
  resp,        \* what the current resolver received: None, Canceled or a frame
  result,      \* what the caller's last call returned
  requestId,   \* the SerialId counter (SerialId.0)
  nextSeq,     \* next sequence id of each producer (kept increasing by the layer above)
  usedCids,    \* consumer ids subscribed on this connection (never reused above)
  regs,        \* the registrations channel
  outbound,    \* the outbound channel tx -> rx
  wire,        \* frames the Writer has written and the broker has not read
  inbound,     \* frames the broker has sent and the Receiver has not read
  inboundEnd,  \* "open", or how the inbound stream ends after its frames
  rstate,      \* the Receiver: "poll", "regs", "inbound", "parked", "exited"
  pending,     \* Receiver.pending_requests: key -> resolver
  received,    \* Receiver.received_messages: key -> frame
  consumers,   \* Receiver.consumers: consumer id -> that consumer's channel
  ping,        \* Receiver.ping: a resolver or None
  delivered,   \* frames pushed into each consumer's channel (their ordinals)
  writer,      \* the Writer task: "running" or "exited"
  error,       \* the SharedError cell: None, "Disconnected" or "Io"
  dropped,     \* the Connection has been dropped
  todo,        \* requests the broker has read and not answered
  subscribed,  \* consumers the broker has accepted and may deliver to
  sinkErrors,  \* failed writes so far
  brokerPings, \* broker-initiated Pings so far
  sent         \* frames the broker has sent to each consumer

callerVars == <<pc, opCount, call, resp, result, requestId, nextSeq, usedCids>>
recvVars   == <<rstate, pending, received, consumers, ping, delivered>>
chanVars   == <<regs, outbound, wire, inbound, inboundEnd>>
brokerVars == <<todo, subscribed, sinkErrors, brokerPings, sent>>
vars == <<callerVars, recvVars, chanVars, brokerVars, writer, error, dropped>>

EmptyMap == [k \in {} |-> None]

\* A frame of the protocol, reduced to what routing reads from it.
Frame(type, key, res, cid, kind) ==
  [type |-> type, key |-> key, res |-> res, cid |-> cid, kind |-> kind]

PingFrame == Frame("ping", None, None, None, None)
PongFrame == Frame("pong", None, None, None, None)

\* What the receiving end of a dropped oneshot resolver observes.
Canceled == Frame("canceled", None, None, None, None)

\* SharedError::set: the first error wins.
SetError(e) == IF error = None THEN e ELSE error

\* Sending on oneshot resolvers: a value reaches a caller only if that caller
\* is still awaiting that very resolver; otherwise the send is ignored.
Resolve(rs, v) ==
  [c \in Callers |-> IF pc[c] = "waiting" /\ <<c, opCount[c]>> \in rs THEN v ELSE resp[c]]

-----------------------------------------------------------------------------
(* The Receiver task (impl Future for Receiver).                           *)

\* A variant of ReceiverExit whose queued registrations outlive it: the
\* resolvers still in the registrations channel are never dropped.
ReceiverExitKeepsQueued(e) ==
  /\ rstate' = "exited"
  /\ error' = IF e = None THEN error ELSE SetError(e)
  /\ resp' = Resolve(Range(pending) \cup {ping}, Canceled)
  /\ pending' = EmptyMap
  /\ received' = EmptyMap
  /\ consumers' = EmptyMap
  /\ ping' = None
  /\ regs' = <<>>

\* The Receiver returns and is dropped with every resolver it holds, the
\* ones still queued in the registrations channel included.
ReceiverExit(e) ==
  /\ rstate' = "exited"
  /\ error' = IF e = None THEN error ELSE SetError(e)
  /\ resp' = Resolve(Range(pending) \cup {ping}
                       \cup {regs[i].res : i \in 1..Len(regs)}, Canceled)
  /\ pending' = EmptyMap
  /\ received' = EmptyMap
  /\ consumers' = EmptyMap
  /\ ping' = None
  /\ regs' = <<>>

RecvPollShutdown ==
  /\ rstate = "poll"
  /\ IF dropped
       THEN ReceiverExit(None)
       ELSE /\ rstate' = "regs"
            /\ UNCHANGED <<pending, received, consumers, ping, regs, error, resp>>
  /\ UNCHANGED <<delivered, outbound, wire, inbound, inboundEnd, writer, dropped,
                 brokerVars, pc, opCount, call, result, requestId, nextSeq, usedCids>>

\* Variants of RecvRegisterRequest: the stash read with get() instead of
\* remove(), and the first stashed response taken whatever its key.
RecvRegisterRequestKeepStash ==
  /\ rstate = "regs"
  /\ regs # <<>>
  /\ Head(regs).reg = "request"
  /\ LET r == Head(regs) IN
       IF r.key \in DOMAIN received
         THEN /\ resp' = Resolve({r.res}, received[r.key])
              /\ UNCHANGED <<pending, received>>
         ELSE /\ pending' = (r.key :> r.res) @@ pending
              /\ resp' = IF r.key \in DOMAIN pending
                           THEN Resolve({pending[r.key]}, Canceled) ELSE resp
              /\ UNCHANGED received
  /\ regs' = Tail(regs)
  /\ UNCHANGED <<rstate, consumers, ping, delivered, outbound, wire, inbound, inboundEnd,
                 writer, error, dropped, brokerVars,
                 pc, opCount, call, result, requestId, nextSeq, usedCids>>

RecvRegisterRequestAnyStashed ==
  /\ rstate = "regs"
  /\ regs # <<>>
  /\ Head(regs).reg = "request"
  /\ LET r == Head(regs) IN
       IF received # EmptyMap
         THEN LET k == CHOOSE k \in DOMAIN received : TRUE IN
              /\ resp' = Resolve({r.res}, received[k])
              /\ received' = Restrict(received, DOMAIN received \ {k})
              /\ UNCHANGED pending
         ELSE /\ pending' = (r.key :> r.res) @@ pending
              /\ resp' = IF r.key \in DOMAIN pending
                           THEN Resolve({pending[r.key]}, Canceled) ELSE resp
              /\ UNCHANGED received
  /\ regs' = Tail(regs)
  /\ UNCHANGED <<rstate, consumers, ping, delivered, outbound, wire, inbound, inboundEnd,
                 writer, error, dropped, brokerVars,
                 pc, opCount, call, result, requestId, nextSeq, usedCids>>

RecvRegisterRequest ==
  /\ rstate = "regs"
  /\ regs # <<>>
  /\ Head(regs).reg = "request"
  /\ LET r == Head(regs) IN
       IF r.key \in DOMAIN received
         THEN /\ resp' = Resolve({r.res}, received[r.key])
              /\ received' = Restrict(received, DOMAIN received \ {r.key})
              /\ UNCHANGED pending
         ELSE /\ pending' = (r.key :> r.res) @@ pending
              /\ resp' = IF r.key \in DOMAIN pending
                           THEN Resolve({pending[r.key]}, Canceled) ELSE resp
              /\ UNCHANGED received
  /\ regs' = Tail(regs)
  /\ UNCHANGED <<rstate, consumers, ping, delivered, outbound, wire, inbound, inboundEnd,
                 writer, error, dropped, brokerVars,
                 pc, opCount, call, result, requestId, nextSeq, usedCids>>

RecvRegisterConsumer ==
  /\ rstate = "regs"
  /\ regs # <<>>
  /\ Head(regs).reg = "consumer"
  /\ consumers' = (Head(regs).cid :> Head(regs).cid) @@ consumers
  /\ regs' = Tail(regs)
  /\ UNCHANGED <<rstate, pending, received, ping, delivered, outbound, wire, inbound,
                 inboundEnd, writer, error, dropped, brokerVars, callerVars>>

\* A variant of RecvRegisterPing that stores the registration, not its resolver.
RecvRegisterPingWholeRecord ==
  /\ rstate = "regs"
  /\ regs # <<>>
  /\ Head(regs).reg = "ping"
  /\ ping' = Head(regs)
  /\ resp' = Resolve({ping}, Canceled)
  /\ regs' = Tail(regs)
  /\ UNCHANGED <<rstate, pending, received, consumers, delivered, outbound, wire, inbound,
                 inboundEnd, writer, error, dropped, brokerVars,
                 pc, opCount, call, result, requestId, nextSeq, usedCids>>

RecvRegisterPing ==
  /\ rstate = "regs"
  /\ regs # <<>>
  /\ Head(regs).reg = "ping"
  /\ ping' = Head(regs).res
  /\ resp' = Resolve({ping}, Canceled)
  /\ regs' = Tail(regs)
  /\ UNCHANGED <<rstate, pending, received, consumers, delivered, outbound, wire, inbound,
                 inboundEnd, writer, error, dropped, brokerVars,
                 pc, opCount, call, result, requestId, nextSeq, usedCids>>

\* Poll::Ready(None): every ConnectionSender is gone.
RecvRegistrationsClosed ==
  /\ rstate = "regs"
  /\ regs = <<>>
  /\ dropped
  /\ ReceiverExit("Disconnected")
  /\ UNCHANGED <<delivered, outbound, wire, inbound, inboundEnd, writer, dropped,
                 brokerVars, pc, opCount, call, result, requestId, nextSeq, usedCids>>

RecvRegistrationsPending ==
  /\ rstate = "regs"
  /\ regs = <<>>
  /\ ~dropped
  /\ rstate' = "inbound"
  /\ UNCHANGED <<pending, received, consumers, ping, delivered, chanVars, writer, error,
                 dropped, brokerVars, callerVars>>

\* A broker Ping is answered by queueing a Pong on the outbound channel; the
\* send fails, ignored, once the Writer has dropped its end.
RecvPing ==
  /\ rstate = "inbound"
  /\ inbound # <<>>
  /\ Head(inbound).type = "ping"
  /\ outbound' = IF writer = "running" THEN Append(outbound, PongFrame) ELSE outbound
  /\ inbound' = Tail(inbound)
  /\ UNCHANGED <<recvVars, regs, wire, inboundEnd, writer, error, dropped, brokerVars,
                 callerVars>>

RecvPong ==
  /\ rstate = "inbound"
  /\ inbound # <<>>
  /\ Head(inbound).type = "pong"
  /\ resp' = Resolve({ping}, PongFrame)
  /\ ping' = None
  /\ inbound' = Tail(inbound)
  /\ UNCHANGED <<rstate, pending, received, consumers, delivered, regs, outbound, wire,
                 inboundEnd, writer, error, dropped, brokerVars,
                 pc, opCount, call, result, requestId, nextSeq, usedCids>>

\* A frame keyed by RequestId or ProducerSend: to its resolver if registered,
\* otherwise into the stash of early responses.
\* A variant of RecvResponse without the stash: a response that finds no
\* registration is dropped.
RecvResponseNoStash ==
  /\ rstate = "inbound"
  /\ inbound # <<>>
  /\ Head(inbound).type = "response"
  /\ LET f == Head(inbound) IN
       IF f.key \in DOMAIN pending
         THEN /\ resp' = Resolve({pending[f.key]}, f)
              /\ pending' = Restrict(pending, DOMAIN pending \ {f.key})
         ELSE UNCHANGED <<pending, resp>>
  /\ inbound' = Tail(inbound)
  /\ UNCHANGED <<rstate, received, consumers, ping, delivered, regs, outbound, wire,
                 inboundEnd, writer, error, dropped, brokerVars,
                 pc, opCount, call, result, requestId, nextSeq, usedCids>>

\* A variant of RecvResponse that takes the entry out of pending_requests
\* only when its resolver is still awaited.
RecvResponseRemoveOnDelivery ==
  /\ rstate = "inbound"
  /\ inbound # <<>>
  /\ Head(inbound).type = "response"
  /\ LET f == Head(inbound)
         r == pending[f.key]
     IN IF f.key \in DOMAIN pending
          THEN /\ resp' = Resolve({r}, f)
               /\ pending' = IF pc[r[1]] = "waiting" /\ opCount[r[1]] = r[2]
                              THEN Restrict(pending, DOMAIN pending \ {f.key}) ELSE pending
               /\ UNCHANGED received
          ELSE /\ received' = (f.key :> f) @@ received
               /\ UNCHANGED <<pending, resp>>
  /\ inbound' = Tail(inbound)
  /\ UNCHANGED <<rstate, consumers, ping, delivered, regs, outbound, wire, inboundEnd,
                 writer, error, dropped, brokerVars,
                 pc, opCount, call, result, requestId, nextSeq, usedCids>>

RecvResponse ==
  /\ rstate = "inbound"
  /\ inbound # <<>>
  /\ Head(inbound).type = "response"
  /\ LET f == Head(inbound) IN
       IF f.key \in DOMAIN pending
         THEN /\ resp' = Resolve({pending[f.key]}, f)
              /\ pending' = Restrict(pending, DOMAIN pending \ {f.key})
              /\ UNCHANGED received
         ELSE /\ received' = (f.key :> f) @@ received
              /\ UNCHANGED <<pending, resp>>
  /\ inbound' = Tail(inbound)
  /\ UNCHANGED <<rstate, consumers, ping, delivered, regs, outbound, wire, inboundEnd,
                 writer, error, dropped, brokerVars,
                 pc, opCount, call, result, requestId, nextSeq, usedCids>>

\* A frame keyed by Consumer: pushed into that consumer's channel, or dropped
\* when no channel is installed for it.
RecvDelivery ==
  /\ rstate = "inbound"
  /\ inbound # <<>>
  /\ Head(inbound).type = "delivery"
  /\ LET f == Head(inbound) IN
       delivered' = IF f.cid \in DOMAIN consumers
                      THEN [delivered EXCEPT ![f.cid] = Append(@, f.kind)]
                      ELSE delivered
  /\ inbound' = Tail(inbound)
  /\ UNCHANGED <<rstate, pending, received, consumers, ping, regs, outbound, wire,
                 inboundEnd, writer, error, dropped, brokerVars, callerVars>>

\* Poll::Ready(None) sets Disconnected; Poll::Ready(Some(Err(e))) sets e.
RecvInboundEnd ==
  /\ rstate = "inbound"
  /\ inbound = <<>>
  /\ inboundEnd # "open"
  /\ ReceiverExit(IF inboundEnd = "eof" THEN "Disconnected" ELSE "Io")
  /\ UNCHANGED <<delivered, outbound, wire, inbound, inboundEnd, writer, dropped,
                 brokerVars, pc, opCount, call, result, requestId, nextSeq, usedCids>>

\* Poll::Pending: the task parks until one of its three sources is ready.
RecvPark ==
  /\ rstate = "inbound"
  /\ inbound = <<>>
  /\ inboundEnd = "open"
  /\ rstate' = "parked"
  /\ UNCHANGED <<pending, received, consumers, ping, delivered, chanVars, writer, error,
                 dropped, brokerVars, callerVars>>

RecvWake ==
  /\ rstate = "parked"
  /\ dropped \/ regs # <<>> \/ inbound # <<>> \/ inboundEnd # "open"
  /\ rstate' = "poll"
  /\ UNCHANGED <<pending, received, consumers, ping, delivered, chanVars, writer, error,
                 dropped, brokerVars, callerVars>>

Receiver ==
  \/ RecvPollShutdown \/ RecvRegisterRequest \/ RecvRegisterConsumer \/ RecvRegisterPing
  \/ RecvRegistrationsClosed \/ RecvRegistrationsPending
  \/ RecvPing \/ RecvPong \/ RecvResponse \/ RecvDelivery
  \/ RecvInboundEnd \/ RecvPark \/ RecvWake

-----------------------------------------------------------------------------
(* The Writer task spawned by Connection::connect.                          *)

WriterWrite ==
  /\ writer = "running"
  /\ outbound # <<>>
  /\ wire' = Append(wire, Head(outbound))
  /\ outbound' = Tail(outbound)
  /\ UNCHANGED <<recvVars, regs, inbound, inboundEnd, writer, error, dropped, brokerVars,
                 callerVars>>

\* sink.send fails: the error is set and the task ends, dropping its queue.
WriterSinkError ==
  /\ writer = "running"
  /\ outbound # <<>>
  /\ sinkErrors < MaxSinkErrors
  /\ sinkErrors' = sinkErrors + 1
  /\ error' = SetError("Io")
  /\ writer' = "exited"
  /\ outbound' = <<>>
  /\ UNCHANGED <<recvVars, regs, wire, inbound, inboundEnd, dropped, todo, subscribed,
                 brokerPings, sent, callerVars>>

\* rx.next() is None once the ConnectionSender and the Receiver's clone of tx
\* are both gone.
WriterClosed ==
  /\ writer = "running"
  /\ outbound = <<>>
  /\ dropped
  /\ rstate = "exited"
  /\ writer' = "exited"
  /\ UNCHANGED <<recvVars, chanVars, error, dropped, brokerVars, callerVars>>

Writer == WriterWrite \/ WriterSinkError \/ WriterClosed

-----------------------------------------------------------------------------
(* The ConnectionSender, called by user tasks.  Each call runs without a   *)
(* suspension point up to the await of its resolver, and is one step.      *)

RegOk == rstate # "exited"       \* registrations.unbounded_send succeeds
TxOk  == writer = "running"      \* tx.unbounded_send succeeds

CanCall(c) == pc[c] = "idle" /\ opCount[c] < MaxOps /\ ~dropped

Await(c, kind) ==
  /\ pc' = [pc EXCEPT ![c] = "waiting"]
  /\ call' = [call EXCEPT ![c] = kind]
  /\ resp' = [resp EXCEPT ![c] = None]
  /\ result' = [result EXCEPT ![c] = None]

Return(c, kind, v) ==
  /\ pc' = [pc EXCEPT ![c] = "idle"]
  /\ call' = [call EXCEPT ![c] = kind]
  /\ result' = [result EXCEPT ![c] = v]
  /\ UNCHANGED resp

\* SerialId::get: fetch_add on a usize, returned as u64.
NextRequestId == requestId % (2 ^ IdBits)

\* send_message: post the registration (after those in regs0), enqueue the
\* frame, and await the resolver only if both sends succeeded.
SendMessage(c, key, frame, regs0) ==
  LET r == [reg |-> "request", key |-> key, cid |-> None, res |-> <<c, opCount[c] + 1>>]
  IN /\ regs' = IF RegOk THEN Append(regs0, r) ELSE regs0
     /\ outbound' = IF TxOk THEN Append(outbound, frame) ELSE outbound
     /\ IF RegOk /\ TxOk THEN Await(c, "request") ELSE Return(c, "request", "Disconnected")

\* lookup_topic, lookup_partitioned_topic, create_producer,
\* get_topics_of_namespace and close_producer.
CommandRpc(c) ==
  LET key == <<"req", NextRequestId>> IN
  /\ "rpc" \in Ops
  /\ CanCall(c)
  /\ opCount' = [opCount EXCEPT ![c] = @ + 1]
  /\ requestId' = requestId + 1
  /\ SendMessage(c, key, Frame("request", key, <<c, opCount[c] + 1>>, None, None), regs)
  /\ UNCHANGED <<nextSeq, usedCids, recvVars, wire, inbound, inboundEnd, writer, error,
                 dropped, brokerVars>>

CloseConsumer(c) ==
  LET key == <<"req", NextRequestId>> IN
  /\ "close_consumer" \in Ops
  /\ CanCall(c)
  /\ \E cid \in usedCids :
       SendMessage(c, key, Frame("close_consumer", key, <<c, opCount[c] + 1>>, cid, None), regs)
  /\ opCount' = [opCount EXCEPT ![c] = @ + 1]
  /\ requestId' = requestId + 1
  /\ UNCHANGED <<nextSeq, usedCids, recvVars, wire, inbound, inboundEnd, writer, error,
                 dropped, brokerVars>>

\* send: keyed by (producer_id, sequence_id).
Send(c) ==
  /\ "send" \in Ops
  /\ CanCall(c)
  /\ \E p \in Producers :
       LET key == <<"send", p, nextSeq[p]>> IN
       /\ nextSeq' = [nextSeq EXCEPT ![p] = @ + 1]
       /\ SendMessage(c, key, Frame("request", key, <<c, opCount[c] + 1>>, None, None), regs)
  /\ opCount' = [opCount EXCEPT ![c] = @ + 1]
  /\ UNCHANGED <<requestId, usedCids, recvVars, wire, inbound, inboundEnd, writer, error,
                 dropped, brokerVars>>

\* subscribe: the consumer's channel is registered before the request.
Subscribe(c) ==
  LET key == <<"req", NextRequestId>> IN
  /\ "subscribe" \in Ops
  /\ CanCall(c)
  /\ \E cid \in ConsumerIds \ usedCids :
       /\ usedCids' = usedCids \cup {cid}
       /\ IF RegOk
            THEN /\ SendMessage(c, key, Frame("subscribe", key, <<c, opCount[c] + 1>>, cid, None),
                                Append(regs, [reg |-> "consumer", key |-> None, cid |-> cid,
                                              res |-> None]))
                 /\ UNCHANGED error
            ELSE /\ error' = SetError("Disconnected")
                 /\ Return(c, "request", "Disconnected")
                 /\ UNCHANGED <<regs, outbound>>
  /\ opCount' = [opCount EXCEPT ![c] = @ + 1]
  /\ requestId' = requestId + 1
  /\ UNCHANGED <<nextSeq, recvVars, wire, inbound, inboundEnd, writer, dropped, brokerVars>>

\* send_ping: registers the single ping slot and enqueues a Ping.
SendPing(c) ==
  /\ "ping" \in Ops
  /\ CanCall(c)
  /\ opCount' = [opCount EXCEPT ![c] = @ + 1]
  /\ regs' = IF RegOk THEN Append(regs, [reg |-> "ping", key |-> None, cid |-> None,
                                         res |-> <<c, opCount[c] + 1>>])
                      ELSE regs
  /\ outbound' = IF TxOk THEN Append(outbound, PingFrame) ELSE outbound
  /\ IF RegOk /\ TxOk THEN Await(c, "ping") ELSE Return(c, "ping", "Disconnected")
  /\ UNCHANGED <<requestId, nextSeq, usedCids, recvVars, wire, inbound, inboundEnd, writer,
                 error, dropped, brokerVars>>

\* send_flow, send_ack and send_redeliver_unacknowleged_messages.
SendFireAndForget(c) ==
  /\ "fire_and_forget" \in Ops
  /\ CanCall(c)
  /\ \E cid \in usedCids :
       outbound' = IF TxOk THEN Append(outbound, Frame("flow", None, None, cid, None))
                           ELSE outbound
  /\ opCount' = [opCount EXCEPT ![c] = @ + 1]
  /\ Return(c, "fire", IF TxOk THEN "Ok" ELSE "Disconnected")
  /\ UNCHANGED <<requestId, nextSeq, usedCids, recvVars, regs, wire, inbound, inboundEnd,
                 writer, error, dropped, brokerVars>>

\* A variant of extract_message that reports a server error as Disconnected.
ExtractMessageErrorAsDisconnected(f) ==
  CASE f.kind = "error"   -> "Disconnected"
    [] f.kind = "success" -> "Ok"
    [] OTHER              -> "UnexpectedResponse"

\* A variant of extract_message that applies the extractor before looking
\* for a server error.
ExtractMessageErrorAsUnexpected(f) ==
  CASE f.kind = "success" -> "Ok"
    [] OTHER              -> "UnexpectedResponse"

\* extract_message: a server error, the expected command, or another one.
ExtractMessage(f) ==
  CASE f.kind = "error"   -> "PulsarError"
    [] f.kind = "success" -> "Ok"
    [] OTHER              -> "UnexpectedResponse"

\* The caller resumes from the await: a dropped resolver is Canceled, which
\* send_message latches into the error cell and send_ping does not.
CallerResume(c) ==
  /\ pc[c] = "waiting"
  /\ resp[c] # None
  /\ pc' = [pc EXCEPT ![c] = "idle"]
  /\ result' = [result EXCEPT ![c] =
                  IF resp[c] = Canceled THEN "Disconnected"
                  ELSE IF call[c] = "ping" THEN "Ok" ELSE ExtractMessage(resp[c])]
  /\ error' = IF resp[c] = Canceled /\ call[c] = "request"
                THEN SetError("Disconnected") ELSE error
  /\ UNCHANGED <<opCount, call, resp, requestId, nextSeq, usedCids, recvVars, chanVars,
                 writer, dropped, brokerVars>>

\* The caller drops its future: its resolver's receiving end is closed.
CallerCancel(c) ==
  /\ pc[c] = "waiting"
  /\ pc' = [pc EXCEPT ![c] = "idle"]
  /\ result' = [result EXCEPT ![c] = "Cancelled"]
  /\ UNCHANGED <<opCount, call, resp, requestId, nextSeq, usedCids, recvVars, chanVars,
                 writer, error, dropped, brokerVars>>

\* Connection::drop fires the shutdown signal; the ConnectionSender, its tx
\* and its registrations sender go with it.  Callers borrow the Connection,
\* so none is inside a call.
DropConnection ==
  /\ ~dropped
  /\ \A c \in Callers : pc[c] # "waiting"
  /\ dropped' = TRUE
  /\ UNCHANGED <<callerVars, recvVars, chanVars, writer, error, brokerVars>>

\* Connection::error: SharedError::remove takes the error out of the cell.
TakeError ==
  /\ ~dropped
  /\ error # None
  /\ error' = None
  /\ UNCHANGED <<callerVars, recvVars, chanVars, writer, dropped, brokerVars>>

-----------------------------------------------------------------------------
(* The broker and the transport: the environment of the connection.        *)

BrokerReadRequest ==
  /\ inboundEnd = "open"
  /\ wire # <<>>
  /\ Head(wire).type \in {"request", "subscribe", "close_consumer"}
  /\ todo' = todo \cup {Head(wire)}
  /\ wire' = Tail(wire)
  /\ UNCHANGED <<callerVars, recvVars, regs, outbound, inbound, inboundEnd, writer, error,
                 dropped, subscribed, sinkErrors, brokerPings, sent>>

BrokerReadPing ==
  /\ inboundEnd = "open"
  /\ wire # <<>>
  /\ Head(wire).type = "ping"
  /\ inbound' = Append(inbound, PongFrame)
  /\ wire' = Tail(wire)
  /\ UNCHANGED <<callerVars, recvVars, regs, outbound, inboundEnd, writer, error, dropped,
                 brokerVars>>

\* Pongs and flow commands need no answer.
BrokerReadOther ==
  /\ inboundEnd = "open"
  /\ wire # <<>>
  /\ Head(wire).type \in {"pong", "flow"}
  /\ wire' = Tail(wire)
  /\ UNCHANGED <<callerVars, recvVars, regs, outbound, inbound, inboundEnd, writer, error,
                 dropped, brokerVars>>

\* Requests are answered in any order.  A successful Subscribe lets the
\* broker deliver to the consumer; a successful CloseConsumer stops it.
BrokerRespond ==
  /\ inboundEnd = "open"
  /\ \E f \in todo, kind \in ResponseKinds :
       /\ inbound' = Append(inbound, Frame("response", f.key, f.res, None, kind))
       /\ todo' = todo \ {f}
       /\ subscribed' = CASE kind = "success" /\ f.type = "subscribe" -> subscribed \cup {f.cid}
                          [] kind = "success" /\ f.type = "close_consumer" -> subscribed \ {f.cid}
                          [] OTHER -> subscribed
  /\ UNCHANGED <<callerVars, recvVars, regs, outbound, wire, inboundEnd, writer, error,
                 dropped, sinkErrors, brokerPings, sent>>

BrokerPing ==
  /\ inboundEnd = "open"
  /\ brokerPings < MaxBrokerPings
  /\ brokerPings' = brokerPings + 1
  /\ inbound' = Append(inbound, PingFrame)
  /\ UNCHANGED <<callerVars, recvVars, regs, outbound, wire, inboundEnd, writer, error,
                 dropped, todo, subscribed, sinkErrors, sent>>

\* A Message, ActiveConsumerChange, ReachedEndOfTopic or CloseConsumer frame.
BrokerDeliver ==
  /\ inboundEnd = "open"
  /\ \E cid \in subscribed :
       /\ sent[cid] < MaxDeliveries
       /\ sent' = [sent EXCEPT ![cid] = @ + 1]
       /\ inbound' = Append(inbound, Frame("delivery", <<"consumer", cid>>, None, cid,
                                           sent[cid] + 1))
  /\ UNCHANGED <<callerVars, recvVars, regs, outbound, wire, inboundEnd, writer, error,
                 dropped, todo, subscribed, sinkErrors, brokerPings>>

InboundFault ==
  /\ inboundEnd = "open"
  /\ \E e \in InboundFaults : inboundEnd' = e
  /\ UNCHANGED <<callerVars, recvVars, regs, outbound, wire, inbound, writer, error,
                 dropped, brokerVars>>

Broker ==
  \/ BrokerReadRequest \/ BrokerReadPing \/ BrokerReadOther \/ BrokerRespond
  \/ BrokerPing \/ BrokerDeliver \/ InboundFault

-----------------------------------------------------------------------------
(* Connection::connect, after the handshake: the channels, the error cell   *)
(* and the shutdown signal are created and both tasks are spawned.         *)

Init ==
  /\ pc = [c \in Callers |-> "idle"]
  /\ opCount = [c \in Callers |-> 0]
  /\ call = [c \in Callers |-> None]
  /\ resp = [c \in Callers |-> None]
  /\ result = [c \in Callers |-> None]
  /\ requestId = 0
  /\ nextSeq = [p \in Producers |-> 0]
  /\ usedCids = {}
  /\ regs = <<>>
  /\ outbound = <<>>
  /\ wire = <<>>
  /\ inbound = <<>>
  /\ inboundEnd = "open"
  /\ rstate = "poll"
  /\ pending = EmptyMap
  /\ received = EmptyMap
  /\ consumers = EmptyMap
  /\ ping = None
  /\ delivered = [cid \in ConsumerIds |-> <<>>]
  /\ writer = "running"
  /\ error = None
  /\ dropped = FALSE
  /\ todo = {}
  /\ subscribed = {}
  /\ sinkErrors = 0
  /\ brokerPings = 0
  /\ sent = [cid \in ConsumerIds |-> 0]

Caller(c) ==
  \/ CommandRpc(c) \/ CloseConsumer(c) \/ Send(c) \/ Subscribe(c) \/ SendPing(c)
  \/ SendFireAndForget(c) \/ CallerResume(c) \/ CallerCancel(c)

\* Both tasks have ended after the drop: nothing is left to happen.
Terminated == dropped /\ rstate = "exited" /\ writer = "exited"

Next ==
  \/ \E c \in Callers : Caller(c)
  \/ Receiver
  \/ Writer
  \/ DropConnection
  \/ TakeError
  \/ Broker
  \/ Terminated /\ UNCHANGED vars

\* The executor polls a woken task eventually, the broker answers what it
\* reads, and a caller whose resolver has fired is resumed.  User code is
\* not obliged to call, cancel or drop anything, and faults are not forced.
Fairness ==
  /\ WF_vars(Receiver)
  /\ WF_vars(WriterWrite \/ WriterClosed)
  /\ WF_vars(BrokerReadRequest \/ BrokerReadPing \/ BrokerReadOther)
  /\ WF_vars(BrokerRespond)
  /\ \A c \in Callers : WF_vars(CallerResume(c))

Spec == Init /\ [][Next]_vars
FairSpec == Spec /\ Fairness

-----------------------------------------------------------------------------
(* Properties.                                                              *)

\* The RequestId and ProducerSend keys of RequestKey: those of the two tables.
Keys == ({"req"} \X (0 .. 2 ^ IdBits - 1)) \cup ({"send"} \X Producers \X Nat)
Resolvers == {<<c, n>> : c \in Callers, n \in 1 .. MaxOps}

\* Register: a request's key and oneshot resolver, a consumer's id and
\* channel, or the resolver of a ping.
Registers ==
  [reg : {"request"}, key : Keys, cid : {None}, res : Resolvers]
    \cup [reg : {"consumer"}, key : {None}, cid : ConsumerIds, res : {None}]
    \cup [reg : {"ping"}, key : {None}, cid : {None}, res : Resolvers]

TypeOK ==
  /\ pc \in [Callers -> {"idle", "waiting"}]
  /\ opCount \in [Callers -> 0 .. MaxOps]
  /\ call \in [Callers -> {None, "request", "ping", "fire"}]
  /\ result \in [Callers -> {None, "Ok", "PulsarError", "UnexpectedResponse",
                             "Disconnected", "Cancelled"}]
  /\ regs \in Seq(Registers)
  /\ rstate \in {"poll", "regs", "inbound", "parked", "exited"}
  /\ writer \in {"running", "exited"}
  /\ error \in {None, "Disconnected", "Io"}
  /\ inboundEnd \in {"open", "eof", "error"}
  /\ DOMAIN pending \subseteq Keys /\ Range(pending) \subseteq Resolvers
  /\ DOMAIN received \subseteq Keys
  /\ DOMAIN consumers \subseteq ConsumerIds
  /\ ping \in Resolvers \cup {None}
  /\ usedCids \subseteq ConsumerIds /\ subscribed \subseteq ConsumerIds
  /\ dropped \in BOOLEAN

\* Demultiplexing (spec section 8): a response handed to a waiting caller by
\* the Receiver, straight from pending_requests or from the stash of early
\* responses, is always the broker's answer to that caller's own request.
ResponseMatchesRequest ==
  \A c \in Callers :
    (pc[c] = "waiting" /\ call[c] = "request" /\ resp[c] \notin {None, Canceled})
      => resp[c].res = <<c, opCount[c]>>

\* The stash of early responses (received_messages) never leaks: every entry
\* is the answer to a registration still queued in the registrations channel,
\* which will take it out when the Receiver drains it.
StashHasRegistration ==
  \A k \in DOMAIN received :
    \E i \in 1 .. Len(regs) : regs[i].reg = "request" /\ regs[i].key = k

\* A request (send_message) returns Disconnected only when the transport
\* really is gone: the Receiver or the Writer task has ended.  A resolver
\* dropped for any other reason would poison a healthy connection.
RequestDisconnectedMeansDead ==
  \A c \in Callers :
    (result[c] = "Disconnected" /\ call[c] = "request") => rstate = "exited" \/ writer = "exited"

\* Consumer routing (spec section 8, scenario 6): a consumer's channel gets
\* every frame the broker sent to it after accepting its Subscribe, in order;
\* the frames not yet read by the Receiver are still in inbound.
InFlightDeliveries(cid) ==
  LET fs == SelectSeq(inbound, LAMBDA f : f.type = "delivery" /\ f.cid = cid)
  IN [i \in 1 .. Len(fs) |-> fs[i].kind]

NoDeliveryDropped ==
  \A cid \in ConsumerIds :
    delivered[cid] \o InFlightDeliveries(cid) = [i \in 1 .. sent[cid] |-> i]

\* Spec scenario 5: after a transport failure a new request returns
\* Disconnected without touching the socket.  A step in which an idle
\* caller starts a request and returns Disconnected at once leaves the
\* outbound channel as it was.
FailFastLeavesSocketAlone ==
  [][\A c \in Callers :
       (/\ opCount'[c] = opCount[c] + 1
        /\ pc'[c] = "idle" /\ call'[c] = "request" /\ result'[c] = "Disconnected")
         => outbound' = outbound]_vars

\* Every call that awaits a resolver eventually returns, with the response,
\* a broker error or Disconnected.
CallsEventuallyReturn ==
  \A c \in Callers : pc[c] = "waiting" ~> pc[c] = "idle"

\* The broker's answer to caller c's current request, wherever it is on its
\* way: on the socket, in the stash, or in c's resolver.
AnswerOf(c) ==
  LET fs   == {inbound[i] : i \in 1 .. Len(inbound)} \cup Range(received)
                \cup (IF resp[c] = None THEN {} ELSE {resp[c]})
      mine == {f \in fs : f.type = "response" /\ f.res = <<c, opCount[c]>>}
  IN IF mine = {} THEN None ELSE (CHOOSE f \in mine : TRUE).kind

\* Spec section 8: once the inbound stream is closed, every waiting caller
\* observes Disconnected, and no other error.  A request waiting when the
\* stream has ended, with no answer to it left on the socket, in the stash
\* or in its resolver, returns Disconnected (or is given up by its caller),
\* whether its registration was in pending_requests or still queued when
\* the Receiver ended.
InboundEndFailsWaiters ==
  \A c \in Callers :
    (inboundEnd # "open" /\ pc[c] = "waiting" /\ call[c] = "request" /\ AnswerOf(c) = None)
      ~> (pc[c] = "idle" /\ result[c] \in {"Disconnected", "Cancelled"})

\* An entry of pending_requests whose caller has given up is removed when
\* the broker's answer arrives, like any other (Receiver::poll removes
\* before it sends): the table does not grow with abandoned calls while the
\* Receiver runs.
PendingEntriesDrain ==
  \A r \in Resolvers : r \in Range(pending) ~> (r \notin Range(pending) \/ rstate = "exited")

-----------------------------------------------------------------------------
(* Refinement: the connection core implements AbstractRpc.                  *)

Abs == INSTANCE AbstractRpc WITH
         state  <- pc,
         kind   <- call,
         out    <- result,
         answer <- [c \in Callers |->
                      IF pc[c] = "waiting" /\ call[c] = "request" THEN AnswerOf(c) ELSE None],
         dead   <- rstate = "exited" \/ writer = "exited"

\* Every behaviour of the connection core is one the abstract promise
\* allows: a request returns what the broker answered to it (through
\* extract_message), a ping returns Ok, and either returns Disconnected
\* only once the Receiver or the Writer has ended.
Refines == Abs!ASpec

=============================================================================
