------------------------------ MODULE Bootstrap ------------------------------
(***************************************************************************)
(* Connection bootstrap of pulsar-rs (src/connection.rs, Connection::new,  *)
(* prepare_stream and connect; src/executor.rs for the JoinHandle).  The   *)
(* bootstrap future runs its steps one after another; what it can not      *)
(* choose (the URL, the runtime, the answers of DNS, TCP, TLS and the      *)
(* broker, the executor's spawn results) is fixed in the initial state as  *)
(* the record env.  Once the Receiver is spawned it runs concurrently with *)
(* the rest of the bootstrap, with the caller that later drops the         *)
(* Connection, and with the broker closing the socket.                     *)
(***************************************************************************)
EXTENDS Naturals, TLC

CONSTANTS
    Schemes,          \* URL schemes the caller may pass
    ExecutorKinds,    \* runtimes compiled in (cargo features): "Tokio", "AsyncStd"
    DnsResults,       \* "err" (lookup failed), "empty" (no address), "addrs"
    TransportFaults,  \* subset of {"tcp", "tls_build", "tls_connect", "send"}
    HandshakeReplies, \* subset of {"error", "connected", "other", "end", "err"}
    SpawnMayFail      \* executors implemented outside the crate are in scope

ValidSchemes == {"pulsar", "pulsar+ssl"}

Outcomes == {"Ok", "NotFound", "Io", "Tls", "PulsarError", "Unexpected",
             "Disconnected", "Shutdown", "panic"}

\* An executor as the bootstrap sees it: the JoinHandle variant its
\* spawn_blocking returns, and what its spawn may return.  Its kind() only
\* picks the TCP/TLS backend of prepare_stream, whose failures are the same
\* faults on both.  TokioExecutor and AsyncStdExecutor hand the future to
\* their runtime's task::spawn and return Ok(()).
TokioExecutor == [join |-> "Tokio", spawn |-> {"ok"}]

AsyncStdExecutor == [join |-> "AsyncStd", spawn |-> {"ok"}]

\* An Executor implemented outside the crate: spawn may return Err(()), and
\* its JoinHandle is either compiled-in variant.
CustomExecutors == [join : ExecutorKinds, spawn : {{"ok", "err"}}]

Executors ==
    {x \in {TokioExecutor, AsyncStdExecutor} : x.join \in ExecutorKinds}
      \cup (IF SpawnMayFail THEN CustomExecutors ELSE {})

\* One environment: everything the bootstrap reads but does not decide.
Envs == {e \in [scheme : Schemes, exec : Executors, dns : DnsResults,
                faults : SUBSET TransportFaults, reply : HandshakeReplies,
                spawnReceiver : {"ok", "err"}, spawnWriter : {"ok", "err"}] :
           e.spawnReceiver \in e.exec.spawn /\ e.spawnWriter \in e.exec.spawn}

VARIABLES
    env,        \* the environment of this run
    step,       \* where the bootstrap future is
    tls,        \* the tls flag of Connection::new
    outcome,    \* what Connection::new returned ("none" while running)
    rstate,     \* Receiver task: "none", "scheduled", "polling" (past the
                \* shutdown check, in the stream loops), "parked", "exited"
    writer,     \* Writer task: "none", "running", "ended"
    shutdownTx, \* receiver_shutdown sender: "none", "held", "fired", "dropped"
    regsOpen,   \* the registrations sender is alive
    connHeld,   \* the caller holds the Connection (and so the sender)
    inbound,    \* the socket's read half after the handshake: "open", "end", "err"
    errorSet    \* the SharedError cell is set

vars == <<env, step, tls, outcome, rstate, writer, shutdownTx, regsOpen,
          connHeld, inbound, errorSet>>

Steps == {"scheme", "resolve", "tcp", "tls", "handshake_send",
          "handshake_reply", "spawn_receiver", "spawn_writer", "unwind", "done"}

taskVars == <<rstate, writer, shutdownTx, regsOpen, connHeld, inbound, errorSet>>

(***************************************************************************)
(* Bootstrap steps.                                                        *)
(***************************************************************************)
\* return Err(e) from Connection::new: every local is dropped.
Fail(e) ==
    /\ step' = "done"
    /\ outcome' = e

\* Scheme validation and the tls flag.
CheckScheme ==
    /\ step = "scheme"
    /\ \/ /\ env.scheme \notin ValidSchemes
          /\ Fail("NotFound")
          /\ UNCHANGED tls
       \/ /\ env.scheme \in ValidSchemes
          /\ tls' = (env.scheme = "pulsar+ssl")
          /\ step' = "resolve"
          /\ UNCHANGED outcome
    /\ UNCHANGED <<env, taskVars>>

\* The lookup closure runs on spawn_blocking.  With no address,
\* gen_range(0, 0) panics inside the closure.  Tokio's JoinHandle turns the
\* panic into None; async-std's JoinHandle panics in the awaiting task.
\* Mutants: the runtime's JoinError forwarded instead of mapped to None;
\* the JoinHandle unwrapped on both runtimes.
JoinPanickedRaw(join) == IF join = "Tokio" THEN "JoinError" ELSE "panic"

JoinPanickedUnwrap(join) == "panic"

JoinPanicked(join) == IF join = "Tokio" THEN "NotFound" ELSE "panic"

Resolve ==
    /\ step = "resolve"
    /\ \/ /\ env.dns = "addrs"
          /\ step' = "tcp"
          /\ UNCHANGED outcome
       \/ /\ env.dns = "err"
          /\ Fail("NotFound")
       \/ /\ env.dns = "empty"
          /\ Fail(JoinPanicked(env.exec.join))
    /\ UNCHANGED <<env, tls, taskVars>>

\* TcpStream::connect of the chosen runtime.
ConnectTcp ==
    /\ step = "tcp"
    /\ IF "tcp" \in env.faults
         THEN Fail("Io")
         ELSE /\ step' = IF tls THEN "tls" ELSE "handshake_send"
              /\ UNCHANGED outcome
    /\ UNCHANGED <<env, tls, taskVars>>

\* Tokio builds the native_tls connector before the TLS handshake
\* (builder.build()?); async-std's TlsConnector::new cannot fail, and the
\* same fault surfaces when its connect builds the connector.  Either way
\* the error is Tls.
TlsFails ==
    \/ "tls_build" \in env.faults
    \/ "tls_connect" \in env.faults

ConnectTls ==
    /\ step = "tls"
    /\ IF TlsFails
         THEN Fail("Tls")
         ELSE step' = "handshake_send" /\ UNCHANGED outcome
    /\ UNCHANGED <<env, tls, taskVars>>

\* stream.send(messages::connect(..)).await?
HandshakeSend ==
    /\ step = "handshake_send"
    /\ IF "send" \in env.faults
         THEN Fail("Io")
         ELSE step' = "handshake_reply" /\ UNCHANGED outcome
    /\ UNCHANGED <<env, tls, taskVars>>

\* stream.next().await and the match on it.  A frame carrying an error is
\* matched before the connected field is looked at.
ReplyOutcome == [error |-> "PulsarError", other |-> "Unexpected",
                 end |-> "Disconnected", err |-> "Io"]

HandshakeReply ==
    /\ step = "handshake_reply"
    /\ \/ /\ env.reply = "connected"
          /\ step' = "spawn_receiver"
          /\ UNCHANGED outcome
       \/ /\ env.reply # "connected"
          /\ Fail(ReplyOutcome[env.reply])
    /\ UNCHANGED <<env, tls, taskVars>>

\* The channels are created and the Receiver is spawned.  When spawn
\* fails the Receiver future is dropped unpolled.
SpawnReceiver ==
    /\ step = "spawn_receiver"
    /\ \/ /\ env.spawnReceiver = "ok"
          /\ rstate' = "scheduled"
          /\ shutdownTx' = "held"
          /\ regsOpen' = TRUE
          /\ step' = "spawn_writer"
          /\ UNCHANGED outcome
       \/ /\ env.spawnReceiver = "err"
          /\ Fail("Shutdown")
          /\ UNCHANGED <<rstate, shutdownTx, regsOpen>>
    /\ UNCHANGED <<env, tls, writer, connHeld, inbound, errorSet>>

\* The Writer is spawned and the ConnectionSender built.  When spawn fails
\* the function returns: the Writer future (with rx) is dropped unpolled and
\* the locals are dropped in reverse order of declaration,
\* receiver_shutdown_tx first.  The running Receiver may be polled before
\* registrations_tx follows it (UnwindSpawnWriter).
SpawnWriter ==
    /\ step = "spawn_writer"
    /\ \/ /\ env.spawnWriter = "ok"
          /\ writer' = "running"
          /\ connHeld' = TRUE
          /\ step' = "done"
          /\ outcome' = "Ok"
          /\ UNCHANGED shutdownTx
       \/ /\ env.spawnWriter = "err"
          /\ step' = "unwind"
          /\ shutdownTx' = "dropped"
          /\ UNCHANGED <<outcome, writer, connHeld>>
    /\ UNCHANGED <<env, tls, rstate, regsOpen, inbound, errorSet>>

\* The rest of the unwinding: registrations_tx is dropped and
\* Err(Shutdown) reaches the caller.
UnwindSpawnWriter ==
    /\ step = "unwind"
    /\ Fail("Shutdown")
    /\ regsOpen' = FALSE
    /\ UNCHANGED <<env, tls, rstate, writer, shutdownTx, connHeld, inbound, errorSet>>

(***************************************************************************)
(* After the handshake: the Connection, the Receiver, the Writer, the      *)
(* broker.                                                                 *)
(***************************************************************************)
\* Connection::drop sends on the shutdown sender.
DropConnection ==
    /\ connHeld
    /\ connHeld' = FALSE
    /\ shutdownTx' = "fired"
    /\ UNCHANGED <<env, step, tls, outcome, rstate, writer, regsOpen, inbound, errorSet>>

\* Then the ConnectionSender's fields are dropped, tx and registrations
\* among them (tx is released here too: the Writer only sees it with
\* registrations, WriterClosed).
DropSenderFields ==
    /\ ~connHeld
    /\ shutdownTx = "fired"
    /\ regsOpen
    /\ regsOpen' = FALSE
    /\ UNCHANGED <<env, step, tls, outcome, rstate, writer, shutdownTx, connHeld,
                   inbound, errorSet>>

\* The shutdown future is ready on a value and on a dropped sender.
ShutdownReady == shutdownTx \in {"fired", "dropped"}

\* A poll of the Receiver starts with the shutdown future: Ready(Ok) or
\* Ready(Canceled) returns at once, leaving the error cell alone.
RecvPollShutdown ==
    /\ rstate = "scheduled"
    /\ rstate' = IF ShutdownReady THEN "exited" ELSE "polling"
    /\ UNCHANGED <<env, step, tls, outcome, writer, shutdownTx, regsOpen,
                   connHeld, inbound, errorSet>>

RecvPollStreams ==
    /\ rstate = "polling"
    /\ CASE ~regsOpen ->
              rstate' = "exited" /\ errorSet' = TRUE
         [] inbound # "open" ->
              rstate' = "exited" /\ errorSet' = TRUE
         [] OTHER ->
              rstate' = "parked" /\ UNCHANGED errorSet
    /\ UNCHANGED <<env, step, tls, outcome, writer, shutdownTx, regsOpen,
                   connHeld, inbound>>

\* A parked Receiver registered its waker on the shutdown receiver, the
\* registrations receiver and the inbound stream.
\* Mutant: the waker is registered on the socket only.
RecvWakeableInboundOnly == inbound # "open"

RecvWakeable == ShutdownReady \/ ~regsOpen \/ inbound # "open"

RecvWake ==
    /\ rstate = "parked"
    /\ RecvWakeable
    /\ rstate' = "scheduled"
    /\ UNCHANGED <<env, step, tls, outcome, writer, shutdownTx, regsOpen,
                   connHeld, inbound, errorSet>>

\* rx.next() yields None once every UnboundedSender is gone: the sender's
\* tx and the Receiver's clone, released when the Receiver task completes.
WriterClosed ==
    /\ writer = "running"
    /\ ~connHeld
    /\ ~regsOpen
    /\ rstate \in {"none", "exited"}
    /\ writer' = "ended"
    /\ UNCHANGED <<env, step, tls, outcome, rstate, shutdownTx, regsOpen,
                   connHeld, inbound, errorSet>>

\* The broker or the network ends or breaks the socket after it sent
\* Connected.
BrokerClose ==
    /\ env.reply = "connected"
    /\ step \in {"spawn_receiver", "spawn_writer", "done"}
    /\ inbound = "open"
    /\ inbound' \in {"end", "err"}
    /\ UNCHANGED <<env, step, tls, outcome, rstate, writer, shutdownTx,
                   regsOpen, connHeld, errorSet>>

(***************************************************************************)
(* Specification.                                                          *)
(***************************************************************************)
Init ==
    /\ env \in Envs
    /\ step = "scheme"
    /\ tls = FALSE
    /\ outcome = "none"
    /\ rstate = "none"
    /\ writer = "none"
    /\ shutdownTx = "none"
    /\ regsOpen = FALSE
    /\ connHeld = FALSE
    /\ inbound = "open"
    /\ errorSet = FALSE

BootstrapStep ==
    CheckScheme \/ Resolve \/ ConnectTcp \/ ConnectTls \/ HandshakeSend
    \/ HandshakeReply \/ SpawnReceiver \/ SpawnWriter \/ UnwindSpawnWriter

\* Nothing is left to run.
Terminated ==
    /\ step = "done"
    /\ ~connHeld
    /\ rstate \in {"none", "exited"}
    /\ writer # "running"

Next ==
    \/ BootstrapStep
    \/ DropConnection
    \/ DropSenderFields
    \/ RecvPollShutdown
    \/ RecvPollStreams
    \/ RecvWake
    \/ WriterClosed
    \/ BrokerClose
    \/ Terminated /\ UNCHANGED vars

\* The caller awaits Connection::new to completion, and a drop that has
\* started runs to its end; a scheduled task is polled to its Ready or
\* Pending; a woken task is scheduled; a task whose channel closed runs.
Fairness ==
    /\ WF_vars(BootstrapStep)
    /\ WF_vars(DropSenderFields)
    /\ WF_vars(RecvPollShutdown)
    /\ WF_vars(RecvPollStreams)
    /\ WF_vars(RecvWake)
    /\ WF_vars(WriterClosed)

Spec == Init /\ [][Next]_vars

FairSpec == Spec /\ Fairness

(***************************************************************************)
(* Properties.                                                             *)
(***************************************************************************)
TypeOK ==
    /\ env \in Envs
    /\ step \in Steps
    /\ tls \in BOOLEAN
    /\ outcome \in Outcomes \cup {"none"}
    /\ rstate \in {"none", "scheduled", "polling", "parked", "exited"}
    /\ writer \in {"none", "running", "ended"}
    /\ shutdownTx \in {"none", "held", "fired", "dropped"}
    /\ regsOpen \in BOOLEAN
    /\ connHeld \in BOOLEAN
    /\ inbound \in {"open", "end", "err"}
    /\ errorSet \in BOOLEAN

\* The outcome table of the specification (section 4.6, steps 1-7, and the
\* error list of section 7): this is the reference the code's steps are checked against.
SpecOutcome(e) ==
    CASE e.scheme \notin ValidSchemes -> "NotFound"
      [] e.dns # "addrs" -> "NotFound"
      [] "tcp" \in e.faults -> "Io"
      [] e.scheme = "pulsar+ssl"
           /\ ({"tls_build", "tls_connect"} \cap e.faults) # {} -> "Tls"
      [] "send" \in e.faults -> "Io"
      [] e.reply = "error" -> "PulsarError"
      [] e.reply = "other" -> "Unexpected"
      [] e.reply = "end" -> "Disconnected"
      [] e.reply = "err" -> "Io"
      [] "err" \in {e.spawnReceiver, e.spawnWriter} -> "Shutdown"
      [] OTHER -> "Ok"

\* Connection::new returns what the specification's table says for the
\* URL, the runtime and the answers it got, for every path through
\* new, prepare_stream and connect.
OutcomeMatchesSpec ==
    step = "done" => outcome = SpecOutcome(env)

TasksEventuallyStop ==
    (step = "done" /\ ~connHeld) ~> (rstate \in {"none", "exited"} /\ writer # "running")

=============================================================================
