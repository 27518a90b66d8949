----------------------------- MODULE AbstractRpc -----------------------------
(***************************************************************************)
(* What the ConnectionSender promises its callers (spec sections 4.5 and   *)
(* 8), with no channels, tasks or routing tables.  A request call waits    *)
(* until the broker has answered it and then returns what the answer       *)
(* says, or it returns Disconnected, which it may only do once the         *)
(* connection is dead; a ping returns Ok, or Disconnected on a dead        *)
(* connection; a fire-and-forget send returns at once.  A caller may give  *)
(* up waiting.                                                             *)
(***************************************************************************)
CONSTANTS Callers, None

VARIABLES
  state,   \* [Callers -> {"idle", "waiting"}]
  kind,    \* the kind of each caller's current or last call
  out,     \* what each caller's last call returned (None while waiting)
  answer,  \* the broker's answer to a waiting request: None or its kind
  dead     \* the connection has failed for good

avars == <<state, kind, out, answer, dead>>

AnswerKinds == {"success", "error", "unexpected"}

\* Spec section 4.5, step 5: a server error is PulsarError, an answer without
\* the expected command is UnexpectedResponse.
SpecResult(a) ==
  CASE a = "error"      -> "PulsarError"
    [] a = "unexpected" -> "UnexpectedResponse"
    [] a = "success"    -> "Ok"

AInit ==
  /\ state = [c \in Callers |-> "idle"]
  /\ kind = [c \in Callers |-> None]
  /\ out = [c \in Callers |-> None]
  /\ answer = [c \in Callers |-> None]
  /\ dead = FALSE

Call(c, k) ==
  /\ state[c] = "idle"
  /\ state' = [state EXCEPT ![c] = "waiting"]
  /\ kind' = [kind EXCEPT ![c] = k]
  /\ out' = [out EXCEPT ![c] = None]
  /\ UNCHANGED <<answer, dead>>

\* A call that cannot even be posted returns at once.
FailFast(c, k) ==
  /\ state[c] = "idle"
  /\ dead
  /\ kind' = [kind EXCEPT ![c] = k]
  /\ out' = [out EXCEPT ![c] = "Disconnected"]
  /\ UNCHANGED <<state, answer, dead>>

FireAndForget(c) ==
  /\ state[c] = "idle"
  /\ kind' = [kind EXCEPT ![c] = "fire"]
  /\ \E v \in IF dead THEN {"Ok", "Disconnected"} ELSE {"Ok"} :
       out' = [out EXCEPT ![c] = v]
  /\ UNCHANGED <<state, answer, dead>>

Answer(c) ==
  /\ state[c] = "waiting" /\ kind[c] = "request"
  /\ answer[c] = None
  /\ \E a \in AnswerKinds : answer' = [answer EXCEPT ![c] = a]
  /\ UNCHANGED <<state, kind, out, dead>>

Return(c, v) ==
  /\ state' = [state EXCEPT ![c] = "idle"]
  /\ out' = [out EXCEPT ![c] = v]
  /\ answer' = [answer EXCEPT ![c] = None]
  /\ UNCHANGED <<kind, dead>>

Reply(c) ==
  /\ state[c] = "waiting" /\ kind[c] = "request"
  /\ answer[c] # None
  /\ Return(c, SpecResult(answer[c]))

Pong(c) ==
  /\ state[c] = "waiting" /\ kind[c] = "ping"
  /\ Return(c, "Ok")

Fail(c) ==
  /\ state[c] = "waiting"
  /\ dead
  /\ Return(c, "Disconnected")

Cancel(c) ==
  /\ state[c] = "waiting"
  /\ Return(c, "Cancelled")

\* The connection fails; answers that had not reached their callers may be
\* lost with it, then or later.
Break ==
  /\ dead' = TRUE
  /\ answer' \in {f \in [Callers -> AnswerKinds \cup {None}] :
                    \A c \in Callers : f[c] \in {answer[c], None}}
  /\ answer' # answer \/ ~dead
  /\ UNCHANGED <<state, kind, out>>

ANext ==
  \/ \E c \in Callers :
       \/ \E k \in {"request", "ping"} : Call(c, k) \/ FailFast(c, k)
       \/ FireAndForget(c) \/ Answer(c) \/ Reply(c) \/ Pong(c) \/ Fail(c) \/ Cancel(c)
  \/ Break

ASpec == AInit /\ [][ANext]_avars

=============================================================================
