-------------------------------- MODULE Outbox --------------------------------
(***************************************************************************)
(* What the communications outbox promises, whatever its jobs, requests    *)
(* and retries do: a message that was posted waits until it has been sent  *)
(* or given up, nothing waits for ever, a sent message never goes back     *)
(* into the queue, and nothing disappears that was not sent.               *)
(***************************************************************************)
CONSTANT Message

VARIABLE box

States == {"none", "waiting", "sent", "dead", "purged"}

In(state, ms) == \A m \in ms : box[m] = state
Move(ms, state) == box' = [m \in Message |-> IF m \in ms THEN state ELSE box[m]]

Post(m) == In("none", {m}) /\ Move({m}, "waiting")

\* A message that was given up may turn out to have been sent: the request that
\* created it was still talking to the provider.
Sent(m) == (In("waiting", {m}) \/ In("dead", {m})) /\ Move({m}, "sent")

GiveUp(m) == In("waiting", {m}) /\ Move({m}, "dead")

\* Some messages are replaced by one that lists them.
Digest(ms, d) ==
  /\ In("waiting", ms) /\ In("none", {d})
  /\ box' = [m \in Message |-> IF m \in ms THEN "sent" ELSE IF m = d THEN "waiting" ELSE box[m]]

Revive(ms) == ms # {} /\ In("dead", ms) /\ Move(ms, "waiting")
Purge(ms) == ms # {} /\ In("sent", ms) /\ Move(ms, "purged")

Init == box = [m \in Message |-> "none"]

Next ==
  \/ \E m \in Message : Post(m) \/ Sent(m) \/ GiveUp(m)
  \/ \E ms \in SUBSET Message : Revive(ms) \/ Purge(ms) \/ \E d \in Message : Digest(ms, d)

Settle(m) ==
  /\ box[m] = "waiting"
  /\ \/ Sent(m) \/ GiveUp(m)
     \/ \E ms \in SUBSET Message, d \in Message : m \in ms /\ Digest(ms, d)

Spec == Init /\ [][Next]_box /\ \A m \in Message : WF_box(Settle(m))
=============================================================================
