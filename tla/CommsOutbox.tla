------------------------------ MODULE CommsOutbox ------------------------------
(***************************************************************************)
(* The rows of comms_messages between the four who write them: passes of   *)
(* the dispatcher (which may overlap), the request that created a message  *)
(* and sends it by itself, the daily digest, and the admin's requeue.      *)
(*                                                                         *)
(* The provider is called between two statements: whoever calls it holds   *)
(* its answer, or dies with it.  A dispatcher updates only rows that are   *)
(* still QUEUED or FAILED; the request updates its row whatever became of  *)
(* it.  Only EMAIL rows are modelled: IN_APP rows are born SENT.           *)
(***************************************************************************)
EXTENDS Integers, FiniteSets

CONSTANTS
  Message,      \* ids, 1..n in the order of creation
  Pass,         \* runs of the dispatcher that may overlap
  BatchLimit,
  MaxAttempts,
  MaxFaults,    \* bound: crashes and failed statements
  MaxRequeue    \* bound: interventions of the admin

ASSUME MessageAssumption == Message \subseteq Nat
ASSUME PassAssumption == IsFiniteSet(Pass)
ASSUME BoundAssumption ==
  /\ BatchLimit \in Nat \ {0} /\ MaxAttempts \in Nat \ {0}
  /\ MaxFaults \in Nat /\ MaxRequeue \in Nat

VARIABLES
  message,   \* the table
  pass,      \* what each pass still holds, and what it saw
  request,   \* dispatchOutbound for a message made by hand
  digest,    \* the rows the digest has read
  taken,     \* ghost: somebody has the message: the provider took it, the
             \* recipient declined it, a digest lists it
  faults, requeues

vars == <<message, pass, request, digest, taken, faults, requeues>>

\* to: "user" for a row with recipient_user_id, "student" for one without.
\* retry: next_retry_at, null, still to come, or past.
Absent == [status |-> "NONE", to |-> "user", attempts |-> 0, retry |-> "null"]
New(to) == [Absent EXCEPT !.status = "QUEUED", !.to = to]
Idle == [todo |-> {}, seen |-> [m \in Message |-> 0], heard |-> "nothing"]

Live(m) == message[m].status \in {"QUEUED", "FAILED"}
Is(m, status) == message[m].status = status
Fresh(m) == Is(m, "NONE") /\ \A n \in Message : n < m => ~Is(n, "NONE")
---------------------------------------------------------------------------
(* Messages come from the reminder dispatcher and from people.             *)

Enqueue(m) ==
  /\ Fresh(m)
  /\ message' = [message EXCEPT ![m] = New("user")]
  /\ UNCHANGED <<pass, request, digest, taken, faults, requeues>>

\* The row is QUEUED; the request will send it once it has been answered.
Create(m) ==
  /\ Fresh(m)
  /\ message' = [message EXCEPT ![m] = New("student")]
  /\ request' = [request EXCEPT ![m] = "send"]
  /\ UNCHANGED <<pass, digest, taken, faults, requeues>>

Heard == {"accepted", "refused"}

\* A lookup or a provider that throws counts as refused.
OutboundSend(m) ==
  /\ request[m] = "send"
  /\ \E answer \in Heard :
       /\ request' = [request EXCEPT ![m] = answer]
       /\ taken' = IF answer = "accepted" THEN taken \union {m} ELSE taken
  /\ UNCHANGED <<message, pass, digest, faults, requeues>>

\* By id alone; neither attempts nor next_retry_at are written.
OutboundRecord(m) ==
  /\ request[m] \in Heard
  /\ request' = [request EXCEPT ![m] = "none"]
  /\ message' = IF Is(m, "PURGED") THEN message
                ELSE [message EXCEPT ![m].status =
                        IF request[m] = "accepted" THEN "SENT" ELSE "FAILED"]
  /\ UNCHANGED <<pass, digest, taken, faults, requeues>>

OutboundDies(m) ==
  /\ faults < MaxFaults
  /\ request[m] \in {"send"} \union Heard
  /\ request' = [request EXCEPT ![m] = "none"]
  /\ faults' = faults + 1
  /\ UNCHANGED <<message, pass, digest, taken, requeues>>
---------------------------------------------------------------------------
(* A pass of the dispatcher.                                               *)

\* Mutant: the tries are not counted when rows are selected.
CandidatesUncounted ==
  {m \in Message : Is(m, "QUEUED") \/ (Is(m, "FAILED") /\ message[m].retry = "past")}

Candidates ==
  {m \in Message :
     \/ Is(m, "QUEUED")
     \/ Is(m, "FAILED") /\ message[m].attempts < MaxAttempts /\ message[m].retry = "past"}

Scan(p) ==
  LET found == Candidates
      oldest == {m \in found : Cardinality({n \in found : n < m}) < BatchLimit}
  IN /\ pass[p] = Idle /\ found # {}
     /\ pass' = [pass EXCEPT ![p] = [todo |-> oldest, heard |-> "nothing",
          seen |-> [m \in Message |-> IF m \in oldest THEN message[m].attempts ELSE 0]]]
     /\ UNCHANGED <<message, request, digest, taken, faults, requeues>>

Current(p) == CHOOSE m \in pass[p].todo : \A n \in pass[p].todo : m <= n

\* On to the next row.
Advance(p, m) ==
  LET done == [todo |-> pass[p].todo \ {m}, seen |-> [pass[p].seen EXCEPT ![m] = 0],
               heard |-> "nothing"]
  IN  pass' = [pass EXCEPT ![p] = IF pass[p].todo = {m} THEN Idle ELSE done]

\* Mutant: whatever the row has become.
UpdateAny(m, row) == message' = [message EXCEPT ![m] = row]

\* UPDATE ... WHERE id = m AND status IN ('QUEUED', 'FAILED').
Update(m, row) ==
  message' = IF Live(m) THEN [message EXCEPT ![m] = row] ELSE message

\* The recipient of a row with a user may have declined mail, or be gone; a row
\* without a user has no address.
Skip(p) ==
  LET m == Current(p) IN
    /\ pass[p].todo # {} /\ pass[p].heard = "nothing"
    /\ \/ /\ message[m].to = "user"
          /\ Update(m, [message[m] EXCEPT !.status = "SENT"])
          /\ taken' = taken \union {m}
       \/ /\ Update(m, [message[m] EXCEPT !.status = "FAILED", !.retry = "null",
                                          !.attempts = @ + 1])
          /\ UNCHANGED taken
    /\ Advance(p, m)
    /\ UNCHANGED <<request, digest, faults, requeues>>

Send(p) ==
  LET m == Current(p) IN
    /\ pass[p].todo # {} /\ pass[p].heard = "nothing"
    /\ message[m].to = "user"
    /\ \E answer \in Heard :
         /\ pass' = [pass EXCEPT ![p].heard = answer]
         /\ taken' = IF answer = "accepted" THEN taken \union {m} ELSE taken
    /\ UNCHANGED <<message, request, digest, faults, requeues>>

\* Whether there is a retry is computed from the snapshot.
NextRetry(seen) == IF seen + 1 >= MaxAttempts THEN "null" ELSE "later"

\* Mutant: every answer is written as success.
RecordedSent(m, heard, seen) ==
  [message[m] EXCEPT !.status = "SENT", !.attempts = @ + 1, !.retry = "null"]

Recorded(m, heard, seen) ==
  IF heard = "accepted"
  THEN [message[m] EXCEPT !.status = "SENT", !.attempts = @ + 1, !.retry = "null"]
  ELSE [message[m] EXCEPT !.status = "FAILED", !.attempts = @ + 1, !.retry = NextRetry(seen)]

Record(p) ==
  LET m == Current(p) IN
    /\ pass[p].heard \in Heard
    /\ Update(m, Recorded(m, pass[p].heard, pass[p].seen[m]))
    /\ Advance(p, m)
    /\ UNCHANGED <<request, digest, taken, faults, requeues>>

\* A statement of the row throws, before or after the provider answered.
RowFails(p) ==
  /\ faults < MaxFaults
  /\ pass[p].todo # {}
  /\ Advance(p, Current(p))
  /\ faults' = faults + 1
  /\ UNCHANGED <<message, request, digest, taken, requeues>>

CrashPass(p) ==
  /\ faults < MaxFaults
  /\ pass[p] # Idle
  /\ pass' = [pass EXCEPT ![p] = Idle]
  /\ faults' = faults + 1
  /\ UNCHANGED <<message, request, digest, taken, requeues>>

BackoffOver(m) ==
  /\ message[m].retry = "later"
  /\ message' = [message EXCEPT ![m].retry = "past"]
  /\ UNCHANGED <<pass, request, digest, taken, faults, requeues>>
---------------------------------------------------------------------------
(* The daily digest of a user's mail.                                      *)

DigestRead ==
  /\ digest = {}
  /\ digest' = {m \in Message : Is(m, "QUEUED") /\ message[m].to = "user"}
  /\ digest' # {}
  /\ UNCHANGED <<message, pass, request, taken, faults, requeues>>

Marked == {m \in digest : Is(m, "QUEUED")}

\* One transaction: the digest is queued, and what it lists and is still QUEUED
\* becomes SENT.
DigestWrite ==
  \E d \in Message :
    /\ digest # {} /\ Fresh(d)
    /\ message' = [m \in Message |->
         IF m = d THEN New("user")
         ELSE IF m \in Marked THEN [message[m] EXCEPT !.status = "SENT"] ELSE message[m]]
    /\ taken' = taken \union digest
    /\ digest' = {}
    /\ UNCHANGED <<pass, request, faults, requeues>>

DigestFails ==
  /\ faults < MaxFaults
  /\ digest # {}
  /\ digest' = {}
  /\ faults' = faults + 1
  /\ UNCHANGED <<message, pass, request, taken, requeues>>
---------------------------------------------------------------------------
(* The admin, and the clean-up.                                            *)

Terminal(m) == Is(m, "FAILED") /\ (message[m].attempts >= MaxAttempts \/ message[m].retry = "null")

\* requeue takes one FAILED row, requeueAll those of a scope.
Requeue ==
  LET failed == {m \in Message : Is(m, "FAILED")}
      terminal == {m \in failed : Terminal(m)}
  IN /\ requeues < MaxRequeue
     /\ \E ms \in {{m} : m \in failed} \union {failed, terminal, failed \ terminal} :
          /\ ms # {}
          /\ message' = [m \in Message |->
               IF m \in ms THEN [message[m] EXCEPT !.status = "QUEUED", !.attempts = 0,
                                                   !.retry = "null"]
                           ELSE message[m]]
     /\ requeues' = requeues + 1
     /\ UNCHANGED <<pass, request, digest, taken, faults>>

\* SENT for thirty days; no pass and no request lives that long.
Cleanup ==
  \E ms \in SUBSET {m \in Message : Is(m, "SENT") /\ request[m] = "none"
                                    /\ m \notin digest
                                    /\ \A p \in Pass : m \notin pass[p].todo} :
    /\ ms # {}
    /\ message' = [m \in Message |-> IF m \in ms THEN [Absent EXCEPT !.status = "PURGED"]
                                                 ELSE message[m]]
    /\ UNCHANGED <<pass, request, digest, taken, faults, requeues>>
---------------------------------------------------------------------------
Init ==
  /\ message = [m \in Message |-> Absent]
  /\ pass = [p \in Pass |-> Idle]
  /\ request = [m \in Message |-> "none"]
  /\ digest = {}
  /\ taken = {}
  /\ faults = 0 /\ requeues = 0

PassNext(p) == Scan(p) \/ Skip(p) \/ Send(p) \/ Record(p)

Next ==
  \/ \E m \in Message : \/ Enqueue(m) \/ Create(m) \/ BackoffOver(m)
                        \/ OutboundSend(m) \/ OutboundRecord(m) \/ OutboundDies(m)
  \/ \E p \in Pass : PassNext(p) \/ RowFails(p) \/ CrashPass(p)
  \/ DigestRead \/ DigestWrite \/ DigestFails
  \/ Requeue
  \/ Cleanup

\* The scheduler starts passes and they go on; time passes.  The digest, the
\* request and the admin are owed nothing.
Fairness ==
  /\ \A p \in Pass : WF_vars(PassNext(p))
  /\ \A m \in Message : WF_vars(BackoffOver(m))

Spec == Init /\ [][Next]_vars
FairSpec == Spec /\ Fairness
---------------------------------------------------------------------------
(* Properties.                                                             *)

\* Every variable stays well formed.
TypeOK ==
  /\ message \in [Message -> [status : {"NONE", "QUEUED", "SENT", "FAILED", "PURGED"},
                              to : {"user", "student"},
                              attempts : Nat,
                              retry : {"null", "later", "past"}]]
  /\ pass \in [Pass -> [todo : SUBSET Message, seen : [Message -> Nat],
                        heard : {"nothing"} \union Heard]]
  /\ request \in [Message -> {"none", "send"} \union Heard]
  /\ digest \subseteq Message /\ taken \subseteq Message
  /\ faults \in 0..MaxFaults /\ requeues \in 0..MaxRequeue

\* The tries of a row since it was queued or requeued: a pass that overlapped the
\* one that made the last permitted try may add its own, and no pass after that.
AttemptsBounded ==
  \A m \in Message : message[m].attempts < MaxAttempts + Cardinality(Pass)

\* A row says SENT only if somebody has the message: the provider took it, its
\* recipient declined mail, or a digest lists it -- whichever of the writers said
\* so, and however stale what they wrote from.
SentIsTaken == \A m \in Message : message[m].status \in {"SENT", "PURGED"} => m \in taken

\* What a row is in terms of the abstract outbox.  "dead" is what the screen of the
\* admin calls terminal; a FAILED row that is not must be selected again.
Box(m) ==
  CASE Is(m, "NONE") -> "none"
    [] Is(m, "SENT") -> "sent"
    [] Is(m, "PURGED") -> "purged"
    [] Is(m, "FAILED") /\ Terminal(m) -> "dead"
    [] OTHER -> "waiting"

\* The table implements the abstract outbox: each step moves messages as Outbox
\* allows, and under the scheduler's fairness each message that waits is sent or
\* given up, though passes overlap and die and batches are short.
Promise == INSTANCE Outbox WITH box <- [m \in Message |-> Box(m)]
OutboxKept == Promise!Spec
=============================================================================
