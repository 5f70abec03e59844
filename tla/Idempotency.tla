---------------------------- MODULE Idempotency ----------------------------
(***************************************************************************)
(* shared/idempotency.ts: a write request that carries an Idempotency-Key  *)
(* claims a row of idempotency_records before it runs, records how it went *)
(* and lets later requests with the same key replay the record.            *)
(*                                                                         *)
(* Every statement is a transaction of its own (middlewares/tenantContext),*)
(* so requests interleave between any two of them, and a worker may die    *)
(* between any two.  The daily clean-up deletes old rows; an ADMIN may     *)
(* sweep a row that is stuck.  One tenant, one scope.                      *)
(***************************************************************************)
EXTENDS Naturals, FiniteSets

CONSTANTS
  User,     \* the callers
  Key,      \* the values of Idempotency-Key
  Payload,  \* what request_hash tells apart
  Request,  \* HTTP requests; a retry is a request of its own
  Nobody    \* no request

ASSUME NobodyAssumption == Nobody \notin Request

Slot == User \X Key

VARIABLES
  record,  \* idempotency_records: the row of each (user, key); its id is its claimant's
  req,     \* the requests: where each is in withIdempotency, and what it carries
  done,    \* requests whose operation took effect
  sweep    \* id of the row the sweeper has read and will write, or Nobody

vars == <<record, req, done, sweep>>

Row(status, owner) == [status |-> status, owner |-> owner, swept |-> FALSE, lapsed |-> FALSE]
NoRecord == Row("NONE", Nobody)
Replayed(status) == IF status = "SUCCESS" THEN "replayed_success" ELSE "replayed_failure"
Unsent(slot, payload) ==
  [phase |-> "unsent", slot |-> slot, payload |-> payload, from |-> Nobody, reported |-> FALSE]

InFlight == {"running", "returned", "threw"}
Active(r) == req[r].phase \in InFlight
Goes(r, phase) == req' = [req EXCEPT ![r].phase = phase]
---------------------------------------------------------------------------
(* withIdempotency                                                         *)

\* The INSERT of a PENDING row if the key is free, or else a unique
\* violation.
ClaimWhere(r, free) ==
  LET s == req[r].slot
  IN  /\ req[r].phase = "unsent"
      /\ IF record[s].status \in free
         THEN /\ record' = [record EXCEPT ![s] = Row("PENDING", r)]
              /\ Goes(r, "running")
         ELSE Goes(r, "reading") /\ UNCHANGED record
      /\ UNCHANGED <<done, sweep>>

\* Mutant: a PENDING row is taken for an orphan and run again.
ClaimTakesOver(r) == ClaimWhere(r, {"NONE", "PENDING"})

\* Mutant: a failed operation is run again under its key.
ClaimRetriesFailed(r) == ClaimWhere(r, {"NONE", "FAILED"})

Claim(r) == ClaimWhere(r, {"NONE"})

\* Mutant: the request_hash is not compared.
ReplyToAny(row, payload) ==
  IF row.status \in {"SUCCESS", "FAILED"} THEN Replayed(row.status) ELSE "conflict"

\* What a request that did not claim the row makes of it.
Reply(row, payload) ==
  IF row.status \in {"SUCCESS", "FAILED"} /\ req[row.owner].payload = payload
  THEN Replayed(row.status) ELSE "conflict"

Read(r) ==
  LET row == record[req[r].slot]
  IN  /\ req[r].phase = "reading"
      /\ req' = [req EXCEPT ![r].phase = Reply(row, req[r].payload), ![r].from = row.owner]
      /\ UNCHANGED <<record, done, sweep>>

\* run() returns.
Returns(r) ==
  /\ req[r].phase = "running"
  /\ done' = done \union {r}
  /\ Goes(r, "returned")
  /\ UNCHANGED <<record, sweep>>

\* run() throws.  It may have taken effect: an operation of several transactions
\* that fails in a later one, or one whose COMMIT is not acknowledged.
Throws(r) ==
  /\ req[r].phase = "running"
  /\ req' = [req EXCEPT ![r].phase = "threw", ![r].reported = TRUE]
  /\ done' \in {done, done \union {r}}
  /\ UNCHANGED <<record, sweep>>

\* update by id: no condition on the status; it throws if the row is gone.
WriteOutcome(id, status) ==
  record' = [s \in Slot |-> IF record[s].owner = id
                            THEN [record[s] EXCEPT !.status = status]
                            ELSE record[s]]

\* Mutant: an outcome that could not be written is written as a failure.
RecordSuccessOrFailure(r) ==
  /\ req[r].phase = "returned"
  /\ Goes(r, "ok")
  /\ WriteOutcome(r, "SUCCESS") \/ WriteOutcome(r, "FAILED")
  /\ UNCHANGED <<done, sweep>>

\* The outcome is recorded, or cannot be; the caller hears the same.
RecordSuccess(r) ==
  /\ req[r].phase = "returned"
  /\ Goes(r, "ok")
  /\ WriteOutcome(r, "SUCCESS") \/ UNCHANGED record
  /\ UNCHANGED <<done, sweep>>

RecordFailure(r) ==
  /\ req[r].phase = "threw"
  /\ Goes(r, "error")
  /\ WriteOutcome(r, "FAILED") \/ UNCHANGED record
  /\ UNCHANGED <<done, sweep>>

\* The worker dies.  An operation cut off in the middle may have taken effect.
Crash(r) ==
  /\ req[r].phase \in InFlight \union {"reading"}
  /\ Goes(r, "lost")
  /\ IF req[r].phase = "running" THEN done' \in {done, done \union {r}} ELSE UNCHANGED done
  /\ UNCHANGED <<record, sweep>>
---------------------------------------------------------------------------
(* The clean-up and the sweeper.                                           *)

\* Two days pass: expires_at and the grace after it.  No request lives that long.
Lapse(s) ==
  /\ record[s].status # "NONE"
  /\ ~record[s].lapsed
  /\ ~Active(record[s].owner)
  /\ record' = [record EXCEPT ![s].lapsed = TRUE]
  /\ UNCHANGED <<req, done, sweep>>

\* Mutant: the row is emptied and its id kept.
CleanupKeepsId ==
  /\ record' = [s \in Slot |-> IF record[s].lapsed THEN Row("NONE", record[s].owner)
                               ELSE record[s]]
  /\ UNCHANGED <<req, done, sweep>>

\* runIdempotencyCleanup looks at the dates alone.
Cleanup ==
  /\ record' = [s \in Slot |-> IF record[s].lapsed THEN NoRecord ELSE record[s]]
  /\ UNCHANGED <<req, done, sweep>>

\* An ADMIN has checked that the stuck operation of (u, k) did not take effect.
\* The sweeper looks the row up by key alone, whoever the user.
SweepRead(u, k) ==
  /\ sweep = Nobody
  /\ record[<<u, k>>].status = "PENDING"
  /\ record[<<u, k>>].owner \notin done
  /\ \E v \in User : /\ record[<<v, k>>].status = "PENDING"
                     /\ sweep' = record[<<v, k>>].owner
  /\ UNCHANGED <<record, req, done>>

SweepWrite ==
  /\ sweep # Nobody
  /\ record' = [s \in Slot |-> IF record[s].owner = sweep
                               THEN [record[s] EXCEPT !.status = "FAILED", !.swept = TRUE]
                               ELSE record[s]]
  /\ sweep' = Nobody
  /\ UNCHANGED <<req, done>>
---------------------------------------------------------------------------
Init ==
  /\ record = [s \in Slot |-> NoRecord]
  /\ req \in [Request -> {Unsent(s, p) : s \in Slot, p \in Payload}]
  /\ done = {}
  /\ sweep = Nobody

Step(r) ==
  \/ Claim(r)
  \/ Read(r)
  \/ Returns(r)
  \/ Throws(r)
  \/ RecordSuccess(r)
  \/ RecordFailure(r)
  \/ Crash(r)

Next ==
  \/ \E r \in Request : Step(r)
  \/ \E s \in Slot : Lapse(s)
  \/ Cleanup
  \/ \E u \in User, k \in Key : SweepRead(u, k)
  \/ SweepWrite

Spec == Init /\ [][Next]_vars
---------------------------------------------------------------------------
(* What the helper promises.                                               *)

Phase == InFlight \union {"unsent", "reading", "ok", "error", "lost", "conflict",
                          "replayed_success", "replayed_failure"}

\* Rows and requests are well formed, and a slot has a row when it has a claimant.
TypeOK ==
  /\ record \in [Slot -> [status : {"NONE", "PENDING", "SUCCESS", "FAILED"},
                         owner : Request \union {Nobody}, swept : BOOLEAN, lapsed : BOOLEAN]]
  /\ \A s \in Slot : record[s].owner = Nobody <=> record[s].status = "NONE"
  /\ req \in [Request -> [phase : Phase, slot : Slot, payload : Payload,
                          from : Request \union {Nobody}, reported : BOOLEAN]]
  /\ done \subseteq Request
  /\ sweep \in Request \union {Nobody}

\* The UNIQUE index makes concurrent first attempts safe: of all the requests
\* with one key, at most one is running the operation or recording its outcome.
ExclusiveRun ==
  \A r1, r2 \in Request : Active(r1) /\ Active(r2) /\ req[r1].slot = req[r2].slot => r1 = r2

\* An operation takes effect only under the record its own request claimed, and a
\* record keeps its claimant until it has lapsed: within its two days a key
\* never runs twice, whatever crashed, failed to be written or was swept.
OncePerRecord ==
  [][/\ \A r \in done' \ done : record[req[r].slot].owner = r
     /\ \A s \in Slot : record'[s].owner # record[s].owner
                          => record[s].status = "NONE" \/ record[s].lapsed]_vars

\* The record tells the outcome of the operation and never that of recording it:
\* a success took effect, and a failure was thrown by the operation unless an
\* ADMIN declared it.
RecordTellsOutcome ==
  \A s \in Slot :
    LET row == record[s]
    IN  /\ row.status = "SUCCESS" => row.owner \in done /\ ~req[row.owner].reported
        /\ row.status = "FAILED" /\ ~row.swept => req[row.owner].reported

\* A replay answers for a request with the same user, key and payload, and a
\* success it replays was one.
ReplayIsFaithful ==
  \A r \in Request :
    LET from == req[r].from
    IN  /\ req[r].phase \in {"replayed_success", "replayed_failure"}
             => req[from].slot = req[r].slot /\ req[from].payload = req[r].payload
        /\ req[r].phase = "replayed_success" => from \in done
=============================================================================
