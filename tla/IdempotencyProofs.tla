------------------------- MODULE IdempotencyProofs -------------------------
(***************************************************************************)
(* Idempotency for any number of users, keys, payloads and requests.       *)
(***************************************************************************)
EXTENDS Idempotency, TLAPS

\* A request inside its operation owns the row of its key, the owner of a row
\* claimed it under that key, and a row lapses after its operation is over.
OwnerInv ==
  /\ \A r \in Request : Active(r) => record[req[r].slot].owner = r
  /\ \A s \in Slot : record[s].owner # Nobody =>
       /\ req[record[s].owner].slot = s
       /\ req[record[s].owner].phase \notin {"unsent", "reading"}
  /\ \A s \in Slot : record[s].lapsed => record[s].owner # Nobody /\ ~Active(record[s].owner)

\* What a request knows of its own operation at each phase.
PhaseInv ==
  \A r \in Request :
    /\ req[r].phase \in {"unsent", "reading", "running", "returned", "ok"} => ~req[r].reported
    /\ req[r].phase = "threw" => req[r].reported
    /\ req[r].phase \in {"returned", "ok"} => r \in done

\* What a row says of its claimant.
OutcomeInv ==
  \A s \in Slot :
    /\ record[s].status = "SUCCESS" => req[record[s].owner].phase = "ok"
    /\ record[s].status = "FAILED" /\ ~record[s].swept => req[record[s].owner].reported

IInv == TypeOK /\ OwnerInv /\ PhaseInv /\ OutcomeInv

RequestState == [phase : Phase, slot : Slot, payload : Payload,
                 from : Request \union {Nobody}, reported : BOOLEAN]
RecordRow == [status : {"NONE", "PENDING", "SUCCESS", "FAILED"},
              owner : Request \union {Nobody}, swept : BOOLEAN, lapsed : BOOLEAN]
---------------------------------------------------------------------------
\* Setting a row's lapsed flag leaves the rest of it.
LEMMA LapsedRow ==
  ASSUME NEW row \in RecordRow
  PROVE  LET lapsed == [row EXCEPT !.lapsed = TRUE]
         IN  /\ lapsed \in RecordRow /\ lapsed.owner = row.owner
             /\ lapsed.status = row.status /\ lapsed.swept = row.swept
  BY DEF RecordRow

\* The initial states satisfy the invariant: no request has done anything.
LEMMA InitIInv == Init => IInv
<1>. SUFFICES ASSUME Init PROVE IInv
  OBVIOUS
<1>1. ASSUME NEW r \in Request
      PROVE  /\ req[r].phase = "unsent" /\ req[r].reported = FALSE
             /\ req[r] \in RequestState
  <2>1. PICK s \in Slot, p \in Payload : req[r] = Unsent(s, p)
    BY DEF Init
  <2>. QED
    BY <2>1 DEF Unsent, RequestState, Phase
<1>2. \A s \in Slot : /\ record[s].status = "NONE" /\ record[s].owner = Nobody
                      /\ record[s].swept = FALSE /\ record[s].lapsed = FALSE
                      /\ record[s] \in [status : {"NONE"}, owner : {Nobody},
                                        swept : {FALSE}, lapsed : {FALSE}]
  BY DEF Init, NoRecord, Row
<1>3. TypeOK
  <2>1. record \in [Slot -> [status : {"NONE", "PENDING", "SUCCESS", "FAILED"},
                             owner : Request \union {Nobody}, swept : BOOLEAN, lapsed : BOOLEAN]]
    BY DEF Init, NoRecord, Row
  <2>2. req \in [Request -> [phase : Phase, slot : Slot, payload : Payload,
                             from : Request \union {Nobody}, reported : BOOLEAN]]
    <3>. DEFINE Fresh == {Unsent(s, p) : s \in Slot, p \in Payload}
    <3>1. req \in [Request -> Fresh]
      BY DEF Init
    <3>. HIDE DEF Fresh
    <3>2. req = [r \in Request |-> req[r]]
      BY <3>1
    <3>. QED
      BY <1>1, <3>2 DEF RequestState
  <2>. QED
    BY <1>2, <2>1, <2>2 DEF TypeOK, Init
<1>4. OwnerInv
  BY <1>1, <1>2 DEF OwnerInv, Active, InFlight
<1>5. PhaseInv
  BY <1>1 DEF PhaseInv
<1>6. OutcomeInv
  BY <1>2 DEF OutcomeInv
<1>. QED
  BY <1>3, <1>4, <1>5, <1>6 DEF IInv

\* Every step keeps the invariant.
LEMMA StepIInv == IInv /\ [Next]_vars => IInv'
<1>. SUFFICES ASSUME IInv, [Next]_vars PROVE IInv'
  OBVIOUS
<1>. USE NobodyAssumption DEF IInv, Active, InFlight
<1>1. ASSUME NEW r \in Request, Claim(r) PROVE IInv'
  <2>. DEFINE s == req[r].slot
  <2>1. CASE record[s].status = "NONE"
    <3>1. record' = [record EXCEPT ![s] = Row("PENDING", r)] /\ Goes(r, "running")
      BY <1>1, <2>1 DEF Claim, ClaimWhere
    <3>2. TypeOK'
      BY <1>1, <3>1, SMTT(20) DEF TypeOK, Claim, ClaimWhere, Goes, Row, Phase
    <3>3. OwnerInv'
      BY <1>1, <2>1, <3>1 DEF TypeOK, OwnerInv, Claim, ClaimWhere, Goes, Row
    <3>4. PhaseInv'
      BY <1>1, <3>1 DEF TypeOK, PhaseInv, Claim, ClaimWhere, Goes
    <3>5. OutcomeInv'
      BY <1>1, <3>1 DEF TypeOK, OwnerInv, OutcomeInv, Claim, ClaimWhere, Goes, Row
    <3>. QED
      BY <3>2, <3>3, <3>4, <3>5
  <2>2. CASE record[s].status # "NONE"
    <3>1. record' = record /\ Goes(r, "reading")
      BY <1>1, <2>2 DEF Claim, ClaimWhere
    <3>2. TypeOK'
      BY <1>1, <3>1 DEF TypeOK, Claim, ClaimWhere, Goes, Phase
    <3>3. OwnerInv'
      BY <1>1, <3>1 DEF TypeOK, OwnerInv, Claim, ClaimWhere, Goes
    <3>4. PhaseInv'
      BY <1>1, <3>1 DEF TypeOK, PhaseInv, Claim, ClaimWhere, Goes
    <3>5. OutcomeInv'
      BY <1>1, <3>1 DEF TypeOK, OwnerInv, OutcomeInv, Claim, ClaimWhere, Goes
    <3>. QED
      BY <3>2, <3>3, <3>4, <3>5
  <2>. QED
    BY <2>1, <2>2
<1>2. ASSUME NEW r \in Request, Read(r) PROVE IInv'
  <2>. DEFINE row == record[req[r].slot]
  <2>1. Reply(row, req[r].payload) \in {"replayed_success", "replayed_failure", "conflict"}
    BY DEF Reply, Replayed
  <2>2. row.owner \in Request \union {Nobody}
    BY <1>2 DEF TypeOK
  <2>. DEFINE q == [req[r] EXCEPT !.phase = Reply(row, req[r].payload), !.from = row.owner]
  <2>7. req[r] \in RequestState
    BY DEF TypeOK, RequestState
  <2>8. q \in RequestState
    BY <2>1, <2>2, <2>7 DEF RequestState, Phase
  <2>9. req' = [req EXCEPT ![r] = q]
    BY <1>2 DEF Read, TypeOK
  <2>3. TypeOK'
    <3>1. UNCHANGED <<record, done, sweep>>
      BY <1>2 DEF Read
    <3>. HIDE DEF q
    <3>. QED
      BY <2>8, <2>9, <3>1 DEF TypeOK, RequestState
  <2>10. /\ record' = record
         /\ \A x \in Request : req'[x].slot = req[x].slot
         /\ \A x \in Request : x # r => req'[x] = req[x]
         /\ req'[r].phase \in {"replayed_success", "replayed_failure", "conflict"}
         /\ req[r].phase = "reading"
    <3>1. record' = record /\ req[r].phase = "reading"
      BY <1>2 DEF Read
    <3>2. q.slot = req[r].slot /\ q.phase = Reply(row, req[r].payload)
      BY <2>7 DEF RequestState
    <3>. HIDE DEF q
    <3>3. req'[r] = q /\ \A x \in Request : x # r => req'[x] = req[x]
      BY <2>9 DEF TypeOK
    <3>. QED
      BY <2>1, <3>1, <3>2, <3>3
  <2>4. OwnerInv'
    BY <2>10 DEF OwnerInv, TypeOK
  <2>5. PhaseInv'
    BY <1>2, <2>1 DEF TypeOK, PhaseInv, Read
  <2>6. OutcomeInv'
    BY <1>2, <2>1 DEF TypeOK, OwnerInv, OutcomeInv, Read
  <2>. QED
    BY <2>3, <2>4, <2>5, <2>6
<1>3. ASSUME NEW r \in Request, Returns(r) PROVE IInv'
  <2>1. TypeOK'
    BY <1>3 DEF TypeOK, Returns, Goes, Phase
  <2>2. OwnerInv'
    BY <1>3 DEF TypeOK, OwnerInv, Returns, Goes
  <2>3. PhaseInv'
    BY <1>3 DEF TypeOK, PhaseInv, Returns, Goes
  <2>4. OutcomeInv'
    BY <1>3 DEF TypeOK, OwnerInv, OutcomeInv, Returns, Goes
  <2>. QED
    BY <2>1, <2>2, <2>3, <2>4
<1>4. ASSUME NEW r \in Request, Throws(r) PROVE IInv'
  <2>. DEFINE q == [req[r] EXCEPT !.phase = "threw", !.reported = TRUE]
  <2>5. req[r] \in RequestState
    BY DEF TypeOK, RequestState
  <2>6. q \in RequestState
    BY <2>5 DEF RequestState, Phase
  <2>7. req' = [req EXCEPT ![r] = q]
    BY <1>4 DEF Throws, TypeOK
  <2>1. TypeOK'
    BY <1>4, <2>6, <2>7 DEF TypeOK, Throws, RequestState
  <2>2. OwnerInv'
    BY <1>4 DEF TypeOK, OwnerInv, Throws
  <2>3. PhaseInv'
    BY <1>4 DEF TypeOK, PhaseInv, Throws
  <2>4. OutcomeInv'
    BY <1>4 DEF TypeOK, OwnerInv, OutcomeInv, Throws
  <2>. QED
    BY <2>1, <2>2, <2>3, <2>4
<1>5. ASSUME NEW r \in Request, RecordSuccess(r) PROVE IInv'
  <2>1. TypeOK'
    BY <1>5, SMTT(20) DEF TypeOK, RecordSuccess, WriteOutcome, Goes, Phase
  <2>2. OwnerInv'
    BY <1>5 DEF TypeOK, OwnerInv, RecordSuccess, WriteOutcome, Goes
  <2>3. PhaseInv'
    BY <1>5 DEF TypeOK, PhaseInv, RecordSuccess, Goes
  <2>4. OutcomeInv'
    BY <1>5 DEF TypeOK, OwnerInv, OutcomeInv, RecordSuccess, WriteOutcome, Goes
  <2>. QED
    BY <2>1, <2>2, <2>3, <2>4
<1>6. ASSUME NEW r \in Request, RecordFailure(r) PROVE IInv'
  <2>1. TypeOK'
    BY <1>6, SMTT(20) DEF TypeOK, RecordFailure, WriteOutcome, Goes, Phase
  <2>5. \A s \in Slot : /\ record'[s].owner = record[s].owner
                        /\ record'[s].lapsed = record[s].lapsed
    BY <1>6 DEF TypeOK, RecordFailure, WriteOutcome
  <2>2. OwnerInv'
    BY <1>6, <2>5 DEF TypeOK, OwnerInv, RecordFailure, Goes
  <2>3. PhaseInv'
    BY <1>6 DEF TypeOK, PhaseInv, RecordFailure, Goes
  <2>4. OutcomeInv'
    BY <1>6 DEF TypeOK, OwnerInv, PhaseInv, OutcomeInv, RecordFailure, WriteOutcome, Goes
  <2>. QED
    BY <2>1, <2>2, <2>3, <2>4
<1>7. ASSUME NEW r \in Request, Crash(r) PROVE IInv'
  <2>1. TypeOK'
    BY <1>7 DEF TypeOK, Crash, Goes, Phase
  <2>2. OwnerInv'
    BY <1>7 DEF TypeOK, OwnerInv, Crash, Goes
  <2>3. PhaseInv'
    BY <1>7 DEF TypeOK, PhaseInv, Crash, Goes
  <2>4. OutcomeInv'
    BY <1>7 DEF TypeOK, OwnerInv, OutcomeInv, Crash, Goes
  <2>. QED
    BY <2>1, <2>2, <2>3, <2>4
<1>8. ASSUME NEW s \in Slot, Lapse(s) PROVE IInv'
  <2>. DEFINE lapsed == [record[s] EXCEPT !.lapsed = TRUE]
  <2>1. record[s] \in RecordRow
    BY DEF TypeOK, RecordRow
  <2>2. /\ lapsed \in RecordRow /\ lapsed.owner = record[s].owner
        /\ lapsed.status = record[s].status /\ lapsed.swept = record[s].swept
    BY <2>1, LapsedRow
  <2>3. record' = [record EXCEPT ![s] = lapsed] /\ UNCHANGED <<req, done, sweep>>
    BY <1>8 DEF Lapse
  <2>4. record[s].owner # Nobody /\ ~Active(record[s].owner)
    BY <1>8 DEF Lapse, TypeOK
  <2>. HIDE DEF lapsed
  <2>5. TypeOK'
    BY <2>2, <2>3 DEF TypeOK, RecordRow
  <2>6. record'[s] = lapsed /\ \A t \in Slot : t # s => record'[t] = record[t]
    BY <2>3 DEF TypeOK
  <2>7. \A t \in Slot : record'[t].owner = record[t].owner
    BY <2>2, <2>6
  <2>8. OwnerInv'
    <3>1. ASSUME NEW t \in Slot, record'[t].lapsed
          PROVE  record[t].owner # Nobody /\ ~Active(record[t].owner)
      <4>1. CASE t = s
        BY <2>4, <4>1
      <4>2. CASE t # s
        BY <2>6, <3>1, <4>2 DEF OwnerInv
      <4>. QED
        BY <4>1, <4>2
    <3>2. \A r \in Request : req[r].slot \in Slot
      BY DEF TypeOK
    <3>. QED
      BY <2>3, <2>7, <3>1, <3>2 DEF OwnerInv
  <2>9. PhaseInv'
    BY <2>3 DEF PhaseInv
  <2>10. OutcomeInv'
    <3>1. ASSUME NEW t \in Slot
          PROVE  /\ record'[t].status = record[t].status
                 /\ record'[t].swept = record[t].swept
      BY <2>2, <2>6
    <3>. QED
      BY <2>3, <2>7, <3>1 DEF OutcomeInv
  <2>. QED
    BY <2>5, <2>8, <2>9, <2>10
<1>9. ASSUME Cleanup PROVE IInv'
  <2>1. TypeOK'
    BY <1>9 DEF TypeOK, Cleanup, NoRecord, Row
  <2>2. OwnerInv'
    BY <1>9 DEF TypeOK, OwnerInv, Cleanup, NoRecord, Row
  <2>3. PhaseInv' /\ OutcomeInv'
    BY <1>9 DEF TypeOK, PhaseInv, OutcomeInv, Cleanup, NoRecord, Row
  <2>. QED
    BY <2>1, <2>2, <2>3
<1>10. ASSUME NEW u \in User, NEW k \in Key, SweepRead(u, k) PROVE IInv'
  <2>1. PICK v \in User : sweep' = record[<<v, k>>].owner
    BY <1>10 DEF SweepRead
  <2>2. sweep' \in Request \union {Nobody}
    BY <2>1 DEF TypeOK, Slot
  <2>3. TypeOK'
    BY <1>10, <2>2 DEF TypeOK, SweepRead
  <2>. QED
    BY <1>10, <2>3 DEF OwnerInv, PhaseInv, OutcomeInv, SweepRead
<1>11. ASSUME SweepWrite PROVE IInv'
  <2>1. ASSUME NEW s \in Slot
        PROVE  /\ record'[s] \in RecordRow
               /\ record'[s].owner = record[s].owner
               /\ record'[s].lapsed = record[s].lapsed
               /\ record[s].owner # sweep => record'[s] = record[s]
               /\ record[s].owner = sweep => record'[s].status = "FAILED" /\ record'[s].swept
    <3>1. record[s] \in RecordRow
      BY DEF TypeOK, RecordRow
    <3>2. record'[s] = IF record[s].owner = sweep
                       THEN [record[s] EXCEPT !.status = "FAILED", !.swept = TRUE]
                       ELSE record[s]
      BY <1>11 DEF SweepWrite
    <3>. QED
      BY <3>1, <3>2 DEF RecordRow
  <2>5. record' \in [Slot -> RecordRow]
    <3>1. record' = [s \in Slot |-> record'[s]]
      BY <1>11 DEF SweepWrite
    <3>. QED
      BY <2>1, <3>1
  <2>6. \A s \in Slot : record'[s].owner = Nobody <=> record'[s].status = "NONE"
    BY <1>11, <2>1 DEF TypeOK, SweepWrite
  <2>7. sweep' = Nobody /\ req' = req /\ done' = done
    BY <1>11 DEF SweepWrite
  <2>2. TypeOK'
    BY <2>5, <2>6, <2>7 DEF TypeOK, RecordRow
  <2>3. OwnerInv' /\ PhaseInv'
    BY <2>1, <2>7 DEF TypeOK, OwnerInv, PhaseInv
  <2>4. OutcomeInv'
    BY <1>11, <2>1 DEF OutcomeInv, SweepWrite
  <2>. QED
    BY <2>2, <2>3, <2>4
<1>12. CASE UNCHANGED vars
  BY <1>12 DEF vars, TypeOK, OwnerInv, PhaseInv, OutcomeInv
<1>. QED
  BY <1>1, <1>2, <1>3, <1>4, <1>5, <1>6, <1>7, <1>8, <1>9, <1>10, <1>11, <1>12
  DEF Next, Step
---------------------------------------------------------------------------
\* IInv is an invariant of the specification.
THEOREM Invariant == Spec => []IInv
<1>. QED
  BY InitIInv, StepIInv, PTL DEF Spec

\* TypeOK holds of every reachable state.
THEOREM TypeCorrect == Spec => []TypeOK
<1>1. IInv => TypeOK
  BY DEF IInv
<1>. QED
  BY <1>1, Invariant, PTL

\* Concurrent first attempts are safe for any number of requests: at most one of
\* those that share a key is ever inside its operation, since each that is owns
\* the one row of the key.
THEOREM Exclusive == Spec => []ExclusiveRun
<1>1. IInv => ExclusiveRun
  BY DEF IInv, OwnerInv, ExclusiveRun
<1>. QED
  BY <1>1, Invariant, PTL

\* A recorded outcome is the outcome of the claimant's operation, however many
\* requests, crashes, lost writes, clean-ups and sweeps there are.
THEOREM OutcomeCorrect == Spec => []RecordTellsOutcome
<1>1. IInv => RecordTellsOutcome
  <2>. SUFFICES ASSUME IInv, NEW s \in Slot
       PROVE  /\ record[s].status = "SUCCESS"
                   => record[s].owner \in done /\ ~req[record[s].owner].reported
              /\ record[s].status = "FAILED" /\ ~record[s].swept
                   => req[record[s].owner].reported
    BY DEF RecordTellsOutcome
  <2>1. record[s].status = "SUCCESS" => record[s].owner \in Request
    BY DEF IInv, TypeOK
  <2>. QED
    BY <2>1 DEF IInv, OutcomeInv, PhaseInv
<1>. QED
  BY <1>1, Invariant, PTL

\* No operation takes effect but under its own record, and no record changes hands
\* before it has lapsed, whatever the number of keys and requests.
THEOREM Once == Spec => OncePerRecord
<1>. DEFINE A == /\ \A r \in done' \ done : record[req[r].slot].owner = r
                /\ \A s \in Slot : record'[s].owner # record[s].owner
                                       => record[s].status = "NONE" \/ record[s].lapsed
<1>1. IInv /\ [Next]_vars => [A]_vars
  <2>. SUFFICES ASSUME IInv, Next PROVE A
    OBVIOUS
  <2>1. \A r \in done' \ done : record[req[r].slot].owner = r
    <3>1. \A r \in done' \ done : r \in Request /\ Active(r)
      BY DEF Next, Step, Claim, ClaimWhere, Read, Returns, Throws, RecordSuccess,
             RecordFailure, Crash, Lapse, Cleanup, SweepRead, SweepWrite, Active, InFlight
    <3>. QED
      BY <3>1 DEF IInv, OwnerInv
  <2>2. ASSUME NEW s \in Slot, record'[s].owner # record[s].owner
        PROVE  record[s].status = "NONE" \/ record[s].lapsed
    <3>1. CASE record' = record
      BY <2>2, <3>1
    <3>2. CASE \E r \in Request : Claim(r)
      BY <2>2, <3>2 DEF IInv, TypeOK, Claim, ClaimWhere
    <3>3. CASE \E r \in Request : RecordSuccess(r) \/ RecordFailure(r)
      <4>1. CASE UNCHANGED record
        BY <4>1, <2>2
      <4>2. ASSUME NEW r \in Request, NEW o, WriteOutcome(r, o) PROVE FALSE
        <5>1. record'[s].owner = record[s].owner
          BY <4>2 DEF IInv, TypeOK, WriteOutcome
        <5>. QED
          BY <5>1, <2>2
      <4>. QED
        BY <3>3, <4>1, <4>2 DEF RecordSuccess, RecordFailure
    <3>4. CASE \E x \in Slot : Lapse(x)
      BY <2>2, <3>4 DEF IInv, TypeOK, Lapse
    <3>5. CASE Cleanup
      BY <2>2, <3>5 DEF Cleanup
    <3>6. CASE SweepWrite
      <4>1. record'[s].owner = record[s].owner
        BY <3>6 DEF IInv, TypeOK, SweepWrite
      <4>. QED
        BY <4>1, <2>2
    <3>. QED
      BY <3>1, <3>2, <3>3, <3>4, <3>5, <3>6
      DEF Next, Step, Read, Returns, Throws, Crash, SweepRead
  <2>. QED
    BY <2>1, <2>2
<1>. QED
  BY <1>1, Invariant, PTL DEF Spec, OncePerRecord

\* What a replay was answered from is a request, and that request's own operation.
ReplayInv ==
  /\ ReplayIsFaithful
  /\ \A r \in Request :
       req[r].phase \in {"replayed_success", "replayed_failure"} => req[r].from \in Request

\* No step changes what a request carries or forgets that it took effect, and only
\* Read answers a request from a record.
LEMMA StepKeepsReplies ==
  ASSUME IInv, Next, NEW r \in Request
  PROVE  /\ req'[r].slot = req[r].slot
         /\ req'[r].payload = req[r].payload
         /\ done \subseteq done'
         /\ req'[r].phase \in {"replayed_success", "replayed_failure"}
              => req'[r] = req[r] \/ Read(r)
<1>1. ASSUME NEW q \in Request, Step(q)
      PROVE  /\ req'[r].slot = req[r].slot
             /\ req'[r].payload = req[r].payload
             /\ req'[r].phase \in {"replayed_success", "replayed_failure"}
                  => req'[r] = req[r] \/ Read(r)
  <2>1. CASE Claim(q)
    BY <2>1 DEF IInv, TypeOK, Claim, ClaimWhere, Goes
  <2>2. CASE Read(q)
    <3>1. q # r => req'[r] = req[r]
      BY <2>2 DEF IInv, TypeOK, Read
    <3>2. q = r => req'[r].slot = req[r].slot /\ req'[r].payload = req[r].payload
      BY <2>2 DEF IInv, TypeOK, Read
    <3>. QED
      BY <2>2, <3>1, <3>2
  <2>3. CASE Returns(q)
    BY <2>3 DEF IInv, TypeOK, Returns, Goes
  <2>4. CASE Throws(q)
    BY <2>4 DEF IInv, TypeOK, Throws
  <2>5. CASE RecordSuccess(q) \/ RecordFailure(q)
    BY <2>5 DEF IInv, TypeOK, RecordSuccess, RecordFailure, Goes
  <2>6. CASE Crash(q)
    BY <2>6 DEF IInv, TypeOK, Crash, Goes
  <2>. QED
    BY <1>1, <2>1, <2>2, <2>3, <2>4, <2>5, <2>6 DEF Step
<1>2. (\E q \in Request : Step(q)) \/ req' = req
  BY DEF Next, Lapse, Cleanup, SweepRead, SweepWrite
<1>3. done \subseteq done'
  BY DEF Next, Step, Claim, ClaimWhere, Read, Returns, Throws, RecordSuccess,
         RecordFailure, Crash, Lapse, Cleanup, SweepRead, SweepWrite
<1>. QED
  BY <1>1, <1>2, <1>3

\* A replay always answers with what one operation of the same user, key and
\* payload did, even after the clean-up gave the key to another request.
THEOREM ReplayCorrect == Spec => []ReplayIsFaithful
<1>1. Init => ReplayInv
  <2>. SUFFICES ASSUME Init, NEW r \in Request
       PROVE  req[r].phase \notin {"replayed_success", "replayed_failure"}
    BY DEF ReplayInv, ReplayIsFaithful
  <2>1. PICK s \in Slot, p \in Payload : req[r] = Unsent(s, p)
    BY DEF Init
  <2>. QED
    BY <2>1 DEF Unsent
<1>2. IInv /\ ReplayInv /\ [Next]_vars => ReplayInv'
  <2>. SUFFICES ASSUME IInv, ReplayInv, [Next]_vars, NEW r \in Request,
                       req'[r].phase \in {"replayed_success", "replayed_failure"}
       PROVE  /\ req'[r].from \in Request
              /\ req'[req'[r].from].slot = req'[r].slot
              /\ req'[req'[r].from].payload = req'[r].payload
              /\ req'[r].phase = "replayed_success" => req'[r].from \in done'
    BY DEF ReplayInv, ReplayIsFaithful
  <2>1. CASE UNCHANGED vars
    BY <2>1 DEF vars, ReplayInv, ReplayIsFaithful
  <2>2. CASE Next /\ req'[r] = req[r]
    BY <2>2, StepKeepsReplies DEF ReplayInv, ReplayIsFaithful
  <2>3. CASE Next /\ Read(r)
    <3>. DEFINE row == record[req[r].slot]
    <3>1. /\ req'[r].from = row.owner
          /\ req'[r].phase = Reply(row, req[r].payload)
      BY <2>3 DEF IInv, TypeOK, Read
    <3>2. /\ row.status \in {"SUCCESS", "FAILED"}
          /\ req[row.owner].payload = req[r].payload
          /\ req'[r].phase = "replayed_success" => row.status = "SUCCESS"
      BY <3>1 DEF Reply, Replayed
    <3>3. req[r].slot \in Slot
      BY DEF IInv, TypeOK
    <3>4. row.owner \in Request /\ req[row.owner].slot = req[r].slot
      BY <3>2, <3>3 DEF IInv, TypeOK, OwnerInv
    <3>5. row.status = "SUCCESS" => row.owner \in done
      BY <3>3, <3>4 DEF IInv, OutcomeInv, PhaseInv
    <3>. QED
      BY <2>3, <3>1, <3>2, <3>4, <3>5, StepKeepsReplies
  <2>. QED
    BY <2>1, <2>2, <2>3, StepKeepsReplies
<1>3. ReplayInv => ReplayIsFaithful
  BY DEF ReplayInv
<1>. QED
  BY <1>1, <1>2, <1>3, Invariant, PTL DEF Spec
=============================================================================
