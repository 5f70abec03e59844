-------------------------- MODULE CommsOutboxProofs --------------------------
(***************************************************************************)
(* The outbox for any number of messages and of overlapping passes, and    *)
(* the safety half of what the table promises.                             *)
(***************************************************************************)
EXTENDS CommsOutbox, FiniteSetTheorems, WellFoundedInduction, TLAPS

Entry == [status : {"NONE", "QUEUED", "SENT", "FAILED", "PURGED"}, to : {"user", "student"},
          attempts : Nat, retry : {"null", "later", "past"}]

PassRow == [todo : SUBSET Message, seen : [Message -> Nat], heard : {"nothing"} \union Heard]

\* A message that its own request still works on has no user and was not sent.
RequestInv ==
  \A m \in Message : request[m] # "none" =>
    /\ Live(m) /\ message[m].to = "student"
    /\ request[m] = "accepted" => m \in taken

\* A pass holds rows of the table; the one it has an answer for has a user, and if
\* the answer is that the provider took it, it did.
PassInv ==
  \A p \in Pass :
    /\ \A m \in pass[p].todo : ~Is(m, "NONE")
    /\ pass[p].heard \in Heard => pass[p].todo # {} /\ message[Current(p)].to = "user"
    /\ pass[p].heard = "accepted" => Current(p) \in taken

\* The digest lists messages to users.
DigestInv == \A m \in digest : ~Is(m, "NONE") /\ message[m].to = "user"

IInv == TypeOK /\ RequestInv /\ PassInv /\ DigestInv /\ SentIsTaken
---------------------------------------------------------------------------
(* The row a pass is at.                                                   *)

Smaller == {ss \in Nat \X Nat : ss[1] < ss[2]}

LEMMA HasLeast ==
  ASSUME NEW S \in SUBSET Nat, S # {}
  PROVE  \E m \in S : \A n \in S : m <= n
<1>1. Smaller = OpToRel(<, Nat)
  BY DEF Smaller, OpToRel
<1>2. IsWellFoundedOn(Smaller, Nat)
  BY <1>1, NatLessThanWellFounded
<1>3. PICK m \in S : \A n \in S : ~(<<n, m>> \in Smaller)
  BY <1>2, WFMin
<1>4. \A n, k \in Nat : n < k => <<n, k>> \in Smaller
  BY DEF Smaller
<1>5. S \subseteq Nat /\ \A n, k \in Nat : n < k \/ k <= n
  OBVIOUS
<1>. QED
  BY <1>3, <1>4, <1>5

LEMMA CurrentType ==
  ASSUME TypeOK, NEW p \in Pass, pass[p].todo # {}
  PROVE  Current(p) \in pass[p].todo /\ Current(p) \in Message
<1>1. pass[p].todo \in SUBSET Message /\ pass[p].todo \in SUBSET Nat
  BY MessageAssumption DEF TypeOK
<1>2. \E m \in pass[p].todo : \A n \in pass[p].todo : m <= n
  BY <1>1, HasLeast
<1>. QED
  BY <1>1, <1>2 DEF Current

LEMMA Types ==
  TypeOK => /\ message \in [Message -> Entry] /\ pass \in [Pass -> PassRow]
            /\ request \in [Message -> {"none", "send"} \union Heard]
  BY DEF TypeOK, Entry, PassRow

LEMMA IdleType == Idle \in PassRow /\ Idle.todo = {} /\ Idle.heard = "nothing"
  BY DEF Idle, PassRow

LEMMA NewType ==
  ASSUME NEW to \in {"user", "student"}
  PROVE  New(to) \in Entry /\ New(to).status = "QUEUED" /\ New(to).to = to
<1>1. Absent \in Entry
  BY DEF Absent, Entry
<1>. QED
  BY <1>1 DEF New, Absent, Entry
---------------------------------------------------------------------------
(* What a step may do to one row.                                          *)

Posted(old, new) == old.status = "NONE" /\ new.status = "QUEUED"

WasSent(old, new) == old.status \in {"QUEUED", "FAILED"} /\ new.status = "SENT" /\ new.to = old.to

WasFailed(old, new) ==
  old.status \in {"QUEUED", "FAILED"} /\ new.status = "FAILED" /\ new.to = old.to

Aged(old, new) ==
  /\ new.status = old.status /\ new.to = old.to /\ new.attempts = old.attempts
  /\ new.retry = old.retry \/ (old.retry = "later" /\ new.retry = "past")

Requeued(old, new) == old.status = "FAILED" /\ new.status = "QUEUED" /\ new.to = old.to

WasPurged(old, new) == old.status = "SENT" /\ new.status = "PURGED"

\* Who writes SENT has given the message to somebody, and no request of its own
\* works on it any more; who purges it has waited for that and for the passes.
RowChange(m) ==
  LET old == message[m]  new == message'[m] IN
    \/ Posted(old, new) /\ request[m] = "none"
    \/ WasSent(old, new) /\ m \in taken' /\ (old.to = "user" \/ request'[m] = "none")
    \/ WasFailed(old, new)
    \/ Aged(old, new)
    \/ Requeued(old, new)
    \/ /\ WasPurged(old, new) /\ request[m] = "none" /\ m \notin digest
       /\ \A p \in Pass : m \notin pass[p].todo

\* The statements that name one row.
OneRow ==
  \E m \in Message, new \in Entry : message' = [message EXCEPT ![m] = new] /\ RowChange(m)

Rows ==
  /\ message' \in [Message -> Entry] /\ taken \subseteq taken' /\ taken' \subseteq Message
  /\ \A m \in Message : RowChange(m)

LEMMA OneRowIsRows ==
  ASSUME TypeOK, OneRow, taken \subseteq taken', taken' \subseteq Message
  PROVE  Rows
<1>1. PICK m \in Message, new \in Entry : message' = [message EXCEPT ![m] = new] /\ RowChange(m)
  BY DEF OneRow
<1>2. message' \in [Message -> Entry] /\ \A n \in Message \ {m} : message'[n] = message[n]
  BY <1>1, Types
<1>3. \A n \in Message \ {m} : RowChange(n)
  BY <1>2 DEF RowChange, Aged
<1>. QED
  BY <1>1, <1>2, <1>3 DEF Rows

LEMMA UnchangedIsOneRow ==
  ASSUME TypeOK, UNCHANGED message, NEW m \in Message
  PROVE  OneRow
<1>1. message[m] \in Entry /\ message' = [message EXCEPT ![m] = message[m]]
  BY Types
<1>2. RowChange(m)
  BY DEF RowChange, Aged
<1>. QED
  BY <1>1, <1>2 DEF OneRow

\* UPDATE ... WHERE status IN ('QUEUED', 'FAILED') with a row that says sent or failed.
LEMMA UpdateSteps ==
  ASSUME TypeOK, NEW m \in Message, NEW new \in Entry, Update(m, new),
         new.to = message[m].to,
         new.status = "FAILED" \/ (new.status = "SENT" /\ m \in taken' /\ new.to = "user")
  PROVE  OneRow
<1>1. CASE Live(m)
  <2>1. message' = [message EXCEPT ![m] = new]
    BY <1>1 DEF Update
  <2>2. message'[m] = new
    BY <2>1, Types
  <2>3. message[m].status \in {"QUEUED", "FAILED"}
    BY <1>1 DEF Live
  <2>4. RowChange(m)
    BY <2>2, <2>3 DEF RowChange, WasSent, WasFailed
  <2>. QED
    BY <2>1, <2>4 DEF OneRow
<1>2. CASE ~Live(m)
  BY <1>2, UnchangedIsOneRow DEF Update
<1>. QED
  BY <1>1, <1>2

LEMMA PassSteps ==
  ASSUME IInv, NEW p \in Pass, Skip(p) \/ Record(p)
  PROVE  OneRow /\ taken \subseteq taken' /\ taken' \subseteq Message
<1>. USE DEF IInv
<1>1. PICK m : m = Current(p)
  OBVIOUS
<1>2. pass[p].todo # {}
  BY DEF Skip, Record, PassInv
<1>3. m \in Message /\ m \in pass[p].todo
  BY <1>1, <1>2, CurrentType
<1>4. message[m] \in Entry /\ message[m].attempts + 1 \in Nat
  BY <1>3, Types DEF Entry
<1>5. taken \subseteq taken' /\ taken' \subseteq Message
  BY <1>1, <1>3 DEF Skip, Record, TypeOK
<1>6. CASE Skip(p)
  <2>1. PICK sent : sent = [message[m] EXCEPT !.status = "SENT"]
    OBVIOUS
  <2>2. PICK failed : failed = [message[m] EXCEPT !.status = "FAILED", !.retry = "null",
                                                  !.attempts = message[m].attempts + 1]
    OBVIOUS
  <2>3. /\ sent \in Entry /\ sent.status = "SENT" /\ sent.to = message[m].to
        /\ failed \in Entry /\ failed.status = "FAILED" /\ failed.to = message[m].to
    <3>1. ASSUME NEW n \in Nat, NEW row \in Entry
          PROVE  LET new == [row EXCEPT !.status = "FAILED", !.retry = "null", !.attempts = n]
                 IN  new \in Entry /\ new.status = "FAILED" /\ new.to = row.to
      BY DEF Entry
    <3>2. sent \in Entry /\ sent.status = "SENT" /\ sent.to = message[m].to
      BY <1>4, <2>1 DEF Entry
    <3>. QED
      BY <1>4, <2>2, <3>1, <3>2
  <2>4. \/ message[m].to = "user" /\ Update(m, sent) /\ taken' = taken \union {m}
        \/ Update(m, failed)
    BY <1>1, <1>6, <2>1, <2>2 DEF Skip
  <2>. QED
    BY <1>3, <1>5, <2>3, <2>4, UpdateSteps
<1>7. CASE Record(p)
  <2>1. PICK new : new = Recorded(m, pass[p].heard, pass[p].seen[m])
    OBVIOUS
  <2>2. Update(m, new)
    BY <1>1, <1>7, <2>1 DEF Record
  <2>3. message[m].to = "user"
    BY <1>1, <1>7 DEF PassInv, Record
  <2>4. ASSUME NEW n \in Nat, NEW again \in {"null", "later"}, NEW s \in {"SENT", "FAILED"},
               new = [message[m] EXCEPT !.status = s, !.attempts = n, !.retry = again]
        PROVE  new \in Entry /\ new.status = s /\ new.to = message[m].to
    BY <1>4, <2>4 DEF Entry
  <2>5. CASE pass[p].heard = "accepted"
    <3>1. new = [message[m] EXCEPT !.status = "SENT", !.attempts = message[m].attempts + 1,
                                   !.retry = "null"]
      BY <2>1, <2>5 DEF Recorded
    <3>2. new \in Entry /\ new.status = "SENT" /\ new.to = message[m].to
      BY <1>4, <2>4, <3>1
    <3>3. m \in taken'
      BY <1>1, <1>5, <2>5 DEF PassInv
    <3>. QED
      BY <1>3, <1>5, <2>2, <2>3, <3>2, <3>3, UpdateSteps
  <2>6. CASE pass[p].heard # "accepted"
    <3>1. PICK again \in {"null", "later"} : again = NextRetry(pass[p].seen[m])
      BY DEF NextRetry
    <3>2. new = [message[m] EXCEPT !.status = "FAILED", !.attempts = message[m].attempts + 1,
                                   !.retry = again]
      BY <2>1, <2>6, <3>1 DEF Recorded
    <3>3. new \in Entry /\ new.status = "FAILED" /\ new.to = message[m].to
      BY <1>4, <2>4, <3>2
    <3>. QED
      BY <1>3, <1>5, <2>2, <3>3, UpdateSteps
  <2>. QED
    BY <2>5, <2>6
<1>. QED
  BY <1>5, <1>6, <1>7

LEMMA RequestSteps ==
  ASSUME IInv, NEW m \in Message,
         Enqueue(m) \/ Create(m) \/ BackoffOver(m) \/ OutboundSend(m) \/ OutboundRecord(m)
           \/ OutboundDies(m)
  PROVE  OneRow /\ taken \subseteq taken' /\ taken' \subseteq Message
<1>. USE DEF IInv
<1>1. message[m] \in Entry
  BY Types
<1>2. taken \subseteq taken' /\ taken' \subseteq Message
  BY DEF Enqueue, Create, BackoffOver, OutboundSend, OutboundRecord, OutboundDies, TypeOK
<1>3. CASE Enqueue(m) \/ Create(m)
  <2>1. PICK to \in {"user", "student"} : message' = [message EXCEPT ![m] = New(to)]
    BY <1>3 DEF Enqueue, Create
  <2>2. message'[m] = New(to) /\ New(to) \in Entry /\ New(to).status = "QUEUED"
    BY <2>1, Types, NewType
  <2>3. message[m].status = "NONE"
    BY <1>3 DEF Enqueue, Create, Fresh, Is
  <2>4. RowChange(m)
    BY <2>2, <2>3 DEF RowChange, Posted, RequestInv, Live, Is
  <2>. QED
    BY <1>2, <2>1, <2>2, <2>4 DEF OneRow
<1>4. CASE BackoffOver(m)
  <2>1. PICK new : new = [message[m] EXCEPT !.retry = "past"]
    OBVIOUS
  <2>2. new \in Entry /\ new.retry = "past" /\ new.status = message[m].status
        /\ new.to = message[m].to /\ new.attempts = message[m].attempts
    BY <1>1, <2>1 DEF Entry
  <2>3. message' = [message EXCEPT ![m] = new] /\ message[m].retry = "later"
    BY <1>4, <2>1 DEF BackoffOver
  <2>4. message'[m] = new
    BY <2>3, Types
  <2>5. RowChange(m)
    BY <2>2, <2>3, <2>4 DEF RowChange, Aged
  <2>. QED
    BY <1>2, <2>2, <2>3, <2>5 DEF OneRow
<1>5. CASE OutboundSend(m) \/ OutboundDies(m)
  BY <1>2, <1>5, UnchangedIsOneRow DEF OutboundSend, OutboundDies
<1>6. CASE OutboundRecord(m)
  <2>1. PICK s \in {"SENT", "FAILED"} :
          s = IF request[m] = "accepted" THEN "SENT" ELSE "FAILED"
    OBVIOUS
  <2>2. PICK new : new = [message[m] EXCEPT !.status = s]
    OBVIOUS
  <2>3. new \in Entry /\ new.status = s /\ new.to = message[m].to
    BY <1>1, <2>2 DEF Entry
  <2>4. message' = [message EXCEPT ![m] = new] \/ UNCHANGED message
    BY <1>6, <2>1, <2>2 DEF OutboundRecord
  <2>5. message[m].status \in {"QUEUED", "FAILED"} /\ (request[m] = "accepted" => m \in taken')
    BY <1>2, <1>6 DEF RequestInv, Live, Is, OutboundRecord, Heard
  <2>6. request'[m] = "none"
    BY <1>6 DEF OutboundRecord, TypeOK
  <2>7. CASE message' = [message EXCEPT ![m] = new]
    <3>1. message'[m] = new
      BY <2>7, Types
    <3>2. RowChange(m)
      BY <2>1, <2>3, <2>5, <2>6, <3>1 DEF RowChange, WasSent, WasFailed
    <3>. QED
      BY <1>2, <2>3, <2>7, <3>2 DEF OneRow
  <2>. QED
    BY <1>2, <2>4, <2>7, UnchangedIsOneRow
<1>. QED
  BY <1>2, <1>3, <1>4, <1>5, <1>6

LEMMA DigestSteps == IInv /\ DigestWrite => Rows
<1>. SUFFICES ASSUME IInv, DigestWrite PROVE Rows
  OBVIOUS
<1>. USE DEF IInv
<1>1. PICK d \in Message :
        /\ Fresh(d)
        /\ message' = [m \in Message |->
             IF m = d THEN New("user")
             ELSE IF m \in Marked THEN [message[m] EXCEPT !.status = "SENT"] ELSE message[m]]
        /\ taken' = taken \union digest
  BY DEF DigestWrite
<1>2. taken \subseteq taken' /\ taken' \subseteq Message
  BY <1>1 DEF TypeOK
<1>3. ASSUME NEW m \in Message PROVE message'[m] \in Entry /\ RowChange(m)
  <2>1. message[m] \in Entry
    BY Types
  <2>2. CASE m = d
    <3>1. message'[m] = New("user") /\ New("user") \in Entry /\ New("user").status = "QUEUED"
      BY <1>1, <2>2, NewType
    <3>2. message[m].status = "NONE"
      BY <1>1, <2>2 DEF Fresh, Is
    <3>. QED
      BY <3>1, <3>2 DEF RowChange, Posted, RequestInv, Live, Is
  <2>3. CASE m # d /\ m \in Marked
    <3>1. message'[m] = [message[m] EXCEPT !.status = "SENT"]
      BY <1>1, <2>3
    <3>2. message'[m] \in Entry /\ message'[m].status = "SENT" /\ message'[m].to = message[m].to
      BY <2>1, <3>1 DEF Entry
    <3>3. message[m].status = "QUEUED" /\ m \in taken'
      BY <1>1, <2>3 DEF Marked, Is
    <3>4. message[m].to = "user"
      BY <2>3 DEF DigestInv, Marked
    <3>. QED
      BY <3>2, <3>3, <3>4 DEF RowChange, WasSent
  <2>4. CASE m # d /\ m \notin Marked
    <3>1. message'[m] = message[m]
      BY <1>1, <2>4
    <3>. QED
      BY <2>1, <3>1 DEF RowChange, Aged
  <2>. QED
    BY <2>2, <2>3, <2>4
<1>. QED
  BY <1>1, <1>2, <1>3 DEF Rows

LEMMA RequeueSteps == IInv /\ Requeue => Rows
<1>. SUFFICES ASSUME IInv, Requeue PROVE Rows
  OBVIOUS
<1>. USE DEF IInv
<1>1. PICK ms \in SUBSET {m \in Message : Is(m, "FAILED")} :
        message' = [m \in Message |->
          IF m \in ms THEN [message[m] EXCEPT !.status = "QUEUED", !.attempts = 0, !.retry = "null"]
                      ELSE message[m]]
  BY DEF Requeue
<1>2. taken \subseteq taken' /\ taken' \subseteq Message
  BY DEF Requeue, TypeOK
<1>3. ASSUME NEW m \in Message PROVE message'[m] \in Entry /\ RowChange(m)
  <2>1. message[m] \in Entry
    BY Types
  <2>2. CASE m \in ms
    <3>1. PICK new : new = [message[m] EXCEPT !.status = "QUEUED", !.attempts = 0, !.retry = "null"]
      OBVIOUS
    <3>2. message'[m] = new
      BY <1>1, <2>2, <3>1
    <3>3. new \in Entry /\ new.status = "QUEUED" /\ new.to = message[m].to
      BY <2>1, <3>1 DEF Entry
    <3>. QED
      BY <2>2, <3>2, <3>3 DEF RowChange, Requeued, Is
  <2>3. CASE m \notin ms
    <3>1. message'[m] = message[m]
      BY <1>1, <2>3
    <3>. QED
      BY <2>1, <3>1 DEF RowChange, Aged
  <2>. QED
    BY <2>2, <2>3
<1>. QED
  BY <1>1, <1>2, <1>3 DEF Rows

LEMMA CleanupSteps == IInv /\ Cleanup => Rows
<1>. SUFFICES ASSUME IInv, Cleanup PROVE Rows
  OBVIOUS
<1>. USE DEF IInv
<1>1. PICK ms \in SUBSET {m \in Message : Is(m, "SENT") /\ request[m] = "none"
                                           /\ m \notin digest
                                           /\ \A p \in Pass : m \notin pass[p].todo} :
        message' = [m \in Message |-> IF m \in ms THEN [Absent EXCEPT !.status = "PURGED"]
                                                   ELSE message[m]]
  BY DEF Cleanup
<1>2. taken \subseteq taken' /\ taken' \subseteq Message
  BY DEF Cleanup, TypeOK
<1>3. [Absent EXCEPT !.status = "PURGED"] \in Entry
      /\ [Absent EXCEPT !.status = "PURGED"].status = "PURGED"
  BY DEF Absent, Entry
<1>4. ASSUME NEW m \in Message PROVE message'[m] \in Entry /\ RowChange(m)
  <2>1. message[m] \in Entry
    BY Types
  <2>2. CASE m \in ms
    <3>1. message'[m] = [Absent EXCEPT !.status = "PURGED"]
      BY <1>1, <2>2
    <3>2. message'[m] \in Entry /\ message'[m].status = "PURGED"
      BY <1>3, <3>1
    <3>3. /\ message[m].status = "SENT" /\ request[m] = "none" /\ m \notin digest
          /\ \A p \in Pass : m \notin pass[p].todo
      BY <2>2 DEF Is
    <3>. QED
      BY <3>2, <3>3 DEF RowChange, WasPurged
  <2>3. CASE m \notin ms
    <3>1. message'[m] = message[m]
      BY <1>1, <2>3
    <3>. QED
      BY <2>1, <3>1 DEF RowChange, Aged
  <2>. QED
    BY <2>2, <2>3
<1>. QED
  BY <1>1, <1>2, <1>4 DEF Rows

\* A step changes one row, unless it is one of those three.
LEMMA NextSteps ==
  IInv /\ [Next]_vars =>
    \/ UNCHANGED message /\ taken \subseteq taken' /\ taken' \subseteq Message
    \/ OneRow /\ taken \subseteq taken' /\ taken' \subseteq Message
    \/ DigestWrite \/ Requeue \/ Cleanup
<1>. SUFFICES ASSUME IInv, [Next]_vars,
                     ~DigestWrite, ~Requeue, ~Cleanup
              PROVE  /\ UNCHANGED message \/ OneRow
                     /\ taken \subseteq taken' /\ taken' \subseteq Message
  OBVIOUS
<1>1. ASSUME NEW p \in Pass, Send(p)
      PROVE  UNCHANGED message /\ taken \subseteq taken' /\ taken' \subseteq Message
  BY <1>1, CurrentType DEF Send, IInv, TypeOK
<1>2. ASSUME NEW p \in Pass, Scan(p) \/ RowFails(p) \/ CrashPass(p)
      PROVE  UNCHANGED message /\ taken \subseteq taken' /\ taken' \subseteq Message
  BY <1>2 DEF Scan, RowFails, CrashPass, IInv, TypeOK
<1>3. CASE UNCHANGED vars \/ DigestRead \/ DigestFails
  BY <1>3 DEF vars, DigestRead, DigestFails, IInv, TypeOK
<1>. QED
  BY <1>1, <1>2, <1>3, PassSteps, RequestSteps DEF Next, PassNext

LEMMA NextRows == IInv /\ [Next]_vars => Rows
<1>. SUFFICES ASSUME IInv, [Next]_vars PROVE Rows
  OBVIOUS
<1>1. CASE UNCHANGED message /\ taken \subseteq taken' /\ taken' \subseteq Message
  BY <1>1, Types DEF Rows, RowChange, Aged, IInv
<1>2. CASE OneRow /\ taken \subseteq taken' /\ taken' \subseteq Message
  BY <1>2, OneRowIsRows DEF IInv
<1>. QED
  BY <1>1, <1>2, NextSteps, DigestSteps, RequeueSteps, CleanupSteps
---------------------------------------------------------------------------
(* The invariant.                                                          *)

LEMMA InitIInv == Init => IInv
<1>. SUFFICES ASSUME Init PROVE IInv
  OBVIOUS
<1>1. Absent \in Entry /\ Absent.status = "NONE"
  BY DEF Absent, Entry
<1>2. \A m \in Message : message[m] = Absent /\ request[m] = "none"
  BY DEF Init
<1>3. TypeOK
  BY <1>1, IdleType, BoundAssumption DEF TypeOK, Init, Entry, PassRow
<1>. QED
  BY <1>1, <1>2, <1>3, IdleType DEF IInv, RequestInv, PassInv, DigestInv, SentIsTaken, Init, Heard

\* What a change of its row leaves as it was.
LEMMA RowKeeps ==
  ASSUME Rows, NEW m \in Message
  PROVE  /\ ~Is(m, "NONE") => message'[m].status # "NONE"
         /\ /\ ~Is(m, "NONE")
            /\ m \in digest \/ request[m] # "none" \/ \E p \in Pass : m \in pass[p].todo
            => message'[m].to = message[m].to
         /\ message'[m].status = "SENT" => message[m].status = "SENT" \/ m \in taken'
         /\ message'[m].status = "PURGED" => message[m].status \in {"SENT", "PURGED"}
  BY DEF Rows, RowChange, Posted, WasSent, WasFailed, Aged, Requeued, WasPurged, Is

LEMMA NextPasses ==
  ASSUME IInv, [Next]_vars
  PROVE  pass' \in [Pass -> PassRow] /\ PassInv'
<1>. USE DEF IInv
<1>1. Rows
  BY NextRows
<1>2. ASSUME NEW p \in Pass, pass'[p] = pass[p]
      PROVE  /\ \A m \in pass'[p].todo : message'[m].status # "NONE"
             /\ pass'[p].heard \in Heard => pass'[p].todo # {} /\ message'[Current(p)'].to = "user"
             /\ pass'[p].heard = "accepted" => Current(p)' \in taken'
  <2>1. \A m \in pass[p].todo : m \in Message
    BY DEF TypeOK
  <2>2. Current(p)' = Current(p)
    BY <1>2 DEF Current
  <2>3. pass[p].heard \in Heard => Current(p) \in pass[p].todo
    BY CurrentType DEF PassInv
  <2>. QED
    BY <1>1, <1>2, <2>1, <2>2, <2>3, RowKeeps DEF PassInv, Rows, Heard
<1>3. CASE UNCHANGED pass
  BY <1>2, <1>3, Types DEF PassInv, Is
<1>4. ASSUME NEW p \in Pass, NEW q \in PassRow, pass' = [pass EXCEPT ![p] = q],
             /\ \A m \in q.todo : message'[m].status # "NONE"
             /\ q.heard \in Heard => q.todo # {} /\ message'[Current(p)'].to = "user"
             /\ q.heard = "accepted" => Current(p)' \in taken'
      PROVE  pass' \in [Pass -> PassRow] /\ PassInv'
  <2>1. pass' \in [Pass -> PassRow] /\ pass'[p] = q /\ \A o \in Pass \ {p} : pass'[o] = pass[o]
    BY <1>4, Types
  <2>. QED
    BY <1>2, <1>4, <2>1 DEF PassInv, Is
<1>5. ASSUME NEW p \in Pass, NEW q \in PassRow, pass' = [pass EXCEPT ![p] = q],
             q.heard = "nothing", q.todo \subseteq pass[p].todo \/ \A m \in q.todo : Live(m)
      PROVE  pass' \in [Pass -> PassRow] /\ PassInv'
  <2>1. \A m \in q.todo : m \in Message /\ ~Is(m, "NONE")
    BY <1>5 DEF PassInv, PassRow, Live, Is
  <2>. QED
    BY <1>1, <1>4, <1>5, <2>1, RowKeeps DEF Heard
<1>6. ASSUME NEW p \in Pass, NEW m \in Message, Advance(p, m)
      PROVE  pass' \in [Pass -> PassRow] /\ PassInv'
  <2>. DEFINE done == [todo |-> pass[p].todo \ {m}, seen |-> [pass[p].seen EXCEPT ![m] = 0],
                       heard |-> "nothing"]
  <2>1. done \in PassRow /\ done.heard = "nothing" /\ done.todo \subseteq pass[p].todo
    BY Types DEF PassRow
  <2>2. PICK q \in {Idle, done} : pass' = [pass EXCEPT ![p] = q]
    BY <1>6 DEF Advance
  <2>. HIDE DEF done
  <2>. QED
    BY <1>5, <2>1, <2>2, IdleType
<1>7. ASSUME NEW p \in Pass, Scan(p) PROVE pass' \in [Pass -> PassRow] /\ PassInv'
  <2>. DEFINE oldest == {m \in Candidates : Cardinality({n \in Candidates : n < m}) < BatchLimit}
              q == [todo |-> oldest, heard |-> "nothing",
                    seen |-> [m \in Message |-> IF m \in oldest THEN message[m].attempts ELSE 0]]
  <2>1. pass' = [pass EXCEPT ![p] = q]
    BY <1>7 DEF Scan
  <2>. HIDE DEF oldest
  <2>5. oldest \subseteq Candidates
    BY DEF oldest
  <2>2. q \in PassRow /\ q.heard = "nothing" /\ q.todo \subseteq Candidates
    BY <2>5, Types DEF PassRow, Candidates, Entry
  <2>. HIDE DEF q
  <2>3. \A m \in q.todo : Live(m)
    BY <2>2 DEF Candidates, Live, Is
  <2>. QED
    BY <1>5, <2>1, <2>2, <2>3
<1>8. ASSUME NEW p \in Pass, Skip(p) \/ Record(p) \/ RowFails(p)
      PROVE  pass' \in [Pass -> PassRow] /\ PassInv'
  <2>1. pass[p].todo # {} /\ Advance(p, Current(p))
    BY <1>8 DEF Skip, Record, RowFails, PassInv
  <2>. QED
    BY <1>6, <2>1, CurrentType
<1>9. ASSUME NEW p \in Pass, CrashPass(p) PROVE pass' \in [Pass -> PassRow] /\ PassInv'
  BY <1>5, <1>9, IdleType DEF CrashPass
<1>10. ASSUME NEW p \in Pass, Send(p) PROVE pass' \in [Pass -> PassRow] /\ PassInv'
  <2>1. PICK m : m = Current(p)
    OBVIOUS
  <2>2. PICK answer \in Heard : /\ pass' = [pass EXCEPT ![p].heard = answer]
                                /\ answer = "accepted" => m \in taken'
    BY <1>10, <2>1 DEF Send
  <2>3. PICK q : q = [pass[p] EXCEPT !.heard = answer]
    OBVIOUS
  <2>4. q \in PassRow /\ q.heard = answer /\ q.todo = pass[p].todo
    BY <2>3, Types DEF PassRow
  <2>5. pass' = [pass EXCEPT ![p] = q]
    BY <2>2, <2>3
  <2>6. Current(p)' = Current(p)
    BY <2>4, <2>5, Types DEF Current
  <2>7. message[m].to = "user" /\ pass[p].todo # {} /\ UNCHANGED message
    BY <1>10, <2>1 DEF Send
  <2>8. \A n \in q.todo : message'[n].status # "NONE"
    BY <2>4, <2>7 DEF PassInv, Is
  <2>9. q.todo # {} /\ message'[Current(p)'].to = "user" /\ (q.heard = "accepted" => Current(p)' \in taken')
    BY <2>1, <2>2, <2>4, <2>6, <2>7
  <2>. QED
    BY <1>4, <2>4, <2>5, <2>8, <2>9
<1>. QED
  BY <1>3, <1>7, <1>8, <1>9, <1>10 DEF Next, vars, PassNext, Enqueue, Create, BackoffOver,
     OutboundSend, OutboundRecord, OutboundDies, DigestRead, DigestWrite, DigestFails, Requeue,
     Cleanup

LEMMA NextRequests ==
  ASSUME IInv, [Next]_vars
  PROVE  /\ request' \in [Message -> {"none", "send"} \union Heard]
         /\ RequestInv'
<1>. USE DEF IInv
<1>1. Rows
  BY NextRows
<1>2. request \in [Message -> {"none", "send"} \union Heard]
  BY Types
<1>3. ASSUME NEW m \in Message, request[m] # "none", request'[m] # "none",
             request'[m] = "accepted" => request[m] = "accepted" \/ m \in taken'
      PROVE  /\ message'[m].status \in {"QUEUED", "FAILED"} /\ message'[m].to = "student"
             /\ request'[m] = "accepted" => m \in taken'
  <2>1. /\ message[m].status \in {"QUEUED", "FAILED"} /\ message[m].to = "student"
        /\ request[m] = "accepted" => m \in taken
    BY <1>3 DEF RequestInv, Live
  <2>2. RowChange(m) /\ taken \subseteq taken'
    BY <1>1 DEF Rows
  <2>. QED
    BY <1>3, <2>1, <2>2 DEF RowChange, Posted, WasSent, WasFailed, Aged, Requeued, WasPurged
<1>4. ASSUME NEW m \in Message, NEW x \in {"none", "send"} \union Heard,
             request' = [request EXCEPT ![m] = x],
             x # "none" => request[m] # "none", x = "accepted" => m \in taken'
      PROVE  request' \in [Message -> {"none", "send"} \union Heard] /\ RequestInv'
  <2>1. request' \in [Message -> {"none", "send"} \union Heard] /\ request'[m] = x
        /\ \A n \in Message \ {m} : request'[n] = request[n]
    BY <1>2, <1>4
  <2>. QED
    BY <1>3, <1>4, <2>1 DEF RequestInv, Live
<1>5. ASSUME NEW m \in Message, Create(m)
      PROVE  request' \in [Message -> {"none", "send"} \union Heard] /\ RequestInv'
  <2>1. request' = [request EXCEPT ![m] = "send"] /\ message' = [message EXCEPT ![m] = New("student")]
    BY <1>5 DEF Create
  <2>2. /\ request' \in [Message -> {"none", "send"} \union Heard] /\ request'[m] = "send"
        /\ \A n \in Message \ {m} : request'[n] = request[n]
    BY <1>2, <2>1
  <2>3. message'[m].status = "QUEUED" /\ message'[m].to = "student"
    BY <2>1, Types, NewType
  <2>. QED
    BY <1>3, <2>2, <2>3 DEF RequestInv, Live, Heard
<1>6. ASSUME NEW m \in Message, OutboundSend(m)
      PROVE  request' \in [Message -> {"none", "send"} \union Heard] /\ RequestInv'
  <2>1. PICK answer \in Heard : /\ request' = [request EXCEPT ![m] = answer]
                                /\ answer = "accepted" => m \in taken'
    BY <1>6 DEF OutboundSend
  <2>. QED
    BY <1>4, <1>6, <2>1 DEF OutboundSend
<1>7. ASSUME NEW m \in Message, OutboundRecord(m) \/ OutboundDies(m)
      PROVE  request' \in [Message -> {"none", "send"} \union Heard] /\ RequestInv'
  BY <1>4, <1>7 DEF OutboundRecord, OutboundDies
<1>8. CASE UNCHANGED request
  BY <1>2, <1>3, <1>8 DEF RequestInv, Live
<1>. QED
  BY <1>5, <1>6, <1>7, <1>8 DEF Next, vars, PassNext, Scan, Skip, Send, Record, RowFails, CrashPass,
     Enqueue, BackoffOver, DigestRead, DigestWrite, DigestFails, Requeue, Cleanup

LEMMA NextDigests ==
  ASSUME IInv, [Next]_vars
  PROVE  digest' \subseteq Message /\ DigestInv'
<1>. USE DEF IInv
<1>1. Rows
  BY NextRows
<1>2. digest \subseteq Message
  BY DEF TypeOK
<1>3. CASE UNCHANGED digest
  BY <1>1, <1>2, <1>3, RowKeeps DEF DigestInv, Is
<1>4. CASE DigestRead
  BY <1>4 DEF DigestRead, DigestInv, Is
<1>5. CASE digest' = {}
  BY <1>5 DEF DigestInv
<1>. QED
  BY <1>3, <1>4, <1>5 DEF Next, vars, PassNext, Scan, Skip, Send, Record, RowFails, CrashPass,
     Enqueue, Create, BackoffOver, OutboundSend, OutboundRecord, OutboundDies, DigestWrite,
     DigestFails, Requeue, Cleanup

LEMMA NextCounts ==
  ASSUME TypeOK, [Next]_vars
  PROVE  faults' \in 0..MaxFaults /\ requeues' \in 0..MaxRequeue
<1>1. faults' = faults \/ (faults < MaxFaults /\ faults' = faults + 1)
  BY DEF Next, vars, PassNext, Scan, Skip, Send, Record, RowFails, CrashPass,
     Enqueue, Create, BackoffOver, OutboundSend, OutboundRecord, OutboundDies, DigestRead,
     DigestWrite, DigestFails, Requeue, Cleanup
<1>2. requeues' = requeues \/ (requeues < MaxRequeue /\ requeues' = requeues + 1)
  BY DEF Next, vars, PassNext, Scan, Skip, Send, Record, RowFails, CrashPass,
     Enqueue, Create, BackoffOver, OutboundSend, OutboundRecord, OutboundDies, DigestRead,
     DigestWrite, DigestFails, Requeue, Cleanup
<1>. QED
  BY <1>1, <1>2, BoundAssumption DEF TypeOK

LEMMA NextIInv == IInv /\ [Next]_vars => IInv'
<1>. SUFFICES ASSUME IInv, [Next]_vars PROVE IInv'
  OBVIOUS
<1>1. Rows
  BY NextRows
<1>2. TypeOK'
  BY <1>1, NextPasses, NextRequests, NextDigests, NextCounts
     DEF IInv, TypeOK, Rows, Entry, PassRow
<1>3. SentIsTaken'
  BY <1>1, RowKeeps DEF IInv, SentIsTaken, Rows
<1>. QED
  BY <1>2, <1>3, NextPasses, NextRequests, NextDigests DEF IInv

LEMMA Invariant == Spec => []IInv
  BY InitIInv, NextIInv, PTL DEF Spec
---------------------------------------------------------------------------
(* The abstract outbox.                                                    *)

Boxes == [m \in Message |-> Box(m)]

\* A row's box, of the row alone.
RowBox(row) ==
  CASE row.status = "NONE" -> "none"
    [] row.status = "SENT" -> "sent"
    [] row.status = "PURGED" -> "purged"
    [] row.status = "FAILED" /\ (row.attempts >= MaxAttempts \/ row.retry = "null") -> "dead"
    [] OTHER -> "waiting"

LEMMA BoxOfRow ==
  ASSUME NEW m \in Message
  PROVE  Box(m) = RowBox(message[m]) /\ Box(m)' = RowBox(message'[m])
  BY DEF Box, RowBox, Is, Terminal

LEMMA RowBoxes ==
  ASSUME NEW row \in Entry
  PROVE  /\ row.status = "NONE" => RowBox(row) = "none"
         /\ row.status = "SENT" => RowBox(row) = "sent"
         /\ row.status = "PURGED" => RowBox(row) = "purged"
         /\ row.status = "QUEUED" => RowBox(row) = "waiting"
         /\ row.status = "FAILED" => RowBox(row) \in {"waiting", "dead"}
  BY DEF Entry, RowBox

LEMMA AgedBox ==
  ASSUME NEW old \in Entry, NEW new \in Entry, Aged(old, new)
  PROVE  RowBox(new) = RowBox(old)
  BY DEF Aged, RowBox, Entry

\* The operators of Outbox, of rows.
LEMMA InBoxes ==
  ASSUME NEW ms \in SUBSET Message, NEW state, \A m \in ms : RowBox(message[m]) = state
  PROVE  Promise!In(state, ms)
  BY BoxOfRow DEF Promise!In

LEMMA MoveBoxes ==
  ASSUME NEW ms \in SUBSET Message, NEW state,
         \A m \in ms : RowBox(message'[m]) = state,
         \A m \in Message \ ms : RowBox(message'[m]) = RowBox(message[m])
  PROVE  Promise!Move(ms, state)
<1>1. Boxes' = [m \in Message |-> IF m \in ms THEN state ELSE Boxes[m]]
  BY BoxOfRow DEF Boxes
<1>. QED
  BY <1>1 DEF Promise!Move, Boxes

LEMMA SameBoxes ==
  ASSUME \A m \in Message : RowBox(message'[m]) = RowBox(message[m])
  PROVE  UNCHANGED Boxes
  BY BoxOfRow DEF Boxes

LEMMA OneRowKeepsPromise ==
  ASSUME TypeOK, OneRow
  PROVE  [Promise!Next]_Boxes
<1>1. PICK m \in Message, new \in Entry : message' = [message EXCEPT ![m] = new] /\ RowChange(m)
  BY DEF OneRow
<1>2. message[m] \in Entry /\ message'[m] = new
      /\ \A n \in Message \ {m} : message'[n] = message[n]
  BY <1>1, Types
<1>. DEFINE from == RowBox(message[m])
            to == RowBox(new)
<1>3. \/ from = "none" /\ to = "waiting"
      \/ from \in {"waiting", "dead"} /\ to = "sent"
      \/ from = "waiting" /\ to = "dead"
      \/ from = "dead" /\ to = "waiting"
      \/ from = "sent" /\ to = "purged"
      \/ from = to
  BY <1>1, <1>2, RowBoxes, AgedBox DEF RowChange, Posted, WasSent, WasFailed, Requeued, WasPurged
<1>4. Promise!In(from, {m}) /\ Promise!Move({m}, to)
  BY <1>2, InBoxes, MoveBoxes
<1>. HIDE DEF from, to
<1>5. CASE from = "none" /\ to = "waiting"
  BY <1>4, <1>5 DEF Promise!Next, Promise!Post
<1>6. CASE from \in {"waiting", "dead"} /\ to = "sent"
  BY <1>4, <1>6 DEF Promise!Next, Promise!Sent
<1>7. CASE from = "waiting" /\ to = "dead"
  BY <1>4, <1>7 DEF Promise!Next, Promise!GiveUp
<1>8. CASE from = "dead" /\ to = "waiting"
  BY <1>4, <1>8 DEF Promise!Next, Promise!Revive
<1>9. CASE from = "sent" /\ to = "purged"
  BY <1>4, <1>9 DEF Promise!Next, Promise!Purge
<1>10. CASE from = to
  BY <1>2, <1>10, SameBoxes DEF from, to
<1>. QED
  BY <1>3, <1>5, <1>6, <1>7, <1>8, <1>9, <1>10

LEMMA DigestKeepsPromise ==
  ASSUME TypeOK, DigestWrite
  PROVE  [Promise!Next]_Boxes
<1>1. PICK d \in Message :
        /\ Fresh(d)
        /\ message' = [m \in Message |->
             IF m = d THEN New("user")
             ELSE IF m \in Marked THEN [message[m] EXCEPT !.status = "SENT"] ELSE message[m]]
  BY DEF DigestWrite
<1>2. Marked \in SUBSET Message /\ \A m \in Marked : message[m].status = "QUEUED"
  BY DEF Marked, TypeOK, Is
<1>3. message[d].status = "NONE"
  BY <1>1 DEF Fresh, Is
<1>4. \A m \in Message : message[m] \in Entry
  BY Types
<1>5. Promise!In("waiting", Marked) /\ Promise!In("none", {d})
  BY <1>2, <1>3, <1>4, InBoxes, RowBoxes
<1>6. RowBox(message'[d]) = "waiting"
  BY <1>1, NewType, RowBoxes
<1>7. ASSUME NEW m \in Message, m # d, m \in Marked PROVE RowBox(message'[m]) = "sent"
  <2>1. message'[m] = [message[m] EXCEPT !.status = "SENT"]
    BY <1>1, <1>7
  <2>2. message'[m] \in Entry /\ message'[m].status = "SENT"
    BY <1>4, <2>1 DEF Entry
  <2>. QED
    BY <2>2, RowBoxes
<1>8. ASSUME NEW m \in Message, m # d, m \notin Marked PROVE message'[m] = message[m]
  BY <1>1, <1>8
<1>9. d \notin Marked
  BY <1>2, <1>3
<1>10. Boxes' = [m \in Message |-> IF m \in Marked THEN "sent" ELSE IF m = d THEN "waiting" ELSE Boxes[m]]
  BY <1>6, <1>7, <1>8, <1>9, BoxOfRow DEF Boxes
<1>11. Promise!Digest(Marked, d)
  BY <1>5, <1>10 DEF Promise!Digest, Boxes
<1>. QED
  BY <1>2, <1>11 DEF Promise!Next

LEMMA RequeueKeepsPromise ==
  ASSUME TypeOK, Requeue
  PROVE  [Promise!Next]_Boxes
<1>1. PICK ms \in SUBSET {m \in Message : Is(m, "FAILED")} :
        message' = [m \in Message |->
          IF m \in ms THEN [message[m] EXCEPT !.status = "QUEUED", !.attempts = 0, !.retry = "null"]
                      ELSE message[m]]
  BY DEF Requeue
<1>. DEFINE dead == {m \in ms : RowBox(message[m]) = "dead"}
<1>2. ASSUME NEW m \in Message, m \in ms
      PROVE  RowBox(message'[m]) = "waiting" /\ RowBox(message[m]) \in {"waiting", "dead"}
  <2>1. PICK new : new = [message[m] EXCEPT !.status = "QUEUED", !.attempts = 0, !.retry = "null"]
    OBVIOUS
  <2>2. message[m] \in Entry /\ message'[m] = new
    BY <1>1, <1>2, <2>1, Types
  <2>3. new \in Entry /\ new.status = "QUEUED"
    <3>1. ASSUME NEW row \in Entry
          PROVE  LET other == [row EXCEPT !.status = "QUEUED", !.attempts = 0, !.retry = "null"]
                 IN  other \in Entry /\ other.status = "QUEUED"
      BY DEF Entry
    <3>. QED
      BY <2>1, <2>2, <3>1
  <2>. QED
    BY <1>2, <2>2, <2>3, RowBoxes DEF Is
<1>3. ASSUME NEW m \in Message, m \notin ms PROVE message'[m] = message[m]
  BY <1>1, <1>3
<1>4. CASE dead = {}
  BY <1>2, <1>3, <1>4, SameBoxes
<1>5. CASE dead # {}
  <2>1. dead \in SUBSET Message /\ Promise!In("dead", dead)
    BY InBoxes
  <2>2. Promise!Move(dead, "waiting")
    BY <1>2, <1>3, <2>1, MoveBoxes
  <2>. HIDE DEF dead
  <2>. QED
    BY <1>5, <2>1, <2>2 DEF Promise!Next, Promise!Revive
<1>. QED
  BY <1>4, <1>5

LEMMA CleanupKeepsPromise ==
  ASSUME TypeOK, Cleanup
  PROVE  [Promise!Next]_Boxes
<1>1. PICK ms \in SUBSET {m \in Message : Is(m, "SENT")} :
        /\ ms # {}
        /\ message' = [m \in Message |-> IF m \in ms THEN [Absent EXCEPT !.status = "PURGED"]
                                                      ELSE message[m]]
  BY DEF Cleanup
<1>2. [Absent EXCEPT !.status = "PURGED"] \in Entry
      /\ [Absent EXCEPT !.status = "PURGED"].status = "PURGED"
  BY DEF Absent, Entry
<1>3. ms \in SUBSET Message /\ \A m \in ms : RowBox(message[m]) = "sent"
  BY Types, RowBoxes DEF Is
<1>4. \A m \in ms : RowBox(message'[m]) = "purged"
  BY <1>1, <1>2, RowBoxes
<1>5. \A m \in Message \ ms : message'[m] = message[m]
  BY <1>1
<1>6. Promise!In("sent", ms) /\ Promise!Move(ms, "purged")
  BY <1>3, <1>4, <1>5, InBoxes, MoveBoxes
<1>. QED
  BY <1>1, <1>3, <1>6 DEF Promise!Next, Promise!Purge
---------------------------------------------------------------------------
(* Counting tries.                                                         *)

\* The passes that have m in hand: each may yet add a try.
Holders(m) == {p \in Pass : m \in pass[p].todo}

\* The tries a row has and may still get.  No pass takes up a row that has used up its
\* tries; a row that is QUEUED has made none.
TriesInv ==
  \A m \in Message :
    /\ Is(m, "QUEUED") => message[m].attempts = 0
    /\ message[m].attempts + Cardinality(Holders(m)) < MaxAttempts + Cardinality(Pass)

\* How a step may count the tries of a row: they are not used up, or it adds none, or
\* it adds one and a pass is done with the row.
Counted(m) ==
  \/ message'[m].attempts < MaxAttempts
  \/ message'[m].attempts = message[m].attempts /\ Holders(m)' \subseteq Holders(m)
  \/ \E p \in Holders(m) : /\ message'[m].attempts \in {message[m].attempts, message[m].attempts + 1}
                           /\ Holders(m)' \subseteq Holders(m) \ {p}

\* A row becomes QUEUED with no tries behind it.
QueuedAfresh(m) ==
  message'[m].status = "QUEUED" =>
    message'[m].attempts = 0 \/ (Is(m, "QUEUED") /\ message'[m].attempts = message[m].attempts)

\* They can be counted.
LEMMA HoldersFinite ==
  \A m : /\ IsFiniteSet(Holders(m)) /\ Cardinality(Holders(m)) \in Nat
         /\ Cardinality(Holders(m)) <= Cardinality(Pass) /\ Cardinality(Pass) \in Nat
<1>1. \A m : Holders(m) \subseteq Pass
  BY DEF Holders
<1>. QED
  BY <1>1, PassAssumption, FS_Subset, FS_CardinalityType

\* Such steps keep the bound.
LEMMA CountedKeeps ==
  ASSUME TypeOK, TypeOK', TriesInv, \A m \in Message : Counted(m) /\ QueuedAfresh(m)
  PROVE  TriesInv'
<1>1. ASSUME NEW m \in Message
      PROVE  message'[m].attempts + Cardinality(Holders(m)') < MaxAttempts + Cardinality(Pass)
  <2>1. message[m].attempts \in Nat /\ message'[m].attempts \in Nat
    BY Types DEF Entry, TypeOK
  <2>2. Holders(m)' \subseteq Pass
    BY DEF Holders
  <2>3. /\ IsFiniteSet(Holders(m)') /\ Cardinality(Holders(m)') \in Nat
        /\ Cardinality(Holders(m)') <= Cardinality(Pass)
    BY <2>2, PassAssumption, FS_Subset, FS_CardinalityType
  <2>4. message[m].attempts + Cardinality(Holders(m)) < MaxAttempts + Cardinality(Pass)
    BY DEF TriesInv
  <2>5. CASE message'[m].attempts < MaxAttempts
    BY <2>1, <2>3, <2>5, HoldersFinite, BoundAssumption
  <2>6. CASE message'[m].attempts = message[m].attempts /\ Holders(m)' \subseteq Holders(m)
    <3>1. Cardinality(Holders(m)') <= Cardinality(Holders(m))
      BY <2>6, HoldersFinite, FS_Subset
    <3>. QED
      BY <2>1, <2>3, <2>4, <2>6, <3>1, HoldersFinite, BoundAssumption
  <2>7. CASE \E p \in Holders(m) :
               /\ message'[m].attempts \in {message[m].attempts, message[m].attempts + 1}
               /\ Holders(m)' \subseteq Holders(m) \ {p}
    <3>1. PICK p \in Holders(m) :
            /\ message'[m].attempts \in {message[m].attempts, message[m].attempts + 1}
            /\ Holders(m)' \subseteq Holders(m) \ {p}
      BY <2>7
    <3>2. IsFiniteSet(Holders(m) \ {p})
          /\ Cardinality(Holders(m) \ {p}) = Cardinality(Holders(m)) - 1
      BY HoldersFinite, FS_RemoveElement
    <3>3. Cardinality(Holders(m)') <= Cardinality(Holders(m) \ {p})
      BY <3>1, <3>2, FS_Subset
    <3>. QED
      BY <2>1, <2>3, <2>4, <3>1, <3>2, <3>3, HoldersFinite, BoundAssumption
  <2>. QED
    BY <2>5, <2>6, <2>7 DEF Counted
<1>2. \A m \in Message : message'[m].status = "QUEUED" => message'[m].attempts = 0
  BY DEF QueuedAfresh, TriesInv, Is
<1>. QED
  BY <1>1, <1>2 DEF TriesInv, Is, Holders

\* A step that leaves the table alone and gives no pass a row.
LEMMA NoTries ==
  ASSUME UNCHANGED message, \A m \in Message : Holders(m)' \subseteq Holders(m)
  PROVE  \A m \in Message : Counted(m) /\ QueuedAfresh(m)
  BY DEF Counted, QueuedAfresh, Is

\* A pass that moves on is done with the row it was at and with no other.
LEMMA AdvanceHolders ==
  ASSUME TypeOK, NEW p \in Pass, NEW c \in pass[p].todo, Advance(p, c)
  PROVE  /\ \A m : Holders(m)' \subseteq Holders(m)
         /\ p \in Holders(c) /\ Holders(c)' \subseteq Holders(c) \ {p}
<1>. DEFINE done == [todo |-> pass[p].todo \ {c}, seen |-> [pass[p].seen EXCEPT ![c] = 0],
                     heard |-> "nothing"]
            row == IF pass[p].todo = {c} THEN Idle ELSE done
<1>1. pass' = [pass EXCEPT ![p] = row] /\ row.todo = pass[p].todo \ {c}
  BY IdleType DEF Advance
<1>. HIDE DEF row
<1>2. \A q \in Pass : pass'[q] = IF q = p THEN row ELSE pass[q]
  BY <1>1, Types
<1>. QED
  BY <1>1, <1>2 DEF Holders

\* The statements of a pass: the row it is at gets one try at most, and the pass is
\* done with it.
LEMMA RecordTries ==
  ASSUME TypeOK, NEW p \in Pass, pass[p].todo # {}, NEW new,
         Update(Current(p), new), Advance(p, Current(p)), new.status \in {"SENT", "FAILED"},
         new.attempts \in {message[Current(p)].attempts, message[Current(p)].attempts + 1}
  PROVE  \A m \in Message : Counted(m) /\ QueuedAfresh(m)
<1>1. PICK c \in pass[p].todo : c = Current(p) /\ c \in Message
  BY CurrentType
<1>2. \A m \in Message : message'[m] = message[m] \/ (m = c /\ message'[m] = new)
  BY <1>1, Types DEF Update
<1>3. /\ \A m : Holders(m)' \subseteq Holders(m)
      /\ p \in Holders(c) /\ Holders(c)' \subseteq Holders(c) \ {p}
  BY <1>1, AdvanceHolders
<1>. QED
  BY <1>1, <1>2, <1>3 DEF Counted, QueuedAfresh, Is

\* The statements after which a pass moves on.
LEMMA PassTries ==
  ASSUME TypeOK, NEW p \in Pass, pass[p].heard \in Heard => pass[p].todo # {},
         Skip(p) \/ Record(p) \/ RowFails(p)
  PROVE  \A m \in Message : Counted(m) /\ QueuedAfresh(m)
<1>1. pass[p].todo # {} /\ Current(p) \in pass[p].todo /\ Current(p) \in Message
  BY CurrentType DEF Skip, Record, RowFails
<1>2. PICK old : old = message[Current(p)] /\ old \in Entry
  BY <1>1, Types
<1>3. /\ [old EXCEPT !.status = "SENT"].attempts = old.attempts
      /\ [old EXCEPT !.status = "SENT"].status = "SENT"
      /\ [old EXCEPT !.status = "FAILED", !.retry = "null", !.attempts = @ + 1].attempts
           = old.attempts + 1
      /\ [old EXCEPT !.status = "FAILED", !.retry = "null", !.attempts = @ + 1].status = "FAILED"
  BY <1>2 DEF Entry
<1>4. \A heard, seen : /\ Recorded(Current(p), heard, seen).attempts = old.attempts + 1
                       /\ Recorded(Current(p), heard, seen).status \in {"SENT", "FAILED"}
  BY <1>2 DEF Recorded, Entry
<1>5. CASE Skip(p)
  BY <1>1, <1>2, <1>3, <1>5, RecordTries DEF Skip
<1>6. CASE Record(p)
  BY <1>1, <1>2, <1>4, <1>6, RecordTries DEF Record
<1>7. CASE RowFails(p)
  <2>1. \A m : Holders(m)' \subseteq Holders(m)
    BY <1>1, <1>7, AdvanceHolders DEF RowFails
  <2>. QED
    BY <1>7, <2>1, NoTries DEF RowFails
<1>. QED
  BY <1>5, <1>6, <1>7

\* A pass takes up rows whose tries are not used up.
LEMMA ScanTries ==
  ASSUME TypeOK, TriesInv, NEW p \in Pass, Scan(p)
  PROVE  \A m \in Message : Counted(m) /\ QueuedAfresh(m)
<1>. DEFINE oldest == {m \in Candidates : Cardinality({n \in Candidates : n < m}) < BatchLimit}
            row == [todo |-> oldest, heard |-> "nothing",
                    seen |-> [m \in Message |-> IF m \in oldest THEN message[m].attempts ELSE 0]]
<1>1. pass' = [pass EXCEPT ![p] = row] /\ row.todo \subseteq Candidates /\ message' = message
  BY DEF Scan
<1>. HIDE DEF row
<1>2. \A q \in Pass : pass'[q] = IF q = p THEN row ELSE pass[q]
  BY <1>1, Types
<1>3. \A m \in Candidates : message[m].attempts < MaxAttempts
  BY BoundAssumption DEF Candidates, TriesInv
<1>4. \A m \in Message : m \notin Candidates => Holders(m)' \subseteq Holders(m)
  BY <1>1, <1>2 DEF Holders
<1>. QED
  BY <1>1, <1>3, <1>4 DEF Counted, QueuedAfresh, Is

\* A send makes up its row's tries only with the record of it.
LEMMA QuietTries ==
  ASSUME TypeOK, NEW p \in Pass, Send(p) \/ CrashPass(p)
  PROVE  \A m \in Message : Counted(m) /\ QueuedAfresh(m)
<1>1. PICK row : /\ pass' = [pass EXCEPT ![p] = row] /\ message' = message
                 /\ row.todo \subseteq pass[p].todo
  <2>1. CASE Send(p)
    <3>1. PICK answer : pass' = [pass EXCEPT ![p].heard = answer] /\ message' = message
      BY <2>1 DEF Send
    <3>2. [pass[p] EXCEPT !.heard = answer].todo = pass[p].todo
      BY Types DEF PassRow
    <3>. QED
      BY <3>1, <3>2
  <2>2. CASE CrashPass(p)
    BY <2>2, IdleType DEF CrashPass
  <2>. QED
    BY <2>1, <2>2
<1>2. \A q \in Pass : pass'[q] = IF q = p THEN row ELSE pass[q]
  BY <1>1, Types
<1>3. \A m \in Message : Holders(m)' \subseteq Holders(m)
  BY <1>1, <1>2 DEF Holders
<1>. QED
  BY <1>1, <1>3, NoTries

\* The others add no try; a row they make QUEUED starts afresh.
LEMMA OtherTries ==
  ASSUME TypeOK, UNCHANGED pass,
         \A m \in Message :
           \/ message'[m].attempts = 0
           \/ /\ message'[m].attempts = message[m].attempts
              /\ message'[m].status = "QUEUED" => Is(m, "QUEUED")
  PROVE  \A m \in Message : Counted(m) /\ QueuedAfresh(m)
<1>1. \A m : Holders(m)' \subseteq Holders(m)
  BY DEF Holders
<1>. QED
  BY <1>1, BoundAssumption DEF Counted, QueuedAfresh

\* Every step keeps the bound.
LEMMA NextTries ==
  ASSUME IInv, TriesInv, [Next]_vars
  PROVE  TriesInv'
<1>1. TypeOK /\ TypeOK' /\ message \in [Message -> Entry] /\ message' \in [Message -> Entry]
  BY NextIInv, Types, NextRows DEF IInv, Rows
<1>2. ASSUME NEW p \in Pass, PassNext(p) \/ RowFails(p) \/ CrashPass(p) PROVE TriesInv'
  <2>1. pass[p].heard \in Heard => pass[p].todo # {}
    BY DEF IInv, PassInv
  <2>. QED
    BY <1>1, <1>2, <2>1, PassTries, ScanTries, QuietTries, CountedKeeps DEF PassNext
<1>3. (\A to : New(to).attempts = 0) /\ Absent.attempts = 0
      /\ [Absent EXCEPT !.status = "PURGED"].attempts = 0
  BY DEF New, Absent
<1>4. ASSUME NEW m \in Message,
             Enqueue(m) \/ Create(m) \/ BackoffOver(m) \/ OutboundSend(m) \/ OutboundRecord(m)
               \/ OutboundDies(m)
      PROVE  TriesInv'
  <2>1. CASE Enqueue(m) \/ Create(m)
    <3>1. PICK to : message' = [message EXCEPT ![m] = New(to)] /\ UNCHANGED pass
      BY <2>1 DEF Enqueue, Create
    <3>. QED
      BY <1>1, <1>3, <3>1, OtherTries, CountedKeeps DEF Is
  <2>2. CASE BackoffOver(m)
    <3>1. message' = [message EXCEPT ![m].retry = "past"] /\ UNCHANGED pass
      BY <2>2 DEF BackoffOver
    <3>2. \A n \in Message : message'[n].attempts = message[n].attempts
                             /\ message'[n].status = message[n].status
      BY <1>1, <3>1 DEF Entry
    <3>. QED
      BY <1>1, <3>1, <3>2, OtherTries, CountedKeeps DEF Is
  <2>3. CASE OutboundRecord(m)
    <3>1. PICK status \in {"SENT", "FAILED"} :
            message' = message \/ message' = [message EXCEPT ![m].status = status]
      BY <2>3 DEF OutboundRecord
    <3>2. UNCHANGED pass
      BY <2>3 DEF OutboundRecord
    <3>3. \A n \in Message : message'[n].attempts = message[n].attempts
                             /\ message'[n].status \in {message[n].status, status}
      BY <1>1, <3>1 DEF Entry
    <3>. QED
      BY <1>1, <3>2, <3>3, OtherTries, CountedKeeps DEF Is
  <2>4. CASE OutboundSend(m) \/ OutboundDies(m)
    <3>1. UNCHANGED <<message, pass>>
      BY <2>4 DEF OutboundSend, OutboundDies
    <3>. QED
      BY <1>1, <3>1, OtherTries, CountedKeeps DEF Is
  <2>. QED
    BY <1>4, <2>1, <2>2, <2>3, <2>4
<1>5. CASE UNCHANGED vars \/ DigestRead \/ DigestFails
  <2>1. UNCHANGED <<message, pass>>
    BY <1>5 DEF vars, DigestRead, DigestFails
  <2>. QED
    BY <1>1, <2>1, OtherTries, CountedKeeps DEF Is
<1>6. CASE DigestWrite
  <2>1. PICK d \in Message :
          message' = [m \in Message |->
            IF m = d THEN New("user")
            ELSE IF m \in Marked THEN [message[m] EXCEPT !.status = "SENT"] ELSE message[m]]
    BY <1>6 DEF DigestWrite
  <2>2. \A m \in Message : /\ [message[m] EXCEPT !.status = "SENT"].attempts = message[m].attempts
                           /\ [message[m] EXCEPT !.status = "SENT"].status = "SENT"
    BY <1>1 DEF Entry
  <2>3. UNCHANGED pass
    BY <1>6 DEF DigestWrite
  <2>. QED
    BY <1>1, <1>3, <2>1, <2>2, <2>3, OtherTries, CountedKeeps DEF Is
<1>7. CASE Requeue
  <2>1. PICK ms \in SUBSET Message :
          message' = [m \in Message |->
            IF m \in ms THEN [message[m] EXCEPT !.status = "QUEUED", !.attempts = 0,
                                                !.retry = "null"]
                        ELSE message[m]]
    BY <1>7 DEF Requeue
  <2>2. \A m \in Message : [message[m] EXCEPT !.status = "QUEUED", !.attempts = 0,
                                              !.retry = "null"].attempts = 0
    BY <1>1 DEF Entry
  <2>3. UNCHANGED pass
    BY <1>7 DEF Requeue
  <2>. QED
    BY <1>1, <2>1, <2>2, <2>3, OtherTries, CountedKeeps DEF Is
<1>8. CASE Cleanup
  <2>1. PICK ms : message' = [m \in Message |-> IF m \in ms THEN [Absent EXCEPT !.status = "PURGED"]
                                                           ELSE message[m]]
    BY <1>8 DEF Cleanup
  <2>2. UNCHANGED pass
    BY <1>8 DEF Cleanup
  <2>. QED
    BY <1>1, <1>3, <2>1, <2>2, OtherTries, CountedKeeps DEF Is
<1>. QED
  BY <1>2, <1>4, <1>5, <1>6, <1>7, <1>8 DEF Next

\* Nothing has been tried.
LEMMA InitTries == Init => TriesInv
<1>. SUFFICES ASSUME Init PROVE TriesInv
  OBVIOUS
<1>1. \A m \in Message : Holders(m) = {} /\ message[m].attempts = 0
  BY IdleType DEF Init, Holders, Absent
<1>. QED
  BY <1>1, HoldersFinite, FS_EmptySet, BoundAssumption DEF TriesInv
---------------------------------------------------------------------------
\* The table and what the passes, the requests and the digest hold stay well formed
\* (modules/comms/service.ts, jobs/commsDispatcher.ts, jobs/commsDigest.ts).
THEOREM TypeCorrect == Spec => []TypeOK
  BY Invariant, PTL DEF IInv

\* A row says SENT only if somebody has the message, with any number of passes.
THEOREM SentWasTaken == Spec => []SentIsTaken
  BY Invariant, PTL DEF IInv

\* Beyond MaxAttempts a row gets at most one try for each pass but one, however many
\* overlap: the count is looked at when rows are selected and not again.
THEOREM AttemptsCapped == Spec => []AttemptsBounded
<1>1. IInv /\ TriesInv => AttemptsBounded
  <2>. SUFFICES ASSUME IInv, TriesInv, NEW m \in Message
               PROVE  message[m].attempts < MaxAttempts + Cardinality(Pass)
    BY DEF AttemptsBounded
  <2>1. message[m].attempts \in Nat
    BY Types DEF IInv, Entry
  <2>2. message[m].attempts + Cardinality(Holders(m)) < MaxAttempts + Cardinality(Pass)
    BY DEF TriesInv
  <2>. QED
    BY <2>1, <2>2, HoldersFinite, BoundAssumption
<1>2. Init => IInv /\ TriesInv
  BY InitIInv, InitTries
<1>3. IInv /\ TriesInv /\ [Next]_vars => (IInv /\ TriesInv)'
  BY NextIInv, NextTries
<1>. QED
  BY <1>1, <1>2, <1>3, PTL DEF Spec

\* Each step of the table is a step of the abstract outbox or leaves it alone: the
\* safety half of OutboxKept.
THEOREM TableKeepsPromise == Spec => Promise!Init /\ [][Promise!Next]_Boxes
<1>1. Init => Promise!Init
  <2>1. ASSUME Init, NEW m \in Message PROVE Box(m) = "none"
    BY <2>1 DEF Init, Absent, Box, Is
  <2>. QED
    BY <2>1 DEF Promise!Init
<1>2. IInv /\ [Next]_vars => [Promise!Next]_Boxes
  <2>. SUFFICES ASSUME IInv, [Next]_vars PROVE [Promise!Next]_Boxes
    OBVIOUS
  <2>1. CASE UNCHANGED message
    BY <2>1, SameBoxes
  <2>. QED
    BY <2>1, NextSteps, OneRowKeepsPromise, DigestKeepsPromise, RequeueKeepsPromise,
       CleanupKeepsPromise DEF IInv
<1>. QED
  BY <1>1, <1>2, Invariant, PTL DEF Spec
=============================================================================
