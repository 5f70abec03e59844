--------------------------- MODULE RemindersProofs ---------------------------
(***************************************************************************)
(* Reminders for any number of rows, passes and people.                    *)
(***************************************************************************)
EXTENDS Reminders, TLAPS

Entry == [status : Status \union {"NONE"}, source : Source \union {Manual},
          at : Slot \union {0}, deleted : BOOLEAN]

\* A pass holds rows of the table, and an answer is about one; a snooze has a day.
HeldInv ==
  /\ \A w \in Pass : \A r \in batch[w] : Exists(r)
  /\ \A u \in User : request[u] # NoRequest =>
       /\ request[u].row \in Row /\ Exists(request[u].row)
       /\ request[u].op \in DOMAIN Target
       /\ request[u].op = "snooze" => request[u].until \in Slot

\* An answer takes a row out of PENDING, and nothing brings it back.
AnsweredInv == \A r \in Row : answered[r] => reminder[r].status \notin {"NONE", "PENDING"}

\* A row that is not in the table yet has made no message.
UnmailedInv == \A r \in Row : reminder[r].status = "NONE" => mails[r] = 0

IInv == TypeOK /\ HeldInv /\ AnsweredInv /\ UnmailedInv /\ OneMailPerReminder
---------------------------------------------------------------------------
(* What a step may do to one row.                                          *)

Inserted(r) ==
  /\ reminder[r].status = "NONE" /\ reminder'[r].status = "PENDING"
  /\ mails'[r] = mails[r] /\ answered'[r] = answered[r]

Mailed(r) ==
  /\ reminder[r].status = "PENDING" /\ reminder'[r].status = "SENT"
  /\ reminder'[r].source = reminder[r].source
  /\ mails'[r] = mails[r] + 1 \/ (reminder[r].source = Manual /\ mails'[r] = mails[r])
  /\ answered'[r] = answered[r]

Replied(r) ==
  /\ reminder[r].status # "NONE"
  /\ reminder'[r].status \in {"ACKNOWLEDGED", "SNOOZED", "DISMISSED"}
  /\ mails'[r] = mails[r] /\ answered'[r] = TRUE

Kept(r) ==
  /\ reminder'[r].status = reminder[r].status /\ reminder'[r].source = reminder[r].source
  /\ mails'[r] = mails[r] /\ answered'[r] = answered[r]

RowStep ==
  /\ reminder' \in [Row -> Entry] /\ mails' \in [Row -> Nat] /\ answered' \in [Row -> BOOLEAN]
  /\ \A r \in Row : reminder'[r].status # "NONE" => reminder'[r].at \in Slot
  /\ \A r \in Row : Inserted(r) \/ Mailed(r) \/ Replied(r) \/ Kept(r)

LEMMA TargetType ==
  /\ DOMAIN Target = {"acknowledge", "snooze", "dismiss"}
  /\ \A op \in DOMAIN Target : Target[op] \in {"ACKNOWLEDGED", "SNOOZED", "DISMISSED"}
  BY DEF Target

LEMMA Types ==
  TypeOK => /\ reminder \in [Row -> Entry] /\ mails \in [Row -> Nat]
            /\ answered \in [Row -> BOOLEAN]
            /\ \A r \in Row : reminder[r].status # "NONE" => reminder[r].at \in Slot
  BY DEF TypeOK, Entry, Exists

\* The rest of the table is as it was.
LEMMA OneRow ==
  ASSUME TypeOK, NEW r \in Row, NEW new \in Entry, reminder' = [reminder EXCEPT ![r] = new],
         new.status # "NONE" => new.at \in Slot,
         NEW n \in Nat, mails' = [mails EXCEPT ![r] = n],
         NEW b \in BOOLEAN, answered' = [answered EXCEPT ![r] = b],
         Inserted(r) \/ Mailed(r) \/ Replied(r) \/ Kept(r)
  PROVE  RowStep
<1>1. reminder' \in [Row -> Entry] /\ mails' \in [Row -> Nat] /\ answered' \in [Row -> BOOLEAN]
  BY Types
<1>2. \A q \in Row \ {r} : /\ reminder'[q] = reminder[q] /\ mails'[q] = mails[q]
                           /\ answered'[q] = answered[q]
  BY Types
<1>3. reminder'[r] = new
  BY Types
<1>. QED
  BY <1>1, <1>2, <1>3, Types DEF RowStep, Kept

LEMMA NoRow ==
  ASSUME TypeOK, UNCHANGED <<reminder, mails, answered>>
  PROVE  RowStep
  BY Types DEF RowStep, Kept

LEMMA InsertSteps ==
  ASSUME TypeOK, NEW s \in Source \union {Manual}, NEW t \in Slot, Insert(s, t)
  PROVE  RowStep
<1>. DEFINE new == [status |-> "PENDING", source |-> s, at |-> t, deleted |-> FALSE]
<1>1. PICK r \in Row : ~Exists(r) /\ reminder' = [reminder EXCEPT ![r] = new]
                       /\ UNCHANGED <<mails, answered>>
  BY DEF Insert
<1>2. new \in Entry /\ new.at \in Slot /\ new.status = "PENDING"
  BY DEF Entry, Status
<1>. HIDE DEF new
<1>3. mails' = [mails EXCEPT ![r] = mails[r]] /\ answered' = [answered EXCEPT ![r] = answered[r]]
      /\ mails[r] \in Nat /\ answered[r] \in BOOLEAN
  BY <1>1, Types
<1>4. Inserted(r)
  BY <1>1, <1>2, Types DEF Inserted, Exists
<1>. QED
  BY <1>1, <1>2, <1>3, <1>4, OneRow

LEMMA DispatchSteps ==
  ASSUME TypeOK, NEW w \in Pass, Dispatch(w)
  PROVE  RowStep
<1>1. PICK r \in batch[w] :
        /\ \/ /\ Claimed(r)
              /\ reminder' = [reminder EXCEPT ![r].status = "SENT"]
              /\ \/ mails' = [mails EXCEPT ![r] = @ + 1]
                 \/ reminder[r].source = Manual /\ UNCHANGED mails
           \/ ~Claimed(r) /\ UNCHANGED <<reminder, mails>>
        /\ UNCHANGED answered
  BY DEF Dispatch
<1>2. r \in Row
  BY DEF TypeOK
<1>3. CASE Claimed(r)
  <2>. DEFINE new == [reminder[r] EXCEPT !.status = "SENT"]
  <2>1. reminder' = [reminder EXCEPT ![r] = new]
    BY <1>1, <1>3
  <2>2. reminder[r] \in Entry /\ reminder[r].at \in Slot
    BY <1>2, <1>3, Types DEF Claimed
  <2>3. new \in Entry /\ new.at \in Slot /\ new.status = "SENT" /\ new.source = reminder[r].source
    BY <2>2 DEF Entry, Status
  <2>. HIDE DEF new
  <2>4. reminder'[r] = new
    BY <1>2, <2>1, Types
  <2>5. PICK n \in Nat : /\ mails' = [mails EXCEPT ![r] = n]
                         /\ n = mails[r] + 1 \/ (reminder[r].source = Manual /\ n = mails[r])
    <3>1. mails[r] \in Nat /\ mails[r] + 1 \in Nat
      BY <1>2, Types
    <3>2. mails = [mails EXCEPT ![r] = mails[r]]
      BY <1>2, Types
    <3>. QED
      BY <1>1, <1>3, <3>1, <3>2
  <2>6. mails'[r] = n
    BY <1>2, <2>5, Types
  <2>7. answered' = [answered EXCEPT ![r] = answered[r]] /\ answered[r] \in BOOLEAN
    BY <1>1, <1>2, Types
  <2>8. Mailed(r)
    BY <1>1, <1>2, <1>3, <2>3, <2>4, <2>5, <2>6 DEF Mailed, Claimed
  <2>. QED
    BY <1>2, <2>1, <2>3, <2>5, <2>7, <2>8, OneRow
<1>4. CASE ~Claimed(r)
  BY <1>1, <1>4, NoRow
<1>. QED
  BY <1>3, <1>4

LEMMA AnswerSteps ==
  ASSUME TypeOK, HeldInv, NEW u \in User, Answer(u)
  PROVE  RowStep
<1>1. PICK r : r = request[u].row
  OBVIOUS
<1>2. PICK op : op = request[u].op
  OBVIOUS
<1>3. PICK t : t = request[u].until
  OBVIOUS
<1>4. /\ r \in Row /\ Exists(r) /\ op \in DOMAIN Target
      /\ op = "snooze" => t \in Slot
  BY <1>1, <1>2, <1>3 DEF HeldInv, Answer
<1>5. PICK new : new = Written(reminder[r], op, t)
  OBVIOUS
<1>6. /\ UNCHANGED mails
      /\ \/ UNCHANGED <<reminder, answered>>
         \/ /\ reminder' = [reminder EXCEPT ![r] = new]
            /\ answered' = [answered EXCEPT ![r] = TRUE]
  BY <1>1, <1>2, <1>3, <1>5 DEF Answer
<1>7. reminder[r] \in Entry /\ reminder[r].at \in Slot
  BY <1>4, Types DEF Exists
<1>8. new \in Entry /\ new.at \in Slot /\ new.status \in {"ACKNOWLEDGED", "SNOOZED", "DISMISSED"}
  BY <1>4, <1>5, <1>7, TargetType DEF Written, Entry, Status
<1>9. CASE reminder' = [reminder EXCEPT ![r] = new] /\ answered' = [answered EXCEPT ![r] = TRUE]
  <2>1. mails' = [mails EXCEPT ![r] = mails[r]] /\ mails[r] \in Nat
    BY <1>4, <1>6, Types
  <2>2. Replied(r)
    BY <1>4, <1>8, <1>9, <1>6, Types DEF Replied, Exists
  <2>. QED
    BY <1>4, <1>8, <1>9, <2>1, <2>2, OneRow
<1>. QED
  BY <1>6, <1>9, NoRow

LEMMA EditSteps ==
  ASSUME TypeOK, NEW r \in Row,
         Remove(r) \/ \E t \in Slot : Reschedule(r, t)
  PROVE  RowStep
<1>1. reminder[r] \in Entry /\ mails[r] \in Nat /\ answered[r] \in BOOLEAN
      /\ (reminder[r].status # "NONE" => reminder[r].at \in Slot)
  BY Types
<1>2. PICK new \in Entry : /\ reminder' = [reminder EXCEPT ![r] = new]
                           /\ new.status = reminder[r].status /\ new.source = reminder[r].source
                           /\ new.at \in Slot \union {reminder[r].at}
  <2>1. CASE Remove(r)
    <3>1. PICK new : new = [reminder[r] EXCEPT !.deleted = TRUE]
      OBVIOUS
    <3>2. new \in Entry /\ new.status = reminder[r].status /\ new.source = reminder[r].source
          /\ new.at = reminder[r].at
      BY <1>1, <3>1 DEF Entry
    <3>3. reminder' = [reminder EXCEPT ![r] = new]
      BY <2>1, <3>1 DEF Remove
    <3>. QED
      BY <3>2, <3>3
  <2>2. ASSUME NEW t \in Slot, Reschedule(r, t)
        PROVE  \E new \in Entry : /\ reminder' = [reminder EXCEPT ![r] = new]
                           /\ new.status = reminder[r].status /\ new.source = reminder[r].source
                           /\ new.at \in Slot \union {reminder[r].at}
    <3>1. PICK new : new = [reminder[r] EXCEPT !.at = t]
      OBVIOUS
    <3>2. new \in Entry /\ new.status = reminder[r].status /\ new.source = reminder[r].source
          /\ new.at = t
      BY <1>1, <3>1 DEF Entry
    <3>3. reminder' = [reminder EXCEPT ![r] = new]
      BY <2>2, <3>1 DEF Reschedule
    <3>. QED
      BY <3>2, <3>3
  <2>. QED
    BY <2>1, <2>2
<1>3. mails' = [mails EXCEPT ![r] = mails[r]] /\ answered' = [answered EXCEPT ![r] = answered[r]]
  BY Types DEF Remove, Reschedule
<1>4. reminder'[r] = new /\ mails'[r] = mails[r] /\ answered'[r] = answered[r]
  BY <1>2, <1>3, Types
<1>5. Kept(r)
  BY <1>2, <1>4 DEF Kept
<1>6. new.status # "NONE" => new.at \in Slot
  BY <1>1, <1>2
<1>. QED
  BY <1>1, <1>2, <1>3, <1>5, <1>6, OneRow

LEMMA DismissSteps ==
  ASSUME TypeOK, NEW s \in Source, AutoDismiss(s)
  PROVE  RowStep
<1>. DEFINE open == {r \in Row : reminder[r].source = s /\ reminder[r].status \in Open}
<1>1. /\ reminder' = [r \in Row |-> IF r \in open THEN [reminder[r] EXCEPT !.status = "DISMISSED"]
                                                   ELSE reminder[r]]
      /\ answered' = [r \in Row |-> answered[r] \/ r \in open]
      /\ mails' = mails
  BY DEF AutoDismiss
<1>. HIDE DEF open
<1>2. ASSUME NEW r \in Row
      PROVE  /\ reminder'[r] \in Entry /\ answered'[r] \in BOOLEAN
             /\ reminder'[r].status # "NONE" => reminder'[r].at \in Slot
             /\ Replied(r) \/ Kept(r)
  <2>1. reminder[r] \in Entry /\ answered[r] \in BOOLEAN
        /\ (reminder[r].status # "NONE" => reminder[r].at \in Slot)
    BY Types
  <2>2. CASE r \in open
    <3>1. reminder'[r] = [reminder[r] EXCEPT !.status = "DISMISSED"] /\ answered'[r] = TRUE
      BY <1>1, <2>2
    <3>2. reminder[r].status \in Open
      BY <2>2 DEF open
    <3>3. reminder'[r] \in Entry /\ reminder'[r].status = "DISMISSED"
          /\ reminder'[r].at = reminder[r].at
      BY <2>1, <3>1 DEF Entry, Status
    <3>. QED
      BY <1>1, <2>1, <3>1, <3>2, <3>3 DEF Replied, Open
  <2>3. CASE r \notin open
    <3>1. reminder'[r] = reminder[r] /\ answered'[r] = answered[r]
      BY <1>1, <2>1, <2>3
    <3>. QED
      BY <1>1, <2>1, <3>1 DEF Kept
  <2>. QED
    BY <2>2, <2>3
<1>3. reminder' \in [Row -> Entry] /\ answered' \in [Row -> BOOLEAN] /\ mails' \in [Row -> Nat]
  BY <1>1, <1>2, Types
<1>. QED
  BY <1>2, <1>3 DEF RowStep

LEMMA NextRowStep == TypeOK /\ HeldInv /\ [Next]_vars => RowStep
<1>. SUFFICES ASSUME TypeOK, HeldInv, [Next]_vars PROVE RowStep
  OBVIOUS
<1>1. CASE \E s \in Source, t \in Slot : ScanInsert(s, t)
  BY <1>1, InsertSteps DEF ScanInsert
<1>2. CASE \E t \in Slot : Create(t)
  BY <1>2, InsertSteps DEF Create
<1>3. CASE \E w \in Pass : Pick(w) \/ DispatchFails(w) \/ CrashPass(w)
  BY <1>3, NoRow DEF Pick, DispatchFails, CrashPass
<1>4. CASE \E w \in Pass : Dispatch(w)
  BY <1>4, DispatchSteps
<1>5. CASE \E u \in User, r \in Row, t \in Slot \union {0}, op \in DOMAIN Target : Ask(u, op, r, t)
  BY <1>5, NoRow DEF Ask
<1>6. CASE \E u \in User : Answer(u)
  BY <1>6, AnswerSteps
<1>7. CASE \E r \in Row : Remove(r) \/ \E t \in Slot : Reschedule(r, t)
  BY <1>7, EditSteps
<1>8. CASE \E s \in Source : AutoDismiss(s)
  BY <1>8, DismissSteps
<1>9. CASE Tomorrow \/ UNCHANGED vars
  BY <1>9, NoRow DEF Tomorrow, vars
<1>. QED
  BY <1>1, <1>2, <1>3, <1>4, <1>5, <1>6, <1>7, <1>8, <1>9 DEF Next
---------------------------------------------------------------------------
(* The invariant.                                                          *)

LEMMA InitIInv == Init => IInv
<1>. SUFFICES ASSUME Init PROVE IInv
  OBVIOUS
<1>1. Absent \in Entry /\ Absent.status = "NONE"
  BY DEF Absent, Entry
<1>2. \A r \in Row : reminder[r] = Absent /\ mails[r] = 0 /\ answered[r] = FALSE
  BY DEF Init
<1>3. NoRequest \in [op : DOMAIN Target \union {"none"}, row : Row \union {0},
                     until : Slot \union {0}]
  BY DEF NoRequest
<1>4. TypeOK
  BY <1>1, <1>2, <1>3, SlotAssumption, BoundAssumption DEF TypeOK, Init, Entry, Exists
<1>. QED
  BY <1>1, <1>2, <1>4 DEF IInv, HeldInv, AnsweredInv, UnmailedInv, OneMailPerReminder, Init

\* What is in the table stays there.
LEMMA ExistsStays ==
  ASSUME RowStep, NEW r \in Row, Exists(r)
  PROVE  reminder'[r].status # "NONE"
  BY DEF RowStep, Inserted, Mailed, Replied, Kept, Exists

LEMMA NextHolders ==
  ASSUME TypeOK, HeldInv, RowStep, [Next]_vars
  PROVE  /\ today' \in 0..LastDay /\ faults' \in 0..MaxFaults
         /\ batch' \in [Pass -> SUBSET Row]
         /\ request' \in [User -> [op : DOMAIN Target \union {"none"}, row : Row \union {0},
                                   until : Slot \union {0}]]
         /\ HeldInv'
<1>. DEFINE Answered == [op : DOMAIN Target \union {"none"}, row : Row \union {0},
                         until : Slot \union {0}]
            Fine == /\ today' \in 0..LastDay /\ faults' \in 0..MaxFaults
                    /\ batch' \in [Pass -> SUBSET Row] /\ request' \in [User -> Answered]
                    /\ HeldInv'
<1>1. NoRequest \in Answered
  BY DEF NoRequest
<1>2. ASSUME UNCHANGED <<batch, request>> PROVE HeldInv'
  BY <1>2, ExistsStays DEF HeldInv, Exists, TypeOK
<1>3. ASSUME NEW w \in Pass, NEW rows \in SUBSET Row, \A r \in rows : Exists(r),
             batch' = [batch EXCEPT ![w] = rows], UNCHANGED request
      PROVE  batch' \in [Pass -> SUBSET Row] /\ HeldInv'
  BY <1>3, ExistsStays DEF HeldInv, Exists, TypeOK
<1>4. ASSUME NEW u \in User, NEW a \in Answered, request' = [request EXCEPT ![u] = a],
             UNCHANGED batch,
             a # NoRequest =>
               /\ a.row \in Row /\ Exists(a.row) /\ a.op \in DOMAIN Target
               /\ a.op = "snooze" => a.until \in Slot
      PROVE  request' \in [User -> Answered] /\ HeldInv'
  <2>1. request' \in [User -> Answered] /\ request'[u] = a
        /\ \A v \in User \ {u} : request'[v] = request[v]
    BY <1>4 DEF TypeOK
  <2>2. \A w \in Pass : \A r \in batch'[w] : Exists(r)'
    BY <1>4, ExistsStays DEF HeldInv, Exists, TypeOK
  <2>3. ASSUME NEW v \in User, request'[v] # NoRequest
        PROVE  /\ request'[v].row \in Row /\ Exists(request'[v].row)
               /\ request'[v].op \in DOMAIN Target
               /\ request'[v].op = "snooze" => request'[v].until \in Slot
    <3>1. CASE v = u
      BY <1>4, <2>1, <2>3, <3>1
    <3>2. CASE v # u
      BY <2>1, <2>3, <3>2 DEF HeldInv
    <3>. QED
      BY <3>1, <3>2
  <2>4. ASSUME NEW v \in User, request'[v] # NoRequest
        PROVE  reminder'[request'[v].row].status # "NONE"
    BY <2>3, <2>4, ExistsStays
  <2>5. /\ \A w \in Pass : \A r \in batch'[w] : reminder'[r].status # "NONE"
        /\ NoRequest' = NoRequest
    BY <2>2 DEF Exists, NoRequest
  <2>. QED
    BY <2>1, <2>3, <2>4, <2>5 DEF HeldInv, Exists
<1>5. ASSUME NEW w \in Pass, Pick(w) PROVE Fine
  <2>. DEFINE picked == {r \in Candidates :
                           Cardinality({q \in Candidates : Before(q, r)}) < BatchLimit}
  <2>2. batch' = [batch EXCEPT ![w] = picked]
    BY <1>5 DEF Pick
  <2>3. picked \in SUBSET Row /\ \A r \in Candidates : Exists(r)
    BY DEF Candidates, IsDue, Waiting, Exists
  <2>4. picked \subseteq Candidates
    OBVIOUS
  <2>. HIDE DEF picked
  <2>1. PICK rows \in SUBSET Row : batch' = [batch EXCEPT ![w] = rows]
                                   /\ \A r \in rows : Exists(r)
    BY <2>2, <2>3, <2>4
  <2>. QED
    BY <1>3, <1>5, <2>1 DEF Pick, TypeOK
<1>6. ASSUME NEW w \in Pass, Dispatch(w) \/ DispatchFails(w) PROVE Fine
  <2>1. PICK r : batch' = [batch EXCEPT ![w] = batch[w] \ {r}]
    BY <1>6 DEF Dispatch, DispatchFails
  <2>2. batch[w] \ {r} \in SUBSET Row /\ \A q \in batch[w] \ {r} : Exists(q)
    BY DEF HeldInv, TypeOK
  <2>3. faults' \in 0..MaxFaults
    BY <1>6, BoundAssumption DEF Dispatch, DispatchFails, TypeOK
  <2>4. UNCHANGED <<today, request>>
    BY <1>6 DEF Dispatch, DispatchFails
  <2>. QED
    BY <1>3, <2>1, <2>2, <2>3, <2>4 DEF TypeOK
<1>7. ASSUME NEW w \in Pass, CrashPass(w) PROVE Fine
  <2>1. batch' = [batch EXCEPT ![w] = {}] /\ UNCHANGED <<today, request>>
    BY <1>7 DEF CrashPass
  <2>2. faults' \in 0..MaxFaults
    BY <1>7, BoundAssumption DEF CrashPass, TypeOK
  <2>3. {} \in SUBSET Row /\ \A q \in {} : Exists(q)
    OBVIOUS
  <2>. QED
    BY <1>3, <2>1, <2>2, <2>3 DEF TypeOK
<1>8. ASSUME NEW u \in User, NEW r \in Row, NEW t \in Slot \union {0}, NEW op \in DOMAIN Target,
             Ask(u, op, r, t)
      PROVE  Fine
  <2>. DEFINE a == [op |-> op, row |-> r, until |-> t]
  <2>1. a \in Answered /\ a.row = r /\ a.op = op /\ a.until = t
    OBVIOUS
  <2>2. request' = [request EXCEPT ![u] = a] /\ UNCHANGED <<today, batch, faults>> /\ Exists(r)
    BY <1>8 DEF Ask
  <2>3. op = "snooze" => t \in Slot
    BY <1>8 DEF Ask, TypeOK
  <2>. HIDE DEF a
  <2>. QED
    BY <1>4, <2>1, <2>2, <2>3 DEF TypeOK
<1>9. ASSUME NEW u \in User, Answer(u) PROVE Fine
  <2>1. request' = [request EXCEPT ![u] = NoRequest] /\ UNCHANGED <<today, batch, faults>>
    BY <1>9 DEF Answer
  <2>. QED
    BY <1>1, <1>4, <2>1 DEF TypeOK
<1>10. CASE UNCHANGED <<batch, request, faults>> /\ (UNCHANGED today \/ Tomorrow)
  BY <1>2, <1>10, SlotAssumption DEF TypeOK, Tomorrow
<1>. QED
  BY <1>5, <1>6, <1>7, <1>8, <1>9, <1>10
     DEF Next, vars, ScanInsert, Create, Insert, Reschedule, Remove, AutoDismiss, Tomorrow

LEMMA NextIInv == IInv /\ [Next]_vars => IInv'
<1>. SUFFICES ASSUME IInv, [Next]_vars PROVE IInv'
  OBVIOUS
<1>. USE DEF IInv
<1>1. RowStep
  BY NextRowStep
<1>2. TypeOK' /\ HeldInv'
  BY <1>1, NextHolders DEF TypeOK, RowStep, Entry, Exists
<1>3. ASSUME NEW r \in Row
      PROVE  /\ mails[r] \in Nat /\ mails'[r] \in Nat /\ answered[r] \in BOOLEAN
             /\ reminder[r].status \in Status \union {"NONE"}
             /\ reminder'[r].status \in Status \union {"NONE"}
  BY <1>1, Types DEF RowStep, Entry
<1>4. AnsweredInv'
  BY <1>1, <1>3 DEF AnsweredInv, RowStep, Inserted, Mailed, Replied, Kept
<1>5. UnmailedInv'
  BY <1>1, <1>3 DEF UnmailedInv, RowStep, Inserted, Mailed, Replied, Kept
<1>6. OneMailPerReminder'
  <2>. SUFFICES ASSUME NEW r \in Row
                PROVE  /\ mails'[r] <= 1
                       /\ mails'[r] = 1 => reminder'[r].status \in Status \ {"PENDING"}
                       /\ reminder'[r].status = "SENT" /\ reminder'[r].source # Manual =>
                            mails'[r] = 1
    BY DEF OneMailPerReminder
  <2>1. /\ mails[r] <= 1
        /\ mails[r] = 1 => reminder[r].status \in Status \ {"PENDING"}
        /\ reminder[r].status = "SENT" /\ reminder[r].source # Manual => mails[r] = 1
        /\ reminder[r].status = "NONE" => mails[r] = 0
    BY DEF OneMailPerReminder, UnmailedInv
  <2>2. CASE Inserted(r)
    BY <2>1, <2>2 DEF Inserted
  <2>3. CASE Mailed(r)
    BY <1>3, <2>1, <2>3 DEF Mailed, Status
  <2>4. CASE Replied(r)
    BY <1>3, <2>1, <2>4 DEF Replied, Status
  <2>5. CASE Kept(r)
    BY <2>1, <2>5 DEF Kept
  <2>. QED
    BY <1>1, <2>2, <2>3, <2>4, <2>5 DEF RowStep
<1>. QED
  BY <1>2, <1>4, <1>5, <1>6

LEMMA Invariant == Spec => []IInv
  BY InitIInv, NextIInv, PTL DEF Spec
---------------------------------------------------------------------------
\* The table, the passes and the answers in flight stay well formed
\* (modules/reminders/service.ts, jobs/reminderDispatcher.ts).
THEOREM TypeCorrect == Spec => []TypeOK
  BY Invariant, PTL DEF IInv

\* A reminder makes at most one round of messages, with any number of passes.
THEOREM MailedOnce == Spec => []OneMailPerReminder
  BY Invariant, PTL DEF IInv

\* Nothing is mailed for a row that has been answered, whatever a pass still holds:
\* the claim of the dispatcher takes PENDING rows, and an answer ends that for good.
THEOREM AnsweredIsQuiet == Spec => QuietAfterAnswer
<1>1. ASSUME IInv, [Next]_vars, NEW r \in Row, mails'[r] > mails[r]
      PROVE  ~answered[r]
  <2>1. RowStep
    BY <1>1, NextRowStep DEF IInv
  <2>2. mails[r] \in Nat
    BY <1>1, Types DEF IInv
  <2>3. Mailed(r)
    BY <1>1, <2>1, <2>2 DEF RowStep, Inserted, Replied, Kept
  <2>. QED
    BY <1>1, <2>3 DEF IInv, AnsweredInv, Mailed
<1>2. IInv /\ [Next]_vars => [\A r \in Row : mails'[r] > mails[r] => ~answered[r]]_vars
  BY <1>1
<1>. QED
  BY <1>2, Invariant, PTL DEF Spec, QuietAfterAnswer
=============================================================================
