------------------------------- MODULE Reminders -------------------------------
(***************************************************************************)
(* The life of a reminder: the scanner offers one for every source and     *)
(* occasion, people answer it, and overlapping passes of the reminder      *)
(* dispatcher turn the due ones into messages.                             *)
(*                                                                         *)
(* A pass holds the rows its first query returned; it may be out of date   *)
(* by the time it comes to a row.  So may the answer of a user, who is     *)
(* asked for a row's status in one statement and writes it, by id alone,   *)
(* in a later one.                                                         *)
(***************************************************************************)
EXTENDS Integers, FiniteSets

CONSTANTS
  Row,         \* ids of the table, 1..n in the order of creation
  Source,      \* entities with a deadline: intakes, fees, visas, ...
  Slot,        \* days on which a source wants a reminder
  Manual,      \* what a reminder made by hand has for a source
  LastDay,     \* bound: the clock stops there
  Pass,        \* runs of the dispatcher that may overlap
  User,        \* requests in flight
  BatchLimit,
  MaxFaults    \* bound: failed transactions and crashes

ASSUME RowAssumption == Row \subseteq Nat
ASSUME SlotAssumption == Slot \subseteq Nat /\ LastDay \in Nat
ASSUME ManualAssumption == Manual \notin Source
ASSUME BoundAssumption == BatchLimit \in Nat \ {0} /\ MaxFaults \in Nat

VARIABLES
  today,
  reminder,  \* the table
  batch,     \* what each pass has still to do
  request,   \* an answer that was checked and not yet written
  mails,     \* ghost: messages made for a row
  answered,  \* ghost: somebody's answer was written
  faults

vars == <<today, reminder, batch, request, mails, answered, faults>>

Status == {"PENDING", "SENT", "SNOOZED", "ACKNOWLEDGED", "DISMISSED"}
Open == {"PENDING", "SENT", "SNOOZED"}
Absent == [status |-> "NONE", source |-> Manual, at |-> 0, deleted |-> FALSE]
NoRequest == [op |-> "none", row |-> 0, until |-> 0]

Exists(r) == reminder[r].status # "NONE"
Waiting(r) == reminder[r].status = "PENDING" /\ ~reminder[r].deleted
IsDue(r) == Waiting(r) /\ reminder[r].at <= today
---------------------------------------------------------------------------
(* Where rows come from.                                                   *)

Insert(source, t) ==
  \E r \in Row :
    /\ ~Exists(r) /\ \A q \in Row : q < r => Exists(q)
    /\ reminder' = [reminder EXCEPT ![r] =
         [status |-> "PENDING", source |-> source, at |-> t, deleted |-> FALSE]]
    /\ UNCHANGED <<today, batch, request, mails, answered, faults>>

\* One chunk of a scan: past days are not offered, and a row whose source and
\* day exist already, deleted or not, is skipped by the unique index.
ScanInsert(s, t) ==
  /\ t >= today
  /\ \A r \in Row : Exists(r) => <<reminder[r].source, reminder[r].at>> # <<s, t>>
  /\ Insert(s, t)

Create(t) == Insert(Manual, t)
---------------------------------------------------------------------------
(* A pass of the dispatcher.                                               *)

Before(q, r) == \/ reminder[q].at < reminder[r].at
                \/ reminder[q].at = reminder[r].at /\ q < r

\* Mutant: only what is scheduled for the very day of the pass.
CandidatesOfToday == {r \in Row : Waiting(r) /\ reminder[r].at = today}

Candidates == {r \in Row : IsDue(r)}

\* The oldest BatchLimit of the rows that are due.
Pick(w) ==
  LET due == Candidates
      picked == {r \in due : Cardinality({q \in due : Before(q, r)}) < BatchLimit}
  IN /\ batch[w] = {} /\ due # {}
     /\ batch' = [batch EXCEPT ![w] = picked]
     /\ UNCHANGED <<today, reminder, request, mails, answered, faults>>

\* Mutant: the claim names the row and not the status it must have.
ClaimAnyhow(r) == Exists(r)

\* UPDATE ... WHERE id = r AND status = 'PENDING'; the message is created in the
\* same transaction, if the row was still there to claim.  A row with neither a
\* student nor a link, as only people make them, is claimed and makes no message.
Claimed(r) == reminder[r].status = "PENDING"

Dispatch(w) ==
  \E r \in batch[w] :
    /\ batch' = [batch EXCEPT ![w] = @ \ {r}]
    /\ \/ /\ Claimed(r)
          /\ reminder' = [reminder EXCEPT ![r].status = "SENT"]
          /\ \/ mails' = [mails EXCEPT ![r] = @ + 1]
             \/ reminder[r].source = Manual /\ UNCHANGED mails
       \/ ~Claimed(r) /\ UNCHANGED <<reminder, mails>>
    /\ UNCHANGED <<today, request, answered, faults>>

\* The transaction of a row fails, and the row is left for the next pass.
DispatchFails(w) ==
  /\ faults < MaxFaults
  /\ \E r \in batch[w] : batch' = [batch EXCEPT ![w] = @ \ {r}]
  /\ faults' = faults + 1
  /\ UNCHANGED <<today, reminder, request, mails, answered>>

CrashPass(w) ==
  /\ faults < MaxFaults
  /\ batch[w] # {}
  /\ batch' = [batch EXCEPT ![w] = {}]
  /\ faults' = faults + 1
  /\ UNCHANGED <<today, reminder, request, mails, answered>>
---------------------------------------------------------------------------
(* Answers.                                                                *)

Target == [acknowledge |-> "ACKNOWLEDGED", snooze |-> "SNOOZED", dismiss |-> "DISMISSED"]

\* A row may also stay what it is: an answer given twice passes.
MayMove(from, to) ==
  from \in Open \/ from = to \/ (from = "ACKNOWLEDGED" /\ to = "DISMISSED")

\* The first half of a handler: read the row, test the edge.  Any day will do to
\* snooze until, a past one too.
Ask(u, op, r, t) ==
  /\ request[u] = NoRequest
  /\ Exists(r) /\ ~reminder[r].deleted
  /\ MayMove(reminder[r].status, Target[op])
  /\ IF op = "snooze" THEN t \in Slot ELSE t = 0
  /\ request' = [request EXCEPT ![u] = [op |-> op, row |-> r, until |-> t]]
  /\ UNCHANGED <<today, reminder, batch, mails, answered, faults>>

\* Mutant: every answer writes the day it does not have.
WrittenWithDay(old, op, t) == [old EXCEPT !.status = Target[op], !.at = t]

\* Mutant: snoozing puts the row back in the dispatcher's way.
WrittenPending(old, op, t) ==
  IF op = "snooze" THEN [old EXCEPT !.status = "PENDING", !.at = t]
                   ELSE [old EXCEPT !.status = Target[op]]

Written(old, op, t) ==
  IF op = "snooze" THEN [old EXCEPT !.status = "SNOOZED", !.at = t]
                   ELSE [old EXCEPT !.status = Target[op]]

\* A day that another row of the source has: the unique index rejects the write.
Clashes(r, t) ==
  \E q \in Row \ {r} : /\ Exists(q) /\ reminder[q].source # Manual
                       /\ reminder[q].source = reminder[r].source /\ reminder[q].at = t

\* The second half; a row deleted meanwhile or a clash is an error.
Answer(u) ==
  LET a == request[u] IN
    /\ a # NoRequest
    /\ request' = [request EXCEPT ![u] = NoRequest]
    /\ IF reminder[a.row].deleted \/ (a.op = "snooze" /\ Clashes(a.row, a.until))
       THEN UNCHANGED <<reminder, answered>>
       ELSE /\ reminder' = [reminder EXCEPT ![a.row] = Written(reminder[a.row], a.op, a.until)]
            /\ answered' = [answered EXCEPT ![a.row] = TRUE]
    /\ UNCHANGED <<today, batch, mails, faults>>

\* PATCH may set another day, whatever the status.
Reschedule(r, t) ==
  /\ Exists(r) /\ ~reminder[r].deleted /\ reminder[r].at # t
  /\ ~Clashes(r, t)
  /\ reminder' = [reminder EXCEPT ![r].at = t]
  /\ UNCHANGED <<today, batch, request, mails, answered, faults>>

Remove(r) ==
  /\ Exists(r) /\ ~reminder[r].deleted
  /\ reminder' = [reminder EXCEPT ![r].deleted = TRUE]
  /\ UNCHANGED <<today, batch, request, mails, answered, faults>>

\* The source is closed or deleted: its open reminders go with it.
AutoDismiss(s) ==
  LET open == {r \in Row : reminder[r].source = s /\ reminder[r].status \in Open} IN
    /\ open # {}
    /\ reminder' = [r \in Row |-> IF r \in open THEN [reminder[r] EXCEPT !.status = "DISMISSED"]
                                                ELSE reminder[r]]
    /\ answered' = [r \in Row |-> answered[r] \/ r \in open]
    /\ UNCHANGED <<today, batch, request, mails, faults>>

Tomorrow ==
  /\ today < LastDay
  /\ today' = today + 1
  /\ UNCHANGED <<reminder, batch, request, mails, answered, faults>>
---------------------------------------------------------------------------
Init ==
  /\ today = 0
  /\ reminder = [r \in Row |-> Absent]
  /\ batch = [w \in Pass |-> {}]
  /\ request = [u \in User |-> NoRequest]
  /\ mails = [r \in Row |-> 0]
  /\ answered = [r \in Row |-> FALSE]
  /\ faults = 0

Next ==
  \/ \E s \in Source, t \in Slot : ScanInsert(s, t)
  \/ \E t \in Slot : Create(t)
  \/ \E w \in Pass : Pick(w) \/ Dispatch(w) \/ DispatchFails(w) \/ CrashPass(w)
  \/ \E u \in User, r \in Row, t \in Slot \union {0} : \E op \in DOMAIN Target : Ask(u, op, r, t)
  \/ \E u \in User : Answer(u)
  \/ \E r \in Row, t \in Slot : Reschedule(r, t)
  \/ \E r \in Row : Remove(r)
  \/ \E s \in Source : AutoDismiss(s)
  \/ Tomorrow

\* The clock runs, and the scheduler starts a pass at every interval and works
\* through its rows.  Nobody has to answer, and no source has to be scanned.
Fairness ==
  /\ WF_vars(Tomorrow)
  /\ \A w \in Pass : WF_vars(Pick(w)) /\ WF_vars(Dispatch(w))

Spec == Init /\ [][Next]_vars
FairSpec == Spec /\ Fairness
---------------------------------------------------------------------------
(* Properties.                                                             *)

\* Every variable stays well formed.
TypeOK ==
  /\ today \in 0..LastDay
  /\ reminder \in [Row -> [status : Status \union {"NONE"}, source : Source \union {Manual},
                           at : Slot \union {0}, deleted : BOOLEAN]]
  /\ \A r \in Row : Exists(r) => reminder[r].at \in Slot
  /\ batch \in [Pass -> SUBSET Row]
  /\ request \in [User -> [op : DOMAIN Target \union {"none"}, row : Row \union {0},
                           until : Slot \union {0}]]
  /\ mails \in [Row -> Nat]
  /\ answered \in [Row -> BOOLEAN]
  /\ faults \in 0..MaxFaults

\* However many passes hold the same row, whatever people do to it meanwhile and
\* wherever a pass dies, a reminder makes at most one round of messages, and one
\* that was made has left PENDING for good; a SENT one that was scanned has been made.
OneMailPerReminder ==
  \A r \in Row :
    /\ mails[r] <= 1
    /\ mails[r] = 1 => reminder[r].status \in Status \ {"PENDING"}
    /\ reminder[r].status = "SENT" /\ reminder[r].source # Manual => mails[r] = 1

\* Once somebody's answer is on the row, or its source is gone, no pass that still
\* holds it turns it into a message.
QuietAfterAnswer ==
  [][\A r \in Row : mails'[r] > mails[r] => ~answered[r]]_vars

\* A reminder that is due does not stay PENDING for ever: a pass comes to it, or
\* somebody answers, deletes or reschedules it, although batches are short, rows
\* fail and passes die.
DueIsDispatched == \A r \in Row : IsDue(r) ~> ~IsDue(r)

\* jobs/reminderDispatcher.ts selects PENDING rows only, but the comment at
\* modules/reminders/service.ts:286 has snoozing re-arm the dispatcher for the
\* snooze deadline: a snoozed reminder whose day has come is dispatched.
IsOverslept(r) ==
  reminder[r].status = "SNOOZED" /\ ~reminder[r].deleted /\ reminder[r].at <= today
SnoozeIsRearmed == \A r \in Row : IsOverslept(r) ~> ~IsOverslept(r)
=============================================================================
