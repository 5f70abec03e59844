----------------------------- MODULE Commissions -----------------------------
(***************************************************************************)
(* The commission claim of an enrollment: made and repriced by the hook of *)
(* a status change, disputed by the hook of a withdrawal, and carried      *)
(* through claiming, invoicing and payment by administrators.              *)
(*                                                                         *)
(* Every statement of a request is a step.  A request holds what it read   *)
(* before, and its write says in the WHERE clause what must still be true. *)
(* Two optional things are left out: an If-Match, which refuses more, and a *)
(* calculation that finds no rate, after which the hook does nothing.       *)
(***************************************************************************)
EXTENDS EnrollmentFsm, Integers, FiniteSets

CONSTANTS
  Enrollment,
  Request,
  Amount,      \* what a claim may be worth and what may be received for it
  MaxAttempts, \* of a repricing
  MaxRequests, \* bound: requests made in all
  MaxEdits,    \* bound: changes of the tuition
  MaxFaults    \* bound: requests that die

ASSUME AmountAssumption == Amount \subseteq Nat /\ Amount # {}
ASSUME BoundAssumption == MaxAttempts \in Nat \ {0} /\ MaxRequests \in Nat
                          /\ MaxEdits \in Nat /\ MaxFaults \in Nat

VARIABLES
  enr,     \* enrollments.status
  gone,    \* enrollments.deleted_at is set
  price,   \* the commission on the present tuition
  claim,   \* commission_claims, by enrollment_id, which is unique
  req,     \* where each request is, and what it has read
  asked, edits, faults

vars == <<enr, gone, price, claim, req, asked, edits, faults>>
counts == <<asked, edits, faults>>

Status == {"PENDING", "CLAIMED", "INVOICED", "PAID", "DISPUTED", "WAIVED"}
NoNumber == 0
NoReceipt == -1  \* received_minor IS NULL, which a receipt of 0 is not
NoClaim == [status |-> "NONE", amount |-> 0, version |-> 0, number |-> NoNumber,
            received |-> NoReceipt, deleted |-> FALSE]
Idle == [step |-> "idle", op |-> "none", on |-> "none", from |-> "OFFERED",
         to |-> "OFFERED", saw |-> NoClaim, amount |-> 0, number |-> NoNumber, tries |-> 0]

At(r, step) == req[r].step = step
Goes(r, s) == req' = [req EXCEPT ![r] = s]
Ends(r) == Goes(r, Idle)

Begins(r, s) ==
  /\ At(r, "idle") /\ asked < MaxRequests
  /\ Goes(r, s) /\ asked' = asked + 1
  /\ UNCHANGED <<enr, gone, price, claim, edits, faults>>

\* claims[e] as WHERE deleted_at IS NULL finds it.
Found(e) == IF claim[e].deleted THEN NoClaim ELSE claim[e]
---------------------------------------------------------------------------
(* The enrollment.                                                         *)

AskStatus(r, e, to) ==
  /\ ~gone[e] /\ to \in Successors[enr[e]]
  /\ Begins(r, [Idle EXCEPT !.step = "status", !.op = "move", !.on = e,
                            !.from = enr[e], !.to = to])

WriteStatus(r) ==
  LET e == req[r].on IN
  /\ At(r, "status")
  /\ IF gone[e]
     THEN Ends(r) /\ UNCHANGED enr
     ELSE /\ enr' = [enr EXCEPT ![e] = req[r].to]
          /\ Goes(r, [req[r] EXCEPT !.step = "reread", !.to = "OFFERED"])
  /\ UNCHANGED <<gone, price, claim, counts>>

Triggers == {<<"OFFERED", "ACCEPTED">>, <<"ACCEPTED", "ENROLLED">>}
Closed == {"WITHDRAWN", "CANCELLED"}

\* The status is read again, and the hooks are those of the move from the one
\* the request began with to the one the row has by now.  The hook of a withdrawal
\* comes to the claim only after it has found a fee plan to cancel.
Reread(r) ==
  LET from == req[r].from  to == enr[req[r].on] IN
  /\ At(r, "reread")
  /\ IF <<from, to>> \in Triggers THEN Goes(r, [req[r] EXCEPT !.step = "price"])
     ELSE \/ from # to /\ to \in Closed /\ Goes(r, [req[r] EXCEPT !.step = "dispute"])
          \/ Ends(r)
  /\ UNCHANGED <<enr, gone, price, claim, counts>>

\* A stage that counts as success reprices the enrollments of the student.
AskOutcome(r, e) ==
  /\ ~gone[e] /\ enr[e] \in {"ACCEPTED", "ENROLLED"}
  /\ Begins(r, [Idle EXCEPT !.step = "price", !.op = "outcome", !.on = e])

SetTuition(e, p) ==
  /\ edits < MaxEdits /\ p # price[e]
  /\ price' = [price EXCEPT ![e] = p] /\ edits' = edits + 1
  /\ UNCHANGED <<enr, gone, claim, req, asked, faults>>

\* An enrollment and its claim are deleted in one transaction.
Delete(e) ==
  /\ ~gone[e] /\ edits < MaxEdits
  /\ gone' = [gone EXCEPT ![e] = TRUE]
  /\ claim' = IF claim[e] = NoClaim THEN claim ELSE [claim EXCEPT ![e].deleted = TRUE]
  /\ edits' = edits + 1
  /\ UNCHANGED <<enr, price, req, asked, faults>>
---------------------------------------------------------------------------
(* The recalculation: read the enrollment, read the claim, write.          *)

Frozen == {"INVOICED", "PAID", "DISPUTED", "WAIVED"}

Price(r) ==
  LET e == req[r].on IN
  /\ At(r, "price")
  /\ IF gone[e] THEN Ends(r)
     ELSE Goes(r, [req[r] EXCEPT !.step = "load", !.amount = price[e]])
  /\ UNCHANGED <<enr, gone, price, claim, counts>>

\* The claim, read for the first time or after an attempt that failed.
Load(r) ==
  LET row == Found(req[r].on) IN
  /\ At(r, "load")
  /\ IF row = NoClaim /\ req[r].tries = 0 THEN Goes(r, [req[r] EXCEPT !.step = "insert"])
     ELSE IF \/ row = NoClaim
             \/ row.status \in Frozen \/ row.amount = req[r].amount
             \/ req[r].tries = MaxAttempts
          THEN Ends(r)
     ELSE Goes(r, [req[r] EXCEPT !.step = "reprice", !.saw = row])
  /\ UNCHANGED <<enr, gone, price, claim, counts>>

\* The unique index refuses a second claim, also when the first is deleted.
Insert(r) ==
  LET e == req[r].on IN
  /\ At(r, "insert")
  /\ claim' = IF claim[e] # NoClaim THEN claim
              ELSE [claim EXCEPT ![e] = [NoClaim EXCEPT
                      !.status = "PENDING", !.amount = req[r].amount, !.version = 1]]
  /\ Ends(r)
  /\ UNCHANGED <<enr, gone, price, counts>>

\* Mutant: the update names the row and not the version it was read at.
SameRow(r) == Found(req[r].on) # NoClaim

SameVersion(r) == Found(req[r].on) # NoClaim
                  /\ claim[req[r].on].version = req[r].saw.version

Reprice(r) ==
  LET e == req[r].on IN
  /\ At(r, "reprice")
  /\ IF SameVersion(r)
     THEN /\ claim' = [claim EXCEPT ![e] = [claim[e] EXCEPT !.amount = req[r].amount, !.version = @ + 1]]
          /\ Ends(r)
     ELSE /\ Goes(r, [req[r] EXCEPT !.step = "load", !.saw = NoClaim, !.tries = @ + 1])
          /\ UNCHANGED claim
  /\ UNCHANGED <<enr, gone, price, counts>>
---------------------------------------------------------------------------
(* The hook of a withdrawal, which writes without a new version.           *)

Unpaid == {"PENDING", "CLAIMED", "INVOICED"}

AutoDispute(r) ==
  LET e == req[r].on IN
  /\ At(r, "dispute")
  /\ claim' = IF claim[e].status \in Unpaid
              THEN [claim EXCEPT ![e].status = "DISPUTED"] ELSE claim
  /\ Ends(r)
  /\ UNCHANGED <<enr, gone, price, counts>>
---------------------------------------------------------------------------
(* What administrators do with a claim.                                    *)

From == [claim    |-> {"PENDING"},
         invoice  |-> {"CLAIMED"},
         pay      |-> {"INVOICED"},
         dispute  |-> {"PENDING", "CLAIMED", "INVOICED", "WAIVED"},
         resolve  |-> {"DISPUTED"},
         waive    |-> {"PENDING", "CLAIMED", "INVOICED", "DISPUTED"},
         edit     |-> {"PENDING", "CLAIMED", "INVOICED", "DISPUTED"}]

To == [claim |-> "CLAIMED", invoice |-> "INVOICED", pay |-> "PAID",
       dispute |-> "DISPUTED", resolve |-> "INVOICED", waive |-> "WAIVED"]

\* The row is read and its status checked.  An amount is given with an edit,
\* may be given with a payment, and is the one just read if it is not.
AskClaim(r, op, e, given) ==
  LET row == Found(e) IN
  /\ row.status \in From[op]
  /\ op \notin {"pay", "edit"} => given = row.amount
  /\ Begins(r, [Idle EXCEPT !.op = op, !.on = e, !.saw = row, !.amount = given,
       !.number = row.number,
       !.step = IF op \in {"invoice", "resolve"} /\ row.number = NoNumber
                THEN "number" ELSE "write"])

Numbers == {claim[e].number : e \in Enrollment} \ {NoNumber}

\* The next number that nobody has, or one that came with the request.
NextNumber(r) == {n \in 1..(Cardinality(Enrollment) + 1) : n \notin Numbers}

Number(r) ==
  /\ At(r, "number")
  /\ \E n \in NextNumber(r) : Goes(r, [req[r] EXCEPT !.step = "write", !.number = n])
  /\ UNCHANGED <<enr, gone, price, claim, counts>>

\* Mutant: PATCH checks the status when it reads the row, and not again.
AllowedWhenRead(r) ==
  LET row == Found(req[r].on) IN
  IF req[r].op = "waive" THEN row.status \in From.waive
                         ELSE req[r].op = "edit" \/ row.status = req[r].saw.status

\* The WHERE clause: the status that was read, except that a waiver takes any
\* but PAID and WAIVED.
StillAllowed(r) ==
  LET row == Found(req[r].on) IN
  IF req[r].op = "waive" THEN row.status \in From.waive
                         ELSE row.status = req[r].saw.status

\* Mutant: only the check that went before looks for the number.
FreeAnyway(r) == TRUE

\* The unique index on the number.
NumberIsFree(r) ==
  req[r].number \notin {claim[e].number : e \in Enrollment \ {req[r].on}} \ {NoNumber}

\* Mutant: the payment is recorded without what was received.
Unrecorded(r) == NoReceipt

\* received_minor.
Receipt(r) == req[r].amount

Written(r, row) ==
  LET newer == [row EXCEPT !.version = @ + 1] IN
  CASE req[r].op = "edit" -> [newer EXCEPT !.amount = req[r].amount]
    [] req[r].op = "pay" -> [newer EXCEPT !.status = "PAID", !.received = Receipt(r)]
    [] req[r].op \in {"invoice", "resolve"} ->
         [newer EXCEPT !.status = "INVOICED", !.number = req[r].number]
    [] OTHER -> [newer EXCEPT !.status = To[req[r].op]]

\* A write that finds the claim changed, or its number taken, is refused.
WriteClaim(r) ==
  LET e == req[r].on IN
  /\ At(r, "write")
  /\ claim' = IF StillAllowed(r) /\ NumberIsFree(r)
              THEN [claim EXCEPT ![e] = Written(r, claim[e])] ELSE claim
  /\ Ends(r)
  /\ UNCHANGED <<enr, gone, price, counts>>

\* PATCH of the notes: a new version and nothing else.
Annotate(e) ==
  /\ edits < MaxEdits /\ Found(e) # NoClaim
  /\ claim' = [claim EXCEPT ![e].version = @ + 1] /\ edits' = edits + 1
  /\ UNCHANGED <<enr, gone, price, req, asked, faults>>

\* A statement fails or the process dies; what a hook throws is swallowed.
Fails(r) ==
  /\ ~At(r, "idle") /\ faults < MaxFaults
  /\ Ends(r) /\ faults' = faults + 1
  /\ UNCHANGED <<enr, gone, price, claim, asked, edits>>
---------------------------------------------------------------------------
\* An enrollment without a claim, or one whose claim was submitted.
Init ==
  \E p \in Amount, submitted \in SUBSET Enrollment :
    /\ enr = [e \in Enrollment |-> IF e \in submitted THEN "ENROLLED" ELSE "ACCEPTED"]
    /\ gone = [e \in Enrollment |-> FALSE]
    /\ price = [e \in Enrollment |-> p]
    /\ claim = [e \in Enrollment |-> IF e \in submitted
         THEN [NoClaim EXCEPT !.status = "CLAIMED", !.amount = p, !.version = 2]
         ELSE NoClaim]
    /\ req = [r \in Request |-> Idle]
    /\ asked = 0 /\ edits = 0 /\ faults = 0

HookNext(r) ==
  \/ \E e \in Enrollment, to \in EnrollmentStatus : AskStatus(r, e, to)
  \/ WriteStatus(r) \/ Reread(r)
  \/ \E e \in Enrollment : AskOutcome(r, e)
  \/ Price(r) \/ Load(r) \/ Insert(r) \/ Reprice(r) \/ AutoDispute(r)

ClaimNext(r) ==
  \/ \E op \in DOMAIN From, e \in Enrollment, given \in Amount : AskClaim(r, op, e, given)
  \/ Number(r) \/ WriteClaim(r)

Next ==
  \/ \E r \in Request : HookNext(r) \/ ClaimNext(r) \/ Fails(r)
  \/ \E e \in Enrollment, p \in Amount : SetTuition(e, p)
  \/ \E e \in Enrollment : Delete(e) \/ Annotate(e)

Spec == Init /\ [][Next]_vars
---------------------------------------------------------------------------
(* What is promised.                                                       *)

\* Rows are well formed, and a receipt is on the paid ones only.
TypeOK ==
  /\ enr \in [Enrollment -> EnrollmentStatus]
  /\ gone \in [Enrollment -> BOOLEAN]
  /\ price \in [Enrollment -> Amount]
  /\ claim \in [Enrollment ->
       [status : Status \union {"NONE"}, amount : Amount \union {0}, version : Nat,
        number : Nat, received : Amount \union {NoReceipt}, deleted : BOOLEAN]]
  /\ \A e \in Enrollment : claim[e].status = "PAID" <=> claim[e].received # NoReceipt

\* A paid claim is history: whatever was decided about it before it was paid,
\* and by whom, its status, amount, number and what was received stay.
PaidIsFinal ==
  [][\A e \in Enrollment : claim[e].status = "PAID" =>
       claim'[e] = [claim[e] EXCEPT !.version = claim'[e].version,
                                    !.deleted = claim'[e].deleted]]_vars

\* What is invoiced or paid has a number, and no other claim has it.
InvoicesAreNumbered ==
  \A e \in Enrollment :
    claim[e].status \in {"INVOICED", "PAID"} =>
      /\ claim[e].number # NoNumber
      /\ \A f \in Enrollment \ {e} : claim[f].number # claim[e].number

\* A repricing that was decided on while the claim was open does not land on
\* one that has been invoiced, paid or waived since.  (On one that the hook of
\* a withdrawal has disputed it does: that hook leaves the version as it was.)
RepricesOnlyOpen ==
  [][\A r \in Request :
       Reprice(r) /\ claim[req[r].on].status \in {"INVOICED", "PAID", "WAIVED"}
         => UNCHANGED claim]_vars
=============================================================================
