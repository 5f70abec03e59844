--------------------------- MODULE BillingLedger ---------------------------
(***************************************************************************)
(* The money tables of one enrollment and the handlers that write them:    *)
(* the installments of its fee plan, the payments received, the rows that  *)
(* allocate a payment to an installment, refunds, the student's credits    *)
(* and the rows that apply a credit to an installment.                     *)
(*                                                                         *)
(* Each handler of modules/billing is one action here: its transaction is  *)
(* taken to be serial.  ReversalTx splits the two handlers whose           *)
(* transactions are not (voidPayment, completeRefund) into statements.     *)
(*                                                                         *)
(* One currency, one tenant, one student.  Dates are abstracted: the cron  *)
(* may find any row due.  Every handler rejects by throwing, which rolls   *)
(* its transaction back; a rejection is a disabled action.                 *)
(***************************************************************************)
EXTENDS Integers, FiniteSets, Functions

CONSTANTS
  Installment,  \* rows of fee_installments
  Payment,      \* ids of payments, given out in increasing order
  Refund,       \* ids of refunds, given out in increasing order
  Credit,       \* ids of student_credits, in the order of created_at
  Gross,        \* gross_minor of each installment
  DueRank,      \* the order of the rows by due_on, sequence_no
  MaxMinor      \* bound: the largest amount, in minor units

Amount == 0..MaxMinor

ASSUME GrossAssumption == Gross \in [Installment -> Amount]
ASSUME DueRankAssumption == DueRank \in [Installment -> Nat]
ASSUME MaxMinorAssumption == MaxMinor \in Nat
ASSUME IdAssumption == /\ Payment \subseteq Nat
                       /\ Refund \subseteq Nat
                       /\ Credit \subseteq Nat
\* Tables are finite: sums over their rows are sums.
ASSUME FiniteAssumption == /\ IsFiniteSet(Installment)
                           /\ IsFiniteSet(Payment)
                           /\ IsFiniteSet(Refund)
                           /\ IsFiniteSet(Credit)

VARIABLES
  plan,     \* fee_plans: status, and the open ones it has had so far
  inst,     \* fee_installments: status, net, paid and balance of each row
  adj,      \* sum of the row's fee_adjustments
  payment,  \* payments: status, gross and the order of its allocation rows
  alloc,    \* payment_allocations: 0 where there is no row
  refund,   \* refunds: status, payment and amount
  credit,   \* student_credits: status, source, amount and consumed
  app       \* student_credit_applications: 0 where there is no row

vars == <<plan, inst, adj, payment, alloc, refund, credit, app>>

---------------------------------------------------------------------------
(* The state machines of fsm-def.ts.                                       *)

PlanStatus == {"DRAFT", "ACTIVE", "PAUSED", "COMPLETED", "CANCELLED"}
InstallmentStatus ==
  {"SCHEDULED", "INVOICED", "DUE", "OVERDUE", "PARTIAL", "PAID",
   "WAIVED", "SUSPENDED", "CANCELLED", "REFUNDED"}
PaymentStatus == {"RECEIVED", "VOIDED", "PARTIALLY_REFUNDED", "REFUNDED"}
RefundStatus == {"PENDING", "COMPLETED", "FAILED"}

\* Edges any role may take.
FreeEdge ==
  {<<"SCHEDULED", "INVOICED">>, <<"INVOICED", "DUE">>, <<"DUE", "OVERDUE">>,
   <<"SCHEDULED", "SUSPENDED">>, <<"INVOICED", "SUSPENDED">>,
   <<"SUSPENDED", "INVOICED">>, <<"PARTIAL", "PAID">>}
    \union ({"INVOICED", "DUE", "OVERDUE"} \X {"PARTIAL", "PAID"})

\* Edges that need an ADMIN and a reason.
AdminEdge ==
  ({"SCHEDULED", "INVOICED", "DUE", "OVERDUE", "PARTIAL"} \X {"WAIVED", "CANCELLED"})
    \union ({"PAID", "WAIVED"} \X {"PARTIAL", "INVOICED", "REFUNDED"})
    \union ({"PARTIAL"} \X {"INVOICED", "REFUNDED"})
    \union {<<"SUSPENDED", "CANCELLED">>}

PaymentEdge ==
  ({"RECEIVED"} \X {"VOIDED", "PARTIALLY_REFUNDED", "REFUNDED"})
    \union {<<"PARTIALLY_REFUNDED", "REFUNDED">>}

\* assertOrThrow: staying put is always allowed.
Permits(edges, from, to) == from = to \/ <<from, to>> \in edges

\* assertSettlement: a SCHEDULED row is invoiced on the way.  Its callers pass
\* no reason, so the edges that need one are closed to it.
CanSettle(from, to) ==
  \/ Permits(FreeEdge, from, to)
  \/ from = "SCHEDULED" /\ Permits(FreeEdge, "INVOICED", to)

OpenStatus == {"SCHEDULED", "INVOICED", "DUE", "OVERDUE", "PARTIAL"}
ClosedToMoney == {"WAIVED", "CANCELLED", "REFUNDED"}
---------------------------------------------------------------------------
(* Amounts spread over rows.                                               *)

NoRows == [i \in Installment |-> 0]
Sum(f) == SumFunction(f)

\* d spends as much of total as the rows can take, a row only after every row
\* that ranks before it is full.
Waterfall(d, total, cap, rank) ==
  /\ \A x \in DOMAIN cap : d[x] <= cap[x]
  /\ Sum(d) <= total
  /\ \A x \in DOMAIN cap :
       d[x] < cap[x] => /\ Sum(d) = total
                        /\ \A y \in DOMAIN cap : rank[y] > rank[x] => d[y] = 0

\* A row as the handlers write it: the balance is always recomputed.
Row(status, net, paid) ==
  [status |-> status, net |-> net, paid |-> paid, balance |-> net - paid]

\* Money d lands on a row, from a payment or from a credit.
SettledStatus(row, d) == IF row.paid + d = row.net THEN "PAID" ELSE "PARTIAL"
Settled(row, d) == Row(SettledStatus(row, d), row.net, row.paid + d)
CanTake(row, d) == d <= row.balance /\ CanSettle(row.status, SettledStatus(row, d))

Settle(d) ==
  /\ \A i \in Installment : d[i] > 0 => CanTake(inst[i], d[i])
  /\ inst' = [i \in Installment |-> IF d[i] > 0 THEN Settled(inst[i], d[i]) ELSE inst[i]]

\* Money d is taken back from a row by a void.
\* Mutant: the handler as it was before waived rows were reopened.
VoidedStatusKeepsWaived(row, d) ==
  IF row.status \notin {"PAID", "PARTIAL"} THEN row.status
  ELSE IF row.paid > d THEN "PARTIAL" ELSE "INVOICED"

\* Mutant: every row it unpays is reopened, the cancelled ones too.
VoidedStatusReopens(row, d) == IF row.paid > d THEN "PARTIAL" ELSE "INVOICED"

VoidedStatus(row, d) ==
  IF row.status \notin {"PAID", "PARTIAL", "WAIVED"} THEN row.status
  ELSE IF row.paid > d THEN "PARTIAL" ELSE "INVOICED"

Voided(row, d) == Row(VoidedStatus(row, d), row.net, row.paid - d)

\* Money d is taken back from a row by a refund.
UnwoundStatus(row, d) ==
  CASE row.paid = d /\ row.status \in {"PAID", "PARTIAL", "WAIVED"} -> "REFUNDED"
    [] row.paid # d /\ row.paid - d < row.net
                    /\ row.status \in {"PAID", "WAIVED"}           -> "PARTIAL"
    [] OTHER                                                       -> row.status

\* Mutant: the row is emptied of other payments' money as well.
UnwoundEmpties(row, d) == Row(UnwoundStatus(row, d), row.net, 0)

\* Mutant: the money is taken off the row twice.
UnwoundTwice(row, d) == Row(UnwoundStatus(row, d), row.net, row.paid - d - d)

Unwound(row, d) == Row(UnwoundStatus(row, d), row.net, row.paid - d)
---------------------------------------------------------------------------
(* Credits.                                                                *)

Unused(table, id) == table[id].status = "NONE"
IsNext(table, id) ==
  Unused(table, id) /\ \A x \in DOMAIN table : x < id => ~Unused(table, x)

FromPayment(p) == <<"payment", p>>
FromRefund(r) == <<"refund", r>>
NoSource == <<"none", 0>>
Source == ({"payment"} \X Payment) \union ({"refund"} \X Refund) \union {NoSource}

LiveOf(p) == {c \in Credit : credit[c].status = "LIVE" /\ credit[c].source = FromPayment(p)}

Available(c) == credit[c].amount - credit[c].consumed
NewCredit(source, amount) ==
  [status |-> "LIVE", source |-> source, amount |-> amount, consumed |-> 0]

\* Mutant: the money goes back and its credit can still be spent.
ReversedNothing(table, cs) == table

Reversed(table, cs) ==
  [c \in Credit |-> IF c \in cs THEN [table[c] EXCEPT !.status = "REVERSED"] ELSE table[c]]

\* A credit is created for amount, or nothing is when there is nothing left over.
Mints(table, amount, source) ==
  \/ amount = 0 /\ credit' = table
  \/ /\ amount > 0
     /\ \E c \in Credit : /\ IsNext(table, c)
                          /\ credit' = [table EXCEPT ![c] = NewCredit(source, amount)]
---------------------------------------------------------------------------
(* payment.service.ts                                                      *)

\* What recordPayment writes once it has decided how to spread gross.
Receive(p, gross, order, d) ==
  /\ IsNext(payment, p)
  /\ Settle(d)
  /\ payment' = [payment EXCEPT ![p] = [status |-> "RECEIVED", gross |-> gross, order |-> order]]
  /\ alloc' = [alloc EXCEPT ![p] = d]
  /\ \E overflow \in Amount :
       /\ gross = Sum(d) + overflow
       /\ Mints(credit, overflow, FromPayment(p))
  /\ UNCHANGED <<plan, adj, refund, app>>

\* recordPayment without allocations: oldest open installment first.
RecordPaymentFifo(p, gross) ==
  /\ gross > 0
  /\ \E d \in [Installment -> Amount] :
       /\ Waterfall(d, gross,
                    [i \in Installment |-> IF inst[i].status \in OpenStatus
                                           THEN inst[i].balance ELSE 0], DueRank)
       /\ Receive(p, gross, DueRank, d)

\* recordPayment with allocations: the caller's amounts, in the caller's order.
RecordPaymentManual(p, gross, order, d) ==
  /\ gross > 0
  /\ d # NoRows
  /\ Sum(d) <= gross
  /\ \A i \in Installment : d[i] > 0 => inst[i].status \notin ClosedToMoney
  /\ Receive(p, gross, order, d)

VoidPayment(p) ==
  /\ payment[p].status = "RECEIVED"
  /\ \A i \in Installment : alloc[p][i] <= inst[i].paid
  /\ \A c \in LiveOf(p) : credit[c].consumed = 0
  /\ inst' = [i \in Installment |->
                IF alloc[p][i] > 0 THEN Voided(inst[i], alloc[p][i]) ELSE inst[i]]
  /\ alloc' = [alloc EXCEPT ![p] = NoRows]
  /\ credit' = Reversed(credit, LiveOf(p))
  /\ payment' = [payment EXCEPT ![p].status = "VOIDED"]
  /\ UNCHANGED <<plan, adj, refund, app>>

RefundsOf(p, statuses) ==
  SumFunctionOnSet([r \in Refund |-> refund[r].amount],
                   {r \in Refund : refund[r].payment = p /\ refund[r].status \in statuses})

\* Mutant: refunds that are promised and not yet paid do not count.
CreateRefundIgnoresPending(r, p, amount) ==
  /\ IsNext(refund, r)
  /\ amount > 0
  /\ payment[p].status \notin {"NONE", "VOIDED"}
  /\ RefundsOf(p, {"COMPLETED"}) + amount <= payment[p].gross
  /\ refund' = [refund EXCEPT ![r] = [status |-> "PENDING", payment |-> p, amount |-> amount]]
  /\ UNCHANGED <<plan, inst, adj, payment, alloc, credit, app>>

CreateRefund(r, p, amount) ==
  /\ IsNext(refund, r)
  /\ amount > 0
  /\ payment[p].status \notin {"NONE", "VOIDED"}
  /\ RefundsOf(p, {"PENDING", "COMPLETED"}) + amount <= payment[p].gross
  /\ refund' = [refund EXCEPT ![r] = [status |-> "PENDING", payment |-> p, amount |-> amount]]
  /\ UNCHANGED <<plan, inst, adj, payment, alloc, credit, app>>

\* retireCreditsForRefund: of each of the live credits, oldest first, how much of
\* cap is taken.  It refuses to reach one that is partly spent.
Retires(take, live, cap) ==
  /\ Waterfall(take, cap, [c \in Credit |-> IF c \in live THEN Available(c) ELSE 0],
               [c \in Credit |-> c])
  /\ \A c \in live :
       credit[c].consumed > 0 =>
         take[c] = 0 /\ cap <= SumFunctionOnSet(take, {x \in Credit : x < c})
  /\ \A c \in Credit \ live : take[c] = 0

\* Mutant: what was left of a credit taken in part is not credited anew.
ReplacesNothingLeft(take, p, r, surplus) ==
  Mints(Reversed(credit, {c \in Credit : take[c] > 0}), surplus, FromRefund(r))

\* The credits taken from are reversed.  What is left of the one that was taken in
\* part is credited anew; failing that, the surplus is.
Replaces(take, p, r, surplus) ==
  LET taken == {c \in Credit : take[c] > 0}
  IN  \E left \in Amount :
        /\ left = SumFunctionOnSet([c \in Credit |-> credit[c].amount - take[c]], taken)
        /\ IF left > 0 THEN Mints(Reversed(credit, taken), left, FromPayment(p))
           ELSE Mints(Reversed(credit, taken), surplus, FromRefund(r))

NewestFirst(p) == [i \in Installment |-> -payment[p].order[i]]

\* Mutant: counts the refunds still pending, this one among them, twice over.
AfterRefundCountsPending(p, amount) ==
  IF RefundsOf(p, {"PENDING", "COMPLETED"}) + amount >= payment[p].gross
  THEN "REFUNDED" ELSE "PARTIALLY_REFUNDED"

AfterRefund(p, amount) ==
  IF RefundsOf(p, {"COMPLETED"}) + amount >= payment[p].gross
  THEN "REFUNDED" ELSE "PARTIALLY_REFUNDED"

\* completeRefund: credits are retired first, then allocations are unwound, newest
\* first; what is still left becomes a credit if the caller agreed to it.
CompleteRefund(r, credit_carryforward) ==
  LET p == refund[r].payment
      amount == refund[r].amount
  IN  /\ refund[r].status = "PENDING"
      /\ Permits(PaymentEdge, payment[p].status, AfterRefund(p, amount))
      /\ \E take \in [Credit -> Amount] :
           /\ Retires(take, LiveOf(p), amount)
           /\ \E d \in [Installment -> Amount] :
                /\ Waterfall(d, amount - Sum(take), alloc[p], NewestFirst(p))
                /\ \A i \in Installment : d[i] <= inst[i].paid
                /\ inst' = [i \in Installment |->
                              IF d[i] > 0 THEN Unwound(inst[i], d[i]) ELSE inst[i]]
                /\ alloc' = [alloc EXCEPT ![p] = [i \in Installment |-> alloc[p][i] - d[i]]]
                /\ \E surplus \in Amount :
                     /\ surplus = amount - Sum(take) - Sum(d)
                     /\ surplus > 0 => credit_carryforward
                     /\ Replaces(take, p, r, surplus)
      /\ payment' = [payment EXCEPT ![p].status = AfterRefund(p, amount)]
      /\ refund' = [refund EXCEPT ![r].status = "COMPLETED"]
      /\ UNCHANGED <<plan, adj, app>>

MarkRefundFailed(r) ==
  /\ refund[r].status = "PENDING"
  /\ refund' = [refund EXCEPT ![r].status = "FAILED"]
  /\ UNCHANGED <<plan, inst, adj, payment, alloc, credit, app>>

\* Mutant: earlier adjustments of the row are left out of its net.
AdjustForgets(i, delta, status) ==
  /\ inst[i].status \notin ClosedToMoney
  /\ adj' = [adj EXCEPT ![i] = adj[i] + delta]
  /\ inst' = [inst EXCEPT ![i] = Row(status, Gross[i] + delta, inst[i].paid)]
  /\ UNCHANGED <<plan, payment, alloc, refund, credit, app>>

\* applyAdjustment: the row is worked out afresh from its gross and its adjustments.
Adjust(i, delta, status) ==
  /\ inst[i].status \notin ClosedToMoney
  /\ adj' = [adj EXCEPT ![i] = adj[i] + delta]
  /\ inst' = [inst EXCEPT ![i] = Row(status, Gross[i] + adj[i] + delta, inst[i].paid)]
  /\ UNCHANGED <<plan, payment, alloc, refund, credit, app>>

\* LATE_FEE entered by hand; MaxMinor bounds what fees can add up to.
LateFee(i, amount) ==
  /\ amount > 0
  /\ inst[i].net + amount <= MaxMinor
  /\ Adjust(i, amount, inst[i].status)

\* DISCOUNT, SCHOLARSHIP and WRITE_OFF, at most the balance.
Discount(i, amount) ==
  /\ amount \in 1..inst[i].balance
  /\ IF amount = inst[i].balance /\ inst[i].status # "PAID"
     THEN CanSettle(inst[i].status, "PAID") /\ Adjust(i, -amount, "PAID")
     ELSE Adjust(i, -amount, inst[i].status)

\* WAIVER, by an ADMIN: only one that clears the balance makes the row WAIVED.
Waive(i, amount) ==
  /\ amount \in 1..inst[i].balance
  /\ IF amount = inst[i].balance
     THEN Permits(AdminEdge, inst[i].status, "WAIVED") /\ Adjust(i, -amount, "WAIVED")
     ELSE Adjust(i, -amount, inst[i].status)
---------------------------------------------------------------------------
(* credit.service.ts                                                       *)

\* Mutant: earlier applications of the credit are overwritten.
AppliedAfresh(c, d) == [app EXCEPT ![c] = d]
Applied(c, d) == [app EXCEPT ![c] = [i \in Installment |-> app[c][i] + d[i]]]

\* What applyCredit writes once it has decided how to spread the credit.
Spend(c, d) ==
  /\ credit[c].status = "LIVE"
  /\ d # NoRows
  /\ Sum(d) <= Available(c)
  /\ \A i \in Installment : d[i] > 0 => inst[i].status \in OpenStatus
  /\ Settle(d)
  /\ app' = Applied(c, d)
  /\ \E spent \in Amount :
       /\ spent = Sum(d)
       /\ credit' = [credit EXCEPT ![c].consumed = credit[c].consumed + spent]
  /\ UNCHANGED <<plan, adj, payment, alloc, refund>>

\* applyCredit with applications: the caller's amounts.
ApplyCreditExplicit(c, d) == Spend(c, d)

\* applyCredit without: oldest open installment first, up to max_amount_minor.
ApplyCreditFifo(c, max) ==
  \E d \in [Installment -> Amount] :
    /\ Waterfall(d, IF max < Available(c) THEN max ELSE Available(c),
                 [i \in Installment |-> IF inst[i].status \in OpenStatus
                                        THEN inst[i].balance ELSE 0], DueRank)
    /\ Spend(c, d)

ReverseCredit(c) ==
  /\ credit[c].status = "LIVE"
  /\ credit[c].consumed = 0
  /\ credit' = Reversed(credit, {c})
  /\ UNCHANGED <<plan, inst, adj, payment, alloc, refund, app>>
---------------------------------------------------------------------------
(* jobs/billingDaily.ts: one guarded update of one row at a time.          *)

Move(i, from, to) ==
  /\ inst[i].status = from
  /\ inst' = [inst EXCEPT ![i].status = to]
  /\ UNCHANGED <<plan, adj, payment, alloc, refund, credit, app>>

CronInvoice(i) == plan.status = "ACTIVE" /\ Move(i, "SCHEDULED", "INVOICED")
CronDue(i) == Move(i, "INVOICED", "DUE")
CronOverdue(i) == Move(i, "DUE", "OVERDUE")
CronLateFee(i, amount) == inst[i].status = "OVERDUE" /\ LateFee(i, amount)

\* The plan takes a status.
Becomes(status) ==
  [status |-> status, been |-> plan.been \union ({status} \cap {"ACTIVE", "PAUSED"})]

\* derivePlanStatusFromInstallments
TerminalStatus == {"PAID", "WAIVED", "CANCELLED", "REFUNDED"}
AllTerminal == /\ Installment # {}
               /\ \A i \in Installment : inst[i].status \in TerminalStatus

CronComplete ==
  /\ plan.status = "ACTIVE"
  /\ AllTerminal
  /\ plan' = Becomes("COMPLETED")
  /\ UNCHANGED <<inst, adj, payment, alloc, refund, credit, app>>
---------------------------------------------------------------------------
(* plan.service.ts.  A request checks the status of the plan before its    *)
(* transaction and then writes by id alone: all that is sure is that the   *)
(* plan once had the status the request found.                             *)

Relabelled(from, to) ==
  [i \in Installment |->
     IF inst[i].status \in from THEN [inst[i] EXCEPT !.status = to] ELSE inst[i]]

\* Mutant: rows already due are suspended too.
PausePlanSuspendsDue ==
  /\ "ACTIVE" \in plan.been
  /\ plan' = Becomes("PAUSED")
  /\ inst' = Relabelled({"SCHEDULED", "INVOICED", "DUE"}, "SUSPENDED")
  /\ UNCHANGED <<adj, payment, alloc, refund, credit, app>>

PausePlan ==
  /\ "ACTIVE" \in plan.been
  /\ plan' = Becomes("PAUSED")
  /\ inst' = Relabelled({"SCHEDULED", "INVOICED"}, "SUSPENDED")
  /\ UNCHANGED <<adj, payment, alloc, refund, credit, app>>

ResumePlan ==
  /\ "PAUSED" \in plan.been
  /\ plan' = Becomes("ACTIVE")
  /\ inst' = Relabelled({"SUSPENDED"}, "INVOICED")
  /\ UNCHANGED <<adj, payment, alloc, refund, credit, app>>

\* What waive_remaining forgives before the sweep to CANCELLED.
Forgiven(waive_remaining) ==
  {i \in Installment : waive_remaining /\ inst[i].status = "PARTIAL" /\ inst[i].balance > 0}

CancelPlan(waive_remaining) ==
  /\ plan.been # {}
  /\ plan' = Becomes("CANCELLED")
  /\ adj' = [i \in Installment |->
               IF i \in Forgiven(waive_remaining) THEN adj[i] - inst[i].balance ELSE adj[i]]
  /\ inst' = [i \in Installment |->
                IF i \in Forgiven(waive_remaining)
                THEN Row("WAIVED", inst[i].paid, inst[i].paid)
                ELSE Relabelled(OpenStatus \union {"SUSPENDED"}, "CANCELLED")[i]]
  /\ UNCHANGED <<payment, alloc, refund, credit, app>>
---------------------------------------------------------------------------
(* createFeePlan has just run; nothing has been paid.                      *)
Init ==
  /\ plan = [status |-> "ACTIVE", been |-> {"ACTIVE"}]
  /\ inst = [i \in Installment |->
               [status |-> "SCHEDULED", net |-> Gross[i], paid |-> 0, balance |-> Gross[i]]]
  /\ adj = [i \in Installment |-> 0]
  /\ payment = [p \in Payment |-> [status |-> "NONE", gross |-> 0, order |-> DueRank]]
  /\ alloc = [p \in Payment |-> NoRows]
  /\ refund = [r \in Refund |-> [status |-> "NONE", payment |-> 0, amount |-> 0]]
  /\ credit = [c \in Credit |->
                 [status |-> "NONE", source |-> NoSource, amount |-> 0, consumed |-> 0]]
  /\ app = [c \in Credit |-> NoRows]

Orders == {[i \in Installment |-> f[DueRank[i]]] : f \in {g \in [Range(DueRank) -> Range(DueRank)] : IsInjective(g)}}

ReceiptNext ==
  \/ \E p \in Payment, gross \in Amount : RecordPaymentFifo(p, gross)
  \/ \E p \in Payment, gross \in Amount, order \in Orders, d \in [Installment -> Amount] :
       RecordPaymentManual(p, gross, order, d)
RefundNext ==
  \/ \E r \in Refund, p \in Payment, amount \in Amount : CreateRefund(r, p, amount)
  \/ \E r \in Refund : MarkRefundFailed(r)
ReversalNext ==
  \/ \E p \in Payment : VoidPayment(p)
  \/ \E r \in Refund, carry \in BOOLEAN : CompleteRefund(r, carry)
AdjustmentNext ==
  \E i \in Installment, amount \in Amount :
    LateFee(i, amount) \/ Discount(i, amount) \/ Waive(i, amount)
CreditNext ==
  \/ \E c \in Credit, d \in [Installment -> Amount] : ApplyCreditExplicit(c, d)
  \/ \E c \in Credit, max \in Amount : ApplyCreditFifo(c, max)
  \/ \E c \in Credit : ReverseCredit(c)
CronNext ==
  \/ \E i \in Installment : CronInvoice(i) \/ CronDue(i) \/ CronOverdue(i)
  \/ \E i \in Installment, amount \in Amount : CronLateFee(i, amount)
  \/ CronComplete
PlanNext ==
  PausePlan \/ ResumePlan \/ \E waive \in BOOLEAN : CancelPlan(waive)

Next == ReceiptNext \/ RefundNext \/ ReversalNext \/ AdjustmentNext
          \/ CreditNext \/ CronNext \/ PlanNext

Spec == Init /\ [][Next]_vars
---------------------------------------------------------------------------
(* What the ledger promises.                                               *)

PlanRow == [status : PlanStatus, been : SUBSET {"ACTIVE", "PAUSED"}]
InstallmentRow == [status : InstallmentStatus, net : Int, paid : Nat, balance : Int]
PaymentRow ==
  [status : PaymentStatus \union {"NONE"}, gross : Nat, order : [Installment -> Nat]]
RefundRow ==
  [status : RefundStatus \union {"NONE"}, payment : Payment \union {0}, amount : Nat]
CreditRow ==
  [status : {"NONE", "LIVE", "REVERSED"}, source : Source, amount : Nat, consumed : Nat]

\* Every row of every table is well formed, and a refund names a payment.
TypeOK ==
  /\ plan \in PlanRow
  /\ inst \in [Installment -> InstallmentRow]
  /\ adj \in [Installment -> Int]
  /\ payment \in [Payment -> PaymentRow]
  /\ alloc \in [Payment -> [Installment -> Nat]]
  /\ refund \in [Refund -> RefundRow]
  /\ \A r \in Refund : refund[r].status # "NONE" => refund[r].payment \in Payment
  /\ credit \in [Credit -> CreditRow]
  /\ app \in [Credit -> [Installment -> Nat]]

\* The CHECK constraints of 20991231235976_billing_checks are never the thing
\* that stops a handler: net is gross plus the adjustments, balance is net less
\* paid, and neither goes below zero.
AmountsAgree ==
  \A i \in Installment : /\ inst[i].net = Gross[i] + adj[i]
                         /\ inst[i].balance = inst[i].net - inst[i].paid
                         /\ inst[i].balance >= 0

\* The status of a row says what its money says, whatever payments, credits,
\* voids, refunds, waivers and cron moves it went through: rows that were never
\* settled hold no money, a PARTIAL row is part paid, a WAIVED row owes nothing
\* and a REFUNDED row holds nothing.
StatusTellsMoney ==
  \A i \in Installment :
    LET row == inst[i]
    IN  /\ row.status \in {"SCHEDULED", "INVOICED", "DUE", "OVERDUE", "SUSPENDED", "REFUNDED"}
             => row.paid = 0
        /\ row.status = "PARTIAL" => row.paid > 0 /\ row.balance > 0
        /\ row.status = "WAIVED" => row.balance = 0

\* paid_minor of a row is the money of its allocations and credit applications.
PaidIsFunded ==
  \A i \in Installment :
    inst[i].paid = Sum([p \in Payment |-> alloc[p][i]]) + Sum([c \in Credit |-> app[c][i]])

\* A credit pays out no more than it holds, and one that was reversed paid for
\* nothing: reversal never strands a row settled with money that is gone.
CreditWithinAmount ==
  \A c \in Credit : /\ credit[c].consumed <= credit[c].amount
                    /\ credit[c].status # "LIVE" => credit[c].consumed = 0

\* A credit's consumed_minor is the sum of its applications.
ConsumedIsApplied == \A c \in Credit : credit[c].consumed = Sum(app[c])

\* What a payment's money is doing now: settling installments, waiting as
\* credit, or gone back to the student.
Claimed(p) ==
  Sum(alloc[p]) + SumFunctionOnSet([c \in Credit |-> credit[c].amount], LiveOf(p))
    + RefundsOf(p, {"COMPLETED"})

\* The money of a payment is never in two places at once, and a voided payment
\* has none anywhere.
PaymentConserved ==
  \A p \in Payment : /\ Claimed(p) <= payment[p].gross
                     /\ payment[p].status = "VOIDED" => Claimed(p) = 0

\* createRefund's cap holds for the life of the payment: money promised back or
\* given back is never more than was received.
RefundsWithinGross ==
  \A p \in Payment : RefundsOf(p, {"PENDING", "COMPLETED"}) <= payment[p].gross

\* A payment's status says how much of it was given back.
PaymentStatusTellsRefunds ==
  \A p \in Payment :
    LET back == RefundsOf(p, {"COMPLETED"})
    IN  CASE payment[p].status \in {"NONE", "RECEIVED", "VOIDED"} -> back = 0
          [] payment[p].status = "PARTIALLY_REFUNDED" -> 0 < back /\ back < payment[p].gross
          [] payment[p].status = "REFUNDED" -> back = payment[p].gross

\* An overpayment is one credit: retiring part of it leaves one credit behind.
OneLiveCreditPerPayment ==
  \A p \in Payment : \A c1, c2 \in LiveOf(p) : c1 = c2

\* Money of a standing payment drops out of the books only when an ADMIN
\* reverses its credit.
MoneyNeverLost ==
  [][\A p \in Payment :
       payment'[p].status # "VOIDED" /\ Claimed(p)' < Claimed(p)
         => \E c \in Credit : ReverseCredit(c)]_vars

\* The bulk updates of the cron and of pause, resume and cancel ask the state
\* machine nothing per row: still no row ever moves but along its edges.
LegalMoves ==
  [][\A i \in Installment :
       \/ Permits(FreeEdge \union AdminEdge, inst[i].status, inst'[i].status)
       \/ CanSettle(inst[i].status, inst'[i].status)]_vars

\* A closed row stays closed, whatever voids, refunds, credits, adjustments and
\* plans do around it: an installment cancelled or refunded, a payment given back
\* whole, a refund paid out or failed.
TerminalStays ==
  [][/\ \A i \in Installment :
          inst[i].status \in {"CANCELLED", "REFUNDED"} => inst'[i].status = inst[i].status
     /\ \A p \in Payment :
          payment[p].status = "REFUNDED" => payment'[p].status = payment[p].status
     /\ \A r \in Refund :
          refund[r].status \in {"COMPLETED", "FAILED"} => refund'[r] = refund[r]]_vars
=============================================================================
