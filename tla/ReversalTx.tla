----------------------------- MODULE ReversalTx -----------------------------
(***************************************************************************)
(* voidPayment and completeRefund statement by statement, as PostgreSQL    *)
(* runs them at READ COMMITTED: several workers each drive one of the two  *)
(* transactions while every other handler of the ledger goes on.           *)
(*                                                                         *)
(* A worker's writes stay in tx[w] until it commits.  That is what others  *)
(* see: a row it locked nobody else can write, a row it only read may      *)
(* change under it.  A statement that must wait for a row lock is a step   *)
(* that is not enabled.  Every throw, deadlock victim and transaction      *)
(* timeout is Abort.  The other handlers take their locks before they      *)
(* decide anything, so they are steps of BillingLedger that wait for the   *)
(* rows they write.                                                        *)
(***************************************************************************)
EXTENDS BillingLedger

CONSTANTS
  Worker,  \* requests in flight
  Jobs     \* which of "void" and "refund" they may carry

VARIABLES
  tx,      \* the transaction of each worker
  held     \* the row locks it holds

txVars == <<tx, held>>
allVars == <<vars, txVars>>

Lockable == ({"inst"} \X Installment) \union ({"credit"} \X Credit) \union ({"payment"} \X Payment)
Free(rows, w) == \A x \in Worker \ {w} : rows \intersect held[x] = {}
Installments(is) == {<<"inst", i>> : i \in is}
Credits(cs) == {<<"credit", c>> : c \in cs}

Idle == [step |-> "idle", job |-> "none", payment |-> 0, refund |-> 0, amount |-> 0,
         carry |-> FALSE, seen |-> "NONE", rows |-> NoRows, back |-> NoRows,
         scan |-> {}, take |-> [c \in Credit |-> 0]]

At(w, job, step) == tx[w].job = job /\ tx[w].step = step

\* w runs a statement: it goes on with what the statement told it, and holds the
\* rows it locked.
Run(w, next, rows) ==
  /\ Free(rows, w)
  /\ tx' = [tx EXCEPT ![w] = next]
  /\ held' = [held EXCEPT ![w] = held[w] \union rows]
  /\ UNCHANGED vars

Finish(w) ==
  /\ tx' = [tx EXCEPT ![w] = Idle]
  /\ held' = [held EXCEPT ![w] = {}]

\* Any throw, a lost connection, a deadlock victim, Prisma's transaction timeout.
Abort(w) ==
  /\ tx[w].step # "idle"
  /\ Finish(w)
  /\ UNCHANGED vars
---------------------------------------------------------------------------
(* Statements the two have in common.                                      *)

ReadAllocations(w, job, next) ==
  /\ At(w, job, "allocations")
  /\ Run(w, [tx[w] EXCEPT !.step = next, !.rows = alloc[tx[w].payment]], {})

\* SELECT ... FOR UPDATE on the credits of the payment: the rows are those of
\* the statement's snapshot; once it has their locks it looks again and keeps
\* those that are still live.  A credit created meanwhile is not among them.
ScanCredits(w, job) ==
  /\ At(w, job, "scan")
  /\ Run(w, [tx[w] EXCEPT !.step = "credits", !.scan = LiveOf(tx[w].payment)], {})

\* Mutant: the lock is taken and the row is not looked at again.
ScannedLive(w) == tx[w].scan

StillLive(w) == {c \in tx[w].scan : credit[c].status = "LIVE"}

\* The UPDATE of the payment row waits for whoever holds it.
LockPayment(w, job) ==
  /\ At(w, job, "payment_update")
  /\ Run(w, [tx[w] EXCEPT !.step = "commit"], {<<"payment", tx[w].payment>>})
---------------------------------------------------------------------------
(* voidPayment                                                             *)

BeginVoid(w, p) ==
  /\ tx[w].step = "idle"
  /\ payment[p].status = "RECEIVED"
  /\ Run(w, [Idle EXCEPT !.job = "void", !.step = "allocations", !.payment = p], {})

\* Locks one of the rows it read allocations of, in no particular order.
VoidRow(w, i) ==
  /\ At(w, "void", "rows")
  /\ tx[w].rows[i] > 0 /\ tx[w].back[i] = 0
  /\ tx[w].rows[i] <= inst[i].paid
  /\ Run(w, [tx[w] EXCEPT !.back[i] = tx[w].rows[i]], Installments({i}))

\* Mutant: the allocations are deleted before every row has given its money back.
VoidDeleteEarly(w) ==
  /\ At(w, "void", "rows")
  /\ Run(w, [tx[w] EXCEPT !.step = "scan"], {})

VoidDelete(w) ==
  /\ At(w, "void", "rows")
  /\ tx[w].back = tx[w].rows
  /\ Run(w, [tx[w] EXCEPT !.step = "scan"], {})

AllOfThem(cs) == [c \in Credit |-> IF c \in cs THEN credit[c].amount ELSE 0]

\* Mutant: no FOR UPDATE.
VoidCreditsUnlocked(w) ==
  /\ At(w, "void", "credits")
  /\ \A c \in StillLive(w) : credit[c].consumed = 0
  /\ Run(w, [tx[w] EXCEPT !.step = "payment_update", !.take = AllOfThem(StillLive(w))], {})

VoidCredits(w) ==
  /\ At(w, "void", "credits")
  /\ \A c \in StillLive(w) : credit[c].consumed = 0
  /\ Run(w, [tx[w] EXCEPT !.step = "payment_update", !.take = AllOfThem(StillLive(w))],
         Credits(StillLive(w)))

\* Mutant: the update names the payment and not the status it must have.
AnyStatus(p) == TRUE

\* The guards of the two updateMany statements.
StillReceived(p) == payment[p].status = "RECEIVED"
StillPending(r) == refund[r].status = "PENDING"

\* updateMany ... WHERE status = 'RECEIVED', then COMMIT.
CommitVoid(w) ==
  LET p == tx[w].payment
  IN  /\ At(w, "void", "commit")
      /\ StillReceived(p)
      /\ inst' = [i \in Installment |->
                    IF tx[w].back[i] > 0 THEN Voided(inst[i], tx[w].back[i]) ELSE inst[i]]
      /\ alloc' = [alloc EXCEPT ![p] = NoRows]
      /\ credit' = Reversed(credit, {c \in Credit : tx[w].take[c] > 0})
      /\ payment' = [payment EXCEPT ![p].status = "VOIDED"]
      /\ UNCHANGED <<plan, adj, refund, app>>
      /\ Finish(w)
---------------------------------------------------------------------------
(* completeRefund                                                          *)

BeginRefund(w, r, carry) ==
  /\ tx[w].step = "idle"
  /\ refund[r].status = "PENDING"
  /\ Run(w, [Idle EXCEPT !.job = "refund", !.step = "payment", !.refund = r, !.carry = carry,
                         !.payment = refund[r].payment, !.amount = refund[r].amount], {})

ReadPayment(w) ==
  /\ At(w, "refund", "payment")
  /\ Run(w, [tx[w] EXCEPT !.step = "allocations", !.seen = payment[tx[w].payment].status], {})

\* retireCreditsForRefund
RefundCredits(w) ==
  /\ At(w, "refund", "credits")
  /\ \E take \in [Credit -> Amount] :
       /\ Retires(take, StillLive(w), tx[w].amount)
       /\ Run(w, [tx[w] EXCEPT !.step = "rows", !.take = take], Credits(StillLive(w)))

ToReverse(w) == tx[w].amount - Sum(tx[w].take) - Sum(tx[w].back)
RowsLeft(w) == {i \in Installment : tx[w].rows[i] > 0 /\ tx[w].back[i] = 0}

\* The newest allocation row it read and has not unwound.  The row must still
\* be there to be updated or deleted.
UnwindRow(w, i) ==
  LET rank == NewestFirst(tx[w].payment)
      back == IF ToReverse(w) < tx[w].rows[i] THEN ToReverse(w) ELSE tx[w].rows[i]
  IN  /\ At(w, "refund", "rows")
      /\ ToReverse(w) > 0
      /\ i \in RowsLeft(w)
      /\ \A j \in RowsLeft(w) : rank[i] <= rank[j]
      /\ back <= inst[i].paid
      /\ alloc[tx[w].payment][i] > 0
      /\ Run(w, [tx[w] EXCEPT !.back[i] = back], Installments({i}))

\* What is left needs the caller's consent.  The completed refunds are summed
\* and the payment's move is asserted from the status read at the start.
SumRefunds(w) ==
  LET next == AfterRefund(tx[w].payment, tx[w].amount)
  IN  /\ At(w, "refund", "rows")
      /\ ToReverse(w) = 0 \/ (RowsLeft(w) = {} /\ tx[w].carry)
      /\ Permits(PaymentEdge, tx[w].seen, next)
      /\ Run(w, [tx[w] EXCEPT !.step = "payment_update", !.seen = next], {})

\* UPDATE of the payment by id alone, guarded flip of the refund, COMMIT.  An
\* allocation row is written from the amount read before its lock was held.
CommitRefund(w) ==
  LET p == tx[w].payment
      r == tx[w].refund
      back == tx[w].back
  IN  /\ At(w, "refund", "commit")
      /\ StillPending(r)
      /\ inst' = [i \in Installment |->
                    IF back[i] > 0 THEN Unwound(inst[i], back[i]) ELSE inst[i]]
      /\ alloc' = [alloc EXCEPT ![p] = [i \in Installment |->
                    IF back[i] > 0 THEN tx[w].rows[i] - back[i] ELSE alloc[p][i]]]
      /\ Replaces(tx[w].take, p, r, ToReverse(w))
      /\ payment' = [payment EXCEPT ![p].status = tx[w].seen]
      /\ refund' = [refund EXCEPT ![r].status = "COMPLETED"]
      /\ UNCHANGED <<plan, adj, app>>
      /\ Finish(w)
---------------------------------------------------------------------------
(* The other handlers wait for the rows they write.  createRefund locks the *)
(* payment without writing it.                                              *)

Waits ==
  \A w \in Worker :
    /\ \A i \in Installment : <<"inst", i>> \in held[w] => inst'[i] = inst[i]
    /\ \A c \in Credit : <<"credit", c>> \in held[w] => credit'[c] = credit[c]
    /\ \A p \in Payment : <<"payment", p>> \in held[w] => payment'[p] = payment[p]

LockedCreateRefund(r, p, amount) ==
  /\ \A w \in Worker : <<"payment", p>> \notin held[w]
  /\ CreateRefund(r, p, amount)
  /\ UNCHANGED txVars

Other ==
  /\ \/ ReceiptNext
     \/ CreditNext
     \/ AdjustmentNext
     \/ \E r \in Refund : MarkRefundFailed(r)
  /\ Waits
  /\ UNCHANGED txVars
---------------------------------------------------------------------------
TxInit == Init /\ tx = [w \in Worker |-> Idle] /\ held = [w \in Worker |-> {}]

VoidStep(w) ==
  \/ \E p \in Payment : BeginVoid(w, p)
  \/ ReadAllocations(w, "void", "rows")
  \/ \E i \in Installment : VoidRow(w, i)
  \/ VoidDelete(w)
  \/ ScanCredits(w, "void")
  \/ VoidCredits(w)
  \/ LockPayment(w, "void")
  \/ CommitVoid(w)

RefundStep(w) ==
  \/ \E r \in Refund, carry \in BOOLEAN : BeginRefund(w, r, carry)
  \/ ReadPayment(w)
  \/ ReadAllocations(w, "refund", "scan")
  \/ ScanCredits(w, "refund")
  \/ RefundCredits(w)
  \/ \E i \in Installment : UnwindRow(w, i)
  \/ SumRefunds(w)
  \/ LockPayment(w, "refund")
  \/ CommitRefund(w)

TxNext ==
  \/ \E w \in Worker : "void" \in Jobs /\ VoidStep(w)
  \/ \E w \in Worker : "refund" \in Jobs /\ RefundStep(w)
  \/ \E w \in Worker : Abort(w)
  \/ \E r \in Refund, p \in Payment, amount \in Amount : LockedCreateRefund(r, p, amount)
  \/ Other

TxSpec == TxInit /\ [][TxNext]_allVars
---------------------------------------------------------------------------
(* What the transactions promise.                                          *)

\* Transactions and locks are well formed.
TxTypeOK ==
  /\ TypeOK
  /\ tx \in [Worker ->
       [step : {"idle", "payment", "allocations", "scan", "credits", "rows",
                "payment_update", "commit"},
        job : {"none", "void", "refund"}, payment : Payment \union {0},
        refund : Refund \union {0}, amount : Amount, carry : BOOLEAN,
        seen : PaymentStatus \union {"NONE"}, rows : [Installment -> Amount],
        back : [Installment -> Amount], scan : SUBSET Credit, take : [Credit -> Amount]]]
  /\ held \in [Worker -> SUBSET Lockable]

\* Every behaviour is one of BillingLedger, where each handler is one step.
SerialLedger == Spec

\* A void that commits did what voidPayment does in one piece, whatever ran
\* beside it: rows it read unlocked were still those rows.
VoidIsSerial ==
  [][\A w \in Worker : CommitVoid(w) => VoidPayment(tx[w].payment)]_allVars

\* A lost update errs to one side.  Two refunds that overlap may leave a payment
\* more allocations than money is left of it, never fewer: a row is not called
\* paid by more than there are allocations and credits to show for it.
PaidIsBacked ==
  \A i \in Installment :
    inst[i].paid <= Sum([p \in Payment |-> alloc[p][i]]) + Sum([c \in Credit |-> app[c][i]])

\* A refund is paid out once: no two transactions both complete it, and none
\* completes one that was marked failed.
RefundPaidOnce ==
  [][\A r \in Refund :
       refund[r].status \in {"COMPLETED", "FAILED"} => refund'[r] = refund[r]]_allVars
=============================================================================
