-------------------------- MODULE ReversalTxProofs --------------------------
(***************************************************************************)
(* What ReversalTx promises, proved.  Reversals overlap statement by       *)
(* statement, so the invariant of the ledger is not enough: TxInv adds     *)
(* what a request in flight may rely on.  It holds the lock of every row   *)
(* and credit it will take from, no row is locked by two, and what a void  *)
(* has read of its payment is still so for as long as the payment stands.  *)
(*                                                                         *)
(* A statement changes no table, so only the request that ran it has to be *)
(* looked at (RunKeeps).  A commit or another handler does change them;    *)
(* the other requests only have to know that it was Gentle to what they    *)
(* read and left what they locked Untouched (OthersKept).                  *)
(*                                                                         *)
(* What overlapping refunds do to each other is in RacesInv.  They lose    *)
(* updates of the allocations and of the payment's status; they still      *)
(* never pay out twice or more than was received, and never leave a row    *)
(* with money nobody allocated to it.                                      *)
(*                                                                         *)
(* With one request in flight a refund, too, finds what it read: AloneInv  *)
(* follows it statement by statement up to the moment its commit is        *)
(* CompleteRefund (AloneIsSerial).  With two it is not: see the run        *)
(* tx_lost_update.                                                         *)
(***************************************************************************)
EXTENDS ReversalTx, BillingLedgerProofs

---------------------------------------------------------------------------
(* The invariant.                                                          *)

\* What the bounds and the guards of the handlers keep of the tables.
DataOK ==
  /\ alloc \in [Payment -> [Installment -> Amount]]
  /\ \A r \in Refund :
       /\ refund[r].amount \in Amount
       /\ refund[r].status # "NONE" => payment[refund[r].payment].status # "NONE"
  /\ \A c \in Credit : /\ credit[c].amount \in Amount
                       /\ credit[c].status # "NONE" => credit[c].amount > 0

TxRow == [step : {"idle", "payment", "allocations", "scan", "credits", "rows",
                  "payment_update", "commit"},
          job : {"none", "void", "refund"}, payment : Payment \union {0},
          refund : Refund \union {0}, amount : Amount, carry : BOOLEAN,
          seen : PaymentStatus \union {"NONE"}, rows : [Installment -> Amount],
          back : [Installment -> Amount], scan : SUBSET Credit, take : [Credit -> Amount]]

\* A request t that has begun works on a payment that was received.
Working(t) ==
  /\ t.payment \in Payment /\ payment[t.payment].status # "NONE"
  /\ t.job \in {"void", "refund"}
  /\ t.job = "refund" => t.refund \in Refund
  /\ t.job = "refund" /\ t.step \in {"payment_update", "commit"}
       => t.seen \in {"PARTIALLY_REFUNDED", "REFUNDED"}

\* It holds the lock of what it will take back, and the row has what is taken.
Holds(t, locks) ==
  /\ \A i \in Installment :
       t.back[i] > 0 => /\ <<"inst", i>> \in locks
                        /\ t.back[i] <= inst[i].paid /\ t.back[i] <= t.rows[i]
  /\ \A c \in Credit :
       t.take[c] > 0 => /\ <<"credit", c>> \in locks
                        /\ credit[c].status = "LIVE" /\ credit[c].consumed = 0
                        /\ credit[c].source = FromPayment(t.payment)

\* The credits it found are the payment's for good.
Scanned(t) ==
  \A c \in t.scan : credit[c].status # "NONE" /\ credit[c].source = FromPayment(t.payment)

\* What a void read is still so, for as long as its payment stands.
VoidReads(t) ==
  /\ t.step # "allocations" => t.rows = alloc[t.payment]
  /\ t.step \notin {"allocations", "rows"} => t.back = t.rows
  /\ t.step = "credits" => LiveOf(t.payment) \subseteq t.scan
  /\ t.step \in {"payment_update", "commit"} => \A c \in LiveOf(t.payment) : t.take[c] > 0

RequestOK(t, locks) ==
  /\ t \in TxRow
  /\ t.step = "idle" => t = Idle
  /\ t.step # "idle" => Working(t)
  /\ t.step \in {"payment", "allocations"} => \A i \in Installment : t.back[i] = 0
  /\ Holds(t, locks)
  /\ Scanned(t)
  /\ t.job = "void" /\ payment[t.payment].status = "RECEIVED" => VoidReads(t)

Workers == /\ tx \in [Worker -> TxRow]
           /\ \A w \in Worker : RequestOK(tx[w], held[w])

\* No row is locked by two.
Locking ==
  /\ held \in [Worker -> SUBSET Lockable]
  /\ \A w, x \in Worker : w # x => held[w] \intersect held[x] = {}

TxInv == LedgerInv /\ DataOK /\ Locking /\ Workers

---------------------------------------------------------------------------
(* Statements before the commit.  The tables stay as they are.             *)

\* What is left to show of a statement: the request is in order with what it was
\* told and the locks it was given.
LEMMA RunKeeps ==
  ASSUME TxInv, NEW w \in Worker, NEW next, NEW rows \in SUBSET Lockable,
         Run(w, next, rows), RequestOK(next, held[w] \union rows)
  PROVE  TxInv'
<1>1. LedgerInv' /\ DataOK'
  BY DEF TxInv, LedgerInv, TypeOK, RowsOK, CreditWithinAmount, DataOK, Run, vars
<1>2. /\ tx' = [tx EXCEPT ![w] = next] /\ held' = [held EXCEPT ![w] = held[w] \union rows]
      /\ \A x \in Worker \ {w} : rows \intersect held[x] = {}
  BY DEF Run, Free
<1>3. Locking' BY <1>2 DEF TxInv, Locking
<1>4. next \in TxRow BY DEF RequestOK
<1>5. tx' \in [Worker -> TxRow] BY <1>2, <1>4 DEF TxInv, Workers
<1>6. ASSUME NEW x \in Worker PROVE RequestOK(tx'[x], held'[x])
  BY <1>2 DEF TxInv, Workers, Locking
<1>7. ASSUME NEW x \in Worker PROVE RequestOK(tx[x], held[x])'
  <2>1. UNCHANGED <<inst, credit, payment, alloc>> BY DEF Run, vars
  <2> QED BY <1>6, <2>1 DEF RequestOK, Working, Holds, Scanned, VoidReads, LiveOf
<1> QED BY <1>1, <1>3, <1>5, <1>7 DEF TxInv, Workers

\* What the invariant says of one worker.
LEMMA OneWorker ==
  ASSUME TxInv, NEW w \in Worker
  PROVE  /\ tx[w] \in TxRow /\ RequestOK(tx[w], held[w])
         /\ held[w] \union {} = held[w]
BY DEF TxInv, Workers

\* Idle is a request.
LEMMA IdleTyped == Idle \in TxRow /\ Idle.step = "idle" /\ Idle.job = "none"
<1>1. 0 \in Amount BY MaxMinorAssumption DEF Amount
<1> QED BY <1>1 DEF Idle, TxRow, NoRows

\* An idle worker is in order whatever it holds.
LEMMA IdleOK == \A locks : RequestOK(Idle, locks)
BY IdleTyped DEF RequestOK, Holds, Scanned, Idle, NoRows

\* A request has nothing in hand when it begins.
LEMMA BeginVoidKeeps ==
  ASSUME TxInv, NEW w \in Worker, NEW p \in Payment, BeginVoid(w, p)
  PROVE  TxInv'
<1> DEFINE next == [Idle EXCEPT !.job = "void", !.step = "allocations", !.payment = p]
<1>1. next \in TxRow BY IdleTyped DEF TxRow
<1>2. RequestOK(next, held[w] \union {})
  BY <1>1 DEF BeginVoid, RequestOK, Working, Holds, Scanned, VoidReads, Idle, NoRows
<1> QED BY <1>2, RunKeeps DEF BeginVoid

\* A refund names a payment that was received.
LEMMA BeginRefundKeeps ==
  ASSUME TxInv, NEW w \in Worker, NEW r \in Refund, NEW carry \in BOOLEAN, BeginRefund(w, r, carry)
  PROVE  TxInv'
<1> DEFINE p == refund[r].payment
           next == [Idle EXCEPT !.job = "refund", !.step = "payment", !.refund = r, !.carry = carry,
                                !.payment = p, !.amount = refund[r].amount]
<1>1. p \in Payment /\ refund[r].amount \in Amount /\ payment[p].status # "NONE"
  BY DEF BeginRefund, TxInv, LedgerInv, TypeOK, DataOK
<1>2. next \in TxRow BY <1>1, IdleTyped DEF TxRow
<1>3. RequestOK(next, held[w] \union {})
  BY <1>1, <1>2 DEF RequestOK, Working, Holds, Scanned, Idle, NoRows
<1> QED BY <1>3, RunKeeps DEF BeginRefund

\* The status it reads is kept for later and says nothing of the tables.
LEMMA ReadPaymentKeeps ==
  ASSUME TxInv, NEW w \in Worker, ReadPayment(w)
  PROVE  TxInv'
<1> DEFINE t == tx[w]
           next == [t EXCEPT !.step = "allocations", !.seen = payment[t.payment].status]
<1>1. t \in TxRow /\ RequestOK(t, held[w]) /\ t.job = "refund" /\ t.step = "payment"
  BY OneWorker DEF ReadPayment, At
<1>2. payment[t.payment].status \in PaymentStatus \union {"NONE"}
  BY <1>1 DEF RequestOK, Working, TxInv, LedgerInv, TypeOK, PaymentRow
<1>3. next \in TxRow BY <1>1, <1>2 DEF TxRow
<1>4. RequestOK(next, held[w] \union {})
  BY <1>1, <1>3 DEF RequestOK, Working, Holds, Scanned, TxRow
<1> QED BY <1>4, RunKeeps DEF ReadPayment

\* The allocations it reads are those of the payment.
LEMMA ReadAllocationsKeeps ==
  ASSUME TxInv, NEW w \in Worker, NEW job \in {"void", "refund"},
         NEW step \in {"rows", "scan"}, job = "void" => step = "rows",
         ReadAllocations(w, job, step)
  PROVE  TxInv'
<1> DEFINE t == tx[w]
           next == [t EXCEPT !.step = step, !.rows = alloc[t.payment]]
<1>1. t \in TxRow /\ RequestOK(t, held[w]) /\ t.job = job /\ t.step = "allocations"
  BY OneWorker DEF ReadAllocations, At
<1>2. t.payment \in Payment /\ alloc[t.payment] \in [Installment -> Amount]
  BY <1>1 DEF RequestOK, Working, TxInv, DataOK
<1>3. next \in TxRow BY <1>1, <1>2 DEF TxRow
<1>4. /\ next.step = step /\ next.job = job /\ next.payment = t.payment /\ next.back = t.back
      /\ next.take = t.take /\ next.scan = t.scan /\ next.refund = t.refund
      /\ next.rows = alloc[t.payment]
  BY <1>1 DEF TxRow
<1>5. Run(w, next, {}) BY DEF ReadAllocations
<1> HIDE DEF next
<1>6. RequestOK(next, held[w] \union {})
  <2>1. Working(next) BY <1>1, <1>4 DEF RequestOK, Working
  <2>2. \A i \in Installment : next.back[i] = 0 BY <1>1, <1>4 DEF RequestOK
  <2>3. Holds(next, held[w]) BY <1>1, <1>2, <1>4, <2>2 DEF RequestOK, Holds
  <2>4. Scanned(next) BY <1>1, <1>4 DEF RequestOK, Scanned
  <2>5. job = "void" => VoidReads(next) BY <1>4 DEF VoidReads
  <2> QED BY <1>3, <1>4, <2>1, <2>2, <2>3, <2>4, <2>5 DEF RequestOK
<1> QED BY <1>5, <1>6, RunKeeps

\* The credits it finds are the live ones of the payment.
LEMMA ScanCreditsKeeps ==
  ASSUME TxInv, NEW w \in Worker, NEW job \in {"void", "refund"}, ScanCredits(w, job)
  PROVE  TxInv'
<1> DEFINE t == tx[w]
           next == [t EXCEPT !.step = "credits", !.scan = LiveOf(t.payment)]
<1>1. t \in TxRow /\ RequestOK(t, held[w]) /\ t.job = job /\ t.step = "scan"
  BY OneWorker DEF ScanCredits, At
<1>2. LiveOf(t.payment) \in SUBSET Credit
      /\ \A c \in LiveOf(t.payment) : /\ credit[c].status = "LIVE"
                                      /\ credit[c].source = FromPayment(t.payment)
  BY DEF LiveOf
<1>3. next \in TxRow BY <1>1, <1>2 DEF TxRow
<1>4. RequestOK(next, held[w] \union {})
  BY <1>1, <1>2, <1>3 DEF RequestOK, Working, Holds, Scanned, VoidReads, TxRow
<1> QED BY <1>4, RunKeeps DEF ScanCredits

\* The payment row is locked and nothing else is learned.
LEMMA LockPaymentKeeps ==
  ASSUME TxInv, NEW w \in Worker, NEW job \in {"void", "refund"}, LockPayment(w, job)
  PROVE  TxInv'
<1> DEFINE t == tx[w]
           next == [t EXCEPT !.step = "commit"]
           rows == {<<"payment", t.payment>>}
<1>1. t \in TxRow /\ RequestOK(t, held[w]) /\ t.job = job /\ t.step = "payment_update"
  BY OneWorker DEF LockPayment, At
<1>2. next \in TxRow BY <1>1 DEF TxRow
<1>3. rows \in SUBSET Lockable BY <1>1 DEF RequestOK, Working, Lockable
<1>4. RequestOK(next, held[w] \union rows)
  BY <1>1, <1>2 DEF RequestOK, Working, Holds, Scanned, VoidReads, TxRow
<1> QED BY <1>3, <1>4, RunKeeps DEF LockPayment

\* A void locks a row and has checked that it can take its money back.
LEMMA VoidRowKeeps ==
  ASSUME TxInv, NEW w \in Worker, NEW i \in Installment, VoidRow(w, i)
  PROVE  TxInv'
<1> DEFINE t == tx[w]
           next == [t EXCEPT !.back[i] = t.rows[i]]
           rows == Installments({i})
<1>1. t \in TxRow /\ RequestOK(t, held[w]) /\ t.job = "void" /\ t.step = "rows"
      /\ t.rows[i] <= inst[i].paid
  BY OneWorker DEF VoidRow, At
<1>2. t.rows \in [Installment -> Amount] /\ t.back \in [Installment -> Amount]
  BY <1>1 DEF TxRow
<1>3. next \in TxRow BY <1>1, <1>2 DEF TxRow
<1>4. \A j \in Installment : next.back[j] = IF j = i THEN t.rows[i] ELSE t.back[j]
  BY <1>1, <1>2 DEF TxRow
<1>5. /\ next.rows = t.rows /\ next.take = t.take /\ next.payment = t.payment
      /\ next.step = t.step /\ next.job = t.job /\ next.scan = t.scan
      /\ next.refund = t.refund /\ next.seen = t.seen
  BY <1>1 DEF TxRow
<1>6. rows \in SUBSET Lockable /\ <<"inst", i>> \in rows BY DEF Installments, Lockable
<1>7. \A n \in Amount : n <= n BY AmountNat
<1> HIDE DEF next, rows
<1>8. Holds(next, held[w] \union rows)
  <2>1. t.rows[i] <= t.rows[i] BY <1>2, <1>7
  <2> QED BY <1>1, <1>4, <1>5, <1>6, <2>1 DEF RequestOK, Holds
<1>9. RequestOK(next, held[w] \union rows)
  BY <1>1, <1>3, <1>5, <1>8 DEF RequestOK, Working, Scanned, VoidReads
<1> QED BY <1>6, <1>9, RunKeeps DEF VoidRow, next, rows

\* It goes on once every row it read is locked.
LEMMA VoidDeleteKeeps ==
  ASSUME TxInv, NEW w \in Worker, VoidDelete(w)
  PROVE  TxInv'
<1> DEFINE t == tx[w]
           next == [t EXCEPT !.step = "scan"]
<1>1. t \in TxRow /\ RequestOK(t, held[w]) /\ t.job = "void" /\ t.step = "rows" /\ t.back = t.rows
  BY OneWorker DEF VoidDelete, At
<1>2. next \in TxRow BY <1>1 DEF TxRow
<1>3. RequestOK(next, held[w] \union {})
  BY <1>1, <1>2 DEF RequestOK, Working, Holds, Scanned, VoidReads, TxRow
<1> QED BY <1>3, RunKeeps DEF VoidDelete

\* The live credits among those found are locked, unspent, and all of them.
LEMMA VoidCreditsKeeps ==
  ASSUME TxInv, NEW w \in Worker, VoidCredits(w)
  PROVE  TxInv'
<1> DEFINE t == tx[w]
           live == StillLive(w)
           next == [t EXCEPT !.step = "payment_update", !.take = AllOfThem(live)]
           rows == Credits(live)
<1>1. t \in TxRow /\ RequestOK(t, held[w]) /\ t.job = "void" /\ t.step = "credits"
      /\ \A c \in live : credit[c].consumed = 0
  BY OneWorker DEF VoidCredits, At
<1>2. live \in SUBSET Credit
      /\ \A c \in Credit : c \in live <=> c \in t.scan /\ credit[c].status = "LIVE"
  BY <1>1 DEF StillLive, TxRow
<1>3. \A c \in live : credit[c].source = FromPayment(t.payment)
  BY <1>1, <1>2 DEF RequestOK, Scanned
<1>4. \A c \in Credit : /\ credit[c].amount \in Amount
                        /\ credit[c].status # "NONE" => credit[c].amount > 0
  BY DEF TxInv, DataOK
<1>5. 0 \in Amount /\ 0 \in Nat BY MaxMinorAssumption DEF Amount
<1>6. AllOfThem(live) \in [Credit -> Amount] BY <1>4, <1>5 DEF AllOfThem
<1>7. \A c \in Credit : AllOfThem(live)[c] > 0 <=> c \in live
  BY <1>2, <1>4 DEF AllOfThem
<1>8. next \in TxRow BY <1>1, <1>6 DEF TxRow
<1>9. rows \in SUBSET Lockable /\ \A c \in live : <<"credit", c>> \in rows
  BY <1>2 DEF Credits, Lockable
<1>10. /\ next.rows = t.rows /\ next.back = t.back /\ next.payment = t.payment
       /\ next.step = "payment_update" /\ next.job = t.job /\ next.scan = t.scan
       /\ next.take = AllOfThem(live)
  BY <1>1 DEF TxRow
<1> HIDE DEF next, rows, live
<1>11. Holds(next, held[w] \union rows)
  BY <1>1, <1>2, <1>3, <1>7, <1>9, <1>10 DEF RequestOK, Holds
<1>12. VoidReads(t) => VoidReads(next)
  <2> SUFFICES ASSUME VoidReads(t) PROVE VoidReads(next)
    OBVIOUS
  <2>1. \A c \in LiveOf(t.payment) : c \in live
    BY <1>1, <1>2 DEF VoidReads, LiveOf
  <2> QED BY <1>1, <1>7, <1>10, <2>1 DEF VoidReads, LiveOf
<1>13. RequestOK(next, held[w] \union rows)
  BY <1>1, <1>8, <1>10, <1>11, <1>12 DEF RequestOK, Working, Scanned
<1> QED BY <1>9, <1>13, RunKeeps DEF VoidCredits, next, rows, live

\* Of the live credits only unspent ones are taken from.
LEMMA RefundCreditsKeeps ==
  ASSUME TxInv, NEW w \in Worker, RefundCredits(w)
  PROVE  TxInv'
<1> DEFINE t == tx[w]
           live == StillLive(w)
<1>1. PICK take \in [Credit -> Amount] :
        /\ Retires(take, live, t.amount)
        /\ Run(w, [t EXCEPT !.step = "rows", !.take = take], Credits(live))
  BY DEF RefundCredits
<1> DEFINE next == [t EXCEPT !.step = "rows", !.take = take]
           rows == Credits(live)
<1>2. t \in TxRow /\ RequestOK(t, held[w]) /\ t.job = "refund" /\ t.step = "credits"
  BY OneWorker DEF RefundCredits, At
<1>3. live \in SUBSET Credit
      /\ \A c \in live : /\ credit[c].status = "LIVE"
                         /\ credit[c].source = FromPayment(t.payment)
  BY <1>2 DEF StillLive, TxRow, RequestOK, Scanned
<1>4. ASSUME NEW c \in Credit, take[c] > 0
      PROVE  c \in live /\ credit[c].consumed = 0
  <2>1. c \in live BY <1>1, <1>4 DEF Retires
  <2>2. credit[c].consumed > 0 => take[c] = 0 BY <1>1, <2>1 DEF Retires
  <2>3. credit[c].consumed \in Nat BY DEF TxInv, LedgerInv, TypeOK, CreditRow
  <2> QED BY <1>4, <2>1, <2>2, <2>3
<1>5. next \in TxRow BY <1>2 DEF TxRow
<1>6. rows \in SUBSET Lockable /\ \A c \in live : <<"credit", c>> \in rows
  BY <1>3 DEF Credits, Lockable
<1>7. /\ next.rows = t.rows /\ next.back = t.back /\ next.payment = t.payment
      /\ next.step = "rows" /\ next.job = t.job /\ next.scan = t.scan
      /\ next.refund = t.refund /\ next.take = take
  BY <1>2 DEF TxRow
<1>8. Run(w, next, rows) BY <1>1
<1> HIDE DEF next, rows, live
<1>9. Holds(next, held[w] \union rows)
  BY <1>2, <1>3, <1>4, <1>6, <1>7 DEF RequestOK, Holds
<1>10. RequestOK(next, held[w] \union rows)
  BY <1>2, <1>5, <1>7, <1>9 DEF RequestOK, Working, Scanned
<1> QED BY <1>6, <1>8, <1>10, RunKeeps

\* A refund takes no more off a row than the row has.
LEMMA UnwindRowKeeps ==
  ASSUME TxInv, NEW w \in Worker, NEW i \in Installment, UnwindRow(w, i)
  PROVE  TxInv'
<1> DEFINE t == tx[w]
           back == IF ToReverse(w) < t.rows[i] THEN ToReverse(w) ELSE t.rows[i]
           next == [t EXCEPT !.back[i] = back]
           rows == Installments({i})
<1>1. t \in TxRow /\ RequestOK(t, held[w]) /\ t.job = "refund" /\ t.step = "rows"
      /\ ToReverse(w) > 0 /\ back <= inst[i].paid /\ t.rows[i] > 0
  BY OneWorker DEF UnwindRow, At, RowsLeft
<1>2. t.rows \in [Installment -> Amount] /\ t.back \in [Installment -> Amount]
  BY <1>1 DEF TxRow
<1>3. ToReverse(w) \in Int
  <2>1. t.amount \in Int /\ \A c \in Credit : t.take[c] \in Int
    BY <1>1, AmountNat DEF TxRow
  <2>2. \A j \in Installment : t.back[j] \in Int BY <1>2, AmountNat
  <2>3. t.take \in [Credit -> Amount] BY <1>1 DEF TxRow
  <2>4. /\ Sum(t.take) = SumFunctionOnSet(t.take, Credit)
        /\ Sum(t.back) = SumFunctionOnSet(t.back, Installment)
    BY <1>2, <2>3, SumIs
  <2>5. Sum(t.take) \in Int /\ Sum(t.back) \in Int
    BY <2>1, <2>2, <2>4, FiniteAssumption, SumInt
  <2> QED BY <2>1, <2>5 DEF ToReverse
<1>4. t.rows[i] \in Amount /\ t.rows[i] \in Nat BY <1>2, AmountNat
<1>5. back \in Amount /\ back <= t.rows[i]
  BY <1>1, <1>3, <1>4, MaxMinorAssumption DEF Amount
<1> HIDE DEF back
<1>6. next \in TxRow BY <1>1, <1>2, <1>5 DEF TxRow
<1>7. \A j \in Installment : next.back[j] = IF j = i THEN back ELSE t.back[j]
  BY <1>1, <1>2 DEF TxRow
<1>8. /\ next.rows = t.rows /\ next.take = t.take /\ next.payment = t.payment
      /\ next.step = t.step /\ next.job = t.job /\ next.scan = t.scan
      /\ next.refund = t.refund /\ next.seen = t.seen
  BY <1>1 DEF TxRow
<1>9. rows \in SUBSET Lockable /\ <<"inst", i>> \in rows BY DEF Installments, Lockable
<1>10. Run(w, next, rows) BY DEF UnwindRow, back
<1> HIDE DEF next, rows
<1>11. Holds(next, held[w] \union rows)
  BY <1>1, <1>5, <1>7, <1>8, <1>9 DEF RequestOK, Holds
<1>12. RequestOK(next, held[w] \union rows)
  BY <1>1, <1>6, <1>8, <1>11 DEF RequestOK, Working, Scanned
<1> QED BY <1>9, <1>10, <1>12, RunKeeps

\* The status it will write is one of a refunded payment.
LEMMA SumRefundsKeeps ==
  ASSUME TxInv, NEW w \in Worker, SumRefunds(w)
  PROVE  TxInv'
<1> DEFINE t == tx[w]
           to == AfterRefund(t.payment, t.amount)
           next == [t EXCEPT !.step = "payment_update", !.seen = to]
<1>1. t \in TxRow /\ RequestOK(t, held[w]) /\ t.job = "refund" /\ t.step = "rows"
  BY OneWorker DEF SumRefunds, At
<1>2. to \in {"PARTIALLY_REFUNDED", "REFUNDED"} BY DEF AfterRefund
<1>3. Run(w, next, {}) BY DEF SumRefunds
<1> HIDE DEF to
<1>4. next \in TxRow BY <1>1, <1>2 DEF TxRow, PaymentStatus
<1>5. RequestOK(next, held[w] \union {})
  BY <1>1, <1>2, <1>4 DEF RequestOK, Working, Holds, Scanned, TxRow
<1> QED BY <1>3, <1>5, RunKeeps

---------------------------------------------------------------------------
(* What goes on beside a request.                                          *)

\* No step gives a payment back what it had before it was received, or gives one
\* that stands more credits, or a credit another source.
Gentle ==
  /\ \A p \in Payment : payment[p].status # "NONE" =>
       /\ payment'[p].status # "NONE"
       /\ payment'[p].status = "RECEIVED" =>
            /\ payment[p].status = "RECEIVED"
            /\ alloc'[p] = alloc[p]
            /\ LiveOf(p)' \subseteq LiveOf(p)
  /\ \A c \in Credit : credit[c].status # "NONE" =>
       credit'[c].status # "NONE" /\ credit'[c].source = credit[c].source

\* The step writes no row and no credit that x has found and locked.
Untouched(x) ==
  /\ \A i \in Installment : <<"inst", i>> \in held[x] => inst'[i] = inst[i]
  /\ \A c \in Credit :
       <<"credit", c>> \in held[x] /\ credit[c].status # "NONE" => credit'[c] = credit[c]

\* Such a step leaves the requests of others in order.
LEMMA OthersKept ==
  ASSUME TxInv, NEW x \in Worker, tx'[x] = tx[x], held'[x] = held[x], Gentle, Untouched(x)
  PROVE  RequestOK(tx[x], held[x])'
<1> DEFINE t == tx[x]
<1>1. t \in TxRow /\ RequestOK(t, held[x]) BY OneWorker
<1>2. t.step # "idle" => t.payment \in Payment /\ payment[t.payment].status # "NONE"
  BY <1>1 DEF RequestOK, Working
<1>3. (t.step # "idle" => Working(t))'
  BY <1>1, <1>2 DEF RequestOK, Working, Gentle
<1>4. Holds(t, held[x])'
  BY <1>1 DEF RequestOK, Holds, Untouched
<1>5. Scanned(t)'
  BY <1>1 DEF RequestOK, Scanned, Gentle, TxRow
<1>6. (t.job = "void" /\ payment[t.payment].status = "RECEIVED" => VoidReads(t))'
  <2> SUFFICES ASSUME t.job = "void", payment'[t.payment].status = "RECEIVED"
               PROVE  VoidReads(t)'
    OBVIOUS
  <2>1. t.step # "idle" BY <1>1, IdleTyped DEF RequestOK
  <2>2. /\ payment[t.payment].status = "RECEIVED"
        /\ alloc'[t.payment] = alloc[t.payment]
        /\ LiveOf(t.payment)' \subseteq LiveOf(t.payment)
    BY <1>2, <2>1 DEF Gentle
  <2>3. VoidReads(t) BY <1>1, <2>2 DEF RequestOK
  <2> QED BY <2>2, <2>3 DEF VoidReads
<1> QED BY <1>1, <1>3, <1>4, <1>5, <1>6 DEF RequestOK

\* A request that commits lets go of its locks; the others are kept.
LEMMA FinishKeeps ==
  ASSUME TxInv, LedgerInv', DataOK', NEW w \in Worker, Finish(w), Gentle,
         \A x \in Worker \ {w} : Untouched(x)
  PROVE  TxInv'
<1>1. /\ tx' = [tx EXCEPT ![w] = Idle] /\ held' = [held EXCEPT ![w] = {}]
      /\ tx \in [Worker -> TxRow] /\ held \in [Worker -> SUBSET Lockable]
  BY DEF Finish, TxInv, Workers, Locking
<1>2. Locking' BY <1>1 DEF TxInv, Locking
<1>3. tx' \in [Worker -> TxRow] BY <1>1, IdleTyped
<1>4. ASSUME NEW x \in Worker PROVE RequestOK(tx[x], held[x])'
  <2>1. CASE x = w
    <3>1. tx'[x] = Idle BY <1>1, <2>1
    <3> QED BY <3>1, IdleTyped DEF RequestOK, Holds, Scanned, Idle, NoRows
  <2>2. CASE x # w
    <3>1. tx'[x] = tx[x] /\ held'[x] = held[x] BY <1>1, <2>2
    <3> QED BY <2>2, <3>1, OthersKept
  <2> QED BY <2>1, <2>2
<1> QED BY <1>2, <1>3, <1>4 DEF TxInv, Workers

\* A request that fails lets go of its locks too.
LEMMA AbortKeeps ==
  ASSUME TxInv, NEW w \in Worker, Abort(w)
  PROVE  TxInv'
<1>1. UNCHANGED vars /\ Finish(w) BY DEF Abort
<1>2. LedgerInv' /\ DataOK'
  BY <1>1 DEF TxInv, LedgerInv, TypeOK, RowsOK, CreditWithinAmount, DataOK, vars
<1>3. Gentle /\ \A x \in Worker : Untouched(x) BY <1>1 DEF Gentle, Untouched, LiveOf, vars
<1> QED BY <1>1, <1>2, <1>3, FinishKeeps

\* What one request locked, no other did.
LEMMA LockedByOne ==
  ASSUME TxInv, NEW w \in Worker, NEW x \in Worker \ {w}, NEW lock \in held[w]
  PROVE  lock \notin held[x]
BY DEF TxInv, Locking

---------------------------------------------------------------------------
(* The commits.                                                            *)

\* voidPayment takes back what it locked.
LEMMA CommitVoidKeeps ==
  ASSUME TxInv, NEW w \in Worker, CommitVoid(w)
  PROVE  TxInv'
<1> DEFINE t == tx[w]
           p == t.payment
           taken == {c \in Credit : t.take[c] > 0}
<1>1. t \in TxRow /\ RequestOK(t, held[w]) /\ t.step = "commit" /\ TypeOK /\ RowsOK
  BY OneWorker DEF CommitVoid, At, TxInv, LedgerInv
<1>2. p \in Payment /\ payment[p].status # "NONE" BY <1>1 DEF RequestOK, Working
<1>3. /\ inst' = [i \in Installment |->
                    IF t.back[i] > 0 THEN Voided(inst[i], t.back[i]) ELSE inst[i]]
      /\ alloc' = [alloc EXCEPT ![p] = NoRows]
      /\ credit' = Reversed(credit, taken)
      /\ payment' = [payment EXCEPT ![p].status = "VOIDED"]
      /\ UNCHANGED <<plan, adj, refund, app>>
      /\ Finish(w)
  BY DEF CommitVoid
<1>4. t.back \in [Installment -> Amount] /\ 0 \in Amount /\ 0 \in Nat
  BY <1>1, MaxMinorAssumption DEF TxRow, Amount
<1>5. ASSUME NEW i \in Installment
      PROVE  inst'[i] \in InstallmentRow /\ RowOK(inst'[i], Gross[i], adj'[i])
  <2>1. /\ inst[i] \in InstallmentRow /\ adj[i] \in Int /\ Gross[i] \in Int
        /\ RowOK(inst[i], Gross[i], adj[i]) /\ t.back[i] \in Nat
    BY <1>1, <1>4, RowFacts, AmountNat
  <2>2. CASE t.back[i] > 0
    <3>1. t.back[i] <= inst[i].paid BY <1>1, <2>2 DEF RequestOK, Holds
    <3>2. inst'[i] = Voided(inst[i], t.back[i]) BY <1>3, <2>2
    <3> QED BY <1>3, <2>1, <2>2, <3>1, <3>2, VoidedRow
  <2>3. CASE ~(t.back[i] > 0) BY <1>3, <2>1, <2>3
  <2> QED BY <2>2, <2>3
<1>6. inst' \in [Installment -> InstallmentRow] /\ RowsOK' BY <1>3, <1>5 DEF RowsOK
<1>7. \A c \in taken : /\ <<"credit", c>> \in held[w] /\ credit[c].consumed = 0
                       /\ credit[c].status = "LIVE"
  BY <1>1 DEF RequestOK, Holds
<1>8. CreditsOK(credit')
  BY <1>3, <1>7, ReversedKeeps, CreditsFromInv DEF TxInv
<1>9. alloc' \in [Payment -> [Installment -> Amount]]
      /\ alloc' \in [Payment -> [Installment -> Nat]]
  <2>1. NoRows \in [Installment -> Amount] BY <1>4 DEF NoRows
  <2>2. alloc \in [Payment -> [Installment -> Amount]] BY DEF TxInv, DataOK
  <2>3. alloc' \in [Payment -> [Installment -> Amount]] BY <1>3, <2>1, <2>2
  <2> QED BY <2>3, AmountNat
<1>10. payment' \in [Payment -> PaymentRow]
       /\ \A q \in Payment : payment'[q].status = IF q = p THEN "VOIDED" ELSE payment[q].status
  <2>1. payment \in [Payment -> PaymentRow] BY <1>1 DEF TypeOK
  <2> HIDE DEF p
  <2> QED BY <1>2, <1>3, <2>1 DEF PaymentRow, PaymentStatus
<1>11. LedgerInv'
  <2>1. credit' \in [Credit -> CreditRow] /\ CreditWithinAmount'
    BY <1>8 DEF CreditsOK, CreditWithinAmount
  <2>2. TypeOK' BY <1>1, <1>3, <1>6, <1>9, <1>10, <2>1 DEF TypeOK
  <2> QED BY <1>6, <2>1, <2>2 DEF LedgerInv
<1>12. \A c \in Credit : /\ credit'[c].amount = credit[c].amount
                         /\ credit'[c].source = credit[c].source
                         /\ credit'[c].status = IF c \in taken THEN "REVERSED" ELSE credit[c].status
                         /\ c \notin taken => credit'[c] = credit[c]
  BY <1>1, <1>3 DEF Reversed, TypeOK, CreditRow
<1>13. DataOK'
  <2>1. \A r \in Refund : refund[r].status # "NONE" => payment'[refund[r].payment].status # "NONE"
    BY <1>1, <1>10 DEF TxInv, DataOK, TypeOK
  <2>2. \A c \in Credit : credit'[c].status # "NONE" => credit[c].status # "NONE"
    BY <1>7, <1>12
  <2> QED BY <1>3, <1>9, <1>12, <2>1, <2>2 DEF TxInv, DataOK
<1>14. Gentle
  <2>1. \A q \in Payment : q # p => alloc'[q] = alloc[q] BY <1>1, <1>3 DEF TypeOK
  <2>2. \A q \in Payment : LiveOf(q)' \subseteq LiveOf(q) BY <1>12 DEF LiveOf
  <2> QED BY <1>10, <1>12, <2>1, <2>2 DEF Gentle
<1>15. ASSUME NEW x \in Worker \ {w} PROVE Untouched(x)
  <2>1. \A i \in Installment : t.back[i] > 0 => <<"inst", i>> \in held[w]
    BY <1>1 DEF RequestOK, Holds
  <2>2. \A i \in Installment : <<"inst", i>> \in held[x] => inst'[i] = inst[i]
    BY <1>3, <2>1, LockedByOne
  <2>3. \A c \in Credit : <<"credit", c>> \in held[x] => credit'[c] = credit[c]
    BY <1>7, <1>12, LockedByOne
  <2> QED BY <2>2, <2>3 DEF Untouched
<1> QED BY <1>3, <1>11, <1>13, <1>14, <1>15, FinishKeeps

\* What is left over of the amount is an amount.
LEMMA ToReverseTyped ==
  ASSUME TxInv, NEW w \in Worker, tx[w].step # "idle"
  PROVE  ToReverse(w) \in Int /\ (ToReverse(w) > 0 => ToReverse(w) \in Amount)
<1> DEFINE t == tx[w]
<1>1. t \in TxRow BY OneWorker
<1>2. t.take \in [Credit -> Amount] /\ t.back \in [Installment -> Amount] /\ t.amount \in Amount
  BY <1>1 DEF TxRow
<1>3. /\ Sum(t.take) = SumFunctionOnSet(t.take, Credit)
      /\ Sum(t.back) = SumFunctionOnSet(t.back, Installment)
  BY <1>2, SumIs
<1>4. (\A c \in Credit : t.take[c] \in Nat) /\ (\A i \in Installment : t.back[i] \in Nat)
  BY <1>2, AmountNat
<1>5. Sum(t.take) \in Nat /\ Sum(t.back) \in Nat BY <1>3, <1>4, FiniteAssumption, SumNat
<1>6. t.amount \in Nat /\ t.amount <= MaxMinor BY <1>2, MaxMinorAssumption DEF Amount
<1> QED BY <1>5, <1>6, MaxMinorAssumption DEF ToReverse, Amount

\* What is left of the credits taken from is credited to the same payment, or the
\* surplus to the refund: no other payment's credits change, and of those that
\* exist only the ones taken from.
LEMMA ReplacesKeeps ==
  ASSUME TypeOK, CreditsOK(credit), DataOK, NEW p \in Payment, NEW r \in Refund,
         NEW take \in [Credit -> Amount], NEW surplus \in Int, surplus > 0 => surplus \in Amount,
         \A c \in Credit : take[c] > 0 => credit[c].status = "LIVE" /\ credit[c].consumed = 0,
         Replaces(take, p, r, surplus)
  PROVE  /\ CreditsOK(credit')
         /\ \A c \in Credit : /\ credit'[c].amount \in Amount
                              /\ credit'[c].status # "NONE" => credit'[c].amount > 0
         /\ \A c \in Credit : credit[c].status # "NONE" =>
              /\ credit'[c].status # "NONE" /\ credit'[c].source = credit[c].source
              /\ ~(take[c] > 0) => credit'[c] = credit[c]
         /\ \A q \in Payment : q # p => LiveOf(q)' \subseteq LiveOf(q)
<1> DEFINE taken == {c \in Credit : take[c] > 0}
           table == Reversed(credit, taken)
<1>1. PICK left \in Amount :
        IF left > 0 THEN Mints(table, left, FromPayment(p)) ELSE Mints(table, surplus, FromRefund(r))
  BY DEF Replaces
<1>2. PICK amount, source :
        /\ Mints(table, amount, source) /\ (amount > 0 => amount \in Amount)
        /\ amount \in Int /\ source \in {FromPayment(p), FromRefund(r)}
  BY <1>1, AmountNat
<1>3. FromPayment(p) \in Source /\ FromRefund(r) \in Source
  BY DEF FromPayment, FromRefund, Source
<1>4. taken \in SUBSET Credit /\ \A c \in taken : credit[c].consumed = 0 /\ credit[c].status = "LIVE"
  OBVIOUS
<1>5. CreditsOK(table) BY <1>4, ReversedKeeps
<1>6. \A c \in Credit : /\ table[c].amount = credit[c].amount /\ table[c].source = credit[c].source
                        /\ table[c].status = IF c \in taken THEN "REVERSED" ELSE credit[c].status
                        /\ c \notin taken => table[c] = credit[c]
  BY DEF Reversed, TypeOK, CreditRow
<1>7. \A c \in Credit : /\ table[c].amount \in Amount
                        /\ table[c].status # "NONE" => table[c].amount > 0
                        /\ credit[c].status # "NONE" => table[c].status # "NONE"
  BY <1>4, <1>6 DEF DataOK
<1>8. \A c \in Credit : c \in taken <=> take[c] > 0 OBVIOUS
<1> HIDE DEF taken, table
<1>9. CASE credit' = table
  <2>1. \A q \in Payment : LiveOf(q)' \subseteq LiveOf(q) BY <1>6, <1>9 DEF LiveOf
  <2> QED BY <1>5, <1>6, <1>7, <1>8, <1>9, <2>1
<1>10. CASE credit' # table
  <2>1. PICK x \in Credit : /\ amount > 0 /\ table[x].status = "NONE"
                            /\ credit' = [table EXCEPT ![x] = NewCredit(source, amount)]
    BY <1>2, <1>10 DEF Mints, IsNext, Unused
  <2>2. amount \in Nat BY <1>2, <2>1
  <2>3. CreditsOK(credit') BY <1>2, <1>3, <1>5, <2>2, MintsKeeps
  <2>4. \A c \in Credit : credit'[c] = IF c = x THEN NewCredit(source, amount) ELSE table[c]
    BY <1>5, <2>1 DEF CreditsOK
  <2>5. credit'[x].amount = amount /\ credit'[x].source = source BY <2>4 DEF NewCredit
  <2>6. ASSUME NEW c \in Credit
        PROVE  credit'[c].amount \in Amount /\ (credit'[c].status # "NONE" => credit'[c].amount > 0)
    BY <1>2, <1>7, <2>1, <2>4, <2>5
  <2>7. ASSUME NEW c \in Credit, credit[c].status # "NONE"
        PROVE  /\ credit'[c].status # "NONE" /\ credit'[c].source = credit[c].source
               /\ ~(take[c] > 0) => credit'[c] = credit[c]
    BY <1>6, <1>7, <1>8, <2>1, <2>4, <2>7
  <2>8. ASSUME NEW q \in Payment, q # p PROVE LiveOf(q)' \subseteq LiveOf(q)
    <3>1. source # FromPayment(q) BY <1>2, <2>8, SourcesDiffer
    <3> QED BY <1>6, <2>4, <2>5, <3>1 DEF LiveOf
  <2> QED BY <2>3, <2>6, <2>7, <2>8
<1> QED BY <1>9, <1>10

\* completeRefund takes back what it locked, writes the payment's status whatever
\* that has become, and gives no payment back its full credit.
LEMMA CommitRefundKeeps ==
  ASSUME TxInv, NEW w \in Worker, CommitRefund(w)
  PROVE  TxInv'
<1> DEFINE t == tx[w]
           p == t.payment
           r == t.refund
<1>1. t \in TxRow /\ RequestOK(t, held[w]) /\ t.step = "commit" /\ t.job = "refund"
      /\ TypeOK /\ RowsOK /\ DataOK /\ CreditsOK(credit)
  BY OneWorker, CreditsFromInv DEF CommitRefund, At, TxInv, LedgerInv
<1>2. /\ p \in Payment /\ payment[p].status # "NONE" /\ r \in Refund
      /\ t.seen \in {"PARTIALLY_REFUNDED", "REFUNDED"}
  BY <1>1 DEF RequestOK, Working
<1>3. /\ inst' = [i \in Installment |->
                    IF t.back[i] > 0 THEN Unwound(inst[i], t.back[i]) ELSE inst[i]]
      /\ alloc' = [alloc EXCEPT ![p] = [i \in Installment |->
                     IF t.back[i] > 0 THEN t.rows[i] - t.back[i] ELSE alloc[p][i]]]
      /\ Replaces(t.take, p, r, ToReverse(w))
      /\ payment' = [payment EXCEPT ![p].status = t.seen]
      /\ refund' = [refund EXCEPT ![r].status = "COMPLETED"]
      /\ refund[r].status = "PENDING"
      /\ UNCHANGED <<plan, adj, app>>
      /\ Finish(w)
  BY DEF CommitRefund, StillPending
<1>4. /\ t.back \in [Installment -> Amount] /\ t.rows \in [Installment -> Amount]
      /\ t.take \in [Credit -> Amount]
  BY <1>1 DEF TxRow
<1>5. \A i \in Installment : t.back[i] > 0 => /\ <<"inst", i>> \in held[w]
                                              /\ t.back[i] <= inst[i].paid
                                              /\ t.back[i] <= t.rows[i]
  BY <1>1 DEF RequestOK, Holds
<1>6. \A c \in Credit : t.take[c] > 0 => /\ <<"credit", c>> \in held[w]
                                         /\ credit[c].status = "LIVE" /\ credit[c].consumed = 0
  BY <1>1 DEF RequestOK, Holds
<1>7. ASSUME NEW i \in Installment
      PROVE  inst'[i] \in InstallmentRow /\ RowOK(inst'[i], Gross[i], adj'[i])
  <2>1. /\ inst[i] \in InstallmentRow /\ adj[i] \in Int /\ Gross[i] \in Int
        /\ RowOK(inst[i], Gross[i], adj[i]) /\ t.back[i] \in Nat
    BY <1>1, <1>4, RowFacts, AmountNat
  <2>2. CASE t.back[i] > 0
    <3>1. inst'[i] = Unwound(inst[i], t.back[i]) BY <1>3, <2>2
    <3> QED BY <1>3, <1>5, <2>1, <2>2, <3>1, UnwoundRow
  <2>3. CASE ~(t.back[i] > 0) BY <1>3, <2>1, <2>3
  <2> QED BY <2>2, <2>3
<1>8. inst' \in [Installment -> InstallmentRow] /\ RowsOK' BY <1>3, <1>7 DEF RowsOK
<1>9. /\ CreditsOK(credit')
      /\ \A c \in Credit : /\ credit'[c].amount \in Amount
                           /\ credit'[c].status # "NONE" => credit'[c].amount > 0
      /\ \A c \in Credit : credit[c].status # "NONE" =>
           /\ credit'[c].status # "NONE" /\ credit'[c].source = credit[c].source
           /\ ~(t.take[c] > 0) => credit'[c] = credit[c]
      /\ \A q \in Payment : q # p => LiveOf(q)' \subseteq LiveOf(q)
  <2>1. ToReverse(w) \in Int /\ (ToReverse(w) > 0 => ToReverse(w) \in Amount)
    BY <1>1, ToReverseTyped
  <2> QED BY <1>1, <1>2, <1>3, <1>4, <1>6, <2>1, ReplacesKeeps
<1>10. ASSUME NEW i \in Installment
       PROVE  (IF t.back[i] > 0 THEN t.rows[i] - t.back[i] ELSE alloc[p][i]) \in Amount
  <2>1. t.back[i] \in Amount /\ t.rows[i] \in Amount /\ alloc[p][i] \in Amount
    BY <1>1, <1>2, <1>4 DEF DataOK
  <2>2. CASE t.back[i] > 0
    <3>1. t.back[i] <= t.rows[i] BY <1>5, <2>2
    <3>2. t.rows[i] - t.back[i] \in Amount BY <2>1, <3>1, MaxMinorAssumption DEF Amount
    <3> QED BY <2>2, <3>2
  <2>3. CASE ~(t.back[i] > 0) BY <2>1, <2>3
  <2> QED BY <2>2, <2>3
<1>11. alloc' \in [Payment -> [Installment -> Amount]]
       /\ alloc' \in [Payment -> [Installment -> Nat]]
  <2>1. alloc' \in [Payment -> [Installment -> Amount]] BY <1>1, <1>3, <1>10 DEF DataOK
  <2> QED BY <2>1, AmountNat
<1>12. payment' \in [Payment -> PaymentRow]
       /\ \A q \in Payment : payment'[q].status = IF q = p THEN t.seen ELSE payment[q].status
  <2>1. payment \in [Payment -> PaymentRow] BY <1>1 DEF TypeOK
  <2> HIDE DEF p
  <2> QED BY <1>2, <1>3, <2>1 DEF PaymentRow, PaymentStatus
<1>13. /\ refund' \in [Refund -> RefundRow]
       /\ \A x \in Refund : /\ refund'[x].amount = refund[x].amount
                            /\ refund'[x].payment = refund[x].payment
                            /\ refund'[x].status # "NONE" => refund[x].status # "NONE"
  <2>1. refund \in [Refund -> RefundRow] BY <1>1 DEF TypeOK
  <2> HIDE DEF r
  <2> QED BY <1>2, <1>3, <2>1 DEF RefundRow, RefundStatus
<1>14. LedgerInv'
  <2>1. \A x \in Refund : refund'[x].status # "NONE" => refund'[x].payment \in Payment
    BY <1>1, <1>13 DEF TypeOK
  <2> QED BY <1>1, <1>3, <1>8, <1>9, <1>11, <1>12, <1>13, <2>1
          DEF LedgerInv, TypeOK, CreditWithinAmount, CreditsOK
<1>15. DataOK'
  <2>1. \A x \in Refund : refund[x].status # "NONE" =>
          refund[x].payment \in Payment /\ payment[refund[x].payment].status # "NONE"
    BY <1>1 DEF DataOK, TypeOK
  <2>2. \A q \in Payment : payment[q].status # "NONE" => payment'[q].status # "NONE"
    BY <1>2, <1>12
  <2> QED BY <1>1, <1>9, <1>11, <1>13, <2>1, <2>2 DEF DataOK
<1>16. Gentle
  <2>1. \A q \in Payment : q # p => alloc'[q] = alloc[q] BY <1>1, <1>3 DEF TypeOK
  <2> QED BY <1>2, <1>9, <1>12, <2>1 DEF Gentle
<1>17. ASSUME NEW x \in Worker \ {w} PROVE Untouched(x)
  <2>1. \A i \in Installment : <<"inst", i>> \in held[x] => inst'[i] = inst[i]
    BY <1>3, <1>5, LockedByOne
  <2>2. ASSUME NEW c \in Credit, <<"credit", c>> \in held[x], credit[c].status # "NONE"
        PROVE  credit'[c] = credit[c]
    <3>1. ~(t.take[c] > 0) BY <1>6, <2>2, LockedByOne
    <3> QED BY <1>9, <2>2, <3>1
  <2> QED BY <2>1, <2>2 DEF Untouched
<1> QED BY <1>3, <1>14, <1>15, <1>16, <1>17, FinishKeeps

---------------------------------------------------------------------------
(* The other handlers.                                                     *)

\* What the other handlers keep of the payments and refunds that exist.
Beside ==
  /\ \A p \in Payment : payment[p].status # "NONE" =>
       /\ payment'[p] = payment[p] /\ alloc'[p] = alloc[p]
       /\ LiveOf(p)' \subseteq LiveOf(p)
  /\ \A r \in Refund :
       /\ refund[r].status # "NONE" => /\ refund'[r].payment = refund[r].payment
                                      /\ refund'[r].amount = refund[r].amount
                                      /\ refund'[r].status # "NONE"
       /\ refund[r].status = "COMPLETED" <=> refund'[r].status = "COMPLETED"

\* A handler that leaves every worker's rows alone keeps every request in order.
LEMMA BesideKeeps ==
  ASSUME TxInv, LedgerInv', DataOK', UNCHANGED txVars, Gentle, \A x \in Worker : Untouched(x)
  PROVE  TxInv'
<1>1. tx' = tx /\ held' = held BY DEF txVars
<1>2. ASSUME NEW x \in Worker PROVE RequestOK(tx[x], held[x])'
  BY <1>1, OthersKept
<1> QED BY <1>1, <1>2 DEF TxInv, Workers, Locking

\* recordPayment makes a payment, its allocations and at most a credit of its own.
LEMMA ReceiveGentle ==
  ASSUME TxInv, LedgerInv', NEW p \in Payment, NEW gross \in Amount,
         NEW order \in [Installment -> Nat], NEW d \in [Installment -> Amount],
         Receive(p, gross, order, d)
  PROVE  DataOK' /\ Gentle /\ Beside
<1>1. TypeOK /\ DataOK /\ CreditsOK(credit) BY CreditsFromInv DEF TxInv, LedgerInv
<1>2. /\ payment' = [payment EXCEPT ![p] =
                       [status |-> "RECEIVED", gross |-> gross, order |-> order]]
      /\ alloc' = [alloc EXCEPT ![p] = d] /\ refund' = refund /\ payment[p].status = "NONE"
  BY DEF Receive, IsNext, Unused
<1>3. PICK overflow \in Amount : Mints(credit, overflow, FromPayment(p)) BY DEF Receive
<1>4. credit' = credit \/ \E x \in Credit :
        /\ credit[x].status = "NONE" /\ overflow > 0
        /\ credit' = [credit EXCEPT ![x] = NewCredit(FromPayment(p), overflow)]
  BY <1>3 DEF Mints, IsNext, Unused
<1>5. \A q \in Payment : /\ q # p => payment'[q] = payment[q] /\ alloc'[q] = alloc[q]
                         /\ payment'[p].status = "RECEIVED"
  BY <1>1, <1>2 DEF TypeOK
<1>6. \A c \in Credit :
        /\ credit[c].status # "NONE" => credit'[c] = credit[c]
        /\ credit'[c].amount \in Amount
        /\ credit'[c].status # "NONE" => credit'[c].amount > 0
        /\ credit[c].status = "NONE" /\ credit'[c].status = "LIVE" => credit'[c].source = FromPayment(p)
  <2>1. credit \in [Credit -> CreditRow] BY <1>1 DEF TypeOK
  <2>2. CASE credit' = credit BY <1>1, <2>2 DEF DataOK
  <2>3. CASE \E x \in Credit :
               /\ credit[x].status = "NONE" /\ overflow > 0
               /\ credit' = [credit EXCEPT ![x] = NewCredit(FromPayment(p), overflow)]
    BY <1>1, <2>1, <2>3 DEF DataOK, NewCredit
  <2> QED BY <1>4, <2>2, <2>3
<1>7. DataOK'
  <2>1. alloc' \in [Payment -> [Installment -> Amount]] BY <1>1, <1>2 DEF DataOK
  <2>2. \A r \in Refund : refund[r].status # "NONE" =>
          refund[r].payment \in Payment /\ payment[refund[r].payment].status # "NONE"
    BY <1>1 DEF DataOK, TypeOK
  <2>3. \A r \in Refund : refund[r].status # "NONE" => payment'[refund[r].payment].status # "NONE"
    BY <1>2, <1>5, <2>2
  <2> QED BY <1>1, <1>2, <1>6, <2>1, <2>3 DEF DataOK
<1>8. \A q \in Payment : q # p => LiveOf(q)' \subseteq LiveOf(q)
  <2> SUFFICES ASSUME NEW q \in Payment, q # p, NEW c \in Credit,
                      credit'[c].status = "LIVE", credit'[c].source = FromPayment(q)
               PROVE  credit[c].status = "LIVE" /\ credit[c].source = FromPayment(q)
    BY DEF LiveOf
  <2>1. FromPayment(q) # FromPayment(p) BY SourcesDiffer
  <2>2. credit[c].status \in {"NONE", "LIVE", "REVERSED"} BY <1>1 DEF TypeOK, CreditRow
  <2> QED BY <1>6, <2>1, <2>2
<1>9. Gentle BY <1>2, <1>5, <1>6, <1>8 DEF Gentle
<1>10. Beside BY <1>2, <1>5, <1>8 DEF Beside
<1> QED BY <1>7, <1>9, <1>10

\* A handler that leaves payments and allocations alone, and neither makes a credit
\* nor writes anything of it but what was spent and whether it is live.
LEMMA NoNewMoney ==
  ASSUME TxInv, UNCHANGED <<payment, alloc>>,
         \A c \in Credit : /\ credit'[c].source = credit[c].source
                           /\ credit'[c].amount = credit[c].amount
                           /\ credit'[c].status = "NONE" <=> credit[c].status = "NONE"
                           /\ credit'[c].status = "LIVE" => credit[c].status = "LIVE",
         \A r \in Refund :
           /\ refund'[r].amount \in Amount
           /\ refund'[r].status # "NONE" => payment[refund'[r].payment].status # "NONE"
           /\ refund[r].status # "NONE" => /\ refund'[r].payment = refund[r].payment
                                          /\ refund'[r].amount = refund[r].amount
                                          /\ refund'[r].status # "NONE"
           /\ refund[r].status = "COMPLETED" <=> refund'[r].status = "COMPLETED"
  PROVE  DataOK' /\ Gentle /\ Beside
<1>1. DataOK' BY DEF TxInv, DataOK
<1>2. \A q \in Payment : LiveOf(q)' \subseteq LiveOf(q) BY DEF LiveOf
<1>3. Gentle BY <1>2 DEF Gentle
<1>4. Beside BY <1>2 DEF Beside
<1> QED BY <1>1, <1>3, <1>4

\* The other handlers are such: what they write is new, or not what a request reads.
LEMMA OtherBeside ==
  ASSUME TxInv, Other
  PROVE  /\ LedgerInv' /\ DataOK' /\ UNCHANGED txVars
         /\ Gentle /\ Beside /\ \A x \in Worker : Untouched(x)
<1> DEFINE Fine == DataOK' /\ Gentle /\ Beside
<1>1. LedgerInv /\ TypeOK /\ DataOK /\ UNCHANGED txVars /\ Waits BY DEF TxInv, LedgerInv, Other
<1>2. ReceiptNext \/ CreditNext \/ AdjustmentNext \/ \E r \in Refund : MarkRefundFailed(r)
  BY DEF Other
<1>3. LedgerInv' BY <1>1, <1>2, NextInv DEF Next, RefundNext
<1>4. \A x \in Worker : Untouched(x) BY <1>1 DEF Waits, Untouched
<1>5. credit \in [Credit -> CreditRow] /\ refund \in [Refund -> RefundRow] BY <1>1 DEF TypeOK
<1>6. \A r \in Refund : /\ refund[r].amount \in Amount
                        /\ refund[r].status # "NONE" => payment[refund[r].payment].status # "NONE"
  BY <1>1 DEF DataOK
<1>7. ASSUME ReceiptNext PROVE Fine
  <2>1. ASSUME NEW p \in Payment, NEW gross \in Amount, RecordPaymentFifo(p, gross)
        PROVE  Fine
    BY <1>3, <2>1, ReceiveGentle, DueRankAssumption DEF RecordPaymentFifo
  <2>2. ASSUME NEW p \in Payment, NEW gross \in Amount, NEW order \in Orders,
               NEW d \in [Installment -> Amount], RecordPaymentManual(p, gross, order, d)
        PROVE  Fine
    BY <1>3, <2>2, ReceiveGentle, OrdersTyped DEF RecordPaymentManual
  <2> QED BY <1>7, <2>1, <2>2 DEF ReceiptNext
<1>8. ASSUME CreditNext PROVE Fine
  <2>1. ASSUME NEW c \in Credit, NEW d \in [Installment -> Amount], Spend(c, d)
        PROVE  Fine
    <3>1. UNCHANGED <<payment, alloc, refund>> BY <2>1 DEF Spend
    <3>2. PICK n : credit' = [credit EXCEPT ![c].consumed = n] BY <2>1 DEF Spend
    <3>3. \A x \in Credit : /\ credit'[x].source = credit[x].source
                            /\ credit'[x].amount = credit[x].amount
                            /\ credit'[x].status = credit[x].status
      BY <1>5, <3>2 DEF CreditRow
    <3> QED BY <1>6, <3>1, <3>3, NoNewMoney
  <2>2. ASSUME NEW c \in Credit, ReverseCredit(c)
        PROVE  Fine
    <3>1. UNCHANGED <<payment, alloc, refund>> /\ credit[c].status = "LIVE"
          /\ credit' = Reversed(credit, {c})
      BY <2>2 DEF ReverseCredit
    <3>2. \A x \in Credit : /\ credit'[x].source = credit[x].source
                            /\ credit'[x].amount = credit[x].amount
                            /\ credit'[x].status = IF x = c THEN "REVERSED" ELSE credit[x].status
      BY <1>5, <3>1 DEF Reversed, CreditRow
    <3>3. \A x \in Credit : /\ credit'[x].status = "NONE" <=> credit[x].status = "NONE"
                            /\ credit'[x].status = "LIVE" => credit[x].status = "LIVE"
      BY <3>1, <3>2
    <3> QED BY <1>6, <3>1, <3>2, <3>3, NoNewMoney
  <2> QED BY <1>8, <2>1, <2>2 DEF CreditNext, ApplyCreditExplicit, ApplyCreditFifo
<1>9. ASSUME AdjustmentNext PROVE Fine
  <2>1. UNCHANGED <<payment, alloc, credit, refund>>
    BY <1>9 DEF AdjustmentNext, LateFee, Discount, Waive, Adjust
  <2> QED BY <1>6, <2>1, NoNewMoney
<1>10. ASSUME NEW r \in Refund, MarkRefundFailed(r) PROVE Fine
  <2>1. UNCHANGED <<payment, alloc, credit>> /\ refund[r].status = "PENDING"
        /\ refund' = [refund EXCEPT ![r].status = "FAILED"]
    BY <1>10 DEF MarkRefundFailed
  <2>2. \A x \in Refund :
          /\ refund'[x].amount = refund[x].amount /\ refund'[x].payment = refund[x].payment
          /\ refund'[x].status # "NONE" <=> refund[x].status # "NONE"
          /\ refund[x].status = "COMPLETED" <=> refund'[x].status = "COMPLETED"
    BY <1>5, <2>1 DEF RefundRow
  <2> QED BY <1>6, <2>1, <2>2, NoNewMoney
<1>11. Fine BY <1>2, <1>7, <1>8, <1>9, <1>10
<1> QED BY <1>1, <1>3, <1>4, <1>11

\* So is createRefund: the refund it promises is new.
LEMMA CreateRefundBeside ==
  ASSUME TxInv, NEW r \in Refund, NEW p \in Payment, NEW amount \in Amount,
         LockedCreateRefund(r, p, amount)
  PROVE  /\ LedgerInv' /\ DataOK' /\ UNCHANGED txVars
         /\ Gentle /\ Beside /\ \A x \in Worker : Untouched(x)
<1>1. CreateRefund(r, p, amount) /\ UNCHANGED txVars BY DEF LockedCreateRefund
<1>2. LedgerInv' BY <1>1, CreateRefundKeeps DEF TxInv
<1>3. /\ UNCHANGED <<inst, payment, alloc, credit>> /\ payment[p].status # "NONE"
      /\ refund' = [refund EXCEPT ![r] = [status |-> "PENDING", payment |-> p, amount |-> amount]]
      /\ refund[r].status = "NONE"
  BY <1>1 DEF CreateRefund, IsNext, Unused
<1>4. \A x \in Refund :
        /\ refund'[x].amount \in Amount
        /\ refund'[x].status # "NONE" => payment[refund'[x].payment].status # "NONE"
        /\ refund[x].status # "NONE" => refund'[x] = refund[x]
        /\ refund[x].status = "COMPLETED" <=> refund'[x].status = "COMPLETED"
  BY <1>3 DEF TxInv, DataOK, LedgerInv, TypeOK
<1>5. DataOK' /\ Gentle /\ Beside BY <1>3, <1>4, NoNewMoney
<1>6. \A x \in Worker : Untouched(x) BY <1>3 DEF Untouched
<1> QED BY <1>1, <1>2, <1>5, <1>6

\* What a void read unlocked is still so when it commits, and the live credits it
\* locked are all there are.
LEMMA CommitVoidSerial ==
  ASSUME TxInv, NEW w \in Worker, CommitVoid(w)
  PROVE  VoidPayment(tx[w].payment)
<1> DEFINE t == tx[w]
           p == t.payment
           taken == {c \in Credit : t.take[c] > 0}
<1>1. t \in TxRow /\ RequestOK(t, held[w]) /\ t.step = "commit" /\ t.job = "void"
  BY OneWorker DEF CommitVoid, At
<1>2. /\ payment[p].status = "RECEIVED"
      /\ inst' = [i \in Installment |->
                    IF t.back[i] > 0 THEN Voided(inst[i], t.back[i]) ELSE inst[i]]
      /\ alloc' = [alloc EXCEPT ![p] = NoRows]
      /\ credit' = Reversed(credit, taken)
      /\ payment' = [payment EXCEPT ![p].status = "VOIDED"]
      /\ UNCHANGED <<plan, adj, refund, app>>
  BY DEF CommitVoid, StillReceived
<1>3. t.back = alloc[p] /\ \A c \in LiveOf(p) : t.take[c] > 0
  BY <1>1, <1>2 DEF RequestOK, VoidReads
<1>4. \A c \in Credit : t.take[c] > 0 => c \in LiveOf(p) /\ credit[c].consumed = 0
  BY <1>1 DEF RequestOK, Holds, LiveOf
<1>5. taken = LiveOf(p) BY <1>3, <1>4 DEF LiveOf
<1>6. \A c \in LiveOf(p) : credit[c].consumed = 0 BY <1>3, <1>4 DEF LiveOf
<1>7. ASSUME NEW i \in Installment PROVE alloc[p][i] <= inst[i].paid
  <2>1. t.back[i] > 0 => t.back[i] <= inst[i].paid BY <1>1 DEF RequestOK, Holds
  <2>2. t.back[i] \in Nat BY <1>1, AmountNat DEF TxRow
  <2>3. inst[i].paid \in Nat BY DEF TxInv, LedgerInv, TypeOK, InstallmentRow
  <2> QED BY <1>3, <2>1, <2>2, <2>3
<1> QED BY <1>2, <1>3, <1>5, <1>6, <1>7 DEF VoidPayment

---------------------------------------------------------------------------
(* The theorems.                                                           *)

\* Nobody has begun.
LEMMA InitTx == TxInit => TxInv
<1> SUFFICES ASSUME TxInit PROVE TxInv
  OBVIOUS
<1>1. Init /\ LedgerInv BY InitInv DEF TxInit
<1>2. 0 \in Amount BY MaxMinorAssumption DEF Amount
<1>3. DataOK BY <1>1, <1>2 DEF Init, DataOK, NoRows
<1>4. tx = [w \in Worker |-> Idle] /\ held = [w \in Worker |-> {}] BY DEF TxInit
<1>5. Locking BY <1>4 DEF Locking
<1>6. Workers BY <1>4, IdleTyped, IdleOK DEF Workers
<1> QED BY <1>1, <1>3, <1>5, <1>6 DEF TxInv

\* Every statement of every request, every failure and every handler beside them
\* keeps the invariant.
LEMMA NextTx == ASSUME TxInv, [TxNext]_allVars PROVE TxInv'
<1>1. ASSUME NEW w \in Worker, VoidStep(w) PROVE TxInv'
  BY <1>1, BeginVoidKeeps, ReadAllocationsKeeps, VoidRowKeeps, VoidDeleteKeeps, ScanCreditsKeeps,
     VoidCreditsKeeps, LockPaymentKeeps, CommitVoidKeeps DEF VoidStep
<1>2. ASSUME NEW w \in Worker, RefundStep(w) PROVE TxInv'
  BY <1>2, BeginRefundKeeps, ReadPaymentKeeps, ReadAllocationsKeeps, ScanCreditsKeeps,
     RefundCreditsKeeps, UnwindRowKeeps, SumRefundsKeeps, LockPaymentKeeps, CommitRefundKeeps
     DEF RefundStep
<1>3. CASE UNCHANGED allVars
  BY <1>3 DEF allVars, txVars, vars, TxInv, LedgerInv, TypeOK, RowsOK, CreditWithinAmount, DataOK,
              Locking, Workers, RequestOK, Working, Holds, Scanned, VoidReads, LiveOf
<1> QED BY <1>1, <1>2, <1>3, AbortKeeps, CreateRefundBeside, OtherBeside, BesideKeeps DEF TxNext

\* The invariant holds throughout.
LEMMA SpecTx == TxSpec => []TxInv
BY InitTx, NextTx, PTL DEF TxSpec

\* Requests, locks and tables stay well formed, however the statements interleave.
THEOREM TxTypeCorrect == TxSpec => []TxTypeOK
<1>1. TxInv => TxTypeOK
  BY DEF TxInv, LedgerInv, Locking, Workers, TxRow, TxTypeOK
<1> QED BY <1>1, SpecTx, PTL

\* The locks protect the arithmetic of every row: whatever reversals overlap, net,
\* paid and balance agree and none goes below zero.
THEOREM TxAmounts == TxSpec => []AmountsAgree
<1>1. TxInv => AmountsAgree BY DEF TxInv, LedgerInv, RowsOK, RowOK, AmountsAgree
<1> QED BY <1>1, SpecTx, PTL

\* They protect what a row's status says of its money.
THEOREM TxStatus == TxSpec => []StatusTellsMoney
<1>1. TxInv => StatusTellsMoney BY DEF TxInv, LedgerInv, RowsOK, RowOK, StatusTellsMoney
<1> QED BY <1>1, SpecTx, PTL

\* And the credits: one that was spent from meanwhile is never reversed.
THEOREM TxCredits == TxSpec => []CreditWithinAmount
<1>1. TxInv => CreditWithinAmount BY DEF TxInv, LedgerInv
<1> QED BY <1>1, SpecTx, PTL

\* A void that commits did to the ledger what voidPayment in one piece would have
\* done at that moment, for any number of requests in flight beside it.
THEOREM VoidSerial == TxSpec => VoidIsSerial
<1>1. TxInv /\ [TxNext]_allVars =>
        [\A w \in Worker : CommitVoid(w) => VoidPayment(tx[w].payment)]_allVars
  BY CommitVoidSerial
<1> QED BY <1>1, SpecTx, PTL DEF TxSpec, VoidIsSerial

\* A refund is paid out once, by one request, and never after it was marked failed.
THEOREM RefundOnce == TxSpec => RefundPaidOnce
<1>1. ASSUME TxInv, TxNext, NEW r \in Refund, refund[r].status \in {"COMPLETED", "FAILED"}
      PROVE  refund'[r] = refund[r]
  <2>1. refund \in [Refund -> RefundRow] BY <1>1 DEF TxInv, LedgerInv, TypeOK
  <2>2. ASSUME NEW w \in Worker, VoidStep(w) PROVE refund' = refund
    BY <2>2 DEF VoidStep, BeginVoid, ReadAllocations, VoidRow, VoidDelete, ScanCredits,
                VoidCredits, LockPayment, CommitVoid, Run, vars
  <2>3. ASSUME NEW w \in Worker, CommitRefund(w) PROVE refund'[r] = refund[r]
    BY <1>1, <2>1, <2>3 DEF CommitRefund, StillPending
  <2>4. ASSUME NEW w \in Worker, RefundStep(w) PROVE refund'[r] = refund[r]
    BY <2>3, <2>4 DEF RefundStep, BeginRefund, ReadPayment, ReadAllocations, ScanCredits,
                RefundCredits, UnwindRow, SumRefunds, LockPayment, Run, vars
  <2>5. ASSUME NEW x \in Refund, NEW p \in Payment, NEW amount \in Amount,
               LockedCreateRefund(x, p, amount)
        PROVE  refund'[r] = refund[r]
    BY <1>1, <2>1, <2>5 DEF LockedCreateRefund, CreateRefund, IsNext, Unused
  <2>6. CASE Other
    <3>1. CASE ReceiptNext
      BY <3>1 DEF ReceiptNext, RecordPaymentFifo, RecordPaymentManual, Receive
    <3>2. CASE CreditNext
      BY <3>2 DEF CreditNext, ApplyCreditExplicit, ApplyCreditFifo, Spend, ReverseCredit
    <3>3. CASE AdjustmentNext
      BY <3>3 DEF AdjustmentNext, LateFee, Discount, Waive, Adjust
    <3>4. CASE \E x \in Refund : MarkRefundFailed(x)
      BY <1>1, <2>1, <3>4 DEF MarkRefundFailed
    <3> QED BY <2>6, <3>1, <3>2, <3>3, <3>4 DEF Other
  <2>7. ASSUME NEW w \in Worker, Abort(w) PROVE refund' = refund
    BY <2>7 DEF Abort, vars
  <2> QED BY <1>1, <2>2, <2>4, <2>5, <2>6, <2>7 DEF TxNext
<1>2. TxInv /\ [TxNext]_allVars =>
        [\A r \in Refund :
           refund[r].status \in {"COMPLETED", "FAILED"} => refund'[r] = refund[r]]_allVars
  BY <1>1
<1> QED BY <1>2, SpecTx, PTL DEF TxSpec, RefundPaidOnce

---------------------------------------------------------------------------
(* What overlapping reversals do not harm.                                 *)
(*                                                                         *)
(* Refunds that overlap lose updates of the allocations, and a refund may  *)
(* write over a void: the balances of the ledger do not survive.  What     *)
(* does is proved here.  Credits are only taken from under their lock      *)
(* (CreditsInv).  Refunds are promised under the payment's lock, and       *)
(* completing one changes no amount (RefundsInv).  And a refund takes from *)
(* a row what it takes from the allocation it read, which was no smaller   *)
(* than the money left of it: the tables of allocations are one thing, the *)
(* table of that money, which no statement writes, another (Backed).       *)

CreditsInv == ConsumedIsApplied /\ OneLiveCreditPerPayment /\ FreshPayments

Back(p) == RefundedIn(refund, p, {"COMPLETED"})

Capped == \A p \in Payment : RefundedIn(refund, p, Promise) <= payment[p].gross

\* A payment is refunded when all of it was given back.
RefundedInFull ==
  \A p \in Payment : payment[p].status = "REFUNDED" => payment[p].gross <= Back(p)

\* What a refund read of its refund is so for good, and the status it will write
\* is one the payment has come to by then.
RefundKnown(t) ==
  t.job = "refund" =>
    /\ refund[t.refund].status # "NONE"
    /\ refund[t.refund].payment = t.payment /\ refund[t.refund].amount = t.amount
    /\ t.step \in {"payment_update", "commit"} /\ t.seen = "REFUNDED"
         => payment[t.payment].gross <= Back(t.payment) + t.amount

RefundsInv ==
  RefundsPositive /\ Capped /\ RefundedInFull /\ \A w \in Worker : RefundKnown(tx[w])

\* Before it reads the allocations a request knows none.
Unread == {"idle", "payment", "allocations"}

\* A request read no less than is left in the table.
ReadBefore(t, table) ==
  t.step \notin Unread => \A i \in Installment : table[t.payment][i] <= t.rows[i]

Tables == [Payment -> [Installment -> Int]]

\* What is left of each allocation, if no update had been lost.
Backing(table) ==
  /\ FundedBy(inst, table, app)
  /\ \A p \in Payment, i \in Installment : table[p][i] <= alloc[p][i]
  /\ \A w \in Worker : ReadBefore(tx[w], table)

Backed == \E table \in Tables : Backing(table)

RacesInv == TxInv /\ CreditsInv /\ RefundsInv /\ Backed

---------------------------------------------------------------------------
(* Statements before the commit.                                           *)

\* What it read it read of the payment it has, now or before.
ReadNow(next, t) ==
  \/ next.step \in Unread
  \/ next.rows = alloc[next.payment]
  \/ t.step \notin Unread /\ next.payment = t.payment /\ next.rows = t.rows

\* The tables stay as they are and the one request knows what it should.
Follows(w) ==
  /\ UNCHANGED vars
  /\ \A x \in Worker \ {w} : tx'[x] = tx[x]
  /\ RefundKnown(tx'[w])
  /\ ReadNow(tx'[w], tx[w])

LEMMA RunFollows ==
  ASSUME TxInv, NEW w \in Worker, NEW next, NEW rows, Run(w, next, rows),
         RefundKnown(next), ReadNow(next, tx[w])
  PROVE  Follows(w)
<1>1. tx \in [Worker -> TxRow] BY DEF TxInv, Workers
<1>2. tx'[w] = next /\ \A x \in Worker \ {w} : tx'[x] = tx[x] BY <1>1 DEF Run
<1> QED BY <1>2 DEF Follows, Run

\* A void knows of no refund.
LEMMA VoidFollows ==
  ASSUME TxInv, NEW w \in Worker, VoidStep(w), ~CommitVoid(w)
  PROVE  Follows(w)
<1> DEFINE t == tx[w]
<1>1. t \in TxRow BY OneWorker
<1>2. ASSUME NEW next, NEW rows, Run(w, next, rows), next.job = "void",
             \/ next.step \in Unread
             \/ next.rows = alloc[next.payment]
             \/ t.step \notin Unread /\ next.payment = t.payment /\ next.rows = t.rows
      PROVE  Follows(w)
  BY <1>2, RunFollows DEF RefundKnown, ReadNow
<1>3. ASSUME NEW p \in Payment, BeginVoid(w, p) PROVE Follows(w)
  <2> DEFINE next == [Idle EXCEPT !.job = "void", !.step = "allocations", !.payment = p]
  <2>1. Run(w, next, {}) BY <1>3 DEF BeginVoid
  <2>2. next.job = "void" /\ next.step \in Unread BY DEF Idle, Unread
  <2> HIDE DEF next
  <2> QED BY <1>2, <2>1, <2>2
<1>4. ASSUME ReadAllocations(w, "void", "rows") PROVE Follows(w)
  <2> DEFINE next == [t EXCEPT !.step = "rows", !.rows = alloc[t.payment]]
  <2>1. Run(w, next, {}) /\ t.job = "void" BY <1>4 DEF ReadAllocations, At
  <2>2. next.job = "void" /\ next.payment = t.payment /\ next.rows = alloc[t.payment]
    BY <1>1, <2>1 DEF TxRow
  <2> HIDE DEF next
  <2> QED BY <1>2, <2>1, <2>2
<1>5. ASSUME NEW i \in Installment, VoidRow(w, i) PROVE Follows(w)
  <2> DEFINE next == [t EXCEPT !.back[i] = t.rows[i]]
             rows == Installments({i})
  <2>1. Run(w, next, rows) /\ t.job = "void" /\ t.step = "rows" BY <1>5 DEF VoidRow, At
  <2>2. next.job = "void" /\ next.payment = t.payment /\ next.rows = t.rows
    BY <1>1, <2>1 DEF TxRow
  <2> HIDE DEF next, rows
  <2> QED BY <1>2, <2>1, <2>2 DEF Unread
<1>6. ASSUME VoidDelete(w) PROVE Follows(w)
  <2> DEFINE next == [t EXCEPT !.step = "scan"]
  <2>1. Run(w, next, {}) /\ t.job = "void" /\ t.step = "rows" BY <1>6 DEF VoidDelete, At
  <2>2. next.job = "void" /\ next.payment = t.payment /\ next.rows = t.rows
    BY <1>1, <2>1 DEF TxRow
  <2> HIDE DEF next
  <2> QED BY <1>2, <2>1, <2>2 DEF Unread
<1>7. ASSUME ScanCredits(w, "void") PROVE Follows(w)
  <2> DEFINE next == [t EXCEPT !.step = "credits", !.scan = LiveOf(t.payment)]
  <2>1. Run(w, next, {}) /\ t.job = "void" /\ t.step = "scan" BY <1>7 DEF ScanCredits, At
  <2>2. next.job = "void" /\ next.payment = t.payment /\ next.rows = t.rows
    BY <1>1, <2>1 DEF TxRow
  <2> HIDE DEF next
  <2> QED BY <1>2, <2>1, <2>2 DEF Unread
<1>8. ASSUME VoidCredits(w) PROVE Follows(w)
  <2> DEFINE next == [t EXCEPT !.step = "payment_update", !.take = AllOfThem(StillLive(w))]
             rows == Credits(StillLive(w))
  <2>1. Run(w, next, rows) /\ t.job = "void" /\ t.step = "credits" BY <1>8 DEF VoidCredits, At
  <2>2. next.job = "void" /\ next.payment = t.payment /\ next.rows = t.rows
    BY <1>1, <2>1 DEF TxRow
  <2> HIDE DEF next, rows
  <2> QED BY <1>2, <2>1, <2>2 DEF Unread
<1>9. ASSUME LockPayment(w, "void") PROVE Follows(w)
  <2> DEFINE next == [t EXCEPT !.step = "commit"]
             rows == {<<"payment", t.payment>>}
  <2>1. Run(w, next, rows) /\ t.job = "void" /\ t.step = "payment_update"
    BY <1>9 DEF LockPayment, At
  <2>2. next.job = "void" /\ next.payment = t.payment /\ next.rows = t.rows
    BY <1>1, <2>1 DEF TxRow
  <2> HIDE DEF next, rows
  <2> QED BY <1>2, <2>1, <2>2 DEF Unread
<1> QED BY <1>3, <1>4, <1>5, <1>6, <1>7, <1>8, <1>9 DEF VoidStep

\* A refund remembers its refund; the status it will write comes of the sum.
LEMMA RefundFollows ==
  ASSUME TxInv, RefundsInv, NEW w \in Worker, RefundStep(w), ~CommitRefund(w)
  PROVE  Follows(w)
<1> DEFINE t == tx[w]
<1>1. t \in TxRow /\ RefundKnown(t) BY OneWorker DEF RefundsInv
<1>2. ASSUME NEW next, NEW rows, Run(w, next, rows), t.job = "refund",
             next.job = "refund", next.refund = t.refund, next.payment = t.payment,
             next.amount = t.amount,
             next.step \in {"payment_update", "commit"} /\ next.seen = "REFUNDED"
               => payment[t.payment].gross <= Back(t.payment) + t.amount,
             \/ next.step \in Unread
             \/ next.rows = alloc[next.payment]
             \/ t.step \notin Unread /\ next.rows = t.rows
      PROVE  Follows(w)
  BY <1>1, <1>2, RunFollows DEF RefundKnown, ReadNow
<1>3. ASSUME NEW r \in Refund, NEW carry \in BOOLEAN, BeginRefund(w, r, carry) PROVE Follows(w)
  <2> DEFINE next == [Idle EXCEPT !.job = "refund", !.step = "payment", !.refund = r,
                                  !.carry = carry, !.payment = refund[r].payment,
                                  !.amount = refund[r].amount]
  <2>1. Run(w, next, {}) /\ refund[r].status = "PENDING" BY <1>3 DEF BeginRefund
  <2>2. /\ next.job = "refund" /\ next.step = "payment" /\ next.refund = r
        /\ next.payment = refund[r].payment /\ next.amount = refund[r].amount
    BY DEF Idle
  <2> HIDE DEF next
  <2> QED BY <2>1, <2>2, RunFollows DEF RefundKnown, ReadNow, Unread
<1>4. ASSUME ReadPayment(w) PROVE Follows(w)
  <2> DEFINE next == [t EXCEPT !.step = "allocations", !.seen = payment[t.payment].status]
  <2>1. Run(w, next, {}) /\ t.job = "refund" BY <1>4 DEF ReadPayment, At
  <2>2. /\ next.job = "refund" /\ next.payment = t.payment /\ next.refund = t.refund
        /\ next.amount = t.amount /\ next.step = "allocations"
    BY <1>1, <2>1 DEF TxRow
  <2> HIDE DEF next
  <2> QED BY <1>2, <2>1, <2>2 DEF Unread
<1>5. ASSUME ReadAllocations(w, "refund", "scan") PROVE Follows(w)
  <2> DEFINE next == [t EXCEPT !.step = "scan", !.rows = alloc[t.payment]]
  <2>1. Run(w, next, {}) /\ t.job = "refund" BY <1>5 DEF ReadAllocations, At
  <2>2. /\ next.job = "refund" /\ next.payment = t.payment /\ next.refund = t.refund
        /\ next.amount = t.amount /\ next.step = "scan" /\ next.rows = alloc[t.payment]
    BY <1>1, <2>1 DEF TxRow
  <2> HIDE DEF next
  <2> QED BY <1>2, <2>1, <2>2
<1>6. ASSUME ScanCredits(w, "refund") PROVE Follows(w)
  <2> DEFINE next == [t EXCEPT !.step = "credits", !.scan = LiveOf(t.payment)]
  <2>1. Run(w, next, {}) /\ t.job = "refund" /\ t.step = "scan" BY <1>6 DEF ScanCredits, At
  <2>2. /\ next.job = "refund" /\ next.payment = t.payment /\ next.refund = t.refund
        /\ next.amount = t.amount /\ next.step = "credits" /\ next.rows = t.rows
    BY <1>1, <2>1 DEF TxRow
  <2> HIDE DEF next
  <2> QED BY <1>2, <2>1, <2>2 DEF Unread
<1>7. ASSUME RefundCredits(w) PROVE Follows(w)
  <2>1. PICK take \in [Credit -> Amount] :
          /\ Retires(take, StillLive(w), t.amount)
          /\ Run(w, [t EXCEPT !.step = "rows", !.take = take], Credits(StillLive(w)))
    BY <1>7, Zenon DEF RefundCredits
  <2> DEFINE next == [t EXCEPT !.step = "rows", !.take = take]
             rows == Credits(StillLive(w))
  <2>2. Run(w, next, rows) /\ t.job = "refund" /\ t.step = "credits"
    BY <1>7, <2>1 DEF RefundCredits, At
  <2>3. /\ next.job = "refund" /\ next.payment = t.payment /\ next.refund = t.refund
        /\ next.amount = t.amount /\ next.step = "rows" /\ next.rows = t.rows
    BY <1>1, <2>2 DEF TxRow
  <2> HIDE DEF next, rows
  <2> QED BY <1>2, <2>2, <2>3 DEF Unread
<1>8. ASSUME NEW i \in Installment, UnwindRow(w, i) PROVE Follows(w)
  <2> DEFINE back == IF ToReverse(w) < t.rows[i] THEN ToReverse(w) ELSE t.rows[i]
             next == [t EXCEPT !.back[i] = back]
             rows == Installments({i})
  <2>1. Run(w, next, rows) /\ t.job = "refund" /\ t.step = "rows" BY <1>8 DEF UnwindRow, At
  <2> HIDE DEF back
  <2>2. /\ next.job = "refund" /\ next.payment = t.payment /\ next.refund = t.refund
        /\ next.amount = t.amount /\ next.step = "rows" /\ next.rows = t.rows
    BY <1>1, <2>1 DEF TxRow
  <2> HIDE DEF next, rows
  <2> QED BY <1>2, <2>1, <2>2 DEF Unread
<1>9. ASSUME SumRefunds(w) PROVE Follows(w)
  <2> DEFINE to == AfterRefund(t.payment, t.amount)
             next == [t EXCEPT !.step = "payment_update", !.seen = to]
  <2>1. Run(w, next, {}) /\ t.job = "refund" /\ t.step = "rows" BY <1>9 DEF SumRefunds, At
  <2>2. t.payment \in Payment /\ TypeOK
    BY <2>1, OneWorker DEF RequestOK, Working, TxInv, LedgerInv
  <2>3. to = "REFUNDED" => payment[t.payment].gross <= Back(t.payment) + t.amount
    <3>1. RefundsOf(t.payment, {"COMPLETED"}) = Back(t.payment) BY <2>2, Totals DEF Back
    <3>2. Back(t.payment) \in Nat /\ t.amount \in Nat /\ payment[t.payment].gross \in Nat
      BY <1>1, <2>2, TotalsNat, AmountNat DEF Back, TxRow
    <3> QED BY <3>1, <3>2 DEF AfterRefund
  <2> HIDE DEF to
  <2>4. /\ next.job = "refund" /\ next.payment = t.payment /\ next.refund = t.refund
        /\ next.amount = t.amount /\ next.seen = to /\ next.rows = t.rows
    BY <1>1, <2>1 DEF TxRow
  <2> HIDE DEF next
  <2> QED BY <1>2, <2>1, <2>3, <2>4 DEF Unread
<1>10. ASSUME LockPayment(w, "refund") PROVE Follows(w)
  <2> DEFINE next == [t EXCEPT !.step = "commit"]
             rows == {<<"payment", t.payment>>}
  <2>1. Run(w, next, rows) /\ t.job = "refund" /\ t.step = "payment_update"
    BY <1>10 DEF LockPayment, At
  <2>2. /\ next.job = "refund" /\ next.payment = t.payment /\ next.refund = t.refund
        /\ next.amount = t.amount /\ next.seen = t.seen /\ next.rows = t.rows
    BY <1>1, <2>1 DEF TxRow
  <2>3. t.seen = "REFUNDED" => payment[t.payment].gross <= Back(t.payment) + t.amount
    BY <1>1, <2>1 DEF RefundKnown
  <2> HIDE DEF next, rows
  <2> QED BY <1>2, <2>1, <2>2, <2>3 DEF Unread
<1> QED BY <1>3, <1>4, <1>5, <1>6, <1>7, <1>8, <1>9, <1>10 DEF RefundStep

\* So the invariant holds after a statement.
LEMMA FollowsRaces ==
  ASSUME RacesInv, TxInv', NEW w \in Worker, Follows(w)
  PROVE  RacesInv'
<1>1. UNCHANGED <<inst, payment, alloc, refund, credit, app>> BY DEF Follows, vars
<1>2. CreditsInv'
  BY <1>1 DEF RacesInv, CreditsInv, ConsumedIsApplied, OneLiveCreditPerPayment, FreshPayments, LiveOf
<1>3. \A x \in Worker : RefundKnown(tx'[x])
  BY DEF RacesInv, RefundsInv, Follows
<1>4. \A x \in Worker : RefundKnown(tx[x])' BY <1>1, <1>3 DEF RefundKnown, Back
<1>5. RefundsInv'
  BY <1>1, <1>4 DEF RacesInv, RefundsInv, RefundsPositive, Capped, RefundedInFull, Back
<1>6. PICK table \in Tables : Backing(table) BY DEF RacesInv, Backed
<1>7. ASSUME NEW x \in Worker PROVE ReadBefore(tx'[x], table)
  <2>1. ReadBefore(tx[x], table) BY <1>6 DEF Backing
  <2>2. CASE x # w BY <2>1, <2>2 DEF Follows
  <2>3. CASE x = w
    <3>1. ReadNow(tx'[x], tx[x]) BY <2>3 DEF Follows
    <3>2. tx'[x].step # "idle" => tx'[x].payment \in Payment
      BY DEF TxInv, Workers, RequestOK, Working
    <3>3. \A p \in Payment, i \in Installment : table[p][i] <= alloc[p][i] BY <1>6 DEF Backing
    <3> QED BY <2>1, <3>1, <3>2, <3>3 DEF ReadNow, ReadBefore, Unread
  <2> QED BY <2>2, <2>3
<1>8. Backing(table)'
  <2>1. FundedBy(inst', table, app') BY <1>1, <1>6 DEF Backing
  <2> QED BY <1>1, <1>6, <1>7, <2>1 DEF Backing
<1>9. Backed' BY <1>8 DEF Backed
<1> QED BY <1>2, <1>5, <1>9 DEF RacesInv

---------------------------------------------------------------------------
(* The commits, and the other handlers.                                    *)

\* A request goes on knowing what it knew, or is over.
Kept == \A x \in Worker : tx'[x] = tx[x] \/ tx'[x] = Idle

\* Nothing is forgotten of the refunds, and none is given back less of.
RefundsStay ==
  /\ \A r \in Refund : refund[r].status # "NONE" =>
       /\ refund'[r].status # "NONE"
       /\ refund'[r].payment = refund[r].payment /\ refund'[r].amount = refund[r].amount
  /\ \A p \in Payment : payment[p].status # "NONE" =>
       payment'[p].gross = payment[p].gross /\ Back(p) <= RefundedIn(refund', p, {"COMPLETED"})

LEMMA KnownStays ==
  ASSUME TxInv, TypeOK', RefundsInv, Kept, RefundsStay
  PROVE  \A w \in Worker : RefundKnown(tx[w])'
<1> SUFFICES ASSUME NEW w \in Worker, tx'[w].job = "refund"
             PROVE  /\ refund'[tx'[w].refund].status # "NONE"
                    /\ refund'[tx'[w].refund].payment = tx'[w].payment
                    /\ refund'[tx'[w].refund].amount = tx'[w].amount
                    /\ tx'[w].step \in {"payment_update", "commit"} /\ tx'[w].seen = "REFUNDED"
                         => payment'[tx'[w].payment].gross
                              <= RefundedIn(refund', tx'[w].payment, {"COMPLETED"}) + tx'[w].amount
  BY DEF RefundKnown, Back
<1> DEFINE t == tx[w]
           p == t.payment
<1>1. tx'[w] = t /\ t.job = "refund" /\ t \in TxRow /\ RequestOK(t, held[w]) /\ RefundKnown(t)
  BY OneWorker, IdleTyped DEF Kept, RefundsInv
<1>2. t.refund \in Refund /\ p \in Payment /\ payment[p].status # "NONE"
  BY <1>1, IdleTyped DEF RequestOK, Working
<1>3. /\ refund[t.refund].status # "NONE"
      /\ refund[t.refund].payment = p /\ refund[t.refund].amount = t.amount
      /\ t.step \in {"payment_update", "commit"} /\ t.seen = "REFUNDED"
           => payment[p].gross <= Back(p) + t.amount
  BY <1>1 DEF RefundKnown
<1>4. payment'[p].gross = payment[p].gross /\ Back(p) <= RefundedIn(refund', p, {"COMPLETED"})
  BY <1>2 DEF RefundsStay
<1>5. /\ Back(p) \in Nat /\ RefundedIn(refund', p, {"COMPLETED"}) \in Nat
      /\ t.amount \in Nat /\ payment[p].gross \in Nat
  <2>1. TypeOK BY DEF TxInv, LedgerInv
  <2>2. refund' \in [Refund -> RefundRow] BY DEF TypeOK
  <2>3. RefundedIn(refund', p, {"COMPLETED"}) \in Nat BY <2>2, RefundedNat
  <2> QED BY <1>1, <1>2, <2>1, <2>3, TotalsNat, AmountNat DEF Back, TxRow
<1>6. t.step \in {"payment_update", "commit"} /\ t.seen = "REFUNDED"
        => payment'[p].gross <= RefundedIn(refund', p, {"COMPLETED"}) + t.amount
  BY <1>3, <1>4, <1>5
<1> QED BY <1>1, <1>2, <1>3, <1>6 DEF RefundsStay

\* A handler that leaves the refunds alone, and of the payments that were received
\* all but the status, which it makes VOIDED if anything.
LEMMA SameRefunds ==
  ASSUME TxInv, TypeOK', RefundsInv, FreshPayments, Kept, refund' = refund,
         \A p \in Payment : payment[p].status # "NONE" =>
           /\ payment'[p].gross = payment[p].gross
           /\ payment'[p].status \in {payment[p].status, "VOIDED"},
         \A p \in Payment : payment[p].status = "NONE" => payment'[p].status # "REFUNDED"
  PROVE  RefundsInv'
<1>1. TypeOK BY DEF TxInv, LedgerInv
<1>2. \A p \in Payment : Back(p) \in Nat BY <1>1, TotalsNat DEF Back
<1>3. \A w \in Worker : RefundKnown(tx[w])'
  <2>1. RefundsStay BY <1>2 DEF RefundsStay, Back
  <2> QED BY <2>1, KnownStays
<1>4. RefundsPositive' BY DEF RefundsInv, RefundsPositive
<1>5. Capped'
  <2> SUFFICES ASSUME NEW p \in Payment PROVE RefundedIn(refund, p, Promise) <= payment'[p].gross
    BY DEF Capped
  <2>1. CASE payment[p].status # "NONE" BY <2>1 DEF RefundsInv, Capped
  <2>2. CASE payment[p].status = "NONE"
    <3>1. payment'[p].gross \in Nat BY DEF TypeOK, PaymentRow
    <3>2. RefundedIn(refund, p, Promise) = 0 BY <2>2, FreshTotals
    <3> QED BY <3>1, <3>2
  <2> QED BY <2>1, <2>2
<1>6. RefundedInFull' BY DEF RefundsInv, RefundedInFull, Back
<1> QED BY <1>3, <1>4, <1>5, <1>6 DEF RefundsInv

\* What is left of the allocations may grow only for a payment nobody has read.
LEMMA ReadsStay ==
  ASSUME TxInv, Kept, NEW table, NEW after,
         Entries(Payment, table), Entries(Payment, after),
         \A w \in Worker : ReadBefore(tx[w], table),
         \A p \in Payment, i \in Installment :
           payment[p].status # "NONE" => after[p][i] <= table[p][i]
  PROVE  \A w \in Worker : ReadBefore(tx'[w], after)
<1> SUFFICES ASSUME NEW w \in Worker, tx'[w].step \notin Unread, NEW i \in Installment
             PROVE  after[tx'[w].payment][i] <= tx'[w].rows[i]
  BY DEF ReadBefore
<1> DEFINE t == tx[w]
           p == t.payment
<1>1. tx'[w] = t BY IdleTyped DEF Kept, Unread
<1>2. t \in TxRow /\ p \in Payment /\ payment[p].status # "NONE"
  BY <1>1, OneWorker DEF RequestOK, Working, Unread
<1>3. table[p][i] <= t.rows[i] BY <1>1 DEF ReadBefore
<1>4. after[p][i] <= table[p][i] BY <1>2
<1>5. table[p][i] \in Int /\ after[p][i] \in Int /\ t.rows[i] \in Int
  BY <1>2, AmountNat DEF Entries, TxRow
<1> QED BY <1>1, <1>3, <1>4, <1>5

\* A handler that writes neither the rows' money nor the tables it comes from.
LEMMA SameBacking ==
  ASSUME TxInv, Backed, Kept, UNCHANGED <<alloc, app>>,
         \A i \in Installment : inst'[i].paid = inst[i].paid
  PROVE  Backed'
<1>1. PICK table \in Tables : Backing(table) BY DEF Backed
<1>2. FundedBy(inst', table, app') BY <1>1 DEF Backing, FundedBy
<1>3. \A w \in Worker : ReadBefore(tx'[w], table)
  <2>1. \A w \in Worker : ReadBefore(tx[w], table) BY <1>1 DEF Backing
  <2> QED BY <2>1, IdleTyped DEF Kept, ReadBefore, Unread
<1>4. Backing(table)' BY <1>1, <1>2, <1>3 DEF Backing
<1> QED BY <1>4 DEF Backed

\* A request that fails.
LEMMA AbortRaces ==
  ASSUME RacesInv, TxInv', NEW w \in Worker, Abort(w)
  PROVE  RacesInv'
<1>1. UNCHANGED vars /\ TypeOK' BY DEF Abort, TxInv, LedgerInv
<1>2. Kept BY DEF Abort, Finish, Kept, RacesInv, TxInv, Workers
<1>3. CreditsInv'
  BY <1>1 DEF RacesInv, CreditsInv, ConsumedIsApplied, OneLiveCreditPerPayment, FreshPayments,
              LiveOf, vars
<1>4. RefundsInv'
  <2>1. \A p \in Payment : payment'[p] = payment[p] BY <1>1 DEF vars
  <2>2. refund' = refund BY <1>1 DEF vars
  <2> QED BY <1>1, <1>2, <2>1, <2>2, SameRefunds DEF RacesInv, CreditsInv, RefundsInv, RefundedInFull
<1>5. Backed' BY <1>1, <1>2, SameBacking DEF RacesInv, vars
<1> QED BY <1>3, <1>4, <1>5 DEF RacesInv

\* voidPayment takes off the rows, and out of the table, what the allocations say.
LEMMA CommitVoidRaces ==
  ASSUME RacesInv, TxInv', NEW w \in Worker, CommitVoid(w)
  PROVE  RacesInv'
<1> DEFINE p == tx[w].payment
<1>1. TxInv /\ TypeOK /\ TypeOK' BY DEF RacesInv, TxInv, LedgerInv
<1>2. VoidPayment(p) BY <1>1, CommitVoidSerial
<1>3. p \in Payment
  BY <1>1, OneWorker DEF CommitVoid, At, RequestOK, Working
<1>4. Kept BY <1>1 DEF CommitVoid, Finish, Kept, TxInv, Workers
<1> HIDE DEF p
<1>5. /\ payment[p].status = "RECEIVED" /\ UNCHANGED <<refund, app>>
      /\ alloc' = [alloc EXCEPT ![p] = NoRows]
      /\ payment' = [payment EXCEPT ![p].status = "VOIDED"]
      /\ inst' = [i \in Installment |->
                    IF alloc[p][i] > 0 THEN Voided(inst[i], alloc[p][i]) ELSE inst[i]]
  BY <1>2 DEF VoidPayment
<1>6. CreditsInv' BY <1>1, <1>2, <1>3, VoidPaymentCredits DEF RacesInv, CreditsInv
<1>7. \A q \in Payment : /\ payment'[q].gross = payment[q].gross
                         /\ payment'[q].status = IF q = p THEN "VOIDED" ELSE payment[q].status
  <2>1. payment \in [Payment -> PaymentRow] BY <1>1 DEF TypeOK
  <2> QED BY <1>5, <2>1 DEF PaymentRow
<1>8. RefundsInv'
  <2>1. \A q \in Payment : payment[q].status = "NONE" => payment'[q].status # "REFUNDED" BY <1>7
  <2> QED BY <1>1, <1>4, <1>5, <1>7, <2>1, SameRefunds DEF RacesInv, CreditsInv
<1>9. PICK table \in Tables : Backing(table) BY DEF RacesInv, Backed
<1> DEFINE after == [table EXCEPT ![p] = [i \in Installment |-> table[p][i] - alloc[p][i]]]
<1>10. /\ \A q \in Payment : alloc[q] \in [Installment -> Nat]
       /\ \A q \in Payment : table[q] \in [Installment -> Int]
       /\ \A i \in Installment : inst[i].paid \in Nat
  BY <1>1, <1>9 DEF TypeOK, Tables, InstallmentRow
<1>11. after \in Tables BY <1>3, <1>9, <1>10 DEF Tables
<1>12. /\ \A i \in Installment : after[p][i] = table[p][i] - alloc[p][i]
       /\ \A q \in Payment, i \in Installment : q # p => after[q][i] = table[q][i]
  BY <1>3, <1>9 DEF Tables
<1> HIDE DEF after
<1>13. Entries(Payment, table) /\ Entries(Payment, after) /\ Entries(Credit, app)
  BY <1>1, <1>9, <1>11, TablesInt DEF Tables, Entries
<1>14. ASSUME NEW i \in Installment
       PROVE  inst'[i].paid = inst[i].paid - table[p][i] + after[p][i]
  <2>1. inst'[i].paid = inst[i].paid - alloc[p][i]
    <3>1. alloc[p][i] \in Nat /\ inst[i].paid \in Nat BY <1>3, <1>10
    <3>2. Voided(inst[i], alloc[p][i]).paid = inst[i].paid - alloc[p][i] BY DEF Voided, Row
    <3> QED BY <1>5, <3>1, <3>2
  <2>2. alloc[p][i] \in Int /\ inst[i].paid \in Int /\ table[p][i] \in Int BY <1>3, <1>10
  <2> QED BY <1>12, <2>1, <2>2
<1>15. FundedBy(inst', after, app')
  <2>1. FundedBy(inst, table, app) BY <1>9 DEF Backing
  <2> QED BY <1>3, <1>5, <1>12, <1>13, <1>14, <2>1, FundedByPayment
<1>16. ASSUME NEW q \in Payment, NEW i \in Installment PROVE after[q][i] <= alloc'[q][i]
  <2>1. table[q][i] <= alloc[q][i] BY <1>9 DEF Backing
  <2>2. CASE q = p
    <3>1. alloc'[q][i] = 0 BY <1>1, <1>5, <2>2 DEF NoRows, TypeOK
    <3>2. after[q][i] = table[q][i] - alloc[q][i] BY <1>12, <2>2
    <3>3. table[q][i] \in Int /\ alloc[q][i] \in Int BY <1>10
    <3> QED BY <2>1, <3>1, <3>2, <3>3
  <2>3. CASE q # p BY <1>1, <1>5, <1>12, <2>1, <2>3 DEF TypeOK
  <2> QED BY <2>2, <2>3
<1>17. \A x \in Worker : ReadBefore(tx'[x], after)
  <2>1. \A x \in Worker : ReadBefore(tx[x], table) BY <1>9 DEF Backing
  <2>2. ASSUME NEW q \in Payment, NEW i \in Installment PROVE after[q][i] <= table[q][i]
    <3>1. table[q][i] \in Int /\ alloc[q][i] \in Nat BY <1>10
    <3>2. after[q][i] = table[q][i] \/ after[q][i] = table[q][i] - alloc[q][i] BY <1>12
    <3> QED BY <3>1, <3>2
  <2> QED BY <1>1, <1>4, <1>13, <2>1, <2>2, ReadsStay
<1>18. Backed' BY <1>11, <1>15, <1>16, <1>17 DEF Backed, Backing
<1> QED BY <1>6, <1>8, <1>18 DEF RacesInv

\* A pending refund is settled: it stays promised or is no more, and counts as
\* given back if it was completed.
LEMMA RefundSettled ==
  ASSUME TypeOK, NEW r \in Refund, NEW to \in {"COMPLETED", "FAILED"},
         refund[r].status = "PENDING", refund' = [refund EXCEPT ![r].status = to]
  PROVE  /\ \A x \in Refund : /\ refund'[x].payment = refund[x].payment
                              /\ refund'[x].amount = refund[x].amount
                              /\ refund'[x].status = IF x = r THEN to ELSE refund[x].status
         /\ \A q : RefundedIn(refund', q, Promise) <= RefundedIn(refund, q, Promise)
         /\ \A q : RefundedIn(refund', q, {"COMPLETED"})
                     = RefundedIn(refund, q, {"COMPLETED"})
                         + (IF to = "COMPLETED" /\ q = refund[r].payment THEN refund[r].amount ELSE 0)
<1> DEFINE row == [refund[r] EXCEPT !.status = to]
<1>1. refund \in [Refund -> RefundRow] /\ refund[r] \in RefundRow BY DEF TypeOK
<1>2. /\ row \in RefundRow /\ row.status = to /\ row.payment = refund[r].payment
      /\ row.amount = refund[r].amount
  BY <1>1 DEF RefundRow, RefundStatus
<1>3. refund' = [refund EXCEPT ![r] = row] BY <1>1
<1> HIDE DEF row
<1>4. \A x \in Refund : /\ refund'[x].payment = refund[x].payment
                        /\ refund'[x].amount = refund[x].amount
                        /\ refund'[x].status = IF x = r THEN to ELSE refund[x].status
  BY <1>1, <1>2, <1>3
<1>5. ASSUME NEW q PROVE RefundedIn(refund', q, Promise) <= RefundedIn(refund, q, Promise)
  <2>1. Counts(row, q, Promise) <= Counts(refund[r], q, Promise)
    BY <1>1, <1>2 DEF Counts, Promise, RefundRow
  <2>2. /\ RefundedIn(refund', q, Promise)
             = RefundedIn(refund, q, Promise) - Counts(refund[r], q, Promise)
                 + Counts(row, q, Promise)
        /\ RefundedIn(refund, q, Promise) \in Nat
        /\ Counts(refund[r], q, Promise) \in Nat /\ Counts(row, q, Promise) \in Nat
    BY <1>2, <1>3, RefundWritten, Zenon
  <2> QED BY <2>1, <2>2
<1>6. ASSUME NEW q
      PROVE  RefundedIn(refund', q, {"COMPLETED"})
               = RefundedIn(refund, q, {"COMPLETED"})
                   + (IF to = "COMPLETED" /\ q = refund[r].payment THEN refund[r].amount ELSE 0)
  <2> DEFINE done == {"COMPLETED"}
  <2>1. /\ Counts(refund[r], q, done) = 0
        /\ Counts(row, q, done)
             = IF to = "COMPLETED" /\ q = refund[r].payment THEN refund[r].amount ELSE 0
    BY <1>2 DEF Counts
  <2> HIDE DEF done
  <2>2. /\ RefundedIn(refund', q, done)
             = RefundedIn(refund, q, done) - Counts(refund[r], q, done) + Counts(row, q, done)
        /\ RefundedIn(refund, q, done) \in Nat
        /\ Counts(refund[r], q, done) \in Nat /\ Counts(row, q, done) \in Nat
    BY <1>2, <1>3, RefundWritten, Zenon
  <2>3. RefundedIn(refund', q, done)
          = RefundedIn(refund, q, done)
              + (IF to = "COMPLETED" /\ q = refund[r].payment THEN refund[r].amount ELSE 0)
    BY <2>1, <2>2
  <2> QED BY <2>3 DEF done
<1> QED BY <1>4, <1>5, <1>6

\* A refund that can still be completed was not given back yet: its payment is not
\* fully refunded.
LEMMA StillOwed ==
  ASSUME RacesInv, NEW r \in Refund, refund[r].status = "PENDING",
         refund' = [refund EXCEPT ![r].status = "COMPLETED"]
  PROVE  /\ Back(refund[r].payment) + refund[r].amount <= payment[refund[r].payment].gross
         /\ payment[refund[r].payment].status # "REFUNDED"
<1> DEFINE p == refund[r].payment
<1>1. TypeOK /\ p \in Payment /\ refund[r] \in RefundRow
  BY DEF RacesInv, TxInv, LedgerInv, TypeOK
<1>2. refund' \in [Refund -> RefundRow] BY <1>1, RefundFlips DEF RefundStatus
<1>3. /\ RefundedIn(refund, p, Promise) <= payment[p].gross /\ refund[r].amount > 0
      /\ payment[p].status = "REFUNDED" => payment[p].gross <= Back(p)
  BY <1>1 DEF RacesInv, RefundsInv, Capped, RefundsPositive, RefundedInFull
<1>4. /\ RefundedIn(refund', p, {"COMPLETED"}) = Back(p) + refund[r].amount
      /\ RefundedIn(refund', p, Promise) <= RefundedIn(refund, p, Promise)
  BY <1>1, RefundSettled DEF Back
<1>5. RefundedIn(refund', p, {"COMPLETED"}) <= RefundedIn(refund', p, Promise)
  BY <1>2, BackIsPromised
<1>6. /\ Back(p) \in Nat /\ refund[r].amount \in Nat /\ payment[p].gross \in Nat
      /\ RefundedIn(refund, p, Promise) \in Nat /\ RefundedIn(refund', p, Promise) \in Nat
  BY <1>1, <1>2, TotalsNat, RefundedNat DEF Back, RefundRow
<1> HIDE DEF p
<1>7. Back(p) + refund[r].amount <= payment[p].gross BY <1>3, <1>4, <1>5, <1>6
<1>8. payment[p].status # "REFUNDED" BY <1>3, <1>6, <1>7
<1> QED BY <1>7, <1>8 DEF p

\* completeRefund takes off the rows what it takes out of the table; the allocation
\* it writes is what it read less that, and the table had no more.
LEMMA CommitRefundRaces ==
  ASSUME RacesInv, TxInv', NEW w \in Worker, CommitRefund(w)
  PROVE  RacesInv'
<1> DEFINE t == tx[w]
           p == t.payment
           r == t.refund
<1>1. TxInv /\ TypeOK /\ TypeOK' /\ CreditWithinAmount BY DEF RacesInv, TxInv, LedgerInv
<1>2. /\ t \in TxRow /\ RequestOK(t, held[w]) /\ RefundKnown(t) /\ t.step = "commit"
      /\ t.job = "refund"
  BY <1>1, OneWorker DEF CommitRefund, At, RacesInv, RefundsInv
<1>3. /\ p \in Payment /\ payment[p].status # "NONE" /\ r \in Refund
      /\ t.seen \in {"PARTIALLY_REFUNDED", "REFUNDED"}
      /\ refund[r].payment = p /\ refund[r].amount = t.amount
      /\ t.seen = "REFUNDED" => payment[p].gross <= Back(p) + t.amount
  BY <1>2 DEF RequestOK, Working, RefundKnown
<1>4. /\ inst' = [i \in Installment |->
                    IF t.back[i] > 0 THEN Unwound(inst[i], t.back[i]) ELSE inst[i]]
      /\ alloc' = [alloc EXCEPT ![p] = [i \in Installment |->
                     IF t.back[i] > 0 THEN t.rows[i] - t.back[i] ELSE alloc[p][i]]]
      /\ Replaces(t.take, p, r, ToReverse(w))
      /\ payment' = [payment EXCEPT ![p].status = t.seen]
      /\ refund' = [refund EXCEPT ![r].status = "COMPLETED"]
      /\ refund[r].status = "PENDING" /\ app' = app
  BY DEF CommitRefund, StillPending
<1>5. /\ \A i \in Installment : t.back[i] \in Nat /\ t.rows[i] \in Nat
      /\ \A c \in Taken(t.take) : credit[c].status = "LIVE" /\ credit[c].source = FromPayment(p)
      /\ Taken(t.take) \in SUBSET Credit
  BY <1>2, AmountNat DEF TxRow, RequestOK, Holds, Taken
<1>6. Kept BY <1>1 DEF CommitRefund, Finish, Kept, TxInv, Workers
<1> HIDE DEF t, p, r
<1>8. \A q \in Payment : /\ payment'[q].gross = payment[q].gross
                         /\ payment'[q].status = IF q = p THEN t.seen ELSE payment[q].status
  <2>1. payment \in [Payment -> PaymentRow] BY <1>1 DEF TypeOK
  <2> QED BY <1>4, <2>1 DEF PaymentRow
<1>9. /\ \A x \in Refund : /\ refund'[x].payment = refund[x].payment
                           /\ refund'[x].amount = refund[x].amount
                           /\ refund'[x].status = IF x = r THEN "COMPLETED" ELSE refund[x].status
      /\ \A q : RefundedIn(refund', q, Promise) <= RefundedIn(refund, q, Promise)
      /\ \A q : RefundedIn(refund', q, {"COMPLETED"})
                  = Back(q) + (IF q = p THEN t.amount ELSE 0)
  BY <1>1, <1>3, <1>4, RefundSettled DEF Back
<1>10. CreditsInv'
  <2>1. /\ ConsumedIsApplied' /\ OneLiveCreditPerPayment'
        /\ \A q \in Payment :
             /\ q # p
             /\ \A c \in Credit : credit[c].status = "LIVE" => credit[c].source # FromPayment(q)
             => \A c \in Credit : credit'[c].status = "LIVE" => credit'[c].source # FromPayment(q)
    BY <1>1, <1>3, <1>4, <1>5, ReplacesCredits DEF RacesInv, CreditsInv
  <2>2. FreshPayments'
    <3> SUFFICES ASSUME NEW q \in Payment, payment'[q].status = "NONE"
                 PROVE  /\ alloc'[q] = NoRows
                        /\ \A c \in Credit :
                             credit'[c].status = "LIVE" => credit'[c].source # FromPayment(q)
                        /\ \A x \in Refund : refund'[x].status # "NONE" => refund'[x].payment # q
      BY DEF FreshPayments, NoRows
    <3>1. q # p /\ payment[q].status = "NONE" BY <1>3, <1>8
    <3>2. /\ alloc[q] = NoRows
          /\ \A c \in Credit : credit[c].status = "LIVE" => credit[c].source # FromPayment(q)
          /\ \A x \in Refund : refund[x].status # "NONE" => refund[x].payment # q
      BY <3>1 DEF RacesInv, CreditsInv, FreshPayments
    <3>3. alloc'[q] = alloc[q] BY <1>1, <1>4, <3>1 DEF TypeOK
    <3>4. \A x \in Refund : refund'[x].status # "NONE" => refund'[x].payment # q
      BY <1>4, <1>9, <3>2
    <3> QED BY <2>1, <3>1, <3>2, <3>3, <3>4
  <2> QED BY <2>1, <2>2 DEF CreditsInv
<1>11. RefundsInv'
  <2>1. \A q \in Payment : /\ Back(q) \in Nat /\ payment[q].gross \in Nat
                           /\ RefundedIn(refund, q, Promise) \in Nat
    BY <1>1, TotalsNat DEF Back
  <2>2. t.amount \in Nat BY <1>2, AmountNat DEF TxRow
  <2>3. refund' \in [Refund -> RefundRow] BY <1>1 DEF TypeOK
  <2>4. RefundsStay
    <3>1. \A q \in Payment : Back(q) <= RefundedIn(refund', q, {"COMPLETED"})
      BY <1>9, <2>1, <2>2
    <3>2. \A x \in Refund : refund[x].status # "NONE" =>
            /\ refund'[x].status # "NONE"
            /\ refund'[x].payment = refund[x].payment /\ refund'[x].amount = refund[x].amount
      BY <1>9
    <3>3. \A q \in Payment : payment'[q].gross = payment[q].gross BY <1>8
    <3> QED BY <3>1, <3>2, <3>3 DEF RefundsStay
  <2>5. \A x \in Worker : RefundKnown(tx[x])'
    BY <1>1, <1>6, <2>4, KnownStays DEF RacesInv
  <2>6. RefundsPositive' BY <1>4, <1>9 DEF RacesInv, RefundsInv, RefundsPositive
  <2>7. Capped'
    <3> SUFFICES ASSUME NEW q \in Payment PROVE RefundedIn(refund', q, Promise) <= payment'[q].gross
      BY DEF Capped
    <3>1. RefundedIn(refund, q, Promise) <= payment[q].gross BY DEF RacesInv, RefundsInv, Capped
    <3>2. RefundedIn(refund', q, Promise) <= RefundedIn(refund, q, Promise) BY <1>9
    <3>3. RefundedIn(refund', q, Promise) \in Nat BY <2>3, RefundedNat
    <3> QED BY <1>8, <2>1, <3>1, <3>2, <3>3
  <2>8. RefundedInFull'
    <3> SUFFICES ASSUME NEW q \in Payment, payment'[q].status = "REFUNDED"
                 PROVE  payment'[q].gross <= RefundedIn(refund', q, {"COMPLETED"})
      BY DEF RefundedInFull, Back
    <3>1. CASE q = p BY <1>3, <1>8, <1>9, <3>1
    <3>2. CASE q # p
      <4>1. payment[q].gross <= Back(q) BY <1>8, <3>2 DEF RacesInv, RefundsInv, RefundedInFull
      <4> QED BY <1>8, <1>9, <2>1, <3>2, <4>1
    <3> QED BY <3>1, <3>2
  <2> QED BY <2>5, <2>6, <2>7, <2>8 DEF RefundsInv
<1>12. PICK table \in Tables : Backing(table) BY DEF RacesInv, Backed
<1> DEFINE after == [table EXCEPT ![p] = [i \in Installment |-> table[p][i] - t.back[i]]]
<1>13. /\ \A q \in Payment : table[q] \in [Installment -> Int]
       /\ \A q \in Payment : alloc[q] \in [Installment -> Nat]
       /\ \A i \in Installment : inst[i].paid \in Nat
  BY <1>1, <1>12 DEF TypeOK, Tables, InstallmentRow
<1>14. after \in Tables
  <2>1. [i \in Installment |-> table[p][i] - t.back[i]] \in [Installment -> Int]
    BY <1>3, <1>5, <1>13
  <2> QED BY <1>3, <1>12, <2>1 DEF Tables
<1>15. /\ \A i \in Installment : after[p][i] = table[p][i] - t.back[i]
       /\ \A q \in Payment, i \in Installment : q # p => after[q][i] = table[q][i]
  BY <1>3, <1>12 DEF Tables
<1> HIDE DEF after
<1>16. Entries(Payment, table) /\ Entries(Payment, after) /\ Entries(Credit, app)
  BY <1>1, <1>12, <1>14, TablesInt DEF Tables, Entries
<1>17. ASSUME NEW i \in Installment
       PROVE  inst'[i].paid = inst[i].paid - table[p][i] + after[p][i]
  <2>1. inst'[i].paid = inst[i].paid - t.back[i]
    <3>1. t.back[i] \in Nat /\ inst[i].paid \in Nat BY <1>5, <1>13
    <3>2. Unwound(inst[i], t.back[i]).paid = inst[i].paid - t.back[i] BY DEF Unwound, Row
    <3> QED BY <1>4, <3>1, <3>2
  <2>2. t.back[i] \in Int /\ inst[i].paid \in Int /\ table[p][i] \in Int BY <1>3, <1>5, <1>13
  <2> QED BY <1>15, <2>1, <2>2
<1>18. FundedBy(inst', after, app')
  <2>1. FundedBy(inst, table, app) BY <1>12 DEF Backing
  <2> QED BY <1>3, <1>4, <1>15, <1>16, <1>17, <2>1, FundedByPayment
<1>19. ASSUME NEW q \in Payment, NEW i \in Installment PROVE after[q][i] <= alloc'[q][i]
  <2>1. table[q][i] <= alloc[q][i] BY <1>12 DEF Backing
  <2>2. CASE q = p
    <3>1. alloc'[q][i] = IF t.back[i] > 0 THEN t.rows[i] - t.back[i] ELSE alloc[q][i]
      BY <1>1, <1>4, <2>2 DEF TypeOK
    <3>2. after[q][i] = table[q][i] - t.back[i] BY <1>15, <2>2
    <3>3. table[q][i] <= t.rows[i] BY <1>2, <1>12, <2>2 DEF Backing, ReadBefore, Unread, t, p
    <3>4. /\ table[q][i] \in Int /\ alloc[q][i] \in Int
          /\ t.rows[i] \in Int /\ t.back[i] \in Nat
      BY <1>5, <1>13
    <3> QED BY <2>1, <3>1, <3>2, <3>3, <3>4
  <2>3. CASE q # p BY <1>1, <1>4, <1>15, <2>1, <2>3 DEF TypeOK
  <2> QED BY <2>2, <2>3
<1>20. \A x \in Worker : ReadBefore(tx'[x], after)
  <2>1. \A x \in Worker : ReadBefore(tx[x], table) BY <1>12 DEF Backing
  <2>2. ASSUME NEW q \in Payment, NEW i \in Installment PROVE after[q][i] <= table[q][i]
    <3>1. table[q][i] \in Int /\ t.back[i] \in Nat BY <1>5, <1>13
    <3>2. after[q][i] = table[q][i] \/ after[q][i] = table[q][i] - t.back[i] BY <1>15
    <3> QED BY <3>1, <3>2
  <2> QED BY <1>1, <1>6, <1>16, <2>1, <2>2, ReadsStay
<1>21. Backed' BY <1>14, <1>18, <1>19, <1>20 DEF Backed, Backing
<1> QED BY <1>10, <1>11, <1>21 DEF RacesInv

\* recordPayment puts into the table what it puts into the allocations.
LEMMA ReceiveRaces ==
  ASSUME RacesInv, TxInv', UNCHANGED txVars, NEW p \in Payment, NEW gross \in Amount,
         NEW order \in [Installment -> Nat], NEW d \in [Installment -> Amount],
         Receive(p, gross, order, d)
  PROVE  RacesInv'
<1>1. TxInv /\ LedgerInv /\ TypeOK /\ TypeOK' BY DEF RacesInv, TxInv, LedgerInv
<1>2. Kept BY DEF Kept, txVars
<1>3. /\ payment[p].status = "NONE" /\ UNCHANGED <<refund, app>> /\ Settle(d)
      /\ payment' = [payment EXCEPT ![p] =
                       [status |-> "RECEIVED", gross |-> gross, order |-> order]]
      /\ alloc' = [alloc EXCEPT ![p] = d]
  BY DEF Receive, IsNext, Unused
<1>4. CreditsInv' BY <1>1, ReceiveCredits DEF RacesInv, CreditsInv
<1>5. RefundsInv'
  <2>1. \A q \in Payment : payment[q].status # "NONE" => payment'[q] = payment[q]
    BY <1>1, <1>3 DEF TypeOK
  <2>2. \A q \in Payment : payment[q].status = "NONE" => payment'[q].status # "REFUNDED"
    BY <1>1, <1>3 DEF TypeOK
  <2> QED BY <1>1, <1>2, <1>3, <2>1, <2>2, SameRefunds DEF RacesInv, CreditsInv
<1>6. PICK table \in Tables : Backing(table) BY DEF RacesInv, Backed
<1> DEFINE after == [table EXCEPT ![p] = [i \in Installment |-> table[p][i] + d[i]]]
<1>7. /\ \A q \in Payment : table[q] \in [Installment -> Int]
      /\ \A i \in Installment : d[i] \in Nat /\ inst[i].paid \in Nat
  BY <1>1, <1>6, AmountNat DEF TypeOK, Tables, InstallmentRow
<1>8. after \in Tables
  <2>1. [i \in Installment |-> table[p][i] + d[i]] \in [Installment -> Int] BY <1>7
  <2> QED BY <1>6, <2>1 DEF Tables
<1>9. /\ \A i \in Installment : after[p][i] = table[p][i] + d[i]
      /\ \A q \in Payment, i \in Installment : q # p => after[q][i] = table[q][i]
  BY <1>6 DEF Tables
<1> HIDE DEF after
<1>10. Entries(Payment, table) /\ Entries(Payment, after) /\ Entries(Credit, app)
  BY <1>1, <1>6, <1>8, TablesInt DEF Tables, Entries
<1>11. ASSUME NEW i \in Installment
       PROVE  inst'[i].paid = inst[i].paid - table[p][i] + after[p][i]
  <2>1. inst'[i].paid = inst[i].paid + d[i] BY <1>1, <1>3, SettlePaid
  <2>2. table[p][i] \in Int /\ d[i] \in Int /\ inst[i].paid \in Int BY <1>7
  <2> QED BY <1>9, <2>1, <2>2
<1>12. FundedBy(inst', after, app')
  <2>1. FundedBy(inst, table, app) BY <1>6 DEF Backing
  <2> QED BY <1>3, <1>9, <1>10, <1>11, <2>1, FundedByPayment
<1>13. ASSUME NEW q \in Payment, NEW i \in Installment PROVE after[q][i] <= alloc'[q][i]
  <2>1. table[q][i] <= alloc[q][i] BY <1>6 DEF Backing
  <2>2. CASE q = p
    <3>1. alloc[q] = NoRows BY <1>3, <2>2 DEF RacesInv, CreditsInv, FreshPayments
    <3>2. alloc[q][i] = 0 BY <3>1 DEF NoRows
    <3>3. alloc'[q][i] = d[i] BY <1>1, <1>3, <2>2 DEF TypeOK
    <3>4. after[q][i] = table[q][i] + d[i] BY <1>9, <2>2
    <3>5. table[q][i] \in Int /\ d[i] \in Int BY <1>7
    <3> QED BY <2>1, <3>2, <3>3, <3>4, <3>5
  <2>3. CASE q # p BY <1>1, <1>3, <1>9, <2>1, <2>3 DEF TypeOK
  <2> QED BY <2>2, <2>3
<1>14. \A x \in Worker : ReadBefore(tx'[x], after)
  <2>1. \A x \in Worker : ReadBefore(tx[x], table) BY <1>6 DEF Backing
  <2>2. ASSUME NEW q \in Payment, NEW i \in Installment, payment[q].status # "NONE"
        PROVE  after[q][i] <= table[q][i]
    <3>1. table[q][i] \in Int BY <1>7
    <3>2. after[q][i] = table[q][i] BY <1>3, <1>9, <2>2
    <3> QED BY <3>1, <3>2
  <2> QED BY <1>1, <1>2, <1>10, <2>1, <2>2, ReadsStay
<1>15. Backed' BY <1>8, <1>12, <1>13, <1>14 DEF Backed, Backing
<1> QED BY <1>4, <1>5, <1>15 DEF RacesInv

\* applyCredit puts it into the applications.
LEMMA SpendRaces ==
  ASSUME RacesInv, TxInv', UNCHANGED txVars, NEW c \in Credit,
         NEW d \in [Installment -> Amount], Spend(c, d)
  PROVE  RacesInv'
<1>1. TxInv /\ TypeOK /\ TypeOK' BY DEF RacesInv, TxInv, LedgerInv
<1>2. Kept BY DEF Kept, txVars
<1>3. /\ UNCHANGED <<payment, alloc, refund>> /\ Settle(d)
      /\ app' = [app EXCEPT ![c] = [i \in Installment |-> app[c][i] + d[i]]]
  BY DEF Spend, Applied
<1>4. CreditsInv' BY <1>1, SpendCredits DEF RacesInv, CreditsInv
<1>5. RefundsInv'
  <2>1. \A q \in Payment : payment'[q] = payment[q] BY <1>3
  <2> QED BY <1>1, <1>2, <1>3, <2>1, SameRefunds DEF RacesInv, CreditsInv
<1>6. PICK table \in Tables : Backing(table) BY DEF RacesInv, Backed
<1>7. /\ app \in [Credit -> [Installment -> Nat]]
      /\ \A i \in Installment : d[i] \in Nat /\ inst[i].paid \in Nat
  BY <1>1, AmountNat DEF TypeOK, InstallmentRow
<1>8. /\ \A i \in Installment : app'[c][i] = app[c][i] + d[i]
      /\ \A x \in Credit, i \in Installment : x # c => app'[x][i] = app[x][i]
  BY <1>3, <1>7
<1>9. Entries(Payment, table) /\ Entries(Credit, app) /\ Entries(Credit, app')
  BY <1>1, <1>6, TablesInt, TablesIntNext DEF Tables, Entries
<1>10. ASSUME NEW i \in Installment
       PROVE  inst'[i].paid = inst[i].paid - app[c][i] + app'[c][i]
  <2>1. inst'[i].paid = inst[i].paid + d[i] BY <1>1, <1>3, SettlePaid
  <2>2. app[c][i] \in Int /\ d[i] \in Int /\ inst[i].paid \in Int BY <1>7
  <2> QED BY <1>8, <2>1, <2>2
<1>11. FundedBy(inst', table, app')
  <2>1. FundedBy(inst, table, app) BY <1>6 DEF Backing
  <2> HIDE <1>3
  <2> QED BY <1>8, <1>9, <1>10, <2>1, FundedByCredit
<1>12. Backing(table)'
  <2>1. \A x \in Worker : ReadBefore(tx'[x], table) BY <1>6 DEF Backing, txVars
  <2> QED BY <1>3, <1>6, <1>11, <2>1 DEF Backing
<1>13. Backed' BY <1>12 DEF Backed
<1> QED BY <1>4, <1>5, <1>13 DEF RacesInv

\* reverseCredit closes a credit nobody spent from.
LEMMA ReverseCreditRaces ==
  ASSUME RacesInv, TxInv', UNCHANGED txVars, NEW c \in Credit, ReverseCredit(c)
  PROVE  RacesInv'
<1>1. TxInv /\ TypeOK /\ TypeOK' BY DEF RacesInv, TxInv, LedgerInv
<1>2. Kept BY DEF Kept, txVars
<1>3. UNCHANGED <<inst, payment, alloc, refund, app>> BY DEF ReverseCredit
<1>4. CreditsInv' BY <1>1, ReverseCreditCredits DEF RacesInv, CreditsInv
<1>5. RefundsInv'
  <2>1. \A q \in Payment : payment'[q] = payment[q] BY <1>3
  <2> QED BY <1>1, <1>2, <1>3, <2>1, SameRefunds DEF RacesInv, CreditsInv
<1>6. Backed' BY <1>1, <1>2, <1>3, SameBacking DEF RacesInv
<1> QED BY <1>4, <1>5, <1>6 DEF RacesInv

\* A handler that writes amounts owed, or nothing of the ledger.
LEMMA QuietRaces ==
  ASSUME RacesInv, TxInv', Kept, UNCHANGED <<payment, alloc, refund, credit, app>>,
         \A i \in Installment : inst'[i].paid = inst[i].paid
  PROVE  RacesInv'
<1>1. TxInv /\ TypeOK' BY DEF RacesInv, TxInv, LedgerInv
<1>2. CreditsInv'
  BY DEF RacesInv, CreditsInv, ConsumedIsApplied, OneLiveCreditPerPayment, FreshPayments, LiveOf
<1>3. RefundsInv'
  <2>1. \A q \in Payment : payment'[q] = payment[q] OBVIOUS
  <2> QED BY <1>1, <2>1, SameRefunds DEF RacesInv, CreditsInv
<1>4. Backed' BY <1>1, SameBacking DEF RacesInv
<1> QED BY <1>2, <1>3, <1>4 DEF RacesInv

\* A handler that writes the refunds alone, and of those that are known only the
\* status of one that is pending.
LEMMA RefundOnlyRaces ==
  ASSUME RacesInv, TxInv', UNCHANGED txVars, UNCHANGED <<inst, payment, alloc, credit, app>>,
         \A r \in Refund : refund[r].status # "NONE" =>
           /\ refund'[r].status # "NONE"
           /\ refund'[r].payment = refund[r].payment /\ refund'[r].amount = refund[r].amount,
         \A r \in Refund : refund'[r].status # "NONE" =>
           /\ refund'[r].amount > 0 /\ refund'[r].payment \in Payment
           /\ payment[refund'[r].payment].status # "NONE",
         \A q \in Payment : Back(q) <= RefundedIn(refund', q, {"COMPLETED"}),
         \A q \in Payment : RefundedIn(refund', q, Promise) <= payment[q].gross
  PROVE  RacesInv'
<1>1. TxInv /\ TypeOK /\ TypeOK' BY DEF RacesInv, TxInv, LedgerInv
<1>2. Kept BY DEF Kept, txVars
<1>3. CreditsInv'
  <2>1. FreshPayments' BY DEF RacesInv, CreditsInv, FreshPayments
  <2> QED BY <2>1 DEF RacesInv, CreditsInv, ConsumedIsApplied, OneLiveCreditPerPayment, LiveOf
<1>4. RefundsInv'
  <2>1. RefundsStay BY DEF RefundsStay
  <2>2. \A x \in Worker : RefundKnown(tx[x])' BY <1>1, <1>2, <2>1, KnownStays DEF RacesInv
  <2>3. RefundsPositive' /\ Capped' BY DEF RefundsPositive, Capped
  <2>4. RefundedInFull'
    <3> SUFFICES ASSUME NEW q \in Payment, payment[q].status = "REFUNDED"
                 PROVE  payment[q].gross <= RefundedIn(refund', q, {"COMPLETED"})
      BY DEF RefundedInFull, Back
    <3>1. payment[q].gross <= Back(q) BY DEF RacesInv, RefundsInv, RefundedInFull
    <3>2. Back(q) <= RefundedIn(refund', q, {"COMPLETED"}) OBVIOUS
    <3>3. payment[q].gross \in Nat /\ Back(q) \in Nat BY <1>1, TotalsNat DEF Back
    <3>4. refund' \in [Refund -> RefundRow] BY <1>1 DEF TypeOK
    <3>5. RefundedIn(refund', q, {"COMPLETED"}) \in Nat BY <3>4, RefundedNat
    <3> QED BY <3>1, <3>2, <3>3, <3>5
  <2> QED BY <2>2, <2>3, <2>4 DEF RefundsInv
<1>5. Backed' BY <1>1, <1>2, SameBacking DEF RacesInv
<1> QED BY <1>3, <1>4, <1>5 DEF RacesInv

\* createRefund promises what is left of the payment at most.
LEMMA CreateRefundRaces ==
  ASSUME RacesInv, TxInv', UNCHANGED txVars, NEW r \in Refund, NEW p \in Payment,
         NEW amount \in Amount, CreateRefund(r, p, amount)
  PROVE  RacesInv'
<1> DEFINE row == [status |-> "PENDING", payment |-> p, amount |-> amount]
           done == {"COMPLETED"}
<1>1. TypeOK BY DEF RacesInv, TxInv, LedgerInv
<1>2. /\ UNCHANGED <<inst, payment, alloc, credit, app>> /\ refund' = [refund EXCEPT ![r] = row]
      /\ refund[r].status = "NONE" /\ payment[p].status # "NONE" /\ amount > 0
      /\ RefundsOf(p, {"PENDING", "COMPLETED"}) + amount <= payment[p].gross
  BY DEF CreateRefund, IsNext, Unused
<1>3. row \in RefundRow BY AmountNat DEF RefundRow, RefundStatus
<1>4. row.amount = amount /\ row.payment = p /\ row.status = "PENDING" OBVIOUS
<1> HIDE DEF row
<1>5. \A x \in Refund : refund'[x] = IF x = r THEN row ELSE refund[x] BY <1>1, <1>2 DEF TypeOK
<1>6. ASSUME NEW q \in Payment PROVE Back(q) <= RefundedIn(refund', q, done)
  <2>1. Counts(refund[r], q, done) = 0 BY <1>2 DEF Counts
  <2> HIDE DEF done
  <2>2. /\ RefundedIn(refund', q, done)
             = RefundedIn(refund, q, done) - Counts(refund[r], q, done) + Counts(row, q, done)
        /\ RefundedIn(refund, q, done) \in Nat
        /\ Counts(refund[r], q, done) \in Nat /\ Counts(row, q, done) \in Nat
    BY <1>1, <1>2, <1>3, RefundWritten, Zenon
  <2>3. Back(q) = RefundedIn(refund, q, done) BY DEF Back, done
  <2> QED BY <2>1, <2>2, <2>3
<1>7. ASSUME NEW q \in Payment PROVE RefundedIn(refund', q, Promise) <= payment[q].gross
  <2>1. RefundsOf(p, {"PENDING", "COMPLETED"}) = RefundedIn(refund, p, Promise)
    BY <1>1, Totals DEF Promise
  <2>2. RefundedIn(refund, q, Promise) <= payment[q].gross BY DEF RacesInv, RefundsInv, Capped
  <2>3. Counts(refund[r], q, Promise) = 0 BY <1>2 DEF Counts, Promise
  <2>4. Counts(row, q, Promise) = IF q = p THEN amount ELSE 0 BY <1>4 DEF Counts, Promise
  <2>5. /\ RefundedIn(refund', q, Promise)
             = RefundedIn(refund, q, Promise) - Counts(refund[r], q, Promise)
                 + Counts(row, q, Promise)
        /\ RefundedIn(refund, q, Promise) \in Nat
    BY <1>1, <1>2, <1>3, RefundWritten, Zenon
  <2> QED BY <1>2, <2>1, <2>2, <2>3, <2>4, <2>5, AmountNat
<1>8. \A x \in Refund : refund'[x].status # "NONE" =>
        /\ refund'[x].amount > 0 /\ refund'[x].payment \in Payment
        /\ payment[refund'[x].payment].status # "NONE"
  BY <1>1, <1>2, <1>4, <1>5 DEF RacesInv, RefundsInv, RefundsPositive, CreditsInv, FreshPayments,
                               TypeOK
<1>9. \A x \in Refund : refund[x].status # "NONE" => refund'[x] = refund[x] BY <1>2, <1>5
<1> QED BY <1>2, <1>6, <1>7, <1>8, <1>9, RefundOnlyRaces DEF done

\* A refund that is given up counts for nothing any more.
LEMMA MarkRefundFailedRaces ==
  ASSUME RacesInv, TxInv', UNCHANGED txVars, NEW r \in Refund, MarkRefundFailed(r)
  PROVE  RacesInv'
<1>1. TypeOK /\ TypeOK' BY DEF RacesInv, TxInv, LedgerInv
<1>2. /\ UNCHANGED <<inst, payment, alloc, credit, app>> /\ refund[r].status = "PENDING"
      /\ refund' = [refund EXCEPT ![r].status = "FAILED"]
  BY DEF MarkRefundFailed
<1>3. /\ \A x \in Refund : /\ refund'[x].payment = refund[x].payment
                           /\ refund'[x].amount = refund[x].amount
                           /\ refund'[x].status = IF x = r THEN "FAILED" ELSE refund[x].status
      /\ \A q : RefundedIn(refund', q, Promise) <= RefundedIn(refund, q, Promise)
      /\ \A q : RefundedIn(refund', q, {"COMPLETED"}) = Back(q) + 0
  BY <1>1, <1>2, RefundSettled DEF Back
<1>4. ASSUME NEW q \in Payment
      PROVE  /\ Back(q) <= RefundedIn(refund', q, {"COMPLETED"})
             /\ RefundedIn(refund', q, Promise) <= payment[q].gross
  <2>1. RefundedIn(refund, q, Promise) <= payment[q].gross BY DEF RacesInv, RefundsInv, Capped
  <2>2. RefundedIn(refund', q, Promise) <= RefundedIn(refund, q, Promise) BY <1>3
  <2>3. refund' \in [Refund -> RefundRow] BY <1>1 DEF TypeOK
  <2>4. RefundedIn(refund', q, Promise) \in Nat BY <2>3, RefundedNat
  <2>5. RefundedIn(refund', q, {"COMPLETED"}) = Back(q) + 0 BY <1>3
  <2>6. /\ Back(q) \in Nat /\ payment[q].gross \in Nat
        /\ RefundedIn(refund, q, Promise) \in Nat
    BY <1>1, TotalsNat DEF Back
  <2> QED BY <2>1, <2>2, <2>4, <2>5, <2>6
<1>5. \A x \in Refund : refund[x].status # "NONE" =>
        /\ refund[x].amount > 0 /\ refund[x].payment \in Payment
        /\ payment[refund[x].payment].status # "NONE"
  BY <1>1 DEF RacesInv, RefundsInv, RefundsPositive, CreditsInv, FreshPayments, TypeOK
<1>6. \A x \in Refund : refund'[x].status # "NONE" => refund[x].status # "NONE" BY <1>2, <1>3
<1>7. \A x \in Refund : refund[x].status # "NONE" => refund'[x].status # "NONE" BY <1>3
<1>8. \A x \in Refund : refund'[x].status # "NONE" =>
        /\ refund'[x].amount > 0 /\ refund'[x].payment \in Payment
        /\ payment[refund'[x].payment].status # "NONE"
  BY <1>3, <1>5, <1>6
<1>9. \A x \in Refund : refund[x].status # "NONE" =>
        /\ refund'[x].status # "NONE"
        /\ refund'[x].payment = refund[x].payment /\ refund'[x].amount = refund[x].amount
  BY <1>3, <1>7
<1>10. UNCHANGED <<inst, payment, alloc, credit, app>> BY <1>2
<1> QED BY <1>4, <1>8, <1>9, <1>10, RefundOnlyRaces

---------------------------------------------------------------------------
(* What survives.                                                          *)

\* At first there is no money anywhere, and nobody has read anything.
LEMMA InitRaces == TxInit => RacesInv
<1> SUFFICES ASSUME TxInit PROVE RacesInv
  OBVIOUS
<1>1. TxInv BY InitTx
<1>2. MoneyInv BY InitMoney DEF TxInit
<1>3. TypeOK BY <1>2 DEF MoneyInv, LedgerInv
<1>4. \A w \in Worker : tx[w] = Idle BY DEF TxInit
<1>5. CreditsInv BY <1>2 DEF MoneyInv, CreditsInv
<1>6. RefundsInv
  <2>1. \A w \in Worker : RefundKnown(tx[w]) BY <1>4, IdleTyped DEF RefundKnown
  <2>2. RefundsPositive BY <1>2 DEF MoneyInv
  <2>3. Capped BY <1>2 DEF MoneyInv, PaymentsOK, PaymentOK, Capped
  <2>4. RefundedInFull
    <3> SUFFICES ASSUME NEW p \in Payment, payment[p].status = "REFUNDED"
                 PROVE  payment[p].gross <= Back(p)
      BY DEF RefundedInFull
    <3>1. payment[p].status = "NONE" BY DEF TxInit, Init
    <3> QED BY <3>1
  <2> QED BY <2>1, <2>2, <2>3, <2>4 DEF RefundsInv
<1>7. Backed
  <2>1. FundedBy(inst, alloc, app) BY <1>2, <1>3, TablesInt DEF MoneyInv
  <2>2. /\ alloc \in Tables
        /\ \A p \in Payment, i \in Installment : alloc[p][i] \in Int
    <3>1. alloc \in [Payment -> [Installment -> Nat]] BY <1>3 DEF TypeOK
    <3>2. \A p \in Payment : alloc[p] \in [Installment -> Int] BY <3>1
    <3> QED BY <3>1, <3>2 DEF Tables
  <2>3. \A p \in Payment, i \in Installment : alloc[p][i] <= alloc[p][i] BY <2>2
  <2>4. \A w \in Worker : ReadBefore(tx[w], alloc) BY <1>4, IdleTyped DEF ReadBefore, Unread
  <2>5. Backing(alloc) BY <2>1, <2>3, <2>4 DEF Backing
  <2> QED BY <2>2, <2>5 DEF Backed
<1> QED BY <1>1, <1>5, <1>6, <1>7 DEF RacesInv

\* Every statement of every request keeps it, and so does every handler beside them.
LEMMA NextRaces == ASSUME RacesInv, [TxNext]_allVars PROVE RacesInv'
<1>1. TxInv /\ TxInv' /\ TypeOK BY NextTx DEF RacesInv, TxInv, LedgerInv
<1>2. ASSUME NEW w \in Worker, VoidStep(w) PROVE RacesInv'
  BY <1>1, <1>2, VoidFollows, FollowsRaces, CommitVoidRaces
<1>3. ASSUME NEW w \in Worker, RefundStep(w) PROVE RacesInv'
  BY <1>1, <1>3, RefundFollows, FollowsRaces, CommitRefundRaces DEF RacesInv
<1>4. ASSUME NEW w \in Worker, Abort(w) PROVE RacesInv'
  BY <1>1, <1>4, AbortRaces
<1>5. ASSUME NEW r \in Refund, NEW p \in Payment, NEW amount \in Amount,
             LockedCreateRefund(r, p, amount)
      PROVE  RacesInv'
  BY <1>1, <1>5, CreateRefundRaces DEF LockedCreateRefund
<1>6. ASSUME Other PROVE RacesInv'
  <2>1. UNCHANGED txVars BY <1>6 DEF Other
  <2>2. Kept BY <2>1 DEF Kept, txVars
  <2>3. ASSUME ReceiptNext PROVE RacesInv'
    <3>1. ASSUME NEW p \in Payment, NEW gross \in Amount, RecordPaymentFifo(p, gross)
          PROVE  RacesInv'
      BY <1>1, <2>1, <3>1, ReceiveRaces, DueRankAssumption DEF RecordPaymentFifo
    <3>2. ASSUME NEW p \in Payment, NEW gross \in Amount, NEW order \in Orders,
                 NEW d \in [Installment -> Amount], RecordPaymentManual(p, gross, order, d)
          PROVE  RacesInv'
      BY <1>1, <2>1, <3>2, ReceiveRaces, OrdersTyped DEF RecordPaymentManual
    <3> QED BY <2>3, <3>1, <3>2 DEF ReceiptNext
  <2>4. ASSUME CreditNext PROVE RacesInv'
    BY <1>1, <2>1, <2>4, SpendRaces, ReverseCreditRaces
    DEF CreditNext, ApplyCreditExplicit, ApplyCreditFifo
  <2>5. ASSUME AdjustmentNext PROVE RacesInv'
    <3>1. /\ UNCHANGED <<payment, alloc, refund, credit, app>>
          /\ \A x \in Installment : inst'[x].paid = inst[x].paid
      BY <1>1, <2>5, AdjustmentPaid DEF AdjustmentNext
    <3> QED BY <1>1, <2>2, <3>1, QuietRaces
  <2>6. ASSUME NEW r \in Refund, MarkRefundFailed(r) PROVE RacesInv'
    BY <1>1, <2>1, <2>6, MarkRefundFailedRaces
  <2> QED BY <1>6, <2>3, <2>4, <2>5, <2>6 DEF Other
<1>7. CASE UNCHANGED allVars
  <2>1. UNCHANGED <<inst, payment, alloc, refund, credit, app>> /\ Kept
    BY <1>7 DEF allVars, txVars, vars, Kept
  <2> QED BY <1>1, <2>1, QuietRaces
<1> QED BY <1>2, <1>3, <1>4, <1>5, <1>6, <1>7 DEF TxNext

LEMMA SpecRaces == TxSpec => []RacesInv
BY InitRaces, NextRaces, PTL DEF TxSpec

\* Whatever reversals overlap, what was consumed of a credit is what was applied of
\* it: requests that take credits lock them.
THEOREM TxConsumed == TxSpec => []ConsumedIsApplied
<1>1. RacesInv => ConsumedIsApplied BY DEF RacesInv, CreditsInv
<1> QED BY <1>1, SpecRaces, PTL

\* And a payment has one live credit: two refunds of it cannot both retire the old
\* one and each make a new.
THEOREM TxOneCredit == TxSpec => []OneLiveCreditPerPayment
<1>1. RacesInv => OneLiveCreditPerPayment BY DEF RacesInv, CreditsInv
<1> QED BY <1>1, SpecRaces, PTL

\* createRefund's cap holds against refunds in flight: a lost update of the
\* payment's status is not one of the sum the cap is computed from.
THEOREM TxRefundsCapped == TxSpec => []RefundsWithinGross
<1>1. RacesInv => RefundsWithinGross
  <2> SUFFICES ASSUME RacesInv, NEW p \in Payment
               PROVE  RefundsOf(p, {"PENDING", "COMPLETED"}) <= payment[p].gross
    BY DEF RefundsWithinGross
  <2>1. TypeOK BY DEF RacesInv, TxInv, LedgerInv
  <2>2. RefundsOf(p, {"PENDING", "COMPLETED"}) = RefundedIn(refund, p, Promise)
    BY <2>1, Totals DEF Promise
  <2> QED BY <2>2 DEF RacesInv, RefundsInv, Capped
<1> QED BY <1>1, SpecRaces, PTL

\* A table with larger entries has larger columns.
LEMMA ColumnLeq ==
  ASSUME NEW table, NEW after, Entries(Payment, table), Entries(Payment, after),
         \A p \in Payment, i \in Installment : table[p][i] <= after[p][i],
         NEW i \in Installment
  PROVE  Column(Payment, table, i) <= Column(Payment, after, i)
<1> DEFINE old == [p \in Payment |-> table[p][i]]
           new == [p \in Payment |-> after[p][i]]
<1>1. \A p \in Payment : old[p] \in Int /\ new[p] \in Int /\ old[p] <= new[p] BY DEF Entries
<1>2. old \in [Payment -> Int] /\ new \in [Payment -> Int] BY <1>1
<1>3. Column(Payment, table, i) = Sum(old) /\ Column(Payment, after, i) = Sum(new) BY DEF Column
<1> HIDE DEF old, new
<1>4. Sum(old) = SumFunctionOnSet(old, Payment) /\ Sum(new) = SumFunctionOnSet(new, Payment)
  BY <1>2, SumIs
<1>5. SumFunctionOnSet(old, Payment) <= SumFunctionOnSet(new, Payment)
  BY <1>1, FiniteAssumption, SumLeq
<1> QED BY <1>3, <1>4, <1>5

\* An update that is lost leaves a row with allocations and no money, never with
\* money and no allocations.
THEOREM TxPaidIsBacked == TxSpec => []PaidIsBacked
<1>1. RacesInv => PaidIsBacked
  <2> SUFFICES ASSUME RacesInv, NEW i \in Installment
               PROVE  inst[i].paid <= Column(Payment, alloc, i) + Column(Credit, app, i)
    BY DEF PaidIsBacked, Column
  <2>1. TypeOK BY DEF RacesInv, TxInv, LedgerInv
  <2>2. PICK table \in Tables : Backing(table) BY DEF RacesInv, Backed
  <2>3. inst[i].paid = Column(Payment, table, i) + Column(Credit, app, i)
    BY <2>2 DEF Backing, FundedBy
  <2>4. Entries(Payment, table) /\ Entries(Payment, alloc) /\ Entries(Credit, app)
    BY <2>1, <2>2, TablesInt DEF Tables, Entries
  <2>5. Column(Payment, table, i) <= Column(Payment, alloc, i)
    BY <2>2, <2>4, ColumnLeq DEF Backing
  <2>6. /\ Column(Payment, table, i) \in Int /\ Column(Payment, alloc, i) \in Int
        /\ Column(Credit, app, i) \in Int
    BY <2>4, FiniteAssumption, ColumnInt DEF Entries
  <2> QED BY <2>3, <2>5, <2>6
<1> QED BY <1>1, SpecRaces, PTL

\* A payment is refunded for good: a refund can only be completed while something
\* is left to give back, so none in flight writes over the status.
RefundedStays == \A p \in Payment : payment[p].status = "REFUNDED" => payment'[p] = payment[p]

THEOREM TxRefundedFinal == TxSpec => [][RefundedStays]_allVars
<1>1. ASSUME RacesInv, TxNext, NEW p \in Payment, payment[p].status = "REFUNDED"
      PROVE  payment'[p] = payment[p]
  <2>1. TxInv /\ payment \in [Payment -> PaymentRow] BY <1>1 DEF RacesInv, TxInv, LedgerInv, TypeOK
  <2>2. ASSUME NEW w \in Worker, CommitVoid(w) PROVE payment'[p] = payment[p]
    <3>1. /\ payment[tx[w].payment].status = "RECEIVED"
          /\ payment' = [payment EXCEPT ![tx[w].payment].status = "VOIDED"]
      BY <2>2 DEF CommitVoid, StillReceived
    <3>2. p # tx[w].payment BY <1>1, <3>1
    <3> QED BY <2>1, <3>1, <3>2
  <2>3. ASSUME NEW w \in Worker, VoidStep(w) PROVE payment'[p] = payment[p]
    BY <2>1, <2>2, <2>3, VoidFollows DEF Follows, vars
  <2>4. ASSUME NEW w \in Worker, CommitRefund(w) PROVE payment'[p] = payment[p]
    <3> DEFINE r == tx[w].refund
    <3>1. /\ tx[w].job = "refund" /\ refund[r].status = "PENDING"
          /\ refund' = [refund EXCEPT ![r].status = "COMPLETED"]
          /\ payment' = [payment EXCEPT ![tx[w].payment].status = tx[w].seen]
      BY <2>4 DEF CommitRefund, At, StillPending
    <3>2. r \in Refund /\ refund[r].payment = tx[w].payment
      BY <1>1, <2>1, <2>4, OneWorker DEF CommitRefund, At, RequestOK, Working, RacesInv,
                                         RefundsInv, RefundKnown
    <3> HIDE DEF r
    <3>3. payment[refund[r].payment].status # "REFUNDED"
      <4>1. RacesInv BY <1>1
      <4> QED BY <3>1, <3>2, <4>1, StillOwed
    <3>4. p # tx[w].payment BY <1>1, <3>2, <3>3
    <3> QED BY <2>1, <3>1, <3>4
  <2>5. ASSUME NEW w \in Worker, RefundStep(w) PROVE payment'[p] = payment[p]
    BY <1>1, <2>1, <2>4, <2>5, RefundFollows DEF Follows, RacesInv, vars
  <2>6. CASE Other
    <3>1. CASE ReceiptNext
      BY <1>1, <2>1, <3>1
      DEF ReceiptNext, RecordPaymentFifo, RecordPaymentManual, Receive, IsNext, Unused
    <3>2. CASE CreditNext
      BY <3>2 DEF CreditNext, ApplyCreditExplicit, ApplyCreditFifo, Spend, ReverseCredit
    <3>3. CASE AdjustmentNext
      BY <3>3 DEF AdjustmentNext, LateFee, Discount, Waive, Adjust
    <3>4. CASE \E x \in Refund : MarkRefundFailed(x) BY <3>4 DEF MarkRefundFailed
    <3> QED BY <2>6, <3>1, <3>2, <3>3, <3>4 DEF Other
  <2>7. ASSUME NEW w \in Worker, Abort(w) PROVE payment'[p] = payment[p]
    BY <2>7 DEF Abort, vars
  <2> QED BY <1>1, <2>3, <2>5, <2>6, <2>7 DEF TxNext, LockedCreateRefund, CreateRefund
<1>2. RacesInv /\ [TxNext]_allVars => [RefundedStays]_allVars
  BY <1>1 DEF RefundedStays
<1> QED BY <1>2, SpecRaces, PTL DEF TxSpec

\* What a row becomes is worked out from what it is under its lock, so that it moves
\* along its edges however reversals overlap.
LEMMA TxRowsMove ==
  ASSUME RacesInv, [TxNext]_allVars
  PROVE  RowsMove
<1>1. TypeOK BY DEF RacesInv, TxInv, LedgerInv
<1>2. CASE UNCHANGED inst BY <1>2, StayingMoves DEF RowsMove
<1>3. ASSUME NEW w \in Worker, CommitVoid(w) PROVE RowsMove
  BY <1>3, TakenBackMoves, StayingMoves DEF CommitVoid, RowsMove
<1>4. ASSUME NEW w \in Worker, CommitRefund(w) PROVE RowsMove
  BY <1>4, TakenBackMoves, StayingMoves DEF CommitRefund, RowsMove
<1>5. ASSUME NEW w \in Worker, VoidStep(w) PROVE RowsMove
  BY <1>2, <1>3, <1>5, VoidFollows DEF Follows, RacesInv, vars
<1>6. ASSUME NEW w \in Worker, RefundStep(w) PROVE RowsMove
  BY <1>2, <1>4, <1>6, RefundFollows DEF Follows, RacesInv, vars
<1>7. CASE Other
  <2>1. Next BY <1>7 DEF Other, Next, RefundNext
  <2> QED BY <1>1, <2>1, NextMoves
<1>8. ASSUME NEW r \in Refund, NEW p \in Payment, NEW amount \in Amount,
             LockedCreateRefund(r, p, amount)
      PROVE  UNCHANGED inst
  BY <1>8 DEF LockedCreateRefund, CreateRefund
<1>9. ASSUME NEW w \in Worker, Abort(w) PROVE UNCHANGED inst
  BY <1>9 DEF Abort, vars
<1>10. CASE UNCHANGED allVars BY <1>2, <1>10 DEF allVars, vars
<1> QED BY <1>2, <1>5, <1>6, <1>7, <1>8, <1>9, <1>10 DEF TxNext

\* Overlapping voids and refunds lose updates of allocations; the status of an
\* installment still moves only along the edges of its state machine.
THEOREM TxMovesLegal == TxSpec => LegalMoves
<1>1. RacesInv /\ [TxNext]_allVars =>
        [\A i \in Installment :
           \/ Permits(FreeEdge \union AdminEdge, inst[i].status, inst'[i].status)
           \/ CanSettle(inst[i].status, inst'[i].status)]_vars
  BY TxRowsMove DEF RowsMove, MayMove
<1> QED BY <1>1, SpecRaces, PTL DEF TxSpec, LegalMoves

\* Nor does a row that is closed come back when they overlap: an installment
\* cancelled or refunded, a payment given back whole, a refund paid out or failed.
THEOREM TxTerminalFinal == TxSpec => TerminalStays
<1>1. RacesInv /\ [TxNext]_allVars =>
        \A i \in Installment :
          inst[i].status \in {"CANCELLED", "REFUNDED"} => inst'[i].status = inst[i].status
  BY TxRowsMove, ClosedRowsStay DEF RowsMove
<1>2. [RefundedStays]_allVars =>
        \A p \in Payment :
          payment[p].status = "REFUNDED" => payment'[p].status = payment[p].status
  BY DEF RefundedStays, allVars, vars
<1>3. [\A r \in Refund :
         refund[r].status \in {"COMPLETED", "FAILED"} => refund'[r] = refund[r]]_allVars =>
        \A r \in Refund :
          refund[r].status \in {"COMPLETED", "FAILED"} => refund'[r] = refund[r]
  BY DEF allVars, vars
<1>4. TxSpec => RefundPaidOnce BY RefundOnce
<1> QED BY <1>1, <1>2, <1>3, <1>4, SpecRaces, TxRefundedFinal, PTL
        DEF TxSpec, TerminalStays, RefundPaidOnce

---------------------------------------------------------------------------
(* One reversal in flight.                                                 *)

\* No two requests overlap; the other handlers go on beside the one there is.
OneRequest == \A w, x \in Worker : w = x

Left(t) == t.amount - Sum(t.take) - Sum(t.back)

\* The rows it unwound are the newest: an older one is touched only when every newer
\* one is emptied, and the last one touched may be emptied in part.
Unwinding(t) ==
  LET rank == NewestFirst(t.payment)
  IN  /\ Left(t) >= 0
      /\ \A i \in Installment : t.back[i] <= t.rows[i]
      /\ \A i \in Installment : 0 < t.back[i] /\ t.back[i] < t.rows[i] => Left(t) = 0
      /\ \A i, j \in Installment :
           t.back[i] < t.rows[i] /\ rank[j] > rank[i] => t.back[j] = 0

\* What a refund t has read is still so, and it has done what CompleteRefund does
\* with it.
RefundReads(t, locks) ==
  LET p == t.payment
      begun == t.step \in {"rows", "payment_update", "commit"}
  IN  /\ refund[t.refund].payment = p /\ refund[t.refund].amount = t.amount
      /\ refund[t.refund].status # "NONE"
      /\ t.step \in {"allocations", "scan", "credits", "rows"} => t.seen = payment[p].status
      /\ t.step \notin {"payment", "allocations"} => t.rows = alloc[p]
      /\ ~begun => \A i \in Installment : t.back[i] = 0
      /\ t.step = "credits" => LiveOf(p) \subseteq t.scan
      /\ begun => /\ Retires(t.take, LiveOf(p), t.amount)
                  /\ \A c \in LiveOf(p) : <<"credit", c>> \in locks
                  /\ Unwinding(t)
      /\ t.step \in {"payment_update", "commit"} =>
           /\ t.seen = AfterRefund(p, t.amount)
           /\ Permits(PaymentEdge, payment[p].status, t.seen)
           /\ Left(t) = 0 \/ (t.carry /\ \A i \in Installment : t.rows[i] > 0 => t.back[i] > 0)

AloneInv == TxInv /\ \A w \in Worker : tx[w].job = "refund" => RefundReads(tx[w], held[w])

\* A statement tells nothing new of what was read before it.
LEMMA RunReads ==
  ASSUME OneRequest, NEW w \in Worker, NEW next, NEW rows, TxInv, TxInv', Run(w, next, rows),
         next.job = "refund" => RefundReads(next, held[w] \union rows)
  PROVE  AloneInv'
<1>1. /\ tx' = [tx EXCEPT ![w] = next] /\ held' = [held EXCEPT ![w] = held[w] \union rows]
      /\ tx \in [Worker -> TxRow] /\ held \in [Worker -> SUBSET Lockable]
      /\ UNCHANGED <<inst, payment, alloc, refund, credit>>
  BY DEF Run, vars, TxInv, Workers, Locking
<1>2. ASSUME NEW t, NEW locks, RefundReads(t, locks) PROVE RefundReads(t, locks)'
  <2>1. LiveOf(t.payment)' = LiveOf(t.payment) BY <1>1 DEF LiveOf
  <2>2. AfterRefund(t.payment, t.amount)' = AfterRefund(t.payment, t.amount)
    BY <1>1 DEF AfterRefund, RefundsOf
  <2>3. Unwinding(t)' <=> Unwinding(t) BY <1>1 DEF Unwinding, Left, NewestFirst
  <2>4. Retires(t.take, LiveOf(t.payment), t.amount)' <=> Retires(t.take, LiveOf(t.payment), t.amount)
    BY <1>1, <2>1 DEF Retires, Available
  <2> QED BY <1>1, <1>2, <2>1, <2>2, <2>3, <2>4 DEF RefundReads
<1>3. ASSUME NEW x \in Worker, tx'[x].job = "refund" PROVE RefundReads(tx[x], held[x])'
  <2>1. x = w BY DEF OneRequest
  <2>2. tx'[x] = next /\ held'[x] = held[w] \union rows BY <1>1, <2>1
  <2>3. RefundReads(next, held[w] \union rows) BY <1>3, <2>2
  <2>4. tx[x]' = next /\ held[x]' = held[w] \union rows BY <2>2
  <2> QED BY <1>2, <2>3, <2>4
<1> QED BY <1>3 DEF AloneInv

\* What the other handlers do beside it neither.
LEMMA BesideReads ==
  ASSUME AloneInv, TxInv', UNCHANGED txVars, Beside, \A x \in Worker : Untouched(x)
  PROVE  AloneInv'
<1>1. tx' = tx /\ held' = held BY DEF txVars
<1>2. ASSUME NEW x \in Worker, tx[x].job = "refund", NEW t, NEW locks, t = tx[x], locks = held[x]
      PROVE  RefundReads(t, locks)'
  <2>1. t \in TxRow /\ RequestOK(t, locks) /\ RefundReads(t, locks)
    BY <1>2, OneWorker DEF AloneInv
  <2>2. t.step # "idle" BY <1>2, <2>1, IdleTyped DEF RequestOK
  <2>3. t.payment \in Payment /\ payment[t.payment].status # "NONE" /\ t.refund \in Refund
    BY <1>2, <2>1, <2>2 DEF RequestOK, Working
  <2>4. PICK p \in Payment : p = t.payment BY <2>3
  <2>5. /\ payment'[p] = payment[p] /\ alloc'[p] = alloc[p] /\ LiveOf(p)' \subseteq LiveOf(p)
        /\ refund'[t.refund].payment = refund[t.refund].payment
        /\ refund'[t.refund].amount = refund[t.refund].amount
        /\ refund'[t.refund].status # "NONE"
    BY <2>1, <2>3, <2>4 DEF Beside, RefundReads
  <2>6. RefundsOf(p, {"COMPLETED"})' = RefundsOf(p, {"COMPLETED"})
    <3> DEFINE done == {r \in Refund : refund[r].payment = p /\ refund[r].status \in {"COMPLETED"}}
               f == [r \in Refund |-> refund[r].amount]
               g == [r \in Refund |-> refund'[r].amount]
    <3>1. {r \in Refund : refund'[r].payment = p /\ refund'[r].status \in {"COMPLETED"}} = done
      BY DEF Beside
    <3>2. IsFiniteSet(done) BY FiniteAssumption, FS_Subset
    <3>3. \A r \in done : f[r] = g[r] BY DEF Beside
    <3> HIDE DEF done, f, g
    <3>4. SumFunctionOnSet(f, done) = SumFunctionOnSet(g, done) BY <3>2, <3>3, SumAgree
    <3> QED BY <3>1, <3>4 DEF RefundsOf, done, f, g
  <2>7. AfterRefund(p, t.amount)' = AfterRefund(p, t.amount)
    BY <2>5, <2>6 DEF AfterRefund
  <2>8. NewestFirst(p)' = NewestFirst(p) BY <2>5 DEF NewestFirst
  <2>9. Unwinding(t)' <=> Unwinding(t) BY <2>4, <2>8 DEF Unwinding, Left
  <2>10. ASSUME Retires(t.take, LiveOf(p), t.amount), \A c \in LiveOf(p) : <<"credit", c>> \in locks
         PROVE  Retires(t.take, LiveOf(p), t.amount)' /\ LiveOf(p)' = LiveOf(p)
    <3>1. \A c \in LiveOf(p) : credit'[c] = credit[c] BY <1>2, <2>10 DEF Untouched, LiveOf
    <3>2. LiveOf(p)' = LiveOf(p) BY <2>5, <3>1 DEF LiveOf
    <3>3. \A c \in LiveOf(p) : Available(c)' = Available(c) BY <3>1 DEF Available
    <3>4. [c \in Credit |-> IF c \in LiveOf(p) THEN Available(c) ELSE 0]'
            = [c \in Credit |-> IF c \in LiveOf(p) THEN Available(c) ELSE 0]
      BY <3>2, <3>3
    <3> QED BY <2>10, <3>1, <3>2, <3>4 DEF Retires
  <2> QED BY <2>1, <2>4, <2>5, <2>7, <2>9, <2>10 DEF RefundReads
<1>3. ASSUME NEW x \in Worker, tx[x].job = "refund" PROVE RefundReads(tx[x], held[x])'
  <2>1. tx'[x] = tx[x] /\ held'[x] = held[x] BY <1>1
  <2> QED BY <1>2, <1>3, <2>1
<1> QED BY <1>1, <1>3 DEF AloneInv

\* What the refund of a worker knows.
LEMMA OneRefund ==
  ASSUME AloneInv, NEW w \in Worker, tx[w].job = "refund", tx[w].step # "idle"
  PROVE  /\ tx[w] \in TxRow /\ RequestOK(tx[w], held[w]) /\ RefundReads(tx[w], held[w])
         /\ tx[w].payment \in Payment /\ tx[w].refund \in Refund
         /\ held[w] \union {} = held[w]
BY OneWorker DEF AloneInv, RequestOK, Working

\* Nothing is taken, nothing is spread.
LEMMA NothingBack ==
  ASSUME NEW t \in TxRow, \A i \in Installment : t.back[i] = 0
  PROVE  Sum(t.back) = 0
<1>1. t.back \in [Installment -> Amount] BY DEF TxRow
<1>2. Sum(t.back) = SumFunctionOnSet(t.back, Installment) BY <1>1, SumIs
<1> QED BY <1>2, FiniteAssumption, SumZero

\* Amounts of a request are numbers.
LEMMA LeftTyped ==
  ASSUME NEW t \in TxRow
  PROVE  /\ Left(t) \in Int /\ Sum(t.take) \in Nat /\ Sum(t.back) \in Nat /\ t.amount \in Nat
         /\ \A i \in Installment : t.back[i] \in Nat /\ t.rows[i] \in Nat
<1>1. t.take \in [Credit -> Amount] /\ t.back \in [Installment -> Amount]
      /\ t.rows \in [Installment -> Amount] /\ t.amount \in Nat
  BY AmountNat DEF TxRow
<1>2. /\ Sum(t.take) = SumFunctionOnSet(t.take, Credit)
      /\ Sum(t.back) = SumFunctionOnSet(t.back, Installment)
  BY <1>1, SumIs
<1>3. (\A c \in Credit : t.take[c] \in Nat)
      /\ (\A i \in Installment : t.back[i] \in Nat /\ t.rows[i] \in Nat)
  BY <1>1, AmountNat
<1>4. Sum(t.take) \in Nat /\ Sum(t.back) \in Nat BY <1>2, <1>3, FiniteAssumption, SumNat
<1> QED BY <1>1, <1>3, <1>4 DEF Left

\* Up to the credits it only reads.
LEMMA BeginRefundReads ==
  ASSUME OneRequest, AloneInv, NEW w \in Worker, NEW r \in Refund, NEW carry \in BOOLEAN,
         BeginRefund(w, r, carry)
  PROVE  AloneInv'
<1> DEFINE p == refund[r].payment
           next == [Idle EXCEPT !.job = "refund", !.step = "payment", !.refund = r, !.carry = carry,
                                !.payment = p, !.amount = refund[r].amount]
<1>1. TxInv' BY BeginRefundKeeps DEF AloneInv
<1>2. RefundReads(next, held[w] \union {}) BY DEF BeginRefund, RefundReads, Idle, NoRows
<1> QED BY <1>1, <1>2, RunReads DEF BeginRefund, AloneInv

\* It reads the status that stays until it writes its own.
LEMMA ReadPaymentReads ==
  ASSUME OneRequest, AloneInv, NEW w \in Worker, ReadPayment(w)
  PROVE  AloneInv'
<1> DEFINE t == tx[w]
           next == [t EXCEPT !.step = "allocations", !.seen = payment[t.payment].status]
<1>1. TxInv' BY ReadPaymentKeeps DEF AloneInv
<1>2. t.job = "refund" /\ t.step = "payment" /\ Run(w, next, {}) BY DEF ReadPayment, At
<1>3. t \in TxRow /\ RefundReads(t, held[w]) BY <1>2, OneRefund
<1>4. RefundReads(next, held[w] \union {}) BY <1>2, <1>3 DEF RefundReads, TxRow
<1> QED BY <1>1, <1>2, <1>4, RunReads DEF AloneInv

\* It reads the allocations that stay until it rewrites them.
LEMMA ReadAllocationsReads ==
  ASSUME OneRequest, AloneInv, NEW w \in Worker, ReadAllocations(w, "refund", "scan")
  PROVE  AloneInv'
<1> DEFINE t == tx[w]
           next == [t EXCEPT !.step = "scan", !.rows = alloc[t.payment]]
<1>1. TxInv' BY ReadAllocationsKeeps DEF AloneInv
<1>2. t.job = "refund" /\ t.step = "allocations" /\ Run(w, next, {}) BY DEF ReadAllocations, At
<1>3. t \in TxRow /\ RefundReads(t, held[w]) BY <1>2, OneRefund
<1>4. RefundReads(next, held[w] \union {}) BY <1>2, <1>3 DEF RefundReads, TxRow
<1> QED BY <1>1, <1>2, <1>4, RunReads DEF AloneInv

\* It finds every live credit of the payment.
LEMMA ScanCreditsReads ==
  ASSUME OneRequest, AloneInv, NEW w \in Worker, ScanCredits(w, "refund")
  PROVE  AloneInv'
<1> DEFINE t == tx[w]
           next == [t EXCEPT !.step = "credits", !.scan = LiveOf(t.payment)]
<1>1. TxInv' BY ScanCreditsKeeps DEF AloneInv
<1>2. t.job = "refund" /\ t.step = "scan" /\ Run(w, next, {}) BY DEF ScanCredits, At
<1>3. t \in TxRow /\ RefundReads(t, held[w]) BY <1>2, OneRefund
<1>4. RefundReads(next, held[w] \union {}) BY <1>2, <1>3 DEF RefundReads, TxRow
<1> QED BY <1>1, <1>2, <1>4, RunReads DEF AloneInv

\* The credits that are still live are all the live ones there are: it takes from
\* them what CompleteRefund does.
LEMMA RefundCreditsReads ==
  ASSUME OneRequest, AloneInv, NEW w \in Worker, RefundCredits(w)
  PROVE  AloneInv'
<1> DEFINE t == tx[w]
           p == t.payment
           live == StillLive(w)
<1>1. TxInv' BY RefundCreditsKeeps DEF AloneInv
<1>2. PICK take \in [Credit -> Amount] :
        /\ Retires(take, live, t.amount)
        /\ Run(w, [t EXCEPT !.step = "rows", !.take = take], Credits(live))
  BY DEF RefundCredits
<1> DEFINE next == [t EXCEPT !.step = "rows", !.take = take]
<1>3. t.job = "refund" /\ t.step = "credits" BY DEF RefundCredits, At
<1>4. t \in TxRow /\ RequestOK(t, held[w]) /\ RefundReads(t, held[w]) BY <1>3, OneRefund
<1>5. live = LiveOf(p)
  <2>1. LiveOf(p) \subseteq t.scan BY <1>3, <1>4 DEF RefundReads
  <2> QED BY <1>4, <2>1 DEF StillLive, LiveOf, RequestOK, Scanned, TxRow
<1>6. \A c \in LiveOf(p) : <<"credit", c>> \in held[w] \union Credits(live)
  BY <1>5 DEF Credits
<1>7. next \in TxRow BY <1>4 DEF TxRow
<1>8. /\ next.step = "rows" /\ next.take = take /\ next.back = t.back /\ next.rows = t.rows
      /\ next.payment = p /\ next.amount = t.amount /\ next.refund = t.refund /\ next.seen = t.seen
  BY <1>4 DEF TxRow
<1>9. \A i \in Installment : next.back[i] = 0 BY <1>3, <1>4, <1>8 DEF RefundReads
<1> HIDE DEF next
<1>10. Sum(next.take) <= t.amount BY <1>2, <1>8 DEF Retires, Waterfall
<1>11. Sum(next.back) = 0 BY <1>7, <1>9, NothingBack
<1>12. Unwinding(next)
  <2>1. Left(next) >= 0 BY <1>7, <1>8, <1>10, <1>11, LeftTyped DEF Left
  <2>2. \A i \in Installment : next.back[i] <= next.rows[i] BY <1>7, <1>9, LeftTyped
  <2> QED BY <1>9, <2>1, <2>2 DEF Unwinding
<1>13. RefundReads(next, held[w] \union Credits(live))
  BY <1>2, <1>3, <1>4, <1>5, <1>6, <1>8, <1>12 DEF RefundReads
<1> QED BY <1>1, <1>2, <1>13, RunReads DEF AloneInv, next

\* The row it unwinds is the newest that is left, by what is left to reverse or by
\* what the payment has on it, whichever is less.
LEMMA UnwindRowReads ==
  ASSUME OneRequest, AloneInv, NEW w \in Worker, NEW i \in Installment, UnwindRow(w, i)
  PROVE  AloneInv'
<1> DEFINE t == tx[w]
           back == IF Left(t) < t.rows[i] THEN Left(t) ELSE t.rows[i]
           next == [t EXCEPT !.back[i] = back]
           rows == Installments({i})
           rank == NewestFirst(t.payment)
<1>1. TxInv' BY UnwindRowKeeps DEF AloneInv
<1>2. /\ t.job = "refund" /\ t.step = "rows" /\ Left(t) > 0
      /\ t.rows[i] > 0 /\ t.back[i] = 0 /\ Run(w, next, rows)
      /\ \A j \in Installment : t.rows[j] > 0 /\ t.back[j] = 0 => rank[i] <= rank[j]
  BY DEF UnwindRow, At, RowsLeft, ToReverse, Left
<1>3. /\ t \in TxRow /\ RequestOK(t, held[w]) /\ RefundReads(t, held[w]) /\ Unwinding(t)
      /\ t.payment \in Payment
  BY <1>2, OneRefund DEF RefundReads
<1>4. /\ Left(t) \in Int /\ Sum(t.take) \in Nat /\ Sum(t.back) \in Nat /\ t.amount \in Nat
      /\ \A j \in Installment : t.back[j] \in Nat /\ t.rows[j] \in Nat
  BY <1>3, LeftTyped
<1>5. back \in Nat /\ back > 0 /\ back <= t.rows[i] /\ back <= Left(t)
      /\ (back < t.rows[i] => back = Left(t))
  BY <1>2, <1>4
<1>6. \A j \in Installment : rank[j] \in Int
  BY <1>3 DEF NewestFirst, AloneInv, TxInv, LedgerInv, TypeOK, PaymentRow
<1>7. t.back \in [Installment -> Amount] BY <1>3 DEF TxRow
<1>8. /\ next.step = t.step /\ next.take = t.take /\ next.rows = t.rows /\ next.payment = t.payment
      /\ next.amount = t.amount /\ next.refund = t.refund /\ next.seen = t.seen
      /\ next.back = [t.back EXCEPT ![i] = back]
  BY <1>3 DEF TxRow
<1> HIDE DEF back, next, rows, rank
<1>9. \A j \in Installment : next.back[j] = IF j = i THEN back ELSE t.back[j]
  BY <1>7, <1>8
<1>10. Sum(next.back) = Sum(t.back) + back
  <2>1. next.back \in [Installment -> Nat] BY <1>4, <1>5, <1>7, <1>8, AmountNat
  <2>2. Sum(next.back) = SumFunctionOnSet(next.back, Installment)
        /\ Sum(t.back) = SumFunctionOnSet(t.back, Installment)
    BY <1>7, <2>1, SumIs
  <2>3. (\A j \in Installment : t.back[j] \in Int /\ next.back[j] \in Int)
        /\ (\A j \in Installment : j # i => next.back[j] = t.back[j])
    BY <1>4, <1>9, <2>1
  <2>4. SumFunctionOnSet(next.back, Installment)
          = SumFunctionOnSet(t.back, Installment) - t.back[i] + next.back[i]
    BY <2>3, FiniteAssumption, SumChange
  <2> QED BY <1>2, <1>4, <1>5, <1>9, <2>2, <2>4
<1>11. Left(next) = Left(t) - back BY <1>4, <1>5, <1>8, <1>10 DEF Left
<1>12. Unwinding(next)
  <2>1. Left(next) >= 0 BY <1>4, <1>5, <1>11
  <2>2. ASSUME NEW j \in Installment PROVE next.back[j] <= next.rows[j]
    BY <1>3, <1>5, <1>8, <1>9 DEF Unwinding
  <2>3. ASSUME NEW j \in Installment, 0 < next.back[j], next.back[j] < next.rows[j]
        PROVE  Left(next) = 0
    <3>1. CASE j = i BY <1>4, <1>5, <1>8, <1>9, <1>11, <2>3, <3>1
    <3>2. CASE j # i
      <4>1. Left(t) = 0 BY <1>3, <1>8, <1>9, <2>3, <3>2 DEF Unwinding
      <4> QED BY <1>2, <4>1
    <3> QED BY <3>1, <3>2
  <2>4. ASSUME NEW x \in Installment, NEW y \in Installment,
               next.back[x] < next.rows[x], rank[y] > rank[x]
        PROVE  next.back[y] = 0
    <3>1. CASE y = i
      <4>1. x # i BY <1>6, <2>4, <3>1
      <4>2. t.back[x] < t.rows[x] BY <1>8, <1>9, <2>4, <4>1
      <4>3. ~(0 < t.back[x]) BY <1>2, <1>3, <4>2 DEF Unwinding
      <4>4. t.rows[x] > 0 /\ t.back[x] = 0 BY <1>4, <4>2, <4>3
      <4>5. rank[i] <= rank[x] BY <1>2, <4>4
      <4> QED BY <1>6, <2>4, <3>1, <4>5
    <3>2. CASE y # i
      <4>1. t.back[x] < t.rows[x]
        <5>1. CASE x = i BY <1>2, <5>1
        <5>2. CASE x # i BY <1>8, <1>9, <2>4, <5>2
        <5> QED BY <5>1, <5>2
      <4>2. t.back[y] = 0 BY <1>3, <2>4, <4>1 DEF Unwinding, rank
      <4> QED BY <1>9, <3>2, <4>2
    <3> QED BY <3>1, <3>2
  <2> QED BY <1>8, <2>1, <2>2, <2>3, <2>4 DEF Unwinding, rank
<1>13. RefundReads(next, held[w] \union rows)
  BY <1>2, <1>3, <1>8, <1>12 DEF RefundReads
<1> QED BY <1>1, <1>2, <1>13, RunReads DEF AloneInv

\* The move it asserts is that of the status the payment has.
LEMMA SumRefundsReads ==
  ASSUME OneRequest, AloneInv, NEW w \in Worker, SumRefunds(w)
  PROVE  AloneInv'
<1> DEFINE t == tx[w]
           to == AfterRefund(t.payment, t.amount)
           next == [t EXCEPT !.step = "payment_update", !.seen = to]
<1>1. TxInv' BY SumRefundsKeeps DEF AloneInv
<1>2. /\ t.job = "refund" /\ t.step = "rows" /\ Run(w, next, {})
      /\ Left(t) = 0 \/ (t.carry /\ \A i \in Installment : ~(t.rows[i] > 0 /\ t.back[i] = 0))
      /\ Permits(PaymentEdge, t.seen, to)
  BY DEF SumRefunds, At, RowsLeft, ToReverse, Left
<1>3. t \in TxRow /\ RefundReads(t, held[w]) BY <1>2, OneRefund
<1>4. \A i \in Installment : t.back[i] \in Nat BY <1>3, LeftTyped
<1>5. Left(t) = 0 \/ (t.carry /\ \A i \in Installment : t.rows[i] > 0 => t.back[i] > 0)
  BY <1>2, <1>4
<1>6. /\ next.step = "payment_update" /\ next.take = t.take /\ next.back = t.back
      /\ next.rows = t.rows /\ next.payment = t.payment /\ next.carry = t.carry
      /\ next.amount = t.amount /\ next.refund = t.refund /\ next.seen = to
  BY <1>3 DEF TxRow
<1> HIDE DEF next
<1>7. RefundReads(next, held[w])
  BY <1>2, <1>3, <1>5, <1>6 DEF RefundReads, Unwinding, Left
<1>8. held[w] \union {} = held[w] OBVIOUS
<1> QED BY <1>1, <1>2, <1>7, <1>8, RunReads DEF AloneInv

\* Waiting for the payment row changes nothing of what it knows.
LEMMA LockPaymentReads ==
  ASSUME OneRequest, AloneInv, NEW w \in Worker, LockPayment(w, "refund")
  PROVE  AloneInv'
<1> DEFINE t == tx[w]
           next == [t EXCEPT !.step = "commit"]
           rows == {<<"payment", t.payment>>}
<1>1. TxInv' BY LockPaymentKeeps DEF AloneInv
<1>2. t.job = "refund" /\ t.step = "payment_update" /\ Run(w, next, rows) BY DEF LockPayment, At
<1>3. t \in TxRow /\ RefundReads(t, held[w]) BY <1>2, OneRefund
<1>4. /\ next.step = "commit" /\ next.take = t.take /\ next.back = t.back
      /\ next.rows = t.rows /\ next.payment = t.payment /\ next.carry = t.carry
      /\ next.amount = t.amount /\ next.refund = t.refund /\ next.seen = t.seen
  BY <1>3 DEF TxRow
<1> HIDE DEF next, rows
<1>5. RefundReads(next, held[w] \union rows)
  BY <1>2, <1>3, <1>4 DEF RefundReads, Unwinding, Left
<1> QED BY <1>1, <1>2, <1>5, RunReads DEF AloneInv

\* A request that is over knows nothing.
LEMMA FinishReads ==
  ASSUME OneRequest, TxInv, TxInv', NEW w \in Worker, Finish(w)
  PROVE  AloneInv'
<1>1. tx'[w] = Idle BY DEF Finish, TxInv, Workers
<1>2. \A x \in Worker : tx'[x].job # "refund" BY <1>1, IdleTyped DEF OneRequest
<1> QED BY <1>2 DEF AloneInv

\* A void has nothing to do with it.
LEMMA VoidStepReads ==
  ASSUME OneRequest, AloneInv, NEW w \in Worker, VoidStep(w), TxInv'
  PROVE  AloneInv'
<1>1. TxInv /\ VoidStep(w) BY DEF AloneInv
<1>2. tx'[w].job # "refund"
  <2>1. tx[w] \in TxRow /\ tx \in [Worker -> TxRow] BY <1>1, OneWorker DEF TxInv, Workers
  <2>2. \A next, rows : Run(w, next, rows) => tx'[w] = next BY <2>1 DEF Run
  <2>3. ASSUME NEW p \in Payment, BeginVoid(w, p) PROVE tx'[w].job = "void"
    BY <2>2, <2>3 DEF BeginVoid, Idle
  <2>4. CASE CommitVoid(w)
    BY <2>1, <2>4, IdleTyped DEF CommitVoid, Finish
  <2>5. ASSUME ReadAllocations(w, "void", "rows") PROVE tx'[w].job = tx[w].job
    <3> DEFINE next == [tx[w] EXCEPT !.step = "rows", !.rows = alloc[tx[w].payment]]
               rows == {}
    <3>1. Run(w, next, rows) BY <2>5 DEF ReadAllocations
    <3>2. next.job = tx[w].job BY <2>1 DEF TxRow
    <3> HIDE DEF next, rows
    <3> QED BY <2>2, <3>1, <3>2
  <2>6. ASSUME NEW i \in Installment, VoidRow(w, i) PROVE tx'[w].job = tx[w].job
    <3> DEFINE next == [tx[w] EXCEPT !.back[i] = tx[w].rows[i]]
               rows == Installments({i})
    <3>1. Run(w, next, rows) BY <2>6 DEF VoidRow
    <3>2. next.job = tx[w].job BY <2>1 DEF TxRow
    <3> HIDE DEF next, rows
    <3> QED BY <2>2, <3>1, <3>2
  <2>7. ASSUME VoidDelete(w) PROVE tx'[w].job = tx[w].job
    <3> DEFINE next == [tx[w] EXCEPT !.step = "scan"]
               rows == {}
    <3>1. Run(w, next, rows) BY <2>7 DEF VoidDelete
    <3>2. next.job = tx[w].job BY <2>1 DEF TxRow
    <3> HIDE DEF next, rows
    <3> QED BY <2>2, <3>1, <3>2
  <2>8. ASSUME ScanCredits(w, "void") PROVE tx'[w].job = tx[w].job
    <3> DEFINE next == [tx[w] EXCEPT !.step = "credits", !.scan = LiveOf(tx[w].payment)]
               rows == {}
    <3>1. Run(w, next, rows) BY <2>8 DEF ScanCredits
    <3>2. next.job = tx[w].job BY <2>1 DEF TxRow
    <3> HIDE DEF next, rows
    <3> QED BY <2>2, <3>1, <3>2
  <2>9. ASSUME VoidCredits(w) PROVE tx'[w].job = tx[w].job
    <3> DEFINE next == [tx[w] EXCEPT !.step = "payment_update", !.take = AllOfThem(StillLive(w))]
               rows == Credits(StillLive(w))
    <3>1. Run(w, next, rows) BY <2>9 DEF VoidCredits
    <3>2. next.job = tx[w].job BY <2>1 DEF TxRow
    <3> HIDE DEF next, rows
    <3> QED BY <2>2, <3>1, <3>2
  <2>10. ASSUME LockPayment(w, "void") PROVE tx'[w].job = tx[w].job
    <3> DEFINE next == [tx[w] EXCEPT !.step = "commit"]
               rows == {<<"payment", tx[w].payment>>}
    <3>1. Run(w, next, rows) BY <2>10 DEF LockPayment
    <3>2. next.job = tx[w].job BY <2>1 DEF TxRow
    <3> HIDE DEF next, rows
    <3> QED BY <2>2, <3>1, <3>2
  <2> QED
    BY <1>1, <2>3, <2>4, <2>5, <2>6, <2>7, <2>8, <2>9, <2>10
       DEF VoidStep, ReadAllocations, VoidRow, VoidDelete, ScanCredits, VoidCredits, LockPayment, At
<1>3. \A x \in Worker : tx'[x].job # "refund" BY <1>2 DEF OneRequest
<1> QED BY <1>3 DEF AloneInv

\* What CommitRefund writes is what CompleteRefund would have.
LEMMA CommitRefundSerial ==
  ASSUME AloneInv, NEW w \in Worker, CommitRefund(w)
  PROVE  CompleteRefund(tx[w].refund, tx[w].carry)
<1> DEFINE t == tx[w]
           r == t.refund
           p == refund[r].payment
           amount == refund[r].amount
<1>1. t.job = "refund" /\ t.step = "commit" /\ TxInv BY DEF CommitRefund, At, AloneInv
<1>2. t \in TxRow /\ RequestOK(t, held[w]) /\ RefundReads(t, held[w]) /\ r \in Refund
      /\ t.payment = p /\ t.amount = amount /\ p \in Payment
  BY <1>1, OneRefund DEF RefundReads
<1>3. /\ inst' = [i \in Installment |->
                    IF t.back[i] > 0 THEN Unwound(inst[i], t.back[i]) ELSE inst[i]]
      /\ alloc' = [alloc EXCEPT ![p] = [i \in Installment |->
                     IF t.back[i] > 0 THEN t.rows[i] - t.back[i] ELSE alloc[p][i]]]
      /\ Replaces(t.take, p, r, Left(t))
      /\ payment' = [payment EXCEPT ![p].status = t.seen]
      /\ refund' = [refund EXCEPT ![r].status = "COMPLETED"]
      /\ refund[r].status = "PENDING"
      /\ UNCHANGED <<plan, adj, app>>
  BY <1>2 DEF CommitRefund, StillPending, ToReverse, Left
<1>4. /\ t.rows = alloc[p] /\ t.seen = AfterRefund(p, amount)
      /\ Permits(PaymentEdge, payment[p].status, t.seen)
      /\ Retires(t.take, LiveOf(p), amount) /\ Unwinding(t)
      /\ Left(t) = 0 \/ (t.carry /\ \A i \in Installment : t.rows[i] > 0 => t.back[i] > 0)
  BY <1>1, <1>2 DEF RefundReads
<1> HIDE DEF p, amount
<1>5. /\ Left(t) \in Int /\ Sum(t.take) \in Nat /\ Sum(t.back) \in Nat /\ amount \in Nat
      /\ \A i \in Installment : t.back[i] \in Nat /\ t.rows[i] \in Nat
  BY <1>2, LeftTyped
<1>6. t.take \in [Credit -> Amount] /\ t.back \in [Installment -> Amount] BY <1>2 DEF TxRow
<1>7. Left(t) \in Amount
  <2>1. Left(t) >= 0 BY <1>4 DEF Unwinding
  <2>2. 0 \in Amount BY MaxMinorAssumption DEF Amount
  <2>3. Left(t) > 0 => Left(t) \in Amount BY <1>1, ToReverseTyped DEF ToReverse, Left
  <2> QED BY <1>5, <2>1, <2>2, <2>3
<1>8. Left(t) > 0 => t.carry BY <1>4
<1>9. DOMAIN alloc[p] = Installment BY <1>1, <1>2 DEF TxInv, LedgerInv, TypeOK
<1>10. Waterfall(t.back, amount - Sum(t.take), alloc[p], NewestFirst(p))
  <2>1. Sum(t.back) <= amount - Sum(t.take) BY <1>2, <1>4, <1>5 DEF Unwinding, Left
  <2>2. \A i \in Installment : t.back[i] <= alloc[p][i] BY <1>4 DEF Unwinding
  <2>3. ASSUME NEW i \in Installment, t.back[i] < alloc[p][i]
        PROVE  Sum(t.back) = amount - Sum(t.take)
    <3>1. Left(t) = 0
      <4>1. SUFFICES ASSUME Left(t) # 0 PROVE FALSE OBVIOUS
      <4>2. t.rows[i] > 0 BY <1>4, <1>5, <2>3
      <4>3. 0 < t.back[i] /\ t.back[i] < t.rows[i] BY <1>4, <1>5, <2>3, <4>1, <4>2
      <4> QED BY <1>4, <4>1, <4>3 DEF Unwinding
    <3> QED BY <1>2, <1>5, <3>1 DEF Left
  <2>4. ASSUME NEW i \in Installment, NEW j \in Installment,
               t.back[i] < alloc[p][i], NewestFirst(p)[j] > NewestFirst(p)[i]
        PROVE  t.back[j] = 0
    BY <1>2, <1>4, <2>4 DEF Unwinding
  <2> QED BY <1>9, <2>1, <2>2, <2>3, <2>4 DEF Waterfall
<1>11. ASSUME NEW i \in Installment PROVE t.back[i] <= inst[i].paid
  <2>1. inst[i].paid \in Nat BY <1>1 DEF TxInv, LedgerInv, TypeOK, InstallmentRow
  <2>2. t.back[i] > 0 => t.back[i] <= inst[i].paid BY <1>2 DEF RequestOK, Holds
  <2> QED BY <1>5, <2>1, <2>2
<1>12. alloc' = [alloc EXCEPT ![p] = [i \in Installment |-> alloc[p][i] - t.back[i]]]
  <2>1. \A i \in Installment :
          (IF t.back[i] > 0 THEN t.rows[i] - t.back[i] ELSE alloc[p][i]) = alloc[p][i] - t.back[i]
    BY <1>4, <1>5
  <2> QED BY <1>3, <2>1
<1>13. Left(t) = amount - Sum(t.take) - Sum(t.back) BY <1>2 DEF Left
<1> HIDE DEF t, r
<1>14. \E surplus \in Amount :
         /\ surplus = amount - Sum(t.take) - Sum(t.back)
         /\ surplus > 0 => t.carry
         /\ Replaces(t.take, p, r, surplus)
  BY <1>3, <1>7, <1>8, <1>13
<1>15. \E take \in [Credit -> Amount] :
         /\ Retires(take, LiveOf(p), amount)
         /\ \E d \in [Installment -> Amount] :
              /\ Waterfall(d, amount - Sum(take), alloc[p], NewestFirst(p))
              /\ \A i \in Installment : d[i] <= inst[i].paid
              /\ inst' = [i \in Installment |-> IF d[i] > 0 THEN Unwound(inst[i], d[i]) ELSE inst[i]]
              /\ alloc' = [alloc EXCEPT ![p] = [i \in Installment |-> alloc[p][i] - d[i]]]
              /\ \E surplus \in Amount :
                   /\ surplus = amount - Sum(take) - Sum(d)
                   /\ surplus > 0 => t.carry
                   /\ Replaces(take, p, r, surplus)
  <2> t.take \in [Credit -> Amount] BY <1>6
  <2> WITNESS t.take \in [Credit -> Amount]
  <2>1. Retires(t.take, LiveOf(p), amount) BY <1>4
  <2>2. \E d \in [Installment -> Amount] :
          /\ Waterfall(d, amount - Sum(t.take), alloc[p], NewestFirst(p))
          /\ \A i \in Installment : d[i] <= inst[i].paid
          /\ inst' = [i \in Installment |-> IF d[i] > 0 THEN Unwound(inst[i], d[i]) ELSE inst[i]]
          /\ alloc' = [alloc EXCEPT ![p] = [i \in Installment |-> alloc[p][i] - d[i]]]
          /\ \E surplus \in Amount :
               /\ surplus = amount - Sum(t.take) - Sum(d)
               /\ surplus > 0 => t.carry
               /\ Replaces(t.take, p, r, surplus)
    <3> t.back \in [Installment -> Amount] BY <1>6
    <3> WITNESS t.back \in [Installment -> Amount]
    <3> QED BY <1>3, <1>10, <1>11, <1>12, <1>14
  <2> QED BY <2>1, <2>2
<1>16. CompleteRefund(r, t.carry)
  BY <1>3, <1>4, <1>15 DEF CompleteRefund, p, amount
<1> QED BY <1>16 DEF t, r

\* One step of the transactions is one step of the ledger or none.
LEMMA NextAlone ==
  ASSUME OneRequest, AloneInv, [TxNext]_allVars
  PROVE  AloneInv' /\ [Next]_vars
<1>1. TxInv /\ TxInv' BY NextTx DEF AloneInv
<1>2. ASSUME NEW w \in Worker, VoidStep(w) PROVE AloneInv' /\ [Next]_vars
  <2>1. CASE CommitVoid(w)
    <3>1. VoidPayment(tx[w].payment) BY <1>1, <2>1, CommitVoidSerial
    <3>2. tx[w].payment \in Payment
      BY <1>1, <2>1, OneWorker DEF CommitVoid, At, RequestOK, Working
    <3>3. Next BY <3>1, <3>2 DEF Next, ReversalNext
    <3> QED BY <1>1, <1>2, <3>3, VoidStepReads
  <2>2. CASE ~CommitVoid(w)
    <3>1. UNCHANGED vars
      BY <1>2, <2>2 DEF VoidStep, BeginVoid, ReadAllocations, VoidRow, VoidDelete, ScanCredits,
                        VoidCredits, LockPayment, Run
    <3> QED BY <1>1, <1>2, <3>1, VoidStepReads
  <2> QED BY <2>1, <2>2
<1>3. ASSUME NEW w \in Worker, RefundStep(w) PROVE AloneInv' /\ [Next]_vars
  <2>1. CASE CommitRefund(w)
    <3>1. CompleteRefund(tx[w].refund, tx[w].carry) BY <2>1, CommitRefundSerial
    <3>2. tx[w].refund \in Refund /\ tx[w].carry \in BOOLEAN
      BY <1>1, <2>1, OneWorker DEF CommitRefund, At, RequestOK, Working, TxRow
    <3>3. Next BY <3>1, <3>2 DEF Next, ReversalNext
    <3>4. AloneInv' BY <1>1, <2>1, FinishReads DEF CommitRefund
    <3> QED BY <3>3, <3>4
  <2>2. CASE ~CommitRefund(w)
    <3>1. UNCHANGED vars
      BY <1>3, <2>2 DEF RefundStep, BeginRefund, ReadPayment, ReadAllocations, ScanCredits,
                        RefundCredits, UnwindRow, SumRefunds, LockPayment, Run
    <3>2. AloneInv'
      BY <1>3, <2>2, BeginRefundReads, ReadPaymentReads, ReadAllocationsReads, ScanCreditsReads,
         RefundCreditsReads, UnwindRowReads, SumRefundsReads, LockPaymentReads DEF RefundStep
    <3> QED BY <3>1, <3>2
  <2> QED BY <2>1, <2>2
<1>4. ASSUME NEW w \in Worker, Abort(w) PROVE AloneInv' /\ [Next]_vars
  BY <1>1, <1>4, FinishReads DEF Abort
<1>5. ASSUME NEW r \in Refund, NEW p \in Payment, NEW amount \in Amount,
             LockedCreateRefund(r, p, amount)
      PROVE  AloneInv' /\ [Next]_vars
  <2>1. Next BY <1>5 DEF LockedCreateRefund, Next, RefundNext
  <2>2. AloneInv' BY <1>1, <1>5, CreateRefundBeside, BesideReads
  <2> QED BY <2>1, <2>2
<1>6. CASE Other
  <2>1. Next BY <1>6 DEF Other, Next, RefundNext
  <2>2. AloneInv' BY <1>1, <1>6, OtherBeside, BesideReads
  <2> QED BY <2>1, <2>2
<1>7. CASE UNCHANGED allVars
  <2>1. UNCHANGED vars /\ tx' = tx /\ held' = held BY <1>7 DEF allVars, txVars
  <2>2. UNCHANGED txVars /\ Beside /\ \A x \in Worker : Untouched(x)
    BY <1>7, <2>1 DEF allVars, Beside, Untouched, LiveOf, vars
  <2> QED BY <1>1, <2>1, <2>2, BesideReads
<1> QED BY <1>2, <1>3, <1>4, <1>5, <1>6, <1>7 DEF TxNext

\* When one reversal is in flight at a time, whatever else goes on, the statements of
\* voidPayment and completeRefund come to the same as each in one piece, and failing
\* anywhere leaves nothing behind: everything proved of BillingLedger holds.
THEOREM AloneIsSerial == OneRequest => (TxSpec => SerialLedger)
<1> SUFFICES ASSUME OneRequest PROVE TxSpec => SerialLedger
  OBVIOUS
<1>1. TxInit => AloneInv BY InitTx, IdleTyped DEF AloneInv, TxInit
<1>2. TxInit => Init BY DEF TxInit
<1>3. AloneInv /\ [TxNext]_allVars => AloneInv' /\ [Next]_vars BY NextAlone
<1> QED BY <1>1, <1>2, <1>3, PTL DEF TxSpec, SerialLedger, Spec
=============================================================================
