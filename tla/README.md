# A TLA+ model of the student visa tracker's backend

The repository is a multi-tenant application for education agencies: it follows
students from enrollment to visa and bills them. `src/apps/backend` is an Express
server over PostgreSQL (Prisma), `src/apps/frontend` a Next.js client,
`src/packages` the shared schemas. Everything below is about the backend, where
the state and the concurrency are; paths are relative to
`src/apps/backend/src` unless they start with `src/`.

Three facts about the runtime shape every module:

- a handler that opens `prisma.$transaction` runs at READ COMMITTED: a plain read
  takes no lock and may be stale by the next statement, a `FOR UPDATE` or an
  `UPDATE` waits for the row and looks at it again;
- outside such a block every statement of a request is a transaction of its own
  (`middlewares/tenantContext.ts`), so two requests interleave between any two;
- a worker may die between any two statements. PostgreSQL undoes an open
  transaction and keeps every committed one.

## Inventory

| component | state | operations | what is hard |
|---|---|---|---|
| Billing ledger (`modules/billing`) | installments, payments, allocations, refunds, adjustments, student credits, credit applications | record, void, refund, adjust, spend and reverse credit | eight tables that must agree; rows read without a lock; reversal after waiver, cancellation, credit |
| Fee plan lifecycle (`plan.service.ts`, `enrollment-hook.ts`) | plan status, its installments | create, pause, resume, cancel, regenerate; hooks of the enrollment | checks outside the transaction; updates by id; errors swallowed by the hooks |
| Daily billing job (`jobs/billingDaily.ts`) | the same rows | invoice, fall due, overdue, late fee, complete | scans that are stale when acted on |
| Idempotency (`shared/idempotency.ts`, clean-up, admin sweep) | one row per (user, scope, key) | claim, run, record, replay, clean up, sweep | crash between the operation and its record; retries; sweep of a live row |
| Enrollments (`modules/enrollments`) | status, version | change of status, the hooks behind it | the hook runs after the change, on whatever the row has become |
| Commissions (`modules/commissions`) | one claim per enrollment: status, amount, version, number | mint, reprice, claim, invoice, pay, dispute, resolve, waive, edit | repricing beside settlement; a status checked in one statement and written in another |
| Reminders (`modules/reminders`, `jobs/reminderScanner.ts`, `jobs/reminderDispatcher.ts`) | reminders | scan, create, answer, reschedule, delete, dispatch | overlapping passes over stale batches; answers by id |
| Communications outbox (`modules/comms`, `jobs/commsDispatcher.ts`, `jobs/commsDigest.ts`) | messages: status, attempts, next retry | queue, send, retry, digest, requeue, clean up | four writers of a row; the provider is called between two statements |
| Audit log and anchor (`shared/audit.ts`, its trigger, `jobs/hashAnchor.ts`) | append-only entries, anchors | append, link, verify, fold, anchor | the head is found before it is locked; entries that commit behind the watermark |
| State machine framework (`shared/fsm.ts`) | none | edge, role and reason test | callers that ask it about a stale status |
| Sessions and sign-in (`modules/auth`) | refresh tokens, lockout counters | sign in, rotate, log out, change password | rotation in several statements; counters written from stale reads |
| Job runner and lock (`jobs/runner.ts`, `jobs/lock.ts`) | advisory locks, job runs | acquire, run with retries, release | locks tied to pooled connections |
| Data subject requests, retention (`modules/dsar`, `jobs/retentionErasure.ts`) | requests, deadlines | open, extend, fulfil, erase | deadlines and erasure |
| Student records, imports, CRM, super-agents, reports, exports, the client, the shared packages | rows and views | create, read, update, delete | little control beyond a statement |

How they meet: a change of an enrollment's status calls the hooks of the plan and
of the commission claim, and closing one dismisses its reminders; the plan, the
daily job and the ledger write the same installment rows; every money route runs
inside `withIdempotency`; jobs run under the runner and the lock; reminders write
into the outbox; all of them append to the audit log.

What makes each correct:

- *ledger*: every minor unit received is in exactly one place (settling a row,
  waiting as credit, given back); a row's status says what its money says; closed
  rows stay closed; a handler's transaction does what it would do alone;
- *plans*: one plan in force per enrollment; rows that follow their plan, but for those
  a void or a refund reopens; a status change that leaves billing as the new status
  wants it;
- *idempotency*: an operation takes effect once per record; the record tells the
  operation's outcome, not that of writing it; a replay answers the same question;
- *commissions*: a paid claim is history; an invoice has a number of its own; a
  price computed for an open claim does not land on a settled one;
- *reminders*: one round of messages per reminder, none after an answer, and every
  due one leaves the queue;
- *outbox*: every message is sent or given up, and SENT means that somebody has it;
- *audit*: the chain is linear, and every entry is anchored, once;
- *sessions, job lock* (not modelled): a token is exchanged once and revocation is
  final; no lock outlives its job for ever.

The list of hazards, each at its line with the properties that cover it, is in
`PROJECT.json`.

## Modules

| module | what it is |
|---|---|
| `BillingLedger` | the money tables of one enrollment; one action per handler, per cron step and per plan operation, each one atomic |
| `ReversalTx` | `voidPayment` and `completeRefund` statement by statement over the same tables, beside all other money handlers |
| `Idempotency` | `withIdempotency`, the clean-up and the sweep, statement by statement, with crashes |
| `EnrollmentFsm` | the statuses of an enrollment and the moves between them, shared by the next two |
| `FeePlans` | one enrollment, its plans and the requests that change either, statement by statement, with the hooks and the daily job |
| `Commissions` | the claims of enrollments: the recalculation, the withdrawal hook, the administrators' handlers |
| `Reminders` | a reminder from scan to message, with overlapping passes and people answering |
| `Outbox` | what the outbox promises, in one variable: the abstract specification |
| `CommsOutbox` | the table of messages and its writers, which implement `Outbox` |
| `AuditChain` | the log of one tenant, the trigger, the verifying walk and the anchor job |
| `BillingLedgerProofs`, `ReversalTxProofs`, `IdempotencyProofs`, `FeePlansProofs`, `CommissionsProofs`, `RemindersProofs`, `CommsOutboxProofs`, `AuditChainProofs` | theorems about the module named |
| `MC...` | constants and symmetry for TLC |

`ReversalTx` extends `BillingLedger` and is composed with it: its workers and the
ledger's handlers write the same tables. `FeePlans` composes enrollment, plan
service, hooks and daily job; `Commissions` composes enrollment, hooks and claims.
The others stand alone: what one of them takes from another part is an action that
may happen at any time (`AskOutcome`, `AutoDismiss`, `Pay`, `Bill`).

### BillingLedger

Each variable is a table of `prisma/schema.prisma`: `inst` (`fee_installments`:
status, `net_minor`, `paid_minor`, `balance_minor`), `adj` (the sum of a row's
`fee_adjustments`), `payment`, `alloc` (`payment_allocations`), `refund`, `credit`
(`student_credits`), `app` (`student_credit_applications`) and `plan`. A row that
does not exist yet has status `"NONE"`; an allocation that does not exist is 0,
which is exact because amounts are positive. Soft deletion, notes, actors and
versions are left out.

A handler that throws rolls back, so a rejection is a disabled action. FIFO
spreading (`allocateFifo`, the loop of `applyCredit`, the LIFO loop of
`completeRefund`, the loop over credits) is one predicate, `Waterfall`: what d
spends, in an order, against caps. The order in which a payment's allocation rows
were created is kept (`payment[p].order`), because refunds unwind newest first.
`retireCreditsForRefund` reverses a credit taken in part and posts the remainder
as a new one (`Replaces`). `assertSettlement`'s walk through INVOICED is
`CanSettle`; edges that need an ADMIN and a reason are apart (`AdminEdge`) because
settlement passes no reason and so cannot take them.

Dates are abstracted: the cron may find any row due at any time, on any day. The
daily job's scans are stale, but each write is a guarded update of one row, so a
step of the job is one action guarded by the row's present status.

The other handlers take `FOR UPDATE` locks before they decide, or decide in a
guarded update, so taking them as one step loses nothing. That is not so of
`voidPayment` and `completeRefund` (`ReversalTx`), nor of the plan operations: they
check the plan's status in a statement of its own and then write by id alone, so all
that is sure when they write is that the plan once had the status they found.
`plan.been` keeps the open statuses the plan has had, and `PausePlan`, `ResumePlan`
and `CancelPlan` ask no more than that: a plan that was cancelled or completed in the
meantime is PAUSED, ACTIVE or CANCELLED again. `FeePlans` has the same requests
statement by statement. The completion of a plan is a scan and an update guarded by
the plan's status, but not by its rows': `CronComplete` takes them in one step, and
`FeePlans` (`ScanComplete`, `Complete`) in two.

### ReversalTx

A worker carries one of the two transactions. `tx[w]` is what it has read and
decided, `held[w]` the row locks it holds; its writes become visible when it
commits. A statement that meets a lock of another worker is not enabled. A
`SELECT ... FOR UPDATE` on credits is two steps: the snapshot that finds the rows
(`ScanCredits`) and the re-check once they are locked (`StillLive`). `Abort` is
any exception, deadlock victim or transaction timeout. The other handlers are
actions of `BillingLedger` that must not write a row somebody holds (`Waits`); the
insertion of the handler's own rows needs no lock.

`SerialLedger` is `BillingLedger!Spec` as the abstract specification: the run
`tx_alone` shows that with one such transaction at a time the detailed system
implements it, beside payments, credits, adjustments and new refunds. With two it
does not (see the known divergences), and `tx_races` and the theorems about `TxSpec`
state what does survive.

### Idempotency

`record` has one row per (user, key); its `owner` is the request that inserted it
and stands for the row's id, so that "update by id" is an update of the rows with
that owner. `done` is ghost state: the requests whose operation took effect.
`run()` may throw after it took effect (a later transaction of the operation
failed, or a COMMIT went unanswered), and a crash may come before or after.
`Lapse` is the passing of `expires_at` and the grace of the clean-up, two days; no
request is assumed to live that long. The sweep is two steps, the read that checks
PENDING and the write by id. The ADMIN's investigation is a guard: the operation
investigated has not taken effect; the row then found by key alone may be
another user's.

### EnrollmentFsm and FeePlans

`EnrollmentFsm` is the table of `modules/enrollments/fsm-def.ts`. In `FeePlans` a
request is not a transaction: it reads, decides and only then writes. `req[r]` is
where it stands and what it has read. A status change is `AskStatus` (read,
If-Match, edge test), `WriteStatus` (by id, or by id and version), `Reread`, and
the hook of the move from the status the request began with to the one the row has
by then. The hook looks for a plan (`Find`), the plan service checks its status
(`Check`) and its transaction follows (`Commit...`). Such a transaction begins
with an update of the plan's row, so two of them on one plan follow each other and
each is one step; but it updates the plan by id alone, which is what makes a stale
check matter. `Unique` is the partial unique index on a live plan of an enrollment:
it refuses a creation (`CommitCreate`) or a revival (`CommitRefused`).
`regeneratePlan` is a cancellation, a creation and a link, in three transactions.
A request may die or throw between any two steps (`Fails`); what a hook throws is
swallowed. The hook of an enrolment makes a plan only if the enrollment has a tuition
above zero, which an edit may change at any time (`priced`, `Seed`). The daily job's
completion acts on a scan (`ScanComplete`, `Complete`).

Single rows are moved beside the requests, whatever the status of the plan: billing
(`Bill`), what settles them (`Pay`: payments, credits, discounts, waivers) and what
takes the money back (`Reverse`: a void makes a PARTIAL, PAID or WAIVED row PARTIAL or
INVOICED again, a refund PARTIAL or REFUNDED). Amounts are in `BillingLedger`; here
each of these may happen to any row whose status allows it. `reopened` is ghost state:
the rows a reversal took out of the settled statuses, until they are settled again.
`ItemsFollowPlan` says that under a plan that is COMPLETED or CANCELLED only such rows
are open. They do go on being billed.

`lone` is ghost state: the request met no other from beginning to end.
`LoneChangeSettlesBilling` speaks of such requests only, because with two in flight
the hooks may run in the other order and the code promises nothing.

### Commissions

`claim[e]` is the row of an enrollment, which is unique. A recalculation reads the
enrollment (`Price`), the claim (`Load`), and writes with the version it read in
the WHERE clause (`Reprice`), again up to `MaxAttempts` times; a first claim is an
insert that the unique index may refuse. The hook of a withdrawal (`AutoDispute`)
writes by enrollment and status and leaves the version alone. A handler reads the
row and checks its status (`AskClaim`), draws a number if it needs one (`Number`),
and writes where the row still has that status and the number is still free
(`WriteClaim`). What an enrollment is worth is `price`, which an edit of the
tuition changes at any time. Numbers are small integers in place of formatted ones:
the code takes the next of the tenant's sequence, or one the request brings; both
are "one that no claim had when it was looked up". Amounts and receipts may be 0;
a receipt that is NULL is `NoReceipt`.

### Reminders

A source (an intake, a fee, a visa) wants reminders on certain days; the scan
offers them again and again, and the unique index on source and day skips what
exists, deleted or not. A pass holds the batch its query returned. The claim of a
row and the message made for it are one transaction with the status in the WHERE
clause (`Dispatch`). An answer is two statements: `Ask` reads the row and tests the
edge, `Answer` writes by id whatever the status has become. The edge test lets a row
stay what it is, and any day, a past one too, may be given to snooze until. `mails` and `answered`
are ghosts. The clock stops at `LastDay`, and what is due stays due.

### Outbox and CommsOutbox

`Outbox` is the promise: a message posted waits until it is sent or given up,
nothing waits for ever, what was sent never waits again and nothing that was not
sent disappears. `CommsOutbox` is the table. A pass (`Scan`) holds ids and the
attempt counts it saw, calls the provider for the least of them (`Send`), holds its
answer and records it if the row is still QUEUED or FAILED (`Record`); whether
there will be a retry is computed from the count it saw. The request that creates
a message sends it by itself and records the answer by id. The digest reads a
user's queued rows and, in a later transaction, queues one message that lists them
and marks as SENT those that still are QUEUED. The administrator requeues failed
rows; the clean-up removes old sent ones. Backoff is a flag that becomes past
(`BackoffOver`).

The refinement mapping `Box` says "dead" of a row that the administrator's screen
calls terminal, and "waiting" of a FAILED row that is not: such a row must then be
one that the dispatcher selects, which is where a disagreement of the two queries
would show.

### AuditChain

A writer stamps its entry with the application's clock (`Stamp`), its transaction
finds the newest entry (`FindHead`), waits for that row (`LockHead`) and commits an
entry linked to it (`Commit`). PostgreSQL's `SELECT ... ORDER BY ... LIMIT 1 FOR
UPDATE` at READ COMMITTED returns, after a wait, the row it found before it, since
nobody changes that row: hence `FindHead` and `LockHead` are two steps and the head
is not looked for again. Hashes are taken to be free of collisions, so an entry's
hash is the entry and a root is the sequence folded into it. A query's ORDER BY is
`Sorted`, the one enumeration of its rows that is in order. The anchor job reads
the last anchor, then the entries past its watermark, then persists
(`ReadPrior`, `ReadRows`, `Persist`). Two runs may overlap: no code keeps the
schedulers of two instances apart but the advisory lock, which is taken as absent (see
the last section); an overlap counts as a fault. `calm` is ghost: so far each entry was
stamped after the one ahead of it had committed, and later by the clock.

The log is empty at first. Its first entry has no row to lock, so two writers may both
be first; and an anchor made of an empty log is stored as `EMPTY_CHAIN_ROOT`, 64 zeros,
without a watermark. The next run scans the whole log and folds it onto these zeros,
not onto the empty string that a re-hash begins with. `zeros` of an anchor says so of its
root. `CalmIsIntact` therefore says which entries a root counts, in which order, and
that it begins with zeros only after an anchor of an empty log.

## Runs

| run | instance | what it shows |
|---|---|---|
| `ledger` | 2 installments (gross 2 and 1), 1 payment, 2 refunds, 2 credits, amounts to 2 | money is conserved, statuses tell the truth about it, closed rows stay closed |
| `tx_races` | 1 installment, 1 payment, 2 refunds, 2 credits, 2 workers with either job | a void that commits is serial; a refund is paid once; what a row was paid is backed by allocations and applications, lost updates or not |
| `tx_alone` | 2 installments, 1 payment, 1 refund, 2 credits, 1 worker | a credit spent beside a reversal is never taken back; beside the other money handlers the transactions implement the atomic ledger (`SerialLedger`) |
| `tx_lost_update` | as `tx_races`, refunds only | **violated**: `PaidIsFunded` |
| `idempotency` | 2 users, 1 key value, 2 payloads, 3 requests | exclusion, truth of the record, faithful replay, once per record |
| `plans` | 2 requests in flight and 3 in all, 2 plans of 1 row, 1 fault | at most one plan in force, rows open under a closed plan only where a reversal reopened them, hooks that settle billing when nothing interferes |
| `claims` | 2 enrollments, 2 requests in flight and 3 in all, amounts 0 and 1, 2 attempts, 1 edit, 1 fault | a paid claim is final, numbers are unique, no stale price on a settled claim |
| `reminders` | 2 rows, 1 source, days 1 and 2, 2 passes, 1 user, batches of 1, 1 fault | one round of messages per reminder, none after an answer; every due reminder leaves the queue |
| `snooze` | 1 row, 1 pass, no fault | **violated**: `SnoozeIsRearmed` |
| `outbox` | 2 messages, 2 passes, batches of 1, 2 attempts, 1 fault, 1 requeue | attempts are bounded, SENT is true; the table implements `Outbox`, liveness included |
| `audit` | 3 entries, 2 writers, 2 jobs, clock to 2, 1 fault | no root counts an entry twice; a log whose writers did not overlap is intact, its roots count what a re-hash would, and every entry is anchored in the end |
| `audit_forks` | 3 entries, 2 writers, 1 job, no fault | **violated**: `ChainIsLinear` |

### Bounds

*Ledger.* `MaxMinor` bounds every amount, and late fees by it; all other bounds are
the sizes of the id sets. Amounts up to 2 are the smallest for which "nothing,
part, all" are three different things for a row, a credit, a refund and an
allocation. Gross amounts are fixed by the configuration, but late fees and
discounts move each row's net through every value up to the bound. Two credits are
needed for a credit and its residual, two refunds for caps and double completion,
two installments for FIFO and LIFO order and a second row to leave alone. Payments
do not read each other's allocations, so one payment is run. The races need one
installment only: they are about two transactions on one row. `tx_alone` has two,
because with one row the reversal's lock on it would also keep the payment's
surplus credit from being spent on it, and the race for that credit would never be
run.

*Idempotency.* Three requests over one key value are a claimant, a concurrent retry
and a later one that meets the record after clean-up; the second user shares the
key value for the sweep that looks up by key alone.

*Plans and claims.* Two requests in flight are the smallest race, and every race
found in the code is of two. Three requests in all allow a plan to be made by one and
two others to race for it: a cancellation that a stale pause undoes, a regeneration
beside a pause that the index then refuses. Two plans are the least for which a second
one may be in force. A plan has one row: each bulk update treats a plan's rows alike
and by their status alone, so that a second row would repeat what the first does; the
one test over all rows, of the completing job, is proved for any number. Amounts 0 and
1 tell a claim or a receipt of nothing from one of something and from none. Claims
start as absent or submitted, so that three requests reach a paid claim; two
enrollments are needed for a number to be taken.

*Reminders, outbox.* Two rows and batches of 1 make rows wait for each other;
two passes overlap; two days are enough for a row to be due, answered and put off.
`MaxFaults` bounds failed statements and deaths. It also keeps failures from being
permanent, without which the liveness properties are false: `BatchLimit` rows that
fail at every pass would hold up all others.

*Audit.* Two writers are enough for a fork, behind a first entry that both find; the
third entry may commit behind an anchor. Ticks 0 to 2 give equal stamps and stamps in
either order. One fault is a failed write, a dead job or an overlap of two.

Symmetry: workers in `tx_races`; requests, users and payloads in `idempotency`;
requests in `plans`; requests and enrollments in `claims`; writers and runs of the job
in `audit`. None is named by a property, a constant or a fairness condition: the
fairness of `audit` is of some run, and its liveness property speaks of entries. Ids of payments, refunds, credits, plans,
reminders, entries and messages are ordered and are not reduced, and no other run with
liveness uses symmetry.

`CHECK_DEADLOCK FALSE` everywhere: a ledger whose ids are used up and whose rows
are closed has nothing left to do, and neither has a set of answered requests, a
table of delivered messages or a log that is anchored.

### Fairness

Assumed where the scheduler owes something, and only there:

- `reminders`: the clock runs (`Tomorrow`), and each pass is started and works
  through its rows (`Pick`, `Dispatch`, per pass): `jobs/scheduler.ts` starts the
  dispatcher at a fixed interval, and the loop over rows catches what a row throws;
- `outbox`: each pass goes on (`PassNext`) and backoff ends (`BackoffOver`): the
  dispatcher is started in the same way and the provider's call has a timeout;
- `audit`: some run of the job goes on (`Anchor`): daily schedule.

Weak fairness is enough: none of these steps is disabled over and over by others
once there is work for it, but a crash, of which there are finitely many. That a
job sees the rows it works on, under the row-level security of the database, is assumed
here, for the tenant context is not modelled. People,
scans, the digest, the creating request and the administrator are owed nothing, and
the other modules, in which only people act, state none: their properties are
safety properties.

### Refinements

`SerialLedger` (`ReversalTx`) is `BillingLedger!Spec` under the identity on the
tables: each statement of a reversal is a stutter but its commit. `OutboxKept`
(`CommsOutbox`) is `Outbox!Spec` under `Box`, with its fairness: from the fairness
of passes and of backoff it follows that each waiting message is settled.

## Proofs

Eight modules hold theorems. Every safety invariant and every action property that a
passing run checks is proved for all values of the constants that satisfy the
assumptions of its module, which TLC evaluates in every run; so are the initial
states and the steps of both refinements. Each proof has the same shape: an
invariant that is inductive (named below), one lemma per action or per way of
writing a row, and the property as a consequence. Where the invariant says more
than the properties do, it was checked by TLC on the instance of the run before it
was proved. The bounds that are constants (`MaxMinor`, `MaxAttempts`, `MaxFaults`,
...) are arbitrary in the proofs.

**`BillingLedgerProofs`**: for finite tables of any size (`FiniteAssumption`: a sum over
infinitely many rows is none), any gross amounts and any largest amount.

- `LedgerInv` is the part about single rows. `TypeOK` is inductive by itself but for
  one point: a consumed amount is within the credit because the amount spent is the
  sum of what was placed on the rows, which is at most what was available. Each way of
  writing a row goes through `Row`, so balance is net less paid; that it stays
  non-negative uses the caps of the handlers and that what a reversal takes back is
  positive. Each of the five ways in which a status can change (settle, void, unwind,
  adjust, relabel) takes a sound row to a sound row.
- `MoneyInv` adds the sums. `PaidIsFunded`, `ConsumedIsApplied` and the three
  properties of a payment (`PaymentOK`: what rows, credits and refunds hold of it) are
  sums over tables, and the library's induction over finite sets takes an operator and
  so cannot be used. What is needed of sums (a changed entry, a sum of sums, a bound, a
  sum that is zero) is proved at the start of the module from a smallest
  counterexample: of the sets for which the fact fails one has the least cardinality,
  and the fact holds of it with an element removed. `MoneyInv` is inductive only
  with two more facts: nothing refers to a payment that was not received yet
  (`FreshPayments`), else an id could start with money it did not bring, and a refund
  is of a positive amount (`RefundsPositive`), else a payment could be
  PARTIALLY_REFUNDED with nothing given back. `OneLiveCreditPerPayment` is carried
  along: new surplus credits and residuals are posted where the old one is gone.
- `MoneyNeverLost`, `LegalMoves` and `TerminalStays` compare a state with the next; they
  follow action by action from these invariants. `TerminalStays` speaks of cancelled and
  refunded rows, of payments refunded in whole and of settled refunds. It makes no claim
  about a plan, which a stale update brings back, nor about a VOIDED payment, which a
  refund in flight writes over.

**`ReversalTxProofs`**: for any number of requests in flight. The two transactions
interleave by statement, so the ledger's invariant is not enough. `TxInv` adds what a
request may rely on: no row is locked by two (`Locking`); a request has the lock of
each row and credit it will take from, and the row still has what will be taken
(`Holds`); the credits it found stay the payment's (`Scanned`); and what a void read
stays so for as long as its payment stands RECEIVED (`VoidReads`). A statement changes
no table, so only its own request has to be looked at; a commit or another handler
does, and the others need no more than that it left alone what they locked
(`Untouched`) and was `Gentle` to what they read. `VoidIsSerial` (a void that commits
is the void of the atomic ledger) and `RefundPaidOnce` follow, and `AmountsAgree`,
`StatusTellsMoney` and `CreditWithinAmount` are proved to survive all races.

How far the races of refunds reach is said by `RacesInv`. `PaidIsFunded` does not
survive (`tx_lost_update` refutes it); its half `PaidIsBacked` does: a lost update
leaves allocations without money, never money without allocations. No function of
the tables says why, since the money that is left of an allocation is written
nowhere once an update is lost. `Backed` therefore says that there is a table of it:
its columns, with the credits applied, are what the rows were paid, no entry is more
than the allocation, nor than what any request in flight read of it. Every commit
takes off that table what it takes off the rows. Credits are taken under their locks
(`CreditsInv`), so `ConsumedIsApplied` and `OneLiveCreditPerPayment` survive as well.
Completing a refund does not change what the cap of `createRefund` counts, so
`RefundsWithinGross` does (`RefundsInv`); and since a refund remembers the refund it
is for, and the status it will write is one that the sum has come to by then
(`RefundKnown`), a payment that is REFUNDED was refunded in full and is never written
over (`TxRefundedFinal`). The converse, that a payment refunded in full is REFUNDED,
does not survive. With that, `LegalMoves` and `TerminalStays` hold of the interleaved
statements, too (`TxMovesLegal`, `TxTerminalFinal`).

`AloneIsSerial` is the refinement: under `OneRequest` (at most one such request at a
time, others of `BillingLedger` beside it) `TxSpec` implies `SerialLedger`.
`AloneInv` adds to `TxInv` that a refund, too, finds at its commit what it read.

**`IdempotencyProofs`**: `TypeOK`, `ExclusiveRun`, `OncePerRecord`,
`RecordTellsOutcome` and `ReplayIsFaithful`, for any users, keys, payloads and
requests. None is inductive. `IInv` adds who owns what: a request inside its operation owns the
row of its key (`OwnerInv`), an owner has claimed under that key and a lapsed row's
owner has left its operation, each phase says what is known of the operation
(`PhaseInv`), and a SUCCESS row's owner has answered ok (`OutcomeInv`). Exclusion
follows since a row has one owner. `ReplayIsFaithful` is proved on top: only `Read`
answers from a record, and nothing it relied on changes later, although the record
itself may.

**`FeePlansProofs`**: `TypeOK`, `OneLivePlan`, `ItemsFollowPlan` and
`LoneChangeSettlesBilling`, for any number of requests, plans and rows. `IInv` adds what a
request in flight may hold (`RequestInv`) and that the rows of a plan in the daily job's batch
are settled or reopened (`BatchInv`), and states "at most one plan in force" as "any two plans
in force are equal" (`LiveInv`), which is inductive by the index test of each step
that puts a plan in force; cardinality enters only at the end. That rows follow
their plan holds through `Becomes` whatever the plan's status was before
(`PlanStep`), which is why a stale check cannot break it. A reversal may open a row
under any plan, also one in the batch; `reopened` then has the row until it is settled
again. `LoneInv` follows a change
of status from its beginning to the end of its hook: while it is alone all others are
idle, what its hook does is what the change asks for (`HookOf` of the status it began with
and the one the row has), and the plan it goes for is the only one that may be in
force, since beside it only the daily job touches plans, and that takes them out of
force. So the index never refuses such a hook, and a plan that the job completes
under its hands is no longer in force anyway.

**`CommissionsProofs`**: `TypeOK`, `InvoicesAreNumbered`, `PaidIsFinal` and
`RepricesOnlyOpen`. Every step changes at most one claim, in one of a few ways
(`ClaimStep`, `Changed`), each of which takes sound rows to sound rows. `IInv` adds
that a number is held by one claim (`NumberInv`), what each request saw
(`RequestInv`), and how versions tell what may have happened since it was read
(`VersionInv`): a row that still has the version a repricing read has the status read
with it, or was disputed by the withdrawal hook. `RepricesOnlyOpen` follows.

**`RemindersProofs`**: `TypeOK`, `OneMailPerReminder` and `QuietAfterAnswer`. `IInv`
adds that rows held by passes and requests exist (`HeldInv`), that an answered row is
not PENDING (`AnsweredInv`) and that a PENDING row has no messages (`UnmailedInv`).
All turns on PENDING being left for good, which `RowStep` states of every action.

**`CommsOutboxProofs`**: `SentIsTaken`, `AttemptsBounded`, and `TableKeepsPromise`: from
the initial state each step of the table is a step of `Outbox` or leaves `box` alone.
`IInv` says that an answer "accepted" in somebody's hands means the message is taken
(`PassInv`, `RequestInv`), that what a digest lists is a user's message (`DigestInv`),
and that a row says SENT only of a taken message; that the least row of a pass
exists comes from the well-foundedness of `<` on the naturals. `AttemptsBounded`
needs `TriesInv`, which bounds the tries a row has together with the passes that
have it in hand, each of which may add one (`Counted`); it assumes that finitely many
passes are in flight (`PassAssumption`).

**`AuditChainProofs`**: `AnchorsCountOnce` and `CalmIsIntact`, for any set of entries,
writers and jobs. That a query has an answer, and one only, is not free: a finite set of
entries has exactly one enumeration in order (the first lemmas, again from a smallest
set), the log is finite in every reachable state (`LogInv`), and two enumerations
join if one ends before the other begins. A root counts committed entries, in order,
none past its watermark (`Sound`), and the rows a job holds are past the watermark of the
anchor it read (`RowsSound`), whatever was committed or anchored since. While `calm`,
roots and rows also leave nothing out (`Whole`, `RowsWhole`), because the writer in
its turn was stamped after all of the log and will be linked to its end (`TurnInv`).
That a root is folded from zeros only behind an anchor of an empty log holds of any
log: an anchor passes its zeros on, and the anchor it had them from stays.

Only model-checked: liveness (`DueIsDispatched`, `CalmIsAnchored`, and the fairness of
`Outbox` in `OutboxKept`), which is out of the prover's reach, like ENABLED. The three
refuted statements are runs of TLC and have no theorem.

## Known divergences

Three statements of the repository's own comments are refuted by a run and quoted
in `PROJECT.json` under "findings":

1. *Lost update of an allocation* (`tx_lost_update`). Two refunds of one payment
   complete at once. Both read the allocation before either has locked its
   installment; the second waits for the installment, subtracts there from the
   fresh value, and then writes the allocation from the old one. `paid_minor` is
   no longer the sum of the rows behind it, but less (`TxPaidIsBacked`): the row
   looks as if more had been allocated to it than it has. If other payments settled
   it as well, the second refund may have been taken out of their money.
2. *Snooze never rearms* (`snooze`). The dispatcher selects PENDING rows; nothing
   takes a SNOOZED row back to PENDING, although `modules/reminders/service.ts:286`
   says the dispatcher is re-armed.
3. *The chain forks* (`audit_forks`). The trigger's `FOR UPDATE` waits but does not
   look again; two writers that found the same head both link to it.

Others were met while modelling. The modules do what the code does, and the
properties say only what survives:

- *ledger*: a refund that read a RECEIVED payment writes REFUNDED over a void that
  committed meanwhile (`payment.service.ts:595`, `:749`), so no property calls VOIDED
  final; LATE_FEE on a PAID row
  leaves it PAID with a balance (`:969`); a void or a refund reopens rows
  whatever the plan's status (`:398`, `:668`), and the daily job then takes INVOICED
  ones to DUE and OVERDUE; two
  refunds that complete at once may each miss the other's sum, and a payment
  refunded in full stays PARTIALLY_REFUNDED (`:741`); the count of late fees is
  checked on the scan and not again (`jobs/billingDaily.ts:348`);
- *idempotency*: the clean-up deletes PENDING records by date alone
  (`jobs/idempotencyCleanup.ts:34`); the sweep and the worker both write by id, and
  either may overwrite the other's outcome;
- *plans*: `pausePlan` and `resumePlan` write by id after a stale check
  (`plan.service.ts:250-259`, `:294-305`) and can put a CANCELLED plan back in force,
  without its rows; the completing job looks at the rows in its scan only, and completes
  a plan of which a row was reopened since (`jobs/billingDaily.ts:481`); an enrollment
  without a tuition enrols without a plan, and a tuition entered later makes none
  (`enrollment-hook.ts:72`); hooks of overlapping changes may
  run in the other order; what a hook throws is lost; a student who goes from leave
  to DEFERRED or COMPLETED keeps a PAUSED plan; `modules/enrollments/fsm-def.ts`
  says that resuming shifts the remaining due dates, but the hook passes no shift;
- *commissions*: the withdrawal hook returns before it comes to the claim if there
  is no plan in force or billing is off (`enrollment-hook.ts:178`); it disputes
  without a new version (`:207`), so a stale recalculation may still reprice the
  disputed claim; `dispute` accepts a WAIVED claim, which
  `modules/commissions/fsm-def.ts:31` lists as terminal;
- *reminders*: a reminder deleted after a pass picked it is still sent; reminders of
  an intake are keyed by the intake, so only one of its enrollments gets a row;
- *outbox*: the provider is called before the row is claimed: overlapping passes may
  both deliver a message, and a crash repeats one; a message may be listed in a
  digest and delivered by itself;
- *audit*: an entry that commits with a stamp behind the watermark is never
  anchored; once an empty log was anchored, as it is on the first day of a new tenant,
  every later root is folded onto 64 zeros and is not the root of a full re-hash, which
  `jobs/hashAnchor.ts:102-106` says it is and `:16-18` of an anchor without a watermark
  (`:99`, `:107`, `:140`); two first entries may both have no predecessor; the verification pass at `jobs/scheduler.ts:250` selects `id`, while
  `audit_logs_verify` returns `broken_id`; migration 20991231235996 takes the hash
  payload back to what 20991231235994 had replaced.

## Not modelled

*In the ledger*: currencies other than one (each handler rejects a mismatch),
credit expiry, several enrollments of one student, schedule generation
(`generateInstallmentLines`) and the scholarship calculator, receipt numbers, roles
beyond the split of edges, audit entries of the handlers (written after commit,
never read). *Idempotency*: requests without a key and callers without a user.
*Plans*: requests of users who lack the role, tenants with billing off, DRAFT plans
(seen by nobody outside the creating transaction). *Commissions*: rates and tiers
(a calculation is the price of the moment), bulk endpoints, super-agents' shares,
If-Match. *Reminders*: which days a source wants and to whom messages go.
*Outbox*: IN_APP rows, which are born SENT, and rendering. *Audit*: the payload that
is hashed; anchors with entries and no watermark, from before there were watermarks,
which migration 5982a fills in; export and search.

*Components without a module*, each with its reason in `PROJECT.json`: job runner
and lock (which pooled connection a statement gets is Prisma's affair; instead every
job module lets runs overlap, as if the lock were not there), sessions and sign-in,
data subject requests and retention, bulk imports, CRM intake, tenant context
(row-level security; used as the assumption that each statement is a transaction of
its own), student records, super-agents, reporting and the rest of the API, the web
client and the shared packages. The client and the read-only API are most of the
repository's lines and have no state that outlives a request.

## Plan

1. `Sessions`: rotation of refresh tokens against log-out and password change; the
   lockout counter written from stale reads.
2. `JobRunner`: advisory locks over a pool of connections, run records and retries.
3. `Dsar`: deadlines, extension and fulfilment beside erasure.
4. `PricingFns`: the schedule generator, FIFO and scholarship functions against
   reference definitions over bounded inputs.
5. Proofs: what is left is liveness, which stays with TLC.
