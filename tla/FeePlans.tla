------------------------------- MODULE FeePlans -------------------------------
(***************************************************************************)
(* One enrollment and its fee plans: requests that change its status, each *)
(* followed by the billing hook of that change, requests that create,      *)
(* pause, resume, cancel or regenerate a plan, and the daily job.          *)
(*                                                                         *)
(* A request is not a transaction.  It reads, decides and only then        *)
(* writes, and what it has read may be out of date.  A transaction of the  *)
(* plan service begins with the row of its plan, so that two of them on    *)
(* one plan follow each other: each is one step here.  Requests are those  *)
(* of administrators in a tenant that has billing switched on.             *)
(***************************************************************************)
EXTENDS EnrollmentFsm, Integers, FiniteSets

CONSTANTS
  Request,
  Plan,        \* ids, 1..n in the order of creation
  Item,        \* the installments of a plan
  MaxRequests, \* bound: requests made in all
  MaxFaults    \* bound: requests that die or whose hook throws

ASSUME PlanAssumption == Plan \subseteq Nat \ {0}
ASSUME BoundAssumption == MaxRequests \in Nat /\ MaxFaults \in Nat

VARIABLES
  enr,     \* enrollments.status
  priced,  \* enrollments.tuition_total_minor is there and above zero
  plan,    \* fee_plans.status
  link,    \* fee_plans.superseded_by_id
  item,    \* fee_installments.status
  req,     \* where each request is, and what it has read
  batch,   \* the plans the daily job found complete
  reopened, \* ghost: the rows a void or a refund took out of Settled, while they are out
  asked, faults

vars == <<enr, priced, plan, link, item, req, batch, reopened, asked, faults>>
rows == <<plan, link, item, reopened>>

PlanStatus == {"ACTIVE", "PAUSED", "COMPLETED", "CANCELLED"}
ItemStatus == {"SCHEDULED", "INVOICED", "DUE", "OVERDUE", "PARTIAL", "PAID",
               "WAIVED", "SUSPENDED", "CANCELLED", "REFUNDED"}
Settled == {"PAID", "WAIVED", "CANCELLED", "REFUNDED"}

Idle == [step |-> "idle", for |-> "none", op |-> "none", plan |-> 0,
         from |-> "OFFERED", to |-> "OFFERED", match |-> "none", lone |-> FALSE]

In(p, s) == plan[p] \in s
Live == {p \in Plan : In(p, {"ACTIVE", "PAUSED"})}
At(r, step) == req[r].step = step
Goes(r, s) == req' = [req EXCEPT ![r] = s]
Ends(r) == Goes(r, Idle)
Reopens(out) ==
  reopened' = {x \in reopened \union out : item'[x[1]][x[2]] \notin Settled}

\* A request that begins is alone if no other is in flight, and none is after.
Begins(r, s) ==
  /\ At(r, "idle") /\ asked < MaxRequests
  /\ req' = [q \in Request |->
       IF q = r THEN [s EXCEPT !.lone = \A o \in Request : At(o, "idle")]
                ELSE [req[q] EXCEPT !.lone = FALSE]]
  /\ asked' = asked + 1
  /\ UNCHANGED <<enr, priced, rows, batch, faults>>
---------------------------------------------------------------------------
(* A change of the enrollment.                                             *)

\* The row is read, If-Match compared and the move checked.  A body may repeat
\* the status, which no rule checks, or leave it out ("keep").
AskStatus(r, to, match) ==
  /\ to \in Successors[enr] \union {enr, "keep"}
  /\ Begins(r, [Idle EXCEPT !.step = "write", !.for = "status",
                            !.from = enr, !.to = to, !.match = match])

\* UPDATE by id, by id and version if the request had an If-Match; the body may
\* carry another tuition.
WriteStatus(r) ==
  /\ At(r, "write")
  /\ IF req[r].match = "stale"
     THEN Ends(r) /\ UNCHANGED <<enr, priced>>
     ELSE /\ enr' = IF req[r].to = "keep" THEN enr ELSE req[r].to
          /\ priced' \in BOOLEAN
          /\ req' = [q \in Request |->
               IF q = r THEN [req[r] EXCEPT !.step = "reread", !.to = "OFFERED", !.match = "none"]
               ELSE IF req[q].match = "fresh" THEN [req[q] EXCEPT !.match = "stale"]
               ELSE req[q]]
  /\ UNCHANGED <<rows, batch, asked, faults>>

Closed == {"WITHDRAWN", "CANCELLED"}

HookOf(from, to) ==
  IF from = to THEN "none"
  ELSE IF <<from, to>> = <<"ACCEPTED", "ENROLLED">> THEN "create"
  ELSE IF to = "ON_LEAVE" THEN "pause"
  ELSE IF <<from, to>> = <<"ON_LEAVE", "ENROLLED">> THEN "resume"
  ELSE IF to \in Closed THEN "cancel" ELSE "none"

\* The status is read again: the hook is that of the move from the status the
\* request began with to the one the row has by now.
Reread(r) ==
  /\ At(r, "reread")
  /\ LET hook == HookOf(req[r].from, enr) IN
     IF hook = "none" THEN Ends(r)
     ELSE Goes(r, [req[r] EXCEPT !.op = hook,
                                 !.step = IF hook = "create" THEN "seed" ELSE "find"])
  /\ UNCHANGED <<enr, priced, rows, batch, asked, faults>>

\* maybeSeedFeePlan has nothing to make a plan of without a tuition.
Seed(r) ==
  /\ At(r, "seed")
  /\ IF priced THEN Goes(r, [req[r] EXCEPT !.step = "check"]) ELSE Ends(r)
  /\ UNCHANGED <<enr, priced, rows, batch, asked, faults>>

\* Mutant: a plan that is paused already is not looked for.
AllowedActive(op) == IF op = "resume" THEN {"PAUSED"} ELSE {"ACTIVE"}

\* The statuses in which a plan can be paused, resumed or cancelled.
Allowed(op) == CASE op = "pause" -> {"ACTIVE"}
                 [] op = "resume" -> {"PAUSED"}
                 [] op = "cancel" -> {"ACTIVE", "PAUSED"}

\* The hook looks for the plan to pause, resume or cancel.
Find(r) ==
  /\ At(r, "find")
  /\ LET found == {p \in Plan : In(p, Allowed(req[r].op))} IN
     IF found = {} THEN Ends(r)
     ELSE \E p \in found : Goes(r, [req[r] EXCEPT !.step = "check", !.plan = p])
  /\ UNCHANGED <<enr, priced, rows, batch, asked, faults>>
---------------------------------------------------------------------------
(* The plan service.                                                       *)

AskPlan(r, op, p) ==
  /\ plan[p] # "NONE"
  /\ Begins(r, [Idle EXCEPT !.step = "check", !.for = "plan", !.op = op, !.plan = p])

AskCreate(r) ==
  Begins(r, [Idle EXCEPT !.step = "check", !.for = "plan", !.op = "create"])

\* regeneratePlan reads the plan, then calls cancelPlan and createFeePlan.
AskRegenerate(r, p) ==
  /\ p \in Live
  /\ Begins(r, [Idle EXCEPT !.step = "check", !.for = "regenerate",
                            !.op = "cancel", !.plan = p])

\* What a call checks before its transaction; if it fails, that is the end.
Check(r) ==
  /\ At(r, "check")
  /\ IF IF req[r].op = "create" THEN Live = {} ELSE In(req[r].plan, Allowed(req[r].op))
     THEN Goes(r, [req[r] EXCEPT !.step = "commit"])
     ELSE Ends(r)
  /\ UNCHANGED <<enr, priced, rows, batch, asked, faults>>

\* Mutant: the check before the transaction is all there is.
NotUnique(p) == TRUE

\* The partial unique index, for a plan that is to be active or paused.
Unique(p) == Live \subseteq {p}

\* Mutant: the transaction ends before the plan is activated.
CreatedAsDraft(p) ==
  /\ plan[p] = "NONE" /\ \A q \in Plan : q < p => plan[q] # "NONE"
  /\ plan' = [plan EXCEPT ![p] = "DRAFT"]
  /\ item' = [item EXCEPT ![p] = [i \in Item |-> "SCHEDULED"]]

Created(p) ==
  /\ plan[p] = "NONE" /\ \A q \in Plan : q < p => plan[q] # "NONE"
  /\ plan' = [plan EXCEPT ![p] = "ACTIVE"]
  /\ item' = [item EXCEPT ![p] = [i \in Item |-> "SCHEDULED"]]

CommitCreate(r) ==
  /\ At(r, "commit") /\ req[r].op = "create"
  /\ \/ /\ \E p \in Plan : plan[p] = "NONE" /\ ~Unique(p)
        /\ Ends(r) /\ UNCHANGED rows
     \/ \E p \in Plan :
          /\ Unique(p) /\ Created(p) /\ Reopens({})
          /\ IF req[r].for = "regenerate"
             THEN Goes(r, [req[r] EXCEPT !.step = "link", !.to = p])
             ELSE Ends(r)
          /\ UNCHANGED link
  /\ UNCHANGED <<enr, priced, batch, asked, faults>>

\* The plan takes the status and each installment the one that goes with it: the
\* transaction of a pause, a resumption or a cancellation, which updates the plan
\* by id alone.
Becomes(r, status, relabelled) ==
  LET p == req[r].plan IN
  /\ At(r, "commit")
  /\ plan' = [plan EXCEPT ![p] = status]
  /\ item' = [item EXCEPT ![p] = [i \in Item |-> relabelled[item[p][i]]]]
  /\ Reopens({})
  /\ UNCHANGED <<enr, priced, link, batch, asked, faults>>

\* The index may refuse a pause or a resumption (CommitRefused).
CommitPause(r) ==
  /\ req[r].op = "pause" /\ Unique(req[r].plan)
  /\ Becomes(r, "PAUSED",
             [s \in ItemStatus |-> IF s \in {"SCHEDULED", "INVOICED"} THEN "SUSPENDED" ELSE s])
  /\ Ends(r)

CommitResume(r) ==
  /\ req[r].op = "resume" /\ Unique(req[r].plan)
  /\ Becomes(r, "ACTIVE",
             [s \in ItemStatus |-> IF s = "SUSPENDED" THEN "INVOICED" ELSE s])
  /\ Ends(r)

\* Mutant: suspended installments are forgotten.
SweptAwake == {"SCHEDULED", "INVOICED", "DUE", "OVERDUE", "PARTIAL"}

Swept == {"SCHEDULED", "INVOICED", "DUE", "OVERDUE", "PARTIAL", "SUSPENDED"}

\* The hook waives what a student who has paid in part still owes, a caller
\* may ask for it, regeneratePlan does not.
CommitCancel(r) ==
  /\ req[r].op = "cancel"
  /\ \E waive \in CASE req[r].for = "status" -> {TRUE}
                    [] req[r].for = "plan" -> BOOLEAN
                    [] req[r].for = "regenerate" -> {FALSE} :
       Becomes(r, "CANCELLED",
               [s \in ItemStatus |-> IF waive /\ s = "PARTIAL" THEN "WAIVED"
                                     ELSE IF s \in Swept THEN "CANCELLED" ELSE s])
  /\ IF req[r].for = "regenerate"
     THEN Goes(r, [req[r] EXCEPT !.step = "check", !.op = "create"])
     ELSE Ends(r)

\* The index refuses a plan that another has taken the place of.
CommitRefused(r) ==
  /\ At(r, "commit") /\ req[r].op \in {"pause", "resume"} /\ ~Unique(req[r].plan)
  /\ Ends(r)
  /\ UNCHANGED <<enr, priced, rows, batch, asked, faults>>

Link(r) ==
  /\ At(r, "link")
  /\ link' = [link EXCEPT ![req[r].plan] = req[r].to]
  /\ Ends(r)
  /\ UNCHANGED <<enr, priced, plan, item, reopened, batch, asked, faults>>

\* A statement fails or the process dies.  What a hook throws is logged and
\* swallowed; nothing that was committed is taken back.
Fails(r) ==
  /\ ~At(r, "idle") /\ faults < MaxFaults
  /\ Ends(r) /\ faults' = faults + 1
  /\ UNCHANGED <<enr, priced, rows, batch, asked>>
---------------------------------------------------------------------------
(* Beside the requests: the daily job, and money that comes and goes.      *)

Moves(p, i, to) ==
  /\ item' = [item EXCEPT ![p][i] = to]
  /\ UNCHANGED <<enr, priced, plan, link, req, batch, asked, faults>>

Steps(p, i, from, to) == item[p][i] = from /\ Moves(p, i, to) /\ Reopens({})

Bill(p, i) == \/ plan[p] = "ACTIVE" /\ Steps(p, i, "SCHEDULED", "INVOICED")
              \/ Steps(p, i, "INVOICED", "DUE")
              \/ Steps(p, i, "DUE", "OVERDUE")

Open == {"SCHEDULED", "INVOICED", "DUE", "OVERDUE", "PARTIAL"}

\* A payment, a credit, a discount or a waiver, whatever becomes of the plan.
Pay(p, i) == \E from \in Open, to \in {"PARTIAL", "PAID", "WAIVED"} : Steps(p, i, from, to)

\* A void or a refund takes money back from a row that has some, whatever became
\* of the plan: the row is open again, or REFUNDED.
Reverse(p, i) ==
  /\ item[p][i] \in {"PARTIAL", "PAID", "WAIVED"}
  /\ \E to \in {"PARTIAL", "INVOICED", "REFUNDED"} : Moves(p, i, to)
  /\ Reopens(IF item[p][i] \in Settled THEN {<<p, i>>} ELSE {})

ScanComplete ==
  LET complete == {p \in Plan : plan[p] = "ACTIVE" /\ \A i \in Item : item[p][i] \in Settled}
  IN /\ batch = {} /\ complete # {} /\ batch' = complete
     /\ UNCHANGED <<enr, priced, rows, req, asked, faults>>

Complete(p) ==
  /\ p \in batch
  /\ batch' = batch \ {p}
  /\ plan' = IF plan[p] = "ACTIVE" THEN [plan EXCEPT ![p] = "COMPLETED"] ELSE plan
  /\ UNCHANGED <<enr, priced, link, item, reopened, req, asked, faults>>
---------------------------------------------------------------------------
Init ==
  /\ enr = "ACCEPTED" /\ priced \in BOOLEAN
  /\ plan = [p \in Plan |-> "NONE"]
  /\ link = [p \in Plan |-> 0]
  /\ item = [p \in Plan |-> [i \in Item |-> "CANCELLED"]]
  /\ req = [r \in Request |-> Idle]
  /\ batch = {} /\ reopened = {}
  /\ asked = 0 /\ faults = 0

StatusNext(r) ==
  \/ \E to \in EnrollmentStatus \union {"keep"}, match \in {"none", "fresh"} :
       AskStatus(r, to, match)
  \/ WriteStatus(r) \/ Reread(r) \/ Seed(r) \/ Find(r)

PlanNext(r) ==
  \/ \E op \in {"pause", "resume", "cancel"}, p \in Plan : AskPlan(r, op, p)
  \/ AskCreate(r)
  \/ \E p \in Plan : AskRegenerate(r, p)
  \/ Check(r) \/ CommitCreate(r) \/ CommitPause(r) \/ CommitResume(r)
  \/ CommitCancel(r) \/ CommitRefused(r) \/ Link(r)

Next ==
  \/ \E r \in Request : StatusNext(r) \/ PlanNext(r) \/ Fails(r)
  \/ \E p \in Plan, i \in Item : Bill(p, i) \/ Pay(p, i) \/ Reverse(p, i)
  \/ ScanComplete
  \/ \E p \in Plan : Complete(p)

Spec == Init /\ [][Next]_vars
---------------------------------------------------------------------------
(* What is promised.                                                       *)

\* Rows are well formed; a plan in draft is seen by nobody.
TypeOK ==
  /\ enr \in EnrollmentStatus /\ priced \in BOOLEAN
  /\ plan \in [Plan -> PlanStatus \union {"NONE"}]
  /\ link \in [Plan -> Plan \union {0}]
  /\ item \in [Plan -> [Item -> ItemStatus]]
  /\ batch \subseteq Plan /\ reopened \subseteq Plan \X Item

\* An enrollment never has two plans in force, whatever requests, hooks and
\* regenerations run into each other.
OneLivePlan == Cardinality(Live) <= 1

\* The installments follow their plan although pauses, resumptions and
\* cancellations overwrite each other and the job completes plans from an old scan:
\* a row that is open under a plan that is over was reopened by a void or a refund,
\* and nothing stays suspended under a plan that is not paused.
ItemsFollowPlan ==
  \A p \in Plan, i \in Item :
    /\ plan[p] \in {"CANCELLED", "COMPLETED"} /\ item[p][i] \notin Settled
         => <<p, i>> \in reopened
    /\ item[p][i] = "SUSPENDED" => plan[p] = "PAUSED"

\* A change of status that met no other request and whose hook did not fail
\* leaves billing as the new status wants it: none for a student who withdrew,
\* a pause during leave, billing that goes on for one who returns, and a plan for
\* one who enrols, if there is a tuition to make it of.
LoneChangeSettlesBilling ==
  [][\A r \in Request :
       (/\ req[r].lone /\ req[r].for = "status" /\ ~At(r, "write")
        /\ req'[r] = Idle /\ faults' = faults /\ req[r].from # enr)
       => /\ enr \in Closed => Live' = {}
          /\ enr = "ON_LEAVE" => \A p \in Plan : plan'[p] # "ACTIVE"
          /\ <<req[r].from, enr>> = <<"ON_LEAVE", "ENROLLED">> =>
               \A p \in Plan : plan'[p] # "PAUSED"
          /\ <<req[r].from, enr>> = <<"ACCEPTED", "ENROLLED">> /\ priced => Live' # {}
    ]_vars
=============================================================================
