---------------------------- MODULE FeePlansProofs ----------------------------
(***************************************************************************)
(* FeePlans for any number of requests, plans and installments.            *)
(***************************************************************************)
EXTENDS FeePlans, FiniteSetTheorems, TLAPS

\* What a request may hold: a status to write when it is about to write one,
\* the new plan when it is about to link the old one to it.
RequestState ==
  {s \in [step : {"idle", "write", "reread", "seed", "find", "check", "commit", "link"},
          for : {"none", "status", "plan", "regenerate"},
          op : {"none", "create", "pause", "resume", "cancel"},
          plan : Plan \union {0}, from : EnrollmentStatus,
          to : EnrollmentStatus \union {"keep"} \union Plan,
          match : {"none", "fresh", "stale"}, lone : BOOLEAN] :
     /\ s.step = "write" => s.to \in EnrollmentStatus \union {"keep"}
     /\ s.step = "link" => s.to \in Plan}

RequestInv == req \in [Request -> RequestState]

\* At most one plan is in force.
LiveInv == \A p, q \in Live : p = q

\* A plan the daily job found complete has been made, and what is open on it was
\* reopened since.
BatchInv ==
  \A p \in batch :
    plan[p] # "NONE" /\ \A i \in Item : item[p][i] \in Settled \/ <<p, i>> \in reopened

IInv == TypeOK /\ RequestInv /\ LiveInv /\ BatchInv /\ ItemsFollowPlan
---------------------------------------------------------------------------
\* Moves lead from statuses to statuses.
LEMMA SuccessorsType == \A s \in EnrollmentStatus : Successors[s] \subseteq EnrollmentStatus
  BY DEF Successors, EnrollmentStatus

LEMMA IdleType == Idle \in RequestState /\ Idle.step = "idle" /\ "OFFERED" \in EnrollmentStatus
  BY DEF Idle, RequestState, EnrollmentStatus

LEMMA InitIInv == Init => IInv
<1>. SUFFICES ASSUME Init PROVE IInv
  OBVIOUS
<1>1. TypeOK
  BY DEF Init, TypeOK, EnrollmentStatus, PlanStatus, ItemStatus
<1>2. RequestInv
  BY IdleType DEF Init, RequestInv
<1>3. LiveInv /\ BatchInv /\ ItemsFollowPlan
  BY DEF Init, LiveInv, Live, In, BatchInv, ItemsFollowPlan, Settled
<1>. QED
  BY <1>1, <1>2, <1>3 DEF IInv
---------------------------------------------------------------------------
(* What the requests hold.                                                 *)

LEMMA GoesKeeps ==
  ASSUME RequestInv, NEW r \in Request, NEW s \in RequestState, Goes(r, s)
  PROVE  RequestInv'
  BY DEF RequestInv, Goes

LEMMA EndsKeeps ==
  ASSUME RequestInv, NEW r \in Request, Ends(r)
  PROVE  RequestInv'
  BY IdleType DEF RequestInv, Ends, Goes

\* Forgetting that a request is alone, or knowing it, leaves it well formed.
LEMMA LoneType ==
  ASSUME NEW t \in RequestState, NEW b \in BOOLEAN
  PROVE  [t EXCEPT !.lone = b] \in RequestState
  BY DEF RequestState

LEMMA BeginsKeeps ==
  ASSUME RequestInv, NEW r \in Request, NEW s \in RequestState, Begins(r, s)
  PROVE  RequestInv'
<1>1. \A b \in BOOLEAN : [s EXCEPT !.lone = b] \in RequestState
  BY LoneType
<1>2. \A q \in Request : [req[q] EXCEPT !.lone = FALSE] \in RequestState
  BY LoneType DEF RequestInv
<1>3. (\A o \in Request : At(o, "idle")) \in BOOLEAN
  OBVIOUS
<1>. QED
  BY <1>1, <1>2, <1>3 DEF RequestInv, Begins

LEMMA StatusNextKeepsRequests ==
  ASSUME TypeOK, RequestInv, NEW r \in Request, StatusNext(r)
  PROVE  RequestInv'
<1>1. req[r] \in RequestState
  BY DEF RequestInv
<1>2. ASSUME NEW to \in EnrollmentStatus \union {"keep"}, NEW match \in {"none", "fresh"},
             AskStatus(r, to, match)
      PROVE  RequestInv'
  <2>. DEFINE s == [Idle EXCEPT !.step = "write", !.for = "status",
                                !.from = enr, !.to = to, !.match = match]
  <2>1. s \in RequestState
    BY DEF Idle, RequestState, TypeOK
  <2>. HIDE DEF s
  <2>2. Begins(r, s)
    BY <1>2 DEF AskStatus, s
  <2>. QED
    BY <2>1, <2>2, BeginsKeeps
<1>3. ASSUME WriteStatus(r) PROVE RequestInv'
  <2>1. CASE req[r].match = "stale"
    BY <1>3, <2>1, EndsKeeps DEF WriteStatus
  <2>2. CASE req[r].match # "stale"
    <3>. DEFINE Over(q) == IF q = r THEN [req[r] EXCEPT !.step = "reread", !.to = "OFFERED",
                                                        !.match = "none"]
                           ELSE IF req[q].match = "fresh" THEN [req[q] EXCEPT !.match = "stale"]
                           ELSE req[q]
    <3>1. req' = [q \in Request |-> Over(q)]
      BY <1>3, <2>2 DEF WriteStatus
    <3>2. ASSUME NEW q \in Request PROVE Over(q) \in RequestState
      <4>1. req[q] \in RequestState
        BY DEF RequestInv
      <4>2. [req[r] EXCEPT !.step = "reread", !.to = "OFFERED", !.match = "none"] \in RequestState
        <5>1. [req[r] EXCEPT !.step = "reread"] \in RequestState
          BY <1>1 DEF RequestState
        <5>2. ASSUME NEW s \in RequestState, s.step = "reread"
              PROVE  [s EXCEPT !.to = "OFFERED", !.match = "none"] \in RequestState
          BY <5>2, IdleType DEF RequestState
        <5>3. [req[r] EXCEPT !.step = "reread"].step = "reread"
          BY <1>1 DEF RequestState
        <5>4. [req[r] EXCEPT !.step = "reread", !.to = "OFFERED", !.match = "none"]
              = [[req[r] EXCEPT !.step = "reread"] EXCEPT !.to = "OFFERED", !.match = "none"]
          BY <1>1 DEF RequestState
        <5>. QED
          BY <5>1, <5>2, <5>3, <5>4
      <4>3. [req[q] EXCEPT !.match = "stale"] \in RequestState
        BY <4>1 DEF RequestState
      <4>. QED
        BY <4>1, <4>2, <4>3
    <3>. HIDE DEF Over
    <3>. QED
      BY <3>1, <3>2 DEF RequestInv
  <2>. QED
    BY <2>1, <2>2
<1>4. ASSUME Reread(r) PROVE RequestInv'
  <2>. DEFINE hook == HookOf(req[r].from, enr)
              s == [req[r] EXCEPT !.op = hook,
                                  !.step = IF hook = "create" THEN "seed" ELSE "find"]
  <2>1. hook \in {"none", "create", "pause", "resume", "cancel"}
    BY DEF HookOf
  <2>2. s \in RequestState
    <3>1. ASSUME NEW h \in {"create", "pause", "resume", "cancel", "none"}, NEW step \in {"seed", "find"}
          PROVE  [req[r] EXCEPT !.op = h, !.step = step] \in RequestState
      <4>1. ASSUME NEW t \in RequestState PROVE [t EXCEPT !.op = h] \in RequestState
        BY DEF RequestState
      <4>2. ASSUME NEW t \in RequestState PROVE [t EXCEPT !.step = step] \in RequestState
        BY DEF RequestState
      <4>3. [req[r] EXCEPT !.op = h, !.step = step]
            = [[req[r] EXCEPT !.op = h] EXCEPT !.step = step]
        OBVIOUS
      <4>. QED
        BY <1>1, <4>1, <4>2, <4>3
    <3>. QED
      BY <2>1, <3>1
  <2>3. Ends(r) \/ Goes(r, s)
    BY <1>4 DEF Reread
  <2>. HIDE DEF s
  <2>. QED
    BY <2>2, <2>3, EndsKeeps, GoesKeeps
<1>5. ASSUME Find(r) PROVE RequestInv'
  <2>1. CASE Ends(r)
    BY <2>1, EndsKeeps
  <2>2. ASSUME NEW p \in Plan, Goes(r, [req[r] EXCEPT !.step = "check", !.plan = p])
        PROVE  RequestInv'
    <3>1. [req[r] EXCEPT !.step = "check", !.plan = p] \in RequestState
      BY <1>1 DEF RequestState
    <3>. QED
      BY <2>2, <3>1, GoesKeeps
  <2>. QED
    BY <1>5, <2>1, <2>2 DEF Find
<1>6. ASSUME Seed(r) PROVE RequestInv'
  <2>1. [req[r] EXCEPT !.step = "check"] \in RequestState
    BY <1>1 DEF RequestState
  <2>2. Ends(r) \/ Goes(r, [req[r] EXCEPT !.step = "check"])
    BY <1>6 DEF Seed
  <2>. QED
    BY <2>1, <2>2, EndsKeeps, GoesKeeps
<1>. QED
  BY <1>2, <1>3, <1>4, <1>5, <1>6 DEF StatusNext

LEMMA PlanNextKeepsRequests ==
  ASSUME RequestInv, NEW r \in Request, PlanNext(r)
  PROVE  RequestInv'
<1>1. req[r] \in RequestState
  BY DEF RequestInv
<1>2. ASSUME NEW op \in {"pause", "resume", "cancel"}, NEW p \in Plan, AskPlan(r, op, p)
      PROVE  RequestInv'
  <2>1. [Idle EXCEPT !.step = "check", !.for = "plan", !.op = op, !.plan = p] \in RequestState
    BY DEF Idle, RequestState, EnrollmentStatus
  <2>. QED
    BY <1>2, <2>1, BeginsKeeps DEF AskPlan
<1>3. ASSUME AskCreate(r) PROVE RequestInv'
  <2>1. [Idle EXCEPT !.step = "check", !.for = "plan", !.op = "create"] \in RequestState
    BY DEF Idle, RequestState, EnrollmentStatus
  <2>. QED
    BY <1>3, <2>1, BeginsKeeps DEF AskCreate
<1>4. ASSUME NEW p \in Plan, AskRegenerate(r, p) PROVE RequestInv'
  <2>1. [Idle EXCEPT !.step = "check", !.for = "regenerate", !.op = "cancel", !.plan = p]
          \in RequestState
    BY DEF Idle, RequestState, EnrollmentStatus
  <2>. QED
    BY <1>4, <2>1, BeginsKeeps DEF AskRegenerate
<1>5. ASSUME Check(r) PROVE RequestInv'
  <2>1. [req[r] EXCEPT !.step = "commit"] \in RequestState
    BY <1>1 DEF RequestState
  <2>2. Ends(r) \/ Goes(r, [req[r] EXCEPT !.step = "commit"])
    BY <1>5 DEF Check
  <2>. QED
    BY <2>1, <2>2, EndsKeeps, GoesKeeps
<1>6. ASSUME CommitCreate(r) PROVE RequestInv'
  <2>1. ASSUME NEW p \in Plan PROVE [req[r] EXCEPT !.step = "link", !.to = p] \in RequestState
    BY <1>1 DEF RequestState
  <2>2. \/ Ends(r)
        \/ \E p \in Plan : Goes(r, [req[r] EXCEPT !.step = "link", !.to = p])
    BY <1>6 DEF CommitCreate
  <2>. QED
    BY <2>1, <2>2, EndsKeeps, GoesKeeps
<1>7. ASSUME CommitCancel(r) PROVE RequestInv'
  <2>1. [req[r] EXCEPT !.step = "check", !.op = "create"] \in RequestState
    BY <1>1 DEF RequestState
  <2>2. Ends(r) \/ Goes(r, [req[r] EXCEPT !.step = "check", !.op = "create"])
    BY <1>7 DEF CommitCancel
  <2>. QED
    BY <2>1, <2>2, EndsKeeps, GoesKeeps
<1>8. ASSUME CommitPause(r) \/ CommitResume(r) \/ CommitRefused(r) \/ Link(r)
      PROVE  RequestInv'
  BY <1>8, EndsKeeps DEF CommitPause, CommitResume, CommitRefused, Link
<1>. QED
  BY <1>2, <1>3, <1>4, <1>5, <1>6, <1>7, <1>8 DEF PlanNext

LEMMA NextKeepsRequests == TypeOK /\ RequestInv /\ [Next]_vars => RequestInv'
<1>. SUFFICES ASSUME TypeOK, RequestInv, [Next]_vars PROVE RequestInv'
  OBVIOUS
<1>1. CASE \E r \in Request : StatusNext(r)
  BY <1>1, StatusNextKeepsRequests
<1>2. CASE \E r \in Request : PlanNext(r)
  BY <1>2, PlanNextKeepsRequests
<1>3. CASE \E r \in Request : Fails(r)
  BY <1>3, EndsKeeps DEF Fails
<1>4. CASE \/ UNCHANGED vars \/ ScanComplete
           \/ \E p \in Plan, i \in Item : Bill(p, i) \/ Pay(p, i) \/ Reverse(p, i)
           \/ \E p \in Plan : Complete(p)
  <2>1. req' = req
    BY <1>4 DEF vars, ScanComplete, Bill, Pay, Reverse, Steps, Moves, Complete
  <2>. QED
    BY <2>1 DEF RequestInv
<1>. QED
  BY <1>1, <1>2, <1>3, <1>4 DEF Next
---------------------------------------------------------------------------
(* What the plans and their installments are.                              *)

\* What an operation makes of an installment's status.
LEMMA RelabelType ==
  ASSUME NEW waive \in BOOLEAN, NEW s \in ItemStatus
  PROVE  /\ (IF s \in {"SCHEDULED", "INVOICED"} THEN "SUSPENDED" ELSE s) \in ItemStatus
         /\ (IF s = "SUSPENDED" THEN "INVOICED" ELSE s) \in ItemStatus
         /\ (IF waive /\ s = "PARTIAL" THEN "WAIVED"
             ELSE IF s \in Swept THEN "CANCELLED" ELSE s) \in Settled
  BY DEF ItemStatus, Swept, Settled

\* The plan of a committing request moves; every other plan stays.
LEMMA BecomesTouchesOne ==
  ASSUME TypeOK, NEW r \in Request, NEW status, NEW relabelled, Becomes(r, status, relabelled),
         NEW p \in Plan
  PROVE  /\ p = req[r].plan => plan'[p] = status
         /\ p # req[r].plan => plan'[p] = plan[p]
         /\ \A i \in Item :
              /\ p = req[r].plan => item'[p][i] = relabelled[item[p][i]]
              /\ p # req[r].plan => item'[p][i] = item[p][i]
         /\ plan' = [q \in Plan |-> plan'[q]]
         /\ item' = [q \in Plan |-> [i \in Item |-> item'[q][i]]]
         /\ UNCHANGED <<enr, link, batch>>
  BY DEF TypeOK, Becomes

\* How one plan may move in a step: it is made, it changes its status with its
\* installments, an installment is billed or paid or what was paid is taken back,
\* it is found complete.
PlanStep(p) ==
  LET was == plan[p]  is == plan'[p]
      had(i) == item[p][i]  has(i) == item'[p][i]
  IN \/ was = "NONE" /\ is = "ACTIVE" /\ \A i \in Item : has(i) = "SCHEDULED"
     \/ is = "PAUSED" /\ \A i \in Item :
          has(i) = IF had(i) \in {"SCHEDULED", "INVOICED"} THEN "SUSPENDED" ELSE had(i)
     \/ is = "ACTIVE" /\ \A i \in Item :
          has(i) = IF had(i) = "SUSPENDED" THEN "INVOICED" ELSE had(i)
     \/ is = "CANCELLED" /\ \A i \in Item :
          has(i) \in Settled /\ (had(i) \in Settled => has(i) = had(i))
     \/ is = was /\ \A i \in Item :
          \/ has(i) = had(i)
          \/ had(i) \in Open /\ has(i) \in ItemStatus \ {"SUSPENDED"}
          \/ /\ had(i) \in {"PARTIAL", "PAID", "WAIVED"}
             /\ has(i) \in {"PARTIAL", "INVOICED", "REFUNDED"}
             /\ had(i) \in Settled /\ has(i) \notin Settled => <<p, i>> \in reopened'
     \/ /\ p \in batch /\ was = "ACTIVE" /\ is = "COMPLETED"
        /\ \A i \in Item : has(i) = had(i)

\* A step that leaves the plans alone is one of those.
LEMMA StillPlan ==
  ASSUME UNCHANGED <<plan, item>>, NEW p \in Plan
  PROVE  PlanStep(p)
  BY DEF PlanStep

LEMMA CreateMoves ==
  ASSUME TypeOK, NEW r \in Request, CommitCreate(r), NEW p \in Plan
  PROVE  PlanStep(p)
<1>1. CASE UNCHANGED rows
  BY <1>1, StillPlan DEF rows
<1>2. ASSUME NEW q \in Plan, Created(q) PROVE PlanStep(p)
  <2>1. CASE p = q
    BY <1>2, <2>1 DEF Created, PlanStep, TypeOK
  <2>2. CASE p # q
    BY <1>2, <2>2 DEF Created, PlanStep, TypeOK
  <2>. QED
    BY <2>1, <2>2
<1>. QED
  BY <1>1, <1>2 DEF CommitCreate

LEMMA PauseMoves ==
  ASSUME TypeOK, NEW r \in Request, CommitPause(r), NEW p \in Plan
  PROVE  PlanStep(p)
<1>. DEFINE L == [s \in ItemStatus |-> IF s \in {"SCHEDULED", "INVOICED"} THEN "SUSPENDED" ELSE s]
<1>1. Becomes(r, "PAUSED", L)
  BY DEF CommitPause
<1>. HIDE DEF L
<1>2. \A i \in Item : item[p][i] \in ItemStatus
  BY DEF TypeOK
<1>3. CASE p = req[r].plan
  <2>1. plan'[p] = "PAUSED" /\ \A i \in Item : item'[p][i] = L[item[p][i]]
    BY <1>1, <1>3, BecomesTouchesOne
  <2>. QED
    BY <1>2, <2>1 DEF PlanStep, L
<1>4. CASE p # req[r].plan
  <2>1. plan'[p] = plan[p] /\ \A i \in Item : item'[p][i] = item[p][i]
    BY <1>1, <1>4, BecomesTouchesOne
  <2>. QED
    BY <2>1 DEF PlanStep
<1>. QED
  BY <1>3, <1>4

LEMMA ResumeMoves ==
  ASSUME TypeOK, NEW r \in Request, CommitResume(r), NEW p \in Plan
  PROVE  PlanStep(p)
<1>. DEFINE L == [s \in ItemStatus |-> IF s = "SUSPENDED" THEN "INVOICED" ELSE s]
<1>1. Becomes(r, "ACTIVE", L)
  BY DEF CommitResume
<1>. HIDE DEF L
<1>2. \A i \in Item : item[p][i] \in ItemStatus
  BY DEF TypeOK
<1>3. CASE p = req[r].plan
  <2>1. plan'[p] = "ACTIVE" /\ \A i \in Item : item'[p][i] = L[item[p][i]]
    BY <1>1, <1>3, BecomesTouchesOne
  <2>. QED
    BY <1>2, <2>1 DEF PlanStep, L
<1>4. CASE p # req[r].plan
  <2>1. plan'[p] = plan[p] /\ \A i \in Item : item'[p][i] = item[p][i]
    BY <1>1, <1>4, BecomesTouchesOne
  <2>. QED
    BY <2>1 DEF PlanStep
<1>. QED
  BY <1>3, <1>4

LEMMA CancelMoves ==
  ASSUME TypeOK, NEW r \in Request, CommitCancel(r), NEW p \in Plan
  PROVE  PlanStep(p)
<1>. DEFINE L(waive) == [s \in ItemStatus |-> IF waive /\ s = "PARTIAL" THEN "WAIVED"
                                             ELSE IF s \in Swept THEN "CANCELLED" ELSE s]
<1>1. PICK waive \in BOOLEAN : Becomes(r, "CANCELLED", L(waive))
  BY DEF CommitCancel
<1>. HIDE DEF L
<1>2. \A i \in Item : item[p][i] \in ItemStatus
  BY DEF TypeOK
<1>3. CASE p = req[r].plan
  <2>1. plan'[p] = "CANCELLED" /\ \A i \in Item : item'[p][i] = L(waive)[item[p][i]]
    BY <1>1, <1>3, BecomesTouchesOne
  <2>2. \A i \in Item : item'[p][i] \in Settled
    BY <1>2, <2>1, RelabelType DEF L
  <2>3. \A i \in Item : item[p][i] \in Settled => item'[p][i] = item[p][i]
    BY <1>2, <2>1 DEF Settled, Swept, L
  <2>. QED
    BY <2>1, <2>2, <2>3 DEF PlanStep
<1>4. CASE p # req[r].plan
  <2>1. plan'[p] = plan[p] /\ \A i \in Item : item'[p][i] = item[p][i]
    BY <1>1, <1>4, BecomesTouchesOne
  <2>. QED
    BY <2>1 DEF PlanStep
<1>. QED
  BY <1>3, <1>4

\* What the daily job and payments do.
LEMMA OthersMove ==
  ASSUME TypeOK, NEW p \in Plan,
         \/ \E q \in Plan, i \in Item : Bill(q, i) \/ Pay(q, i) \/ Reverse(q, i)
         \/ \E q \in Plan : Complete(q)
  PROVE  PlanStep(p)
<1>1. ASSUME NEW q \in Plan, NEW i \in Item, Bill(q, i) \/ Pay(q, i)
      PROVE  PlanStep(p)
  <2>1. PICK from, to : /\ Steps(q, i, from, to)
                        /\ from \in Open /\ to \in ItemStatus \ {"SUSPENDED"}
    <3>1. ASSUME Bill(q, i)
          PROVE  \E from \in Open, to \in ItemStatus \ {"SUSPENDED"} : Steps(q, i, from, to)
      BY <3>1 DEF Bill, Open, ItemStatus
    <3>2. ASSUME Pay(q, i)
          PROVE  \E from \in Open, to \in ItemStatus \ {"SUSPENDED"} : Steps(q, i, from, to)
      BY <3>2 DEF Pay, Open, ItemStatus
    <3>. QED
      BY <1>1, <3>1, <3>2
  <2>2. plan'[p] = plan[p]
    BY <2>1 DEF Steps, Moves
  <2>3. item[q][i] = from /\ item' = [item EXCEPT ![q][i] = to]
    BY <2>1 DEF Steps, Moves
  <2>4. \A j \in Item : \/ item'[p][j] = item[p][j]
                        \/ item[p][j] = from /\ item'[p][j] = to
    BY <2>3 DEF TypeOK
  <2>. QED
    BY <2>1, <2>2, <2>4 DEF PlanStep
<1>3. ASSUME NEW q \in Plan, NEW i \in Item, Reverse(q, i)
      PROVE  PlanStep(p)
  <2>1. PICK to \in {"PARTIAL", "INVOICED", "REFUNDED"} : Moves(q, i, to)
    BY <1>3 DEF Reverse
  <2>2. plan'[p] = plan[p] /\ item' = [item EXCEPT ![q][i] = to]
    BY <2>1 DEF Moves
  <2>3. \A j \in Item : \/ item'[p][j] = item[p][j]
                        \/ p = q /\ j = i /\ item'[p][j] = to
    BY <2>2 DEF TypeOK
  <2>4. item[q][i] \in Settled /\ item'[q][i] \notin Settled => <<q, i>> \in reopened'
    BY <1>3 DEF Reverse, Reopens
  <2>5. item[q][i] \in {"PARTIAL", "PAID", "WAIVED"}
    BY <1>3 DEF Reverse
  <2>. QED
    BY <2>1, <2>2, <2>3, <2>4, <2>5 DEF PlanStep
<1>2. ASSUME NEW q \in Plan, Complete(q) PROVE PlanStep(p)
  BY <1>2 DEF Complete, PlanStep, TypeOK
<1>. QED
  BY <1>1, <1>2, <1>3

LEMMA EveryPlanSteps ==
  ASSUME TypeOK, [Next]_vars, NEW p \in Plan
  PROVE  PlanStep(p)
<1>1. CASE \E r \in Request : PlanNext(r)
  <2>1. PICK r \in Request : PlanNext(r)
    BY <1>1
  <2>2. CASE CommitCreate(r)
    BY <2>2, CreateMoves
  <2>3. CASE CommitPause(r) \/ CommitResume(r) \/ CommitCancel(r)
    BY <2>3, PauseMoves, ResumeMoves, CancelMoves
  <2>4. CASE \/ \E op \in {"pause", "resume", "cancel"}, q \in Plan : AskPlan(r, op, q)
             \/ AskCreate(r) \/ \E q \in Plan : AskRegenerate(r, q)
             \/ Check(r) \/ CommitRefused(r) \/ Link(r)
    BY <2>4, StillPlan DEF AskPlan, AskCreate, AskRegenerate, Begins, Check, CommitRefused, Link, rows
  <2>. QED
    BY <2>1, <2>2, <2>3, <2>4 DEF PlanNext
<1>2. CASE \E r \in Request : StatusNext(r) \/ Fails(r)
  BY <1>2, StillPlan DEF StatusNext, AskStatus, Begins, WriteStatus, Reread, Seed, Find, Fails, rows
<1>3. CASE UNCHANGED vars \/ ScanComplete
  BY <1>3, StillPlan DEF vars, rows, ScanComplete
<1>4. CASE \/ \E q \in Plan, i \in Item : Bill(q, i) \/ Pay(q, i) \/ Reverse(q, i)
           \/ \E q \in Plan : Complete(q)
  BY <1>4, OthersMove
<1>. QED
  BY <1>1, <1>2, <1>3, <1>4 DEF Next
---------------------------------------------------------------------------
(* The invariant.                                                          *)

RowsStay == /\ plan' = [p \in Plan |-> plan'[p]]
            /\ item' = [p \in Plan |-> [i \in Item |-> item'[p][i]]]

LEMMA EachRowStays ==
  ASSUME TypeOK, NEW q, NEW status, NEW new, plan' = [plan EXCEPT ![q] = status],
         \/ item' = item \/ item' = [item EXCEPT ![q] = [i \in Item |-> new[i]]]
         \/ \E j, s : item' = [item EXCEPT ![q][j] = s]
  PROVE  RowsStay
<1>1. plan' = [p \in Plan |-> plan'[p]] /\ item' = [p \in Plan |-> item'[p]]
  BY DEF TypeOK
<1>2. ASSUME NEW p \in Plan PROVE item'[p] = [i \in Item |-> item'[p][i]]
  <2>1. item[p] = [i \in Item |-> item[p][i]]
    BY DEF TypeOK
  <2>2. CASE item' = item
    BY <2>1, <2>2
  <2>3. CASE item' = [item EXCEPT ![q] = [i \in Item |-> new[i]]]
    <3>1. item'[p] = IF p = q THEN [i \in Item |-> new[i]] ELSE item[p]
      BY <2>3 DEF TypeOK
    <3>. QED
      BY <2>1, <3>1
  <2>4. ASSUME NEW j, NEW s, item' = [item EXCEPT ![q][j] = s]
        PROVE  item'[p] = [i \in Item |-> item'[p][i]]
    <3>1. item'[p] = IF p = q THEN [item[p] EXCEPT ![j] = s] ELSE item[p]
      BY <2>4 DEF TypeOK
    <3>. QED
      BY <2>1, <3>1
  <2>. QED
    BY <2>2, <2>3, <2>4
<1>. QED
  BY <1>1, <1>2 DEF RowsStay

LEMMA FunctionsStay ==
  ASSUME TypeOK, [Next]_vars
  PROVE  RowsStay
<1>1. CASE UNCHANGED <<plan, item>>
  BY <1>1 DEF TypeOK, RowsStay
<1>2. ASSUME NEW r \in Request, CommitCreate(r) PROVE RowsStay
  <2>1. ASSUME NEW p \in Plan, Created(p) PROVE RowsStay
    <3>. DEFINE new == [j \in Item |-> "SCHEDULED"]
    <3>1. new = [i \in Item |-> new[i]]
      OBVIOUS
    <3>2. plan' = [plan EXCEPT ![p] = "ACTIVE"] /\ item' = [item EXCEPT ![p] = new]
      BY <2>1 DEF Created
    <3>. HIDE DEF new
    <3>. QED
      BY <3>1, <3>2, EachRowStays
  <2>. QED
    BY <1>2, <2>1, <1>1 DEF CommitCreate, rows
<1>3. ASSUME NEW r \in Request, NEW status, NEW relabelled, Becomes(r, status, relabelled)
      PROVE  RowsStay
  <2>. DEFINE new == [i \in Item |-> relabelled[item[req[r].plan][i]]]
  <2>1. new = [i \in Item |-> new[i]]
    OBVIOUS
  <2>2. /\ plan' = [plan EXCEPT ![req[r].plan] = status]
        /\ item' = [item EXCEPT ![req[r].plan] = new]
    BY <1>3 DEF Becomes
  <2>. HIDE DEF new
  <2>. QED
    BY <2>1, <2>2, EachRowStays
<1>4. ASSUME NEW p \in Plan, NEW i \in Item, Bill(p, i) \/ Pay(p, i) \/ Reverse(p, i) PROVE RowsStay
  <2>1. PICK to : Moves(p, i, to)
    BY <1>4 DEF Bill, Pay, Reverse, Steps
  <2>2. plan' = [plan EXCEPT ![p] = plan[p]] /\ item' = [item EXCEPT ![p][i] = to]
    BY <2>1 DEF Moves, TypeOK
  <2>. QED
    BY <2>2, EachRowStays
<1>5. ASSUME NEW p \in Plan, Complete(p) PROVE RowsStay
  BY <1>1, <1>5, EachRowStays DEF Complete
<1>6. \/ UNCHANGED <<plan, item>>
      \/ \E r \in Request : \/ CommitCreate(r)
                            \/ \E status, relabelled : Becomes(r, status, relabelled)
      \/ \E p \in Plan, i \in Item : Bill(p, i) \/ Pay(p, i) \/ Reverse(p, i)
      \/ \E p \in Plan : Complete(p)
  <2>1. \/ UNCHANGED <<plan, item>>
        \/ \E r \in Request : \/ CommitCreate(r) \/ CommitPause(r)
                              \/ CommitResume(r) \/ CommitCancel(r)
        \/ \E p \in Plan, i \in Item : Bill(p, i) \/ Pay(p, i) \/ Reverse(p, i)
        \/ \E p \in Plan : Complete(p)
    BY DEF Next, vars, rows, StatusNext, AskStatus, Begins, WriteStatus, Reread, Seed, Find,
           PlanNext, AskPlan, AskCreate, AskRegenerate, Check, CommitRefused, Link, Fails,
           ScanComplete
  <2>2. ASSUME NEW r \in Request, CommitPause(r) \/ CommitResume(r) \/ CommitCancel(r)
        PROVE  \E status, relabelled : Becomes(r, status, relabelled)
    BY <2>2, Zenon DEF CommitPause, CommitResume, CommitCancel
  <2>. QED
    BY <2>1, <2>2
<1>. QED
  BY <1>1, <1>2, <1>3, <1>4, <1>5, <1>6

\* What a step of a request does to the enrollment, the links and the job's batch.
LEMMA RequestSteps ==
  ASSUME NEW r \in Request, StatusNext(r) \/ PlanNext(r) \/ Fails(r)
  PROVE  /\ batch' = batch
         /\ enr' = enr \/ WriteStatus(r)
         /\ link' = link \/ Link(r)
<1>. DEFINE Goal == /\ batch' = batch
                    /\ enr' = enr \/ WriteStatus(r)
                    /\ link' = link \/ Link(r)
<1>1. CASE StatusNext(r)
  BY <1>1 DEF StatusNext, AskStatus, Begins, WriteStatus, Reread, Seed, Find, rows
<1>2. CASE CommitPause(r) \/ CommitResume(r) \/ CommitCancel(r)
  <2>1. \E status, relabelled : Becomes(r, status, relabelled)
    BY <1>2, Zenon DEF CommitPause, CommitResume, CommitCancel
  <2>. QED
    BY <2>1 DEF Becomes
<1>3. CASE CommitCreate(r) \/ CommitRefused(r) \/ Link(r) \/ Check(r) \/ Fails(r)
  BY <1>3 DEF CommitCreate, CommitRefused, Link, Check, Fails, rows
<1>4. ASSUME NEW s, Begins(r, s) PROVE Goal
  BY <1>4 DEF Begins, rows
<1>5. CASE \/ \E op \in {"pause", "resume", "cancel"}, p \in Plan : AskPlan(r, op, p)
           \/ AskCreate(r)
           \/ \E p \in Plan : AskRegenerate(r, p)
  <2>1. \E s : Begins(r, s)
    BY <1>5, Zenon DEF AskPlan, AskCreate, AskRegenerate
  <2>. QED
    BY <1>4, <2>1
<1>6. PlanNext(r) => \/ \E op \in {"pause", "resume", "cancel"}, p \in Plan : AskPlan(r, op, p)
                     \/ AskCreate(r)
                     \/ \E p \in Plan : AskRegenerate(r, p)
                     \/ CommitPause(r) \/ CommitResume(r) \/ CommitCancel(r)
                     \/ CommitCreate(r) \/ CommitRefused(r) \/ Link(r) \/ Check(r)
  BY DEF PlanNext
<1>. QED
  BY <1>1, <1>2, <1>3, <1>5, <1>6

\* Only a written status changes the enrollment, only a link the links, and only
\* the scan puts plans into the batch.
LEMMA OtherVariables ==
  ASSUME [Next]_vars
  PROVE  /\ batch' \subseteq batch \/ ScanComplete
         /\ enr' = enr \/ \E r \in Request : WriteStatus(r)
         /\ link' = link \/ \E r \in Request : Link(r)
<1>1. ASSUME NEW p \in Plan, NEW i \in Item, Bill(p, i) \/ Pay(p, i) \/ Reverse(p, i)
      PROVE  UNCHANGED <<batch, enr, link>>
  BY <1>1 DEF Bill, Pay, Reverse, Steps, Moves
<1>2. ASSUME NEW p \in Plan, Complete(p)
      PROVE  batch' \subseteq batch /\ UNCHANGED <<enr, link>>
  BY <1>2 DEF Complete
<1>3. ScanComplete => UNCHANGED <<enr, link>>
  BY DEF ScanComplete, rows
<1>. QED
  BY <1>1, <1>2, <1>3, RequestSteps DEF Next, vars, rows

\* The enrollment takes a status that was permitted, a link points to a plan.
LEMMA EnrollmentAndLinkType ==
  ASSUME TypeOK, RequestInv, [Next]_vars
  PROVE  /\ enr' \in EnrollmentStatus
         /\ link' \in [Plan -> Plan \union {0}]
         /\ batch' \subseteq Plan
<1>1. ASSUME NEW r \in Request, WriteStatus(r) PROVE enr' \in EnrollmentStatus
  <2>1. At(r, "write") => req[r].to \in EnrollmentStatus \union {"keep"}
    BY DEF RequestInv, RequestState, At
  <2>. QED
    BY <1>1, <2>1 DEF WriteStatus, TypeOK
<1>2. ASSUME NEW r \in Request, Link(r) PROVE link' \in [Plan -> Plan \union {0}]
  <2>1. At(r, "link") => req[r].to \in Plan
    BY DEF RequestInv, RequestState, At
  <2>. QED
    BY <1>2, <2>1 DEF Link, TypeOK
<1>3. \/ enr' = enr
      \/ \E r \in Request : WriteStatus(r)
  BY OtherVariables
<1>4. \/ link' = link
      \/ \E r \in Request : Link(r)
  BY OtherVariables
<1>5. batch' \subseteq batch \/ ScanComplete
  BY OtherVariables
<1>. QED
  BY <1>1, <1>2, <1>3, <1>4, <1>5 DEF TypeOK, ScanComplete

\* A plan comes into force only where the index finds no other.
LEMMA NextKeepsLive ==
  ASSUME TypeOK, LiveInv, [Next]_vars
  PROVE  LiveInv'
<1>1. ASSUME NEW q \in Plan, Unique(q), \A p \in Plan : p # q => plan'[p] = plan[p]
      PROVE  LiveInv'
  BY <1>1 DEF LiveInv, Live, In, Unique
<1>2. ASSUME Live' \subseteq Live PROVE LiveInv'
  BY <1>2 DEF LiveInv
<1>3. ASSUME NEW r \in Request, CommitCreate(r) PROVE LiveInv'
  <2>1. CASE UNCHANGED rows
    BY <2>1, <1>2 DEF rows, Live, In
  <2>2. ASSUME NEW q \in Plan, Unique(q), Created(q) PROVE LiveInv'
    <3>1. \A p \in Plan : p # q => plan'[p] = plan[p]
      BY <2>2 DEF Created, TypeOK
    <3>. QED
      BY <2>2, <3>1, <1>1
  <2>. QED
    BY <1>3, <2>1, <2>2 DEF CommitCreate
<1>4. ASSUME NEW r \in Request, CommitPause(r) \/ CommitResume(r) PROVE LiveInv'
  <2>1. Unique(req[r].plan) /\ plan' = [plan EXCEPT ![req[r].plan] = plan'[req[r].plan]]
    BY <1>4 DEF CommitPause, CommitResume, Becomes, TypeOK
  <2>2. \A p \in Plan : p # req[r].plan => plan'[p] = plan[p]
    BY <2>1 DEF TypeOK
  <2>. QED
    BY <2>1, <2>2 DEF LiveInv, Live, In, Unique
<1>5. ASSUME NEW r \in Request, CommitCancel(r) PROVE LiveInv'
  <2>1. plan' = [plan EXCEPT ![req[r].plan] = "CANCELLED"]
    BY <1>5 DEF CommitCancel, Becomes
  <2>2. Live' \subseteq Live
    BY <2>1 DEF Live, In, TypeOK
  <2>. QED
    BY <2>2, <1>2
<1>6. ASSUME NEW q \in Plan, Complete(q) PROVE LiveInv'
  <2>1. Live' \subseteq Live
    BY <1>6 DEF Complete, Live, In, TypeOK
  <2>. QED
    BY <2>1, <1>2
<1>7. CASE UNCHANGED plan
  BY <1>7, <1>2 DEF Live, In
<1>8. \/ UNCHANGED plan
      \/ \E q \in Plan : Complete(q)
      \/ \E r \in Request : CommitCreate(r) \/ CommitPause(r) \/ CommitResume(r) \/ CommitCancel(r)
  BY DEF Next, vars, rows, StatusNext, AskStatus, Begins, WriteStatus, Reread, Seed, Find,
         PlanNext, AskPlan, AskCreate, AskRegenerate, Check, CommitRefused, Link, Fails,
         ScanComplete, Bill, Pay, Reverse, Steps, Moves
<1>. QED
  BY <1>3, <1>4, <1>5, <1>6, <1>7, <1>8

\* A row that was reopened stays marked until it is settled again.
LEMMA ReopenedMoves ==
  ASSUME [Next]_vars
  PROVE  \/ UNCHANGED reopened
         \/ \E out \in SUBSET (Plan \X Item) : Reopens(out)
<1>1. ASSUME NEW r \in Request, CommitPause(r) \/ CommitResume(r) \/ CommitCancel(r)
      PROVE  Reopens({})
  <2>1. \E status, relabelled : Becomes(r, status, relabelled)
    BY <1>1, Zenon DEF CommitPause, CommitResume, CommitCancel
  <2>. QED
    BY <2>1 DEF Becomes
<1>2. ASSUME NEW r \in Request, CommitCreate(r) PROVE UNCHANGED reopened \/ Reopens({})
  BY <1>2 DEF CommitCreate, rows
<1>3. ASSUME NEW p \in Plan, NEW i \in Item, Bill(p, i) \/ Pay(p, i) PROVE Reopens({})
  BY <1>3, Zenon DEF Bill, Pay, Steps
<1>4. ASSUME NEW p \in Plan, NEW i \in Item, Reverse(p, i)
      PROVE  \E out \in SUBSET (Plan \X Item) : Reopens(out)
  <2>1. Reopens({<<p, i>>}) \/ Reopens({})
    BY <1>4 DEF Reverse
  <2>2. {<<p, i>>} \in SUBSET (Plan \X Item) /\ {} \in SUBSET (Plan \X Item)
    OBVIOUS
  <2>. QED
    BY <2>1, <2>2
<1>5. \/ UNCHANGED reopened
      \/ \E r \in Request : \/ CommitCreate(r) \/ CommitPause(r)
                            \/ CommitResume(r) \/ CommitCancel(r)
      \/ \E p \in Plan, i \in Item : Bill(p, i) \/ Pay(p, i) \/ Reverse(p, i)
  BY DEF Next, vars, rows, StatusNext, AskStatus, Begins, WriteStatus, Reread, Seed, Find,
         PlanNext, AskPlan, AskCreate, AskRegenerate, Check, CommitRefused, Link, Fails,
         ScanComplete, Complete
<1>6. {} \in SUBSET (Plan \X Item)
  OBVIOUS
<1>. QED
  BY <1>1, <1>2, <1>3, <1>4, <1>5, <1>6

LEMMA ReopenedStays ==
  ASSUME TypeOK, [Next]_vars
  PROVE  /\ reopened' \subseteq Plan \X Item
         /\ \A p \in Plan, i \in Item :
              <<p, i>> \in reopened /\ item'[p][i] \notin Settled => <<p, i>> \in reopened'
<1>1. ASSUME NEW out \in SUBSET (Plan \X Item), Reopens(out)
      PROVE  /\ reopened' \subseteq Plan \X Item
             /\ \A p \in Plan, i \in Item :
                  <<p, i>> \in reopened /\ item'[p][i] \notin Settled => <<p, i>> \in reopened'
  BY <1>1 DEF Reopens, TypeOK
<1>2. CASE UNCHANGED reopened
  BY <1>2 DEF TypeOK
<1>. QED
  BY <1>1, <1>2, ReopenedMoves

LEMMA PricedType ==
  ASSUME TypeOK, [Next]_vars
  PROVE  priced' \in BOOLEAN
<1>1. ASSUME NEW r \in Request, CommitPause(r) \/ CommitResume(r) \/ CommitCancel(r)
      PROVE  priced' = priced
  <2>1. \E status, relabelled : Becomes(r, status, relabelled)
    BY <1>1, Zenon DEF CommitPause, CommitResume, CommitCancel
  <2>. QED
    BY <2>1 DEF Becomes
<1>. QED
  BY <1>1 DEF TypeOK, Next, vars, rows, StatusNext, AskStatus, Begins, WriteStatus, Reread, Seed,
         Find, PlanNext, AskPlan, AskCreate, AskRegenerate, Check, CommitCreate, CommitRefused,
         Link, Fails, ScanComplete, Complete, Bill, Pay, Reverse, Steps, Moves

LEMMA NextKeepsType ==
  ASSUME TypeOK, RequestInv, [Next]_vars
  PROVE  TypeOK'
<1>1. ASSUME NEW p \in Plan
      PROVE  /\ plan'[p] \in PlanStatus \union {"NONE"}
             /\ \A i \in Item : item'[p][i] \in ItemStatus
  <2>1. plan[p] \in PlanStatus \union {"NONE"} /\ \A i \in Item : item[p][i] \in ItemStatus
    BY DEF TypeOK
  <2>2. PlanStep(p)
    BY EveryPlanSteps
  <2>. QED
    BY <2>1, <2>2 DEF PlanStep, PlanStatus, ItemStatus, Settled
<1>2. plan' \in [Plan -> PlanStatus \union {"NONE"}]
  BY <1>1, FunctionsStay DEF RowsStay
<1>3. item' \in [Plan -> [Item -> ItemStatus]]
  BY <1>1, FunctionsStay DEF RowsStay
<1>. QED
  BY <1>2, <1>3, EnrollmentAndLinkType, ReopenedStays, PricedType DEF TypeOK

\* What was found complete stays settled, or was reopened.
LEMMA NextKeepsBatch ==
  ASSUME TypeOK, BatchInv, [Next]_vars
  PROVE  BatchInv'
<1>1. ASSUME NEW p \in Plan, plan[p] # "NONE",
             \A i \in Item : item[p][i] \in Settled \/ <<p, i>> \in reopened
      PROVE  /\ plan'[p] # "NONE"
             /\ \A i \in Item : item'[p][i] \in Settled \/ <<p, i>> \in reopened'
  <2>1. PlanStep(p)
    BY EveryPlanSteps
  <2>2. \A i \in Item : <<p, i>> \in reopened /\ item'[p][i] \notin Settled => <<p, i>> \in reopened'
    BY ReopenedStays
  <2>3. ASSUME NEW i \in Item, item[p][i] \in Settled, item'[p][i] \notin Settled
        PROVE  <<p, i>> \in reopened'
    BY <1>1, <2>1, <2>3 DEF PlanStep, Settled, Open
  <2>4. plan'[p] # "NONE"
    BY <1>1, <2>1 DEF PlanStep
  <2>. QED
    BY <1>1, <2>2, <2>3, <2>4
<1>2. CASE ScanComplete
  BY <1>2 DEF ScanComplete, BatchInv, rows
<1>3. CASE batch' \subseteq batch
  BY <1>1, <1>3 DEF BatchInv, TypeOK
<1>4. batch' \subseteq batch \/ ScanComplete
  BY OtherVariables
<1>. QED
  BY <1>2, <1>3, <1>4

LEMMA NextKeepsItems ==
  ASSUME TypeOK, BatchInv, ItemsFollowPlan, [Next]_vars
  PROVE  ItemsFollowPlan'
<1>. SUFFICES ASSUME NEW p \in Plan, NEW i \in Item
     PROVE  /\ plan'[p] \in {"CANCELLED", "COMPLETED"} /\ item'[p][i] \notin Settled
                 => <<p, i>> \in reopened'
            /\ item'[p][i] = "SUSPENDED" => plan'[p] = "PAUSED"
  BY DEF ItemsFollowPlan
<1>1. PlanStep(p)
  BY EveryPlanSteps
<1>2. /\ plan[p] \in {"CANCELLED", "COMPLETED"} /\ item[p][i] \notin Settled
           => <<p, i>> \in reopened
      /\ item[p][i] = "SUSPENDED" => plan[p] = "PAUSED"
  BY DEF ItemsFollowPlan
<1>3. p \in batch => item[p][i] \in Settled \/ <<p, i>> \in reopened
  BY DEF BatchInv
<1>4. <<p, i>> \in reopened /\ item'[p][i] \notin Settled => <<p, i>> \in reopened'
  BY ReopenedStays
<1>5. plan'[p] \in {"CANCELLED", "COMPLETED"} /\ item'[p][i] \notin Settled
        => <<p, i>> \in reopened'
  <2>1. item[p][i] \in Open => item[p][i] \notin Settled
    BY DEF Open, Settled
  <2>. QED
    BY <1>1, <1>2, <1>3, <1>4, <2>1 DEF PlanStep
<1>6. item'[p][i] = "SUSPENDED" => plan'[p] = "PAUSED"
  BY <1>1, <1>2 DEF PlanStep, Settled
<1>. QED
  BY <1>5, <1>6
---------------------------------------------------------------------------
(* A change of status that meets nobody.                                   *)

\* What its hook knows: it does what the change asks for, and the plan it goes
\* for is the only one that may be in force.
HookSound(r) ==
  /\ ~At(r, "link")
  /\ req[r].step \in {"seed", "find", "check", "commit"} =>
       req[r].op = HookOf(req[r].from, enr) /\ req[r].op # "none"
  /\ At(r, "seed") => req[r].op = "create"
  /\ At(r, "find") => req[r].op # "create"
  /\ req[r].step \in {"check", "commit"} /\ req[r].op # "create" => Live \subseteq {req[r].plan}

LoneInv ==
  \A r \in Request : req[r].lone =>
    /\ ~At(r, "idle") /\ \A q \in Request \ {r} : At(q, "idle")
    /\ req[r].for = "status" => HookSound(r)

\* A request that goes on, or dies.
GoesOn(r) ==
  \/ WriteStatus(r) \/ Reread(r) \/ Seed(r) \/ Find(r) \/ Check(r)
  \/ CommitCreate(r) \/ CommitPause(r) \/ CommitResume(r) \/ CommitCancel(r)
  \/ CommitRefused(r) \/ Link(r) \/ Fails(r)

\* What a request asks first.
Asks(r) == \E s \in RequestState : /\ s.step # "idle" /\ (s.for = "status" => s.step = "write")
                                  /\ Begins(r, s)

\* A request stands at some step before it goes on.
LEMMA GoesOnIsUnderWay ==
  ASSUME NEW r \in Request, GoesOn(r)
  PROVE  ~At(r, "idle")
<1>1. CASE CommitPause(r) \/ CommitResume(r) \/ CommitCancel(r)
  <2>1. \E status, relabelled : Becomes(r, status, relabelled)
    BY <1>1, Zenon DEF CommitPause, CommitResume, CommitCancel
  <2>. QED
    BY <2>1 DEF Becomes, At
<1>. QED
  BY <1>1 DEF GoesOn, WriteStatus, Reread, Seed, Find, Check, CommitCreate, CommitRefused, Link,
              Fails, At

\* It leaves the steps of others alone: at most it outdates what they have read.
LEMMA GoesOnAlone ==
  ASSUME RequestInv, NEW r \in Request, GoesOn(r), NEW q \in Request, q # r
  PROVE  req'[q].step = req[q].step /\ req'[q].lone = req[q].lone
<1>1. req[q] \in RequestState
  BY DEF RequestInv
<1>2. ASSUME NEW s, Goes(r, s) PROVE req'[q] = req[q]
  BY <1>2 DEF Goes, RequestInv
<1>3. Ends(r) => req'[q] = req[q]
  BY <1>2 DEF Ends
<1>4. ASSUME WriteStatus(r), ~Ends(r)
      PROVE  req'[q] = req[q] \/ req'[q] = [req[q] EXCEPT !.match = "stale"]
  BY <1>4 DEF WriteStatus
<1>5. \/ WriteStatus(r) /\ ~Ends(r)
      \/ Ends(r) \/ \E s : Goes(r, s)
  BY Zenon DEF GoesOn, WriteStatus, Reread, Seed, Find, Check, CommitCreate, CommitPause,
               CommitResume, CommitCancel, CommitRefused, Link, Fails
<1>6. req'[q] = req[q] \/ req'[q] = [req[q] EXCEPT !.match = "stale"]
  BY <1>2, <1>3, <1>4, <1>5
<1>. QED
  BY <1>1, <1>6 DEF RequestState

\* A step is a request that begins, one that goes on, or one beside the requests,
\* which brings no plan into force.
LEMMA StepsOfRequests ==
  ASSUME TypeOK, [Next]_vars
  PROVE  \/ \E r \in Request : Asks(r)
         \/ \E r \in Request : GoesOn(r)
         \/ req' = req /\ enr' = enr /\ Live' \subseteq Live
<1>1. ASSUME NEW r \in Request, NEW to \in EnrollmentStatus \union {"keep"},
             NEW match \in {"none", "fresh"}, AskStatus(r, to, match)
      PROVE  Asks(r)
  <2>. DEFINE s == [Idle EXCEPT !.step = "write", !.for = "status",
                                !.from = enr, !.to = to, !.match = match]
  <2>1. s \in RequestState /\ s.step = "write" /\ s.for = "status"
    BY DEF Idle, RequestState, TypeOK
  <2>. HIDE DEF s
  <2>2. Begins(r, s)
    BY <1>1 DEF AskStatus, s
  <2>. QED
    BY <2>1, <2>2 DEF Asks
<1>2. ASSUME NEW r \in Request, NEW op \in {"pause", "resume", "cancel"}, NEW p \in Plan,
             AskPlan(r, op, p)
      PROVE  Asks(r)
  <2>. DEFINE s == [Idle EXCEPT !.step = "check", !.for = "plan", !.op = op, !.plan = p]
  <2>1. s \in RequestState /\ s.step = "check" /\ s.for = "plan"
    BY DEF Idle, RequestState, EnrollmentStatus
  <2>. HIDE DEF s
  <2>2. Begins(r, s)
    BY <1>2 DEF AskPlan, s
  <2>. QED
    BY <2>1, <2>2 DEF Asks
<1>3. ASSUME NEW r \in Request, AskCreate(r) PROVE Asks(r)
  <2>. DEFINE s == [Idle EXCEPT !.step = "check", !.for = "plan", !.op = "create"]
  <2>1. s \in RequestState /\ s.step = "check" /\ s.for = "plan"
    BY DEF Idle, RequestState, EnrollmentStatus
  <2>. HIDE DEF s
  <2>2. Begins(r, s)
    BY <1>3 DEF AskCreate, s
  <2>. QED
    BY <2>1, <2>2 DEF Asks
<1>4. ASSUME NEW r \in Request, NEW p \in Plan, AskRegenerate(r, p) PROVE Asks(r)
  <2>. DEFINE s == [Idle EXCEPT !.step = "check", !.for = "regenerate",
                                !.op = "cancel", !.plan = p]
  <2>1. s \in RequestState /\ s.step = "check" /\ s.for = "regenerate"
    BY DEF Idle, RequestState, EnrollmentStatus
  <2>. HIDE DEF s
  <2>2. Begins(r, s)
    BY <1>4 DEF AskRegenerate, s
  <2>. QED
    BY <2>1, <2>2 DEF Asks
<1>5. ASSUME NEW p \in Plan, Complete(p)
      PROVE  req' = req /\ enr' = enr /\ Live' \subseteq Live
  BY <1>5 DEF Complete, Live, In, TypeOK
<1>6. ASSUME \/ UNCHANGED vars \/ ScanComplete
             \/ \E p \in Plan, i \in Item : Bill(p, i) \/ Pay(p, i) \/ Reverse(p, i)
      PROVE  req' = req /\ enr' = enr /\ Live' \subseteq Live
  BY <1>6 DEF vars, rows, ScanComplete, Bill, Pay, Reverse, Steps, Moves, Live, In
<1>7. ASSUME NEW r \in Request, StatusNext(r) \/ PlanNext(r) \/ Fails(r)
      PROVE  Asks(r) \/ GoesOn(r)
  BY <1>1, <1>2, <1>3, <1>4, <1>7 DEF StatusNext, PlanNext, GoesOn
<1>. QED
  BY <1>5, <1>6, <1>7 DEF Next

\* One that goes on without ending remembers why it came and that it is alone.
LEMMA LoneGoesOn ==
  ASSUME RequestInv, NEW r \in Request, GoesOn(r), req'[r].lone
  PROVE  req'[r].lone = req[r].lone /\ req'[r].for = req[r].for /\ ~At(r, "idle")'
<1>1. req[r] \in RequestState
  BY DEF RequestInv
<1>2. ~Ends(r)
  BY DEF Ends, Goes, Idle, RequestInv
<1>3. ASSUME NEW s, Goes(r, s) PROVE req'[r] = s
  BY <1>3 DEF Goes, RequestInv
<1>4. PICK step \in {"reread", "seed", "find", "check", "commit", "link"} : \E op, p, to, match :
        req'[r] = [req[r] EXCEPT !.step = step, !.op = op, !.plan = p, !.to = to, !.match = match]
  <2>. DEFINE Over(step, op, p, to, match) ==
                req'[r] = [req[r] EXCEPT !.step = step, !.op = op, !.plan = p, !.to = to,
                                         !.match = match]
  <2>1. CASE WriteStatus(r)
    <3>1. req'[r] = [req[r] EXCEPT !.step = "reread", !.to = "OFFERED", !.match = "none"]
      BY <1>2, <2>1 DEF WriteStatus
    <3>2. Over("reread", req[r].op, req[r].plan, "OFFERED", "none")
      BY <1>1, <3>1 DEF RequestState
    <3>. QED
      BY <3>2
  <2>2. CASE Reread(r)
    <3>1. \E op, step : /\ step \in {"seed", "find"}
                        /\ Goes(r, [req[r] EXCEPT !.op = op, !.step = step])
      <4>. DEFINE hook == HookOf(req[r].from, enr)
                  step == IF hook = "create" THEN "seed" ELSE "find"
      <4>1. Goes(r, [req[r] EXCEPT !.op = hook, !.step = step])
        BY <1>2, <2>2 DEF Reread
      <4>2. step \in {"seed", "find"}
        OBVIOUS
      <4>. HIDE DEF hook, step
      <4>. QED
        BY <4>1, <4>2
    <3>2. PICK op, step : /\ step \in {"seed", "find"}
                          /\ Goes(r, [req[r] EXCEPT !.op = op, !.step = step])
      BY <3>1
    <3>3. req'[r] = [req[r] EXCEPT !.op = op, !.step = step]
      BY <1>3, <3>2
    <3>4. Over(step, op, req[r].plan, req[r].to, req[r].match)
      BY <1>1, <3>3 DEF RequestState
    <3>5. CASE step = "seed"
      <4>1. Over("seed", op, req[r].plan, req[r].to, req[r].match)
        BY <3>4, <3>5
      <4>. QED
        BY <4>1
    <3>6. CASE step = "find"
      <4>1. Over("find", op, req[r].plan, req[r].to, req[r].match)
        BY <3>4, <3>6
      <4>. QED
        BY <4>1
    <3>. QED
      BY <3>2, <3>5, <3>6
  <2>3. CASE Find(r)
    <3>1. PICK p : Goes(r, [req[r] EXCEPT !.step = "check", !.plan = p])
      BY <1>2, <2>3 DEF Find
    <3>2. req'[r] = [req[r] EXCEPT !.step = "check", !.plan = p]
      BY <1>3, <3>1
    <3>3. Over("check", req[r].op, p, req[r].to, req[r].match)
      BY <1>1, <3>2 DEF RequestState
    <3>. QED
      BY <3>3
  <2>4. CASE Check(r)
    <3>1. req'[r] = [req[r] EXCEPT !.step = "commit"]
      BY <1>2, <1>3, <2>4 DEF Check
    <3>2. Over("commit", req[r].op, req[r].plan, req[r].to, req[r].match)
      BY <1>1, <3>1 DEF RequestState
    <3>. QED
      BY <3>2
  <2>5. CASE CommitCreate(r)
    <3>1. PICK p : Goes(r, [req[r] EXCEPT !.step = "link", !.to = p])
      BY <1>2, <2>5 DEF CommitCreate
    <3>2. req'[r] = [req[r] EXCEPT !.step = "link", !.to = p]
      BY <1>3, <3>1
    <3>3. Over("link", req[r].op, req[r].plan, p, req[r].match)
      BY <1>1, <3>2 DEF RequestState
    <3>. QED
      BY <3>3
  <2>6. CASE CommitCancel(r)
    <3>1. Goes(r, [req[r] EXCEPT !.step = "check", !.op = "create"])
      BY <1>2, <2>6, Zenon DEF CommitCancel
    <3>2. req'[r] = [req[r] EXCEPT !.step = "check", !.op = "create"]
      BY <1>3, <3>1
    <3>3. Over("check", "create", req[r].plan, req[r].to, req[r].match)
      BY <1>1, <3>2 DEF RequestState
    <3>. QED
      BY <3>3
  <2>8. CASE Seed(r)
    <3>1. req'[r] = [req[r] EXCEPT !.step = "check"]
      BY <1>2, <1>3, <2>8 DEF Seed
    <3>2. Over("check", req[r].op, req[r].plan, req[r].to, req[r].match)
      BY <1>1, <3>1 DEF RequestState
    <3>. QED
      BY <3>2
  <2>7. CASE CommitPause(r) \/ CommitResume(r) \/ CommitRefused(r) \/ Link(r) \/ Fails(r)
    BY <1>2, <2>7, Zenon DEF CommitPause, CommitResume, CommitRefused, Link, Fails
  <2>. QED
    BY <2>1, <2>2, <2>3, <2>4, <2>5, <2>6, <2>7, <2>8 DEF GoesOn
<1>5. req'[r].lone = req[r].lone /\ req'[r].for = req[r].for /\ req'[r].step = step
  BY <1>1, <1>4 DEF RequestState
<1>. QED
  BY <1>4, <1>5 DEF At

LEMMA InitLone == Init => LoneInv
  BY DEF Init, LoneInv, Idle

\* The one who begins alone meets nobody, and from then on nobody else is alone.
LEMMA AskKeepsLone ==
  ASSUME RequestInv, NEW q \in Request, Asks(q)
  PROVE  LoneInv'
<1>1. PICK s \in RequestState : /\ s.step # "idle" /\ (s.for = "status" => s.step = "write")
                               /\ Begins(q, s)
  BY DEF Asks
<1>. DEFINE alone == \A o \in Request : At(o, "idle")
<1>2. \A r \in Request : req'[r] = IF r = q THEN [s EXCEPT !.lone = alone]
                                   ELSE [req[r] EXCEPT !.lone = FALSE]
  BY <1>1 DEF Begins
<1>3. /\ req'[q].step = s.step /\ req'[q].for = s.for /\ req'[q].lone = alone
  BY <1>2 DEF RequestState
<1>4. ASSUME NEW r \in Request \ {q} PROVE req'[r].step = req[r].step /\ req'[r].lone = FALSE
  <2>1. req'[r] = [req[r] EXCEPT !.lone = FALSE] /\ req[r] \in RequestState
    BY <1>2 DEF RequestInv
  <2>. QED
    BY <2>1 DEF RequestState
<1>. SUFFICES ASSUME NEW r \in Request, req'[r].lone
     PROVE  /\ ~At(r, "idle")' /\ \A o \in Request \ {r} : At(o, "idle")'
            /\ req'[r].for = "status" => HookSound(r)'
  BY DEF LoneInv
<1>5. r = q /\ alone
  BY <1>3, <1>4
<1>6. ~At(r, "idle")' /\ \A o \in Request \ {r} : At(o, "idle")'
  BY <1>1, <1>3, <1>4, <1>5 DEF At
<1>7. req'[r].for = "status" => HookSound(r)'
  BY <1>1, <1>3, <1>5 DEF At, HookSound
<1>. QED
  BY <1>6, <1>7

\* What the lone request does: it stands alone still, and if its hook goes on, it
\* goes on with what the change asks for, on the plan in force.
LEMMA HookGoesOn ==
  ASSUME TypeOK, RequestInv, LiveInv, NEW r \in Request, HookSound(r), GoesOn(r),
         req[r].for = "status", req'[r].lone
  PROVE  ~At(r, "idle")' /\ HookSound(r)'
<1>1. req[r] \in RequestState
  BY DEF RequestInv
<1>2. ~Ends(r)
  BY DEF Ends, Goes, Idle, RequestInv
<1>3. ASSUME NEW s, Goes(r, s) PROVE req'[r] = s
  BY <1>3 DEF Goes, RequestInv
<1>4. CASE WriteStatus(r)
  <2>1. req'[r] = [req[r] EXCEPT !.step = "reread", !.to = "OFFERED", !.match = "none"]
    BY <1>2, <1>4 DEF WriteStatus
  <2>2. req'[r].step = "reread"
    BY <1>1, <2>1 DEF RequestState
  <2>. QED
    BY <2>2 DEF At, HookSound
<1>5. CASE Reread(r)
  <2>. DEFINE hook == HookOf(req[r].from, enr)
              step == IF hook = "create" THEN "seed" ELSE "find"
  <2>1. hook # "none" /\ Goes(r, [req[r] EXCEPT !.op = hook, !.step = step]) /\ enr' = enr
    BY <1>2, <1>5 DEF Reread
  <2>2. req'[r] = [req[r] EXCEPT !.op = hook, !.step = step]
    BY <1>3, <2>1
  <2>3. step \in {"seed", "find"} /\ (step = "seed" <=> hook = "create")
    OBVIOUS
  <2>. HIDE DEF hook, step
  <2>4. req'[r].op = hook /\ req'[r].step = step /\ req'[r].from = req[r].from
    BY <1>1, <2>2 DEF RequestState
  <2>5. req'[r].op = HookOf(req'[r].from, enr')
    BY <2>1, <2>4 DEF hook
  <2>. QED
    BY <2>1, <2>3, <2>4, <2>5 DEF At, HookSound
<1>6. CASE Find(r)
  <2>1. PICK p \in Plan : /\ In(p, Allowed(req[r].op))
                          /\ Goes(r, [req[r] EXCEPT !.step = "check", !.plan = p])
    BY <1>2, <1>6 DEF Find
  <2>2. req'[r] = [req[r] EXCEPT !.step = "check", !.plan = p]
    BY <1>3, <2>1
  <2>3. /\ req'[r].op = req[r].op /\ req'[r].step = "check"
        /\ req'[r].from = req[r].from /\ req'[r].plan = p
    BY <1>1, <2>2 DEF RequestState
  <2>4. enr' = enr /\ plan' = plan /\ At(r, "find")
    BY <1>6 DEF Find, rows
  <2>5. req[r].op \in {"pause", "resume", "cancel"} /\ req[r].op = HookOf(req[r].from, enr)
    BY <1>1, <2>4 DEF HookSound, At, RequestState
  <2>6. p \in Live
    BY <2>1, <2>5 DEF Live, In, Allowed
  <2>7. Live' \subseteq {p}
    BY <2>4, <2>6 DEF LiveInv, Live, In
  <2>. QED
    BY <2>3, <2>4, <2>5, <2>7 DEF At, HookSound
<1>7. CASE Check(r)
  <2>1. Goes(r, [req[r] EXCEPT !.step = "commit"])
    BY <1>2, <1>7 DEF Check
  <2>2. req'[r] = [req[r] EXCEPT !.step = "commit"]
    BY <1>3, <2>1
  <2>3. /\ req'[r].op = req[r].op /\ req'[r].step = "commit"
        /\ req'[r].from = req[r].from /\ req'[r].plan = req[r].plan
    BY <1>1, <2>2 DEF RequestState
  <2>4. enr' = enr /\ plan' = plan /\ At(r, "check")
    BY <1>7 DEF Check, rows
  <2>. QED
    BY <2>3, <2>4 DEF HookSound, At, Live, In
<1>9. CASE Seed(r)
  <2>1. Goes(r, [req[r] EXCEPT !.step = "check"])
    BY <1>2, <1>9 DEF Seed
  <2>2. req'[r] = [req[r] EXCEPT !.step = "check"]
    BY <1>3, <2>1
  <2>3. /\ req'[r].op = req[r].op /\ req'[r].step = "check" /\ req'[r].from = req[r].from
    BY <1>1, <2>2 DEF RequestState
  <2>4. enr' = enr /\ plan' = plan /\ At(r, "seed")
    BY <1>9 DEF Seed, rows
  <2>. QED
    BY <2>3, <2>4 DEF HookSound, At
<1>8. CASE \/ CommitCreate(r) \/ CommitPause(r) \/ CommitResume(r) \/ CommitCancel(r)
           \/ CommitRefused(r) \/ Link(r) \/ Fails(r)
  BY <1>2, <1>8, Zenon DEF CommitCreate, CommitPause, CommitResume, CommitCancel, CommitRefused,
                    Link, Fails
<1>. QED
  BY <1>4, <1>5, <1>6, <1>7, <1>8, <1>9 DEF GoesOn

LEMMA NextKeepsLone ==
  ASSUME TypeOK, RequestInv, LiveInv, LoneInv, [Next]_vars
  PROVE  LoneInv'
<1>1. ASSUME NEW q \in Request, Asks(q) PROVE LoneInv'
  BY <1>1, AskKeepsLone
<1>2. ASSUME NEW q \in Request, GoesOn(q) PROVE LoneInv'
  <2>. SUFFICES ASSUME NEW r \in Request, req'[r].lone
       PROVE  /\ ~At(r, "idle")' /\ \A o \in Request \ {r} : At(o, "idle")'
              /\ req'[r].for = "status" => HookSound(r)'
    BY DEF LoneInv
  <2>1. ~At(q, "idle")
    BY <1>2, GoesOnIsUnderWay
  <2>2. CASE r # q
    <3>1. req[r].lone
      BY <1>2, <2>2, GoesOnAlone
    <3>. QED
      BY <2>1, <2>2, <3>1 DEF LoneInv
  <2>3. CASE r = q
    <3>1. req[r] \in RequestState /\ req'[r].lone # Idle.lone
      BY DEF RequestInv, Idle
    <3>2. req'[r].lone = req[r].lone /\ req'[r].for = req[r].for /\ ~At(r, "idle")'
      BY <1>2, <2>3, <3>1, LoneGoesOn
    <3>3. \A o \in Request \ {r} : At(o, "idle")'
      BY <1>2, <2>3, <3>2, GoesOnAlone DEF LoneInv, At
    <3>4. req'[r].for = "status" => HookSound(r)'
      BY <1>2, <2>3, <3>2, HookGoesOn DEF LoneInv
    <3>. QED
      BY <3>2, <3>3, <3>4
  <2>. QED
    BY <2>2, <2>3
<1>3. CASE req' = req /\ enr' = enr /\ Live' \subseteq Live
  BY <1>3 DEF LoneInv, HookSound, At
<1>. QED
  BY <1>1, <1>2, <1>3, StepsOfRequests

\* How the hook of a lone change ends, if nothing fails.
LoneEnds(r) ==
  /\ enr \in Closed => Live' = {}
  /\ enr = "ON_LEAVE" => \A p \in Plan : plan'[p] # "ACTIVE"
  /\ <<req[r].from, enr>> = <<"ON_LEAVE", "ENROLLED">> => \A p \in Plan : plan'[p] # "PAUSED"
  /\ <<req[r].from, enr>> = <<"ACCEPTED", "ENROLLED">> /\ priced => Live' # {}

\* What the hook does says which change it was.
LEMMA HookTellsChange ==
  ASSUME NEW from \in EnrollmentStatus, NEW to \in EnrollmentStatus, from # to
  PROVE  /\ to \in Closed <=> HookOf(from, to) = "cancel"
         /\ to = "ON_LEAVE" <=> HookOf(from, to) = "pause"
         /\ <<from, to>> = <<"ON_LEAVE", "ENROLLED">> <=> HookOf(from, to) = "resume"
         /\ <<from, to>> = <<"ACCEPTED", "ENROLLED">> <=> HookOf(from, to) = "create"
  BY DEF HookOf, Closed

LEMMA LoneSettles ==
  ASSUME TypeOK, RequestInv, LiveInv, NEW r \in Request, HookSound(r), GoesOn(r),
         req[r].for = "status", ~At(r, "write"), req'[r] = Idle, ~Fails(r), req[r].from # enr
  PROVE  LoneEnds(r)
<1>. DEFINE op == HookOf(req[r].from, enr)
<1>1. req[r] \in RequestState /\ req[r].from \in EnrollmentStatus /\ enr \in EnrollmentStatus
  BY DEF RequestInv, RequestState, TypeOK
<1>2. /\ enr \in Closed <=> op = "cancel"
      /\ enr = "ON_LEAVE" <=> op = "pause"
      /\ <<req[r].from, enr>> = <<"ON_LEAVE", "ENROLLED">> <=> op = "resume"
      /\ <<req[r].from, enr>> = <<"ACCEPTED", "ENROLLED">> <=> op = "create"
  BY <1>1, HookTellsChange
<1>. HIDE DEF op
<1>. SUFFICES /\ op = "cancel" => Live' = {}
              /\ op = "pause" => \A p \in Plan : plan'[p] # "ACTIVE"
              /\ op = "resume" => \A p \in Plan : plan'[p] # "PAUSED"
              /\ op = "create" /\ priced => Live' # {}
  BY <1>2 DEF LoneEnds
<1>3. ASSUME NEW s, Goes(r, s) PROVE s = Idle
  BY <1>3 DEF Goes, RequestInv
<1>4. CASE Reread(r)
  <2>1. op = "none"
    <3>. SUFFICES ASSUME op # "none" PROVE FALSE
      OBVIOUS
    <3>1. PICK step \in {"seed", "find"} : Goes(r, [req[r] EXCEPT !.op = op, !.step = step])
      BY <1>4 DEF Reread, op
    <3>2. [req[r] EXCEPT !.op = op, !.step = step] = Idle
      BY <1>3, <3>1
    <3>3. [req[r] EXCEPT !.op = op, !.step = step].step = step
      BY <1>1 DEF RequestState
    <3>. QED
      BY <3>2, <3>3 DEF Idle
  <2>. QED
    BY <2>1
<1>12. CASE Seed(r)
  <2>1. op = "create"
    BY <1>12 DEF Seed, HookSound, At, op
  <2>2. ~priced
    <3>. SUFFICES ASSUME priced PROVE FALSE
      OBVIOUS
    <3>1. Goes(r, [req[r] EXCEPT !.step = "check"])
      BY <1>12 DEF Seed
    <3>2. [req[r] EXCEPT !.step = "check"] = Idle
      BY <1>3, <3>1
    <3>3. [req[r] EXCEPT !.step = "check"].step = "check"
      BY <1>1 DEF RequestState
    <3>. QED
      BY <3>2, <3>3 DEF Idle
  <2>. QED
    BY <2>1, <2>2
<1>5. CASE Find(r)
  <2>1. op = req[r].op /\ op \in {"pause", "resume", "cancel"} /\ plan' = plan
    BY <1>1, <1>5 DEF Find, HookSound, At, op, RequestState, rows
  <2>2. {p \in Plan : In(p, Allowed(req[r].op))} = {}
    <3>. SUFFICES ASSUME {p \in Plan : In(p, Allowed(req[r].op))} # {} PROVE FALSE
      OBVIOUS
    <3>1. PICK p \in Plan : Goes(r, [req[r] EXCEPT !.step = "check", !.plan = p])
      BY <1>5 DEF Find
    <3>2. [req[r] EXCEPT !.step = "check", !.plan = p] = Idle
      BY <1>3, <3>1
    <3>3. [req[r] EXCEPT !.step = "check", !.plan = p].step = "check"
      BY <1>1 DEF RequestState
    <3>. QED
      BY <3>2, <3>3 DEF Idle
  <2>. QED
    BY <2>1, <2>2 DEF Allowed, In, Live
<1>6. CASE Check(r)
  <2>1. op = req[r].op /\ op \in {"create", "pause", "resume", "cancel"} /\ plan' = plan
    BY <1>1, <1>6 DEF Check, HookSound, At, op, RequestState, rows
  <2>2. op # "create" => Live \subseteq {req[r].plan}
    BY <1>6, <2>1 DEF Check, HookSound, At
  <2>3. ~(IF op = "create" THEN Live = {} ELSE In(req[r].plan, Allowed(op)))
    <3>. SUFFICES ASSUME IF op = "create" THEN Live = {} ELSE In(req[r].plan, Allowed(op))
         PROVE  FALSE
      OBVIOUS
    <3>1. Goes(r, [req[r] EXCEPT !.step = "commit"])
      BY <1>6, <2>1 DEF Check
    <3>2. [req[r] EXCEPT !.step = "commit"] = Idle
      BY <1>3, <3>1
    <3>3. [req[r] EXCEPT !.step = "commit"].step = "commit"
      BY <1>1 DEF RequestState
    <3>. QED
      BY <3>2, <3>3 DEF Idle
  <2>. QED
    BY <2>1, <2>2, <2>3 DEF Allowed, In, Live
<1>7. CASE CommitCreate(r)
  <2>1. op = "create"
    BY <1>7 DEF CommitCreate, HookSound, At, op
  <2>2. CASE /\ \E p \in Plan : plan[p] = "NONE" /\ ~Unique(p)
             /\ UNCHANGED rows
    BY <2>1, <2>2 DEF Unique, Live, In, rows
  <2>3. ASSUME NEW p \in Plan, Created(p) PROVE Live' # {}
    BY <2>3 DEF Created, Live, In, TypeOK
  <2>. QED
    BY <1>7, <2>1, <2>2, <2>3 DEF CommitCreate
<1>8. ASSUME CommitPause(r) \/ CommitResume(r) \/ CommitCancel(r)
      PROVE  /\ op = req[r].op
             /\ Live \subseteq {req[r].plan}
             /\ \A p \in Plan :
                  /\ p = req[r].plan => plan'[p] = CASE op = "pause" -> "PAUSED"
                                                     [] op = "resume" -> "ACTIVE"
                                                     [] op = "cancel" -> "CANCELLED"
                  /\ p # req[r].plan => plan'[p] = plan[p]
             /\ op \in {"pause", "resume", "cancel"}
  <2>1. PICK status, relabelled : /\ Becomes(r, status, relabelled)
                                  /\ \/ req[r].op = "pause" /\ status = "PAUSED"
                                     \/ req[r].op = "resume" /\ status = "ACTIVE"
                                     \/ req[r].op = "cancel" /\ status = "CANCELLED"
    BY <1>8, Zenon DEF CommitPause, CommitResume, CommitCancel
  <2>2. op = req[r].op /\ Live \subseteq {req[r].plan}
    BY <2>1 DEF Becomes, HookSound, At, op
  <2>3. \A p \in Plan : /\ p = req[r].plan => plan'[p] = status
                        /\ p # req[r].plan => plan'[p] = plan[p]
    BY <2>1, BecomesTouchesOne
  <2>. QED
    BY <2>1, <2>2, <2>3
<1>9. CASE CommitPause(r) \/ CommitResume(r) \/ CommitCancel(r)
  BY <1>8, <1>9 DEF Live, In
<1>10. CASE CommitRefused(r)
  <2>1. Live \subseteq {req[r].plan}
    BY <1>10 DEF CommitRefused, HookSound, At
  <2>. QED
    BY <1>10, <2>1 DEF CommitRefused, Unique
<1>11. ~WriteStatus(r) /\ ~Link(r)
  BY DEF WriteStatus, Link, HookSound
<1>. QED
  BY <1>4, <1>5, <1>6, <1>7, <1>9, <1>10, <1>11, <1>12 DEF GoesOn
---------------------------------------------------------------------------
\* The invariant holds in every reachable state.
THEOREM Invariant == Spec => []IInv
<1>1. IInv /\ [Next]_vars => IInv'
  BY NextKeepsType, NextKeepsRequests, NextKeepsLive, NextKeepsBatch, NextKeepsItems DEF IInv
<1>. QED
  BY <1>1, InitIInv, PTL DEF Spec

\* Whatever requests, hooks and the daily job do to one another, every row stays
\* well formed: the enrollment has one of its statuses, a link leads to a plan.
THEOREM TypeCorrect == Spec => []TypeOK
<1>1. IInv => TypeOK
  BY DEF IInv
<1>. QED
  BY <1>1, Invariant, PTL

\* However many requests create, pause, resume and regenerate plans at once, the
\* partial unique index leaves an enrollment at most one plan in force.
THEOREM OnePlan == Spec => []OneLivePlan
<1>1. IInv => OneLivePlan
  <2>. SUFFICES ASSUME IInv PROVE Cardinality(Live) <= 1
    BY DEF OneLivePlan
  <2>1. CASE Live = {}
    BY <2>1, FS_EmptySet
  <2>2. ASSUME NEW p \in Live PROVE Cardinality(Live) <= 1
    <3>1. Live = {p}
      BY <2>2 DEF IInv, LiveInv
    <3>. QED
      BY <3>1, FS_Singleton
  <2>. QED
    BY <2>1, <2>2
<1>. QED
  BY <1>1, Invariant, PTL

\* Although pauses, resumptions, cancellations and the completion overwrite each
\* other's plan, its installments follow it: what is open under a plan that is over
\* was reopened by a void or a refund, and nothing stays suspended under a plan that
\* is not paused.
THEOREM ItemsCorrect == Spec => []ItemsFollowPlan
<1>1. IInv => ItemsFollowPlan
  BY DEF IInv
<1>. QED
  BY <1>1, Invariant, PTL

\* A lone request is alone, and its hook does what the change asks for.
THEOREM LoneInvariant == Spec => []LoneInv
<1>1. IInv /\ LoneInv /\ [Next]_vars => LoneInv'
  BY NextKeepsLone DEF IInv
<1>. QED
  BY <1>1, Invariant, InitLone, PTL DEF Spec

\* Faults are counted.
THEOREM FaultsAreCounted == Spec => [](faults \in Nat)
<1>1. Init => faults \in Nat
  BY DEF Init
<1>2. faults \in Nat /\ [Next]_vars => (faults \in Nat)'
  <2>1. ASSUME NEW r \in Request, CommitPause(r) \/ CommitResume(r) \/ CommitCancel(r)
        PROVE  faults' = faults
    <3>1. \E status, relabelled : Becomes(r, status, relabelled)
      BY <2>1, Zenon DEF CommitPause, CommitResume, CommitCancel
    <3>. QED
      BY <3>1 DEF Becomes
  <2>2. ASSUME NEW r \in Request, StatusNext(r) \/ PlanNext(r) PROVE faults' = faults
    BY <2>1, <2>2 DEF StatusNext, AskStatus, Begins, WriteStatus, Reread, Seed, Find, PlanNext,
       AskPlan, AskCreate, AskRegenerate, Check, CommitCreate, CommitRefused, Link
  <2>3. ASSUME NEW p \in Plan, NEW i \in Item, Bill(p, i) \/ Pay(p, i) \/ Reverse(p, i)
        PROVE  faults' = faults
    BY <2>3 DEF Bill, Pay, Reverse, Steps, Moves
  <2>. QED
    BY <2>2, <2>3 DEF Next, vars, Fails, ScanComplete, Complete
<1>. QED
  BY <1>1, <1>2, PTL DEF Spec

\* A change of status that met no other request and whose hook did not fail leaves
\* billing as the new status wants it: no plan in force for a student who withdrew,
\* none active during leave, none paused after it, one for a student who enrols at
\* a tuition, although payments, billing and the completion of plans go on beside the hook.
THEOREM LoneChangeCorrect == Spec => LoneChangeSettlesBilling
<1>1. ASSUME IInv, LoneInv, faults \in Nat, [Next]_vars, NEW r \in Request,
             req[r].lone, req[r].for = "status", ~At(r, "write"),
             req'[r] = Idle, faults' = faults, req[r].from # enr
      PROVE  LoneEnds(r)
  <2>1. TypeOK /\ RequestInv /\ LiveInv /\ HookSound(r) /\ ~At(r, "idle")
    BY <1>1 DEF IInv, LoneInv
  <2>2. req' # req
    BY <1>1 DEF Idle
  <2>3. ASSUME NEW q \in Request, Asks(q) PROVE FALSE
    <3>1. CASE q = r
      BY <2>1, <2>3, <3>1 DEF Asks, Begins
    <3>2. CASE q # r
      <4>1. req'[r] = [req[r] EXCEPT !.lone = FALSE]
        BY <2>3, <3>2 DEF Asks, Begins
      <4>2. req'[r].step = req[r].step
        BY <2>1, <4>1 DEF RequestInv, RequestState
      <4>. QED
        BY <1>1, <2>1, <4>2 DEF Idle, At
    <3>. QED
      BY <3>1, <3>2
  <2>4. ASSUME NEW q \in Request, GoesOn(q) PROVE q = r
    BY <1>1, <2>4, GoesOnIsUnderWay DEF LoneInv
  <2>5. GoesOn(r)
    BY <1>1, <2>1, <2>2, <2>3, <2>4, StepsOfRequests
  <2>6. ~Fails(r)
    <3>1. faults + 1 # faults
      BY <1>1
    <3>. QED
      BY <1>1, <3>1 DEF Fails
  <2>. QED
    BY <1>1, <2>1, <2>5, <2>6, LoneSettles
<1>2. IInv /\ LoneInv /\ faults \in Nat /\ [Next]_vars =>
        [\A r \in Request :
           (/\ req[r].lone /\ req[r].for = "status" /\ ~At(r, "write")
            /\ req'[r] = Idle /\ faults' = faults /\ req[r].from # enr)
           => LoneEnds(r)]_vars
  BY <1>1
<1>. QED
  BY <1>2, Invariant, LoneInvariant, FaultsAreCounted, PTL DEF Spec, LoneChangeSettlesBilling, LoneEnds
=============================================================================
