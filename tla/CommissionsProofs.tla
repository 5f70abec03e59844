--------------------------- MODULE CommissionsProofs ---------------------------
(***************************************************************************)
(* Commissions for any number of enrollments, requests and amounts.        *)
(***************************************************************************)
EXTENDS Commissions, TLAPS

ClaimRow == [status : Status \union {"NONE"}, amount : Amount \union {0}, version : Nat,
             number : Nat, received : Amount \union {NoReceipt}, deleted : BOOLEAN]

\* What a request holds between its statements.
RequestRow == [step : {"idle", "status", "reread", "price", "load", "insert", "reprice",
                       "dispute", "number", "write"},
               op : DOMAIN From \union {"none", "move", "outcome"},
               on : Enrollment \union {"none"}, from : EnrollmentStatus, to : EnrollmentStatus,
               saw : ClaimRow, amount : Amount \union {0}, number : Nat, tries : Nat]

\* It knows its enrollment; before it writes a claim it has read a status from which
\* its operation is allowed, has an amount, and has a number if it is to invoice;
\* it reprices what it read as open.
Sound(s) ==
  /\ s.step # "idle" => s.on \in Enrollment
  /\ s.step \in {"load", "insert", "reprice", "number", "write"} => s.amount \in Amount
  /\ s.step \in {"number", "write"} => s.op \in DOMAIN From /\ s.saw.status \in From[s.op]
  /\ s.step = "write" /\ s.op \in {"invoice", "resolve"} => s.number # NoNumber
  /\ s.step = "reprice" => s.saw.status \in {"PENDING", "CLAIMED"}

RequestInv == req \in [Request -> {s \in RequestRow : Sound(s)}]

\* Versions only grow, and a claim still at the version that a repricing has read
\* has the status it had then, or has been disputed by the hook of a withdrawal.
VersionInv ==
  \A r \in Request : At(r, "reprice") =>
    LET row == claim[req[r].on] IN
      /\ row.status # "NONE" /\ req[r].saw.version <= row.version
      /\ row.version = req[r].saw.version => row.status \in {req[r].saw.status, "DISPUTED"}

\* No two claims have one number.
NumberInv ==
  /\ \A e \in Enrollment : claim[e].status \in {"INVOICED", "PAID"} => claim[e].number # NoNumber
  /\ \A e, f \in Enrollment : e # f /\ claim[e].number # NoNumber => claim[e].number # claim[f].number

\* Where there is no status there is no claim.
EmptyInv == \A e \in Enrollment : claim[e].status = "NONE" => claim[e] = NoClaim

IInv == TypeOK /\ EmptyInv /\ RequestInv /\ VersionInv /\ NumberInv
---------------------------------------------------------------------------
LEMMA FromType ==
  /\ DOMAIN From = {"claim", "invoice", "pay", "dispute", "resolve", "waive", "edit"}
  /\ \A op \in DOMAIN From : From[op] \subseteq Status \ {"PAID"}
  /\ From.waive = {"PENDING", "CLAIMED", "INVOICED", "DISPUTED"}
  BY DEF From, Status

LEMMA SuccessorsType == \A s \in EnrollmentStatus : Successors[s] \subseteq EnrollmentStatus
  BY DEF Successors, EnrollmentStatus

LEMMA NoClaimType == NoClaim \in ClaimRow /\ NoClaim.status = "NONE" /\ NoClaim.number = NoNumber
  BY DEF NoClaim, ClaimRow, NoNumber

LEMMA IdleType == Idle \in RequestRow /\ Idle.step = "idle" /\ Sound(Idle)
  BY NoClaimType DEF Idle, RequestRow, Sound, EnrollmentStatus, NoNumber

LEMMA ClaimType == TypeOK => claim \in [Enrollment -> ClaimRow]
  BY DEF TypeOK, ClaimRow

LEMMA FoundType ==
  ASSUME TypeOK, NEW e \in Enrollment
  PROVE  /\ Found(e) \in ClaimRow
         /\ Found(e).status # "NONE" => Found(e) = claim[e]
  BY ClaimType, NoClaimType DEF Found

LEMMA InitIInv == Init => IInv
<1>. SUFFICES ASSUME Init PROVE IInv
  OBVIOUS
<1>. PICK p \in Amount, submitted \in SUBSET Enrollment :
       /\ enr = [e \in Enrollment |-> IF e \in submitted THEN "ENROLLED" ELSE "ACCEPTED"]
       /\ gone = [e \in Enrollment |-> FALSE]
       /\ price = [e \in Enrollment |-> p]
       /\ claim = [e \in Enrollment |-> IF e \in submitted
            THEN [NoClaim EXCEPT !.status = "CLAIMED", !.amount = p, !.version = 2]
            ELSE NoClaim]
       /\ req = [r \in Request |-> Idle]
  BY DEF Init
<1>. DEFINE first == [NoClaim EXCEPT !.status = "CLAIMED", !.amount = p, !.version = 2]
<1>1. first \in ClaimRow /\ first.status = "CLAIMED" /\ first.number = NoNumber /\ first.received = NoReceipt
  BY DEF NoClaim, ClaimRow, Status, NoNumber
<1>2. \A e \in Enrollment : claim[e] \in {first, NoClaim}
  OBVIOUS
<1>. HIDE DEF first
<1>3. TypeOK
  <2>1. claim \in [Enrollment -> ClaimRow]
    BY <1>1, <1>2, NoClaimType
  <2>2. \A e \in Enrollment : claim[e].status = "PAID" <=> claim[e].received # NoReceipt
    BY <1>1, <1>2 DEF NoClaim
  <2>3. enr \in [Enrollment -> EnrollmentStatus]
    BY DEF EnrollmentStatus
  <2>. QED
    BY <2>1, <2>2, <2>3 DEF TypeOK, ClaimRow
<1>4. RequestInv
  BY IdleType DEF RequestInv
<1>5. VersionInv
  BY IdleType DEF VersionInv, At
<1>6. NumberInv
  BY <1>1, <1>2, NoClaimType DEF NumberInv
<1>7. EmptyInv
  BY <1>1, <1>2 DEF EmptyInv
<1>. QED
  BY <1>3, <1>4, <1>5, <1>6, <1>7 DEF IInv
---------------------------------------------------------------------------
(* What the requests hold.                                                 *)

LEMMA GoesKeeps ==
  ASSUME RequestInv, NEW r \in Request, NEW s \in RequestRow, Sound(s), Goes(r, s)
  PROVE  RequestInv'
  BY DEF RequestInv, Goes

LEMMA EndsKeeps ==
  ASSUME RequestInv, NEW r \in Request, Ends(r)
  PROVE  RequestInv'
  BY IdleType DEF RequestInv, Ends, Goes

LEMMA HookKeepsRequests ==
  ASSUME TypeOK, EmptyInv, RequestInv, NEW r \in Request, HookNext(r)
  PROVE  RequestInv'
<1>1. req[r] \in RequestRow /\ Sound(req[r])
  BY DEF RequestInv
<1>2. ASSUME NEW e \in Enrollment, NEW to \in EnrollmentStatus, AskStatus(r, e, to)
      PROVE  RequestInv'
  <2>. DEFINE s == [Idle EXCEPT !.step = "status", !.op = "move", !.on = e,
                                !.from = enr[e], !.to = to]
  <2>1. s \in RequestRow /\ Sound(s)
    BY IdleType DEF RequestRow, Sound, TypeOK
  <2>. HIDE DEF s
  <2>. QED
    BY <1>2, <2>1, GoesKeeps DEF AskStatus, Begins, s
<1>3. ASSUME WriteStatus(r) PROVE RequestInv'
  <2>. DEFINE s == [req[r] EXCEPT !.step = "reread", !.to = "OFFERED"]
  <2>1. At(r, "status") => s \in RequestRow /\ Sound(s)
    <3>1. "OFFERED" \in EnrollmentStatus
      BY DEF EnrollmentStatus
    <3>. QED
      BY <1>1, <3>1 DEF RequestRow, Sound, At
  <2>2. At(r, "status") /\ (Ends(r) \/ Goes(r, s))
    BY <1>3 DEF WriteStatus
  <2>. HIDE DEF s
  <2>. QED
    BY <2>1, <2>2, EndsKeeps, GoesKeeps
<1>4. ASSUME Reread(r) PROVE RequestInv'
  <2>1. ASSUME NEW x \in {"price", "dispute"}, At(r, "reread")
        PROVE  [req[r] EXCEPT !.step = x] \in RequestRow /\ Sound([req[r] EXCEPT !.step = x])
    BY <1>1, <2>1 DEF RequestRow, Sound, At
  <2>2. At(r, "reread")
    BY <1>4 DEF Reread
  <2>3. Ends(r) \/ \E x \in {"price", "dispute"} : Goes(r, [req[r] EXCEPT !.step = x])
    BY <1>4 DEF Reread
  <2>. QED
    BY <2>1, <2>2, <2>3, EndsKeeps, GoesKeeps
<1>5. ASSUME NEW e \in Enrollment, AskOutcome(r, e) PROVE RequestInv'
  <2>. DEFINE s == [Idle EXCEPT !.step = "price", !.op = "outcome", !.on = e]
  <2>1. s \in RequestRow /\ Sound(s)
    BY IdleType DEF RequestRow, Sound
  <2>. HIDE DEF s
  <2>. QED
    BY <1>5, <2>1, GoesKeeps DEF AskOutcome, Begins, s
<1>6. ASSUME Price(r) PROVE RequestInv'
  <2>. DEFINE s == [req[r] EXCEPT !.step = "load", !.amount = price[req[r].on]]
  <2>1. At(r, "price") /\ (Ends(r) \/ Goes(r, s))
    BY <1>6 DEF Price
  <2>2. s \in RequestRow /\ Sound(s)
    BY <1>1, <2>1 DEF RequestRow, Sound, At, TypeOK
  <2>. HIDE DEF s
  <2>. QED
    BY <2>1, <2>2, EndsKeeps, GoesKeeps
<1>7. ASSUME Load(r) PROVE RequestInv'
  <2>. DEFINE row == Found(req[r].on)
              insert == [req[r] EXCEPT !.step = "insert"]
              reprice == [req[r] EXCEPT !.step = "reprice", !.saw = row]
  <2>1. /\ At(r, "load")
        /\ \/ Ends(r) \/ Goes(r, insert)
           \/ Goes(r, reprice) /\ row # NoClaim /\ row.status \notin Frozen
    BY <1>7 DEF Load
  <2>2. req[r].on \in Enrollment
    BY <1>1, <2>1 DEF Sound, At
  <2>3. insert \in RequestRow /\ Sound(insert)
    BY <1>1, <2>1 DEF RequestRow, Sound, At
  <2>4. row \in ClaimRow
    BY <2>2, FoundType
  <2>5. ASSUME row # NoClaim, row.status \notin Frozen
        PROVE  reprice \in RequestRow /\ Sound(reprice)
    <3>1. row.status \in {"PENDING", "CLAIMED"}
      BY <2>2, <2>4, <2>5 DEF ClaimRow, Status, Frozen, Found, EmptyInv
    <3>. HIDE DEF row
    <3>. QED
      BY <1>1, <2>1, <2>4, <3>1 DEF RequestRow, Sound, At
  <2>. HIDE DEF row, insert, reprice
  <2>. QED
    BY <2>1, <2>3, <2>5, EndsKeeps, GoesKeeps
<1>8. ASSUME Insert(r) \/ AutoDispute(r) PROVE RequestInv'
  BY <1>8, EndsKeeps DEF Insert, AutoDispute
<1>9. ASSUME Reprice(r) PROVE RequestInv'
  <2>. DEFINE s == [req[r] EXCEPT !.step = "load", !.saw = NoClaim, !.tries = @ + 1]
  <2>1. At(r, "reprice") /\ (Ends(r) \/ Goes(r, s))
    BY <1>9 DEF Reprice
  <2>2. s \in RequestRow /\ Sound(s)
    <3>1. req[r].tries + 1 \in Nat /\ req[r].on \in Enrollment /\ req[r].amount \in Amount
      BY <1>1, <2>1 DEF RequestRow, Sound, At
    <3>2. ASSUME NEW n \in Nat
          PROVE  LET t == [req[r] EXCEPT !.step = "load", !.saw = NoClaim, !.tries = n]
                 IN  t \in RequestRow /\ t.step = "load" /\ t.on = req[r].on /\ t.amount = req[r].amount
      BY <1>1, NoClaimType DEF RequestRow
    <3>. QED
      BY <3>1, <3>2 DEF Sound
  <2>. HIDE DEF s
  <2>. QED
    BY <2>1, <2>2, EndsKeeps, GoesKeeps
<1>. QED
  BY <1>2, <1>3, <1>4, <1>5, <1>6, <1>7, <1>8, <1>9 DEF HookNext

LEMMA ClaimKeepsRequests ==
  ASSUME TypeOK, RequestInv, NEW r \in Request, ClaimNext(r)
  PROVE  RequestInv'
<1>1. req[r] \in RequestRow /\ Sound(req[r])
  BY DEF RequestInv
<1>2. ASSUME NEW op \in DOMAIN From, NEW e \in Enrollment, NEW given \in Amount,
             AskClaim(r, op, e, given)
      PROVE  RequestInv'
  <2>. DEFINE row == Found(e)
              step == IF op \in {"invoice", "resolve"} /\ row.number = NoNumber
                      THEN "number" ELSE "write"
              s == [Idle EXCEPT !.op = op, !.on = e, !.saw = row, !.amount = given,
                                !.number = row.number, !.step = step]
  <2>1. row.status \in From[op] /\ Goes(r, s)
    BY <1>2 DEF AskClaim, Begins
  <2>2. row \in ClaimRow
    BY FoundType
  <2>3. step \in {"number", "write"} /\ (op \in {"invoice", "resolve"} /\ step = "write" => row.number # NoNumber)
    OBVIOUS
  <2>. HIDE DEF row, step
  <2>4. s \in RequestRow
    BY <2>2, <2>3, IdleType DEF RequestRow, ClaimRow
  <2>5. /\ s.step = step /\ s.op = op /\ s.on = e /\ s.saw = row /\ s.amount = given
        /\ s.number = row.number
    BY DEF Idle
  <2>. HIDE DEF s
  <2>6. Sound(s)
    BY <2>1, <2>3, <2>5 DEF Sound
  <2>. QED
    BY <2>1, <2>4, <2>6, GoesKeeps
<1>3. ASSUME Number(r) PROVE RequestInv'
  <2>1. PICK n \in NextNumber(r) : Goes(r, [req[r] EXCEPT !.step = "write", !.number = n])
    BY <1>3 DEF Number
  <2>2. n \in Nat /\ n # NoNumber
    BY DEF NextNumber, NoNumber
  <2>. DEFINE s == [req[r] EXCEPT !.step = "write", !.number = n]
  <2>3. At(r, "number")
    BY <1>3 DEF Number
  <2>4. s \in RequestRow /\ Sound(s)
    BY <1>1, <2>2, <2>3 DEF RequestRow, Sound, At
  <2>. QED
    BY <2>1, <2>4, GoesKeeps
<1>4. ASSUME WriteClaim(r) PROVE RequestInv'
  BY <1>4, EndsKeeps DEF WriteClaim
<1>. QED
  BY <1>2, <1>3, <1>4 DEF ClaimNext

LEMMA NextKeepsRequests ==
  ASSUME TypeOK, EmptyInv, RequestInv, [Next]_vars
  PROVE  RequestInv'
<1>1. CASE \E r \in Request : HookNext(r)
  BY <1>1, HookKeepsRequests
<1>2. CASE \E r \in Request : ClaimNext(r)
  BY <1>2, ClaimKeepsRequests
<1>3. CASE \E r \in Request : Fails(r)
  BY <1>3, EndsKeeps DEF Fails
<1>4. CASE \/ UNCHANGED vars
           \/ \E e \in Enrollment, p \in Amount : SetTuition(e, p)
           \/ \E e \in Enrollment : Delete(e) \/ Annotate(e)
  BY <1>4 DEF vars, SetTuition, Delete, Annotate, RequestInv
<1>. QED
  BY <1>1, <1>2, <1>3, <1>4 DEF Next
---------------------------------------------------------------------------
(* How a claim may change in a step.                                       *)

\* What the handlers of administrators make of a row that still has a status
\* from which their operation is allowed.
Handled(old, new, free) ==
  /\ old.status \in Status \ {"PAID"} /\ ~old.deleted /\ new.deleted = old.deleted
  /\ new.version = old.version + 1
  /\ new.amount \in Amount \union {old.amount}
  /\ \/ /\ new.status = "PAID" /\ new.received \in Amount /\ old.status = "INVOICED"
        /\ new.number = old.number
     \/ /\ new.status = "INVOICED" /\ new.received = old.received
        /\ new.number # NoNumber /\ new.number \in Nat /\ free
     \/ /\ new.status \in {old.status, "CLAIMED", "DISPUTED", "WAIVED"}
        /\ new.received = old.received /\ new.number = old.number

Changed(old, new, free) ==
  \/ new = old
  \/ /\ old = NoClaim
     /\ \E a \in Amount : new = [NoClaim EXCEPT !.status = "PENDING", !.amount = a, !.version = 1]
  \/ old # NoClaim /\ new = [old EXCEPT !.deleted = TRUE]
  \/ old # NoClaim /\ new = [old EXCEPT !.version = @ + 1]
  \/ /\ old.status \in {"PENDING", "CLAIMED", "DISPUTED"}
     /\ \E a \in Amount : new = [old EXCEPT !.amount = a, !.version = @ + 1]
  \/ old.status \in Unpaid /\ new = [old EXCEPT !.status = "DISPUTED"]
  \/ new \in ClaimRow /\ Handled(old, new, free)

\* The number that a claim has after the step is no other claim's.
Unshared(e) == \A f \in Enrollment \ {e} : claim[f].number # claim'[e].number

\* A step changes one claim at most, in one of those ways.
ClaimStep ==
  \/ UNCHANGED claim
  \/ \E e \in Enrollment : \E new \in ClaimRow :
       /\ claim' = [claim EXCEPT ![e] = new]
       /\ Changed(claim[e], new, Unshared(e))

LEMMA VersionedReprice ==
  ASSUME RequestInv, VersionInv, NEW r \in Request, At(r, "reprice"), SameVersion(r)
  PROVE  /\ req[r].on \in Enrollment
         /\ claim[req[r].on].status \in {"PENDING", "CLAIMED", "DISPUTED"}
  BY DEF RequestInv, VersionInv, RequestRow, Sound, At, SameVersion

\* What the handlers write, of a row from which the operation is allowed.
LEMMA WrittenIsHandled ==
  ASSUME NEW r \in Request, NEW old \in ClaimRow, req[r].op \in DOMAIN From,
         old.status \in From[req[r].op], ~old.deleted,
         req[r].amount \in Amount, req[r].number \in Nat,
         req[r].op \in {"invoice", "resolve"} => req[r].number # NoNumber
  PROVE  /\ Written(r, old) \in ClaimRow
         /\ Handled(old, Written(r, old), Written(r, old).number = req[r].number)
<1>. DEFINE newer == [old EXCEPT !.version = @ + 1]
<1>1. newer \in ClaimRow
  BY DEF ClaimRow
<1>2. /\ newer.version = old.version + 1 /\ newer.status = old.status
      /\ newer.amount = old.amount /\ newer.number = old.number
      /\ newer.received = old.received /\ newer.deleted = old.deleted
  BY DEF ClaimRow
<1>3. old.status \in Status \ {"PAID"}
  BY FromType
<1>. HIDE DEF newer
<1>4. CASE req[r].op = "edit"
  <2>. DEFINE new == [newer EXCEPT !.amount = req[r].amount]
  <2>1. Written(r, old) = new
    BY <1>4 DEF Written, newer
  <2>2. new \in ClaimRow
    BY <1>1 DEF ClaimRow
  <2>3. /\ new.amount = req[r].amount /\ new.status = newer.status /\ new.version = newer.version
        /\ new.number = newer.number /\ new.received = newer.received
        /\ new.deleted = newer.deleted
    BY <1>1 DEF ClaimRow
  <2>. HIDE DEF new
  <2>. QED
    BY <1>2, <1>3, <2>1, <2>2, <2>3 DEF Handled
<1>5. CASE req[r].op = "pay"
  <2>. DEFINE new == [newer EXCEPT !.status = "PAID", !.received = req[r].amount]
  <2>1. Written(r, old) = new
    BY <1>5 DEF Written, Receipt, newer
  <2>2. new \in ClaimRow
    BY <1>1 DEF ClaimRow, Status
  <2>3. /\ new.amount = newer.amount /\ new.status = "PAID" /\ new.version = newer.version
        /\ new.number = newer.number /\ new.received = req[r].amount
        /\ new.deleted = newer.deleted
    BY <1>1 DEF ClaimRow
  <2>4. old.status = "INVOICED"
    BY <1>5 DEF From
  <2>. HIDE DEF new
  <2>. QED
    BY <1>2, <1>3, <2>1, <2>2, <2>3, <2>4 DEF Handled
<1>6. CASE req[r].op \in {"invoice", "resolve"}
  <2>. DEFINE new == [newer EXCEPT !.status = "INVOICED", !.number = req[r].number]
  <2>1. Written(r, old) = new
    BY <1>6 DEF Written, newer
  <2>2. new \in ClaimRow
    BY <1>1 DEF ClaimRow, Status
  <2>3. /\ new.amount = newer.amount /\ new.status = "INVOICED" /\ new.version = newer.version
        /\ new.number = req[r].number /\ new.received = newer.received
        /\ new.deleted = newer.deleted
    BY <1>1 DEF ClaimRow
  <2>. HIDE DEF new
  <2>. QED
    BY <1>2, <1>3, <1>6, <2>1, <2>2, <2>3 DEF Handled
<1>7. CASE req[r].op \in {"claim", "dispute", "waive"}
  <2>. DEFINE new == [newer EXCEPT !.status = To[req[r].op]]
  <2>1. Written(r, old) = new
    BY <1>7 DEF Written, newer
  <2>2. To[req[r].op] \in {"CLAIMED", "DISPUTED", "WAIVED"}
    BY <1>7 DEF To
  <2>3. new \in ClaimRow
    BY <1>1, <2>2 DEF ClaimRow, Status
  <2>4. /\ new.amount = newer.amount /\ new.status = To[req[r].op] /\ new.version = newer.version
        /\ new.number = newer.number /\ new.received = newer.received
        /\ new.deleted = newer.deleted
    BY <1>1 DEF ClaimRow
  <2>. HIDE DEF new
  <2>. QED
    BY <1>2, <1>3, <2>1, <2>2, <2>3, <2>4 DEF Handled
<1>. QED
  BY <1>4, <1>5, <1>6, <1>7, FromType

LEMMA HandlerSteps ==
  ASSUME TypeOK, RequestInv, NEW r \in Request, WriteClaim(r)
  PROVE  ClaimStep
<1>1. req[r] \in RequestRow /\ Sound(req[r]) /\ At(r, "write")
  BY DEF RequestInv, WriteClaim
<1>2. PICK e \in Enrollment : e = req[r].on
  BY <1>1 DEF Sound, At
<1>3. claim[e] \in ClaimRow
  BY ClaimType
<1>4. CASE ~(StillAllowed(r) /\ NumberIsFree(r))
  BY <1>4 DEF WriteClaim, ClaimStep
<1>5. CASE StillAllowed(r) /\ NumberIsFree(r)
  <2>1. PICK new : new = Written(r, claim[e])
    OBVIOUS
  <2>2. claim' = [claim EXCEPT ![e] = new]
    BY <1>2, <1>5, <2>1 DEF WriteClaim
  <2>3. req[r].op \in DOMAIN From /\ Found(e).status \in From[req[r].op]
    BY <1>1, <1>2, <1>5, FromType DEF Sound, At, StillAllowed
  <2>4. claim[e].status \in From[req[r].op] /\ ~claim[e].deleted
    BY <2>3, FromType, NoClaimType DEF Found, Status
  <2>5. req[r].amount \in Amount /\ req[r].number \in Nat
    BY <1>1 DEF Sound, RequestRow, At
  <2>6. new \in ClaimRow /\ Handled(claim[e], new, new.number = req[r].number)
    BY <1>1, <1>3, <2>1, <2>3, <2>4, <2>5, WrittenIsHandled DEF Sound, At
  <2>7. claim'[e] = new
    BY <2>2, ClaimType
  <2>8. new.number = req[r].number /\ new.number # NoNumber => Unshared(e)
    BY <1>2, <1>5, <2>7 DEF NumberIsFree, Unshared
  <2>9. Handled(claim[e], new, Unshared(e))
    BY <2>6, <2>8 DEF Handled
  <2>. QED
    BY <2>2, <2>6, <2>9 DEF ClaimStep, Changed
<1>. QED
  BY <1>4, <1>5

LEMMA NextClaimSteps ==
  ASSUME TypeOK, EmptyInv, RequestInv, VersionInv, [Next]_vars
  PROVE  ClaimStep
<1>1. ASSUME NEW r \in Request, HookNext(r) PROVE ClaimStep
  <2>1. req[r] \in RequestRow /\ Sound(req[r])
    BY DEF RequestInv
  <2>2. ASSUME Insert(r) PROVE ClaimStep
    <3>1. PICK e \in Enrollment, a \in Amount : e = req[r].on /\ a = req[r].amount
      BY <2>1, <2>2 DEF Insert, Sound, At
    <3>. DEFINE new == [NoClaim EXCEPT !.status = "PENDING", !.amount = a, !.version = 1]
    <3>2. new \in ClaimRow
      BY NoClaimType DEF ClaimRow, Status
    <3>3. UNCHANGED claim \/ (claim[e] = NoClaim /\ claim' = [claim EXCEPT ![e] = new])
      <4>1. CASE claim[e] = NoClaim
        BY <2>2, <3>1, <4>1, Zenon DEF Insert
      <4>2. CASE claim[e] # NoClaim
        BY <2>2, <3>1, <4>2, Zenon DEF Insert
      <4>. QED
        BY <4>1, <4>2
    <3>4. claim[e] = NoClaim => Changed(claim[e], new, Unshared(e))
      BY DEF Changed
    <3>. HIDE DEF new
    <3>. QED
      BY <3>2, <3>3, <3>4 DEF ClaimStep
  <2>3. ASSUME Reprice(r) PROVE ClaimStep
    <3>1. At(r, "reprice") /\ (SameVersion(r) \/ UNCHANGED claim)
      BY <2>3 DEF Reprice
    <3>2. CASE SameVersion(r)
      <4>. DEFINE e == req[r].on
                  a == req[r].amount
      <4>1. e \in Enrollment /\ a \in Amount
        BY <2>1, <3>1 DEF Sound, At
      <4>. DEFINE new == [claim[e] EXCEPT !.amount = a, !.version = @ + 1]
      <4>2. new \in ClaimRow
        <5>1. ASSUME NEW row \in ClaimRow, NEW v \in Nat, NEW x \in Amount
              PROVE  [row EXCEPT !.amount = x, !.version = v] \in ClaimRow
          BY DEF ClaimRow
        <5>2. claim[e] \in ClaimRow /\ claim[e].version + 1 \in Nat
          BY <4>1, ClaimType DEF ClaimRow
        <5>. QED
          BY <4>1, <5>1, <5>2
      <4>3. claim' = [claim EXCEPT ![e] = new]
        BY <2>3, <3>2, Zenon DEF Reprice
      <4>4. claim[e].status \in {"PENDING", "CLAIMED", "DISPUTED"}
        BY <3>1, <3>2, <4>1, VersionedReprice
      <4>5. Changed(claim[e], new, Unshared(e))
        BY <4>1, <4>4 DEF Changed
      <4>. HIDE DEF new, e
      <4>. QED
        BY <4>1, <4>2, <4>3, <4>5 DEF ClaimStep
    <3>. QED
      BY <3>1, <3>2 DEF ClaimStep
  <2>4. ASSUME AutoDispute(r) PROVE ClaimStep
    <3>1. PICK e : e = req[r].on
      OBVIOUS
    <3>. DEFINE new == [claim[e] EXCEPT !.status = "DISPUTED"]
    <3>2. UNCHANGED claim \/ (claim[e].status \in Unpaid /\ claim' = [claim EXCEPT ![e] = new])
      <4>1. CASE claim[e].status \in Unpaid
        BY <2>4, <3>1, <4>1, Zenon DEF AutoDispute
      <4>2. CASE claim[e].status \notin Unpaid
        BY <2>4, <3>1, <4>2, Zenon DEF AutoDispute
      <4>. QED
        BY <4>1, <4>2
    <3>3. e \in Enrollment
      BY <2>1, <2>4, <3>1 DEF AutoDispute, Sound, At
    <3>4. new \in ClaimRow
      BY <3>3, ClaimType DEF ClaimRow, Status
    <3>5. claim[e].status \in Unpaid => Changed(claim[e], new, Unshared(e))
      BY DEF Changed
    <3>. HIDE DEF new
    <3>. QED
      BY <3>2, <3>3, <3>4, <3>5 DEF ClaimStep
  <2>. QED
    BY <1>1, <2>2, <2>3, <2>4 DEF HookNext, AskStatus, AskOutcome, Begins, WriteStatus, Reread,
         Price, Load, ClaimStep
<1>2. ASSUME NEW r \in Request, ClaimNext(r) \/ Fails(r) PROVE ClaimStep
  BY <1>2, HandlerSteps DEF ClaimNext, AskClaim, Begins, Number, Fails, ClaimStep
<1>3. ASSUME NEW e \in Enrollment, Delete(e) PROVE ClaimStep
  <2>. DEFINE new == [claim[e] EXCEPT !.deleted = TRUE]
  <2>1. UNCHANGED claim \/ (claim[e] # NoClaim /\ claim' = [claim EXCEPT ![e] = new])
    <3>1. CASE claim[e] = NoClaim
      BY <1>3, <3>1, Zenon DEF Delete
    <3>2. CASE claim[e] # NoClaim
      BY <1>3, <3>2, Zenon DEF Delete
    <3>. QED
      BY <3>1, <3>2
  <2>2. new \in ClaimRow
    BY ClaimType DEF ClaimRow
  <2>3. claim[e] # NoClaim => Changed(claim[e], new, Unshared(e))
    BY DEF Changed
  <2>. HIDE DEF new
  <2>. QED
    BY <2>1, <2>2, <2>3 DEF ClaimStep
<1>4. ASSUME NEW e \in Enrollment, Annotate(e) PROVE ClaimStep
  <2>. DEFINE new == [claim[e] EXCEPT !.version = @ + 1]
  <2>1. claim[e] # NoClaim /\ claim' = [claim EXCEPT ![e] = new]
    BY <1>4 DEF Annotate, Found
  <2>2. new \in ClaimRow
    BY ClaimType DEF ClaimRow
  <2>3. Changed(claim[e], new, Unshared(e))
    BY <2>1 DEF Changed
  <2>. HIDE DEF new
  <2>. QED
    BY <2>1, <2>2, <2>3 DEF ClaimStep
<1>5. CASE \/ UNCHANGED vars
           \/ \E e \in Enrollment, p \in Amount : SetTuition(e, p)
  BY <1>5 DEF vars, SetTuition, ClaimStep
<1>. QED
  BY <1>1, <1>2, <1>3, <1>4, <1>5 DEF Next
---------------------------------------------------------------------------
(* The invariant.                                                          *)

\* What a change does to the fields of the row.
LEMMA ChangedFields ==
  ASSUME NEW old \in ClaimRow, NEW new \in ClaimRow, NEW free, Changed(old, new, free),
         old.status = "NONE" => old = NoClaim,
         old.status = "PAID" <=> old.received # NoReceipt
  PROVE  /\ new.status = "NONE" => new = NoClaim
         /\ new.status = "PAID" <=> new.received # NoReceipt
         /\ old.version <= new.version
         /\ old.status # "NONE" => new.status # "NONE"
         /\ new.version = old.version => new.status \in {old.status, "DISPUTED"}
         /\ old.status = "PAID" =>
              new.status = "PAID" /\ new.amount = old.amount /\ new.received = old.received
              /\ new.number = old.number
         /\ new.number = old.number \/ (free /\ new.number # NoNumber)
         /\ new.status \in {"INVOICED", "PAID"} =>
              new.number # NoNumber \/ old.status \in {"INVOICED", "PAID"}
<1>1. old.status \in Status \union {"NONE"} /\ old.version \in Nat /\ old.number \in Nat
  BY DEF ClaimRow
<1>2. CASE new = old
  BY <1>1, <1>2
<1>3. CASE /\ old = NoClaim
           /\ \E a \in Amount : new = [NoClaim EXCEPT !.status = "PENDING", !.amount = a, !.version = 1]
  <2>1. /\ new.status = "PENDING" /\ new.received = NoReceipt /\ new.version = 1 /\ new.number = old.number
        /\ old.status = "NONE" /\ old.version = 0
    BY <1>3 DEF NoClaim
  <2>. QED
    BY <2>1
<1>4. CASE old # NoClaim /\ new = [old EXCEPT !.deleted = TRUE]
  <2>1. /\ new.status = old.status /\ new.received = old.received
        /\ new.version = old.version /\ new.number = old.number /\ new.amount = old.amount
    BY <1>4 DEF ClaimRow
  <2>. QED
    BY <1>1, <1>4, <2>1
<1>5. CASE old # NoClaim /\ new = [old EXCEPT !.version = @ + 1]
  <2>1. /\ new.status = old.status /\ new.received = old.received
        /\ new.version = old.version + 1 /\ new.number = old.number /\ new.amount = old.amount
    BY <1>5 DEF ClaimRow
  <2>. QED
    BY <1>1, <1>5, <2>1
<1>6. CASE /\ old.status \in {"PENDING", "CLAIMED", "DISPUTED"}
           /\ \E a \in Amount : new = [old EXCEPT !.amount = a, !.version = @ + 1]
  <2>1. /\ new.status = old.status /\ new.received = old.received
        /\ new.version = old.version + 1 /\ new.number = old.number
    <3>1. PICK a \in Amount : new = [old EXCEPT !.amount = a, !.version = @ + 1]
      BY <1>6
    <3>2. ASSUME NEW row \in ClaimRow, NEW v
          PROVE  LET other == [row EXCEPT !.amount = a, !.version = v]
                 IN  /\ other.status = row.status /\ other.received = row.received
                     /\ other.version = v /\ other.number = row.number
      BY DEF ClaimRow
    <3>. QED
      BY <3>1, <3>2
  <2>. QED
    BY <1>1, <1>6, <2>1
<1>7. CASE old.status \in Unpaid /\ new = [old EXCEPT !.status = "DISPUTED"]
  <2>1. /\ new.status = "DISPUTED" /\ new.received = old.received
        /\ new.version = old.version /\ new.number = old.number
    BY <1>7 DEF ClaimRow
  <2>. QED
    BY <1>1, <1>7, <2>1 DEF Unpaid
<1>8. CASE Handled(old, new, free)
  BY <1>1, <1>8, AmountAssumption DEF Handled, Status, NoReceipt
<1>. QED
  BY <1>2, <1>3, <1>4, <1>5, <1>6, <1>7, <1>8 DEF Changed

\* Two rows that differ in the version and the deletion only.
LEMMA SameButVersion ==
  ASSUME NEW old \in ClaimRow, NEW new \in ClaimRow,
         new.status = old.status, new.amount = old.amount,
         new.received = old.received, new.number = old.number
  PROVE  new = [old EXCEPT !.version = new.version, !.deleted = new.deleted]
  BY DEF ClaimRow

\* One claim changes, so the lemma above speaks for each of them.
LEMMA EachClaim ==
  ASSUME TypeOK, EmptyInv, ClaimStep
  PROVE  /\ claim' \in [Enrollment -> ClaimRow]
         /\ \A e \in Enrollment : claim'[e] = claim[e] \/ Changed(claim[e], claim'[e], Unshared(e))
         /\ \A e, f \in Enrollment : e # f => claim'[e] = claim[e] \/ claim'[f] = claim[f]
<1>1. CASE UNCHANGED claim
  BY <1>1, ClaimType
<1>2. CASE ~UNCHANGED claim
  <2>1. PICK e \in Enrollment : \E new \in ClaimRow :
          claim' = [claim EXCEPT ![e] = new] /\ Changed(claim[e], new, Unshared(e))
    BY <1>2 DEF ClaimStep
  <2>2. PICK new \in ClaimRow :
          claim' = [claim EXCEPT ![e] = new] /\ Changed(claim[e], new, Unshared(e))
    BY <2>1
  <2>3. claim' \in [Enrollment -> ClaimRow] /\ claim'[e] = new
    BY <2>2, ClaimType
  <2>4. \A f \in Enrollment \ {e} : claim'[f] = claim[f]
    BY <2>2, ClaimType
  <2>. QED
    BY <2>2, <2>3, <2>4
<1>. QED
  BY <1>1, <1>2

LEMMA NextEnrollments ==
  ASSUME TypeOK, RequestInv, [Next]_vars
  PROVE  /\ enr' \in [Enrollment -> EnrollmentStatus]
         /\ gone' \in [Enrollment -> BOOLEAN]
         /\ price' \in [Enrollment -> Amount]
<1>1. ASSUME NEW r \in Request, WriteStatus(r) PROVE enr' \in [Enrollment -> EnrollmentStatus]
  BY <1>1 DEF WriteStatus, TypeOK, RequestInv, RequestRow
<1>2. ASSUME NEW r \in Request, HookNext(r)
      PROVE  WriteStatus(r) \/ UNCHANGED enr
  BY <1>2 DEF HookNext, AskStatus, AskOutcome, Begins, Reread, Price, Load, Insert, Reprice,
     AutoDispute
<1>3. ASSUME NEW r \in Request, HookNext(r) PROVE UNCHANGED <<gone, price>>
  BY <1>3 DEF HookNext, AskStatus, AskOutcome, Begins, WriteStatus, Reread, Price, Load,
     Insert, Reprice, AutoDispute
<1>4. ASSUME NEW r \in Request, ClaimNext(r) \/ Fails(r) PROVE UNCHANGED <<enr, gone, price>>
  BY <1>4 DEF ClaimNext, AskClaim, Begins, Number, WriteClaim, Fails
<1>5. ASSUME NEW e \in Enrollment, Delete(e) \/ Annotate(e)
      PROVE  UNCHANGED <<enr, price>> /\ gone' \in [Enrollment -> BOOLEAN]
  BY <1>5 DEF Delete, Annotate, TypeOK
<1>6. ASSUME NEW e \in Enrollment, NEW p \in Amount, SetTuition(e, p)
      PROVE  UNCHANGED <<enr, gone>> /\ price' \in [Enrollment -> Amount]
  BY <1>6 DEF SetTuition, TypeOK
<1>. QED
  BY <1>1, <1>2, <1>3, <1>4, <1>5, <1>6 DEF Next, vars, TypeOK

\* A request that is about to reprice was so before, or has just read the claim.
LEMMA NextRepricer ==
  ASSUME TypeOK, EmptyInv, RequestInv, [Next]_vars, NEW r \in Request, At(r, "reprice")'
  PROVE  \/ req'[r] = req[r]
         \/ /\ UNCHANGED claim /\ req'[r].on \in Enrollment
            /\ req'[r].saw = claim[req'[r].on] /\ req'[r].saw.status # "NONE"
<1>. DEFINE Read == /\ UNCHANGED claim /\ req'[r].on \in Enrollment
                    /\ req'[r].saw = claim[req'[r].on] /\ req'[r].saw.status # "NONE"
<1>1. ASSUME NEW q \in Request, NEW s, Goes(q, s)
      PROVE  IF q = r THEN req'[r] = s ELSE req'[r] = req[r]
  BY <1>1 DEF Goes, RequestInv
<1>2. ASSUME NEW q \in Request, NEW s, Goes(q, s), s.step # "reprice"
      PROVE  req'[r] = req[r]
  BY <1>1, <1>2 DEF At
<1>3. ASSUME NEW q \in Request, Ends(q) PROVE req'[r] = req[r]
  BY <1>2, <1>3, IdleType DEF Ends
<1>4. ASSUME NEW q \in Request PROVE req[q] \in RequestRow /\ Sound(req[q])
  BY DEF RequestInv
<1>5. ASSUME NEW q \in Request, HookNext(q) PROVE req'[r] = req[r] \/ Read
  <2>1. ASSUME NEW e \in Enrollment, NEW to, AskStatus(q, e, to) PROVE req'[r] = req[r]
    <3>. DEFINE s == [Idle EXCEPT !.step = "status", !.op = "move", !.on = e,
                                  !.from = enr[e], !.to = to]
    <3>1. s.step = "status"
      BY DEF Idle
    <3>. HIDE DEF s
    <3>. QED
      BY <1>2, <2>1, <3>1 DEF AskStatus, Begins, s
  <2>2. ASSUME NEW e \in Enrollment, AskOutcome(q, e) PROVE req'[r] = req[r]
    <3>. DEFINE s == [Idle EXCEPT !.step = "price", !.op = "outcome", !.on = e]
    <3>1. s.step = "price"
      BY DEF Idle
    <3>. HIDE DEF s
    <3>. QED
      BY <1>2, <2>2, <3>1 DEF AskOutcome, Begins, s
  <2>3. ASSUME NEW x, NEW s, s = [req[q] EXCEPT !.step = x] PROVE s.step = x
    BY <1>4, <2>3 DEF RequestRow
  <2>4. ASSUME WriteStatus(q) PROVE req'[r] = req[r]
    <3>. DEFINE s == [req[q] EXCEPT !.step = "reread", !.to = "OFFERED"]
    <3>1. s.step = "reread"
      BY <1>4 DEF RequestRow
    <3>2. Ends(q) \/ Goes(q, s)
      BY <2>4 DEF WriteStatus
    <3>. HIDE DEF s
    <3>. QED
      BY <1>2, <1>3, <3>1, <3>2
  <2>5. ASSUME Reread(q) PROVE req'[r] = req[r]
    <3>1. Ends(q) \/ \E x \in {"price", "dispute"} : Goes(q, [req[q] EXCEPT !.step = x])
      BY <2>5 DEF Reread
    <3>2. ASSUME NEW x \in {"price", "dispute"}, Goes(q, [req[q] EXCEPT !.step = x])
          PROVE  req'[r] = req[r]
      <4>1. PICK s : s = [req[q] EXCEPT !.step = x]
        OBVIOUS
      <4>. QED
        BY <1>2, <2>3, <3>2, <4>1
    <3>. QED
      BY <1>3, <3>1, <3>2
  <2>6. ASSUME Price(q) PROVE req'[r] = req[r]
    <3>. DEFINE s == [req[q] EXCEPT !.step = "load", !.amount = price[req[q].on]]
    <3>1. s.step = "load"
      BY <1>4 DEF RequestRow
    <3>2. Ends(q) \/ Goes(q, s)
      BY <2>6 DEF Price
    <3>. HIDE DEF s
    <3>. QED
      BY <1>2, <1>3, <3>1, <3>2
  <2>7. ASSUME Load(q) PROVE req'[r] = req[r] \/ Read
    <3>. DEFINE row == Found(req[q].on)
                insert == [req[q] EXCEPT !.step = "insert"]
                reprice == [req[q] EXCEPT !.step = "reprice", !.saw = row]
    <3>1. /\ At(q, "load") /\ UNCHANGED claim
          /\ Ends(q) \/ Goes(q, insert) \/ (Goes(q, reprice) /\ row # NoClaim)
      BY <2>7 DEF Load
    <3>2. insert.step = "insert" /\ reprice.saw = row /\ reprice.on = req[q].on
      BY <1>4 DEF RequestRow
    <3>3. PICK e \in Enrollment : e = req[q].on
      BY <1>4, <3>1 DEF Sound, At
    <3>4. row # NoClaim => row = claim[e] /\ claim[e].status # "NONE"
      BY <3>3 DEF Found, EmptyInv
    <3>. HIDE DEF row, insert, reprice
    <3>5. CASE Goes(q, reprice) /\ row # NoClaim
      <4>1. CASE q = r
        BY <1>1, <3>1, <3>2, <3>3, <3>4, <3>5, <4>1
      <4>2. CASE q # r
        BY <1>1, <3>5, <4>2
      <4>. QED
        BY <4>1, <4>2
    <3>. QED
      BY <1>2, <1>3, <3>1, <3>2, <3>5
  <2>8. ASSUME Reprice(q) PROVE req'[r] = req[r]
    <3>. DEFINE s == [req[q] EXCEPT !.step = "load", !.saw = NoClaim, !.tries = @ + 1]
    <3>1. Ends(q) \/ Goes(q, s)
      BY <2>8 DEF Reprice
    <3>2. ASSUME NEW n
          PROVE  [req[q] EXCEPT !.step = "load", !.saw = NoClaim, !.tries = n].step = "load"
      BY <1>4 DEF RequestRow
    <3>3. s.step = "load"
      BY <3>2
    <3>. HIDE DEF s
    <3>. QED
      BY <1>2, <1>3, <3>1, <3>3
  <2>. QED
    BY <1>3, <1>5, <2>1, <2>2, <2>4, <2>5, <2>6, <2>7, <2>8 DEF HookNext, Insert, AutoDispute
<1>6. ASSUME NEW q \in Request, ClaimNext(q) PROVE req'[r] = req[r]
  <2>1. ASSUME NEW op \in DOMAIN From, NEW e \in Enrollment, NEW given \in Amount,
               AskClaim(q, op, e, given)
        PROVE  req'[r] = req[r]
    <3>. DEFINE step == IF op \in {"invoice", "resolve"} /\ Found(e).number = NoNumber
                        THEN "number" ELSE "write"
                s == [Idle EXCEPT !.op = op, !.on = e, !.saw = Found(e), !.amount = given,
                                  !.number = Found(e).number, !.step = step]
    <3>1. Goes(q, s)
      BY <2>1 DEF AskClaim, Begins
    <3>2. step # "reprice"
      OBVIOUS
    <3>. HIDE DEF step
    <3>3. s.step = step
      BY DEF Idle
    <3>. HIDE DEF s
    <3>. QED
      BY <1>2, <3>1, <3>2, <3>3
  <2>2. ASSUME Number(q) PROVE req'[r] = req[r]
    <3>1. PICK n : Goes(q, [req[q] EXCEPT !.step = "write", !.number = n])
      BY <2>2 DEF Number
    <3>. DEFINE s == [req[q] EXCEPT !.step = "write", !.number = n]
    <3>2. s.step = "write"
      BY <1>4 DEF RequestRow
    <3>3. Goes(q, s)
      BY <3>1
    <3>. HIDE DEF s
    <3>. QED
      BY <1>2, <3>2, <3>3
  <2>. QED
    BY <1>3, <1>6, <2>1, <2>2 DEF ClaimNext, WriteClaim
<1>7. ASSUME NEW q \in Request, Fails(q) PROVE req'[r] = req[r]
  BY <1>3, <1>7 DEF Fails
<1>. QED
  BY <1>5, <1>6, <1>7 DEF Next, vars, SetTuition, Delete, Annotate

LEMMA NextIInv == IInv /\ [Next]_vars => IInv'
<1>. SUFFICES ASSUME IInv, [Next]_vars PROVE IInv'
  OBVIOUS
<1>. USE DEF IInv
<1>1. ClaimStep
  BY NextClaimSteps
<1>2. claim \in [Enrollment -> ClaimRow] /\ claim' \in [Enrollment -> ClaimRow]
  BY <1>1, ClaimType, EachClaim
<1>3. \A e \in Enrollment : claim'[e] = claim[e] \/ Changed(claim[e], claim'[e], Unshared(e))
  BY <1>1, EachClaim
<1>4. ASSUME NEW e \in Enrollment
      PROVE  LET old == claim[e]  new == claim'[e] IN
             /\ new.status = "NONE" => new = NoClaim
             /\ new.status = "PAID" <=> new.received # NoReceipt
             /\ old.version <= new.version
             /\ old.status # "NONE" => new.status # "NONE"
             /\ new.version = old.version => new.status \in {old.status, "DISPUTED"}
             /\ new.number = old.number \/ (Unshared(e) /\ new.number # NoNumber)
             /\ new.status \in {"INVOICED", "PAID"} =>
                  new.number # NoNumber \/ old.status \in {"INVOICED", "PAID"}
  <2>1. claim[e] \in ClaimRow /\ claim'[e] \in ClaimRow
    BY <1>2
  <2>2. /\ claim[e].status = "NONE" => claim[e] = NoClaim
        /\ claim[e].status = "PAID" <=> claim[e].received # NoReceipt
    BY DEF EmptyInv, TypeOK
  <2>3. Changed(claim[e], claim'[e], Unshared(e))
    BY <1>3 DEF Changed
  <2>. QED
    BY <2>1, <2>2, <2>3, ChangedFields
<1>5. TypeOK'
  BY <1>2, <1>4, NextEnrollments DEF TypeOK, ClaimRow
<1>6. EmptyInv'
  BY <1>4 DEF EmptyInv
<1>7. RequestInv'
  BY NextKeepsRequests
<1>8. VersionInv'
  <2>. SUFFICES ASSUME NEW r \in Request, At(r, "reprice")'
                PROVE  LET row == claim'[req'[r].on] IN
                       /\ row.status # "NONE" /\ req'[r].saw.version <= row.version
                       /\ row.version = req'[r].saw.version =>
                            row.status \in {req'[r].saw.status, "DISPUTED"}
    BY DEF VersionInv
  <2>1. CASE req'[r] = req[r]
    <3>1. At(r, "reprice")
      BY <2>1 DEF At
    <3>2. PICK e \in Enrollment : e = req[r].on
      BY <3>1 DEF RequestInv, Sound, At
    <3>3. /\ req[r].saw.version \in Nat /\ claim[e].version \in Nat
          /\ claim'[e].version \in Nat
      BY <1>2 DEF RequestInv, RequestRow, ClaimRow
    <3>4. /\ claim[e].status # "NONE" /\ req[r].saw.version <= claim[e].version
          /\ claim[e].version = req[r].saw.version =>
               claim[e].status \in {req[r].saw.status, "DISPUTED"}
      BY <3>1, <3>2 DEF VersionInv
    <3>. QED
      BY <1>4, <2>1, <3>2, <3>3, <3>4
  <2>2. CASE req'[r] # req[r]
    <3>1. PICK e \in Enrollment : e = req'[r].on /\ claim'[e] = claim[e]
            /\ req'[r].saw = claim[e] /\ claim[e].status # "NONE"
      BY <2>2, NextRepricer
    <3>2. claim[e].version \in Nat
      BY <1>2 DEF ClaimRow
    <3>. QED
      BY <3>1, <3>2
  <2>. QED
    BY <2>1, <2>2
<1>9. NumberInv'
  <2>1. ASSUME NEW e \in Enrollment, claim'[e].status \in {"INVOICED", "PAID"}
        PROVE  claim'[e].number # NoNumber
    BY <1>4, <2>1 DEF NumberInv
  <2>2. ASSUME NEW e \in Enrollment, NEW f \in Enrollment, e # f, claim'[e].number # NoNumber
        PROVE  claim'[e].number # claim'[f].number
    <3>1. claim'[e] = claim[e] \/ claim'[f] = claim[f]
      BY <1>1, <2>2, EachClaim
    <3>2. /\ claim'[e].number = claim[e].number \/ claim[f].number # claim'[e].number
          /\ claim'[f].number = claim[f].number \/ claim[e].number # claim'[f].number
      BY <1>4, <2>2 DEF Unshared
    <3>. QED
      BY <2>2, <3>1, <3>2 DEF NumberInv
  <2>. QED
    BY <2>1, <2>2 DEF NumberInv, NoNumber
<1>. QED
  BY <1>5, <1>6, <1>7, <1>8, <1>9
---------------------------------------------------------------------------
LEMMA Invariant == Spec => []IInv
  BY InitIInv, NextIInv, PTL DEF Spec

\* Rows are well formed, and a receipt is on the paid ones only
\* (commission-claims.service.ts, commissions/hooks.ts).
THEOREM TypeCorrect == Spec => []TypeOK
  BY Invariant, PTL DEF IInv

\* What is invoiced or paid has a number that no other claim has: the unique index
\* decides between requests that drew the same one.
THEOREM NumbersCorrect == Spec => []InvoicesAreNumbered
<1>1. IInv => InvoicesAreNumbered
  BY DEF IInv, NumberInv, InvoicesAreNumbered
<1>. QED
  BY <1>1, Invariant, PTL

\* What was decided about a claim before it was paid does not change it afterwards.
THEOREM PaidFinal == Spec => PaidIsFinal
<1>1. ASSUME IInv, [Next]_vars, NEW e \in Enrollment, claim[e].status = "PAID"
      PROVE  claim'[e] = [claim[e] EXCEPT !.version = claim'[e].version,
                                          !.deleted = claim'[e].deleted]
  <2>1. claim \in [Enrollment -> ClaimRow] /\ claim' \in [Enrollment -> ClaimRow]
    BY <1>1, NextClaimSteps, ClaimType, EachClaim DEF IInv
  <2>2. Changed(claim[e], claim'[e], Unshared(e))
    BY <1>1, NextClaimSteps, EachClaim DEF IInv, Changed
  <2>3. /\ claim[e].status = "NONE" => claim[e] = NoClaim
        /\ claim[e].status = "PAID" <=> claim[e].received # NoReceipt
    BY <1>1 DEF IInv, EmptyInv, TypeOK
  <2>4. /\ claim'[e].status = claim[e].status /\ claim'[e].amount = claim[e].amount
        /\ claim'[e].received = claim[e].received /\ claim'[e].number = claim[e].number
    BY <1>1, <2>1, <2>2, <2>3, ChangedFields
  <2>. QED
    BY <2>1, <2>4, SameButVersion
<1>2. IInv /\ [Next]_vars =>
        [\A e \in Enrollment : claim[e].status = "PAID" =>
           claim'[e] = [claim[e] EXCEPT !.version = claim'[e].version,
                                        !.deleted = claim'[e].deleted]]_vars
  BY <1>1
<1>. QED
  BY <1>2, Invariant, PTL DEF Spec, PaidIsFinal

\* A repricing decided on while the claim was open does not land on one that was
\* invoiced, paid or waived since: each of those gave it a new version.
THEOREM RepriceOpen == Spec => RepricesOnlyOpen
<1>1. ASSUME IInv, NEW r \in Request, Reprice(r),
             claim[req[r].on].status \in {"INVOICED", "PAID", "WAIVED"}
      PROVE  UNCHANGED claim
  <2>1. ~SameVersion(r)
    BY <1>1, VersionedReprice DEF IInv, Reprice
  <2>. QED
    BY <1>1, <2>1 DEF Reprice
<1>2. IInv /\ [Next]_vars =>
        [\A r \in Request :
           Reprice(r) /\ claim[req[r].on].status \in {"INVOICED", "PAID", "WAIVED"}
             => UNCHANGED claim]_vars
  BY <1>1
<1>. QED
  BY <1>2, Invariant, PTL DEF Spec, RepricesOnlyOpen
=============================================================================
