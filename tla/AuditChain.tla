------------------------------ MODULE AuditChain ------------------------------
(***************************************************************************)
(* The audit log of one tenant: writers that insert entries, each in a     *)
(* transaction of its own, the trigger that links an entry to the latest   *)
(* one, the walk that verifies the links, and the daily job that folds the *)
(* entries past the last anchor onto its root.                             *)
(*                                                                         *)
(* An entry is stamped by the clock of the application before its          *)
(* transaction begins and is seen by others when that commits.  Hashes are *)
(* taken to be free of collisions: an entry's hash is the entry, a root is *)
(* the sequence of entries folded into it, and whether the folding began   *)
(* from nothing or from EMPTY_CHAIN_ROOT.                                  *)
(***************************************************************************)
EXTENDS Integers, Sequences, FiniteSets, SequencesExt

CONSTANTS
  Entry,      \* ids; uuids, so their order says nothing of time
  None,
  Writer,     \* requests that write an entry
  Job,        \* runs of hash.anchor that may overlap
  LastTick,   \* bound of the clock
  MaxFaults   \* bound: writes that fail, jobs that die, jobs started beside another

ASSUME EntryAssumption == Entry \subseteq Nat /\ None \notin Entry
ASSUME BoundAssumption == LastTick \in Nat /\ MaxFaults \in Nat

VARIABLES
  clock,
  log,      \* audit_logs, what is committed
  writer,   \* the write each writer is in
  anchors,  \* audit_anchors, in the order of anchored_at
  job,      \* what each run of the job has read
  calm,     \* ghost: so far no entry was stamped before the one ahead of it was in
  faults

vars == <<clock, log, writer, anchors, job, calm, faults>>

Absent == [in |-> FALSE, at |-> 0, prev |-> None]
NoWrite == [step |-> "idle", entry |-> None, at |-> 0, head |-> None]
NoJob == [step |-> "idle", prior |-> 0, rows |-> <<>>]

Committed == {e \in Entry : log[e].in}
At(w, step) == writer[w].step = step

\* ORDER BY created_at, id.
Key(e) == <<log[e].at, e>>
Less(k, l) == k[1] < l[1] \/ (k[1] = l[1] /\ k[2] < l[2])
InOrder(s) == \A k, l \in DOMAIN s : k < l => Less(Key(s[k]), Key(s[l]))
Sorted(es) == CHOOSE s \in [1..Cardinality(es) -> es] : InOrder(s)
---------------------------------------------------------------------------
(* writeAudit and the trigger.                                             *)

Stamp(w, e) ==
  /\ At(w, "idle")
  /\ ~log[e].in /\ \A x \in Writer : writer[x].entry # e
  /\ writer' = [writer EXCEPT ![w] = [step |-> "insert", entry |-> e, at |-> clock, head |-> None]]
  /\ calm' = (calm /\ (\A x \in Writer : At(x, "idle")) /\ \A f \in Committed : log[f].at < clock)
  /\ UNCHANGED <<clock, log, anchors, job, faults>>

\* Mutant: the latest entry is the one with the greatest id.
LatestById == IF Committed = {} THEN None
              ELSE CHOOSE e \in Committed : \A f \in Committed : f <= e

\* SELECT ... ORDER BY created_at DESC, id DESC LIMIT 1.
Latest == IF Committed = {} THEN None
          ELSE CHOOSE e \in Committed : \A f \in Committed \ {e} : Less(Key(f), Key(e))

FindHead(w) ==
  /\ At(w, "insert")
  /\ writer' = [writer EXCEPT ![w].step = "lock", ![w].head = Latest]
  /\ UNCHANGED <<clock, log, anchors, job, calm, faults>>

\* FOR UPDATE: waits for whoever holds the row; since nobody changes it, the row
\* found before the wait is returned after it.  Where no row was found there is
\* nothing to wait for.
LockHead(w) ==
  /\ At(w, "lock")
  /\ \A x \in Writer \ {w} :
       At(x, "locked") /\ writer[x].head = writer[w].head => writer[w].head = None
  /\ writer' = [writer EXCEPT ![w].step = "locked"]
  /\ UNCHANGED <<clock, log, anchors, job, calm, faults>>

Commit(w) ==
  /\ At(w, "locked")
  /\ log' = [log EXCEPT ![writer[w].entry] =
               [in |-> TRUE, at |-> writer[w].at, prev |-> writer[w].head]]
  /\ writer' = [writer EXCEPT ![w] = NoWrite]
  /\ UNCHANGED <<clock, anchors, job, calm, faults>>

\* Any error; it is logged and swallowed, and the entry is lost.
WriteFails(w) ==
  /\ faults < MaxFaults
  /\ ~At(w, "idle")
  /\ writer' = [writer EXCEPT ![w] = NoWrite]
  /\ faults' = faults + 1
  /\ UNCHANGED <<clock, log, anchors, job, calm>>

Tick ==
  /\ clock < LastTick
  /\ clock' = clock + 1
  /\ UNCHANGED <<log, writer, anchors, job, calm, faults>>

\* audit_logs_verify walks the log in order and expects each entry to be linked
\* to the one it has just passed.
Intact ==
  LET walk == Sorted(Committed)
  IN \A i \in DOMAIN walk : log[walk[i]].prev = IF i = 1 THEN None ELSE walk[i - 1]
---------------------------------------------------------------------------
(* hash.anchor.                                                            *)

\* No anchor: '' and no watermark, which is a scan of the whole log.
Prior(j) == IF job[j].prior = 0 THEN [zeros |-> FALSE, fold |-> <<>>, mark |-> <<-1, 0>>]
                                ELSE anchors[job[j].prior]

\* Each instance of the backend has a scheduler, and the advisory lock between them
\* may fail to keep two runs apart.
ReadPrior(j) ==
  /\ job[j].step = "idle"
  /\ job' = [job EXCEPT ![j] = [step |-> "rows", prior |-> Len(anchors), rows |-> <<>>]]
  /\ \/ (\A k \in Job : job[k].step = "idle") /\ faults' = faults
     \/ faults < MaxFaults /\ faults' = faults + 1
  /\ UNCHANGED <<clock, log, writer, anchors, calm>>

\* Mutant: past the watermark or at it.
PastOrAt(mark) == {e \in Committed : ~Less(Key(e), mark)}

\* (created_at, id) > (watermark.created_at, watermark.id)
Past(mark) == {e \in Committed : Less(mark, Key(e))}

ReadRows(j) ==
  /\ job[j].step = "rows"
  /\ job' = [job EXCEPT ![j].step = "persist", ![j].rows = Sorted(Past(Prior(j).mark))]
  /\ UNCHANGED <<clock, log, writer, anchors, calm, faults>>

\* Mutant: one anchor is enough.
NothingToDoAgain(j) == job[j].prior > 0

NothingToDo(j) == job[j].rows = <<>> /\ job[j].prior > 0

\* root_hash: r.root || EMPTY_CHAIN_ROOT: the first anchor of an empty log is stored
\* as zeros, without a watermark, and the next root is folded onto those zeros.
Persist(j) ==
  LET rows == job[j].rows
      fold == Prior(j).fold \o rows
  IN /\ job[j].step = "persist"
     /\ anchors' = IF NothingToDo(j) THEN anchors
                   ELSE Append(anchors,
                          [zeros |-> Prior(j).zeros \/ fold = <<>>,
                           fold |-> fold,
                           mark |-> IF rows = <<>> THEN Prior(j).mark ELSE Key(Last(rows))])
     /\ job' = [job EXCEPT ![j] = NoJob]
     /\ UNCHANGED <<clock, log, writer, calm, faults>>

JobFails(j) ==
  /\ faults < MaxFaults
  /\ job[j].step # "idle"
  /\ job' = [job EXCEPT ![j] = NoJob]
  /\ faults' = faults + 1
  /\ UNCHANGED <<clock, log, writer, anchors, calm>>
---------------------------------------------------------------------------
Init ==
  /\ clock = 0
  /\ log = [e \in Entry |-> Absent]
  /\ writer = [w \in Writer |-> NoWrite]
  /\ anchors = <<>>
  /\ job = [j \in Job |-> NoJob]
  /\ calm = TRUE
  /\ faults = 0

Anchor(j) == ReadPrior(j) \/ ReadRows(j) \/ Persist(j)

Next ==
  \/ \E w \in Writer : \/ \E e \in Entry : Stamp(w, e)
                       \/ FindHead(w) \/ LockHead(w) \/ Commit(w) \/ WriteFails(w)
  \/ \E j \in Job : Anchor(j) \/ JobFails(j)
  \/ Tick

\* The scheduler runs the job every day.
Spec == Init /\ [][Next]_vars
FairSpec == Spec /\ WF_vars(\E j \in Job : Anchor(j))
---------------------------------------------------------------------------
(* Properties.                                                             *)

\* A write has an entry from its stamp on; what a run of the job goes by was an
\* anchor when it read it, and anchors stay.
TypeOK ==
  /\ clock \in Nat
  /\ log \in [Entry -> [in : BOOLEAN, at : Nat, prev : Entry \union {None}]]
  /\ writer \in [Writer -> [step : {"idle", "insert", "lock", "locked"},
                            entry : Entry \union {None}, at : Nat,
                            head : Entry \union {None}]]
  /\ \A w \in Writer : At(w, "idle") <=> writer[w].entry = None
  /\ anchors \in Seq([zeros : BOOLEAN, fold : Seq(Entry), mark : (Nat \union {-1}) \X Nat])
  /\ job \in [Job -> [step : {"idle", "rows", "persist"}, prior : 0..Len(anchors),
                      rows : Seq(Entry)]]
  /\ calm \in BOOLEAN
  /\ faults \in 0..MaxFaults

\* However runs of the job overlap or die and however late entries commit, no root
\* counts an entry twice: the entries behind a root are committed, and stand in the
\* order of the log.
AnchorsCountOnce ==
  \A i \in DOMAIN anchors : LET fold == anchors[i].fold IN
    /\ \A k \in DOMAIN fold : fold[k] \in Committed
    /\ InOrder(fold)

\* As long as each entry was stamped after the one before it had committed, the
\* chain verifies, and every incremental root counts exactly the entries a full
\* re-hash up to its watermark would; it is the root of that re-hash unless this
\* anchor or one before it was made of an empty log.
CalmIsIntact ==
  calm => /\ Intact
          /\ \A i \in DOMAIN anchors :
               /\ anchors[i].fold = Sorted({e \in Committed : ~Less(anchors[i].mark, Key(e))})
               /\ anchors[i].zeros => \E k \in 1..i : anchors[k].fold = <<>>

\* In such a log every entry is anchored in the end: by the newest anchor too.
Anchored(e) == anchors # <<>> /\ e \in Range(Last(anchors).fold)
CalmIsAnchored == \A e \in Entry : (e \in Committed /\ calm) ~> (Anchored(e) \/ ~calm)

\* The trigger's migration (20991231235996, lines 23-26) promises that a concurrent
\* insert waits, then links to the row just committed: the chain is linear.  It
\* speaks of a log that has a row to lock (line 32), so first entries are set aside.
ChainIsLinear ==
  \A e, f \in Committed : e # f /\ log[e].prev # None => log[e].prev # log[f].prev
=============================================================================
