----------------------------- MODULE MCAuditChain -----------------------------
(* Three entries, two writers, two runs of the job.                        *)
EXTENDS AuditChain

\* Neither the fairness nor a property names a writer or a run.
Alike == Permutations(Writer) \union Permutations(Job)
=============================================================================
