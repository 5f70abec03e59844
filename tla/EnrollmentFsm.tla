---------------------------- MODULE EnrollmentFsm ----------------------------
(* The statuses of an enrollment and the moves an administrator may make.  *)

EnrollmentStatus == {"OFFERED", "ACCEPTED", "ENROLLED", "ON_LEAVE", "DEFERRED",
                     "WITHDRAWN", "COMPLETED", "CANCELLED"}

Successors ==
  [OFFERED   |-> {"ACCEPTED", "CANCELLED"},
   ACCEPTED  |-> {"ENROLLED", "DEFERRED", "WITHDRAWN", "CANCELLED"},
   ENROLLED  |-> {"COMPLETED", "WITHDRAWN", "DEFERRED", "ON_LEAVE"},
   DEFERRED  |-> {"ENROLLED", "WITHDRAWN"},
   ON_LEAVE  |-> {"ENROLLED", "WITHDRAWN", "COMPLETED", "DEFERRED"},
   COMPLETED |-> {"ENROLLED"},
   WITHDRAWN |-> {"ENROLLED"},
   CANCELLED |-> {"OFFERED"}]
=============================================================================
