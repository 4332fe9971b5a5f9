---------------------------- MODULE MCJobBuffer ----------------------------
(* JobBuffer on three members and a few jobs: two user jobs in a row, then *)
(* the dev-fee period begins, and a user job again when it is over.  Slots *)
(* are reused every second job, so the jobs that can meet in a slot differ *)
(* by two.                                                                  *)
EXTENDS JobBuffer

MCPoolOf == [j \in 0..MaxJobs |-> IF j \in {3, 4} THEN 1 ELSE 0]
=============================================================================
