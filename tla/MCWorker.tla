------------------------------ MODULE MCWorker ------------------------------
(* Worker on the jobs of MCJobBuffer: a worker in the middle of the nonces *)
(* and the last one.  A range has three nonces, so a job sees it wrap.     *)
EXTENDS Worker

MCPoolOf == [j \in 0..MaxJobs |-> IF j \in {3, 4} THEN 1 ELSE 0]
=============================================================================
