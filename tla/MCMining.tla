------------------------------- MODULE MCMining -------------------------------
(* What a share is, what becomes of it, and for whom it is: JobTarget,     *)
(* Shares and FeeClock side by side.  Shares takes any hashes as good and  *)
(* lets a fee period begin and end at any moment, so the three are not     *)
(* interleaved: in each behaviour one of them moves.                        *)
(*                                                                         *)
(* Two user jobs and one dev job; three nonces, all of which are shares    *)
(* for the user's pool, are more than the history keeps.                   *)
EXTENDS Shares, FeeClock, JobTarget

VARIABLE moves

MCMaxJobs  == [p \in Pools |-> IF p = "user" THEN 2 ELSE 1]
MCMaxDrops == [p \in Pools |-> IF p = "user" THEN 1 ELSE 0]
MCJob(p, n) == [pool |-> p, n |-> n]
MCGood == {Share(MCJob("user", i), k) : i \in 1..2, k \in 0..2} \cup {Share(MCJob("dev", 1), 0)}
MCWatched == Share(MCJob("user", 1), 0)

InitMining == Init /\ InitClock /\ InitTarget /\ moves \in {"shares", "clock", "target"}
              /\ (moves # "clock" => feeEnabled)
              /\ (moves # "target" => text = [bytes |-> 0, value |-> 0])
NextMining == \/ moves = "shares" /\ Next /\ UNCHANGED <<clock, targetVars, moves>>
              \/ moves = "clock" /\ NextClock /\ UNCHANGED <<vars, targetVars, moves>>
              \/ moves = "target" /\ NextTarget /\ UNCHANGED <<vars, clock, moves>>
MiningSpec == InitMining /\ [][NextMining]_<<vars, clock, targetVars, moves>>
=============================================================================
