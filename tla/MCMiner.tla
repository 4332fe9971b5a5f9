------------------------------- MODULE MCMiner -------------------------------
(* Miner with two algorithms, one of which runs fewer threads. *)
EXTENDS Miner

CONSTANTS rx0, wow      \* algorithms
MCThreads == [a \in Algos |-> IF a = rx0 THEN 2 ELSE 1]
=============================================================================
