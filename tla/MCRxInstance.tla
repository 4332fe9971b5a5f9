----------------------------- MODULE MCRxInstance -----------------------------
(* Two seeds, and two algorithms with different numbers of threads.  The    *)
(* division of the dataset, which RxInstance fills in one step, is checked *)
(* beside it: a behaviour is one of the instances or one of the division.   *)
EXTENDS RxInstance, DatasetSplit

VARIABLE moves

McSeeds   == {"s1", "s2"}
McAlgos   == {"rx/0", "rx/wow"}
McThreads == [a \in McAlgos |-> IF a = "rx/0" THEN 1 ELSE 2]

\* Every remainder of the size modulo five and the number of threads.
McItemCounts   == 5..40
McThreadCounts == 1..4

McInit == Init /\ InitSplit /\ moves \in {"instances", "split"}
            /\ (moves = "instances" => count = 5 /\ ~avx2)
McNext == \/ moves = "instances" /\ Next /\ UNCHANGED <<splitVars, moves>>
          \/ moves = "split" /\ NextSplit /\ UNCHANGED <<vars, moves>>
McSpec == McInit /\ [][McNext]_<<vars, splitVars, moves>>
=============================================================================
