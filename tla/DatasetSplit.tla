----------------------------- MODULE DatasetSplit -----------------------------
(***************************************************************************)
(* RxInstance::initDataset: the items of the dataset are divided among     *)
(* threads that fill their parts at the same time, each by one or two      *)
(* calls of randomx_init_dataset, and are joined.  A call is               *)
(* <<first item, number of items>>.  The AVX2 code computes five items at  *)
(* a time, so a part whose length is no multiple of five ends with a call  *)
(* for five items that begins before the other call ends.                  *)
(*                                                                         *)
(* With one thread, or none, the calling thread fills the dataset by the   *)
(* same calls.  Arithmetic is that of unsigned long, modulo Word.          *)
(***************************************************************************)
EXTENDS Integers, Sequences

CONSTANTS
    Word,           \* 2^64 on Linux, 2^32 on Windows
    ItemCounts,     \* sizes of the dataset: randomx_dataset_item_count()
    ThreadCounts    \* numbers of threads

\* No product overflows and a part has five items: with the 34078719 items of
\* a dataset, up to 126 threads on Windows and millions on Linux.
ASSUME SplitAssumption ==
    /\ Word \in Nat \ {0}
    /\ ItemCounts \subseteq Nat /\ ThreadCounts \subseteq Nat \ {0}
    /\ \A n \in ItemCounts, t \in ThreadCounts : n * t < Word

VARIABLES
    count,      \* datasetItemCount
    threads,    \* threads
    avx2,       \* cpu().hasAVX2()
    todo,       \* per thread: the calls it has still to make
    written,    \* per thread: the items it has computed
    joined      \* all threads were joined

splitVars == <<count, threads, avx2, todo, written, joined>>

Start(n, t, i) == ((n * i) % Word) \div t

\* Mutant: every part has the same length.
EndEven(n, t, i) == Start(n, t, i) + n \div t

End(n, t, i) == ((n * (i + 1)) % Word) \div t

CallsFor(start, size, five) ==
    IF five /\ size % 5 # 0
    THEN << <<start, size - (size % 5)>>, <<(start + size - 5) % Word, 5>> >>
    ELSE << <<start, size>> >>

CallsOf(n, t, i, five) == CallsFor(Start(n, t, i), (End(n, t, i) - Start(n, t, i)) % Word, five)

Items(c) == c[1] .. c[1] + c[2] - 1

InitSplit ==
    /\ count \in ItemCounts /\ threads \in ThreadCounts /\ avx2 \in BOOLEAN
    /\ count >= 5 * threads
    /\ todo = [i \in 0..threads - 1 |-> CallsOf(count, threads, i, avx2)]
    /\ written = [i \in 0..threads - 1 |-> {}]
    /\ joined = FALSE

Fill(i) ==
    /\ todo[i] # <<>>
    /\ written' = [written EXCEPT ![i] = @ \cup Items(Head(todo[i]))]
    /\ todo' = [todo EXCEPT ![i] = Tail(@)]
    /\ UNCHANGED <<count, threads, avx2, joined>>

JoinThreads ==
    /\ \A i \in 0..threads - 1 : todo[i] = <<>>
    /\ ~joined /\ joined' = TRUE
    /\ UNCHANGED <<count, threads, avx2, todo, written>>

NextSplit == (\E i \in 0..threads - 1 : Fill(i)) \/ JoinThreads
SplitSpec == InitSplit /\ [][NextSplit]_splitVars
-----------------------------------------------------------------------------
(* No two threads write one item, although the last call of a part begins  *)
(* before the other ends; with AVX2 every call is for a whole number of     *)
(* blocks of five; and when the threads are joined every item of the        *)
(* dataset is computed and nothing outside it (RxInstance.cpp:398-428).      *)
SplitIsExact ==
    /\ \A i, j \in 0..threads - 1 : i # j => written[i] \cap written[j] = {}
    /\ avx2 => \A i \in 0..threads - 1 : todo[i] # <<>> => Head(todo[i])[2] % 5 = 0
    /\ joined => UNION {written[i] : i \in 0..threads - 1} = 0..count - 1
=============================================================================
