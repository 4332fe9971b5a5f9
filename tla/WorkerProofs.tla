----------------------------- MODULE WorkerProofs -----------------------------
(***************************************************************************)
(* The hashing loop is a behaviour of the job buffer, so what is proved of *)
(* JobBuffer holds of it; and its own invariants, for any size and number  *)
(* of nonce ranges.  The invariant says what is in the pipeline: the nonce  *)
(* and the VM noted for the next hash are those tempHash was primed with.   *)
(* A second one says when the work in the pipeline can be of another job.   *)
(***************************************************************************)
EXTENDS Worker, JobBufferProofs

Nonces == /\ id \in Ids /\ nonce \in OwnRange(id) /\ prevNonce \in 0..Space - 1
          /\ first \in BOOLEAN

Primed == temp \in [work : Job, nonce : 0..Space - 1, rx : {0, 1}]

Pipeline == ~first => /\ temp.nonce = prevNonce /\ temp.rx = currentRxId
                      /\ temp.nonce \in OwnRange(id)

Named == Looping => currentJobId = local[IdPart]

WInv == Nonces /\ Primed /\ Pipeline /\ Named
-----------------------------------------------------------------------------
(* The nonce ranges.                                                        *)

LEMMA SpaceType == Space \in Nat /\ Space > 0 /\ Range \in Nat /\ Range > 0
  BY RangeAssumption, SMT DEF Space

(* A range lies inside the 32-bit space (Worker.cpp:52-54).                 *)
LEMMA RangeFits ==
    ASSUME NEW i \in Ids
    PROVE  NonceStart(i) \in Nat /\ NonceStart(i) + Range <= Space
<1> DEFINE a == i % Ranges
<1>1. a \in Nat /\ a + 1 <= Ranges /\ Ranges \in Nat
  BY IdsAssumption, RangeAssumption, SMT
<1> HIDE DEF a
<1>2. (a + 1) * Range <= Ranges * Range /\ (a + 1) * Range = a * Range + Range
      /\ a * Range \in Nat
  BY <1>1, RangeAssumption, SMT
<1>3. Space = Ranges * Range
  BY RangeAssumption, SMT DEF Space
<1>4. NonceStart(i) = a * Range
  BY DEF NonceStart, a
<1> QED BY <1>2, <1>3, <1>4

LEMMA OwnType ==
    ASSUME NEW i \in Ids
    PROVE  /\ NonceStart(i) \in OwnRange(i) /\ OwnRange(i) \subseteq 0..Space - 1
           /\ \A n \in OwnRange(i) : n \in Nat
  BY RangeFits, SpaceType DEF OwnRange

(* Two workers hash no nonce in common, unless their ids are equal modulo   *)
(* the number of ranges (Worker.cpp:48-54).                                 *)
THEOREM RangesApart ==
    ASSUME NEW i \in Ids, NEW j \in Ids, i % Ranges # j % Ranges
    PROVE  OwnRange(i) \cap OwnRange(j) = {}
<1> DEFINE a == i % Ranges
           b == j % Ranges
<1>1. a \in Nat /\ b \in Nat
  BY IdsAssumption, RangeAssumption, SMT
<1>2. NonceStart(i) = a * Range /\ NonceStart(j) = b * Range
  BY DEF NonceStart
<1>3. a # b
  OBVIOUS
<1> HIDE DEF a, b
<1>4. a * Range \in Nat /\ b * Range \in Nat
  BY <1>1, RangeAssumption, SMT
<1>5. a < b => a * Range + Range <= b * Range
  <2> SUFFICES ASSUME a < b PROVE a * Range + Range <= b * Range
    OBVIOUS
  <2>1. (a + 1) * Range <= b * Range /\ (a + 1) * Range = a * Range + Range
    BY <1>1, RangeAssumption, SMT
  <2> QED BY <2>1
<1>6. b < a => b * Range + Range <= a * Range
  <2> SUFFICES ASSUME b < a PROVE b * Range + Range <= a * Range
    OBVIOUS
  <2>1. (b + 1) * Range <= a * Range /\ (b + 1) * Range = b * Range + Range
    BY <1>1, RangeAssumption, SMT
  <2> QED BY <2>1
<1>7. Range \in Nat
  BY RangeAssumption
<1> QED BY <1>1, <1>2, <1>3, <1>4, <1>5, <1>6, <1>7 DEF OwnRange

(* The wrap keeps a worker in its range, that of the last worker too, whose *)
(* range ends where uint32_t does (Worker.cpp:180-186, 220-226).            *)
LEMMA AdvanceStays ==
    ASSUME NEW n \in OwnRange(id), id \in Ids
    PROVE  Advance(n) \in OwnRange(id)
<1> DEFINE s == NonceStart(id)
<1>1. s \in Nat /\ s + Range <= Space /\ Space \in Nat /\ Range \in Nat /\ Range > 0
  BY RangeFits, SpaceType
<1>2. n \in Nat /\ s <= n /\ n <= s + Range - 1
  BY <1>1 DEF OwnRange
<1>3. OwnRange(id) = s .. s + Range - 1
  BY DEF OwnRange
<1>4. Advance(n) = IF (n + 1) % Space >= (s + Range) % Space THEN s ELSE (n + 1) % Space
  BY DEF Advance
<1> HIDE DEF s
<1>5. CASE s + Range = Space
  <2>1. (s + Range) % Space = 0 /\ (n + 1) % Space >= 0
    BY <1>1, <1>2, <1>5, SMT
  <2> QED BY <2>1, <1>1, <1>3, <1>4
<1>6. CASE s + Range < Space
  <2>1. (s + Range) % Space = s + Range /\ (n + 1) % Space = n + 1
    <3> DEFINE m == s + Range
               k == n + 1
    <3>1. m \in Nat /\ k \in Nat /\ m < Space /\ k < Space
      BY <1>1, <1>2, <1>6
    <3> HIDE DEF m, k
    <3>2. m % Space = m /\ k % Space = k
      BY <3>1, <1>1, SMT
    <3> QED BY <3>2 DEF m, k
  <2> QED BY <2>1, <1>1, <1>2, <1>3, <1>4
<1> QED BY <1>1, <1>5, <1>6
-----------------------------------------------------------------------------
(* The job buffer inside.                                                   *)

LEMMA WorkerStepIsNext == [NextWorker]_allVars => [Next]_vars
  BY DEF NextWorker, Turn, JobCheck, AdoptJob, NoWork, Prime, HashNext, allVars,
         Next, Reader

(* Every behaviour of the hashing loop is one of the job buffer             *)
(* (Worker.cpp:139-167).                                                    *)
THEOREM HasJobBuffer == WorkerSpec => Spec
  BY WorkerStepIsNext, PTL DEF WorkerSpec, InitWorker, Spec
-----------------------------------------------------------------------------
LEMMA InitWInv == InitWorker => WInv
<1> SUFFICES ASSUME InitWorker PROVE WInv
  OBVIOUS
<1>1. Nonces
  BY OwnType, SpaceType DEF InitWorker, Nonces
<1>2. Primed
  BY SpaceType, MaxJobsAssumption DEF InitWorker, Primed, Job
<1>3. Pipeline
  BY DEF InitWorker, Pipeline
<1>4. Named
  BY PartsAssumption DEF InitWorker, Init, Copy, Named
<1> QED BY <1>1, <1>2, <1>3, <1>4 DEF WInv

\* The worker's own variables stay and its job does.
LEMMA IdleWInv ==
    ASSUME WInv, UNCHANGED hashVars, UNCHANGED <<currentJobId, currentRxId>>,
           Looping' => Looping /\ UNCHANGED local
    PROVE  WInv'
<1>1. Nonces' /\ Primed' /\ Pipeline'
  BY DEF WInv, Nonces, Primed, Pipeline, hashVars, OwnRange, NonceStart, Space
<1>2. Named'
  BY DEF WInv, Named
<1> QED BY <1>1, <1>2 DEF WInv

LEMMA PrimeWInv ==
    ASSUME WInv, IInv, Hash, PrimeWith(nonce), prevNonce' = nonce, nonce' = Advance(nonce),
           first' \in BOOLEAN, UNCHANGED id
    PROVE  WInv'
<1>1. nonce \in OwnRange(id) /\ id \in Ids /\ nonce \in 0..Space - 1
  BY OwnType DEF WInv, Nonces
<1>2. Advance(nonce) \in OwnRange(id)
  BY <1>1, AdvanceStays
<1>3. OwnRange(id)' = OwnRange(id) /\ Space' = Space
  BY DEF OwnRange, NonceStart, Space
<1>4. Nonces'
  BY <1>1, <1>2, <1>3 DEF Nonces
<1>5. local[WorkPart] \in Job /\ currentRxId \in {0, 1}
  BY WorkPartAssumption DEF IInv, TypeOK
<1>6. Primed'
  BY <1>1, <1>5 DEF PrimeWith, Primed, Space, Job
<1>7. Pipeline'
  BY <1>1, <1>3 DEF PrimeWith, Pipeline, Hash
<1>8. Named'
  BY DEF WInv, Named, Hash, Looping
<1> QED BY <1>4, <1>6, <1>7, <1>8 DEF WInv

LEMMA NextWInv == WInv /\ IInv /\ [NextWorker]_allVars => WInv'
<1> SUFFICES ASSUME WInv, IInv, [NextWorker]_allVars PROVE WInv'
  OBVIOUS
<1>1. CASE Publisher /\ UNCHANGED hashVars
  <2>1. UNCHANGED workerVars
    BY <1>1 DEF Publisher, FinishSetJob, BeginSetJob, WritePart, FlipIndex, BumpSequence
  <2> QED BY <1>1, <2>1, IdleWInv DEF workerVars, Looping
<1>2. CASE JobCheck /\ UNCHANGED hashVars
  <2>1. CASE LoadSequence
    BY <1>2, <2>1, IdleWInv DEF LoadSequence, Looping
  <2>2. CASE LoadIndex
    BY <1>2, <2>2, IdleWInv DEF LoadIndex, Looping
  <2>3. ASSUME NEW p \in Parts, CopyPart(p) PROVE WInv'
    BY <1>2, <2>3, IdleWInv DEF CopyPart, Looping
  <2> QED BY <1>2, <2>1, <2>2, <2>3 DEF JobCheck
<1>3. CASE AdoptJob
  <2>1. OwnRange(id)' = OwnRange(id) /\ Space' = Space
    BY <1>3 DEF AdoptJob, OwnRange, NonceStart, Space
  <2>2. Nonces'
    BY <1>3, <2>1, OwnType DEF AdoptJob, WInv, Nonces
  <2>3. Primed'
    BY <1>3 DEF AdoptJob, WInv, Primed, Job, Space
  <2>4. Pipeline'
    BY <1>3, <2>1 DEF AdoptJob, Adopt, WInv, Pipeline
  <2>5. Named'
    BY <1>3 DEF AdoptJob, Adopt, Named
  <2> QED BY <2>2, <2>3, <2>4, <2>5 DEF WInv
<1>4. CASE NoWork
  BY <1>4, IdleWInv DEF NoWork, Hash, Looping
<1>5. CASE Prime
  BY <1>5, PrimeWInv DEF Prime
<1>6. CASE HashNext
  BY <1>6, PrimeWInv DEF HashNext, WInv, Nonces
<1>7. CASE UNCHANGED allVars
  BY <1>7, IdleWInv DEF allVars, vars, workerVars, Looping
<1> QED BY <1>1, <1>2, <1>3, <1>4, <1>5, <1>6, <1>7 DEF NextWorker, Turn

(* What is in the pipeline, in every reachable state.                       *)
THEOREM WorkerInvariance == WorkerSpec => []WInv
  BY HasJobBuffer, Invariance, InitWInv, NextWInv, PTL DEF WorkerSpec

(* Types of the loop: its nonces never leave the worker's range.            *)
THEOREM HashTypeCorrect == WorkerSpec => []HashTypeOK
<1>1. WInv => HashTypeOK
  BY DEF WInv, Nonces, Primed, HashTypeOK
<1> QED BY <1>1, WorkerInvariance, PTL

(* A hash is reported with the nonce it was computed from, and no hash is   *)
(* begun on one VM and ended on another (Worker.cpp:175-226).               *)
THEOREM PipelineCorrect == WorkerSpec => []PipelineInStep
<1>1. WInv => PipelineInStep
  BY DEF WInv, Pipeline, PipelineInStep, Hashing, Result
<1> QED BY <1>1, WorkerInvariance, PTL

(* A worker that saw no newer sequence number reports to its job's pool     *)
(* (Worker.cpp:203-206).                                                    *)
THEOREM OwnPool == WorkerSpec => []ReportedToOwnPool
<1>1. WInv /\ IInv => ReportedToOwnPool
  <2> SUFFICES ASSUME WInv, IInv, Hashing, localSequence = sequence
               PROVE  PoolOf[local[RxPart]] = PoolOf[currentJobId]
    BY DEF ReportedToOwnPool, Result
  <2>1. Looping
    BY DEF Hashing, Looping
  <2>2. local[RxPart] = local[IdPart] /\ currentJobId = local[IdPart]
    BY <2>1, PartsAssumption DEF IInv, LoopingHolds, Whole, WInv, Named
  <2> QED BY <2>2
<1> QED BY <1>1, HasJobBuffer, Invariance, WorkerInvariance, PTL
-----------------------------------------------------------------------------
(* OnlyFirstHash.  A job keeps its slot: odd jobs are in one, even jobs in  *)
(* the other.  So a copy that finds the id of the job at hand again was     *)
(* made of its slot, and what else it finds there is of that job or of a    *)
(* newer one, which is only written once the next job has been published.   *)
(* The worker that hashes such a copy drops it at the next job check.       *)

\* The worker has nothing that was not published yet, or is not its slot's.
SlotInv ==
    /\ readIndex = Published % 2
    /\ \A i \in {0, 1}, p \in Parts : /\ slot[i][p] <= jobs
                                      /\ slot[i][p] = 0 \/ slot[i][p] % 2 = i
    /\ \A p \in Parts : local[p] <= jobs
    /\ rpc = "copy" => \A p \in copied : local[p] = 0 \/ local[p] % 2 = readIdx

RoundInv == /\ currentJobId <= jobs
            /\ ~first => currentJobId # 0
            /\ first => nonce = NonceStart(id)

\* A copy of the slot of the job at hand finds that job or a newer one.
AtLeast(j) == /\ \A p \in Parts : slot[readIdx][p] >= j
              /\ \A p \in copied : local[p] >= j
SameSlot == rpc = "copy" /\ ~first /\ readIdx = currentJobId % 2 => AtLeast(currentJobId)

\* Once more than the first nonce was hashed, a torn job is an overtaken one.
TornHash == rpc = "hash" /\ ~first /\ local[WorkPart] # currentJobId => Published > currentJobId

\* The pipeline holds a hash of other work than its job's, and not its first.
Astray == ~first /\ temp.work # currentJobId /\ temp.nonce # NonceStart(id)
StrayInv ==
    Astray => /\ rpc # "hash" /\ Published > currentJobId
              /\ rpc = "check" => localSequence # sequence
              /\ rpc = "copy" => AtLeast(currentJobId + 1)

FirstInv == SlotInv /\ RoundInv /\ SameSlot /\ TornHash /\ StrayInv

LEMMA Halves == \A n \in Nat : n % 2 \in {0, 1} /\ (n + 1) % 2 = 1 - (n % 2)
  BY SMT

LEMMA HalvesBack == \A n \in Nat : n > 0 => (n - 1) % 2 = 1 - (n % 2)
<1> SUFFICES ASSUME NEW n \in Nat, n > 0 PROVE (n - 1) % 2 = 1 - (n % 2)
  OBVIOUS
<1>1. n - 1 \in Nat /\ (n - 1) + 1 = n
  OBVIOUS
<1>2. (n - 1) % 2 \in {0, 1} /\ n % 2 = 1 - ((n - 1) % 2)
  BY <1>1, Halves
<1> QED BY <1>2

LEMMA BufferTypes ==
    ASSUME IInv
    PROVE  /\ jobs \in Nat /\ sequence \in Nat /\ localSequence \in Nat
           /\ currentJobId \in Nat /\ readIndex \in {0, 1} /\ readIdx \in {0, 1}
           /\ copied \subseteq Parts /\ written \subseteq Parts
           /\ local \in [Parts -> Job] /\ slot \in [{0, 1} -> [Parts -> Job]]
           /\ \A p \in Parts : local[p] \in Nat /\ \A i \in {0, 1} : slot[i][p] \in Nat
           /\ Published \in Nat /\ Published <= jobs /\ jobs - 1 <= Published
           /\ wpc # "write" => Published = jobs
           /\ wpc = "write" => Published = jobs - 1 /\ jobs > 0
           /\ localSequence <= sequence
  BY MaxJobsAssumption DEF IInv, TypeOK, Job, Published, SequenceCounts

\* What a step of the publisher may do, as far as the worker can tell.
LEMMA PublisherGrows ==
    ASSUME IInv, SlotInv, Publisher
    PROVE  /\ jobs' >= jobs /\ Published' >= Published /\ jobs' \in Nat /\ Published' \in Nat
           /\ sequence' \in Nat /\ sequence' >= sequence
           /\ readIndex' = Published' % 2
           /\ \A i \in {0, 1}, p \in Parts :
                 \/ slot'[i][p] = slot[i][p]
                 \/ slot'[i][p] = jobs /\ i = jobs % 2 /\ jobs > Published
           /\ UNCHANGED workerVars
<1> USE BufferTypes
<1>1. CASE BeginSetJob
  BY <1>1 DEF BeginSetJob, Published, SlotInv
<1>2. ASSUME NEW p \in Parts, WritePart(p)
      PROVE  /\ UNCHANGED <<jobs, wpc, readIndex, sequence, workerVars>>
             /\ \A i \in {0, 1}, q \in Parts :
                   \/ slot'[i][q] = slot[i][q]
                   \/ slot'[i][q] = jobs /\ i = jobs % 2 /\ jobs > Published
  <2>1. /\ wpc = "write" /\ slot' = [slot EXCEPT ![1 - readIndex][p] = jobs]
        /\ UNCHANGED <<jobs, wpc, readIndex, sequence, workerVars>>
    BY <1>2 DEF WritePart
  <2>2. jobs > Published /\ jobs > 0 /\ Published = jobs - 1
    BY <2>1
  <2>3. 1 - readIndex = jobs % 2
    BY <2>2, Halves, HalvesBack DEF SlotInv
  <2>4. \A i \in {0, 1}, q \in Parts :
           slot'[i][q] = IF i = 1 - readIndex /\ q = p THEN jobs ELSE slot[i][q]
    BY <2>1
  <2> QED BY <2>1, <2>2, <2>3, <2>4
<1>3. CASE \E p \in Parts : WritePart(p)
  <2>1. UNCHANGED <<jobs, wpc, readIndex, sequence, workerVars>>
    BY <1>2, <1>3
  <2>2. Published' = Published
    BY <2>1 DEF Published
  <2>3. readIndex' = Published' % 2
    BY <2>1, <2>2 DEF SlotInv
  <2> QED BY <1>2, <1>3, <2>1, <2>2, <2>3
<1>4. CASE FlipIndex
  <2>1. /\ wpc = "write" /\ wpc' = "bump" /\ readIndex' = 1 - readIndex
        /\ UNCHANGED <<jobs, written, slot, sequence, workerVars>>
    BY <1>4 DEF FlipIndex
  <2>2. Published' = jobs /\ Published = jobs - 1 /\ jobs > 0
    BY <2>1 DEF Published
  <2>3. readIndex' = jobs % 2
    <3>1. (jobs - 1) % 2 = 1 - (jobs % 2) /\ jobs % 2 \in {0, 1}
      BY <2>2, Halves, HalvesBack
    <3>2. readIndex = (jobs - 1) % 2
      BY <2>2 DEF SlotInv
    <3> QED BY <2>1, <3>1, <3>2
  <2> QED BY <2>1, <2>2, <2>3
<1>5. CASE BumpSequence
  <2>1. /\ wpc = "bump" /\ wpc' = "idle" /\ sequence' = sequence + 1
        /\ UNCHANGED <<jobs, written, slot, readIndex, workerVars>>
    BY <1>5 DEF BumpSequence
  <2>2. Published' = Published
    BY <2>1 DEF Published
  <2> QED BY <2>1, <2>2 DEF SlotInv
<1> QED BY <1>1, <1>3, <1>4, <1>5 DEF Publisher, FinishSetJob

LEMMA PublisherFirst ==
    ASSUME IInv, FirstInv, Publisher, UNCHANGED hashVars PROVE FirstInv'
<1> USE BufferTypes
<1>1. /\ jobs' >= jobs /\ Published' >= Published /\ jobs' \in Nat /\ Published' \in Nat
      /\ sequence' \in Nat /\ sequence' >= sequence
      /\ readIndex' = Published' % 2
      /\ \A i \in {0, 1}, p \in Parts :
            \/ slot'[i][p] = slot[i][p]
            \/ slot'[i][p] = jobs /\ i = jobs % 2 /\ jobs > Published
      /\ UNCHANGED <<rpc, readIdx, copied, local, localSequence, currentJobId, currentRxId>>
  BY PublisherGrows DEF FirstInv, workerVars
<1>2. UNCHANGED <<id, nonce, prevNonce, first, temp>>
  BY DEF hashVars
<1>3. SlotInv'
  <2>1. \A i \in {0, 1}, p \in Parts : /\ slot'[i][p] <= jobs'
                                       /\ slot'[i][p] = 0 \/ slot'[i][p] % 2 = i
    BY <1>1 DEF FirstInv, SlotInv
  <2>2. \A p \in Parts : local'[p] <= jobs'
    BY <1>1 DEF FirstInv, SlotInv
  <2>3. rpc' = "copy" => \A p \in copied' : local'[p] = 0 \/ local'[p] % 2 = readIdx'
    BY <1>1 DEF FirstInv, SlotInv
  <2> QED BY <1>1, <2>1, <2>2, <2>3 DEF SlotInv
<1>4. RoundInv'
  BY <1>1, <1>2 DEF FirstInv, RoundInv, NonceStart
<1>5. ASSUME NEW j \in Nat, AtLeast(j), j <= jobs PROVE AtLeast(j)'
  BY <1>1, <1>5 DEF AtLeast
<1>6. SameSlot'
  BY <1>1, <1>2, <1>5 DEF FirstInv, SameSlot, RoundInv
<1>7. TornHash'
  BY <1>1, <1>2 DEF FirstInv, TornHash
<1>8. StrayInv'
  <2> SUFFICES ASSUME Astray'
               PROVE  /\ rpc' # "hash" /\ Published' > currentJobId'
                      /\ rpc' = "check" => localSequence' # sequence'
                      /\ rpc' = "copy" => AtLeast(currentJobId + 1)'
    BY <1>1 DEF StrayInv
  <2>1. Astray
    BY <1>1, <1>2 DEF Astray, NonceStart
  <2>2. /\ rpc # "hash" /\ Published > currentJobId
        /\ rpc = "check" => localSequence # sequence
        /\ rpc = "copy" => AtLeast(currentJobId + 1)
    BY <2>1 DEF FirstInv, StrayInv
  <2>3. rpc' = "copy" => AtLeast(currentJobId + 1)'
    <3>1. currentJobId + 1 \in Nat /\ currentJobId + 1 <= jobs
      BY <2>2
    <3> QED BY <1>1, <1>5, <2>2, <3>1
  <2> QED BY <1>1, <2>2, <2>3
<1> QED BY <1>3, <1>4, <1>6, <1>7, <1>8 DEF FirstInv

\* The job check, up to the last member that is copied.
LEMMA CheckFirst ==
    ASSUME IInv, WInv, FirstInv, JobCheck, UNCHANGED hashVars PROVE FirstInv'
<1> USE BufferTypes
<1>1. UNCHANGED <<id, nonce, prevNonce, first, temp>>
  BY DEF hashVars
<1>2. CASE LoadSequence
  <2>1. /\ rpc = "check" /\ localSequence' = sequence
        /\ rpc' = IF sequence # localSequence THEN "index" ELSE "hash"
        /\ UNCHANGED <<jobs, wpc, written, slot, readIndex, sequence>>
        /\ UNCHANGED <<readIdx, copied, local, currentJobId, currentRxId>>
    BY <1>2 DEF LoadSequence, pubVars
  <2>2. Published' = Published
    BY <2>1 DEF Published
  <2>3. SlotInv' /\ RoundInv' /\ SameSlot'
    BY <1>1, <2>1, <2>2 DEF FirstInv, SlotInv, RoundInv, SameSlot, NonceStart
  <2>4. TornHash'
    <3>1. rpc' = "hash" => local[WorkPart] = currentJobId
      BY <2>1, WorkPartAssumption, PartsAssumption
      DEF IInv, LoopingHolds, Looping, Whole, WInv, Named
    <3> QED BY <2>1, <3>1 DEF TornHash
  <2>5. StrayInv'
    <3>1. Astray' => Astray
      BY <1>1, <2>1 DEF Astray, NonceStart
    <3>2. Astray => Published > currentJobId /\ localSequence # sequence
      BY <2>1 DEF FirstInv, StrayInv
    <3> QED BY <2>1, <2>2, <3>1, <3>2 DEF StrayInv
  <2> QED BY <2>3, <2>4, <2>5 DEF FirstInv
<1>3. CASE LoadIndex
  <2>1. /\ rpc = "index" /\ rpc' = "copy" /\ readIdx' = readIndex /\ copied' = {}
        /\ UNCHANGED <<jobs, wpc, written, slot, readIndex, sequence>>
        /\ UNCHANGED <<local, localSequence, currentJobId, currentRxId>>
    BY <1>3 DEF LoadIndex, pubVars
  <2>2. Published' = Published
    BY <2>1 DEF Published
  <2>3. SlotInv' /\ RoundInv' /\ TornHash'
    BY <1>1, <2>1, <2>2 DEF FirstInv, SlotInv, RoundInv, TornHash, NonceStart
  <2>4. ASSUME NEW j \in Nat, Published >= j PROVE AtLeast(j)'
    BY <2>1, <2>4 DEF AtLeast, IInv, SlotsHold
  <2>5. SameSlot'
    <3> SUFFICES ASSUME readIndex = currentJobId % 2 PROVE Published >= currentJobId
      BY <1>1, <2>1, <2>4 DEF SameSlot
    <3>1. currentJobId <= jobs /\ Published % 2 = currentJobId % 2
      BY DEF FirstInv, RoundInv, SlotInv
    <3>2. currentJobId # Published + 1
      BY <3>1, Halves
    <3> QED BY <3>1, <3>2
  <2>6. StrayInv'
    <3>1. Astray' => Astray
      BY <1>1, <2>1 DEF Astray, NonceStart
    <3>2. Astray => Published > currentJobId
      BY DEF FirstInv, StrayInv
    <3>3. Astray => AtLeast(currentJobId + 1)'
      <4>1. currentJobId + 1 \in Nat /\ currentJobId' = currentJobId
        BY <2>1
      <4> QED BY <2>4, <3>2, <4>1 DEF AtLeast
    <3> QED BY <2>1, <2>2, <3>1, <3>2, <3>3 DEF StrayInv
  <2> QED BY <2>3, <2>5, <2>6 DEF FirstInv
<1>4. ASSUME NEW p \in Parts, CopyPart(p) PROVE FirstInv'
  <2>1. /\ rpc = "copy" /\ local' = [local EXCEPT ![p] = slot[readIdx][p]]
        /\ copied' = copied \cup {p}
        /\ UNCHANGED <<jobs, wpc, written, slot, readIndex, sequence>>
        /\ UNCHANGED <<rpc, readIdx, localSequence, currentJobId, currentRxId>>
    BY <1>4 DEF CopyPart, pubVars
  <2>2. Published' = Published
    BY <2>1 DEF Published
  <2>3. \A q \in Parts : local'[q] = IF q = p THEN slot[readIdx][q] ELSE local[q]
    BY <2>1
  <2>4. SlotInv'
    BY <2>1, <2>2, <2>3 DEF FirstInv, SlotInv
  <2>5. RoundInv' /\ TornHash'
    BY <1>1, <2>1 DEF FirstInv, RoundInv, TornHash, NonceStart
  <2>6. ASSUME NEW j \in Nat, AtLeast(j) PROVE AtLeast(j)'
    BY <2>1, <2>3, <2>6 DEF AtLeast
  <2>7. SameSlot'
    BY <1>1, <2>1, <2>6 DEF FirstInv, SameSlot
  <2>8. StrayInv'
    <3>1. Astray' => Astray
      BY <1>1, <2>1 DEF Astray, NonceStart
    <3>2. Astray => Published > currentJobId /\ AtLeast(currentJobId + 1)
      BY <2>1 DEF FirstInv, StrayInv
    <3>3. Astray => AtLeast(currentJobId + 1)'
      <4>1. currentJobId + 1 \in Nat /\ currentJobId' = currentJobId
        BY <2>1
      <4> QED BY <2>6, <3>2, <4>1 DEF AtLeast
    <3> QED BY <2>1, <2>2, <3>1, <3>2, <3>3 DEF StrayInv
  <2> QED BY <2>4, <2>5, <2>7, <2>8 DEF FirstInv
<1> QED BY <1>2, <1>3, <1>4 DEF JobCheck

\* The end of the job check: the pipeline is kept only for the same id.
LEMMA AdoptFirst ==
    ASSUME IInv, WInv, FirstInv, AdoptJob PROVE FirstInv'
<1> USE BufferTypes
<1>1. /\ rpc = "copy" /\ rpc' = "hash" /\ copied = Parts /\ currentJobId' = local[IdPart]
      /\ UNCHANGED <<jobs, wpc, written, slot, readIndex, sequence>>
      /\ UNCHANGED <<readIdx, copied, local, localSequence, id, prevNonce, temp>>
      /\ nonce' = IF local[IdPart] # currentJobId THEN NonceStart(id) ELSE nonce
      /\ first' = (first \/ local[IdPart] # currentJobId)
  BY DEF AdoptJob, Adopt, pubVars
<1>f. first \in BOOLEAN
  BY DEF WInv, Nonces
<1>2. Published' = Published
  BY <1>1 DEF Published
<1>3. SlotInv'
  BY <1>1, <1>2 DEF FirstInv, SlotInv
<1>4. ~first' => ~first /\ local[IdPart] = currentJobId
  BY <1>1, <1>f
<1>5. first' => nonce' = NonceStart(id)
  BY <1>1, <1>f DEF FirstInv, RoundInv
<1>6. RoundInv'
  BY <1>1, <1>4, <1>5, PartsAssumption DEF FirstInv, SlotInv, RoundInv, NonceStart
<1>7. SameSlot'
  BY <1>1 DEF SameSlot
<1>8. TornHash'
  <2> SUFFICES ASSUME ~first', local[WorkPart] # local[IdPart]
               PROVE  Published > currentJobId
    BY <1>1, <1>2, <1>4 DEF TornHash
  <2> DEFINE w == local[WorkPart]
  <2>1. local[IdPart] = currentJobId /\ currentJobId # 0 /\ ~first /\ w # currentJobId
    BY <1>4 DEF FirstInv, RoundInv
  <2>2. readIdx = currentJobId % 2 /\ (w = 0 \/ w % 2 = readIdx) /\ w \in Nat /\ w <= jobs
    BY <1>1, <2>1, PartsAssumption, WorkPartAssumption DEF FirstInv, SlotInv
  <2>3. w >= currentJobId
    BY <1>1, <2>1, <2>2, WorkPartAssumption DEF FirstInv, SameSlot, AtLeast
  <2> HIDE DEF w
  <2>4. w # currentJobId + 1
    BY <2>1, <2>2, Halves
  <2>5. w >= currentJobId + 2
    BY <2>1, <2>2, <2>3, <2>4
  <2> QED BY <2>2, <2>5
<1>9. StrayInv'
  <2>1. ~Astray'
    <3> SUFFICES ASSUME Astray' PROVE FALSE
      OBVIOUS
    <3>1. Astray /\ local[IdPart] = currentJobId
      BY <1>1, <1>4 DEF Astray, NonceStart
    <3>2. AtLeast(currentJobId + 1)
      BY <1>1, <3>1 DEF FirstInv, StrayInv
    <3> QED BY <1>1, <3>1, <3>2, PartsAssumption DEF AtLeast
  <2> QED BY <2>1 DEF StrayInv
<1> QED BY <1>3, <1>6, <1>7, <1>8, <1>9 DEF FirstInv

\* The hash itself.
LEMMA HashFirst ==
    ASSUME IInv, WInv, FirstInv, NoWork \/ Prime \/ HashNext PROVE FirstInv'
<1> USE BufferTypes
<1>1. /\ rpc = "hash" /\ rpc' = "check"
      /\ UNCHANGED <<jobs, wpc, written, slot, readIndex, sequence>>
      /\ UNCHANGED <<readIdx, copied, local, localSequence, currentJobId, currentRxId, id>>
  BY DEF NoWork, Prime, HashNext, Hash, pubVars, hashVars
<1>2. Published' = Published
  BY <1>1 DEF Published
<1>3. SlotInv' /\ SameSlot' /\ TornHash'
  BY <1>1, <1>2 DEF FirstInv, SlotInv, SameSlot, TornHash
<1>4. CASE NoWork
  <2>1. UNCHANGED <<id, nonce, prevNonce, first, temp>>
    BY <1>4 DEF NoWork, hashVars
  <2>2. RoundInv'
    BY <1>1, <2>1 DEF FirstInv, RoundInv, NonceStart
  <2>3. StrayInv'
    <3>1. ~Astray
      BY <1>1 DEF FirstInv, StrayInv
    <3>2. ~Astray'
      BY <1>1, <2>1, <3>1 DEF Astray, NonceStart
    <3> QED BY <3>2 DEF StrayInv
  <2> QED BY <1>3, <2>2, <2>3 DEF FirstInv
<1>5. CASE Prime \/ HashNext
  <2>1. /\ first' = FALSE /\ currentJobId # 0 /\ id' = id
        /\ temp'.work = local[WorkPart] /\ temp'.nonce = nonce
    BY <1>5 DEF Prime, HashNext, PrimeWith, Workable, WInv, Nonces
  <2>2. RoundInv'
    BY <1>1, <2>1 DEF FirstInv, RoundInv
  <2>3. StrayInv'
    <3> SUFFICES ASSUME Astray'
                 PROVE  Published > currentJobId /\ localSequence # sequence
      BY <1>1, <1>2 DEF StrayInv
    <3>1. local[WorkPart] # currentJobId /\ nonce # NonceStart(id)
      BY <1>1, <2>1 DEF Astray, NonceStart
    <3>2. ~first
      BY <3>1 DEF FirstInv, RoundInv
    <3>3. Published > currentJobId
      BY <1>1, <3>1, <3>2 DEF FirstInv, TornHash
    <3>4. localSequence # sequence
      BY <1>1, <3>1, WorkPartAssumption, PartsAssumption
      DEF IInv, LoopingHolds, Looping, Whole, WInv, Named
    <3> QED BY <3>3, <3>4
  <2> QED BY <1>3, <2>2, <2>3 DEF FirstInv
<1> QED BY <1>4, <1>5

LEMMA InitFirst == InitWorker => FirstInv
<1> SUFFICES ASSUME InitWorker PROVE FirstInv
  OBVIOUS
<1>1. /\ jobs = 0 /\ wpc = "idle" /\ readIndex = 0 /\ rpc = "check" /\ currentJobId = 0
      /\ slot = [i \in {0, 1} |-> Copy(0)] /\ local = Copy(0)
      /\ first = TRUE /\ nonce = NonceStart(id)
  BY DEF InitWorker, Init
<1>2. SlotInv
  BY <1>1 DEF SlotInv, Published, Copy
<1>3. RoundInv /\ SameSlot /\ TornHash
  BY <1>1 DEF RoundInv, SameSlot, TornHash
<1>4. StrayInv
  BY <1>1 DEF StrayInv, Astray
<1> QED BY <1>2, <1>3, <1>4 DEF FirstInv

LEMMA NextFirst == WInv /\ IInv /\ FirstInv /\ [NextWorker]_allVars => FirstInv'
<1> SUFFICES ASSUME WInv, IInv, FirstInv, [NextWorker]_allVars PROVE FirstInv'
  OBVIOUS
<1>1. CASE NextWorker
  BY <1>1, PublisherFirst, CheckFirst, AdoptFirst, HashFirst DEF NextWorker, Turn
<1>2. CASE UNCHANGED allVars
  BY <1>2 DEF allVars, vars, pubVars, workerVars, hashVars, FirstInv, SlotInv, RoundInv,
     SameSlot, TornHash, StrayInv, Astray, AtLeast, Published, NonceStart
<1> QED BY <1>1, <1>2

(* Whatever the copies of a job tear, for any number of jobs and any range  *)
(* of nonces: a hash is reported under another job than its own only if it  *)
(* is the first of its job (Worker.cpp:139-167, 175-186, 200-226).          *)
THEOREM StrayHashIsFirst == WorkerSpec => []OnlyFirstHash
<1>1. FirstInv => OnlyFirstHash
  BY DEF FirstInv, StrayInv, Astray, OnlyFirstHash, Hashing, Result
<1> QED BY <1>1, HasJobBuffer, Invariance, WorkerInvariance, InitFirst, NextFirst, PTL
        DEF WorkerSpec
=============================================================================
