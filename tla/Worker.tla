-------------------------------- MODULE Worker --------------------------------
(***************************************************************************)
(* The hashing half of Worker::run on top of the job check of JobBuffer:   *)
(* the worker's nonce range, the pipeline of randomx_calculate_hash_first  *)
(* and _next, and the share that comes out.                                *)
(*                                                                         *)
(* _next returns the hash of what the previous call put in tempHash and    *)
(* puts the next nonce in, so a hash and the result it is reported in are  *)
(* assembled from variables written in different turns of the loop, with a *)
(* job check between them.  Blob and target of a job are its member        *)
(* WorkPart.  Arithmetic on nonces is that of uint32_t: modulo Space.      *)
(***************************************************************************)
EXTENDS JobBuffer

CONSTANTS
    WorkPart,   \* m_blob, m_target, m_diff
    Range,      \* 0x01000000, the nonces of one worker
    Ranges,     \* 256, the ranges there are
    Ids         \* ids of the workers considered

ASSUME WorkPartAssumption == WorkPart \in Parts
ASSUME RangeAssumption == Range \in Nat \ {0} /\ Ranges \in Nat \ {0}
ASSUME IdsAssumption == Ids \subseteq Nat

VARIABLES
    id,         \* m_id
    nonce,      \* the nonce to be primed next
    prevNonce,  \* the nonce the next hash belongs to
    first,      \* nothing is in the pipeline
    temp        \* tempHash: the work, nonce and VM it was primed with

hashVars == <<id, nonce, prevNonce, first, temp>>
allVars  == <<vars, hashVars>>

Space == Range * Ranges     \* 2^32
NonceStart(i) == (i % Ranges) * Range
OwnRange(i) == NonceStart(i) .. NonceStart(i) + Range - 1

InitWorker ==
    /\ Init
    /\ id \in Ids /\ nonce = NonceStart(id) /\ prevNonce = 0 /\ first = TRUE
    /\ temp = [work |-> 0, nonce |-> 0, rx |-> 0]
-----------------------------------------------------------------------------
\* isValid() && vm: a VM was looked up once a job with an id had come.
Workable == local[WorkPart] # 0 /\ currentJobId # 0

\* Mutant: the range ends one nonce early.
AdvanceShort(n) == IF (n + 1) % Space >= (NonceStart(id) + Range - 1) % Space
                   THEN NonceStart(id) ELSE (n + 1) % Space

\* Mutant: the range ends one nonce late.
AdvanceLate(n) == IF (n + 1) % Space > (NonceStart(id) + Range) % Space
                  THEN NonceStart(id) ELSE (n + 1) % Space

\* nonce++ and the wrap
Advance(n) == IF (n + 1) % Space >= (NonceStart(id) + Range) % Space
              THEN NonceStart(id) ELSE (n + 1) % Space

\* What _first and _next leave in tempHash.
PrimeWith(n) == temp' = [work |-> local[WorkPart], nonce |-> n, rx |-> currentRxId]

\* Mutant: the pipeline is not reset.
AdoptJobKeepsPipeline ==
    /\ Adopt
    /\ nonce' = IF local[IdPart] # currentJobId THEN NonceStart(id) ELSE nonce
    /\ UNCHANGED <<id, prevNonce, temp, first>>

\* The range starts over and the pipeline is emptied when the id changed.
AdoptJob ==
    /\ Adopt
    /\ nonce' = IF local[IdPart] # currentJobId THEN NonceStart(id) ELSE nonce
    /\ first' = (first \/ local[IdPart] # currentJobId)
    /\ UNCHANGED <<id, prevNonce, temp>>

NoWork ==
    /\ Hash /\ ~Workable
    /\ UNCHANGED hashVars

Prime ==
    /\ Hash /\ Workable /\ first
    /\ PrimeWith(nonce)
    /\ prevNonce' = nonce /\ nonce' = Advance(nonce)
    /\ first' = FALSE
    /\ UNCHANGED id

\* Mutant: the result carries the nonce just primed.
HashNextReportsPrimed ==
    /\ Hash /\ Workable /\ ~first
    /\ PrimeWith(nonce)
    /\ prevNonce' = Advance(nonce) /\ nonce' = Advance(nonce)
    /\ UNCHANGED <<id, first>>

HashNext ==
    /\ Hash /\ Workable /\ ~first
    /\ PrimeWith(nonce)
    /\ prevNonce' = nonce /\ nonce' = Advance(nonce)
    /\ UNCHANGED <<id, first>>

\* Mutant: the pool is that of the VM, as looked up when the job id changed.
ResultOfVm == [job |-> currentJobId, nonce |-> prevNonce, pool |-> currentRxId]

\* The result assembled in HashNext: m_onSubmit gets it if the hash is good.
Result == [job |-> currentJobId, nonce |-> prevNonce, pool |-> PoolOf[local[RxPart]]]
-----------------------------------------------------------------------------
JobCheck == LoadSequence \/ LoadIndex \/ (\E p \in Parts : CopyPart(p))
Turn == (JobCheck /\ UNCHANGED hashVars) \/ AdoptJob \/ NoWork \/ Prime \/ HashNext
NextWorker == (Publisher /\ UNCHANGED hashVars) \/ Turn

WorkerSpec == InitWorker /\ [][NextWorker]_allVars

\* As in JobBuffer.FairSpec: pools need not send jobs, and a worker that is not
\* paused (PauseGate has the pauses) goes on.
FairWorkerSpec ==
    WorkerSpec /\ WF_allVars(FinishSetJob /\ UNCHANGED hashVars) /\ WF_allVars(Turn)
-----------------------------------------------------------------------------
HashTypeOK ==
    /\ id \in Ids /\ nonce \in OwnRange(id) /\ prevNonce \in 0..Space - 1
    /\ first \in BOOLEAN
    /\ temp \in [work : Job, nonce : 0..Space - 1, rx : {0, 1}]

Hashing == rpc = "hash" /\ Workable /\ ~first

(* The nonce of a result is the one its hash was computed from, the VM that *)
(* ends a hash is the one that began it, and the nonce is the worker's own, *)
(* across job checks, wraps and the empty pipeline (Worker.cpp:175-226).    *)
PipelineInStep ==
    Hashing => /\ Result.nonce = temp.nonce /\ temp.rx = currentRxId
               /\ temp.nonce \in OwnRange(id)

(* A hash is reported under the job whose blob it was computed from.  Only  *)
(* the first nonce of a job can go wrong, when the job was torn as it was   *)
(* primed: the next job check replaces the job but not the pipeline, since  *)
(* the id is the same (Worker.cpp:147-150).                                 *)
OnlyFirstHash == Hashing /\ temp.work # Result.job => temp.nonce = NonceStart(id)

(* A worker that saw no newer sequence number reports to the pool whose job *)
(* it is, under that job's id (Worker.cpp:203-206).                         *)
ReportedToOwnPool ==
    Hashing /\ localSequence = sequence => Result.pool = PoolOf[Result.job]

\* The nonces a worker gets to, counted from its first: the range of the last
\* worker (id 255) ends at 0 in uint32_t, so it never leaves its first nonce.
Reaches(k) == k = 0 \/ id % Ranges < Ranges - 1

(* For as long as a job lasts every nonce of the range is hashed with that  *)
(* job's work, again and again, whichever jobs came before it and wherever  *)
(* in the range they were given up; the last worker gets no further than    *)
(* its first nonce (Worker.cpp:52-54, 183, 223).                            *)
WholeRange ==
    \A j \in 1..MaxJobs, k \in 0..Range - 1 :
        (jobs = j /\ Reaches(k)) ~>
            \/ jobs > j
            \/ Hashing /\ temp.work = j /\ temp.nonce = NonceStart(id) + k
=============================================================================
