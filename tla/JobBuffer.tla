------------------------------ MODULE JobBuffer ------------------------------
(***************************************************************************)
(* How a job reaches a hashing thread: Worker::setJob (the publisher, any  *)
(* thread that holds Miner::m_jobMutex) against the job check at the top   *)
(* of Worker::run.  The two share a pair of slots, the index of the slot   *)
(* to read and a sequence number, and no lock.                             *)
(*                                                                         *)
(* A Job is some thirty words and five heap strings that operator= copies  *)
(* member by member, so a copy is not one step here: the members are the   *)
(* elements of Parts, and writing or reading one of them is one step.  A   *)
(* job is its number in the order of the setJob calls; 0 is the default    *)
(* constructed Job.  Stores are seen in program order (x86-64, the only    *)
(* target of the JIT).                                                     *)
(***************************************************************************)
EXTENDS Integers

CONSTANTS
    Parts,      \* the members of Job that are told apart
    IdPart,     \* m_id
    RxPart,     \* m_rxInstanceId
    MaxJobs,    \* bound: setJob calls in a behaviour
    PoolOf      \* rxInstanceId of each job: 0 = user pool, 1 = dev pool

ASSUME PartsAssumption == IdPart \in Parts /\ RxPart \in Parts
ASSUME MaxJobsAssumption == MaxJobs \in Nat
ASSUME PoolOfAssumption == PoolOf \in [0..MaxJobs -> {0, 1}]

VARIABLES
    jobs,           \* setJob calls begun so far: the number of the newest job
    wpc,            \* where the publisher is in setJob
    written,        \* members of the newest job already stored
    slot,           \* m_jobs[2]
    readIndex,      \* m_jobReadIndex
    sequence,       \* m_jobSequence
    rpc,            \* where the worker is in the loop of run()
    readIdx,        \* its local readIdx
    copied,         \* members already copied into localJob
    local,          \* its localJob
    localSequence,  \* its localSequence
    currentJobId,   \* its currentJobId
    currentRxId     \* its currentRxId: the instance whose VM it hashes with

pubVars    == <<jobs, wpc, written, slot, readIndex, sequence>>
workerVars == <<rpc, readIdx, copied, local, localSequence, currentJobId, currentRxId>>
vars       == <<pubVars, workerVars>>

Job     == 0..MaxJobs
Copy(j) == [p \in Parts |-> j]

Init ==
    /\ jobs = 0 /\ wpc = "idle" /\ written = {}
    /\ slot = [i \in {0, 1} |-> Copy(0)]
    /\ readIndex = 0 /\ sequence = 0
    /\ rpc = "check" /\ readIdx = 0 /\ copied = {}
    /\ local = Copy(0) /\ localSequence = 0
    /\ currentJobId = 0 /\ currentRxId = 0
-----------------------------------------------------------------------------
(* Worker::setJob.  m_jobMutex makes the publisher a single sequential one. *)

BeginSetJob ==
    /\ wpc = "idle" /\ jobs < MaxJobs
    /\ jobs' = jobs + 1
    /\ written' = {}
    /\ wpc' = "write"
    /\ UNCHANGED <<slot, readIndex, sequence, workerVars>>

\* Mutant: the job is written into the slot being read.
WriteActive(p) ==
    /\ wpc = "write" /\ p \notin written
    /\ slot' = [slot EXCEPT ![readIndex][p] = jobs]
    /\ written' = written \cup {p}
    /\ UNCHANGED <<jobs, wpc, readIndex, sequence, workerVars>>

\* m_jobs[writeIdx] = job, one member
WritePart(p) ==
    /\ wpc = "write" /\ p \notin written
    /\ slot' = [slot EXCEPT ![1 - readIndex][p] = jobs]
    /\ written' = written \cup {p}
    /\ UNCHANGED <<jobs, wpc, readIndex, sequence, workerVars>>

\* Mutant: the index is flipped and the sequence number forgotten.
FlipOnly ==
    /\ wpc = "write" /\ written = Parts
    /\ readIndex' = 1 - readIndex
    /\ wpc' = "idle"
    /\ UNCHANGED <<jobs, written, slot, sequence, workerVars>>

FlipIndex ==
    /\ wpc = "write" /\ written = Parts
    /\ readIndex' = 1 - readIndex
    /\ wpc' = "bump"
    /\ UNCHANGED <<jobs, written, slot, sequence, workerVars>>

\* Mutant: the sequence number counts slots, not jobs.
BumpTwice ==
    /\ wpc = "bump"
    /\ sequence' = sequence + 2
    /\ wpc' = "idle"
    /\ UNCHANGED <<jobs, written, slot, readIndex, workerVars>>

BumpSequence ==
    /\ wpc = "bump"
    /\ sequence' = sequence + 1
    /\ wpc' = "idle"
    /\ UNCHANGED <<jobs, written, slot, readIndex, workerVars>>
-----------------------------------------------------------------------------
(* Worker::run, from the job check to the hash.                             *)

LoadSequence ==
    /\ rpc = "check"
    /\ localSequence' = sequence
    /\ rpc' = IF sequence # localSequence THEN "index" ELSE "hash"
    /\ UNCHANGED <<pubVars, readIdx, copied, local, currentJobId, currentRxId>>

\* Mutant: the worker takes the slot the publisher writes next.
LoadInactive ==
    /\ rpc = "index"
    /\ readIdx' = 1 - readIndex
    /\ copied' = {}
    /\ rpc' = "copy"
    /\ UNCHANGED <<pubVars, local, localSequence, currentJobId, currentRxId>>

LoadIndex ==
    /\ rpc = "index"
    /\ readIdx' = readIndex
    /\ copied' = {}
    /\ rpc' = "copy"
    /\ UNCHANGED <<pubVars, local, localSequence, currentJobId, currentRxId>>

\* localJob = m_jobs[readIdx], one member
CopyPart(p) ==
    /\ rpc = "copy" /\ p \notin copied
    /\ local' = [local EXCEPT ![p] = slot[readIdx][p]]
    /\ copied' = copied \cup {p}
    /\ UNCHANGED <<pubVars, rpc, readIdx, localSequence, currentJobId, currentRxId>>

\* Mutant: the sequence number is noted after the copy instead of before it.
AdoptThenNote ==
    /\ rpc = "copy" /\ copied = Parts
    /\ localSequence' = sequence
    /\ currentJobId' = local[IdPart]
    /\ currentRxId' = IF local[IdPart] # currentJobId THEN PoolOf[local[RxPart]]
                                                      ELSE currentRxId
    /\ rpc' = "hash"
    /\ UNCHANGED <<pubVars, readIdx, copied, local>>

\* The VM is chosen again only when the job id changed.  The pools' seeds differ:
\* a dev job with the user's seed is hashed with the user's VM (see Miner).
Adopt ==
    /\ rpc = "copy" /\ copied = Parts
    /\ currentJobId' = local[IdPart]
    /\ currentRxId' = IF local[IdPart] # currentJobId THEN PoolOf[local[RxPart]]
                                                      ELSE currentRxId
    /\ rpc' = "hash"
    /\ UNCHANGED <<pubVars, readIdx, copied, local, localSequence>>

\* One nonce, then back to the top of the loop.
Hash ==
    /\ rpc = "hash"
    /\ rpc' = "check"
    /\ UNCHANGED <<pubVars, readIdx, copied, local, localSequence, currentJobId, currentRxId>>
-----------------------------------------------------------------------------
FinishSetJob == (\E p \in Parts : WritePart(p)) \/ FlipIndex \/ BumpSequence
Publisher == BeginSetJob \/ FinishSetJob
Reader == LoadSequence \/ LoadIndex \/ (\E p \in Parts : CopyPart(p)) \/ Adopt \/ Hash
Next == Publisher \/ Reader

Spec == Init /\ [][Next]_vars

\* A setJob that has begun is finished (the thread holds a mutex and never
\* waits inside), and the worker thread keeps running.  No job is promised.
FairSpec == Spec /\ WF_vars(FinishSetJob) /\ WF_vars(Reader)
-----------------------------------------------------------------------------
TypeOK ==
    /\ jobs \in Job /\ sequence \in Job /\ localSequence \in Job
    /\ wpc \in {"idle", "write", "bump"} /\ written \subseteq Parts
    /\ slot \in [{0, 1} -> [Parts -> Job]] /\ readIndex \in {0, 1}
    /\ rpc \in {"check", "index", "copy", "hash"}
    /\ readIdx \in {0, 1} /\ copied \subseteq Parts
    /\ local \in [Parts -> Job]
    /\ currentJobId \in Job /\ currentRxId \in {0, 1}

\* The worker is between two job checks.
Looping == rpc \in {"check", "hash"}
Whole(j) == \A p, q \in Parts : j[p] = j[q]

(* A worker that believes itself up to date, with no setJob under way, has *)
(* the newest job and nothing else: no interleaving of the index flip, the *)
(* sequence bump and the two loads makes it miss the last setJob           *)
(* (Worker.cpp:102-105 against 140-144).                                    *)
SettledIsLatest ==
    Looping /\ wpc = "idle" /\ localSequence = sequence => local = Copy(jobs)

(* A worker may come out of a copy with members of two jobs, but then the  *)
(* sequence has already moved on, so the next job check replaces them: no  *)
(* second nonce is ever hashed on a torn job.                               *)
TornIsTransient == Looping /\ localSequence = sequence => Whole(local)

(* One setJob never touches the slot the worker is copying: for the two to *)
(* meet, a whole other setJob must have completed since the worker's job   *)
(* check.  This is how much of Worker.h:56-58 the double buffer gives.     *)
MeetOnlyAfterOverrun ==
    rpc = "copy" /\ wpc = "write" /\ readIdx # readIndex => localSequence < sequence

(* Every job that is not overtaken by a later one reaches the worker whole. *)
Delivered ==
    \A j \in 1..MaxJobs : (jobs = j /\ wpc = "idle") ~> (jobs > j \/ local = Copy(j))

(* The claim of Worker.h:56-58 ("the writer never touching the active slot *)
(* while the reader reads it"), seen from the worker: once settled, it     *)
(* hashes with a VM of the instance its job belongs to.                    *)
SettledVmIsOwn ==
    Looping /\ wpc = "idle" /\ localSequence = sequence
        => currentRxId = PoolOf[local[RxPart]]
=============================================================================
