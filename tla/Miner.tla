-------------------------------- MODULE Miner --------------------------------
(***************************************************************************)
(* The miner as its threads see it: the user pool's network thread         *)
(* (onJob, onDisconnected), the dev pool's (onDevJob), the init thread     *)
(* (rxInitLoop), the dev-fee thread (checkDevFee) and the workers, around  *)
(* two RandomX instances.                                                  *)
(*                                                                         *)
(* A section under m_jobMutex is one step, except the wait for the pause   *)
(* acknowledgements.  RandomX::m_mutex is held exclusively for a whole     *)
(* build, and every seed check and VM lookup waits for it.  Inside one     *)
(* worker, PauseGate and JobBuffer have the detail: here a pause, a resume *)
(* and the delivery of a job are one step each and no wakeup is lost.      *)
(***************************************************************************)
EXTENDS Naturals

CONSTANTS
    Algos, Seeds,       \* what a user job may ask for
    DevSeeds,           \* seeds of dev jobs
    FirstAlgo, DevAlgo, \* config.rxAlgo; RX_0
    Threads,            \* threadsForAlgo
    MaxUserJobs, MaxDevJobs, MaxDrops, MaxFees  \* bounds on the events

ASSUME AlgoAssumption == FirstAlgo \in Algos /\ DevAlgo \in Algos
ASSUME ThreadsAssumption == Threads \in [Algos -> Nat \ {0}]
ASSUME BoundsAssumption == /\ MaxUserJobs \in Nat /\ MaxDevJobs \in Nat
                           /\ MaxDrops \in Nat /\ MaxFees \in Nat

VARIABLES
    workers,            \* the Worker objects in m_workers
    slot, local,        \* per worker: the job delivered, the job taken
    vm,                 \* per worker: the vm pointer of run()
    paused, ack, wpc,   \* per worker: flags, and "check" | "hash" | "parked"
    inst,               \* the two RxInstances
    currentJob, devJob, \* m_currentJob, m_devJob
    currentAlgo,        \* m_currentAlgo
    pending,            \* m_rxInitPending
    poolDisconnected,   \* m_poolDisconnected
    devFeeActive, devFeeEnabled, devJobReady, rxInitialized,
    npc, njob,          \* user network thread: step, job at hand
    ipc, ireq, iok,     \* init thread: step, request, result
    dpc, djob,          \* dev network thread
    drops, fees,        \* events so far
    lastJob,            \* history: the newest job the user pool has sent
    overlapped          \* history: one came while a build was queued or in work

workerVars == <<workers, slot, local, vm, paused, ack, wpc>>
feeVars    == <<devFeeActive, devFeeEnabled, devJobReady, rxInitialized, fees>>
netVars    == <<npc, njob, lastJob, overlapped, drops>>
initVars   == <<ipc, ireq, iok>>
devVars    == <<dpc, djob, devJob>>
vars       == <<workerVars, inst, currentJob, currentAlgo, pending, poolDisconnected,
                feeVars, netVars, initVars, devVars>>

None   == [pool |-> "none", n |-> 0]        \* the default Job; no request
UserJobs == [pool : {"user"}, n : 1..MaxUserJobs, seed : Seeds, algo : Algos]
DevJobs  == [pool : {"dev"}, n : 1..MaxDevJobs, seed : DevSeeds]
Requests == [job : UserJobs, recreate : BOOLEAN]

\* A Worker object: its id and the vector fill it comes from.  Two fills can
\* be alive at once, never three.
IdsFor(a, f) == {[id |-> i, fill |-> f] : i \in 0..(Threads[a] - 1)}
Ids          == UNION {IdsFor(a, f) : a \in Algos, f \in {0, 1}}
FreeFill     == IF \E w \in workers : w.fill = 0 THEN 1 ELSE 0
NoVm         == [rx |-> "none", live |-> FALSE]
Absent       == [ready |-> FALSE, seed |-> None, algo |-> None, vms |-> 0]

Init ==
    /\ workers = IdsFor(FirstAlgo, 0)
    /\ slot = [w \in Ids |-> None] /\ local = [w \in Ids |-> None]
    /\ vm = [w \in Ids |-> NoVm]
    /\ paused = [w \in Ids |-> FALSE] /\ ack = [w \in Ids |-> FALSE]
    /\ wpc = [w \in Ids |-> "check"]
    /\ inst = [r \in {"user", "dev"} |-> Absent]
    /\ currentJob = None /\ devJob = None /\ currentAlgo = FirstAlgo
    /\ pending = None /\ poolDisconnected = FALSE
    /\ devFeeActive = FALSE /\ devFeeEnabled = TRUE /\ devJobReady = FALSE
    /\ rxInitialized = FALSE /\ fees = 0
    /\ npc = "idle" /\ njob = None /\ drops = 0
    /\ lastJob = None /\ overlapped = FALSE
    /\ ipc = "wait" /\ ireq = None /\ iok = FALSE
    /\ dpc = "idle" /\ djob = None
-----------------------------------------------------------------------------
JobMutexFree == npc # "await"
RxMutexFree  == ipc # "build" /\ dpc # "build"

SeedValid(r, s) == inst[r].ready /\ inst[r].seed = s

\* Worker::setJob, pause and resume on every worker
SetJobs(j)  == slot' = [w \in Ids |-> IF w \in workers THEN j ELSE slot[w]]
KeepJobs    == UNCHANGED slot
PauseAll    == /\ paused' = [w \in Ids |-> w \in workers]
               /\ ack' = [w \in Ids |-> FALSE]
ResumeAll   == /\ paused' = [w \in Ids |-> FALSE]
               /\ wpc' = [w \in Ids |-> IF wpc[w] = "parked" THEN "check" ELSE wpc[w]]

\* randomx_destroy_vm on all VMs of an instance: pointers to them dangle
Dangling(r) == [w \in Ids |-> IF vm[w].rx = r THEN [vm[w] EXCEPT !.live = FALSE] ELSE vm[w]]

\* Only the objects in W stay; what the others were is forgotten.
Keep(W) ==
    /\ workers' = W
    /\ slot' = [w \in Ids |-> IF w \in W THEN slot[w] ELSE None]
    /\ local' = [w \in Ids |-> IF w \in W THEN local[w] ELSE None]
    /\ vm' = [w \in Ids |-> IF w \in W THEN vm[w] ELSE NoVm]
    /\ paused' = [w \in Ids |-> w \in W /\ paused[w]]
    /\ ack' = [w \in Ids |-> w \in W /\ ack[w]]
    /\ wpc' = [w \in Ids |-> IF w \in W THEN wpc[w] ELSE "check"]

\* Mutant: one worker more than there are threads.
RecreateOneMore(a) ==
    workers' = workers \cup {[id |-> i, fill |-> FreeFill] : i \in 0..Threads[a]}

\* push_back of one new worker per thread; new objects are as Keep left them
Recreate(a) == workers' = workers \cup IdsFor(a, FreeFill)
-----------------------------------------------------------------------------
(* Worker::run.                                                             *)

Park(w) ==
    /\ w \in workers /\ wpc[w] = "check" /\ paused[w]
    /\ ack' = [ack EXCEPT ![w] = TRUE]
    /\ wpc' = [wpc EXCEPT ![w] = "parked"]
    /\ UNCHANGED <<workers, slot, local, vm, paused, inst, currentJob, currentAlgo, pending,
                   poolDisconnected, feeVars, netVars, initVars, devVars>>

\* Mutant: a VM once found is kept.
VmKept(w, j) ==
    IF vm[w].rx # "none" THEN vm[w]
    ELSE IF inst["user"].ready /\ w.id < inst["user"].vms THEN [rx |-> "user", live |-> TRUE]
    ELSE NoVm

\* User VM when possible, the dev VM only when the seeds differ
VmFor(w, j) ==
    LET r == IF j.pool = "dev" /\ ~SeedValid("user", j.seed) THEN "dev" ELSE "user"
    IN  IF inst[r].ready /\ w.id < inst[r].vms THEN [rx |-> r, live |-> TRUE] ELSE NoVm

\* The job check.  A job that is not new leaves job and vm as they are.
Check(w) ==
    /\ w \in workers /\ wpc[w] = "check" /\ ~paused[w]
    /\ ack' = [ack EXCEPT ![w] = FALSE]
    /\ IF slot[w] # local[w]
       THEN /\ RxMutexFree
            /\ local' = [local EXCEPT ![w] = slot[w]]
            /\ vm' = [vm EXCEPT ![w] = VmFor(w, slot[w])]
       ELSE UNCHANGED <<local, vm>>
    /\ wpc' = [wpc EXCEPT ![w] = IF local'[w] # None /\ vm'[w].rx # "none"
                                 THEN "hash" ELSE "check"]
    /\ UNCHANGED <<workers, slot, paused, inst, currentJob, currentAlgo, pending,
                   poolDisconnected, feeVars, netVars, initVars, devVars>>

Hash(w) ==
    /\ w \in workers /\ wpc[w] = "hash"
    /\ wpc' = [wpc EXCEPT ![w] = "check"]
    /\ UNCHANGED <<workers, slot, local, vm, paused, ack, inst, currentJob, currentAlgo,
                   pending, poolDisconnected, feeVars, netVars, initVars, devVars>>
-----------------------------------------------------------------------------
(* The user pool's network thread.                                          *)

\* onJob up to the choice of a branch
OnJob(s, a) ==
    /\ npc = "idle" /\ lastJob.n < MaxUserJobs /\ RxMutexFree
    /\ overlapped' = (overlapped \/ pending # None \/ ipc # "wait")
    /\ LET j == [pool |-> "user", n |-> lastJob.n + 1, seed |-> s, algo |-> a]
           needsInit == ~SeedValid("user", s) \/ inst["user"].algo # a
       IN  /\ njob' = j /\ lastJob' = j
           /\ npc' = IF a # currentAlgo THEN "recreate"
                     ELSE IF needsInit THEN "pause" ELSE "plain"
    /\ UNCHANGED <<workerVars, inst, currentJob, currentAlgo, pending, poolDisconnected,
                   feeVars, drops, initVars, devVars>>

\* Algorithm changed: stop (and join) every worker, forget them.
OnJobRecreate ==
    /\ npc = "recreate"
    /\ \A w \in workers : wpc[w] # "hash"
    /\ Keep({})
    /\ npc' = "queueRecreate"
    /\ UNCHANGED <<inst, currentJob, currentAlgo, pending, poolDisconnected, feeVars,
                   njob, lastJob, overlapped, drops, initVars, devVars>>

\* Seed changed: pause every worker and wait, m_jobMutex held.
OnJobPause ==
    /\ npc = "pause"
    /\ PauseAll
    /\ npc' = "await"
    /\ UNCHANGED <<workers, slot, local, vm, wpc, inst, currentJob, currentAlgo, pending,
                   poolDisconnected, feeVars, njob, lastJob, overlapped, drops, initVars, devVars>>

\* Mutant: the acknowledgements are not waited for.
OnJobUnacknowledged ==
    /\ npc = "await"
    /\ npc' = "queue"
    /\ UNCHANGED <<workerVars, inst, currentJob, currentAlgo, pending, poolDisconnected,
                   feeVars, njob, lastJob, overlapped, drops, initVars, devVars>>

OnJobAcknowledged ==
    /\ npc = "await"
    /\ \A w \in workers : ack[w]
    /\ npc' = "queue"
    /\ UNCHANGED <<workerVars, inst, currentJob, currentAlgo, pending, poolDisconnected,
                   feeVars, njob, lastJob, overlapped, drops, initVars, devVars>>

\* Under m_rxInitMutex only.  A request still queued is replaced.
OnJobQueue ==
    /\ npc \in {"queue", "queueRecreate"}
    /\ pending' = [job |-> njob, recreate |-> npc = "queueRecreate"]
    /\ npc' = "idle" /\ njob' = None
    /\ UNCHANGED <<workerVars, inst, currentJob, currentAlgo, poolDisconnected, feeVars,
                   lastJob, overlapped, drops, initVars, devVars>>

\* Mutant: a user job that comes during a dev-fee period is dropped.
OnJobPlainUnlessFee ==
    /\ npc = "plain"
    /\ IF devFeeActive THEN KeepJobs /\ UNCHANGED currentJob
       ELSE SetJobs(njob) /\ currentJob' = njob
    /\ poolDisconnected' = FALSE
    /\ IF poolDisconnected THEN ResumeAll ELSE UNCHANGED <<paused, wpc>>
    /\ npc' = "idle" /\ njob' = None
    /\ UNCHANGED <<workers, local, vm, ack, inst, currentAlgo, pending, feeVars,
                   lastJob, overlapped, drops, initVars, devVars>>

\* A job for the dataset in place.
OnJobPlain ==
    /\ npc = "plain"
    /\ currentJob' = njob
    /\ IF devFeeActive THEN KeepJobs ELSE SetJobs(njob)
    /\ poolDisconnected' = FALSE
    /\ IF poolDisconnected THEN ResumeAll ELSE UNCHANGED <<paused, wpc>>
    /\ npc' = "idle" /\ njob' = None
    /\ UNCHANGED <<workers, local, vm, ack, inst, currentAlgo, pending, feeVars,
                   lastJob, overlapped, drops, initVars, devVars>>

\* onDisconnected, before and under m_jobMutex
Disconnect ==
    /\ npc = "idle" /\ drops < MaxDrops
    /\ poolDisconnected' = TRUE
    /\ npc' = "drop" /\ drops' = drops + 1
    /\ UNCHANGED <<workerVars, inst, currentJob, currentAlgo, pending, feeVars,
                   njob, lastJob, overlapped, initVars, devVars>>

DisconnectPause ==
    /\ npc = "drop"
    /\ PauseAll
    /\ npc' = "idle"
    /\ UNCHANGED <<workers, slot, local, vm, wpc, inst, currentJob, currentAlgo, pending,
                   poolDisconnected, feeVars, njob, lastJob, overlapped, drops, initVars, devVars>>

Net == OnJobRecreate \/ OnJobPause \/ OnJobAcknowledged \/ OnJobQueue \/ OnJobPlain
          \/ DisconnectPause
-----------------------------------------------------------------------------
(* The init thread.                                                         *)

\* Take the request and enter randomx().init: VMs of another seed or
\* algorithm are gone at once, those of the same are kept.
InitTake ==
    /\ ipc = "wait" /\ pending # None /\ RxMutexFree
    /\ ireq' = pending /\ pending' = None
    /\ IF SeedValid("user", pending.job.seed) /\ inst["user"].algo = pending.job.algo
       THEN ipc' = "built" /\ iok' = TRUE /\ UNCHANGED <<inst, vm>>
       ELSE /\ ipc' = "build" /\ UNCHANGED iok
            /\ inst' = [inst EXCEPT !["user"] = Absent]
            /\ vm' = Dangling("user")
    /\ UNCHANGED <<workers, slot, local, paused, ack, wpc, currentJob, currentAlgo,
                   poolDisconnected, feeVars, netVars, devVars>>

InitBuilt ==
    /\ ipc = "build"
    /\ \E ok \in BOOLEAN :
        /\ iok' = ok
        /\ inst' = [inst EXCEPT !["user"] =
                     [ready |-> ok, seed |-> ireq.job.seed, algo |-> ireq.job.algo,
                      vms |-> Threads[ireq.job.algo]]]
    /\ ipc' = "built"
    /\ UNCHANGED <<workerVars, currentJob, currentAlgo, pending, poolDisconnected,
                   feeVars, netVars, ireq, devVars>>

\* The first time, the dev instance is built for the user's seed; the result
\* is not looked at.
InitDevInstance ==
    /\ ipc = "built" /\ RxMutexFree
    /\ IF iok /\ devFeeEnabled /\ ~rxInitialized
       THEN /\ rxInitialized' = TRUE
            /\ IF SeedValid("dev", ireq.job.seed) /\ inst["dev"].algo = DevAlgo
               THEN UNCHANGED <<inst, vm>>
               ELSE /\ vm' = Dangling("dev")
                    /\ \E ok \in BOOLEAN :
                        inst' = [inst EXCEPT !["dev"] =
                                  [ready |-> ok, seed |-> ireq.job.seed, algo |-> DevAlgo,
                                   vms |-> Threads[ireq.job.algo]]]
       ELSE UNCHANGED <<rxInitialized, inst, vm>>
    /\ ipc' = "resume"
    /\ UNCHANGED <<workers, slot, local, paused, ack, wpc, currentJob, currentAlgo, pending,
                   poolDisconnected, devFeeActive, devFeeEnabled, devJobReady, fees, netVars,
                   ireq, iok, devVars>>

InitSkip ==     \* superseded: the next iteration handles it
    /\ pending # None
    /\ UNCHANGED <<workerVars, currentJob, currentAlgo>>

InitApply ==    \* the dataset is there: workers, job, resume
    /\ pending = None /\ iok
    /\ currentAlgo' = ireq.job.algo
    /\ currentJob' = ireq.job
    /\ IF ireq.recreate THEN Recreate(ireq.job.algo) ELSE UNCHANGED workers
    /\ IF devFeeActive THEN KeepJobs
       ELSE slot' = [w \in Ids |-> IF w \in workers' THEN ireq.job ELSE slot[w]]
    /\ IF ireq.recreate \/ poolDisconnected THEN UNCHANGED <<paused, wpc>> ELSE ResumeAll
    /\ UNCHANGED <<local, vm, ack>>

InitRestoreNone ==  \* Mutant: a failed build recreates nobody.
    /\ pending = None /\ ~iok
    /\ IF ireq.recreate \/ poolDisconnected THEN UNCHANGED <<paused, wpc>> ELSE ResumeAll
    /\ UNCHANGED <<workers, slot, local, vm, ack, currentJob, currentAlgo>>

InitRestore ==  \* it is not: the workers of the previous algorithm, or a resume
    /\ pending = None /\ ~iok
    /\ IF ireq.recreate THEN Recreate(currentAlgo) ELSE UNCHANGED workers
    /\ IF ireq.recreate \/ poolDisconnected THEN UNCHANGED <<paused, wpc>> ELSE ResumeAll
    /\ UNCHANGED <<slot, local, vm, ack, currentJob, currentAlgo>>

InitResume ==
    /\ ipc = "resume" /\ JobMutexFree
    /\ InitSkip \/ InitApply \/ InitRestore
    /\ ipc' = "wait" /\ ireq' = None /\ iok' = FALSE
    /\ UNCHANGED <<inst, pending, poolDisconnected, feeVars, netVars, devVars>>

InitThread == InitTake \/ InitBuilt \/ InitDevInstance \/ InitResume
-----------------------------------------------------------------------------
(* The dev pool's network thread.                                           *)

\* onDevJob: reinit, or a full init where that is not possible or fails; no
\* worker is paused.
OnDevJob(s) ==
    /\ dpc = "idle" /\ devJob.n < MaxDevJobs /\ RxMutexFree
    /\ djob' = [pool |-> "dev", n |-> devJob.n + 1, seed |-> s]
    /\ IF SeedValid("dev", s)
       THEN dpc' = "set" /\ UNCHANGED <<inst, vm>>
       ELSE /\ dpc' = "build"
            /\ inst' = [inst EXCEPT !["dev"] =
                         [ready |-> FALSE, seed |-> s, algo |-> DevAlgo,
                          vms |-> Threads[currentAlgo]]]
            /\ vm' = Dangling("dev")
    /\ UNCHANGED <<workers, slot, local, paused, ack, wpc, currentJob, currentAlgo, pending,
                   poolDisconnected, feeVars, netVars, initVars, devJob>>

DevBuilt ==
    /\ dpc = "build"
    /\ \E ok \in BOOLEAN :
        /\ inst' = [inst EXCEPT !["dev"].ready = ok]
        /\ devFeeEnabled' = (devFeeEnabled /\ ok)
        /\ dpc' = IF ok THEN "set" ELSE "idle"
        /\ djob' = IF ok THEN djob ELSE None
    /\ UNCHANGED <<workerVars, currentJob, currentAlgo, pending, poolDisconnected,
                   devFeeActive, devJobReady, rxInitialized, fees, netVars, initVars, devJob>>

\* Mutant: the dev job is handed out although the fee is not due.
SetDevJobAlways ==
    /\ dpc = "set" /\ JobMutexFree
    /\ devJob' = djob
    /\ devJobReady' = TRUE
    /\ SetJobs(djob)
    /\ dpc' = "idle" /\ djob' = None
    /\ UNCHANGED <<workers, local, vm, paused, ack, wpc, inst, currentJob, currentAlgo,
                   pending, poolDisconnected, devFeeActive, devFeeEnabled, rxInitialized,
                   fees, netVars, initVars>>

SetDevJob ==
    /\ dpc = "set" /\ JobMutexFree
    /\ devJob' = djob
    /\ devJobReady' = TRUE
    /\ IF devFeeActive THEN SetJobs(djob) ELSE KeepJobs
    /\ dpc' = "idle" /\ djob' = None
    /\ UNCHANGED <<workers, local, vm, paused, ack, wpc, inst, currentJob, currentAlgo,
                   pending, poolDisconnected, devFeeActive, devFeeEnabled, rxInitialized,
                   fees, netVars, initVars>>

DevNet == DevBuilt \/ SetDevJob
-----------------------------------------------------------------------------
(* The dev-fee thread, once a second while the fee is enabled; when an      *)
(* interval is over is left open.                                           *)

SwitchToDevPool ==
    /\ devFeeEnabled /\ ~devFeeActive /\ fees < MaxFees
    /\ devJobReady /\ JobMutexFree /\ RxMutexFree
    /\ SeedValid("dev", devJob.seed)
    /\ devFeeActive' = TRUE /\ fees' = fees + 1
    /\ SetJobs(devJob)
    /\ UNCHANGED <<workers, local, vm, paused, ack, wpc, inst, currentJob, currentAlgo, pending,
                   poolDisconnected, devFeeEnabled, devJobReady, rxInitialized, netVars,
                   initVars, devVars>>

\* Mutant: like switchToDevPool, it skips when the instance is not ready.
SwitchToUserPoolIfReady ==
    /\ devFeeEnabled /\ devFeeActive /\ JobMutexFree
    /\ currentJob # None /\ SeedValid("user", currentJob.seed)
    /\ devFeeActive' = FALSE
    /\ SetJobs(currentJob)
    /\ UNCHANGED <<workers, local, vm, paused, ack, wpc, inst, currentJob, currentAlgo, pending,
                   poolDisconnected, devFeeEnabled, devJobReady, rxInitialized, fees, netVars,
                   initVars, devVars>>

SwitchToUserPool ==
    /\ devFeeEnabled /\ devFeeActive /\ JobMutexFree
    /\ devFeeActive' = FALSE
    /\ SetJobs(currentJob)
    /\ UNCHANGED <<workers, local, vm, paused, ack, wpc, inst, currentJob, currentAlgo, pending,
                   poolDisconnected, devFeeEnabled, devJobReady, rxInitialized, fees, netVars,
                   initVars, devVars>>
-----------------------------------------------------------------------------
Next ==
    \/ \E w \in Ids : Park(w) \/ Check(w) \/ Hash(w)
    \/ \E s \in Seeds, a \in Algos : OnJob(s, a)
    \/ Disconnect \/ Net
    \/ InitThread
    \/ \E s \in DevSeeds : OnDevJob(s)
    \/ DevNet
    \/ SwitchToDevPool \/ SwitchToUserPool

Spec == Init /\ [][Next]_vars

\* Threads that are not waiting for another run on; the dev-fee thread ends a
\* period some time after it began.  Jobs, losses and fees are never promised.
FairSpec ==
    /\ Spec
    /\ \A w \in Ids : WF_vars(Park(w) \/ Check(w) \/ Hash(w))
    /\ WF_vars(Net) /\ WF_vars(InitThread) /\ WF_vars(DevNet) /\ WF_vars(SwitchToUserPool)
-----------------------------------------------------------------------------
Idle == npc = "idle" /\ ipc = "wait" /\ pending = None
Jobs == UserJobs \cup {None}

Vms       == [rx : {"none", "user", "dev"}, live : BOOLEAN]
Instances == [ready : BOOLEAN, seed : Seeds \cup DevSeeds \cup {None},
              algo : Algos \cup {None}, vms : Nat]

TypeOK ==
    /\ workers \subseteq Ids
    /\ slot \in [Ids -> Jobs \cup DevJobs] /\ local \in [Ids -> Jobs \cup DevJobs]
    /\ vm \in [Ids -> Vms]
    /\ paused \in [Ids -> BOOLEAN] /\ ack \in [Ids -> BOOLEAN]
    /\ wpc \in [Ids -> {"check", "hash", "parked"}]
    /\ inst \in [{"user", "dev"} -> Instances]
    /\ currentJob \in Jobs /\ lastJob \in Jobs /\ njob \in Jobs /\ currentAlgo \in Algos
    /\ devJob \in DevJobs \cup {None} /\ djob \in DevJobs \cup {None}
    /\ pending \in Requests \cup {None} /\ ireq \in Requests \cup {None}
    /\ poolDisconnected \in BOOLEAN /\ overlapped \in BOOLEAN /\ iok \in BOOLEAN
    /\ devFeeActive \in BOOLEAN /\ devFeeEnabled \in BOOLEAN
    /\ devJobReady \in BOOLEAN /\ rxInitialized \in BOOLEAN
    /\ drops \in 0..MaxDrops /\ fees \in 0..MaxFees
    /\ npc \in {"idle", "recreate", "queueRecreate", "pause", "await", "queue", "plain", "drop"}
    /\ ipc \in {"wait", "build", "built", "resume"} /\ dpc \in {"idle", "build", "set"}

(* A worker that was given a job has the one its pool is mining now: onJob, *)
(* onDevJob, the init thread and the two switches all decide by            *)
(* m_devFeeActive what to hand out, and none of them overtakes another     *)
(* (Miner.cpp:258, 314, 470, 484, 563).                                     *)
DeliveredIsCurrent ==
    \A w \in workers : slot[w] \in {None, IF devFeeActive THEN devJob ELSE currentJob}

(* While the user dataset is rebuilt no worker hashes with its VMs, nor     *)
(* holds on to one it is about to use (Miner.cpp:216-236, 510-513).         *)
BuildIsQuiet ==
    ipc = "build" /\ ~overlapped
        => \A w \in workers : wpc[w] = "hash" => vm[w].rx # "user"

(* A worker that hashes for the user's pool does so with a VM that exists,  *)
(* as long as the last build succeeded: the pointer it keeps in run() is    *)
(* taken again after every rebuild (Worker.cpp:149-163, Miner.cpp:557-565). *)
UserVmExists ==
    inst["user"].ready /\ ~overlapped
        => \A w \in workers : wpc[w] = "hash" /\ local[w].pool = "user" => vm[w].live

(* When nothing is queued or in work there is one worker for each thread    *)
(* of the current algorithm, through changes of algorithm that succeed or   *)
(* fail (Miner.cpp:216-223, 546-555, 566-578).                              *)
FullCrew ==
    Idle /\ ~overlapped => workers \in {IdsFor(currentAlgo, 0), IdsFor(currentAlgo, 1)}

(* When nothing is queued or in work and the dataset in place is that of    *)
(* the newest job of the user's pool, that job is the one being mined       *)
(* (Miner.cpp:254-257, 536-560).                                            *)
LastJobWins ==
    Idle /\ ~overlapped /\ lastJob # None /\ SeedValid("user", lastJob.seed)
         /\ inst["user"].algo = lastJob.algo
        => currentJob = lastJob

(* A dev-fee period ends, unless the fee is disabled meanwhile or the       *)
(* network thread waits for ever, m_jobMutex held, for workers that were    *)
(* parked before it paused them (Miner.cpp:134, 425-436, 476-488).          *)
AwaitsParked == npc = "await" /\ \E w \in workers : wpc[w] = "parked" /\ ~ack[w]
FeeEnds == devFeeActive ~> ~devFeeActive \/ ~devFeeEnabled \/ AwaitsParked

(* "Newer request queued - skip resume, let next iteration handle it"       *)
(* (Miner.cpp:536): then no worker is lost when the miner is idle again.    *)
CrewSurvives == Idle => workers # {}

(* "Seed change failed - resume workers with old state" (Miner.cpp:580):    *)
(* the state they resume with, the VM pointer included, still exists.       *)
ResumedVmExists ==
    ~devFeeActive /\ ~overlapped => \A w \in workers : wpc[w] = "hash" => vm[w].live

(* "prevents stale hashing when network drops" (Miner.h:85): once           *)
(* onDisconnected has returned, no worker hashes a job of the user's pool   *)
(* that it was not already hashing when it was paused.                      *)
LostPoolIsNotMined ==
    poolDisconnected /\ npc = "idle"
        => \A w \in workers : wpc[w] = "hash" /\ local[w].pool = "user" => paused[w]
=============================================================================
