----------------------------- MODULE MinerProofs -----------------------------
(* The safety properties of Miner, for any algorithms, seeds and thread    *)
(* counts and any number of jobs, connection losses and fee periods.        *)
EXTENDS Miner, TLAPS

\* A thread that is past the first step of its handler has something in hand.
HandsInv ==
    /\ npc \notin {"idle", "drop"} => njob \in UserJobs
    /\ ipc # "wait" => ireq \in Requests
    /\ dpc # "idle" => djob \in DevJobs

\* An object that is not in m_workers carries no job: one that is created
\* while the fee is being mined starts without any.
AbsentInv == \A w \in Ids \ workers : slot[w] = None

TypeInv == TypeOK /\ HandsInv
JobInv  == TypeInv /\ AbsentInv /\ DeliveredIsCurrent
-----------------------------------------------------------------------------
(* The shapes of the records the steps build and take apart.                *)

LEMMA NoneIsJob == None \in Jobs
  BY DEF Jobs

LEMMA RequestParts ==
    ASSUME NEW r \in Requests
    PROVE  /\ r.job \in UserJobs /\ r.recreate \in BOOLEAN
           /\ r.job.algo \in Algos /\ r.job.seed \in Seeds
  BY DEF Requests, UserJobs

LEMMA RequestOf ==
    ASSUME NEW j \in UserJobs, NEW b \in BOOLEAN
    PROVE  [job |-> j, recreate |-> b] \in Requests
  BY DEF Requests

LEMMA NextUserJob ==
    ASSUME lastJob \in Jobs, lastJob.n < MaxUserJobs, NEW s \in Seeds, NEW a \in Algos
    PROVE  [pool |-> "user", n |-> lastJob.n + 1, seed |-> s, algo |-> a] \in UserJobs
<1>1. lastJob.n \in Nat
  BY DEF Jobs, UserJobs, None
<1> QED  BY <1>1, BoundsAssumption DEF UserJobs

LEMMA NextDevJob ==
    ASSUME devJob \in DevJobs \cup {None}, devJob.n < MaxDevJobs, NEW s \in DevSeeds
    PROVE  [pool |-> "dev", n |-> devJob.n + 1, seed |-> s] \in DevJobs
<1>1. devJob.n \in Nat
  BY DEF DevJobs, None
<1> QED  BY <1>1, BoundsAssumption DEF DevJobs

LEMMA InstanceOf ==
    ASSUME NEW ok \in BOOLEAN, NEW s \in Seeds \cup DevSeeds, NEW a \in Algos, NEW b \in Algos
    PROVE  [ready |-> ok, seed |-> s, algo |-> a, vms |-> Threads[b]] \in Instances
  BY ThreadsAssumption DEF Instances

LEMMA AbsentIsInstance == Absent \in Instances
  BY DEF Absent, Instances

LEMMA ReadyIsInstance ==
    ASSUME NEW x \in Instances, NEW ok \in BOOLEAN
    PROVE  [x EXCEPT !.ready = ok] \in Instances
  BY DEF Instances

LEMMA CrewIds ==
    ASSUME NEW a \in Algos PROVE IdsFor(a, FreeFill) \subseteq Ids
  BY DEF Ids, FreeFill

LEMMA VmForType ==
    ASSUME NEW w, NEW j PROVE VmFor(w, j) \in Vms
  BY DEF VmFor, Vms, NoVm

LEMMA DanglingType ==
    ASSUME vm \in [Ids -> Vms], NEW r PROVE Dangling(r) \in [Ids -> Vms]
  BY DEF Dangling, Vms
-----------------------------------------------------------------------------
LEMMA InitTypes == Init => JobInv
<1> SUFFICES ASSUME Init PROVE JobInv
  OBVIOUS
<1> USE DEF Init
<1>1. workers \subseteq Ids
  BY AlgoAssumption DEF Ids
<1>2. inst \in [{"user", "dev"} -> Instances]
  BY AbsentIsInstance
<1>3. vm \in [Ids -> Vms]
  BY DEF NoVm, Vms
<1>4. /\ slot \in [Ids -> Jobs \cup DevJobs] /\ local \in [Ids -> Jobs \cup DevJobs]
      /\ paused \in [Ids -> BOOLEAN] /\ ack \in [Ids -> BOOLEAN]
      /\ wpc \in [Ids -> {"check", "hash", "parked"}]
  BY NoneIsJob
<1>5. drops \in 0..MaxDrops /\ fees \in 0..MaxFees
  BY BoundsAssumption
<1>6. currentAlgo \in Algos
  BY AlgoAssumption
<1>7. TypeOK
  BY <1>1, <1>2, <1>3, <1>4, <1>5, <1>6, NoneIsJob, Zenon DEF TypeOK
<1>8. HandsInv /\ AbsentInv
  BY DEF HandsInv, AbsentInv
<1>9. DeliveredIsCurrent
  BY <1>1 DEF DeliveredIsCurrent
<1> QED  BY <1>7, <1>8, <1>9 DEF JobInv, TypeInv
-----------------------------------------------------------------------------
(* Types: one case per step.  What the threads have in hand is what makes   *)
(* the steps that store it well typed.                                      *)
LEMMA TypeStep ==
    ASSUME TypeInv, [Next]_vars PROVE TypeInv'
<1> USE DEF TypeInv, TypeOK, HandsInv, workerVars, feeVars, netVars, initVars, devVars
<1> USE NoneIsJob
<1>1. ASSUME NEW w \in Ids, Park(w) PROVE TypeInv'
  BY <1>1 DEF Park
<1>2. ASSUME NEW w \in Ids, Check(w) PROVE TypeInv'
  BY <1>2, VmForType DEF Check
<1>3. ASSUME NEW w \in Ids, Hash(w) PROVE TypeInv'
  BY <1>3 DEF Hash
<1>4. ASSUME NEW s \in Seeds, NEW a \in Algos, OnJob(s, a) PROVE TypeInv'
  BY <1>4, NextUserJob DEF OnJob, Jobs
<1>5. CASE OnJobRecreate
  BY <1>5 DEF OnJobRecreate, Keep, NoVm, Vms
<1>6. CASE OnJobPause
  BY <1>6 DEF OnJobPause, PauseAll
<1>7. CASE OnJobAcknowledged
  BY <1>7 DEF OnJobAcknowledged
<1>8. CASE OnJobQueue
  <2>1. (npc = "queueRecreate") \in BOOLEAN /\ njob \in UserJobs
    BY <1>8 DEF OnJobQueue
  <2>2. pending' \in Requests
    BY <1>8, <2>1, RequestOf DEF OnJobQueue
  <2> QED  BY <1>8, <2>2 DEF OnJobQueue
<1>9. CASE OnJobPlain
  <2>1. njob \in Jobs
    BY <1>9 DEF OnJobPlain
  <2>2. slot' \in [Ids -> Jobs \cup DevJobs]
    BY <1>9, <2>1 DEF OnJobPlain, SetJobs, KeepJobs
  <2>3. paused' \in [Ids -> BOOLEAN] /\ wpc' \in [Ids -> {"check", "hash", "parked"}]
    BY <1>9 DEF OnJobPlain, ResumeAll
  <2>4. poolDisconnected' \in BOOLEAN /\ npc' = "idle"
    BY <1>9 DEF OnJobPlain
  <2>5. currentJob' \in Jobs /\ njob' \in Jobs
    BY <1>9, <2>1 DEF OnJobPlain
  <2> QED  BY <1>9, <2>2, <2>3, <2>4, <2>5 DEF OnJobPlain
<1>10. CASE Disconnect
  BY <1>10, BoundsAssumption DEF Disconnect
<1>11. CASE DisconnectPause
  BY <1>11 DEF DisconnectPause, PauseAll
<1>12. CASE InitTake
  <2>1. inst' \in [{"user", "dev"} -> Instances] /\ vm' \in [Ids -> Vms]
    BY <1>12, DanglingType, AbsentIsInstance DEF InitTake
  <2>2. ireq' \in Requests /\ pending' = None
    BY <1>12 DEF InitTake
  <2>3. ipc' \in {"built", "build"} /\ iok' \in BOOLEAN
    BY <1>12 DEF InitTake
  <2> QED  BY <1>12, <2>1, <2>2, <2>3 DEF InitTake
<1>13. CASE InitBuilt
  BY <1>13, InstanceOf, RequestParts DEF InitBuilt
<1>14. CASE InitDevInstance
  <2>1. /\ ireq \in Requests
        /\ ireq.job.seed \in Seeds \cup DevSeeds /\ ireq.job.algo \in Algos
    BY <1>14, RequestParts DEF InitDevInstance
  <2>2. \A ok \in BOOLEAN : [ready |-> ok, seed |-> ireq.job.seed, algo |-> DevAlgo,
                             vms |-> Threads[ireq.job.algo]] \in Instances
    BY <2>1, InstanceOf, AlgoAssumption
  <2>3. inst' \in [{"user", "dev"} -> Instances] /\ vm' \in [Ids -> Vms]
    BY <1>14, <2>2, DanglingType DEF InitDevInstance
  <2>4. rxInitialized' \in BOOLEAN
    BY <1>14 DEF InitDevInstance
  <2> QED  BY <1>14, <2>1, <2>3, <2>4 DEF InitDevInstance
<1>15. CASE InitResume
  <2>1. ireq.job \in UserJobs /\ ireq.job \in Jobs /\ ireq.job.algo \in Algos
    BY <1>15, RequestParts DEF InitResume, Jobs
  <2>2. /\ workers' \subseteq Ids /\ slot' \in [Ids -> Jobs \cup DevJobs]
        /\ paused' \in [Ids -> BOOLEAN] /\ wpc' \in [Ids -> {"check", "hash", "parked"}]
        /\ currentJob' \in Jobs /\ currentAlgo' \in Algos
        /\ UNCHANGED <<local, vm, ack>>
    <3>1. CASE InitSkip
      BY <3>1 DEF InitSkip
    <3>2. CASE InitApply
      BY <2>1, <3>2, CrewIds DEF InitApply, Recreate, KeepJobs, ResumeAll
    <3>3. CASE InitRestore
      BY <3>3, CrewIds DEF InitRestore, Recreate, ResumeAll
    <3> QED  BY <1>15, <3>1, <3>2, <3>3 DEF InitResume
  <2>3. ipc' = "wait" /\ ireq' \in Requests \cup {None} /\ iok' \in BOOLEAN
    BY <1>15 DEF InitResume
  <2>4. UNCHANGED <<inst, pending, poolDisconnected, feeVars, netVars, devVars>>
    BY <1>15 DEF InitResume
  <2> QED  BY <2>2, <2>3, <2>4
<1>16. ASSUME NEW s \in DevSeeds, OnDevJob(s) PROVE TypeInv'
  <2>1. djob' \in DevJobs
    BY <1>16, NextDevJob DEF OnDevJob
  <2>2. inst' \in [{"user", "dev"} -> Instances] /\ vm' \in [Ids -> Vms]
    <3>1. [ready |-> FALSE, seed |-> s, algo |-> DevAlgo, vms |-> Threads[currentAlgo]]
             \in Instances
      BY InstanceOf, AlgoAssumption
    <3>2. inst' \in [{"user", "dev"} -> Instances]
      BY <1>16, <3>1 DEF OnDevJob
    <3>3. vm' \in [Ids -> Vms]
      <4>1. vm' = vm \/ vm' = Dangling("dev")
        BY <1>16 DEF OnDevJob
      <4> QED  BY <4>1, DanglingType
    <3> QED  BY <3>2, <3>3
  <2>3. dpc' \in {"set", "build"}
    BY <1>16 DEF OnDevJob
  <2> QED  BY <1>16, <2>1, <2>2, <2>3 DEF OnDevJob
<1>17. CASE DevBuilt
  BY <1>17, ReadyIsInstance DEF DevBuilt
<1>18. CASE SetDevJob
  BY <1>18 DEF SetDevJob, SetJobs, KeepJobs
<1>19. CASE SwitchToDevPool
  BY <1>19, BoundsAssumption DEF SwitchToDevPool, SetJobs
<1>20. CASE SwitchToUserPool
  <2>1. slot' \in [Ids -> Jobs \cup DevJobs]
    BY <1>20 DEF SwitchToUserPool, SetJobs
  <2>2. devFeeActive' \in BOOLEAN
    BY <1>20 DEF SwitchToUserPool
  <2> QED  BY <1>20, <2>1, <2>2 DEF SwitchToUserPool
<1>21. CASE UNCHANGED vars
  BY <1>21 DEF vars
<1> QED
  BY <1>1, <1>2, <1>3, <1>4, <1>5, <1>6, <1>7, <1>8, <1>9, <1>10, <1>11, <1>12, <1>13,
     <1>14, <1>15, <1>16, <1>17, <1>18, <1>19, <1>20, <1>21
  DEF Next, Net, InitThread, DevNet
-----------------------------------------------------------------------------
(* What the workers were given: every step that changes a slot, the pool    *)
(* that is mined, or the pool's current job changes the others to match.    *)
LEMMA JobStep ==
    ASSUME JobInv, [Next]_vars PROVE JobInv'
<1>1. TypeInv'
  BY TypeStep DEF JobInv
<1>2. AbsentInv /\ DeliveredIsCurrent /\ workers \subseteq Ids
  BY DEF JobInv, TypeInv, TypeOK
<1> DEFINE Good == AbsentInv' /\ DeliveredIsCurrent'
           Kept == /\ UNCHANGED <<workers, slot, currentJob, devFeeActive>>
                   /\ devFeeActive => UNCHANGED devJob
<1> SUFFICES Good
  BY <1>1 DEF JobInv
<1>3. Kept => Good
  BY <1>2 DEF AbsentInv, DeliveredIsCurrent
<1>4. ASSUME NEW w \in Ids, Park(w) \/ Check(w) \/ Hash(w) PROVE Kept
  BY <1>4 DEF Park, Check, Hash, feeVars, devVars
<1>5. ASSUME NEW s \in Seeds, NEW a \in Algos, OnJob(s, a) PROVE Kept
  BY <1>5 DEF OnJob, workerVars, feeVars, devVars
<1>6. CASE OnJobRecreate
  BY <1>6 DEF OnJobRecreate, Keep, AbsentInv, DeliveredIsCurrent
<1>7. CASE OnJobPause \/ OnJobAcknowledged \/ OnJobQueue \/ Disconnect \/ DisconnectPause
  <2>1. Kept
    BY <1>7 DEF OnJobPause, OnJobAcknowledged, OnJobQueue, Disconnect, DisconnectPause,
                workerVars, feeVars, devVars
  <2> QED  BY <1>3, <2>1
<1>8. CASE OnJobPlain
  <2>1. UNCHANGED <<workers, devFeeActive, devJob>>
    BY <1>8 DEF OnJobPlain, feeVars, devVars
  <2>2. /\ currentJob' = njob
        /\ IF devFeeActive THEN KeepJobs ELSE SetJobs(njob)
    BY <1>8 DEF OnJobPlain
  <2> QED  BY <1>2, <2>1, <2>2 DEF SetJobs, KeepJobs, AbsentInv, DeliveredIsCurrent
<1>9. CASE InitTake \/ InitBuilt \/ InitDevInstance
  <2>1. Kept
    BY <1>9 DEF InitTake, InitBuilt, InitDevInstance, workerVars, feeVars, devVars
  <2> QED  BY <1>3, <2>1
<1>10. CASE InitResume
  <2>1. UNCHANGED <<devFeeActive, devJob>>
    BY <1>10 DEF InitResume, feeVars, devVars
  <2>2. ASSUME InitSkip PROVE Kept
    BY <2>1, <2>2 DEF InitSkip, workerVars
  <2>3. CASE InitApply
    <3>1. workers \subseteq workers' /\ workers' \subseteq Ids
      BY <1>1, <2>3 DEF InitApply, Recreate, TypeInv, TypeOK
    <3>2. CASE devFeeActive
      BY <1>2, <2>1, <2>3, <3>1, <3>2
      DEF InitApply, KeepJobs, AbsentInv, DeliveredIsCurrent
    <3>3. CASE ~devFeeActive
      <4>1. /\ currentJob' = ireq.job
            /\ slot' = [w \in Ids |-> IF w \in workers' THEN ireq.job ELSE slot[w]]
        BY <2>3, <3>3 DEF InitApply
      <4> QED  BY <1>2, <2>1, <3>1, <3>3, <4>1 DEF AbsentInv, DeliveredIsCurrent
    <3> QED  BY <3>2, <3>3
  <2>4. CASE InitRestore
    <3>1. workers \subseteq workers' /\ workers' \subseteq Ids
      BY <1>1, <2>4 DEF InitRestore, Recreate, TypeInv, TypeOK
    <3>2. UNCHANGED <<slot, currentJob>>
      BY <2>4 DEF InitRestore
    <3> QED  BY <1>2, <2>1, <3>1, <3>2 DEF AbsentInv, DeliveredIsCurrent
  <2> QED  BY <1>3, <1>10, <2>2, <2>3, <2>4 DEF InitResume
<1>11. ASSUME NEW s \in DevSeeds, OnDevJob(s) PROVE Kept
  BY <1>11 DEF OnDevJob, feeVars
<1>12. CASE DevBuilt
  <2>1. Kept
    BY <1>12 DEF DevBuilt, workerVars
  <2> QED  BY <1>3, <2>1
<1>13. CASE SetDevJob
  <2>1. UNCHANGED <<workers, devFeeActive, currentJob>> /\ devJob' = djob
    BY <1>13 DEF SetDevJob
  <2>2. IF devFeeActive THEN SetJobs(djob) ELSE KeepJobs
    BY <1>13 DEF SetDevJob
  <2> QED  BY <1>2, <2>1, <2>2 DEF SetJobs, KeepJobs, AbsentInv, DeliveredIsCurrent
<1>14. CASE SwitchToDevPool
  <2>1. UNCHANGED <<workers, devJob>> /\ devFeeActive' = TRUE /\ SetJobs(devJob)
    BY <1>14 DEF SwitchToDevPool, devVars
  <2> QED  BY <1>2, <2>1 DEF SetJobs, AbsentInv, DeliveredIsCurrent
<1>15. CASE SwitchToUserPool
  <2>1. UNCHANGED <<workers, currentJob>> /\ devFeeActive' = FALSE /\ SetJobs(currentJob)
    BY <1>15 DEF SwitchToUserPool
  <2> QED  BY <1>2, <2>1 DEF SetJobs, AbsentInv, DeliveredIsCurrent
<1>16. ASSUME UNCHANGED vars PROVE Kept
  BY <1>16 DEF vars, workerVars, feeVars, devVars
<1> HIDE DEF Good, Kept
<1> QED
  BY <1>3, <1>4, <1>5, <1>6, <1>7, <1>8, <1>9, <1>10, <1>11, <1>12, <1>13, <1>14, <1>15,
     <1>16
  DEF Next, Net, InitThread, DevNet
-----------------------------------------------------------------------------
(* The invariant: types, what the threads have in hand, what was delivered. *)
THEOREM Invariance == Spec => []JobInv
<1>1. Init => JobInv
  BY InitTypes
<1>2. JobInv /\ [Next]_vars => JobInv'
  BY JobStep
<1> QED  BY <1>1, <1>2, PTL DEF Spec

(* Types, for any constants (Miner.h's members, Miner.cpp's handlers).      *)
THEOREM TypeCorrect == Spec => []TypeOK
<1>1. JobInv => TypeOK
  BY DEF JobInv, TypeInv
<1> QED  BY <1>1, Invariance, PTL

(* Whichever thread hands out a job, a worker only ever has the job of the  *)
(* pool that is being mined, or none (Miner.cpp:258, 314, 470, 484, 563).   *)
THEOREM RightJob == Spec => []DeliveredIsCurrent
<1>1. JobInv => DeliveredIsCurrent
  BY DEF JobInv
<1> QED  BY <1>1, Invariance, PTL
-----------------------------------------------------------------------------
(* Requests one at a time.  As long as no user job came while a build was   *)
(* queued or in work, at most one thread has the newest job in hand, and    *)
(* the shape of m_workers follows from where it is.                         *)

InHand   == npc \notin {"idle", "drop"}
InFlight == InHand \/ pending # None \/ ipc # "wait"

OneRequest ==
    /\ InHand => pending = None /\ ipc = "wait" /\ njob = lastJob
    /\ pending # None => ipc = "wait" /\ pending.job = lastJob
    /\ ipc # "wait" => ireq.job = lastJob

\* A request that recreates nobody is for the algorithm in place.
SameAlgo ==
    /\ npc \in {"pause", "await", "queue", "plain"} => njob.algo = currentAlgo
    /\ pending # None => pending.recreate \/ pending.job.algo = currentAlgo
    /\ ipc # "wait" => ireq.recreate \/ ireq.job.algo = currentAlgo

Emptied == \/ npc = "queueRecreate"
           \/ pending # None /\ pending.recreate
           \/ ipc # "wait" /\ ireq.recreate

Crew == IF Emptied THEN workers = {}
        ELSE workers \in {IdsFor(currentAlgo, 0), IdsFor(currentAlgo, 1)}

\* An object that is not in m_workers is as the constructor leaves it.
AbsentIdle == \A w \in Ids \ workers : wpc[w] = "check" /\ ~paused[w] /\ vm[w].rx = "none"

\* A request is queued and built while every worker is parked.
Quiet ==
    /\ \A w \in workers : ack[w] /\ paused[w] => wpc[w] = "parked"
    /\ npc = "await" => \A w \in workers : paused[w]
    /\ npc = "queue" \/ pending # None \/ ipc # "wait"
          => \A w \in workers : paused[w] /\ wpc[w] = "parked"

\* Once nothing is in flight, the newest job is mined or has no dataset.
Settled ==
    /\ ipc \in {"built", "resume"} => iok \/ ~inst["user"].ready
    /\ ~InFlight /\ lastJob # None /\ SeedValid("user", lastJob.seed)
          /\ inst["user"].algo = lastJob.algo
       => currentJob = lastJob

\* What is delivered, taken or mined is no newer than the newest job, and
\* older while that is in flight.
Older(j) == j.pool = "user" => IF InFlight THEN j.n < lastJob.n ELSE j.n <= lastJob.n
Ages     == Older(currentJob) /\ \A w \in Ids : Older(slot[w]) /\ Older(local[w])

\* A worker whose VM is gone is not hashing and will be given another job.
Stale(w) == local[w].pool = "user" /\ vm[w].rx # "none" /\ ~vm[w].live
Renewed  ==
    /\ \A w \in Ids : local[w].pool = "user" => vm[w].rx # "dev"
    /\ \A w \in workers : wpc[w] = "hash" => vm[w].rx # "none"
    /\ ipc = "wait" /\ inst["user"].ready
          => \A w \in workers :
                Stale(w) => wpc[w] # "hash" /\ local[w] \notin {currentJob, slot[w]}

FlightInv == OneRequest /\ SameAlgo /\ Crew /\ AbsentIdle /\ Quiet /\ Settled /\ Ages /\ Renewed
OrderInv  == ~overlapped => FlightInv
-----------------------------------------------------------------------------
LEMMA OrderInit == Init => OrderInv
<1> SUFFICES ASSUME Init PROVE FlightInv
  BY DEF OrderInv
<1> USE DEF Init
<1>1. /\ npc = "idle" /\ pending = None /\ ipc = "wait" /\ lastJob = None /\ currentJob = None
      /\ ~InHand /\ ~InFlight
  BY DEF InHand, InFlight
<1>2. OneRequest /\ SameAlgo /\ Settled
  BY <1>1 DEF OneRequest, SameAlgo, Settled
<1>3. Crew
  BY <1>1 DEF Crew, Emptied
<1>4. AbsentIdle /\ Quiet
  <2>1. workers \subseteq Ids
    BY InitTypes DEF JobInv, TypeInv, TypeOK
  <2>2. \A w \in Ids : wpc[w] = "check" /\ ~paused[w] /\ ~ack[w] /\ vm[w].rx = "none"
    BY DEF NoVm
  <2> HIDE DEF Init
  <2> QED  BY <1>1, <2>1, <2>2 DEF AbsentIdle, Quiet
<1>5. None.pool = "none" /\ \A w \in Ids : slot[w] = None /\ local[w] = None
  BY DEF None
<1>6. Ages
  BY <1>1, <1>5 DEF Ages, Older
<1>7. \A w \in Ids : local[w].pool # "user" /\ wpc[w] = "check"
  BY <1>5
<1>8. workers \subseteq Ids
  BY InitTypes DEF JobInv, TypeInv, TypeOK
<1>9. Renewed
  BY <1>7, <1>8 DEF Renewed, Stale
<1> QED  BY <1>2, <1>3, <1>4, <1>6, <1>9 DEF FlightInv

\* The history never forgets that two requests were there at once.
LEMMA StillOne ==
    ASSUME TypeInv, [Next]_vars, ~overlapped' PROVE ~overlapped
<1>1. overlapped \in BOOLEAN
  BY DEF TypeInv, TypeOK
<1> QED
  BY <1>1
  DEF Next, Net, InitThread, DevNet, Park, Check, Hash, OnJob, OnJobRecreate, OnJobPause,
      OnJobAcknowledged, OnJobQueue, OnJobPlain, Disconnect, DisconnectPause, InitTake,
      InitBuilt, InitDevInstance, InitResume, OnDevJob, DevBuilt, SetDevJob,
      SwitchToDevPool, SwitchToUserPool, vars, netVars

\* Where the request is: with the network thread, queued, or with the init
\* thread; and what that says of m_workers.
LEMMA CrewStep ==
    ASSUME TypeInv, FlightInv, [Next]_vars, ~overlapped'
    PROVE  OneRequest' /\ SameAlgo' /\ Crew'
<1> DEFINE Good == OneRequest' /\ SameAlgo' /\ Crew'
           Kept == UNCHANGED <<npc, njob, lastJob, pending, ipc, ireq, currentAlgo, workers>>
<1> SUFFICES Good
  OBVIOUS
<1> USE DEF workerVars, feeVars, netVars, initVars, devVars
<1>1. /\ OneRequest /\ SameAlgo /\ Crew
      /\ pending \in Requests \cup {None} /\ (ipc # "wait" => ireq \in Requests)
      /\ (npc \notin {"idle", "drop"} => njob \in UserJobs)
      /\ npc \in {"idle", "recreate", "queueRecreate", "pause", "await", "queue", "plain", "drop"}
      /\ ipc \in {"wait", "build", "built", "resume"}
  BY DEF FlightInv, TypeInv, TypeOK, HandsInv
<1> USE DEF OneRequest, SameAlgo, InHand
<1>2. Kept => Good
  BY <1>1 DEF Crew, Emptied
<1>3. ASSUME NEW w \in Ids, Park(w) \/ Check(w) \/ Hash(w) PROVE Kept
  BY <1>3 DEF Park, Check, Hash
<1>4. ASSUME NEW s \in Seeds, NEW a \in Algos, OnJob(s, a) PROVE Good
  <2>1. pending = None /\ ipc = "wait" /\ npc = "idle"
    BY <1>4 DEF OnJob
  <2>2. /\ npc' \in {"recreate", "pause", "plain"} /\ njob' = lastJob'
        /\ (npc' # "recreate" => njob'.algo = currentAlgo)
        /\ UNCHANGED <<pending, ipc, ireq, currentAlgo, workers>>
    BY <1>4 DEF OnJob
  <2> QED  BY <1>1, <2>1, <2>2 DEF Crew, Emptied
<1>5. CASE OnJobRecreate
  BY <1>1, <1>5 DEF OnJobRecreate, Keep, Crew, Emptied
<1>6. CASE OnJobPause \/ OnJobAcknowledged
  BY <1>1, <1>6 DEF OnJobPause, OnJobAcknowledged, Crew, Emptied
<1>7. CASE OnJobQueue
  <2>1. /\ npc' = "idle" /\ ipc = "wait" /\ njob = lastJob
        /\ pending' = [job |-> njob, recreate |-> npc = "queueRecreate"]
        /\ UNCHANGED <<ipc, ireq, lastJob, currentAlgo, workers>>
    BY <1>1, <1>7 DEF OnJobQueue
  <2>2. pending' # None /\ pending'.job = njob /\ pending'.recreate = (npc = "queueRecreate")
    BY <2>1 DEF None
  <2>3. npc = "queue" => njob.algo = currentAlgo
    BY <1>1
  <2>4. npc \in {"queue", "queueRecreate"} /\ pending = None
    BY <1>1, <1>7 DEF OnJobQueue
  <2>5. OneRequest' /\ SameAlgo'
    BY <1>1, <2>1, <2>2, <2>3, <2>4
  <2>6. Emptied <=> npc = "queueRecreate"
    BY <2>1, <2>4 DEF Emptied
  <2>7. Emptied' <=> npc = "queueRecreate"
    BY <2>1, <2>2 DEF Emptied
  <2> QED  BY <1>1, <2>1, <2>5, <2>6, <2>7 DEF Crew
<1>8. CASE OnJobPlain
  BY <1>1, <1>8 DEF OnJobPlain, Crew, Emptied
<1>9. CASE Disconnect \/ DisconnectPause
  BY <1>1, <1>9 DEF Disconnect, DisconnectPause, Crew, Emptied
<1>10. CASE InitTake
  <2>1. /\ pending # None /\ pending' = None /\ ipc = "wait" /\ ireq' = pending
        /\ ipc' \in {"built", "build"} /\ npc \in {"idle", "drop"}
        /\ UNCHANGED <<npc, njob, lastJob, currentAlgo, workers>>
    BY <1>1, <1>10 DEF InitTake
  <2>2. Emptied' = Emptied
    BY <2>1 DEF Emptied
  <2> QED  BY <1>1, <2>1, <2>2 DEF Crew
<1>11. CASE InitBuilt \/ InitDevInstance
  BY <1>1, <1>11 DEF InitBuilt, InitDevInstance, Crew, Emptied
<1>12. CASE InitResume
  <2>1. /\ ipc = "resume" /\ ipc' = "wait" /\ pending = None /\ npc \in {"idle", "drop"}
        /\ UNCHANGED <<npc, njob, lastJob, pending>>
    BY <1>1, <1>12 DEF InitResume
  <2>2. ~Emptied' /\ (Emptied <=> ireq.recreate)
    BY <2>1 DEF Emptied
  <2>3. workers = {} => FreeFill = 0
    BY DEF FreeFill
  <2>4. CASE InitApply
    <3>1. CASE ireq.recreate
      <4>1. workers = {}
        BY <1>1, <2>2, <3>1 DEF Crew
      <4>2. workers' = workers \cup IdsFor(ireq.job.algo, FreeFill)
            /\ currentAlgo' = ireq.job.algo
        BY <2>4, <3>1 DEF InitApply, Recreate
      <4>3. workers' = IdsFor(currentAlgo', 0)
        BY <2>3, <4>1, <4>2
      <4> QED  BY <1>1, <2>1, <2>2, <4>3 DEF Crew
    <3>2. CASE ~ireq.recreate
      BY <1>1, <2>1, <2>2, <2>4, <3>2 DEF InitApply, Crew
    <3> QED  BY <1>1, <2>1, <3>1, <3>2
  <2>5. CASE InitRestore
    BY <1>1, <2>1, <2>2, <2>3, <2>5 DEF InitRestore, Recreate, Crew
  <2> QED  BY <1>12, <2>1, <2>4, <2>5 DEF InitResume, InitSkip
<1>13. ASSUME NEW s \in DevSeeds, OnDevJob(s) PROVE Kept
  BY <1>13 DEF OnDevJob
<1>14. CASE DevBuilt \/ SetDevJob \/ SwitchToDevPool \/ SwitchToUserPool
  <2>1. Kept
    BY <1>14 DEF DevBuilt, SetDevJob, SwitchToDevPool, SwitchToUserPool
  <2> QED  BY <1>2, <2>1
<1>15. ASSUME UNCHANGED vars PROVE Kept
  BY <1>15 DEF vars
<1> HIDE DEF Good, Kept
<1> QED
  BY <1>2, <1>3, <1>4, <1>5, <1>6, <1>7, <1>8, <1>9, <1>10, <1>11, <1>12, <1>13, <1>14,
     <1>15
  DEF Next, Net, InitThread, DevNet

\* Who is parked.  Only the wait for the acknowledgements starts a request
\* that leaves workers in place, and only its end resumes them.
LEMMA QuietStep ==
    ASSUME TypeInv, FlightInv, [Next]_vars, ~overlapped'
    PROVE  AbsentIdle' /\ Quiet'
<1> DEFINE Good == AbsentIdle' /\ Quiet'
           Kept == UNCHANGED <<npc, pending, ipc, workers, wpc, paused, ack>>
                   /\ \A w \in Ids : vm'[w].rx = vm[w].rx
<1> SUFFICES Good
  OBVIOUS
<1> USE DEF workerVars, feeVars, netVars, initVars, devVars
<1>1. /\ OneRequest /\ Crew /\ AbsentIdle /\ Quiet
      /\ workers \subseteq Ids /\ vm \in [Ids -> Vms]
      /\ paused \in [Ids -> BOOLEAN] /\ ack \in [Ids -> BOOLEAN]
      /\ wpc \in [Ids -> {"check", "hash", "parked"}]
      /\ npc \in {"idle", "recreate", "queueRecreate", "pause", "await", "queue", "plain", "drop"}
  BY DEF FlightInv, TypeInv, TypeOK
<1>2. Kept => Good
  BY <1>1 DEF AbsentIdle, Quiet
<1>3. \A r : \A w \in Ids : Dangling(r)[w].rx = vm[w].rx
  BY <1>1 DEF Dangling, Vms
<1>4. ASSUME NEW w \in Ids, Park(w) PROVE Good
  BY <1>1, <1>4 DEF Park, AbsentIdle, Quiet
<1>5. ASSUME NEW w \in Ids, Check(w) PROVE Good
  <2>1. /\ w \in workers /\ ~paused[w] /\ UNCHANGED <<npc, pending, ipc, workers, paused>>
        /\ ack' = [ack EXCEPT ![w] = FALSE]
        /\ \E pc \in {"hash", "check"} : wpc' = [wpc EXCEPT ![w] = pc]
        /\ \E v : vm' = [vm EXCEPT ![w] = v] \/ vm' = vm
    BY <1>5 DEF Check
  <2>2. AbsentIdle'
    BY <1>1, <2>1 DEF AbsentIdle
  <2>3. Quiet'
    BY <1>1, <2>1 DEF Quiet
  <2> QED  BY <2>2, <2>3
<1>6. ASSUME NEW w \in Ids, Hash(w) PROVE Good
  <2>1. /\ w \in workers /\ wpc[w] = "hash" /\ wpc' = [wpc EXCEPT ![w] = "check"]
        /\ UNCHANGED <<npc, pending, ipc, workers, paused, ack, vm>>
    BY <1>6 DEF Hash
  <2>2. AbsentIdle'
    BY <1>1, <2>1 DEF AbsentIdle
  <2>3. Quiet'
    BY <1>1, <2>1 DEF Quiet
  <2> QED  BY <2>2, <2>3
<1>7. ASSUME NEW s \in Seeds, NEW a \in Algos, OnJob(s, a) PROVE Good
  BY <1>1, <1>7 DEF OnJob, AbsentIdle, Quiet
<1>8. CASE OnJobRecreate
  <2>1. workers' = {}
    BY <1>8 DEF OnJobRecreate, Keep
  <2>2. \A w \in Ids : wpc'[w] = "check" /\ ~paused'[w] /\ vm'[w] = NoVm
    BY <1>8 DEF OnJobRecreate, Keep
  <2> QED  BY <2>1, <2>2 DEF AbsentIdle, Quiet, NoVm
<1>9. CASE OnJobPause
  <2>1. /\ npc = "pause" /\ npc' = "await" /\ UNCHANGED <<pending, ipc, workers, wpc, vm>>
        /\ \A w \in Ids : ~ack'[w] /\ (paused'[w] <=> w \in workers)
    BY <1>9 DEF OnJobPause, PauseAll
  <2>2. pending = None /\ ipc = "wait"
    BY <1>1, <2>1 DEF OneRequest, InHand
  <2> QED  BY <1>1, <2>1, <2>2 DEF AbsentIdle, Quiet
<1>10. CASE OnJobAcknowledged
  BY <1>1, <1>10 DEF OnJobAcknowledged, AbsentIdle, Quiet
<1>11. CASE OnJobQueue
  <2>1. npc = "queueRecreate" => workers = {}
    BY <1>1 DEF Crew, Emptied
  <2> QED  BY <1>1, <1>11, <2>1 DEF OnJobQueue, AbsentIdle, Quiet
<1>12. CASE OnJobPlain
  <2>1. /\ npc = "plain" /\ npc' = "idle" /\ UNCHANGED <<pending, ipc, workers, vm, ack>>
        /\ ResumeAll \/ UNCHANGED <<paused, wpc>>
    BY <1>12 DEF OnJobPlain
  <2>2. pending = None /\ ipc = "wait"
    BY <1>1, <2>1 DEF OneRequest, InHand
  <2> QED  BY <1>1, <2>1, <2>2 DEF ResumeAll, AbsentIdle, Quiet
<1>13. CASE Disconnect
  BY <1>1, <1>13 DEF Disconnect, AbsentIdle, Quiet
<1>14. CASE DisconnectPause
  <2>1. /\ npc' = "idle" /\ UNCHANGED <<pending, ipc, workers, wpc, vm>>
        /\ \A w \in Ids : ~ack'[w] /\ (paused'[w] <=> w \in workers)
    BY <1>14 DEF DisconnectPause, PauseAll
  <2> QED  BY <1>1, <2>1 DEF AbsentIdle, Quiet
<1>15. CASE InitTake
  <2>1. /\ pending # None /\ UNCHANGED <<npc, workers, wpc, paused, ack>> /\ pending' = None
        /\ vm' = vm \/ vm' = Dangling("user")
    BY <1>15 DEF InitTake
  <2>2. \A w \in Ids : vm'[w].rx = vm[w].rx
    BY <1>3, <2>1
  <2>3. AbsentIdle'
    BY <1>1, <2>1, <2>2 DEF AbsentIdle
  <2>4. Quiet'
    BY <1>1, <2>1 DEF Quiet, OneRequest, InHand
  <2> QED  BY <2>3, <2>4
<1>16. CASE InitBuilt
  BY <1>1, <1>16 DEF InitBuilt, AbsentIdle, Quiet
<1>17. CASE InitDevInstance
  <2>1. /\ ipc = "built" /\ UNCHANGED <<npc, pending, workers, wpc, paused, ack>>
        /\ vm' = vm \/ vm' = Dangling("dev")
    BY <1>17 DEF InitDevInstance
  <2>2. \A w \in Ids : vm'[w].rx = vm[w].rx
    BY <1>3, <2>1
  <2>3. AbsentIdle'
    BY <1>1, <2>1, <2>2 DEF AbsentIdle
  <2>4. Quiet'
    BY <1>1, <2>1 DEF Quiet
  <2> QED  BY <2>3, <2>4
<1>18. CASE InitResume
  <2>1. /\ ipc = "resume" /\ ipc' = "wait" /\ pending = None /\ pending' = None
        /\ npc' \notin {"await", "queue"}
    BY <1>1, <1>18 DEF InitResume, OneRequest, InHand
  <2>2. /\ workers \subseteq workers' /\ UNCHANGED <<vm, ack>>
        /\ ResumeAll \/ UNCHANGED <<paused, wpc>>
    BY <1>18, <2>1 DEF InitResume, InitSkip, InitApply, InitRestore, Recreate
  <2>3. AbsentIdle'
    BY <1>1, <2>2 DEF AbsentIdle, ResumeAll
  <2>4. \A w \in Ids : ack'[w] /\ paused'[w] => wpc'[w] = "parked" \/ w \notin workers'
    BY <1>1, <2>2 DEF ResumeAll, Quiet, AbsentIdle
  <2>5. workers' \subseteq Ids
    BY TypeStep DEF TypeInv, TypeOK
  <2> QED  BY <2>1, <2>3, <2>4, <2>5 DEF Quiet
<1>19. ASSUME NEW s \in DevSeeds, OnDevJob(s) PROVE Good
  <2>1. Kept
    BY <1>3, <1>19 DEF OnDevJob
  <2> QED  BY <1>2, <2>1
<1>20. CASE DevBuilt \/ SetDevJob \/ SwitchToDevPool \/ SwitchToUserPool
  <2>1. Kept
    BY <1>20 DEF DevBuilt, SetDevJob, SwitchToDevPool, SwitchToUserPool
  <2> QED  BY <1>2, <2>1
<1>21. ASSUME UNCHANGED vars PROVE Good
  BY <1>2, <1>21 DEF vars
<1> HIDE DEF Good, Kept
<1> QED
  BY <1>4, <1>5, <1>6, <1>7, <1>8, <1>9, <1>10, <1>11, <1>12, <1>13, <1>14, <1>15, <1>16,
     <1>17, <1>18, <1>19, <1>20, <1>21
  DEF Next, Net, InitThread, DevNet

\* A request ends with its job mined, or with no dataset in place.
LEMMA SettledStep ==
    ASSUME TypeInv, FlightInv, [Next]_vars, ~overlapped'
    PROVE  Settled'
<1> DEFINE Kept == UNCHANGED <<npc, lastJob, pending, ipc, iok, inst["user"], currentJob>>
<1> USE DEF workerVars, feeVars, netVars, initVars, devVars
<1>1. /\ OneRequest /\ Settled /\ iok \in BOOLEAN /\ inst \in [{"user", "dev"} -> Instances]
      /\ ipc \in {"wait", "build", "built", "resume"}
  BY DEF FlightInv, TypeInv, TypeOK
<1> USE DEF OneRequest, InHand, InFlight, SeedValid
<1>2. Kept => Settled'
  BY <1>1 DEF Settled
<1>3. ASSUME NEW w \in Ids, Park(w) \/ Check(w) \/ Hash(w) PROVE Kept
  BY <1>3 DEF Park, Check, Hash
<1>4. ASSUME NEW s \in Seeds, NEW a \in Algos, OnJob(s, a) PROVE Settled'
  BY <1>1, <1>4 DEF OnJob, Settled
<1>5. CASE OnJobRecreate \/ OnJobPause \/ OnJobAcknowledged \/ Disconnect \/ DisconnectPause
  BY <1>1, <1>5
  DEF OnJobRecreate, OnJobPause, OnJobAcknowledged, Disconnect, DisconnectPause, Settled
<1>6. CASE OnJobQueue
  <2>1. pending' # None /\ ipc = "wait" /\ ipc' = "wait"
    BY <1>1, <1>6 DEF OnJobQueue, None
  <2> QED  BY <2>1 DEF Settled
<1>7. CASE OnJobPlain
  BY <1>1, <1>7 DEF OnJobPlain, Settled
<1>8. CASE InitTake
  <2>1. ipc' = "build" \/ (ipc' = "built" /\ iok' = TRUE)
    BY <1>8 DEF InitTake
  <2> QED  BY <2>1 DEF Settled
<1>9. CASE InitBuilt
  <2>1. ipc' = "built" /\ inst'["user"].ready = iok'
    BY <1>1, <1>9 DEF InitBuilt
  <2> QED  BY <1>1, <1>9, <2>1 DEF InitBuilt, Settled
<1>10. CASE InitDevInstance
  <2>1. /\ ipc = "built" /\ ipc' = "resume" /\ iok' = iok
        /\ inst'["user"] = inst["user"]
    BY <1>1, <1>10 DEF InitDevInstance
  <2> QED  BY <1>1, <2>1 DEF Settled
<1>11. CASE InitResume
  <2>1. /\ ipc = "resume" /\ ipc' = "wait" /\ pending = None
        /\ UNCHANGED <<inst, lastJob>> /\ ireq.job = lastJob
    BY <1>1, <1>11 DEF InitResume
  <2>2. currentJob' = lastJob \/ ~inst["user"].ready
    BY <1>1, <1>11, <2>1 DEF InitResume, InitSkip, InitApply, InitRestore, Settled
  <2> QED  BY <2>1, <2>2 DEF Settled
<1>12. ASSUME NEW s \in DevSeeds, OnDevJob(s) PROVE Kept
  BY <1>1, <1>12 DEF OnDevJob
<1>13. CASE DevBuilt
  <2>1. Kept
    BY <1>1, <1>13 DEF DevBuilt
  <2> QED  BY <1>2, <2>1
<1>14. CASE SetDevJob \/ SwitchToDevPool \/ SwitchToUserPool
  <2>1. Kept
    BY <1>14 DEF SetDevJob, SwitchToDevPool, SwitchToUserPool
  <2> QED  BY <1>2, <2>1
<1>15. ASSUME UNCHANGED vars PROVE Kept
  BY <1>15 DEF vars
<1> HIDE DEF Kept
<1> QED
  BY <1>2, <1>3, <1>4, <1>5, <1>6, <1>7, <1>8, <1>9, <1>10, <1>11, <1>12, <1>13, <1>14,
     <1>15
  DEF Next, Net, InitThread, DevNet

\* Nothing newer than the newest job is about, and while that is in flight
\* nobody has it yet.
LEMMA AgesStep ==
    ASSUME TypeInv, FlightInv, [Next]_vars, ~overlapped'
    PROVE  Ages'
<1> DEFINE Later(j) == j.pool = "user"
                          => IF InFlight' THEN j.n < lastJob'.n ELSE j.n <= lastJob'.n
           Onward  == lastJob' = lastJob /\ (InFlight' => InFlight)
           Given(j) == currentJob' \in {currentJob, j} /\ \A w \in Ids : slot'[w] \in {slot[w], j}
<1> USE DEF workerVars, feeVars, netVars, initVars, devVars
<1>1. /\ OneRequest /\ Ages
      /\ currentJob \in Jobs /\ lastJob \in Jobs /\ njob \in Jobs
      /\ slot \in [Ids -> Jobs \cup DevJobs] /\ local \in [Ids -> Jobs \cup DevJobs]
      /\ devJob \in DevJobs \cup {None} /\ djob \in DevJobs \cup {None}
  BY DEF FlightInv, TypeInv, TypeOK
<1>2. \A j \in DevJobs \cup {None} : j.pool # "user"
  BY DEF DevJobs, None
<1>3. \A j \in Jobs \cup DevJobs : j.n \in Nat
  BY DEF Jobs, UserJobs, DevJobs, None
<1>4. /\ currentJob \in Jobs \cup DevJobs /\ Older(currentJob)
      /\ \A w \in Ids : /\ slot[w] \in Jobs \cup DevJobs /\ local[w] \in Jobs \cup DevJobs
                        /\ Older(slot[w]) /\ Older(local[w])
  BY <1>1 DEF Ages
\* what is held stays old enough, and what is taken was held before
<1>5. ASSUME Onward, NEW k \in Jobs \cup DevJobs, Older(k) PROVE Later(k)
  BY <1>1, <1>3, <1>5 DEF Older
<1>6. ASSUME Later(currentJob'), \A w \in Ids : Later(slot'[w]) /\ Later(local'[w])
      PROVE  Ages'
  BY <1>6 DEF Ages, Older
<1>7. ASSUME Onward, \A w \in Ids : local'[w] \in {local[w], slot[w], None},
             NEW j, Later(j), Given(j)
      PROVE  Ages'
  <2>1. Later(currentJob')
    BY <1>4, <1>5, <1>7
  <2>2. \A w \in Ids : Later(slot'[w])
    BY <1>4, <1>5, <1>7
  <2>3. \A w \in Ids : Later(local'[w])
    BY <1>2, <1>4, <1>5, <1>7
  <2> HIDE DEF Later
  <2> QED  BY <1>6, <2>1, <2>2, <2>3
<1>8. Later(None)
  BY <1>2
<1> HIDE DEF Later
<1>9. ASSUME NEW w \in Ids, Park(w) \/ Check(w) \/ Hash(w) PROVE Ages'
  <2>1. Onward /\ Given(None)
    BY <1>9 DEF Park, Check, Hash, InFlight, InHand
  <2>2. \A v \in Ids : local'[v] \in {local[v], slot[v]}
    BY <1>1, <1>9 DEF Park, Check, Hash
  <2> QED  BY <1>7, <1>8, <2>1, <2>2
<1>10. ASSUME NEW s \in Seeds, NEW a \in Algos, OnJob(s, a) PROVE Ages'
  <2>1. /\ lastJob'.n = lastJob.n + 1 /\ ~InFlight
        /\ UNCHANGED <<currentJob, slot, local>>
    BY <1>10 DEF OnJob, InFlight, InHand
  <2>2. ASSUME NEW k \in Jobs \cup DevJobs, Older(k) PROVE Later(k)
    BY <1>1, <1>3, <2>1, <2>2 DEF Older, Later
  <2> QED  BY <1>4, <1>6, <2>1, <2>2
<1>11. CASE OnJobRecreate
  <2>1. Onward /\ currentJob' = currentJob
    BY <1>11 DEF OnJobRecreate, InFlight, InHand
  <2>2. \A w \in Ids : slot'[w] = None /\ local'[w] = None
    BY <1>11 DEF OnJobRecreate, Keep
  <2> QED  BY <1>7, <1>8, <2>1, <2>2
<1>12. CASE OnJobPause \/ OnJobAcknowledged \/ OnJobQueue \/ Disconnect \/ DisconnectPause
  <2>1. Onward
    BY <1>12
    DEF OnJobPause, OnJobAcknowledged, OnJobQueue, Disconnect, DisconnectPause, InFlight,
        InHand
  <2>2. UNCHANGED <<currentJob, slot, local>>
    BY <1>12 DEF OnJobPause, OnJobAcknowledged, OnJobQueue, Disconnect, DisconnectPause
  <2> QED  BY <1>7, <1>8, <2>1, <2>2
<1>13. CASE OnJobPlain
  <2>1. /\ lastJob' = lastJob /\ ~InFlight' /\ njob = lastJob
        /\ currentJob' = njob /\ local' = local
    BY <1>1, <1>13 DEF OnJobPlain, OneRequest, InFlight, InHand
  <2>2. \A w \in Ids : slot'[w] \in {slot[w], njob}
    BY <1>1, <1>13 DEF OnJobPlain, SetJobs, KeepJobs
  <2>3. Later(njob)
    BY <1>1, <1>3, <2>1 DEF Later
  <2> QED  BY <1>7, <2>1, <2>2, <2>3
<1>14. CASE InitTake \/ InitBuilt \/ InitDevInstance
  <2>1. Onward
    BY <1>14 DEF InitTake, InitBuilt, InitDevInstance, InFlight, InHand
  <2>2. UNCHANGED <<currentJob, slot, local>>
    BY <1>14 DEF InitTake, InitBuilt, InitDevInstance
  <2> QED  BY <1>7, <1>8, <2>1, <2>2
<1>15. CASE InitResume
  <2>1. /\ lastJob' = lastJob /\ ~InFlight' /\ ireq.job = lastJob /\ pending = None
        /\ local' = local
    BY <1>1, <1>15
    DEF InitResume, InitSkip, InitApply, InitRestore, OneRequest, InFlight, InHand
  <2>2. Given(ireq.job)
    BY <1>1, <1>15, <2>1 DEF InitResume, InitSkip, InitApply, InitRestore, KeepJobs
  <2>3. Later(ireq.job)
    BY <1>1, <1>3, <2>1 DEF Later
  <2> QED  BY <1>7, <2>1, <2>2, <2>3
<1>16. ASSUME NEW s \in DevSeeds, OnDevJob(s) PROVE Ages'
  <2>1. Onward /\ UNCHANGED <<currentJob, slot, local>>
    BY <1>16 DEF OnDevJob, InFlight, InHand
  <2> QED  BY <1>7, <1>8, <2>1
<1>17. CASE DevBuilt
  <2>1. Onward /\ UNCHANGED <<currentJob, slot, local>>
    BY <1>17 DEF DevBuilt, InFlight, InHand
  <2> QED  BY <1>7, <1>8, <2>1
<1>18. CASE SetDevJob
  <2>1. Onward /\ Given(djob) /\ local' = local
    BY <1>1, <1>18 DEF SetDevJob, SetJobs, KeepJobs, InFlight, InHand
  <2>2. Later(djob)
    BY <1>1, <1>2 DEF Later
  <2> QED  BY <1>7, <2>1, <2>2
<1>19. CASE SwitchToDevPool
  <2>1. Onward /\ Given(devJob) /\ local' = local
    BY <1>1, <1>19 DEF SwitchToDevPool, SetJobs, InFlight, InHand
  <2>2. Later(devJob)
    BY <1>1, <1>2 DEF Later
  <2> QED  BY <1>7, <2>1, <2>2
<1>20. CASE SwitchToUserPool
  <2>1. Onward /\ Given(currentJob) /\ local' = local
    BY <1>1, <1>20 DEF SwitchToUserPool, SetJobs, InFlight, InHand
  <2>2. Later(currentJob)
    BY <1>4, <1>5, <2>1
  <2> QED  BY <1>7, <2>1, <2>2
<1>21. CASE UNCHANGED vars
  <2>1. Onward /\ UNCHANGED <<currentJob, slot, local>>
    BY <1>21 DEF vars, InFlight, InHand
  <2> QED  BY <1>7, <1>8, <2>1
<1> QED
  BY <1>9, <1>10, <1>11, <1>12, <1>13, <1>14, <1>15, <1>16, <1>17, <1>18, <1>19, <1>20,
     <1>21
  DEF Next, Net, InitThread, DevNet

\* A worker that a rebuild left with a dead pointer is parked through it and
\* is then handed a job it does not have, whichever pool is being mined.
LEMMA RenewedStep ==
    ASSUME JobInv, JobInv', FlightInv, [Next]_vars, ~overlapped'
    PROVE  Renewed'
<1> DEFINE Sound == /\ \A w \in Ids : local'[w].pool = "user" => vm'[w].rx # "dev"
                    /\ \A w \in workers' : wpc'[w] = "hash" => vm'[w].rx # "none"
           Fresh == ipc' = "wait" /\ inst'["user"].ready
                      => \A w \in workers' :
                            Stale(w)' => /\ wpc'[w] # "hash"
                                         /\ local'[w] \notin {currentJob', slot'[w]}
           Held  == UNCHANGED <<workers, local, vm, wpc>>
           Calm  == UNCHANGED <<ipc, inst["user"]>>
<1> SUFFICES Sound /\ Fresh
  BY DEF Renewed
<1> USE DEF workerVars, feeVars, netVars, initVars, devVars
<1>1. /\ OneRequest /\ Crew /\ AbsentIdle /\ Quiet /\ Settled /\ Ages /\ Renewed
      /\ workers \subseteq Ids /\ workers' \subseteq Ids /\ vm \in [Ids -> Vms]
      /\ wpc \in [Ids -> {"check", "hash", "parked"}]
      /\ inst \in [{"user", "dev"} -> Instances] /\ ipc \in {"wait", "build", "built", "resume"}
      /\ slot \in [Ids -> Jobs \cup DevJobs] /\ local \in [Ids -> Jobs \cup DevJobs]
      /\ devJob \in DevJobs \cup {None} /\ djob \in DevJobs \cup {None}
      /\ (dpc # "idle" => djob \in DevJobs) /\ currentJob \in Jobs /\ lastJob \in Jobs
  BY DEF FlightInv, JobInv, TypeInv, TypeOK, HandsInv
<1>2. \A j \in DevJobs \cup {None} : j.pool # "user"
  BY DEF DevJobs, None
<1>3. Held => Sound
  BY <1>1 DEF Renewed
<1>4. Held /\ Calm /\ UNCHANGED <<slot, currentJob>> => Fresh
  BY <1>1 DEF Renewed, Stale
<1>5. \A j \in Jobs \cup DevJobs : j.n \in Nat
  BY DEF Jobs, UserJobs, DevJobs, None
\* nobody has the job in flight
<1>6. InFlight => \A w \in Ids : local[w].pool = "user" => local[w] # lastJob
  BY <1>1, <1>5 DEF Ages, Older
\* the steps that hand out a job, and change nothing else
<1>7. ASSUME Held, Calm, NEW j, \A w \in Ids : slot'[w] \in {slot[w], j},
             currentJob' \in {currentJob, j},
             \A w \in workers : Stale(w) /\ ipc = "wait" /\ inst["user"].ready => local[w] # j
      PROVE  Fresh
  BY <1>1, <1>7 DEF Renewed, Stale
<1>8. ASSUME NEW w \in Ids, Park(w) PROVE Sound /\ Fresh
  <2>1. /\ w \in workers /\ wpc[w] = "check" /\ wpc' = [wpc EXCEPT ![w] = "parked"]
        /\ UNCHANGED <<workers, local, vm, slot, currentJob, ipc, inst>>
    BY <1>8 DEF Park
  <2> QED  BY <1>1, <2>1 DEF Renewed, Stale
<1>9. ASSUME NEW w \in Ids, Hash(w) PROVE Sound /\ Fresh
  <2>1. /\ w \in workers /\ wpc' = [wpc EXCEPT ![w] = "check"]
        /\ UNCHANGED <<workers, local, vm, slot, currentJob, ipc, inst>>
    BY <1>9 DEF Hash
  <2> QED  BY <1>1, <2>1 DEF Renewed, Stale
<1>10. ASSUME NEW w \in Ids, Check(w) PROVE Sound /\ Fresh
  <2>1. /\ w \in workers /\ UNCHANGED <<workers, slot, currentJob, ipc, inst>>
        /\ \E pc \in {"hash", "check"} : /\ wpc' = [wpc EXCEPT ![w] = pc]
                                         /\ pc = "hash" => vm'[w].rx # "none"
    BY <1>10 DEF Check
  <2>2. CASE slot[w] # local[w]
    <3>1. /\ local' = [local EXCEPT ![w] = slot[w]]
          /\ vm' = [vm EXCEPT ![w] = VmFor(w, slot[w])]
      BY <1>10, <2>2 DEF Check
    <3>2. slot[w].pool = "user" => VmFor(w, slot[w]).rx # "dev"
      BY DEF VmFor, NoVm
    <3>3. VmFor(w, slot[w]).rx # "none" => VmFor(w, slot[w]).live
      BY DEF VmFor, NoVm
    <3>4. local'[w] = slot[w] /\ vm'[w] = VmFor(w, slot[w])
      BY <1>1, <3>1
    <3>5. \A v \in Ids \ {w} : local'[v] = local[v] /\ vm'[v] = vm[v] /\ wpc'[v] = wpc[v]
      BY <1>1, <2>1, <3>1
    <3>6. wpc'[w] = "hash" => vm'[w].rx # "none"
      BY <1>1, <2>1
    <3>7. Sound
      BY <1>1, <2>1, <3>2, <3>4, <3>5, <3>6 DEF Renewed
    <3>8. ~Stale(w)'
      BY <3>3, <3>4 DEF Stale
    <3>9. Fresh
      BY <1>1, <2>1, <3>5, <3>8 DEF Renewed, Stale
    <3> QED  BY <3>7, <3>9
  <2>3. CASE slot[w] = local[w]
    <3>1. local' = local /\ vm' = vm
      BY <1>10, <2>3 DEF Check
    <3>2. \A v \in Ids \ {w} : wpc'[v] = wpc[v]
      BY <1>1, <2>1
    <3>3. wpc'[w] = "hash" => vm'[w].rx # "none"
      BY <1>1, <2>1
    <3> QED  BY <1>1, <2>1, <2>3, <3>1, <3>2, <3>3 DEF Renewed, Stale
  <2> QED  BY <2>2, <2>3
<1>11. ASSUME NEW s \in Seeds, NEW a \in Algos, OnJob(s, a) PROVE Sound /\ Fresh
  BY <1>3, <1>4, <1>11 DEF OnJob
<1>12. CASE OnJobRecreate
  <2>1. workers' = {} /\ \A w \in Ids : local'[w] = None
    BY <1>12 DEF OnJobRecreate, Keep
  <2> QED  BY <1>2, <2>1
<1>13. CASE OnJobPause \/ OnJobAcknowledged \/ OnJobQueue \/ Disconnect \/ DisconnectPause
  <2>1. Held /\ Calm /\ UNCHANGED <<slot, currentJob>>
    BY <1>13 DEF OnJobPause, OnJobAcknowledged, OnJobQueue, Disconnect, DisconnectPause
  <2> QED  BY <1>3, <1>4, <2>1
\* a resumed worker starts over with the check of its job
<1>14. CASE OnJobPlain
  <2>1. /\ npc = "plain" /\ currentJob' = njob /\ UNCHANGED <<workers, local, vm, ipc, inst>>
        /\ \A w \in Ids : wpc'[w] = wpc[w] \/ wpc'[w] = "check"
    BY <1>1, <1>14 DEF OnJobPlain, ResumeAll
  <2>2. \A w \in Ids : slot'[w] \in {slot[w], njob}
    BY <1>1, <1>14 DEF OnJobPlain, SetJobs, KeepJobs
  <2>3. njob = lastJob /\ InFlight
    BY <1>1, <2>1 DEF OneRequest, InFlight, InHand
  <2>4. \A w \in workers : Stale(w) => local[w] # njob
    BY <1>1, <1>6, <2>3 DEF Stale
  <2> QED  BY <1>1, <2>1, <2>2, <2>4 DEF Renewed, Stale
<1>15. CASE InitTake
  <2>1. /\ pending # None /\ ipc' # "wait" /\ UNCHANGED <<workers, local, wpc>>
        /\ vm' = vm \/ vm' = Dangling("user")
    BY <1>15 DEF InitTake
  <2>2. \A w \in Ids : vm'[w].rx = vm[w].rx
    BY <1>1, <2>1 DEF Dangling, Vms
  <2> QED  BY <1>1, <2>1, <2>2 DEF Renewed
<1>16. CASE InitBuilt
  <2>1. ipc' # "wait" /\ Held
    BY <1>16 DEF InitBuilt
  <2> QED  BY <1>3, <2>1
<1>17. CASE InitDevInstance
  <2>1. /\ ipc' # "wait" /\ UNCHANGED <<workers, local, wpc>>
        /\ vm' = vm \/ vm' = Dangling("dev")
    BY <1>17 DEF InitDevInstance
  <2>2. \A w \in Ids : vm'[w].rx = vm[w].rx
    BY <1>1, <2>1 DEF Dangling, Vms
  <2> QED  BY <1>1, <2>1, <2>2 DEF Renewed
<1>18. CASE InitResume
  <2>1. /\ ipc = "resume" /\ ipc' = "wait" /\ pending = None /\ ireq.job = lastJob
        /\ UNCHANGED <<local, vm, inst>> /\ InFlight
    BY <1>1, <1>18
    DEF InitResume, InitSkip, InitApply, InitRestore, OneRequest, InFlight
  <2>2. \A w \in Ids : wpc'[w] = wpc[w] \/ wpc'[w] = "check"
    BY <1>1, <1>18, <2>1 DEF InitResume, InitSkip, InitApply, InitRestore, ResumeAll
  <2>3. \A w \in workers' : wpc'[w] # "hash"
    BY <1>1, <2>1, <2>2 DEF Quiet, AbsentIdle
  <2>4. Sound
    BY <1>1, <2>1, <2>3 DEF Renewed
  <2>5. ~iok => ~inst'["user"].ready
    BY <1>1, <2>1 DEF Settled
  <2>6. CASE InitApply
    <3>1. currentJob' = lastJob
      BY <2>1, <2>6 DEF InitApply
    <3>2. CASE devFeeActive
      <4>1. devFeeActive' = devFeeActive /\ devJob' = devJob
        BY <1>18 DEF InitResume
      <4>2. \A w \in workers' : slot'[w] \in {None, devJob}
        BY <3>2, <4>1 DEF JobInv, DeliveredIsCurrent
      <4>3. \A w \in workers' : slot'[w].pool # "user"
        BY <1>1, <1>2, <4>2
      <4> QED  BY <1>1, <1>6, <2>1, <2>3, <2>4, <3>1, <4>3 DEF Stale
    <3>3. CASE ~devFeeActive
      <4>1. \A w \in workers' : slot'[w] = lastJob
        BY <1>1, <2>1, <2>6, <3>3 DEF InitApply
      <4> QED  BY <1>1, <1>6, <2>1, <2>3, <2>4, <3>1, <4>1 DEF Stale
    <3> QED  BY <3>2, <3>3
  <2>7. CASE InitRestore
    BY <2>4, <2>5, <2>7 DEF InitRestore
  <2> QED  BY <1>18, <2>1, <2>6, <2>7 DEF InitResume, InitSkip
<1>19. ASSUME NEW s \in DevSeeds, OnDevJob(s) PROVE Sound /\ Fresh
  <2>1. /\ UNCHANGED <<workers, local, wpc, slot, currentJob, ipc>>
        /\ inst'["user"] = inst["user"]
        /\ vm' = vm \/ vm' = Dangling("dev")
    BY <1>1, <1>19 DEF OnDevJob
  <2>2. \A w \in Ids : /\ vm'[w].rx = vm[w].rx
                       /\ vm[w].rx # "dev" => vm'[w] = vm[w]
    BY <1>1, <2>1 DEF Dangling, Vms
  <2> QED  BY <1>1, <2>1, <2>2 DEF Renewed, Stale
<1>20. CASE DevBuilt
  <2>1. Held /\ Calm /\ UNCHANGED <<slot, currentJob>>
    BY <1>1, <1>20 DEF DevBuilt
  <2> QED  BY <1>3, <1>4, <2>1
<1>21. CASE SetDevJob \/ SwitchToDevPool
  <2>1. Held /\ Calm /\ currentJob' = currentJob
    BY <1>21 DEF SetDevJob, SwitchToDevPool
  <2>2. \A w \in Ids : slot'[w] = slot[w] \/ slot'[w].pool # "user"
    BY <1>1, <1>2, <1>21 DEF SetDevJob, SwitchToDevPool, SetJobs, KeepJobs
  <2>3. Fresh
    BY <1>1, <2>1, <2>2 DEF Renewed, Stale
  <2> QED  BY <1>3, <2>1, <2>3
<1>22. CASE SwitchToUserPool
  <2>1. Held /\ Calm /\ currentJob' = currentJob
    BY <1>22 DEF SwitchToUserPool
  <2>2. \A w \in Ids : slot'[w] \in {slot[w], currentJob}
    BY <1>1, <1>22 DEF SwitchToUserPool, SetJobs
  <2>3. Fresh
    BY <1>1, <2>1, <2>2 DEF Renewed, Stale
  <2> QED  BY <1>3, <2>1, <2>3
<1>23. CASE UNCHANGED vars
  BY <1>3, <1>4, <1>23 DEF vars
<1> HIDE DEF Sound, Fresh
<1> QED
  BY <1>8, <1>9, <1>10, <1>11, <1>12, <1>13, <1>14, <1>15, <1>16, <1>17, <1>18, <1>19,
     <1>20, <1>21, <1>22, <1>23
  DEF Next, Net, InitThread, DevNet
-----------------------------------------------------------------------------
(* The second invariant: while requests come one at a time, each is carried *)
(* through pause, queue, build and resume in that order.                    *)
THEOREM Orderly == Spec => [](JobInv /\ OrderInv)
<1>1. Init => JobInv /\ OrderInv
  BY InitTypes, OrderInit
<1>2. JobInv /\ OrderInv /\ [Next]_vars => (JobInv /\ OrderInv)'
  <2> SUFFICES ASSUME JobInv, OrderInv, [Next]_vars PROVE JobInv' /\ OrderInv'
    OBVIOUS
  <2>1. JobInv' /\ TypeInv
    BY JobStep DEF JobInv
  <2>2. ASSUME ~overlapped' PROVE FlightInv'
    <3>1. FlightInv
      BY <2>1, <2>2, StillOne DEF OrderInv
    <3> QED
      BY <2>1, <2>2, <3>1, CrewStep, QuietStep, SettledStep, AgesStep, RenewedStep
      DEF FlightInv
  <2> QED  BY <2>1, <2>2 DEF OrderInv
<1> QED  BY <1>1, <1>2, PTL DEF Spec

(* While the user dataset is rebuilt every worker is parked, so none hashes *)
(* with a VM of it (Miner.cpp:216-236, 510-513).                            *)
THEOREM QuietBuild == Spec => []BuildIsQuiet
<1>1. OrderInv => BuildIsQuiet
  BY DEF OrderInv, FlightInv, Quiet, BuildIsQuiet
<1> QED  BY <1>1, Orderly, PTL

(* A worker of the user's pool hashes with a VM that exists, once the       *)
(* dataset is there (Worker.cpp:149-163, Miner.cpp:557-565).                *)
THEOREM LiveVm == Spec => []UserVmExists
<1>1. JobInv /\ OrderInv => UserVmExists
  <2> SUFFICES ASSUME FlightInv, JobInv, inst["user"].ready, NEW w \in workers,
                      wpc[w] = "hash", local[w].pool = "user"
               PROVE  vm[w].live
    BY DEF OrderInv, UserVmExists
  <2>1. ipc = "wait"
    BY DEF FlightInv, Quiet
  <2> QED  BY <2>1 DEF FlightInv, Renewed, Stale
<1> QED  BY <1>1, Orderly, PTL

(* One worker for each thread of the algorithm that is mined whenever       *)
(* nothing is in work (Miner.cpp:216-223, 546-555, 566-578).                *)
THEOREM WholeCrew == Spec => []FullCrew
<1>1. OrderInv => FullCrew
  BY DEF OrderInv, FlightInv, Crew, Emptied, FullCrew, Idle
<1> QED  BY <1>1, Orderly, PTL

(* The newest job whose dataset is in place is the one that is mined        *)
(* (Miner.cpp:254-257, 536-560).                                            *)
THEOREM NewestJob == Spec => []LastJobWins
<1>1. OrderInv => LastJobWins
  BY DEF OrderInv, FlightInv, Settled, InFlight, InHand, LastJobWins, Idle
<1> QED  BY <1>1, Orderly, PTL
-----------------------------------------------------------------------------
(* A lost pool.  Where the pool keeps to one algorithm no worker is ever    *)
(* replaced, so whoever was paused at the loss stays paused.                *)

NoRecreation ==
    /\ npc \notin {"recreate", "queueRecreate"}
    /\ pending # None => pending.recreate = FALSE
    /\ ipc # "wait" => ireq.recreate = FALSE

StayPaused == poolDisconnected /\ npc # "drop" => \A w \in workers : paused[w] = TRUE

LostInv == NoRecreation /\ StayPaused

LEMMA NoRecreationStep ==
    ASSUME Algos = {FirstAlgo}, TypeInv, NoRecreation, [Next]_vars
    PROVE  NoRecreation'
<1>1. currentAlgo = FirstAlgo /\ pending \in Requests \cup {None}
  BY DEF TypeInv, TypeOK
<1>2. UNCHANGED <<npc, pending, ipc, ireq>> => NoRecreation'
  BY DEF NoRecreation
<1>3. ASSUME NEW w \in Ids, Park(w) \/ Check(w) \/ Hash(w) PROVE NoRecreation'
  BY <1>2, <1>3 DEF Park, Check, Hash, netVars, initVars
<1>4. ASSUME NEW s \in Seeds, NEW a \in Algos, OnJob(s, a) PROVE NoRecreation'
  BY <1>1, <1>4 DEF OnJob, NoRecreation, initVars
<1>5. CASE OnJobRecreate
  BY <1>5 DEF OnJobRecreate, NoRecreation
<1>6. CASE OnJobPause \/ OnJobAcknowledged \/ OnJobPlain \/ Disconnect \/ DisconnectPause
  BY <1>6 DEF OnJobPause, OnJobAcknowledged, OnJobPlain, Disconnect, DisconnectPause,
     NoRecreation, initVars
<1>7. CASE OnJobQueue
  <2>1. pending' = [job |-> njob, recreate |-> FALSE]
    BY <1>7 DEF OnJobQueue, NoRecreation
  <2> QED BY <1>7, <2>1 DEF OnJobQueue, NoRecreation, initVars
<1>8. CASE InitThread
  BY <1>8 DEF InitThread, InitTake, InitBuilt, InitDevInstance, InitResume, NoRecreation,
     netVars
<1>9. ASSUME NEW s \in DevSeeds, OnDevJob(s) PROVE NoRecreation'
  BY <1>2, <1>9 DEF OnDevJob, netVars, initVars
<1>10. CASE DevNet \/ SwitchToDevPool \/ SwitchToUserPool \/ UNCHANGED vars
  BY <1>2, <1>10 DEF DevNet, DevBuilt, SetDevJob, SwitchToDevPool, SwitchToUserPool, vars,
     netVars, initVars
<1> QED
  BY <1>3, <1>4, <1>5, <1>6, <1>7, <1>8, <1>9, <1>10 DEF Next, Net

LEMMA StayPausedStep ==
    ASSUME TypeInv, NoRecreation, StayPaused, [Next]_vars
    PROVE  StayPaused'
<1>1. workers \subseteq Ids
  BY DEF TypeInv, TypeOK
<1>2. UNCHANGED <<workers, paused, poolDisconnected>> /\ (npc = "drop" => npc' = "drop")
         => StayPaused'
  BY DEF StayPaused
<1>3. ASSUME NEW w \in Ids, Park(w) \/ Check(w) \/ Hash(w) PROVE StayPaused'
  BY <1>2, <1>3 DEF Park, Check, Hash, netVars
<1>4. ASSUME NEW s \in Seeds, NEW a \in Algos, OnJob(s, a) PROVE StayPaused'
  BY <1>2, <1>4 DEF OnJob, workerVars
<1>5. CASE OnJobRecreate
  BY <1>5 DEF OnJobRecreate, NoRecreation
<1>6. CASE OnJobPause \/ DisconnectPause
  BY <1>1, <1>6 DEF OnJobPause, DisconnectPause, PauseAll, StayPaused
<1>7. CASE OnJobAcknowledged \/ OnJobQueue
  BY <1>2, <1>7 DEF OnJobAcknowledged, OnJobQueue, workerVars
<1>8. CASE OnJobPlain \/ Disconnect
  BY <1>8 DEF OnJobPlain, Disconnect, StayPaused
<1>9. CASE InitTake \/ InitBuilt \/ InitDevInstance
  BY <1>2, <1>9 DEF InitTake, InitBuilt, InitDevInstance, workerVars, netVars
<1>10. CASE InitResume
  <2>1. ireq.recreate = FALSE /\ UNCHANGED <<poolDisconnected, npc>>
    BY <1>10 DEF InitResume, NoRecreation, netVars
  <2>2. UNCHANGED workers /\ (poolDisconnected => UNCHANGED paused)
    BY <1>10, <2>1 DEF InitResume, InitSkip, InitApply, InitRestore, workerVars
  <2> QED BY <2>1, <2>2 DEF StayPaused
<1>11. ASSUME NEW s \in DevSeeds, OnDevJob(s) PROVE StayPaused'
  BY <1>2, <1>11 DEF OnDevJob, netVars
<1>12. CASE DevNet \/ SwitchToDevPool \/ SwitchToUserPool \/ UNCHANGED vars
  BY <1>2, <1>12 DEF DevNet, DevBuilt, SetDevJob, SwitchToDevPool, SwitchToUserPool, vars,
     netVars, workerVars
<1> QED
  BY <1>3, <1>4, <1>5, <1>6, <1>7, <1>8, <1>9, <1>10, <1>11, <1>12
  DEF Next, Net, InitThread

(* With a pool that keeps to one algorithm, no worker takes up a job of the *)
(* user's pool between a loss of the connection and the next plain job,     *)
(* whatever builds and fee periods come between.  miner_lost_pool shows     *)
(* that a change of algorithm breaks this (Miner.h:85, Miner.cpp:546-565).  *)
THEOREM LostPoolRests ==
    ASSUME Algos = {FirstAlgo}
    PROVE  Spec => []LostPoolIsNotMined
<1>1. Init => LostInv
  BY DEF Init, LostInv, NoRecreation, StayPaused
<1>2. JobInv /\ LostInv /\ [Next]_vars => LostInv'
  BY NoRecreationStep, StayPausedStep DEF LostInv, JobInv
<1>3. LostInv => LostPoolIsNotMined
  BY DEF LostInv, StayPaused, LostPoolIsNotMined
<1> QED BY <1>1, <1>2, <1>3, Invariance, PTL DEF Spec

(* The crew is lost only by a user job that comes while a build is queued   *)
(* or in work, as in miner_crew: without one, whatever builds fail, an idle *)
(* miner has a worker (Miner.cpp:216-223, 536-578).                         *)
THEOREM CrewIsNotLost == Spec => [](~overlapped => CrewSurvives)
<1>1. TypeOK /\ FullCrew => (~overlapped => CrewSurvives)
  <2> SUFFICES ASSUME TypeOK, FullCrew, ~overlapped, Idle PROVE workers # {}
    BY DEF CrewSurvives
  <2>1. currentAlgo \in Algos /\ Threads[currentAlgo] \in Nat \ {0}
    BY ThreadsAssumption DEF TypeOK
  <2>2. 0 \in 0..(Threads[currentAlgo] - 1)
    BY <2>1
  <2>3. \A f \in {0, 1} : [id |-> 0, fill |-> f] \in IdsFor(currentAlgo, f)
    BY <2>2 DEF IdsFor
  <2> QED BY <2>3 DEF FullCrew
<1> QED BY <1>1, TypeCorrect, WholeCrew, PTL
=============================================================================
