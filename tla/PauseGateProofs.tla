-------------------------- MODULE PauseGateProofs --------------------------
(* Three invariants of PauseGate, for any set of workers and any number of *)
(* seed changes.  That no worker hashes during a build needs the           *)
(* connection to stay up or a reconnection to be slow; the two about the   *)
(* pause flags need nothing.  Then App around it: the same three hold from *)
(* the first to the last step of the program, and the huge pages go back   *)
(* once, when nothing uses them.                                            *)
EXTENDS App, TLAPS

Busy == pending \/ ipc \in {"build", "resume"}
Parked(w) == paused[w] /\ wpc[w] \in {"predicate", "block", "asleep"}

\* m_jobMutex is the network thread's from the first pause to the last
\* acknowledgement; the workers are stopped only after the init thread.
LockInv == /\ jobMutex = "net" <=> npc \in {"pause", "raise", "await"}
           /\ npc = "raise" => cur \in left
           /\ npc \in {"await", "queue"} => nop = "seed"
           /\ ipc # "exit" => mpc \in {"run", "joinInit"}
           /\ ipc # "exit" => \A w \in Workers : running[w]
           /\ npc # "idle" /\ nop = "drop" => poolDisconnected
           /\ poolDisconnected => drops > 0
-----------------------------------------------------------------------------
(* DisconnectedIsPaused, with the pausing that is still going on. *)
Paused(W) == \A w \in W : paused[w] \/ ~running[w]
DisconnectInv ==
    poolDisconnected =>
        /\ npc = "idle" \/ nop = "seed" => Paused(Workers)
        /\ nop = "drop" /\ npc \in {"pause", "raise"} => Paused(Workers \ left)

(* NoForgottenPause, with the pauses that are still going on. *)
ReasonInv ==
    (\E w \in Workers : paused[w])
        => poolDisconnected \/ npc # "idle" \/ Busy \/ ~minerRunning

FlagInv == TypeOK /\ LockInv /\ DisconnectInv /\ ReasonInv
-----------------------------------------------------------------------------
(* NoHashDuringBuild.  While a request is queued or in work every worker   *)
(* is parked inside the wait; an acknowledgement is fresh; and a second    *)
(* pause of parked workers is never acknowledged, so no second request can *)
(* be queued behind one that is about to resume them.                      *)
ParkedInv ==
    ipc # "exit" =>
        /\ \A w \in Workers : wpc[w] = "acknowledge" => paused[w]
        /\ \A w \in Workers : ack[w] /\ paused[w] => Parked(w)
        /\ npc = "raise" /\ ack[cur] => paused[cur]
        /\ Busy => \A w \in Workers : Parked(w)
        /\ npc = "await" => \A w \in Workers : paused[w]
        /\ npc \in {"pause", "raise"} => \A w \in Workers \ left : paused[w]
        /\ npc = "await" => \A w \in Workers \ left : Parked(w)
        /\ npc = "queue" => \A w \in Workers : Parked(w)

StuckInv ==
    ipc # "exit" /\ Busy =>
        /\ npc # "queue"
        /\ npc = "await" => left = Workers /\ \A w \in Workers : ~ack[w]
        /\ npc \in {"pause", "raise"} => \A w \in Workers \ left : ~ack[w]
        /\ npc = "raise" => ~ack[cur]

BuildInv == FlagInv /\ ParkedInv /\ StuckInv
-----------------------------------------------------------------------------
(* Every step keeps the types, the lock discipline and the reasons to pause. *)
LEMMA FlagStep ==
    ASSUME FlagInv, [Next]_vars PROVE FlagInv'
<1> USE BoundsAssumption
    DEF FlagInv, TypeOK, LockInv, DisconnectInv, ReasonInv, Busy, Paused, WorkerStates
<1>1. CASE SeedJob
  BY <1>1 DEF SeedJob, wVars, netVars, mainVars
<1>2. CASE Drop
  BY <1>2 DEF Drop, wVars, netVars, mainVars
<1>3. CASE PlainJob
  BY <1>3 DEF PlainJob, ResumeAll, Notified, wVars, netVars, mainVars
<1>4. CASE LockToPause
  BY <1>4 DEF LockToPause, wVars, netVars, mainVars
<1>5. CASE PauseRaisesFlag
  BY <1>5 DEF PauseRaisesFlag, wVars, netVars, mainVars
<1>6. CASE AllPaused
  BY <1>6 DEF AllPaused, wVars, netVars, mainVars
<1>7. CASE AllAcknowledged
  BY <1>7 DEF AllAcknowledged, wVars, netVars, mainVars
<1>8. CASE QueueInit
  BY <1>8 DEF QueueInit, wVars, netVars, mainVars
<1>9. CASE InitWait
  BY <1>9 DEF InitWait, wVars, netVars, mainVars
<1>10. CASE InitFallAsleep
  BY <1>10 DEF InitFallAsleep, wVars, netVars, mainVars
<1>11. CASE InitBuilt
  BY <1>11 DEF InitBuilt, wVars, netVars, mainVars
<1>12. CASE InitResume
  BY <1>12 DEF InitResume, ResumeAll, Notified, wVars, netVars, mainVars
<1>13. CASE StopMiner
  BY <1>13 DEF StopMiner, wVars, netVars, mainVars
<1>14. CASE JoinInit
  BY <1>14 DEF JoinInit, wVars, netVars, mainVars
<1>15. CASE ClearWorkers
  BY <1>15 DEF ClearWorkers, wVars, netVars, mainVars
<1>16. ASSUME NEW w \in Workers, Top(w) PROVE FlagInv'
  BY <1>16 DEF Top, At, OthersOf, netVars, mainVars
<1>17. ASSUME NEW w \in Workers, TestPaused(w) PROVE FlagInv'
  BY <1>17 DEF TestPaused, At, OthersOf, netVars, mainVars
<1>18. ASSUME NEW w \in Workers, Acknowledge(w) PROVE FlagInv'
  BY <1>18 DEF Acknowledge, At, OthersOf, netVars, mainVars
<1>19. ASSUME NEW w \in Workers, TestPredicate(w) PROVE FlagInv'
  BY <1>19 DEF TestPredicate, At, OthersOf, netVars, mainVars
<1>20. ASSUME NEW w \in Workers, FallAsleep(w) PROVE FlagInv'
  BY <1>20 DEF FallAsleep, At, OthersOf, netVars, mainVars
<1>21. ASSUME NEW w \in Workers, ClearAck(w) PROVE FlagInv'
  BY <1>21 DEF ClearAck, At, OthersOf, netVars, mainVars
<1>22. ASSUME NEW w \in Workers, Hash(w) PROVE FlagInv'
  BY <1>22 DEF Hash, At, OthersOf, netVars, mainVars
<1>23. ASSUME NEW w \in Workers, SpuriousWakeup(w) PROVE FlagInv'
  BY <1>23 DEF SpuriousWakeup, At, OthersOf, netVars, mainVars
<1>24. ASSUME NEW w \in Workers, PauseForgetsAck(w) PROVE FlagInv'
  BY <1>24 DEF PauseForgetsAck, wVars, netVars, mainVars
<1>25. ASSUME NEW w \in Workers, SeeAck(w) PROVE FlagInv'
  BY <1>25 DEF SeeAck, wVars, netVars, mainVars
<1>26. ASSUME NEW w \in Workers, StopWorker(w) PROVE FlagInv'
  BY <1>26 DEF StopWorker, Notified, netVars, mainVars
<1>27. ASSUME NEW w \in Workers, JoinWorker(w) PROVE FlagInv'
  BY <1>27 DEF JoinWorker, wVars, netVars, mainVars
<1>28. CASE UNCHANGED vars
  BY <1>28 DEF vars, wVars, netVars, mainVars
<1> QED
  BY <1>1, <1>2, <1>3, <1>4, <1>5, <1>6, <1>7, <1>8, <1>9, <1>10, <1>11,
     <1>12, <1>13, <1>14, <1>15, <1>16, <1>17, <1>18, <1>19, <1>20, <1>21,
     <1>22, <1>23, <1>24, <1>25, <1>26, <1>27, <1>28
  DEF Next, WorkerStep, NetStep, InitStep, MainStep
-----------------------------------------------------------------------------
(* Every step keeps the parked workers parked. *)
LEMMA BuildStep ==
    ASSUME SlowReconnect \/ MaxDrops = 0, BuildInv, [Next]_vars
    PROVE  BuildInv'
<1> SUFFICES ParkedInv' /\ StuckInv'
  BY FlagStep DEF BuildInv
<1> USE BoundsAssumption, WorkersAssumption
    DEF BuildInv, FlagInv, TypeOK, LockInv, ParkedInv, StuckInv, Busy, Parked, WorkerStates
<1>1. CASE SeedJob
  BY <1>1 DEF SeedJob, wVars, netVars, mainVars
<1>2. CASE Drop
  BY <1>2 DEF Drop, wVars, netVars, mainVars
<1>3. CASE PlainJob
  BY <1>3 DEF PlainJob, Reconnected, SeedCheckReturns, ResumeAll, Notified,
              wVars, netVars, mainVars
<1>4. CASE LockToPause
  BY <1>4 DEF LockToPause, wVars, netVars, mainVars
<1>5. CASE PauseRaisesFlag
  BY <1>5 DEF PauseRaisesFlag, wVars, netVars, mainVars
<1>6. CASE AllPaused
  BY <1>6 DEF AllPaused, wVars, netVars, mainVars
<1>7. CASE AllAcknowledged
  BY <1>7 DEF AllAcknowledged, wVars, netVars, mainVars
<1>8. CASE QueueInit
  BY <1>8 DEF QueueInit, wVars, netVars, mainVars
<1>9. CASE InitWait
  BY <1>9 DEF InitWait, wVars, netVars, mainVars
<1>10. CASE InitFallAsleep
  BY <1>10 DEF InitFallAsleep, wVars, netVars, mainVars
<1>11. CASE InitBuilt
  BY <1>11 DEF InitBuilt, wVars, netVars, mainVars
<1>12. CASE InitResume
  BY <1>12 DEF InitResume, ResumeAll, Notified, wVars, netVars, mainVars
<1>13. CASE StopMiner
  BY <1>13 DEF StopMiner, wVars, netVars, mainVars
<1>14. CASE JoinInit
  BY <1>14 DEF JoinInit, wVars, netVars, mainVars
<1>15. CASE ClearWorkers
  BY <1>15 DEF ClearWorkers, wVars, netVars, mainVars
<1>16. ASSUME NEW w \in Workers, Top(w) PROVE ParkedInv' /\ StuckInv'
  BY <1>16 DEF Top, At, OthersOf, netVars, mainVars
<1>17. ASSUME NEW w \in Workers, TestPaused(w) PROVE ParkedInv' /\ StuckInv'
  BY <1>17 DEF TestPaused, At, OthersOf, netVars, mainVars
<1>18. ASSUME NEW w \in Workers, Acknowledge(w) PROVE ParkedInv' /\ StuckInv'
  BY <1>18 DEF Acknowledge, At, OthersOf, netVars, mainVars
<1>19. ASSUME NEW w \in Workers, TestPredicate(w) PROVE ParkedInv' /\ StuckInv'
  BY <1>19 DEF TestPredicate, At, OthersOf, netVars, mainVars
<1>20. ASSUME NEW w \in Workers, FallAsleep(w) PROVE ParkedInv' /\ StuckInv'
  BY <1>20 DEF FallAsleep, At, OthersOf, netVars, mainVars
<1>21. ASSUME NEW w \in Workers, ClearAck(w) PROVE ParkedInv' /\ StuckInv'
  BY <1>21 DEF ClearAck, At, OthersOf, netVars, mainVars
<1>22. ASSUME NEW w \in Workers, Hash(w) PROVE ParkedInv' /\ StuckInv'
  BY <1>22 DEF Hash, At, OthersOf, netVars, mainVars
<1>23. ASSUME NEW w \in Workers, SpuriousWakeup(w) PROVE ParkedInv' /\ StuckInv'
  BY <1>23 DEF SpuriousWakeup, At, OthersOf, netVars, mainVars
<1>24. ASSUME NEW w \in Workers, PauseForgetsAck(w) PROVE ParkedInv' /\ StuckInv'
  BY <1>24 DEF PauseForgetsAck, wVars, netVars, mainVars
<1>25. ASSUME NEW w \in Workers, SeeAck(w) PROVE ParkedInv' /\ StuckInv'
  BY <1>25 DEF SeeAck, wVars, netVars, mainVars
<1>26. ASSUME NEW w \in Workers, StopWorker(w) PROVE ParkedInv' /\ StuckInv'
  BY <1>26 DEF StopWorker, Notified, netVars, mainVars
<1>27. ASSUME NEW w \in Workers, JoinWorker(w) PROVE ParkedInv' /\ StuckInv'
  BY <1>27 DEF JoinWorker, wVars, netVars, mainVars
<1>28. CASE UNCHANGED vars
  BY <1>28 DEF vars, wVars, netVars, mainVars
<1> QED
  BY <1>1, <1>2, <1>3, <1>4, <1>5, <1>6, <1>7, <1>8, <1>9, <1>10, <1>11,
     <1>12, <1>13, <1>14, <1>15, <1>16, <1>17, <1>18, <1>19, <1>20, <1>21,
     <1>22, <1>23, <1>24, <1>25, <1>26, <1>27, <1>28
  DEF Next, WorkerStep, NetStep, InitStep, MainStep

-----------------------------------------------------------------------------
(* The initial state satisfies both. *)
LEMMA InitBuildInv == Init => BuildInv
<1> SUFFICES ASSUME Init PROVE BuildInv
  OBVIOUS
<1> USE WorkersAssumption, BoundsAssumption DEF Init
<1>1. TypeOK
  <2>1. /\ running \in [Workers -> BOOLEAN] /\ paused \in [Workers -> BOOLEAN]
        /\ ack \in [Workers -> BOOLEAN]
    BY Zenon
  <2>2. wpc \in [Workers -> WorkerStates]
    BY DEF WorkerStates
  <2>3. seeds \in 0..MaxSeeds /\ drops \in 0..MaxDrops
    OBVIOUS
  <2> QED BY <2>1, <2>2, <2>3 DEF TypeOK
<1>2. LockInv BY DEF LockInv
<1>3. DisconnectInv /\ ReasonInv BY DEF DisconnectInv, ReasonInv
<1>4. ParkedInv /\ StuckInv BY DEF ParkedInv, StuckInv, Busy
<1> QED BY <1>1, <1>2, <1>3, <1>4 DEF BuildInv, FlagInv

(* The flags and the lock: no assumption on reconnections. *)
THEOREM FlagInvariance == Spec => []FlagInv
<1>1. Init => FlagInv BY InitBuildInv DEF BuildInv
<1>2. FlagInv /\ [Next]_vars => FlagInv' BY FlagStep
<1> QED BY <1>1, <1>2, PTL DEF Spec

(* The variables keep their types. *)
THEOREM TypeCorrect == Spec => []TypeOK
<1>1. FlagInv => TypeOK BY DEF FlagInv
<1> QED BY <1>1, FlagInvariance, PTL

(* After onDisconnected every worker is told to pause until a job arrives  *)
(* again, whatever the init thread was doing (Miner.cpp:78-85, 564, 581).   *)
THEOREM NoStaleHashing == Spec => []DisconnectedIsPaused
<1>1. FlagInv => DisconnectedIsPaused
  BY DEF FlagInv, DisconnectInv, DisconnectedIsPaused, Paused
<1> QED BY <1>1, FlagInvariance, PTL

(* A worker told to pause is told so for a reason that will be withdrawn   *)
(* by a resume (Miner.cpp:265-270, 562-565, 579-584).                       *)
THEOREM PauseHasReason == Spec => []NoForgottenPause
<1>1. FlagInv => NoForgottenPause
  BY DEF FlagInv, ReasonInv, NoForgottenPause, Busy
<1> QED BY <1>1, FlagInvariance, PTL

(* No worker hashes while the dataset is rebuilt, if the connection is     *)
(* never lost or a reconnection leaves the workers time to fall asleep.     *)
THEOREM BuildIsQuiet ==
    ASSUME SlowReconnect \/ MaxDrops = 0
    PROVE  Spec => []NoHashDuringBuild
<1>1. BuildInv /\ [Next]_vars => BuildInv' BY BuildStep
<1>2. BuildInv => NoHashDuringBuild
  BY DEF BuildInv, ParkedInv, NoHashDuringBuild, Busy, Parked
<1> QED BY <1>1, <1>2, InitBuildInv, PTL DEF Spec
-----------------------------------------------------------------------------
(* App.  Miner::stop joins worker after worker, so the workers that are no  *)
(* longer to be stopped have ended, and none comes back.                    *)

StoppedInv ==
    /\ mpc \in {"stop", "join", "done"} => \A w \in Workers \ mleft : wpc[w] = "exit"
    /\ mpc = "done" => mleft = {}

\* Until Miner::start the threads of PauseGate have not taken a step, and until
\* the pool is found nothing has been given back.
StartupInv == /\ apc \in Startup => Init
              /\ apc \in Startup \cup {"connect"} => ~destructing /\ restores = 0

\* Who has the pages: the system before ReservePages and after GiveBack.
PagesInv == /\ saved => restores = 0
            /\ pages = "reserved" => saved
            /\ apc = "pages" => ~saved
            /\ apc = "exit" => ~saved
            /\ apc = "giveBack" \/ restores > 0 => mpc = "done" /\ ~memory

AppInv == FlagInv /\ StoppedInv /\ AppTypeOK /\ StartupInv /\ PagesInv

\* A step of the program is one of PauseGate's, or none.
LEMMA AppSteps ==
    ASSUME NextApp PROVE [Next]_vars
<1>1. ASSUME MainThread PROVE UNCHANGED vars \/ StopMiner
  BY <1>1 DEF MainThread, ReservePages, StartApi, BeginCalibration, EndCalibration,
     NoCalibration, StartMiner, SeeSignal, StopApi, JoinApi, CallStop, FreeRandomX, GiveBack
<1>2. ASSUME PoolAnswers \/ Signal \/ ApiStep \/ Request PROVE UNCHANGED vars
  BY <1>2 DEF PoolAnswers, Signal, ApiStep, ApiTest, ApiAccept, ApiHandle, Request, ApiMove
<1>3. ASSUME Threads PROVE Next
  BY <1>3 DEF Threads, Next
<1> QED BY <1>1, <1>2, <1>3 DEF NextApp, Next

LEMMA InitKept ==
    ASSUME Init, UNCHANGED vars
    PROVE  Init' /\ mpc' = mpc
  BY DEF Init, vars, wVars, netVars, mainVars

LEMMA StoppedStep ==
    ASSUME TypeOK, StoppedInv, [Next]_vars PROVE StoppedInv'
<1> USE DEF TypeOK, StoppedInv
<1>1. CASE SeedJob \/ Drop
  BY <1>1 DEF SeedJob, Drop, wVars, mainVars
<1>2. CASE PlainJob
  BY <1>2 DEF PlainJob, ResumeAll, Notified, mainVars
<1>3. CASE NetStep
  BY <1>3 DEF NetStep, LockToPause, PauseForgetsAck, PauseRaisesFlag, AllPaused, SeeAck,
     AllAcknowledged, QueueInit, wVars, mainVars
<1>4. CASE InitStep
  BY <1>4 DEF InitStep, InitWait, InitFallAsleep, InitBuilt, InitResume, ResumeAll, Notified,
     wVars, mainVars
<1>5. CASE StopMiner
  BY <1>5 DEF StopMiner
<1>6. CASE JoinInit \/ ClearWorkers
  BY <1>6 DEF JoinInit, ClearWorkers, wVars
<1>7. ASSUME NEW w \in Workers, StopWorker(w) PROVE StoppedInv'
  BY <1>7 DEF StopWorker, Notified
<1>8. ASSUME NEW w \in Workers, JoinWorker(w) PROVE StoppedInv'
  BY <1>8 DEF JoinWorker, wVars
<1>9. ASSUME NEW w \in Workers, WorkerStep(w) \/ SpuriousWakeup(w) PROVE StoppedInv'
  BY <1>9 DEF WorkerStep, Top, TestPaused, Acknowledge, TestPredicate, FallAsleep, ClearAck,
     Hash, SpuriousWakeup, At, OthersOf, mainVars
<1>10. CASE UNCHANGED vars
  BY <1>10 DEF vars, wVars, mainVars
<1> QED BY <1>1, <1>2, <1>3, <1>4, <1>5, <1>6, <1>7, <1>8, <1>9, <1>10 DEF Next, MainStep

\* After the last call of Miner::stop nothing else changes where it is.
LEMMA DoneStays ==
    ASSUME mpc = "done", [Next]_vars PROVE mpc' = "done"
  BY DEF Next, SeedJob, Drop, PlainJob, NetStep, LockToPause, PauseForgetsAck,
     PauseRaisesFlag, AllPaused, SeeAck, AllAcknowledged, QueueInit, InitStep, InitWait,
     InitFallAsleep, InitBuilt, InitResume, StopMiner, MainStep, JoinInit, ClearWorkers,
     StopWorker, JoinWorker, WorkerStep, Top, TestPaused, Acknowledge, TestPredicate,
     FallAsleep, ClearAck, Hash, SpuriousWakeup, OthersOf, vars, mainVars

LEMMA AppStep ==
    ASSUME AppInv, [NextApp]_allVars PROVE AppInv'
<1> USE DEF AppInv
<1>1. FlagInv' /\ StoppedInv'
  BY AppSteps, FlagStep, StoppedStep DEF FlagInv, allVars
<1>2. AppTypeOK' /\ StartupInv' /\ PagesInv'
  <2> USE DEF AppTypeOK, StartupInv, PagesInv, Startup, Move
  <2>1. CASE ReservePages
    BY <2>1, InitKept DEF ReservePages
  <2>2. CASE StartApi
    BY <2>2, InitKept DEF StartApi
  <2>c. CASE BeginCalibration
    BY <2>c, InitKept DEF BeginCalibration
  <2>e. CASE EndCalibration
    BY <2>e, InitKept DEF EndCalibration
  <2>n. CASE NoCalibration
    BY <2>n, InitKept DEF NoCalibration
  <2>3. CASE StartMiner
    BY <2>3 DEF StartMiner
  <2>4. CASE PoolAnswers
    BY <2>4 DEF PoolAnswers
  <2>5. CASE SeeSignal \/ StopApi \/ JoinApi
    BY <2>5 DEF SeeSignal, StopApi, JoinApi, vars, mainVars
  <2>6. CASE CallStop
    BY <2>6 DEF CallStop, StopMiner
  <2>7. CASE FreeRandomX
    BY <2>7 DEF FreeRandomX, vars, mainVars
  <2>8. CASE GiveBack
    <3>1. /\ apc = "giveBack" /\ apc' \in {"exit", "stopApi"} /\ destructing' = TRUE
          /\ saved' = FALSE /\ UNCHANGED <<signaled, apiPc, memory, vars>>
      BY <2>8 DEF GiveBack
    <3>2. /\ saved => pages' = "original" /\ restores' = restores + 1 /\ restores = 0
          /\ ~saved => UNCHANGED <<pages, restores>>
      BY <2>8 DEF GiveBack
    <3>3. pages' = "original" /\ restores' \in 0..1
      BY <3>2
    <3>4. mpc' = "done" /\ ~memory'
      BY <3>1 DEF vars, mainVars
    <3>5. AppTypeOK'
      BY <3>1, <3>3
    <3>6. StartupInv'
      BY <3>1
    <3>7. PagesInv'
      BY <3>1, <3>3, <3>4
    <3> QED BY <3>5, <3>6, <3>7
  <2>9. CASE Signal \/ ApiStep \/ Request
    <3>1. UNCHANGED <<apc, destructing, saved, pages, memory, restores, vars>>
      BY <2>9 DEF Signal, ApiStep, ApiTest, ApiAccept, ApiHandle, Request, ApiMove
    <3>2. signaled' \in BOOLEAN
          /\ apiPc' \in {"none", "up", "test", "enter", "blocked", "handle", "exited"}
      BY <2>9 DEF Signal, ApiStep, ApiTest, ApiAccept, ApiHandle, Request, ApiMove
    <3>3. AppTypeOK'
      BY <3>1, <3>2
    <3>4. StartupInv'
      BY <3>1, InitKept
    <3>5. PagesInv'
      BY <3>1, InitKept DEF vars, mainVars
    <3> QED BY <3>3, <3>4, <3>5
  <2>10. CASE Threads /\ UNCHANGED appVars
    <3>1. Next
      BY <2>10 DEF Threads, Next
    <3>s. apc \notin Startup
      BY <2>10 DEF Threads, Started, Connected
    <3>2. UNCHANGED <<apc, destructing, signaled, apiPc, saved, pages, memory, restores>>
      BY <2>10 DEF appVars
    <3>3. mpc = "done" => mpc' = "done"
      BY <3>1, DoneStays
    <3>4. AppTypeOK'
      BY <3>2
    <3>5. StartupInv'
      BY <3>s, <3>2
    <3>6. PagesInv'
      BY <3>2, <3>3
    <3> QED BY <3>4, <3>5, <3>6
  <2>11. CASE UNCHANGED allVars
    <3>1. UNCHANGED <<apc, destructing, signaled, apiPc, saved, pages, memory, restores, vars>>
      BY <2>11 DEF allVars, appVars
    <3>2. AppTypeOK'
      BY <3>1
    <3>3. StartupInv'
      BY <3>1, InitKept
    <3>4. PagesInv'
      BY <3>1 DEF vars, mainVars
    <3> QED BY <3>2, <3>3, <3>4
  <2> QED BY <2>1, <2>2, <2>c, <2>e, <2>n, <2>3, <2>4, <2>5, <2>6, <2>7, <2>8, <2>9, <2>10, <2>11
          DEF NextApp, MainThread
<1> QED BY <1>1, <1>2

LEMMA AppInvariance == AppSpec => []AppInv
<1>1. InitApp => AppInv
  <2> SUFFICES ASSUME InitApp PROVE AppInv
    OBVIOUS
  <2>1. FlagInv /\ StoppedInv
    BY InitBuildInv DEF InitApp, BuildInv, Init, StoppedInv
  <2>2. AppTypeOK
    <3>1. restores = 0 /\ 0 \in 0..1
      BY DEF InitApp
    <3>2. pages = "original" /\ memory = FALSE /\ saved = FALSE /\ destructing = FALSE
          /\ signaled = FALSE /\ apc = "pages" /\ apiPc = "none"
      BY DEF InitApp
    <3> QED BY <3>1, <3>2 DEF AppTypeOK, Startup
  <2>4. StartupInv
    BY DEF InitApp, StartupInv
  <2>3. PagesInv
    BY DEF InitApp, PagesInv
  <2> QED BY <2>1, <2>2, <2>3, <2>4 DEF AppInv
<1>2. AppInv /\ [NextApp]_allVars => AppInv'
  BY AppStep
<1> QED BY <1>1, <1>2, PTL DEF AppSpec

(* From the first call of App::run to the end of the destructor the state  *)
(* of the program is one that the code can name (App.cpp:404-557).          *)
THEOREM AppTypeCorrect == AppSpec => [](TypeOK /\ AppTypeOK)
<1>1. AppInv => TypeOK /\ AppTypeOK
  BY DEF AppInv, FlagInv
<1> QED BY <1>1, AppInvariance, PTL

(* For any number of workers: the huge pages go back once, with no memory   *)
(* on them and no thread that could hash, and never stay behind             *)
(* (App.cpp:434-457, 530-557).                                              *)
THEOREM PagesReturned == AppSpec => []PagesGivenBack
<1>1. AppInv => PagesGivenBack
  BY DEF AppInv, FlagInv, TypeOK, StoppedInv, AppTypeOK, PagesInv, PagesGivenBack
<1> QED BY <1>1, AppInvariance, PTL

(* What PauseGate promises of its flags holds of the whole program, before  *)
(* the miner is started and after it is stopped too (Miner.cpp:78-85, 265). *)
THEOREM AppPausesWithReason == AppSpec => [](DisconnectedIsPaused /\ NoForgottenPause)
<1>1. AppInv => DisconnectedIsPaused /\ NoForgottenPause
  BY DEF AppInv, FlagInv, DisconnectInv, ReasonInv, DisconnectedIsPaused, NoForgottenPause,
     Paused, Busy
<1> QED BY <1>1, AppInvariance, PTL

(* Nor does a worker hash during a build anywhere in the program, if a      *)
(* reconnection leaves the workers the time to fall asleep.                 *)
THEOREM AppBuildIsQuiet ==
    ASSUME SlowReconnect \/ MaxDrops = 0
    PROVE  AppSpec => []NoHashDuringBuild
<1>1. AppInv /\ BuildInv /\ [NextApp]_allVars => BuildInv'
  <2> SUFFICES ASSUME AppInv, BuildInv, [NextApp]_allVars PROVE BuildInv'
    OBVIOUS
  <2>1. CASE [Next]_vars
    BY <2>1, BuildStep
  <2>3. CASE NextApp
    BY <2>1, <2>3, AppSteps
  <2>4. CASE UNCHANGED allVars
    BY <2>1, <2>4 DEF allVars
  <2> QED BY <2>3, <2>4
<1>2. BuildInv => NoHashDuringBuild
  BY DEF BuildInv, ParkedInv, NoHashDuringBuild, Busy, Parked
<1>3. InitApp => BuildInv
  BY InitBuildInv DEF InitApp
<1> QED BY <1>1, <1>2, <1>3, AppInvariance, PTL DEF AppSpec
=============================================================================
