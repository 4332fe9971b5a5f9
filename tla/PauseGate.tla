------------------------------ MODULE PauseGate ------------------------------
(***************************************************************************)
(* Stopping the hashing threads while the RandomX dataset they read is     *)
(* rebuilt: the flags, the acknowledgement and the condition variable of   *)
(* Worker, and the threads that drive them - the network thread (a job     *)
(* with a new seed, a dropped connection, a job after it), the init thread *)
(* (Miner::rxInitLoop) and the thread that calls Miner::stop.              *)
(*                                                                         *)
(* Atomic loads and stores are one step each.  notify_one is called        *)
(* without m_pauseMutex, so evaluating the predicate of the wait and       *)
(* falling asleep are two steps, and a notification between them is lost.  *)
(* Jobs are told apart only by what the network thread asks of them: does  *)
(* this one need a new dataset?  The workers are running and the first     *)
(* dataset is in place; Miner.tla has the start and the change of          *)
(* algorithm, where workers are recreated instead of paused.               *)
(***************************************************************************)
EXTENDS Naturals

CONSTANTS
    Workers,        \* m_workers
    MaxSeeds,       \* bound: jobs that need a new dataset
    MaxDrops,       \* bound: times the pool connection is lost
    SlowReconnect,  \* TRUE: the 5 s a reconnection takes (Client.cpp:565) are
                    \* enough for the paused workers to fall asleep and for the
                    \* init thread to take a queued request
    MayStop         \* TRUE: Miner::stop may be called

ASSUME WorkersAssumption == Workers # {}
ASSUME BoundsAssumption == MaxSeeds \in Nat /\ MaxDrops \in Nat
ASSUME SwitchAssumption == SlowReconnect \in BOOLEAN /\ MayStop \in BOOLEAN

VARIABLES
    running, paused, ack,   \* m_running, m_paused, m_pauseAck of each worker
    wpc,                    \* where each worker is in run()
    jobMutex,               \* the holder of m_jobMutex, or "free"
    poolDisconnected,       \* m_poolDisconnected
    pending,                \* m_rxInitPending # nullptr
    minerRunning,           \* Miner::m_running
    npc, nop, left, cur,    \* network thread: step, cause, workers left, worker at hand
    ipc,                    \* init thread
    mpc, mleft,             \* thread in Miner::stop, workers left to stop
    seeds, drops            \* events so far

wVars    == <<running, paused, ack, wpc>>
netVars  == <<npc, nop, left, cur, seeds, drops>>
mainVars == <<mpc, mleft, minerRunning>>
vars     == <<wVars, jobMutex, poolDisconnected, pending, netVars, ipc, mainVars>>

Init ==
    /\ running = [w \in Workers |-> TRUE]
    /\ paused = [w \in Workers |-> FALSE]
    /\ ack = [w \in Workers |-> FALSE]
    /\ wpc = [w \in Workers |-> "top"]
    /\ jobMutex = "free" /\ poolDisconnected = FALSE /\ pending = FALSE
    /\ minerRunning = TRUE
    /\ npc = "idle" /\ nop = "seed" /\ left = {} /\ cur \in Workers
    /\ ipc = "top" /\ mpc = "run" /\ mleft = {}
    /\ seeds = 0 /\ drops = 0
-----------------------------------------------------------------------------
(* Worker::run.                                                             *)

At(w, from, to) == wpc[w] = from /\ wpc' = [wpc EXCEPT ![w] = to]
OthersOf(w) == UNCHANGED <<running, paused, jobMutex, poolDisconnected, pending,
                           netVars, ipc, mainVars>>

Top(w) ==
    /\ At(w, "top", IF running[w] THEN "test" ELSE "exit")
    /\ UNCHANGED ack /\ OthersOf(w)

TestPaused(w) ==
    /\ At(w, "test", IF paused[w] THEN "acknowledge" ELSE "clear")
    /\ UNCHANGED ack /\ OthersOf(w)

Acknowledge(w) ==
    /\ At(w, "acknowledge", "predicate")
    /\ ack' = [ack EXCEPT ![w] = TRUE]
    /\ OthersOf(w)

\* The predicate of m_pauseCv.wait; when it holds the loop starts over.
TestPredicate(w) ==
    /\ At(w, "predicate", IF paused[w] /\ running[w] THEN "block" ELSE "top")
    /\ UNCHANGED ack /\ OthersOf(w)

FallAsleep(w) ==
    /\ At(w, "block", "asleep")
    /\ UNCHANGED ack /\ OthersOf(w)

\* C++ allows it and promises nothing: no fairness.
SpuriousWakeup(w) ==
    /\ At(w, "asleep", "predicate")
    /\ UNCHANGED ack /\ OthersOf(w)

ClearAck(w) ==
    /\ At(w, "clear", "hash")
    /\ ack' = [ack EXCEPT ![w] = FALSE]
    /\ OthersOf(w)

\* Job check, and one nonce with the cached vm.
Hash(w) ==
    /\ At(w, "hash", "top")
    /\ UNCHANGED ack /\ OthersOf(w)

WorkerStep(w) == Top(w) \/ TestPaused(w) \/ Acknowledge(w) \/ TestPredicate(w)
                    \/ FallAsleep(w) \/ ClearAck(w) \/ Hash(w)

\* notify_one: the thread is in the wait or the notification is lost.
Notified(W) == [w \in Workers |-> IF w \in W /\ wpc[w] = "asleep" THEN "predicate" ELSE wpc[w]]

\* Worker::resume on every worker
ResumeAll ==
    /\ paused' = [w \in Workers |-> FALSE]
    /\ wpc' = Notified(Workers)
-----------------------------------------------------------------------------
(* Network thread.  randomx().isSeedValid() takes RandomX::m_mutex shared,  *)
(* which the init thread holds exclusively while it builds.                 *)

SeedCheckReturns == ipc # "build"
\* There is a connection to hear from, or to lose.
Reconnected == poolDisconnected /\ SlowReconnect
                  => /\ ~pending /\ ipc # "resume"
                     /\ \A w \in Workers : wpc[w] \in {"asleep", "exit"}

\* onJob, a job that needs a new dataset
SeedJob ==
    /\ npc = "idle" /\ seeds < MaxSeeds
    /\ SeedCheckReturns /\ Reconnected
    /\ npc' = "lock" /\ nop' = "seed"
    /\ seeds' = seeds + 1
    /\ UNCHANGED <<wVars, jobMutex, poolDisconnected, pending, left, cur, drops, ipc, mainVars>>

\* Mutant: the loss is reported again at every failed reconnection.
DropAgain ==
    /\ npc = "idle"
    /\ poolDisconnected' = TRUE
    /\ npc' = "lock" /\ nop' = "drop"
    /\ drops' = drops + 1
    /\ UNCHANGED <<wVars, jobMutex, pending, left, cur, seeds, ipc, mainVars>>

\* onDisconnected: the flag is set before the lock is taken.  It may still
\* be up, when no plain job came since the last reconnection.
Drop ==
    /\ npc = "idle" /\ drops < MaxDrops /\ Reconnected
    /\ poolDisconnected' = TRUE
    /\ npc' = "lock" /\ nop' = "drop"
    /\ drops' = drops + 1
    /\ UNCHANGED <<wVars, jobMutex, pending, left, cur, seeds, ipc, mainVars>>

LockToPause ==
    /\ npc = "lock" /\ jobMutex = "free"
    /\ jobMutex' = "net"
    /\ npc' = "pause" /\ left' = Workers
    /\ UNCHANGED <<wVars, poolDisconnected, pending, nop, cur, seeds, drops, ipc, mainVars>>

\* Mutant: an acknowledgement of an earlier pause is left standing.
PauseKeepsAck(w) ==
    /\ npc = "pause" /\ w \in left
    /\ cur' = w
    /\ npc' = "raise"
    /\ UNCHANGED <<running, paused, ack, wpc, jobMutex, poolDisconnected, pending,
                   nop, left, seeds, drops, ipc, mainVars>>

\* Worker::pause, the two stores
PauseForgetsAck(w) ==
    /\ npc = "pause" /\ w \in left
    /\ ack' = [ack EXCEPT ![w] = FALSE]
    /\ cur' = w
    /\ npc' = "raise"
    /\ UNCHANGED <<running, paused, wpc, jobMutex, poolDisconnected, pending,
                   nop, left, seeds, drops, ipc, mainVars>>

PauseRaisesFlag ==
    /\ npc = "raise"
    /\ paused' = [paused EXCEPT ![cur] = TRUE]
    /\ left' = left \ {cur}
    /\ npc' = "pause"
    /\ UNCHANGED <<running, ack, wpc, jobMutex, poolDisconnected, pending,
                   nop, cur, seeds, drops, ipc, mainVars>>

\* All paused: a dropped connection is done, a new seed awaits the workers.
AllPaused ==
    /\ npc = "pause" /\ left = {}
    /\ IF nop = "seed"
       THEN npc' = "await" /\ left' = Workers /\ UNCHANGED jobMutex
       ELSE npc' = "idle" /\ jobMutex' = "free" /\ UNCHANGED left
    /\ UNCHANGED <<wVars, poolDisconnected, pending, nop, cur, seeds, drops, ipc, mainVars>>

\* while (!worker->isPauseAcknowledged()) sleep, worker after worker
SeeAck(w) ==
    /\ npc = "await" /\ w \in left /\ ack[w]
    /\ left' = left \ {w}
    /\ UNCHANGED <<wVars, jobMutex, poolDisconnected, pending, npc, nop, cur, seeds,
                   drops, ipc, mainVars>>

AllAcknowledged ==
    /\ npc = "await" /\ left = {}
    /\ jobMutex' = "free"
    /\ npc' = "queue"
    /\ UNCHANGED <<wVars, poolDisconnected, pending, nop, left, cur, seeds, drops, ipc, mainVars>>

\* m_rxInitMutex is held by an init thread between its predicate and its sleep.
QueueInit ==
    /\ npc = "queue" /\ ipc # "block"
    /\ pending' = TRUE
    /\ ipc' = IF ipc = "asleep" THEN "top" ELSE ipc
    /\ npc' = "idle"
    /\ UNCHANGED <<wVars, jobMutex, poolDisconnected, nop, left, cur, seeds, drops, mainVars>>

\* onJob, a job for the dataset in place
PlainJob ==
    /\ npc = "idle" /\ SeedCheckReturns /\ Reconnected
    /\ jobMutex = "free"
    /\ poolDisconnected' = FALSE
    /\ IF poolDisconnected THEN ResumeAll ELSE UNCHANGED <<paused, wpc>>
    /\ UNCHANGED <<running, ack, jobMutex, pending, netVars, ipc, mainVars>>

NetStep == LockToPause \/ (\E w \in Workers : PauseForgetsAck(w)) \/ PauseRaisesFlag
              \/ AllPaused \/ (\E w \in Workers : SeeAck(w)) \/ AllAcknowledged \/ QueueInit
-----------------------------------------------------------------------------
(* Miner::rxInitLoop.                                                       *)

InitWait ==
    /\ ipc = "top"
    /\ IF ~minerRunning THEN ipc' = "exit" /\ UNCHANGED pending
       ELSE IF pending  THEN ipc' = "build" /\ pending' = FALSE
                        ELSE ipc' = "block" /\ UNCHANGED pending
    /\ UNCHANGED <<wVars, jobMutex, poolDisconnected, netVars, mainVars>>

InitFallAsleep ==
    /\ ipc = "block"
    /\ ipc' = "asleep"
    /\ UNCHANGED <<wVars, jobMutex, poolDisconnected, pending, netVars, mainVars>>

\* The old VMs are destroyed and the dataset rewritten until here.
InitBuilt ==
    /\ ipc = "build"
    /\ ipc' = "resume"
    /\ UNCHANGED <<wVars, jobMutex, poolDisconnected, pending, netVars, mainVars>>

\* Mutant: a failed build leaves the workers paused.
InitResumeIfOk ==
    /\ ipc = "resume" /\ jobMutex = "free"
    /\ ipc' = "top"
    /\ \E ok \in BOOLEAN :
        IF pending \/ poolDisconnected \/ ~ok THEN UNCHANGED <<paused, wpc>> ELSE ResumeAll
    /\ UNCHANGED <<running, ack, jobMutex, poolDisconnected, pending, netVars, mainVars>>

\* Mutant: the state of the connection is not asked.
InitResumeAnyway ==
    /\ ipc = "resume" /\ jobMutex = "free"
    /\ ipc' = "top"
    /\ IF pending THEN UNCHANGED <<paused, wpc>> ELSE ResumeAll
    /\ UNCHANGED <<running, ack, jobMutex, poolDisconnected, pending, netVars, mainVars>>

\* Built or failed, the paused workers are resumed, unless a newer request
\* is queued or the pool is gone.
InitResume ==
    /\ ipc = "resume" /\ jobMutex = "free"
    /\ ipc' = "top"
    /\ IF pending \/ poolDisconnected THEN UNCHANGED <<paused, wpc>> ELSE ResumeAll
    /\ UNCHANGED <<running, ack, jobMutex, poolDisconnected, pending, netVars, mainVars>>

InitStep == InitWait \/ InitFallAsleep \/ InitBuilt \/ InitResume
-----------------------------------------------------------------------------
(* Miner::stop.                                                             *)

StopMiner ==
    /\ MayStop /\ mpc = "run"
    /\ minerRunning' = FALSE
    /\ ipc' = IF ipc = "asleep" THEN "top" ELSE ipc
    /\ mpc' = "joinInit"
    /\ UNCHANGED <<wVars, jobMutex, poolDisconnected, pending, netVars, mleft>>

JoinInit ==
    /\ mpc = "joinInit" /\ ipc = "exit"
    /\ mpc' = "stop" /\ mleft' = Workers
    /\ UNCHANGED <<wVars, jobMutex, poolDisconnected, pending, netVars, ipc, minerRunning>>

\* Worker::stop up to the join, the first time for this worker
StopWorker(w) ==
    /\ mpc = "stop" /\ w \in mleft /\ running[w]
    /\ \A v \in Workers \ mleft : wpc[v] = "exit"
    /\ running' = [running EXCEPT ![w] = FALSE]
    /\ paused' = [paused EXCEPT ![w] = FALSE]
    /\ wpc' = Notified({w})
    /\ mpc' = "join"
    /\ UNCHANGED <<ack, jobMutex, poolDisconnected, pending, netVars, ipc, mleft, minerRunning>>

JoinWorker(w) ==
    /\ mpc = "join" /\ w \in mleft /\ wpc[w] = "exit"
    /\ mleft' = mleft \ {w}
    /\ mpc' = "stop"
    /\ UNCHANGED <<wVars, jobMutex, poolDisconnected, pending, netVars, ipc, minerRunning>>

\* lock m_jobMutex, m_workers.clear()
ClearWorkers ==
    /\ mpc = "stop" /\ mleft = {} /\ jobMutex = "free"
    /\ mpc' = "done"
    /\ UNCHANGED <<wVars, jobMutex, poolDisconnected, pending, netVars, ipc, mleft, minerRunning>>

MainStep == JoinInit \/ (\E w \in Workers : StopWorker(w))
               \/ (\E w \in Workers : JoinWorker(w)) \/ ClearWorkers
-----------------------------------------------------------------------------
Next ==
    \/ \E w \in Workers : WorkerStep(w) \/ SpuriousWakeup(w)
    \/ SeedJob \/ Drop \/ PlainJob \/ NetStep
    \/ InitStep
    \/ StopMiner \/ MainStep

Spec == Init /\ [][Next]_vars

\* Every thread that can run does: workers, init thread, the network thread
\* once it is handling something, the stopping thread once it stops.  Jobs,
\* drops, the stop itself and spurious wakeups are never promised.
FairSpec ==
    /\ Spec
    /\ \A w \in Workers : WF_vars(WorkerStep(w))
    /\ WF_vars(NetStep) /\ WF_vars(InitStep) /\ WF_vars(MainStep)
-----------------------------------------------------------------------------
WorkerStates == {"top", "test", "acknowledge", "predicate", "block", "asleep",
                 "clear", "hash", "exit"}

TypeOK ==
    /\ running \in [Workers -> BOOLEAN] /\ paused \in [Workers -> BOOLEAN]
    /\ ack \in [Workers -> BOOLEAN] /\ wpc \in [Workers -> WorkerStates]
    /\ jobMutex \in {"free", "net"} /\ poolDisconnected \in BOOLEAN
    /\ pending \in BOOLEAN /\ minerRunning \in BOOLEAN
    /\ npc \in {"idle", "lock", "pause", "raise", "await", "queue"}
    /\ nop \in {"seed", "drop"} /\ left \subseteq Workers /\ cur \in Workers
    /\ ipc \in {"top", "block", "asleep", "build", "resume", "exit"}
    /\ mpc \in {"run", "joinInit", "stop", "join", "done"} /\ mleft \subseteq Workers
    /\ seeds \in 0..MaxSeeds /\ drops \in 0..MaxDrops

(* While RandomX::init frees the VMs and rewrites the dataset, no worker is *)
(* past its pause test: the acknowledgements the network thread collected   *)
(* are still true when the init thread gets to work (Miner.cpp:224-236,     *)
(* 510-513, Worker.cpp:127-137).                                            *)
NoHashDuringBuild == ipc = "build" => \A w \in Workers : wpc[w] # "hash"

(* The pause flags never outlive their reason: with no request queued or in *)
(* work and the connection up, no running worker is told to pause, although *)
(* flag, queue and connection state are changed by three threads under two  *)
(* mutexes (Miner.cpp:79, 265, 537, 564, 581).                              *)
NoForgottenPause ==
    npc = "idle" /\ ~pending /\ ipc \notin {"build", "resume"} /\ ~poolDisconnected
        /\ minerRunning => \A w \in Workers : ~paused[w]

(* Once onDisconnected has returned, the miner hashes no stale job until    *)
(* the pool is back: no thread that was about to resume the workers undoes  *)
(* the pause (Miner.h:85, Miner.cpp:564, 581).                              *)
DisconnectedIsPaused ==
    poolDisconnected /\ npc = "idle" => \A w \in Workers : paused[w] \/ ~running[w]

(* The wait for the acknowledgements ends ("Wait for all workers to confirm *)
(* they've stopped hashing", Miner.cpp:229).                                *)
AwaitReturns == npc = "await" ~> npc # "await"
=============================================================================
