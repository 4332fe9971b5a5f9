---------------------------------- MODULE App ----------------------------------
(***************************************************************************)
(* The life of the program around the threads of PauseGate: App::run       *)
(* reserves huge pages, starts the API, calibrates, starts the miner,      *)
(* polls the flag of the signal handler and takes everything down, and the *)
(* destructor takes it down again.  What is taken down includes threads in *)
(* any state PauseGate has, so stopping may meet a seed change, a lost      *)
(* connection or a worker about to fall asleep.                             *)
(***************************************************************************)
EXTENDS PauseGate

VARIABLES
    apc,            \* the main thread in App::run and App::stop
    destructing,    \* it is in the destructor
    signaled,       \* s_signaled
    apiPc,          \* the API thread in Api::run
    saved,          \* m_hugePagesOriginal >= 0
    pages,          \* huge pages as the system had them, or as the miner wants them
    memory,         \* RandomX memory is in use
    restores        \* history: how often the pages were given back

appVars == <<apc, destructing, signaled, apiPc, saved, pages, memory,
             restores>>
allVars == <<vars, appVars>>

InitApp ==
    /\ Init
    /\ apc = "pages" /\ destructing = FALSE /\ signaled = FALSE
    /\ apiPc = "none"
    /\ saved = FALSE /\ pages = "original" /\ memory = FALSE /\ restores = 0

Move(from, to) == apc = from /\ apc' = to
Startup == {"pages", "api", "bench", "calibrate", "start"}
-----------------------------------------------------------------------------
(* App::run up to the main loop.                                            *)

\* As root; otherwise there is nothing to give back.
ReservePages ==
    /\ Move("pages", "api")
    /\ saved' = TRUE /\ pages' = "reserved"
    /\ UNCHANGED <<destructing, signaled, apiPc, memory, restores, vars>>

\* Where its thread is, and whether there is one, matters only at its stop.
StartApi ==
    /\ Move("api", "bench")
    /\ apiPc' = "up"
    /\ UNCHANGED <<destructing, signaled, saved, pages, memory, restores, vars>>

\* MoBenchmark::runAll, if it is needed: instances are built and released.
BeginCalibration ==
    /\ Move("bench", "calibrate")
    /\ memory' = TRUE
    /\ UNCHANGED <<destructing, signaled, apiPc, saved, pages, restores, vars>>

EndCalibration ==
    /\ Move("calibrate", "start")
    /\ memory' = FALSE
    /\ UNCHANGED <<destructing, signaled, apiPc, saved, pages, restores, vars>>

NoCalibration ==
    /\ Move("bench", "start")
    /\ UNCHANGED <<destructing, signaled, apiPc, saved, pages, memory,
                   restores, vars>>

\* Miner::start: the workers run, and the main thread looks for the pool.
StartMiner ==
    /\ Move("start", "connect")
    /\ UNCHANGED <<destructing, signaled, apiPc, saved, pages, memory, restores, vars>>

\* The pool is there and the other threads are started; from now on a job may
\* bring a dataset.  Client::connect tries every ten seconds for ever and asks
\* nobody whether to go on.
PoolAnswers ==
    /\ Move("connect", "loop")
    /\ memory' = TRUE
    /\ UNCHANGED <<destructing, signaled, apiPc, saved, pages, restores, vars>>
-----------------------------------------------------------------------------
(* The signal and the way down, once from run and once from ~App.           *)

Signal ==
    /\ apc # "exit" /\ ~signaled
    /\ signaled' = TRUE
    /\ UNCHANGED <<apc, destructing, apiPc, saved, pages, memory,
                   restores, vars>>


\* The main loop polls twice a second, and nothing else lowers m_running.
SeeSignal ==
    /\ signaled /\ Move("loop", "stopApi")
    /\ UNCHANGED <<destructing, signaled, apiPc, saved, pages, memory,
                   restores, vars>>

\* The flag is lowered and the socket closed, wherever the thread is; without
\* an API, or if it was not bound, there is none.
StopApi ==
    /\ Move("stopApi", "joinApi")
    /\ apiPc' \in IF apiPc = "up" THEN {"test", "enter", "blocked", "handle", "exited"}
                                  ELSE {apiPc}
    /\ UNCHANGED <<destructing, signaled, saved, pages, memory, restores, vars>>

\* Mutant: the pages are given back as soon as the API is down.
JoinApiAndGiveBack ==
    /\ apiPc = "exited"
    /\ Move("joinApi", "stopMiner")
    /\ saved' = FALSE
    /\ IF saved THEN pages' = "original" /\ restores' = restores + 1
                ELSE UNCHANGED <<pages, restores>>
    /\ UNCHANGED <<destructing, signaled, apiPc, memory, vars>>

JoinApi ==
    /\ apiPc = "exited"
    /\ Move("joinApi", IF mpc = "done" THEN "joinNet" ELSE "stopMiner")
    /\ UNCHANGED <<destructing, signaled, apiPc, saved, pages, memory,
                   restores, vars>>

\* Miner::stop, of which PauseGate has the init thread and the workers
CallStop ==
    /\ Move("stopMiner", "joinNet")
    /\ StopMiner
    /\ UNCHANGED <<destructing, signaled, apiPc, saved, pages, memory,
                   restores>>

\* The network threads are joined, then randomx().release().
FreeRandomX ==
    /\ mpc = "done" /\ npc = "idle"
    /\ Move("joinNet", "giveBack")
    /\ memory' = FALSE
    /\ UNCHANGED <<destructing, signaled, apiPc, saved, pages, restores,
                   vars>>

\* Mutant: the old number is read, not exchanged for -1.
GiveBackAgain ==
    /\ apc = "giveBack"
    /\ IF saved THEN pages' = "original" /\ restores' = restores + 1
                ELSE UNCHANGED <<pages, restores>>
    /\ IF destructing THEN apc' = "exit" ELSE apc' = "stopApi"
    /\ destructing' = TRUE
    /\ UNCHANGED <<saved, signaled, apiPc, memory, vars>>

\* releaseHugePages; run then returns and the destructor comes.
GiveBack ==
    /\ apc = "giveBack"
    /\ IF saved THEN pages' = "original" /\ restores' = restores + 1
                ELSE UNCHANGED <<pages, restores>>
    /\ saved' = FALSE
    /\ IF destructing THEN apc' = "exit" ELSE apc' = "stopApi"
    /\ destructing' = TRUE
    /\ UNCHANGED <<signaled, apiPc, memory, vars>>

MainThread ==
    \/ ReservePages \/ StartApi \/ BeginCalibration \/ EndCalibration \/ NoCalibration
    \/ StartMiner \/ SeeSignal \/ StopApi \/ JoinApi \/ CallStop
    \/ FreeRandomX \/ GiveBack
-----------------------------------------------------------------------------
(* Api::run, once the flag is lowered and the socket closed.                *)

ApiMove(from, to) ==
    /\ apiPc = from /\ apiPc' = to
    /\ UNCHANGED <<apc, destructing, signaled, saved, pages, memory,
                   restores, vars>>

ApiTest   == ApiMove("test", "exited")
\* accept on a closed socket fails at once.
ApiAccept == ApiMove("enter", "test")
ApiHandle == ApiMove("handle", "test")
ApiStep   == ApiTest \/ ApiAccept \/ ApiHandle

\* Somebody connects.  Closing the descriptor does not end an accept that
\* already waits.
Request   == ApiMove("blocked", "handle")
-----------------------------------------------------------------------------
\* The threads of PauseGate: workers from Miner::start on, the network and the
\* init thread once it has found the pool.  Jobs after m_workers.clear() find
\* nobody to pause, and nobody to build.
Started   == apc \notin Startup
Connected == Started /\ apc # "connect"
Threads ==
    \/ Started /\ \E w \in Workers : WorkerStep(w) \/ SpuriousWakeup(w)
    \/ Connected /\ mpc # "done" /\ (SeedJob \/ Drop \/ PlainJob)
    \/ Connected /\ (NetStep \/ InitStep \/ MainStep)

NextApp ==
    \/ MainThread \/ PoolAnswers \/ Signal \/ ApiStep \/ Request
    \/ Threads /\ UNCHANGED appVars

AppSpec == InitApp /\ [][NextApp]_allVars

\* The program's own threads go on; a pool, a signal and a request to the API
\* may never come.
FairAppSpec ==
    /\ AppSpec
    /\ WF_allVars(MainThread) /\ WF_allVars(ApiStep)
    /\ \A w \in Workers : WF_allVars(Started /\ WorkerStep(w) /\ UNCHANGED appVars)
    /\ WF_allVars(Connected /\ NetStep /\ UNCHANGED appVars)
    /\ WF_allVars(Connected /\ InitStep /\ UNCHANGED appVars)
    /\ WF_allVars(Connected /\ MainStep /\ UNCHANGED appVars)
-----------------------------------------------------------------------------
AppTypeOK ==
    /\ apc \in Startup \cup
             {"connect", "loop", "stopApi", "joinApi", "stopMiner", "joinNet", "giveBack", "exit"}
    /\ apiPc \in {"none", "up", "test", "enter", "blocked", "handle", "exited"}
    /\ destructing \in BOOLEAN /\ signaled \in BOOLEAN /\ saved \in BOOLEAN /\ memory \in BOOLEAN
    /\ pages \in {"original", "reserved"} /\ restores \in 0..1

(* The huge pages go back once, after the last memory on them is freed and  *)
(* no thread can hash any more, whichever of run and ~App does it, and the  *)
(* program does not end without (App.cpp:434-457, 530-557).                 *)
PagesGivenBack ==
    /\ restores > 0 => ~memory /\ \A w \in Workers : wpc[w] = "exit"
    /\ apc = "exit" => pages = "original"

\* What can keep the program from its end: the pool was never reached; the API's
\* thread waits in accept; a worker or the init thread was notified between its
\* predicate and its sleep; a worker does not acknowledge.
Unreachable == apc = "connect"
ApiBlocked  == apc = "joinApi" /\ apiPc = "blocked"
Overslept   == \/ \E w \in Workers : wpc[w] \in {"block", "asleep"} /\ ~running[w]
               \/ ipc \in {"block", "asleep"} /\ ~minerRunning
Unanswered  == npc = "await" /\ \E w \in left : ~ack[w]

=============================================================================
