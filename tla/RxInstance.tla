------------------------------ MODULE RxInstance ------------------------------
(***************************************************************************)
(* The two RandomX instances: what init, reinit and release allocate, fail *)
(* to allocate and free, and the configuration that all of them share.     *)
(* Calls hold RandomX::m_mutex exclusively from the first step to the      *)
(* last.  They are made by the benchmark at the start, then by the init    *)
(* thread and by the dev pool's network thread, and by Miner::stop.        *)
(*                                                                         *)
(* A cache is the seed and the configuration it was computed from, and a   *)
(* dataset the cache it was computed from.  Memory is "huge" (mmap) or     *)
(* "heap" (malloc); sizes, NUMA binding and flags of the VMs are left out. *)
(***************************************************************************)
EXTENDS Integers

CONSTANTS
    Seeds, Algos,
    BenchSeed,      \* BENCH_SEED
    DevAlgo,        \* RX_0
    Threads         \* Threads[a]: Config::threadsForAlgo

\* No instance is built for an empty seed (Miner.cpp:199, 277).
ASSUME SeedsAssumption == "" \notin Seeds \cup {BenchSeed}
ASSUME AlgosAssumption == DevAlgo \in Algos
ASSUME ThreadsAssumption == Threads \in [Algos -> Nat \ {0}]

Ids  == {"User", "Dev"}
Mems == {"none", "huge", "heap"}

\* A null pointer to a cache or a dataset; a seed is "" when there is none.
None   == [seed |-> "", config |-> ""]
Caches == [seed : Seeds \cup {BenchSeed}, config : Algos]

VARIABLES
    inst,           \* inst[i]: the members of an RxInstance
    config,         \* RandomX_CurrentConfig
    call,           \* the call that holds the mutex: its arguments
    step,           \* where it is: "free" without a call
    ok,             \* what it returns
    mpc, ipc, dpc,  \* main: "bench", "release", "mine", "stopped"; init thread;
                    \* dev network thread: what each wants
    iseed, ialgo,   \* of the init request
    dseed, dthreads,    \* of the dev job, and the VMs it asks for
    currentAlgo,    \* m_currentAlgo
    preallocated, devFeeEnabled,    \* m_rxInitialized, m_devFeeEnabled
    hugePages,      \* the setting
    leaked,         \* history, per instance: a block was overwritten unfreed
    misfreed,       \* history: memory freed the other way than it was allocated
    reinitFailed    \* history, per instance: a reinit has failed

lockVars   == <<call, step, ok>>
initVars   == <<ipc, iseed, ialgo>>
devVars    == <<dpc, dseed, dthreads>>
feeVars    == <<preallocated, devFeeEnabled>>
threadVars == <<mpc, initVars, devVars, currentAlgo, feeVars>>
heapVars   == <<leaked, misfreed, reinitFailed>>
vars       == <<inst, config, lockVars, threadVars, hugePages, heapVars>>

\* RxInstance::RxInstance; also what release leaves, but for the algorithm
Empty(a) == [ready |-> FALSE, seed |-> "", algo |-> a, vms |-> 0,
             cache |-> None, dataset |-> None, cacheMem |-> "none", dataMem |-> "none",
             cacheHuge |-> FALSE, dataHuge |-> FALSE]

NoCall == [by |-> "none", id |-> "User", seed |-> "", algo |-> DevAlgo, vms |-> 0, huge |-> FALSE]

Init ==
    /\ inst = [i \in Ids |-> Empty(DevAlgo)] /\ config = DevAlgo
    /\ call = NoCall /\ step = "free" /\ ok = FALSE
    /\ mpc = "bench" /\ ipc = "idle" /\ dpc = "idle"
    /\ iseed = "" /\ ialgo = DevAlgo /\ dseed = "" /\ dthreads = 0
    /\ currentAlgo = DevAlgo /\ preallocated = FALSE /\ devFeeEnabled = TRUE
    /\ hugePages \in BOOLEAN
    /\ leaked = [i \in Ids |-> FALSE] /\ misfreed = FALSE
    /\ reinitFailed = [i \in Ids |-> FALSE]

\* isSeedValid
SeedValid(i, s) == inst[i].ready /\ inst[i].seed = s

\* Memory that is freed the way its flag says was allocated that way.
Fits(mem, huge) == mem = "none" \/ (huge <=> mem = "huge")
FreedRight(i)   == /\ Fits(inst[i].cacheMem, inst[i].cacheHuge)
                   /\ Fits(inst[i].dataMem, inst[i].dataHuge)

Me == inst[call.id]
Become(new) == inst' = [inst EXCEPT ![call.id] = new]

\* A pointer that is not null is overwritten.
Overwrite(notNull) == leaked' = [leaked EXCEPT ![call.id] = @ \/ notNull]

Return(result) == step' = "return" /\ ok' = result
-----------------------------------------------------------------------------
(* RxInstance::init.                                                        *)

\* An instance that is ready is freed first; one that is not may still own
\* what a failed reinit has left.
BeginInit(by, id, s, a, n) ==
    /\ step = "free"
    /\ call' = [by |-> by, id |-> id, seed |-> s, algo |-> a, vms |-> n, huge |-> hugePages]
    /\ IF SeedValid(id, s) /\ inst[id].algo = a
       THEN Return(TRUE) /\ UNCHANGED <<inst, config, misfreed>>
       ELSE /\ LET old == IF inst[id].ready THEN Empty(a) ELSE inst[id]
               IN  inst' = [inst EXCEPT ![id] = [old EXCEPT !.seed = s, !.algo = a]]
            /\ misfreed' = (misfreed \/ (inst[id].ready /\ ~FreedRight(id)))
            /\ config' = a
            /\ step' = "cacheMem"
            /\ UNCHANGED ok
    /\ UNCHANGED <<leaked, reinitFailed>>

InCall(at) == step = at /\ UNCHANGED <<config, threadVars, hugePages, reinitFailed>>

HugeCacheMem ==
    /\ InCall("cacheMem") /\ call.huge
    /\ Overwrite(Me.cacheMem # "none")
    /\ Become([Me EXCEPT !.cacheMem = "huge", !.cacheHuge = TRUE])
    /\ step' = "cache"
    /\ UNCHANGED <<call, ok, misfreed>>

\* Without huge pages memory that is still there is used again.
HeapCacheMem ==
    /\ InCall("cacheMem")
    /\ Overwrite(call.huge /\ Me.cacheMem # "none")
    /\ Become([Me EXCEPT !.cacheMem = IF call.huge \/ @ = "none" THEN "heap" ELSE @,
                         !.cacheHuge = FALSE])
    /\ call' = [call EXCEPT !.huge = FALSE]
    /\ step' = "cache"
    /\ UNCHANGED <<ok, misfreed>>

NoCacheMem ==
    /\ InCall("cacheMem") /\ (call.huge \/ Me.cacheMem = "none")
    /\ Overwrite(Me.cacheMem # "none")
    /\ Become([Me EXCEPT !.cacheMem = "none"])
    /\ Return(FALSE)
    /\ UNCHANGED <<call, misfreed>>

\* Mutant: the seed is not read.
CreateCacheUnseeded ==
    /\ InCall("cache")
    /\ Overwrite(Me.cache # None)
    /\ Become([Me EXCEPT !.cache = [seed |-> "", config |-> config]])
    /\ step' = "dataMem"
    /\ UNCHANGED <<call, ok, misfreed>>

CreateCache ==
    /\ InCall("cache")
    /\ Overwrite(Me.cache # None)
    /\ Become([Me EXCEPT !.cache = [seed |-> call.seed, config |-> config]])
    /\ step' = "dataMem"
    /\ UNCHANGED <<call, ok, misfreed>>

\* Mutant: the pointer to the freed memory is kept.
CacheFailsKeepingMem ==
    /\ InCall("cache")
    /\ Overwrite(Me.cache # None)
    /\ misfreed' = (misfreed \/ ~Fits(Me.cacheMem, Me.cacheHuge))
    /\ Become([Me EXCEPT !.cache = None])
    /\ Return(FALSE)
    /\ UNCHANGED call

CacheFails ==
    /\ InCall("cache")
    /\ Overwrite(Me.cache # None)
    /\ misfreed' = (misfreed \/ ~Fits(Me.cacheMem, Me.cacheHuge))
    /\ Become([Me EXCEPT !.cache = None, !.cacheMem = "none"])
    /\ Return(FALSE)
    /\ UNCHANGED call

HugeDataMem ==
    /\ InCall("dataMem") /\ call.huge
    /\ Overwrite(Me.dataMem # "none")
    /\ Become([Me EXCEPT !.dataMem = "huge"])
    /\ step' = "dataset"
    /\ UNCHANGED <<call, ok, misfreed>>

HeapDataMem ==
    /\ InCall("dataMem")
    /\ Overwrite(call.huge /\ Me.dataMem # "none")
    /\ Become([Me EXCEPT !.dataMem = IF call.huge \/ @ = "none" THEN "heap" ELSE @])
    /\ call' = [call EXCEPT !.huge = FALSE]
    /\ step' = "dataset"
    /\ UNCHANGED <<ok, misfreed>>

\* The cache is released and its memory freed.
NoDataMem ==
    /\ InCall("dataMem") /\ (call.huge \/ Me.dataMem = "none")
    /\ Overwrite(Me.dataMem # "none")
    /\ misfreed' = (misfreed \/ ~Fits(Me.cacheMem, Me.cacheHuge))
    /\ Become([Me EXCEPT !.dataMem = "none", !.cache = None, !.cacheMem = "none"])
    /\ Return(FALSE)
    /\ UNCHANGED call

\* Mutant: the flag of the dataset's memory is the setting, not what was got.
CreateDatasetAsWished ==
    /\ InCall("dataset")
    /\ Overwrite(Me.dataset # None)
    /\ Become([Me EXCEPT !.dataset = Me.cache, !.dataHuge = hugePages])
    /\ step' = "vms"
    /\ UNCHANGED <<call, ok, misfreed>>

\* The dataset is created and filled.
CreateDataset ==
    /\ InCall("dataset")
    /\ Overwrite(Me.dataset # None)
    /\ Become([Me EXCEPT !.dataset = Me.cache, !.dataHuge = call.huge])
    /\ step' = "vms"
    /\ UNCHANGED <<call, ok, misfreed>>

DatasetFails ==
    /\ InCall("dataset")
    /\ Overwrite(Me.dataset # None)
    /\ misfreed' = (misfreed \/ ~Fits(Me.dataMem, call.huge)
                              \/ ~Fits(Me.cacheMem, Me.cacheHuge))
    /\ Become([Me EXCEPT !.dataset = None, !.cache = None, !.dataMem = "none",
                         !.cacheMem = "none"])
    /\ Return(FALSE)
    /\ UNCHANGED call

CreateVMs ==
    /\ InCall("vms")
    /\ Become([Me EXCEPT !.vms = call.vms, !.ready = TRUE])
    /\ Return(TRUE)
    /\ UNCHANGED <<call, leaked, misfreed>>

\* release waits for the mutex that init holds.
VMsFail ==
    /\ InCall("vms")
    /\ step' = "hung"
    /\ UNCHANGED <<inst, call, ok, leaked, misfreed>>
-----------------------------------------------------------------------------
(* RxInstance::reinit, of the dev instance only.  The configuration is not  *)
(* applied again.                                                           *)

BeginReinit(s, n) ==
    /\ step = "free"
    /\ call' = [by |-> "dev", id |-> "Dev", seed |-> s, algo |-> inst["Dev"].algo, vms |-> n,
                huge |-> FALSE]
    /\ IF inst["Dev"].ready /\ inst["Dev"].seed # s
       THEN /\ LET cache == [seed |-> s, config |-> config]
               IN  inst' = [inst EXCEPT !["Dev"] =
                       [@ EXCEPT !.vms = 0, !.seed = s, !.cache = cache, !.dataset = cache,
                                 !.ready = FALSE]]
            /\ step' = "revms"
            /\ UNCHANGED ok
       ELSE Return(inst["Dev"].ready) /\ UNCHANGED inst
    /\ UNCHANGED <<config, heapVars>>

RecreateVMs ==
    /\ InCall("revms")
    /\ Become([Me EXCEPT !.vms = call.vms, !.ready = TRUE])
    /\ Return(TRUE)
    /\ UNCHANGED <<call, leaked, misfreed>>

\* Mutant: the instance counts as ready although it has no VMs.
RecreateFailsReady ==
    /\ step = "revms"
    /\ reinitFailed' = [reinitFailed EXCEPT ![call.id] = TRUE]
    /\ Become([Me EXCEPT !.ready = TRUE])
    /\ Return(FALSE)
    /\ UNCHANGED <<config, threadVars, hugePages, call, leaked, misfreed>>

RecreateFails ==
    /\ step = "revms"
    /\ reinitFailed' = [reinitFailed EXCEPT ![call.id] = TRUE]
    /\ Return(FALSE)
    /\ UNCHANGED <<inst, config, threadVars, hugePages, call, leaked, misfreed>>
-----------------------------------------------------------------------------
(* The callers.                                                             *)

EndCall == step' = "free" /\ call' = NoCall /\ UNCHANGED ok

\* RandomX::release of the instances X
Release(X) ==
    /\ step = "free"
    /\ inst' = [i \in Ids |-> IF i \in X THEN Empty(DevAlgo) ELSE inst[i]]
    /\ misfreed' = (misfreed \/ \E i \in X : ~FreedRight(i))
    /\ UNCHANGED <<config, lockVars, hugePages, leaked, reinitFailed>>

\* One algorithm of the benchmark; the instance is released if it was built.
Benchmark(a) ==
    /\ mpc = "bench"
    /\ BeginInit("main", "User", BenchSeed, a, Threads[a])
    /\ UNCHANGED <<threadVars, hugePages>>

BenchmarkBuilt ==
    /\ step = "return" /\ call.by = "main"
    /\ EndCall
    /\ mpc' = IF ok THEN "release" ELSE "bench"
    /\ UNCHANGED <<inst, config, initVars, devVars, currentAlgo, feeVars, hugePages, heapVars>>

BenchmarkEnds ==
    /\ mpc = "release"
    /\ Release({"User"})
    /\ mpc' = "bench"
    /\ UNCHANGED <<initVars, devVars, currentAlgo, feeVars>>

StartMiner(a) ==
    /\ mpc = "bench" /\ step = "free"
    /\ mpc' = "mine" /\ currentAlgo' = a
    /\ UNCHANGED <<inst, config, lockVars, initVars, devVars, feeVars, hugePages, heapVars>>

\* Miner::stop, when the threads have been joined
StopMiner ==
    /\ mpc = "mine" /\ ipc = "idle" /\ dpc = "idle"
    /\ Release(Ids)
    /\ mpc' = "stopped"
    /\ UNCHANGED <<initVars, devVars, currentAlgo, feeVars>>

\* rxInitLoop takes a request
InitTake(s, a) ==
    /\ mpc = "mine" /\ ipc = "idle"
    /\ ipc' = "User" /\ iseed' = s /\ ialgo' = a
    /\ UNCHANGED <<inst, config, lockVars, mpc, devVars, currentAlgo, feeVars, hugePages, heapVars>>

InitBuild ==
    /\ ipc \in Ids
    /\ BeginInit("init", ipc, iseed, IF ipc = "User" THEN ialgo ELSE DevAlgo, Threads[ialgo])
    /\ ipc' = "building"
    /\ UNCHANGED <<mpc, devVars, iseed, ialgo, currentAlgo, feeVars, hugePages>>

\* After the first success the dev instance is built as well.  m_currentAlgo
\* is set unless a newer request is there.
InitBuilt ==
    /\ step = "return" /\ call.by = "init"
    /\ EndCall
    /\ LET first == call.id = "User" /\ ok /\ devFeeEnabled /\ ~preallocated
       IN  /\ ipc' = IF first THEN "Dev" ELSE "idle"
           /\ preallocated' = (preallocated \/ first)
    /\ currentAlgo' \in IF ipc' = "Dev" \/ (call.id = "User" /\ ~ok) THEN {currentAlgo}
                                                                 ELSE {currentAlgo, ialgo}
    /\ IF ipc' = "idle" THEN iseed' = "" /\ ialgo' = DevAlgo ELSE UNCHANGED <<iseed, ialgo>>
    /\ UNCHANGED <<inst, config, mpc, devVars, devFeeEnabled, hugePages, heapVars>>

OnDevJob(s) ==
    /\ mpc = "mine" /\ dpc = "idle" /\ step = "free"
    /\ ~SeedValid("Dev", s)
    /\ dpc' = IF inst["Dev"].ready THEN "reinit" ELSE "init"
    /\ dseed' = s /\ dthreads' = Threads[currentAlgo]
    /\ UNCHANGED <<inst, config, lockVars, mpc, initVars, currentAlgo, feeVars, hugePages,
                   heapVars>>

DevBuild ==
    /\ \/ dpc = "reinit" /\ BeginReinit(dseed, dthreads)
       \/ dpc = "init" /\ BeginInit("dev", "Dev", dseed, DevAlgo, dthreads)
    /\ dpc' = IF dpc = "reinit" THEN "reiniting" ELSE "initing"
    /\ UNCHANGED <<mpc, initVars, dseed, dthreads, currentAlgo, feeVars, hugePages>>

\* A reinit that failed is followed by an init, and that by no more fee.
DevBuilt ==
    /\ step = "return" /\ call.by = "dev"
    /\ EndCall
    /\ dpc' = IF ok \/ dpc = "initing" THEN "idle" ELSE "init"
    /\ devFeeEnabled' = (devFeeEnabled /\ (ok \/ dpc = "reiniting"))
    /\ IF dpc' = "idle" THEN dseed' = "" /\ dthreads' = 0 ELSE UNCHANGED <<dseed, dthreads>>
    /\ UNCHANGED <<inst, config, mpc, initVars, currentAlgo, preallocated, hugePages, heapVars>>
-----------------------------------------------------------------------------
Build ==
    \/ HugeCacheMem \/ HeapCacheMem \/ NoCacheMem \/ CreateCache \/ CacheFails
    \/ HugeDataMem \/ HeapDataMem \/ NoDataMem \/ CreateDataset \/ DatasetFails
    \/ CreateVMs \/ VMsFail \/ RecreateVMs \/ RecreateFails

Next ==
    \/ Build
    \/ \E a \in Algos : Benchmark(a) \/ StartMiner(a)
    \/ BenchmarkBuilt \/ BenchmarkEnds \/ StopMiner
    \/ \E s \in Seeds, a \in Algos : InitTake(s, a)
    \/ \E s \in Seeds : OnDevJob(s)
    \/ InitBuild \/ InitBuilt \/ DevBuild \/ DevBuilt

Spec == Init /\ [][Next]_vars
-----------------------------------------------------------------------------
Insts == [ready : BOOLEAN, seed : Seeds \cup {BenchSeed, ""}, algo : Algos,
          vms : {0} \cup {Threads[a] : a \in Algos},
          cache : Caches \cup {None}, dataset : Caches \cup {None},
          cacheMem : Mems, dataMem : Mems, cacheHuge : BOOLEAN, dataHuge : BOOLEAN]

Calls == [by : {"none", "main", "init", "dev"}, id : Ids,
          seed : Seeds \cup {BenchSeed, ""}, algo : Algos,
          vms : {0} \cup {Threads[a] : a \in Algos}, huge : BOOLEAN]

TypeOK ==
    /\ inst \in [Ids -> Insts] /\ call \in Calls
    /\ config \in Algos /\ ok \in BOOLEAN
    /\ step \in {"free", "cacheMem", "cache", "dataMem", "dataset", "vms", "revms", "return",
                 "hung"}
    /\ mpc \in {"bench", "release", "mine", "stopped"}
    /\ ipc \in Ids \cup {"idle", "building"}
    /\ dpc \in {"idle", "reinit", "init", "reiniting", "initing"}
    /\ iseed \in Seeds \cup {""} /\ ialgo \in Algos /\ dseed \in Seeds \cup {""}
    /\ dthreads \in {0} \cup {Threads[a] : a \in Algos}
    /\ currentAlgo \in Algos /\ preallocated \in BOOLEAN /\ devFeeEnabled \in BOOLEAN
    /\ hugePages \in BOOLEAN /\ misfreed \in BOOLEAN
    /\ leaked \in [Ids -> BOOLEAN]
    /\ reinitFailed \in [Ids -> BOOLEAN]

\* No call is at work on the instance.
AtRest(i) == step \in {"free", "return"} \/ call.id # i

(* An instance that says it is ready has a VM for each thread asked for, on *)
(* a dataset of its seed, whatever failed before; the user's was computed   *)
(* with the configuration of its algorithm, whoever changed the global one  *)
(* in between (RxInstance.cpp:135-340, 342-389).                            *)
ReadyIsWhole ==
    \A i \in Ids : AtRest(i) /\ inst[i].ready =>
        /\ inst[i].vms > 0 /\ inst[i].cacheMem # "none" /\ inst[i].dataMem # "none"
        /\ inst[i].cache # None /\ inst[i].dataset = inst[i].cache
        /\ inst[i].dataset.seed = inst[i].seed
        /\ i = "User" => /\ inst[i].dataset.config = inst[i].algo
                         /\ inst[i].vms = Threads[inst[i].algo]

(* An init that fails frees all it has taken, by whichever of its exits it  *)
(* leaves, so that the next one can start from nothing; only a failed       *)
(* reinit leaves something (RxInstance.cpp:213-215, 226-235, 275-286,       *)
(* 295-312).                                                                *)
FailureLeavesNothing ==
    \A i \in Ids : AtRest(i) /\ ~inst[i].ready /\ ~reinitFailed[i] =>
        /\ inst[i].cache = None /\ inst[i].dataset = None /\ inst[i].vms = 0
        /\ inst[i].cacheMem = "none" /\ inst[i].dataMem = "none"

(* Without a failed reinit no block is ever leaked, and each is freed the way *)
(* it was allocated: the flags follow every fallback from huge pages, which *)
(* may differ for the cache and the dataset (RxInstance.h:60-61,            *)
(* RxInstance.cpp:158-176, 227-284, 299-308, 471-489).                      *)
MemoryIsOwned ==
    (\A i \in Ids : ~reinitFailed[i]) =>
        /\ ~misfreed /\ \A i \in Ids : ~leaked[i]
        /\ \A i \in Ids : AtRest(i) => FreedRight(i)

(* "Dual RandomX instances (user + dev) for zero-downtime dev fee           *)
(* switching" (README.md:41) of all the algorithms listed there: while no   *)
(* build is at work the configuration the workers hash with is that of the  *)
(* algorithm the user's instance was built for.                             *)
UserConfigInForce ==
    mpc = "mine" /\ step = "free" /\ inst["User"].ready => config = inst["User"].algo
=============================================================================
