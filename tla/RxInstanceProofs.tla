--------------------------- MODULE RxInstanceProofs ---------------------------
(***************************************************************************)
(* The RandomX instances: whatever allocation fails, in whichever order    *)
(* the three callers come, an instance is whole when it is ready, an init  *)
(* that fails leaves nothing and no block is lost or freed wrongly.        *)
(* Then the division of the dataset between the threads that fill it,      *)
(* which is exact for every number of items and of threads whose product   *)
(* fits.                                                                   *)
(***************************************************************************)
EXTENDS RxInstance, DatasetSplit, TLAPS

\* What an instance owns that holds nothing.
Clean(i) == /\ inst[i].cache = None /\ inst[i].dataset = None /\ inst[i].vms = 0
            /\ inst[i].cacheMem = "none" /\ inst[i].dataMem = "none"

\* What an instance has that is ready.
Complete(i) ==
    /\ inst[i].vms > 0 /\ inst[i].cacheMem # "none" /\ inst[i].dataMem # "none"
    /\ inst[i].cache # None /\ inst[i].dataset = inst[i].cache
    /\ inst[i].dataset.seed = inst[i].seed
    /\ i = "User" => /\ inst[i].dataset.config = inst[i].algo
                     /\ inst[i].vms = Threads[inst[i].algo]

\* Between two calls: whole, or clean, or left over by a failed reinit.
RestInv(i) ==
    /\ inst[i].ready => Complete(i)
    /\ ~reinitFailed[i] => /\ ~inst[i].ready => Clean(i)
                           /\ FreedRight(i)

InitSteps == {"cacheMem", "cache", "dataMem", "dataset", "vms"}

\* Inside init: what has been taken so far, for the seed and the algorithm of
\* the call ...
Taken ==
    /\ ~Me.ready /\ Me.seed = call.seed /\ Me.algo = call.algo /\ config = call.algo
    /\ call.seed \in Seeds \cup {BenchSeed} /\ call.vms > 0
    /\ call.id = "User" => call.vms = Threads[call.algo]
    /\ step # "cacheMem" => Me.cacheMem # "none"
    /\ step \in {"dataMem", "dataset", "vms"}
          => Me.cache = [seed |-> call.seed, config |-> call.algo]
    /\ step \in {"dataset", "vms"} => Me.dataMem # "none"
    /\ step = "vms" => Me.dataset = Me.cache

\* ... and that nothing else is there which the next step would lose.
NotTaken ==
    /\ Me.vms = 0 /\ Fits(Me.cacheMem, Me.cacheHuge)
    /\ step = "cacheMem" => Me.cacheMem = "none"
    /\ step \in {"cacheMem", "cache"} => Me.cache = None
    /\ step \in {"cacheMem", "cache", "dataMem"} => Me.dataMem = "none"
    /\ step # "vms" => Me.dataset = None
    /\ step = "dataset" => Fits(Me.dataMem, call.huge)
    /\ step = "vms" => Fits(Me.dataMem, Me.dataHuge)

\* Inside reinit, where only the VMs are missing.
Emptied ==
    /\ call.id = "Dev" /\ ~Me.ready /\ Me.seed = call.seed /\ call.vms > 0
    /\ Me.cacheMem # "none" /\ Me.dataMem # "none"
    /\ Me.cache # None /\ Me.dataset = Me.cache /\ Me.cache.seed = call.seed

WorkInv ==
    /\ step \in InitSteps => Taken /\ (~reinitFailed[call.id] => NotTaken)
    /\ step = "revms" => Emptied /\ (~reinitFailed[call.id] => FreedRight(call.id))

\* Nothing was lost or freed wrongly so far.
HeapInv == /\ \A i \in Ids : ~reinitFailed[i] => ~leaked[i]
           /\ (\A i \in Ids : ~reinitFailed[i]) => ~misfreed

\* A request says what to build, and a call was made for one.
CallerInv == /\ ipc # "idle" => iseed \in Seeds
             /\ dpc # "idle" => dseed \in Seeds /\ dthreads > 0
             /\ call.by = "init" => ipc = "building"
             /\ call.by = "dev" => dpc \in {"reiniting", "initing"}

IInv == /\ TypeOK /\ CallerInv /\ HeapInv
        /\ \A i \in Ids : AtRest(i) => RestInv(i)
        /\ WorkInv
-----------------------------------------------------------------------------
(* Types.                                                                   *)

LEMMA EmptyTyped == \A a \in Algos : Empty(a) \in Insts
  BY DEF Empty, Insts, Mems

LEMMA NoCallTyped == NoCall \in Calls
  BY AlgosAssumption DEF NoCall, Calls, Ids

\* A cache is not null.
LEMMA CacheTyped ==
    ASSUME NEW s \in Seeds \cup {BenchSeed}, NEW a \in Algos
    PROVE  [seed |-> s, config |-> a] \in Caches /\ [seed |-> s, config |-> a] # None
  BY SeedsAssumption DEF Caches, None

\* The variables of the threads, which the calls leave alone.
ThreadTypes ==
    /\ mpc \in {"bench", "release", "mine", "stopped"}
    /\ ipc \in Ids \cup {"idle", "building"}
    /\ dpc \in {"idle", "reinit", "init", "reiniting", "initing"}
    /\ iseed \in Seeds \cup {""} /\ ialgo \in Algos /\ dseed \in Seeds \cup {""}
    /\ dthreads \in {0} \cup {Threads[a] : a \in Algos}
    /\ currentAlgo \in Algos /\ preallocated \in BOOLEAN /\ devFeeEnabled \in BOOLEAN

CallTypes ==
    /\ inst \in [Ids -> Insts] /\ call \in Calls
    /\ config \in Algos /\ ok \in BOOLEAN
    /\ step \in {"free", "cacheMem", "cache", "dataMem", "dataset", "vms", "revms", "return",
                 "hung"}
    /\ hugePages \in BOOLEAN /\ misfreed \in BOOLEAN
    /\ leaked \in [Ids -> BOOLEAN] /\ reinitFailed \in [Ids -> BOOLEAN]

LEMMA TypeParts == TypeOK <=> ThreadTypes /\ CallTypes
  BY DEF TypeOK, ThreadTypes, CallTypes

\* The members of a record of each kind.
LEMMA InstFields ==
    ASSUME NEW r \in Insts
    PROVE  /\ r.ready \in BOOLEAN /\ r.seed \in Seeds \cup {BenchSeed, ""} /\ r.algo \in Algos
           /\ r.vms \in {0} \cup {Threads[a] : a \in Algos}
           /\ r.cache \in Caches \cup {None} /\ r.dataset \in Caches \cup {None}
           /\ r.cacheMem \in Mems /\ r.dataMem \in Mems
           /\ r.cacheHuge \in BOOLEAN /\ r.dataHuge \in BOOLEAN
  BY DEF Insts

LEMMA CallFields ==
    ASSUME NEW c \in Calls
    PROVE  /\ c.by \in {"none", "main", "init", "dev"} /\ c.id \in Ids
           /\ c.seed \in Seeds \cup {BenchSeed, ""} /\ c.algo \in Algos
           /\ c.vms \in {0} \cup {Threads[a] : a \in Algos} /\ c.huge \in BOOLEAN
  BY DEF Calls

\* The types of a call at work.
LEMMA Typed ==
    ASSUME TypeOK
    PROVE  /\ call \in Calls /\ call.id \in Ids /\ Me \in Insts
           /\ \A i \in Ids : inst[i] \in Insts
  BY CallFields DEF TypeOK, Me

LEMMA AskedVms == \A a \in Algos : Threads[a] \in Nat /\ Threads[a] > 0
  BY ThreadsAssumption

LEMMA Changed ==
    ASSUME TypeOK, NEW new \in Insts, Become(new)
    PROVE  /\ inst' \in [Ids -> Insts] /\ inst'[call.id] = new
           /\ \A i \in Ids : i # call.id => inst'[i] = inst[i]
  BY Typed DEF Become, TypeOK

\* What a step inside init or reinit has to show.
LEMMA StepInv ==
    ASSUME IInv, step \in InitSteps \cup {"revms"},
           NEW new \in Insts, Become(new),
           UNCHANGED <<config, threadVars, hugePages, reinitFailed>>,
           call' = call \/ call' = [call EXCEPT !.huge = FALSE],
           step' \in InitSteps \cup {"return", "hung"}, ok' \in BOOLEAN,
           leaked' \in [Ids -> BOOLEAN], misfreed' \in BOOLEAN,
           WorkInv', HeapInv', step' = "return" => RestInv(call.id)'
    PROVE  IInv'
<1>1. TypeOK
  BY DEF IInv
<1>2. /\ inst' \in [Ids -> Insts] /\ inst'[call.id] = new
      /\ \A i \in Ids : i # call.id => inst'[i] = inst[i]
  BY <1>1, Changed
<1>3. call' \in Calls /\ call'.id = call.id /\ call'.by = call.by
  BY <1>1, Typed DEF Calls
<1>t. ThreadTypes /\ CallTypes /\ CallerInv
  BY TypeParts DEF IInv
<1>4. ThreadTypes' /\ CallerInv'
  BY <1>t, <1>3 DEF ThreadTypes, CallerInv, threadVars, initVars, devVars, feeVars
<1>5. CallTypes'
  <2>1. step' \in {"free", "cacheMem", "cache", "dataMem", "dataset", "vms", "revms", "return",
                  "hung"}
    BY DEF InitSteps
  <2> QED BY <1>t, <1>2, <1>3, <2>1 DEF CallTypes
<1>6. ASSUME NEW i \in Ids, AtRest(i)' PROVE RestInv(i)'
  <2>1. CASE i = call.id
    BY <2>1, <1>3, <1>6 DEF AtRest, InitSteps
  <2>2. CASE i # call.id
    <3>1. AtRest(i) /\ inst'[i] = inst[i]
      BY <2>2, <1>2 DEF AtRest
    <3>2. RestInv(i)
      BY <3>1 DEF IInv
    <3> QED BY <3>1, <3>2 DEF RestInv, Complete, Clean, FreedRight
  <2> QED BY <2>1, <2>2
<1>7. TypeOK'
  BY <1>4, <1>5, TypeParts, PTL
<1> QED BY <1>4, <1>6, <1>7 DEF IInv
-----------------------------------------------------------------------------
(* The steps of init.                                                       *)

\* What the proofs of the single steps start from.
LEMMA AtWork ==
    ASSUME IInv, step \in InitSteps
    PROVE  /\ TypeOK /\ HeapInv /\ Taken /\ (~reinitFailed[call.id] => NotTaken)
           /\ call \in Calls /\ call.id \in Ids /\ Me \in Insts
           /\ reinitFailed \in [Ids -> BOOLEAN] /\ leaked \in [Ids -> BOOLEAN]
           /\ misfreed \in BOOLEAN /\ ok \in BOOLEAN /\ hugePages \in BOOLEAN
           /\ inst \in [Ids -> Insts] /\ config \in Algos
<1>1. TypeOK /\ HeapInv /\ WorkInv
  BY DEF IInv
<1> QED BY <1>1, Typed DEF WorkInv, TypeOK

\* What is overwritten is not lost where nothing was there.
LEMMA HeapKept ==
    ASSUME TypeOK, HeapInv, UNCHANGED reinitFailed,
           NEW lost \in BOOLEAN, Overwrite(lost), ~reinitFailed[call.id] => ~lost,
           NEW wrong \in BOOLEAN, misfreed' = (misfreed \/ wrong),
           ~reinitFailed[call.id] => ~wrong
    PROVE  HeapInv' /\ leaked' \in [Ids -> BOOLEAN] /\ misfreed' \in BOOLEAN
<1>1. call.id \in Ids /\ leaked \in [Ids -> BOOLEAN] /\ misfreed \in BOOLEAN
  BY Typed DEF TypeOK
<1>2. leaked' \in [Ids -> BOOLEAN] /\ misfreed' \in BOOLEAN
  BY <1>1 DEF Overwrite
<1>3. ASSUME NEW i \in Ids, ~reinitFailed[i] PROVE ~leaked'[i]
  BY <1>1, <1>3 DEF HeapInv, Overwrite
<1>4. ASSUME \A i \in Ids : ~reinitFailed[i] PROVE ~misfreed'
  BY <1>1, <1>4 DEF HeapInv
<1> QED BY <1>2, <1>3, <1>4 DEF HeapInv

LEMMA HugeCacheMemInv ==
    ASSUME IInv, HugeCacheMem PROVE IInv'
<1> DEFINE new == [Me EXCEPT !.cacheMem = "huge", !.cacheHuge = TRUE]
<1>1. step = "cacheMem" /\ step' = "cache" /\ UNCHANGED <<call, config, threadVars, hugePages,
                                                      reinitFailed, ok, misfreed>>
  BY DEF HugeCacheMem, InCall
<1>2. step \in InitSteps
  BY <1>1 DEF InitSteps
<1> USE <1>1, <1>2, AtWork
<1>3. new \in Insts /\ Become(new) /\ Overwrite(Me.cacheMem # "none")
  BY DEF HugeCacheMem, Insts, Mems
<1>4. Me' = new
  BY <1>3, Changed DEF Me
<1>5. HeapInv' /\ leaked' \in [Ids -> BOOLEAN] /\ misfreed' \in BOOLEAN
  <2>1. ~reinitFailed[call.id] => ~(Me.cacheMem # "none")
    BY DEF NotTaken
  <2>2. misfreed' = (misfreed \/ FALSE)
    OBVIOUS
  <2> QED BY <1>3, <2>1, <2>2, HeapKept
<1>6. Taken'
  BY <1>4 DEF Taken, Insts
<1>7. ~reinitFailed[call.id] => NotTaken'
  BY <1>4 DEF NotTaken, Insts, Fits
<1>8. WorkInv'
  BY <1>6, <1>7 DEF WorkInv
<1> QED BY <1>3, <1>5, <1>8, StepInv DEF InitSteps

LEMMA HeapCacheMemInv ==
    ASSUME IInv, HeapCacheMem PROVE IInv'
<1> DEFINE new == [Me EXCEPT !.cacheMem = IF call.huge \/ @ = "none" THEN "heap" ELSE @,
                               !.cacheHuge = FALSE]
<1>1. /\ step = "cacheMem" /\ step' = "cache" /\ UNCHANGED <<ok, misfreed>>
      /\ UNCHANGED <<config, threadVars, hugePages, reinitFailed>>
      /\ call' = [call EXCEPT !.huge = FALSE]
  BY DEF HeapCacheMem, InCall
<1>2. step \in InitSteps
  BY <1>1 DEF InitSteps
<1> USE <1>1, <1>2, AtWork
<1>3. new \in Insts /\ Become(new) /\ Overwrite(call.huge /\ Me.cacheMem # "none")
  BY DEF HeapCacheMem, Insts, Mems, Taken
<1>4. /\ Me' = new /\ inst'[call.id] = new
      /\ call'.id = call.id /\ call'.vms = call.vms /\ call'.algo = call.algo
      /\ call'.seed = call.seed /\ ~call'.huge
  BY <1>3, Changed DEF Me, Calls
<1>5. HeapInv' /\ leaked' \in [Ids -> BOOLEAN] /\ misfreed' \in BOOLEAN
  <2>1. ~reinitFailed[call.id] => ~(call.huge /\ Me.cacheMem # "none")
    BY DEF NotTaken
  <2>2. misfreed' = (misfreed \/ FALSE)
    OBVIOUS
  <2> QED BY <1>3, <2>1, <2>2, HeapKept
<1>6. Taken'
  BY <1>4 DEF Taken, Insts
<1>7. ~reinitFailed[call.id] => NotTaken'
  BY <1>4 DEF NotTaken, Insts, Fits
<1>8. WorkInv'
  BY <1>4, <1>6, <1>7 DEF WorkInv
<1> QED BY <1>3, <1>5, <1>8, StepInv DEF InitSteps

LEMMA NoCacheMemInv ==
    ASSUME IInv, NoCacheMem PROVE IInv'
<1> DEFINE new == [Me EXCEPT !.cacheMem = "none"]
<1>1. /\ step = "cacheMem" /\ step' = "return" /\ UNCHANGED <<call, misfreed>>
      /\ UNCHANGED <<config, threadVars, hugePages, reinitFailed>>
      /\ ok' = FALSE
  BY DEF NoCacheMem, InCall, Return
<1>2. step \in InitSteps
  BY <1>1 DEF InitSteps
<1> USE <1>1, <1>2, AtWork
<1>3. new \in Insts /\ Become(new) /\ Overwrite(Me.cacheMem # "none")
  BY DEF NoCacheMem, Insts, Mems, Taken
<1>4. Me' = new /\ inst'[call.id] = new /\ call'.id = call.id
  BY <1>3, Changed DEF Me
<1>5. HeapInv' /\ leaked' \in [Ids -> BOOLEAN] /\ misfreed' \in BOOLEAN
  <2>1. ~reinitFailed[call.id] => ~(Me.cacheMem # "none")
    BY DEF NotTaken
  <2>2. misfreed' = (misfreed \/ FALSE)
    OBVIOUS
  <2> QED BY <1>3, <2>1, <2>2, HeapKept
<1>6. RestInv(call.id)'
  BY <1>4 DEF RestInv, Clean, FreedRight, Fits, Taken, NotTaken, Insts
<1>8. WorkInv'
  BY DEF WorkInv, InitSteps
<1> QED BY <1>3, <1>4, <1>5, <1>6, <1>8, StepInv DEF InitSteps

LEMMA CreateCacheInv ==
    ASSUME IInv, CreateCache PROVE IInv'
<1> DEFINE new == [Me EXCEPT !.cache = [seed |-> call.seed, config |-> config]]
<1>1. /\ step = "cache" /\ step' = "dataMem" /\ UNCHANGED <<call, ok, misfreed>>
      /\ UNCHANGED <<config, threadVars, hugePages, reinitFailed>>
  BY DEF CreateCache, InCall
<1>2. step \in InitSteps
  BY <1>1 DEF InitSteps
<1> USE <1>1, <1>2, AtWork
<1>3. new \in Insts /\ Become(new) /\ Overwrite(Me.cache # None)
  BY CacheTyped DEF CreateCache, Insts, Taken
<1>4. Me' = new /\ inst'[call.id] = new /\ call'.id = call.id
  BY <1>3, Changed DEF Me
<1>5. HeapInv' /\ leaked' \in [Ids -> BOOLEAN] /\ misfreed' \in BOOLEAN
  <2>1. ~reinitFailed[call.id] => ~(Me.cache # None)
    BY DEF NotTaken
  <2>2. misfreed' = (misfreed \/ FALSE)
    OBVIOUS
  <2> QED BY <1>3, <2>1, <2>2, HeapKept
<1>6. Taken'
  BY <1>4 DEF Taken, Insts
<1>7. ~reinitFailed[call.id] => NotTaken'
  BY <1>4 DEF NotTaken, Insts, Fits
<1>8. WorkInv'
  BY <1>4, <1>6, <1>7 DEF WorkInv
<1> QED BY <1>3, <1>5, <1>8, StepInv DEF InitSteps

LEMMA CacheFailsInv ==
    ASSUME IInv, CacheFails PROVE IInv'
<1> DEFINE new == [Me EXCEPT !.cache = None, !.cacheMem = "none"]
<1>1. /\ step = "cache" /\ step' = "return" /\ UNCHANGED <<call>>
      /\ UNCHANGED <<config, threadVars, hugePages, reinitFailed>>
      /\ ok' = FALSE
  BY DEF CacheFails, InCall, Return
<1>2. step \in InitSteps
  BY <1>1 DEF InitSteps
<1> USE <1>1, <1>2, AtWork
<1>3. new \in Insts /\ Become(new) /\ Overwrite(Me.cache # None)
  BY DEF CacheFails, Insts, Mems, Taken
<1>4. Me' = new /\ inst'[call.id] = new /\ call'.id = call.id
  BY <1>3, Changed DEF Me
<1>5. HeapInv' /\ leaked' \in [Ids -> BOOLEAN] /\ misfreed' \in BOOLEAN
  <2>1. ~reinitFailed[call.id] => ~(Me.cache # None)
    BY DEF NotTaken
  <2>2. misfreed' = (misfreed \/ (~Fits(Me.cacheMem, Me.cacheHuge)))
    BY DEF CacheFails
  <2>3. ~reinitFailed[call.id] => ~(~Fits(Me.cacheMem, Me.cacheHuge))
    BY DEF NotTaken, Fits
  <2>4. (~Fits(Me.cacheMem, Me.cacheHuge)) \in BOOLEAN
    BY DEF Fits
  <2> QED BY <1>3, <2>1, <2>2, <2>3, <2>4, HeapKept
<1>6. RestInv(call.id)'
  BY <1>4 DEF RestInv, Clean, FreedRight, Fits, Taken, NotTaken, Insts
<1>8. WorkInv'
  BY DEF WorkInv, InitSteps
<1> QED BY <1>3, <1>4, <1>5, <1>6, <1>8, StepInv DEF InitSteps

LEMMA HugeDataMemInv ==
    ASSUME IInv, HugeDataMem PROVE IInv'
<1> DEFINE new == [Me EXCEPT !.dataMem = "huge"]
<1>1. /\ step = "dataMem" /\ step' = "dataset" /\ UNCHANGED <<call, ok, misfreed>>
      /\ UNCHANGED <<config, threadVars, hugePages, reinitFailed>>
  BY DEF HugeDataMem, InCall
<1>2. step \in InitSteps
  BY <1>1 DEF InitSteps
<1> USE <1>1, <1>2, AtWork
<1>3. new \in Insts /\ Become(new) /\ Overwrite(Me.dataMem # "none")
  BY DEF HugeDataMem, Insts, Mems, Taken
<1>4. Me' = new /\ inst'[call.id] = new /\ call'.id = call.id
  BY <1>3, Changed DEF Me
<1>5. HeapInv' /\ leaked' \in [Ids -> BOOLEAN] /\ misfreed' \in BOOLEAN
  <2>1. ~reinitFailed[call.id] => ~(Me.dataMem # "none")
    BY DEF NotTaken
  <2>2. misfreed' = (misfreed \/ FALSE)
    OBVIOUS
  <2> QED BY <1>3, <2>1, <2>2, HeapKept
<1>6. Taken'
  BY <1>4 DEF Taken, Insts
<1>7. ASSUME ~reinitFailed[call.id] PROVE NotTaken'
  <2>1. NotTaken
    BY <1>7
  <2>2. Me'.dataMem = "huge" /\ call'.huge
    BY <1>4, <2>1 DEF HugeDataMem, Insts
  <2>3. UNCHANGED <<Me.vms, Me.cacheMem, Me.cacheHuge, Me.dataset>>
    BY <1>4 DEF Insts
  <2> QED BY <2>1, <2>2, <2>3 DEF NotTaken, Fits
<1>8. WorkInv'
  BY <1>4, <1>6, <1>7 DEF WorkInv
<1> QED BY <1>3, <1>5, <1>8, StepInv DEF InitSteps

LEMMA HeapDataMemInv ==
    ASSUME IInv, HeapDataMem PROVE IInv'
<1> DEFINE new == [Me EXCEPT !.dataMem = IF call.huge \/ @ = "none" THEN "heap" ELSE @]
<1>1. /\ step = "dataMem" /\ step' = "dataset" /\ UNCHANGED <<ok, misfreed>>
      /\ UNCHANGED <<config, threadVars, hugePages, reinitFailed>>
      /\ call' = [call EXCEPT !.huge = FALSE]
  BY DEF HeapDataMem, InCall
<1>2. step \in InitSteps
  BY <1>1 DEF InitSteps
<1> USE <1>1, <1>2, AtWork
<1>3. new \in Insts /\ Become(new) /\ Overwrite(call.huge /\ Me.dataMem # "none")
  BY DEF HeapDataMem, Insts, Mems, Taken
<1>4. /\ Me' = new /\ inst'[call.id] = new
      /\ call'.id = call.id /\ call'.vms = call.vms /\ call'.algo = call.algo
      /\ call'.seed = call.seed /\ ~call'.huge
  BY <1>3, Changed DEF Me, Calls
<1>5. HeapInv' /\ leaked' \in [Ids -> BOOLEAN] /\ misfreed' \in BOOLEAN
  <2>1. ~reinitFailed[call.id] => ~(call.huge /\ Me.dataMem # "none")
    BY DEF NotTaken
  <2>2. misfreed' = (misfreed \/ FALSE)
    OBVIOUS
  <2> QED BY <1>3, <2>1, <2>2, HeapKept
<1>6. Taken'
  BY <1>4 DEF Taken, Insts
<1>7. ASSUME ~reinitFailed[call.id] PROVE NotTaken'
  <2>1. NotTaken
    BY <1>7
  <2>2. Me'.dataMem = "heap" /\ ~call'.huge
    BY <1>4, <2>1 DEF NotTaken, Insts
  <2>3. UNCHANGED <<Me.vms, Me.cacheMem, Me.cacheHuge, Me.dataset>>
    BY <1>4 DEF Insts
  <2> QED BY <2>1, <2>2, <2>3 DEF NotTaken, Fits
<1>8. WorkInv'
  BY <1>4, <1>6, <1>7 DEF WorkInv
<1> QED BY <1>3, <1>5, <1>8, StepInv DEF InitSteps

LEMMA NoDataMemInv ==
    ASSUME IInv, NoDataMem PROVE IInv'
<1> DEFINE new == [Me EXCEPT !.dataMem = "none", !.cache = None, !.cacheMem = "none"]
<1>1. /\ step = "dataMem" /\ step' = "return" /\ UNCHANGED <<call>>
      /\ UNCHANGED <<config, threadVars, hugePages, reinitFailed>>
      /\ ok' = FALSE
  BY DEF NoDataMem, InCall, Return
<1>2. step \in InitSteps
  BY <1>1 DEF InitSteps
<1> USE <1>1, <1>2, AtWork
<1>3. new \in Insts /\ Become(new) /\ Overwrite(Me.dataMem # "none")
  BY DEF NoDataMem, Insts, Mems, Taken
<1>4. Me' = new /\ inst'[call.id] = new /\ call'.id = call.id
  BY <1>3, Changed DEF Me
<1>5. HeapInv' /\ leaked' \in [Ids -> BOOLEAN] /\ misfreed' \in BOOLEAN
  <2>1. ~reinitFailed[call.id] => ~(Me.dataMem # "none")
    BY DEF NotTaken
  <2>2. misfreed' = (misfreed \/ (~Fits(Me.cacheMem, Me.cacheHuge)))
    BY DEF NoDataMem
  <2>3. ~reinitFailed[call.id] => ~(~Fits(Me.cacheMem, Me.cacheHuge))
    BY DEF NotTaken, Fits
  <2>4. (~Fits(Me.cacheMem, Me.cacheHuge)) \in BOOLEAN
    BY DEF Fits
  <2> QED BY <1>3, <2>1, <2>2, <2>3, <2>4, HeapKept
<1>6. RestInv(call.id)'
  BY <1>4 DEF RestInv, Clean, FreedRight, Fits, Taken, NotTaken, Insts
<1>8. WorkInv'
  BY DEF WorkInv, InitSteps
<1> QED BY <1>3, <1>4, <1>5, <1>6, <1>8, StepInv DEF InitSteps

LEMMA CreateDatasetInv ==
    ASSUME IInv, CreateDataset PROVE IInv'
<1> DEFINE new == [Me EXCEPT !.dataset = Me.cache, !.dataHuge = call.huge]
<1>1. /\ step = "dataset" /\ step' = "vms" /\ UNCHANGED <<call, ok, misfreed>>
      /\ UNCHANGED <<config, threadVars, hugePages, reinitFailed>>
  BY DEF CreateDataset, InCall
<1>2. step \in InitSteps
  BY <1>1 DEF InitSteps
<1> USE <1>1, <1>2, AtWork
<1>3. new \in Insts /\ Become(new) /\ Overwrite(Me.dataset # None)
  BY DEF CreateDataset, Insts, Calls
<1>4. Me' = new /\ inst'[call.id] = new /\ call'.id = call.id
  BY <1>3, Changed DEF Me
<1>5. HeapInv' /\ leaked' \in [Ids -> BOOLEAN] /\ misfreed' \in BOOLEAN
  <2>1. ~reinitFailed[call.id] => ~(Me.dataset # None)
    BY DEF NotTaken
  <2>2. misfreed' = (misfreed \/ FALSE)
    OBVIOUS
  <2> QED BY <1>3, <2>1, <2>2, HeapKept
<1>6. Taken'
  BY <1>4 DEF Taken, Insts
<1>7. ~reinitFailed[call.id] => NotTaken'
  BY <1>4 DEF NotTaken, Insts, Fits
<1>8. WorkInv'
  BY <1>4, <1>6, <1>7 DEF WorkInv
<1> QED BY <1>3, <1>5, <1>8, StepInv DEF InitSteps

LEMMA DatasetFailsInv ==
    ASSUME IInv, DatasetFails PROVE IInv'
<1> DEFINE new == [Me EXCEPT !.dataset = None, !.cache = None, !.dataMem = "none",
                               !.cacheMem = "none"]
<1>1. /\ step = "dataset" /\ step' = "return" /\ UNCHANGED <<call>>
      /\ UNCHANGED <<config, threadVars, hugePages, reinitFailed>>
      /\ ok' = FALSE
  BY DEF DatasetFails, InCall, Return
<1>2. step \in InitSteps
  BY <1>1 DEF InitSteps
<1> USE <1>1, <1>2, AtWork
<1>3. new \in Insts /\ Become(new) /\ Overwrite(Me.dataset # None)
  BY DEF DatasetFails, Insts, Mems, Taken
<1>4. Me' = new /\ inst'[call.id] = new /\ call'.id = call.id
  BY <1>3, Changed DEF Me
<1>5. HeapInv' /\ leaked' \in [Ids -> BOOLEAN] /\ misfreed' \in BOOLEAN
  <2>1. ~reinitFailed[call.id] => ~(Me.dataset # None)
    BY DEF NotTaken
  <2>2. misfreed' = (misfreed \/ (~Fits(Me.dataMem, call.huge) \/ ~Fits(Me.cacheMem, Me.cacheHuge)))
    BY DEF DatasetFails
  <2>3. ~reinitFailed[call.id] =>
          ~(~Fits(Me.dataMem, call.huge) \/ ~Fits(Me.cacheMem, Me.cacheHuge))
    BY DEF NotTaken, Fits
  <2>4. (~Fits(Me.dataMem, call.huge) \/ ~Fits(Me.cacheMem, Me.cacheHuge)) \in BOOLEAN
    BY DEF Fits
  <2> QED BY <1>3, <2>1, <2>2, <2>3, <2>4, HeapKept
<1>6. RestInv(call.id)'
  BY <1>4 DEF RestInv, Clean, FreedRight, Fits, Taken, NotTaken, Insts
<1>8. WorkInv'
  BY DEF WorkInv, InitSteps
<1> QED BY <1>3, <1>4, <1>5, <1>6, <1>8, StepInv DEF InitSteps

LEMMA CreateVMsInv ==
    ASSUME IInv, CreateVMs PROVE IInv'
<1> DEFINE new == [Me EXCEPT !.vms = call.vms, !.ready = TRUE]
<1>1. /\ step = "vms" /\ step' = "return" /\ UNCHANGED <<call, leaked, misfreed>>
      /\ UNCHANGED <<config, threadVars, hugePages, reinitFailed>>
      /\ ok' = TRUE
  BY DEF CreateVMs, InCall, Return
<1>2. step \in InitSteps
  BY <1>1 DEF InitSteps
<1> USE <1>1, <1>2, AtWork
<1>3. new \in Insts /\ Become(new)
  BY DEF CreateVMs, Insts, Calls
<1>4. Me' = new /\ inst'[call.id] = new /\ call'.id = call.id
  BY <1>3, Changed DEF Me
<1>5. HeapInv' /\ leaked' \in [Ids -> BOOLEAN] /\ misfreed' \in BOOLEAN
  BY DEF HeapInv
<1>6. RestInv(call.id)'
  <2>1. /\ new.ready /\ new.vms = call.vms
        /\ new.seed = Me.seed /\ new.algo = Me.algo /\ new.cache = Me.cache
        /\ new.dataset = Me.dataset /\ new.cacheMem = Me.cacheMem
        /\ new.dataMem = Me.dataMem /\ new.cacheHuge = Me.cacheHuge
        /\ new.dataHuge = Me.dataHuge
    BY DEF Insts
  <2>2. Complete(call.id)'
    <3>1. Taken /\ call.seed \in Seeds \cup {BenchSeed} /\ call.algo \in Algos
      BY CallFields DEF Taken
    <3>2. Me.cache # None /\ Me.cache.seed = Me.seed /\ Me.cache.config = Me.algo
      BY <3>1, CacheTyped DEF Taken
    <3> QED BY <1>4, <2>1, <3>1, <3>2 DEF Complete, Taken
  <2>3. ~reinitFailed[call.id] => FreedRight(call.id)'
    BY <1>4, <2>1 DEF FreedRight, NotTaken
  <2> QED BY <1>4, <2>1, <2>2, <2>3 DEF RestInv
<1>8. WorkInv'
  BY DEF WorkInv, InitSteps
<1> QED BY <1>3, <1>4, <1>5, <1>6, <1>8, StepInv DEF InitSteps

LEMMA VMsFailInv ==
    ASSUME IInv, VMsFail PROVE IInv'
<1>1. /\ step = "vms" /\ step' = "hung" /\ UNCHANGED <<inst, call, ok, leaked, misfreed>>
      /\ UNCHANGED <<config, threadVars, hugePages, reinitFailed>>
  BY DEF VMsFail, InCall
<1>2. step \in InitSteps
  BY <1>1 DEF InitSteps
<1> USE <1>1, <1>2, AtWork
<1>3. Become(Me)
  BY DEF Become, Me
<1>4. WorkInv'
  BY DEF WorkInv, InitSteps
<1>5. HeapInv' /\ leaked' \in [Ids -> BOOLEAN] /\ misfreed' \in BOOLEAN /\ ok' \in BOOLEAN
  BY DEF HeapInv
<1>6. step' # "return" /\ step' \in InitSteps \cup {"return", "hung"}
  OBVIOUS
<1> QED BY <1>3, <1>4, <1>5, <1>6, StepInv
-----------------------------------------------------------------------------
(* The steps of reinit.                                                     *)

LEMMA RecreateVMsInv ==
    ASSUME IInv, RecreateVMs PROVE IInv'
<1> DEFINE new == [Me EXCEPT !.vms = call.vms, !.ready = TRUE]
<1>1. /\ step = "revms" /\ step' = "return" /\ ok' = TRUE /\ UNCHANGED <<call, leaked, misfreed>>
      /\ UNCHANGED <<config, threadVars, hugePages, reinitFailed>> /\ Become(new)
  BY DEF RecreateVMs, InCall, Return
<1>2. /\ TypeOK /\ HeapInv /\ Emptied /\ (~reinitFailed[call.id] => FreedRight(call.id))
      /\ call \in Calls /\ Me \in Insts
  BY <1>1, Typed DEF IInv, WorkInv
<1>3. new \in Insts
  BY <1>2 DEF Insts, Calls
<1>4. inst'[call.id] = new /\ call.id = "Dev"
  BY <1>1, <1>2, <1>3, Changed DEF Emptied
<1>5. HeapInv' /\ leaked' \in [Ids -> BOOLEAN] /\ misfreed' \in BOOLEAN
  BY <1>1, <1>2 DEF HeapInv, TypeOK
<1>6. RestInv(call.id)'
  <2>1. /\ new.ready /\ new.vms = call.vms
        /\ new.seed = Me.seed /\ new.cache = Me.cache
        /\ new.dataset = Me.dataset /\ new.cacheMem = Me.cacheMem
        /\ new.dataMem = Me.dataMem /\ new.cacheHuge = Me.cacheHuge
        /\ new.dataHuge = Me.dataHuge
    BY <1>2 DEF Insts
  <2>2. Complete(call.id)'
    BY <1>1, <1>2, <1>4, <2>1 DEF Complete, Emptied
  <2>3. ~reinitFailed'[call.id] => FreedRight(call.id)'
    BY <1>1, <1>2, <1>4, <2>1 DEF FreedRight, Me
  <2> QED BY <1>1, <1>4, <2>1, <2>2, <2>3 DEF RestInv
<1>7. WorkInv'
  BY <1>1 DEF WorkInv, InitSteps
<1> QED BY <1>1, <1>2, <1>3, <1>5, <1>6, <1>7, StepInv

\* The one step that changes the history of failed reinits.
LEMMA RecreateFailsInv ==
    ASSUME IInv, RecreateFails PROVE IInv'
<1>1. /\ step = "revms" /\ step' = "return" /\ ok' = FALSE
      /\ UNCHANGED <<inst, config, threadVars, hugePages, call, leaked, misfreed>>
      /\ reinitFailed' = [reinitFailed EXCEPT ![call.id] = TRUE]
  BY DEF RecreateFails, Return
<1>2. TypeOK /\ HeapInv /\ CallerInv /\ Emptied /\ call.id \in Ids /\ Me = inst[call.id]
  BY <1>1, Typed DEF IInv, WorkInv, Me
<1>3. /\ reinitFailed' \in [Ids -> BOOLEAN] /\ reinitFailed'[call.id]
      /\ \A i \in Ids : ~reinitFailed'[i] => ~reinitFailed[i] /\ i # call.id
  BY <1>1, <1>2 DEF TypeOK
<1>t. ThreadTypes /\ CallTypes
  BY <1>2, TypeParts
<1>4. ThreadTypes' /\ CallerInv'
  BY <1>1, <1>2, <1>t DEF ThreadTypes, CallerInv, threadVars, initVars, devVars, feeVars
<1>5. CallTypes'
  BY <1>1, <1>t, <1>3 DEF CallTypes
<1>6. HeapInv'
  BY <1>1, <1>2, <1>3 DEF HeapInv
<1>7. ASSUME NEW i \in Ids PROVE RestInv(i)'
  <2>1. CASE i = call.id
    BY <1>1, <1>2, <1>3, <2>1 DEF RestInv, Emptied
  <2>2. CASE i # call.id
    <3>1. RestInv(i)
      BY <2>2 DEF IInv, AtRest
    <3> QED BY <1>1, <1>3, <3>1 DEF RestInv, Complete, Clean, FreedRight
  <2> QED BY <2>1, <2>2
<1>8. WorkInv'
  BY <1>1 DEF WorkInv, InitSteps
<1>9. TypeOK'
  BY <1>4, <1>5, TypeParts, PTL
<1> QED BY <1>4, <1>6, <1>7, <1>8, <1>9 DEF IInv
-----------------------------------------------------------------------------
(* The calls.                                                               *)

\* A step that touches neither the instances nor the call keeps what they are.
LEMMA CallKept ==
    ASSUME IInv, UNCHANGED <<inst, config, leaked, misfreed, reinitFailed>>,
           \/ UNCHANGED <<call, step>>
           \/ step = "return" /\ step' = "free"
    PROVE  HeapInv' /\ (\A i \in Ids : AtRest(i)' => RestInv(i)') /\ WorkInv'
<1>1. HeapInv'
  BY DEF IInv, HeapInv
<1>2. ASSUME NEW i \in Ids, AtRest(i)' PROVE RestInv(i)'
  <2>1. AtRest(i)
    BY <1>2 DEF AtRest
  <2>2. RestInv(i)
    BY <2>1 DEF IInv
  <2> QED BY <2>2 DEF RestInv, Complete, Clean, FreedRight
<1>3. WorkInv'
  <2>1. CASE UNCHANGED <<call, step>>
    BY <2>1 DEF IInv, WorkInv, Taken, NotTaken, Emptied, FreedRight, Me
  <2>2. CASE step' = "free"
    BY <2>2 DEF WorkInv, InitSteps
  <2> QED BY <2>1, <2>2
<1> QED BY <1>1, <1>2, <1>3

\* An instance at rest is freed the way it was allocated.
LEMMA RestFreed ==
    ASSUME IInv, step = "free", NEW i \in Ids
    PROVE  ~reinitFailed[i] => FreedRight(i)
  BY DEF IInv, RestInv, AtRest

LEMMA EmptyRests ==
    ASSUME NEW i \in Ids, NEW a \in Algos, inst'[i] = Empty(a)
    PROVE  RestInv(i)'
<1>1. /\ ~Empty(a).ready /\ Empty(a).cache = None /\ Empty(a).dataset = None
      /\ Empty(a).vms = 0 /\ Empty(a).cacheMem = "none" /\ Empty(a).dataMem = "none"
  BY DEF Empty
<1> QED BY <1>1 DEF RestInv, Clean, FreedRight, Fits

LEMMA ReleaseInv ==
    ASSUME IInv, NEW X \in SUBSET Ids, Release(X)
    PROVE  /\ HeapInv' /\ (\A i \in Ids : AtRest(i)' => RestInv(i)') /\ WorkInv'
           /\ inst' \in [Ids -> Insts] /\ misfreed' \in BOOLEAN
<1>1. /\ step = "free" /\ UNCHANGED <<config, lockVars, hugePages, leaked, reinitFailed>>
      /\ inst' = [i \in Ids |-> IF i \in X THEN Empty(DevAlgo) ELSE inst[i]]
      /\ misfreed' = (misfreed \/ \E i \in X : ~FreedRight(i))
  BY DEF Release
<1>2. TypeOK /\ HeapInv
  BY DEF IInv
<1>3. misfreed' \in BOOLEAN
  BY <1>1, <1>2 DEF TypeOK
<1>4. inst' \in [Ids -> Insts]
  BY <1>1, Typed, <1>2, EmptyTyped, AlgosAssumption
<1>5. HeapInv'
  BY <1>1, <1>2, RestFreed DEF HeapInv
<1>6. ASSUME NEW i \in Ids PROVE RestInv(i)'
  <2>1. CASE i \in X
    BY <1>1, <2>1, AlgosAssumption, EmptyRests
  <2>2. CASE i \notin X
    <3>1. RestInv(i) /\ inst'[i] = inst[i]
      BY <1>1, <2>2 DEF IInv, AtRest
    <3> QED BY <1>1, <3>1 DEF RestInv, Complete, Clean, FreedRight
  <2> QED BY <2>1, <2>2
<1>7. WorkInv'
  BY <1>1 DEF WorkInv, InitSteps, lockVars
<1> QED BY <1>3, <1>4, <1>5, <1>6, <1>7

LEMMA BeginInitInv ==
    ASSUME IInv, NEW by \in {"main", "init", "dev"}, NEW id \in Ids,
           NEW s \in Seeds \cup {BenchSeed}, NEW a \in Algos,
           NEW n \in {Threads[b] : b \in Algos}, n > 0, id = "User" => n = Threads[a],
           BeginInit(by, id, s, a, n), hugePages' = hugePages
    PROVE  /\ HeapInv' /\ (\A i \in Ids : AtRest(i)' => RestInv(i)') /\ WorkInv'
           /\ inst' \in [Ids -> Insts] /\ call' \in Calls /\ config' \in Algos
           /\ step' \in {"cacheMem", "return"} /\ ok' \in BOOLEAN
           /\ misfreed' \in BOOLEAN /\ UNCHANGED <<leaked, reinitFailed>>
<1> DEFINE old == IF inst[id].ready THEN Empty(a) ELSE inst[id]
           new == [old EXCEPT !.seed = s, !.algo = a]
<1>1. /\ step = "free" /\ UNCHANGED <<leaked, reinitFailed>>
      /\ call' = [by |-> by, id |-> id, seed |-> s, algo |-> a, vms |-> n, huge |-> hugePages]
  BY DEF BeginInit
<1>2. TypeOK /\ HeapInv /\ RestInv(id) /\ inst[id] \in Insts
  BY <1>1, Typed DEF IInv, AtRest
<1>3. call' \in Calls
  BY <1>1, <1>2 DEF Calls, TypeOK
<1>4. CASE SeedValid(id, s) /\ inst[id].algo = a
  <2>1. UNCHANGED <<inst, config, misfreed>> /\ step' = "return" /\ ok' = TRUE
    BY <1>4 DEF BeginInit, Return
  <2>2. HeapInv'
    BY <1>1, <1>2, <2>1 DEF HeapInv
  <2>3. ASSUME NEW i \in Ids PROVE RestInv(i)'
    <3>1. RestInv(i)
      BY <1>1 DEF IInv, AtRest
    <3> QED BY <1>1, <2>1, <3>1 DEF RestInv, Complete, Clean, FreedRight
  <2>4. WorkInv'
    BY <2>1 DEF WorkInv, InitSteps
  <2> QED BY <1>1, <1>2, <1>3, <2>1, <2>2, <2>3, <2>4 DEF TypeOK
<1>5. CASE ~(SeedValid(id, s) /\ inst[id].algo = a)
  <2>1. /\ inst' = [inst EXCEPT ![id] = new] /\ config' = a /\ step' = "cacheMem"
        /\ misfreed' = (misfreed \/ (inst[id].ready /\ ~FreedRight(id))) /\ ok' = ok
    BY <1>5 DEF BeginInit
  <2>2. old \in Insts
    BY <1>2, EmptyTyped
  <2>3. new \in Insts
    BY <2>2 DEF Insts
  <2>4. /\ inst' \in [Ids -> Insts] /\ inst'[id] = new
        /\ \A i \in Ids : i # id => inst'[i] = inst[i]
    BY <1>2, <2>1, <2>3 DEF TypeOK
  <2>5. Me' = new
    BY <1>1, <2>4 DEF Me
  <2>6. misfreed' \in BOOLEAN /\ ok' \in BOOLEAN
    BY <1>2, <2>1, InstFields DEF TypeOK, FreedRight, Fits
  <2>7. HeapInv'
    BY <1>1, <1>2, <2>1, RestFreed DEF HeapInv
  <2>8. ASSUME NEW i \in Ids, AtRest(i)' PROVE RestInv(i)'
    <3>1. i # id /\ RestInv(i)
      BY <1>1, <2>1, <2>8 DEF IInv, AtRest
    <3> QED BY <1>1, <2>4, <3>1 DEF RestInv, Complete, Clean, FreedRight
  <2>9. /\ ~new.ready /\ new.seed = s /\ new.algo = a
    BY <1>2, <2>2 DEF Insts, Empty
  <2>a. Taken'
    BY <1>1, <2>1, <2>5, <2>9 DEF Taken
  <2>b. ASSUME ~reinitFailed[id] PROVE NotTaken'
    <3>1. /\ old.cache = None /\ old.dataset = None /\ old.vms = 0
          /\ old.cacheMem = "none" /\ old.dataMem = "none"
      BY <1>2, <2>b DEF RestInv, Clean, Empty
    <3>2. /\ new.cache = None /\ new.dataset = None /\ new.vms = 0
          /\ new.cacheMem = "none" /\ new.dataMem = "none"
      BY <2>2, <3>1 DEF Insts
    <3> QED BY <2>1, <2>5, <3>2 DEF NotTaken, Fits
  <2>c. WorkInv'
    BY <1>1, <2>1, <2>a, <2>b DEF WorkInv
  <2> QED BY <1>1, <1>3, <2>1, <2>4, <2>6, <2>7, <2>8, <2>c
<1> QED BY <1>4, <1>5

LEMMA BeginReinitInv ==
    ASSUME IInv, NEW s \in Seeds, NEW n \in {Threads[a] : a \in Algos}, n > 0,
           BeginReinit(s, n)
    PROVE  /\ HeapInv' /\ (\A i \in Ids : AtRest(i)' => RestInv(i)') /\ WorkInv'
           /\ inst' \in [Ids -> Insts] /\ call' \in Calls /\ config' \in Algos
           /\ step' \in {"revms", "return"} /\ ok' \in BOOLEAN
           /\ misfreed' \in BOOLEAN /\ UNCHANGED <<leaked, reinitFailed>>
<1> DEFINE dev   == inst["Dev"]
           cache == [seed |-> s, config |-> config]
           new   == [dev EXCEPT !.vms = 0, !.seed = s, !.cache = cache, !.dataset = cache,
                                !.ready = FALSE]
<1>1. /\ step = "free" /\ UNCHANGED <<config, leaked, misfreed, reinitFailed>>
      /\ call' = [by |-> "dev", id |-> "Dev", seed |-> s, algo |-> dev.algo, vms |-> n,
                  huge |-> FALSE]
  BY DEF BeginReinit, heapVars
<1>2. TypeOK /\ HeapInv /\ "Dev" \in Ids /\ dev \in Insts /\ RestInv("Dev")
  BY <1>1, Typed DEF IInv, AtRest, Ids
<1>3. call' \in Calls /\ config' \in Algos /\ misfreed' \in BOOLEAN
  BY <1>1, <1>2, InstFields DEF Calls, TypeOK
<1>4. HeapInv'
  BY <1>1, <1>2 DEF HeapInv
<1>5. CASE ~(dev.ready /\ dev.seed # s)
  <2>1. inst' = inst /\ step' = "return" /\ ok' = dev.ready
    BY <1>5 DEF BeginReinit, Return
  <2>2. ASSUME NEW i \in Ids PROVE RestInv(i)'
    <3>1. RestInv(i)
      BY <1>1 DEF IInv, AtRest
    <3> QED BY <1>1, <2>1, <3>1 DEF RestInv, Complete, Clean, FreedRight
  <2>3. WorkInv'
    BY <2>1 DEF WorkInv, InitSteps
  <2>4. ok' \in BOOLEAN
    BY <1>2, <2>1, InstFields
  <2> QED BY <1>1, <1>2, <1>3, <1>4, <2>1, <2>2, <2>3, <2>4 DEF TypeOK
<1>6. CASE dev.ready /\ dev.seed # s
  <2>1. inst' = [inst EXCEPT !["Dev"] = new] /\ step' = "revms" /\ ok' = ok
    BY <1>6 DEF BeginReinit
  <2>2. cache \in Caches /\ cache # None
    BY <1>2, CacheTyped DEF TypeOK
  <2>3. new \in Insts
    BY <1>2, <2>2 DEF Insts
  <2>4. /\ inst' \in [Ids -> Insts] /\ inst'["Dev"] = new
        /\ \A i \in Ids : i # "Dev" => inst'[i] = inst[i]
    BY <1>2, <2>1, <2>3 DEF TypeOK
  <2>5. Me' = new
    BY <1>1, <2>4 DEF Me
  <2>6. ASSUME NEW i \in Ids, AtRest(i)' PROVE RestInv(i)'
    <3>1. i # "Dev" /\ RestInv(i)
      BY <1>1, <2>1, <2>6 DEF IInv, AtRest
    <3> QED BY <1>1, <2>4, <3>1 DEF RestInv, Complete, Clean, FreedRight
  <2>7. /\ ~new.ready /\ new.seed = s /\ new.cache = cache /\ new.dataset = cache
        /\ new.cacheMem = dev.cacheMem /\ new.dataMem = dev.dataMem
        /\ new.cacheHuge = dev.cacheHuge /\ new.dataHuge = dev.dataHuge
    BY <1>2 DEF Insts
  <2>8. Emptied'
    BY <1>1, <1>2, <1>6, <2>2, <2>5, <2>7 DEF Emptied, RestInv, Complete
  <2>9. ~reinitFailed'["Dev"] => FreedRight("Dev")'
    BY <1>1, <1>2, <2>4, <2>7 DEF RestInv, FreedRight
  <2>a. WorkInv'
    BY <1>1, <2>1, <2>8, <2>9 DEF WorkInv, InitSteps
  <2> QED BY <1>1, <1>2, <1>3, <1>4, <2>1, <2>4, <2>6, <2>a DEF TypeOK
<1> QED BY <1>5, <1>6
-----------------------------------------------------------------------------
(* The callers.                                                             *)

\* What a step of a caller has to show.
LEMMA CallerStep ==
    ASSUME ThreadTypes', CallTypes', CallerInv', HeapInv', WorkInv',
           \A i \in Ids : AtRest(i)' => RestInv(i)'
    PROVE  IInv'
<1>1. TypeOK'
  BY TypeParts, PTL
<1> QED BY <1>1 DEF IInv

LEMMA CallsKept ==
    ASSUME CallTypes, UNCHANGED <<inst, config, hugePages, heapVars>>,
           UNCHANGED lockVars \/ EndCall
    PROVE  CallTypes'
  BY NoCallTyped DEF CallTypes, heapVars, lockVars, EndCall

LEMMA BenchmarkInv ==
    ASSUME IInv, NEW a \in Algos, Benchmark(a) PROVE IInv'
<1>1. /\ UNCHANGED <<threadVars, hugePages>>
      /\ BeginInit("main", "User", BenchSeed, a, Threads[a])
  BY DEF Benchmark
<1>2. ThreadTypes /\ CallTypes /\ CallerInv
  BY TypeParts DEF IInv
<1>3. Threads[a] > 0 /\ Threads[a] \in {Threads[b] : b \in Algos} /\ "User" \in Ids
  BY AskedVms DEF Ids
<1>4. /\ HeapInv' /\ (\A i \in Ids : AtRest(i)' => RestInv(i)') /\ WorkInv'
      /\ inst' \in [Ids -> Insts] /\ call' \in Calls /\ config' \in Algos
      /\ step' \in {"cacheMem", "return"} /\ ok' \in BOOLEAN
      /\ misfreed' \in BOOLEAN /\ UNCHANGED <<leaked, reinitFailed>>
  BY <1>1, <1>3, BeginInitInv
<1>5. CallTypes'
  BY <1>1, <1>2, <1>4 DEF CallTypes
<1>6. call'.by = "main"
  BY <1>1 DEF BeginInit
<1>7. ThreadTypes' /\ CallerInv'
  BY <1>1, <1>2, <1>6 DEF ThreadTypes, CallerInv, threadVars, initVars, devVars, feeVars
<1> QED BY <1>4, <1>5, <1>7, CallerStep

LEMMA BenchmarkBuiltInv ==
    ASSUME IInv, BenchmarkBuilt PROVE IInv'
<1>1. /\ step = "return" /\ step' = "free" /\ EndCall
      /\ UNCHANGED <<inst, config, hugePages, heapVars>>
      /\ UNCHANGED <<initVars, devVars, currentAlgo, feeVars>>
      /\ mpc' \in {"release", "bench"}
  BY DEF BenchmarkBuilt, EndCall
<1>2. ThreadTypes /\ CallTypes /\ CallerInv
  BY TypeParts DEF IInv
<1>3. CallTypes'
  BY <1>1, <1>2, CallsKept
<1>4. HeapInv' /\ (\A i \in Ids : AtRest(i)' => RestInv(i)') /\ WorkInv'
  BY <1>1, CallKept DEF heapVars
<1>5. ThreadTypes' /\ CallerInv'
  BY <1>1, <1>2 DEF ThreadTypes, CallerInv, EndCall, NoCall, initVars, devVars, feeVars
<1> QED BY <1>3, <1>4, <1>5, CallerStep

LEMMA BenchmarkEndsInv ==
    ASSUME IInv, BenchmarkEnds PROVE IInv'
<1>1. /\ Release({"User"}) /\ mpc' = "bench"
      /\ UNCHANGED <<initVars, devVars, currentAlgo, feeVars>>
  BY DEF BenchmarkEnds
<1>2. ThreadTypes /\ CallTypes /\ CallerInv
  BY TypeParts DEF IInv
<1>3. /\ HeapInv' /\ (\A i \in Ids : AtRest(i)' => RestInv(i)') /\ WorkInv'
      /\ inst' \in [Ids -> Insts] /\ misfreed' \in BOOLEAN
  BY <1>1, ReleaseInv DEF Ids
<1>4. CallTypes'
  BY <1>1, <1>2, <1>3 DEF CallTypes, Release, lockVars
<1>5. ThreadTypes' /\ CallerInv'
  BY <1>1, <1>2 DEF ThreadTypes, CallerInv, Release, lockVars, initVars, devVars, feeVars
<1> QED BY <1>3, <1>4, <1>5, CallerStep

LEMMA StopMinerInv ==
    ASSUME IInv, StopMiner PROVE IInv'
<1>1. /\ Release(Ids) /\ mpc' = "stopped"
      /\ UNCHANGED <<initVars, devVars, currentAlgo, feeVars>>
  BY DEF StopMiner
<1>2. ThreadTypes /\ CallTypes /\ CallerInv
  BY TypeParts DEF IInv
<1>3. /\ HeapInv' /\ (\A i \in Ids : AtRest(i)' => RestInv(i)') /\ WorkInv'
      /\ inst' \in [Ids -> Insts] /\ misfreed' \in BOOLEAN
  BY <1>1, ReleaseInv
<1>4. CallTypes'
  BY <1>1, <1>2, <1>3 DEF CallTypes, Release, lockVars
<1>5. ThreadTypes' /\ CallerInv'
  BY <1>1, <1>2 DEF ThreadTypes, CallerInv, Release, lockVars, initVars, devVars, feeVars
<1> QED BY <1>3, <1>4, <1>5, CallerStep

\* StartMiner, InitTake and OnDevJob ask for something, and touch no instance.
LEMMA AskInv ==
    ASSUME IInv, UNCHANGED <<inst, config, lockVars, hugePages, heapVars>>,
           ThreadTypes', CallerInv'
    PROVE  IInv'
<1>1. CallTypes
  BY TypeParts DEF IInv
<1>2. CallTypes'
  BY <1>1, CallsKept
<1>3. HeapInv' /\ (\A i \in Ids : AtRest(i)' => RestInv(i)') /\ WorkInv'
  BY CallKept DEF heapVars, lockVars
<1> QED BY <1>2, <1>3, CallerStep

LEMMA StartMinerInv ==
    ASSUME IInv, NEW a \in Algos, StartMiner(a) PROVE IInv'
<1>1. ThreadTypes /\ CallerInv
  BY TypeParts DEF IInv
<1>2. ThreadTypes' /\ CallerInv'
  BY <1>1 DEF StartMiner, ThreadTypes, CallerInv, lockVars, initVars, devVars, feeVars
<1> QED BY <1>2, AskInv DEF StartMiner

LEMMA InitTakeInv ==
    ASSUME IInv, NEW s \in Seeds, NEW a \in Algos, InitTake(s, a) PROVE IInv'
<1>1. ThreadTypes /\ CallerInv
  BY TypeParts DEF IInv
<1>2. ThreadTypes' /\ CallerInv'
  BY <1>1 DEF InitTake, ThreadTypes, CallerInv, lockVars, devVars, feeVars, Ids
<1> QED BY <1>2, AskInv DEF InitTake

LEMMA OnDevJobInv ==
    ASSUME IInv, NEW s \in Seeds, OnDevJob(s) PROVE IInv'
<1>1. ThreadTypes /\ CallerInv
  BY TypeParts DEF IInv
<1>2. /\ dpc' \in {"reinit", "init"} /\ dseed' = s /\ dthreads' = Threads[currentAlgo]
      /\ UNCHANGED <<mpc, initVars, currentAlgo, feeVars, call>> /\ dpc = "idle"
  BY DEF OnDevJob, lockVars
<1>3. ThreadTypes' /\ CallerInv'
  BY <1>1, <1>2, AskedVms DEF ThreadTypes, CallerInv, initVars, feeVars
<1> QED BY <1>3, AskInv DEF OnDevJob

LEMMA InitBuildInv ==
    ASSUME IInv, InitBuild PROVE IInv'
<1> DEFINE a == IF ipc = "User" THEN ialgo ELSE DevAlgo
<1>1. /\ ipc \in Ids /\ ipc' = "building" /\ BeginInit("init", ipc, iseed, a, Threads[ialgo])
      /\ UNCHANGED <<mpc, devVars, iseed, ialgo, currentAlgo, feeVars, hugePages>>
  BY DEF InitBuild
<1>2. ThreadTypes /\ CallTypes /\ CallerInv
  BY TypeParts DEF IInv
<1>3. /\ ialgo \in Algos /\ a \in Algos /\ iseed \in Seeds
      /\ Threads[ialgo] > 0 /\ Threads[ialgo] \in {Threads[b] : b \in Algos}
      /\ ipc = "User" => Threads[ialgo] = Threads[a]
  BY <1>1, <1>2, AskedVms, AlgosAssumption DEF ThreadTypes, CallerInv, Ids
<1> HIDE DEF a
<1>4. /\ HeapInv' /\ (\A i \in Ids : AtRest(i)' => RestInv(i)') /\ WorkInv'
      /\ inst' \in [Ids -> Insts] /\ call' \in Calls /\ config' \in Algos
      /\ step' \in {"cacheMem", "return"} /\ ok' \in BOOLEAN
      /\ misfreed' \in BOOLEAN /\ UNCHANGED <<leaked, reinitFailed>>
  BY <1>1, <1>3, BeginInitInv
<1>5. CallTypes'
  BY <1>1, <1>2, <1>4 DEF CallTypes
<1>6. call'.by = "init"
  BY <1>1 DEF BeginInit
<1>7. ThreadTypes' /\ CallerInv'
  BY <1>1, <1>2, <1>3, <1>6 DEF ThreadTypes, CallerInv, devVars, feeVars
<1> QED BY <1>4, <1>5, <1>7, CallerStep

LEMMA InitBuiltInv ==
    ASSUME IInv, InitBuilt PROVE IInv'
<1>1. ThreadTypes /\ CallTypes /\ CallerInv
  BY TypeParts DEF IInv
<1>2. /\ step = "return" /\ step' = "free" /\ EndCall
      /\ UNCHANGED <<inst, config, hugePages, heapVars>>
      /\ UNCHANGED <<mpc, devVars, devFeeEnabled>>
      /\ ipc' \in {"Dev", "idle"} /\ currentAlgo' \in {currentAlgo, ialgo}
      /\ preallocated' \in BOOLEAN
  BY <1>1 DEF InitBuilt, EndCall, ThreadTypes
<1>3. /\ ipc' = "idle" => iseed' = "" /\ ialgo' = DevAlgo
      /\ ipc' = "Dev" => UNCHANGED <<iseed, ialgo>> /\ iseed \in Seeds
  <2>1. ipc' = "idle" => iseed' = "" /\ ialgo' = DevAlgo
    BY DEF InitBuilt
  <2>2. ipc' # "idle" => UNCHANGED <<iseed, ialgo>>
    BY DEF InitBuilt
  <2>3. iseed \in Seeds
    BY <1>1 DEF InitBuilt, CallerInv
  <2> QED BY <2>1, <2>2, <2>3
<1>4. CallTypes'
  BY <1>1, <1>2, CallsKept
<1>5. HeapInv' /\ (\A i \in Ids : AtRest(i)' => RestInv(i)') /\ WorkInv'
  BY <1>2, CallKept DEF heapVars
<1>6. ThreadTypes' /\ CallerInv'
  BY <1>1, <1>2, <1>3, AlgosAssumption
     DEF ThreadTypes, CallerInv, EndCall, NoCall, devVars, Ids
<1> QED BY <1>4, <1>5, <1>6, CallerStep

LEMMA DevBuildInv ==
    ASSUME IInv, DevBuild PROVE IInv'
<1>1. /\ dpc' \in {"reiniting", "initing"}
      /\ UNCHANGED <<mpc, initVars, dseed, dthreads, currentAlgo, feeVars, hugePages>>
      /\ dpc # "idle"
  BY DEF DevBuild
<1>2. ThreadTypes /\ CallTypes /\ CallerInv
  BY TypeParts DEF IInv
<1>3. dseed \in Seeds /\ dthreads > 0 /\ dthreads \in {Threads[a] : a \in Algos}
  <2>1. dseed \in Seeds /\ dthreads > 0
    BY <1>1, <1>2 DEF CallerInv
  <2>2. dthreads # 0
    BY <2>1
  <2> QED BY <1>2, <2>1, <2>2 DEF ThreadTypes
<1>4. /\ HeapInv' /\ (\A i \in Ids : AtRest(i)' => RestInv(i)') /\ WorkInv'
      /\ inst' \in [Ids -> Insts] /\ call' \in Calls /\ config' \in Algos
      /\ step' \in {"cacheMem", "revms", "return"} /\ ok' \in BOOLEAN
      /\ misfreed' \in BOOLEAN /\ UNCHANGED <<leaked, reinitFailed>>
      /\ call'.by = "dev"
  <2>1. CASE BeginReinit(dseed, dthreads)
    BY <1>3, <2>1, BeginReinitInv DEF BeginReinit
  <2>2. CASE BeginInit("dev", "Dev", dseed, DevAlgo, dthreads)
    <3>1. "Dev" \in Ids /\ "Dev" # "User"
      BY DEF Ids
    <3>2. call'.by = "dev"
      BY <2>2 DEF BeginInit
    <3> QED BY <1>1, <1>3, <2>2, <3>1, <3>2, AlgosAssumption, BeginInitInv
  <2> QED BY <2>1, <2>2 DEF DevBuild
<1>5. CallTypes'
  BY <1>1, <1>2, <1>4 DEF CallTypes
<1>6. ThreadTypes' /\ CallerInv'
  BY <1>1, <1>2, <1>3, <1>4 DEF ThreadTypes, CallerInv, initVars, feeVars
<1> QED BY <1>4, <1>5, <1>6, CallerStep

LEMMA DevBuiltInv ==
    ASSUME IInv, DevBuilt PROVE IInv'
<1>1. ThreadTypes /\ CallTypes /\ CallerInv
  BY TypeParts DEF IInv
<1>2. /\ step = "return" /\ step' = "free" /\ EndCall /\ call.by = "dev"
      /\ UNCHANGED <<inst, config, hugePages, heapVars>>
      /\ UNCHANGED <<mpc, initVars, currentAlgo, preallocated>>
      /\ dpc' \in {"idle", "init"} /\ devFeeEnabled' \in BOOLEAN
  BY <1>1 DEF DevBuilt, EndCall, ThreadTypes
<1>3. dpc # "idle" /\ dseed \in Seeds /\ dthreads > 0
  BY <1>1, <1>2 DEF CallerInv
<1>4. /\ dpc' = "idle" => dseed' = "" /\ dthreads' = 0
      /\ dpc' # "idle" => UNCHANGED <<dseed, dthreads>>
  BY DEF DevBuilt
<1>5. CallTypes'
  BY <1>1, <1>2, CallsKept
<1>6. HeapInv' /\ (\A i \in Ids : AtRest(i)' => RestInv(i)') /\ WorkInv'
  BY <1>2, CallKept DEF heapVars
<1>7. ThreadTypes' /\ CallerInv'
  BY <1>1, <1>2, <1>3, <1>4 DEF ThreadTypes, CallerInv, EndCall, NoCall, initVars
<1> QED BY <1>5, <1>6, <1>7, CallerStep
-----------------------------------------------------------------------------
LEMMA InitIInv ==
    ASSUME Init PROVE IInv
<1>1. inst = [i \in Ids |-> Empty(DevAlgo)] /\ call = NoCall /\ step = "free"
  BY DEF Init
<1>2. ThreadTypes /\ CallTypes
  BY <1>1, EmptyTyped, NoCallTyped, AlgosAssumption DEF Init, ThreadTypes, CallTypes
<1>3. TypeOK
  BY <1>2, TypeParts
<1>4. CallerInv /\ HeapInv /\ WorkInv
  BY DEF Init, CallerInv, HeapInv, WorkInv, InitSteps, NoCall
<1>5. ASSUME NEW i \in Ids PROVE RestInv(i)
  <2>1. inst[i] = Empty(DevAlgo)
    BY <1>1
  <2>2. /\ ~Empty(DevAlgo).ready /\ Empty(DevAlgo).cache = None
        /\ Empty(DevAlgo).dataset = None /\ Empty(DevAlgo).vms = 0
        /\ Empty(DevAlgo).cacheMem = "none" /\ Empty(DevAlgo).dataMem = "none"
    BY DEF Empty
  <2> QED BY <2>1, <2>2 DEF RestInv, Clean, FreedRight, Fits
<1> QED BY <1>3, <1>4, <1>5 DEF IInv

LEMMA StutterIInv ==
    ASSUME IInv, UNCHANGED vars PROVE IInv'
<1>1. ThreadTypes /\ CallerInv
  BY TypeParts DEF IInv
<1>2. ThreadTypes' /\ CallerInv'
  BY <1>1 DEF ThreadTypes, CallerInv, vars, threadVars, lockVars, initVars, devVars, feeVars
<1> QED BY <1>2, AskInv DEF vars

LEMMA NextIInv ==
    ASSUME IInv, Next PROVE IInv'
<1>1. CASE Build
  BY <1>1, HugeCacheMemInv, HeapCacheMemInv, NoCacheMemInv, CreateCacheInv, CacheFailsInv,
     HugeDataMemInv, HeapDataMemInv, NoDataMemInv, CreateDatasetInv, DatasetFailsInv,
     CreateVMsInv, VMsFailInv, RecreateVMsInv, RecreateFailsInv DEF Build
<1>2. CASE \E a \in Algos : Benchmark(a) \/ StartMiner(a)
  BY <1>2, BenchmarkInv, StartMinerInv
<1>3. CASE BenchmarkBuilt \/ BenchmarkEnds \/ StopMiner
  BY <1>3, BenchmarkBuiltInv, BenchmarkEndsInv, StopMinerInv
<1>4. CASE \E s \in Seeds, a \in Algos : InitTake(s, a)
  BY <1>4, InitTakeInv
<1>5. CASE \E s \in Seeds : OnDevJob(s)
  BY <1>5, OnDevJobInv
<1>6. CASE InitBuild \/ InitBuilt \/ DevBuild \/ DevBuilt
  BY <1>6, InitBuildInv, InitBuiltInv, DevBuildInv, DevBuiltInv
<1> QED BY <1>1, <1>2, <1>3, <1>4, <1>5, <1>6 DEF Next

LEMMA Invariance == Spec => []IInv
<1>1. Init => IInv
  BY InitIInv
<1>2. IInv /\ [Next]_vars => IInv'
  BY NextIInv, StutterIInv
<1> QED BY <1>1, <1>2, PTL DEF Spec

(* The state of the instances, of the call that holds the mutex and of the  *)
(* threads that make the calls is always one the code can name              *)
(* (RxInstance.h:49-68).                                                    *)
THEOREM InstanceTypes == Spec => []TypeOK
<1>1. IInv => TypeOK
  BY DEF IInv
<1> QED BY <1>1, Invariance, PTL

(* A ready instance has everything the workers use, of its own seed and the *)
(* user's of its own algorithm, after any number of inits, reinits and      *)
(* failures of the two (RxInstance.cpp:135-340, 342-389).                   *)
THEOREM ReadyInstances == Spec => []ReadyIsWhole
<1>1. IInv => ReadyIsWhole
  BY DEF IInv, RestInv, Complete, ReadyIsWhole
<1> QED BY <1>1, Invariance, PTL

(* Whichever allocation fails, init leaves nothing behind of its own        *)
(* (RxInstance.cpp:213-215, 226-235, 275-286, 295-312).                     *)
THEOREM FailuresLeaveNothing == Spec => []FailureLeavesNothing
<1>1. IInv => FailureLeavesNothing
  BY DEF IInv, RestInv, Clean, FailureLeavesNothing
<1> QED BY <1>1, Invariance, PTL

(* No block is lost and none is freed the other way than it was allocated,  *)
(* as long as no reinit has failed (RxInstance.cpp:158-176, 227-284,        *)
(* 299-308, 471-489).                                                       *)
THEOREM OwnedMemory == Spec => []MemoryIsOwned
<1>1. IInv => MemoryIsOwned
  BY DEF IInv, RestInv, HeapInv, MemoryIsOwned
<1> QED BY <1>1, Invariance, PTL
-----------------------------------------------------------------------------
(* The shared configuration.  Only two calls change it: the user's, whose   *)
(* instance is not ready then, and the dev pool's, for rx/0.                *)

ConfigInv == inst["User"].ready => config \in {inst["User"].algo, DevAlgo}

LEMMA ConfigKept ==
    ASSUME ConfigInv, UNCHANGED config,
           inst'["User"].ready = FALSE \/ inst'["User"] = inst["User"]
    PROVE  ConfigInv'
  BY DEF ConfigInv

LEMMA BeginConfig ==
    ASSUME IInv, ConfigInv, NEW by, NEW id \in Ids, NEW s, NEW a \in Algos, NEW n,
           id = "User" \/ a = DevAlgo, BeginInit(by, id, s, a, n)
    PROVE  ConfigInv'
<1>1. inst \in [Ids -> Insts] /\ "User" \in Ids
  BY DEF IInv, TypeOK, Ids
<1>2. CASE UNCHANGED <<inst, config>>
  BY <1>2, ConfigKept
<1>3. CASE config' = a /\ \E old \in {Empty(a), inst[id]} :
              ~old.ready /\ inst' = [inst EXCEPT ![id] = [old EXCEPT !.seed = s, !.algo = a]]
  <2>1. PICK old \in {Empty(a), inst[id]} :
           ~old.ready /\ inst' = [inst EXCEPT ![id] = [old EXCEPT !.seed = s, !.algo = a]]
    BY <1>3
  <2>2. CASE id = "User"
    <3> DEFINE new == [old EXCEPT !.seed = s, !.algo = a]
    <3>1. old \in Insts
      BY <1>1, EmptyTyped
    <3>2. new.ready = FALSE
      BY <2>1, <3>1 DEF Insts
    <3>3. inst'["User"] = new
      BY <1>1, <2>1, <2>2
    <3> QED BY <3>2, <3>3 DEF ConfigInv
  <2>3. CASE id # "User"
    BY <1>1, <1>3, <2>1, <2>3 DEF ConfigInv
  <2> QED BY <2>2, <2>3
<1>4. Empty(a).ready = FALSE
  BY DEF Empty
<1> QED BY <1>2, <1>3, <1>4 DEF BeginInit, Return

LEMMA BuildConfig ==
    ASSUME IInv, ConfigInv, Build PROVE ConfigInv'
<1>1. inst \in [Ids -> Insts] /\ call.id \in Ids /\ "User" \in Ids
  BY CallFields DEF IInv, TypeOK, Ids
<1>2. UNCHANGED config
  BY DEF Build, InCall, HugeCacheMem, HeapCacheMem, NoCacheMem, CreateCache, CacheFails,
     HugeDataMem, HeapDataMem, NoDataMem, CreateDataset, DatasetFails, CreateVMs, VMsFail,
     RecreateVMs, RecreateFails
<1>3. CASE CreateVMs
  <2>1. config = call.algo /\ Me.algo = call.algo
    BY <1>3 DEF IInv, WorkInv, Taken, InitSteps, CreateVMs, InCall
  <2>2. inst' = [inst EXCEPT ![call.id] = [Me EXCEPT !.vms = call.vms, !.ready = TRUE]]
    BY <1>3 DEF CreateVMs, Become
  <2>3. CASE call.id = "User"
    <3>1. inst'["User"].algo = Me.algo
      BY <1>1, <2>2, <2>3 DEF Me, Insts
    <3> QED BY <1>2, <2>1, <3>1 DEF ConfigInv
  <2>4. CASE call.id # "User"
    BY <1>1, <1>2, <2>2, <2>4, ConfigKept
  <2> QED BY <2>3, <2>4
<1>4. CASE RecreateVMs
  <2>1. call.id = "Dev"
    BY <1>4 DEF IInv, WorkInv, Emptied, RecreateVMs, InCall
  <2>2. inst'["User"] = inst["User"]
    BY <1>1, <1>4, <2>1 DEF RecreateVMs, Become
  <2> QED BY <1>2, <2>2, ConfigKept
<1>5. CASE VMsFail \/ RecreateFails
  BY <1>2, <1>5, ConfigKept DEF VMsFail, RecreateFails
<1>6. CASE \/ HugeCacheMem \/ HeapCacheMem \/ NoCacheMem \/ CreateCache \/ CacheFails
           \/ HugeDataMem \/ HeapDataMem \/ NoDataMem \/ CreateDataset \/ DatasetFails
  <2>1. step \in InitSteps
    BY <1>6 DEF InitSteps, InCall, HugeCacheMem, HeapCacheMem, NoCacheMem, CreateCache,
       CacheFails, HugeDataMem, HeapDataMem, NoDataMem, CreateDataset, DatasetFails
  <2>2. Me.ready = FALSE /\ Me \in Insts
    BY <1>1, <2>1 DEF IInv, WorkInv, Taken, Me, Insts
  <2>3. ASSUME NEW new, Become(new), new.ready = FALSE PROVE ConfigInv'
    <3>1. inst'["User"].ready = FALSE \/ inst'["User"] = inst["User"]
      BY <1>1, <2>3 DEF Become
    <3> QED BY <1>2, <3>1, ConfigKept
  <2>4. CASE HugeCacheMem
    <3> DEFINE new == [Me EXCEPT !.cacheMem = "huge", !.cacheHuge = TRUE]
    <3>1. new.ready = FALSE
      BY <2>2 DEF Insts
    <3>2. Become(new)
      BY <2>4 DEF HugeCacheMem
    <3> QED BY <2>3, <3>1, <3>2
  <2>5. CASE HeapCacheMem
    <3> DEFINE new == [Me EXCEPT !.cacheMem = IF call.huge \/ @ = "none" THEN "heap" ELSE @,
                               !.cacheHuge = FALSE]
    <3>1. new.ready = FALSE
      BY <2>2 DEF Insts
    <3>2. Become(new)
      BY <2>5 DEF HeapCacheMem
    <3> QED BY <2>3, <3>1, <3>2
  <2>6. CASE NoCacheMem
    <3> DEFINE new == [Me EXCEPT !.cacheMem = "none"]
    <3>1. new.ready = FALSE
      BY <2>2 DEF Insts
    <3>2. Become(new)
      BY <2>6 DEF NoCacheMem
    <3> QED BY <2>3, <3>1, <3>2
  <2>7. CASE CreateCache
    <3> DEFINE new == [Me EXCEPT !.cache = [seed |-> call.seed, config |-> config]]
    <3>1. new.ready = FALSE
      BY <2>2 DEF Insts
    <3>2. Become(new)
      BY <2>7 DEF CreateCache
    <3> QED BY <2>3, <3>1, <3>2
  <2>8. CASE CacheFails
    <3> DEFINE new == [Me EXCEPT !.cache = None, !.cacheMem = "none"]
    <3>1. new.ready = FALSE
      BY <2>2 DEF Insts
    <3>2. Become(new)
      BY <2>8 DEF CacheFails
    <3> QED BY <2>3, <3>1, <3>2
  <2>9. CASE HugeDataMem
    <3> DEFINE new == [Me EXCEPT !.dataMem = "huge"]
    <3>1. new.ready = FALSE
      BY <2>2 DEF Insts
    <3>2. Become(new)
      BY <2>9 DEF HugeDataMem
    <3> QED BY <2>3, <3>1, <3>2
  <2>10. CASE HeapDataMem
    <3> DEFINE new == [Me EXCEPT !.dataMem = IF call.huge \/ @ = "none" THEN "heap" ELSE @]
    <3>1. new.ready = FALSE
      BY <2>2 DEF Insts
    <3>2. Become(new)
      BY <2>10 DEF HeapDataMem
    <3> QED BY <2>3, <3>1, <3>2
  <2>11. CASE NoDataMem
    <3> DEFINE new == [Me EXCEPT !.dataMem = "none", !.cache = None, !.cacheMem = "none"]
    <3>1. new.ready = FALSE
      BY <2>2 DEF Insts
    <3>2. Become(new)
      BY <2>11 DEF NoDataMem
    <3> QED BY <2>3, <3>1, <3>2
  <2>12. CASE CreateDataset
    <3> DEFINE new == [Me EXCEPT !.dataset = Me.cache, !.dataHuge = call.huge]
    <3>1. new.ready = FALSE
      BY <2>2 DEF Insts
    <3>2. Become(new)
      BY <2>12 DEF CreateDataset
    <3> QED BY <2>3, <3>1, <3>2
  <2>13. CASE DatasetFails
    <3> DEFINE new == [Me EXCEPT !.dataset = None, !.cache = None, !.dataMem = "none",
                               !.cacheMem = "none"]
    <3>1. new.ready = FALSE
      BY <2>2 DEF Insts
    <3>2. Become(new)
      BY <2>13 DEF DatasetFails
    <3> QED BY <2>3, <3>1, <3>2
  <2> QED BY <1>6, <2>4, <2>5, <2>6, <2>7, <2>8, <2>9, <2>10, <2>11, <2>12, <2>13
<1> QED BY <1>3, <1>4, <1>5, <1>6 DEF Build

LEMMA CallerConfig ==
    ASSUME IInv, ConfigInv,
           \/ \E a \in Algos : Benchmark(a) \/ StartMiner(a)
           \/ BenchmarkBuilt \/ BenchmarkEnds \/ StopMiner
           \/ \E s \in Seeds, a \in Algos : InitTake(s, a)
           \/ \E s \in Seeds : OnDevJob(s)
           \/ InitBuild \/ InitBuilt \/ DevBuild \/ DevBuilt
    PROVE  ConfigInv'
<1>1. "User" \in Ids /\ "Dev" \in Ids /\ inst \in [Ids -> Insts] /\ ialgo \in Algos
  BY DEF Ids, IInv, TypeOK
<1>2. ASSUME NEW a \in Algos, Benchmark(a) PROVE ConfigInv'
  BY <1>1, <1>2, BeginConfig DEF Benchmark
<1>3. CASE UNCHANGED <<inst, config>>
  BY <1>3, ConfigKept
<1>4. CASE BenchmarkEnds \/ StopMiner
  <2>1. PICK X \in {{"User"}, Ids} : Release(X)
    BY <1>4 DEF BenchmarkEnds, StopMiner
  <2>2. inst' = [i \in Ids |-> IF i \in X THEN Empty(DevAlgo) ELSE inst[i]]
    BY <2>1 DEF Release
  <2>3. inst'["User"] = Empty(DevAlgo)
    BY <1>1, <2>1, <2>2
  <2>4. Empty(DevAlgo).ready = FALSE
    BY DEF Empty
  <2> QED BY <2>3, <2>4 DEF ConfigInv
<1>5. CASE InitBuild
  <2>1. CASE ipc = "User"
    BY <1>1, <1>5, <2>1, BeginConfig DEF InitBuild
  <2>2. CASE ipc # "User"
    BY <1>1, <1>5, <2>2, BeginConfig, AlgosAssumption DEF InitBuild
  <2> QED BY <2>1, <2>2
<1>6. CASE DevBuild
  <2>1. ASSUME BeginReinit(dseed, dthreads) PROVE ConfigInv'
    <3>1. UNCHANGED config /\ inst'["User"] = inst["User"]
      BY <1>1, <2>1 DEF BeginReinit
    <3> QED BY <3>1, ConfigKept
  <2>2. ASSUME BeginInit("dev", "Dev", dseed, DevAlgo, dthreads) PROVE ConfigInv'
    BY <1>1, <2>2, BeginConfig, AlgosAssumption
  <2> QED BY <1>6, <2>1, <2>2 DEF DevBuild
<1> QED
  BY <1>2, <1>3, <1>4, <1>5, <1>6
  DEF StartMiner, BenchmarkBuilt, InitTake, OnDevJob, InitBuilt, DevBuilt

(* A miner whose user's instance is for rx/0 hashes with the configuration  *)
(* of rx/0, whatever was built, failed and rebuilt for the dev pool: the    *)
(* wrong configuration that rx_config shows is never another one            *)
(* (README.md:41, RxInstance.cpp:191).                                      *)
THEOREM DevAlgoIsInForce ==
    Spec => [](inst["User"].algo = DevAlgo => UserConfigInForce)
<1>1. Init => ConfigInv
  BY DEF Init, ConfigInv, Empty, Ids
<1>2. IInv /\ ConfigInv /\ [Next]_vars => ConfigInv'
  <2> SUFFICES ASSUME IInv, ConfigInv, [Next]_vars PROVE ConfigInv'
    OBVIOUS
  <2>1. CASE UNCHANGED vars
    BY <2>1, ConfigKept DEF vars
  <2> QED BY <2>1, BuildConfig, CallerConfig DEF Next
<1>3. ConfigInv => (inst["User"].algo = DevAlgo => UserConfigInForce)
  BY DEF ConfigInv, UserConfigInForce
<1> QED BY <1>1, <1>2, <1>3, Invariance, PTL DEF Spec
-----------------------------------------------------------------------------
(* The division of the dataset: the parts lie end to end from the first    *)
(* item to the last, and the calls of a thread fill its part and touch no  *)
(* other, the overlapping last call included.                              *)

\* What thread i is to fill.
Part(n, t, i) == Start(n, t, i) .. End(n, t, i) - 1

\* Sizes for which the division is exact.
Divisible(n, t) == n \in Nat /\ t \in Nat /\ t > 0 /\ n >= 5 * t /\ n * t < Word
-----------------------------------------------------------------------------
(* Arithmetic.                                                              *)

LEMMA Quotient ==
    ASSUME NEW a \in Nat, NEW b \in Nat, b > 0
    PROVE  a \div b \in Nat /\ b * (a \div b) <= a /\ a < b * (a \div b) + b
  BY SMT

LEMMA Times ==
    ASSUME NEW a \in Nat, NEW b \in Nat, NEW c \in Nat, a <= b
    PROVE  c * a \in Nat /\ c * b \in Nat /\ c * a <= c * b
  BY SMT

\* c * x < c * y only if x < y
LEMMA Untimes ==
    ASSUME NEW x \in Nat, NEW y \in Nat, NEW c \in Nat, c * x < c * y
    PROVE  x < y
<1> SUFFICES ASSUME y <= x PROVE FALSE
  OBVIOUS
<1> QED BY Times

LEMMA QuotientGrows ==
    ASSUME NEW a \in Nat, NEW b \in Nat, NEW c \in Nat, b > 0,
           NEW d \in Nat, d >= a + c * b
    PROVE  d \div b >= (a \div b) + c
<1>1. a \div b \in Nat /\ b * (a \div b) <= a
  BY Quotient
<1>2. d \div b \in Nat /\ d < b * (d \div b) + b
  BY Quotient
<1>3. b * ((a \div b) + c) = b * (a \div b) + c * b /\ b * ((d \div b) + 1) = b * (d \div b) + b
  BY <1>1, <1>2, SMT
<1>4. /\ b * (a \div b) \in Nat /\ c * b \in Nat /\ b * (d \div b) \in Nat
      /\ (a \div b) + c \in Nat /\ (d \div b) + 1 \in Nat
  BY <1>1, <1>2, SMT
<1>5. b * ((a \div b) + c) < b * ((d \div b) + 1)
  BY <1>1, <1>2, <1>3, <1>4
<1>6. (a \div b) + c < (d \div b) + 1
  BY <1>4, <1>5, Untimes
<1> QED BY <1>1, <1>2, <1>6
-----------------------------------------------------------------------------
(* The parts.                                                               *)

LEMMA NoOverflow ==
    ASSUME NEW n, NEW t, Divisible(n, t), NEW i \in 0..t
    PROVE  n * i \in Nat /\ n * i <= n * t /\ (n * i) % Word = n * i
<1>1. n * i \in Nat /\ n * t \in Nat /\ n * i <= n * t
  BY Times DEF Divisible
<1>2. n * i < Word /\ Word \in Nat
  BY <1>1, SplitAssumption DEF Divisible
<1>3. (n * i) % Word = n * i
  <2> DEFINE m == n * i
  <2>1. m \in Nat /\ m < Word
    BY <1>1, <1>2
  <2> HIDE DEF m
  <2>2. m % Word = m
    BY <2>1, <1>2, SMT
  <2> QED BY <2>2 DEF m
<1> QED BY <1>1, <1>3

LEMMA Bounds ==
    ASSUME NEW n, NEW t, Divisible(n, t), NEW i \in 0..t - 1
    PROVE  /\ Start(n, t, i) = (n * i) \div t
           /\ End(n, t, i) = (n * (i + 1)) \div t
           /\ Start(n, t, i) \in Nat /\ End(n, t, i) \in Nat
<1>1. i \in 0..t /\ i + 1 \in 0..t
  BY DEF Divisible
<1>2. (n * i) % Word = n * i /\ (n * (i + 1)) % Word = n * (i + 1)
  BY <1>1, NoOverflow
<1>3. n * i \in Nat /\ n * (i + 1) \in Nat
  BY <1>1, NoOverflow
<1>4. (n * i) \div t \in Nat /\ (n * (i + 1)) \div t \in Nat
  BY <1>3, Quotient DEF Divisible
<1> QED BY <1>2, <1>4 DEF Start, End

(* Each part has five items or more and ends inside the dataset, and its    *)
(* size is what the code computes (RxInstance.cpp:411-413).                 *)
LEMMA PartSize ==
    ASSUME NEW n, NEW t, Divisible(n, t), NEW i \in 0..t - 1
    PROVE  /\ Start(n, t, i) \in Nat /\ End(n, t, i) \in Nat
           /\ End(n, t, i) >= Start(n, t, i) + 5 /\ End(n, t, i) <= n /\ n < Word
           /\ (End(n, t, i) - Start(n, t, i)) % Word = End(n, t, i) - Start(n, t, i)
<1>1. i \in 0..t /\ i + 1 \in 0..t /\ t \in 0..t
  BY DEF Divisible
<1>2. n * i \in Nat /\ n * (i + 1) \in Nat /\ n * (i + 1) <= n * t /\ n * t \in Nat
  BY <1>1, NoOverflow
<1>3. n * (i + 1) = n * i + n
  BY SMT DEF Divisible
<1>4. n * (i + 1) >= n * i + 5 * t
  BY <1>2, <1>3 DEF Divisible
<1>5. (n * (i + 1)) \div t >= ((n * i) \div t) + 5
  BY <1>2, <1>4, QuotientGrows DEF Divisible
<1>b. Start(n, t, i) \in Nat /\ End(n, t, i) \in Nat /\ n \in Nat /\ t \in Nat
  BY Bounds DEF Divisible
<1>e. t * End(n, t, i) <= n * (i + 1)
  <2>1. t * ((n * (i + 1)) \div t) <= n * (i + 1)
    BY <1>2, Quotient DEF Divisible
  <2> QED BY <2>1, Bounds
<1>s. End(n, t, i) >= Start(n, t, i) + 5
  BY <1>5, Bounds
<1>6. n >= End(n, t, i)
  <2>2. n * t = t * n
    BY SMT DEF Divisible
  <2>3. t * End(n, t, i) < t * (n + 1)
    <3>1. t * (n + 1) = t * n + t
      BY SMT DEF Divisible
    <3>2. t * End(n, t, i) \in Nat /\ t > 0
      BY <1>b, SMT DEF Divisible
    <3> QED BY <1>e, <2>2, <3>1, <3>2, <1>2, <1>b
  <2>4. n + 1 \in Nat
    BY <1>b
  <2>5. End(n, t, i) < n + 1
    BY <2>3, <2>4, <1>b, Untimes
  <2> QED BY <2>5, <1>b
<1>7. n < Word /\ Word \in Nat
  <2>1. n * 1 <= n * t
    BY Times DEF Divisible
  <2> QED BY <2>1, <1>2, SplitAssumption DEF Divisible
<1>8. (End(n, t, i) - Start(n, t, i)) % Word = End(n, t, i) - Start(n, t, i)
  <2> DEFINE m == End(n, t, i) - Start(n, t, i)
  <2>1. m \in Nat /\ m < Word
    BY <1>s, <1>6, <1>7, <1>b
  <2> HIDE DEF m
  <2>2. m % Word = m
    BY <2>1, <1>7, SMT
  <2> QED BY <2>2 DEF m
<1> QED BY <1>s, <1>6, <1>7, <1>8, <1>b

(* Parts do not overlap.                                                    *)
LEMMA PartsApart ==
    ASSUME NEW n, NEW t, Divisible(n, t), NEW i \in 0..t - 1, NEW j \in 0..t - 1, i < j
    PROVE  End(n, t, i) <= Start(n, t, j)
<1>1. i + 1 \in 0..t /\ j \in 0..t /\ i + 1 <= j
  BY DEF Divisible
<1>2. n * (i + 1) \in Nat /\ n * j \in Nat /\ n * (i + 1) <= n * j
  BY <1>1, Times DEF Divisible
<1>3. (n * j) \div t >= ((n * (i + 1)) \div t) + 0
  <2>1. 0 * t = 0
    BY SMT DEF Divisible
  <2>2. n * j >= n * (i + 1) + 0 * t
    BY <2>1, <1>2
  <2> QED BY <2>2, <1>2, QuotientGrows DEF Divisible
<1> QED BY <1>3, Bounds

(* Parts cover the dataset: item k is in the part of the thread below.      *)
LEMMA PartsCover ==
    ASSUME NEW n, NEW t, Divisible(n, t), NEW k \in 0..n - 1
    PROVE  \E i \in 0..t - 1 : k \in Part(n, t, i)
<1> DEFINE a == (k + 1) * t - 1
           i == a \div n
<1>1. n \in Nat /\ t \in Nat /\ n > 0 /\ t > 0 /\ k \in Nat /\ k + 1 <= n
  BY DEF Divisible
<1>2. (k + 1) * t \in Nat /\ (k + 1) * t >= t
  <2>1. t * 1 <= t * (k + 1) /\ t * (k + 1) \in Nat
    BY <1>1, Times
  <2>2. t * (k + 1) = (k + 1) * t
    BY <1>1, SMT
  <2> QED BY <2>1, <2>2, <1>1
<1>3. a \in Nat
  BY <1>1, <1>2
<1> HIDE DEF a
<1>4. i \in Nat /\ n * i <= a /\ a < n * i + n
  BY <1>1, <1>3, Quotient
<1>5. (k + 1) * t <= n * t
  <2>1. t * (k + 1) <= t * n
    BY <1>1, Times
  <2>2. t * (k + 1) = (k + 1) * t /\ t * n = n * t
    BY <1>1, SMT
  <2> QED BY <2>1, <2>2
<1> HIDE DEF i
<1>6. n * i \in Nat /\ n * t \in Nat
  BY <1>1, <1>4, SMT
<1>7. n * i < n * t
  BY <1>2, <1>4, <1>5, <1>6, <1>1 DEF a
<1>8. i < t
  BY <1>1, <1>4, <1>7, Untimes
<1>9. i \in 0..t - 1
  BY <1>1, <1>4, <1>8
<1>b. Start(n, t, i) \in Nat /\ End(n, t, i) \in Nat
  BY <1>9, Bounds
<1>10. Start(n, t, i) <= k
  <2>0. t * ((n * i) \div t) <= n * i
    BY <1>1, <1>6, Quotient
  <2>1. t * Start(n, t, i) <= n * i
    BY <2>0, <1>9, Bounds
  <2>2. t * (k + 1) = (k + 1) * t /\ t * Start(n, t, i) \in Nat
    BY <1>1, <1>b, SMT
  <2>3. t * Start(n, t, i) < t * (k + 1)
    BY <2>1, <2>2, <1>2, <1>4, <1>6 DEF a
  <2>4. Start(n, t, i) < k + 1
    BY <2>3, <1>1, <1>b, Untimes
  <2> QED BY <2>4, <1>1, <1>b
<1>11. k < End(n, t, i)
  <2>1. n * (i + 1) = n * i + n
    BY <1>1, <1>4, SMT
  <2>2. n * (i + 1) \in Nat /\ n * (i + 1) >= 0 + (k + 1) * t
    BY <2>1, <1>1, <1>2, <1>4, <1>6 DEF a
  <2>3. (n * (i + 1)) \div t >= (0 \div t) + (k + 1)
    BY <2>2, <1>1, QuotientGrows
  <2>4. 0 \div t = 0
    BY <1>1, SMT
  <2>5. End(n, t, i) = (n * (i + 1)) \div t
    BY <1>9, Bounds
  <2> QED BY <2>3, <2>4, <2>5, <1>1, <1>b
<1> QED BY <1>9, <1>10, <1>11, <1>b, <1>1 DEF Part
-----------------------------------------------------------------------------
(* The calls.                                                               *)

Size(n, t, i)   == End(n, t, i) - Start(n, t, i)
Whole(n, t, i)  == <<Start(n, t, i), Size(n, t, i)>>
Blocks(n, t, i) == <<Start(n, t, i), Size(n, t, i) - (Size(n, t, i) % 5)>>
Rest(n, t, i)   == <<End(n, t, i) - 5, 5>>

(* One call for the whole part, or one for its blocks of five and one for   *)
(* its last five items (RxInstance.cpp:415-421).                            *)
LEMMA CallsFill ==
    ASSUME NEW n, NEW t, Divisible(n, t), NEW i \in 0..t - 1, NEW five \in BOOLEAN
    PROVE  \/ /\ CallsOf(n, t, i, five) = <<Whole(n, t, i)>>
              /\ five => Size(n, t, i) % 5 = 0
           \/ CallsOf(n, t, i, five) = <<Blocks(n, t, i), Rest(n, t, i)>>
<1>1. /\ Start(n, t, i) \in Nat /\ End(n, t, i) \in Nat /\ End(n, t, i) < Word /\ Word \in Nat
      /\ End(n, t, i) >= Start(n, t, i) + 5 /\ Size(n, t, i) % Word = Size(n, t, i)
  <2>1. /\ Start(n, t, i) \in Nat /\ End(n, t, i) \in Nat /\ n \in Nat
        /\ End(n, t, i) >= Start(n, t, i) + 5 /\ End(n, t, i) <= n /\ n < Word
    BY PartSize DEF Divisible
  <2>2. Size(n, t, i) % Word = Size(n, t, i)
    BY PartSize DEF Size
  <2> QED BY <2>1, <2>2, SplitAssumption
<1>2. (Start(n, t, i) + Size(n, t, i) - 5) % Word = End(n, t, i) - 5
  <2> DEFINE m == End(n, t, i) - 5
  <2>1. m \in Nat /\ m < Word /\ Start(n, t, i) + Size(n, t, i) - 5 = m
    BY <1>1 DEF Size
  <2> HIDE DEF m
  <2>2. m % Word = m
    BY <2>1, <1>1, SMT
  <2> QED BY <2>1, <2>2 DEF m
<1>3. CallsOf(n, t, i, five) = CallsFor(Start(n, t, i), Size(n, t, i), five)
  BY <1>1 DEF CallsOf, Size
<1> QED BY <1>2, <1>3 DEF CallsFor, Whole, Blocks, Rest

LEMMA Overlap ==
    ASSUME NEW a \in Nat, NEW z \in Nat, z >= 5, NEW r \in 0..4
    PROVE  (a .. a + (z - r) - 1) \cup (a + z - 5 .. a + z - 1) = a .. a + z - 1
<1>1. ASSUME NEW x \in a .. a + z - 1, x \notin a .. a + (z - r) - 1
      PROVE  x \in a + z - 5 .. a + z - 1
  BY <1>1, SMT
<1>2. (a .. a + (z - r) - 1) \subseteq a .. a + z - 1
  BY SMT
<1>3. (a + z - 5 .. a + z - 1) \subseteq a .. a + z - 1
  BY SMT
<1> QED BY <1>1, <1>2, <1>3

(* What the calls compute is the part.                                      *)
LEMMA CallsItems ==
    ASSUME NEW n, NEW t, Divisible(n, t), NEW i \in 0..t - 1
    PROVE  /\ Items(Whole(n, t, i)) = Part(n, t, i)
           /\ Items(Blocks(n, t, i)) \subseteq Part(n, t, i)
           /\ Items(Blocks(n, t, i)) \cup Items(Rest(n, t, i)) = Part(n, t, i)
           /\ Blocks(n, t, i)[2] % 5 = 0 /\ Rest(n, t, i)[2] % 5 = 0
<1> DEFINE z == Size(n, t, i)
           r == z % 5
<1>1. /\ Start(n, t, i) \in Nat /\ End(n, t, i) \in Nat
      /\ z = End(n, t, i) - Start(n, t, i) /\ z \in Nat /\ z >= 5
  BY PartSize DEF Size
<1> HIDE DEF z
<1>2. r \in 0..4 /\ (z - r) % 5 = 0
  BY <1>1, SMT
<1>3. Items(Whole(n, t, i)) = Start(n, t, i) .. Start(n, t, i) + z - 1
  BY DEF Items, Whole, z
<1>4. Items(Blocks(n, t, i)) = Start(n, t, i) .. Start(n, t, i) + (z - r) - 1
  BY DEF Items, Blocks, z
<1>5. Items(Rest(n, t, i)) = End(n, t, i) - 5 .. End(n, t, i) - 5 + 5 - 1
  BY DEF Items, Rest
<1>6. Blocks(n, t, i)[2] = z - r /\ Rest(n, t, i)[2] = 5
  BY DEF Blocks, Rest, z
<1> HIDE DEF r
<1>7. Part(n, t, i) = Start(n, t, i) .. Start(n, t, i) + z - 1
  BY <1>1 DEF Part
<1>8. Items(Blocks(n, t, i)) \cup Items(Rest(n, t, i)) = Part(n, t, i)
  <2>1. Items(Rest(n, t, i)) = Start(n, t, i) + z - 5 .. Start(n, t, i) + z - 1
    BY <1>1, <1>5
  <2>2. (Start(n, t, i) .. Start(n, t, i) + (z - r) - 1)
            \cup (Start(n, t, i) + z - 5 .. Start(n, t, i) + z - 1)
          = Start(n, t, i) .. Start(n, t, i) + z - 1
    BY <1>1, <1>2, Overlap
  <2> QED BY <2>1, <2>2, <1>4, <1>7, Zenon
<1>9. Blocks(n, t, i)[2] % 5 = 0 /\ Rest(n, t, i)[2] % 5 = 0
  BY <1>2, <1>6
<1> QED BY <1>3, <1>7, <1>8, <1>9
-----------------------------------------------------------------------------
(* The threads.                                                             *)

Stage(i) ==
    \/ /\ todo[i] = <<Whole(count, threads, i)>> /\ written[i] = {}
       /\ avx2 => Size(count, threads, i) % 5 = 0
    \/ todo[i] = <<Blocks(count, threads, i), Rest(count, threads, i)>> /\ written[i] = {}
    \/ todo[i] = <<Rest(count, threads, i)>> /\ written[i] = Items(Blocks(count, threads, i))
    \/ todo[i] = <<>> /\ written[i] = Part(count, threads, i)

SplitInv ==
    /\ Divisible(count, threads) /\ avx2 \in BOOLEAN /\ joined \in BOOLEAN
    /\ DOMAIN todo = 0..threads - 1 /\ DOMAIN written = 0..threads - 1
    /\ \A i \in 0..threads - 1 : Stage(i)
    /\ joined => \A i \in 0..threads - 1 : todo[i] = <<>>

LEMMA InitInv == InitSplit => SplitInv
<1> SUFFICES ASSUME InitSplit PROVE SplitInv
  OBVIOUS
<1>1. Divisible(count, threads)
  BY SplitAssumption DEF InitSplit, Divisible
<1>2. ASSUME NEW i \in 0..threads - 1 PROVE Stage(i)
  <2>1. todo[i] = CallsOf(count, threads, i, avx2) /\ written[i] = {} /\ avx2 \in BOOLEAN
    BY DEF InitSplit
  <2> QED BY <2>1, <1>1, CallsFill DEF Stage
<1> QED BY <1>1, <1>2 DEF InitSplit, SplitInv

LEMMA NextInv == SplitInv /\ [NextSplit]_splitVars => SplitInv'
<1> SUFFICES ASSUME SplitInv, [NextSplit]_splitVars PROVE SplitInv'
  OBVIOUS
<1>1. ASSUME NEW i \in 0..threads - 1, Fill(i) PROVE SplitInv'
  <2>1. /\ UNCHANGED <<count, threads, avx2, joined>> /\ todo[i] # <<>>
        /\ todo' = [todo EXCEPT ![i] = Tail(@)]
        /\ written' = [written EXCEPT ![i] = @ \cup Items(Head(todo[i]))]
    BY <1>1 DEF Fill
  <2>2. /\ Stage(i) /\ Divisible(count, threads)
        /\ DOMAIN todo = 0..threads - 1 /\ DOMAIN written = 0..threads - 1
    BY DEF SplitInv
  <2>3. todo'[i] = Tail(todo[i]) /\ written'[i] = written[i] \cup Items(Head(todo[i]))
    BY <2>1, <2>2
  <2>4. \/ todo'[i] = <<>> /\ written'[i] = Part(count, threads, i)
        \/ /\ todo'[i] = <<Rest(count, threads, i)>>
           /\ written'[i] = Items(Blocks(count, threads, i))
    <3>1. CASE todo[i] = <<Whole(count, threads, i)>> /\ written[i] = {}
      BY <3>1, <2>2, <2>3, CallsItems
    <3>2. CASE /\ todo[i] = <<Blocks(count, threads, i), Rest(count, threads, i)>>
               /\ written[i] = {}
      BY <3>2, <2>3
    <3>3. CASE /\ todo[i] = <<Rest(count, threads, i)>>
               /\ written[i] = Items(Blocks(count, threads, i))
      BY <3>3, <2>2, <2>3, CallsItems
    <3> QED BY <2>1, <2>2, <3>1, <3>2, <3>3 DEF Stage
  <2>5. Stage(i)'
    BY <2>1, <2>4 DEF Stage, Rest, Blocks, Part, Items, Size, Start, End
  <2>6. ASSUME NEW j \in 0..threads - 1, j # i PROVE Stage(j)'
    <3>1. Stage(j) /\ todo'[j] = todo[j] /\ written'[j] = written[j]
      BY <2>1, <2>2, <2>6 DEF SplitInv
    <3> QED BY <3>1, <2>1 DEF Stage, Whole, Rest, Blocks, Part, Items, Size, Start, End
  <2>7. ~joined
    BY <2>1 DEF SplitInv
  <2> QED BY <2>1, <2>5, <2>6, <2>7 DEF SplitInv, Divisible
<1>2. CASE JoinThreads
  BY <1>2 DEF JoinThreads, SplitInv, Stage, Whole, Rest, Blocks, Part, Items, Size, Start, End,
     Divisible
<1>3. CASE UNCHANGED splitVars
  BY <1>3 DEF splitVars, SplitInv, Stage, Whole, Rest, Blocks, Part, Items, Size, Start, End,
     Divisible
<1> QED BY <1>1, <1>2, <1>3 DEF NextSplit

(* Whatever a thread has computed lies in its part.                         *)
LEMMA OwnPart ==
    ASSUME SplitInv, NEW i \in 0..threads - 1
    PROVE  written[i] \subseteq Part(count, threads, i)
  BY CallsItems DEF SplitInv, Stage

LEMMA Exact == SplitInv => SplitIsExact
<1> SUFFICES ASSUME SplitInv PROVE SplitIsExact
  OBVIOUS
<1>f. Divisible(count, threads)
  BY DEF SplitInv
<1>1. ASSUME NEW i \in 0..threads - 1, NEW j \in 0..threads - 1, i # j
      PROVE  written[i] \cap written[j] = {}
  <2>1. Part(count, threads, i) \cap Part(count, threads, j) = {}
    <3>1. /\ Start(count, threads, i) \in Nat /\ End(count, threads, i) \in Nat
          /\ Start(count, threads, j) \in Nat /\ End(count, threads, j) \in Nat
      BY <1>f, Bounds
    <3>2. CASE i < j
      BY <3>1, <3>2, <1>f, PartsApart DEF Part
    <3>3. CASE j < i
      BY <3>1, <3>3, <1>f, PartsApart DEF Part
    <3> QED BY <1>1, <1>f, <3>2, <3>3 DEF Divisible
  <2> QED BY <2>1, OwnPart
<1>2. ASSUME avx2, NEW i \in 0..threads - 1, todo[i] # <<>>
      PROVE  Head(todo[i])[2] % 5 = 0
  <2>1. Whole(count, threads, i)[2] = Size(count, threads, i)
    BY DEF Whole
  <2>2. Stage(i)
    BY DEF SplitInv
  <2>3. Blocks(count, threads, i)[2] % 5 = 0 /\ Rest(count, threads, i)[2] % 5 = 0
    BY <1>f, CallsItems
  <2> QED BY <1>2, <2>1, <2>2, <2>3 DEF Stage
<1>3. ASSUME joined PROVE UNION {written[i] : i \in 0..threads - 1} = 0..count - 1
  <2>1. \A i \in 0..threads - 1 : written[i] = Part(count, threads, i)
    BY <1>3 DEF SplitInv, Stage
  <2>2. \A i \in 0..threads - 1 : Part(count, threads, i) \subseteq 0..count - 1
    <3>1. \A i \in 0..threads - 1 : /\ Start(count, threads, i) \in Nat
                                     /\ End(count, threads, i) \in Nat
                                     /\ End(count, threads, i) <= count
      BY <1>f, PartSize
    <3> QED BY <3>1, <1>f DEF Part, Divisible
  <2>3. \A k \in 0..count - 1 : \E i \in 0..threads - 1 : k \in Part(count, threads, i)
    BY <1>f, PartsCover
  <2> QED BY <2>1, <2>2, <2>3
<1> QED BY <1>1, <1>2, <1>3 DEF SplitIsExact

(* For every size of the dataset and every number of threads whose product *)
(* fits: the threads write disjoint items, in whole blocks of five where    *)
(* AVX2 wants them, and together all of them (RxInstance.cpp:398-428).       *)
THEOREM SplitCorrect == SplitSpec => []SplitIsExact
  BY InitInv, NextInv, Exact, PTL DEF SplitSpec
=============================================================================
