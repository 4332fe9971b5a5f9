-------------------------------- MODULE Shares --------------------------------
(***************************************************************************)
(* What becomes of a share: from the worker that finds it through          *)
(* Miner::onSubmit and Client::submit to one of the two pools, while jobs  *)
(* come, the fee thread switches pools and connections are lost.           *)
(*                                                                         *)
(* A worker that goes back to a job (after a fee period it is given the    *)
(* user's job again) starts its nonces over and finds the same shares      *)
(* again; so do two workers whose ids differ by 256.  Only the submit      *)
(* history of the client keeps them from being sent twice, and that        *)
(* forgets.  Worker.tla has the inside of a turn of the loop, Client.tla   *)
(* the inside of a connection; every job here is for the dataset in place. *)
(***************************************************************************)
EXTENDS Integers, Sequences, SequencesExt, FiniteSets

CONSTANTS
    Workers,    \* workers on one nonce range (ids that are equal modulo 256)
    Nonces,     \* bound: nonces of it that are hashed
    Good,       \* the shares: jobs and nonces whose hash is below the target
    Watched,    \* one of them, whose way to the pool is counted
    MaxHistory, \* MAX_SUBMIT_HISTORY
    MaxJobs,    \* bound: jobs of each pool, [Pools -> Nat]
    MaxDrops,   \* bound: losses of each connection, [Pools -> Nat]
    MaxFees     \* bound: fee periods

Pools == {"user", "dev"}

Jobs     == [pool : Pools, n : Nat \ {0}]
Share(j, k) == [job |-> j, nonce |-> k]
Shares == [job : Jobs, nonce : Nat]

ASSUME GoodAssumption == Good \subseteq Shares /\ Watched \in Good
ASSUME NoncesAssumption == Nonces \in Nat /\ MaxHistory \in Nat \ {0} /\ MaxFees \in Nat
ASSUME JobsAssumption == MaxJobs \in [Pools -> Nat] /\ MaxDrops \in [Pools -> Nat]

VARIABLES
    given,          \* per worker: the job of the last setJob
    local,          \* per worker: the job it hashes
    nonce,          \* per worker: the next nonce, counted from the start of its range
    pc,             \* per worker: "loop", or where it is in onSubmit
    share,          \* per worker: the result it submits
    paused,         \* m_paused of the workers
    currentJob,     \* m_currentJob and m_devJob
    devFeeActive,   \* m_devFeeActive
    link,           \* per pool: "down", "open" (not logged in) or "ready"
    handling,       \* per pool: the job between handleJob and the miner
    history,        \* per pool: m_submitHistory
    poolDisconnected, \* m_poolDisconnected
    jobs, drops, fees,\* events so far
    announced,      \* history: user jobs announced since the last loss that was reported
    sends, forgets  \* history: how often the watched share was sent, and its record dropped

workerVars == <<given, local, nonce, pc, share, paused>>
netVars    == <<link, handling, history, jobs, drops, announced, forgets>>
vars       == <<workerVars, netVars, currentJob, devFeeActive, poolDisconnected, fees, sends>>

None   == [pool |-> "none", n |-> 0]    \* a default constructed Job: not valid
NoShare == Share(None, 0)

Init ==
    /\ given = [w \in Workers |-> None] /\ local = [w \in Workers |-> None]
    /\ nonce = [w \in Workers |-> 0] /\ pc = [w \in Workers |-> "loop"]
    /\ share = [w \in Workers |-> NoShare] /\ paused = FALSE
    /\ currentJob = [p \in Pools |-> None] /\ devFeeActive = FALSE
    /\ link = [p \in Pools |-> "open"] /\ handling = [p \in Pools |-> None]
    /\ history = [p \in Pools |-> <<>>] /\ poolDisconnected = FALSE
    /\ jobs = [p \in Pools |-> 0] /\ drops = [p \in Pools |-> 0] /\ fees = 0
    /\ announced = {}
    /\ sends = 0 /\ forgets = 0

SetJobs(j) == given' = [w \in Workers |-> j]
-----------------------------------------------------------------------------
(* A worker.                                                                *)

\* A job with another id than the last: the range starts over.
NextNonce(w) == IF given[w] = local[w] THEN nonce[w] ELSE 0

\* One turn: job check and one nonce.
Turn(w) ==
    /\ pc[w] = "loop" /\ ~paused /\ given[w] # None /\ NextNonce(w) < Nonces
    /\ local' = [local EXCEPT ![w] = given[w]]
    /\ nonce' = [nonce EXCEPT ![w] = NextNonce(w) + 1]
    /\ LET found == Share(given[w], NextNonce(w))
       IN  IF found \in Good THEN /\ pc' = [pc EXCEPT ![w] = "submit"]
                                  /\ share' = [share EXCEPT ![w] = found]
                             ELSE UNCHANGED <<pc, share>>
    /\ UNCHANGED <<given, paused, netVars, currentJob, devFeeActive, poolDisconnected,
                   fees, sends>>

GoTo(w, step) == /\ pc' = [pc EXCEPT ![w] = step]
                 /\ share' = [share EXCEPT ![w] = IF step = "loop" THEN NoShare ELSE @]
                 /\ UNCHANGED <<given, local, nonce, paused, currentJob, devFeeActive,
                                poolDisconnected, fees>>

\* Mutant: a share is routed by the fee flag instead of by its own pool.
PoolByFlag(w) == IF devFeeActive THEN "dev" ELSE "user"

PoolOf(w) == share[w].job.pool

\* onSubmit and the first check of submit: without a login the share is dropped.
Route(w) ==
    /\ pc[w] = "submit"
    /\ GoTo(w, IF link[PoolOf(w)] = "ready" THEN "history" ELSE "loop")
    /\ UNCHANGED <<netVars, sends>>

\* Mutant: the history is trimmed one share late.
TrimLate(h) == IF Len(h) > MaxHistory + 1
               THEN SubSeq(h, Len(h) - (MaxHistory \div 2) + 1, Len(h)) ELSE h

Trim(h) == IF Len(h) > MaxHistory THEN SubSeq(h, Len(h) - (MaxHistory \div 2) + 1, Len(h)) ELSE h

\* The history becomes g where it was h.
Count(h, g) == forgets' = forgets + IF Watched \in ToSet(h) \ ToSet(g) THEN 1 ELSE 0

Duplicate(w) ==
    /\ pc[w] = "history" /\ share[w] \in ToSet(history[PoolOf(w)])
    /\ GoTo(w, "loop")
    /\ UNCHANGED <<netVars, sends>>

\* Mutant: the history is asked and added to in two sections, so what another
\* worker has added meanwhile goes unnoticed.
RememberBlindly(w) ==
    /\ pc[w] = "history"
    /\ LET p == PoolOf(w)
           longer == Append(history[p], share[w])
       IN  /\ history' = [history EXCEPT ![p] = Trim(longer)]
           /\ Count(longer, Trim(longer))
    /\ GoTo(w, "send")
    /\ UNCHANGED <<link, handling, jobs, drops, announced, sends>>

Remember(w) ==
    /\ pc[w] = "history" /\ share[w] \notin ToSet(history[PoolOf(w)])
    /\ LET p == PoolOf(w)
           longer == Append(history[p], share[w])
       IN  /\ history' = [history EXCEPT ![p] = Trim(longer)]
           /\ Count(longer, Trim(longer))
    /\ GoTo(w, "send")
    /\ UNCHANGED <<link, handling, jobs, drops, announced, sends>>

\* send: to whatever connection there is now; it may fail.
SendOk(w) ==
    /\ pc[w] = "send" /\ link[PoolOf(w)] # "down"
    /\ sends' = sends + IF share[w] = Watched THEN 1 ELSE 0
    /\ GoTo(w, "loop")
    /\ UNCHANGED netVars

SendFails(w) ==
    /\ pc[w] = "send"
    /\ GoTo(w, "loop")
    /\ UNCHANGED <<netVars, sends>>

WorkerStep(w) == Turn(w) \/ Route(w) \/ Duplicate(w) \/ Remember(w) \/ SendOk(w) \/ SendFails(w)
-----------------------------------------------------------------------------
(* The two network threads.                                                 *)

\* handleJob up to the call of the miner: the history of the pool is cleared.  A
\* pool may send a job before it answers the login.
Announce(p) ==
    /\ link[p] # "down" /\ handling[p] = None /\ jobs[p] < MaxJobs[p]
    /\ jobs' = [jobs EXCEPT ![p] = @ + 1]
    /\ handling' = [handling EXCEPT ![p] = [pool |-> p, n |-> jobs[p] + 1]]
    /\ announced' = IF p = "user" THEN announced \cup {handling'[p]} ELSE announced
    /\ history' = [history EXCEPT ![p] = <<>>]
    /\ Count(history[p], <<>>)
    /\ UNCHANGED <<workerVars, link, drops, currentJob, devFeeActive, poolDisconnected, fees,
                   sends>>

\* onJob, the plain path
OnJob ==
    /\ handling["user"] # None
    /\ currentJob' = [currentJob EXCEPT !["user"] = handling["user"]]
    /\ IF devFeeActive THEN UNCHANGED given ELSE SetJobs(handling["user"])
    /\ paused' = (paused /\ ~poolDisconnected)
    /\ poolDisconnected' = FALSE
    /\ handling' = [handling EXCEPT !["user"] = None]
    /\ UNCHANGED <<local, nonce, pc, share, link, history, jobs, drops, announced, forgets,
                   devFeeActive, fees, sends>>

\* Mutant: the workers are resumed by a job of either pool.
OnDevJobResumes ==
    /\ handling["dev"] # None
    /\ currentJob' = [currentJob EXCEPT !["dev"] = handling["dev"]]
    /\ IF devFeeActive THEN SetJobs(handling["dev"]) ELSE UNCHANGED given
    /\ paused' = FALSE
    /\ poolDisconnected' = FALSE
    /\ handling' = [handling EXCEPT !["dev"] = None]
    /\ UNCHANGED <<local, nonce, pc, share, link, history, jobs, drops, announced, forgets,
                   devFeeActive, fees, sends>>

OnDevJob ==
    /\ handling["dev"] # None
    /\ currentJob' = [currentJob EXCEPT !["dev"] = handling["dev"]]
    /\ IF devFeeActive THEN SetJobs(handling["dev"]) ELSE UNCHANGED given
    /\ handling' = [handling EXCEPT !["dev"] = None]
    /\ UNCHANGED <<local, nonce, pc, share, paused, link, history, jobs, drops, announced,
                   forgets, devFeeActive, poolDisconnected, fees, sends>>

\* Only the loss of the user's pool pauses the workers.
Lose(p) ==
    /\ link[p] # "down" /\ handling[p] = None /\ drops[p] < MaxDrops[p]
    /\ link' = [link EXCEPT ![p] = "down"]
    /\ drops' = [drops EXCEPT ![p] = @ + 1]
    /\ IF p = "user" THEN poolDisconnected' = TRUE /\ paused' = TRUE /\ announced' = {}
                     ELSE UNCHANGED <<poolDisconnected, paused, announced>>
    /\ UNCHANGED <<given, local, nonce, pc, share, handling, history, jobs, forgets,
                   currentJob, devFeeActive, fees, sends>>

\* poll itself fails: the connection is closed and the miner is not told.
LoseUnnoticed(p) ==
    /\ link[p] # "down" /\ handling[p] = None /\ drops[p] < MaxDrops[p]
    /\ link' = [link EXCEPT ![p] = "down"]
    /\ drops' = [drops EXCEPT ![p] = @ + 1]
    /\ UNCHANGED <<workerVars, handling, history, jobs, announced, forgets, currentJob,
                   devFeeActive, poolDisconnected, fees, sends>>

Connect(p) ==
    /\ link[p] = "down"
    /\ link' = [link EXCEPT ![p] = "open"]
    /\ UNCHANGED <<workerVars, handling, history, jobs, drops, announced, forgets, currentJob,
                   devFeeActive, poolDisconnected, fees, sends>>

\* The answer to the login, without or before its job.
LoggedIn(p) ==
    /\ link[p] = "open"
    /\ link' = [link EXCEPT ![p] = "ready"]
    /\ UNCHANGED <<workerVars, handling, history, jobs, drops, announced, forgets, currentJob,
                   devFeeActive, poolDisconnected, fees, sends>>
-----------------------------------------------------------------------------
(* The fee thread; FeeClock has its times.                                  *)

SwitchToDevPool ==
    /\ ~devFeeActive /\ currentJob["dev"] # None /\ fees < MaxFees
    /\ devFeeActive' = TRUE /\ fees' = fees + 1
    /\ SetJobs(currentJob["dev"])
    /\ UNCHANGED <<local, nonce, pc, share, paused, netVars, currentJob, poolDisconnected, sends>>

SwitchToUserPool ==
    /\ devFeeActive
    /\ devFeeActive' = FALSE
    /\ SetJobs(currentJob["user"])
    /\ UNCHANGED <<local, nonce, pc, share, paused, netVars, currentJob, poolDisconnected, fees,
                   sends>>
-----------------------------------------------------------------------------
Next ==
    \/ \E w \in Workers : WorkerStep(w)
    \/ \E p \in Pools : Announce(p) \/ Lose(p) \/ LoseUnnoticed(p) \/ Connect(p)
                         \/ LoggedIn(p)
    \/ OnJob \/ OnDevJob
    \/ SwitchToDevPool \/ SwitchToUserPool

Spec == Init /\ [][Next]_vars
-----------------------------------------------------------------------------
TypeOK ==
    /\ given \in [Workers -> Jobs \cup {None}] /\ local \in [Workers -> Jobs \cup {None}]
    /\ nonce \in [Workers -> 0..Nonces]
    /\ pc \in [Workers -> {"loop", "submit", "history", "send"}]
    /\ share \in [Workers -> Shares \cup {NoShare}]
    /\ paused \in BOOLEAN /\ devFeeActive \in BOOLEAN /\ poolDisconnected \in BOOLEAN
    /\ currentJob \in [Pools -> Jobs \cup {None}] /\ handling \in [Pools -> Jobs \cup {None}]
    /\ link \in [Pools -> {"down", "open", "ready"}]
    /\ DOMAIN history = Pools
    /\ \A p \in Pools : Len(history[p]) <= MaxHistory /\ ToSet(history[p]) \subseteq Shares
    /\ jobs \in [Pools -> Nat] /\ drops \in [Pools -> Nat] /\ fees \in 0..MaxFees
    /\ announced \subseteq Jobs
    /\ sends \in Nat /\ forgets \in Nat

UserLink == INSTANCE PoolLink WITH link <- link["user"], told <- poolDisconnected

(* The user's connection here is a PoolLink too: the job that makes the     *)
(* miner forget a loss was announced on a connection that is still up when  *)
(* the miner gets it (Client.cpp:561-740, Miner.cpp:78-85, 252-266).        *)
KeepsUserLink == UserLink!Spec

(* A share goes out once for each time it is recorded: it is sent again     *)
(* only when its record was dropped, by a trim or by the pool's next job,   *)
(* however often and by how many workers it is found (Client.cpp:519-538).  *)
Sending == {w \in Workers : pc[w] = "send" /\ share[w] = Watched}
NoShareTwice == sends + Cardinality(Sending) <= forgets + 1

(* Each pool is offered shares of its own jobs only, before, during and     *)
(* after a fee period, although the workers learn of a switch at their own  *)
(* time (Miner.cpp:322-352, Worker.cpp:203-206).                            *)
OwnHistory == \A p \in Pools : \A s \in ToSet(history[p]) : s.job.pool = p

(* A worker that is not paused is on no user job of before the last loss    *)
(* that the miner was told of: until the pool's next job, neither a fee     *)
(* switch nor the dev pool sets the workers to the old job again            *)
(* (Miner.h:85, Miner.cpp:78-85, 258-270, 486).                             *)
NoStaleHashing ==
    ~paused => \A w \in Workers : given[w].pool = "user" => given[w] \in announced
=============================================================================
