----------------------------- MODULE SharesProofs -----------------------------
(***************************************************************************)
(* Shares for any number of workers, jobs, losses and fee periods and any  *)
(* size of the submit history: what each pool is offered, how often, and   *)
(* what the workers hash while the user's pool is gone.  Then JobTarget,   *)
(* which says what a share is, for any width of the target.                 *)
(***************************************************************************)
EXTENDS Shares, JobTarget, SequenceTheorems, FiniteSetTheorems, TLAPS

Flags == paused \in BOOLEAN /\ devFeeActive \in BOOLEAN /\ poolDisconnected \in BOOLEAN

WorkerTypes ==
    /\ given \in [Workers -> Jobs \cup {None}] /\ local \in [Workers -> Jobs \cup {None}]
    /\ pc \in [Workers -> {"loop", "submit", "history", "send"}]
    /\ share \in [Workers -> Shares \cup {NoShare}]

PoolTypes ==
    /\ currentJob \in [Pools -> Jobs \cup {None}] /\ handling \in [Pools -> Jobs \cup {None}]
    /\ link \in [Pools -> {"down", "open", "ready"}]

Counters ==
    /\ nonce \in [Workers -> 0..Nonces]
    /\ jobs \in [Pools -> Nat] /\ drops \in [Pools -> Nat] /\ fees \in 0..MaxFees
    /\ announced \subseteq Jobs
    /\ sends \in Nat /\ forgets \in Nat

Histories == /\ history \in [Pools -> Seq(Shares)]
             /\ \A p \in Pools : Len(history[p]) <= MaxHistory

\* A worker in onSubmit has a share.
HasShare == \A w \in Workers : pc[w] # "loop" => share[w] \in Shares

Types == Flags /\ WorkerTypes /\ PoolTypes /\ Counters /\ Histories /\ HasShare
-----------------------------------------------------------------------------
(* The submit history.                                                      *)

LEMMA HalfHistory == /\ MaxHistory \in Nat /\ MaxHistory > 0
                     /\ MaxHistory \div 2 \in Nat /\ MaxHistory \div 2 < MaxHistory
  BY NoncesAssumption, SMT

(* A trim keeps the newest half and nothing else (Client.cpp:536-539).      *)
LEMMA TrimKeeps ==
    ASSUME NEW h \in Seq(Shares), Len(h) <= MaxHistory + 1
    PROVE  /\ Trim(h) \in Seq(Shares) /\ Len(Trim(h)) <= MaxHistory
           /\ ToSet(Trim(h)) \subseteq ToSet(h)
<1>1. CASE Len(h) <= MaxHistory
  <2>1. Trim(h) = h
    BY <1>1, HalfHistory DEF Trim
  <2> QED BY <2>1, <1>1
<1>2. CASE Len(h) > MaxHistory
  <2> DEFINE m == Len(h) - (MaxHistory \div 2) + 1
  <2>1. m \in Int /\ Len(h) \in Nat /\ m >= 1 /\ Len(h) - m + 1 = MaxHistory \div 2
    BY <1>2, HalfHistory
  <2>2. Trim(h) = SubSeq(h, m, Len(h))
    BY <1>2, HalfHistory DEF Trim
  <2> HIDE DEF m
  <2>3. \A i \in m .. Len(h) : h[i] \in Shares
    BY <2>1, ElementOfSeq
  <2>4. /\ Trim(h) \in Seq(Shares)
        /\ Len(Trim(h)) = IF m <= Len(h) THEN Len(h) - m + 1 ELSE 0
        /\ \A i \in 1 .. Len(h) - m + 1 : Trim(h)[i] = h[m + i - 1]
    BY <2>1, <2>2, <2>3, SubSeqProperties
  <2>5. Len(Trim(h)) <= MaxHistory
    BY <2>1, <2>4, HalfHistory
  <2>6. ASSUME NEW i \in DOMAIN Trim(h) PROVE Trim(h)[i] \in ToSet(h)
    <3>1. i \in 1 .. Len(Trim(h)) /\ Len(Trim(h)) \in Nat
      BY <2>4, LenProperties
    <3>2. i \in 1 .. Len(h) - m + 1
      BY <2>1, <2>4, <3>1
    <3>3. m + i - 1 \in 1 .. Len(h)
      BY <2>1, <3>2
    <3>4. m + i - 1 \in DOMAIN h
      BY <3>3, LenProperties
    <3> QED BY <2>4, <3>2, <3>4 DEF ToSet
  <2> QED BY <2>4, <2>5, <2>6 DEF ToSet
<1> QED BY <1>1, <1>2, HalfHistory

LEMMA AppendAdds ==
    ASSUME NEW h \in Seq(Shares), NEW s \in Shares
    PROVE  /\ Append(h, s) \in Seq(Shares) /\ Len(Append(h, s)) = Len(h) + 1
           /\ ToSet(Append(h, s)) = ToSet(h) \cup {s}
<1>1. /\ Append(h, s) \in Seq(Shares) /\ Len(Append(h, s)) = Len(h) + 1
      /\ \A i \in 1.. Len(h) : Append(h, s)[i] = h[i]
      /\ Append(h, s)[Len(h) + 1] = s
  BY AppendProperties
<1>2. DOMAIN h = 1..Len(h) /\ DOMAIN Append(h, s) = 1..Len(h) + 1 /\ Len(h) \in Nat
  BY <1>1, LenProperties
<1>3. \A i \in DOMAIN Append(h, s) : i \in DOMAIN h \/ i = Len(h) + 1
  BY <1>2
<1>4. \A i \in DOMAIN h : i \in DOMAIN Append(h, s)
  BY <1>2
<1>5. Len(h) + 1 \in DOMAIN Append(h, s)
  BY <1>2
<1>6. ToSet(Append(h, s)) \subseteq ToSet(h) \cup {s}
  BY <1>1, <1>2, <1>3 DEF ToSet
<1>7. ToSet(h) \cup {s} \subseteq ToSet(Append(h, s))
  BY <1>1, <1>2, <1>4, <1>5 DEF ToSet
<1> QED BY <1>1, <1>6, <1>7

\* Recording a share keeps the types of the history.
LEMMA RecordKeeps ==
    ASSUME NEW h \in Seq(Shares), Len(h) <= MaxHistory, NEW s \in Shares
    PROVE  /\ Trim(Append(h, s)) \in Seq(Shares) /\ Len(Trim(Append(h, s))) <= MaxHistory
           /\ ToSet(Trim(Append(h, s))) \subseteq ToSet(h) \cup {s}
<1>1. Len(h) \in Nat /\ Len(Append(h, s)) <= MaxHistory + 1
  BY AppendAdds, LenProperties, HalfHistory
<1> QED BY <1>1, AppendAdds, TrimKeeps

LEMMA NoHistory == <<>> \in Seq(Shares) /\ Len(<<>>) = 0 /\ ToSet(<<>>) = {}
  BY EmptySeq DEF ToSet
-----------------------------------------------------------------------------
(* Types.                                                                   *)

LEMMA NoneIsNoJob == None \notin Jobs /\ NoShare \notin Shares /\ Watched \in Shares
  BY GoodAssumption DEF None, Jobs, NoShare, Share, Shares

LEMMA FoundIsShare == \A j \in Jobs : \A k \in Nat : Share(j, k) \in Shares
  BY DEF Share, Shares

LEMMA InitTypes == Init => Types
<1> SUFFICES ASSUME Init PROVE Types
  OBVIOUS
<1>1. Flags /\ WorkerTypes /\ PoolTypes /\ HasShare
  BY DEF Init, Flags, WorkerTypes, PoolTypes, HasShare
<1>2. Counters
  BY NoncesAssumption DEF Init, Counters
<1>3. Histories
  BY NoHistory, HalfHistory DEF Init, Histories
<1> QED BY <1>1, <1>2, <1>3 DEF Types

\* What GoTo does to the worker's part.
LEMMA GoToTypes ==
    ASSUME Types, NEW w \in Workers, NEW step \in {"loop", "history", "send"}, GoTo(w, step),
           pc[w] # "loop"
    PROVE  WorkerTypes' /\ HasShare' /\ share[w] \in Shares
<1>1. share[w] \in Shares
  BY DEF Types, HasShare
<1>2. WorkerTypes'
  BY DEF Types, WorkerTypes, GoTo
<1>3. HasShare'
  BY <1>1 DEF Types, WorkerTypes, HasShare, GoTo
<1> QED BY <1>1, <1>2, <1>3

LEMMA TurnTypes == ASSUME Types, NEW w \in Workers, Turn(w) PROVE Types'
<1>1. NextNonce(w) \in Nat /\ NextNonce(w) + 1 \in 0..Nonces
  BY NoncesAssumption DEF Types, Counters, Turn, NextNonce
<1>2. given[w] \in Jobs
  BY DEF Types, WorkerTypes, Turn
<1>3. Share(given[w], NextNonce(w)) \in Shares
  BY <1>1, <1>2, FoundIsShare
<1>4. WorkerTypes'
  BY <1>2, <1>3 DEF Types, WorkerTypes, Turn
<1>5. HasShare'
  BY <1>3 DEF Types, WorkerTypes, HasShare, Turn
<1>6. Counters'
  BY <1>1 DEF Types, Counters, Turn, netVars
<1>7. Flags' /\ PoolTypes' /\ Histories'
  BY DEF Types, Flags, PoolTypes, Histories, Turn, netVars
<1> QED BY <1>4, <1>5, <1>6, <1>7 DEF Types

LEMMA ShareInOnePool ==
    ASSUME NEW s \in Shares PROVE s.job.pool \in Pools /\ s.job \in Jobs
  BY DEF Shares, Jobs

LEMMA WorkerTypesKept == ASSUME Types, NEW w \in Workers, WorkerStep(w) PROVE Types'
<1>1. CASE Turn(w)
  BY <1>1, TurnTypes
<1>2. CASE Route(w)
  <2>1. \E step \in {"loop", "history"} : GoTo(w, step)
    BY <1>2 DEF Route
  <2>2. WorkerTypes' /\ HasShare'
    BY <1>2, <2>1, GoToTypes DEF Route
  <2>3. Flags' /\ PoolTypes' /\ Histories' /\ Counters'
    BY <1>2, <2>1 DEF Types, Flags, PoolTypes, Histories, Counters, Route, GoTo, netVars
  <2> QED BY <2>2, <2>3 DEF Types
<1>3. CASE Duplicate(w)
  <2>1. WorkerTypes' /\ HasShare'
    BY <1>3, GoToTypes DEF Duplicate
  <2>2. Flags' /\ PoolTypes' /\ Histories' /\ Counters'
    BY <1>3 DEF Types, Flags, PoolTypes, Histories, Counters, Duplicate, GoTo, netVars
  <2> QED BY <2>1, <2>2 DEF Types
<1>4. CASE Remember(w)
  <2>1. WorkerTypes' /\ HasShare' /\ share[w] \in Shares
    BY <1>4, GoToTypes DEF Remember
  <2>2. PoolOf(w) \in Pools
    BY <2>1, ShareInOnePool DEF PoolOf
  <2>3. /\ Trim(Append(history[PoolOf(w)], share[w])) \in Seq(Shares)
        /\ Len(Trim(Append(history[PoolOf(w)], share[w]))) <= MaxHistory
    BY <2>1, <2>2, RecordKeeps DEF Types, Histories
  <2>4. history' = [history EXCEPT ![PoolOf(w)] = Trim(Append(history[PoolOf(w)], share[w]))]
    BY <1>4 DEF Remember
  <2>5. Histories'
    BY <2>2, <2>3, <2>4 DEF Types, Histories
  <2>6. forgets' \in Nat
    BY <1>4 DEF Types, Counters, Remember, Count
  <2>7. Flags' /\ PoolTypes' /\ Counters'
    BY <1>4, <2>6 DEF Types, Flags, PoolTypes, Counters, Remember, GoTo
  <2> QED BY <2>1, <2>5, <2>7 DEF Types
<1>5. CASE SendOk(w)
  <2>1. WorkerTypes' /\ HasShare'
    BY <1>5, GoToTypes DEF SendOk
  <2>2. Flags' /\ PoolTypes' /\ Histories' /\ Counters'
    BY <1>5 DEF Types, Flags, PoolTypes, Histories, Counters, SendOk, GoTo, netVars
  <2> QED BY <2>1, <2>2 DEF Types
<1>6. CASE SendFails(w)
  <2>1. WorkerTypes' /\ HasShare'
    BY <1>6, GoToTypes DEF SendFails
  <2>2. Flags' /\ PoolTypes' /\ Histories' /\ Counters'
    BY <1>6 DEF Types, Flags, PoolTypes, Histories, Counters, SendFails, GoTo, netVars
  <2> QED BY <2>1, <2>2 DEF Types
<1> QED BY <1>1, <1>2, <1>3, <1>4, <1>5, <1>6 DEF WorkerStep

LEMMA AnnounceTypes == ASSUME Types, NEW p \in Pools, Announce(p) PROVE Types'
<1> DEFINE j == [pool |-> p, n |-> jobs[p] + 1]
<1>1. j \in Jobs
  BY DEF Types, Counters, Jobs
<1>2. handling' = [handling EXCEPT ![p] = j] /\ handling'[p] = j
  BY DEF Announce, Types, PoolTypes
<1>3. PoolTypes'
  BY <1>1, <1>2 DEF Types, PoolTypes, Announce
<1>4. announced' \subseteq Jobs
  BY <1>1, <1>2 DEF Types, Counters, Announce
<1>5. forgets' \in Nat
  BY DEF Types, Counters, Announce, Count
<1>6. Counters'
  BY <1>4, <1>5 DEF Types, Counters, Announce, workerVars
<1>7. Histories'
  BY NoHistory, HalfHistory DEF Types, Histories, Announce
<1>8. Flags' /\ WorkerTypes' /\ HasShare'
  BY DEF Types, Flags, WorkerTypes, HasShare, Announce, workerVars
<1> QED BY <1>3, <1>6, <1>7, <1>8 DEF Types

LEMMA PoolTypesKept ==
    ASSUME Types, NEW p \in Pools, Lose(p) \/ LoseUnnoticed(p) \/ Connect(p) \/ LoggedIn(p)
    PROVE  Types'
<1>1. CASE Lose(p)
  <2>0. drops' \in [Pools -> Nat] /\ UNCHANGED <<nonce, jobs, fees, sends, forgets>>
    BY <1>1 DEF Lose, Types, Counters
  <2>1. ASSUME p = "user" PROVE Flags' /\ announced' \subseteq Jobs
    BY <1>1, <2>1 DEF Lose, Types, Flags
  <2>2. ASSUME p # "user" PROVE Flags' /\ announced' \subseteq Jobs
    BY <1>1, <2>2 DEF Lose, Types, Flags, Counters
  <2>3. PoolTypes' /\ Histories'
    BY <1>1 DEF Lose, Types, PoolTypes, Histories
  <2>4. WorkerTypes' /\ HasShare'
    BY <1>1 DEF Lose, Types, WorkerTypes, HasShare
  <2>5. Counters'
    BY <2>0, <2>1, <2>2 DEF Types, Counters
  <2> QED BY <2>1, <2>2, <2>3, <2>4, <2>5 DEF Types
<1>2. CASE Connect(p)
  BY <1>2 DEF Connect, Types, Flags, WorkerTypes, PoolTypes, Counters, Histories, HasShare,
              workerVars
<1>3. CASE LoggedIn(p)
  BY <1>3 DEF LoggedIn, Types, Flags, WorkerTypes, PoolTypes, Counters, Histories, HasShare,
              workerVars
<1>4. CASE LoseUnnoticed(p)
  BY <1>4 DEF LoseUnnoticed, Types, Flags, WorkerTypes, PoolTypes, Counters, Histories,
              HasShare, workerVars
<1> QED BY <1>1, <1>2, <1>3, <1>4

LEMMA JobTypesKept ==
    ASSUME Types, OnJob \/ OnDevJob \/ SwitchToDevPool \/ SwitchToUserPool
    PROVE  Types'
<1> USE DEF SetJobs
<1>1. handling["user"] \in Jobs \cup {None} /\ currentJob["user"] \in Jobs \cup {None}
  BY DEF Types, PoolTypes, Pools
<1>2. handling["dev"] \in Jobs \cup {None} /\ currentJob["dev"] \in Jobs \cup {None}
  BY DEF Types, PoolTypes, Pools
<1>3. CASE OnJob
  BY <1>1, <1>3 DEF OnJob, Types, Flags, WorkerTypes, PoolTypes, Counters, Histories, HasShare
<1>4. CASE OnDevJob
  BY <1>2, <1>4 DEF OnDevJob, Types, Flags, WorkerTypes, PoolTypes, Counters, Histories,
                    HasShare
<1>5. CASE SwitchToDevPool
  BY <1>2, <1>5, NoncesAssumption DEF SwitchToDevPool, Types, Flags, WorkerTypes, PoolTypes,
                    Counters, Histories, HasShare, netVars
<1>6. CASE SwitchToUserPool
  BY <1>1, <1>6 DEF SwitchToUserPool, Types, Flags, WorkerTypes, PoolTypes, Counters,
                    Histories, HasShare, netVars
<1> QED BY <1>3, <1>4, <1>5, <1>6

LEMMA TypesKept == Types /\ [Next]_vars => Types'
<1> SUFFICES ASSUME Types, [Next]_vars PROVE Types'
  OBVIOUS
<1>1. CASE UNCHANGED vars
  BY <1>1 DEF Types, Flags, WorkerTypes, PoolTypes, Counters, Histories, HasShare,
              vars, workerVars, netVars
<1>2. CASE Next
  BY <1>2, WorkerTypesKept, AnnounceTypes, PoolTypesKept, JobTypesKept DEF Next
<1> QED BY <1>1, <1>2
LEMMA TypesHold == Spec => []Types
<1> QED BY InitTypes, TypesKept, PTL DEF Spec

\* What a recorded share is.
LEMMA InHistory == ASSUME NEW h \in Seq(Shares) PROVE ToSet(h) \subseteq Shares
<1>1. \A i \in DOMAIN h : h[i] \in Shares
  BY ElementOfSeq, LenProperties
<1> QED BY <1>1 DEF ToSet

(* The values of the variables, whatever the bounds on events.              *)
THEOREM SharesTypeCorrect == Spec => []TypeOK
<1>1. Types => TypeOK
  <2> SUFFICES ASSUME Types PROVE TypeOK
    OBVIOUS
  <2>1. \A p \in Pools : Len(history[p]) <= MaxHistory /\ ToSet(history[p]) \subseteq Shares
    BY InHistory DEF Types, Histories
  <2>2. DOMAIN history = Pools
    BY DEF Types, Histories
  <2> QED BY <2>1, <2>2 DEF Types, Flags, WorkerTypes, PoolTypes, Counters, TypeOK
<1> QED BY <1>1, TypesHold, PTL
-----------------------------------------------------------------------------
(* Each pool is offered shares of its own jobs.                             *)

\* The two ways in which a history changes.
LEMMA HistorySteps ==
    ASSUME Types, Next
    PROVE  \/ UNCHANGED history
           \/ \E w \in Workers : Remember(w)
           \/ \E p \in Pools : Announce(p)
  BY DEF Next, WorkerStep, Turn, Route, Duplicate, SendOk, SendFails, GoTo, netVars, Lose,
         LoseUnnoticed, Connect, LoggedIn, OnJob, OnDevJob, SwitchToDevPool, SwitchToUserPool

LEMMA RememberFacts ==
    ASSUME Types, NEW w \in Workers, Remember(w)
    PROVE  /\ share[w] \in Shares /\ PoolOf(w) \in Pools
           /\ share[w] \notin ToSet(history[PoolOf(w)])
           /\ history' = [history EXCEPT ![PoolOf(w)] =
                             Trim(Append(history[PoolOf(w)], share[w]))]
           /\ ToSet(Append(history[PoolOf(w)], share[w])) =
                  ToSet(history[PoolOf(w)]) \cup {share[w]}
           /\ ToSet(Trim(Append(history[PoolOf(w)], share[w]))) \subseteq
                  ToSet(history[PoolOf(w)]) \cup {share[w]}
<1>1. share[w] \in Shares
  BY DEF Types, HasShare, Remember
<1>2. PoolOf(w) \in Pools
  BY <1>1, ShareInOnePool DEF PoolOf
<1>3. history[PoolOf(w)] \in Seq(Shares) /\ Len(history[PoolOf(w)]) <= MaxHistory
  BY <1>2 DEF Types, Histories
<1> QED BY <1>1, <1>2, <1>3, AppendAdds, RecordKeeps DEF Remember

LEMMA OwnHistoryKept == Types /\ OwnHistory /\ [Next]_vars => OwnHistory'
<1> SUFFICES ASSUME Types, OwnHistory, [Next]_vars PROVE OwnHistory'
  OBVIOUS
<1>1. CASE UNCHANGED history
  BY <1>1 DEF OwnHistory
<1>2. ASSUME NEW w \in Workers, Remember(w) PROVE OwnHistory'
  <2> SUFFICES ASSUME NEW p \in Pools, NEW s \in ToSet(history'[p]) PROVE s.job.pool = p
    BY DEF OwnHistory
  <2>1. CASE p = PoolOf(w)
    <3>1. s \in ToSet(history[p]) \cup {share[w]}
      BY <1>2, <2>1, RememberFacts DEF Types, Histories
    <3> QED BY <2>1, <3>1 DEF OwnHistory, PoolOf
  <2>2. CASE p # PoolOf(w)
    BY <1>2, <2>2, RememberFacts DEF OwnHistory, Types, Histories
  <2> QED BY <2>1, <2>2
<1>3. ASSUME NEW p \in Pools, Announce(p) PROVE OwnHistory'
  BY <1>3, NoHistory DEF OwnHistory, Announce, Types, Histories
<1>4. CASE UNCHANGED vars
  BY <1>1, <1>4 DEF vars, netVars
<1> QED BY <1>1, <1>2, <1>3, <1>4, HistorySteps

(* The client of a pool records, and so sends, shares of that pool's jobs   *)
(* only, whenever the fee thread switches (Miner.cpp:322-352).              *)
THEOREM SharesToOwnPool == Spec => []OwnHistory
<1>1. Init => OwnHistory
  BY NoHistory DEF Init, OwnHistory
<1> QED BY <1>1, OwnHistoryKept, TypesHold, PTL DEF Spec
-----------------------------------------------------------------------------
(* Nobody hashes a job of a lost connection.                                *)

\* Each pool's jobs stay apart.
OwnJobs == \A p \in Pools : /\ currentJob[p] # None => currentJob[p].pool = p
                            /\ handling[p] # None => handling[p].pool = p

\* In a fee period nobody has a user job to go back to.
FeeJobs == devFeeActive => \A w \in Workers : given[w].pool = "dev"

\* The job on its way to the miner, and the one the workers would be given
\* after a fee period, are of the present connection.
FreshJobs ==
    /\ handling["user"] # None => handling["user"] \in announced
    /\ ~paused => currentJob["user"] \in announced \cup {None}

Fresh == OwnJobs /\ FeeJobs /\ FreshJobs /\ NoStaleHashing

LEMMA PoolNames == /\ "user" \in Pools /\ "dev" \in Pools
                   /\ None.pool # "user" /\ None.pool # "dev"
                   /\ \A p \in Pools : p = "user" \/ p = "dev"
  BY DEF Pools, None

LEMMA InitFresh == Init => Fresh
  BY PoolNames DEF Init, Fresh, OwnJobs, FeeJobs, FreshJobs, NoStaleHashing

\* A worker's turn changes nothing Fresh speaks of.
LEMMA WorkerFresh ==
    ASSUME Fresh, NEW w \in Workers, WorkerStep(w)
    PROVE  Fresh'
<1>1. UNCHANGED <<given, paused, currentJob, devFeeActive, handling, announced>>
  BY DEF WorkerStep, Turn, Route, Duplicate, Remember, SendOk, SendFails, GoTo, netVars
<1> QED BY <1>1 DEF Fresh, OwnJobs, FeeJobs, FreshJobs, NoStaleHashing

LEMMA AnnounceFresh == ASSUME Types, Fresh, NEW p \in Pools, Announce(p) PROVE Fresh'
<1> DEFINE j == [pool |-> p, n |-> jobs[p] + 1]
<1>1. handling' = [handling EXCEPT ![p] = j]
  BY DEF Announce
<1>2. /\ announced' = IF p = "user" THEN announced \cup {handling'[p]} ELSE announced
      /\ UNCHANGED <<given, paused, currentJob, devFeeActive>>
  BY DEF Announce, workerVars
<1>3. j.pool = p /\ handling'[p] = j /\ \A q \in Pools : q # p => handling'[q] = handling[q]
  BY <1>1 DEF Types, PoolTypes
<1>4. OwnJobs' /\ FeeJobs'
  BY <1>2, <1>3 DEF Fresh, OwnJobs, FeeJobs
<1>5. announced \subseteq announced'
  BY <1>2
<1>6. handling'["user"] # None => handling'["user"] \in announced'
  BY <1>2, <1>3, <1>5, PoolNames DEF Fresh, FreshJobs
<1>7. FreshJobs' /\ NoStaleHashing'
  BY <1>2, <1>5, <1>6 DEF Fresh, FreshJobs, NoStaleHashing
<1> QED BY <1>4, <1>7 DEF Fresh

LEMMA LinkFresh ==
    ASSUME Fresh, NEW p \in Pools, Lose(p) \/ LoseUnnoticed(p) \/ Connect(p) \/ LoggedIn(p)
    PROVE  Fresh'
<1>1. UNCHANGED <<given, handling, currentJob, devFeeActive>>
  BY DEF Lose, LoseUnnoticed, Connect, LoggedIn, workerVars
<1>2. OwnJobs' /\ FeeJobs'
  BY <1>1 DEF Fresh, OwnJobs, FeeJobs
<1>3. CASE UNCHANGED <<paused, announced>>
  BY <1>1, <1>2, <1>3 DEF Fresh, FreshJobs, NoStaleHashing
<1>4. CASE Lose("user") /\ p = "user"
  <2>1. paused' = TRUE /\ handling["user"] = None
    BY <1>4 DEF Lose
  <2> QED BY <1>1, <1>2, <2>1 DEF Fresh, FreshJobs, NoStaleHashing
<1> QED BY <1>3, <1>4 DEF Lose, LoseUnnoticed, Connect, LoggedIn, workerVars

LEMMA OnJobFresh == ASSUME Types, Fresh, OnJob PROVE Fresh'
<1> DEFINE j == handling["user"]
<1>1. /\ j # None /\ j \in announced /\ j.pool = "user"
      /\ UNCHANGED <<announced, devFeeActive>>
  BY PoolNames DEF OnJob, Fresh, FreshJobs, OwnJobs
<1>2. /\ currentJob'["user"] = j /\ handling'["user"] = None
      /\ currentJob'["dev"] = currentJob["dev"] /\ handling'["dev"] = handling["dev"]
  BY PoolNames DEF OnJob, Types, PoolTypes
<1>3. OwnJobs' /\ FreshJobs'
  BY <1>1, <1>2, PoolNames DEF Fresh, OwnJobs, FreshJobs
<1>4. CASE devFeeActive
  <2>1. UNCHANGED given
    BY <1>4 DEF OnJob
  <2>2. FeeJobs' /\ NoStaleHashing'
    BY <1>1, <1>4, <2>1 DEF Fresh, FeeJobs, NoStaleHashing
  <2> QED BY <1>3, <2>2 DEF Fresh
<1>5. CASE ~devFeeActive
  <2>1. \A w \in Workers : given'[w] = j
    BY <1>5 DEF OnJob, SetJobs
  <2>2. FeeJobs' /\ NoStaleHashing'
    BY <1>1, <1>5, <2>1 DEF FeeJobs, NoStaleHashing
  <2> QED BY <1>3, <2>2 DEF Fresh
<1> QED BY <1>4, <1>5

LEMMA OnDevJobFresh == ASSUME Types, Fresh, OnDevJob PROVE Fresh'
<1> DEFINE j == handling["dev"]
<1>1. j # None /\ j.pool = "dev" /\ UNCHANGED <<announced, devFeeActive, paused>>
  BY PoolNames DEF OnDevJob, Fresh, OwnJobs
<1>2. /\ currentJob'["dev"] = j /\ handling'["dev"] = None
      /\ currentJob'["user"] = currentJob["user"] /\ handling'["user"] = handling["user"]
  BY PoolNames DEF OnDevJob, Types, PoolTypes
<1>3. OwnJobs' /\ FreshJobs'
  BY <1>1, <1>2, PoolNames DEF Fresh, OwnJobs, FreshJobs
<1>4. CASE devFeeActive
  <2>1. \A w \in Workers : given'[w] = j
    BY <1>4 DEF OnDevJob, SetJobs
  <2>2. FeeJobs' /\ NoStaleHashing'
    BY <1>1, <2>1 DEF FeeJobs, NoStaleHashing
  <2> QED BY <1>3, <2>2 DEF Fresh
<1>5. CASE ~devFeeActive
  <2>1. UNCHANGED given
    BY <1>5 DEF OnDevJob
  <2>2. FeeJobs' /\ NoStaleHashing'
    BY <1>1, <1>5, <2>1 DEF Fresh, FeeJobs, NoStaleHashing
  <2> QED BY <1>3, <2>2 DEF Fresh
<1> QED BY <1>4, <1>5

LEMMA SwitchFresh ==
    ASSUME Types, Fresh, SwitchToDevPool \/ SwitchToUserPool
    PROVE  Fresh'
<1>1. UNCHANGED <<paused, handling, announced, currentJob>>
  BY DEF SwitchToDevPool, SwitchToUserPool, netVars
<1>2. OwnJobs' /\ FreshJobs'
  BY <1>1 DEF Fresh, OwnJobs, FreshJobs
<1>3. CASE SwitchToDevPool
  <2>1. currentJob["dev"].pool = "dev"
    BY <1>3, PoolNames DEF SwitchToDevPool, Fresh, OwnJobs
  <2>2. \A w \in Workers : given'[w] = currentJob["dev"]
    BY <1>3 DEF SwitchToDevPool, SetJobs
  <2>3. FeeJobs' /\ NoStaleHashing'
    BY <2>1, <2>2 DEF FeeJobs, NoStaleHashing
  <2> QED BY <1>2, <2>3 DEF Fresh
<1>4. CASE SwitchToUserPool
  <2>1. \A w \in Workers : given'[w] = currentJob["user"]
    BY <1>4 DEF SwitchToUserPool, SetJobs
  <2>2. ~devFeeActive'
    BY <1>4 DEF SwitchToUserPool
  <2>3. FeeJobs' /\ NoStaleHashing'
    BY <1>1, <2>1, <2>2, PoolNames DEF Fresh, FeeJobs, FreshJobs, NoStaleHashing
  <2> QED BY <1>2, <2>3 DEF Fresh
<1> QED BY <1>3, <1>4

LEMMA FreshKept == Types /\ Fresh /\ [Next]_vars => Fresh'
<1>1. ASSUME Fresh, UNCHANGED vars PROVE Fresh'
  BY <1>1 DEF Fresh, OwnJobs, FeeJobs, FreshJobs, NoStaleHashing, vars, workerVars, netVars
<1> QED BY <1>1, WorkerFresh, AnnounceFresh, LinkFresh, OnJobFresh, OnDevJobFresh, SwitchFresh
        DEF Next

(* While the user's pool is gone nothing sets a running worker to a job of  *)
(* the lost connection (Miner.cpp:78-85, 258-270, 486).                     *)
THEOREM NothingStale == Spec => []NoStaleHashing
<1>1. Fresh => NoStaleHashing
  BY DEF Fresh
<1> QED BY <1>1, InitFresh, FreshKept, TypesHold, PTL DEF Spec
-----------------------------------------------------------------------------
(* No share is sent twice for one record.                                   *)

Recorded == IF Watched \in ToSet(history[Watched.job.pool]) THEN 1 ELSE 0

\* Each time the share was recorded it is on its way or was sent at most once;
\* of those times all but the last had their record dropped.
SentOnce == /\ IsFiniteSet(Sending)
            /\ sends + Cardinality(Sending) <= forgets + Recorded

LEMMA InitSentOnce == Init => SentOnce
<1> SUFFICES ASSUME Init PROVE SentOnce
  OBVIOUS
<1>1. Sending = {}
  BY DEF Init, Sending
<1>2. Recorded = 0
  BY NoneIsNoJob, ShareInOnePool, NoHistory DEF Init, Recorded
<1>3. sends = 0 /\ forgets = 0
  BY DEF Init
<1> QED BY <1>1, <1>2, <1>3, FS_EmptySet DEF SentOnce

LEMMA RecordedNumber == Recorded \in {0, 1}
  BY DEF Recorded

\* A worker that comes to "send" with the share, and one that leaves it.
LEMMA SendingSteps ==
    ASSUME Types, NEW w \in Workers
    PROVE  /\ GoTo(w, "loop") => Sending' = Sending \ {w}
           /\ GoTo(w, "history") /\ pc[w] # "send" => Sending' = Sending
           /\ GoTo(w, "send") /\ share[w] = Watched => Sending' = Sending \cup {w}
           /\ GoTo(w, "send") /\ pc[w] # "send" /\ share[w] # Watched => Sending' = Sending
<1>1. \A step : GoTo(w, step) => \A v \in Workers \ {w} : pc'[v] = pc[v] /\ share'[v] = share[v]
  BY DEF GoTo, Types, WorkerTypes
<1>3. ASSUME GoTo(w, "loop") PROVE Sending' = Sending \ {w}
  <2>1. \A v \in Workers : v # w => pc'[v] = pc[v] /\ share'[v] = share[v]
    BY <1>1, <1>3
  <2>2. pc'[w] = "loop"
    BY <1>3 DEF GoTo, Types, WorkerTypes
  <2> QED BY <1>3, <2>1, <2>2 DEF Sending
<1>4. ASSUME GoTo(w, "history"), pc[w] # "send" PROVE Sending' = Sending
  <2>1. \A v \in Workers : v # w => pc'[v] = pc[v] /\ share'[v] = share[v]
    BY <1>1, <1>4
  <2>2. pc'[w] = "history" /\ share'[w] = share[w]
    BY <1>4 DEF GoTo, Types, WorkerTypes
  <2> QED BY <1>4, <2>1, <2>2 DEF Sending
<1>5. ASSUME GoTo(w, "send"), share[w] = Watched PROVE Sending' = Sending \cup {w}
  <2>1. \A v \in Workers : v # w => pc'[v] = pc[v] /\ share'[v] = share[v]
    BY <1>1, <1>5
  <2>2. pc'[w] = "send" /\ share'[w] = share[w]
    BY <1>5 DEF GoTo, Types, WorkerTypes
  <2> QED BY <1>5, <2>1, <2>2 DEF Sending
<1>6. ASSUME GoTo(w, "send"), pc[w] # "send", share[w] # Watched PROVE Sending' = Sending
  <2>1. \A v \in Workers : v # w => pc'[v] = pc[v] /\ share'[v] = share[v]
    BY <1>1, <1>6
  <2>2. pc'[w] = "send" /\ share'[w] = share[w]
    BY <1>6 DEF GoTo, Types, WorkerTypes
  <2> QED BY <1>6, <2>1, <2>2 DEF Sending
<1> QED BY <1>3, <1>4, <1>5, <1>6

\* Steps that touch neither the share nor its record, or drop the record.
LEMMA QuietStep ==
    ASSUME Types, SentOnce, UNCHANGED <<sends, forgets, history>>,
           \/ Sending' = Sending
           \/ \E w \in Workers : Sending' = Sending \ {w}
    PROVE  SentOnce'
<1>1. Recorded' = Recorded /\ Recorded \in {0, 1} /\ sends \in Nat /\ forgets \in Nat
  BY RecordedNumber DEF Recorded, Types, Counters
<1>2. CASE Sending' = Sending
  BY <1>1, <1>2 DEF SentOnce
<1>3. ASSUME NEW w \in Workers, Sending' = Sending \ {w} PROVE SentOnce'
  <2>1. IsFiniteSet(Sending) /\ Cardinality(Sending) \in Nat
    BY FS_CardinalityType DEF SentOnce
  <2>2. /\ IsFiniteSet(Sending')
        /\ Cardinality(Sending') \in {Cardinality(Sending), Cardinality(Sending) - 1}
    BY <1>3, <2>1, FS_RemoveElement
  <2> QED BY <1>1, <2>1, <2>2 DEF SentOnce
<1> QED BY <1>2, <1>3

LEMMA SendSteps ==
    ASSUME Types, SentOnce, NEW w \in Workers,
           Turn(w) \/ Route(w) \/ Duplicate(w) \/ SendFails(w) \/ SendOk(w)
    PROVE  SentOnce'
<1>1. CASE Turn(w)
  <2>1. UNCHANGED <<sends, forgets, history>>
    BY <1>1 DEF Turn, netVars
  <2>2. \A v \in Workers : /\ (pc'[v] = "send" <=> pc[v] = "send")
                          /\ (pc[v] = "send" => share'[v] = share[v])
    BY <1>1 DEF Turn, Types, WorkerTypes
  <2>3. \A v \in Workers : v \in Sending' <=> v \in Sending
    BY <2>2 DEF Sending
  <2>4. Sending' = Sending
    BY <2>3 DEF Sending
  <2> QED BY <2>1, <2>4, QuietStep
<1>2. CASE Route(w)
  BY <1>2, SendingSteps, QuietStep DEF Route, netVars
<1>3. CASE Duplicate(w) \/ SendFails(w)
  BY <1>3, SendingSteps, QuietStep DEF Duplicate, SendFails, netVars
<1>4. CASE SendOk(w)
  <2>1. UNCHANGED <<forgets, history>> /\ Sending' = Sending \ {w}
    BY <1>4, SendingSteps DEF SendOk, netVars
  <2>2. Recorded' = Recorded /\ Recorded \in {0, 1} /\ sends \in Nat /\ forgets \in Nat
    BY <2>1, RecordedNumber DEF Recorded, Types, Counters
  <2>3. CASE share[w] = Watched
    <3>1. w \in Sending /\ sends' = sends + 1
      BY <1>4, <2>2, <2>3 DEF SendOk, Sending
    <3>2. /\ IsFiniteSet(Sending') /\ Cardinality(Sending) \in Nat
          /\ Cardinality(Sending') = Cardinality(Sending) - 1
      BY <2>1, <3>1, FS_RemoveElement, FS_CardinalityType DEF SentOnce
    <3> QED BY <2>1, <2>2, <3>1, <3>2 DEF SentOnce
  <2>4. CASE share[w] # Watched
    <3>1. sends' = sends
      BY <1>4, <2>2, <2>4 DEF SendOk
    <3> QED BY <2>1, <3>1, QuietStep
  <2> QED BY <2>3, <2>4
<1> QED BY <1>1, <1>2, <1>3, <1>4

LEMMA RememberSentOnce ==
    ASSUME Types, OwnHistory, SentOnce, NEW w \in Workers, Remember(w)
    PROVE  SentOnce'
<1> DEFINE p == PoolOf(w)
           q == Watched.job.pool
           longer == Append(history[p], share[w])
<1>1. q \in Pools
  BY NoneIsNoJob, ShareInOnePool
<1>2. p \in Pools /\ history' = [history EXCEPT ![p] = Trim(longer)]
  BY RememberFacts
<1>3. /\ ToSet(longer) = ToSet(history[p]) \cup {share[w]}
      /\ ToSet(Trim(longer)) \subseteq ToSet(longer)
  BY RememberFacts
<1>4. /\ forgets' = forgets + IF Watched \in ToSet(longer) \ ToSet(Trim(longer)) THEN 1 ELSE 0
      /\ sends' = sends /\ GoTo(w, "send") /\ pc[w] = "history"
  BY DEF Remember, Count
<1>5. share[w] \notin ToSet(history[p])
  BY RememberFacts
<1>6. sends \in Nat /\ forgets \in Nat /\ Cardinality(Sending) \in Nat /\ IsFiniteSet(Sending)
  BY FS_CardinalityType DEF Types, Counters, SentOnce
<1> HIDE DEF p, q, longer
<1>7. CASE share[w] = Watched
  <2>1. p = q
    BY <1>7 DEF p, q, PoolOf
  <2>2. Recorded = 0
    BY <1>5, <1>7, <2>1 DEF Recorded, q
  <2>3. history'[q] = Trim(longer)
    BY <1>1, <1>2, <2>1 DEF Types, Histories
  <2>4. forgets' + Recorded' = forgets + 1 /\ forgets' \in Nat /\ Recorded' \in {0, 1}
    BY <1>3, <1>4, <1>6, <1>7, <2>3 DEF Recorded, q
  <2>5. Sending' = Sending \cup {w} /\ w \notin Sending
    BY <1>4, <1>7, SendingSteps DEF Sending
  <2>6. IsFiniteSet(Sending') /\ Cardinality(Sending') = Cardinality(Sending) + 1
    BY <1>6, <2>5, FS_AddElement
  <2>7. sends + Cardinality(Sending) <= forgets
    BY <1>6, <2>2 DEF SentOnce
  <2>8. sends' + Cardinality(Sending') <= forgets' + Recorded'
    <3>1. sends' = sends
      BY <1>4
    <3>2. sends' + Cardinality(Sending') = sends + Cardinality(Sending) + 1
      BY <1>6, <2>6, <3>1
    <3>3. sends' + Cardinality(Sending') <= forgets + 1
      BY <1>6, <2>7, <3>2
    <3>4. forgets' + Recorded' = forgets + 1
      BY <2>4
    <3> QED BY <3>3, <3>4
  <2> QED BY <2>6, <2>8 DEF SentOnce
<1>8. CASE share[w] # Watched
  <2>1. Sending' = Sending
    BY <1>4, <1>8, SendingSteps
  <2>2. forgets' + Recorded' = forgets + Recorded /\ forgets' \in Nat /\ Recorded' \in {0, 1}
    <3>1. CASE p = q
      <4>1. history'[q] = Trim(longer)
        BY <1>1, <1>2, <3>1 DEF Types, Histories
      <4>2. Watched \in ToSet(longer) <=> Watched \in ToSet(history[q])
        BY <1>3, <1>8, <3>1
      <4> QED BY <1>3, <1>4, <1>6, <4>1, <4>2 DEF Recorded, q
    <3>2. CASE p # q
      <4>1. history'[q] = history[q]
        BY <1>1, <1>2, <3>2 DEF Types, Histories
      <4>2. Watched \notin ToSet(history[p])
        BY <1>2, <3>2 DEF OwnHistory, q
      <4>3. forgets' = forgets
        BY <1>3, <1>4, <1>6, <1>8, <4>2
      <4> QED BY <1>6, <4>1, <4>3 DEF Recorded, q
    <3> QED BY <3>1, <3>2
  <2> QED BY <1>4, <1>6, <2>1, <2>2, RecordedNumber DEF SentOnce
<1> QED BY <1>7, <1>8

LEMMA AnnounceSentOnce ==
    ASSUME Types, OwnHistory, SentOnce, NEW p \in Pools, Announce(p)
    PROVE  SentOnce'
<1> DEFINE q == Watched.job.pool
<1>1. q \in Pools
  BY NoneIsNoJob, ShareInOnePool
<1>2. /\ history' = [history EXCEPT ![p] = <<>>] /\ sends' = sends /\ Sending' = Sending
      /\ forgets' = forgets + IF Watched \in ToSet(history[p]) \ ToSet(<<>>) THEN 1 ELSE 0
  BY DEF Announce, Count, Sending, workerVars
<1>3. sends \in Nat /\ forgets \in Nat /\ Cardinality(Sending) \in Nat
  BY FS_CardinalityType DEF Types, Counters, SentOnce
<1> HIDE DEF q
<1>4. forgets' + Recorded' = forgets + Recorded /\ forgets' \in Nat /\ Recorded' \in {0, 1}
  <2>1. CASE p = q
    <3>1. history'[q] = <<>>
      BY <1>1, <1>2, <2>1 DEF Types, Histories
    <3> QED BY <1>2, <1>3, <2>1, <3>1, NoHistory DEF Recorded, q
  <2>2. CASE p # q
    <3>1. history'[q] = history[q]
      BY <1>1, <1>2, <2>2 DEF Types, Histories
    <3>2. Watched \notin ToSet(history[p])
      BY <2>2 DEF OwnHistory, q
    <3>3. forgets' = forgets
      BY <1>2, <1>3, <3>2
    <3> QED BY <1>3, <3>1, <3>3 DEF Recorded, q
  <2> QED BY <2>1, <2>2
<1> QED BY <1>2, <1>3, <1>4, RecordedNumber DEF SentOnce

LEMMA OtherSentOnce ==
    ASSUME Types, SentOnce,
           \/ \E p \in Pools : Lose(p) \/ LoseUnnoticed(p) \/ Connect(p) \/ LoggedIn(p)
           \/ OnJob \/ OnDevJob \/ SwitchToDevPool \/ SwitchToUserPool
           \/ UNCHANGED vars
    PROVE  SentOnce'
<1>1. UNCHANGED <<sends, forgets, history, pc, share>>
  BY DEF Lose, LoseUnnoticed, Connect, LoggedIn, OnJob, OnDevJob, SwitchToDevPool,
         SwitchToUserPool, vars,
         workerVars, netVars
<1>2. Sending' = Sending
  BY <1>1 DEF Sending
<1> QED BY <1>1, <1>2, QuietStep

LEMMA SentOnceKept == Types /\ OwnHistory /\ SentOnce /\ [Next]_vars => SentOnce'
  BY SendSteps, RememberSentOnce, AnnounceSentOnce, OtherSentOnce DEF Next, WorkerStep

(* A share is sent once for each time it is recorded, whoever finds it and  *)
(* however often, for every size of the history (Client.cpp:519-542).       *)
THEOREM NothingTwice == Spec => []NoShareTwice
<1>1. Types /\ SentOnce => NoShareTwice
  <2> SUFFICES ASSUME Types, SentOnce PROVE NoShareTwice
    OBVIOUS
  <2>1. Recorded \in {0, 1} /\ sends \in Nat /\ forgets \in Nat /\ Cardinality(Sending) \in Nat
    BY RecordedNumber, FS_CardinalityType DEF Types, Counters, SentOnce
  <2> QED BY <2>1 DEF SentOnce, NoShareTwice
<1> QED BY <1>1, InitSentOnce, SentOnceKept, SharesToOwnPool, TypesHold, PTL DEF Spec
-----------------------------------------------------------------------------
(* The user's connection is a PoolLink.                                     *)

\* A job on its way to the miner came on a connection that is still up.
Arriving == handling["user"] # None => link["user"] # "down"

LinkVars == <<link["user"], poolDisconnected>>

LEMMA LinkKept ==
    ASSUME Types, Arriving, NEW p \in Pools,
           Lose(p) \/ LoseUnnoticed(p) \/ Connect(p) \/ LoggedIn(p)
    PROVE  Arriving' /\ (UserLink!Next \/ UNCHANGED LinkVars)
<1>1. link \in [Pools -> {"down", "open", "ready"}] /\ "user" \in Pools
  BY DEF Types, PoolTypes, Pools
<1>2. UNCHANGED handling
  BY DEF Lose, LoseUnnoticed, Connect, LoggedIn
<1>3. CASE p # "user"
  <2>1. link'["user"] = link["user"] /\ UNCHANGED poolDisconnected
    BY <1>1, <1>3 DEF Lose, LoseUnnoticed, Connect, LoggedIn
  <2> QED BY <1>2, <2>1 DEF Arriving, LinkVars
<1>4. CASE p = "user" /\ (Lose(p) \/ LoseUnnoticed(p))
  <2>1. link["user"] # "down" /\ link'["user"] = "down" /\ handling["user"] = None
    BY <1>1, <1>4 DEF Lose, LoseUnnoticed
  <2>2. poolDisconnected' = TRUE \/ UNCHANGED poolDisconnected
    BY <1>4 DEF Lose, LoseUnnoticed
  <2>3. UserLink!Lose \/ UserLink!LoseUnnoticed
    BY <2>1, <2>2 DEF UserLink!Lose, UserLink!LoseUnnoticed
  <2> QED BY <1>2, <2>1, <2>3 DEF Arriving, UserLink!Next
<1>5. CASE p = "user" /\ Connect(p)
  <2>1. UserLink!Connect
    BY <1>1, <1>5 DEF Connect, UserLink!Connect
  <2> QED BY <1>1, <1>2, <1>5, <2>1 DEF Connect, Arriving, UserLink!Next
<1>6. CASE p = "user" /\ LoggedIn(p)
  <2>1. UserLink!LogIn
    BY <1>1, <1>6 DEF LoggedIn, UserLink!LogIn
  <2> QED BY <1>1, <1>2, <1>6, <2>1 DEF LoggedIn, Arriving, UserLink!Next
<1> QED BY <1>3, <1>4, <1>5, <1>6

LEMMA LinkStep ==
    ASSUME Types, Arriving, [Next]_vars
    PROVE  Arriving' /\ (UserLink!Next \/ UNCHANGED LinkVars)
<1>1. UNCHANGED <<link, handling, poolDisconnected>>
        => Arriving' /\ UNCHANGED LinkVars
  BY DEF Arriving, LinkVars
<1>2. ASSUME NEW w \in Workers, WorkerStep(w)
      PROVE  UNCHANGED <<link, handling, poolDisconnected>>
  BY <1>2 DEF WorkerStep, Turn, Route, Duplicate, Remember, SendOk, SendFails, GoTo, netVars
<1>3. CASE SwitchToDevPool \/ SwitchToUserPool \/ UNCHANGED vars
  BY <1>1, <1>3 DEF SwitchToDevPool, SwitchToUserPool, vars, netVars
<1>4. ASSUME NEW p \in Pools, Announce(p) PROVE Arriving' /\ UNCHANGED LinkVars
  BY <1>4, PoolNames DEF Announce, Types, PoolTypes, Arriving, LinkVars
<1>5. CASE OnJob
  <2>1. link["user"] # "down" /\ UNCHANGED link /\ poolDisconnected' = FALSE
    BY <1>5 DEF OnJob, Arriving
  <2>2. UserLink!Job
    BY <2>1 DEF UserLink!Job
  <2> QED BY <2>1, <2>2 DEF Arriving, UserLink!Next
<1>6. CASE OnDevJob
  BY <1>6, PoolNames DEF OnDevJob, Types, PoolTypes, Arriving, LinkVars
<1> QED BY <1>1, <1>2, <1>3, <1>4, <1>5, <1>6, LinkKept DEF Next

(* The user's connection here keeps to the interface that Client is proved  *)
(* to keep (ClientProofs, ImplementsLink): jobs, losses and logins come in  *)
(* no order that a PoolLink forbids, although the miner gets a job some     *)
(* time after it was announced (Client.cpp:561-740, Miner.cpp:78-85,        *)
(* 252-266).                                                                *)
THEOREM SharesLink == Spec => KeepsUserLink
<1>1. Init => UserLink!Init /\ Arriving
  BY PoolNames DEF Init, UserLink!Init, Arriving
<1>2. Types /\ Arriving /\ [Next]_vars
        => Arriving' /\ [UserLink!Next]_<<link["user"], poolDisconnected>>
  BY LinkStep DEF LinkVars
<1>3. Spec => UserLink!Init
  BY <1>1 DEF Spec
<1>4. Spec => [][UserLink!Next]_<<link["user"], poolDisconnected>>
  BY <1>1, <1>2, TypesHold, PTL DEF Spec
<1> QED BY <1>3, <1>4 DEF KeepsUserLink, UserLink!Spec
-----------------------------------------------------------------------------
(* JobTarget: what a rounded quotient keeps.                                *)

LEMMA Quotient ==
    ASSUME NEW a \in Nat, NEW b \in Nat, b > 0
    PROVE  a \div b \in Nat /\ b * (a \div b) <= a /\ a < b * (a \div b) + b
  BY SMT

LEMMA Times ==
    ASSUME NEW a \in Nat, NEW b \in Nat, NEW c \in Nat, a <= b
    PROVE  c * a \in Nat /\ c * b \in Nat /\ c * a <= c * b
  BY SMT

\* The quotient is the largest number that fits as often ...
LEMMA QuotientIsLargest ==
    ASSUME NEW a \in Nat, NEW b \in Nat, b > 0, NEW q \in Nat, b * q <= a
    PROVE  q <= a \div b
<1> DEFINE r == a \div b
<1>1. r \in Nat /\ a < b * r + b
  BY Quotient
<1> HIDE DEF r
<1>2. b * (r + 1) = b * r + b /\ b * r \in Nat
  BY <1>1, SMT
<1>3. ~(r + 1 <= q)
  <2> SUFFICES ASSUME r + 1 <= q PROVE FALSE
    OBVIOUS
  <2>1. b * (r + 1) <= b * q /\ b * q \in Nat
    BY <1>1, Times
  <2> QED BY <2>1, <1>1, <1>2
<1>4. q <= r
  BY <1>1, <1>3
<1> QED BY <1>4 DEF r

\* ... and the only one that leaves less than the divisor.
LEMMA QuotientIs ==
    ASSUME NEW a \in Nat, NEW b \in Nat, b > 0, NEW q \in Nat, b * q <= a, a < b * q + b
    PROVE  a \div b = q
<1> DEFINE r == a \div b
<1>1. r \in Nat /\ b * r <= a /\ q <= r
  BY Quotient, QuotientIsLargest
<1> HIDE DEF r
<1>2. ~(q + 1 <= r)
  <2> SUFFICES ASSUME q + 1 <= r PROVE FALSE
    OBVIOUS
  <2>1. b * (q + 1) <= b * r /\ b * r \in Nat /\ b * (q + 1) \in Nat
    BY <1>1, Times
  <2>2. b * (q + 1) = b * q + b /\ b * q \in Nat
    BY SMT
  <2> QED BY <2>1, <2>2, <1>1
<1>3. r = q
  BY <1>1, <1>2
<1> QED BY <1>3 DEF r

\* A smaller divisor gives no smaller quotient.
LEMMA SmallerDivisor ==
    ASSUME NEW a \in Nat, NEW b \in Nat, NEW c \in Nat, 0 < b, b <= c
    PROVE  a \div c <= a \div b
<1> DEFINE q == a \div c
<1>1. q \in Nat /\ c * q <= a
  BY Quotient
<1> HIDE DEF q
<1>2. q * b <= q * c /\ q * b \in Nat /\ q * c \in Nat
  BY <1>1, Times
<1>3. b * q = q * b /\ c * q = q * c
  BY <1>1, SMT
<1>4. b * q <= a
  BY <1>1, <1>2, <1>3
<1>5. q <= a \div b
  BY <1>1, <1>4, QuotientIsLargest
<1> QED BY <1>5 DEF q

LEMMA Tops == /\ HalfTop \in Nat /\ HalfTop > 0 /\ Top \in Nat /\ Top > 0
              /\ Top = HalfTop * (HalfTop + 2)
<1>1. Half * Half \in Nat /\ Half * Half >= 2 * Half
  <2>1. Half * 2 <= Half * Half /\ Half * Half \in Nat
    BY HalfAssumption, Times
  <2> QED BY <2>1, HalfAssumption
<1>2. (Half - 1) * ((Half - 1) + 2) = Half * Half - 1
  BY HalfAssumption, SMT
<1> QED BY <1>1, <1>2, HalfAssumption DEF HalfTop, Top

(* The difficulty of the four bytes comes back out of the target that was   *)
(* made of it (Job.cpp:42-47).                                              *)
LEMMA ExpandKeepsDifficulty ==
    ASSUME NEW v \in 1..HalfTop
    PROVE  /\ HalfTop \div v \in Nat /\ HalfTop \div v > 0
           /\ Expand(v) \in 1..Top /\ Top \div Expand(v) = HalfTop \div v
<1> DEFINE d == HalfTop \div v
           t == Top \div d
<1>1. v \in Nat /\ v > 0 /\ v <= HalfTop
  BY Tops
<1>2. d \in Nat /\ v * d <= HalfTop /\ 1 <= d
  <2>1. v * 1 <= HalfTop
    BY <1>1, Tops
  <2> QED BY <1>1, <2>1, Tops, Quotient, QuotientIsLargest
<1>3. d <= HalfTop
  <2>1. d * 1 <= d * v /\ d * v \in Nat
    BY <1>1, <1>2, Times
  <2>2. d * v = v * d /\ d * 1 = d
    BY <1>1, <1>2, SMT
  <2> QED BY <1>2, <2>1, <2>2, Tops
<1>e. Expand(v) = t
  BY DEF Expand
<1> HIDE DEF d
<1>4. t \in Nat /\ d * t <= Top /\ Top < d * t + d
  BY <1>2, Tops, Quotient
<1>5. HalfTop + 2 <= t
  <2> DEFINE m == HalfTop + 2
  <2>1. m \in Nat
    BY Tops
  <2>2. m * d <= m * HalfTop /\ m * d \in Nat /\ m * HalfTop \in Nat
    BY <1>2, <1>3, <2>1, Tops, Times
  <2>3. d * m = m * d /\ HalfTop * m = m * HalfTop
    BY <1>2, <2>1, Tops, SMT
  <2>4. d * m <= Top
    BY <2>2, <2>3, Tops
  <2> QED BY <2>1, <2>4, <1>2, Tops, QuotientIsLargest
<1>6. t <= Top
  <2>1. t * 1 <= t * d /\ t * d \in Nat
    BY <1>2, <1>4, Times
  <2>2. t * d = d * t /\ t * 1 = t
    BY <1>2, <1>4, SMT
  <2> QED BY <1>4, <2>1, <2>2, Tops
<1> HIDE DEF t
<1>7. Top \div t = d
  <2>1. t * d = d * t
    BY <1>2, <1>4, SMT
  <2>2. d * t \in Nat
    BY <1>2, <1>4, SMT
  <2>3. t * d <= Top /\ Top < t * d + t /\ t > 0
    BY <1>2, <1>3, <1>4, <1>5, <2>1, <2>2, Tops
  <2> QED BY <1>2, <1>4, <2>3, Tops, QuotientIs
<1>8. t \in 1..Top
  BY <1>4, <1>5, <1>6, Tops
<1> QED BY <1>2, <1>7, <1>8, <1>e DEF d
-----------------------------------------------------------------------------
(* A target is made once, of the text, and tested against one hash.         *)

TargetTypes == /\ text \in Texts /\ target \in 0..Top /\ diff \in Nat /\ found \in BOOLEAN
               /\ hash \in Int /\ (hash = -1 \/ hash \in 0..Top) /\ actualDiff \in Nat

MadeOf == /\ target = 0 => diff = 0
          /\ diff > 0 => diff = Top \div target
          /\ text.bytes = 4 /\ target > 0 /\ text.value > 0
                => target = Expand(text.value) /\ diff = Top \div target
          /\ text.bytes = 4 /\ text.value = 0 => diff = 0

Tested == /\ hash = -1 => found = FALSE
          /\ hash # -1 => /\ diff > 0
                          /\ found <=> hash < target
                          /\ found /\ hash > 0 => actualDiff = Top \div hash

TargetInv == TargetTypes /\ MadeOf /\ Tested

LEMMA TargetInit == InitTarget => TargetInv
<1> SUFFICES ASSUME InitTarget PROVE TargetInv
  OBVIOUS
<1>1. /\ text \in Texts /\ target = 0 /\ diff = 0 /\ hash = -1 /\ found = FALSE
      /\ actualDiff = 0
  BY DEF InitTarget
<1>2. TargetTypes
  <2>1. 0 \in 0..Top /\ 0 \in Nat /\ -1 \in Int
    BY Tops
  <2> QED BY <1>1, <2>1 DEF TargetTypes
<1>3. MadeOf
  BY <1>1 DEF MadeOf
<1>4. Tested
  BY <1>1 DEF Tested
<1> QED BY <1>2, <1>3, <1>4 DEF TargetInv

LEMMA TargetStep ==
    ASSUME TargetInv, [NextTarget]_targetVars PROVE TargetInv'
<1> USE DEF TargetInv
<1>1. CASE SetCompact
  <2>1. /\ text.bytes = 4 /\ target = 0 /\ UNCHANGED <<text, hash, found, actualDiff>>
        /\ text.value \in 0..HalfTop /\ hash = -1
    BY <1>1 DEF SetCompact, TargetTypes, Texts, MadeOf, Tested
  <2>2. CASE text.value = 0
    <3>1. target' = Top /\ diff' = 0
      BY <1>1, <2>2 DEF SetCompact
    <3> QED BY <2>1, <2>2, <3>1, Tops DEF TargetTypes, MadeOf, Tested
  <2>3. CASE text.value > 0
    <3> DEFINE v == text.value
    <3>1. target' = Expand(v) /\ diff' = Top \div target' /\ v \in 1..HalfTop
      BY <1>1, <2>1, <2>3, Tops DEF SetCompact
    <3>2. target' \in 1..Top /\ diff' \in Nat
      BY <3>1, ExpandKeepsDifficulty
    <3>3. TargetTypes'
      BY <2>1, <3>2, Tops DEF TargetTypes
    <3>4. MadeOf'
      BY <2>1, <2>3, <3>1, <3>2, Tops DEF MadeOf
    <3>5. Tested'
      BY <2>1 DEF Tested
    <3> QED BY <3>3, <3>4, <3>5
  <2> QED BY <2>1, <2>2, <2>3, Tops
<1>2. CASE SetWide
  <2>1. /\ text.bytes = 8 /\ target = 0 /\ UNCHANGED <<text, hash, found, actualDiff>>
        /\ text.value \in 0..Top /\ text.value > 0 /\ hash = -1
        /\ target' = text.value /\ diff' = Top \div target'
    BY <1>2, Tops DEF SetWide, TargetTypes, Texts, MadeOf, Tested
  <2>2. diff' \in Nat /\ target' \in 1..Top
    BY <2>1, Tops, Quotient
  <2>3. TargetTypes'
    BY <2>1, <2>2, Tops DEF TargetTypes
  <2>4. MadeOf'
    BY <2>1, <2>2, Tops DEF MadeOf
  <2>5. Tested'
    BY <2>1 DEF Tested
  <2> QED BY <2>3, <2>4, <2>5
<1>3. ASSUME NEW h \in 0..Top, TestHash(h) PROVE TargetInv'
  <2>f. (found' <=> h < target) /\ found' \in BOOLEAN
    <3>1. found' = (h < target)
      BY <1>3 DEF TestHash
    <3>2. (h < target) \in BOOLEAN
      OBVIOUS
    <3> QED BY <3>1, <3>2
  <2>1. /\ diff > 0 /\ hash' = h
        /\ actualDiff' = IF h < target /\ h > 0 THEN Top \div h ELSE 0
        /\ UNCHANGED <<text, target, diff>>
    BY <1>3 DEF TestHash
  <2>2. actualDiff' \in Nat /\ h \in Int /\ h # -1
    BY <2>1, Tops, Quotient
  <2>3. TargetTypes'
    BY <2>1, <2>2, <2>f DEF TargetTypes
  <2>4. MadeOf'
    BY <2>1 DEF MadeOf
  <2>5. Tested'
    BY <2>1, <2>2, <2>f DEF Tested
  <2> QED BY <2>3, <2>4, <2>5
<1>4. CASE UNCHANGED targetVars
  BY <1>4 DEF targetVars, TargetTypes, MadeOf, Tested
<1> QED BY <1>1, <1>2, <1>3, <1>4 DEF NextTarget

LEMMA TargetExact == TargetInv => TargetIsDifficulty
<1> SUFFICES ASSUME TargetInv PROVE TargetIsDifficulty
  OBVIOUS
<1> USE DEF TargetInv
<1>t. target \in Nat /\ diff \in Nat /\ Top \in Nat
  BY Tops DEF TargetTypes
<1>v. ASSUME text.bytes = 4, text.value > 0 PROVE text.value \in 1..HalfTop
  BY <1>v, Tops DEF TargetTypes, Texts
<1>1. ASSUME text.bytes = 4, target > 0, text.value > 0 PROVE diff = HalfTop \div text.value
  BY <1>1, <1>v, ExpandKeepsDifficulty DEF MadeOf
<1>2. ASSUME found PROVE MeetsDifficulty(hash, diff) /\ (hash > 0 => actualDiff >= diff)
  <2>1. hash # -1 /\ hash < target /\ hash \in Nat /\ diff > 0 /\ diff = Top \div target
    BY <1>2, <1>t DEF Tested, TargetTypes, MadeOf
  <2>2. CASE hash = 0
    BY <2>2 DEF MeetsDifficulty
  <2>3. CASE hash > 0
    <3>1. Top \div target <= Top \div hash
      BY <1>t, <2>1, <2>3, SmallerDivisor
    <3>2. actualDiff = Top \div hash /\ Top \div hash \in Nat
      BY <1>2, <1>t, <2>1, <2>3, Quotient DEF Tested
    <3> QED BY <1>t, <2>1, <3>1, <3>2 DEF MeetsDifficulty
  <2> QED BY <2>1, <2>2, <2>3
<1>3. ASSUME text.bytes = 4, hash >= 0, MeetsDifficulty(hash, diff)
      PROVE  found \/ hash = target
  <2>1. hash \in Nat /\ hash # -1 /\ diff > 0 /\ target > 0 /\ text.value > 0
    BY <1>3, <1>t DEF TargetTypes, Tested, MadeOf, Texts
  <2>2. target = Top \div diff
    BY <1>1, <1>3, <2>1 DEF MadeOf, Expand
  <2>3. hash <= target
    <3>1. CASE hash = 0
      BY <2>1, <3>1, <1>t
    <3>2. CASE hash > 0
      <4> DEFINE q == Top \div hash
      <4>1. q \in Nat /\ hash * q <= Top /\ diff <= q
        BY <1>3, <1>t, <2>1, <3>2, Quotient DEF MeetsDifficulty
      <4> HIDE DEF q
      <4>2. hash * diff <= hash * q /\ hash * diff \in Nat /\ hash * q \in Nat
        BY <2>1, <1>t, <4>1, Times
      <4>3. diff * hash = hash * diff
        BY <2>1, <1>t, SMT
      <4>4. diff * hash <= Top
        BY <1>t, <4>1, <4>2, <4>3
      <4> QED BY <1>t, <2>1, <2>2, <4>4, QuotientIsLargest
    <3> QED BY <2>1, <3>1, <3>2
  <2> QED BY <1>t, <2>1, <2>3 DEF Tested
<1> QED BY <1>1, <1>2, <1>3 DEF TargetIsDifficulty

(* For every width of the target: the difficulty a pool means by four bytes *)
(* survives the three roundings, and a hash is reported if it has that      *)
(* difficulty and only then, but for one hash (Job.cpp:35-57,               *)
(* Worker.cpp:200-206).                                                     *)
THEOREM TargetCorrect == TargetSpec => []TargetIsDifficulty
  BY TargetInit, TargetStep, TargetExact, PTL DEF TargetSpec
=============================================================================
