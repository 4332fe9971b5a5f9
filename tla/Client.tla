-------------------------------- MODULE Client --------------------------------
(***************************************************************************)
(* The network loop of one pool connection, Client::run: the keepalive and *)
(* silence timers, the ways to lose a connection, reconnecting and logging *)
(* in, and what the miner is told.  Workers send shares meanwhile.         *)
(*                                                                         *)
(* Time passes in poll, a unit of it whenever poll times out; the ages of  *)
(* the three timestamps are counted in that unit.  A message is what the   *)
(* loop makes of it; framing, TLS records, the history of shares and the   *)
(* counters of accepted and rejected ones are left out.                    *)
(***************************************************************************)
EXTENDS Integers

CONSTANTS
    Interval,       \* KEEPALIVE_INTERVAL
    Response,       \* KEEPALIVE_RESPONSE_TIMEOUT
    Silence,        \* SILENCE_TIMEOUT
    MaxMissed,      \* MAX_MISSED_KEEPALIVES
    MaxSessions,    \* bound: connections made
    MaxAge          \* bound: ages are not counted beyond

ASSUME TimersAssumption == /\ Interval \in Nat \ {0} /\ Response \in Nat \ {0}
                           /\ Silence \in Nat \ {0} /\ MaxMissed \in Nat \ {0}
\* A round of keepalives none of which is answered, and the first end of a
\* round that is not before the silence timeout.
Turn      == Interval + Response
Round     == MaxMissed * Turn
DeadAfter == Round * ((Silence + Round - 1) \div Round)

ASSUME BoundsAssumption == /\ MaxSessions \in Nat \ {0}
                           /\ MaxAge \in Nat /\ DeadAfter < MaxAge

VARIABLES
    pc,             \* run: "start", "top" of the loop, "sleep", "poll", "ended"
    running,        \* m_running
    connected, authenticated,
    session,        \* connections made: the number of the one m_socket is
    rpcId,          \* m_rpcId: the session whose login gave it, 0 = empty
    shareId,        \* submit: the copy of m_rpcId in a share to be sent, or 0
    inFlight, missed,                   \* m_keepaliveInFlight, m_missedKeepalives
    activityAge, recvAge, sentAge,      \* since m_lastActivity, m_lastRecvTime,
                                        \* m_keepaliveSentTime
    poolDisconnected,   \* the miner's flag: set by onDisconnected, reset by a job
    meddled,        \* history: a worker has sent, or a send failed, in this silence
    pollFailed      \* history: poll itself failed on the last connection

loopVars  == <<pc, running>>
connVars  == <<connected, authenticated, session, rpcId>>
timerVars == <<inFlight, missed, activityAge, recvAge, sentAge, meddled>>
missVars  == <<inFlight, missed>>
toldVars  == <<poolDisconnected, pollFailed>>
vars      == <<loopVars, connVars, timerVars, toldVars, shareId>>

\* Miner::start has connected and sent the login, which is not answered yet;
\* it may have waited long for the dev pool since.
Init ==
    /\ pc = "start" /\ running = TRUE
    /\ connected = TRUE /\ authenticated = FALSE /\ session = 1
    /\ rpcId = 0 /\ shareId = 0
    /\ inFlight = FALSE /\ missed = 0 /\ sentAge = 0
    /\ activityAge \in 0..MaxAge /\ recvAge = activityAge
    /\ poolDisconnected = FALSE /\ meddled = FALSE /\ pollFailed = FALSE

Older(age) == IF age < MaxAge THEN age + 1 ELSE age
-----------------------------------------------------------------------------
RunStart ==
    /\ pc = "start"
    /\ pc' = "top" /\ running' = TRUE
    /\ UNCHANGED <<connVars, timerVars, toldVars, shareId>>

\* Mutant: without a connection the loop goes on trying.
LeaveConnected ==
    /\ pc = "top" /\ ~running /\ connected
    /\ pc' = "ended"
    /\ UNCHANGED <<running, connVars, timerVars, toldVars, shareId>>

\* The loop is left when it has come round, not in the middle.
Leave ==
    /\ pc = "top" /\ ~running
    /\ pc' = "ended"
    /\ UNCHANGED <<running, connVars, timerVars, toldVars, shareId>>

\* Mutant: the session id of the lost connection is kept.
DisconnectKeepsId ==
    /\ connected' = FALSE /\ authenticated' = FALSE
    /\ UNCHANGED <<session, rpcId>>

\* Client::disconnect
Disconnect ==
    /\ connected' = FALSE /\ authenticated' = FALSE /\ rpcId' = 0
    /\ UNCHANGED session

\* Five seconds of sleep, then reconnect, whether stopped meanwhile or not.
Sleep ==
    /\ pc = "top" /\ running /\ ~connected
    /\ pc' = "sleep"
    /\ UNCHANGED <<running, connVars, timerVars, toldVars, shareId>>

\* connect marks the connection made before it sends the login; when that
\* fails the loop goes on all the same.
Reconnect ==
    /\ pc = "sleep" /\ session < MaxSessions
    /\ connected' = TRUE
    /\ session' = session + 1
    /\ inFlight' = FALSE /\ missed' = 0 /\ meddled' = FALSE
    /\ activityAge' = 0 /\ recvAge' = 0
    /\ pollFailed' = FALSE
    /\ pc' = "top"
    /\ UNCHANGED <<running, authenticated, rpcId, sentAge, poolDisconnected, shareId>>

\* The pool is unreachable, or closes the plain connection and the TLS one
\* fails, which leaves the timers as connect set them.
ReconnectFails ==
    /\ pc = "sleep"
    /\ \/ UNCHANGED timerVars
       \/ /\ inFlight' = FALSE /\ missed' = 0 /\ activityAge' = 0 /\ recvAge' = 0
          /\ UNCHANGED <<sentAge, meddled>>
    /\ pc' = "top"
    /\ UNCHANGED <<running, connVars, toldVars, shareId>>
-----------------------------------------------------------------------------
(* The timers, at the top of the loop.                                     *)

Expired == authenticated /\ inFlight /\ sentAge >= Response
Due     == authenticated /\ ~inFlight /\ activityAge >= Interval

NoTimer ==
    /\ pc = "top" /\ running /\ connected /\ ~Expired /\ ~Due
    /\ pc' = "poll"
    /\ UNCHANGED <<running, connVars, timerVars, toldVars, shareId>>

\* Mutant: the misses are never counted from the beginning again.
MissKeepaliveForGood ==
    /\ pc = "top" /\ running /\ connected /\ Expired
    /\ missed + 1 >= MaxMissed => recvAge < Silence
    /\ inFlight' = FALSE
    /\ missed' = missed + 1
    /\ activityAge' = 0
    /\ pc' = "poll"
    /\ UNCHANGED <<running, connVars, recvAge, sentAge, meddled, toldVars, shareId>>

\* A keepalive is not answered: one miss more, or the count starts over.
MissKeepalive ==
    /\ pc = "top" /\ running /\ connected /\ Expired
    /\ missed + 1 >= MaxMissed => recvAge < Silence
    /\ inFlight' = FALSE
    /\ missed' = IF missed + 1 >= MaxMissed THEN 0 ELSE missed + 1
    /\ activityAge' = 0
    /\ pc' = "poll"
    /\ UNCHANGED <<running, connVars, recvAge, sentAge, meddled, toldVars, shareId>>

DeclareDead ==
    /\ pc = "top" /\ running /\ connected /\ Expired
    /\ missed + 1 >= MaxMissed /\ recvAge >= Silence
    /\ inFlight' = FALSE /\ missed' = missed + 1
    /\ Disconnect
    /\ poolDisconnected' = TRUE
    /\ UNCHANGED <<loopVars, activityAge, recvAge, sentAge, meddled, pollFailed, shareId>>

\* Mutant: each keepalive starts a new count.
SendKeepaliveAfresh ==
    /\ pc = "top" /\ running /\ connected /\ Due
    /\ inFlight' = TRUE /\ sentAge' = 0 /\ activityAge' = 0 /\ missed' = 0
    /\ pc' = "poll"
    /\ UNCHANGED <<running, connVars, recvAge, meddled, toldVars, shareId>>

SendKeepalive ==
    /\ pc = "top" /\ running /\ connected /\ Due
    /\ inFlight' = TRUE /\ sentAge' = 0 /\ activityAge' = 0
    /\ pc' = "poll"
    /\ UNCHANGED <<running, connVars, missed, recvAge, meddled, toldVars, shareId>>

\* send fails, because the peer is gone or the socket's buffer is full
SendKeepaliveFails ==
    /\ pc = "top" /\ running /\ connected /\ Due
    /\ meddled' = TRUE
    /\ pc' = "poll"
    /\ UNCHANGED <<running, connVars, inFlight, missed, activityAge, recvAge, sentAge,
                   toldVars, shareId>>
-----------------------------------------------------------------------------
(* What poll and recv return.                                               *)

PollTimeout ==
    /\ pc = "poll"
    /\ activityAge' = Older(activityAge) /\ recvAge' = Older(recvAge)
    /\ sentAge' = Older(sentAge)
    /\ pc' = "top"
    /\ UNCHANGED <<running, connVars, inFlight, missed, meddled, toldVars, shareId>>

\* poll returns an error; nobody is told
PollError ==
    /\ pc = "poll"
    /\ Disconnect
    /\ pollFailed' = TRUE
    /\ pc' = "top"
    /\ UNCHANGED <<running, timerVars, poolDisconnected, shareId>>

\* Mutant: the miner is told only of a connection that was logged in.
LoseConnectionQuietly ==
    /\ pc = "poll"
    /\ Disconnect
    /\ poolDisconnected' = (poolDisconnected \/ authenticated)
    /\ pc' = "top"
    /\ UNCHANGED <<running, timerVars, pollFailed, shareId>>

\* Hangup, a recv or TLS error, closed by the peer, or a line too long
LoseConnection ==
    /\ pc = "poll"
    /\ Disconnect
    /\ poolDisconnected' = TRUE
    /\ pc' = "top"
    /\ UNCHANGED <<running, timerVars, pollFailed, shareId>>

\* Any data resets the timers.
Fresh ==
    /\ activityAge' = 0 /\ recvAge' = 0
    /\ inFlight' = FALSE /\ missed' = 0 /\ meddled' = FALSE
    /\ UNCHANGED sentAge

\* A "result" while m_rpcId is empty is the answer to the login, with an id
\* or without.  It may carry a job.
LoginAnswer ==
    /\ pc = "poll" /\ rpcId = 0
    /\ Fresh
    /\ \/ rpcId' = session /\ authenticated' = TRUE
       \/ UNCHANGED <<rpcId, authenticated>>
    /\ poolDisconnected' \in {poolDisconnected, FALSE}
    /\ pc' = "top"
    /\ UNCHANGED <<running, connected, session, pollFailed, shareId>>

\* A job.  The miner forgets the loss, unless it is incomplete or needs a
\* new dataset.
JobMessage ==
    /\ pc = "poll"
    /\ Fresh
    /\ poolDisconnected' \in {poolDisconnected, FALSE}
    /\ pc' = "top"
    /\ UNCHANGED <<running, connVars, pollFailed, shareId>>

\* An answer to a share or a keepalive, an error, or a part of a line
OtherData ==
    /\ pc = "poll"
    /\ Fresh
    /\ pc' = "top"
    /\ UNCHANGED <<running, connVars, toldVars, shareId>>
-----------------------------------------------------------------------------
(* Other threads.                                                           *)

\* A worker's share: submit copies the id under m_sendMutex, and send takes
\* the mutex again.  In between the connection may be lost and another made.
CopyId ==
    /\ shareId = 0 /\ authenticated /\ rpcId # 0
    /\ shareId' = rpcId
    /\ UNCHANGED <<loopVars, connVars, timerVars, toldVars>>

SendShare ==
    /\ shareId # 0 /\ connected
    /\ shareId' = 0
    /\ activityAge' = 0
    /\ meddled' = TRUE
    /\ UNCHANGED <<loopVars, connVars, missVars, recvAge, sentAge, toldVars>>

\* There is no connection, or the system's send fails.
ShareFails ==
    /\ shareId # 0
    /\ shareId' = 0
    /\ UNCHANGED <<loopVars, connVars, timerVars, toldVars>>

\* Client::stop
Stop ==
    /\ running
    /\ running' = FALSE
    /\ UNCHANGED <<pc, connVars, timerVars, toldVars, shareId>>
-----------------------------------------------------------------------------
Loop ==
    \/ RunStart \/ Leave \/ Sleep \/ Reconnect \/ ReconnectFails
    \/ NoTimer \/ MissKeepalive \/ DeclareDead \/ SendKeepalive \/ SendKeepaliveFails
    \/ PollTimeout \/ PollError \/ LoseConnection
    \/ LoginAnswer \/ JobMessage \/ OtherData
Next == Loop \/ CopyId \/ SendShare \/ ShareFails \/ Stop

Spec     == Init /\ [][Next]_vars
FairSpec == Spec /\ WF_vars(Loop)
-----------------------------------------------------------------------------
TypeOK ==
    /\ pc \in {"start", "top", "sleep", "poll", "ended"} /\ running \in BOOLEAN
    /\ connected \in BOOLEAN /\ authenticated \in BOOLEAN
    /\ session \in 1..MaxSessions /\ rpcId \in 0..MaxSessions
    /\ shareId \in 0..MaxSessions
    /\ inFlight \in BOOLEAN /\ missed \in 0..MaxMissed
    /\ activityAge \in 0..MaxAge /\ recvAge \in 0..MaxAge /\ sentAge \in 0..MaxAge
    /\ poolDisconnected \in BOOLEAN /\ meddled \in BOOLEAN /\ pollFailed \in BOOLEAN

\* What the miner sees of it all.
Link == INSTANCE PoolLink WITH
            link <- IF ~connected THEN "down" ELSE IF authenticated THEN "ready" ELSE "open",
            told <- poolDisconnected

(* Whatever the loop does looks to the miner like a PoolLink: the login is  *)
(* answered once for each connection, jobs come only while there is one,    *)
(* and a loss is reported in the step of the loss or not at all             *)
(* (Client.cpp:593-663, 775-797, Miner.cpp:78-85, 265).                     *)
KeepsLink == Link!Spec

(* A connection on which nothing arrives is given up at the end of the      *)
(* first round of missed keepalives that is past the silence timeout: with  *)
(* the values of Client.h:98-101 after 540 s, provided no share is sent     *)
(* meanwhile, which restarts the idle timer (Client.cpp:572-613, 489).      *)
SilenceBounded == authenticated /\ ~meddled => recvAge <= DeadAfter

(* Whenever the connection is gone the miner has been told, and no job of   *)
(* the lost connection has made it forget, whichever way it was lost; only  *)
(* a failing poll is not reported (Client.cpp:593, 639, 657, 663, 691, 707  *)
(* against 630).                                                            *)
LossReported == ~connected => poolDisconnected \/ pollFailed

(* The id a share is given and a keepalive carries comes from the login of  *)
(* the present connection, never of an earlier one, and the connection      *)
(* counts as logged in exactly when there is such an id (Client.cpp:409,    *)
(* 513, 730, 782-786).                                                      *)
SessionIsOwn == /\ rpcId # 0 => connected /\ rpcId = session
                /\ authenticated <=> rpcId # 0

(* A loop that is told to stop ends, also while it has no connection, so    *)
(* that Miner::stop can join it (Client.cpp:563-568, Miner.cpp:174-179).    *)
Stops == pc # "start" /\ ~running ~> pc = "ended"
=============================================================================
