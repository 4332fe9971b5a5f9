----------------------------- MODULE ClientProofs -----------------------------
(* What Client promises, for any timer values and any number of sessions:  *)
(* the deadline of a silent connection, the report of a lost one, and the  *)
(* session id.                                                             *)
EXTENDS Client, TLAPS

\* TypeOK in two parts, the flags and the numbers.
FlagsOK ==
    /\ pc \in {"start", "top", "sleep", "poll", "ended"} /\ running \in BOOLEAN
    /\ connected \in BOOLEAN /\ authenticated \in BOOLEAN /\ inFlight \in BOOLEAN
    /\ poolDisconnected \in BOOLEAN /\ meddled \in BOOLEAN /\ pollFailed \in BOOLEAN
NumbersOK ==
    /\ session \in 1..MaxSessions /\ rpcId \in 0..MaxSessions /\ shareId \in 0..MaxSessions
    /\ missed \in 0..MaxMissed
    /\ activityAge \in 0..MaxAge /\ recvAge \in 0..MaxAge /\ sentAge \in 0..MaxAge

\* While the loop polls there is a connection, while it sleeps there is none.
PlaceInv == /\ pc = "poll" => connected
            /\ pc = "sleep" => ~connected

\* A logged-in connection is dropped before a round is complete.
MissedInv == authenticated => missed < MaxMissed

LossInv == NumbersOK /\ PlaceInv /\ MissedInv /\ SessionIsOwn /\ LossReported

\* Where a round can have begun: at a multiple of Round before the timeout.
Starts == {t \in Nat : t < Silence /\ \E r \in Nat : t = r * Round}

\* The time since the last miss, or since the round began.
Part == IF inFlight THEN Interval + sentAge ELSE activityAge

\* The timers that are due are looked at before the loop polls.
PartInv == /\ inFlight => sentAge <= Response /\ (pc = "poll" => sentAge < Response)
           /\ ~inFlight => activityAge <= Interval /\ (pc = "poll" => activityAge < Interval)

\* In a silence the timers account for the time since the last data.
ClockInv == \E t \in Starts : recvAge = t + missed * Turn + Part

SilentInv == authenticated /\ ~meddled => PartInv /\ ClockInv
IInv      == FlagsOK /\ LossInv /\ SilentInv
-----------------------------------------------------------------------------
(* Arithmetic of rounds.                                                    *)

LEMMA Monotone ==
    ASSUME NEW a \in Nat, NEW b \in Nat, NEW p \in Nat, a <= b
    PROVE  a * p <= b * p
<1>1. PICK d \in Nat : b = a + d
  OBVIOUS
<1>2. b * p = a * p + d * p
  BY <1>1
<1>3. d * p \in Nat /\ a * p \in Nat
  BY <1>1
<1> QED  BY <1>2, <1>3

LEMMA Successor ==
    ASSUME NEW a \in Nat, NEW p \in Nat
    PROVE  (a + 1) * p = a * p + p /\ a * p \in Nat
  OBVIOUS

LEMMA RoundIsPositive ==
    /\ Turn \in Nat \ {0} /\ Round \in Nat \ {0}
    /\ Round = (MaxMissed - 1) * Turn + Turn
<1>1. Turn \in Nat \ {0}
  BY TimersAssumption DEF Turn
<1>2. MaxMissed - 1 \in Nat
  BY TimersAssumption
<1>3. Round = (MaxMissed - 1) * Turn + Turn /\ (MaxMissed - 1) * Turn \in Nat
  <2>1. ((MaxMissed - 1) + 1) * Turn = (MaxMissed - 1) * Turn + Turn
        /\ (MaxMissed - 1) * Turn \in Nat
    BY <1>1, <1>2, Successor
  <2>2. (MaxMissed - 1) + 1 = MaxMissed
    BY TimersAssumption
  <2> QED  BY <2>1, <2>2 DEF Round
<1> QED  BY <1>1, <1>3

\* A round that begins before the silence timeout ends by DeadAfter.
LEMMA RoundEnds ==
    ASSUME NEW t \in Starts
    PROVE  t \in Nat /\ t + Round <= DeadAfter /\ DeadAfter \in Nat
<1> DEFINE q == (Silence + Round - 1) \div Round
<1>1. Round \in Nat \ {0} /\ Silence \in Nat \ {0}
  BY RoundIsPositive, TimersAssumption
<1>2. PICK r \in Nat : t = r * Round
  BY DEF Starts
<1>3. t \in Nat /\ t < Silence
  BY DEF Starts
<1>4. q \in Nat /\ Silence + Round - 1 < Round * q + Round
  BY <1>1
<1>5. Round * q = q * Round /\ q * Round \in Nat
  BY <1>1, <1>4
<1>6. r + 1 <= q
  <2>1. SUFFICES ASSUME q <= r PROVE FALSE
    BY <1>2, <1>4
  <2>2. q * Round <= r * Round
    BY <1>1, <1>2, <1>4, <2>1, Monotone
  <2>3. Silence - 1 < q * Round
    BY <1>1, <1>4, <1>5
  <2> QED  BY <1>1, <1>2, <1>3, <1>5, <2>2, <2>3
<1>7. (r + 1) * Round <= q * Round
  BY <1>1, <1>4, <1>6, Monotone
<1>8. (r + 1) * Round = t + Round
  BY <1>1, <1>2, Successor
<1> QED  BY <1>3, <1>5, <1>7, <1>8 DEF DeadAfter

LEMMA NextStart ==
    ASSUME NEW t \in Starts, t + Round < Silence
    PROVE  t + Round \in Starts
<1>1. PICK r \in Nat : t = r * Round
  BY DEF Starts
<1>2. Round \in Nat
  BY RoundIsPositive
<1>3. (r + 1) * Round = t + Round
  BY <1>1, <1>2, Successor
<1>4. r + 1 \in Nat /\ t + Round \in Nat
  BY <1>1, <1>2 DEF Starts
<1> QED  BY <1>3, <1>4 DEF Starts

LEMMA ZeroStarts == 0 \in Starts
<1>1. 0 = 0 * Round
  BY RoundIsPositive
<1> QED  BY <1>1, TimersAssumption DEF Starts
-----------------------------------------------------------------------------
LEMMA OlderAge ==
    ASSUME NEW age \in 0..MaxAge
    PROVE  Older(age) \in 0..MaxAge /\ (age < MaxAge => Older(age) = age + 1)
  BY BoundsAssumption DEF Older

LEMMA InitInv == Init => FlagsOK /\ LossInv /\ SilentInv
<1> SUFFICES ASSUME Init PROVE FlagsOK /\ LossInv /\ SilentInv
  OBVIOUS
<1>1. FlagsOK
  BY DEF Init, FlagsOK
<1>2. NumbersOK
  BY BoundsAssumption, TimersAssumption DEF Init, NumbersOK
<1>3. PlaceInv /\ MissedInv /\ SessionIsOwn /\ LossReported
  BY DEF Init, PlaceInv, MissedInv, SessionIsOwn, LossReported
<1>4. SilentInv
  BY DEF Init, SilentInv
<1> QED  BY <1>1, <1>2, <1>3, <1>4 DEF LossInv

LEMMA FlagsStep == FlagsOK /\ [Next]_vars => FlagsOK'
<1> SUFFICES ASSUME FlagsOK, [Next]_vars PROVE FlagsOK'
  OBVIOUS
<1> USE DEF FlagsOK, loopVars, connVars, timerVars, missVars, toldVars
<1>1. CASE RunStart \/ Leave \/ Sleep \/ Reconnect \/ ReconnectFails
  BY <1>1 DEF RunStart, Leave, Sleep, Reconnect, ReconnectFails
<1>2. CASE NoTimer \/ MissKeepalive \/ DeclareDead \/ SendKeepalive \/ SendKeepaliveFails
  BY <1>2 DEF NoTimer, MissKeepalive, DeclareDead, SendKeepalive, SendKeepaliveFails, Disconnect
<1>3. CASE PollTimeout \/ PollError \/ LoseConnection
  BY <1>3 DEF PollTimeout, PollError, LoseConnection, Disconnect
<1>4. CASE LoginAnswer \/ JobMessage \/ OtherData
  BY <1>4 DEF LoginAnswer, JobMessage, OtherData, Fresh
<1>5. CASE CopyId \/ SendShare \/ ShareFails \/ Stop
  BY <1>5 DEF CopyId, SendShare, ShareFails, Stop
<1>6. CASE UNCHANGED vars
  BY <1>6 DEF vars
<1> QED  BY <1>1, <1>2, <1>3, <1>4, <1>5, <1>6 DEF Next, Loop

LEMMA LossStep == LossInv /\ [Next]_vars => LossInv'
<1> SUFFICES ASSUME LossInv, [Next]_vars PROVE LossInv'
  OBVIOUS
<1> USE TimersAssumption, BoundsAssumption
<1> USE DEF LossInv, NumbersOK, PlaceInv, MissedInv, SessionIsOwn, LossReported
<1> USE DEF loopVars, connVars, timerVars, missVars, toldVars
<1>1. CASE RunStart
  BY <1>1 DEF RunStart
<1>2. CASE Leave
  BY <1>2 DEF Leave
<1>3. CASE Sleep
  BY <1>3 DEF Sleep
<1>4. CASE Reconnect
  BY <1>4 DEF Reconnect
<1>5. CASE ReconnectFails
  BY <1>5 DEF ReconnectFails
<1>6. CASE NoTimer
  BY <1>6 DEF NoTimer
<1>7. CASE MissKeepalive
  BY <1>7 DEF MissKeepalive, Expired
<1>8. CASE DeclareDead
  BY <1>8 DEF DeclareDead, Disconnect, Expired
<1>9. CASE SendKeepalive
  BY <1>9 DEF SendKeepalive
<1>10. CASE SendKeepaliveFails
  BY <1>10 DEF SendKeepaliveFails
<1>11. CASE PollTimeout
  BY <1>11, OlderAge DEF PollTimeout
<1>12. CASE PollError
  BY <1>12 DEF PollError, Disconnect
<1>13. CASE LoseConnection
  BY <1>13 DEF LoseConnection, Disconnect
<1>14. CASE LoginAnswer
  BY <1>14 DEF LoginAnswer, Fresh
<1>15. CASE JobMessage
  BY <1>15 DEF JobMessage, Fresh
<1>16. CASE OtherData
  BY <1>16 DEF OtherData, Fresh
<1>17. CASE CopyId
  BY <1>17 DEF CopyId
<1>18. CASE SendShare
  BY <1>18 DEF SendShare
<1>19. CASE ShareFails
  BY <1>19 DEF ShareFails
<1>20. CASE Stop
  BY <1>20 DEF Stop
<1>21. CASE UNCHANGED vars
  BY <1>21 DEF vars
<1> QED
  BY <1>1, <1>2, <1>3, <1>4, <1>5, <1>6, <1>7, <1>8, <1>9, <1>10, <1>11, <1>12, <1>13,
     <1>14, <1>15, <1>16, <1>17, <1>18, <1>19, <1>20, <1>21
  DEF Next, Loop
-----------------------------------------------------------------------------
\* The deadline follows: a part is at most a turn, and turns fill the round.
LEMMA Deadline == IInv => SilenceBounded
<1> SUFFICES ASSUME IInv, authenticated, ~meddled PROVE recvAge <= DeadAfter
  BY DEF SilenceBounded
<1>1. /\ missed \in Nat /\ missed <= MaxMissed - 1 /\ MaxMissed - 1 \in Nat
      /\ Part \in Nat /\ Part <= Turn /\ recvAge \in Nat
  BY TimersAssumption, BoundsAssumption
  DEF IInv, LossInv, NumbersOK, MissedInv, SilentInv, PartInv, Part, Turn
<1>2. PICK t \in Starts : recvAge = t + missed * Turn + Part
  BY DEF IInv, SilentInv, ClockInv
<1>3. missed * Turn <= (MaxMissed - 1) * Turn /\ missed * Turn \in Nat
  BY <1>1, RoundIsPositive, Monotone, Successor
<1>4. (MaxMissed - 1) * Turn \in Nat
  BY <1>1, RoundIsPositive, Successor
<1>5. recvAge <= t + Round
  BY <1>1, <1>2, <1>3, <1>4, RoundIsPositive, RoundEnds
<1> QED  BY <1>1, <1>5, RoundIsPositive, RoundEnds

LEMMA FreshIsSilent ==
    ASSUME inFlight' = FALSE, missed' = 0, activityAge' = 0, recvAge' = 0
    PROVE  SilentInv'
<1>1. Part' = 0
  BY DEF Part
<1>2. missed' * Turn' = 0
  BY RoundIsPositive DEF Turn
<1>3. ClockInv'
  BY <1>1, <1>2, ZeroStarts DEF ClockInv, Starts, Round, Turn
<1>4. PartInv'
  BY TimersAssumption DEF PartInv
<1> QED  BY <1>3, <1>4 DEF SilentInv

\* A step that leaves the timers and the login alone and does not begin a poll.
LEMMA SilentKept ==
    ASSUME SilentInv, UNCHANGED <<authenticated, timerVars>>,
           pc' = "poll" => pc = "poll"
    PROVE  SilentInv'
<1> USE DEF timerVars
<1>1. ClockInv => ClockInv'
  BY DEF ClockInv, Part, Starts, Round, Turn
<1>2. PartInv => PartInv'
  BY DEF PartInv
<1> QED  BY <1>1, <1>2 DEF SilentInv

\* A logged-out connection, or one on which a share was sent, is not watched.
LEMMA NotWatched ==
    ASSUME ~authenticated' \/ meddled'
    PROVE  SilentInv'
  BY DEF SilentInv

LEMMA MissStep ==
    ASSUME FlagsOK, LossInv, SilentInv, MissKeepalive
    PROVE  SilentInv'
<1> SUFFICES ASSUME ~meddled PROVE PartInv' /\ ClockInv'
  BY DEF SilentInv, MissKeepalive
<1>1. /\ authenticated /\ inFlight /\ sentAge >= Response /\ inFlight' = FALSE
      /\ activityAge' = 0 /\ recvAge' = recvAge
      /\ missed' = IF missed + 1 >= MaxMissed THEN 0 ELSE missed + 1
      /\ missed + 1 >= MaxMissed => recvAge < Silence
  BY DEF MissKeepalive, Expired
<1>2. missed \in Nat /\ sentAge \in Nat /\ recvAge \in Nat /\ missed < MaxMissed
  BY <1>1, TimersAssumption, BoundsAssumption DEF LossInv, NumbersOK, MissedInv
<1>3. PICK t \in Starts : recvAge = t + missed * Turn + Part
  BY <1>1 DEF SilentInv, ClockInv
<1>4. Part = Turn
  BY <1>1, <1>2, TimersAssumption DEF SilentInv, PartInv, Part, Turn
<1>5. (missed + 1) * Turn = missed * Turn + Turn /\ missed * Turn \in Nat
  BY <1>2, RoundIsPositive, Successor
<1>6. recvAge = t + (missed + 1) * Turn /\ t \in Nat
  BY <1>3, <1>4, <1>5, RoundIsPositive, RoundEnds
<1>7. Part' = 0
  BY <1>1 DEF Part
<1>8. CASE missed + 1 < MaxMissed
  <2>1. missed' = missed + 1
    BY <1>1, <1>2, <1>8, TimersAssumption
  <2>2. recvAge' = t + missed' * Turn + Part'
    BY <1>1, <1>5, <1>6, <1>7, <2>1, RoundIsPositive
  <2> QED  BY <1>1, <2>2, TimersAssumption DEF PartInv, ClockInv, Starts, Round, Turn
<1>9. CASE missed + 1 >= MaxMissed
  <2>1. missed + 1 = MaxMissed /\ missed' = 0
    BY <1>1, <1>2, <1>9, TimersAssumption
  <2>2. recvAge = t + Round /\ recvAge < Silence
    BY <1>1, <1>6, <1>9, <2>1 DEF Round
  <2>3. t + Round \in Starts
    BY <2>2, NextStart
  <2>4. missed' * Turn = 0
    BY <2>1, RoundIsPositive
  <2>5. recvAge' = (t + Round) + missed' * Turn + Part'
    BY <1>1, <1>2, <1>7, <2>2, <2>4
  <2> QED  BY <1>1, <2>3, <2>5, TimersAssumption DEF PartInv, ClockInv, Starts, Round, Turn
<1> QED  BY <1>2, <1>8, <1>9, TimersAssumption

LEMMA SendStep ==
    ASSUME FlagsOK, LossInv, SilentInv, SendKeepalive
    PROVE  SilentInv'
<1> SUFFICES ASSUME ~meddled PROVE PartInv' /\ ClockInv'
  BY DEF SilentInv, SendKeepalive
<1>1. /\ authenticated /\ ~inFlight /\ activityAge >= Interval /\ inFlight' = TRUE
      /\ sentAge' = 0 /\ recvAge' = recvAge /\ missed' = missed
  BY DEF SendKeepalive, Due
<1>2. activityAge \in Nat
  BY BoundsAssumption DEF LossInv, NumbersOK
<1>3. Part = Interval /\ Part' = Interval
  BY <1>1, <1>2, TimersAssumption DEF SilentInv, PartInv, Part
<1>4. PICK t \in Starts : recvAge = t + missed * Turn + Part
  BY <1>1 DEF SilentInv, ClockInv
<1>5. ClockInv'
  BY <1>1, <1>3, <1>4 DEF ClockInv, Starts, Round, Turn
<1>6. PartInv'
  BY <1>1, TimersAssumption DEF PartInv
<1> QED  BY <1>5, <1>6

LEMMA TimeStep ==
    ASSUME FlagsOK, LossInv, SilentInv, SilenceBounded, PollTimeout
    PROVE  SilentInv'
<1> SUFFICES ASSUME authenticated, ~meddled PROVE PartInv' /\ ClockInv'
  BY DEF SilentInv, PollTimeout, connVars
<1>1. /\ pc = "poll" /\ pc' = "top" /\ inFlight' = inFlight /\ missed' = missed
      /\ activityAge' = Older(activityAge) /\ recvAge' = Older(recvAge)
      /\ sentAge' = Older(sentAge)
  BY DEF PollTimeout
<1>2. /\ activityAge \in 0..MaxAge /\ recvAge \in 0..MaxAge /\ sentAge \in 0..MaxAge
      /\ missed \in Nat
  BY TimersAssumption DEF LossInv, NumbersOK
<1>3. PICK t \in Starts : recvAge = t + missed * Turn + Part
  BY DEF SilentInv, ClockInv
<1>4. missed * Turn \in Nat /\ t \in Nat /\ DeadAfter \in Nat /\ recvAge < MaxAge
  BY <1>2, RoundIsPositive, RoundEnds, Successor, BoundsAssumption DEF SilenceBounded
<1>5. recvAge' = recvAge + 1
  BY <1>1, <1>2, <1>4, OlderAge
<1>6. CASE inFlight
  <2>1. Part = Interval + sentAge /\ sentAge < Response
    BY <1>1, <1>6 DEF SilentInv, PartInv, Part
  <2>2. sentAge < MaxAge
    BY <1>2, <1>3, <1>4, <2>1, TimersAssumption, BoundsAssumption
  <2>3. sentAge' = sentAge + 1
    BY <1>1, <1>2, <2>2, OlderAge
  <2>4. Part' = Part + 1
    BY <1>1, <1>2, <1>6, <2>1, <2>3, TimersAssumption DEF Part
  <2>5. recvAge' = t + missed' * Turn + Part'
    BY <1>1, <1>2, <1>3, <1>4, <1>5, <2>1, <2>4, TimersAssumption
  <2>6. PartInv'
    BY <1>1, <1>2, <1>6, <2>1, <2>3, TimersAssumption DEF PartInv
  <2> QED  BY <2>5, <2>6 DEF ClockInv, Starts, Round, Turn
<1>7. CASE ~inFlight
  <2>1. Part = activityAge /\ activityAge < Interval
    BY <1>1, <1>7 DEF SilentInv, PartInv, Part
  <2>2. activityAge < MaxAge
    BY <1>2, <1>3, <1>4, <2>1, BoundsAssumption
  <2>3. activityAge' = activityAge + 1
    BY <1>1, <1>2, <2>2, OlderAge
  <2>4. Part' = Part + 1
    BY <1>1, <1>7, <2>1, <2>3 DEF Part
  <2>5. recvAge' = t + missed' * Turn + Part'
    BY <1>1, <1>2, <1>3, <1>4, <1>5, <2>1, <2>4
  <2>6. PartInv'
    BY <1>1, <1>2, <1>7, <2>1, <2>3, TimersAssumption DEF PartInv
  <2> QED  BY <2>5, <2>6 DEF ClockInv, Starts, Round, Turn
<1> QED  BY <1>6, <1>7

LEMMA PollBegins ==
    ASSUME LossInv, SilentInv, NoTimer
    PROVE  SilentInv'
<1> SUFFICES ASSUME authenticated, ~meddled PROVE PartInv' /\ ClockInv'
  BY DEF SilentInv, NoTimer, connVars, timerVars
<1>1. /\ UNCHANGED timerVars /\ ~Expired /\ ~Due
      /\ activityAge \in Nat /\ sentAge \in Nat
  BY BoundsAssumption DEF NoTimer, LossInv, NumbersOK
<1>2. ClockInv'
  BY <1>1 DEF SilentInv, ClockInv, Part, Starts, Round, Turn, timerVars
<1>3. PartInv'
  BY <1>1, TimersAssumption DEF SilentInv, PartInv, Expired, Due, timerVars
<1> QED  BY <1>2, <1>3

LEMMA SilentStep ==
    ASSUME FlagsOK, LossInv, SilentInv, SilenceBounded, [Next]_vars
    PROVE  SilentInv'
<1> USE DEF loopVars, connVars
<1>1. CASE RunStart \/ Leave \/ Sleep
  BY <1>1, SilentKept DEF RunStart, Leave, Sleep
<1>2. CASE Reconnect \/ LoginAnswer \/ JobMessage \/ OtherData
  BY <1>2, FreshIsSilent DEF Reconnect, LoginAnswer, JobMessage, OtherData, Fresh
<1>3. CASE ReconnectFails
  BY <1>3, NotWatched DEF ReconnectFails, LossInv, PlaceInv, SessionIsOwn
<1>4. CASE NoTimer
  BY <1>4, PollBegins
<1>5. CASE MissKeepalive
  BY <1>5, MissStep
<1>6. CASE SendKeepalive
  BY <1>6, SendStep
<1>7. CASE PollTimeout
  BY <1>7, TimeStep
<1>8. CASE DeclareDead \/ PollError \/ LoseConnection \/ SendKeepaliveFails \/ SendShare
  BY <1>8, NotWatched
  DEF DeclareDead, PollError, LoseConnection, SendKeepaliveFails, SendShare, Disconnect
<1>9. CASE CopyId \/ ShareFails \/ Stop
  BY <1>9, SilentKept DEF CopyId, ShareFails, Stop
<1>10. CASE UNCHANGED vars
  BY <1>10, SilentKept DEF vars
<1> QED
  BY <1>1, <1>2, <1>3, <1>4, <1>5, <1>6, <1>7, <1>8, <1>9, <1>10 DEF Next, Loop
-----------------------------------------------------------------------------
(* The invariant the theorems below rest on.                                *)
THEOREM Invariance == Spec => []IInv
<1>1. Init => IInv
  BY InitInv DEF IInv
<1>2. IInv /\ [Next]_vars => IInv'
  BY FlagsStep, LossStep, SilentStep, Deadline DEF IInv
<1> QED  BY <1>1, <1>2, PTL DEF Spec

(* Types, for any timers (the members of Client, Client.h:60-104).          *)
THEOREM TypeCorrect == Spec => []TypeOK
<1>1. FlagsOK /\ NumbersOK => TypeOK
  BY Zenon DEF FlagsOK, NumbersOK, TypeOK
<1>2. IInv => TypeOK
  BY <1>1 DEF IInv, LossInv
<1> QED  BY <1>2, Invariance, PTL

(* A silent connection is given up by the end of the first round of missed  *)
(* keepalives past the silence timeout, whatever the intervals are          *)
(* (Client.cpp:572-613).                                                    *)
THEOREM DeadIsNoticed == Spec => []SilenceBounded
<1> QED  BY Invariance, Deadline, PTL

(* Every lost connection but one lost in poll itself is reported, and no    *)
(* late job takes the report back (Client.cpp:585-595, 626-710, 822-916).   *)
THEOREM LossIsReported == Spec => []LossReported
<1>1. IInv => LossReported
  BY DEF IInv, LossInv
<1> QED  BY <1>1, Invariance, PTL

(* No id of an earlier connection survives in m_rpcId (Client.cpp:405-418,  *)
(* 781-786).                                                                *)
THEOREM OwnSession == Spec => []SessionIsOwn
<1>1. IInv => SessionIsOwn
  BY DEF IInv, LossInv
<1> QED  BY <1>1, Invariance, PTL
-----------------------------------------------------------------------------
(* Client implements PoolLink: which step of the loop is which of the link. *)

LinkState == IF ~connected THEN "down" ELSE IF authenticated THEN "ready" ELSE "open"
linkVars  == <<LinkState, poolDisconnected>>

LEMMA LinkInit == Init => Link!Init
  BY DEF Init, Link!Init

\* A connection is lost in the middle of the loop, never twice.
LEMMA LinkLost ==
    ASSUME connected, DeclareDead \/ PollError \/ LoseConnection
    PROVE  Link!Next
<1>1. connected' = FALSE
  BY DEF DeclareDead, PollError, LoseConnection, Disconnect
<1>2. CASE DeclareDead \/ LoseConnection
  <2>1. Link!Lose
    BY <1>1, <1>2 DEF DeclareDead, LoseConnection, Link!Lose
  <2> QED BY <2>1 DEF Link!Next
<1>3. CASE PollError
  <2>1. Link!LoseUnnoticed
    BY <1>1, <1>3 DEF PollError, Link!LoseUnnoticed
  <2> QED BY <2>1 DEF Link!Next
<1> QED BY <1>2, <1>3

\* What arrives while the loop polls arrives on a connection, and a login is
\* answered only while there is no id.
LEMMA LinkHeard ==
    ASSUME IInv, LoginAnswer \/ JobMessage
    PROVE  Link!Next \/ UNCHANGED linkVars
<1>1. connected /\ connected' = TRUE
  BY DEF IInv, FlagsOK, LossInv, PlaceInv, LoginAnswer, JobMessage, connVars
<1>2. poolDisconnected' \in {poolDisconnected, FALSE}
  BY DEF LoginAnswer, JobMessage
<1>3. CASE UNCHANGED authenticated
  <2>1. CASE poolDisconnected' = FALSE
    <3>1. Link!Job
      BY <1>1, <1>3, <2>1 DEF Link!Job
    <3> QED BY <3>1 DEF Link!Next
  <2>2. CASE poolDisconnected' = poolDisconnected
    BY <1>1, <1>3, <2>2 DEF linkVars, LinkState
  <2> QED BY <1>2, <2>1, <2>2
<1>4. CASE LoginAnswer /\ authenticated' = TRUE
  <2>1. ~authenticated
    BY <1>4 DEF IInv, LossInv, SessionIsOwn, LoginAnswer
  <2>2. Link!LogIn
    BY <1>1, <1>2, <1>4, <2>1 DEF Link!LogIn
  <2> QED BY <2>2 DEF Link!Next
<1> QED BY <1>3, <1>4 DEF LoginAnswer, JobMessage, connVars

LEMMA LinkStep ==
    ASSUME IInv, [Next]_vars
    PROVE  Link!Next \/ UNCHANGED linkVars
<1> USE DEF linkVars, LinkState, connVars, toldVars
<1>1. CASE RunStart \/ Leave \/ Sleep \/ ReconnectFails
  BY <1>1 DEF RunStart, Leave, Sleep, ReconnectFails
<1>2. CASE Reconnect
  <2>1. ~connected /\ ~authenticated
    BY <1>2 DEF IInv, LossInv, PlaceInv, SessionIsOwn, Reconnect
  <2>2. Link!Connect
    BY <1>2, <2>1 DEF Reconnect, Link!Connect
  <2> QED BY <2>2 DEF Link!Next
<1>3. CASE NoTimer \/ MissKeepalive \/ SendKeepalive \/ SendKeepaliveFails \/ PollTimeout
  BY <1>3 DEF NoTimer, MissKeepalive, SendKeepalive, SendKeepaliveFails, PollTimeout
<1>4. CASE DeclareDead \/ PollError \/ LoseConnection
  <2>1. connected
    BY <1>4 DEF IInv, LossInv, PlaceInv, DeclareDead, PollError, LoseConnection
  <2> QED BY <1>4, <2>1, LinkLost
<1>5. CASE LoginAnswer \/ JobMessage
  BY <1>5, LinkHeard
<1>6. CASE OtherData \/ CopyId \/ SendShare \/ ShareFails \/ Stop
  BY <1>6 DEF OtherData, CopyId, SendShare, ShareFails, Stop
<1>7. CASE UNCHANGED vars
  BY <1>7 DEF vars
<1> QED BY <1>1, <1>2, <1>3, <1>4, <1>5, <1>6, <1>7 DEF Next, Loop

(* To the miner the loop is a PoolLink, for any timers and any number of    *)
(* connections (Client.cpp:561-740).                                        *)
THEOREM ImplementsLink == Spec => KeepsLink
<1>1. Spec => Link!Init
  BY LinkInit DEF Spec
<1>2. IInv /\ [Next]_vars
        => [Link!Next]_<<IF ~connected THEN "down" ELSE IF authenticated THEN "ready" ELSE "open",
                         poolDisconnected>>
  BY LinkStep DEF linkVars, LinkState
<1>3. Spec
        => [][Link!Next]_<<IF ~connected THEN "down" ELSE IF authenticated THEN "ready" ELSE "open",
                           poolDisconnected>>
  BY <1>2, Invariance, PTL DEF Spec
<1> QED BY <1>1, <1>3 DEF KeepsLink, Link!Spec
=============================================================================
