---------------------------- MODULE FeeClockProofs ----------------------------
(***************************************************************************)
(* FeeClock implements FeeSchedule, for every interval, duration, length   *)
(* of a sleep and wait for the mutex.  The invariant ties the counters to  *)
(* real time: whole seconds counted and the rest not yet counted are no    *)
(* more than the user's time, and the steps of the thread bound how late   *)
(* the end of a period can be.                                              *)
(***************************************************************************)
EXTENDS FeeClock, TLAPS

D == FeeDuration * Second

\* The seconds counted and the present count are not more than what passed.
CountInv == ~feeActive => Second * userMiningSeconds + sinceCheck <= modeAge

\* A switch is only on its way when it is due.
DueInv ==
    feeStep \in {"lock", "switch"} =>
        /\ ~feeActive => userMiningSeconds >= FeeInterval
        /\ feeActive => sinceStart >= D

\* A fee period: its age, and how far each step of the thread can take it.
PeriodInv ==
    feeActive =>
        /\ sinceStart = modeAge
        /\ feeEnabled =>
            /\ feeStep = "sleep" => modeAge < D
            /\ feeStep \in {"check", "lock"} => modeAge < D + MaxGap
            /\ feeStep = "switch" => modeAge < D + MaxGap + MaxWait

Flags == /\ feeStep \in {"sleep", "check", "lock", "switch"}
         /\ feeActive \in BOOLEAN /\ feeEnabled \in BOOLEAN

Times == /\ userMiningSeconds \in Nat /\ sinceCheck \in Nat
         /\ modeAge \in 0..MaxAge /\ sinceStart \in Nat

IInv == Flags /\ Times /\ CountInv /\ DueInv /\ PeriodInv

(* What counting in whole seconds keeps of a time: never more than all of  *)
(* it, and less than a second less (Miner.cpp:431-440).                     *)
LEMMA WholeSeconds ==
    ASSUME NEW t \in Nat
    PROVE  /\ t \div Second \in Nat
           /\ Second * (t \div Second) <= t
           /\ t < Second * (t \div Second) + Second
  BY ClockAssumption, SMT

LEMMA Longer ==
    ASSUME NEW a \in Nat, NEW b \in Nat, a >= b
    PROVE  Second * a >= Second * b
  BY ClockAssumption, SMT

LEMMA DType == D \in Nat /\ D = Second * FeeDuration /\ D > 0
  BY ClockAssumption, SMT DEF D

LEMMA DurationOver ==
    ASSUME NEW t \in Nat
    PROVE  (t \div Second >= FeeDuration) <=> t >= D
<1>1. ASSUME t \div Second >= FeeDuration PROVE t >= D
  <2>1. Second * (t \div Second) >= Second * FeeDuration
    BY <1>1, WholeSeconds, Longer, ClockAssumption
  <2> QED BY <2>1, WholeSeconds, DType, ClockAssumption
<1>2. ASSUME ~(t \div Second >= FeeDuration) PROVE t < D
  <2>1. FeeDuration >= (t \div Second) + 1
    BY <1>2, WholeSeconds, ClockAssumption
  <2>2. Second * FeeDuration >= Second * ((t \div Second) + 1)
    BY <2>1, WholeSeconds, Longer, ClockAssumption
  <2>3. Second * ((t \div Second) + 1) = Second * (t \div Second) + Second
    BY WholeSeconds, ClockAssumption, SMT
  <2> QED BY <2>2, <2>3, WholeSeconds, DType, ClockAssumption
<1> QED BY <1>1, <1>2, DType

LEMMA InitInv == InitClock => IInv
<1> SUFFICES ASSUME InitClock PROVE IInv
  OBVIOUS
<1>1. Second * 0 = 0
  BY ClockAssumption
<1>2. Flags
  BY DEF InitClock, Flags
<1>3. Times
  BY ClockAssumption DEF InitClock, Times
<1> QED BY <1>1, <1>2, <1>3 DEF InitClock, IInv, CountInv, DueInv, PeriodInv

LEMMA NextInv == IInv /\ [NextClock]_clock => IInv'
<1> SUFFICES ASSUME IInv, [NextClock]_clock PROVE IInv'
  OBVIOUS
<1> USE DEF IInv
<1>t. /\ Second \in Nat /\ Second > 0 /\ D \in Nat /\ D > 0 /\ MaxGap \in Nat /\ MaxWait \in Nat
      /\ MaxAge \in Nat /\ FeeInterval \in Nat
  BY ClockAssumption, DType
<1>1. ASSUME NEW d \in Second..MaxGap, FeeSleep(d) PROVE IInv'
  <2>1. d \in Nat
    BY <1>t
  <2>2. Flags'
    BY <1>1 DEF FeeSleep, Flags
  <2>3. Times'
    BY <1>1, <2>1, <1>t DEF FeeSleep, Elapse, Times, Flags
  <2>4. CountInv'
    BY <1>1, <2>1, <1>t DEF FeeSleep, Elapse, CountInv, Times, Flags
  <2>5. DueInv'
    BY <1>1 DEF FeeSleep, DueInv
  <2>6. PeriodInv'
    BY <1>1, <2>1, <1>t DEF FeeSleep, Elapse, PeriodInv, Times, Flags
  <2> QED BY <2>2, <2>3, <2>4, <2>5, <2>6
<1>2. CASE CheckNothing
  BY <1>2 DEF CheckNothing, Flags, Times, CountInv, DueInv, PeriodInv
<1>3. CASE CheckFee
  <2>1. (sinceStart \div Second >= FeeDuration) <=> sinceStart >= D
    BY DurationOver DEF Times
  <2>2. Flags' /\ Times' /\ CountInv'
    BY <1>3 DEF CheckFee, Flags, Times, CountInv
  <2>3. DueInv' /\ PeriodInv'
    BY <1>3, <2>1, <1>t DEF CheckFee, DueInv, PeriodInv, Flags, Times
  <2> QED BY <2>2, <2>3
<1>4. CASE CheckUser
  <2> DEFINE s == sinceCheck \div Second
  <2>1. s \in Nat /\ Second * s <= sinceCheck
    BY WholeSeconds DEF Times
  <2>2. userMiningSeconds' = userMiningSeconds + s
    BY <1>4 DEF CheckUser
  <2>3. Second * userMiningSeconds' = Second * userMiningSeconds + Second * s
    BY <2>1, <2>2, <1>t, SMT DEF Times
  <2>4. Second * userMiningSeconds \in Nat /\ Second * s \in Nat
    BY <2>1, <1>t, SMT DEF Times
  <2>5. s = 0 => Second * s = 0
    BY <1>t
  <2>6. sinceCheck' = IF s > 0 THEN 0 ELSE sinceCheck
    BY <1>4 DEF CheckUser
  <2>7. Flags'
    BY <1>4 DEF CheckUser, Flags
  <2>8. Times'
    <3> HIDE DEF s
    <3> QED BY <1>4, <2>1, <2>2, <2>6 DEF CheckUser, Times
  <2>9. CountInv'
    <3> HIDE DEF s
    <3>1. UNCHANGED <<feeActive, modeAge>> /\ ~feeActive
      BY <1>4 DEF CheckUser
    <3> QED BY <3>1, <2>1, <2>3, <2>4, <2>5, <2>6 DEF CountInv, Times
  <2>10. DueInv' /\ PeriodInv'
    BY <1>4 DEF CheckUser, DueInv, PeriodInv
  <2> QED BY <2>7, <2>8, <2>9, <2>10
<1>5. ASSUME NEW d \in 0..MaxWait, AwaitJobMutex(d) PROVE IInv'
  <2>1. d \in Nat
    BY <1>t
  <2>2. Flags'
    BY <1>5 DEF AwaitJobMutex, Flags
  <2>3. Times'
    BY <1>5, <2>1, <1>t DEF AwaitJobMutex, Elapse, Times, Flags
  <2>4. CountInv'
    BY <1>5, <2>1, <1>t DEF AwaitJobMutex, Elapse, CountInv, Times, Flags
  <2>5. DueInv'
    BY <1>5, <2>1, <1>t DEF AwaitJobMutex, Elapse, DueInv, Times
  <2>6. PeriodInv'
    BY <1>5, <2>1, <1>t DEF AwaitJobMutex, Elapse, PeriodInv, Times, Flags
  <2> QED BY <2>2, <2>3, <2>4, <2>5, <2>6
<1>6. CASE SkipFee
  BY <1>6 DEF SkipFee, Flags, Times, CountInv, DueInv, PeriodInv
<1>7. CASE BeginFee
  <2>1. Flags'
    BY <1>7 DEF BeginFee, Flags
  <2>2. Times'
    BY <1>7, <1>t DEF BeginFee, Times
  <2> QED BY <1>7, <1>t, <2>1, <2>2 DEF BeginFee, CountInv, DueInv, PeriodInv
<1>8. CASE EndFee
  <2>1. Flags'
    BY <1>8 DEF EndFee, Flags
  <2>2. Times'
    BY <1>8, <1>t DEF EndFee, Times
  <2>3. Second * 0 = 0
    BY <1>t
  <2> QED BY <1>8, <1>t, <2>1, <2>2, <2>3 DEF EndFee, CountInv, DueInv, PeriodInv
<1>9. CASE DisableFee
  <2>1. Flags'
    BY <1>9 DEF DisableFee, Flags
  <2> QED BY <1>9, <2>1 DEF DisableFee, Times, CountInv, DueInv, PeriodInv
<1>10. CASE UNCHANGED clock
  BY <1>10 DEF clock, Flags, Times, CountInv, DueInv, PeriodInv
<1> QED BY <1>1, <1>2, <1>3, <1>4, <1>5, <1>6, <1>7, <1>8, <1>9, <1>10 DEF NextClock

(* The counters never run ahead of real time, and a period that is not      *)
(* given up ends within one sleep and one wait (Miner.cpp:425-488).          *)
THEOREM Counters == ClockSpec => []IInv
  BY InitInv, NextInv, PTL DEF ClockSpec

LEMMA InitSchedule == InitClock => Schedule!Init
  BY DEF InitClock, Schedule!Init

\* Time passes: the bound on a fee period is that of the step it passes in.
LEMMA PassSchedule ==
    ASSUME IInv, IInv', NEW d \in Nat, d > 0, Elapse(d), UNCHANGED <<feeActive, feeEnabled>>,
           feeStep \in {"sleep", "lock"}, feeStep' \in {"check", "switch"}
    PROVE  Schedule!Pass
<1>1. modeAge' > modeAge
  BY DEF Elapse, IInv, Times
<1>2. feeActive /\ feeEnabled => modeAge' < D + (MaxGap + MaxWait)
  BY DType, ClockAssumption DEF IInv, PeriodInv, Times
<1> QED BY <1>1, <1>2 DEF Schedule!Pass, D

LEMMA NextSchedule ==
    IInv /\ IInv' /\ [NextClock]_clock
        => [Schedule!Next]_<<IF feeActive THEN "dev" ELSE "user", modeAge, feeEnabled>>
<1> SUFFICES ASSUME IInv, IInv', [NextClock]_clock
    PROVE  Schedule!Next \/ UNCHANGED <<feeActive, modeAge, feeEnabled>>
  OBVIOUS
<1>1. ASSUME NEW d \in Second..MaxGap, FeeSleep(d) PROVE Schedule!Next
  <2>1. d \in Nat /\ d > 0
    BY ClockAssumption
  <2>2. Elapse(d) /\ UNCHANGED <<feeActive, feeEnabled>> /\ feeStep = "sleep"
          /\ feeStep' = "check"
    BY <1>1 DEF FeeSleep
  <2>3. Schedule!Pass
    BY <2>1, <2>2, PassSchedule
  <2> QED BY <2>3 DEF Schedule!Next
<1>2. CASE CheckNothing
  BY <1>2 DEF CheckNothing
<1>3. CASE CheckFee
  BY <1>3 DEF CheckFee
<1>4. CASE CheckUser
  BY <1>4 DEF CheckUser
<1>5. ASSUME NEW d \in 0..MaxWait, AwaitJobMutex(d)
      PROVE Schedule!Next \/ UNCHANGED <<feeActive, modeAge, feeEnabled>>
  <2>1. d \in Nat
    BY ClockAssumption
  <2>2. Elapse(d) /\ UNCHANGED <<feeActive, feeEnabled>> /\ feeStep = "lock"
          /\ feeStep' = "switch"
    BY <1>5 DEF AwaitJobMutex
  <2>3. CASE d = 0
    BY <2>2, <2>3 DEF Elapse, IInv, Times
  <2>4. CASE d > 0
    <3>1. Schedule!Pass
      BY <2>1, <2>2, <2>4, PassSchedule
    <3> QED BY <3>1 DEF Schedule!Next
  <2> QED BY <2>1, <2>3, <2>4
<1>6. CASE SkipFee
  BY <1>6 DEF SkipFee
<1>7. CASE BeginFee
  <2>1. Second * userMiningSeconds >= Second * FeeInterval
    BY <1>7, Longer, ClockAssumption DEF BeginFee, IInv, DueInv, Times
  <2>2. Second * FeeInterval = FeeInterval * Second /\ Second * userMiningSeconds \in Nat
    BY ClockAssumption, SMT DEF IInv, Times
  <2>3. FeeInterval * Second \in Nat
    BY ClockAssumption, SMT
  <2>4. modeAge >= FeeInterval * Second
    BY <1>7, <2>1, <2>2, <2>3 DEF BeginFee, IInv, CountInv, Times
  <2>5. Schedule!BeginFee
    BY <1>7, <2>4 DEF BeginFee, Schedule!BeginFee
  <2> QED BY <2>5 DEF Schedule!Next
<1>8. CASE EndFee
  <2>1. modeAge >= FeeDuration * Second
    BY <1>8 DEF EndFee, IInv, DueInv, PeriodInv, D
  <2>2. Schedule!EndFee
    BY <1>8, <2>1 DEF EndFee, Schedule!EndFee
  <2> QED BY <2>2 DEF Schedule!Next
<1>9. CASE DisableFee
  <2>1. Schedule!GiveUp
    BY <1>9 DEF DisableFee, Schedule!GiveUp
  <2> QED BY <2>1 DEF Schedule!Next
<1>10. CASE UNCHANGED clock
  BY <1>10 DEF clock
<1> QED BY <1>1, <1>2, <1>3, <1>4, <1>5, <1>6, <1>7, <1>8, <1>9, <1>10 DEF NextClock

(* The fee thread implements the schedule: each fee period is preceded by  *)
(* a whole interval of the user's time and, while the fee is enabled, over  *)
(* in time (Miner.cpp:130-139, 425-488).                                    *)
THEOREM Implements == ClockSpec => KeepsSchedule
<1>1. ClockSpec => Schedule!Init
  BY InitSchedule DEF ClockSpec
<1>2. ClockSpec => [][Schedule!Next]_<<IF feeActive THEN "dev" ELSE "user", modeAge, feeEnabled>>
  BY Counters, NextSchedule, PTL DEF ClockSpec
<1> QED BY <1>1, <1>2 DEF KeepsSchedule, Schedule!Spec
=============================================================================
