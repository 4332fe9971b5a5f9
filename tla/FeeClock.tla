------------------------------- MODULE FeeClock -------------------------------
(***************************************************************************)
(* The dev-fee thread of Miner::start: it sleeps for a second, calls       *)
(* checkDevFee and, when a period is due or over, switches the workers     *)
(* under m_jobMutex.  Time is counted in ticks, several to a second,       *)
(* because checkDevFee counts whole seconds and starts the next count at   *)
(* the moment it looks, so what is left of a second is lost each time.     *)
(* What the switches do to jobs and workers is in Shares and Miner.        *)
(***************************************************************************)
EXTENDS Integers

CONSTANTS
    Second,         \* ticks in a second
    FeeInterval,    \* DEV_FEE_INTERVAL, in seconds
    FeeDuration,    \* DEV_FEE_DURATION, in seconds
    MaxGap,         \* bound: ticks a sleep of one second takes at most
    MaxWait,        \* bound: ticks m_jobMutex is waited for
    MaxAge          \* bound: ticks between two switches, for a dev pool that
                    \* is not ready

ASSUME ClockAssumption ==
    /\ Second \in Nat \ {0} /\ FeeInterval \in Nat /\ FeeDuration \in Nat \ {0}
    /\ MaxGap \in Nat /\ MaxGap >= Second /\ MaxWait \in Nat /\ MaxAge \in Nat

VARIABLES
    feeStep,            \* the thread: "sleep", "check", "lock" or "switch"
    feeActive,          \* m_devFeeActive
    feeEnabled,         \* m_devFeeEnabled
    userMiningSeconds,  \* m_userMiningSeconds
    sinceCheck,         \* now - m_lastDevFeeCheck
    sinceStart,         \* now - m_devFeeStart, in a fee period
    modeAge             \* history: real time since the last switch

clock == <<feeStep, feeActive, feeEnabled, userMiningSeconds, sinceCheck, sinceStart, modeAge>>

InitClock ==
    /\ feeStep = "sleep" /\ feeActive = FALSE /\ feeEnabled \in BOOLEAN
    /\ userMiningSeconds = 0 /\ sinceCheck = 0 /\ sinceStart = 0 /\ modeAge = 0
-----------------------------------------------------------------------------
Elapse(d) ==
    /\ modeAge + d <= MaxAge
    /\ modeAge' = modeAge + d
    /\ sinceCheck' = sinceCheck + d
    /\ sinceStart' = IF feeActive THEN sinceStart + d ELSE sinceStart

FeeSleep(d) ==
    /\ feeStep = "sleep" /\ d \in Second..MaxGap
    /\ Elapse(d)
    /\ feeStep' = "check"
    /\ UNCHANGED <<feeActive, feeEnabled, userMiningSeconds>>

\* Disabled: the clock is not looked at.
CheckNothing ==
    /\ feeStep = "check" /\ ~feeEnabled
    /\ feeStep' = "sleep"
    /\ UNCHANGED <<feeActive, feeEnabled, userMiningSeconds, sinceCheck, sinceStart, modeAge>>

\* checkDevFee in a fee period
CheckFee ==
    /\ feeStep = "check" /\ feeEnabled /\ feeActive
    /\ feeStep' = IF sinceStart \div Second >= FeeDuration THEN "lock" ELSE "sleep"
    /\ UNCHANGED <<feeActive, feeEnabled, userMiningSeconds, sinceCheck, sinceStart, modeAge>>

\* checkDevFee in the user's time.  The interval may be over without a dev job
\* that has come: then nothing is locked.
CheckUser ==
    /\ feeStep = "check" /\ feeEnabled /\ ~feeActive
    /\ userMiningSeconds' = userMiningSeconds + sinceCheck \div Second
    /\ sinceCheck' = IF sinceCheck \div Second > 0 THEN 0 ELSE sinceCheck
    /\ \/ feeStep' = "sleep"
       \/ feeStep' = "lock" /\ userMiningSeconds' >= FeeInterval
    /\ UNCHANGED <<feeActive, feeEnabled, sinceStart, modeAge>>

AwaitJobMutex(d) ==
    /\ feeStep = "lock" /\ d \in 0..MaxWait
    /\ Elapse(d)
    /\ feeStep' = "switch"
    /\ UNCHANGED <<feeActive, feeEnabled, userMiningSeconds>>

\* "Dev RandomX not ready, skipping"
SkipFee ==
    /\ feeStep = "switch" /\ ~feeActive
    /\ feeStep' = "sleep"
    /\ UNCHANGED <<feeActive, feeEnabled, userMiningSeconds, sinceCheck, sinceStart, modeAge>>

BeginFee ==
    /\ feeStep = "switch" /\ ~feeActive
    /\ feeActive' = TRUE /\ sinceStart' = 0 /\ modeAge' = 0
    /\ feeStep' = "sleep"
    /\ UNCHANGED <<feeEnabled, userMiningSeconds, sinceCheck>>

\* Mutant: the seconds already counted are kept.
EndFeeKeepsSeconds ==
    /\ feeStep = "switch" /\ feeActive
    /\ feeActive' = FALSE /\ sinceCheck' = 0 /\ modeAge' = 0
    /\ feeStep' = "sleep"
    /\ UNCHANGED <<feeEnabled, userMiningSeconds, sinceStart>>

EndFee ==
    /\ feeStep = "switch" /\ feeActive
    /\ feeActive' = FALSE /\ userMiningSeconds' = 0 /\ sinceCheck' = 0 /\ modeAge' = 0
    /\ feeStep' = "sleep"
    /\ UNCHANGED <<feeEnabled, sinceStart>>

\* onDevJob, the dev instance cannot be built
DisableFee ==
    /\ feeEnabled
    /\ feeEnabled' = FALSE
    /\ UNCHANGED <<feeStep, feeActive, userMiningSeconds, sinceCheck, sinceStart, modeAge>>
-----------------------------------------------------------------------------
NextClock ==
    \/ \E d \in Second..MaxGap : FeeSleep(d)
    \/ CheckNothing \/ CheckFee \/ CheckUser
    \/ \E d \in 0..MaxWait : AwaitJobMutex(d)
    \/ SkipFee \/ BeginFee \/ EndFee \/ DisableFee

ClockSpec == InitClock /\ [][NextClock]_clock
-----------------------------------------------------------------------------
Schedule == INSTANCE FeeSchedule WITH
    Interval <- FeeInterval * Second, Duration <- FeeDuration * Second,
    Slack <- MaxGap + MaxWait,
    mode <- IF feeActive THEN "dev" ELSE "user", age <- modeAge, enabled <- feeEnabled

(* The fee thread keeps the schedule: however long its sleeps and waits     *)
(* take, and however often the dev pool is not ready, no second is counted  *)
(* twice, each period is preceded by a whole interval of the user's time    *)
(* and ends in time unless the fee is disabled (Miner.cpp:130-139,          *)
(* 425-488).                                                                *)
KeepsSchedule == Schedule!Spec
=============================================================================
