----------------------------- MODULE FeeSchedule -----------------------------
(***************************************************************************)
(* What the dev fee promises about time, and nothing of how it is kept:    *)
(* the miner works for the user, then for the dev pool, then for the user  *)
(* again.  A fee period comes only after Interval of the user's time and   *)
(* is over after Duration, within Slack, as long as the fee is enabled.     *)
(* All three are real time, in the unit of the clock.                       *)
(***************************************************************************)
EXTENDS Integers

CONSTANTS Interval, Duration, Slack     \* natural numbers

VARIABLES
    mode,       \* "user" or "dev": whom the workers are told to work for
    age,        \* for how long
    enabled     \* the fee is not given up

Init == mode = "user" /\ age = 0 /\ enabled \in BOOLEAN

Pass ==
    /\ age' > age
    /\ mode = "dev" /\ enabled => age' < Duration + Slack
    /\ UNCHANGED <<mode, enabled>>

BeginFee ==
    /\ mode = "user" /\ age >= Interval
    /\ mode' = "dev" /\ age' = 0
    /\ UNCHANGED enabled

EndFee ==
    /\ mode = "dev" /\ age >= Duration
    /\ mode' = "user" /\ age' = 0
    /\ UNCHANGED enabled

GiveUp == enabled' = FALSE /\ UNCHANGED <<mode, age>>

Next == Pass \/ BeginFee \/ EndFee \/ GiveUp

Spec == Init /\ [][Next]_<<mode, age, enabled>>
=============================================================================
