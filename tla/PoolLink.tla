------------------------------- MODULE PoolLink -------------------------------
(***************************************************************************)
(* A pool connection as the miner sees it, whatever the timers, the        *)
(* messages and the logins inside it: when jobs may come, when shares may  *)
(* go out, and what the miner is told of a loss.                           *)
(***************************************************************************)

VARIABLES
    link,       \* "down", "open" (not logged in) or "ready"
    told        \* the miner believes the pool lost

Init == link = "open" /\ told = FALSE

\* The answer to the login, once for each connection; it may carry a job.
LogIn ==
    /\ link = "open"
    /\ link' = "ready"
    /\ told' \in {told, FALSE}

\* A job comes on a connection that is up, and only a job makes the miner
\* forget the loss.
Job ==
    /\ link # "down"
    /\ told' = FALSE
    /\ UNCHANGED link

Lose ==
    /\ link # "down"
    /\ link' = "down" /\ told' = TRUE

LoseUnnoticed ==
    /\ link # "down"
    /\ link' = "down"
    /\ UNCHANGED told

Connect ==
    /\ link = "down"
    /\ link' = "open"
    /\ UNCHANGED told

Next == LogIn \/ Job \/ Lose \/ LoseUnnoticed \/ Connect

Spec == Init /\ [][Next]_<<link, told>>
=============================================================================
