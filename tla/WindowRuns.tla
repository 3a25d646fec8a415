----------------------------- MODULE WindowRuns -----------------------------
(***************************************************************************)
(* What the queue promises of one settlement window, with no jobs table,   *)
(* lease or sweep in sight: a window has at most one outstanding request   *)
(* and at most one worker on it, work is begun only for a request that is  *)
(* outstanding, and a worker that leaves either settles the request or     *)
(* abandons it to whoever is next.                                         *)
(***************************************************************************)
CONSTANTS Windows, Workers, Requests

VARIABLES
    outstanding,    \* the request of each window that is not settled, at most one
    running         \* the worker on each window, at most one

vars == <<outstanding, running>>

Init ==
    /\ outstanding = [win \in Windows |-> {}]
    /\ running = [win \in Windows |-> {}]

\* A request is accepted for a window that has none.
Accept(win, r) ==
    /\ outstanding[win] = {}
    /\ outstanding' = [outstanding EXCEPT ![win] = {r}]
    /\ UNCHANGED running

\* Requests nobody is working on are given up: withdrawn, or out of attempts.
GiveUp(wins) ==
    /\ \A win \in wins : running[win] = {}
    /\ outstanding' = [win \in Windows |->
                        IF win \in wins THEN {} ELSE outstanding[win]]
    /\ UNCHANGED running

\* A worker takes up an outstanding request on a window nobody is working on.
Begin(win, w) ==
    /\ outstanding[win] # {}
    /\ running[win] = {}
    /\ running' = [running EXCEPT ![win] = {w}]
    /\ UNCHANGED outstanding

\* The worker is gone and the request is still outstanding.
Abandon(win, w) ==
    /\ running[win] = {w}
    /\ running' = [running EXCEPT ![win] = {}]
    /\ UNCHANGED outstanding

\* The worker is finished and so is the request.
Settle(win, w) ==
    /\ running[win] = {w}
    /\ running' = [running EXCEPT ![win] = {}]
    /\ outstanding' = [outstanding EXCEPT ![win] = {}]

Next ==
    \/ \E wins \in SUBSET Windows : GiveUp(wins)
    \/ \E win \in Windows, r \in Requests : Accept(win, r)
    \/ \E win \in Windows, w \in Workers :
        Begin(win, w) \/ Abandon(win, w) \/ Settle(win, w)

Spec == Init /\ [][Next]_vars

=============================================================================
