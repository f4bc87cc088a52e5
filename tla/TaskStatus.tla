----------------------------- MODULE TaskStatus ------------------------------
(***************************************************************************)
(* What the Product Runtime promises about the status it derives for a      *)
(* task: it appears with the job, may change while the job is open, takes    *)
(* at most one closed status, and never leaves it, whatever the worker, the  *)
(* HTTP handlers, the repairs and a restart do and in whatever order.        *)
(***************************************************************************)
CONSTANTS Tasks, Open, Closed

VARIABLE shown

Init == shown = [k \in Tasks |-> "absent"]

\* The job's log yields a new status for task k.
Change(k) ==
    /\ shown[k] \notin Closed
    /\ \E s \in Open \cup Closed : shown' = [shown EXCEPT ![k] = s]

Next == \E k \in Tasks : Change(k)

Spec == Init /\ [][Next]_shown
=============================================================================
