------------------------------ MODULE EventLog ------------------------------
(***************************************************************************)
(* What a log of the kernel promises, abstractly: entries are numbered from  *)
(* 1 without a gap and only ever added at the end, and what a reader that    *)
(* follows its cursor has been sent is always a beginning of the log.        *)
(***************************************************************************)
EXTENDS Naturals

CONSTANT Readers

VARIABLES log,   \* id -> entry
          got    \* got[r]: what reader r has been sent so far

Init == log = <<>> /\ got = [r \in Readers |-> <<>>]

(* The new entry is read off the next state.                                *)
Add == /\ \E id \in DOMAIN log' :
            /\ \A i \in DOMAIN log : i < id /\ log'[i] = log[i]
            /\ id = 1 \/ id - 1 \in DOMAIN log
            /\ DOMAIN log' = DOMAIN log \cup {id}
       /\ UNCHANGED got

Read(r) == /\ \E n \in {0} \cup DOMAIN log :
                /\ DOMAIN got[r] \subseteq 1 .. n
                /\ got' = [got EXCEPT ![r] = [i \in 1 .. n |-> log[i]]]
           /\ UNCHANGED log

Next == Add \/ \E r \in Readers : Read(r)

Spec == Init /\ [][Next]_<<log, got>>
=============================================================================
