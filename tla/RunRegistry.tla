----------------------------- MODULE RunRegistry -----------------------------
(***************************************************************************)
(* The run_registry table of the Product Runtime and the two ways this      *)
(* program derives a status from the event log of a job.                    *)
(*                                                                          *)
(* A row is kept as the four columns the SQL statements test or assign:     *)
(*   status   the status column ("none" when the run was never inserted)    *)
(*   cancel   cancel_requested                                              *)
(*   bound    task_id / job_id are set to the job of this run               *)
(*   locked   error_message mentions "database is locked"                   *)
(* Every operator below is one SQL statement, so one atomic step.           *)
(***************************************************************************)
EXTENDS Naturals, Sequences

(***************************************************************************)
(* Statuses of a job, as job_status_changed / job_* events report them.     *)
(* waiting_approval is normalised to running by task_status_from_events.    *)
(***************************************************************************)
Closed == {"completed", "failed", "blocked", "interrupted", "cancelled"}
Open   == {"running", "waiting_user"}
Status == Closed \cup Open

\* The statuses a registry row can take.
ActiveRun == {"queued", "running", "waiting_user", "cancel_requested"}
RunStatus == {"none"} \cup ActiveRun \cup Closed

Row == [status : RunStatus, cancel : BOOLEAN, bound : BOOLEAN, locked : BOOLEAN]

NoRow  == [status |-> "none", cancel |-> FALSE, bound |-> FALSE, locked |-> FALSE]
NewRow == [NoRow EXCEPT !.status = "queued"]

\* The statuses request_cancel_* refuses to touch: interrupted is not one of them.
Final == {"completed", "failed", "blocked", "cancelled"}

-----------------------------------------------------------------------------
(* Updates of a row.                                                        *)

\* update_run_status is unconditional; it rewrites the error, not the flag.
SetStatus(row, s, isLocked) == [row EXCEPT !.status = s, !.locked = isLocked]

RunTerminalStatus(s) ==
    IF s \in {"completed", "cancelled", "blocked", "waiting_user", "running"}
    THEN s ELSE "failed"

CompleteRun(row, s) == SetStatus(row, RunTerminalStatus(s), FALSE)
FailRun(row, isLocked) == SetStatus(row, "failed", isLocked)
BindRow(row) == [row EXCEPT !.bound = TRUE]

RequestCancel(row) ==
    IF row.bound /\ row.status \notin Final
    THEN [row EXCEPT !.cancel = TRUE, !.status = "cancel_requested"]
    ELSE row

\* The error written by a repair comes from the job's own events.
Repaired(row, s) == [row EXCEPT !.status = s, !.cancel = FALSE, !.locked = FALSE]

\* Mutant of RepairStale: a row whose cancellation is pending is not stale.
RepairStaleUnflagged(row, s) ==
    IF row.bound /\ row.status \in ActiveRun \ {"cancel_requested"}
    THEN Repaired(row, s) ELSE row

RepairStale(row, s) ==
    IF row.bound /\ row.status \in ActiveRun THEN Repaired(row, s) ELSE row

RepairLocked(row, s) ==
    IF row.bound /\ row.status = "failed" /\ row.locked THEN Repaired(row, s) ELSE row

-----------------------------------------------------------------------------
(* Reading a status out of the job's log of status events.                  *)

IsFirstClosed(log, i) ==
    /\ log[i] \in Closed
    /\ \A j \in 1 .. i - 1 : log[j] \notin Closed

FirstClosed(log) == {i \in 1 .. Len(log) : IsFirstClosed(log, i)}

\* Mutant of ProjStatus: closed statuses do not stick.
ProjStatusLast(log) == IF log = << >> THEN "absent" ELSE log[Len(log)]

\* task_status_from_events: once a closed status was seen, later ones are skipped.
ProjStatus(log) ==
    IF log = << >> THEN "absent"
    ELSE IF FirstClosed(log) # {}
         THEN log[CHOOSE i \in FirstClosed(log) : TRUE]
         ELSE log[Len(log)]

\* ProcessTruthStore::replay: the last status event wins.
KernelStatus(log) == IF log = << >> THEN "absent" ELSE log[Len(log)]

\* Whether a given status was ever recorded for the job.
Recorded(log, s) == \E i \in 1 .. Len(log) : log[i] = s
=============================================================================
