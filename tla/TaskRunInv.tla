------------------------------ MODULE TaskRunInv -----------------------------
(***************************************************************************)
(* The inductive invariant behind the safety properties of TaskRun. What the *)
(* properties lack is what the program counters remember: a status read from *)
(* the log several steps ago is still right if it was closed, because the    *)
(* first closed status of a log never changes; a handler that is about to    *)
(* flag or kill has already recorded the cancellation; a supervisor past the *)
(* registration still has its entry.                                         *)
(***************************************************************************)
EXTENDS TaskRun

HasLog(r) == truth[r] # << >>

\* The first status of every job is running, and a log with a closed status
\* has a first one.
LogInv(r) ==
    /\ HasLog(r) => Recorded(truth[r], "running")
    /\ (\E s \in Closed : Recorded(truth[r], s)) => FirstClosed(truth[r]) # {}

\* A status that was read from a log; and, if it is closed, still is what the
\* log yields.
Known(log, s) == s \in Status /\ Recorded(log, s)
Current(log, s) == s \in Closed => s = ProjStatus(log)

WasRecorded(r, s) == Known(truth[r], s)
StillTrue(r, s) == Current(truth[r], s)

WorkerInv(r) ==
    /\ pipe[r] # << >> => HasLog(r)
    /\ worker[r] = "none" => pipe[r] = << >>
    /\ worker[r] \in {"agent", "finishing"} => HasLog(r)
    /\ worker[r] = "finishing" => WasRecorded(r, result[r])
    /\ (\E i \in 1 .. Len(pipe[r]) : pipe[r][i] = "completed") => worker[r] \notin Alive

SupInv(r) ==
    /\ sup[r] \in {"absent", "inserted", "spawn"} => worker[r] = "none"
    /\ sup[r] \in {"absent", "inserted", "spawn", "register"}
           => ~row[r].bound /\ r \notin active
    /\ sup[r] \in {"loop"} \cup BindPc => r \in active
    /\ sup[r] \in BindPc \cup {"reap", "okRead"} => HasLog(r)
    /\ row[r].bound => HasLog(r)
    /\ sup[r] = "reapCancel" => Recorded(truth[r], "cancelled")
    /\ sup[r] \in {"okPhase", "okRun", "okTask"}
           => WasRecorded(r, fin[r]) /\ StillTrue(r, fin[r])

\* When no store fails, the supervisor leaves its loop only after the child.
ReapInv(r) ==
    ~StoreFaults /\ sup[r] \in ReapPc \cup TailPc \cup {"done"}
        => worker[r] \notin Alive /\ r \notin active

FreshPc == {"store", "reread", "repair", "locked"}

\* What a thread's record h says of the log and the task record of its job.
HandlerInv(h, log, rec) ==
    /\ h.pc # "idle" => log # << >>
    /\ h.pc \notin {"idle", "listWrite"} => rec # "absent"
    /\ h.pc \in FreshPc \cup {"listWrite", "phase", "upsert"} => Known(log, h.st)
    /\ h.pc \in FreshPc \/ (h.pc = "phase" /\ h.op = "startup") => Current(log, h.st)
    /\ h.pc = "locked" => h.op = "startup"
    /\ h.pc = "reread" => h.op = "close"
    /\ h.pc = "decide" => h.op = "close" /\ Known(log, h.shown)
    /\ h.pc = "repair" /\ h.op = "close" => Known(log, h.shown)
    /\ h.pc \in {"cancel", "mark", "find", "kill"} => h.op = "cancel"
    /\ h.pc \in {"check", "resume", "agent", "fin", "upsert"} => h.op = "input"
    /\ h.pc = "sync" => h.op \in {"cancel", "input"}
    /\ h.op = "cancel" /\ h.pc # "cancel" => Recorded(log, "cancelled")
    /\ h.op = "cancel" /\ h.pc \in {"sync", "mark", "find", "kill", "phase"} => h.st = "cancelled"

ThreadInv(t) == HandlerInv(thread[t], truth[thread[t].run], task[thread[t].run])

PollInv(r) == poll[r] # "idle" => HasLog(r) /\ poll[r] = Shown(r)

RunInv(r) == ResultIsTrue(r) /\ RecordedFirst(r) /\ Killable(r) /\ StatusesRecorded(r)

\* The inductive invariant: what the stores promise, and what each program
\* counter of the supervisor, the worker and the handlers still guarantees.
IInv ==
    /\ TypeOK
    /\ \A r \in Runs : /\ LogInv(r) /\ WorkerInv(r) /\ SupInv(r) /\ ReapInv(r)
                       /\ PollInv(r) /\ RunInv(r)
    /\ \A t \in Threads : ThreadInv(t)
=============================================================================
