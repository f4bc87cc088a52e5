------------------------------- MODULE TaskRun -------------------------------
(***************************************************************************)
(* One task run of the Product Runtime, from POST /tasks/stream to its last  *)
(* response, with everything that works on it at the same time:              *)
(*   - the request thread that supervises the run (TaskService::start_stream *)
(*     and RunManager::run_worker_command), written sup below;               *)
(*   - the kernel worker, a child process that owns the agent loop;          *)
(*   - other request threads: reads (get, list), force close, user input;    *)
(*   - the GET /runs poll that repairs stale rows;                           *)
(*   - restarts of the server and the projection repair it starts with.      *)
(*                                                                           *)
(* Four stores record what became of the task, none of them under a common   *)
(* lock: the job's log (truth), the container timeline of the kernel, the    *)
(* run row, the task record and the runtime-phase message of the product.    *)
(* One step is one statement on one store, so every interleaving between     *)
(* the statements of two threads is a behaviour.                             *)
(***************************************************************************)
EXTENDS RunRegistry, FiniteSets

CONSTANTS
    Runs,         \* the task runs, each of its own job
    Threads,      \* request threads besides the supervisors
    Outcomes,     \* statuses an agent loop can end with
    Ops,          \* which requests arrive: subset of {"get", "list", "close", "input"}
    MaxRequests,  \* bound on close and input requests
    MaxRestarts,  \* bound on restarts of the server
    StoreFaults   \* whether a statement on a store may fail

ASSUME RunsAssumption     == Runs # {}
ASSUME OutcomesAssumption == Outcomes \subseteq (Closed \ {"cancelled"}) \cup {"waiting_user"}
ASSUME OpsAssumption      == Ops \subseteq {"get", "list", "close", "input"}
ASSUME BoundsAssumption   == /\ MaxRequests \in Nat /\ MaxRestarts \in Nat
                             /\ StoreFaults \in BOOLEAN

VARIABLES
    truth,     \* status events of the job, oldest first (empty: no job yet)
    timeline,  \* status of the job in the container timeline
    tlBound,   \* agent_container_task_bound is in the job's log
    worker,    \* the child process
    pipe,      \* task.started / task.completed lines not read yet
    result,    \* status the agent loop of the worker returned
    row,       \* the run_registry row
    task,      \* status column of the task record
    phase,     \* status of the "TaskRuntime running" message
    active,    \* active_processes: runs whose child can be killed
    sup,       \* program counter of the supervising request
    fin,       \* final_status the supervisor read
    serr,      \* its error mentions a locked database
    thread,    \* the other request threads
    poll,      \* status the poll read for a run, "idle" when there is none
    requests,  \* close and input requests so far
    restarts,  \* restarts so far
    due        \* runs the projection repair still has to visit

kernel == <<truth, timeline, tlBound>>
child  == <<worker, pipe, result>>
store  == <<row, task, phase>>
super  == <<active, sup, fin, serr>>
env    == <<requests, restarts, due>>
vars   == <<truth, timeline, tlBound, worker, pipe, result, row, task, phase,
            active, sup, fin, serr, thread, poll, requests, restarts, due>>

Seen       == Status \cup {"absent"}
PhaseValue == (Status \ {"running"}) \cup {"absent", "streaming"}
WorkerState == {"none", "spawned", "agent", "finishing", "exited", "killed"}
Alive       == {"spawned", "agent", "finishing"}
BindPc == {"bindTask", "bindRun", "bindPhase"}
ReapPc == {"reap", "reapCancel", "reapEof", "eofFail"}
TailPc == {"okRead", "okPhase", "okRun", "okTask", "err"}
SupPc  == {"absent", "inserted", "spawn", "register", "loop", "done", "dead"}
              \cup BindPc \cup ReapPc \cup TailPc
ThreadPc == {"idle", "listWrite", "load", "store", "reread", "repair", "locked",
             "decide", "cancel", "sync", "mark", "find", "kill", "phase",
             "check", "resume", "agent", "fin", "upsert"}
ThreadOp == {"none", "get", "list", "close", "cancel", "input", "startup"}
Thread == [pc : ThreadPc, op : ThreadOp, run : Runs, st : Seen, shown : Seen]

\* The canonical value of a thread that serves nothing.
Idle == [pc |-> "idle", op |-> "none", run |-> CHOOSE r \in Runs : TRUE,
         st |-> "absent", shown |-> "absent"]

PhaseOf(s) == IF s = "running" THEN "streaming" ELSE s
Shown(r) == ProjStatus(truth[r])

Init ==
    /\ truth = [r \in Runs |-> << >>]
    /\ timeline = [r \in Runs |-> "absent"]
    /\ tlBound = [r \in Runs |-> FALSE]
    /\ worker = [r \in Runs |-> "none"]
    /\ pipe = [r \in Runs |-> << >>]
    /\ result = [r \in Runs |-> "absent"]
    /\ row = [r \in Runs |-> NoRow]
    /\ task = [r \in Runs |-> "absent"]
    /\ phase = [r \in Runs |-> "absent"]
    /\ active = {}
    /\ sup = [r \in Runs |-> "absent"]
    /\ fin = [r \in Runs |-> "absent"]
    /\ serr = [r \in Runs |-> FALSE]
    /\ thread = [t \in Threads |-> Idle]
    /\ poll = [r \in Runs |-> "idle"]
    /\ requests = 0
    /\ restarts = 0
    /\ due = {}

-----------------------------------------------------------------------------
(* Writes to the shared stores, used by several actions.                     *)

Append1(r, s)   == truth' = [truth EXCEPT ![r] = Append(@, s)]
SetRow(r, new)  == row' = [row EXCEPT ![r] = new]
UpsertTask(r, s) == task' = [task EXCEPT ![r] = s]
\* complete_task_runtime_phase rewrites the message if there is one.
SetPhase(r, s) ==
    phase' = [phase EXCEPT ![r] = IF @ = "absent" THEN @ ELSE PhaseOf(s)]
Goto(r, pc) == sup' = [sup EXCEPT ![r] = pc]

-----------------------------------------------------------------------------
(* The supervising request.                                                  *)

\* start_task_run: the row is inserted as queued, then marked running.
InsertRun(r) ==
    /\ sup[r] = "absent"
    /\ SetRow(r, NewRow) /\ Goto(r, "inserted")
    /\ UNCHANGED <<kernel, child, task, phase, active, fin, serr, thread, poll, env>>

MarkRunning(r) ==
    /\ sup[r] = "inserted"
    /\ SetRow(r, SetStatus(row[r], "running", FALSE)) /\ Goto(r, "spawn")
    /\ UNCHANGED <<kernel, child, task, phase, active, fin, serr, thread, poll, env>>

\* The child is spawned and handed its command before it is registered.
Spawn(r) ==
    /\ sup[r] = "spawn"
    /\ worker' = [worker EXCEPT ![r] = "spawned"] /\ Goto(r, "register")
    /\ UNCHANGED <<kernel, pipe, result, store, active, fin, serr, thread, poll, env>>

\* Mutant of Register: the child is not put into active_processes.
RegisterNothing(r) ==
    /\ sup[r] = "register" /\ Goto(r, "loop")
    /\ UNCHANGED <<kernel, child, store, active, fin, serr, thread, poll, env>>

Register(r) ==
    /\ sup[r] = "register"
    /\ active' = active \cup {r} /\ Goto(r, "loop")
    /\ UNCHANGED <<kernel, child, store, fin, serr, thread, poll, env>>

\* task.started: bind_started_task runs in the loop, one store after the other.
ReadStarted(r) ==
    /\ sup[r] = "loop" /\ pipe[r] # << >> /\ Head(pipe[r]) = "started"
    /\ pipe' = [pipe EXCEPT ![r] = Tail(@)] /\ Goto(r, "bindTask")
    /\ UNCHANGED <<kernel, worker, result, store, active, fin, serr, thread, poll, env>>

BindTask(r) ==
    /\ sup[r] = "bindTask"
    /\ UpsertTask(r, "running") /\ Goto(r, "bindRun")
    /\ UNCHANGED <<kernel, child, row, phase, active, fin, serr, thread, poll, env>>

BindRun(r) ==
    /\ sup[r] = "bindRun"
    /\ SetRow(r, BindRow(row[r])) /\ Goto(r, "bindPhase")
    /\ UNCHANGED <<kernel, child, task, phase, active, fin, serr, thread, poll, env>>

BindPhase(r) ==
    /\ sup[r] = "bindPhase"
    /\ phase' = [phase EXCEPT ![r] = "streaming"] /\ Goto(r, "loop")
    /\ UNCHANGED <<kernel, child, row, task, active, fin, serr, thread, poll, env>>

\* task.completed ends the loop; the child is reaped and unregistered.
ReadCompleted(r) ==
    /\ sup[r] = "loop" /\ pipe[r] # << >> /\ Head(pipe[r]) = "completed"
    /\ pipe' = [pipe EXCEPT ![r] = Tail(@)]
    /\ active' = active \ {r} /\ Goto(r, "reap")
    /\ UNCHANGED <<kernel, worker, result, store, fin, serr, thread, poll, env>>

\* Mutant of ReadEof: only a kill ends the wait for a terminal event.
ReadEofOfKilled(r) ==
    /\ sup[r] = "loop" /\ pipe[r] = << >> /\ worker[r] = "killed"
    /\ active' = active \ {r} /\ Goto(r, "reapEof")
    /\ UNCHANGED <<kernel, child, store, fin, serr, thread, poll, env>>

\* End of file without a terminal event: the child crashed or was killed.
ReadEof(r) ==
    /\ sup[r] = "loop" /\ pipe[r] = << >> /\ worker[r] \in {"exited", "killed"}
    /\ active' = active \ {r} /\ Goto(r, "reapEof")
    /\ UNCHANGED <<kernel, child, store, fin, serr, thread, poll, env>>

\* The cancel flag is read in one statement and acted on in a later one.
ReadCancelFlag(r) ==
    /\ sup[r] \in {"reap", "reapEof"}
    /\ Goto(r, IF row[r].cancel THEN "reapCancel"
               ELSE IF sup[r] = "reap" THEN "okRead" ELSE "eofFail")
    /\ UNCHANGED <<kernel, child, store, active, fin, serr, thread, poll, env>>

\* complete_run(.., "cancelled"), then Err: the caller takes its error branch.
ReapCancelled(r) ==
    /\ sup[r] = "reapCancel"
    /\ SetRow(r, CompleteRun(row[r], "cancelled")) /\ Goto(r, "err")
    /\ UNCHANGED <<kernel, child, task, phase, active, fin, serr, thread, poll, env>>

FailAtEof(r) ==
    /\ sup[r] = "eofFail"
    /\ SetRow(r, FailRun(row[r], FALSE)) /\ Goto(r, "err")
    /\ UNCHANGED <<kernel, child, task, phase, active, fin, serr, thread, poll, env>>

\* Mutant of ReadFinalStatus: the last status event instead of the projected one.
ReadLastStatus(r) ==
    /\ sup[r] = "okRead"
    /\ fin' = [fin EXCEPT ![r] = KernelStatus(truth[r])] /\ Goto(r, "okPhase")
    /\ UNCHANGED <<kernel, child, store, active, serr, thread, poll, env>>

\* The Ok branch of start_stream.
ReadFinalStatus(r) ==
    /\ sup[r] = "okRead"
    /\ fin' = [fin EXCEPT ![r] = Shown(r)] /\ Goto(r, "okPhase")
    /\ UNCHANGED <<kernel, child, store, active, serr, thread, poll, env>>

FinishPhase(r) ==
    /\ sup[r] = "okPhase"
    /\ SetPhase(r, fin[r]) /\ Goto(r, "okRun")
    /\ UNCHANGED <<kernel, child, row, task, active, fin, serr, thread, poll, env>>

FinishRun(r) ==
    /\ sup[r] = "okRun"
    /\ SetRow(r, CompleteRun(row[r], fin[r])) /\ Goto(r, "okTask")
    /\ UNCHANGED <<kernel, child, task, phase, active, fin, serr, thread, poll, env>>

\* Mutant of FinishTask: an agent loop that returned waits for its user.
FinishTaskWaits(r) ==
    /\ sup[r] = "okTask"
    /\ UpsertTask(r, "waiting_user") /\ Goto(r, "done")
    /\ UNCHANGED <<kernel, child, row, phase, active, fin, serr, thread, poll, env>>

FinishTask(r) ==
    /\ sup[r] = "okTask"
    /\ UpsertTask(r, fin[r]) /\ Goto(r, "done")
    /\ UNCHANGED <<kernel, child, row, phase, active, fin, serr, thread, poll, env>>

\* The Err branch of start_stream: fail_run whatever the row says.
FailStream(r) ==
    /\ sup[r] = "err"
    /\ SetRow(r, FailRun(row[r], serr[r])) /\ Goto(r, "done")
    /\ UNCHANGED <<kernel, child, task, phase, active, fin, serr, thread, poll, env>>

\* An early return of run_worker_command: the child and its entry stay as they are.
RunCommandFails(r) ==
    /\ StoreFaults /\ sup[r] \in {"loop"} \cup BindPc \cup ReapPc
    /\ \E isLocked \in BOOLEAN : serr' = [serr EXCEPT ![r] = isLocked]
    /\ Goto(r, "err")
    /\ UNCHANGED <<kernel, child, store, active, fin, thread, poll, env>>

\* An early return of start_stream itself: the row keeps its last status.
StreamFails(r) ==
    /\ StoreFaults /\ sup[r] \in {"inserted", "spawn"} \cup TailPc
    /\ Goto(r, "done")
    /\ UNCHANGED <<kernel, child, store, active, fin, serr, thread, poll, env>>

\* The executable does not start, or the write of its command fails.
SpawnFails(r) ==
    /\ sup[r] = "spawn" /\ Goto(r, "err")
    /\ UNCHANGED <<kernel, child, store, active, fin, serr, thread, poll, env>>

Supervise(r) ==
    \/ InsertRun(r) \/ MarkRunning(r) \/ Spawn(r) \/ Register(r)
    \/ ReadStarted(r) \/ BindTask(r) \/ BindRun(r) \/ BindPhase(r)
    \/ ReadCompleted(r) \/ ReadEof(r) \/ ReadCancelFlag(r)
    \/ ReapCancelled(r) \/ FailAtEof(r)
    \/ ReadFinalStatus(r) \/ FinishPhase(r) \/ FinishRun(r) \/ FinishTask(r)
    \/ FailStream(r)

-----------------------------------------------------------------------------
(* The kernel worker.                                                        *)

\* Creates the job, puts it on the timeline and reports task.started.
WorkerStartJob(r) ==
    /\ worker[r] = "spawned"
    /\ Append1(r, "running")
    /\ timeline' = [timeline EXCEPT ![r] = "running"]
    /\ IF sup[r] \in {"register", "loop"}
       THEN /\ worker' = [worker EXCEPT ![r] = "agent"]
            /\ pipe' = [pipe EXCEPT ![r] = Append(@, "started")]
       ELSE \* nobody reads the pipe: on_started fails and the worker exits
            /\ worker' = [worker EXCEPT ![r] = "exited"] /\ pipe' = pipe
    /\ UNCHANGED <<tlBound, result, store, super, thread, poll, env>>

\* The agent loop ends: its status is recorded without looking at earlier ones.
WorkerOutcome(r) ==
    /\ worker[r] = "agent"
    /\ \E o \in Outcomes : /\ Append1(r, o)
                           /\ result' = [result EXCEPT ![r] = o]
    /\ worker' = [worker EXCEPT ![r] = "finishing"]
    /\ UNCHANGED <<timeline, tlBound, pipe, store, super, thread, poll, env>>

\* The raw result goes to the timeline, the job is bound, the result reported.
WorkerFinish(r) ==
    /\ worker[r] = "finishing"
    /\ timeline' = [timeline EXCEPT ![r] = result[r]]
    /\ tlBound' = [tlBound EXCEPT ![r] = TRUE]
    /\ pipe' = [pipe EXCEPT ![r] = Append(@, "completed")]
    /\ worker' = [worker EXCEPT ![r] = "exited"]
    /\ UNCHANGED <<truth, result, store, super, thread, poll, env>>

\* A crash, or an error returned before task.completed was written.
WorkerFails(r) ==
    /\ worker[r] \in Alive
    /\ worker' = [worker EXCEPT ![r] = "exited"]
    /\ UNCHANGED <<kernel, pipe, result, store, super, thread, poll, env>>

Work(r) == WorkerStartJob(r) \/ WorkerOutcome(r) \/ WorkerFinish(r)

-----------------------------------------------------------------------------
(* The other request threads. Every request works on one task; a request for *)
(* a task the product has no record of is refused (get_task fails).          *)

At(t, pc) == thread[t].pc = pc
Become(t, new) == thread' = [thread EXCEPT ![t] = new]
Step(t, pc) == Become(t, [thread[t] EXCEPT !.pc = pc])
StepWith(t, pc, s) == Become(t, [thread[t] EXCEPT !.pc = pc, !.st = s])
Finish(t) == Become(t, Idle)

Begin(t, r, op, pc, s) ==
    Become(t, [pc |-> pc, op |-> op, run |-> r, st |-> s, shown |-> "absent"])

StartGet(t, r) ==
    /\ At(t, "idle") /\ "get" \in Ops /\ task[r] # "absent"
    /\ Begin(t, r, "get", "load", "absent")
    /\ UNCHANGED <<kernel, child, store, super, poll, env>>

\* list reads the kernel's timeline; the record need not exist yet.
StartList(t, r) ==
    /\ At(t, "idle") /\ "list" \in Ops /\ timeline[r] # "absent"
    /\ Begin(t, r, "list", "listWrite", timeline[r])
    /\ UNCHANGED <<kernel, child, store, super, poll, env>>

StartClose(t, r) ==
    /\ At(t, "idle") /\ "close" \in Ops /\ task[r] # "absent"
    /\ requests < MaxRequests /\ requests' = requests + 1
    /\ Begin(t, r, "close", "load", "absent")
    /\ UNCHANGED <<kernel, child, store, super, poll, restarts, due>>

StartInput(t, r) ==
    /\ At(t, "idle") /\ "input" \in Ops /\ task[r] # "absent"
    /\ requests < MaxRequests /\ requests' = requests + 1
    /\ Begin(t, r, "input", "check", "absent")
    /\ UNCHANGED <<kernel, child, store, super, poll, restarts, due>>

\* The projection repair spawned when the services start.
StartRepair(t, r) ==
    /\ At(t, "idle") /\ r \in due /\ task[r] # "absent"
    /\ \A u \in Threads : thread[u].op # "startup"   \* one thread repairs all tasks
    /\ due' = due \ {r}
    /\ Begin(t, r, "startup", "load", "absent")
    /\ UNCHANGED <<kernel, child, store, super, poll, requests, restarts>>

\* list stores the timeline's status over the record as it found it.
ListWrite(t) == LET r == thread[t].run IN
    /\ At(t, "listWrite")
    /\ UpsertTask(r, thread[t].st) /\ Step(t, "load")
    /\ UNCHANGED <<kernel, child, row, phase, super, poll, env>>

AfterRecord(op) == IF op = "startup" THEN "phase" ELSE "repair"

\* hydrate_task: read the log; a record that agrees may be left alone (its
\* time stamp decides), any other is overwritten in a later step.
Load(t) == LET r == thread[t].run IN
    /\ At(t, "load")
    /\ \/ StepWith(t, "store", Shown(r))
       \/ /\ task[r] = Shown(r)
          /\ Become(t, [thread[t] EXCEPT !.pc = AfterRecord(thread[t].op),
                                         !.st = Shown(r), !.shown = Shown(r)])
    /\ UNCHANGED <<kernel, child, store, super, poll, env>>

Store(t) ==
    /\ At(t, "store")
    /\ UpsertTask(thread[t].run, thread[t].st)
    /\ Step(t, IF thread[t].op = "close" THEN "reread" ELSE AfterRecord(thread[t].op))
    /\ UNCHANGED <<kernel, child, row, phase, super, poll, env>>

\* upsert_task returns the record as it reads it back, perhaps another writer's.
Reread(t) == LET r == thread[t].run IN
    /\ At(t, "reread")
    /\ Become(t, [thread[t] EXCEPT !.pc = "repair", !.shown = task[r]])
    /\ UNCHANGED <<kernel, child, store, super, poll, env>>

\* The startup repair also mends failures blamed on a locked database.
RepairLockedRow(t) == LET r == thread[t].run IN
    /\ At(t, "locked")
    /\ SetRow(r, RepairLocked(row[r], thread[t].st)) /\ Step(t, "repair")
    /\ UNCHANGED <<kernel, child, task, phase, super, poll, env>>

RepairRow(t) == LET r == thread[t].run IN
    /\ At(t, "repair")
    /\ SetRow(r, IF thread[t].st \in Closed THEN RepairStale(row[r], thread[t].st)
                                            ELSE row[r])
    /\ IF thread[t].op = "close" THEN Step(t, "decide") ELSE Finish(t)
    /\ UNCHANGED <<kernel, child, task, phase, super, poll, env>>

\* Mutant of Decide: the run is cancelled before the kernel recorded it.
DecideMarksFirst(t) ==
    /\ At(t, "decide")
    /\ \/ /\ thread[t].shown \in Open
          /\ Become(t, [thread[t] EXCEPT !.pc = "mark", !.op = "cancel"])
       \/ /\ thread[t].shown \notin Open
          /\ StepWith(t, "phase", thread[t].shown)
    /\ UNCHANGED <<kernel, child, store, super, poll, env>>

\* force_close: a task that is not open only gets its phase message rewritten.
Decide(t) ==
    /\ At(t, "decide")
    /\ \/ /\ thread[t].shown \in Open
          /\ Become(t, [thread[t] EXCEPT !.pc = "cancel", !.op = "cancel"])
       \/ /\ thread[t].shown \notin Open
          /\ StepWith(t, "phase", thread[t].shown)
    /\ UNCHANGED <<kernel, child, store, super, poll, env>>

\* cancel_job: recorded without reading the log again.
CancelJob(t) ==
    /\ At(t, "cancel")
    /\ Append1(thread[t].run, "cancelled")
    /\ StepWith(t, "sync", "cancelled")
    /\ UNCHANGED <<timeline, tlBound, child, store, super, poll, env>>

\* sync_task_timeline_status is a no-op until the worker bound the job.
SyncTimeline(t) == LET r == thread[t].run
                       s == IF thread[t].op = "cancel" THEN "cancelled"
                                                       ELSE KernelStatus(truth[r]) IN
    /\ At(t, "sync")
    /\ timeline' = [timeline EXCEPT ![r] = IF tlBound[r] THEN s ELSE @]
    /\ Step(t, IF thread[t].op = "cancel" THEN "mark" ELSE "fin")
    /\ UNCHANGED <<truth, tlBound, child, store, super, poll, env>>

\* request_cancel_task_run: flag the rows of the task ...
MarkCancelled(t) == LET r == thread[t].run IN
    /\ At(t, "mark")
    /\ SetRow(r, RequestCancel(row[r])) /\ Step(t, "find")
    /\ UNCHANGED <<kernel, child, task, phase, super, poll, env>>

\* ... select them in a second statement, flagged or not ...
FindRun(t) == LET r == thread[t].run IN
    /\ At(t, "find")
    /\ Step(t, IF row[r].bound THEN "kill" ELSE "phase")
    /\ UNCHANGED <<kernel, child, store, super, poll, env>>

\* Mutant of KillWorker: only the entry is looked up, nothing is signalled.
KillNothing(t) ==
    /\ At(t, "kill")
    /\ Step(t, "phase")
    /\ UNCHANGED <<kernel, child, store, super, poll, env>>

\* ... and kill their workers.
KillWorker(t) == LET r == thread[t].run IN
    /\ At(t, "kill")
    /\ worker' = [worker EXCEPT ![r] = IF r \in active /\ @ \in Alive THEN "killed" ELSE @]
    /\ Step(t, "phase")
    /\ UNCHANGED <<kernel, pipe, result, store, super, poll, env>>

WritePhase(t) == LET op == thread[t].op IN
    /\ At(t, "phase")
    /\ SetPhase(thread[t].run, thread[t].st)
    /\ CASE op = "close"   -> Finish(t)
         [] op = "startup" -> Step(t, "locked")
         [] op = "input"   -> Step(t, "upsert")
         [] OTHER          -> Step(t, "load")
    /\ UNCHANGED <<kernel, child, row, task, super, poll, env>>

\* submit_user_input_with_max_turns: a completed or cancelled job is not resumed.
CheckResume(t) == LET r == thread[t].run IN
    /\ At(t, "check")
    /\ Step(t, IF KernelStatus(truth[r]) \in {"completed", "cancelled"}
               THEN "sync" ELSE "resume")
    /\ UNCHANGED <<kernel, child, store, super, poll, env>>

\* resume_job: the job runs again, in this process and without a run row.
Resume(t) ==
    /\ At(t, "resume")
    /\ Append1(thread[t].run, "running") /\ Step(t, "agent")
    /\ UNCHANGED <<timeline, tlBound, child, store, super, poll, env>>

InputOutcome(t) ==
    /\ At(t, "agent")
    /\ \E o \in Outcomes : Append1(thread[t].run, o)
    /\ Step(t, "sync")
    /\ UNCHANGED <<timeline, tlBound, child, store, super, poll, env>>

\* finish_task_action reads the log once and stores what it saw twice.
InputFinal(t) ==
    /\ At(t, "fin")
    /\ StepWith(t, "phase", Shown(thread[t].run))
    /\ UNCHANGED <<kernel, child, store, super, poll, env>>

InputUpsert(t) ==
    /\ At(t, "upsert")
    /\ UpsertTask(thread[t].run, thread[t].st) /\ Step(t, "load")
    /\ UNCHANGED <<kernel, child, row, phase, super, poll, env>>

\* Any statement of a handler may return an error to the client; the startup
\* repair gives up the tasks it has not visited.
ThreadFails(t) ==
    /\ StoreFaults /\ ~At(t, "idle")
    /\ Finish(t)
    /\ due' = IF thread[t].op = "startup" THEN {} ELSE due
    /\ UNCHANGED <<kernel, child, store, super, poll, requests, restarts>>

ThreadStep(t) ==
    \/ ListWrite(t) \/ Load(t) \/ Store(t) \/ Reread(t) \/ RepairLockedRow(t)
    \/ RepairRow(t) \/ Decide(t) \/ CancelJob(t) \/ SyncTimeline(t)
    \/ MarkCancelled(t) \/ FindRun(t) \/ KillWorker(t) \/ WritePhase(t) \/ CheckResume(t)
    \/ Resume(t) \/ InputOutcome(t) \/ InputFinal(t) \/ InputUpsert(t)

StartRequest(t, r) ==
    \/ StartGet(t, r) \/ StartList(t, r) \/ StartClose(t, r) \/ StartInput(t, r)

-----------------------------------------------------------------------------
(* GET /runs and the restart of the server.                                  *)

\* repair_container_stale_task_runs reads the log of every recorded task ...
PollRead(r) ==
    /\ poll[r] = "idle" /\ task[r] # "absent" /\ Shown(r) \in Closed
    /\ poll' = [poll EXCEPT ![r] = Shown(r)]
    /\ UNCHANGED <<kernel, child, store, super, thread, env>>

\* ... and repairs the row with the status it read.
PollRepair(r) ==
    /\ poll[r] # "idle"
    /\ SetRow(r, RepairStale(row[r], poll[r]))
    /\ poll' = [poll EXCEPT ![r] = "idle"]
    /\ UNCHANGED <<kernel, child, task, phase, super, thread, env>>

\* The server dies with its threads and pipes; the workers are not its threads.
Restart ==
    /\ restarts < MaxRestarts
    /\ restarts' = restarts + 1
    /\ sup' = [r \in Runs |-> IF sup[r] = "absent" THEN "absent" ELSE "dead"]
    /\ active' = {}
    /\ thread' = [t \in Threads |-> Idle]
    /\ poll' = [r \in Runs |-> "idle"]
    /\ due' = {r \in Runs : task[r] # "absent"}
    /\ UNCHANGED <<kernel, child, store, fin, serr, requests>>

-----------------------------------------------------------------------------
Next ==
    \/ \E r \in Runs : \/ Supervise(r) \/ Work(r) \/ PollRead(r) \/ PollRepair(r)
                       \/ RunCommandFails(r) \/ StreamFails(r) \/ SpawnFails(r)
                       \/ WorkerFails(r)
    \/ \E t \in Threads : \/ ThreadStep(t) \/ ThreadFails(t)
                          \/ \E r \in Runs : StartRequest(t, r) \/ StartRepair(t, r)
    \/ Restart

Spec == Init /\ [][Next]_vars

(***************************************************************************)
(* Threads of the server are scheduled by the operating system. The page of  *)
(* a container polls its runs every two seconds as long as one of them       *)
(* blocks it. Nothing is assumed of the worker: a model call may not return. *)
(***************************************************************************)
Blocks(r) == row[r].cancel \/ row[r].status \in ActiveRun

Fairness ==
    /\ \A r \in Runs : /\ WF_vars(Supervise(r) /\ sup[r] # "absent")
                       /\ WF_vars(Blocks(r) /\ PollRead(r))
                       /\ WF_vars(PollRepair(r))
    /\ \A t \in Threads : /\ WF_vars(ThreadStep(t))
                          /\ \A r \in Runs : WF_vars(StartRepair(t, r))

FairSpec == Spec /\ Fairness

-----------------------------------------------------------------------------
(* Properties.                                                               *)

\* The stores hold values of the columns they are declared with.
TypeOK ==
    /\ truth \in [Runs -> Seq(Status)]
    /\ timeline \in [Runs -> Seen]
    /\ tlBound \in [Runs -> BOOLEAN]
    /\ worker \in [Runs -> WorkerState]
    /\ pipe \in [Runs -> Seq({"started", "completed"})]
    /\ result \in [Runs -> Seen]
    /\ row \in [Runs -> Row]
    /\ task \in [Runs -> Seen]
    /\ phase \in [Runs -> PhaseValue]
    /\ active \subseteq Runs
    /\ sup \in [Runs -> SupPc]
    /\ fin \in [Runs -> Seen]
    /\ serr \in [Runs -> BOOLEAN]
    /\ thread \in [Threads -> Thread]
    /\ poll \in [Runs -> Closed \cup {"idle"}]
    /\ requests \in 0 .. MaxRequests
    /\ restarts \in 0 .. MaxRestarts
    /\ due \subseteq Runs

ResultIsTrue(r) ==
    row[r].status \in {"completed", "blocked", "interrupted"} => row[r].status = Shown(r)

\* A run is reported completed, blocked or interrupted only while that is the
\* status its job's log yields, although complete_run and the repairs write a
\* status read several steps earlier and other threads append in between.
RunResultIsTrue == \A r \in Runs : ResultIsTrue(r)

TreatedAsCancelled(r) ==
    \/ worker[r] = "killed"
    \/ row[r].cancel
    \/ row[r].status \in {"cancel_requested", "cancelled"}
    \/ phase[r] = "cancelled"

RecordedFirst(r) == TreatedAsCancelled(r) => Recorded(truth[r], "cancelled")

\* A worker is killed, a row flagged or reported cancelled, and the phase message
\* called cancelled, only after the job's own log says it was cancelled:
\* force_close records the cancellation in the kernel before it acts on it.
CancelIsRecordedFirst == \A r \in Runs : RecordedFirst(r)

Killable(r) == worker[r] \in Alive /\ row[r].bound /\ sup[r] # "dead" => r \in active

\* As long as this server supervises it, the live worker of a bound run is in
\* active_processes, so that kill_run_process finds it.
LiveWorkerIsKillable == \A r \in Runs : Killable(r)

\* When start_stream answers, and no store failed on the way, run_worker_command
\* has seen the child go and has removed its entry from active_processes.
AnsweredRunIsReaped ==
    \A r \in Runs : sup[r] = "done" => /\ worker[r] \notin Alive
                                       /\ r \notin active

StatusesRecorded(r) ==
    /\ task[r] # "absent" => Recorded(truth[r], task[r])
    /\ timeline[r] # "absent" => Recorded(truth[r], timeline[r])
    /\ phase[r] \notin {"absent", "streaming"} => Recorded(truth[r], phase[r])

\* Every status written for a task was at some time in the log of its job: no
\* store invents one, whichever thread wrote last and however stale its read.
StoredStatusWasRecorded == \A r \in Runs : StatusesRecorded(r)

\* What the product derives for a task implements the abstract specification.
StatusSpec == INSTANCE TaskStatus
                WITH Tasks <- Runs, shown <- [r \in Runs |-> Shown(r)]
TaskStatusImplemented == StatusSpec!Spec

\* A closed job's run does not stay in an active status: the poll of the page
\* repairs whatever the supervisor and late handlers wrote.
ClosedRunSettles ==
    \A r \in Runs : (Shown(r) \in Closed /\ row[r].bound)
                        ~> [](row[r].status \notin ActiveRun)

\* Flagging a run ends it, whatever its agent loop does: the kill closes the
\* pipe and the supervisor comes back.
CancelledRunReturns ==
    \A r \in Runs : row[r].cancel ~> sup[r] \in {"done", "dead"}

\* Turns are bounded and model calls time out: agent loops end. Then every
\* request that started a run gets its answer, although stores fail, workers
\* crash and others kill them.
EveryRunReturns ==
    (\A r \in Runs : WF_vars(Work(r))) =>
        \A r \in Runs : sup[r] = "inserted" ~> sup[r] \in {"done", "dead"}

-----------------------------------------------------------------------------
(* Statements of the repository's docs and tests that the code does not keep. *)

\* tests/process_kernel_worker.rs: a cancel ends the worker. A force close that
\* comes between upsert_task and bind_task_run finds no row and kills nothing.
ForceCloseEndsWorker ==
    \A t \in Threads : LET r == thread[t].run IN
        thread[t].op = "cancel" /\ thread[t].pc = "load" /\ sup[r] # "dead"
            => worker[r] \notin Alive
=============================================================================
