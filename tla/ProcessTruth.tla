---------------------------- MODULE ProcessTruth ----------------------------
(***************************************************************************)
(* The truth store of one job (process_kernel/src/lib.rs), shared by every   *)
(* kernel that works on the job: the worker process that created it and the  *)
(* kernels of the server that cancel it or hand it user input.  SQLite makes *)
(* single statements atomic and nothing more, so an operation of the store   *)
(* is a program of statements, and the programs of several kernels           *)
(* interleave.  A kernel may be killed between any two statements.           *)
(***************************************************************************)
EXTENDS Naturals, Sequences, FiniteSets

CONSTANTS Worker,     \* the kernel that creates the job and runs its loop
          Servers,    \* kernels inside the server
          Readers,    \* clients that follow the log with a cursor
          Endings,    \* how a loop may end: waiting_user or in DOMAIN EndEvent
          PageLimit,  \* limit of a page of events
          MaxOps,     \* bound: operations begun
          MaxClock,   \* bound: milliseconds that pass
          MaxAborts   \* bound: kernels killed, statements failed

ASSUME PageLimitAssumption == PageLimit \in Nat \ {0}

Kernels == {Worker} \cup Servers

VARIABLES events,  \* id -> event: the rows of the job in table events
          rows,    \* status columns of tables jobs, processes, task_agent_runtimes
          blobs,   \* name -> content of the files under blobs/<job>
          ckpts,   \* rows of table checkpoints
          todo,    \* todo[k]: statements k has still to execute
          held,    \* held[k]: the id k took from SELECT MAX(event_id) + 1
          looping, \* looping[k]: the loop of the task agent runs in k
          ops,     \* operations begun, which also names their contents
          aborts,  \* operations cut so far
          clock,   \* now_ms
          cursor,  \* cursor[r]: after_event_id of r's next request
          got,     \* got[r]: id -> event, the pages r was sent
          clean    \* history: no status update was cut or met another

store == <<events, rows, blobs, ckpts>>
clients == <<cursor, got>>
vars == <<events, rows, blobs, ckpts, todo, held, looping, ops, aborts, clock, cursor, got, clean>>

---------------------------------------------------------------------------
(* Statements.  An event is two of them: the id is read, then inserted.     *)

NoName == <<"none", 0>>
NoContent == [op |-> 0, at |-> 0, full |-> FALSE]

(* Mutant of CkptName: one file for the latest checkpoint.                  *)
LatestName == <<"checkpoints", 0>>

(* A checkpoint is named by the millisecond, user input always the same.    *)
CkptName == <<"checkpoints", clock>>

InputName == <<"user_input", 0>>
New == [op |-> ops + 1, at |-> clock, full |-> TRUE]

Event(t, s, n, c) ==
    << [do |-> "max"],
       [do |-> "insert", event |-> [type |-> t, status |-> s, ref |-> n, content |-> c]] >>
Log(t) == Event(t, "none", NoName, NoContent)
Write(n, c) == << [do |-> "truncate", name |-> n, content |-> [c EXCEPT !.full = FALSE]],
                  [do |-> "fill", name |-> n, content |-> c] >>
Set(t, s) == << [do |-> "set", table |-> t, status |-> s] >>
Register(t, s) == << [do |-> "register", table |-> t, status |-> s] >>
SaveRow(n) == << [do |-> "row", name |-> n] >>
Refuse == << [do |-> "refuse"] >>
Enter == << [do |-> "enter"] >>

(* Mutant of UpdateStatus: a table added later is forgotten.                *)
UpdateTwoTables(s) ==
    Set("jobs", s) \o Set("processes", s)
      \o Event("job_status_changed", s, NoName, NoContent)

(* The operations of the store and of its callers.                          *)
UpdateStatus(s) ==
    Set("jobs", s) \o Set("processes", s) \o Set("runtimes", s)
      \o Event("job_status_changed", s, NoName, NoContent)

Create ==
    Register("jobs", "created") \o Log("job_created") \o UpdateStatus("running")
      \o Register("processes", "running") \o Register("runtimes", "running")
      \o Log("process_started") \o Log("task_agent_runtime_started") \o Enter

Cancel == Log("user_cancel_requested") \o UpdateStatus("cancelled") \o Log("job_cancelled")

SaveCheckpoint ==
    Write(CkptName, New) \o Event("checkpoint_saved", "none", CkptName, New)
      \o SaveRow(CkptName)

SubmitInput ==
    Refuse \o Write(InputName, New) \o Event("user_input_received", "none", InputName, New)
      \o Refuse \o Log("job_resumed") \o UpdateStatus("running") \o Enter

EndEvent == [completed |-> "job_completed", failed |-> "job_failed",
             blocked |-> "job_blocked",
             interrupted |-> "job_interrupted_by_model_protocol_error"]
Finish(s) == UpdateStatus(s) \o
    IF s = "waiting_user" THEN Log("job_waiting_user")
    ELSE Event(EndEvent[s], s, NoName, NoContent)

ASSUME EndingsAssumption == Endings \subseteq {"waiting_user"} \cup DOMAIN EndEvent

---------------------------------------------------------------------------
(* What a reader of the log makes of it.                                    *)

(* Mutant of NextId: ids handed out by a counter of the kernels.             *)
NextOp == ops + 1

(* SELECT COALESCE(MAX(event_id), 0) + 1.                                   *)
NextId == CHOOSE n \in {i + 1 : i \in DOMAIN events \cup {0}} :
            \A i \in DOMAIN events : i < n

(* The status replay derives: the last event that carries one.              *)
Telling == {i \in DOMAIN events : events[i].status # "none"}
Replayed == IF Telling = {} THEN "created"
            ELSE events[CHOOSE i \in Telling : \A j \in Telling : j <= i].status

Terminal == {"completed", "cancelled"}

Created == \E i \in DOMAIN events : events[i].type = "task_agent_runtime_started"

(* WHERE event_id > after ORDER BY event_id LIMIT limit.                    *)
Page(r) == {i \in DOMAIN events :
              /\ i > cursor[r]
              /\ Cardinality({j \in DOMAIN events : cursor[r] < j /\ j < i}) < PageLimit}

---------------------------------------------------------------------------
Init ==
    /\ events = <<>>
    /\ rows = [t \in {"jobs", "processes", "runtimes"} |-> "none"]
    /\ blobs = <<>>
    /\ ckpts = {}
    /\ todo = [k \in Kernels |-> <<>>]
    /\ held = [k \in Kernels |-> 1]
    /\ looping = [k \in Kernels |-> FALSE]
    /\ ops = 0
    /\ aborts = 0
    /\ clock = 1
    /\ cursor = [r \in Readers |-> 0]
    /\ got = [r \in Readers |-> <<>>]
    /\ clean = TRUE

(* Operations begin: their statements follow one by one.                    *)
Begin(k, program) ==
    /\ todo[k] = <<>> /\ ops < MaxOps
    /\ ops' = ops + 1
    /\ todo' = [todo EXCEPT ![k] = program]
    /\ UNCHANGED <<store, held, aborts, clock, clients>>

CreateJob == /\ ops = 0
             /\ Begin(Worker, Create)
             /\ UNCHANGED looping

Turn(k) == /\ looping[k]
           /\ Begin(k, SaveCheckpoint)
           /\ UNCHANGED looping

EndLoop(k) == /\ looping[k]
              /\ \E s \in Endings : Begin(k, Finish(s))
              /\ looping' = [looping EXCEPT ![k] = FALSE]

CancelJob(k) == /\ Created /\ ~looping[k]
                /\ Begin(k, Cancel)
                /\ UNCHANGED looping

UserInput(k) == /\ Created /\ ~looping[k]
                /\ Begin(k, SubmitInput)
                /\ UNCHANGED looping

---------------------------------------------------------------------------
Doing(k, what) == todo[k] # <<>> /\ Head(todo[k]).do = what
Done(k) == todo' = [todo EXCEPT ![k] = Tail(@)]

SelectMax(k) == /\ Doing(k, "max") /\ Done(k)
                /\ held' = [held EXCEPT ![k] = NextId]
                /\ UNCHANGED <<store, looping, ops, aborts, clock, clients>>

(* Mutant of Conflict: INSERT OR REPLACE, the later event takes the id.     *)
ConflictReplaces(k) ==
    /\ Doing(k, "insert") /\ held[k] \in DOMAIN events /\ Done(k)
    /\ events' = [events EXCEPT ![held[k]] = Head(todo[k]).event]
    /\ UNCHANGED <<rows, blobs, ckpts, held, looping, ops, aborts, clock, clients>>

(* PRIMARY KEY (job_id, event_id): a taken id is an error, never a second   *)
(* row, and the error ends the operation.                                   *)
Insert(k) ==
    /\ Doing(k, "insert") /\ held[k] \notin DOMAIN events /\ Done(k)
    /\ events' = [i \in DOMAIN events \cup {held[k]} |->
                    IF i = held[k] THEN Head(todo[k]).event ELSE events[i]]
    /\ UNCHANGED <<rows, blobs, ckpts, held, looping, ops, aborts, clock, clients>>

Conflict(k) ==
    /\ Doing(k, "insert") /\ held[k] \in DOMAIN events
    /\ todo' = [todo EXCEPT ![k] = <<>>]
    /\ looping' = [looping EXCEPT ![k] = FALSE]
    /\ UNCHANGED <<store, held, ops, aborts, clock, clients>>

(* UPDATE of a row that is not there yet changes nothing.                   *)
SetStatus(k) ==
    /\ Doing(k, "set") /\ Done(k)
    /\ LET s == Head(todo[k])
       IN rows' = IF rows[s.table] = "none" THEN rows
                  ELSE [rows EXCEPT ![s.table] = s.status]
    /\ UNCHANGED <<events, blobs, ckpts, held, looping, ops, aborts, clock, clients>>

RegisterRow(k) ==
    /\ Doing(k, "register") /\ Done(k)
    /\ rows' = [rows EXCEPT ![Head(todo[k]).table] = Head(todo[k]).status]
    /\ UNCHANGED <<events, blobs, ckpts, held, looping, ops, aborts, clock, clients>>

(* fs::write truncates the file and then writes it.                         *)
WriteBlob(k) ==
    /\ Doing(k, "truncate") \/ Doing(k, "fill")
    /\ Done(k)
    /\ LET s == Head(todo[k])
       IN blobs' = [n \in DOMAIN blobs \cup {s.name} |->
                      IF n = s.name THEN s.content ELSE blobs[n]]
    /\ UNCHANGED <<events, rows, ckpts, held, looping, ops, aborts, clock, clients>>

(* checkpoint_id is the primary key; a second one of the millisecond fails. *)
InsertCheckpoint(k) ==
    /\ Doing(k, "row")
    /\ LET n == Head(todo[k]).name
       IN IF \E c \in ckpts : c.name = n
          THEN /\ looping' = [looping EXCEPT ![k] = FALSE]
               /\ UNCHANGED ckpts
          ELSE /\ ckpts' = ckpts \cup {[name |-> n, event |-> held[k]]}
               /\ UNCHANGED looping
    /\ Done(k)
    /\ UNCHANGED <<events, rows, blobs, held, ops, aborts, clock, clients>>

(* submit_user_input and resume_job return early when the job is over.      *)
RefuseTerminal(k) ==
    /\ Doing(k, "refuse")
    /\ IF Replayed \in Terminal THEN todo' = [todo EXCEPT ![k] = <<>>] ELSE Done(k)
    /\ UNCHANGED <<store, held, looping, ops, aborts, clock, clients>>

EnterLoop(k) ==
    /\ Doing(k, "enter") /\ Done(k)
    /\ looping' = [looping EXCEPT ![k] = TRUE]
    /\ UNCHANGED <<store, held, ops, aborts, clock, clients>>

(* A statement fails, or the kernel's process is killed.                    *)
Abort(k) ==
    /\ todo[k] # <<>> \/ looping[k]
    /\ aborts < MaxAborts /\ aborts' = aborts + 1
    /\ todo' = [todo EXCEPT ![k] = <<>>]
    /\ looping' = [looping EXCEPT ![k] = FALSE]
    /\ UNCHANGED <<store, held, ops, clock, clients>>

Tick == /\ clock < MaxClock /\ clock' = clock + 1
        /\ UNCHANGED <<store, todo, held, looping, ops, aborts, clients>>

(* A client asks for the events after its cursor.                           *)
StreamEvents(r) ==
    /\ Page(r) # {}
    /\ got' = [got EXCEPT ![r] =
                 [i \in DOMAIN got[r] \cup Page(r) |->
                    IF i \in DOMAIN got[r] THEN got[r][i] ELSE events[i]]]
    /\ cursor' = [cursor EXCEPT ![r] = CHOOSE i \in Page(r) : \A j \in Page(r) : j <= i]
    /\ UNCHANGED <<store, todo, held, looping, ops, aborts, clock>>

Statement(k) ==
    \/ SelectMax(k) \/ Insert(k) \/ Conflict(k) \/ SetStatus(k) \/ RegisterRow(k)
    \/ WriteBlob(k) \/ InsertCheckpoint(k) \/ RefuseTerminal(k) \/ EnterLoop(k)

Step == \/ CreateJob
        \/ \E k \in Kernels : Turn(k) \/ EndLoop(k) \/ Statement(k) \/ Abort(k)
        \/ \E k \in Servers : CancelJob(k) \/ UserInput(k)
        \/ Tick
        \/ \E r \in Readers : StreamEvents(r)

(* k is between the first UPDATE of a status and the last event telling it. *)
Updating(k) ==
    /\ \E i \in DOMAIN todo[k] : /\ todo[k][i].do = "insert"
                                /\ todo[k][i].event.status # "none"
    /\ ~ \E i \in DOMAIN todo[k] : todo[k][i].do = "set" /\ todo[k][i].table = "jobs"

Watch == clean' = ( /\ clean
                    /\ \A k \in Kernels : Updating(k) /\ ~Updating(k)' => Done(k)
                    /\ \A j, k \in Kernels : j # k => ~(Updating(j)' /\ Updating(k)') )

Next == Step /\ Watch

Spec == Init /\ [][Next]_vars

---------------------------------------------------------------------------
(* append_event without a transaction still keeps one log: ids have no gap  *)
(* and no event is overwritten, and a client that follows its cursor misses *)
(* nothing, because a later event can never get an id below one it has seen.*)
LogSpec == INSTANCE EventLog WITH log <- events, got <- got
LogImplemented == LogSpec!Spec

Count == Cardinality(DOMAIN events)

TypeOK == /\ Count \in Nat
          /\ held \in [Kernels -> Nat]
          /\ cursor \in [Readers -> Nat]
          /\ DOMAIN got = Readers
          /\ ops \in Nat /\ aborts \in Nat /\ clock \in Nat

(* An id a kernel holds is at most one beyond the log.                      *)
HeldIsNext == /\ DOMAIN events = 1 .. Count
              /\ \A k \in Kernels : held[k] \in 1 .. Count + 1
ReadersHavePrefix ==
    \A r \in Readers : /\ cursor[r] \in 0 .. Count
                       /\ DOMAIN got[r] = 1 .. cursor[r]
                       /\ \A i \in 1 .. cursor[r] : got[r][i] = events[i]
IInv == TypeOK /\ HeldIsNext /\ ReadersHavePrefix

(* save_checkpoint and submit_user_input name their file in the log only    *)
(* after it is complete: the file behind a reference is the one recorded,    *)
(* or a later write to the same name: any later input, or another loop's     *)
(* checkpoint of the same millisecond.  A checkpoint row has its event.      *)
RefsAreBacked ==
    /\ \A i \in DOMAIN events : LET e == events[i] IN
         e.ref # NoName =>
           /\ e.ref \in DOMAIN blobs
           /\ \/ blobs[e.ref] = e.content
              \/ /\ blobs[e.ref].op # e.content.op
                 /\ e.ref = InputName \/ blobs[e.ref].at = e.content.at
    /\ \A c \in ckpts : c.event \in DOMAIN events /\ events[c.event].ref = c.name

(* The update of a status is three UPDATEs and an event.  Where no kernel is *)
(* between the first of them and its last event that tells a status, the     *)
(* tables agree with the log, unless two updates overlapped or one was cut.  *)
RowsAgreeWithLog ==
    Created /\ clean /\ (\A k \in Kernels : ~Updating(k))
      => \A t \in DOMAIN rows : rows[t] = Replayed
===========================================================================
