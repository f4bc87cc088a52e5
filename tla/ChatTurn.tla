------------------------------ MODULE ChatTurn ------------------------------
(***************************************************************************)
(* The turns of one chat thread in the Product Runtime (chat_service.rs):    *)
(* the request thread of each turn, its worker process, a client that closes *)
(* the turn by force, the repair after a restart of the server, and the live *)
(* stream of each turn, which polls the message feed.  They share the chat   *)
(* log of the kernel, the product database, the projection shard of the      *)
(* thread and the run registry; the statements of each follow one another,   *)
(* those of several interleave.                                              *)
(***************************************************************************)
EXTENDS MessageFeed, RunRegistry

CONSTANTS Turns,       \* numbers of the turns, begun in this order
          Answers,     \* what the model may answer
          StreamKinds, \* what is streamed: answer, reasoning
          Watched,     \* turns whose client stays with the live stream
          PageLimit,   \* limit of a page of the live stream
          MaxCloses,   \* bound: closes by force
          MaxRestarts, \* bound: restarts of the server
          OneDelta,    \* bound: a streamed text comes in one delta
          Orphans      \* whether workers outlive the server

ASSUME TurnsAssumption == Turns \subseteq Nat /\ PageLimit \in Nat \ {0}
ASSUME StreamKindsAssumption == StreamKinds \subseteq {"answer", "reasoning"}

T(t) == <<"turn", t>>
W(t) == <<"worker", t>>
Closer == <<"close", 0>>
Repairer == <<"repair", 0>>
Requests == {T(t) : t \in Turns} \cup {Closer, Repairer}
Actors == Requests \cup {W(t) : t \in Turns}

VARIABLES truth,    \* the chat log: events in the order of their insertion
          product,  \* id -> message, in the product database
          shard,    \* id -> message, in the projection shard of the thread
          run,      \* run[t]: the row of the turn in run_registry
          todo,     \* todo[a]: statements a has still to execute
          held,     \* held[a]: the number a took from SELECT MAX(event_seq) + 1
          worker,   \* worker[t]: off, running, reported or dead
          result,   \* result[t]: the outcome the worker has settled on
          answer,   \* answer[t]: the text the model gives in turn t
          snap,     \* snap[t]: events of the log that the worker's result holds
          hide,     \* hide[t]: suppress_final_answer
          stream,   \* stream[t]: the live stream of turn t
          clock,    \* now, one tick for each message and event
          closes, restarts,
          warned,   \* history: the log held a close when the result of t was taken
          calm      \* history: nothing but the turn wrote while its stream was open

log == <<truth, held>>
feed == <<product, shard>>
work == <<worker, result, answer, snap>>
bounds == <<closes, restarts>>
history == <<warned, calm>>
vars == <<log, feed, run, todo, work, hide, stream, clock, bounds, history>>

---------------------------------------------------------------------------
(* Statements.                                                              *)

NoText == "none"
Part == "part"

Log(type) == << [do |-> "max"], [do |-> "insert", type |-> type] >>
SetRun(s) == << [do |-> "run", status |-> s] >>
Say(id, kind, s) == << [do |-> "say", id |-> id, kind |-> kind, status |-> s] >>

(* complete_chat_runtime_phase, complete_streamed_assistant_answer and      *)
(* complete_streamed_chat_reasoning: list, then rewrite one by one.         *)
Complete(kind, s) == << [do |-> "list", kind |-> kind, status |-> s] >>
Step(what) == << [do |-> what] >>

RecordTurn(t) ==
    Say(<<"user", t>>, "user", "completed") \o Say(<<"phase", t>>, "phase", "streaming")
      \o Step("queue") \o SetRun("running") \o Step("spawn") \o Step("reap")

(* Mutant of Failed: the phase is left to somebody else.                     *)
FailedRun(t) == SetRun("failed") \o Say(<<"error", t>>, "error", "completed")

Cancelled == Complete("phase", "cancelled") \o SetRun("cancelled")

Answered(s) ==
    Complete("answer", "completed") \o Complete("reasoning", "completed")
      \o Complete("phase", s) \o SetRun(s) \o Step("snapshot")

Failed(t) ==
    Complete("phase", "failed") \o SetRun("failed")
      \o Say(<<"error", t>>, "error", "completed")

ForceClose ==
    Log("closed") \o Step("own") \o Step("flag") \o Step("kill")
      \o Complete("phase", "cancelled")

---------------------------------------------------------------------------
Store == Merged(product, shard)
InShard == {"recorded", "answered", "failed", "closed", "answer", "reasoning", "error"}

(* append_chat_projection_message routes a message by its source.           *)
AppendTo(id, m) ==
    IF m.kind \in InShard
    THEN shard' = AppendMessage(shard, id, m) /\ UNCHANGED product
    ELSE product' = AppendMessage(product, id, m) /\ UNCHANGED shard

Message(kind, s, text, at) ==
    [kind |-> kind, status |-> s, text |-> text, sort |-> at, upd |-> at]

Text(t, kind) == CASE kind = "user" -> "ask"
                   [] kind = "answered" -> answer[t]
                   [] kind = "recorded" -> "ask"
                   [] OTHER -> NoText

NextSeq == IF truth = <<>> THEN 1
           ELSE 1 + (CHOOSE n \in {truth[i].seq : i \in DOMAIN truth} :
                       \A i \in DOMAIN truth : truth[i].seq <= n)

LogHoldsClose == \E i \in DOMAIN truth : truth[i].type = "closed"

(* Mutant of WasForceClosed: the events of the result are not asked again.  *)
ResultForceClosed(t) == \E i \in 1 .. snap[t] : truth[i].type = "closed"

(* chat_thread_was_force_closed: any close of the thread, whatever the turn. *)
WasForceClosed(t) == LogHoldsClose

(* message_text_matches; a failed turn has no text.                         *)
StreamHolds(text) ==
    \E i \in DOMAIN Store : Store[i].kind = "answer" /\ Store[i].text = text

(* Mutant of StreamAnswers: any streamed answer stands for the final one.   *)
StreamsAny(t) == result[t] = "answered" /\ \E i \in DOMAIN Store : Store[i].kind = "answer"

StreamAnswers(t) == result[t] = "answered" /\ StreamHolds(answer[t])

(* Mutant of Advanced: the message keeps its cursor.                        *)
NotAdvanced(m) == m

Advanced(m) == [m EXCEPT !.upd = clock + 1]

(* The messages a rewrite starts from, in the order of the page.            *)
Listed(kind) ==
    LET from == IF kind = "phase" THEN product ELSE Store
        ids == {i \in DOMAIN from : /\ from[i].kind = kind
                                    /\ kind # "phase" => from[i].status # "completed"}
    IN [n \in 1 .. Cardinality(ids) |->
          CHOOSE i \in ids : Cardinality({j \in ids : from[j].sort < from[i].sort}) = n - 1]

(* project_chat_event: what the request already shows is not shown again.   *)
Projected(e, suppress) ==
    ~ \/ e.type = "recorded" /\ \E i \in DOMAIN Store : Store[i].kind = "user"
      \/ e.type = "answered" /\ (suppress \/ StreamHolds(e.text))

Project(events, suppress) ==
    [i \in DOMAIN events |-> [do |-> "project", event |-> events[i], suppress |-> suppress]]

(* Mutant of Verdict: the event type is taken for the status.               *)
VerdictType == [answered |-> "answered", closed |-> "closed", failed |-> "failed"]

(* chat_terminal_status_from_events: the last event that tells one.         *)
Verdict == [answered |-> "completed", closed |-> "cancelled", failed |-> "failed"]
Outcomes == {i \in DOMAIN truth : truth[i].type \in DOMAIN Verdict}

CloseEvents == {i \in DOMAIN truth : truth[i].type = "closed"}
Latest(places) == truth[CHOOSE i \in places : \A j \in places : j <= i]

OpenTurns == {t \in Turns : todo[T(t)] # <<>>}
Quiet == \A a \in Requests : todo[a] = <<>>
Over(t) == stream[t].pc # "off" /\ t \notin OpenTurns

---------------------------------------------------------------------------
NoStream == [pc |-> "off", after |-> 0, page |-> <<>>, last |-> FALSE, sent |-> <<>>]

Init ==
    /\ truth = <<>> /\ product = <<>> /\ shard = <<>>
    /\ run = [t \in Turns |-> NoRow]
    /\ todo = [a \in Actors |-> <<>>]
    /\ held = [a \in Actors |-> 1]
    /\ worker = [t \in Turns |-> "off"]
    /\ result = [t \in Turns |-> "none"]
    /\ answer = [t \in Turns |-> NoText]
    /\ snap = [t \in Turns |-> 0]
    /\ hide = [t \in Turns |-> FALSE]
    /\ stream = [t \in Turns |-> NoStream]
    /\ clock = 0 /\ closes = 0 /\ restarts = 0
    /\ warned = [t \in Turns |-> FALSE]
    /\ calm = [t \in Turns |-> FALSE]

(* turn_stream: the cursor of the newest message, then the request's thread. *)
(* The workbench sends no message while a turn of the thread is open.       *)
BeginTurn(t) ==
    /\ stream[t].pc = "off" /\ \A u \in Turns : u < t => stream[u].pc # "off"
    /\ OpenTurns = {}
    /\ LET before == Page(Merged(Page(product, 0, 1), Page(shard, 0, 1)), 0, 1)
       IN stream' = [stream EXCEPT ![t] = [NoStream EXCEPT !.pc = "idle",
                                             !.after = LastCursor(before, 0)]]
    /\ todo' = [todo EXCEPT ![T(t)] = RecordTurn(t)]
    /\ calm' = [u \in Turns |-> u = t /\ t \in Watched /\ Quiet]
    /\ UNCHANGED <<log, feed, run, work, hide, clock, bounds, warned>>

BeginClose ==
    /\ todo[Closer] = <<>> /\ closes < MaxCloses
    /\ closes' = closes + 1
    /\ todo' = [todo EXCEPT ![Closer] = ForceClose]
    /\ calm' = [t \in Turns |-> FALSE]
    /\ UNCHANGED <<log, feed, run, work, hide, stream, clock, restarts, warned>>

(* The server dies; the next one repairs in a thread of its own.  A worker   *)
(* that says no more through its pipe goes on to the end of its turn.        *)
Restart ==
    /\ restarts < MaxRestarts
    /\ restarts' = restarts + 1
    /\ LET over == {t \in Turns : worker[t] = "running" /\ ~Orphans}
       IN /\ worker' = [t \in Turns |-> IF t \in over THEN "dead" ELSE worker[t]]
          /\ todo' = [a \in Actors |-> CASE a = Repairer -> Step("read")
                        [] a \in {W(t) : t \in Turns \ over} -> todo[a]
                        [] OTHER -> <<>>]
    /\ stream' = [t \in Turns |-> IF stream[t].pc = "off" THEN NoStream
                                  ELSE [NoStream EXCEPT !.pc = "lost"]]
    /\ calm' = [t \in Turns |-> FALSE]
    /\ UNCHANGED <<log, feed, run, result, answer, snap, hide, clock, closes, warned>>

---------------------------------------------------------------------------
Doing(a, what) == todo[a] # <<>> /\ Head(todo[a]).do = what
Done(a) == todo' = [todo EXCEPT ![a] = Tail(@)]
Expand(a, statements) == todo' = [todo EXCEPT ![a] = statements \o Tail(@)]
Turn(a, statements) == todo' = [todo EXCEPT ![a] = statements]
Tick == clock' = clock + 1

SelectMax(a) == /\ Doing(a, "max") /\ Done(a)
                /\ held' = [held EXCEPT ![a] = NextSeq]
                /\ UNCHANGED <<truth, feed, run, work, hide, stream, clock, bounds, history>>

(* Nothing keeps two events from the same event_seq.                        *)
Insert(a) ==
    /\ Doing(a, "insert") /\ Done(a) /\ Tick
    /\ LET type == Head(todo[a]).type
       IN truth' = Append(truth, [seq |-> held[a], type |-> type, turn |-> a[2],
                                  text |-> Text(a[2], type), at |-> clock + 1])
    /\ held' = [held EXCEPT ![a] = 1]
    /\ UNCHANGED <<feed, run, work, hide, stream, bounds, history>>

(* new_message and append_message.                                          *)
SayMessage(a) ==
    /\ Doing(a, "say") /\ Done(a) /\ Tick
    /\ LET s == Head(todo[a])
       IN AppendTo(s.id, Message(s.kind, s.status, Text(a[2], s.kind), clock + 1))
    /\ UNCHANGED <<log, run, work, hide, stream, bounds, history>>

ListMessages(a) ==
    /\ Doing(a, "list")
    /\ LET s == Head(todo[a])
           ids == Listed(s.kind)
       IN /\ Expand(a, [n \in DOMAIN ids |-> [do |-> "rewrite", id |-> ids[n],
                                             m |-> [Store[ids[n]] EXCEPT !.status = s.status]]])
          /\ hide' = IF s.kind = "answer"
                     THEN [hide EXCEPT ![a[2]] = StreamAnswers(a[2])] ELSE hide
    /\ UNCHANGED <<log, feed, run, work, stream, clock, bounds, history>>

(* advance_message_cursor and append_message.                               *)
RewriteMessage(a) ==
    /\ Doing(a, "rewrite") /\ Done(a) /\ Tick
    /\ LET s == Head(todo[a]) IN AppendTo(s.id, Advanced(s.m))
    /\ UNCHANGED <<log, run, work, hide, stream, bounds, history>>

ProjectEvent(a) ==
    /\ Doing(a, "project") /\ Done(a)
    /\ LET s == Head(todo[a])
       IN IF Projected(s.event, s.suppress)
          THEN AppendTo(<<"evt", s.event.seq>>,
                        Message(s.event.type, "completed", s.event.text, s.event.at))
          ELSE UNCHANGED feed
    /\ UNCHANGED <<log, run, work, hide, stream, clock, bounds, history>>

QueueRun(t) ==
    /\ Doing(T(t), "queue") /\ Done(T(t))
    /\ run' = [run EXCEPT ![t] = BindRow(NewRow)]
    /\ UNCHANGED <<log, feed, work, hide, stream, clock, bounds, history>>

SetRunStatus(t) ==
    /\ Doing(T(t), "run") /\ Done(T(t))
    /\ run' = [run EXCEPT ![t] = CompleteRun(@, Head(todo[T(t)]).status)]
    /\ UNCHANGED <<log, feed, work, hide, stream, clock, bounds, history>>

SpawnWorker(t) ==
    /\ Doing(T(t), "spawn")
    /\ worker' = [worker EXCEPT ![t] = "running"]
    /\ \E text \in Answers : answer' = [answer EXCEPT ![t] = text]
    /\ todo' = [todo EXCEPT ![T(t)] = Tail(@), ![W(t)] = Log("recorded")]
    /\ UNCHANGED <<log, feed, run, result, snap, hide, stream, clock, bounds, history>>

SpawnFails(t) ==
    /\ Doing(T(t), "spawn") /\ Turn(T(t), Failed(t))
    /\ UNCHANGED <<log, feed, run, work, hide, stream, clock, bounds, history>>

---------------------------------------------------------------------------
(* The worker process; the chat loop is one choice of an outcome here.      *)

Busy(t) == worker[t] = "running" /\ todo[W(t)] = <<>>

Conclude(t) ==
    /\ Busy(t) /\ result[t] = "none"
    /\ \E r \in {"answered", "failed"} :
         /\ result' = [result EXCEPT ![t] = r]
         /\ todo' = [todo EXCEPT ![W(t)] = Log(r)]
    /\ UNCHANGED <<log, feed, run, worker, answer, snap, hide, stream, clock, bounds, history>>

Report(t) ==
    /\ Busy(t) /\ result[t] # "none"
    /\ worker' = [worker EXCEPT ![t] = "reported"]
    /\ snap' = [snap EXCEPT ![t] = Len(truth)]
    /\ UNCHANGED <<log, feed, run, todo, result, answer, hide, stream, clock, bounds, history>>

WorkerDies(t) ==
    /\ worker[t] = "running"
    /\ worker' = [worker EXCEPT ![t] = "dead"]
    /\ todo' = [todo EXCEPT ![W(t)] = <<>>]
    /\ UNCHANGED <<log, feed, run, result, answer, snap, hide, stream, clock, bounds, history>>

(* on_model_stream_delta, in the request's thread: deltas wait in the pipe, *)
(* behind what the worker has done since.  A message holds the text so far. *)
Delta(t) ==
    /\ Doing(T(t), "reap")
    /\ \E k \in StreamKinds, text \in {Part, answer[t]} :
         LET id == <<k, t>>
             old == IF id \in DOMAIN shard THEN shard[id].text ELSE NoText
         IN /\ old \notin {text, answer[t]} /\ (OneDelta => old = NoText)
            /\ k = "reasoning" => text = Part
            /\ AppendTo(id, Message(k, "streaming", text, clock + 1))
    /\ Tick
    /\ UNCHANGED <<log, run, todo, work, hide, stream, bounds, history>>

(* run_worker_command, once the worker has reported or exited.              *)
Reap(t) ==
    /\ Doing(T(t), "reap") /\ worker[t] \in {"reported", "dead"}
    /\ warned' = [warned EXCEPT ![t] = LogHoldsClose]
    /\ CASE run[t].cancel ->
              /\ run' = [run EXCEPT ![t] = CompleteRun(@, "cancelled")]
              /\ Turn(T(t), Failed(t))
         [] ~run[t].cancel /\ worker[t] = "dead" ->
              /\ run' = [run EXCEPT ![t] = FailRun(@, FALSE)]
              /\ Turn(T(t), Failed(t))
         [] OTHER -> Turn(T(t), Step("check")) /\ UNCHANGED run
    /\ UNCHANGED <<log, feed, work, hide, stream, clock, bounds, calm>>

CheckClosed(t) ==
    /\ Doing(T(t), "check")
    /\ Turn(T(t), IF WasForceClosed(t) THEN Cancelled
                  ELSE Answered(IF result[t] = "answered" THEN "completed" ELSE "failed"))
    /\ UNCHANGED <<log, feed, run, work, hide, stream, clock, bounds, history>>

Snapshot(t) ==
    /\ Doing(T(t), "snapshot") /\ Expand(T(t), Project(SubSeq(truth, 1, snap[t]), hide[t]))
    /\ snap' = [snap EXCEPT ![t] = 0]
    /\ hide' = [hide EXCEPT ![t] = FALSE]
    /\ UNCHANGED <<log, feed, run, worker, result, answer, stream, clock, bounds, history>>

---------------------------------------------------------------------------
(* A client closes the turn.                                                *)

ProjectOwn ==
    /\ Doing(Closer, "own")
    /\ Expand(Closer, Project(<< Latest(CloseEvents) >>, FALSE))
    /\ UNCHANGED <<log, feed, run, work, hide, stream, clock, bounds, history>>

FlagRuns ==
    /\ Doing(Closer, "flag") /\ Done(Closer)
    /\ run' = [t \in Turns |-> RequestCancel(run[t])]
    /\ UNCHANGED <<log, feed, work, hide, stream, clock, bounds, history>>

(* active_processes holds the workers this server waits for.                *)
KillWorkers ==
    /\ Doing(Closer, "kill")
    /\ LET hit == {t \in Turns : worker[t] = "running" /\ Doing(T(t), "reap")}
       IN /\ worker' = [t \in Turns |-> IF t \in hit THEN "dead" ELSE worker[t]]
          /\ todo' = [a \in Actors |-> IF a = Closer THEN Tail(todo[a])
                                     ELSE IF \E t \in hit : a = W(t) THEN <<>> ELSE todo[a]]
    /\ UNCHANGED <<log, feed, run, result, answer, snap, hide, stream, clock, bounds, history>>

(* repair_workspace_projection, for this thread.                            *)
ReadTruth ==
    /\ Doing(Repairer, "read")
    /\ Expand(Repairer, Project(truth, FALSE) \o
         IF Outcomes = {} THEN <<>> ELSE Complete("phase", Verdict[Latest(Outcomes).type]))
    /\ UNCHANGED <<log, feed, run, work, hide, stream, clock, bounds, history>>

---------------------------------------------------------------------------
(* live_message_stream: a load reads the product database, then the shard;  *)
(* once the request's thread is over, one more load ends the stream.        *)

LoadProduct(t) ==
    /\ t \in Watched /\ stream[t].pc = "idle"
    /\ \E last \in {FALSE, Over(t)} :
         stream' = [stream EXCEPT ![t].pc = "loading", ![t].last = last,
                                  ![t].page = Page(product, stream[t].after, PageLimit)]
    /\ UNCHANGED <<log, feed, run, todo, work, hide, clock, bounds, history>>

LoadShard(t) ==
    /\ stream[t].pc = "loading"
    /\ LET s == stream[t]
           all == Merged(s.page, Page(shard, s.after, PageLimit))
           page == Page(all, s.after, PageLimit)
       IN /\ stream' = [stream EXCEPT ![t] =
                 [pc |-> IF s.last THEN "closed" ELSE "idle",
                  after |-> LastCursor(page, s.after), page |-> <<>>, last |-> FALSE,
                  sent |-> [i \in DOMAIN s.sent \cup {j \in DOMAIN page : j[2] = t /\ j[1] # "evt"} |->
                              IF i \in DOMAIN page THEN page[i] ELSE s.sent[i]]]]
          /\ calm' = [calm EXCEPT ![t] = @ /\ Cardinality(DOMAIN page) < PageLimit]
    /\ UNCHANGED <<log, feed, run, todo, work, hide, clock, bounds, warned>>

Next ==
    \/ \E t \in Turns :
         \/ BeginTurn(t) \/ QueueRun(t) \/ SetRunStatus(t) \/ SpawnWorker(t) \/ SpawnFails(t)
         \/ Conclude(t) \/ Report(t) \/ WorkerDies(t) \/ Delta(t)
         \/ Reap(t) \/ CheckClosed(t) \/ Snapshot(t) \/ LoadProduct(t) \/ LoadShard(t)
    \/ BeginClose \/ ProjectOwn \/ FlagRuns \/ KillWorkers
    \/ Restart \/ ReadTruth
    \/ \E a \in {b \in Actors : todo[b] # <<>>} :
         \/ SelectMax(a) \/ Insert(a) \/ ProjectEvent(a)
         \/ SayMessage(a) \/ ListMessages(a) \/ RewriteMessage(a)

Spec == Init /\ [][Next]_vars

---------------------------------------------------------------------------
TypeOK == /\ \A t \in Turns : run[t] \in Row
          /\ worker \in [Turns -> {"off", "running", "reported", "dead"}]
          /\ hide \in [Turns -> BOOLEAN]
          /\ \A i \in DOMAIN Store :
               Store[i].status \in {"streaming", "completed", "cancelled", "failed"}

(* The events with the answer of t, and whether another event has the number *)
(* of one: their messages then have one identifier.                          *)
AnswersOf(t) == {e \in DOMAIN truth : truth[e].type = "answered" /\ truth[e].turn = t}
Doubled(t) == \E e \in AnswersOf(t) : \E f \in DOMAIN truth \ {e} : truth[f].seq = truth[e].seq

(* The feed has the answer of t as the streamed text of another turn, or it  *)
(* is such a part of a text as another turn has streamed.                    *)
Alike(t) ==
    \E u \in Turns \ {t} : /\ <<"answer", u>> \in DOMAIN shard
                           /\ answer[t] \in {Part, shard[<<"answer", u>>].text}

(* The messages that show a text; those that are of turn t.                  *)
Showing(text) ==
    {i \in DOMAIN Store : Store[i].kind \in {"answer", "answered"} /\ Store[i].text = text}
OwnMessages(t) == {<<"answer", t>>} \cup {<<"evt", truth[e].seq>> : e \in AnswersOf(t)}

(* record_turn and the repair leave out a projected answer for a streamed one*)
(* of the thread that reads alike.  When nobody is at work a turn that was   *)
(* completed with an answer has a message of its own that shows it, unless   *)
(* another turn has streamed the same text or, in passing, as much as that.  *)
AnswerIsShown ==
    Quiet => \A t \in Turns :
        run[t].status = "completed" /\ ~Doubled(t) =>
            Showing(answer[t]) \cap OwnMessages(t) # {} \/ Alike(t)

(* A close that is in the log when the worker's result is taken is never     *)
(* overruled by it, however the flag of the run and the kill race with the   *)
(* worker's end.                                                             *)
ClosedTurnIsNotCompleted ==
    \A t \in Turns : warned[t] => run[t].status # "completed"

(* complete_chat_runtime_phase settles every phase of the thread: when       *)
(* nobody is at work no phase is left streaming, except those of turns cut   *)
(* by a restart before any turn of the thread had an outcome in the log.     *)
PhasesSettle ==
    Quiet => \A t \in Turns :
        /\ Over(t) /\ <<"phase", t>> \in DOMAIN product
        /\ product[<<"phase", t>>].status = "streaming"
        => stream[t].pc = "lost" /\ (Orphans \/ Outcomes = {})

(* What a stream has sent when it reports the end of its turn: the final     *)
(* version of the streamed messages, the error and, unless the turn failed,  *)
(* the phase, provided that nobody else wrote meanwhile and no page was full.*)
(* It holds because a turn ends by writing to the shard and then to the      *)
(* product database, and loads read them in the other order; where the order *)
(* is the same (the user's message before a first delta, the phase of a      *)
(* failing turn before its error) a stream may pass a message for good.      *)
Due(t) == {i \in DOMAIN Store :
             /\ i[2] = t
             /\ \/ i[1] \in StreamKinds \cup {"error"}
                \/ i[1] = "phase" /\ <<"error", t>> \notin DOMAIN Store}
StreamShowsTheEnd ==
    [][\A t \in Turns :
         stream[t].pc = "loading" /\ stream'[t].pc = "closed" /\ calm'[t]
           => \A i \in Due(t) : i \in DOMAIN stream'[t].sent /\ stream'[t].sent[i] = Store[i]]_vars
=============================================================================
