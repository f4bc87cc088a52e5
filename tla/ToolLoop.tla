----------------------------- MODULE ToolLoop -----------------------------
(***************************************************************************)
(* The provider tool call loop of a task (task_agent.rs,                    *)
(* task_agent_session.rs), its budgets (provider_tool_loop_executor.rs) and *)
(* the transcript it keeps for the provider (provider_transcript.rs).       *)
(*                                                                          *)
(* A loop asks the model, executes the tool calls of the answer one by one, *)
(* records one answer per call and asks again.  A loop is started with the  *)
(* job, and again by each user input, in the server, whatever became of the *)
(* loop before it.  Loops share the job's event log and its blobs.          *)
(***************************************************************************)
EXTENDS Transcript, FiniteSets

CONSTANTS Loops,          \* places a loop runs in: the worker, request threads
          MaxSubturns,    \* max_provider_subturns
          MaxPerSubturn,  \* max_tool_calls_per_subturn
          MaxTotal,       \* max_tool_calls_per_task
          MaxTurns,       \* max_turns of a session, 0 for no limit
          Keep,           \* messages a compaction keeps: 2 * min_live_suffix_turns
          MaxBatch,       \* bound: calls in one answer of the model
          MaxInputs,      \* bound: user inputs
          Ends,           \* statuses a tool call may end the task with
          Concurrent,     \* may input arrive while a loop runs?
          Faults          \* may a loop die, or a store statement fail?

ASSUME BudgetAssumption ==
  /\ MaxSubturns \in Nat \ {0} /\ MaxPerSubturn \in Nat \ {0}
  /\ MaxTotal \in Nat \ {0} /\ MaxTurns \in Nat /\ Keep \in Nat \ {0}
  /\ MaxBatch \in Nat /\ MaxInputs \in Nat
ASSUME EndsAssumption ==
  Ends # {} /\ Ends \subseteq {"completed", "failed", "waiting_user"}
ASSUME ModeAssumption == Concurrent \in BOOLEAN /\ Faults \in BOOLEAN
ASSUME LoopsAssumption == IsFiniteSet(Loops)

VARIABLES
  file,      \* blob messages.json, rewritten in place
  compacted, \* the latest messages_compacted_<ms>.json
  ref,       \* which of the two the log's latest messages_ref names
  requested, \* ids with a provider_tool_call_requested event
  answered,  \* ids with a provider_tool_result_recorded event
  counted,   \* number of provider_tool_call_loop_tool_completed events
  status,    \* the job's latest status
  nextId,    \* the provider never uses an id twice
  inputs,    \* user inputs so far
  pc, turns, sub, success, executed, cur, last, mode,  \* a loop's position, counters and batch
  msg, after, view, step, \* the message a loop records and the messages it holds
  ran, lost  \* history: calls executed; of these, calls a dying loop did not count

log   == <<requested, answered, counted, status>>
blobs == <<file, compacted, ref>>
batch == <<cur, last, mode>>
turn  == <<turns, sub, success, executed>>
rec   == <<msg, after, view, step>>
hist  == <<ran, lost>>
vars  == <<file, compacted, ref, requested, answered, counted, status, nextId, inputs,
           pc, turns, sub, success, executed, cur, last, mode, msg, after, view, step,
           ran, lost>>

Statuses == {"none", "running", "completed", "failed", "waiting_user", "interrupted"}
Modes    == {"bad", "plain", "good", "recover", "finish", "over"}
Places   == {"idle", "resume", "turn", "ready", "compact", "request", "asked", "check",
             "call", "count", "rest", "read", "write", "log"}

(* What the log makes of the transcript: the messages and the calls still   *)
(* without an answer (replay_provider_transcript_state_from_events).        *)
Visible == CASE ref = "none"      -> <<>>
             [] ref = "file"      -> file
             [] ref = "compacted" -> compacted

(* Calls entered in the log that no tool result answers yet.                *)
Pending == requested \ answered

Running(l)  == pc[l] # "idle"
Terminal(s) == s = "completed"      \* job_resume_is_terminal; nobody cancels here

(* A call was executed and is not yet counted.                              *)
InFlight(l) == \/ pc[l] = "count"
               \/ pc[l] \in {"read", "write", "log"} /\ after[l] = "count"

At(l, p)  == pc' = [pc EXCEPT ![l] = p]

---------------------------------------------------------------------------
(***************************************************************************)
(* Recording a message: read the log and the messages, rewrite the blob,    *)
(* append the events.  Another loop may run between any two statements.     *)
(***************************************************************************)

Record(l, m, then) == /\ At(l, "read")
                      /\ msg'   = [msg EXCEPT ![l] = m]
                      /\ after' = [after EXCEPT ![l] = then]
                      /\ UNCHANGED <<view, step>>

(* Recording is over, or was never begun.                                   *)
Recorded(l, p) == /\ At(l, p)
                  /\ view' = [view EXCEPT ![l] = <<>>]
                  /\ step' = [step EXCEPT ![l] = 0]
                  /\ UNCHANGED <<msg, after>>

Init == /\ file = <<>> /\ compacted = <<>> /\ ref = "none"
        /\ requested = {} /\ answered = {} /\ counted = 0
        /\ status = "none" /\ nextId = 1 /\ inputs = 0
        /\ pc = [l \in Loops |-> "idle"]
        /\ turns = [l \in Loops |-> 0] /\ sub = [l \in Loops |-> 0]
        /\ success = [l \in Loops |-> FALSE] /\ executed = [l \in Loops |-> 0]
        /\ cur = [l \in Loops |-> 1] /\ last = [l \in Loops |-> 0]
        /\ mode = [l \in Loops |-> "plain"]
        /\ msg = [l \in Loops |-> User] /\ after = [l \in Loops |-> "idle"]
        /\ view = [l \in Loops |-> <<>>] /\ step = [l \in Loops |-> 0]
        /\ ran = 0 /\ lost = 0

(* A control message is dropped while there is no transcript.  A tool       *)
(* message needs a pending call with its id: without one the recording      *)
(* fails, and with it the loop.                                             *)
Dropped(l) == msg[l].role = "user" /\ ref = "none"
Refused(l) == msg[l].role = "tool" /\ ~(ref # "none" /\ msg[l].calls \subseteq Pending)

Read(l) ==
  /\ pc[l] = "read"
  /\ IF Dropped(l) \/ Refused(l)
     THEN Recorded(l, IF Dropped(l) THEN after[l] ELSE "idle")
     ELSE /\ At(l, "write")
          /\ view' = [view EXCEPT ![l] = Append(Visible, msg[l])]
          /\ UNCHANGED <<msg, after, step>>
  /\ lost' = IF Refused(l) /\ InFlight(l) THEN lost + 1 ELSE lost
  /\ UNCHANGED <<blobs, log, nextId, inputs, turn, batch, ran>>

(* The rewritten messages of a long transcript are named by an event of      *)
(* their own (provider_transcript_compacted) before any other.              *)
Write(l) ==
  /\ pc[l] = "write"
  /\ file' = view[l]
  /\ ref' \in {ref, "file"}
  /\ At(l, "log")
  /\ UNCHANGED <<compacted, log, nextId, inputs, turn, batch, rec, hist>>

\* Mutant of LogAnswered: a result completes every call, not only its own.
LogAnsweredAll(l) ==
  /\ pc[l] = "log" /\ msg[l].role = "tool" /\ step[l] = 0
  /\ answered' = requested
  /\ step' = [step EXCEPT ![l] = 1]
  /\ UNCHANGED <<blobs, requested, counted, status, nextId, inputs, pc, turn, batch,
                 msg, after, view, hist>>

(* provider_tool_result_recorded, before the messages_ref of its append.    *)
LogAnswered(l) ==
  /\ pc[l] = "log" /\ msg[l].role = "tool" /\ step[l] = 0
  /\ answered' = answered \cup msg[l].calls
  /\ step' = [step EXCEPT ![l] = 1]
  /\ UNCHANGED <<blobs, requested, counted, status, nextId, inputs, pc, turn, batch,
                 msg, after, view, hist>>

\* Mutant of LogAppended: a message with calls does not name messages.json.
LogAppendedLate(l) ==
  /\ pc[l] = "log" /\ step[l] = IF msg[l].role = "tool" THEN 1 ELSE 0
  /\ IF msg[l].role = "assistant" /\ msg[l].calls # {}
     THEN /\ step' = [step EXCEPT ![l] = 1]
          /\ UNCHANGED <<ref, pc, msg, after, view>>
     ELSE Recorded(l, after[l]) /\ ref' = "file"
  /\ UNCHANGED <<file, compacted, log, nextId, inputs, turn, batch, hist>>

(* provider_transcript_appended: the log names messages.json again.         *)
LogAppended(l) ==
  /\ pc[l] = "log" /\ step[l] = IF msg[l].role = "tool" THEN 1 ELSE 0
  /\ ref' = "file"
  /\ IF msg[l].role = "assistant" /\ msg[l].calls # {}
     THEN /\ step' = [step EXCEPT ![l] = 1]
          /\ UNCHANGED <<pc, msg, after, view>>
     ELSE Recorded(l, after[l])
  /\ UNCHANGED <<file, compacted, log, nextId, inputs, turn, batch, hist>>

\* Mutant of LogRequested: only the first call of a message is entered.
LogFirstRequested(l) ==
  /\ pc[l] = "log" /\ msg[l].role = "assistant" /\ step[l] > 0
  /\ requested' = requested \cup {cur[l]}
  /\ Recorded(l, after[l])
  /\ UNCHANGED <<blobs, answered, counted, status, nextId, inputs, turn, batch, hist>>

(* One provider_tool_call_requested per call of the assistant message.      *)
LogRequested(l) ==
  /\ pc[l] = "log" /\ msg[l].role = "assistant" /\ step[l] > 0
  /\ LET c == cur[l] + step[l] - 1
     IN  /\ requested' = requested \cup {c}
         /\ IF c < last[l]
            THEN /\ step' = [step EXCEPT ![l] = @ + 1]
                 /\ UNCHANGED <<pc, msg, after, view>>
            ELSE Recorded(l, after[l])
  /\ UNCHANGED <<blobs, answered, counted, status, nextId, inputs, turn, batch, hist>>

---------------------------------------------------------------------------
(***************************************************************************)
(* Sessions and turns.                                                      *)
(***************************************************************************)

StartJob(l) ==
  /\ status = "none" /\ pc[l] = "idle"
  /\ status' = "running"
  /\ At(l, "turn")
  /\ turns' = [turns EXCEPT ![l] = 0]
  /\ UNCHANGED <<blobs, requested, answered, counted, nextId, inputs, sub, success, executed,
                 batch, rec, hist>>

(* submit_user_input: the message first, then the job is resumed.           *)
SubmitInput(l) ==
  /\ pc[l] = "idle" /\ status # "none" /\ ~Terminal(status)
  /\ inputs < MaxInputs
  /\ Concurrent \/ \A m \in Loops : ~Running(m)
  /\ inputs' = inputs + 1
  /\ Record(l, User, "resume")
  /\ UNCHANGED <<blobs, log, nextId, turn, batch, hist>>

ResumeJob(l) ==
  /\ pc[l] = "resume"
  /\ IF Terminal(status)
     THEN /\ At(l, "idle")
          /\ UNCHANGED <<status, turns>>
     ELSE /\ status' = "running"
          /\ At(l, "turn")
          /\ turns' = [turns EXCEPT ![l] = 0]
  /\ UNCHANGED <<blobs, requested, answered, counted, nextId, inputs, sub, success, executed,
                 batch, rec, hist>>

\* Mutant of BudgetSeed: every turn starts with a fresh budget.
UnseededBudget == 0

(* The calls of the task executed so far, in whatever turn and process.     *)
BudgetSeed == counted

(* A turn takes over the budget used so far; without a turn left the        *)
(* session fails the job.  Turns are counted only when they are limited.    *)
StartTurn(l) ==
  /\ pc[l] = "turn"
  /\ IF MaxTurns # 0 /\ turns[l] >= MaxTurns
     THEN /\ status' = "failed"
          /\ At(l, "idle")
          /\ UNCHANGED turn
     ELSE /\ turns' = [turns EXCEPT ![l] = IF MaxTurns = 0 THEN 0 ELSE @ + 1]
          /\ executed' = [executed EXCEPT ![l] = BudgetSeed]
          /\ success' = [success EXCEPT ![l] = FALSE]
          /\ sub' = [sub EXCEPT ![l] = 0]
          /\ At(l, "ready")
          /\ UNCHANGED status
  /\ UNCHANGED <<blobs, requested, answered, counted, nextId, inputs, batch, rec, hist>>

HasSubturn(l) == sub[l] < MaxSubturns

\* Mutant of SubturnsExhausted: always yields to another turn.
SubturnsExhaustedYields(l) ==
  /\ pc[l] = "ready" /\ ~HasSubturn(l)
  /\ At(l, "turn")
  /\ UNCHANGED <<blobs, log, nextId, inputs, turn, batch, rec, hist>>

(* Out of subturns: another turn if a tool succeeded, else interrupted.     *)
SubturnsExhausted(l) ==
  /\ pc[l] = "ready" /\ ~HasSubturn(l)
  /\ IF success[l]
     THEN At(l, "turn") /\ UNCHANGED status
     ELSE At(l, "idle") /\ status' = "interrupted"
  /\ UNCHANGED <<blobs, requested, answered, counted, nextId, inputs, turn, batch, rec, hist>>

---------------------------------------------------------------------------
(***************************************************************************)
(* A subturn: compaction when the context is nearly full, the request, the  *)
(* model's answer.                                                          *)
(***************************************************************************)

(* The replacement is computed from what is read now.  An invalid one is    *)
(* rejected, which ends the loop with an error and the job still running.   *)
Compact(l) ==
  /\ pc[l] = "ready" /\ HasSubturn(l) /\ ref # "none"
  /\ LET new == Replacement(Visible, Pending, Keep)
     IN  IF Valid(new)
         THEN /\ view' = [view EXCEPT ![l] = new]
              /\ At(l, "compact")
         ELSE At(l, "idle") /\ UNCHANGED view
  /\ UNCHANGED <<blobs, log, nextId, inputs, turn, batch, msg, after, step, hist>>

(* provider_transcript_compacted names a file nobody else writes.           *)
LogCompacted(l) ==
  /\ pc[l] = "compact"
  /\ compacted' = view[l] /\ ref' = "compacted"
  /\ Recorded(l, "request")
  /\ UNCHANGED <<file, log, nextId, inputs, turn, batch, hist>>

(* The summary could not be had and the request would not fit.              *)
CompactionFails(l) ==
  /\ pc[l] = "ready" /\ HasSubturn(l)
  /\ At(l, "idle")
  /\ UNCHANGED <<blobs, log, nextId, inputs, turn, batch, rec, hist>>

(* view is the transcript of the request from here until the answer.        *)
Request(l) ==
  /\ pc[l] = "request" \/ (pc[l] = "ready" /\ HasSubturn(l))
  /\ At(l, "asked")
  /\ view' = [view EXCEPT ![l] = Visible]
  /\ sub' = [sub EXCEPT ![l] = @ + 1]
  /\ UNCHANGED <<blobs, log, nextId, inputs, turns, success, executed, batch,
                 msg, after, step, hist>>

(* An error of the provider fails the job, a missing content interrupts it. *)
ModelFails(l) ==
  /\ pc[l] = "asked"
  /\ status' \in {"failed", "interrupted"}
  /\ Recorded(l, "idle")
  /\ UNCHANGED <<blobs, requested, answered, counted, nextId, inputs, turn, batch, hist>>

(* An answer without calls is recorded and the model is asked again.        *)
ModelAnswers(l) ==
  /\ pc[l] = "asked"
  /\ \E n \in 0 .. MaxBatch :
       /\ nextId' = nextId + n
       /\ cur' = [cur EXCEPT ![l] = nextId]
       /\ last' = [last EXCEPT ![l] = nextId + n - 1]
       /\ msg' = [msg EXCEPT ![l] = Assistant(nextId .. nextId + n - 1)]
       /\ after' = [after EXCEPT ![l] = IF n = 0 THEN "ready" ELSE "check"]
  /\ At(l, "read")
  /\ view' = [view EXCEPT ![l] = <<>>]
  /\ UNCHANGED <<blobs, log, inputs, turn, mode, step, hist>>

---------------------------------------------------------------------------
(***************************************************************************)
(* The calls of an answer, cur .. last, one after the other.                *)
(***************************************************************************)

\* Mutant of OverBudget: looks at the calls executed, not at those asked for.
OverBudgetLate(l, exempt) ==
  LET n == last[l] - cur[l] + 1
  IN  (n > MaxPerSubturn /\ ~exempt) \/ executed[l] >= MaxTotal

(* Calls that only read or control may exceed the limit of a subturn.       *)
OverBudget(l, exempt) ==
  LET n == last[l] - cur[l] + 1
  IN  (n > MaxPerSubturn /\ ~exempt) \/ executed[l] + n > MaxTotal

CheckBudget(l) ==
  /\ pc[l] = "check"
  /\ \E exempt \in BOOLEAN :
       IF OverBudget(l, exempt)
       THEN /\ mode' = [mode EXCEPT ![l] = "over"]
            /\ At(l, "rest")
       ELSE At(l, "call") /\ UNCHANGED mode
  /\ UNCHANGED <<blobs, log, nextId, inputs, turn, cur, last, rec, hist>>

(* Record the answer to the current call and move on to the next.           *)
AnswerCall(l, then) ==
  /\ Record(l, Tool(cur[l]), then)
  /\ cur' = [cur EXCEPT ![l] = @ + 1]
  /\ UNCHANGED last

\* Mutant of NextCall: a call that cannot be decoded ends the subturn.
NoNextCall(l) == "ready"

NextCall(l) == IF cur[l] < last[l] THEN "call" ELSE "ready"

(* A call that cannot be decoded is answered with the error, not counted.   *)
RejectCall(l) ==
  /\ pc[l] = "call"
  /\ mode' = [mode EXCEPT ![l] = "bad"]
  /\ AnswerCall(l, NextCall(l))
  /\ UNCHANGED <<blobs, log, nextId, inputs, turn, hist>>

\* Mutant of AfterAnswer: calls to be corrected are not counted.
CountSuccesses(m) == IF m = "recover" THEN "rest" ELSE "count"

(* Every executed call is counted, whatever came of it.                     *)
AfterAnswer(m) == "count"

(* plain, good: the task goes on after a failed or successful call;         *)
(* recover: an error the model is to correct; finish: the call completed,   *)
(* failed or suspended the task, and set its status before its answer is    *)
(* recorded.  When statements may fail, a call that has set the status can  *)
(* still return an error, which the loop treats like any other.             *)
ExecuteCall(l) ==
  /\ pc[l] = "call"
  /\ \E m \in {"plain", "good", "recover", "finish"} :
       /\ mode' = [mode EXCEPT ![l] = m]
       /\ status' \in CASE m = "finish"             -> Ends
                        [] m = "recover" /\ Faults -> Ends \cup {status}
                        [] OTHER                   -> {status}
       /\ AnswerCall(l, AfterAnswer(m))
  /\ ran' = ran + 1
  /\ UNCHANGED <<blobs, requested, answered, counted, nextId, inputs, turn, lost>>

\* Mutant of AfterCount: the rest of the batch is forgotten after an error to correct.
AfterCountNoSkip(l) == IF mode[l] = "finish" THEN "rest"
                       ELSE IF mode[l] # "recover" /\ cur[l] <= last[l] THEN "call"
                       ELSE "ready"

\* Mutant of AfterCount: a status that ends the task is not looked at.
AfterCountGoesOn(l) == IF mode[l] = "recover" THEN "rest"
                       ELSE IF cur[l] <= last[l] THEN "call"
                       ELSE "ready"

AfterCount(l) == IF mode[l] \in {"recover", "finish"} THEN "rest"
                 ELSE IF cur[l] <= last[l] THEN "call"
                 ELSE "ready"

CountCall(l) ==
  /\ pc[l] = "count"
  /\ counted' = counted + 1
  /\ executed' = [executed EXCEPT ![l] = @ + 1]
  /\ success' = [success EXCEPT ![l] = @ \/ mode[l] = "good"]
  /\ At(l, AfterCount(l))
  /\ UNCHANGED <<blobs, requested, answered, status, nextId, inputs, turns, sub, batch, rec, hist>>

(* The calls not executed are answered as skipped, or with the budget error. *)
SkipCall(l) ==
  /\ pc[l] = "rest" /\ cur[l] <= last[l]
  /\ AnswerCall(l, "rest")
  /\ UNCHANGED <<blobs, log, nextId, inputs, turn, mode, hist>>

(* Most recoverable errors come with a correction in the user's name.       *)
LeaveBatch(l) ==
  /\ pc[l] = "rest" /\ cur[l] > last[l]
  /\ \/ mode[l] = "recover" /\ Record(l, User, "ready") /\ UNCHANGED status
     \/ mode[l] = "recover" /\ At(l, "ready") /\ UNCHANGED <<status, rec>>
     \/ mode[l] = "finish" /\ At(l, "idle") /\ UNCHANGED <<status, rec>>
     \/ mode[l] = "over" /\ At(l, "idle") /\ status' = "interrupted" /\ UNCHANGED rec
  /\ UNCHANGED <<blobs, requested, answered, counted, nextId, inputs, turn, batch, hist>>

(* The process is killed, or a store statement fails and the error is       *)
(* passed up: the loop is gone, the job's status is what it was.            *)
Die(l) ==
  /\ Faults /\ Running(l)
  /\ lost' = IF InFlight(l) THEN lost + 1 ELSE lost
  /\ Recorded(l, "idle")
  /\ UNCHANGED <<blobs, log, nextId, inputs, turn, batch, ran>>

RecordStep(l) == \/ Read(l) \/ Write(l) \/ LogAnswered(l) \/ LogAppended(l) \/ LogRequested(l)
SessionStep(l) == ResumeJob(l) \/ StartTurn(l) \/ SubturnsExhausted(l)
ModelStep(l) == \/ Compact(l) \/ LogCompacted(l) \/ CompactionFails(l)
                \/ Request(l) \/ ModelFails(l) \/ ModelAnswers(l)
CallStep(l) == \/ CheckBudget(l) \/ RejectCall(l) \/ ExecuteCall(l)
               \/ CountCall(l) \/ SkipCall(l) \/ LeaveBatch(l)

LoopStep(l) == RecordStep(l) \/ SessionStep(l) \/ ModelStep(l) \/ CallStep(l)

Next == \E l \in Loops : StartJob(l) \/ SubmitInput(l) \/ LoopStep(l) \/ Die(l)

Spec == Init /\ [][Next]_vars

(* The threads of a loop run, the model answers or times out, a tool call    *)
(* returns or times out.                                                     *)
FairSpec == Spec /\ \A l \in Loops : WF_vars(LoopStep(l))

---------------------------------------------------------------------------
(***************************************************************************)
(* Properties.                                                              *)
(***************************************************************************)

StoreOK ==
  /\ file \in Seq(Message) /\ compacted \in Seq(Message)
  /\ ref \in {"none", "file", "compacted"}
  /\ requested \subseteq Nat /\ answered \subseteq Nat /\ counted \in Nat
  /\ status \in Statuses /\ nextId \in Nat \ {0} /\ inputs \in 0 .. MaxInputs
  /\ ran \in Nat /\ lost \in Nat

TurnOK ==
  /\ turns \in [Loops -> Nat] /\ sub \in [Loops -> 0 .. MaxSubturns]
  /\ success \in [Loops -> BOOLEAN] /\ executed \in [Loops -> Nat]

BatchOK ==
  /\ cur \in [Loops -> Nat] /\ last \in [Loops -> Nat] /\ mode \in [Loops -> Modes]

RecordOK ==
  /\ pc \in [Loops -> Places]
  /\ msg \in [Loops -> Message] /\ after \in [Loops -> Places]
  /\ view \in [Loops -> Seq(Message)] /\ step \in [Loops -> Nat]

(* The stores and the loops' positions keep their types; a loop never runs   *)
(* more subturns than max_provider_subturns.                                 *)
TypeOK == StoreOK /\ TurnOK /\ BatchOK /\ RecordOK

(* Every call in the transcript sent to the model has its answer right       *)
(* behind the message that asks for it (provider_transcript.rs:384).         *)
RequestIsAnswered ==
  \A l \in Loops : pc[l] = "asked" => Valid(view[l]) /\ Adjacent(view[l])

(* Whatever a crash or a compaction leaves behind, a tool message answers a  *)
(* call that is in the transcript, and no other one answers it.              *)
NoOrphans == Matched(Visible)

(* A compaction between subturns is never refused by the validator           *)
(* (context_compaction.rs:65).                                               *)
CompactionAccepted ==
  \A l \in Loops : pc[l] = "ready" /\ ref # "none" =>
    Valid(Replacement(Visible, Pending, Keep))

(* Unless a message is being recorded, the calls pending by the log are the  *)
(* calls open in the messages, although the two are stored apart.            *)
LogMatchesTranscript ==
  (\A l \in Loops : pc[l] \notin {"write", "log"}) => Pending = Open(Visible)

(* The answer to a call always finds the call pending, even beside a loop    *)
(* that overwrites the messages: recording it is never refused               *)
(* (provider_transcript.rs:461).                                             *)
AnswerFindsItsCall ==
  \A l \in Loops : pc[l] = "read" => ~Refused(l)

(* The budget of the task bounds the calls counted, over turns, inputs and   *)
(* crashes (provider_tool_calls_executed_for_task).                          *)
TaskBudgetHolds == counted <= MaxTotal

(* Calls executed beyond the budget were each lost by a loop that died       *)
(* between executing the call and counting it.                               *)
OverrunWasLost == ran <= MaxTotal + lost

(* Loops that run at a time may each use up the budget, but no more: every   *)
(* turn starts from the calls counted so far.                                *)
BudgetPerLoop == counted <= MaxTotal * Cardinality(Loops)

(* A call that completes the job is the last thing its loop does but for the *)
(* answers: no further request, turn or tool call.                           *)
CompletionIsLast ==
  status = "completed" =>
    \A l \in Loops : pc[l] \notin {"turn", "ready", "compact", "request", "asked", "check", "call"}

(* The visible transcript takes only the steps the provider allows.          *)
Protocol == INSTANCE TranscriptProtocol WITH visible <- Visible
TranscriptImplemented == Protocol!Spec

(* A loop ends, even without a limit on turns: a turn is followed by another *)
(* only if it used up some of the task's budget.                             *)
LoopEnds == \A l \in Loops : Running(l) ~> ~Running(l)
===========================================================================
