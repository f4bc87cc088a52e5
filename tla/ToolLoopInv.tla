---------------------------- MODULE ToolLoopInv ----------------------------
(***************************************************************************)
(* The invariants behind the types and the budgets of ToolLoop: what a loop *)
(* that is under way has taken on.                                          *)
(***************************************************************************)
EXTENDS ToolLoop

Recording(l) == pc[l] \in {"read", "write", "log"}

(* Where the loop is, or will be once its message is recorded.              *)
Position(l) == IF Recording(l) THEN after[l] ELSE pc[l]

(* Recording a message leads back into the loop.                            *)
Continues(l) ==
  Recording(l) => after[l] \in {"resume", "ready", "check", "call", "count", "rest"}

(* A compaction is followed by the request of the subturn it was made for.  *)
HasRoom(l) == pc[l] \in {"compact", "request"} => HasSubturn(l)

TypeInv == TypeOK /\ \A l \in Loops : Continues(l) /\ HasRoom(l)

---------------------------------------------------------------------------
(* When one loop runs at a time (Concurrent = FALSE).                       *)

OneLoop == \A l, m \in Loops : Running(l) /\ Running(m) => l = m

(* A loop that runs belongs to a job that was started.                      *)
Started(l) == Running(l) => status # "none"

(* Inside a turn a loop knows the number of calls counted.                  *)
Synced(l) ==
  Position(l) \in {"ready", "compact", "request", "asked", "check", "call", "count", "rest"}
    => executed[l] = counted

(* The calls of a batch that passed the budget check still fit into it.     *)
Fits(l) ==
  /\ Position(l) \in {"check", "call"} => cur[l] <= last[l]
  /\ Position(l) \in {"call", "count"} =>
       /\ cur[l] <= last[l] + 1
       /\ counted + (last[l] - cur[l] + 1) + (IF InFlight(l) THEN 1 ELSE 0) <= MaxTotal

(* Every executed call is counted, lost, or in flight.                      *)
CallsAddUp ==
  ran = counted + lost + (IF \E l \in Loops : InFlight(l) THEN 1 ELSE 0)

BudgetInv == /\ OneLoop /\ CallsAddUp /\ TaskBudgetHolds
             /\ \A l \in Loops : Started(l) /\ Synced(l) /\ Fits(l)

IInv == TypeInv /\ BudgetInv
---------------------------------------------------------------------------
(* The calls of loops that may run side by side and die at any point.       *)

(* The loop records an answer that the log has not entered yet.              *)
AnswerDue(l) ==
  /\ Recording(l) /\ msg[l].role = "tool"
  /\ pc[l] = "log" => step[l] = 0

(* The loop records a message that may ask for calls.                        *)
Asking(l) == Recording(l) /\ msg[l].role = "assistant"

InBatch(l) == Position(l) \in {"check", "call", "count", "rest"}

(* The calls that the loop has still to answer.                              *)
Due(l) == (IF InBatch(l) THEN cur[l] .. last[l] ELSE {})
            \cup (IF AnswerDue(l) THEN msg[l].calls ELSE {})

(* They are entered in the log before the loop leaves the message that asks   *)
(* for them, and it answers them in order.                                   *)
CallsKnown(l) ==
  /\ pc[l] # "log" => step[l] = 0
  /\ Position(l) \in {"check", "call"} => cur[l] <= last[l]
  /\ \A c \in Due(l) : c < nextId /\ c \notin answered
  /\ AnswerDue(l) => msg[l].calls = {cur[l] - 1} /\ cur[l] - 1 \in requested
  /\ Asking(l) => msg[l].calls = cur[l] .. last[l]
  /\ Asking(l) /\ step[l] > 0 =>
       ref # "none" /\ cur[l] .. (cur[l] + step[l] - 2) \subseteq requested
  /\ InBatch(l) /\ ~Asking(l) => cur[l] .. last[l] \subseteq requested

(* No two loops have a call to answer in common.                             *)
CallsApart == \A l, m \in Loops : l # m => Due(l) \cap Due(m) = {}

LogKnown == /\ requested # {} => ref # "none"
            /\ \A c \in answered : c < nextId

CallsInv == LogKnown /\ CallsApart /\ \A l \in Loops : CallsKnown(l)

(* What a status completed leaves a loop to do, without faults.              *)
Finishing(l) ==
  status = "completed" /\ Running(l) =>
    Position(l) \in {"count", "rest"} /\ mode[l] = "finish"

FinishInv == \A l \in Loops : Finishing(l)
---------------------------------------------------------------------------
(* The budget, when loops may run side by side.                              *)

InTurn(l) ==
  Position(l) \in {"ready", "compact", "request", "asked", "check", "call", "count", "rest"}

(* What a loop takes the task to have used up, now or in its next turn.      *)
Used(l) == IF InTurn(l) THEN executed[l] ELSE counted

(* What each loop may take to be left of the budget.                         *)
Left == {p \in Loops \X (1 .. MaxTotal) : Used(p[1]) < p[2]}

(* A loop never has more calls counted than there are, and the calls of a    *)
(* batch that passed the check fit into what is left to it.                  *)
FitsLeft(l) ==
  /\ InTurn(l) => executed[l] <= counted
  /\ Position(l) \in {"check", "call"} => cur[l] <= last[l]
  /\ Position(l) \in {"call", "count"} =>
       /\ cur[l] <= last[l] + 1
       /\ executed[l] + (last[l] - cur[l] + 1) + (IF InFlight(l) THEN 1 ELSE 0) <= MaxTotal

ShareInv == /\ counted + Cardinality(Left) <= MaxTotal * Cardinality(Loops)
            /\ \A l \in Loops : FitsLeft(l)

---------------------------------------------------------------------------
(* The messages, when one loop runs at a time.  Statements may fail and the  *)
(* loop may die between any two of them.                                     *)

(* The calls of the batch that the loop has still to take up.                *)
Rest(l) == IF InBatch(l) THEN cur[l] .. last[l] ELSE {}

(* The transcript that holds the message the loop records.                   *)
Grown(l) == IF pc[l] = "read" THEN Append(Visible, msg[l]) ELSE view[l]

(* A transcript to which the calls the log knows as pending belong.          *)
Sound(ms) == /\ Matched(ms)
             /\ Pending \subseteq Asked(ms)
             /\ \A c \in Asked(ms) : c < nextId

(* Nothing answers the rest of the batch, before the message and after it.   *)
KeepsMatched(l) ==
  /\ Recording(l) => Sound(Grown(l)) /\ Rest(l) \cap Answered(Grown(l)) = {}
  /\ ~Recording(l) => Rest(l) \cap Answered(Visible) = {}
  /\ pc[l] = "compact" => Sound(view[l])
  /\ pc[l] = "log" => file = view[l]
  /\ Asking(l) => msg[l].calls \subseteq Asked(Grown(l))
  /\ Asking(l) /\ step[l] > 0 =>
       ref = "file" /\ cur[l] + step[l] - 1 \in msg[l].calls

MatchInv == Sound(Visible) /\ \A l \in Loops : KeepsMatched(l)

---------------------------------------------------------------------------
(* The messages and the log, when moreover nothing fails.                    *)

(* The calls the log has as pending.                                         *)
Expected(l) == IF Asking(l) THEN cur[l] .. (cur[l] + step[l] - 2) ELSE Due(l)

(* The calls open in the messages before the one that the loop records.      *)
OpenBefore(l) == IF msg[l].role = "tool" THEN {cur[l] - 1} \cup Rest(l) ELSE {}

(* The answers to the open calls may follow.                                 *)
Tidy(ms) ==
  /\ Adjacent(ms)
  /\ \A c \in Open(ms) :
       \E j \in DOMAIN ms : Asks(ms, j, c) /\ \A k \in j + 1 .. Len(ms) : ms[k].role = "tool"

(* What TranscriptProtocol lets a compaction put in the place of ms.         *)
Compacts(ms, new) ==
  \E s \in 1 .. Len(ms) :
    SuffixKeepsCalls(ms, {}, s) /\ new = <<User>> \o SubSeq(ms, s, Len(ms))

KeepsStep(l) ==
  /\ Running(l) => Pending = Expected(l)
  /\ Running(l) /\ ~Recording(l) => Open(Visible) = Rest(l)
  /\ Recording(l) =>
       /\ Open(Grown(l)) = Rest(l) /\ Tidy(Grown(l))
       /\ \/ Grown(l) = Append(Visible, msg[l]) /\ Open(Visible) = OpenBefore(l)
          \/ pc[l] = "log" /\ ref = "file"
  /\ pc[l] = "compact" => /\ Open(view[l]) = {} /\ Tidy(view[l])
                          /\ Compacts(Visible, view[l])
  /\ Asking(l) => msg[l].calls = Rest(l)
  /\ Recording(l) /\ ~Asking(l) => msg[l] \in {User, Tool(cur[l] - 1)}
  /\ pc[l] = "asked" => Valid(view[l]) /\ Adjacent(view[l])

SerialInv ==
  /\ (\A l \in Loops : ~Running(l)) => Pending = {} /\ Open(Visible) = {}
  /\ ref # "none" => Visible # <<>>
  /\ Tidy(Visible)
  /\ \A l \in Loops : KeepsStep(l)
===========================================================================
