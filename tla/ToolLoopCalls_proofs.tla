------------------------ MODULE ToolLoopCalls_proofs ------------------------
(***************************************************************************)
(* Proofs about the calls of ToolLoop: answers find their calls beside any   *)
(* number of loops, the loops count no more than one budget each, and a      *)
(* completed job asks for nothing more.                                      *)
(***************************************************************************)
EXTENDS ToolLoop_proofs

---------------------------------------------------------------------------
(* What a step of loop l does to the calls due.                             *)

Locals(k) == <<pc[k], after[k], msg[k], step[k], cur[k], last[k]>>

Effect(l) ==
    /\ CallsKnown(l)'
    /\ \A k \in Loops : k # l => UNCHANGED Locals(k)
    /\ requested \subseteq requested' /\ (ref # "none" => ref' # "none") /\ nextId <= nextId'
    /\ \A c \in answered' : c \in answered \/ c \in Due(l)
    /\ \A c \in Due(l)' : c \in Due(l) \/ nextId <= c
    /\ LogKnown'

\* The calls due are numbers.
LEMMA DueIsNat ==
    ASSUME TypeInv, NEW l \in Loops
    PROVE  Due(l) \subseteq Int
<1>1. cur[l] \in Nat /\ last[l] \in Nat /\ msg[l].calls \subseteq Nat
  BY DEF TypeInv, TypeOK, BatchOK, RecordOK, Message
<1> QED
  BY <1>1 DEF Due

\* Such a step leaves every loop's calls known and apart from the others'.
LEMMA EffectKeepsCalls ==
    ASSUME TypeInv, TypeInv', CallsInv, NEW l \in Loops, Effect(l)
    PROVE  CallsInv'
<1>1. nextId \in Nat /\ nextId' \in Nat
  BY DEF TypeInv, TypeOK, StoreOK
<1>2. ASSUME NEW k \in Loops, k # l
      PROVE  /\ Due(k)' = Due(k)
             /\ CallsKnown(k)'
             /\ Due(l)' \cap Due(k)' = {}
  <2>1. UNCHANGED <<pc[k], after[k], msg[k], step[k], cur[k], last[k]>>
    BY <1>2 DEF Effect, Locals
  <2>2. /\ Due(k)' = Due(k) /\ Position(k)' = Position(k) /\ (InBatch(k)' <=> InBatch(k))
        /\ (Asking(k)' <=> Asking(k)) /\ (AnswerDue(k)' <=> AnswerDue(k))
    BY <2>1 DEF Due, InBatch, Asking, AnswerDue, Position, Recording
  <2>3. CallsKnown(k) /\ Due(l) \cap Due(k) = {}
    BY <1>2 DEF CallsInv, CallsApart
  <2>4. \A c \in Due(k) :
          c \in Int /\ c < nextId /\ c < nextId' /\ c \notin answered /\ c \notin answered'
    BY <1>1, <2>3, DueIsNat DEF CallsKnown, Effect
  <2>5. CallsKnown(k)'
    BY <2>1, <2>2, <2>3, <2>4 DEF CallsKnown, Effect
  <2>6. Due(l)' \cap Due(k)' = {}
    BY <1>1, <2>2, <2>3, <2>4 DEF Effect
  <2> QED
    BY <2>2, <2>5, <2>6
<1>3. CallsApart'
  <2> SUFFICES ASSUME NEW j \in Loops, NEW k \in Loops, j # k PROVE (Due(j) \cap Due(k) = {})'
    BY DEF CallsApart
  <2> QED
    BY <1>2 DEF CallsInv, CallsApart
<1> QED
  BY <1>2, <1>3 DEF CallsInv, Effect

---------------------------------------------------------------------------
(* The kinds of steps.                                                      *)

\* The loop moves on without a message and without a new batch.
LEMMA MoveOn ==
    ASSUME TypeInv, CallsInv, NEW l \in Loops, NEW p \in Places \ {"read", "write", "log"},
           pc' = [pc EXCEPT ![l] = p],
           p \in {"check", "call", "count", "rest"} => pc[l] \in {"check", "call", "count", "rest"},
           p \in {"check", "call"} => cur[l] <= last[l],
           step' = [step EXCEPT ![l] = 0] \/ (step' = step /\ pc[l] # "log"),
           ref # "none" => ref' # "none",
           UNCHANGED <<requested, answered, nextId, cur, last, msg, after>>
    PROVE  Effect(l)
<1>1. RecordOK /\ StoreOK /\ BatchOK
  BY DEF TypeInv, TypeOK
<1>2. CallsKnown(l) /\ LogKnown
  BY DEF CallsInv
<1>3. pc'[l] = p /\ step'[l] = 0
  BY <1>1, <1>2 DEF RecordOK, CallsKnown
<1>4. \A k \in Loops : k # l => UNCHANGED Locals(k)
  BY <1>1 DEF RecordOK, Locals
<1>5. ~Recording(l)' /\ Position(l)' = p
  BY <1>3 DEF Recording, Position
<1>6. Due(l)' = IF p \in {"check", "call", "count", "rest"} THEN cur[l] .. last[l] ELSE {}
  BY <1>5 DEF Due, InBatch, AnswerDue
<1>7. p \in {"check", "call", "count", "rest"} =>
        InBatch(l) /\ ~Asking(l) /\ Due(l) = cur[l] .. last[l]
  BY DEF Due, InBatch, AnswerDue, Asking, Position, Recording
<1>8. CallsKnown(l)'
  BY <1>2, <1>3, <1>5, <1>6, <1>7 DEF CallsKnown, AnswerDue, Asking, InBatch
<1>9. nextId <= nextId'
  BY <1>1 DEF StoreOK
<1> QED
  BY <1>2, <1>4, <1>6, <1>7, <1>8, <1>9 DEF Effect, LogKnown

\* The loop begins to record a message of the user; no batch follows it.
LEMMA RecordUser ==
    ASSUME TypeInv, CallsInv, NEW l \in Loops, NEW p \in {"resume", "ready"},
           pc[l] # "log", Record(l, User, p),
           UNCHANGED <<requested, answered, nextId, cur, last, ref>>
    PROVE  Effect(l)
<1>1. RecordOK /\ StoreOK
  BY DEF TypeInv, TypeOK
<1>2. CallsKnown(l) /\ LogKnown
  BY DEF CallsInv
<1>3. /\ pc'[l] = "read" /\ msg'[l].role = "user" /\ after'[l] = p /\ step'[l] = 0
      /\ \A k \in Loops : k # l => UNCHANGED Locals(k)
  BY <1>1, <1>2 DEF RecordOK, Record, At, Locals, User, CallsKnown
<1>4. /\ Position(l)' \notin {"check", "call"}
      /\ ~InBatch(l)' /\ ~Asking(l)' /\ ~AnswerDue(l)' /\ Due(l)' = {}
  BY <1>3 DEF InBatch, Asking, AnswerDue, Due, Position, Recording
<1>5. CallsKnown(l)'
  BY <1>3, <1>4 DEF CallsKnown
<1>6. nextId <= nextId'
  BY <1>1 DEF StoreOK
<1> QED
  BY <1>2, <1>3, <1>4, <1>5, <1>6 DEF Effect, LogKnown

\* The loop begins to record the answer to its current call.
LEMMA RecordAnswer ==
    ASSUME TypeInv, CallsInv, NEW l \in Loops, NEW p \in {"call", "count", "rest", "ready"},
           pc[l] \in {"call", "rest"}, cur[l] <= last[l], p = "call" => cur[l] < last[l],
           AnswerCall(l, p),
           UNCHANGED <<requested, answered, nextId, ref>>
    PROVE  Effect(l)
<1>1. RecordOK /\ StoreOK /\ BatchOK
  BY DEF TypeInv, TypeOK
<1>2. CallsKnown(l) /\ LogKnown
  BY DEF CallsInv
<1>3. cur[l] \in Nat /\ last[l] \in Nat /\ nextId \in Nat
  BY <1>1 DEF StoreOK, BatchOK
<1>4. /\ pc'[l] = "read" /\ msg'[l] = Tool(cur[l]) /\ after'[l] = p /\ step'[l] = 0
      /\ cur'[l] = cur[l] + 1 /\ last'[l] = last[l]
      /\ \A k \in Loops : k # l => UNCHANGED Locals(k)
  BY <1>1, <1>2 DEF RecordOK, BatchOK, AnswerCall, Record, At, Locals, CallsKnown
<1>5. ~Asking(l)' /\ AnswerDue(l)' /\ msg'[l].calls = {cur[l]}
  BY <1>4 DEF Asking, AnswerDue, Recording, Tool
<1>6. Due(l) = cur[l] .. last[l] /\ cur[l] .. last[l] \subseteq requested
  BY <1>2 DEF Due, InBatch, AnswerDue, Asking, Position, Recording, CallsKnown
<1>7. Due(l)' \subseteq Due(l)
  <2>1. Due(l)' \subseteq (cur[l] + 1 .. last[l]) \cup {cur[l]}
    BY <1>4, <1>5 DEF Due
  <2> QED
    BY <1>3, <1>6, <2>1
<1>8. CallsKnown(l)'
  <2>1. msg'[l].calls = {cur'[l] - 1} /\ cur'[l] - 1 \in requested
    BY <1>3, <1>4, <1>5, <1>6
  <2>2. cur'[l] .. last'[l] \subseteq requested'
    BY <1>3, <1>4, <1>6
  <2>3. \A c \in Due(l)' : c < nextId /\ c \notin answered
    BY <1>2, <1>7 DEF CallsKnown
  <2>4. Position(l)' \in {"check", "call"} => cur'[l] <= last'[l]
    BY <1>3, <1>4 DEF Position, Recording
  <2> QED
    BY <1>4, <1>5, <2>1, <2>2, <2>3, <2>4 DEF CallsKnown
<1>9. nextId <= nextId'
  BY <1>3
<1> QED
  BY <1>2, <1>4, <1>7, <1>8, <1>9 DEF Effect, LogKnown

---------------------------------------------------------------------------
(* The statements of a recording.                                           *)

\* The first statement of a recording, refused, dropped or not.
LEMMA ReadKeepsCalls ==
    ASSUME TypeInv, CallsInv, NEW l \in Loops, Read(l)
    PROVE  Effect(l)
<1>1. RecordOK /\ StoreOK /\ BatchOK
  BY DEF TypeInv, TypeOK
<1>2. CallsKnown(l) /\ LogKnown
  BY DEF CallsInv
<1>a. /\ pc[l] = "read" /\ step[l] = 0 /\ after[l] \in Places
      /\ UNCHANGED <<requested, answered, nextId, cur, last, ref, msg, after>>
  BY <1>1, <1>2 DEF RecordOK, CallsKnown, Read, Recorded, blobs, log, batch
<1>3. CASE Refused(l) /\ ~Dropped(l)
  <2>1. pc' = [pc EXCEPT ![l] = "idle"] /\ step' = [step EXCEPT ![l] = 0]
    BY <1>3 DEF Read, Recorded, At
  <2> QED
    BY <1>a, <2>1, MoveOn DEF Places
<1>4. CASE Dropped(l)
  <2>1. pc' = [pc EXCEPT ![l] = after[l]] /\ step' = [step EXCEPT ![l] = 0]
    BY <1>4 DEF Read, Recorded, At
  <2>2. /\ pc'[l] = after[l] /\ step'[l] = 0
        /\ \A k \in Loops : k # l => UNCHANGED Locals(k)
    BY <1>a, <1>1, <2>1 DEF RecordOK, Locals
  <2>3. msg[l].role = "user" /\ after[l] \in {"resume", "ready", "check", "call", "count", "rest"}
    BY <1>a, <1>4 DEF Dropped, TypeInv, Continues, Recording
  <2>4. /\ ~Recording(l)' /\ Position(l)' = Position(l)
        /\ (InBatch(l)' <=> InBatch(l)) /\ ~AnswerDue(l) /\ ~Asking(l)
    BY <1>a, <2>2, <2>3 DEF Recording, InBatch, Position, AnswerDue, Asking
  <2>5. Due(l)' = Due(l)
    BY <1>a, <2>4 DEF Due, AnswerDue
  <2>6. CallsKnown(l)'
    BY <1>2, <1>a, <2>2, <2>4, <2>5 DEF CallsKnown, AnswerDue, Asking
  <2>7. nextId <= nextId'
    BY <1>1, <1>a DEF StoreOK
  <2> QED
    BY <1>2, <1>a, <2>2, <2>5, <2>6, <2>7 DEF Effect, LogKnown
<1>5. CASE ~Dropped(l) /\ ~Refused(l)
  <2>1. pc' = [pc EXCEPT ![l] = "write"] /\ step' = step
    BY <1>5 DEF Read, At
  <2>2. /\ pc'[l] = "write" /\ step'[l] = 0
        /\ \A k \in Loops : k # l => UNCHANGED Locals(k)
    BY <1>a, <1>1, <2>1 DEF RecordOK, Locals
  <2>3. /\ Position(l)' = Position(l) /\ (InBatch(l)' <=> InBatch(l))
        /\ (AnswerDue(l)' <=> AnswerDue(l))
        /\ (Asking(l)' <=> Asking(l)) /\ Due(l)' = Due(l)
    BY <1>a, <2>2 DEF Recording, InBatch, Position, AnswerDue, Asking, Due
  <2>4. CallsKnown(l)'
    BY <1>2, <1>a, <2>2, <2>3 DEF CallsKnown
  <2>5. nextId <= nextId'
    BY <1>1, <1>a DEF StoreOK
  <2> QED
    BY <1>2, <1>a, <2>2, <2>3, <2>4, <2>5 DEF Effect, LogKnown
<1> QED
  BY <1>3, <1>4, <1>5

\* The rewrite of messages.json.
LEMMA WriteKeepsCalls ==
    ASSUME TypeInv, CallsInv, NEW l \in Loops, Write(l)
    PROVE  Effect(l)
<1>1. RecordOK /\ StoreOK /\ BatchOK
  BY DEF TypeInv, TypeOK
<1>2. CallsKnown(l) /\ LogKnown
  BY DEF CallsInv
<1>3. /\ pc[l] = "write" /\ step[l] = 0 /\ (ref # "none" => ref' # "none")
      /\ UNCHANGED <<requested, answered, nextId, cur, last, msg, after, step>>
      /\ pc'[l] = "log"
  BY <1>1, <1>2 DEF RecordOK, CallsKnown, Write, At, log, batch, rec
<1>4. \A k \in Loops : k # l => UNCHANGED Locals(k)
  BY <1>1, <1>3 DEF RecordOK, Locals, Write, At
<1>5. /\ Position(l)' = Position(l) /\ (InBatch(l)' <=> InBatch(l))
      /\ (AnswerDue(l)' <=> AnswerDue(l))
      /\ (Asking(l)' <=> Asking(l)) /\ Due(l)' = Due(l)
  BY <1>3 DEF Recording, InBatch, Position, AnswerDue, Asking, Due
<1>6. CallsKnown(l)'
  BY <1>2, <1>3, <1>5 DEF CallsKnown
<1>7. nextId <= nextId'
  BY <1>1, <1>3 DEF StoreOK
<1> QED
  BY <1>2, <1>3, <1>4, <1>5, <1>6, <1>7 DEF Effect, LogKnown

\* The event of a result takes the call from those due.
LEMMA LogAnsweredKeepsCalls ==
    ASSUME TypeInv, CallsInv, NEW l \in Loops, LogAnswered(l)
    PROVE  Effect(l)
<1>1. RecordOK /\ StoreOK /\ BatchOK
  BY DEF TypeInv, TypeOK
<1>2. CallsKnown(l) /\ LogKnown
  BY DEF CallsInv
<1>3. /\ pc[l] = "log" /\ msg[l].role = "tool" /\ step[l] = 0
      /\ answered' = answered \cup msg[l].calls /\ step'[l] = 1
      /\ UNCHANGED <<requested, ref, nextId, cur, last, msg, after, pc>>
  BY <1>1 DEF RecordOK, LogAnswered, blobs, batch
<1>4. \A k \in Loops : k # l => UNCHANGED Locals(k)
  BY <1>1, <1>3 DEF RecordOK, Locals, LogAnswered
<1>5. cur[l] \in Nat /\ last[l] \in Nat /\ nextId \in Nat
  BY <1>1 DEF StoreOK, BatchOK
<1>6. /\ AnswerDue(l) /\ ~AnswerDue(l)' /\ ~Asking(l) /\ ~Asking(l)'
      /\ Position(l)' = Position(l) /\ (InBatch(l)' <=> InBatch(l))
  BY <1>3 DEF Recording, InBatch, Position, AnswerDue, Asking
<1>7. msg[l].calls = {cur[l] - 1} /\ cur[l] - 1 \in Due(l)
  BY <1>2, <1>6 DEF CallsKnown, Due
<1>8. Due(l)' \subseteq Due(l) /\ \A c \in Due(l)' : c \in cur[l] .. last[l]
  BY <1>3, <1>6 DEF Due
<1>9. CallsKnown(l)'
  BY <1>2, <1>3, <1>5, <1>6, <1>7, <1>8 DEF CallsKnown
<1>10. LogKnown'
  BY <1>2, <1>3, <1>7 DEF LogKnown, CallsKnown
<1> QED
  BY <1>3, <1>4, <1>5, <1>7, <1>8, <1>9, <1>10 DEF Effect

\* The event of an append, of a message with calls or without.
LEMMA LogAppendedKeepsCalls ==
    ASSUME TypeInv, CallsInv, NEW l \in Loops, LogAppended(l)
    PROVE  Effect(l)
<1>1. RecordOK /\ StoreOK /\ BatchOK
  BY DEF TypeInv, TypeOK
<1>2. CallsKnown(l) /\ LogKnown
  BY DEF CallsInv
<1>3. /\ pc[l] = "log" /\ step[l] = IF msg[l].role = "tool" THEN 1 ELSE 0
      /\ ref' = "file" /\ after[l] \in Places
      /\ UNCHANGED <<requested, answered, nextId, cur, last, msg, after>>
  BY <1>1 DEF RecordOK, LogAppended, Recorded, log, batch
<1>4. cur[l] \in Nat /\ last[l] \in Nat /\ nextId \in Nat
  BY <1>1 DEF StoreOK, BatchOK
<1>5. ~AnswerDue(l)
  BY <1>3 DEF AnswerDue
<1>6. CASE msg[l].role = "assistant" /\ msg[l].calls # {}
  <2>1. step' = [step EXCEPT ![l] = 1] /\ pc' = pc
    BY <1>6, Zenon DEF LogAppended
  <2>2. step'[l] = 1 /\ \A k \in Loops : k # l => UNCHANGED Locals(k)
    BY <1>1, <1>3, <2>1 DEF RecordOK, Locals
  <2>3. /\ Asking(l) /\ Asking(l)' /\ ~AnswerDue(l)' /\ Position(l)' = Position(l)
        /\ (InBatch(l)' <=> InBatch(l)) /\ Due(l)' = Due(l)
    BY <1>3, <1>5, <1>6, <2>1 DEF Recording, InBatch, Position, AnswerDue, Asking, Due
  <2>4. cur[l] .. (cur[l] + step'[l] - 2) = {}
    BY <1>4, <2>2
  <2>5. CallsKnown(l)'
    BY <1>2, <1>3, <2>1, <2>2, <2>3, <2>4 DEF CallsKnown
  <2> QED
    BY <1>2, <1>3, <1>4, <2>2, <2>3, <2>5 DEF Effect, LogKnown
<1>7. CASE ~(msg[l].role = "assistant" /\ msg[l].calls # {})
  <2>1. step' = [step EXCEPT ![l] = 0] /\ pc' = [pc EXCEPT ![l] = after[l]]
    BY <1>7 DEF LogAppended, Recorded, At
  <2>2. /\ pc'[l] = after[l] /\ step'[l] = 0
        /\ \A k \in Loops : k # l => UNCHANGED Locals(k)
    BY <1>1, <1>3, <2>1 DEF RecordOK, Locals
  <2>3. after[l] \in {"resume", "ready", "check", "call", "count", "rest"}
    BY <1>3 DEF TypeInv, Continues, Recording
  <2>4. /\ ~Recording(l)' /\ Position(l)' = Position(l)
        /\ (InBatch(l)' <=> InBatch(l)) /\ Due(l)' = Due(l)
    BY <1>3, <1>5, <2>2, <2>3 DEF Recording, InBatch, Position, AnswerDue, Due
  <2>5. cur[l] .. last[l] \subseteq requested \/ ~InBatch(l)
    BY <1>2, <1>3, <1>7 DEF CallsKnown, Asking, Recording
  <2>6. CallsKnown(l)'
    BY <1>2, <1>3, <2>2, <2>4, <2>5 DEF CallsKnown, AnswerDue, Asking
  <2> QED
    BY <1>2, <1>3, <1>4, <2>2, <2>4, <2>6 DEF Effect, LogKnown
<1> QED
  BY <1>6, <1>7

\* The events of the calls asked for, one after the other.
LEMMA LogRequestedKeepsCalls ==
    ASSUME TypeInv, CallsInv, NEW l \in Loops, LogRequested(l)
    PROVE  Effect(l)
<1>1. RecordOK /\ StoreOK /\ BatchOK
  BY DEF TypeInv, TypeOK
<1>2. CallsKnown(l) /\ LogKnown
  BY DEF CallsInv
<1> DEFINE c == cur[l] + step[l] - 1
<1>3. /\ pc[l] = "log" /\ msg[l].role = "assistant" /\ step[l] > 0
      /\ requested' = requested \cup {c} /\ after[l] \in Places
      /\ UNCHANGED <<answered, ref, nextId, cur, last, msg, after>>
  BY <1>1 DEF RecordOK, LogRequested, Recorded, blobs, batch
<1>4. cur[l] \in Nat /\ last[l] \in Nat /\ nextId \in Nat /\ step[l] \in Nat
  BY <1>1 DEF StoreOK, BatchOK, RecordOK
<1>5. ~AnswerDue(l) /\ Asking(l)
  BY <1>3 DEF AnswerDue, Asking, Recording
<1>6. ref # "none" /\ cur[l] .. (cur[l] + step[l] - 2) \subseteq requested
  BY <1>2, <1>3, <1>5 DEF CallsKnown
<1>7. cur[l] .. c \subseteq requested'
  BY <1>3, <1>4, <1>6
<1>8. LogKnown'
  BY <1>2, <1>3, <1>6 DEF LogKnown
<1>9. CASE c < last[l]
  <2>1. step' = [step EXCEPT ![l] = @ + 1] /\ pc' = pc
    BY <1>9, Zenon DEF LogRequested
  <2>2. step'[l] = step[l] + 1 /\ \A k \in Loops : k # l => UNCHANGED Locals(k)
    BY <1>1, <1>3, <2>1 DEF RecordOK, Locals
  <2>3. /\ Asking(l)' /\ ~AnswerDue(l)' /\ Position(l)' = Position(l)
        /\ (InBatch(l)' <=> InBatch(l)) /\ Due(l)' = Due(l)
    BY <1>3, <1>5, <2>1 DEF Recording, InBatch, Position, AnswerDue, Asking, Due
  <2>4. cur[l] + step'[l] - 2 = c
    BY <1>4, <2>2
  <2>5. CallsKnown(l)'
    BY <1>2, <1>3, <1>5, <1>6, <1>7, <2>1, <2>3, <2>4 DEF CallsKnown
  <2> QED
    BY <1>3, <1>4, <1>8, <2>2, <2>3, <2>5 DEF Effect
<1>10. CASE ~(c < last[l])
  <2>1. step' = [step EXCEPT ![l] = 0] /\ pc' = [pc EXCEPT ![l] = after[l]]
    BY <1>10 DEF LogRequested, Recorded, At
  <2>2. /\ pc'[l] = after[l] /\ step'[l] = 0
        /\ \A k \in Loops : k # l => UNCHANGED Locals(k)
    BY <1>1, <1>3, <2>1 DEF RecordOK, Locals
  <2>3. after[l] \in {"resume", "ready", "check", "call", "count", "rest"}
    BY <1>3 DEF TypeInv, Continues, Recording
  <2>4. /\ ~Recording(l)' /\ Position(l)' = Position(l)
        /\ (InBatch(l)' <=> InBatch(l)) /\ Due(l)' = Due(l)
    BY <1>3, <1>5, <2>2, <2>3 DEF Recording, InBatch, Position, AnswerDue, Due
  <2>5. cur[l] .. last[l] \subseteq requested'
    BY <1>4, <1>7, <1>10
  <2>6. CallsKnown(l)'
    BY <1>2, <1>3, <2>2, <2>4, <2>5 DEF CallsKnown, AnswerDue, Asking
  <2> QED
    BY <1>3, <1>4, <1>8, <2>2, <2>4, <2>6 DEF Effect
<1> QED
  BY <1>9, <1>10

\* An answer of the model: its calls are new.
LEMMA ModelAnswersKeepsCalls ==
    ASSUME TypeInv, CallsInv, NEW l \in Loops, ModelAnswers(l)
    PROVE  Effect(l)
<1>1. RecordOK /\ StoreOK /\ BatchOK
  BY DEF TypeInv, TypeOK
<1>2. CallsKnown(l) /\ LogKnown
  BY DEF CallsInv
<1>3. PICK n \in 0 .. MaxBatch :
        /\ nextId' = nextId + n
        /\ cur' = [cur EXCEPT ![l] = nextId]
        /\ last' = [last EXCEPT ![l] = nextId + n - 1]
        /\ msg' = [msg EXCEPT ![l] = Assistant(nextId .. nextId + n - 1)]
        /\ after' = [after EXCEPT ![l] = IF n = 0 THEN "ready" ELSE "check"]
  BY DEF ModelAnswers
<1>4. nextId \in Nat /\ n \in Nat
  BY <1>1, BudgetAssumption DEF StoreOK
<1>5. /\ cur'[l] = nextId /\ last'[l] = nextId + n - 1
      /\ msg'[l] = Assistant(nextId .. nextId + n - 1)
      /\ pc'[l] = "read" /\ step'[l] = 0
      /\ UNCHANGED <<requested, answered, ref>>
  BY <1>1, <1>2, <1>3 DEF RecordOK, BatchOK, ModelAnswers, At, CallsKnown, log, blobs
<1>6. \A k \in Loops : k # l => UNCHANGED Locals(k)
  BY <1>1, <1>3 DEF RecordOK, BatchOK, Locals, ModelAnswers, At
<1>7. msg'[l].role = "assistant" /\ msg'[l].calls = nextId .. nextId + n - 1
  BY <1>5 DEF Assistant
<1>8. Asking(l)' /\ ~AnswerDue(l)' /\ Due(l)' \subseteq nextId .. nextId + n - 1
  BY <1>5, <1>7 DEF Asking, AnswerDue, Recording, Due
<1>9. \A c \in Due(l)' : c \in Int /\ nextId <= c /\ c < nextId'
  BY <1>3, <1>4, <1>8
<1>10. CallsKnown(l)'
  <2>1. \A c \in answered : c < nextId
    BY <1>2 DEF LogKnown
  <2>2. \A c \in Due(l)' : c \notin answered
    BY <1>4, <1>9, <2>1
  <2>3. Position(l)' \in {"check", "call"} => cur'[l] <= last'[l]
    BY <1>1, <1>3, <1>4, <1>5 DEF Position, Recording, RecordOK
  <2> QED
    BY <1>4, <1>5, <1>7, <1>8, <1>9, <2>2, <2>3 DEF CallsKnown
<1>11. LogKnown'
  <2>1. \A c \in answered : c \in Nat /\ c < nextId
    BY <1>1, <1>2 DEF LogKnown, StoreOK
  <2> QED
    BY <1>2, <1>3, <1>4, <1>5, <2>1 DEF LogKnown
<1> QED
  BY <1>3, <1>4, <1>5, <1>6, <1>9, <1>10, <1>11 DEF Effect

---------------------------------------------------------------------------
(* Every step keeps the calls known and apart.                              *)

\* Nothing of what CallsInv is about changes.
LEMMA StutterKeepsCalls ==
    ASSUME CallsInv, UNCHANGED vars
    PROVE  CallsInv'
BY DEF CallsInv, CallsApart, CallsKnown, LogKnown, Due, Asking, AnswerDue, InBatch, Position,
       Recording, vars

\* One case per action: each is of one of the kinds above.
LEMMA StepKeepsCalls ==
    ASSUME TypeInv, CallsInv, NEW l \in Loops,
           StartJob(l) \/ SubmitInput(l) \/ LoopStep(l) \/ Die(l)
    PROVE  Effect(l)
<1>1. RecordOK /\ StoreOK /\ BatchOK /\ CallsKnown(l)
  BY DEF TypeInv, TypeOK, CallsInv
<1>2. CASE StartJob(l)
  BY <1>1, <1>2, MoveOn DEF StartJob, At, Places, blobs, batch, rec
<1>3. CASE SubmitInput(l)
  BY <1>3, RecordUser DEF SubmitInput, log, blobs, batch
<1>4. CASE RecordStep(l)
  BY <1>4, ReadKeepsCalls, WriteKeepsCalls, LogAnsweredKeepsCalls, LogAppendedKeepsCalls,
     LogRequestedKeepsCalls DEF RecordStep
<1>5. CASE ResumeJob(l)
  BY <1>5, MoveOn DEF ResumeJob, At, Places, blobs, batch, rec
<1>6. CASE StartTurn(l)
  BY <1>6, MoveOn DEF StartTurn, At, Places, blobs, batch, rec
<1>7. CASE SubturnsExhausted(l)
  BY <1>7, MoveOn DEF SubturnsExhausted, At, Places, blobs, batch, rec
<1>8. CASE Compact(l)
  <2>1. \E p \in {"compact", "idle"} : pc' = [pc EXCEPT ![l] = p]
    BY <1>8 DEF Compact, At
  <2> QED
    BY <1>8, <2>1, MoveOn DEF Compact, Places, blobs, log, batch
<1>9. CASE LogCompacted(l)
  BY <1>9, MoveOn DEF LogCompacted, Recorded, At, Places, log, batch
<1>10. CASE CompactionFails(l)
  BY <1>10, MoveOn DEF CompactionFails, At, Places, blobs, log, batch, rec
<1>11. CASE Request(l)
  BY <1>11, MoveOn DEF Request, At, Places, blobs, log, batch
<1>12. CASE ModelFails(l)
  BY <1>12, MoveOn DEF ModelFails, Recorded, At, Places, blobs, batch
<1>13. CASE ModelAnswers(l)
  BY <1>13, ModelAnswersKeepsCalls
<1>14. CASE CheckBudget(l)
  <2>1. pc[l] = "check" /\ cur[l] <= last[l]
    BY <1>1, <1>14 DEF CheckBudget, CallsKnown, Position, Recording
  <2>2. \E p \in {"rest", "call"} : pc' = [pc EXCEPT ![l] = p]
    BY <1>14 DEF CheckBudget, At
  <2> QED
    BY <1>14, <2>1, <2>2, MoveOn DEF CheckBudget, Places, blobs, log, rec
<1>15. CASE RejectCall(l)
  <2>1. pc[l] = "call" /\ cur[l] <= last[l]
    BY <1>1, <1>15 DEF RejectCall, CallsKnown, Position, Recording
  <2>2. AnswerCall(l, NextCall(l)) /\ NextCall(l) \in {"call", "ready"}
        /\ (NextCall(l) = "call" => cur[l] < last[l])
    BY <1>15 DEF RejectCall, NextCall
  <2> QED
    BY <1>15, <2>1, <2>2, RecordAnswer DEF RejectCall, blobs, log
<1>16. CASE ExecuteCall(l)
  <2>1. pc[l] = "call" /\ cur[l] <= last[l]
    BY <1>1, <1>16 DEF ExecuteCall, CallsKnown, Position, Recording
  <2>2. AnswerCall(l, "count")
    BY <1>16 DEF ExecuteCall, AfterAnswer
  <2> QED
    BY <1>16, <2>1, <2>2, RecordAnswer DEF ExecuteCall, blobs
<1>17. CASE CountCall(l)
  <2>1. \E p \in {"rest", "call", "ready"} :
          pc' = [pc EXCEPT ![l] = p] /\ (p = "call" => cur[l] <= last[l])
    <3>1. /\ AfterCount(l) \in {"rest", "call", "ready"}
          /\ AfterCount(l) = "call" => cur[l] <= last[l]
      BY DEF AfterCount
    <3> QED
      BY <1>17, <3>1, Zenon DEF CountCall, At
  <2> QED
    BY <1>17, <2>1, MoveOn DEF CountCall, Places, blobs, batch, rec
<1>18. CASE SkipCall(l)
  BY <1>18, RecordAnswer DEF SkipCall, blobs, log
<1>19. CASE LeaveBatch(l)
  <2>1. pc[l] = "rest" /\ UNCHANGED <<requested, answered, nextId, cur, last, ref>>
    BY <1>19 DEF LeaveBatch, blobs, batch
  <2>2. CASE Record(l, User, "ready")
    BY <2>1, <2>2, RecordUser
  <2>3. CASE rec' = rec /\ \E p \in {"ready", "idle"} : pc' = [pc EXCEPT ![l] = p]
    BY <2>1, <2>3, MoveOn DEF rec, Places
  <2> QED
    BY <1>19, <2>2, <2>3 DEF LeaveBatch, At
<1>20. CASE Die(l)
  <2>1. /\ pc' = [pc EXCEPT ![l] = "idle"] /\ step' = [step EXCEPT ![l] = 0]
        /\ UNCHANGED <<requested, answered, nextId, cur, last, msg, after, ref>>
    BY <1>20 DEF Die, Recorded, At, blobs, log, batch
  <2> QED
    BY <2>1, MoveOn DEF Places
<1> QED
  BY <1>2, <1>3, <1>4, <1>5, <1>6, <1>7, <1>8, <1>9, <1>10, <1>11, <1>12, <1>13, <1>14, <1>15,
     <1>16, <1>17, <1>18, <1>19, <1>20 DEF LoopStep, SessionStep, ModelStep, CallStep

\* No loop has a call due at first.
LEMMA CallsInit == Init => CallsInv
<1> SUFFICES ASSUME Init PROVE CallsInv
  OBVIOUS
<1>1. \A l \in Loops : Due(l) = {} /\ ~AnswerDue(l) /\ ~Asking(l) /\ ~InBatch(l)
  BY DEF Init, Due, AnswerDue, Asking, InBatch, Position, Recording
<1>2. \A l \in Loops : CallsKnown(l)
  BY <1>1 DEF Init, CallsKnown, Position, Recording
<1> QED
  BY <1>1, <1>2 DEF Init, CallsInv, CallsApart, LogKnown

\* For any number of loops side by side, with or without faults: the calls
\* that the loops have still to answer are entered in the log, unanswered,
\* and no two loops have one in common.
THEOREM CallsInvariant == Spec => []CallsInv
<1>1. TypeInv /\ TypeInv' /\ CallsInv /\ [Next]_vars => CallsInv'
  <2> SUFFICES ASSUME TypeInv, TypeInv', CallsInv, [Next]_vars PROVE CallsInv'
    OBVIOUS
  <2>1. CASE UNCHANGED vars
    BY <2>1, StutterKeepsCalls
  <2>2. ASSUME NEW l \in Loops, StartJob(l) \/ SubmitInput(l) \/ LoopStep(l) \/ Die(l)
        PROVE  CallsInv'
    BY <2>2, StepKeepsCalls, EffectKeepsCalls
  <2> QED
    BY <2>1, <2>2 DEF Next
<1> QED
  BY CallsInit, TypesHold, <1>1, PTL DEF Spec

\* A call whose answer is due is pending by the log.
LEMMA AnswerNotRefused ==
    ASSUME TypeInv, CallsInv, NEW l \in Loops, pc[l] = "read"
    PROVE  ~Refused(l)
<1> SUFFICES ASSUME Refused(l) PROVE FALSE
  OBVIOUS
<1>1. AnswerDue(l) /\ CallsKnown(l) /\ LogKnown
  BY DEF AnswerDue, Recording, Refused, CallsInv
<1>2. msg[l].calls = {cur[l] - 1} /\ cur[l] - 1 \in requested /\ cur[l] - 1 \in Due(l)
  BY <1>1 DEF CallsKnown, Due
<1>3. cur[l] - 1 \notin answered /\ ref # "none"
  BY <1>1, <1>2 DEF CallsKnown, LogKnown
<1> QED
  BY <1>2, <1>3 DEF Refused, Pending

\* The answer to a call finds the call pending, even beside a loop that
\* overwrites the messages and whatever a crash left behind: recording a
\* tool result is never refused (provider_transcript.rs:461).
THEOREM AnswersFindTheirCalls == Spec => []AnswerFindsItsCall
<1>1. TypeInv /\ CallsInv => AnswerFindsItsCall
  BY AnswerNotRefused DEF AnswerFindsItsCall
<1> QED
  BY CallsInvariant, TypesHold, <1>1, PTL

---------------------------------------------------------------------------
(* What a completed job has still to do, when one loop runs at a time and    *)
(* nothing fails.                                                           *)

\* A step leaves every other loop at rest, or starts from a job that is not
\* completed.
LEMMA OthersRest ==
    ASSUME IInv, ~Concurrent, NEW l \in Loops, NEW k \in Loops, k # l,
           StartJob(l) \/ SubmitInput(l) \/ LoopStep(l), status' = "completed"
    PROVE  ~Running(k)'
<1>1. pc \in [Loops -> Places]
  BY DEF IInv, TypeInv, TypeOK, RecordOK
<1>2. ~StartJob(l)
  BY DEF StartJob
<1>3. ~SubmitInput(l)
  BY DEF SubmitInput, Terminal, log
<1>4. Running(l)
  <2>1. LoopStep(l)
    BY <1>2, <1>3
  <2> QED
    BY <2>1 DEF LoopStep, RecordStep, SessionStep, ModelStep, CallStep, Running, Read, Write,
       LogAnswered, LogAppended, LogRequested, ResumeJob, StartTurn, SubturnsExhausted, Compact,
       LogCompacted, CompactionFails, Request, ModelFails, ModelAnswers, CheckBudget, RejectCall,
       ExecuteCall, CountCall, SkipCall, LeaveBatch
<1>5. ~Running(k)
  BY <1>4 DEF IInv, BudgetInv, OneLoop
<1>6. pc'[k] = pc[k]
  <2>1. \E p : pc' = [pc EXCEPT ![l] = p] \/ pc' = pc
    <3>1. LoopStep(l)
      BY <1>2, <1>3
    <3> QED
      BY <3>1 DEF LoopStep, RecordStep, SessionStep, ModelStep, CallStep, Read, Write,
         LogAnswered, LogAppended, LogRequested, ResumeJob, StartTurn, SubturnsExhausted, Compact,
         LogCompacted, CompactionFails, Request, ModelFails, ModelAnswers, CheckBudget, RejectCall,
         ExecuteCall, CountCall, SkipCall, LeaveBatch, At, Record, Recorded, AnswerCall, rec
  <2> QED
    BY <1>1, <2>1
<1> QED
  BY <1>5, <1>6 DEF Running

\* A step of a loop leaves only answers to be recorded once the job is completed.
LEMMA FinishStep ==
    ASSUME IInv, ~Concurrent, ~Faults, FinishInv, NEW l \in Loops,
           StartJob(l) \/ SubmitInput(l) \/ LoopStep(l), status' = "completed"
    PROVE  Finishing(l)'
<1> USE DEF Finishing
<1>1. RecordOK /\ BatchOK /\ Finishing(l) /\ Continues(l)
  BY DEF IInv, TypeInv, TypeOK, FinishInv
<1>2. CASE StartJob(l)
  BY <1>2 DEF StartJob
<1>3. CASE SubmitInput(l)
  BY <1>3 DEF SubmitInput, Terminal, log
<1>4. CASE RecordStep(l)
  <2>1. status' = status /\ mode' = mode /\ after' = after /\ Recording(l)
    BY <1>4 DEF RecordStep, Read, Write, LogAnswered, LogAppended, LogRequested, Recorded,
       Recording, log, batch, rec
  <2>2. Position(l) = after[l] /\ Running(l)
    BY <2>1 DEF Position, Running, Recording
  <2>3. pc'[l] \in {after[l], "idle", "write", "log"}
    BY <1>1, <1>4, <2>1 DEF RecordStep, Read, Write, LogAnswered, LogAppended, LogRequested,
       Recorded, Recording, At, RecordOK
  <2> QED
    BY <1>1, <2>1, <2>2, <2>3 DEF Position, Running, Recording
<1>5. CASE SessionStep(l)
  BY <1>1, <1>5 DEF SessionStep, ResumeJob, StartTurn, SubturnsExhausted, At, Position, Running,
     Recording, RecordOK, Terminal
<1>6. CASE ModelStep(l)
  BY <1>1, <1>6 DEF ModelStep, Compact, LogCompacted, CompactionFails, Request, ModelFails,
     ModelAnswers, Recorded, At, Position, Running, Recording, RecordOK, log
<1>7. CASE CheckBudget(l) \/ RejectCall(l)
  BY <1>1, <1>7 DEF CheckBudget, RejectCall, Position, Running, Recording, RecordOK, log
<1>8. CASE ExecuteCall(l)
  <2>1. status # "completed"
    BY <1>1, <1>8 DEF ExecuteCall, Position, Running, Recording
  <2>2. mode' = [mode EXCEPT ![l] = "finish"]
    BY <1>8, <2>1 DEF ExecuteCall
  <2>3. pc'[l] = "read" /\ after'[l] = "count"
    BY <1>1, <1>8 DEF ExecuteCall, AnswerCall, AfterAnswer, Record, At, RecordOK
  <2> QED
    BY <1>1, <2>2, <2>3 DEF BatchOK, Position, Recording
<1>9. CASE CountCall(l)
  <2>1. status = "completed" /\ mode' = mode /\ mode[l] = "finish"
    BY <1>1, <1>9 DEF CountCall, batch, Running
  <2>2. pc' = [pc EXCEPT ![l] = "rest"]
    <3>1. AfterCount(l) = "rest"
      BY <2>1 DEF AfterCount
    <3> QED
      BY <1>9, <3>1, Zenon DEF CountCall, At
  <2> QED
    BY <1>1, <2>1, <2>2 DEF RecordOK, Position, Recording
<1>10. CASE SkipCall(l)
  <2>1. status = "completed" /\ mode' = mode /\ mode[l] = "finish"
    BY <1>1, <1>10 DEF SkipCall, log, Running
  <2>2. pc'[l] = "read" /\ after'[l] = "rest"
    BY <1>1, <1>10 DEF SkipCall, AnswerCall, Record, At, RecordOK
  <2> QED
    BY <2>1, <2>2 DEF Position, Recording
<1>11. CASE LeaveBatch(l)
  <2>1. pc[l] = "rest" /\ status = "completed"
    BY <1>11 DEF LeaveBatch
  <2>2. mode[l] = "finish"
    BY <1>1, <2>1 DEF Running
  <2>3. pc'[l] = "idle"
    BY <1>1, <1>11, <2>2 DEF LeaveBatch, At, RecordOK
  <2> QED
    BY <2>3 DEF Running
<1> QED
  BY <1>2, <1>3, <1>4, <1>5, <1>6, <1>7, <1>8, <1>9, <1>10, <1>11 DEF LoopStep, CallStep

\* When one loop runs at a time and nothing fails, a call that completes the
\* job is the last thing its loop does but for answers: no further request,
\* turn or tool call (run_provider_tool_call_loop, job_resume_is_terminal).
THEOREM CompletionLast == ~Concurrent /\ ~Faults => (Spec => []CompletionIsLast)
<1> SUFFICES ASSUME ~Concurrent, ~Faults PROVE Spec => []CompletionIsLast
  OBVIOUS
<1>1. Init => FinishInv
  BY DEF Init, FinishInv, Finishing
<1>2. IInv /\ FinishInv /\ [Next]_vars => FinishInv'
  <2> SUFFICES ASSUME IInv, FinishInv, [Next]_vars, NEW k \in Loops, status' = "completed"
               PROVE  Finishing(k)'
    BY DEF FinishInv, Finishing
  <2>1. CASE UNCHANGED vars
    BY <2>1 DEF FinishInv, Finishing, Running, Position, Recording, vars
  <2>2. ASSUME NEW l \in Loops, StartJob(l) \/ SubmitInput(l) \/ LoopStep(l)
        PROVE  Finishing(k)'
    <3>1. CASE k = l
      BY <2>2, <3>1, FinishStep
    <3>2. CASE k # l
      BY <2>2, <3>2, OthersRest DEF Finishing
    <3> QED
      BY <3>1, <3>2
  <2>3. \A l \in Loops : ~Die(l)
    BY DEF Die
  <2> QED
    BY <2>1, <2>2, <2>3 DEF Next
<1>3. FinishInv => CompletionIsLast
  <2> SUFFICES ASSUME FinishInv, status = "completed", NEW l \in Loops,
                      pc[l] \in {"turn", "ready", "compact", "request", "asked", "check", "call"}
               PROVE  FALSE
    BY DEF CompletionIsLast
  <2> QED
    BY DEF FinishInv, Finishing, Running, Position, Recording
<1> QED
  BY InductiveInvariant, <1>1, <1>2, <1>3, PTL DEF Spec

---------------------------------------------------------------------------
(* The budget, when loops may run side by side.                             *)

(* What the budget has to know of a loop.                                   *)
Standing(k) == <<pc[k], after[k], executed[k], cur[k], last[k]>>

\* What a step of loop l does to the budget: it takes no more to be left than
\* before, and if it counts a call, it takes one less to be left.
Shares(l) ==
    /\ \A k \in Loops : k # l => UNCHANGED Standing(k)
    /\ FitsLeft(l)'
    /\ \/ counted' = counted /\ Used(l) <= Used(l)'
       \/ /\ counted' = counted + 1 /\ Used(l)' = Used(l) + 1
          /\ Used(l) \in 0 .. MaxTotal - 1

\* The places that are left are finitely many.
LEMMA LeftIsFinite ==
    IsFiniteSet(Left) /\ Cardinality(Left) \in Nat
<1>1. MaxTotal \in Nat /\ IsFiniteSet(1 .. MaxTotal)
  BY BudgetAssumption, FS_Interval
<1>2. IsFiniteSet(Loops \X (1 .. MaxTotal))
  BY <1>1, LoopsAssumption, FS_Product
<1>3. Left \subseteq Loops \X (1 .. MaxTotal)
  BY DEF Left
<1> QED
  BY <1>2, <1>3, FS_Subset, FS_CardinalityType

\* Such a step keeps what is counted and what is left within a budget per loop.
LEMMA SharesKeep ==
    ASSUME TypeInv, TypeInv', ShareInv, NEW l \in Loops, Shares(l)
    PROVE  ShareInv'
<1>1. /\ counted \in Nat /\ counted' \in Nat /\ MaxTotal \in Nat /\ Cardinality(Loops) \in Nat
      /\ \A k \in Loops : executed[k] \in Nat /\ executed'[k] \in Nat
  BY BudgetAssumption, LoopsAssumption, FS_CardinalityType DEF TypeInv, TypeOK, StoreOK, TurnOK
<1>2. counted <= counted'
  BY <1>1 DEF Shares
<1>3. ASSUME NEW k \in Loops, k # l
      PROVE  FitsLeft(k)' /\ Used(k) <= Used(k)'
  <2>1. UNCHANGED <<pc[k], after[k], executed[k], cur[k], last[k]>>
    BY <1>3 DEF Shares, Standing
  <2>2. Position(k)' = Position(k) /\ (InTurn(k)' <=> InTurn(k)) /\ (InFlight(k)' <=> InFlight(k))
    BY <2>1 DEF Position, Recording, InTurn, InFlight
  <2>3. FitsLeft(k)
    BY DEF ShareInv
  <2> QED
    BY <1>1, <1>2, <2>1, <2>2, <2>3 DEF FitsLeft, Used
<1>4. \A k \in Loops : Used(k) \in Nat /\ Used(k)' \in Nat
  BY <1>1 DEF Used
<1>5. \A k \in Loops : Used(k) <= Used(k)'
  <2>1. Used(l) <= Used(l)'
    BY <1>4 DEF Shares
  <2> QED
    BY <1>3, <2>1
<1>6. Left' \subseteq Left
  <2> SUFFICES ASSUME NEW k \in Loops, NEW i \in 1 .. MaxTotal, Used(k)' < i
               PROVE  Used(k) < i
    BY DEF Left
  <2> QED
    BY <1>1, <1>4, <1>5
<1>7. IsFiniteSet(Left) /\ Cardinality(Left) \in Nat
  BY LeftIsFinite
<1>8. counted' + Cardinality(Left') <= counted + Cardinality(Left)
  <2>1. CASE counted' = counted
    <3>1. Cardinality(Left') <= Cardinality(Left) /\ Cardinality(Left') \in Nat
      BY <1>6, <1>7, FS_Subset, FS_CardinalityType
    <3> QED
      BY <1>1, <1>7, <2>1, <3>1
  <2>2. CASE counted' # counted
    <3>0. PICK i \in Nat : i = Used(l) + 1
      BY <1>4
    <3> DEFINE p == <<l, i>>
    <3>1. /\ counted' = counted + 1 /\ Used(l)' = i
          /\ i \in 1 .. MaxTotal
      BY <1>1, <2>2, <3>0 DEF Shares
    <3>2. p \in Left
      BY <1>4, <3>0, <3>1 DEF Left
    <3>3. p \notin Left'
      BY <3>1 DEF Left
    <3> HIDE DEF p
    <3>4. Left' \subseteq Left \ {p}
      BY <1>6, <3>3
    <3>5. IsFiniteSet(Left \ {p}) /\ Cardinality(Left \ {p}) = Cardinality(Left) - 1
      BY <1>7, <3>2, FS_RemoveElement
    <3>6. Cardinality(Left') <= Cardinality(Left \ {p}) /\ Cardinality(Left') \in Nat
      BY <3>4, <3>5, FS_Subset, FS_CardinalityType
    <3> QED
      BY <1>1, <1>7, <3>1, <3>5, <3>6
  <2> QED
    BY <2>1, <2>2
<1>9. counted' + Cardinality(Left') <= MaxTotal * Cardinality(Loops)
  <2>1. counted + Cardinality(Left) <= MaxTotal * Cardinality(Loops)
    BY DEF ShareInv
  <2>2. Cardinality(Left') \in Nat /\ MaxTotal * Cardinality(Loops) \in Nat
    <3>1. IsFiniteSet(Left')
      BY <1>6, <1>7, FS_Subset
    <3> QED
      BY <1>1, <3>1, FS_CardinalityType
  <2> HIDE DEF ShareInv
  <2> QED
    BY <1>1, <1>7, <1>8, <2>1, <2>2
<1>10. \A k \in Loops : FitsLeft(k)'
  BY <1>3 DEF Shares
<1> QED
  BY <1>9, <1>10 DEF ShareInv

---------------------------------------------------------------------------
(* The kinds of steps.                                                      *)

\* The loop goes to a place where it has no call in hand; in a turn it goes
\* on with the number it had, or begins with the one in the log.
LEMMA ShareElsewhere ==
    ASSUME TypeInv, TypeInv', ShareInv, NEW l \in Loops,
           \A k \in Loops : k # l => UNCHANGED Standing(k),
           counted' = counted,
           Position(l)' \notin {"call", "count"},
           Position(l)' = "check" => cur'[l] <= last'[l],
           InTurn(l)' => \/ InTurn(l) /\ executed'[l] = executed[l]
                         \/ executed'[l] = counted
    PROVE  Shares(l)
<1>1. counted \in Nat /\ executed[l] \in Nat /\ executed'[l] \in Nat
  BY DEF TypeInv, TypeOK, StoreOK, TurnOK
<1>2. InTurn(l) => executed[l] <= counted
  BY DEF ShareInv, FitsLeft
<1>3. FitsLeft(l)'
  BY <1>1, <1>2 DEF FitsLeft
<1>4. Used(l) <= Used(l)'
  BY <1>1, <1>2 DEF Used
<1> QED
  BY <1>3, <1>4 DEF Shares

\* The loop stays where it is, or where it is going to be.
LEMMA ShareThere ==
    ASSUME TypeInv, TypeInv', ShareInv, NEW l \in Loops,
           \A k \in Loops : k # l => UNCHANGED Standing(k),
           counted' = counted, Position(l)' = Position(l),
           UNCHANGED <<executed[l], cur[l], last[l]>>
    PROVE  Shares(l)
<1>1. counted \in Nat /\ executed[l] \in Nat
  BY DEF TypeInv, TypeOK, StoreOK, TurnOK
<1>2. InTurn(l)' <=> InTurn(l)
  BY DEF InTurn
<1>3. (InFlight(l)' <=> InFlight(l)) /\ FitsLeft(l)
  <2>1. \A k \in Loops : InFlight(k) <=> Position(k) = "count"
    BY DEF InFlight, Position, Recording
  <2>2. InFlight(l)' <=> Position(l)' = "count"
    BY DEF InFlight, Position, Recording
  <2> QED
    BY <2>1, <2>2 DEF ShareInv
<1>4. FitsLeft(l)'
  BY <1>2, <1>3 DEF FitsLeft
<1>5. Used(l) <= Used(l)'
  BY <1>1, <1>2 DEF Used
<1> QED
  BY <1>4, <1>5 DEF Shares

\* One case per action, or per actions of one kind.
LEMMA ShareStep ==
    ASSUME TypeInv, TypeInv', ShareInv, NEW l \in Loops,
           StartJob(l) \/ SubmitInput(l) \/ LoopStep(l) \/ Die(l)
    PROVE  Shares(l)
<1> USE DEF Standing
<1>a. RecordOK /\ BatchOK /\ TurnOK /\ StoreOK
  BY DEF TypeInv, TypeOK
<1>b. /\ cur[l] \in Nat /\ last[l] \in Nat /\ executed[l] \in Nat /\ counted \in Nat
      /\ MaxTotal \in Nat
  BY <1>a, BudgetAssumption DEF StoreOK, TurnOK, BatchOK
<1>c. FitsLeft(l) /\ Continues(l)
  BY DEF ShareInv, TypeInv
<1>1. CASE Read(l) \/ LogAppended(l) \/ LogRequested(l)
  <2>1. /\ pc[l] \in {"read", "log"}
        /\ UNCHANGED <<counted, executed, cur, last, after>>
    BY <1>1, Zenon DEF Read, LogAppended, LogRequested, Recorded, log, turn, batch
  <2>2. \E p \in {"write", "log", "idle", after[l]} : pc' = [pc EXCEPT ![l] = p]
    <3>1. CASE Read(l)
      BY <3>1 DEF Read, Recorded, At
    <3>2. CASE LogAppended(l) /\ ~(msg[l].role = "assistant" /\ msg[l].calls # {})
      BY <3>2 DEF LogAppended, Recorded, At
    <3>3. CASE LogAppended(l) /\ msg[l].role = "assistant" /\ msg[l].calls # {}
      <4>1. pc' = pc /\ pc[l] = "log"
        BY <3>3, Zenon DEF LogAppended
      <4> QED
        BY <1>a, <4>1 DEF RecordOK
    <3>4. CASE LogRequested(l)
      <4>1. pc[l] = "log" /\ (pc' = pc \/ pc' = [pc EXCEPT ![l] = after[l]])
        BY <3>4, Zenon DEF LogRequested, Recorded, At
      <4> QED
        BY <1>a, <4>1 DEF RecordOK
    <3> QED
      BY <1>1, <3>1, <3>2, <3>3, <3>4
  <2>3. PICK p \in {"write", "log", "idle", after[l]} : pc' = [pc EXCEPT ![l] = p]
    BY <2>2
  <2>4. pc'[l] = p /\ \A k \in Loops : k # l => pc'[k] = pc[k]
    BY <1>a, <2>3 DEF RecordOK
  <2>5. CASE p = "idle" /\ after[l] # "idle"
    BY <2>1, <2>4, <2>5, ShareElsewhere DEF Position, Recording, InTurn
  <2>6. CASE p # "idle"
    <3>1. Position(l)' = Position(l)
      BY <1>c, <2>1, <2>4, <2>6 DEF Position, Recording, Continues
    <3> QED
      BY <2>1, <2>4, <3>1, ShareThere
  <2> QED
    BY <1>c, <2>1, <2>5, <2>6 DEF Continues, Recording
<1>2. CASE Write(l) \/ LogAnswered(l)
  <2>1. /\ pc[l] \in {"write", "log"} /\ UNCHANGED <<counted, executed, cur, last, after>>
        /\ pc' = pc \/ pc' = [pc EXCEPT ![l] = "log"]
    BY <1>2 DEF Write, LogAnswered, At, log, turn, batch, rec
  <2>2. pc'[l] \in {"write", "log"} /\ \A k \in Loops : k # l => pc'[k] = pc[k]
    BY <1>a, <2>1 DEF RecordOK
  <2>3. Position(l)' = Position(l)
    BY <2>1, <2>2 DEF Position, Recording
  <2> QED
    BY <2>1, <2>2, <2>3, ShareThere
<1>3. CASE StartJob(l) \/ SubmitInput(l)
  <2>1. UNCHANGED <<counted, executed, cur, last>>
    BY <1>3 DEF StartJob, SubmitInput, log, turn, batch
  <2>2. /\ \A k \in Loops : k # l => UNCHANGED <<pc[k], after[k]>>
        /\ Position(l)' \in {"turn", "resume"}
    BY <1>a, <1>3 DEF StartJob, SubmitInput, Record, At, RecordOK, Position, Recording, rec
  <2> QED
    BY <2>1, <2>2, ShareElsewhere DEF InTurn
<1>4. CASE ResumeJob(l) \/ SubturnsExhausted(l) \/ Die(l) \/ ModelFails(l) \/ CompactionFails(l)
  <2>1. UNCHANGED <<counted, executed, cur, last, after>>
    BY <1>4, Zenon DEF ResumeJob, SubturnsExhausted, Die, ModelFails, CompactionFails, Recorded,
       log, turn, batch, rec
  <2>2. \E p \in {"turn", "idle"} : pc' = [pc EXCEPT ![l] = p]
    BY <1>4, Zenon DEF ResumeJob, SubturnsExhausted, Die, ModelFails, CompactionFails, Recorded, At
  <2>3. pc'[l] \in {"turn", "idle"} /\ \A k \in Loops : k # l => pc'[k] = pc[k]
    BY <1>a, <2>2 DEF RecordOK
  <2>4. Position(l)' \in {"turn", "idle"}
    BY <2>3 DEF Position, Recording
  <2> QED
    BY <2>1, <2>3, <2>4, ShareElsewhere DEF InTurn
<1>5. CASE StartTurn(l)
  <2>1. /\ UNCHANGED <<counted, cur, last, after>>
        /\ \/ pc' = [pc EXCEPT ![l] = "idle"] /\ executed' = executed
           \/ /\ pc' = [pc EXCEPT ![l] = "ready"]
              /\ executed' = [executed EXCEPT ![l] = counted]
    BY <1>5, Zenon DEF StartTurn, At, BudgetSeed, turn, batch, rec
  <2>2. /\ \A k \in Loops : k # l => UNCHANGED <<pc[k], executed[k]>>
        /\ pc'[l] = "idle" \/ (pc'[l] = "ready" /\ executed'[l] = counted)
    BY <1>a, <2>1 DEF RecordOK, TurnOK
  <2> QED
    BY <2>1, <2>2, ShareElsewhere DEF InTurn, Position, Recording
<1>6. CASE Compact(l) \/ LogCompacted(l) \/ Request(l) \/ ModelAnswers(l)
  <2>1. /\ UNCHANGED <<counted, executed>> /\ InTurn(l)
        /\ \A k \in Loops : k # l => UNCHANGED <<pc[k], after[k], cur[k], last[k]>>
    BY <1>a, <1>6 DEF Compact, LogCompacted, Request, ModelAnswers, Recorded, At, RecordOK, BatchOK,
       log, turn, batch, InTurn, Position, Recording
  <2>2. CASE ModelAnswers(l)
    <3>1. PICK n \in 0 .. MaxBatch :
            /\ cur' = [cur EXCEPT ![l] = nextId]
            /\ last' = [last EXCEPT ![l] = nextId + n - 1]
            /\ after' = [after EXCEPT ![l] = IF n = 0 THEN "ready" ELSE "check"]
      BY <2>2 DEF ModelAnswers
    <3>2. /\ pc'[l] = "read" /\ after'[l] = IF n = 0 THEN "ready" ELSE "check"
          /\ cur'[l] = nextId /\ last'[l] = nextId + n - 1
      BY <1>a, <2>2, <3>1 DEF ModelAnswers, At, RecordOK, BatchOK
    <3>3. Position(l)' \in {"ready", "check"} /\ (Position(l)' = "check" => cur'[l] <= last'[l])
      BY <1>a, <3>2, BudgetAssumption DEF Position, Recording, StoreOK
    <3> QED
      BY <2>1, <3>3, ShareElsewhere
  <2>3. CASE Compact(l) \/ LogCompacted(l) \/ Request(l)
    <3>1. pc'[l] \in {"idle", "compact", "request", "asked"}
      BY <1>a, <2>3 DEF Compact, LogCompacted, Request, Recorded, At, RecordOK
    <3>2. Position(l)' \notin {"call", "count", "check"}
      BY <3>1 DEF Position, Recording
    <3> QED
      BY <2>1, <3>2, ShareElsewhere
  <2> QED
    BY <1>6, <2>2, <2>3
<1>7. CASE CheckBudget(l)
  <2>1. /\ pc[l] = "check" /\ UNCHANGED <<counted, executed, cur, last, after>>
        /\ \E p \in {"rest", "call"} :
             /\ pc' = [pc EXCEPT ![l] = p]
             /\ p = "call" => ~(executed[l] + (last[l] - cur[l] + 1) > MaxTotal)
    BY <1>7, Zenon DEF CheckBudget, OverBudget, At, log, turn, rec
  <2>2. /\ \A k \in Loops : k # l => pc'[k] = pc[k]
        /\ pc'[l] \in {"rest", "call"}
        /\ pc'[l] = "call" => executed[l] + (last[l] - cur[l] + 1) <= MaxTotal
    BY <1>a, <1>b, <2>1 DEF RecordOK
  <2>3. CASE pc'[l] = "rest"
    BY <2>1, <2>2, <2>3, ShareElsewhere DEF InTurn, Position, Recording
  <2>4. CASE pc'[l] = "call"
    <3>1. FitsLeft(l)'
      <4>1. InTurn(l) /\ ~InFlight(l)' /\ executed[l] <= counted
        BY <1>c, <2>1, <2>4 DEF InTurn, Position, Recording, InFlight, FitsLeft
      <4>2. Position(l) = "check" /\ Position(l)' = "call"
        BY <2>1, <2>4 DEF Position, Recording
      <4>3. cur[l] <= last[l]
        BY <1>c, <4>2 DEF FitsLeft
      <4> QED
        BY <1>b, <2>1, <2>2, <2>4, <4>1, <4>2, <4>3 DEF FitsLeft
    <3>2. Used(l)' = Used(l)
      BY <2>1, <2>4 DEF Used, InTurn, Position, Recording
    <3> QED
      BY <1>b, <2>1, <2>2, <3>1, <3>2 DEF Shares, Used
  <2> QED
    BY <2>2, <2>3, <2>4
<1>8. CASE RejectCall(l) \/ ExecuteCall(l) \/ SkipCall(l)
  <2>1. /\ UNCHANGED <<counted, executed, last>>
        /\ pc' = [pc EXCEPT ![l] = "read"] /\ cur' = [cur EXCEPT ![l] = @ + 1]
        /\ \/ /\ pc[l] = "rest" /\ after' = [after EXCEPT ![l] = "rest"]
           \/ /\ pc[l] = "call"
              /\ \/ after' = [after EXCEPT ![l] = NextCall(l)]
                 \/ after' = [after EXCEPT ![l] = "count"]
    BY <1>8, Zenon DEF RejectCall, ExecuteCall, SkipCall, AnswerCall, AfterAnswer, Record, At,
                       log, turn
  <2>2. /\ \A k \in Loops : k # l => UNCHANGED <<pc[k], after[k], executed[k], cur[k], last[k]>>
        /\ pc'[l] = "read" /\ cur'[l] = cur[l] + 1
        /\ \/ pc[l] = "rest" /\ after'[l] = "rest"
           \/ pc[l] = "call" /\ after'[l] \in {NextCall(l), "count"}
    BY <1>a, <2>1 DEF RecordOK, BatchOK
  <2>3. Position(l)' = after'[l] /\ Position(l) = pc[l] /\ (InFlight(l)' <=> after'[l] = "count")
        /\ ~InFlight(l)
    BY <2>2 DEF Position, Recording, InFlight
  <2>4. InTurn(l) /\ InTurn(l)' /\ Used(l)' = Used(l)
    BY <2>1, <2>2, <2>3 DEF InTurn, Used, NextCall
  <2>5. CASE after'[l] \in {"rest", "ready"}
    BY <2>1, <2>2, <2>3, <2>4, <2>5, ShareElsewhere
  <2>6. CASE after'[l] \in {"call", "count"}
    <3>1. /\ pc[l] = "call" /\ cur[l] <= last[l]
          /\ executed[l] + (last[l] - cur[l] + 1) <= MaxTotal /\ executed[l] <= counted
      BY <1>b, <1>c, <2>2, <2>3, <2>4, <2>6 DEF FitsLeft
    <3>2. after'[l] = "call" => cur[l] < last[l]
      BY <2>2, <3>1 DEF NextCall
    <3>3. FitsLeft(l)'
      BY <1>b, <2>1, <2>2, <2>3, <2>4, <2>6, <3>1, <3>2 DEF FitsLeft
    <3> QED
      BY <1>b, <2>1, <2>2, <2>4, <3>3 DEF Shares, Used
  <2> QED
    BY <2>2, <2>5, <2>6 DEF NextCall
<1>9. CASE CountCall(l)
  <2>1. /\ pc[l] = "count" /\ UNCHANGED <<after, cur, last>>
        /\ pc' = [pc EXCEPT ![l] = AfterCount(l)]
        /\ counted' = counted + 1
        /\ executed' = [executed EXCEPT ![l] = @ + 1]
    BY <1>9, Zenon DEF CountCall, At, batch, rec
  <2>2. /\ pc'[l] = AfterCount(l) /\ executed'[l] = executed[l] + 1
        /\ \A k \in Loops : k # l => UNCHANGED <<pc[k], executed[k]>>
    BY <1>a, <2>1 DEF RecordOK, TurnOK
  <2>3. AfterCount(l) \in {"rest", "call", "ready"} /\ (AfterCount(l) = "call" => cur[l] <= last[l])
    BY DEF AfterCount
  <2>4. /\ Position(l) = "count" /\ InFlight(l) /\ Position(l)' = AfterCount(l) /\ ~InFlight(l)'
        /\ InTurn(l) /\ InTurn(l)'
    BY <2>1, <2>2, <2>3 DEF Position, Recording, InFlight, InTurn
  <2>5. /\ cur[l] <= last[l] + 1 /\ executed[l] <= counted
        /\ executed[l] + (last[l] - cur[l] + 1) + 1 <= MaxTotal
    BY <1>c, <2>4 DEF FitsLeft
  <2>6. FitsLeft(l)'
    BY <1>b, <2>1, <2>2, <2>3, <2>4, <2>5 DEF FitsLeft
  <2> QED
    BY <1>b, <2>1, <2>2, <2>4, <2>5, <2>6 DEF Shares, Used
<1>10. CASE LeaveBatch(l)
  <2>1. /\ pc[l] = "rest" /\ UNCHANGED <<counted, executed, cur, last>>
    BY <1>10 DEF LeaveBatch, turn, batch
  <2>2. /\ \A k \in Loops : k # l => UNCHANGED <<pc[k], after[k]>>
        /\ pc'[l] \in {"ready", "idle"} \/ (pc'[l] = "read" /\ after'[l] = "ready")
    BY <1>a, <1>10 DEF LeaveBatch, Record, At, RecordOK, rec
  <2>3. Position(l)' \in {"ready", "idle"} /\ InTurn(l)
    BY <2>1, <2>2 DEF Position, Recording, InTurn
  <2> QED
    BY <2>1, <2>2, <2>3, ShareElsewhere DEF InTurn
<1> QED
  BY <1>1, <1>2, <1>3, <1>4, <1>5, <1>6, <1>7, <1>8, <1>9, <1>10
     DEF LoopStep, RecordStep, SessionStep, ModelStep, CallStep

\* At first every loop has its whole budget left.
LEMMA ShareInit == Init => ShareInv
<1> SUFFICES ASSUME Init PROVE ShareInv
  OBVIOUS
<1>1. counted = 0 /\ \A l \in Loops : executed[l] = 0 /\ Position(l) = "idle"
  BY DEF Init, Position, Recording
<1>2. \A l \in Loops : FitsLeft(l) /\ Used(l) = 0
  BY <1>1 DEF FitsLeft, InTurn, Used
<1>3. MaxTotal \in Nat /\ IsFiniteSet(1 .. MaxTotal) /\ Cardinality(1 .. MaxTotal) = MaxTotal
  BY BudgetAssumption, FS_Interval
<1>4. Left = Loops \X (1 .. MaxTotal)
  BY <1>2, <1>3 DEF Left
<1>5. Cardinality(Left) = Cardinality(Loops) * MaxTotal /\ Cardinality(Loops) \in Nat
  BY <1>3, <1>4, LoopsAssumption, FS_Product, FS_CardinalityType
<1>6. counted + Cardinality(Left) <= MaxTotal * Cardinality(Loops)
  BY <1>1, <1>3, <1>5
<1> QED
  BY <1>2, <1>6 DEF ShareInv

\* With any number of loops side by side, with or without faults, the calls
\* counted stay within one budget per loop: a loop takes the number in the log
\* for its own, so that what is left to it can only be overstated by calls of
\* others (provider_tool_calls_executed_for_task).
THEOREM BudgetShared == Spec => []BudgetPerLoop
<1>1. TypeInv /\ TypeInv' /\ ShareInv /\ [Next]_vars => ShareInv'
  <2> SUFFICES ASSUME TypeInv, TypeInv', ShareInv, [Next]_vars PROVE ShareInv'
    OBVIOUS
  <2>1. CASE UNCHANGED vars
    BY <2>1 DEF vars, ShareInv, Left, Used, FitsLeft, InTurn, InFlight, Position, Recording
  <2>2. ASSUME NEW l \in Loops, StartJob(l) \/ SubmitInput(l) \/ LoopStep(l) \/ Die(l)
        PROVE  ShareInv'
    BY <2>2, ShareStep, SharesKeep
  <2> QED
    BY <2>1, <2>2 DEF Next
<1>2. TypeInv /\ ShareInv => BudgetPerLoop
  <2> SUFFICES ASSUME TypeInv, ShareInv PROVE BudgetPerLoop
    OBVIOUS
  <2>1. counted \in Nat /\ MaxTotal \in Nat /\ Cardinality(Loops) \in Nat
    BY BudgetAssumption, LoopsAssumption, FS_CardinalityType DEF TypeInv, TypeOK, StoreOK
  <2>2. MaxTotal * Cardinality(Loops) \in Nat
    BY <2>1
  <2> QED
    BY <2>1, <2>2, LeftIsFinite DEF ShareInv, BudgetPerLoop
<1> QED
  BY ShareInit, TypesHold, <1>1, <1>2, PTL DEF Spec
=============================================================================
