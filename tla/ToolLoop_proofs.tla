-------------------------- MODULE ToolLoop_proofs --------------------------
(***************************************************************************)
(* Proofs about ToolLoop for any budgets, number of loops, calls in an      *)
(* answer and inputs.                                                       *)
(***************************************************************************)
EXTENDS ToolLoopInv, SequenceTheorems, FiniteSetTheorems, WellFoundedInduction, TLAPS

---------------------------------------------------------------------------
(* What a compaction keeps.                                                 *)

\* A nonempty set of numbers up to n has a largest one.
LEMMA LargestExists ==
    ASSUME NEW n \in Nat, NEW S, S \subseteq 1 .. n, S # {}
    PROVE  \E s \in S : \A t \in S : t <= s
<1> DEFINE Above(t) == {u \in S : u >= t}
           Tails    == {Above(t) : t \in S}
<1>1. Tails \subseteq FiniteSubsetsOf(1 .. n)
  <2>1. IsFiniteSet(1 .. n)
    BY FS_Interval
  <2>2. \A t \in S : Above(t) \subseteq 1 .. n /\ IsFiniteSet(Above(t))
    BY <2>1, FS_Subset
  <2> QED
    BY <2>2 DEF FiniteSubsetsOf
<1>2. \E A \in Tails : \A B \in Tails : ~(<<B, A>> \in StrictSubsetOrdering(1 .. n))
  <2>1. Tails # {}
    OBVIOUS
  <2> DEFINE R == StrictSubsetOrdering(1 .. n)
             F == FiniteSubsetsOf(1 .. n)
  <2>2. IsWellFoundedOn(R, F)
    BY FS_StrictSubsetOrderingWellFounded
  <2>3. Tails \subseteq F
    BY <1>1
  <2> HIDE DEF Tails, R, F
  <2>4. \E A \in Tails : \A B \in Tails : ~(<<B, A>> \in R)
    BY <2>1, <2>2, <2>3, WFMin
  <2> QED
    BY <2>4 DEF R
<1>3. PICK s \in S : \A B \in Tails : ~(<<B, Above(s)>> \in StrictSubsetOrdering(1 .. n))
  BY <1>2
<1>4. ASSUME NEW t \in S, t > s
      PROVE  FALSE
  <2> s \in S /\ S \subseteq Nat
    BY <1>3
  <2>1. /\ \A u \in S : u >= t => u >= s
        /\ s >= s /\ ~(s >= t)
    BY <1>4
  <2>2. <<Above(t), Above(s)>> \in StrictSubsetOrdering(1 .. n)
    <3>1. Above(t) \subseteq Above(s) /\ s \in Above(s) /\ s \notin Above(t)
      BY <2>1
    <3>2. Above(s) \subseteq 1 .. n
      OBVIOUS
    <3> HIDE DEF Above
    <3> QED
      BY <3>1, <3>2 DEF StrictSubsetOrdering
  <2> QED
    BY <1>3, <2>2
<1> QED
  <2> S \subseteq Nat /\ s \in S
    BY <1>3
  <2> QED
    BY <1>4

\* Where the live suffix starts: inside the transcript, without a call cut
\* off from its answer (live_suffix_start_index).
LEMMA LiveSuffixStartKeepsCalls ==
    ASSUME NEW ms \in Seq(Message), NEW pending, NEW keep \in Nat \ {0}
    PROVE  /\ LiveSuffixStart(ms, pending, keep) \in 1 .. Len(ms) + 1
           /\ ms # <<>> => LiveSuffixStart(ms, pending, keep) \in 1 .. Len(ms)
           /\ SuffixKeepsCalls(ms, pending, LiveSuffixStart(ms, pending, keep))
<1> DEFINE latest == IF keep < Len(ms) THEN Len(ms) - keep + 1 ELSE 1
           starts == {s \in 1 .. latest : SuffixKeepsCalls(ms, pending, s)}
<1>1. Len(ms) \in Nat /\ DOMAIN ms = 1 .. Len(ms)
  BY LenProperties
<1>2. latest \in Nat \ {0} /\ latest <= Len(ms) + 1 /\ (Len(ms) # 0 => latest <= Len(ms))
  BY <1>1
<1>3. SuffixKeepsCalls(ms, pending, 1)
  BY <1>1 DEF SuffixKeepsCalls
<1>4. 1 \in starts
  BY <1>2, <1>3
<1>5. \E s \in starts : \A t \in starts : t <= s
  <2> starts \subseteq 1 .. latest /\ starts # {}
    BY <1>4
  <2> HIDE DEF starts, latest
  <2> QED
    BY <1>2, LargestExists
<1>6. LiveSuffixStart(ms, pending, keep) \in starts
  BY <1>5 DEF LiveSuffixStart
<1>7. ms # <<>> => Len(ms) # 0
  BY <1>1, EmptySeq
<1> QED
  BY <1>1, <1>2, <1>6, <1>7

\* The replacement of a compaction is a transcript.
LEMMA ReplacementIsTranscript ==
    ASSUME NEW ms \in Seq(Message), NEW pending, NEW keep \in Nat \ {0}
    PROVE  Replacement(ms, pending, keep) \in Seq(Message)
<1> DEFINE s == LiveSuffixStart(ms, pending, keep)
<1>1. s \in Nat \ {0}
  BY LiveSuffixStartKeepsCalls
<1> HIDE DEF s
<1>2. Len(ms) \in Nat
  BY LenProperties
<1>3. \A i \in s .. Len(ms) : ms[i] \in Message
  BY <1>1, <1>2, ElementOfSeq
<1>4. SubSeq(ms, s, Len(ms)) \in Seq(Message)
  BY <1>1, <1>2, <1>3, SubSeqProperties
<1>5. <<User>> \in Seq(Message)
  BY DEF User, Message
<1> QED
  BY <1>4, <1>5, ConcatProperties DEF Replacement, s

---------------------------------------------------------------------------
(* Types.                                                                   *)

\* The messages the log names are a transcript.
LEMMA VisibleIsTranscript ==
    ASSUME TypeOK
    PROVE  Visible \in Seq(Message)
BY DEF TypeOK, StoreOK, Visible

\* Initially the types hold.
LEMMA TypeInit == Init => TypeInv
<1> SUFFICES ASSUME Init PROVE TypeInv
  OBVIOUS
<1> USE BudgetAssumption
<1>1. TypeOK
  BY DEF Init, TypeOK, StoreOK, TurnOK, BatchOK, RecordOK, Statuses, Places, Modes, Message, User
<1>2. \A l \in Loops : Continues(l) /\ HasRoom(l)
  BY DEF Init, Continues, HasRoom, Recording
<1> QED
  BY <1>1, <1>2 DEF TypeInv

\* Recording a message, and leaving a recording, keep the types.
LEMMA RecordType ==
    ASSUME RecordOK, NEW l \in Loops, NEW m \in Message, NEW then \in Places,
           Record(l, m, then)
    PROVE  RecordOK'
BY DEF RecordOK, Record, At, Places

\* A step that ends a write keeps the record of the loops.
LEMMA RecordedType ==
    ASSUME RecordOK, NEW l \in Loops, NEW p \in Places, Recorded(l, p)
    PROVE  RecordOK'
BY DEF RecordOK, Recorded, At

\* What the loop appends is a message.
LEMMA MessageTypes ==
    /\ User \in Message
    /\ \A C \in SUBSET Nat : Assistant(C) \in Message
    /\ \A c \in Nat : Tool(c) \in Message
BY DEF User, Assistant, Tool, Message

\* Every step keeps the types.
LEMMA TypeStep == TypeInv /\ [Next]_vars => TypeInv'
<1> SUFFICES ASSUME TypeInv, [Next]_vars PROVE TypeInv'
  OBVIOUS
<1> USE BudgetAssumption, EndsAssumption
<1>a. StoreOK /\ TurnOK /\ BatchOK /\ RecordOK
  BY DEF TypeInv, TypeOK
<1>b. \A k \in Loops : Continues(k) /\ HasRoom(k)
  BY DEF TypeInv
<1>0. CASE UNCHANGED vars
  BY <1>0, <1>a, <1>b
     DEF TypeInv, TypeOK, StoreOK, TurnOK, BatchOK, RecordOK, Continues, HasRoom, Recording, HasSubturn, vars
<1>1. ASSUME NEW l \in Loops, Read(l)
      PROVE  TypeInv'
  <2>1. StoreOK'
    BY <1>a, <1>b, <1>1
       DEF StoreOK, BatchOK, RecordOK, Read, Dropped, Refused, Recorded, InFlight, Pending, At, blobs, log, hist, Message, Statuses
  <2>2. TurnOK' /\ BatchOK'
    BY <1>a, <1>b, <1>1
       DEF StoreOK, TurnOK, BatchOK, Read, Dropped, Refused, Recorded, InFlight, Pending, At, turn, batch, HasRoom, HasSubturn, Modes
  <2>3. RecordOK'
    <3>1. CASE Dropped(l) \/ Refused(l)
      <4>1. (IF Dropped(l) THEN after[l] ELSE "idle") \in Places
        BY <1>a DEF RecordOK, Places
      <4> QED
        BY <1>a, <1>1, <3>1, <4>1, RecordedType DEF Read
    <3>2. CASE ~(Dropped(l) \/ Refused(l))
      <4>1. Append(Visible, msg[l]) \in Seq(Message)
        BY <1>a, VisibleIsTranscript, AppendProperties DEF TypeInv, RecordOK
      <4> QED
        BY <1>a, <1>1, <3>2, <4>1 DEF Read, RecordOK, At, Places
    <3> QED
      BY <3>1, <3>2
  <2>4. \A k \in Loops : Continues(k)' /\ HasRoom(k)'
    BY <1>a, <1>b, <1>1
       DEF TurnOK, RecordOK, Continues, HasRoom, Recording, HasSubturn, Read, Dropped, Refused, Recorded, InFlight, Pending, At, turn, rec, Places
  <2> QED
    BY <2>1, <2>2, <2>3, <2>4 DEF TypeInv, TypeOK
<1>2. ASSUME NEW l \in Loops, Write(l)
      PROVE  TypeInv'
  <2>1. StoreOK'
    BY <1>a, <1>b, <1>2
       DEF StoreOK, BatchOK, RecordOK, Write, At, blobs, log, hist, Message, Statuses
  <2>2. TurnOK' /\ BatchOK'
    BY <1>a, <1>b, <1>2
       DEF StoreOK, TurnOK, BatchOK, Write, At, turn, batch, HasRoom, HasSubturn, Modes
  <2>3. RecordOK'
    BY <1>a, <1>b, <1>2, MessageTypes
       DEF StoreOK, BatchOK, RecordOK, Write, At, rec, Places
  <2>4. \A k \in Loops : Continues(k)' /\ HasRoom(k)'
    BY <1>a, <1>b, <1>2
       DEF TurnOK, RecordOK, Continues, HasRoom, Recording, HasSubturn, Write, At, turn, rec, Places
  <2> QED
    BY <2>1, <2>2, <2>3, <2>4 DEF TypeInv, TypeOK
<1>3. ASSUME NEW l \in Loops, LogAnswered(l)
      PROVE  TypeInv'
  <2>1. StoreOK'
    BY <1>a, <1>b, <1>3
       DEF StoreOK, BatchOK, RecordOK, LogAnswered, blobs, log, hist, Message, Statuses
  <2>2. TurnOK' /\ BatchOK'
    BY <1>a, <1>b, <1>3
       DEF StoreOK, TurnOK, BatchOK, LogAnswered, turn, batch, HasRoom, HasSubturn, Modes
  <2>3. RecordOK'
    BY <1>a, <1>b, <1>3, MessageTypes
       DEF StoreOK, BatchOK, RecordOK, LogAnswered, rec, Places
  <2>4. \A k \in Loops : Continues(k)' /\ HasRoom(k)'
    BY <1>a, <1>b, <1>3
       DEF TurnOK, RecordOK, Continues, HasRoom, Recording, HasSubturn, LogAnswered, turn, rec, Places
  <2> QED
    BY <2>1, <2>2, <2>3, <2>4 DEF TypeInv, TypeOK
<1>4. ASSUME NEW l \in Loops, LogAppended(l)
      PROVE  TypeInv'
  <2>1. StoreOK'
    BY <1>a, <1>b, <1>4
       DEF StoreOK, BatchOK, RecordOK, LogAppended, At, Recorded, blobs, log, hist, Message, Statuses
  <2>2. TurnOK' /\ BatchOK'
    BY <1>a, <1>b, <1>4
       DEF StoreOK, TurnOK, BatchOK, LogAppended, At, Recorded, turn, batch, HasRoom, HasSubturn, Modes
  <2>3. RecordOK'
    <3>1. CASE msg[l].role = "assistant" /\ msg[l].calls # {}
      <4>1. step' = [step EXCEPT ![l] = 1] /\ UNCHANGED <<pc, msg, after, view>>
        BY <1>4, <3>1, Zenon DEF LogAppended
      <4> QED
        BY <1>a, <4>1 DEF RecordOK
    <3>2. CASE ~(msg[l].role = "assistant" /\ msg[l].calls # {})
      <4>1. Recorded(l, after[l]) /\ after[l] \in Places
        BY <1>a, <1>4, <3>2 DEF LogAppended, RecordOK
      <4> QED
        BY <1>a, <4>1, RecordedType
    <3> QED
      BY <3>1, <3>2
  <2>4. \A k \in Loops : Continues(k)' /\ HasRoom(k)'
    BY <1>a, <1>b, <1>4
       DEF TurnOK, RecordOK, Continues, HasRoom, Recording, HasSubturn, LogAppended, At, Recorded, turn, rec, Places
  <2> QED
    BY <2>1, <2>2, <2>3, <2>4 DEF TypeInv, TypeOK
<1>5. ASSUME NEW l \in Loops, LogRequested(l)
      PROVE  TypeInv'
  <2>1. StoreOK'
    <3>1. cur[l] + step[l] - 1 \in Nat
      BY <1>a, <1>5 DEF BatchOK, RecordOK, LogRequested
    <3>2. requested' = requested \cup {cur[l] + step[l] - 1}
      BY <1>5 DEF LogRequested
    <3> QED
      BY <1>a, <1>5, <3>1, <3>2 DEF StoreOK, LogRequested, blobs, hist
  <2>2. TurnOK' /\ BatchOK'
    BY <1>a, <1>b, <1>5
       DEF StoreOK, TurnOK, BatchOK, LogRequested, At, Recorded, turn, batch, HasRoom, HasSubturn, Modes
  <2>3. RecordOK'
    <3>1. CASE cur[l] + step[l] - 1 < last[l]
      <4>1. step' = [step EXCEPT ![l] = @ + 1] /\ UNCHANGED <<pc, msg, after, view>>
        BY <1>5, <3>1, Zenon DEF LogRequested
      <4> QED
        BY <1>a, <4>1 DEF RecordOK
    <3>2. CASE ~(cur[l] + step[l] - 1 < last[l])
      <4>1. Recorded(l, after[l]) /\ after[l] \in Places
        BY <1>a, <1>5, <3>2 DEF LogRequested, RecordOK
      <4> QED
        BY <1>a, <4>1, RecordedType
    <3> QED
      BY <3>1, <3>2
  <2>4. \A k \in Loops : Continues(k)' /\ HasRoom(k)'
    BY <1>a, <1>b, <1>5
       DEF TurnOK, RecordOK, Continues, HasRoom, Recording, HasSubturn, LogRequested, At, Recorded, turn, rec, Places
  <2> QED
    BY <2>1, <2>2, <2>3, <2>4 DEF TypeInv, TypeOK
<1>6. ASSUME NEW l \in Loops, StartJob(l)
      PROVE  TypeInv'
  <2>1. StoreOK'
    BY <1>a, <1>b, <1>6
       DEF StoreOK, BatchOK, RecordOK, StartJob, At, blobs, log, hist, Message, Statuses
  <2>2. TurnOK' /\ BatchOK'
    BY <1>a, <1>b, <1>6
       DEF StoreOK, TurnOK, BatchOK, StartJob, At, turn, batch, HasRoom, HasSubturn, Modes
  <2>3. RecordOK'
    BY <1>a, <1>b, <1>6, MessageTypes
       DEF StoreOK, BatchOK, RecordOK, StartJob, At, rec, Places
  <2>4. \A k \in Loops : Continues(k)' /\ HasRoom(k)'
    BY <1>a, <1>b, <1>6
       DEF TurnOK, RecordOK, Continues, HasRoom, Recording, HasSubturn, StartJob, At, turn, rec, Places
  <2> QED
    BY <2>1, <2>2, <2>3, <2>4 DEF TypeInv, TypeOK
<1>7. ASSUME NEW l \in Loops, SubmitInput(l)
      PROVE  TypeInv'
  <2>1. StoreOK'
    BY <1>a, <1>b, <1>7
       DEF StoreOK, BatchOK, RecordOK, SubmitInput, At, Record, User, blobs, log, hist, Message, Statuses
  <2>2. TurnOK' /\ BatchOK'
    BY <1>a, <1>b, <1>7
       DEF StoreOK, TurnOK, BatchOK, SubmitInput, At, Record, User, turn, batch, HasRoom, HasSubturn, Modes
  <2>3. RecordOK'
    <3>1. /\ pc' = [pc EXCEPT ![l] = "read"]
          /\ msg' = [msg EXCEPT ![l] = User]
          /\ after' = [after EXCEPT ![l] = "resume"]
          /\ UNCHANGED <<view, step>>
      BY <1>7 DEF SubmitInput, At, Record
    <3> QED
      BY <1>a, <3>1, MessageTypes DEF RecordOK, Places
  <2>4. \A k \in Loops : Continues(k)' /\ HasRoom(k)'
    BY <1>a, <1>b, <1>7
       DEF TurnOK, RecordOK, Continues, HasRoom, Recording, HasSubturn, SubmitInput, At, Record, User, turn, rec, Places
  <2> QED
    BY <2>1, <2>2, <2>3, <2>4 DEF TypeInv, TypeOK
<1>8. ASSUME NEW l \in Loops, ResumeJob(l)
      PROVE  TypeInv'
  <2>1. StoreOK'
    BY <1>a, <1>b, <1>8
       DEF StoreOK, BatchOK, RecordOK, ResumeJob, At, blobs, log, hist, Message, Statuses
  <2>2. TurnOK' /\ BatchOK'
    <3>1. turns' \in [Loops -> Nat]
      BY <1>a, <1>8 DEF ResumeJob, TurnOK
    <3> QED
      BY <1>a, <1>8, <3>1, Zenon DEF ResumeJob, TurnOK, BatchOK, batch
  <2>3. RecordOK'
    BY <1>a, <1>b, <1>8, MessageTypes
       DEF StoreOK, BatchOK, RecordOK, ResumeJob, At, rec, Places
  <2>4. \A k \in Loops : Continues(k)' /\ HasRoom(k)'
    BY <1>a, <1>b, <1>8
       DEF TurnOK, RecordOK, Continues, HasRoom, Recording, HasSubturn, ResumeJob, At, turn, rec, Places
  <2> QED
    BY <2>1, <2>2, <2>3, <2>4 DEF TypeInv, TypeOK
<1>9. ASSUME NEW l \in Loops, StartTurn(l)
      PROVE  TypeInv'
  <2>1. StoreOK'
    BY <1>a, <1>b, <1>9
       DEF StoreOK, BatchOK, RecordOK, StartTurn, At, BudgetSeed, blobs, log, hist, Message, Statuses
  <2>2. TurnOK' /\ BatchOK'
    <3>1. CASE MaxTurns # 0 /\ turns[l] >= MaxTurns
      BY <1>a, <1>9, <3>1 DEF StartTurn, TurnOK, BatchOK, turn, batch
    <3>2. CASE ~(MaxTurns # 0 /\ turns[l] >= MaxTurns)
      <4>1. /\ turns' = [turns EXCEPT ![l] = IF MaxTurns = 0 THEN 0 ELSE @ + 1]
            /\ executed' = [executed EXCEPT ![l] = counted]
            /\ sub' = [sub EXCEPT ![l] = 0]
            /\ success' = [success EXCEPT ![l] = FALSE]
            /\ UNCHANGED batch
        BY <1>9, <3>2, Zenon DEF StartTurn, BudgetSeed
      <4>2. /\ turns' \in [Loops -> Nat] /\ executed' \in [Loops -> Nat]
            /\ sub' \in [Loops -> 0 .. MaxSubturns]
        <5>1. (IF MaxTurns = 0 THEN 0 ELSE turns[l] + 1) \in Nat
          BY <1>a DEF TurnOK
        <5> QED
          BY <1>a, <4>1, <5>1 DEF TurnOK, StoreOK
      <4>3. success' \in [Loops -> BOOLEAN]
        BY <1>a, <4>1, Zenon DEF TurnOK
      <4> QED
        BY <1>a, <4>1, <4>2, <4>3, Zenon DEF TurnOK, BatchOK, batch
    <3> QED
      BY <3>1, <3>2
  <2>3. RecordOK'
    BY <1>a, <1>b, <1>9, MessageTypes
       DEF StoreOK, BatchOK, RecordOK, StartTurn, At, BudgetSeed, rec, Places
  <2>4. \A k \in Loops : Continues(k)' /\ HasRoom(k)'
    BY <1>a, <1>b, <1>9
       DEF TurnOK, RecordOK, Continues, HasRoom, Recording, HasSubturn, StartTurn, At, BudgetSeed, turn, rec, Places
  <2> QED
    BY <2>1, <2>2, <2>3, <2>4 DEF TypeInv, TypeOK
<1>10. ASSUME NEW l \in Loops, SubturnsExhausted(l)
      PROVE  TypeInv'
  <2>1. StoreOK'
    BY <1>a, <1>b, <1>10
       DEF StoreOK, BatchOK, RecordOK, SubturnsExhausted, At, blobs, log, hist, Message, Statuses
  <2>2. TurnOK' /\ BatchOK'
    BY <1>a, <1>b, <1>10
       DEF StoreOK, TurnOK, BatchOK, SubturnsExhausted, At, turn, batch, HasRoom, HasSubturn, Modes
  <2>3. RecordOK'
    BY <1>a, <1>b, <1>10, MessageTypes
       DEF StoreOK, BatchOK, RecordOK, SubturnsExhausted, At, rec, Places
  <2>4. \A k \in Loops : Continues(k)' /\ HasRoom(k)'
    BY <1>a, <1>b, <1>10
       DEF TurnOK, RecordOK, Continues, HasRoom, Recording, HasSubturn, SubturnsExhausted, At, turn, rec, Places
  <2> QED
    BY <2>1, <2>2, <2>3, <2>4 DEF TypeInv, TypeOK
<1>11. ASSUME NEW l \in Loops, Compact(l)
      PROVE  TypeInv'
  <2>1. StoreOK'
    BY <1>a, <1>b, <1>11
       DEF StoreOK, BatchOK, RecordOK, Compact, At, blobs, log, hist, Message, Statuses
  <2>2. TurnOK' /\ BatchOK'
    BY <1>a, <1>b, <1>11
       DEF StoreOK, TurnOK, BatchOK, Compact, At, turn, batch, HasRoom, HasSubturn, Modes
  <2>3. RecordOK'
    <3>1. Replacement(Visible, Pending, Keep) \in Seq(Message)
      BY VisibleIsTranscript, ReplacementIsTranscript DEF TypeInv
    <3> QED
      BY <1>a, <1>11, <3>1 DEF Compact, RecordOK, At, Places
  <2>4. \A k \in Loops : Continues(k)' /\ HasRoom(k)'
    BY <1>a, <1>b, <1>11
       DEF TurnOK, RecordOK, Continues, HasRoom, Recording, HasSubturn, Compact, At, turn, rec, Places
  <2> QED
    BY <2>1, <2>2, <2>3, <2>4 DEF TypeInv, TypeOK
<1>12. ASSUME NEW l \in Loops, LogCompacted(l)
      PROVE  TypeInv'
  <2>1. StoreOK'
    BY <1>a, <1>b, <1>12
       DEF StoreOK, BatchOK, RecordOK, LogCompacted, At, Recorded, blobs, log, hist, Message, Statuses
  <2>2. TurnOK' /\ BatchOK'
    BY <1>a, <1>b, <1>12
       DEF StoreOK, TurnOK, BatchOK, LogCompacted, At, Recorded, turn, batch, HasRoom, HasSubturn, Modes
  <2>3. RecordOK'
    BY <1>a, <1>b, <1>12, MessageTypes
       DEF StoreOK, BatchOK, RecordOK, LogCompacted, At, Recorded, rec, Places
  <2>4. \A k \in Loops : Continues(k)' /\ HasRoom(k)'
    BY <1>a, <1>b, <1>12
       DEF TurnOK, RecordOK, Continues, HasRoom, Recording, HasSubturn, LogCompacted, At, Recorded, turn, rec, Places
  <2> QED
    BY <2>1, <2>2, <2>3, <2>4 DEF TypeInv, TypeOK
<1>13. ASSUME NEW l \in Loops, CompactionFails(l)
      PROVE  TypeInv'
  <2>1. StoreOK'
    BY <1>a, <1>b, <1>13
       DEF StoreOK, BatchOK, RecordOK, CompactionFails, At, blobs, log, hist, Message, Statuses
  <2>2. TurnOK' /\ BatchOK'
    BY <1>a, <1>b, <1>13
       DEF StoreOK, TurnOK, BatchOK, CompactionFails, At, turn, batch, HasRoom, HasSubturn, Modes
  <2>3. RecordOK'
    BY <1>a, <1>b, <1>13, MessageTypes
       DEF StoreOK, BatchOK, RecordOK, CompactionFails, At, rec, Places
  <2>4. \A k \in Loops : Continues(k)' /\ HasRoom(k)'
    BY <1>a, <1>b, <1>13
       DEF TurnOK, RecordOK, Continues, HasRoom, Recording, HasSubturn, CompactionFails, At, turn, rec, Places
  <2> QED
    BY <2>1, <2>2, <2>3, <2>4 DEF TypeInv, TypeOK
<1>14. ASSUME NEW l \in Loops, Request(l)
      PROVE  TypeInv'
  <2>1. StoreOK'
    BY <1>a, <1>b, <1>14
       DEF StoreOK, BatchOK, RecordOK, Request, At, blobs, log, hist, Message, Statuses
  <2>2. TurnOK' /\ BatchOK'
    BY <1>a, <1>b, <1>14
       DEF StoreOK, TurnOK, BatchOK, Request, At, turn, batch, HasRoom, HasSubturn, Modes
  <2>3. RecordOK'
    <3>1. Visible \in Seq(Message)
      BY VisibleIsTranscript DEF TypeInv
    <3> QED
      BY <1>a, <1>14, <3>1 DEF Request, RecordOK, At, Places
  <2>4. \A k \in Loops : Continues(k)' /\ HasRoom(k)'
    BY <1>a, <1>b, <1>14
       DEF TurnOK, RecordOK, Continues, HasRoom, Recording, HasSubturn, Request, At, turn, rec, Places
  <2> QED
    BY <2>1, <2>2, <2>3, <2>4 DEF TypeInv, TypeOK
<1>15. ASSUME NEW l \in Loops, ModelFails(l)
      PROVE  TypeInv'
  <2>1. StoreOK'
    BY <1>a, <1>b, <1>15
       DEF StoreOK, BatchOK, RecordOK, ModelFails, At, Recorded, blobs, log, hist, Message, Statuses
  <2>2. TurnOK' /\ BatchOK'
    BY <1>a, <1>b, <1>15
       DEF StoreOK, TurnOK, BatchOK, ModelFails, At, Recorded, turn, batch, HasRoom, HasSubturn, Modes
  <2>3. RecordOK'
    BY <1>a, <1>b, <1>15, MessageTypes
       DEF StoreOK, BatchOK, RecordOK, ModelFails, At, Recorded, rec, Places
  <2>4. \A k \in Loops : Continues(k)' /\ HasRoom(k)'
    BY <1>a, <1>b, <1>15
       DEF TurnOK, RecordOK, Continues, HasRoom, Recording, HasSubturn, ModelFails, At, Recorded, turn, rec, Places
  <2> QED
    BY <2>1, <2>2, <2>3, <2>4 DEF TypeInv, TypeOK
<1>16. ASSUME NEW l \in Loops, ModelAnswers(l)
      PROVE  TypeInv'
  <2>1. StoreOK'
    BY <1>a, <1>b, <1>16
       DEF StoreOK, BatchOK, RecordOK, ModelAnswers, At, Assistant, blobs, log, hist, Message, Statuses
  <2>2. TurnOK' /\ BatchOK'
    BY <1>a, <1>b, <1>16
       DEF StoreOK, TurnOK, BatchOK, ModelAnswers, At, Assistant, turn, batch, HasRoom, HasSubturn, Modes
  <2>3. RecordOK'
    BY <1>a, <1>b, <1>16, MessageTypes
       DEF StoreOK, BatchOK, RecordOK, ModelAnswers, At, Assistant, rec, Places
  <2>4. \A k \in Loops : Continues(k)' /\ HasRoom(k)'
    BY <1>a, <1>b, <1>16
       DEF TurnOK, RecordOK, Continues, HasRoom, Recording, HasSubturn, ModelAnswers, At, Assistant, turn, rec, Places
  <2> QED
    BY <2>1, <2>2, <2>3, <2>4 DEF TypeInv, TypeOK
<1>17. ASSUME NEW l \in Loops, CheckBudget(l)
      PROVE  TypeInv'
  <2>1. StoreOK'
    BY <1>a, <1>b, <1>17
       DEF StoreOK, BatchOK, RecordOK, CheckBudget, At, blobs, log, hist, Message, Statuses
  <2>2. TurnOK' /\ BatchOK'
    BY <1>a, <1>b, <1>17
       DEF StoreOK, TurnOK, BatchOK, CheckBudget, At, turn, batch, HasRoom, HasSubturn, Modes
  <2>3. RecordOK'
    BY <1>a, <1>b, <1>17, MessageTypes
       DEF StoreOK, BatchOK, RecordOK, CheckBudget, At, rec, Places
  <2>4. \A k \in Loops : Continues(k)' /\ HasRoom(k)'
    BY <1>a, <1>b, <1>17
       DEF TurnOK, RecordOK, Continues, HasRoom, Recording, HasSubturn, CheckBudget, At, turn, rec, Places
  <2> QED
    BY <2>1, <2>2, <2>3, <2>4 DEF TypeInv, TypeOK
<1>18. ASSUME NEW l \in Loops, RejectCall(l)
      PROVE  TypeInv'
  <2>1. StoreOK'
    BY <1>a, <1>b, <1>18
       DEF StoreOK, BatchOK, RecordOK, RejectCall, At, Record, AnswerCall, NextCall, Tool, blobs, log, hist, Message, Statuses
  <2>2. TurnOK' /\ BatchOK'
    BY <1>a, <1>b, <1>18
       DEF StoreOK, TurnOK, BatchOK, RejectCall, At, Record, AnswerCall, NextCall, Tool, turn, batch, HasRoom, HasSubturn, Modes
  <2>3. RecordOK'
    BY <1>a, <1>b, <1>18, MessageTypes
       DEF StoreOK, BatchOK, RecordOK, RejectCall, At, Record, AnswerCall, NextCall, Tool, rec, Places
  <2>4. \A k \in Loops : Continues(k)' /\ HasRoom(k)'
    BY <1>a, <1>b, <1>18
       DEF TurnOK, RecordOK, Continues, HasRoom, Recording, HasSubturn, RejectCall, At, Record, AnswerCall, NextCall, Tool, turn, rec, Places
  <2> QED
    BY <2>1, <2>2, <2>3, <2>4 DEF TypeInv, TypeOK
<1>19. ASSUME NEW l \in Loops, ExecuteCall(l)
      PROVE  TypeInv'
  <2>1. StoreOK'
    <3>1. status' \in Statuses
      <4>1. \E m : status' \in CASE m = "finish"             -> Ends
                                 [] m = "recover" /\ Faults -> Ends \cup {status}
                                 [] OTHER                   -> {status}
        BY <1>19, Zenon DEF ExecuteCall
      <4>2. Ends \subseteq Statuses /\ status \in Statuses
        BY <1>a DEF StoreOK, Statuses
      <4> QED
        BY <4>1, <4>2
    <3>2. ran' = ran + 1 /\ UNCHANGED <<blobs, requested, answered, counted, nextId, inputs, lost>>
      BY <1>19, Zenon DEF ExecuteCall
    <3> QED
      BY <1>a, <3>1, <3>2 DEF StoreOK, blobs
  <2>2. TurnOK' /\ BatchOK'
    <3>1. /\ \E m \in Modes : mode' = [mode EXCEPT ![l] = m]
          /\ cur' = [cur EXCEPT ![l] = @ + 1] /\ UNCHANGED <<last, turn>>
      BY <1>19, Zenon DEF ExecuteCall, AnswerCall, Modes
    <3>2. cur' \in [Loops -> Nat]
      BY <1>a, <3>1 DEF BatchOK
    <3> QED
      BY <1>a, <3>1, <3>2, Zenon DEF TurnOK, BatchOK, turn
  <2>3. RecordOK'
    <3>1. Record(l, Tool(cur[l]), "count")
      BY <1>19, Zenon DEF ExecuteCall, AnswerCall, AfterAnswer
    <3>2. Tool(cur[l]) \in Message
      BY <1>a, MessageTypes DEF BatchOK
    <3>3. "count" \in Places
      BY DEF Places
    <3> QED
      BY <1>a, <3>1, <3>2, <3>3, RecordType
  <2>4. \A k \in Loops : Continues(k)' /\ HasRoom(k)'
    BY <1>a, <1>b, <1>19
       DEF TurnOK, RecordOK, Continues, HasRoom, Recording, HasSubturn, ExecuteCall, At, Record, AnswerCall, AfterAnswer, Tool, turn, rec, Places
  <2> QED
    BY <2>1, <2>2, <2>3, <2>4 DEF TypeInv, TypeOK
<1>20. ASSUME NEW l \in Loops, CountCall(l)
      PROVE  TypeInv'
  <2>1. StoreOK'
    <3>1. counted' = counted + 1 /\ UNCHANGED <<blobs, requested, answered, status, nextId, inputs, hist>>
      BY <1>20, Zenon DEF CountCall
    <3> QED
      BY <1>a, <3>1 DEF StoreOK, blobs, hist
  <2>2. TurnOK' /\ BatchOK'
    <3>1. /\ executed' = [executed EXCEPT ![l] = @ + 1]
          /\ \E b \in BOOLEAN : success' = [success EXCEPT ![l] = b]
          /\ UNCHANGED <<turns, sub, batch>>
      BY <1>20, Zenon DEF CountCall
    <3>2. executed' \in [Loops -> Nat]
      BY <1>a, <3>1 DEF TurnOK
    <3>3. success' \in [Loops -> BOOLEAN]
      BY <1>a, <3>1, Zenon DEF TurnOK
    <3> QED
      BY <1>a, <3>1, <3>2, <3>3, Zenon DEF TurnOK, BatchOK, batch
  <2>3. RecordOK'
    BY <1>a, <1>b, <1>20, MessageTypes
       DEF StoreOK, BatchOK, RecordOK, CountCall, At, AfterCount, rec, Places
  <2>4. \A k \in Loops : Continues(k)' /\ HasRoom(k)'
    BY <1>a, <1>b, <1>20
       DEF TurnOK, RecordOK, Continues, HasRoom, Recording, HasSubturn, CountCall, At, AfterCount, turn, rec, Places
  <2> QED
    BY <2>1, <2>2, <2>3, <2>4 DEF TypeInv, TypeOK
<1>21. ASSUME NEW l \in Loops, SkipCall(l)
      PROVE  TypeInv'
  <2>1. StoreOK'
    BY <1>a, <1>b, <1>21
       DEF StoreOK, BatchOK, RecordOK, SkipCall, At, Record, AnswerCall, Tool, blobs, log, hist, Message, Statuses
  <2>2. TurnOK' /\ BatchOK'
    BY <1>a, <1>b, <1>21
       DEF StoreOK, TurnOK, BatchOK, SkipCall, At, Record, AnswerCall, Tool, turn, batch, HasRoom, HasSubturn, Modes
  <2>3. RecordOK'
    BY <1>a, <1>b, <1>21, MessageTypes
       DEF StoreOK, BatchOK, RecordOK, SkipCall, At, Record, AnswerCall, Tool, rec, Places
  <2>4. \A k \in Loops : Continues(k)' /\ HasRoom(k)'
    BY <1>a, <1>b, <1>21
       DEF TurnOK, RecordOK, Continues, HasRoom, Recording, HasSubturn, SkipCall, At, Record, AnswerCall, Tool, turn, rec, Places
  <2> QED
    BY <2>1, <2>2, <2>3, <2>4 DEF TypeInv, TypeOK
<1>22. ASSUME NEW l \in Loops, LeaveBatch(l)
      PROVE  TypeInv'
  <2>1. StoreOK'
    BY <1>a, <1>b, <1>22
       DEF StoreOK, BatchOK, RecordOK, LeaveBatch, At, Record, User, blobs, log, hist, Message, Statuses
  <2>2. TurnOK' /\ BatchOK'
    BY <1>a, <1>b, <1>22
       DEF StoreOK, TurnOK, BatchOK, LeaveBatch, At, Record, User, turn, batch, HasRoom, HasSubturn, Modes
  <2>3. RecordOK'
    <3>1. CASE Record(l, User, "ready")
      <4>1. "ready" \in Places
        BY DEF Places
      <4> QED
        BY <1>a, <3>1, <4>1, MessageTypes, RecordType
    <3>2. CASE UNCHANGED rec /\ \E p \in Places : At(l, p)
      BY <1>a, <3>2 DEF RecordOK, At, rec
    <3> QED
      BY <1>22, <3>1, <3>2 DEF LeaveBatch, Places
  <2>4. \A k \in Loops : Continues(k)' /\ HasRoom(k)'
    BY <1>a, <1>b, <1>22
       DEF TurnOK, RecordOK, Continues, HasRoom, Recording, HasSubturn, LeaveBatch, At, Record, User, turn, rec, Places
  <2> QED
    BY <2>1, <2>2, <2>3, <2>4 DEF TypeInv, TypeOK
<1>23. ASSUME NEW l \in Loops, Die(l)
      PROVE  TypeInv'
  <2>1. StoreOK'
    BY <1>a, <1>b, <1>23
       DEF StoreOK, BatchOK, RecordOK, Die, At, Recorded, InFlight, blobs, log, hist, Message, Statuses
  <2>2. TurnOK' /\ BatchOK'
    BY <1>a, <1>b, <1>23
       DEF StoreOK, TurnOK, BatchOK, Die, At, Recorded, InFlight, turn, batch, HasRoom, HasSubturn, Modes
  <2>3. RecordOK'
    BY <1>a, <1>b, <1>23, MessageTypes
       DEF StoreOK, BatchOK, RecordOK, Die, At, Recorded, InFlight, rec, Places
  <2>4. \A k \in Loops : Continues(k)' /\ HasRoom(k)'
    BY <1>a, <1>b, <1>23
       DEF TurnOK, RecordOK, Continues, HasRoom, Recording, HasSubturn, Die, At, Recorded, InFlight, turn, rec, Places
  <2> QED
    BY <2>1, <2>2, <2>3, <2>4 DEF TypeInv, TypeOK
<1> QED
  BY <1>0, <1>1, <1>2, <1>3, <1>4, <1>5, <1>6, <1>7, <1>8, <1>9, <1>10, <1>11, <1>12, <1>13, <1>14, <1>15, <1>16, <1>17, <1>18, <1>19, <1>20, <1>21, <1>22, <1>23
     DEF Next, LoopStep, RecordStep, SessionStep, ModelStep, CallStep

---------------------------------------------------------------------------
(* Budgets, when one loop runs at a time.                                   *)

\* What the budget invariant says of the loop that runs.
Local(l) == /\ ran = counted + lost + (IF InFlight(l) THEN 1 ELSE 0)
            /\ counted <= MaxTotal
            /\ Started(l) /\ Synced(l) /\ Fits(l)

\* While the other loops are idle, the budget invariant is that of one loop.
LEMMA LocalFromInv ==
    ASSUME BudgetInv, NEW l \in Loops, \A k \in Loops : k # l => pc[k] = "idle"
    PROVE  Local(l)
<1>1. \A k \in Loops : k # l => ~InFlight(k)
  BY DEF InFlight
<1> QED
  BY <1>1 DEF BudgetInv, Local, CallsAddUp, TaskBudgetHolds

\* While the other loops are idle, what holds of one loop is the budget invariant.
LEMMA InvFromLocal ==
    ASSUME NEW l \in Loops, Local(l)', \A k \in Loops : k # l => pc'[k] = "idle"
    PROVE  BudgetInv'
<1>1. \A k \in Loops : k # l => ~InFlight(k)'
  BY DEF InFlight
<1>2. OneLoop'
  BY DEF OneLoop, Running
<1>3. CallsAddUp'
  BY <1>1 DEF Local, CallsAddUp
<1>4. \A k \in Loops : Started(k)' /\ Synced(k)' /\ Fits(k)'
  <2>1. ASSUME NEW k \in Loops, k # l
        PROVE  Started(k)' /\ Synced(k)' /\ Fits(k)'
    BY <2>1 DEF Started, Running, Synced, Fits, Position, Recording
  <2> QED
    BY <2>1 DEF Local
<1> QED
  BY <1>2, <1>3, <1>4 DEF BudgetInv, Local, TaskBudgetHolds

\* No step of a loop that runs alone breaks the budget.
LEMMA LocalStep ==
    ASSUME ~Concurrent, TypeInv, TypeInv', NEW l \in Loops, Local(l),
           \A k \in Loops : k # l => pc[k] = "idle",
           StartJob(l) \/ SubmitInput(l) \/ LoopStep(l) \/ Die(l)
    PROVE  Local(l)' /\ \A k \in Loops : k # l => pc'[k] = "idle"
<1> USE BudgetAssumption, EndsAssumption
<1>a. StoreOK /\ TurnOK /\ BatchOK /\ RecordOK /\ StoreOK' /\ TurnOK' /\ BatchOK' /\ RecordOK'
  BY DEF TypeInv, TypeOK
<1>b. Continues(l) /\ Continues(l)'
  BY DEF TypeInv
<1>c. /\ cur[l] \in Nat /\ last[l] \in Nat /\ executed[l] \in Nat
      /\ counted \in Nat /\ ran \in Nat /\ lost \in Nat
  BY <1>a DEF StoreOK, TurnOK, BatchOK
<1>1. CASE Read(l)
  <2>1. \A k \in Loops : k # l => pc'[k] = "idle"
    BY <1>a, <1>1 DEF Read, Dropped, Refused, Recorded, At, RecordOK, rec
  <2>2. Local(l)'
    <3>1. UNCHANGED <<log, turn, batch, ran>> /\ after' = after /\ pc[l] = "read"
      BY <1>1, Zenon DEF Read, Recorded
    <3>2. \/ /\ pc'[l] = after[l] /\ lost' = lost
          \/ /\ pc'[l] = "idle" /\ lost' = IF InFlight(l) THEN lost + 1 ELSE lost
          \/ /\ pc'[l] = "write" /\ lost' = lost
      <4>1. CASE Dropped(l)
        BY <1>1, <1>a, <4>1 DEF Read, Recorded, At, RecordOK, Dropped, Refused
      <4>2. CASE ~Dropped(l) /\ Refused(l)
        BY <1>1, <1>a, <4>2 DEF Read, Recorded, At, RecordOK
      <4>3. CASE ~Dropped(l) /\ ~Refused(l)
        BY <1>1, <1>a, <4>3 DEF Read, At, RecordOK
      <4> QED
        BY <4>1, <4>2, <4>3
    <3> QED
      BY <1>b, <1>c, <3>1, <3>2
         DEF Local, InFlight, Started, Running, Synced, Fits, Position, Recording, Continues, log, turn, batch
  <2> QED
    BY <2>1, <2>2
<1>2. CASE Write(l)
  <2>1. \A k \in Loops : k # l => pc'[k] = "idle"
    BY <1>a, <1>2 DEF Write, At, RecordOK, rec
  <2>2. Local(l)'
    BY <1>a, <1>b, <1>2
       DEF Local, Write, At, InFlight, Started, Running, Synced, Fits, Position, Recording,
           Continues, StoreOK, TurnOK, BatchOK, RecordOK, log, turn, batch, rec, hist
  <2> QED
    BY <2>1, <2>2
<1>3. CASE LogAnswered(l)
  <2>1. \A k \in Loops : k # l => pc'[k] = "idle"
    BY <1>a, <1>3 DEF LogAnswered, RecordOK, rec
  <2>2. Local(l)'
    BY <1>a, <1>b, <1>3
       DEF Local, LogAnswered, InFlight, Started, Running, Synced, Fits, Position, Recording,
           Continues, StoreOK, TurnOK, BatchOK, RecordOK, log, turn, batch, rec, hist
  <2> QED
    BY <2>1, <2>2
<1>4. CASE LogAppended(l)
  <2>1. \A k \in Loops : k # l => pc'[k] = "idle"
    BY <1>a, <1>4 DEF LogAppended, At, Recorded, RecordOK, rec
  <2>2. Local(l)'
    <3>1. /\ pc[l] = "log"
          /\ pc' = pc \/ pc' = [pc EXCEPT ![l] = after[l]]
          /\ UNCHANGED <<after, counted, status, executed, cur, last, ran, lost>>
      BY <1>4, Zenon DEF LogAppended, At, Recorded, log, turn, batch, hist
    <3>2. pc'[l] = pc[l] \/ pc'[l] = after[l]
      BY <1>a, <3>1 DEF RecordOK
    <3> QED
      BY <1>b, <1>c, <3>1, <3>2
         DEF Local, InFlight, Started, Running, Synced, Fits, Position, Recording, Continues
  <2> QED
    BY <2>1, <2>2
<1>5. CASE LogRequested(l)
  <2>1. \A k \in Loops : k # l => pc'[k] = "idle"
    BY <1>a, <1>5 DEF LogRequested, At, Recorded, RecordOK, rec
  <2>2. Local(l)'
    <3>1. /\ pc[l] = "log"
          /\ pc' = pc \/ pc' = [pc EXCEPT ![l] = after[l]]
          /\ UNCHANGED <<after, counted, status, executed, cur, last, ran, lost>>
      BY <1>5, Zenon DEF LogRequested, At, Recorded, turn, batch, hist
    <3>2. pc'[l] = pc[l] \/ pc'[l] = after[l]
      BY <1>a, <3>1 DEF RecordOK
    <3> QED
      BY <1>b, <1>c, <3>1, <3>2
         DEF Local, InFlight, Started, Running, Synced, Fits, Position, Recording, Continues
  <2> QED
    BY <2>1, <2>2
<1>6. CASE StartJob(l)
  <2>1. \A k \in Loops : k # l => pc'[k] = "idle"
    BY <1>a, <1>6 DEF StartJob, At, RecordOK, rec
  <2>2. Local(l)'
    BY <1>a, <1>b, <1>6
       DEF Local, StartJob, At, InFlight, Started, Running, Synced, Fits, Position, Recording,
           Continues, StoreOK, TurnOK, BatchOK, RecordOK, log, turn, batch, rec, hist
  <2> QED
    BY <2>1, <2>2
<1>7. CASE SubmitInput(l)
  <2>1. \A k \in Loops : k # l => pc'[k] = "idle"
    BY <1>a, <1>7 DEF SubmitInput, At, Record, RecordOK, rec
  <2>2. Local(l)'
    BY <1>a, <1>b, <1>7
       DEF Local, SubmitInput, At, Record, InFlight, Started, Running, Synced, Fits, Position, Recording,
           Continues, StoreOK, TurnOK, BatchOK, RecordOK, log, turn, batch, rec, hist
  <2> QED
    BY <2>1, <2>2
<1>8. CASE ResumeJob(l)
  <2>1. \A k \in Loops : k # l => pc'[k] = "idle"
    BY <1>a, <1>8 DEF ResumeJob, At, RecordOK, rec
  <2>2. Local(l)'
    <3>1. UNCHANGED <<counted, ran, lost>>
      BY <1>8, Zenon DEF ResumeJob, hist
    <3>2. (pc'[l] = "idle" /\ status' = status) \/ (pc'[l] = "turn" /\ status' = "running")
      <4>1. CASE Terminal(status)
        <5>1. pc' = [pc EXCEPT ![l] = "idle"]
          BY <1>8, <4>1, Zenon DEF ResumeJob, At
        <5>2. status' = status
          BY <1>8, <4>1, Zenon DEF ResumeJob
        <5> QED
          BY <1>a, <5>1, <5>2 DEF RecordOK
      <4>2. CASE ~Terminal(status)
        <5>1. pc' = [pc EXCEPT ![l] = "turn"] /\ status' = "running"
          BY <1>8, <4>2, Zenon DEF ResumeJob, At
        <5> QED
          BY <1>a, <5>1 DEF RecordOK
      <4> QED
        BY <4>1, <4>2
    <3>3. pc[l] = "resume"
      BY <1>8 DEF ResumeJob
    <3>4. ~InFlight(l) /\ ~InFlight(l)' /\ Position(l)' \in {"idle", "turn"} /\ Started(l)'
      BY <3>2, <3>3 DEF InFlight, Position, Recording, Started, Running
    <3>5. Synced(l)' /\ Fits(l)'
      BY <3>4 DEF Synced, Fits
    <3> QED
      BY <1>c, <3>1, <3>4, <3>5 DEF Local
  <2> QED
    BY <2>1, <2>2
<1>9. CASE StartTurn(l)
  <2>1. \A k \in Loops : k # l => pc'[k] = "idle"
    BY <1>a, <1>9 DEF StartTurn, At, BudgetSeed, RecordOK, rec
  <2>2. Local(l)'
    <3>1. /\ pc[l] = "turn"
          /\ \/ pc' = [pc EXCEPT ![l] = "idle"]
             \/ /\ pc' = [pc EXCEPT ![l] = "ready"] /\ status' = status
                /\ executed' = [executed EXCEPT ![l] = counted]
          /\ UNCHANGED <<requested, answered, counted, batch, msg, after, ran, lost>>
      BY <1>9, Zenon DEF StartTurn, At, BudgetSeed, rec, hist
    <3>2. ~InFlight(l) /\ ~InFlight(l)' /\ Position(l)' \in {"idle", "ready"}
      BY <1>a, <3>1 DEF InFlight, Position, Recording, RecordOK
    <3>3. Started(l)'
      BY <1>a, <3>1 DEF Local, Started, Running, RecordOK
    <3>4. Synced(l)'
      <4>1. Position(l)' = "ready" => executed'[l] = counted
        BY <1>a, <3>1 DEF Position, Recording, RecordOK, TurnOK
      <4> QED
        BY <3>1, <3>2, <4>1 DEF Synced
    <3>5. Fits(l)'
      BY <3>2 DEF Fits
    <3> QED
      BY <3>1, <3>2, <3>3, <3>4, <3>5 DEF Local
  <2> QED
    BY <2>1, <2>2
<1>10. CASE SubturnsExhausted(l)
  <2>1. \A k \in Loops : k # l => pc'[k] = "idle"
    BY <1>a, <1>10 DEF SubturnsExhausted, At, RecordOK, rec
  <2>2. Local(l)'
    <3>1. /\ pc[l] = "ready"
          /\ \/ pc' = [pc EXCEPT ![l] = "idle"]
             \/ pc' = [pc EXCEPT ![l] = "turn"] /\ status' = status
          /\ UNCHANGED <<counted, executed, cur, last, after, ran, lost>>
      BY <1>10, Zenon DEF SubturnsExhausted, At, turn, batch, rec, hist
    <3> QED
      BY <1>a, <3>1
         DEF Local, InFlight, Started, Running, Synced, Fits, Position, Recording, RecordOK
  <2> QED
    BY <2>1, <2>2
<1>11. CASE Compact(l)
  <2>1. \A k \in Loops : k # l => pc'[k] = "idle"
    BY <1>a, <1>11 DEF Compact, At, RecordOK, rec
  <2>2. Local(l)'
    <3>1. /\ pc[l] = "ready"
          /\ pc' = [pc EXCEPT ![l] = "idle"] \/ pc' = [pc EXCEPT ![l] = "compact"]
          /\ UNCHANGED <<status, counted, executed, cur, last, after, ran, lost>>
      BY <1>11, Zenon DEF Compact, At, log, turn, batch, hist
    <3> QED
      BY <1>a, <3>1
         DEF Local, InFlight, Started, Running, Synced, Fits, Position, Recording, RecordOK
  <2> QED
    BY <2>1, <2>2
<1>12. CASE LogCompacted(l)
  <2>1. \A k \in Loops : k # l => pc'[k] = "idle"
    BY <1>a, <1>12 DEF LogCompacted, At, Recorded, RecordOK, rec
  <2>2. Local(l)'
    BY <1>a, <1>b, <1>12
       DEF Local, LogCompacted, At, Recorded, InFlight, Started, Running, Synced, Fits, Position, Recording,
           Continues, StoreOK, TurnOK, BatchOK, RecordOK, log, turn, batch, rec, hist
  <2> QED
    BY <2>1, <2>2
<1>13. CASE CompactionFails(l)
  <2>1. \A k \in Loops : k # l => pc'[k] = "idle"
    BY <1>a, <1>13 DEF CompactionFails, At, RecordOK, rec
  <2>2. Local(l)'
    BY <1>a, <1>b, <1>13
       DEF Local, CompactionFails, At, InFlight, Started, Running, Synced, Fits, Position, Recording,
           Continues, StoreOK, TurnOK, BatchOK, RecordOK, log, turn, batch, rec, hist
  <2> QED
    BY <2>1, <2>2
<1>14. CASE Request(l)
  <2>1. \A k \in Loops : k # l => pc'[k] = "idle"
    BY <1>a, <1>14 DEF Request, At, RecordOK, rec
  <2>2. Local(l)'
    BY <1>a, <1>b, <1>14
       DEF Local, Request, At, InFlight, Started, Running, Synced, Fits, Position, Recording,
           Continues, StoreOK, TurnOK, BatchOK, RecordOK, log, turn, batch, rec, hist
  <2> QED
    BY <2>1, <2>2
<1>15. CASE ModelFails(l)
  <2>1. \A k \in Loops : k # l => pc'[k] = "idle"
    BY <1>a, <1>15 DEF ModelFails, At, Recorded, RecordOK, rec
  <2>2. Local(l)'
    BY <1>a, <1>b, <1>15
       DEF Local, ModelFails, At, Recorded, InFlight, Started, Running, Synced, Fits, Position, Recording,
           Continues, StoreOK, TurnOK, BatchOK, RecordOK, log, turn, batch, rec, hist
  <2> QED
    BY <2>1, <2>2
<1>16. CASE ModelAnswers(l)
  <2>1. \A k \in Loops : k # l => pc'[k] = "idle"
    BY <1>a, <1>16 DEF ModelAnswers, At, RecordOK, rec
  <2>2. Local(l)'
    BY <1>a, <1>b, <1>16
       DEF Local, ModelAnswers, At, InFlight, Started, Running, Synced, Fits, Position, Recording,
           Continues, StoreOK, TurnOK, BatchOK, RecordOK, log, turn, batch, rec, hist
  <2> QED
    BY <2>1, <2>2
<1>17. CASE CheckBudget(l)
  <2>1. \A k \in Loops : k # l => pc'[k] = "idle"
    BY <1>a, <1>17 DEF CheckBudget, At, OverBudget, RecordOK, rec
  <2>2. Local(l)'
    <3>1. /\ pc[l] = "check" /\ UNCHANGED <<log, turn, cur, last, rec, hist>>
          /\ \E p \in {"rest", "call"} :
               /\ pc' = [pc EXCEPT ![l] = p]
               /\ p = "call" => ~(executed[l] + (last[l] - cur[l] + 1) > MaxTotal)
      BY <1>17, Zenon DEF CheckBudget, At, OverBudget
    <3>2. /\ pc'[l] \in {"rest", "call"}
          /\ pc'[l] = "call" => executed[l] + (last[l] - cur[l] + 1) <= MaxTotal
      BY <1>a, <1>c, <3>1 DEF RecordOK
    <3>3. UNCHANGED <<counted, executed, status, cur, last, ran, lost>>
      BY <3>1 DEF log, turn, hist
    <3> QED
      BY <1>c, <3>1, <3>2, <3>3
         DEF Local, InFlight, Started, Running, Synced, Fits, Position, Recording
  <2> QED
    BY <2>1, <2>2
<1>18. CASE RejectCall(l)
  <2>1. \A k \in Loops : k # l => pc'[k] = "idle"
    BY <1>a, <1>18 DEF RejectCall, At, Record, AnswerCall, NextCall, RecordOK, rec
  <2>2. Local(l)'
    <3>1. /\ pc[l] = "call" /\ UNCHANGED <<log, turn, last, hist>>
          /\ pc' = [pc EXCEPT ![l] = "read"]
          /\ after' = [after EXCEPT ![l] = IF cur[l] < last[l] THEN "call" ELSE "ready"]
          /\ cur' = [cur EXCEPT ![l] = @ + 1]
      BY <1>18, Zenon DEF RejectCall, AnswerCall, Record, NextCall, At
    <3>2. /\ pc'[l] = "read" /\ cur'[l] = cur[l] + 1
          /\ after'[l] = IF cur[l] < last[l] THEN "call" ELSE "ready"
      BY <1>a, <3>1 DEF RecordOK, BatchOK
    <3>3. UNCHANGED <<counted, executed, status, last, ran, lost>>
      BY <3>1 DEF log, turn, hist
    <3> QED
      BY <1>c, <3>1, <3>2, <3>3
         DEF Local, InFlight, Started, Running, Synced, Fits, Position, Recording
  <2> QED
    BY <2>1, <2>2
<1>19. CASE ExecuteCall(l)
  <2>1. \A k \in Loops : k # l => pc'[k] = "idle"
    BY <1>a, <1>19 DEF ExecuteCall, At, Record, AnswerCall, AfterAnswer, RecordOK, rec
  <2>2. Local(l)'
    <3>1. /\ pc[l] = "call" /\ UNCHANGED <<counted, turn, last, lost>>
          /\ pc' = [pc EXCEPT ![l] = "read"]
          /\ after' = [after EXCEPT ![l] = "count"]
          /\ cur' = [cur EXCEPT ![l] = @ + 1]
          /\ ran' = ran + 1
      BY <1>19, Zenon DEF ExecuteCall, AnswerCall, Record, AfterAnswer, At
    <3>2. status' # "none"
      <4>1. \E m : status' \in CASE m = "finish"             -> Ends
                                 [] m = "recover" /\ Faults -> Ends \cup {status}
                                 [] OTHER                   -> {status}
        BY <1>19, Zenon DEF ExecuteCall
      <4>2. Ends \subseteq Statuses \ {"none"} /\ status # "none"
        BY <3>1 DEF Local, Started, Running, Statuses
      <4> QED
        BY <4>1, <4>2
    <3>3. /\ pc'[l] = "read" /\ cur'[l] = cur[l] + 1 /\ after'[l] = "count"
      BY <1>a, <3>1 DEF RecordOK, BatchOK
    <3>4. UNCHANGED <<counted, executed, last, lost>> /\ ran' = ran + 1
      BY <3>1 DEF turn
    <3> QED
      BY <1>c, <3>1, <3>2, <3>3, <3>4
         DEF Local, InFlight, Started, Running, Synced, Fits, Position, Recording
  <2> QED
    BY <2>1, <2>2
<1>20. CASE CountCall(l)
  <2>1. \A k \in Loops : k # l => pc'[k] = "idle"
    BY <1>a, <1>20 DEF CountCall, At, AfterCount, RecordOK, rec
  <2>2. Local(l)'
    <3>1. /\ pc[l] = "count" /\ UNCHANGED <<status, batch, rec, hist>>
          /\ pc' = [pc EXCEPT ![l] = AfterCount(l)]
          /\ counted' = counted + 1
          /\ executed' = [executed EXCEPT ![l] = @ + 1]
      BY <1>20, Zenon DEF CountCall, At
    <3>2. AfterCount(l) \in {"rest", "call", "ready"} /\ (AfterCount(l) = "call" => cur[l] <= last[l])
      BY DEF AfterCount
    <3>3. pc'[l] = AfterCount(l) /\ executed'[l] = executed[l] + 1
      BY <1>a, <3>1 DEF RecordOK, TurnOK
    <3>4. UNCHANGED <<status, cur, last, ran, lost>>
      BY <3>1 DEF batch, hist
    <3> QED
      BY <1>c, <3>1, <3>2, <3>3, <3>4
         DEF Local, InFlight, Started, Running, Synced, Fits, Position, Recording
  <2> QED
    BY <2>1, <2>2
<1>21. CASE SkipCall(l)
  <2>1. \A k \in Loops : k # l => pc'[k] = "idle"
    BY <1>a, <1>21 DEF SkipCall, At, Record, AnswerCall, RecordOK, rec
  <2>2. Local(l)'
    <3>1. /\ pc[l] = "rest"
          /\ pc' = [pc EXCEPT ![l] = "read"] /\ after' = [after EXCEPT ![l] = "rest"]
          /\ UNCHANGED <<status, counted, executed, ran, lost>>
      BY <1>21, Zenon DEF SkipCall, AnswerCall, Record, At, log, turn, hist
    <3>2. pc'[l] = "read" /\ after'[l] = "rest"
      BY <1>a, <3>1 DEF RecordOK
    <3>3. ~InFlight(l) /\ ~InFlight(l)' /\ Position(l) = "rest" /\ Position(l)' = "rest"
      BY <3>1, <3>2 DEF InFlight, Position, Recording
    <3> QED
      BY <3>1, <3>3 DEF Local, Started, Running, Synced, Fits
  <2> QED
    BY <2>1, <2>2
<1>22. CASE LeaveBatch(l)
  <2>1. \A k \in Loops : k # l => pc'[k] = "idle"
    BY <1>a, <1>22 DEF LeaveBatch, At, Record, RecordOK, rec
  <2>2. Local(l)'
    <3>1. /\ pc[l] = "rest"
          /\ \/ pc' = [pc EXCEPT ![l] = "read"] /\ after' = [after EXCEPT ![l] = "ready"] /\ status' = status
             \/ pc' = [pc EXCEPT ![l] = "ready"] /\ after' = after /\ status' = status
             \/ pc' = [pc EXCEPT ![l] = "idle"] /\ after' = after
          /\ UNCHANGED <<counted, executed, ran, lost>>
      BY <1>22, Zenon DEF LeaveBatch, Record, At, turn, rec, hist
    <3>2. \/ pc'[l] = "read" /\ after'[l] = "ready" /\ status' = status
          \/ pc'[l] = "ready" /\ status' = status
          \/ pc'[l] = "idle"
      BY <1>a, <3>1 DEF RecordOK
    <3>3. ~InFlight(l) /\ ~InFlight(l)' /\ Position(l) = "rest" /\ Position(l)' \in {"ready", "idle"}
      BY <3>1, <3>2 DEF InFlight, Position, Recording
    <3> QED
      BY <3>1, <3>2, <3>3 DEF Local, Started, Running, Synced, Fits
  <2> QED
    BY <2>1, <2>2
<1>23. CASE Die(l)
  <2>1. \A k \in Loops : k # l => pc'[k] = "idle"
    BY <1>a, <1>23 DEF Die, At, Recorded, RecordOK, rec
  <2>2. Local(l)'
    <3>1. /\ pc' = [pc EXCEPT ![l] = "idle"] /\ ran' = ran
          /\ lost' = IF InFlight(l) THEN lost + 1 ELSE lost
          /\ UNCHANGED <<counted, executed, batch>>
      BY <1>23, Zenon DEF Die, Recorded, At, log, turn
    <3>2. pc'[l] = "idle" /\ ~InFlight(l)'
      BY <1>a, <3>1 DEF RecordOK, InFlight
    <3>3. ~Running(l)' /\ Position(l)' = "idle"
      BY <3>2 DEF Running, Position, Recording
    <3>4. Started(l)' /\ Synced(l)' /\ Fits(l)'
      BY <3>3 DEF Started, Synced, Fits
    <3> QED
      BY <1>a, <3>1, <3>2, <3>4 DEF Local, StoreOK
  <2> QED
    BY <2>1, <2>2
<1> QED
  BY <1>1, <1>2, <1>3, <1>4, <1>5, <1>6, <1>7, <1>8, <1>9, <1>10, <1>11, <1>12, <1>13, <1>14, <1>15, <1>16, <1>17, <1>18, <1>19, <1>20, <1>21, <1>22, <1>23
     DEF LoopStep, RecordStep, SessionStep, ModelStep, CallStep

\* Initially no budget is used.
LEMMA BudgetInit == Init => BudgetInv
<1> USE BudgetAssumption
<1>1. ASSUME Init
      PROVE  BudgetInv
  <2>1. \A l \in Loops : pc[l] = "idle" /\ ~InFlight(l)
    BY <1>1 DEF Init, InFlight
  <2>2. OneLoop /\ \A l \in Loops : Started(l) /\ Synced(l) /\ Fits(l)
    BY <2>1 DEF OneLoop, Started, Running, Synced, Fits, Position, Recording
  <2>3. CallsAddUp /\ TaskBudgetHolds
    BY <1>1, <2>1 DEF Init, CallsAddUp, TaskBudgetHolds
  <2> QED
    BY <2>2, <2>3 DEF BudgetInv
<1> QED
  BY <1>1

\* While one loop takes a step the others are idle, and it keeps the budget.
LEMMA OneAtATime ==
    ASSUME ~Concurrent, TypeInv, TypeInv', BudgetInv, NEW l \in Loops,
           StartJob(l) \/ SubmitInput(l) \/ LoopStep(l) \/ Die(l)
    PROVE  /\ Local(l) /\ Local(l)'
           /\ \A k \in Loops : k # l => pc[k] = "idle" /\ pc'[k] = "idle"
<1>1. \A k \in Loops : k # l => pc[k] = "idle"
  <2>1. CASE StartJob(l)
    BY <2>1 DEF StartJob, BudgetInv, Started, Running
  <2>2. CASE SubmitInput(l)
    BY <2>2 DEF SubmitInput, Running
  <2>3. CASE LoopStep(l) \/ Die(l)
    <3>1. Running(l)
      BY <2>3 DEF LoopStep, RecordStep, SessionStep, ModelStep, CallStep, Running,
           Read, Write, LogAnswered, LogAppended, LogRequested, ResumeJob, StartTurn,
           SubturnsExhausted, Compact, LogCompacted, CompactionFails, Request, ModelFails,
           ModelAnswers, CheckBudget, RejectCall, ExecuteCall, CountCall, SkipCall,
           LeaveBatch, Die
    <3> QED
      BY <3>1 DEF BudgetInv, OneLoop, Running
  <2> QED
    BY <2>1, <2>2, <2>3
<1>2. Local(l)
  BY <1>1, LocalFromInv
<1>3. Local(l)' /\ \A k \in Loops : k # l => pc'[k] = "idle"
  BY <1>1, <1>2, LocalStep
<1> QED
  BY <1>1, <1>2, <1>3

\* Hence no step breaks it.
LEMMA BudgetStep ==
    ASSUME ~Concurrent, TypeInv, TypeInv', BudgetInv, [Next]_vars
    PROVE  BudgetInv'
<1>1. CASE UNCHANGED vars
  BY <1>1 DEF BudgetInv, OneLoop, CallsAddUp, TaskBudgetHolds, Started, Synced, Fits,
              Position, Recording, Running, InFlight, vars
<1>2. CASE Next
  <2>1. PICK l \in Loops : StartJob(l) \/ SubmitInput(l) \/ LoopStep(l) \/ Die(l)
    BY <1>2 DEF Next
  <2>2. Local(l)' /\ \A k \in Loops : k # l => pc'[k] = "idle"
    BY <2>1, OneAtATime
  <2> QED
    BY <2>2, InvFromLocal
<1> QED
  BY <1>1, <1>2

---------------------------------------------------------------------------
(* Theorems.                                                                *)

\* Every store and every loop keeps its type, and no turn runs more subturns
\* than max_provider_subturns, whatever loops run beside each other, fail or die
\* (check_subturn_budget, provider_tool_call_loop in task_agent.rs).
THEOREM TypesHold == Spec => []TypeInv
<1>1. Init => TypeInv
  BY TypeInit
<1>2. TypeInv /\ [Next]_vars => TypeInv'
  BY TypeStep
<1> QED
  BY <1>1, <1>2, PTL DEF Spec

\* TypeOK itself.
THEOREM TypeCorrect == Spec => []TypeOK
<1>1. TypeInv => TypeOK
  BY DEF TypeInv
<1> QED
  BY <1>1, TypesHold, PTL

\* When input waits for the loop before it, IInv is an invariant: every call of a
\* batch that is under way has its place in the task's budget reserved.
THEOREM InductiveInvariant == ~Concurrent => (Spec => []IInv)
<1> SUFFICES ASSUME ~Concurrent PROVE Spec => []IInv
  OBVIOUS
<1>1. Init => IInv
  BY TypeInit, BudgetInit DEF IInv
<1>2. IInv /\ [Next]_vars => IInv'
  <2> SUFFICES ASSUME IInv, [Next]_vars PROVE IInv'
    OBVIOUS
  <2>1. TypeInv'
    BY TypeStep DEF IInv
  <2>2. BudgetInv'
    BY <2>1, BudgetStep DEF IInv
  <2> QED
    BY <2>1, <2>2 DEF IInv
<1> QED
  BY <1>1, <1>2, PTL DEF Spec

\* Over any turns, inputs and crashes, the calls counted stay within
\* max_tool_calls_per_task (provider_tool_calls_executed_for_task).
THEOREM TaskBudget == ~Concurrent => (Spec => []TaskBudgetHolds)
<1> SUFFICES ASSUME ~Concurrent PROVE Spec => []TaskBudgetHolds
  OBVIOUS
<1>1. IInv => TaskBudgetHolds
  BY DEF IInv, BudgetInv
<1> QED
  BY <1>1, InductiveInvariant, PTL

\* A call executed beyond the budget was lost by a loop that died between
\* executing a call and counting it.
THEOREM OverrunsWereLost == ~Concurrent => (Spec => []OverrunWasLost)
<1> SUFFICES ASSUME ~Concurrent PROVE Spec => []OverrunWasLost
  OBVIOUS
<1>1. IInv => OverrunWasLost
  <2> SUFFICES ASSUME IInv PROVE OverrunWasLost
    OBVIOUS
  <2>1. counted \in Nat /\ lost \in Nat /\ ran \in Nat /\ MaxTotal \in Nat
    BY BudgetAssumption DEF IInv, TypeInv, TypeOK, StoreOK
  <2>2. CASE \E l \in Loops : InFlight(l)
    <3>1. PICK l \in Loops : InFlight(l)
      BY <2>2
    <3>2. /\ cur[l] \in Nat /\ last[l] \in Nat /\ Fits(l)
      BY DEF IInv, TypeInv, TypeOK, BatchOK, BudgetInv
    <3>3. counted + 1 <= MaxTotal
      BY <2>1, <3>1, <3>2 DEF InFlight, Fits, Position, Recording
    <3> QED
      BY <2>1, <2>2, <3>3 DEF IInv, BudgetInv, CallsAddUp, OverrunWasLost
  <2>3. CASE ~\E l \in Loops : InFlight(l)
    BY <2>1, <2>3 DEF IInv, BudgetInv, CallsAddUp, TaskBudgetHolds, OverrunWasLost
  <2> QED
    BY <2>2, <2>3
<1> QED
  BY <1>1, InductiveInvariant, PTL
=============================================================================
