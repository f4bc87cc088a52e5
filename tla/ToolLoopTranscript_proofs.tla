---------------------- MODULE ToolLoopTranscript_proofs ----------------------
(***************************************************************************)
(* Proofs about the messages of ToolLoop, when one loop runs at a time:     *)
(* whatever a crash or a compaction leaves behind, an answer has its call;  *)
(* and when nothing fails, the transcript takes only the steps of           *)
(* TranscriptProtocol and agrees with the log.                              *)
(***************************************************************************)
EXTENDS ToolLoopCalls_proofs

---------------------------------------------------------------------------
(* Sequences of messages.                                                   *)

\* The calls asked for and answered, by the messages that do.
LEMMA CallsOf ==
    ASSUME NEW ms \in Seq(Message), NEW c
    PROVE  /\ c \in Asked(ms)    <=> \E i \in 1 .. Len(ms) : Asks(ms, i, c)
           /\ c \in Answered(ms) <=> \E i \in 1 .. Len(ms) : Answers(ms, i, c)
<1>1. DOMAIN ms = 1 .. Len(ms)
  BY LenProperties
<1> QED
  BY <1>1 DEF Asked, Answered, Asks, Answers

\* What appending a message leaves alone.
LEMMA AppendedTo ==
    ASSUME NEW ms \in Seq(Message), NEW m \in Message
    PROVE  /\ Append(ms, m) \in Seq(Message)
           /\ Len(ms) \in Nat /\ Len(Append(ms, m)) = Len(ms) + 1
           /\ DOMAIN ms = 1 .. Len(ms) /\ DOMAIN Append(ms, m) = 1 .. Len(ms) + 1
           /\ \A i \in 1 .. Len(ms) : Append(ms, m)[i] = ms[i]
           /\ Append(ms, m)[Len(ms) + 1] = m
BY LenProperties, AppendProperties

\* The calls of a transcript that grows by a message.
LEMMA AppendCalls ==
    ASSUME NEW ms \in Seq(Message), NEW m \in Message
    PROVE  /\ Asked(Append(ms, m)) =
                Asked(ms) \cup (IF m.role = "assistant" THEN m.calls ELSE {})
           /\ Answered(Append(ms, m)) =
                Answered(ms) \cup (IF m.role = "tool" THEN m.calls ELSE {})
<1> DEFINE new == Append(ms, m)
           n == Len(ms)
<1>1. /\ new \in Seq(Message) /\ n \in Nat /\ Len(new) = n + 1
      /\ \A i \in 1 .. n : new[i] = ms[i]
      /\ new[n + 1] = m
  BY AppendedTo
<1> HIDE DEF new
<1>2. ASSUME NEW c
      PROVE  /\ c \in Asked(new) <=> c \in Asked(ms) \/ (m.role = "assistant" /\ c \in m.calls)
             /\ c \in Answered(new) <=> c \in Answered(ms) \/ (m.role = "tool" /\ c \in m.calls)
  <2>1. \A i \in 1 .. n : /\ Asks(new, i, c) <=> Asks(ms, i, c)
                          /\ Answers(new, i, c) <=> Answers(ms, i, c)
    BY <1>1 DEF Asks, Answers
  <2>2. /\ Asks(new, n + 1, c) <=> m.role = "assistant" /\ c \in m.calls
        /\ Answers(new, n + 1, c) <=> m.role = "tool" /\ c \in m.calls
    BY <1>1 DEF Asks, Answers
  <2>3. 1 .. Len(new) = (1 .. n) \cup {n + 1}
    BY <1>1
  <2> QED
    BY <1>1, <2>1, <2>2, <2>3, CallsOf
<1> QED
  BY <1>2 DEF new

\* In a matched transcript only calls asked for are answered.
LEMMA AnsweredWasAsked ==
    ASSUME NEW ms \in Seq(Message), Matched(ms)
    PROVE  Answered(ms) \subseteq Asked(ms)
<1>1. DOMAIN ms = 1 .. Len(ms) /\ Len(ms) \in Nat
  BY LenProperties
<1>2. ASSUME NEW c \in Answered(ms)
      PROVE  c \in Asked(ms)
  <2>1. PICK i \in 1 .. Len(ms) : Answers(ms, i, c)
    BY <1>2, CallsOf
  <2>2. \E j \in 1 .. i - 1 : Asks(ms, j, c)
    BY <1>1, <2>1 DEF Matched, Answers
  <2> QED
    BY <1>1, <2>2, CallsOf
<1> QED
  BY <1>2

\* A new question, or the first answer to an open call, keeps a transcript matched.
LEMMA AppendMatched ==
    ASSUME NEW ms \in Seq(Message), NEW m \in Message, Matched(ms),
           m.role = "assistant" => m.calls \cap Asked(ms) = {},
           m.role = "tool" => m.calls \subseteq Open(ms)
    PROVE  Matched(Append(ms, m))
<1> DEFINE new == Append(ms, m)
           n == Len(ms)
<1>1. /\ new \in Seq(Message) /\ n \in Nat /\ Len(new) = n + 1 /\ DOMAIN ms = 1 .. n
      /\ DOMAIN new = 1 .. n + 1
      /\ \A i \in 1 .. n : new[i] = ms[i]
      /\ new[n + 1] = m
  BY AppendedTo
<1> HIDE DEF new
<1>2. \A c : \A i \in 1 .. n : /\ Asks(new, i, c) <=> Asks(ms, i, c)
                               /\ Answers(new, i, c) <=> Answers(ms, i, c)
  BY <1>1 DEF Asks, Answers
<1> SUFFICES ASSUME NEW i \in 1 .. n + 1, NEW c \in new[i].calls
             PROVE  /\ new[i].role = "assistant" => \A j \in 1 .. i - 1 : ~Asks(new, j, c)
                    /\ new[i].role = "tool" =>
                         /\ \E j \in 1 .. i - 1 : Asks(new, j, c)
                         /\ \A j \in 1 .. i - 1 : ~Answers(new, j, c)
  BY <1>1 DEF Matched, new
<1>3. CASE i \in 1 .. n
  <2>1. new[i] = ms[i]
    BY <1>1, <1>3
  <2>2. 1 .. i - 1 \subseteq 1 .. n
    BY <1>1, <1>3
  <2> QED
    BY <1>1, <1>2, <1>3, <2>1, <2>2 DEF Matched
<1>4. CASE i = n + 1
  <2>1. new[i] = m /\ i - 1 = n
    BY <1>1, <1>4
  <2>2. CASE m.role = "assistant"
    BY <1>2, <2>1, <2>2, CallsOf
  <2>3. CASE m.role = "tool"
    BY <1>2, <2>1, <2>3, CallsOf DEF Open
  <2> QED
    BY <2>1, <2>2, <2>3
<1> QED
  BY <1>1, <1>3, <1>4

\* The answers that have come to open calls, or a message when none is open, keep
\* every open call followed by tool messages only.
LEMMA AppendTidy ==
    ASSUME NEW ms \in Seq(Message), NEW m \in Message, Tidy(ms),
           m.role = "tool" => m.calls \subseteq Open(ms),
           m.role # "tool" => Open(ms) = {}
    PROVE  Tidy(Append(ms, m))
<1> DEFINE new == Append(ms, m)
           n == Len(ms)
<1>1. /\ new \in Seq(Message) /\ n \in Nat /\ Len(new) = n + 1 /\ DOMAIN ms = 1 .. n
      /\ DOMAIN new = 1 .. n + 1
      /\ \A i \in 1 .. n : new[i] = ms[i]
      /\ new[n + 1] = m
  BY AppendedTo
<1> HIDE DEF new
<1>2. \A c : \A i \in 1 .. n : /\ Asks(new, i, c) <=> Asks(ms, i, c)
                               /\ Answers(new, i, c) <=> Answers(ms, i, c)
  BY <1>1 DEF Asks, Answers
<1>3. Open(new) \subseteq
        IF m.role = "assistant" THEN m.calls ELSE IF m.role = "tool" THEN Open(ms) ELSE {}
  BY AppendCalls DEF Open, new
<1>4. ASSUME NEW i \in 1 .. n + 1, NEW c \in new[i].calls, new[i].role = "tool"
      PROVE  \E j \in 1 .. i - 1 : /\ Asks(new, j, c)
                                   /\ \A k \in j + 1 .. i : new[k].role = "tool"
  <2>1. CASE i \in 1 .. n
    <3>1. new[i] = ms[i]
      BY <1>1, <2>1
    <3>2. PICK j \in 1 .. i - 1 : Asks(ms, j, c) /\ \A k \in j + 1 .. i : ms[k].role = "tool"
      BY <1>1, <1>4, <2>1, <3>1 DEF Tidy, Adjacent
    <3>3. j \in 1 .. n /\ \A k \in j + 1 .. i : k \in 1 .. n
      BY <1>1, <2>1, <3>2
    <3>4. Asks(new, j, c) /\ \A k \in j + 1 .. i : new[k].role = "tool"
      BY <1>1, <1>2, <3>2, <3>3
    <3> QED
      BY <3>2, <3>4
  <2>2. CASE i = n + 1
    <3>1. m.role = "tool" /\ c \in Open(ms)
      BY <1>1, <1>4, <2>2
    <3>2. PICK j \in 1 .. n : Asks(ms, j, c) /\ \A k \in j + 1 .. n : ms[k].role = "tool"
      BY <1>1, <3>1 DEF Tidy
    <3>3. \A k \in j + 1 .. n + 1 : k = n + 1 \/ (k \in 1 .. n /\ k \in j + 1 .. n)
      BY <1>1, <3>2
    <3>4. Asks(new, j, c) /\ \A k \in j + 1 .. n + 1 : new[k].role = "tool"
      BY <1>1, <1>2, <3>1, <3>2, <3>3
    <3>5. j \in 1 .. i - 1
      BY <1>1, <2>2, <3>2
    <3> QED
      BY <2>2, <3>4, <3>5
  <2> QED
    BY <1>1, <2>1, <2>2
<1>5. ASSUME NEW c \in Open(new)
      PROVE  \E j \in 1 .. n + 1 : /\ Asks(new, j, c)
                                   /\ \A k \in j + 1 .. n + 1 : new[k].role = "tool"
  <2>1. CASE m.role = "assistant"
    <3>1. Asks(new, n + 1, c)
      BY <1>1, <1>3, <1>5, <2>1 DEF Asks
    <3>2. n + 1 \in 1 .. n + 1 /\ \A k \in (n + 1) + 1 .. n + 1 : new[k].role = "tool"
      BY <1>1
    <3> QED
      BY <3>1, <3>2
  <2>2. CASE m.role = "tool"
    <3>1. c \in Open(ms)
      BY <1>3, <1>5, <2>2
    <3>2. PICK j \in 1 .. n : Asks(ms, j, c) /\ \A k \in j + 1 .. n : ms[k].role = "tool"
      BY <1>1, <3>1 DEF Tidy
    <3>3. \A k \in j + 1 .. n + 1 : k = n + 1 \/ (k \in 1 .. n /\ k \in j + 1 .. n)
      BY <1>1, <3>2
    <3>4. Asks(new, j, c) /\ \A k \in j + 1 .. n + 1 : new[k].role = "tool"
      BY <1>1, <1>2, <2>2, <3>2, <3>3
    <3>5. j \in 1 .. n + 1
      BY <1>1, <3>2
    <3> QED
      BY <3>4, <3>5
  <2> QED
    BY <1>3, <1>5, <2>1, <2>2
<1>6. Adjacent(new)
  BY <1>1, <1>4 DEF Adjacent
<1> QED
  BY <1>1, <1>5, <1>6 DEF Tidy, new

---------------------------------------------------------------------------
(* The replacement of a compaction.                                         *)

\* A message of the replacement is the summary or a message of the suffix.
LEMMA SuffixMessages ==
    ASSUME NEW ms \in Seq(Message), NEW s \in 1 .. Len(ms) + 1
    PROVE  LET new == <<User>> \o SubSeq(ms, s, Len(ms))
           IN  /\ new \in Seq(Message) /\ Len(new) = Len(ms) - s + 2
               /\ new[1] = User
               /\ \A i \in s .. Len(ms) : new[i - s + 2] = ms[i]
               /\ \A i \in 2 .. Len(new) : i + s - 2 \in s .. Len(ms) /\ new[i] = ms[i + s - 2]
<1> DEFINE n == Len(ms)
           tail == SubSeq(ms, s, n)
           new == <<User>> \o tail
<1>1. n \in Nat /\ s \in Nat \ {0} /\ s <= n + 1
  BY LenProperties
<1>2. \A i \in s .. n : ms[i] \in Message
  BY <1>1, ElementOfSeq
<1>3. /\ tail \in Seq(Message) /\ Len(tail) = n - s + 1
      /\ \A i \in 1 .. n - s + 1 : tail[i] = ms[s + i - 1]
  BY <1>1, <1>2, SubSeqProperties
<1>4. <<User>> \in Seq(Message) /\ Len(<<User>>) = 1 /\ <<User>>[1] = User
  BY MessageTypes
<1> DEFINE head == <<User>>
<1> HIDE DEF tail, head
<1>5. /\ head \o tail \in Seq(Message) /\ Len(head \o tail) = Len(head) + Len(tail)
      /\ \A i \in 1 .. Len(head) + Len(tail) :
           (head \o tail)[i] = IF i <= Len(head) THEN head[i] ELSE tail[i - Len(head)]
  BY <1>3, <1>4, ConcatProperties DEF head
<1>6. /\ new \in Seq(Message) /\ Len(new) = n - s + 2
      /\ \A i \in 1 .. Len(new) : new[i] = IF i <= 1 THEN <<User>>[i] ELSE tail[i - 1]
  BY <1>1, <1>3, <1>4, <1>5 DEF head
<1> HIDE DEF new
<1>7. new[1] = User
  BY <1>1, <1>4, <1>6
<1>8. \A i \in 2 .. Len(new) : i + s - 2 \in s .. n /\ new[i] = ms[i + s - 2]
  <2> SUFFICES ASSUME NEW i \in 2 .. Len(new) PROVE i + s - 2 \in s .. n /\ new[i] = ms[i + s - 2]
    OBVIOUS
  <2>1. new[i] = tail[i - 1] /\ i - 1 \in 1 .. n - s + 1 /\ i + s - 2 \in s .. n
    BY <1>1, <1>6
  <2>2. tail[i - 1] = ms[s + (i - 1) - 1] /\ s + (i - 1) - 1 = i + s - 2
    BY <1>1, <1>3, <2>1
  <2> QED
    BY <2>1, <2>2
<1>9. \A i \in s .. n : new[i - s + 2] = ms[i]
  <2> SUFFICES ASSUME NEW i \in s .. n PROVE new[i - s + 2] = ms[i]
    OBVIOUS
  <2>1. i - s + 2 \in 2 .. Len(new) /\ (i - s + 2) + s - 2 = i
    BY <1>1, <1>6
  <2> QED
    BY <1>8, <2>1
<1> QED
  BY <1>6, <1>7, <1>8, <1>9 DEF new, tail

\* In a matched transcript a call is asked for once, before it is answered.
LEMMA AskedOnce ==
    ASSUME NEW ms \in Seq(Message), Matched(ms), NEW c,
           NEW i \in 1 .. Len(ms), NEW j \in 1 .. Len(ms), Asks(ms, j, c)
    PROVE  /\ Asks(ms, i, c) => i = j
           /\ Answers(ms, i, c) => j < i
<1>1. DOMAIN ms = 1 .. Len(ms) /\ Len(ms) \in Nat
  BY LenProperties
<1>2. ASSUME NEW k \in 1 .. Len(ms), NEW m \in 1 .. Len(ms), k < m, Asks(ms, k, c)
      PROVE  ~Asks(ms, m, c)
  <2>1. k \in 1 .. m - 1
    BY <1>1, <1>2
  <2> QED
    BY <1>1, <1>2, <2>1 DEF Matched, Asks
<1>3. Asks(ms, i, c) => i = j
  BY <1>1, <1>2
<1>4. ASSUME Answers(ms, i, c)
      PROVE  j < i
  <2>1. PICK k \in 1 .. i - 1 : Asks(ms, k, c)
    BY <1>1, <1>4 DEF Matched, Answers
  <2>2. k \in 1 .. Len(ms) /\ k < i
    BY <1>1, <2>1
  <2>3. k = j
    BY <1>1, <1>2, <2>1, <2>2
  <2> QED
    BY <2>2, <2>3
<1> QED
  BY <1>3, <1>4

\* A suffix that keeps the calls of its answers, behind a summary, is matched and
\* asks for the pending calls.
LEMMA SuffixMatched ==
    ASSUME NEW ms \in Seq(Message), Matched(ms), NEW pending, pending \subseteq Asked(ms),
           NEW s \in 1 .. Len(ms) + 1, SuffixKeepsCalls(ms, pending, s)
    PROVE  LET new == <<User>> \o SubSeq(ms, s, Len(ms))
           IN  /\ Matched(new)
               /\ pending \subseteq Asked(new) /\ Asked(new) \subseteq Asked(ms)
<1> DEFINE n == Len(ms)
           new == <<User>> \o SubSeq(ms, s, n)
<1>1. /\ new \in Seq(Message) /\ Len(new) = n - s + 2
      /\ new[1] = User
      /\ \A i \in s .. n : new[i - s + 2] = ms[i]
      /\ \A i \in 2 .. Len(new) : i + s - 2 \in s .. n /\ new[i] = ms[i + s - 2]
  BY SuffixMessages
<1>2. n \in Nat /\ s \in Nat \ {0} /\ s <= n + 1 /\ DOMAIN ms = 1 .. n
  BY LenProperties
<1>3. DOMAIN new = 1 .. Len(new)
  BY <1>1, LenProperties
<1> HIDE DEF new
<1>4. \A i \in 2 .. Len(new) : \A c :
        /\ Asks(new, i, c) <=> Asks(ms, i + s - 2, c)
        /\ Answers(new, i, c) <=> Answers(ms, i + s - 2, c)
  BY <1>1 DEF Asks, Answers
<1>5. \A c : ~Asks(new, 1, c) /\ ~Answers(new, 1, c)
  BY <1>1 DEF Asks, Answers, User
<1>6. ASSUME NEW i \in 1 .. Len(new), NEW c \in new[i].calls
      PROVE  /\ new[i].role = "assistant" => \A j \in 1 .. i - 1 : ~Asks(new, j, c)
             /\ new[i].role = "tool" =>
                  /\ \E j \in 1 .. i - 1 : Asks(new, j, c)
                  /\ \A j \in 1 .. i - 1 : ~Answers(new, j, c)
  <2>1. i \in 2 .. Len(new)
    BY <1>1, <1>2, <1>6 DEF User
  <2> DEFINE k == i + s - 2
  <2>2. k \in s .. n /\ k \in 1 .. n /\ new[i] = ms[k]
    BY <1>1, <1>2, <2>1
  <2>3. \A j \in 2 .. i - 1 : j \in 2 .. Len(new) /\ j + s - 2 \in 1 .. k - 1
    BY <1>1, <1>2, <2>1
  <2>4. 1 .. i - 1 = {1} \cup 2 .. i - 1
    BY <2>1
  <2>5. c \in ms[k].calls
    BY <1>6, <2>2
  <2>6. ASSUME new[i].role = "assistant"
        PROVE  \A j \in 1 .. i - 1 : ~Asks(new, j, c)
    <3>1. \A j \in 1 .. k - 1 : ~Asks(ms, j, c)
      BY <1>2, <2>2, <2>5, <2>6 DEF Matched
    <3> QED
      BY <1>4, <1>5, <2>3, <2>4, <3>1
  <2>7. ASSUME new[i].role = "tool"
        PROVE  /\ \E j \in 1 .. i - 1 : Asks(new, j, c)
               /\ \A j \in 1 .. i - 1 : ~Answers(new, j, c)
    <3>1. Answers(ms, k, c) /\ \E j \in 1 .. k - 1 : Asks(ms, j, c)
      BY <1>2, <2>2, <2>5, <2>7 DEF Matched, Answers
    <3>2. PICK j \in s .. k - 1 : Asks(ms, j, c)
      BY <2>2, <2>5, <3>1 DEF SuffixKeepsCalls
    <3>3. j - s + 2 \in 2 .. Len(new) /\ j - s + 2 \in 1 .. i - 1 /\ (j - s + 2) + s - 2 = j
      BY <1>1, <1>2, <2>1, <2>2, <3>2
    <3>4. Asks(new, j - s + 2, c)
      BY <1>4, <3>2, <3>3
    <3>5. \A m \in 1 .. k - 1 : ~Answers(ms, m, c)
      BY <1>2, <2>2, <2>5, <2>7 DEF Matched
    <3>6. \A m \in 1 .. i - 1 : ~Answers(new, m, c)
      BY <1>4, <1>5, <2>3, <2>4, <3>5
    <3> QED
      BY <3>3, <3>4, <3>6
  <2> QED
    BY <2>6, <2>7
<1>7. Matched(new)
  BY <1>3, <1>6 DEF Matched
<1>8. ASSUME NEW c \in pending
      PROVE  c \in Asked(new)
  <2>1. PICK i \in 1 .. n : Asks(ms, i, c)
    BY <1>8, CallsOf
  <2>2. s <= i
    BY <1>2, <1>8, <2>1 DEF SuffixKeepsCalls
  <2>3. i - s + 2 \in 2 .. Len(new) /\ (i - s + 2) + s - 2 = i
    BY <1>1, <1>2, <2>1, <2>2
  <2>4. i - s + 2 \in 1 .. Len(new) /\ Asks(new, i - s + 2, c)
    BY <1>4, <2>1, <2>3
  <2> QED
    BY <1>1, <2>4, CallsOf
<1>9. ASSUME NEW c \in Asked(new)
      PROVE  c \in Asked(ms)
  <2>1. PICK i \in 1 .. Len(new) : Asks(new, i, c)
    BY <1>1, <1>9, CallsOf
  <2>2. i \in 2 .. Len(new)
    BY <1>1, <1>2, <1>5, <2>1
  <2>3. i + s - 2 \in 1 .. n /\ Asks(ms, i + s - 2, c)
    BY <1>1, <1>2, <1>4, <2>1, <2>2
  <2> QED
    BY <2>3, CallsOf
<1> QED
  BY <1>7, <1>8, <1>9 DEF new

\* When moreover every call has its answer, so it has in the replacement, and the
\* answers stay where they are.
LEMMA SuffixValid ==
    ASSUME NEW ms \in Seq(Message), Matched(ms), Open(ms) = {}, Adjacent(ms),
           NEW s \in 1 .. Len(ms) + 1, SuffixKeepsCalls(ms, {}, s)
    PROVE  LET new == <<User>> \o SubSeq(ms, s, Len(ms))
           IN  Open(new) = {} /\ Adjacent(new)
<1> DEFINE n == Len(ms)
           new == <<User>> \o SubSeq(ms, s, n)
<1>1. /\ new \in Seq(Message) /\ Len(new) = n - s + 2
      /\ new[1] = User
      /\ \A i \in s .. n : new[i - s + 2] = ms[i]
      /\ \A i \in 2 .. Len(new) : i + s - 2 \in s .. n /\ new[i] = ms[i + s - 2]
  BY SuffixMessages
<1>2. n \in Nat /\ s \in Nat \ {0} /\ s <= n + 1 /\ DOMAIN ms = 1 .. n
  BY LenProperties
<1>3. DOMAIN new = 1 .. Len(new)
  BY <1>1, LenProperties
<1>4. Matched(new)
  BY SuffixMatched
<1> HIDE DEF new
<1>5. \A i \in 2 .. Len(new) : \A c :
        /\ Asks(new, i, c) <=> Asks(ms, i + s - 2, c)
        /\ Answers(new, i, c) <=> Answers(ms, i + s - 2, c)
  BY <1>1 DEF Asks, Answers
<1>6. \A c : ~Asks(new, 1, c) /\ ~Answers(new, 1, c)
  BY <1>1 DEF Asks, Answers, User
<1>7. ASSUME NEW c \in Asked(new)
      PROVE  c \in Answered(new)
  <2>1. PICK i \in 1 .. Len(new) : Asks(new, i, c)
    BY <1>1, <1>7, CallsOf
  <2>2. i \in 2 .. Len(new)
    BY <1>1, <1>2, <1>6, <2>1
  <2>3. i + s - 2 \in s .. n /\ i + s - 2 \in 1 .. n /\ Asks(ms, i + s - 2, c)
    BY <1>1, <1>2, <1>5, <2>1, <2>2
  <2>4. PICK k \in 1 .. n : Answers(ms, k, c)
    BY <2>3, CallsOf DEF Open
  <2>5. i + s - 2 < k
    BY <2>3, <2>4, AskedOnce
  <2>6. k - s + 2 \in 2 .. Len(new) /\ k - s + 2 \in 1 .. Len(new) /\ (k - s + 2) + s - 2 = k
    BY <1>1, <1>2, <2>2, <2>3, <2>4, <2>5
  <2>7. Answers(new, k - s + 2, c)
    BY <1>5, <2>4, <2>6
  <2> QED
    BY <1>1, <2>6, <2>7, CallsOf
<1>8. ASSUME NEW i \in 1 .. Len(new), NEW c \in new[i].calls, new[i].role = "tool"
      PROVE  \E j \in 1 .. i - 1 : /\ Asks(new, j, c)
                                   /\ \A k \in j + 1 .. i : new[k].role = "tool"
  <2>1. i \in 2 .. Len(new)
    BY <1>1, <1>2, <1>8 DEF User
  <2> DEFINE t == i + s - 2
  <2>2. t \in s .. n /\ t \in 1 .. n /\ new[i] = ms[t] /\ Answers(ms, t, c)
    BY <1>1, <1>2, <1>8, <2>1 DEF Answers
  <2>3. PICK j \in 1 .. t - 1 : Asks(ms, j, c) /\ \A k \in j + 1 .. t : ms[k].role = "tool"
    BY <1>2, <2>2 DEF Adjacent, Answers
  <2>4. PICK m \in s .. t - 1 : Asks(ms, m, c)
    BY <2>2, <2>3 DEF SuffixKeepsCalls, Answers
  <2>5. m \in 1 .. n /\ j \in 1 .. n
    BY <1>2, <2>2, <2>3, <2>4
  <2>6. m = j
    BY <2>3, <2>4, <2>5, AskedOnce
  <2>7. j - s + 2 \in 2 .. Len(new) /\ j - s + 2 \in 1 .. i - 1 /\ (j - s + 2) + s - 2 = j
    <3>1. /\ j \in s .. t - 1 /\ t = i + s - 2 /\ i \in 2 .. Len(new)
          /\ s \in Nat /\ n \in Nat /\ Len(new) = n - s + 2
      BY <1>1, <1>2, <2>1, <2>4, <2>6
    <3> HIDE DEF t, n, new
    <3> QED
      BY <3>1
  <2>8. Asks(new, j - s + 2, c)
    BY <1>5, <2>3, <2>7
  <2>9. \A k \in (j - s + 2) + 1 .. i :
          k \in 2 .. Len(new) /\ k + s - 2 \in j + 1 .. t
    <3>1. /\ j \in s .. t - 1 /\ t = i + s - 2 /\ i \in 2 .. Len(new)
          /\ s \in Nat /\ n \in Nat /\ Len(new) = n - s + 2
      BY <1>1, <1>2, <2>1, <2>4, <2>6
    <3> HIDE DEF t, n, new
    <3> QED
      BY <3>1
  <2>10. ASSUME NEW k \in (j - s + 2) + 1 .. i PROVE new[k].role = "tool"
    <3>1. k \in 2 .. Len(new) /\ k + s - 2 \in j + 1 .. t
      BY <2>9
    <3>2. new[k] = ms[k + s - 2]
      BY <1>1, <3>1
    <3> QED
      BY <2>3, <3>1, <3>2
  <2> QED
    BY <2>7, <2>8, <2>10
<1>9. Open(new) = {}
  BY <1>7 DEF Open
<1>10. Adjacent(new)
  BY <1>3, <1>8 DEF Adjacent
<1> QED
  BY <1>9, <1>10 DEF new

---------------------------------------------------------------------------
(* The messages whatever fails: what a step of loop l does to them.          *)

MatchLocal(l) == Sound(Visible) /\ KeepsMatched(l)

\* The other loops are idle and have nothing to answer.
LEMMA MatchFromLocal ==
    ASSUME NEW l \in Loops, MatchLocal(l)', \A k \in Loops : k # l => pc'[k] = "idle"
    PROVE  MatchInv'
<1>1. ASSUME NEW k \in Loops, k # l
      PROVE  KeepsMatched(k)'
  BY <1>1 DEF KeepsMatched, Rest, InBatch, Asking, Position, Recording
<1> QED
  BY <1>1 DEF MatchLocal, MatchInv

\* A message that asks for nothing and answers at most an open call.
LEMMA SoundGrows ==
    ASSUME NEW ms \in Seq(Message), Sound(ms), NEW m \in Message,
           \/ m = User
           \/ \E c \in Open(ms) : m = Tool(c)
    PROVE  Sound(Append(ms, m))
<1>1. Matched(Append(ms, m))
  BY AppendMatched DEF Sound, User, Tool
<1>2. Asked(Append(ms, m)) = Asked(ms)
  BY AppendCalls DEF User, Tool
<1> QED
  BY <1>1, <1>2 DEF Sound

\* The loop moves on without a message and without a new batch.
LEMMA MatchMoveOn ==
    ASSUME TypeInv, NEW l \in Loops, MatchLocal(l),
           NEW p \in Places \ {"read", "write", "log", "compact"},
           pc' = [pc EXCEPT ![l] = p],
           p \in {"check", "call", "count", "rest"} => pc[l] \in {"check", "call", "count", "rest"},
           UNCHANGED <<file, compacted, ref, requested, answered, nextId, cur, last>>
    PROVE  MatchLocal(l)'
<1>1. pc \in [Loops -> Places]
  BY DEF TypeInv, TypeOK, RecordOK
<1>2. /\ Visible' = Visible /\ Pending' = Pending
  BY DEF Visible, Pending
<1>3. Sound(Visible)'
  BY <1>2 DEF MatchLocal, Sound
<1>4. pc'[l] = p /\ ~Recording(l)' /\ ~Asking(l)'
  BY <1>1 DEF Recording, Asking
<1>5. Rest(l)' = {} \/ (Rest(l)' = Rest(l) /\ ~Recording(l))
  BY <1>4 DEF Rest, InBatch, Position, Recording
<1> QED
  BY <1>2, <1>3, <1>4, <1>5 DEF MatchLocal, KeepsMatched

\* The loop begins to record a message of the user.
LEMMA MatchRecordUser ==
    ASSUME TypeInv, TypeInv', NEW l \in Loops, MatchLocal(l),
           NEW p \in {"resume", "ready"}, Record(l, User, p),
           UNCHANGED <<file, compacted, ref, requested, answered, nextId>>
    PROVE  MatchLocal(l)'
<1>1. RecordOK /\ Visible \in Seq(Message)
  BY VisibleIsTranscript DEF TypeInv, TypeOK
<1>2. /\ Visible' = Visible /\ Pending' = Pending
  BY DEF Visible, Pending
<1>3. pc'[l] = "read" /\ msg'[l] = User /\ after'[l] = p
  BY <1>1 DEF RecordOK, Record, At
<1>4. Recording(l)' /\ ~Asking(l)' /\ Rest(l)' = {}
  BY <1>3 DEF Recording, Asking, Rest, InBatch, Position, User
<1>5. Grown(l)' = Append(Visible, User)
  BY <1>2, <1>3 DEF Grown
<1>6. Sound(Visible) /\ Sound(Append(Visible, User))
  BY <1>1, MessageTypes, SoundGrows DEF MatchLocal
<1>7. Sound(Visible)' /\ Sound(Grown(l))'
  BY <1>2, <1>5, <1>6 DEF Sound
<1> QED
  BY <1>3, <1>4, <1>7 DEF MatchLocal, KeepsMatched

\* The loop begins to record the answer to its current call, which is open.
LEMMA MatchRecordAnswer ==
    ASSUME TypeInv, CallsInv, NEW l \in Loops, MatchLocal(l),
           NEW p \in {"call", "count", "rest", "ready"},
           pc[l] \in {"call", "rest"}, cur[l] <= last[l], AnswerCall(l, p),
           UNCHANGED <<file, compacted, ref, requested, answered, nextId>>
    PROVE  MatchLocal(l)'
<1>1. RecordOK /\ BatchOK /\ Visible \in Seq(Message)
  BY VisibleIsTranscript DEF TypeInv, TypeOK
<1>2. cur[l] \in Nat /\ last[l] \in Nat
  BY <1>1 DEF BatchOK
<1>3. /\ Visible' = Visible /\ Pending' = Pending
  BY DEF Visible, Pending
<1>4. /\ pc'[l] = "read" /\ msg'[l] = Tool(cur[l]) /\ after'[l] = p
      /\ cur'[l] = cur[l] + 1 /\ last'[l] = last[l]
  BY <1>1 DEF RecordOK, BatchOK, AnswerCall, Record, At
<1>5. Recording(l)' /\ ~Asking(l)'
  BY <1>4 DEF Recording, Asking, Tool
<1>6. /\ Due(l) = cur[l] .. last[l] /\ Rest(l) = cur[l] .. last[l]
      /\ ~Recording(l) /\ cur[l] \in requested /\ cur[l] \notin answered
  <2>1. /\ InBatch(l) /\ ~AnswerDue(l) /\ ~Asking(l) /\ ~Recording(l)
    BY DEF InBatch, AnswerDue, Asking, Position, Recording
  <2>2. cur[l] \in cur[l] .. last[l]
    BY <1>2
  <2> QED
    BY <2>1, <2>2 DEF CallsInv, CallsKnown, Due, Rest
<1>7. cur[l] \in Open(Visible)
  BY <1>2, <1>6 DEF MatchLocal, Sound, KeepsMatched, Pending, Open
<1>8. Grown(l)' = Append(Visible, Tool(cur[l]))
  BY <1>3, <1>4 DEF Grown
<1>9. Sound(Append(Visible, Tool(cur[l])))
  BY <1>1, <1>2, <1>7, MessageTypes, SoundGrows DEF MatchLocal
<1>10. Answered(Append(Visible, Tool(cur[l]))) = Answered(Visible) \cup {cur[l]}
  BY <1>1, <1>2, MessageTypes, AppendCalls DEF Tool
<1>11. Rest(l)' \subseteq cur[l] + 1 .. last[l]
  BY <1>4 DEF Rest
<1>12. Rest(l)' \cap Answered(Append(Visible, Tool(cur[l]))) = {}
  <2>1. cur[l] .. last[l] \cap Answered(Visible) = {}
    BY <1>6 DEF MatchLocal, KeepsMatched
  <2>2. \A c \in cur[l] + 1 .. last[l] : c \in cur[l] .. last[l] /\ c # cur[l]
    BY <1>2
  <2> QED
    BY <1>10, <1>11, <2>1, <2>2
<1>13. Sound(Visible)' /\ Sound(Grown(l))'
  BY <1>3, <1>8, <1>9 DEF Sound, MatchLocal
<1> QED
  BY <1>4, <1>5, <1>8, <1>12, <1>13 DEF MatchLocal, KeepsMatched

\* The model's answer asks for calls nobody has asked for.
LEMMA MatchModelAnswers ==
    ASSUME TypeInv, NEW l \in Loops, MatchLocal(l), ModelAnswers(l), step[l] = 0
    PROVE  MatchLocal(l)'
<1>1. RecordOK /\ BatchOK /\ StoreOK /\ Visible \in Seq(Message)
  BY VisibleIsTranscript DEF TypeInv, TypeOK
<1>2. PICK n \in 0 .. MaxBatch :
        /\ nextId' = nextId + n
        /\ cur' = [cur EXCEPT ![l] = nextId]
        /\ last' = [last EXCEPT ![l] = nextId + n - 1]
        /\ msg' = [msg EXCEPT ![l] = Assistant(nextId .. nextId + n - 1)]
        /\ after' = [after EXCEPT ![l] = IF n = 0 THEN "ready" ELSE "check"]
  BY DEF ModelAnswers
<1>3. nextId \in Nat /\ n \in Nat
  BY <1>1, BudgetAssumption DEF StoreOK
<1> DEFINE C == nextId .. nextId + n - 1
           new == Append(Visible, Assistant(C))
<1>4. /\ cur'[l] = nextId /\ last'[l] = nextId + n - 1 /\ msg'[l] = Assistant(C)
      /\ pc'[l] = "read" /\ step'[l] = 0
      /\ Visible' = Visible /\ Pending' = Pending
  BY <1>1, <1>2 DEF RecordOK, BatchOK, ModelAnswers, At, log, blobs, Visible, Pending
<1>5. C \subseteq Nat /\ Assistant(C) \in Message
  BY <1>3, MessageTypes
<1>6. Recording(l)' /\ Grown(l)' = new /\ Rest(l)' \subseteq C
  BY <1>4 DEF Recording, Grown, Rest
<1>7. C \cap Asked(Visible) = {} /\ C \cap Answered(Visible) = {}
  <2>1. \A c \in Asked(Visible) : c < nextId
    BY DEF MatchLocal, Sound
  <2>2. Answered(Visible) \subseteq Asked(Visible)
    BY <1>1, AnsweredWasAsked DEF MatchLocal, Sound
  <2>3. \A c \in C : c \in Nat /\ ~(c < nextId)
    BY <1>3
  <2> QED
    BY <2>1, <2>2, <2>3
<1>8. Matched(new) /\ Asked(new) = Asked(Visible) \cup C /\ Answered(new) = Answered(Visible)
  <2>1. Assistant(C).role = "assistant" /\ Assistant(C).calls = C /\ Matched(Visible)
    BY DEF Assistant, MatchLocal, Sound
  <2>2. Assistant(C).calls \cap Asked(Visible) = {}
    BY <1>7, <2>1
  <2> HIDE DEF C
  <2>3. Matched(new)
    BY <1>1, <1>5, <2>1, <2>2, AppendMatched
  <2>4. /\ Asked(new) = Asked(Visible) \cup
             (IF Assistant(C).role = "assistant" THEN Assistant(C).calls ELSE {})
        /\ Answered(new) = Answered(Visible) \cup
             (IF Assistant(C).role = "tool" THEN Assistant(C).calls ELSE {})
    BY <1>1, <1>5, AppendCalls
  <2> QED
    BY <2>1, <2>3, <2>4
<1>9. \A c \in Asked(Visible) \cup C : c < nextId'
  <2>1. \A c \in Asked(Visible) : c \in Nat /\ c < nextId
    <3>1. Asked(Visible) \subseteq Nat
      <4>1. ASSUME NEW c \in Asked(Visible)
            PROVE  c \in Nat
        <5>1. PICK i \in 1 .. Len(Visible) : Asks(Visible, i, c)
          BY <1>1, <4>1, CallsOf
        <5>2. Visible[i] \in Message
          BY <1>1, <5>1, ElementOfSeq
        <5> QED
          BY <5>1, <5>2 DEF Asks, Message
      <4> QED
        BY <4>1
    <3> QED
      BY <3>1 DEF MatchLocal, Sound
  <2> QED
    BY <1>2, <1>3, <2>1
<1>10. Sound(Visible)' /\ Sound(Grown(l))'
  BY <1>4, <1>6, <1>8, <1>9 DEF Sound, MatchLocal
<1>11. Rest(l)' \cap Answered(Grown(l))' = {} /\ msg'[l].calls \subseteq Asked(Grown(l))'
  BY <1>4, <1>6, <1>7, <1>8 DEF Assistant
<1> QED
  BY <1>4, <1>6, <1>10, <1>11 DEF MatchLocal, KeepsMatched

\* The first statement of a recording: dropped, refused or begun.
LEMMA MatchRead ==
    ASSUME TypeInv, NEW l \in Loops, MatchLocal(l), CallsKnown(l), Read(l)
    PROVE  MatchLocal(l)'
<1>1. RecordOK /\ Visible \in Seq(Message)
  BY VisibleIsTranscript DEF TypeInv, TypeOK
<1>2. /\ pc[l] = "read" /\ step[l] = 0 /\ after[l] \in Places /\ Recording(l) /\ msg[l] \in Message
      /\ UNCHANGED <<file, compacted, ref, requested, answered, nextId, cur, last, msg, after>>
  BY <1>1 DEF RecordOK, CallsKnown, Read, Recorded, blobs, log, batch, Recording
<1>3. Visible' = Visible /\ Pending' = Pending
  BY <1>2 DEF Visible, Pending
<1>4. Sound(Visible)'
  BY <1>2, <1>3 DEF MatchLocal, Sound
<1>5. CASE Refused(l) /\ ~Dropped(l)
  <2>1. pc' = [pc EXCEPT ![l] = "idle"]
    BY <1>5 DEF Read, Recorded, At
  <2> QED
    BY <1>2, <2>1, MatchMoveOn DEF Places
<1>6. CASE Dropped(l)
  <2>1. pc'[l] = after[l]
    BY <1>1, <1>6 DEF Read, Recorded, At, RecordOK
  <2>2. /\ msg[l].role = "user"
        /\ after[l] \in {"resume", "ready", "check", "call", "count", "rest"}
    BY <1>2, <1>6 DEF Dropped, TypeInv, Continues
  <2>3. ~Recording(l)' /\ ~Asking(l)' /\ Rest(l)' = Rest(l)
    BY <1>2, <2>1, <2>2 DEF Recording, Asking, Rest, InBatch, Position
  <2>4. Rest(l) \cap Answered(Visible) = {}
    <3>1. Grown(l) = Append(Visible, msg[l])
      BY <1>2 DEF Grown
    <3>2. Answered(Grown(l)) = Answered(Visible)
      BY <1>1, <1>2, <2>2, <3>1, AppendCalls
    <3> QED
      BY <1>2, <3>2 DEF MatchLocal, KeepsMatched
  <2>5. pc'[l] \notin {"compact", "log"}
    BY <2>1, <2>2
  <2> QED
    BY <1>3, <1>4, <2>3, <2>4, <2>5 DEF MatchLocal, KeepsMatched
<1>7. CASE ~Dropped(l) /\ ~Refused(l)
  <2>1. pc'[l] = "write" /\ view'[l] = Append(Visible, msg[l]) /\ step'[l] = 0
    BY <1>1, <1>2, <1>7 DEF Read, At, RecordOK
  <2>2. /\ Recording(l)' /\ (Asking(l)' <=> Asking(l)) /\ Rest(l)' = Rest(l)
        /\ Grown(l)' = Grown(l)
    BY <1>2, <2>1 DEF Recording, Asking, Rest, InBatch, Position, Grown
  <2>3. Sound(Grown(l))'
    BY <1>2, <1>3, <2>2 DEF MatchLocal, KeepsMatched, Sound
  <2> QED
    BY <1>2, <1>4, <2>1, <2>2, <2>3 DEF MatchLocal, KeepsMatched
<1> QED
  BY <1>5, <1>6, <1>7

\* The rewrite of messages.json: the old messages are visible, or the new ones.
LEMMA MatchWrite ==
    ASSUME TypeInv, NEW l \in Loops, MatchLocal(l), CallsKnown(l), Write(l)
    PROVE  MatchLocal(l)'
<1>1. RecordOK
  BY DEF TypeInv, TypeOK
<1>2. /\ pc[l] = "write" /\ step[l] = 0 /\ pc'[l] = "log" /\ file' = view[l]
      /\ ref' \in {ref, "file"}
      /\ UNCHANGED <<compacted, requested, answered, nextId, cur, last, msg, after, view, step>>
  BY <1>1 DEF RecordOK, CallsKnown, Write, At, log, batch, rec
<1>3. /\ Recording(l) /\ Recording(l)' /\ Grown(l) = view[l] /\ Grown(l)' = Grown(l)
      /\ (Asking(l)' <=> Asking(l)) /\ Rest(l)' = Rest(l) /\ Pending' = Pending
  BY <1>2 DEF Recording, Grown, Asking, Rest, InBatch, Position, Pending
<1>4. Visible' = Visible \/ Visible' = Grown(l)
  <2>1. ref \in {"none", "file", "compacted"}
    BY DEF TypeInv, TypeOK, StoreOK
  <2> QED
    BY <1>2, <1>3, <2>1 DEF Visible
<1>5. Sound(Visible)' /\ Sound(Grown(l))'
  BY <1>2, <1>3, <1>4 DEF MatchLocal, KeepsMatched, Sound
<1> QED
  BY <1>2, <1>3, <1>5 DEF MatchLocal, KeepsMatched

\* The event of a result.
LEMMA MatchLogAnswered ==
    ASSUME TypeInv, NEW l \in Loops, MatchLocal(l), LogAnswered(l)
    PROVE  MatchLocal(l)'
<1>1. /\ pc[l] = "log" /\ msg[l].role = "tool" /\ answered \subseteq answered'
      /\ UNCHANGED <<file, compacted, ref, requested, nextId, cur, last, pc, msg, after, view>>
  BY DEF LogAnswered, blobs, batch
<1>2. /\ Recording(l) /\ Recording(l)' /\ Grown(l)' = Grown(l) /\ ~Asking(l)'
      /\ Rest(l)' = Rest(l) /\ Pending' \subseteq Pending /\ Visible' = Visible
  BY <1>1 DEF Recording, Grown, Asking, Rest, InBatch, Position, Pending, Visible
<1>3. Sound(Visible)' /\ Sound(Grown(l))'
  BY <1>1, <1>2 DEF MatchLocal, KeepsMatched, Sound
<1> QED
  BY <1>1, <1>2, <1>3 DEF MatchLocal, KeepsMatched

\* The event of an append: the new messages are visible.
LEMMA MatchLogAppended ==
    ASSUME TypeInv, NEW l \in Loops, MatchLocal(l), CallsKnown(l), LogAppended(l)
    PROVE  MatchLocal(l)'
<1>1. RecordOK /\ BatchOK
  BY DEF TypeInv, TypeOK
<1>2. /\ pc[l] = "log" /\ ref' = "file" /\ after[l] \in Places /\ Recording(l)
      /\ UNCHANGED <<file, compacted, requested, answered, nextId, cur, last, msg, after>>
  BY <1>1 DEF RecordOK, LogAppended, Recorded, log, batch, Recording
<1>3. Grown(l) = view[l] /\ Visible' = Grown(l) /\ Pending' = Pending
  BY <1>2 DEF Grown, Visible, Pending, MatchLocal, KeepsMatched
<1>4. Sound(Visible)'
  BY <1>2, <1>3 DEF MatchLocal, KeepsMatched, Sound
<1>5. CASE msg[l].role = "assistant" /\ msg[l].calls # {}
  <2>1. /\ step'[l] = 1 /\ pc' = pc /\ view' = view
    <3>1. step' = [step EXCEPT ![l] = 1] /\ pc' = pc /\ view' = view
      BY <1>5, Zenon DEF LogAppended
    <3> QED
      BY <1>1, <3>1 DEF RecordOK
  <2>2. /\ Recording(l)' /\ Asking(l) /\ Grown(l)' = Grown(l) /\ Rest(l)' = Rest(l)
    BY <1>2, <1>5, <2>1 DEF Recording, Asking, Grown, Rest, InBatch, Position
  <2>3. cur'[l] + step'[l] - 1 \in msg'[l].calls
    <3>1. msg[l].calls = cur[l] .. last[l] /\ cur[l] \in Nat /\ last[l] \in Nat
      BY <1>1, <2>2 DEF CallsKnown, BatchOK
    <3>2. cur[l] \in msg[l].calls
      BY <1>5, <3>1
    <3> QED
      BY <1>2, <2>1, <3>1, <3>2
  <2>4. Sound(Grown(l))'
    BY <1>3, <1>4, <2>2 DEF Sound
  <2> QED
    BY <1>2, <1>4, <2>1, <2>2, <2>3, <2>4 DEF MatchLocal, KeepsMatched
<1>6. CASE ~(msg[l].role = "assistant" /\ msg[l].calls # {})
  <2>1. pc'[l] = after[l]
    BY <1>1, <1>6 DEF LogAppended, Recorded, At, RecordOK
  <2>2. after[l] \in {"resume", "ready", "check", "call", "count", "rest"}
    BY <1>2 DEF TypeInv, Continues
  <2>3. ~Recording(l)' /\ ~Asking(l)' /\ Rest(l)' = Rest(l)
    BY <1>2, <2>1, <2>2 DEF Recording, Asking, Rest, InBatch, Position
  <2>4. Rest(l)' \cap Answered(Visible)' = {}
    BY <1>2, <1>3, <2>3 DEF MatchLocal, KeepsMatched
  <2> QED
    BY <1>4, <2>1, <2>2, <2>3, <2>4 DEF MatchLocal, KeepsMatched
<1> QED
  BY <1>5, <1>6

\* The event of a call: it is one of those the visible messages ask for.
LEMMA MatchLogRequested ==
    ASSUME TypeInv, NEW l \in Loops, MatchLocal(l), CallsKnown(l), LogRequested(l)
    PROVE  MatchLocal(l)'
<1>1. RecordOK /\ BatchOK
  BY DEF TypeInv, TypeOK
<1> DEFINE c == cur[l] + step[l] - 1
<1>2. /\ pc[l] = "log" /\ msg[l].role = "assistant" /\ step[l] > 0
      /\ requested' = requested \cup {c} /\ after[l] \in Places
      /\ UNCHANGED <<file, compacted, ref, answered, nextId, cur, last, msg, after>>
  BY <1>1 DEF RecordOK, LogRequested, Recorded, blobs, batch
<1>3. cur[l] \in Nat /\ last[l] \in Nat /\ step[l] \in Nat
  BY <1>1 DEF BatchOK, RecordOK
<1>4. Recording(l) /\ Asking(l) /\ Grown(l) = view[l]
  BY <1>2 DEF Recording, Asking, Grown
<1>5. /\ Visible = Grown(l) /\ Visible' = Visible /\ c \in Asked(Visible)
      /\ msg[l].calls = cur[l] .. last[l] /\ c \in msg[l].calls /\ ref = "file"
  BY <1>2, <1>4 DEF MatchLocal, KeepsMatched, Visible, CallsKnown
<1>6. Sound(Visible)'
  BY <1>2, <1>5 DEF MatchLocal, Sound, Pending
<1>7. CASE c < last[l]
  <2>1. step' = [step EXCEPT ![l] = @ + 1] /\ pc' = pc /\ view' = view
    BY <1>7, Zenon DEF LogRequested
  <2>2. step'[l] = step[l] + 1
    BY <1>1, <2>1 DEF RecordOK
  <2>3. /\ Recording(l)' /\ Grown(l)' = Grown(l) /\ Rest(l)' = Rest(l)
    BY <1>2, <2>1 DEF Recording, Grown, Rest, InBatch, Position
  <2>4. cur'[l] + step'[l] - 1 \in msg'[l].calls
    BY <1>2, <1>3, <1>5, <1>7, <2>2
  <2>5. Sound(Grown(l))'
    BY <1>5, <1>6, <2>3 DEF Sound
  <2> QED
    BY <1>2, <1>4, <1>5, <1>6, <2>1, <2>2, <2>3, <2>4, <2>5 DEF MatchLocal, KeepsMatched
<1>8. CASE ~(c < last[l])
  <2>1. pc'[l] = after[l]
    BY <1>1, <1>8 DEF LogRequested, Recorded, At, RecordOK
  <2>2. after[l] \in {"resume", "ready", "check", "call", "count", "rest"}
    BY <1>2 DEF TypeInv, Continues, Recording
  <2>3. ~Recording(l)' /\ ~Asking(l)' /\ Rest(l)' = Rest(l)
    BY <1>2, <2>1, <2>2 DEF Recording, Asking, Rest, InBatch, Position
  <2>4. Rest(l)' \cap Answered(Visible)' = {}
    BY <1>4, <1>5, <2>3 DEF MatchLocal, KeepsMatched
  <2> QED
    BY <1>6, <2>1, <2>2, <2>3, <2>4 DEF MatchLocal, KeepsMatched
<1> QED
  BY <1>7, <1>8

\* A compaction that is accepted keeps every pending call.
LEMMA MatchCompact ==
    ASSUME TypeInv, NEW l \in Loops, MatchLocal(l), Compact(l), pc'[l] = "compact"
    PROVE  MatchLocal(l)'
<1>1. RecordOK /\ Visible \in Seq(Message) /\ Keep \in Nat \ {0}
  BY VisibleIsTranscript, BudgetAssumption DEF TypeInv, TypeOK
<1> DEFINE s == LiveSuffixStart(Visible, Pending, Keep)
           new == Replacement(Visible, Pending, Keep)
<1>2. /\ view'[l] = new
      /\ UNCHANGED <<file, compacted, ref, requested, answered, nextId, msg, after, step>>
  BY <1>1 DEF Compact, At, RecordOK, blobs, log
<1>3. /\ s \in 1 .. Len(Visible) + 1 /\ SuffixKeepsCalls(Visible, Pending, s)
  BY <1>1, LiveSuffixStartKeepsCalls
<1>4. Sound(new)
  BY <1>1, <1>3, SuffixMatched DEF MatchLocal, Sound, Replacement
<1>5. Visible' = Visible /\ Pending' = Pending
  BY <1>2 DEF Visible, Pending
<1>6. Sound(Visible)' /\ Sound(view[l])'
  BY <1>2, <1>4, <1>5 DEF MatchLocal, Sound
<1>7. ~Recording(l)' /\ ~Asking(l)' /\ Rest(l)' = {}
  BY DEF Recording, Asking, Rest, InBatch, Position
<1> QED
  BY <1>6, <1>7 DEF MatchLocal, KeepsMatched

\* The compacted messages take the place of the others.
LEMMA MatchLogCompacted ==
    ASSUME TypeInv, NEW l \in Loops, MatchLocal(l), LogCompacted(l)
    PROVE  MatchLocal(l)'
<1>1. RecordOK
  BY DEF TypeInv, TypeOK
<1>2. /\ pc[l] = "compact" /\ pc'[l] = "request" /\ Visible' = view[l]
      /\ Pending' = Pending /\ nextId' = nextId
  BY <1>1 DEF LogCompacted, Recorded, At, RecordOK, log, Visible, Pending
<1>3. Sound(Visible)'
  BY <1>2 DEF MatchLocal, KeepsMatched, Sound
<1>4. ~Recording(l)' /\ ~Asking(l)' /\ Rest(l)' = {}
  BY <1>2 DEF Recording, Asking, Rest, InBatch, Position
<1> QED
  BY <1>2, <1>3, <1>4 DEF MatchLocal, KeepsMatched

\* One case per action.
LEMMA MatchStep ==
    ASSUME TypeInv, TypeInv', CallsInv, NEW l \in Loops, MatchLocal(l),
           StartJob(l) \/ SubmitInput(l) \/ LoopStep(l) \/ Die(l)
    PROVE  MatchLocal(l)'
<1>1. RecordOK /\ StoreOK /\ BatchOK /\ CallsKnown(l)
  BY DEF TypeInv, TypeOK, CallsInv
<1>2. CASE StartJob(l)
  BY <1>2, MatchMoveOn DEF StartJob, At, Places, blobs, batch
<1>3. CASE SubmitInput(l)
  BY <1>3, MatchRecordUser DEF SubmitInput, log, blobs
<1>4. CASE RecordStep(l)
  BY <1>1, <1>4, MatchRead, MatchWrite, MatchLogAnswered, MatchLogAppended, MatchLogRequested
     DEF RecordStep
<1>5. CASE ResumeJob(l)
  BY <1>5, MatchMoveOn DEF ResumeJob, At, Places, blobs, batch
<1>6. CASE StartTurn(l)
  BY <1>6, MatchMoveOn DEF StartTurn, At, Places, blobs, batch
<1>7. CASE SubturnsExhausted(l)
  BY <1>7, MatchMoveOn DEF SubturnsExhausted, At, Places, blobs, batch
<1>8. CASE Compact(l)
  <2>1. CASE pc' = [pc EXCEPT ![l] = "compact"]
    BY <1>1, <1>8, <2>1, MatchCompact DEF RecordOK
  <2>2. CASE pc' = [pc EXCEPT ![l] = "idle"]
    BY <1>8, <2>2, MatchMoveOn DEF Compact, Places, blobs, log, batch
  <2> QED
    BY <1>8, <2>1, <2>2 DEF Compact, At
<1>9. CASE LogCompacted(l)
  BY <1>9, MatchLogCompacted
<1>10. CASE CompactionFails(l)
  BY <1>10, MatchMoveOn DEF CompactionFails, At, Places, blobs, log, batch
<1>11. CASE Request(l)
  BY <1>11, MatchMoveOn DEF Request, At, Places, blobs, log, batch
<1>12. CASE ModelFails(l)
  BY <1>12, MatchMoveOn DEF ModelFails, Recorded, At, Places, blobs, batch
<1>13. CASE ModelAnswers(l)
  BY <1>1, <1>13, MatchModelAnswers DEF ModelAnswers, CallsKnown
<1>14. CASE CheckBudget(l)
  <2>1. \E p \in {"rest", "call"} : pc' = [pc EXCEPT ![l] = p]
    BY <1>14 DEF CheckBudget, At
  <2> QED
    BY <1>14, <2>1, MatchMoveOn DEF CheckBudget, Places, blobs, log
<1>15. CASE RejectCall(l)
  <2>1. pc[l] = "call" /\ cur[l] <= last[l]
    BY <1>1, <1>15 DEF RejectCall, CallsKnown, Position, Recording
  <2>2. AnswerCall(l, NextCall(l)) /\ NextCall(l) \in {"call", "ready"}
    BY <1>15 DEF RejectCall, NextCall
  <2> QED
    BY <1>15, <2>1, <2>2, MatchRecordAnswer DEF RejectCall, blobs, log
<1>16. CASE ExecuteCall(l)
  <2>1. pc[l] = "call" /\ cur[l] <= last[l]
    BY <1>1, <1>16 DEF ExecuteCall, CallsKnown, Position, Recording
  <2>2. AnswerCall(l, "count")
    BY <1>16 DEF ExecuteCall, AfterAnswer
  <2> QED
    BY <1>16, <2>1, <2>2, MatchRecordAnswer DEF ExecuteCall, blobs
<1>17. CASE CountCall(l)
  <2>1. \E p \in {"rest", "call", "ready"} : pc' = [pc EXCEPT ![l] = p]
    <3>1. AfterCount(l) \in {"rest", "call", "ready"}
      BY DEF AfterCount
    <3> QED
      BY <1>17, <3>1, Zenon DEF CountCall, At
  <2> QED
    BY <1>17, <2>1, MatchMoveOn DEF CountCall, Places, blobs, batch
<1>18. CASE SkipCall(l)
  BY <1>18, MatchRecordAnswer DEF SkipCall, blobs, log
<1>19. CASE LeaveBatch(l)
  <2>1. pc[l] = "rest" /\ UNCHANGED <<file, compacted, ref, requested, answered, nextId, cur, last>>
    BY <1>19 DEF LeaveBatch, blobs, batch
  <2>2. CASE Record(l, User, "ready")
    BY <2>1, <2>2, MatchRecordUser
  <2>3. CASE \E p \in {"ready", "idle"} : pc' = [pc EXCEPT ![l] = p]
    BY <2>1, <2>3, MatchMoveOn DEF Places
  <2> QED
    BY <1>19, <2>2, <2>3 DEF LeaveBatch, At
<1>20. CASE Die(l)
  BY <1>20, MatchMoveOn DEF Die, Recorded, At, Places, blobs, log, batch
<1> QED
  BY <1>2, <1>3, <1>4, <1>5, <1>6, <1>7, <1>8, <1>9, <1>10, <1>11, <1>12, <1>13, <1>14,
     <1>15, <1>16, <1>17, <1>18, <1>19, <1>20 DEF LoopStep, SessionStep, ModelStep, CallStep

\* Nothing is asked before the job starts.
LEMMA MatchInit == Init => MatchInv
<1> SUFFICES ASSUME Init PROVE MatchInv
  OBVIOUS
<1>1. Visible = <<>> /\ Pending = {}
  BY DEF Init, Visible, Pending
<1>2. Asked(<<>>) = {} /\ Answered(<<>>) = {} /\ Matched(<<>>)
  BY DEF Asked, Answered, Matched
<1>3. \A l \in Loops : KeepsMatched(l)
  BY DEF Init, KeepsMatched, Rest, InBatch, Asking, Position, Recording
<1> QED
  BY <1>1, <1>2, <1>3 DEF MatchInv, Sound

\* When input waits for the loop before it, whatever fails or dies: the calls
\* pending by the log belong to the messages, which nobody else answers.
THEOREM MessagesMatch == ~Concurrent => (Spec => []MatchInv)
<1> SUFFICES ASSUME ~Concurrent PROVE Spec => []MatchInv
  OBVIOUS
<1>1. IInv /\ IInv' /\ CallsInv /\ MatchInv /\ [Next]_vars => MatchInv'
  <2> SUFFICES ASSUME IInv, IInv', CallsInv, MatchInv, [Next]_vars PROVE MatchInv'
    OBVIOUS
  <2>1. CASE UNCHANGED vars
    <3>1. UNCHANGED <<file, compacted, ref, requested, answered, pc, nextId, cur, last, msg, after, view, step>>
      BY <2>1 DEF vars
    <3>2. Visible' = Visible /\ Pending' = Pending
      BY <3>1 DEF Visible, Pending
    <3>3. Sound(Visible)'
      BY <3>1, <3>2 DEF MatchInv, Sound
    <3>4. ASSUME NEW k \in Loops PROVE KeepsMatched(k)'
      BY <3>1, <3>2 DEF MatchInv, KeepsMatched, Sound, Grown, Rest, InBatch, Asking, Position, Recording
    <3> QED
      BY <3>3, <3>4 DEF MatchInv
  <2>2. CASE Next
    <3>1. PICK l \in Loops : StartJob(l) \/ SubmitInput(l) \/ LoopStep(l) \/ Die(l)
      BY <2>2 DEF Next
    <3>2. \A k \in Loops : k # l => pc'[k] = "idle"
      BY <3>1, OneAtATime DEF IInv
    <3>3. MatchLocal(l)'
      BY <3>1, MatchStep DEF IInv, MatchInv, MatchLocal
    <3> QED
      BY <3>2, <3>3, MatchFromLocal
  <2> QED
    BY <2>1, <2>2
<1>2. Init => MatchInv
  BY MatchInit
<1> QED
  BY <1>1, <1>2, InductiveInvariant, CallsInvariant, PTL DEF Spec

\* Whatever a crash or a compaction leaves behind, a tool message answers a call
\* that is in the transcript, and no other one answers it, as the validator of
\* a compaction asks (validate_deepseek_native_messages in context_compaction.rs).
THEOREM AnswersHaveCalls == ~Concurrent => (Spec => []NoOrphans)
<1> SUFFICES ASSUME ~Concurrent PROVE Spec => []NoOrphans
  OBVIOUS
<1>1. MatchInv => NoOrphans
  BY DEF MatchInv, Sound, NoOrphans
<1> QED
  BY <1>1, MessagesMatch, PTL

---------------------------------------------------------------------------
(* The messages and the log when nothing fails: what a step of loop l does.  *)

StepLocal(l) == /\ ~Running(l) => Pending = {} /\ Open(Visible) = {}
                /\ ref # "none" => Visible # <<>>
                /\ Tidy(Visible)
                /\ KeepsStep(l)

\* The other loops are idle and say nothing of the messages.
LEMMA SerialFromLocal ==
    ASSUME NEW l \in Loops, StepLocal(l)', \A k \in Loops : k # l => pc'[k] = "idle"
    PROVE  SerialInv'
<1>1. ASSUME NEW k \in Loops, k # l
      PROVE  KeepsStep(k)'
  BY <1>1 DEF KeepsStep, Running, Asking, Recording
<1> QED
  BY <1>1 DEF StepLocal, SerialInv

\* What the invariant says of the one loop that runs.
LEMMA LocalFromSerial ==
    ASSUME SerialInv, NEW l \in Loops, \A k \in Loops : k # l => pc[k] = "idle"
    PROVE  StepLocal(l)
BY DEF StepLocal, SerialInv, Running

\* Between messages, the rest of the batch is what is pending and what is open.
LEMMA BetweenMessages ==
    ASSUME NEW l \in Loops, StepLocal(l), ~Recording(l)
    PROVE  Pending = Rest(l) /\ Open(Visible) = Rest(l)
<1>1. CASE Running(l)
  BY <1>1 DEF StepLocal, KeepsStep, Expected, Asking, Due, AnswerDue, Rest
<1>2. CASE ~Running(l)
  BY <1>2 DEF StepLocal, Rest, InBatch, Position, Recording, Running
<1> QED
  BY <1>1, <1>2

\* The loop moves on without a message; a batch is left when nothing of it remains.
LEMMA SerialMoveOn ==
    ASSUME TypeInv, NEW l \in Loops, MatchLocal(l), StepLocal(l), ~Recording(l),
           NEW p \in Places \ {"read", "write", "log", "compact"},
           pc' = [pc EXCEPT ![l] = p],
           p \in {"check", "call", "count", "rest"} => pc[l] \in {"check", "call", "count", "rest"},
           p \notin {"check", "call", "count", "rest"} => Rest(l) = {},
           p = "asked" => view'[l] = Visible,
           UNCHANGED <<file, compacted, ref, requested, answered, cur, last>>
    PROVE  StepLocal(l)'
<1>1. pc \in [Loops -> Places]
  BY DEF TypeInv, TypeOK, RecordOK
<1>2. Visible' = Visible /\ Pending' = Pending
  BY DEF Visible, Pending
<1>3. pc'[l] = p /\ ~Recording(l)' /\ ~Asking(l)' /\ ~AnswerDue(l)'
  BY <1>1 DEF Recording, Asking, AnswerDue
<1>4. Rest(l)' = Rest(l)
  BY <1>3 DEF Rest, InBatch, Position, Recording
<1>5. Pending' = Rest(l)' /\ Open(Visible)' = Rest(l)'
  BY <1>2, <1>4, BetweenMessages
<1>6. Expected(l)' = Rest(l)'
  BY <1>3 DEF Expected, Due, Rest
<1>7. ~Running(l)' => Rest(l)' = {}
  BY <1>3, <1>4 DEF Running
<1>8. p = "asked" => Valid(view[l])' /\ Adjacent(view[l])'
  <2>1. p = "asked" => Open(Visible) = {}
    BY <1>2, <1>4, <1>5
  <2> QED
    BY <2>1 DEF MatchLocal, Sound, Valid, StepLocal, Tidy
<1>9. KeepsStep(l)'
  BY <1>3, <1>5, <1>6, <1>8 DEF KeepsStep
<1> QED
  BY <1>2, <1>5, <1>7, <1>9 DEF StepLocal

\* The loop begins to record a message of the user: nothing is open.
LEMMA SerialRecordUser ==
    ASSUME TypeInv, NEW l \in Loops, StepLocal(l), ~Recording(l), Rest(l) = {},
           NEW p \in {"resume", "ready"}, Record(l, User, p),
           UNCHANGED <<file, compacted, ref, requested, answered>>
    PROVE  StepLocal(l)'
<1>1. RecordOK /\ Visible \in Seq(Message)
  BY VisibleIsTranscript DEF TypeInv, TypeOK
<1>2. Visible' = Visible /\ Pending' = Pending
  BY DEF Visible, Pending
<1>3. pc'[l] = "read" /\ msg'[l] = User /\ after'[l] = p
  BY <1>1 DEF RecordOK, Record, At
<1>4. /\ Running(l)' /\ Recording(l)' /\ ~Asking(l)' /\ ~AnswerDue(l)'
      /\ Rest(l)' = {} /\ Due(l)' = {} /\ OpenBefore(l)' = {}
  BY <1>3 DEF Running, Recording, Asking, AnswerDue, Rest, Due, InBatch, Position, User, OpenBefore
<1>5. Pending = {} /\ Open(Visible) = {}
  BY BetweenMessages
<1>6. Grown(l)' = Append(Visible, User)
  BY <1>2, <1>3 DEF Grown
<1>7. Open(Append(Visible, User)) = {} /\ Tidy(Append(Visible, User))
  BY <1>1, <1>5, MessageTypes, AppendCalls, AppendTidy DEF Open, User, StepLocal
<1>8. Expected(l)' = {}
  BY <1>4 DEF Expected
<1>9. KeepsStep(l)'
  BY <1>2, <1>3, <1>4, <1>5, <1>6, <1>7, <1>8 DEF KeepsStep
<1> QED
  BY <1>2, <1>4, <1>9 DEF StepLocal

\* The loop begins to record the answer to the call at hand.
LEMMA SerialRecordAnswer ==
    ASSUME TypeInv, NEW l \in Loops, StepLocal(l),
           NEW p \in {"call", "count", "rest", "ready"},
           pc[l] \in {"call", "rest"}, cur[l] <= last[l], p = "ready" => cur[l] = last[l],
           AnswerCall(l, p),
           UNCHANGED <<file, compacted, ref, requested, answered>>
    PROVE  StepLocal(l)'
<1>1. RecordOK /\ BatchOK /\ Visible \in Seq(Message)
  BY VisibleIsTranscript DEF TypeInv, TypeOK
<1>2. cur[l] \in Nat /\ last[l] \in Nat
  BY <1>1 DEF BatchOK
<1>3. Visible' = Visible /\ Pending' = Pending
  BY DEF Visible, Pending
<1>4. /\ pc'[l] = "read" /\ msg'[l] = Tool(cur[l]) /\ after'[l] = p
      /\ cur'[l] = cur[l] + 1 /\ last'[l] = last[l]
  BY <1>1 DEF RecordOK, BatchOK, AnswerCall, Record, At
<1>5. /\ Running(l)' /\ Recording(l)' /\ ~Asking(l)' /\ AnswerDue(l)'
      /\ msg'[l].role = "tool" /\ msg'[l].calls = {cur[l]}
  BY <1>4 DEF Running, Recording, Asking, AnswerDue, Tool
<1>6. Pending = cur[l] .. last[l] /\ Open(Visible) = cur[l] .. last[l]
  <2>1. ~Recording(l) /\ Rest(l) = cur[l] .. last[l]
    BY DEF Recording, Rest, InBatch, Position
  <2> QED
    BY <2>1, BetweenMessages
<1>7. Rest(l)' = cur[l] + 1 .. last[l]
  <2>1. CASE p = "ready"
    <3>1. Rest(l)' = {}
      BY <1>4, <2>1 DEF Rest, InBatch, Position, Recording
    <3> QED
      BY <1>2, <2>1, <3>1
  <2>2. CASE p # "ready"
    BY <1>4, <2>2 DEF Rest, InBatch, Position, Recording
  <2> QED
    BY <2>1, <2>2
<1>8. {cur[l]} \cup (cur[l] + 1 .. last[l]) = cur[l] .. last[l]
  BY <1>2
<1>9. Expected(l)' = cur[l] .. last[l] /\ OpenBefore(l)' = cur[l] .. last[l]
  <2>1. Due(l)' = Rest(l)' \cup {cur[l]}
    BY <1>5 DEF Due, Rest
  <2>2. cur'[l] - 1 = cur[l]
    BY <1>2, <1>4
  <2> QED
    BY <1>5, <1>7, <1>8, <2>1, <2>2 DEF Expected, OpenBefore
<1> DEFINE new == Append(Visible, Tool(cur[l]))
<1>10. Grown(l)' = new
  BY <1>3, <1>4 DEF Grown
<1>11. Tool(cur[l]) \in Message /\ Tool(cur[l]).role = "tool" /\ Tool(cur[l]).calls = {cur[l]}
  BY <1>2, MessageTypes DEF Tool
<1>12. Open(new) = cur[l] + 1 .. last[l]
  <2>1. Asked(new) = Asked(Visible) /\ Answered(new) = Answered(Visible) \cup {cur[l]}
    BY <1>1, <1>11, AppendCalls
  <2>2. Open(new) = (cur[l] .. last[l]) \ {cur[l]}
    BY <1>6, <2>1 DEF Open
  <2> QED
    BY <1>2, <2>2
<1>13. Tidy(new)
  <2>1. cur[l] \in cur[l] .. last[l]
    BY <1>2
  <2> QED
    BY <1>1, <1>6, <1>11, <2>1, AppendTidy DEF StepLocal
<1>14. msg'[l] = Tool(cur'[l] - 1)
  <2>1. cur'[l] - 1 = cur[l]
    BY <1>2, <1>4
  <2> QED
    BY <1>4, <2>1
<1>15. KeepsStep(l)'
  BY <1>3, <1>4, <1>5, <1>6, <1>7, <1>9, <1>10, <1>12, <1>13, <1>14 DEF KeepsStep
<1> QED
  BY <1>3, <1>5, <1>15 DEF StepLocal

\* The model asks only when nothing is open.
LEMMA SerialModelAnswers ==
    ASSUME TypeInv, NEW l \in Loops, MatchLocal(l), StepLocal(l), CallsKnown(l), ModelAnswers(l)
    PROVE  StepLocal(l)'
<1>1. RecordOK /\ BatchOK /\ StoreOK /\ Visible \in Seq(Message)
  BY VisibleIsTranscript DEF TypeInv, TypeOK
<1>2. PICK n \in 0 .. MaxBatch :
        /\ nextId' = nextId + n
        /\ cur' = [cur EXCEPT ![l] = nextId]
        /\ last' = [last EXCEPT ![l] = nextId + n - 1]
        /\ msg' = [msg EXCEPT ![l] = Assistant(nextId .. nextId + n - 1)]
        /\ after' = [after EXCEPT ![l] = IF n = 0 THEN "ready" ELSE "check"]
  BY DEF ModelAnswers
<1>3. nextId \in Nat /\ n \in Nat
  BY <1>1, BudgetAssumption DEF StoreOK
<1> DEFINE C == nextId .. nextId + n - 1
           new == Append(Visible, Assistant(C))
<1>4. /\ cur'[l] = nextId /\ last'[l] = nextId + n - 1 /\ msg'[l] = Assistant(C)
      /\ after'[l] = (IF n = 0 THEN "ready" ELSE "check")
      /\ pc[l] = "asked" /\ pc'[l] = "read" /\ step'[l] = 0
      /\ Visible' = Visible /\ Pending' = Pending /\ ref' = ref
  BY <1>1, <1>2
     DEF RecordOK, BatchOK, ModelAnswers, At, log, blobs, Visible, Pending, CallsKnown
<1>5. Assistant(C) \in Message /\ Assistant(C).role = "assistant" /\ Assistant(C).calls = C
  BY <1>3, MessageTypes DEF Assistant
<1>6. Pending = {} /\ Open(Visible) = {}
  <2>1. ~Recording(l) /\ Rest(l) = {}
    BY <1>4 DEF Recording, Rest, InBatch, Position
  <2> QED
    BY <2>1, BetweenMessages
<1>7. /\ Running(l)' /\ Recording(l)' /\ Asking(l)' /\ Grown(l)' = new /\ OpenBefore(l)' = {}
  BY <1>4, <1>5 DEF Running, Recording, Asking, Grown, OpenBefore
<1>8. Rest(l)' = C
  <2>1. CASE n = 0
    <3>1. Rest(l)' = {}
      BY <1>4, <2>1 DEF Rest, InBatch, Position, Recording
    <3> QED
      BY <1>3, <2>1, <3>1
  <2>2. CASE n # 0
    BY <1>4, <2>2 DEF Rest, InBatch, Position, Recording
  <2> QED
    BY <2>1, <2>2
<1>9. Expected(l)' = {}
  <2>1. nextId .. (nextId + 0 - 2) = {}
    BY <1>3
  <2> QED
    BY <1>4, <1>7, <2>1 DEF Expected
<1>10. Open(new) = C
  <2>1. C \cap Answered(Visible) = {}
    <3>1. \A c \in Asked(Visible) : c < nextId
      BY DEF MatchLocal, Sound
    <3>2. Answered(Visible) \subseteq Asked(Visible)
      BY <1>1, AnsweredWasAsked DEF MatchLocal, Sound
    <3>3. \A c \in C : ~(c < nextId)
      BY <1>3
    <3> QED
      BY <3>1, <3>2, <3>3
  <2> QED
    BY <1>1, <1>5, <1>6, <2>1, AppendCalls DEF Open
<1>11. Tidy(new)
  BY <1>1, <1>5, <1>6, AppendTidy DEF StepLocal
<1>12. KeepsStep(l)'
  BY <1>4, <1>5, <1>6, <1>7, <1>8, <1>9, <1>10, <1>11 DEF KeepsStep
<1> QED
  BY <1>4, <1>7, <1>12 DEF StepLocal

\* What a loop that has yet to write its message records.
LEMMA BeforeWrite ==
    ASSUME TypeInv, NEW l \in Loops, StepLocal(l), pc[l] \in {"read", "write"}
    PROVE  /\ Grown(l) = Append(Visible, msg[l]) /\ Open(Visible) = OpenBefore(l)
           /\ msg[l] \in Message /\ Visible \in Seq(Message)
           /\ msg[l].role = "user" => Rest(l) = {}
<1>1. RecordOK /\ Visible \in Seq(Message)
  BY VisibleIsTranscript DEF TypeInv, TypeOK
<1>2. /\ Recording(l) /\ Open(Grown(l)) = Rest(l)
      /\ Grown(l) = Append(Visible, msg[l]) /\ Open(Visible) = OpenBefore(l)
  BY DEF StepLocal, KeepsStep, Recording
<1>3. msg[l] \in Message
  BY <1>1 DEF RecordOK
<1>4. msg[l].role = "user" => Open(Append(Visible, msg[l])) = Open(Visible) /\ OpenBefore(l) = {}
  BY <1>1, <1>3, AppendCalls DEF Open, OpenBefore
<1> QED
  BY <1>1, <1>2, <1>3, <1>4

\* The first statement of a recording: dropped or begun, never refused.
LEMMA SerialRead ==
    ASSUME TypeInv, NEW l \in Loops, StepLocal(l), CallsKnown(l), Read(l), ~Refused(l)
    PROVE  StepLocal(l)'
<1>1. RecordOK
  BY DEF TypeInv, TypeOK
<1>2. /\ pc[l] = "read" /\ step[l] = 0 /\ after[l] \in Places
      /\ Recording(l) /\ Running(l)
      /\ UNCHANGED <<file, compacted, ref, requested, answered, cur, last, msg, after>>
  BY <1>1 DEF RecordOK, CallsKnown, Read, Recorded, blobs, log, batch, Recording, Running
<1>3. Visible' = Visible /\ Pending' = Pending
  BY <1>2 DEF Visible, Pending
<1>4. /\ Grown(l) = Append(Visible, msg[l]) /\ Open(Visible) = OpenBefore(l)
      /\ msg[l].role = "user" => Rest(l) = {}
  BY <1>2, BeforeWrite
<1>5. CASE Dropped(l)
  <2>1. pc'[l] = after[l]
    BY <1>1, <1>5 DEF Read, Recorded, At, RecordOK
  <2>2. /\ msg[l].role = "user"
        /\ after[l] \in {"resume", "ready", "check", "call", "count", "rest"}
    BY <1>2, <1>5 DEF Dropped, TypeInv, Continues
  <2>3. /\ Running(l)' /\ ~Recording(l)' /\ ~Asking(l)' /\ ~AnswerDue(l)'
        /\ Rest(l)' = Rest(l) /\ ~Asking(l) /\ ~AnswerDue(l)
    BY <1>2, <2>1, <2>2 DEF Running, Recording, Asking, AnswerDue, Rest, InBatch, Position
  <2>4. Expected(l)' = Rest(l) /\ Expected(l) = Rest(l)
    BY <2>3 DEF Expected, Due, Rest
  <2>5. Pending' = Expected(l)' /\ Open(Visible)' = Rest(l)'
    BY <1>2, <1>3, <1>4, <2>2, <2>3, <2>4 DEF StepLocal, KeepsStep, OpenBefore
  <2>6. KeepsStep(l)'
    BY <2>1, <2>2, <2>3, <2>5 DEF KeepsStep
  <2> QED
    BY <1>2, <1>3, <2>3, <2>6 DEF StepLocal
<1>6. CASE ~Dropped(l)
  <2>1. pc'[l] = "write" /\ view'[l] = Append(Visible, msg[l]) /\ step'[l] = 0
    BY <1>1, <1>2, <1>6 DEF Read, At, RecordOK
  <2>2. /\ Running(l)' /\ Recording(l)' /\ (Asking(l)' <=> Asking(l)) /\ Rest(l)' = Rest(l)
        /\ (AnswerDue(l)' <=> AnswerDue(l)) /\ Grown(l)' = Grown(l)
        /\ OpenBefore(l)' = OpenBefore(l)
    BY <1>2, <2>1
       DEF Running, Recording, Asking, AnswerDue, Rest, InBatch, Position, Grown, OpenBefore
  <2>3. Expected(l)' = Expected(l)
    BY <1>2, <2>1, <2>2 DEF Expected, Due, Rest
  <2>4. KeepsStep(l)'
    BY <1>2, <1>3, <1>4, <2>1, <2>2, <2>3 DEF StepLocal, KeepsStep
  <2> QED
    BY <1>2, <1>3, <2>2, <2>4 DEF StepLocal
<1> QED
  BY <1>5, <1>6

\* The rewrite of messages.json.
LEMMA SerialWrite ==
    ASSUME TypeInv, NEW l \in Loops, MatchLocal(l), StepLocal(l), CallsKnown(l), Write(l)
    PROVE  StepLocal(l)'
<1>1. RecordOK /\ StoreOK
  BY DEF TypeInv, TypeOK
<1>2. /\ pc[l] = "write" /\ step[l] = 0 /\ pc'[l] = "log" /\ file' = view[l]
      /\ ref' \in {ref, "file"} /\ ref \in {"none", "file", "compacted"}
      /\ UNCHANGED <<compacted, requested, answered, cur, last, msg, after, view, step>>
  BY <1>1 DEF RecordOK, StoreOK, CallsKnown, Write, At, log, batch, rec
<1>3. /\ Running(l) /\ Running(l)' /\ Recording(l) /\ Recording(l)'
      /\ Grown(l) = view[l] /\ Grown(l)' = Grown(l)
      /\ (Asking(l)' <=> Asking(l)) /\ (AnswerDue(l)' <=> AnswerDue(l))
      /\ Rest(l)' = Rest(l) /\ Pending' = Pending /\ OpenBefore(l)' = OpenBefore(l)
  BY <1>2 DEF Running, Recording, Grown, Asking, AnswerDue, Rest, InBatch, Position, Pending,
              OpenBefore
<1>4. Expected(l)' = Expected(l)
  BY <1>2, <1>3 DEF Expected, Due, Rest
<1>5. /\ Grown(l) = Append(Visible, msg[l]) /\ Open(Visible) = OpenBefore(l)
      /\ Grown(l) # <<>>
  <2>1. /\ Grown(l) = Append(Visible, msg[l]) /\ Open(Visible) = OpenBefore(l)
        /\ msg[l] \in Message /\ Visible \in Seq(Message)
    BY <1>2, BeforeWrite
  <2>2. Len(Append(Visible, msg[l])) = Len(Visible) + 1 /\ Len(Visible) \in Nat
    BY <2>1, AppendedTo
  <2>3. Len(<<>>) = 0
    OBVIOUS
  <2> QED
    BY <2>1, <2>2, <2>3
<1>6. \/ Visible' = Visible /\ ref' = ref
      \/ Visible' = Grown(l) /\ ref' = "file"
  BY <1>2, <1>3 DEF Visible
<1>7. Tidy(Visible)' /\ (ref' # "none" => Visible' # <<>>)
  BY <1>3, <1>5, <1>6 DEF StepLocal, KeepsStep
<1>8. KeepsStep(l)'
  <2>1. Pending' = Expected(l)' /\ Open(Grown(l))' = Rest(l)' /\ Tidy(Grown(l))'
    BY <1>3, <1>4 DEF StepLocal, KeepsStep
  <2>2. \/ Grown(l)' = Append(Visible', msg'[l]) /\ Open(Visible)' = OpenBefore(l)'
        \/ ref' = "file"
    BY <1>2, <1>3, <1>5, <1>6
  <2>3. /\ Asking(l)' => msg'[l].calls = Rest(l)'
        /\ ~Asking(l)' => msg'[l] \in {User, Tool(cur'[l] - 1)}
    BY <1>2, <1>3 DEF StepLocal, KeepsStep
  <2> QED
    BY <1>2, <1>3, <2>1, <2>2, <2>3 DEF KeepsStep
<1> QED
  BY <1>3, <1>7, <1>8 DEF StepLocal

\* The event of a result: the call is no longer pending.
LEMMA SerialLogAnswered ==
    ASSUME TypeInv, NEW l \in Loops, StepLocal(l), CallsKnown(l), LogAnswered(l)
    PROVE  StepLocal(l)'
<1>1. RecordOK /\ BatchOK
  BY DEF TypeInv, TypeOK
<1>2. /\ pc[l] = "log" /\ msg[l].role = "tool" /\ step[l] = 0 /\ step'[l] = 1
      /\ answered' = answered \cup msg[l].calls
      /\ UNCHANGED <<file, compacted, ref, requested, cur, last, pc, msg, after, view>>
  BY <1>1 DEF LogAnswered, blobs, batch, RecordOK
<1>3. /\ Running(l) /\ Running(l)' /\ Recording(l) /\ Recording(l)' /\ Grown(l)' = Grown(l)
      /\ ~Asking(l) /\ ~Asking(l)' /\ AnswerDue(l) /\ ~AnswerDue(l)'
      /\ Rest(l)' = Rest(l) /\ Visible' = Visible /\ OpenBefore(l)' = OpenBefore(l)
  BY <1>2 DEF Running, Recording, Grown, Asking, AnswerDue, Rest, InBatch, Position, Visible,
              OpenBefore
<1>4. Pending = Rest(l) \cup {cur[l] - 1} /\ msg[l].calls = {cur[l] - 1}
  BY <1>3 DEF StepLocal, KeepsStep, Expected, Due, Rest, CallsKnown
<1>5. cur[l] - 1 \notin Rest(l)
  BY <1>1 DEF Rest, BatchOK
<1>6. Pending' = Pending \ {cur[l] - 1}
  BY <1>2, <1>4 DEF Pending
<1>7. Expected(l)' = Rest(l)'
  BY <1>3 DEF Expected, Due, Rest
<1>8. Pending' = Expected(l)'
  BY <1>3, <1>4, <1>5, <1>6, <1>7
<1>9. KeepsStep(l)'
  BY <1>2, <1>3, <1>8 DEF StepLocal, KeepsStep
<1> QED
  BY <1>2, <1>3, <1>9 DEF StepLocal

\* The event of an append: the message is visible, and nothing of it pending yet.
LEMMA SerialLogAppended ==
    ASSUME TypeInv, NEW l \in Loops, MatchLocal(l), StepLocal(l), CallsKnown(l), LogAppended(l)
    PROVE  StepLocal(l)'
<1>1. RecordOK /\ BatchOK
  BY DEF TypeInv, TypeOK
<1>2. /\ pc[l] = "log" /\ step[l] = (IF msg[l].role = "tool" THEN 1 ELSE 0)
      /\ ref' = "file" /\ after[l] \in Places /\ Recording(l) /\ Running(l)
      /\ UNCHANGED <<file, compacted, requested, answered, cur, last, msg, after>>
  BY <1>1 DEF RecordOK, LogAppended, Recorded, log, batch, Recording, Running
<1>3. /\ Grown(l) = view[l] /\ file = view[l] /\ Visible' = Grown(l) /\ Pending' = Pending
      /\ ~AnswerDue(l) /\ Due(l) = Rest(l)
  BY <1>2 DEF Grown, Visible, Pending, MatchLocal, KeepsMatched, AnswerDue, Due, Rest
<1>4. Grown(l) # <<>>
  <2>1. CASE Grown(l) = Append(Visible, msg[l])
    <3>1. msg[l] \in Message /\ Visible \in Seq(Message)
      BY <1>1, VisibleIsTranscript DEF TypeInv, RecordOK
    <3>2. Len(Append(Visible, msg[l])) = Len(Visible) + 1 /\ Len(Visible) \in Nat
      BY <3>1, AppendedTo
    <3>3. Len(<<>>) = 0
      OBVIOUS
    <3> QED
      BY <2>1, <3>2, <3>3
  <2>2. CASE ref = "file"
    BY <1>3, <2>2 DEF StepLocal, Visible
  <2> QED
    BY <1>2, <2>1, <2>2 DEF StepLocal, KeepsStep
<1>5. Tidy(Visible)' /\ Visible' # <<>> /\ Open(Visible)' = Rest(l)
  BY <1>2, <1>3, <1>4 DEF StepLocal, KeepsStep
<1>6. CASE msg[l].role = "assistant" /\ msg[l].calls # {}
  <2>1. step'[l] = 1 /\ pc' = pc /\ view' = view
    <3>1. step' = [step EXCEPT ![l] = 1] /\ pc' = pc /\ view' = view
      BY <1>6, Zenon DEF LogAppended
    <3> QED
      BY <1>1, <3>1 DEF RecordOK
  <2>2. /\ Running(l)' /\ Recording(l)' /\ Asking(l) /\ Asking(l)' /\ Grown(l)' = Grown(l)
        /\ Rest(l)' = Rest(l)
    BY <1>2, <1>6, <2>1 DEF Running, Recording, Asking, Grown, Rest, InBatch, Position
  <2>3. Expected(l) = {} /\ Expected(l)' = {}
    <3>1. cur[l] \in Nat
      BY <1>1 DEF BatchOK
    <3>2. cur[l] .. (cur[l] + 0 - 2) = {} /\ cur[l] .. (cur[l] + 1 - 2) = {}
      BY <3>1
    <3> QED
      BY <1>2, <1>6, <2>1, <2>2, <3>2 DEF Expected
  <2>4. KeepsStep(l)'
    BY <1>2, <1>3, <2>1, <2>2, <2>3 DEF StepLocal, KeepsStep
  <2> QED
    BY <1>5, <2>2, <2>4 DEF StepLocal
<1>7. CASE ~(msg[l].role = "assistant" /\ msg[l].calls # {})
  <2>1. pc'[l] = after[l]
    BY <1>1, <1>7 DEF LogAppended, Recorded, At, RecordOK
  <2>2. after[l] \in {"resume", "ready", "check", "call", "count", "rest"}
    BY <1>2 DEF TypeInv, Continues
  <2>3. /\ Running(l)' /\ ~Recording(l)' /\ ~Asking(l)' /\ ~AnswerDue(l)' /\ Rest(l)' = Rest(l)
    BY <1>2, <2>1, <2>2 DEF Running, Recording, Asking, AnswerDue, Rest, InBatch, Position
  <2>4. Expected(l)' = Rest(l)
    BY <2>3 DEF Expected, Due, Rest
  <2>5. Pending = Rest(l)
    <3>1. CASE Asking(l)
      <4>1. Rest(l) = {} /\ Pending = cur[l] .. (cur[l] + 0 - 2) /\ cur[l] \in Nat
        BY <1>1, <1>2, <1>7, <3>1 DEF StepLocal, KeepsStep, Asking, Expected, BatchOK
      <4> QED
        BY <4>1
    <3>2. CASE ~Asking(l)
      BY <1>2, <1>3, <3>2 DEF StepLocal, KeepsStep, Expected
    <3> QED
      BY <3>1, <3>2
  <2>6. KeepsStep(l)'
    BY <1>3, <1>5, <2>1, <2>2, <2>3, <2>4, <2>5 DEF KeepsStep
  <2> QED
    BY <1>5, <2>3, <2>6 DEF StepLocal
<1> QED
  BY <1>6, <1>7

\* The event of a call: it is pending, the last one with the whole batch.
LEMMA SerialLogRequested ==
    ASSUME TypeInv, NEW l \in Loops, MatchLocal(l), StepLocal(l), CallsKnown(l), LogRequested(l)
    PROVE  StepLocal(l)'
<1>1. RecordOK /\ BatchOK
  BY DEF TypeInv, TypeOK
<1> DEFINE c == cur[l] + step[l] - 1
<1>2. /\ pc[l] = "log" /\ msg[l].role = "assistant" /\ step[l] > 0
      /\ requested' = requested \cup {c} /\ after[l] \in Places
      /\ UNCHANGED <<file, compacted, ref, answered, cur, last, msg, after>>
  BY <1>1 DEF RecordOK, LogRequested, Recorded, blobs, batch
<1>3. cur[l] \in Nat /\ last[l] \in Nat /\ step[l] \in Nat
  BY <1>1 DEF BatchOK, RecordOK
<1>4. /\ Running(l) /\ Recording(l) /\ Asking(l) /\ ~AnswerDue(l) /\ Grown(l) = view[l]
      /\ ref = "file" /\ Visible = Grown(l) /\ Visible' = Visible
      /\ c \in msg[l].calls /\ msg[l].calls = cur[l] .. last[l] /\ msg[l].calls = Rest(l)
  <2>1. /\ Running(l) /\ Recording(l) /\ Asking(l) /\ ~AnswerDue(l) /\ Grown(l) = view[l]
    BY <1>2 DEF Running, Recording, Asking, AnswerDue, Grown
  <2> QED
    BY <1>2, <2>1
       DEF MatchLocal, KeepsMatched, Visible, CallsKnown, StepLocal, KeepsStep
<1>5. Rest(l) = cur[l] .. last[l] /\ c <= last[l] /\ c \notin answered
  BY <1>3, <1>4 DEF CallsKnown, Due, Rest
<1>6. Pending' = cur[l] .. c
  <2>1. Pending = cur[l] .. (c - 1)
    <3>1. cur[l] + step[l] - 2 = c - 1
      BY <1>3
    <3> QED
      BY <1>4, <3>1 DEF StepLocal, KeepsStep, Expected
  <2>2. Pending' = Pending \cup {c}
    BY <1>2, <1>5 DEF Pending
  <2> QED
    BY <1>2, <1>3, <2>1, <2>2
<1>7. Tidy(Visible)' /\ (ref' # "none" => Visible' # <<>>) /\ Open(Visible)' = Rest(l)
  BY <1>2, <1>4 DEF StepLocal, KeepsStep
<1>8. CASE c < last[l]
  <2>1. step' = [step EXCEPT ![l] = @ + 1] /\ pc' = pc /\ view' = view
    BY <1>8, Zenon DEF LogRequested
  <2>2. step'[l] = step[l] + 1
    BY <1>1, <2>1 DEF RecordOK
  <2>3. /\ Running(l)' /\ Recording(l)' /\ Asking(l)' /\ Grown(l)' = Grown(l)
        /\ Rest(l)' = Rest(l)
    BY <1>2, <1>4, <2>1 DEF Running, Recording, Asking, Grown, Rest, InBatch, Position
  <2>4. Expected(l)' = cur[l] .. c
    <3>1. cur[l] + (step[l] + 1) - 2 = c
      BY <1>3
    <3> QED
      BY <1>2, <2>2, <2>3, <3>1 DEF Expected
  <2>5. KeepsStep(l)'
    BY <1>2, <1>4, <1>6, <2>1, <2>3, <2>4 DEF StepLocal, KeepsStep
  <2> QED
    BY <1>7, <2>3, <2>5 DEF StepLocal
<1>9. CASE ~(c < last[l])
  <2>1. pc'[l] = after[l]
    BY <1>1, <1>9 DEF LogRequested, Recorded, At, RecordOK
  <2>2. after[l] \in {"resume", "ready", "check", "call", "count", "rest"}
    BY <1>2 DEF TypeInv, Continues, Recording
  <2>3. /\ Running(l)' /\ ~Recording(l)' /\ ~Asking(l)' /\ ~AnswerDue(l)' /\ Rest(l)' = Rest(l)
    BY <1>2, <2>1, <2>2 DEF Running, Recording, Asking, AnswerDue, Rest, InBatch, Position
  <2>4. Expected(l)' = Rest(l)
    BY <2>3 DEF Expected, Due, Rest
  <2>5. c = last[l]
    BY <1>3, <1>5, <1>9
  <2>6. Pending' = Expected(l)'
    BY <1>5, <1>6, <2>4, <2>5
  <2>7. KeepsStep(l)'
    BY <1>7, <2>1, <2>2, <2>3, <2>6 DEF KeepsStep
  <2> QED
    BY <1>7, <2>3, <2>7 DEF StepLocal
<1> QED
  BY <1>8, <1>9

\* Where a loop may compact, the replacement is valid and tidy, and one that
\* TranscriptProtocol allows.
LEMMA CompactionFits ==
    ASSUME TypeInv, NEW l \in Loops, MatchLocal(l), StepLocal(l), pc[l] = "ready", ref # "none"
    PROVE  LET new == Replacement(Visible, Pending, Keep)
           IN  /\ Valid(new) /\ Tidy(new) /\ Compacts(Visible, new) /\ new # <<>>
               /\ Open(Visible) = {}
<1> DEFINE s == LiveSuffixStart(Visible, Pending, Keep)
           new == Replacement(Visible, Pending, Keep)
<1>1. Visible \in Seq(Message) /\ Keep \in Nat \ {0}
  BY VisibleIsTranscript, BudgetAssumption DEF TypeInv
<1>2. Pending = {} /\ Open(Visible) = {}
  <2>1. ~Recording(l) /\ Rest(l) = {}
    BY DEF Recording, Rest, InBatch, Position
  <2> QED
    BY <2>1, BetweenMessages
<1>3. /\ s \in 1 .. Len(Visible) + 1 /\ s \in 1 .. Len(Visible)
      /\ SuffixKeepsCalls(Visible, {}, s)
  BY <1>1, <1>2, LiveSuffixStartKeepsCalls DEF StepLocal
<1>4. new = <<User>> \o SubSeq(Visible, s, Len(Visible))
  BY DEF Replacement
<1> HIDE DEF s, new
<1>5. Matched(Visible) /\ Adjacent(Visible)
  BY DEF MatchLocal, Sound, StepLocal, Tidy
<1>6. Matched(new)
  BY <1>1, <1>3, <1>4, <1>5, SuffixMatched
<1>7. Open(new) = {} /\ Adjacent(new)
  BY <1>1, <1>2, <1>3, <1>4, <1>5, SuffixValid
<1>8. new # <<>>
  <2>1. new[1] = User /\ Len(new) = Len(Visible) - s + 2
    BY <1>1, <1>3, <1>4, SuffixMessages
  <2>2. Len(new) # 0
    BY <1>1, <1>3, <2>1, LenProperties
  <2> QED
    BY <2>2
<1>9. Compacts(Visible, new)
  BY <1>3, <1>4 DEF Compacts
<1> QED
  BY <1>2, <1>6, <1>7, <1>8, <1>9 DEF Valid, Tidy, new

\* A compaction is accepted.
LEMMA SerialCompact ==
    ASSUME TypeInv, NEW l \in Loops, MatchLocal(l), StepLocal(l), Compact(l)
    PROVE  StepLocal(l)' /\ pc'[l] = "compact"
<1>1. RecordOK
  BY DEF TypeInv, TypeOK
<1> DEFINE new == Replacement(Visible, Pending, Keep)
<1>2. pc[l] = "ready" /\ ref # "none"
  BY DEF Compact
<1>3. Valid(new) /\ Tidy(new) /\ Compacts(Visible, new) /\ Open(Visible) = {}
  BY <1>2, CompactionFits
<1> HIDE DEF new
<1>4. /\ view' = [view EXCEPT ![l] = new] /\ pc' = [pc EXCEPT ![l] = "compact"]
      /\ UNCHANGED <<file, compacted, ref, requested, answered, cur, last, msg, after, step>>
  <2>1. UNCHANGED <<blobs, log, batch, msg, after, step>>
    BY DEF Compact
  <2>2. view' = [view EXCEPT ![l] = new] /\ pc' = [pc EXCEPT ![l] = "compact"]
    BY <1>3 DEF Compact, At, new
  <2> QED
    BY <2>1, <2>2 DEF blobs, log, batch
<1>5. view'[l] = new /\ pc'[l] = "compact"
  BY <1>1, <1>4 DEF RecordOK
<1>6. Visible' = Visible /\ Pending' = Pending
  BY <1>4 DEF Visible, Pending
<1>7. /\ Running(l)' /\ ~Recording(l)' /\ ~Asking(l)' /\ ~AnswerDue(l)' /\ Rest(l)' = {}
      /\ ~Recording(l) /\ Rest(l) = {}
  BY <1>2, <1>5 DEF Running, Recording, Asking, AnswerDue, Rest, InBatch, Position
<1>8. Expected(l)' = {}
  BY <1>7 DEF Expected, Due, Rest
<1>9. Pending = {}
  BY <1>7, BetweenMessages
<1>10. Open(new) = {}
  BY <1>3 DEF Valid
<1>11. KeepsStep(l)'
  BY <1>3, <1>5, <1>6, <1>7, <1>8, <1>9, <1>10 DEF KeepsStep
<1> QED
  BY <1>4, <1>5, <1>6, <1>7, <1>11 DEF StepLocal

\* The compacted messages are visible.
LEMMA SerialLogCompacted ==
    ASSUME TypeInv, NEW l \in Loops, StepLocal(l), LogCompacted(l)
    PROVE  StepLocal(l)'
<1>1. RecordOK
  BY DEF TypeInv, TypeOK
<1>2. /\ pc[l] = "compact" /\ pc'[l] = "request" /\ Visible' = view[l] /\ Pending' = Pending
  BY <1>1 DEF LogCompacted, Recorded, At, RecordOK, log, Visible, Pending
<1>3. Open(view[l]) = {} /\ Tidy(view[l]) /\ Compacts(Visible, view[l])
  BY <1>2 DEF StepLocal, KeepsStep
<1>4. view[l] # <<>>
  <2>1. Visible \in Seq(Message)
    BY VisibleIsTranscript DEF TypeInv
  <2>2. PICK s \in 1 .. Len(Visible) : view[l] = <<User>> \o SubSeq(Visible, s, Len(Visible))
    BY <1>3 DEF Compacts
  <2>3. s \in 1 .. Len(Visible) + 1 /\ Len(Visible) \in Nat
    BY <2>1, LenProperties
  <2>4. Len(view[l]) = Len(Visible) - s + 2
    BY <2>1, <2>2, <2>3, SuffixMessages
  <2>5. Len(view[l]) # 0
    BY <2>3, <2>4
  <2> QED
    BY <2>5
<1>5. /\ Running(l)' /\ ~Recording(l)' /\ ~Asking(l)' /\ ~AnswerDue(l)' /\ Rest(l)' = {}
      /\ ~Recording(l) /\ Rest(l) = {}
  BY <1>2 DEF Running, Recording, Asking, AnswerDue, Rest, InBatch, Position
<1>6. Expected(l)' = {}
  BY <1>5 DEF Expected, Due, Rest
<1>7. Pending = {}
  BY <1>5, BetweenMessages
<1>8. KeepsStep(l)'
  BY <1>2, <1>3, <1>5, <1>6, <1>7 DEF KeepsStep
<1> QED
  BY <1>2, <1>3, <1>4, <1>5, <1>8 DEF StepLocal

\* One case per action.
LEMMA SerialStep ==
    ASSUME TypeInv, TypeInv', CallsInv, ~Faults, NEW l \in Loops, MatchLocal(l), StepLocal(l),
           StartJob(l) \/ SubmitInput(l) \/ LoopStep(l) \/ Die(l)
    PROVE  StepLocal(l)'
<1>1. RecordOK /\ StoreOK /\ BatchOK /\ CallsKnown(l)
  BY DEF TypeInv, TypeOK, CallsInv
<1>2. /\ cur[l] \in Nat /\ last[l] \in Nat
      /\ pc[l] \notin {"read", "write", "log"} => ~Recording(l)
      /\ pc[l] \notin {"check", "call", "count", "rest", "read", "write", "log"} => Rest(l) = {}
      /\ pc[l] \in {"count", "rest"} /\ cur[l] > last[l] => Rest(l) = {}
  BY <1>1 DEF BatchOK, Recording, Rest, InBatch, Position
<1>3. CASE StartJob(l)
  BY <1>2, <1>3, SerialMoveOn DEF StartJob, At, Places, blobs, batch
<1>4. CASE SubmitInput(l)
  BY <1>2, <1>4, SerialRecordUser DEF SubmitInput, log, blobs
<1>5. CASE RecordStep(l)
  <2>1. CASE Read(l)
    <3>1. ~Refused(l)
      BY <2>1, AnswerNotRefused DEF Read
    <3> QED
      BY <1>1, <2>1, <3>1, SerialRead
  <2> QED
    BY <1>1, <1>5, <2>1, SerialWrite, SerialLogAnswered, SerialLogAppended, SerialLogRequested
       DEF RecordStep
<1>6. CASE ResumeJob(l)
  BY <1>2, <1>6, SerialMoveOn DEF ResumeJob, At, Places, blobs, batch
<1>7. CASE StartTurn(l)
  BY <1>2, <1>7, SerialMoveOn DEF StartTurn, At, Places, blobs, batch
<1>8. CASE SubturnsExhausted(l)
  BY <1>2, <1>8, SerialMoveOn DEF SubturnsExhausted, At, Places, blobs, batch
<1>9. CASE Compact(l)
  BY <1>9, SerialCompact
<1>10. CASE LogCompacted(l)
  BY <1>10, SerialLogCompacted
<1>11. CASE CompactionFails(l)
  BY <1>2, <1>11, SerialMoveOn DEF CompactionFails, At, Places, blobs, log, batch
<1>12. CASE Request(l)
  <2>1. view'[l] = Visible
    BY <1>1, <1>12 DEF Request, RecordOK
  <2> QED
    BY <1>2, <1>12, <2>1, SerialMoveOn DEF Request, At, Places, blobs, log, batch
<1>13. CASE ModelFails(l)
  BY <1>2, <1>13, SerialMoveOn DEF ModelFails, Recorded, At, Places, blobs, batch
<1>14. CASE ModelAnswers(l)
  BY <1>1, <1>14, SerialModelAnswers
<1>15. CASE CheckBudget(l)
  <2>1. \E p \in {"rest", "call"} : pc' = [pc EXCEPT ![l] = p]
    BY <1>15 DEF CheckBudget, At
  <2> QED
    BY <1>2, <1>15, <2>1, SerialMoveOn DEF CheckBudget, Places, blobs, log
<1>16. CASE RejectCall(l)
  <2>1. pc[l] = "call" /\ cur[l] <= last[l]
    BY <1>1, <1>16 DEF RejectCall, CallsKnown, Position, Recording
  <2>2. /\ AnswerCall(l, NextCall(l)) /\ NextCall(l) \in {"call", "ready"}
        /\ NextCall(l) = "ready" => cur[l] = last[l]
    BY <1>2, <1>16, <2>1 DEF RejectCall, NextCall
  <2> QED
    BY <1>16, <2>1, <2>2, SerialRecordAnswer DEF RejectCall, blobs, log
<1>17. CASE ExecuteCall(l)
  <2>1. pc[l] = "call" /\ cur[l] <= last[l]
    BY <1>1, <1>17 DEF ExecuteCall, CallsKnown, Position, Recording
  <2>2. AnswerCall(l, "count")
    BY <1>17 DEF ExecuteCall, AfterAnswer
  <2> QED
    BY <1>17, <2>1, <2>2, SerialRecordAnswer DEF ExecuteCall, blobs
<1>18. CASE CountCall(l)
  <2>1. /\ AfterCount(l) \in {"rest", "call", "ready"}
        /\ AfterCount(l) = "ready" => cur[l] > last[l]
    BY <1>2 DEF AfterCount
  <2>2. PICK p \in {"rest", "call", "ready"} :
          pc' = [pc EXCEPT ![l] = p] /\ (p = "ready" => cur[l] > last[l])
    BY <1>18, <2>1, Zenon DEF CountCall, At
  <2> QED
    BY <1>2, <1>18, <2>2, SerialMoveOn DEF CountCall, Places, blobs, batch
<1>19. CASE SkipCall(l)
  BY <1>19, SerialRecordAnswer DEF SkipCall, blobs, log
<1>20. CASE LeaveBatch(l)
  <2>1. /\ pc[l] = "rest" /\ cur[l] > last[l]
        /\ UNCHANGED <<file, compacted, ref, requested, answered, nextId, cur, last>>
    BY <1>20 DEF LeaveBatch, blobs, batch
  <2>2. CASE Record(l, User, "ready")
    BY <1>2, <2>1, <2>2, SerialRecordUser
  <2>3. CASE \E p \in {"ready", "idle"} : pc' = [pc EXCEPT ![l] = p]
    BY <1>2, <2>1, <2>3, SerialMoveOn DEF Places
  <2> QED
    BY <1>20, <2>2, <2>3 DEF LeaveBatch, At
<1>21. ~Die(l)
  BY DEF Die
<1> QED
  BY <1>3, <1>4, <1>5, <1>6, <1>7, <1>8, <1>9, <1>10, <1>11, <1>12, <1>13, <1>14,
     <1>15, <1>16, <1>17, <1>18, <1>19, <1>20, <1>21 DEF LoopStep, SessionStep, ModelStep, CallStep

\* There are no messages before the job starts.
LEMMA SerialInit == Init => SerialInv
<1> SUFFICES ASSUME Init PROVE SerialInv
  OBVIOUS
<1>1. Visible = <<>> /\ Pending = {} /\ ref = "none"
  BY DEF Init, Visible, Pending
<1>2. Open(<<>>) = {} /\ Tidy(<<>>)
  BY DEF Open, Asked, Answered, Tidy, Adjacent
<1>3. \A l \in Loops : KeepsStep(l)
  BY DEF Init, KeepsStep, Asking, Recording, Running
<1> QED
  BY <1>1, <1>2, <1>3 DEF SerialInv

\* Nothing of what SerialInv is about changes.
LEMMA StutterInStep ==
    ASSUME SerialInv, UNCHANGED vars
    PROVE  SerialInv'
<1>1. /\ UNCHANGED <<pc, view, msg, after, cur, last, step, ref>>
      /\ Visible' = Visible /\ Pending' = Pending
  BY DEF Visible, Pending, vars
<1>2. ASSUME NEW l \in Loops
      PROVE  KeepsStep(l)'
  <2>1. /\ Running(l)' <=> Running(l)
        /\ Recording(l)' <=> Recording(l)
        /\ Asking(l)' <=> Asking(l)
        /\ Expected(l)' = Expected(l) /\ Rest(l)' = Rest(l)
        /\ Grown(l)' = Grown(l) /\ OpenBefore(l)' = OpenBefore(l)
    BY <1>1 DEF Running, Recording, Asking, Expected, Due, AnswerDue, Rest, InBatch, Position,
                Grown, OpenBefore
  <2>2. KeepsStep(l)
    BY DEF SerialInv
  <2> QED
    BY <1>1, <2>1, <2>2 DEF KeepsStep
<1>3. \A l \in Loops : Running(l)' <=> Running(l)
  BY <1>1 DEF Running
<1> QED
  BY <1>1, <1>2, <1>3 DEF SerialInv

\* When input waits and nothing fails, the log and the messages, although stored
\* apart, agree at every statement on what is open.
THEOREM MessagesInStep == ~Concurrent /\ ~Faults => (Spec => []SerialInv)
<1> SUFFICES ASSUME ~Concurrent, ~Faults PROVE Spec => []SerialInv
  OBVIOUS
<1>1. IInv /\ IInv' /\ CallsInv /\ MatchInv /\ SerialInv /\ [Next]_vars => SerialInv'
  <2> SUFFICES ASSUME IInv, IInv', CallsInv, MatchInv, SerialInv, [Next]_vars PROVE SerialInv'
    OBVIOUS
  <2>1. CASE UNCHANGED vars
    BY <2>1, StutterInStep
  <2>2. CASE Next
    <3>1. PICK l \in Loops : StartJob(l) \/ SubmitInput(l) \/ LoopStep(l) \/ Die(l)
      BY <2>2 DEF Next
    <3>2. \A k \in Loops : k # l => pc[k] = "idle" /\ pc'[k] = "idle"
      BY <3>1, OneAtATime DEF IInv
    <3>3. MatchLocal(l) /\ StepLocal(l)
      BY <3>2, LocalFromSerial DEF MatchInv, MatchLocal
    <3>4. StepLocal(l)'
      BY <3>1, <3>3, SerialStep DEF IInv
    <3> QED
      BY <3>2, <3>4, SerialFromLocal
  <2> QED
    BY <2>1, <2>2
<1>2. Init => SerialInv
  BY SerialInit
<1> QED
  BY <1>1, <1>2, InductiveInvariant, CallsInvariant, MessagesMatch, PTL DEF Spec

\* Every call in the transcript sent to the model has its answer right behind the
\* message that asks for it (provider_transcript.rs:384).
THEOREM RequestsAreAnswered == ~Concurrent /\ ~Faults => (Spec => []RequestIsAnswered)
<1> SUFFICES ASSUME ~Concurrent, ~Faults PROVE Spec => []RequestIsAnswered
  OBVIOUS
<1>1. SerialInv => RequestIsAnswered
  BY DEF SerialInv, KeepsStep, RequestIsAnswered
<1> QED
  BY <1>1, MessagesInStep, PTL

\* A compaction between subturns is never refused by the validator, whatever
\* number of messages it keeps (context_compaction.rs:65).
THEOREM CompactionsAccepted == ~Concurrent /\ ~Faults => (Spec => []CompactionAccepted)
<1> SUFFICES ASSUME ~Concurrent, ~Faults PROVE Spec => []CompactionAccepted
  OBVIOUS
<1>1. IInv /\ MatchInv /\ SerialInv => CompactionAccepted
  <2> SUFFICES ASSUME IInv, MatchInv, SerialInv,
                      NEW l \in Loops, pc[l] = "ready", ref # "none"
               PROVE  Valid(Replacement(Visible, Pending, Keep))
    BY DEF CompactionAccepted
  <2>1. \A k \in Loops : k # l => pc[k] = "idle"
    BY DEF IInv, BudgetInv, OneLoop, Running
  <2>2. MatchLocal(l) /\ StepLocal(l)
    BY <2>1, LocalFromSerial DEF MatchInv, MatchLocal
  <2> QED
    BY <2>2, CompactionFits DEF IInv
<1> QED
  BY <1>1, InductiveInvariant, MessagesMatch, MessagesInStep, PTL

\* Unless a message is being recorded, the calls pending by the log are the calls
\* open in the messages (replay_provider_transcript_state_from_events).
THEOREM LogAndMessagesAgree == ~Concurrent /\ ~Faults => (Spec => []LogMatchesTranscript)
<1> SUFFICES ASSUME ~Concurrent, ~Faults PROVE Spec => []LogMatchesTranscript
  OBVIOUS
<1>1. IInv /\ CallsInv /\ SerialInv => LogMatchesTranscript
  <2> SUFFICES ASSUME IInv, CallsInv, SerialInv, \A l \in Loops : pc[l] \notin {"write", "log"}
               PROVE  Pending = Open(Visible)
    BY DEF LogMatchesTranscript
  <2>1. CASE \A l \in Loops : ~Running(l)
    BY <2>1 DEF SerialInv
  <2>2. ASSUME NEW l \in Loops, Running(l)
        PROVE  Pending = Open(Visible)
    <3>1. StepLocal(l)
      <4>1. \A k \in Loops : k # l => pc[k] = "idle"
        BY <2>2 DEF IInv, BudgetInv, OneLoop, Running
      <4> QED
        BY <4>1, LocalFromSerial
    <3>2. CASE ~Recording(l)
      BY <3>1, <3>2, BetweenMessages
    <3>3. CASE Recording(l)
      <4>1. pc[l] = "read" /\ step[l] = 0 /\ Pending = Expected(l)
        BY <2>2, <3>1, <3>3 DEF Recording, CallsInv, CallsKnown, StepLocal, KeepsStep
      <4>2. Open(Visible) = OpenBefore(l) /\ (msg[l].role = "user" => Rest(l) = {})
        BY <3>1, <4>1, BeforeWrite DEF IInv
      <4>3. msg[l].role \in {"user", "assistant", "tool"} /\ cur[l] \in Nat
        BY DEF IInv, TypeInv, TypeOK, RecordOK, BatchOK, Message
      <4>4. CASE msg[l].role = "user"
        BY <3>3, <4>1, <4>2, <4>4 DEF Expected, Asking, Due, AnswerDue, Rest, OpenBefore
      <4>5. CASE msg[l].role = "assistant"
        <5>1. cur[l] .. (cur[l] + 0 - 2) = {}
          BY <4>3
        <5> QED
          BY <3>3, <4>1, <4>2, <4>5, <5>1 DEF Expected, Asking, OpenBefore
      <4>6. CASE msg[l].role = "tool"
        <5>1. AnswerDue(l) /\ ~Asking(l)
          BY <3>3, <4>1, <4>6 DEF AnswerDue, Asking
        <5>2. msg[l].calls = {cur[l] - 1}
          BY <5>1 DEF CallsInv, CallsKnown
        <5> QED
          BY <4>1, <4>2, <4>6, <5>1, <5>2 DEF Expected, Due, Rest, OpenBefore
      <4> QED
        BY <4>3, <4>4, <4>5, <4>6
    <3> QED
      BY <3>2, <3>3
  <2> QED
    BY <2>1, <2>2
<1> QED
  BY <1>1, InductiveInvariant, CallsInvariant, MessagesInStep, PTL

---------------------------------------------------------------------------
(* The transcript takes the steps of TranscriptProtocol.                    *)

\* TranscriptProtocol means by its terms what Transcript means.
LEMMA ProtocolTerms ==
    /\ \A ms : Protocol!Open(ms) = Open(ms) /\ Protocol!Asked(ms) = Asked(ms)
    /\ \A ms, s : Protocol!SuffixKeepsCalls(ms, {}, s) <=> SuffixKeepsCalls(ms, {}, s)
    /\ Protocol!User = User
    /\ \A C : Protocol!Assistant(C) = Assistant(C)
    /\ \A c : Protocol!Tool(c) = Tool(c)
BY DEF Protocol!Open, Protocol!Asked, Protocol!Answered, Protocol!Asks, Protocol!Answers,
       Protocol!SuffixKeepsCalls, Protocol!User, Protocol!Assistant, Protocol!Tool,
       Open, Asked, Answered, Asks, Answers, SuffixKeepsCalls, User, Assistant, Tool

\* A message becomes visible: a question, an answer or a word of the user.
LEMMA GrowthIsStep ==
    ASSUME TypeInv, NEW l \in Loops, MatchLocal(l), StepLocal(l), Recording(l),
           Grown(l) = Append(Visible, msg[l]), Open(Visible) = OpenBefore(l),
           Visible' = Grown(l)
    PROVE  Protocol!Next
<1>1. msg[l] \in Message /\ Visible \in Seq(Message) /\ Matched(Grown(l))
  BY VisibleIsTranscript DEF TypeInv, TypeOK, RecordOK, MatchLocal, KeepsMatched, Sound
<1>2. Visible' = Append(Visible, msg[l])
  OBVIOUS
<1>3. /\ Len(Visible) \in Nat /\ Len(Visible') = Len(Visible) + 1
      /\ DOMAIN (Visible') = 1 .. Len(Visible) + 1
      /\ \A i \in 1 .. Len(Visible) : (Visible')[i] = Visible[i]
      /\ (Visible')[Len(Visible) + 1] = msg[l]
  BY <1>1, <1>2, AppendedTo
<1>4. CASE Asking(l)
  <2> DEFINE C == msg[l].calls
  <2>1. msg[l] = Assistant(C) /\ Open(Visible) = {}
    BY <1>1, <1>4 DEF Asking, Message, Assistant, OpenBefore
  <2>2. C \cap Asked(Visible) = {}
    <3>1. ASSUME NEW c \in C, NEW j \in 1 .. Len(Visible), Asks(Visible, j, c)
          PROVE  FALSE
      <4>1. DOMAIN Grown(l) = 1 .. Len(Visible) + 1 /\ Grown(l)[Len(Visible) + 1] = msg[l]
            /\ Asks(Grown(l), j, c)
        BY <1>1, <3>1, AppendedTo DEF Asks
      <4>2. Len(Visible) + 1 \in DOMAIN Grown(l) /\ j \in 1 .. (Len(Visible) + 1) - 1
        BY <1>3, <4>1
      <4> QED
        BY <1>1, <1>4, <3>1, <4>1, <4>2 DEF Matched, Asking
    <3> QED
      BY <1>1, <3>1, CallsOf
  <2>3. (Visible')[Len(Visible')].calls = C
    BY <1>3
  <2>4. Protocol!Ask
    BY <1>2, <1>3, <2>1, <2>2, <2>3, ProtocolTerms DEF Protocol!Ask
  <2> QED
    BY <2>4 DEF Protocol!Next
<1>5. CASE ~Asking(l) /\ msg[l] = User
  <2>1. Open(Visible) = {}
    BY <1>5 DEF OpenBefore, User
  <2>2. Protocol!Say
    BY <1>2, <1>5, <2>1, ProtocolTerms DEF Protocol!Say
  <2> QED
    BY <2>2 DEF Protocol!Next
<1>6. CASE ~Asking(l) /\ msg[l] = Tool(cur[l] - 1)
  <2>1. cur[l] - 1 \in Open(Visible)
    BY <1>6 DEF OpenBefore, Tool
  <2>2. Protocol!Answer
    BY <1>2, <1>6, <2>1, ProtocolTerms DEF Protocol!Answer
  <2> QED
    BY <2>2 DEF Protocol!Next
<1> QED
  BY <1>4, <1>5, <1>6 DEF StepLocal, KeepsStep

\* Only three statements change what is visible.
LEMMA VisibleStep ==
    ASSUME TypeInv, CallsInv, NEW l \in Loops, MatchLocal(l), StepLocal(l),
           StartJob(l) \/ SubmitInput(l) \/ LoopStep(l) \/ Die(l)
    PROVE  Protocol!Next \/ Visible' = Visible
<1>1. RecordOK /\ StoreOK /\ CallsKnown(l)
  BY DEF TypeInv, TypeOK, CallsInv
<1>2. CASE Write(l)
  <2>1. /\ pc[l] = "write" /\ file' = view[l] /\ ref' \in {ref, "file"}
        /\ compacted' = compacted /\ ref \in {"none", "file", "compacted"}
    BY <1>1, <1>2 DEF Write, StoreOK
  <2>2. Recording(l) /\ Grown(l) = view[l]
    BY <2>1 DEF Recording, Grown
  <2>3. Visible' = Visible \/ Visible' = Grown(l)
    BY <2>1, <2>2 DEF Visible
  <2>4. Grown(l) = Append(Visible, msg[l]) /\ Open(Visible) = OpenBefore(l)
    BY <2>1, BeforeWrite
  <2> QED
    BY <2>2, <2>3, <2>4, GrowthIsStep
<1>3. CASE LogAppended(l)
  <2>1. pc[l] = "log" /\ ref' = "file" /\ file' = file
    BY <1>3 DEF LogAppended
  <2>2. Recording(l) /\ Grown(l) = view[l] /\ file = view[l]
    BY <2>1 DEF Recording, Grown, MatchLocal, KeepsMatched
  <2>3. Visible' = Grown(l) /\ (ref = "file" => Visible = Grown(l))
    BY <2>1, <2>2 DEF Visible
  <2>4. CASE ref = "file"
    BY <2>3, <2>4
  <2>5. CASE ref # "file"
    <3>1. Grown(l) = Append(Visible, msg[l]) /\ Open(Visible) = OpenBefore(l)
      BY <2>2, <2>5 DEF StepLocal, KeepsStep
    <3> QED
      BY <2>2, <2>3, <3>1, GrowthIsStep
  <2> QED
    BY <2>4, <2>5
<1>4. CASE LogCompacted(l)
  <2>1. pc[l] = "compact" /\ Visible' = view[l]
    BY <1>4 DEF LogCompacted, Visible
  <2>2. Compacts(Visible, view[l]) /\ Open(Visible) = {}
    <3>1. Running(l) /\ ~Recording(l) /\ Rest(l) = {}
      BY <2>1 DEF Running, Recording, Rest, InBatch, Position
    <3> QED
      BY <2>1, <3>1 DEF StepLocal, KeepsStep
  <2>3. Protocol!Compact
    BY <2>1, <2>2, ProtocolTerms DEF Protocol!Compact, Compacts
  <2> QED
    BY <2>3 DEF Protocol!Next
<1>5. CASE ~Write(l) /\ ~LogAppended(l) /\ ~LogCompacted(l)
  <2>1. UNCHANGED blobs
    BY <1>5 DEF LoopStep, RecordStep, SessionStep, ModelStep, CallStep, StartJob, SubmitInput,
         Read, LogAnswered, LogRequested, ResumeJob, StartTurn, SubturnsExhausted, Compact,
         CompactionFails, Request, ModelFails, ModelAnswers, CheckBudget, RejectCall,
         ExecuteCall, CountCall, SkipCall, LeaveBatch, Die
  <2> QED
    BY <2>1 DEF blobs, Visible
<1> QED
  BY <1>2, <1>3, <1>4, <1>5

\* What the provider may be shown changes only as TranscriptProtocol allows: a
\* question or a word of the user when every call has its answer, an answer to an
\* open call, a compaction that keeps an answered suffix
\* (record_provider_assistant_response, record_provider_tool_result,
\* record_provider_user_message, replace_provider_visible_transcript_with_summary).
THEOREM TranscriptRefines == ~Concurrent /\ ~Faults => (Spec => TranscriptImplemented)
<1> SUFFICES ASSUME ~Concurrent, ~Faults PROVE Spec => TranscriptImplemented
  OBVIOUS
<1>1. Init => Protocol!Init
  BY DEF Init, Protocol!Init, Visible
<1>2. IInv /\ IInv' /\ CallsInv /\ MatchInv /\ SerialInv /\ [Next]_vars => [Protocol!Next]_Visible
  <2> SUFFICES ASSUME IInv, IInv', CallsInv, MatchInv, SerialInv, [Next]_vars
               PROVE  Protocol!Next \/ Visible' = Visible
    OBVIOUS
  <2>1. CASE UNCHANGED vars
    BY <2>1 DEF vars, Visible
  <2>2. CASE Next
    <3>1. PICK l \in Loops : StartJob(l) \/ SubmitInput(l) \/ LoopStep(l) \/ Die(l)
      BY <2>2 DEF Next
    <3>2. \A k \in Loops : k # l => pc[k] = "idle"
      BY <3>1, OneAtATime DEF IInv
    <3>3. MatchLocal(l) /\ StepLocal(l)
      BY <3>2, LocalFromSerial DEF MatchInv, MatchLocal
    <3> QED
      BY <3>1, <3>3, VisibleStep DEF IInv
  <2> QED
    BY <2>1, <2>2
<1> QED
  BY <1>1, <1>2, InductiveInvariant, CallsInvariant, MessagesMatch, MessagesInStep, PTL
     DEF Spec, TranscriptImplemented, Protocol!Spec
=============================================================================
