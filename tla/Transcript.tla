---------------------------- MODULE Transcript ----------------------------
(***************************************************************************)
(* The provider-visible transcript of a task: a sequence of user,          *)
(* assistant and tool messages, and the functions of provider_transcript.rs *)
(* and context_compaction.rs on it.  A tool call is known by its id, a      *)
(* number; texts are left out.  The calls of an assistant message are the   *)
(* ids it asks for, the call of a tool message is the id it answers.        *)
(***************************************************************************)
EXTENDS Integers, Sequences

Message == [role : {"user", "assistant", "tool"}, calls : SUBSET Nat]

User         == [role |-> "user",      calls |-> {}]
Assistant(C) == [role |-> "assistant", calls |-> C]
Tool(c)      == [role |-> "tool",      calls |-> {c}]

(* Message i of ms asks for call c; answers it.                            *)
Asks(ms, i, c)    == ms[i].role = "assistant" /\ c \in ms[i].calls
Answers(ms, i, c) == ms[i].role = "tool" /\ c \in ms[i].calls

Asked(ms)    == {c \in UNION {ms[i].calls : i \in DOMAIN ms} :
                   \E i \in DOMAIN ms : Asks(ms, i, c)}
Answered(ms) == {c \in UNION {ms[i].calls : i \in DOMAIN ms} :
                   \E i \in DOMAIN ms : Answers(ms, i, c)}
Open(ms)     == Asked(ms) \ Answered(ms)

(* No id is asked for twice, and a tool message answers a call asked for    *)
(* before it that no other tool message answers.                            *)
Matched(ms) ==
  \A i \in DOMAIN ms : \A c \in ms[i].calls :
    /\ ms[i].role = "assistant" =>
         \A j \in 1 .. i - 1 : ~Asks(ms, j, c)
    /\ ms[i].role = "tool" =>
         /\ \E j \in 1 .. i - 1 : Asks(ms, j, c)
         /\ \A j \in 1 .. i - 1 : ~Answers(ms, j, c)

(* What ProviderTranscriptProtocolValidator accepts.                        *)
Valid(ms) == Matched(ms) /\ Open(ms) = {}

(* Only tool messages stand between a call and its answer: what the         *)
(* provider asks of the messages of a request.                              *)
Adjacent(ms) ==
  \A i \in DOMAIN ms : \A c \in ms[i].calls :
    ms[i].role = "tool" =>
      \E j \in 1 .. i - 1 : /\ Asks(ms, j, c)
                            /\ \A k \in j + 1 .. i : ms[k].role = "tool"

(***************************************************************************)
(* Compaction: where the live suffix starts.  The code starts keep          *)
(* messages from the end, moves back to the assistant message of every      *)
(* pending call, then back to the assistant message of every tool message   *)
(* in the suffix until nothing changes.  Each move is forced, so it ends at *)
(* the last start that needs no move.                                       *)
(***************************************************************************)
SuffixKeepsCalls(ms, pending, s) ==
  /\ \A i \in DOMAIN ms : \A c \in pending : Asks(ms, i, c) => s <= i
  /\ \A i \in s .. Len(ms) : \A c \in ms[i].calls :
       (Answers(ms, i, c) /\ \E j \in 1 .. i - 1 : Asks(ms, j, c))
         => \E j \in s .. i - 1 : Asks(ms, j, c)

\* Mutant of LiveSuffixStart: a suffix of fixed length, wherever it cuts.
LastMessages(ms, pending, keep) == IF keep < Len(ms) THEN Len(ms) - keep + 1 ELSE 1

LiveSuffixStart(ms, pending, keep) ==
  LET latest == IF keep < Len(ms) THEN Len(ms) - keep + 1 ELSE 1
      starts == {s \in 1 .. latest : SuffixKeepsCalls(ms, pending, s)}
  IN  CHOOSE s \in starts : \A t \in starts : t <= s

(* The summary, as a user message, then the live suffix.                    *)
Replacement(ms, pending, keep) ==
  <<User>> \o SubSeq(ms, LiveSuffixStart(ms, pending, keep), Len(ms))
===========================================================================
