------------------------ MODULE TranscriptProtocol ------------------------
(***************************************************************************)
(* What the provider may be shown of a task, abstractly: an assistant       *)
(* message or a user message comes only when every call has its answer, an  *)
(* answer is to an open call, and a compaction keeps an answered suffix.    *)
(* ToolLoop implements this when nothing fails and one loop runs at a time. *)
(***************************************************************************)
EXTENDS Transcript

VARIABLE visible

Init == visible = <<>>

(* The new message is read off the next state, whatever ids it asks for.    *)
Ask == /\ Open(visible) = {}
       /\ Len(visible') = Len(visible) + 1
       /\ LET C == visible'[Len(visible')].calls
          IN  /\ C \cap Asked(visible) = {}
              /\ visible' = Append(visible, Assistant(C))

Answer == \E c \in Open(visible) : visible' = Append(visible, Tool(c))

Say == /\ Open(visible) = {}
       /\ visible' = Append(visible, User)

Compact == /\ Open(visible) = {}
           /\ \E s \in 1 .. Len(visible) :
                /\ SuffixKeepsCalls(visible, {}, s)
                /\ visible' = <<User>> \o SubSeq(visible, s, Len(visible))

Next == Ask \/ Answer \/ Say \/ Compact

Spec == Init /\ [][Next]_visible
===========================================================================
