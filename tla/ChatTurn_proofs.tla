-------------------------- MODULE ChatTurn_proofs --------------------------
(***************************************************************************)
(* Proofs about ChatTurn: the types and the order of the feed, that a turn   *)
(* told of a close is never completed, that the phases are settled, and that *)
(* the answer of a completed turn is shown.                                 *)
(*                                                                         *)
(* TypeInv, OrderInv, ClosedInv, PhaseInv and, where no worker outlives the  *)
(* server, AnswerInv (ChatTurnInv) are proved inductive one after the other. *)
(* The lemmas come in that order: actors and their programs, the two stores, *)
(* then those of each invariant, one or more per action; for AnswerInv first *)
(* how any step goes on (GoesOn), then one lemma per part of the invariant.  *)
(***************************************************************************)
EXTENDS ChatTurnInv, FiniteSetTheorems, SequenceTheorems, WellFoundedInduction, TLAPS

---------------------------------------------------------------------------
(* Actors and their programs.                                               *)

\* No two actors are the same, and each has statements of its own.
LEMMA ActorsAre ==
  /\ \A t \in Turns : /\ T(t) \in Actors /\ W(t) \in Actors
                      /\ T(t)[2] = t /\ W(t)[2] = t /\ t \in Nat
                      /\ OfActor(T(t)) = OfRequest /\ OfActor(W(t)) = OfWorker
                      /\ T(t) \notin {Closer, Repairer} /\ W(t) \notin {Closer, Repairer}
                      /\ \A u \in Turns : /\ T(t) # W(u) /\ (T(t) = T(u) => t = u)
                                          /\ (W(t) = W(u) => t = u)
  /\ Closer \in Actors /\ Repairer \in Actors /\ Closer # Repairer
  /\ Closer[2] = 0 /\ Repairer[2] = 0
  /\ OfActor(Closer) = OfClose /\ OfActor(Repairer) = OfRepair
<1> USE TurnsAssumption DEF T, W, Closer, Repairer
<1>1. \A t \in Turns : T(t) \in Actors /\ W(t) \in Actors
  BY DEF Actors, Requests
<1>2. Closer \in Actors /\ Repairer \in Actors
  BY DEF Actors, Requests
<1>3. \A t \in Turns : OfActor(T(t)) = OfRequest /\ OfActor(W(t)) = OfWorker
  BY DEF OfActor
<1>4. OfActor(Closer) = OfClose /\ OfActor(Repairer) = OfRepair
  BY DEF OfActor
<1>5. \A t \in Turns : /\ T(t)[2] = t /\ W(t)[2] = t /\ t \in Nat
                      /\ T(t) \notin {Closer, Repairer} /\ W(t) \notin {Closer, Repairer}
                      /\ \A u \in Turns : /\ T(t) # W(u) /\ (T(t) = T(u) => t = u)
                                          /\ (W(t) = W(u) => t = u)
  OBVIOUS
<1> QED
  BY <1>1, <1>2, <1>3, <1>4, <1>5

\* Every actor is the request or the worker of a turn, the close or the repair.
LEMMA EveryActor ==
  ASSUME NEW a \in Actors
  PROVE  \/ \E t \in Turns : a = T(t) \/ a = W(t)
         \/ a = Closer \/ a = Repairer
  BY DEF Actors, Requests

\* Two programs of one kind, one after the other, are a program of that kind.
LEMMA Together ==
  ASSUME NEW S, NEW p \in Seq(S), NEW q \in Seq(S)
  PROVE  p \o q \in Seq(S)
  BY ConcatProperties

\* A program over a set is one over any larger set.
LEMMA Larger ==
  ASSUME NEW S, NEW R, S \subseteq R, NEW p \in Seq(S)
  PROVE  p \in Seq(R)
<1>1. Len(p) \in Nat /\ p \in [1 .. Len(p) -> S]
  OBVIOUS
<1>2. p \in [1 .. Len(p) -> R]
  BY <1>1
<1> QED
  BY <1>1, <1>2

\* The first of what a has to do, and the rest.
LEMMA FirstIs ==
  ASSUME NEW S, NEW p \in Seq(S), p # <<>>
  PROVE  /\ Head(p) = p[1] /\ 1 \in DOMAIN p /\ Head(p) \in S /\ Tail(p) \in Seq(S)
         /\ Len(Tail(p)) = Len(p) - 1 /\ Len(p) \in Nat \ {0} /\ DOMAIN p = 1 .. Len(p)
         /\ \A i \in DOMAIN Tail(p) : i + 1 \in DOMAIN p /\ Tail(p)[i] = p[i + 1]
<1>1. Len(p) \in Nat \ {0} /\ DOMAIN p = 1 .. Len(p)
  BY EmptySeq
<1>2. Tail(p) \in Seq(S) /\ Len(Tail(p)) = Len(p) - 1
  BY <1>1
<1>3. \A i \in 1 .. Len(p) - 1 : Tail(p)[i] = p[i + 1]
  BY <1>1
<1>4. DOMAIN Tail(p) = 1 .. Len(p) - 1
  BY <1>1, <1>2
<1>5. \A i \in DOMAIN Tail(p) : i + 1 \in DOMAIN p /\ Tail(p)[i] = p[i + 1]
  BY <1>1, <1>3, <1>4
<1> QED
  BY <1>1, <1>2, <1>5

\* A program takes the place of what a had to do.
LEMMA Becomes ==
  ASSUME Programs(todo), NEW a \in Actors, NEW p \in Seq(OfActor(a)),
         todo' = [todo EXCEPT ![a] = p]
  PROVE  /\ Programs(todo') /\ todo'[a] = p
         /\ \A b \in Actors \ {a} : todo'[b] = todo[b]
<1>1. DOMAIN todo = Actors
  BY DEF Programs
<1>2. todo'[a] = p /\ \A b \in Actors \ {a} : todo'[b] = todo[b]
  BY <1>1
<1>3. todo' = [b \in Actors |-> todo'[b]]
  BY <1>1
<1>4. \A b \in Actors : todo'[b] \in Seq(OfActor(b))
  BY <1>2 DEF Programs
<1> QED
  BY <1>2, <1>3, <1>4 DEF Programs

\* a is at a statement of its own.
LEMMA DoingIs ==
  ASSUME Programs(todo), NEW a \in Actors, NEW what, Doing(a, what)
  PROVE  /\ Head(todo[a]) \in OfActor(a) /\ Head(todo[a]).do = what /\ todo[a] # <<>>
         /\ Head(todo[a]) = todo[a][1] /\ 1 \in DOMAIN todo[a]
         /\ Tail(todo[a]) \in Seq(OfActor(a))
<1>1. todo[a] \in Seq(OfActor(a))
  BY DEF Programs
<1> QED
  BY <1>1, FirstIs DEF Doing

\* Done takes the first statement off the actor's program and touches no other.
LEMMA DoneIs ==
  ASSUME Programs(todo), NEW a \in Actors, todo[a] # <<>>, Done(a)
  PROVE  /\ Programs(todo') /\ todo'[a] = Tail(todo[a])
         /\ \A b \in Actors \ {a} : todo'[b] = todo[b]
<1>1. Tail(todo[a]) \in Seq(OfActor(a))
  BY FirstIs DEF Programs
<1>2. todo' = [todo EXCEPT ![a] = Tail(todo[a])]
  BY DEF Done
<1> QED
  BY <1>1, <1>2, Becomes

\* Expand puts a program in the place of the actor's first statement.
LEMMA ExpandIs ==
  ASSUME Programs(todo), NEW a \in Actors, todo[a] # <<>>, NEW p \in Seq(OfActor(a)), Expand(a, p)
  PROVE  /\ Programs(todo') /\ todo'[a] = p \o Tail(todo[a])
         /\ \A b \in Actors \ {a} : todo'[b] = todo[b]
<1>1. Tail(todo[a]) \in Seq(OfActor(a))
  BY FirstIs DEF Programs
<1>2. p \o Tail(todo[a]) \in Seq(OfActor(a))
  BY <1>1, Together
<1>3. todo' = [todo EXCEPT ![a] = p \o Tail(todo[a])]
  BY DEF Expand
<1> QED
  BY <1>2, <1>3, Becomes

---------------------------------------------------------------------------
(* The programs.                                                            *)

\* A statement is a program of one statement.
LEMMA OneStep ==
  ASSUME NEW S, NEW s \in S
  PROVE  << s >> \in Seq(S)
  OBVIOUS

\* The parts of programs, as statements of one set.
\* The statements that only a list or a snapshot brings forth.
Deferred == Rewriting \cup Projecting

\* What records a turn neither completes its row nor rewrites or projects.
LEMMA RecordTurnIs ==
  ASSUME NEW t \in Turns
  PROVE  RecordTurn(t) \in Seq(OfRequest \ (Completing \cup Deferred))
<1> DEFINE S == OfRequest \ (Completing \cup Deferred)
           a == Say(<<"user", t>>, "user", "completed")
           b == Say(<<"phase", t>>, "phase", "streaming")
           c == Step("queue")
           d == SetRun("running")
           e == Step("spawn")
           f == Step("reap")
<1>1. t \in Nat
  BY TurnsAssumption
<1>2. a \in Seq(S) /\ b \in Seq(S)
  BY <1>1 DEF Say, OfRequest, Saying, Phases, Settled, Completing, Deferred, Rewriting, Projecting
<1>3. c \in Seq(S) /\ d \in Seq(S) /\ e \in Seq(S) /\ f \in Seq(S)
  BY DEF Step, SetRun, OfRequest, RunStatuses, Completing, Deferred, Rewriting, Projecting
<1> HIDE DEF a, b, c, d, e, f, S
<1>4. a \o b \o c \in Seq(S)
  BY <1>2, <1>3, Together
<1>5. a \o b \o c \o d \o e \o f \in Seq(S)
  BY <1>3, <1>4, Together
<1> QED
  BY <1>5 DEF a, b, c, d, e, f, S, RecordTurn

\* What settles the messages of a kind only lists them.
LEMMA CompleteIs ==
  ASSUME NEW kind \in {"answer", "reasoning", "phase"}, NEW s \in Settled
  PROVE  /\ Complete(kind, s) \in Seq(OfRequest \ (Completing \cup Reaping \cup Deferred))
         /\ kind = "phase" => Complete(kind, s) \in Seq(OfClose \ Deferred) /\ Complete(kind, s) \in Seq(OfRepair \ Deferred)
<1>1. [do |-> "list", kind |-> kind, status |-> s] \in OfRequest \ (Completing \cup Reaping \cup Deferred)
  BY DEF OfRequest, Listing, Completing, Reaping, Deferred, Rewriting, Projecting
<1>2. kind = "phase" => [do |-> "list", kind |-> kind, status |-> s] \in (OfClose \cap OfRepair) \ Deferred
  BY DEF OfClose, OfRepair, Listing, Deferred, Rewriting, Projecting
<1> QED
  BY <1>1, <1>2 DEF Complete

\* What a failed turn does never completes its row.
LEMMA FailedIs ==
  ASSUME NEW t \in Turns
  PROVE  Failed(t) \in Seq(OfRequest \ (Completing \cup Reaping \cup Deferred))
<1> DEFINE S == OfRequest \ (Completing \cup Reaping \cup Deferred)
           a == Complete("phase", "failed")
           b == SetRun("failed")
           c == Say(<<"error", t>>, "error", "completed")
<1>1. t \in Nat
  BY TurnsAssumption
<1>2. a \in Seq(S)
  BY CompleteIs DEF Phases, Settled
<1>3. b \in Seq(S)
  BY DEF SetRun, OfRequest, RunStatuses, Completing, Reaping, Deferred, Rewriting, Projecting
<1>4. c \in Seq(S)
  BY <1>1 DEF Say, OfRequest, Saying, Phases, Settled, Completing, Reaping, Deferred, Rewriting, Projecting
<1> HIDE DEF a, b, c, S
<1>5. a \o b \o c \in Seq(S)
  BY <1>2, <1>3, <1>4, Together
<1> QED
  BY <1>5 DEF a, b, c, S, Failed

\* What a cancelled turn does never completes its row.
LEMMA CancelledIs == Cancelled \in Seq(OfRequest \ (Completing \cup Reaping \cup Deferred))
<1> DEFINE S == OfRequest \ (Completing \cup Reaping \cup Deferred)
           a == Complete("phase", "cancelled")
           b == SetRun("cancelled")
<1>1. a \in Seq(S)
  BY CompleteIs DEF Phases, Settled
<1>2. b \in Seq(S)
  BY DEF SetRun, OfRequest, RunStatuses, Completing, Reaping, Deferred, Rewriting, Projecting
<1> HIDE DEF a, b, S
<1>3. a \o b \in Seq(S)
  BY <1>1, <1>2, Together
<1> QED
  BY <1>3 DEF a, b, S, Cancelled

\* What a finished turn does takes no second result.
LEMMA AnsweredIs ==
  ASSUME NEW s \in {"completed", "failed"}
  PROVE  Answered(s) \in Seq(OfRequest \ (Reaping \cup Deferred))
<1> DEFINE S == OfRequest \ (Reaping \cup Deferred)
           a == Complete("answer", "completed")
           b == Complete("reasoning", "completed")
           c == Complete("phase", s)
           d == SetRun(s)
           e == Step("snapshot")
<1>1. OfRequest \ (Completing \cup Reaping \cup Deferred) \subseteq S /\ s \in Settled /\ "completed" \in Settled
  BY DEF Phases, Settled
<1>2. a \in Seq(S) /\ b \in Seq(S) /\ c \in Seq(S)
  <2> HIDE DEF S
  <2> QED
    BY <1>1, CompleteIs, Larger
<1>3. d \in Seq(S) /\ e \in Seq(S)
  BY DEF SetRun, Step, OfRequest, RunStatuses, Reaping, Deferred, Rewriting, Projecting
<1> HIDE DEF a, b, c, d, e, S
<1>4. a \o b \o c \in Seq(S)
  BY <1>2, Together
<1>5. a \o b \o c \o d \o e \in Seq(S)
  BY <1>3, <1>4, Together
<1> QED
  BY <1>5 DEF a, b, c, d, e, S, Answered

\* What appends to the log is a worker's, or the close's for its own event.
LEMMA LogIs ==
  /\ \A r \in {"recorded", "answered", "failed"} : Log(r) \in Seq(OfWorker \ Deferred)
  /\ Log("closed") \in Seq(OfClose \ Deferred)
<1>1. \A r \in {"recorded", "answered", "failed"} : [do |-> "insert", type |-> r] \in OfWorker \ Deferred
  BY DEF OfWorker, Deferred, Rewriting, Projecting
<1>2. [do |-> "insert", type |-> "closed"] \in OfClose \ Deferred
  BY DEF OfClose, Deferred, Rewriting, Projecting
<1>3. [do |-> "max"] \in (OfWorker \cap OfClose) \ Deferred
  BY DEF OfWorker, OfClose, Deferred, Rewriting, Projecting
<1> QED
  BY <1>1, <1>2, <1>3 DEF Log

\* What a close does at first neither rewrites nor projects.
LEMMA ForceCloseIs == ForceClose \in Seq(OfClose \ Deferred)
<1> DEFINE S == OfClose \ Deferred
           a == Log("closed")
           b == Step("own")
           c == Step("flag")
           d == Step("kill")
           e == Complete("phase", "cancelled")
<1>1. a \in Seq(S)
  BY LogIs
<1>2. b \in Seq(S) /\ c \in Seq(S) /\ d \in Seq(S)
  BY DEF Step, OfClose, Deferred, Rewriting, Projecting
<1>3. e \in Seq(S)
  BY CompleteIs DEF Phases, Settled
<1> HIDE DEF a, b, c, d, e, S
<1>4. a \o b \o c \in Seq(S)
  BY <1>1, <1>2, Together
<1>5. a \o b \o c \o d \o e \in Seq(S)
  BY <1>2, <1>3, <1>4, Together
<1> QED
  BY <1>5 DEF a, b, c, d, e, S, ForceClose

\* The projection of events only projects.
LEMMA ProjectIs ==
  ASSUME NEW es \in Seq(Entries), NEW suppress \in BOOLEAN
  PROVE  Project(es, suppress) \in Seq(Projecting)
<1>1. Len(es) \in Nat /\ DOMAIN es = 1 .. Len(es)
  OBVIOUS
<1>2. \A i \in DOMAIN es : [do |-> "project", event |-> es[i], suppress |-> suppress] \in Projecting
  BY DEF Projecting
<1>3. Project(es, suppress) \in [1 .. Len(es) -> Projecting]
  BY <1>1, <1>2 DEF Project
<1> QED
  BY <1>1, <1>3

---------------------------------------------------------------------------
(* The two stores and the feed they make.                                   *)

\* The two stores hold different messages, told apart by their kinds.
LEMMA KindsApart ==
  /\ \A id \in ProductIds : id[1] \in {"user", "phase"} /\ id \notin ShardIds
  /\ \A id \in ShardIds : id[1] \in {"answer", "reasoning", "error", "evt"}
  /\ \A m \in ProductMessages : m.kind \notin InShard /\ m.sort \in Nat /\ m.upd \in Nat
  /\ \A m \in ShardMessages : m.kind \in InShard /\ m.sort \in Nat /\ m.upd \in Nat
<1>1. \A id \in ProductIds : id[1] \in {"user", "phase"}
  BY DEF ProductIds
<1>2. \A id \in ShardIds : id[1] \in {"answer", "reasoning", "error", "evt"}
  BY DEF ShardIds
<1>3. \A m \in ProductMessages : m.kind \notin InShard /\ m.sort \in Nat /\ m.upd \in Nat
  BY DEF ProductMessages, MessagesOf, InShard
<1>4. \A m \in ShardMessages : m.kind \in InShard /\ m.sort \in Nat /\ m.upd \in Nat
  BY DEF ShardMessages, MessagesOf
<1> QED
  BY <1>1, <1>2, <1>3, <1>4

\* No message is in both stores.
LEMMA MergedIs ==
  ASSUME NEW p, NEW s, IsProduct(p), IsShard(s)
  PROVE  /\ DOMAIN Merged(p, s) = DOMAIN p \cup DOMAIN s
         /\ IsFiniteSet(DOMAIN Merged(p, s))
         /\ \A i \in DOMAIN p : i \notin DOMAIN s /\ Merged(p, s)[i] = p[i]
         /\ \A i \in DOMAIN s : i \notin DOMAIN p /\ Merged(p, s)[i] = s[i]
         /\ \A i \in DOMAIN Merged(p, s) : Merged(p, s)[i] \in ProductMessages \cup ShardMessages
<1>1. \A i \in DOMAIN p : i \notin DOMAIN s
  BY KindsApart DEF IsProduct, IsShard
<1>2. DOMAIN Merged(p, s) = DOMAIN p \cup DOMAIN s
  BY DEF Merged
<1>3. IsFiniteSet(DOMAIN p \cup DOMAIN s)
  BY FS_Union DEF IsProduct, IsShard
<1>4. \A i \in DOMAIN p : Merged(p, s)[i] = p[i]
  BY <1>1 DEF Merged
<1>5. \A i \in DOMAIN s : Merged(p, s)[i] = s[i]
  BY <1>1 DEF Merged
<1>6. \A i \in DOMAIN Merged(p, s) : Merged(p, s)[i] \in ProductMessages \cup ShardMessages
  BY <1>2, <1>4, <1>5 DEF IsProduct, IsShard
<1> QED
  BY <1>1, <1>2, <1>3, <1>4, <1>5, <1>6

\* append_message: a message that is there keeps its sort key.
LEMMA AppendedIs ==
  ASSUME NEW s, NEW id, NEW m, NEW kinds, m \in MessagesOf(kinds),
         id \in DOMAIN s => s[id] \in MessagesOf(kinds)
  PROVE  /\ DOMAIN AppendMessage(s, id, m) = DOMAIN s \cup {id}
         /\ \A i \in DOMAIN s \ {id} : AppendMessage(s, id, m)[i] = s[i]
         /\ AppendMessage(s, id, m)[id] \in MessagesOf(kinds)
         /\ AppendMessage(s, id, m)[id].kind = m.kind
         /\ AppendMessage(s, id, m)[id].text = m.text
         /\ AppendMessage(s, id, m)[id].status = m.status
         /\ id \in DOMAIN s => AppendMessage(s, id, m)[id].sort = s[id].sort
         /\ id \notin DOMAIN s => AppendMessage(s, id, m)[id] = m
<1> DEFINE n == AppendMessage(s, id, m)
<1>1. DOMAIN n = DOMAIN s \cup {id}
  BY DEF AppendMessage
<1>2. \A i \in DOMAIN s \ {id} : n[i] = s[i]
  BY DEF AppendMessage
<1>3. n[id] = Stored(s, id, m)
  BY DEF AppendMessage
<1>4. CASE id \notin DOMAIN s
  <2>1. n[id] = m
    BY <1>3, <1>4 DEF Stored
  <2> QED
    BY <1>1, <1>2, <1>4, <2>1
<1>5. CASE id \in DOMAIN s
  <2>1. n[id] = [m EXCEPT !.sort = s[id].sort, !.upd = Later(s[id].upd, m.upd)]
    BY <1>3, <1>5 DEF Stored
  <2>2. s[id] \in MessagesOf(kinds)
    BY <1>5
  <2>3. Later(s[id].upd, m.upd) \in Nat /\ s[id].sort \in Nat
    BY <2>2 DEF MessagesOf, Later
  <2>4. n[id] \in MessagesOf(kinds) /\ n[id].kind = m.kind /\ n[id].text = m.text
        /\ n[id].status = m.status /\ n[id].sort = s[id].sort
    BY <2>1, <2>3 DEF MessagesOf
  <2> QED
    BY <1>1, <1>2, <1>5, <2>4
<1> QED
  BY <1>4, <1>5

\* A message that may be appended under id.
Fits(id, m) == \/ id \in ProductIds /\ m \in ProductMessages /\ m.kind = id[1]
               \/ id \in ShardIds /\ m \in ShardMessages

\* A message that fits its identifier changes the feed there alone, keeping the sort
\* key of the message it replaces.
LEMMA AppendToIs ==
  ASSUME IsProduct(product), IsShard(shard), NEW id, NEW m, Fits(id, m), AppendTo(id, m)
  PROVE  /\ IsProduct(product') /\ IsShard(shard')
         /\ DOMAIN Store' = DOMAIN Store \cup {id}
         /\ DOMAIN shard \subseteq DOMAIN shard' /\ DOMAIN shard' \subseteq DOMAIN shard \cup {id}
         /\ \A i \in DOMAIN Store \ {id} : Store'[i] = Store[i]
         /\ id \in DOMAIN Store => Store'[id].sort = Store[id].sort
         /\ id \notin DOMAIN Store => Store'[id] = m
         /\ Store'[id].kind = m.kind /\ Store'[id].text = m.text /\ Store'[id].status = m.status
<1> DEFINE S == Merged(product, shard)
           N == Merged(product', shard')
<1>0. Store = S /\ Store' = N
  BY DEF Store
<1>1. CASE id \in ProductIds /\ m \in ProductMessages /\ m.kind = id[1]
  <2>1. m.kind \notin InShard /\ id \notin ShardIds
    BY <1>1, KindsApart
  <2>2. product' = AppendMessage(product, id, m) /\ shard' = shard
    BY <2>1 DEF AppendTo
  <2>3. id \in DOMAIN product => product[id] \in ProductMessages
    BY DEF IsProduct
  <2>4. /\ DOMAIN product' = DOMAIN product \cup {id}
        /\ \A i \in DOMAIN product \ {id} : product'[i] = product[i]
        /\ product'[id] \in ProductMessages /\ product'[id].kind = m.kind
        /\ product'[id].text = m.text /\ product'[id].status = m.status
        /\ id \in DOMAIN product => product'[id].sort = product[id].sort
        /\ id \notin DOMAIN product => product'[id] = m
    <3> DEFINE n == AppendMessage(product, id, m)
    <3>1. /\ DOMAIN n = DOMAIN product \cup {id}
          /\ \A i \in DOMAIN product \ {id} : n[i] = product[i]
          /\ n[id] \in MessagesOf({"user", "phase"})
          /\ n[id].kind = m.kind
          /\ n[id].text = m.text
          /\ n[id].status = m.status
          /\ id \in DOMAIN product => n[id].sort = product[id].sort
          /\ id \notin DOMAIN product => n[id] = m
      <4>1. m \in MessagesOf({"user", "phase"})
        BY <1>1 DEF ProductMessages
      <4>2. id \in DOMAIN product => product[id] \in MessagesOf({"user", "phase"})
        BY <2>3 DEF ProductMessages
      <4> QED
        BY <4>1, <4>2, AppendedIs
    <3> HIDE DEF n
    <3>2. product' = n
      BY <2>2 DEF n
    <3> QED
      BY <3>1, <3>2 DEF ProductMessages
  <2>5. IsFiniteSet(DOMAIN product')
    BY <2>4, FS_AddElement DEF IsProduct
  <2>6. IsProduct(product')
    BY <1>1, <2>4, <2>5 DEF IsProduct
  <2>7. IsShard(shard')
    BY <2>2
  <2>8. /\ DOMAIN S = DOMAIN product \cup DOMAIN shard
        /\ \A i \in DOMAIN product : S[i] = product[i]
        /\ \A i \in DOMAIN shard : S[i] = shard[i]
    BY MergedIs
  <2>9. /\ DOMAIN N = DOMAIN product' \cup DOMAIN shard'
        /\ \A i \in DOMAIN product' : N[i] = product'[i]
        /\ \A i \in DOMAIN shard' : N[i] = shard'[i]
    <3> DEFINE p == product'
               q == shard'
    <3>1. IsProduct(p) /\ IsShard(q)
      BY <2>6, <2>7
    <3> HIDE DEF p, q
    <3>2. /\ DOMAIN Merged(p, q) = DOMAIN p \cup DOMAIN q
          /\ IsFiniteSet(DOMAIN Merged(p, q))
          /\ \A i \in DOMAIN p : i \notin DOMAIN q /\ Merged(p, q)[i] = p[i]
          /\ \A i \in DOMAIN q : i \notin DOMAIN p /\ Merged(p, q)[i] = q[i]
          /\ \A i \in DOMAIN Merged(p, q) :
               Merged(p, q)[i] \in ProductMessages \cup ShardMessages
      BY <3>1, MergedIs
    <3> QED
      BY <3>2 DEF p, q
  <2>10. id \notin DOMAIN shard
    BY <2>1 DEF IsShard
  <2> HIDE DEF S, N
  <2>11. \A i \in DOMAIN S \ {id} : N[i] = S[i]
    BY <2>2, <2>4, <2>8, <2>9
  <2>12. N[id] = product'[id] /\ (id \in DOMAIN S <=> id \in DOMAIN product)
    BY <2>4, <2>8, <2>9, <2>10
  <2>13. DOMAIN N = DOMAIN S \cup {id}
    BY <2>2, <2>4, <2>8, <2>9
  <2> QED
    BY <1>0, <2>2, <2>4, <2>6, <2>7, <2>8, <2>11, <2>12, <2>13
<1>2. CASE id \in ShardIds /\ m \in ShardMessages
  <2>1. m.kind \in InShard /\ id \notin ProductIds
    BY <1>2, KindsApart
  <2>2. shard' = AppendMessage(shard, id, m) /\ product' = product
    BY <2>1 DEF AppendTo
  <2>3. id \in DOMAIN shard => shard[id] \in ShardMessages
    BY DEF IsShard
  <2>4. /\ DOMAIN shard' = DOMAIN shard \cup {id}
        /\ \A i \in DOMAIN shard \ {id} : shard'[i] = shard[i]
        /\ shard'[id] \in ShardMessages /\ shard'[id].kind = m.kind
        /\ shard'[id].text = m.text /\ shard'[id].status = m.status
        /\ id \in DOMAIN shard => shard'[id].sort = shard[id].sort
        /\ id \notin DOMAIN shard => shard'[id] = m
    <3> DEFINE n == AppendMessage(shard, id, m)
    <3>1. /\ DOMAIN n = DOMAIN shard \cup {id}
          /\ \A i \in DOMAIN shard \ {id} : n[i] = shard[i]
          /\ n[id] \in MessagesOf(InShard)
          /\ n[id].kind = m.kind
          /\ n[id].text = m.text
          /\ n[id].status = m.status
          /\ id \in DOMAIN shard => n[id].sort = shard[id].sort
          /\ id \notin DOMAIN shard => n[id] = m
      <4>1. m \in MessagesOf(InShard)
        BY <1>2 DEF ShardMessages
      <4>2. id \in DOMAIN shard => shard[id] \in MessagesOf(InShard)
        BY <2>3 DEF ShardMessages
      <4> QED
        BY <4>1, <4>2, AppendedIs
    <3> HIDE DEF n
    <3>2. shard' = n
      BY <2>2 DEF n
    <3> QED
      BY <3>1, <3>2 DEF ShardMessages
  <2>5. IsFiniteSet(DOMAIN shard')
    BY <2>4, FS_AddElement DEF IsShard
  <2>6. IsShard(shard')
    BY <1>2, <2>4, <2>5 DEF IsShard
  <2>7. IsProduct(product')
    BY <2>2
  <2>8. /\ DOMAIN S = DOMAIN product \cup DOMAIN shard
        /\ \A i \in DOMAIN product : S[i] = product[i]
        /\ \A i \in DOMAIN shard : S[i] = shard[i]
    BY MergedIs
  <2>9. /\ DOMAIN N = DOMAIN product' \cup DOMAIN shard'
        /\ \A i \in DOMAIN product' : N[i] = product'[i]
        /\ \A i \in DOMAIN shard' : N[i] = shard'[i]
    <3> DEFINE p == product'
               q == shard'
    <3>1. IsProduct(p) /\ IsShard(q)
      BY <2>6, <2>7
    <3> HIDE DEF p, q
    <3>2. /\ DOMAIN Merged(p, q) = DOMAIN p \cup DOMAIN q
          /\ IsFiniteSet(DOMAIN Merged(p, q))
          /\ \A i \in DOMAIN p : i \notin DOMAIN q /\ Merged(p, q)[i] = p[i]
          /\ \A i \in DOMAIN q : i \notin DOMAIN p /\ Merged(p, q)[i] = q[i]
          /\ \A i \in DOMAIN Merged(p, q) :
               Merged(p, q)[i] \in ProductMessages \cup ShardMessages
      BY <3>1, MergedIs
    <3> QED
      BY <3>2 DEF p, q
  <2>10. id \notin DOMAIN product
    BY <2>1 DEF IsProduct
  <2> HIDE DEF S, N
  <2>11. \A i \in DOMAIN S \ {id} : N[i] = S[i]
    BY <2>2, <2>4, <2>8, <2>9
  <2>12. N[id] = shard'[id] /\ (id \in DOMAIN S <=> id \in DOMAIN shard)
    BY <2>4, <2>8, <2>9, <2>10
  <2>13. DOMAIN N = DOMAIN S \cup {id}
    BY <2>2, <2>4, <2>8, <2>9
  <2> QED
    BY <1>0, <2>2, <2>4, <2>6, <2>7, <2>8, <2>11, <2>12, <2>13
<1> QED
  BY <1>1, <1>2 DEF Fits

---------------------------------------------------------------------------
(* The page a rewrite starts from.                                          *)

\* The members of a set of ids in the order of their sort keys.
InOrder(ids, from) ==
    [n \in 1 .. Cardinality(ids) |->
       CHOOSE i \in ids : Cardinality({j \in ids : from[j].sort < from[i].sort}) = n - 1]

\* Distinct sort keys put the members of a finite set in an order: each place
\* is taken by one of them and each of them has a place.
LEMMA Ranks ==
  ASSUME NEW ids, IsFiniteSet(ids), NEW from,
         \A i \in ids : from[i].sort \in Nat,
         \A i, j \in ids : from[i].sort = from[j].sort => i = j
  PROVE  /\ \A n \in 1 .. Cardinality(ids) : InOrder(ids, from)[n] \in ids
         /\ \A i \in ids : \E n \in 1 .. Cardinality(ids) : InOrder(ids, from)[n] = i
<1> DEFINE Below(i) == {j \in ids : from[j].sort < from[i].sort}
           c == Cardinality(ids)
           rank == [i \in ids |-> 1 + Cardinality(Below(i))]
           page == [n \in 1 .. c |-> CHOOSE i \in ids : Cardinality(Below(i)) = n - 1]
<1>1. c \in Nat
  BY FS_CardinalityType
<1>2. \A i \in ids : Cardinality(Below(i)) \in Nat /\ Cardinality(Below(i)) < c
  <2> TAKE i \in ids
  <2>1. Below(i) \subseteq ids /\ i \notin Below(i)
    OBVIOUS
  <2>2. IsFiniteSet(Below(i)) /\ Cardinality(Below(i)) <= c /\ Cardinality(Below(i)) # c
    BY <2>1, FS_Subset
  <2>3. Cardinality(Below(i)) \in Nat
    BY <2>2, FS_CardinalityType
  <2> HIDE DEF Below, c
  <2> QED
    BY <1>1, <2>2, <2>3
<1>3. \A i, j \in ids : i # j => Cardinality(Below(i)) # Cardinality(Below(j))
  <2>1. \A i, j \in ids : from[i].sort < from[j].sort => Cardinality(Below(i)) # Cardinality(Below(j))
    <3> SUFFICES ASSUME NEW i \in ids, NEW j \in ids, from[i].sort < from[j].sort
                 PROVE  Cardinality(Below(i)) # Cardinality(Below(j))
      OBVIOUS
    <3>1. Below(i) \subseteq Below(j) /\ i \in Below(j) /\ i \notin Below(i)
      OBVIOUS
    <3>2. IsFiniteSet(Below(j))
      <4>1. Below(j) \subseteq ids
        OBVIOUS
      <4> QED
        BY <4>1, FS_Subset
    <3> HIDE DEF Below
    <3> QED
      BY <3>1, <3>2, FS_Subset
  <2>2. \A i, j \in ids : i # j => from[i].sort < from[j].sort \/ from[j].sort < from[i].sort
    OBVIOUS
  <2> HIDE DEF Below
  <2> QED
    BY <2>1, <2>2
<1> HIDE DEF Below, c
<1>4. rank \in [ids -> 1 .. c]
  BY <1>1, <1>2
<1>5. IsInjective(rank)
  BY <1>2, <1>3 DEF IsInjective
<1>6. rank \in Injection(ids, 1 .. c)
  BY <1>4, <1>5 DEF Injection
<1>7. IsFiniteSet(1 .. c) /\ Cardinality(1 .. c) = c
  BY <1>1, FS_Interval
<1>8. rank \in Surjection(ids, 1 .. c)
  BY <1>6, <1>7, FS_Injection DEF c
<1>9. \A n \in 1 .. c : \E i \in ids : Cardinality(Below(i)) = n - 1
  <2> TAKE n \in 1 .. c
  <2>1. PICK i \in ids : rank[i] = n
    BY <1>8 DEF Surjection
  <2>2. 1 + Cardinality(Below(i)) = n /\ Cardinality(Below(i)) \in Nat
    BY <1>2, <2>1
  <2> QED
    BY <1>1, <2>2
<1>10. \A n \in 1 .. c : page[n] \in ids /\ Cardinality(Below(page[n])) = n - 1
  BY <1>9
<1>11. \A i \in ids : \E n \in 1 .. c : page[n] = i
  <2> TAKE i \in ids
  <2> DEFINE n == 1 + Cardinality(Below(i))
  <2>1. n \in 1 .. c /\ n - 1 = Cardinality(Below(i))
    BY <1>1, <1>2
  <2>2. page[n] \in ids /\ Cardinality(Below(page[n])) = n - 1
    BY <1>10, <2>1
  <2> HIDE DEF page, n
  <2>3. page[n] = i
    BY <1>3, <2>1, <2>2
  <2> QED
    BY <2>1, <2>3
<1> QED
  BY <1>10, <1>11 DEF page, Below, c, InOrder

\* What a program adds to another is in one of the two.
LEMMA EveryOf ==
  ASSUME NEW S, NEW p \in Seq(S), NEW q \in Seq(S), NEW n \in DOMAIN (p \o q)
  PROVE  \/ \E k \in DOMAIN p : (p \o q)[n] = p[k]
         \/ \E k \in DOMAIN q : (p \o q)[n] = q[k]
<1>1. Len(p) \in Nat /\ Len(q) \in Nat /\ DOMAIN p = 1 .. Len(p) /\ DOMAIN q = 1 .. Len(q)
  OBVIOUS
<1>2. Len(p \o q) = Len(p) + Len(q) /\ p \o q \in Seq(S)
      /\ \A i \in 1 .. Len(p) + Len(q) : (p \o q)[i] = IF i <= Len(p) THEN p[i] ELSE q[i - Len(p)]
  BY ConcatProperties
<1>3. DOMAIN (p \o q) = 1 .. Len(p) + Len(q)
  BY <1>2
<1>4. n \in 1 .. Len(p) + Len(q)
  BY <1>3
<1>5. CASE n <= Len(p)
  BY <1>1, <1>2, <1>4, <1>5
<1>6. CASE ~(n <= Len(p))
  <2>1. n - Len(p) \in DOMAIN q /\ (p \o q)[n] = q[n - Len(p)]
    BY <1>1, <1>2, <1>4, <1>6
  <2> QED
    BY <2>1
<1> QED
  BY <1>5, <1>6

---------------------------------------------------------------------------
(* What the order of the feed gives.                                        *)

\* Two messages of the feed have two sort keys.
LEMMA SortsDiffer ==
  ASSUME IsProduct(product), IsShard(shard), truth \in Seq(Entries), TimesInv, SortsInv
  PROVE  \A i, j \in DOMAIN Store : Store[i].sort = Store[j].sort => i = j
<1> SUFFICES ASSUME NEW i \in DOMAIN Store, NEW j \in DOMAIN Store, Store[i].sort = Store[j].sort
             PROVE  i = j
  OBVIOUS
<1> DEFINE S == Merged(product, shard)
<1>0. Store = S
  BY DEF Store
<1>1. \A k \in DOMAIN S : IsEvt(k) => k \in DOMAIN shard /\ S[k] = shard[k]
  <2>1. \A k \in DOMAIN product : ~IsEvt(k)
    BY KindsApart DEF IsProduct, IsEvt
  <2>2. /\ DOMAIN S = DOMAIN product \cup DOMAIN shard
        /\ IsFiniteSet(DOMAIN S)
        /\ \A k \in DOMAIN product : k \notin DOMAIN shard /\ S[k] = product[k]
        /\ \A k \in DOMAIN shard : k \notin DOMAIN product /\ S[k] = shard[k]
        /\ \A k \in DOMAIN S : S[k] \in ProductMessages \cup ShardMessages
    BY MergedIs
  <2> HIDE DEF S
  <2> QED
    BY <2>1, <2>2
<1>2. \A k \in DOMAIN Store : IsEvt(k) => \E e \in DOMAIN truth :
          <<"evt", truth[e].seq>> = k /\ truth[e].at = Store[k].sort
  BY <1>0, <1>1 DEF SortsInv, FromLog
<1>3. CASE IsEvt(i) /\ IsEvt(j)
  <2>1. PICK e \in DOMAIN truth : <<"evt", truth[e].seq>> = i /\ truth[e].at = Store[i].sort
    BY <1>2, <1>3
  <2>2. PICK f \in DOMAIN truth : <<"evt", truth[f].seq>> = j /\ truth[f].at = Store[j].sort
    BY <1>2, <1>3
  <2>3. e = f
    BY <2>1, <2>2 DEF TimesInv
  <2> QED
    BY <2>1, <2>2, <2>3
<1>4. CASE IsEvt(i) /\ ~IsEvt(j)
  <2>1. PICK e \in DOMAIN truth : truth[e].at = Store[i].sort
    BY <1>2, <1>4
  <2> QED
    BY <1>4, <2>1 DEF SortsInv
<1>5. CASE ~IsEvt(i) /\ IsEvt(j)
  <2>1. PICK e \in DOMAIN truth : truth[e].at = Store[j].sort
    BY <1>2, <1>5
  <2> QED
    BY <1>5, <2>1 DEF SortsInv
<1>6. CASE ~IsEvt(i) /\ ~IsEvt(j)
  BY <1>6 DEF SortsInv
<1> QED
  BY <1>3, <1>4, <1>5, <1>6

\* The page of a rewrite holds the messages of its kind, each once.
Wanted(kind) ==
    {i \in (IF kind = "phase" THEN DOMAIN product ELSE DOMAIN Store) :
       /\ Store[i].kind = kind
       /\ kind # "phase" => Store[i].status # "completed"}

\* The list of a kind holds every message wanted, once, and no other.
LEMMA ListedIs ==
  ASSUME IsProduct(product), IsShard(shard), truth \in Seq(Entries), TimesInv, SortsInv,
         NEW kind
  PROVE  /\ \E c \in Nat : DOMAIN Listed(kind) = 1 .. c
         /\ \A n \in DOMAIN Listed(kind) : Listed(kind)[n] \in Wanted(kind)
         /\ \A i \in Wanted(kind) : \E n \in DOMAIN Listed(kind) : Listed(kind)[n] = i
<1> DEFINE from == IF kind = "phase" THEN product ELSE Store
           ids == {i \in DOMAIN from : /\ from[i].kind = kind
                                       /\ kind # "phase" => from[i].status # "completed"}
           S == Merged(product, shard)
<1>0. Store = S
  BY DEF Store
<1>1. /\ DOMAIN S = DOMAIN product \cup DOMAIN shard
      /\ IsFiniteSet(DOMAIN S)
      /\ \A i \in DOMAIN product : i \notin DOMAIN shard /\ S[i] = product[i]
      /\ \A i \in DOMAIN shard : i \notin DOMAIN product /\ S[i] = shard[i]
      /\ \A i \in DOMAIN S : S[i] \in ProductMessages \cup ShardMessages
  BY MergedIs
<1> HIDE DEF S
<1>2. DOMAIN from \subseteq DOMAIN Store /\ \A i \in DOMAIN from : from[i] = Store[i]
  BY <1>0, <1>1
<1>3. ids = Wanted(kind)
  BY <1>2 DEF Wanted
<1>4. IsFiniteSet(DOMAIN Store)
  BY <1>0, <1>1
<1>5. ids \in SUBSET DOMAIN Store
  BY <1>2
<1>6. IsFiniteSet(ids)
  <2> HIDE DEF ids
  <2> QED
    BY <1>4, <1>5, FS_Subset
<1>7. \A i \in ids : from[i].sort \in Nat
  <2>1. \A i \in DOMAIN S : S[i].sort \in Nat
    BY <1>1, KindsApart
  <2> QED
    BY <1>0, <1>2, <1>5, <2>1
<1>8. \A i, j \in ids : from[i].sort = from[j].sort => i = j
  <2>1. \A i, j \in DOMAIN Store : Store[i].sort = Store[j].sort => i = j
    BY SortsDiffer
  <2> HIDE DEF from
  <2> QED
    BY <1>2, <1>5, <2>1
<1> DEFINE page == InOrder(ids, from)
<1>9. Listed(kind) = page
  BY DEF Listed, InOrder
<1>10. /\ \A n \in 1 .. Cardinality(ids) : page[n] \in ids
       /\ \A i \in ids : \E n \in 1 .. Cardinality(ids) : page[n] = i
  <2> HIDE DEF ids, from
  <2> QED
    BY <1>6, <1>7, <1>8, Ranks
<1>11. DOMAIN page = 1 .. Cardinality(ids) /\ Cardinality(ids) \in Nat
  <2>1. DOMAIN page = 1 .. Cardinality(ids)
    BY DEF InOrder
  <2> HIDE DEF ids
  <2> QED
    BY <1>6, <2>1, FS_CardinalityType
<1> HIDE DEF page, ids
<1> QED
  BY <1>3, <1>9, <1>10, <1>11

\* The next number of an event is a number.
LEMMA NextSeqIs ==
  ASSUME truth \in Seq(Entries), TimesInv
  PROVE  NextSeq \in Nat /\ \A e \in DOMAIN truth : truth[e].seq < NextSeq
<1>1. CASE truth = <<>>
  BY <1>1 DEF NextSeq
<1>2. CASE truth # <<>>
  <2> DEFINE N == {truth[i].seq : i \in DOMAIN truth}
             top == CHOOSE n \in N : \A i \in DOMAIN truth : truth[i].seq <= n
  <2>1. \E n \in N : \A i \in DOMAIN truth : truth[i].seq <= n
    BY <1>2 DEF TimesInv
  <2>2. top \in N /\ \A i \in DOMAIN truth : truth[i].seq <= top
    BY <2>1
  <2>3. \A i \in DOMAIN truth : truth[i].seq \in Nat
    <3> TAKE i \in DOMAIN truth
    <3>1. truth[i] \in Entries
      OBVIOUS
    <3> QED
      BY <3>1 DEF Entries
  <2>4. top \in Nat
    BY <2>2, <2>3
  <2>5. NextSeq = 1 + top
    BY <1>2 DEF NextSeq
  <2> HIDE DEF top, N
  <2> QED
    BY <2>2, <2>3, <2>4, <2>5
<1> QED
  BY <1>1, <1>2

---------------------------------------------------------------------------
(* The statement an actor is at.                                            *)

\* What a statement of each actor says.
LEMMA StatementIs ==
  ASSUME NEW a \in Actors, NEW s \in OfActor(a)
  PROVE  /\ s.do = "say" => s \in Saying /\ s.id[1] = s.kind
         /\ s.do = "rewrite" => s \in Rewriting
         /\ s.do = "project" => s \in Projecting
         /\ s.do = "list" => s \in Listing({"answer", "reasoning", "phase"})
         /\ s.do = "list" /\ s.kind # "phase" => \E t \in Turns : a = T(t)
         /\ s.do = "insert" => s.type \in EventTypes
         /\ s.do = "insert" /\ s.type = "answered" => \E t \in Turns : a = W(t)
         /\ s.do = "insert" /\ s.type = "closed" => a = Closer
         /\ s.do = "insert" => \/ \E t \in Turns : a = W(t)
                               \/ a = Closer /\ s.type = "closed"
         /\ a[2] \in Nat
         /\ s.do \in {"list", "snapshot", "own", "read"} => Rewriting \cup Projecting \subseteq OfActor(a)
<1>1. CASE \E t \in Turns : a = T(t)
  <2>1. s \in OfRequest /\ a[2] \in Nat
    BY <1>1, ActorsAre
  <2>4. Rewriting \cup Projecting \subseteq OfActor(a)
    BY <1>1, ActorsAre DEF OfRequest
  <2>2. s.do = "say" => s \in Saying /\ s.id[1] = s.kind
    BY <2>1 DEF OfRequest, Saying, Listing, Rewriting, Projecting
  <2>3. /\ s.do = "rewrite" => s \in Rewriting
        /\ s.do = "project" => s \in Projecting
        /\ s.do = "list" => s \in Listing({"answer", "reasoning", "phase"})
        /\ s.do # "insert"
    BY <2>1 DEF OfRequest, Saying, Listing, Rewriting, Projecting
  <2> QED
    BY <1>1, <2>1, <2>2, <2>3, <2>4
<1>2. CASE \E t \in Turns : a = W(t)
  <2>1. s \in OfWorker /\ a[2] \in Nat
    BY <1>2, ActorsAre
  <2>2. /\ s.do \in {"max", "insert"}
        /\ s.do = "insert" => s.type \in {"recorded", "answered", "failed"}
    BY <2>1 DEF OfWorker
  <2> QED
    BY <1>2, <2>1, <2>2 DEF EventTypes
<1>3. CASE a = Closer
  <2>1. s \in OfClose /\ a[2] \in Nat
    BY <1>3, ActorsAre
  <2>2. /\ s.do = "rewrite" => s \in Rewriting
        /\ s.do = "project" => s \in Projecting
        /\ s.do = "list" => s \in Listing({"answer", "reasoning", "phase"}) /\ s.kind = "phase"
        /\ s.do = "insert" => s.type = "closed"
        /\ s.do # "say"
    BY <2>1 DEF OfClose, Listing, Rewriting, Projecting
  <2>3. Rewriting \cup Projecting \subseteq OfActor(a)
    BY <1>3, ActorsAre DEF OfClose
  <2> QED
    BY <1>3, <2>1, <2>2, <2>3 DEF EventTypes
<1>4. CASE a = Repairer
  <2>1. s \in OfRepair /\ a[2] \in Nat
    BY <1>4, ActorsAre
  <2>2. /\ s.do = "rewrite" => s \in Rewriting
        /\ s.do = "project" => s \in Projecting
        /\ s.do = "list" => s \in Listing({"answer", "reasoning", "phase"}) /\ s.kind = "phase"
        /\ s.do \notin {"insert", "say"}
    BY <2>1 DEF OfRepair, Listing, Rewriting, Projecting
  <2>3. Rewriting \cup Projecting \subseteq OfActor(a)
    BY <1>4, ActorsAre DEF OfRepair
  <2> QED
    BY <2>1, <2>2, <2>3
<1> QED
  BY <1>1, <1>2, <1>3, <1>4, EveryActor

---------------------------------------------------------------------------
(* What each statement writes to the feed.                                  *)

\* What is said now fits its identifier, and is no event's message.
LEMMA SaidFits ==
  ASSUME clock \in Nat, NEW a \in Actors, NEW s \in Saying, s.id[1] = s.kind
  PROVE  /\ Fits(s.id, Message(s.kind, s.status, Text(a[2], s.kind), clock + 1))
         /\ ~IsEvt(s.id)
<1> DEFINE x == Text(a[2], s.kind)
           m == Message(s.kind, s.status, x, clock + 1)
<1>1. s.kind \in {"user", "phase", "error"} /\ s.status \in Phases /\ s.id \in {"user", "phase", "error"} \X Nat
  BY DEF Saying
<1>2. x \in Texts
  BY <1>1 DEF Text, Texts
<1> HIDE DEF x
<1>3. m.kind = s.kind /\ m = [kind |-> s.kind, status |-> s.status, text |-> x, sort |-> clock + 1, upd |-> clock + 1]
  BY DEF Message
<1>4. CASE s.kind = "error"
  <2>1. m \in ShardMessages
    BY <1>1, <1>2, <1>3, <1>4 DEF ShardMessages, MessagesOf, InShard
  <2>2. s.id \in ShardIds
    BY <1>1, <1>4 DEF ShardIds
  <2> QED
    BY <1>4, <2>1, <2>2 DEF Fits, IsEvt, x
<1>5. CASE s.kind # "error"
  <2>1. m \in ProductMessages
    BY <1>1, <1>2, <1>3, <1>5 DEF ProductMessages, MessagesOf
  <2>2. s.id \in ProductIds
    BY <1>1, <1>5 DEF ProductIds
  <2> QED
    BY <1>1, <1>3, <1>5, <2>1, <2>2 DEF Fits, IsEvt, x
<1> QED
  BY <1>4, <1>5

\* A rewritten message fits its identifier.
LEMMA RewrittenFits ==
  ASSUME clock \in Nat, NEW s \in Rewriting
  PROVE  Fits(s.id, Advanced(s.m)) /\ Advanced(s.m).text = s.m.text
         /\ Advanced(s.m).status = s.m.status /\ Advanced(s.m).kind = s.m.kind
<1>1. CASE s.id \in ProductIds /\ s.m \in ProductMessages /\ s.m.kind = s.id[1]
  <2>1. Advanced(s.m) \in ProductMessages /\ Advanced(s.m).kind = s.m.kind
        /\ Advanced(s.m).text = s.m.text /\ Advanced(s.m).status = s.m.status
    BY <1>1 DEF Advanced, ProductMessages, MessagesOf
  <2> QED
    BY <1>1, <2>1 DEF Fits
<1>2. CASE s.id \in ShardIds /\ s.m \in ShardMessages
  <2>1. Advanced(s.m) \in ShardMessages /\ Advanced(s.m).kind = s.m.kind
        /\ Advanced(s.m).text = s.m.text /\ Advanced(s.m).status = s.m.status
    BY <1>2 DEF Advanced, ShardMessages, MessagesOf
  <2> QED
    BY <1>2, <2>1 DEF Fits
<1> QED
  BY <1>1, <1>2 DEF Rewriting

\* The message of an event fits the event's identifier.
LEMMA ProjectedFits ==
  ASSUME NEW e \in Entries
  PROVE  Fits(<<"evt", e.seq>>, Message(e.type, "completed", e.text, e.at)) /\ IsEvt(<<"evt", e.seq>>)
<1>1. <<"evt", e.seq>> \in ShardIds
  BY DEF Entries, ShardIds
<1>2. Message(e.type, "completed", e.text, e.at) \in ShardMessages
  BY DEF Entries, EventTypes, Message, ShardMessages, MessagesOf, InShard, Phases, Settled
<1> QED
  BY <1>1, <1>2 DEF Fits, IsEvt

\* A streamed part fits the turn's message of its kind.
LEMMA StreamedFits ==
  ASSUME clock \in Nat, NEW t \in Turns, NEW k \in StreamKinds, NEW x \in Texts
  PROVE  Fits(<<k, t>>, Message(k, "streaming", x, clock + 1)) /\ ~IsEvt(<<k, t>>)
<1>1. k \in {"answer", "reasoning"} /\ t \in Nat
  BY StreamKindsAssumption, TurnsAssumption
<1>2. <<k, t>> \in ShardIds
  BY <1>1 DEF ShardIds
<1>3. Message(k, "streaming", x, clock + 1) \in ShardMessages
  BY <1>1 DEF Message, ShardMessages, MessagesOf, InShard, Phases, Settled
<1> QED
  BY <1>1, <1>2, <1>3 DEF Fits, IsEvt

\* The statements that a list brings forth.
Rewrites(kind, status) ==
    LET ids == Listed(kind)
    IN [n \in DOMAIN ids |-> [do |-> "rewrite", id |-> ids[n],
                              m |-> [Store[ids[n]] EXCEPT !.status = status]]]

\* The rewrites of a list are of messages the feed has, with the status alone changed.
LEMMA RewritesAre ==
  ASSUME IsProduct(product), IsShard(shard), truth \in Seq(Entries), TimesInv, SortsInv,
         NEW kind, NEW status \in Settled
  PROVE  /\ Rewrites(kind, status) \in Seq(Rewriting)
         /\ \A n \in DOMAIN Rewrites(kind, status) :
              LET r == Rewrites(kind, status)[n]
              IN /\ r.do = "rewrite" /\ r.id \in DOMAIN Store
                 /\ r.m = [Store[r.id] EXCEPT !.status = status]
                 /\ r.id \in Wanted(kind)
         /\ \A i \in Wanted(kind) :
              \E n \in DOMAIN Rewrites(kind, status) : Rewrites(kind, status)[n].id = i
<1> DEFINE ids == Listed(kind)
           q == [n \in DOMAIN ids |-> [do |-> "rewrite", id |-> ids[n],
                                       m |-> [Store[ids[n]] EXCEPT !.status = status]]]
           S == Merged(product, shard)
<1>0. Store = S
  BY DEF Store
<1>1. /\ DOMAIN S = DOMAIN product \cup DOMAIN shard
      /\ IsFiniteSet(DOMAIN S)
      /\ \A i \in DOMAIN product : i \notin DOMAIN shard /\ S[i] = product[i]
      /\ \A i \in DOMAIN shard : i \notin DOMAIN product /\ S[i] = shard[i]
      /\ \A i \in DOMAIN S : S[i] \in ProductMessages \cup ShardMessages
  BY MergedIs
<1> HIDE DEF S
<1>2. /\ \E c \in Nat : DOMAIN ids = 1 .. c
      /\ \A n \in DOMAIN ids : ids[n] \in Wanted(kind)
      /\ \A i \in Wanted(kind) : \E n \in DOMAIN ids : ids[n] = i
  BY ListedIs
<1>3. Wanted(kind) \subseteq DOMAIN Store
  BY <1>0, <1>1 DEF Wanted
<1> HIDE DEF ids
<1>4. \A i \in DOMAIN Store :
        [do |-> "rewrite", id |-> i, m |-> [Store[i] EXCEPT !.status = status]] \in Rewriting
  <2> TAKE i \in DOMAIN Store
  <2>1. CASE i \in DOMAIN product
    <3>1. Store[i] = product[i] /\ product[i] \in ProductMessages /\ product[i].kind = i[1]
          /\ i \in ProductIds
      BY <1>0, <1>1, <2>1 DEF IsProduct
    <3>2. [product[i] EXCEPT !.status = status] \in ProductMessages
          /\ [product[i] EXCEPT !.status = status].status \in Settled
          /\ [product[i] EXCEPT !.status = status].kind = i[1]
      BY <3>1 DEF ProductMessages, MessagesOf, Phases
    <3> QED
      BY <3>1, <3>2 DEF Rewriting
  <2>2. CASE i \in DOMAIN shard
    <3>1. Store[i] = shard[i] /\ shard[i] \in ShardMessages /\ i \in ShardIds
      BY <1>0, <1>1, <2>2 DEF IsShard
    <3>2. [shard[i] EXCEPT !.status = status] \in ShardMessages
          /\ [shard[i] EXCEPT !.status = status].status \in Settled
      BY <3>1 DEF ShardMessages, MessagesOf, Phases
    <3> QED
      BY <3>1, <3>2 DEF Rewriting
  <2> QED
    BY <1>0, <1>1, <2>1, <2>2
<1>5. PICK c \in Nat : DOMAIN ids = 1 .. c
  BY <1>2
<1>6. \A n \in DOMAIN ids : ids[n] \in DOMAIN Store
  BY <1>2, <1>3
<1>7. DOMAIN q = DOMAIN ids
  OBVIOUS
<1>8. \A n \in DOMAIN ids : /\ q[n].do = "rewrite" /\ q[n].id = ids[n]
                            /\ q[n].m = [Store[ids[n]] EXCEPT !.status = status]
                            /\ q[n] \in Rewriting
  BY <1>4, <1>6
<1>9. q \in [1 .. c -> Rewriting]
  BY <1>5, <1>8
<1> HIDE DEF q
<1>10. q \in Seq(Rewriting)
  BY <1>9
<1> QED
  BY <1>2, <1>6, <1>7, <1>8, <1>10 DEF q, ids, Rewrites

---------------------------------------------------------------------------
(* Types.                                                                   *)

\* Initially the feed and the log are empty and nobody has anything to do.
LEMMA TypeInit == Init => TypeInv
<1> SUFFICES ASSUME Init
             PROVE  TypeInv
  OBVIOUS
<1>1. truth \in Seq(Entries)
  BY DEF Init
<1>2. IsProduct(product)
  <2>1. DOMAIN product = {}
    BY DEF Init
  <2> QED
    BY <2>1, FS_EmptySet DEF IsProduct
<1>3. IsShard(shard)
  <2>1. DOMAIN shard = {}
    BY DEF Init
  <2> QED
    BY <2>1, FS_EmptySet DEF IsShard
<1>4. run \in [Turns -> Row]
  BY DEF Init, NoRow, Row, RunStatus, ActiveRun, Closed
<1>5. Programs(todo)
  <2>1. \A S : <<>> \in Seq(S)
    OBVIOUS
  <2> QED
    BY <2>1 DEF Init, Programs
<1>6. held \in [Actors -> Nat] /\ clock \in Nat
  BY DEF Init
<1>7. /\ worker \in [Turns -> {"off", "running", "reported", "dead"}]
      /\ result \in [Turns -> {"none", "answered", "failed"}]
      /\ answer \in [Turns -> Texts]
      /\ hide \in [Turns -> BOOLEAN] /\ warned \in [Turns -> BOOLEAN]
  BY DEF Init, Texts
<1>8. snap \in [Turns -> Nat] /\ \A t \in Turns : snap[t] <= Len(truth)
  BY DEF Init
<1>9. stream = [t \in Turns |-> stream[t]] /\ \A t \in Turns : DOMAIN stream[t] = StreamFields
  BY DEF Init, NoStream, StreamFields
<1> QED
  BY <1>1, <1>2, <1>3, <1>4, <1>5, <1>6, <1>7, <1>8, <1>9 DEF TypeInv

\* The steps that only give an actor something to do.
LEMMA TypeTodo ==
  ASSUME TypeInv, Programs(todo'), hide' \in [Turns -> BOOLEAN], warned' \in [Turns -> BOOLEAN],
         run' \in [Turns -> Row],
         UNCHANGED <<truth, product, shard, held, worker, result, answer, snap, stream, clock>>
  PROVE  TypeInv'
<1>1. IsProduct(product') /\ IsShard(shard')
  BY DEF TypeInv
<1> QED
  BY <1>1 DEF TypeInv

\* The steps that write to the feed.
LEMMA TypeFeed ==
  ASSUME TypeInv, Programs(todo'), clock' \in Nat, IsProduct(product'), IsShard(shard'),
         UNCHANGED <<truth, held, run, worker, result, answer, snap, hide, stream, warned>>
  PROVE  TypeInv'
  BY DEF TypeInv

\* The steps of a worker.
LEMMA TypeWork ==
  ASSUME TypeInv, Programs(todo'),
         worker' \in [Turns -> {"off", "running", "reported", "dead"}],
         result' \in [Turns -> {"none", "answered", "failed"}], answer' \in [Turns -> Texts],
         snap' \in [Turns -> Nat], \A t \in Turns : snap'[t] <= Len(truth),
         stream' = [t \in Turns |-> stream'[t]], \A t \in Turns : DOMAIN stream'[t] = StreamFields,
         hide' \in [Turns -> BOOLEAN],
         UNCHANGED <<truth, product, shard, run, held, clock, warned>>
  PROVE  TypeInv'
<1>1. IsProduct(product') /\ IsShard(shard')
  BY DEF TypeInv
<1> QED
  BY <1>1 DEF TypeInv

\* What the registry makes of a row is a row, and only a completing write completes it.
LEMMA RowsAre ==
  ASSUME NEW r \in Row
  PROVE  /\ BindRow(NewRow) \in Row /\ RequestCancel(r) \in Row /\ FailRun(r, FALSE) \in Row
         /\ \A s : CompleteRun(r, s) \in Row
         /\ RequestCancel(r).status = "completed" => r.status = "completed"
         /\ CompleteRun(r, "cancelled").status = "cancelled" /\ FailRun(r, FALSE).status = "failed"
         /\ BindRow(NewRow).status = "queued"
         /\ \A s : CompleteRun(r, s).status = "completed" => s = "completed"
<1>1. BindRow(NewRow) \in Row /\ BindRow(NewRow).status = "queued"
  BY DEF BindRow, NewRow, NoRow, Row, RunStatus, ActiveRun
<1>2. RequestCancel(r) \in Row /\ (RequestCancel(r).status = "completed" => r.status = "completed")
  BY DEF RequestCancel, Row, RunStatus, ActiveRun
<1>3. \A s : RunTerminalStatus(s) \in RunStatus /\ (RunTerminalStatus(s) = "completed" => s = "completed")
  BY DEF RunTerminalStatus, RunStatus, ActiveRun, Closed
<1>4. \A s \in RunStatus : SetStatus(r, s, FALSE) \in Row /\ SetStatus(r, s, FALSE).status = s
  BY DEF SetStatus, Row
<1>5. \A s : CompleteRun(r, s) \in Row /\ CompleteRun(r, s).status = RunTerminalStatus(s)
  BY <1>3, <1>4 DEF CompleteRun
<1>6. "failed" \in RunStatus /\ FailRun(r, FALSE) = SetStatus(r, "failed", FALSE)
  BY DEF FailRun, RunStatus, Closed
<1>7. RunTerminalStatus("cancelled") = "cancelled"
  BY DEF RunTerminalStatus
<1> QED
  BY <1>1, <1>2, <1>3, <1>4, <1>5, <1>6, <1>7

---------------------------------------------------------------------------
(* One lemma for each action.                                               *)

\* A turn is begun by recording it.
LEMMA TypeBegin ==
  ASSUME TypeInv, NEW t \in Turns, BeginTurn(t)
  PROVE  TypeInv'
<1>1. RecordTurn(t) \in Seq(OfRequest)
  <2>1. OfRequest \ (Completing \cup Deferred) \subseteq OfRequest
    OBVIOUS
  <2> QED
    BY <2>1, RecordTurnIs, Larger
<1>2. Programs(todo')
  <2>1. Programs(todo) /\ todo' = [todo EXCEPT ![T(t)] = RecordTurn(t)]
    BY DEF TypeInv, BeginTurn
  <2> QED
    BY <1>1, <2>1, ActorsAre, Becomes
<1>3. stream' = [u \in Turns |-> stream'[u]] /\ \A u \in Turns : DOMAIN stream'[u] = StreamFields
  <2>1. PICK x : stream' = [stream EXCEPT ![t] = [NoStream EXCEPT !.pc = "idle", !.after = x]]
    BY DEF BeginTurn
  <2>2. DOMAIN [NoStream EXCEPT !.pc = "idle", !.after = x] = StreamFields
    BY DEF NoStream, StreamFields
  <2>3. stream = [u \in Turns |-> stream[u]] /\ \A u \in Turns : DOMAIN stream[u] = StreamFields
    BY DEF TypeInv
  <2> QED
    BY <2>1, <2>2, <2>3
<1> QED
  BY <1>2, <1>3, TypeWork DEF BeginTurn, log, feed, work, bounds, TypeInv

\* A close begins with its event.
LEMMA TypeBeginClose ==
  ASSUME TypeInv, BeginClose
  PROVE  TypeInv'
<1>1. ForceClose \in Seq(OfClose)
  <2>1. OfClose \ Deferred \subseteq OfClose
    OBVIOUS
  <2> QED
    BY <2>1, ForceCloseIs, Larger
<1>2. Programs(todo')
  <2>1. Programs(todo) /\ todo' = [todo EXCEPT ![Closer] = ForceClose]
    BY DEF TypeInv, BeginClose
  <2> QED
    BY <1>1, <2>1, ActorsAre, Becomes
<1> QED
  BY <1>2, TypeTodo DEF BeginClose, log, feed, work, TypeInv

\* After a restart the repair is all that is left to do, orphaned workers aside.
LEMMA TypeRestart ==
  ASSUME TypeInv, Restart
  PROVE  TypeInv'
<1> DEFINE over == {t \in Turns : worker[t] = "running" /\ ~Orphans}
<1>1. worker' = [t \in Turns |-> IF t \in over THEN "dead" ELSE worker[t]]
      /\ todo' = [a \in Actors |-> CASE a = Repairer -> Step("read")
                    [] a \in {W(t) : t \in Turns \ over} -> todo[a]
                    [] OTHER -> <<>>]
  BY DEF Restart
<1> HIDE DEF over
<1>2. worker' \in [Turns -> {"off", "running", "reported", "dead"}]
  BY <1>1 DEF TypeInv
<1>3. todo' = [a \in Actors |-> todo'[a]]
  BY <1>1
<1>4. \A a \in Actors : \/ a = Repairer /\ todo'[a] = Step("read")
                        \/ todo'[a] = todo[a] \/ todo'[a] = <<>>
  BY <1>1
<1>5. Step("read") \in Seq(OfRepair)
  BY DEF Step, OfRepair
<1>6. \A a \in Actors : todo'[a] \in Seq(OfActor(a))
  <2> TAKE a \in Actors
  <2>1. todo[a] \in Seq(OfActor(a)) /\ <<>> \in Seq(OfActor(a))
    BY DEF TypeInv, Programs
  <2>2. a = Repairer => OfActor(a) = OfRepair
    BY ActorsAre
  <2> QED
    BY <1>4, <1>5, <2>1, <2>2
<1>7. Programs(todo')
  BY <1>3, <1>6 DEF Programs
<1>8. stream' = [u \in Turns |-> stream'[u]] /\ \A u \in Turns : DOMAIN stream'[u] = StreamFields
  BY DEF Restart, NoStream, StreamFields
<1> QED
  BY <1>2, <1>7, <1>8, TypeWork DEF Restart, log, feed, TypeInv

\* A writer of the log reads the next number.
LEMMA TypeSelectMax ==
  ASSUME TypeInv, TimesInv, NEW a \in Actors, SelectMax(a)
  PROVE  TypeInv'
<1>1. Programs(todo')
  BY DoneIs DEF SelectMax, Doing, TypeInv
<1>2. held' \in [Actors -> Nat]
  BY NextSeqIs DEF SelectMax, TypeInv
<1>3. UNCHANGED <<truth, product, shard, run, worker, result, answer, snap, hide, stream, clock, warned>>
  BY DEF SelectMax, feed, work, history
<1>4. IsProduct(product') /\ IsShard(shard')
  BY <1>3 DEF TypeInv
<1> QED
  BY <1>1, <1>2, <1>3, <1>4 DEF TypeInv

\* A writer of the log appends one event.
LEMMA InsertedIs ==
  ASSUME TypeInv, NEW a \in Actors, Insert(a)
  PROVE  LET e == [seq |-> held[a], type |-> Head(todo[a]).type, turn |-> a[2],
                   text |-> Text(a[2], Head(todo[a]).type), at |-> clock + 1]
         IN e \in Entries /\ truth' = Append(truth, e)
<1> DEFINE s == Head(todo[a])
           x == Text(a[2], s.type)
           e == [seq |-> held[a], type |-> s.type, turn |-> a[2], text |-> x, at |-> clock + 1]
<1>1. s \in OfActor(a) /\ s.do = "insert"
  BY DoingIs DEF Insert, TypeInv
<1>2. truth' = Append(truth, e)
  BY DEF Insert
<1> HIDE DEF s
<1>3. s.type \in EventTypes /\ a[2] \in Nat
      /\ (s.type = "answered" => \E t \in Turns : a = W(t))
  BY <1>1, StatementIs
<1>4. s.type = "answered" => a[2] \in Turns
  BY <1>3, ActorsAre
<1>5. x \in Texts
  <2>1. CASE s.type = "answered"
    BY <1>4, <2>1 DEF Text, TypeInv
  <2>2. CASE s.type # "answered"
    BY <1>3, <2>2 DEF Text, Texts
  <2> QED
    BY <2>1, <2>2
<1> HIDE DEF x
<1>6. held[a] \in Nat /\ clock \in Nat
  BY DEF TypeInv
<1>7. e \in Entries
  BY <1>3, <1>5, <1>6 DEF Entries
<1> QED
  BY <1>2, <1>7 DEF e, s, x

\* The log stays one of events.
LEMMA TypeInsert ==
  ASSUME TypeInv, NEW a \in Actors, Insert(a)
  PROVE  TypeInv'
<1>1. Programs(todo')
  BY DoneIs DEF Insert, Doing, TypeInv
<1>2. PICK e \in Entries : truth' = Append(truth, e)
  BY InsertedIs
<1>3. truth' \in Seq(Entries) /\ Len(truth') = Len(truth) + 1 /\ Len(truth) \in Nat
  BY <1>2 DEF TypeInv
<1>4. held' \in [Actors -> Nat] /\ clock' \in Nat
  BY DEF Insert, Tick, TypeInv
<1>5. UNCHANGED <<product, shard, run, worker, result, answer, snap, hide, stream, warned>>
  BY DEF Insert, feed, work, history
<1>6. IsProduct(product') /\ IsShard(shard')
  BY <1>5 DEF TypeInv
<1>7. snap' \in [Turns -> Nat] /\ \A t \in Turns : snap'[t] <= Len(truth')
  BY <1>3, <1>5 DEF TypeInv
<1> QED
  BY <1>1, <1>3, <1>4, <1>5, <1>6, <1>7 DEF TypeInv

\* What is said is appended to the feed at the next moment.
LEMMA SaidIs ==
  ASSUME TypeInv, NEW a \in Actors, SayMessage(a)
  PROVE  \E id, m : /\ Fits(id, m) /\ ~IsEvt(id) /\ AppendTo(id, m) /\ m.sort = clock + 1
                    /\ id = Head(todo[a]).id /\ m.kind = Head(todo[a]).kind
                    /\ m.status = Head(todo[a]).status /\ m.text = Text(a[2], m.kind)
<1> DEFINE s == Head(todo[a])
           m == Message(s.kind, s.status, Text(a[2], s.kind), clock + 1)
<1>1. s \in OfActor(a) /\ s.do = "say"
  BY DoingIs DEF SayMessage, TypeInv
<1>2. AppendTo(s.id, m)
  BY DEF SayMessage
<1>3. s \in Saying /\ s.id[1] = s.kind
  <2> HIDE DEF s
  <2> QED
    BY <1>1, StatementIs
<1>4. clock \in Nat
  BY DEF TypeInv
<1>5. Fits(s.id, m) /\ ~IsEvt(s.id)
  <2> HIDE DEF s
  <2> QED
    BY <1>3, <1>4, SaidFits
<1>6. m.sort = clock + 1 /\ m.kind = s.kind /\ m.status = s.status /\ m.text = Text(a[2], s.kind)
  BY DEF Message
<1> QED
  BY <1>2, <1>5, <1>6

\* What is said leaves the stores typed.
LEMMA TypeSay ==
  ASSUME TypeInv, NEW a \in Actors, SayMessage(a)
  PROVE  TypeInv'
<1>1. Programs(todo')
  BY DoneIs DEF SayMessage, Doing, TypeInv
<1>2. PICK id, m : Fits(id, m) /\ AppendTo(id, m)
  BY SaidIs
<1>3. IsProduct(product') /\ IsShard(shard')
  BY <1>2, AppendToIs DEF TypeInv
<1>4. clock' \in Nat
  BY DEF SayMessage, Tick, TypeInv
<1> QED
  BY <1>1, <1>3, <1>4, TypeFeed DEF SayMessage, log, work, history

\* What is rewritten is appended under its old identifier.
LEMMA RewrittenIs ==
  ASSUME TypeInv, NEW a \in Actors, RewriteMessage(a)
  PROVE  \E id, m : /\ Fits(id, m) /\ AppendTo(id, m)
                    /\ id = Head(todo[a]).id /\ m.kind = Head(todo[a]).m.kind
                    /\ m.status = Head(todo[a]).m.status /\ m.text = Head(todo[a]).m.text
                    /\ Head(todo[a]).do = "rewrite"
<1> DEFINE s == Head(todo[a])
           m == Advanced(s.m)
<1>1. s \in OfActor(a) /\ s.do = "rewrite"
  BY DoingIs DEF RewriteMessage, TypeInv
<1>2. AppendTo(s.id, m)
  BY DEF RewriteMessage
<1> HIDE DEF s
<1>3. s \in Rewriting
  BY <1>1, StatementIs
<1>4. clock \in Nat
  BY DEF TypeInv
<1>5. Fits(s.id, m) /\ m.text = s.m.text /\ m.status = s.m.status /\ m.kind = s.m.kind
  BY <1>3, <1>4, RewrittenFits
<1> QED
  BY <1>1, <1>2, <1>5 DEF s

\* What is rewritten leaves the stores typed.
LEMMA TypeRewrite ==
  ASSUME TypeInv, NEW a \in Actors, RewriteMessage(a)
  PROVE  TypeInv'
<1>1. Programs(todo')
  BY DoneIs DEF RewriteMessage, Doing, TypeInv
<1>2. PICK id, m : Fits(id, m) /\ AppendTo(id, m)
  BY RewrittenIs
<1>3. IsProduct(product') /\ IsShard(shard')
  BY <1>2, AppendToIs DEF TypeInv
<1>4. clock' \in Nat
  BY DEF RewriteMessage, Tick, TypeInv
<1> QED
  BY <1>1, <1>3, <1>4, TypeFeed DEF RewriteMessage, log, work, history

\* What is projected is appended under the event's identifier, or is left out.
LEMMA ProjectedIs ==
  ASSUME TypeInv, NEW a \in Actors, ProjectEvent(a)
  PROVE  LET s == Head(todo[a])
             id == <<"evt", s.event.seq>>
             m == Message(s.event.type, "completed", s.event.text, s.event.at)
         IN /\ s \in Projecting
            /\ \/ Projected(s.event, s.suppress) /\ AppendTo(id, m) /\ Fits(id, m)
               \/ ~Projected(s.event, s.suppress) /\ UNCHANGED feed
<1> DEFINE s == Head(todo[a])
           id == <<"evt", s.event.seq>>
           m == Message(s.event.type, "completed", s.event.text, s.event.at)
<1>1. s \in OfActor(a) /\ s.do = "project"
  BY DoingIs DEF ProjectEvent, TypeInv
<1>2. IF Projected(s.event, s.suppress) THEN AppendTo(id, m) ELSE UNCHANGED feed
  BY DEF ProjectEvent
<1> HIDE DEF s
<1>3. s \in Projecting /\ s.event \in Entries
  <2>1. s \in Projecting
    BY <1>1, StatementIs
  <2> QED
    BY <2>1 DEF Projecting
<1>4. Fits(id, m)
  BY <1>3, ProjectedFits
<1> HIDE DEF id, m
<1>5. \/ Projected(s.event, s.suppress) /\ AppendTo(id, m) /\ Fits(id, m)
      \/ ~Projected(s.event, s.suppress) /\ UNCHANGED feed
  BY <1>2, <1>4
<1> QED
  BY <1>3, <1>5 DEF s, id, m

\* What is projected leaves the stores typed.
LEMMA TypeProject ==
  ASSUME TypeInv, NEW a \in Actors, ProjectEvent(a)
  PROVE  TypeInv'
<1>1. Programs(todo')
  BY DoneIs DEF ProjectEvent, Doing, TypeInv
<1>2. UNCHANGED feed \/ \E id, m : AppendTo(id, m) /\ Fits(id, m)
  BY ProjectedIs
<1>3. IsProduct(product') /\ IsShard(shard')
  <2>1. CASE UNCHANGED feed
    BY <2>1 DEF feed, TypeInv
  <2>2. CASE \E id, m : AppendTo(id, m) /\ Fits(id, m)
    BY <2>2, AppendToIs DEF TypeInv
  <2> QED
    BY <1>2, <2>1, <2>2
<1>4. clock' \in Nat
  BY DEF ProjectEvent, TypeInv
<1> QED
  BY <1>1, <1>3, <1>4, TypeFeed DEF ProjectEvent, log, work, history

\* A streamed part is appended at the next moment, under the turn's identifier.
LEMMA StreamedIs ==
  ASSUME TypeInv, NEW t \in Turns, Delta(t)
  PROVE  \E k \in StreamKinds, x \in {Part, answer[t]} :
           LET id == <<k, t>>
               m == Message(k, "streaming", x, clock + 1)
           IN Fits(id, m) /\ ~IsEvt(id) /\ AppendTo(id, m) /\ m.sort = clock + 1
<1>1. PICK k \in StreamKinds, x \in {Part, answer[t]} :
        AppendTo(<<k, t>>, Message(k, "streaming", x, clock + 1))
  BY DEF Delta
<1>2. x \in Texts /\ clock \in Nat
  BY DEF TypeInv, Texts
<1>3. Fits(<<k, t>>, Message(k, "streaming", x, clock + 1)) /\ ~IsEvt(<<k, t>>)
  BY <1>2, StreamedFits
<1>4. Message(k, "streaming", x, clock + 1).sort = clock + 1
  BY DEF Message
<1> QED
  BY <1>1, <1>3, <1>4

\* What is streamed leaves the stores typed.
LEMMA TypeDelta ==
  ASSUME TypeInv, NEW t \in Turns, Delta(t)
  PROVE  TypeInv'
<1>1. Programs(todo')
  BY DEF Delta, TypeInv
<1>2. PICK id, m : Fits(id, m) /\ AppendTo(id, m)
  BY StreamedIs
<1>3. IsProduct(product') /\ IsShard(shard')
  BY <1>2, AppendToIs DEF TypeInv
<1>4. clock' \in Nat
  BY DEF Delta, Tick, TypeInv
<1> QED
  BY <1>1, <1>3, <1>4, TypeFeed DEF Delta, log, work, history

\* What a list gives an actor to do.
LEMMA ListedTodo ==
  ASSUME TypeInv, TimesInv, SortsInv, NEW a \in Actors, ListMessages(a)
  PROVE  \E q \in Seq(Rewriting) :
           /\ Programs(todo') /\ todo'[a] = q \o Tail(todo[a])
           /\ \A b \in Actors \ {a} : todo'[b] = todo[b]
           /\ \A n \in DOMAIN q : /\ q[n].do = "rewrite" /\ q[n].id \in DOMAIN Store
                                  /\ q[n].m = [Store[q[n].id] EXCEPT !.status = Head(todo[a]).status]
                                  /\ q[n].id \in Wanted(Head(todo[a]).kind)
           /\ \A i \in Wanted(Head(todo[a]).kind) : \E n \in DOMAIN q : q[n].id = i
<1> DEFINE s == Head(todo[a])
           q == Rewrites(s.kind, s.status)
<1>1. s \in OfActor(a) /\ s.do = "list" /\ todo[a] # <<>>
  BY DoingIs DEF ListMessages, TypeInv
<1>2. Expand(a, q)
  BY DEF ListMessages, Rewrites
<1> HIDE DEF s
<1>3. s.status \in Settled /\ Rewriting \subseteq OfActor(a)
  <2>1. s \in Listing({"answer", "reasoning", "phase"}) /\ Rewriting \subseteq OfActor(a)
    BY <1>1, StatementIs
  <2> QED
    BY <2>1 DEF Listing
<1>4. IsProduct(product) /\ IsShard(shard) /\ truth \in Seq(Entries) /\ Programs(todo)
  BY DEF TypeInv
<1>5. /\ q \in Seq(Rewriting)
      /\ \A n \in DOMAIN q :
           LET r == q[n]
           IN /\ r.do = "rewrite" /\ r.id \in DOMAIN Store
              /\ r.m = [Store[r.id] EXCEPT !.status = s.status]
              /\ r.id \in Wanted(s.kind)
      /\ \A i \in Wanted(s.kind) : \E n \in DOMAIN q : q[n].id = i
  BY <1>3, <1>4, RewritesAre
<1> HIDE DEF q
<1>6. q \in Seq(OfActor(a))
  BY <1>3, <1>5, Larger
<1>7. /\ Programs(todo') /\ todo'[a] = q \o Tail(todo[a])
      /\ \A b \in Actors \ {a} : todo'[b] = todo[b]
  BY <1>1, <1>2, <1>4, <1>6, ExpandIs
<1> QED
  BY <1>5, <1>7 DEF s

\* A list is expanded into rewrites.
LEMMA TypeList ==
  ASSUME TypeInv, TimesInv, SortsInv, NEW a \in Actors, ListMessages(a)
  PROVE  TypeInv'
<1>1. Programs(todo')
  BY ListedTodo
<1>2. hide' \in [Turns -> BOOLEAN]
  <2>1. hide \in [Turns -> BOOLEAN]
    BY DEF TypeInv
  <2>2. StreamAnswers(a[2]) \in BOOLEAN
    BY DEF StreamAnswers
  <2>3. hide' = hide \/ hide' = [hide EXCEPT ![a[2]] = StreamAnswers(a[2])]
    BY DEF ListMessages
  <2> QED
    BY <2>1, <2>2, <2>3
<1> QED
  BY <1>1, <1>2, TypeTodo DEF ListMessages, log, feed, work, history, TypeInv

\* A nonempty set of numbers up to n has a largest one.
LEMMA LargestIs ==
  ASSUME NEW n \in Nat, NEW S, S \subseteq 1 .. n, S # {}
  PROVE  \E s \in S : \A t \in S : t <= s
<1> DEFINE Above(t) == {u \in S : u >= t}
           Tails    == {Above(t) : t \in S}
<1>1. Tails \subseteq FiniteSubsetsOf(1 .. n)
  <2>1. IsFiniteSet(1 .. n)
    BY FS_Interval
  <2>2. \A t \in S : Above(t) \subseteq 1 .. n /\ IsFiniteSet(Above(t))
    BY <2>1, FS_Subset
  <2> QED
    BY <2>2 DEF FiniteSubsetsOf
<1>2. \E A \in Tails : \A B \in Tails : ~(<<B, A>> \in StrictSubsetOrdering(1 .. n))
  <2>1. Tails # {}
    OBVIOUS
  <2> DEFINE R == StrictSubsetOrdering(1 .. n)
             F == FiniteSubsetsOf(1 .. n)
  <2>2. IsWellFoundedOn(R, F)
    BY FS_StrictSubsetOrderingWellFounded
  <2>3. Tails \subseteq F
    BY <1>1
  <2> HIDE DEF Tails, R, F
  <2>4. \E A \in Tails : \A B \in Tails : ~(<<B, A>> \in R)
    BY <2>1, <2>2, <2>3, WFMin
  <2> QED
    BY <2>4 DEF R
<1>3. PICK s \in S : \A B \in Tails : ~(<<B, Above(s)>> \in StrictSubsetOrdering(1 .. n))
  BY <1>2
<1>4. ASSUME NEW t \in S, t > s
      PROVE  FALSE
  <2> s \in S /\ S \subseteq Nat
    BY <1>3
  <2>1. /\ \A u \in S : u >= t => u >= s
        /\ s >= s /\ ~(s >= t)
    BY <1>4
  <2>2. <<Above(t), Above(s)>> \in StrictSubsetOrdering(1 .. n)
    <3>1. Above(t) \subseteq Above(s) /\ s \in Above(s) /\ s \notin Above(t)
      BY <2>1
    <3>2. Above(s) \subseteq 1 .. n
      OBVIOUS
    <3> HIDE DEF Above
    <3> QED
      BY <3>1, <3>2 DEF StrictSubsetOrdering
  <2> QED
    BY <1>3, <2>2
<1> QED
  <2> S \subseteq Nat /\ s \in S
    BY <1>3
  <2> QED
    BY <1>4

\* The last event of some that the log holds.
LEMMA LatestIs ==
  ASSUME truth \in Seq(Entries), NEW places, places \subseteq DOMAIN truth, places # {}
  PROVE  \E i \in places : Latest(places) = truth[i]
<1>1. Len(truth) \in Nat /\ DOMAIN truth = 1 .. Len(truth)
  OBVIOUS
<1>2. \E i \in places : \A j \in places : j <= i
  <2> HIDE DEF Entries
  <2> QED
    BY <1>1, LargestIs
<1> DEFINE last == CHOOSE i \in places : \A j \in places : j <= i
<1>3. last \in places
  BY <1>2
<1> QED
  BY <1>3 DEF Latest

---------------------------------------------------------------------------
(* The other actions.                                                       *)

\* The row of a turn is queued.
LEMMA TypeQueue ==
  ASSUME TypeInv, NEW t \in Turns, QueueRun(t)
  PROVE  TypeInv'
<1>1. Programs(todo')
  BY DoneIs, ActorsAre DEF QueueRun, Doing, TypeInv
<1>2. run' \in [Turns -> Row]
  <2>1. BindRow(NewRow) \in Row
    <3>1. run[t] \in Row
      BY DEF TypeInv
    <3> QED
      BY <3>1, RowsAre
  <2> QED
    BY <2>1 DEF QueueRun, TypeInv
<1> QED
  BY <1>1, <1>2, TypeTodo DEF QueueRun, log, feed, work, history, TypeInv

\* The status of a row is written.
LEMMA TypeSetRun ==
  ASSUME TypeInv, NEW t \in Turns, SetRunStatus(t)
  PROVE  TypeInv'
<1>1. Programs(todo')
  BY DoneIs, ActorsAre DEF SetRunStatus, Doing, TypeInv
<1>2. run' \in [Turns -> Row]
  <2> DEFINE s == Head(todo[T(t)]).status
  <2>1. CompleteRun(run[t], s) \in Row
    <3>1. run[t] \in Row
      BY DEF TypeInv
    <3> HIDE DEF s
    <3> QED
      BY <3>1, RowsAre
  <2>2. run' = [run EXCEPT ![t] = CompleteRun(run[t], s)]
    BY DEF SetRunStatus
  <2> QED
    BY <2>1, <2>2 DEF TypeInv
<1> QED
  BY <1>1, <1>2, TypeTodo DEF SetRunStatus, log, feed, work, history, TypeInv

\* A worker is given the program of its turn's log.
LEMMA TypeSpawn ==
  ASSUME TypeInv, NEW t \in Turns, SpawnWorker(t)
  PROVE  TypeInv'
<1>1. Programs(todo) /\ todo[T(t)] # <<>>
  BY DEF SpawnWorker, Doing, TypeInv
<1>2. todo' = [todo EXCEPT ![T(t)] = Tail(todo[T(t)]), ![W(t)] = Log("recorded")]
  BY DEF SpawnWorker
<1>3. Tail(todo[T(t)]) \in Seq(OfActor(T(t))) /\ Log("recorded") \in Seq(OfActor(W(t)))
  <2>1. Tail(todo[T(t)]) \in Seq(OfActor(T(t)))
    BY <1>1, ActorsAre, FirstIs DEF Programs
  <2>2. OfWorker \ Deferred \subseteq OfActor(W(t))
    BY ActorsAre
  <2> QED
    BY <2>1, <2>2, LogIs, Larger
<1>4. Programs(todo')
  <2>1. DOMAIN todo = Actors /\ T(t) \in Actors /\ W(t) \in Actors
    BY <1>1, ActorsAre DEF Programs
  <2>2. todo' = [a \in Actors |-> todo'[a]]
    BY <1>2, <2>1
  <2>3. \A a \in Actors : todo'[a] \in Seq(OfActor(a))
    BY <1>1, <1>2, <1>3, <2>1 DEF Programs
  <2> QED
    BY <2>2, <2>3 DEF Programs
<1>5. worker' \in [Turns -> {"off", "running", "reported", "dead"}]
  BY DEF SpawnWorker, TypeInv
<1>6. answer' \in [Turns -> Texts]
  BY DEF SpawnWorker, TypeInv, Texts
<1> QED
  BY <1>4, <1>5, <1>6, TypeWork DEF SpawnWorker, log, feed, bounds, history, TypeInv

\* A worker that cannot be spawned fails its turn.
LEMMA TypeSpawnFails ==
  ASSUME TypeInv, NEW t \in Turns, SpawnFails(t)
  PROVE  TypeInv'
<1>1. Failed(t) \in Seq(OfActor(T(t)))
  <2>1. OfRequest \ (Completing \cup Reaping \cup Deferred) \subseteq OfActor(T(t))
    BY ActorsAre
  <2> QED
    BY <2>1, FailedIs, Larger
<1>2. Programs(todo) /\ todo' = [todo EXCEPT ![T(t)] = Failed(t)]
  BY DEF SpawnFails, Turn, TypeInv
<1>3. Programs(todo')
  BY <1>1, <1>2, ActorsAre, Becomes
<1> QED
  BY <1>3, TypeTodo DEF SpawnFails, log, feed, work, history, TypeInv

\* A worker writes its outcome to the log.
LEMMA TypeConclude ==
  ASSUME TypeInv, NEW t \in Turns, Conclude(t)
  PROVE  TypeInv'
<1>1. PICK r \in {"answered", "failed"} : /\ result' = [result EXCEPT ![t] = r]
                                          /\ todo' = [todo EXCEPT ![W(t)] = Log(r)]
  BY DEF Conclude
<1>2. Log(r) \in Seq(OfActor(W(t)))
  <2>1. OfWorker \ Deferred \subseteq OfActor(W(t))
    BY ActorsAre
  <2> QED
    BY <2>1, LogIs, Larger
<1>3. Programs(todo')
  BY <1>1, <1>2, ActorsAre, Becomes DEF TypeInv
<1>4. result' \in [Turns -> {"none", "answered", "failed"}]
  BY <1>1 DEF TypeInv
<1> QED
  BY <1>3, <1>4, TypeWork DEF Conclude, log, feed, bounds, history, TypeInv

\* A worker reports what it found.
LEMMA TypeReport ==
  ASSUME TypeInv, NEW t \in Turns, Report(t)
  PROVE  TypeInv'
<1>1. worker' \in [Turns -> {"off", "running", "reported", "dead"}]
  BY DEF Report, TypeInv
<1>2. Len(truth) \in Nat
  BY DEF TypeInv
<1>3. snap' \in [Turns -> Nat] /\ \A u \in Turns : snap'[u] <= Len(truth)
  BY <1>2 DEF Report, TypeInv
<1> QED
  BY <1>1, <1>3, TypeWork DEF Report, log, feed, bounds, history, TypeInv

\* A worker dies with what it had to do.
LEMMA TypeDies ==
  ASSUME TypeInv, NEW t \in Turns, WorkerDies(t)
  PROVE  TypeInv'
<1>1. worker' \in [Turns -> {"off", "running", "reported", "dead"}]
  BY DEF WorkerDies, TypeInv
<1>2. Programs(todo')
  <2>1. <<>> \in Seq(OfActor(W(t)))
    OBVIOUS
  <2>2. Programs(todo) /\ todo' = [todo EXCEPT ![W(t)] = <<>>]
    BY DEF WorkerDies, TypeInv
  <2> QED
    BY <2>1, <2>2, ActorsAre, Becomes
<1> QED
  BY <1>1, <1>2, TypeWork DEF WorkerDies, log, feed, bounds, history, TypeInv

\* What Reap leaves its turn to do.
LEMMA ReapedIs ==
  ASSUME TypeInv, NEW t \in Turns, Reap(t)
  PROVE  /\ \E p \in Seq(OfRequest \ (Completing \cup Reaping \cup Deferred)) :
              todo' = [todo EXCEPT ![T(t)] = p]
         /\ run' \in [Turns -> Row]
         /\ \A u \in Turns : run'[u].status = "completed" => run[u].status = "completed"
<1> DEFINE S == OfRequest \ (Completing \cup Reaping \cup Deferred)
<1>0. run[t] \in Row /\ run \in [Turns -> Row]
  BY DEF TypeInv
<1>1. Failed(t) \in Seq(S) /\ Step("check") \in Seq(S)
  <2>1. Step("check") \in Seq(S)
    BY DEF Step, OfRequest, Completing, Reaping, Deferred, Rewriting, Projecting
  <2> QED
    BY <2>1, FailedIs
<1> HIDE DEF S
<1>2. CASE run[t].cancel
  <2>1. run' = [run EXCEPT ![t] = CompleteRun(run[t], "cancelled")] /\ Turn(T(t), Failed(t))
    BY <1>2 DEF Reap
  <2>2. CompleteRun(run[t], "cancelled") \in Row /\ CompleteRun(run[t], "cancelled").status = "cancelled"
    BY <1>0, RowsAre
  <2> QED
    BY <1>0, <1>1, <2>1, <2>2 DEF Turn, S
<1>3. CASE ~run[t].cancel /\ worker[t] = "dead"
  <2>1. run' = [run EXCEPT ![t] = FailRun(run[t], FALSE)] /\ Turn(T(t), Failed(t))
    BY <1>3 DEF Reap
  <2>2. FailRun(run[t], FALSE) \in Row /\ FailRun(run[t], FALSE).status = "failed"
    BY <1>0, RowsAre
  <2> QED
    BY <1>0, <1>1, <2>1, <2>2 DEF Turn, S
<1>4. CASE ~run[t].cancel /\ worker[t] # "dead"
  <2>1. Turn(T(t), Step("check")) /\ run' = run
    BY <1>4 DEF Reap
  <2> QED
    BY <1>0, <1>1, <2>1 DEF Turn, S
<1> QED
  BY <1>2, <1>3, <1>4

\* The request takes its worker's result.
LEMMA TypeReap ==
  ASSUME TypeInv, NEW t \in Turns, Reap(t)
  PROVE  TypeInv'
<1>1. PICK p \in Seq(OfRequest \ (Completing \cup Reaping \cup Deferred)) :
        todo' = [todo EXCEPT ![T(t)] = p]
  BY ReapedIs
<1>2. p \in Seq(OfActor(T(t)))
  <2>1. OfRequest \ (Completing \cup Reaping \cup Deferred) \subseteq OfActor(T(t))
    BY ActorsAre
  <2> QED
    BY <2>1, Larger
<1>3. Programs(todo')
  BY <1>1, <1>2, ActorsAre, Becomes DEF TypeInv
<1>4. run' \in [Turns -> Row]
  BY ReapedIs
<1>5. warned' \in [Turns -> BOOLEAN]
  BY DEF Reap, LogHoldsClose, TypeInv
<1> QED
  BY <1>3, <1>4, <1>5, TypeTodo DEF Reap, log, feed, work, TypeInv

\* What CheckClosed leaves its turn to do.
LEMMA CheckedIs ==
  ASSUME TypeInv, NEW t \in Turns, CheckClosed(t)
  PROVE  \E p \in Seq(OfRequest \ (Reaping \cup Deferred)) :
           /\ todo' = [todo EXCEPT ![T(t)] = p]
           /\ LogHoldsClose => p \in Seq(OfRequest \ (Completing \cup Reaping \cup Deferred))
<1>1. CASE LogHoldsClose
  <2>1. todo' = [todo EXCEPT ![T(t)] = Cancelled]
    BY <1>1 DEF CheckClosed, Turn, WasForceClosed
  <2>2. Cancelled \in Seq(OfRequest \ (Completing \cup Reaping \cup Deferred))
    BY CancelledIs
  <2>3. Cancelled \in Seq(OfRequest \ (Reaping \cup Deferred))
    <3>1. OfRequest \ (Completing \cup Reaping \cup Deferred) \subseteq OfRequest \ (Reaping \cup Deferred)
      OBVIOUS
    <3> QED
      BY <2>2, <3>1, Larger
  <2> QED
    BY <2>1, <2>2, <2>3
<1>2. CASE ~LogHoldsClose
  <2>1. PICK s \in {"completed", "failed"} : todo' = [todo EXCEPT ![T(t)] = Answered(s)]
    BY <1>2 DEF CheckClosed, Turn, WasForceClosed
  <2> QED
    BY <1>2, <2>1, AnsweredIs
<1> QED
  BY <1>1, <1>2

\* The request looks for a close before it completes.
LEMMA TypeCheck ==
  ASSUME TypeInv, NEW t \in Turns, CheckClosed(t)
  PROVE  TypeInv'
<1>1. PICK p \in Seq(OfRequest \ (Reaping \cup Deferred)) : todo' = [todo EXCEPT ![T(t)] = p]
  BY CheckedIs
<1>2. p \in Seq(OfActor(T(t)))
  <2>1. OfRequest \ (Reaping \cup Deferred) \subseteq OfActor(T(t))
    BY ActorsAre
  <2> QED
    BY <2>1, Larger
<1>3. Programs(todo')
  BY <1>1, <1>2, ActorsAre, Becomes DEF TypeInv
<1> QED
  BY <1>3, TypeTodo DEF CheckClosed, log, feed, work, history, TypeInv

\* What a snapshot, a close and a repair have to project is theirs to do.
LEMMA ProjectionIs ==
  ASSUME TypeInv, NEW a \in Actors, NEW what \in {"snapshot", "own", "read"}, Doing(a, what),
         NEW es \in Seq(Entries), NEW hidden \in BOOLEAN
  PROVE  /\ Project(es, hidden) \in Seq(OfActor(a))
         /\ Programs(todo) /\ todo[a] # <<>>
<1> DEFINE s == Head(todo[a])
           q == Project(es, hidden)
<1>1. s \in OfActor(a) /\ s.do = what /\ todo[a] # <<>>
  BY DoingIs DEF TypeInv
<1> HIDE DEF s
<1>2. Projecting \subseteq OfActor(a)
  BY <1>1, StatementIs
<1>3. q \in Seq(Projecting)
  BY ProjectIs
<1> HIDE DEF q
<1>4. q \in Seq(OfActor(a))
  BY <1>2, <1>3, Larger
<1> QED
  BY <1>1, <1>4 DEF q, TypeInv

\* The request projects the events since its worker began.
LEMMA TypeSnapshot ==
  ASSUME TypeInv, NEW t \in Turns, Snapshot(t)
  PROVE  TypeInv'
<1> DEFINE p == Project(SubSeq(truth, 1, snap[t]), hide[t])
<1>1. SubSeq(truth, 1, snap[t]) \in Seq(Entries) /\ hide[t] \in BOOLEAN
  <2>1. truth \in Seq(Entries) /\ snap[t] \in Nat /\ snap[t] <= Len(truth) /\ hide[t] \in BOOLEAN
    BY DEF TypeInv
  <2>2. \A i \in 1 .. snap[t] : truth[i] \in Entries
    BY <2>1
  <2> QED
    BY <2>1, <2>2, SubSeqProperties
<1>2. p \in Seq(OfActor(T(t))) /\ Programs(todo) /\ todo[T(t)] # <<>>
  BY <1>1, ActorsAre, ProjectionIs DEF Snapshot
<1>3. Expand(T(t), p)
  BY DEF Snapshot
<1> HIDE DEF p
<1>4. Programs(todo')
  BY <1>2, <1>3, ActorsAre, ExpandIs
<1>5. snap' \in [Turns -> Nat] /\ \A u \in Turns : snap'[u] <= Len(truth)
  <2>1. snap' = [snap EXCEPT ![t] = 0] /\ Len(truth) \in Nat
    BY DEF Snapshot, TypeInv
  <2> QED
    BY <2>1 DEF TypeInv
<1>6. hide' \in [Turns -> BOOLEAN]
  BY DEF Snapshot, TypeInv
<1> QED
  BY <1>4, <1>5, <1>6, TypeWork DEF Snapshot, log, feed, bounds, history, TypeInv

\* A close that projects its event finds it in the log.
LEMMA OwnIs ==
  ASSUME TypeInv, OwnInv, Doing(Closer, "own")
  PROVE  /\ LogHoldsClose /\ Latest(CloseEvents) \in Entries
         /\ \E i \in CloseEvents : Latest(CloseEvents) = truth[i]
<1>1. todo[Closer] \in Seq(OfClose) /\ Head(todo[Closer]) = todo[Closer][1] /\ 1 \in DOMAIN todo[Closer]
      /\ Head(todo[Closer]).do = "own" /\ Head(todo[Closer]) \in OfClose
  BY DoingIs, ActorsAre DEF TypeInv, Programs
<1>2. CASE todo[Closer] \in Seq(OfClose \ Owning)
  <2>1. todo[Closer] # <<>>
    BY DEF Doing
  <2>2. Head(todo[Closer]) \in OfClose \ Owning
    BY <1>2, <2>1, FirstIs
  <2>3. Head(todo[Closer]) \notin Owning => Head(todo[Closer]).do # "own"
    BY <1>1 DEF OfClose, Owning, Listing, Rewriting, Projecting
  <2> QED
    BY <1>1, <2>2, <2>3
<1>3. CASE At(Closer, 1, [do |-> "max"])
  BY <1>1, <1>3 DEF At
<1>4. CASE At(Closer, 1, [do |-> "insert", type |-> "closed"])
  BY <1>1, <1>4 DEF At
<1>5. LogHoldsClose
  BY <1>2, <1>3, <1>4 DEF OwnInv
<1>6. CloseEvents # {} /\ CloseEvents \subseteq DOMAIN truth /\ truth \in Seq(Entries)
  BY <1>5 DEF LogHoldsClose, CloseEvents, TypeInv
<1>7. PICK i \in CloseEvents : Latest(CloseEvents) = truth[i]
  BY <1>6, LatestIs
<1> QED
  BY <1>5, <1>6, <1>7

\* The close projects its own event.
LEMMA TypeOwn ==
  ASSUME TypeInv, OwnInv, ProjectOwn
  PROVE  TypeInv'
<1> DEFINE es == << Latest(CloseEvents) >>
           p == Project(es, FALSE)
<1>1. es \in Seq(Entries)
  <2>1. Latest(CloseEvents) \in Entries
    BY OwnIs DEF ProjectOwn
  <2> QED
    BY <2>1, OneStep
<1>2. p \in Seq(OfActor(Closer)) /\ Programs(todo) /\ todo[Closer] # <<>>
  <2> HIDE DEF es
  <2> QED
    BY <1>1, ActorsAre, ProjectionIs DEF ProjectOwn
<1>3. Expand(Closer, p)
  BY DEF ProjectOwn
<1> HIDE DEF p
<1>4. Programs(todo')
  BY <1>2, <1>3, ActorsAre, ExpandIs
<1> QED
  BY <1>4, TypeTodo DEF ProjectOwn, log, feed, work, history, TypeInv

\* What the repair has to do.
LEMMA ReadIs ==
  ASSUME TypeInv, ReadTruth
  PROVE  \E more \in Seq(OfRepair \ Deferred) :
           /\ Project(truth, FALSE) \in Seq(OfRepair) /\ more \in Seq(OfRepair)
           /\ todo'[Repairer] = (Project(truth, FALSE) \o more) \o Tail(todo[Repairer])
           /\ Programs(todo') /\ \A b \in Actors \ {Repairer} : todo'[b] = todo[b]
           /\ Outcomes # {} => more = Complete("phase", Verdict[Latest(Outcomes).type])
           /\ Outcomes = {} => more = <<>>
<1> DEFINE q == Project(truth, FALSE)
           more == IF Outcomes = {} THEN <<>> ELSE Complete("phase", Verdict[Latest(Outcomes).type])
           p == q \o more
<1>0. truth \in Seq(Entries)
  BY DEF TypeInv
<1>1. q \in Seq(OfActor(Repairer)) /\ Programs(todo) /\ todo[Repairer] # <<>>
  BY <1>0, ActorsAre, ProjectionIs DEF ReadTruth
<1>2. more \in Seq(OfRepair \ Deferred)
  <2>1. CASE Outcomes = {}
    BY <2>1
  <2>2. CASE Outcomes # {}
    <3>1. Outcomes \subseteq DOMAIN truth
      BY DEF Outcomes
    <3>2. PICK i \in Outcomes : Latest(Outcomes) = truth[i]
      BY <1>0, <2>2, <3>1, LatestIs
    <3>3. Verdict[Latest(Outcomes).type] \in Settled
      BY <3>2 DEF Outcomes, Verdict, Phases, Settled
    <3>4. Complete("phase", Verdict[Latest(Outcomes).type]) \in Seq(OfRepair \ Deferred)
      <4> HIDE DEF q
      <4> DEFINE x == Verdict[Latest(Outcomes).type]
      <4> HIDE DEF x
      <4>1. Complete("phase", x) \in Seq(OfRepair \ Deferred)
        BY <3>3, CompleteIs DEF x
      <4> QED
        BY <4>1 DEF x
    <3> QED
      BY <2>2, <3>4
  <2> QED
    BY <2>1, <2>2
<1>3. Expand(Repairer, p)
  BY DEF ReadTruth
<1>4. OfRepair \ Deferred \subseteq OfRepair /\ OfActor(Repairer) = OfRepair /\ Repairer \in Actors
  BY ActorsAre
<1>5. /\ Outcomes # {} => more = Complete("phase", Verdict[Latest(Outcomes).type])
      /\ Outcomes = {} => more = <<>>
  OBVIOUS
<1> HIDE DEF q, more
<1>6. more \in Seq(OfRepair)
  BY <1>2, <1>4, Larger
<1>7. p \in Seq(OfActor(Repairer))
  BY <1>1, <1>4, <1>6, Together
<1> HIDE DEF p
<1>8. /\ Programs(todo') /\ todo'[Repairer] = p \o Tail(todo[Repairer])
      /\ \A b \in Actors \ {Repairer} : todo'[b] = todo[b]
  BY <1>1, <1>3, <1>4, <1>7, ExpandIs
<1>9. q \in Seq(OfRepair)
  BY <1>1, <1>4
<1> QED
  BY <1>2, <1>5, <1>6, <1>8, <1>9 DEF p, q

\* The repair projects the log and settles the phases.
LEMMA TypeRead ==
  ASSUME TypeInv, ReadTruth
  PROVE  TypeInv'
<1>1. Programs(todo')
  BY ReadIs
<1> QED
  BY <1>1, TypeTodo DEF ReadTruth, log, feed, work, history, TypeInv

\* The close flags the runs that are still going.
LEMMA TypeFlag ==
  ASSUME TypeInv, FlagRuns
  PROVE  TypeInv'
<1>1. Programs(todo')
  BY DoneIs, ActorsAre DEF FlagRuns, Doing, TypeInv
<1>2. run' \in [Turns -> Row]
  <2>1. \A t \in Turns : RequestCancel(run[t]) \in Row
    <3> TAKE t \in Turns
    <3>1. run[t] \in Row
      BY DEF TypeInv
    <3> QED
      BY <3>1, RowsAre
  <2> QED
    BY <2>1 DEF FlagRuns
<1> QED
  BY <1>1, <1>2, TypeTodo DEF FlagRuns, log, feed, work, history, TypeInv

\* What a close leaves everybody to do when it kills workers.
LEMMA KilledIs ==
  ASSUME TypeInv, KillWorkers
  PROVE  /\ Programs(todo') /\ todo'[Closer] = Tail(todo[Closer])
         /\ \A t \in Turns : todo'[T(t)] = todo[T(t)]
         /\ \A a \in Actors \ {Closer} : todo'[a] = todo[a] \/ todo'[a] = <<>>
         /\ todo'[Repairer] = todo[Repairer]
<1> DEFINE hit == {t \in Turns : worker[t] = "running" /\ Doing(T(t), "reap")}
<1>1. todo' = [a \in Actors |-> IF a = Closer THEN Tail(todo[a])
                              ELSE IF \E t \in hit : a = W(t) THEN <<>> ELSE todo[a]]
  BY DEF KillWorkers
<1>2. hit \subseteq Turns
  OBVIOUS
<1> HIDE DEF hit
<1>3. Programs(todo) /\ todo[Closer] # <<>>
  BY DEF KillWorkers, Doing, TypeInv
<1>4. todo'[Closer] = Tail(todo[Closer]) /\ Tail(todo[Closer]) \in Seq(OfClose)
  <2>1. todo[Closer] \in Seq(OfClose)
    BY <1>3, ActorsAre DEF Programs
  <2> QED
    BY <1>1, <1>3, <2>1, ActorsAre, FirstIs
<1>5. \A a \in Actors \ {Closer} : todo'[a] = todo[a] \/ todo'[a] = <<>>
  BY <1>1
<1>6. \A t \in Turns : todo'[T(t)] = todo[T(t)]
  BY <1>1, <1>2, ActorsAre
<1>7. \A t \in hit : Repairer # W(t) /\ Repairer # Closer
  BY <1>2, ActorsAre
<1>8. todo'[Repairer] = todo[Repairer]
  BY <1>1, <1>7, ActorsAre
<1>9. \A a \in Actors : todo'[a] \in Seq(OfActor(a))
  <2> TAKE a \in Actors
  <2>1. CASE a = Closer
    BY <1>4, <2>1, ActorsAre
  <2>2. CASE a # Closer
    <3>1. todo[a] \in Seq(OfActor(a)) /\ <<>> \in Seq(OfActor(a))
      BY <1>3 DEF Programs
    <3> QED
      BY <1>5, <2>2, <3>1
  <2> QED
    BY <2>1, <2>2
<1>10. todo' = [a \in Actors |-> todo'[a]]
  BY <1>1
<1> QED
  BY <1>4, <1>5, <1>6, <1>8, <1>9, <1>10 DEF Programs

\* The close takes the workers' programs away.
LEMMA TypeKill ==
  ASSUME TypeInv, KillWorkers
  PROVE  TypeInv'
<1>1. Programs(todo')
  BY KilledIs
<1>2. worker' \in [Turns -> {"off", "running", "reported", "dead"}]
  BY DEF KillWorkers, TypeInv
<1> QED
  BY <1>1, <1>2, TypeWork DEF KillWorkers, log, feed, bounds, history, TypeInv

\* A stream reads a page of each store.
LEMMA TypeLoad ==
  ASSUME TypeInv, NEW t \in Turns, LoadProduct(t) \/ LoadShard(t)
  PROVE  TypeInv'
<1>1. stream = [u \in Turns |-> stream[u]] /\ \A u \in Turns : DOMAIN stream[u] = StreamFields
  BY DEF TypeInv
<1>2. stream' = [u \in Turns |-> stream'[u]] /\ \A u \in Turns : DOMAIN stream'[u] = StreamFields
  <2>1. CASE LoadProduct(t)
    <3>1. PICK x, y : stream' = [stream EXCEPT ![t].pc = "loading", ![t].last = x, ![t].page = y]
      BY <2>1 DEF LoadProduct
    <3> QED
      BY <1>1, <3>1
  <2>2. CASE LoadShard(t)
    <3>1. PICK x, y, z : stream' = [stream EXCEPT ![t] = [pc |-> x, after |-> y, page |-> <<>>,
                                                         last |-> FALSE, sent |-> z]]
      BY <2>2 DEF LoadShard
    <3> QED
      BY <1>1, <3>1 DEF StreamFields
  <2> QED
    BY <2>1, <2>2
<1>3. UNCHANGED <<truth, held, product, shard, run, todo, worker, result, answer, snap, hide, clock, warned>>
  BY DEF LoadProduct, LoadShard, log, feed, work, history
<1>4. Programs(todo')
  BY <1>3 DEF TypeInv
<1> QED
  BY <1>2, <1>3, <1>4, TypeWork DEF TypeInv

\* Every step keeps the types.
LEMMA TypeStep ==
  ASSUME TypeInv, OrderInv, [Next]_vars
  PROVE  TypeInv'
<1> USE DEF OrderInv
<1>1. ASSUME NEW t \in Turns,
             \/ BeginTurn(t) \/ QueueRun(t) \/ SetRunStatus(t) \/ SpawnWorker(t) \/ SpawnFails(t)
             \/ Conclude(t) \/ Report(t) \/ WorkerDies(t) \/ Delta(t)
             \/ Reap(t) \/ CheckClosed(t) \/ Snapshot(t) \/ LoadProduct(t) \/ LoadShard(t)
      PROVE  TypeInv'
  BY <1>1, TypeBegin, TypeQueue, TypeSetRun, TypeSpawn, TypeSpawnFails, TypeConclude, TypeReport,
     TypeDies, TypeDelta, TypeReap, TypeCheck, TypeSnapshot, TypeLoad
<1>2. ASSUME BeginClose \/ ProjectOwn \/ FlagRuns \/ KillWorkers \/ Restart \/ ReadTruth
      PROVE  TypeInv'
  BY <1>2, TypeBeginClose, TypeOwn, TypeFlag, TypeKill, TypeRestart, TypeRead
<1>3. ASSUME NEW a \in Actors,
             \/ SelectMax(a) \/ Insert(a) \/ ProjectEvent(a)
             \/ SayMessage(a) \/ ListMessages(a) \/ RewriteMessage(a)
      PROVE  TypeInv'
  BY <1>3, TypeSelectMax, TypeInsert, TypeProject, TypeSay, TypeList, TypeRewrite
<1>4. ASSUME UNCHANGED vars
      PROVE  TypeInv'
  <2>1. UNCHANGED <<truth, held, product, shard, run, todo, worker, result, answer, snap, hide, stream,
                    clock, warned>>
    BY <1>4 DEF vars, log, feed, work, history
  <2>2. Programs(todo')
    BY <2>1 DEF TypeInv
  <2> QED
    BY <2>1, <2>2, TypeWork DEF TypeInv
<1> QED
  BY <1>1, <1>2, <1>3, <1>4 DEF Next

---------------------------------------------------------------------------
(* The order of the feed.                                                   *)

\* The times of the log stay apart while nothing is appended to it.
LEMMA TimesKept ==
  ASSUME TypeInv, TimesInv, truth' = truth, clock' \in {clock, clock + 1}
  PROVE  TimesInv'
<1>1. \A e \in DOMAIN truth : truth[e].at \in Nat
  <2> TAKE e \in DOMAIN truth
  <2>1. truth[e] \in Entries
    BY DEF TypeInv
  <2> QED
    BY <2>1 DEF Entries
<1>2. clock \in Nat
  BY DEF TypeInv
<1> QED
  BY <1>1, <1>2 DEF TimesInv

\* An appended event has a time of its own and the latest number.
LEMMA TimesInsert ==
  ASSUME TypeInv, TimesInv, NEW a \in Actors, Insert(a)
  PROVE  TimesInv'
<1>1. PICK e \in Entries : truth' = Append(truth, e) /\ e.at = clock + 1
  BY InsertedIs
<1>2. truth \in Seq(Entries) /\ clock \in Nat /\ clock' = clock + 1
  BY DEF TypeInv, Insert, Tick
<1> DEFINE n == Len(truth)
<1>3. /\ n \in Nat /\ DOMAIN truth = 1 .. n /\ DOMAIN truth' = 1 .. n + 1
      /\ truth'[n + 1] = e /\ \A i \in 1 .. n : truth'[i] = truth[i]
  BY <1>1, <1>2
<1>4. \A i \in 1 .. n : truth[i].at \in Nat /\ truth[i].seq \in Nat /\ truth[i].at <= clock
  <2> TAKE i \in 1 .. n
  <2>1. truth[i] \in Entries
    BY <1>2
  <2> QED
    BY <1>3, <2>1 DEF Entries, TimesInv
<1>5. e.seq \in Nat
  BY DEF Entries
<1> HIDE DEF n
<1>6. \A i \in DOMAIN truth' : truth'[i].at <= clock'
  BY <1>1, <1>2, <1>3, <1>4
<1>7. \A i, j \in DOMAIN truth' : truth'[i].at = truth'[j].at => i = j
  <2>1. \A i, j \in 1 .. n : truth[i].at = truth[j].at => i = j
    BY <1>3 DEF TimesInv
  <2>2. \A i \in DOMAIN truth' : i \in 1 .. n \/ i = n + 1
    BY <1>3
  <2> QED
    BY <1>1, <1>2, <1>3, <1>4, <2>1, <2>2
<1>8. \E i \in DOMAIN truth' : \A j \in DOMAIN truth' : truth'[j].seq <= truth'[i].seq
  <2>0. n + 1 \in DOMAIN truth' /\ \A i \in DOMAIN truth' : i \in 1 .. n \/ i = n + 1
    BY <1>3
  <2>1. CASE n = 0
    <3>1. \A j \in DOMAIN truth' : j = n + 1
      BY <1>3, <2>1
    <3> QED
      BY <1>3, <1>5, <2>0, <3>1
  <2>2. CASE n # 0
    <3>1. truth # <<>>
      BY <1>2, <2>2 DEF n
    <3>2. PICK i \in 1 .. n : \A j \in 1 .. n : truth[j].seq <= truth[i].seq
      BY <1>3, <3>1 DEF TimesInv
    <3>3. CASE truth[i].seq <= e.seq
      <4>1. \A j \in DOMAIN truth' : truth'[j].seq <= truth'[n + 1].seq
        BY <1>3, <1>4, <1>5, <2>0, <3>2, <3>3
      <4> QED
        BY <2>0, <4>1
    <3>4. CASE ~(truth[i].seq <= e.seq)
      <4>1. \A j \in DOMAIN truth' : truth'[j].seq <= truth'[i].seq
        BY <1>3, <1>4, <1>5, <2>0, <3>2, <3>4
      <4>2. i \in DOMAIN truth'
        BY <1>3
      <4> QED
        BY <4>1, <4>2
    <3> QED
      BY <3>3, <3>4
  <2> QED
    BY <2>1, <2>2
<1> QED
  BY <1>6, <1>7, <1>8 DEF TimesInv

\* The sort keys are kept while the feed is.
LEMMA SortsKept ==
  ASSUME TypeInv, SortsInv, UNCHANGED <<truth, product, shard>>, clock' = clock
  PROVE  SortsInv'
  BY DEF SortsInv, FromLog, Store

\* The sort keys of what is in the feed are numbers.
LEMMA SortsAreNat ==
  ASSUME IsProduct(product), IsShard(shard)
  PROVE  /\ \A i \in DOMAIN Store : Store[i].sort \in Nat
         /\ \A i \in DOMAIN shard : i \in DOMAIN Store /\ Store[i] = shard[i]
         /\ \A i \in DOMAIN Store : IsEvt(i) => i \in DOMAIN shard
<1> DEFINE S == Merged(product, shard)
<1>1. /\ DOMAIN S = DOMAIN product \cup DOMAIN shard
      /\ IsFiniteSet(DOMAIN S)
      /\ \A i \in DOMAIN product : i \notin DOMAIN shard /\ S[i] = product[i]
      /\ \A i \in DOMAIN shard : i \notin DOMAIN product /\ S[i] = shard[i]
      /\ \A i \in DOMAIN S : S[i] \in ProductMessages \cup ShardMessages
  BY MergedIs
<1>2. \A i \in DOMAIN product : ~IsEvt(i)
  BY KindsApart DEF IsProduct, IsEvt
<1>3. Store = S
  BY DEF Store
<1> HIDE DEF S
<1> QED
  BY <1>1, <1>2, <1>3, KindsApart

\* A message that is appended keeps its sort key, or has a new one, or that of
\* its event.
LEMMA SortsAppend ==
  ASSUME TypeInv, TimesInv, SortsInv, NEW id, NEW m, Fits(id, m), AppendTo(id, m),
         truth' = truth, clock' \in {clock, clock + 1},
         \/ id \in DOMAIN Store
         \/ ~IsEvt(id) /\ m.sort = clock + 1 /\ clock' = clock + 1
         \/ \E e \in DOMAIN truth : id = <<"evt", truth[e].seq>> /\ m.sort = truth[e].at
  PROVE  SortsInv'
<1> DEFINE N == Store'
<1>0. clock \in Nat /\ IsProduct(product) /\ IsShard(shard)
  BY DEF TypeInv
<1>1. /\ IsProduct(product') /\ IsShard(shard')
      /\ DOMAIN Store' = DOMAIN Store \cup {id}
      /\ DOMAIN shard \subseteq DOMAIN shard' /\ DOMAIN shard' \subseteq DOMAIN shard \cup {id}
      /\ \A i \in DOMAIN Store \ {id} : Store'[i] = Store[i]
      /\ id \in DOMAIN Store => Store'[id].sort = Store[id].sort
      /\ id \notin DOMAIN Store => Store'[id] = m
  BY <1>0, AppendToIs
<1>2. \A i \in DOMAIN Store : Store[i].sort \in Nat /\ Store'[i].sort = Store[i].sort
  BY <1>0, <1>1, SortsAreNat
<1>3. /\ \A i \in DOMAIN shard' : i \in DOMAIN Store' /\ Store'[i] = shard'[i]
      /\ \A i \in DOMAIN shard : i \in DOMAIN Store /\ Store[i] = shard[i]
  <2> DEFINE p == product'
             s == shard'
  <2>1. IsProduct(p) /\ IsShard(s)
    BY <1>1
  <2> HIDE DEF p, s
  <2>2. /\ DOMAIN Merged(p, s) = DOMAIN p \cup DOMAIN s
        /\ IsFiniteSet(DOMAIN Merged(p, s))
        /\ \A i \in DOMAIN p : i \notin DOMAIN s /\ Merged(p, s)[i] = p[i]
        /\ \A i \in DOMAIN s : i \notin DOMAIN p /\ Merged(p, s)[i] = s[i]
        /\ \A i \in DOMAIN Merged(p, s) :
             Merged(p, s)[i] \in ProductMessages \cup ShardMessages
    BY <2>1, MergedIs
  <2>3. \A i \in DOMAIN s : i \in DOMAIN Merged(p, s) /\ Merged(p, s)[i] = s[i]
    BY <2>2
  <2>4. \A i \in DOMAIN shard' : i \in DOMAIN Store' /\ Store'[i] = shard'[i]
    BY <2>3 DEF p, s, Store
  <2> QED
    BY <1>0, <2>4, SortsAreNat
<1>4. /\ \A e \in DOMAIN truth : truth[e].at <= clock /\ truth[e].at \in Nat
      /\ \A e, f \in DOMAIN truth : truth[e].at = truth[f].at => e = f
  <2>1. \A e \in DOMAIN truth : truth[e].at \in Nat
    <3> TAKE e \in DOMAIN truth
    <3>1. truth[e] \in Entries
      BY DEF TypeInv
    <3> QED
      BY <3>1 DEF Entries
  <2> QED
    BY <2>1 DEF TimesInv
<1>5. /\ \A i \in DOMAIN Store : Store[i].sort <= clock
      /\ \A i \in DOMAIN Store : ~IsEvt(i) =>
           /\ \A e \in DOMAIN truth : truth[e].at # Store[i].sort
           /\ \A j \in DOMAIN Store : ~IsEvt(j) /\ Store[j].sort = Store[i].sort => i = j
      /\ \A i \in DOMAIN shard : IsEvt(i) => FromLog(i)
  BY DEF SortsInv
<1>6. \A i \in DOMAIN Store' : i \in DOMAIN Store \/ (i = id /\ id \notin DOMAIN Store)
  BY <1>1
<1>7. ASSUME id \notin DOMAIN Store
      PROVE  \/ ~IsEvt(id) /\ Store'[id].sort = clock + 1 /\ clock' = clock + 1
             \/ \E e \in DOMAIN truth : id = <<"evt", truth[e].seq>> /\ Store'[id].sort = truth[e].at
  BY <1>1, <1>7
<1>8. \A i \in DOMAIN Store' : Store'[i].sort <= clock'
  BY <1>0, <1>2, <1>4, <1>5, <1>6, <1>7
<1>9. ASSUME NEW i \in DOMAIN Store', ~IsEvt(i)
      PROVE  \A e \in DOMAIN truth : truth[e].at # Store'[i].sort
  <2>1. CASE i \in DOMAIN Store
    BY <1>2, <1>5, <1>9, <2>1
  <2>2. CASE i = id /\ id \notin DOMAIN Store
    <3>1. Store'[id].sort = clock + 1
      BY <1>7, <1>9, <2>2 DEF IsEvt
    <3> QED
      BY <1>0, <1>4, <2>2, <3>1
  <2> QED
    BY <1>6, <2>1, <2>2
<1>10. ASSUME NEW i \in DOMAIN Store', ~IsEvt(i), NEW j \in DOMAIN Store', ~IsEvt(j),
              Store'[j].sort = Store'[i].sort
       PROVE  i = j
  <2>1. CASE i \in DOMAIN Store /\ j \in DOMAIN Store
    BY <1>2, <1>5, <1>10, <2>1
  <2>2. CASE id \notin DOMAIN Store /\ (i = id \/ j = id)
    <3>1. Store'[id].sort = clock + 1
      BY <1>7, <1>10, <2>2 DEF IsEvt
    <3>2. \A k \in DOMAIN Store : Store'[k].sort # clock + 1
      BY <1>0, <1>2, <1>5
    <3> QED
      BY <1>6, <1>10, <2>2, <3>1, <3>2
  <2> QED
    BY <1>6, <2>1, <2>2
<1>11. ASSUME NEW i \in DOMAIN shard', IsEvt(i)
       PROVE  \E e \in DOMAIN truth : <<"evt", truth[e].seq>> = i /\ truth[e].at = shard'[i].sort
  <2>1. shard'[i] = Store'[i] /\ i \in DOMAIN Store'
    BY <1>3
  <2>2. CASE i \in DOMAIN Store
    <3>1. i \in DOMAIN shard
      BY <1>0, <1>11, <2>2, SortsAreNat
    <3>2. PICK e \in DOMAIN truth : <<"evt", truth[e].seq>> = i /\ truth[e].at = shard[i].sort
      BY <1>5, <1>11, <3>1 DEF FromLog
    <3>3. shard[i].sort = Store'[i].sort
      BY <1>2, <1>3, <3>1
    <3> QED
      BY <2>1, <3>2, <3>3
  <2>3. CASE i = id /\ id \notin DOMAIN Store
    BY <1>7, <1>11, <2>1, <2>3
  <2> QED
    BY <1>6, <2>1, <2>2, <2>3
<1> QED
  BY <1>8, <1>9, <1>10, <1>11 DEF SortsInv, FromLog

\* An appended event has a time no message of the feed has as its sort key.
LEMMA SortsInsert ==
  ASSUME TypeInv, TimesInv, SortsInv, NEW a \in Actors, Insert(a)
  PROVE  SortsInv'
<1>1. PICK e \in Entries : truth' = Append(truth, e) /\ e.at = clock + 1
  BY InsertedIs
<1>2. truth \in Seq(Entries) /\ clock \in Nat /\ clock' = clock + 1 /\ product' = product /\ shard' = shard
  BY DEF TypeInv, Insert, Tick, feed
<1> DEFINE n == Len(truth)
<1>3. /\ n \in Nat /\ DOMAIN truth = 1 .. n /\ DOMAIN truth' = 1 .. n + 1
      /\ truth'[n + 1] = e /\ \A i \in 1 .. n : truth'[i] = truth[i]
  BY <1>1, <1>2
<1> HIDE DEF n
<1>4. Store' = Store /\ \A i \in DOMAIN Store : Store[i].sort \in Nat
  <2>1. IsProduct(product) /\ IsShard(shard)
    BY DEF TypeInv
  <2> QED
    BY <1>2, <2>1, SortsAreNat DEF Store
<1>5. \A i \in DOMAIN Store : Store[i].sort <= clock'
  BY <1>2, <1>4 DEF SortsInv
<1>6. \A i \in DOMAIN Store : ~IsEvt(i) => \A k \in DOMAIN truth' : truth'[k].at # Store[i].sort
  <2> SUFFICES ASSUME NEW i \in DOMAIN Store, ~IsEvt(i), NEW k \in DOMAIN truth'
               PROVE  truth'[k].at # Store[i].sort
    OBVIOUS
  <2>1. CASE k \in 1 .. n
    BY <1>3, <2>1 DEF SortsInv
  <2>2. CASE k = n + 1
    <3>1. Store[i].sort <= clock /\ Store[i].sort \in Nat
      BY <1>4 DEF SortsInv
    <3> QED
      BY <1>1, <1>2, <1>3, <2>2, <3>1
  <2> QED
    BY <1>3, <2>1, <2>2
<1>7. \A i \in DOMAIN shard' : IsEvt(i) =>
        \E k \in DOMAIN truth' : <<"evt", truth'[k].seq>> = i /\ truth'[k].at = shard'[i].sort
  <2>1. \A k \in DOMAIN truth : k \in DOMAIN truth' /\ truth'[k] = truth[k]
    BY <1>3
  <2> QED
    BY <1>2, <2>1 DEF SortsInv, FromLog
<1> QED
  BY <1>4, <1>5, <1>6, <1>7 DEF SortsInv, FromLog

---------------------------------------------------------------------------
(* What is to be rewritten or projected.                                    *)

\* A statement that neither rewrites nor projects needs nothing behind it.
LEMMA PlainIs ==
  ASSUME NEW a \in Actors, NEW s \in OfActor(a) \ Deferred
  PROVE  Backed(s)
<1>1. s.do # "rewrite" /\ s.do # "project"
  BY StatementIs DEF Deferred
<1> QED
  BY <1>1 DEF Backed

\* Backing stays, and a new statement has its own.
LEMMA BackedStep ==
  ASSUME BackedInv,
         DOMAIN Store \subseteq DOMAIN Store',
         \A e \in DOMAIN truth : e \in DOMAIN truth' /\ truth'[e] = truth[e],
         \A a \in Actors : \A n \in DOMAIN todo'[a] :
            (\E k \in DOMAIN todo[a] : todo'[a][n] = todo[a][k]) \/ Backed(todo'[a][n])
  PROVE  BackedInv'
<1> SUFFICES ASSUME NEW a \in Actors, NEW n \in DOMAIN todo'[a]
             PROVE  /\ todo'[a][n].do = "rewrite" => todo'[a][n].id \in DOMAIN Store'
                    /\ todo'[a][n].do = "project" => \E e \in DOMAIN truth' : todo'[a][n].event = truth'[e]
  BY DEF BackedInv, Backed
<1> DEFINE s == todo'[a][n]
<1>1. Backed(s)
  BY DEF BackedInv
<1> HIDE DEF s
<1>2. s.do = "rewrite" => s.id \in DOMAIN Store'
  BY <1>1 DEF Backed
<1>3. s.do = "project" => \E e \in DOMAIN truth' : s.event = truth'[e]
  BY <1>1 DEF Backed
<1> QED
  BY <1>2, <1>3 DEF s

\* The program of one actor loses its first statement.
LEMMA BackedDone ==
  ASSUME BackedInv, Programs(todo), NEW a \in Actors, todo[a] # <<>>, Done(a),
         DOMAIN Store \subseteq DOMAIN Store',
         \A e \in DOMAIN truth : e \in DOMAIN truth' /\ truth'[e] = truth[e]
  PROVE  BackedInv'
<1>1. todo'[a] = Tail(todo[a]) /\ \A b \in Actors \ {a} : todo'[b] = todo[b]
  BY DoneIs
<1>2. \A n \in DOMAIN todo'[a] : \E k \in DOMAIN todo[a] : todo'[a][n] = todo[a][k]
  BY <1>1, FirstIs DEF Programs
<1>3. \A b \in Actors : \A n \in DOMAIN todo'[b] : \E k \in DOMAIN todo[b] : todo'[b][n] = todo[b][k]
  BY <1>1, <1>2
<1> QED
  BY <1>3, BackedStep

\* The program of one actor is replaced by one that rewrites and projects nothing.
LEMMA BackedPlain ==
  ASSUME BackedInv, NEW a \in Actors, NEW p \in Seq(OfActor(a) \ Deferred),
         todo'[a] = p, \A b \in Actors \ {a} : todo'[b] = todo[b] \/ todo'[b] = <<>>,
         UNCHANGED <<truth, product, shard>>
  PROVE  BackedInv'
<1>1. \A n \in DOMAIN p : p[n] \in OfActor(a) \ Deferred
  OBVIOUS
<1>2. \A n \in DOMAIN p : Backed(p[n])
  BY <1>1, PlainIs
<1>3. Store' = Store
  BY DEF Store
<1>4. \A b \in Actors \ {a} : \A n \in DOMAIN todo'[b] : \E k \in DOMAIN todo[b] : todo'[b][n] = todo[b][k]
  OBVIOUS
<1>5. \A b \in Actors : \A n \in DOMAIN todo'[b] :
        (\E k \in DOMAIN todo[b] : todo'[b][n] = todo[b][k]) \/ Backed(todo'[b][n])
  BY <1>2, <1>4
<1> QED
  BY <1>3, <1>5, BackedStep

\* An actor puts backed statements before what it still has to do.
LEMMA BackedExpand ==
  ASSUME BackedInv, Programs(todo), NEW a \in Actors, NEW p \in Seq(OfActor(a)), todo[a] # <<>>,
         todo'[a] = p \o Tail(todo[a]), \A b \in Actors \ {a} : todo'[b] = todo[b],
         \A n \in DOMAIN p : Backed(p[n]),
         UNCHANGED <<truth, product, shard>>
  PROVE  BackedInv'
<1> DEFINE q == Tail(todo[a])
<1>1. q \in Seq(OfActor(a)) /\ \A n \in DOMAIN q : \E k \in DOMAIN todo[a] : q[n] = todo[a][k]
  <2>1. todo[a] \in Seq(OfActor(a))
    BY DEF Programs
  <2>2. /\ Tail(todo[a]) \in Seq(OfActor(a))
        /\ \A n \in DOMAIN Tail(todo[a]) : \E k \in DOMAIN todo[a] : Tail(todo[a])[n] = todo[a][k]
    BY <2>1, FirstIs
  <2> QED
    BY <2>2
<1>2. todo'[a] = p \o q
  OBVIOUS
<1> HIDE DEF q
<1>3. \A n \in DOMAIN (p \o q) : \/ \E k \in DOMAIN p : (p \o q)[n] = p[k]
                                 \/ \E k \in DOMAIN q : (p \o q)[n] = q[k]
  BY <1>1, EveryOf
<1>4. \A n \in DOMAIN todo'[a] : (\E k \in DOMAIN todo[a] : todo'[a][n] = todo[a][k]) \/ Backed(todo'[a][n])
  <2> DEFINE r == p \o q
  <2>1. todo'[a] = r
    BY <1>2
  <2>2. \A n \in DOMAIN r : (\E k \in DOMAIN p : r[n] = p[k]) \/ \E k \in DOMAIN q : r[n] = q[k]
    BY <1>3
  <2> HIDE DEF r
  <2>3. ASSUME NEW n \in DOMAIN r
        PROVE  (\E k \in DOMAIN todo[a] : r[n] = todo[a][k]) \/ Backed(r[n])
    <3>1. CASE \E k \in DOMAIN p : r[n] = p[k]
      <4>1. PICK k \in DOMAIN p : r[n] = p[k]
        BY <3>1
      <4>2. Backed(p[k])
        OBVIOUS
      <4> QED
        BY <4>1, <4>2
    <3>2. CASE \E k \in DOMAIN q : r[n] = q[k]
      BY <1>1, <3>2
    <3> QED
      BY <2>2, <3>1, <3>2
  <2> QED
    BY <2>1, <2>3
<1>5. Store' = Store
  BY DEF Store
<1>6. \A b \in Actors : \A n \in DOMAIN todo'[b] :
        (\E k \in DOMAIN todo[b] : todo'[b][n] = todo[b][k]) \/ Backed(todo'[b][n])
  BY <1>4
<1> QED
  BY <1>5, <1>6, BackedStep

\* Events of the log that are projected are backed.
LEMMA ProjectionBacked ==
  ASSUME NEW es \in Seq(Entries), NEW hidden,
         \A i \in DOMAIN es : \E e \in DOMAIN truth : es[i] = truth[e]
  PROVE  \A n \in DOMAIN Project(es, hidden) : Backed(Project(es, hidden)[n])
<1>1. DOMAIN Project(es, hidden) = DOMAIN es
  BY DEF Project
<1>2. \A n \in DOMAIN es : Project(es, hidden)[n].do = "project" /\ Project(es, hidden)[n].event = es[n]
  BY DEF Project
<1> QED
  BY <1>1, <1>2 DEF Backed

---------------------------------------------------------------------------
(* A close projects its event after it has written it.                      *)

\* The close's event is still ahead of its projection where its program is kept.
LEMMA OwnKept ==
  ASSUME OwnInv, todo'[Closer] = todo[Closer], LogHoldsClose => LogHoldsClose'
  PROVE  OwnInv'
  BY DEF OwnInv, At

\* A close that does not project its event needs none.
LEMMA OwnLess ==
  ASSUME todo'[Closer] \in Seq(OfClose \ Owning)
  PROVE  OwnInv'
  BY DEF OwnInv

\* A statement of the close that is not of its event is done.
LEMMA OwnDone ==
  ASSUME OwnInv, TypeInv, todo[Closer] # <<>>, Head(todo[Closer]).do \notin {"max", "insert"},
         LogHoldsClose => LogHoldsClose',
         NEW p, p \in Seq(OfClose \ Owning), todo'[Closer] = p \o Tail(todo[Closer])
  PROVE  OwnInv'
<1>1. todo[Closer] \in Seq(OfClose)
  BY ActorsAre DEF TypeInv, Programs
<1>2. Head(todo[Closer]) = todo[Closer][1]
  BY <1>1, FirstIs
<1>3. ~At(Closer, 1, [do |-> "max"]) /\ ~At(Closer, 1, [do |-> "insert", type |-> "closed"])
  BY <1>2 DEF At
<1>4. CASE LogHoldsClose
  BY <1>4 DEF OwnInv
<1>5. CASE todo[Closer] \in Seq(OfClose \ Owning)
  <2>1. Tail(todo[Closer]) \in Seq(OfClose \ Owning)
    BY <1>5, FirstIs
  <2>2. todo'[Closer] \in Seq(OfClose \ Owning)
    <3> DEFINE q == Tail(todo[Closer])
    <3>1. q \in Seq(OfClose \ Owning) /\ todo'[Closer] = p \o q
      BY <2>1
    <3> HIDE DEF q
    <3> QED
      BY <3>1, Together
  <2> QED
    BY <2>2, OwnLess
<1> QED
  BY <1>3, <1>4, <1>5 DEF OwnInv

\* A program with nothing before it is itself.
LEMMA NothingBefore ==
  ASSUME NEW S, NEW q \in Seq(S)
  PROVE  <<>> \o q = q
  OBVIOUS

\* The close goes on to its next statement.
LEMMA OwnTail ==
  ASSUME OwnInv, TypeInv, todo[Closer] # <<>>, Head(todo[Closer]).do \notin {"max", "insert"},
         LogHoldsClose => LogHoldsClose', todo'[Closer] = Tail(todo[Closer])
  PROVE  OwnInv'
<1>1. Tail(todo[Closer]) \in Seq(OfClose)
  BY ActorsAre, FirstIs DEF TypeInv, Programs
<1> DEFINE q == Tail(todo[Closer])
<1>2. <<>> \o q = q
  <2>1. q \in Seq(OfClose)
    BY <1>1
  <2> HIDE DEF q
  <2> QED
    BY <2>1, NothingBefore
<1>3. <<>> \in Seq(OfClose \ Owning)
  OBVIOUS
<1> QED
  BY <1>2, <1>3, OwnDone

\* What a program begins with.
LEMMA Leads ==
  ASSUME NEW S, NEW p \in Seq(S), NEW q \in Seq(S), NEW i \in DOMAIN p
  PROVE  i \in DOMAIN (p \o q) /\ (p \o q)[i] = p[i]
<1>1. Len(p) \in Nat /\ Len(q) \in Nat /\ DOMAIN p = 1 .. Len(p)
  OBVIOUS
<1>2. Len(p \o q) = Len(p) + Len(q) /\ p \o q \in Seq(S)
      /\ \A j \in 1 .. Len(p) + Len(q) : (p \o q)[j] = IF j <= Len(p) THEN p[j] ELSE q[j - Len(p)]
  BY ConcatProperties
<1>3. DOMAIN (p \o q) = 1 .. Len(p) + Len(q)
  BY <1>2
<1>4. i \in 1 .. Len(p) + Len(q) /\ i <= Len(p)
  BY <1>1
<1> QED
  BY <1>2, <1>3, <1>4

\* A close begins by writing its event.
LEMMA OwnBegin ==
  ASSUME TypeInv, BeginClose
  PROVE  OwnInv'
<1> DEFINE S == OfClose
           a == Log("closed")
           b == Step("own")
           c == Step("flag")
           d == Step("kill")
           e == Complete("phase", "cancelled")
<1>1. a \in Seq(S) /\ e \in Seq(S)
  <2>1. OfClose \ Deferred \subseteq OfClose
    OBVIOUS
  <2>2. "cancelled" \in Settled /\ "phase" \in {"answer", "reasoning", "phase"}
    BY DEF Phases, Settled
  <2>3. Complete("phase", "cancelled") \in Seq(OfClose \ Deferred)
    BY <2>2, CompleteIs
  <2> QED
    BY <2>1, <2>3, LogIs, Larger
<1>2. b \in Seq(S) /\ c \in Seq(S) /\ d \in Seq(S)
  BY DEF Step, OfClose
<1>3. DOMAIN a = {1, 2} /\ a[1] = [do |-> "max"] /\ a[2] = [do |-> "insert", type |-> "closed"]
  BY DEF Log
<1> HIDE DEF a, b, c, d, e, S
<1>4. \A i \in DOMAIN a : i \in DOMAIN (a \o b) /\ (a \o b)[i] = a[i]
  BY <1>1, <1>2, Leads
<1>5. a \o b \in Seq(S) /\ a \o b \o c \in Seq(S) /\ a \o b \o c \o d \in Seq(S)
  BY <1>1, <1>2, Together
<1>6. \A i \in DOMAIN a : i \in DOMAIN (a \o b \o c) /\ (a \o b \o c)[i] = a[i]
  BY <1>2, <1>4, <1>5, Leads
<1>7. \A i \in DOMAIN a : i \in DOMAIN (a \o b \o c \o d) /\ (a \o b \o c \o d)[i] = a[i]
  BY <1>2, <1>5, <1>6, Leads
<1>8. \A i \in DOMAIN a : i \in DOMAIN (a \o b \o c \o d \o e) /\ (a \o b \o c \o d \o e)[i] = a[i]
  BY <1>1, <1>5, <1>7, Leads
<1>9. ForceClose = a \o b \o c \o d \o e
  BY DEF ForceClose, a, b, c, d, e
<1>10. todo'[Closer] = ForceClose
  <2>1. todo' = [todo EXCEPT ![Closer] = ForceClose] /\ DOMAIN todo = Actors /\ Closer \in Actors
    BY ActorsAre DEF BeginClose, TypeInv, Programs
  <2> QED
    BY <2>1
<1> DEFINE f == a \o b \o c \o d \o e
<1>11. \A i \in {1, 2} : i \in DOMAIN f /\ f[i] = a[i]
  BY <1>3, <1>8
<1>12. todo'[Closer] = f
  BY <1>9, <1>10
<1> HIDE DEF f
<1> QED
  BY <1>3, <1>11, <1>12 DEF OwnInv, At

\* The close reads the number of its event just before it writes it.
LEMMA OwnMax ==
  ASSUME OwnInv, TypeInv, NEW a \in Actors, SelectMax(a)
  PROVE  OwnInv'
<1>0. truth' = truth /\ Programs(todo) /\ todo[a] # <<>> /\ Done(a)
  BY DEF SelectMax, Doing, TypeInv
<1>1. todo'[a] = Tail(todo[a]) /\ \A b \in Actors \ {a} : todo'[b] = todo[b]
  BY <1>0, DoneIs
<1>2. LogHoldsClose => LogHoldsClose'
  BY <1>0 DEF LogHoldsClose
<1>3. CASE a # Closer
  BY <1>1, <1>2, <1>3, ActorsAre, OwnKept
<1>4. CASE a = Closer
  <2>1. todo[Closer] \in Seq(OfClose) /\ todo[Closer] # <<>> /\ Head(todo[Closer]).do = "max"
    BY <1>0, <1>4, ActorsAre DEF Programs, SelectMax, Doing
  <2>2. /\ Head(todo[Closer]) = todo[Closer][1]
        /\ \A i \in DOMAIN Tail(todo[Closer]) :
             i + 1 \in DOMAIN todo[Closer] /\ Tail(todo[Closer])[i] = todo[Closer][i + 1]
        /\ Len(Tail(todo[Closer])) = Len(todo[Closer]) - 1
        /\ Len(todo[Closer]) \in Nat \ {0} /\ DOMAIN todo[Closer] = 1 .. Len(todo[Closer])
        /\ Tail(todo[Closer]) \in Seq(OfClose)
    BY <2>1, FirstIs
  <2>3. CASE LogHoldsClose
    BY <1>2, <2>3 DEF OwnInv
  <2>4. CASE todo[Closer] \in Seq(OfClose \ Owning)
    <3>1. Tail(todo[Closer]) \in Seq(OfClose \ Owning)
      BY <2>1, <2>4, FirstIs
    <3> QED
      BY <1>1, <1>4, <3>1, OwnLess
  <2>5. CASE At(Closer, 2, [do |-> "insert", type |-> "closed"])
    <3> DEFINE q == Tail(todo[Closer])
               r == todo[Closer]
    <3>1. 2 \in DOMAIN r /\ r[2] = [do |-> "insert", type |-> "closed"]
      BY <2>5 DEF At
    <3>2. /\ \A i \in DOMAIN q : i + 1 \in DOMAIN r /\ q[i] = r[i + 1]
          /\ Len(q) = Len(r) - 1 /\ Len(r) \in Nat \ {0} /\ DOMAIN r = 1 .. Len(r)
          /\ q \in Seq(OfClose)
      BY <2>2
    <3>3. todo'[Closer] = q
      BY <1>1, <1>4
    <3> HIDE DEF q, r
    <3>4. DOMAIN q = 1 .. Len(q)
      BY <3>2
    <3>5. 1 \in DOMAIN q
      BY <3>1, <3>2, <3>4
    <3>6. q[1] = [do |-> "insert", type |-> "closed"]
      <4>1. q[1] = r[1 + 1] /\ 1 + 1 = 2
        BY <3>2, <3>5
      <4> QED
        BY <3>1, <4>1
    <3> QED
      BY <3>3, <3>5, <3>6 DEF OwnInv, At
  <2>6. ~At(Closer, 1, [do |-> "insert", type |-> "closed"])
    BY <2>1, <2>2 DEF At
  <2> QED
    BY <2>3, <2>4, <2>5, <2>6 DEF OwnInv
<1> QED
  BY <1>3, <1>4

\* The close's event, once written, is in the log for good.
LEMMA OwnInsert ==
  ASSUME OwnInv, TypeInv, NEW a \in Actors, Insert(a)
  PROVE  OwnInv' /\ (LogHoldsClose => LogHoldsClose')
<1>0. Programs(todo) /\ todo[a] # <<>> /\ Done(a) /\ Head(todo[a]).do = "insert"
      /\ truth \in Seq(Entries)
  BY DEF Insert, Doing, TypeInv
<1>1. todo'[a] = Tail(todo[a]) /\ \A b \in Actors \ {a} : todo'[b] = todo[b]
  BY <1>0, DoneIs
<1>2. PICK e \in Entries : truth' = Append(truth, e) /\ e.type = Head(todo[a]).type
  BY InsertedIs
<1>3. /\ \A i \in DOMAIN truth : i \in DOMAIN truth' /\ truth'[i] = truth[i]
      /\ Len(truth) + 1 \in DOMAIN truth' /\ truth'[Len(truth) + 1] = e
  BY <1>0, <1>2
<1>4. LogHoldsClose => LogHoldsClose'
  BY <1>3 DEF LogHoldsClose
<1>5. CASE a # Closer
  BY <1>1, <1>4, <1>5, ActorsAre, OwnKept
<1>6. CASE a = Closer
  <2> DEFINE s == Head(todo[a])
  <2>1. s \in OfActor(Closer) /\ s.do = "insert"
    BY <1>0, <1>6, FirstIs DEF Programs
  <2> HIDE DEF s
  <2>2. s.type = "closed"
    <3>1. OfActor(Closer) = OfClose
      BY ActorsAre
    <3> QED
      BY <2>1, <3>1 DEF OfClose, Listing, Rewriting, Projecting
  <2>3. LogHoldsClose'
    BY <1>2, <1>3, <2>2 DEF LogHoldsClose, s
  <2> QED
    BY <1>4, <2>3 DEF OwnInv
<1> QED
  BY <1>4, <1>5, <1>6

---------------------------------------------------------------------------
(* One lemma for each kind of action.                                       *)

\* An action that changes neither the log nor the feed.
LEMMA OrderTodo ==
  ASSUME TypeInv, OrderInv, UNCHANGED <<truth, product, shard, clock>>, BackedInv', OwnInv'
  PROVE  OrderInv'
<1>1. TimesInv'
  BY TimesKept DEF OrderInv
<1>2. SortsInv'
  BY SortsKept DEF OrderInv
<1> QED
  BY <1>1, <1>2 DEF OrderInv

\* An action of a request that replaces what it has to do.
LEMMA OrderPlain ==
  ASSUME TypeInv, OrderInv, NEW a \in Actors \ {Closer}, NEW p \in Seq(OfActor(a) \ Deferred),
         todo' = [todo EXCEPT ![a] = p], UNCHANGED <<truth, product, shard, clock>>
  PROVE  OrderInv'
<1>1. DOMAIN todo = Actors
  BY DEF TypeInv, Programs
<1>2. todo'[a] = p /\ \A b \in Actors \ {a} : todo'[b] = todo[b]
  BY <1>1
<1>3. BackedInv'
  BY <1>2, BackedPlain DEF OrderInv
<1>4. todo'[Closer] = todo[Closer]
  BY <1>2, ActorsAre
<1>5. OwnInv'
  BY <1>4, OwnKept DEF OrderInv, LogHoldsClose
<1> QED
  BY <1>3, <1>5, OrderTodo

\* An action that does one statement and leaves log and feed alone.
LEMMA OrderDone ==
  ASSUME TypeInv, OrderInv, NEW a \in Actors, todo[a] # <<>>, Done(a),
         Head(todo[a]).do \notin {"max", "insert"}, UNCHANGED <<truth, product, shard, clock>>
  PROVE  OrderInv'
<1>0. Programs(todo) /\ Store' = Store /\ (LogHoldsClose => LogHoldsClose')
  BY DEF TypeInv, Store, LogHoldsClose
<1>1. todo'[a] = Tail(todo[a]) /\ \A b \in Actors \ {a} : todo'[b] = todo[b]
  BY <1>0, DoneIs
<1>2. BackedInv'
  BY <1>0, BackedDone DEF OrderInv
<1>3. OwnInv'
  <2>1. CASE a = Closer
    BY <1>0, <1>1, <2>1, OwnTail DEF OrderInv
  <2>2. CASE a # Closer
    BY <1>0, <1>1, <2>2, ActorsAre, OwnKept DEF OrderInv
  <2> QED
    BY <2>1, <2>2
<1> QED
  BY <1>2, <1>3, OrderTodo

\* An action that appends a message to the feed.
LEMMA OrderAppend ==
  ASSUME TypeInv, OrderInv, NEW a \in Actors, todo[a] # <<>>, Done(a) \/ todo' = todo,
         Head(todo[a]).do \notin {"max", "insert"},
         NEW id, NEW m, Fits(id, m), AppendTo(id, m),
         truth' = truth, clock' \in {clock, clock + 1},
         \/ id \in DOMAIN Store
         \/ ~IsEvt(id) /\ m.sort = clock + 1 /\ clock' = clock + 1
         \/ \E e \in DOMAIN truth : id = <<"evt", truth[e].seq>> /\ m.sort = truth[e].at
  PROVE  OrderInv'
<1>0. Programs(todo) /\ (LogHoldsClose => LogHoldsClose') /\ TimesInv /\ SortsInv /\ BackedInv /\ OwnInv
  BY DEF TypeInv, LogHoldsClose, OrderInv
<1>1. TimesInv'
  BY <1>0, TimesKept
<1>2. SortsInv'
  BY <1>0, SortsAppend
<1>3. DOMAIN Store \subseteq DOMAIN Store'
  <2>1. DOMAIN Store' = DOMAIN Store \cup {id}
    BY AppendToIs DEF TypeInv
  <2> QED
    BY <2>1
<1>4. BackedInv'
  <2>1. CASE Done(a)
    BY <1>0, <1>3, <2>1, BackedDone
  <2>2. CASE todo' = todo
    BY <1>0, <1>3, <2>2, BackedStep
  <2> QED
    BY <2>1, <2>2
<1>5. OwnInv'
  <2>1. CASE Done(a)
    <3>1. todo'[a] = Tail(todo[a]) /\ \A b \in Actors \ {a} : todo'[b] = todo[b]
      BY <1>0, <2>1, DoneIs
    <3>2. CASE a = Closer
      BY <1>0, <3>1, <3>2, OwnTail
    <3>3. CASE a # Closer
      BY <1>0, <3>1, <3>3, ActorsAre, OwnKept
    <3> QED
      BY <3>2, <3>3
  <2>2. CASE todo' = todo
    BY <1>0, <2>2, OwnKept
  <2> QED
    BY <2>1, <2>2
<1> QED
  BY <1>1, <1>2, <1>4, <1>5 DEF OrderInv

\* An event is appended to the log.
LEMMA OrderInsert ==
  ASSUME TypeInv, OrderInv, NEW a \in Actors, Insert(a)
  PROVE  OrderInv'
<1>1. TimesInv'
  BY TimesInsert DEF OrderInv
<1>2. SortsInv'
  BY SortsInsert DEF OrderInv
<1>3. OwnInv'
  BY OwnInsert DEF OrderInv
<1>4. BackedInv'
  <2>1. Programs(todo) /\ todo[a] # <<>> /\ Done(a) /\ Store' = Store /\ truth \in Seq(Entries)
    BY DEF Insert, Doing, TypeInv, feed, Store
  <2>2. PICK e \in Entries : truth' = Append(truth, e)
    BY InsertedIs
  <2>3. \A i \in DOMAIN truth : i \in DOMAIN truth' /\ truth'[i] = truth[i]
    BY <2>1, <2>2
  <2> QED
    BY <2>1, <2>3, BackedDone DEF OrderInv
<1> QED
  BY <1>1, <1>2, <1>3, <1>4 DEF OrderInv

\* A list is expanded into rewrites of messages the feed has.
LEMMA OrderList ==
  ASSUME TypeInv, OrderInv, NEW a \in Actors, ListMessages(a)
  PROVE  OrderInv'
<1>0. Programs(todo) /\ todo[a] # <<>> /\ Head(todo[a]).do = "list"
      /\ UNCHANGED <<truth, product, shard, clock>>
  BY DEF ListMessages, Doing, TypeInv, log, feed
<1>1. PICK q \in Seq(Rewriting) :
        /\ todo'[a] = q \o Tail(todo[a])
        /\ \A b \in Actors \ {a} : todo'[b] = todo[b]
        /\ \A n \in DOMAIN q : q[n].do = "rewrite" /\ q[n].id \in DOMAIN Store
  <2> DEFINE s == Head(todo[a])
  <2>1. TimesInv /\ SortsInv
    BY DEF OrderInv
  <2>2. \E q \in Seq(Rewriting) :
           /\ Programs(todo') /\ todo'[a] = q \o Tail(todo[a])
           /\ \A b \in Actors \ {a} : todo'[b] = todo[b]
           /\ \A n \in DOMAIN q : /\ q[n].do = "rewrite" /\ q[n].id \in DOMAIN Store
                                  /\ q[n].m = [Store[q[n].id] EXCEPT !.status = s.status]
                                  /\ q[n].id \in Wanted(s.kind)
           /\ \A i \in Wanted(s.kind) : \E n \in DOMAIN q : q[n].id = i
    BY <2>1, ListedTodo
  <2> HIDE DEF s
  <2> QED
    BY <2>2, Zenon
<1>2. \A n \in DOMAIN q : Backed(q[n])
  BY <1>1 DEF Backed
<1>3. q \in Seq(OfActor(a))
  <2> DEFINE s == Head(todo[a])
  <2>1. s \in OfActor(a) /\ s.do = "list"
    BY <1>0, FirstIs DEF Programs
  <2> HIDE DEF s
  <2>2. Rewriting \subseteq OfActor(a)
    BY <2>1, StatementIs
  <2> QED
    BY <2>2, Larger
<1>4. BackedInv'
  BY <1>0, <1>1, <1>2, <1>3, BackedExpand DEF OrderInv
<1>5. OwnInv'
  <2>0. LogHoldsClose => LogHoldsClose'
    BY <1>0 DEF LogHoldsClose
  <2>1. CASE a = Closer
    <3>1. Rewriting \subseteq OfClose \ Owning
      BY DEF OfClose, Owning, Rewriting
    <3>2. q \in Seq(OfClose \ Owning)
      BY <3>1, Larger
    <3> QED
      BY <1>0, <1>1, <2>0, <2>1, <3>2, OwnDone DEF OrderInv
  <2>2. CASE a # Closer
    BY <1>1, <2>0, <2>2, ActorsAre, OwnKept DEF OrderInv
  <2> QED
    BY <2>1, <2>2
<1> QED
  BY <1>0, <1>4, <1>5, OrderTodo

\* What an actor other than the close puts before its program.
LEMMA OrderExpand ==
  ASSUME TypeInv, OrderInv, NEW a \in Actors, todo[a] # <<>>, NEW p \in Seq(OfActor(a)),
         todo'[a] = p \o Tail(todo[a]), \A b \in Actors \ {a} : todo'[b] = todo[b],
         \A n \in DOMAIN p : Backed(p[n]), a = Closer => LogHoldsClose,
         UNCHANGED <<truth, product, shard, clock>>
  PROVE  OrderInv'
<1>1. BackedInv'
  BY BackedExpand DEF OrderInv, TypeInv
<1>2. OwnInv'
  <2>1. LogHoldsClose => LogHoldsClose'
    BY DEF LogHoldsClose
  <2>2. CASE a = Closer
    BY <2>1, <2>2 DEF OwnInv
  <2>3. CASE a # Closer
    BY <2>1, <2>3, ActorsAre, OwnKept DEF OrderInv
  <2> QED
    BY <2>2, <2>3
<1> QED
  BY <1>1, <1>2, OrderTodo

\* Initially nothing is in the feed, in the log or to be done.
LEMMA OrderInit == Init => OrderInv
<1> SUFFICES ASSUME Init
             PROVE  OrderInv
  OBVIOUS
<1>1. truth = <<>> /\ DOMAIN truth = {} /\ DOMAIN product = {} /\ DOMAIN shard = {}
  BY DEF Init
<1>2. TimesInv
  BY <1>1 DEF TimesInv
<1>3. DOMAIN Store = {}
  BY <1>1 DEF Store, Merged
<1>4. SortsInv
  BY <1>1, <1>3 DEF SortsInv
<1>5. \A a \in Actors : todo[a] = <<>>
  BY DEF Init
<1>6. BackedInv
  BY <1>5 DEF BackedInv
<1>7. OwnInv
  <2>1. <<>> \in Seq(OfClose \ Owning)
    OBVIOUS
  <2> QED
    BY <1>5, <2>1, ActorsAre DEF OwnInv
<1> QED
  BY <1>2, <1>4, <1>6, <1>7 DEF OrderInv

\* The steps of a turn that put a plain program in place.
LEMMA OrderTurns ==
  ASSUME TypeInv, OrderInv, NEW t \in Turns,
         \/ BeginTurn(t) \/ SpawnFails(t) \/ Conclude(t) \/ WorkerDies(t)
         \/ Reap(t) \/ CheckClosed(t)
  PROVE  OrderInv'
<1>1. UNCHANGED <<truth, product, shard, clock>>
  BY DEF BeginTurn, SpawnFails, Conclude, WorkerDies, Reap, CheckClosed, log, feed
<1>2. /\ T(t) \in Actors \ {Closer} /\ W(t) \in Actors \ {Closer}
      /\ OfActor(T(t)) = OfRequest /\ OfActor(W(t)) = OfWorker
  BY ActorsAre
<1>3. \/ \E p \in Seq(OfRequest \ Deferred) : todo' = [todo EXCEPT ![T(t)] = p]
      \/ \E p \in Seq(OfWorker \ Deferred) : todo' = [todo EXCEPT ![W(t)] = p]
  <2>0. /\ OfRequest \ (Completing \cup Deferred) \subseteq OfRequest \ Deferred
        /\ OfRequest \ (Completing \cup Reaping \cup Deferred) \subseteq OfRequest \ Deferred
        /\ OfRequest \ (Reaping \cup Deferred) \subseteq OfRequest \ Deferred
    OBVIOUS
  <2>1. CASE BeginTurn(t)
    <3>1. RecordTurn(t) \in Seq(OfRequest \ Deferred)
      BY <2>0, RecordTurnIs, Larger
    <3> QED
      BY <2>1, <3>1 DEF BeginTurn
  <2>2. CASE SpawnFails(t)
    <3>1. Failed(t) \in Seq(OfRequest \ Deferred)
      BY <2>0, FailedIs, Larger
    <3> QED
      BY <2>2, <3>1 DEF SpawnFails, Turn
  <2>3. CASE Conclude(t)
    <3>1. PICK r \in {"answered", "failed"} : todo' = [todo EXCEPT ![W(t)] = Log(r)]
      BY <2>3 DEF Conclude
    <3> QED
      BY <3>1, LogIs
  <2>4. CASE WorkerDies(t)
    <3>1. <<>> \in Seq(OfWorker \ Deferred)
      OBVIOUS
    <3> QED
      BY <2>4, <3>1 DEF WorkerDies
  <2>5. CASE Reap(t)
    <3>1. PICK p \in Seq(OfRequest \ (Completing \cup Reaping \cup Deferred)) :
            todo' = [todo EXCEPT ![T(t)] = p]
      BY <2>5, ReapedIs
    <3> QED
      BY <2>0, <3>1, Larger
  <2>6. CASE CheckClosed(t)
    <3>1. PICK p \in Seq(OfRequest \ (Reaping \cup Deferred)) : todo' = [todo EXCEPT ![T(t)] = p]
      BY <2>6, CheckedIs
    <3> QED
      BY <2>0, <3>1, Larger
  <2> QED
    BY <2>1, <2>2, <2>3, <2>4, <2>5, <2>6
<1>4. CASE \E p \in Seq(OfRequest \ Deferred) : todo' = [todo EXCEPT ![T(t)] = p]
  BY <1>1, <1>2, <1>4, OrderPlain
<1>5. CASE \E p \in Seq(OfWorker \ Deferred) : todo' = [todo EXCEPT ![W(t)] = p]
  BY <1>1, <1>2, <1>5, OrderPlain
<1> QED
  BY <1>3, <1>4, <1>5

\* A worker is spawned.
LEMMA OrderSpawn ==
  ASSUME TypeInv, OrderInv, NEW t \in Turns, SpawnWorker(t)
  PROVE  OrderInv'
<1>0. Programs(todo) /\ todo[T(t)] # <<>> /\ UNCHANGED <<truth, product, shard, clock>>
      /\ T(t) \in Actors /\ W(t) \in Actors /\ T(t) # W(t) /\ Closer \notin {T(t), W(t)}
  BY ActorsAre DEF SpawnWorker, Doing, TypeInv, log, feed
<1>1. /\ todo'[T(t)] = Tail(todo[T(t)]) /\ todo'[W(t)] = Log("recorded")
      /\ \A b \in Actors \ {T(t), W(t)} : todo'[b] = todo[b]
  BY <1>0 DEF SpawnWorker, Programs
<1>2. \A n \in DOMAIN todo'[T(t)] : \E k \in DOMAIN todo[T(t)] : todo'[T(t)][n] = todo[T(t)][k]
  <2>1. todo[T(t)] \in Seq(OfActor(T(t)))
    BY <1>0 DEF Programs
  <2> QED
    BY <1>0, <1>1, <2>1, FirstIs
<1>3. \A n \in DOMAIN todo'[W(t)] : Backed(todo'[W(t)][n])
  <2> DEFINE p == Log("recorded")
  <2>1. p \in Seq(OfActor(W(t)) \ Deferred)
    BY LogIs, ActorsAre
  <2> HIDE DEF p
  <2>2. \A n \in DOMAIN p : p[n] \in OfActor(W(t)) \ Deferred
    BY <2>1
  <2>3. \A n \in DOMAIN p : Backed(p[n])
    BY <1>0, <2>2, PlainIs
  <2> QED
    BY <1>1, <2>3 DEF p
<1>4. \A b \in Actors : \A n \in DOMAIN todo'[b] :
        (\E k \in DOMAIN todo[b] : todo'[b][n] = todo[b][k]) \/ Backed(todo'[b][n])
  BY <1>1, <1>2, <1>3
<1>5. Store' = Store
  BY <1>0 DEF Store
<1>6. BackedInv'
  BY <1>0, <1>4, <1>5, BackedStep DEF OrderInv
<1>7. todo'[Closer] = todo[Closer] /\ (LogHoldsClose => LogHoldsClose')
  BY <1>0, <1>1, ActorsAre DEF LogHoldsClose
<1>8. OwnInv'
  BY <1>7, OwnKept DEF OrderInv
<1> QED
  BY <1>0, <1>6, <1>8, OrderTodo

\* The events a request projects are in the log.
LEMMA OrderSnapshot ==
  ASSUME TypeInv, OrderInv, NEW t \in Turns, Snapshot(t)
  PROVE  OrderInv'
<1> DEFINE es == SubSeq(truth, 1, snap[t])
           p == Project(es, hide[t])
<1>1. es \in Seq(Entries) /\ hide[t] \in BOOLEAN /\ \A i \in DOMAIN es : \E e \in DOMAIN truth : es[i] = truth[e]
  <2>1. truth \in Seq(Entries) /\ snap[t] \in Nat /\ snap[t] <= Len(truth) /\ hide[t] \in BOOLEAN
    BY DEF TypeInv
  <2>2. \A i \in 1 .. snap[t] : truth[i] \in Entries
    BY <2>1
  <2>3. es \in Seq(Entries) /\ DOMAIN es = 1 .. snap[t] /\ \A i \in 1 .. snap[t] : es[i] = truth[i]
    <3>1. es \in Seq(Entries) /\ Len(es) = snap[t] /\ \A i \in 1 .. snap[t] : es[i] = truth[i]
      BY <2>1, <2>2, SubSeqProperties
    <3> HIDE DEF es
    <3>2. DOMAIN es = 1 .. Len(es)
      BY <3>1
    <3> QED
      BY <3>1, <3>2
  <2> HIDE DEF es
  <2> QED
    BY <2>1, <2>3
<1>2. Expand(T(t), p) /\ UNCHANGED <<truth, product, shard, clock>>
  BY DEF Snapshot, log, feed
<1> HIDE DEF es
<1>3. p \in Seq(OfActor(T(t))) /\ Programs(todo) /\ todo[T(t)] # <<>>
  BY <1>1, ActorsAre, ProjectionIs DEF Snapshot
<1>4. \A n \in DOMAIN p : Backed(p[n])
  BY <1>1, ProjectionBacked
<1> HIDE DEF p
<1>5. todo'[T(t)] = p \o Tail(todo[T(t)]) /\ \A b \in Actors \ {T(t)} : todo'[b] = todo[b]
  BY <1>2, <1>3, ActorsAre, ExpandIs
<1> QED
  BY <1>2, <1>3, <1>4, <1>5, ActorsAre, OrderExpand

\* The event a close projects is in the log.
LEMMA OrderOwn ==
  ASSUME TypeInv, OrderInv, ProjectOwn
  PROVE  OrderInv'
<1> DEFINE es == << Latest(CloseEvents) >>
           p == Project(es, FALSE)
<1>0. Expand(Closer, p) /\ UNCHANGED <<truth, product, shard, clock>> /\ OwnInv /\ Doing(Closer, "own")
  BY DEF ProjectOwn, log, feed, OrderInv
<1>1. LogHoldsClose /\ Latest(CloseEvents) \in Entries /\ \E i \in DOMAIN truth : Latest(CloseEvents) = truth[i]
  BY <1>0, OwnIs DEF CloseEvents
<1>2. es \in Seq(Entries) /\ \A i \in DOMAIN es : \E e \in DOMAIN truth : es[i] = truth[e]
  BY <1>1
<1> HIDE DEF es
<1>3. p \in Seq(OfActor(Closer)) /\ Programs(todo) /\ todo[Closer] # <<>>
  BY <1>0, <1>2, ActorsAre, ProjectionIs
<1>4. \A n \in DOMAIN p : Backed(p[n])
  BY <1>2, ProjectionBacked
<1> HIDE DEF p
<1>5. todo'[Closer] = p \o Tail(todo[Closer]) /\ \A b \in Actors \ {Closer} : todo'[b] = todo[b]
  BY <1>0, <1>3, ActorsAre, ExpandIs
<1> QED
  BY <1>0, <1>1, <1>3, <1>4, <1>5, ActorsAre, OrderExpand

\* The events the repair projects are in the log.
LEMMA OrderRead ==
  ASSUME TypeInv, OrderInv, ReadTruth
  PROVE  OrderInv'
<1> DEFINE q == Project(truth, FALSE)
<1>0. UNCHANGED <<truth, product, shard, clock>> /\ todo[Repairer] # <<>> /\ truth \in Seq(Entries)
      /\ Repairer \in Actors /\ OfActor(Repairer) = OfRepair /\ Repairer # Closer
  BY ActorsAre DEF ReadTruth, Doing, log, feed, TypeInv
<1>1. PICK more \in Seq(OfRepair \ Deferred) :
        /\ q \in Seq(OfRepair) /\ more \in Seq(OfRepair)
        /\ todo'[Repairer] = (q \o more) \o Tail(todo[Repairer])
        /\ \A b \in Actors \ {Repairer} : todo'[b] = todo[b]
  BY ReadIs
<1>2. \A n \in DOMAIN q : Backed(q[n])
  <2>1. \A i \in DOMAIN truth : \E e \in DOMAIN truth : truth[i] = truth[e]
    OBVIOUS
  <2> QED
    BY <1>0, <2>1, ProjectionBacked
<1> HIDE DEF q
<1>3. \A n \in DOMAIN more : Backed(more[n])
  <2>1. \A n \in DOMAIN more : more[n] \in OfActor(Repairer) \ Deferred
    BY <1>0
  <2> QED
    BY <1>0, <2>1, PlainIs
<1>4. \A n \in DOMAIN (q \o more) : Backed((q \o more)[n])
  <2> TAKE n \in DOMAIN (q \o more)
  <2>1. \/ \E k \in DOMAIN q : (q \o more)[n] = q[k]
        \/ \E k \in DOMAIN more : (q \o more)[n] = more[k]
    BY <1>1, EveryOf
  <2> QED
    BY <1>2, <1>3, <2>1
<1> DEFINE p == q \o more
<1>5. p \in Seq(OfActor(Repairer))
  BY <1>0, <1>1, Together
<1>6. todo'[Repairer] = p \o Tail(todo[Repairer]) /\ \A n \in DOMAIN p : Backed(p[n])
  BY <1>1, <1>4
<1> HIDE DEF p
<1> QED
  BY <1>0, <1>1, <1>5, <1>6, OrderExpand

\* A close begins.
LEMMA OrderBeginClose ==
  ASSUME TypeInv, OrderInv, BeginClose
  PROVE  OrderInv'
<1>1. todo'[Closer] = ForceClose /\ \A b \in Actors \ {Closer} : todo'[b] = todo[b]
  BY ActorsAre DEF BeginClose, TypeInv, Programs
<1>2. ForceClose \in Seq(OfActor(Closer) \ Deferred)
  BY ActorsAre, ForceCloseIs
<1>3. UNCHANGED <<truth, product, shard, clock>>
  BY DEF BeginClose, log, feed
<1> DEFINE p == ForceClose
<1>4. p \in Seq(OfActor(Closer) \ Deferred) /\ todo'[Closer] = p
  BY <1>1, <1>2
<1> HIDE DEF p
<1>5. BackedInv'
  BY <1>1, <1>3, <1>4, ActorsAre, BackedPlain DEF OrderInv
<1>6. OwnInv'
  BY OwnBegin
<1> QED
  BY <1>3, <1>5, <1>6, OrderTodo

\* The workers' programs are taken away.
LEMMA OrderKill ==
  ASSUME TypeInv, OrderInv, KillWorkers
  PROVE  OrderInv'
<1>0. Programs(todo) /\ todo[Closer] # <<>> /\ Head(todo[Closer]).do = "kill"
      /\ UNCHANGED <<truth, product, shard, clock>>
  BY DEF KillWorkers, Doing, TypeInv, log, feed
<1>1. /\ todo'[Closer] = Tail(todo[Closer])
      /\ \A a \in Actors \ {Closer} : todo'[a] = todo[a] \/ todo'[a] = <<>>
  BY KilledIs
<1>2. \A n \in DOMAIN todo'[Closer] : \E k \in DOMAIN todo[Closer] : todo'[Closer][n] = todo[Closer][k]
  <2>1. todo[Closer] \in Seq(OfActor(Closer))
    BY <1>0, ActorsAre DEF Programs
  <2> QED
    BY <1>0, <1>1, <2>1, FirstIs
<1>3. \A b \in Actors : \A n \in DOMAIN todo'[b] : \E k \in DOMAIN todo[b] : todo'[b][n] = todo[b][k]
  <2> TAKE b \in Actors
  <2>1. CASE b = Closer
    BY <1>2, <2>1
  <2>2. CASE todo'[b] = todo[b]
    BY <2>2
  <2>3. CASE todo'[b] = <<>>
    <3>1. DOMAIN todo'[b] = {}
      BY <2>3
    <3> QED
      BY <3>1
  <2> QED
    BY <1>1, <2>1, <2>2, <2>3
<1>4. Store' = Store /\ (LogHoldsClose => LogHoldsClose')
  BY <1>0 DEF Store, LogHoldsClose
<1>5. BackedInv'
  BY <1>0, <1>3, <1>4, BackedStep DEF OrderInv
<1>6. OwnInv'
  BY <1>0, <1>1, <1>4, OwnTail DEF OrderInv
<1> QED
  BY <1>0, <1>5, <1>6, OrderTodo

\* What a restart leaves to do was to be done before it, or is the repair.
LEMMA OrderRestart ==
  ASSUME TypeInv, OrderInv, Restart
  PROVE  OrderInv'
<1> DEFINE over == {t \in Turns : worker[t] = "running" /\ ~Orphans}
<1>1. todo' = [a \in Actors |-> CASE a = Repairer -> Step("read")
                    [] a \in {W(t) : t \in Turns \ over} -> todo[a]
                    [] OTHER -> <<>>]
  BY DEF Restart
<1>2. UNCHANGED <<truth, product, shard, clock>>
  BY DEF Restart, log, feed
<1> HIDE DEF over
<1>3. todo'[Repairer] = Step("read") /\ \A a \in Actors \ {Repairer} : todo'[a] = todo[a] \/ todo'[a] = <<>>
  BY <1>1, ActorsAre
<1>4. todo'[Closer] = <<>>
  <2>1. Closer \in Actors /\ Closer # Repairer /\ \A t \in Turns : Closer # W(t)
    BY ActorsAre
  <2> QED
    BY <1>1, <2>1
<1>5. Step("read") \in Seq(OfActor(Repairer) \ Deferred)
  BY ActorsAre DEF Step, OfRepair, Deferred, Rewriting, Projecting
<1> DEFINE p == Step("read")
<1>6. p \in Seq(OfActor(Repairer) \ Deferred) /\ todo'[Repairer] = p
  BY <1>3, <1>5
<1> HIDE DEF p
<1>7. BackedInv'
  BY <1>2, <1>3, <1>6, ActorsAre, BackedPlain DEF OrderInv
<1>8. OwnInv'
  <2>1. <<>> \in Seq(OfClose \ Owning)
    OBVIOUS
  <2> QED
    BY <1>4, <2>1, OwnLess
<1> QED
  BY <1>2, <1>7, <1>8, OrderTodo

\* The next number of the log is read.
LEMMA OrderMax ==
  ASSUME TypeInv, OrderInv, NEW a \in Actors, SelectMax(a)
  PROVE  OrderInv'
<1>1. Programs(todo) /\ todo[a] # <<>> /\ Done(a) /\ UNCHANGED <<truth, product, shard, clock>>
  BY DEF SelectMax, Doing, TypeInv, feed
<1>2. Store' = Store
  BY <1>1 DEF Store
<1>3. BackedInv'
  BY <1>1, <1>2, BackedDone DEF OrderInv
<1>4. OwnInv'
  BY OwnMax DEF OrderInv
<1> QED
  BY <1>1, <1>3, <1>4, OrderTodo

\* A message is said with a sort key nobody has.
LEMMA OrderSay ==
  ASSUME TypeInv, OrderInv, NEW a \in Actors, SayMessage(a)
  PROVE  OrderInv'
<1>1. PICK id, m : Fits(id, m) /\ ~IsEvt(id) /\ AppendTo(id, m) /\ m.sort = clock + 1
  BY SaidIs
<1>2. todo[a] # <<>> /\ Done(a) /\ Head(todo[a]).do = "say" /\ truth' = truth /\ clock' = clock + 1
  BY DEF SayMessage, Doing, log, Tick
<1> QED
  BY <1>1, <1>2, OrderAppend

\* A part is streamed with a sort key nobody has, or into its message.
LEMMA OrderDelta ==
  ASSUME TypeInv, OrderInv, NEW t \in Turns, Delta(t)
  PROVE  OrderInv'
<1>1. PICK id, m : Fits(id, m) /\ ~IsEvt(id) /\ AppendTo(id, m) /\ m.sort = clock + 1
  BY StreamedIs
<1>2. todo[T(t)] # <<>> /\ todo' = todo /\ Head(todo[T(t)]).do = "reap" /\ truth' = truth /\ clock' = clock + 1
  BY DEF Delta, Doing, log, Tick
<1> QED
  BY <1>1, <1>2, ActorsAre, OrderAppend

\* A rewritten message keeps its sort key.
LEMMA OrderRewrite ==
  ASSUME TypeInv, OrderInv, NEW a \in Actors, RewriteMessage(a)
  PROVE  OrderInv'
<1>1. PICK id, m : Fits(id, m) /\ AppendTo(id, m) /\ id = Head(todo[a]).id
  BY RewrittenIs
<1>2. todo[a] # <<>> /\ Done(a) /\ Head(todo[a]).do = "rewrite" /\ truth' = truth /\ clock' = clock + 1
  BY DEF RewriteMessage, Doing, log, Tick
<1>3. Head(todo[a]).id \in DOMAIN Store
  <2>1. Head(todo[a]) = todo[a][1] /\ 1 \in DOMAIN todo[a]
    BY <1>2, FirstIs DEF TypeInv, Programs
  <2>2. Backed(todo[a][1])
    BY <2>1 DEF OrderInv, BackedInv
  <2> QED
    BY <1>2, <2>1, <2>2 DEF Backed
<1> QED
  BY <1>1, <1>2, <1>3, OrderAppend

\* A projected event has the event's time as its sort key.
LEMMA OrderProject ==
  ASSUME TypeInv, OrderInv, NEW a \in Actors, ProjectEvent(a)
  PROVE  OrderInv'
<1> DEFINE s == Head(todo[a])
           id == <<"evt", s.event.seq>>
           m == Message(s.event.type, "completed", s.event.text, s.event.at)
<1>1. s \in Projecting /\ (\/ AppendTo(id, m) /\ Fits(id, m)
                           \/ UNCHANGED feed)
  BY ProjectedIs
<1>2. todo[a] # <<>> /\ Done(a) /\ s.do = "project" /\ truth' = truth /\ clock' = clock
  BY DEF ProjectEvent, Doing, log
<1>3. PICK e \in DOMAIN truth : s.event = truth[e]
  <2>1. Head(todo[a]) = todo[a][1] /\ 1 \in DOMAIN todo[a]
    BY <1>2, FirstIs DEF TypeInv, Programs
  <2>2. Backed(todo[a][1])
    BY <2>1 DEF OrderInv, BackedInv
  <2> QED
    BY <1>2, <2>1, <2>2 DEF Backed
<1>4. id = <<"evt", truth[e].seq>> /\ m.sort = truth[e].at
  BY <1>3 DEF Message
<1>5. CASE UNCHANGED feed
  BY <1>2, <1>5, OrderDone DEF feed
<1>6. CASE AppendTo(id, m) /\ Fits(id, m)
  <2>1. Head(todo[a]).do \notin {"max", "insert"}
    BY <1>2
  <2> HIDE DEF id, m, s
  <2> QED
    BY <1>2, <1>4, <1>6, <2>1, OrderAppend
<1> QED
  BY <1>1, <1>5, <1>6

\* Every step keeps the order of the feed.
LEMMA OrderStep ==
  ASSUME TypeInv, OrderInv, [Next]_vars
  PROVE  OrderInv'
<1>1. ASSUME NEW t \in Turns, QueueRun(t) \/ SetRunStatus(t)
      PROVE  OrderInv'
  <2>1. todo[T(t)] # <<>> /\ Done(T(t)) /\ Head(todo[T(t)]).do \notin {"max", "insert"}
        /\ UNCHANGED <<truth, product, shard, clock>>
    BY <1>1 DEF QueueRun, SetRunStatus, Doing, log, feed
  <2> QED
    BY <2>1, ActorsAre, OrderDone
<1>2. ASSUME UNCHANGED <<truth, product, shard, clock, todo>>
      PROVE  OrderInv'
  <2>1. Store' = Store /\ (LogHoldsClose => LogHoldsClose')
    BY <1>2 DEF Store, LogHoldsClose
  <2>2. BackedInv'
    BY <1>2, <2>1, BackedStep DEF OrderInv
  <2>3. OwnInv'
    BY <1>2, <2>1, OwnKept DEF OrderInv
  <2> QED
    BY <1>2, <2>2, <2>3, OrderTodo
<1>3. ASSUME NEW t \in Turns, Report(t) \/ LoadProduct(t) \/ LoadShard(t)
      PROVE  OrderInv'
  BY <1>2, <1>3 DEF Report, LoadProduct, LoadShard, log, feed
<1>4. ASSUME NEW t \in Turns,
             \/ BeginTurn(t) \/ QueueRun(t) \/ SetRunStatus(t) \/ SpawnWorker(t) \/ SpawnFails(t)
             \/ Conclude(t) \/ Report(t) \/ WorkerDies(t) \/ Delta(t)
             \/ Reap(t) \/ CheckClosed(t) \/ Snapshot(t) \/ LoadProduct(t) \/ LoadShard(t)
      PROVE  OrderInv'
  BY <1>1, <1>3, <1>4, OrderTurns, OrderSpawn, OrderDelta, OrderSnapshot
<1>5. ASSUME FlagRuns
      PROVE  OrderInv'
  <2>1. todo[Closer] # <<>> /\ Done(Closer) /\ Head(todo[Closer]).do \notin {"max", "insert"}
        /\ UNCHANGED <<truth, product, shard, clock>>
    BY <1>5 DEF FlagRuns, Doing, log, feed
  <2> QED
    BY <2>1, ActorsAre, OrderDone
<1>6. ASSUME BeginClose \/ ProjectOwn \/ FlagRuns \/ KillWorkers \/ Restart \/ ReadTruth
      PROVE  OrderInv'
  BY <1>5, <1>6, OrderBeginClose, OrderOwn, OrderKill, OrderRestart, OrderRead
<1>7. ASSUME NEW a \in Actors,
             \/ SelectMax(a) \/ Insert(a) \/ ProjectEvent(a)
             \/ SayMessage(a) \/ ListMessages(a) \/ RewriteMessage(a)
      PROVE  OrderInv'
  BY <1>7, OrderMax, OrderInsert, OrderProject, OrderSay, OrderList, OrderRewrite
<1>8. ASSUME UNCHANGED vars
      PROVE  OrderInv'
  BY <1>2, <1>8 DEF vars, log, feed
<1> QED
  BY <1>4, <1>6, <1>7, <1>8 DEF Next

---------------------------------------------------------------------------
(* A turn that completes.                                                   *)

Harmless == OfRequest \ (Completing \cup Reaping)

\* The request of t goes on with what it had to do, perhaps after something
\* harmless.
LEMMA ClosedNext ==
  ASSUME NEW t \in Turns, ClosedOf(t), NEW old \in Seq(OfRequest), old = todo[T(t)],
         NEW q \in Seq(Harmless),
         \/ todo'[T(t)] = old \/ todo'[T(t)] = <<>>
         \/ old # <<>> /\ todo'[T(t)] = Tail(old)
         \/ old # <<>> /\ todo'[T(t)] = q \o Tail(old),
         run'[t].status = "completed" => Completes(t),
         warned'[t] = warned[t], LogHoldsClose => LogHoldsClose',
         stream[t].pc # "off" => stream'[t].pc # "off"
  PROVE  ClosedOf(t)'
<1> DEFINE new == todo'[T(t)]
<1>1. /\ old \in Seq(OfRequest \ Completing) => new \in Seq(OfRequest \ Completing)
      /\ old \in Seq(OfRequest \ Reaping) => new \in Seq(OfRequest \ Reaping)
      /\ new # <<>> => old # <<>>
  <2>1. q \in Seq(OfRequest \ Completing) /\ q \in Seq(OfRequest \ Reaping)
    <3>1. Harmless \subseteq OfRequest \ Completing /\ Harmless \subseteq OfRequest \ Reaping
      BY DEF Harmless
    <3> QED
      BY <3>1, Larger
  <2>2. CASE new = old
    BY <2>2
  <2>3. CASE new = <<>>
    BY <2>3
  <2>4. ASSUME old # <<>>
        PROVE  /\ old \in Seq(OfRequest \ Completing) =>
                    Tail(old) \in Seq(OfRequest \ Completing) /\ q \o Tail(old) \in Seq(OfRequest \ Completing)
               /\ old \in Seq(OfRequest \ Reaping) =>
                    Tail(old) \in Seq(OfRequest \ Reaping) /\ q \o Tail(old) \in Seq(OfRequest \ Reaping)
    <3>1. ASSUME NEW S, old \in Seq(S), q \in Seq(S)
          PROVE  Tail(old) \in Seq(S) /\ q \o Tail(old) \in Seq(S)
      <4>1. Tail(old) \in Seq(S)
        BY <2>4, <3>1, FirstIs
      <4> QED
        BY <3>1, <4>1, Together
    <3> QED
      BY <2>1, <3>1
  <2>5. CASE old # <<>> /\ new = Tail(old)
    BY <2>4, <2>5
  <2>6. CASE old # <<>> /\ new = q \o Tail(old)
    BY <2>4, <2>6
  <2> QED
    BY <2>2, <2>3, <2>5, <2>6
<1> HIDE DEF new
<1>2. run'[t].status = "completed" \/ new \notin Seq(OfRequest \ Completing) => Completes(t)
  BY <1>1 DEF Completes
<1>3. /\ warned'[t] => LogHoldsClose'
      /\ new # <<>> \/ run'[t].status = "completed" \/ new \notin Seq(OfRequest \ Completing)
           => stream'[t].pc # "off"
      /\ run'[t].status = "completed" \/ new \notin Seq(OfRequest \ Completing)
           => ~warned'[t] /\ new \in Seq(OfRequest \ Reaping)
  BY <1>1, <1>2 DEF ClosedOf
<1> QED
  BY <1>3 DEF ClosedOf, Completes, new

\* The request of t goes over to a program that does not complete it.
LEMMA ClosedPlain ==
  ASSUME NEW t \in Turns, ~Completes(t), todo'[T(t)] \in Seq(OfRequest \ Completing),
         run'[t].status = "completed" => run[t].status = "completed",
         warned'[t] => LogHoldsClose', stream'[t].pc # "off"
  PROVE  ClosedOf(t)'
  BY DEF ClosedOf, Completes

\* An action that concerns no request.
LEMMA ClosedSame ==
  ASSUME TypeInv, ClosedInv,
         \A t \in Turns : /\ todo'[T(t)] = todo[T(t)] \/ todo'[T(t)] = <<>>
                          /\ run'[t].status = "completed" => run[t].status = "completed"
                          /\ warned'[t] = warned[t]
                          /\ stream[t].pc # "off" => stream'[t].pc # "off",
         LogHoldsClose => LogHoldsClose'
  PROVE  ClosedInv'
<1>1. ASSUME NEW t \in Turns
      PROVE  ClosedOf(t)'
  <2>1. todo[T(t)] \in Seq(OfRequest)
    BY ActorsAre DEF TypeInv, Programs
  <2>2. run'[t].status = "completed" => Completes(t)
    BY DEF Completes
  <2>3. <<>> \in Seq(Harmless) /\ ClosedOf(t)
    BY DEF ClosedInv
  <2> QED
    BY <2>1, <2>2, <2>3, ClosedNext
<1> QED
  BY <1>1 DEF ClosedInv

\* An actor goes on, perhaps after something harmless.
LEMMA ClosedActor ==
  ASSUME TypeInv, ClosedInv, NEW a \in Actors, NEW q \in Seq(Harmless), todo[a] # <<>>,
         \/ todo'[a] = Tail(todo[a])
         \/ todo'[a] = q \o Tail(todo[a]) /\ \E t \in Turns : a = T(t)
         \/ \A t \in Turns : a # T(t),
         \A b \in Actors \ {a} : todo'[b] = todo[b],
         LogHoldsClose => LogHoldsClose',
         \A t \in Turns : run'[t].status = "completed" => Completes(t),
         UNCHANGED <<warned, stream>>
  PROVE  ClosedInv'
<1>1. ASSUME NEW t \in Turns
      PROVE  ClosedOf(t)'
  <2>1. todo[T(t)] \in Seq(OfRequest) /\ T(t) \in Actors
    BY ActorsAre DEF TypeInv, Programs
  <2>2. ClosedOf(t)
    BY DEF ClosedInv
  <2>3. \/ todo'[T(t)] = todo[T(t)]
        \/ todo[T(t)] # <<>> /\ todo'[T(t)] = Tail(todo[T(t)])
        \/ todo[T(t)] # <<>> /\ todo'[T(t)] = q \o Tail(todo[T(t)])
    BY <2>1
  <2> QED
    BY <2>1, <2>2, <2>3, ClosedNext
<1> QED
  BY <1>1 DEF ClosedInv

\* Other requests than that of t keep what they have to do.
LEMMA OthersClosed ==
  ASSUME TypeInv, ClosedInv, NEW t \in Turns, NEW p, todo' = [todo EXCEPT ![T(t)] = p],
         truth' = truth, \A u \in Turns \ {t} : /\ run'[u] = run[u] /\ warned'[u] = warned[u]
                                               /\ stream'[u] = stream[u]
  PROVE  /\ \A u \in Turns \ {t} : ClosedOf(u)'
         /\ todo'[T(t)] = p
<1>1. DOMAIN todo = Actors /\ T(t) \in Actors
  BY ActorsAre DEF TypeInv, Programs
<1>2. LogHoldsClose => LogHoldsClose'
  BY DEF LogHoldsClose
<1>3. ASSUME NEW u \in Turns \ {t}
      PROVE  ClosedOf(u)'
  <2>1. todo'[T(u)] = todo[T(u)] /\ todo[T(u)] \in Seq(OfRequest)
    BY <1>1, ActorsAre DEF TypeInv, Programs
  <2>2. run'[u].status = "completed" => Completes(u)
    BY DEF Completes
  <2>3. <<>> \in Seq(Harmless) /\ ClosedOf(u)
    BY DEF ClosedInv
  <2> QED
    BY <1>2, <2>1, <2>2, <2>3, ClosedNext
<1> QED
  BY <1>1, <1>3

\* Initially no turn is warned or completes.
LEMMA ClosedInit == Init => ClosedInv
<1> SUFFICES ASSUME Init, NEW t \in Turns
             PROVE  ClosedOf(t)
  BY DEF ClosedInv
<1>1. todo[T(t)] = <<>> /\ run[t].status = "none" /\ warned[t] = FALSE
  BY ActorsAre DEF Init, NoRow
<1>2. ~Completes(t)
  <2>1. <<>> \in Seq(OfRequest \ Completing)
    OBVIOUS
  <2> QED
    BY <1>1, <2>1 DEF Completes
<1> QED
  BY <1>1, <1>2 DEF ClosedOf

\* A turn is begun once.
LEMMA ClosedBegin ==
  ASSUME TypeInv, ClosedInv, NEW t \in Turns, BeginTurn(t)
  PROVE  ClosedInv'
<1>1. /\ todo' = [todo EXCEPT ![T(t)] = RecordTurn(t)]
      /\ UNCHANGED <<truth, run, warned>> /\ stream[t].pc = "off"
  BY DEF BeginTurn, log
<1>2. stream'[t].pc # "off" /\ \A u \in Turns \ {t} : stream'[u] = stream[u]
  <2>1. DOMAIN stream = Turns
    BY DEF TypeInv
  <2>2. PICK x : stream' = [stream EXCEPT ![t] = [NoStream EXCEPT !.pc = "idle", !.after = x]]
    BY DEF BeginTurn
  <2>3. stream'[t] = [NoStream EXCEPT !.pc = "idle", !.after = x] /\ \A u \in Turns \ {t} : stream'[u] = stream[u]
    BY <2>1, <2>2
  <2>4. stream'[t].pc = "idle"
    BY <2>3 DEF NoStream
  <2> QED
    BY <2>3, <2>4
<1>3. (\A u \in Turns \ {t} : ClosedOf(u)') /\ todo'[T(t)] = RecordTurn(t)
  BY <1>1, <1>2, OthersClosed
<1>4. RecordTurn(t) \in Seq(OfRequest \ Completing)
  <2>1. OfRequest \ (Completing \cup Deferred) \subseteq OfRequest \ Completing
    OBVIOUS
  <2> QED
    BY <2>1, RecordTurnIs, Larger
<1>5. ~Completes(t) /\ (warned[t] => LogHoldsClose)
  BY <1>1 DEF ClosedInv, ClosedOf
<1>6. ClosedOf(t)'
  BY <1>1, <1>2, <1>3, <1>4, <1>5, ClosedPlain DEF LogHoldsClose
<1> QED
  BY <1>3, <1>6 DEF ClosedInv

\* At its reap a turn does not complete yet.
LEMMA NotYet ==
  ASSUME TypeInv, ClosedInv, NEW t \in Turns, Doing(T(t), "reap")
  PROVE  ~Completes(t) /\ stream[t].pc # "off"
<1>1. ClosedOf(t) /\ todo[T(t)] # <<>> /\ Head(todo[T(t)]).do = "reap"
  BY DEF ClosedInv, Doing
<1>2. todo[T(t)] \notin Seq(OfRequest \ Reaping)
  <2> SUFFICES ASSUME todo[T(t)] \in Seq(OfRequest \ Reaping)
               PROVE  FALSE
    OBVIOUS
  <2> DEFINE s == Head(todo[T(t)])
  <2>1. s \in OfRequest \ Reaping /\ s.do = "reap"
    BY <1>1, FirstIs
  <2> HIDE DEF s
  <2> QED
    BY <2>1 DEF OfRequest, Reaping, Saying, Listing, Rewriting, Projecting
<1> QED
  BY <1>1, <1>2 DEF ClosedOf

\* A result is taken once, from a turn that does not yet complete.
LEMMA ClosedReap ==
  ASSUME TypeInv, ClosedInv, NEW t \in Turns, Reap(t)
  PROVE  ClosedInv'
<1>1. ~Completes(t) /\ stream[t].pc # "off"
  BY NotYet DEF Reap
<1>2. PICK p \in Seq(OfRequest \ (Completing \cup Reaping \cup Deferred)) :
        todo' = [todo EXCEPT ![T(t)] = p]
  BY ReapedIs
<1>3. \A u \in Turns : run'[u].status = "completed" => run[u].status = "completed"
  BY ReapedIs
<1>4. \A u \in Turns \ {t} : run'[u] = run[u] /\ warned'[u] = warned[u]
  <2>1. warned' = [warned EXCEPT ![t] = LogHoldsClose]
    BY DEF Reap
  <2>2. run' = run \/ \E r : run' = [run EXCEPT ![t] = r]
    <3>1. CASE run[t].cancel
      BY <3>1 DEF Reap
    <3>2. CASE ~run[t].cancel /\ worker[t] = "dead"
      BY <3>2 DEF Reap
    <3>3. CASE ~run[t].cancel /\ worker[t] # "dead"
      BY <3>3 DEF Reap
    <3> QED
      BY <3>1, <3>2, <3>3
  <2> QED
    BY <2>1, <2>2 DEF TypeInv
<1>5. UNCHANGED <<truth, stream>>
  BY DEF Reap, log
<1>6. (\A u \in Turns \ {t} : ClosedOf(u)') /\ todo'[T(t)] = p
  BY <1>2, <1>4, <1>5, OthersClosed
<1>7. p \in Seq(OfRequest \ Completing)
  <2>1. OfRequest \ (Completing \cup Reaping \cup Deferred) \subseteq OfRequest \ Completing
    OBVIOUS
  <2> QED
    BY <2>1, Larger
<1>8. warned'[t] => LogHoldsClose'
  BY <1>5 DEF Reap, LogHoldsClose, TypeInv
<1>9. ClosedOf(t)'
  BY <1>1, <1>3, <1>5, <1>6, <1>7, <1>8, ClosedPlain
<1> QED
  BY <1>6, <1>9 DEF ClosedInv

\* Only a turn whose result was taken before any close completes.
LEMMA ClosedCheck ==
  ASSUME TypeInv, ClosedInv, NEW t \in Turns, CheckClosed(t)
  PROVE  ClosedInv'
<1>1. UNCHANGED <<truth, run, warned, stream>> /\ todo[T(t)] # <<>>
  BY DEF CheckClosed, Doing, log, history
<1>2. PICK p \in Seq(OfRequest \ (Reaping \cup Deferred)) :
        /\ todo' = [todo EXCEPT ![T(t)] = p]
        /\ LogHoldsClose => p \in Seq(OfRequest \ (Completing \cup Reaping \cup Deferred))
  BY CheckedIs
<1>3. (\A u \in Turns \ {t} : ClosedOf(u)') /\ todo'[T(t)] = p
  BY <1>1, <1>2, OthersClosed
<1>4. p \in Seq(OfRequest \ Reaping)
  <2>1. OfRequest \ (Reaping \cup Deferred) \subseteq OfRequest \ Reaping
    OBVIOUS
  <2> QED
    BY <2>1, Larger
<1>5. LogHoldsClose => p \in Seq(OfRequest \ Completing)
  <2>1. OfRequest \ (Completing \cup Reaping \cup Deferred) \subseteq OfRequest \ Completing
    OBVIOUS
  <2> QED
    BY <1>2, <2>1, Larger
<1>6. /\ warned[t] => LogHoldsClose
      /\ stream[t].pc # "off"
      /\ run[t].status = "completed" => ~warned[t]
  BY <1>1 DEF ClosedInv, ClosedOf, Completes
<1>7. ClosedOf(t)'
  BY <1>1, <1>3, <1>4, <1>5, <1>6 DEF ClosedOf, Completes, LogHoldsClose
<1> QED
  BY <1>3, <1>7 DEF ClosedInv

\* A turn whose worker cannot be spawned fails; it never completes.
LEMMA ClosedSpawnFails ==
  ASSUME TypeInv, ClosedInv, NEW t \in Turns, SpawnFails(t)
  PROVE  ClosedInv'
<1>1. UNCHANGED <<truth, run, warned, stream>> /\ todo' = [todo EXCEPT ![T(t)] = Failed(t)]
      /\ todo[T(t)] # <<>>
  BY DEF SpawnFails, Turn, Doing, log, history
<1>2. (\A u \in Turns \ {t} : ClosedOf(u)') /\ todo'[T(t)] = Failed(t)
  BY <1>1, OthersClosed
<1>3. Failed(t) \in Seq(OfRequest \ Completing) /\ Failed(t) \in Seq(OfRequest \ Reaping)
  <2>1. /\ OfRequest \ (Completing \cup Reaping \cup Deferred) \subseteq OfRequest \ Completing
        /\ OfRequest \ (Completing \cup Reaping \cup Deferred) \subseteq OfRequest \ Reaping
    OBVIOUS
  <2> QED
    BY <2>1, FailedIs, Larger
<1>4. ClosedOf(t)'
  BY <1>1, <1>2, <1>3 DEF ClosedInv, ClosedOf, Completes, LogHoldsClose
<1> QED
  BY <1>2, <1>4 DEF ClosedInv

\* A row is set to completed by a statement that says so.
LEMMA ClosedSetRun ==
  ASSUME TypeInv, ClosedInv, NEW t \in Turns, SetRunStatus(t)
  PROVE  ClosedInv'
<1>1. Programs(todo) /\ T(t) \in Actors /\ todo[T(t)] # <<>> /\ Done(T(t))
      /\ Head(todo[T(t)]).do = "run" /\ UNCHANGED <<truth, warned, stream>>
  BY ActorsAre DEF SetRunStatus, Doing, TypeInv, log, history
<1>2. todo'[T(t)] = Tail(todo[T(t)]) /\ \A b \in Actors \ {T(t)} : todo'[b] = todo[b]
  BY <1>1, DoneIs
<1>3. \A u \in Turns : run'[u].status = "completed" => Completes(u)
  <2>1. run' = [run EXCEPT ![t] = CompleteRun(run[t], Head(todo[T(t)]).status)] /\ DOMAIN run = Turns
        /\ run[t] \in Row
    BY DEF SetRunStatus, TypeInv
  <2>2. ASSUME run'[t].status = "completed"
        PROVE  Completes(t)
    <3> DEFINE s == Head(todo[T(t)])
    <3>1. s.status = "completed" /\ s.do = "run"
      <4>1. CompleteRun(run[t], s.status).status = "completed"
        BY <2>1, <2>2
      <4>2. \A x : CompleteRun(run[t], x).status = "completed" => x = "completed"
        BY <2>1, RowsAre
      <4> QED
        BY <1>1, <4>1, <4>2
    <3>2. ASSUME todo[T(t)] \in Seq(OfRequest \ Completing)
          PROVE  FALSE
      <4>1. s \in OfRequest \ Completing
        BY <1>1, <3>2, FirstIs
      <4> HIDE DEF s
      <4> QED
        BY <3>1, <4>1 DEF OfRequest, Completing, Saying, Listing, Rewriting, Projecting
    <3> QED
      BY <3>2 DEF Completes
  <2>3. \A u \in Turns \ {t} : run'[u] = run[u]
    BY <2>1
  <2> QED
    BY <2>2, <2>3 DEF Completes
<1>4. <<>> \in Seq(Harmless)
  OBVIOUS
<1> QED
  BY <1>1, <1>2, <1>3, <1>4, ClosedActor DEF LogHoldsClose

\* A statement that leaves the rows alone is done.
LEMMA ClosedDone ==
  ASSUME TypeInv, ClosedInv, NEW a \in Actors, todo[a] # <<>>, Done(a),
         LogHoldsClose => LogHoldsClose',
         \A t \in Turns : run'[t].status = "completed" => run[t].status = "completed",
         UNCHANGED <<warned, stream>>
  PROVE  ClosedInv'
<1>1. todo'[a] = Tail(todo[a]) /\ \A b \in Actors \ {a} : todo'[b] = todo[b]
  BY DoneIs DEF TypeInv
<1>2. \A t \in Turns : run'[t].status = "completed" => Completes(t)
  BY DEF Completes
<1>3. <<>> \in Seq(Harmless)
  OBVIOUS
<1> QED
  BY <1>1, <1>2, <1>3, ClosedActor

\* A list or a snapshot puts harmless statements first.
LEMMA ClosedExpand ==
  ASSUME TypeInv, ClosedInv, NEW a \in Actors, todo[a] # <<>>,
         NEW q \in Seq(Rewriting \cup Projecting), todo'[a] = q \o Tail(todo[a]),
         \A b \in Actors \ {a} : todo'[b] = todo[b],
         UNCHANGED <<truth, run, warned, stream>>
  PROVE  ClosedInv'
<1>1. q \in Seq(Harmless)
  <2>1. Rewriting \cup Projecting \subseteq Harmless
    BY DEF Harmless, OfRequest, Completing, Reaping, Rewriting, Projecting
  <2> QED
    BY <2>1, Larger
<1>2. \A t \in Turns : run'[t].status = "completed" => Completes(t)
  BY DEF Completes
<1>3. (\E t \in Turns : a = T(t)) \/ \A t \in Turns : a # T(t)
  OBVIOUS
<1> QED
  BY <1>1, <1>2, <1>3, ClosedActor DEF LogHoldsClose

\* The actions that leave the requests alone.
LEMMA ClosedOthers ==
  ASSUME TypeInv, ClosedInv,
         \/ BeginClose \/ ProjectOwn \/ KillWorkers \/ Restart \/ ReadTruth
         \/ \E t \in Turns : \/ Conclude(t) \/ Report(t) \/ WorkerDies(t) \/ Delta(t)
                             \/ LoadProduct(t) \/ LoadShard(t)
         \/ UNCHANGED vars
  PROVE  ClosedInv'
<1>0. Programs(todo) /\ DOMAIN todo = Actors /\ DOMAIN stream = Turns
  BY DEF TypeInv, Programs
<1>1. UNCHANGED <<truth, run, warned>>
  BY DEF BeginClose, ProjectOwn, KillWorkers, Restart, ReadTruth, Conclude, Report, WorkerDies, Delta,
         LoadProduct, LoadShard, vars, log, history
<1>2. \A t \in Turns : todo'[T(t)] = todo[T(t)] \/ todo'[T(t)] = <<>>
  <2> SUFFICES ASSUME NEW t \in Turns
               PROVE  todo'[T(t)] = todo[T(t)] \/ todo'[T(t)] = <<>>
    OBVIOUS
  <2>0. /\ T(t) \in Actors /\ T(t) # Closer /\ T(t) # Repairer /\ \A u \in Turns : T(t) # W(u)
    BY ActorsAre
  <2>1. CASE BeginClose
    BY <1>0, <2>0, <2>1 DEF BeginClose
  <2>2. CASE ProjectOwn
    <3>1. todo' = [todo EXCEPT ![Closer] = Project(<< Latest(CloseEvents) >>, FALSE) \o Tail(@)]
      BY <2>2 DEF ProjectOwn, Expand
    <3> QED
      BY <1>0, <2>0, <3>1
  <2>3. CASE KillWorkers
    BY <2>3, KilledIs
  <2>4. CASE Restart
    <3> DEFINE over == {u \in Turns : worker[u] = "running" /\ ~Orphans}
    <3>1. todo' = [a \in Actors |-> CASE a = Repairer -> Step("read")
                    [] a \in {W(u) : u \in Turns \ over} -> todo[a]
                    [] OTHER -> <<>>]
      BY <2>4 DEF Restart
    <3> QED
      BY <2>0, <3>1
  <2>5. CASE ReadTruth
    BY <2>0, <2>5, ReadIs
  <2>6. CASE \E u \in Turns : Conclude(u)
    <3>1. PICK u \in Turns : \E r : todo' = [todo EXCEPT ![W(u)] = Log(r)]
      BY <2>6 DEF Conclude
    <3> QED
      BY <1>0, <2>0, <3>1
  <2>7. CASE \E u \in Turns : WorkerDies(u)
    BY <1>0, <2>0, <2>7 DEF WorkerDies
  <2>8. CASE \/ \E u \in Turns : Report(u) \/ Delta(u) \/ LoadProduct(u) \/ LoadShard(u)
             \/ UNCHANGED vars
    BY <2>8 DEF Report, Delta, LoadProduct, LoadShard, vars
  <2> QED
    BY <2>1, <2>2, <2>3, <2>4, <2>5, <2>6, <2>7, <2>8
<1>3. \A t \in Turns : stream[t].pc # "off" => stream'[t].pc # "off"
  <2>1. CASE \E t \in Turns : LoadProduct(t)
    <3>1. PICK t \in Turns : \E x, y :
            stream' = [stream EXCEPT ![t].pc = "loading", ![t].last = x, ![t].page = y]
      BY <2>1 DEF LoadProduct
    <3>2. "pc" \in DOMAIN stream[t]
      BY DEF TypeInv, StreamFields
    <3>3. stream'[t].pc = "loading" /\ \A u \in Turns \ {t} : stream'[u] = stream[u]
      BY <1>0, <3>1, <3>2
    <3> QED
      BY <3>3
  <2>2. CASE \E t \in Turns : LoadShard(t)
    <3>1. PICK t \in Turns : LoadShard(t)
      BY <2>2
    <3> DEFINE x == IF stream[t].last THEN "closed" ELSE "idle"
    <3>2. \E y, z : stream' = [stream EXCEPT ![t] = [pc |-> x, after |-> y, page |-> <<>>,
                                                    last |-> FALSE, sent |-> z]]
      BY <3>1, Zenon DEF LoadShard
    <3>3. x # "off"
      OBVIOUS
    <3> HIDE DEF x
    <3>4. stream'[t].pc = x /\ \A u \in Turns \ {t} : stream'[u] = stream[u]
      BY <1>0, <3>2
    <3> QED
      BY <3>3, <3>4
  <2>3. CASE Restart
    <3>1. stream' = [t \in Turns |-> IF stream[t].pc = "off" THEN NoStream
                                     ELSE [NoStream EXCEPT !.pc = "lost"]]
      BY <2>3 DEF Restart
    <3>2. [NoStream EXCEPT !.pc = "lost"].pc = "lost"
      BY DEF NoStream
    <3> QED
      BY <3>1, <3>2
  <2>4. CASE UNCHANGED stream
    BY <2>4
  <2>5. \/ \E t \in Turns : LoadProduct(t)
        \/ \E t \in Turns : LoadShard(t)
        \/ Restart
        \/ UNCHANGED stream
    BY DEF BeginClose, ProjectOwn, KillWorkers, ReadTruth, Conclude, Report, WorkerDies, Delta, vars
  <2> QED
    BY <2>1, <2>2, <2>3, <2>4, <2>5
<1> QED
  BY <1>1, <1>2, <1>3, ClosedSame DEF LogHoldsClose

\* A worker is spawned for a turn that has been begun.
LEMMA ClosedSpawn ==
  ASSUME TypeInv, ClosedInv, NEW t \in Turns, SpawnWorker(t)
  PROVE  ClosedInv'
<1>0. UNCHANGED <<truth, run, warned, stream>> /\ todo[T(t)] # <<>>
  BY DEF SpawnWorker, Doing, log, history
<1>1. DOMAIN todo = Actors
  BY DEF TypeInv, Programs
<1>2. ASSUME NEW u \in Turns
      PROVE  ClosedOf(u)'
  <2>1. todo[T(u)] \in Seq(OfRequest) /\ ClosedOf(u) /\ <<>> \in Seq(Harmless)
    BY ActorsAre DEF TypeInv, Programs, ClosedInv
  <2>2. todo'[T(u)] = todo[T(u)] \/ (todo[T(u)] # <<>> /\ todo'[T(u)] = Tail(todo[T(u)]))
    BY <1>0, <1>1, ActorsAre DEF SpawnWorker
  <2>3. run'[u].status = "completed" => Completes(u)
    BY <1>0 DEF Completes
  <2> QED
    BY <1>0, <2>1, <2>2, <2>3, ClosedNext DEF LogHoldsClose
<1> QED
  BY <1>2 DEF ClosedInv

\* Every step keeps what a completing turn has behind it.
LEMMA ClosedStep ==
  ASSUME TypeInv, OrderInv, ClosedInv, [Next]_vars
  PROVE  ClosedInv'
<1>1. ASSUME NEW t \in Turns, QueueRun(t)
      PROVE  ClosedInv'
  <2>1. todo[T(t)] # <<>> /\ Done(T(t)) /\ UNCHANGED <<truth, warned, stream>>
        /\ run' = [run EXCEPT ![t] = BindRow(NewRow)]
    BY <1>1 DEF QueueRun, Doing, log, history
  <2>2. BindRow(NewRow).status = "queued"
    <3>1. run[t] \in Row
      BY DEF TypeInv
    <3> QED
      BY <3>1, RowsAre
  <2>3. \A u \in Turns : run'[u].status = "completed" => run[u].status = "completed"
    BY <2>1, <2>2 DEF TypeInv
  <2> QED
    BY <2>1, <2>3, ActorsAre, ClosedDone DEF LogHoldsClose
<1>2. ASSUME FlagRuns
      PROVE  ClosedInv'
  <2>1. todo[Closer] # <<>> /\ Done(Closer) /\ UNCHANGED <<truth, warned, stream>>
        /\ run' = [t \in Turns |-> RequestCancel(run[t])]
    BY <1>2 DEF FlagRuns, Doing, log, history
  <2>2. \A u \in Turns : run'[u].status = "completed" => run[u].status = "completed"
    <3> TAKE u \in Turns
    <3>1. run[u] \in Row
      BY DEF TypeInv
    <3> QED
      BY <2>1, <3>1, RowsAre
  <2> QED
    BY <2>1, <2>2, ActorsAre, ClosedDone DEF LogHoldsClose
<1>3. ASSUME NEW t \in Turns, Snapshot(t)
      PROVE  ClosedInv'
  <2> DEFINE es == SubSeq(truth, 1, snap[t])
             q == Project(es, hide[t])
  <2>1. q \in Seq(Rewriting \cup Projecting)
    <3>1. es \in Seq(Entries) /\ hide[t] \in BOOLEAN
      <4>1. truth \in Seq(Entries) /\ snap[t] \in Nat /\ snap[t] <= Len(truth) /\ hide[t] \in BOOLEAN
        BY DEF TypeInv
      <4>2. \A i \in 1 .. snap[t] : truth[i] \in Entries
        BY <4>1
      <4> QED
        BY <4>1, <4>2, SubSeqProperties
    <3> HIDE DEF es
    <3>2. q \in Seq(Projecting)
      BY <3>1, ProjectIs
    <3> QED
      BY <3>2, Larger
  <2>2. Programs(todo) /\ todo[T(t)] # <<>> /\ UNCHANGED <<truth, run, warned, stream>>
        /\ todo' = [todo EXCEPT ![T(t)] = q \o Tail(todo[T(t)])]
    BY <1>3 DEF Snapshot, Expand, Doing, TypeInv, log, history
  <2> HIDE DEF q
  <2>3. todo'[T(t)] = q \o Tail(todo[T(t)]) /\ \A b \in Actors \ {T(t)} : todo'[b] = todo[b]
    BY <2>2, ActorsAre DEF Programs
  <2> QED
    BY <2>1, <2>2, <2>3, ActorsAre, ClosedExpand
<1>4. ASSUME NEW a \in Actors, ListMessages(a)
      PROVE  ClosedInv'
  <2>0. todo[a] # <<>> /\ UNCHANGED <<truth, run, warned, stream>>
    BY <1>4 DEF ListMessages, Doing, log, history
  <2>1. PICK q \in Seq(Rewriting) : /\ todo'[a] = q \o Tail(todo[a])
                                    /\ \A b \in Actors \ {a} : todo'[b] = todo[b]
    BY <1>4, ListedTodo, Zenon DEF OrderInv
  <2>2. q \in Seq(Rewriting \cup Projecting)
    BY Larger
  <2> QED
    BY <2>0, <2>1, <2>2, ClosedExpand
<1>5. ASSUME NEW a \in Actors,
             SelectMax(a) \/ Insert(a) \/ ProjectEvent(a) \/ SayMessage(a) \/ RewriteMessage(a)
      PROVE  ClosedInv'
  <2>1. todo[a] # <<>> /\ Done(a) /\ UNCHANGED <<run, warned, stream>>
    BY <1>5 DEF SelectMax, Insert, ProjectEvent, SayMessage, RewriteMessage, Doing, history
  <2>2. LogHoldsClose => LogHoldsClose'
    <3>1. CASE Insert(a)
      BY <3>1, OwnInsert DEF OrderInv
    <3>2. CASE ~Insert(a)
      BY <1>5, <3>2 DEF SelectMax, ProjectEvent, SayMessage, RewriteMessage, log, LogHoldsClose
    <3> QED
      BY <3>1, <3>2
  <2> QED
    BY <2>1, <2>2, ClosedDone
<1>6. ASSUME NEW t \in Turns,
             \/ BeginTurn(t) \/ QueueRun(t) \/ SetRunStatus(t) \/ SpawnWorker(t) \/ SpawnFails(t)
             \/ Conclude(t) \/ Report(t) \/ WorkerDies(t) \/ Delta(t)
             \/ Reap(t) \/ CheckClosed(t) \/ Snapshot(t) \/ LoadProduct(t) \/ LoadShard(t)
      PROVE  ClosedInv'
  BY <1>1, <1>3, <1>6, ClosedBegin, ClosedSetRun, ClosedSpawn, ClosedSpawnFails, ClosedReap, ClosedCheck,
     ClosedOthers
<1>7. ASSUME \/ BeginClose \/ ProjectOwn \/ FlagRuns \/ KillWorkers \/ Restart \/ ReadTruth
             \/ UNCHANGED vars
      PROVE  ClosedInv'
  BY <1>2, <1>7, ClosedOthers
<1> QED
  BY <1>4, <1>5, <1>6, <1>7 DEF Next

---------------------------------------------------------------------------
(* The phases of the turns.                                                 *)

\* What a list, a snapshot and the reads of a close and of the repair bring forth.
Brought == Deferred \cup Listing({"phase"})

\* The statements of a request after its result was taken, or failed to come.
LaterOf(t) == {s \in OfRequest : /\ s.do \notin {"spawn", "reap"}
                                 /\ s.do = "say" => s.kind = "error" /\ s.id[2] = t}

\* Where the parts of two programs are when they follow one another.
LEMMA PartsOf ==
  ASSUME NEW S, NEW q \in Seq(S), NEW r \in Seq(S)
  PROVE  /\ q \o r \in Seq(S) /\ Len(q \o r) = Len(q) + Len(r)
         /\ Len(q) \in Nat /\ Len(r) \in Nat
         /\ DOMAIN (q \o r) = 1 .. Len(q) + Len(r) /\ DOMAIN q = 1 .. Len(q) /\ DOMAIN r = 1 .. Len(r)
         /\ \A n \in 1 .. Len(q) : (q \o r)[n] = q[n]
         /\ \A n \in 1 .. Len(r) : (q \o r)[Len(q) + n] = r[n]
         /\ \A n \in DOMAIN (q \o r) : n \in 1 .. Len(q) \/ (n - Len(q) \in 1 .. Len(r) /\ (q \o r)[n] = r[n - Len(q)])
<1>1. /\ q \o r \in Seq(S) /\ Len(q \o r) = Len(q) + Len(r)
      /\ \A n \in 1 .. Len(q) + Len(r) : (q \o r)[n] = IF n <= Len(q) THEN q[n] ELSE r[n - Len(q)]
  BY ConcatProperties
<1>2. Len(q) \in Nat /\ Len(r) \in Nat /\ DOMAIN q = 1 .. Len(q) /\ DOMAIN r = 1 .. Len(r)
  OBVIOUS
<1>3. DOMAIN (q \o r) = 1 .. Len(q) + Len(r)
  BY <1>1, <1>2
<1> QED
  BY <1>1, <1>2, <1>3

\* A statement of a program that is not the first one, and what is left of it.
Waits(S, p, q, n) == p \in Seq(S) /\ p # <<>> /\ q \in Seq(S) /\ n \in DOMAIN p /\ n # 1
Stays(p, q, n) == \E m \in DOMAIN (q \o Tail(p)) : (q \o Tail(p))[m] = p[n]
\* A statement that is not the first one is still there after the first is done.
LEMMA StaysIn == ASSUME NEW S, NEW p, NEW q, NEW n, Waits(S, p, q, n) PROVE Stays(p, q, n)
<1>0. p \in Seq(S) /\ p # <<>> /\ q \in Seq(S) /\ n \in DOMAIN p /\ n # 1
  BY DEF Waits
<1>1. /\ Tail(p) \in Seq(S) /\ Len(Tail(p)) = Len(p) - 1 /\ Len(p) \in Nat \ {0} /\ DOMAIN p = 1 .. Len(p)
      /\ \A i \in DOMAIN Tail(p) : i + 1 \in DOMAIN p /\ Tail(p)[i] = p[i + 1]
  BY <1>0, FirstIs
<1> DEFINE r == Tail(p)
<1>2. /\ DOMAIN (q \o r) = 1 .. Len(q) + Len(r) /\ Len(q) \in Nat /\ DOMAIN r = 1 .. Len(r)
      /\ \A k \in 1 .. Len(r) : (q \o r)[Len(q) + k] = r[k]
  BY <1>0, <1>1, PartsOf
<1> HIDE DEF r
<1>3. n - 1 \in DOMAIN r /\ r[n - 1] = p[n]
  <2>1. n - 1 \in 1 .. Len(r)
    BY <1>0, <1>1 DEF r
  <2> QED
    BY <1>0, <1>1, <1>2, <2>1 DEF r
<1>4. Len(q) + (n - 1) \in DOMAIN (q \o r) /\ (q \o r)[Len(q) + (n - 1)] = p[n]
  BY <1>2, <1>3
<1> QED
  BY <1>4 DEF r, Stays

\* The last statement is still the last after the first is done.
LEMMA LastStays ==
  ASSUME NEW S, NEW p \in Seq(S), p # <<>>, NEW q \in Seq(S), Tail(p) # <<>>
  PROVE  (q \o Tail(p))[Len(q \o Tail(p))] = p[Len(p)]
<1>1. /\ Tail(p) \in Seq(S) /\ Len(Tail(p)) = Len(p) - 1 /\ Len(p) \in Nat \ {0} /\ DOMAIN p = 1 .. Len(p)
      /\ \A i \in DOMAIN Tail(p) : i + 1 \in DOMAIN p /\ Tail(p)[i] = p[i + 1]
  BY FirstIs
<1> DEFINE r == Tail(p)
<1>2. /\ Len(q \o r) = Len(q) + Len(r) /\ Len(q) \in Nat /\ DOMAIN r = 1 .. Len(r)
      /\ \A k \in 1 .. Len(r) : (q \o r)[Len(q) + k] = r[k]
  BY <1>1, PartsOf
<1>3. Len(r) \in 1 .. Len(r)
  <2>1. Len(r) # 0
    BY <1>1, EmptySeq
  <2> QED
    BY <1>1, <2>1
<1>4. r[Len(r)] = p[Len(p)]
  BY <1>1, <1>2, <1>3
<1> QED
  BY <1>2, <1>3, <1>4

\* The program of a request keeps its shape as its first statement is done.
LEMMA RunsOnNext ==
  ASSUME NEW t, NEW p \in Seq(OfRequest), p # <<>>, RunsOn(p, t), NEW q \in Seq(Brought)
  PROVE  /\ RunsOn(q \o Tail(p), t)
         /\ \A n \in DOMAIN (q \o Tail(p)) : Spawns((q \o Tail(p))[n]) =>
              ~Spawns(Head(p)) /\ \E m \in DOMAIN p : Spawns(p[m])
         /\ SaysPhase(Head(p)) \/ Spawns(Head(p)) =>
              \E n \in DOMAIN (q \o Tail(p)) : (q \o Tail(p))[n].do = "reap"
<1> DEFINE r == Tail(p)
           new == q \o r
           All == OfRequest \cup Brought
<1>1. /\ Head(p) = p[1] /\ 1 \in DOMAIN p /\ Tail(p) \in Seq(OfRequest)
      /\ Len(Tail(p)) = Len(p) - 1 /\ Len(p) \in Nat \ {0} /\ DOMAIN p = 1 .. Len(p)
      /\ \A i \in DOMAIN Tail(p) : i + 1 \in DOMAIN p /\ Tail(p)[i] = p[i + 1]
  BY FirstIs
<1>2. r \in Seq(All) /\ q \in Seq(All) /\ p \in Seq(All)
  BY <1>1, Larger
<1>3. /\ Len(new) = Len(q) + Len(r) /\ Len(q) \in Nat /\ Len(r) \in Nat
      /\ DOMAIN new = 1 .. Len(q) + Len(r) /\ DOMAIN q = 1 .. Len(q) /\ DOMAIN r = 1 .. Len(r)
      /\ \A n \in 1 .. Len(q) : new[n] = q[n]
      /\ \A n \in DOMAIN new : n \in 1 .. Len(q) \/ (n - Len(q) \in 1 .. Len(r) /\ new[n] = r[n - Len(q)])
  BY <1>2, PartsOf
<1>4. \A n \in 1 .. Len(q) : new[n].do \notin {"say", "spawn", "reap", "check"}
  <2>1. \A s \in Brought : s.do \notin {"say", "spawn", "reap", "check"}
    BY DEF Brought, Deferred, Rewriting, Projecting, Listing
  <2>2. \A n \in 1 .. Len(q) : q[n] \in Brought
    BY <1>3
  <2> QED
    BY <1>3, <2>1, <2>2
<1>5. ASSUME NEW n \in DOMAIN new, new[n].do \in {"say", "spawn", "reap", "check"}
      PROVE  /\ n - Len(q) + 1 \in DOMAIN p /\ n - Len(q) + 1 # 1 /\ new[n] = p[n - Len(q) + 1]
             /\ Tail(p) # <<>>
  <2>1. n - Len(q) \in 1 .. Len(r) /\ new[n] = r[n - Len(q)]
    BY <1>3, <1>4, <1>5
  <2>2. Tail(p) # <<>>
    BY <1>3, <2>1
  <2> QED
    BY <1>1, <1>3, <2>1, <2>2
<1>6. Tail(p) # <<>> => new[Len(new)] = p[Len(p)]
  BY <1>2, LastStays
<1>7. SaysPhase(Head(p)) \/ Spawns(Head(p)) =>
              \E n \in DOMAIN new : new[n].do = "reap"
  <2> SUFFICES ASSUME SaysPhase(Head(p)) \/ Spawns(Head(p))
               PROVE  \E n \in DOMAIN new : new[n].do = "reap"
    OBVIOUS
  <2>1. p[Len(p)].do = "reap"
    BY <1>1 DEF RunsOn
  <2>2. Len(p) # 1 /\ Len(p) \in DOMAIN p
    BY <1>1, <2>1 DEF SaysPhase, Spawns
  <2>3. Waits(All, p, q, Len(p))
    BY <1>2, <2>2 DEF Waits
  <2>4. \E m \in DOMAIN new : new[m] = p[Len(p)]
    BY <2>3, StaysIn DEF Stays
  <2> QED
    BY <2>1, <2>4
<1> HIDE DEF r, new, All
<1>8. \A n \in DOMAIN new : new[n].do = "say" => new[n].id[2] = t
  BY <1>5 DEF RunsOn
<1>9. \A n, m \in DOMAIN new : Spawns(new[n]) /\ Spawns(new[m]) => n = m
  <2> SUFFICES ASSUME NEW n \in DOMAIN new, NEW m \in DOMAIN new, Spawns(new[n]), Spawns(new[m])
               PROVE  n = m
    OBVIOUS
  <2>1. n - Len(q) + 1 = m - Len(q) + 1
    BY <1>5 DEF RunsOn, Spawns
  <2> QED
    BY <1>3, <2>1
<1>10. \A n \in DOMAIN new : SaysPhase(new[n]) \/ Spawns(new[n]) => new[Len(new)].do = "reap"
  BY <1>5, <1>6 DEF RunsOn, SaysPhase, Spawns
<1>11. \A n, m \in DOMAIN new : new[n].do = "check" => new[m].do \notin {"reap", "spawn"}
  BY <1>5 DEF RunsOn
<1>12. \A n \in DOMAIN new : Spawns(new[n]) => ~Spawns(Head(p)) /\ \E m \in DOMAIN p : Spawns(p[m])
  BY <1>1, <1>5 DEF RunsOn, Spawns
<1>13. RunsOn(new, t)
  BY <1>8, <1>9, <1>10, <1>11 DEF RunsOn
<1> QED
  BY <1>7, <1>12, <1>13 DEF new, r

\* What comes after the result has the shape.
LEMMA LaterRunsOn ==
  ASSUME NEW t, NEW p \in Seq(LaterOf(t))
  PROVE  RunsOn(p, t) /\ \A n \in DOMAIN p : ~Spawns(p[n]) /\ p[n].do # "reap"
<1>1. \A n \in DOMAIN p : p[n] \in LaterOf(t)
  OBVIOUS
<1> QED
  BY <1>1 DEF LaterOf, RunsOn, SaysPhase, Spawns

\* A turn is recorded by a program of that shape, which takes the result at its end.
LEMMA RecordRunsOn ==
  ASSUME NEW t \in Turns
  PROVE  /\ RunsOn(RecordTurn(t), t)
         /\ \E n \in DOMAIN RecordTurn(t) : RecordTurn(t)[n].do = "reap"
         /\ \E n \in DOMAIN RecordTurn(t) : RecordTurn(t)[n].do = "spawn"
         /\ EndsSo(RecordTurn(t)) /\ WaitsSo(RecordTurn(t))
         /\ \A n \in DOMAIN RecordTurn(t) : RecordTurn(t)[n].do # "check"
<1> DEFINE S == {s \in OfRequest : /\ s.do \in {"say", "queue", "run"}
                                   /\ s.do = "say" => s.id[2] = t}
           a == Say(<<"user", t>>, "user", "completed")
           b == Say(<<"phase", t>>, "phase", "streaming")
           c == Step("queue")
           d == SetRun("running")
           e == [do |-> "spawn"]
           f == [do |-> "reap"]
           q == a \o b \o c \o d
           r == q \o << e >>
           p == r \o << f >>
<1>1. t \in Nat
  BY TurnsAssumption
<1>2. a \in Seq(S) /\ b \in Seq(S)
  BY <1>1 DEF Say, OfRequest, Saying, Phases, Settled
<1>3. c \in Seq(S) /\ d \in Seq(S)
  BY DEF Step, SetRun, OfRequest, RunStatuses
<1>4. RecordTurn(t) = p
  BY DEF RecordTurn, Step
<1> HIDE DEF a, b, c, d
<1>5. q \in Seq(S)
  <2> HIDE DEF S
  <2>1. a \o b \o c \in Seq(S)
    BY <1>2, <1>3, Together
  <2> QED
    BY <1>3, <2>1, Together
<1> DEFINE R == S \cup {e, f}
<1>6. q \in Seq(R) /\ << e >> \in Seq(R) /\ << f >> \in Seq(R)
  BY <1>5, Larger
<1> HIDE DEF q
<1>7. /\ r \in Seq(R) /\ Len(r) = Len(q) + 1 /\ Len(q) \in Nat /\ DOMAIN q = 1 .. Len(q)
      /\ DOMAIN r = 1 .. Len(q) + 1 /\ \A n \in 1 .. Len(q) : r[n] = q[n]
      /\ r[Len(q) + 1] = e
  <2>1. Len(<< e >>) = 1 /\ << e >>[1] = e
    OBVIOUS
  <2> DEFINE x == << e >>
  <2>2. /\ q \o x \in Seq(R) /\ Len(q \o x) = Len(q) + Len(x)
        /\ Len(q) \in Nat /\ Len(x) \in Nat
        /\ DOMAIN (q \o x) = 1 .. Len(q) + Len(x) /\ DOMAIN q = 1 .. Len(q)
        /\ \A n \in 1 .. Len(q) : (q \o x)[n] = q[n]
        /\ \A n \in 1 .. Len(x) : (q \o x)[Len(q) + n] = x[n]
    BY <1>6, PartsOf
  <2> QED
    BY <2>1, <2>2
<1> HIDE DEF r
<1>8. /\ Len(p) = Len(q) + 2 /\ DOMAIN p = 1 .. Len(q) + 2
      /\ \A n \in 1 .. Len(q) + 1 : p[n] = r[n]
      /\ p[Len(q) + 2] = f
  <2>1. Len(<< f >>) = 1 /\ << f >>[1] = f
    OBVIOUS
  <2> DEFINE x == << f >>
  <2>2. /\ r \o x \in Seq(R) /\ Len(r \o x) = Len(r) + Len(x)
        /\ Len(r) \in Nat /\ Len(x) \in Nat
        /\ DOMAIN (r \o x) = 1 .. Len(r) + Len(x) /\ DOMAIN r = 1 .. Len(r)
        /\ \A n \in 1 .. Len(r) : (r \o x)[n] = r[n]
        /\ \A n \in 1 .. Len(x) : (r \o x)[Len(r) + n] = x[n]
    BY <1>6, <1>7, PartsOf
  <2> QED
    BY <1>7, <2>1, <2>2
<1> HIDE DEF p
<1>9. \A n \in 1 .. Len(q) : p[n] \in S
  BY <1>5, <1>7, <1>8
<1>10. p[Len(q) + 1] = e
  BY <1>7, <1>8
<1>11. \A n \in DOMAIN p : n \in 1 .. Len(q) \/ n = Len(q) + 1 \/ n = Len(q) + 2
  BY <1>7, <1>8
<1>12. p[Len(q) + 1].do = "spawn" /\ p[Len(q) + 2].do = "reap"
  BY <1>8, <1>10
<1>13. \A n \in 1 .. Len(q) : /\ p[n].do \in {"say", "queue", "run"}
                              /\ p[n].do = "say" => p[n].id[2] = t
  BY <1>9
<1>14. RunsOn(p, t)
  <2>1. \A n \in DOMAIN p : p[n].do = "say" => p[n].id[2] = t
    BY <1>11, <1>12, <1>13
  <2>2. \A n, m \in DOMAIN p : Spawns(p[n]) /\ Spawns(p[m]) => n = m
    BY <1>11, <1>12, <1>13 DEF Spawns
  <2>3. \A n, m \in DOMAIN p : p[n].do = "check" => p[m].do \notin {"reap", "spawn"}
    BY <1>11, <1>12, <1>13
  <2> QED
    BY <1>8, <1>12, <2>1, <2>2, <2>3 DEF RunsOn
<1>15. Len(q) + 2 \in DOMAIN p /\ Len(q) + 1 \in DOMAIN p
  BY <1>7, <1>8
<1>16. EndsSo(p) /\ WaitsSo(p) /\ \A n \in DOMAIN p : p[n].do # "check"
  <2>1. \A n \in DOMAIN p : p[n].do \in Ending => n = Len(p)
    BY <1>8, <1>11, <1>12, <1>13 DEF Ending
  <2>2. \A n \in DOMAIN p : p[n].do \in {"say", "queue", "run", "spawn", "reap"}
    BY <1>11, <1>12, <1>13
  <2> QED
    BY <2>1, <2>2 DEF EndsSo, WaitsSo
<1> QED
  BY <1>4, <1>12, <1>14, <1>15, <1>16

\* A list of the phases is what settles them.
LEMMA PhaseList ==
  ASSUME NEW s \in Settled
  PROVE  /\ Len(Complete("phase", s)) = 1 /\ ListsPhases(Complete("phase", s)[1])
         /\ 1 \in DOMAIN Complete("phase", s)
         /\ \A t : Complete("phase", s) \in Seq(LaterOf(t))
         /\ Complete("phase", s) \in Seq(Listing({"phase"}))
<1> DEFINE x == [do |-> "list", kind |-> "phase", status |-> s]
<1>1. ListsPhases(x) /\ x \in Listing({"phase"}) /\ \A t : x \in LaterOf(t)
  BY DEF ListsPhases, LaterOf, OfRequest, Listing
<1>2. Complete("phase", s) = << x >>
  BY DEF Complete
<1> DEFINE p == Complete("phase", s)
<1>3. Len(p) = 1 /\ p[1] = x /\ 1 \in DOMAIN p
  BY <1>2
<1>4. \A t : p \in Seq(LaterOf(t))
  <2> TAKE t
  <2> HIDE DEF x, p
  <2>1. << x >> \in Seq(LaterOf(t))
    BY <1>1, OneStep
  <2> QED
    BY <1>2, <2>1 DEF p
<1>5. p \in Seq(Listing({"phase"}))
  <2> HIDE DEF x, p
  <2>1. << x >> \in Seq(Listing({"phase"}))
    BY <1>1, OneStep
  <2> QED
    BY <1>2, <2>1 DEF p
<1> HIDE DEF x
<1> QED
  BY <1>1, <1>3, <1>4, <1>5

\* A failed turn settles the phases.
LEMMA FailedSettles ==
  ASSUME NEW t \in Turns
  PROVE  Failed(t) \in Seq(LaterOf(t)) /\ \E n \in DOMAIN Failed(t) : ListsPhases(Failed(t)[n])
<1> DEFINE S == LaterOf(t)
           a == Complete("phase", "failed")
           b == SetRun("failed")
           c == Say(<<"error", t>>, "error", "completed")
<1>1. t \in Nat
  BY TurnsAssumption
<1>2. a \in Seq(S) /\ ListsPhases(a[1]) /\ 1 \in DOMAIN a
  BY PhaseList DEF Settled
<1>3. b \in Seq(S)
  BY DEF SetRun, OfRequest, RunStatuses, LaterOf
<1>4. c \in Seq(S)
  BY <1>1 DEF Say, OfRequest, Saying, Phases, Settled, LaterOf
<1> HIDE DEF a, b, c, S
<1>5. a \o b \in Seq(S) /\ 1 \in DOMAIN (a \o b) /\ (a \o b)[1] = a[1]
  BY <1>2, <1>3, Together, Leads
<1>6. a \o b \o c \in Seq(S) /\ 1 \in DOMAIN (a \o b \o c) /\ (a \o b \o c)[1] = (a \o b)[1]
  BY <1>4, <1>5, Together, Leads
<1> QED
  BY <1>2, <1>5, <1>6 DEF a, b, c, S, Failed

\* A cancelled turn settles the phases.
LEMMA CancelledSettles ==
  ASSUME NEW t \in Turns
  PROVE  Cancelled \in Seq(LaterOf(t)) /\ \E n \in DOMAIN Cancelled : ListsPhases(Cancelled[n])
<1> DEFINE S == LaterOf(t)
           a == Complete("phase", "cancelled")
           b == SetRun("cancelled")
<1>2. a \in Seq(S) /\ ListsPhases(a[1]) /\ 1 \in DOMAIN a
  BY PhaseList DEF Settled
<1>3. b \in Seq(S)
  BY DEF SetRun, OfRequest, RunStatuses, LaterOf
<1> HIDE DEF a, b, S
<1>5. a \o b \in Seq(S) /\ 1 \in DOMAIN (a \o b) /\ (a \o b)[1] = a[1]
  BY <1>2, <1>3, Together, Leads
<1> QED
  BY <1>2, <1>5 DEF a, b, S, Cancelled

\* A turn with a result settles the phases.
LEMMA AnsweredSettles ==
  ASSUME NEW t \in Turns, NEW s \in {"completed", "failed"}
  PROVE  Answered(s) \in Seq(LaterOf(t)) /\ \E n \in DOMAIN Answered(s) : ListsPhases(Answered(s)[n])
<1> DEFINE S == LaterOf(t)
           a == Complete("answer", "completed")
           b == Complete("reasoning", "completed")
           c == Complete("phase", s)
           d == SetRun(s)
           e == Step("snapshot")
<1>1. a \in Seq(S) /\ b \in Seq(S)
  BY DEF Complete, OfRequest, Listing, LaterOf, Settled
<1>2. c \in Seq(S) /\ ListsPhases(c[1]) /\ 1 \in 1 .. Len(c)
  BY PhaseList DEF Settled
<1>3. d \in Seq(S) /\ e \in Seq(S)
  BY DEF SetRun, Step, OfRequest, RunStatuses, LaterOf
<1> HIDE DEF a, b, c, d, e, S
<1> DEFINE ab == a \o b
<1>4. ab \in Seq(S)
  BY <1>1, Together
<1> HIDE DEF ab
<1> DEFINE abc == ab \o c
<1>5. /\ abc \in Seq(S) /\ Len(ab) + 1 \in DOMAIN abc /\ abc[Len(ab) + 1] = c[1]
  <2>1. /\ ab \o c \in Seq(S) /\ Len(ab \o c) = Len(ab) + Len(c)
        /\ Len(ab) \in Nat /\ Len(c) \in Nat
        /\ DOMAIN (ab \o c) = 1 .. Len(ab) + Len(c)
        /\ \A n \in 1 .. Len(c) : (ab \o c)[Len(ab) + n] = c[n]
    BY <1>2, <1>4, PartsOf
  <2> QED
    BY <1>2, <2>1
<1> HIDE DEF abc
<1>6. abc \o d \in Seq(S) /\ Len(ab) + 1 \in DOMAIN (abc \o d) /\ (abc \o d)[Len(ab) + 1] = c[1]
  BY <1>3, <1>5, Together, Leads
<1>7. abc \o d \o e \in Seq(S) /\ Len(ab) + 1 \in DOMAIN (abc \o d \o e)
      /\ (abc \o d \o e)[Len(ab) + 1] = c[1]
  BY <1>3, <1>6, Together, Leads
<1> QED
  BY <1>2, <1>7 DEF a, b, c, d, e, ab, abc, S, Answered

\* The last thing a close does is to list the phases.
LEMMA CloseEnds ==
  /\ ListsPhases(ForceClose[Len(ForceClose)])
  /\ ForceClose \in Seq(OfClose)
<1> DEFINE S == OfClose \ Deferred
           a == Log("closed")
           b == Step("own")
           c == Step("flag")
           d == Step("kill")
           e == Complete("phase", "cancelled")
           p == a \o b \o c \o d
<1>1. a \in Seq(S)
  BY LogIs
<1>2. b \in Seq(S) /\ c \in Seq(S) /\ d \in Seq(S)
  BY DEF Step, OfClose, Deferred, Rewriting, Projecting
<1>3. e \in Seq(S) /\ Len(e) = 1 /\ ListsPhases(e[1])
  BY CompleteIs, PhaseList DEF Phases, Settled
<1>4. ForceClose = p \o e
  BY DEF ForceClose
<1> HIDE DEF a, b, c, d, e, S
<1>5. p \in Seq(S)
  <2>1. a \o b \o c \in Seq(S)
    BY <1>1, <1>2, Together
  <2> QED
    BY <1>2, <2>1, Together
<1> HIDE DEF p
<1>6. /\ p \o e \in Seq(S) /\ Len(p \o e) = Len(p) + Len(e)
      /\ \A n \in 1 .. Len(e) : (p \o e)[Len(p) + n] = e[n]
  BY <1>3, <1>5, PartsOf
<1>7. (p \o e)[Len(p \o e)] = e[1]
  BY <1>3, <1>6
<1>8. ForceClose \in Seq(OfClose)
  <2>1. OfClose \ Deferred \subseteq OfClose
    OBVIOUS
  <2> QED
    BY <2>1, ForceCloseIs, Larger
<1> QED
  BY <1>3, <1>4, <1>7, <1>8

\* A statement that settles the phase of t is still to be executed when another
\* one is done.
LEMMA SettlesNext ==
  ASSUME NEW a, NEW t, NEW S, todo[a] \in Seq(S), todo[a] # <<>>, NEW q \in Seq(S),
         todo'[a] = q \o Tail(todo[a]), ~Settling(Head(todo[a]), t), Settles(a, t)
  PROVE  Settles(a, t)'
<1>1. PICK n \in DOMAIN todo[a] : Settling(todo[a][n], t)
  BY DEF Settles
<1>2. n # 1
  BY <1>1, FirstIs
<1> DEFINE p == todo[a]
<1>3. \E m \in DOMAIN (q \o Tail(p)) : (q \o Tail(p))[m] = p[n]
  <2> HIDE DEF p
  <2>1. p \in Seq(S) /\ p # <<>> /\ n \in DOMAIN p
    BY DEF p
  <2>2. Waits(S, p, q, n)
    BY <1>2, <2>1 DEF Waits
  <2> QED
    BY <2>2, StaysIn DEF Stays
<1>4. PICK m \in DOMAIN todo'[a] : todo'[a][m] = todo[a][n]
  BY <1>3
<1>5. Settling(todo'[a][m], t)
  BY <1>1, <1>4
<1> QED
  BY <1>5 DEF Settles

\* So it is when the program of the actor is the same.
LEMMA SettlesSame ==
  ASSUME NEW a, NEW t, todo'[a] = todo[a], Settles(a, t)
  PROVE  Settles(a, t)'
  BY DEF Settles, Settling, ListsPhases

\* What a step leaves of a worker and its request.
LEMMA WorkerNext ==
  ASSUME NEW t \in Turns, WorkerInv(t), todo[T(t)] \in Seq(OfRequest), NEW q \in Seq(Brought),
         \/ todo'[T(t)] = todo[T(t)]
         \/ todo[T(t)] # <<>> /\ Head(todo[T(t)]).do # "reap" /\ todo'[T(t)] = q \o Tail(todo[T(t)]),
         \/ worker'[t] = worker[t]
         \/ worker[t] = "running" /\ worker'[t] \in {"dead", "reported"},
         todo'[W(t)] # <<>> => worker'[t] = "running",
         stream'[t].pc = "off" => stream[t].pc = "off",
         <<"phase", t>> \in DOMAIN product' => <<"phase", t>> \in DOMAIN product \/ stream'[t].pc # "off"
  PROVE  WorkerInv(t)'
<1> DEFINE p == todo[T(t)]
           new == todo'[T(t)]
<1>1. /\ RunsOn(p, t)
      /\ (\E n \in DOMAIN p : Spawns(p[n])) => worker[t] = "off"
      /\ ~Orphans /\ worker[t] = "running" => \E n \in DOMAIN p : p[n].do = "reap"
      /\ stream[t].pc = "off" => worker[t] = "off" /\ <<"phase", t>> \notin DOMAIN product
  BY Zenon DEF WorkerInv
<1>2. /\ RunsOn(new, t)
      /\ (\E n \in DOMAIN new : Spawns(new[n])) => \E n \in DOMAIN p : Spawns(p[n])
      /\ (\E n \in DOMAIN p : p[n].do = "reap") => \E n \in DOMAIN new : new[n].do = "reap"
  <2>1. CASE new = p
    BY <1>1, <2>1
  <2>2. CASE p # <<>> /\ Head(p).do # "reap" /\ new = q \o Tail(p)
    <3> HIDE DEF p, new
    <3>0. p \in Seq(OfRequest)
      BY DEF p
    <3>1. /\ RunsOn(q \o Tail(p), t)
          /\ \A n \in DOMAIN (q \o Tail(p)) : Spawns((q \o Tail(p))[n]) =>
              ~Spawns(Head(p)) /\ \E m \in DOMAIN p : Spawns(p[m])
          /\ SaysPhase(Head(p)) \/ Spawns(Head(p)) =>
              \E n \in DOMAIN (q \o Tail(p)) : (q \o Tail(p))[n].do = "reap"
      <4>1. p # <<>> /\ RunsOn(p, t)
        BY <1>1, <2>2
      <4> QED
        BY <3>0, <4>1, RunsOnNext
    <3>2. ASSUME NEW n \in DOMAIN p, p[n].do = "reap"
          PROVE  \E m \in DOMAIN new : new[m].do = "reap"
      <4>1. n # 1
        BY <2>2, <3>0, <3>2, FirstIs
      <4> DEFINE S == OfRequest \cup Brought
      <4>2. p \in Seq(S) /\ q \in Seq(S)
        BY <3>0, Larger
      <4> HIDE DEF S
      <4>3. \E m \in DOMAIN (q \o Tail(p)) : (q \o Tail(p))[m] = p[n]
        <5>1. p # <<>> /\ n \in DOMAIN p
          BY <2>2
        <5>2. Waits(S, p, q, n)
          BY <4>1, <4>2, <5>1 DEF Waits
        <5> QED
          BY <5>2, StaysIn DEF Stays
      <4> QED
        BY <2>2, <3>2, <4>3
    <3>3. new = q \o Tail(p)
      BY <2>2
    <3> QED
      BY <3>1, <3>2, <3>3
  <2> QED
    BY <2>1, <2>2
<1> HIDE DEF p, new
<1>3. (\E n \in DOMAIN new : Spawns(new[n])) => worker'[t] = "off"
  BY <1>1, <1>2
<1>4. ~Orphans /\ worker'[t] = "running" => \E n \in DOMAIN new : new[n].do = "reap"
  BY <1>1, <1>2
<1>5. stream'[t].pc = "off" => worker'[t] = "off" /\ <<"phase", t>> \notin DOMAIN product'
  BY <1>1
<1>6. RunsOn(new, t)
  BY <1>2
<1> QED
  BY <1>3, <1>4, <1>5, <1>6 DEF WorkerInv, new, RunsOn, SaysPhase, Spawns

\* A close still ends by listing the phases when it goes on.
LEMMA ClosesNext ==
  ASSUME CloseLists, NEW S, todo[Closer] \in Seq(S), todo[Closer] # <<>>, NEW q \in Seq(Brought),
         todo'[Closer] = q \o Tail(todo[Closer])
  PROVE  CloseLists'
<1> DEFINE p == todo[Closer]
           r == Tail(p)
           new == q \o r
           All == S \cup Brought
<1> SUFFICES ASSUME NEW n \in DOMAIN new, new[n].do = "insert"
             PROVE  ListsPhases(new[Len(new)])
  BY DEF CloseLists, ListsPhases
<1>1. p \in Seq(All) /\ q \in Seq(All)
  BY Larger
<1>2. /\ r \in Seq(All)
      /\ \A i \in DOMAIN r : i + 1 \in DOMAIN p /\ r[i] = p[i + 1]
  BY <1>1, FirstIs
<1>3. \A s \in Brought : s.do # "insert"
  BY DEF Brought, Deferred, Rewriting, Projecting, Listing
<1>4. \A i \in DOMAIN q : q[i] \in Brought
  OBVIOUS
<1> HIDE DEF p, r, All
<1>5. \/ \E k \in DOMAIN q : new[n] = q[k]
      \/ \E k \in DOMAIN r : new[n] = r[k]
  BY <1>1, <1>2, EveryOf
<1>6. PICK k \in DOMAIN r : new[n] = r[k]
  BY <1>3, <1>4, <1>5
<1>7. k + 1 \in DOMAIN p /\ p[k + 1].do = "insert"
  BY <1>2, <1>6
<1>8. ListsPhases(p[Len(p)])
  BY <1>7 DEF CloseLists, p
<1>9. r # <<>>
  BY <1>6
<1>10. new[Len(new)] = p[Len(p)]
  <2>1. (q \o Tail(p))[Len(q \o Tail(p))] = p[Len(p)]
    <3>1. p # <<>> /\ Tail(p) # <<>>
      BY <1>9 DEF p, r
    <3> QED
      BY <1>1, <3>1, LastStays
  <2> QED
    BY <2>1 DEF r
<1> QED
  BY <1>8, <1>10

\* The parts of the invariant, for each turn.
LEMMA PhaseParts ==
  ASSUME PhaseInv
  PROVE  CloseLists /\ \A t \in Turns : WorkerInv(t) /\ (Streaming(t) => SettledBy(t))
  BY Zenon DEF PhaseInv

\* And the whole, from its parts after a step.
LEMMA PhaseWhole ==
  ASSUME CloseLists', \A t \in Turns : WorkerInv(t)', \A t \in Turns : Streaming(t)' => SettledBy(t)'
  PROVE  PhaseInv'
  BY Zenon DEF PhaseInv

\* An actor goes on, perhaps after what a list or a read brings forth.
LEMMA PhaseMove ==
  ASSUME TypeInv, PhaseInv, NEW a \in Actors, NEW q \in Seq(Brought),
         todo[a] # <<>>, todo'[a] = q \o Tail(todo[a]),
         \A b \in Actors \ {a} : todo'[b] = todo[b],
         Head(todo[a]).do # "reap", UNCHANGED <<worker, stream>>,
         \A t \in Turns : <<"phase", t>> \in DOMAIN product' =>
                            <<"phase", t>> \in DOMAIN product \/ stream[t].pc # "off",
         \A t \in Turns : Streaming(t)' => Streaming(t) \/ Settles(T(t), t)',
         \A t \in Turns : Streaming(t)' /\ Settling(Head(todo[a]), t) =>
                            Settles(a, t)' \/ (a = Repairer /\ Outcomes' = {}),
         \/ Outcomes = {} => Outcomes' = {}
         \/ Orphans
         \/ \A t \in Turns : \E b \in Requests : Settles(b, t)'
  PROVE  PhaseInv'
<1>1. /\ CloseLists
      /\ \A t \in Turns : WorkerInv(t) /\ (Streaming(t) => SettledBy(t))
  BY PhaseParts
<1>2. /\ \A b \in Actors : todo[b] \in Seq(OfActor(b))
      /\ \A t \in Turns : T(t) \in Requests
      /\ \A b \in Requests : b \in Actors
  BY DEF TypeInv, Programs, Requests, Actors
<1>3. CloseLists'
  <2>1. CASE a = Closer
    <3>1. todo[Closer] \in Seq(OfActor(Closer)) /\ todo[Closer] # <<>> /\ todo'[Closer] = q \o Tail(todo[Closer])
      BY <1>2, <2>1
    <3> QED
      BY <1>1, <3>1, ClosesNext
  <2>2. CASE a # Closer
    <3>1. todo'[Closer] = todo[Closer]
      BY <2>2, ActorsAre
    <3> QED
      BY <1>1, <3>1 DEF CloseLists, ListsPhases
  <2> QED
    BY <2>1, <2>2
<1>4. ASSUME NEW t \in Turns
      PROVE  WorkerInv(t)'
  <2>1. /\ T(t) \in Actors /\ W(t) \in Actors /\ T(t) # W(t)
        /\ todo[T(t)] \in Seq(OfRequest)
    BY <1>2, ActorsAre
  <2>2. \/ todo'[T(t)] = todo[T(t)]
        \/ todo[T(t)] # <<>> /\ Head(todo[T(t)]).do # "reap" /\ todo'[T(t)] = q \o Tail(todo[T(t)])
    BY <2>1
  <2>3. todo'[W(t)] # <<>> => worker'[t] = "running"
    <3>1. todo'[W(t)] # <<>> => todo[W(t)] # <<>>
      BY <2>1
    <3>2. todo[W(t)] # <<>> => worker[t] = "running"
      BY <1>1 DEF WorkerInv
    <3> QED
      BY <3>1, <3>2
  <2>4. /\ worker'[t] = worker[t] /\ stream'[t] = stream[t]
        /\ <<"phase", t>> \in DOMAIN product' => <<"phase", t>> \in DOMAIN product \/ stream'[t].pc # "off"
    BY Zenon
  <2>5. WorkerInv(t)
    BY <1>1
  <2> QED
    BY <2>1, <2>2, <2>3, <2>4, <2>5, WorkerNext
<1>5. ASSUME NEW b \in Requests, NEW t \in Turns, Settles(b, t), Streaming(t)'
      PROVE  Settles(b, t)' \/ (b = Repairer /\ Outcomes' = {})
  <2>1. CASE b # a
    <3>1. todo'[b] = todo[b]
      BY <1>2, <2>1
    <3> QED
      BY <1>5, <3>1, SettlesSame
  <2>2. CASE b = a /\ Settling(Head(todo[a]), t)
    BY <1>5, <2>2
  <2>3. CASE b = a /\ ~Settling(Head(todo[a]), t)
    <3> DEFINE S == OfActor(a) \cup Brought
    <3>1. todo[a] \in Seq(S) /\ q \in Seq(S)
      <4>1. todo[a] \in Seq(OfActor(a))
        BY <1>2
      <4> QED
        BY <4>1, Larger
    <3> HIDE DEF S
    <3>2. ~Settling(Head(todo[a]), t) /\ Settles(a, t)
      BY <1>5, <2>3
    <3>3. Settles(a, t)'
      BY <3>1, <3>2, SettlesNext
    <3> QED
      BY <2>3, <3>3
  <2> QED
    BY <2>1, <2>2, <2>3
<1>6. ASSUME NEW t \in Turns, Streaming(t)'
      PROVE  SettledBy(t)'
  <2>1. T(t) \in Requests /\ T(t) # Repairer
    BY <1>2, ActorsAre
  <2>2. CASE Settles(T(t), t)'
    BY <2>2 DEF SettledBy
  <2>3. CASE Streaming(t) /\ Settles(T(t), t)
    <3>1. Settles(T(t), t)'
      BY <1>5, <1>6, <2>1, <2>3
    <3> QED
      BY <3>1 DEF SettledBy
  <2>4. CASE Streaming(t) /\ ~Settles(T(t), t)
    <3>1. /\ stream[t].pc = "lost"
          /\ Orphans \/ Outcomes = {} \/ \E b \in Requests : Settles(b, t)
      BY <1>1, <2>4, Zenon DEF SettledBy
    <3>2. Orphans \/ Outcomes' = {} \/ \E b \in Requests : Settles(b, t)'
      BY <1>5, <1>6, <3>1
    <3>3. stream'[t].pc = "lost"
      BY <3>1
    <3> QED
      BY <3>2, <3>3, Zenon DEF SettledBy
  <2> QED
    BY <1>6, <2>2, <2>3, <2>4
<1> QED
  BY <1>3, <1>4, <1>6, PhaseWhole

\* A step that leaves the requests alone, but for a close that begins or goes on.
LEMMA PhaseWorkers ==
  ASSUME TypeInv, PhaseInv,
         \A t \in Turns : todo'[T(t)] = todo[T(t)], todo'[Repairer] = todo[Repairer],
         \/ todo'[Closer] = todo[Closer]
         \/ todo[Closer] = <<>> /\ todo'[Closer] = ForceClose
         \/ todo[Closer] # <<>> /\ Head(todo[Closer]).do = "kill" /\ todo'[Closer] = Tail(todo[Closer]),
         \A t \in Turns : \/ worker'[t] = worker[t]
                          \/ worker[t] = "running" /\ worker'[t] \in {"dead", "reported"},
         \A t \in Turns : todo'[W(t)] # <<>> => worker'[t] = "running",
         UNCHANGED <<truth, product>>,
         \A t \in Turns : /\ stream'[t].pc = "off" => stream[t].pc = "off"
                          /\ stream[t].pc = "lost" => stream'[t].pc = "lost"
  PROVE  PhaseInv'
<1>1. /\ CloseLists
      /\ \A t \in Turns : WorkerInv(t) /\ (Streaming(t) => SettledBy(t))
  BY PhaseParts
<1>2. /\ \A b \in Actors : todo[b] \in Seq(OfActor(b))
      /\ \A t \in Turns : T(t) \in Requests /\ T(t) \in Actors /\ OfActor(T(t)) = OfRequest
      /\ Closer \in Actors
  BY ActorsAre DEF TypeInv, Programs, Requests
<1>3. todo[Closer] # <<>> /\ todo'[Closer] = Tail(todo[Closer]) =>
        <<>> \in Seq(Brought) /\ todo'[Closer] = <<>> \o Tail(todo[Closer])
  <2> SUFFICES ASSUME todo[Closer] # <<>>, todo'[Closer] = Tail(todo[Closer])
               PROVE  todo'[Closer] = <<>> \o Tail(todo[Closer])
    OBVIOUS
  <2>1. Tail(todo[Closer]) \in Seq(OfActor(Closer))
    BY <1>2, FirstIs
  <2> QED
    BY <2>1, NothingBefore
<1>4. CloseLists'
  <2>1. CASE todo'[Closer] = todo[Closer]
    BY <1>1, <2>1 DEF CloseLists, ListsPhases
  <2>2. CASE todo'[Closer] = ForceClose
    <3>1. ListsPhases(ForceClose[Len(ForceClose)])
      BY CloseEnds
    <3> QED
      BY <2>2, <3>1 DEF CloseLists, ListsPhases
  <2>3. CASE todo[Closer] # <<>> /\ todo'[Closer] = Tail(todo[Closer])
    <3>1. todo[Closer] \in Seq(OfActor(Closer))
      BY <1>2
    <3>2. <<>> \in Seq(Brought) /\ todo'[Closer] = <<>> \o Tail(todo[Closer]) /\ todo[Closer] # <<>>
      BY <1>3, <2>3
    <3> QED
      BY <1>1, <3>1, <3>2, ClosesNext
  <2> QED
    BY <2>1, <2>2, <2>3
<1>5. ASSUME NEW t \in Turns
      PROVE  WorkerInv(t)'
  <2>1. /\ todo[T(t)] \in Seq(OfRequest) /\ <<>> \in Seq(Brought)
        /\ todo'[T(t)] = todo[T(t)]
    BY <1>2
  <2>2. /\ \/ worker'[t] = worker[t]
           \/ worker[t] = "running" /\ worker'[t] \in {"dead", "reported"}
        /\ todo'[W(t)] # <<>> => worker'[t] = "running"
        /\ stream'[t].pc = "off" => stream[t].pc = "off"
        /\ <<"phase", t>> \in DOMAIN product' => <<"phase", t>> \in DOMAIN product
    BY Zenon
  <2>3. WorkerInv(t)
    BY <1>1
  <2> QED
    BY <2>1, <2>2, <2>3, WorkerNext
<1>6. ASSUME NEW b \in Requests, NEW t \in Turns, Settles(b, t)
      PROVE  Settles(b, t)'
  <2>1. CASE todo'[b] = todo[b]
    BY <1>6, <2>1, SettlesSame
  <2>2. CASE b = Closer /\ todo[Closer] = <<>>
    BY <1>6, <2>2 DEF Settles
  <2>3. CASE b = Closer /\ todo[Closer] # <<>> /\ Head(todo[Closer]).do = "kill"
             /\ todo'[Closer] = Tail(todo[Closer])
    <3>1. ~Settling(Head(todo[Closer]), t)
      BY <2>3 DEF Settling, ListsPhases
    <3>2. todo[Closer] \in Seq(OfActor(Closer)) /\ <<>> \in Seq(OfActor(Closer))
      BY <1>2
    <3>3. Settles(Closer, t)
      BY <1>6, <2>3
    <3>4. Settles(Closer, t)'
      BY <1>3, <2>3, <3>1, <3>2, <3>3, SettlesNext
    <3> QED
      BY <2>3, <3>4
  <2> QED
    BY <2>1, <2>2, <2>3 DEF Requests
<1>7. ASSUME NEW t \in Turns, Streaming(t)'
      PROVE  SettledBy(t)'
  <2>1. Streaming(t)
    BY <1>7 DEF Streaming
  <2>2. Outcomes' = Outcomes
    BY DEF Outcomes
  <2>3. CASE Settles(T(t), t)
    <3>1. Settles(T(t), t)'
      BY <1>2, <1>6, <2>3
    <3> QED
      BY <3>1 DEF SettledBy
  <2>4. CASE ~Settles(T(t), t)
    <3>1. /\ stream[t].pc = "lost"
          /\ Orphans \/ Outcomes = {} \/ \E b \in Requests : Settles(b, t)
      BY <1>1, <2>1, <2>4, Zenon DEF SettledBy
    <3>2. Orphans \/ Outcomes' = {} \/ \E b \in Requests : Settles(b, t)'
      BY <1>6, <2>2, <3>1
    <3>3. stream'[t].pc = "lost"
      BY <3>1
    <3> QED
      BY <3>2, <3>3, Zenon DEF SettledBy
  <2> QED
    BY <2>3, <2>4
<1> QED
  BY <1>4, <1>5, <1>7, PhaseWhole

\* A request goes over to what comes after the result, or to taking it back.
LEMMA PhaseReplace ==
  ASSUME TypeInv, PhaseInv, NEW t \in Turns, NEW p \in Seq(LaterOf(t)),
         todo' = [todo EXCEPT ![T(t)] = p],
         \E n \in DOMAIN p : p[n].do = "check" \/ ListsPhases(p[n]),
         Orphans \/ worker[t] # "running",
         UNCHANGED <<truth, product, worker, stream>>
  PROVE  PhaseInv'
<1>1. /\ CloseLists
      /\ \A u \in Turns : WorkerInv(u) /\ (Streaming(u) => SettledBy(u))
  BY PhaseParts
<1>2. /\ todo'[T(t)] = p /\ \A b \in Actors \ {T(t)} : todo'[b] = todo[b]
      /\ \A b \in Actors : todo[b] \in Seq(OfActor(b))
  <2>1. p \in Seq(OfActor(T(t))) /\ T(t) \in Actors
    <3>1. LaterOf(t) \subseteq OfRequest
      BY DEF LaterOf
    <3> QED
      BY <3>1, ActorsAre, Larger
  <2>2. Programs(todo)
    BY DEF TypeInv
  <2>3. /\ todo'[T(t)] = p /\ \A b \in Actors \ {T(t)} : todo'[b] = todo[b]
    BY <2>1, <2>2, Becomes
  <2> QED
    BY <2>2, <2>3 DEF Programs
<1>3. \A u \in Turns : /\ T(u) \in Requests /\ T(u) \in Actors /\ W(u) \in Actors /\ W(u) # T(t)
                       /\ OfActor(T(u)) = OfRequest /\ T(u) # Closer /\ (u # t => T(u) # T(t))
  BY ActorsAre DEF Requests
<1>4. Closer \in Actors /\ \A b \in Requests : b \in Actors
  BY DEF Requests, Actors
<1>5. CloseLists'
  <2>1. todo'[Closer] = todo[Closer]
    BY <1>2, <1>3, <1>4
  <2> QED
    BY <1>1, <2>1 DEF CloseLists, ListsPhases
<1>6. ASSUME NEW u \in Turns
      PROVE  Settles(T(t), u)'
  BY <1>2 DEF Settles, Settling, ListsPhases
<1>7. ASSUME NEW u \in Turns
      PROVE  WorkerInv(u)'
  <2>1. CASE u = t
    <3>1. RunsOn(p, t) /\ \A n \in DOMAIN p : ~Spawns(p[n]) /\ p[n].do # "reap"
      BY LaterRunsOn
    <3>2. RunsOn(p, t)'
      BY <3>1 DEF RunsOn, SaysPhase, Spawns
    <3>3. todo'[W(t)] = todo[W(t)]
      BY <1>2, <1>3
    <3>4. /\ todo[W(t)] # <<>> => worker[t] = "running"
          /\ stream[t].pc = "off" => worker[t] = "off" /\ <<"phase", t>> \notin DOMAIN product
      BY <1>1, Zenon DEF WorkerInv
    <3>5. RunsOn(todo[T(t)], t)'
      BY <1>2, <3>1 DEF RunsOn, SaysPhase, Spawns
    <3>6. /\ (\E n \in DOMAIN todo'[T(t)] : Spawns(todo'[T(t)][n])) => worker'[t] = "off"
          /\ ~Orphans /\ worker'[t] = "running" =>
               \E n \in DOMAIN todo'[T(t)] : todo'[T(t)][n].do = "reap"
      BY <1>2, <3>1
    <3>7. /\ todo'[W(t)] # <<>> => worker'[t] = "running"
          /\ stream'[t].pc = "off" => worker'[t] = "off" /\ <<"phase", t>> \notin DOMAIN product'
      BY <3>3, <3>4
    <3> QED
      BY <2>1, <3>5, <3>6, <3>7 DEF WorkerInv, Spawns
  <2>2. CASE u # t
    <3>1. todo'[T(u)] = todo[T(u)] /\ todo'[W(u)] = todo[W(u)]
      BY <1>2, <1>3, <2>2
    <3>2. todo[T(u)] \in Seq(OfRequest) /\ <<>> \in Seq(Brought)
      BY <1>2, <1>3
    <3>3. WorkerInv(u)
      BY <1>1
    <3>4. /\ worker'[u] = worker[u]
          /\ todo'[W(u)] # <<>> => worker'[u] = "running"
          /\ stream'[u].pc = "off" => stream[u].pc = "off"
          /\ <<"phase", u>> \in DOMAIN product' => <<"phase", u>> \in DOMAIN product
      BY <3>1, <3>3, Zenon DEF WorkerInv
    <3> QED
      BY <3>1, <3>2, <3>3, <3>4, WorkerNext
  <2> QED
    BY <2>1, <2>2
<1>8. ASSUME NEW u \in Turns, Streaming(u)'
      PROVE  SettledBy(u)'
  <2>1. Streaming(u)
    BY <1>8 DEF Streaming
  <2>2. CASE u = t
    BY <1>6, <2>2 DEF SettledBy
  <2>3. CASE u # t /\ Settles(T(u), u)
    <3>1. todo'[T(u)] = todo[T(u)]
      BY <1>2, <1>3, <2>3
    <3>2. Settles(T(u), u)'
      BY <2>3, <3>1, SettlesSame
    <3> QED
      BY <3>2 DEF SettledBy
  <2>4. CASE ~Settles(T(u), u)
    <3>1. stream[u].pc = "lost"
      BY <1>1, <2>1, <2>4, Zenon DEF SettledBy
    <3>2. \E b \in Requests : Settles(b, u)'
      BY <1>3, <1>6
    <3>3. stream'[u].pc = "lost"
      BY <3>1
    <3> QED
      BY <3>2, <3>3, Zenon DEF SettledBy
  <2> QED
    BY <2>2, <2>3, <2>4
<1> QED
  BY <1>5, <1>7, <1>8, PhaseWhole

\* What a message does to the phase of t.
LEMMA PhaseAppend ==
  ASSUME IsProduct(product), IsShard(shard), NEW id, NEW m, Fits(id, m), AppendTo(id, m), NEW t
  PROVE  /\ <<"phase", t>> \in DOMAIN product' => <<"phase", t>> \in DOMAIN product \/ id = <<"phase", t>>
         /\ Streaming(t)' => \/ id # <<"phase", t>> /\ Streaming(t)
                             \/ id = <<"phase", t>> /\ m.status = "streaming"
<1> DEFINE i == <<"phase", t>>
<1>1. CASE product' = product /\ id # i
  BY <1>1 DEF Streaming
<1>2. CASE m \in ProductMessages /\ product' = AppendMessage(product, id, m)
  <2> DEFINE kinds == {"user", "phase"}
  <2>1. id \in DOMAIN product => product[id] \in MessagesOf(kinds)
    BY DEF IsProduct, ProductMessages
  <2>2. m \in MessagesOf(kinds)
    BY <1>2 DEF ProductMessages
  <2> HIDE DEF kinds
  <2>3. /\ DOMAIN AppendMessage(product, id, m) = DOMAIN product \cup {id}
        /\ \A k \in DOMAIN product \ {id} : AppendMessage(product, id, m)[k] = product[k]
        /\ AppendMessage(product, id, m)[id] \in MessagesOf(kinds)
        /\ AppendMessage(product, id, m)[id].kind = m.kind
        /\ AppendMessage(product, id, m)[id].text = m.text
        /\ AppendMessage(product, id, m)[id].status = m.status
        /\ id \in DOMAIN product => AppendMessage(product, id, m)[id].sort = product[id].sort
        /\ id \notin DOMAIN product => AppendMessage(product, id, m)[id] = m
    BY <2>1, <2>2, AppendedIs
  <2>4. /\ DOMAIN product' = DOMAIN product \cup {id}
        /\ \A k \in DOMAIN product \ {id} : product'[k] = product[k]
        /\ product'[id].status = m.status
    BY <1>2, <2>3
  <2> QED
    BY <2>4 DEF Streaming
<1>3. \/ product' = product /\ id # i
      \/ m \in ProductMessages /\ product' = AppendMessage(product, id, m)
  <2>1. CASE m.kind \in InShard
    <3>1. product' = product /\ m \notin ProductMessages
      BY <2>1, KindsApart DEF AppendTo
    <3>2. id \in ShardIds
      BY <3>1 DEF Fits
    <3>3. id # i
      BY <3>2, KindsApart
    <3> QED
      BY <3>1, <3>3
  <2>2. CASE m.kind \notin InShard
    <3>1. product' = AppendMessage(product, id, m) /\ m \notin ShardMessages
      BY <2>2, KindsApart DEF AppendTo
    <3> QED
      BY <3>1 DEF Fits
  <2> QED
    BY <2>1, <2>2
<1> QED
  BY <1>1, <1>2, <1>3

\* An actor goes on past a statement that settles no phase.
LEMMA PhaseDone ==
  ASSUME TypeInv, PhaseInv, NEW a \in Actors, todo[a] # <<>>, Done(a),
         Head(todo[a]).do \notin {"reap", "check", "read", "list"}, UNCHANGED <<worker, stream>>,
         \A t \in Turns : <<"phase", t>> \in DOMAIN product' =>
                            <<"phase", t>> \in DOMAIN product \/ stream[t].pc # "off",
         \A t \in Turns : Streaming(t)' => Streaming(t) \/ Settles(T(t), t)',
         \A t \in Turns : Streaming(t)' /\ Head(todo[a]).do = "rewrite" => Head(todo[a]).id # <<"phase", t>>,
         \/ Outcomes = {} => Outcomes' = {}
         \/ Orphans
         \/ \A t \in Turns : \E b \in Requests : Settles(b, t)'
  PROVE  PhaseInv'
<1>1. Programs(todo)
  BY DEF TypeInv
<1>2. todo'[a] = Tail(todo[a]) /\ \A b \in Actors \ {a} : todo'[b] = todo[b]
  BY <1>1, DoneIs
<1>3. Tail(todo[a]) \in Seq(OfActor(a))
  BY <1>1, FirstIs DEF Programs
<1>4. <<>> \in Seq(Brought) /\ todo'[a] = <<>> \o Tail(todo[a])
  BY <1>2, <1>3, NothingBefore
<1>5. \A t \in Turns : Streaming(t)' => ~Settling(Head(todo[a]), t)
  BY DEF Settling, ListsPhases
<1>6. \A t \in Turns : Streaming(t)' /\ Settling(Head(todo[a]), t) =>
                            Settles(a, t)' \/ (a = Repairer /\ Outcomes' = {})
  BY <1>5
<1>7. Head(todo[a]).do # "reap"
  OBVIOUS
<1> QED
  BY <1>2, <1>4, <1>6, <1>7, PhaseMove

\* What concerns neither the feed nor the log.
LEMMA PhaseQuiet ==
  ASSUME TypeInv, PhaseInv,
         \/ \E a \in Actors : SelectMax(a)
         \/ \E t \in Turns : QueueRun(t) \/ SetRunStatus(t)
         \/ FlagRuns
  PROVE  PhaseInv'
<1>1. PICK a \in Actors : /\ todo[a] # <<>> /\ Done(a) /\ Head(todo[a]).do \in {"max", "queue", "run", "flag"}
                          /\ UNCHANGED <<worker, stream, product, truth>>
  <2>1. CASE \E a \in Actors : SelectMax(a)
    BY <2>1 DEF SelectMax, Doing, work, feed
  <2>2. CASE \E t \in Turns : QueueRun(t) \/ SetRunStatus(t)
    BY <2>2, ActorsAre DEF QueueRun, SetRunStatus, Doing, work, feed, log
  <2>3. CASE FlagRuns
    BY <2>3, ActorsAre DEF FlagRuns, Doing, work, feed, log
  <2> QED
    BY <2>1, <2>2, <2>3
<1>2. /\ Head(todo[a]).do \notin {"reap", "check", "read", "list"}
      /\ Head(todo[a]).do # "rewrite"
  BY <1>1
<1>3. \A t \in Turns : Streaming(t)' => Streaming(t)
  BY <1>1 DEF Streaming
<1>4. Outcomes' = Outcomes
  BY <1>1 DEF Outcomes
<1> QED
  BY <1>1, <1>2, <1>3, <1>4, PhaseDone

\* When an event is written, somebody is still to settle the phases, or the writer
\* is a worker whose server is gone.
LEMMA PhaseInsert ==
  ASSUME TypeInv, PhaseInv, NEW a \in Actors, Insert(a)
  PROVE  PhaseInv'
<1>1. todo[a] # <<>> /\ Done(a) /\ Head(todo[a]).do = "insert" /\ UNCHANGED <<worker, stream, product>>
  BY DEF Insert, Doing, work, feed
<1>2. Programs(todo) /\ todo[a] \in Seq(OfActor(a))
  BY DEF TypeInv, Programs
<1>3. /\ todo'[a] = Tail(todo[a]) /\ \A b \in Actors \ {a} : todo'[b] = todo[b]
  BY <1>1, <1>2, DoneIs
<1>4. /\ Head(todo[a]) = todo[a][1] /\ 1 \in DOMAIN todo[a] /\ Head(todo[a]) \in OfActor(a)
      /\ Tail(todo[a]) \in Seq(OfActor(a))
      /\ Len(todo[a]) \in Nat \ {0} /\ DOMAIN todo[a] = 1 .. Len(todo[a])
  BY <1>1, <1>2, FirstIs
<1>5. Orphans \/ \A t \in Turns : \E b \in Requests : Settles(b, t)'
  <2>1. CASE \E u \in Turns : a = W(u)
    <3>1. PICK u \in Turns : a = W(u)
      BY <2>1
    <3>2. WorkerInv(u)
      BY PhaseParts
    <3>3. ~Orphans => \E n \in DOMAIN todo[T(u)] : todo[T(u)][n].do = "reap"
      BY <1>1, <3>1, <3>2, Zenon DEF WorkerInv
    <3>4. todo'[T(u)] = todo[T(u)] /\ T(u) \in Requests
      BY <1>3, <3>1, ActorsAre DEF Requests
    <3>5. ~Orphans => \A t \in Turns : Settles(T(u), t)'
      BY <3>3, <3>4 DEF Settles, Settling
    <3> QED
      BY <3>4, <3>5
  <2>2. CASE a = Closer
    <3> DEFINE p == todo[Closer]
               n == Len(p)
    <3>1. 1 \in DOMAIN p /\ p[1].do = "insert" /\ n \in DOMAIN p
      BY <1>1, <1>4, <2>2
    <3>2. ListsPhases(p[n])
      BY <3>1, PhaseParts DEF CloseLists
    <3>3. n # 1
      BY <3>1, <3>2 DEF ListsPhases
    <3>4. p \in Seq(OfClose) /\ p # <<>> /\ <<>> \in Seq(OfClose)
      BY <1>1, <1>2, <2>2, ActorsAre
    <3>5. Tail(p) \in Seq(OfClose)
      BY <3>4, FirstIs
    <3> HIDE DEF p, n
    <3>6. \E m \in DOMAIN (<<>> \o Tail(p)) : (<<>> \o Tail(p))[m] = p[n]
      <4>1. Waits(OfClose, p, <<>>, n)
        BY <3>1, <3>3, <3>4 DEF Waits
      <4> QED
        BY <4>1, StaysIn DEF Stays
    <3>7. <<>> \o Tail(p) = Tail(p)
      BY <3>5, NothingBefore
    <3>8. todo'[Closer] = Tail(p)
      BY <1>3, <2>2 DEF p
    <3>9. \E m \in DOMAIN todo'[Closer] : todo'[Closer][m] = p[n]
      BY <3>6, <3>7, <3>8
    <3>10. \A t \in Turns : Settles(Closer, t)'
      BY <3>2, <3>9 DEF Settles, Settling, ListsPhases
    <3> QED
      BY <3>10 DEF Requests
  <2> QED
    BY <1>1, <1>4, <2>1, <2>2, StatementIs
<1>6. \A t \in Turns : Streaming(t)' => Streaming(t)
  BY <1>1 DEF Streaming
<1>7. Head(todo[a]).do \notin {"reap", "check", "read", "list"} /\ Head(todo[a]).do # "rewrite"
  BY <1>1
<1> QED
  BY <1>1, <1>5, <1>6, <1>7, PhaseDone

\* A projected event is not a phase.
LEMMA PhaseProject ==
  ASSUME TypeInv, PhaseInv, NEW a \in Actors, ProjectEvent(a)
  PROVE  PhaseInv'
<1> DEFINE s == Head(todo[a])
           id == <<"evt", s.event.seq>>
           m == Message(s.event.type, "completed", s.event.text, s.event.at)
<1>1. \/ AppendTo(id, m) /\ Fits(id, m)
      \/ UNCHANGED feed
  BY ProjectedIs
<1>2. todo[a] # <<>> /\ Done(a) /\ s.do = "project" /\ UNCHANGED <<truth, worker, stream>>
  BY DEF ProjectEvent, Doing, log, work
<1>3. \A t \in Turns : id # <<"phase", t>>
  OBVIOUS
<1>4. IsProduct(product) /\ IsShard(shard)
  BY DEF TypeInv
<1>5. ASSUME NEW t \in Turns
      PROVE  /\ <<"phase", t>> \in DOMAIN product' => <<"phase", t>> \in DOMAIN product
             /\ Streaming(t)' => Streaming(t)
  <2>1. CASE UNCHANGED feed
    BY <2>1 DEF feed, Streaming
  <2>2. CASE AppendTo(id, m) /\ Fits(id, m)
    <3>1. id # <<"phase", t>>
      BY <1>3
    <3> HIDE DEF id, m
    <3>2. /\ <<"phase", t>> \in DOMAIN product' => <<"phase", t>> \in DOMAIN product \/ id = <<"phase", t>>
          /\ Streaming(t)' => \/ id # <<"phase", t>> /\ Streaming(t)
                              \/ id = <<"phase", t>> /\ m.status = "streaming"
      BY <1>4, <2>2, PhaseAppend
    <3> QED
      BY <3>1, <3>2
  <2> QED
    BY <1>1, <2>1, <2>2
<1>6. Outcomes' = Outcomes
  BY <1>2 DEF Outcomes
<1>7. Head(todo[a]).do \notin {"reap", "check", "read", "list"} /\ Head(todo[a]).do # "rewrite"
  BY <1>2
<1> QED
  BY <1>2, <1>5, <1>6, <1>7, PhaseDone

\* A request that begins the phase of its turn is to take the result.
LEMMA PhaseSaid ==
  ASSUME TypeInv, ClosedInv, PhaseInv, NEW a \in Actors, SayMessage(a)
  PROVE  PhaseInv'
<1> DEFINE s == Head(todo[a])
<1>1. todo[a] # <<>> /\ Done(a) /\ s.do = "say" /\ UNCHANGED <<truth, worker, stream>>
  BY DEF SayMessage, Doing, log, work
<1>2. Programs(todo) /\ todo[a] \in Seq(OfActor(a)) /\ IsProduct(product) /\ IsShard(shard)
  BY DEF TypeInv, Programs
<1>3. s \in OfActor(a) /\ s = todo[a][1] /\ 1 \in DOMAIN todo[a] /\ Tail(todo[a]) \in Seq(OfActor(a))
  BY <1>1, <1>2, FirstIs
<1>4. PICK u \in Turns : a = T(u)
  <2>1. \A x \in OfWorker \cup OfClose \cup OfRepair : x.do # "say"
    BY DEF OfWorker, OfClose, OfRepair, Listing, Rewriting, Projecting
  <2>2. (\E u \in Turns : a = T(u)) \/ OfActor(a) \in {OfWorker, OfClose, OfRepair}
    BY EveryActor, ActorsAre
  <2> QED
    BY <1>1, <1>3, <2>1, <2>2
<1>5. /\ RunsOn(todo[a], u) /\ todo[a] \in Seq(OfRequest)
      /\ stream[u].pc # "off"
  <2>1. WorkerInv(u) /\ ClosedOf(u)
    BY PhaseParts DEF ClosedInv
  <2>2. RunsOn(todo[T(u)], u)
    BY <2>1, Zenon DEF WorkerInv
  <2>3. todo[T(u)] # <<>> => stream[u].pc # "off"
    BY <2>1 DEF ClosedOf
  <2> QED
    BY <1>1, <1>2, <1>4, <2>2, <2>3, ActorsAre
<1>6. s.id[2] = u /\ s \in Saying /\ s.id[1] = s.kind
  <2>1. s.id[2] = u
    BY <1>1, <1>3, <1>5 DEF RunsOn
  <2> QED
    BY <1>1, <1>3, <2>1, StatementIs
<1>7. todo'[a] = <<>> \o Tail(todo[a]) /\ <<>> \in Seq(Brought)
  <2>1. todo'[a] = Tail(todo[a])
    BY <1>1, <1>2, DoneIs
  <2> QED
    BY <1>3, <2>1, NothingBefore
<1>8. SaysPhase(s) => \A t : Settles(T(u), t)'
  <2> DEFINE p == todo[a]
             q == <<>>
  <2>1. p \in Seq(OfRequest) /\ p # <<>> /\ RunsOn(p, u) /\ q \in Seq(Brought)
    BY <1>1, <1>5
  <2> HIDE DEF p, q
  <2>2. /\ RunsOn(q \o Tail(p), u)
        /\ \A n \in DOMAIN (q \o Tail(p)) : Spawns((q \o Tail(p))[n]) =>
              ~Spawns(Head(p)) /\ \E m \in DOMAIN p : Spawns(p[m])
        /\ SaysPhase(Head(p)) \/ Spawns(Head(p)) =>
              \E n \in DOMAIN (q \o Tail(p)) : (q \o Tail(p))[n].do = "reap"
    BY <2>1, RunsOnNext
  <2>3. todo'[a] = q \o Tail(p)
    BY <1>7 DEF p, q
  <2>4. SaysPhase(s) => \E n \in DOMAIN todo'[a] : todo'[a][n].do = "reap"
    BY <2>2, <2>3 DEF p
  <2> QED
    BY <1>4, <2>4 DEF Settles, Settling
<1>9. PICK id, m : /\ Fits(id, m) /\ ~IsEvt(id) /\ AppendTo(id, m) /\ m.sort = clock + 1
                   /\ id = Head(todo[a]).id /\ m.kind = Head(todo[a]).kind
                   /\ m.status = Head(todo[a]).status /\ m.text = Text(a[2], m.kind)
  BY SaidIs
<1>10. ASSUME NEW t \in Turns
       PROVE  /\ <<"phase", t>> \in DOMAIN product' =>
                            <<"phase", t>> \in DOMAIN product \/ stream[t].pc # "off"
              /\ Streaming(t)' => Streaming(t) \/ Settles(T(t), t)'
  <2>1. /\ <<"phase", t>> \in DOMAIN product' => <<"phase", t>> \in DOMAIN product \/ id = <<"phase", t>>
        /\ Streaming(t)' => \/ id # <<"phase", t>> /\ Streaming(t)
                            \/ id = <<"phase", t>> /\ m.status = "streaming"
    BY <1>2, <1>9, PhaseAppend
  <2>2. id = <<"phase", t>> => u = t /\ SaysPhase(s)
    <3> SUFFICES ASSUME id = <<"phase", t>>
                 PROVE  u = t /\ SaysPhase(s)
      OBVIOUS
    <3>1. s.id = <<"phase", t>>
      BY <1>9
    <3> QED
      BY <1>1, <1>6, <3>1 DEF SaysPhase
  <2> QED
    BY <1>5, <1>8, <2>1, <2>2
<1>11. Outcomes' = Outcomes
  BY <1>1 DEF Outcomes
<1>12. Head(todo[a]).do \notin {"reap", "check", "read", "list"} /\ Head(todo[a]).do # "rewrite"
  BY <1>1
<1> QED
  BY <1>1, <1>10, <1>11, <1>12, PhaseDone

\* A phase that is rewritten is settled.
LEMMA PhaseRewritten ==
  ASSUME TypeInv, OrderInv, PhaseInv, NEW a \in Actors, RewriteMessage(a)
  PROVE  PhaseInv'
<1> DEFINE s == Head(todo[a])
<1>1. todo[a] # <<>> /\ Done(a) /\ s.do = "rewrite" /\ UNCHANGED <<truth, worker, stream>>
  BY DEF RewriteMessage, Doing, log, work
<1>2. /\ IsProduct(product) /\ IsShard(shard) /\ todo[a] \in Seq(OfActor(a))
  BY DEF TypeInv, Programs
<1>3. s \in OfActor(a) /\ s = todo[a][1] /\ 1 \in DOMAIN todo[a]
  BY <1>1, <1>2, FirstIs
<1>4. s \in Rewriting
  BY <1>1, <1>3, StatementIs
<1>5. s.m.status # "streaming"
  BY <1>4 DEF Rewriting, Settled
<1>6. s.id \in DOMAIN Store
  BY <1>1, <1>3 DEF OrderInv, BackedInv, Backed
<1>7. PICK id, m : /\ Fits(id, m) /\ AppendTo(id, m)
                   /\ id = Head(todo[a]).id /\ m.kind = Head(todo[a]).m.kind
                   /\ m.status = Head(todo[a]).m.status /\ m.text = Head(todo[a]).m.text
                   /\ Head(todo[a]).do = "rewrite"
  BY RewrittenIs
<1>8. DOMAIN Store = DOMAIN product \cup DOMAIN shard
  BY <1>2, MergedIs DEF Store
<1>9. ASSUME NEW t \in Turns
      PROVE  /\ <<"phase", t>> \in DOMAIN product' => <<"phase", t>> \in DOMAIN product
             /\ Streaming(t)' => Streaming(t) /\ s.id # <<"phase", t>>
  <2>1. /\ <<"phase", t>> \in DOMAIN product' => <<"phase", t>> \in DOMAIN product \/ id = <<"phase", t>>
        /\ Streaming(t)' => \/ id # <<"phase", t>> /\ Streaming(t)
                            \/ id = <<"phase", t>> /\ m.status = "streaming"
    BY <1>2, <1>7, PhaseAppend
  <2>2. id = <<"phase", t>> => <<"phase", t>> \in DOMAIN product
    <3>1. <<"phase", t>> \notin DOMAIN shard
      <4>1. <<"phase", t>> \notin ShardIds
        BY KindsApart
      <4> QED
        BY <1>2, <4>1 DEF IsShard
    <3> QED
      BY <1>6, <1>7, <1>8, <3>1
  <2>3. m.status # "streaming" /\ id = s.id
    BY <1>5, <1>7
  <2> QED
    BY <2>1, <2>2, <2>3
<1>10. Outcomes' = Outcomes
  BY <1>1 DEF Outcomes
<1>11. Head(todo[a]).do \notin {"reap", "check", "read", "list"}
  BY <1>1
<1> QED
  BY <1>1, <1>9, <1>10, <1>11, PhaseDone

\* A list of the phases is followed by a rewrite of each.
LEMMA PhaseListed ==
  ASSUME TypeInv, OrderInv, PhaseInv, NEW a \in Actors, ListMessages(a)
  PROVE  PhaseInv'
<1>1. todo[a] # <<>> /\ Head(todo[a]).do = "list" /\ UNCHANGED <<truth, product, worker, stream>>
  BY DEF ListMessages, Doing, log, feed, work
<1>2. TimesInv /\ SortsInv /\ IsProduct(product) /\ IsShard(shard) /\ Tail(todo[a]) \in Seq(OfActor(a))
  <2>1. todo[a] \in Seq(OfActor(a))
    BY DEF TypeInv, Programs
  <2> QED
    BY <1>1, <2>1, FirstIs DEF OrderInv, TypeInv
<1>3. PICK q \in Seq(Rewriting) :
           /\ Programs(todo') /\ todo'[a] = q \o Tail(todo[a])
           /\ \A b \in Actors \ {a} : todo'[b] = todo[b]
           /\ \A n \in DOMAIN q : /\ q[n].do = "rewrite" /\ q[n].id \in DOMAIN Store
                                  /\ q[n].m = [Store[q[n].id] EXCEPT !.status = Head(todo[a]).status]
                                  /\ q[n].id \in Wanted(Head(todo[a]).kind)
           /\ \A i \in Wanted(Head(todo[a]).kind) : \E n \in DOMAIN q : q[n].id = i
  BY <1>2, ListedTodo, Zenon
<1>4. q \in Seq(Brought)
  <2>1. Rewriting \subseteq Brought
    BY DEF Brought, Deferred
  <2> QED
    BY <2>1, Larger
<1>5. \A t \in Turns : Streaming(t)' => Streaming(t)
  BY <1>1 DEF Streaming
<1>6. ASSUME NEW t \in Turns, Streaming(t)', Settling(Head(todo[a]), t)
      PROVE  Settles(a, t)'
  <2>1. Head(todo[a]).kind = "phase"
    BY <1>1, <1>6 DEF Settling, ListsPhases
  <2>2. <<"phase", t>> \in Wanted(Head(todo[a]).kind)
    <3>1. <<"phase", t>> \in DOMAIN product
      BY <1>5, <1>6 DEF Streaming
    <3>2. Store[<<"phase", t>>] = product[<<"phase", t>>]
      <4>1. /\ DOMAIN Merged(product, shard) = DOMAIN product \cup DOMAIN shard
            /\ IsFiniteSet(DOMAIN Merged(product, shard))
            /\ \A i \in DOMAIN product : i \notin DOMAIN shard /\ Merged(product, shard)[i] = product[i]
            /\ \A i \in DOMAIN shard : i \notin DOMAIN product /\ Merged(product, shard)[i] = shard[i]
            /\ \A i \in DOMAIN Merged(product, shard) :
                 Merged(product, shard)[i] \in ProductMessages \cup ShardMessages
        BY <1>2, MergedIs
      <4> QED
        BY <3>1, <4>1 DEF Store
    <3>3. product[<<"phase", t>>].kind = "phase"
      BY <1>2, <3>1 DEF IsProduct
    <3> QED
      BY <2>1, <3>1, <3>2, <3>3 DEF Wanted
  <2>3. PICK n \in DOMAIN q : q[n].id = <<"phase", t>>
    BY <1>3, <2>2
  <2>4. q[n].do = "rewrite"
    BY <1>3
  <2> DEFINE S == OfActor(a) \cup Rewriting
             r == Tail(todo[a])
  <2>5. q \in Seq(S) /\ r \in Seq(S)
    BY <1>2, Larger
  <2>6. n \in DOMAIN (q \o r) /\ (q \o r)[n] = q[n]
    <3> HIDE DEF S, r
    <3> QED
      BY <2>5, Leads
  <2>7. n \in DOMAIN todo'[a] /\ todo'[a][n] = q[n]
    BY <1>3, <2>6
  <2> QED
    BY <2>3, <2>4, <2>7 DEF Settles, Settling
<1>7. Outcomes' = Outcomes
  BY <1>1 DEF Outcomes
<1>8. Head(todo[a]).do # "reap"
  BY <1>1
<1> QED
  BY <1>1, <1>3, <1>4, <1>5, <1>6, <1>7, <1>8, PhaseMove

\* What is projected settles nothing.
LEMMA PhaseProjected ==
  ASSUME TypeInv, OrderInv, PhaseInv, ProjectOwn \/ \E t \in Turns : Snapshot(t)
  PROVE  PhaseInv'
<1>1. PICK a \in Actors, q \in Seq(Projecting) :
        /\ todo[a] # <<>> /\ Head(todo[a]).do \in {"own", "snapshot"} /\ Expand(a, q)
        /\ a = Closer \/ \E t \in Turns : a = T(t)
        /\ UNCHANGED <<truth, product, worker, stream>>
  <2>1. CASE ProjectOwn
    <3> DEFINE es == << Latest(CloseEvents) >>
               q == Project(es, FALSE)
    <3>1. es \in Seq(Entries)
      <4>1. Latest(CloseEvents) \in Entries
        BY <2>1, OwnIs DEF ProjectOwn, OrderInv
      <4> QED
        BY <4>1, OneStep
    <3>2. q \in Seq(Projecting)
      <4> HIDE DEF es
      <4> QED
        BY <3>1, ProjectIs
    <3>3. Expand(Closer, q) /\ Doing(Closer, "own") /\ UNCHANGED <<truth, product, worker, stream>>
      BY <2>1 DEF ProjectOwn, log, feed, work
    <3> HIDE DEF q
    <3> QED
      BY <3>2, <3>3, ActorsAre DEF Doing
  <2>2. CASE \E t \in Turns : Snapshot(t)
    <3>1. PICK t \in Turns : Snapshot(t)
      BY <2>2
    <3> DEFINE es == SubSeq(truth, 1, snap[t])
               q == Project(es, hide[t])
    <3>2. es \in Seq(Entries) /\ hide[t] \in BOOLEAN
      <4>1. truth \in Seq(Entries) /\ snap[t] \in Nat /\ snap[t] <= Len(truth) /\ hide[t] \in BOOLEAN
        BY DEF TypeInv
      <4>2. \A i \in 1 .. snap[t] : truth[i] \in Entries
        BY <4>1
      <4> QED
        BY <4>1, <4>2, SubSeqProperties
    <3>3. q \in Seq(Projecting)
      <4> HIDE DEF es
      <4> QED
        BY <3>2, ProjectIs
    <3>4. Expand(T(t), q) /\ Doing(T(t), "snapshot") /\ UNCHANGED <<truth, product, worker, stream>>
      BY <3>1 DEF Snapshot, log, feed
    <3> HIDE DEF q
    <3> QED
      BY <3>3, <3>4, ActorsAre DEF Doing
  <2> QED
    BY <2>1, <2>2
<1>2. q \in Seq(OfActor(a)) /\ q \in Seq(Brought)
  <2>1. Projecting \subseteq OfClose /\ Projecting \subseteq OfRequest /\ Projecting \subseteq Brought
    BY DEF OfClose, OfRequest, Brought, Deferred
  <2>2. Projecting \subseteq OfActor(a)
    BY <1>1, <2>1, ActorsAre
  <2> QED
    BY <2>1, <2>2, Larger
<1>3. todo'[a] = q \o Tail(todo[a]) /\ \A b \in Actors \ {a} : todo'[b] = todo[b]
  <2>1. Programs(todo)
    BY DEF TypeInv
  <2> QED
    BY <1>1, <1>2, <2>1, ExpandIs
<1>4. \A t \in Turns : Streaming(t)' => Streaming(t)
  BY <1>1 DEF Streaming
<1>5. \A t : ~Settling(Head(todo[a]), t)
  BY <1>1 DEF Settling, ListsPhases
<1>6. Outcomes' = Outcomes
  BY <1>1 DEF Outcomes
<1>7. Head(todo[a]).do # "reap"
  BY <1>1
<1> QED
  BY <1>1, <1>2, <1>3, <1>4, <1>5, <1>6, <1>7, PhaseMove

\* The repair lists the phases once it has read an outcome.
LEMMA PhaseRead ==
  ASSUME TypeInv, PhaseInv, ReadTruth
  PROVE  PhaseInv'
<1>1. todo[Repairer] # <<>> /\ Head(todo[Repairer]).do = "read" /\ UNCHANGED <<truth, product, worker, stream>>
  BY DEF ReadTruth, Doing, log, feed, work
<1>2. truth \in Seq(Entries) /\ Tail(todo[Repairer]) \in Seq(OfRepair) /\ Repairer \in Actors
  <2>1. todo[Repairer] \in Seq(OfRepair)
    BY ActorsAre DEF TypeInv, Programs
  <2> QED
    BY <1>1, <2>1, FirstIs, ActorsAre DEF TypeInv
<1> DEFINE q == Project(truth, FALSE)
<1>3. PICK more \in Seq(OfRepair \ Deferred) :
           /\ q \in Seq(OfRepair) /\ more \in Seq(OfRepair)
           /\ todo'[Repairer] = (q \o more) \o Tail(todo[Repairer])
           /\ Programs(todo') /\ \A b \in Actors \ {Repairer} : todo'[b] = todo[b]
           /\ Outcomes # {} => more = Complete("phase", Verdict[Latest(Outcomes).type])
           /\ Outcomes = {} => more = <<>>
  BY ReadIs, Zenon
<1>4. Outcomes # {} => /\ Len(more) = 1 /\ ListsPhases(more[1]) /\ 1 \in DOMAIN more
                       /\ more \in Seq(Listing({"phase"}))
  <2> SUFFICES ASSUME Outcomes # {}
               PROVE  /\ Len(more) = 1 /\ ListsPhases(more[1]) /\ 1 \in DOMAIN more
                      /\ more \in Seq(Listing({"phase"}))
    OBVIOUS
  <2>1. Outcomes \subseteq DOMAIN truth
    BY DEF Outcomes
  <2>2. PICK i \in Outcomes : Latest(Outcomes) = truth[i]
    BY <1>2, <2>1, LatestIs
  <2> DEFINE x == Verdict[Latest(Outcomes).type]
  <2>3. x \in Settled
    BY <2>2 DEF Outcomes, Verdict, Settled
  <2> HIDE DEF x
  <2>4. /\ Len(Complete("phase", x)) = 1 /\ ListsPhases(Complete("phase", x)[1])
        /\ 1 \in DOMAIN Complete("phase", x)
        /\ \A t : Complete("phase", x) \in Seq(LaterOf(t))
        /\ Complete("phase", x) \in Seq(Listing({"phase"}))
    BY <2>3, PhaseList
  <2>5. more = Complete("phase", x)
    BY <1>3 DEF x
  <2> QED
    BY <2>4, <2>5
<1>5. q \in Seq(Brought)
  <2>1. q \in Seq(Projecting)
    BY <1>2, ProjectIs
  <2>2. Projecting \subseteq Brought
    BY DEF Brought, Deferred
  <2> HIDE DEF q
  <2> QED
    BY <2>1, <2>2, Larger
<1> HIDE DEF q
<1>6. more \in Seq(Brought)
  <2>1. CASE Outcomes = {}
    BY <1>3, <2>1
  <2>2. CASE Outcomes # {}
    <3>1. Listing({"phase"}) \subseteq Brought
      BY DEF Brought
    <3>2. more \in Seq(Listing({"phase"}))
      BY <1>4, <2>2
    <3> QED
      BY <3>1, <3>2, Larger
  <2> QED
    BY <2>1, <2>2
<1>7. q \o more \in Seq(Brought)
  BY <1>5, <1>6, Together
<1>8. Outcomes # {} => \E n \in DOMAIN todo'[Repairer] : ListsPhases(todo'[Repairer][n])
  <2> SUFFICES ASSUME Outcomes # {}
               PROVE  \E n \in DOMAIN todo'[Repairer] : ListsPhases(todo'[Repairer][n])
    OBVIOUS
  <2> DEFINE S == OfRepair \cup Brought
             qm == q \o more
             r == Tail(todo[Repairer])
  <2>1. q \in Seq(S) /\ more \in Seq(S) /\ r \in Seq(S)
    BY <1>2, <1>3, Larger
  <2> HIDE DEF S, r
  <2>2. /\ qm \in Seq(S) /\ Len(q) + 1 \in DOMAIN qm /\ qm[Len(q) + 1] = more[1]
    <3>1. /\ q \o more \in Seq(S) /\ Len(q \o more) = Len(q) + Len(more)
          /\ Len(q) \in Nat /\ Len(more) \in Nat
          /\ DOMAIN (q \o more) = 1 .. Len(q) + Len(more)
          /\ \A n \in 1 .. Len(more) : (q \o more)[Len(q) + n] = more[n]
      BY <2>1, PartsOf
    <3> QED
      BY <1>4, <3>1
  <2> HIDE DEF qm
  <2> DEFINE n == Len(q) + 1
  <2>3. n \in DOMAIN qm /\ qm[n] = more[1]
    BY <2>2
  <2> HIDE DEF n
  <2>4. n \in DOMAIN (qm \o r) /\ (qm \o r)[n] = qm[n]
    BY <2>1, <2>2, <2>3, Leads
  <2>5. todo'[Repairer] = qm \o r
    BY <1>3 DEF qm, r
  <2> QED
    BY <1>4, <2>3, <2>4, <2>5
<1>9. Outcomes' = Outcomes
  BY <1>1 DEF Outcomes
<1>10. \A t \in Turns : Streaming(t)' /\ Settling(Head(todo[Repairer]), t) =>
                            Settles(Repairer, t)' \/ (Repairer = Repairer /\ Outcomes' = {})
  BY <1>8, <1>9 DEF Settles, Settling, ListsPhases
<1>11. \A t \in Turns : Streaming(t)' => Streaming(t)
  BY <1>1 DEF Streaming
<1>12. Head(todo[Repairer]).do # "reap"
  BY <1>1
<1> DEFINE qm == q \o more
<1>13. qm \in Seq(Brought) /\ todo'[Repairer] = qm \o Tail(todo[Repairer])
  BY <1>3, <1>7
<1> HIDE DEF qm
<1> QED
  BY <1>1, <1>2, <1>3, <1>9, <1>10, <1>11, <1>12, <1>13, PhaseMove

\* A request that has the result, or could not have one, goes on to settle the phases.
LEMMA PhaseReplaced ==
  ASSUME TypeInv, PhaseInv, NEW t \in Turns, SpawnFails(t) \/ Reap(t) \/ CheckClosed(t)
  PROVE  PhaseInv'
<1>1. UNCHANGED <<truth, product, worker, stream>> /\ todo[T(t)] # <<>>
  BY DEF SpawnFails, Reap, CheckClosed, Doing, log, feed, work
<1>2. /\ \A n \in DOMAIN todo[T(t)] : Spawns(todo[T(t)][n]) => worker[t] = "off"
      /\ ~Orphans /\ worker[t] = "running" =>
           \E n \in DOMAIN todo[T(t)] : todo[T(t)][n].do = "reap"
      /\ RunsOn(todo[T(t)], t)
  <2>1. WorkerInv(t)
    BY PhaseParts
  <2> QED
    BY <2>1, Zenon DEF WorkerInv
<1>3. Head(todo[T(t)]) = todo[T(t)][1] /\ 1 \in DOMAIN todo[T(t)]
  <2>1. todo[T(t)] \in Seq(OfActor(T(t)))
    BY ActorsAre DEF TypeInv, Programs
  <2> QED
    BY <1>1, <2>1, FirstIs
<1>4. Orphans \/ worker[t] # "running"
  <2>1. CASE SpawnFails(t)
    <3>1. Spawns(todo[T(t)][1])
      BY <1>3, <2>1 DEF SpawnFails, Doing, Spawns
    <3> QED
      BY <1>2, <1>3, <3>1
  <2>2. CASE Reap(t)
    BY <2>2 DEF Reap
  <2>3. CASE CheckClosed(t)
    <3>1. todo[T(t)][1].do = "check"
      BY <1>3, <2>3 DEF CheckClosed, Doing
    <3>2. \A m \in DOMAIN todo[T(t)] : todo[T(t)][m].do # "reap"
      BY <1>2, <1>3, <3>1 DEF RunsOn
    <3> QED
      BY <1>2, <3>2
  <2> QED
    BY <2>1, <2>2, <2>3
<1>5. \E p \in Seq(LaterOf(t)) : /\ todo' = [todo EXCEPT ![T(t)] = p]
                                 /\ \E n \in DOMAIN p : p[n].do = "check" \/ ListsPhases(p[n])
  <2>1. CASE todo' = [todo EXCEPT ![T(t)] = Failed(t)]
    BY <2>1, FailedSettles
  <2>2. CASE todo' = [todo EXCEPT ![T(t)] = Step("check")]
    <3> DEFINE x == [do |-> "check"]
               p == Step("check")
    <3>1. x \in LaterOf(t) /\ x.do = "check"
      BY DEF LaterOf, OfRequest
    <3>2. p = << x >>
      BY DEF Step
    <3>3. p \in Seq(LaterOf(t))
      <4> HIDE DEF x
      <4>1. << x >> \in Seq(LaterOf(t))
        BY <3>1, OneStep
      <4> QED
        BY <3>2, <4>1
    <3>4. 1 \in DOMAIN p /\ p[1] = x
      BY <3>2
    <3> HIDE DEF p
    <3>5. \E n \in DOMAIN p : p[n].do = "check"
      BY <3>1, <3>4
    <3>6. todo' = [todo EXCEPT ![T(t)] = p]
      BY <2>2 DEF p
    <3> QED
      BY <3>3, <3>5, <3>6
  <2>3. CASE todo' = [todo EXCEPT ![T(t)] = Cancelled]
    BY <2>3, CancelledSettles
  <2>4. CASE \E s \in {"completed", "failed"} : todo' = [todo EXCEPT ![T(t)] = Answered(s)]
    BY <2>4, AnsweredSettles
  <2>5. CASE SpawnFails(t)
    BY <2>1, <2>5 DEF SpawnFails, Turn
  <2>6. CASE Reap(t)
    <3>1. \/ todo' = [todo EXCEPT ![T(t)] = Failed(t)]
          \/ todo' = [todo EXCEPT ![T(t)] = Step("check")]
      BY <2>6 DEF Reap, Turn
    <3> QED
      BY <2>1, <2>2, <3>1
  <2>7. CASE CheckClosed(t)
    <3> DEFINE s == IF result[t] = "answered" THEN "completed" ELSE "failed"
    <3>1. todo' = [todo EXCEPT ![T(t)] = IF WasForceClosed(t) THEN Cancelled ELSE Answered(s)]
      BY <2>7 DEF CheckClosed, Turn
    <3>2. s \in {"completed", "failed"}
      OBVIOUS
    <3> HIDE DEF s
    <3> QED
      BY <2>3, <2>4, <3>1, <3>2
  <2> QED
    BY <2>5, <2>6, <2>7
<1>6. PICK p \in Seq(LaterOf(t)) : /\ todo' = [todo EXCEPT ![T(t)] = p]
                                   /\ \E n \in DOMAIN p : p[n].do = "check" \/ ListsPhases(p[n])
  BY <1>5
<1> QED
  BY <1>1, <1>4, <1>6, PhaseReplace

\* The workers, the streams and a close that begins or kills leave the phases to the
\* requests.
LEMMA PhaseWork ==
  ASSUME TypeInv, PhaseInv,
         \/ BeginClose \/ KillWorkers
         \/ \E t \in Turns : \/ Conclude(t) \/ Report(t) \/ WorkerDies(t) \/ Delta(t)
                             \/ LoadProduct(t) \/ LoadShard(t)
         \/ UNCHANGED vars
  PROVE  PhaseInv'
<1>0. DOMAIN todo = Actors /\ DOMAIN stream = Turns /\ DOMAIN worker = Turns
  BY DEF TypeInv, Programs
<1>1. UNCHANGED <<truth, product>>
  <2>1. CASE \E t \in Turns : Delta(t)
    <3>1. PICK t \in Turns : Delta(t)
      BY <2>1
    <3>2. PICK k \in StreamKinds, x \in {Part, answer[t]} :
            AppendTo(<<k, t>>, Message(k, "streaming", x, clock + 1))
      BY <3>1 DEF Delta
    <3>3. Message(k, "streaming", x, clock + 1).kind \in InShard
      BY StreamKindsAssumption DEF Message, InShard
    <3> QED
      BY <3>1, <3>2, <3>3 DEF AppendTo, Delta, log
  <2>2. CASE ~ \E t \in Turns : Delta(t)
    BY <2>2 DEF BeginClose, KillWorkers, Conclude, Report, WorkerDies, LoadProduct, LoadShard, vars, log, feed
  <2> QED
    BY <2>1, <2>2
<1>2. ASSUME NEW t \in Turns
      PROVE  /\ T(t) \in Actors /\ T(t) # Closer /\ T(t) # Repairer
             /\ W(t) \in Actors /\ W(t) # Closer /\ W(t) # Repairer
             /\ \A u \in Turns : T(t) # W(u) /\ (W(t) = W(u) => t = u)
             /\ Closer \in Actors /\ Repairer \in Actors /\ Closer # Repairer
             /\ todo[W(t)] # <<>> => worker[t] = "running"
  <2>1. WorkerInv(t)
    BY PhaseParts
  <2>2. todo[W(t)] # <<>> => worker[t] = "running"
    BY <2>1, Zenon DEF WorkerInv
  <2> QED
    BY <2>2, ActorsAre
<1>3. /\ \A t \in Turns : todo'[T(t)] = todo[T(t)]
      /\ todo'[Repairer] = todo[Repairer]
      /\ \/ todo'[Closer] = todo[Closer]
         \/ todo[Closer] = <<>> /\ todo'[Closer] = ForceClose
         \/ todo[Closer] # <<>> /\ Head(todo[Closer]).do = "kill" /\ todo'[Closer] = Tail(todo[Closer])
  <2>1. CASE BeginClose
    <3>1. todo[Closer] = <<>> /\ todo' = [todo EXCEPT ![Closer] = ForceClose]
      BY <2>1 DEF BeginClose
    <3> QED
      BY <1>0, <1>2, <3>1, ActorsAre
  <2>2. CASE KillWorkers
    <3>1. /\ todo'[Closer] = Tail(todo[Closer])
          /\ \A t \in Turns : todo'[T(t)] = todo[T(t)]
          /\ todo'[Repairer] = todo[Repairer]
      BY <2>2, KilledIs
    <3>2. todo[Closer] # <<>> /\ Head(todo[Closer]).do = "kill"
      BY <2>2 DEF KillWorkers, Doing
    <3> QED
      BY <3>1, <3>2
  <2>3. CASE \E u \in Turns : Conclude(u) \/ WorkerDies(u)
    <3>1. PICK u \in Turns : \E p : todo' = [todo EXCEPT ![W(u)] = p]
      BY <2>3 DEF Conclude, WorkerDies
    <3> QED
      BY <1>0, <1>2, <3>1
  <2>4. CASE \/ \E u \in Turns : Report(u) \/ Delta(u) \/ LoadProduct(u) \/ LoadShard(u)
             \/ UNCHANGED vars
    BY <2>4 DEF Report, Delta, LoadProduct, LoadShard, vars
  <2> QED
    BY <2>1, <2>2, <2>3, <2>4
<1>4. ASSUME NEW t \in Turns
      PROVE  /\ \/ worker'[t] = worker[t]
                \/ worker[t] = "running" /\ worker'[t] \in {"dead", "reported"}
             /\ todo'[W(t)] # <<>> => worker'[t] = "running"
  <2>1. CASE BeginClose
    <3>1. worker' = worker /\ todo' = [todo EXCEPT ![Closer] = ForceClose]
      BY <2>1 DEF BeginClose, work
    <3> QED
      BY <1>0, <1>2, <3>1
  <2>2. CASE KillWorkers
    <3> DEFINE hit == {u \in Turns : worker[u] = "running" /\ Doing(T(u), "reap")}
    <3>1. /\ worker' = [u \in Turns |-> IF u \in hit THEN "dead" ELSE worker[u]]
          /\ todo' = [a \in Actors |-> IF a = Closer THEN Tail(todo[a])
                                     ELSE IF \E u \in hit : a = W(u) THEN <<>> ELSE todo[a]]
      BY <2>2 DEF KillWorkers
    <3>2. t \in hit => todo'[W(t)] = <<>> /\ worker[t] = "running" /\ worker'[t] = "dead"
      BY <1>2, <3>1
    <3>3. t \notin hit => worker'[t] = worker[t] /\ (todo'[W(t)] # <<>> => todo[W(t)] # <<>>)
      BY <1>2, <3>1
    <3> QED
      BY <1>2, <3>2, <3>3
  <2>3. CASE \E u \in Turns : Conclude(u)
    <3>1. PICK u \in Turns : worker[u] = "running" /\ worker' = worker /\ \E p : todo' = [todo EXCEPT ![W(u)] = p]
      BY <2>3 DEF Conclude, Busy
    <3> QED
      BY <1>0, <1>2, <3>1
  <2>4. CASE \E u \in Turns : Report(u)
    <3>1. PICK u \in Turns : /\ worker[u] = "running" /\ todo[W(u)] = <<>> /\ todo' = todo
                             /\ worker' = [worker EXCEPT ![u] = "reported"]
      BY <2>4 DEF Report, Busy
    <3> QED
      BY <1>0, <1>2, <3>1
  <2>5. CASE \E u \in Turns : WorkerDies(u)
    <3>1. PICK u \in Turns : /\ worker[u] = "running" /\ todo' = [todo EXCEPT ![W(u)] = <<>>]
                             /\ worker' = [worker EXCEPT ![u] = "dead"]
      BY <2>5 DEF WorkerDies
    <3> QED
      BY <1>0, <1>2, <3>1
  <2>6. CASE \/ \E u \in Turns : Delta(u) \/ LoadProduct(u) \/ LoadShard(u)
             \/ UNCHANGED vars
    <3>1. todo' = todo /\ worker' = worker
      BY <2>6 DEF Delta, LoadProduct, LoadShard, vars, work
    <3> QED
      BY <1>2, <3>1
  <2> QED
    BY <2>1, <2>2, <2>3, <2>4, <2>5, <2>6
<1>5. ASSUME NEW t \in Turns
      PROVE  /\ stream'[t].pc = "off" => stream[t].pc = "off"
             /\ stream[t].pc = "lost" => stream'[t].pc = "lost"
  <2>1. CASE \E u \in Turns : LoadProduct(u)
    <3>1. PICK u \in Turns : stream[u].pc = "idle" /\ \E x, y :
            stream' = [stream EXCEPT ![u].pc = "loading", ![u].last = x, ![u].page = y]
      BY <2>1 DEF LoadProduct
    <3>2. "pc" \in DOMAIN stream[u]
      BY DEF TypeInv, StreamFields
    <3>3. stream'[u].pc = "loading" /\ \A v \in Turns \ {u} : stream'[v] = stream[v]
      BY <1>0, <3>1, <3>2
    <3> QED
      BY <3>1, <3>3
  <2>2. CASE \E u \in Turns : LoadShard(u)
    <3>1. PICK u \in Turns : LoadShard(u)
      BY <2>2
    <3> DEFINE x == IF stream[u].last THEN "closed" ELSE "idle"
    <3>2. \E y, z : stream' = [stream EXCEPT ![u] = [pc |-> x, after |-> y, page |-> <<>>,
                                                    last |-> FALSE, sent |-> z]]
      BY <3>1, Zenon DEF LoadShard
    <3>3. x # "off" /\ stream[u].pc = "loading"
      BY <3>1 DEF LoadShard
    <3> HIDE DEF x
    <3>4. stream'[u].pc = x /\ \A v \in Turns \ {u} : stream'[v] = stream[v]
      BY <1>0, <3>2
    <3> QED
      BY <3>3, <3>4
  <2>3. CASE UNCHANGED stream
    BY <2>3
  <2>4. \/ \E u \in Turns : LoadProduct(u)
        \/ \E u \in Turns : LoadShard(u)
        \/ UNCHANGED stream
    BY DEF BeginClose, KillWorkers, Conclude, Report, WorkerDies, Delta, vars
  <2> QED
    BY <2>1, <2>2, <2>3, <2>4
<1> QED
  BY <1>1, <1>3, <1>4, <1>5, PhaseWorkers

\* A worker is spawned by a request that is to take its result.
LEMMA PhaseSpawn ==
  ASSUME TypeInv, ClosedInv, PhaseInv, NEW t \in Turns, SpawnWorker(t)
  PROVE  PhaseInv'
<1>0. /\ todo[T(t)] # <<>> /\ Head(todo[T(t)]).do = "spawn" /\ UNCHANGED <<truth, product, stream>>
      /\ worker' = [worker EXCEPT ![t] = "running"]
      /\ todo' = [todo EXCEPT ![T(t)] = Tail(@), ![W(t)] = Log("recorded")]
  BY DEF SpawnWorker, Doing, log, feed
<1>1. /\ CloseLists
      /\ \A u \in Turns : WorkerInv(u) /\ (Streaming(u) => SettledBy(u))
  BY PhaseParts
<1>2. DOMAIN todo = Actors /\ DOMAIN worker = Turns /\ \A b \in Actors : todo[b] \in Seq(OfActor(b))
  BY DEF TypeInv, Programs
<1>3. /\ T(t) \in Actors /\ W(t) \in Actors /\ T(t) # W(t)
      /\ Closer \in Actors /\ Closer # T(t) /\ Closer # W(t)
      /\ \A b \in Requests : b \in Actors /\ b # W(t)
      /\ \A u \in Turns : /\ T(u) \in Requests /\ T(u) \in Actors /\ W(u) \in Actors /\ OfActor(T(u)) = OfRequest
                          /\ u # t => T(u) \notin {T(t), W(t)} /\ W(u) \notin {T(t), W(t)}
  BY ActorsAre DEF Requests, Actors
<1>4. /\ todo'[T(t)] = Tail(todo[T(t)])
      /\ \A b \in Actors \ {T(t), W(t)} : todo'[b] = todo[b]
  BY <1>0, <1>2, <1>3
<1>5. /\ todo[T(t)] \in Seq(OfRequest) /\ Tail(todo[T(t)]) \in Seq(OfRequest)
      /\ todo'[T(t)] = <<>> \o Tail(todo[T(t)]) /\ <<>> \in Seq(Brought)
  <2>1. todo[T(t)] \in Seq(OfRequest)
    BY <1>2, <1>3
  <2>2. Tail(todo[T(t)]) \in Seq(OfRequest)
    BY <1>0, <2>1, FirstIs
  <2> QED
    BY <1>4, <2>1, <2>2, NothingBefore
<1>6. CloseLists'
  <2>1. todo'[Closer] = todo[Closer]
    BY <1>3, <1>4
  <2> QED
    BY <1>1, <2>1 DEF CloseLists, ListsPhases
<1>7. ASSUME NEW u \in Turns
      PROVE  WorkerInv(u)'
  <2>1. CASE u = t
    <3> DEFINE p == todo[T(t)]
               q == <<>>
               new == q \o Tail(p)
    <3>1. RunsOn(p, t) /\ Spawns(Head(p)) /\ p \in Seq(OfRequest) /\ p # <<>> /\ q \in Seq(Brought)
      <4>1. WorkerInv(t)
        BY <1>1
      <4>2. RunsOn(todo[T(t)], t)
        BY <4>1, Zenon DEF WorkerInv
      <4> QED
        BY <1>0, <1>5, <4>2 DEF Spawns
    <3> HIDE DEF p, q
    <3>2. /\ RunsOn(q \o Tail(p), t)
          /\ \A n \in DOMAIN (q \o Tail(p)) : Spawns((q \o Tail(p))[n]) =>
              ~Spawns(Head(p)) /\ \E m \in DOMAIN p : Spawns(p[m])
          /\ SaysPhase(Head(p)) \/ Spawns(Head(p)) =>
              \E n \in DOMAIN (q \o Tail(p)) : (q \o Tail(p))[n].do = "reap"
      BY <3>1, RunsOnNext
    <3>3. todo'[T(t)] = new
      BY <1>5 DEF p, q
    <3>4. /\ RunsOn(new, t) /\ \A n \in DOMAIN new : ~Spawns(new[n])
          /\ \E n \in DOMAIN new : new[n].do = "reap"
      BY <3>1, <3>2
    <3> HIDE DEF new
    <3>5. RunsOn(todo[T(t)], t)'
      BY <3>3, <3>4 DEF RunsOn, SaysPhase, Spawns
    <3>6. stream'[t].pc # "off" /\ worker'[t] = "running"
      <4>1. stream[t].pc # "off"
        BY <1>0 DEF ClosedInv, ClosedOf
      <4> QED
        BY <1>0, <1>2, <4>1
    <3>7. \A n \in DOMAIN todo'[T(t)] : ~Spawns(todo'[T(t)][n])
      BY <3>3, <3>4
    <3>8. \E n \in DOMAIN todo'[T(t)] : todo'[T(t)][n].do = "reap"
      BY <3>3, <3>4
    <3>9. WorkerInv(t)'
      BY <3>5, <3>6, <3>7, <3>8 DEF WorkerInv, Spawns
    <3> QED
      BY <2>1, <3>9
  <2>2. CASE u # t
    <3>1. todo'[T(u)] = todo[T(u)] /\ todo'[W(u)] = todo[W(u)] /\ worker'[u] = worker[u]
      BY <1>0, <1>2, <1>3, <1>4, <2>2
    <3>2. todo[T(u)] \in Seq(OfRequest) /\ <<>> \in Seq(Brought)
      BY <1>2, <1>3
    <3>3. WorkerInv(u)
      BY <1>1
    <3>4. /\ todo'[W(u)] # <<>> => worker'[u] = "running"
          /\ stream'[u].pc = "off" => stream[u].pc = "off"
          /\ <<"phase", u>> \in DOMAIN product' => <<"phase", u>> \in DOMAIN product
      BY <1>0, <3>1, <3>3, Zenon DEF WorkerInv
    <3> QED
      BY <3>1, <3>2, <3>3, <3>4, WorkerNext
  <2> QED
    BY <2>1, <2>2
<1>8. ASSUME NEW b \in Requests, NEW u \in Turns, Settles(b, u)
      PROVE  Settles(b, u)'
  <2>1. CASE b # T(t)
    <3>1. todo'[b] = todo[b]
      BY <1>3, <1>4, <2>1
    <3> QED
      BY <1>8, <3>1, SettlesSame
  <2>2. CASE b = T(t)
    <3>1. ~Settling(Head(todo[T(t)]), u)
      BY <1>0 DEF Settling, ListsPhases
    <3>2. <<>> \in Seq(OfRequest) /\ Settles(T(t), u)
      BY <1>8, <2>2
    <3>3. Settles(T(t), u)'
      BY <1>0, <1>5, <3>1, <3>2, SettlesNext
    <3> QED
      BY <2>2, <3>3
  <2> QED
    BY <2>1, <2>2
<1>9. ASSUME NEW u \in Turns, Streaming(u)'
      PROVE  SettledBy(u)'
  <2>1. Streaming(u) /\ Outcomes' = Outcomes /\ stream' = stream
    BY <1>0, <1>9 DEF Streaming, Outcomes
  <2>2. CASE Settles(T(u), u)
    <3>1. Settles(T(u), u)'
      BY <1>3, <1>8, <2>2
    <3> QED
      BY <3>1 DEF SettledBy
  <2>3. CASE ~Settles(T(u), u)
    <3>1. /\ stream[u].pc = "lost"
          /\ Orphans \/ Outcomes = {} \/ \E b \in Requests : Settles(b, u)
      BY <1>1, <2>1, <2>3, Zenon DEF SettledBy
    <3>2. Orphans \/ Outcomes' = {} \/ \E b \in Requests : Settles(b, u)'
      BY <1>8, <2>1, <3>1
    <3>3. stream'[u].pc = "lost"
      BY <2>1, <3>1
    <3> QED
      BY <3>2, <3>3, Zenon DEF SettledBy
  <2> QED
    BY <2>2, <2>3
<1> QED
  BY <1>6, <1>7, <1>9, PhaseWhole

\* A turn begins without a phase, while no other is open.
LEMMA PhaseBegin ==
  ASSUME TypeInv, PhaseInv, NEW t \in Turns, BeginTurn(t)
  PROVE  PhaseInv'
<1>0. /\ stream[t].pc = "off" /\ UNCHANGED <<truth, product, worker>>
      /\ \A u \in Turns : todo[T(u)] = <<>>
      /\ todo' = [todo EXCEPT ![T(t)] = RecordTurn(t)]
      /\ \E x : stream' = [stream EXCEPT ![t] = [NoStream EXCEPT !.pc = "idle", !.after = x]]
  BY DEF BeginTurn, OpenTurns, log, feed, work
<1>1. /\ CloseLists
      /\ \A u \in Turns : WorkerInv(u) /\ (Streaming(u) => SettledBy(u))
  BY PhaseParts
<1>2. DOMAIN todo = Actors /\ DOMAIN stream = Turns /\ \A b \in Actors : todo[b] \in Seq(OfActor(b))
  BY DEF TypeInv, Programs
<1>3. /\ T(t) \in Actors /\ Closer \in Actors /\ Closer # T(t)
      /\ \A b \in Requests : b \in Actors
      /\ \A u \in Turns : /\ T(u) \in Requests /\ T(u) \in Actors /\ W(u) \in Actors /\ OfActor(T(u)) = OfRequest
                          /\ (u # t => T(u) # T(t)) /\ W(u) # T(t)
  BY ActorsAre DEF Requests, Actors
<1>4. todo'[T(t)] = RecordTurn(t) /\ \A b \in Actors \ {T(t)} : todo'[b] = todo[b]
  BY <1>0, <1>2, <1>3
<1>5. stream'[t].pc = "idle" /\ \A u \in Turns \ {t} : stream'[u] = stream[u]
  BY <1>0, <1>2 DEF NoStream
<1>6. CloseLists'
  <2>1. todo'[Closer] = todo[Closer]
    BY <1>3, <1>4
  <2> QED
    BY <1>1, <2>1 DEF CloseLists, ListsPhases
<1>7. ASSUME NEW u \in Turns
      PROVE  WorkerInv(u)'
  <2>1. CASE u = t
    <3>1. RunsOn(RecordTurn(t), t) /\ \E n \in DOMAIN RecordTurn(t) : RecordTurn(t)[n].do = "reap"
      BY RecordRunsOn
    <3>2. worker[t] = "off" /\ todo[W(t)] = <<>>
      <4>1. WorkerInv(t)
        BY <1>1
      <4>2. /\ todo[W(t)] # <<>> => worker[t] = "running"
            /\ stream[t].pc = "off" => worker[t] = "off"
        BY <4>1, Zenon DEF WorkerInv
      <4> QED
        BY <1>0, <4>2
    <3>3. RunsOn(todo[T(t)], t)'
      BY <1>4, <3>1 DEF RunsOn, SaysPhase, Spawns
    <3>4. worker'[t] = "off" /\ todo'[W(t)] = <<>> /\ stream'[t].pc # "off"
      BY <1>0, <1>3, <1>4, <1>5, <3>2
    <3>5. WorkerInv(t)'
      BY <3>3, <3>4 DEF WorkerInv
    <3> QED
      BY <2>1, <3>5
  <2>2. CASE u # t
    <3>1. todo'[T(u)] = todo[T(u)] /\ todo'[W(u)] = todo[W(u)] /\ worker'[u] = worker[u] /\ stream'[u] = stream[u]
      BY <1>0, <1>3, <1>4, <1>5, <2>2
    <3>2. todo[T(u)] \in Seq(OfRequest) /\ <<>> \in Seq(Brought)
      BY <1>2, <1>3
    <3>3. WorkerInv(u)
      BY <1>1
    <3>4. /\ todo'[W(u)] # <<>> => worker'[u] = "running"
          /\ stream'[u].pc = "off" => stream[u].pc = "off"
          /\ <<"phase", u>> \in DOMAIN product' => <<"phase", u>> \in DOMAIN product
      BY <1>0, <3>1, <3>3, Zenon DEF WorkerInv
    <3> QED
      BY <3>1, <3>2, <3>3, <3>4, WorkerNext
  <2> QED
    BY <2>1, <2>2
<1>8. ASSUME NEW b \in Requests, NEW u \in Turns, Settles(b, u)
      PROVE  Settles(b, u)'
  <2>1. b # T(t)
    BY <1>0, <1>8 DEF Settles
  <2>2. todo'[b] = todo[b]
    BY <1>3, <1>4, <2>1
  <2> QED
    BY <1>8, <2>2, SettlesSame
<1>9. ASSUME NEW u \in Turns, Streaming(u)'
      PROVE  SettledBy(u)'
  <2>1. Streaming(u) /\ Outcomes' = Outcomes
    BY <1>0, <1>9 DEF Streaming, Outcomes
  <2>2. ~Settles(T(u), u)
    BY <1>0 DEF Settles
  <2>3. /\ stream[u].pc = "lost"
        /\ Orphans \/ Outcomes = {} \/ \E b \in Requests : Settles(b, u)
    BY <1>1, <2>1, <2>2, Zenon DEF SettledBy
  <2>4. Orphans \/ Outcomes' = {} \/ \E b \in Requests : Settles(b, u)'
    BY <1>8, <2>1, <2>3
  <2>5. stream'[u].pc = "lost"
    BY <1>0, <1>5, <2>3
  <2> QED
    BY <2>4, <2>5, Zenon DEF SettledBy
<1> QED
  BY <1>6, <1>7, <1>9, PhaseWhole

\* A restart leaves the phases to the repair, which is still to read the log.
LEMMA PhaseRestart ==
  ASSUME TypeInv, PhaseInv, Restart
  PROVE  PhaseInv'
<1> DEFINE over == {t \in Turns : worker[t] = "running" /\ ~Orphans}
<1>0. /\ UNCHANGED <<truth, product>>
      /\ worker' = [t \in Turns |-> IF t \in over THEN "dead" ELSE worker[t]]
      /\ todo' = [a \in Actors |-> CASE a = Repairer -> Step("read")
                    [] a \in {W(t) : t \in Turns \ over} -> todo[a]
                    [] OTHER -> <<>>]
      /\ stream' = [t \in Turns |-> IF stream[t].pc = "off" THEN NoStream
                                    ELSE [NoStream EXCEPT !.pc = "lost"]]
  BY DEF Restart, log, feed
<1>1. \A u \in Turns : WorkerInv(u)
  BY PhaseParts
<1>2. /\ todo'[Repairer] = Step("read") /\ todo'[Closer] = <<>>
      /\ \A t \in Turns : todo'[T(t)] = <<>>
  BY <1>0, ActorsAre
<1>3. CloseLists'
  BY <1>2 DEF CloseLists
<1>4. ASSUME NEW t \in Turns
      PROVE  /\ stream[t].pc = "off" => stream'[t].pc = "off"
             /\ stream[t].pc # "off" => stream'[t].pc = "lost"
             /\ todo[W(t)] # <<>> => worker[t] = "running"
             /\ stream[t].pc = "off" => worker[t] = "off" /\ <<"phase", t>> \notin DOMAIN product
  <2>1. WorkerInv(t)
    BY <1>1
  <2>2. /\ todo[W(t)] # <<>> => worker[t] = "running"
        /\ stream[t].pc = "off" => worker[t] = "off" /\ <<"phase", t>> \notin DOMAIN product
    BY <2>1, Zenon DEF WorkerInv
  <2> QED
    BY <1>0, <2>2 DEF NoStream
<1>5. ASSUME NEW t \in Turns
      PROVE  WorkerInv(t)'
  <2>1. RunsOn(todo[T(t)], t)'
    BY <1>2 DEF RunsOn
  <2>2. worker'[t] = "running" => worker[t] = "running" /\ t \notin over
    BY <1>0
  <2>3. ~Orphans => worker'[t] # "running"
    BY <2>2
  <2>4. todo'[W(t)] # <<>> => worker'[t] = "running"
    <3> SUFFICES ASSUME todo'[W(t)] # <<>>
                 PROVE  worker'[t] = "running"
      OBVIOUS
    <3>1. W(t) \in Actors /\ W(t) # Repairer
      BY ActorsAre
    <3>2. W(t) \in {W(u) : u \in Turns \ over} /\ todo'[W(t)] = todo[W(t)]
      BY <1>0, <3>1
    <3>3. t \notin over
      BY <3>2, ActorsAre
    <3> QED
      BY <1>0, <1>4, <3>2, <3>3
  <2>5. stream'[t].pc = "off" => worker'[t] = "off" /\ <<"phase", t>> \notin DOMAIN product'
    BY <1>0, <1>4
  <2>6. \A n \in DOMAIN todo'[T(t)] : FALSE
    BY <1>2
  <2> HIDE DEF over
  <2> QED
    BY <2>1, <2>3, <2>4, <2>5, <2>6 DEF WorkerInv
<1>6. ASSUME NEW t \in Turns, Streaming(t)'
      PROVE  SettledBy(t)'
  <2>1. stream'[t].pc = "lost"
    BY <1>0, <1>4, <1>6 DEF Streaming
  <2>2. Settles(Repairer, t)'
    BY <1>2 DEF Settles, Settling, Step
  <2>3. Repairer \in Requests
    BY DEF Requests
  <2> QED
    BY <2>1, <2>2, <2>3, Zenon DEF SettledBy
<1> QED
  BY <1>3, <1>5, <1>6, PhaseWhole

\* There is no phase to begin with.
LEMMA PhaseInit == Init => PhaseInv
<1> SUFFICES ASSUME Init
             PROVE  PhaseInv
  OBVIOUS
<1>1. /\ \A a \in Actors : todo[a] = <<>>
      /\ product = <<>> /\ \A t \in Turns : worker[t] = "off"
  BY DEF Init
<1>2. Closer \in Actors /\ \A t \in Turns : T(t) \in Actors /\ W(t) \in Actors
  BY ActorsAre
<1>3. CloseLists
  BY <1>1, <1>2 DEF CloseLists
<1>4. ASSUME NEW t \in Turns
      PROVE  WorkerInv(t) /\ ~Streaming(t)
  BY <1>1, <1>2 DEF WorkerInv, RunsOn, Streaming
<1> QED
  BY <1>3, <1>4 DEF PhaseInv

\* Every step leaves the phases to somebody.
LEMMA PhaseStep ==
  ASSUME TypeInv, OrderInv, ClosedInv, PhaseInv, [Next]_vars
  PROVE  PhaseInv'
<1>1. ASSUME NEW t \in Turns,
             \/ BeginTurn(t) \/ QueueRun(t) \/ SetRunStatus(t) \/ SpawnWorker(t) \/ SpawnFails(t)
             \/ Conclude(t) \/ Report(t) \/ WorkerDies(t) \/ Delta(t)
             \/ Reap(t) \/ CheckClosed(t) \/ Snapshot(t) \/ LoadProduct(t) \/ LoadShard(t)
      PROVE  PhaseInv'
  <2>1. CASE BeginTurn(t)
    BY <2>1, PhaseBegin
  <2>2. CASE QueueRun(t) \/ SetRunStatus(t)
    BY <2>2, PhaseQuiet
  <2>3. CASE SpawnWorker(t)
    BY <2>3, PhaseSpawn
  <2>4. CASE SpawnFails(t) \/ Reap(t) \/ CheckClosed(t)
    BY <2>4, PhaseReplaced
  <2>5. CASE \/ Conclude(t) \/ Report(t) \/ WorkerDies(t) \/ Delta(t)
             \/ LoadProduct(t) \/ LoadShard(t)
    BY <2>5, PhaseWork
  <2>6. CASE Snapshot(t)
    BY <2>6, PhaseProjected
  <2> QED
    BY <1>1, <2>1, <2>2, <2>3, <2>4, <2>5, <2>6
<1>2. ASSUME NEW a \in Actors,
             \/ SelectMax(a) \/ Insert(a) \/ ProjectEvent(a)
             \/ SayMessage(a) \/ ListMessages(a) \/ RewriteMessage(a)
      PROVE  PhaseInv'
  <2>1. CASE SelectMax(a)
    BY <2>1, PhaseQuiet
  <2>2. CASE Insert(a)
    BY <2>2, PhaseInsert
  <2>3. CASE ProjectEvent(a)
    BY <2>3, PhaseProject
  <2>4. CASE SayMessage(a)
    BY <2>4, PhaseSaid
  <2>5. CASE ListMessages(a)
    BY <2>5, PhaseListed
  <2>6. CASE RewriteMessage(a)
    BY <2>6, PhaseRewritten
  <2> QED
    BY <1>2, <2>1, <2>2, <2>3, <2>4, <2>5, <2>6
<1>3. ASSUME \/ BeginClose \/ ProjectOwn \/ FlagRuns \/ KillWorkers \/ Restart \/ ReadTruth
             \/ UNCHANGED vars
      PROVE  PhaseInv'
  <2>1. CASE BeginClose \/ KillWorkers \/ UNCHANGED vars
    BY <2>1, PhaseWork
  <2>2. CASE ProjectOwn
    BY <2>2, PhaseProjected
  <2>3. CASE FlagRuns
    BY <2>3, PhaseQuiet
  <2>4. CASE Restart
    BY <2>4, PhaseRestart
  <2>5. CASE ReadTruth
    BY <2>5, PhaseRead
  <2> QED
    BY <1>3, <2>1, <2>2, <2>3, <2>4, <2>5
<1> QED
  BY <1>1, <1>2, <1>3 DEF Next

---------------------------------------------------------------------------
(* The answers.                                                             *)

\* Where a statement of a program that went on was before.
WasIn(S, p, q, n) == /\ p \in Seq(S) /\ p # <<>> /\ q \in Seq(S) /\ n \in DOMAIN (q \o Tail(p))
                     /\ \A k \in DOMAIN q : q[k] # (q \o Tail(p))[n]
Was(p, q, n) == /\ n - Len(q) + 1 \in DOMAIN p /\ n - Len(q) + 1 # 1
                /\ (q \o Tail(p))[n] = p[n - Len(q) + 1]
                /\ Len(q \o Tail(p)) = Len(q) + Len(p) - 1
                /\ Len(q) \in Nat /\ Len(p) \in Nat /\ n \in Nat

\* A statement of a program that went on, if it is not new, was there before.
LEMMA WasBefore == ASSUME NEW S, NEW p, NEW q, NEW n, WasIn(S, p, q, n) PROVE Was(p, q, n)
<1> DEFINE r == Tail(p)
           new == q \o r
<1>0. /\ p \in Seq(S) /\ p # <<>> /\ q \in Seq(S) /\ n \in DOMAIN new
      /\ \A k \in DOMAIN q : q[k] # new[n]
  BY DEF WasIn
<1>1. /\ r \in Seq(S) /\ Len(r) = Len(p) - 1 /\ Len(p) \in Nat \ {0} /\ DOMAIN p = 1 .. Len(p)
      /\ \A i \in DOMAIN r : i + 1 \in DOMAIN p /\ r[i] = p[i + 1]
  BY <1>0, FirstIs
<1>2. /\ q \o r \in Seq(S) /\ Len(q \o r) = Len(q) + Len(r)
      /\ Len(q) \in Nat /\ Len(r) \in Nat
      /\ DOMAIN (q \o r) = 1 .. Len(q) + Len(r) /\ DOMAIN q = 1 .. Len(q) /\ DOMAIN r = 1 .. Len(r)
      /\ \A k \in 1 .. Len(q) : (q \o r)[k] = q[k]
      /\ \A k \in 1 .. Len(r) : (q \o r)[Len(q) + k] = r[k]
      /\ \A k \in DOMAIN (q \o r) : k \in 1 .. Len(q) \/ (k - Len(q) \in 1 .. Len(r) /\ (q \o r)[k] = r[k - Len(q)])
  BY <1>0, <1>1, PartsOf
<1> HIDE DEF r
<1>3. n \notin 1 .. Len(q)
  BY <1>0, <1>2
<1>4. n - Len(q) \in 1 .. Len(r) /\ new[n] = r[n - Len(q)] /\ n \in Nat
  BY <1>0, <1>2, <1>3
<1>5. (n - Len(q)) + 1 \in DOMAIN p /\ r[n - Len(q)] = p[(n - Len(q)) + 1]
  BY <1>1, <1>2, <1>4
<1>6. (n - Len(q)) + 1 # 1 /\ Len(new) = Len(q) + Len(p) - 1
  BY <1>1, <1>2, <1>4
<1> HIDE DEF new
<1>7. /\ n - Len(q) + 1 \in DOMAIN p /\ n - Len(q) + 1 # 1 /\ new[n] = p[n - Len(q) + 1]
  BY <1>4, <1>5, <1>6
<1> QED
  BY <1>1, <1>2, <1>4, <1>6, <1>7 DEF new, r, Was

\* Nothing a list or a read brings forth is of the shape of a turn.
LEMMA BroughtIs == \A s \in Brought : s.do \in {"rewrite", "project", "list"}
BY DEF Brought, Deferred, Rewriting, Projecting, Listing

\* How a program p of a request goes on as the program new.
KeepsShape(p, new) ==
  /\ EndsSo(new) /\ WaitsSo(new)
  /\ \A n \in DOMAIN new : new[n].do \in Ending \cup {"spawn"} => \E m \in DOMAIN p : new[n] = p[m]
  /\ Head(p).do \in Ending => \A n \in DOMAIN new : new[n].do \notin Ending

\* What an actor may bring forth as it goes on.
Brings(p, q) == q = <<>> \/ Head(p).do \in {"list", "snapshot", "own", "read"}

\* A request keeps its shape as it goes on.
LEMMA ShapeNext ==
  ASSUME NEW p \in Seq(OfRequest), p # <<>>, EndsSo(p), WaitsSo(p), NEW q \in Seq(Brought), Brings(p, q)
  PROVE  KeepsShape(p, q \o Tail(p))
<1> DEFINE new == q \o Tail(p)
           S == OfRequest \cup Brought
<1>1. p \in Seq(S) /\ q \in Seq(S)
  BY Larger
<1>2. /\ Head(p) = p[1] /\ 1 \in DOMAIN p /\ DOMAIN p = 1 .. Len(p) /\ Tail(p) \in Seq(OfRequest)
  BY FirstIs
<1>3. \A k \in DOMAIN q : q[k].do \in {"rewrite", "project", "list"}
  BY BroughtIs
<1> HIDE DEF S
<1>4. ASSUME NEW n \in DOMAIN new, new[n].do \in Ending \cup {"spawn"}
      PROVE  Was(p, q, n)
  <2>1. \A k \in DOMAIN q : q[k] # new[n]
    BY <1>3, <1>4 DEF Ending
  <2>2. WasIn(S, p, q, n)
    BY <1>1, <2>1 DEF WasIn
  <2> QED
    BY <2>2, WasBefore
<1>5. ASSUME NEW n \in DOMAIN new, new[n].do \in Ending
      PROVE  n = Len(new) /\ Head(p).do \notin Ending
  <2>1. /\ n - Len(q) + 1 \in DOMAIN p /\ n - Len(q) + 1 # 1
        /\ new[n] = p[n - Len(q) + 1]
        /\ Len(new) = Len(q) + Len(p) - 1 /\ Len(q) \in Nat /\ Len(p) \in Nat /\ n \in Nat
    BY <1>4, <1>5 DEF Was
  <2> HIDE DEF new
  <2>2. n - Len(q) + 1 = Len(p)
    BY <1>5, <2>1 DEF EndsSo
  <2>3. n = Len(new)
    BY <2>1, <2>2
  <2>4. 1 # Len(p)
    BY <2>1, <2>2
  <2> QED
    BY <1>2, <2>3, <2>4 DEF EndsSo
<1>6. WaitsSo(new)
  <2> SUFFICES ASSUME NEW n \in DOMAIN new, NEW m \in DOMAIN new, new[n].do = "reap"
               PROVE  new[m].do \in {"say", "queue", "run", "spawn", "reap"}
    BY DEF WaitsSo
  <2>1. \A k \in DOMAIN p : p[k].do \in {"say", "queue", "run", "spawn", "reap"}
    <3>1. \E k \in DOMAIN p : new[n] = p[k]
      BY <1>4 DEF Was, Ending
    <3> QED
      BY <3>1 DEF WaitsSo
  <2>2. q = <<>>
    BY <1>2, <2>1 DEF Brings
  <2>3. new = Tail(p)
    BY <1>2, <2>2, NothingBefore
  <2> HIDE DEF new
  <2>4. \E k \in DOMAIN p : new[m] = p[k]
    BY <2>3, FirstIs
  <2> QED
    BY <2>1, <2>4
<1>7. EndsSo(new)
  BY <1>5 DEF EndsSo
<1>8. \A n \in DOMAIN new : new[n].do \in Ending \cup {"spawn"} => \E m \in DOMAIN p : new[n] = p[m]
  BY <1>4 DEF Was
<1> HIDE DEF new
<1>9. KeepsShape(p, new)
  BY <1>5, <1>6, <1>7, <1>8 DEF KeepsShape
<1> QED
  BY <1>9 DEF new

\* An actor goes on to its next statement, after what the one it has done brings forth.
GoOn(a, q) ==
  /\ a \in Actors /\ todo[a] # <<>> /\ q \in Seq(Brought) /\ Brings(todo[a], q)
  /\ todo'[a] = q \o Tail(todo[a]) /\ \A b \in Actors \ {a} : todo'[b] = todo[b]
  /\ Head(todo[a]).do \notin {"reap", "check", "spawn"}

\* An actor that is done with a statement goes on.
LEMMA DoneGoesOn ==
  ASSUME TypeInv, NEW a \in Actors, todo[a] # <<>>, Done(a),
         Head(todo[a]).do \notin {"reap", "check", "spawn"}
  PROVE  GoOn(a, <<>>)
<1>1. Programs(todo) /\ todo[a] \in Seq(OfActor(a))
  BY DEF TypeInv, Programs
<1>2. todo'[a] = Tail(todo[a]) /\ \A b \in Actors \ {a} : todo'[b] = todo[b]
  BY <1>1, DoneIs
<1>3. Tail(todo[a]) \in Seq(OfActor(a))
  BY <1>1, FirstIs
<1>4. todo'[a] = <<>> \o Tail(todo[a])
  BY <1>2, <1>3, NothingBefore
<1> QED
  BY <1>2, <1>4 DEF GoOn, Brings

\* A list is replaced by the rewriting of what it lists.
RewritesAll(a, q) ==
  /\ q \in Seq(Rewriting)
  /\ \A n \in DOMAIN q : /\ q[n].do = "rewrite" /\ q[n].id \in DOMAIN Store
                         /\ q[n].m = [Store[q[n].id] EXCEPT !.status = Head(todo[a]).status]
                         /\ q[n].id \in Wanted(Head(todo[a]).kind)
\* An actor that lists messages goes on to rewrite them.
LEMMA ListGoesOn ==
  ASSUME TypeInv, OrderInv, NEW a \in Actors, ListMessages(a)
  PROVE  \E q : GoOn(a, q) /\ RewritesAll(a, q)
<1>1. TimesInv /\ SortsInv /\ todo[a] # <<>> /\ Head(todo[a]).do = "list"
  BY DEF OrderInv, ListMessages, Doing
<1>2. PICK q \in Seq(Rewriting) :
           /\ Programs(todo') /\ todo'[a] = q \o Tail(todo[a])
           /\ \A b \in Actors \ {a} : todo'[b] = todo[b]
           /\ \A n \in DOMAIN q : /\ q[n].do = "rewrite" /\ q[n].id \in DOMAIN Store
                                  /\ q[n].m = [Store[q[n].id] EXCEPT !.status = Head(todo[a]).status]
                                  /\ q[n].id \in Wanted(Head(todo[a]).kind)
           /\ \A i \in Wanted(Head(todo[a]).kind) : \E n \in DOMAIN q : q[n].id = i
  BY <1>1, ListedTodo, Zenon
<1>3. q \in Seq(Brought)
  <2>1. Rewriting \subseteq Brought
    BY DEF Brought, Deferred
  <2> QED
    BY <2>1, Larger
<1>4. GoOn(a, q)
  BY <1>1, <1>2, <1>3 DEF GoOn, Brings
<1>5. RewritesAll(a, q)
  BY <1>2 DEF RewritesAll
<1> QED
  BY <1>4, <1>5

\* What the result of a turn holds of the log.
LEMMA ResultHolds ==
  ASSUME TypeInv, NEW t \in Turns
  PROVE  /\ SubSeq(truth, 1, snap[t]) \in Seq(Entries) /\ hide[t] \in BOOLEAN
         /\ DOMAIN SubSeq(truth, 1, snap[t]) = 1 .. snap[t]
         /\ \A i \in 1 .. snap[t] : i \in DOMAIN truth /\ SubSeq(truth, 1, snap[t])[i] = truth[i]
<1>1. truth \in Seq(Entries) /\ snap[t] \in Nat /\ snap[t] <= Len(truth) /\ hide[t] \in BOOLEAN
      /\ Len(truth) \in Nat /\ DOMAIN truth = 1 .. Len(truth)
  BY DEF TypeInv
<1>2. \A i \in 1 .. snap[t] : i \in DOMAIN truth /\ truth[i] \in Entries
  BY <1>1
<1>3. /\ SubSeq(truth, 1, snap[t]) \in Seq(Entries)
      /\ Len(SubSeq(truth, 1, snap[t])) = snap[t]
      /\ \A i \in 1 .. snap[t] : SubSeq(truth, 1, snap[t])[i] = truth[i]
  BY <1>1, <1>2, SubSeqProperties
<1>4. DOMAIN SubSeq(truth, 1, snap[t]) = 1 .. snap[t]
  BY <1>3
<1> QED
  BY <1>1, <1>2, <1>3, <1>4

\* A request that takes its events goes on to project them.
LEMMA SnapshotGoesOn ==
  ASSUME TypeInv, NEW t \in Turns, Snapshot(t)
  PROVE  GoOn(T(t), Project(SubSeq(truth, 1, snap[t]), hide[t]))
<1> DEFINE es == SubSeq(truth, 1, snap[t])
           q == Project(es, hide[t])
<1>1. es \in Seq(Entries) /\ hide[t] \in BOOLEAN
  BY ResultHolds
<1> HIDE DEF es
<1>2. q \in Seq(Projecting)
  BY <1>1, ProjectIs
<1>3. q \in Seq(OfRequest) /\ q \in Seq(Brought)
  <2>1. Projecting \subseteq OfRequest /\ Projecting \subseteq Brought
    BY DEF OfRequest, Brought, Deferred
  <2> QED
    BY <1>2, <2>1, Larger
<1>4. Programs(todo) /\ todo[T(t)] # <<>> /\ Head(todo[T(t)]).do = "snapshot" /\ Expand(T(t), q)
      /\ T(t) \in Actors /\ q \in Seq(OfActor(T(t)))
  BY <1>3, ActorsAre DEF Snapshot, Doing, TypeInv, es
<1> HIDE DEF q
<1>5. todo'[T(t)] = q \o Tail(todo[T(t)]) /\ \A b \in Actors \ {T(t)} : todo'[b] = todo[b]
  BY <1>4, ExpandIs
<1>6. GoOn(T(t), q)
  BY <1>3, <1>4, <1>5 DEF GoOn, Brings
<1> QED
  BY <1>6 DEF q, es

\* A close goes on to project its own event.
LEMMA OwnGoesOn ==
  ASSUME TypeInv, OrderInv, ProjectOwn
  PROVE  \E q \in Seq(Projecting) : GoOn(Closer, q)
<1> DEFINE es == << Latest(CloseEvents) >>
           q == Project(es, FALSE)
<1>1. es \in Seq(Entries)
  <2>1. Latest(CloseEvents) \in Entries
    BY OwnIs DEF ProjectOwn, OrderInv
  <2> QED
    BY <2>1, OneStep
<1>2. q \in Seq(Projecting)
  <2> HIDE DEF es
  <2> QED
    BY <1>1, ProjectIs
<1>3. q \in Seq(OfClose) /\ q \in Seq(Brought)
  <2>1. Projecting \subseteq OfClose /\ Projecting \subseteq Brought
    BY DEF OfClose, Brought, Deferred
  <2> QED
    BY <1>2, <2>1, Larger
<1>4. Programs(todo) /\ todo[Closer] # <<>> /\ Head(todo[Closer]).do = "own" /\ Expand(Closer, q)
      /\ Closer \in Actors /\ q \in Seq(OfActor(Closer))
  BY <1>3, ActorsAre DEF ProjectOwn, Doing, TypeInv
<1> HIDE DEF q
<1>5. todo'[Closer] = q \o Tail(todo[Closer]) /\ \A b \in Actors \ {Closer} : todo'[b] = todo[b]
  BY <1>4, ExpandIs
<1>6. GoOn(Closer, q)
  BY <1>3, <1>4, <1>5 DEF GoOn, Brings
<1> QED
  BY <1>2, <1>6

\* The repair goes on to project the log, and to list the phases.
LEMMA ReadGoesOn ==
  ASSUME TypeInv, ReadTruth
  PROVE  \E more \in Seq(Listing({"phase"})) :
           /\ Project(truth, FALSE) \in Seq(Projecting) /\ Project(truth, FALSE) \in Seq(Brought)
           /\ more \in Seq(Brought) /\ GoOn(Repairer, Project(truth, FALSE) \o more)
<1> DEFINE q == Project(truth, FALSE)
<1>1. /\ todo[Repairer] # <<>> /\ Head(todo[Repairer]).do = "read"
  BY DEF ReadTruth, Doing
<1>2. PICK more \in Seq(OfRepair \ Deferred) :
        /\ Project(truth, FALSE) \in Seq(OfRepair) /\ more \in Seq(OfRepair)
        /\ todo'[Repairer] = (Project(truth, FALSE) \o more) \o Tail(todo[Repairer])
        /\ Programs(todo') /\ \A b \in Actors \ {Repairer} : todo'[b] = todo[b]
        /\ Outcomes # {} => more = Complete("phase", Verdict[Latest(Outcomes).type])
        /\ Outcomes = {} => more = <<>>
  BY ReadIs, Zenon
<1>3. q \in Seq(Projecting)
  BY ProjectIs DEF TypeInv
<1>4. more \in Seq(Listing({"phase"}))
  <2>1. CASE Outcomes = {}
    BY <1>2, <2>1
  <2>2. CASE Outcomes # {}
    <3>1. Latest(Outcomes).type \in DOMAIN Verdict
      <4>1. truth \in Seq(Entries) /\ Outcomes \subseteq DOMAIN truth
        BY DEF TypeInv, Outcomes
      <4>2. \E i \in Outcomes : Latest(Outcomes) = truth[i]
        BY <2>2, <4>1, LatestIs
      <4> QED
        BY <4>2 DEF Outcomes
    <3>2. Verdict[Latest(Outcomes).type] \in Settled
      BY <3>1 DEF Verdict, Settled
    <3> QED
      BY <1>2, <2>2, <3>2, PhaseList
  <2> QED
    BY <2>1, <2>2
<1>5. q \in Seq(Brought) /\ more \in Seq(Brought)
  <2>1. Projecting \subseteq Brought /\ Listing({"phase"}) \subseteq Brought
    BY DEF Brought, Deferred
  <2> QED
    BY <1>3, <1>4, <2>1, Larger
<1> HIDE DEF q
<1>6. q \o more \in Seq(Brought)
  BY <1>5, Together
<1>7. todo'[Repairer] = (q \o more) \o Tail(todo[Repairer]) /\ Repairer \in Actors
  BY <1>2, ActorsAre DEF q
<1>8. GoOn(Repairer, q \o more)
  BY <1>1, <1>2, <1>6, <1>7 DEF GoOn, Brings
<1> QED
  BY <1>3, <1>4, <1>5, <1>8 DEF q

\* Statements that have nothing to do with the result of a turn.
Aside == {s \in OfRequest : s.do \in {"list", "run", "say"}}

\* A program of such statements has no end to come to.
LEMMA AsideShape ==
  ASSUME NEW p \in Seq(Aside)
  PROVE  EndsSo(p) /\ WaitsSo(p) /\ \A n \in DOMAIN p : p[n].do \notin Ending \cup {"spawn"}
<1>1. \A n \in DOMAIN p : p[n] \in Aside
  OBVIOUS
<1> QED
  BY <1>1 DEF Aside, EndsSo, WaitsSo, Ending

\* A turn that fails, or is cancelled, is settled by such a program.
LEMMA AsidesAre ==
  /\ \A t \in Turns : Failed(t) \in Seq(Aside)
  /\ Cancelled \in Seq(Aside)
<1>1. ASSUME NEW kind \in {"answer", "reasoning", "phase"}, NEW s \in Settled
      PROVE  Complete(kind, s) \in Seq(Aside)
  BY <1>1 DEF Complete, Aside, OfRequest, Listing, Settled
<1>2. ASSUME NEW s \in RunStatuses
      PROVE  SetRun(s) \in Seq(Aside)
  BY <1>2 DEF SetRun, Aside, OfRequest, RunStatuses
<1>3. ASSUME NEW t \in Turns
      PROVE  Failed(t) \in Seq(Aside)
  <2> DEFINE a == Complete("phase", "failed")
             b == SetRun("failed")
             c == Say(<<"error", t>>, "error", "completed")
  <2>1. t \in Nat
    BY TurnsAssumption
  <2>2. c \in Seq(Aside)
    BY <2>1 DEF Say, OfRequest, Saying, Phases, Settled, Aside
  <2>3. a \in Seq(Aside) /\ b \in Seq(Aside)
    BY <1>1, <1>2 DEF Settled, RunStatuses
  <2> HIDE DEF a, b, c
  <2>4. a \o b \in Seq(Aside)
    BY <2>3, Together
  <2>5. a \o b \o c \in Seq(Aside)
    BY <2>2, <2>4, Together
  <2> QED
    BY <2>5 DEF a, b, c, Failed
<1>4. Cancelled \in Seq(Aside)
  <2> DEFINE a == Complete("phase", "cancelled")
             b == SetRun("cancelled")
  <2>1. a \in Seq(Aside) /\ b \in Seq(Aside)
    BY <1>1, <1>2 DEF Settled, RunStatuses
  <2> HIDE DEF a, b
  <2>2. a \o b \in Seq(Aside)
    BY <2>1, Together
  <2> QED
    BY <2>2 DEF a, b, Cancelled
<1> QED
  BY <1>3, <1>4

\* A turn with a result lists its answer first, and takes its events last.
LEMMA AnsweredShape ==
  ASSUME NEW s \in {"completed", "failed"}
  PROVE  /\ EndsSo(Answered(s)) /\ WaitsSo(Answered(s))
         /\ \A n \in DOMAIN Answered(s) : Answered(s)[n].do \notin {"check", "spawn"}
         /\ \E n \in DOMAIN Answered(s) : ListsAnswers(Answered(s)[n])
         /\ \E n \in DOMAIN Answered(s) : Answered(s)[n].do = "snapshot"
<1> DEFINE a == Complete("answer", "completed")
           b == Complete("reasoning", "completed")
           c == Complete("phase", s)
           d == SetRun(s)
           e == [do |-> "snapshot"]
           x == [do |-> "list", kind |-> "answer", status |-> "completed"]
           S == Aside \cup {e}
<1>1. a = << x >> /\ x \in Aside /\ ListsAnswers(x)
  BY DEF Complete, Aside, OfRequest, Listing, Settled, ListsAnswers
<1>2. a \in Seq(Aside) /\ a[1] = x /\ 1 \in DOMAIN a
  <2> HIDE DEF a, x
  <2>1. << x >> \in Seq(Aside)
    BY <1>1, OneStep
  <2>2. << x >>[1] = x /\ 1 \in DOMAIN << x >>
    OBVIOUS
  <2> QED
    BY <1>1, <2>1, <2>2
<1>3. b \in Seq(Aside) /\ c \in Seq(Aside)
  BY DEF Complete, Aside, OfRequest, Listing, Settled
<1>4. d \in Seq(Aside)
  BY DEF SetRun, Aside, OfRequest, RunStatuses
<1>5. Answered(s) = a \o b \o c \o d \o << e >>
  BY DEF Answered, Step
<1> HIDE DEF a, b, c, d, x
<1>6. a \o b \in Seq(Aside) /\ 1 \in DOMAIN (a \o b) /\ (a \o b)[1] = x
  BY <1>2, <1>3, Together, Leads
<1>7. a \o b \o c \in Seq(Aside) /\ 1 \in DOMAIN (a \o b \o c) /\ (a \o b \o c)[1] = x
  BY <1>3, <1>6, Together, Leads
<1> DEFINE q == a \o b \o c \o d
           p == q \o << e >>
<1>8. q \in Seq(Aside) /\ 1 \in DOMAIN q /\ q[1] = x
  BY <1>4, <1>7, Together, Leads
<1>9. q \in Seq(S) /\ << e >> \in Seq(S)
  BY <1>8, Larger
<1> HIDE DEF q
<1>10. /\ Len(p) = Len(q) + 1 /\ Len(q) \in Nat /\ DOMAIN p = 1 .. Len(q) + 1 /\ DOMAIN q = 1 .. Len(q)
       /\ \A n \in 1 .. Len(q) : p[n] = q[n]
       /\ p[Len(q) + 1] = e
  <2>1. Len(<< e >>) = 1 /\ << e >>[1] = e
    OBVIOUS
  <2> DEFINE y == << e >>
  <2>2. /\ q \o y \in Seq(S) /\ Len(q \o y) = Len(q) + Len(y)
        /\ Len(q) \in Nat /\ Len(y) \in Nat
        /\ DOMAIN (q \o y) = 1 .. Len(q) + Len(y) /\ DOMAIN q = 1 .. Len(q)
        /\ \A n \in 1 .. Len(q) : (q \o y)[n] = q[n]
        /\ \A n \in 1 .. Len(y) : (q \o y)[Len(q) + n] = y[n]
    BY <1>9, PartsOf
  <2> QED
    BY <2>1, <2>2
<1>11. Answered(s) = p
  BY <1>5 DEF q
<1> HIDE DEF p
<1>12. \A n \in DOMAIN p : n = Len(q) + 1 \/ (n \in 1 .. Len(q) /\ p[n] \in Aside)
  BY <1>8, <1>10
<1>13. \A n \in DOMAIN p : \/ n = Len(p) /\ p[n].do = "snapshot"
                           \/ p[n].do \in {"list", "run", "say"}
  BY <1>10, <1>12 DEF Aside
<1>14. 1 \in DOMAIN p /\ p[1] = x /\ Len(q) + 1 \in DOMAIN p /\ p[Len(q) + 1].do = "snapshot"
  BY <1>8, <1>10
<1>15. EndsSo(p) /\ WaitsSo(p) /\ \A n \in DOMAIN p : p[n].do \notin {"check", "spawn"}
  BY <1>13 DEF EndsSo, WaitsSo, Ending
<1> QED
  BY <1>1, <1>11, <1>14, <1>15

\* A request whose result is taken is to look whether the thread was closed.
LEMMA CheckShape ==
  /\ EndsSo(Step("check")) /\ WaitsSo(Step("check"))
  /\ \A n \in DOMAIN Step("check") : Step("check")[n].do = "check"
<1> DEFINE x == [do |-> "check"]
<1>1. Step("check") = << x >> /\ x.do = "check"
  BY DEF Step
<1> HIDE DEF x
<1>2. /\ Len(<< x >>) = 1 /\ \A n \in DOMAIN << x >> : n = 1 /\ << x >>[n] = x
  OBVIOUS
<1>3. EndsSo(<< x >>) /\ WaitsSo(<< x >>)
  BY <1>1, <1>2 DEF EndsSo, WaitsSo
<1> QED
  BY <1>1, <1>2, <1>3

---------------------------------------------------------------------------
(* The answers: one request at a time.                                      *)

\* An action after which every request is as before, or is gone.
LEMMA ShapeSame ==
  ASSUME ShapeInv, \A t \in Turns : todo'[T(t)] = todo[T(t)] \/ todo'[T(t)] = <<>>
  PROVE  ShapeInv'
BY DEF ShapeInv, EndsSo, WaitsSo

\* A request becomes another one, where no other is open.
LEMMA ShapeOther ==
  ASSUME ShapeInv, NEW t \in Turns, todo[T(t)] # <<>> \/ OpenTurns = {},
         NEW p, todo'[T(t)] = p, EndsSo(p), WaitsSo(p),
         \A u \in Turns \ {t} : todo'[T(u)] = todo[T(u)]
  PROVE  ShapeInv'
<1>1. \A u \in Turns : todo'[T(u)] # <<>> => u = t
  BY DEF ShapeInv, OpenTurns
<1>2. \A u \in Turns : EndsSo(todo'[T(u)]) /\ WaitsSo(todo'[T(u)])
  BY DEF ShapeInv
<1>3. \A u \in Turns : EndsSo(todo[T(u)])' /\ WaitsSo(todo[T(u)])'
  BY <1>2 DEF EndsSo, WaitsSo
<1> QED
  BY <1>1, <1>3 DEF ShapeInv

\* A request that goes on keeps its shape.
LEMMA KeepsGoing ==
  ASSUME TypeInv, ShapeInv, NEW a, NEW q, GoOn(a, q), NEW t \in Turns, a = T(t)
  PROVE  KeepsShape(todo[T(t)], todo'[T(t)])
<1>1. todo[T(t)] \in Seq(OfRequest)
  BY ActorsAre DEF TypeInv, Programs
<1>2. EndsSo(todo[T(t)]) /\ WaitsSo(todo[T(t)])
  BY DEF ShapeInv
<1>3. q \in Seq(Brought) /\ Brings(todo[T(t)], q) /\ todo[T(t)] # <<>>
      /\ todo'[T(t)] = q \o Tail(todo[T(t)])
  BY DEF GoOn
<1>4. KeepsShape(todo[T(t)], q \o Tail(todo[T(t)]))
  BY <1>1, <1>2, <1>3, ShapeNext
<1> QED
  BY <1>3, <1>4

\* An actor that goes on leaves the requests in their shapes.
LEMMA ShapeGoes ==
  ASSUME TypeInv, ShapeInv, NEW a, NEW q, GoOn(a, q)
  PROVE  ShapeInv'
<1>1. todo[a] # <<>> /\ \A b \in Actors \ {a} : todo'[b] = todo[b]
  BY DEF GoOn
<1>2. \A t \in Turns : T(t) \in Actors /\ \A u \in Turns : T(t) = T(u) => t = u
  BY ActorsAre
<1>3. CASE \E t \in Turns : a = T(t)
  <2>1. PICK t \in Turns : a = T(t)
    BY <1>3
  <2>2. EndsSo(todo'[T(t)]) /\ WaitsSo(todo'[T(t)])
    BY <2>1, KeepsGoing DEF KeepsShape
  <2>3. \A u \in Turns \ {t} : todo'[T(u)] = todo[T(u)]
    BY <1>1, <1>2, <2>1
  <2> QED
    BY <1>1, <2>1, <2>2, <2>3, ShapeOther
<1>4. CASE \A t \in Turns : a # T(t)
  <2>1. \A t \in Turns : todo'[T(t)] = todo[T(t)]
    BY <1>1, <1>2, <1>4
  <2> QED
    BY <2>1, ShapeSame
<1> QED
  BY <1>3, <1>4

---------------------------------------------------------------------------
(* The answers: what the result of a turn holds.                            *)

\* The log only grows.
Grows == /\ \A e \in DOMAIN truth : e \in DOMAIN truth' /\ truth'[e] = truth[e]
         /\ Len(truth) \in Nat /\ Len(truth') \in Nat /\ Len(truth) <= Len(truth')

\* An event at the end of the log.
Logs(e) == /\ Len(truth) + 1 \in DOMAIN truth' /\ truth'[Len(truth) + 1] = e
           /\ \A i \in DOMAIN truth' : i \in DOMAIN truth \/ i = Len(truth) + 1
           /\ Len(truth') = Len(truth) + 1
\* The event an actor inserts.
Inserted(a) == [seq |-> held[a], type |-> Head(todo[a]).type, turn |-> a[2],
                text |-> Text(a[2], Head(todo[a]).type), at |-> clock + 1]

\* An event is inserted at the end of the log, which only grows.
LEMMA LogsOne ==
  ASSUME TypeInv, NEW a \in Actors, Insert(a)
  PROVE  Inserted(a) \in Entries /\ Logs(Inserted(a)) /\ Grows
<1>1. PICK e \in Entries : truth' = Append(truth, e) /\ e = Inserted(a)
  BY InsertedIs DEF Inserted
<1>2. truth \in Seq(Entries)
  BY DEF TypeInv
<1> DEFINE n == Len(truth)
<1>3. /\ n \in Nat /\ DOMAIN truth = 1 .. n /\ DOMAIN truth' = 1 .. n + 1 /\ Len(truth') = n + 1
      /\ truth'[n + 1] = e /\ \A i \in 1 .. n : truth'[i] = truth[i]
  BY <1>1, <1>2
<1> HIDE DEF n
<1>4. /\ n + 1 \in DOMAIN truth' /\ n <= n + 1 /\ n + 1 \in Nat
      /\ \A i \in DOMAIN truth' : i \in DOMAIN truth \/ i = n + 1
      /\ \A i \in DOMAIN truth : i \in DOMAIN truth'
  BY <1>3
<1> QED
  BY <1>1, <1>3, <1>4 DEF Logs, Grows, n

\* The log grows by an event that is inserted, and by nothing else.
LEMMA LogGrows ==
  ASSUME TypeInv, truth' = truth \/ \E a \in Actors : Insert(a)
  PROVE  Grows
<1>1. CASE truth' = truth
  <2>1. Len(truth) \in Nat
    BY DEF TypeInv
  <2> QED
    BY <1>1, <2>1 DEF Grows
<1>2. CASE \E a \in Actors : Insert(a)
  BY <1>2, LogsOne
<1> QED
  BY <1>1, <1>2

\* What is logged stays so.
LEMMA LoggedStays ==
  ASSUME NEW t, Grows, answer'[t] = answer[t], NEW n, NEW m, Logged(t, n),
         n \in Nat, m \in Nat, n <= m, truth \in Seq(Entries)
  PROVE  \E e \in DOMAIN truth' : e <= m /\ truth'[e].type = "answered" /\ truth'[e].turn = t /\ truth'[e].text = answer'[t]
<1>1. PICK e \in DOMAIN truth : e <= n /\ IsAnswer(truth[e], t)
  BY DEF Logged
<1>2. e \in Nat
  OBVIOUS
<1>3. e \in DOMAIN truth' /\ truth'[e] = truth[e]
  BY DEF Grows
<1>4. e <= m
  BY <1>1, <1>2
<1> QED
  BY <1>1, <1>3, <1>4 DEF IsAnswer

\* What is in the log stays in it.
LEMMA LoggedLasts ==
  ASSUME TypeInv, NEW t \in Turns, Grows, answer'[t] = answer[t]
  PROVE  /\ Logged(t, Len(truth)) => Logged(t, Len(truth))'
         /\ snap'[t] = snap[t] /\ Logged(t, snap[t]) => Logged(t, snap[t])'
<1>1. truth \in Seq(Entries) /\ Len(truth) \in Nat /\ snap[t] \in Nat
  BY DEF TypeInv
<1>2. Len(truth') \in Nat /\ Len(truth) <= Len(truth')
  BY DEF Grows
<1>3. ASSUME Logged(t, Len(truth))
      PROVE  Logged(t, Len(truth))'
  <2>1. \E e \in DOMAIN truth' : e <= Len(truth') /\ truth'[e].type = "answered" /\ truth'[e].turn = t /\ truth'[e].text = answer'[t]
    BY <1>1, <1>2, <1>3, LoggedStays
  <2> QED
    BY <2>1 DEF Logged, IsAnswer
<1>4. ASSUME snap'[t] = snap[t], Logged(t, snap[t])
      PROVE  Logged(t, snap[t])'
  <2>0. snap[t] <= snap[t]
    BY <1>1
  <2>1. \E e \in DOMAIN truth' : e <= snap[t] /\ truth'[e].type = "answered" /\ truth'[e].turn = t /\ truth'[e].text = answer'[t]
    BY <1>1, <1>4, <2>0, LoggedStays
  <2> QED
    BY <1>4, <2>1 DEF Logged, IsAnswer
<1> QED
  BY <1>3, <1>4

\* A turn whose worker and result are as before.
LEMMA ResultKept ==
  ASSUME TypeInv, NEW t \in Turns, ResultOf(t), Grows,
         worker'[t] = worker[t], result'[t] = result[t], answer'[t] = answer[t],
         snap'[t] = snap[t] \/ Taken(t)',
         LogsAnswer(t) => LogsAnswer(t)' \/ Logged(t, Len(truth))',
         Has(t, "check")' => worker[t] = "reported",
         Taken(t) => Taken(t)' \/ worker[t] = "off"
  PROVE  ResultOf(t)'
<1>1. /\ answer[t] \in Answers \cup {NoText}
      /\ worker[t] = "off" => result[t] = "none"
      /\ worker[t] = "running" /\ result[t] = "answered" => Logged(t, Len(truth)) \/ LogsAnswer(t)
      /\ worker[t] = "reported" /\ result[t] = "answered" =>
           Logged(t, Len(truth)) /\ (Logged(t, snap[t]) \/ Taken(t))
  BY Zenon DEF ResultOf
<1>2. /\ Logged(t, Len(truth)) => Logged(t, Len(truth))'
      /\ snap'[t] = snap[t] /\ Logged(t, snap[t]) => Logged(t, snap[t])'
  BY LoggedLasts
<1>3. worker'[t] = "running" /\ result'[t] = "answered" => Logged(t, Len(truth))' \/ LogsAnswer(t)'
  BY <1>1, <1>2
<1>4. worker'[t] = "reported" /\ result'[t] = "answered" =>
        Logged(t, Len(truth))' /\ (Logged(t, snap[t])' \/ Taken(t)')
  BY <1>1, <1>2
<1>5. answer'[t] \in Answers \cup {NoText} /\ (worker'[t] = "off" => result'[t] = "none")
      /\ (Has(t, "check")' => worker'[t] = "reported")
  BY <1>1
<1> QED
  BY <1>3, <1>4, <1>5, Zenon DEF ResultOf

\* What a request that goes on still has to do with its result.
LEMMA TakenGoes ==
  ASSUME TypeInv, ShapeInv, NEW a, NEW q, GoOn(a, q), NEW t \in Turns
  PROVE  /\ Has(t, "check")' => Has(t, "check")
         /\ Taken(t) => Taken(t)'
         /\ a = T(t) /\ Head(todo[a]).do \in Ending => Taken(t)'
<1>1. CASE a = T(t)
  <2>1. KeepsShape(todo[T(t)], todo'[T(t)])
    BY <1>1, KeepsGoing
  <2>2. /\ \A n \in DOMAIN todo'[T(t)] : todo'[T(t)][n].do \in Ending \cup {"spawn"} =>
             \E m \in DOMAIN todo[T(t)] : todo'[T(t)][n] = todo[T(t)][m]
        /\ Head(todo[T(t)]).do \in Ending => \A n \in DOMAIN todo'[T(t)] : todo'[T(t)][n].do \notin Ending
    BY <2>1 DEF KeepsShape
  <2>3. \A n \in DOMAIN todo'[T(t)] : todo'[T(t)][n].do = "check" => todo'[T(t)][n].do \in Ending
    BY DEF Ending
  <2> QED
    BY <1>1, <2>2, <2>3 DEF Has, Taken
<1>2. CASE a # T(t)
  <2>1. todo'[T(t)] = todo[T(t)]
    BY <1>2, ActorsAre DEF GoOn
  <2> QED
    BY <1>2, <2>1 DEF Has, Taken
<1> QED
  BY <1>1, <1>2

\* What a worker that answers has to log.
AnswerInsert == [do |-> "insert", type |-> "answered"]

\* An actor that goes on leaves to the workers what they have to log.
LEMMA LogsGoes ==
  ASSUME TypeInv, NEW a, NEW q, GoOn(a, q), NEW t \in Turns, LogsAnswer(t)
  PROVE  LogsAnswer(t)' \/ (a = W(t) /\ Head(todo[a]) = AnswerInsert)
<1>0. W(t) \in Actors /\ todo[W(t)] \in Seq(OfWorker)
  BY ActorsAre DEF TypeInv, Programs
<1>1. CASE a = W(t)
  <2> DEFINE p == todo[W(t)]
             S == OfWorker \cup Brought
  <2>1. p \in Seq(S) /\ q \in Seq(S) /\ p # <<>> /\ todo'[W(t)] = q \o Tail(p)
    <3>1. q \in Seq(Brought) /\ p # <<>> /\ todo'[W(t)] = q \o Tail(p)
      BY <1>1 DEF GoOn
    <3> QED
      BY <1>0, <3>1, Larger
  <2>2. PICK n \in DOMAIN p : p[n] = AnswerInsert
    BY DEF LogsAnswer, AnswerInsert
  <2>3. Head(p) = p[1]
    BY <1>0, <2>1, FirstIs
  <2> HIDE DEF p, S
  <2>4. CASE n = 1
    BY <1>1, <2>2, <2>3, <2>4 DEF p
  <2>5. CASE n # 1
    <3>1. Waits(S, p, q, n)
      BY <2>1, <2>5 DEF Waits
    <3>2. \E m \in DOMAIN (q \o Tail(p)) : (q \o Tail(p))[m] = p[n]
      BY <3>1, StaysIn DEF Stays
    <3> QED
      BY <2>1, <2>2, <3>2 DEF LogsAnswer, AnswerInsert
  <2> QED
    BY <2>4, <2>5
<1>2. CASE a # W(t)
  <2>1. todo'[W(t)] = todo[W(t)]
    BY <1>0, <1>2 DEF GoOn
  <2> QED
    BY <2>1 DEF LogsAnswer
<1> QED
  BY <1>1, <1>2

\* An actor that goes on leaves the results of the turns.
LEMMA ResultGoes ==
  ASSUME TypeInv, ShapeInv, ResultInv, NEW a, NEW q, GoOn(a, q), Grows,
         UNCHANGED <<worker, result, answer>>,
         \A t \in Turns : snap'[t] = snap[t] \/ (a = T(t) /\ Head(todo[a]).do \in Ending),
         \A t \in Turns : a = W(t) /\ Head(todo[a]) = AnswerInsert => Logged(t, Len(truth))'
  PROVE  ResultInv'
<1>1. ASSUME NEW t \in Turns
      PROVE  ResultOf(t)'
  <2>1. ResultOf(t)
    BY DEF ResultInv
  <2>2. /\ Has(t, "check")' => Has(t, "check")
        /\ Taken(t) => Taken(t)'
        /\ a = T(t) /\ Head(todo[a]).do \in Ending => Taken(t)'
    BY TakenGoes
  <2>3. LogsAnswer(t) => LogsAnswer(t)' \/ Logged(t, Len(truth))'
    BY LogsGoes
  <2>4. Has(t, "check") => worker[t] = "reported"
    BY <2>1, Zenon DEF ResultOf
  <2>5. worker'[t] = worker[t] /\ result'[t] = result[t] /\ answer'[t] = answer[t]
    OBVIOUS
  <2>6. snap'[t] = snap[t] \/ Taken(t)'
    BY <2>2
  <2>7. Has(t, "check")' => worker[t] = "reported"
    BY <2>2, <2>4
  <2> QED
    BY <2>1, <2>2, <2>3, <2>5, <2>6, <2>7, ResultKept
<1> QED
  BY <1>1 DEF ResultInv

\* The statements of the actors, but the lists, after which an actor goes on.
LEMMA ActorGoesOn ==
  ASSUME TypeInv, NEW a \in Actors,
         SelectMax(a) \/ Insert(a) \/ ProjectEvent(a) \/ SayMessage(a) \/ RewriteMessage(a)
  PROVE  GoOn(a, <<>>) /\ Head(todo[a]).do \in {"max", "insert", "project", "say", "rewrite"}
<1>1. todo[a] # <<>> /\ Done(a) /\ Head(todo[a]).do \in {"max", "insert", "project", "say", "rewrite"}
  BY DEF SelectMax, Insert, ProjectEvent, SayMessage, RewriteMessage, Doing
<1> QED
  BY <1>1, DoneGoesOn

\* The statements of the run registry, after which an actor goes on.
LEMMA RunGoesOn ==
  ASSUME TypeInv
  PROVE  /\ \A t \in Turns : QueueRun(t) \/ SetRunStatus(t) => GoOn(T(t), <<>>)
         /\ FlagRuns => GoOn(Closer, <<>>)
<1>1. ASSUME NEW t \in Turns, QueueRun(t) \/ SetRunStatus(t)
      PROVE  GoOn(T(t), <<>>)
  <2>1. todo[T(t)] # <<>> /\ Done(T(t)) /\ Head(todo[T(t)]).do \in {"queue", "run"} /\ T(t) \in Actors
    BY <1>1, ActorsAre DEF QueueRun, SetRunStatus, Doing
  <2> QED
    BY <2>1, DoneGoesOn
<1>2. ASSUME FlagRuns
      PROVE  GoOn(Closer, <<>>)
  <2>1. todo[Closer] # <<>> /\ Done(Closer) /\ Head(todo[Closer]).do = "flag" /\ Closer \in Actors
    BY <1>2, ActorsAre DEF FlagRuns, Doing
  <2> QED
    BY <2>1, DoneGoesOn
<1> QED
  BY <1>1, <1>2

\* A request goes over to another program.
LEMMA TurnGoesOver ==
  ASSUME TypeInv, NEW t \in Turns, NEW p, todo' = [todo EXCEPT ![T(t)] = p]
  PROVE  /\ todo'[T(t)] = p /\ \A b \in Actors \ {T(t)} : todo'[b] = todo[b]
         /\ \A u \in Turns \ {t} : todo'[T(u)] = todo[T(u)]
         /\ \A u \in Turns : todo'[W(u)] = todo[W(u)]
<1>1. DOMAIN todo = Actors
  BY DEF TypeInv, Programs
<1> QED
  BY <1>1, ActorsAre

\* The programs a request goes over to.
GoesOver(t) ==
  \/ BeginTurn(t) /\ todo' = [todo EXCEPT ![T(t)] = RecordTurn(t)]
  \/ (SpawnFails(t) \/ Reap(t)) /\ todo' = [todo EXCEPT ![T(t)] = Failed(t)]
  \/ Reap(t) /\ worker[t] = "reported" /\ todo' = [todo EXCEPT ![T(t)] = Step("check")]
  \/ CheckClosed(t) /\ todo' = [todo EXCEPT ![T(t)] = Cancelled]
  \/ /\ CheckClosed(t)
     /\ \E s \in {"completed", "failed"} : /\ todo' = [todo EXCEPT ![T(t)] = Answered(s)]
                                           /\ s = "completed" => result[t] = "answered"
\* A turn that is begun, fails, or has its result goes over to one of them.
LEMMA OversAre ==
  ASSUME TypeInv, NEW t \in Turns, BeginTurn(t) \/ SpawnFails(t) \/ Reap(t) \/ CheckClosed(t)
  PROVE  GoesOver(t)
<1>1. CASE BeginTurn(t)
  BY <1>1 DEF BeginTurn, GoesOver
<1>2. CASE SpawnFails(t)
  BY <1>2 DEF SpawnFails, GoesOver, Turn
<1>3. CASE Reap(t)
  <2>1. worker[t] \in {"reported", "dead"}
    BY <1>3 DEF Reap
  <2>2. \/ todo' = [todo EXCEPT ![T(t)] = Failed(t)]
        \/ worker[t] # "dead" /\ todo' = [todo EXCEPT ![T(t)] = Step("check")]
    <3>1. run[t].cancel \in BOOLEAN
      BY DEF TypeInv, Row
    <3> QED
      BY <1>3, <3>1 DEF Reap, Turn
  <2> QED
    BY <1>3, <2>1, <2>2, Zenon DEF GoesOver
<1>4. CASE CheckClosed(t)
  <2> DEFINE s == IF result[t] = "answered" THEN "completed" ELSE "failed"
  <2>1. todo' = [todo EXCEPT ![T(t)] = IF WasForceClosed(t) THEN Cancelled ELSE Answered(s)]
    BY <1>4 DEF CheckClosed, Turn
  <2>2. s \in {"completed", "failed"} /\ (s = "completed" => result[t] = "answered")
    OBVIOUS
  <2> HIDE DEF s
  <2>3. CASE WasForceClosed(t)
    BY <1>4, <2>1, <2>3 DEF GoesOver
  <2>4. CASE ~WasForceClosed(t)
    <3>1. todo' = [todo EXCEPT ![T(t)] = Answered(s)]
      BY <2>1, <2>4
    <3> QED
      BY <1>4, <2>2, <3>1 DEF GoesOver
  <2> QED
    BY <2>3, <2>4
<1> QED
  BY <1>1, <1>2, <1>3, <1>4

\* Actions that leave the requests what they have to do.
Leaves == /\ \A t \in Turns : todo'[T(t)] = todo[T(t)]
          /\ todo'[Repairer] = todo[Repairer]
\* The workers, the streams, and a close that begins or kills leave the requests.
LEMMA LeavesAre ==
  ASSUME TypeInv,
         \/ BeginClose \/ KillWorkers \/ UNCHANGED vars
         \/ \E t \in Turns : \/ Conclude(t) \/ Report(t) \/ WorkerDies(t) \/ Delta(t)
                             \/ LoadProduct(t) \/ LoadShard(t)
  PROVE  Leaves
<1>0. DOMAIN todo = Actors
  BY DEF TypeInv, Programs
<1>1. CASE BeginClose
  BY <1>0, <1>1, ActorsAre DEF BeginClose, Leaves
<1>2. CASE KillWorkers
  BY <1>2, KilledIs DEF Leaves
<1>3. CASE \E t \in Turns : Conclude(t)
  <2>1. PICK t \in Turns : \E r : todo' = [todo EXCEPT ![W(t)] = Log(r)]
    BY <1>3 DEF Conclude
  <2> QED
    BY <1>0, <2>1, ActorsAre DEF Leaves
<1>4. CASE \E t \in Turns : WorkerDies(t)
  <2>1. PICK t \in Turns : todo' = [todo EXCEPT ![W(t)] = <<>>]
    BY <1>4 DEF WorkerDies
  <2> QED
    BY <1>0, <2>1, ActorsAre DEF Leaves
<1>5. CASE \/ UNCHANGED vars
           \/ \E t \in Turns : Report(t) \/ Delta(t) \/ LoadProduct(t) \/ LoadShard(t)
  <2>1. UNCHANGED todo
    BY <1>5 DEF vars, Report, Delta, LoadProduct, LoadShard
  <2> QED
    BY <2>1 DEF Leaves
<1> QED
  BY <1>1, <1>2, <1>3, <1>4, <1>5

\* A request that spawns its worker goes on.
LEMMA SpawnGoesOn ==
  ASSUME TypeInv, ShapeInv, PhaseInv, NEW t \in Turns, SpawnWorker(t)
  PROVE  /\ todo[T(t)] # <<>> /\ KeepsShape(todo[T(t)], todo'[T(t)])
         /\ todo'[T(t)] = <<>> \o Tail(todo[T(t)]) /\ todo[T(t)] \in Seq(OfRequest)
         /\ todo'[W(t)] = Log("recorded")
         /\ \A b \in Actors \ {T(t), W(t)} : todo'[b] = todo[b]
         /\ worker[t] = "off" /\ \E n \in DOMAIN todo[T(t)] : Spawns(todo[T(t)][n])
         /\ \A n \in DOMAIN todo'[T(t)] : ~Spawns(todo'[T(t)][n])
<1>0. /\ todo[T(t)] # <<>> /\ Head(todo[T(t)]).do = "spawn"
      /\ todo' = [todo EXCEPT ![T(t)] = Tail(@), ![W(t)] = Log("recorded")]
  BY DEF SpawnWorker, Doing
<1>1. /\ DOMAIN todo = Actors /\ T(t) \in Actors /\ W(t) \in Actors /\ T(t) # W(t)
      /\ todo[T(t)] \in Seq(OfRequest)
  BY ActorsAre DEF TypeInv, Programs
<1>2. /\ todo'[T(t)] = Tail(todo[T(t)]) /\ todo'[W(t)] = Log("recorded")
      /\ \A b \in Actors \ {T(t), W(t)} : todo'[b] = todo[b]
  BY <1>0, <1>1
<1>3. /\ Tail(todo[T(t)]) \in Seq(OfRequest) /\ Head(todo[T(t)]) = todo[T(t)][1] /\ 1 \in DOMAIN todo[T(t)]
  BY <1>0, <1>1, FirstIs
<1>4. todo'[T(t)] = <<>> \o Tail(todo[T(t)]) /\ <<>> \in Seq(Brought)
  BY <1>2, <1>3, NothingBefore
<1>5. KeepsShape(todo[T(t)], <<>> \o Tail(todo[T(t)]))
  <2>1. EndsSo(todo[T(t)]) /\ WaitsSo(todo[T(t)]) /\ Brings(todo[T(t)], <<>>)
    BY DEF ShapeInv, Brings
  <2> QED
    BY <1>0, <1>1, <1>4, <2>1, ShapeNext
<1>6. Spawns(Head(todo[T(t)])) /\ \E n \in DOMAIN todo[T(t)] : Spawns(todo[T(t)][n])
  BY <1>0, <1>3 DEF Spawns
<1>7. worker[t] = "off" /\ RunsOn(todo[T(t)], t)
  <2>1. WorkerInv(t)
    BY PhaseParts
  <2> QED
    BY <1>6, <2>1, Zenon DEF WorkerInv
<1>8. \A n \in DOMAIN todo'[T(t)] : ~Spawns(todo'[T(t)][n])
  <2> DEFINE p == todo[T(t)]
             q == <<>>
  <2>1. p \in Seq(OfRequest) /\ p # <<>> /\ RunsOn(p, t) /\ q \in Seq(Brought) /\ Spawns(Head(p))
        /\ todo'[T(t)] = q \o Tail(p)
    BY <1>0, <1>1, <1>4, <1>6, <1>7
  <2> HIDE DEF p, q
  <2>2. /\ RunsOn(q \o Tail(p), t)
        /\ \A n \in DOMAIN (q \o Tail(p)) : Spawns((q \o Tail(p))[n]) =>
             ~Spawns(Head(p)) /\ \E m \in DOMAIN p : Spawns(p[m])
        /\ SaysPhase(Head(p)) \/ Spawns(Head(p)) =>
             \E n \in DOMAIN (q \o Tail(p)) : (q \o Tail(p))[n].do = "reap"
    BY <2>1, RunsOnNext
  <2> QED
    BY <2>1, <2>2
<1> QED
  BY <1>0, <1>1, <1>2, <1>4, <1>5, <1>6, <1>7, <1>8

\* Where a restart leaves the requests.
LEMMA RestartIs ==
  ASSUME TypeInv, Restart
  PROVE  /\ \A t \in Turns : todo'[T(t)] = <<>>
         /\ \A t \in Turns :
              \/ todo'[W(t)] = todo[W(t)] /\ worker'[t] = worker[t]
              \/ worker[t] = "running" /\ worker'[t] = "dead"
         /\ todo'[Closer] = <<>> /\ todo'[Repairer] = Step("read")
         /\ \A t \in Turns : stream[t].pc # "off" => stream'[t].pc # "off"
<1> DEFINE over == {t \in Turns : worker[t] = "running" /\ ~Orphans}
<1>0. /\ worker' = [t \in Turns |-> IF t \in over THEN "dead" ELSE worker[t]]
      /\ todo' = [a \in Actors |-> CASE a = Repairer -> Step("read")
                    [] a \in {W(t) : t \in Turns \ over} -> todo[a]
                    [] OTHER -> <<>>]
      /\ stream' = [t \in Turns |-> IF stream[t].pc = "off" THEN NoStream
                                    ELSE [NoStream EXCEPT !.pc = "lost"]]
  BY DEF Restart
<1>1. ASSUME NEW t \in Turns
      PROVE  \/ todo'[W(t)] = todo[W(t)] /\ worker'[t] = worker[t]
             \/ worker[t] = "running" /\ worker'[t] = "dead"
  <2>1. W(t) \in Actors /\ W(t) # Repairer
    BY ActorsAre
  <2>2. CASE t \in over
    BY <1>0, <2>2
  <2>3. CASE t \notin over
    <3>1. W(t) \in {W(u) : u \in Turns \ over}
      BY <2>3
    <3> QED
      BY <1>0, <2>1, <2>3, <3>1
  <2> QED
    BY <2>2, <2>3
<1>2. /\ \A t \in Turns : todo'[T(t)] = <<>>
      /\ todo'[Closer] = <<>> /\ todo'[Repairer] = Step("read")
  BY <1>0, ActorsAre
<1>3. \A t \in Turns : stream[t].pc # "off" => stream'[t].pc # "off"
  BY <1>0 DEF NoStream
<1> QED
  BY <1>1, <1>2, <1>3

\* Every step leaves the requests in their shapes.
LEMMA ShapeStep ==
  ASSUME TypeInv, OrderInv, PhaseInv, ShapeInv, [Next]_vars
  PROVE  ShapeInv'
<1>1. ASSUME NEW t \in Turns, GoesOver(t)
      PROVE  ShapeInv'
  <2>1. todo[T(t)] # <<>> \/ OpenTurns = {}
    BY <1>1 DEF GoesOver, BeginTurn, SpawnFails, Reap, CheckClosed, Doing
  <2>2. PICK p : todo' = [todo EXCEPT ![T(t)] = p] /\ EndsSo(p) /\ WaitsSo(p)
    <3>1. EndsSo(RecordTurn(t)) /\ WaitsSo(RecordTurn(t))
      BY RecordRunsOn
    <3>2. EndsSo(Failed(t)) /\ WaitsSo(Failed(t)) /\ EndsSo(Cancelled) /\ WaitsSo(Cancelled)
      BY AsidesAre, AsideShape
    <3>3. EndsSo(Step("check")) /\ WaitsSo(Step("check"))
      BY CheckShape
    <3>4. \A s \in {"completed", "failed"} : EndsSo(Answered(s)) /\ WaitsSo(Answered(s))
      BY AnsweredShape
    <3> QED
      BY <1>1, <3>1, <3>2, <3>3, <3>4, Zenon DEF GoesOver
  <2>3. todo'[T(t)] = p /\ \A u \in Turns \ {t} : todo'[T(u)] = todo[T(u)]
    BY <2>2, TurnGoesOver
  <2> QED
    BY <2>1, <2>2, <2>3, ShapeOther
<1>2. ASSUME NEW t \in Turns,
             \/ BeginTurn(t) \/ QueueRun(t) \/ SetRunStatus(t) \/ SpawnWorker(t) \/ SpawnFails(t)
             \/ Conclude(t) \/ Report(t) \/ WorkerDies(t) \/ Delta(t)
             \/ Reap(t) \/ CheckClosed(t) \/ Snapshot(t) \/ LoadProduct(t) \/ LoadShard(t)
      PROVE  ShapeInv'
  <2>1. CASE BeginTurn(t) \/ SpawnFails(t) \/ Reap(t) \/ CheckClosed(t)
    BY <1>1, <2>1, OversAre
  <2>2. CASE QueueRun(t) \/ SetRunStatus(t)
    BY <2>2, RunGoesOn, ShapeGoes
  <2>3. CASE SpawnWorker(t)
    <3>1. todo[T(t)] # <<>> /\ KeepsShape(todo[T(t)], todo'[T(t)])
          /\ \A b \in Actors \ {T(t), W(t)} : todo'[b] = todo[b]
      BY <2>3, SpawnGoesOn
    <3>2. EndsSo(todo'[T(t)]) /\ WaitsSo(todo'[T(t)])
      BY <3>1 DEF KeepsShape
    <3>3. \A u \in Turns \ {t} : todo'[T(u)] = todo[T(u)]
      BY <3>1, ActorsAre
    <3> QED
      BY <3>1, <3>2, <3>3, ShapeOther
  <2>4. CASE Conclude(t) \/ Report(t) \/ WorkerDies(t) \/ Delta(t) \/ LoadProduct(t) \/ LoadShard(t)
    BY <2>4, LeavesAre, ShapeSame DEF Leaves
  <2>5. CASE Snapshot(t)
    BY <2>5, SnapshotGoesOn, ShapeGoes
  <2> QED
    BY <1>2, <2>1, <2>2, <2>3, <2>4, <2>5
<1>3. ASSUME NEW a \in Actors,
             \/ SelectMax(a) \/ Insert(a) \/ ProjectEvent(a)
             \/ SayMessage(a) \/ ListMessages(a) \/ RewriteMessage(a)
      PROVE  ShapeInv'
  <2>1. \E q : GoOn(a, q)
    BY <1>3, ActorGoesOn, ListGoesOn
  <2> QED
    BY <2>1, ShapeGoes
<1>4. ASSUME \/ BeginClose \/ ProjectOwn \/ FlagRuns \/ KillWorkers \/ Restart \/ ReadTruth
             \/ UNCHANGED vars
      PROVE  ShapeInv'
  <2>1. CASE BeginClose \/ KillWorkers \/ UNCHANGED vars
    BY <2>1, LeavesAre, ShapeSame DEF Leaves
  <2>2. CASE Restart
    BY <2>2, RestartIs, ShapeSame
  <2>3. CASE ProjectOwn \/ FlagRuns \/ ReadTruth
    <3>1. \E a, q : GoOn(a, q)
      BY <2>3, OwnGoesOn, RunGoesOn, ReadGoesOn
    <3> QED
      BY <3>1, ShapeGoes
  <2> QED
    BY <1>4, <2>1, <2>2, <2>3
<1> QED
  BY <1>2, <1>3, <1>4 DEF Next

\* A turn whose request, worker and result are as before.
LEMMA ResultSame ==
  ASSUME TypeInv, NEW t \in Turns, ResultOf(t), Grows,
         todo'[T(t)] = todo[T(t)] \/ todo'[T(t)] = <<>>, todo'[W(t)] = todo[W(t)],
         worker'[t] = worker[t], result'[t] = result[t], answer'[t] = answer[t], snap'[t] = snap[t]
  PROVE  ResultOf(t)'
<1>1. /\ LogsAnswer(t) => LogsAnswer(t)'
      /\ Has(t, "check")' => Has(t, "check")
      /\ Taken(t) => Taken(t)'
  BY DEF LogsAnswer, Has, Taken
<1>2. Has(t, "check") => worker[t] = "reported"
  BY Zenon DEF ResultOf
<1> QED
  BY <1>1, <1>2, ResultKept

\* A request that goes over to another program keeps the result.
LEMMA ResultOver ==
  ASSUME TypeInv, PhaseInv, ShapeInv, ResultInv, NEW t \in Turns, GoesOver(t)
  PROVE  ResultInv'
<1>0. UNCHANGED <<truth, worker, result, answer, snap>> /\ Grows
  <2>1. UNCHANGED <<truth, worker, result, answer, snap>>
    BY DEF GoesOver, BeginTurn, SpawnFails, Reap, CheckClosed, log, work
  <2> QED
    BY <2>1, LogGrows
<1>1. PICK p : todo' = [todo EXCEPT ![T(t)] = p]
  BY Zenon DEF GoesOver
<1>2. /\ todo'[T(t)] = p /\ \A u \in Turns \ {t} : todo'[T(u)] = todo[T(u)]
      /\ \A u \in Turns : todo'[W(u)] = todo[W(u)]
  BY <1>1, TurnGoesOver
<1>3. \A u \in Turns : ResultOf(u)
  BY DEF ResultInv
<1>4. ASSUME NEW u \in Turns \ {t}
      PROVE  ResultOf(u)'
  BY <1>0, <1>2, <1>3, ResultSame
<1>5. /\ Has(t, "check")' => worker[t] = "reported"
      /\ Taken(t) => Taken(t)' \/ worker[t] = "off"
  <2>1. CASE BeginTurn(t) /\ p = RecordTurn(t)
    <3>1. \A n \in DOMAIN p : p[n].do # "check"
      BY <2>1, RecordRunsOn
    <3>2. worker[t] = "off"
      <4>1. stream[t].pc = "off"
        BY <2>1 DEF BeginTurn
      <4>2. WorkerInv(t)
        BY PhaseParts
      <4> QED
        BY <4>1, <4>2, Zenon DEF WorkerInv
    <3> QED
      BY <1>2, <3>1, <3>2 DEF Has
  <2>2. CASE p = Failed(t) \/ p = Cancelled
    <3>1. \A n \in DOMAIN p : p[n].do \notin Ending
      BY <2>2, AsidesAre, AsideShape
    <3>2. \A n \in DOMAIN p : p[n].do # "check"
      BY <3>1 DEF Ending
    <3> QED
      BY <1>2, <3>1, <3>2 DEF Has, Taken
  <2>3. CASE Reap(t) /\ worker[t] = "reported" /\ p = Step("check")
    <3>1. ~Taken(t)
      <4>1. Doing(T(t), "reap") /\ Programs(todo) /\ T(t) \in Actors
        BY <2>3, ActorsAre DEF Reap, TypeInv
      <4>2. todo[T(t)][1].do = "reap" /\ 1 \in DOMAIN todo[T(t)]
        BY <4>1, DoingIs
      <4> QED
        BY <4>2 DEF Taken, Ending
    <3> QED
      BY <2>3, <3>1
  <2>4. CASE CheckClosed(t) /\ \E s \in {"completed", "failed"} : p = Answered(s)
    <3>1. \A n \in DOMAIN p : p[n].do # "check"
      BY <2>4, AnsweredShape
    <3>2. ~Taken(t)
      <4>1. Doing(T(t), "check") /\ Programs(todo) /\ T(t) \in Actors
        BY <2>4, ActorsAre DEF CheckClosed, TypeInv
      <4>2. todo[T(t)][1].do = "check" /\ 1 \in DOMAIN todo[T(t)]
        BY <4>1, DoingIs
      <4> QED
        BY <4>2 DEF Taken, Ending
    <3> QED
      BY <1>2, <3>1, <3>2 DEF Has
  <2>5. \A r : todo' = [todo EXCEPT ![T(t)] = r] => p = r
    <3> TAKE r
    <3> HAVE todo' = [todo EXCEPT ![T(t)] = r]
    <3>1. todo'[T(t)] = r
      BY TurnGoesOver
    <3> QED
      BY <1>2, <3>1
  <2> QED
    BY <2>1, <2>2, <2>3, <2>4, <2>5, Zenon DEF GoesOver
<1>6. LogsAnswer(t) => LogsAnswer(t)'
  BY <1>2 DEF LogsAnswer
<1>7. ResultOf(t)'
  BY <1>0, <1>3, <1>5, <1>6, ResultKept
<1> QED
  BY <1>4, <1>7 DEF ResultInv

\* A worker that is spawned has no result.
LEMMA ResultSpawn ==
  ASSUME TypeInv, PhaseInv, ShapeInv, ResultInv, NEW t \in Turns, SpawnWorker(t)
  PROVE  ResultInv'
<1>0. /\ UNCHANGED <<truth, result, snap>>
      /\ worker' = [worker EXCEPT ![t] = "running"]
      /\ \E x \in Answers : answer' = [answer EXCEPT ![t] = x]
  BY DEF SpawnWorker, log
<1>1. /\ KeepsShape(todo[T(t)], todo'[T(t)]) /\ worker[t] = "off"
      /\ \A b \in Actors \ {T(t), W(t)} : todo'[b] = todo[b]
  BY SpawnGoesOn
<1>2. DOMAIN worker = Turns /\ DOMAIN answer = Turns /\ Grows
  BY <1>0, LogGrows DEF TypeInv
<1>3. /\ worker'[t] = "running" /\ answer'[t] \in Answers
      /\ \A u \in Turns \ {t} : worker'[u] = worker[u] /\ answer'[u] = answer[u]
  BY <1>0, <1>2
<1>4. \A u \in Turns : ResultOf(u)
  BY DEF ResultInv
<1>5. ASSUME NEW u \in Turns \ {t}
      PROVE  ResultOf(u)'
  <2>1. todo'[T(u)] = todo[T(u)] /\ todo'[W(u)] = todo[W(u)]
    BY <1>1, ActorsAre
  <2> QED
    BY <1>0, <1>2, <1>3, <1>4, <2>1, ResultSame
<1>6. result[t] = "none" /\ ~Has(t, "check")
  <2>1. ResultOf(t)
    BY <1>4
  <2> QED
    BY <1>1, <2>1, Zenon DEF ResultOf
<1>7. ~Has(t, "check")'
  <2>1. \A n \in DOMAIN todo'[T(t)] : todo'[T(t)][n].do \in Ending \cup {"spawn"} =>
           \E m \in DOMAIN todo[T(t)] : todo'[T(t)][n] = todo[T(t)][m]
    BY <1>1 DEF KeepsShape
  <2>2. \A n \in DOMAIN todo'[T(t)] : todo'[T(t)][n].do = "check" => todo'[T(t)][n].do \in Ending
    BY DEF Ending
  <2> QED
    BY <1>6, <2>1, <2>2 DEF Has
<1>8. ResultOf(t)'
  <2>1. result'[t] = "none" /\ worker'[t] = "running" /\ answer'[t] \in Answers \cup {NoText}
    BY <1>0, <1>3, <1>6
  <2> QED
    BY <1>7, <2>1 DEF ResultOf
<1> QED
  BY <1>5, <1>8 DEF ResultInv

\* A worker that concludes is to log its answer before it reports.
LEMMA ResultConclude ==
  ASSUME TypeInv, ShapeInv, ResultInv, NEW t \in Turns, Conclude(t)
  PROVE  ResultInv'
<1>0. PICK r \in {"answered", "failed"} : /\ result' = [result EXCEPT ![t] = r]
                                          /\ todo' = [todo EXCEPT ![W(t)] = Log(r)]
  BY DEF Conclude
<1>1. UNCHANGED <<truth, worker, answer, snap>> /\ worker[t] = "running" /\ Grows
  <2>1. UNCHANGED <<truth, worker, answer, snap>> /\ worker[t] = "running"
    BY DEF Conclude, Busy, log
  <2> QED
    BY <2>1, LogGrows
<1>2. DOMAIN result = Turns /\ DOMAIN todo = Actors
  BY DEF TypeInv, Programs
<1>3. /\ result'[t] = r /\ todo'[W(t)] = Log(r)
      /\ \A u \in Turns \ {t} : result'[u] = result[u] /\ todo'[W(u)] = todo[W(u)]
      /\ \A u \in Turns : todo'[T(u)] = todo[T(u)]
  BY <1>0, <1>2, ActorsAre
<1>4. \A u \in Turns : ResultOf(u)
  BY DEF ResultInv
<1>5. ASSUME NEW u \in Turns \ {t}
      PROVE  ResultOf(u)'
  BY <1>1, <1>3, <1>4, ResultSame
<1>6. r = "answered" => LogsAnswer(t)'
  <2> DEFINE x == [do |-> "max"]
             y == [do |-> "insert", type |-> r]
  <2>1. todo'[W(t)] = << x, y >>
    BY <1>3 DEF Log
  <2> HIDE DEF x, y
  <2>2. 2 \in DOMAIN << x, y >> /\ << x, y >>[2] = y
    OBVIOUS
  <2> QED
    BY <2>1, <2>2 DEF LogsAnswer, y
<1>7. /\ answer[t] \in Answers \cup {NoText} /\ ~Has(t, "check")
  <2>1. ResultOf(t)
    BY <1>4
  <2> QED
    BY <1>1, <2>1, Zenon DEF ResultOf
<1>8. ~Has(t, "check")'
  BY <1>3, <1>7 DEF Has
<1>9. ResultOf(t)'
  <2>1. /\ worker'[t] = "running" /\ answer'[t] \in Answers \cup {NoText}
        /\ result'[t] = "answered" => LogsAnswer(t)'
    BY <1>1, <1>3, <1>6, <1>7
  <2> QED
    BY <1>8, <2>1, Zenon DEF ResultOf
<1> QED
  BY <1>5, <1>9 DEF ResultInv

\* The result a worker reports holds what it has logged.
LEMMA ResultReport ==
  ASSUME TypeInv, ShapeInv, ResultInv, NEW t \in Turns, Report(t)
  PROVE  ResultInv'
<1>0. /\ worker[t] = "running" /\ todo[W(t)] = <<>> /\ UNCHANGED <<truth, todo, result, answer>>
      /\ worker' = [worker EXCEPT ![t] = "reported"] /\ snap' = [snap EXCEPT ![t] = Len(truth)]
  BY DEF Report, Busy, log
<1>1. DOMAIN worker = Turns /\ DOMAIN snap = Turns /\ Grows
  BY <1>0, LogGrows DEF TypeInv
<1>2. /\ worker'[t] = "reported" /\ snap'[t] = Len(truth)
      /\ \A u \in Turns \ {t} : worker'[u] = worker[u] /\ snap'[u] = snap[u]
  BY <1>0, <1>1
<1>3. \A u \in Turns : ResultOf(u)
  BY DEF ResultInv
<1>4. ASSUME NEW u \in Turns \ {t}
      PROVE  ResultOf(u)'
  BY <1>0, <1>1, <1>2, <1>3, ResultSame
<1>5. ~LogsAnswer(t)
  BY <1>0 DEF LogsAnswer
<1>6. answer[t] \in Answers \cup {NoText} /\ (result[t] = "answered" => Logged(t, Len(truth)))
  <2>1. ResultOf(t)
    BY <1>3
  <2> QED
    BY <1>0, <1>5, <2>1, Zenon DEF ResultOf
<1>7. result'[t] = "answered" => Logged(t, Len(truth))' /\ Logged(t, snap[t])'
  BY <1>0, <1>2, <1>6 DEF Logged, IsAnswer
<1>8. ResultOf(t)'
  <2>1. worker'[t] = "reported" /\ answer'[t] \in Answers \cup {NoText}
    BY <1>0, <1>2, <1>6
  <2> QED
    BY <1>7, <2>1, Zenon DEF ResultOf
<1> QED
  BY <1>4, <1>8 DEF ResultInv

\* A worker that dies, or is killed, has nothing more to report.
LEMMA ResultDead ==
  ASSUME TypeInv, ResultInv, UNCHANGED <<truth, result, answer, snap>>,
         \A t \in Turns : \/ /\ todo'[T(t)] = todo[T(t)] \/ todo'[T(t)] = <<>>
                             /\ todo'[W(t)] = todo[W(t)] /\ worker'[t] = worker[t]
                          \/ /\ todo'[T(t)] = todo[T(t)] \/ todo'[T(t)] = <<>>
                             /\ worker[t] = "running" /\ worker'[t] = "dead"
  PROVE  ResultInv'
<1>1. ASSUME NEW t \in Turns
      PROVE  ResultOf(t)'
  <2>0. ResultOf(t) /\ Grows
    BY LogGrows DEF ResultInv
  <2>1. CASE /\ todo'[T(t)] = todo[T(t)] \/ todo'[T(t)] = <<>>
             /\ todo'[W(t)] = todo[W(t)] /\ worker'[t] = worker[t]
    BY <2>0, <2>1, ResultSame
  <2>2. CASE /\ todo'[T(t)] = todo[T(t)] \/ todo'[T(t)] = <<>>
             /\ worker[t] = "running" /\ worker'[t] = "dead"
    <3>1. answer[t] \in Answers \cup {NoText} /\ ~Has(t, "check")
      BY <2>0, <2>2, Zenon DEF ResultOf
    <3>2. ~Has(t, "check")'
      BY <2>2, <3>1 DEF Has
    <3>3. worker'[t] = "dead" /\ answer'[t] \in Answers \cup {NoText}
      BY <2>2, <3>1
    <3> QED
      BY <3>2, <3>3 DEF ResultOf
  <2> QED
    BY <2>1, <2>2
<1> QED
  BY <1>1 DEF ResultInv

\* What a worker logs once it has an answer.
LEMMA AnswerLogged ==
  ASSUME TypeInv, NEW t \in Turns, Insert(W(t)), Head(todo[W(t)]) = AnswerInsert
  PROVE  Logged(t, Len(truth))'
<1>1. Logs(Inserted(W(t))) /\ Len(truth) \in Nat
  BY ActorsAre, LogsOne DEF TypeInv
<1>2. Inserted(W(t)).type = "answered" /\ Inserted(W(t)).turn = t /\ Inserted(W(t)).text = answer[t]
  <2>1. W(t)[2] = t
    BY ActorsAre
  <2>2. Text(t, "answered") = answer[t]
    BY DEF Text
  <2> QED
    BY <2>1, <2>2 DEF Inserted, AnswerInsert
<1>3. answer'[t] = answer[t]
  BY DEF Insert, work
<1> DEFINE n == Len(truth) + 1
<1>4. /\ n \in DOMAIN truth' /\ n <= Len(truth')
      /\ truth'[n].type = "answered" /\ truth'[n].turn = t /\ truth'[n].text = answer'[t]
  BY <1>1, <1>2, <1>3 DEF Logs
<1> HIDE DEF n
<1> QED
  BY <1>4 DEF Logged, IsAnswer

\* Every step leaves the results of the turns with what they hold.
LEMMA ResultStep ==
  ASSUME TypeInv, OrderInv, PhaseInv, ShapeInv, ResultInv, [Next]_vars
  PROVE  ResultInv'
<1>0. \A t \in Turns : todo[W(t)] # <<>> => worker[t] = "running"
  <2> TAKE t \in Turns
  <2>1. WorkerInv(t)
    BY PhaseParts
  <2> QED
    BY <2>1, Zenon DEF WorkerInv
<1>1. ASSUME UNCHANGED <<truth, result, answer, snap, worker>>, Leaves,
             \A t \in Turns : todo'[W(t)] = todo[W(t)]
      PROVE  ResultInv'
  BY <1>1, ResultDead DEF Leaves
<1>2. ASSUME NEW t \in Turns,
             \/ BeginTurn(t) \/ QueueRun(t) \/ SetRunStatus(t) \/ SpawnWorker(t) \/ SpawnFails(t)
             \/ Conclude(t) \/ Report(t) \/ WorkerDies(t) \/ Delta(t)
             \/ Reap(t) \/ CheckClosed(t) \/ Snapshot(t) \/ LoadProduct(t) \/ LoadShard(t)
      PROVE  ResultInv'
  <2>1. CASE BeginTurn(t) \/ SpawnFails(t) \/ Reap(t) \/ CheckClosed(t)
    BY <2>1, OversAre, ResultOver
  <2>2. CASE QueueRun(t) \/ SetRunStatus(t)
    <3>1. GoOn(T(t), <<>>)
      BY <2>2, RunGoesOn
    <3>2. UNCHANGED <<truth, worker, result, answer, snap>> /\ Grows
      <4>1. UNCHANGED <<truth, worker, result, answer, snap>>
        BY <2>2 DEF QueueRun, SetRunStatus, log, work
      <4> QED
        BY <4>1, LogGrows
    <3>3. \A u \in Turns : T(t) # W(u)
      BY ActorsAre
    <3> QED
      BY <3>1, <3>2, <3>3, ResultGoes
  <2>3. CASE SpawnWorker(t)
    BY <2>3, ResultSpawn
  <2>4. CASE Conclude(t)
    BY <2>4, ResultConclude
  <2>5. CASE Report(t)
    BY <2>5, ResultReport
  <2>6. CASE WorkerDies(t)
    <3>1. /\ worker[t] = "running" /\ worker' = [worker EXCEPT ![t] = "dead"]
          /\ todo' = [todo EXCEPT ![W(t)] = <<>>] /\ UNCHANGED <<truth, result, answer, snap>>
      BY <2>6 DEF WorkerDies, log
    <3>2. DOMAIN worker = Turns /\ DOMAIN todo = Actors
      BY DEF TypeInv, Programs
    <3>3. /\ worker'[t] = "dead"
          /\ \A u \in Turns \ {t} : worker'[u] = worker[u] /\ todo'[W(u)] = todo[W(u)]
          /\ \A u \in Turns : todo'[T(u)] = todo[T(u)]
      BY <3>1, <3>2, ActorsAre
    <3> QED
      BY <3>1, <3>3, ResultDead
  <2>7. CASE Delta(t) \/ LoadProduct(t) \/ LoadShard(t)
    <3>1. UNCHANGED <<truth, result, answer, snap, worker, todo>>
      BY <2>7 DEF Delta, LoadProduct, LoadShard, log, work
    <3> QED
      BY <1>1, <3>1 DEF Leaves
  <2>8. CASE Snapshot(t)
    <3>1. \E q : GoOn(T(t), q)
      BY <2>8, SnapshotGoesOn
    <3>2. /\ Doing(T(t), "snapshot") /\ UNCHANGED <<truth, worker, result, answer>>
          /\ snap' = [snap EXCEPT ![t] = 0]
      BY <2>8 DEF Snapshot, log
    <3>3. Head(todo[T(t)]).do \in Ending
      BY <3>2 DEF Doing, Ending
    <3>4. \A u \in Turns : u = t \/ snap'[u] = snap[u]
      BY <3>2 DEF TypeInv
    <3>5. Grows /\ \A u \in Turns : T(t) # W(u)
      BY <3>2, LogGrows, ActorsAre
    <3> QED
      BY <3>1, <3>2, <3>3, <3>4, <3>5, ResultGoes
  <2> QED
    BY <1>2, <2>1, <2>2, <2>3, <2>4, <2>5, <2>6, <2>7, <2>8
<1>3. ASSUME NEW a \in Actors,
             \/ SelectMax(a) \/ Insert(a) \/ ProjectEvent(a)
             \/ SayMessage(a) \/ ListMessages(a) \/ RewriteMessage(a)
      PROVE  ResultInv'
  <2>1. UNCHANGED <<worker, result, answer, snap>>
    BY <1>3 DEF SelectMax, Insert, ProjectEvent, SayMessage, ListMessages, RewriteMessage, work
  <2>2. Grows
    <3>1. Insert(a) \/ truth' = truth
      BY <1>3 DEF SelectMax, ProjectEvent, SayMessage, ListMessages, RewriteMessage, log
    <3> QED
      BY <3>1, LogGrows
  <2>3. PICK q : GoOn(a, q)
    BY <1>3, ActorGoesOn, ListGoesOn
  <2>4. ASSUME NEW t \in Turns, a = W(t), Head(todo[a]) = AnswerInsert
        PROVE  Logged(t, Len(truth))'
    <3>1. Head(todo[a]).do = "insert"
      BY <2>4 DEF AnswerInsert
    <3>2. Insert(a)
      BY <1>3, <3>1 DEF SelectMax, ProjectEvent, SayMessage, ListMessages, RewriteMessage, Doing
    <3> QED
      BY <2>4, <3>2, AnswerLogged
  <2> QED
    BY <2>1, <2>2, <2>3, <2>4, ResultGoes
<1>4. ASSUME \/ BeginClose \/ ProjectOwn \/ FlagRuns \/ KillWorkers \/ Restart \/ ReadTruth
             \/ UNCHANGED vars
      PROVE  ResultInv'
  <2>1. CASE BeginClose \/ UNCHANGED vars
    <3>1. UNCHANGED <<truth, result, answer, snap, worker>> /\ Leaves
      BY <2>1, LeavesAre DEF BeginClose, vars, log, work
    <3>2. \A t \in Turns : todo'[W(t)] = todo[W(t)]
      <4>1. CASE BeginClose
        BY <4>1, ActorsAre DEF BeginClose, TypeInv, Programs
      <4>2. CASE UNCHANGED vars
        BY <4>2 DEF vars
      <4> QED
        BY <2>1, <4>1, <4>2
    <3> QED
      BY <1>1, <3>1, <3>2
  <2>2. CASE KillWorkers
    <3> DEFINE hit == {t \in Turns : worker[t] = "running" /\ Doing(T(t), "reap")}
    <3>1. /\ worker' = [t \in Turns |-> IF t \in hit THEN "dead" ELSE worker[t]]
          /\ todo' = [a \in Actors |-> IF a = Closer THEN Tail(todo[a])
                                     ELSE IF \E t \in hit : a = W(t) THEN <<>> ELSE todo[a]]
          /\ UNCHANGED <<truth, result, answer, snap>>
      BY <2>2 DEF KillWorkers, log
    <3>2. \A t \in Turns : todo'[T(t)] = todo[T(t)]
      BY <2>2, KilledIs
    <3>3. ASSUME NEW t \in Turns
          PROVE  \/ todo'[W(t)] = todo[W(t)] /\ worker'[t] = worker[t]
                 \/ worker[t] = "running" /\ worker'[t] = "dead"
      <4>1. CASE t \in hit
        BY <3>1, <4>1
      <4>2. CASE t \notin hit
        <5>1. W(t) \in Actors /\ W(t) # Closer /\ \A u \in hit : W(t) # W(u)
          BY <4>2, ActorsAre
        <5> QED
          BY <3>1, <4>2, <5>1
      <4> QED
        BY <4>1, <4>2
    <3> QED
      BY <3>1, <3>2, <3>3, ResultDead
  <2>3. CASE Restart
    <3>1. UNCHANGED <<truth, result, answer, snap>>
      BY <2>3 DEF Restart, log
    <3>2. ASSUME NEW t \in Turns
          PROVE  /\ todo'[T(t)] = <<>>
                 /\ \/ todo'[W(t)] = todo[W(t)] /\ worker'[t] = worker[t]
                    \/ worker[t] = "running" /\ worker'[t] = "dead"
      BY <2>3, RestartIs
    <3> QED
      BY <3>1, <3>2, ResultDead
  <2>4. CASE ProjectOwn \/ FlagRuns \/ ReadTruth
    <3>1. UNCHANGED <<truth, result, answer, snap, worker>> /\ Grows
      <4>1. UNCHANGED <<truth, result, answer, snap, worker>>
        BY <2>4 DEF ProjectOwn, FlagRuns, ReadTruth, log, work
      <4> QED
        BY <4>1, LogGrows
    <3>2. PICK a \in {Closer, Repairer} : \E q : GoOn(a, q)
      BY <2>4, OwnGoesOn, RunGoesOn, ReadGoesOn
    <3>3. \A t \in Turns : a # T(t) /\ a # W(t)
      BY ActorsAre
    <3> QED
      BY <3>1, <3>2, <3>3, ResultGoes
  <2> QED
    BY <1>4, <2>1, <2>2, <2>3, <2>4
<1> QED
  BY <1>2, <1>3, <1>4 DEF Next

---------------------------------------------------------------------------
(* The answers: what goes on, and what is new.                              *)

\* What an actor that goes on has to do is what it had to, or is brought forth.
LEMMA NewOnly ==
  ASSUME TypeInv, NEW a, NEW q, GoOn(a, q), NEW b \in Actors, NEW n \in DOMAIN todo'[b]
  PROVE  \/ \E k \in DOMAIN todo[b] : todo'[b][n] = todo[b][k]
         \/ b = a /\ \E k \in DOMAIN q : todo'[b][n] = q[k]
<1>1. CASE b # a
  BY <1>1 DEF GoOn
<1>2. CASE b = a
  <2> DEFINE p == todo[a]
             S == OfActor(a) \cup Brought
  <2>1. p \in Seq(S) /\ q \in Seq(S) /\ p # <<>> /\ todo'[a] = q \o Tail(p)
    <3>1. p \in Seq(OfActor(a)) /\ q \in Seq(Brought) /\ p # <<>> /\ todo'[a] = q \o Tail(p)
      BY DEF GoOn, TypeInv, Programs
    <3> QED
      BY <3>1, Larger
  <2> HIDE DEF p, S
  <2>2. Tail(p) \in Seq(S) /\ \A i \in DOMAIN Tail(p) : i + 1 \in DOMAIN p /\ Tail(p)[i] = p[i + 1]
    BY <2>1, FirstIs
  <2>3. n \in DOMAIN (q \o Tail(p))
    BY <1>2, <2>1
  <2> DEFINE r == Tail(p)
  <2>4. \/ \E k \in DOMAIN q : (q \o r)[n] = q[k]
        \/ \E k \in DOMAIN r : (q \o r)[n] = r[k]
    <3>1. r \in Seq(S) /\ q \in Seq(S) /\ n \in DOMAIN (q \o r)
      BY <2>1, <2>2, <2>3
    <3> HIDE DEF r
    <3> QED
      BY <3>1, EveryOf
  <2>5. \/ \E k \in DOMAIN q : todo'[a][n] = q[k]
        \/ \E k \in DOMAIN p : todo'[a][n] = p[k]
    BY <2>1, <2>2, <2>4
  <2> QED
    BY <1>2, <2>5 DEF p
<1> QED
  BY <1>1, <1>2

\* What an actor has to do after its next statement it still has to do.
LEMMA StaysOn ==
  ASSUME TypeInv, NEW a, NEW q, GoOn(a, q), NEW n \in DOMAIN todo[a], todo[a][n] # Head(todo[a])
  PROVE  \E m \in DOMAIN todo'[a] : todo'[a][m] = todo[a][n]
<1> DEFINE p == todo[a]
           S == OfActor(a) \cup Brought
<1>1. p \in Seq(S) /\ q \in Seq(S) /\ p # <<>> /\ todo'[a] = q \o Tail(p)
  <2>1. p \in Seq(OfActor(a)) /\ q \in Seq(Brought) /\ p # <<>> /\ todo'[a] = q \o Tail(p)
    BY DEF GoOn, TypeInv, Programs
  <2> QED
    BY <2>1, Larger
<1>2. n \in DOMAIN p /\ p[n] # Head(p)
  OBVIOUS
<1> HIDE DEF p, S
<1>3. n # 1
  BY <1>1, <1>2, FirstIs
<1>4. Waits(S, p, q, n)
  BY <1>1, <1>2, <1>3 DEF Waits
<1>5. \E m \in DOMAIN (q \o Tail(p)) : (q \o Tail(p))[m] = p[n]
  BY <1>4, StaysIn DEF Stays
<1> QED
  BY <1>1, <1>5 DEF p

\* What is brought forth is what the actor has to do next.
LEMMA ComesOn ==
  ASSUME TypeInv, NEW a, NEW q, GoOn(a, q), NEW k \in DOMAIN q
  PROVE  \E m \in DOMAIN todo'[a] : todo'[a][m] = q[k]
<1> DEFINE p == Tail(todo[a])
           S == OfActor(a) \cup Brought
<1>1. p \in Seq(S) /\ q \in Seq(S) /\ todo'[a] = q \o p
  <2>1. todo[a] \in Seq(OfActor(a)) /\ q \in Seq(Brought) /\ todo[a] # <<>> /\ todo'[a] = q \o p
    BY DEF GoOn, TypeInv, Programs
  <2>2. p \in Seq(OfActor(a))
    BY <2>1, FirstIs
  <2> QED
    BY <2>1, <2>2, Larger
<1> HIDE DEF p, S
<1>2. /\ Len(q) \in Nat /\ Len(p) \in Nat
      /\ DOMAIN (q \o p) = 1 .. Len(q) + Len(p) /\ DOMAIN q = 1 .. Len(q)
      /\ \A i \in 1 .. Len(q) : (q \o p)[i] = q[i]
  BY <1>1, PartsOf
<1>3. k \in DOMAIN (q \o p) /\ (q \o p)[k] = q[k]
  BY <1>2
<1> QED
  BY <1>1, <1>3

\* How a step goes on: an actor goes on, a request goes over to another program, ...
GoesOn ==
  \/ \E a \in Actors : \E q : GoOn(a, q)
  \/ \E t \in Turns : GoesOver(t) \/ SpawnWorker(t)
  \/ Leaves \/ Restart

\* Every step goes on in one of these ways.
LEMMA StepsGoOn ==
  ASSUME TypeInv, OrderInv, [Next]_vars
  PROVE  GoesOn
<1>1. ASSUME NEW t \in Turns,
             \/ BeginTurn(t) \/ QueueRun(t) \/ SetRunStatus(t) \/ SpawnWorker(t) \/ SpawnFails(t)
             \/ Conclude(t) \/ Report(t) \/ WorkerDies(t) \/ Delta(t)
             \/ Reap(t) \/ CheckClosed(t) \/ Snapshot(t) \/ LoadProduct(t) \/ LoadShard(t)
      PROVE  GoesOn
  <2>1. CASE BeginTurn(t) \/ SpawnFails(t) \/ Reap(t) \/ CheckClosed(t)
    BY <2>1, OversAre DEF GoesOn
  <2>2. CASE QueueRun(t) \/ SetRunStatus(t)
    BY <2>2, RunGoesOn, ActorsAre DEF GoesOn
  <2>3. CASE SpawnWorker(t)
    BY <2>3 DEF GoesOn
  <2>4. CASE Conclude(t) \/ Report(t) \/ WorkerDies(t) \/ Delta(t) \/ LoadProduct(t) \/ LoadShard(t)
    BY <2>4, LeavesAre DEF GoesOn
  <2>5. CASE Snapshot(t)
    BY <2>5, SnapshotGoesOn, ActorsAre DEF GoesOn
  <2> QED
    BY <1>1, <2>1, <2>2, <2>3, <2>4, <2>5
<1>2. ASSUME NEW a \in Actors,
             \/ SelectMax(a) \/ Insert(a) \/ ProjectEvent(a)
             \/ SayMessage(a) \/ ListMessages(a) \/ RewriteMessage(a)
      PROVE  GoesOn
  BY <1>2, ActorGoesOn, ListGoesOn DEF GoesOn
<1>3. ASSUME \/ BeginClose \/ ProjectOwn \/ FlagRuns \/ KillWorkers \/ Restart \/ ReadTruth
             \/ UNCHANGED vars
      PROVE  GoesOn
  <2>1. CASE BeginClose \/ KillWorkers \/ UNCHANGED vars
    BY <2>1, LeavesAre DEF GoesOn
  <2>2. CASE Restart
    BY <2>2 DEF GoesOn
  <2>3. CASE ProjectOwn \/ FlagRuns \/ ReadTruth
    BY <2>3, OwnGoesOn, RunGoesOn, ReadGoesOn, ActorsAre DEF GoesOn
  <2> QED
    BY <1>3, <2>1, <2>2, <2>3
<1> QED
  BY <1>1, <1>2, <1>3 DEF Next

\* A request spawns its worker once: it is to do so only if it was, or is begun.
LEMMA SpawnBefore ==
  ASSUME TypeInv, OrderInv, PhaseInv, ShapeInv, [Next]_vars, NEW t \in Turns, Has(t, "spawn")'
  PROVE  Has(t, "spawn") \/ stream[t].pc = "off"
<1>1. CASE \E a \in Actors : \E q : GoOn(a, q)
  <2>1. PICK a, q : a \in Actors /\ GoOn(a, q)
    BY <1>1
  <2>2. CASE a = T(t)
    <3>1. KeepsShape(todo[T(t)], todo'[T(t)])
      BY <2>1, <2>2, KeepsGoing
    <3> QED
      BY <3>1 DEF KeepsShape, Has
  <2>3. CASE a # T(t)
    <3>1. todo'[T(t)] = todo[T(t)]
      BY <2>1, <2>3, ActorsAre DEF GoOn
    <3> QED
      BY <3>1 DEF Has
  <2> QED
    BY <2>2, <2>3
<1>2. CASE \E u \in Turns : GoesOver(u)
  <2>1. PICK u \in Turns : GoesOver(u)
    BY <1>2
  <2>2. PICK p : todo' = [todo EXCEPT ![T(u)] = p]
    BY <2>1, Zenon DEF GoesOver
  <2>3. todo'[T(u)] = p /\ \A v \in Turns \ {u} : todo'[T(v)] = todo[T(v)]
    BY <2>2, TurnGoesOver
  <2>4. CASE u = t
    <3>1. ASSUME NEW r, todo' = [todo EXCEPT ![T(t)] = r]
          PROVE  p = r
      <4>1. todo'[T(t)] = r
        BY <3>1, TurnGoesOver
      <4> QED
        BY <2>3, <2>4, <4>1
    <3>2. \E n \in DOMAIN p : p[n].do = "spawn"
      BY <2>3, <2>4 DEF Has
    <3>3. p # Failed(t) /\ p # Cancelled
      BY <3>2, AsidesAre, AsideShape
    <3>4. p # Step("check")
      BY <3>2, CheckShape
    <3>5. \A s \in {"completed", "failed"} : p # Answered(s)
      BY <3>2, AnsweredShape
    <3>6. BeginTurn(t)
      BY <2>1, <2>4, <3>1, <3>3, <3>4, <3>5, Zenon DEF GoesOver
    <3> QED
      BY <3>6 DEF BeginTurn
  <2>5. CASE u # t
    BY <2>3, <2>5 DEF Has
  <2> QED
    BY <2>4, <2>5
<1>3. CASE \E u \in Turns : SpawnWorker(u)
  <2>1. PICK u \in Turns : SpawnWorker(u)
    BY <1>3
  <2>2. /\ \A b \in Actors \ {T(u), W(u)} : todo'[b] = todo[b]
        /\ KeepsShape(todo[T(u)], todo'[T(u)])
    BY <2>1, SpawnGoesOn
  <2>3. CASE u = t
    BY <2>2, <2>3 DEF KeepsShape, Has
  <2>4. CASE u # t
    <3>1. todo'[T(t)] = todo[T(t)]
      BY <2>2, <2>4, ActorsAre
    <3> QED
      BY <3>1 DEF Has
  <2> QED
    BY <2>3, <2>4
<1>4. CASE Leaves
  BY <1>4 DEF Leaves, Has
<1>5. CASE Restart
  <2>1. todo'[T(t)] = <<>>
    BY <1>5, RestartIs
  <2> QED
    BY <2>1 DEF Has
<1> QED
  BY <1>1, <1>2, <1>3, <1>4, <1>5, StepsGoOn DEF GoesOn

\* A turn that was begun was begun for good.
LEMMA StreamStays ==
  ASSUME TypeInv, [Next]_vars, NEW t \in Turns, stream[t].pc # "off"
  PROVE  stream'[t].pc # "off"
<1>0. DOMAIN stream = Turns /\ \A u \in Turns : "pc" \in DOMAIN stream[u]
  BY DEF TypeInv, StreamFields
<1>1. CASE \E u \in Turns : LoadProduct(u)
  <2>1. PICK u \in Turns : stream[u].pc = "idle" /\ \E x, y :
          stream' = [stream EXCEPT ![u].pc = "loading", ![u].last = x, ![u].page = y]
    BY <1>1 DEF LoadProduct
  <2>2. stream'[u].pc = "loading" /\ \A v \in Turns \ {u} : stream'[v] = stream[v]
    BY <1>0, <2>1
  <2> QED
    BY <2>2
<1>2. CASE \E u \in Turns : LoadShard(u)
  <2>1. PICK u \in Turns : LoadShard(u)
    BY <1>2
  <2> DEFINE x == IF stream[u].last THEN "closed" ELSE "idle"
  <2>2. \E y, z : stream' = [stream EXCEPT ![u] = [pc |-> x, after |-> y, page |-> <<>>,
                                                  last |-> FALSE, sent |-> z]]
    BY <2>1, Zenon DEF LoadShard
  <2>3. x # "off"
    OBVIOUS
  <2> HIDE DEF x
  <2>4. stream'[u].pc = x /\ \A v \in Turns \ {u} : stream'[v] = stream[v]
    BY <1>0, <2>2
  <2> QED
    BY <2>3, <2>4
<1>3. CASE \E u \in Turns : BeginTurn(u)
  <2>1. PICK u \in Turns : BeginTurn(u)
    BY <1>3
  <2>2. u # t /\ \E y : stream' = [stream EXCEPT ![u] = y]
    BY <2>1 DEF BeginTurn
  <2> QED
    BY <1>0, <2>2
<1>4. CASE Restart
  <2>1. stream' = [u \in Turns |-> IF stream[u].pc = "off" THEN NoStream
                                   ELSE [NoStream EXCEPT !.pc = "lost"]]
    BY <1>4 DEF Restart
  <2>2. stream'[t] = [NoStream EXCEPT !.pc = "lost"]
    BY <2>1
  <2> QED
    BY <2>2 DEF NoStream
<1>5. CASE UNCHANGED stream
  BY <1>5
<1>6. \/ \E u \in Turns : LoadProduct(u) \/ LoadShard(u) \/ BeginTurn(u)
      \/ Restart \/ UNCHANGED stream
  <2>1. ASSUME NEW u \in Turns,
               \/ QueueRun(u) \/ SetRunStatus(u) \/ SpawnWorker(u) \/ SpawnFails(u)
               \/ Conclude(u) \/ Report(u) \/ WorkerDies(u) \/ Delta(u)
               \/ Reap(u) \/ CheckClosed(u) \/ Snapshot(u)
        PROVE  UNCHANGED stream
    BY <2>1 DEF QueueRun, SetRunStatus, SpawnWorker, SpawnFails, Conclude, Report, WorkerDies,
                Delta, Reap, CheckClosed, Snapshot
  <2>2. ASSUME NEW a \in Actors,
               \/ SelectMax(a) \/ Insert(a) \/ ProjectEvent(a)
               \/ SayMessage(a) \/ ListMessages(a) \/ RewriteMessage(a)
        PROVE  UNCHANGED stream
    BY <2>2 DEF SelectMax, Insert, ProjectEvent, SayMessage, ListMessages, RewriteMessage
  <2>3. BeginClose \/ ProjectOwn \/ FlagRuns \/ KillWorkers \/ ReadTruth \/ UNCHANGED vars => UNCHANGED stream
    BY DEF BeginClose, ProjectOwn, FlagRuns, KillWorkers, ReadTruth, vars
  <2> QED
    BY <2>1, <2>2, <2>3 DEF Next
<1> QED
  BY <1>1, <1>2, <1>3, <1>4, <1>5, <1>6

\* The steps that change what a worker has done.
WorkSteps ==
  \/ \E u \in Turns : SpawnWorker(u) \/ Conclude(u) \/ Report(u) \/ WorkerDies(u)
  \/ KillWorkers \/ Restart \/ UNCHANGED <<worker, result, answer>>

\* Every step is one of them.
LEMMA StepsWork ==
  ASSUME [Next]_vars
  PROVE  WorkSteps
<1>1. ASSUME NEW u \in Turns,
             \/ BeginTurn(u) \/ QueueRun(u) \/ SetRunStatus(u) \/ SpawnFails(u) \/ Delta(u)
             \/ Reap(u) \/ CheckClosed(u) \/ Snapshot(u) \/ LoadProduct(u) \/ LoadShard(u)
      PROVE  UNCHANGED <<worker, result, answer>>
  BY <1>1 DEF BeginTurn, QueueRun, SetRunStatus, SpawnFails, Delta, Reap, CheckClosed, Snapshot,
              LoadProduct, LoadShard, work
<1>2. ASSUME NEW a \in Actors,
             \/ SelectMax(a) \/ Insert(a) \/ ProjectEvent(a)
             \/ SayMessage(a) \/ ListMessages(a) \/ RewriteMessage(a)
      PROVE  UNCHANGED <<worker, result, answer>>
  BY <1>2 DEF SelectMax, Insert, ProjectEvent, SayMessage, ListMessages, RewriteMessage, work
<1>3. BeginClose \/ ProjectOwn \/ FlagRuns \/ ReadTruth \/ UNCHANGED vars
        => UNCHANGED <<worker, result, answer>>
  BY DEF BeginClose, ProjectOwn, FlagRuns, ReadTruth, vars, work
<1> QED
  BY <1>1, <1>2, <1>3 DEF Next, WorkSteps

\* What a worker has reported stays so; its answer is settled when it is spawned.
LEMMA ReportedStays ==
  ASSUME TypeInv, OrderInv, PhaseInv, ShapeInv, [Next]_vars, NEW t \in Turns
  PROVE  /\ answer'[t] = answer[t] \/ (worker[t] = "off" /\ Has(t, "spawn"))
         /\ worker[t] = "reported" => worker'[t] = worker[t] /\ result'[t] = result[t]
<1>0. DOMAIN worker = Turns /\ DOMAIN result = Turns /\ DOMAIN answer = Turns
  BY DEF TypeInv
<1>1. CASE \E u \in Turns : SpawnWorker(u)
  <2>1. PICK u \in Turns : SpawnWorker(u)
    BY <1>1
  <2>2. /\ worker[u] = "off" /\ \E n \in DOMAIN todo[T(u)] : Spawns(todo[T(u)][n])
    BY <2>1, SpawnGoesOn
  <2>3. /\ result' = result /\ worker' = [worker EXCEPT ![u] = "running"]
        /\ \E x : answer' = [answer EXCEPT ![u] = x]
    BY <2>1 DEF SpawnWorker
  <2>4. Has(u, "spawn")
    BY <2>2 DEF Has, Spawns
  <2> QED
    BY <1>0, <2>2, <2>3, <2>4
<1>2. CASE \E u \in Turns : Conclude(u)
  <2>1. PICK u \in Turns : /\ worker[u] = "running" /\ UNCHANGED <<worker, answer>>
                           /\ \E x : result' = [result EXCEPT ![u] = x]
    BY <1>2 DEF Conclude, Busy
  <2> QED
    BY <1>0, <2>1
<1>3. CASE \E u \in Turns : Report(u) \/ WorkerDies(u)
  <2>1. PICK u \in Turns : /\ worker[u] = "running" /\ UNCHANGED <<result, answer>>
                           /\ \E x : worker' = [worker EXCEPT ![u] = x]
    BY <1>3 DEF Report, WorkerDies, Busy
  <2> QED
    BY <1>0, <2>1
<1>4. CASE KillWorkers \/ Restart
  <2>1. UNCHANGED <<result, answer>>
    BY <1>4 DEF KillWorkers, Restart
  <2>2. worker[t] # "running" => worker'[t] = worker[t]
    BY <1>4 DEF KillWorkers, Restart
  <2> QED
    BY <2>1, <2>2
<1>5. CASE UNCHANGED <<worker, result, answer>>
  BY <1>5
<1> QED
  BY <1>1, <1>2, <1>3, <1>4, <1>5, StepsWork DEF WorkSteps

---------------------------------------------------------------------------
(* The answers: the texts of the shard.                                     *)

\* The log grows in every step, and a close in it stays there.
LEMMA StepGrows ==
  ASSUME TypeInv, [Next]_vars
  PROVE  Grows /\ (LogHoldsClose => LogHoldsClose') /\ (truth' = truth \/ \E a \in Actors : Insert(a))
<1>1. truth' = truth \/ \E a \in Actors : Insert(a)
  <2>1. ASSUME NEW t \in Turns,
               \/ BeginTurn(t) \/ QueueRun(t) \/ SetRunStatus(t) \/ SpawnWorker(t) \/ SpawnFails(t)
               \/ Conclude(t) \/ Report(t) \/ WorkerDies(t) \/ Delta(t)
               \/ Reap(t) \/ CheckClosed(t) \/ Snapshot(t) \/ LoadProduct(t) \/ LoadShard(t)
        PROVE  truth' = truth
    BY <2>1 DEF BeginTurn, QueueRun, SetRunStatus, SpawnWorker, SpawnFails, Conclude, Report,
                WorkerDies, Delta, Reap, CheckClosed, Snapshot, LoadProduct, LoadShard, log
  <2>2. ASSUME NEW a \in Actors,
               \/ SelectMax(a) \/ ProjectEvent(a)
               \/ SayMessage(a) \/ ListMessages(a) \/ RewriteMessage(a)
        PROVE  truth' = truth
    BY <2>2 DEF SelectMax, ProjectEvent, SayMessage, ListMessages, RewriteMessage, log
  <2>3. BeginClose \/ ProjectOwn \/ FlagRuns \/ KillWorkers \/ Restart \/ ReadTruth \/ UNCHANGED vars
          => truth' = truth
    BY DEF BeginClose, ProjectOwn, FlagRuns, KillWorkers, Restart, ReadTruth, vars, log
  <2> QED
    BY <2>1, <2>2, <2>3 DEF Next
<1>2. Grows
  BY <1>1, LogGrows
<1>3. LogHoldsClose => LogHoldsClose'
  BY <1>2 DEF Grows, LogHoldsClose
<1> QED
  BY <1>1, <1>2, <1>3

\* What a message of the shard becomes when a message is appended.
LEMMA ShardAfter ==
  ASSUME TypeInv, NEW id, NEW m, Fits(id, m), AppendTo(id, m)
  PROVE  /\ DOMAIN shard \subseteq DOMAIN shard' /\ DOMAIN shard' \subseteq DOMAIN shard \cup {id}
         /\ \A i \in DOMAIN shard : i # id => shard'[i] = shard[i]
         /\ id \in DOMAIN shard' => id \in ShardIds /\ shard'[id].kind = m.kind /\ shard'[id].text = m.text
         /\ id \in ShardIds => id \in DOMAIN shard'
<1>0. IsShard(shard)
  BY DEF TypeInv
<1>1. CASE m.kind \in InShard
  <2>1. shard' = AppendMessage(shard, id, m)
    BY <1>1 DEF AppendTo
  <2>2. id \in ShardIds /\ m \in ShardMessages
    BY <1>1, KindsApart DEF Fits
  <2>3. id \in DOMAIN shard => shard[id] \in MessagesOf(InShard)
    BY <1>0 DEF IsShard, ShardMessages
  <2>4. m \in MessagesOf(InShard)
    BY <2>2 DEF ShardMessages
  <2>5. /\ DOMAIN AppendMessage(shard, id, m) = DOMAIN shard \cup {id}
        /\ \A i \in DOMAIN shard \ {id} : AppendMessage(shard, id, m)[i] = shard[i]
        /\ AppendMessage(shard, id, m)[id] \in MessagesOf(InShard)
        /\ AppendMessage(shard, id, m)[id].kind = m.kind
        /\ AppendMessage(shard, id, m)[id].text = m.text
        /\ AppendMessage(shard, id, m)[id].status = m.status
        /\ id \in DOMAIN shard => AppendMessage(shard, id, m)[id].sort = shard[id].sort
        /\ id \notin DOMAIN shard => AppendMessage(shard, id, m)[id] = m
    BY <2>3, <2>4, AppendedIs
  <2> QED
    BY <2>1, <2>2, <2>5
<1>2. CASE m.kind \notin InShard
  <2>1. shard' = shard
    BY <1>2 DEF AppendTo
  <2>2. id \in ProductIds
    BY <1>2, KindsApart DEF Fits
  <2>3. id \notin ShardIds
    BY <2>2, KindsApart
  <2>4. id \notin DOMAIN shard
    BY <1>0, <2>3 DEF IsShard
  <2> QED
    BY <2>1, <2>3, <2>4
<1> QED
  BY <1>1, <1>2

\* What the kind of a message tells, where it is id and holds m.
TellsKind(id, m) ==
  IF IsEvt(id)
  THEN \E e \in DOMAIN truth : /\ <<"evt", truth[e].seq>> = id
                               /\ m.text = truth[e].text /\ m.kind = truth[e].type
  ELSE m.kind = id[1]

\* The kinds of the messages tell where they came from, after any of them.
LEMMA KindsAfter ==
  ASSUME TypeInv, KindsInv, Grows,
         \/ shard' = shard
         \/ \E id, m : /\ Fits(id, m) /\ AppendTo(id, m)
                       /\ id \in ShardIds => TellsKind(id, m)
  PROVE  KindsInv'
<1>1. \A i \in DOMAIN shard : TellsKind(i, shard[i])
  BY DEF KindsInv, TellsKind, EventOf
<1>3. ASSUME NEW i \in DOMAIN shard'
      PROVE  \E m : TellsKind(i, m) /\ m.text = shard'[i].text /\ m.kind = shard'[i].kind
  <2>1. CASE shard' = shard
    BY <1>1, <1>3, <2>1
  <2>2. CASE \E id, m : /\ Fits(id, m) /\ AppendTo(id, m)
                        /\ id \in ShardIds => TellsKind(id, m)
    <3>1. PICK id, m : /\ Fits(id, m) /\ AppendTo(id, m)
                       /\ id \in ShardIds => TellsKind(id, m)
      BY <2>2
    <3>2. /\ DOMAIN shard' \subseteq DOMAIN shard \cup {id}
          /\ \A j \in DOMAIN shard : j # id => shard'[j] = shard[j]
          /\ id \in DOMAIN shard' => id \in ShardIds /\ shard'[id].kind = m.kind /\ shard'[id].text = m.text
      BY <3>1, ShardAfter
    <3>3. CASE i = id
      BY <3>1, <3>2, <3>3
    <3>4. CASE i # id
      <4>1. i \in DOMAIN shard /\ shard'[i] = shard[i]
        BY <3>2, <3>4
      <4> QED
        BY <1>1, <4>1
    <3> QED
      BY <3>3, <3>4
  <2> QED
    BY <2>1, <2>2
<1>4. ASSUME NEW i \in DOMAIN shard'
      PROVE  IF IsEvt(i) THEN EventOf(i)' ELSE shard'[i].kind = i[1]
  <2>1. PICK m : TellsKind(i, m) /\ m.text = shard'[i].text /\ m.kind = shard'[i].kind
    BY <1>3
  <2>2. CASE IsEvt(i)
    <3>1. PICK e \in DOMAIN truth : /\ <<"evt", truth[e].seq>> = i
                                    /\ m.text = truth[e].text /\ m.kind = truth[e].type
      BY <2>1, <2>2 DEF TellsKind
    <3>2. e \in DOMAIN truth' /\ truth'[e] = truth[e]
      BY DEF Grows
    <3> QED
      BY <2>1, <2>2, <3>1, <3>2 DEF EventOf
  <2>3. CASE ~IsEvt(i)
    BY <2>1, <2>3 DEF TellsKind
  <2> QED
    BY <2>2, <2>3
<1> QED
  BY <1>4 DEF KindsInv, IsEvt

\* A message that is written is as it was told, or is streamed.
Restates(id, m) ==
  id[1] \in {"answer", "reasoning"} => id \in DOMAIN shard /\ m.text = shard[id].text
Streams(id, m) ==
  \E t \in Turns : /\ Delta(t) /\ id[2] = t /\ m.text \in {Part, answer[t]}
                   /\ id \in DOMAIN shard => shard[id].text \notin {m.text, answer[t]}
Writing(id, m) == /\ Fits(id, m) /\ AppendTo(id, m)
                  /\ id \in ShardIds => TellsKind(id, m)
                  /\ Restates(id, m) \/ Streams(id, m)
Writes == shard' = shard \/ \E id, m : Writing(id, m)

\* What a request says is of the kind its identifier tells.
LEMMA WritesSaid ==
  ASSUME TypeInv, NEW a \in Actors, SayMessage(a)
  PROVE  Writes
<1>1. PICK id, m : /\ Fits(id, m) /\ ~IsEvt(id) /\ AppendTo(id, m) /\ m.sort = clock + 1
                   /\ id = Head(todo[a]).id /\ m.kind = Head(todo[a]).kind
                   /\ m.status = Head(todo[a]).status /\ m.text = Text(a[2], m.kind)
  BY SaidIs
<1>2. Doing(a, "say") /\ Programs(todo)
  BY DEF SayMessage, TypeInv
<1>3. Head(todo[a]) \in OfActor(a) /\ Head(todo[a]).do = "say"
  BY <1>2, DoingIs
<1>4. Head(todo[a]) \in Saying /\ Head(todo[a]).id[1] = Head(todo[a]).kind
  BY <1>3, StatementIs
<1>5. id[1] = m.kind /\ id[1] \in {"user", "phase", "error"}
  BY <1>1, <1>4 DEF Saying
<1>6. TellsKind(id, m) /\ Restates(id, m)
  BY <1>1, <1>5 DEF TellsKind, Restates
<1>7. Writing(id, m)
  BY <1>1, <1>6 DEF Writing
<1> QED
  BY <1>7 DEF Writes

\* What is rewritten keeps its text.
LEMMA WritesRewritten ==
  ASSUME TypeInv, OrderInv, FaithfulInv, NEW a \in Actors, RewriteMessage(a)
  PROVE  Writes
<1>1. PICK id, m : /\ Fits(id, m) /\ AppendTo(id, m)
                   /\ id = Head(todo[a]).id /\ m.kind = Head(todo[a]).m.kind
                   /\ m.status = Head(todo[a]).m.status /\ m.text = Head(todo[a]).m.text
                   /\ Head(todo[a]).do = "rewrite"
  BY RewrittenIs
<1>2. Doing(a, "rewrite") /\ Programs(todo)
  BY DEF RewriteMessage, TypeInv
<1>3. Head(todo[a]) = todo[a][1] /\ 1 \in DOMAIN todo[a]
  BY <1>2, DoingIs
<1>4. Backed(Head(todo[a])) /\ Faithful(a, Head(todo[a]))
  BY <1>3 DEF OrderInv, BackedInv, FaithfulInv
<1>5. id \in ShardIds => /\ id[1] \in {"answer", "reasoning"} /\ m.kind = id[1]
                         /\ m.text = shard[id].text
  BY <1>1, <1>4 DEF Faithful
<1>6. id \in ShardIds => id \in DOMAIN shard
  <2>1. id \in DOMAIN Store
    BY <1>1, <1>4 DEF Backed
  <2>2. DOMAIN Store = DOMAIN product \cup DOMAIN shard /\ DOMAIN product \subseteq ProductIds
    BY MergedIs DEF Store, TypeInv, IsProduct
  <2> QED
    BY <2>1, <2>2, KindsApart
<1>7. id[1] \in {"answer", "reasoning"} => id \in ShardIds
  BY <1>1, KindsApart DEF Fits
<1>8. Restates(id, m)
  BY <1>5, <1>6, <1>7 DEF Restates
<1>9. id \in ShardIds => TellsKind(id, m)
  BY <1>5 DEF TellsKind, IsEvt
<1>10. Writing(id, m)
  BY <1>1, <1>8, <1>9 DEF Writing
<1> QED
  BY <1>10 DEF Writes

\* What is projected is an event of the log.
LEMMA WritesProjected ==
  ASSUME TypeInv, OrderInv, NEW a \in Actors, ProjectEvent(a)
  PROVE  Writes
<1> DEFINE s == Head(todo[a])
           id == <<"evt", s.event.seq>>
           m == Message(s.event.type, "completed", s.event.text, s.event.at)
<1>1. \/ AppendTo(id, m) /\ Fits(id, m)
      \/ UNCHANGED feed
  BY ProjectedIs
<1>2. Doing(a, "project") /\ Programs(todo)
  BY DEF ProjectEvent, TypeInv
<1>3. Head(todo[a]) = todo[a][1] /\ 1 \in DOMAIN todo[a] /\ s.do = "project"
  BY <1>2, DoingIs
<1>4. Backed(s)
  BY <1>3 DEF OrderInv, BackedInv
<1>5. PICK e \in DOMAIN truth : s.event = truth[e]
  BY <1>3, <1>4 DEF Backed
<1>6. /\ id[1] = "evt" /\ <<"evt", truth[e].seq>> = id
      /\ m.text = truth[e].text /\ m.kind = truth[e].type
  BY <1>5 DEF Message
<1> HIDE DEF id, m
<1>7. TellsKind(id, m) /\ Restates(id, m)
  BY <1>6 DEF TellsKind, Restates, IsEvt
<1>8. Writing(id, m) \/ shard' = shard
  BY <1>1, <1>7 DEF Writing, feed
<1> QED
  BY <1>8 DEF Writes

\* What is streamed is a part of the answer, or all of it.
LEMMA WritesStreamed ==
  ASSUME TypeInv, NEW t \in Turns, Delta(t)
  PROVE  Writes
<1>1. PICK k \in StreamKinds, x \in {Part, answer[t]} :
        LET i == <<k, t>>
            old == IF i \in DOMAIN shard THEN shard[i].text ELSE NoText
        IN /\ old \notin {x, answer[t]} /\ (OneDelta => old = NoText)
           /\ k = "reasoning" => x = Part
           /\ AppendTo(i, Message(k, "streaming", x, clock + 1))
  BY DEF Delta
<1> DEFINE id == <<k, t>>
           m == Message(k, "streaming", x, clock + 1)
<1>2. id \in DOMAIN shard => shard[id].text \notin {x, answer[t]}
  BY <1>1
<1>3. AppendTo(id, m)
  BY <1>1
<1>4. m.text = x /\ m.kind = k /\ id[1] = k /\ id[2] = t
  BY DEF Message
<1>5. Fits(id, m) /\ ~IsEvt(id)
  <2>1. clock \in Nat /\ x \in Texts
    BY DEF TypeInv, Texts
  <2> QED
    BY <2>1, StreamedFits
<1> HIDE DEF id, m
<1>6. TellsKind(id, m) /\ Streams(id, m)
  BY <1>2, <1>4, <1>5 DEF TellsKind, Streams
<1>7. Writing(id, m)
  BY <1>3, <1>5, <1>6 DEF Writing
<1> QED
  BY <1>7 DEF Writes

\* A step writes one message, or none.
LEMMA StepWrites ==
  ASSUME TypeInv, OrderInv, FaithfulInv, [Next]_vars
  PROVE  Writes
<1>1. ASSUME NEW t \in Turns,
             \/ BeginTurn(t) \/ QueueRun(t) \/ SetRunStatus(t) \/ SpawnWorker(t) \/ SpawnFails(t)
             \/ Conclude(t) \/ Report(t) \/ WorkerDies(t)
             \/ Reap(t) \/ CheckClosed(t) \/ Snapshot(t) \/ LoadProduct(t) \/ LoadShard(t)
      PROVE  shard' = shard
  BY <1>1 DEF BeginTurn, QueueRun, SetRunStatus, SpawnWorker, SpawnFails, Conclude, Report,
              WorkerDies, Reap, CheckClosed, Snapshot, LoadProduct, LoadShard, feed
<1>2. ASSUME NEW a \in Actors, SelectMax(a) \/ Insert(a) \/ ListMessages(a)
      PROVE  shard' = shard
  BY <1>2 DEF SelectMax, Insert, ListMessages, feed
<1>3. BeginClose \/ ProjectOwn \/ FlagRuns \/ KillWorkers \/ Restart \/ ReadTruth \/ UNCHANGED vars
        => shard' = shard
  BY DEF BeginClose, ProjectOwn, FlagRuns, KillWorkers, Restart, ReadTruth, vars, feed
<1>4. \/ shard' = shard
      \/ \E t \in Turns : Delta(t)
      \/ \E a \in Actors : ProjectEvent(a) \/ SayMessage(a) \/ RewriteMessage(a)
  BY <1>1, <1>2, <1>3 DEF Next
<1> QED
  BY <1>4, WritesSaid, WritesRewritten, WritesProjected, WritesStreamed DEF Writes

\* What is not deferred rewrites nothing, and projects nothing.
LEMMA NotDeferred ==
  ASSUME NEW a \in Actors, NEW p \in Seq(OfActor(a) \ Deferred)
  PROVE  \A n \in DOMAIN p : p[n].do \notin {"rewrite", "project"}
<1>1. ASSUME NEW n \in DOMAIN p
      PROVE  p[n].do \notin {"rewrite", "project"}
  <2>1. p[n] \in OfActor(a) /\ p[n] \notin Rewriting /\ p[n] \notin Projecting
    BY DEF Deferred
  <2> QED
    BY <2>1, StatementIs
<1> QED
  BY <1>1

\* A statement that was there before.
KeptOf(a, n) == \E k \in DOMAIN todo[a] : todo'[a][n] = todo[a][k]

\* What is listed for rewriting is faithful.
LEMMA ListedFaithful ==
  ASSUME TypeInv, KindsInv, NEW a, NEW q, GoOn(a, q), RewritesAll(a, q),
         Head(todo[a]).do = "list", NEW k \in DOMAIN q
  PROVE  Faithful(a, q[k])
<1>0. a \in Actors /\ todo[a] # <<>> /\ todo[a] \in Seq(OfActor(a))
  BY DEF GoOn, TypeInv, Programs
<1> DEFINE s == Head(todo[a])
<1>1. s \in OfActor(a)
  BY <1>0, FirstIs
<1>2. /\ s \in Listing({"answer", "reasoning", "phase"})
      /\ s.kind # "phase" => \E t \in Turns : a = T(t)
  BY <1>0, <1>1, StatementIs
<1>3. /\ q[k].id \in DOMAIN Store
      /\ q[k].m = [Store[q[k].id] EXCEPT !.status = s.status]
      /\ q[k].id \in Wanted(s.kind)
  BY DEF RewritesAll
<1> HIDE DEF s
<1> SUFFICES ASSUME q[k].id \in ShardIds
             PROVE  /\ \E t \in Turns : a = T(t)
                    /\ q[k].id[1] \in {"answer", "reasoning"} /\ q[k].m.kind = q[k].id[1]
                    /\ q[k].m.text = shard[q[k].id].text
  BY DEF Faithful
<1> DEFINE i == q[k].id
<1>4. /\ IsProduct(product) /\ IsShard(shard) /\ DOMAIN Store = DOMAIN product \cup DOMAIN shard
      /\ \A j \in DOMAIN shard : Store[j] = shard[j]
  <2>1. IsProduct(product) /\ IsShard(shard)
    BY DEF TypeInv
  <2>2. DOMAIN Store = DOMAIN product \cup DOMAIN shard
    BY <2>1, MergedIs DEF Store
  <2>3. \A j \in DOMAIN shard : j \in DOMAIN Store /\ Store[j] = shard[j]
    BY <2>1, SortsAreNat
  <2> QED
    BY <2>1, <2>2, <2>3
<1>5. i \in DOMAIN shard /\ i \notin DOMAIN product
  BY <1>3, <1>4, KindsApart DEF IsProduct
<1>6. s.kind \in {"answer", "reasoning"} /\ Store[i].kind = s.kind
  BY <1>2, <1>3, <1>5 DEF Wanted, Listing
<1>7. Store[i] = shard[i] /\ shard[i] \in ShardMessages
  BY <1>4, <1>5 DEF IsShard
<1>8. q[k].m.kind = shard[i].kind /\ q[k].m.text = shard[i].text
  BY <1>3, <1>7 DEF ShardMessages, MessagesOf
<1>9. ~IsEvt(i)
  <2> SUFFICES ASSUME IsEvt(i)
               PROVE  FALSE
    OBVIOUS
  <2>1. EventOf(i)
    BY <1>5 DEF KindsInv
  <2>2. PICK e \in DOMAIN truth : shard[i].kind = truth[e].type
    BY <2>1 DEF EventOf
  <2>3. truth[e].type \in EventTypes
    <3>1. truth \in Seq(Entries)
      BY DEF TypeInv
    <3>2. truth[e] \in Entries
      BY <3>1
    <3> QED
      BY <3>2 DEF Entries
  <2> QED
    BY <1>6, <1>7, <2>2, <2>3 DEF EventTypes
<1>10. shard[i].kind = i[1]
  BY <1>5, <1>9 DEF KindsInv
<1> QED
  BY <1>2, <1>6, <1>7, <1>8, <1>10

\* What a request goes over to has nothing to rewrite yet, and nothing to project.
LEMMA OverFresh ==
  ASSUME TypeInv, NEW t \in Turns, GoesOver(t), NEW a \in Actors, NEW n \in DOMAIN todo'[a]
  PROVE  KeptOf(a, n) \/ todo'[a][n].do \notin {"rewrite", "project"}
<1>0. /\ OfRequest \ (Completing \cup Deferred) \subseteq OfRequest \ Deferred
      /\ OfRequest \ (Completing \cup Reaping \cup Deferred) \subseteq OfRequest \ Deferred
      /\ OfRequest \ (Reaping \cup Deferred) \subseteq OfRequest \ Deferred
  OBVIOUS
<1>1. PICK p : todo' = [todo EXCEPT ![T(t)] = p] /\ p \in Seq(OfRequest \ Deferred)
  <2>1. RecordTurn(t) \in Seq(OfRequest \ Deferred)
    BY <1>0, RecordTurnIs, Larger
  <2>2. Failed(t) \in Seq(OfRequest \ Deferred) /\ Cancelled \in Seq(OfRequest \ Deferred)
    BY <1>0, FailedIs, CancelledIs, Larger
  <2>3. Step("check") \in Seq(OfRequest \ Deferred)
    BY DEF Step, OfRequest, Deferred, Rewriting, Projecting
  <2>4. \A s \in {"completed", "failed"} : Answered(s) \in Seq(OfRequest \ Deferred)
    BY <1>0, AnsweredIs, Larger
  <2> QED
    BY <2>1, <2>2, <2>3, <2>4, Zenon DEF GoesOver
<1>2. todo'[T(t)] = p /\ \A b \in Actors \ {T(t)} : todo'[b] = todo[b]
  BY <1>1, TurnGoesOver
<1>3. CASE a = T(t)
  <2>1. OfActor(a) = OfRequest
    BY <1>3, ActorsAre
  <2>2. p \in Seq(OfActor(a) \ Deferred)
    BY <1>1, <2>1
  <2>3. p[n].do \notin {"rewrite", "project"}
    BY <1>2, <1>3, <2>2, NotDeferred
  <2> QED
    BY <1>2, <1>3, <2>3
<1>4. CASE a # T(t)
  BY <1>2, <1>4 DEF KeptOf
<1> QED
  BY <1>3, <1>4

\* A close that begins or kills has nothing more to rewrite than before.
LEMMA CloserFresh ==
  ASSUME TypeInv, NEW n \in DOMAIN todo'[Closer],
         \/ BeginClose \/ KillWorkers \/ UNCHANGED vars
         \/ \E t \in Turns : \/ Conclude(t) \/ Report(t) \/ WorkerDies(t) \/ Delta(t)
                             \/ LoadProduct(t) \/ LoadShard(t)
  PROVE  KeptOf(Closer, n) \/ todo'[Closer][n].do \notin {"rewrite", "project"}
<1>0. DOMAIN todo = Actors /\ Closer \in Actors /\ OfActor(Closer) = OfClose
      /\ \A t \in Turns : W(t) # Closer
  BY ActorsAre DEF TypeInv, Programs
<1>1. CASE BeginClose
  <2>1. todo'[Closer] = ForceClose
    BY <1>0, <1>1 DEF BeginClose
  <2>2. ForceClose \in Seq(OfActor(Closer) \ Deferred)
    BY <1>0, ForceCloseIs
  <2>3. ForceClose[n].do \notin {"rewrite", "project"}
    BY <1>0, <2>1, <2>2, NotDeferred
  <2> QED
    BY <2>1, <2>3
<1>2. CASE KillWorkers
  <2>1. todo'[Closer] = Tail(todo[Closer]) /\ todo[Closer] \in Seq(OfClose) /\ todo[Closer] # <<>>
    BY <1>0, <1>2, KilledIs DEF TypeInv, Programs, KillWorkers, Doing
  <2>2. \A i \in DOMAIN Tail(todo[Closer]) : i + 1 \in DOMAIN todo[Closer] /\ Tail(todo[Closer])[i] = todo[Closer][i + 1]
    BY <2>1, FirstIs
  <2> QED
    BY <2>1, <2>2 DEF KeptOf
<1>3. CASE \E t \in Turns : Conclude(t) \/ WorkerDies(t)
  <2>1. PICK t \in Turns : \E p : todo' = [todo EXCEPT ![W(t)] = p]
    BY <1>3 DEF Conclude, WorkerDies
  <2> QED
    BY <1>0, <2>1 DEF KeptOf
<1>4. CASE \/ UNCHANGED vars
           \/ \E t \in Turns : Report(t) \/ Delta(t) \/ LoadProduct(t) \/ LoadShard(t)
  <2>1. UNCHANGED todo
    BY <1>4 DEF vars, Report, Delta, LoadProduct, LoadShard
  <2> QED
    BY <2>1 DEF KeptOf
<1> QED
  BY <1>1, <1>2, <1>3, <1>4

\* While a turn waits for its result nothing of the shard is to be rewritten.
LEMMA NothingPending ==
  ASSUME TypeInv, ShapeInv, FaithfulInv, NEW t \in Turns, Delta(t),
         NEW a \in Actors, NEW n \in DOMAIN todo[a], todo[a][n].do = "rewrite", todo[a][n].id \in ShardIds
  PROVE  FALSE
<1>1. PICK u \in Turns : a = T(u)
  BY DEF FaithfulInv, Faithful
<1>2. Doing(T(t), "reap") /\ Programs(todo) /\ T(t) \in Actors
  BY ActorsAre DEF Delta, TypeInv
<1>3. todo[T(t)] # <<>> /\ todo[T(t)][1].do = "reap" /\ 1 \in DOMAIN todo[T(t)]
  BY <1>2, DoingIs
<1>4. todo[T(u)] # <<>>
  BY <1>1
<1>5. u = t
  BY <1>3, <1>4 DEF ShapeInv
<1>6. WaitsSo(todo[T(t)])
  BY DEF ShapeInv
<1>7. todo[T(t)][n].do \in {"say", "queue", "run", "spawn", "reap"}
  BY <1>1, <1>3, <1>5, <1>6 DEF WaitsSo
<1> QED
  BY <1>1, <1>5, <1>7

\* What a program has to do after a step, faithful to the shard before it.
IsFaithful(a, n) ==
  KeptOf(a, n) \/ (Faithful(a, todo'[a][n]) /\ (shard' = shard \/ todo'[a][n].do # "rewrite"))

\* Whatever a program has to do after a step was there before or is faithful.
LEMMA FaithfulNew ==
  ASSUME TypeInv, OrderInv, PhaseInv, ShapeInv, KindsInv, [Next]_vars,
         NEW a \in Actors, NEW n \in DOMAIN todo'[a]
  PROVE  IsFaithful(a, n)
<1>0. todo'[a][n].do # "rewrite" => IsFaithful(a, n)
  BY DEF IsFaithful, Faithful
<1>1. ASSUME NEW b \in Actors, NEW q, GoOn(b, q), \A k \in DOMAIN q : q[k].do # "rewrite"
      PROVE  IsFaithful(a, n)
  <2>1. KeptOf(a, n) \/ \E k \in DOMAIN q : todo'[a][n] = q[k]
    BY <1>1, NewOnly DEF KeptOf
  <2> QED
    BY <1>0, <1>1, <2>1 DEF IsFaithful
<1>2. ASSUME NEW b \in Actors, GoOn(b, <<>>)
      PROVE  IsFaithful(a, n)
  BY <1>1, <1>2
<1>3. ASSUME NEW b \in Actors, ListMessages(b)
      PROVE  IsFaithful(a, n)
  <2>1. PICK q : GoOn(b, q) /\ RewritesAll(b, q)
    BY <1>3, ListGoesOn
  <2>2. shard' = shard /\ Head(todo[b]).do = "list"
    BY <1>3 DEF ListMessages, Doing, feed
  <2>3. KeptOf(a, n) \/ (b = a /\ \E k \in DOMAIN q : todo'[a][n] = q[k])
    BY <2>1, NewOnly DEF KeptOf
  <2>4. \A k \in DOMAIN q : Faithful(b, q[k])
    BY <2>1, <2>2, ListedFaithful
  <2> QED
    BY <2>2, <2>3, <2>4 DEF IsFaithful
<1>4. ASSUME NEW t \in Turns, Snapshot(t)
      PROVE  IsFaithful(a, n)
  <2> DEFINE q == Project(SubSeq(truth, 1, snap[t]), hide[t])
  <2>1. GoOn(T(t), q)
    BY <1>4, SnapshotGoesOn
  <2>2. \A k \in DOMAIN q : q[k].do # "rewrite"
    BY DEF Project
  <2> HIDE DEF q
  <2> QED
    BY <1>1, <2>1, <2>2, ActorsAre
<1>5. ASSUME ProjectOwn
      PROVE  IsFaithful(a, n)
  <2>1. PICK q \in Seq(Projecting) : GoOn(Closer, q)
    BY <1>5, OwnGoesOn
  <2>2. \A k \in DOMAIN q : q[k].do # "rewrite"
    <3>1. \A k \in DOMAIN q : q[k] \in Projecting
      OBVIOUS
    <3> QED
      BY <3>1 DEF Projecting
  <2> QED
    BY <1>1, <2>1, <2>2, ActorsAre
<1>6. ASSUME ReadTruth
      PROVE  IsFaithful(a, n)
  <2> DEFINE p == Project(truth, FALSE)
             S == Projecting \cup Listing({"phase"})
  <2>1. PICK more \in Seq(Listing({"phase"})) : p \in Seq(Projecting) /\ GoOn(Repairer, p \o more)
    BY <1>6, ReadGoesOn
  <2> HIDE DEF p
  <2>2. p \in Seq(S) /\ more \in Seq(S)
    BY <2>1, Larger
  <2>3. p \o more \in Seq(S)
    BY <2>2, Together
  <2> DEFINE q == p \o more
  <2>4. q \in Seq(S) /\ GoOn(Repairer, q)
    BY <2>1, <2>3
  <2> HIDE DEF q
  <2>5. \A k \in DOMAIN q : q[k].do # "rewrite"
    <3>1. \A k \in DOMAIN q : q[k] \in S
      BY <2>4
    <3> QED
      BY <3>1 DEF Projecting, Listing
  <2> QED
    BY <1>1, <2>4, <2>5, ActorsAre
<1>7. ASSUME NEW t \in Turns, GoesOver(t)
      PROVE  IsFaithful(a, n)
  <2>1. KeptOf(a, n) \/ todo'[a][n].do \notin {"rewrite", "project"}
    BY <1>7, OverFresh
  <2> QED
    BY <1>0, <2>1 DEF IsFaithful
<1>8. ASSUME NEW t \in Turns, a = W(t)
      PROVE  IsFaithful(a, n)
  <2>1. Programs(todo')
    BY TypeStep DEF OrderInv, TypeInv
  <2>2. todo'[a] \in Seq(OfWorker)
    BY <1>8, <2>1, ActorsAre DEF Programs
  <2>3. todo'[a][n] \in OfWorker
    BY <2>2
  <2> QED
    BY <1>0, <2>3 DEF OfWorker
<1>9. ASSUME Leaves,
             \/ BeginClose \/ KillWorkers \/ UNCHANGED vars
             \/ \E t \in Turns : \/ Conclude(t) \/ Report(t) \/ WorkerDies(t) \/ Delta(t)
                                 \/ LoadProduct(t) \/ LoadShard(t)
      PROVE  IsFaithful(a, n)
  <2>1. CASE a = Closer
    <3>1. KeptOf(Closer, n) \/ todo'[Closer][n].do \notin {"rewrite", "project"}
      BY <1>9, <2>1, CloserFresh
    <3> QED
      BY <1>0, <2>1, <3>1 DEF IsFaithful
  <2>2. CASE \E t \in Turns : a = W(t)
    BY <1>8, <2>2
  <2>3. CASE a = Repairer \/ \E t \in Turns : a = T(t)
    <3>1. todo'[a] = todo[a]
      BY <1>9, <2>3 DEF Leaves
    <3> QED
      BY <3>1 DEF IsFaithful, KeptOf
  <2> QED
    BY <2>1, <2>2, <2>3, EveryActor
<1>10. ASSUME NEW t \in Turns, SpawnWorker(t)
      PROVE  IsFaithful(a, n)
  <2>1. /\ todo'[T(t)] = <<>> \o Tail(todo[T(t)]) /\ todo[T(t)] \in Seq(OfRequest) /\ todo[T(t)] # <<>>
        /\ \A b \in Actors \ {T(t), W(t)} : todo'[b] = todo[b]
    BY <1>10, SpawnGoesOn
  <2>2. CASE a = T(t)
    <3>1. Tail(todo[T(t)]) \in Seq(OfRequest)
          /\ \A i \in DOMAIN Tail(todo[T(t)]) : i + 1 \in DOMAIN todo[T(t)] /\ Tail(todo[T(t)])[i] = todo[T(t)][i + 1]
      BY <2>1, FirstIs
    <3>2. todo'[T(t)] = Tail(todo[T(t)])
      BY <2>1, <3>1, NothingBefore
    <3> QED
      BY <2>2, <3>1, <3>2 DEF IsFaithful, KeptOf
  <2>3. CASE a # T(t) /\ a # W(t)
    BY <2>1, <2>3 DEF IsFaithful, KeptOf
  <2> QED
    BY <1>8, <2>2, <2>3
<1>11. ASSUME Restart
      PROVE  IsFaithful(a, n)
  <2>1. CASE \E t \in Turns : a = W(t)
    BY <1>8, <2>1
  <2>2. CASE a = Repairer
    <3>1. todo'[a] = Step("read")
      BY <1>11, <2>2, RestartIs
    <3>2. todo'[a][n].do = "read"
      BY <3>1 DEF Step
    <3> QED
      BY <1>0, <3>2
  <2>3. CASE a = Closer \/ \E t \in Turns : a = T(t)
    <3>1. todo'[a] = <<>>
      BY <1>11, <2>3, RestartIs
    <3> QED
      BY <3>1
  <2> QED
    BY <2>1, <2>2, <2>3, EveryActor
<1>12. ASSUME NEW t \in Turns,
             \/ BeginTurn(t) \/ QueueRun(t) \/ SetRunStatus(t) \/ SpawnWorker(t) \/ SpawnFails(t)
             \/ Conclude(t) \/ Report(t) \/ WorkerDies(t) \/ Delta(t)
             \/ Reap(t) \/ CheckClosed(t) \/ Snapshot(t) \/ LoadProduct(t) \/ LoadShard(t)
      PROVE  IsFaithful(a, n)
  <2>1. CASE BeginTurn(t) \/ SpawnFails(t) \/ Reap(t) \/ CheckClosed(t)
    BY <1>7, <2>1, OversAre
  <2>2. CASE QueueRun(t) \/ SetRunStatus(t)
    BY <1>2, <2>2, RunGoesOn, ActorsAre
  <2>3. CASE Conclude(t) \/ Report(t) \/ WorkerDies(t) \/ Delta(t) \/ LoadProduct(t) \/ LoadShard(t)
    BY <1>9, <2>3, LeavesAre
  <2> QED
    BY <1>4, <1>10, <1>12, <2>1, <2>2, <2>3
<1>13. ASSUME NEW b \in Actors,
             \/ SelectMax(b) \/ Insert(b) \/ ProjectEvent(b)
             \/ SayMessage(b) \/ ListMessages(b) \/ RewriteMessage(b)
      PROVE  IsFaithful(a, n)
  BY <1>2, <1>3, <1>13, ActorGoesOn
<1>14. ASSUME \/ BeginClose \/ ProjectOwn \/ FlagRuns \/ KillWorkers \/ Restart \/ ReadTruth
             \/ UNCHANGED vars
      PROVE  IsFaithful(a, n)
  <2>1. CASE BeginClose \/ KillWorkers \/ UNCHANGED vars
    BY <1>9, <2>1, LeavesAre
  <2>2. CASE FlagRuns
    BY <1>2, <2>2, RunGoesOn, ActorsAre
  <2> QED
    BY <1>5, <1>6, <1>11, <1>14, <2>1, <2>2
<1> QED
  BY <1>12, <1>13, <1>14 DEF Next

\* Every step leaves to be rewritten what is faithful to the shard.
LEMMA FaithfulStep ==
  ASSUME TypeInv, OrderInv, PhaseInv, ShapeInv, TextInv, [Next]_vars
  PROVE  FaithfulInv'
<1>0. KindsInv /\ FaithfulInv
  BY DEF TextInv
<1>1. Writes
  BY <1>0, StepWrites
<1> SUFFICES ASSUME NEW a \in Actors, NEW n \in DOMAIN todo'[a],
                    todo'[a][n].do = "rewrite", todo'[a][n].id \in ShardIds
             PROVE  /\ \E t \in Turns : a = T(t)
                    /\ todo'[a][n].id[1] \in {"answer", "reasoning"}
                    /\ todo'[a][n].m.kind = todo'[a][n].id[1]
                    /\ todo'[a][n].m.text = shard'[todo'[a][n].id].text
  BY DEF FaithfulInv, Faithful
<1> DEFINE s == todo'[a][n]
           i == s.id
<1>2. IsFaithful(a, n)
  BY <1>0, FaithfulNew
<1>3. Faithful(a, s)
  BY <1>0, <1>2 DEF IsFaithful, KeptOf, FaithfulInv
<1>4. /\ \E t \in Turns : a = T(t)
      /\ i[1] \in {"answer", "reasoning"} /\ s.m.kind = i[1] /\ s.m.text = shard[i].text
  BY <1>3 DEF Faithful
<1>5. shard'[i].text = shard[i].text
  <2>1. CASE shard' = shard
    BY <2>1
  <2>2. CASE shard' # shard
    <3>1. KeptOf(a, n)
      BY <1>2, <2>2 DEF IsFaithful
    <3>2. PICK k \in DOMAIN todo[a] : s = todo[a][k]
      BY <3>1 DEF KeptOf
    <3>3. PICK id, m : Writing(id, m)
      BY <1>1, <2>2 DEF Writes
    <3>4. ~Streams(id, m)
      BY <1>0, <3>2, NothingPending DEF Streams
    <3>5. Fits(id, m) /\ AppendTo(id, m) /\ Restates(id, m)
      BY <3>3, <3>4 DEF Writing
    <3>6. i \in DOMAIN shard
      <4>1. Backed(s)
        BY <3>2 DEF OrderInv, BackedInv
      <4>2. i \in DOMAIN Store
        BY <4>1 DEF Backed
      <4>3. DOMAIN Store = DOMAIN product \cup DOMAIN shard /\ DOMAIN product \subseteq ProductIds
        <5> DEFINE S == Merged(product, shard)
        <5>1. IsProduct(product) /\ IsShard(shard)
          BY DEF TypeInv
        <5>2. DOMAIN product \subseteq ProductIds
          BY <5>1 DEF IsProduct
        <5>3. /\ DOMAIN S = DOMAIN product \cup DOMAIN shard
              /\ IsFiniteSet(DOMAIN S)
              /\ \A j \in DOMAIN product : j \notin DOMAIN shard /\ S[j] = product[j]
              /\ \A j \in DOMAIN shard : j \notin DOMAIN product /\ S[j] = shard[j]
              /\ \A j \in DOMAIN S : S[j] \in ProductMessages \cup ShardMessages
          BY <5>1, MergedIs
        <5>4. Store = S
          BY DEF Store
        <5> HIDE DEF S
        <5> QED
          BY <5>2, <5>3, <5>4
      <4> QED
        BY <4>2, <4>3, KindsApart
    <3> HIDE DEF i
    <3>7. /\ DOMAIN shard \subseteq DOMAIN shard'
          /\ \A j \in DOMAIN shard : j # id => shard'[j] = shard[j]
          /\ id \in DOMAIN shard' => shard'[id].text = m.text
      BY <3>5, ShardAfter
    <3>8. CASE i = id
      BY <1>4, <3>5, <3>6, <3>7, <3>8 DEF Restates
    <3>9. CASE i # id
      BY <3>6, <3>7, <3>9
    <3> QED
      BY <3>8, <3>9
  <2> QED
    BY <2>1, <2>2
<1> QED
  BY <1>4, <1>5

\* Where an answer is streamed after a step, its turn has its worker.
LEMMA StreamedStep ==
  ASSUME TypeInv, OrderInv, ClosedInv, PhaseInv, ShapeInv, TextInv, [Next]_vars
  PROVE  StreamedInv'
<1>0. FaithfulInv /\ StreamedInv
  BY DEF TextInv
<1>1. Writes
  BY <1>0, StepWrites
<1> SUFFICES ASSUME NEW t \in Turns, <<"answer", t>> \in DOMAIN shard'
             PROVE  /\ stream'[t].pc # "off" /\ ~Has(t, "spawn")'
                    /\ shard'[<<"answer", t>>].text \in {Part, answer'[t]}
  BY DEF StreamedInv
<1> DEFINE i == <<"answer", t>>
<1>2. /\ i \in DOMAIN shard => /\ stream[t].pc # "off" /\ ~Has(t, "spawn")
                               /\ shard[i].text \in {Part, answer[t]}
      /\ i[1] = "answer" /\ i[2] = t /\ i \in DOMAIN shard'
  BY <1>0 DEF StreamedInv
<1> HIDE DEF i
<1>3. stream[t].pc # "off" /\ ~Has(t, "spawn") /\ shard'[i].text \in {Part, answer[t]}
  <2>1. CASE shard' = shard
    BY <1>2, <2>1
  <2>2. CASE shard' # shard
    <3>1. PICK id, m : Writing(id, m)
      BY <1>1, <2>2 DEF Writes
    <3>2. Fits(id, m) /\ AppendTo(id, m) /\ (Restates(id, m) \/ Streams(id, m))
      BY <3>1 DEF Writing
    <3>3. /\ DOMAIN shard' \subseteq DOMAIN shard \cup {id}
          /\ \A j \in DOMAIN shard : j # id => shard'[j] = shard[j]
          /\ id \in DOMAIN shard' => shard'[id].text = m.text
      BY <3>2, ShardAfter
    <3>4. CASE i # id
      BY <1>2, <3>3, <3>4
    <3>5. CASE i = id /\ Restates(id, m)
      BY <1>2, <3>3, <3>5 DEF Restates
    <3>6. CASE i = id /\ Streams(id, m)
      <4>1. PICK u \in Turns : Delta(u) /\ id[2] = u /\ m.text \in {Part, answer[u]}
        BY <3>6 DEF Streams
      <4>2. u = t
        BY <1>2, <3>6, <4>1
      <4>3. Doing(T(t), "reap") /\ Programs(todo) /\ T(t) \in Actors
        BY <4>1, <4>2, ActorsAre DEF Delta, TypeInv
      <4>4. stream[t].pc # "off"
        BY <4>3, NotYet
      <4>5. todo[T(t)][1].do = "reap" /\ 1 \in DOMAIN todo[T(t)] /\ EndsSo(todo[T(t)])
        BY <4>3, DoingIs DEF ShapeInv
      <4>6. Len(todo[T(t)]) = 1
        BY <4>5 DEF EndsSo, Ending
      <4>7. todo[T(t)] \in Seq(OfRequest)
        BY ActorsAre DEF TypeInv, Programs
      <4>8. \A n \in DOMAIN todo[T(t)] : n = 1
        BY <4>6, <4>7
      <4>9. ~Has(t, "spawn")
        BY <4>5, <4>8 DEF Has
      <4> QED
        BY <1>2, <3>3, <3>6, <4>1, <4>2, <4>4, <4>9
    <3> QED
      BY <3>2, <3>4, <3>5, <3>6
  <2> QED
    BY <2>1, <2>2
<1>4. stream'[t].pc # "off"
  BY <1>3, StreamStays
<1>5. ~Has(t, "spawn")'
  BY <1>3, SpawnBefore
<1>6. answer'[t] = answer[t]
  BY <1>3, ReportedStays
<1> QED
  BY <1>3, <1>4, <1>5, <1>6 DEF i

\* What is streamed after a step is of a turn.
LEMMA StreamersStep ==
  ASSUME TypeInv, OrderInv, TextInv, [Next]_vars
  PROVE  StreamersInv'
<1>0. FaithfulInv /\ StreamersInv
  BY DEF TextInv
<1>1. Writes
  BY <1>0, StepWrites
<1>2. CASE shard' = shard
  BY <1>0, <1>2 DEF StreamersInv
<1>3. CASE shard' # shard
  <2>1. PICK id, m : Writing(id, m)
    BY <1>1, <1>3 DEF Writes
  <2>2. Fits(id, m) /\ AppendTo(id, m) /\ (Restates(id, m) \/ Streams(id, m))
    BY <2>1 DEF Writing
  <2>3. DOMAIN shard' \subseteq DOMAIN shard \cup {id}
    BY <2>2, ShardAfter
  <2>4. id[1] = "answer" => id \in DOMAIN shard \/ id[2] \in Turns
    BY <2>2 DEF Restates, Streams
  <2> QED
    BY <1>0, <2>3, <2>4 DEF StreamersInv
<1> QED
  BY <1>2, <1>3

\* Every step leaves the texts of the shard, and what is to be rewritten there.
LEMMA TextStep ==
  ASSUME TypeInv, OrderInv, ClosedInv, PhaseInv, ShapeInv, TextInv, [Next]_vars
  PROVE  TextInv'
<1>1. KindsInv'
  <2>1. KindsInv /\ FaithfulInv
    BY DEF TextInv
  <2>2. Grows /\ Writes
    BY <2>1, StepGrows, StepWrites
  <2>3. \/ shard' = shard
        \/ \E id, m : /\ Fits(id, m) /\ AppendTo(id, m)
                      /\ id \in ShardIds => TellsKind(id, m)
    BY <2>2 DEF Writes, Writing
  <2> QED
    BY <2>1, <2>2, <2>3, KindsAfter
<1> QED
  BY <1>1, FaithfulStep, StreamedStep, StreamersStep DEF TextInv

---------------------------------------------------------------------------
(* The answers: an answer that is shown stays so.                           *)

\* An answer in the feed was streamed there, by the turn or by one that reads alike.
LEMMA StreamIsShown ==
  ASSUME TypeInv, TextInv, NEW t \in Turns, StreamHolds(answer[t])
  PROVE  Shown(t)
<1>0. KindsInv /\ StreamedInv /\ StreamersInv
  BY DEF TextInv
<1>1. PICK i \in DOMAIN Store : Store[i].kind = "answer" /\ Store[i].text = answer[t]
  BY DEF StreamHolds
<1>2. IsProduct(product) /\ IsShard(shard)
  BY DEF TypeInv
<1>3. DOMAIN Store = DOMAIN product \cup DOMAIN shard /\ \A j \in DOMAIN product : Store[j] = product[j]
  <2> DEFINE S == Merged(product, shard)
  <2>1. /\ DOMAIN S = DOMAIN product \cup DOMAIN shard
        /\ IsFiniteSet(DOMAIN S)
        /\ \A j \in DOMAIN product : j \notin DOMAIN shard /\ S[j] = product[j]
        /\ \A j \in DOMAIN shard : j \notin DOMAIN product /\ S[j] = shard[j]
        /\ \A j \in DOMAIN S : S[j] \in ProductMessages \cup ShardMessages
    BY <1>2, MergedIs
  <2> HIDE DEF S
  <2>2. Store = S
    BY DEF Store, S
  <2> QED
    BY <2>1, <2>2
<1>4. \A j \in DOMAIN shard : j \in DOMAIN Store /\ Store[j] = shard[j]
  BY <1>2, SortsAreNat
<1>5. \A j \in DOMAIN product : product[j].kind # "answer"
  <2>1. \A j \in DOMAIN product : product[j] \in ProductMessages
    BY <1>2 DEF IsProduct
  <2> QED
    BY <2>1, KindsApart DEF InShard
<1>6. i \in DOMAIN shard /\ shard[i].kind = "answer" /\ shard[i].text = answer[t]
  BY <1>1, <1>3, <1>4, <1>5
<1>7. ~IsEvt(i)
  <2> SUFFICES ASSUME IsEvt(i)
               PROVE  FALSE
    OBVIOUS
  <2>1. EventOf(i)
    BY <1>0, <1>6 DEF KindsInv
  <2>2. PICK e \in DOMAIN truth : shard[i].kind = truth[e].type
    BY <2>1 DEF EventOf
  <2>3. truth \in Seq(Entries)
    BY DEF TypeInv
  <2>4. truth[e] \in Entries
    BY <2>3
  <2> QED
    BY <1>6, <2>2, <2>4 DEF Entries, EventTypes
<1>8. i[1] = "answer"
  BY <1>0, <1>6, <1>7 DEF KindsInv
<1>9. PICK u \in Turns : i = <<"answer", u>>
  <2>1. i \in ShardIds
    BY <1>2, <1>6 DEF IsShard
  <2>2. i[2] \in Turns
    BY <1>0, <1>6, <1>8 DEF StreamersInv
  <2>3. i = <<"answer", i[2]>>
    BY <1>8, <2>1 DEF ShardIds
  <2> QED
    BY <2>2, <2>3
<1>11. CASE u = t
  BY <1>6, <1>9, <1>11 DEF Shown, ShownByOwn, OwnMessages
<1>12. CASE u # t
  BY <1>6, <1>9, <1>12 DEF Shown, Alike
<1> QED
  BY <1>11, <1>12

\* Where nothing is written, logged or answered what is shown stays so.
LEMMA ShownSame ==
  ASSUME NEW t \in Turns, UNCHANGED <<shard, truth, answer, stream>>, Shown(t)
  PROVE  Shown(t)'
BY DEF Shown, ShownByOwn, OwnMessages, AnswersOf, Alike

\* The events with the answer of a turn stay in the log.
LEMMA OwnStays ==
  ASSUME TypeInv, [Next]_vars, NEW t
  PROVE  /\ OwnMessages(t) \subseteq OwnMessages(t)'
         /\ Doubled(t) => Doubled(t)'
<1>1. \A e \in DOMAIN truth : e \in DOMAIN truth' /\ truth'[e] = truth[e]
  BY StepGrows DEF Grows
<1>2. \A e \in AnswersOf(t) : e \in DOMAIN truth /\ e \in AnswersOf(t)'
  BY <1>1 DEF AnswersOf
<1>3. OwnMessages(t) \subseteq OwnMessages(t)'
  BY <1>1, <1>2 DEF OwnMessages
<1>4. Doubled(t) => Doubled(t)'
  BY <1>1, <1>2 DEF Doubled
<1> QED
  BY <1>3, <1>4

\* A streamed answer is overwritten only by its own turn, and not once it is complete.
LEMMA StreamedStays ==
  ASSUME TypeInv, OrderInv, TextInv, [Next]_vars,
         NEW t \in Turns, NEW u \in Turns, <<"answer", u>> \in DOMAIN shard,
         shard[<<"answer", u>>].text = answer[t], u = t \/ answer[t] # Part
  PROVE  /\ <<"answer", u>> \in DOMAIN shard'
         /\ shard'[<<"answer", u>>].text = answer[t]
<1> DEFINE i == <<"answer", u>>
<1>0. FaithfulInv /\ StreamedInv
  BY DEF TextInv
<1>1. i[1] = "answer" /\ i[2] = u /\ i \in DOMAIN shard /\ shard[i].text = answer[t]
      /\ shard[i].text \in {Part, answer[u]}
  BY <1>0 DEF StreamedInv
<1> HIDE DEF i
<1>2. Writes
  BY <1>0, StepWrites
<1>3. CASE shard' = shard
  BY <1>1, <1>3 DEF i
<1>4. CASE shard' # shard
  <2>1. PICK id, m : Writing(id, m)
    BY <1>2, <1>4 DEF Writes
  <2>2. Fits(id, m) /\ AppendTo(id, m) /\ (Restates(id, m) \/ Streams(id, m))
    BY <2>1 DEF Writing
  <2>3. /\ DOMAIN shard \subseteq DOMAIN shard'
        /\ \A j \in DOMAIN shard : j # id => shard'[j] = shard[j]
        /\ id \in DOMAIN shard' => shard'[id].text = m.text
    BY <2>2, ShardAfter
  <2>4. CASE i # id
    BY <1>1, <2>3, <2>4 DEF i
  <2>5. CASE i = id /\ Restates(id, m)
    BY <1>1, <2>3, <2>5 DEF Restates, i
  <2>6. CASE i = id /\ Streams(id, m)
    <3>1. shard[i].text \notin {m.text, answer[u]}
      BY <1>1, <2>6 DEF Streams
    <3> QED
      BY <1>1, <3>1
  <2> QED
    BY <2>2, <2>4, <2>5, <2>6
<1> QED
  BY <1>3, <1>4

\* A turn that reads like another goes on to.
LEMMA AlikeStays ==
  ASSUME TypeInv, OrderInv, TextInv, [Next]_vars,
         NEW t \in Turns, answer'[t] = answer[t], Alike(t)
  PROVE  Alike(t)'
<1>1. PICK u \in Turns \ {t} : /\ <<"answer", u>> \in DOMAIN shard
                               /\ answer[t] \in {Part, shard[<<"answer", u>>].text}
  BY DEF Alike
<1>2. CASE answer[t] = Part
  <2>1. Writes
    BY StepWrites DEF TextInv
  <2>2. DOMAIN shard \subseteq DOMAIN shard'
    BY <2>1, ShardAfter DEF Writes, Writing
  <2> QED
    BY <1>1, <1>2, <2>2 DEF Alike
<1>3. CASE answer[t] # Part
  <2>1. <<"answer", u>> \in DOMAIN shard' /\ shard'[<<"answer", u>>].text = answer[t]
    BY <1>1, <1>3, StreamedStays
  <2> QED
    BY <1>1, <2>1 DEF Alike
<1> QED
  BY <1>2, <1>3

\* The message of an event that alone has its number is overwritten only by itself.
LEMMA EventStays ==
  ASSUME TypeInv, OrderInv, TextInv, [Next]_vars, NEW t \in Turns, NEW e \in AnswersOf(t),
         <<"evt", truth[e].seq>> \in DOMAIN shard, ~Doubled(t)
  PROVE  /\ <<"evt", truth[e].seq>> \in DOMAIN shard'
         /\ shard'[<<"evt", truth[e].seq>>].text = shard[<<"evt", truth[e].seq>>].text
         /\ shard'[<<"evt", truth[e].seq>>].kind = shard[<<"evt", truth[e].seq>>].kind
<1> DEFINE i == <<"evt", truth[e].seq>>
<1>0. KindsInv /\ FaithfulInv
  BY DEF TextInv
<1>1. IsEvt(i) /\ i \in DOMAIN shard /\ e \in DOMAIN truth
  BY DEF IsEvt, AnswersOf
<1>2. \A f \in DOMAIN truth : <<"evt", truth[f].seq>> = i => f = e
  BY DEF Doubled
<1> HIDE DEF i
<1>3. shard[i].text = truth[e].text /\ shard[i].kind = truth[e].type
  <2>1. EventOf(i)
    BY <1>0, <1>1 DEF KindsInv
  <2> QED
    BY <1>2, <2>1 DEF EventOf
<1>4. Writes
  BY <1>0, StepWrites
<1>5. CASE shard' = shard
  BY <1>1, <1>5 DEF i
<1>6. CASE shard' # shard
  <2>1. PICK id, m : Writing(id, m)
    BY <1>4, <1>6 DEF Writes
  <2>2. Fits(id, m) /\ AppendTo(id, m) /\ (id \in ShardIds => TellsKind(id, m))
    BY <2>1 DEF Writing
  <2>3. /\ DOMAIN shard \subseteq DOMAIN shard'
        /\ \A j \in DOMAIN shard : j # id => shard'[j] = shard[j]
        /\ id \in DOMAIN shard' => id \in ShardIds /\ shard'[id].kind = m.kind /\ shard'[id].text = m.text
    BY <2>2, ShardAfter
  <2>4. CASE i # id
    BY <1>1, <2>3, <2>4 DEF i
  <2>5. CASE i = id
    <3>1. TellsKind(id, m)
      BY <1>1, <2>2, <2>3, <2>5
    <3>2. m.text = truth[e].text /\ m.kind = truth[e].type
      BY <1>1, <1>2, <2>5, <3>1 DEF TellsKind
    <3> QED
      BY <1>1, <1>3, <2>3, <2>5, <3>2 DEF i
  <2> QED
    BY <2>4, <2>5
<1> QED
  BY <1>5, <1>6

\* An answer that is shown stays so: nothing is written over it but itself.
LEMMA ShownStays ==
  ASSUME TypeInv, OrderInv, PhaseInv, ShapeInv, TextInv, [Next]_vars, TextInv',
         NEW t \in Turns, worker[t] # "off", Shown(t), ~Doubled(t)
  PROVE  Shown(t)'
<1>1. answer'[t] = answer[t] /\ OwnMessages(t) \subseteq OwnMessages(t)'
  BY ReportedStays, OwnStays
<1>2. CASE ShownByOwn(t)
  <2>1. PICK i \in DOMAIN shard \cap OwnMessages(t) :
           shard[i].text = answer[t] /\ shard[i].kind \in {"answer", "answered"}
    BY <1>2 DEF ShownByOwn
  <2>2. i \in DOMAIN shard' /\ shard'[i].text = answer[t] /\ shard'[i].kind \in {"answer", "answered"}
    <3>1. CASE i = <<"answer", t>>
      <4>1. i \in DOMAIN shard' /\ shard'[i].text = answer[t]
        BY <2>1, <3>1, StreamedStays
      <4>2. KindsInv' /\ i[1] = "answer"
        BY <3>1 DEF TextInv
      <4>3. shard'[i].kind = "answer"
        BY <4>1, <4>2 DEF KindsInv, IsEvt
      <4> QED
        BY <4>1, <4>3
    <3>2. CASE \E e \in AnswersOf(t) : i = <<"evt", truth[e].seq>>
      BY <2>1, <3>2, EventStays
    <3> QED
      BY <2>1, <3>1, <3>2 DEF OwnMessages
  <2>3. ShownByOwn(t)'
    BY <1>1, <2>1, <2>2 DEF ShownByOwn
  <2> QED
    BY <2>3 DEF Shown
<1>3. CASE Alike(t)
  BY <1>1, <1>3, AlikeStays DEF Shown
<1> QED
  BY <1>2, <1>3 DEF Shown

\* An answer that is projected is shown.
LEMMA ProjectShows ==
  ASSUME TypeInv, OrderInv, TextInv, NEW a \in Actors, ProjectEvent(a), NEW t \in Turns,
         Shows(Head(todo[a]), t)
  PROVE  Shown(t)'
<1> DEFINE s == Head(todo[a])
           id == <<"evt", s.event.seq>>
           m == Message(s.event.type, "completed", s.event.text, s.event.at)
<1>1. /\ s \in Projecting
      /\ \/ Projected(s.event, s.suppress) /\ AppendTo(id, m) /\ Fits(id, m)
         \/ ~Projected(s.event, s.suppress) /\ UNCHANGED feed
  BY ProjectedIs
<1>2. /\ ~s.suppress /\ s.event.type = "answered" /\ s.event.turn = t /\ s.event.text = answer[t]
      /\ UNCHANGED <<truth, answer, stream>>
  BY DEF Shows, IsAnswer, ProjectEvent, work, log
<1>3. s.event \in Entries
  BY <1>1 DEF Projecting
<1>4. id \in ShardIds /\ m.text = answer[t] /\ m.kind = "answered"
  BY <1>2, <1>3 DEF ShardIds, Entries, Message
<1>5. id \in OwnMessages(t)'
  <2>1. 1 \in DOMAIN todo[a] /\ todo[a][1] = s
    <3>1. todo[a] # <<>> /\ todo[a] \in Seq(OfActor(a))
      BY DEF ProjectEvent, Doing, TypeInv, Programs
    <3> QED
      BY <3>1
  <2>2. Backed(s)
    BY <2>1 DEF OrderInv, BackedInv
  <2>3. PICK e \in DOMAIN truth : s.event = truth[e]
    BY <2>2 DEF Backed, Shows
  <2>4. e \in AnswersOf(t)'
    BY <1>2, <2>3 DEF AnswersOf
  <2> QED
    BY <1>2, <2>3, <2>4 DEF OwnMessages
<1>6. CASE Projected(s.event, s.suppress) /\ AppendTo(id, m) /\ Fits(id, m)
  <2> HIDE DEF id, m
  <2>1. /\ id \in DOMAIN shard' => id \in ShardIds /\ shard'[id].kind = m.kind /\ shard'[id].text = m.text
        /\ id \in ShardIds => id \in DOMAIN shard'
    BY <1>6, ShardAfter
  <2>2. id \in DOMAIN shard' /\ shard'[id].kind = "answered" /\ shard'[id].text = answer'[t]
    BY <1>2, <1>4, <2>1
  <2> QED
    BY <1>5, <2>2 DEF Shown, ShownByOwn
<1>7. CASE ~Projected(s.event, s.suppress) /\ UNCHANGED feed
  <2>1. StreamHolds(answer[t])
    BY <1>2, <1>7 DEF Projected
  <2>2. Shown(t) /\ shard' = shard
    BY <1>7, <2>1, StreamIsShown DEF feed
  <2> QED
    BY <1>2, <2>2, ShownSame
<1> QED
  BY <1>1, <1>6, <1>7

---------------------------------------------------------------------------
(* The answers: a turn that completes.                                      *)

\* A turn whose result is a failure does not complete.
LEMMA FailedAnswer == Answered("failed") \in Seq(OfRequest \ Completing)
<1> DEFINE S == OfRequest \ Completing
           a == Complete("answer", "completed")
           b == Complete("reasoning", "completed")
           c == Complete("phase", "failed")
           d == SetRun("failed")
           e == Step("snapshot")
<1>1. a \in Seq(S) /\ b \in Seq(S) /\ c \in Seq(S)
  <2>1. OfRequest \ (Completing \cup Reaping \cup Deferred) \subseteq S
    OBVIOUS
  <2>2. \A kind \in {"answer", "reasoning", "phase"} : \A s \in Settled :
          Complete(kind, s) \in Seq(OfRequest \ (Completing \cup Reaping \cup Deferred))
    BY CompleteIs
  <2>3. \A kind \in {"answer", "reasoning", "phase"} : \A s \in Settled : Complete(kind, s) \in Seq(S)
    BY <2>1, <2>2, Larger
  <2> HIDE DEF S
  <2> QED
    BY <2>3 DEF Settled
<1>2. d \in Seq(S) /\ e \in Seq(S)
  BY DEF SetRun, Step, OfRequest, Completing, RunStatuses
<1>3. Answered("failed") = a \o b \o c \o d \o e
  BY DEF Answered
<1> HIDE DEF S, a, b, c, d, e
<1>4. a \o b \in Seq(S)
  BY <1>1, Together
<1>5. a \o b \o c \in Seq(S)
  BY <1>1, <1>4, Together
<1>6. a \o b \o c \o d \in Seq(S)
  BY <1>2, <1>5, Together
<1>7. a \o b \o c \o d \o e \in Seq(S)
  BY <1>2, <1>6, Together
<1> QED
  BY <1>3, <1>7 DEF S

\* A row says completed only where its turn was to complete.
LEMMA RowCompletes ==
  ASSUME TypeInv, [Next]_vars, NEW t \in Turns, run'[t].status = "completed"
  PROVE  Completes(t)
<1>0. DOMAIN run = Turns /\ \A u \in Turns : run[u] \in Row
  BY DEF TypeInv
<1> DEFINE r == run[t]
<1>r. r \in Row
  BY <1>0
<1>w. /\ BindRow(NewRow) \in Row /\ RequestCancel(r) \in Row /\ FailRun(r, FALSE) \in Row
      /\ \A s : CompleteRun(r, s) \in Row
      /\ RequestCancel(r).status = "completed" => r.status = "completed"
      /\ CompleteRun(r, "cancelled").status = "cancelled" /\ FailRun(r, FALSE).status = "failed"
      /\ BindRow(NewRow).status = "queued"
      /\ \A s : CompleteRun(r, s).status = "completed" => s = "completed"
  <2> HIDE DEF r
  <2> QED
    BY <1>r, RowsAre
<1>1. CASE \E u \in Turns : SetRunStatus(u)
  <2>1. PICK u \in Turns : SetRunStatus(u)
    BY <1>1
  <2>2. /\ todo[T(u)] # <<>> /\ Head(todo[T(u)]).do = "run" /\ todo[T(u)] \in Seq(OfRequest)
        /\ run' = [run EXCEPT ![u] = CompleteRun(run[u], Head(todo[T(u)]).status)]
    BY <2>1, ActorsAre DEF SetRunStatus, Doing, TypeInv, Programs
  <2>3. CASE u # t
    BY <1>0, <2>2, <2>3 DEF Completes
  <2>4. CASE u = t
    <3> DEFINE s == Head(todo[T(t)])
    <3>1. s.status = "completed" /\ s.do = "run"
      <4>1. CompleteRun(run[t], s.status).status = "completed"
        BY <1>0, <2>2, <2>4
      <4>2. \A x : CompleteRun(run[t], x).status = "completed" => x = "completed"
        BY <1>w
      <4> QED
        BY <2>2, <2>4, <4>1, <4>2
    <3>2. ASSUME todo[T(t)] \in Seq(OfRequest \ Completing)
          PROVE  FALSE
      <4>1. s \in OfRequest \ Completing
        BY <2>2, <2>4, <3>2, FirstIs
      <4> HIDE DEF s
      <4> QED
        BY <3>1, <4>1 DEF OfRequest, Completing, Saying, Listing, Rewriting, Projecting
    <3> QED
      BY <3>2 DEF Completes
  <2> QED
    BY <2>3, <2>4
<1>2. CASE \E u \in Turns : QueueRun(u)
  <2>1. PICK u \in Turns : run' = [run EXCEPT ![u] = BindRow(NewRow)]
    BY <1>2 DEF QueueRun
  <2>2. BindRow(NewRow).status = "queued"
    BY <1>w
  <2> QED
    BY <1>0, <2>1, <2>2 DEF Completes
<1>3. CASE \E u \in Turns : Reap(u)
  BY <1>3, ReapedIs DEF Completes
<1>4. CASE FlagRuns
  <2>1. run'[t] = RequestCancel(run[t])
    BY <1>4 DEF FlagRuns
  <2> QED
    BY <1>w, <2>1 DEF Completes
<1>5. CASE UNCHANGED run
  BY <1>5 DEF Completes
<1>6. \/ \E u \in Turns : SetRunStatus(u) \/ QueueRun(u) \/ Reap(u)
      \/ FlagRuns \/ UNCHANGED run
  <2>1. ASSUME NEW u \in Turns,
               \/ BeginTurn(u) \/ SpawnWorker(u) \/ SpawnFails(u)
               \/ Conclude(u) \/ Report(u) \/ WorkerDies(u) \/ Delta(u)
               \/ CheckClosed(u) \/ Snapshot(u) \/ LoadProduct(u) \/ LoadShard(u)
        PROVE  UNCHANGED run
    BY <2>1 DEF BeginTurn, SpawnWorker, SpawnFails, Conclude, Report, WorkerDies,
                Delta, CheckClosed, Snapshot, LoadProduct, LoadShard
  <2>2. ASSUME NEW a \in Actors,
               \/ SelectMax(a) \/ Insert(a) \/ ProjectEvent(a)
               \/ SayMessage(a) \/ ListMessages(a) \/ RewriteMessage(a)
        PROVE  UNCHANGED run
    BY <2>2 DEF SelectMax, Insert, ProjectEvent, SayMessage, ListMessages, RewriteMessage
  <2>3. BeginClose \/ ProjectOwn \/ KillWorkers \/ Restart \/ ReadTruth \/ UNCHANGED vars => UNCHANGED run
    BY DEF BeginClose, ProjectOwn, KillWorkers, Restart, ReadTruth, vars
  <2> QED
    BY <2>1, <2>2, <2>3 DEF Next
<1> QED
  BY <1>1, <1>2, <1>3, <1>4, <1>5, <1>6

\* A turn is to complete once its answer is looked at, and not before.
LEMMA CompletesBefore ==
  ASSUME TypeInv, OrderInv, PhaseInv, ShapeInv, [Next]_vars, NEW t \in Turns, Completes(t)'
  PROVE  \/ Completes(t)
         \/ CheckClosed(t) /\ todo'[T(t)] = Answered("completed") /\ result[t] = "answered"
<1> DEFINE S == OfRequest \ Completing
<1>1. CASE run'[t].status = "completed"
  BY <1>1, RowCompletes
<1>2. CASE todo'[T(t)] \notin Seq(S)
  <2> SUFFICES ASSUME todo[T(t)] \in Seq(S)
               PROVE  CheckClosed(t) /\ todo'[T(t)] = Answered("completed") /\ result[t] = "answered"
    BY DEF Completes
  <2>1. Brought \subseteq S
    BY DEF Brought, Deferred, OfRequest, Completing, Rewriting, Projecting, Listing
  <2>2. <<>> \in Seq(S)
    OBVIOUS
  <2>3. ASSUME NEW a, NEW q, GoOn(a, q)
        PROVE  todo'[T(t)] \in Seq(S)
    <3>1. CASE a = T(t)
      <4>1. q \in Seq(Brought) /\ todo[a] # <<>> /\ todo'[a] = q \o Tail(todo[a])
        BY <2>3 DEF GoOn
      <4>2. q \in Seq(S)
        BY <2>1, <4>1, Larger
      <4> HIDE DEF S
      <4>3. Tail(todo[a]) \in Seq(S)
        BY <3>1, <4>1, FirstIs
      <4> DEFINE r == Tail(todo[a])
      <4>4. r \in Seq(S)
        BY <4>3
      <4> HIDE DEF r
      <4>5. q \o r \in Seq(S)
        BY <4>2, <4>4, Together
      <4> QED
        BY <3>1, <4>1, <4>5 DEF r
    <3>2. CASE a # T(t)
      <4>1. todo'[T(t)] = todo[T(t)]
        BY <2>3, <3>2, ActorsAre DEF GoOn
      <4> QED
        BY <4>1
    <3> QED
      BY <3>1, <3>2
  <2>4. ASSUME NEW u \in Turns, SpawnWorker(u)
        PROVE  todo'[T(t)] \in Seq(S)
    <3>1. /\ todo[T(u)] # <<>> /\ todo'[T(u)] = <<>> \o Tail(todo[T(u)])
          /\ \A b \in Actors \ {T(u), W(u)} : todo'[b] = todo[b]
      BY <2>4, SpawnGoesOn
    <3> HIDE DEF S
    <3>2. CASE u = t
      <4>1. Tail(todo[T(t)]) \in Seq(S)
        BY <3>1, <3>2, FirstIs
      <4> QED
        BY <3>1, <3>2, <4>1, NothingBefore
    <3>3. CASE u # t
      BY <3>1, <3>3, ActorsAre
    <3> QED
      BY <3>2, <3>3
  <2>5. Leaves => todo'[T(t)] \in Seq(S)
    BY DEF Leaves
  <2>6. Restart => todo'[T(t)] \in Seq(S)
    BY <2>2, RestartIs
  <2>7. ASSUME NEW u \in Turns, GoesOver(u)
        PROVE  \/ todo'[T(t)] \in Seq(S)
               \/ CheckClosed(t) /\ todo'[T(t)] = Answered("completed") /\ result[t] = "answered"
    <3>1. PICK p : todo' = [todo EXCEPT ![T(u)] = p]
      BY <2>7, Zenon DEF GoesOver
    <3>2. todo'[T(u)] = p /\ \A v \in Turns \ {u} : todo'[T(v)] = todo[T(v)]
      BY <3>1, TurnGoesOver
    <3>3. CASE u # t
      BY <3>2, <3>3
    <3>4. CASE u = t
      <4>0. /\ OfRequest \ (Completing \cup Deferred) \subseteq S
            /\ OfRequest \ (Completing \cup Reaping \cup Deferred) \subseteq S
        OBVIOUS
      <4>1. RecordTurn(t) \in Seq(S)
        BY <4>0, RecordTurnIs, Larger
      <4>2. Failed(t) \in Seq(S) /\ Cancelled \in Seq(S)
        BY <4>0, FailedIs, CancelledIs, Larger
      <4>3. Step("check") \in Seq(S)
        BY DEF Step, OfRequest, Completing
      <4>4. Answered("failed") \in Seq(S)
        BY FailedAnswer
      <4> HIDE DEF S
      <4>5. ASSUME NEW r, todo' = [todo EXCEPT ![T(t)] = r]
            PROVE  todo'[T(t)] = r
        BY <4>5, TurnGoesOver
      <4>6. \/ todo'[T(t)] \in Seq(S)
            \/ CheckClosed(t) /\ \E s \in {"completed", "failed"} :
                 todo'[T(t)] = Answered(s) /\ (s = "completed" => result[t] = "answered")
        BY <2>7, <3>4, <4>1, <4>2, <4>3, <4>5, Zenon DEF GoesOver
      <4> QED
        BY <4>4, <4>6
    <3> QED
      BY <3>3, <3>4
  <2> HIDE DEF S
  <2> QED
    BY <1>2, <2>3, <2>4, <2>5, <2>6, <2>7, StepsGoOn DEF GoesOn
<1> QED
  BY <1>1, <1>2 DEF Completes

---------------------------------------------------------------------------
(* The answers: shown, or still to be shown.                                *)

\* What the step of an actor makes of what is to show the answer of t.
Keeps(a, t) ==
  /\ hide'[t] = hide[t] \/ (a = T(t) /\ (ListsAnswers(Head(todo[a])) \/ Head(todo[a]).do = "snapshot"))
  /\ a = T(t) /\ ListsAnswers(Head(todo[a])) => ~hide'[t] \/ Shown(t)'
  /\ a = T(t) /\ Head(todo[a]).do = "snapshot" /\ WillSnap(t) => WillShow(T(t), t)'
  /\ a \in {T(t), Repairer} /\ Shows(Head(todo[a]), t) => Shown(t)'
  /\ a = Repairer /\ Head(todo[a]).do = "read" => WillShow(Repairer, t)'

\* A statement that is to show an answer stays until it does.
LEMMA WillShowGoes ==
  ASSUME TypeInv, NEW t \in Turns, NEW a, NEW q, GoOn(a, q), answer'[t] = answer[t], Keeps(a, t),
         NEW b \in {T(t), Repairer}, WillShow(b, t)
  PROVE  WillShow(b, t)' \/ Shown(t)'
<1>1. PICK n \in DOMAIN todo[b] : Shows(todo[b][n], t)
  BY DEF WillShow
<1>2. CASE b # a
  <2>1. todo'[b] = todo[b]
    BY <1>2, ActorsAre DEF GoOn
  <2> QED
    BY <1>1, <2>1 DEF WillShow, Shows, IsAnswer
<1>3. CASE b = a /\ todo[a][n] = Head(todo[a])
  <2>1. Shows(Head(todo[a]), t)
    BY <1>1, <1>3
  <2> QED
    BY <1>3, <2>1 DEF Keeps
<1>4. CASE b = a /\ todo[a][n] # Head(todo[a])
  <2>1. PICK m \in DOMAIN todo'[a] : todo'[a][m] = todo[a][n]
    BY <1>1, <1>4, StaysOn
  <2> QED
    BY <1>1, <1>4, <2>1 DEF WillShow, Shows, IsAnswer
<1> QED
  BY <1>2, <1>3, <1>4

\* A repair that is to read the log stays, or has read it.
LEMMA WillReadGoes ==
  ASSUME TypeInv, NEW t \in Turns, NEW a, NEW q, GoOn(a, q), Keeps(a, t), WillRead
  PROVE  WillRead' \/ WillShow(Repairer, t)'
<1>1. PICK n \in DOMAIN todo[Repairer] : todo[Repairer][n].do = "read"
  BY DEF WillRead
<1>2. CASE Repairer # a
  <2>1. todo'[Repairer] = todo[Repairer]
    BY <1>2, ActorsAre DEF GoOn
  <2> QED
    BY <1>1, <2>1 DEF WillRead
<1>3. CASE Repairer = a /\ todo[a][n] = Head(todo[a])
  BY <1>1, <1>3 DEF Keeps
<1>4. CASE Repairer = a /\ todo[a][n] # Head(todo[a])
  <2>1. PICK m \in DOMAIN todo'[a] : todo'[a][m] = todo[a][n]
    BY <1>1, <1>4, StaysOn
  <2> QED
    BY <1>1, <1>4, <2>1 DEF WillRead
<1> QED
  BY <1>2, <1>3, <1>4

\* A turn that is to project its result is to do so until it does.
LEMMA WillSnapGoes ==
  ASSUME TypeInv, NEW t \in Turns, NEW a, NEW q, GoOn(a, q), Keeps(a, t), WillSnap(t)
  PROVE  WillSnap(t)' \/ Shown(t)' \/ WillShow(T(t), t)'
<1>1. PICK n \in DOMAIN todo[T(t)] : todo[T(t)][n].do = "snapshot"
  BY DEF WillSnap, Has
<1>2. CASE a # T(t)
  <2>1. todo'[T(t)] = todo[T(t)] /\ hide'[t] = hide[t]
    BY <1>2, ActorsAre DEF GoOn, Keeps
  <2> QED
    BY <2>1 DEF WillSnap, Has
<1>3. CASE a = T(t) /\ Head(todo[a]).do = "snapshot"
  BY <1>3 DEF Keeps
<1>4. CASE a = T(t) /\ Head(todo[a]).do # "snapshot"
  <2>1. Has(t, "snapshot")'
    <3>1. PICK m \in DOMAIN todo'[a] : todo'[a][m] = todo[a][n]
      BY <1>1, <1>4, StaysOn
    <3> QED
      BY <1>1, <1>4, <3>1 DEF Has
  <2>2. CASE ListsAnswers(Head(todo[a]))
    BY <1>4, <2>1, <2>2 DEF Keeps, WillSnap
  <2>3. CASE ~ListsAnswers(Head(todo[a]))
    <3>1. hide'[t] = hide[t]
      BY <1>4, <2>3 DEF Keeps
    <3>2. ASSUME NEW k \in DOMAIN todo[T(t)], ListsAnswers(todo[T(t)][k])
          PROVE  \E m \in DOMAIN todo'[T(t)] : ListsAnswers(todo'[T(t)][m])
      <4>1. PICK m \in DOMAIN todo'[a] : todo'[a][m] = todo[a][k]
        BY <1>4, <2>3, <3>2, StaysOn
      <4> QED
        BY <1>4, <3>2, <4>1
    <3> QED
      BY <2>1, <3>1, <3>2 DEF WillSnap
  <2> QED
    BY <2>2, <2>3
<1> QED
  BY <1>2, <1>3, <1>4

\* An answer that is to be shown is so until it is shown, as an actor goes on.
LEMMA ToShowGoes ==
  ASSUME TypeInv, NEW t \in Turns, NEW a, NEW q, GoOn(a, q), answer'[t] = answer[t], Keeps(a, t),
         ToShow(t)
  PROVE  ToShow(t)' \/ Shown(t)'
<1>1. WillShow(T(t), t) => WillShow(T(t), t)' \/ Shown(t)'
  BY WillShowGoes
<1>2. WillShow(Repairer, t) => WillShow(Repairer, t)' \/ Shown(t)'
  BY WillShowGoes
<1>3. WillRead => WillRead' \/ WillShow(Repairer, t)'
  BY WillReadGoes
<1>4. WillSnap(t) => WillSnap(t)' \/ Shown(t)' \/ WillShow(T(t), t)'
  BY WillSnapGoes
<1> QED
  BY <1>1, <1>2, <1>3, <1>4 DEF ToShow

\* What neither the turn nor the repair does leaves the answer to be shown.
LEMMA ToShowSame ==
  ASSUME NEW t \in Turns, answer'[t] = answer[t], todo'[Repairer] = todo[Repairer],
         \/ todo'[T(t)] = todo[T(t)] /\ hide'[t] = hide[t]
         \/ ~WillSnap(t) /\ ~WillShow(T(t), t),
         ToShow(t)
  PROVE  ToShow(t)'
<1>1. WillShow(Repairer, t) => WillShow(Repairer, t)'
  BY DEF WillShow, Shows, IsAnswer
<1>2. WillRead => WillRead'
  BY DEF WillRead
<1>3. CASE ~WillSnap(t) /\ ~WillShow(T(t), t)
  BY <1>1, <1>2, <1>3 DEF ToShow
<1>4. CASE todo'[T(t)] = todo[T(t)] /\ hide'[t] = hide[t]
  <2>1. WillShow(T(t), t) => WillShow(T(t), t)'
    BY <1>4 DEF WillShow, Shows, IsAnswer
  <2>2. WillSnap(t) => WillSnap(t)'
    BY <1>4 DEF WillSnap, Has
  <2> QED
    BY <1>1, <1>2, <2>1, <2>2 DEF ToShow
<1> QED
  BY <1>3, <1>4

---------------------------------------------------------------------------
(* The answers: each step keeps what is to show them.                       *)

\* An actor goes on, and what is to show the answer of t stays.
GoesKeeping(t) == \E a \in Actors : \E q : GoOn(a, q) /\ Keeps(a, t)

\* A program that projects a log that holds the answer is to show it.
LEMMA ProjectsAnswer ==
  ASSUME TypeInv, NEW t \in Turns, NEW a, NEW q, GoOn(a, q), answer'[t] = answer[t],
         NEW k \in DOMAIN q, Shows(q[k], t)
  PROVE  WillShow(a, t)'
<1>1. PICK m \in DOMAIN todo'[a] : todo'[a][m] = q[k]
  BY ComesOn
<1> QED
  BY <1>1 DEF WillShow, Shows, IsAnswer

\* What stands in the first of two programs stands in both together.
LEMMA FirstOfTwo ==
  ASSUME NEW S, NEW p \in Seq(S), NEW r \in Seq(S), NEW e \in DOMAIN p
  PROVE  e \in DOMAIN (p \o r) /\ (p \o r)[e] = p[e]
<1>1. Len(p) \in Nat /\ DOMAIN p = 1 .. Len(p) /\ Len(r) \in Nat
  OBVIOUS
<1> QED
  BY <1>1

\* A number, an event or a message.
LEMMA KeepsActor ==
  ASSUME TypeInv, OrderInv, TextInv, NEW t \in Turns, NEW a \in Actors,
         SelectMax(a) \/ Insert(a) \/ ProjectEvent(a) \/ SayMessage(a) \/ RewriteMessage(a)
  PROVE  GoesKeeping(t)
<1>1. GoOn(a, <<>>) /\ Head(todo[a]).do \in {"max", "insert", "project", "say", "rewrite"}
  BY ActorGoesOn
<1>2. hide' = hide
  BY DEF SelectMax, Insert, ProjectEvent, SayMessage, RewriteMessage
<1>3. Head(todo[a]).do \notin {"list", "snapshot", "read"}
  BY <1>1
<1>4. ASSUME Shows(Head(todo[a]), t)
      PROVE  Shown(t)'
  <2>1. Head(todo[a]).do = "project"
    BY <1>4 DEF Shows
  <2>2. ProjectEvent(a)
    BY <2>1 DEF SelectMax, Insert, SayMessage, RewriteMessage, Doing
  <2> QED
    BY <1>4, <2>2, ProjectShows
<1>5. Keeps(a, t)
  BY <1>2, <1>3, <1>4, Zenon DEF Keeps, ListsAnswers
<1> QED
  BY <1>1, <1>5 DEF GoesKeeping

\* A row, or the flag of a row.
LEMMA KeepsRun ==
  ASSUME TypeInv, NEW t \in Turns, FlagRuns \/ \E u \in Turns : QueueRun(u) \/ SetRunStatus(u)
  PROVE  GoesKeeping(t)
<1>1. hide' = hide
  BY DEF FlagRuns, QueueRun, SetRunStatus
<1>2. PICK a \in Actors : GoOn(a, <<>>) /\ Head(todo[a]).do \in {"flag", "queue", "run"}
  <2>1. CASE FlagRuns
    <3>1. GoOn(Closer, <<>>) /\ Head(todo[Closer]).do = "flag"
      BY <2>1, RunGoesOn DEF FlagRuns, Doing
    <3> QED
      BY <3>1, ActorsAre
  <2>2. CASE \E u \in Turns : QueueRun(u) \/ SetRunStatus(u)
    <3>1. PICK u \in Turns : QueueRun(u) \/ SetRunStatus(u)
      BY <2>2
    <3>2. GoOn(T(u), <<>>) /\ Head(todo[T(u)]).do \in {"queue", "run"}
      BY <3>1, RunGoesOn DEF QueueRun, SetRunStatus, Doing
    <3> QED
      BY <3>2, ActorsAre
  <2> QED
    BY <2>1, <2>2
<1>3. Head(todo[a]).do \notin {"list", "snapshot", "read", "project"}
  BY <1>2
<1>4. Keeps(a, t)
  BY <1>1, <1>3, Zenon DEF Keeps, ListsAnswers, Shows
<1> QED
  BY <1>2, <1>4 DEF GoesKeeping

\* The answers are listed: what is hidden from then on is in the feed.
LEMMA KeepsList ==
  ASSUME TypeInv, OrderInv, TextInv, NEW t \in Turns, NEW a \in Actors, ListMessages(a)
  PROVE  GoesKeeping(t)
<1>1. PICK q : GoOn(a, q)
  BY ListGoesOn
<1> DEFINE s == Head(todo[a])
<1>2. /\ todo[a] # <<>> /\ s.do = "list" /\ UNCHANGED <<shard, truth, answer, stream>>
      /\ hide' = IF s.kind = "answer" THEN [hide EXCEPT ![a[2]] = StreamAnswers(a[2])] ELSE hide
  BY DEF ListMessages, Doing, feed, log, work
<1>3. hide \in [Turns -> BOOLEAN] /\ todo[a] \in Seq(OfActor(a))
  BY DEF TypeInv, Programs
<1>4. s \in OfActor(a)
  BY <1>2, <1>3, FirstIs
<1>5. s.kind = "answer" => \E u \in Turns : a = T(u)
  <2> HIDE DEF s
  <2>1. /\ s.do = "say" => s \in Saying /\ s.id[1] = s.kind
        /\ s.do = "rewrite" => s \in Rewriting
        /\ s.do = "project" => s \in Projecting
        /\ s.do = "list" => s \in Listing({"answer", "reasoning", "phase"})
        /\ s.do = "list" /\ s.kind # "phase" => \E u \in Turns : a = T(u)
        /\ s.do = "insert" => s.type \in EventTypes
        /\ s.do = "insert" /\ s.type = "answered" => \E u \in Turns : a = W(u)
        /\ s.do = "insert" /\ s.type = "closed" => a = Closer
        /\ s.do = "insert" => \/ \E u \in Turns : a = W(u)
                              \/ a = Closer /\ s.type = "closed"
        /\ a[2] \in Nat
    BY <1>4, StatementIs
  <2> QED
    BY <1>2, <2>1
<1>6. s.do \notin {"snapshot", "read", "project"}
  BY <1>2
<1>7. CASE s.kind # "answer"
  <2>1. hide' = hide /\ ~ListsAnswers(s)
    BY <1>2, <1>7 DEF ListsAnswers
  <2>2. Keeps(a, t)
    BY <1>6, <2>1, Zenon DEF Keeps, Shows
  <2> QED
    BY <1>1, <2>2 DEF GoesKeeping
<1>8. CASE s.kind = "answer"
  <2>1. PICK u \in Turns : a = T(u)
    BY <1>5, <1>8
  <2>2. hide' = [hide EXCEPT ![u] = StreamAnswers(u)] /\ ListsAnswers(s) /\ a # Repairer
    BY <1>2, <1>8, <2>1, ActorsAre DEF ListsAnswers
  <2>3. u # t => hide'[t] = hide[t] /\ a # T(t)
    BY <1>3, <2>1, <2>2, ActorsAre
  <2>4. ASSUME a = T(t), hide'[t]
        PROVE  Shown(t)'
    <3>1. u = t
      BY <2>1, <2>4, ActorsAre
    <3>2. hide'[t] = StreamAnswers(t)
      BY <1>3, <2>2, <3>1
    <3>3. StreamHolds(answer[t])
      BY <2>4, <3>2 DEF StreamAnswers
    <3>4. Shown(t)
      BY <3>3, StreamIsShown
    <3> QED
      BY <1>2, <3>4, ShownSame
  <2>5. hide'[t] = hide[t] \/ (a = T(t) /\ ListsAnswers(s))
    BY <2>1, <2>2, <2>3
  <2>6. Keeps(a, t)
    BY <1>6, <2>2, <2>4, <2>5, Zenon DEF Keeps, Shows
  <2> QED
    BY <1>1, <2>6 DEF GoesKeeping
<1> QED
  BY <1>7, <1>8

\* The result of a turn is projected: its answer is to be shown, if it is not hidden.
LEMMA KeepsSnapshot ==
  ASSUME TypeInv, ShapeInv, NEW t \in Turns, ResultOf(t), worker[t] = "reported",
         result[t] = "answered", answer'[t] = answer[t], NEW u \in Turns, Snapshot(u)
  PROVE  GoesKeeping(t)
<1> DEFINE q == Project(SubSeq(truth, 1, snap[u]), hide[u])
           p == todo[T(u)]
<1>1. GoOn(T(u), q)
  BY SnapshotGoesOn
<1>2. /\ p # <<>> /\ Head(p).do = "snapshot" /\ p \in Seq(OfRequest)
      /\ hide' = [hide EXCEPT ![u] = FALSE] /\ hide \in [Turns -> BOOLEAN]
  BY ActorsAre DEF Snapshot, Doing, TypeInv, Programs
<1>3. u # t => hide'[t] = hide[t] /\ T(u) # T(t)
  BY <1>2, ActorsAre
<1>4. T(u) # Repairer /\ T(u) \in Actors
  BY ActorsAre
<1>5. ASSUME u = t, WillSnap(t)
      PROVE  WillShow(T(t), t)'
  <2>1. Len(p) \in Nat /\ 1 \in DOMAIN p /\ p[1] = Head(p) /\ DOMAIN p = 1 .. Len(p)
    BY <1>2
  <2>2. Len(p) = 1
    BY <1>2, <2>1 DEF ShapeInv, EndsSo, Ending
  <2>3. \A n \in DOMAIN p : p[n] = Head(p)
    BY <2>1, <2>2
  <2>4. \A n \in DOMAIN p : ~ListsAnswers(p[n])
    BY <1>2, <2>3 DEF ListsAnswers
  <2>5. ~hide[t]
    BY <1>5, <2>4 DEF WillSnap
  <2>6. ~Taken(t)
    BY <1>2, <1>5, <2>1 DEF Taken, Ending
  <2>7. Logged(t, snap[t])
    BY <2>6 DEF ResultOf
  <2>8. PICK e \in DOMAIN truth : e <= snap[t] /\ IsAnswer(truth[e], t)
    BY <2>7 DEF Logged
  <2>9. e \in 1 .. snap[t]
    BY <2>8 DEF TypeInv
  <2>10. /\ SubSeq(truth, 1, snap[t]) \in Seq(Entries) /\ hide[t] \in BOOLEAN
         /\ DOMAIN SubSeq(truth, 1, snap[t]) = 1 .. snap[t]
         /\ \A i \in 1 .. snap[t] : i \in DOMAIN truth /\ SubSeq(truth, 1, snap[t])[i] = truth[i]
    BY ResultHolds
  <2>11. e \in DOMAIN q /\ q[e] = [do |-> "project", event |-> truth[e], suppress |-> FALSE]
    BY <1>5, <2>5, <2>9, <2>10 DEF Project
  <2>12. Shows(q[e], t)
    BY <2>8, <2>11 DEF Shows
  <2> HIDE DEF q
  <2> QED
    BY <1>1, <1>5, <2>11, <2>12, ProjectsAnswer
<1>6. \A v \in Turns : T(u) = T(v) => u = v
  BY ActorsAre
<1>7. ~ListsAnswers(Head(p)) /\ ~Shows(Head(p), t)
  BY <1>2 DEF ListsAnswers, Shows
<1>8. Head(todo[T(u)]).do = "snapshot"
  BY <1>2
<1>9. Keeps(T(u), t)
  BY <1>3, <1>4, <1>5, <1>6, <1>7, <1>8, Zenon DEF Keeps
<1> HIDE DEF q
<1> QED
  BY <1>1, <1>4, <1>9 DEF GoesKeeping

\* A close projects its own event.
LEMMA KeepsOwn ==
  ASSUME TypeInv, OrderInv, NEW t \in Turns, ProjectOwn
  PROVE  GoesKeeping(t)
<1>1. PICK q : GoOn(Closer, q)
  BY OwnGoesOn
<1>2. hide' = hide
  BY DEF ProjectOwn
<1>3. Closer \notin {T(t), Repairer} /\ Closer \in Actors
  BY ActorsAre
<1>4. Keeps(Closer, t)
  BY <1>2, <1>3, Zenon DEF Keeps
<1> QED
  BY <1>1, <1>3, <1>4 DEF GoesKeeping

\* A repair that reads the log is to show what the log holds.
LEMMA KeepsRead ==
  ASSUME TypeInv, NEW t \in Turns, ResultOf(t), worker[t] = "reported",
         result[t] = "answered", answer'[t] = answer[t], ReadTruth
  PROVE  GoesKeeping(t)
<1> DEFINE p == Project(truth, FALSE)
<1>1. PICK more \in Seq(Listing({"phase"})) :
        /\ p \in Seq(Projecting) /\ p \in Seq(Brought)
        /\ more \in Seq(Brought) /\ GoOn(Repairer, p \o more)
  BY ReadGoesOn
<1>2. PICK e \in DOMAIN truth : IsAnswer(truth[e], t)
  BY DEF ResultOf, Logged
<1>3. e \in DOMAIN p /\ p[e] = [do |-> "project", event |-> truth[e], suppress |-> FALSE]
  BY <1>2 DEF Project
<1> HIDE DEF p
<1>4. Shows(p[e], t)
  <2>1. p[e].do = "project" /\ p[e].event = truth[e] /\ p[e].suppress = FALSE
    BY <1>3
  <2> QED
    BY <1>2, <2>1 DEF Shows
<1>5. e \in DOMAIN (p \o more) /\ (p \o more)[e] = p[e]
  <2>1. p \in Seq(Brought) /\ more \in Seq(Brought)
    BY <1>1
  <2> QED
    BY <1>3, <2>1, FirstOfTwo
<1>6. WillShow(Repairer, t)'
  BY <1>1, <1>4, <1>5, ProjectsAnswer
<1>7. /\ hide' = hide /\ Head(todo[Repairer]).do = "read"
      /\ Repairer # T(t) /\ Repairer \in Actors
  BY ActorsAre DEF ReadTruth, Doing
<1>8. ~Shows(Head(todo[Repairer]), t)
  BY <1>7 DEF Shows
<1>9. Keeps(Repairer, t)
  BY <1>6, <1>7, <1>8, Zenon DEF Keeps
<1> QED
  BY <1>1, <1>7, <1>9 DEF GoesKeeping

---------------------------------------------------------------------------
(* The answers: no step loses one.                                          *)

\* A turn that takes or looks at its result has nothing else to do.
LEMMA OverShowsNothing ==
  ASSUME TypeInv, PhaseInv, ShapeInv, NEW t \in Turns, worker[t] = "reported", GoesOver(t)
  PROVE  ~WillSnap(t) /\ ~WillShow(T(t), t)
<1> DEFINE p == todo[T(t)]
<1>1. p \in Seq(OfRequest)
  BY ActorsAre DEF TypeInv, Programs
<1>2. CASE BeginTurn(t)
  <2>1. p = <<>>
    BY <1>2 DEF BeginTurn, OpenTurns
  <2> QED
    BY <2>1 DEF WillSnap, WillShow, Has
<1>3. CASE SpawnFails(t)
  <2>1. p # <<>> /\ Head(p).do = "spawn"
    BY <1>3 DEF SpawnFails, Doing
  <2>2. 1 \in DOMAIN p /\ p[1] = Head(p)
    BY <1>1, <2>1
  <2>3. \E n \in DOMAIN p : Spawns(p[n])
    BY <2>1, <2>2 DEF Spawns
  <2> QED
    BY <2>3 DEF PhaseInv, WorkerInv
<1>4. CASE Reap(t) \/ CheckClosed(t)
  <2>1. p # <<>> /\ Head(p).do \in {"reap", "check"}
    BY <1>4 DEF Reap, CheckClosed, Doing
  <2>2. Len(p) \in Nat /\ 1 \in DOMAIN p /\ p[1] = Head(p) /\ DOMAIN p = 1 .. Len(p)
    BY <1>1, <2>1
  <2>3. Len(p) = 1
    BY <2>1, <2>2 DEF ShapeInv, EndsSo, Ending
  <2>4. \A n \in DOMAIN p : p[n] = Head(p)
    BY <2>2, <2>3
  <2>5. \A n \in DOMAIN p : p[n].do \notin {"snapshot", "project"}
    BY <2>1, <2>4
  <2> QED
    BY <2>5 DEF WillSnap, WillShow, Has, Shows
<1> QED
  BY <1>2, <1>3, <1>4 DEF GoesOver

\* A turn, a worker or a close that leaves the turn t and the repair to what they do.
LEMMA ToShowAside ==
  ASSUME TypeInv, PhaseInv, ShapeInv, NEW t \in Turns, worker[t] = "reported",
         answer'[t] = answer[t], ToShow(t),
         \/ Leaves /\ hide' = hide
         \/ \E u \in Turns : GoesOver(u) \/ SpawnWorker(u)
  PROVE  ToShow(t)'
<1>1. CASE Leaves /\ hide' = hide
  BY <1>1, ToShowSame DEF Leaves
<1>2. CASE \E u \in Turns : GoesOver(u)
  <2>1. PICK u \in Turns : GoesOver(u)
    BY <1>2
  <2>2. PICK p : todo' = [todo EXCEPT ![T(u)] = p]
    BY <2>1, Zenon DEF GoesOver
  <2>3. \A b \in Actors \ {T(u)} : todo'[b] = todo[b]
    BY <2>2, TurnGoesOver
  <2>4. todo'[Repairer] = todo[Repairer]
    BY <2>3, ActorsAre
  <2>5. hide' = hide
    <3>1. BeginTurn(u) \/ SpawnFails(u) \/ Reap(u) \/ CheckClosed(u)
      BY <2>1, Zenon DEF GoesOver
    <3> QED
      BY <3>1 DEF BeginTurn, SpawnFails, Reap, CheckClosed
  <2>6. CASE u # t
    <3>1. todo'[T(t)] = todo[T(t)]
      BY <2>3, <2>6, ActorsAre
    <3> QED
      BY <2>4, <2>5, <3>1, ToShowSame
  <2>7. CASE u = t
    <3>1. ~WillSnap(t) /\ ~WillShow(T(t), t)
      BY <2>1, <2>7, OverShowsNothing
    <3> QED
      BY <2>4, <3>1, ToShowSame
  <2> QED
    BY <2>6, <2>7
<1>3. CASE \E u \in Turns : SpawnWorker(u)
  <2>1. PICK u \in Turns : SpawnWorker(u)
    BY <1>3
  <2>2. worker[u] = "off" /\ \A b \in Actors \ {T(u), W(u)} : todo'[b] = todo[b]
    BY <2>1, SpawnGoesOn
  <2>3. u # t /\ hide' = hide
    BY <2>1, <2>2 DEF SpawnWorker
  <2>4. todo'[Repairer] = todo[Repairer] /\ todo'[T(t)] = todo[T(t)]
    BY <2>2, <2>3, ActorsAre
  <2> QED
    BY <2>3, <2>4, ToShowSame
<1> QED
  BY <1>1, <1>2, <1>3

\* What is to be shown is so until it is shown.
LEMMA ToShowStep ==
  ASSUME TypeInv, OrderInv, PhaseInv, ShapeInv, TextInv, [Next]_vars,
         NEW t \in Turns, ResultOf(t), worker[t] = "reported", result[t] = "answered",
         answer'[t] = answer[t], ToShow(t)
  PROVE  ToShow(t)' \/ Shown(t)'
<1>1. GoesKeeping(t) => ToShow(t)' \/ Shown(t)'
  BY ToShowGoes DEF GoesKeeping
<1>2. ASSUME NEW a \in Actors, \/ SelectMax(a) \/ Insert(a) \/ ProjectEvent(a)
                               \/ SayMessage(a) \/ ListMessages(a) \/ RewriteMessage(a)
      PROVE  ToShow(t)' \/ Shown(t)'
  BY <1>1, <1>2, KeepsActor, KeepsList
<1>3. ASSUME NEW u \in Turns, Snapshot(u)
      PROVE  ToShow(t)' \/ Shown(t)'
  BY <1>1, <1>3, KeepsSnapshot
<1>4. ASSUME FlagRuns \/ \E u \in Turns : QueueRun(u) \/ SetRunStatus(u)
      PROVE  ToShow(t)' \/ Shown(t)'
  BY <1>1, <1>4, KeepsRun
<1>5. ASSUME ProjectOwn
      PROVE  ToShow(t)' \/ Shown(t)'
  BY <1>1, <1>5, KeepsOwn
<1>6. ASSUME ReadTruth
      PROVE  ToShow(t)' \/ Shown(t)'
  BY <1>1, <1>6, KeepsRead
<1>7. ASSUME NEW u \in Turns, \/ BeginTurn(u) \/ SpawnFails(u) \/ Reap(u) \/ CheckClosed(u)
                              \/ SpawnWorker(u)
      PROVE  ToShow(t)'
  <2>1. \E v \in Turns : GoesOver(v) \/ SpawnWorker(v)
    BY <1>7, OversAre
  <2> QED
    BY <2>1, ToShowAside
<1>8. ASSUME \/ BeginClose \/ KillWorkers \/ UNCHANGED vars
             \/ \E u \in Turns : \/ Conclude(u) \/ Report(u) \/ WorkerDies(u) \/ Delta(u)
                                 \/ LoadProduct(u) \/ LoadShard(u)
      PROVE  ToShow(t)'
  <2>1. Leaves
    BY <1>8, LeavesAre
  <2>2. hide' = hide
    <3>1. BeginClose \/ KillWorkers \/ UNCHANGED vars => hide' = hide
      BY DEF BeginClose, KillWorkers, vars
    <3>2. ASSUME NEW u \in Turns, \/ Conclude(u) \/ Report(u) \/ WorkerDies(u) \/ Delta(u)
                                  \/ LoadProduct(u) \/ LoadShard(u)
          PROVE  hide' = hide
      BY <3>2 DEF Conclude, Report, WorkerDies, Delta, LoadProduct, LoadShard
    <3> QED
      BY <1>8, <3>1, <3>2
  <2> QED
    BY <2>1, <2>2, ToShowAside
<1>9. ASSUME Restart
      PROVE  ToShow(t)'
  <2>1. todo'[Repairer] = Step("read")
    BY <1>9, RestartIs
  <2>2. WillRead'
    BY <2>1 DEF WillRead, Step
  <2> QED
    BY <2>2 DEF ToShow
<1> QED
  BY <1>2, <1>3, <1>4, <1>5, <1>6, <1>7, <1>8, <1>9 DEF Next

\* The answer of a turn that completes is shown, or is to be.
LEMMA ShownStep ==
  ASSUME TypeInv, OrderInv, PhaseInv, AnswerInv, [Next]_vars, TextInv'
  PROVE  ShownInv'
<1>0. /\ ShapeInv /\ ResultInv /\ TextInv /\ ShownInv
      /\ KindsInv
  BY DEF AnswerInv, TextInv
<1> SUFFICES ASSUME NEW t \in Turns, Completes(t)'
             PROVE  /\ worker'[t] = "reported" /\ result'[t] = "answered"
                    /\ Doubled(t)' \/ Shown(t)' \/ ToShow(t)'
  BY DEF ShownInv, ShownOf
<1>1. /\ answer'[t] = answer[t] \/ (worker[t] = "off" /\ Has(t, "spawn"))
      /\ worker[t] = "reported" => worker'[t] = worker[t] /\ result'[t] = result[t]
  BY <1>0, ReportedStays
<1>2. Doubled(t) => Doubled(t)'
  BY OwnStays
<1>3. ResultOf(t)
  BY <1>0 DEF ResultInv
<1>4. CASE Completes(t)
  <2>1. worker[t] = "reported" /\ result[t] = "answered" /\ (Doubled(t) \/ Shown(t) \/ ToShow(t))
    BY <1>0, <1>4 DEF ShownInv, ShownOf
  <2>2. answer'[t] = answer[t] /\ worker'[t] = "reported" /\ result'[t] = "answered"
    BY <1>1, <2>1
  <2>3. Shown(t) => Doubled(t) \/ Shown(t)'
    BY <1>0, <2>1, ShownStays
  <2>4. ToShow(t) => ToShow(t)' \/ Shown(t)'
    BY <1>0, <1>3, <2>1, <2>2, ToShowStep
  <2> QED
    BY <1>2, <2>1, <2>2, <2>3, <2>4
<1>5. CASE ~Completes(t)
  <2>1. CheckClosed(t) /\ todo'[T(t)] = Answered("completed") /\ result[t] = "answered"
    BY <1>0, <1>5, CompletesBefore
  <2>2. Has(t, "check")
    <3>1. todo[T(t)] # <<>> /\ Head(todo[T(t)]).do = "check" /\ todo[T(t)] \in Seq(OfRequest)
      BY <2>1, ActorsAre DEF CheckClosed, Doing, TypeInv, Programs
    <3>2. 1 \in DOMAIN todo[T(t)] /\ todo[T(t)][1] = Head(todo[T(t)])
      BY <3>1
    <3> QED
      BY <3>1, <3>2 DEF Has
  <2>3. worker[t] = "reported"
    BY <1>3, <2>2 DEF ResultOf
  <2>4. /\ \E n \in DOMAIN Answered("completed") : ListsAnswers(Answered("completed")[n])
        /\ \E n \in DOMAIN Answered("completed") : Answered("completed")[n].do = "snapshot"
    BY AnsweredShape
  <2>5. WillSnap(t)'
    BY <2>1, <2>4 DEF WillSnap, Has
  <2> QED
    BY <1>1, <2>1, <2>3, <2>5 DEF ToShow
<1> QED
  BY <1>4, <1>5

\* Nothing is said, logged or done at first.
LEMMA AnswerInit == Init => AnswerInv
<1> SUFFICES ASSUME Init
             PROVE  AnswerInv
  OBVIOUS
<1>1. \A a \in Actors : todo[a] = <<>>
  BY DEF Init
<1>2. /\ \A t \in Turns : todo[T(t)] = <<>> /\ todo[W(t)] = <<>>
      /\ \A t \in Turns : ~Completes(t)
  <2>1. \A t \in Turns : todo[T(t)] = <<>> /\ todo[W(t)] = <<>>
    BY <1>1, ActorsAre
  <2>2. \A t \in Turns : run[t].status # "completed"
    BY DEF Init, NoRow
  <2>3. <<>> \in Seq(OfRequest \ Completing)
    OBVIOUS
  <2> QED
    BY <2>1, <2>2, <2>3 DEF Completes
<1>3. ShapeInv
  BY <1>2 DEF ShapeInv, EndsSo, WaitsSo
<1>4. ResultInv
  BY <1>2 DEF Init, ResultInv, ResultOf, Has
<1>5. TextInv
  <2>1. DOMAIN shard = {}
    BY DEF Init
  <2> QED
    BY <1>1, <2>1 DEF TextInv, KindsInv, FaithfulInv, StreamedInv, StreamersInv
<1>6. ShownInv
  BY <1>2 DEF ShownInv, ShownOf
<1> QED
  BY <1>3, <1>4, <1>5, <1>6 DEF AnswerInv

\* Every step keeps the answers.
LEMMA AnswerStep ==
  ASSUME TypeInv, OrderInv, ClosedInv, PhaseInv, AnswerInv, [Next]_vars
  PROVE  AnswerInv'
<1>1. ShapeInv /\ ResultInv /\ TextInv
  BY DEF AnswerInv
<1>2. ShapeInv'
  BY <1>1, ShapeStep
<1>3. ResultInv'
  BY <1>1, ResultStep
<1>4. TextInv'
  BY <1>1, TextStep
<1>5. ShownInv'
  BY <1>4, ShownStep
<1> QED
  BY <1>2, <1>3, <1>4, <1>5 DEF AnswerInv

---------------------------------------------------------------------------
(* Theorems.                                                                *)

\* In every state the log's events have times of their own, a message's sort key is
\* its event's time or a moment of its own (append_message keeps the one it replaces),
\* what is to be rewritten or projected exists, and a turn that completes was begun,
\* took its result once and was not told of a close.
THEOREM TurnsOrdered == Spec => [](TypeInv /\ OrderInv /\ ClosedInv)
<1>1. Init => TypeInv /\ OrderInv /\ ClosedInv
  BY TypeInit, OrderInit, ClosedInit
<1>2. TypeInv /\ OrderInv /\ ClosedInv /\ [Next]_vars => (TypeInv /\ OrderInv /\ ClosedInv)'
  BY TypeStep, OrderStep, ClosedStep
<1> QED
  BY <1>1, <1>2, PTL DEF Spec

\* The feed, the rows and the log keep their types: every message of the feed has a
\* status the client knows, whatever was appended, rewritten, projected or repaired.
THEOREM FeedTyped == Spec => []TypeOK
<1>1. TypeInv => TypeOK
  <2> SUFFICES ASSUME TypeInv
               PROVE  TypeOK
    OBVIOUS
  <2>1. \A i \in DOMAIN Store : Store[i].status \in Phases
    <3> DEFINE S == Merged(product, shard)
    <3>1. IsProduct(product) /\ IsShard(shard)
      BY DEF TypeInv
    <3>2. /\ DOMAIN S = DOMAIN product \cup DOMAIN shard
          /\ IsFiniteSet(DOMAIN S)
          /\ \A i \in DOMAIN product : i \notin DOMAIN shard /\ S[i] = product[i]
          /\ \A i \in DOMAIN shard : i \notin DOMAIN product /\ S[i] = shard[i]
          /\ \A i \in DOMAIN S : S[i] \in ProductMessages \cup ShardMessages
      BY <3>1, MergedIs
    <3>3. Store = S
      BY DEF Store
    <3> HIDE DEF S
    <3>4. \A m \in ProductMessages \cup ShardMessages : m.status \in Phases
      BY DEF ProductMessages, ShardMessages, MessagesOf
    <3> QED
      BY <3>2, <3>3, <3>4
  <2> QED
    BY <2>1 DEF TypeInv, TypeOK, Phases, Settled
<1> QED
  BY <1>1, TurnsOrdered, PTL

\* A turn that was told of a close (chat_thread_was_force_closed) never has its run
\* completed: the request looks at the log before it completes, and nothing writes
\* completed on any other path.
THEOREM ClosedTurns == Spec => []ClosedTurnIsNotCompleted
<1>1. ClosedInv => ClosedTurnIsNotCompleted
  BY DEF ClosedInv, ClosedOf, Completes, ClosedTurnIsNotCompleted
<1> QED
  BY <1>1, TurnsOrdered, PTL

\* No two messages of the feed have the same sort key.
FeedOrdered == \A i, j \in DOMAIN Store : Store[i].sort = Store[j].sort => i = j

\* The feed's order is total: said messages take a new moment, a projected event has
\* that of its event, and a replacement keeps the key of what it replaces, so a cursor
\* on the sort key never stands for two messages.
THEOREM SortKeysDiffer == Spec => []FeedOrdered
<1>1. TypeInv /\ OrderInv => FeedOrdered
  BY SortsDiffer DEF TypeInv, OrderInv, FeedOrdered
<1> QED
  BY <1>1, TurnsOrdered, PTL

\* complete_chat_runtime_phase settles every phase of the thread, whichever turn, close
\* or repair calls it: when no request is at work a phase that still says streaming is
\* that of a turn cut by a restart, and the log had no outcome when the repair read it
\* (or workers outlive the server).
THEOREM PhasesDoSettle == Spec => []PhasesSettle
<1>1. Init => PhaseInv
  BY PhaseInit
<1>2. TypeInv /\ OrderInv /\ ClosedInv /\ PhaseInv /\ [Next]_vars => PhaseInv'
  BY PhaseStep
<1>3. PhaseInv => PhasesSettle
  <2> SUFFICES ASSUME PhaseInv, Quiet, NEW t \in Turns, Streaming(t)
               PROVE  stream[t].pc = "lost" /\ (Orphans \/ Outcomes = {})
    BY DEF PhasesSettle, Streaming
  <2>1. \A a \in Requests : ~Settles(a, t)
    BY DEF Quiet, Settles
  <2>2. T(t) \in Requests
    BY DEF Requests
  <2>3. SettledBy(t)
    BY PhaseParts
  <2> QED
    BY <2>1, <2>2, <2>3, Zenon DEF SettledBy
<1> QED
  BY <1>1, <1>2, <1>3, TurnsOrdered, PTL DEF Spec

\* record_turn and the repair leave out a projected answer only for a streamed one of
\* the thread that says the same.  So when no request is at work each turn completed
\* with an answer has a message of its own that shows it, or the streamed message of
\* another turn shows it or once had, in passing, that text.  This holds whatever was
\* streamed, rewritten, closed, cut by a restart, logged by workers that outlived the
\* server or repaired meanwhile, unless another event of the log has the number of its
\* answer's.
THEOREM AnswersAreShown == Spec => []AnswerIsShown
<1>1. Init => PhaseInv /\ AnswerInv
  BY PhaseInit, AnswerInit
<1>2. /\ TypeInv /\ OrderInv /\ ClosedInv /\ PhaseInv /\ AnswerInv /\ [Next]_vars
      => PhaseInv' /\ AnswerInv'
  BY PhaseStep, AnswerStep
<1>3. TypeInv /\ AnswerInv => AnswerIsShown
  <2> SUFFICES ASSUME TypeInv, AnswerInv, Quiet, NEW t \in Turns,
                      run[t].status = "completed", ~Doubled(t)
               PROVE  Showing(answer[t]) \cap OwnMessages(t) # {} \/ Alike(t)
    BY DEF AnswerIsShown
  <2>1. T(t) \in Requests /\ Repairer \in Requests
    BY DEF Requests
  <2>2. todo[T(t)] = <<>> /\ todo[Repairer] = <<>>
    BY <2>1 DEF Quiet
  <2>3. ~ToShow(t)
    BY <2>2 DEF ToShow, WillSnap, WillShow, WillRead, Has
  <2>4. Shown(t)
    BY <2>3 DEF AnswerInv, ShownInv, ShownOf, Completes
  <2>5. ASSUME NEW i \in DOMAIN shard, shard[i].text = answer[t],
               shard[i].kind \in {"answer", "answered"}
        PROVE  i \in Showing(answer[t])
    <3>1. IsProduct(product) /\ IsShard(shard)
      BY DEF TypeInv
    <3>2. i \in DOMAIN Store /\ Store[i] = shard[i]
      BY <3>1, SortsAreNat
    <3> QED
      BY <2>5, <3>2 DEF Showing
  <2>6. ShownByOwn(t) => Showing(answer[t]) \cap OwnMessages(t) # {}
    BY <2>5 DEF ShownByOwn
  <2> QED
    BY <2>4, <2>6 DEF Shown
<1> QED
  BY <1>1, <1>2, <1>3, TurnsOrdered, PTL DEF Spec
=============================================================================
