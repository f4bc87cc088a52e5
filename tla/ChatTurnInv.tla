---------------------------- MODULE ChatTurnInv -----------------------------
(***************************************************************************)
(* The inductive invariants of ChatTurn: types, the order of the feed, what  *)
(* a turn that completes has behind it, who settles the phases, and what is *)
(* to show an answer that is not in the feed yet.                           *)
(***************************************************************************)
EXTENDS ChatTurn

(* What the feed and the log hold.                                          *)
Texts == Answers \cup {NoText, Part, "ask"}
EventTypes == {"recorded", "answered", "failed", "closed"}
Entries == [seq : Nat, type : EventTypes, turn : Nat, text : Texts, at : Nat]

ProductIds == {"user", "phase"} \X Nat
ShardIds == {"answer", "reasoning", "error", "evt"} \X Nat
Settled == {"completed", "cancelled", "failed"}
Phases == {"streaming"} \cup Settled
MessagesOf(kinds) ==
    [kind : kinds, status : Phases, text : Texts, sort : Nat, upd : Nat]
ProductMessages == MessagesOf({"user", "phase"})
ShardMessages == MessagesOf(InShard)

IsProduct(s) == /\ IsFiniteSet(DOMAIN s) /\ DOMAIN s \subseteq ProductIds
                /\ \A i \in DOMAIN s : s[i] \in ProductMessages /\ s[i].kind = i[1]
IsShard(s) == /\ IsFiniteSet(DOMAIN s) /\ DOMAIN s \subseteq ShardIds
              /\ \A i \in DOMAIN s : s[i] \in ShardMessages

(* The statements of a request, a worker, a close and a repair.             *)
Saying == [do : {"say"}, id : {"user", "phase", "error"} \X Nat, kind : {"user", "phase", "error"},
           status : Phases]
Rewriting ==
    {s \in [do : {"rewrite"}, id : ProductIds, m : ProductMessages] :
       s.m.kind = s.id[1] /\ s.m.status \in Settled}
      \cup {s \in [do : {"rewrite"}, id : ShardIds, m : ShardMessages] : s.m.status \in Settled}
Listing(kinds) == [do : {"list"}, kind : kinds, status : Settled]
Projecting == [do : {"project"}, event : Entries, suppress : BOOLEAN]
RunStatuses == {"running", "completed", "failed", "cancelled"}

OfRequest ==
    [do : {"queue", "spawn", "reap", "check", "snapshot"}]
      \cup [do : {"run"}, status : RunStatuses]
      \cup {s \in Saying : s.id[1] = s.kind}
      \cup Listing({"answer", "reasoning", "phase"}) \cup Rewriting \cup Projecting
OfWorker == [do : {"max"}] \cup [do : {"insert"}, type : {"recorded", "answered", "failed"}]
OfClose == [do : {"max", "own", "flag", "kill"}] \cup [do : {"insert"}, type : {"closed"}]
             \cup Listing({"phase"}) \cup Rewriting \cup Projecting
OfRepair == [do : {"read"}] \cup Listing({"phase"}) \cup Rewriting \cup Projecting

OfActor(a) == CASE a[1] = "turn" -> OfRequest [] a[1] = "worker" -> OfWorker
                [] a[1] = "close" -> OfClose [] a[1] = "repair" -> OfRepair

Programs(p) == p = [a \in Actors |-> p[a]] /\ \A a \in Actors : p[a] \in Seq(OfActor(a))

StreamFields == {"pc", "after", "page", "last", "sent"}

TypeInv ==
    /\ truth \in Seq(Entries)
    /\ IsProduct(product) /\ IsShard(shard)
    /\ run \in [Turns -> Row]
    /\ Programs(todo)
    /\ held \in [Actors -> Nat]
    /\ worker \in [Turns -> {"off", "running", "reported", "dead"}]
    /\ result \in [Turns -> {"none", "answered", "failed"}]
    /\ answer \in [Turns -> Texts]
    /\ snap \in [Turns -> Nat] /\ \A t \in Turns : snap[t] <= Len(truth)
    /\ hide \in [Turns -> BOOLEAN]
    /\ stream = [t \in Turns |-> stream[t]]
    /\ \A t \in Turns : DOMAIN stream[t] = StreamFields
    /\ clock \in Nat
    /\ warned \in [Turns -> BOOLEAN]

---------------------------------------------------------------------------
(* The order of the feed.  A message keeps the moment it was created at as   *)
(* its sort key, a projected event that of the event.                       *)

IsEvt(i) == i[1] = "evt"

(* The message of an event has the time of an event with its number.        *)
FromLog(i) == \E e \in DOMAIN truth : <<"evt", truth[e].seq>> = i /\ truth[e].at = shard[i].sort

(* Times tell events apart, and one event has the latest number.            *)
TimesInv ==
    /\ \A e \in DOMAIN truth : truth[e].at <= clock
    /\ \A e, f \in DOMAIN truth : truth[e].at = truth[f].at => e = f
    /\ truth # <<>> => \E e \in DOMAIN truth : \A f \in DOMAIN truth : truth[f].seq <= truth[e].seq

(* A message that is no event's has a sort key of its own.                  *)
SortsInv ==
    /\ \A i \in DOMAIN Store : Store[i].sort <= clock
    /\ \A i \in DOMAIN Store : ~IsEvt(i) =>
         /\ \A e \in DOMAIN truth : truth[e].at # Store[i].sort
         /\ \A j \in DOMAIN Store : ~IsEvt(j) /\ Store[j].sort = Store[i].sort => i = j
    /\ \A i \in DOMAIN shard : IsEvt(i) => FromLog(i)

(* What is to be rewritten is in the feed, what is to be projected in the log. *)
Backed(s) ==
    /\ s.do = "rewrite" => s.id \in DOMAIN Store
    /\ s.do = "project" => \E e \in DOMAIN truth : s.event = truth[e]
BackedInv == \A a \in Actors : \A n \in DOMAIN todo[a] : Backed(todo[a][n])

(* A close that projects its event has written it.                          *)
Owning == [do : {"own"}]
At(a, n, s) == n \in DOMAIN todo[a] /\ todo[a][n] = s
OwnInv ==
    \/ LogHoldsClose
    \/ todo[Closer] \in Seq(OfClose \ Owning)
    \/ At(Closer, 1, [do |-> "max"]) /\ At(Closer, 2, [do |-> "insert", type |-> "closed"])
    \/ At(Closer, 1, [do |-> "insert", type |-> "closed"])

OrderInv == TimesInv /\ SortsInv /\ BackedInv /\ OwnInv

---------------------------------------------------------------------------
(* A turn that completes.                                                   *)

Completing == [do : {"run"}, status : {"completed"}]
Reaping == [do : {"reap"}]

(* The row of t says completed, or t still is to write it.                  *)
Completes(t) == run[t].status = "completed" \/ todo[T(t)] \notin Seq(OfRequest \ Completing)

(* A turn is begun once, and its result is taken once, before it completes. *)
ClosedOf(t) ==
    /\ warned[t] => LogHoldsClose
    /\ todo[T(t)] # <<>> \/ Completes(t) => stream[t].pc # "off"
    /\ Completes(t) => ~warned[t] /\ todo[T(t)] \in Seq(OfRequest \ Reaping)
ClosedInv == \A t \in Turns : ClosedOf(t)

---------------------------------------------------------------------------
(* The phases of the turns.  A phase is begun by its own turn and settled by *)
(* whoever lists the phases after that.                                     *)

Streaming(t) == <<"phase", t>> \in DOMAIN product /\ product[<<"phase", t>>].status = "streaming"

(* A statement that settles the phase of t, or is followed by one that does. *)
ListsPhases(s) == s.do = "list" /\ s.kind = "phase"
Settling(s, t) ==
    \/ s.do \in {"reap", "check", "read"} \/ ListsPhases(s)
    \/ s.do = "rewrite" /\ s.id = <<"phase", t>>
Settles(a, t) == \E n \in DOMAIN todo[a] : Settling(todo[a][n], t)

(* The program of a request says messages of its turn, spawns once, and goes *)
(* on to take the result; once that is taken it does neither again.          *)
SaysPhase(s) == s.do = "say" /\ s.kind = "phase"
Spawns(s) == s.do = "spawn"
RunsOn(p, t) ==
    /\ \A n \in DOMAIN p : p[n].do = "say" => p[n].id[2] = t
    /\ \A n, m \in DOMAIN p : Spawns(p[n]) /\ Spawns(p[m]) => n = m
    /\ \A n \in DOMAIN p : SaysPhase(p[n]) \/ Spawns(p[n]) => p[Len(p)].do = "reap"
    /\ \A n, m \in DOMAIN p : p[n].do = "check" => p[m].do \notin {"reap", "spawn"}

(* A worker runs while its request, if that still lives, is to take its result. *)
WorkerInv(t) ==
    /\ RunsOn(todo[T(t)], t)
    /\ (\E n \in DOMAIN todo[T(t)] : Spawns(todo[T(t)][n])) => worker[t] = "off"
    /\ todo[W(t)] # <<>> => worker[t] = "running"
    /\ ~Orphans /\ worker[t] = "running" =>
         \E n \in DOMAIN todo[T(t)] : todo[T(t)][n].do = "reap"
    /\ stream[t].pc = "off" => worker[t] = "off" /\ <<"phase", t>> \notin DOMAIN product

(* A close ends by listing the phases, after its event.                      *)
CloseLists ==
    \A n \in DOMAIN todo[Closer] :
        todo[Closer][n].do = "insert" => ListsPhases(todo[Closer][Len(todo[Closer])])

(* Who is to settle a phase: its own turn, unless a restart cut it off; then *)
(* anyone at work, once the log has an outcome.                             *)
SettledBy(t) ==
    \/ Settles(T(t), t)
    \/ stream[t].pc = "lost" /\ (Orphans \/ Outcomes = {} \/ \E a \in Requests : Settles(a, t))
PhaseInv == /\ \A t \in Turns : WorkerInv(t) /\ (Streaming(t) => SettledBy(t))
            /\ CloseLists

---------------------------------------------------------------------------
(* The answers.                                                             *)

(* One request is open at a time.  The last thing it has to do is to take    *)
(* the result, to look at it or to project its events; before it has the     *)
(* result it lists nothing.                                                 *)
Ending == {"reap", "check", "snapshot"}
EndsSo(p) == \A n \in DOMAIN p : p[n].do \in Ending => n = Len(p)
WaitsSo(p) == \A n, m \in DOMAIN p :
                p[n].do = "reap" => p[m].do \in {"say", "queue", "run", "spawn", "reap"}
ShapeInv ==
    /\ \A t, u \in Turns : todo[T(t)] # <<>> /\ todo[T(u)] # <<>> => t = u
    /\ \A t \in Turns : EndsSo(todo[T(t)]) /\ WaitsSo(todo[T(t)])

(* The answer of t in the log, among the first n events.                     *)
IsAnswer(e, t) == e.type = "answered" /\ e.turn = t /\ e.text = answer[t]
Logged(t, n) == \E e \in DOMAIN truth : e <= n /\ IsAnswer(truth[e], t)

(* A worker that reports an answer has logged it, and the result the request *)
(* takes holds the event.                                                   *)
Has(t, what) == \E n \in DOMAIN todo[T(t)] : todo[T(t)][n].do = what
Taken(t) == \A n \in DOMAIN todo[T(t)] : todo[T(t)][n].do \notin Ending
LogsAnswer(t) == \E n \in DOMAIN todo[W(t)] : todo[W(t)][n] = [do |-> "insert", type |-> "answered"]
ResultOf(t) ==
    /\ answer[t] \in Answers \cup {NoText}
    /\ worker[t] = "off" => result[t] = "none"
    /\ worker[t] = "running" /\ result[t] = "answered" => Logged(t, Len(truth)) \/ LogsAnswer(t)
    /\ worker[t] = "reported" /\ result[t] = "answered" =>
         Logged(t, Len(truth)) /\ (Logged(t, snap[t]) \/ Taken(t))
    /\ Has(t, "check") => worker[t] = "reported"
ResultInv == \A t \in Turns : ResultOf(t)

(* A message of the shard is of the kind of its identifier, or an event's.   *)
EventOf(i) == \E e \in DOMAIN truth :
                 /\ <<"evt", truth[e].seq>> = i
                 /\ shard[i].text = truth[e].text /\ shard[i].kind = truth[e].type
KindsInv == \A i \in DOMAIN shard : IF IsEvt(i) THEN EventOf(i) ELSE shard[i].kind = i[1]

(* What is to be rewritten in the shard was streamed, and is as it was listed. *)
Faithful(a, s) ==
    s.do = "rewrite" /\ s.id \in ShardIds =>
      /\ \E t \in Turns : a = T(t)
      /\ s.id[1] \in {"answer", "reasoning"} /\ s.m.kind = s.id[1] /\ s.m.text = shard[s.id].text
FaithfulInv == \A a \in Actors : \A n \in DOMAIN todo[a] : Faithful(a, todo[a][n])

(* A streamed answer is a part of its turn's, or all of it.                  *)
StreamedInv == \A t \in Turns : <<"answer", t>> \in DOMAIN shard =>
                 /\ stream[t].pc # "off" /\ ~Has(t, "spawn")
                 /\ shard[<<"answer", t>>].text \in {Part, answer[t]}
StreamersInv == \A i \in DOMAIN shard : i[1] = "answer" => i[2] \in Turns
TextInv == KindsInv /\ FaithfulInv /\ StreamedInv /\ StreamersInv

(* The answer of a turn that completes is in the feed, or still to be        *)
(* projected, by the turn itself or after a restart by the repair.  It is    *)
(* shown by the turn's own message, unless another turn reads alike.         *)
ShownByOwn(t) ==
    \E i \in DOMAIN shard \cap OwnMessages(t) :
        shard[i].text = answer[t] /\ shard[i].kind \in {"answer", "answered"}
Shown(t) == ShownByOwn(t) \/ Alike(t)
Shows(s, t) == s.do = "project" /\ ~s.suppress /\ IsAnswer(s.event, t)
WillShow(a, t) == \E n \in DOMAIN todo[a] : Shows(todo[a][n], t)
ListsAnswers(s) == s.do = "list" /\ s.kind = "answer"
WillSnap(t) == /\ Has(t, "snapshot")
               /\ ~hide[t] \/ \E n \in DOMAIN todo[T(t)] : ListsAnswers(todo[T(t)][n])
WillRead == \E n \in DOMAIN todo[Repairer] : todo[Repairer][n].do = "read"
ToShow(t) == WillSnap(t) \/ WillShow(T(t), t) \/ WillShow(Repairer, t) \/ WillRead
ShownOf(t) == Completes(t) =>
    /\ worker[t] = "reported" /\ result[t] = "answered"
    /\ Doubled(t) \/ Shown(t) \/ ToShow(t)
ShownInv == \A t \in Turns : ShownOf(t)

AnswerInv == ShapeInv /\ ResultInv /\ TextInv /\ ShownInv
===========================================================================
