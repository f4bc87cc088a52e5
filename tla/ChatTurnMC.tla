----------------------------- MODULE ChatTurnMC ------------------------------
(***************************************************************************)
(* ChatTurn for TLC.                                                         *)
(***************************************************************************)
EXTENDS ChatTurnInv, TLC

(* Nothing is claimed of a live stream once its turn was closed by force or  *)
(* met a restart, and a stream changes nothing that anyone else reads, so a  *)
(* stream that is then still open need not be followed any further.         *)
FollowedWhileCalm == \A t \in Turns : stream[t].pc = "loading" => calm[t]

(* Answers are compared with each other, Part and NoText only.               *)
AnswerSymmetry == Permutations(Answers)

(* Where no turn is watched (Watched = {}) no stream ever loads: nobody reads*)
(* the time of a message's update, a cursor or what was sent, and of the time*)
(* something was created or logged only the order with other times matters.  *)
(* warned and calm are read by properties that such a run does not check.    *)
View ==
  LET times == {product[i].sort : i \in DOMAIN product} \cup {shard[i].sort : i \in DOMAIN shard}
                 \cup {truth[e].at : e \in DOMAIN truth}
      rank == [n \in times |-> Cardinality({k \in times : k < n})]
      Ranked(feedOf) == [i \in DOMAIN feedOf |->
          <<feedOf[i].kind, feedOf[i].status, feedOf[i].text, rank[feedOf[i].sort]>>]
      Pending(s) == CASE s.do = "rewrite" -> <<s.id, s.m.status, s.m.text>>
                   [] s.do = "project" -> <<s.event.seq, s.event.type, s.event.text, s.suppress, rank[s.event.at]>>
                   [] OTHER -> s
  IN << [e \in DOMAIN truth |-> <<truth[e].seq, truth[e].type, truth[e].turn, truth[e].text,
                                  rank[truth[e].at]>>],
        Ranked(product), Ranked(shard),
        [a \in Actors |-> [n \in DOMAIN todo[a] |-> Pending(todo[a][n])]],
        held, run, worker, result, answer, snap, hide, [t \in Turns |-> stream[t].pc],
        closes, restarts >>
=============================================================================
