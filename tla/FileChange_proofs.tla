------------------------- MODULE FileChange_proofs --------------------------
(***************************************************************************)
(* Proofs about FileChange for any callers, files, spellings and calls, and  *)
(* for any number of rollbacks and faults.                                  *)
(***************************************************************************)
EXTENDS FileChange, TLAPS

\* A caller that still has to lock a name locks the least one next: it wants at
\* most the two names of its call.
LEMMA NextNameIsLeast ==
    ASSUME TypeOK, LocksAreHeld, NEW c \in Callers, pc[c] = "lock", want[c] # {}
    PROVE  /\ NextName(c) \in want[c]
           /\ NextName(c) \in NamesOf(op[c]) /\ NextName(c) \in Names
           /\ \A m \in want[c] : NextName(c) <= m
<1> USE NamesAssumption
<1>1. want[c] \subseteq NamesOf(op[c]) /\ want[c] \subseteq Names
  BY DEF LocksAreHeld, TypeOK
<1>2. \A n \in want[c] : n \in Nat /\ (n = op[c].source \/ n = op[c].destination)
  BY <1>1 DEF NamesOf
<1>3. \E n \in want[c] : \A m \in want[c] : n <= m
  BY <1>2
<1> QED
  BY <1>1, <1>3 DEF NextName

\* A call, or a rollback, at work on a transaction names what it names.
LEMMA SameNames ==
    ASSUME TypeOK, WorkIsKnown, NEW c \in Callers, pc[c] \in AtWork \cup {"restored"}
    PROVE  /\ tx[c] \in Txs /\ made[tx[c]].caller = c
           /\ op[c].source = made[tx[c]].op.source
           /\ op[c].destination = made[tx[c]].op.destination
           /\ made[tx[c]].op \in Op /\ made[tx[c]].op.kind \in Kinds /\ Named(made[tx[c]].op)
           /\ NamesOf(op[c]) = NamesOf(made[tx[c]].op)
           /\ FilesOf(op[c]) = FilesOf(made[tx[c]].op)
<1>1. tx[c] \in Txs /\ made[tx[c]].caller = c
  BY DEF WorkIsKnown, KnownWork
<1>4. made[tx[c]].op \in Op /\ made[tx[c]].op.kind \in Kinds /\ Named(made[tx[c]].op)
  BY <1>1 DEF TypeOK, WorkIsKnown, Txs
<1>2. \/ op[c] = made[tx[c]].op
      \/ op[c] = [made[tx[c]].op EXCEPT !.kind = "undo"]
  BY DEF WorkIsKnown, KnownWork, AtWork
<1>3. op[c].source = made[tx[c]].op.source /\ op[c].destination = made[tx[c]].op.destination
  BY <1>2, <1>4 DEF Op
<1> QED
  BY <1>1, <1>3, <1>4 DEF NamesOf, FilesOf

\* What a step leaves as it is for caller d.
SameFor(d) ==
    /\ pc'[d] = pc[d] /\ op'[d] = op[d] /\ tx'[d] = tx[d] /\ slot'[d] = slot[d]
    /\ pc[d] \in AtWork \cup {"restored"} =>
         /\ made'[tx[d]] = made[tx[d]]
         /\ backup'[tx[d]] = backup[tx[d]]
         /\ before'[tx[d]] = before[tx[d]]
         /\ tx[d] \notin disturbed' =>
              tx[d] \notin disturbed /\ \A f \in FilesOf(op[d]) : files'[f] = files[f]

\* A step that leaves all that as it is keeps what is known of d.
LEMMA OthersKeep ==
    ASSUME TypeOK, WorkIsKnown, NEW d \in Callers, SameFor(d),
           ChangeKeeps(d), SideIsUndone(d), IsRestored(d)
    PROVE  ChangeKeeps(d)' /\ SideIsUndone(d)' /\ IsRestored(d)'
<1>1. pc[d] \in Changing => /\ op[d].kind # "delete" => Destination(d) \in FilesOf(op[d])
                            /\ op[d].kind \in {"copy", "move", "delete"} => Source(d) \in FilesOf(op[d])
  <2>1. pc[d] \in Changing => Named(op[d])
    BY DEF WorkIsKnown, KnownWork, AtWork
  <2> QED
    BY <2>1 DEF Named, FilesOf, NamesOf, Source, Destination
<1>2. op[d].destination # NoName => Destination(d) \in FilesOf(op[d])
  BY DEF FilesOf, NamesOf, Destination
<1>3. ChangeKeeps(d)'
  <2>1. SUFFICES ASSUME pc[d] \in Changing, tx[d] \notin disturbed'
                 PROVE  ChangeKeeps(d)'
    BY DEF SameFor, ChangeKeeps
  <2>2. \A f \in FilesOf(op[d]) : files'[f] = files[f]
    BY <2>1 DEF SameFor, AtWork
  <2>3. /\ tx[d] \notin disturbed /\ made'[tx[d]] = made[tx[d]]
        /\ backup'[tx[d]] = backup[tx[d]] /\ before'[tx[d]] = before[tx[d]]
    BY <2>1 DEF SameFor, AtWork
  <2>4. /\ pc[d] \in {"open", "fill"} => op[d].kind # "delete"
        /\ pc[d] = "remove" => op[d].kind \in {"delete", "move"}
    BY DEF WorkIsKnown, KnownWork
  <2>5. /\ pc'[d] = pc[d] /\ op'[d] = op[d] /\ tx'[d] = tx[d]
        /\ Source(d)' = Source(d) /\ Destination(d)' = Destination(d)
        /\ FilesOf(op[d])' = FilesOf(op[d])
    BY DEF SameFor, Source, Destination, FilesOf, NamesOf
  <2>6. /\ SourceKept(tx[d]) => SourceKept(tx[d])'
        /\ DestinationKept(tx[d]) => DestinationKept(tx[d])'
    BY <2>3, <2>5 DEF SourceKept, DestinationKept
  <2>7. /\ op[d].kind # "delete" => files'[Destination(d)] = files[Destination(d)]
        /\ op[d].kind \in {"copy", "move", "delete"} => files'[Source(d)] = files[Source(d)]
    BY <1>1, <2>1, <2>2
  <2> QED
    BY <2>1, <2>2, <2>3, <2>4, <2>5, <2>6, <2>7 DEF ChangeKeeps, Copies
<1>4. SideIsUndone(d)'
  BY <1>2 DEF SameFor, SideIsUndone, Source, Destination, AtWork
<1>5. IsRestored(d)'
  BY DEF SameFor, IsRestored, FilesOf, NamesOf
<1> QED
  BY <1>3, <1>4, <1>5

\* So does one that records no transaction of its own.
LEMMA OthersKnown ==
    ASSUME NEW d \in Callers, SameFor(d), KnownWork(d),
           count \in Nat, count' \in Nat, count <= count', recorded \subseteq recorded',
           pc[d] \in Changing /\ tx[d] \in recorded' => tx[d] \in recorded
    PROVE  KnownWork(d)'
<1>1. /\ pc'[d] = pc[d] /\ op'[d] = op[d] /\ tx'[d] = tx[d] /\ slot'[d] = slot[d]
      /\ pc[d] \in AtWork \cup {"restored"} => made'[tx[d]] = made[tx[d]]
  BY DEF SameFor
<1>2. Txs \subseteq Txs'
  BY DEF Txs
<1>3. SideName(op[d], slot[d])' = SideName(op[d], slot[d])
  BY <1>1 DEF SideName
<1>4. Named(op[d])' <=> Named(op[d])
  BY <1>1 DEF Named
<1> QED
  BY <1>1, <1>2, <1>3, <1>4 DEF KnownWork, AtWork

\* What a caller at work works on.
LEMMA OwnFiles ==
    ASSUME TypeOK, WorkIsKnown, NEW c \in Callers, pc[c] \in AtWork \cup {"restored"}
    PROVE  /\ op[c].source # NoName =>
                op[c].source \in NamesOf(op[c]) /\ Source(c) \in Files /\ Source(c) \in FilesOf(op[c])
           /\ op[c].destination # NoName =>
                /\ op[c].destination \in NamesOf(op[c])
                /\ Destination(c) \in Files /\ Destination(c) \in FilesOf(op[c])
           /\ \A f \in FilesOf(op[c]) : \/ op[c].source # NoName /\ f = Source(c)
                                        \/ op[c].destination # NoName /\ f = Destination(c)
           /\ \A n \in NamesOf(op[c]) : n \in Names /\ FileOf[n] \in Files /\ FileOf[n] \in FilesOf(op[c])
           /\ pc[c] \in Changing =>
                /\ (op[c].source = NoName) <=> (op[c].kind \in {"write", "zip"})
                /\ (op[c].destination = NoName) <=> (op[c].kind = "delete")
                /\ op[c].kind \in Kinds
<1> USE NamesAssumption
<1>1. op[c].source \in Names \cup {NoName} /\ op[c].destination \in Names \cup {NoName}
  BY SameNames DEF Op
<1>2. pc[c] \in Changing => op[c] = made[tx[c]].op
  BY DEF WorkIsKnown, KnownWork
<1>3. NamesOf(op[c]) \subseteq Names /\ \A n \in Names : FileOf[n] \in Files
  BY <1>1 DEF NamesOf
<1>4. /\ op[c].source # NoName => op[c].source \in NamesOf(op[c])
      /\ op[c].destination # NoName => op[c].destination \in NamesOf(op[c])
      /\ \A n \in NamesOf(op[c]) : n # NoName /\ n \in {op[c].source, op[c].destination}
  BY DEF NamesOf
<1>5. pc[c] \in Changing => Named(op[c]) /\ op[c].kind \in Kinds
  BY <1>2, SameNames
<1> QED
  BY <1>3, <1>4, <1>5 DEF FilesOf, Source, Destination, Named

\* The copies of an undisturbed transaction that is being undone.
LEMMA UndoCopies ==
    ASSUME TypeOK, WorkIsKnown, RecordedIsKept, NEW c \in Callers,
           pc[c] \in Undoing \cup {"restored"}, tx[c] \notin disturbed
    PROVE  /\ op[c].destination # NoName =>
                backup[tx[c]]["destination"] = before[tx[c]][Destination(c)]
           /\ op[c].source # NoName /\ made[tx[c]].op.kind # "unzip" =>
                backup[tx[c]]["source"] = before[tx[c]][Source(c)]
<1>1. tx[c] \in recorded
  BY DEF WorkIsKnown, KnownWork
<1>2. pc[c] \in AtWork \cup {"restored"}
  BY DEF AtWork
<1> QED
  BY <1>1, <1>2, SameNames
  DEF RecordedIsKept, SourceKept, DestinationKept, Source, Destination, Named, SourceSaved, Kinds

\* A caller at work that writes one of its files disturbs every transaction of
\* others on the file.
LEMMA PutKeepsOthers ==
    ASSUME TypeOK, WorkIsKnown, NEW c \in Callers, NEW d \in Callers \ {c}, NEW f, NEW x,
           pc[c] \in AtWork, Put(f, x, tx[c]),
           pc'[d] = pc[d], op'[d] = op[d], tx'[d] = tx[d], slot'[d] = slot[d],
           UNCHANGED <<made, backup, before>>
    PROVE  SameFor(d)
<1>1. CASE pc[d] \in AtWork \cup {"restored"}
  <2>1. tx[d] # tx[c] /\ tx[d] \in 1 .. count /\ FilesOf(op[d]) = FilesOf(made[tx[d]].op)
    BY <1>1, SameNames DEF Txs
  <2>2. tx[d] \notin disturbed' => f \notin FilesOf(op[d])
    BY <2>1 DEF Put
  <2>3. \A g \in FilesOf(op[d]) : g # f => files'[g] = files[g]
    BY DEF Put, TypeOK
  <2> QED
    BY <2>1, <2>2, <2>3 DEF SameFor, Put
<1>2. CASE pc[d] \notin AtWork \cup {"restored"}
  BY <1>2 DEF SameFor
<1> QED
  BY <1>1, <1>2

\* Nor does it disturb a transaction of its own, or a change that did not meet
\* it: the two would have the same lock.
LEMMA PutMeets ==
    ASSUME TypeOK, LocksAreHeld, WorkIsKnown, MeetingsAreKnown, UnmetIsUndisturbed,
           NEW c \in Callers, NEW d \in Callers, NEW n \in NamesOf(op[c]), NEW x,
           pc[c] \in AtWork, Put(FileOf[n], x, tx[c]),
           pc[d] \in Changing, ~met[d]
    PROVE  tx[d] \notin disturbed'
<1>1. tx[d] \notin disturbed
  BY DEF UnmetIsUndisturbed
<1>2. CASE d # c
  <2>1. SUFFICES ASSUME tx[d] \in disturbed' PROVE FALSE
    OBVIOUS
  <2>2. FileOf[n] \in FilesOf(op[d])
    BY <1>1, <2>1, SameNames DEF Put, AtWork
  <2>3. PICK m \in NamesOf(op[d]) : FileOf[m] = FileOf[n]
    BY <2>2 DEF FilesOf
  <2>4. ~Clash(op[c], op[d])
    BY <1>2 DEF MeetingsAreKnown, AtWork
  <2>5. m = n /\ op[c].kind \notin LockFree /\ op[d].kind \notin LockFree
    BY <2>3, <2>4 DEF Clash
  <2>6. pc[c] \in Changing
    <3>1. pc[c] \in Undoing => made[tx[c]].op \in Op /\ op[c] = [made[tx[c]].op EXCEPT !.kind = "undo"]
      BY DEF AtWork, WorkIsKnown, KnownWork, TypeOK, Txs
    <3> QED
      BY <2>5, <3>1 DEF AtWork, LockFree, Op
  <2> QED
    BY <1>2, <2>5, <2>6 DEF LocksAreHeld
<1>3. CASE d = c
  BY <1>1, <1>3 DEF Put
<1> QED
  BY <1>2, <1>3

\* A step that puts a caller to rest, and changes no file and no transaction.
LEMMA RestKeeps ==
    ASSUME IInv, NEW c \in Callers, NEW p, p \notin AtWork \cup {"restored"}, Go(c, p),
           \A d \in Callers \ {c} : op'[d] = op[d] /\ tx'[d] = tx[d] /\ slot'[d] = slot[d],
           UNCHANGED <<files, backup, made, before, disturbed>>
    PROVE  UndisturbedKeeps' /\ UndoneSides' /\ RollbackRestores'
<1>1. ASSUME NEW d \in Callers \ {c} PROVE SameFor(d)
  BY DEF IInv, TypeOK, Go, SameFor
<1>2. ChangeKeeps(c)' /\ SideIsUndone(c)' /\ IsRestored(c)'
  BY DEF IInv, TypeOK, Go, ChangeKeeps, SideIsUndone, IsRestored, AtWork
<1>3. ASSUME NEW d \in Callers PROVE ChangeKeeps(d)' /\ SideIsUndone(d)' /\ IsRestored(d)'
  BY <1>1, <1>2, OthersKeep DEF IInv, UndisturbedKeeps, UndoneSides, RollbackRestores
<1> QED
  BY <1>3 DEF UndisturbedKeeps, UndoneSides, RollbackRestores

\* The start of a change: its transaction is new, and its files are as before.
LEMMA StartedInv ==
    ASSUME IInv, NEW c \in Callers, NEW o \in Op, o.kind \in Kinds, Named(o),
           pc[c] \notin AtWork \cup {"restored"},
           StartWork(c, o), op' = [op EXCEPT ![c] = o],
           rival' \in [Callers -> Callers \cup {Free, Orphan}],
           UNCHANGED <<files, lock, want, text, slot, recorded, others, disturbed>>
    PROVE  /\ TypeOK' /\ WorkIsKnown' /\ MeetingsAreKnown' /\ UnmetIsUndisturbed'
           /\ RecordedIsKept' /\ UndisturbedKeeps' /\ UndoneSides' /\ RollbackRestores'
<1> DEFINE n == count + 1
<1>1. /\ count \in Nat /\ n \in Nat /\ n \notin Txs /\ Txs' = Txs \cup {n}
      /\ n \notin recorded /\ n \notin disturbed /\ count' = n
  BY DEF IInv, TypeOK, Txs, StartWork
<1>2. \A t \in Txs : made'[t] = made[t] /\ backup'[t] = backup[t] /\ before'[t] = before[t]
  BY <1>1 DEF StartWork, Txs
<1>3. /\ made'[n] = [op |-> o, caller |-> c]
      /\ backup'[n] = [s \in Slots |-> Absent]
      /\ before'[n] = files
      /\ tx'[c] = n /\ pc'[c] = FirstStep(o.kind) /\ op'[c] = o
  BY <1>1 DEF StartWork, Txs, Go, IInv, TypeOK
<1>4. ASSUME NEW d \in Callers \ {c}
      PROVE  pc'[d] = pc[d] /\ op'[d] = op[d] /\ tx'[d] = tx[d] /\ slot'[d] = slot[d]
  BY DEF StartWork, Go, IInv, TypeOK
<1>6. FirstStep(o.kind) \in {"save_source", "save_destination"}
  BY DEF FirstStep
<1>5. TypeOK'
  <2>1. Contents \subseteq Contents'
    BY <1>1 DEF Contents, Txs
  <2>2. files' \in [Files -> Contents'] /\ text' \in [Callers -> Contents']
    BY <2>1 DEF IInv, TypeOK
  <2>3. DOMAIN made' = Txs' /\ DOMAIN backup' = Txs' /\ DOMAIN before' = Txs'
    BY <1>1 DEF StartWork, Txs
  <2>4. \A t \in Txs' : /\ made'[t] \in [op : Op, caller : Callers]
                        /\ backup'[t] \in [Slots -> Contents']
                        /\ before'[t] \in [Files -> Contents']
    <3>1. ASSUME NEW t \in Txs PROVE /\ made'[t] \in [op : Op, caller : Callers]
                                     /\ backup'[t] \in [Slots -> Contents']
                                     /\ before'[t] \in [Files -> Contents']
      BY <1>2, <2>1 DEF IInv, TypeOK
    <3>2. /\ made'[n] \in [op : Op, caller : Callers]
          /\ backup'[n] \in [Slots -> Contents']
          /\ before'[n] \in [Files -> Contents']
      BY <1>3, <2>2 DEF Contents
    <3> QED
      BY <1>1, <3>1, <3>2
  <2>5. /\ made' \in [Txs' -> [op : Op, caller : Callers]]
        /\ backup' \in [Txs' -> [Slots -> Contents']]
        /\ before' \in [Txs' -> [Files -> Contents']]
    BY <2>3, <2>4 DEF StartWork, Txs
  <2>6. op' \in [Callers -> Op] /\ tx' \in [Callers -> 0 .. count']
    BY <1>1 DEF IInv, TypeOK, StartWork
  <2>7. pc' \in [Callers -> AtWork \cup {"idle", "lock", "unlock", "restored", "dead"}]
    BY <1>6 DEF IInv, TypeOK, StartWork, Go, AtWork, Changing
  <2>8. met' \in [Callers -> BOOLEAN]
    BY Zenon DEF IInv, TypeOK, StartWork, Meet
  <2> QED
    BY <1>1, <2>2, <2>5, <2>6, <2>7, <2>8 DEF IInv, TypeOK
<1>7. ASSUME NEW d \in Callers \ {c} PROVE SameFor(d)
  <2>1. pc[d] \in AtWork \cup {"restored"} => tx[d] \in Txs
    BY DEF IInv, WorkIsKnown, KnownWork
  <2> QED
    BY <1>2, <1>4, <2>1 DEF SameFor
<1>8. WorkIsKnown'
  <2>1. \A t \in Txs' : made'[t].op.kind \in Kinds /\ Named(made'[t].op)
    BY <1>1, <1>2, <1>3 DEF IInv, WorkIsKnown, KnownWork
  <2>2. \A d \in Callers \ {c} : pc[d] \in AtWork \cup {"restored"} => made'[tx[d]] = made[tx[d]]
    BY <1>7 DEF SameFor
  <2>3. /\ pc'[c] = FirstStep(o.kind) /\ op'[c] = made'[n].op /\ tx'[c] = n
        /\ made'[n].caller = c /\ n \in Txs' /\ n \notin recorded'
        /\ pc'[c] = "save_source" => op'[c].kind \in SourceSaved
        /\ pc'[c] = "save_destination" => op'[c].kind # "delete"
    BY <1>1, <1>3 DEF FirstStep, SourceSaved
  <2>4. KnownWork(c)'
    BY <1>6, <2>3 DEF KnownWork, AtWork, Changing, Undoing
  <2>5. ASSUME NEW d \in Callers \ {c} PROVE KnownWork(d)'
    BY <1>1, <1>7, OthersKnown DEF IInv, WorkIsKnown
  <2> QED
    BY <2>1, <2>4, <2>5 DEF WorkIsKnown, KnownWork
<1>9. MeetingsAreKnown'
  <2>1. ASSUME NEW d \in Callers, NEW e \in Callers, d # e,
               pc'[d] \in AtWork, pc'[e] \in AtWork, Clash(op'[d], op'[e])
        PROVE  met'[d] /\ met'[e]
    <3>1. CASE d = c
      BY <1>3, <1>4, <2>1, <3>1 DEF StartWork, Meet
    <3>2. CASE e = c
      <4>1. Clash(op'[e], op'[d])
        BY <2>1 DEF Clash
      <4>2. d \in {x \in Callers \ {c} : pc[x] \in AtWork /\ Clash(o, op[x])}
        BY <1>3, <1>4, <2>1, <3>2, <4>1
      <4> QED
        BY <2>1, <3>2, <4>2 DEF StartWork, Meet
    <3>3. CASE d # c /\ e # c
      BY <1>4, <2>1, <3>3 DEF StartWork, Meet, IInv, MeetingsAreKnown
    <3> QED
      BY <3>1, <3>2, <3>3
  <2>2. \A d, e \in Callers : Clash(op[d], op[e])' <=> Clash(op'[d], op'[e])
    BY DEF Clash, NamesOf
  <2> QED
    BY <2>1, <2>2 DEF MeetingsAreKnown, AtWork, Changing, Undoing
<1>10. UnmetIsUndisturbed'
  <2>1. \A d \in Callers \ {c} : met[d] => met'[d]
    BY DEF StartWork, Meet
  <2> QED
    BY <1>1, <1>3, <1>4, <2>1 DEF IInv, UnmetIsUndisturbed
<1>11. RecordedIsKept'
  <2>1. recorded \subseteq Txs
    BY DEF IInv, TypeOK
  <2> QED
    BY <1>2, <2>1 DEF IInv, RecordedIsKept, SourceKept, DestinationKept
<1>12. ChangeKeeps(c)' /\ SideIsUndone(c)' /\ IsRestored(c)'
  BY <1>3, <1>6 DEF ChangeKeeps, SideIsUndone, IsRestored, FirstStep, Undoing
<1>13. ASSUME NEW d \in Callers PROVE ChangeKeeps(d)' /\ SideIsUndone(d)' /\ IsRestored(d)'
  BY <1>7, <1>12, OthersKeep DEF IInv, UndisturbedKeeps, UndoneSides, RollbackRestores
<1> QED
  BY <1>5, <1>8, <1>9, <1>10, <1>11, <1>13 DEF UndisturbedKeeps, UndoneSides, RollbackRestores

\* Every step of a caller preserves the invariant.  Those that touch no file
\* leave to show what they do to the locks and to the caller's own call.
LEMMA BeginInv ==
    ASSUME IInv, NEW c \in Callers, Begin(c) PROVE IInv'
<1> USE NamesAssumption, LockAssumption
<1> USE DEF Begin, Go, IInv, AtWork, Changing, Undoing, Slots, Kinds, LockFree,
        Copies, Reading, SourceSaved, NoName, call, store, bounds, history,
        Arrive, Wanted
<1>1. TypeOK'
  <2>1. PICK o \in Calls : op' = [op EXCEPT ![c] = o] /\ want' = [want EXCEPT ![c] = NamesOf(o)]
    OBVIOUS
  <2>2. o \in Op /\ NamesOf(o) \subseteq Names
    BY CallsAssumption DEF NamesOf, Op
  <2>3. op' \in [Callers -> Op] /\ want' \in [Callers -> SUBSET Names]
    BY <2>1, <2>2 DEF TypeOK
  <2>4. rival' \in [Callers -> Callers \cup {Free, Orphan}]
    BY DEF TypeOK
  <2> QED
    BY <2>3, <2>4 DEF TypeOK, Contents, Txs
<1>2. LocksAreHeld'
  BY DEF TypeOK, LocksAreHeld, NamesOf
<1>3. RivalsAreOrdered'
  BY DEF TypeOK, LocksAreHeld, RivalsAreOrdered
<1>4. OneOfTwoGoesOn'
  BY DEF TypeOK, OneOfTwoGoesOn
<1>5. WorkIsKnown'
  <2>1. PICK o \in Calls : o.kind \notin LockFree /\ op' = [op EXCEPT ![c] = o]
    OBVIOUS
  <2>2. o.kind \in Kinds /\ Named(o)
    BY CallsAssumption
  <2>3. KnownWork(c)'
    BY <2>1, <2>2 DEF TypeOK, KnownWork
  <2>4. ASSUME NEW d \in Callers \ {c} PROVE KnownWork(d)'
    BY <2>1 DEF TypeOK, WorkIsKnown, KnownWork, Txs, SideName
  <2> QED
    BY <2>3, <2>4 DEF WorkIsKnown, Txs
<1>6. MeetingsAreKnown'
  BY DEF TypeOK, MeetingsAreKnown, Clash, NamesOf
<1>7. UnmetIsUndisturbed'
  BY DEF TypeOK, UnmetIsUndisturbed
<1>8. RecordedIsKept'
  BY DEF RecordedIsKept, SourceKept, DestinationKept
<1>9. UndisturbedKeeps' /\ UndoneSides' /\ RollbackRestores'
  <2>1. Go(c, "lock")
    BY DEF TypeOK
  <2>2. \A d \in Callers \ {c} : op'[d] = op[d] /\ tx'[d] = tx[d] /\ slot'[d] = slot[d]
    BY DEF TypeOK
  <2> QED
    BY <2>1, <2>2, RestKeeps
<1> QED
  BY <1>1, <1>2, <1>3, <1>4, <1>5, <1>6, <1>7, <1>8, <1>9 DEF IInv

\* Taking a lock keeps the invariant.
LEMMA LockInv ==
    ASSUME IInv, NEW c \in Callers, Lock(c) PROVE IInv'
<1> USE NamesAssumption, LockAssumption
<1> USE DEF Lock, Go, IInv, AtWork, Changing, Undoing, Slots, Kinds, LockFree,
        Copies, Reading, SourceSaved, NoName, call, store, bounds, history
<1>1. TypeOK'
  BY NextNameIsLeast DEF TypeOK, Op, Contents, Txs
<1>2. LocksAreHeld'
  <2> DEFINE n == NextName(c)
  <2>1. /\ n \in want[c] /\ n \in Names /\ n \in Nat /\ want[c] \subseteq Nat
        /\ \A m \in want[c] : n <= m
    BY NextNameIsLeast DEF TypeOK
  <2>2. /\ lock[n] = Free /\ lock'[n] = c /\ \A m \in Names : m # n => lock'[m] = lock[m]
        /\ want'[c] = want[c] \ {n}
        /\ \A d \in Callers \ {c} : want'[d] = want[d]
    BY <2>1 DEF TypeOK
  <2>3. \A m \in want'[c] : n < m
    BY <2>1, <2>2
  <2>4. ASSUME NEW d \in Callers, d # c, NEW m \in Names PROVE (lock'[m] = d) <=> (lock[m] = d)
    <3>1. Free \notin Callers
      BY LockAssumption
    <3> HIDE DEF n
    <3>2. CASE m = n
      BY <2>2, <2>4, <3>1, <3>2
    <3>3. CASE m # n
      BY <2>2, <3>3
    <3> QED
      BY <3>2, <3>3
  <2>5. \A d \in Callers : \A m \in NamesOf(op[d]) : m \in Names
    BY DEF TypeOK, NamesOf, Op
  <2>6. /\ want'[c] \subseteq NamesOf(op[c])
        /\ \A m \in NamesOf(op[c]) : m \in want'[c] \/ lock'[m] = c
        /\ \A m \in Names : lock'[m] = c => \A k \in want'[c] : m < k
    BY <2>1, <2>2, <2>3, <2>5 DEF LocksAreHeld
  <2> HIDE DEF n
  <2> QED
    BY <2>2, <2>4, <2>5, <2>6 DEF LocksAreHeld, NamesOf
<1>3. RivalsAreOrdered'
  BY NextNameIsLeast DEF TypeOK, LocksAreHeld, RivalsAreOrdered
<1>4. OneOfTwoGoesOn'
  BY DEF TypeOK, OneOfTwoGoesOn
<1>5. WorkIsKnown'
  BY DEF TypeOK, WorkIsKnown, KnownWork, Op, Txs, Named, SideName
<1>6. MeetingsAreKnown'
  BY DEF TypeOK, MeetingsAreKnown, Clash, NamesOf
<1>7. UnmetIsUndisturbed'
  BY DEF TypeOK, UnmetIsUndisturbed
<1>8. RecordedIsKept'
  BY DEF RecordedIsKept, SourceKept, DestinationKept
<1>9. UndisturbedKeeps' /\ UndoneSides' /\ RollbackRestores'
  <2>1. Go(c, "lock")
    BY DEF TypeOK
  <2>2. \A d \in Callers \ {c} : op'[d] = op[d] /\ tx'[d] = tx[d] /\ slot'[d] = slot[d]
    BY DEF TypeOK
  <2> QED
    BY <2>1, <2>2, RestKeeps
<1> QED
  BY <1>1, <1>2, <1>3, <1>4, <1>5, <1>6, <1>7, <1>8, <1>9 DEF IInv

\* The caller that is blocked has only names before the one that blocks it, and
\* the other, if it still locks, wants only names after it: so no two block each
\* other.
LEMMA BlockedInv ==
    ASSUME IInv, NEW c \in Callers, Blocked(c) PROVE IInv'
<1> USE NamesAssumption, LockAssumption
<1> USE DEF Blocked, Go, IInv, AtWork, Changing, Undoing, Slots, Kinds,
        LockFree, Copies, Reading, SourceSaved, NoName, call, store, bounds,
        history
<1>1. TypeOK'
  BY NextNameIsLeast DEF TypeOK, Op, Contents, Txs
<1>2. LocksAreHeld'
  BY NextNameIsLeast DEF TypeOK, LocksAreHeld, NamesOf
<1>3. RivalsAreOrdered'
  <2> DEFINE n == NextName(c)
  <2>1. n \in want[c] /\ n \in Names /\ n \in Nat
    BY NextNameIsLeast
  <2>2. \A m \in Names : lock[m] = c => m < n
    BY <2>1 DEF LocksAreHeld
  <2>3. ASSUME NEW d \in Callers, lock[n] = d, pc[d] = "lock" PROVE \A m \in want[d] : n < m
    BY <2>1, <2>3 DEF LocksAreHeld
  <2>4. lock[n] # c
    BY <2>1 DEF LocksAreHeld
  <2>5. ASSUME NEW d \in Callers, rival'[c] = d
        PROVE  /\ c # d /\ pc'[c] # "lock"
               /\ \E k \in Names : /\ \A m \in Names : lock'[m] = c => m < k
                                   /\ pc'[d] = "lock" => \A m \in want'[d] : k < m
    BY <2>1, <2>2, <2>3, <2>4, <2>5 DEF TypeOK
  <2>6. ASSUME NEW a \in Callers, NEW d \in Callers, a # c, rival'[a] = d
        PROVE  /\ a # d /\ pc'[a] # "lock"
               /\ \E k \in Names : /\ \A m \in Names : lock'[m] = a => m < k
                                   /\ pc'[d] = "lock" => \A m \in want'[d] : k < m
    BY <2>6 DEF TypeOK, RivalsAreOrdered
  <2> QED
    BY <2>5, <2>6 DEF RivalsAreOrdered
<1>4. OneOfTwoGoesOn'
  <2>1. /\ NextName(c) \in want[c] /\ NextName(c) \in Names /\ NextName(c) \in Nat
        /\ want[c] \subseteq Nat
    BY NextNameIsLeast DEF TypeOK
  <2>2. ASSUME NEW d \in Callers, lock[NextName(c)] = d, rival[d] = c PROVE FALSE
    BY <2>1, <2>2 DEF RivalsAreOrdered
  <2>3. lock[NextName(c)] # c
    BY <2>1 DEF LocksAreHeld
  <2> QED
    BY <2>2, <2>3 DEF TypeOK, OneOfTwoGoesOn
<1>5. WorkIsKnown'
  BY DEF TypeOK, WorkIsKnown, KnownWork, Op, Txs, Named, SideName
<1>6. MeetingsAreKnown'
  BY DEF TypeOK, MeetingsAreKnown, Clash, NamesOf
<1>7. UnmetIsUndisturbed'
  BY DEF TypeOK, UnmetIsUndisturbed
<1>8. RecordedIsKept'
  BY DEF RecordedIsKept, SourceKept, DestinationKept
<1>9. UndisturbedKeeps' /\ UndoneSides' /\ RollbackRestores'
  <2>1. Go(c, "unlock")
    BY DEF TypeOK
  <2>2. \A d \in Callers \ {c} : op'[d] = op[d] /\ tx'[d] = tx[d] /\ slot'[d] = slot[d]
    BY DEF TypeOK
  <2> QED
    BY <2>1, <2>2, RestKeeps
<1> QED
  BY <1>1, <1>2, <1>3, <1>4, <1>5, <1>6, <1>7, <1>8, <1>9 DEF IInv

\* A lock that is created and not written keeps it.
LEMMA LockLeaksInv ==
    ASSUME IInv, NEW c \in Callers, LockLeaks(c) PROVE IInv'
<1> USE NamesAssumption, LockAssumption
<1> USE DEF LockLeaks, Go, IInv, AtWork, Changing, Undoing, Slots, Kinds,
        LockFree, Copies, Reading, SourceSaved, NoName, call, store, bounds,
        history
<1>1. TypeOK'
  <2>1. lock' \in [Names -> Callers \cup {Free, Orphan}]
    BY NextNameIsLeast DEF TypeOK
  <2>2. pc' \in [Callers -> AtWork \cup {"idle", "lock", "unlock", "restored", "dead"}]
    BY DEF TypeOK
  <2> QED
    BY <2>1, <2>2 DEF TypeOK, Contents, Txs
<1>2. LocksAreHeld'
  BY NextNameIsLeast DEF TypeOK, LocksAreHeld, NamesOf
<1>3. RivalsAreOrdered'
  BY NextNameIsLeast DEF TypeOK, LocksAreHeld, RivalsAreOrdered
<1>4. OneOfTwoGoesOn'
  BY DEF TypeOK, OneOfTwoGoesOn
<1>5. WorkIsKnown'
  BY DEF TypeOK, WorkIsKnown, KnownWork, Op, Txs, Named, SideName
<1>6. MeetingsAreKnown'
  BY DEF TypeOK, MeetingsAreKnown, Clash, NamesOf
<1>7. UnmetIsUndisturbed'
  BY DEF TypeOK, UnmetIsUndisturbed
<1>8. RecordedIsKept'
  BY DEF RecordedIsKept, SourceKept, DestinationKept
<1>9. UndisturbedKeeps' /\ UndoneSides' /\ RollbackRestores'
  <2>1. Go(c, "unlock")
    BY DEF TypeOK
  <2>2. \A d \in Callers \ {c} : op'[d] = op[d] /\ tx'[d] = tx[d] /\ slot'[d] = slot[d]
    BY DEF TypeOK
  <2> QED
    BY <2>1, <2>2, RestKeeps
<1> QED
  BY <1>1, <1>2, <1>3, <1>4, <1>5, <1>6, <1>7, <1>8, <1>9 DEF IInv

\* Giving a lock back keeps it.
LEMMA UnlockInv ==
    ASSUME IInv, NEW c \in Callers, Unlock(c) PROVE IInv'
<1> USE NamesAssumption, LockAssumption
<1> USE DEF Unlock, Go, IInv, AtWork, Changing, Undoing, Slots, Kinds, LockFree,
        Copies, Reading, SourceSaved, NoName, call, store, bounds, history,
        Forget, Idle
<1>1. TypeOK'
  BY DEF TypeOK, Op, Contents, Txs
<1>2. LocksAreHeld'
  <2>1. \A n \in Names : lock'[n] # c /\ \A d \in Callers \ {c} : lock'[n] = d <=> lock[n] = d
    BY DEF TypeOK
  <2>2. ASSUME NEW d \in Callers, d # c
        PROVE  pc'[d] = pc[d] /\ op'[d] = op[d] /\ want'[d] = want[d]
    BY <2>2 DEF TypeOK
  <2>3. pc'[c] = "idle"
    BY DEF TypeOK
  <2>4. \A d \in Callers : d # c => \A n \in NamesOf(op[d]) : n \in Names
    BY DEF TypeOK, NamesOf, Op
  <2> QED
    BY <2>1, <2>2, <2>3, <2>4 DEF LocksAreHeld, NamesOf
<1>3. RivalsAreOrdered'
  BY DEF TypeOK, LocksAreHeld, RivalsAreOrdered
<1>4. OneOfTwoGoesOn'
  BY DEF TypeOK, OneOfTwoGoesOn
<1>5. WorkIsKnown'
  BY DEF TypeOK, WorkIsKnown, KnownWork, Op, Txs, Named, SideName
<1>6. MeetingsAreKnown'
  BY DEF TypeOK, MeetingsAreKnown, Clash, NamesOf
<1>7. UnmetIsUndisturbed'
  BY DEF TypeOK, UnmetIsUndisturbed
<1>8. RecordedIsKept'
  BY DEF RecordedIsKept, SourceKept, DestinationKept
<1>9. UndisturbedKeeps' /\ UndoneSides' /\ RollbackRestores'
  <2>1. Go(c, "idle")
    BY DEF TypeOK
  <2>2. \A d \in Callers \ {c} : op'[d] = op[d] /\ tx'[d] = tx[d] /\ slot'[d] = slot[d]
    BY DEF TypeOK
  <2> QED
    BY <2>1, <2>2, RestKeeps
<1> QED
  BY <1>1, <1>2, <1>3, <1>4, <1>5, <1>6, <1>7, <1>8, <1>9 DEF IInv

\* A copy is taken of a file that is as it was before an undisturbed change.
LEMMA SaveSourceInv ==
    ASSUME IInv, NEW c \in Callers, SaveSource(c) PROVE IInv'
<1> USE NamesAssumption, LockAssumption
<1> USE DEF SaveSource, Go, IInv, AtWork, Changing, Undoing, Slots, Kinds,
        LockFree, Copies, Reading, SourceSaved, NoName, call, store, bounds,
        history, Save, AfterSource
<1>1. TypeOK'
  <2>1. Source(c) \in Files /\ tx[c] \in Txs /\ "source" \in Slots
    BY SameNames, OwnFiles DEF WorkIsKnown, KnownWork
  <2>2. [backup[tx[c]] EXCEPT !["source"] = files[Source(c)]] \in [Slots -> Contents]
    BY <2>1 DEF TypeOK
  <2>3. backup' = [backup EXCEPT ![tx[c]] = [backup[tx[c]] EXCEPT !["source"] = files[Source(c)]]]
    OBVIOUS
  <2>4. backup' \in [Txs -> [Slots -> Contents]]
    BY <2>1, <2>2, <2>3 DEF TypeOK
  <2>5. pc' \in [Callers -> AtWork \cup {"idle", "lock", "unlock", "restored", "dead"}]
    BY DEF TypeOK
  <2> QED
    BY <2>4, <2>5 DEF TypeOK, Contents, Txs
<1>2. LocksAreHeld'
  BY DEF TypeOK, LocksAreHeld, NamesOf
<1>3. RivalsAreOrdered'
  BY DEF TypeOK, LocksAreHeld, RivalsAreOrdered
<1>4. OneOfTwoGoesOn'
  BY DEF TypeOK, OneOfTwoGoesOn
<1>5. WorkIsKnown'
  BY DEF TypeOK, WorkIsKnown, KnownWork, Op, Txs, Named, SideName
<1>6. MeetingsAreKnown'
  BY DEF TypeOK, MeetingsAreKnown, Clash, NamesOf
<1>7. UnmetIsUndisturbed'
  BY DEF TypeOK, UnmetIsUndisturbed
<1>8. RecordedIsKept'
  <2>1. tx[c] \notin recorded /\ recorded \subseteq Txs
    BY DEF TypeOK, WorkIsKnown, KnownWork
  <2>2. \A t \in recorded : backup'[t] = backup[t]
    BY <2>1 DEF TypeOK
  <2> QED
    BY <2>2 DEF RecordedIsKept, SourceKept, DestinationKept
<1>9. UndisturbedKeeps' /\ UndoneSides' /\ RollbackRestores'
  <2>1. ASSUME NEW d \in Callers \ {c} PROVE SameFor(d)
    BY SameNames DEF TypeOK, SameFor, Txs
  <2>2. ChangeKeeps(c)' /\ SideIsUndone(c)' /\ IsRestored(c)'
    <3>1. ChangeKeeps(c) /\ KnownWork(c)
      BY DEF UndisturbedKeeps, WorkIsKnown
    <3>2. /\ op'[c] = op[c] /\ tx'[c] = tx[c] /\ op[c] = made[tx[c]].op
          /\ Source(c)' = Source(c) /\ Destination(c)' = Destination(c)
          /\ backup'[tx[c]]["source"] = files[Source(c)]
          /\ backup'[tx[c]]["destination"] = backup[tx[c]]["destination"]
          /\ FilesOf(op[c])' = FilesOf(op[c])
      BY SameNames DEF TypeOK, Source, Destination, FilesOf, NamesOf, WorkIsKnown, KnownWork
    <3>3. pc'[c] = AfterSource(op[c].kind)
      BY DEF TypeOK
    <3>4. tx[c] \notin disturbed => \A f \in FilesOf(op[c]) : files[f] = before[tx[c]][f]
      BY <3>1 DEF ChangeKeeps
    <3>7. op[c].source # NoName /\ Source(c) \in FilesOf(op[c])
      BY <3>1, OwnFiles DEF KnownWork
    <3>5. tx[c] \notin disturbed => SourceKept(tx[c])'
      <4>1. made'[tx'[c]] = made[tx[c]] /\ before'[tx'[c]] = before[tx[c]]
        BY <3>2
      <4>2. FileOf[made[tx[c]].op.source] = Source(c)
        BY <3>2 DEF Source
      <4> QED
        BY <3>2, <3>4, <3>7, <4>1, <4>2 DEF SourceKept
    <3>6. DestinationKept(tx[c]) => DestinationKept(tx[c])'
      BY <3>2 DEF DestinationKept
    <3> QED
      BY <3>1, <3>2, <3>3, <3>4, <3>5, <3>6, OwnFiles
      DEF ChangeKeeps, KnownWork, SideIsUndone, IsRestored  <2>3. ASSUME NEW d \in Callers PROVE ChangeKeeps(d)' /\ SideIsUndone(d)' /\ IsRestored(d)'
    BY <2>1, <2>2, OthersKeep DEF UndisturbedKeeps, UndoneSides, RollbackRestores
  <2> QED
    BY <2>3 DEF UndisturbedKeeps, UndoneSides, RollbackRestores
<1> QED
  BY <1>1, <1>2, <1>3, <1>4, <1>5, <1>6, <1>7, <1>8, <1>9 DEF IInv

\* The copy of the destination keeps it.
LEMMA SaveDestinationInv ==
    ASSUME IInv, NEW c \in Callers, SaveDestination(c) PROVE IInv'
<1> USE NamesAssumption, LockAssumption
<1> USE DEF SaveDestination, Go, IInv, AtWork, Changing, Undoing, Slots, Kinds,
        LockFree, Copies, Reading, SourceSaved, NoName, call, store, bounds,
        history, Save
<1>1. TypeOK'
  <2>1. Destination(c) \in Files /\ tx[c] \in Txs /\ "destination" \in Slots
    BY SameNames, OwnFiles DEF WorkIsKnown, KnownWork
  <2>2. [backup[tx[c]] EXCEPT !["destination"] = files[Destination(c)]] \in [Slots -> Contents]
    BY <2>1 DEF TypeOK
  <2>3. backup' = [backup EXCEPT ![tx[c]] = [backup[tx[c]] EXCEPT !["destination"] = files[Destination(c)]]]
    OBVIOUS
  <2>4. backup' \in [Txs -> [Slots -> Contents]]
    BY <2>1, <2>2, <2>3 DEF TypeOK
  <2>5. pc' \in [Callers -> AtWork \cup {"idle", "lock", "unlock", "restored", "dead"}]
    BY DEF TypeOK
  <2> QED
    BY <2>4, <2>5 DEF TypeOK, Contents, Txs
<1>2. LocksAreHeld'
  BY DEF TypeOK, LocksAreHeld, NamesOf
<1>3. RivalsAreOrdered'
  BY DEF TypeOK, LocksAreHeld, RivalsAreOrdered
<1>4. OneOfTwoGoesOn'
  BY DEF TypeOK, OneOfTwoGoesOn
<1>5. WorkIsKnown'
  BY DEF TypeOK, WorkIsKnown, KnownWork, Op, Txs, Named, SideName
<1>6. MeetingsAreKnown'
  BY DEF TypeOK, MeetingsAreKnown, Clash, NamesOf
<1>7. UnmetIsUndisturbed'
  BY DEF TypeOK, UnmetIsUndisturbed
<1>8. RecordedIsKept'
  <2>1. tx[c] \notin recorded /\ recorded \subseteq Txs
    BY DEF TypeOK, WorkIsKnown, KnownWork
  <2>2. \A t \in recorded : backup'[t] = backup[t]
    BY <2>1 DEF TypeOK
  <2> QED
    BY <2>2 DEF RecordedIsKept, SourceKept, DestinationKept
<1>9. UndisturbedKeeps' /\ UndoneSides' /\ RollbackRestores'
  <2>1. ASSUME NEW d \in Callers \ {c} PROVE SameFor(d)
    BY SameNames DEF TypeOK, SameFor, Txs
  <2>2. ChangeKeeps(c)' /\ SideIsUndone(c)' /\ IsRestored(c)'
    <3>1. ChangeKeeps(c) /\ KnownWork(c)
      BY DEF UndisturbedKeeps, WorkIsKnown
    <3>2. /\ op'[c] = op[c] /\ tx'[c] = tx[c] /\ op[c] = made[tx[c]].op
          /\ Source(c)' = Source(c) /\ Destination(c)' = Destination(c)
          /\ backup'[tx[c]]["destination"] = files[Destination(c)]
          /\ backup'[tx[c]]["source"] = backup[tx[c]]["source"]
          /\ FilesOf(op[c])' = FilesOf(op[c])
      BY SameNames DEF TypeOK, Source, Destination, FilesOf, NamesOf, WorkIsKnown, KnownWork
    <3>3. pc'[c] = (IF op[c].kind \in Copies THEN "clear" ELSE "open")
      BY DEF TypeOK
    <3>4. tx[c] \notin disturbed => \A f \in FilesOf(op[c]) : files[f] = before[tx[c]][f]
      BY <3>1 DEF ChangeKeeps
    <3>7. op[c].destination # NoName /\ Destination(c) \in FilesOf(op[c])
      BY <3>1, OwnFiles DEF KnownWork
    <3>5. tx[c] \notin disturbed => DestinationKept(tx[c])'
      <4>1. made'[tx'[c]] = made[tx[c]] /\ before'[tx'[c]] = before[tx[c]]
        BY <3>2
      <4>2. FileOf[made[tx[c]].op.destination] = Destination(c)
        BY <3>2 DEF Destination
      <4> QED
        BY <3>2, <3>4, <3>7, <4>1, <4>2 DEF DestinationKept
    <3>6. SourceKept(tx[c]) => SourceKept(tx[c])'
      BY <3>2 DEF SourceKept
    <3> QED
      BY <3>1, <3>2, <3>3, <3>4, <3>5, <3>6, OwnFiles
      DEF ChangeKeeps, KnownWork, SideIsUndone, IsRestored  <2>3. ASSUME NEW d \in Callers PROVE ChangeKeeps(d)' /\ SideIsUndone(d)' /\ IsRestored(d)'
    BY <2>1, <2>2, OthersKeep DEF UndisturbedKeeps, UndoneSides, RollbackRestores
  <2> QED
    BY <2>3 DEF UndisturbedKeeps, UndoneSides, RollbackRestores
<1> QED
  BY <1>1, <1>2, <1>3, <1>4, <1>5, <1>6, <1>7, <1>8, <1>9 DEF IInv

\* A step that writes a file: others keep what they know by PutKeepsOthers, and
\* it disturbs no change that it has not met by PutMeets.
LEMMA ClearInv ==
    ASSUME IInv, NEW c \in Callers, Clear(c) PROVE IInv'
<1> USE NamesAssumption, LockAssumption
<1> USE DEF Clear, Go, IInv, AtWork, Changing, Undoing, Slots, Kinds, LockFree,
        Copies, Reading, SourceSaved, NoName, call, store, bounds, history
<1> DEFINE n == op[c].destination
<1>p. /\ n \in NamesOf(op[c]) /\ n \in Names /\ tx[c] \in 1 .. count
      /\ FileOf[n] \in FilesOf(op[c]) /\ FileOf[n] \in Files /\ FileOf[n] = Destination(c)
      /\ Put(FileOf[n], Absent, tx[c])
      /\ files' = [files EXCEPT ![FileOf[n]] = Absent]
      /\ disturbed' \subseteq Txs /\ disturbed \subseteq disturbed'
      /\ tx[c] \in disturbed' => tx[c] \in disturbed
  <2>1. KnownWork(c)
    BY DEF WorkIsKnown
  <2>2. n \in NamesOf(op[c]) /\ FileOf[n] = Destination(c) /\ tx[c] \in 1 .. count
    BY <2>1, SameNames, OwnFiles DEF KnownWork, Side, SideName, Source, Destination, Txs
  <2>3. n \in Names /\ FileOf[n] \in FilesOf(op[c]) /\ FileOf[n] \in Files
    BY <2>2, OwnFiles
  <2>4. Put(FileOf[n], Absent, tx[c])
    BY <2>2
  <2> QED
    BY <2>2, <2>3, <2>4 DEF TypeOK, Put, Txs
<1>1. TypeOK'
  BY <1>p DEF TypeOK, Op, Contents, Txs
<1>2. LocksAreHeld'
  BY DEF TypeOK, LocksAreHeld, NamesOf
<1>3. RivalsAreOrdered'
  BY DEF TypeOK, LocksAreHeld, RivalsAreOrdered
<1>4. OneOfTwoGoesOn'
  BY DEF TypeOK, OneOfTwoGoesOn
<1>5. WorkIsKnown'
  BY DEF TypeOK, WorkIsKnown, KnownWork, Op, Txs, Named, SideName
<1>6. MeetingsAreKnown'
  BY DEF TypeOK, MeetingsAreKnown, Clash, NamesOf
<1>7. UnmetIsUndisturbed'
  <2>1. ASSUME NEW d \in Callers, pc[d] \in Changing, ~met[d] PROVE tx[d] \notin disturbed'
    BY <1>p, <2>1, PutMeets
  <2> QED
    BY <1>p, <2>1 DEF TypeOK, UnmetIsUndisturbed
<1>8. RecordedIsKept'
  BY <1>p DEF RecordedIsKept, SourceKept, DestinationKept
<1>9. UndisturbedKeeps' /\ UndoneSides' /\ RollbackRestores'
  <2>1. ASSUME NEW d \in Callers \ {c} PROVE SameFor(d)
    BY <1>p, PutKeepsOthers DEF TypeOK
  <2>2. ChangeKeeps(c)' /\ SideIsUndone(c)' /\ IsRestored(c)'
    <3>1. ChangeKeeps(c) /\ KnownWork(c)
      BY DEF UndisturbedKeeps, WorkIsKnown
    <3>2. /\ op'[c] = op[c] /\ tx'[c] = tx[c] /\ pc'[c] = "open"
          /\ Source(c)' = Source(c) /\ Destination(c)' = Destination(c)
          /\ files'[FileOf[n]] = Absent /\ \A f \in Files : f # FileOf[n] => files'[f] = files[f]
          /\ FilesOf(op[c])' = FilesOf(op[c])
      BY <1>p DEF TypeOK, Source, Destination, FilesOf, NamesOf
    <3>3. /\ SourceKept(tx[c]) => SourceKept(tx[c])'
          /\ DestinationKept(tx[c]) => DestinationKept(tx[c])'
      BY <3>2 DEF SourceKept, DestinationKept
    <3> QED
      BY <1>p, <3>1, <3>2, <3>3, OwnFiles
      DEF ChangeKeeps, KnownWork, SideIsUndone, IsRestored  <2>3. ASSUME NEW d \in Callers PROVE ChangeKeeps(d)' /\ SideIsUndone(d)' /\ IsRestored(d)'
    BY <2>1, <2>2, OthersKeep DEF UndisturbedKeeps, UndoneSides, RollbackRestores
  <2> QED
    BY <2>3 DEF UndisturbedKeeps, UndoneSides, RollbackRestores
<1> QED
  BY <1>1, <1>2, <1>3, <1>4, <1>5, <1>6, <1>7, <1>8, <1>9 DEF IInv

\* Opening the file for writing, which empties it, keeps it.
LEMMA OpenInv ==
    ASSUME IInv, NEW c \in Callers, Open(c) PROVE IInv'
<1> USE NamesAssumption, LockAssumption
<1> USE DEF Open, Go, IInv, AtWork, Changing, Undoing, Slots, Kinds, LockFree,
        Copies, Reading, SourceSaved, NoName, call, store, bounds, history
<1> DEFINE n == op[c].destination
<1>p. /\ n \in NamesOf(op[c]) /\ n \in Names /\ tx[c] \in 1 .. count
      /\ FileOf[n] \in FilesOf(op[c]) /\ FileOf[n] \in Files /\ FileOf[n] = Destination(c)
      /\ Put(FileOf[n], Torn, tx[c])
      /\ files' = [files EXCEPT ![FileOf[n]] = Torn]
      /\ disturbed' \subseteq Txs /\ disturbed \subseteq disturbed'
      /\ tx[c] \in disturbed' => tx[c] \in disturbed
  <2>1. KnownWork(c)
    BY DEF WorkIsKnown
  <2>2. n \in NamesOf(op[c]) /\ FileOf[n] = Destination(c) /\ tx[c] \in 1 .. count
    BY <2>1, SameNames, OwnFiles DEF KnownWork, Side, SideName, Source, Destination, Txs
  <2>3. n \in Names /\ FileOf[n] \in FilesOf(op[c]) /\ FileOf[n] \in Files
    BY <2>2, OwnFiles
  <2>4. Put(FileOf[n], Torn, tx[c])
    BY <2>2
  <2> QED
    BY <2>2, <2>3, <2>4 DEF TypeOK, Put, Txs
<1>1. TypeOK'
  <2>1. (IF op[c].kind \notin Copies THEN tx[c]
         ELSE IF Source(c) = Destination(c) THEN Torn ELSE files[Source(c)]) \in Contents
    BY <1>p, OwnFiles DEF TypeOK, Contents
  <2>2. text' \in [Callers -> Contents] /\ files' \in [Files -> Contents]
    BY <1>p, <2>1 DEF TypeOK, Contents
  <2> QED
    BY <1>p, <2>2 DEF TypeOK, Contents, Txs
<1>2. LocksAreHeld'
  BY DEF TypeOK, LocksAreHeld, NamesOf
<1>3. RivalsAreOrdered'
  BY DEF TypeOK, LocksAreHeld, RivalsAreOrdered
<1>4. OneOfTwoGoesOn'
  BY DEF TypeOK, OneOfTwoGoesOn
<1>5. WorkIsKnown'
  BY DEF TypeOK, WorkIsKnown, KnownWork, Op, Txs, Named, SideName
<1>6. MeetingsAreKnown'
  BY DEF TypeOK, MeetingsAreKnown, Clash, NamesOf
<1>7. UnmetIsUndisturbed'
  <2>1. ASSUME NEW d \in Callers, pc[d] \in Changing, ~met[d] PROVE tx[d] \notin disturbed'
    BY <1>p, <2>1, PutMeets
  <2> QED
    BY <1>p, <2>1 DEF TypeOK, UnmetIsUndisturbed
<1>8. RecordedIsKept'
  BY <1>p DEF RecordedIsKept, SourceKept, DestinationKept
<1>9. UndisturbedKeeps' /\ UndoneSides' /\ RollbackRestores'
  <2>1. ASSUME NEW d \in Callers \ {c} PROVE SameFor(d)
    BY <1>p, PutKeepsOthers DEF TypeOK
  <2>2. ChangeKeeps(c)' /\ SideIsUndone(c)' /\ IsRestored(c)'
    <3>1. ChangeKeeps(c) /\ KnownWork(c)
      BY DEF UndisturbedKeeps, WorkIsKnown
    <3>2. /\ op'[c] = op[c] /\ tx'[c] = tx[c] /\ pc'[c] = "fill"
          /\ Source(c)' = Source(c) /\ Destination(c)' = Destination(c)
          /\ files'[FileOf[n]] = Torn /\ \A f \in Files : f # FileOf[n] => files'[f] = files[f]
          /\ FilesOf(op[c])' = FilesOf(op[c])
      BY <1>p DEF TypeOK, Source, Destination, FilesOf, NamesOf
    <3>3. /\ SourceKept(tx[c]) => SourceKept(tx[c])'
          /\ DestinationKept(tx[c]) => DestinationKept(tx[c])'
      BY <3>2 DEF SourceKept, DestinationKept
    <3> QED
      BY <1>p, <3>1, <3>2, <3>3, OwnFiles
      DEF ChangeKeeps, KnownWork, SideIsUndone, IsRestored  <2>3. ASSUME NEW d \in Callers PROVE ChangeKeeps(d)' /\ SideIsUndone(d)' /\ IsRestored(d)'
    BY <2>1, <2>2, OthersKeep DEF UndisturbedKeeps, UndoneSides, RollbackRestores
  <2> QED
    BY <2>3 DEF UndisturbedKeeps, UndoneSides, RollbackRestores
<1> QED
  BY <1>1, <1>2, <1>3, <1>4, <1>5, <1>6, <1>7, <1>8, <1>9 DEF IInv

\* A source that vanished keeps it.
LEMMA SourceGoneInv ==
    ASSUME IInv, NEW c \in Callers, SourceGone(c) PROVE IInv'
<1> USE NamesAssumption, LockAssumption
<1> USE DEF SourceGone, Go, IInv, AtWork, Changing, Undoing, Slots, Kinds,
        LockFree, Copies, Reading, SourceSaved, NoName, call, store, bounds,
        history
<1>1. TypeOK'
  BY DEF TypeOK, Op, Contents, Txs
<1>2. LocksAreHeld'
  BY DEF TypeOK, LocksAreHeld, NamesOf
<1>3. RivalsAreOrdered'
  BY DEF TypeOK, LocksAreHeld, RivalsAreOrdered
<1>4. OneOfTwoGoesOn'
  BY DEF TypeOK, OneOfTwoGoesOn
<1>5. WorkIsKnown'
  BY DEF TypeOK, WorkIsKnown, KnownWork, Op, Txs, Named, SideName
<1>6. MeetingsAreKnown'
  BY DEF TypeOK, MeetingsAreKnown, Clash, NamesOf
<1>7. UnmetIsUndisturbed'
  BY DEF TypeOK, UnmetIsUndisturbed
<1>8. RecordedIsKept'
  BY DEF RecordedIsKept, SourceKept, DestinationKept
<1>9. UndisturbedKeeps' /\ UndoneSides' /\ RollbackRestores'
  <2>1. Go(c, "unlock")
    BY DEF TypeOK
  <2>2. \A d \in Callers \ {c} : op'[d] = op[d] /\ tx'[d] = tx[d] /\ slot'[d] = slot[d]
    BY DEF TypeOK
  <2> QED
    BY <2>1, <2>2, RestKeeps
<1> QED
  BY <1>1, <1>2, <1>3, <1>4, <1>5, <1>6, <1>7, <1>8, <1>9 DEF IInv

\* Writing what was opened keeps it.
LEMMA FillInv ==
    ASSUME IInv, NEW c \in Callers, Fill(c) PROVE IInv'
<1> USE NamesAssumption, LockAssumption
<1> USE DEF Fill, Go, IInv, AtWork, Changing, Undoing, Slots, Kinds, LockFree,
        Copies, Reading, SourceSaved, NoName, call, store, bounds, history
<1> DEFINE n == op[c].destination
<1>p. /\ n \in NamesOf(op[c]) /\ n \in Names /\ tx[c] \in 1 .. count
      /\ FileOf[n] \in FilesOf(op[c]) /\ FileOf[n] \in Files /\ FileOf[n] = Destination(c)
      /\ Put(FileOf[n], text[c], tx[c])
      /\ files' = [files EXCEPT ![FileOf[n]] = text[c]]
      /\ disturbed' \subseteq Txs /\ disturbed \subseteq disturbed'
      /\ tx[c] \in disturbed' => tx[c] \in disturbed
  <2>1. KnownWork(c)
    BY DEF WorkIsKnown
  <2>2. n \in NamesOf(op[c]) /\ FileOf[n] = Destination(c) /\ tx[c] \in 1 .. count
    BY <2>1, SameNames, OwnFiles DEF KnownWork, Side, SideName, Source, Destination, Txs
  <2>3. n \in Names /\ FileOf[n] \in FilesOf(op[c]) /\ FileOf[n] \in Files
    BY <2>2, OwnFiles
  <2>4. Put(FileOf[n], text[c], tx[c])
    BY <2>2
  <2> QED
    BY <2>2, <2>3, <2>4 DEF TypeOK, Put, Txs
<1>1. TypeOK'
  BY <1>p DEF TypeOK, Op, Contents, Txs
<1>2. LocksAreHeld'
  BY DEF TypeOK, LocksAreHeld, NamesOf
<1>3. RivalsAreOrdered'
  BY DEF TypeOK, LocksAreHeld, RivalsAreOrdered
<1>4. OneOfTwoGoesOn'
  BY DEF TypeOK, OneOfTwoGoesOn
<1>5. WorkIsKnown'
  BY DEF TypeOK, WorkIsKnown, KnownWork, Op, Txs, Named, SideName
<1>6. MeetingsAreKnown'
  BY DEF TypeOK, MeetingsAreKnown, Clash, NamesOf
<1>7. UnmetIsUndisturbed'
  <2>1. ASSUME NEW d \in Callers, pc[d] \in Changing, ~met[d] PROVE tx[d] \notin disturbed'
    BY <1>p, <2>1, PutMeets
  <2> QED
    BY <1>p, <2>1 DEF TypeOK, UnmetIsUndisturbed
<1>8. RecordedIsKept'
  BY <1>p DEF RecordedIsKept, SourceKept, DestinationKept
<1>9. UndisturbedKeeps' /\ UndoneSides' /\ RollbackRestores'
  <2>1. ASSUME NEW d \in Callers \ {c} PROVE SameFor(d)
    BY <1>p, PutKeepsOthers DEF TypeOK
  <2>2. ChangeKeeps(c)' /\ SideIsUndone(c)' /\ IsRestored(c)'
    <3>1. ChangeKeeps(c) /\ KnownWork(c)
      BY DEF UndisturbedKeeps, WorkIsKnown
    <3>2. /\ op'[c] = op[c] /\ tx'[c] = tx[c] /\ pc'[c] = (IF op[c].kind = "move" THEN "remove" ELSE "record")
          /\ Source(c)' = Source(c) /\ Destination(c)' = Destination(c)
          /\ files'[FileOf[n]] = text[c] /\ \A f \in Files : f # FileOf[n] => files'[f] = files[f]
          /\ FilesOf(op[c])' = FilesOf(op[c])
      BY <1>p DEF TypeOK, Source, Destination, FilesOf, NamesOf
    <3>3. /\ SourceKept(tx[c]) => SourceKept(tx[c])'
          /\ DestinationKept(tx[c]) => DestinationKept(tx[c])'
      BY <3>2 DEF SourceKept, DestinationKept
    <3> QED
      BY <1>p, <3>1, <3>2, <3>3, OwnFiles
      DEF ChangeKeeps, KnownWork, SideIsUndone, IsRestored  <2>3. ASSUME NEW d \in Callers PROVE ChangeKeeps(d)' /\ SideIsUndone(d)' /\ IsRestored(d)'
    BY <2>1, <2>2, OthersKeep DEF UndisturbedKeeps, UndoneSides, RollbackRestores
  <2> QED
    BY <2>3 DEF UndisturbedKeeps, UndoneSides, RollbackRestores
<1> QED
  BY <1>1, <1>2, <1>3, <1>4, <1>5, <1>6, <1>7, <1>8, <1>9 DEF IInv

\* Removing the source keeps it.
LEMMA RemoveInv ==
    ASSUME IInv, NEW c \in Callers, Remove(c) PROVE IInv'
<1> USE NamesAssumption, LockAssumption
<1> USE DEF Remove, Go, IInv, AtWork, Changing, Undoing, Slots, Kinds, LockFree,
        Copies, Reading, SourceSaved, NoName, call, store, bounds, history
<1> DEFINE n == op[c].source
<1>p. /\ n \in NamesOf(op[c]) /\ n \in Names /\ tx[c] \in 1 .. count
      /\ FileOf[n] \in FilesOf(op[c]) /\ FileOf[n] \in Files /\ FileOf[n] = Source(c)
      /\ Put(FileOf[n], Absent, tx[c])
      /\ files' = [files EXCEPT ![FileOf[n]] = Absent]
      /\ disturbed' \subseteq Txs /\ disturbed \subseteq disturbed'
      /\ tx[c] \in disturbed' => tx[c] \in disturbed
  <2>1. KnownWork(c)
    BY DEF WorkIsKnown
  <2>2. n \in NamesOf(op[c]) /\ FileOf[n] = Source(c) /\ tx[c] \in 1 .. count
    BY <2>1, SameNames, OwnFiles DEF KnownWork, Side, SideName, Source, Destination, Txs
  <2>3. n \in Names /\ FileOf[n] \in FilesOf(op[c]) /\ FileOf[n] \in Files
    BY <2>2, OwnFiles
  <2>4. Put(FileOf[n], Absent, tx[c])
    BY <2>2
  <2> QED
    BY <2>2, <2>3, <2>4 DEF TypeOK, Put, Txs
<1>1. TypeOK'
  BY <1>p DEF TypeOK, Op, Contents, Txs
<1>2. LocksAreHeld'
  BY DEF TypeOK, LocksAreHeld, NamesOf
<1>3. RivalsAreOrdered'
  BY DEF TypeOK, LocksAreHeld, RivalsAreOrdered
<1>4. OneOfTwoGoesOn'
  BY DEF TypeOK, OneOfTwoGoesOn
<1>5. WorkIsKnown'
  BY DEF TypeOK, WorkIsKnown, KnownWork, Op, Txs, Named, SideName
<1>6. MeetingsAreKnown'
  BY DEF TypeOK, MeetingsAreKnown, Clash, NamesOf
<1>7. UnmetIsUndisturbed'
  <2>1. ASSUME NEW d \in Callers, pc[d] \in Changing, ~met[d] PROVE tx[d] \notin disturbed'
    BY <1>p, <2>1, PutMeets
  <2> QED
    BY <1>p, <2>1 DEF TypeOK, UnmetIsUndisturbed
<1>8. RecordedIsKept'
  BY <1>p DEF RecordedIsKept, SourceKept, DestinationKept
<1>9. UndisturbedKeeps' /\ UndoneSides' /\ RollbackRestores'
  <2>1. ASSUME NEW d \in Callers \ {c} PROVE SameFor(d)
    BY <1>p, PutKeepsOthers DEF TypeOK
  <2>2. ChangeKeeps(c)' /\ SideIsUndone(c)' /\ IsRestored(c)'
    <3>1. ChangeKeeps(c) /\ KnownWork(c)
      BY DEF UndisturbedKeeps, WorkIsKnown
    <3>2. /\ op'[c] = op[c] /\ tx'[c] = tx[c] /\ pc'[c] = "record"
          /\ Source(c)' = Source(c) /\ Destination(c)' = Destination(c)
          /\ files'[FileOf[n]] = Absent /\ \A f \in Files : f # FileOf[n] => files'[f] = files[f]
          /\ FilesOf(op[c])' = FilesOf(op[c])
      BY <1>p DEF TypeOK, Source, Destination, FilesOf, NamesOf
    <3>3. /\ SourceKept(tx[c]) => SourceKept(tx[c])'
          /\ DestinationKept(tx[c]) => DestinationKept(tx[c])'
      BY <3>2 DEF SourceKept, DestinationKept
    <3> QED
      BY <1>p, <3>1, <3>2, <3>3, OwnFiles
      DEF ChangeKeeps, KnownWork, SideIsUndone, IsRestored  <2>3. ASSUME NEW d \in Callers PROVE ChangeKeeps(d)' /\ SideIsUndone(d)' /\ IsRestored(d)'
    BY <2>1, <2>2, OthersKeep DEF UndisturbedKeeps, UndoneSides, RollbackRestores
  <2> QED
    BY <2>3 DEF UndisturbedKeeps, UndoneSides, RollbackRestores
<1> QED
  BY <1>1, <1>2, <1>3, <1>4, <1>5, <1>6, <1>7, <1>8, <1>9 DEF IInv

\* The record of a change keeps it.
LEMMA RecordInv ==
    ASSUME IInv, NEW c \in Callers, Record(c) PROVE IInv'
<1> USE NamesAssumption, LockAssumption
<1> USE DEF Record, Go, IInv, AtWork, Changing, Undoing, Slots, Kinds, LockFree,
        Copies, Reading, SourceSaved, NoName, call, store, bounds, history
<1>1. TypeOK'
  <2>1. recorded' \subseteq Txs
    BY SameNames DEF TypeOK
  <2> QED
    BY <2>1 DEF TypeOK, Contents, Txs
<1>2. LocksAreHeld'
  BY DEF TypeOK, LocksAreHeld, NamesOf
<1>3. RivalsAreOrdered'
  BY DEF TypeOK, LocksAreHeld, RivalsAreOrdered
<1>4. OneOfTwoGoesOn'
  BY DEF TypeOK, OneOfTwoGoesOn
<1>5. WorkIsKnown'
  BY DEF TypeOK, WorkIsKnown, KnownWork, Op, Txs, Named, SideName
<1>6. MeetingsAreKnown'
  BY DEF TypeOK, MeetingsAreKnown, Clash, NamesOf
<1>7. UnmetIsUndisturbed'
  BY DEF TypeOK, UnmetIsUndisturbed
<1>8. RecordedIsKept'
  <2>1. ChangeKeeps(c) /\ KnownWork(c)
    BY DEF UndisturbedKeeps, WorkIsKnown
  <2>2. tx[c] \notin disturbed =>
          /\ made[tx[c]].op.kind \in SourceSaved => SourceKept(tx[c])
          /\ made[tx[c]].op.kind # "delete" => DestinationKept(tx[c])
    BY <2>1 DEF ChangeKeeps, KnownWork
  <2> QED
    BY <2>2 DEF RecordedIsKept, SourceKept, DestinationKept
<1>9. UndisturbedKeeps' /\ UndoneSides' /\ RollbackRestores'
  <2>1. ASSUME NEW d \in Callers \ {c} PROVE SameFor(d)
    BY SameNames DEF TypeOK, SameFor, Txs
  <2>2. ChangeKeeps(c)' /\ SideIsUndone(c)' /\ IsRestored(c)'
    <3>1. pc'[c] = "unlock"
      BY DEF TypeOK
    <3> QED
      BY <3>1 DEF ChangeKeeps, SideIsUndone, IsRestored
  <2>3. ASSUME NEW d \in Callers PROVE ChangeKeeps(d)' /\ SideIsUndone(d)' /\ IsRestored(d)'
    BY <2>1, <2>2, OthersKeep DEF UndisturbedKeeps, UndoneSides, RollbackRestores
  <2> QED
    BY <2>3 DEF UndisturbedKeeps, UndoneSides, RollbackRestores
<1> QED
  BY <1>1, <1>2, <1>3, <1>4, <1>5, <1>6, <1>7, <1>8, <1>9 DEF IInv

\* Whether callers have met a change stays a truth value.
LEMMA MeetTypes ==
    ASSUME NEW c, NEW o, met \in [Callers -> BOOLEAN], Meet(c, o)
    PROVE  met' \in [Callers -> BOOLEAN]
BY Zenon DEF Meet

\* A rollback that begins with a record keeps it.
LEMMA BeginUndoInv ==
    ASSUME IInv, NEW c \in Callers, BeginUndo(c) PROVE IInv'
<1> USE NamesAssumption, LockAssumption
<1> USE DEF BeginUndo, Go, IInv, AtWork, Changing, Undoing, Slots, Kinds,
        LockFree, Copies, Reading, SourceSaved, NoName, call, store, bounds,
        history, Meet, FirstSide
<1>1. TypeOK'
  <2>1. PICK t \in recorded : /\ tx' = [tx EXCEPT ![c] = t]
                             /\ op' = [op EXCEPT ![c] = [made[t].op EXCEPT !.kind = "undo"]]
    OBVIOUS
  <2>2. t \in 1 .. count /\ made[t].op \in Op
    BY DEF TypeOK, Txs
  <2>6. [made[t].op EXCEPT !.kind = "undo"] \in Op
    BY <2>2 DEF Op
  <2>3. op' \in [Callers -> Op] /\ tx' \in [Callers -> 0 .. count]
    BY <2>1, <2>2, <2>6 DEF TypeOK
  <2>7. pc' \in [Callers -> AtWork \cup {"idle", "lock", "unlock", "restored", "dead"}]
    BY DEF TypeOK
  <2>4. met' \in [Callers -> BOOLEAN]
    <3>1. PICK o : Meet(c, o)
      OBVIOUS
    <3>2. met \in [Callers -> BOOLEAN]
      BY DEF TypeOK
    <3> QED
      BY <3>1, <3>2, MeetTypes
  <2>5. slot' \in [Callers -> Slots]
    BY DEF TypeOK
  <2>8. count' = count /\ others' \in Nat /\ Contents' = Contents /\ Txs' = Txs
    BY DEF TypeOK, Contents, Txs
  <2> QED
    BY <2>3, <2>4, <2>5, <2>7, <2>8 DEF TypeOK
<1>2. LocksAreHeld'
  BY DEF TypeOK, LocksAreHeld, NamesOf
<1>3. RivalsAreOrdered'
  BY DEF TypeOK, LocksAreHeld, RivalsAreOrdered
<1>4. OneOfTwoGoesOn'
  BY DEF TypeOK, OneOfTwoGoesOn
<1>5. WorkIsKnown'
  BY DEF TypeOK, WorkIsKnown, KnownWork, Op, Txs, Named, SideName
<1>6. MeetingsAreKnown'
  <2>1. PICK o : op' = [op EXCEPT ![c] = o] /\ Meet(c, o)
    OBVIOUS
  <2>2. op'[c] = o /\ \A d \in Callers \ {c} : op'[d] = op[d] /\ pc'[d] = pc[d]
    BY <2>1 DEF TypeOK
  <2>3. ASSUME NEW d \in Callers, NEW e \in Callers, d # e,
               pc'[d] \in AtWork, pc'[e] \in AtWork, Clash(op'[d], op'[e])
        PROVE  met'[d] /\ met'[e]
    <3>1. CASE d = c
      <4>1. e \in {x \in Callers \ {c} : pc[x] \in AtWork /\ Clash(o, op[x])}
        BY <2>2, <2>3, <3>1
      <4> QED
        BY <2>1, <3>1, <4>1 DEF Meet
    <3>2. CASE e = c
      <4>1. Clash(op'[e], op'[d])
        BY <2>3 DEF Clash
      <4>2. d \in {x \in Callers \ {c} : pc[x] \in AtWork /\ Clash(o, op[x])}
        BY <2>2, <2>3, <3>2, <4>1
      <4> QED
        BY <2>1, <3>2, <4>2 DEF Meet
    <3>3. CASE d # c /\ e # c
      BY <2>1, <2>2, <2>3, <3>3 DEF Meet, MeetingsAreKnown
    <3> QED
      BY <3>1, <3>2, <3>3
  <2>4. \A d, e \in Callers : Clash(op[d], op[e])' <=> Clash(op'[d], op'[e])
    BY DEF Clash, NamesOf
  <2> QED
    BY <2>3, <2>4 DEF MeetingsAreKnown
<1>7. UnmetIsUndisturbed'
  BY DEF TypeOK, UnmetIsUndisturbed
<1>8. RecordedIsKept'
  BY DEF RecordedIsKept, SourceKept, DestinationKept
<1>9. UndisturbedKeeps' /\ UndoneSides' /\ RollbackRestores'
  <2>1. ASSUME NEW d \in Callers \ {c} PROVE SameFor(d)
    BY SameNames DEF TypeOK, SameFor, Txs
  <2>2. ChangeKeeps(c)' /\ SideIsUndone(c)' /\ IsRestored(c)'
    <3>1. pc'[c] = "drop" /\ (slot'[c] = "source" => op'[c].destination = NoName)
      BY DEF TypeOK
    <3> QED
      BY <3>1 DEF ChangeKeeps, SideIsUndone, IsRestored
  <2>3. ASSUME NEW d \in Callers PROVE ChangeKeeps(d)' /\ SideIsUndone(d)' /\ IsRestored(d)'
    BY <2>1, <2>2, OthersKeep DEF UndisturbedKeeps, UndoneSides, RollbackRestores
  <2> QED
    BY <2>3 DEF UndisturbedKeeps, UndoneSides, RollbackRestores
<1> QED
  BY <1>1, <1>2, <1>3, <1>4, <1>5, <1>6, <1>7, <1>8, <1>9 DEF IInv

\* A rollback writes the copies, which are the files as they were before.
LEMMA DropInv ==
    ASSUME IInv, NEW c \in Callers, Drop(c) PROVE IInv'
<1> USE NamesAssumption, LockAssumption
<1> USE DEF Drop, Go, IInv, AtWork, Changing, Undoing, Slots, Kinds, LockFree,
        Copies, Reading, SourceSaved, NoName, call, store, bounds, history,
        NextSide, HasSource
<1> DEFINE n == SideName(op[c], slot[c])
<1>p. /\ n \in NamesOf(op[c]) /\ n \in Names /\ tx[c] \in 1 .. count
      /\ FileOf[n] \in FilesOf(op[c]) /\ FileOf[n] \in Files /\ FileOf[n] = Side(c)
      /\ Put(FileOf[n], Absent, tx[c])
      /\ files' = [files EXCEPT ![FileOf[n]] = Absent]
      /\ disturbed' \subseteq Txs /\ disturbed \subseteq disturbed'
      /\ tx[c] \in disturbed' => tx[c] \in disturbed
  <2>1. KnownWork(c)
    BY DEF WorkIsKnown
  <2>2. n \in NamesOf(op[c]) /\ FileOf[n] = Side(c) /\ tx[c] \in 1 .. count
    BY <2>1, SameNames, OwnFiles DEF KnownWork, Side, SideName, Source, Destination, Txs
  <2>3. n \in Names /\ FileOf[n] \in FilesOf(op[c]) /\ FileOf[n] \in Files
    BY <2>2, OwnFiles
  <2>4. Put(FileOf[n], Absent, tx[c])
    BY <2>2
  <2> QED
    BY <2>2, <2>3, <2>4 DEF TypeOK, Put, Txs
<1>1. TypeOK'
  <2>1. files' \in [Files -> Contents] /\ Contents' = Contents /\ Txs' = Txs
    BY <1>p DEF TypeOK, Contents, Txs
  <2>2. /\ pc' \in [Callers -> AtWork \cup {"idle", "lock", "unlock", "restored", "dead"}]
        /\ slot' \in [Callers -> Slots]
    <3>1. \/ pc' = [pc EXCEPT ![c] = "reopen"] /\ slot' = slot
          \/ pc' = [pc EXCEPT ![c] = "drop"] /\ slot' = [slot EXCEPT ![c] = "source"]
          \/ pc' = [pc EXCEPT ![c] = "restored"] /\ slot' = slot
      BY Zenon
    <3>2. /\ pc \in [Callers -> AtWork \cup {"idle", "lock", "unlock", "restored", "dead"}]
          /\ slot \in [Callers -> Slots]
      BY DEF TypeOK
    <3> HIDE DEF Drop, IInv
    <3> QED
      BY <3>1, <3>2
  <2>3. /\ lock \in [Names -> Callers \cup {Free, Orphan}] /\ op \in [Callers -> Op]
        /\ want \in [Callers -> SUBSET Names] /\ tx \in [Callers -> 0 .. count]
        /\ text \in [Callers -> Contents]
        /\ backup \in [Txs -> [Slots -> Contents]]
        /\ made \in [Txs -> [op : Op, caller : Callers]]
        /\ recorded \subseteq Txs /\ count \in Nat /\ others \in Nat
        /\ before \in [Txs -> [Files -> Contents]]
        /\ met \in [Callers -> BOOLEAN] /\ rival \in [Callers -> Callers \cup {Free, Orphan}]
    BY DEF TypeOK
  <2>4. UNCHANGED <<lock, op, want, tx, text, backup, made, recorded, count, others, before, met, rival>>
    OBVIOUS
  <2>5. disturbed' \subseteq Txs
    BY <1>p
  <2> HIDE DEF Drop, IInv, Slots, AtWork
  <2> QED
    BY <2>1, <2>2, <2>3, <2>4, <2>5 DEF TypeOK
<1>2. LocksAreHeld'
  <2>1. /\ pc[c] = "drop" /\ pc'[c] \in {"reopen", "drop", "restored"}
        /\ \A d \in Callers \ {c} : pc'[d] = pc[d]
        /\ UNCHANGED <<lock, op, want>>
    BY DEF TypeOK
  <2>2. LocksAreHeld
    OBVIOUS
  <2> QED
    BY <2>1, <2>2 DEF LocksAreHeld, NamesOf
<1>3. RivalsAreOrdered'
  <2>1. \A d \in Callers : pc'[d] = "lock" => pc[d] = "lock"
    BY DEF TypeOK
  <2> QED
    BY <2>1 DEF RivalsAreOrdered
<1>4. OneOfTwoGoesOn'
  BY DEF TypeOK, OneOfTwoGoesOn
<1>5. WorkIsKnown'
  BY DEF TypeOK, WorkIsKnown, KnownWork, Op, Txs, Named, SideName
<1>6. MeetingsAreKnown'
  <2>1. \A d \in Callers : pc'[d] \in AtWork => pc[d] \in AtWork
    BY DEF TypeOK
  <2>2. \A d, e \in Callers : Clash(op[d], op[e])' <=> Clash(op[d], op[e])
    BY DEF Clash, NamesOf
  <2> QED
    BY <2>1, <2>2 DEF MeetingsAreKnown
<1>7. UnmetIsUndisturbed'
  <2>1. ASSUME NEW d \in Callers, pc[d] \in Changing, ~met[d] PROVE tx[d] \notin disturbed'
    BY <1>p, <2>1, PutMeets
  <2> QED
    BY <1>p, <2>1 DEF TypeOK, UnmetIsUndisturbed
<1>8. RecordedIsKept'
  BY <1>p DEF RecordedIsKept, SourceKept, DestinationKept
<1>9. UndisturbedKeeps' /\ UndoneSides' /\ RollbackRestores'
  <2>1. ASSUME NEW d \in Callers \ {c} PROVE SameFor(d)
    BY <1>p, PutKeepsOthers DEF TypeOK
  <2>2. ChangeKeeps(c)' /\ SideIsUndone(c)' /\ IsRestored(c)'
    <3>1. SideIsUndone(c) /\ KnownWork(c)
      BY DEF UndoneSides, WorkIsKnown
    <3>2. /\ op'[c] = op[c] /\ tx'[c] = tx[c]
          /\ Source(c)' = Source(c) /\ Destination(c)' = Destination(c)
          /\ files'[FileOf[n]] = Absent /\ \A f \in Files : f # FileOf[n] => files'[f] = files[f]
          /\ FilesOf(op[c])' = FilesOf(op[c])
      BY <1>p DEF TypeOK, Source, Destination, FilesOf, NamesOf
    <3>3. pc'[c] \in Undoing \cup {"restored"}
      BY DEF TypeOK
    <3>4. /\ slot[c] = "source" => FileOf[n] = Source(c) /\ op[c].source # NoName
          /\ slot[c] # "source" =>
               slot[c] = "destination" /\ FileOf[n] = Destination(c) /\ op[c].destination # NoName
      BY <3>1 DEF KnownWork, SideName, Source, Destination, TypeOK
    <3>5. pc'[c] = "restored" => (slot[c] = "source" \/ op[c].source = NoName)
      BY DEF TypeOK
    <3>6. pc'[c] # "restored" /\ slot'[c] # slot[c] => slot[c] = "destination" /\ slot'[c] = "source"
      BY DEF TypeOK
    <3>7. ChangeKeeps(c)'
      BY <3>3 DEF ChangeKeeps
    <3>8. SideIsUndone(c)'
      BY <1>p, <3>1, <3>2, <3>3, <3>4, <3>6, UndoCopies, OwnFiles DEF SideIsUndone, TypeOK
    <3>9. IsRestored(c)'
      <4>1. SUFFICES ASSUME pc'[c] = "restored", tx[c] \notin disturbed, made[tx[c]].op.kind # "unzip",
                            NEW f \in FilesOf(op[c])
                     PROVE  files'[f] = before[tx[c]][f]
        BY <1>p, <3>2 DEF IsRestored
      <4>2. f \in Files
        BY OwnFiles DEF FilesOf
      <4>3. files'[FileOf[n]] = backup[tx[c]][slot[c]]
        BY <3>2, <4>1 DEF TypeOK
      <4>4. files'[FileOf[n]] = before[tx[c]][FileOf[n]]
        BY <3>4, <4>1, <4>3, UndoCopies
      <4>5. CASE f = FileOf[n]
        BY <4>4, <4>5
      <4>6. CASE f # FileOf[n]
        <5>1. slot[c] = "source" /\ f = Destination(c) /\ op[c].destination # NoName
          BY <3>4, <3>5, <4>1, <4>6, OwnFiles
        <5>2. Source(c) # Destination(c)
          BY <3>4, <4>6, <5>1
        <5> QED
          BY <3>1, <3>2, <4>1, <4>2, <4>6, <5>1, <5>2 DEF SideIsUndone
      <4> QED
        BY <4>5, <4>6
    <3> QED
      BY <3>7, <3>8, <3>9  <2>3. ASSUME NEW d \in Callers PROVE ChangeKeeps(d)' /\
         SideIsUndone(d)' /\ IsRestored(d)'
    BY <2>1, <2>2, OthersKeep DEF UndisturbedKeeps, UndoneSides, RollbackRestores
  <2> QED
    BY <2>3 DEF UndisturbedKeeps, UndoneSides, RollbackRestores
<1> QED
  BY <1>1, <1>2, <1>3, <1>4, <1>5, <1>6, <1>7, <1>8, <1>9 DEF IInv

\* Opening the file for the rollback keeps it.
LEMMA ReopenInv ==
    ASSUME IInv, NEW c \in Callers, Reopen(c) PROVE IInv'
<1> USE NamesAssumption, LockAssumption
<1> USE DEF Reopen, Go, IInv, AtWork, Changing, Undoing, Slots, Kinds, LockFree,
        Copies, Reading, SourceSaved, NoName, call, store, bounds, history
<1> DEFINE n == SideName(op[c], slot[c])
<1>p. /\ n \in NamesOf(op[c]) /\ n \in Names /\ tx[c] \in 1 .. count
      /\ FileOf[n] \in FilesOf(op[c]) /\ FileOf[n] \in Files /\ FileOf[n] = Side(c)
      /\ Put(FileOf[n], Torn, tx[c])
      /\ files' = [files EXCEPT ![FileOf[n]] = Torn]
      /\ disturbed' \subseteq Txs /\ disturbed \subseteq disturbed'
      /\ tx[c] \in disturbed' => tx[c] \in disturbed
  <2>1. KnownWork(c)
    BY DEF WorkIsKnown
  <2>2. n \in NamesOf(op[c]) /\ FileOf[n] = Side(c) /\ tx[c] \in 1 .. count
    BY <2>1, SameNames, OwnFiles DEF KnownWork, Side, SideName, Source, Destination, Txs
  <2>3. n \in Names /\ FileOf[n] \in FilesOf(op[c]) /\ FileOf[n] \in Files
    BY <2>2, OwnFiles
  <2>4. Put(FileOf[n], Torn, tx[c])
    BY <2>2
  <2> QED
    BY <2>2, <2>3, <2>4 DEF TypeOK, Put, Txs
<1>1. TypeOK'
  BY <1>p DEF TypeOK, Op, Contents, Txs
<1>2. LocksAreHeld'
  BY DEF TypeOK, LocksAreHeld, NamesOf
<1>3. RivalsAreOrdered'
  <2>1. \A d \in Callers : pc'[d] = "lock" => pc[d] = "lock"
    BY DEF TypeOK
  <2> QED
    BY <2>1 DEF RivalsAreOrdered
<1>4. OneOfTwoGoesOn'
  BY DEF TypeOK, OneOfTwoGoesOn
<1>5. WorkIsKnown'
  BY DEF TypeOK, WorkIsKnown, KnownWork, Op, Txs, Named, SideName
<1>6. MeetingsAreKnown'
  BY DEF TypeOK, MeetingsAreKnown, Clash, NamesOf
<1>7. UnmetIsUndisturbed'
  <2>1. ASSUME NEW d \in Callers, pc[d] \in Changing, ~met[d] PROVE tx[d] \notin disturbed'
    BY <1>p, <2>1, PutMeets
  <2> QED
    BY <1>p, <2>1 DEF TypeOK, UnmetIsUndisturbed
<1>8. RecordedIsKept'
  BY <1>p DEF RecordedIsKept, SourceKept, DestinationKept
<1>9. UndisturbedKeeps' /\ UndoneSides' /\ RollbackRestores'
  <2>1. ASSUME NEW d \in Callers \ {c} PROVE SameFor(d)
    BY <1>p, PutKeepsOthers DEF TypeOK
  <2>2. ChangeKeeps(c)' /\ SideIsUndone(c)' /\ IsRestored(c)'
    <3>1. SideIsUndone(c) /\ KnownWork(c)
      BY DEF UndoneSides, WorkIsKnown
    <3>2. /\ op'[c] = op[c] /\ tx'[c] = tx[c]
          /\ Source(c)' = Source(c) /\ Destination(c)' = Destination(c)
          /\ files'[FileOf[n]] = Torn /\ \A f \in Files : f # FileOf[n] => files'[f] = files[f]
          /\ FilesOf(op[c])' = FilesOf(op[c])
      BY <1>p DEF TypeOK, Source, Destination, FilesOf, NamesOf
    <3>3. pc'[c] \in Undoing \cup {"restored"}
      BY DEF TypeOK
    <3>4. /\ slot[c] = "source" => FileOf[n] = Source(c) /\ op[c].source # NoName
          /\ slot[c] # "source" =>
               slot[c] = "destination" /\ FileOf[n] = Destination(c) /\ op[c].destination # NoName
      BY <3>1 DEF KnownWork, SideName, Source, Destination, TypeOK
    <3>5. pc'[c] = "restored" => (slot[c] = "source" \/ op[c].source = NoName)
      BY DEF TypeOK
    <3>6. pc'[c] # "restored" /\ slot'[c] # slot[c] => slot[c] = "destination" /\ slot'[c] = "source"
      BY DEF TypeOK
    <3>7. ChangeKeeps(c)'
      BY <3>3 DEF ChangeKeeps
    <3>8. SideIsUndone(c)'
      BY <1>p, <3>1, <3>2, <3>3, <3>4, <3>6, UndoCopies, OwnFiles DEF SideIsUndone, TypeOK
    <3>9. IsRestored(c)'
      BY DEF TypeOK, IsRestored
    <3> QED
      BY <3>7, <3>8, <3>9  <2>3. ASSUME NEW d \in Callers PROVE ChangeKeeps(d)' /\
         SideIsUndone(d)' /\ IsRestored(d)'
    BY <2>1, <2>2, OthersKeep DEF UndisturbedKeeps, UndoneSides, RollbackRestores
  <2> QED
    BY <2>3 DEF UndisturbedKeeps, UndoneSides, RollbackRestores
<1> QED
  BY <1>1, <1>2, <1>3, <1>4, <1>5, <1>6, <1>7, <1>8, <1>9 DEF IInv

\* Putting the copy back keeps it.
LEMMA RefillInv ==
    ASSUME IInv, NEW c \in Callers, Refill(c) PROVE IInv'
<1> USE NamesAssumption, LockAssumption
<1> USE DEF Refill, Go, IInv, AtWork, Changing, Undoing, Slots, Kinds, LockFree,
        Copies, Reading, SourceSaved, NoName, call, store, bounds, history,
        NextSide, HasSource
<1> DEFINE n == SideName(op[c], slot[c])
<1>p. /\ n \in NamesOf(op[c]) /\ n \in Names /\ tx[c] \in 1 .. count
      /\ FileOf[n] \in FilesOf(op[c]) /\ FileOf[n] \in Files /\ FileOf[n] = Side(c)
      /\ Put(FileOf[n], backup[tx[c]][slot[c]], tx[c])
      /\ files' = [files EXCEPT ![FileOf[n]] = backup[tx[c]][slot[c]]]
      /\ disturbed' \subseteq Txs /\ disturbed \subseteq disturbed'
      /\ tx[c] \in disturbed' => tx[c] \in disturbed
  <2>1. KnownWork(c)
    BY DEF WorkIsKnown
  <2>2. n \in NamesOf(op[c]) /\ FileOf[n] = Side(c) /\ tx[c] \in 1 .. count
    BY <2>1, SameNames, OwnFiles DEF KnownWork, Side, SideName, Source, Destination, Txs
  <2>3. n \in Names /\ FileOf[n] \in FilesOf(op[c]) /\ FileOf[n] \in Files
    BY <2>2, OwnFiles
  <2>4. Put(FileOf[n], backup[tx[c]][slot[c]], tx[c])
    BY <2>2
  <2> QED
    BY <2>2, <2>3, <2>4 DEF TypeOK, Put, Txs
<1>1. TypeOK'
  <2>1. backup[tx[c]][slot[c]] \in Contents
    BY <1>p DEF TypeOK, Txs
  <2>2. files' \in [Files -> Contents] /\ slot' \in [Callers -> Slots]
    BY <1>p, <2>1 DEF TypeOK
  <2>3. pc' \in [Callers -> AtWork \cup {"idle", "lock", "unlock", "restored", "dead"}]
    <3>1. \E p \in {"drop", "restored"} : pc' = [pc EXCEPT ![c] = p]
      OBVIOUS
    <3> QED
      BY <3>1 DEF TypeOK
  <2> QED
    BY <1>p, <2>2, <2>3 DEF TypeOK, Contents, Txs
<1>2. LocksAreHeld'
  BY DEF TypeOK, LocksAreHeld, NamesOf
<1>3. RivalsAreOrdered'
  <2>1. \A d \in Callers : pc'[d] = "lock" => pc[d] = "lock"
    BY DEF TypeOK
  <2> QED
    BY <2>1 DEF RivalsAreOrdered
<1>4. OneOfTwoGoesOn'
  BY DEF TypeOK, OneOfTwoGoesOn
<1>5. WorkIsKnown'
  BY DEF TypeOK, WorkIsKnown, KnownWork, Op, Txs, Named, SideName
<1>6. MeetingsAreKnown'
  <2>1. \A d \in Callers : pc'[d] \in AtWork => pc[d] \in AtWork
    BY DEF TypeOK
  <2>2. \A d, e \in Callers : Clash(op[d], op[e])' <=> Clash(op[d], op[e])
    BY DEF Clash, NamesOf
  <2> QED
    BY <2>1, <2>2 DEF MeetingsAreKnown
<1>7. UnmetIsUndisturbed'
  <2>1. ASSUME NEW d \in Callers, pc[d] \in Changing, ~met[d] PROVE tx[d] \notin disturbed'
    BY <1>p, <2>1, PutMeets
  <2> QED
    BY <1>p, <2>1 DEF TypeOK, UnmetIsUndisturbed
<1>8. RecordedIsKept'
  BY <1>p DEF RecordedIsKept, SourceKept, DestinationKept
<1>9. UndisturbedKeeps' /\ UndoneSides' /\ RollbackRestores'
  <2>1. ASSUME NEW d \in Callers \ {c} PROVE SameFor(d)
    BY <1>p, PutKeepsOthers DEF TypeOK
  <2>2. ChangeKeeps(c)' /\ SideIsUndone(c)' /\ IsRestored(c)'
    <3>1. SideIsUndone(c) /\ KnownWork(c)
      BY DEF UndoneSides, WorkIsKnown
    <3>2. /\ op'[c] = op[c] /\ tx'[c] = tx[c]
          /\ Source(c)' = Source(c) /\ Destination(c)' = Destination(c)
          /\ files'[FileOf[n]] = backup[tx[c]][slot[c]] /\ \A f \in Files : f # FileOf[n] => files'[f] = files[f]
          /\ FilesOf(op[c])' = FilesOf(op[c])
      BY <1>p DEF TypeOK, Source, Destination, FilesOf, NamesOf
    <3>3. pc'[c] \in Undoing \cup {"restored"}
      BY DEF TypeOK
    <3>4. /\ slot[c] = "source" => FileOf[n] = Source(c) /\ op[c].source # NoName
          /\ slot[c] # "source" =>
               slot[c] = "destination" /\ FileOf[n] = Destination(c) /\ op[c].destination # NoName
      BY <3>1 DEF KnownWork, SideName, Source, Destination, TypeOK
    <3>5. pc'[c] = "restored" => (slot[c] = "source" \/ op[c].source = NoName)
      BY DEF TypeOK
    <3>6. pc'[c] # "restored" /\ slot'[c] # slot[c] => slot[c] = "destination" /\ slot'[c] = "source"
      BY DEF TypeOK
    <3>7. ChangeKeeps(c)'
      BY <3>3 DEF ChangeKeeps
    <3>8. SideIsUndone(c)'
      BY <1>p, <3>1, <3>2, <3>3, <3>4, <3>6, UndoCopies, OwnFiles DEF SideIsUndone, TypeOK
    <3>9. IsRestored(c)'
      <4>1. SUFFICES ASSUME pc'[c] = "restored", tx[c] \notin disturbed, made[tx[c]].op.kind # "unzip",
                            NEW f \in FilesOf(op[c])
                     PROVE  files'[f] = before[tx[c]][f]
        BY <1>p, <3>2 DEF IsRestored
      <4>2. f \in Files
        BY OwnFiles DEF FilesOf
      <4>3. files'[FileOf[n]] = backup[tx[c]][slot[c]]
        BY <3>2, <4>1 DEF TypeOK
      <4>4. files'[FileOf[n]] = before[tx[c]][FileOf[n]]
        BY <3>4, <4>1, <4>3, UndoCopies
      <4>5. CASE f = FileOf[n]
        BY <4>4, <4>5
      <4>6. CASE f # FileOf[n]
        <5>1. slot[c] = "source" /\ f = Destination(c) /\ op[c].destination # NoName
          BY <3>4, <3>5, <4>1, <4>6, OwnFiles
        <5>2. Source(c) # Destination(c)
          BY <3>4, <4>6, <5>1
        <5> QED
          BY <3>1, <3>2, <4>1, <4>2, <4>6, <5>1, <5>2 DEF SideIsUndone
      <4> QED
        BY <4>5, <4>6
    <3> QED
      BY <3>7, <3>8, <3>9  <2>3. ASSUME NEW d \in Callers PROVE ChangeKeeps(d)' /\
         SideIsUndone(d)' /\ IsRestored(d)'
    BY <2>1, <2>2, OthersKeep DEF UndisturbedKeeps, UndoneSides, RollbackRestores
  <2> QED
    BY <2>3 DEF UndisturbedKeeps, UndoneSides, RollbackRestores
<1> QED
  BY <1>1, <1>2, <1>3, <1>4, <1>5, <1>6, <1>7, <1>8, <1>9 DEF IInv

\* A call that fails leaves its locks to Unlock, a worker that is killed leaves
\* them to nobody.
LEMMA FailInv ==
    ASSUME IInv, NEW c \in Callers, Fail(c) PROVE IInv'
<1> USE NamesAssumption, LockAssumption
<1> USE DEF Fail, Go, IInv, AtWork, Changing, Undoing, Slots, Kinds, LockFree,
        Copies, Reading, SourceSaved, NoName, call, store, bounds, history
<1>1. TypeOK'
  BY DEF TypeOK, Op, Contents, Txs
<1>2. LocksAreHeld'
  BY DEF TypeOK, LocksAreHeld, NamesOf
<1>3. RivalsAreOrdered'
  <2>1. \A d \in Callers : pc'[d] = "lock" => pc[d] = "lock"
    BY DEF TypeOK
  <2> QED
    BY <2>1 DEF RivalsAreOrdered
<1>4. OneOfTwoGoesOn'
  BY DEF TypeOK, OneOfTwoGoesOn
<1>5. WorkIsKnown'
  BY DEF TypeOK, WorkIsKnown, KnownWork, Op, Txs, Named, SideName
<1>6. MeetingsAreKnown'
  BY DEF TypeOK, MeetingsAreKnown, Clash, NamesOf
<1>7. UnmetIsUndisturbed'
  BY DEF TypeOK, UnmetIsUndisturbed
<1>8. RecordedIsKept'
  BY DEF RecordedIsKept, SourceKept, DestinationKept
<1>9. UndisturbedKeeps' /\ UndoneSides' /\ RollbackRestores'
  <2>1. Go(c, "unlock")
    BY DEF TypeOK
  <2>2. \A d \in Callers \ {c} : op'[d] = op[d] /\ tx'[d] = tx[d] /\ slot'[d] = slot[d]
    BY DEF TypeOK
  <2> QED
    BY <2>1, <2>2, RestKeeps
<1> QED
  BY <1>1, <1>2, <1>3, <1>4, <1>5, <1>6, <1>7, <1>8, <1>9 DEF IInv

\* A kill at any step keeps it.
LEMMA KillInv ==
    ASSUME IInv, NEW c \in Callers, Kill(c) PROVE IInv'
<1> USE NamesAssumption, LockAssumption
<1> USE DEF Kill, Go, IInv, AtWork, Changing, Undoing, Slots, Kinds, LockFree,
        Copies, Reading, SourceSaved, NoName, call, store, bounds, history,
        Forget, Idle
<1>1. TypeOK'
  BY DEF TypeOK, Op, Contents, Txs
<1>2. LocksAreHeld'
  <2>1. \A n \in Names : lock'[n] # c /\ \A d \in Callers \ {c} : lock'[n] = d <=> lock[n] = d
    BY DEF TypeOK
  <2>2. ASSUME NEW d \in Callers, d # c
        PROVE  pc'[d] = pc[d] /\ op'[d] = op[d] /\ want'[d] = want[d]
    BY <2>2 DEF TypeOK
  <2>3. pc'[c] = "dead"
    BY DEF TypeOK
  <2>4. \A d \in Callers : d # c => \A n \in NamesOf(op[d]) : n \in Names
    BY DEF TypeOK, NamesOf, Op
  <2> QED
    BY <2>1, <2>2, <2>3, <2>4 DEF LocksAreHeld, NamesOf
<1>3. RivalsAreOrdered'
  BY DEF TypeOK, LocksAreHeld, RivalsAreOrdered
<1>4. OneOfTwoGoesOn'
  BY DEF TypeOK, OneOfTwoGoesOn
<1>5. WorkIsKnown'
  BY DEF TypeOK, WorkIsKnown, KnownWork, Op, Txs, Named, SideName
<1>6. MeetingsAreKnown'
  BY DEF TypeOK, MeetingsAreKnown, Clash, NamesOf
<1>7. UnmetIsUndisturbed'
  BY DEF TypeOK, UnmetIsUndisturbed
<1>8. RecordedIsKept'
  BY DEF RecordedIsKept, SourceKept, DestinationKept
<1>9. UndisturbedKeeps' /\ UndoneSides' /\ RollbackRestores'
  <2>1. Go(c, "dead")
    BY DEF TypeOK
  <2>2. \A d \in Callers \ {c} : op'[d] = op[d] /\ tx'[d] = tx[d] /\ slot'[d] = slot[d]
    BY DEF TypeOK
  <2> QED
    BY <2>1, <2>2, RestKeeps
<1> QED
  BY <1>1, <1>2, <1>3, <1>4, <1>5, <1>6, <1>7, <1>8, <1>9 DEF IInv

\* The start of a change that takes locks, when it has them all, and of one that
\* takes none.
LEMMA LockedInv ==
    ASSUME IInv, NEW c \in Callers, Locked(c) PROVE IInv'
<1>1. /\ op[c] \in Op /\ op[c].kind \in Kinds \ LockFree /\ Named(op[c])
      /\ op' = [op EXCEPT ![c] = op[c]]
      /\ rival' \in [Callers -> Callers \cup {Free, Orphan}]
      /\ StartWork(c, op[c])
      /\ UNCHANGED <<files, lock, want, text, slot, recorded, others, disturbed, rival, op>>
  BY DEF IInv, TypeOK, WorkIsKnown, KnownWork, Locked
<1>2. pc[c] = "lock" /\ want[c] = {}
  BY DEF Locked
<1>3. pc[c] \notin AtWork \cup {"restored"}
  BY <1>2 DEF AtWork, Changing, Undoing
<1>4. /\ TypeOK' /\ WorkIsKnown' /\ MeetingsAreKnown' /\ UnmetIsUndisturbed'
      /\ RecordedIsKept' /\ UndisturbedKeeps' /\ UndoneSides' /\ RollbackRestores'
  BY <1>1, <1>3, StartedInv
<1>5. /\ pc'[c] \in {"save_source", "save_destination"}
      /\ \A d \in Callers \ {c} : pc'[d] = pc[d]
  BY <1>1 DEF StartWork, Go, FirstStep, IInv, TypeOK
<1>6. LocksAreHeld'
  BY <1>1, <1>2, <1>5 DEF IInv, LocksAreHeld, NamesOf, Undoing, Changing
<1>7. RivalsAreOrdered' /\ OneOfTwoGoesOn'
  BY <1>1, <1>5 DEF IInv, RivalsAreOrdered, OneOfTwoGoesOn
<1> QED
  BY <1>4, <1>6, <1>7 DEF IInv

\* An operation without locks keeps it.
LEMMA BeginUnlockedInv ==
    ASSUME IInv, NEW c \in Callers, BeginUnlocked(c) PROVE IInv'
<1>1. PICK o \in Calls : o.kind \in LockFree /\ Arrive(c, o) /\ StartWork(c, o)
  BY DEF BeginUnlocked
<1>2. o \in Op /\ o.kind \in Kinds /\ Named(o)
  BY CallsAssumption
<1>3. UNCHANGED <<files, lock, want, text, slot, recorded, others, disturbed>>
  BY DEF BeginUnlocked
<1>4. /\ pc[c] = "idle" /\ op' = [op EXCEPT ![c] = o]
      /\ rival' \in [Callers -> Callers \cup {Free, Orphan}]
      /\ \A d, e \in Callers : rival'[d] = e => rival[d] = e
  BY <1>1, LockAssumption DEF Arrive, IInv, TypeOK
<1>5. pc[c] \notin AtWork \cup {"restored"}
  BY <1>4 DEF AtWork, Changing, Undoing
<1>6. /\ TypeOK' /\ WorkIsKnown' /\ MeetingsAreKnown' /\ UnmetIsUndisturbed'
      /\ RecordedIsKept' /\ UndisturbedKeeps' /\ UndoneSides' /\ RollbackRestores'
  BY <1>1, <1>2, <1>3, <1>4, <1>5, StartedInv
<1>7. /\ pc'[c] \in {"save_source", "save_destination"} /\ op'[c] = o
      /\ \A d \in Callers \ {c} : pc'[d] = pc[d] /\ op'[d] = op[d]
  BY <1>1, <1>4 DEF StartWork, Go, FirstStep, IInv, TypeOK
<1>8. LocksAreHeld'
  BY <1>1, <1>3, <1>7 DEF IInv, LocksAreHeld, NamesOf, Undoing, Changing
<1>9. RivalsAreOrdered' /\ OneOfTwoGoesOn'
  BY <1>3, <1>4, <1>7 DEF IInv, RivalsAreOrdered, OneOfTwoGoesOn
<1> QED
  BY <1>6, <1>8, <1>9 DEF IInv

---------------------------------------------------------------------------
\* The invariant holds at the start, when nobody has called.
LEMMA InitInv == Init => IInv
<1> SUFFICES ASSUME Init PROVE IInv
  OBVIOUS
<1> USE NamesAssumption, LockAssumption
<1> USE DEF Init, Idle
<1>1. /\ count = 0 /\ recorded = {} /\ disturbed = {} /\ Txs = {}
      /\ \A c \in Callers : pc[c] = "idle" /\ \A d \in Callers : rival[c] # d
  BY DEF Txs
<1>2. TypeOK
  <2>1. Idle \in Op
    BY DEF Op
  <2>2. /\ files \in [Files -> Contents] /\ text \in [Callers -> Contents]
        /\ op \in [Callers -> Op]
    BY <2>1 DEF Contents
  <2>3. /\ backup \in [Txs -> [Slots -> Contents]]
        /\ made \in [Txs -> [op : Op, caller : Callers]]
        /\ before \in [Txs -> [Files -> Contents]]
    BY <1>1
  <2> QED
    BY <1>1, <2>2, <2>3 DEF TypeOK, Slots
<1>3. LocksAreHeld /\ RivalsAreOrdered /\ OneOfTwoGoesOn
  BY <1>1 DEF LocksAreHeld, RivalsAreOrdered, OneOfTwoGoesOn, Changing
<1>4. WorkIsKnown
  BY <1>1 DEF WorkIsKnown, KnownWork, AtWork, Changing, Undoing
<1>5. MeetingsAreKnown /\ UnmetIsUndisturbed /\ RecordedIsKept
  BY <1>1 DEF MeetingsAreKnown, UnmetIsUndisturbed, RecordedIsKept, AtWork, Changing, Undoing
<1>6. UndisturbedKeeps /\ UndoneSides /\ RollbackRestores
  BY <1>1 DEF UndisturbedKeeps, UndoneSides, RollbackRestores, ChangeKeeps, SideIsUndone,
              IsRestored, Changing, Undoing
<1> QED
  BY <1>2, <1>3, <1>4, <1>5, <1>6 DEF IInv

\* Every step preserves it.
LEMMA StepInv == IInv /\ [Next]_vars => IInv'
<1> SUFFICES ASSUME IInv, [Next]_vars PROVE IInv'
  OBVIOUS
<1>1. ASSUME NEW c \in Callers, Step(c) PROVE IInv'
  <2>1. CASE Begin(c) \/ BeginUnlocked(c)
    BY <2>1, BeginInv, BeginUnlockedInv
  <2>2. CASE Lock(c) \/ Locked(c) \/ Blocked(c) \/ LockLeaks(c) \/ Unlock(c)
    BY <2>2, LockInv, LockedInv, BlockedInv, LockLeaksInv, UnlockInv
  <2>3. CASE Change(c)
    BY <2>3, SaveSourceInv, SaveDestinationInv, ClearInv, OpenInv, SourceGoneInv, FillInv,
       RemoveInv, RecordInv DEF Change
  <2>4. CASE Undo(c)
    BY <2>4, BeginUndoInv, DropInv, ReopenInv, RefillInv DEF Undo
  <2>5. CASE Fail(c) \/ Kill(c)
    BY <2>5, FailInv, KillInv
  <2> QED
    BY <1>1, <2>1, <2>2, <2>3, <2>4, <2>5 DEF Step
<1>2. CASE UNCHANGED vars
  <2>0. /\ TypeOK /\ LocksAreHeld /\ RivalsAreOrdered /\ OneOfTwoGoesOn /\ WorkIsKnown
        /\ MeetingsAreKnown /\ UnmetIsUndisturbed /\ RecordedIsKept /\ UndisturbedKeeps
        /\ UndoneSides /\ RollbackRestores
    BY DEF IInv
  <2>1. UNCHANGED <<files, lock, pc, op, want, tx, text, slot, backup, made, recorded, count,
                    others, before, disturbed, met, rival>>
    BY <1>2 DEF vars, call, store, bounds, history
  <2>2. Contents' = Contents /\ Txs' = Txs /\ TypeOK'
    BY <2>0, <2>1 DEF TypeOK, Contents, Txs
  <2>3. LocksAreHeld' /\ RivalsAreOrdered' /\ OneOfTwoGoesOn'
    BY <2>0, <2>1 DEF LocksAreHeld, RivalsAreOrdered, OneOfTwoGoesOn
  <2>4. WorkIsKnown' /\ MeetingsAreKnown' /\ UnmetIsUndisturbed'
    BY <2>0, <2>1, <2>2
       DEF WorkIsKnown, KnownWork, SideName, MeetingsAreKnown, UnmetIsUndisturbed
  <2>5. RecordedIsKept'
    BY <2>0, <2>1 DEF RecordedIsKept, SourceKept, DestinationKept
  <2>6. UndisturbedKeeps' /\ UndoneSides' /\ RollbackRestores'
    <3>1. ASSUME NEW d \in Callers PROVE SameFor(d)
      BY <2>1 DEF SameFor
    <3>2. ASSUME NEW d \in Callers PROVE ChangeKeeps(d)' /\ SideIsUndone(d)' /\ IsRestored(d)'
      BY <2>0, <3>1, OthersKeep DEF UndisturbedKeeps, UndoneSides, RollbackRestores
    <3> QED
      BY <3>2 DEF UndisturbedKeeps, UndoneSides, RollbackRestores
  <2> QED
    BY <2>0, <2>2, <2>3, <2>4, <2>5, <2>6 DEF IInv
<1> QED
  BY <1>1, <1>2 DEF Next

\* The invariant of workers that change and restore the files they share.
THEOREM InductiveInvariant == Spec => []IInv
<1> QED
  BY InitInv, StepInv, PTL DEF Spec

\* Two calls never both end blocked, each by a lock of the other.
THEOREM OneGoesOn == Spec => []OneOfTwoGoesOn
<1>1. IInv => OneOfTwoGoesOn
  BY DEF IInv
<1> QED
  BY <1>1, InductiveInvariant, PTL

\* A finished rollback of a transaction that nobody disturbed has put back what
\* the transaction found.
THEOREM RollbacksRestore == Spec => []RollbackRestores
<1>1. IInv => RollbackRestores
  BY DEF IInv
<1> QED
  BY <1>1, InductiveInvariant, PTL

\* A change that met nobody whom no lock keeps apart has a copy of all it
\* overwrites or removes: each step writes one of the caller's files, which by
\* UndisturbedKeeps is then as before the change, with a copy, or not whole.
LEMMA StepBacksUp ==
    ASSUME IInv, [Next]_vars, NEW c \in Callers, NEW f \in Files,
           pc[c] \in Changing, pc'[c] # pc[c], ~met[c],
           files'[f] # files[f], files[f] \notin {Absent, Torn}
    PROVE  \E s \in Slots : backup[tx[c]][s] = files[f]
<1>1. PICK d \in Callers : Step(d)
  BY DEF Next, vars, call
<1>2. d = c
  BY <1>1 DEF Step, Begin, BeginUnlocked, StartWork, Lock, Locked, Blocked, LockLeaks, Unlock,
     Change,
     SaveSource, SaveDestination, Clear, Open, SourceGone, Fill, Remove, Record, Undo, BeginUndo,
     Drop, Reopen, Refill, NextSide, Fail, Kill, Go, IInv, TypeOK
<1>3. ChangeKeeps(c) /\ KnownWork(c) /\ tx[c] \notin disturbed
  BY DEF IInv, UndisturbedKeeps, WorkIsKnown, UnmetIsUndisturbed
<1>4. Clear(c) \/ Open(c) \/ Fill(c) \/ Remove(c)
  BY <1>1, <1>2 DEF Step, Begin, BeginUnlocked, Lock, Locked, Blocked, LockLeaks, Unlock,
     Change,
     SaveSource, SaveDestination, SourceGone, Record, Undo, BeginUndo,
     Drop, Reopen, Refill, Fail, Kill, Changing
<1>5. pc[c] \in AtWork
  BY DEF AtWork
<1>6. /\ op[c] = made[tx[c]].op
      /\ SourceKept(tx[c]) => backup[tx[c]]["source"] = before[tx[c]][Source(c)]
      /\ DestinationKept(tx[c]) => backup[tx[c]]["destination"] = before[tx[c]][Destination(c)]
  BY <1>3 DEF KnownWork, SourceKept, DestinationKept, Source, Destination
<1>7. CASE Clear(c)
  <2>1. f = Destination(c) /\ pc[c] = "clear" /\ op[c].kind \in Copies
    BY <1>3, <1>7 DEF Clear, Put, IInv, TypeOK, KnownWork
  <2>2. Destination(c) \in FilesOf(op[c])
    BY <1>5, <2>1, OwnFiles DEF IInv, Copies
  <2> QED
    BY <1>3, <1>6, <2>1, <2>2 DEF ChangeKeeps, Copies, Slots
<1>8. CASE Open(c)
  <2>1. f = Destination(c) /\ pc[c] = "open" /\ op[c].kind # "delete"
    BY <1>3, <1>8 DEF Open, Put, IInv, TypeOK, KnownWork
  <2> QED
    BY <1>3, <1>6, <2>1 DEF ChangeKeeps, Slots
<1>9. CASE Fill(c)
  <2>1. f = Destination(c) /\ pc[c] = "fill"
    BY <1>9 DEF Fill, Put, IInv, TypeOK
  <2> QED
    BY <1>3, <2>1 DEF ChangeKeeps
<1>10. CASE Remove(c)
  <2>1. f = Source(c) /\ pc[c] = "remove" /\ op[c].kind \in SourceSaved
    BY <1>3, <1>10 DEF Remove, Put, IInv, TypeOK, KnownWork, SourceSaved
  <2> QED
    BY <1>3, <1>6, <2>1 DEF ChangeKeeps, Slots
<1> QED
  BY <1>4, <1>7, <1>8, <1>9, <1>10

\* What a change overwrites or removes is kept in a slot of its transaction, for any
\* callers and files, unless a change met it that takes no common lock.
THEOREM OverwritesBackedUp == Spec => OverwritesAreBackedUp
<1> DEFINE Saved == \A c \in Callers, f \in Files :
                      /\ pc[c] \in Changing /\ pc'[c] # pc[c] /\ ~met[c]
                      /\ files'[f] # files[f] /\ files[f] \notin {Absent, Torn}
                      => \E s \in Slots : backup[tx[c]][s] = files[f]
<1>1. IInv /\ [Next]_vars => Saved
  BY StepBacksUp
<1>2. IInv /\ [Next]_vars => [Saved]_vars
  BY <1>1
<1> QED
  BY <1>2, InductiveInvariant, PTL DEF Spec, OverwritesAreBackedUp
=============================================================================
