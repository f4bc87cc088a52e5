------------------------ MODULE ProcessTruth_proofs ------------------------
(***************************************************************************)
(* Proofs about ProcessTruth for any number of kernels, readers, operations, *)
(* page sizes and cuts.                                                     *)
(***************************************************************************)
EXTENDS ProcessTruthInv, FiniteSetTheorems, SequenceTheorems, TLAPS

\* MAX(event_id) + 1 of a log without gaps is the number after the last.
LEMMA NextIdIsNext ==
    ASSUME Count \in Nat, DOMAIN events = 1 .. Count
    PROVE  NextId = Count + 1
<1> DEFINE C == {i + 1 : i \in DOMAIN events \cup {0}}
           P(n) == \A i \in DOMAIN events : i < n
<1>1. Count + 1 \in C
  <2>1. Count \in DOMAIN events \cup {0}
    OBVIOUS
  <2> QED
    BY <2>1
<1>2. P(Count + 1)
  OBVIOUS
<1>3. \A n \in C : n \in Nat /\ (P(n) => n = Count + 1)
  <2> SUFFICES ASSUME NEW i \in DOMAIN events \cup {0}, P(i + 1)
               PROVE  i + 1 = Count + 1
    BY SMT
  <2>1. CASE i = Count
    BY <2>1
  <2>2. CASE i # Count
    <3>1. i + 1 \in DOMAIN events
      BY <2>2
    <3> QED
      BY <3>1, i + 1 < i + 1
  <2> QED
    BY <2>1, <2>2
<1>4. NextId = CHOOSE n \in C : P(n)
  BY DEF NextId
<1> HIDE DEF C, P
<1> QED
  BY <1>1, <1>2, <1>3, <1>4, Zenon

\* A page is the stretch of ids right behind the reader's cursor.
LEMMA PageIsNext ==
    ASSUME Count \in Nat, DOMAIN events = 1 .. Count,
           NEW r \in Readers, cursor[r] \in 0 .. Count, Page(r) # {}
    PROVE  \E m \in cursor[r] + 1 .. Count : Page(r) = cursor[r] + 1 .. m
<1> DEFINE c == cursor[r]
           m == IF c + PageLimit <= Count THEN c + PageLimit ELSE Count
           Before(i) == {j \in DOMAIN events : c < j /\ j < i}
<1>1. \A i \in c + 1 .. Count : Cardinality(Before(i)) = i - 1 - c
  <2> SUFFICES ASSUME NEW i \in c + 1 .. Count
               PROVE  Cardinality(Before(i)) = i - 1 - c
    OBVIOUS
  <2>1. Before(i) = c + 1 .. i - 1
    OBVIOUS
  <2>2. Cardinality(c + 1 .. i - 1) = i - 1 - c
    <3>1. c + 1 \in Int /\ i - 1 \in Int
      OBVIOUS
    <3>2. Cardinality(c + 1 .. i - 1) = IF c + 1 > i - 1 THEN 0 ELSE (i - 1) - (c + 1) + 1
      BY <3>1, FS_Interval
    <3> QED
      BY <3>2
  <2> QED
    BY <2>1, <2>2
<1>2. Page(r) = {i \in DOMAIN events : i > c /\ Cardinality(Before(i)) < PageLimit}
  BY DEF Page
<1>3. \A i \in DOMAIN events : i > c => (Cardinality(Before(i)) < PageLimit <=> i <= c + PageLimit)
  <2> SUFFICES ASSUME NEW i \in DOMAIN events, i > c
               PROVE  Cardinality(Before(i)) < PageLimit <=> i <= c + PageLimit
    OBVIOUS
  <2>1. Cardinality(Before(i)) = i - 1 - c
    BY <1>1
  <2> HIDE DEF Before
  <2> QED
    BY <2>1, PageLimitAssumption
<1> HIDE DEF Before
<1>4. Page(r) = c + 1 .. m
  <2>1. Page(r) = {i \in DOMAIN events : i > c /\ i <= c + PageLimit}
    BY <1>2, <1>3
  <2> QED
    BY <2>1, PageLimitAssumption
<1>5. m \in c + 1 .. Count
  <2>1. PICK i \in c + 1 .. m : TRUE
    BY <1>4
  <2> QED
    BY <2>1, PageLimitAssumption
<1> QED
  BY <1>4, <1>5

---------------------------------------------------------------------------
\* What an insertion leaves of the log, and that nothing else touches it.
LEMMA InsertExtends ==
    ASSUME IInv, NEW k \in Kernels, Insert(k)
    PROVE  /\ held[k] = Count + 1
           /\ DOMAIN events' = 1 .. Count + 1
           /\ Count' = Count + 1
           /\ \A i \in 1 .. Count : events'[i] = events[i]
<1>1. held[k] = Count + 1
  <2>1. held[k] \in 1 .. Count + 1 /\ held[k] \notin 1 .. Count /\ Count \in Nat
    BY DEF IInv, TypeOK, HeldIsNext, Insert
  <2> QED
    BY <2>1
<1>2. DOMAIN events' = DOMAIN events \cup {held[k]}
  BY DEF Insert
<1>3. DOMAIN events' = 1 .. Count + 1
  BY <1>1, <1>2 DEF IInv, TypeOK, HeldIsNext
<1>4. Cardinality(1 .. Count + 1) = Count + 1
  <2>1. Count \in Nat
    BY DEF IInv, TypeOK
  <2> QED
    BY <2>1, FS_Interval
<1>5. \A i \in 1 .. Count : events'[i] = events[i]
  BY <1>1 DEF Insert, IInv, TypeOK, HeldIsNext
<1> QED
  BY <1>1, <1>3, <1>4, <1>5 DEF Count

\* Initially the log is empty and every kernel would take the first id.
LEMMA InitIInv == Init => IInv
<1> SUFFICES ASSUME Init PROVE IInv
  OBVIOUS
<1>1. DOMAIN events = {} /\ {} = 1 .. 0
  BY DEF Init
<1>2. Count = 0
  BY <1>1, FS_EmptySet DEF Count
<1>3. \A r \in Readers : DOMAIN got[r] = {}
  BY DEF Init
<1> QED
  BY <1>1, <1>2, <1>3 DEF Init, IInv, TypeOK, HeldIsNext, ReadersHavePrefix

\* No statement of any operation breaks the invariant.
LEMMA StepIInv == IInv /\ [Next]_vars => IInv'
<1> SUFFICES ASSUME IInv, [Next]_vars PROVE IInv'
  OBVIOUS
<1> USE DEF store, clients
<1>1. Count \in Nat /\ DOMAIN events = 1 .. Count /\ \A k \in Kernels : held[k] \in 1 .. Count + 1
  BY DEF IInv, TypeOK, HeldIsNext
<1>2. ASSUME UNCHANGED <<events, held, cursor, got>>,
             ops' \in Nat, aborts' \in Nat, clock' \in Nat
      PROVE  IInv'
  BY <1>2 DEF IInv, TypeOK, HeldIsNext, ReadersHavePrefix, Count
<1>3. ASSUME NEW k \in Kernels, Insert(k) PROVE IInv'
  <2>1. /\ DOMAIN events' = 1 .. Count + 1 /\ Count' = Count + 1
        /\ \A i \in 1 .. Count : events'[i] = events[i]
    BY <1>3, InsertExtends
  <2>2. UNCHANGED <<held, cursor, got, ops, aborts, clock>>
    BY <1>3 DEF Insert
  <2>3. TypeOK'
    BY <1>1, <2>1, <2>2 DEF IInv, TypeOK
  <2>4. HeldIsNext'
    BY <1>1, <2>1, <2>2 DEF HeldIsNext
  <2>5. ReadersHavePrefix'
    <3> SUFFICES ASSUME NEW r \in Readers
                 PROVE  /\ cursor[r] \in 0 .. Count + 1
                        /\ DOMAIN got[r] = 1 .. cursor[r]
                        /\ \A i \in 1 .. cursor[r] : got[r][i] = events'[i]
      BY <2>1, <2>2 DEF ReadersHavePrefix
    <3>1. /\ cursor[r] \in 0 .. Count /\ DOMAIN got[r] = 1 .. cursor[r]
          /\ \A i \in 1 .. cursor[r] : got[r][i] = events[i]
      BY DEF IInv, ReadersHavePrefix
    <3> QED
      BY <1>1, <2>1, <3>1
  <2> QED
    BY <2>3, <2>4, <2>5 DEF IInv
<1>4. ASSUME NEW k \in Kernels, SelectMax(k) PROVE IInv'
  <2>1. held' = [held EXCEPT ![k] = Count + 1]
    BY <1>1, <1>4, NextIdIsNext DEF SelectMax
  <2>2. UNCHANGED <<events, cursor, got, ops, aborts, clock>>
    BY <1>4 DEF SelectMax
  <2>3. Count' = Count
    BY <2>2 DEF Count
  <2> QED
    BY <1>1, <2>1, <2>2, <2>3 DEF IInv, TypeOK, HeldIsNext, ReadersHavePrefix
<1>5. ASSUME NEW r \in Readers, StreamEvents(r) PROVE IInv'
  <2>1. UNCHANGED <<events, held, ops, aborts, clock>> /\ Count' = Count
    BY <1>5 DEF StreamEvents, Count
  <2>2. /\ cursor[r] \in 0 .. Count /\ DOMAIN got[r] = 1 .. cursor[r]
        /\ \A i \in 1 .. cursor[r] : got[r][i] = events[i]
    BY DEF IInv, ReadersHavePrefix
  <2>3. PICK m \in cursor[r] + 1 .. Count : Page(r) = cursor[r] + 1 .. m
    BY <1>1, <1>5, <2>2, PageIsNext DEF StreamEvents
  <2>4. cursor' = [cursor EXCEPT ![r] = m]
    <3>1. m = CHOOSE i \in Page(r) : \A j \in Page(r) : j <= i
      BY <1>1, <2>2, <2>3
    <3> QED
      BY <1>5, <3>1 DEF StreamEvents
  <2>5. got' = [got EXCEPT ![r] = [i \in 1 .. m |-> events[i]]]
    <3>1. DOMAIN got[r] \cup Page(r) = 1 .. m
      BY <1>1, <2>2, <2>3
    <3>2. [i \in DOMAIN got[r] \cup Page(r) |-> IF i \in DOMAIN got[r] THEN got[r][i] ELSE events[i]]
            = [i \in 1 .. m |-> events[i]]
      BY <2>2, <3>1
    <3> QED
      BY <1>5, <3>2 DEF StreamEvents
  <2>6. TypeOK'
    BY <1>1, <2>1, <2>2, <2>3, <2>4, <2>5 DEF IInv, TypeOK
  <2>7. HeldIsNext'
    BY <1>1, <2>1 DEF HeldIsNext
  <2>8. ReadersHavePrefix'
    <3> SUFFICES ASSUME NEW q \in Readers
                 PROVE  /\ cursor'[q] \in 0 .. Count
                        /\ DOMAIN got'[q] = 1 .. cursor'[q]
                        /\ \A i \in 1 .. cursor'[q] : got'[q][i] = events[i]
      BY <2>1 DEF ReadersHavePrefix
    <3>1. CASE q = r
      BY <1>1, <2>2, <2>3, <2>4, <2>5, <3>1 DEF IInv, TypeOK
    <3>2. CASE q # r
      BY <2>4, <2>5, <3>2 DEF IInv, TypeOK, ReadersHavePrefix
    <3> QED
      BY <3>1, <3>2
  <2> QED
    BY <2>6, <2>7, <2>8 DEF IInv
<1>6. ASSUME NEW k \in Kernels, Turn(k) \/ EndLoop(k) \/ CancelJob(k) \/ UserInput(k) PROVE IInv'
  <2>1. PICK p : Begin(k, p)
    BY <1>6 DEF Turn, EndLoop, CancelJob, UserInput
  <2> QED
    BY <1>2, <2>1 DEF Begin, IInv, TypeOK
<1>7. ASSUME CreateJob PROVE IInv'
  BY <1>2, <1>7 DEF CreateJob, Begin, IInv, TypeOK
<1>8. ASSUME NEW k \in Kernels,
             Conflict(k) \/ SetStatus(k) \/ RegisterRow(k) \/ WriteBlob(k)
               \/ InsertCheckpoint(k) \/ RefuseTerminal(k) \/ EnterLoop(k)
      PROVE  IInv'
  <2>1. UNCHANGED <<events, held, cursor, got, ops, aborts, clock>>
    BY <1>8 DEF Conflict, SetStatus, RegisterRow, WriteBlob, InsertCheckpoint, RefuseTerminal, EnterLoop
  <2> QED
    BY <1>2, <2>1 DEF IInv, TypeOK
<1>9. ASSUME NEW k \in Kernels, Abort(k) PROVE IInv'
  BY <1>2, <1>9 DEF Abort, IInv, TypeOK
<1>10. ASSUME Tick PROVE IInv'
  BY <1>2, <1>10 DEF Tick, IInv, TypeOK
<1>11. CASE UNCHANGED vars
  BY <1>2, <1>11 DEF vars, IInv, TypeOK
<1>12. CASE Next
  <2>1. Step
    BY <1>12 DEF Next
  <2> QED
    BY <1>3, <1>4, <1>5, <1>6, <1>7, <1>8, <1>9, <1>10, <2>1 DEF Step, Statement, Kernels
<1> QED
  BY <1>11, <1>12

\* append_event keeps one log without gaps although two kernels may read the
\* same MAX(event_id), and no client that follows its cursor misses an event.
THEOREM InductiveInvariant == Spec => []IInv
<1>1. Init => IInv
  BY InitIInv
<1>2. IInv /\ [Next]_vars => IInv'
  BY StepIInv
<1> QED
  BY <1>1, <1>2, PTL DEF Spec

---------------------------------------------------------------------------
\* A step of the store is a step of the abstract log.
LEMMA StepRefines ==
    IInv /\ [Next]_vars => [LogSpec!Next]_<<events, got>>
<1> SUFFICES ASSUME IInv, [Next]_vars PROVE [LogSpec!Next]_<<events, got>>
  OBVIOUS
<1> USE DEF store, clients
<1>1. Count \in Nat /\ DOMAIN events = 1 .. Count
  BY DEF IInv, TypeOK, HeldIsNext
<1>2. ASSUME NEW k \in Kernels, Insert(k) PROVE LogSpec!Next
  <2>1. /\ DOMAIN events' = 1 .. Count + 1
        /\ \A i \in 1 .. Count : events'[i] = events[i]
    BY <1>2, InsertExtends
  <2>2. UNCHANGED got
    BY <1>2 DEF Insert
  <2>3. \E id \in DOMAIN events' :
          /\ \A i \in DOMAIN events : i < id /\ events'[i] = events[i]
          /\ id = 1 \/ id - 1 \in DOMAIN events
          /\ DOMAIN events' = DOMAIN events \cup {id}
    <3>1. Count + 1 \in DOMAIN events'
      BY <1>1, <2>1
    <3> WITNESS Count + 1 \in DOMAIN events'
    <3> QED
      BY <1>1, <2>1
  <2>4. LogSpec!Add
    BY <2>2, <2>3 DEF LogSpec!Add
  <2> QED
    BY <2>4 DEF LogSpec!Next
<1>3. ASSUME NEW r \in Readers, StreamEvents(r) PROVE LogSpec!Next
  <2>1. UNCHANGED events
    BY <1>3 DEF StreamEvents
  <2>2. /\ cursor[r] \in 0 .. Count /\ DOMAIN got[r] = 1 .. cursor[r]
        /\ \A i \in 1 .. cursor[r] : got[r][i] = events[i]
    BY DEF IInv, ReadersHavePrefix
  <2>3. PICK m \in cursor[r] + 1 .. Count : Page(r) = cursor[r] + 1 .. m
    BY <1>1, <1>3, <2>2, PageIsNext DEF StreamEvents
  <2>4. DOMAIN got[r] \cup Page(r) = 1 .. m
    BY <1>1, <2>2, <2>3
  <2>5. [i \in DOMAIN got[r] \cup Page(r) |-> IF i \in DOMAIN got[r] THEN got[r][i] ELSE events[i]]
          = [i \in 1 .. m |-> events[i]]
    BY <2>2, <2>4
  <2>6. got' = [got EXCEPT ![r] = [i \in 1 .. m |-> events[i]]]
    BY <1>3, <2>5 DEF StreamEvents
  <2>7. m \in {0} \cup DOMAIN events /\ DOMAIN got[r] \subseteq 1 .. m
    BY <1>1, <2>2, <2>3
  <2>8. LogSpec!Read(r)
    BY <2>1, <2>6, <2>7 DEF LogSpec!Read
  <2> QED
    BY <2>8 DEF LogSpec!Next
<1>4. ASSUME NEW k \in Kernels,
             Turn(k) \/ EndLoop(k) \/ CancelJob(k) \/ UserInput(k) \/ CreateJob
               \/ SelectMax(k) \/ Conflict(k) \/ SetStatus(k) \/ RegisterRow(k) \/ WriteBlob(k)
               \/ InsertCheckpoint(k) \/ RefuseTerminal(k) \/ EnterLoop(k) \/ Abort(k)
      PROVE  UNCHANGED <<events, got>>
  BY <1>4 DEF Turn, EndLoop, CancelJob, UserInput, CreateJob, Begin, SelectMax, Conflict,
     SetStatus, RegisterRow, WriteBlob, InsertCheckpoint, RefuseTerminal, EnterLoop, Abort
<1>5. CASE UNCHANGED vars
  BY <1>5 DEF vars
<1>6. CASE Next
  <2>1. Step
    BY <1>6 DEF Next
  <2>2. CASE Tick
    BY <2>2 DEF Tick
  <2>3. Worker \in Kernels
    BY DEF Kernels
  <2> QED
    BY <1>2, <1>3, <1>4, <2>1, <2>2, <2>3 DEF Step, Statement, Kernels
<1> QED
  BY <1>5, <1>6

\* The store of a job, with its racing writers and cut operations, implements
\* the log EventLog describes: append-only, gapless, read without omissions.
THEOREM Refinement == Spec => LogImplemented
<1>1. Init => LogSpec!Init
  BY DEF Init, LogSpec!Init
<1>2. IInv /\ [Next]_vars => [LogSpec!Next]_<<events, got>>
  BY StepRefines
<1> QED
  BY <1>1, <1>2, InductiveInvariant, PTL DEF Spec, LogImplemented, LogSpec!Spec

---------------------------------------------------------------------------
(* What the operations of the store are made of.                            *)

(* The statements, one by one.                                              *)
Max == [do |-> "max"]
Ins(t, s, n, c) ==
    [do |-> "insert", event |-> [type |-> t, status |-> s, ref |-> n, content |-> c]]
Note(t) == Ins(t, "none", NoName, NoContent)
SetTo(t, s) == [do |-> "set", table |-> t, status |-> s]
RowOf(t, s) == [do |-> "register", table |-> t, status |-> s]
Cut(n, c) == [do |-> "truncate", name |-> n, content |-> [c EXCEPT !.full = FALSE]]
Fill(n, c) == [do |-> "fill", name |-> n, content |-> c]
Keep(n) == [do |-> "row", name |-> n]
Ask == [do |-> "refuse"]
Start == [do |-> "enter"]

Joined(p, q, r) ==
  /\ r \in Seq(Statements)
  /\ Len(r) = Len(p) + Len(q)
  /\ \A i \in 1 .. Len(p) + Len(q) : r[i] = IF i <= Len(p) THEN p[i] ELSE q[i - Len(p)]

\* A concatenation, position by position, without its quantified laws.
LEMMA Joins ==
  ASSUME NEW p \in Seq(Statements), NEW q \in Seq(Statements)
  PROVE  Joined(p, q, p \o q)
<1>1. p \o q \in Seq(Statements) /\ Len(p \o q) = Len(p) + Len(q)
  BY ConcatProperties
<1>2. \A i \in 1 .. Len(p) + Len(q) : (p \o q)[i] = IF i <= Len(p) THEN p[i] ELSE q[i - Len(p)]
  BY ConcatProperties
<1> QED
  BY <1>1, <1>2 DEF Joined

Is1(p, a) == p \in Seq(Statements) /\ Len(p) = 1 /\ p[1] = a
Is2(p, a, b) == p \in Seq(Statements) /\ Len(p) = 2 /\ p[1] = a /\ p[2] = b

\* The operations of one statement.
LEMMA PartsAre ==
  /\ \A t \in Tables, s \in Statuses :
       Is1(Set(t, s), SetTo(t, s)) /\ Is1(Register(t, s), RowOf(t, s))
  /\ \A n \in Names : Is1(SaveRow(n), Keep(n))
  /\ Is1(Refuse, Ask) /\ Is1(Enter, Start)
<1>1. \A t \in Tables, s \in Statuses : SetTo(t, s) \in Statements /\ RowOf(t, s) \in Statements
  BY DEF SetTo, RowOf, Statements
<1>2. (\A n \in Names : Keep(n) \in Statements) /\ Ask \in Statements /\ Start \in Statements
  BY DEF Keep, Ask, Start, Statements
<1> QED
  BY <1>1, <1>2 DEF Set, Register, SaveRow, Refuse, Enter, Is1, SetTo, RowOf, Keep, Ask, Start

\* append_event reads the greatest id and then inserts.
LEMMA EventIs ==
  ASSUME NEW t \in EventTypes, NEW s \in Statuses \cup {"none"}, NEW n \in Names, NEW c \in Contents
  PROVE  Is2(Event(t, s, n, c), Max, Ins(t, s, n, c))
<1>1. Ins(t, s, n, c) \in Statements /\ Max \in Statements
  BY DEF Ins, Max, Statements, Events
<1> QED
  BY <1>1 DEF Event, Max, Ins, Is2

\* append_event of an event that carries neither status nor reference.
LEMMA LogIs ==
  ASSUME NEW t \in EventTypes
  PROVE  Is2(Log(t), Max, Note(t))
<1>1. NoName \in Names /\ NoContent \in Contents
  BY DEF NoName, NoContent, Names, Contents
<1> QED
  BY <1>1, EventIs DEF Log, Note

\* fs::write truncates and then fills.
LEMMA WriteIs ==
  ASSUME NEW n \in Names, NEW c \in Contents
  PROVE  Is2(Write(n, c), Cut(n, c), Fill(n, c))
<1>1. Cut(n, c) \in Statements /\ Fill(n, c) \in Statements
  BY DEF Cut, Fill, Statements, Contents
<1> QED
  BY <1>1 DEF Write, Cut, Fill, Is2

IsUpdate(p, s) ==
  /\ p \in Seq(Statements) /\ Len(p) = 5
  /\ p[1] = SetTo("jobs", s) /\ p[2] = SetTo("processes", s) /\ p[3] = SetTo("runtimes", s)
  /\ p[4] = Max /\ p[5] = Ins("job_status_changed", s, NoName, NoContent)

\* update_job_status: three columns, then the event that tells the status.
LEMMA UpdateStatusIs ==
  ASSUME NEW s \in Statuses
  PROVE  IsUpdate(UpdateStatus(s), s)
<1> DEFINE a == Set("jobs", s)
           b == Set("processes", s)
           c == Set("runtimes", s)
           e == Event("job_status_changed", s, NoName, NoContent)
           ab == a \o b
           abc == ab \o c
           p == abc \o e
<1>1. NoName \in Names /\ NoContent \in Contents
  BY DEF NoName, NoContent, Names, Contents
<1>2. Is1(a, SetTo("jobs", s)) /\ Is1(b, SetTo("processes", s)) /\ Is1(c, SetTo("runtimes", s))
  BY PartsAre DEF Tables
<1>3. Is2(e, Max, Ins("job_status_changed", s, NoName, NoContent))
  BY <1>1, EventIs DEF EventTypes
<1>4. UpdateStatus(s) = p
  BY DEF UpdateStatus
<1>5. a \in Seq(Statements) /\ b \in Seq(Statements) /\ c \in Seq(Statements) /\ e \in Seq(Statements)
  BY <1>2, <1>3 DEF Is1, Is2
<1> HIDE DEF a, b, c, e
<1>6. Joined(a, b, ab) /\ ab \in Seq(Statements)
  BY <1>5, Joins
<1> HIDE DEF ab
<1>7. Joined(ab, c, abc) /\ abc \in Seq(Statements)
  BY <1>5, <1>6, Joins
<1> HIDE DEF abc
<1>8. Joined(abc, e, p)
  BY <1>5, <1>7, Joins
<1> HIDE DEF p
<1>9. IsUpdate(p, s)
  BY <1>2, <1>3, <1>6, <1>7, <1>8 DEF Joined, Is1, Is2, IsUpdate
<1> QED
  BY <1>4, <1>9

\* request_job_cancel, statement by statement.
LEMMA CancelIs ==
  LET p == Cancel IN
    /\ p \in Seq(Statements) /\ Len(p) = 9
    /\ p[1] = Max /\ p[2] = Note("user_cancel_requested")
    /\ p[3] = SetTo("jobs", "cancelled") /\ p[4] = SetTo("processes", "cancelled")
    /\ p[5] = SetTo("runtimes", "cancelled")
    /\ p[6] = Max /\ p[7] = Ins("job_status_changed", "cancelled", NoName, NoContent)
    /\ p[8] = Max /\ p[9] = Note("job_cancelled")
<1> DEFINE a == Log("user_cancel_requested")
           u == UpdateStatus("cancelled")
           b == Log("job_cancelled")
           au == a \o u
           p == au \o b
<1>1. Is2(a, Max, Note("user_cancel_requested")) /\ Is2(b, Max, Note("job_cancelled"))
  BY LogIs DEF EventTypes
<1>2. IsUpdate(u, "cancelled")
  BY UpdateStatusIs DEF Statuses
<1>3. Cancel = p
  BY DEF Cancel
<1>4. a \in Seq(Statements) /\ u \in Seq(Statements) /\ b \in Seq(Statements)
  BY <1>1, <1>2 DEF Is2, IsUpdate
<1> HIDE DEF a, u, b
<1>5. Joined(a, u, au) /\ au \in Seq(Statements)
  BY <1>4, Joins
<1> HIDE DEF au
<1>6. Joined(au, b, p)
  BY <1>4, <1>5, Joins
<1> HIDE DEF p
<1>7. /\ p \in Seq(Statements) /\ Len(p) = 9
      /\ p[1] = Max /\ p[2] = Note("user_cancel_requested")
      /\ p[3] = SetTo("jobs", "cancelled") /\ p[4] = SetTo("processes", "cancelled")
      /\ p[5] = SetTo("runtimes", "cancelled")
      /\ p[6] = Max /\ p[7] = Ins("job_status_changed", "cancelled", NoName, NoContent)
      /\ p[8] = Max /\ p[9] = Note("job_cancelled")
  BY <1>1, <1>2, <1>5, <1>6 DEF Joined, Is2, IsUpdate
<1> QED
  BY <1>3, <1>7

\* What every operation brings along that the kernels begin once the job exists.
NewWork(p) ==
  /\ p \in Seq(Statements) /\ WritesFirst(p)
  /\ \E s \in Statuses : Updates(p, s)
  /\ (\E i \in DOMAIN p : Tells(p[i])) => \E i \in DOMAIN p : Sets(p[i], "jobs")
  /\ \A i \in DOMAIN p :
       /\ Writes(p[i]) => Fits(p[i].name, p[i].content) /\ OpOf(p[i]) = ops + 1
       /\ Refers(p[i]) => Fits(p[i].event.ref, p[i].event.content) /\ OpOf(p[i]) = ops + 1 /\ i > 2
       /\ p[i].do = "row" => i > 1

\* Cancelling writes no file and updates to one status.
LEMMA CancelIsNewWork == NewWork(Cancel) /\ \A i \in DOMAIN Cancel : Cancel[i].do # "register"
<1> DEFINE p == Cancel
<1>1. p \in Seq(Statements) /\ Len(p) = 9 /\ DOMAIN p = 1 .. 9
  BY CancelIs
<1>2. \A i \in 1 .. 9 : p[i].do \in {"set", "insert", "max"}
  BY CancelIs DEF Note, Ins, SetTo, Max
<1>3. \A i \in 1 .. 9 : ~Refers(p[i])
  BY CancelIs DEF Note, Ins, SetTo, Max, Refers
<1>4. \A i \in 1 .. 9 : Tells(p[i]) <=> i = 7
  BY CancelIs DEF Note, Ins, SetTo, Max, Tells
<1>5. \A i \in 1 .. 9 : p[i].do = "set" <=> i \in 3 .. 5
  BY CancelIs DEF Note, Ins, SetTo, Max, Tells
<1>6. Updates(p, "cancelled")
  BY <1>1, <1>4, <1>5, CancelIs DEF Updates, Sets, SetTo, Ins, Tables
<1> QED
  BY <1>1, <1>2, <1>3, <1>4, <1>5, <1>6, CancelIs DEF NewWork, WritesFirst, Writes, Statuses, Sets, SetTo

\* The content an operation writes fits the name it writes it to.
LEMMA NewFits ==
  ASSUME ops \in Nat, clock \in Nat
  PROVE  /\ New \in Contents /\ New.op = ops + 1
         /\ CkptName \in Names /\ CkptName # NoName /\ Fits(CkptName, New)
         /\ InputName \in Names /\ InputName # NoName /\ Fits(InputName, New)
  BY DEF New, Contents, CkptName, InputName, NoName, Names, Fits

\* save_checkpoint, statement by statement.
LEMMA SaveCheckpointIs ==
  ASSUME ops \in Nat, clock \in Nat
  PROVE  LET p == SaveCheckpoint IN
           /\ p \in Seq(Statements) /\ Len(p) = 5
           /\ p[1] = Cut(CkptName, New) /\ p[2] = Fill(CkptName, New)
           /\ p[3] = Max /\ p[4] = Ins("checkpoint_saved", "none", CkptName, New)
           /\ p[5] = Keep(CkptName)
<1> DEFINE n == CkptName
           c == New
           a == Write(n, c)
           b == Event("checkpoint_saved", "none", n, c)
           d == SaveRow(n)
           ab == a \o b
           p == ab \o d
<1>1. SaveCheckpoint = p
  BY DEF SaveCheckpoint
<1>2. n \in Names /\ c \in Contents
  BY NewFits
<1> HIDE DEF n, c
<1>3. Is2(a, Cut(n, c), Fill(n, c)) /\ Is1(d, Keep(n))
  BY <1>2, WriteIs, PartsAre
<1>4. Is2(b, Max, Ins("checkpoint_saved", "none", n, c))
  BY <1>2, EventIs DEF EventTypes
<1>5. a \in Seq(Statements) /\ b \in Seq(Statements) /\ d \in Seq(Statements)
  BY <1>3, <1>4 DEF Is1, Is2
<1> HIDE DEF a, b, d
<1>6. Joined(a, b, ab) /\ ab \in Seq(Statements)
  BY <1>5, Joins
<1> HIDE DEF ab
<1>7. Joined(ab, d, p)
  BY <1>5, <1>6, Joins
<1> HIDE DEF p
<1>8. /\ p \in Seq(Statements) /\ Len(p) = 5
      /\ p[1] = Cut(n, c) /\ p[2] = Fill(n, c)
      /\ p[3] = Max /\ p[4] = Ins("checkpoint_saved", "none", n, c)
      /\ p[5] = Keep(n)
  BY <1>3, <1>4, <1>6, <1>7 DEF Joined, Is1, Is2
<1> QED
  BY <1>1, <1>8 DEF n, c

\* submit_user_input, statement by statement.
LEMMA SubmitInputIs ==
  ASSUME ops \in Nat, clock \in Nat
  PROVE  LET p == SubmitInput IN
           /\ p \in Seq(Statements) /\ Len(p) = 14
           /\ p[1] = Ask /\ p[2] = Cut(InputName, New) /\ p[3] = Fill(InputName, New)
           /\ p[4] = Max /\ p[5] = Ins("user_input_received", "none", InputName, New)
           /\ p[6] = Ask /\ p[7] = Max /\ p[8] = Note("job_resumed")
           /\ p[9] = SetTo("jobs", "running") /\ p[10] = SetTo("processes", "running")
           /\ p[11] = SetTo("runtimes", "running")
           /\ p[12] = Max /\ p[13] = Ins("job_status_changed", "running", NoName, NoContent)
           /\ p[14] = Start
<1> DEFINE n == InputName
           c == New
           a == Refuse
           b == Write(n, c)
           d == Event("user_input_received", "none", n, c)
           e == Log("job_resumed")
           u == UpdateStatus("running")
           f == Enter
           p1 == a \o b
           p2 == p1 \o d
           p3 == p2 \o a
           p4 == p3 \o e
           p5 == p4 \o u
           p == p5 \o f
<1>1. SubmitInput = p
  BY DEF SubmitInput
<1>2. n \in Names /\ c \in Contents
  BY NewFits
<1> HIDE DEF n, c
<1>3. Is2(b, Cut(n, c), Fill(n, c)) /\ Is1(a, Ask) /\ Is1(f, Start)
  BY <1>2, WriteIs, PartsAre
<1>4. Is2(d, Max, Ins("user_input_received", "none", n, c)) /\ Is2(e, Max, Note("job_resumed"))
  BY <1>2, EventIs, LogIs DEF EventTypes
<1>5. IsUpdate(u, "running")
  BY UpdateStatusIs DEF Statuses
<1>6. /\ a \in Seq(Statements) /\ b \in Seq(Statements) /\ d \in Seq(Statements)
      /\ e \in Seq(Statements) /\ u \in Seq(Statements) /\ f \in Seq(Statements)
  BY <1>3, <1>4, <1>5 DEF Is1, Is2, IsUpdate
<1> HIDE DEF a, b, d, e, u, f
<1>7. Joined(a, b, p1) /\ p1 \in Seq(Statements)
  BY <1>6, Joins
<1> HIDE DEF p1
<1>8. Joined(p1, d, p2) /\ p2 \in Seq(Statements)
  BY <1>6, <1>7, Joins
<1> HIDE DEF p2
<1>9. Joined(p2, a, p3) /\ p3 \in Seq(Statements)
  BY <1>6, <1>8, Joins
<1> HIDE DEF p3
<1>10. Joined(p3, e, p4) /\ p4 \in Seq(Statements)
  BY <1>6, <1>9, Joins
<1> HIDE DEF p4
<1>11. Joined(p4, u, p5) /\ p5 \in Seq(Statements)
  BY <1>6, <1>10, Joins
<1> HIDE DEF p5
<1>12. Joined(p5, f, p) /\ p \in Seq(Statements)
  BY <1>6, <1>11, Joins
<1> HIDE DEF p
<1>13. /\ Len(p3) = 6
       /\ p3[1] = Ask /\ p3[2] = Cut(n, c) /\ p3[3] = Fill(n, c)
       /\ p3[4] = Max /\ p3[5] = Ins("user_input_received", "none", n, c)
       /\ p3[6] = Ask
  BY <1>3, <1>4, <1>7, <1>8, <1>9 DEF Joined, Is1, Is2
<1>14. /\ Len(p4) = 8 /\ p4[7] = Max /\ p4[8] = Note("job_resumed")
       /\ \A i \in 1 .. 6 : p4[i] = p3[i]
  BY <1>4, <1>10, <1>13 DEF Joined, Is2
<1>15. /\ Len(p5) = 13
       /\ p5[9] = SetTo("jobs", "running") /\ p5[10] = SetTo("processes", "running")
       /\ p5[11] = SetTo("runtimes", "running")
       /\ p5[12] = Max /\ p5[13] = Ins("job_status_changed", "running", NoName, NoContent)
       /\ \A i \in 1 .. 8 : p5[i] = p4[i]
  BY <1>5, <1>11, <1>14 DEF Joined, IsUpdate
<1>16. Len(p) = 14 /\ p[14] = Start /\ \A i \in 1 .. 13 : p[i] = p5[i]
  BY <1>3, <1>12, <1>15 DEF Joined, Is1
<1>17. /\ p \in Seq(Statements) /\ Len(p) = 14
       /\ p[1] = Ask /\ p[2] = Cut(n, c) /\ p[3] = Fill(n, c)
       /\ p[4] = Max /\ p[5] = Ins("user_input_received", "none", n, c)
       /\ p[6] = Ask /\ p[7] = Max /\ p[8] = Note("job_resumed")
       /\ p[9] = SetTo("jobs", "running") /\ p[10] = SetTo("processes", "running")
       /\ p[11] = SetTo("runtimes", "running")
       /\ p[12] = Max /\ p[13] = Ins("job_status_changed", "running", NoName, NoContent)
       /\ p[14] = Start
  BY <1>12, <1>13, <1>14, <1>15, <1>16
<1> QED
  BY <1>1, <1>17 DEF n, c

\* The end of a loop, statement by statement.
LEMMA FinishIs ==
  ASSUME NEW s \in Endings
  PROVE  LET p == Finish(s) IN
           /\ p \in Seq(Statements) /\ Len(p) = 7 /\ s \in Statuses
           /\ p[1] = SetTo("jobs", s) /\ p[2] = SetTo("processes", s)
           /\ p[3] = SetTo("runtimes", s)
           /\ p[4] = Max /\ p[5] = Ins("job_status_changed", s, NoName, NoContent)
           /\ p[6] = Max
           /\ p[7] = Note("job_waiting_user") \/ p[7] = Ins(EndEvent[s], s, NoName, NoContent)
<1> DEFINE u == UpdateStatus(s)
           b == IF s = "waiting_user" THEN Log("job_waiting_user")
                ELSE Event(EndEvent[s], s, NoName, NoContent)
           p == u \o b
<1>1. Finish(s) = p
  BY DEF Finish
<1>2. s \in Statuses /\ IsUpdate(u, s)
  BY UpdateStatusIs, EndingsAssumption DEF Statuses
<1>3. /\ b \in Seq(Statements) /\ Len(b) = 2 /\ b[1] = Max
      /\ b[2] = Note("job_waiting_user") \/ b[2] = Ins(EndEvent[s], s, NoName, NoContent)
  <2>1. CASE s = "waiting_user"
    BY <2>1, LogIs DEF EventTypes, Is2
  <2>2. CASE s # "waiting_user"
    <3>1. EndEvent[s] \in EventTypes
      BY <2>2, EndingsAssumption DEF EventTypes
    <3>2. NoName \in Names /\ NoContent \in Contents
      BY DEF NoName, NoContent, Names, Contents
    <3> QED
      BY <1>2, <2>2, <3>1, <3>2, EventIs DEF Is2
  <2> QED
    BY <2>1, <2>2
<1>4. u \in Seq(Statements)
  BY <1>2 DEF IsUpdate
<1> HIDE DEF u, b
<1>5. Joined(u, b, p)
  BY <1>3, <1>4, Joins
<1> HIDE DEF p
<1>6. /\ p \in Seq(Statements) /\ Len(p) = 7
      /\ p[1] = SetTo("jobs", s) /\ p[2] = SetTo("processes", s)
      /\ p[3] = SetTo("runtimes", s)
      /\ p[4] = Max /\ p[5] = Ins("job_status_changed", s, NoName, NoContent)
      /\ p[6] = Max
      /\ p[7] = Note("job_waiting_user") \/ p[7] = Ins(EndEvent[s], s, NoName, NoContent)
  BY <1>2, <1>3, <1>5 DEF Joined, IsUpdate
<1> QED
  BY <1>1, <1>2, <1>6

\* create_job, statement by statement.
LEMMA CreateIs ==
  LET p == Create IN
    /\ p \in Seq(Statements) /\ Len(p) = 15
    /\ p[1] = RowOf("jobs", "created") /\ p[2] = Max /\ p[3] = Note("job_created")
    /\ p[4] = SetTo("jobs", "running") /\ p[5] = SetTo("processes", "running")
    /\ p[6] = SetTo("runtimes", "running")
    /\ p[7] = Max /\ p[8] = Ins("job_status_changed", "running", NoName, NoContent)
    /\ p[9] = RowOf("processes", "running") /\ p[10] = RowOf("runtimes", "running")
    /\ p[11] = Max /\ p[12] = Note("process_started")
    /\ p[13] = Max /\ p[14] = Note("task_agent_runtime_started") /\ p[15] = Start
<1> DEFINE a == Register("jobs", "created")
           b == Log("job_created")
           u == UpdateStatus("running")
           d == Register("processes", "running")
           e == Register("runtimes", "running")
           f == Log("process_started")
           g == Log("task_agent_runtime_started")
           h == Enter
           p1 == a \o b
           p2 == p1 \o u
           p3 == p2 \o d
           p4 == p3 \o e
           p5 == p4 \o f
           p6 == p5 \o g
           p == p6 \o h
<1>1. Create = p
  BY DEF Create
<1>2. /\ Is1(a, RowOf("jobs", "created")) /\ Is1(d, RowOf("processes", "running"))
      /\ Is1(e, RowOf("runtimes", "running")) /\ Is1(h, Start)
  BY PartsAre DEF Tables, Statuses
<1>3. /\ Is2(b, Max, Note("job_created")) /\ Is2(f, Max, Note("process_started"))
      /\ Is2(g, Max, Note("task_agent_runtime_started"))
  BY LogIs DEF EventTypes
<1>4. IsUpdate(u, "running")
  BY UpdateStatusIs DEF Statuses
<1>5. /\ a \in Seq(Statements) /\ b \in Seq(Statements) /\ d \in Seq(Statements)
      /\ e \in Seq(Statements) /\ f \in Seq(Statements) /\ g \in Seq(Statements)
      /\ h \in Seq(Statements) /\ u \in Seq(Statements)
  BY <1>2, <1>3, <1>4 DEF Is1, Is2, IsUpdate
<1> HIDE DEF a, b, d, e, f, g, h, u
<1>6. Joined(a, b, p1) /\ p1 \in Seq(Statements)
  BY <1>5, Joins
<1> HIDE DEF p1
<1>7. Joined(p1, u, p2) /\ p2 \in Seq(Statements)
  BY <1>5, <1>6, Joins
<1> HIDE DEF p2
<1>8. Joined(p2, d, p3) /\ p3 \in Seq(Statements)
  BY <1>5, <1>7, Joins
<1> HIDE DEF p3
<1>9. Joined(p3, e, p4) /\ p4 \in Seq(Statements)
  BY <1>5, <1>8, Joins
<1> HIDE DEF p4
<1>10. Joined(p4, f, p5) /\ p5 \in Seq(Statements)
  BY <1>5, <1>9, Joins
<1> HIDE DEF p5
<1>11. Joined(p5, g, p6) /\ p6 \in Seq(Statements)
  BY <1>5, <1>10, Joins
<1> HIDE DEF p6
<1>12. Joined(p6, h, p) /\ p \in Seq(Statements)
  BY <1>5, <1>11, Joins
<1> HIDE DEF p
<1>13. /\ Len(p2) = 8 /\ p2[1] = RowOf("jobs", "created") /\ p2[2] = Max
       /\ p2[3] = Note("job_created") /\ p2[4] = SetTo("jobs", "running")
       /\ p2[5] = SetTo("processes", "running") /\ p2[6] = SetTo("runtimes", "running")
       /\ p2[7] = Max /\ p2[8] = Ins("job_status_changed", "running", NoName, NoContent)
  BY <1>2, <1>3, <1>4, <1>6, <1>7 DEF Joined, Is1, Is2, IsUpdate
<1>14. /\ Len(p4) = 10 /\ p4[9] = RowOf("processes", "running")
       /\ p4[10] = RowOf("runtimes", "running") /\ \A i \in 1 .. 8 : p4[i] = p2[i]
  BY <1>2, <1>8, <1>9, <1>13 DEF Joined, Is1
<1>15. /\ Len(p6) = 14 /\ p6[11] = Max /\ p6[12] = Note("process_started") /\ p6[13] = Max
       /\ p6[14] = Note("task_agent_runtime_started") /\ \A i \in 1 .. 10 : p6[i] = p4[i]
  BY <1>3, <1>10, <1>11, <1>14 DEF Joined, Is2
<1>16. Len(p) = 15 /\ p[15] = Start /\ \A i \in 1 .. 14 : p[i] = p6[i]
  BY <1>2, <1>12, <1>15 DEF Joined, Is1
<1> QED
  BY <1>1, <1>12, <1>13, <1>14, <1>15, <1>16

\* A checkpoint is written before the event and the row that name it.
LEMMA SaveCheckpointIsNewWork ==
  ASSUME ops \in Nat, clock \in Nat
  PROVE  NewWork(SaveCheckpoint) /\ \A i \in DOMAIN SaveCheckpoint : SaveCheckpoint[i].do # "register"
<1> DEFINE p == SaveCheckpoint
           n == CkptName
           c == New
<1>1. /\ p \in Seq(Statements) /\ Len(p) = 5 /\ DOMAIN p = 1 .. 5
      /\ p[1] = Cut(n, c) /\ p[2] = Fill(n, c)
      /\ p[3] = Max /\ p[4] = Ins("checkpoint_saved", "none", n, c)
      /\ p[5] = Keep(n)
  BY SaveCheckpointIs
<1>2. n \in Names /\ n # NoName /\ c \in Contents /\ c.op = ops + 1 /\ Fits(n, c)
  BY NewFits
<1> HIDE DEF p, n, c
<1> USE DEF Cut, Fill, Max, Ins, Keep
<1>3. \A i \in 1 .. 5 : p[i].do \notin {"set", "register"} /\ ~Tells(p[i])
  BY <1>1 DEF Tells
<1>4. \A i \in 1 .. 5 : /\ Refers(p[i]) <=> i = 4
                        /\ Writes(p[i]) <=> i \in {1, 2}
                        /\ p[i].do = "row" <=> i = 5
  BY <1>1, <1>2 DEF Refers, Writes
<1>5. WritesFirst(p)
  BY <1>1, <1>4 DEF WritesFirst
<1>6. Updates(p, "running") /\ "running" \in Statuses
  BY <1>1, <1>3 DEF Updates, Sets, Statuses
<1>7. \A i \in 1 .. 5 :
         /\ Writes(p[i]) => p[i].name = n /\ p[i].content.op = c.op /\ p[i].content.at = c.at
         /\ Refers(p[i]) => p[i].event.ref = n /\ p[i].event.content = c
  BY <1>1, <1>2, <1>4 DEF Contents
<1>8. \A i \in 1 .. 5 :
         /\ Writes(p[i]) => Fits(p[i].name, p[i].content) /\ OpOf(p[i]) = ops + 1
         /\ Refers(p[i]) => /\ Fits(p[i].event.ref, p[i].event.content)
                            /\ OpOf(p[i]) = ops + 1 /\ i > 2
  <2> SUFFICES ASSUME NEW i \in 1 .. 5
               PROVE  /\ Writes(p[i]) => Fits(p[i].name, p[i].content) /\ OpOf(p[i]) = ops + 1
                      /\ Refers(p[i]) => /\ Fits(p[i].event.ref, p[i].event.content)
                                         /\ OpOf(p[i]) = ops + 1 /\ i > 2
    OBVIOUS
  <2>1. ASSUME Writes(p[i]) PROVE Fits(p[i].name, p[i].content) /\ OpOf(p[i]) = ops + 1
    BY <1>2, <1>7, <2>1 DEF Fits, OpOf
  <2>2. ASSUME Refers(p[i]) PROVE Fits(p[i].event.ref, p[i].event.content) /\ OpOf(p[i]) = ops + 1 /\ i > 2
    BY <1>2, <1>4, <1>7, <2>2 DEF Fits, OpOf
  <2> QED
    BY <2>1, <2>2
<1> QED
  BY <1>1, <1>3, <1>4, <1>5, <1>6, <1>8 DEF NewWork, p

\* User input is written before the event that names it.
LEMMA SubmitInputIsNewWork ==
  ASSUME ops \in Nat, clock \in Nat
  PROVE  NewWork(SubmitInput) /\ \A i \in DOMAIN SubmitInput : SubmitInput[i].do # "register"
<1> DEFINE p == SubmitInput
           n == InputName
           c == New
<1>1. /\ p \in Seq(Statements) /\ Len(p) = 14 /\ DOMAIN p = 1 .. 14
      /\ p[1] = Ask /\ p[2] = Cut(n, c) /\ p[3] = Fill(n, c)
      /\ p[4] = Max /\ p[5] = Ins("user_input_received", "none", n, c)
      /\ p[6] = Ask /\ p[7] = Max /\ p[8] = Note("job_resumed")
      /\ p[9] = SetTo("jobs", "running") /\ p[10] = SetTo("processes", "running")
      /\ p[11] = SetTo("runtimes", "running")
      /\ p[12] = Max /\ p[13] = Ins("job_status_changed", "running", NoName, NoContent)
      /\ p[14] = Start
  BY SubmitInputIs
<1>2. n \in Names /\ n # NoName /\ c \in Contents /\ c.op = ops + 1 /\ Fits(n, c)
  BY NewFits
<1> HIDE DEF p, n, c
<1> USE DEF Cut, Fill, Max, Ins, Note, SetTo, Ask, Start
<1>3. \A i \in 1 .. 14 : /\ p[i].do \notin {"register", "row"}
                         /\ Tells(p[i]) <=> i = 13
                         /\ p[i].do = "set" <=> i \in 9 .. 11
  BY <1>1 DEF Tells
<1>4. \A i \in 1 .. 14 : /\ Refers(p[i]) <=> i = 5
                         /\ Writes(p[i]) <=> i \in {2, 3}
  BY <1>1, <1>2 DEF Refers, Writes
<1>5. WritesFirst(p)
  BY <1>1, <1>3, <1>4 DEF WritesFirst
<1>6. Updates(p, "running") /\ "running" \in Statuses
  BY <1>1, <1>3 DEF Updates, Sets, Statuses, Tables
<1>7. Sets(p[9], "jobs")
  BY <1>1 DEF Sets
<1>8. \A i \in 1 .. 14 :
         /\ Writes(p[i]) => p[i].name = n /\ p[i].content.op = c.op /\ p[i].content.at = c.at
         /\ Refers(p[i]) => p[i].event.ref = n /\ p[i].event.content = c
  BY <1>1, <1>2, <1>4 DEF Contents
<1>9. \A i \in 1 .. 14 :
         /\ Writes(p[i]) => Fits(p[i].name, p[i].content) /\ OpOf(p[i]) = ops + 1
         /\ Refers(p[i]) => /\ Fits(p[i].event.ref, p[i].event.content)
                            /\ OpOf(p[i]) = ops + 1 /\ i > 2
  <2> SUFFICES ASSUME NEW i \in 1 .. 14
               PROVE  /\ Writes(p[i]) => Fits(p[i].name, p[i].content) /\ OpOf(p[i]) = ops + 1
                      /\ Refers(p[i]) => /\ Fits(p[i].event.ref, p[i].event.content)
                                         /\ OpOf(p[i]) = ops + 1 /\ i > 2
    OBVIOUS
  <2>1. ASSUME Writes(p[i]) PROVE Fits(p[i].name, p[i].content) /\ OpOf(p[i]) = ops + 1
    BY <1>2, <1>8, <2>1 DEF Fits, OpOf
  <2>2. ASSUME Refers(p[i]) PROVE Fits(p[i].event.ref, p[i].event.content) /\ OpOf(p[i]) = ops + 1 /\ i > 2
    BY <1>2, <1>4, <1>8, <2>2 DEF Fits, OpOf
  <2> QED
    BY <2>1, <2>2
<1> QED
  BY <1>1, <1>3, <1>5, <1>6, <1>7, <1>9 DEF NewWork, p

\* The end of a loop updates to one status, which its last event may tell again.
LEMMA FinishIsNewWork ==
  ASSUME NEW s \in Endings
  PROVE  NewWork(Finish(s)) /\ \A i \in DOMAIN Finish(s) : Finish(s)[i].do # "register"
<1> DEFINE p == Finish(s)
<1>1. /\ p \in Seq(Statements) /\ Len(p) = 7 /\ DOMAIN p = 1 .. 7 /\ s \in Statuses
      /\ p[1] = SetTo("jobs", s) /\ p[2] = SetTo("processes", s)
      /\ p[3] = SetTo("runtimes", s)
      /\ p[4] = Max /\ p[5] = Ins("job_status_changed", s, NoName, NoContent)
      /\ p[6] = Max
      /\ p[7] = Note("job_waiting_user") \/ p[7] = Ins(EndEvent[s], s, NoName, NoContent)
  BY FinishIs
<1> HIDE DEF p
<1> USE DEF Max, Ins, Note, SetTo
<1>2. s # "none"
  BY <1>1 DEF Statuses, EndEvent
<1>3. \A i \in 1 .. 7 : /\ p[i].do \notin {"register", "row"}
                        /\ Tells(p[i]) => i \in {5, 7} /\ p[i].event.status = s
                        /\ p[i].do = "set" <=> i \in 1 .. 3
                        /\ ~Refers(p[i]) /\ ~Writes(p[i])
  BY <1>1 DEF Tells, Refers, Writes
<1>4. Tells(p[5])
  BY <1>1, <1>2 DEF Tells
<1>5. WritesFirst(p)
  BY <1>1, <1>3 DEF WritesFirst
<1>6. Updates(p, s)
  BY <1>1, <1>3, <1>4 DEF Updates, Sets, Tables
<1>7. Sets(p[1], "jobs")
  BY <1>1 DEF Sets
<1> QED
  BY <1>1, <1>3, <1>5, <1>6, <1>7 DEF NewWork, p

\* create_job and the places of its statements that matter to the columns.
LEMMA CreateIsNewWork ==
  /\ NewWork(Create)
  /\ LET p == Create IN
       /\ Opens(p[14]) /\ p[1].do = "register" /\ p[1].table = "jobs"
       /\ Sets(p[4], "jobs") /\ Tells(p[8])
       /\ p[9].do = "register" /\ p[9].table = "processes"
       /\ p[10].do = "register" /\ p[10].table = "runtimes"
       /\ DOMAIN p = 1 .. 15
       /\ \A i \in 1 .. 15 :
            /\ p[i].do = "register" <=> i \in {1, 9, 10}
            /\ i \in {9, 10} => p[i].status = "running"
            /\ p[i].do = "set" <=> i \in 4 .. 6
            /\ p[i].do = "set" => p[i].status = "running"
            /\ p[i].do = "enter" <=> i = 15
            /\ Tells(p[i]) <=> i = 8
            /\ Tells(p[i]) => p[i].event.status = "running"
            /\ Opens(p[i]) <=> i = 14
<1> DEFINE p == Create
<1>1. /\ p \in Seq(Statements) /\ Len(p) = 15 /\ DOMAIN p = 1 .. 15
      /\ p[1] = RowOf("jobs", "created") /\ p[2] = Max /\ p[3] = Note("job_created")
      /\ p[4] = SetTo("jobs", "running") /\ p[5] = SetTo("processes", "running")
      /\ p[6] = SetTo("runtimes", "running")
      /\ p[7] = Max /\ p[8] = Ins("job_status_changed", "running", NoName, NoContent)
      /\ p[9] = RowOf("processes", "running") /\ p[10] = RowOf("runtimes", "running")
      /\ p[11] = Max /\ p[12] = Note("process_started")
      /\ p[13] = Max /\ p[14] = Note("task_agent_runtime_started") /\ p[15] = Start
  BY CreateIs
<1> HIDE DEF p
<1> USE DEF Max, Ins, Note, SetTo, RowOf, Start
<1>2. \A i \in 1 .. 15 :
        /\ p[i].do = "register" <=> i \in {1, 9, 10}
        /\ p[i].do = "set" <=> i \in 4 .. 6
        /\ p[i].do = "enter" <=> i = 15
        /\ p[i].do # "row"
  BY <1>1
<1>3. \A i \in 1 .. 15 :
        /\ i \in {9, 10} => p[i].status = "running"
        /\ p[i].do = "set" => p[i].status = "running"
        /\ Tells(p[i]) <=> i = 8
        /\ Tells(p[i]) => p[i].event.status = "running"
  BY <1>1 DEF Tells
<1>4. \A i \in 1 .. 15 : ~Refers(p[i]) /\ ~Writes(p[i])
  BY <1>1 DEF Refers, Writes
<1>5. \A i \in 1 .. 15 : Opens(p[i]) <=> i = 14
  BY <1>1 DEF Opens
<1>6. /\ Opens(p[14]) /\ p[1].do = "register" /\ p[1].table = "jobs"
      /\ Sets(p[4], "jobs") /\ Tells(p[8])
      /\ p[9].do = "register" /\ p[9].table = "processes"
      /\ p[10].do = "register" /\ p[10].table = "runtimes"
  BY <1>1, <1>3, <1>5 DEF Sets
<1>7. WritesFirst(p)
  BY <1>1, <1>2, <1>4 DEF WritesFirst
<1>8. Updates(p, "running") /\ "running" \in Statuses
  BY <1>1, <1>2, <1>3 DEF Updates, Sets, Tables, Statuses
<1>9. NewWork(p)
  BY <1>1, <1>2, <1>4, <1>6, <1>7, <1>8 DEF NewWork
<1> QED
  BY <1>1, <1>2, <1>3, <1>5, <1>6, <1>9 DEF p

---------------------------------------------------------------------------
(* Taking up a statement.                                                   *)

\* Taking up the first statement leaves those behind it.
Rest(p, q) == /\ q \in Seq(Statements) /\ Len(p) \in Nat \ {0} /\ Len(q) = Len(p) - 1
              /\ DOMAIN p = 1 .. Len(p) /\ DOMAIN q = 1 .. Len(p) - 1
              /\ p[1] \in Statements
              /\ \A i \in DOMAIN q : i + 1 \in DOMAIN p /\ q[i] = p[i + 1]

\* The tail of a program is its rest.
LEMMA TailIsRest ==
  ASSUME NEW p \in Seq(Statements), p # <<>>
  PROVE  Rest(p, Tail(p)) /\ Head(p) = p[1]
<1>1. Len(p) \in Nat \ {0} /\ DOMAIN p = 1 .. Len(p)
  BY EmptySeq
<1>2. Tail(p) \in Seq(Statements) /\ Len(Tail(p)) = Len(p) - 1
  BY <1>1
<1>3. \A i \in 1 .. Len(p) - 1 : Tail(p)[i] = p[i + 1]
  BY <1>1
<1> QED
  BY <1>1, <1>2, <1>3 DEF Rest

\* A kernel that is done with a statement has the rest to do; no other moves.
LEMMA Advance ==
  ASSUME TypeInv, NEW k \in Kernels, todo[k] # <<>>, Done(k)
  PROVE  /\ todo' \in [Kernels -> Seq(Statements)]
         /\ Rest(todo[k], todo'[k]) /\ Head(todo[k]) = todo[k][1]
         /\ \A m \in Kernels \ {k} : todo'[m] = todo[m]
<1>1. todo \in [Kernels -> Seq(Statements)]
  BY DEF TypeInv
<1>2. Rest(todo[k], Tail(todo[k])) /\ Head(todo[k]) = todo[k][1]
  BY <1>1, TailIsRest
<1>3. Tail(todo[k]) \in Seq(Statements)
  BY <1>2 DEF Rest
<1> QED
  BY <1>1, <1>2, <1>3 DEF Done

\* A kernel that gives an operation up has nothing to do; no other moves.
LEMMA Cleared ==
  ASSUME TypeInv, NEW k \in Kernels, todo' = [todo EXCEPT ![k] = <<>>]
  PROVE  /\ todo' \in [Kernels -> Seq(Statements)] /\ todo'[k] = <<>>
         /\ DOMAIN todo'[k] = {} /\ Len(todo'[k]) = 0
         /\ \A m \in Kernels \ {k} : todo'[m] = todo[m]
<1>1. <<>> \in Seq(Statements) /\ DOMAIN (<<>>) = {} /\ Len(<<>>) = 0
  OBVIOUS
<1>2. todo \in [Kernels -> Seq(Statements)]
  BY DEF TypeInv
<1> QED
  BY <1>1, <1>2

\* The rest of a program still writes before it refers.
LEMMA RestKeepsWritesFirst ==
  ASSUME NEW p, NEW q, Rest(p, q), WritesFirst(p)
  PROVE  WritesFirst(q)
<1> SUFFICES ASSUME NEW i \in DOMAIN q
             PROVE  /\ Writes(q[i]) => \A j \in DOMAIN q : Refers(q[j]) => i < j
                    /\ Refers(q[i]) /\ i > 1 => q[i - 1].do = "max"
                    /\ Refers(q[i]) /\ i > 2 =>
                         q[i - 2] = [do |-> "fill", name |-> q[i].event.ref, content |-> q[i].event.content]
                    /\ q[i].do = "row" /\ i > 1 => q[i - 1].do = "insert" /\ q[i - 1].event.ref = q[i].name
  BY DEF WritesFirst
<1>1. PICK h \in DOMAIN p : h = i + 1 /\ q[i] = p[h] /\ i \in Nat \ {0}
  BY DEF Rest
<1>2. i > 1 => q[i - 1] = p[h - 1]
  BY <1>1 DEF Rest
<1>3. i > 2 => q[i - 2] = p[h - 2]
  BY <1>1 DEF Rest
<1>4. ASSUME Writes(q[i]), NEW j \in DOMAIN q, Refers(q[j]) PROVE i < j
  <2>1. j + 1 \in DOMAIN p /\ q[j] = p[j + 1] /\ j \in Nat
    BY DEF Rest
  <2>2. h < j + 1
    BY <1>1, <1>4, <2>1 DEF WritesFirst
  <2> QED
    BY <1>1, <2>1, <2>2
<1>5. Refers(p[h]) /\ h > 1 => p[h - 1].do = "max"
  BY <1>1 DEF WritesFirst
<1>6. Refers(p[h]) /\ h > 2 =>
        p[h - 2] = [do |-> "fill", name |-> p[h].event.ref, content |-> p[h].event.content]
  BY <1>1 DEF WritesFirst
<1>7. p[h].do = "row" /\ h > 1 => p[h - 1].do = "insert" /\ p[h - 1].event.ref = p[h].name
  BY <1>1 DEF WritesFirst
<1> QED
  BY <1>1, <1>2, <1>3, <1>4, <1>5, <1>6, <1>7

\* The rest of an update still is one to the same status.
LEMMA RestKeepsUpdates ==
  ASSUME NEW p, NEW q, NEW s, Rest(p, q), Updates(p, s)
  PROVE  Updates(q, s)
<1>1. ASSUME NEW i \in DOMAIN q PROVE i + 1 \in DOMAIN p /\ q[i] = p[i + 1] /\ i \in Nat \ {0}
  BY <1>1 DEF Rest
<1>2. ASSUME NEW i \in DOMAIN q, q[i].do = "set"
      PROVE  /\ q[i].status = s
             /\ \A j \in DOMAIN q : Tells(q[j]) => i < j
             /\ \E j \in 1 .. Len(q) - 1 : Tells(q[j])
  <2>1. q[i].status = s /\ \A j \in DOMAIN p : Tells(p[j]) => i + 1 < j
    BY <1>1, <1>2 DEF Updates
  <2>2. PICK j \in 1 .. Len(p) - 1 : Tells(p[j])
    BY <1>1, <1>2 DEF Updates
  <2>3. j \in DOMAIN p /\ i + 1 < j
    BY <2>1, <2>2 DEF Rest
  <2>4. j - 1 \in 1 .. Len(q) - 1 /\ q[j - 1] = p[j]
    BY <2>2, <2>3, <1>1 DEF Rest
  <2>5. ASSUME NEW m \in DOMAIN q, Tells(q[m]) PROVE i < m
    BY <1>1, <2>1, <2>5
  <2> QED
    BY <2>1, <2>2, <2>4, <2>5
<1>3. ASSUME NEW i \in DOMAIN q, Sets(q[i], "jobs"), NEW t \in Tables \ {"jobs"}
      PROVE  \E j \in DOMAIN q : Sets(q[j], t)
  <2>1. PICK j \in DOMAIN p : Sets(p[j], t)
    BY <1>1, <1>3 DEF Updates
  <2>2. i + 1 <= j /\ i + 1 # j
    BY <1>1, <1>3, <2>1 DEF Updates, Sets
  <2>3. j - 1 \in DOMAIN q /\ q[j - 1] = p[j]
    BY <2>1, <2>2, <1>1 DEF Rest
  <2> QED
    BY <2>1, <2>3
<1>4. ASSUME NEW i \in DOMAIN q, Sets(q[i], "jobs"), NEW j \in DOMAIN q, q[j].do = "set"
      PROVE  i <= j
  <2>1. i + 1 <= j + 1
    BY <1>1, <1>4 DEF Updates
  <2> QED
    BY <1>1, <2>1
<1>5. ASSUME NEW i \in DOMAIN q, Tells(q[i]) PROVE q[i].event.status = s
  BY <1>1, <1>5 DEF Updates
<1> QED
  BY <1>2, <1>3, <1>4, <1>5 DEF Updates

---------------------------------------------------------------------------
(* The files behind references, statement by statement.                     *)

\* An operation begins with work of the kinds above.
LEMMA BegunWork ==
  ASSUME ops \in Nat, clock \in Nat, NEW k \in Kernels,
         Turn(k) \/ EndLoop(k) \/ CancelJob(k) \/ UserInput(k)
  PROVE  \E p : /\ Begin(k, p) /\ NewWork(p)
                /\ \A i \in DOMAIN p : p[i].do # "register"
<1>1. CASE Turn(k)
  BY <1>1, SaveCheckpointIsNewWork DEF Turn
<1>2. CASE EndLoop(k)
  BY <1>2, FinishIsNewWork DEF EndLoop
<1>3. CASE CancelJob(k)
  BY <1>3, CancelIsNewWork DEF CancelJob
<1>4. CASE UserInput(k)
  BY <1>4, SubmitInputIsNewWork DEF UserInput
<1> QED
  BY <1>1, <1>2, <1>3, <1>4

\* What a kernel has to do when an operation begins.
LEMMA BegunTodo ==
  ASSUME TypeInv, NEW k \in Kernels, NEW p, Begin(k, p), NewWork(p)
  PROVE  /\ todo[k] = <<>> /\ DOMAIN todo[k] = {}
         /\ todo' \in [Kernels -> Seq(Statements)] /\ todo'[k] = p
         /\ \A m \in Kernels \ {k} : todo'[m] = todo[m]
         /\ ops' = ops + 1
         /\ UNCHANGED <<events, rows, blobs, ckpts, held>>
<1>1. todo \in [Kernels -> Seq(Statements)]
  BY DEF TypeInv
<1>2. todo[k] = <<>> /\ p \in Seq(Statements) /\ todo' = [todo EXCEPT ![k] = p] /\ ops' = ops + 1
      /\ UNCHANGED <<events, rows, blobs, ckpts, held>>
  BY DEF Begin, NewWork, store
<1>3. DOMAIN (<<>>) = {}
  OBVIOUS
<1> QED
  BY <1>1, <1>2, <1>3

\* Kernels stay apart when they only get on with their work.
LEMMA ApartKeeps ==
  ASSUME NEW k \in Kernels, Apart(k),
         \A m \in Kernels : \A j \in DOMAIN todo'[m] :
           \E i \in DOMAIN todo[m] : todo[m][i] = todo'[m][j],
         UNCHANGED events
  PROVE  Apart(k)'
<1> SUFFICES ASSUME NEW i \in DOMAIN todo'[k], Writes(todo'[k][i])
             PROVE  /\ \A e \in DOMAIN events :
                         events[e].ref # NoName => events[e].content.op # OpOf(todo'[k][i])
                    /\ \A m \in Kernels \ {k} : \A j \in DOMAIN todo'[m] :
                         Writes(todo'[m][j]) \/ Refers(todo'[m][j])
                           => OpOf(todo'[m][j]) # OpOf(todo'[k][i])
  BY DEF Apart
<1>1. PICK h \in DOMAIN todo[k] : todo[k][h] = todo'[k][i]
  OBVIOUS
<1>2. ASSUME NEW m \in Kernels \ {k}, NEW j \in DOMAIN todo'[m],
             Writes(todo'[m][j]) \/ Refers(todo'[m][j])
      PROVE  OpOf(todo'[m][j]) # OpOf(todo'[k][i])
  <2>1. PICK g \in DOMAIN todo[m] : todo[m][g] = todo'[m][j]
    BY <1>2
  <2> QED
    BY <1>1, <1>2, <2>1 DEF Apart
<1> QED
  BY <1>1, <1>2 DEF Apart

\* An operation that begins carries a number nothing else carries.
LEMMA RefBegin ==
  ASSUME TypeInv, RefInv, ops \in Nat, NEW k \in Kernels, NEW p, Begin(k, p), NewWork(p)
  PROVE  RefInv'
<1>1. /\ todo[k] = <<>> /\ DOMAIN todo[k] = {} /\ todo'[k] = p
      /\ \A m \in Kernels \ {k} : todo'[m] = todo[m]
      /\ ops' = ops + 1
      /\ UNCHANGED <<events, blobs, ckpts, held>>
  BY BegunTodo
<1>2. \A i \in DOMAIN events : LET e == events[i] IN
        e.ref # NoName => e.content.op <= ops + 1 /\ e.content.op # ops + 1
  <2>1. SUFFICES ASSUME NEW i \in DOMAIN events, events[i].ref # NoName
                 PROVE  events[i].content.op <= ops + 1 /\ events[i].content.op # ops + 1
    OBVIOUS
  <2>2. events[i].content.op <= ops /\ events[i].content.op \in Nat
    BY <2>1 DEF RefInv, TypeInv, Events, Contents
  <2> QED
    BY <2>2
<1>3. \A m \in Kernels : \A j \in DOMAIN todo[m] :
        Writes(todo[m][j]) \/ Refers(todo[m][j]) =>
          OpOf(todo[m][j]) <= ops + 1 /\ OpOf(todo[m][j]) # ops + 1
  <2>1. SUFFICES ASSUME NEW m \in Kernels, NEW j \in DOMAIN todo[m],
                        Writes(todo[m][j]) \/ Refers(todo[m][j])
                 PROVE  OpOf(todo[m][j]) <= ops + 1 /\ OpOf(todo[m][j]) # ops + 1
    OBVIOUS
  <2>2. OpOf(todo[m][j]) <= ops
    BY <2>1 DEF RefInv, Promised
  <2>3. todo[m][j] \in Statements
    BY DEF TypeInv
  <2>4. OpOf(todo[m][j]) \in Nat
    BY <2>1, <2>3 DEF OpOf, Writes, Refers, Statements, Contents, Events
  <2> QED
    BY <2>2, <2>4
<1>4. /\ WritesFirst(p) /\ DOMAIN p \subseteq Nat
      /\ \A i \in DOMAIN p :
           /\ Writes(p[i]) => Fits(p[i].name, p[i].content) /\ OpOf(p[i]) = ops + 1
           /\ Refers(p[i]) => /\ Fits(p[i].event.ref, p[i].event.content)
                              /\ OpOf(p[i]) = ops + 1 /\ i > 2
           /\ p[i].do = "row" => i > 1
  BY DEF NewWork
<1>5. WritesFirst(todo[k])' /\ Apart(k)' /\ Promised(k)'
  <2>1. Apart(k)'
    BY <1>1, <1>2, <1>3, <1>4 DEF Apart
  <2>2. Promised(k)'
    <3> SUFFICES ASSUME NEW i \in DOMAIN p
                 PROVE  /\ Writes(p[i]) => Fits(p[i].name, p[i].content) /\ OpOf(p[i]) <= ops + 1
                        /\ Refers(p[i]) => /\ Fits(p[i].event.ref, p[i].event.content)
                                           /\ OpOf(p[i]) <= ops + 1 /\ ~(i <= 2)
                        /\ p[i].do = "row" => i # 1
      BY <1>1 DEF Promised
    <3> QED
      BY <1>4
  <2> QED
    BY <1>1, <1>4, <2>1, <2>2
<1>6. ASSUME NEW m \in Kernels \ {k} PROVE WritesFirst(todo[m])' /\ Apart(m)' /\ Promised(m)'
  <2>1. WritesFirst(todo[m]) /\ Apart(m) /\ Promised(m)
    BY DEF RefInv
  <2>2. Apart(m)'
    <3> SUFFICES ASSUME NEW i \in DOMAIN todo[m], Writes(todo[m][i])
                 PROVE  /\ \A e \in DOMAIN events :
                             events[e].ref # NoName => events[e].content.op # OpOf(todo[m][i])
                        /\ \A n \in Kernels \ {m} : \A j \in DOMAIN todo'[n] :
                             Writes(todo'[n][j]) \/ Refers(todo'[n][j])
                               => OpOf(todo'[n][j]) # OpOf(todo[m][i])
      BY <1>1 DEF Apart
    <3>1. ASSUME NEW n \in Kernels \ {m}, NEW j \in DOMAIN todo'[n],
                 Writes(todo'[n][j]) \/ Refers(todo'[n][j])
          PROVE  OpOf(todo'[n][j]) # OpOf(todo[m][i])
      <4>1. CASE n = k
        BY <1>1, <1>3, <1>4, <3>1, <4>1
      <4>2. CASE n # k
        BY <1>1, <2>1, <3>1, <4>2 DEF Apart
      <4> QED
        BY <4>1, <4>2
    <3> QED
      BY <2>1, <3>1 DEF Apart
  <2>3. Promised(m)'
    <3> SUFFICES ASSUME NEW i \in DOMAIN todo[m]
                 PROVE  LET s == todo[m][i] IN
                        /\ Writes(s) => Fits(s.name, s.content) /\ OpOf(s) <= ops + 1
                        /\ Refers(s) => /\ Fits(s.event.ref, s.event.content) /\ OpOf(s) <= ops + 1
                                        /\ i <= 2 => Backed(blobs, s.event.ref, s.event.content)
                        /\ s.do = "row" /\ i = 1 =>
                             held[m] \in DOMAIN events /\ events[held[m]].ref = s.name
      BY <1>1 DEF Promised, Backed
    <3> QED
      BY <1>3, <2>1 DEF Promised
  <2> QED
    BY <1>1, <2>1, <2>2, <2>3
<1>7. \A i \in DOMAIN events : LET e == events[i] IN
        e.ref # NoName => Fits(e.ref, e.content) /\ Backed(blobs', e.ref, e.content) /\ e.content.op <= ops + 1
  BY <1>1, <1>2 DEF RefInv, Backed
<1> QED
  BY <1>1, <1>5, <1>6, <1>7 DEF RefInv

\* A statement that neither writes a file nor adds an event.
LEMMA RefSkip ==
  ASSUME TypeInv, RefInv, NEW k \in Kernels, todo[k] # <<>>, Done(k),
         Head(todo[k]).do \notin {"truncate", "fill", "insert"},
         UNCHANGED <<events, blobs, ops>>,
         \A m \in Kernels \ {k} : held'[m] = held[m],
         held'[k] = held[k] \/ Head(todo[k]).do = "max",
         \A c \in ckpts' : c \in ckpts \/ /\ Head(todo[k]).do = "row"
                                          /\ c.name = Head(todo[k]).name /\ c.event = held[k]
  PROVE  RefInv'
<1>1. /\ Rest(todo[k], todo'[k]) /\ Head(todo[k]) = todo[k][1]
      /\ \A m \in Kernels \ {k} : todo'[m] = todo[m]
  BY Advance
<1>2. /\ 1 \in DOMAIN todo[k]
      /\ \A i \in DOMAIN todo'[k] : /\ i \in Nat \ {0} /\ i + 1 \in DOMAIN todo[k]
                                    /\ todo'[k][i] = todo[k][i + 1]
  BY <1>1 DEF Rest
<1>3. \A m \in Kernels : WritesFirst(todo[m]) /\ Apart(m) /\ Promised(m)
  BY DEF RefInv
<1>4. \A m \in Kernels : \A j \in DOMAIN todo'[m] : \E i \in DOMAIN todo[m] : todo[m][i] = todo'[m][j]
  <2> SUFFICES ASSUME NEW m \in Kernels, NEW j \in DOMAIN todo'[m]
               PROVE  \E i \in DOMAIN todo[m] : todo[m][i] = todo'[m][j]
    OBVIOUS
  <2>1. CASE m = k
    BY <1>2, <2>1
  <2>2. CASE m # k
    BY <1>1, <2>2
  <2> QED
    BY <2>1, <2>2
<1>5. \A m \in Kernels : Apart(m)'
  BY <1>3, <1>4, ApartKeeps
<1>6. \A m \in Kernels : WritesFirst(todo[m])'
  BY <1>1, <1>3, RestKeepsWritesFirst
<1>7. ASSUME NEW m \in Kernels \ {k} PROVE Promised(m)'
  BY <1>1, <1>3, <1>7 DEF Promised, Backed
<1>8. Promised(k)'
  <2> SUFFICES ASSUME NEW i \in DOMAIN todo'[k]
               PROVE  LET s == todo'[k][i] IN
                      /\ Writes(s) => Fits(s.name, s.content) /\ OpOf(s) <= ops
                      /\ Refers(s) => /\ Fits(s.event.ref, s.event.content) /\ OpOf(s) <= ops
                                      /\ i <= 2 => Backed(blobs, s.event.ref, s.event.content)
                      /\ s.do = "row" /\ i = 1 =>
                           held'[k] \in DOMAIN events /\ events[held'[k]].ref = s.name
    BY DEF Promised, Backed
  <2> DEFINE s == todo'[k][i]
  <2>1. PICK h \in DOMAIN todo[k] : h = i + 1 /\ s = todo[k][h] /\ i \in Nat \ {0}
    BY <1>2
  <2>2. /\ Writes(s) => Fits(s.name, s.content) /\ OpOf(s) <= ops
        /\ Refers(s) => Fits(s.event.ref, s.event.content) /\ OpOf(s) <= ops
    BY <1>3, <2>1 DEF Promised
  <2>3. ASSUME Refers(s), i <= 2 PROVE Backed(blobs, s.event.ref, s.event.content)
    <3>1. h > 2 => todo[k][h - 2].do = "fill"
      <4>1. WritesFirst(todo[k]) /\ Refers(todo[k][h])
        BY <1>3, <2>1, <2>3
      <4>2. h > 2 => todo[k][h - 2] = [do |-> "fill", name |-> todo[k][h].event.ref,
                                       content |-> todo[k][h].event.content]
        BY <4>1 DEF WritesFirst
      <4> QED
        BY <4>2
    <3>2. h <= 2
      <4>1. h = 3 => todo[k][h - 2].do # "fill"
        BY <1>1
      <4> QED
        BY <2>1, <2>3, <3>1, <4>1
    <3> QED
      BY <1>3, <2>1, <2>3, <3>2 DEF Promised
  <2>4. ~(s.do = "row" /\ i = 1)
    <3>1. s.do = "row" /\ h > 1 => todo[k][h - 1].do = "insert"
      BY <1>3, <2>1 DEF WritesFirst
    <3>2. i = 1 => h - 1 = 1 /\ h > 1
      BY <2>1
    <3> QED
      BY <1>1, <3>1, <3>2
  <2> QED
    BY <2>2, <2>3, <2>4
<1>9. \A c \in ckpts' : c.event \in DOMAIN events /\ events[c.event].ref = c.name
  <2> SUFFICES ASSUME NEW c \in ckpts'
               PROVE  c.event \in DOMAIN events /\ events[c.event].ref = c.name
    OBVIOUS
  <2>1. CASE c \in ckpts
    BY <2>1 DEF RefInv
  <2>2. CASE todo[k][1].do = "row" /\ c.name = todo[k][1].name /\ c.event = held[k]
    BY <1>2, <1>3, <2>2 DEF Promised
  <2> QED
    BY <1>1, <2>1, <2>2
<1>10. \A i \in DOMAIN events : LET e == events[i] IN
        e.ref # NoName => Fits(e.ref, e.content) /\ Backed(blobs', e.ref, e.content) /\ e.content.op <= ops
  BY DEF RefInv, Backed
<1> QED
  BY <1>5, <1>6, <1>7, <1>8, <1>9, <1>10 DEF RefInv

\* An operation ends before its time.
LEMMA RefDrop ==
  ASSUME TypeInv, RefInv, NEW k \in Kernels, todo' = [todo EXCEPT ![k] = <<>>],
         UNCHANGED <<events, blobs, ckpts, held, ops>>
  PROVE  RefInv'
<1>1. /\ todo'[k] = <<>> /\ DOMAIN todo'[k] = {}
      /\ \A m \in Kernels \ {k} : todo'[m] = todo[m]
  BY Cleared
<1>2. \A m \in Kernels : WritesFirst(todo[m]) /\ Apart(m) /\ Promised(m)
  BY DEF RefInv
<1>3. \A m \in Kernels : \A j \in DOMAIN todo'[m] : \E i \in DOMAIN todo[m] : todo[m][i] = todo'[m][j]
  BY <1>1
<1>4. \A m \in Kernels : Apart(m)'
  BY <1>2, <1>3, ApartKeeps
<1>5. WritesFirst(todo[k])' /\ Promised(k)'
  BY <1>1 DEF WritesFirst, Promised
<1>6. \A m \in Kernels \ {k} : WritesFirst(todo[m])' /\ Promised(m)'
  BY <1>1, <1>2 DEF Promised, Backed
<1>7. \A i \in DOMAIN events : LET e == events[i] IN
        e.ref # NoName => Fits(e.ref, e.content) /\ Backed(blobs', e.ref, e.content) /\ e.content.op <= ops
  BY DEF RefInv, Backed
<1> QED
  BY <1>4, <1>5, <1>6, <1>7 DEF RefInv

\* An event enters the log.  What it refers to is there.
LEMMA RefInsert ==
  ASSUME IInv, TypeInv, RefInv, NEW k \in Kernels, Insert(k)
  PROVE  RefInv'
<1> DEFINE e == todo[k][1].event
           n == Count + 1
<1>1. todo[k] # <<>> /\ Done(k) /\ Head(todo[k]).do = "insert"
      /\ UNCHANGED <<rows, blobs, ckpts, held, ops>>
  BY DEF Insert, Doing
<1>2. /\ Rest(todo[k], todo'[k]) /\ Head(todo[k]) = todo[k][1]
      /\ \A m \in Kernels \ {k} : todo'[m] = todo[m]
  BY <1>1, Advance
<1>3. /\ 1 \in DOMAIN todo[k] /\ todo[k][1].do = "insert"
      /\ \A i \in DOMAIN todo'[k] : /\ i \in Nat \ {0} /\ i + 1 \in DOMAIN todo[k]
                                    /\ todo'[k][i] = todo[k][i + 1]
  BY <1>1, <1>2 DEF Rest
<1>4. \A m \in Kernels : WritesFirst(todo[m]) /\ Apart(m) /\ Promised(m)
  BY DEF RefInv
<1>5. /\ held[k] = n /\ n \notin DOMAIN events /\ DOMAIN events' = DOMAIN events \cup {n}
      /\ events'[n] = e
      /\ \A i \in DOMAIN events : events'[i] = events[i]
  BY <1>2, InsertExtends DEF Insert
<1> HIDE DEF n, e
<1>6. e.ref # NoName => Fits(e.ref, e.content) /\ Backed(blobs, e.ref, e.content) /\ e.content.op <= ops
  <2> SUFFICES ASSUME e.ref # NoName
               PROVE  Fits(e.ref, e.content) /\ Backed(blobs, e.ref, e.content) /\ e.content.op <= ops
    OBVIOUS
  <2>1. Refers(todo[k][1]) /\ ~Writes(todo[k][1])
    BY <1>3 DEF Refers, Writes, e
  <2>2. /\ Fits(todo[k][1].event.ref, todo[k][1].event.content)
        /\ OpOf(todo[k][1]) <= ops
        /\ Backed(blobs, todo[k][1].event.ref, todo[k][1].event.content)
    BY <1>3, <1>4, <2>1 DEF Promised
  <2> QED
    BY <2>1, <2>2 DEF OpOf, e
\* Whoever still writes writes for another operation.
<1>7. ASSUME NEW m \in Kernels, NEW i \in DOMAIN todo'[m], Writes(todo'[m][i]), e.ref # NoName
      PROVE  e.content.op # OpOf(todo'[m][i])
  <2>1. Refers(todo[k][1]) /\ OpOf(todo[k][1]) = e.content.op
    BY <1>3, <1>7 DEF Refers, Writes, OpOf, e
  <2>2. CASE m = k
    <3>1. PICK h \in DOMAIN todo[k] : h = i + 1 /\ i \in Nat \ {0} /\ Writes(todo[k][h])
      BY <1>3, <1>7, <2>2
    <3>2. h < 1
      BY <1>3, <1>4, <2>1, <3>1 DEF WritesFirst
    <3> QED
      BY <3>1, <3>2
  <2>3. CASE m # k
    <3>1. i \in DOMAIN todo[m] /\ todo'[m][i] = todo[m][i] /\ Writes(todo[m][i])
      BY <1>2, <1>7, <2>3
    <3>2. OpOf(todo[k][1]) # OpOf(todo[m][i])
      BY <1>3, <1>4, <2>1, <2>3, <3>1 DEF Apart
    <3> QED
      BY <2>1, <3>1, <3>2
  <2> QED
    BY <2>2, <2>3
<1>8. \A m \in Kernels : WritesFirst(todo[m])'
  BY <1>2, <1>4, RestKeepsWritesFirst
<1>9. \A m \in Kernels : \A j \in DOMAIN todo'[m] : \E i \in DOMAIN todo[m] : todo[m][i] = todo'[m][j]
  <2> SUFFICES ASSUME NEW m \in Kernels, NEW j \in DOMAIN todo'[m]
               PROVE  \E i \in DOMAIN todo[m] : todo[m][i] = todo'[m][j]
    OBVIOUS
  <2>1. CASE m = k
    BY <1>3, <2>1
  <2>2. CASE m # k
    BY <1>2, <2>2
  <2> QED
    BY <2>1, <2>2
<1>10. ASSUME NEW m \in Kernels PROVE Apart(m)'
  <2> SUFFICES ASSUME NEW i \in DOMAIN todo'[m], Writes(todo'[m][i])
               PROVE  /\ \A x \in DOMAIN events' :
                           events'[x].ref # NoName => events'[x].content.op # OpOf(todo'[m][i])
                      /\ \A l \in Kernels \ {m} : \A j \in DOMAIN todo'[l] :
                           Writes(todo'[l][j]) \/ Refers(todo'[l][j])
                             => OpOf(todo'[l][j]) # OpOf(todo'[m][i])
    BY DEF Apart
  <2>1. PICK h \in DOMAIN todo[m] : todo[m][h] = todo'[m][i]
    BY <1>9
  <2>2. \A x \in DOMAIN events : events[x].ref # NoName => events[x].content.op # OpOf(todo'[m][i])
    BY <1>4, <2>1 DEF Apart
  <2>3. ASSUME NEW l \in Kernels \ {m}, NEW j \in DOMAIN todo'[l],
               Writes(todo'[l][j]) \/ Refers(todo'[l][j])
        PROVE  OpOf(todo'[l][j]) # OpOf(todo'[m][i])
    <3>1. PICK g \in DOMAIN todo[l] : todo[l][g] = todo'[l][j]
      BY <1>9
    <3> QED
      BY <1>4, <2>1, <2>3, <3>1 DEF Apart
  <2> QED
    BY <1>5, <1>7, <2>2, <2>3
<1>11. ASSUME NEW m \in Kernels \ {k} PROVE Promised(m)'
  <2> SUFFICES ASSUME NEW i \in DOMAIN todo[m]
               PROVE  LET s == todo[m][i] IN
                      /\ Writes(s) => Fits(s.name, s.content) /\ OpOf(s) <= ops
                      /\ Refers(s) => /\ Fits(s.event.ref, s.event.content) /\ OpOf(s) <= ops
                                      /\ i <= 2 => Backed(blobs, s.event.ref, s.event.content)
                      /\ s.do = "row" /\ i = 1 =>
                           held[m] \in DOMAIN events' /\ events'[held[m]].ref = s.name
    BY <1>1, <1>2 DEF Promised, Backed
  <2> QED
    BY <1>4, <1>5 DEF Promised
<1>12. Promised(k)'
  <2> SUFFICES ASSUME NEW i \in DOMAIN todo'[k]
               PROVE  LET s == todo'[k][i] IN
                      /\ Writes(s) => Fits(s.name, s.content) /\ OpOf(s) <= ops
                      /\ Refers(s) => /\ Fits(s.event.ref, s.event.content) /\ OpOf(s) <= ops
                                      /\ i <= 2 => Backed(blobs, s.event.ref, s.event.content)
                      /\ s.do = "row" /\ i = 1 =>
                           held[k] \in DOMAIN events' /\ events'[held[k]].ref = s.name
    BY <1>1 DEF Promised, Backed
  <2> DEFINE s == todo'[k][i]
  <2>1. PICK h \in DOMAIN todo[k] : h = i + 1 /\ s = todo[k][h] /\ i \in Nat \ {0}
    BY <1>3
  <2>2. /\ Writes(s) => Fits(s.name, s.content) /\ OpOf(s) <= ops
        /\ Refers(s) => Fits(s.event.ref, s.event.content) /\ OpOf(s) <= ops
    BY <1>4, <2>1 DEF Promised
  <2>3. ASSUME Refers(s), i <= 2 PROVE Backed(blobs, s.event.ref, s.event.content)
    <3>1. WritesFirst(todo[k]) /\ Refers(todo[k][h])
      BY <1>4, <2>1, <2>3
    <3>2. h > 2 => todo[k][h - 2] = [do |-> "fill", name |-> todo[k][h].event.ref,
                                     content |-> todo[k][h].event.content]
      BY <3>1 DEF WritesFirst
    <3>3. h = 3 => h - 2 = 1 /\ h > 2
      OBVIOUS
    <3>4. h # 3
      BY <1>3, <3>2, <3>3
    <3>5. h <= 2
      BY <2>1, <2>3, <3>4
    <3> QED
      BY <1>4, <2>1, <2>3, <3>5 DEF Promised
  <2>4. ASSUME s.do = "row", i = 1
        PROVE  held[k] \in DOMAIN events' /\ events'[held[k]].ref = s.name
    <3>1. WritesFirst(todo[k]) /\ h - 1 = 1 /\ h > 1
      BY <1>4, <2>1, <2>4
    <3>2. todo[k][1].event.ref = s.name
      BY <2>1, <2>4, <3>1 DEF WritesFirst
    <3> QED
      BY <1>5, <3>2 DEF e
  <2> QED
    BY <2>2, <2>3, <2>4
<1>13. \A i \in DOMAIN events' : LET x == events'[i] IN
         x.ref # NoName => Fits(x.ref, x.content) /\ Backed(blobs', x.ref, x.content) /\ x.content.op <= ops
  BY <1>1, <1>5, <1>6 DEF RefInv, Backed
<1>14. \A c \in ckpts : c.event \in DOMAIN events' /\ events'[c.event].ref = c.name
  BY <1>5 DEF RefInv
<1> QED
  BY <1>1, <1>8, <1>10, <1>11, <1>12, <1>13, <1>14 DEF RefInv

\* A file is truncated or filled.
LEMMA RefWrite ==
  ASSUME TypeInv, RefInv, NEW k \in Kernels, WriteBlob(k)
  PROVE  RefInv'
<1> DEFINE w == todo[k][1]
<1>1. /\ todo[k] # <<>> /\ Done(k) /\ Head(todo[k]).do \in {"truncate", "fill"}
      /\ UNCHANGED <<events, ckpts, held, ops>>
  BY DEF WriteBlob, Doing
<1>2. /\ Rest(todo[k], todo'[k]) /\ Head(todo[k]) = w
      /\ \A m \in Kernels \ {k} : todo'[m] = todo[m]
  BY <1>1, Advance
<1>3. /\ 1 \in DOMAIN todo[k] /\ w.do \in {"truncate", "fill"}
      /\ \A i \in DOMAIN todo'[k] : /\ i \in Nat \ {0} /\ i + 1 \in DOMAIN todo[k]
                                    /\ todo'[k][i] = todo[k][i + 1]
  BY <1>1, <1>2 DEF Rest
<1>4. \A m \in Kernels : WritesFirst(todo[m]) /\ Apart(m) /\ Promised(m)
  BY DEF RefInv
<1>5. blobs' = [n \in DOMAIN blobs \cup {w.name} |-> IF n = w.name THEN w.content ELSE blobs[n]]
  BY <1>2 DEF WriteBlob
<1>6. Writes(w) /\ OpOf(w) = w.content.op
  BY <1>3 DEF Writes, OpOf
<1>7. Fits(w.name, w.content)
  BY <1>3, <1>4, <1>6 DEF Promised
<1> HIDE DEF w
<1>8. ASSUME NEW n, NEW c, Backed(blobs, n, c), c.op # w.content.op PROVE Backed(blobs', n, c)
  BY <1>5, <1>8 DEF Backed
<1>9. \A m \in Kernels : \A j \in DOMAIN todo'[m] : \E i \in DOMAIN todo[m] : todo[m][i] = todo'[m][j]
  <2> SUFFICES ASSUME NEW m \in Kernels, NEW j \in DOMAIN todo'[m]
               PROVE  \E i \in DOMAIN todo[m] : todo[m][i] = todo'[m][j]
    OBVIOUS
  <2>1. CASE m = k
    BY <1>3, <2>1
  <2>2. CASE m # k
    BY <1>2, <2>2
  <2> QED
    BY <2>1, <2>2
<1>10. \A m \in Kernels : Apart(m)'
  BY <1>1, <1>4, <1>9, ApartKeeps
<1>11. \A m \in Kernels : WritesFirst(todo[m])'
  BY <1>2, <1>4, RestKeepsWritesFirst
<1>12. ASSUME NEW m \in Kernels \ {k} PROVE Promised(m)'
  <2> SUFFICES ASSUME NEW i \in DOMAIN todo[m], Refers(todo[m][i]), i <= 2
               PROVE  Backed(blobs', todo[m][i].event.ref, todo[m][i].event.content)
    <3>1. Promised(m)
      BY <1>4
    <3> QED
      BY <1>1, <1>2, <3>1 DEF Promised
  <2>1. Backed(blobs, todo[m][i].event.ref, todo[m][i].event.content)
    BY <1>4 DEF Promised
  <2>2. OpOf(todo[m][i]) = todo[m][i].event.content.op
    BY DEF OpOf, Writes, Refers
  <2>3. OpOf(todo[m][i]) # OpOf(w)
    BY <1>3, <1>4, <1>6 DEF Apart, w
  <2> QED
    BY <1>2, <1>6, <1>8, <2>1, <2>2, <2>3
<1>13. Promised(k)'
  <2> SUFFICES ASSUME NEW i \in DOMAIN todo'[k]
               PROVE  LET s == todo'[k][i] IN
                      /\ Writes(s) => Fits(s.name, s.content) /\ OpOf(s) <= ops
                      /\ Refers(s) => /\ Fits(s.event.ref, s.event.content) /\ OpOf(s) <= ops
                                      /\ i <= 2 => Backed(blobs', s.event.ref, s.event.content)
                      /\ ~(s.do = "row" /\ i = 1)
    BY <1>1 DEF Promised, Backed
  <2> DEFINE s == todo'[k][i]
  <2>1. PICK h \in DOMAIN todo[k] : h = i + 1 /\ s = todo[k][h] /\ i \in Nat \ {0}
    BY <1>3
  <2>2. /\ Writes(s) => Fits(s.name, s.content) /\ OpOf(s) <= ops
        /\ Refers(s) => Fits(s.event.ref, s.event.content) /\ OpOf(s) <= ops
    BY <1>4, <2>1 DEF Promised
  <2>3. ASSUME Refers(s), i <= 2 PROVE Backed(blobs', s.event.ref, s.event.content)
    <3>1. WritesFirst(todo[k]) /\ Refers(todo[k][h])
      BY <1>4, <2>1, <2>3
    <3>2. h > 1 => todo[k][h - 1].do = "max"
      BY <3>1 DEF WritesFirst
    <3>3. h # 2
      <4>1. h = 2 => h - 1 = 1 /\ h > 1
        OBVIOUS
      <4> QED
        BY <1>3, <3>2, <4>1 DEF w
    <3>4. h = 3
      BY <2>1, <2>3, <3>3
    <3>5. h > 2 => todo[k][h - 2] = [do |-> "fill", name |-> s.event.ref, content |-> s.event.content]
      BY <2>1, <3>1 DEF WritesFirst
    <3>6. w = [do |-> "fill", name |-> s.event.ref, content |-> s.event.content]
      <4>1. h - 2 = 1 /\ h > 2
        BY <3>4
      <4> QED
        BY <3>5, <4>1 DEF w
    <3>7. w.name = s.event.ref /\ w.content = s.event.content
      BY <3>6
    <3> QED
      BY <1>5, <3>7 DEF Backed
  <2>4. ~(s.do = "row" /\ i = 1)
    <3>1. WritesFirst(todo[k])
      BY <1>4
    <3>2. s.do = "row" /\ h > 1 => todo[k][h - 1].do = "insert"
      BY <2>1, <3>1 DEF WritesFirst
    <3>3. i = 1 => h - 1 = 1 /\ h > 1
      BY <2>1
    <3> QED
      BY <1>3, <3>2, <3>3 DEF w
  <2> QED
    BY <2>2, <2>3, <2>4
<1>14. \A i \in DOMAIN events : LET x == events[i] IN
         x.ref # NoName => Fits(x.ref, x.content) /\ Backed(blobs', x.ref, x.content) /\ x.content.op <= ops
  <2> SUFFICES ASSUME NEW i \in DOMAIN events, events[i].ref # NoName
               PROVE  LET x == events[i] IN
                      Fits(x.ref, x.content) /\ Backed(blobs', x.ref, x.content) /\ x.content.op <= ops
    OBVIOUS
  <2>1. events[i].content.op # OpOf(w)
    BY <1>3, <1>4, <1>6 DEF Apart, w
  <2>2. LET x == events[i] IN
        Fits(x.ref, x.content) /\ Backed(blobs, x.ref, x.content) /\ x.content.op <= ops
    BY DEF RefInv
  <2> QED
    BY <1>6, <1>8, <2>1, <2>2
<1>15. \A n \in DOMAIN blobs' : Fits(n, blobs'[n])
  BY <1>5, <1>7 DEF RefInv
<1> QED
  BY <1>1, <1>10, <1>11, <1>12, <1>13, <1>14, <1>15 DEF RefInv

---------------------------------------------------------------------------
(* Types and references in every state.                                     *)

\* Initially nothing is stored and nothing is to be done.
LEMMA InitTypeInv == Init => TypeInv
<1> SUFFICES ASSUME Init PROVE TypeInv
  OBVIOUS
<1>1. todo \in [Kernels -> Seq(Statements)]
  <2>1. <<>> \in Seq(Statements)
    OBVIOUS
  <2> QED
    BY <2>1 DEF Init
<1>2. DOMAIN events = {}
  BY DEF Init
<1> QED
  BY <1>1, <1>2 DEF Init, TypeInv, Tables

\* What begins is made of statements, and what is left of it is.
LEMMA StepTypeInv == IInv /\ TypeInv /\ [Next]_vars => TypeInv'
<1> SUFFICES ASSUME IInv, TypeInv, [Next]_vars PROVE TypeInv'
  OBVIOUS
<1> USE DEF store, clients
<1>1. /\ todo \in [Kernels -> Seq(Statements)] /\ looping \in [Kernels -> BOOLEAN]
      /\ rows \in [Tables -> Statuses \cup {"none"}]
      /\ \A i \in DOMAIN events : events[i] \in Events
      /\ clean \in BOOLEAN /\ ops \in Nat /\ clock \in Nat
  BY DEF TypeInv, IInv, TypeOK
<1>2. clean' \in BOOLEAN
  <2>1. CASE UNCHANGED vars
    BY <1>1, <2>1 DEF vars
  <2>2. CASE Next
    BY <2>2 DEF Next, Watch
  <2> QED
    BY <2>1, <2>2
<1>3. ASSUME todo' \in [Kernels -> Seq(Statements)], looping' \in [Kernels -> BOOLEAN],
             rows' \in [Tables -> Statuses \cup {"none"}], UNCHANGED events
      PROVE  TypeInv'
  BY <1>1, <1>2, <1>3 DEF TypeInv
<1>4. ASSUME NEW k \in Kernels, Turn(k) \/ EndLoop(k) \/ CancelJob(k) \/ UserInput(k) PROVE TypeInv'
  <2>1. PICK p : Begin(k, p) /\ NewWork(p)
    BY <1>1, <1>4, BegunWork
  <2>2. todo' \in [Kernels -> Seq(Statements)] /\ UNCHANGED <<events, rows>>
    BY <2>1, BegunTodo
  <2>3. looping' \in [Kernels -> BOOLEAN]
    BY <1>1, <1>4 DEF Turn, EndLoop, CancelJob, UserInput
  <2> QED
    BY <1>1, <1>3, <2>2, <2>3
<1>5. ASSUME CreateJob PROVE TypeInv'
  <2>1. Worker \in Kernels /\ Begin(Worker, Create) /\ looping' = looping
    BY <1>5 DEF CreateJob, Kernels
  <2>2. todo' \in [Kernels -> Seq(Statements)] /\ UNCHANGED <<events, rows>>
    BY <2>1, BegunTodo, CreateIsNewWork
  <2> QED
    BY <1>1, <1>3, <2>1, <2>2
<1>6. ASSUME NEW k \in Kernels, todo[k] # <<>>, Done(k) PROVE todo' \in [Kernels -> Seq(Statements)]
  BY <1>6, Advance
<1>7. ASSUME NEW k \in Kernels, todo' = [todo EXCEPT ![k] = <<>>] PROVE todo' \in [Kernels -> Seq(Statements)]
  BY <1>7, Cleared
<1>8. ASSUME NEW k \in Kernels, todo[k] # <<>>
      PROVE  Head(todo[k]) = todo[k][1] /\ todo[k][1] \in Statements
  BY <1>1, <1>8, TailIsRest DEF Rest
<1>9. ASSUME NEW k \in Kernels, Insert(k) PROVE TypeInv'
  <2>1. /\ todo[k] # <<>> /\ Done(k) /\ todo[k][1] \in Statements /\ Head(todo[k]) = todo[k][1]
        /\ todo[k][1].do = "insert"
    BY <1>8, <1>9 DEF Insert, Doing
  <2>2. todo[k][1].event \in Events
    BY <2>1 DEF Statements
  <2>3. events' = [i \in DOMAIN events \cup {held[k]} |->
                     IF i = held[k] THEN todo[k][1].event ELSE events[i]]
    BY <1>9, <2>1 DEF Insert
  <2>4. \A i \in DOMAIN events' : events'[i] \in Events
    BY <1>1, <2>2, <2>3
  <2> QED
    BY <1>1, <1>2, <1>6, <1>9, <2>1, <2>4 DEF Insert, TypeInv
<1>10. ASSUME NEW k \in Kernels, SetStatus(k) PROVE TypeInv'
  <2>1. /\ todo[k] # <<>> /\ Done(k) /\ todo[k][1] \in Statements /\ Head(todo[k]) = todo[k][1]
        /\ todo[k][1].do = "set"
    BY <1>8, <1>10 DEF SetStatus, Doing
  <2>2. todo[k][1].table \in Tables /\ todo[k][1].status \in Statuses
    BY <2>1 DEF Statements
  <2>3. rows' \in [Tables -> Statuses \cup {"none"}]
    BY <1>1, <1>10, <2>1, <2>2 DEF SetStatus
  <2> QED
    BY <1>1, <1>3, <1>6, <1>10, <2>1, <2>3 DEF SetStatus
<1>11. ASSUME NEW k \in Kernels, RegisterRow(k) PROVE TypeInv'
  <2>1. /\ todo[k] # <<>> /\ Done(k) /\ todo[k][1] \in Statements /\ Head(todo[k]) = todo[k][1]
        /\ todo[k][1].do = "register"
    BY <1>8, <1>11 DEF RegisterRow, Doing
  <2>2. todo[k][1].table \in Tables /\ todo[k][1].status \in Statuses
    BY <2>1 DEF Statements
  <2>3. rows' \in [Tables -> Statuses \cup {"none"}]
    BY <1>1, <1>11, <2>1, <2>2 DEF RegisterRow
  <2> QED
    BY <1>1, <1>3, <1>6, <1>11, <2>1, <2>3 DEF RegisterRow
<1>12. ASSUME NEW k \in Kernels, SelectMax(k) \/ WriteBlob(k) \/ EnterLoop(k) PROVE TypeInv'
  <2>1. todo[k] # <<>> /\ Done(k) /\ UNCHANGED <<events, rows>> /\ looping' \in [Kernels -> BOOLEAN]
    BY <1>1, <1>12 DEF SelectMax, WriteBlob, EnterLoop, Doing
  <2> QED
    BY <1>1, <1>3, <1>6, <2>1
<1>13. ASSUME NEW k \in Kernels, InsertCheckpoint(k) PROVE TypeInv'
  <2>1. todo[k] # <<>> /\ Done(k) /\ UNCHANGED <<events, rows>>
    BY <1>13 DEF InsertCheckpoint, Doing
  <2>2. looping' = looping \/ looping' = [looping EXCEPT ![k] = FALSE]
    BY <1>13 DEF InsertCheckpoint
  <2> QED
    BY <1>1, <1>3, <1>6, <2>1, <2>2
<1>14. ASSUME NEW k \in Kernels, RefuseTerminal(k) PROVE TypeInv'
  <2>1. todo[k] # <<>> /\ UNCHANGED <<events, rows, looping>>
    BY <1>14 DEF RefuseTerminal, Doing
  <2>2. Done(k) \/ todo' = [todo EXCEPT ![k] = <<>>]
    BY <1>14 DEF RefuseTerminal
  <2> QED
    BY <1>1, <1>3, <1>6, <1>7, <2>1, <2>2
<1>15. ASSUME NEW k \in Kernels, Conflict(k) \/ Abort(k) PROVE TypeInv'
  <2>1. /\ UNCHANGED <<events, rows>> /\ todo' = [todo EXCEPT ![k] = <<>>]
        /\ looping' = [looping EXCEPT ![k] = FALSE]
    BY <1>15 DEF Conflict, Abort
  <2> QED
    BY <1>1, <1>3, <1>7, <2>1
<1>16. ASSUME UNCHANGED <<todo, looping, rows, events>> PROVE TypeInv'
  BY <1>1, <1>3, <1>16
<1>17. CASE UNCHANGED vars
  BY <1>16, <1>17 DEF vars
<1>18. CASE Next
  <2>1. Step
    BY <1>18 DEF Next
  <2>2. CASE Tick
    BY <1>16, <2>2 DEF Tick
  <2>3. CASE \E r \in Readers : StreamEvents(r)
    BY <1>16, <2>3 DEF StreamEvents
  <2> QED
    BY <1>4, <1>5, <1>9, <1>10, <1>11, <1>12, <1>13, <1>14, <1>15, <2>1, <2>2, <2>3
       DEF Step, Statement, Kernels
<1> QED
  BY <1>17, <1>18

\* Initially there is neither a reference nor anything to write.
LEMMA InitRefInv == Init => RefInv
<1> SUFFICES ASSUME Init PROVE RefInv
  OBVIOUS
<1>1. DOMAIN events = {} /\ DOMAIN blobs = {} /\ ckpts = {} /\ \A k \in Kernels : DOMAIN todo[k] = {}
  BY DEF Init
<1> QED
  BY <1>1 DEF RefInv, WritesFirst, Apart, Promised

\* No statement leaves a reference without its file.
LEMMA StepRefInv == IInv /\ TypeInv /\ RefInv /\ [Next]_vars => RefInv'
<1> SUFFICES ASSUME IInv, TypeInv, RefInv, [Next]_vars PROVE RefInv'
  OBVIOUS
<1> USE DEF store, clients
<1>1. ops \in Nat /\ clock \in Nat /\ held \in [Kernels -> Nat]
  BY DEF IInv, TypeOK
<1>2. ASSUME NEW k \in Kernels, Turn(k) \/ EndLoop(k) \/ CancelJob(k) \/ UserInput(k) PROVE RefInv'
  BY <1>1, <1>2, BegunWork, RefBegin
<1>3. ASSUME CreateJob PROVE RefInv'
  BY <1>1, <1>3, CreateIsNewWork, RefBegin DEF CreateJob, Kernels
<1>4. ASSUME NEW k \in Kernels,
             SelectMax(k) \/ SetStatus(k) \/ RegisterRow(k) \/ EnterLoop(k) \/ InsertCheckpoint(k)
               \/ (RefuseTerminal(k) /\ Done(k))
      PROVE  RefInv'
  <2>1. /\ todo[k] # <<>> /\ Done(k) /\ Head(todo[k]).do \notin {"truncate", "fill", "insert"}
        /\ UNCHANGED <<events, blobs, ops>>
    BY <1>4 DEF SelectMax, SetStatus, RegisterRow, EnterLoop, InsertCheckpoint, RefuseTerminal, Doing
  <2>2. /\ \A m \in Kernels \ {k} : held'[m] = held[m]
        /\ held'[k] = held[k] \/ Head(todo[k]).do = "max"
    BY <1>1, <1>4 DEF SelectMax, SetStatus, RegisterRow, EnterLoop, InsertCheckpoint, RefuseTerminal, Doing
  <2>3. \A c \in ckpts' : c \in ckpts \/ /\ Head(todo[k]).do = "row"
                                         /\ c.name = Head(todo[k]).name /\ c.event = held[k]
    BY <1>4 DEF SelectMax, SetStatus, RegisterRow, EnterLoop, InsertCheckpoint, RefuseTerminal, Doing
  <2> QED
    BY <2>1, <2>2, <2>3, RefSkip
<1>5. ASSUME NEW k \in Kernels,
             Conflict(k) \/ Abort(k) \/ (RefuseTerminal(k) /\ todo' = [todo EXCEPT ![k] = <<>>])
      PROVE  RefInv'
  <2>1. todo' = [todo EXCEPT ![k] = <<>>] /\ UNCHANGED <<events, blobs, ckpts, held, ops>>
    BY <1>5 DEF Conflict, Abort, RefuseTerminal
  <2> QED
    BY <2>1, RefDrop
<1>6. ASSUME UNCHANGED <<events, blobs, ckpts, todo, held, ops>> PROVE RefInv'
  BY <1>6 DEF RefInv, Apart, Promised
<1>7. CASE UNCHANGED vars
  BY <1>6, <1>7 DEF vars
<1>8. CASE Next
  <2>1. Step
    BY <1>8 DEF Next
  <2>2. CASE Tick
    BY <1>6, <2>2 DEF Tick
  <2>3. CASE \E r \in Readers : StreamEvents(r)
    BY <1>6, <2>3 DEF StreamEvents
  <2>4. ASSUME NEW k \in Kernels, Insert(k) \/ WriteBlob(k) PROVE RefInv'
    BY <2>4, RefInsert, RefWrite
  <2>5. ASSUME NEW k \in Kernels, RefuseTerminal(k)
        PROVE  Done(k) \/ todo' = [todo EXCEPT ![k] = <<>>]
    BY <2>5 DEF RefuseTerminal
  <2> QED
    BY <1>2, <1>3, <1>4, <1>5, <2>1, <2>2, <2>3, <2>4, <2>5 DEF Step, Statement, Kernels
<1> QED
  BY <1>7, <1>8

\* Every statement, event and column has the type it is meant to have.
LEMMA TypesHold == Spec => []TypeInv
  BY InitTypeInv, StepTypeInv, InductiveInvariant, PTL DEF Spec

\* What the log or a kernel refers to is written, or k still writes it first.
THEOREM ReferencesKept == Spec => []RefInv
  BY InitRefInv, StepRefInv, InductiveInvariant, TypesHold, PTL DEF Spec

\* The file behind a reference of the log is the one recorded, or one a later
\* write to the same name left there; a checkpoint row has its event.
THEOREM ReferencesAreBacked == Spec => []RefsAreBacked
<1>1. RefInv => RefsAreBacked
  <2> SUFFICES ASSUME RefInv, NEW i \in DOMAIN events, events[i].ref # NoName
               PROVE  /\ events[i].ref \in DOMAIN blobs
                      /\ \/ blobs[events[i].ref] = events[i].content
                         \/ /\ blobs[events[i].ref].op # events[i].content.op
                            /\ \/ events[i].ref = InputName
                               \/ blobs[events[i].ref].at = events[i].content.at
    BY DEF RefsAreBacked, RefInv
  <2> DEFINE n == events[i].ref
  <2>1. Fits(n, events[i].content) /\ Backed(blobs, n, events[i].content)
    BY DEF RefInv
  <2>2. n \in DOMAIN blobs /\ Fits(n, blobs[n])
    BY <2>1 DEF RefInv, Backed
  <2>3. n = InputName \/ blobs[n].at = events[i].content.at
    BY <2>1, <2>2 DEF Fits
  <2> QED
    BY <2>1, <2>2, <2>3 DEF Backed
<1> QED
  BY <1>1, ReferencesKept, PTL

---------------------------------------------------------------------------
(* The status columns, statement by statement.                              *)

\* An event changes the status that replay derives if it tells one.
LEMMA ReplayedAfterInsert ==
  ASSUME IInv, TypeInv, RowInv, NEW k \in Kernels, Insert(k)
  PROVE  LET e == todo[k][1] IN
         /\ Replayed' = (IF Tells(e) THEN e.event.status ELSE Replayed)
         /\ (Telling = {} \/ \E i \in Telling : \A j \in Telling : j <= i)'
         /\ Created' <=> Created \/ Opens(e)
<1> DEFINE e == todo[k][1]
           n == Count + 1
<1>1. todo[k] # <<>> /\ Done(k) /\ Head(todo[k]).do = "insert"
  BY DEF Insert, Doing
<1>2. Head(todo[k]) = e /\ e.do = "insert"
  BY <1>1, Advance
<1>3. /\ DOMAIN events = 1 .. Count /\ Count \in Nat
      /\ DOMAIN events' = 1 .. n
      /\ events'[n] = e.event
      /\ \A i \in 1 .. Count : events'[i] = events[i]
  <2>1. DOMAIN events = 1 .. Count /\ Count \in Nat
    BY DEF IInv, TypeOK, HeldIsNext
  <2>2. held[k] = n /\ DOMAIN events' = 1 .. n /\ \A i \in 1 .. Count : events'[i] = events[i]
    BY InsertExtends
  <2>3. events'[n] = e.event
    BY <1>2, <2>2 DEF Insert
  <2> QED
    BY <2>1, <2>2, <2>3
<1>4. Tells(e) <=> e.event.status # "none"
  BY <1>2 DEF Tells
<1>5. Opens(e) <=> e.event.type = "task_agent_runtime_started"
  BY <1>2 DEF Opens
<1> HIDE DEF e, n
<1>6. n = Count + 1
  BY DEF n
<1>7. Telling \subseteq 1 .. Count
  BY <1>3 DEF Telling
<1>8. CASE Tells(e)
  <2>1. Telling' = Telling \cup {n}
    BY <1>3, <1>4, <1>6, <1>8 DEF Telling
  <2>2. \A j \in Telling' : j <= n
    BY <1>3, <1>6, <1>7, <2>1
  <2>3. \A i \in Telling' : (\A j \in Telling' : j <= i) => i = n
    BY <1>3, <1>6, <1>7, <2>1
  <2>4. (CHOOSE i \in Telling' : \A j \in Telling' : j <= i) = n
    <3> DEFINE T == Telling'
    <3> HIDE DEF T
    <3>1. n \in T /\ (\A j \in T : j <= n) /\ \A i \in T : (\A j \in T : j <= i) => i = n
      BY <2>1, <2>2, <2>3 DEF T
    <3>2. (CHOOSE i \in T : \A j \in T : j <= i) = n
      BY <3>1
    <3> QED
      BY <3>2 DEF T
  <2>5. Replayed' = e.event.status
    BY <1>3, <2>1, <2>4 DEF Replayed
  <2>6. \E i \in Telling' : \A j \in Telling' : j <= i
    BY <2>1, <2>2
  <2>7. Created' <=> Created \/ Opens(e)
    BY <1>3, <1>5, <1>6 DEF Created
  <2> QED
    BY <1>8, <2>5, <2>6, <2>7 DEF e
<1>9. CASE ~Tells(e)
  <2>1. Telling' = Telling
    BY <1>3, <1>4, <1>6, <1>9 DEF Telling
  <2>2. Replayed' = Replayed
    <3>1. CASE Telling = {}
      BY <2>1, <3>1 DEF Replayed
    <3>2. CASE Telling # {}
      <4> DEFINE m == CHOOSE i \in Telling : \A j \in Telling : j <= i
      <4>1. m \in Telling
        BY <3>2 DEF RowInv
      <4>2. m \in 1 .. Count
        BY <1>7, <4>1
      <4> HIDE DEF m
      <4>3. Replayed = events[m].status /\ Replayed' = events'[m].status
        BY <2>1, <3>2 DEF Replayed, m
      <4> QED
        BY <1>3, <4>2, <4>3
    <3> QED
      BY <3>1, <3>2
  <2>3. (Telling = {} \/ \E i \in Telling : \A j \in Telling : j <= i)'
    BY <2>1 DEF RowInv
  <2>4. Created' <=> Created \/ Opens(e)
    BY <1>3, <1>5, <1>6 DEF Created
  <2> QED
    BY <1>9, <2>2, <2>3, <2>4 DEF e
<1> QED
  BY <1>8, <1>9

\* What replay derives depends on the log alone.
LEMMA SameLog ==
  ASSUME UNCHANGED events
  PROVE  Replayed' = Replayed /\ Telling' = Telling /\ (Created' <=> Created)
  BY DEF Replayed, Telling, Created

\* Between the first column and the last event, in terms of what is left to do.
Mid(p) == (\E i \in DOMAIN p : Tells(p[i])) /\ ~ \E i \in DOMAIN p : Sets(p[i], "jobs")

\* A kernel is updating when its program is in the middle of an update.
LEMMA UpdatingIsMid ==
  ASSUME NEW k \in Kernels
  PROVE  (Updating(k) <=> Mid(todo[k])) /\ (Updating(k)' <=> Mid(todo'[k]))
  BY DEF Updating, Mid, Tells, Sets

\* A statement that neither sets nor tells a status does not change that.
LEMMA RestKeepsMid ==
  ASSUME NEW p, NEW q, Rest(p, q), p[1].do # "set", ~Tells(p[1])
  PROVE  /\ Mid(q) <=> Mid(p)
         /\ \A t : (\E j \in DOMAIN q : Sets(q[j], t)) <=> (\E j \in DOMAIN p : Sets(p[j], t))
         /\ (\E j \in 1 .. Len(q) - 1 : Tells(q[j])) <=> (\E j \in 1 .. Len(p) - 1 : Tells(p[j]))
         /\ \A i \in DOMAIN q : \E j \in DOMAIN p : q[i] = p[j]
<1>1. \A i \in DOMAIN q : i + 1 \in DOMAIN p /\ q[i] = p[i + 1]
  BY DEF Rest
<1>2. \A j \in DOMAIN p : j # 1 => j - 1 \in DOMAIN q /\ q[j - 1] = p[j]
  BY DEF Rest
<1>3. \A t : (\E j \in DOMAIN q : Sets(q[j], t)) <=> (\E j \in DOMAIN p : Sets(p[j], t))
  BY <1>1, <1>2 DEF Sets
<1>4. (\E j \in DOMAIN q : Tells(q[j])) <=> (\E j \in DOMAIN p : Tells(p[j]))
  BY <1>1, <1>2
<1>5. (\E j \in 1 .. Len(q) - 1 : Tells(q[j])) <=> (\E j \in 1 .. Len(p) - 1 : Tells(p[j]))
  <2>1. ASSUME NEW j \in 1 .. Len(q) - 1, Tells(q[j]) PROVE \E i \in 1 .. Len(p) - 1 : Tells(p[i])
    <3>1. j + 1 \in 1 .. Len(p) - 1 /\ q[j] = p[j + 1]
      BY <2>1 DEF Rest
    <3> QED
      BY <2>1, <3>1
  <2>2. ASSUME NEW j \in 1 .. Len(p) - 1, Tells(p[j]) PROVE \E i \in 1 .. Len(q) - 1 : Tells(q[i])
    <3>1. j # 1
      BY <2>2
    <3>2. j - 1 \in 1 .. Len(q) - 1 /\ q[j - 1] = p[j]
      BY <2>2, <3>1 DEF Rest
    <3> QED
      BY <2>2, <3>2
  <2> QED
    BY <2>1, <2>2
<1> QED
  BY <1>1, <1>3, <1>4, <1>5 DEF Mid

---------------------------------------------------------------------------
\* Once the job can be found.

\* A statement that neither sets nor tells a status.
LEMMA AfterSkip ==
  ASSUME TypeInv, AfterCreation, NEW k \in Kernels, todo[k] # <<>>, Done(k),
         todo[k][1].do # "set", ~Tells(todo[k][1]),
         rows' = rows, Replayed' = Replayed, clean' => clean
  PROVE  AfterCreation'
<1>1. /\ Rest(todo[k], todo'[k])
      /\ \A m \in Kernels \ {k} : todo'[m] = todo[m]
  BY Advance
<1>2. \A m \in Kernels : Updating(m)' <=> Updating(m)
  <2> SUFFICES ASSUME NEW m \in Kernels PROVE Updating(m)' <=> Updating(m)
    OBVIOUS
  <2>1. CASE m = k
    BY <1>1, <2>1, RestKeepsMid, UpdatingIsMid
  <2>2. CASE m # k
    BY <1>1, <2>2, UpdatingIsMid
  <2> QED
    BY <2>1, <2>2
<1>3. ASSUME NEW m \in Kernels, Carries(m) PROVE Carries(m)'
  <2>1. CASE m = k
    <3>1. /\ \A t : (\E j \in DOMAIN todo'[k] : Sets(todo'[k][j], t)) <=> (\E j \in DOMAIN todo[k] : Sets(todo[k][j], t))
          /\ (\E j \in 1 .. Len(todo'[k]) - 1 : Tells(todo'[k][j])) <=> (\E j \in 1 .. Len(todo[k]) - 1 : Tells(todo[k][j]))
          /\ \A i \in DOMAIN todo'[k] : \E j \in DOMAIN todo[k] : todo'[k][i] = todo[k][j]
      BY <1>1, RestKeepsMid
    <3> SUFFICES ASSUME NEW i \in DOMAIN todo'[k], Tells(todo'[k][i])
                 PROVE  /\ \A t \in Tables : rows[t] = todo'[k][i].event.status
                                               \/ \E j \in DOMAIN todo'[k] : Sets(todo'[k][j], t)
                        /\ \/ \E j \in 1 .. Len(todo'[k]) - 1 : Tells(todo'[k][j])
                           \/ Replayed = todo'[k][i].event.status
      BY <2>1 DEF Carries
    <3>2. PICK h \in DOMAIN todo[k] : todo'[k][i] = todo[k][h]
      BY <3>1
    <3>3. /\ \A t \in Tables : rows[t] = todo[k][h].event.status
                                 \/ \E j \in DOMAIN todo[k] : Sets(todo[k][j], t)
          /\ \/ \E j \in 1 .. Len(todo[k]) - 1 : Tells(todo[k][j])
             \/ Replayed = todo[k][h].event.status
      BY <1>3, <2>1, <3>2 DEF Carries
    <3> QED
      BY <3>1, <3>2, <3>3
  <2>2. CASE m # k
    BY <1>1, <1>3, <2>2 DEF Carries
  <2> QED
    BY <2>1, <2>2
<1>4. \A m \in Kernels : \A i \in DOMAIN todo'[m] : todo'[m][i].do # "register"
  <2> SUFFICES ASSUME NEW m \in Kernels, NEW i \in DOMAIN todo'[m] PROVE todo'[m][i].do # "register"
    OBVIOUS
  <2>1. \E j \in DOMAIN todo[m] : todo'[m][i] = todo[m][j]
    BY <1>1 DEF Rest
  <2> QED
    BY <2>1 DEF AfterCreation
<1> QED
  BY <1>2, <1>3, <1>4 DEF AfterCreation, Agree

\* The positions of a program and of its rest.
LEMMA RestShifts ==
  ASSUME NEW p, NEW q, Rest(p, q)
  PROVE  /\ 1 \in DOMAIN p /\ DOMAIN p \subseteq Nat \ {0}
         /\ \A i \in DOMAIN q : i \in Nat \ {0} /\ i + 1 \in DOMAIN p /\ q[i] = p[i + 1]
         /\ \A j \in DOMAIN p : j # 1 => j - 1 \in DOMAIN q /\ q[j - 1] = p[j]
<1>1. \A i \in DOMAIN q : i \in Nat \ {0} /\ i + 1 \in DOMAIN p /\ q[i] = p[i + 1]
  BY DEF Rest
<1>2. \A j \in DOMAIN p : j # 1 => j - 1 \in DOMAIN q /\ q[j - 1] = p[j]
  BY DEF Rest
<1>3. 1 \in DOMAIN p /\ DOMAIN p \subseteq Nat \ {0}
  BY DEF Rest
<1> QED
  BY <1>1, <1>2, <1>3

\* An operation that begins updates no column yet.
LEMMA AfterBegin ==
  ASSUME TypeInv, AfterCreation, NEW k \in Kernels, NEW p, Begin(k, p), NewWork(p),
         \A i \in DOMAIN p : p[i].do # "register", clean' => clean
  PROVE  AfterCreation'
<1>1. /\ DOMAIN todo[k] = {} /\ todo'[k] = p
      /\ \A m \in Kernels \ {k} : todo'[m] = todo[m]
      /\ UNCHANGED <<events, rows>>
  BY BegunTodo
<1>2. Replayed' = Replayed
  BY <1>1, SameLog
<1>3. ~Mid(todo[k]) /\ ~Mid(p)
  BY <1>1 DEF Mid, NewWork
<1>4. \A m \in Kernels : Updating(m)' <=> Updating(m)
  BY <1>1, <1>3, UpdatingIsMid
<1>5. \A m \in Kernels : Updating(m) /\ Carries(m) => Carries(m)'
  <2> SUFFICES ASSUME NEW m \in Kernels, Updating(m), Carries(m) PROVE Carries(m)'
    OBVIOUS
  <2>1. todo'[m] = todo[m]
    BY <1>1, <1>3, UpdatingIsMid
  <2> QED
    BY <1>1, <1>2, <2>1 DEF Carries
<1>6. \A m \in Kernels : \A i \in DOMAIN todo'[m] : todo'[m][i].do # "register"
  BY <1>1 DEF AfterCreation
<1> QED
  BY <1>1, <1>2, <1>4, <1>5, <1>6 DEF AfterCreation, Agree

\* An update given up while nothing was cut had only its event left.
LEMMA AfterDrop ==
  ASSUME TypeInv, AfterCreation, NEW k \in Kernels, todo' = [todo EXCEPT ![k] = <<>>],
         UNCHANGED <<events, rows>>, Watch
  PROVE  AfterCreation'
<1>1. /\ todo'[k] = <<>> /\ DOMAIN todo'[k] = {} /\ Len(todo'[k]) = 0
      /\ \A m \in Kernels \ {k} : todo'[m] = todo[m]
  BY Cleared
<1>2. Replayed' = Replayed
  BY SameLog
<1>3. ~Mid(todo'[k])
  BY <1>1 DEF Mid
<1>4. ~Updating(k)' /\ \A m \in Kernels \ {k} : Updating(m)' <=> Updating(m)
  BY <1>1, <1>3, UpdatingIsMid
<1>5. \A m \in Kernels \ {k} : Carries(m) => Carries(m)'
  BY <1>1, <1>2 DEF Carries
<1>6. ASSUME Updating(k), clean' PROVE Agree
  <2>1. clean /\ Done(k) /\ Carries(k)
    BY <1>4, <1>6 DEF Watch, AfterCreation
  <2>2. Mid(todo[k])
    BY <1>6, UpdatingIsMid
  <2>3. todo[k] # <<>>
    <3>1. DOMAIN (<<>>) = {}
      OBVIOUS
    <3> QED
      BY <2>2, <3>1 DEF Mid
  <2>4. Rest(todo[k], todo'[k])
    BY <2>1, <2>3, Advance
  <2>5. Len(todo[k]) = 1 /\ DOMAIN todo[k] = {1}
    <3> DEFINE n == Len(todo[k])
               d == DOMAIN todo[k]
    <3>1. n \in Nat \ {0} /\ d = 1 .. n /\ Len(todo'[k]) = n - 1
      BY <2>4 DEF Rest
    <3>2. n = 1
      <4> HIDE DEF n
      <4> QED
        BY <1>1, <3>1
    <3>3. 1 .. 1 = {1}
      OBVIOUS
    <3> QED
      BY <3>1, <3>2, <3>3, Zenon
  <2>6. Tells(todo[k][1])
    BY <2>2, <2>5 DEF Mid
  <2>7. ~ \E t \in Tables : Sets(todo[k][1], t)
    BY <2>6 DEF Tells, Sets
  <2>8. 1 .. Len(todo[k]) - 1 = {}
    BY <2>5
  <2> QED
    BY <2>1, <2>5, <2>6, <2>7, <2>8 DEF Carries, Agree
<1>7. \A m \in Kernels : \A i \in DOMAIN todo'[m] : todo'[m][i].do # "register"
  BY <1>1 DEF AfterCreation
<1>8. clean' => clean
  BY DEF Watch
<1>9. Agree => Agree'
  BY <1>2 DEF Agree
<1> QED
  BY <1>4, <1>5, <1>6, <1>7, <1>8, <1>9 DEF AfterCreation

\* The event that tells the status the columns already have.
LEMMA AfterTell ==
  ASSUME IInv, TypeInv, RowInv, AfterCreation, NEW k \in Kernels, Insert(k), Tells(todo[k][1]), Watch
  PROVE  AfterCreation'
<1> DEFINE e == todo[k][1].event.status
<1>1. /\ todo[k] # <<>> /\ Done(k) /\ UNCHANGED rows
  BY DEF Insert, Doing
<1>2. /\ Rest(todo[k], todo'[k])
      /\ \A m \in Kernels \ {k} : todo'[m] = todo[m]
  BY <1>1, Advance
<1>3. /\ 1 \in DOMAIN todo[k] /\ DOMAIN todo[k] \subseteq Nat \ {0}
      /\ \A i \in DOMAIN todo'[k] : i + 1 \in DOMAIN todo[k] /\ todo'[k][i] = todo[k][i + 1]
  BY <1>2, RestShifts
<1>4. Replayed' = e
  BY ReplayedAfterInsert
<1>5. PICK s \in Statuses : Updates(todo[k], s)
  BY DEF RowInv
<1>6. /\ \A i \in DOMAIN todo[k] : todo[k][i].do # "set"
      /\ \A i \in DOMAIN todo[k] : Tells(todo[k][i]) => todo[k][i].event.status = e
  BY <1>3, <1>5 DEF Updates
<1> HIDE DEF e
<1>7. Updating(k)
  BY <1>3, <1>6, UpdatingIsMid DEF Mid, Sets
<1>8. ASSUME clean PROVE \A t \in Tables : rows[t] = e
  BY <1>3, <1>6, <1>7, <1>8 DEF AfterCreation, Carries, Sets
<1>9. ASSUME clean PROVE Carries(k)'
  BY <1>1, <1>3, <1>4, <1>6, <1>8, <1>9 DEF Carries
<1>10. ASSUME clean PROVE Agree'
  BY <1>1, <1>4, <1>8, <1>10 DEF Agree
<1>11. ASSUME clean, NEW m \in Kernels, Updating(m)' PROVE m = k
  <2>1. m # k => Updating(m)
    BY <1>2, <1>11, UpdatingIsMid
  <2> QED
    BY <1>7, <1>11, <2>1 DEF AfterCreation
<1>12. \A m \in Kernels : \A i \in DOMAIN todo'[m] : todo'[m][i].do # "register"
  BY <1>2, <1>3 DEF AfterCreation
<1>13. clean' => clean
  BY DEF Watch
<1> QED
  BY <1>1, <1>9, <1>10, <1>11, <1>12, <1>13 DEF AfterCreation

\* A column is set: the event that tells its status is still to come.
LEMMA AfterSet ==
  ASSUME TypeInv, RowInv, AfterCreation, NEW k \in Kernels, SetStatus(k), Watch
  PROVE  AfterCreation'
<1> DEFINE p == todo[k]
           q == todo'[k]
           t0 == p[1].table
<1>1. todo[k] # <<>> /\ Done(k) /\ Head(todo[k]).do = "set" /\ UNCHANGED events
  BY DEF SetStatus, Doing
<1>2. /\ Rest(p, q) /\ Head(p) = p[1]
      /\ \A m \in Kernels \ {k} : todo'[m] = todo[m]
  BY <1>1, Advance
<1>3. /\ 1 \in DOMAIN p /\ DOMAIN p \subseteq Nat \ {0}
      /\ \A i \in DOMAIN q : i \in Nat \ {0} /\ i + 1 \in DOMAIN p /\ q[i] = p[i + 1]
      /\ \A j \in DOMAIN p : j # 1 => j - 1 \in DOMAIN q /\ q[j - 1] = p[j]
  BY <1>2, RestShifts
<1>4. PICK s \in Statuses : Updates(p, s)
  BY DEF RowInv
<1>5. /\ p[1].do = "set" /\ p[1].status = s /\ p[1] \in Statements
  BY <1>1, <1>2, <1>3, <1>4 DEF Updates, Rest
<1>6. t0 \in Tables /\ s # "none"
  BY <1>5 DEF Statements, Statuses, EndEvent
<1>7. rows' = [rows EXCEPT ![t0] = s]
  BY <1>2, <1>5, <1>6 DEF SetStatus, AfterCreation
<1>8. rows \in [Tables -> Statuses \cup {"none"}] /\ \A t \in Tables : rows[t] # "none"
  BY DEF TypeInv, AfterCreation
<1>9. /\ rows'[t0] = s
      /\ \A t \in Tables \ {t0} : rows'[t] = rows[t]
      /\ \A t \in Tables : rows'[t] # "none"
  BY <1>6, <1>7, <1>8
<1> HIDE DEF p, q, t0
\* The last event of the update is still to come.
<1>10. \E j \in 1 .. Len(q) - 1 : Tells(q[j])
  <2>1. PICK j \in 1 .. Len(p) - 1 : Tells(p[j])
    BY <1>3, <1>4, <1>5 DEF Updates
  <2>2. j \in 2 .. Len(p) - 1
    BY <1>5, <2>1 DEF Tells
  <2>3. j \in DOMAIN p /\ j # 1 /\ j - 1 \in 1 .. Len(q) - 1
    BY <1>2, <2>2 DEF Rest
  <2>4. q[j - 1] = p[j]
    BY <1>3, <2>3
  <2> QED
    BY <2>1, <2>3, <2>4
<1>11. \A i \in DOMAIN p : Sets(p[i], "jobs") => i = 1
  <2> SUFFICES ASSUME NEW i \in DOMAIN p, Sets(p[i], "jobs") PROVE i = 1
    OBVIOUS
  <2>1. i <= 1 /\ i \in Nat \ {0}
    BY <1>3, <1>4, <1>5 DEF Updates
  <2> QED
    BY <2>1
<1>12. ~ \E i \in DOMAIN q : Sets(q[i], "jobs")
  <2> SUFFICES ASSUME NEW i \in DOMAIN q, Sets(q[i], "jobs") PROVE FALSE
    OBVIOUS
  <2>1. i + 1 = 1 /\ i \in Nat \ {0}
    BY <1>3, <1>11
  <2> QED
    BY <2>1
<1>13. Updating(k)'
  <2>1. \E i \in DOMAIN q : Tells(q[i])
    BY <1>2, <1>10 DEF Rest
  <2>2. Mid(q)
    BY <1>12, <2>1 DEF Mid
  <2> QED
    BY <2>2, UpdatingIsMid DEF q
<1>14. ASSUME clean, NEW t \in Tables
       PROVE  rows'[t] = s \/ \E j \in DOMAIN q : Sets(q[j], t)
  <2>1. CASE t = t0
    BY <1>9, <2>1
  <2>2. ASSUME t # t0, NEW j \in DOMAIN p, Sets(p[j], t) PROVE \E i \in DOMAIN q : Sets(q[i], t)
    <3>1. j # 1
      BY <2>2 DEF Sets, t0
    <3> QED
      BY <1>3, <2>2, <3>1
  <2>3. CASE t # t0 /\ t0 = "jobs"
    <3>1. Sets(p[1], "jobs")
      BY <1>5, <2>3 DEF Sets, t0
    <3>2. \E j \in DOMAIN p : Sets(p[j], t)
      BY <1>3, <1>4, <2>3, <3>1 DEF Updates
    <3> QED
      BY <2>2, <2>3, <3>2
  <2>4. CASE t # t0 /\ t0 # "jobs"
    <3>1. ~Sets(p[1], "jobs")
      BY <2>4 DEF Sets, t0
    <3>2. PICK j \in DOMAIN q : Tells(q[j])
      BY <1>2, <1>10 DEF Rest
    <3>3. j + 1 \in DOMAIN p /\ Tells(p[j + 1]) /\ p[j + 1].event.status = s
      BY <1>3, <1>4, <3>2 DEF Updates
    <3>4. Mid(p)
      BY <1>11, <3>1, <3>3 DEF Mid
    <3>5. Carries(k)
      BY <1>14, <3>4, UpdatingIsMid DEF AfterCreation, p
    <3>6. rows[t] = s \/ \E i \in DOMAIN p : Sets(p[i], t)
      BY <3>3, <3>5 DEF Carries, p
    <3> QED
      BY <1>9, <2>2, <2>4, <3>6
  <2> QED
    BY <2>1, <2>3, <2>4
<1>15. ASSUME clean PROVE Carries(k)'
  <2>1. \A i \in DOMAIN q : Tells(q[i]) => q[i].event.status = s
    BY <1>3, <1>4 DEF Updates
  <2> QED
    BY <1>10, <1>14, <1>15, <2>1 DEF Carries, q
<1>16. \A m \in Kernels : \A i \in DOMAIN todo'[m] : todo'[m][i].do # "register"
  <2> SUFFICES ASSUME NEW m \in Kernels, NEW i \in DOMAIN todo'[m] PROVE todo'[m][i].do # "register"
    OBVIOUS
  <2>1. CASE m = k
    BY <1>3, <2>1 DEF AfterCreation, p, q
  <2>2. CASE m # k
    BY <1>2, <2>2 DEF AfterCreation
  <2> QED
    BY <2>1, <2>2
<1>17. clean' => clean /\ \A m \in Kernels : Updating(m)' => m = k
  BY <1>13 DEF Watch
<1> QED
  BY <1>9, <1>13, <1>15, <1>16, <1>17 DEF AfterCreation

\* Before the job can be found only its worker acts, and only to create it.
LEMMA OnlyCreating ==
  ASSUME BeforeCreation, NEW k \in Kernels, todo[k] # <<>>
  PROVE  k = Worker /\ Creating(todo[k], rows, Replayed)
  BY DEF BeforeCreation

\* The row of the job enters table jobs.
RegistersJob(s) == s.do = "register" /\ s.table = "jobs"

\* What remains of create_job after a statement that is not its last event.
LEMMA RestIsCreating ==
  ASSUME NEW p, NEW q, Rest(p, q), NEW rw, NEW rp, NEW rw1, NEW rp1,
         Creating(p, rw, rp), ~Opens(p[1]),
         Tells(p[1]) => rp1 = "running", ~Tells(p[1]) => rp1 = rp,
         \A t \in Tables \ {"jobs"} :
           /\ rw1[t] = rw[t] \/ rw1[t] = "running"
           /\ p[1].do = "register" /\ p[1].table = t => rw1[t] = "running",
         rw1["jobs"] = rw["jobs"] \/ rw1["jobs"] = "running" \/ RegistersJob(p[1]),
         RegistersJob(p[1]) => rw1["jobs"] # "none",
         Sets(p[1], "jobs") => rw1["jobs"] = "running"
  PROVE  Creating(q, rw1, rp1)
<1>1. /\ 1 \in DOMAIN p /\ DOMAIN p \subseteq Nat \ {0}
      /\ \A i \in DOMAIN q : i \in Nat \ {0} /\ i + 1 \in DOMAIN p /\ q[i] = p[i + 1]
      /\ \A j \in DOMAIN p : j # 1 => j - 1 \in DOMAIN q /\ q[j - 1] = p[j]
  BY RestShifts
<1>2. \E j \in DOMAIN q : Opens(q[j])
  BY <1>1 DEF Creating
<1>3. ASSUME NEW i \in DOMAIN q
      PROVE  /\ q[i].do \in {"set", "register"} \/ Tells(q[i]) =>
                  \A j \in DOMAIN q : Opens(q[j]) => i < j
             /\ q[i].do = "enter" => \A j \in DOMAIN q : Opens(q[j]) => j < i
             /\ q[i].do = "set" => q[i].status = "running"
             /\ Tells(q[i]) => q[i].event.status = "running"
             /\ q[i].do = "register" =>
                  /\ q[i].table # "jobs" => q[i].status = "running"
                  /\ q[i].table = "jobs" => /\ \E j \in DOMAIN q : Sets(q[j], "jobs")
                                            /\ \A j \in DOMAIN q : Sets(q[j], "jobs") => i < j
  <2>1. PICK h \in DOMAIN p : h = i + 1 /\ q[i] = p[h] /\ i \in Nat \ {0}
    BY <1>1, <1>3
  <2>2. ASSUME NEW j \in DOMAIN q PROVE j + 1 \in DOMAIN p /\ q[j] = p[j + 1] /\ j \in Nat
    BY <1>1, <2>2
  <2>3. /\ p[h].do \in {"set", "register"} \/ Tells(p[h]) =>
             \A j \in DOMAIN p : Opens(p[j]) => h < j
        /\ p[h].do = "enter" => \A j \in DOMAIN p : Opens(p[j]) => j < h
        /\ p[h].do = "set" => p[h].status = "running"
        /\ Tells(p[h]) => p[h].event.status = "running"
        /\ p[h].do = "register" => (p[h].table # "jobs" => p[h].status = "running")
    BY DEF Creating
  <2>4. ASSUME p[h].do = "register", p[h].table = "jobs"
        PROVE  /\ \E j \in DOMAIN q : Sets(q[j], "jobs")
               /\ \A j \in DOMAIN q : Sets(q[j], "jobs") => i < j
    <3>1. /\ \E j \in DOMAIN p : Sets(p[j], "jobs")
          /\ \A j \in DOMAIN p : Sets(p[j], "jobs") => h < j
      BY <2>4 DEF Creating
    <3>2. PICK j \in DOMAIN p : Sets(p[j], "jobs") /\ h < j /\ j \in Nat
      BY <1>1, <3>1
    <3>3. j # 1
      BY <2>1, <3>2
    <3>4. \E m \in DOMAIN q : Sets(q[m], "jobs")
      BY <1>1, <3>2, <3>3
    <3>5. \A m \in DOMAIN q : Sets(q[m], "jobs") => i < m
      BY <2>1, <2>2, <3>1
    <3> QED
      BY <3>4, <3>5
  <2>5. ASSUME NEW j \in DOMAIN q, Opens(q[j])
        PROVE  /\ h < j + 1 => i < j
               /\ j + 1 < h => j < i
               /\ j + 1 \in DOMAIN p /\ Opens(p[j + 1])
    BY <2>1, <2>2, <2>5
  <2> QED
    BY <2>1, <2>3, <2>4, <2>5
<1>4. (\E i \in DOMAIN q : Tells(q[i])) \/ rp1 = "running"
  BY <1>1 DEF Creating
<1>5. rw1["jobs"] # "none" \/ \E i \in DOMAIN q : q[i].do = "register" /\ q[i].table = "jobs"
  <2>1. CASE rw["jobs"] # "none"
    BY <2>1 DEF Creating
  <2>2. ASSUME NEW i \in DOMAIN p, p[i].do = "register", p[i].table = "jobs" 
        PROVE  rw1["jobs"] # "none" \/ \E j \in DOMAIN q : q[j].do = "register" /\ q[j].table = "jobs"
    BY <1>1, <2>2 DEF RegistersJob
  <2> QED
    BY <2>1, <2>2 DEF Creating
<1>6. rw1["jobs"] = "running" \/ \E i \in DOMAIN q : Sets(q[i], "jobs")
  <2>1. ASSUME NEW i \in DOMAIN p, Sets(p[i], "jobs") 
        PROVE  rw1["jobs"] = "running" \/ \E j \in DOMAIN q : Sets(q[j], "jobs")
    BY <1>1, <2>1
  <2>2. CASE RegistersJob(p[1])
    BY <1>1, <2>1, <2>2 DEF Creating, RegistersJob
  <2>3. CASE ~RegistersJob(p[1])
    BY <2>1, <2>3 DEF Creating
  <2> QED
    BY <2>2, <2>3
<1>7. ASSUME NEW t \in Tables \ {"jobs"}
      PROVE rw1[t] = "running" \/ \E i \in DOMAIN q : q[i].do = "register" /\ q[i].table = t
  <2>1. CASE rw[t] = "running"
    BY <2>1
  <2>2. ASSUME NEW i \in DOMAIN p, p[i].do = "register", p[i].table = t 
        PROVE  rw1[t] = "running" \/ \E j \in DOMAIN q : q[j].do = "register" /\ q[j].table = t
    BY <1>1, <2>2
  <2> QED
    BY <2>1, <2>2 DEF Creating
<1> QED
  BY <1>2, <1>3, <1>4, <1>5, <1>6, <1>7 DEF Creating

\* A statement of create_job before its last event.
LEMMA BeforeStatement ==
  ASSUME IInv, TypeInv, RowInv, BeforeCreation, NEW k \in Kernels,
         todo[k] # <<>>, Done(k), todo[k][1].do # "enter", ~Opens(todo[k][1]),
         \A m \in Kernels : ~looping'[m],
         \/ Insert(k) \/ SetStatus(k) \/ RegisterRow(k)
         \/ UNCHANGED <<events, rows>> /\ ~Tells(todo[k][1])
              /\ todo[k][1].do \notin {"set", "register"}
  PROVE  BeforeCreation'
<1> DEFINE p == todo[k]
           q == todo'[k]
<1>1. k = Worker /\ Creating(p, rows, Replayed)
  BY OnlyCreating
<1>2. /\ Rest(p, q) /\ Head(p) = p[1] /\ p[1] \in Statements
      /\ \A m \in Kernels \ {k} : todo'[m] = todo[m]
  BY Advance DEF Rest
<1>3. rows \in [Tables -> Statuses \cup {"none"}] /\ "jobs" \in Tables
  BY DEF TypeInv, Tables
<1>4. 1 \in DOMAIN p
  BY <1>2, RestShifts
<1>5. Creating(q, rows', Replayed')
  <2>1. CASE Insert(k)
    <3>1. rows' = rows /\ p[1].do = "insert"
      BY <1>2, <2>1 DEF Insert, Doing
    <3>2. Replayed' = IF Tells(p[1]) THEN p[1].event.status ELSE Replayed
      BY <2>1, ReplayedAfterInsert
    <3>3. Tells(p[1]) => Replayed' = "running"
      BY <1>1, <1>4, <3>2 DEF Creating
    <3>4. ~RegistersJob(p[1]) /\ ~Sets(p[1], "jobs") /\ p[1].do # "register"
      BY <3>1 DEF RegistersJob, Sets
    <3> HIDE DEF p, q
    <3> QED
      BY <1>1, <1>2, <3>1, <3>2, <3>3, <3>4, RestIsCreating DEF p, q
  <2>2. CASE UNCHANGED <<events, rows>> /\ ~Tells(p[1]) /\ p[1].do \notin {"set", "register"}
    <3>1. Replayed' = Replayed /\ rows' = rows
      BY <2>2, SameLog
    <3>2. ~RegistersJob(p[1]) /\ ~Sets(p[1], "jobs")
      BY <2>2 DEF RegistersJob, Sets
    <3> QED
      BY <1>1, <1>2, <2>2, <3>1, <3>2, RestIsCreating
  <2>3. CASE SetStatus(k)
    <3>1. UNCHANGED events /\ p[1].do = "set"
      BY <1>2, <2>3 DEF SetStatus, Doing
    <3>2. Replayed' = Replayed
      BY <3>1, SameLog
    <3>3. p[1].table \in Tables /\ p[1].status = "running"
      BY <1>1, <1>2, <1>4, <3>1 DEF Statements, Creating
    <3>4. /\ rows' = rows \/ rows' = [rows EXCEPT ![p[1].table] = "running"]
          /\ rows[p[1].table] # "none" => rows' = [rows EXCEPT ![p[1].table] = "running"]
      BY <1>2, <2>3, <3>3 DEF SetStatus
    <3>5. /\ \A t \in Tables : rows'[t] = rows[t] \/ rows'[t] = "running"
          /\ rows[p[1].table] # "none" => rows'[p[1].table] = "running"
      BY <1>3, <3>3, <3>4
    <3>6. ASSUME Sets(p[1], "jobs") PROVE rows'["jobs"] = "running"
      <4>1. rows["jobs"] # "none"
        <5> SUFFICES ASSUME rows["jobs"] = "none" PROVE FALSE
          OBVIOUS
        <5>1. PICK i \in DOMAIN p : p[i].do = "register" /\ p[i].table = "jobs"
          BY <1>1 DEF Creating
        <5>2. i < 1 /\ i \in Nat \ {0}
          BY <1>1, <1>2, <1>4, <3>6, <5>1, RestShifts DEF Creating
        <5> QED
          BY <5>2
      <4> QED
        BY <3>5, <3>6, <4>1 DEF Sets
    <3>7. ~RegistersJob(p[1]) /\ ~Tells(p[1])
      BY <3>1 DEF RegistersJob, Tells
    <3> QED
      BY <1>1, <1>2, <1>3, <3>1, <3>2, <3>5, <3>6, <3>7, RestIsCreating
  <2>4. CASE RegisterRow(k)
    <3>1. UNCHANGED events /\ p[1].do = "register" /\ rows' = [rows EXCEPT ![p[1].table] = p[1].status]
      BY <1>2, <2>4 DEF RegisterRow, Doing
    <3>2. Replayed' = Replayed
      BY <3>1, SameLog
    <3>3. p[1].table \in Tables /\ p[1].status # "none"
      BY <1>2, <3>1 DEF Statements, Statuses, EndEvent
    <3>4. p[1].table # "jobs" => p[1].status = "running"
      BY <1>1, <1>4, <3>1 DEF Creating
    <3>5. /\ \A t \in Tables : t # p[1].table => rows'[t] = rows[t]
          /\ rows'[p[1].table] = p[1].status
      BY <1>3, <3>1, <3>3
    <3>6. ~Sets(p[1], "jobs") /\ ~Tells(p[1])
      BY <3>1 DEF Sets, Tells
    <3>7. RegistersJob(p[1]) <=> p[1].table = "jobs"
      BY <3>1 DEF RegistersJob
    <3>8. \A t \in Tables \ {"jobs"} :
            /\ rows'[t] = rows[t] \/ rows'[t] = "running"
            /\ p[1].do = "register" /\ p[1].table = t => rows'[t] = "running"
      BY <3>4, <3>5
    <3>9. /\ rows'["jobs"] = rows["jobs"] \/ rows'["jobs"] = "running" \/ RegistersJob(p[1])
          /\ RegistersJob(p[1]) => rows'["jobs"] # "none"
      BY <1>3, <3>3, <3>5, <3>7
    <3> QED
      BY <1>1, <1>2, <3>2, <3>6, <3>8, <3>9, RestIsCreating
  <2> QED
    BY <2>1, <2>2, <2>3, <2>4
<1> QED
  BY <1>1, <1>2, <1>5 DEF BeforeCreation

\* The event after which the job can be found.
LEMMA BeforeOpen ==
  ASSUME IInv, TypeInv, RowInv, BeforeCreation, NEW k \in Kernels, Insert(k), Opens(todo[k][1])
  PROVE  AfterCreation'
<1> DEFINE p == todo[k]
           q == todo'[k]
<1>1. todo[k] # <<>> /\ Done(k) /\ rows' = rows
  BY DEF Insert, Doing
<1>2. k = Worker /\ Creating(p, rows, Replayed)
  BY <1>1, OnlyCreating
<1>3. /\ Rest(p, q)
      /\ \A m \in Kernels \ {k} : todo'[m] = todo[m]
  BY <1>1, Advance
<1>4. /\ 1 \in DOMAIN p /\ DOMAIN p \subseteq Nat \ {0}
      /\ \A i \in DOMAIN q : i + 1 \in DOMAIN p /\ q[i] = p[i + 1]
  BY <1>3, RestShifts
<1>5. \A i \in DOMAIN p : p[i].do \notin {"set", "register"} /\ ~Tells(p[i])
  <2> SUFFICES ASSUME NEW i \in DOMAIN p, p[i].do \in {"set", "register"} \/ Tells(p[i]) PROVE FALSE
    OBVIOUS
  <2>1. i < 1 /\ i \in Nat \ {0}
    BY <1>2, <1>4 DEF Creating
  <2> QED
    BY <2>1
<1>6. Replayed' = Replayed /\ Replayed = "running"
  BY <1>2, <1>4, <1>5, ReplayedAfterInsert DEF Creating
<1>7. \A t \in Tables : rows[t] = "running"
  BY <1>2, <1>5 DEF Creating, Sets
<1>8. \A m \in Kernels \ {k} : DOMAIN todo'[m] = {}
  <2>1. DOMAIN (<<>>) = {}
    OBVIOUS
  <2> QED
    BY <1>2, <1>3, <2>1 DEF BeforeCreation
<1>9. \A m \in Kernels : ~Updating(m)'
  <2> SUFFICES ASSUME NEW m \in Kernels PROVE ~Mid(todo'[m])
    BY UpdatingIsMid
  <2> QED
    BY <1>4, <1>5, <1>8 DEF Mid
<1>10. \A m \in Kernels : \A i \in DOMAIN todo'[m] : todo'[m][i].do # "register"
  BY <1>4, <1>5, <1>8
<1>11. Agree'
  BY <1>1, <1>6, <1>7 DEF Agree
<1> QED
  BY <1>1, <1>7, <1>9, <1>10, <1>11 DEF AfterCreation

\* create_job is given up.
LEMMA BeforeDrop ==
  ASSUME TypeInv, BeforeCreation, NEW k \in Kernels, todo' = [todo EXCEPT ![k] = <<>>],
         UNCHANGED <<events, rows>>,
         \A m \in Kernels : ~looping'[m]
  PROVE  BeforeCreation'
<1>1. /\ todo'[k] = <<>>
      /\ \A m \in Kernels \ {k} : todo'[m] = todo[m]
  BY Cleared
<1>2. Replayed' = Replayed /\ rows' = rows
  BY SameLog
<1>3. Worker \in Kernels
  BY DEF Kernels
<1>4. todo'[Worker] # <<>> => todo'[Worker] = todo[Worker]
  BY <1>1, <1>3
<1> QED
  BY <1>1, <1>2, <1>4 DEF BeforeCreation

\* create_job begins with everything still to do.
LEMMA CreateIsCreating ==
  ASSUME NEW r, NEW now
  PROVE  Creating(Create, r, now)
<1> DEFINE p == Create
<1>1. /\ Opens(p[14]) /\ p[1].do = "register" /\ p[1].table = "jobs"
      /\ Sets(p[4], "jobs") /\ Tells(p[8])
      /\ p[9].do = "register" /\ p[9].table = "processes"
      /\ p[10].do = "register" /\ p[10].table = "runtimes"
      /\ DOMAIN p = 1 .. 15
      /\ \A i \in 1 .. 15 :
            /\ p[i].do = "register" <=> i \in {1, 9, 10}
            /\ i \in {9, 10} => p[i].status = "running"
            /\ p[i].do = "set" <=> i \in 4 .. 6
            /\ p[i].do = "set" => p[i].status = "running"
            /\ p[i].do = "enter" <=> i = 15
            /\ Tells(p[i]) <=> i = 8
            /\ Tells(p[i]) => p[i].event.status = "running"
            /\ Opens(p[i]) <=> i = 14
  BY CreateIsNewWork
<1> HIDE DEF p
<1>2. \A j \in 1 .. 15 : Sets(p[j], "jobs") => j \in 4 .. 6
  BY <1>1 DEF Sets
<1>3. ASSUME NEW i \in DOMAIN p
      PROVE  /\ p[i].do \in {"set", "register"} \/ Tells(p[i]) =>
                  \A j \in DOMAIN p : Opens(p[j]) => i < j
             /\ p[i].do = "enter" => \A j \in DOMAIN p : Opens(p[j]) => j < i
             /\ p[i].do = "set" => p[i].status = "running"
             /\ Tells(p[i]) => p[i].event.status = "running"
             /\ p[i].do = "register" =>
                  /\ p[i].table # "jobs" => p[i].status = "running"
                  /\ p[i].table = "jobs" => /\ \E j \in DOMAIN p : Sets(p[j], "jobs")
                                            /\ \A j \in DOMAIN p : Sets(p[j], "jobs") => i < j
  <2>1. i \in 1 .. 15
    BY <1>1
  <2>2. p[i].do = "register" => i \in {1, 9, 10}
    BY <1>1, <2>1
  <2>3. ASSUME p[i].do = "register", p[i].table = "jobs" PROVE i = 1
    BY <1>1, <2>2, <2>3
  <2> QED
    BY <1>1, <1>2, <2>1, <2>2, <2>3
<1> QED
  BY <1>1, <1>3 DEF Creating, Tables, p

---------------------------------------------------------------------------
\* Initially there is no job.
LEMMA InitRowInv == Init => RowInv
<1> SUFFICES ASSUME Init PROVE RowInv
  OBVIOUS
<1>1. /\ DOMAIN events = {} /\ \A k \in Kernels : todo[k] = <<>> /\ DOMAIN todo[k] = {}
      /\ \A k \in Kernels : ~looping[k]
  BY DEF Init
<1>2. ~Created /\ Telling = {}
  BY <1>1 DEF Created, Telling
<1>3. BeforeCreation
  BY <1>1 DEF BeforeCreation, Kernels
<1>4. \A k \in Kernels : Updates(todo[k], "running")
  BY <1>1 DEF Updates
<1> QED
  BY <1>1, <1>2, <1>3, <1>4 DEF RowInv, Statuses

\* What an operation has left to do still is an update to one status.
LEMMA StepKeepsUpdates ==
  ASSUME TypeInv, RowInv, NEW k \in Kernels,
         \/ todo[k] # <<>> /\ Done(k)
         \/ todo' = [todo EXCEPT ![k] = <<>>]
         \/ \E p : Begin(k, p) /\ NewWork(p)
  PROVE  \A m \in Kernels : \E s \in Statuses : Updates(todo'[m], s)
<1>1. \A m \in Kernels : \E s \in Statuses : Updates(todo[m], s)
  BY DEF RowInv
<1>2. CASE todo[k] # <<>> /\ Done(k)
  <2>1. /\ Rest(todo[k], todo'[k])
        /\ \A m \in Kernels \ {k} : todo'[m] = todo[m]
    BY <1>2, Advance
  <2>2. \E s \in Statuses : Updates(todo'[k], s)
    BY <1>1, <2>1, RestKeepsUpdates
  <2> QED
    BY <1>1, <2>1, <2>2
<1>3. CASE todo' = [todo EXCEPT ![k] = <<>>]
  <2>1. /\ todo'[k] = <<>> /\ DOMAIN todo'[k] = {}
        /\ \A m \in Kernels \ {k} : todo'[m] = todo[m]
    BY <1>3, Cleared
  <2>2. Updates(todo'[k], "running") /\ "running" \in Statuses
    BY <2>1 DEF Updates, Statuses
  <2> QED
    BY <1>1, <2>1, <2>2
<1>4. CASE \E p : Begin(k, p) /\ NewWork(p)
  <2>1. PICK p : Begin(k, p) /\ NewWork(p)
    BY <1>4
  <2>2. /\ todo'[k] = p
        /\ \A m \in Kernels \ {k} : todo'[m] = todo[m]
    BY <2>1, BegunTodo
  <2> QED
    BY <1>1, <2>1, <2>2 DEF NewWork
<1> QED
  BY <1>2, <1>3, <1>4

\* No step of any kernel parts the columns from what the log will tell.
LEMMA StepRowInv == IInv /\ TypeInv /\ RowInv /\ [Next]_vars => RowInv'
<1> SUFFICES ASSUME IInv, TypeInv, RowInv, [Next]_vars PROVE RowInv'
  OBVIOUS
<1> USE DEF store, clients
<1>1. ops \in Nat /\ clock \in Nat
  BY DEF IInv, TypeOK
<1>2. /\ ops = 0 => ~Created /\ \A k \in Kernels : todo[k] = <<>>
      /\ Telling = {} \/ \E i \in Telling : \A j \in Telling : j <= i
      /\ \A k \in Kernels : \E s \in Statuses : Updates(todo[k], s)
      /\ Created => AfterCreation
      /\ ~Created => BeforeCreation
  BY DEF RowInv
\* Steps that leave the log alone.
<1>3. ASSUME UNCHANGED events, ops' = ops \/ ops' = ops + 1,
             ops' = ops => \A k \in Kernels : todo[k] = <<>> => todo'[k] = <<>>,
             \A m \in Kernels : \E s \in Statuses : Updates(todo'[m], s),
             Created => AfterCreation', ~Created => BeforeCreation'
      PROVE  RowInv'
  <2>1. /\ Telling' = Telling /\ (Created' <=> Created)
    BY <1>3, SameLog
  <2>2. ops' = 0 => ops = 0 /\ ops' = ops
    BY <1>1, <1>3
  <2>3. ops' = 0 => ~Created' /\ \A k \in Kernels : todo'[k] = <<>>
    BY <1>2, <1>3, <2>1, <2>2
  <2>4. Telling' = {} \/ \E i \in Telling' : \A j \in Telling' : j <= i
    BY <1>2, <2>1
  <2>5. IF Created' THEN AfterCreation' ELSE BeforeCreation'
    BY <1>3, <2>1
  <2> QED
    BY <1>3, <2>3, <2>4, <2>5 DEF RowInv
<1>4. ASSUME UNCHANGED <<events, rows, todo, looping, ops>>, clean' => clean PROVE RowInv'
  <2>1. Replayed' = Replayed
    BY <1>4, SameLog
  <2>2. \A k \in Kernels : (Updating(k)' <=> Updating(k)) /\ (Carries(k)' <=> Carries(k))
    BY <1>4, <2>1 DEF Updating, Carries
  <2>3. AfterCreation => AfterCreation'
    BY <1>4, <2>1, <2>2 DEF AfterCreation, Agree
  <2>4. BeforeCreation => BeforeCreation'
    BY <1>4, <2>1 DEF BeforeCreation
  <2> QED
    BY <1>2, <1>3, <1>4, <2>3, <2>4
<1>5. CASE UNCHANGED vars
  BY <1>4, <1>5 DEF vars
<1>6. CASE Next
  <2>1. Step /\ Watch
    BY <1>6 DEF Next
  <2>2. clean' => clean
    BY <2>1 DEF Watch
  <2>3. ASSUME NEW k \in Kernels, Turn(k) \/ EndLoop(k) \/ CancelJob(k) \/ UserInput(k) PROVE RowInv'
    <3>1. PICK p : Begin(k, p) /\ NewWork(p) /\ \A i \in DOMAIN p : p[i].do # "register"
      BY <1>1, <2>3, BegunWork
    <3>2. Created
      BY <1>2, <2>3 DEF Turn, EndLoop, CancelJob, UserInput, BeforeCreation
    <3>3. AfterCreation'
      BY <1>2, <2>2, <3>1, <3>2, AfterBegin
    <3>4. \A m \in Kernels : \E s \in Statuses : Updates(todo'[m], s)
      BY <3>1, StepKeepsUpdates
    <3>5. ops' = ops + 1 /\ UNCHANGED events
      BY <3>1 DEF Begin
    <3>6. ops' # ops
      BY <1>1, <3>5
    <3> QED
      BY <1>3, <3>2, <3>3, <3>4, <3>5, <3>6
  <2>4. ASSUME CreateJob PROVE RowInv'
    <3>1. /\ Worker \in Kernels /\ Begin(Worker, Create) /\ NewWork(Create)
          /\ looping' = looping /\ ops = 0
      BY <2>4, CreateIsNewWork DEF CreateJob, Kernels
    <3>2. /\ todo'[Worker] = Create /\ \A m \in Kernels \ {Worker} : todo'[m] = todo[m]
          /\ ops' = ops + 1 /\ UNCHANGED events
      BY <3>1, BegunTodo
    <3>3. ~Created /\ BeforeCreation
      BY <1>2, <3>1
    <3>4. BeforeCreation'
      <4>1. Creating(Create, rows', Replayed')
        BY CreateIsCreating
      <4> QED
        BY <3>1, <3>2, <3>3, <4>1 DEF BeforeCreation
    <3>5. \A m \in Kernels : \E s \in Statuses : Updates(todo'[m], s)
      BY <3>1, StepKeepsUpdates
    <3>6. ops' # ops
      BY <1>1, <3>2
    <3> QED
      BY <1>3, <3>2, <3>3, <3>4, <3>5, <3>6
  <2>5. ASSUME NEW k \in Kernels,
               Conflict(k) \/ Abort(k) \/ (RefuseTerminal(k) /\ todo' = [todo EXCEPT ![k] = <<>>])
        PROVE  RowInv'
    <3>1. /\ todo' = [todo EXCEPT ![k] = <<>>] /\ UNCHANGED <<events, rows, ops>>
          /\ looping' = looping \/ looping' = [looping EXCEPT ![k] = FALSE]
      BY <2>5 DEF Conflict, Abort, RefuseTerminal
    <3>2. Created => AfterCreation'
      BY <1>2, <2>1, <3>1, AfterDrop
    <3>3. ~Created => BeforeCreation'
      <4>1. ASSUME ~Created PROVE \A m \in Kernels : ~looping'[m]
        BY <1>2, <3>1, <4>1 DEF BeforeCreation, TypeInv
      <4> QED
        BY <1>2, <3>1, <4>1, BeforeDrop
    <3>4. \A m \in Kernels : \E s \in Statuses : Updates(todo'[m], s)
      BY <3>1, StepKeepsUpdates
    <3>5. \A m \in Kernels : todo[m] = <<>> => todo'[m] = <<>>
      BY <3>1, Cleared
    <3> QED
      BY <1>3, <3>1, <3>2, <3>3, <3>4, <3>5
  <2>6. ASSUME NEW k \in Kernels, todo[k] # <<>>, Done(k)
        PROVE  /\ \A m \in Kernels : \E s \in Statuses : Updates(todo'[m], s)
               /\ \A m \in Kernels : todo[m] = <<>> => todo'[m] = <<>>
               /\ Head(todo[k]) = todo[k][1] /\ 1 \in DOMAIN todo[k]
    <3>1. /\ Head(todo[k]) = todo[k][1] /\ 1 \in DOMAIN todo[k]
          /\ \A m \in Kernels \ {k} : todo'[m] = todo[m]
      BY <2>6, Advance, RestShifts
    <3>2. \A m \in Kernels : todo[m] = <<>> => todo'[m] = <<>>
      BY <2>6, <3>1
    <3> QED
      BY <2>6, <3>1, <3>2, StepKeepsUpdates
  <2>7. ASSUME NEW k \in Kernels,
               SelectMax(k) \/ WriteBlob(k) \/ EnterLoop(k) \/ InsertCheckpoint(k)
                 \/ (RefuseTerminal(k) /\ Done(k))
        PROVE  RowInv'
    <3>1. /\ todo[k] # <<>> /\ Done(k) /\ UNCHANGED <<events, rows, ops>>
          /\ Head(todo[k]).do \in {"max", "truncate", "fill", "enter", "row", "refuse"}
      BY <2>7 DEF SelectMax, WriteBlob, EnterLoop, InsertCheckpoint, RefuseTerminal, Doing
    <3>2. /\ todo[k][1].do \in {"max", "truncate", "fill", "enter", "row", "refuse"}
          /\ 1 \in DOMAIN todo[k]
      BY <2>6, <3>1
    <3>3. ~Tells(todo[k][1]) /\ ~Opens(todo[k][1]) /\ todo[k][1].do \notin {"set", "register"}
      BY <3>2 DEF Tells, Opens
    <3>4. Replayed' = Replayed
      BY <3>1, SameLog
    <3>5. Created => AfterCreation'
      BY <1>2, <2>2, <3>1, <3>3, <3>4, AfterSkip
    <3>6. ~Created => BeforeCreation'
      <4> SUFFICES ASSUME ~Created PROVE BeforeCreation'
        OBVIOUS
      <4>1. BeforeCreation
        BY <1>2
      <4>2. Creating(todo[k], rows, Replayed)
        BY <3>1, <4>1, OnlyCreating
      <4>3. todo[k][1].do # "enter"
        <5> SUFFICES ASSUME todo[k][1].do = "enter" PROVE FALSE
          OBVIOUS
        <5>1. PICK j \in DOMAIN todo[k] : Opens(todo[k][j])
          BY <4>2 DEF Creating
        <5>2. j < 1 /\ j \in Nat \ {0}
          BY <3>1, <3>2, <4>2, <5>1, Advance, RestShifts DEF Creating
        <5> QED
          BY <5>2
      <4>4. \A m \in Kernels : ~looping'[m]
        <5>1. looping' = looping \/ looping' = [looping EXCEPT ![k] = FALSE]
          BY <2>6, <2>7, <3>1, <4>3 DEF SelectMax, WriteBlob, EnterLoop, InsertCheckpoint, RefuseTerminal, Doing
        <5> QED
          BY <4>1, <5>1 DEF BeforeCreation, TypeInv
      <4> QED
        BY <3>1, <3>3, <4>1, <4>3, <4>4, BeforeStatement
    <3> QED
      BY <1>3, <2>6, <3>1, <3>5, <3>6
  <2>8. ASSUME NEW k \in Kernels, SetStatus(k) \/ RegisterRow(k) PROVE RowInv'
    <3>1. /\ todo[k] # <<>> /\ Done(k) /\ UNCHANGED <<events, ops, looping>>
          /\ Head(todo[k]).do \in {"set", "register"} /\ (RegisterRow(k) => Head(todo[k]).do = "register")
      BY <2>8 DEF SetStatus, RegisterRow, Doing
    <3>2. /\ todo[k][1].do \in {"set", "register"} /\ 1 \in DOMAIN todo[k]
          /\ (RegisterRow(k) => todo[k][1].do = "register")
      BY <2>6, <3>1
    <3>3. Created => AfterCreation'
      <4> SUFFICES ASSUME Created PROVE AfterCreation'
        OBVIOUS
      <4>1. SetStatus(k)
        BY <1>2, <2>8, <3>2 DEF AfterCreation
      <4> QED
        BY <1>2, <2>1, <4>1, AfterSet
    <3>4. ~Created => BeforeCreation'
      <4> SUFFICES ASSUME ~Created PROVE BeforeCreation'
        OBVIOUS
      <4>1. BeforeCreation /\ \A m \in Kernels : ~looping'[m]
        BY <1>2, <3>1 DEF BeforeCreation
      <4>2. todo[k][1].do # "enter" /\ ~Opens(todo[k][1])
        BY <3>2 DEF Opens
      <4> QED
        BY <2>8, <3>1, <4>1, <4>2, BeforeStatement
    <3> QED
      BY <1>3, <2>6, <3>1, <3>3, <3>4
  <2>9. ASSUME NEW k \in Kernels, Insert(k) PROVE RowInv'
    <3>1. /\ todo[k] # <<>> /\ Done(k) /\ Head(todo[k]).do = "insert"
          /\ UNCHANGED <<rows, ops, looping>>
      BY <2>9 DEF Insert, Doing
    <3>2. todo[k][1].do = "insert"
      BY <2>6, <3>1
    <3>3. /\ Replayed' = (IF Tells(todo[k][1]) THEN todo[k][1].event.status ELSE Replayed)
          /\ Telling' = {} \/ \E i \in Telling' : \A j \in Telling' : j <= i
          /\ Created' <=> Created \/ Opens(todo[k][1])
      BY <2>9, ReplayedAfterInsert
    <3>4. ASSUME Created PROVE AfterCreation'
      <4>1. CASE Tells(todo[k][1])
        BY <1>2, <2>1, <2>9, <3>4, <4>1, AfterTell
      <4>2. CASE ~Tells(todo[k][1])
        BY <1>2, <2>2, <3>1, <3>2, <3>3, <3>4, <4>2, AfterSkip
      <4> QED
        BY <4>1, <4>2
    <3>5. ASSUME ~Created, Opens(todo[k][1]) PROVE AfterCreation'
      BY <1>2, <2>9, <3>5, BeforeOpen
    <3>6. ASSUME ~Created, ~Opens(todo[k][1]) PROVE BeforeCreation'
      <4>1. BeforeCreation /\ \A m \in Kernels : ~looping'[m]
        BY <1>2, <3>1, <3>6 DEF BeforeCreation
      <4> QED
        BY <2>9, <3>1, <3>2, <3>6, <4>1, BeforeStatement
    <3>7. ops' # 0
      BY <1>2, <3>1
    <3>8. IF Created' THEN AfterCreation' ELSE BeforeCreation'
      BY <3>3, <3>4, <3>5, <3>6
    <3> QED
      BY <2>6, <3>1, <3>3, <3>7, <3>8 DEF RowInv
  <2>10. CASE Tick
    BY <1>4, <2>2, <2>10 DEF Tick
  <2>11. CASE \E r \in Readers : StreamEvents(r)
    BY <1>4, <2>2, <2>11 DEF StreamEvents
  <2>12. ASSUME NEW k \in Kernels, RefuseTerminal(k)
         PROVE  Done(k) \/ todo' = [todo EXCEPT ![k] = <<>>]
    BY <2>12 DEF RefuseTerminal
  <2> QED
    BY <2>1, <2>3, <2>4, <2>5, <2>7, <2>8, <2>9, <2>10, <2>11, <2>12 DEF Step, Statement, Kernels
<1> QED
  BY <1>5, <1>6

\* The columns and the log stay in step, or k still is to bring them there.
THEOREM RowsKept == Spec => []RowInv
  BY InitRowInv, StepRowInv, InductiveInvariant, TypesHold, PTL DEF Spec

\* Where no update is under way the status columns of jobs, processes and
\* task_agent_runtimes are the status that replay derives from the log.
THEOREM RowsAgree == Spec => []RowsAgreeWithLog
<1>1. TypeInv /\ RowInv => RowsAgreeWithLog
  BY DEF TypeInv, RowInv, AfterCreation, Agree, RowsAgreeWithLog
<1> QED
  BY <1>1, RowsKept, TypesHold, PTL
===========================================================================
