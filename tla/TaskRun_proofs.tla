---------------------------- MODULE TaskRun_proofs ---------------------------
(***************************************************************************)
(* Proofs that TaskRun keeps its safety properties for any number of runs,   *)
(* request threads, requests and restarts, with and without store faults.    *)
(***************************************************************************)
EXTENDS TaskRunInv, SequenceTheorems, TLAPS

-----------------------------------------------------------------------------
(* What appending a status does to a log.                                    *)

\* Appending keeps what was recorded and records the new status.
LEMMA AppendRecords ==
    ASSUME NEW log \in Seq(Status), NEW s \in Status
    PROVE  /\ Append(log, s) \in Seq(Status)
           /\ Append(log, s) # << >>
           /\ Recorded(Append(log, s), s)
           /\ \A x : Recorded(log, x) => Recorded(Append(log, s), x)
           /\ \A x : Recorded(Append(log, s), x) => x = s \/ Recorded(log, x)
<1>1. /\ Append(log, s) \in Seq(Status) /\ Append(log, s) # << >>
      /\ Len(Append(log, s)) = Len(log) + 1
      /\ \A i \in 1 .. Len(log) : Append(log, s)[i] = log[i]
      /\ Append(log, s)[Len(log) + 1] = s
  BY AppendProperties
<1>2. Len(log) \in Nat
  BY LenProperties
<1> QED
  BY <1>1, <1>2 DEF Recorded

\* A first closed status stays the first one: the projection of
\* task_status_from_events never leaves a closed status.
LEMMA FirstClosedSticks ==
    ASSUME NEW log \in Seq(Status), NEW s \in Status, FirstClosed(log) # {}
    PROVE  /\ FirstClosed(Append(log, s)) = FirstClosed(log)
           /\ ProjStatus(Append(log, s)) = ProjStatus(log)
<1> DEFINE new == Append(log, s)
<1>1. Len(new) = Len(log) + 1 /\ Len(log) \in Nat /\ new # << >>
  BY AppendProperties, LenProperties
<1>2. \A i \in 1 .. Len(log) : new[i] = log[i]
  BY AppendProperties
<1> HIDE DEF new
<1>3. PICK k \in 1 .. Len(log) : IsFirstClosed(log, k)
  BY DEF FirstClosed
<1>4. \A i \in 1 .. Len(log) : IsFirstClosed(new, i) <=> IsFirstClosed(log, i)
  BY <1>1, <1>2 DEF IsFirstClosed
<1>5. ~IsFirstClosed(new, Len(log) + 1)
  BY <1>1, <1>2, <1>3 DEF IsFirstClosed
<1>6. FirstClosed(new) = FirstClosed(log)
  BY <1>1, <1>4, <1>5 DEF FirstClosed
<1>7. log # << >>
  BY <1>3
<1>8. (CHOOSE i \in FirstClosed(log) : TRUE) \in 1 .. Len(log)
  BY DEF FirstClosed
<1>9. ProjStatus(new) = ProjStatus(log)
  BY <1>1, <1>2, <1>6, <1>7, <1>8 DEF ProjStatus
<1> QED
  BY <1>6, <1>9 DEF new

\* The first closed status appended to an open log is its first closed one.
LEMMA FirstClosedAppears ==
    ASSUME NEW log \in Seq(Status), NEW s \in Closed,
           ~ \E x \in Closed : Recorded(log, x)
    PROVE  FirstClosed(Append(log, s)) # {}
<1>1. Len(Append(log, s)) = Len(log) + 1 /\ Len(log) \in Nat
  BY AppendProperties, LenProperties DEF Status
<1>2. Append(log, s)[Len(log) + 1] = s
  BY AppendProperties DEF Status
<1>3. \A i \in 1 .. Len(log) : Append(log, s)[i] = log[i]
  BY AppendProperties DEF Status
<1>4. \A i \in 1 .. Len(log) : log[i] \notin Closed
  BY DEF Recorded
<1>5. IsFirstClosed(Append(log, s), Len(log) + 1)
  BY <1>1, <1>2, <1>3, <1>4 DEF IsFirstClosed
<1> QED
  BY <1>1, <1>5 DEF FirstClosed

\* What a reader of a non-empty log sees was recorded in it.
LEMMA StatusesAreRecorded ==
    ASSUME NEW log \in Seq(Status), log # << >>
    PROVE  /\ ProjStatus(log) \in Status /\ Recorded(log, ProjStatus(log))
           /\ KernelStatus(log) \in Status /\ Recorded(log, KernelStatus(log))
<1>1. Len(log) \in 1 .. Len(log) /\ \A i \in 1 .. Len(log) : log[i] \in Status
  BY EmptySeq, ElementOfSeq
<1>2. FirstClosed(log) # {} =>
         (CHOOSE i \in FirstClosed(log) : TRUE) \in 1 .. Len(log)
  BY DEF FirstClosed
<1> QED
  BY <1>1, <1>2 DEF ProjStatus, KernelStatus, Recorded

-----------------------------------------------------------------------------
(* What a step does to the logs of the jobs.                                 *)

\* The log of r is still one, and whatever was true of it for good still is.
LogGrows(r) ==
    /\ truth'[r] \in Seq(Status)
    /\ LogInv(r)'
    /\ HasLog(r) => HasLog(r)'
    /\ \A x : Recorded(truth[r], x) => Recorded(truth'[r], x)
    /\ Shown(r) \in Closed => Shown(r)' = Shown(r)

\* A reader that sees a closed status sees the first closed one.
LEMMA ClosedIsFirst ==
    ASSUME NEW r \in Runs, truth[r] \in Seq(Status), LogInv(r), Shown(r) \in Closed
    PROVE  HasLog(r) /\ FirstClosed(truth[r]) # {} /\ Recorded(truth[r], Shown(r))
<1>1. HasLog(r)
  BY DEF HasLog, Shown, ProjStatus, Closed
<1>2. Recorded(truth[r], Shown(r))
  BY <1>1, StatusesAreRecorded DEF HasLog, Shown
<1> QED
  BY <1>1, <1>2 DEF LogInv

\* Appending a status to one log lets every log grow.
LEMMA AppendGrows ==
    ASSUME truth \in [Runs -> Seq(Status)], \A r \in Runs : LogInv(r),
           NEW q \in Runs, NEW s \in Status, HasLog(q) \/ s = "running",
           Append1(q, s)
    PROVE  (\A r \in Runs : LogGrows(r)) /\ HasLog(q)' /\ Recorded(truth'[q], s)
<1>1. truth'[q] = Append(truth[q], s) /\ truth[q] \in Seq(Status)
  BY DEF Append1
<1>2. /\ truth'[q] \in Seq(Status) /\ truth'[q] # << >> /\ Recorded(truth'[q], s)
      /\ \A x : Recorded(truth[q], x) => Recorded(truth'[q], x)
      /\ \A x : Recorded(truth'[q], x) => x = s \/ Recorded(truth[q], x)
  BY <1>1, AppendRecords
<1>3. Shown(q) \in Closed => Shown(q)' = Shown(q)
  BY <1>1, ClosedIsFirst, FirstClosedSticks DEF Shown
<1>4. (\E x \in Closed : Recorded(truth'[q], x)) => FirstClosed(truth'[q]) # {}
  <2>1. CASE \E x \in Closed : Recorded(truth[q], x)
    BY <2>1, <1>1, FirstClosedSticks DEF LogInv
  <2>2. CASE ~ \E x \in Closed : Recorded(truth[q], x)
    BY <2>2, <1>1, <1>2, FirstClosedAppears
  <2> QED
    BY <2>1, <2>2
<1>5. Recorded(truth'[q], "running")
  BY <1>2 DEF LogInv
<1>6. LogGrows(q)
  BY <1>2, <1>3, <1>4, <1>5 DEF LogGrows, LogInv, HasLog
<1>7. \A r \in Runs \ {q} : truth'[r] = truth[r]
  BY DEF Append1
<1>8. \A r \in Runs \ {q} : LogGrows(r)
  BY <1>7 DEF LogGrows, LogInv, HasLog, Shown
<1> QED
  BY <1>2, <1>6, <1>8 DEF HasLog

\* A step that leaves the log alone lets it grow.
LEMMA UnchangedGrows ==
    ASSUME truth \in [Runs -> Seq(Status)], \A r \in Runs : LogInv(r), truth' = truth
    PROVE  \A r \in Runs : LogGrows(r)
BY DEF LogGrows, LogInv, HasLog, Shown

-----------------------------------------------------------------------------
(* What the statements on a registry row do to its columns.                  *)

\* What the registry makes of a row is a row.
LEMMA RowUpdates ==
    ASSUME NEW w \in Row
    PROVE  /\ NewRow \in Row /\ NewRow.status = "queued"
           /\ ~NewRow.cancel /\ ~NewRow.bound
           /\ LET n == SetStatus(w, "running", FALSE) IN
                 n \in Row /\ n.status = "running" /\ n.cancel = w.cancel /\ n.bound = w.bound
           /\ LET n == BindRow(w) IN
                 n \in Row /\ n.bound /\ n.status = w.status /\ n.cancel = w.cancel
           /\ LET n == RequestCancel(w) IN
                 /\ n \in Row /\ n.bound = w.bound
                 /\ n.status \in {w.status, "cancel_requested"}
BY DEF Row, RunStatus, ActiveRun, NewRow, NoRow, SetStatus, BindRow, RequestCancel, Final

\* A completed row.
LEMMA CompletedRow ==
    ASSUME NEW w \in Row, NEW s \in Status
    PROVE  /\ CompleteRun(w, s) \in Row
           /\ CompleteRun(w, s).cancel = w.cancel /\ CompleteRun(w, s).bound = w.bound
           /\ CompleteRun(w, s).status \in {s, "failed"} \ {"interrupted"}
BY DEF Row, RunStatus, ActiveRun, Status, Closed, Open, CompleteRun, SetStatus,
       RunTerminalStatus

\* A failed row is terminal.
LEMMA FailedRow ==
    ASSUME NEW w \in Row, NEW b \in BOOLEAN
    PROVE  /\ FailRun(w, b) \in Row /\ FailRun(w, b).status = "failed"
           /\ FailRun(w, b).cancel = w.cancel /\ FailRun(w, b).bound = w.bound
BY DEF Row, RunStatus, ActiveRun, Closed, FailRun, SetStatus

\* A repair leaves a row alone or gives it the status it was called with.
LEMMA RepairedRow ==
    ASSUME NEW w \in Row, NEW s \in Status, NEW n \in {RepairStale(w, s), RepairLocked(w, s)}
    PROVE  /\ n \in Row /\ n.bound = w.bound
           /\ n = w \/ (n.status = s /\ ~n.cancel)
BY DEF Row, RunStatus, ActiveRun, Status, Closed, Open, RepairStale, RepairLocked, Repaired

-----------------------------------------------------------------------------
(* Types.                                                                    *)

\* An idle thread is a thread.
LEMMA IdleThread == Idle \in Thread /\ Idle.pc = "idle" /\ Idle.op = "none"
<1>1. (CHOOSE r \in Runs : TRUE) \in Runs
  BY RunsAssumption
<1> QED
  BY <1>1 DEF Idle, Thread, ThreadPc, ThreadOp, Seen

\* A thread that becomes a thread, and what the usual steps make of it.
LEMMA ThreadUpdates ==
    ASSUME thread \in [Threads -> Thread], NEW t \in Threads
    PROVE  /\ \A n \in Thread : Become(t, n) =>
                 /\ thread' \in [Threads -> Thread] /\ thread'[t] = n
                 /\ \A u \in Threads \ {t} : thread'[u] = thread[u]
           /\ \A pc \in ThreadPc : [thread[t] EXCEPT !.pc = pc] \in Thread
           /\ \A pc \in ThreadPc, s \in Seen :
                 [thread[t] EXCEPT !.pc = pc, !.st = s] \in Thread
           /\ \A pc \in ThreadPc, s \in Seen :
                 [thread[t] EXCEPT !.pc = pc, !.st = s, !.shown = s] \in Thread
           /\ \A s \in Seen : [thread[t] EXCEPT !.pc = "repair", !.shown = s] \in Thread
           /\ [thread[t] EXCEPT !.pc = "cancel", !.op = "cancel"] \in Thread
<1> DEFINE h == thread[t]
<1>1. h \in Thread
  OBVIOUS
<1>2. \A n \in Thread : Become(t, n) =>
         /\ thread' \in [Threads -> Thread] /\ thread'[t] = n
         /\ \A u \in Threads \ {t} : thread'[u] = thread[u]
  BY DEF Become
<1> HIDE DEF h
<1>3. \A pc \in ThreadPc : [h EXCEPT !.pc = pc] \in Thread
  BY <1>1 DEF Thread
<1>4. \A pc \in ThreadPc, s \in Seen : [h EXCEPT !.pc = pc, !.st = s] \in Thread
  BY <1>1 DEF Thread
<1>5. \A s \in Seen : [h EXCEPT !.pc = "repair", !.shown = s] \in Thread
  BY <1>1 DEF Thread, ThreadPc
<1>6. [h EXCEPT !.pc = "cancel", !.op = "cancel"] \in Thread
  BY <1>1 DEF Thread, ThreadPc, ThreadOp
<1>7. \A pc \in ThreadPc, s \in Seen :
         [h EXCEPT !.pc = pc, !.st = s, !.shown = s] \in Thread
  BY <1>1 DEF Thread
<1> QED
  BY <1>2, <1>3, <1>4, <1>5, <1>6, <1>7 DEF h

\* The steps of a supervisor keep the types.
LEMMA SuperviseTypes ==
    ASSUME IInv, NEW r \in Runs, Supervise(r)
    PROVE  TypeOK'
<1> USE DEF kernel, child, store, super, env, TypeOK
<1> DEFINE w == row[r]
<1>1. TypeOK /\ w \in Row /\ SupInv(r)
  BY DEF IInv
<1>2. fin[r] \in Status \/ sup[r] \notin {"okPhase", "okRun", "okTask"}
  BY <1>1 DEF SupInv, WasRecorded, Known
<1>3. sup[r] = "okRead" => Shown(r) \in Status
  BY <1>1, StatusesAreRecorded DEF SupInv, HasLog, Shown, BindPc
<1>4. serr[r] \in BOOLEAN
  BY <1>1
<1>5. FailRun(w, serr[r]) \in Row
  BY <1>1, <1>4, FailedRow, Zenon
<1> HIDE DEF w
<1>6. CASE InsertRun(r)
  BY <1>1, <1>6, RowUpdates DEF InsertRun, SetRow, Goto, w, Status, Open, Seen, SupPc, BindPc, ReapPc, TailPc
<1>7. CASE MarkRunning(r)
  BY <1>1, <1>7, RowUpdates DEF MarkRunning, SetRow, Goto, w, Status, Open, Seen, SupPc, BindPc, ReapPc, TailPc
<1>8. CASE Spawn(r)
  BY <1>1, <1>8 DEF Spawn, Goto, WorkerState, SupPc, BindPc, ReapPc, TailPc
<1>9. CASE Register(r)
  BY <1>1, <1>9 DEF Register, Goto, SupPc, BindPc, ReapPc, TailPc
<1>10. CASE ReadStarted(r)
  BY <1>1, <1>10 DEF ReadStarted, Goto, SupPc, BindPc, ReapPc, TailPc
<1>11. CASE BindTask(r)
  BY <1>1, <1>11 DEF BindTask, UpsertTask, Goto, Status, Open, Seen, SupPc, BindPc, ReapPc, TailPc
<1>12. CASE BindRun(r)
  BY <1>1, <1>12, RowUpdates DEF BindRun, SetRow, Goto, w, SupPc, BindPc, ReapPc, TailPc
<1>13. CASE BindPhase(r)
  BY <1>1, <1>13 DEF BindPhase, Goto, Status, Open, Seen, PhaseValue, SupPc, BindPc, ReapPc, TailPc
<1>14. CASE ReadCompleted(r)
  BY <1>1, <1>14 DEF ReadCompleted, Goto, SupPc, BindPc, ReapPc, TailPc
<1>15. CASE ReadEof(r)
  BY <1>1, <1>15 DEF ReadEof, Goto, SupPc, BindPc, ReapPc, TailPc
<1>16. CASE ReadCancelFlag(r)
  BY <1>1, <1>16 DEF ReadCancelFlag, Goto, w, Row, SupPc, BindPc, ReapPc, TailPc
<1>17. CASE ReapCancelled(r)
  BY <1>1, <1>17, CompletedRow DEF ReapCancelled, SetRow, Goto, w, Status, Open, Seen, Closed, SupPc, BindPc, ReapPc, TailPc
<1>18. CASE FailAtEof(r)
  BY <1>1, <1>18, FailedRow DEF FailAtEof, SetRow, Goto, w, Status, Open, Seen, SupPc, BindPc, ReapPc, TailPc
<1>19. CASE ReadFinalStatus(r)
  BY <1>1, <1>19, <1>3 DEF ReadFinalStatus, Goto, Status, Open, Seen, SupPc, BindPc, ReapPc, TailPc
<1>20. CASE FinishPhase(r)
  BY <1>1, <1>20, <1>2 DEF FinishPhase, SetPhase, PhaseOf, Goto, PhaseValue, Status, Closed, Open, Seen, SupPc, BindPc, ReapPc, TailPc
<1>21. CASE FinishRun(r)
  BY <1>1, <1>21, <1>2, CompletedRow DEF FinishRun, SetRow, Goto, w, Status, Open, Seen, SupPc, BindPc, ReapPc, TailPc
<1>22. CASE FinishTask(r)
  BY <1>1, <1>22, <1>2 DEF FinishTask, UpsertTask, Goto, Status, Open, Seen, SupPc, BindPc, ReapPc, TailPc
<1>23. CASE FailStream(r)
  BY <1>1, <1>23, <1>5, FailedRow DEF FailStream, SetRow, Goto, w, Status, Open, Seen, SupPc, BindPc, ReapPc, TailPc
<1> QED
  BY <1>6, <1>7, <1>8, <1>9, <1>10, <1>11, <1>12, <1>13, <1>14, <1>15, <1>16, <1>17, <1>18, <1>19, <1>20, <1>21, <1>22, <1>23 DEF Supervise

\* The steps of a worker keep the types.
LEMMA WorkTypes ==
    ASSUME IInv, NEW r \in Runs, Work(r) \/ WorkerFails(r)
    PROVE  TypeOK'
<1> USE DEF kernel, child, store, super, env, TypeOK
<1>1. TypeOK /\ WorkerInv(r)
  BY DEF IInv
<1>2. /\ \A s \in Status : Append(truth[r], s) \in Seq(Status)
      /\ \A l \in {"started", "completed"} :
            Append(pipe[r], l) \in Seq({"started", "completed"})
  BY <1>1, AppendProperties
<1>3. CASE WorkerStartJob(r)
  <2>1. truth' \in [Runs -> Seq(Status)] /\ timeline' \in [Runs -> Seen]
    BY <1>1, <1>2, <1>3 DEF WorkerStartJob, Append1, Status, Open, Seen
  <2>2. worker' \in [Runs -> WorkerState] /\ pipe' \in [Runs -> Seq({"started", "completed"})]
    BY <1>1, <1>2, <1>3 DEF WorkerStartJob, WorkerState
  <2> QED
    BY <1>1, <1>3, <2>1, <2>2 DEF WorkerStartJob
<1>4. CASE WorkerOutcome(r)
  BY <1>1, <1>2, <1>4, OutcomesAssumption DEF WorkerOutcome, Append1, WorkerState,
     Status, Open, Closed, Seen
<1>5. CASE WorkerFinish(r)
  BY <1>1, <1>2, <1>5 DEF WorkerFinish, WasRecorded, Known, WorkerState, Seen
<1>6. CASE WorkerFails(r)
  BY <1>1, <1>6 DEF WorkerFails, WorkerState
<1> QED
  BY <1>3, <1>4, <1>5, <1>6 DEF Work

\* The steps of a request thread keep the types.
LEMMA ThreadTypes ==
    ASSUME IInv, NEW t \in Threads, ThreadStep(t)
    PROVE  TypeOK'
<1> USE DEF kernel, child, store, super, env, TypeOK
<1> DEFINE h == thread[t]
           w == row[h.run]
<1>1. TypeOK /\ ThreadInv(t)
  BY DEF IInv
<1>2. /\ h \in Thread /\ h.run \in Runs /\ h.st \in Seen /\ h.op \in ThreadOp
      /\ h.shown \in Seen /\ w \in Row /\ truth[h.run] \in Seq(Status)
  BY <1>1 DEF Thread
<1>3. h.pc \in {"listWrite", "store", "repair", "locked", "phase", "upsert"} => h.st \in Status
  BY <1>1 DEF ThreadInv, HandlerInv, FreshPc, WasRecorded, Known
<1>4. h.pc # "idle" => /\ Shown(h.run) \in Status
                       /\ KernelStatus(truth[h.run]) \in Status
  BY <1>1, <1>2, StatusesAreRecorded DEF ThreadInv, HandlerInv, HasLog, Shown
<1>5. \A s \in Status : Append(truth[h.run], s) \in Seq(Status)
  BY <1>2, AppendProperties
<1>6. \A n \in Thread : Become(t, n) => thread' \in [Threads -> Thread]
  BY <1>1, ThreadUpdates
<1>7. /\ \A pc \in ThreadPc : Step(t, pc) => thread' \in [Threads -> Thread]
      /\ \A pc \in ThreadPc, s \in Seen : StepWith(t, pc, s) => thread' \in [Threads -> Thread]
      /\ Finish(t) => thread' \in [Threads -> Thread]
  BY <1>1, ThreadUpdates, IdleThread DEF Step, StepWith, Finish
<1>8. AfterRecord(h.op) \in ThreadPc /\ "reread" \in ThreadPc /\ "store" \in ThreadPc
  BY DEF AfterRecord, ThreadPc
<1>9. CASE ListWrite(t)
  BY <1>1, <1>9, <1>3, <1>7 DEF ListWrite, At, UpsertTask, Seen, ThreadPc
<1>10. CASE Load(t)
  <2>1. Shown(h.run) \in Seen
    BY <1>10, <1>4 DEF Load, At, Seen
  <2>2. [h EXCEPT !.pc = AfterRecord(h.op), !.st = Shown(h.run), !.shown = Shown(h.run)]
          \in Thread
    BY <1>1, <1>8, <2>1, ThreadUpdates
  <2>3. thread' \in [Threads -> Thread]
    BY <1>10, <1>6, <1>7, <1>8, <2>1, <2>2 DEF Load
  <2> QED
    BY <1>1, <1>10, <2>3 DEF Load
<1>11. CASE Store(t)
  BY <1>1, <1>11, <1>3, <1>7, <1>8 DEF Store, At, UpsertTask, Seen
<1>12. CASE Reread(t)
  BY <1>1, <1>12, <1>2, <1>6, ThreadUpdates DEF Reread, At, Seen
<1>13. CASE RepairLockedRow(t)
  BY <1>1, <1>13, <1>2, <1>3, <1>7, RepairedRow DEF RepairLockedRow, At, SetRow, ThreadPc
<1>14. CASE RepairRow(t)
  BY <1>1, <1>14, <1>2, <1>3, <1>7, RepairedRow DEF RepairRow, At, SetRow, ThreadPc
<1>15. CASE Decide(t)
  BY <1>1, <1>15, <1>2, <1>6, <1>7, ThreadUpdates DEF Decide, At, ThreadPc
<1>16. CASE CancelJob(t)
  BY <1>1, <1>16, <1>2, <1>5, <1>7 DEF CancelJob, At, Append1, ThreadPc, Seen, Status, Closed
<1>17. CASE SyncTimeline(t)
  BY <1>1, <1>17, <1>2, <1>4, <1>7 DEF SyncTimeline, At, ThreadPc, Seen, Status, Closed
<1>18. CASE MarkCancelled(t)
  BY <1>1, <1>18, <1>2, <1>7, RowUpdates DEF MarkCancelled, At, SetRow, ThreadPc
<1>26. CASE FindRun(t)
  <2>1. Step(t, "kill") \/ Step(t, "phase")
    BY <1>26 DEF FindRun
  <2>2. thread' \in [Threads -> Thread]
    BY <1>7, <2>1 DEF ThreadPc
  <2> QED
    BY <1>1, <1>26, <2>2 DEF FindRun
<1>19. CASE KillWorker(t)
  BY <1>1, <1>19, <1>2, <1>7 DEF KillWorker, At, WorkerState, ThreadPc
<1>20. CASE WritePhase(t)
  BY <1>1, <1>20, <1>2, <1>3, <1>7 DEF WritePhase, At, SetPhase, PhaseOf, PhaseValue, Status, Closed, Open, ThreadPc
<1>21. CASE CheckResume(t)
  BY <1>1, <1>21, <1>7 DEF CheckResume, At, ThreadPc
<1>22. CASE Resume(t)
  BY <1>1, <1>22, <1>2, <1>5, <1>7 DEF Resume, At, Append1, ThreadPc, Status, Open
<1>23. CASE InputOutcome(t)
  BY <1>1, <1>23, <1>2, <1>5, <1>7, OutcomesAssumption DEF InputOutcome, At, Append1, ThreadPc, Status, Open, Closed
<1>24. CASE InputFinal(t)
  BY <1>1, <1>24, <1>2, <1>4, <1>7 DEF InputFinal, At, ThreadPc, Seen
<1>25. CASE InputUpsert(t)
  BY <1>1, <1>25, <1>3, <1>7 DEF InputUpsert, At, UpsertTask, Seen, ThreadPc
<1> QED
  BY <1>9, <1>10, <1>11, <1>12, <1>13, <1>14, <1>15, <1>16, <1>17, <1>18, <1>19, <1>20, <1>21, <1>22, <1>23, <1>24, <1>25, <1>26 DEF ThreadStep

\* The other steps keep the types.
LEMMA OtherTypes ==
    ASSUME IInv,
           \/ \E r \in Runs : \/ PollRead(r) \/ PollRepair(r) \/ RunCommandFails(r)
                              \/ StreamFails(r) \/ SpawnFails(r)
           \/ \E t \in Threads : \/ ThreadFails(t)
                                 \/ \E r \in Runs : StartRequest(t, r) \/ StartRepair(t, r)
           \/ Restart
    PROVE  TypeOK'
<1> USE DEF kernel, child, store, super, env, TypeOK
<1>1. TypeOK
  BY DEF IInv
<1>2. ASSUME NEW r \in Runs, PollRead(r)
      PROVE  TypeOK'
  BY <1>1, <1>2 DEF PollRead
<1>3. ASSUME NEW r \in Runs, PollRepair(r)
      PROVE  TypeOK'
  <2>1. row[r] \in Row /\ poll[r] \in Status
    BY <1>1, <1>3 DEF PollRepair, Status
  <2>2. RepairStale(row[r], poll[r]) \in Row
    BY <2>1, RepairedRow
  <2> QED
    BY <1>1, <1>3, <2>2 DEF PollRepair, SetRow
<1>4. ASSUME NEW r \in Runs, RunCommandFails(r) \/ StreamFails(r) \/ SpawnFails(r)
      PROVE  TypeOK'
  BY <1>1, <1>4 DEF RunCommandFails, StreamFails, SpawnFails, Goto, SupPc, TailPc
<1>5. ASSUME NEW t \in Threads, ThreadFails(t)
      PROVE  TypeOK'
  BY <1>1, <1>5, IdleThread DEF ThreadFails, Finish, Become
<1>6. ASSUME NEW t \in Threads, NEW r \in Runs, StartRequest(t, r) \/ StartRepair(t, r)
      PROVE  TypeOK'
  <2>1. ASSUME NEW op \in ThreadOp, NEW pc \in ThreadPc, NEW s \in Seen, Begin(t, r, op, pc, s)
        PROVE  thread' \in [Threads -> Thread]
    <3>1. [pc |-> pc, op |-> op, run |-> r, st |-> s, shown |-> "absent"] \in Thread
      BY DEF Thread, Seen
    <3> QED
      BY <1>1, <2>1, <3>1, ThreadUpdates DEF Begin
  <2>2. /\ {"get", "list", "close", "input", "startup"} \subseteq ThreadOp
        /\ {"load", "listWrite", "check"} \subseteq ThreadPc /\ "absent" \in Seen
    BY DEF ThreadOp, ThreadPc, Seen
  <2>3. CASE StartRequest(t, r)
    BY <1>1, <2>1, <2>2, <2>3, BoundsAssumption
       DEF StartRequest, StartGet, StartList, StartClose, StartInput
  <2>4. CASE StartRepair(t, r)
    BY <1>1, <2>1, <2>2, <2>4 DEF StartRepair
  <2> QED
    BY <1>6, <2>3, <2>4
<1>7. CASE Restart
  BY <1>1, <1>7, IdleThread, BoundsAssumption DEF Restart, SupPc
<1> QED
  BY <1>2, <1>3, <1>4, <1>5, <1>6, <1>7

-----------------------------------------------------------------------------
(* What one step does to each store, for any run q.                          *)

\* No step takes an event out of a log.
LEMMA LogsGrow ==
    ASSUME IInv, [Next]_vars
    PROVE  \A q \in Runs : LogGrows(q)
<1>1. truth \in [Runs -> Seq(Status)] /\ \A r \in Runs : LogInv(r) /\ WorkerInv(r)
  BY DEF IInv, TypeOK
<1>2. \A t \in Threads : thread[t].run \in Runs /\ ThreadInv(t)
  BY DEF IInv, TypeOK, Thread
<1>3. Outcomes \subseteq Status /\ "running" \in Status /\ "cancelled" \in Status
  BY OutcomesAssumption DEF Status, Closed, Open
<1>4. CASE truth' = truth
  BY <1>1, <1>4, UnchangedGrows
<1>5. ASSUME NEW r \in Runs, WorkerStartJob(r)
      PROVE  \A q \in Runs : LogGrows(q)
  BY <1>1, <1>3, <1>5, AppendGrows DEF WorkerStartJob
<1>6. ASSUME NEW r \in Runs, WorkerOutcome(r)
      PROVE  \A q \in Runs : LogGrows(q)
  <2>1. HasLog(r)
    BY <1>1, <1>6 DEF WorkerInv, WorkerOutcome
  <2> QED
    BY <1>1, <1>3, <1>6, <2>1, AppendGrows DEF WorkerOutcome
<1>7. ASSUME NEW t \in Threads, CancelJob(t) \/ Resume(t) \/ InputOutcome(t)
      PROVE  \A q \in Runs : LogGrows(q)
  <2>1. HasLog(thread[t].run)
    BY <1>2, <1>7 DEF ThreadInv, HandlerInv, HasLog, CancelJob, Resume, InputOutcome, At
  <2>2. \E s \in Status : Append1(thread[t].run, s)
    BY <1>3, <1>7 DEF CancelJob, Resume, InputOutcome
  <2> QED
    BY <1>1, <1>2, <2>1, <2>2, AppendGrows
<1>8. \A r \in Runs : Supervise(r) => truth' = truth
  BY DEF Supervise, InsertRun, MarkRunning, Spawn, Register, ReadStarted, BindTask,
         BindRun, BindPhase, ReadCompleted, ReadEof, ReadCancelFlag, ReapCancelled,
         FailAtEof, ReadFinalStatus, FinishPhase, FinishRun, FinishTask, FailStream, kernel
<1>9. \A t \in Threads : ThreadStep(t) =>
          truth' = truth \/ CancelJob(t) \/ Resume(t) \/ InputOutcome(t)
  BY DEF ThreadStep, ListWrite, Load, Store, Reread, RepairLockedRow, RepairRow, Decide,
         SyncTimeline, MarkCancelled, FindRun, KillWorker, WritePhase, CheckResume, InputFinal,
         InputUpsert, kernel
<1>10. \A r \in Runs : Work(r) => truth' = truth \/ WorkerStartJob(r) \/ WorkerOutcome(r)
  BY DEF Work, WorkerFinish
<1>11. \A t \in Threads, r \in Runs : StartRequest(t, r) \/ StartRepair(t, r) => truth' = truth
  BY DEF StartRequest, StartGet, StartList, StartClose, StartInput, StartRepair, kernel
<1>12. \A r \in Runs : \/ PollRead(r) \/ PollRepair(r) \/ RunCommandFails(r)
                        \/ StreamFails(r) \/ SpawnFails(r) \/ WorkerFails(r)
          => truth' = truth
  BY DEF PollRead, PollRepair, RunCommandFails, StreamFails, SpawnFails, WorkerFails, kernel
<1>13. Restart \/ UNCHANGED vars => truth' = truth
  BY DEF Restart, vars, kernel
<1>14. \A t \in Threads : ThreadFails(t) => truth' = truth
  BY DEF ThreadFails, kernel
<1> QED
  BY <1>4, <1>5, <1>6, <1>7, <1>8, <1>9, <1>10, <1>11, <1>12, <1>13, <1>14 DEF Next

Flagged(n) == n.cancel \/ n.status \in {"cancel_requested", "cancelled"}

\* A new row only claims what the log of the job supports.
RowEffect(q, n) ==
    /\ n.status \in {"completed", "blocked", "interrupted"}
           => n.status = row[q].status \/ n.status = Shown(q)
    /\ Flagged(n) => Flagged(row[q]) \/ Recorded(truth[q], "cancelled")
    /\ n.bound => row[q].bound \/ sup[q] = "bindRun"

\* A row written with an allowed effect is the only row that changes.
LEMMA SetRowEffect ==
    ASSUME TypeOK, NEW r \in Runs, NEW n, SetRow(r, n), RowEffect(r, n), NEW q \in Runs
    PROVE  RowEffect(q, row'[q])
BY DEF TypeOK, SetRow, RowEffect, Flagged

\* A repair writes a status the log had, if it still has it.
LEMMA RepairEffect ==
    ASSUME NEW r \in Runs, row[r] \in Row, NEW s, WasRecorded(r, s), StillTrue(r, s),
           NEW n \in {RepairStale(row[r], s), RepairLocked(row[r], s)}
    PROVE  RowEffect(r, n)
<1>1. n.bound = row[r].bound /\ (n = row[r] \/ (n.status = s /\ ~n.cancel))
  BY RepairedRow DEF WasRecorded, Known
<1>2. CASE n = row[r]
  BY <1>2 DEF RowEffect, Flagged
<1>3. CASE n.status = s /\ ~n.cancel
  <2>1. s \in Status /\ (s = "cancelled" => Recorded(truth[r], "cancelled"))
    BY DEF WasRecorded, Known
  <2>2. s \in {"completed", "blocked", "interrupted"} => s = Shown(r)
    BY DEF StillTrue, Current, Shown, Closed
  <2>3. s # "cancel_requested"
    BY <2>1 DEF Status, Closed, Open
  <2> QED
    BY <1>1, <1>3, <2>1, <2>2, <2>3 DEF RowEffect, Flagged
<1> QED
  BY <1>1, <1>2, <1>3

\* Every step changes a row by one of the effects allowed.
LEMMA RowsAreSupported ==
    ASSUME IInv, [Next]_vars, NEW q \in Runs
    PROVE  RowEffect(q, row'[q])
<1>1. TypeOK /\ \A r \in Runs : row[r] \in Row
  BY DEF IInv, TypeOK
<1>2. \A t \in Threads : thread[t].run \in Runs /\ ThreadInv(t)
  BY DEF IInv, TypeOK, Thread
<1>3. CASE row' = row
  BY <1>3 DEF RowEffect, Flagged
<1>4. ASSUME NEW r \in Runs, InsertRun(r) \/ MarkRunning(r)
      PROVE  RowEffect(q, row'[q])
  <2>1. RowEffect(r, NewRow) /\ RowEffect(r, SetStatus(row[r], "running", FALSE))
    BY <1>1, RowUpdates DEF RowEffect, Flagged
  <2> QED
    BY <1>1, <1>4, <2>1, SetRowEffect DEF InsertRun, MarkRunning
<1>5. ASSUME NEW r \in Runs, BindRun(r)
      PROVE  RowEffect(q, row'[q])
  <2>1. RowEffect(r, BindRow(row[r]))
    BY <1>1, <1>5, RowUpdates DEF BindRun, RowEffect, Flagged
  <2> QED
    BY <1>1, <1>5, <2>1, SetRowEffect DEF BindRun
<1>6. ASSUME NEW r \in Runs, ReapCancelled(r)
      PROVE  RowEffect(q, row'[q])
  <2>1. Recorded(truth[r], "cancelled")
    BY <1>6 DEF IInv, SupInv, ReapCancelled
  <2>2. RowEffect(r, CompleteRun(row[r], "cancelled"))
    BY <1>1, <2>1, CompletedRow DEF RowEffect, Flagged, Status, Closed
  <2> QED
    BY <1>1, <1>6, <2>2, SetRowEffect DEF ReapCancelled
<1>7. ASSUME NEW r \in Runs, FailAtEof(r) \/ FailStream(r)
      PROVE  RowEffect(q, row'[q])
  <2>1. serr[r] \in BOOLEAN
    BY <1>1 DEF TypeOK
  <2>2. RowEffect(r, FailRun(row[r], FALSE))
    BY <1>1, FailedRow DEF RowEffect, Flagged
  <2>3. LET n == FailRun(row[r], serr[r]) IN
          n.status = "failed" /\ n.cancel = row[r].cancel /\ n.bound = row[r].bound
    BY <1>1, <2>1, FailedRow, Zenon
  <2>4. RowEffect(r, FailRun(row[r], serr[r]))
    BY <2>3 DEF RowEffect, Flagged
  <2> QED
    BY <1>1, <1>7, <2>2, <2>4, SetRowEffect DEF FailAtEof, FailStream
<1>8. ASSUME NEW r \in Runs, FinishRun(r)
      PROVE  RowEffect(q, row'[q])
  <2>1. WasRecorded(r, fin[r]) /\ StillTrue(r, fin[r])
    BY <1>8 DEF IInv, SupInv, FinishRun
  <2> DEFINE n == CompleteRun(row[r], fin[r])
  <2>2. /\ n.cancel = row[r].cancel /\ n.bound = row[r].bound
        /\ n.status \in {fin[r], "failed"} \ {"interrupted"}
    BY <1>1, <2>1, CompletedRow DEF WasRecorded, Known
  <2> HIDE DEF n
  <2>3. n.status \in {"completed", "blocked", "cancelled"} => n.status = Shown(r)
    BY <2>1, <2>2 DEF StillTrue, Current, Shown, Closed
  <2>4. n.status = "cancelled" => Recorded(truth[r], "cancelled")
    BY <2>1, <2>2 DEF WasRecorded, Known
  <2>5. n.status # "cancel_requested"
    BY <2>1, <2>2 DEF WasRecorded, Known, Status, Closed, Open
  <2>6. RowEffect(r, n)
    BY <2>2, <2>3, <2>4, <2>5 DEF RowEffect, Flagged
  <2> QED
    BY <1>1, <1>8, <2>6, SetRowEffect DEF FinishRun, n
<1>9. ASSUME NEW t \in Threads, RepairLockedRow(t) \/ RepairRow(t)
      PROVE  RowEffect(q, row'[q])
  <2> DEFINE r == thread[t].run
             s == thread[t].st
  <2>1. WasRecorded(r, s) /\ StillTrue(r, s) /\ r \in Runs
    BY <1>2, <1>9 DEF ThreadInv, HandlerInv, WasRecorded, StillTrue, FreshPc, RepairLockedRow, RepairRow, At
  <2> HIDE DEF r, s
  <2>2. RowEffect(r, RepairLocked(row[r], s)) /\ RowEffect(r, RepairStale(row[r], s))
    BY <1>1, <2>1, RepairEffect
  <2>3. RowEffect(r, row[r])
    BY DEF RowEffect, Flagged
  <2> QED
    BY <1>1, <1>9, <2>1, <2>2, <2>3, SetRowEffect DEF RepairLockedRow, RepairRow, r, s
<1>10. ASSUME NEW t \in Threads, MarkCancelled(t)
      PROVE  RowEffect(q, row'[q])
  <2> DEFINE r == thread[t].run
  <2>1. Recorded(truth[r], "cancelled") /\ r \in Runs
    BY <1>2, <1>10 DEF ThreadInv, HandlerInv, MarkCancelled, At
  <2> HIDE DEF r
  <2>2. RowEffect(r, RequestCancel(row[r]))
    BY <1>1, <2>1, RowUpdates DEF RowEffect, Flagged
  <2> QED
    BY <1>1, <1>10, <2>1, <2>2, SetRowEffect DEF MarkCancelled, r
<1>11. ASSUME NEW r \in Runs, PollRepair(r)
      PROVE  RowEffect(q, row'[q])
  <2>1. poll[r] \in Status /\ poll[r] = Shown(r) /\ HasLog(r) /\ truth[r] \in Seq(Status)
    BY <1>11 DEF IInv, TypeOK, PollInv, PollRepair, Status
  <2>2. Recorded(truth[r], poll[r])
    BY <2>1, StatusesAreRecorded DEF HasLog, Shown
  <2>3. RowEffect(r, RepairStale(row[r], poll[r]))
    BY <1>1, <2>1, <2>2, RepairEffect DEF WasRecorded, Known, StillTrue, Current, Shown
  <2> QED
    BY <1>1, <1>11, <2>3, SetRowEffect DEF PollRepair
<1>12. \A r \in Runs : Supervise(r) =>
          \/ row' = row \/ InsertRun(r) \/ MarkRunning(r) \/ BindRun(r) \/ ReapCancelled(r)
          \/ FailAtEof(r) \/ FinishRun(r) \/ FailStream(r)
  BY DEF Supervise, Spawn, Register, ReadStarted, BindTask, BindPhase, ReadCompleted,
         ReadEof, ReadCancelFlag, ReadFinalStatus, FinishPhase, FinishTask, store
<1>13. \A t \in Threads : ThreadStep(t) =>
          row' = row \/ RepairLockedRow(t) \/ RepairRow(t) \/ MarkCancelled(t)
  BY DEF ThreadStep, ListWrite, Load, Store, Reread, Decide, CancelJob, SyncTimeline,
         FindRun, KillWorker, WritePhase, CheckResume, Resume, InputOutcome, InputFinal,
         InputUpsert, store
<1>14. \A r \in Runs : \/ PollRead(r) \/ Work(r) \/ RunCommandFails(r)
                        \/ StreamFails(r) \/ SpawnFails(r) \/ WorkerFails(r)
          => row' = row
  BY DEF PollRead, Work, WorkerStartJob, WorkerOutcome, WorkerFinish, RunCommandFails,
         StreamFails, SpawnFails, WorkerFails, store
<1>15. \A t \in Threads, r \in Runs : StartRequest(t, r) \/ StartRepair(t, r) => row' = row
  BY DEF StartRequest, StartGet, StartList, StartClose, StartInput, StartRepair, store
<1>16. \A t \in Threads : ThreadFails(t) => row' = row
  BY DEF ThreadFails, store
<1>17. Restart \/ UNCHANGED vars => row' = row
  BY DEF Restart, vars, store
<1> QED
  BY <1>3, <1>4, <1>5, <1>6, <1>7, <1>8, <1>9, <1>10, <1>11, <1>12, <1>13, <1>14, <1>15,
     <1>16, <1>17 DEF Next

\* A child comes alive by Spawn only, and is killed by a recorded cancellation.
ChildEffect(q) ==
    /\ worker'[q] \in Alive => worker[q] \in Alive \/ sup[q] = "spawn"
    /\ worker'[q] = "killed" => worker[q] = "killed" \/ Recorded(truth[q], "cancelled")
    /\ worker[q] = "none" => worker'[q] = "none" \/ Spawn(q)

\* A child lives only once spawned and is killed only once its job was cancelled.
LEMMA ChildrenKeepWorkerInv ==
    ASSUME IInv, [Next]_vars, NEW q \in Runs
    PROVE  ChildEffect(q) /\ WorkerInv(q)'
<1>1. /\ TypeOK /\ \A r \in Runs : WorkerInv(r) /\ SupInv(r)
      /\ pipe[q] \in Seq({"started", "completed"})
  BY DEF IInv, TypeOK
<1>2. LogGrows(q)
  BY LogsGrow
<1>3. \A t \in Threads : thread[t].run \in Runs /\ ThreadInv(t)
  BY DEF IInv, TypeOK, Thread
<1> DEFINE Same == worker'[q] = worker[q] /\ pipe'[q] = pipe[q] /\ result'[q] = result[q]
<1>4. CASE Same
  BY <1>1, <1>2, <1>4 DEF ChildEffect, WorkerInv, LogGrows, WasRecorded, Known, HasLog, Alive
<1>5. CASE Spawn(q)
  BY <1>1, <1>2, <1>5 DEF Spawn, TypeOK, ChildEffect, WorkerInv, SupInv, LogGrows, HasLog,
     Alive, kernel
<1>6. CASE ReadStarted(q) \/ ReadCompleted(q)
  <2>1. /\ pipe[q] # << >> /\ pipe'[q] = Tail(pipe[q])
        /\ worker'[q] = worker[q] /\ result'[q] = result[q]
    BY <1>1, <1>6 DEF ReadStarted, ReadCompleted, TypeOK
  <2>2. /\ Len(Tail(pipe[q])) = Len(pipe[q]) - 1 /\ Len(pipe[q]) \in Nat
        /\ \A i \in 1 .. Len(Tail(pipe[q])) : Tail(pipe[q])[i] = pipe[q][i + 1]
    BY <1>1, <2>1, HeadTailProperties, LenProperties
  <2>3. (\E i \in 1 .. Len(pipe'[q]) : pipe'[q][i] = "completed") => worker[q] \notin Alive
    BY <1>1, <2>1, <2>2 DEF WorkerInv
  <2> QED
    BY <1>1, <1>2, <2>1, <2>3 DEF ChildEffect, WorkerInv, LogGrows, WasRecorded, Known, HasLog, Alive
<1>7. CASE WorkerStartJob(q)
  <2>1. HasLog(q)' /\ worker[q] = "spawned" /\ worker'[q] \in {"agent", "exited"}
    <3>1. truth[q] \in Seq(Status) /\ truth'[q] = Append(truth[q], "running")
      BY <1>1, <1>7 DEF WorkerStartJob, Append1, TypeOK
    <3>2. "running" \in Status
      BY DEF Status, Open
    <3>3. HasLog(q)'
      BY <3>1, <3>2, AppendRecords DEF HasLog
    <3> QED
      BY <1>1, <1>7, <3>3 DEF WorkerStartJob, TypeOK
  <2>2. pipe'[q] = pipe[q] \/ (worker'[q] = "agent" /\ pipe'[q] = Append(pipe[q], "started"))
    BY <1>1, <1>7 DEF WorkerStartJob, TypeOK
  <2>3. \A i \in 1 .. Len(pipe[q]) : pipe[q][i] # "completed"
    BY <1>1, <2>1 DEF WorkerInv, Alive
  <2>4. \A i \in 1 .. Len(pipe'[q]) : pipe'[q][i] # "completed"
    BY <1>1, <2>2, <2>3, AppendProperties, LenProperties
  <2> QED
    BY <2>1, <2>4 DEF ChildEffect, WorkerInv, Alive
<1>8. CASE WorkerOutcome(q)
  <2>1. PICK o \in Outcomes : Append1(q, o) /\ result' = [result EXCEPT ![q] = o]
    BY <1>8 DEF WorkerOutcome
  <2>2. o \in Status
    BY OutcomesAssumption DEF Status, Open
  <2>3. Recorded(truth'[q], o) /\ HasLog(q)'
    BY <1>1, <2>1, <2>2, AppendRecords DEF Append1, TypeOK, HasLog
  <2>4. /\ worker[q] = "agent" /\ worker'[q] = "finishing"
        /\ pipe'[q] = pipe[q] /\ result'[q] = o
    BY <1>1, <1>8, <2>1 DEF WorkerOutcome, TypeOK
  <2> QED
    BY <1>1, <2>2, <2>3, <2>4 DEF ChildEffect, WorkerInv, WasRecorded, Known, Alive
<1>9. CASE WorkerFinish(q) \/ WorkerFails(q)
  <2>1. worker[q] \in Alive /\ worker'[q] = "exited" /\ truth' = truth
    BY <1>1, <1>9 DEF WorkerFinish, WorkerFails, TypeOK, Alive, kernel
  <2>2. pipe'[q] # << >> => HasLog(q)
    BY <1>1, <1>9 DEF WorkerFinish, WorkerFails, TypeOK, WorkerInv
  <2> QED
    BY <2>1, <2>2 DEF ChildEffect, WorkerInv, HasLog, Alive
<1>10. ASSUME NEW t \in Threads, KillWorker(t)
       PROVE  ChildEffect(q) /\ WorkerInv(q)'
  <2>1. thread[t].run \in Runs /\ Recorded(truth[thread[t].run], "cancelled")
    BY <1>3, <1>10 DEF ThreadInv, HandlerInv, KillWorker, At
  <2>2. /\ pipe' = pipe /\ result' = result /\ truth' = truth
        /\ \/ worker'[q] = worker[q]
           \/ worker[q] \in Alive /\ worker'[q] = "killed" /\ q = thread[t].run
    BY <1>1, <1>10, <2>1 DEF KillWorker, TypeOK, kernel
  <2> QED
    BY <1>1, <2>1, <2>2 DEF ChildEffect, WorkerInv, WasRecorded, Known, HasLog, Alive
<1>11. \A r \in Runs : Supervise(r) =>
           child' = child \/ Spawn(r) \/ ReadStarted(r) \/ ReadCompleted(r)
  BY DEF Supervise, InsertRun, MarkRunning, Register, BindTask, BindRun, BindPhase, ReadEof,
         ReadCancelFlag, ReapCancelled, FailAtEof, ReadFinalStatus, FinishPhase, FinishRun,
         FinishTask, FailStream, child
<1>12. \A t \in Threads : ThreadStep(t) => child' = child \/ KillWorker(t)
  BY DEF ThreadStep, ListWrite, Load, Store, Reread, RepairLockedRow, RepairRow, Decide,
         CancelJob, SyncTimeline, MarkCancelled, FindRun, WritePhase, CheckResume, Resume,
         InputOutcome, InputFinal, InputUpsert, child
<1>13. \A t \in Threads, r \in Runs : StartRequest(t, r) \/ StartRepair(t, r) => child' = child
  BY DEF StartRequest, StartGet, StartList, StartClose, StartInput, StartRepair, child
<1>14. \A t \in Threads : ThreadFails(t) => child' = child
  BY DEF ThreadFails, child
<1>15. \A r \in Runs : \/ PollRead(r) \/ PollRepair(r) \/ RunCommandFails(r)
                        \/ StreamFails(r) \/ SpawnFails(r)
           => child' = child
  BY DEF PollRead, PollRepair, RunCommandFails, StreamFails, SpawnFails, child
<1>16. Restart \/ UNCHANGED vars => child' = child
  BY DEF Restart, vars, child
<1>17. child' = child => Same
  BY DEF child
<1>18. ASSUME NEW r \in Runs, r # q,
              \/ Spawn(r) \/ ReadStarted(r) \/ ReadCompleted(r) \/ WorkerFails(r)
              \/ WorkerStartJob(r) \/ WorkerOutcome(r) \/ WorkerFinish(r)
       PROVE  Same
  BY <1>1, <1>18 DEF Spawn, ReadStarted, ReadCompleted, WorkerFails, WorkerStartJob,
     WorkerOutcome, WorkerFinish, TypeOK
<1> HIDE DEF Same
<1> QED
  BY <1>4, <1>5, <1>6, <1>7, <1>8, <1>9, <1>10, <1>11, <1>12, <1>13, <1>14, <1>15, <1>16,
     <1>17, <1>18 DEF Next, Work

\* A status written for a task has been recorded in its log.
StoreEffect(q) ==
    /\ task'[q] = task[q] \/ WasRecorded(q, task[q])'
    /\ timeline'[q] = timeline[q] \/ WasRecorded(q, timeline[q])'
    /\ phase'[q] \in {phase[q], "streaming"} \/ WasRecorded(q, phase[q])'

\* Three columns of the thread's or the supervisor's own task, one at a time.
LEMMA WrittenStatus ==
    ASSUME TypeOK, NEW r \in Runs, NEW s, WasRecorded(r, s), LogGrows(r)
    PROVE  /\ UpsertTask(r, s) =>
                 \A q \in Runs : task'[q] = task[q] \/ WasRecorded(q, task[q])'
           /\ SetPhase(r, s) =>
                 \A q \in Runs : phase'[q] \in {phase[q], "streaming"}
                                     \/ WasRecorded(q, phase[q])'
           /\ timeline' = [timeline EXCEPT ![r] = s] =>
                 \A q \in Runs : timeline'[q] = timeline[q] \/ WasRecorded(q, timeline[q])'
<1>1. s \in Status /\ Recorded(truth'[r], s)
  BY DEF WasRecorded, Known, LogGrows
<1>2. UpsertTask(r, s) =>
         \A q \in Runs : task'[q] = task[q] \/ (q = r /\ task'[q] = s)
  BY DEF UpsertTask, TypeOK
<1>3. SetPhase(r, s) =>
         \A q \in Runs : phase'[q] \in {phase[q], "streaming"} \/ (q = r /\ phase'[q] = s)
  BY DEF SetPhase, PhaseOf, TypeOK
<1>4. timeline' = [timeline EXCEPT ![r] = s] =>
         \A q \in Runs : timeline'[q] = timeline[q] \/ (q = r /\ timeline'[q] = s)
  BY DEF TypeOK
<1> QED
  BY <1>1, <1>2, <1>3, <1>4 DEF WasRecorded, Known

\* Every step writes to the other stores only what the log had.
LEMMA StoresAreSupported ==
    ASSUME IInv, [Next]_vars, NEW q \in Runs
    PROVE  StoreEffect(q)
<1>1. TypeOK /\ \A r \in Runs : LogInv(r) /\ WorkerInv(r) /\ SupInv(r)
  BY DEF IInv
<1>2. \A t \in Threads : thread[t].run \in Runs /\ ThreadInv(t)
  BY DEF IInv, TypeOK, Thread
<1>3. \A r \in Runs : LogGrows(r)
  BY LogsGrow
<1> DEFINE Same == task'[q] = task[q] /\ timeline'[q] = timeline[q] /\ phase'[q] = phase[q]
<1>4. CASE Same
  BY <1>4 DEF StoreEffect
<1>5. ASSUME NEW r \in Runs, BindTask(r) \/ BindPhase(r)
      PROVE  StoreEffect(q)
  <2>1. HasLog(r) /\ LogInv(r)
    BY <1>1, <1>5 DEF BindTask, BindPhase, SupInv, BindPc
  <2>2. WasRecorded(r, "running")
    BY <2>1 DEF LogInv, WasRecorded, Known, Status, Open
  <2>3. CASE BindTask(r)
    BY <1>1, <1>3, <2>2, <2>3, WrittenStatus DEF BindTask, StoreEffect, kernel
  <2>4. CASE BindPhase(r)
    BY <1>1, <2>4 DEF BindPhase, StoreEffect, kernel, TypeOK
  <2> QED
    BY <1>5, <2>3, <2>4
<1>6. ASSUME NEW r \in Runs, FinishPhase(r) \/ FinishTask(r)
      PROVE  StoreEffect(q)
  <2>1. WasRecorded(r, fin[r])
    BY <1>1, <1>6 DEF FinishPhase, FinishTask, SupInv
  <2> QED
    BY <1>1, <1>3, <1>6, <2>1, WrittenStatus DEF FinishPhase, FinishTask, StoreEffect, kernel
<1>7. ASSUME NEW t \in Threads, ListWrite(t) \/ Store(t) \/ InputUpsert(t) \/ WritePhase(t)
      PROVE  StoreEffect(q)
  <2>1. WasRecorded(thread[t].run, thread[t].st)
    BY <1>2, <1>7 DEF ThreadInv, HandlerInv, FreshPc, WasRecorded, ListWrite, Store, InputUpsert, WritePhase, At
  <2> QED
    BY <1>1, <1>2, <1>3, <1>7, <2>1, WrittenStatus
       DEF ListWrite, Store, InputUpsert, WritePhase, StoreEffect, kernel
<1>8. ASSUME NEW t \in Threads, SyncTimeline(t)
      PROVE  StoreEffect(q)
  <2> DEFINE r == thread[t].run
             s == IF thread[t].op = "cancel" THEN "cancelled" ELSE KernelStatus(truth[r])
  <2>1. HasLog(r) /\ (thread[t].op = "cancel" => Recorded(truth[r], "cancelled"))
    BY <1>2, <1>8 DEF ThreadInv, HandlerInv, HasLog, SyncTimeline, At
  <2>2. truth[r] \in Seq(Status) /\ r \in Runs
    BY <1>1, <1>2 DEF TypeOK
  <2>3. WasRecorded(r, KernelStatus(truth[r]))
    BY <2>1, <2>2, StatusesAreRecorded DEF WasRecorded, Known, HasLog
  <2>4. WasRecorded(r, s)
    BY <2>1, <2>3 DEF WasRecorded, Known, Status, Closed
  <2>5. timeline' = timeline \/ timeline' = [timeline EXCEPT ![r] = s]
    BY <1>1, <1>8 DEF SyncTimeline, TypeOK
  <2>6. task' = task /\ phase' = phase
    BY <1>8 DEF SyncTimeline, store
  <2> HIDE DEF r, s
  <2> QED
    BY <1>1, <1>3, <2>2, <2>4, <2>5, <2>6, WrittenStatus DEF StoreEffect
<1>9. ASSUME NEW r \in Runs, WorkerStartJob(r)
      PROVE  StoreEffect(q)
  <2>1. truth[r] \in Seq(Status) /\ "running" \in Status /\ Append1(r, "running")
    BY <1>1, <1>9 DEF WorkerStartJob, TypeOK, Status, Open
  <2>2. Recorded(truth'[r], "running")
    BY <1>1, <2>1, AppendGrows DEF TypeOK
  <2>3. /\ task' = task /\ phase' = phase
        /\ timeline'[q] = timeline[q] \/ (q = r /\ timeline'[q] = "running")
    BY <1>1, <1>9 DEF WorkerStartJob, TypeOK, store
  <2> QED
    BY <2>1, <2>2, <2>3 DEF StoreEffect, WasRecorded, Known
<1>10. ASSUME NEW r \in Runs, WorkerFinish(r)
       PROVE  StoreEffect(q)
  <2>1. WasRecorded(r, result[r])
    BY <1>1, <1>10 DEF WorkerFinish, WorkerInv
  <2> QED
    BY <1>1, <1>3, <1>10, <2>1, WrittenStatus DEF WorkerFinish, StoreEffect, store
<1>11. \A r \in Runs : Supervise(r) =>
           Same \/ BindTask(r) \/ BindPhase(r) \/ FinishPhase(r) \/ FinishTask(r)
  BY DEF Supervise, InsertRun, MarkRunning, Spawn, Register, ReadStarted, BindRun,
         ReadCompleted, ReadEof, ReadCancelFlag, ReapCancelled, FailAtEof, ReadFinalStatus,
         FinishRun, FailStream, kernel, store
<1>12. \A t \in Threads : ThreadStep(t) =>
           Same \/ ListWrite(t) \/ Store(t) \/ InputUpsert(t) \/ WritePhase(t) \/ SyncTimeline(t)
  BY DEF ThreadStep, Load, Reread, RepairLockedRow, RepairRow, Decide, CancelJob,
         MarkCancelled, FindRun, KillWorker, CheckResume, Resume, InputOutcome, InputFinal, kernel, store
<1>13. \A r \in Runs : Work(r) => Same \/ WorkerStartJob(r) \/ WorkerFinish(r)
  BY DEF Work, WorkerOutcome, store
<1>14. \A t \in Threads, r \in Runs : StartRequest(t, r) \/ StartRepair(t, r) => Same
  BY DEF StartRequest, StartGet, StartList, StartClose, StartInput, StartRepair, kernel, store
<1>15. \A r \in Runs : \/ PollRead(r) \/ PollRepair(r) \/ RunCommandFails(r)
                        \/ StreamFails(r) \/ SpawnFails(r) \/ WorkerFails(r)
           => Same
  BY DEF PollRead, PollRepair, RunCommandFails, StreamFails, SpawnFails, WorkerFails, kernel,
         store
<1>16. \A t \in Threads : ThreadFails(t) => Same
  BY DEF ThreadFails, kernel, store
<1>17. Restart \/ UNCHANGED vars => Same
  BY DEF Restart, vars, kernel, store
<1> HIDE DEF Same
<1> QED
  BY <1>4, <1>5, <1>6, <1>7, <1>8, <1>9, <1>10, <1>11, <1>12, <1>13, <1>14, <1>15, <1>16,
     <1>17 DEF Next

-----------------------------------------------------------------------------
(* The invariant of the supervisor and of what its run shows.                *)

\* Everything but the supervisor, its failures and a restart leaves it alone.
LEMMA SupervisorFrame ==
    ASSUME IInv, [Next]_vars, NEW q \in Runs
    PROVE  \/ sup'[q] = sup[q] /\ (q \in active' <=> q \in active) /\ fin'[q] = fin[q]
           \/ Supervise(q) \/ RunCommandFails(q) \/ StreamFails(q) \/ SpawnFails(q) \/ Restart
<1> DEFINE Same == sup'[q] = sup[q] /\ (q \in active' <=> q \in active) /\ fin'[q] = fin[q]
<1>1. TypeOK
  BY DEF IInv
<1>2. super' = super => Same
  BY DEF super
<1>3. ASSUME NEW r \in Runs, r # q, Supervise(r)
      PROVE  Same
  BY <1>1, <1>3 DEF Supervise, InsertRun, MarkRunning, Spawn, Register, ReadStarted, BindTask,
     BindRun, BindPhase, ReadCompleted, ReadEof, ReadCancelFlag, ReapCancelled, FailAtEof,
     ReadFinalStatus, FinishPhase, FinishRun, FinishTask, FailStream, Goto, TypeOK
<1>4. ASSUME NEW r \in Runs, r # q, RunCommandFails(r) \/ StreamFails(r) \/ SpawnFails(r)
      PROVE  Same
  BY <1>1, <1>4 DEF RunCommandFails, StreamFails, SpawnFails, Goto, TypeOK
<1>5. \A r \in Runs : Work(r) \/ PollRead(r) \/ PollRepair(r) \/ WorkerFails(r)
          => super' = super
  BY DEF Work, WorkerStartJob, WorkerOutcome, WorkerFinish, PollRead, PollRepair, WorkerFails,
         super
<1>6. \A t \in Threads : ThreadStep(t) \/ ThreadFails(t) => super' = super
  BY DEF ThreadStep, ListWrite, Load, Store, Reread, RepairLockedRow, RepairRow, Decide,
         CancelJob, SyncTimeline, MarkCancelled, FindRun, KillWorker, WritePhase, CheckResume, Resume,
         InputOutcome, InputFinal, InputUpsert, ThreadFails, super
<1>7. \A t \in Threads, r \in Runs : StartRequest(t, r) \/ StartRepair(t, r)
          => super' = super
  BY DEF StartRequest, StartGet, StartList, StartClose, StartInput, StartRepair, super
<1>8. UNCHANGED vars => super' = super
  BY DEF vars, super
<1> HIDE DEF Same
<1>9. Same \/ Supervise(q) \/ RunCommandFails(q) \/ StreamFails(q) \/ SpawnFails(q) \/ Restart
  BY <1>2, <1>3, <1>4, <1>5, <1>6, <1>7, <1>8 DEF Next
<1> QED
  BY <1>9 DEF Same

\* Every step keeps what a supervisor relies on.
LEMMA SupervisorKeepsInv ==
    ASSUME IInv, [Next]_vars, NEW q \in Runs
    PROVE  SupInv(q)' /\ ReapInv(q)' /\ Killable(q)'
<1> USE DEF BindPc, ReapPc, TailPc
<1>1. /\ TypeOK /\ WorkerInv(q) /\ SupInv(q) /\ ReapInv(q) /\ Killable(q)
      /\ RecordedFirst(q)
  BY DEF IInv, RunInv
<1>2. LogGrows(q) /\ ChildEffect(q) /\ RowEffect(q, row'[q])
  BY LogsGrow, ChildrenKeepWorkerInv, RowsAreSupported
<1>3. row'[q].bound => HasLog(q)'
  BY <1>1, <1>2 DEF SupInv, RowEffect, LogGrows
<1>4. CASE sup'[q] = sup[q] /\ (q \in active' <=> q \in active) /\ fin'[q] = fin[q]
  <2>1. worker'[q] \in Alive => worker[q] \in Alive \/ sup[q] = "spawn"
    BY <1>2 DEF ChildEffect
  <2>2. row'[q].bound => row[q].bound \/ sup[q] = "bindRun"
    BY <1>2 DEF RowEffect
  <2>3. sup[q] \in {"absent", "inserted", "spawn"} => worker'[q] = "none"
    BY <1>1, <1>2, <1>4 DEF SupInv, ChildEffect, Spawn, Goto, TypeOK
  <2>4. WasRecorded(q, fin[q]) /\ StillTrue(q, fin[q]) =>
            WasRecorded(q, fin[q])' /\ StillTrue(q, fin[q])'
    BY <1>2, <1>4 DEF WasRecorded, Known, StillTrue, Current, Shown, LogGrows
  <2>5. HasLog(q) => HasLog(q)'
    BY <1>2 DEF LogGrows
  <2>6. Recorded(truth[q], "cancelled") => Recorded(truth'[q], "cancelled")
    BY <1>2 DEF LogGrows
  <2>7. SupInv(q)'
    BY <1>1, <1>3, <1>4, <2>2, <2>3, <2>4, <2>5, <2>6 DEF SupInv
  <2> QED
    BY <1>1, <1>4, <2>1, <2>2, <2>7 DEF ReapInv, Killable, SupInv
<1>5. CASE Supervise(q)
  <2>1. truth' = truth
    BY <1>5 DEF Supervise, InsertRun, MarkRunning, Spawn, Register, ReadStarted, BindTask,
       BindRun, BindPhase, ReadCompleted, ReadEof, ReadCancelFlag, ReapCancelled, FailAtEof,
       ReadFinalStatus, FinishPhase, FinishRun, FinishTask, FailStream, kernel
  <2>2. /\ HasLog(q)' <=> HasLog(q)
        /\ Recorded(truth[q], "cancelled")' <=> Recorded(truth[q], "cancelled")
        /\ fin'[q] = fin[q] => /\ WasRecorded(q, fin[q])' <=> WasRecorded(q, fin[q])
                               /\ StillTrue(q, fin[q])' <=> StillTrue(q, fin[q])
    BY <2>1 DEF HasLog, WasRecorded, Known, StillTrue, Current, Shown
  <2>3. CASE InsertRun(q) \/ MarkRunning(q)
    <3>1. /\ sup[q] \in {"absent", "inserted"} /\ sup'[q] \in {"inserted", "spawn"}
          /\ worker' = worker /\ active' = active
      BY <1>1, <2>3 DEF InsertRun, MarkRunning, Goto, TypeOK, child
    <3>2. ~row'[q].bound
      BY <1>1, <1>2, <3>1 DEF RowEffect, SupInv
    <3> QED
      BY <1>1, <3>1, <3>2 DEF SupInv, ReapInv, Killable
  <2>4. CASE Spawn(q) \/ Register(q)
    BY <1>1, <2>2, <2>4 DEF Spawn, Register, Goto, TypeOK, SupInv, ReapInv, Killable, store,
       child
  <2>5. CASE ReadStarted(q)
    BY <1>1, <2>2, <2>5 DEF ReadStarted, Goto, TypeOK, SupInv, WorkerInv, ReapInv, Killable, store
  <2>6. CASE BindTask(q) \/ BindPhase(q)
    BY <1>1, <2>2, <2>6 DEF BindTask, BindPhase, Goto, TypeOK, SupInv, ReapInv, Killable, child
  <2>7. CASE BindRun(q)
    BY <1>1, <1>3, <2>2, <2>7 DEF BindRun, Goto, TypeOK, SupInv, ReapInv, Killable, child
  <2>8. CASE ReadCompleted(q) \/ ReadEof(q)
    <3>1. ReadCompleted(q) => HasLog(q)
      BY <1>1 DEF ReadCompleted, WorkerInv
    <3>2. worker[q] \notin Alive /\ worker' = worker /\ row' = row
      <4>1. CASE ReadCompleted(q)
        <5>1. 1 \in 1 .. Len(pipe[q]) /\ pipe[q][1] = "completed"
          BY <1>1, <4>1, EmptySeq DEF ReadCompleted, TypeOK
        <5> QED
          BY <1>1, <4>1, <5>1 DEF ReadCompleted, WorkerInv, store
      <4>2. CASE ReadEof(q)
        BY <4>2 DEF ReadEof, Alive, child, store
      <4> QED
        BY <2>8, <4>1, <4>2
    <3>3. /\ sup'[q] \in {"reap", "reapEof"} /\ q \notin active' /\ fin'[q] = fin[q]
          /\ sup[q] = "loop" /\ (sup'[q] = "reap" => HasLog(q))
      BY <1>1, <2>8, <3>1 DEF ReadCompleted, ReadEof, Goto, TypeOK
    <3> QED
      BY <1>1, <1>3, <2>2, <3>2, <3>3 DEF SupInv, ReapInv, Killable
  <2>9. CASE ReadCancelFlag(q)
    <3>1. row[q].cancel => Recorded(truth[q], "cancelled")
      BY <1>1 DEF RecordedFirst, TreatedAsCancelled
    <3> QED
      BY <1>1, <2>2, <2>9, <3>1 DEF ReadCancelFlag, Goto, TypeOK, SupInv, ReapInv, Killable,
         store, child
  <2>10. CASE ReadFinalStatus(q)
    <3>1. Shown(q) \in Status /\ Recorded(truth[q], Shown(q))
      BY <1>1, <2>10, StatusesAreRecorded DEF ReadFinalStatus, SupInv, HasLog, Shown, TypeOK
    <3>2. fin'[q] = Shown(q)
      BY <1>1, <2>10 DEF ReadFinalStatus, TypeOK
    <3>3. WasRecorded(q, fin[q])' /\ StillTrue(q, fin[q])'
      BY <2>1, <3>1, <3>2 DEF WasRecorded, Known, StillTrue, Current, Shown
    <3> QED
      BY <1>1, <2>2, <2>10, <3>3 DEF ReadFinalStatus, Goto, TypeOK, SupInv, ReapInv, Killable,
         store, child
  <2>11. CASE \/ ReapCancelled(q) \/ FailAtEof(q) \/ FinishPhase(q) \/ FinishRun(q)
              \/ FinishTask(q) \/ FailStream(q)
    <3>1. /\ sup[q] \in ReapPc \cup TailPc /\ sup'[q] \in {"err", "okRun", "okTask", "done"}
          /\ sup'[q] \in {"okRun", "okTask"} => sup[q] \in {"okPhase", "okRun"}
          /\ worker' = worker /\ active' = active /\ fin' = fin
      BY <1>1, <2>11 DEF ReapCancelled, FailAtEof, FinishPhase, FinishRun, FinishTask,
         FailStream, Goto, TypeOK, child
    <3>2. row'[q].bound => row[q].bound
      BY <1>2, <3>1 DEF RowEffect
    <3> QED
      BY <1>1, <1>3, <2>2, <3>1, <3>2 DEF SupInv, ReapInv, Killable
  <2> QED
    BY <1>5, <2>3, <2>4, <2>5, <2>6, <2>7, <2>8, <2>9, <2>10, <2>11 DEF Supervise
<1>6. CASE RunCommandFails(q) \/ StreamFails(q) \/ SpawnFails(q)
  <2>1. /\ sup'[q] \in {"err", "done"} /\ worker' = worker /\ active' = active /\ row' = row
        /\ StoreFaults \/ sup[q] = "spawn"
        /\ sup[q] # "dead"
    BY <1>1, <1>6 DEF RunCommandFails, StreamFails, SpawnFails, Goto, TypeOK, child, store
  <2> QED
    BY <1>1, <1>3, <2>1 DEF SupInv, ReapInv, Killable, Alive
<1>7. CASE Restart
  <2>1. /\ sup'[q] = (IF sup[q] = "absent" THEN "absent" ELSE "dead")
        /\ active' = {} /\ worker' = worker /\ row' = row
    BY <1>7 DEF Restart, child, store
  <2> QED
    BY <1>1, <1>3, <2>1 DEF SupInv, ReapInv, Killable, Alive
<1> QED
  BY <1>4, <1>5, <1>6, <1>7, SupervisorFrame

\* Every step keeps what is known of a run.
LEMMA RunKeepsInv ==
    ASSUME IInv, [Next]_vars, NEW q \in Runs
    PROVE  PollInv(q)' /\ RunInv(q)'
<1>1. /\ TypeOK /\ LogInv(q) /\ SupInv(q) /\ PollInv(q)
      /\ ResultIsTrue(q) /\ RecordedFirst(q) /\ StatusesRecorded(q)
  BY DEF IInv, RunInv
<1>2. LogGrows(q) /\ ChildEffect(q) /\ RowEffect(q, row'[q]) /\ StoreEffect(q)
  BY LogsGrow, ChildrenKeepWorkerInv, RowsAreSupported, StoresAreSupported
<1>3. ResultIsTrue(q)'
  BY <1>1, <1>2 DEF ResultIsTrue, RowEffect, LogGrows, Closed
<1>4. RecordedFirst(q)'
  <2>1. Recorded(truth[q], "cancelled") => Recorded(truth'[q], "cancelled")
    BY <1>2 DEF LogGrows
  <2>2. worker'[q] = "killed" => Recorded(truth'[q], "cancelled")
    BY <1>1, <1>2, <2>1 DEF ChildEffect, RecordedFirst, TreatedAsCancelled
  <2>3. Flagged(row'[q]) => Recorded(truth'[q], "cancelled")
    BY <1>1, <1>2, <2>1 DEF RowEffect, Flagged, RecordedFirst, TreatedAsCancelled
  <2>4. phase'[q] = "cancelled" => Recorded(truth'[q], "cancelled")
    BY <1>1, <1>2, <2>1 DEF StoreEffect, WasRecorded, Known, RecordedFirst, TreatedAsCancelled
  <2> QED
    BY <2>2, <2>3, <2>4 DEF RecordedFirst, TreatedAsCancelled, Flagged
<1>5. StatusesRecorded(q)'
  <2>1. task'[q] # "absent" => Recorded(truth'[q], task'[q])
    BY <1>1, <1>2 DEF StoreEffect, LogGrows, StatusesRecorded, WasRecorded, Known
  <2>2. timeline'[q] # "absent" => Recorded(truth'[q], timeline'[q])
    BY <1>1, <1>2 DEF StoreEffect, LogGrows, StatusesRecorded, WasRecorded, Known
  <2>3. phase'[q] \notin {"absent", "streaming"} => Recorded(truth'[q], phase'[q])
    BY <1>1, <1>2 DEF StoreEffect, LogGrows, StatusesRecorded, WasRecorded, Known
  <2> QED
    BY <2>1, <2>2, <2>3 DEF StatusesRecorded
<1>6. PollInv(q)'
  <2>1. CASE poll'[q] \in {poll[q], "idle"}
    BY <1>1, <1>2, <2>1 DEF PollInv, LogGrows, TypeOK
  <2>2. CASE PollRead(q)
    <3>1. HasLog(q) /\ Shown(q) \in Closed /\ poll'[q] = Shown(q)
      BY <1>1, <2>2, ClosedIsFirst DEF PollRead, TypeOK
    <3> QED
      BY <1>2, <3>1 DEF PollInv, LogGrows
  <2>3. ASSUME NEW r \in Runs, r # q, PollRead(r) \/ PollRepair(r)
        PROVE  poll'[q] = poll[q]
    BY <1>1, <2>3 DEF PollRead, PollRepair, TypeOK
  <2>4. PollRepair(q) \/ Restart => poll'[q] = "idle"
    BY <1>1 DEF PollRepair, Restart, TypeOK
  <2>5. \A r \in Runs : Work(r) \/ WorkerFails(r) => poll' = poll
    BY DEF Work, WorkerStartJob, WorkerOutcome, WorkerFinish, WorkerFails
  <2>6. \A r \in Runs : Supervise(r) => poll' = poll
    BY DEF Supervise, InsertRun, MarkRunning, Spawn, Register, ReadStarted, BindTask,
       BindRun, BindPhase, ReadCompleted, ReadEof, ReadCancelFlag, ReapCancelled, FailAtEof,
       ReadFinalStatus, FinishPhase, FinishRun, FinishTask, FailStream
  <2>7. \A r \in Runs : RunCommandFails(r) \/ StreamFails(r) \/ SpawnFails(r) => poll' = poll
    BY DEF RunCommandFails, StreamFails, SpawnFails
  <2>8. \A t \in Threads : ThreadStep(t) \/ ThreadFails(t) => poll' = poll
    BY DEF ThreadStep, ListWrite, Load, Store, Reread, RepairLockedRow, RepairRow, Decide,
           CancelJob, SyncTimeline, MarkCancelled, FindRun, KillWorker, WritePhase, CheckResume, Resume,
           InputOutcome, InputFinal, InputUpsert, ThreadFails
  <2>9. \A t \in Threads, r \in Runs : StartRequest(t, r) \/ StartRepair(t, r)
            => poll' = poll
    BY DEF StartRequest, StartGet, StartList, StartClose, StartInput, StartRepair
  <2>10. UNCHANGED vars => poll' = poll
    BY DEF vars
  <2>11. poll'[q] \in {poll[q], "idle"} \/ PollRead(q)
    BY <2>3, <2>4, <2>5, <2>6, <2>7, <2>8, <2>9, <2>10 DEF Next
  <2> QED
    BY <2>1, <2>2, <2>11
<1>7. Killable(q)'
  BY SupervisorKeepsInv
<1> QED
  BY <1>3, <1>4, <1>5, <1>6, <1>7 DEF RunInv

-----------------------------------------------------------------------------
(* The request threads.                                                      *)

\* The columns of a thread's record after the usual steps.
LEMMA StepFields ==
    ASSUME thread \in [Threads -> Thread], NEW t \in Threads
    PROVE  LET h == thread[t]
               n == thread'[t]
           IN  /\ \A pc : Step(t, pc) =>
                     n.pc = pc /\ n.op = h.op /\ n.run = h.run /\ n.st = h.st /\ n.shown = h.shown
               /\ \A pc, s : StepWith(t, pc, s) =>
                     n.pc = pc /\ n.op = h.op /\ n.run = h.run /\ n.st = s /\ n.shown = h.shown
               /\ Finish(t) => n = Idle
<1> DEFINE h == thread[t]
           n == thread'[t]
<1>1. h = [pc |-> h.pc, op |-> h.op, run |-> h.run, st |-> h.st, shown |-> h.shown]
  BY DEF Thread
<1>2. ASSUME NEW pc, NEW s
      PROVE  /\ Step(t, pc) => n = [h EXCEPT !.pc = pc]
             /\ StepWith(t, pc, s) => n = [h EXCEPT !.pc = pc, !.st = s]
             /\ Finish(t) => n = Idle
  BY DEF Step, StepWith, Finish, Become
<1> HIDE DEF h, n
<1>3. ASSUME NEW pc, n = [h EXCEPT !.pc = pc]
      PROVE  n.pc = pc /\ n.op = h.op /\ n.run = h.run /\ n.st = h.st /\ n.shown = h.shown
  BY <1>1, <1>3
<1>4. ASSUME NEW pc, NEW s, n = [h EXCEPT !.pc = pc, !.st = s]
      PROVE  n.pc = pc /\ n.op = h.op /\ n.run = h.run /\ n.st = s /\ n.shown = h.shown
  BY <1>1, <1>4
<1> QED
  BY <1>2, <1>3, <1>4 DEF h, n

\* What a thread knows of the job it works on stays true.
LEMMA KnowledgeStays ==
    ASSUME IInv, [Next]_vars, NEW r \in Runs
    PROVE  /\ truth[r] # << >> => truth'[r] # << >>
           /\ task[r] # "absent" => task'[r] # "absent"
           /\ \A s : Recorded(truth[r], s) => Recorded(truth'[r], s)
           /\ ProjStatus(truth[r]) \in Closed => ProjStatus(truth'[r]) = ProjStatus(truth[r])
<1>1. LogGrows(r) /\ StoreEffect(r)
  BY LogsGrow, StoresAreSupported
<1>2. "absent" \notin Status
  BY DEF Status, Closed, Open
<1> QED
  BY <1>1, <1>2 DEF LogGrows, StoreEffect, WasRecorded, Known, HasLog, Shown

\* What a thread reads of its job when there is a record of it.
LEMMA ReadsAreSound ==
    ASSUME IInv, NEW r \in Runs
    PROVE  /\ task[r] # "absent" => HasLog(r) /\ WasRecorded(r, task[r])
           /\ timeline[r] # "absent" => HasLog(r) /\ WasRecorded(r, timeline[r])
           /\ HasLog(r) => WasRecorded(r, Shown(r))
<1>1. TypeOK /\ StatusesRecorded(r)
  BY DEF IInv, RunInv
<1>2. \A s : Recorded(truth[r], s) => HasLog(r)
  BY DEF Recorded, HasLog
<1>3. HasLog(r) => WasRecorded(r, Shown(r))
  BY <1>1, StatusesAreRecorded DEF HasLog, WasRecorded, Known, Shown, TypeOK
<1>4. task[r] # "absent" => WasRecorded(r, task[r])
  BY <1>1 DEF StatusesRecorded, WasRecorded, Known, TypeOK, Seen
<1>5. timeline[r] # "absent" => WasRecorded(r, timeline[r])
  BY <1>1 DEF StatusesRecorded, WasRecorded, Known, TypeOK, Seen
<1>6. \A s : WasRecorded(r, s) => HasLog(r)
  BY <1>2 DEF WasRecorded, Known
<1>7. task[r] # "absent" => HasLog(r)
  BY <1>4, <1>6
<1>8. timeline[r] # "absent" => HasLog(r)
  BY <1>5, <1>6
<1> QED
  BY <1>3, <1>4, <1>5, <1>7, <1>8

\* The steps of a thread keep what it relies on.
LEMMA StepKeepsThreadInv ==
    ASSUME IInv, [Next]_vars, NEW t \in Threads, ThreadStep(t)
    PROVE  ThreadInv(t)'
<1>1. thread[t] \in Thread /\ thread \in [Threads -> Thread]
  BY DEF IInv, TypeOK
<1>2. PICK h \in Thread, r \in Runs : h = thread[t] /\ r = h.run
  BY <1>1 DEF Thread
<1>3. PICK n : n = thread'[t]
  OBVIOUS
<1>4. /\ \A pc : Step(t, pc) =>
             n.pc = pc /\ n.op = h.op /\ n.run = r /\ n.st = h.st /\ n.shown = h.shown
      /\ \A pc, s : StepWith(t, pc, s) =>
             n.pc = pc /\ n.op = h.op /\ n.run = r /\ n.st = s /\ n.shown = h.shown
      /\ Finish(t) => n = Idle
  BY <1>1, <1>2, <1>3, StepFields
<1>5. /\ truth[r] # << >> => truth'[r] # << >>
      /\ task[r] # "absent" => task'[r] # "absent"
      /\ \A s : Recorded(truth[r], s) => Recorded(truth'[r], s)
      /\ ProjStatus(truth[r]) \in Closed => ProjStatus(truth'[r]) = ProjStatus(truth[r])
  BY KnowledgeStays
<1>6. /\ task[r] # "absent" => task[r] \in Status /\ Recorded(truth[r], task[r])
      /\ truth[r] # << >> => Shown(r) \in Status /\ Recorded(truth[r], Shown(r))
  BY ReadsAreSound DEF WasRecorded, Known, HasLog
<1>7. n = Idle => ThreadInv(t)'
  BY <1>2, <1>3, IdleThread DEF ThreadInv, HandlerInv, FreshPc
<1>8. h.pc # "idle"
  BY <1>2 DEF ThreadStep, At, ListWrite, Load, Store, Reread, RepairLockedRow, RepairRow, Decide,
     CancelJob, SyncTimeline, MarkCancelled, FindRun, KillWorker, WritePhase, CheckResume, Resume,
     InputOutcome, InputFinal, InputUpsert
<1>9. /\ "absent" \notin Status /\ "cancelled" \in Status
      /\ Closed \subseteq Status
  BY DEF Status, Closed, Open
<1>10. HandlerInv(h, truth[r], task[r])
  BY <1>2 DEF ThreadInv, IInv
<1>11. HandlerInv(n, truth'[r], task'[r]) /\ n.run = r => ThreadInv(t)'
  BY <1>3 DEF ThreadInv
<1> USE DEF HandlerInv, Known, Current, FreshPc
<1>12. CASE ListWrite(t) \/ Store(t)
  <2>1. /\ h.pc \in {"listWrite", "store"}
        /\ n.pc = IF h.pc = "listWrite" THEN "load"
                  ELSE IF h.op = "close" THEN "reread" ELSE AfterRecord(h.op)
        /\ n.op = h.op /\ n.run = r /\ n.st = h.st /\ n.shown = h.shown
    BY <1>2, <1>4, <1>12 DEF ListWrite, Store, At
  <2>2. task'[r] = h.st
    BY <1>2, <1>12 DEF ListWrite, Store, UpsertTask, IInv, TypeOK
  <2>3. HandlerInv(n, truth'[r], task'[r])
    BY <1>5, <1>9, <1>10, <2>1, <2>2 DEF AfterRecord
  <2> QED
    BY <1>11, <2>1, <2>3
<1>13. CASE Load(t)
  <2>2. /\ h.pc = "load" /\ n.op = h.op /\ n.run = r /\ n.st = Shown(r)
        /\ n.pc = "store" \/ (n.pc = AfterRecord(h.op) /\ n.shown = Shown(r))
    <3>1. CASE StepWith(t, "store", Shown(r))
      BY <1>2, <1>4, <1>13, <3>1 DEF Load, At
    <3>2. CASE Become(t, [h EXCEPT !.pc = AfterRecord(h.op), !.st = Shown(r), !.shown = Shown(r)])
      <4>1. n = [h EXCEPT !.pc = AfterRecord(h.op), !.st = Shown(r), !.shown = Shown(r)]
        BY <1>1, <1>3, <3>2 DEF Become
      <4>2. /\ n.pc = AfterRecord(h.op) /\ n.op = h.op /\ n.run = r
            /\ n.st = Shown(r) /\ n.shown = Shown(r)
        BY <1>2, <4>1 DEF Thread
      <4> QED
        BY <1>2, <1>13, <4>2 DEF Load, At
    <3> QED
      BY <1>2, <1>13, <3>1, <3>2 DEF Load
  <2>3. HandlerInv(n, truth'[r], task'[r])
    BY <1>5, <1>6, <1>9, <1>10, <2>2 DEF AfterRecord, Shown
  <2> QED
    BY <1>11, <2>2, <2>3
<1>14. CASE Reread(t)
  <2>1. h.pc = "reread" /\ n = [h EXCEPT !.pc = "repair", !.shown = task[r]]
    BY <1>1, <1>2, <1>3, <1>14 DEF Reread, At, Become
  <2>2. /\ n.pc = "repair" /\ n.op = h.op /\ n.run = r /\ n.st = h.st /\ n.shown = task[r]
    BY <1>2, <2>1 DEF Thread
  <2>3. HandlerInv(n, truth'[r], task'[r])
    BY <1>5, <1>6, <1>9, <1>10, <2>1, <2>2
  <2> QED
    BY <1>11, <2>2, <2>3
<1>15. CASE RepairLockedRow(t) \/ RepairRow(t)
  <2>1. CASE RepairRow(t) /\ h.op # "close"
    BY <1>2, <1>4, <1>7, <2>1 DEF RepairRow
  <2>2. CASE RepairLockedRow(t) \/ h.op = "close"
    <3>1. /\ \/ h.pc = "locked" /\ n.pc = "repair"
             \/ h.pc = "repair" /\ n.pc = "decide" /\ h.op = "close"
          /\ n.op = h.op /\ n.run = r /\ n.st = h.st /\ n.shown = h.shown
      BY <1>2, <1>4, <1>10, <1>15, <2>2 DEF RepairLockedRow, RepairRow, At
    <3>2. HandlerInv(n, truth'[r], task'[r])
      BY <1>5, <1>9, <1>10, <3>1
    <3> QED
      BY <1>11, <3>1, <3>2
  <2> QED
    BY <1>15, <2>1, <2>2
<1>16. CASE Decide(t)
  <2>1. h.pc = "decide"
    BY <1>2, <1>16 DEF Decide, At
  <2>2. CASE StepWith(t, "phase", h.shown)
    <3>1. n.pc = "phase" /\ n.op = h.op /\ n.run = r /\ n.st = h.shown
      BY <1>4, <2>2
    <3>2. HandlerInv(n, truth'[r], task'[r])
      BY <1>5, <1>9, <1>10, <2>1, <3>1
    <3> QED
      BY <1>11, <3>1, <3>2
  <2>3. CASE Become(t, [h EXCEPT !.pc = "cancel", !.op = "cancel"])
    <3>1. n = [h EXCEPT !.pc = "cancel", !.op = "cancel"]
      BY <1>1, <1>3, <2>3 DEF Become
    <3>2. n.pc = "cancel" /\ n.op = "cancel" /\ n.run = r
      BY <1>2, <3>1 DEF Thread
    <3>3. HandlerInv(n, truth'[r], task'[r])
      BY <1>5, <1>9, <1>10, <2>1, <3>2
    <3> QED
      BY <1>11, <3>2, <3>3
  <2> QED
    BY <1>2, <1>16, <2>2, <2>3 DEF Decide
<1>17. CASE CancelJob(t)
  <2>1. h.pc = "cancel" /\ n.pc = "sync" /\ n.op = h.op /\ n.run = r /\ n.st = "cancelled"
    BY <1>2, <1>4, <1>17 DEF CancelJob, At
  <2>2. Recorded(truth'[r], "cancelled")
    <3>1. Append1(r, "cancelled") /\ truth[r] \in Seq(Status)
          /\ truth \in [Runs -> Seq(Status)]
      BY <1>2, <1>17 DEF CancelJob, IInv, TypeOK
    <3>2. truth'[r] = Append(truth[r], "cancelled")
      BY <3>1 DEF Append1
    <3> QED
      BY <1>9, <3>1, <3>2, AppendRecords
  <2>3. HandlerInv(n, truth'[r], task'[r])
    BY <1>5, <1>9, <1>10, <2>1, <2>2
  <2> QED
    BY <1>11, <2>1, <2>3
<1>18. CASE SyncTimeline(t) \/ MarkCancelled(t) \/ FindRun(t) \/ KillWorker(t)
  <2>1. /\ n.op = h.op /\ n.run = r /\ n.st = h.st
        /\ \/ h.pc = "sync" /\ n.pc = "mark" /\ h.op = "cancel"
           \/ h.pc = "sync" /\ n.pc = "fin" /\ h.op # "cancel"
           \/ h.pc \in {"mark", "find", "kill"} /\ n.pc \in {"find", "kill", "phase"}
    BY <1>2, <1>4, <1>18 DEF SyncTimeline, MarkCancelled, FindRun, KillWorker, At
  <2>2. HandlerInv(n, truth'[r], task'[r])
    BY <1>5, <1>9, <1>10, <2>1
  <2> QED
    BY <1>11, <2>1, <2>2
<1>19. CASE WritePhase(t)
  <2>1. CASE h.op = "close"
    BY <1>2, <1>4, <1>7, <1>19, <2>1 DEF WritePhase
  <2>2. CASE h.op # "close"
    <3>1. /\ h.pc = "phase" /\ n.op = h.op /\ n.run = r /\ n.st = h.st
          /\ \/ h.op = "startup" /\ n.pc = "locked"
             \/ h.op = "input" /\ n.pc = "upsert"
             \/ n.pc = "load"
      BY <1>2, <1>4, <1>19, <2>2 DEF WritePhase, At
    <3>2. HandlerInv(n, truth'[r], task'[r])
      BY <1>5, <1>9, <1>10, <3>1
    <3> QED
      BY <1>11, <3>1, <3>2
  <2> QED
    BY <2>1, <2>2
<1>20. CASE CheckResume(t) \/ Resume(t) \/ InputOutcome(t) \/ InputUpsert(t)
  <2>1. /\ n.op = h.op /\ n.run = r /\ n.st = h.st
        /\ h.pc \in {"check", "resume", "agent", "upsert"}
        /\ n.pc \in {"sync", "resume", "agent", "load"}
    BY <1>2, <1>4, <1>20 DEF CheckResume, Resume, InputOutcome, InputUpsert, At
  <2>2. HandlerInv(n, truth'[r], task'[r])
    BY <1>5, <1>9, <1>10, <2>1
  <2> QED
    BY <1>11, <2>1, <2>2
<1>21. CASE InputFinal(t)
  <2>1. h.pc = "fin" /\ n.pc = "phase" /\ n.op = h.op /\ n.run = r /\ n.st = Shown(r)
    BY <1>2, <1>4, <1>21 DEF InputFinal, At
  <2>2. HandlerInv(n, truth'[r], task'[r])
    BY <1>5, <1>6, <1>9, <1>10, <2>1
  <2> QED
    BY <1>11, <2>1, <2>2
<1> QED
  BY <1>12, <1>13, <1>14, <1>15, <1>16, <1>17, <1>18, <1>19, <1>20, <1>21 DEF ThreadStep

\* A new request relies on what it has just read.
LEMMA RequestKeepsThreadInv ==
    ASSUME IInv, [Next]_vars, NEW t \in Threads, NEW r \in Runs,
           StartRequest(t, r) \/ StartRepair(t, r)
    PROVE  ThreadInv(t)'
<1>1. thread \in [Threads -> Thread]
  BY DEF IInv, TypeOK
<1>2. /\ truth[r] # << >> => truth'[r] # << >>
      /\ task[r] # "absent" => task'[r] # "absent"
      /\ \A s : Recorded(truth[r], s) => Recorded(truth'[r], s)
  BY KnowledgeStays
<1>3. /\ task[r] # "absent" => truth[r] # << >>
      /\ timeline[r] # "absent" => Known(truth[r], timeline[r]) /\ truth[r] # << >>
  BY ReadsAreSound DEF WasRecorded, HasLog
<1>4. ASSUME NEW op, NEW pc, NEW s, Begin(t, r, op, pc, s)
      PROVE  ThreadInv(t)' <=>
               HandlerInv([pc |-> pc, op |-> op, run |-> r, st |-> s, shown |-> "absent"],
                          truth'[r], task'[r])
  <2>1. thread'[t] = [pc |-> pc, op |-> op, run |-> r, st |-> s, shown |-> "absent"]
    BY <1>1, <1>4 DEF Begin, Become
  <2>2. thread'[t].run = r
    BY <2>1
  <2> QED
    BY <2>1, <2>2 DEF ThreadInv
<1>5. CASE StartRequest(t, r)
  <2>1. CASE StartList(t, r)
    <3>1. Begin(t, r, "list", "listWrite", timeline[r]) /\ timeline[r] # "absent"
      BY <2>1 DEF StartList
    <3>2. HandlerInv([pc |-> "listWrite", op |-> "list", run |-> r, st |-> timeline[r],
                      shown |-> "absent"], truth'[r], task'[r])
      BY <1>2, <1>3, <3>1 DEF HandlerInv, Known, FreshPc
    <3> QED
      BY <1>4, <3>1, <3>2
  <2>2. CASE StartGet(t, r) \/ StartClose(t, r) \/ StartInput(t, r)
    <3>1. PICK op \in {"get", "close", "input"}, pc \in {"load", "check"} :
             Begin(t, r, op, pc, "absent") /\ (pc = "check" => op = "input")
      BY <2>2 DEF StartGet, StartClose, StartInput
    <3>2. task[r] # "absent"
      BY <2>2 DEF StartGet, StartClose, StartInput
    <3>3. HandlerInv([pc |-> pc, op |-> op, run |-> r, st |-> "absent", shown |-> "absent"],
                     truth'[r], task'[r])
      BY <1>2, <1>3, <3>1, <3>2 DEF HandlerInv, FreshPc
    <3> QED
      BY <1>4, <3>1, <3>3
  <2> QED
    BY <1>5, <2>1, <2>2 DEF StartRequest
<1>6. CASE StartRepair(t, r)
  <2>1. Begin(t, r, "startup", "load", "absent") /\ task[r] # "absent"
    BY <1>6 DEF StartRepair
  <2>2. HandlerInv([pc |-> "load", op |-> "startup", run |-> r, st |-> "absent",
                    shown |-> "absent"], truth'[r], task'[r])
    BY <1>2, <1>3, <2>1 DEF HandlerInv, FreshPc
  <2> QED
    BY <1>4, <2>1, <2>2
<1> QED
  BY <1>5, <1>6

\* Every step keeps what each thread relies on.
LEMMA ThreadsKeepInv ==
    ASSUME IInv, [Next]_vars, NEW t \in Threads
    PROVE  ThreadInv(t)'
<1>1. thread[t] \in Thread /\ thread \in [Threads -> Thread] /\ ThreadInv(t)
  BY DEF IInv, TypeOK
<1>2. PICK r \in Runs : r = thread[t].run
  BY <1>1 DEF Thread
<1>3. CASE thread'[t] = thread[t]
  <2>1. /\ truth[r] # << >> => truth'[r] # << >>
        /\ task[r] # "absent" => task'[r] # "absent"
        /\ \A s : Recorded(truth[r], s) => Recorded(truth'[r], s)
        /\ ProjStatus(truth[r]) \in Closed => ProjStatus(truth'[r]) = ProjStatus(truth[r])
    BY KnowledgeStays
  <2>2. HandlerInv(thread[t], truth[r], task[r])
    BY <1>1, <1>2 DEF ThreadInv
  <2>3. HandlerInv(thread[t], truth'[r], task'[r])
    BY <2>1, <2>2 DEF HandlerInv, Known, Current
  <2> QED
    BY <1>2, <1>3, <2>3 DEF ThreadInv
<1>4. CASE thread'[t] = Idle
  BY <1>4, IdleThread DEF ThreadInv, HandlerInv, FreshPc
<1>5. CASE ThreadStep(t)
  BY <1>5, StepKeepsThreadInv
<1>6. ASSUME NEW q \in Runs, StartRequest(t, q) \/ StartRepair(t, q)
      PROVE  ThreadInv(t)'
  BY <1>3, <1>6, RequestKeepsThreadInv
<1>7. ASSUME NEW u \in Threads, u # t, NEW n, Become(u, n)
      PROVE  thread'[t] = thread[t]
  BY <1>1, <1>7 DEF Become
<1>8. ASSUME NEW u \in Threads, u # t, ThreadStep(u) \/ ThreadFails(u)
      PROVE  thread'[t] = thread[t]
  BY <1>7, <1>8 DEF ThreadStep, ListWrite, Load, Store, Reread, RepairLockedRow, RepairRow,
     Decide, CancelJob, SyncTimeline, MarkCancelled, FindRun, KillWorker, WritePhase, CheckResume,
     Resume, InputOutcome, InputFinal, InputUpsert, ThreadFails, Step, StepWith, Finish
<1>9. ASSUME NEW u \in Threads, u # t, NEW q \in Runs, StartRequest(u, q) \/ StartRepair(u, q)
      PROVE  thread'[t] = thread[t]
  BY <1>7, <1>9 DEF StartRequest, StartGet, StartList, StartClose, StartInput, StartRepair,
     Begin
<1>10. ThreadFails(t) \/ Restart => thread'[t] = Idle
  BY <1>1 DEF ThreadFails, Finish, Become, Restart
<1>11. \A q \in Runs : Supervise(q) => thread' = thread
  BY DEF Supervise, InsertRun, MarkRunning, Spawn, Register, ReadStarted, BindTask,
     BindRun, BindPhase, ReadCompleted, ReadEof, ReadCancelFlag, ReapCancelled, FailAtEof,
     ReadFinalStatus, FinishPhase, FinishRun, FinishTask, FailStream
<1>12. \A q \in Runs : \/ Work(q) \/ WorkerFails(q) \/ PollRead(q) \/ PollRepair(q)
                        \/ RunCommandFails(q) \/ StreamFails(q) \/ SpawnFails(q)
           => thread' = thread
  BY DEF Work, WorkerStartJob, WorkerOutcome, WorkerFinish, WorkerFails, PollRead, PollRepair,
     RunCommandFails, StreamFails, SpawnFails
<1>13. UNCHANGED vars => thread' = thread
  BY DEF vars
<1> QED
  BY <1>3, <1>4, <1>5, <1>6, <1>8, <1>9, <1>10, <1>11, <1>12, <1>13 DEF Next

-----------------------------------------------------------------------------
(* The inductive invariant and what follows from it.                         *)

\* Initially nothing has happened.
LEMMA InitEstablishes == Init => IInv
<1> SUFFICES ASSUME Init PROVE IInv
  OBVIOUS
<1>1. TypeOK
  <2>1. << >> \in Seq(Status) /\ << >> \in Seq({"started", "completed"}) /\ NoRow \in Row
    BY DEF NoRow, Row, RunStatus
  <2> QED
    BY <2>1, IdleThread, BoundsAssumption DEF Init, TypeOK, Seen, WorkerState, PhaseValue, SupPc
<1>2. ASSUME NEW r \in Runs
      PROVE  /\ LogInv(r) /\ WorkerInv(r) /\ SupInv(r) /\ ReapInv(r)
             /\ PollInv(r) /\ RunInv(r)
  <2>1. /\ truth[r] = << >> /\ pipe[r] = << >> /\ worker[r] = "none" /\ row[r] = NoRow
        /\ task[r] = "absent" /\ timeline[r] = "absent" /\ phase[r] = "absent"
        /\ sup[r] = "absent" /\ poll[r] = "idle" /\ r \notin active
    BY DEF Init
  <2>2. \A s : ~Recorded(<< >>, s)
    BY DEF Recorded
  <2>3. LogInv(r) /\ WorkerInv(r) /\ PollInv(r)
    BY <2>1, <2>2 DEF LogInv, WorkerInv, PollInv, HasLog, Alive
  <2>4. SupInv(r) /\ ReapInv(r)
    BY <2>1 DEF SupInv, ReapInv, BindPc, ReapPc, TailPc, NoRow
  <2>5. RunInv(r)
    BY <2>1 DEF RunInv, ResultIsTrue, RecordedFirst, TreatedAsCancelled, Killable,
       StatusesRecorded, NoRow, Alive
  <2> QED
    BY <2>3, <2>4, <2>5
<1>3. ASSUME NEW t \in Threads
      PROVE  ThreadInv(t)
  BY <1>3, IdleThread DEF Init, ThreadInv, HandlerInv, FreshPc
<1> QED
  BY <1>1, <1>2, <1>3 DEF IInv

\* Every step keeps the types.
LEMMA NextKeepsTypes ==
    ASSUME IInv, [Next]_vars
    PROVE  TypeOK'
<1>1. CASE UNCHANGED vars
  BY <1>1 DEF IInv, TypeOK, vars
<1>2. \A r \in Runs : Supervise(r) => TypeOK'
  BY SuperviseTypes
<1>3. \A r \in Runs : Work(r) \/ WorkerFails(r) => TypeOK'
  BY WorkTypes
<1>4. \A t \in Threads : ThreadStep(t) => TypeOK'
  BY ThreadTypes
<1> QED
  BY <1>1, <1>2, <1>3, <1>4, OtherTypes DEF Next

\* Every step, of whichever actor, keeps the inductive invariant.
LEMMA NextKeepsInv ==
    ASSUME IInv, [Next]_vars
    PROVE  IInv'
<1>1. TypeOK'
  BY NextKeepsTypes
<1>2. ASSUME NEW r \in Runs
      PROVE  (/\ LogInv(r) /\ WorkerInv(r) /\ SupInv(r) /\ ReapInv(r)
              /\ PollInv(r) /\ RunInv(r))'
  <2>1. LogInv(r)'
    BY LogsGrow DEF LogGrows
  <2> QED
    BY <2>1, ChildrenKeepWorkerInv, SupervisorKeepsInv, RunKeepsInv
<1>3. ASSUME NEW t \in Threads
      PROVE  ThreadInv(t)'
  BY ThreadsKeepInv
<1> QED
  BY <1>1, <1>2, <1>3 DEF IInv

\* The inductive invariant holds in every state of every behaviour: whatever a
\* supervisor, a handler or the poll read of a job several steps ago and is about to
\* write is still what the job's log says.
THEOREM InductiveInvariant == Spec => []IInv
BY InitEstablishes, NextKeepsInv, PTL DEF Spec

\* The stores hold values of the columns they are declared with: every conversion
\* between event status, phase, row and timeline yields a status the reader knows.
THEOREM TypeCorrect == Spec => []TypeOK
<1>1. IInv => TypeOK
  BY DEF IInv
<1> QED
  BY <1>1, InductiveInvariant, PTL

\* complete_run and the repairs never leave a run completed, blocked or interrupted
\* when task_status_from_events says otherwise of its job.
THEOREM ResultsAreTrue == Spec => []RunResultIsTrue
<1>1. IInv => RunResultIsTrue
  BY DEF IInv, RunInv, RunResultIsTrue
<1> QED
  BY <1>1, InductiveInvariant, PTL

\* force_close records the cancellation in the kernel before anything acts on it.
THEOREM CancelRecordedFirst == Spec => []CancelIsRecordedFirst
<1>1. IInv => CancelIsRecordedFirst
  BY DEF IInv, RunInv, CancelIsRecordedFirst
<1> QED
  BY <1>1, InductiveInvariant, PTL

\* kill_run_process finds the live worker of every bound run its server supervises.
THEOREM LiveWorkersAreKillable == Spec => []LiveWorkerIsKillable
<1>1. IInv => LiveWorkerIsKillable
  BY DEF IInv, RunInv, LiveWorkerIsKillable
<1> QED
  BY <1>1, InductiveInvariant, PTL

\* No store holds a status its job's log never had.
THEOREM StoredStatusesWereRecorded == Spec => []StoredStatusWasRecorded
<1>1. IInv => StoredStatusWasRecorded
  BY DEF IInv, RunInv, StoredStatusWasRecorded
<1> QED
  BY <1>1, InductiveInvariant, PTL

\* When no statement on a store fails, start_stream answers only after its child is
\* gone and its entry removed.
THEOREM AnsweredRunsAreReaped == Spec /\ ~StoreFaults => []AnsweredRunIsReaped
<1>1. ~StoreFaults /\ IInv => AnsweredRunIsReaped
  BY DEF IInv, ReapInv, AnsweredRunIsReaped
<1>2. ~StoreFaults => [](~StoreFaults)
  OBVIOUS
<1> QED
  BY <1>1, <1>2, InductiveInvariant, PTL

-----------------------------------------------------------------------------
(* TaskRun implements TaskStatus.                                            *)

\* A step appends one status to the log of one job, or touches no log.
LEMMA OneLogMoves ==
    ASSUME IInv, [Next]_vars
    PROVE  truth' = truth \/ \E q \in Runs, s \in Status : Append1(q, s)
<1>1. \A t \in Threads : thread[t].run \in Runs
  BY DEF IInv, TypeOK, Thread
<1>2. Outcomes \subseteq Status /\ "running" \in Status /\ "cancelled" \in Status
  BY OutcomesAssumption DEF Status, Closed, Open
<1> DEFINE Moves == truth' = truth \/ \E q \in Runs, s \in Status : Append1(q, s)
<1>3. \A r \in Runs : Supervise(r) => Moves
  BY DEF Supervise, InsertRun, MarkRunning, Spawn, Register, ReadStarted, BindTask,
     BindRun, BindPhase, ReadCompleted, ReadEof, ReadCancelFlag, ReapCancelled, FailAtEof,
     ReadFinalStatus, FinishPhase, FinishRun, FinishTask, FailStream, kernel
<1>4. \A r \in Runs : Work(r) => Moves
  BY <1>2 DEF Work, WorkerStartJob, WorkerOutcome, WorkerFinish
<1>5. \A t \in Threads : CancelJob(t) \/ Resume(t) \/ InputOutcome(t) => Moves
  BY <1>1, <1>2 DEF CancelJob, Resume, InputOutcome
<1>6. \A t \in Threads : ThreadStep(t) =>
          truth' = truth \/ CancelJob(t) \/ Resume(t) \/ InputOutcome(t)
  BY DEF ThreadStep, ListWrite, Load, Store, Reread, RepairLockedRow, RepairRow, Decide,
         SyncTimeline, MarkCancelled, FindRun, KillWorker, WritePhase, CheckResume, InputFinal,
         InputUpsert, kernel
<1>7. \A t \in Threads, r \in Runs : StartRequest(t, r) \/ StartRepair(t, r) => truth' = truth
  BY DEF StartRequest, StartGet, StartList, StartClose, StartInput, StartRepair, kernel
<1>8. \A r \in Runs : \/ PollRead(r) \/ PollRepair(r) \/ RunCommandFails(r)
                       \/ StreamFails(r) \/ SpawnFails(r) \/ WorkerFails(r)
          => truth' = truth
  BY DEF PollRead, PollRepair, RunCommandFails, StreamFails, SpawnFails, WorkerFails, kernel
<1>9. \A t \in Threads : ThreadFails(t) => truth' = truth
  BY DEF ThreadFails, kernel
<1>10. Restart \/ UNCHANGED vars => truth' = truth
  BY DEF Restart, vars, kernel
<1> QED
  BY <1>3, <1>4, <1>5, <1>6, <1>7, <1>8, <1>9, <1>10 DEF Next

\* Every step shows each run's status change as TaskStatus allows, or none.
LEMMA StepImplementsChange ==
    ASSUME IInv, [Next]_vars
    PROVE  [StatusSpec!Next]_([r \in Runs |-> Shown(r)])
<1>1. CASE truth' = truth
  BY <1>1 DEF Shown
<1>2. ASSUME NEW q \in Runs, NEW s \in Status, Append1(q, s)
      PROVE  [StatusSpec!Next]_([r \in Runs |-> Shown(r)])
  <2>1. truth \in [Runs -> Seq(Status)] /\ LogGrows(q)
    BY LogsGrow DEF IInv, TypeOK
  <2>2. truth'[q] = Append(truth[q], s) /\ \A r \in Runs \ {q} : truth'[r] = truth[r]
    BY <1>2, <2>1 DEF Append1
  <2>3. \A r \in Runs \ {q} : ProjStatus(truth'[r]) = ProjStatus(truth[r])
    BY <2>2
  <2>4. CASE Shown(q) \in Closed
    <3>1. ProjStatus(truth'[q]) = ProjStatus(truth[q])
      BY <2>1, <2>4 DEF LogGrows, Shown
    <3>2. \A r \in Runs : ProjStatus(truth'[r]) = ProjStatus(truth[r])
      BY <2>3, <3>1
    <3> QED
      BY <3>2 DEF Shown
  <2>5. CASE Shown(q) \notin Closed
    <3>1. ProjStatus(truth'[q]) \in Open \cup Closed
      BY <2>1, <2>2, AppendRecords, StatusesAreRecorded DEF Status
    <3>2. [r \in Runs |-> ProjStatus(truth'[r])] =
             [[r \in Runs |-> ProjStatus(truth[r])] EXCEPT ![q] = ProjStatus(truth'[q])]
      BY <2>3
    <3>3. StatusSpec!Change(q)
      BY <2>5, <3>1, <3>2 DEF StatusSpec!Change, Shown
    <3> QED
      BY <3>3 DEF StatusSpec!Next
  <2> QED
    BY <2>4, <2>5
<1> QED
  BY <1>1, <1>2, OneLogMoves

\* What the product derives for a task takes at most one closed status and keeps it,
\* whatever the worker, the handlers, a resume and a restart append to the job's log.
THEOREM Refinement == Spec => TaskStatusImplemented
<1>1. Init => StatusSpec!Init
  <2>1. \A r \in Runs : Init => Shown(r) = "absent"
    BY DEF Init, Shown, ProjStatus
  <2> QED
    BY <2>1 DEF StatusSpec!Init
<1> QED
  BY <1>1, StepImplementsChange, InductiveInvariant, PTL DEF Spec, TaskStatusImplemented,
     StatusSpec!Spec
=============================================================================
