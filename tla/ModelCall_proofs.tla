-------------------------- MODULE ModelCall_proofs ---------------------------
(***************************************************************************)
(* Proofs about ModelCall for any jobs and callers, times, number of         *)
(* attempts and number of kills.                                            *)
(***************************************************************************)
EXTENDS ModelCall, TLAPS

\* The invariant holds when nobody has called yet.
LEMMA InitInv == Init => IInv
<1> SUFFICES ASSUME Init PROVE IInv
  OBVIOUS
<1> USE NobodyAssumption, TimesAssumption, AttemptsAssumption
<1>1. TypeOK
  <2>1. /\ pc \in [Callers -> Steps]
        /\ result \in [Callers -> Results]
        /\ returned \in [Callers -> Results \cup {"lost"}]
    BY DEF Init, Steps, Results
  <2>2. lock \in [there : BOOLEAN, age : 0 .. StaleLock, owner : Callers \cup {Nobody}]
    BY DEF Init, NoLock
  <2>3. ledger \in [Jobs -> SUBSET Callers] /\ draft \in [Callers -> SUBSET Callers]
    BY DEF Init
  <2>4. /\ tries \in [Callers -> 0 .. MaxAttempts]
        /\ waited \in [Callers -> 0 .. Timeout]
        /\ left \in [Callers -> Nat]
        /\ since \in 0 .. MinInterval
    BY DEF Init
  <2>5. file \in [readable : BOOLEAN, pause : Nat]
    BY DEF Init
  <2>6. met \in [Callers -> BOOLEAN] /\ torn \in [Callers -> BOOLEAN] /\ seized \in BOOLEAN /\ kills \in Nat
    BY DEF Init
  <2> QED
    BY <2>1, <2>2, <2>3, <2>4, <2>5, <2>6 DEF TypeOK
<1>2. CallsAreFresh /\ LockIsOwned
  BY DEF Init, CallsAreFresh, LockIsOwned, NoLock
<1>3. PermitHasLock
  BY DEF Init, PermitHasLock, WithPermit
<1>4. IntervalIsKept
  BY DEF Init, IntervalIsKept, Sleeping
<1>5. ReceiptsAreSafe
  BY DEF Init, ReceiptsAreSafe, Listed, Finishing
<1> QED
  BY <1>1, <1>2, <1>3, <1>4, <1>5 DEF IInv

\* Every step of a caller preserves it.  Only Create adds a permit, when there
\* is no lock and so no owner; only a removal takes a lock, and it is the
\* remover's own, a dead one's, or seized says so.
LEMMA BeginInv ==
    ASSUME IInv, NEW c \in Callers, Begin(c) PROVE IInv'
<1> USE NobodyAssumption, TimesAssumption, AttemptsAssumption
<1> USE DEF Begin, Go, local, receipts, IInv, Steps, Results, Acquiring, WithPermit, Finishing
<1>1. TypeOK'
  BY DEF TypeOK, NoLock, Job, Callers
<1>2. CallsAreFresh'
  BY DEF TypeOK, CallsAreFresh
<1>3. LockIsOwned'
  BY DEF TypeOK, LockIsOwned, PermitHasLock, NoLock
<1>4. PermitHasLock'
  BY DEF TypeOK, LockIsOwned, PermitHasLock, NoLock
<1>5. IntervalIsKept'
  BY DEF TypeOK, PermitHasLock, IntervalIsKept, Sleeping
<1>6. ReceiptsAreSafe'
  BY DEF TypeOK, ReceiptsAreSafe, Listed, Others, Job, Callers
<1> QED
  BY <1>1, <1>2, <1>3, <1>4, <1>5, <1>6

\* A call refused at once keeps the invariant.
LEMMA RejectInv ==
    ASSUME IInv, NEW c \in Callers, Reject(c) PROVE IInv'
<1> USE NobodyAssumption, TimesAssumption, AttemptsAssumption
<1> USE DEF Reject, Go, local, receipts, IInv, Steps, Results, Acquiring, WithPermit, Finishing
<1>1. TypeOK'
  BY DEF TypeOK, NoLock, Job, Callers
<1>2. CallsAreFresh'
  BY DEF TypeOK, CallsAreFresh
<1>3. LockIsOwned'
  BY DEF TypeOK, LockIsOwned, PermitHasLock, NoLock
<1>4. PermitHasLock'
  BY DEF TypeOK, LockIsOwned, PermitHasLock, NoLock
<1>5. IntervalIsKept'
  BY DEF TypeOK, PermitHasLock, IntervalIsKept, Sleeping
<1>6. ReceiptsAreSafe'
  BY DEF TypeOK, ReceiptsAreSafe, Listed, Others, Job, Callers
<1> QED
  BY <1>1, <1>2, <1>3, <1>4, <1>5, <1>6

\* An attempt that asks for the limiter keeps it.
LEMMA StartAttemptInv ==
    ASSUME IInv, NEW c \in Callers, StartAttempt(c) PROVE IInv'
<1> USE NobodyAssumption, TimesAssumption, AttemptsAssumption
<1> USE DEF StartAttempt, Go, local, receipts, IInv, Steps, Results, Acquiring, WithPermit, Finishing
<1>1. TypeOK'
  BY DEF TypeOK, CallsAreFresh
<1>2. CallsAreFresh'
  BY DEF TypeOK, CallsAreFresh
<1>3. LockIsOwned'
  BY DEF TypeOK, LockIsOwned, PermitHasLock, NoLock
<1>4. PermitHasLock'
  BY DEF TypeOK, LockIsOwned, PermitHasLock, NoLock
<1>5. IntervalIsKept'
  BY DEF TypeOK, PermitHasLock, IntervalIsKept, Sleeping
<1>6. ReceiptsAreSafe'
  BY DEF TypeOK, ReceiptsAreSafe, Listed, Others, Job, Callers
<1> QED
  BY <1>1, <1>2, <1>3, <1>4, <1>5, <1>6

\* The choice between a retry and the receipt keeps it.
LEMMA SettleInv ==
    ASSUME IInv, NEW c \in Callers, Settle(c) PROVE IInv'
<1> USE NobodyAssumption, TimesAssumption, AttemptsAssumption
<1> USE DEF Settle, Go, ShouldRetry, local, receipts, IInv, Steps, Results, Acquiring, WithPermit, Finishing
<1>1. TypeOK'
  BY DEF TypeOK, NoLock, Job, Callers
<1>2. CallsAreFresh'
  BY DEF TypeOK, CallsAreFresh
<1>3. LockIsOwned'
  BY DEF TypeOK, LockIsOwned, PermitHasLock, NoLock
<1>4. PermitHasLock'
  BY DEF TypeOK, LockIsOwned, PermitHasLock, NoLock
<1>5. IntervalIsKept'
  BY DEF TypeOK, PermitHasLock, IntervalIsKept, Sleeping
<1>6. ReceiptsAreSafe'
  BY DEF TypeOK, ReceiptsAreSafe, Listed, Others, Job, Callers
<1> QED
  BY <1>1, <1>2, <1>3, <1>4, <1>5, <1>6

\* Looking at the age of the lock keeps it.
LEMMA InspectInv ==
    ASSUME IInv, NEW c \in Callers, Inspect(c) PROVE IInv'
<1> USE NobodyAssumption, TimesAssumption, AttemptsAssumption
<1> USE DEF Inspect, Go, IsStale, local, receipts, IInv, Steps, Results, Acquiring, WithPermit, Finishing
<1>1. TypeOK'
  BY DEF TypeOK, NoLock, Job, Callers
<1>2. CallsAreFresh'
  BY DEF TypeOK, CallsAreFresh
<1>3. LockIsOwned'
  BY DEF TypeOK, LockIsOwned, PermitHasLock, NoLock
<1>4. PermitHasLock'
  BY DEF TypeOK, LockIsOwned, PermitHasLock, NoLock
<1>5. IntervalIsKept'
  BY DEF TypeOK, PermitHasLock, IntervalIsKept, Sleeping
<1>6. ReceiptsAreSafe'
  BY DEF TypeOK, ReceiptsAreSafe, Listed, Others, Job, Callers
<1> QED
  BY <1>1, <1>2, <1>3, <1>4, <1>5, <1>6

\* Removing a lock taken for stale keeps it.
LEMMA RemoveStaleInv ==
    ASSUME IInv, NEW c \in Callers, RemoveStale(c) PROVE IInv'
<1> USE NobodyAssumption, TimesAssumption, AttemptsAssumption
<1> USE DEF RemoveStale, Go, local, receipts, IInv, Steps, Results, Acquiring, WithPermit, Finishing
<1>1. TypeOK'
  BY DEF TypeOK, NoLock, Job, Callers
<1>2. CallsAreFresh'
  BY DEF TypeOK, CallsAreFresh
<1>3. LockIsOwned'
  BY DEF TypeOK, LockIsOwned, PermitHasLock, NoLock
<1>4. PermitHasLock'
  BY DEF TypeOK, LockIsOwned, PermitHasLock, NoLock
<1>5. IntervalIsKept'
  BY DEF TypeOK, PermitHasLock, IntervalIsKept, Sleeping
<1>6. ReceiptsAreSafe'
  BY DEF TypeOK, ReceiptsAreSafe, Listed, Others, Job, Callers
<1> QED
  BY <1>1, <1>2, <1>3, <1>4, <1>5, <1>6

\* Creating the lock keeps it.
LEMMA CreateInv ==
    ASSUME IInv, NEW c \in Callers, Create(c) PROVE IInv'
<1> USE NobodyAssumption, TimesAssumption, AttemptsAssumption
<1> USE DEF Create, Go, Free, local, receipts, IInv, Steps, Results, Acquiring, WithPermit, Finishing
<1>1. TypeOK'
  BY DEF TypeOK, NoLock, Job, Callers
<1>2. CallsAreFresh'
  BY DEF TypeOK, CallsAreFresh
<1>3. LockIsOwned'
  BY DEF TypeOK, LockIsOwned, PermitHasLock, NoLock
<1>4. PermitHasLock'
  BY DEF TypeOK, LockIsOwned, PermitHasLock, NoLock
<1>5. IntervalIsKept'
  BY DEF TypeOK, PermitHasLock, IntervalIsKept, Sleeping
<1>6. ReceiptsAreSafe'
  BY DEF TypeOK, ReceiptsAreSafe, Listed, Others, Job, Callers
<1> QED
  BY <1>1, <1>2, <1>3, <1>4, <1>5, <1>6

\* Finding the lock taken keeps it.
LEMMA FindLockedInv ==
    ASSUME IInv, NEW c \in Callers, FindLocked(c) PROVE IInv'
<1> USE NobodyAssumption, TimesAssumption, AttemptsAssumption
<1> USE DEF FindLocked, Go, TimedOut, local, receipts, IInv, Steps, Results, Acquiring, WithPermit, Finishing
<1>1. TypeOK'
  <2>1. CASE TimedOut(c)
    BY <2>1 DEF TypeOK
  <2>2. CASE ~TimedOut(c)
    BY <2>2 DEF TypeOK
  <2> QED
    BY <2>1, <2>2
<1>2. CallsAreFresh'
  BY DEF TypeOK, CallsAreFresh
<1>3. LockIsOwned'
  BY DEF TypeOK, LockIsOwned, PermitHasLock, NoLock
<1>4. PermitHasLock'
  BY DEF TypeOK, LockIsOwned, PermitHasLock, NoLock
<1>5. IntervalIsKept'
  BY DEF TypeOK, PermitHasLock, IntervalIsKept, Sleeping
<1>6. ReceiptsAreSafe'
  <2>1. /\ pc[c] = "open" /\ pc'[c] \in {"settle", "inspect"}
        /\ \A d \in Callers \ {c} : pc'[d] = pc[d]
    BY DEF TypeOK
  <2>2. \A d \in Callers : pc[d] \in Finishing \cup {"idle"} \/ pc'[d] \in Finishing \cup {"idle"} => pc'[d] = pc[d]
    BY <2>1
  <2>3. \A d \in Callers : Others(d)' = Others(d) /\ Listed(d)' = Listed(d)
    BY <2>2 DEF Others, Listed, Callers
  <2> QED
    BY <2>2, <2>3 DEF ReceiptsAreSafe
<1> QED
  BY <1>1, <1>2, <1>3, <1>4, <1>5, <1>6

\* Reading the time of the last request keeps it.
LEMMA CheckIntervalInv ==
    ASSUME IInv, NEW c \in Callers, CheckInterval(c) PROVE IInv'
<1> USE NobodyAssumption, TimesAssumption, AttemptsAssumption
<1> USE DEF CheckInterval, Go, local, receipts, IInv, Steps, Results, Acquiring, WithPermit, Finishing
<1>1. TypeOK'
  <2>1. PICK s \in {"drop", "sleep"} : Go(c, s)
    BY DEF TypeOK
  <2>2. pc' \in [Callers -> Steps]
    BY <2>1 DEF TypeOK
  <2>3. result' \in [Callers -> Results]
    BY DEF TypeOK
  <2>4. waited' \in [Callers -> 0 .. Timeout]
    BY DEF TypeOK
  <2>5. left' \in [Callers -> Nat]
    BY DEF TypeOK
  <2> QED
    BY <2>2, <2>3, <2>4, <2>5 DEF TypeOK
<1>2. CallsAreFresh'
  BY DEF TypeOK, CallsAreFresh
<1>3. LockIsOwned'
  BY DEF TypeOK, LockIsOwned, PermitHasLock, NoLock
<1>4. PermitHasLock'
  BY DEF TypeOK, LockIsOwned, PermitHasLock, NoLock
<1>5. IntervalIsKept'
  BY DEF TypeOK, PermitHasLock, IntervalIsKept, Sleeping
<1>6. ReceiptsAreSafe'
  <2>1. PICK s \in {"drop", "sleep"} : Go(c, s)
    BY DEF TypeOK
  <2>2. UNCHANGED receipts
    OBVIOUS
  <2> QED
    BY <2>1, <2>2 DEF TypeOK, ReceiptsAreSafe, Listed, Others
<1> QED
  BY <1>1, <1>2, <1>3, <1>4, <1>5, <1>6

\* Waking from a sleep keeps it.
LEMMA WakeInv ==
    ASSUME IInv, NEW c \in Callers, Wake(c) PROVE IInv'
<1> USE NobodyAssumption, TimesAssumption, AttemptsAssumption
<1> USE DEF Wake, Go, Slept, local, receipts, IInv, Steps, Results, Acquiring, WithPermit, Finishing
<1>1. TypeOK'
  BY DEF TypeOK, NoLock, Job, Callers
<1>2. CallsAreFresh'
  BY DEF TypeOK, CallsAreFresh
<1>3. LockIsOwned'
  BY DEF TypeOK, LockIsOwned, PermitHasLock, NoLock
<1>4. PermitHasLock'
  BY DEF TypeOK, LockIsOwned, PermitHasLock, NoLock
<1>5. IntervalIsKept'
  BY DEF TypeOK, PermitHasLock, IntervalIsKept, Sleeping
<1>6. ReceiptsAreSafe'
  BY DEF TypeOK, ReceiptsAreSafe, Listed, Others, Job, Callers
<1> QED
  BY <1>1, <1>2, <1>3, <1>4, <1>5, <1>6

\* A grant keeps it.
LEMMA GrantInv ==
    ASSUME IInv, NEW c \in Callers, Grant(c) PROVE IInv'
<1> USE NobodyAssumption, TimesAssumption, AttemptsAssumption
<1> USE DEF Grant, Go, local, receipts, IInv, Steps, Results, Acquiring, WithPermit, Finishing
<1>1. TypeOK'
  BY DEF TypeOK, NoLock, Job, Callers
<1>2. CallsAreFresh'
  BY DEF TypeOK, CallsAreFresh
<1>3. LockIsOwned'
  BY DEF TypeOK, LockIsOwned, PermitHasLock, NoLock
<1>4. PermitHasLock'
  BY DEF TypeOK, LockIsOwned, PermitHasLock, NoLock
<1>5. IntervalIsKept'
  BY DEF TypeOK, PermitHasLock, IntervalIsKept, Sleeping
<1>6. ReceiptsAreSafe'
  BY DEF TypeOK, ReceiptsAreSafe, Listed, Others, Job, Callers
<1> QED
  BY <1>1, <1>2, <1>3, <1>4, <1>5, <1>6

\* Writing the limiter's state keeps it.
LEMMA WriteStateInv ==
    ASSUME IInv, NEW c \in Callers, WriteState(c) PROVE IInv'
<1> USE NobodyAssumption, TimesAssumption, AttemptsAssumption
<1> USE DEF WriteState, Go, local, receipts, IInv, Steps, Results, Acquiring, WithPermit, Finishing
<1>1. TypeOK'
  BY DEF TypeOK, NoLock, Job, Callers
<1>2. CallsAreFresh'
  BY DEF TypeOK, CallsAreFresh
<1>3. LockIsOwned'
  BY DEF TypeOK, LockIsOwned, PermitHasLock, NoLock
<1>4. PermitHasLock'
  BY DEF TypeOK, LockIsOwned, PermitHasLock, NoLock
<1>5. IntervalIsKept'
  BY DEF TypeOK, PermitHasLock, IntervalIsKept, Sleeping
<1>6. ReceiptsAreSafe'
  BY DEF TypeOK, ReceiptsAreSafe, Listed, Others, Job, Callers
<1> QED
  BY <1>1, <1>2, <1>3, <1>4, <1>5, <1>6

\* The answer of the provider keeps it.
LEMMA AnswerInv ==
    ASSUME IInv, NEW c \in Callers, Answer(c) PROVE IInv'
<1> USE NobodyAssumption, TimesAssumption, AttemptsAssumption
<1> USE DEF Answer, Go, local, receipts, IInv, Steps, Results, Acquiring, WithPermit, Finishing
<1>1. TypeOK'
  BY DEF TypeOK, NoLock, Job, Callers
<1>2. CallsAreFresh'
  BY DEF TypeOK, CallsAreFresh
<1>3. LockIsOwned'
  BY DEF TypeOK, LockIsOwned, PermitHasLock, NoLock
<1>4. PermitHasLock'
  BY DEF TypeOK, LockIsOwned, PermitHasLock, NoLock
<1>5. IntervalIsKept'
  BY DEF TypeOK, PermitHasLock, IntervalIsKept, Sleeping
<1>6. ReceiptsAreSafe'
  BY DEF TypeOK, ReceiptsAreSafe, Listed, Others, Job, Callers
<1> QED
  BY <1>1, <1>2, <1>3, <1>4, <1>5, <1>6

\* Giving the lock back keeps it.
LEMMA DropInv ==
    ASSUME IInv, NEW c \in Callers, Drop(c) PROVE IInv'
<1> USE NobodyAssumption, TimesAssumption, AttemptsAssumption
<1> USE DEF Drop, Go, local, receipts, IInv, Steps, Results, Acquiring, WithPermit, Finishing
<1>1. TypeOK'
  BY DEF TypeOK, NoLock, Job, Callers
<1>2. CallsAreFresh'
  BY DEF TypeOK, CallsAreFresh
<1>3. LockIsOwned'
  BY DEF TypeOK, LockIsOwned, PermitHasLock, NoLock
<1>4. PermitHasLock'
  BY DEF TypeOK, LockIsOwned, PermitHasLock, NoLock
<1>5. IntervalIsKept'
  BY DEF TypeOK, PermitHasLock, IntervalIsKept, Sleeping
<1>6. ReceiptsAreSafe'
  BY DEF TypeOK, ReceiptsAreSafe, Listed, Others, Job, Callers
<1> QED
  BY <1>1, <1>2, <1>3, <1>4, <1>5, <1>6

\* Reading the ledger keeps it.
LEMMA ReadLedgerInv ==
    ASSUME IInv, NEW c \in Callers, ReadLedger(c) PROVE IInv'
<1> USE NobodyAssumption, TimesAssumption, AttemptsAssumption
<1> USE DEF ReadLedger, Go, Extended, local, receipts, IInv, Steps, Results, Acquiring, WithPermit, Finishing
<1>1. TypeOK'
  BY DEF TypeOK, NoLock, Job, Callers
<1>2. CallsAreFresh'
  BY DEF TypeOK, CallsAreFresh
<1>3. LockIsOwned'
  BY DEF TypeOK, LockIsOwned, PermitHasLock, NoLock
<1>4. PermitHasLock'
  BY DEF TypeOK, LockIsOwned, PermitHasLock, NoLock
<1>5. IntervalIsKept'
  BY DEF TypeOK, PermitHasLock, IntervalIsKept, Sleeping
<1>6. ReceiptsAreSafe'
  <2> SUFFICES ASSUME NEW x \in Callers, ~met'[x]
               PROVE  /\ pc'[x] \in Finishing => Others(x)' = {}
                      /\ pc'[x] \in {"save", "put"} => x \in draft'[x]
                      /\ pc'[x] = "confirm" => x \in ledger'[Job(x)]
                      /\ Listed(x)' => returned'[x] # "lost"
                      /\ Listed(x)' /\ ~torn'[x] =>
                           /\ \A d \in Callers : Job(d) = Job(x) /\ pc'[d] \in {"save", "put"} =>
                                x \in draft'[d]
                           /\ \/ x \in ledger'[Job(x)]
                              \/ /\ ledger'[Job(x)] = {}
                                 /\ \E d \in Callers : Job(d) = Job(x) /\ pc'[d] = "put"
    BY DEF ReceiptsAreSafe, Listed, Others, Job
  <2>1. /\ ~met[x] /\ x \notin Others(c) /\ (x = c => Others(c) = {})
        /\ ~torn'[x] => /\ ~torn[x]
                        /\ ~(x \in Emptied(c) /\ \E e \in Others(c) : pc[e] = "put")
    BY DEF TypeOK
  <2>2. \A d \in Callers : d # c => pc'[d] = pc[d] /\ draft'[d] = draft[d]
    BY DEF TypeOK
  <2>3. pc[c] = "read" /\ pc'[c] = "save" /\ draft'[c] = ledger[Job(c)] \cup {c}
    BY DEF TypeOK
  <2>4. ledger' = ledger /\ returned' = returned
    OBVIOUS
  <2>5. pc'[x] \in Finishing => Others(x)' = {}
    BY <2>1, <2>2, <2>3 DEF TypeOK, ReceiptsAreSafe, Others, Job
  <2>6. pc'[x] \in {"save", "put"} => x \in draft'[x]
    BY <2>1, <2>2, <2>3 DEF TypeOK, ReceiptsAreSafe
  <2>7. /\ pc'[x] = "confirm" => x \in ledger'[Job(x)]
        /\ Listed(x)' => Listed(x) /\ returned'[x] # "lost"
    BY <2>1, <2>2, <2>3, <2>4 DEF TypeOK, ReceiptsAreSafe, Listed
  <2>8. ASSUME Listed(x)', ~torn'[x]
        PROVE  /\ \A d \in Callers : Job(d) = Job(x) /\ pc'[d] \in {"save", "put"} =>
                     x \in draft'[d]
               /\ \/ x \in ledger'[Job(x)]
                  \/ /\ ledger'[Job(x)] = {}
                     /\ \E d \in Callers : Job(d) = Job(x) /\ pc'[d] = "put"
    <3>1. /\ \A d \in Callers : Job(d) = Job(x) /\ pc[d] \in {"save", "put"} => x \in draft[d]
          /\ \/ x \in ledger[Job(x)]
             \/ /\ ledger[Job(x)] = {}
                /\ \E d \in Callers : Job(d) = Job(x) /\ pc[d] = "put"
      BY <2>1, <2>7, <2>8 DEF ReceiptsAreSafe
    <3>2. Job(c) = Job(x) => x \in ledger[Job(x)]
      BY <2>1, <2>3, <2>7, <2>8, <3>1 DEF Emptied, Others
    <3>3. \A d \in Callers : Job(d) = Job(x) /\ pc'[d] \in {"save", "put"} => x \in draft'[d]
      BY <2>2, <2>3, <3>1, <3>2
    <3>4. \A d \in Callers : pc[d] = "put" => pc'[d] = "put"
      BY <2>2, <2>3
    <3> QED
      BY <2>4, <3>1, <3>3, <3>4
  <2> QED
    BY <2>5, <2>6, <2>7, <2>8
<1> QED
  BY <1>1, <1>2, <1>3, <1>4, <1>5, <1>6

\* Emptying the ledger before it is written keeps it.
LEMMA TruncateLedgerInv ==
    ASSUME IInv, NEW c \in Callers, TruncateLedger(c) PROVE IInv'
<1> USE NobodyAssumption, TimesAssumption, AttemptsAssumption
<1> USE DEF TruncateLedger, Go, local, receipts, IInv, Steps, Results, Acquiring, WithPermit, Finishing
<1>1. TypeOK'
  BY DEF TypeOK, NoLock, Job, Callers
<1>2. CallsAreFresh'
  BY DEF TypeOK, CallsAreFresh
<1>3. LockIsOwned'
  BY DEF TypeOK, LockIsOwned, PermitHasLock, NoLock
<1>4. PermitHasLock'
  BY DEF TypeOK, LockIsOwned, PermitHasLock, NoLock
<1>5. IntervalIsKept'
  BY DEF TypeOK, PermitHasLock, IntervalIsKept, Sleeping
<1>6. ReceiptsAreSafe'
  BY DEF TypeOK, ReceiptsAreSafe, Listed, Others, Job, Callers
<1> QED
  BY <1>1, <1>2, <1>3, <1>4, <1>5, <1>6

\* Writing the ledger keeps it.
LEMMA WriteLedgerInv ==
    ASSUME IInv, NEW c \in Callers, WriteLedger(c) PROVE IInv'
<1> USE NobodyAssumption, TimesAssumption, AttemptsAssumption
<1> USE DEF WriteLedger, Go, local, receipts, IInv, Steps, Results, Acquiring, WithPermit, Finishing
<1>1. TypeOK'
  BY DEF TypeOK, NoLock, Job, Callers
<1>2. CallsAreFresh'
  BY DEF TypeOK, CallsAreFresh
<1>3. LockIsOwned'
  BY DEF TypeOK, LockIsOwned, PermitHasLock, NoLock
<1>4. PermitHasLock'
  BY DEF TypeOK, LockIsOwned, PermitHasLock, NoLock
<1>5. IntervalIsKept'
  BY DEF TypeOK, PermitHasLock, IntervalIsKept, Sleeping
<1>6. ReceiptsAreSafe'
  BY DEF TypeOK, ReceiptsAreSafe, Listed, Others, Job, Callers
<1> QED
  BY <1>1, <1>2, <1>3, <1>4, <1>5, <1>6

\* Reading the receipt back keeps it.
LEMMA ReadBackInv ==
    ASSUME IInv, NEW c \in Callers, ReadBack(c) PROVE IInv'
<1> USE NobodyAssumption, TimesAssumption, AttemptsAssumption
<1> USE DEF ReadBack, Go, Forget, local, receipts, IInv, Steps, Results, Acquiring, WithPermit, Finishing
<1>1. TypeOK'
  BY DEF TypeOK, NoLock, Job, Callers
<1>2. CallsAreFresh'
  BY DEF TypeOK, CallsAreFresh
<1>3. LockIsOwned'
  BY DEF TypeOK, LockIsOwned, PermitHasLock, NoLock
<1>4. PermitHasLock'
  BY DEF TypeOK, LockIsOwned, PermitHasLock, NoLock
<1>5. IntervalIsKept'
  BY DEF TypeOK, PermitHasLock, IntervalIsKept, Sleeping
<1>6. ReceiptsAreSafe'
  BY DEF TypeOK, ReceiptsAreSafe, Listed, Others, Job, Callers
<1> QED
  BY <1>1, <1>2, <1>3, <1>4, <1>5, <1>6

\* A kill at any step keeps it.
LEMMA KillInv ==
    ASSUME IInv, NEW c \in Callers, Kill(c) PROVE IInv'
<1> USE NobodyAssumption, TimesAssumption, AttemptsAssumption
<1> USE DEF Kill, Go, Forget, local, receipts, IInv, Steps, Results, Acquiring, WithPermit, Finishing
<1>1. TypeOK'
  <2>1. torn' \in [Callers -> BOOLEAN]
    <3>1. \A d \in Callers : (torn[d] \/ (pc[c] = "put" /\ d \in Emptied(c))) \in BOOLEAN
      BY Zenon
    <3> QED
      BY <3>1, Zenon
  <2>2. /\ pc' \in [Callers -> Steps]
        /\ tries' \in [Callers -> 0 .. MaxAttempts]
        /\ waited' \in [Callers -> 0 .. Timeout]
        /\ left' \in [Callers -> Nat]
        /\ result' \in [Callers -> Results]
    BY DEF TypeOK
  <2>3. /\ draft' \in [Callers -> SUBSET Callers]
        /\ kills' \in Nat
    BY DEF TypeOK
  <2>4. lock' \in [there : BOOLEAN, age : 0 .. StaleLock, owner : Callers \cup {Nobody}]
    BY DEF TypeOK
  <2> QED
    BY <2>1, <2>2, <2>3, <2>4 DEF TypeOK
<1>2. CallsAreFresh'
  BY DEF TypeOK, CallsAreFresh
<1>3. LockIsOwned'
  BY DEF TypeOK, LockIsOwned, PermitHasLock, NoLock
<1>4. PermitHasLock'
  BY DEF TypeOK, LockIsOwned, PermitHasLock, NoLock
<1>5. IntervalIsKept'
  BY DEF TypeOK, PermitHasLock, IntervalIsKept, Sleeping
<1>6. ReceiptsAreSafe'
  <2> SUFFICES ASSUME NEW x \in Callers, ~met'[x]
               PROVE  /\ pc'[x] \in Finishing => Others(x)' = {}
                      /\ pc'[x] \in {"save", "put"} => x \in draft'[x]
                      /\ pc'[x] = "confirm" => x \in ledger'[Job(x)]
                      /\ Listed(x)' => returned'[x] # "lost"
                      /\ Listed(x)' /\ ~torn'[x] =>
                           /\ \A d \in Callers : Job(d) = Job(x) /\ pc'[d] \in {"save", "put"} =>
                                x \in draft'[d]
                           /\ \/ x \in ledger'[Job(x)]
                              \/ /\ ledger'[Job(x)] = {}
                                 /\ \E d \in Callers : Job(d) = Job(x) /\ pc'[d] = "put"
    BY DEF ReceiptsAreSafe, Listed, Others, Job
  <2>1. /\ ~met[x]
        /\ ~torn'[x] => ~torn[x] /\ ~(pc[c] = "put" /\ x \in Emptied(c))
    BY DEF TypeOK
  <2>2. \A d \in Callers : d # c => pc'[d] = pc[d] /\ draft'[d] = draft[d]
    BY DEF TypeOK
  <2>3. pc[c] # "idle" /\ pc'[c] = "idle" /\ returned[c] = "none"
    BY DEF TypeOK, CallsAreFresh
  <2>4. ledger' = ledger /\ returned' = returned
    OBVIOUS
  <2>5. pc'[x] \in Finishing => Others(x)' = {}
    BY <2>1, <2>2, <2>3 DEF TypeOK, ReceiptsAreSafe, Others, Job
  <2>6. /\ pc'[x] \in {"save", "put"} => x \in draft'[x]
        /\ pc'[x] = "confirm" => x \in ledger'[Job(x)]
        /\ Listed(x)' => Listed(x) /\ returned'[x] # "lost"
    BY <2>1, <2>2, <2>3, <2>4 DEF TypeOK, ReceiptsAreSafe, Listed
  <2>7. ASSUME Listed(x)', ~torn'[x]
        PROVE  /\ \A d \in Callers : Job(d) = Job(x) /\ pc'[d] \in {"save", "put"} =>
                     x \in draft'[d]
               /\ \/ x \in ledger'[Job(x)]
                  \/ /\ ledger'[Job(x)] = {}
                     /\ \E d \in Callers : Job(d) = Job(x) /\ pc'[d] = "put"
    <3>1. /\ \A d \in Callers : Job(d) = Job(x) /\ pc[d] \in {"save", "put"} => x \in draft[d]
          /\ \/ x \in ledger[Job(x)]
             \/ /\ ledger[Job(x)] = {}
                /\ \E d \in Callers : Job(d) = Job(x) /\ pc[d] = "put"
      BY <2>1, <2>6, <2>7 DEF ReceiptsAreSafe
    <3>2. Job(c) = Job(x) /\ pc[c] = "put" => x \in ledger[Job(x)]
      BY <2>1, <2>6, <2>7, <3>1 DEF Emptied
    <3>3. \A d \in Callers : Job(d) = Job(x) /\ pc'[d] \in {"save", "put"} => x \in draft'[d]
      BY <2>2, <2>3, <3>1
    <3>4. \A d \in Callers \ {c} : pc[d] = "put" => pc'[d] = "put"
      BY <2>2
    <3> QED
      BY <2>4, <3>1, <3>2, <3>3, <3>4
  <2> QED
    BY <2>5, <2>6, <2>7
<1> QED
  BY <1>1, <1>2, <1>3, <1>4, <1>5, <1>6

\* Time makes remainders shrink by what the time since the last grant grows.
LEMMA TickInv ==
    ASSUME IInv, Tick PROVE IInv'
<1> USE TimesAssumption
<1> USE DEF Tick, receipts, Upto, Less, IInv
<1>1. TypeOK'
  BY DEF TypeOK, Acquiring
<1>2. CallsAreFresh' /\ LockIsOwned' /\ PermitHasLock'
  BY DEF TypeOK, CallsAreFresh, LockIsOwned, PermitHasLock
<1>3. IntervalIsKept'
  BY DEF TypeOK, IntervalIsKept, Sleeping
<1>4. ReceiptsAreSafe'
  BY DEF ReceiptsAreSafe, Listed, Others
<1> QED
  BY <1>1, <1>2, <1>3, <1>4

\* A step of somebody else keeps it.
LEMMA StutterInv ==
    ASSUME IInv, UNCHANGED vars PROVE IInv'
<1> USE DEF vars, local, receipts, IInv
<1> QED
  BY DEF TypeOK, CallsAreFresh, LockIsOwned, PermitHasLock, IntervalIsKept,
     ReceiptsAreSafe, Listed, Others

\* Every step keeps the invariant.
LEMMA StepInv ==
    ASSUME IInv, [Next]_vars PROVE IInv'
<1>1. CASE Tick
  BY <1>1, TickInv
<1>2. ASSUME NEW c \in Callers, Begin(c) \/ Work(c) \/ Kill(c) PROVE IInv'
  BY <1>2, BeginInv, KillInv, RejectInv, StartAttemptInv, SettleInv, InspectInv, RemoveStaleInv, CreateInv, FindLockedInv, CheckIntervalInv, WakeInv, GrantInv, WriteStateInv, AnswerInv, DropInv, ReadLedgerInv, TruncateLedgerInv, WriteLedgerInv, ReadBackInv DEF Work
<1>3. CASE UNCHANGED vars
  BY <1>3, StutterInv
<1> QED
  BY <1>1, <1>2, <1>3 DEF Next

\* The inductive invariant holds in every state: whatever times out, dies or
\* is delayed between two steps, permits, locks and waits fit together.
THEOREM InductiveInvariant == Spec => []IInv
<1>1. Init => IInv
  BY InitInv
<1>2. IInv /\ [Next]_vars => IInv'
  BY StepInv
<1> QED
  BY <1>1, <1>2, PTL DEF Spec

\* The provider is called by one process at a time unless a lock was removed
\* under its living owner: two callers with a permit would own one lock.
THEOREM SerialCalls == Spec => []OneCallAtATime
<1>1. IInv => OneCallAtATime
  BY DEF IInv, TypeOK, PermitHasLock, OneCallAtATime, WithPermit
<1> QED
  BY <1>1, InductiveInvariant, PTL

\* Grants keep their distance, for any interval and any delay of the writer.
THEOREM SpacedGrants == Spec => GrantsAreSpaced
<1>1. IInv /\ [Next]_vars =>
        [\A c \in Callers :
           pc[c] = "grant" /\ pc'[c] = "write" => seized \/ since = MinInterval]_vars
  BY DEF IInv, IntervalIsKept
<1> QED
  BY <1>1, InductiveInvariant, PTL DEF Spec, GrantsAreSpaced

\* A call that was alone at the ledger gets its receipt back; only a file read
\* or left while it is emptied loses it afterwards, whoever else meets there.
THEOREM KeptReceipts == Spec => []ReceiptIsKept
<1>1. IInv => ReceiptIsKept
  BY DEF IInv, ReceiptsAreSafe, ReceiptIsKept
<1> QED
  BY <1>1, InductiveInvariant, PTL
==============================================================================
