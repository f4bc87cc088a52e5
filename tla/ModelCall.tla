----------------------------- MODULE ModelCall ------------------------------
(***************************************************************************)
(* A model call (process_kernel/src/model_runtime.rs): attempts under the    *)
(* retry policy, each behind the provider limiter that all processes of a    *)
(* workspace share, then the receipt in the call ledger of the job.  Limiter *)
(* and ledger are files: a lock that exists or not, the time of the next     *)
(* permitted call, and a list that is read, extended and written back.       *)
(* A force close kills the worker at any point; destructors do not run then. *)
(* Time is kept as ages and remainders, which Tick moves.                    *)
(***************************************************************************)
EXTENDS Naturals

CONSTANTS Jobs,        \* jobs of one workspace
          Loops,       \* who may call a model for one job at the same time
          Nobody,      \* the owner of a lock whose creator was killed
          Timeout,     \* budget.timeout_ms
          MinInterval, \* min_interval_ms
          StaleLock,   \* stale_lock_ms
          MaxAttempts, \* max_attempts of the retry policy
          MaxKills     \* bound: processes killed

Callers == Jobs \X Loops

ASSUME NobodyAssumption == Nobody \notin Callers
ASSUME TimesAssumption ==
    Timeout \in Nat /\ MinInterval \in Nat /\ StaleLock \in Nat
ASSUME AttemptsAssumption == MaxAttempts \in Nat \ {0}

VARIABLES pc,       \* what the caller does next; "idle" between calls
          tries,    \* attempts
          waited,   \* started_at.elapsed() inside acquire
          left,     \* remaining sleep, or remaining interval of its own grant
          result,   \* provider_result of the attempt, last_error of the call
          lock,     \* the lock file: its age, and as a history whose it is
          file,     \* the state file: time to next_allowed_at_ms, if readable
          ledger,   \* ledger[j]: callers whose present call is listed
          draft,    \* draft[c]: the ledger c read and extended
          returned, \* what the caller's last invoke gave back
          since,    \* history: time since the last grant
          seized,   \* history: a lock was taken from a living owner
          met,      \* history: another call of the job was at the ledger with this one
          torn,     \* history: the file with its receipt was lost while it was empty
          kills

local == <<tries, waited, left, result>>
receipts == <<ledger, draft, returned, met, torn>>
vars == <<pc, local, lock, file, receipts, since, seized, kills>>

Job(c) == c[1]
NoLock == [there |-> FALSE, age |-> 0, owner |-> Nobody]
Upto(n, limit) == IF n < limit THEN n + 1 ELSE n
Less(n) == IF n > 0 THEN n - 1 ELSE 0
Go(c, s) == pc' = [pc EXCEPT ![c] = s]

Acquiring == {"inspect", "remove", "open", "interval"}
WithPermit == {"interval", "sleep", "grant", "write", "calling", "drop"}
Finishing == {"save", "put", "confirm"}
Steps == {"idle", "start", "settle", "read"} \cup Acquiring \cup WithPermit \cup Finishing
Results == {"none", "ok", "retry", "fatal"}

Init ==
    /\ pc = [c \in Callers |-> "idle"]
    /\ tries = [c \in Callers |-> 0]
    /\ waited = [c \in Callers |-> 0]
    /\ left = [c \in Callers |-> 0]
    /\ result = [c \in Callers |-> "none"]
    /\ lock = NoLock
    /\ file = [readable |-> TRUE, pause |-> 0]
    /\ ledger = [j \in Jobs |-> {}]
    /\ draft = [c \in Callers |-> {}]
    /\ returned = [c \in Callers |-> "none"]
    /\ met = [c \in Callers |-> FALSE]
    /\ torn = [c \in Callers |-> FALSE]
    /\ since = MinInterval
    /\ seized = FALSE
    /\ kills = 0

---------------------------------------------------------------------------
(* The call and its attempts.                                               *)

(* invoke takes a new model_call_id: what is listed belongs to older calls. *)
Begin(c) ==
    /\ pc[c] = "idle"
    /\ Go(c, "start")
    /\ ledger' = [j \in Jobs |-> ledger[j] \ {c}]
    /\ draft' = [d \in Callers |-> draft[d] \ {c}]
    /\ returned' = [returned EXCEPT ![c] = "none"]
    /\ met' = [met EXCEPT ![c] = FALSE]
    /\ torn' = [torn EXCEPT ![c] = FALSE]
    /\ UNCHANGED <<local, lock, file, since, seized, kills>>

(* A capability not granted, an input reference, a tool set that is not to   *)
(* be had: the call ends before any attempt.                                *)
Reject(c) ==
    /\ pc[c] = "start"
    /\ tries[c] = 0
    /\ result' = [result EXCEPT ![c] = "fatal"]
    /\ Go(c, "read")
    /\ UNCHANGED <<tries, waited, left, lock, file, receipts, since, seized, kills>>

StartAttempt(c) ==
    /\ pc[c] = "start"
    /\ tries' = [tries EXCEPT ![c] = @ + 1]
    /\ Go(c, "inspect")
    /\ UNCHANGED <<waited, left, result, lock, file, receipts, since, seized, kills>>

(* Mutant of ShouldRetry: retries are counted instead of attempts.          *)
RetryOnceMore(c) == result[c] = "retry" /\ tries[c] <= MaxAttempts

ShouldRetry(c) == result[c] = "retry" /\ tries[c] < MaxAttempts

(* The attempt is logged; a retry sleeps first, for as long as it may.      *)
Settle(c) ==
    /\ pc[c] = "settle"
    /\ Go(c, IF ShouldRetry(c) THEN "start" ELSE "read")
    /\ UNCHANGED <<local, lock, file, receipts, since, seized, kills>>

---------------------------------------------------------------------------
(* ProviderApiLimiter::acquire.                                             *)

(* Mutant of Free: the lock file is created whether it exists or not.       *)
FreeOrNot == TRUE

(* OpenOptions::create_new.                                                 *)
Free == ~lock.there

(* Mutant of TimedOut: the wait for the lock has no end of its own.         *)
WaitsForLock(c) == FALSE

TimedOut(c) == waited[c] >= Timeout

(* Mutant of IsStale: a lock is never too old.                              *)
NeverStale == FALSE

IsStale == lock.there /\ lock.age >= StaleLock

(* remove_stale_lock_if_needed looks at the age first ...                   *)
Inspect(c) ==
    /\ pc[c] = "inspect"
    /\ Go(c, IF IsStale THEN "remove" ELSE "open")
    /\ UNCHANGED <<local, lock, file, receipts, since, seized, kills>>

(* ... and then removes the lock that is there by now.                      *)
RemoveStale(c) ==
    /\ pc[c] = "remove"
    /\ lock' = NoLock
    /\ seized' = (seized \/ lock.owner # Nobody)
    /\ Go(c, "open")
    /\ UNCHANGED <<local, file, receipts, since, kills>>

Create(c) ==
    /\ pc[c] = "open"
    /\ Free
    /\ lock' = [there |-> TRUE, age |-> 0, owner |-> c]
    /\ Go(c, "interval")
    /\ UNCHANGED <<local, file, receipts, since, seized, kills>>

(* AlreadyExists: give up after the timeout, else sleep and start over.     *)
FindLocked(c) ==
    /\ pc[c] = "open"
    /\ lock.there
    /\ IF TimedOut(c)
       THEN /\ result' = [result EXCEPT ![c] = "retry"]
            /\ waited' = [waited EXCEPT ![c] = 0]
            /\ Go(c, "settle")
       ELSE Go(c, "inspect") /\ UNCHANGED <<result, waited>>
    /\ UNCHANGED <<tries, left, lock, file, receipts, since, seized, kills>>

(* enforce_min_interval gives up, with the permit, when the state file does  *)
(* not parse or its time is too far away for what is left of the timeout.   *)
CheckInterval(c) ==
    /\ pc[c] = "interval"
    /\ waited' = [waited EXCEPT ![c] = 0]
    /\ \/ /\ ~file.readable
          /\ result' = [result EXCEPT ![c] = "fatal"]
          /\ Go(c, "drop")
          /\ UNCHANGED left
       \/ /\ file.readable
          /\ file.pause > Timeout - waited[c]
          /\ result' = [result EXCEPT ![c] = "retry"]
          /\ Go(c, "drop")
          /\ UNCHANGED left
       \/ /\ file.readable
          /\ file.pause <= Timeout - waited[c]
          /\ left' = [left EXCEPT ![c] = file.pause]
          /\ Go(c, "sleep")
          /\ UNCHANGED result
    /\ UNCHANGED <<tries, lock, file, receipts, since, seized, kills>>

(* Mutant of Slept: the wait is computed and not slept.                     *)
NotSlept(c) == TRUE

Slept(c) == left[c] = 0

Wake(c) ==
    /\ pc[c] = "sleep"
    /\ Slept(c)
    /\ Go(c, "grant")
    /\ UNCHANGED <<local, lock, file, receipts, since, seized, kills>>

(* granted_at_ms is taken; fs::write empties the file before it fills it.   *)
Grant(c) ==
    /\ pc[c] = "grant"
    /\ left' = [left EXCEPT ![c] = MinInterval]
    /\ file' = [readable |-> FALSE, pause |-> 0]
    /\ since' = 0
    /\ Go(c, "write")
    /\ UNCHANGED <<tries, waited, result, lock, receipts, seized, kills>>

WriteState(c) ==
    /\ pc[c] = "write"
    /\ file' = [readable |-> TRUE, pause |-> left[c]]
    /\ left' = [left EXCEPT ![c] = 0]
    /\ Go(c, "calling")
    /\ UNCHANGED <<tries, waited, result, lock, receipts, since, seized, kills>>

(* The provider answers, fails for now, or fails for good.                  *)
Answer(c) ==
    /\ pc[c] = "calling"
    /\ \E r \in {"ok", "retry", "fatal"} : result' = [result EXCEPT ![c] = r]
    /\ Go(c, "drop")
    /\ UNCHANGED <<tries, waited, left, lock, file, receipts, since, seized, kills>>

(* The permit's destructor removes the lock file, whoever created it.       *)
Drop(c) ==
    /\ pc[c] = "drop"
    /\ lock' = NoLock
    /\ Go(c, "settle")
    /\ UNCHANGED <<local, file, receipts, since, seized, kills>>

---------------------------------------------------------------------------
(* finish_model_call and last_model_receipt.                                *)

Others(c) == {d \in Callers \ {c} : Job(d) = Job(c) /\ pc[d] \in Finishing}

(* The call has returned with a receipt: it is to be found from now on.     *)
Listed(c) == pc[c] = "idle" /\ returned[c] # "none"

(* The receipts that an emptied file no longer has.                         *)
Emptied(c) == {d \in Callers : Job(d) = Job(c) /\ Listed(d) /\ ledger[Job(c)] = {}}

(* Mutant of Extended: every call starts a ledger.                          *)
OnlyThis(c) == {c}

(* An unreadable ledger counts as an empty one.                             *)
Extended(c) == ledger[Job(c)] \cup {c}

ReadLedger(c) ==
    /\ pc[c] = "read"
    /\ draft' = [draft EXCEPT ![c] = Extended(c)]
    /\ met' = [d \in Callers |-> met[d] \/ d \in Others(c) \/ (d = c /\ Others(c) # {})]
    /\ torn' = [d \in Callers |-> torn[d] \/ (/\ d \in Emptied(c)
                                            /\ \E e \in Others(c) : pc[e] = "put")]
    /\ Go(c, "save")
    /\ UNCHANGED <<local, lock, file, ledger, returned, since, seized, kills>>

TruncateLedger(c) ==
    /\ pc[c] = "save"
    /\ ledger' = [ledger EXCEPT ![Job(c)] = {}]
    /\ Go(c, "put")
    /\ UNCHANGED <<local, lock, file, draft, returned, met, torn, since, seized, kills>>

WriteLedger(c) ==
    /\ pc[c] = "put"
    /\ ledger' = [ledger EXCEPT ![Job(c)] = draft[c]]
    /\ draft' = [draft EXCEPT ![c] = {}]
    /\ Go(c, "confirm")
    /\ UNCHANGED <<local, lock, file, returned, met, torn, since, seized, kills>>

Forget(c) ==
    /\ tries' = [tries EXCEPT ![c] = 0]
    /\ waited' = [waited EXCEPT ![c] = 0]
    /\ left' = [left EXCEPT ![c] = 0]
    /\ result' = [result EXCEPT ![c] = "none"]

(* invoke returns the receipt it finds in the ledger, or NotFound.          *)
ReadBack(c) ==
    /\ pc[c] = "confirm"
    /\ returned' = [returned EXCEPT
         ![c] = IF c \in ledger[Job(c)] THEN result[c] ELSE "lost"]
    /\ Go(c, "idle")
    /\ Forget(c)
    /\ UNCHANGED <<lock, file, ledger, draft, met, torn, since, seized, kills>>

---------------------------------------------------------------------------
(* A killed process leaves its lock behind and a file it was writing empty,  *)
(* the ledger with all the receipts it had.                                 *)
Kill(c) ==
    /\ kills < MaxKills
    /\ pc[c] # "idle"
    /\ kills' = kills + 1
    /\ lock' = IF lock.owner = c THEN [lock EXCEPT !.owner = Nobody] ELSE lock
    /\ torn' = [d \in Callers |-> torn[d] \/ (pc[c] = "put" /\ d \in Emptied(c))]
    /\ draft' = [draft EXCEPT ![c] = {}]
    /\ Go(c, "idle")
    /\ Forget(c)
    /\ UNCHANGED <<file, ledger, returned, met, since, seized>>

Tick ==
    /\ lock' = IF lock.there THEN [lock EXCEPT !.age = Upto(@, StaleLock)] ELSE lock
    /\ waited' = [c \in Callers |->
                    IF pc[c] \in Acquiring THEN Upto(waited[c], Timeout) ELSE waited[c]]
    /\ left' = [c \in Callers |-> Less(left[c])]
    /\ file' = [file EXCEPT !.pause = Less(@)]
    /\ since' = Upto(since, MinInterval)
    /\ UNCHANGED <<pc, tries, result, receipts, seized, kills>>

Work(c) ==
    \/ Reject(c) \/ StartAttempt(c) \/ Settle(c)
    \/ Inspect(c) \/ RemoveStale(c) \/ Create(c) \/ FindLocked(c)
    \/ CheckInterval(c) \/ Wake(c) \/ Grant(c) \/ WriteState(c)
    \/ Answer(c) \/ Drop(c)
    \/ ReadLedger(c) \/ TruncateLedger(c) \/ WriteLedger(c) \/ ReadBack(c)

Next == Tick \/ \E c \in Callers : Begin(c) \/ Work(c) \/ Kill(c)

Spec == Init /\ [][Next]_vars

(* Time passes, a process that was not killed goes on, and the provider      *)
(* answers: its sockets have timeouts.  Nobody has to begin a call.         *)
FairSpec == Spec /\ WF_vars(Tick) /\ \A c \in Callers : WF_vars(Work(c))

---------------------------------------------------------------------------
Sleeping == {"sleep", "write"}

TypeOK ==
    /\ pc \in [Callers -> Steps]
    /\ tries \in [Callers -> 0 .. MaxAttempts]
    /\ waited \in [Callers -> 0 .. Timeout]
    /\ left \in [Callers -> Nat]
    /\ result \in [Callers -> Results]
    /\ lock \in [there : BOOLEAN, age : 0 .. StaleLock, owner : Callers \cup {Nobody}]
    /\ file \in [readable : BOOLEAN, pause : Nat]
    /\ ledger \in [Jobs -> SUBSET Callers]
    /\ draft \in [Callers -> SUBSET Callers]
    /\ returned \in [Callers -> Results \cup {"lost"}]
    /\ since \in 0 .. MinInterval
    /\ seized \in BOOLEAN
    /\ met \in [Callers -> BOOLEAN]
    /\ torn \in [Callers -> BOOLEAN]
    /\ kills \in Nat

(* A lock has an owner only while it is there and its permit lives.         *)
LockIsOwned ==
    lock.owner # Nobody => lock.there /\ pc[lock.owner] \in WithPermit

(* As long as nobody was robbed, whoever has a permit owns the lock.        *)
PermitHasLock ==
    ~seized => \A c \in Callers : pc[c] \in WithPermit => lock.owner = c

(* As long as nobody was robbed, a readable state file and everybody on the  *)
(* way to a grant wait out the interval since the last one.                 *)
IntervalIsKept ==
    ~seized =>
      /\ file.readable => file.pause + since >= MinInterval
      /\ \A c \in Callers :
           /\ pc[c] \in Sleeping => left[c] + since >= MinInterval
           /\ pc[c] = "grant" => since = MinInterval

(* Between calls nothing was tried, during one nothing returned, and an      *)
(* attempt starts as long as there is one left.                             *)
CallsAreFresh ==
    \A c \in Callers :
        /\ pc[c] = "idle" => tries[c] = 0
        /\ pc[c] # "idle" => returned[c] = "none"
        /\ pc[c] = "start" => tries[c] < MaxAttempts

(* A call that met no other at the ledger was alone there: its receipt is in *)
(* its draft, then in the ledger.  When it has returned, whoever reads the   *)
(* ledger reads it too, unless the file is read or left as it is emptied.    *)
ReceiptsAreSafe ==
    \A c \in Callers : ~met[c] =>
        /\ pc[c] \in Finishing => Others(c) = {}
        /\ pc[c] \in {"save", "put"} => c \in draft[c]
        /\ pc[c] = "confirm" => c \in ledger[Job(c)]
        /\ Listed(c) => returned[c] # "lost"
        /\ Listed(c) /\ ~torn[c] =>
             /\ \A d \in Callers : Job(d) = Job(c) /\ pc[d] \in {"save", "put"} => c \in draft[d]
             /\ \/ c \in ledger[Job(c)]
                \/ /\ ledger[Job(c)] = {}
                   /\ \E d \in Callers : Job(d) = Job(c) /\ pc[d] = "put"

(* The invariant of the proofs: types, who may have a permit, how long       *)
(* everybody still has to wait, and where receipts are.  Timeouts, kills and the removal of a dead   *)
(* process's lock at any point preserve it.                                 *)
IInv ==
    /\ TypeOK
    /\ CallsAreFresh
    /\ LockIsOwned
    /\ PermitHasLock
    /\ IntervalIsKept
    /\ ReceiptsAreSafe

(* The provider is called by one process at a time, also after a process was *)
(* killed with the lock, as long as no lock was removed under a living owner *)
(* (which two waiters do to each other when a dead lock expires, or a third  *)
(* to a call that outlives StaleLock).                                      *)
OneCallAtATime ==
    \A c, d \in Callers :
        pc[c] = "calling" /\ pc[d] = "calling" => c = d \/ seized

(* A grant comes MinInterval after the one before it, whichever processes    *)
(* gave them and however long the writer of the state file was delayed, as   *)
(* long as no lock was removed under a living owner.                        *)
GrantsAreSpaced ==
    [][\A c \in Callers :
         pc[c] = "grant" /\ pc'[c] = "write" => seized \/ since = MinInterval]_vars

(* A call that was at the ledger of its job without another gets its receipt *)
(* back, whoever was killed before.  From then on later calls of the job     *)
(* keep it, even those that meet each other or are killed there, but for one *)
(* thing: fs::write empties the file before it fills it, and a writer killed *)
(* or another call reading in between (torn) loses every receipt there was.  *)
ReceiptIsKept ==
    \A c \in Callers : Listed(c) /\ ~met[c] =>
        /\ returned[c] # "lost"
        /\ \/ torn[c]
           \/ c \in ledger[Job(c)]
           \/ \E d \in Callers : Job(d) = Job(c) /\ pc[d] = "put" /\ c \in draft[d]

(* Every call comes to an end: whoever holds the lock, dead or alive, an     *)
(* acquire gives up after its timeout, and attempts are counted.            *)
EveryCallEnds == \A c \in Callers : pc[c] # "idle" ~> pc[c] = "idle"

(* If calls go on being made, the lock of a killed process does not stay.   *)
Orphan == lock.there /\ lock.owner = Nobody
Asking == \E c \in Callers : pc[c] \in {"inspect", "remove", "open"}
OrphanIsRemoved == []<>Asking => (Orphan ~> ~Orphan)
=============================================================================
