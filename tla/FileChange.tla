----------------------------- MODULE FileChange -----------------------------
(***************************************************************************)
(* The file operations that workers perform on a workspace they share        *)
(* (os_runtime.rs): each keeps copies of what it is about to change, changes *)
(* it and records a transaction, which os.rollback_tx can undo.  Lock files   *)
(* named after the path, as the model spelled it, keep writes, copies, moves *)
(* and deletions apart; zip, unzip and rollback take none.  Any step may      *)
(* fail, and a worker may be killed between any two.                         *)
(***************************************************************************)
EXTENDS Naturals, FiniteSets

CONSTANTS Callers,       \* workers that call the capabilities of their jobs
          Names,         \* spellings of paths, each with a lock file of its own
                         \* (safe_blob_name gives "a/b" and "a_b" one), in order
          Files,         \* what the spellings stand for
          FileOf,        \* resolve_workspace_path: "./a" and "a" are one file
          Absent, Torn,  \* no file; a file truncated and not filled yet
          Free, Orphan,  \* lock file missing; left behind by nobody alive
          Calls,         \* the calls that are made
          MaxEffort      \* bound on calls, rollbacks and faults

NoName == 0
Kinds == {"write", "copy", "move", "delete", "zip", "unzip"}

(* Arguments of a call, or of a rollback; a write and a zip name no source   *)
(* that is changed, a deletion no destination.                              *)
Op == [kind : Kinds \cup {"undo"}, source : Names \cup {NoName},
       destination : Names \cup {NoName}]

Named(o) ==
    /\ (o.source = NoName) <=> (o.kind \in {"write", "zip"})
    /\ (o.destination = NoName) <=> (o.kind = "delete")
    /\ o.kind = "unzip" => FileOf[o.source] # FileOf[o.destination]

ASSUME NamesAssumption == Names \subseteq Nat \ {0} /\ FileOf \in [Names -> Files]
ASSUME LockAssumption == Free # Orphan /\ {Free, Orphan} \cap Callers = {}
ASSUME CallsAssumption == Calls \subseteq {o \in Op : o.kind \in Kinds /\ Named(o)}

VARIABLES files,      \* content of each file
          lock,       \* content of each lock file
          pc, op,     \* step and arguments of each caller
          want,       \* names it still has to lock
          tx,         \* number of the transaction it makes or undoes
          text,       \* content read by a copy
          slot,       \* side that a rollback is at
          backup,     \* copies kept by each transaction
          made,       \* arguments and caller of each transaction
          recorded,   \* transactions with a record
          count, others, \* transactions begun; rollbacks and faults
          before,     \* history: files when each transaction began
          disturbed,  \* history: transactions whose files others changed since
          met,        \* history: others, not kept apart by a lock, met this one
          rival       \* history: caller that blocked this one

call == <<pc, op, want, tx, text, slot>>
store == <<backup, made, recorded>>
bounds == <<count, others>>
history == <<before, disturbed, met, rival>>
vars == <<files, lock, call, store, bounds, history>>

Copies == {"copy", "move"}
Reading == {"copy", "move", "unzip"}
SourceSaved == {"copy", "move", "delete"}
LockFree == {"zip", "unzip", "undo"}
Slots == {"source", "destination"}
Contents == Files \cup (1 .. count) \cup {Absent, Torn}

Changing == {"save_source", "save_destination", "clear", "open", "fill", "remove", "record"}
Undoing == {"drop", "reopen", "refill"}
AtWork == Changing \cup Undoing

(* Calls count twice, so that the rollbacks and faults that surround one call *)
(* and those that surround two can share a bound.                           *)
Effort == 2 * (count + Cardinality({c \in Callers : pc[c] = "lock"})) + others

Idle == [kind |-> "undo", source |-> NoName, destination |-> NoName]
Go(c, s) == pc' = [pc EXCEPT ![c] = s]
Forget(c) ==
    /\ op' = [op EXCEPT ![c] = Idle]
    /\ tx' = [tx EXCEPT ![c] = 0]
    /\ text' = [text EXCEPT ![c] = Absent]
    /\ slot' = [slot EXCEPT ![c] = "destination"]
    /\ met' = [met EXCEPT ![c] = FALSE]
NamesOf(o) == {o.source, o.destination} \ {NoName}
FilesOf(o) == {FileOf[n] : n \in NamesOf(o)}
Source(c) == FileOf[op[c].source]
Destination(c) == FileOf[op[c].destination]

Init ==
    /\ files \in [Files -> Files \cup {Absent}]
    /\ \A f \in Files : files[f] \in {f, Absent}
    /\ lock = [n \in Names |-> Free]
    /\ pc = [c \in Callers |-> "idle"]
    /\ op = [c \in Callers |-> Idle]
    /\ want = [c \in Callers |-> {}]
    /\ tx = [c \in Callers |-> 0]
    /\ text = [c \in Callers |-> Absent]
    /\ slot = [c \in Callers |-> "destination"]
    /\ backup = <<>> /\ made = <<>> /\ recorded = {}
    /\ count = 0 /\ others = 0
    /\ before = <<>> /\ disturbed = {}
    /\ met = [c \in Callers |-> FALSE]
    /\ rival = [c \in Callers |-> Free]

---------------------------------------------------------------------------
(* History.  Two callers at work on one file clash unless they would need    *)
(* the same lock file.                                                      *)

Clash(o, p) ==
    \E m \in NamesOf(o), n \in NamesOf(p) :
        FileOf[m] = FileOf[n] /\ (m # n \/ LockFree \cap {o.kind, p.kind} # {})

Meet(c, o) ==
    LET clashing == {d \in Callers \ {c} : pc[d] \in AtWork /\ Clash(o, op[d])}
    IN  met' = [d \in Callers |-> IF d = c THEN clashing # {}
                                  ELSE met[d] \/ d \in clashing]

(* File f gets content x in transaction t.                                  *)
Put(f, x, t) ==
    /\ files' = [files EXCEPT ![f] = x]
    /\ disturbed' = disturbed \cup {u \in 1 .. count : u # t /\ f \in FilesOf(made[u].op)}

---------------------------------------------------------------------------
(* A call begins: the source of a copy, a deletion or an unzip must exist.  *)

(* Mutant of Wanted: only the place that is written is locked.              *)
WantedDestination(o) == {o.destination} \ {NoName}

Wanted(o) == NamesOf(o)

FirstStep(kind) == IF kind \in SourceSaved THEN "save_source" ELSE "save_destination"

(* new_tx_id, and the copies to be filled.                                  *)
StartWork(c, o) ==
    /\ count' = count + 1
    /\ tx' = [tx EXCEPT ![c] = count + 1]
    /\ made' = [t \in 1 .. count + 1 |-> IF t \in 1 .. count THEN made[t]
                                         ELSE [op |-> o, caller |-> c]]
    /\ backup' = [t \in 1 .. count + 1 |-> IF t \in 1 .. count THEN backup[t]
                                           ELSE [s \in Slots |-> Absent]]
    /\ before' = [t \in 1 .. count + 1 |-> IF t \in 1 .. count THEN before[t] ELSE files]
    /\ Go(c, FirstStep(o.kind))
    /\ Meet(c, o)

Arrive(c, o) ==
    /\ pc[c] = "idle"
    /\ Effort + 2 <= MaxEffort
    /\ o.source # NoName => files[FileOf[o.source]] # Absent
    /\ op' = [op EXCEPT ![c] = o]
    /\ rival' = [d \in Callers |-> IF d = c \/ rival[d] = c THEN Free ELSE rival[d]]

Begin(c) ==
    /\ \E o \in Calls :
         /\ o.kind \notin LockFree
         /\ Arrive(c, o)
         /\ want' = [want EXCEPT ![c] = Wanted(o)]
    /\ Go(c, "lock")
    /\ UNCHANGED <<files, lock, tx, text, slot, store, bounds, before, disturbed, met>>

(* zip and unzip take no locks.                                              *)
BeginUnlocked(c) ==
    /\ \E o \in Calls :
         /\ o.kind \in LockFree
         /\ Arrive(c, o)
         /\ StartWork(c, o)
    /\ UNCHANGED <<files, lock, want, text, slot, recorded, others, disturbed>>

---------------------------------------------------------------------------
(* acquire_mutation_locks: in sorted order, and never waiting.              *)

(* Mutant of NextName: the locks are taken as the arguments come.           *)
ArgumentOrder(c) == IF op[c].source \in want[c] THEN op[c].source ELSE op[c].destination

NextName(c) == CHOOSE n \in want[c] : \A m \in want[c] : n <= m

Lock(c) ==
    /\ pc[c] = "lock" /\ want[c] # {}
    /\ lock[NextName(c)] = Free
    /\ lock' = [lock EXCEPT ![NextName(c)] = c]
    /\ want' = [want EXCEPT ![c] = @ \ {NextName(c)}]
    /\ UNCHANGED <<files, pc, op, tx, text, slot, store, bounds, history>>

Locked(c) ==
    /\ pc[c] = "lock" /\ want[c] = {}
    /\ StartWork(c, op[c])
    /\ UNCHANGED <<files, lock, op, want, text, slot, recorded, others, disturbed, rival>>

Blocked(c) ==
    /\ pc[c] = "lock" /\ want[c] # {}
    /\ lock[NextName(c)] # Free
    /\ rival' = [rival EXCEPT ![c] = lock[NextName(c)]]
    /\ Go(c, "unlock")
    /\ UNCHANGED <<files, lock, op, want, tx, text, slot, store, bounds, before, disturbed, met>>

(* The lock file is created, writing it fails and nobody removes it.        *)
LockLeaks(c) ==
    /\ pc[c] = "lock" /\ want[c] # {}
    /\ lock[NextName(c)] = Free
    /\ Effort < MaxEffort
    /\ others' = others + 1
    /\ lock' = [lock EXCEPT ![NextName(c)] = Orphan]
    /\ Go(c, "unlock")
    /\ UNCHANGED <<files, op, want, tx, text, slot, store, count, history>>

(* The destructors of the locks, at every return.                           *)
Unlock(c) ==
    /\ pc[c] \in {"unlock", "restored"}
    /\ lock' = [n \in Names |-> IF lock[n] = c THEN Free ELSE lock[n]]
    /\ want' = [want EXCEPT ![c] = {}]
    /\ Forget(c)
    /\ Go(c, "idle")
    /\ UNCHANGED <<files, store, bounds, before, disturbed, rival>>

---------------------------------------------------------------------------
(* The change itself.                                                        *)

Save(c, s, f) == backup' = [backup EXCEPT ![tx[c]][s] = files[f]]

AfterSource(kind) == IF kind = "delete" THEN "remove" ELSE "save_destination"

SaveSource(c) ==
    /\ pc[c] = "save_source"
    /\ Save(c, "source", Source(c))
    /\ Go(c, AfterSource(op[c].kind))
    /\ UNCHANGED <<files, lock, op, want, tx, text, slot, made, recorded, bounds, history>>

SaveDestination(c) ==
    /\ pc[c] = "save_destination"
    /\ Save(c, "destination", Destination(c))
    /\ Go(c, IF op[c].kind \in Copies THEN "clear" ELSE "open")
    /\ UNCHANGED <<files, lock, op, want, tx, text, slot, made, recorded, bounds, history>>

(* remove_path_any before a copy.                                           *)
Clear(c) ==
    /\ pc[c] = "clear"
    /\ Put(Destination(c), Absent, tx[c])
    /\ Go(c, "open")
    /\ UNCHANGED <<lock, op, want, tx, text, slot, store, bounds, before, met, rival>>

(* The destination is truncated; a copy has opened its source before that.  *)
Open(c) ==
    /\ pc[c] = "open"
    /\ op[c].kind \in Reading => files[Source(c)] # Absent
    /\ text' = [text EXCEPT ![c] =
                   IF op[c].kind \notin Copies THEN tx[c]
                   ELSE IF Source(c) = Destination(c) THEN Torn ELSE files[Source(c)]]
    /\ Put(Destination(c), Torn, tx[c])
    /\ Go(c, "fill")
    /\ UNCHANGED <<lock, op, want, tx, slot, store, bounds, before, met, rival>>

(* What a copy or an unzip reads is gone: an error, and nothing is recorded. *)
SourceGone(c) ==
    /\ pc[c] = "open"
    /\ op[c].kind \in Reading /\ files[Source(c)] = Absent
    /\ Go(c, "unlock")
    /\ UNCHANGED <<files, lock, op, want, tx, text, slot, store, bounds, history>>

Fill(c) ==
    /\ pc[c] = "fill"
    /\ Put(Destination(c), text[c], tx[c])
    /\ Go(c, IF op[c].kind = "move" THEN "remove" ELSE "record")
    /\ UNCHANGED <<lock, op, want, tx, text, slot, store, bounds, before, met, rival>>

Remove(c) ==
    /\ pc[c] = "remove"
    /\ Put(Source(c), Absent, tx[c])
    /\ Go(c, "record")
    /\ UNCHANGED <<lock, op, want, tx, text, slot, store, bounds, before, met, rival>>

(* record_tx, and the receipt.                                              *)
Record(c) ==
    /\ pc[c] = "record"
    /\ recorded' = recorded \cup {tx[c]}
    /\ Go(c, "unlock")
    /\ UNCHANGED <<files, lock, op, want, tx, text, slot, backup, made, bounds, history>>

---------------------------------------------------------------------------
(* rollback_tx of a transaction of the caller's job: each side that the       *)
(* record names is removed and, if there is a copy of it, written again.     *)

SideName(o, s) == IF s = "source" THEN o.source ELSE o.destination
Side(c) == FileOf[SideName(op[c], slot[c])]
FirstSide(o) == IF o.destination = NoName THEN "source" ELSE "destination"

BeginUndo(c) ==
    /\ pc[c] = "idle"
    /\ Effort < MaxEffort
    /\ \E t \in recorded :
         LET o == [made[t].op EXCEPT !.kind = "undo"]
         IN  /\ made[t].caller = c
             /\ tx' = [tx EXCEPT ![c] = t]
             /\ op' = [op EXCEPT ![c] = o]
             /\ slot' = [slot EXCEPT ![c] = FirstSide(o)]
             /\ Meet(c, o)
    /\ others' = others + 1
    /\ Go(c, "drop")
    /\ UNCHANGED <<files, lock, want, text, store, count, before, disturbed, rival>>

(* Mutant of HasSource: the destination is all that is put back.            *)
NoSource(o) == FALSE

HasSource(o) == o.source # NoName

(* The other side, or the end.                                              *)
NextSide(c) ==
    IF slot[c] = "destination" /\ HasSource(op[c])
    THEN Go(c, "drop") /\ slot' = [slot EXCEPT ![c] = "source"]
    ELSE Go(c, "restored") /\ UNCHANGED slot

Drop(c) ==
    /\ pc[c] = "drop"
    /\ Put(Side(c), Absent, tx[c])
    /\ IF backup[tx[c]][slot[c]] # Absent
       THEN Go(c, "reopen") /\ UNCHANGED slot
       ELSE NextSide(c)
    /\ UNCHANGED <<lock, op, want, tx, text, store, bounds, before, met, rival>>

Reopen(c) ==
    /\ pc[c] = "reopen"
    /\ Put(Side(c), Torn, tx[c])
    /\ Go(c, "refill")
    /\ UNCHANGED <<lock, op, want, tx, text, slot, store, bounds, before, met, rival>>

Refill(c) ==
    /\ pc[c] = "refill"
    /\ Put(Side(c), backup[tx[c]][slot[c]], tx[c])
    /\ NextSide(c)
    /\ UNCHANGED <<lock, op, want, tx, text, store, bounds, before, met, rival>>

---------------------------------------------------------------------------
(* Faults.                                                                   *)

(* Any input or output fails: the call returns an error where it is.        *)
Fail(c) ==
    /\ pc[c] \in AtWork \cup {"lock"}
    /\ Effort < MaxEffort
    /\ others' = others + 1
    /\ Go(c, "unlock")
    /\ UNCHANGED <<files, lock, op, want, tx, text, slot, store, count, history>>

(* The worker is killed: its lock files stay.                               *)
Kill(c) ==
    /\ pc[c] # "dead"
    /\ Effort < MaxEffort
    /\ others' = others + 1
    /\ lock' = [n \in Names |-> IF lock[n] = c THEN Orphan ELSE lock[n]]
    /\ want' = [want EXCEPT ![c] = {}]
    /\ Forget(c)
    /\ Go(c, "dead")
    /\ UNCHANGED <<files, store, count, before, disturbed, rival>>

---------------------------------------------------------------------------

Change(c) ==
    \/ SaveSource(c) \/ SaveDestination(c) \/ Clear(c) \/ Open(c) \/ SourceGone(c)
    \/ Fill(c) \/ Remove(c) \/ Record(c)

Undo(c) == BeginUndo(c) \/ Drop(c) \/ Reopen(c) \/ Refill(c)

Step(c) ==
    \/ Begin(c) \/ BeginUnlocked(c)
    \/ Lock(c) \/ Locked(c) \/ Blocked(c) \/ LockLeaks(c) \/ Unlock(c)
    \/ Change(c) \/ Undo(c) \/ Fail(c) \/ Kill(c)

Next == \E c \in Callers : Step(c)

Spec == Init /\ [][Next]_vars

---------------------------------------------------------------------------
(* Properties.                                                               *)

Txs == 1 .. count

TypeOK ==
    /\ files \in [Files -> Contents]
    /\ lock \in [Names -> Callers \cup {Free, Orphan}]
    /\ pc \in [Callers -> AtWork \cup {"idle", "lock", "unlock", "restored", "dead"}]
    /\ op \in [Callers -> Op]
    /\ want \in [Callers -> SUBSET Names]
    /\ tx \in [Callers -> 0 .. count]
    /\ text \in [Callers -> Contents]
    /\ slot \in [Callers -> Slots]
    /\ backup \in [Txs -> [Slots -> Contents]]
    /\ made \in [Txs -> [op : Op, caller : Callers]]
    /\ recorded \subseteq Txs
    /\ count \in Nat /\ others \in Nat
    /\ before \in [Txs -> [Files -> Contents]]
    /\ disturbed \subseteq Txs
    /\ met \in [Callers -> BOOLEAN]
    /\ rival \in [Callers -> Callers \cup {Free, Orphan}]

(* A caller has the lock of every name it works on, unless it takes none;    *)
(* one that is at rest or takes none has no lock.                            *)
LocksAreHeld ==
    \A c \in Callers :
        /\ pc[c] \in Changing /\ op[c].kind \notin LockFree
             => \A n \in NamesOf(op[c]) : lock[n] = c
        /\ pc[c] = "lock" => /\ want[c] \subseteq NamesOf(op[c])
                             /\ \A n \in NamesOf(op[c]) : n \in want[c] \/ lock[n] = c
                             /\ \A n \in Names : lock[n] = c => \A m \in want[c] : n < m
        /\ pc[c] \in {"idle", "dead"} \cup Undoing => \A n \in Names : lock[n] # c

(* A caller that was blocked keeps only names before the one that the other  *)
(* has, and the other wants only names after it.                            *)
RivalsAreOrdered ==
    \A c, d \in Callers :
        rival[c] = d =>
          /\ c # d /\ pc[c] # "lock"
          /\ \E n \in Names : /\ \A m \in Names : lock[m] = c => m < n
                              /\ pc[d] = "lock" => \A m \in want[d] : n < m

(* Of two calls that want each other's files one goes on: they never both    *)
(* end blocked, each by the other.                                           *)
OneOfTwoGoesOn == \A c, d \in Callers : rival[c] = d => rival[d] # c

(* What a call at work on a transaction does belongs to it.                 *)
KnownWork(c) ==
    /\ pc[c] = "lock" => op[c].kind \in Kinds \ LockFree /\ Named(op[c])
    /\ pc[c] \in AtWork \cup {"restored"} => tx[c] \in Txs /\ made[tx[c]].caller = c
    /\ pc[c] \in Changing => op[c] = made[tx[c]].op /\ tx[c] \notin recorded
    /\ pc[c] \in Undoing \cup {"restored"} =>
         op[c] = [made[tx[c]].op EXCEPT !.kind = "undo"] /\ tx[c] \in recorded
    /\ pc[c] \in Undoing => SideName(op[c], slot[c]) # NoName
    /\ pc[c] = "save_source" => op[c].kind \in SourceSaved
    /\ pc[c] = "clear" => op[c].kind \in Copies
    /\ pc[c] \in {"save_destination", "open", "fill"} => op[c].kind # "delete"
    /\ pc[c] = "remove" => op[c].kind \in {"delete", "move"}

WorkIsKnown ==
    /\ \A t \in Txs : made[t].op.kind \in Kinds /\ Named(made[t].op)
    /\ \A c \in Callers : KnownWork(c)

(* Who clashes has met.                                                      *)
MeetingsAreKnown ==
    \A c, d \in Callers :
        c # d /\ pc[c] \in AtWork /\ pc[d] \in AtWork /\ Clash(op[c], op[d]) => met[c] /\ met[d]

(* Nobody changes the files of a call at work but those it met.             *)
UnmetIsUndisturbed ==
    \A c \in Callers : pc[c] \in Changing /\ ~met[c] => tx[c] \notin disturbed

SourceKept(t) == backup[t]["source"] = before[t][FileOf[made[t].op.source]]
DestinationKept(t) == backup[t]["destination"] = before[t][FileOf[made[t].op.destination]]

(* The copies that the record of an undisturbed transaction names.          *)
RecordedIsKept ==
    \A t \in recorded \ disturbed :
        /\ made[t].op.kind \in SourceSaved => SourceKept(t)
        /\ made[t].op.kind # "delete" => DestinationKept(t)

(* A change that nobody disturbs has at each step kept what it goes on to    *)
(* change.                                                                   *)
ChangeKeeps(c) ==
    LET t == tx[c]
        Same(f) == files[f] = before[t][f]
    IN  pc[c] \in Changing /\ t \notin disturbed =>
        /\ pc[c] \in {"save_source", "save_destination", "clear"} =>
             \A f \in FilesOf(op[c]) : Same(f)
        /\ pc[c] # "save_source" /\ op[c].kind \in SourceSaved => SourceKept(t)
        /\ pc[c] \in {"clear", "open", "fill", "remove", "record"} /\ op[c].kind # "delete" =>
             DestinationKept(t)
        /\ pc[c] = "open" /\ op[c].kind \in Copies =>
             files[Destination(c)] = Absent /\ (Source(c) # Destination(c) => Same(Source(c)))
        /\ pc[c] = "open" /\ op[c].kind \notin Copies => Same(Destination(c))
        /\ pc[c] = "fill" => files[Destination(c)] = Torn
        /\ pc[c] \in {"fill", "remove"} /\ op[c].kind = "move" =>
             Source(c) # Destination(c) /\ Same(Source(c))
        /\ pc[c] = "remove" => Same(Source(c))

UndisturbedKeeps == \A c \in Callers : ChangeKeeps(c)

(* The sides that a rollback has been to are as they were.                  *)
SideIsUndone(c) ==
    /\ pc[c] \in Undoing /\ tx[c] \notin disturbed
    /\ slot[c] = "source" /\ op[c].destination # NoName
    /\ Source(c) # Destination(c)
    => files[Destination(c)] = before[tx[c]][Destination(c)]

UndoneSides == \A c \in Callers : SideIsUndone(c)

(* A rollback puts back every file as it was before the transaction, if      *)
(* nobody else changed it since, and also when an earlier rollback of it     *)
(* failed half way.  (The archive of an unzip is lost.)                      *)
IsRestored(c) ==
    pc[c] = "restored" /\ tx[c] \notin disturbed /\ made[tx[c]].op.kind # "unzip"
      => \A f \in FilesOf(op[c]) : files[f] = before[tx[c]][f]

RollbackRestores == \A c \in Callers : IsRestored(c)

(* The inductive invariant.                                                  *)
IInv ==
    /\ TypeOK
    /\ LocksAreHeld
    /\ RivalsAreOrdered
    /\ OneOfTwoGoesOn
    /\ WorkIsKnown
    /\ MeetingsAreKnown
    /\ UnmetIsUndisturbed
    /\ RecordedIsKept
    /\ UndisturbedKeeps
    /\ UndoneSides
    /\ RollbackRestores

(* What a change overwrites or removes is kept by its transaction, whatever  *)
(* others do, unless one met it that no lock keeps apart: zip, unzip, a      *)
(* rollback, another spelling of the path.                                   *)
OverwritesAreBackedUp ==
    [][\A c \in Callers, f \in Files :
          /\ pc[c] \in Changing /\ pc'[c] # pc[c] /\ ~met[c]
          /\ files'[f] # files[f] /\ files[f] \notin {Absent, Torn}
          => \E s \in Slots : backup[tx[c]][s] = files[f]]_vars
=============================================================================
