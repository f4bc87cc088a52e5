-------------------------- MODULE ProcessTruthInv --------------------------
(***************************************************************************)
(* The inductive invariants of ProcessTruth about the files behind the       *)
(* references of the log and about the status columns.  Both say, for a      *)
(* kernel in the middle of an operation, what its remaining statements       *)
(* still make good.                                                          *)
(***************************************************************************)
EXTENDS ProcessTruth

(* Types of what the statements carry.                                      *)
Tables == {"jobs", "processes", "runtimes"}
Statuses == {"created", "running", "cancelled", "waiting_user"} \cup DOMAIN EndEvent
Names == {"none", "user_input", "checkpoints"} \X Nat
Contents == [op : Nat, at : Nat, full : BOOLEAN]
EventTypes == {"job_created", "job_status_changed", "process_started",
               "task_agent_runtime_started", "user_cancel_requested", "job_cancelled",
               "checkpoint_saved", "user_input_received", "job_resumed", "job_waiting_user"}
                \cup {EndEvent[s] : s \in DOMAIN EndEvent}
Events == [type : EventTypes, status : Statuses \cup {"none"}, ref : Names, content : Contents]
Statements ==
  [do : {"max", "refuse", "enter"}]
    \cup [do : {"set", "register"}, table : Tables, status : Statuses]
    \cup [do : {"truncate", "fill"}, name : Names, content : Contents]
    \cup [do : {"insert"}, event : Events]
    \cup [do : {"row"}, name : Names]

TypeInv == /\ todo \in [Kernels -> Seq(Statements)]
           /\ looping \in [Kernels -> BOOLEAN]
           /\ rows \in [Tables -> Statuses \cup {"none"}]
           /\ \A i \in DOMAIN events : events[i] \in Events
           /\ clean \in BOOLEAN

---------------------------------------------------------------------------
(* The files behind references.                                             *)

Writes(s) == s.do \in {"truncate", "fill"}
Refers(s) == s.do = "insert" /\ s.event.ref # NoName

(* A file of a checkpoint is named by the time of its content.              *)
Fits(n, c) == n = InputName \/ n = <<"checkpoints", c.at>>

(* The content is in the file, or that of another operation is.             *)
Backed(b, n, c) == n \in DOMAIN b /\ (b[n] = c \/ b[n].op # c.op)

(* What the log refers to was written before the event that names it.       *)
WritesFirst(p) ==
  \A i \in DOMAIN p :
    /\ Writes(p[i]) => \A j \in DOMAIN p : Refers(p[j]) => i < j
    /\ Refers(p[i]) /\ i > 1 => p[i - 1].do = "max"
    /\ Refers(p[i]) /\ i > 2 =>
         p[i - 2] = [do |-> "fill", name |-> p[i].event.ref, content |-> p[i].event.content]
    /\ p[i].do = "row" /\ i > 1 => p[i - 1].do = "insert" /\ p[i - 1].event.ref = p[i].name

(* The operation whose content a statement carries.                         *)
OpOf(s) == IF Writes(s) THEN s.content.op ELSE s.event.content.op

(* No other kernel, and no event yet, carries what k is about to write.     *)
Apart(k) ==
  \A i \in DOMAIN todo[k] : Writes(todo[k][i]) =>
    /\ \A e \in DOMAIN events :
         events[e].ref # NoName => events[e].content.op # OpOf(todo[k][i])
    /\ \A m \in Kernels \ {k} : \A j \in DOMAIN todo[m] :
         Writes(todo[m][j]) \/ Refers(todo[m][j]) => OpOf(todo[m][j]) # OpOf(todo[k][i])

(* What k still refers to is written, or k still writes it first.           *)
Promised(k) ==
  \A i \in DOMAIN todo[k] : LET s == todo[k][i] IN
    /\ Writes(s) => Fits(s.name, s.content) /\ OpOf(s) <= ops
    /\ Refers(s) => /\ Fits(s.event.ref, s.event.content) /\ OpOf(s) <= ops
                    /\ i <= 2 => Backed(blobs, s.event.ref, s.event.content)
    /\ s.do = "row" /\ i = 1 =>
         held[k] \in DOMAIN events /\ events[held[k]].ref = s.name

RefInv ==
  /\ \A n \in DOMAIN blobs : Fits(n, blobs[n])
  /\ \A i \in DOMAIN events : LET e == events[i] IN
       e.ref # NoName => Fits(e.ref, e.content) /\ Backed(blobs, e.ref, e.content) /\ e.content.op <= ops
  /\ \A c \in ckpts : c.event \in DOMAIN events /\ events[c.event].ref = c.name
  /\ \A k \in Kernels : WritesFirst(todo[k]) /\ Apart(k) /\ Promised(k)

---------------------------------------------------------------------------
(* The status columns.                                                      *)

Sets(s, t) == s.do = "set" /\ s.table = t
Tells(s) == s.do = "insert" /\ s.event.status # "none"

(* The rest of an operation that gives the job the status s.                *)
Updates(p, s) ==
  /\ \A i \in DOMAIN p :
       /\ p[i].do = "set" =>
            /\ p[i].status = s
            /\ \A j \in DOMAIN p : Tells(p[j]) => i < j
            /\ \E j \in 1 .. Len(p) - 1 : Tells(p[j])
       /\ Sets(p[i], "jobs") => \A t \in Tables \ {"jobs"} : \E j \in DOMAIN p : Sets(p[j], t)
       /\ Sets(p[i], "jobs") => \A j \in DOMAIN p : p[j].do = "set" => i <= j
       /\ Tells(p[i]) => p[i].event.status = s

(* The log and the columns still to be set agree on what k tells next.      *)
Carries(k) ==
  LET p == todo[k] IN
  \A i \in DOMAIN p : Tells(p[i]) =>
    /\ \A t \in Tables : rows[t] = p[i].event.status \/ \E j \in DOMAIN p : Sets(p[j], t)
    /\ (\E j \in 1 .. Len(p) - 1 : Tells(p[j])) \/ Replayed = p[i].event.status

Agree == \A t \in Tables : rows[t] = Replayed

AfterCreation ==
  /\ \A t \in Tables : rows[t] # "none"
  /\ \A k \in Kernels : \A i \in DOMAIN todo[k] : todo[k][i].do # "register"
  /\ clean => /\ (\A k \in Kernels : ~Updating(k)) => Agree
              /\ \A k \in Kernels : Updating(k) => Carries(k)
              /\ \A j, k \in Kernels : Updating(j) /\ Updating(k) => j = k

(* The statement after which the job can be found.                          *)
Opens(s) == s.do = "insert" /\ s.event.type = "task_agent_runtime_started"

(* The rest of create_job up to that statement, where the columns are r and *)
(* replay derives the status now.                                           *)
Creating(p, r, now) ==
  /\ \E j \in DOMAIN p : Opens(p[j])
  /\ \A i \in DOMAIN p :
       /\ p[i].do \in {"set", "register"} \/ Tells(p[i]) =>
            \A j \in DOMAIN p : Opens(p[j]) => i < j
       /\ p[i].do = "enter" => \A j \in DOMAIN p : Opens(p[j]) => j < i
       /\ p[i].do = "set" => p[i].status = "running"
       /\ Tells(p[i]) => p[i].event.status = "running"
       /\ p[i].do = "register" =>
            /\ p[i].table # "jobs" => p[i].status = "running"
            /\ p[i].table = "jobs" => /\ \E j \in DOMAIN p : Sets(p[j], "jobs")
                                      /\ \A j \in DOMAIN p : Sets(p[j], "jobs") => i < j
  /\ (\E i \in DOMAIN p : Tells(p[i])) \/ now = "running"
  /\ r["jobs"] # "none" \/ \E i \in DOMAIN p : p[i].do = "register" /\ p[i].table = "jobs"
  /\ r["jobs"] = "running" \/ \E i \in DOMAIN p : Sets(p[i], "jobs")
  /\ \A t \in Tables \ {"jobs"} :
       r[t] = "running" \/ \E i \in DOMAIN p : p[i].do = "register" /\ p[i].table = t

BeforeCreation ==
  /\ \A k \in Kernels : ~looping[k] /\ (k # Worker => todo[k] = <<>>)
  /\ todo[Worker] # <<>> => Creating(todo[Worker], rows, Replayed)

RowInv == /\ ops = 0 => ~Created /\ \A k \in Kernels : todo[k] = <<>>
          /\ Telling = {} \/ \E i \in Telling : \A j \in Telling : j <= i
          /\ \A k \in Kernels : \E s \in Statuses : Updates(todo[k], s)
          /\ IF Created THEN AfterCreation ELSE BeforeCreation
===========================================================================
