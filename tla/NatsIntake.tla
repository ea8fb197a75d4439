----------------------------- MODULE NatsIntake ------------------------------
(***************************************************************************)
(* Durable intake and durable records: build requests arrive from a        *)
(* JetStream work queue shared by all replicas (src/events.rs,             *)
(* src/nats_submit.rs), become in-memory jobs, and every job status is     *)
(* mirrored in a Postgres row (src/db.rs).  Replicas crash and reboot; at  *)
(* boot, rows left open are failed.                                        *)
(*                                                                         *)
(* JetStream is external and modelled from the consumer the code           *)
(* configures: explicit acks, a message unacknowledged for ack_wait is     *)
(* delivered again, to any replica, at most max_deliver times in all.      *)
(* Its max_ack_pending only withholds deliveries and is left out.          *)
(*                                                                         *)
(* A job is named by its message and its delivery; number 0 is the job of  *)
(* a caller of POST /builds that posts the same request to some replica.   *)
(* A status changes in memory first; its row is written behind an await    *)
(* (update_job, enqueue_build) by a statement that can fail, which is then *)
(* only logged.  A statement takes effect and is over in one step: until   *)
(* its await returns, whoever issued it does nothing.                      *)
(***************************************************************************)
EXTENDS Naturals, FiniteSets

CONSTANTS
  Replicas,
  Nowhere,       \* the home of the jobs not yet made
  Messages,      \* valid build-server.v1 documents
  Identified,    \* the messages that bear a requestId of their own
  Called,        \* those whose request a caller of POST /builds posts as well
  Garbage,       \* payloads that do not parse or validate
  MaxDeliver,    \* max_deliver of the consumer
  MaxPublished,  \* bound: messages published
  MaxJobs,       \* bound: jobs made
  MaxFaults      \* bound: crashes, refused writes and callers that leave

ASSUME IntakeAssumption ==
  /\ Nowhere \notin Replicas
  /\ Called \subseteq Identified
  /\ Identified \subseteq Messages /\ Messages \cap Garbage = {}
  /\ MaxDeliver \in Nat \ {0} /\ MaxPublished \in Nat \ {0}
  /\ MaxJobs \in Nat \ {0} /\ MaxFaults \in Nat

VARIABLES
  message,   \* JetStream: state and delivery count of each message
  inbox,     \* per replica: deliveries received and not yet looked at
  hand,      \* per replica: the delivery the intake loop works on
  task,      \* per job: its state in memory
  home,      \* per job: the replica that made it
  owed,      \* per job: the status whose statement is under way
  row,       \* build_jobs: the status column
  unwritten, \* history: jobs whose row missed its latest write
  up,        \* per replica: whether its process lives
  faults     \* how many faults there were

vars == <<message, inbox, hand, task, home, owed, row, unwritten, up, faults>>
consumer == <<message, inbox, hand>>
records == <<task, home, owed, row, unwritten>>
process == <<up, faults>>

Payloads == Messages \cup Garbage
Deliveries == Payloads \X (1..MaxDeliver)
Jobs == (Messages \X (1..MaxDeliver)) \cup (Called \X {0})

Verdicts == {"succeeded", "failed"}
Open == {"queued", "running"}
Live == {"inserted", "queued", "running"}
Retained == Live \cup {"orphaned"} \cup Verdicts

Settled == {"acked", "terminated", "exhausted"}
Published == {m \in Payloads : message[m].state # "unsent"}
Idle == [pc |-> "idle"]

Fault == faults < MaxFaults /\ faults' = faults + 1

Init ==
  /\ message = [m \in Payloads |-> [state |-> "unsent", count |-> 0]]
  /\ inbox = [r \in Replicas |-> {}]
  /\ hand = [r \in Replicas |-> Idle]
  /\ task = [j \in Jobs |-> "none"]
  /\ home = [j \in Jobs |-> Nowhere]
  /\ owed = [j \in Jobs |-> "nothing"]
  /\ row = [j \in Jobs |-> "absent"]
  /\ unwritten = {}
  /\ up = [r \in Replicas |-> TRUE]
  /\ faults = 0

-----------------------------------------------------------------------------
(***************************************************************************)
(* The stream and its durable consumer                                     *)
(***************************************************************************)
Publish(m) ==
  /\ message[m].state = "unsent"
  /\ Cardinality(Published) < MaxPublished
  /\ message' = [message EXCEPT ![m].state = "pending"]
  /\ UNCHANGED <<inbox, hand, records, process>>

Deliver(r, m) ==
  /\ up[r]
  /\ message[m].state = "pending"
  /\ message' = [message EXCEPT ![m] = [state |-> "out", count |-> @.count + 1]]
  /\ inbox' = [inbox EXCEPT ![r] = @ \cup {<<m, message[m].count + 1>>}]
  /\ UNCHANGED <<hand, records, process>>

\* Fault: the consumer is created without max_deliver.
RequeuedForEver(m) == [state |-> "pending", count |-> message[m].count]

\* A message that comes back is delivered again unless it has had its share.
Requeued(m) ==
  [state |-> IF message[m].count < MaxDeliver THEN "pending" ELSE "exhausted",
   count |-> message[m].count]

AckWaitExpires(m) ==
  /\ message[m].state = "out"
  /\ message' = [message EXCEPT ![m] = Requeued(m)]
  /\ UNCHANGED <<inbox, hand, records, process>>

\* What an answer does, whichever delivery it answers.
Answered(m, answer) ==
  IF message[m].state \notin {"pending", "out"} THEN message[m]
  ELSE CASE answer = "ack"  -> [message[m] EXCEPT !.state = "acked"]
         [] answer = "term" -> [message[m] EXCEPT !.state = "terminated"]
         [] answer = "nak"  -> Requeued(m)

-----------------------------------------------------------------------------
(***************************************************************************)
(* The intake loop                                                         *)
(***************************************************************************)
Hold(r, pc, d, answer) ==
  hand' = [hand EXCEPT ![r] = [pc |-> pc, delivery |-> d, answer |-> answer]]

JobsOf(m) == {j \in Jobs : j[1] = m}

\* Jobs in the memory of the replica that hold the id of a message.
Claimants(r, m) ==
  {j \in JobsOf(m) : m \in Identified /\ home[j] = r /\ task[j] \in Retained}

\* Answers that make no job: garbage; the same request under the same id, be it
\* of an earlier delivery or of an HTTP caller; the same id under a different
\* request; a full queue.
Answers(r, m) ==
  IF m \in Garbage THEN {"term"}
  ELSE IF Claimants(r, m) # {} THEN {"ack"}
  ELSE {"nak"} \cup {"term" : i \in {m} \cap Identified}

\* enqueue_build: the record is in the map, its row under way.
Insert(r, j) ==
  /\ Cardinality({k \in Jobs : task[k] # "none"}) < MaxJobs
  /\ task' = [task EXCEPT ![j] = "inserted"]
  /\ home' = [home EXCEPT ![j] = r]
  /\ owed' = [owed EXCEPT ![j] = "queued"]

\* submit_from_nats on the next delivery: parse, validate, enqueue_build.
Submit(r, d) ==
  /\ up[r] /\ hand[r] = Idle
  /\ d \in inbox[r]
  /\ inbox' = [inbox EXCEPT ![r] = @ \ {d}]
  /\ \/ /\ \E answer \in Answers(r, d[1]) : Hold(r, "acking", d, answer)
        /\ UNCHANGED <<task, home, owed>>
     \/ /\ d[1] \in Messages /\ Claimants(r, d[1]) = {}
        /\ Hold(r, "persisting", d, "ack")
        /\ Insert(r, d)
  /\ UNCHANGED <<message, row, unwritten, process>>

\* Fault: the message is acknowledged while the row is being written.
EnqueuedAtOnce(r) ==
  /\ up[r] /\ hand[r].pc = "persisting"
  /\ task' = [task EXCEPT ![hand[r].delivery] = "queued"]
  /\ Hold(r, "acking", hand[r].delivery, "ack")
  /\ UNCHANGED <<message, inbox, home, owed, row, unwritten, process>>

\* The rest of enqueue_build, its row behind it: the task is spawned.
Enqueued(r) ==
  /\ up[r] /\ hand[r].pc = "persisting"
  /\ owed[hand[r].delivery] = "nothing"
  /\ task' = [task EXCEPT ![hand[r].delivery] = "queued"]
  /\ Hold(r, "acking", hand[r].delivery, "ack")
  /\ UNCHANGED <<message, inbox, home, owed, row, unwritten, process>>

\* The acknowledgement reaches the stream or is lost; the loop goes on.
Ack(r) ==
  /\ up[r] /\ hand[r].pc = "acking"
  /\ LET m == hand[r].delivery[1] IN
       message' \in {message, [message EXCEPT ![m] = Answered(m, hand[r].answer)]}
  /\ hand' = [hand EXCEPT ![r] = Idle]
  /\ UNCHANGED <<inbox, records, process>>

-----------------------------------------------------------------------------
(***************************************************************************)
(* POST /builds with the request of a message                              *)
(***************************************************************************)
Call(r, m) ==
  /\ up[r] /\ m \in Published
  /\ task[<<m, 0>>] = "none" /\ Claimants(r, m) = {}
  /\ Insert(r, <<m, 0>>)
  /\ UNCHANGED <<consumer, row, unwritten, process>>

CallEnqueued(m) ==
  /\ task[<<m, 0>>] = "inserted" /\ owed[<<m, 0>>] = "nothing"
  /\ task' = [task EXCEPT ![<<m, 0>>] = "queued"]
  /\ UNCHANGED <<consumer, home, owed, row, unwritten, process>>

\* The client disconnects and the handler is dropped at an await, its statement
\* executed or not: the record stays in the map and no task will run it.
CallerLeaves(m) ==
  /\ task[<<m, 0>>] = "inserted"
  /\ task' = [task EXCEPT ![<<m, 0>>] = "orphaned"]
  /\ owed' = [owed EXCEPT ![<<m, 0>>] = "nothing"]
  /\ row' \in {row} \cup {[row EXCEPT ![<<m, 0>>] = s] : s \in {owed[<<m, 0>>]} \ {"nothing"}}
  /\ Fault
  /\ UNCHANGED <<consumer, home, unwritten, up>>

-----------------------------------------------------------------------------
(***************************************************************************)
(* Jobs and their rows, crashes and boot                                   *)
(***************************************************************************)
\* update_job: the status in memory, then its row under way.
Update(j, status) ==
  /\ owed[j] = "nothing"
  /\ task' = [task EXCEPT ![j] = status]
  /\ owed' = [owed EXCEPT ![j] = status]
  /\ UNCHANGED <<consumer, home, row, unwritten, process>>

Begin(j) == task[j] = "queued" /\ Update(j, "running")

\* A queued job ends without running when its lock is refused.
End(j) ==
  /\ task[j] \in Open
  /\ \E verdict \in IF task[j] = "running" THEN Verdicts ELSE {"failed"} : Update(j, verdict)

\* Fault: the conflict clause leaves the status out.
StatusKept(j) == [row EXCEPT ![j] = IF @ = "absent" THEN owed[j] ELSE @]

\* The conflict clause replaces the status, whoever wrote it.
Upserted(j) == [row EXCEPT ![j] = owed[j]]

\* persist_job: an upsert that can fail, and the failure is swallowed.
Write(j) ==
  /\ owed[j] # "nothing"
  /\ owed' = [owed EXCEPT ![j] = "nothing"]
  /\ \/ row' = Upserted(j) /\ unwritten' = unwritten \ {j} /\ UNCHANGED faults
     \/ unwritten' = unwritten \cup {j} /\ Fault /\ UNCHANGED row
  /\ UNCHANGED <<consumer, task, home, up>>

\* prune_jobs, by whoever submits next; the last write may be under way.
Forget(j) ==
  /\ task[j] \in Verdicts
  /\ task' = [task EXCEPT ![j] = "forgotten"]
  /\ UNCHANGED <<consumer, home, owed, row, unwritten, process>>

\* All that is in memory goes: jobs, claims, deliveries, unfinished writes.
Crash(r) ==
  /\ up[r] /\ Fault
  /\ up' = [up EXCEPT ![r] = FALSE]
  /\ inbox' = [inbox EXCEPT ![r] = {}]
  /\ hand' = [hand EXCEPT ![r] = Idle]
  /\ task' = [j \in Jobs |->
       IF home[j] # r \/ task[j] \notin Retained THEN task[j]
       ELSE IF task[j] \in Verdicts THEN "forgotten" ELSE "dead"]
  /\ owed' = [j \in Jobs |-> IF home[j] = r THEN "nothing" ELSE owed[j]]
  /\ UNCHANGED <<message, home, row, unwritten>>

\* Fault: the update has no filter on the status.
FailAll == [j \in Jobs |-> IF row[j] = "absent" THEN row[j] ELSE "failed"]

\* Fault: only the jobs that had started count as interrupted.
FailRunning == [j \in Jobs |-> IF row[j] = "running" THEN "failed" ELSE row[j]]

\* fail_interrupted_jobs: every open row, whoever's it is.
FailInterrupted == [j \in Jobs |-> IF row[j] \in Open THEN "failed" ELSE row[j]]

\* What no task will ever write again: the job is out of memory or an orphan.
Silent(j) == owed[j] = "nothing" /\ task[j] \notin Live

\* The update can fail; the rows that only a boot closes then miss it.
Boot(r) ==
  /\ ~up[r]
  /\ up' = [up EXCEPT ![r] = TRUE]
  /\ \/ row' = FailInterrupted /\ UNCHANGED <<unwritten, faults>>
     \/ /\ unwritten' = unwritten \cup {j \in Jobs : row[j] \in Open /\ Silent(j)}
        /\ Fault /\ UNCHANGED row
  /\ UNCHANGED <<consumer, task, home, owed>>

-----------------------------------------------------------------------------
Loop(r) == Enqueued(r) \/ Ack(r) \/ \E d \in inbox[r] : Submit(r, d)
JobStep(j) == Begin(j) \/ End(j) \/ Write(j)

Next ==
  \/ \E r \in Replicas : \/ Loop(r) \/ Crash(r) \/ Boot(r)
                         \/ \E m \in Payloads : Deliver(r, m)
                         \/ \E m \in Called : Call(r, m)
  \/ \E m \in Payloads : Publish(m) \/ AckWaitExpires(m)
  \/ \E m \in Called : CallEnqueued(m) \/ CallerLeaves(m)
  \/ \E j \in Jobs : JobStep(j) \/ Forget(j)

Spec == Init /\ [][Next]_vars

\* The server delivers the requests that are pending and minds ack_wait, the
\* intake loop, the handlers and the tasks of a living replica are polled,
\* statements end, a dead replica is restarted.
Fairness ==
  /\ \A m \in Messages :
       /\ SF_vars(\E r \in Replicas : Deliver(r, m))
       /\ WF_vars(AckWaitExpires(m))
  /\ \A r \in Replicas : WF_vars(Loop(r)) /\ WF_vars(Boot(r))
  /\ \A m \in Called : WF_vars(CallEnqueued(m))
  /\ \A j \in Jobs : WF_vars(JobStep(j))

FairSpec == Spec /\ Fairness

-----------------------------------------------------------------------------
(***************************************************************************)
(* Properties                                                              *)
(***************************************************************************)
States == {"unsent", "pending", "out"} \cup Settled
TaskStates == {"none", "dead", "forgotten"} \cup Retained
Statuses == Open \cup Verdicts
Hands == {Idle} \cup
  [pc : {"persisting", "acking"}, delivery : Deliveries, answer : {"ack", "term", "nak"}]

\* Every variable has the type the code, or the stream, gives it.
TypeOK ==
  /\ message \in [Payloads -> [state : States, count : 0..MaxDeliver]]
  /\ inbox \in [Replicas -> SUBSET Deliveries]
  /\ hand \in [Replicas -> Hands]
  /\ task \in [Jobs -> TaskStates] /\ home \in [Jobs -> Replicas \cup {Nowhere}]
  /\ owed \in [Jobs -> {"nothing"} \cup Statuses]
  /\ row \in [Jobs -> {"absent"} \cup Statuses]
  /\ unwritten \subseteq Jobs
  /\ up \in [Replicas -> BOOLEAN] /\ faults \in 0..MaxFaults

Recorded(j) == row[j] # "absent" \/ j \in unwritten

\* A caller's job that answers for its request without a row: its statement is
\* under way, its caller left first or its replica crashed first.
Unrecorded(j) == j[2] = 0 /\ task[j] \in {"inserted", "orphaned", "dead"}

OnRecord(m) == \E j \in JobsOf(m) : Recorded(j) \/ Unrecorded(j)

\* An acknowledged request is on record, whatever crashed since: one of its jobs
\* left a row, or was refused one, or it was a duplicate of a caller's job that
\* had no row yet.
AckedIsOnRecord ==
  \A m \in Payloads : message[m].state = "acked" => m \in Messages /\ OnRecord(m)

RowFollows(j) ==
  /\ j \notin unwritten =>
       /\ owed[j] = "nothing" /\ task[j] \in Open => row[j] \in {task[j], "failed"}
       /\ owed[j] = "nothing" /\ task[j] \in Verdicts => row[j] = task[j]
       /\ owed[j] = "running" => row[j] \in {"queued", "failed"}
       /\ owed[j] \in Verdicts => row[j] \in Open \cup {"failed"}
  /\ row[j] = "succeeded" => task[j] \in {"succeeded", "forgotten"}

\* The row of a job lags its status in memory by the statement under way, and by
\* no more.  Once the job has reported its verdict the row is that verdict,
\* whatever boots put over it before; until then the boot of another replica may
\* have failed it.  Only a job that succeeded is on record as such.
RowFollowsTask == \A j \in Jobs : RowFollows(j)

\* A verdict on record stays, whichever replica boots: only a failure can be
\* written over, and only by the job's own task, which still runs.
VerdictStays ==
  [][\A j \in Jobs :
       row[j] \in Verdicts =>
         row'[j] = row[j] \/ (row[j] = "failed" /\ row'[j] = owed[j])]_vars

\* "any job left `queued`/`running` by a previous process is terminal now (the
\* in-memory execution task died with the old process)": a verdict on record is
\* not written over.
RecoveredIsTerminal == [][\A j \in Jobs : row[j] \in Verdicts => row'[j] = row[j]]_vars

\* "so at-least-once delivery cannot double-build": no request has two jobs that
\* live or have run to their end.
NoDoubleBuild ==
  \A m \in Identified :
    Cardinality({j \in JobsOf(m) : task[j] \in Retained \cup {"forgotten"}}) <= 1

\* The caller whose job answers for the request left, or crashed without a row.
CallerLost(j) ==
  j[2] = 0 /\ (task[j] = "orphaned" \/ (task[j] = "dead" /\ row[j] = "absent"))

\* A published request comes to a verdict on record, unless its id was taken,
\* JetStream gave it up after max_deliver, it was acknowledged for the lost job of
\* a caller, or Postgres refused a write.
RequestsConclude ==
  \A m \in Messages :
    message[m].state = "pending" ~>
      \/ message[m].state \in {"terminated", "exhausted"}
      \/ \E j \in JobsOf(m) :
           row[j] \in Verdicts \/ j \in unwritten \/ CallerLost(j)

\* No row stays open for ever: its task or a boot closes it, unless its caller
\* left or Postgres refused the write.
RowsClose ==
  \A j \in Jobs :
    row[j] \in Open ~> row[j] \notin Open \/ j \in unwritten \/ task[j] = "orphaned"
=============================================================================
