----------------------------- MODULE BuildQueue -----------------------------
(***************************************************************************)
(* The in-memory heart of the build server (src/jobs.rs): every intake     *)
(* path - HTTP, GitHub webhook, NATS - submits through enqueue_build, and  *)
(* each accepted job is carried to its end by a spawned run_job task.      *)
(*                                                                         *)
(* Shared state of the process (AppState): the job map `jobs', the set of  *)
(* claimed request ids (recent_request_ids) with its writer lock, and the  *)
(* build semaphore.  A step of the model runs from one await to the next:  *)
(* critical sections of the `jobs' lock contain no await and are atomic,   *)
(* while the request-id writer is held across awaits and is therefore a    *)
(* variable.                                                               *)
(*                                                                         *)
(* A caller in HttpCallers is a handler future that axum drops when its    *)
(* client disconnects; the NATS intake loop is never dropped.              *)
(*                                                                         *)
(* Left out: the `rejected', lock and command_failures counters (they only *)
(* grow and nothing reads them back) and the database row and event of     *)
(* each transition, which are awaits with no effect on this state.         *)
(***************************************************************************)
EXTENDS Naturals, FiniteSets

CONSTANTS
  Callers,          \* tasks that call enqueue_build
  HttpCallers,      \* those whose future is dropped on a client disconnect
  Requests,         \* the requests they submit: [rid, body]
  NoId,             \* the rid of a request without (or with a blank) requestId
  InvalidBodies,    \* bodies validate_build_request refuses
  NoCaller,         \* nobody holds the request-id writer
  MaxQueued,        \* BUILD_SERVER_MAX_QUEUED
  MaxJobs,          \* BUILD_SERVER_MAX_JOBS
  MaxConcurrent,    \* BUILD_SERVER_MAX_CONCURRENT_BUILDS
  Coordination,     \* fiducia: "off", "best-effort" or "required"
  MaxSubmitted,     \* bound: job ids handed out
  MaxClock          \* bound: readings of the wall clock, 0..MaxClock

ASSUME CallersAssumption ==
  /\ IsFiniteSet(Callers) /\ Callers # {}
  /\ HttpCallers \subseteq Callers
  /\ NoCaller \notin Callers

ASSUME LimitsAssumption ==
  /\ MaxQueued \in Nat
  /\ MaxJobs \in Nat
  /\ MaxConcurrent \in Nat \ {0}
  /\ MaxSubmitted \in Nat
  /\ MaxClock \in Nat

ASSUME CoordinationAssumption ==
  Coordination \in {"off", "best-effort", "required"}

VARIABLES
  call,       \* per caller: where its enqueue_build stands
  writer,     \* who holds the writer lock of recent_request_ids
  claims,     \* recent_request_ids
  jobs,       \* the job map, NoJob where an id is not a key
  task,       \* per job: where its run_job task stands
  outcome,    \* per job: the Result of its execution
  permits,    \* available permits of the build semaphore
  submitted, running, succeeded, failed     \* Counters

callVars  == <<call, writer>>
metrics   == <<submitted, running, succeeded, failed>>
vars      == <<call, writer, claims, jobs, task, outcome, permits,
               submitted, running, succeeded, failed>>

JobIds == 1..MaxSubmitted
NoRequest == [rid |-> NoId, body |-> "none"]
NoJob == [status |-> "absent", request |-> NoRequest, created |-> 0]

Statuses == {"queued", "running", "succeeded", "failed"}
Terminal == {"succeeded", "failed"}

Job == [status : Statuses, request : Requests, created : 0..MaxClock]

\* A call that has returned, one that has just begun, and one that was admitted.
Answered(reply, j) ==
  [pc |-> "idle", request |-> NoRequest, job |-> j, created |-> 0, reply |-> reply]
Submitting(q, pc) ==
  [pc |-> pc, request |-> q, job |-> 0, created |-> 0, reply |-> "none"]
Inserting(q, j, now) ==
  [pc |-> "insert", request |-> q, job |-> j, created |-> now, reply |-> "none"]
IdleCall == Answered("none", 0)

(***************************************************************************)
(* Derived state                                                           *)
(***************************************************************************)
Retained == {j \in JobIds : jobs[j].status # "absent"}
Queued   == {j \in JobIds : jobs[j].status = "queued"}
Rid(j)   == jobs[j].request.rid
BoundTo(r) == {j \in Retained : Rid(j) = r}
RidsOf(js) == {Rid(j) : j \in js} \ {NoId}

\* Calls that passed admission and have not inserted their job yet.
Admitted == {s \in Callers : call[s].pc = "insert"}

\* Tasks holding a permit; those counted by the running gauge.
Tasks(stages) == {j \in JobIds : task[j] \in stages}
PermitHolders ==
  Tasks({"permitted", "refused", "refusing", "starting", "started", "ending"})
Executing == Tasks({"starting", "started", "ending"})

-----------------------------------------------------------------------------
Init ==
  /\ call = [s \in Callers |-> IdleCall]
  /\ writer = NoCaller
  /\ claims = {}
  /\ jobs = [j \in JobIds |-> NoJob]
  /\ task = [j \in JobIds |-> "none"]
  /\ outcome = [j \in JobIds |-> "none"]
  /\ permits = MaxConcurrent
  /\ submitted = 0 /\ running = 0 /\ succeeded = 0 /\ failed = 0

-----------------------------------------------------------------------------
(***************************************************************************)
(* enqueue_build                                                           *)
(***************************************************************************)
Goto(s, pc) == call' = [call EXCEPT ![s].pc = pc]

\* Fault: the guard outlives the return.
UnlockForgotten(s) == writer' = writer

\* Every return drops the writer guard if the call holds it.
Unlock(s) == writer' = IF writer = s THEN NoCaller ELSE writer

Return(s, reply, j) ==
  /\ call' = [call EXCEPT ![s] = Answered(reply, j)]
  /\ Unlock(s)

\* Calls that may still draw a job id; Receive keeps room for each of them, so
\* that the bound MaxSubmitted never stops a call half way.
Undecided == {s \in Callers : call[s].pc \in {"want-writer", "lookup", "check"}}

\* Validation; the writer is wanted only when the request carries an id.
Receive(s, q) ==
  /\ call[s].pc = "idle"
  /\ \/ q.body \in InvalidBodies
     \/ submitted + Cardinality(Undecided) < MaxSubmitted
  /\ call' = [call EXCEPT ![s] =
       IF q.body \in InvalidBodies
       THEN Answered("invalid", 0)
       ELSE Submitting(q, IF q.rid = NoId THEN "check" ELSE "want-writer")]
  /\ UNCHANGED <<writer, claims, jobs, task, outcome, permits, metrics>>

\* Fault: the guard is dropped before the lookup.
TakeWriterBriefly(s) ==
  /\ call[s].pc = "want-writer"
  /\ writer = NoCaller
  /\ Goto(s, "lookup")
  /\ UNCHANGED <<writer, claims, jobs, task, outcome, permits, metrics>>

TakeWriter(s) ==
  /\ call[s].pc = "want-writer"
  /\ writer = NoCaller
  /\ writer' = s
  /\ Goto(s, "lookup")
  /\ UNCHANGED <<claims, jobs, task, outcome, permits, metrics>>

\* A claimed id: the retained job that bears it answers the call.
AnswerDuplicate(s) ==
  /\ call[s].pc = "lookup"
  /\ call[s].request.rid \in claims
  /\ \E j \in BoundTo(call[s].request.rid) :
       IF jobs[j].request = call[s].request
       THEN Return(s, "existing", j)
       ELSE Return(s, "conflict", 0)
  /\ UNCHANGED <<claims, jobs, task, outcome, permits, metrics>>

\* Fault: a claim bound to a different request counts as no claim.
PassLookupOnMismatch(s) ==
  /\ call[s].pc = "lookup"
  /\ \A j \in BoundTo(call[s].request.rid) : jobs[j].request # call[s].request
  /\ Goto(s, "check")
  /\ UNCHANGED <<writer, claims, jobs, task, outcome, permits, metrics>>

\* An unclaimed id, or a claim no retained job backs, which is removed.
PassLookup(s) ==
  /\ call[s].pc = "lookup"
  /\ call[s].request.rid \in claims => BoundTo(call[s].request.rid) = {}
  /\ claims' = claims \ {call[s].request.rid}
  /\ Goto(s, "check")
  /\ UNCHANGED <<writer, jobs, task, outcome, permits, metrics>>

RejectFull(s) ==
  /\ call[s].pc = "check"
  /\ Cardinality(Queued) >= MaxQueued
  /\ Return(s, "full", 0)
  /\ UNCHANGED <<claims, jobs, task, outcome, permits, metrics>>

\* Fault: off by one against MaxQueued.
AdmitAtLimit(s) ==
  /\ call[s].pc = "check"
  /\ Cardinality(Queued) <= MaxQueued
  /\ submitted < MaxSubmitted
  /\ submitted' = submitted + 1
  /\ call' = [call EXCEPT ![s].pc = "insert", ![s].job = submitted + 1]
  /\ UNCHANGED <<writer, claims, jobs, task, outcome, permits,
                 running, succeeded, failed>>

\* Admission reads the queue under the `jobs' reader and draws the job id;
\* the insertion below takes the `jobs' writer in a later step.  created_at_ms
\* is the wall clock, which may repeat itself or go back.
Admit(s) ==
  /\ call[s].pc = "check"
  /\ Cardinality(Queued) < MaxQueued
  /\ submitted < MaxSubmitted
  /\ submitted' = submitted + 1
  /\ \E now \in 0..MaxClock :
       call' = [call EXCEPT ![s] = Inserting(@.request, submitted + 1, now)]
  /\ UNCHANGED <<writer, claims, jobs, task, outcome, permits,
                 running, succeeded, failed>>

\* Insertion, claim and release of the writer have no await between them.
Insert(s) ==
  /\ call[s].pc = "insert"
  /\ jobs' = [jobs EXCEPT ![call[s].job] =
       [status |-> "queued", request |-> call[s].request, created |-> call[s].created]]
  /\ claims' = claims \cup ({call[s].request.rid} \ {NoId})
  /\ task' = [task EXCEPT ![call[s].job] = "unspawned"]
  /\ Unlock(s)
  /\ Goto(s, "prune")
  /\ UNCHANGED <<outcome, permits, metrics>>

\* Fault: only running jobs are spared.
NotRunning == {j \in Retained : jobs[j].status # "running"}

\* prune_jobs: the oldest finished jobs beyond MaxJobs leave the map (ties in
\* created_at_ms fall either way), with every claim no retained job backs.
Finished == {j \in Retained : jobs[j].status \in Terminal}

EvictionSets ==
  {E \in SUBSET Finished :
     /\ \/ Cardinality(E) = Cardinality(Retained) - MaxJobs
        \/ /\ E = Finished
           /\ Cardinality(Finished) < Cardinality(Retained) - MaxJobs
     /\ \A e \in E, k \in Finished \ E : jobs[e].created <= jobs[k].created}

\* Fault: the claims of evicted jobs stay.
EvictKeepingClaims(E) ==
  /\ jobs' = [j \in JobIds |-> IF j \in E THEN NoJob ELSE jobs[j]]
  /\ claims' = claims

Evict(E) ==
  /\ jobs' = [j \in JobIds |-> IF j \in E THEN NoJob ELSE jobs[j]]
  /\ claims' = claims \cap RidsOf(Retained \ E)

Prune ==
  IF Cardinality(Retained) > MaxJobs
  THEN \E E \in EvictionSets : Evict(E)
  ELSE Evict({})

\* The persist await is over; prune, spawn the task and answer, without await
\* once the request-id writer and the `jobs' writer are held.
PruneAndSpawn(s) ==
  /\ call[s].pc = "prune"
  /\ writer = NoCaller
  /\ Prune
  /\ task' = [task EXCEPT ![call[s].job] = "waiting"]
  /\ call' = [call EXCEPT ![s] = Answered("accepted", 0)]
  /\ UNCHANGED <<writer, outcome, permits, metrics>>

\* The client goes away: the handler future is dropped at its current await,
\* with the guards it holds; nobody spawns the task of a job it inserted.
Disconnect(s) ==
  /\ s \in HttpCallers
  /\ call[s].pc # "idle"
  /\ call' = [call EXCEPT ![s] = IdleCall]
  /\ Unlock(s)
  /\ task' = IF call[s].pc = "prune"
             THEN [task EXCEPT ![call[s].job] = "lost"] ELSE task
  /\ UNCHANGED <<claims, jobs, outcome, permits, metrics>>

-----------------------------------------------------------------------------
(***************************************************************************)
(* run_job                                                                 *)
(***************************************************************************)
Advance(j, from, to) ==
  /\ task[j] = from
  /\ task' = [task EXCEPT ![j] = to]

\* update_job changes nothing when the id is not in the map.
SetStatus(j, status) ==
  jobs' = IF jobs[j].status = "absent" THEN jobs
          ELSE [jobs EXCEPT ![j].status = status]

\* Fault: the task does not wait for a permit.
AcquirePermitAtOnce(j) ==
  /\ Advance(j, "waiting", "permitted")
  /\ permits' = permits - 1
  /\ UNCHANGED <<callVars, claims, jobs, outcome, metrics>>

\* The semaphore is never closed, so acquire_owned only waits.
AcquirePermit(j) ==
  /\ Advance(j, "waiting", "permitted")
  /\ permits > 0
  /\ permits' = permits - 1
  /\ UNCHANGED <<callVars, claims, jobs, outcome, metrics>>

LockOutcomes ==
  IF Coordination = "off" THEN {"disabled"} ELSE {"acquired", "busy", "unavailable"}

LockRefuses(lock) ==
  \/ lock = "busy"
  \/ lock = "unavailable" /\ Coordination = "required"

\* A job no longer in the map has no lock key and consults no lock.
ConsultLock(j) ==
  \E lock \in IF jobs[j].status = "absent" THEN {"disabled"} ELSE LockOutcomes :
    /\ IF LockRefuses(lock)
       THEN /\ Advance(j, "permitted", "refused")
            /\ failed' = failed + 1
            /\ UNCHANGED running
       ELSE /\ Advance(j, "permitted", "starting")
            /\ running' = running + 1
            /\ UNCHANGED failed
    /\ UNCHANGED <<callVars, claims, jobs, outcome, permits, submitted, succeeded>>

FailRefused(j) ==
  /\ Advance(j, "refused", "refusing")
  /\ SetStatus(j, "failed")
  /\ UNCHANGED <<callVars, claims, outcome, permits, metrics>>

\* Fault: an early return without the permit.
LeakRefusedPermit(j) ==
  /\ Advance(j, "refusing", "done")
  /\ UNCHANGED <<callVars, claims, jobs, outcome, permits, metrics>>

\* On the refusal paths the permit outlives the status update.
DropRefusedPermit(j) ==
  /\ Advance(j, "refusing", "done")
  /\ permits' = permits + 1
  /\ UNCHANGED <<callVars, claims, jobs, outcome, metrics>>

Start(j) ==
  /\ Advance(j, "starting", "started")
  /\ SetStatus(j, "running")
  /\ UNCHANGED <<callVars, claims, outcome, permits, metrics>>

\* The executor's Result, the overall deadline included; a job that is no
\* longer in the map fails without executing.
Execute(j) ==
  /\ Advance(j, "started", "ending")
  /\ \E result \in IF jobs[j].status = "absent" THEN {"failed"} ELSE Terminal :
       outcome' = [outcome EXCEPT ![j] = result]
  /\ UNCHANGED <<callVars, claims, jobs, permits, metrics>>

\* Fault: a success is counted as a failure too.
ConcludeTwice(j) ==
  /\ Advance(j, "ending", "concluding")
  /\ running' = running - 1
  /\ permits' = permits + 1
  /\ succeeded' = IF outcome[j] = "succeeded" THEN succeeded + 1 ELSE succeeded
  /\ failed' = failed + 1
  /\ UNCHANGED <<callVars, claims, jobs, outcome, submitted>>

\* After the lock release and the workdir removal: gauge, permit, counter.
Conclude(j) ==
  /\ Advance(j, "ending", "concluding")
  /\ running' = running - 1
  /\ permits' = permits + 1
  /\ succeeded' = IF outcome[j] = "succeeded" THEN succeeded + 1 ELSE succeeded
  /\ failed' = IF outcome[j] = "failed" THEN failed + 1 ELSE failed
  /\ UNCHANGED <<callVars, claims, jobs, outcome, submitted>>

Finish(j) ==
  /\ Advance(j, "concluding", "done")
  /\ SetStatus(j, outcome[j])
  /\ UNCHANGED <<callVars, claims, outcome, permits, metrics>>

-----------------------------------------------------------------------------
CallStep(s) ==
  \/ TakeWriter(s) \/ AnswerDuplicate(s) \/ PassLookup(s) \/ RejectFull(s)
  \/ Admit(s) \/ Insert(s) \/ PruneAndSpawn(s)

TaskStep(j) ==
  \/ AcquirePermit(j) \/ ConsultLock(j) \/ FailRefused(j) \/ DropRefusedPermit(j)
  \/ Start(j) \/ Execute(j) \/ Conclude(j) \/ Finish(j)

Next ==
  \/ \E s \in Callers :
       \/ \E q \in Requests : Receive(s, q)
       \/ CallStep(s)
       \/ Disconnect(s)
  \/ \E j \in JobIds : TaskStep(j)

Spec == Init /\ [][Next]_vars

(***************************************************************************)
(* A started call or task is polled until it returns.  tokio's RwLock and  *)
(* Semaphore serve waiters first-in first-out, so a waiter that is enabled *)
(* again and again is served: strong fairness for the two waiting steps.   *)
(* Nothing makes a client send or disconnect.                              *)
(***************************************************************************)
Fairness ==
  /\ \A s \in Callers :
       /\ WF_vars(CallStep(s))
       /\ SF_vars(TakeWriter(s))
       /\ SF_vars(PruneAndSpawn(s))
  /\ \A j \in JobIds : WF_vars(TaskStep(j)) /\ SF_vars(AcquirePermit(j))

FairSpec == Spec /\ Fairness

-----------------------------------------------------------------------------
(***************************************************************************)
(* Properties                                                              *)
(***************************************************************************)
CallPcs == {"idle", "want-writer", "lookup", "check", "insert", "prune"}
Replies == {"none", "accepted", "existing", "conflict", "full", "invalid"}
TaskPcs == {"none", "unspawned", "lost", "waiting", "permitted", "refused", "refusing",
            "starting", "started", "ending", "concluding", "done"}

CallRecord == [pc : CallPcs, request : Requests \cup {NoRequest}, job : 0..MaxSubmitted,
               created : 0..MaxClock, reply : Replies]

\* Every variable has the type the code gives it.
TypeOK ==
  /\ call \in [Callers -> CallRecord]
  /\ writer \in Callers \cup {NoCaller}
  /\ claims \subseteq {q.rid : q \in Requests}
  /\ jobs \in [JobIds -> Job \cup {NoJob}]
  /\ task \in [JobIds -> TaskPcs]
  /\ outcome \in [JobIds -> Terminal \cup {"none"}]
  /\ permits \in 0..MaxConcurrent
  /\ submitted \in 0..MaxSubmitted
  /\ running \in Nat /\ succeeded \in Nat /\ failed \in Nat

\* The claimed request ids are exactly those of the retained jobs: no claim
\* outlives its job (a later retry would be refused for ever), no retained job
\* is without its claim (a redelivery would build twice), whoever disconnects.
ClaimsMatchRetained == claims = RidsOf(Retained)

\* Two retained jobs never bear the same request id, so concurrent deliveries
\* observe one accepted job (the comment at the writer lock of enqueue_build).
OneJobPerRequestId ==
  \A i, j \in Retained : Rid(i) = Rid(j) => i = j \/ Rid(i) = NoId

\* A job keeps its place in the map, with the status of its stage, from its
\* insertion until its task has written the verdict: pruning by another caller
\* never takes it away, so run_job's None branches stay dead.
JobFollowsTask ==
  \A j \in JobIds :
    /\ task[j] = "none" => jobs[j].status = "absent"
    /\ task[j] \in {"unspawned", "lost", "waiting", "permitted", "refused", "starting"}
       => jobs[j].status = "queued"
    /\ task[j] \in {"started", "ending", "concluding"} => jobs[j].status = "running"
    /\ task[j] \in {"refusing", "done"} => jobs[j].status \in Terminal \cup {"absent"}

\* Every permit is free or held by one task, and the running gauge counts the
\* executing tasks, on every way out of run_job.
PermitsConserved ==
  /\ permits + Cardinality(PermitHolders) = MaxConcurrent
  /\ running = Cardinality(Executing)

\* The true bound of the queue: admission and insertion are separate steps, so
\* every other caller may slip one more job in behind the same reading.
QueueOvershoot ==
  Cardinality(Queued) + Cardinality(Admitted) < MaxQueued + Cardinality(Callers)

\* What the writer lock buys: whatever anonymous callers do meanwhile, the queued
\* jobs that bear a request id never outgrow the limit.
IdentifiedQueued == {j \in Queued : Rid(j) # NoId}
IdentifiedQueueBounded == Cardinality(IdentifiedQueued) <= MaxQueued

\* The bound the configuration promises: "Reject new submissions once this many
\* jobs are queued".
QueueBounded == Cardinality(Queued) <= MaxQueued

\* Every submission counted as accepted ends in exactly one of the succeeded and
\* failed counters, or is on its way there.
CountersConserve ==
  submitted = succeeded + failed + Cardinality(Admitted)
            + Cardinality(Tasks({"unspawned", "lost", "waiting", "permitted",
                                 "starting", "started", "ending"}))

\* A delivery reattached to an existing job reattaches to one that has, or will
\* have, a build task.
ReattachedJobHasTask ==
  \A s \in Callers : call[s].reply = "existing" => task[call[s].job] # "lost"

\* The ledger a submitter sees: what is in the job map, and what was pruned.
Ledger ==
  [j \in JobIds |->
     [phase   |-> IF jobs[j].status # "absent" THEN jobs[j].status
                  ELSE IF task[j] = "none" THEN "absent" ELSE "forgotten",
      request |-> jobs[j].request]]

Promise == INSTANCE BuildPromise WITH ledger <- Ledger

\* The queue keeps the promise of BuildPromise: no duplicate acceptance, no
\* second run, no verdict changed, nothing forgotten before its verdict.
KeepsPromise == Promise!Spec

\* With callers that never disconnect, every accepted job reaches its verdict.
KeepsPromiseFairly == Promise!FairSpec

\* Every call of enqueue_build returns: no caller is left waiting for a writer
\* lock nobody gives back.
CallsReturn == \A s \in Callers : call[s].pc # "idle" ~> call[s].pc = "idle"
=============================================================================
