-------------------------- MODULE BuildQueueProofs --------------------------
(***************************************************************************)
(* Proofs about BuildQueue, for every number of callers, every set of      *)
(* requests and every limit.                                               *)
(***************************************************************************)
EXTENDS BuildQueue, FiniteSetTheorems, TLAPS

(***************************************************************************)
(* The strengthening.  A call past validation has a request; from the      *)
(* lookup on, a call with an id holds the writer, so it holds it while it  *)
(* relies on its id being unclaimed; the job id of an admitted call is its *)
(* own, and the task of an inserted job waits for its inserter to spawn it.*)
(***************************************************************************)
CallsHoldRequests ==
  \A s \in Callers :
    /\ call[s].pc # "idle" => call[s].request \in Requests
    /\ call[s].pc \in {"want-writer", "lookup"} => call[s].request.rid # NoId
    /\ call[s].pc \in {"insert", "prune"} => call[s].job \in 1..submitted
    /\ call[s].pc = "insert" => task[call[s].job] = "none"
    /\ call[s].pc = "prune" => task[call[s].job] = "unspawned"

JobIdsUnshared ==
  /\ \A s, t \in Callers :
       /\ call[s].pc \in {"insert", "prune"}
       /\ call[t].pc \in {"insert", "prune"}
       /\ call[s].job = call[t].job
       => s = t
  /\ \A j \in JobIds : j > submitted => task[j] = "none"

WriterHeld ==
  \A s \in Callers :
    /\ call[s].pc = "lookup" => writer = s
    /\ call[s].pc \in {"check", "insert"} /\ call[s].request.rid # NoId
       => /\ writer = s
          /\ call[s].request.rid \notin claims

VerdictKnown ==
  \A j \in JobIds : task[j] \in {"ending", "concluding"} => outcome[j] \in Terminal

\* The types that do not rest on the accounting of permits.
TypeCore ==
  /\ call \in [Callers -> CallRecord]
  /\ writer \in Callers \cup {NoCaller}
  /\ claims \subseteq {q.rid : q \in Requests}
  /\ jobs \in [JobIds -> Job \cup {NoJob}]
  /\ task \in [JobIds -> TaskPcs]
  /\ outcome \in [JobIds -> Terminal \cup {"none"}]
  /\ submitted \in 0..MaxSubmitted
  /\ succeeded \in Nat /\ failed \in Nat

IInv ==
  /\ TypeCore
  /\ CallsHoldRequests
  /\ JobIdsUnshared
  /\ WriterHeld
  /\ VerdictKnown
  /\ JobFollowsTask
  /\ ClaimsMatchRetained
  /\ OneJobPerRequestId

-----------------------------------------------------------------------------
(***************************************************************************)
(* The initial state                                                       *)
(***************************************************************************)
LEMMA InitIInv == Init => IInv
<1> SUFFICES ASSUME Init PROVE IInv
  OBVIOUS
<1> USE CallersAssumption, LimitsAssumption DEF Init, IdleCall, Answered, NoJob, NoRequest
<1>1. TypeCore
  BY DEF TypeCore, CallRecord, CallPcs, Replies, TaskPcs, Terminal, JobIds
<1>2. CallsHoldRequests /\ JobIdsUnshared /\ WriterHeld /\ VerdictKnown /\ JobFollowsTask
  BY DEF CallsHoldRequests, JobIdsUnshared, WriterHeld, VerdictKnown, JobFollowsTask
<1>3. ClaimsMatchRetained /\ OneJobPerRequestId
  BY DEF ClaimsMatchRetained, OneJobPerRequestId, Retained, RidsOf
<1> QED
  BY <1>1, <1>2, <1>3 DEF IInv

(***************************************************************************)
(* Steps of enqueue_build                                                  *)
(***************************************************************************)
LEMMA ReceiveIInv ==
  ASSUME IInv, NEW s \in Callers, NEW q \in Requests, Receive(s, q)
  PROVE  IInv'
<1> USE CallersAssumption, LimitsAssumption DEF IInv, Receive, Answered, Submitting
<1>1. TypeCore'
  <2>1. \A pc \in CallPcs : Submitting(q, pc) \in CallRecord
    BY DEF CallRecord, Replies
  <2>2. Answered("invalid", 0) \in CallRecord
    BY DEF CallRecord, CallPcs, Replies
  <2> QED
    BY <2>1, <2>2 DEF TypeCore, CallPcs, metrics
<1>2. CallsHoldRequests' /\ JobIdsUnshared' /\ WriterHeld'
  BY DEF CallsHoldRequests, JobIdsUnshared, WriterHeld, TypeCore, metrics
<1>3. VerdictKnown' /\ JobFollowsTask'
  BY DEF VerdictKnown, JobFollowsTask
<1>4. ClaimsMatchRetained' /\ OneJobPerRequestId'
  BY DEF ClaimsMatchRetained, OneJobPerRequestId, Retained, RidsOf, Rid
<1> QED
  BY <1>1, <1>2, <1>3, <1>4

\* Steps that move one call on and touch neither the map nor the claims.
LEMMA TakeWriterIInv ==
  ASSUME IInv, NEW s \in Callers, TakeWriter(s)
  PROVE  IInv'
<1> USE CallersAssumption, LimitsAssumption DEF IInv, TakeWriter, Goto, metrics
<1>1. TypeCore'
  BY DEF TypeCore, CallRecord, CallPcs
<1>2. CallsHoldRequests' /\ JobIdsUnshared' /\ WriterHeld'
  BY DEF CallsHoldRequests, JobIdsUnshared, WriterHeld, TypeCore
<1>3. VerdictKnown' /\ JobFollowsTask'
  BY DEF VerdictKnown, JobFollowsTask
<1>4. ClaimsMatchRetained' /\ OneJobPerRequestId'
  BY DEF ClaimsMatchRetained, OneJobPerRequestId, Retained, RidsOf, Rid
<1> QED
  BY <1>1, <1>2, <1>3, <1>4

\* Every return of enqueue_build gives its lock back and leaves the ledger alone.
LEMMA ReturnIInv ==
  ASSUME IInv, NEW s \in Callers, NEW reply \in Replies, NEW j \in 0..MaxSubmitted,
         Return(s, reply, j),
         UNCHANGED <<claims, jobs, task, outcome, permits, metrics>>
  PROVE  IInv'
<1> USE CallersAssumption, LimitsAssumption DEF IInv, Return, Unlock, metrics
<1>1. TypeCore'
  <2>1. Answered(reply, j) \in CallRecord
    BY DEF CallRecord, CallPcs, Answered
  <2> QED
    BY <2>1 DEF TypeCore
<1>2. CallsHoldRequests' /\ JobIdsUnshared'
  BY DEF CallsHoldRequests, JobIdsUnshared, TypeCore, Answered
<1>3. WriterHeld'
  BY DEF WriterHeld, TypeCore, Answered
<1>4. VerdictKnown' /\ JobFollowsTask'
  BY DEF VerdictKnown, JobFollowsTask
<1>5. ClaimsMatchRetained' /\ OneJobPerRequestId'
  BY DEF ClaimsMatchRetained, OneJobPerRequestId, Retained, RidsOf, Rid
<1> QED
  BY <1>1, <1>2, <1>3, <1>4, <1>5

\* The answer to a repeated or rebound requestId.
LEMMA AnswerDuplicateIInv ==
  ASSUME IInv, NEW s \in Callers, AnswerDuplicate(s)
  PROVE  IInv'
<1>1. PICK j \in BoundTo(call[s].request.rid) :
        \/ Return(s, "existing", j)
        \/ Return(s, "conflict", 0)
  BY DEF AnswerDuplicate
<1>2. j \in 0..MaxSubmitted /\ 0 \in 0..MaxSubmitted
  BY LimitsAssumption DEF BoundTo, Retained, JobIds
<1>3. "existing" \in Replies /\ "conflict" \in Replies
  BY DEF Replies
<1> QED
  BY <1>1, <1>2, <1>3, ReturnIInv DEF AnswerDuplicate

\* The refusal of a submission to a full queue.
LEMMA RejectFullIInv ==
  ASSUME IInv, NEW s \in Callers, RejectFull(s)
  PROVE  IInv'
<1>1. "full" \in Replies /\ 0 \in 0..MaxSubmitted
  BY LimitsAssumption DEF Replies
<1> QED
  BY <1>1, ReturnIInv DEF RejectFull

\* The removal in PassLookup changes nothing: an unbacked claim does not exist.
LEMMA PassLookupIInv ==
  ASSUME IInv, NEW s \in Callers, PassLookup(s)
  PROVE  IInv'
<1> USE CallersAssumption, LimitsAssumption DEF IInv, PassLookup, Goto, metrics
<1>1. call[s].request.rid \notin claims
  <2> SUFFICES ASSUME call[s].request.rid \in claims PROVE FALSE
    OBVIOUS
  <2>1. PICK j \in Retained : Rid(j) = call[s].request.rid
    BY DEF ClaimsMatchRetained, RidsOf
  <2> QED
    BY <2>1 DEF BoundTo
<1>2. claims' = claims
  BY <1>1
<1>3. TypeCore'
  BY <1>2 DEF TypeCore, CallRecord, CallPcs
<1>4. CallsHoldRequests' /\ JobIdsUnshared' /\ WriterHeld'
  BY <1>1, <1>2 DEF CallsHoldRequests, JobIdsUnshared, WriterHeld, TypeCore
<1>5. VerdictKnown' /\ JobFollowsTask'
  BY DEF VerdictKnown, JobFollowsTask
<1>6. ClaimsMatchRetained' /\ OneJobPerRequestId'
  BY <1>2 DEF ClaimsMatchRetained, OneJobPerRequestId, Retained, RidsOf, Rid
<1> QED
  BY <1>3, <1>4, <1>5, <1>6

\* The passage of the queue check, up to the insertion.
LEMMA AdmitIInv ==
  ASSUME IInv, NEW s \in Callers, Admit(s)
  PROVE  IInv'
<1> USE CallersAssumption, LimitsAssumption DEF IInv, Admit, Inserting
<1>1. TypeCore'
  <2>1. \A now \in 0..MaxClock :
          Inserting(call[s].request, submitted + 1, now) \in CallRecord
    BY DEF TypeCore, CallRecord, CallPcs, Replies
  <2> QED
    BY <2>1 DEF TypeCore
<1>2. submitted + 1 \in JobIds /\ task[submitted + 1] = "none"
  BY DEF TypeCore, JobIds, JobIdsUnshared
<1>3. CallsHoldRequests'
  BY <1>2 DEF CallsHoldRequests, TypeCore
<1>4. JobIdsUnshared'
  BY DEF JobIdsUnshared, CallsHoldRequests, TypeCore, JobIds
<1>5. WriterHeld'
  BY DEF WriterHeld, TypeCore
<1>6. VerdictKnown' /\ JobFollowsTask'
  BY DEF VerdictKnown, JobFollowsTask
<1>7. ClaimsMatchRetained' /\ OneJobPerRequestId'
  BY DEF ClaimsMatchRetained, OneJobPerRequestId, Retained, RidsOf, Rid
<1> QED
  BY <1>1, <1>3, <1>4, <1>5, <1>6, <1>7

\* The insertion claims the id together with the job that bears it; the writer,
\* held since the lookup, has kept everyone else from claiming it.
LEMMA InsertIInv ==
  ASSUME IInv, NEW s \in Callers, Insert(s)
  PROVE  IInv'
<1> USE CallersAssumption, LimitsAssumption DEF IInv, Insert, Goto, Unlock, metrics
<1> DEFINE id  == call[s].job
           req == call[s].request
           new == [status |-> "queued", request |-> req, created |-> call[s].created]
<1>1. id \in JobIds /\ id \in 1..submitted /\ req \in Requests /\ task[id] = "none"
  BY DEF CallsHoldRequests, TypeCore, CallRecord, JobIds
<1>2. new \in Job
  BY <1>1 DEF TypeCore, CallRecord, Job, Statuses
<1>3. jobs' = [jobs EXCEPT ![id] = new]
  OBVIOUS
<1>4. jobs[id].status = "absent"
  BY <1>1 DEF JobFollowsTask
<1> HIDE DEF new
<1>5. new.status = "queued" /\ new.request = req
  BY DEF new
<1>6. TypeCore'
  <2>1. [call EXCEPT ![s].pc = "prune"] \in [Callers -> CallRecord]
    BY DEF TypeCore, CallRecord, CallPcs
  <2>2. [jobs EXCEPT ![id] = new] \in [JobIds -> Job \cup {NoJob}]
    BY <1>1, <1>2 DEF TypeCore
  <2>3. claims' \subseteq {q.rid : q \in Requests}
    BY <1>1 DEF TypeCore
  <2> QED
    BY <1>3, <2>1, <2>2, <2>3 DEF TypeCore, TaskPcs
<1>7. CallsHoldRequests'
  BY <1>1 DEF CallsHoldRequests, JobIdsUnshared, TypeCore
<1>8. JobIdsUnshared'
  BY <1>1 DEF JobIdsUnshared, CallsHoldRequests, TypeCore, JobIds
<1>9. WriterHeld'
  BY DEF WriterHeld, TypeCore
<1>10. VerdictKnown' /\ JobFollowsTask'
  BY <1>1, <1>3, <1>5 DEF VerdictKnown, JobFollowsTask, TypeCore
<1>11. /\ Retained' = Retained \cup {id}
       /\ Rid(id)' = req.rid
       /\ \A j \in Retained : Rid(j)' = Rid(j) /\ j # id
  BY <1>1, <1>3, <1>4, <1>5 DEF Retained, Rid, TypeCore
<1>12. ClaimsMatchRetained'
  BY <1>11 DEF ClaimsMatchRetained, RidsOf
<1>13. req.rid # NoId => \A j \in Retained : Rid(j) # req.rid
  BY DEF WriterHeld, ClaimsMatchRetained, RidsOf
<1>14. OneJobPerRequestId'
  BY <1>11, <1>13 DEF OneJobPerRequestId
<1> QED
  BY <1>6, <1>7, <1>8, <1>9, <1>10, <1>12, <1>14

\* Whatever is evicted has its verdict, and the claims follow the jobs.
LEMMA PruneEvicts ==
  ASSUME TypeCore, Prune
  PROVE  \E E \in SUBSET Finished : Evict(E)
<1>1. CASE Cardinality(Retained) > MaxJobs
  BY <1>1 DEF Prune, EvictionSets
<1>2. CASE ~(Cardinality(Retained) > MaxJobs)
  BY <1>2 DEF Prune
<1> QED
  BY <1>1, <1>2

\* Pruning and the spawn of the task: what is evicted has no task.
LEMMA PruneAndSpawnIInv ==
  ASSUME IInv, NEW s \in Callers, PruneAndSpawn(s)
  PROVE  IInv'
<1> USE CallersAssumption, LimitsAssumption DEF IInv, PruneAndSpawn, metrics
<1>1. PICK E \in SUBSET Finished : Evict(E)
  BY PruneEvicts
<1>2. /\ jobs' = [j \in JobIds |-> IF j \in E THEN NoJob ELSE jobs[j]]
      /\ claims' = claims \cap RidsOf(Retained \ E)
  BY <1>1 DEF Evict
<1>3. \A j \in E : j \in Retained /\ jobs[j].status \in Terminal
  BY DEF Finished
<1>4. call[s].job \in JobIds /\ task[call[s].job] = "unspawned"
  BY DEF CallsHoldRequests, TypeCore, JobIds
<1>5. TypeCore'
  <2>1. Answered("accepted", 0) \in CallRecord
    BY DEF CallRecord, CallPcs, Replies, Answered
  <2>2. jobs' \in [JobIds -> Job \cup {NoJob}]
    BY <1>2 DEF TypeCore
  <2> QED
    BY <1>2, <2>1, <2>2 DEF TypeCore, TaskPcs
<1>6. CallsHoldRequests' /\ JobIdsUnshared'
  BY <1>4 DEF CallsHoldRequests, JobIdsUnshared, TypeCore, Answered, JobIds
<1>7. WriterHeld'
  BY <1>2 DEF WriterHeld, TypeCore, Answered
<1>8. VerdictKnown' /\ JobFollowsTask'
  BY <1>2, <1>3, <1>4 DEF VerdictKnown, JobFollowsTask, TypeCore, NoJob, Terminal
<1>9. /\ Retained' = Retained \ E
      /\ \A j \in Retained \ E : Rid(j)' = Rid(j)
  BY <1>2 DEF Retained, Rid, NoJob
<1>10. ClaimsMatchRetained'
  BY <1>2, <1>9 DEF ClaimsMatchRetained, RidsOf
<1>11. OneJobPerRequestId'
  BY <1>9 DEF OneJobPerRequestId
<1> QED
  BY <1>5, <1>6, <1>7, <1>8, <1>10, <1>11

\* A client that leaves: its handler gives the lock back where it stands.
LEMMA DisconnectIInv ==
  ASSUME IInv, NEW s \in Callers, Disconnect(s)
  PROVE  IInv'
<1> USE CallersAssumption, LimitsAssumption DEF IInv, Disconnect, Unlock, metrics
<1>1. call[s].pc = "prune" => call[s].job \in JobIds /\ task[call[s].job] = "unspawned"
  BY DEF CallsHoldRequests, TypeCore, JobIds
<1>2. TypeCore'
  <2>1. IdleCall \in CallRecord
    BY DEF CallRecord, CallPcs, Replies, IdleCall, Answered
  <2> QED
    BY <1>1, <2>1 DEF TypeCore, TaskPcs
<1>3. CallsHoldRequests' /\ JobIdsUnshared'
  BY <1>1 DEF CallsHoldRequests, JobIdsUnshared, TypeCore, IdleCall, Answered, JobIds
<1>4. WriterHeld'
  BY DEF WriterHeld, TypeCore, IdleCall, Answered
<1>5. VerdictKnown' /\ JobFollowsTask'
  BY <1>1 DEF VerdictKnown, JobFollowsTask, TypeCore
<1>6. ClaimsMatchRetained' /\ OneJobPerRequestId'
  BY DEF ClaimsMatchRetained, OneJobPerRequestId, Retained, RidsOf, Rid
<1> QED
  BY <1>2, <1>3, <1>4, <1>5, <1>6

(***************************************************************************)
(* Steps of run_job                                                        *)
(***************************************************************************)
LEMMA AdvanceKeepsCalls ==
  ASSUME IInv, NEW j \in JobIds, NEW from, NEW to, Advance(j, from, to),
         from \notin {"none", "unspawned"},
         UNCHANGED <<callVars, claims, submitted>>
  PROVE  CallsHoldRequests' /\ JobIdsUnshared' /\ WriterHeld'
<1> USE LimitsAssumption DEF IInv, Advance, callVars
<1>1. CallsHoldRequests'
  <2>1. \A s \in Callers : call[s].pc \in {"insert", "prune"} =>
          call[s].job \in JobIds /\ call[s].job # j
    BY DEF CallsHoldRequests, TypeCore, JobIds
  <2> QED
    BY <2>1 DEF CallsHoldRequests, TypeCore
<1>2. JobIdsUnshared'
  BY DEF JobIdsUnshared, TypeCore
<1>3. WriterHeld'
  BY DEF WriterHeld
<1> QED
  BY <1>1, <1>2, <1>3

\* update_job moves the status of one retained job and nothing else.
LEMMA SetStatusKeepsTheRest ==
  ASSUME TypeCore, NEW j \in JobIds, NEW status \in Statuses, SetStatus(j, status)
  PROVE  /\ jobs' \in [JobIds -> Job \cup {NoJob}]
         /\ Retained' = Retained
         /\ \A k \in JobIds : jobs'[k].request = jobs[k].request
         /\ \A k \in JobIds \ {j} : jobs'[k] = jobs[k]
         /\ jobs'[j].status = IF jobs[j].status = "absent" THEN "absent" ELSE status
<1>1. CASE jobs[j].status = "absent"
  BY <1>1 DEF SetStatus, Retained, TypeCore
<1>2. CASE jobs[j].status # "absent"
  <2> DEFINE new == [jobs[j] EXCEPT !.status = status]
  <2>1. jobs[j] \in Job
    BY <1>2 DEF TypeCore, NoJob
  <2>2. new \in Job /\ new.status = status /\ new.request = jobs[j].request
    BY <2>1 DEF Job
  <2>3. jobs' = [jobs EXCEPT ![j] = new]
    BY <1>2 DEF SetStatus
  <2>4. status # "absent"
    BY DEF Statuses
  <2> HIDE DEF new
  <2> QED
    BY <1>2, <2>2, <2>3, <2>4 DEF TypeCore, Retained
<1> QED
  BY <1>1, <1>2

\* A step of a task that leaves the map alone.
LEMMA MapUntouchedIInv ==
  ASSUME IInv, NEW j \in JobIds, UNCHANGED <<jobs, claims>>
  PROVE  ClaimsMatchRetained' /\ OneJobPerRequestId'
BY DEF IInv, ClaimsMatchRetained, OneJobPerRequestId, Retained, RidsOf, Rid

\* A task takes a permit.
LEMMA AcquirePermitIInv ==
  ASSUME IInv, NEW j \in JobIds, AcquirePermit(j)
  PROVE  IInv'
<1> USE DEF AcquirePermit, Advance, callVars, metrics
<1>1. TypeCore'
  BY DEF IInv, TypeCore, TaskPcs
<1>2. CallsHoldRequests' /\ JobIdsUnshared' /\ WriterHeld'
  BY AdvanceKeepsCalls
<1>3. VerdictKnown' /\ JobFollowsTask'
  BY DEF IInv, VerdictKnown, JobFollowsTask, TypeCore
<1> QED
  BY <1>1, <1>2, <1>3, MapUntouchedIInv DEF IInv

\* A task hears from the lock service.
LEMMA ConsultLockIInv ==
  ASSUME IInv, NEW j \in JobIds, ConsultLock(j)
  PROVE  IInv'
<1> USE DEF ConsultLock, callVars
<1>1. \/ Advance(j, "permitted", "refused")
      \/ Advance(j, "permitted", "starting")
  OBVIOUS
<1>2. TypeCore'
  BY <1>1 DEF IInv, TypeCore, TaskPcs, Advance
<1>3. CallsHoldRequests' /\ JobIdsUnshared' /\ WriterHeld'
  BY <1>1, AdvanceKeepsCalls
<1>4. VerdictKnown' /\ JobFollowsTask'
  BY <1>1 DEF IInv, VerdictKnown, JobFollowsTask, TypeCore, Advance
<1> QED
  BY <1>2, <1>3, <1>4, MapUntouchedIInv DEF IInv

\* A refused task gives its permit back.
LEMMA DropRefusedPermitIInv ==
  ASSUME IInv, NEW j \in JobIds, DropRefusedPermit(j)
  PROVE  IInv'
<1> USE DEF DropRefusedPermit, Advance, callVars, metrics
<1>1. TypeCore'
  BY DEF IInv, TypeCore, TaskPcs
<1>2. CallsHoldRequests' /\ JobIdsUnshared' /\ WriterHeld'
  BY AdvanceKeepsCalls
<1>3. VerdictKnown' /\ JobFollowsTask'
  BY DEF IInv, VerdictKnown, JobFollowsTask, TypeCore
<1> QED
  BY <1>1, <1>2, <1>3, MapUntouchedIInv DEF IInv

\* The executors return.
LEMMA ExecuteIInv ==
  ASSUME IInv, NEW j \in JobIds, Execute(j)
  PROVE  IInv'
<1> USE DEF Execute, Advance, callVars, metrics
<1>1. PICK result \in Terminal : outcome' = [outcome EXCEPT ![j] = result]
  BY DEF Terminal
<1>2. TypeCore'
  BY <1>1 DEF IInv, TypeCore, TaskPcs
<1>3. CallsHoldRequests' /\ JobIdsUnshared' /\ WriterHeld'
  BY AdvanceKeepsCalls
<1>4. VerdictKnown' /\ JobFollowsTask'
  BY <1>1 DEF IInv, VerdictKnown, JobFollowsTask, TypeCore
<1> QED
  BY <1>2, <1>3, <1>4, MapUntouchedIInv DEF IInv

\* A task gives its permit back and counts its job.
LEMMA ConcludeIInv ==
  ASSUME IInv, NEW j \in JobIds, Conclude(j)
  PROVE  IInv'
<1> USE DEF Conclude, Advance, callVars
<1>1. TypeCore'
  BY DEF IInv, TypeCore, TaskPcs
<1>2. CallsHoldRequests' /\ JobIdsUnshared' /\ WriterHeld'
  BY AdvanceKeepsCalls
<1>3. VerdictKnown' /\ JobFollowsTask'
  BY DEF IInv, VerdictKnown, JobFollowsTask, TypeCore
<1> QED
  BY <1>1, <1>2, <1>3, MapUntouchedIInv DEF IInv

\* A status written by update_job under a stage change of its task.
LEMMA SetStatusIInv ==
  ASSUME IInv, NEW j \in JobIds, NEW status \in Statuses, NEW from, NEW to \in TaskPcs,
         Advance(j, from, to), SetStatus(j, status),
         from \notin {"none", "unspawned"}, to \notin {"ending", "concluding"},
         UNCHANGED <<callVars, claims, outcome, permits, metrics>>,
         JobFollowsTask'
  PROVE  IInv'
<1> USE DEF Advance, callVars, metrics
<1>1. TypeCore
  BY DEF IInv
<1>2. TypeCore'
  BY <1>1, SetStatusKeepsTheRest DEF TypeCore
<1>3. CallsHoldRequests' /\ JobIdsUnshared' /\ WriterHeld'
  BY AdvanceKeepsCalls
<1>4. VerdictKnown'
  BY DEF IInv, VerdictKnown, TypeCore
<1>5. Retained' = Retained /\ \A k \in JobIds : Rid(k)' = Rid(k)
  BY <1>1, SetStatusKeepsTheRest DEF Rid
<1>6. Retained \subseteq JobIds
  BY DEF Retained
<1>7. ClaimsMatchRetained' /\ OneJobPerRequestId'
  BY <1>5, <1>6 DEF IInv, ClaimsMatchRetained, OneJobPerRequestId, RidsOf
<1> QED
  BY <1>2, <1>3, <1>4, <1>7 DEF IInv

\* A refused task marks its job failed.
LEMMA FailRefusedIInv ==
  ASSUME IInv, NEW j \in JobIds, FailRefused(j)
  PROVE  IInv'
<1>1. "failed" \in Statuses /\ "refusing" \in TaskPcs /\ TypeCore
  BY DEF Statuses, TaskPcs, IInv
<1>2. JobFollowsTask'
  BY <1>1, SetStatusKeepsTheRest
     DEF FailRefused, Advance, IInv, JobFollowsTask, TypeCore, Terminal
<1> QED
  BY <1>1, <1>2, SetStatusIInv DEF FailRefused

\* A task marks its job running.
LEMMA StartIInv ==
  ASSUME IInv, NEW j \in JobIds, Start(j)
  PROVE  IInv'
<1>1. "running" \in Statuses /\ "started" \in TaskPcs /\ TypeCore
  BY DEF Statuses, TaskPcs, IInv
<1>2. JobFollowsTask'
  BY <1>1, SetStatusKeepsTheRest DEF Start, Advance, IInv, JobFollowsTask, TypeCore
<1> QED
  BY <1>1, <1>2, SetStatusIInv DEF Start

\* A task marks the verdict of its job.
LEMMA FinishIInv ==
  ASSUME IInv, NEW j \in JobIds, Finish(j)
  PROVE  IInv'
<1>1. outcome[j] \in Terminal
  BY DEF Finish, Advance, IInv, VerdictKnown
<1>2. outcome[j] \in Statuses /\ "done" \in TaskPcs /\ TypeCore
  BY <1>1 DEF Statuses, TaskPcs, IInv, Terminal
<1>3. JobFollowsTask'
  BY <1>1, <1>2, SetStatusKeepsTheRest DEF Finish, Advance, IInv, JobFollowsTask, TypeCore
<1> QED
  BY <1>2, <1>3, SetStatusIInv DEF Finish

-----------------------------------------------------------------------------
\* Every step keeps the inductive invariant.
LEMMA NextIInv == IInv /\ [Next]_vars => IInv'
<1> SUFFICES ASSUME IInv, [Next]_vars PROVE IInv'
  OBVIOUS
<1>1. ASSUME NEW s \in Callers, NEW q \in Requests, Receive(s, q) PROVE IInv'
  BY <1>1, ReceiveIInv
<1>2. ASSUME NEW s \in Callers, CallStep(s) PROVE IInv'
  BY <1>2, TakeWriterIInv, AnswerDuplicateIInv, PassLookupIInv, RejectFullIInv,
     AdmitIInv, InsertIInv, PruneAndSpawnIInv DEF CallStep
<1>3. ASSUME NEW s \in Callers, Disconnect(s) PROVE IInv'
  BY <1>3, DisconnectIInv
<1>4. ASSUME NEW j \in JobIds, TaskStep(j) PROVE IInv'
  BY <1>4, AcquirePermitIInv, ConsultLockIInv, FailRefusedIInv, DropRefusedPermitIInv,
     StartIInv, ExecuteIInv, ConcludeIInv, FinishIInv DEF TaskStep
<1>5. CASE UNCHANGED vars
  BY <1>5 DEF IInv, vars, TypeCore, CallsHoldRequests, JobIdsUnshared, WriterHeld,
     VerdictKnown, JobFollowsTask, ClaimsMatchRetained, OneJobPerRequestId,
     Retained, RidsOf, Rid
<1> QED
  BY <1>1, <1>2, <1>3, <1>4, <1>5 DEF Next

\* The strengthening holds in every reachable state.
THEOREM IInvCorrect == Spec => []IInv
BY InitIInv, NextIInv, PTL DEF Spec

\* The claims of enqueue_build are those of the retained jobs, whoever prunes or
\* disconnects, for any callers, requests and limits.
THEOREM ClaimsCorrect == Spec => []ClaimsMatchRetained
<1>1. IInv => ClaimsMatchRetained
  BY DEF IInv
<1> QED
  BY <1>1, IInvCorrect, PTL

\* Request-id idempotency of enqueue_build: no two retained jobs share an id,
\* though the writer lock is given up before the job is persisted and spawned.
THEOREM OneJobCorrect == Spec => []OneJobPerRequestId
<1>1. IInv => OneJobPerRequestId
  BY DEF IInv
<1> QED
  BY <1>1, IInvCorrect, PTL

\* Pruning never takes the job of a live task, and every job shows the status
\* of its stage.
THEOREM JobFollowsTaskCorrect == Spec => []JobFollowsTask
<1>1. IInv => JobFollowsTask
  BY DEF IInv
<1> QED
  BY <1>1, IInvCorrect, PTL

-----------------------------------------------------------------------------
(***************************************************************************)
(* The accounting of permits                                               *)
(***************************************************************************)
LEMMA JobIdsFinite == /\ IsFiniteSet(JobIds)
                      /\ \A S \in SUBSET JobIds : IsFiniteSet(S) /\ Cardinality(S) \in Nat
<1>1. IsFiniteSet(JobIds)
  BY LimitsAssumption, FS_Interval DEF JobIds
<1> QED
  BY <1>1, FS_Subset, FS_CardinalityType

\* How the number of tasks in a set of stages changes when one task moves.
LEMMA StageMoves ==
  ASSUME TypeCore, NEW j \in JobIds, NEW from, NEW to, Advance(j, from, to), NEW stages
  PROVE  Cardinality(Tasks(stages))' =
           IF from \in stages
           THEN IF to \in stages THEN Cardinality(Tasks(stages))
                ELSE Cardinality(Tasks(stages)) - 1
           ELSE IF to \in stages THEN Cardinality(Tasks(stages)) + 1
                ELSE Cardinality(Tasks(stages))
<1> DEFINE T == Tasks(stages)
<1>1. IsFiniteSet(T) /\ Cardinality(T) \in Nat
  BY JobIdsFinite DEF Tasks
<1>2. task' = [task EXCEPT ![j] = to] /\ task[j] = from
  BY DEF Advance
<1>3. from \in stages <=> j \in T
  BY <1>2 DEF Tasks
<1>4. T' = IF to \in stages THEN T \cup {j} ELSE T \ {j}
  BY <1>2 DEF Tasks, TypeCore
<1>5. CASE to \in stages
  BY <1>1, <1>3, <1>4, <1>5, FS_AddElement
<1>6. CASE to \notin stages
  BY <1>1, <1>3, <1>4, <1>6, FS_RemoveElement
<1> QED
  BY <1>5, <1>6

PermitsInv ==
  /\ PermitsConserved
  /\ permits \in Nat

\* All permits are free at the start.
LEMMA InitPermits == Init => PermitsInv
<1> SUFFICES ASSUME Init PROVE PermitsInv
  OBVIOUS
<1>1. PermitHolders = {} /\ Executing = {}
  BY DEF Init, PermitHolders, Executing, Tasks
<1> QED
  BY <1>1, FS_EmptySet, LimitsAssumption DEF Init, PermitsInv, PermitsConserved

\* No step loses or makes a permit.
LEMMA NextPermits == IInv /\ PermitsInv /\ [Next]_vars => PermitsInv'
<1> SUFFICES ASSUME IInv, PermitsInv, [Next]_vars PROVE PermitsInv'
  OBVIOUS
<1> USE DEF PermitsInv, PermitsConserved, PermitHolders, Executing
<1>1. /\ TypeCore
      /\ Cardinality(PermitHolders) \in Nat /\ Cardinality(Executing) \in Nat
  BY JobIdsFinite DEF IInv, Tasks
<1>2. ASSUME NEW j \in JobIds, NEW from, NEW to, Advance(j, from, to),
             UNCHANGED <<permits, running>>,
             from \in {"permitted", "refused", "refusing"}
               <=> to \in {"permitted", "refused", "refusing"},
             from \in {"starting", "started", "ending"}
               <=> to \in {"starting", "started", "ending"}
      PROVE  PermitsInv'
  BY <1>1, <1>2, StageMoves
<1>3. ASSUME UNCHANGED <<task, permits, running>> PROVE PermitsInv'
  BY <1>3 DEF Tasks
<1>4. ASSUME NEW s \in Callers, NEW q \in Requests, Receive(s, q) PROVE PermitsInv'
  BY <1>3, <1>4 DEF Receive, metrics
<1>5. ASSUME NEW s \in Callers, CallStep(s) PROVE PermitsInv'
  <2>1. call[s].pc \in {"insert", "prune"} =>
          /\ call[s].job \in JobIds
          /\ task[call[s].job] = IF call[s].pc = "insert" THEN "none" ELSE "unspawned"
    BY LimitsAssumption DEF IInv, CallsHoldRequests, TypeCore, JobIds
  <2>2. CASE Insert(s)
    BY <1>2, <2>1, <2>2 DEF Insert, Advance, metrics
  <2>3. CASE PruneAndSpawn(s)
    BY <1>2, <2>1, <2>3 DEF PruneAndSpawn, Advance, metrics
  <2>4. CASE TakeWriter(s) \/ AnswerDuplicate(s) \/ PassLookup(s) \/ RejectFull(s) \/ Admit(s)
    BY <1>3, <2>4 DEF TakeWriter, AnswerDuplicate, PassLookup, RejectFull, Admit, metrics
  <2> QED
    BY <1>5, <2>2, <2>3, <2>4 DEF CallStep
<1>6. ASSUME NEW s \in Callers, Disconnect(s) PROVE PermitsInv'
  <2>1. CASE call[s].pc = "prune"
    <3>1. call[s].job \in JobIds /\ task[call[s].job] = "unspawned"
      BY <2>1, LimitsAssumption DEF IInv, CallsHoldRequests, TypeCore, JobIds
    <3> QED
      BY <1>2, <1>6, <2>1, <3>1 DEF Disconnect, Advance, metrics
  <2>2. CASE call[s].pc # "prune"
    BY <1>3, <1>6, <2>2 DEF Disconnect, metrics
  <2> QED
    BY <2>1, <2>2
<1>7. ASSUME NEW j \in JobIds, TaskStep(j) PROVE PermitsInv'
  <2>1. CASE AcquirePermit(j)
    BY <1>1, <2>1, StageMoves DEF AcquirePermit, metrics
  <2>2. CASE ConsultLock(j)
    <3>1. CASE Advance(j, "permitted", "refused") /\ UNCHANGED <<permits, running>>
      BY <1>2, <3>1
    <3>2. CASE Advance(j, "permitted", "starting") /\ running' = running + 1 /\ permits' = permits
      BY <1>1, <3>2, StageMoves
    <3> QED
      BY <2>2, <3>1, <3>2 DEF ConsultLock
  <2>3. CASE FailRefused(j)
    BY <1>2, <2>3 DEF FailRefused, metrics
  <2>4. CASE DropRefusedPermit(j)
    BY <1>1, <2>4, StageMoves DEF DropRefusedPermit, metrics
  <2>5. CASE Start(j)
    BY <1>2, <2>5 DEF Start, metrics
  <2>6. CASE Execute(j)
    BY <1>2, <2>6 DEF Execute, metrics
  <2>7. CASE Conclude(j)
    BY <1>1, <2>7, StageMoves DEF Conclude
  <2>8. CASE Finish(j)
    BY <1>2, <2>8 DEF Finish, metrics
  <2> QED
    BY <1>7, <2>1, <2>2, <2>3, <2>4, <2>5, <2>6, <2>7, <2>8 DEF TaskStep
<1>8. CASE UNCHANGED vars
  BY <1>3, <1>8 DEF vars
<1> QED
  BY <1>4, <1>5, <1>6, <1>7, <1>8 DEF Next

\* No way out of run_job leaks or duplicates a permit, and the running gauge
\* is the number of executing tasks.
THEOREM PermitsCorrect == Spec => []PermitsConserved
<1>1. PermitsInv => PermitsConserved
  BY DEF PermitsInv
<1> QED
  BY <1>1, InitPermits, NextPermits, IInvCorrect, PTL DEF Spec

\* Type correctness: in particular the semaphore never exceeds its size and the
\* running gauge never goes below zero.
THEOREM TypeCorrect == Spec => []TypeOK
<1>1. IInv /\ PermitsInv => TypeOK
  <2> SUFFICES ASSUME IInv, PermitsInv PROVE TypeOK
    OBVIOUS
  <2>1. Cardinality(PermitHolders) \in Nat /\ Cardinality(Executing) \in Nat
    BY JobIdsFinite DEF PermitHolders, Executing, Tasks
  <2>2. permits \in 0..MaxConcurrent /\ running \in Nat
    BY <2>1, LimitsAssumption DEF PermitsInv, PermitsConserved
  <2> QED
    BY <2>2 DEF IInv, TypeCore, TypeOK
<1> QED
  BY <1>1, InitPermits, NextPermits, IInvCorrect, PTL DEF Spec

-----------------------------------------------------------------------------
(***************************************************************************)
(* The accounting of submissions                                           *)
(***************************************************************************)
Pending == {"unspawned", "lost", "waiting", "permitted", "starting", "started", "ending"}

Accounted == succeeded + failed + Cardinality(Admitted) + Cardinality(Tasks(Pending))

\* Only the disconnect of a call that was admitted and has not inserted its job
\* takes a submission out of the account.
CountersInv == Accounted <= submitted /\ (HttpCallers = {} => Accounted = submitted)

LEMMA AdmittedFinite == /\ IsFiniteSet(Admitted) /\ Cardinality(Admitted) \in Nat
                        /\ Cardinality(Tasks(Pending)) \in Nat
<1>1. Admitted \in SUBSET Callers
  BY DEF Admitted
<1>2. Tasks(Pending) \in SUBSET JobIds
  BY DEF Tasks
<1> QED
  BY <1>1, <1>2, CallersAssumption, JobIdsFinite, FS_Subset, FS_CardinalityType

\* Nothing was submitted at the start.
LEMMA InitCounters == Init => CountersInv
<1> SUFFICES ASSUME Init PROVE CountersInv
  OBVIOUS
<1>1. Admitted = {}
  BY DEF Init, IdleCall, Answered, Admitted
<1>2. Tasks(Pending) = {}
  BY DEF Init, Tasks, Pending
<1> QED
  BY <1>1, <1>2, FS_EmptySet DEF Init, CountersInv, Accounted

\* The calls on their way to an insertion, at each step of a call.
LEMMA AdmittedMoves ==
  ASSUME TypeCore, NEW s \in Callers
  PROVE  /\ \A q \in Requests : Receive(s, q) => Admitted' = Admitted
         /\ TakeWriter(s) \/ AnswerDuplicate(s) \/ PassLookup(s) \/ RejectFull(s) \/ PruneAndSpawn(s)
              => Admitted' = Admitted
         /\ Admit(s) => s \notin Admitted /\ Admitted' = Admitted \cup {s}
         /\ Insert(s) => s \in Admitted /\ Admitted' = Admitted \ {s}
         /\ Disconnect(s) => Admitted' = Admitted \ {s}
<1> USE DEF TypeCore, Admitted
<1>1. ASSUME NEW q \in Requests, Receive(s, q) PROVE Admitted' = Admitted
  BY <1>1 DEF Receive, Answered, Submitting
<1>2. ASSUME NEW reply, NEW j, Return(s, reply, j), call[s].pc # "insert" PROVE Admitted' = Admitted
  BY <1>2 DEF Return, Answered
<1>3. ASSUME AnswerDuplicate(s) PROVE Admitted' = Admitted
  BY <1>2, <1>3 DEF AnswerDuplicate
<1>4. ASSUME RejectFull(s) PROVE Admitted' = Admitted
  BY <1>2, <1>4 DEF RejectFull
<1>5. ASSUME TakeWriter(s) PROVE Admitted' = Admitted
  BY <1>5 DEF TakeWriter, Goto
<1>6. ASSUME PassLookup(s) PROVE Admitted' = Admitted
  BY <1>6 DEF PassLookup, Goto
<1>7. ASSUME PruneAndSpawn(s) PROVE Admitted' = Admitted
  BY <1>7 DEF PruneAndSpawn, Answered
<1>8. Admit(s) => s \notin Admitted /\ Admitted' = Admitted \cup {s}
  BY DEF Admit, Inserting
<1>9. Insert(s) => s \in Admitted /\ Admitted' = Admitted \ {s}
  BY DEF Insert, Goto
<1>10. Disconnect(s) => Admitted' = Admitted \ {s}
  BY DEF Disconnect, IdleCall, Answered
<1> QED
  BY <1>1, <1>3, <1>4, <1>5, <1>6, <1>7, <1>8, <1>9, <1>10

\* What a step adds to one side of the account it adds to the other.
LEMMA NextCounters == IInv /\ CountersInv /\ [Next]_vars => CountersInv'
<1> SUFFICES ASSUME IInv, CountersInv, [Next]_vars PROVE CountersInv'
  OBVIOUS
<1> USE DEF CountersInv, Accounted
<1>1. /\ TypeCore /\ submitted \in Nat /\ succeeded \in Nat /\ failed \in Nat
      /\ IsFiniteSet(Admitted) /\ Cardinality(Admitted) \in Nat
      /\ Cardinality(Tasks(Pending)) \in Nat
  BY LimitsAssumption, AdmittedFinite DEF IInv, TypeCore
<1>2. ASSUME NEW j \in JobIds, NEW from, NEW to, Advance(j, from, to),
             UNCHANGED <<submitted, succeeded, failed>>, Admitted' = Admitted,
             from \in Pending <=> to \in Pending
      PROVE  CountersInv'
  BY <1>1, <1>2, StageMoves
<1>3. ASSUME UNCHANGED <<task, submitted, succeeded, failed>>, Admitted' = Admitted PROVE CountersInv'
  <2>1. Tasks(Pending)' = Tasks(Pending)
    BY <1>3 DEF Tasks, Pending
  <2> QED
    BY <1>3, <2>1
<1>4. ASSUME NEW s \in Callers, NEW q \in Requests, Receive(s, q) PROVE CountersInv'
  BY <1>1, <1>3, <1>4, AdmittedMoves DEF Receive, metrics
<1>5. ASSUME NEW s \in Callers, CallStep(s) PROVE CountersInv'
  <2>1. call[s].pc \in {"insert", "prune"} =>
          /\ call[s].job \in JobIds
          /\ task[call[s].job] = IF call[s].pc = "insert" THEN "none" ELSE "unspawned"
    BY LimitsAssumption DEF IInv, CallsHoldRequests, TypeCore, JobIds
  <2>2. CASE Admit(s)
    <3>1. Cardinality(Admitted)' = Cardinality(Admitted) + 1
      BY <1>1, <2>2, AdmittedMoves, FS_AddElement
    <3>2. Tasks(Pending)' = Tasks(Pending)
      BY <2>2 DEF Admit, Tasks, Pending
    <3> QED
      BY <1>1, <2>2, <3>1, <3>2 DEF Admit
  <2>3. CASE Insert(s)
    <3>1. Cardinality(Admitted)' = Cardinality(Admitted) - 1
      BY <1>1, <2>3, AdmittedMoves, FS_RemoveElement
    <3>2. Advance(call[s].job, "none", "unspawned") /\ call[s].job \in JobIds
      BY <2>1, <2>3 DEF Insert, Advance
    <3>3. Cardinality(Tasks(Pending))' = Cardinality(Tasks(Pending)) + 1
      BY <1>1, <3>2, StageMoves DEF Pending
    <3> QED
      BY <1>1, <2>3, <3>1, <3>3 DEF Insert, metrics
  <2>4. CASE PruneAndSpawn(s)
    <3>1. Advance(call[s].job, "unspawned", "waiting") /\ call[s].job \in JobIds
      BY <2>1, <2>4 DEF PruneAndSpawn, Advance
    <3> QED
      BY <1>1, <1>2, <2>4, <3>1, AdmittedMoves DEF PruneAndSpawn, metrics, Pending
  <2>5. CASE TakeWriter(s) \/ AnswerDuplicate(s) \/ PassLookup(s) \/ RejectFull(s)
    BY <1>1, <1>3, <2>5, AdmittedMoves DEF TakeWriter, AnswerDuplicate, PassLookup, RejectFull, metrics
  <2> QED
    BY <1>5, <2>2, <2>3, <2>4, <2>5 DEF CallStep
<1>6. ASSUME NEW s \in Callers, Disconnect(s) PROVE CountersInv'
  <2>1. HttpCallers # {} /\ Admitted' = Admitted \ {s} /\ UNCHANGED <<submitted, succeeded, failed>>
    BY <1>1, <1>6, AdmittedMoves DEF Disconnect, metrics
  <2>2. Cardinality(Admitted)' \in Nat /\ Cardinality(Admitted)' <= Cardinality(Admitted)
    <3>1. Cardinality(Admitted \ {s}) = IF s \in Admitted THEN Cardinality(Admitted) - 1
                                        ELSE Cardinality(Admitted)
      BY <1>1, FS_RemoveElement
    <3>2. s \in Admitted => Cardinality(Admitted) # 0
      BY <1>1, FS_EmptySet
    <3> QED
      BY <1>1, <2>1, <3>1, <3>2
  <2>3. Cardinality(Tasks(Pending))' = Cardinality(Tasks(Pending))
    <3>1. CASE call[s].pc = "prune"
      <4>1. call[s].job \in JobIds /\ task[call[s].job] = "unspawned"
        BY <3>1, LimitsAssumption DEF IInv, CallsHoldRequests, TypeCore, JobIds
      <4>2. Advance(call[s].job, "unspawned", "lost")
        BY <1>6, <3>1, <4>1 DEF Disconnect, Advance
      <4> QED
        BY <1>1, <4>1, <4>2, StageMoves DEF Pending
    <3>2. CASE call[s].pc # "prune"
      BY <1>6, <3>2 DEF Disconnect, Tasks, Pending
    <3> QED
      BY <3>1, <3>2
  <2> QED
    BY <1>1, <2>1, <2>2, <2>3
<1>7. ASSUME NEW j \in JobIds, TaskStep(j) PROVE CountersInv'
  <2>1. Admitted' = Admitted
    BY <1>7 DEF TaskStep, AcquirePermit, ConsultLock, FailRefused, DropRefusedPermit,
       Start, Execute, Conclude, Finish, callVars, Admitted
  <2>2. CASE AcquirePermit(j)
    BY <1>2, <2>1, <2>2 DEF AcquirePermit, metrics, Pending
  <2>3. CASE ConsultLock(j)
    <3>1. CASE Advance(j, "permitted", "refused") /\ failed' = failed + 1
               /\ UNCHANGED <<submitted, succeeded>>
      <4>1. Cardinality(Tasks(Pending))' = Cardinality(Tasks(Pending)) - 1
        BY <1>1, <3>1, StageMoves DEF Pending
      <4> QED
        BY <1>1, <2>1, <3>1, <4>1
    <3>2. CASE Advance(j, "permitted", "starting") /\ UNCHANGED <<submitted, succeeded, failed>>
      BY <1>2, <2>1, <3>2 DEF Pending
    <3> QED
      BY <2>3, <3>1, <3>2 DEF ConsultLock
  <2>4. CASE FailRefused(j)
    BY <1>2, <2>1, <2>4 DEF FailRefused, metrics, Pending
  <2>5. CASE DropRefusedPermit(j)
    BY <1>2, <2>1, <2>5 DEF DropRefusedPermit, metrics, Pending
  <2>6. CASE Start(j)
    BY <1>2, <2>1, <2>6 DEF Start, metrics, Pending
  <2>7. CASE Execute(j)
    BY <1>2, <2>1, <2>7 DEF Execute, metrics, Pending
  <2>8. CASE Conclude(j)
    <3>1. Advance(j, "ending", "concluding") /\ outcome[j] \in {"succeeded", "failed"}
      BY <2>8 DEF Conclude, Advance, IInv, VerdictKnown, Terminal
    <3>2. Cardinality(Tasks(Pending))' = Cardinality(Tasks(Pending)) - 1
      BY <1>1, <3>1, StageMoves DEF Pending
    <3>3. Admitted' = Admitted /\ submitted' = submitted
      BY <2>1, <2>8 DEF Conclude
    <3>4. CASE succeeded' = succeeded + 1 /\ failed' = failed
      BY <1>1, <3>2, <3>3, <3>4
    <3>5. CASE succeeded' = succeeded /\ failed' = failed + 1
      BY <1>1, <3>2, <3>3, <3>5
    <3> QED
      BY <2>8, <3>1, <3>4, <3>5 DEF Conclude
  <2>9. CASE Finish(j)
    BY <1>2, <2>1, <2>9 DEF Finish, metrics, Pending
  <2> QED
    BY <1>7, <2>2, <2>3, <2>4, <2>5, <2>6, <2>7, <2>8, <2>9 DEF TaskStep
<1>8. CASE UNCHANGED vars
  BY <1>3, <1>8 DEF vars, Admitted
<1> QED
  BY <1>4, <1>5, <1>6, <1>7, <1>8 DEF Next

\* The counters never run ahead of the submissions, and without clients that
\* disconnect every submission is in exactly one of them, or on its way there.
THEOREM CountersCorrect == Spec => [](Accounted <= submitted
                                      /\ (HttpCallers = {} => CountersConserve))
<1>1. IInv /\ CountersInv => Accounted <= submitted /\ (HttpCallers = {} => CountersConserve)
  BY DEF CountersInv, Accounted, CountersConserve, Pending
<1> QED
  BY <1>1, InitCounters, NextCounters, IInvCorrect, PTL DEF Spec
=============================================================================
