------------------------ MODULE BuildQueueRefinement ------------------------
(***************************************************************************)
(* Two consequences of the invariants of BuildQueueProofs: how far the     *)
(* queue can outgrow its limit, and that BuildQueue implements             *)
(* BuildPromise.                                                           *)
(***************************************************************************)
EXTENDS BuildQueueProofs

(***************************************************************************)
(* The queue                                                               *)
(***************************************************************************)
LEMMA QueueSetsFinite ==
  /\ IsFiniteSet(Queued) /\ Cardinality(Queued) \in Nat
  /\ IsFiniteSet(Admitted) /\ Cardinality(Admitted) \in Nat
  /\ Cardinality(Admitted) <= Cardinality(Callers)
<1>1. IsFiniteSet(Queued) /\ Cardinality(Queued) \in Nat
  BY JobIdsFinite DEF Queued
<1>2. Admitted \in SUBSET Callers
  BY DEF Admitted
<1> QED
  BY <1>1, <1>2, CallersAssumption, FS_Subset, FS_CardinalityType

\* Only admission and insertion can make the queue or the admitted calls grow.
IdentifiedAdmitted == {s \in Admitted : call[s].request.rid # NoId}

Shrinks ==
  /\ Queued' \in SUBSET Queued
  /\ Admitted' \in SUBSET Admitted
  /\ IdentifiedQueued' \in SUBSET IdentifiedQueued
  /\ IdentifiedAdmitted' \in SUBSET IdentifiedAdmitted

\* Only an insertion makes the queue, or the calls admitted to it, grow.
LEMMA QueueSteps ==
  ASSUME IInv, [Next]_vars
  PROVE  \/ Shrinks
         \/ \E s \in Callers : Admit(s)
         \/ \E s \in Callers : Insert(s)
<1>1. TypeCore
  BY DEF IInv
<1>2. ASSUME NEW s \in Callers, NEW q \in Requests, Receive(s, q) PROVE Shrinks
  BY <1>1, <1>2 DEF Receive, Shrinks, Queued, Admitted, IdentifiedQueued, IdentifiedAdmitted, Rid, TypeCore, Answered, Submitting
<1>3. ASSUME NEW s \in Callers, PruneAndSpawn(s) PROVE Shrinks
  <2>1. PICK E \in SUBSET Finished : Evict(E)
    BY <1>1, <1>3, PruneEvicts DEF PruneAndSpawn
  <2> QED
    BY <1>1, <1>3, <2>1 DEF PruneAndSpawn, Evict, Shrinks, Queued, Admitted, IdentifiedQueued, IdentifiedAdmitted, Rid, TypeCore, Answered, NoJob
<1>4. ASSUME NEW s \in Callers, Disconnect(s) PROVE Shrinks
  BY <1>1, <1>4 DEF Disconnect, Shrinks, Queued, Admitted, IdentifiedQueued, IdentifiedAdmitted, Rid, TypeCore, IdleCall, Answered
<1>5. ASSUME NEW s \in Callers,
             \/ TakeWriter(s) \/ AnswerDuplicate(s) \/ PassLookup(s) \/ RejectFull(s)
      PROVE  Shrinks
  <2>1. CASE TakeWriter(s)
    BY <1>1, <2>1 DEF TakeWriter, Goto, Shrinks, Queued, Admitted, IdentifiedQueued, IdentifiedAdmitted, Rid, TypeCore
  <2>2. CASE PassLookup(s)
    BY <1>1, <2>2 DEF PassLookup, Goto, Shrinks, Queued, Admitted, IdentifiedQueued, IdentifiedAdmitted, Rid, TypeCore
  <2>3. ASSUME NEW reply, NEW j, Return(s, reply, j), UNCHANGED jobs PROVE Shrinks
    BY <1>1, <2>3 DEF Return, Answered, Shrinks, Queued, Admitted, IdentifiedQueued, IdentifiedAdmitted, Rid, TypeCore
  <2>4. CASE AnswerDuplicate(s)
    BY <2>3, <2>4 DEF AnswerDuplicate
  <2>5. CASE RejectFull(s)
    BY <2>3, <2>5 DEF RejectFull
  <2> QED
    BY <1>5, <2>1, <2>2, <2>4, <2>5
<1>6. ASSUME NEW j \in JobIds, NEW status \in Statuses \ {"queued"},
             SetStatus(j, status), UNCHANGED call
      PROVE  Shrinks
  BY <1>1, <1>6, SetStatusKeepsTheRest DEF Shrinks, Queued, Admitted, IdentifiedQueued, IdentifiedAdmitted, Rid
<1>7. ASSUME NEW j \in JobIds, TaskStep(j) PROVE Shrinks
  <2>1. CASE FailRefused(j) \/ Start(j)
    BY <1>6, <2>1 DEF FailRefused, Start, callVars, Statuses
  <2>2. CASE Finish(j)
    <3>1. outcome[j] \in Statuses \ {"queued"}
      BY <2>2 DEF Finish, Advance, IInv, VerdictKnown, Terminal, Statuses
    <3> QED
      BY <1>6, <2>2, <3>1 DEF Finish, callVars
  <2>3. CASE \/ AcquirePermit(j) \/ ConsultLock(j) \/ DropRefusedPermit(j)
             \/ Execute(j) \/ Conclude(j)
    BY <2>3 DEF AcquirePermit, ConsultLock, DropRefusedPermit, Execute, Conclude,
       callVars, Shrinks, Queued, Admitted, IdentifiedQueued, IdentifiedAdmitted, Rid
  <2> QED
    BY <1>7, <2>1, <2>2, <2>3 DEF TaskStep
<1>8. CASE UNCHANGED vars
  BY <1>8 DEF vars, Shrinks, Queued, Admitted, IdentifiedQueued, IdentifiedAdmitted, Rid
<1> QED
  BY <1>2, <1>3, <1>4, <1>5, <1>7, <1>8 DEF Next, CallStep

\* A call is admitted when the queue is below its limit.
LEMMA AdmitMovesQueue ==
  ASSUME IInv, NEW s \in Callers, Admit(s)
  PROVE  Queued' = Queued /\ Admitted' = Admitted \cup {s} /\ s \notin Admitted
BY DEF Admit, IInv, TypeCore, Queued, Admitted, Inserting

\* An insertion turns one admitted call into one queued job.
LEMMA InsertMovesQueue ==
  ASSUME IInv, NEW s \in Callers, Insert(s)
  PROVE  /\ Cardinality(Queued)' = Cardinality(Queued) + 1
         /\ Cardinality(Admitted)' = Cardinality(Admitted) - 1
<1>1. call[s].job \in JobIds /\ jobs[call[s].job].status = "absent"
  BY LimitsAssumption
     DEF Insert, IInv, CallsHoldRequests, JobFollowsTask, TypeCore, JobIds
<1>2. Queued' = Queued \cup {call[s].job} /\ call[s].job \notin Queued
  BY <1>1 DEF Insert, IInv, TypeCore, Queued
<1>3. Admitted' = Admitted \ {s} /\ s \in Admitted
  BY DEF Insert, Goto, IInv, TypeCore, Admitted
<1> QED
  BY <1>2, <1>3, QueueSetsFinite, FS_AddElement, FS_RemoveElement

\* A queue that has not grown keeps to the bound.
LEMMA ShrunkQueue ==
  ASSUME Queued' \in SUBSET Queued, Admitted' \in SUBSET Admitted
  PROVE  /\ Cardinality(Queued)' \in Nat /\ Cardinality(Queued)' <= Cardinality(Queued)
         /\ Cardinality(Admitted)' \in Nat /\ Cardinality(Admitted)' <= Cardinality(Admitted)
BY QueueSetsFinite, FS_Subset, FS_CardinalityType

\* Callers that read the queue before each other's insertion overshoot the limit
\* by at most one job each, whatever the number of callers.
THEOREM QueueOvershootCorrect == Spec => []QueueOvershoot
<1>1. Init => QueueOvershoot
  <2> SUFFICES ASSUME Init PROVE QueueOvershoot
    OBVIOUS
  <2>1. Queued = {} /\ Admitted = {}
    BY DEF Init, Queued, Admitted, NoJob, IdleCall, Answered
  <2>2. Cardinality(Callers) \in Nat /\ Cardinality(Callers) # 0
    BY CallersAssumption, FS_CardinalityType, FS_EmptySet
  <2> QED
    BY <2>1, <2>2, LimitsAssumption, FS_EmptySet DEF QueueOvershoot
<1>2. IInv /\ QueueOvershoot /\ [Next]_vars => QueueOvershoot'
  <2> SUFFICES ASSUME IInv, QueueOvershoot, [Next]_vars PROVE QueueOvershoot'
    OBVIOUS
  <2>1. Cardinality(Callers) \in Nat /\ MaxQueued \in Nat
    BY CallersAssumption, LimitsAssumption, FS_CardinalityType
  <2>2. CASE Shrinks
    BY <2>1, <2>2, ShrunkQueue, QueueSetsFinite DEF QueueOvershoot, Shrinks
  <2>3. ASSUME NEW s \in Callers, Admit(s) PROVE QueueOvershoot'
    <3>1. Cardinality(Queued)' = Cardinality(Queued) /\ Cardinality(Queued) < MaxQueued
      BY <2>3, AdmitMovesQueue DEF Admit
    <3>2. Admitted' \in SUBSET Callers
      BY DEF Admitted
    <3>3. /\ Cardinality(Admitted)' <= Cardinality(Callers)
          /\ Cardinality(Admitted)' \in Nat
      BY <3>2, CallersAssumption, FS_Subset, FS_CardinalityType
    <3> QED
      BY <2>1, <3>1, <3>3, QueueSetsFinite DEF QueueOvershoot
  <2>4. ASSUME NEW s \in Callers, Insert(s) PROVE QueueOvershoot'
    BY <2>1, <2>4, InsertMovesQueue, QueueSetsFinite DEF QueueOvershoot
  <2> QED
    BY <2>2, <2>3, <2>4, QueueSteps
<1> QED
  BY <1>1, <1>2, IInvCorrect, PTL DEF Spec

(***************************************************************************)
(* Calls with a request id pass admission one at a time, under the writer  *)
(* lock, so for the jobs they leave the limit is exact.                    *)
(***************************************************************************)
IdentifiedQueueInv ==
  Cardinality(IdentifiedQueued) + Cardinality(IdentifiedAdmitted) <= MaxQueued

\* The sets that IdentifiedQueueBounded counts are finite.
LEMMA IdentifiedSetsFinite ==
  /\ IsFiniteSet(IdentifiedQueued) /\ Cardinality(IdentifiedQueued) \in Nat
  /\ Cardinality(IdentifiedQueued) <= Cardinality(Queued)
  /\ IsFiniteSet(IdentifiedAdmitted) /\ Cardinality(IdentifiedAdmitted) \in Nat
<1>1. IdentifiedQueued \in SUBSET Queued /\ IdentifiedAdmitted \in SUBSET Admitted
  BY DEF IdentifiedQueued, IdentifiedAdmitted
<1> QED
  BY <1>1, QueueSetsFinite, FS_Subset, FS_CardinalityType

\* The same for the queued jobs with a requestId.
LEMMA ShrunkIdentified ==
  ASSUME Shrinks
  PROVE  /\ Cardinality(IdentifiedQueued)' \in Nat
         /\ Cardinality(IdentifiedQueued)' <= Cardinality(IdentifiedQueued)
         /\ Cardinality(IdentifiedAdmitted)' \in Nat
         /\ Cardinality(IdentifiedAdmitted)' <= Cardinality(IdentifiedAdmitted)
BY IdentifiedSetsFinite, FS_Subset, FS_CardinalityType DEF Shrinks

\* An insertion with a requestId is the only one under way.
LEMMA InsertMovesIdentified ==
  ASSUME IInv, NEW s \in Callers, Insert(s)
  PROVE  Cardinality(IdentifiedQueued)' + Cardinality(IdentifiedAdmitted)'
           = Cardinality(IdentifiedQueued) + Cardinality(IdentifiedAdmitted)
<1>1. call[s].job \in JobIds /\ jobs[call[s].job].status = "absent"
  BY LimitsAssumption
     DEF Insert, IInv, CallsHoldRequests, JobFollowsTask, TypeCore, JobIds
<1>2. CASE call[s].request.rid = NoId
  <2>1. IdentifiedQueued' = IdentifiedQueued
    BY <1>1, <1>2 DEF Insert, IInv, TypeCore, Queued, IdentifiedQueued, Rid
  <2>2. IdentifiedAdmitted' = IdentifiedAdmitted
    BY <1>2 DEF Insert, Goto, IInv, TypeCore, Admitted, IdentifiedAdmitted
  <2> QED
    BY <2>1, <2>2, IdentifiedSetsFinite
<1>3. CASE call[s].request.rid # NoId
  <2>1. /\ IdentifiedQueued' = IdentifiedQueued \cup {call[s].job}
        /\ call[s].job \notin IdentifiedQueued
    BY <1>1, <1>3 DEF Insert, IInv, TypeCore, Queued, IdentifiedQueued, Rid
  <2>2. IdentifiedAdmitted' = IdentifiedAdmitted \ {s} /\ s \in IdentifiedAdmitted
    BY <1>3 DEF Insert, Goto, IInv, TypeCore, Admitted, IdentifiedAdmitted
  <2>3. Cardinality(IdentifiedQueued)' = Cardinality(IdentifiedQueued) + 1
    BY <2>1, IdentifiedSetsFinite, FS_AddElement
  <2>4. Cardinality(IdentifiedAdmitted)' = Cardinality(IdentifiedAdmitted) - 1
    BY <2>2, IdentifiedSetsFinite, FS_RemoveElement
  <2> QED
    BY <2>3, <2>4, IdentifiedSetsFinite
<1> QED
  BY <1>2, <1>3

\* The queued jobs that bear a request id stay within the configured limit.
THEOREM IdentifiedQueueCorrect == Spec => []IdentifiedQueueBounded
<1>1. Init => IdentifiedQueueInv
  <2> SUFFICES ASSUME Init PROVE IdentifiedQueueInv
    OBVIOUS
  <2>1. IdentifiedQueued = {} /\ IdentifiedAdmitted = {}
    BY DEF Init, Queued, Admitted, IdentifiedQueued, IdentifiedAdmitted, NoJob,
       IdleCall, Answered
  <2> QED
    BY <2>1, LimitsAssumption, FS_EmptySet DEF IdentifiedQueueInv
<1>2. IInv /\ IdentifiedQueueInv /\ [Next]_vars => IdentifiedQueueInv'
  <2> SUFFICES ASSUME IInv, IdentifiedQueueInv, [Next]_vars PROVE IdentifiedQueueInv'
    OBVIOUS
  <2>1. MaxQueued \in Nat
    BY LimitsAssumption
  <2>2. CASE Shrinks
    BY <2>1, <2>2, ShrunkIdentified, IdentifiedSetsFinite DEF IdentifiedQueueInv
  <2>3. ASSUME NEW s \in Callers, Admit(s) PROVE IdentifiedQueueInv'
    <3>1. IdentifiedQueued' = IdentifiedQueued
      BY <2>3 DEF Admit, Queued, IdentifiedQueued, Rid
    <3>2. CASE call[s].request.rid = NoId
      <4>1. IdentifiedAdmitted' = IdentifiedAdmitted
        BY <2>3, <3>2
           DEF Admit, IInv, TypeCore, Admitted, IdentifiedAdmitted, Inserting
      <4> QED
        BY <3>1, <4>1 DEF IdentifiedQueueInv
    <3>3. CASE call[s].request.rid # NoId
      <4>1. writer = s
        BY <2>3, <3>3 DEF Admit, IInv, WriterHeld
      <4>2. \A t \in Callers : t \in IdentifiedAdmitted => writer = t
        BY DEF IdentifiedAdmitted, Admitted, IInv, WriterHeld
      <4>3. IdentifiedAdmitted = {}
        BY <2>3, <4>1, <4>2 DEF Admit, IdentifiedAdmitted, Admitted
      <4>4. IdentifiedAdmitted' = {s}
        BY <2>3, <3>3, <4>3
           DEF Admit, IInv, TypeCore, Admitted, IdentifiedAdmitted, Inserting
      <4>5. Cardinality(IdentifiedAdmitted)' = 1
        BY <4>4, FS_Singleton
      <4>6. Cardinality(IdentifiedQueued) < MaxQueued
        BY <2>1, <2>3, IdentifiedSetsFinite, QueueSetsFinite DEF Admit
      <4> QED
        BY <2>1, <3>1, <4>5, <4>6, IdentifiedSetsFinite DEF IdentifiedQueueInv
    <3> QED
      BY <3>2, <3>3
  <2>4. ASSUME NEW s \in Callers, Insert(s) PROVE IdentifiedQueueInv'
    BY <2>4, InsertMovesIdentified DEF IdentifiedQueueInv
  <2> QED
    BY <2>2, <2>3, <2>4, QueueSteps
<1>3. IdentifiedQueueInv => IdentifiedQueueBounded
  BY IdentifiedSetsFinite, LimitsAssumption DEF IdentifiedQueueInv, IdentifiedQueueBounded
<1> QED
  BY <1>1, <1>2, <1>3, IInvCorrect, PTL DEF Spec

-----------------------------------------------------------------------------
(***************************************************************************)
(* The refinement of BuildPromise                                          *)
(***************************************************************************)
\* The ledger is a function of the map and of which tasks exist.
LEMMA LedgerUntouched ==
  ASSUME UNCHANGED jobs,
         \A j \in JobIds : task'[j] = "none" <=> task[j] = "none"
  PROVE  Ledger' = Ledger
BY DEF Ledger

\* Initial states of the queue are initial states of the promise.
LEMMA InitRefines == Init => Promise!Init
BY DEF Init, Promise!Init, Ledger, NoJob

\* An insertion accepts a job.
LEMMA InsertRefines ==
  ASSUME IInv, NEW s \in Callers, Insert(s)
  PROVE  Promise!Accept(call[s].job, call[s].request)
<1> USE LimitsAssumption DEF IInv
<1> DEFINE id == call[s].job
           req == call[s].request
           new == [status |-> "queued", request |-> req, created |-> call[s].created]
<1>1. id \in JobIds /\ task[id] = "none" /\ jobs[id].status = "absent"
  BY DEF Insert, CallsHoldRequests, JobFollowsTask, TypeCore, JobIds
<1>2. jobs' = [jobs EXCEPT ![id] = new] /\ task' = [task EXCEPT ![id] = "unspawned"]
  BY DEF Insert
<1>3. Ledger[id].phase = "absent"
  BY <1>1 DEF Ledger
<1>4. \A k \in Promise!Remembered : k \in Retained /\ Ledger[k].request.rid = Rid(k)
  BY DEF Promise!Remembered, Ledger, Retained, Rid
<1>5. req.rid = NoId \/ \A k \in Retained : Rid(k) # req.rid
  BY DEF Insert, WriterHeld, ClaimsMatchRetained, RidsOf
<1>6. Ledger' = [Ledger EXCEPT ![id] = [phase |-> "queued", request |-> req]]
  BY <1>1, <1>2 DEF Ledger, TypeCore
<1> QED
  BY <1>3, <1>4, <1>5, <1>6 DEF Promise!Accept

\* Pruning forgets jobs that have their verdict.
LEMMA PruneRefines ==
  ASSUME IInv, NEW s \in Callers, PruneAndSpawn(s)
  PROVE  \E js \in SUBSET JobIds : Promise!Forget(js)
<1> USE LimitsAssumption DEF IInv
<1>1. PICK E \in SUBSET Finished : Evict(E)
  BY PruneEvicts DEF PruneAndSpawn
<1>2. E \in SUBSET JobIds /\ \A j \in E : jobs[j].status \in Terminal
  BY DEF Finished, Retained
<1>3. call[s].job \in JobIds /\ task[call[s].job] = "unspawned"
  BY DEF PruneAndSpawn, CallsHoldRequests, TypeCore, JobIds
<1>4. \A j \in JobIds : task'[j] = "none" <=> task[j] = "none"
  BY <1>3 DEF PruneAndSpawn, TypeCore
<1>5. \A j \in E : task[j] # "none"
  BY <1>2 DEF JobFollowsTask, Terminal
<1>6. \A j \in E : Ledger[j].phase \in Promise!Verdicts
  BY <1>2 DEF Ledger, Promise!Verdicts, Terminal
<1>7. Ledger' = [j \in JobIds |-> IF j \in E
                                  THEN [phase |-> "forgotten", request |-> NoRequest]
                                  ELSE Ledger[j]]
  BY <1>1, <1>2, <1>4, <1>5 DEF Evict, Ledger, NoJob
<1> QED
  BY <1>2, <1>6, <1>7 DEF Promise!Forget

\* A status change of a retained job is a move of its ledger entry.
LEMMA SetStatusMoves ==
  ASSUME IInv, NEW j \in JobIds, NEW status \in Statuses, NEW from, NEW to,
         Advance(j, from, to), SetStatus(j, status),
         from # "none", to # "none", jobs[j].status # "absent"
  PROVE  Promise!Move(j, jobs[j].status, status)
<1>1. TypeCore
  BY DEF IInv
<1>2. /\ \A k \in JobIds : jobs'[k].request = jobs[k].request
      /\ \A k \in JobIds \ {j} : jobs'[k] = jobs[k]
      /\ jobs'[j].status = status
  BY <1>1, SetStatusKeepsTheRest
<1>3. \A k \in JobIds : task'[k] = "none" <=> task[k] = "none"
  BY <1>1 DEF Advance, TypeCore
<1>4. Ledger[j].phase = jobs[j].status
  BY DEF Ledger
<1>5. status # "absent"
  BY DEF Statuses
<1>6. Ledger' = [Ledger EXCEPT ![j].phase = status]
  BY <1>2, <1>3, <1>5 DEF Ledger
<1> QED
  BY <1>4, <1>6 DEF Promise!Move

\* Every step of the queue is a step of the promise or leaves its ledger alone.
LEMMA NextRefines == IInv /\ [Next]_vars => [Promise!Next]_Ledger
<1> SUFFICES ASSUME IInv, [Next]_vars PROVE [Promise!Next]_Ledger
  OBVIOUS
<1>1. TypeCore
  BY DEF IInv
<1>2. ASSUME NEW j \in JobIds, NEW from, NEW to, Advance(j, from, to),
             from # "none", to # "none", UNCHANGED jobs
      PROVE  Ledger' = Ledger
  BY <1>1, <1>2, LedgerUntouched DEF Advance, TypeCore
<1>3. ASSUME UNCHANGED <<jobs, task>> PROVE Ledger' = Ledger
  BY <1>3, LedgerUntouched
<1>4. ASSUME NEW s \in Callers, NEW q \in Requests, Receive(s, q) PROVE Ledger' = Ledger
  BY <1>3, <1>4 DEF Receive
<1>5. ASSUME NEW s \in Callers, CallStep(s) PROVE [Promise!Next]_Ledger
  <2>1. CASE Insert(s)
    <3>1. call[s].job \in JobIds /\ call[s].request \in Requests
      BY <2>1, LimitsAssumption DEF Insert, IInv, CallsHoldRequests, TypeCore, JobIds
    <3> QED
      BY <2>1, <3>1, InsertRefines DEF Promise!Next
  <2>2. CASE PruneAndSpawn(s)
    BY <2>2, PruneRefines DEF Promise!Next
  <2>3. CASE TakeWriter(s) \/ AnswerDuplicate(s) \/ PassLookup(s) \/ RejectFull(s) \/ Admit(s)
    BY <1>3, <2>3 DEF TakeWriter, AnswerDuplicate, PassLookup, RejectFull, Admit
  <2> QED
    BY <1>5, <2>1, <2>2, <2>3 DEF CallStep
<1>6. ASSUME NEW s \in Callers, Disconnect(s) PROVE Ledger' = Ledger
  <2>1. CASE call[s].pc = "prune"
    <3>1. call[s].job \in JobIds /\ task[call[s].job] = "unspawned"
      BY <2>1, LimitsAssumption DEF IInv, CallsHoldRequests, TypeCore, JobIds
    <3> QED
      BY <1>2, <1>6, <2>1, <3>1 DEF Disconnect, Advance
  <2>2. CASE call[s].pc # "prune"
    BY <1>3, <1>6, <2>2 DEF Disconnect
  <2> QED
    BY <2>1, <2>2
<1>7. ASSUME NEW j \in JobIds, TaskStep(j) PROVE [Promise!Next]_Ledger
  <2>1. CASE AcquirePermit(j) \/ DropRefusedPermit(j) \/ Execute(j) \/ Conclude(j)
    BY <1>2, <2>1 DEF AcquirePermit, DropRefusedPermit, Execute, Conclude
  <2>2. CASE ConsultLock(j)
    BY <1>2, <2>2 DEF ConsultLock
  <2>3. CASE FailRefused(j)
    <3>1. jobs[j].status = "queued" /\ "failed" \in Statuses
      BY <2>3 DEF FailRefused, Advance, IInv, JobFollowsTask, Statuses
    <3>2. Promise!Move(j, "queued", "failed")
      BY <2>3, <3>1, SetStatusMoves DEF FailRefused
    <3> QED
      BY <3>2 DEF Promise!Refuse, Promise!Progress, Promise!Next
  <2>4. CASE Start(j)
    <3>1. jobs[j].status = "queued" /\ "running" \in Statuses
      BY <2>4 DEF Start, Advance, IInv, JobFollowsTask, Statuses
    <3>2. Promise!Move(j, "queued", "running")
      BY <2>4, <3>1, SetStatusMoves DEF Start
    <3> QED
      BY <3>2 DEF Promise!Start, Promise!Progress, Promise!Next
  <2>5. CASE Finish(j)
    <3>1. jobs[j].status = "running" /\ outcome[j] \in Terminal
      BY <2>5 DEF Finish, Advance, IInv, JobFollowsTask, VerdictKnown
    <3>2. outcome[j] \in Statuses /\ outcome[j] \in Promise!Verdicts
      BY <3>1 DEF Terminal, Statuses, Promise!Verdicts
    <3>3. Promise!Move(j, "running", outcome[j])
      BY <2>5, <3>1, <3>2, SetStatusMoves DEF Finish
    <3> QED
      BY <3>2, <3>3 DEF Promise!Decide, Promise!Progress, Promise!Next
  <2> QED
    BY <1>7, <2>1, <2>2, <2>3, <2>4, <2>5 DEF TaskStep
<1>8. CASE UNCHANGED vars
  BY <1>3, <1>8 DEF vars
<1> QED
  BY <1>4, <1>5, <1>6, <1>7, <1>8 DEF Next

\* enqueue_build, prune_jobs and run_job together keep the promise: no second
\* acceptance of a remembered id, no second run, no verdict changed, nothing
\* forgotten before its verdict.
THEOREM Refinement == Spec => KeepsPromise
<1>1. Spec => Promise!Init /\ [][Promise!Next]_Ledger
  BY InitRefines, NextRefines, IInvCorrect, PTL DEF Spec
<1> QED
  BY <1>1, PTL DEF KeepsPromise, Promise!Spec
=============================================================================
