-------------------------- MODULE NatsIntakeProofs ---------------------------
(***************************************************************************)
(* Proofs about NatsIntake, for every set of replicas, messages and        *)
(* payloads, and any number of deliveries, publications, jobs and faults.  *)
(* The record side is proved job by job: every step makes a move of each   *)
(* job's life (Moves), and each move keeps what the record owes to it.     *)
(***************************************************************************)
EXTENDS NatsIntake, TLAPS

-----------------------------------------------------------------------------
(***************************************************************************)
(* The inductive invariant                                                 *)
(***************************************************************************)
\* What may be delivered again has had fewer deliveries than it may have.
CountsBounded ==
  \A m \in Payloads : message[m].state \in {"unsent", "pending"}
                      => message[m].count < MaxDeliver

\* A delivery comes to one inbox, and has no job before it is taken out of it.
DeliveriesFresh ==
  /\ \A m \in Payloads, n \in 1..MaxDeliver : n > message[m].count =>
       /\ \A r \in Replicas : <<m, n>> \notin inbox[r]
       /\ m \in Messages => task[<<m, n>>] = "none"
  /\ \A r \in Replicas : \A d \in inbox[r] :
       /\ d \in Jobs => task[d] = "none"
       /\ \A q \in Replicas : d \in inbox[q] => q = r

\* A loop that waits for a row has made the job, which nobody has spawned yet; a
\* job of a delivery that is not spawned is in hand, and never an orphan.
HandsHoldJobs ==
  /\ \A r \in Replicas : hand[r].pc = "persisting" =>
       /\ hand[r].delivery \in Jobs
       /\ task[hand[r].delivery] = "inserted" /\ home[hand[r].delivery] = r
  /\ \A j \in Jobs : j \in Deliveries =>
       /\ task[j] # "orphaned"
       /\ task[j] = "inserted" =>
            /\ home[j] \in Replicas
            /\ hand[home[j]].pc = "persisting" /\ hand[home[j]].delivery = j

\* What may be owed, and what is on record, at each stage of a job.
Follows(j) ==
  /\ task[j] = "none" => owed[j] = "nothing" /\ row[j] = "absent"
  /\ task[j] = "inserted" =>
       \/ owed[j] = "queued" /\ row[j] = "absent"
       \/ /\ owed[j] = "nothing" /\ Recorded(j)
          /\ j \notin unwritten => row[j] \in {"queued", "failed"}
  /\ task[j] = "queued" => owed[j] = "nothing" /\ Recorded(j)
  /\ task[j] = "running" => owed[j] \in {"nothing", "running"} /\ Recorded(j)
  /\ task[j] \in Verdicts => owed[j] \in {"nothing", task[j]} /\ Recorded(j)
  /\ task[j] = "forgotten" => owed[j] \in {"nothing"} \cup Verdicts /\ Recorded(j)
  /\ task[j] \in {"orphaned", "dead"} => owed[j] = "nothing"
  /\ row[j] = "succeeded" => owed[j] = "nothing"

RecordsFollow == \A j \in Jobs : Follows(j)

\* A loop acknowledges what is on record.
AnswersFounded ==
  \A r \in Replicas :
    hand[r].pc = "acking" /\ hand[r].answer = "ack"
    => hand[r].delivery[1] \in Messages /\ OnRecord(hand[r].delivery[1])

IInv ==
  /\ TypeOK /\ CountsBounded /\ DeliveriesFresh /\ HandsHoldJobs
  /\ RecordsFollow /\ AnswersFounded /\ AckedIsOnRecord /\ RowFollowsTask

-----------------------------------------------------------------------------
(***************************************************************************)
(* The life of a job                                                       *)
(***************************************************************************)
SameRow(j) == row'[j] = row[j] /\ (j \in unwritten' <=> j \in unwritten)

Inserted(j) == task[j] = "none" /\ task'[j] = "inserted" /\ owed'[j] = "queued" /\ SameRow(j)

Spawned(j) ==
  /\ task[j] = "inserted" /\ owed[j] = "nothing"
  /\ task'[j] = "queued" /\ owed'[j] = "nothing" /\ SameRow(j)

Left(j) ==
  /\ task[j] = "inserted" /\ j[2] = 0
  /\ task'[j] = "orphaned" /\ owed'[j] = "nothing"
  /\ row'[j] = row[j] \/ (row'[j] = owed[j] /\ owed[j] # "nothing")
  /\ j \in unwritten' <=> j \in unwritten

Updated(j) ==
  /\ owed[j] = "nothing" /\ owed'[j] = task'[j] /\ SameRow(j)
  /\ \/ task[j] = "queued" /\ task'[j] = "running"
     \/ task[j] \in Open /\ task'[j] \in Verdicts

Written(j) ==
  /\ owed[j] # "nothing" /\ owed'[j] = "nothing" /\ task'[j] = task[j]
  /\ \/ row'[j] = owed[j] /\ j \notin unwritten'
     \/ row'[j] = row[j] /\ j \in unwritten'

Dropped(j) ==
  /\ SameRow(j) /\ owed'[j] \in {owed[j], "nothing"}
  /\ \/ task[j] \in Verdicts /\ task'[j] = "forgotten"
     \/ /\ owed'[j] = "nothing"
        /\ \/ task[j] \in Retained \ Verdicts /\ task'[j] = "dead"
           \/ task[j] \notin Retained /\ task'[j] = task[j]

Recovered(j) ==
  /\ task'[j] = task[j] /\ owed'[j] = owed[j] /\ row[j] \in Open
  /\ \/ row'[j] = "failed" /\ (j \in unwritten' <=> j \in unwritten)
     \/ row'[j] = row[j] /\ j \in unwritten' /\ Silent(j)

Idles(j) == task'[j] = task[j] /\ owed'[j] = owed[j] /\ SameRow(j)

Moves(j) ==
  \/ Idles(j) \/ Inserted(j) \/ Spawned(j) \/ Left(j) \/ Updated(j) \/ Written(j)
  \/ Dropped(j) \/ Recovered(j)

VerdictKept(j) ==
  row[j] \in Verdicts => row'[j] = row[j] \/ (row[j] = "failed" /\ row'[j] = owed[j])

\* Every move of a job keeps what is known of its row, and its verdict.
LEMMA MovesKeep ==
  ASSUME NEW j \in Jobs, Follows(j), RowFollows(j), Moves(j),
         task[j] \in TaskStates, owed[j] \in {"nothing"} \cup Statuses,
         row[j] \in {"absent"} \cup Statuses
  PROVE  /\ Follows(j)' /\ RowFollows(j)'
         /\ Recorded(j) \/ Unrecorded(j) => Recorded(j)' \/ Unrecorded(j)'
         /\ VerdictKept(j)
<1> USE DEF Follows, RowFollows, Recorded, Unrecorded, VerdictKept, SameRow,
            Open, Verdicts, Live, Retained
<1>1. CASE Idles(j)
  BY <1>1 DEF Idles
<1>2. CASE Inserted(j)
  BY <1>2 DEF Inserted
<1>3. CASE Spawned(j)
  BY <1>3 DEF Spawned
<1>4. CASE Left(j)
  BY <1>4 DEF Left
<1>5. CASE Updated(j)
  BY <1>5 DEF Updated
<1>6. CASE Written(j)
  <2>1. owed[j] \in {"queued", "running"} \cup Verdicts
    BY <1>6 DEF Written, Statuses
  <2>2. CASE owed[j] = "queued"
    BY <1>6, <2>2 DEF Written, TaskStates
  <2>3. CASE owed[j] = "running"
    BY <1>6, <2>3 DEF Written, TaskStates
  <2>4. CASE owed[j] \in Verdicts
    BY <1>6, <2>4 DEF Written, TaskStates
  <2> QED
    BY <2>1, <2>2, <2>3, <2>4
<1>7. CASE Dropped(j)
  BY <1>7 DEF Dropped, TaskStates
<1>8. CASE Recovered(j)
  BY <1>8 DEF Recovered, Silent
<1> QED
  BY <1>1, <1>2, <1>3, <1>4, <1>5, <1>6, <1>7, <1>8 DEF Moves

RecordTypes ==
  /\ task \in [Jobs -> TaskStates] /\ home \in [Jobs -> Replicas \cup {Nowhere}]
  /\ owed \in [Jobs -> {"nothing"} \cup Statuses]
  /\ row \in [Jobs -> {"absent"} \cup Statuses]
  /\ unwritten \subseteq Jobs

\* What any step does to the records.
RecordStep == RecordTypes' /\ \A j \in Jobs : Moves(j)

LEMMA RecordsKeep ==
  ASSUME IInv, RecordStep
  PROVE  /\ RecordsFollow' /\ RowFollowsTask'
         /\ \A m : OnRecord(m) => OnRecord(m)'
         /\ \A j \in Jobs : VerdictKept(j)
<1>1. ASSUME NEW j \in Jobs
      PROVE  /\ Follows(j)' /\ RowFollows(j)'
             /\ Recorded(j) \/ Unrecorded(j) => Recorded(j)' \/ Unrecorded(j)'
             /\ VerdictKept(j)
  <2>1. /\ Follows(j) /\ RowFollows(j) /\ Moves(j)
        /\ task[j] \in TaskStates /\ owed[j] \in {"nothing"} \cup Statuses
        /\ row[j] \in {"absent"} \cup Statuses
    BY DEF IInv, TypeOK, RecordsFollow, RowFollowsTask, RecordStep
  <2> QED
    BY <2>1, MovesKeep
<1>2. RecordsFollow' /\ RowFollowsTask' /\ \A j \in Jobs : VerdictKept(j)
  BY <1>1 DEF RecordsFollow, RowFollowsTask
<1>3. \A m : OnRecord(m) => OnRecord(m)'
  BY <1>1 DEF OnRecord, JobsOf
<1> QED
  BY <1>2, <1>3

LEMMA QuietRecords ==
  ASSUME TypeOK, UNCHANGED <<task, home, owed, row, unwritten>>
  PROVE  RecordStep
  BY DEF TypeOK, RecordStep, RecordTypes, Moves, Idles, SameRow

LEMMA InsertRecords ==
  ASSUME TypeOK, NEW r \in Replicas, NEW j \in Jobs, task[j] = "none", Insert(r, j),
         UNCHANGED <<row, unwritten>>
  PROVE  /\ RecordStep
         /\ task'[j] = "inserted" /\ home'[j] = r
         /\ \A k \in Jobs \ {j} : task'[k] = task[k] /\ home'[k] = home[k]
<1>1. "inserted" \in TaskStates /\ "queued" \in Statuses
  BY DEF TaskStates, Retained, Live, Statuses, Open
<1>2. /\ task'[j] = "inserted" /\ home'[j] = r /\ owed'[j] = "queued"
      /\ \A k \in Jobs \ {j} : task'[k] = task[k] /\ home'[k] = home[k] /\ owed'[k] = owed[k]
      /\ RecordTypes'
  BY <1>1 DEF TypeOK, Insert, RecordTypes
<1> QED
  BY <1>2 DEF RecordStep, Moves, Idles, Inserted, SameRow

LEMMA SpawnRecords ==
  ASSUME TypeOK, NEW j \in Jobs, task[j] = "inserted", owed[j] = "nothing",
         task' = [task EXCEPT ![j] = "queued"], UNCHANGED <<home, owed, row, unwritten>>
  PROVE  /\ RecordStep
         /\ task'[j] = "queued" /\ \A k \in Jobs \ {j} : task'[k] = task[k]
<1>1. "queued" \in TaskStates
  BY DEF TaskStates, Retained, Live
<1>2. /\ task'[j] = "queued" /\ \A k \in Jobs \ {j} : task'[k] = task[k]
      /\ RecordTypes'
  BY <1>1 DEF TypeOK, RecordTypes
<1> QED
  BY <1>2 DEF RecordStep, Moves, Idles, Spawned, SameRow

LEMMA LeaveRecords ==
  ASSUME TypeOK, NEW m \in Called, CallerLeaves(m)
  PROVE  RecordStep /\ \A k \in Jobs : task[k] = "none" => task'[k] = "none"
<1> DEFINE j == <<m, 0>>
<1>1. j \in Jobs /\ j[2] = 0 /\ "orphaned" \in TaskStates
  BY DEF Jobs, TaskStates, Retained
<1> HIDE DEF j
<1>2. /\ task[j] = "inserted" /\ task' = [task EXCEPT ![j] = "orphaned"]
      /\ owed' = [owed EXCEPT ![j] = "nothing"]
      /\ row' = row \/ (owed[j] # "nothing" /\ row' = [row EXCEPT ![j] = owed[j]])
      /\ UNCHANGED <<home, unwritten>>
  BY DEF CallerLeaves, j
<1>3. /\ task'[j] = "orphaned" /\ owed'[j] = "nothing"
      /\ row'[j] = row[j] \/ (row'[j] = owed[j] /\ owed[j] # "nothing")
      /\ \A k \in Jobs \ {j} : task'[k] = task[k] /\ owed'[k] = owed[k] /\ row'[k] = row[k]
      /\ task' \in [Jobs -> TaskStates] /\ owed' \in [Jobs -> {"nothing"} \cup Statuses]
      /\ row' \in [Jobs -> {"absent"} \cup Statuses]
  BY <1>1, <1>2 DEF TypeOK
<1>4. RecordTypes' /\ (\A k \in Jobs : k \in unwritten' <=> k \in unwritten)
  BY <1>2, <1>3 DEF RecordTypes, TypeOK
<1> QED
  BY <1>1, <1>2, <1>3, <1>4 DEF RecordStep, Moves, Idles, Left, SameRow

LEMMA UpdateRecords ==
  ASSUME TypeOK, NEW j \in Jobs, NEW status \in {"running"} \cup Verdicts, Update(j, status),
         \/ task[j] = "queued" /\ status = "running"
         \/ task[j] \in Open /\ status \in Verdicts
  PROVE  /\ RecordStep
         /\ task'[j] = status /\ \A k \in Jobs \ {j} : task'[k] = task[k]
<1>1. status \in TaskStates /\ status \in Statuses
  BY DEF TaskStates, Retained, Live, Statuses, Open, Verdicts
<1>2. /\ task'[j] = status /\ owed'[j] = status /\ owed[j] = "nothing"
      /\ \A k \in Jobs \ {j} : task'[k] = task[k] /\ owed'[k] = owed[k]
      /\ RecordTypes' /\ UNCHANGED <<row, unwritten>>
  BY <1>1 DEF TypeOK, Update, RecordTypes
<1> QED
  BY <1>2 DEF RecordStep, Moves, Idles, Updated, SameRow

LEMMA WriteRecords ==
  ASSUME TypeOK, NEW j \in Jobs, Write(j)
  PROVE  RecordStep
<1>1. /\ owed[j] # "nothing" /\ owed' = [owed EXCEPT ![j] = "nothing"]
      /\ UNCHANGED <<task, home>>
      /\ \/ row' = [row EXCEPT ![j] = owed[j]] /\ unwritten' = unwritten \ {j}
         \/ row' = row /\ unwritten' = unwritten \cup {j}
  BY DEF Write, Upserted
<1>2. /\ owed'[j] = "nothing" /\ owed' \in [Jobs -> {"nothing"} \cup Statuses]
      /\ \A k \in Jobs \ {j} : owed'[k] = owed[k]
  BY <1>1 DEF TypeOK
<1>3. /\ \/ row'[j] = owed[j] /\ j \notin unwritten'
         \/ row'[j] = row[j] /\ j \in unwritten'
      /\ row' \in [Jobs -> {"absent"} \cup Statuses] /\ unwritten' \subseteq Jobs
      /\ \A k \in Jobs \ {j} : row'[k] = row[k] /\ (k \in unwritten' <=> k \in unwritten)
  BY <1>1 DEF TypeOK
<1>4. RecordTypes'
  BY <1>1, <1>2, <1>3 DEF RecordTypes, TypeOK
<1> QED
  BY <1>1, <1>2, <1>3, <1>4 DEF RecordStep, Moves, Idles, Written, SameRow

LEMMA ForgetRecords ==
  ASSUME TypeOK, NEW j \in Jobs, Forget(j)
  PROVE  /\ RecordStep
         /\ task'[j] = "forgotten" /\ \A k \in Jobs \ {j} : task'[k] = task[k]
<1>1. /\ task'[j] = "forgotten" /\ task[j] \in Verdicts
      /\ \A k \in Jobs \ {j} : task'[k] = task[k]
      /\ UNCHANGED <<home, owed, row, unwritten>> /\ RecordTypes'
  BY DEF TypeOK, Forget, RecordTypes, TaskStates
<1> QED
  BY <1>1 DEF RecordStep, Moves, Idles, Dropped, SameRow

LEMMA CrashRecords ==
  ASSUME TypeOK, NEW r \in Replicas, Crash(r)
  PROVE  /\ RecordStep
         /\ \A j \in Jobs :
              /\ task[j] = "none" => task'[j] = "none"
              /\ home[j] # r => task'[j] = task[j]
<1>1. UNCHANGED <<home, row, unwritten>>
  BY DEF Crash
<1>2. \A j \in Jobs :
        /\ task'[j] = IF home[j] # r \/ task[j] \notin Retained THEN task[j]
                      ELSE IF task[j] \in Verdicts THEN "forgotten" ELSE "dead"
        /\ owed'[j] = IF home[j] = r THEN "nothing" ELSE owed[j]
  BY DEF Crash
<1>3. task' \in [Jobs -> TaskStates] /\ owed' \in [Jobs -> {"nothing"} \cup Statuses]
  <2>1. /\ task \in [Jobs -> TaskStates] /\ owed \in [Jobs -> {"nothing"} \cup Statuses]
        /\ "forgotten" \in TaskStates /\ "dead" \in TaskStates
    BY DEF TypeOK, TaskStates
  <2>2. /\ task' = [j \in Jobs |-> IF home[j] # r \/ task[j] \notin Retained THEN task[j]
                       ELSE IF task[j] \in Verdicts THEN "forgotten" ELSE "dead"]
        /\ owed' = [j \in Jobs |-> IF home[j] = r THEN "nothing" ELSE owed[j]]
    BY DEF Crash
  <2> QED
    BY <2>1, <2>2
<1>4. RecordTypes'
  BY <1>1, <1>3 DEF RecordTypes, TypeOK
<1>5. ASSUME NEW j \in Jobs PROVE Moves(j)
  <2>1. CASE home[j] # r
    BY <1>1, <1>2, <2>1 DEF Moves, Idles, SameRow
  <2>2. CASE home[j] = r
    BY <1>1, <1>2, <2>2 DEF Moves, Dropped, SameRow
  <2> QED
    BY <2>1, <2>2
<1>6. "none" \notin Retained
  BY DEF Retained, Live, Verdicts
<1> QED
  BY <1>2, <1>4, <1>5, <1>6 DEF RecordStep

LEMMA BootRecords ==
  ASSUME TypeOK, NEW r \in Replicas, Boot(r)
  PROVE  RecordStep
<1>1. UNCHANGED <<task, home, owed>>
  BY DEF Boot
<1>2. CASE row' = FailInterrupted /\ UNCHANGED unwritten
  <2>1. \A j \in Jobs : row'[j] = IF row[j] \in Open THEN "failed" ELSE row[j]
    BY <1>2 DEF FailInterrupted
  <2>2. row' \in [Jobs -> {"absent"} \cup Statuses]
    BY <1>2 DEF FailInterrupted, TypeOK, Statuses, Verdicts
  <2>3. RecordTypes'
    BY <1>1, <1>2, <2>2 DEF RecordTypes, TypeOK
  <2> QED
    BY <1>1, <1>2, <2>1, <2>3 DEF RecordStep, Moves, Idles, Recovered, SameRow
<1>3. CASE /\ unwritten' = unwritten \cup {j \in Jobs : row[j] \in Open /\ Silent(j)}
           /\ UNCHANGED row
  <2>1. RecordTypes'
    BY <1>1, <1>3 DEF RecordTypes, TypeOK
  <2> QED
    BY <1>1, <1>3, <2>1 DEF RecordStep, Moves, Idles, Recovered, SameRow
<1> QED
  BY <1>2, <1>3 DEF Boot

-----------------------------------------------------------------------------
(***************************************************************************)
(* Helpers                                                                 *)
(***************************************************************************)
LEMMA HandType ==
  ASSUME TypeOK, NEW r \in Replicas
  PROVE  /\ hand[r].pc \in {"idle", "persisting", "acking"}
         /\ hand[r].pc = "idle" <=> hand[r] = Idle
         /\ hand[r].pc # "idle" =>
              hand[r].delivery \in Deliveries /\ hand[r].answer \in {"ack", "term", "nak"}
<1>1. hand[r] \in Hands
  BY DEF TypeOK
<1> QED
  BY <1>1 DEF Hands, Idle

LEMMA DeliveryPairs ==
  /\ \A d \in Deliveries : d[1] \in Payloads /\ d[2] \in 1..MaxDeliver /\ d = <<d[1], d[2]>>
  /\ \A d \in Deliveries : d[1] \in Messages => d \in Jobs
  /\ \A d \in Deliveries : d \in Jobs => d[1] \in Messages
  /\ \A m \in Messages, n \in 1..MaxDeliver : <<m, n>> \in Jobs
  /\ \A m \in Called : <<m, 0>> \in Jobs /\ <<m, 0>> \notin Deliveries
  /\ \A j \in Jobs : j \in Deliveries \/ j[2] = 0
  BY IntakeAssumption DEF Deliveries, Jobs, Payloads

\* Deliveries stay fresh when inboxes only shrink and no job of one is made.
LEMMA FreshStays ==
  ASSUME TypeOK, DeliveriesFresh,
         \A m \in Payloads : message'[m].count = message[m].count,
         \A r \in Replicas : inbox'[r] \subseteq inbox[r],
         \A j \in Jobs : j \in Deliveries /\ task[j] = "none" => task'[j] = "none"
  PROVE  DeliveriesFresh'
<1>1. ASSUME NEW m \in Payloads, NEW n \in 1..MaxDeliver, n > message'[m].count
      PROVE  /\ \A r \in Replicas : <<m, n>> \notin inbox'[r]
             /\ m \in Messages => task'[<<m, n>>] = "none"
  <2>1. <<m, n>> \in Deliveries /\ (m \in Messages => <<m, n>> \in Jobs)
    BY DeliveryPairs DEF Deliveries
  <2> QED
    BY <1>1, <2>1 DEF DeliveriesFresh
<1>2. ASSUME NEW r \in Replicas, NEW d \in inbox'[r]
      PROVE  /\ d \in Jobs => task'[d] = "none"
             /\ \A q \in Replicas : d \in inbox'[q] => q = r
  <2>1. d \in inbox[r] /\ d \in Deliveries
    BY DEF TypeOK
  <2> QED
    BY <2>1 DEF DeliveriesFresh
<1> QED
  BY <1>1, <1>2 DEF DeliveriesFresh

\* The job of a delivery stays as it is, or goes on once it was spawned.
Onward(j) ==
  \/ task'[j] = task[j] /\ home'[j] = home[j]
  \/ task[j] \notin {"none", "inserted"} /\ task'[j] \notin {"none", "inserted", "orphaned"}

\* A step on the records alone: what the intake side asks of it.
LEMMA RecordsOnly ==
  ASSUME IInv, RecordStep, UNCHANGED consumer,
         up' = up \/ up' \in [Replicas -> BOOLEAN], faults' = faults \/ Fault,
         \A j \in Jobs : j \in Deliveries => Onward(j)
  PROVE  IInv'
<1>1. RecordsFollow' /\ RowFollowsTask' /\ \A m : OnRecord(m) => OnRecord(m)'
  BY RecordsKeep
<1>2. UNCHANGED <<message, inbox, hand>>
  BY DEF consumer
<1>3. faults' \in 0..MaxFaults
  BY IntakeAssumption DEF IInv, TypeOK, Fault
<1>4. TypeOK'
  BY <1>2, <1>3 DEF IInv, TypeOK, RecordStep, RecordTypes
<1>5. CountsBounded'
  BY <1>2 DEF IInv, CountsBounded
<1>6. DeliveriesFresh'
  BY <1>2, FreshStays DEF IInv, Onward
<1>7. HandsHoldJobs'
  <2>1. \A r \in Replicas : hand[r].pc = "persisting" => hand[r].delivery \in Deliveries
    BY HandType DEF IInv
  <2> QED
    BY <1>2, <2>1 DEF IInv, HandsHoldJobs, Onward
<1>8. AnswersFounded' /\ AckedIsOnRecord'
  BY <1>1, <1>2 DEF IInv, AnswersFounded, AckedIsOnRecord
<1> QED
  BY <1>1, <1>4, <1>5, <1>6, <1>7, <1>8 DEF IInv

-----------------------------------------------------------------------------
(***************************************************************************)
(* Steps                                                                   *)
(***************************************************************************)
LEMMA InitIInv == Init => IInv
<1> SUFFICES ASSUME Init PROVE IInv
  OBVIOUS
<1> USE IntakeAssumption DEF Init
<1>1. TypeOK
  <2>1. \A m \in Payloads : message[m] \in [state : States, count : 0..MaxDeliver]
    BY DEF States
  <2>2. Idle \in Hands
    BY DEF Hands
  <2> QED
    BY <2>1, <2>2 DEF TypeOK, TaskStates
<1>2. CountsBounded /\ AckedIsOnRecord
  BY DEF CountsBounded, AckedIsOnRecord
<1>3. DeliveriesFresh
  BY DeliveryPairs DEF DeliveriesFresh
<1>4. HandsHoldJobs /\ AnswersFounded
  BY DEF HandsHoldJobs, AnswersFounded, Idle
<1>5. RecordsFollow /\ RowFollowsTask
  BY DEF RecordsFollow, RowFollowsTask, Follows, RowFollows, Open, Verdicts
<1> QED
  BY <1>1, <1>2, <1>3, <1>4, <1>5 DEF IInv

LEMMA CallIInv ==
  ASSUME IInv, NEW r \in Replicas, NEW m \in Called, Call(r, m)
  PROVE  IInv'
<1> DEFINE j == <<m, 0>>
<1>1. j \in Jobs /\ j \notin Deliveries
  BY DeliveryPairs
<1>2. task[j] = "none" /\ Insert(r, j) /\ UNCHANGED <<row, unwritten, up, faults>>
      /\ UNCHANGED consumer
  BY DEF Call, process
<1> HIDE DEF j
<1>3. /\ RecordStep
      /\ \A k \in Jobs \ {j} : task'[k] = task[k] /\ home'[k] = home[k]
  BY <1>1, <1>2, InsertRecords DEF IInv
<1> QED
  BY <1>1, <1>2, <1>3, RecordsOnly DEF Onward

LEMMA CallEnqueuedIInv ==
  ASSUME IInv, NEW m \in Called, CallEnqueued(m)
  PROVE  IInv'
<1> DEFINE j == <<m, 0>>
<1>1. j \in Jobs /\ j \notin Deliveries
  BY DeliveryPairs
<1>2. /\ task[j] = "inserted" /\ owed[j] = "nothing" /\ task' = [task EXCEPT ![j] = "queued"]
      /\ UNCHANGED <<home, owed, row, unwritten, up, faults>> /\ UNCHANGED consumer
  BY DEF CallEnqueued, process
<1> HIDE DEF j
<1>3. RecordStep /\ \A k \in Jobs \ {j} : task'[k] = task[k]
  BY <1>1, <1>2, SpawnRecords DEF IInv
<1> QED
  BY <1>1, <1>2, <1>3, RecordsOnly DEF Onward

LEMMA CallerLeavesIInv ==
  ASSUME IInv, NEW m \in Called, CallerLeaves(m)
  PROVE  IInv'
<1>1. RecordStep /\ \A k \in Jobs : task[k] = "none" => task'[k] = "none"
  BY LeaveRecords DEF IInv
<1>2. <<m, 0>> \in Jobs /\ <<m, 0>> \notin Deliveries
  BY DeliveryPairs
<1>3. \A k \in Jobs : k \in Deliveries => task'[k] = task[k] /\ home'[k] = home[k]
  BY <1>2 DEF CallerLeaves, IInv, TypeOK
<1>4. UNCHANGED consumer /\ UNCHANGED up /\ Fault
  BY DEF CallerLeaves
<1> QED
  BY <1>1, <1>3, <1>4, RecordsOnly DEF Onward

LEMMA UpdateIInv ==
  ASSUME IInv, NEW j \in Jobs, Begin(j) \/ End(j)
  PROVE  IInv'
<1>1. PICK status \in {"running"} \cup Verdicts :
        /\ Update(j, status)
        /\ \/ task[j] = "queued" /\ status = "running"
           \/ task[j] \in Open /\ status \in Verdicts
  BY DEF Begin, End, Verdicts
<1>2. RecordStep /\ task'[j] = status /\ \A k \in Jobs \ {j} : task'[k] = task[k]
  BY <1>1, UpdateRecords DEF IInv
<1>3. UNCHANGED <<home, up, faults>> /\ UNCHANGED consumer /\ task[j] \in Open
  BY <1>1 DEF Update, process, Open
<1> QED
  BY <1>2, <1>3, RecordsOnly DEF Onward, Open, Verdicts

LEMMA WriteIInv ==
  ASSUME IInv, NEW j \in Jobs, Write(j)
  PROVE  IInv'
<1>1. RecordStep /\ UNCHANGED <<task, home, up>> /\ UNCHANGED consumer /\ (faults' = faults \/ Fault)
  BY WriteRecords DEF IInv, Write
<1> QED
  BY <1>1, RecordsOnly DEF Onward

LEMMA ForgetIInv ==
  ASSUME IInv, NEW j \in Jobs, Forget(j)
  PROVE  IInv'
<1>1. RecordStep /\ task'[j] = "forgotten" /\ \A k \in Jobs \ {j} : task'[k] = task[k]
  BY ForgetRecords DEF IInv
<1>2. UNCHANGED <<home, up, faults>> /\ UNCHANGED consumer /\ task[j] \in Verdicts
  BY DEF Forget, process
<1> QED
  BY <1>1, <1>2, RecordsOnly DEF Onward, Verdicts

LEMMA BootIInv ==
  ASSUME IInv, NEW r \in Replicas, Boot(r)
  PROVE  IInv'
<1>1. RecordStep /\ UNCHANGED <<task, home>> /\ UNCHANGED consumer /\ (faults' = faults \/ Fault)
  BY BootRecords DEF IInv, Boot
<1>2. up' \in [Replicas -> BOOLEAN]
  BY DEF Boot, IInv, TypeOK
<1> QED
  BY <1>1, <1>2, RecordsOnly DEF Onward

\* A message is published, or comes back.
LEMMA MessageIInv ==
  ASSUME IInv, NEW m \in Payloads, Publish(m) \/ AckWaitExpires(m)
  PROVE  IInv'
<1> USE DEF IInv
<1>1. PICK state \in {"pending", "exhausted"} :
        /\ message' = [message EXCEPT ![m] = [state |-> state, count |-> message[m].count]]
        /\ state = "pending" => message[m].count < MaxDeliver
  <2>1. CASE Publish(m)
    <3>1. message[m].state = "unsent" /\ message[m] \in [state : States, count : 0..MaxDeliver]
      BY <2>1 DEF Publish, TypeOK
    <3>2. [message[m] EXCEPT !.state = "pending"] = [state |-> "pending", count |-> message[m].count]
      BY <3>1
    <3> QED
      BY <2>1, <3>1, <3>2 DEF Publish, CountsBounded
  <2>2. CASE AckWaitExpires(m)
    BY <2>2 DEF AckWaitExpires, Requeued
  <2> QED
    BY <2>1, <2>2
<1>2. UNCHANGED <<inbox, hand, task, home, owed, row, unwritten, up, faults>>
  BY DEF Publish, AckWaitExpires, records, process
<1>3. /\ message \in [Payloads -> [state : States, count : 0..MaxDeliver]]
      /\ message[m].count \in 0..MaxDeliver
  BY DEF TypeOK
<1>4. /\ message' \in [Payloads -> [state : States, count : 0..MaxDeliver]]
      /\ message'[m].state = state
      /\ \A k \in Payloads : message'[k].count = message[k].count
      /\ \A k \in Payloads \ {m} : message'[k] = message[k]
  <2>1. state \in States
    BY DEF States, Settled
  <2>2. [state |-> state, count |-> message[m].count] \in [state : States, count : 0..MaxDeliver]
    BY <1>3, <2>1
  <2> QED
    BY <1>1, <1>3, <2>2
<1>5. TypeOK'
  BY <1>2, <1>4 DEF TypeOK
<1>6. CountsBounded'
  BY <1>1, <1>4 DEF CountsBounded
<1>7. DeliveriesFresh' /\ HandsHoldJobs'
  BY <1>2, <1>4 DEF DeliveriesFresh, HandsHoldJobs
<1>8. RecordsFollow' /\ RowFollowsTask' /\ \A k : OnRecord(k) => OnRecord(k)'
  BY <1>2, QuietRecords, RecordsKeep
<1>9. AnswersFounded' /\ AckedIsOnRecord'
  BY <1>1, <1>2, <1>4, <1>8 DEF AnswersFounded, AckedIsOnRecord
<1> QED
  BY <1>5, <1>6, <1>7, <1>8, <1>9

LEMMA DeliverIInv ==
  ASSUME IInv, NEW r \in Replicas, NEW m \in Payloads, Deliver(r, m)
  PROVE  IInv'
<1> USE DEF IInv
<1> DEFINE n == message[m].count + 1
           d == <<m, n>>
<1>1. /\ message[m].state = "pending"
      /\ message' = [message EXCEPT ![m] = [state |-> "out", count |-> n]]
      /\ inbox' = [inbox EXCEPT ![r] = @ \cup {d}]
      /\ UNCHANGED <<hand, task, home, owed, row, unwritten, up, faults>>
  BY DEF Deliver, records, process, TypeOK
<1>2. /\ message \in [Payloads -> [state : States, count : 0..MaxDeliver]]
      /\ inbox \in [Replicas -> SUBSET Deliveries]
      /\ message[m].count \in 0..MaxDeliver /\ message[m].count < MaxDeliver
  BY <1>1 DEF TypeOK, CountsBounded
<1>3. n \in 1..MaxDeliver /\ n \in 0..MaxDeliver /\ d \in Deliveries /\ n > message[m].count
  BY <1>2, IntakeAssumption DEF Deliveries
<1>4. /\ message' \in [Payloads -> [state : States, count : 0..MaxDeliver]]
      /\ message'[m].state = "out" /\ message'[m].count = n
      /\ \A k \in Payloads \ {m} : message'[k] = message[k]
  <2> HIDE DEF n
  <2>1. [state |-> "out", count |-> n] \in [state : States, count : 0..MaxDeliver]
    BY <1>3 DEF States
  <2> QED
    BY <1>1, <1>2, <2>1
<1>5. /\ inbox' \in [Replicas -> SUBSET Deliveries]
      /\ inbox'[r] = inbox[r] \cup {d}
      /\ \A q \in Replicas \ {r} : inbox'[q] = inbox[q]
  <2> HIDE DEF d
  <2> QED
    BY <1>1, <1>2, <1>3
<1>6. TypeOK'
  BY <1>1, <1>4, <1>5 DEF TypeOK
<1>7. CountsBounded'
  BY <1>4 DEF CountsBounded
<1>8. DeliveriesFresh'
  <2>1. /\ \A q \in Replicas : d \notin inbox[q]
        /\ m \in Messages => task[d] = "none"
    BY <1>3 DEF DeliveriesFresh
  <2>2. ASSUME NEW k \in Payloads, NEW i \in 1..MaxDeliver, i > message'[k].count
        PROVE  /\ \A q \in Replicas : <<k, i>> \notin inbox'[q]
               /\ k \in Messages => task[<<k, i>>] = "none"
    <3>1. i > message[k].count /\ <<k, i>> # d
      BY <1>2, <1>4, <2>2, IntakeAssumption
    <3> QED
      BY <1>5, <3>1 DEF DeliveriesFresh
  <2>3. d \in Jobs => task[d] = "none"
    BY <1>3, <2>1, DeliveryPairs
  <2> HIDE DEF d
  <2>4. ASSUME NEW q \in Replicas, NEW e \in inbox'[q]
        PROVE  /\ e \in Jobs => task[e] = "none"
               /\ \A p \in Replicas : e \in inbox'[p] => p = q
    BY <1>5, <2>1, <2>3 DEF DeliveriesFresh
  <2> QED
    BY <1>1, <2>2, <2>4 DEF DeliveriesFresh
<1>9. HandsHoldJobs'
  BY <1>1 DEF HandsHoldJobs
<1>10. RecordsFollow' /\ RowFollowsTask' /\ \A k : OnRecord(k) => OnRecord(k)'
  BY <1>1, QuietRecords, RecordsKeep
<1>11. AnswersFounded' /\ AckedIsOnRecord'
  BY <1>1, <1>4, <1>10 DEF AnswersFounded, AckedIsOnRecord
<1> QED
  BY <1>6, <1>7, <1>8, <1>9, <1>10, <1>11

LEMMA AckIInv ==
  ASSUME IInv, NEW r \in Replicas, Ack(r)
  PROVE  IInv'
<1> USE DEF IInv
<1> DEFINE m == hand[r].delivery[1]
<1>1. /\ hand[r].pc = "acking" /\ hand[r].delivery \in Deliveries /\ m \in Payloads
      /\ hand[r].answer \in {"ack", "term", "nak"}
      /\ hand[r].answer = "ack" => m \in Messages /\ OnRecord(m)
  BY HandType, DeliveryPairs DEF Ack, AnswersFounded
<1>2. /\ hand' = [hand EXCEPT ![r] = Idle]
      /\ UNCHANGED <<inbox, task, home, owed, row, unwritten, up, faults>>
  BY DEF Ack, records, process
<1>3. /\ hand' \in [Replicas -> Hands] /\ hand'[r].pc = "idle"
      /\ \A q \in Replicas \ {r} : hand'[q] = hand[q]
  BY <1>2 DEF TypeOK, Hands, Idle
<1>4. /\ message \in [Payloads -> [state : States, count : 0..MaxDeliver]]
      /\ message[m] \in [state : States, count : 0..MaxDeliver]
  BY <1>1 DEF TypeOK
<1>5. PICK to \in [state : States, count : {message[m].count}] :
        /\ message' = [message EXCEPT ![m] = to]
        /\ to.state \in {"unsent", "pending"} => message[m].count < MaxDeliver
        /\ to.state = "acked" => message[m].state = "acked" \/ (m \in Messages /\ OnRecord(m))
  <2> HIDE DEF m
  <2>1. CASE UNCHANGED message
    <3>1. message' = [message EXCEPT ![m] = message[m]]
      BY <1>4, <2>1
    <3> QED
      BY <1>1, <1>4, <3>1 DEF CountsBounded
  <2>2. CASE message' = [message EXCEPT ![m] = Answered(m, hand[r].answer)]
    <3> DEFINE to == Answered(m, hand[r].answer)
    <3>1. CASE message[m].state \notin {"pending", "out"}
      <4>1. to = message[m]
        BY <3>1 DEF Answered
      <4> QED
        BY <1>1, <1>4, <2>2, <4>1 DEF CountsBounded
    <3>2. CASE message[m].state \in {"pending", "out"} /\ hand[r].answer = "ack"
      <4>1. to = [message[m] EXCEPT !.state = "acked"] /\ m \in Messages /\ OnRecord(m)
        BY <1>1, <3>2 DEF Answered
      <4> QED
        BY <1>1, <1>4, <2>2, <4>1 DEF States, Settled
    <3>3. CASE message[m].state \in {"pending", "out"} /\ hand[r].answer = "term"
      <4>1. to = [message[m] EXCEPT !.state = "terminated"]
        BY <3>3 DEF Answered
      <4> QED
        BY <1>1, <1>4, <2>2, <4>1 DEF States, Settled
    <3>4. CASE message[m].state \in {"pending", "out"} /\ hand[r].answer = "nak"
      <4>1. to = [state |-> IF message[m].count < MaxDeliver THEN "pending" ELSE "exhausted",
                  count |-> message[m].count]
        BY <3>4 DEF Answered, Requeued
      <4>2. to \in [state : States, count : {message[m].count}]
        BY <4>1 DEF States, Settled
      <4>3. /\ to.state \in {"unsent", "pending"} => message[m].count < MaxDeliver
            /\ to.state # "acked"
        BY <4>1
      <4> HIDE DEF to
      <4> QED
        BY <2>2, <4>2, <4>3 DEF to
    <3> QED
      BY <1>1, <3>1, <3>2, <3>3, <3>4
  <2> QED
    BY <2>1, <2>2 DEF Ack, m
<1> HIDE DEF m
<1>6. /\ message' \in [Payloads -> [state : States, count : 0..MaxDeliver]]
      /\ message'[m] = to
      /\ \A k \in Payloads : message'[k].count = message[k].count
      /\ \A k \in Payloads \ {m} : message'[k] = message[k]
  BY <1>1, <1>4, <1>5
<1>7. TypeOK'
  BY <1>2, <1>3, <1>6 DEF TypeOK
<1>8. CountsBounded'
  BY <1>5, <1>6 DEF CountsBounded
<1>9. DeliveriesFresh'
  BY <1>2, <1>6 DEF DeliveriesFresh
<1>10. HandsHoldJobs'
  BY <1>1, <1>2, <1>3 DEF HandsHoldJobs
<1>11. RecordsFollow' /\ RowFollowsTask' /\ \A k : OnRecord(k) => OnRecord(k)'
  BY <1>2, QuietRecords, RecordsKeep
<1>12. AnswersFounded' /\ AckedIsOnRecord'
  BY <1>2, <1>3, <1>5, <1>6, <1>11 DEF AnswersFounded, AckedIsOnRecord
<1> QED
  BY <1>7, <1>8, <1>9, <1>10, <1>11, <1>12

\* The loop takes a new delivery in hand: what was not in hand stays as it is.
LEMMA HoldType ==
  ASSUME TypeOK, NEW r \in Replicas, NEW pc \in {"persisting", "acking"},
         NEW d \in Deliveries, NEW answer \in {"ack", "term", "nak"}, Hold(r, pc, d, answer)
  PROVE  /\ hand' \in [Replicas -> Hands]
         /\ hand'[r].pc = pc /\ hand'[r].delivery = d /\ hand'[r].answer = answer
         /\ \A q \in Replicas \ {r} : hand'[q] = hand[q]
<1>1. [pc |-> pc, delivery |-> d, answer |-> answer] \in Hands
  BY DEF Hands
<1> QED
  BY <1>1 DEF TypeOK, Hold

LEMMA SubmitIInv ==
  ASSUME IInv, NEW r \in Replicas, NEW d \in inbox[r], Submit(r, d)
  PROVE  IInv'
<1> USE DEF IInv
<1>1. /\ hand[r] = Idle /\ hand[r].pc = "idle" /\ d \in Deliveries
      /\ inbox \in [Replicas -> SUBSET Deliveries]
      /\ inbox' = [inbox EXCEPT ![r] = @ \ {d}]
      /\ UNCHANGED <<message, row, unwritten, up, faults>>
  BY DEF Submit, TypeOK, process, Idle
<1>2. /\ inbox' \in [Replicas -> SUBSET Deliveries]
      /\ \A q \in Replicas : inbox'[q] \subseteq inbox[q]
      /\ \A q \in Replicas : d \notin inbox'[q]
  <2>1. /\ inbox'[r] = inbox[r] \ {d}
        /\ \A q \in Replicas \ {r} : inbox'[q] = inbox[q] /\ d \notin inbox[q]
    BY <1>1 DEF DeliveriesFresh
  <2> QED
    BY <1>1, <2>1
<1>3. CountsBounded'
  BY <1>1 DEF CountsBounded
<1>4. ASSUME NEW answer \in Answers(r, d[1]), Hold(r, "acking", d, answer),
             UNCHANGED <<task, home, owed>>
      PROVE  IInv'
  <2>1. answer \in {"ack", "term", "nak"}
    BY DEF Answers
  <2>2. /\ hand' \in [Replicas -> Hands]
        /\ hand'[r].pc = "acking" /\ hand'[r].delivery = d /\ hand'[r].answer = answer
        /\ \A q \in Replicas \ {r} : hand'[q] = hand[q]
    BY <1>1, <1>4, <2>1, HoldType
  <2>3. TypeOK'
    BY <1>1, <1>2, <1>4, <2>2 DEF TypeOK
  <2>4. RecordsFollow' /\ RowFollowsTask' /\ \A k : OnRecord(k) => OnRecord(k)'
    BY <1>1, <1>4, QuietRecords, RecordsKeep
  <2>5. DeliveriesFresh'
    BY <1>1, <1>2, <1>4, FreshStays
  <2>6. HandsHoldJobs'
    BY <1>1, <1>4, <2>2 DEF HandsHoldJobs
  <2>7. answer = "ack" => d[1] \in Messages /\ OnRecord(d[1])
    <3> SUFFICES ASSUME answer = "ack" PROVE d[1] \in Messages /\ OnRecord(d[1])
      OBVIOUS
    <3>1. PICK j \in JobsOf(d[1]) : d[1] \in Identified /\ home[j] = r /\ task[j] \in Retained
      BY DEF Answers, Claimants
    <3>2. j \in Jobs /\ j[1] = d[1] /\ Follows(j) /\ d[1] \in Messages
      BY <3>1, IntakeAssumption DEF JobsOf, RecordsFollow
    <3>3. ASSUME task[j] \in {"queued", "running"} \cup Verdicts PROVE Recorded(j)
      BY <3>2, <3>3 DEF Follows
    <3>4. CASE task[j] \in {"inserted", "orphaned"} /\ j[2] = 0
      BY <3>1, <3>2, <3>4 DEF OnRecord, Unrecorded
    <3>5. task[j] \in {"inserted", "orphaned"} => j[2] = 0
      BY <1>1, <3>1, <3>2, DeliveryPairs DEF HandsHoldJobs
    <3> QED
      BY <3>1, <3>2, <3>3, <3>4, <3>5 DEF Retained, Live, OnRecord
  <2>8. AnswersFounded' /\ AckedIsOnRecord'
    BY <1>1, <2>2, <2>4, <2>7 DEF AnswersFounded, AckedIsOnRecord
  <2> QED
    BY <1>3, <2>3, <2>4, <2>5, <2>6, <2>8
<1>5. ASSUME d[1] \in Messages, Hold(r, "persisting", d, "ack"), Insert(r, d)
      PROVE  IInv'
  <2>1. d \in Jobs /\ task[d] = "none"
    BY <1>1, <1>5, DeliveryPairs DEF DeliveriesFresh
  <2>2. /\ hand' \in [Replicas -> Hands]
        /\ hand'[r].pc = "persisting" /\ hand'[r].delivery = d /\ hand'[r].answer = "ack"
        /\ \A q \in Replicas \ {r} : hand'[q] = hand[q]
    BY <1>1, <1>5, HoldType
  <2>3. /\ RecordStep
        /\ task'[d] = "inserted" /\ home'[d] = r
        /\ \A j \in Jobs \ {d} : task'[j] = task[j] /\ home'[j] = home[j]
    BY <1>1, <1>5, <2>1, InsertRecords
  <2>4. RecordsFollow' /\ RowFollowsTask' /\ \A k : OnRecord(k) => OnRecord(k)'
    BY <2>3, RecordsKeep
  <2>5. TypeOK'
    BY <1>1, <1>2, <2>2, <2>3 DEF TypeOK, RecordStep, RecordTypes
  <2>6. DeliveriesFresh'
    <3>1. ASSUME NEW m \in Payloads, NEW n \in 1..MaxDeliver, n > message'[m].count
          PROVE  /\ \A q \in Replicas : <<m, n>> \notin inbox'[q]
                 /\ m \in Messages => task'[<<m, n>>] = "none"
      <4>1. <<m, n>> # d
        BY <1>1, <3>1 DEF DeliveriesFresh
      <4> QED
        BY <1>1, <1>2, <2>3, <3>1, <4>1, DeliveryPairs DEF DeliveriesFresh
    <3>2. ASSUME NEW q \in Replicas, NEW e \in inbox'[q]
          PROVE  /\ e \in Jobs => task'[e] = "none"
                 /\ \A p \in Replicas : e \in inbox'[p] => p = q
      BY <1>2, <2>3 DEF DeliveriesFresh
    <3> QED
      BY <3>1, <3>2 DEF DeliveriesFresh
  <2>7. HandsHoldJobs'
    <3>1. \A q \in Replicas \ {r} : hand'[q].pc = "persisting" => hand'[q].delivery # d
      BY <2>1, <2>2 DEF HandsHoldJobs
    <3>2. \A j \in Jobs : j \in Deliveries /\ task[j] = "inserted" => home[j] \in Replicas \ {r}
      BY <1>1 DEF HandsHoldJobs
    <3> QED
      BY <2>1, <2>2, <2>3, <3>1, <3>2 DEF HandsHoldJobs
  <2>8. AnswersFounded' /\ AckedIsOnRecord'
    BY <1>1, <2>2, <2>4 DEF AnswersFounded, AckedIsOnRecord
  <2> QED
    BY <1>3, <2>4, <2>5, <2>6, <2>7, <2>8
<1> QED
  BY <1>4, <1>5 DEF Submit

LEMMA EnqueuedIInv ==
  ASSUME IInv, NEW r \in Replicas, Enqueued(r)
  PROVE  IInv'
<1> USE DEF IInv
<1>1. PICK d \in Deliveries :
        /\ d = hand[r].delivery /\ d \in Jobs /\ task[d] = "inserted" /\ home[d] = r
        /\ owed[d] = "nothing" /\ hand[r].pc = "persisting"
  BY HandType DEF Enqueued, HandsHoldJobs
<1>2. /\ task' = [task EXCEPT ![d] = "queued"] /\ Hold(r, "acking", d, "ack")
      /\ UNCHANGED <<message, inbox, home, owed, row, unwritten, up, faults>>
  BY <1>1 DEF Enqueued, process
<1>3. /\ hand' \in [Replicas -> Hands]
      /\ hand'[r].pc = "acking" /\ hand'[r].delivery = d
      /\ \A q \in Replicas \ {r} : hand'[q] = hand[q]
  BY <1>1, <1>2, HoldType
<1>4. /\ RecordStep
      /\ task'[d] = "queued" /\ \A j \in Jobs \ {d} : task'[j] = task[j]
  BY <1>1, <1>2, SpawnRecords
<1>5. RecordsFollow' /\ RowFollowsTask' /\ \A k : OnRecord(k) => OnRecord(k)'
  BY <1>4, RecordsKeep
<1>6. TypeOK'
  BY <1>2, <1>3, <1>4 DEF TypeOK, RecordStep, RecordTypes
<1>7. CountsBounded'
  BY <1>2 DEF CountsBounded
<1>8. DeliveriesFresh'
  BY <1>1, <1>2, <1>4, FreshStays
<1>9. HandsHoldJobs'
  <2>1. \A q \in Replicas \ {r} : hand[q].pc = "persisting" => hand[q].delivery # d
    BY <1>1 DEF HandsHoldJobs
  <2>2. \A j \in Jobs \ {d} : j \in Deliveries /\ task[j] = "inserted" => home[j] \in Replicas \ {r}
    BY <1>1 DEF HandsHoldJobs
  <2> QED
    BY <1>2, <1>3, <1>4, <2>1, <2>2 DEF HandsHoldJobs
<1>10. AnswersFounded' /\ AckedIsOnRecord'
  <2>1. d[1] \in Messages /\ OnRecord(d[1])
    <3>1. Follows(d) /\ Recorded(d) /\ d[1] \in Messages
      BY <1>1, DeliveryPairs DEF RecordsFollow, Follows
    <3> QED
      BY <1>1, <3>1 DEF OnRecord, JobsOf
  <2> QED
    BY <1>2, <1>3, <1>5, <2>1 DEF AnswersFounded, AckedIsOnRecord
<1> QED
  BY <1>5, <1>6, <1>7, <1>8, <1>9, <1>10

LEMMA CrashIInv ==
  ASSUME IInv, NEW r \in Replicas, Crash(r)
  PROVE  IInv'
<1> USE DEF IInv
<1>1. /\ up' \in [Replicas -> BOOLEAN] /\ faults' \in 0..MaxFaults
      /\ UNCHANGED <<message, home, row, unwritten>>
  BY IntakeAssumption DEF Crash, TypeOK, Fault
<1>2. /\ inbox' \in [Replicas -> SUBSET Deliveries]
      /\ \A q \in Replicas : inbox'[q] \subseteq inbox[q]
  BY DEF Crash, TypeOK
<1>3. /\ hand' \in [Replicas -> Hands] /\ hand'[r].pc = "idle"
      /\ \A q \in Replicas \ {r} : hand'[q] = hand[q]
  BY DEF Crash, TypeOK, Hands, Idle
<1>4. /\ RecordStep
      /\ \A j \in Jobs :
           /\ task[j] = "none" => task'[j] = "none"
           /\ home[j] # r => task'[j] = task[j]
           /\ home[j] = r => task'[j] \notin {"inserted", "orphaned"}
  <2>1. \A j \in Jobs : home[j] = r => task'[j] \notin {"inserted", "orphaned"}
    BY DEF Crash, Retained, Live
  <2> QED
    BY <2>1, CrashRecords
<1>5. RecordsFollow' /\ RowFollowsTask' /\ \A k : OnRecord(k) => OnRecord(k)'
  BY <1>4, RecordsKeep
<1>6. TypeOK'
  BY <1>1, <1>2, <1>3, <1>4 DEF TypeOK, RecordStep, RecordTypes
<1>7. CountsBounded'
  BY <1>1 DEF CountsBounded
<1>8. DeliveriesFresh'
  <2>1. \A m \in Payloads : message'[m].count = message[m].count
    BY <1>1
  <2> QED
    BY <1>2, <1>4, <2>1, FreshStays
<1>9. HandsHoldJobs'
  <2>1. ASSUME NEW q \in Replicas, hand'[q].pc = "persisting"
        PROVE  /\ hand'[q].delivery \in Jobs
               /\ task'[hand'[q].delivery] = "inserted" /\ home'[hand'[q].delivery] = q
    <3>1. q # r /\ hand'[q] = hand[q]
      BY <1>3, <2>1
    <3>2. hand[q].delivery \in Jobs /\ task[hand[q].delivery] = "inserted" /\ home[hand[q].delivery] = q
      BY <2>1, <3>1 DEF HandsHoldJobs
    <3> QED
      BY <1>1, <1>4, <3>1, <3>2
  <2>2. ASSUME NEW j \in Jobs, j \in Deliveries
        PROVE  /\ task'[j] # "orphaned"
               /\ task'[j] = "inserted" =>
                    /\ home'[j] \in Replicas
                    /\ hand'[home'[j]].pc = "persisting" /\ hand'[home'[j]].delivery = j
    <3>1. CASE home[j] = r
      BY <1>4, <3>1
    <3>2. CASE home[j] # r
      BY <1>1, <1>3, <1>4, <2>2, <3>2 DEF HandsHoldJobs
    <3> QED
      BY <3>1, <3>2
  <2> QED
    BY <2>1, <2>2 DEF HandsHoldJobs
<1>10. AnswersFounded' /\ AckedIsOnRecord'
  BY <1>1, <1>3, <1>5 DEF AnswersFounded, AckedIsOnRecord
<1> QED
  BY <1>5, <1>6, <1>7, <1>8, <1>9, <1>10

LEMMA NextIInv == IInv /\ [Next]_vars => IInv'
<1> SUFFICES ASSUME IInv, [Next]_vars PROVE IInv'
  OBVIOUS
<1>1. ASSUME NEW r \in Replicas,
             Loop(r) \/ Crash(r) \/ Boot(r) \/ \E m \in Payloads : Deliver(r, m)
      PROVE  IInv'
  BY <1>1, EnqueuedIInv, AckIInv, SubmitIInv, CrashIInv, BootIInv, DeliverIInv DEF Loop
<1>2. ASSUME NEW m \in Payloads, Publish(m) \/ AckWaitExpires(m) PROVE IInv'
  BY <1>2, MessageIInv
<1>3. ASSUME NEW m \in Called,
             CallEnqueued(m) \/ CallerLeaves(m) \/ \E r \in Replicas : Call(r, m)
      PROVE  IInv'
  BY <1>3, CallIInv, CallEnqueuedIInv, CallerLeavesIInv
<1>4. ASSUME NEW j \in Jobs, JobStep(j) \/ Forget(j) PROVE IInv'
  BY <1>4, UpdateIInv, WriteIInv, ForgetIInv DEF JobStep
<1>5. CASE UNCHANGED vars
  <2>1. RecordStep /\ UNCHANGED consumer /\ UNCHANGED <<task, home, up, faults>>
    BY <1>5, QuietRecords DEF vars, consumer, IInv
  <2> QED
    BY <2>1, RecordsOnly DEF Onward
<1> QED
  BY <1>1, <1>2, <1>3, <1>4, <1>5 DEF Next

LEMMA IInvCorrect == Spec => []IInv
  BY InitIInv, NextIInv, PTL DEF Spec

-----------------------------------------------------------------------------
(***************************************************************************)
(* What follows                                                            *)
(***************************************************************************)
\* Type correctness: in particular no message is delivered more than max_deliver
\* times.
THEOREM TypeCorrect == Spec => []TypeOK
<1>1. IInv => TypeOK
  BY DEF IInv
<1> QED
  BY <1>1, IInvCorrect, PTL

\* What is acknowledged to the stream is on record, whatever crashes, or it was
\* the duplicate of an HTTP caller's job that never got its row.
THEOREM AckedCorrect == Spec => []AckedIsOnRecord
<1>1. IInv => AckedIsOnRecord
  BY DEF IInv
<1> QED
  BY <1>1, IInvCorrect, PTL

\* Rows lag their job by the one statement under way, and end on the verdict the
\* job reported, whatever the boots of other replicas did to them before.
THEOREM RowsCorrect == Spec => []RowFollowsTask
<1>1. IInv => RowFollowsTask
  BY DEF IInv
<1> QED
  BY <1>1, IInvCorrect, PTL

\* What a step does to the records is a move of each job's life.
LEMMA NextRecords ==
  ASSUME IInv, [Next]_vars
  PROVE  RecordStep
<1> USE DEF IInv
<1>1. ASSUME NEW r \in Replicas, NEW d \in inbox[r], Submit(r, d) PROVE RecordStep
  <2>1. UNCHANGED <<row, unwritten>> /\ d \in Deliveries
    BY <1>1 DEF Submit, TypeOK
  <2>2. CASE UNCHANGED <<task, home, owed>>
    BY <2>1, <2>2, QuietRecords
  <2>3. CASE d[1] \in Messages /\ Insert(r, d)
    <3>1. d \in Jobs /\ task[d] = "none"
      BY <2>1, <2>3, DeliveryPairs DEF DeliveriesFresh
    <3> QED
      BY <2>1, <2>3, <3>1, InsertRecords
  <2> QED
    BY <1>1, <2>2, <2>3 DEF Submit
<1>2. ASSUME NEW r \in Replicas, Enqueued(r) PROVE RecordStep
  <2>1. PICK d \in Jobs : d = hand[r].delivery /\ task[d] = "inserted"
    BY <1>2 DEF Enqueued, HandsHoldJobs
  <2> QED
    BY <1>2, <2>1, SpawnRecords DEF Enqueued
<1>3. ASSUME NEW m \in Called, NEW r \in Replicas, Call(r, m) PROVE RecordStep
  <2>1. PICK j \in Jobs : j = <<m, 0>>
    BY DeliveryPairs
  <2> QED
    BY <1>3, <2>1, InsertRecords DEF Call
<1>4. ASSUME NEW m \in Called, CallEnqueued(m) PROVE RecordStep
  <2>1. PICK j \in Jobs : j = <<m, 0>>
    BY DeliveryPairs
  <2> QED
    BY <1>4, <2>1, SpawnRecords DEF CallEnqueued
<1>5. ASSUME NEW j \in Jobs, Begin(j) \/ End(j) PROVE RecordStep
  <2>1. PICK status \in {"running"} \cup Verdicts :
          /\ Update(j, status)
          /\ \/ task[j] = "queued" /\ status = "running"
             \/ task[j] \in Open /\ status \in Verdicts
    BY <1>5 DEF Begin, End, Verdicts
  <2> QED
    BY <2>1, UpdateRecords
<1>6. ASSUME NEW r \in Replicas, Ack(r) \/ \E m \in Payloads : Deliver(r, m) PROVE RecordStep
  BY <1>6, QuietRecords DEF Ack, Deliver, records
<1>7. ASSUME NEW m \in Payloads, Publish(m) \/ AckWaitExpires(m) PROVE RecordStep
  BY <1>7, QuietRecords DEF Publish, AckWaitExpires, records
<1>8. CASE UNCHANGED vars
  BY <1>8, QuietRecords DEF vars
<1> QED
  BY <1>1, <1>2, <1>3, <1>4, <1>5, <1>6, <1>7, <1>8, LeaveRecords, WriteRecords,
     ForgetRecords, CrashRecords, BootRecords DEF Next, Loop, JobStep

\* A success on record stays for ever; a failure gives way to nothing but what
\* the job's own task, on a living replica, has still to report.
THEOREM VerdictsCorrect == Spec => VerdictStays
<1> DEFINE Kept == \A j \in Jobs : VerdictKept(j)
<1>1. ASSUME IInv, [Next]_vars PROVE Kept
  BY <1>1, NextRecords, RecordsKeep
<1>2. [][Kept]_vars => VerdictStays
  BY PTL DEF VerdictStays, VerdictKept
<1> QED
  BY <1>1, <1>2, IInvCorrect, PTL DEF Spec
=============================================================================
