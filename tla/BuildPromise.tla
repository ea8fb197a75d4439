---------------------------- MODULE BuildPromise ----------------------------
(***************************************************************************)
(* What the build server promises its submitters, whatever happens inside: *)
(* a ledger of jobs.  A job is accepted under a request id only while no   *)
(* remembered job bears that id, a job runs at most once and reaches one   *)
(* verdict, only a job with a verdict is forgotten, and a forgotten job    *)
(* never comes back.                                                       *)
(***************************************************************************)
EXTENDS Naturals

CONSTANTS
  JobIds,     \* identities of the jobs
  Requests,   \* what a job is asked to do: [rid, body]
  NoId,       \* the rid of an anonymous request
  NoRequest   \* the request of a job not on the books

VARIABLE ledger   \* per job: its phase and its request

Verdicts == {"succeeded", "failed"}
Phases == {"absent", "queued", "running", "forgotten"} \cup Verdicts

Remembered == {j \in JobIds : ledger[j].phase \notin {"absent", "forgotten"}}

Init == ledger = [j \in JobIds |-> [phase |-> "absent", request |-> NoRequest]]

Accept(j, q) ==
  /\ ledger[j].phase = "absent"
  /\ q.rid = NoId \/ \A k \in Remembered : ledger[k].request.rid # q.rid
  /\ ledger' = [ledger EXCEPT ![j] = [phase |-> "queued", request |-> q]]

Move(j, from, to) ==
  /\ ledger[j].phase = from
  /\ ledger' = [ledger EXCEPT ![j].phase = to]

Start(j)  == Move(j, "queued", "running")
Refuse(j) == Move(j, "queued", "failed")
Decide(j) == \E verdict \in Verdicts : Move(j, "running", verdict)

Forget(js) ==
  /\ \A j \in js : ledger[j].phase \in Verdicts
  /\ ledger' = [j \in JobIds |-> IF j \in js
                                 THEN [phase |-> "forgotten", request |-> NoRequest]
                                 ELSE ledger[j]]

Progress(j) == Start(j) \/ Refuse(j) \/ Decide(j)

Next ==
  \/ \E j \in JobIds : Progress(j) \/ \E q \in Requests : Accept(j, q)
  \/ \E js \in SUBSET JobIds : Forget(js)

Spec == Init /\ [][Next]_ledger

\* A server that loses no task also brings every accepted job to a verdict.
FairSpec == Spec /\ \A j \in JobIds : WF_ledger(Progress(j))
=============================================================================
