---------------------------- MODULE FiduciaLock -----------------------------
(***************************************************************************)
(* Mutual exclusion of the builds of one image across replicas: run_job    *)
(* (src/jobs.rs) takes the fiducia lock of its image (src/fiducia.rs)      *)
(* before it executes and releases it afterwards.  Locks of different keys *)
(* never meet, so one key is modelled.                                     *)
(*                                                                         *)
(* The lock service is external and modelled from how the client uses it:  *)
(* `wait: false' try-locks with a TTL, monotonic fencing tokens, releases  *)
(* that name the token.  An HTTP exchange can fail before the service sees *)
(* it, lose its reply, or be given up by the client (10 s timeout) and     *)
(* still reach the service later.  The holder a client names is its        *)
(* process: the service must tell the builds of one process apart by the   *)
(* token, and refuse the lock to a holder that already has it.             *)
(*                                                                         *)
(* Time is counted in ticks.  A build under a deadline is dropped when the *)
(* deadline passes; a remote (lambda) execution is not: dropping the       *)
(* request future does not stop the function that runs it.                 *)
(***************************************************************************)
EXTENDS Naturals, FiniteSets

CONSTANTS
  Builds,        \* run_job tasks that build the image, on any replica
  RemoteBuilds,  \* those with executor = "lambda"
  Nobody,        \* the lock is free
  Strict,        \* those on replicas configured with coordination_required
  TTL,           \* lock_ttl, in ticks
  Deadline,      \* job_deadline, in ticks
  Slack,         \* longest time from a grant to the start of the execution
  MaxTries,      \* bound: attempts within lock_wait_budget
  MaxToken,      \* bound: grants the service makes
  MaxLate        \* bound: requests under way after their client gave up

\* The defaults, 3900 s of TTL and 3600 s of deadline, leave room for any slack
\* below 300 s.
ASSUME TTLCoversDeadline == TTL > Slack + Deadline

ASSUME LockAssumption ==
  /\ RemoteBuilds \subseteq Builds
  /\ Nobody \notin Builds
  /\ Strict \subseteq Builds
  /\ TTL \in Nat /\ Deadline \in Nat /\ Slack \in Nat
  /\ MaxTries \in Nat \ {0} /\ MaxToken \in Nat /\ MaxLate \in Nat

VARIABLES
  lock,       \* the service: holder, token and remaining TTL of the lock
  lastToken,  \* the service: the latest fencing token issued
  build,      \* per build: stage, grant, attempts, what it heard, time in stage
  late,       \* requests under way whose client no longer waits
  remote      \* builds whose remote execution goes on after their job ended

vars == <<lock, lastToken, build, late, remote>>

Free == [holder |-> Nobody, token |-> 0, ttl |-> 0]
Stages == {"asking", "judging", "granted", "building", "releasing",
           "ended", "refused", "dead"}

Init ==
  /\ lock = Free
  /\ lastToken = 0
  /\ build = [b \in Builds |-> [stage |-> "asking", grant |-> 0, tries |-> 1,
                                error |-> FALSE, heard |-> "nothing", clock |-> 0]]
  /\ late = {}
  /\ remote = {}

Stage(b) == build[b].stage
Enter(b, stage) == build' = [build EXCEPT ![b].stage = stage, ![b].clock = 0]

\* Builds that are executing in their job.
Executing == {b \in Builds : Stage(b) = "building"}

-----------------------------------------------------------------------------
(***************************************************************************)
(* The lock service                                                        *)
(***************************************************************************)
CanGrant == lock.holder = Nobody /\ lastToken < MaxToken

Grant(b) ==
  /\ CanGrant
  /\ lastToken' = lastToken + 1
  /\ lock' = [holder |-> b, token |-> lastToken + 1, ttl |-> TTL]

\* Only the release that names the current grant frees the lock.
ServeRelease(b, token) ==
  /\ lock' = IF lock.holder = b /\ lock.token = token THEN Free ELSE lock
  /\ UNCHANGED lastToken

\* A request of a client that gave up arrives: a late acquire is granted to
\* nobody who knows.
DeliverLate ==
  \E m \in late :
    /\ late' = late \ {m}
    /\ \/ m.op = "release" /\ ServeRelease(m.build, m.token)
       \/ m.op = "acquire" /\ Grant(m.build)
       \/ m.op = "acquire" /\ ~CanGrant /\ UNCHANGED <<lock, lastToken>>
    /\ UNCHANGED <<build, remote>>

-----------------------------------------------------------------------------
(***************************************************************************)
(* acquire_lock                                                            *)
(***************************************************************************)
Hear(b, answer, error) ==
  build' = [build EXCEPT ![b].stage = "judging", ![b].heard = answer,
                         ![b].error = error]

Granted(b) ==
  /\ Stage(b) = "asking"
  /\ Grant(b)
  /\ build' = [build EXCEPT ![b].stage = "granted", ![b].grant = lastToken + 1,
                            ![b].clock = 0]
  /\ UNCHANGED <<late, remote>>

\* A 2xx without a grant, 409 or 423; an earlier error stays in last_error.
Busy(b) ==
  /\ Stage(b) = "asking"
  /\ lock.holder # Nobody
  /\ Hear(b, "busy", build[b].error)
  /\ UNCHANGED <<lock, lastToken, late, remote>>

\* A transport error or another status, the service untouched.
Failed(b) ==
  /\ Stage(b) = "asking"
  /\ Hear(b, "error", TRUE)
  /\ UNCHANGED <<lock, lastToken, late, remote>>

\* The service granted the lock and the reply got lost: all of it, which is an
\* error, or the body alone, which makes a 2xx without a grant of it.
ReplyLost(b) ==
  /\ Stage(b) = "asking"
  /\ Grant(b)
  /\ Hear(b, "error", TRUE) \/ Hear(b, "busy", build[b].error)
  /\ UNCHANGED <<late, remote>>

\* The request times out at the client and is still on its way.
TimedOut(b) ==
  /\ Stage(b) = "asking"
  /\ Cardinality(late) < MaxLate
  /\ late' = late \cup {[op |-> "acquire", build |-> b, token |-> 0]}
  /\ Hear(b, "error", TRUE)
  /\ UNCHANGED <<lock, lastToken, remote>>

\* LockOutcome::Unavailable: fatal only when coordination is required.
IfUnavailable(b) == IF b \in Strict THEN "refused" ELSE "granted"

\* 401 and 403 do not retry.
Denied(b) ==
  /\ Stage(b) = "asking"
  /\ build' = [build EXCEPT ![b].stage = IfUnavailable(b), ![b].heard = "error"]
  /\ UNCHANGED <<lock, lastToken, late, remote>>

\* Fault: an attempt that costs no budget.
RetryForFree(b) ==
  /\ Stage(b) = "judging"
  /\ Enter(b, "asking")
  /\ UNCHANGED <<lock, lastToken, late, remote>>

Retry(b) ==
  /\ Stage(b) = "judging"
  /\ build[b].tries < MaxTries
  /\ build' = [build EXCEPT ![b].stage = "asking", ![b].tries = @ + 1]
  /\ UNCHANGED <<lock, lastToken, late, remote>>

\* Fault: without an answer from the service, build unprotected.
GiveUpOpen(b) ==
  /\ Stage(b) = "judging"
  /\ Enter(b, IF build[b].error THEN "granted" ELSE "refused")
  /\ UNCHANGED <<lock, lastToken, late, remote>>

\* The budget is spent: Unavailable if any attempt failed, Busy otherwise.
GiveUp(b) ==
  /\ Stage(b) = "judging"
  /\ Enter(b, IF build[b].error THEN IfUnavailable(b) ELSE "refused")
  /\ UNCHANGED <<lock, lastToken, late, remote>>

-----------------------------------------------------------------------------
(***************************************************************************)
(* run_job around the execution, and release_lock                          *)
(***************************************************************************)
Start(b) ==
  /\ Stage(b) = "granted"
  /\ Enter(b, "building")
  /\ UNCHANGED <<lock, lastToken, late, remote>>

\* The execution ends, at the latest by its deadline.  A remote execution the
\* job no longer waits for may go on.
End(b) ==
  /\ Stage(b) = "building"
  /\ Enter(b, IF build[b].grant = 0 THEN "ended" ELSE "releasing")
  /\ remote' \in {remote} \cup {remote \cup {b} : r \in RemoteBuilds \cap {b}}
  /\ UNCHANGED <<lock, lastToken, late>>

RemoteEnds(b) ==
  /\ b \in remote
  /\ remote' = remote \ {b}
  /\ UNCHANGED <<lock, lastToken, build, late>>

\* One release attempt: served, lost, or served late.
Release(b) ==
  /\ Stage(b) = "releasing"
  /\ Enter(b, "ended")
  /\ \/ ServeRelease(b, build[b].grant) /\ UNCHANGED late
     \/ UNCHANGED <<lock, lastToken, late>>
     \/ /\ Cardinality(late) < MaxLate
        /\ late' = late \cup {[op |-> "release", build |-> b, token |-> build[b].grant]}
        /\ UNCHANGED <<lock, lastToken>>
  /\ UNCHANGED remote

\* The replica dies; kill_on_drop is moot, the container goes with it.
Crash(b) ==
  /\ Stage(b) \notin {"ended", "refused", "dead"}
  /\ Enter(b, "dead")
  /\ UNCHANGED <<lock, lastToken, late, remote>>

-----------------------------------------------------------------------------
(***************************************************************************)
(* Time                                                                    *)
(***************************************************************************)
\* Fault: only the commands are bounded, not the job.
Unbounded(b) == build[b].clock < TTL + 1

\* timeout(job_deadline, execution) does not let a build run any longer.
WithinDeadline(b) == build[b].clock < Deadline

\* Fault: the lock is taken first and the permit waited for under it.
PermitAfterLock(b) == build[b].clock < TTL + 1

\* The permit is already held when the lock is granted: only a status update
\* lies between the grant and the execution.
WithinSlack(b) == build[b].clock < Slack

Timed(b) == Stage(b) \in {"granted", "building"}

\* Fault: the acquire request carries no ttl_ms.
Ageless == lock

\* The service drops a lock whose TTL has run out.
Aged == IF lock.holder = Nobody \/ lock.ttl = 1 THEN Free ELSE [lock EXCEPT !.ttl = @ - 1]

Tick ==
  /\ lock # Free \/ \E b \in Builds : Timed(b)
  /\ \A b \in Builds :
       /\ Stage(b) = "granted" => WithinSlack(b)
       /\ Stage(b) = "building" => WithinDeadline(b)
  /\ build' = [b \in Builds |-> IF Timed(b) THEN [build[b] EXCEPT !.clock = @ + 1]
                                            ELSE build[b]]
  /\ lock' = Aged
  /\ UNCHANGED <<lastToken, late, remote>>

-----------------------------------------------------------------------------
Ask(b) == Granted(b) \/ Busy(b) \/ Failed(b) \/ ReplyLost(b) \/ TimedOut(b) \/ Denied(b)
BuildStep(b) == Ask(b) \/ Retry(b) \/ GiveUp(b) \/ Start(b) \/ End(b) \/ Release(b)

Next ==
  \/ \E b \in Builds : BuildStep(b) \/ RemoteEnds(b) \/ Crash(b)
  \/ DeliverLate
  \/ Tick

Spec == Init /\ [][Next]_vars

\* Tasks are polled, exchanges end by their client timeout, the wait budget is
\* finite, and time goes on.  Nothing makes a remote execution end.
Fairness ==
  /\ \A b \in Builds : WF_vars(BuildStep(b)) /\ WF_vars(GiveUp(b))
  /\ WF_vars(Tick)

FairSpec == Spec /\ Fairness

-----------------------------------------------------------------------------
(***************************************************************************)
(* Properties                                                              *)
(***************************************************************************)
BuildRecord ==
  [stage : Stages, grant : 0..MaxToken, tries : 1..MaxTries, error : BOOLEAN,
   heard : {"nothing", "busy", "error"}, clock : 0..(Slack + Deadline)]
LateRequests == [op : {"acquire", "release"}, build : Builds, token : 0..MaxToken]

\* Every variable has the type the code, or the service, gives it; no stage
\* lasts beyond its deadline.
TypeOK ==
  /\ lock \in [holder : Builds \cup {Nobody}, token : 0..MaxToken, ttl : 0..TTL]
  /\ lastToken \in 0..MaxToken
  /\ build \in [Builds -> BuildRecord]
  /\ late \subseteq LateRequests
  /\ remote \subseteq RemoteBuilds

\* A build that was granted the lock still has it, under its own token, for as
\* long as it executes: neither the TTL nor anybody's late release ends it.
GrantBacked ==
  \A b \in Builds :
    Stage(b) \in {"granted", "building"} /\ build[b].grant # 0
    => lock.holder = b /\ lock.token = build[b].grant

\* A build that requires coordination executes under a grant, and no two builds
\* execute under grants at once: "concurrent builds of the same image serialize
\* across replicas".
Serialized ==
  /\ \A b \in Executing \cap Strict : build[b].grant # 0
  /\ \A b, c \in Executing : build[b].grant # 0 /\ build[c].grant # 0 => b = c

\* The same with the remote executions that outlive their jobs.
RemoteSerialized ==
  \A b, c \in Executing \cup remote : build[b].grant # 0 /\ build[c].grant # 0 => b = c

\* Fencing tokens grow in the order in which protected builds start, so whoever
\* checks them can tell the stale builder.
TokensFollowStarts ==
  [][\A b \in Builds : Stage(b) = "granted" /\ Stage(b)' = "building"
        /\ build[b].grant # 0
        => \A c \in Builds \ {b} : build[c].grant < build[b].grant]_vars

\* Unavailable is for a service that is "unreachable/errored", Busy for one that
\* answers that another holder has the lock: a build whose last attempt found the
\* lock held does not go on without it beside the build that holds it.
UnprotectedOnlyIfUnreachable ==
  \A b \in Builds :
    Stage(b) = "granted" /\ build[b].grant = 0 /\ build[b].heard = "busy"
    => \A c \in Builds : Stage(c) = "building" => build[c].grant = 0

\* Every build that asks for the lock is settled, however the service answers.
BuildsSettle ==
  \A b \in Builds : Stage(b) = "asking" ~> Stage(b) \in {"ended", "refused", "dead"}

\* No crash, lost reply or lost release keeps the lock for ever.
LockFreed == \A t \in 1..MaxToken : lock.token = t ~> lock.token # t
=============================================================================
