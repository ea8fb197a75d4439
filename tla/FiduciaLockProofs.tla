------------------------- MODULE FiduciaLockProofs --------------------------
(***************************************************************************)
(* Proofs about FiduciaLock, for every set of builds, every budget and     *)
(* every TTL that covers the slack and the deadline.                       *)
(***************************************************************************)
EXTENDS FiduciaLock, TLAPS

(***************************************************************************)
(* The strengthening.  The lock of a protected build has lost no more of   *)
(* its TTL than the build has spent, so it is held until the deadline; its *)
(* token is the latest, and no two builds share one; a release that is     *)
(* still under way names a build that has ended.                           *)
(***************************************************************************)
Protected(b) == Stage(b) \in {"granted", "building"} /\ build[b].grant # 0

ClocksBounded ==
  \A b \in Builds :
    /\ Stage(b) = "granted" => build[b].clock <= Slack
    /\ Stage(b) = "building" => build[b].clock <= Deadline
    /\ ~Timed(b) => build[b].clock = 0

TTLOutlasts ==
  /\ lock.holder # Nobody => lock.ttl > 0
  /\ \A b \in Builds :
       Protected(b) =>
         lock.ttl + build[b].clock >= IF Stage(b) = "granted" THEN TTL ELSE TTL - Slack

TokensOrdered ==
  /\ lock.holder # Nobody => lock.token = lastToken
  /\ \A b \in Builds : build[b].grant <= lastToken
  /\ \A b, c \in Builds : build[b].grant = build[c].grant /\ build[b].grant # 0 => b = c

\* No grant before an attempt succeeds; strict builds go on with one only.
GrantsKnown ==
  \A b \in Builds :
    /\ Stage(b) \in {"asking", "judging"} => build[b].grant = 0
    /\ b \in Strict /\ Stage(b) \in {"granted", "building"} => build[b].grant # 0

LateReleasesEnded ==
  \A m \in late : m.op = "release" => Stage(m.build) = "ended"

IInv ==
  /\ TypeOK
  /\ ClocksBounded
  /\ GrantBacked
  /\ TTLOutlasts
  /\ TokensOrdered
  /\ GrantsKnown
  /\ LateReleasesEnded

-----------------------------------------------------------------------------
\* Updates of a build's record that keep its type.
LEMMA RecordUpdates ==
  ASSUME NEW r \in BuildRecord, NEW stage \in Stages, NEW token \in 0..MaxToken,
         NEW clock \in 0..(Slack + Deadline), NEW heard \in {"busy", "error"},
         NEW error \in BOOLEAN
  PROVE  /\ [r EXCEPT !.stage = stage, !.clock = clock] \in BuildRecord
         /\ [r EXCEPT !.clock = clock] \in BuildRecord
         /\ [r EXCEPT !.stage = stage, !.grant = token, !.clock = clock] \in BuildRecord
         /\ [r EXCEPT !.stage = stage, !.heard = heard, !.error = error] \in BuildRecord
         /\ [r EXCEPT !.stage = stage, !.heard = heard] \in BuildRecord
  BY DEF BuildRecord

\* Stages are entered with the clock at zero.
LEMMA EnterType ==
  ASSUME TypeOK, NEW b \in Builds, NEW stage \in Stages, Enter(b, stage)
  PROVE  build' \in [Builds -> BuildRecord]
<1>1. 0 \in 0..(Slack + Deadline)
  BY LockAssumption
<1>2. [build[b] EXCEPT !.stage = stage, !.clock = 0] \in BuildRecord
  BY <1>1, RecordUpdates DEF TypeOK
<1> QED
  BY <1>2 DEF TypeOK, Enter

-----------------------------------------------------------------------------
LEMMA InitIInv == Init => IInv
<1> SUFFICES ASSUME Init PROVE IInv
  OBVIOUS
<1> USE LockAssumption, TTLCoversDeadline DEF Init, Free, Stage
<1>1. TypeOK
  BY DEF TypeOK, BuildRecord, Stages
<1>2. ClocksBounded /\ GrantBacked /\ TTLOutlasts
  BY DEF ClocksBounded, GrantBacked, TTLOutlasts, Protected
<1>3. TokensOrdered /\ GrantsKnown /\ LateReleasesEnded
  BY DEF TokensOrdered, GrantsKnown, LateReleasesEnded
<1> QED
  BY <1>1, <1>2, <1>3 DEF IInv

(***************************************************************************)
(* acquire_lock                                                            *)
(***************************************************************************)
\* While a build is protected the lock is not free, so that nobody else gets it.
LEMMA GrantNeedsNobody ==
  ASSUME IInv, CanGrant
  PROVE  \A b \in Builds : ~Protected(b)
  BY LockAssumption DEF IInv, CanGrant, GrantBacked, Protected

LEMMA GrantedIInv ==
  ASSUME IInv, NEW b \in Builds, Granted(b)
  PROVE  IInv'
<1> USE LockAssumption, TTLCoversDeadline DEF IInv, Granted, Grant, Stage
<1>0. \A c \in Builds : ~Protected(c)
  BY GrantNeedsNobody
<1>1. TypeOK'
  <2>1. lastToken + 1 \in 0..MaxToken /\ 0 \in 0..(Slack + Deadline) /\ TTL \in 0..TTL
    BY DEF TypeOK, CanGrant
  <2>2. [build[b] EXCEPT !.stage = "granted", !.grant = lastToken + 1, !.clock = 0]
          \in BuildRecord
    BY <2>1, RecordUpdates DEF TypeOK, Stages
  <2> QED
    BY <2>1, <2>2 DEF TypeOK
<1>2. ClocksBounded' /\ GrantsKnown' /\ LateReleasesEnded'
  BY DEF ClocksBounded, GrantsKnown, LateReleasesEnded, Timed, TypeOK, LateRequests
<1>3. GrantBacked' /\ TTLOutlasts'
  BY <1>0 DEF GrantBacked, TTLOutlasts, Protected, TypeOK
<1>4. TokensOrdered'
  BY DEF TokensOrdered, TypeOK, BuildRecord
<1> QED
  BY <1>1, <1>2, <1>3, <1>4

\* Whatever a build hears, it has no grant and no clock runs.
LEMMA HearIInv ==
  ASSUME IInv, NEW b \in Builds, Stage(b) = "asking",
         NEW answer \in {"busy", "error"}, NEW error \in BOOLEAN, Hear(b, answer, error),
         NEW m \in LateRequests, m.op = "acquire", late' \in {late, late \cup {m}},
         \/ UNCHANGED <<lock, lastToken>>
         \/ Grant(b),
         UNCHANGED remote
  PROVE  IInv'
<1> USE LockAssumption, TTLCoversDeadline DEF IInv, Hear, Stage
<1>1. TypeOK'
  <2>1. CanGrant => lastToken + 1 \in 0..MaxToken
    BY DEF TypeOK, CanGrant
  <2>2. [build[b] EXCEPT !.stage = "judging", !.heard = answer, !.error = error] \in BuildRecord
    <3>1. 0 \in 0..MaxToken /\ 0 \in 0..(Slack + Deadline)
      OBVIOUS
    <3> QED
      BY <3>1, RecordUpdates DEF TypeOK, Stages
  <2>3. lock' \in [holder : Builds \cup {Nobody}, token : 0..MaxToken, ttl : 0..TTL]
        /\ lastToken' \in 0..MaxToken
    BY <2>1 DEF TypeOK, Grant
  <2> QED
    BY <2>2, <2>3 DEF TypeOK
<1>2. ClocksBounded' /\ GrantsKnown' /\ LateReleasesEnded'
  BY DEF ClocksBounded, GrantsKnown, LateReleasesEnded, Timed, TypeOK, LateRequests
<1>3. GrantBacked' /\ TTLOutlasts'
  BY GrantNeedsNobody DEF GrantBacked, TTLOutlasts, Protected, TypeOK, Grant
<1>4. TokensOrdered'
  BY DEF TokensOrdered, TypeOK, BuildRecord, Grant
<1> QED
  BY <1>1, <1>2, <1>3, <1>4

LEMMA DeniedIInv ==
  ASSUME IInv, NEW b \in Builds, Denied(b)
  PROVE  IInv'
<1> USE LockAssumption, TTLCoversDeadline DEF IInv, Denied, Stage
<1>1. TypeOK'
  <2>1. [build[b] EXCEPT !.stage = IfUnavailable(b), !.heard = "error"] \in BuildRecord
    <3>1. 0 \in 0..MaxToken /\ 0 \in 0..(Slack + Deadline)
      OBVIOUS
    <3> QED
      BY <3>1, RecordUpdates DEF TypeOK, Stages, IfUnavailable
  <2> QED
    BY <2>1 DEF TypeOK
<1>2. ClocksBounded' /\ GrantsKnown' /\ LateReleasesEnded'
  BY DEF ClocksBounded, GrantsKnown, LateReleasesEnded, Timed, TypeOK, LateRequests,
         IfUnavailable
<1>3. GrantBacked' /\ TTLOutlasts' /\ TokensOrdered'
  BY DEF GrantBacked, TTLOutlasts, Protected, TokensOrdered, GrantsKnown, TypeOK
<1> QED
  BY <1>1, <1>2, <1>3

LEMMA RetryIInv ==
  ASSUME IInv, NEW b \in Builds, Retry(b)
  PROVE  IInv'
<1> USE LockAssumption, TTLCoversDeadline DEF IInv, Retry, Stage
<1>1. TypeOK'
  <2>1. build[b].tries + 1 \in 1..MaxTries
    BY DEF TypeOK, BuildRecord
  <2>2. [build[b] EXCEPT !.stage = "asking", !.tries = build[b].tries + 1] \in BuildRecord
    BY <2>1 DEF TypeOK, BuildRecord, Stages
  <2> QED
    BY <2>2 DEF TypeOK
<1>2. ClocksBounded' /\ GrantsKnown' /\ LateReleasesEnded'
  BY DEF ClocksBounded, GrantsKnown, LateReleasesEnded, Timed, TypeOK, LateRequests
<1>3. GrantBacked' /\ TTLOutlasts' /\ TokensOrdered'
  BY DEF GrantBacked, TTLOutlasts, Protected, TokensOrdered, TypeOK
<1> QED
  BY <1>1, <1>2, <1>3

\* A build that leaves its grant, or never had one, disturbs nothing.
LEMMA LeaveIInv ==
  ASSUME IInv, NEW b \in Builds, Stage(b) # "ended",
         NEW stage \in {"releasing", "ended", "refused", "dead"}, Enter(b, stage),
         remote' \subseteq RemoteBuilds, UNCHANGED <<lock, lastToken, late>>
  PROVE  IInv'
<1> USE LockAssumption, TTLCoversDeadline DEF IInv, Stage
<1>1. TypeOK'
  BY EnterType DEF TypeOK, Stages
<1> USE DEF Enter
<1>2. ClocksBounded' /\ GrantsKnown' /\ LateReleasesEnded'
  BY DEF ClocksBounded, GrantsKnown, LateReleasesEnded, Timed, TypeOK, LateRequests
<1>3. GrantBacked' /\ TTLOutlasts' /\ TokensOrdered'
  BY DEF GrantBacked, TTLOutlasts, Protected, TokensOrdered, TypeOK
<1> QED
  BY <1>1, <1>2, <1>3

\* The wait is over: without a grant only a build that does not need one goes on.
LEMMA GiveUpIInv ==
  ASSUME IInv, NEW b \in Builds, GiveUp(b)
  PROVE  IInv'
<1> USE LockAssumption, TTLCoversDeadline DEF IInv, Stage, GiveUp, IfUnavailable
<1>1. TypeOK'
  BY EnterType DEF TypeOK, Stages
<1> USE DEF Enter
<1>2. ClocksBounded' /\ GrantsKnown' /\ LateReleasesEnded'
  BY DEF ClocksBounded, GrantsKnown, LateReleasesEnded, Timed, TypeOK, LateRequests
<1>3. GrantBacked' /\ TTLOutlasts' /\ TokensOrdered'
  BY DEF GrantBacked, TTLOutlasts, Protected, TokensOrdered, GrantsKnown, TypeOK
<1> QED
  BY <1>1, <1>2, <1>3

(***************************************************************************)
(* run_job and release_lock                                                *)
(***************************************************************************)
\* What is left of the TTL at the start still covers the deadline.
LEMMA StartIInv ==
  ASSUME IInv, NEW b \in Builds, Start(b)
  PROVE  IInv'
<1> USE LockAssumption, TTLCoversDeadline DEF IInv, Stage, Start
<1>1. TypeOK'
  BY EnterType DEF TypeOK, Stages
<1> USE DEF Enter
<1>2. ClocksBounded' /\ GrantsKnown' /\ LateReleasesEnded'
  BY DEF ClocksBounded, GrantsKnown, LateReleasesEnded, Timed, TypeOK, LateRequests
<1>3. GrantBacked' /\ TokensOrdered'
  BY DEF GrantBacked, TokensOrdered, TypeOK
<1>4. TTLOutlasts'
  BY DEF TTLOutlasts, Protected, ClocksBounded, TypeOK, BuildRecord
<1> QED
  BY <1>1, <1>2, <1>3, <1>4

\* A release frees the lock only if it names the grant, which no protected build
\* but the releasing one can have.
LEMMA ServeReleaseKeeps ==
  ASSUME IInv, NEW b \in Builds, ~Protected(b), NEW token \in 0..MaxToken,
         ServeRelease(b, token)
  PROVE  /\ lock' \in [holder : Builds \cup {Nobody}, token : 0..MaxToken, ttl : 0..TTL]
         /\ \A c \in Builds : Protected(c) => lock' = lock
         /\ lock'.holder # Nobody => lock' = lock
         /\ lastToken' = lastToken
  BY LockAssumption, TTLCoversDeadline
     DEF IInv, TypeOK, ServeRelease, GrantBacked, Protected, Free

LEMMA ReleaseIInv ==
  ASSUME IInv, NEW b \in Builds, Release(b)
  PROVE  IInv'
<1> USE LockAssumption, TTLCoversDeadline DEF IInv, Stage, Release
<1>1. /\ lock' \in [holder : Builds \cup {Nobody}, token : 0..MaxToken, ttl : 0..TTL]
      /\ \A c \in Builds : Protected(c) => lock' = lock
      /\ lock'.holder # Nobody => lock' = lock
      /\ lastToken' = lastToken
  <2>1. ~Protected(b) /\ build[b].grant \in 0..MaxToken
    BY DEF Protected, TypeOK, BuildRecord
  <2> QED
    BY <2>1, ServeReleaseKeeps DEF TypeOK
<1>2. TypeOK'
  <2>1. [op |-> "release", build |-> b, token |-> build[b].grant] \in LateRequests
    BY DEF TypeOK, BuildRecord, LateRequests
  <2> QED
    BY <1>1, <2>1, EnterType DEF TypeOK, Stages
<1> USE DEF Enter
<1>3. ClocksBounded' /\ GrantsKnown' /\ LateReleasesEnded'
  BY DEF ClocksBounded, GrantsKnown, LateReleasesEnded, Timed, TypeOK, LateRequests
<1>4. GrantBacked' /\ TTLOutlasts' /\ TokensOrdered'
  BY <1>1 DEF GrantBacked, TTLOutlasts, Protected, TokensOrdered, TypeOK
<1> QED
  BY <1>2, <1>3, <1>4

LEMMA DeliverLateIInv ==
  ASSUME IInv, DeliverLate
  PROVE  IInv'
<1> USE LockAssumption, TTLCoversDeadline DEF IInv, Stage
<1>1. PICK m \in late : DeliverLate!(m)
  BY DEF DeliverLate
<1>2. m \in LateRequests /\ m.build \in Builds /\ m.token \in 0..MaxToken
  BY DEF TypeOK, LateRequests
<1>3. UNCHANGED <<build, remote>> /\ late' \subseteq late
  BY <1>1
<1>4. ClocksBounded' /\ GrantsKnown' /\ LateReleasesEnded'
  BY <1>3 DEF ClocksBounded, GrantsKnown, LateReleasesEnded, Timed
<1>5. CASE m.op = "release" /\ ServeRelease(m.build, m.token)
  <2>1. ~Protected(m.build)
    BY <1>5 DEF LateReleasesEnded, Protected
  <2>2. /\ lock' \in [holder : Builds \cup {Nobody}, token : 0..MaxToken, ttl : 0..TTL]
        /\ \A c \in Builds : Protected(c) => lock' = lock
        /\ lock'.holder # Nobody => lock' = lock
        /\ lastToken' = lastToken
    BY <1>2, <1>5, <2>1, ServeReleaseKeeps
  <2> QED
    BY <1>3, <1>4, <2>2
       DEF TypeOK, GrantBacked, TTLOutlasts, Protected, TokensOrdered
<1>6. CASE Grant(m.build)
  <2>1. lastToken + 1 \in 0..MaxToken /\ TTL \in 0..TTL
    BY <1>6 DEF TypeOK, Grant, CanGrant
  <2>2. TypeOK'
    BY <1>2, <1>3, <1>6, <2>1 DEF TypeOK, Grant
  <2>3. GrantBacked' /\ TTLOutlasts'
    BY <1>3, <1>6, GrantNeedsNobody DEF GrantBacked, TTLOutlasts, Protected, Grant
  <2>4. TokensOrdered'
    BY <1>3, <1>6 DEF TokensOrdered, TypeOK, BuildRecord, Grant
  <2> QED
    BY <1>4, <2>2, <2>3, <2>4
<1>7. CASE UNCHANGED <<lock, lastToken>>
  BY <1>3, <1>4, <1>7 DEF TypeOK, GrantBacked, TTLOutlasts, Protected, TokensOrdered
<1> QED
  BY <1>1, <1>5, <1>6, <1>7

(***************************************************************************)
(* Time                                                                    *)
(***************************************************************************)
\* While a build is protected, a tick takes from its TTL what it adds to its
\* clock, and no tick can take the last of it.
LEMMA TickIInv ==
  ASSUME IInv, Tick
  PROVE  IInv'
<1> USE LockAssumption, TTLCoversDeadline DEF IInv, Tick, Stage
<1>1. \A b \in Builds : Timed(b) => build[b].clock + 1 \in 0..(Slack + Deadline)
  BY DEF Timed, WithinSlack, WithinDeadline, TypeOK, BuildRecord
<1>2. TypeOK'
  <2>1. \A b \in Builds : Timed(b) => [build[b] EXCEPT !.clock = build[b].clock + 1] \in BuildRecord
    BY <1>1 DEF TypeOK, BuildRecord
  <2>2. Aged \in [holder : Builds \cup {Nobody}, token : 0..MaxToken, ttl : 0..TTL]
    BY DEF TypeOK, TTLOutlasts, Aged, Free
  <2> QED
    BY <2>1, <2>2 DEF TypeOK
<1>3. \A b \in Builds :
        /\ build'[b].stage = build[b].stage /\ build'[b].grant = build[b].grant
        /\ build'[b].clock = IF Timed(b) THEN build[b].clock + 1 ELSE build[b].clock
  BY DEF TypeOK, BuildRecord
<1>4. ClocksBounded' /\ GrantsKnown' /\ LateReleasesEnded'
  BY <1>3 DEF ClocksBounded, GrantsKnown, LateReleasesEnded, Timed, TypeOK, LateRequests,
              WithinSlack, WithinDeadline, BuildRecord
<1>5. \A b \in Builds : Protected(b) =>
        lock' = [lock EXCEPT !.ttl = lock.ttl - 1] /\ lock.ttl > 1
  BY DEF Aged, Protected, GrantBacked, TTLOutlasts, WithinSlack, WithinDeadline, TypeOK,
         BuildRecord
<1>6. GrantBacked' /\ TTLOutlasts'
  <2>1. lock'.holder # Nobody => lock'.ttl > 0
    BY DEF Aged, Free, TypeOK, TTLOutlasts
  <2>2. \A b \in Builds : Protected(b)' => Protected(b) /\ Timed(b)
    BY <1>3 DEF Protected, Timed
  <2>3. GrantBacked'
    BY <1>3, <1>5, <2>2 DEF GrantBacked, Protected, TypeOK
  <2>4. ASSUME NEW b \in Builds, Protected(b)'
        PROVE  lock'.ttl + build'[b].clock = lock.ttl + build[b].clock
    BY <1>3, <1>5, <2>2, <2>4 DEF TypeOK, BuildRecord
  <2> QED
    BY <1>3, <2>1, <2>2, <2>3, <2>4 DEF TTLOutlasts
<1>7. TokensOrdered'
  BY <1>3 DEF TokensOrdered, Aged, Free, TypeOK, BuildRecord
<1> QED
  BY <1>2, <1>4, <1>6, <1>7

-----------------------------------------------------------------------------
(***************************************************************************)
(* The invariant and what follows from it                                  *)
(***************************************************************************)
LEMMA NextIInv == IInv /\ [Next]_vars => IInv'
<1> SUFFICES ASSUME IInv, [Next]_vars PROVE IInv'
  OBVIOUS
<1>1. ASSUME NEW b \in Builds, Ask(b) PROVE IInv'
  <2> DEFINE request == [op |-> "acquire", build |-> b, token |-> 0]
  <2>1. request \in LateRequests /\ request.op = "acquire"
    BY LockAssumption DEF LateRequests
  <2>2. build[b].error \in BOOLEAN
    BY DEF IInv, TypeOK, BuildRecord
  <2>3. CASE Granted(b)
    BY <2>3, GrantedIInv
  <2>4. CASE Busy(b)
    BY <2>1, <2>2, <2>4, HearIInv DEF Busy
  <2>5. CASE Failed(b)
    BY <2>1, <2>5, HearIInv DEF Failed
  <2>6. CASE ReplyLost(b)
    <3>1. CASE Hear(b, "error", TRUE)
      BY <2>1, <2>6, <3>1, HearIInv DEF ReplyLost
    <3>2. CASE Hear(b, "busy", build[b].error)
      BY <2>1, <2>2, <2>6, <3>2, HearIInv DEF ReplyLost
    <3> QED
      BY <2>6, <3>1, <3>2 DEF ReplyLost
  <2>7. CASE TimedOut(b)
    BY <2>1, <2>7, HearIInv DEF TimedOut
  <2>8. CASE Denied(b)
    BY <2>8, DeniedIInv
  <2> QED
    BY <1>1, <2>3, <2>4, <2>5, <2>6, <2>7, <2>8 DEF Ask
<1>2. ASSUME NEW b \in Builds, End(b) PROVE IInv'
  BY <1>2, LeaveIInv DEF End, IInv, TypeOK
<1>3. ASSUME NEW b \in Builds, Crash(b) PROVE IInv'
  BY <1>3, LeaveIInv DEF Crash, IInv, TypeOK
<1>4. ASSUME NEW b \in Builds, RemoteEnds(b) PROVE IInv'
  BY <1>4 DEF RemoteEnds, IInv, TypeOK, ClocksBounded, GrantBacked, TTLOutlasts, Protected,
              TokensOrdered, GrantsKnown, LateReleasesEnded, Stage, Timed
<1>5. CASE UNCHANGED vars
  BY <1>5 DEF vars, IInv, TypeOK, ClocksBounded, GrantBacked, TTLOutlasts, Protected,
              TokensOrdered, GrantsKnown, LateReleasesEnded, Stage, Timed
<1> QED
  BY <1>1, <1>2, <1>3, <1>4, <1>5, RetryIInv, GiveUpIInv, StartIInv, ReleaseIInv,
     DeliverLateIInv, TickIInv DEF Next, BuildStep

LEMMA IInvCorrect == Spec => []IInv
  BY InitIInv, NextIInv, PTL DEF Spec

\* Type correctness: in particular no stage of run_job outlasts its deadline, and
\* the wait budget is kept.
THEOREM TypeCorrect == Spec => []TypeOK
  BY IInvCorrect, PTL DEF IInv

\* A build that was granted the lock has it, under its own token, until it no
\* longer executes.
THEOREM GrantBackedCorrect == Spec => []GrantBacked
  BY IInvCorrect, PTL DEF IInv

\* Builds under grants never overlap, and a build that requires coordination
\* executes under one.
THEOREM SerializedCorrect == Spec => []Serialized
<1>1. IInv => Serialized
  BY DEF IInv, Serialized, GrantBacked, GrantsKnown, Executing, Stage
<1> QED
  BY <1>1, IInvCorrect, PTL

\* Fencing tokens grow in the order in which protected builds start.
THEOREM TokensCorrect == Spec => TokensFollowStarts
<1> DEFINE Follows(b) ==
      Stage(b) = "granted" /\ Stage(b)' = "building" /\ build[b].grant # 0
      => \A c \in Builds \ {b} : build[c].grant < build[b].grant
<1>1. IInv => \A b \in Builds : Follows(b)
  BY LockAssumption DEF IInv, TypeOK, BuildRecord, GrantBacked, TokensOrdered, Stage
<1>2. IInv /\ [Next]_vars => [\A b \in Builds : Follows(b)]_vars
  BY <1>1
<1> QED
  BY <1>2, IInvCorrect, PTL DEF Spec, TokensFollowStarts
=============================================================================
