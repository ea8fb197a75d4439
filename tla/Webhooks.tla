------------------------------ MODULE Webhooks -------------------------------
(***************************************************************************)
(* The webhooks (src/webhooks.rs).  A delivery to POST /webhooks/github is *)
(* authenticated, deduplicated by a Postgres row (src/db.rs) and by a      *)
(* fiducia idempotency lease (src/fiducia.rs), matched against the rules   *)
(* and submitted to enqueue_build.  A delivery to POST /webhooks/registry  *)
(* is authenticated, deduplicated by its row alone, and its events are     *)
(* relayed to NATS (src/events.rs).                                        *)
(*                                                                         *)
(* A delivery is sent at least once: again after a timeout, or by hand,    *)
(* under the same id, to any replica.  Each arrival runs one handler; a    *)
(* step goes from one await to the next.  Both dedupe services may fail,   *)
(* before or after they have acted, and both are then skipped; a relay is  *)
(* sent once and not acknowledged.                                         *)
(*                                                                         *)
(* enqueue_build is reduced to its answer (BuildQueue has the rest): the   *)
(* webhook's requests carry no requestId, so nothing in it deduplicates.   *)
(***************************************************************************)
EXTENDS BuildRequests

CONSTANTS
  Deliveries,   \* what is sent: [provider, id, signed, event, actionable, ref, images]
  Handlers,     \* arrivals, each on one replica
  Home,         \* the replica of each handler
  Rules,        \* BUILD_SERVER_WEBHOOK_RULES: a sequence of [events, branch, tags]
  UseDB,        \* BUILD_SERVER_DATABASE_URL is set
  UseLease,     \* BUILD_SERVER_COORDINATION_ENABLED
  MaxExpiries   \* bound: leases that expire

Key(d) == <<d.provider, d.id>>

\* An id names one delivery of its provider: both guards rest on it.
ASSUME WebhookAssumption ==
  /\ Deliveries # {} /\ \A d \in Deliveries : d.images \in Nat
  /\ \A d, e \in Deliveries : Key(d) = Key(e) => d = e
  /\ UseDB \in BOOLEAN /\ UseLease \in BOOLEAN
  /\ MaxExpiries \in Nat

VARIABLES
  handler,   \* per arrival: stage, delivery, verdict of the submission, reply
  rows,      \* webhook_deliveries: <<provider, id>> of what was received
  marks,     \* webhook_deliveries: ids recorded as enqueued
  lease,     \* per delivery: the idempotency key at the service
  builds,    \* per delivery: jobs it has put into a queue
  relays,    \* per delivery and event: messages NATS has taken
  lost,      \* history: the services that have let a handler down
  expiries   \* leases expired so far

vars == <<handler, rows, marks, lease, builds, relays, lost, expiries>>

Guards == {"db", "lease"}
Services == Guards \cup {"nats"}
Stages == {"idle", "recording", "claiming", "enqueuing", "finishing", "marking",
           "relaying", "answered", "dropped"}
Working == Stages \ {"idle", "answered", "dropped"}

Delivery(h) == handler[h].delivery
FromGithub == {d \in Deliveries : d.provider = "github"}
FromRegistry == Deliveries \ FromGithub
Stage(h) == handler[h].stage
At(h, stage) == Stage(h) = stage

\* Some rule matches (module BuildRequests).
Matched(d) == Matching(Rules, d) # {}

Init ==
  /\ handler = [h \in Handlers |->
       [stage |-> "idle", delivery |-> CHOOSE d \in Deliveries : TRUE,
        verdict |-> "none", sent |-> 0, reply |-> "none"]]
  /\ rows = {} /\ marks = {}
  /\ lease = [d \in Deliveries |-> [state |-> "free"]]
  /\ builds = [d \in Deliveries |-> 0]
  /\ relays = [d \in Deliveries |-> [i \in 1..d.images |-> 0]]
  /\ lost = {s \in Guards : (s = "db" => ~UseDB) /\ (s = "lease" => ~UseLease)}
  /\ expiries = 0

-----------------------------------------------------------------------------
(***************************************************************************)
(* The handler                                                             *)
(***************************************************************************)
Goto(h, stage) == handler' = [handler EXCEPT ![h].stage = stage]
Answer(h, reply) ==
  handler' = [handler EXCEPT ![h].stage = "answered", ![h].reply = reply]

\* Signature or shared secret, delivery id, ping and JSON are judged before
\* anything is touched.
Arrive(h, d) ==
  /\ At(h, "idle")
  /\ handler' = [handler EXCEPT ![h] =
       [stage    |-> IF d.signed /\ d.event # "ping" THEN "recording" ELSE "answered",
        delivery |-> d,
        verdict  |-> "none",
        sent     |-> 0,
        reply    |-> IF ~d.signed THEN "rejected"
                     ELSE IF d.event = "ping" THEN "ok" ELSE "none"]]
  /\ UNCHANGED <<rows, marks, lease, builds, relays, lost, expiries>>

AfterRecord(h) == IF Delivery(h) \in FromGithub THEN "claiming" ELSE "relaying"

\* Fault: the rows of one provider shadow those of the other.
KnownById(h) == \E row \in rows : row[2] = Delivery(h).id

Known(h) == Key(Delivery(h)) \in rows

\* The unique row: new, known, or (an error, which counts as new) unknown.
Record(h) ==
  /\ At(h, "recording")
  /\ \/ /\ UseDB /\ ~Known(h)
        /\ rows' = rows \cup {Key(Delivery(h))}
        /\ Goto(h, AfterRecord(h))
        /\ UNCHANGED lost
     \/ /\ UseDB /\ Known(h)
        /\ Answer(h, "duplicate")
        /\ UNCHANGED <<rows, lost>>
     \/ /\ rows' \in IF UseDB THEN {rows, rows \cup {Key(Delivery(h))}} ELSE {rows}
        /\ lost' = lost \cup {"db"}
        /\ Goto(h, AfterRecord(h))
  /\ UNCHANGED <<marks, lease, builds, relays, expiries>>

\* publish_image_event: an event that is not taken is only logged.
Relay(h) ==
  LET i == handler[h].sent + 1 IN
  /\ At(h, "relaying") /\ i \in DOMAIN relays[Delivery(h)]
  /\ handler' = [handler EXCEPT ![h].sent = i]
  /\ \/ relays' = [relays EXCEPT ![Delivery(h)][i] = @ + 1] /\ UNCHANGED lost
     \/ lost' = lost \cup {"nats"} /\ UNCHANGED relays
  /\ UNCHANGED <<rows, marks, lease, builds, expiries>>

AnswerRelayed(h) ==
  /\ At(h, "relaying") /\ handler[h].sent = Delivery(h).images
  /\ Answer(h, "relayed")
  /\ UNCHANGED <<rows, marks, lease, builds, relays, lost, expiries>>

\* What follows the dedupe: deletions, unfinished runs, malformed commits and
\* deliveries no rule matches are ignored.
Judged(h, stage, verdict) ==
  handler' = [handler EXCEPT ![h].stage = stage, ![h].verdict = verdict]

Proceed(h) ==
  IF Delivery(h).actionable /\ Matched(Delivery(h))
  THEN Judged(h, "enqueuing", "none")
  ELSE Judged(h, "finishing", "ignored")

HoldLease(h) == lease' = [lease EXCEPT ![Delivery(h)] = [state |-> "held", by |-> h]]

\* Fault: HTTP 409 from the service counts as an error and is skipped.
ClaimIgnoringConflict(h) ==
  /\ At(h, "claiming")
  /\ Proceed(h)
  /\ IF lease[Delivery(h)].state = "free" THEN HoldLease(h) ELSE UNCHANGED lease
  /\ UNCHANGED <<rows, marks, builds, relays, lost, expiries>>

\* idempotency_claim: first writer wins; an error goes on without the lease.
Claim(h) ==
  /\ At(h, "claiming")
  /\ \/ /\ UseLease /\ lease[Delivery(h)].state = "free"
        /\ HoldLease(h)
        /\ Proceed(h)
        /\ UNCHANGED lost
     \/ /\ UseLease /\ lease[Delivery(h)].state # "free"
        /\ Answer(h, "duplicate")
        /\ UNCHANGED <<lease, lost>>
     \/ /\ \/ UNCHANGED lease
           \/ UseLease /\ lease[Delivery(h)].state = "free" /\ HoldLease(h)
        /\ lost' = lost \cup {"lease"}
        /\ Proceed(h)
  /\ UNCHANGED <<rows, marks, builds, relays, expiries>>

\* 503 when the queue is full, 400 when the rule makes an invalid request.
Enqueue(h) ==
  /\ At(h, "enqueuing")
  /\ \/ /\ builds' = [builds EXCEPT ![Delivery(h)] = @ + 1]
        /\ Judged(h, "finishing", "accepted")
     \/ /\ Judged(h, "finishing", "refused")
        /\ UNCHANGED builds
  /\ UNCHANGED <<rows, marks, lease, lost, relays, expiries>>

\* complete or abandon, by the holder the lease knows: the process.
Settled(h, state) ==
  LET key == lease[Delivery(h)] IN
    IF key.state = "held" /\ Home[key.by] = Home[h]
    THEN [lease EXCEPT ![Delivery(h)] = [state |-> state]] ELSE lease

\* Fault: the verdict goes out in place of the call it selects.
VerdictAsState(h) == handler[h].verdict

\* Fault: the lease is completed whatever became of the submission.
CompleteAlways(h) == "completed"

FinalState(h) == IF handler[h].verdict = "refused" THEN "free" ELSE "completed"

AfterFinish(h) ==
  IF handler[h].verdict = "accepted" /\ UseDB
  THEN Goto(h, "marking")
  ELSE Answer(h, handler[h].verdict)

\* Fault: an early return leaves the lease of an ignored delivery held.
FinishOnlyBuilds(h) ==
  /\ At(h, "finishing")
  /\ lease' = IF handler[h].verdict = "ignored" THEN lease ELSE Settled(h, FinalState(h))
  /\ AfterFinish(h)
  /\ UNCHANGED <<rows, marks, builds, relays, lost, expiries>>

\* idempotency_finish; a call that fails is only logged.
Finish(h) ==
  /\ At(h, "finishing")
  /\ \/ lease' = Settled(h, FinalState(h)) /\ UNCHANGED lost
     \/ UseLease /\ lost' = lost \cup {"lease"} /\ UNCHANGED lease
  /\ AfterFinish(h)
  /\ UNCHANGED <<rows, marks, builds, relays, expiries>>

Mark(h) ==
  /\ At(h, "marking")
  /\ \/ marks' = marks \cup {Delivery(h)} /\ UNCHANGED lost
     \/ lost' = lost \cup {"db"} /\ UNCHANGED marks
  /\ Answer(h, "accepted")
  /\ UNCHANGED <<rows, lease, builds, relays, expiries>>

\* GitHub stops waiting after 10 s and closes the connection, or the replica
\* dies: the handler future is dropped where it stands, in enqueue_build also
\* behind the insertion of the job.
Drop(h) ==
  /\ Stage(h) \in Working
  /\ Goto(h, "dropped")
  /\ \/ UNCHANGED builds
     \/ At(h, "enqueuing") /\ builds' = [builds EXCEPT ![Delivery(h)] = @ + 1]
  /\ UNCHANGED <<rows, marks, lease, lost, relays, expiries>>

\* The service: ttl_ms of a claim, retention_ms of a completed key.
Expire(d) ==
  /\ lease[d].state # "free"
  /\ expiries < MaxExpiries
  /\ expiries' = expiries + 1
  /\ lease' = [lease EXCEPT ![d] = [state |-> "free"]]
  /\ lost' = lost \cup {"lease"}
  /\ UNCHANGED <<handler, rows, marks, builds, relays>>

HandlerStep(h) ==
  \/ Record(h)
  \/ Claim(h) \/ Enqueue(h) \/ Finish(h) \/ Mark(h)
  \/ Relay(h) \/ AnswerRelayed(h)

Next ==
  \/ \E h \in Handlers : HandlerStep(h) \/ Drop(h) \/ \E d \in Deliveries : Arrive(h, d)
  \/ \E d \in Deliveries : Expire(d)

Spec == Init /\ [][Next]_vars

-----------------------------------------------------------------------------
(***************************************************************************)
(* Properties                                                              *)
(***************************************************************************)
Verdicts == {"none", "ignored", "accepted", "refused"}
Replies == Verdicts \cup {"rejected", "ok", "duplicate", "relayed"}
Arrivals ==
  [stage : Stages, delivery : Deliveries, verdict : Verdicts, sent : Nat, reply : Replies]
Leases == [state : {"free", "completed"}] \cup [state : {"held"}, by : Handlers]

\* Every variable has the type the code, or the service, gives it.
TypeOK ==
  /\ handler \in [Handlers -> Arrivals]
  /\ rows \subseteq {Key(d) : d \in Deliveries} /\ marks \subseteq Deliveries
  /\ lease \in [Deliveries -> Leases]
  /\ builds \in [Deliveries -> Nat]
  /\ DOMAIN relays = Deliveries /\ \A d \in Deliveries : relays[d] \in [1..d.images -> Nat]
  /\ lost \subseteq Services
  /\ expiries \in 0..MaxExpiries

\* At-least-once delivery cannot double-build: a delivery is built twice only
\* once both guards, the row and the lease, have let some handler down.  An event
\* is relayed twice only once the row, which is its only guard, has.
OncePerDelivery ==
  \A d \in Deliveries :
    /\ builds[d] > 1 => Guards \subseteq lost
    /\ \A i \in DOMAIN relays[d] : relays[d][i] > 1 => "db" \in lost

\* A completed lease stands for a delivery that was built or ignored: a refused
\* one stays open for its retry.
CompletedMeansHandled ==
  \A d \in Deliveries :
    lease[d].state = "completed"
    => builds[d] > 0 \/ ~(d.actionable /\ Matched(d))

\* "The idempotency lease is finished so no zombie holder is left behind": a held
\* lease has its handler at work, unless that was dropped or a call to the
\* service failed.
NoZombieHolder ==
  \A d \in Deliveries :
    lease[d].state = "held" =>
      \/ Stage(lease[d].by) \in {"enqueuing", "finishing", "dropped"}
      \/ "lease" \in lost

AnsweredDuplicate(h) ==
  Stage(h) # "answered" /\ Stage(h)' = "answered" /\ handler'[h].reply = "duplicate"

\* Some other handler is, or was when it was dropped, at work on the delivery.
AtWork(h) ==
  \E g \in Handlers \ {h} :
    Delivery(g) = Delivery(h) /\ Stage(g) \in Working \cup {"dropped"}

\* A delivery of GitHub answered as a duplicate has been built or ignored, or a
\* handler is at work on it: a refused delivery can be retried.
DuplicateMeansHandled ==
  [][\A h \in Handlers :
       AnsweredDuplicate(h) /\ Delivery(h) \in FromGithub
       => \/ builds[Delivery(h)] > 0
          \/ ~(Delivery(h).actionable /\ Matched(Delivery(h)))
          \/ AtWork(h)]_vars

\* A delivery of the registry answered as a duplicate has all its events relayed,
\* or a handler is at work on it; what NATS did not take is not relayed again.
DuplicateMeansRelayed ==
  [][\A h \in Handlers :
       AnsweredDuplicate(h) /\ Delivery(h) \in FromRegistry
       => \/ \A i \in DOMAIN relays[Delivery(h)] : relays[Delivery(h)][i] > 0
          \/ AtWork(h)
          \/ "nats" \in lost]_vars
=============================================================================
