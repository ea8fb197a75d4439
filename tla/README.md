# TLA+ models of gha-indie-worker

`gha-indie-worker.rs` is a build server: it takes build requests over HTTP,
webhooks and NATS, queues them in memory, runs them one external command at a
time (or hands them to a lambda runner), and keeps other replicas out of the same
image with a lock service. This directory holds TLA+ models of it, TLC
configurations, and TLAPS proofs. Paths below are relative to `src/src/` unless
they start with `src/`.

## 1. The system

| component | state | operations | meets | hard part |
|---|---|---|---|---|
| build queue (`jobs.rs`, `state.rs`, `types.rs`) | job map, claimed request ids, semaphore, counters | `enqueue_build`, `prune_jobs`, `update_job`, `run_job` | every intake calls `enqueue_build`; it spawns `run_job` | locks taken and given back around awaits; handlers dropped by disconnects; limits |
| fiducia locks (`fiducia.rs`) | grant and retry budget of a build; lock, TTL and token at the service | `acquire_lock`, `release_lock` | `run_job` around the execution; the periodic secret sync | lost replies, late requests, TTL against deadline, crashes |
| GitHub webhook (`webhooks.rs`) | a row per delivery, a lease per delivery | `github_webhook`, `idempotency_claim/finish`, `record_webhook_delivery` | Postgres, fiducia, `enqueue_build` | at-least-once delivery, both guards failing open, dropped handlers |
| registry webhook (`webhooks.rs`, `events.rs`) | a row per delivery | `registry_webhook`, `publish_image_event` | Postgres, NATS | the row is the only guard; record first, relay once, unacknowledged |
| NATS intake (`events.rs`, `nats_submit.rs`) | the consumer at JetStream, one message in hand | `run_request_intake`, `submit_from_nats` | JetStream, `enqueue_build` | redelivery to other replicas, acknowledgement against record |
| NATS events (`events.rs`) | none | `publish_lifecycle` | NATS | fire and forget |
| job records (`db.rs`, `main.rs`) | `build_jobs` rows | `persist_job`, `fail_interrupted_jobs` | `update_job`, `enqueue_build`, boot | rows an await behind their status, writes that fail silently, boot beside living replicas |
| executors (`jobs.rs`, `exec.rs`, `lambda_exec.rs`, `ecr.rs`, `profiles.rs`) | the process of a command, its pipes, the log, the clone, the container of a profile, the archive | `execute_build`, `execute_profile`, `lambda_exec::execute`, `run_logged_command_inner` | `run_job`, the operating system, containerd, the lambda runner | two timeouts, descendants, what a job leaves behind, effects that cannot be undone |
| rules and validation (`webhooks.rs`, `validation.rs`, `profiles.rs`, `types.rs`) | none | `parse_rules`, `rule_matches`, `build_request_from_rule`, `validate_build_request` | webhooks, `enqueue_build` | what the executors rely on; a rule becoming a request that does something else |
| HTTP surface (`http.rs`) | none of its own | `submit_build`, `get_build*`, `metrics` | the job map and the job directories | handlers dropped at awaits; files read while written |
| secret sync (`gh_secrets.rs`, `db.rs`) | the environment of a process; audit rows with value hashes | `parse_rules`, `sync_all`, `run_periodic_sync`, `POST /secrets/sync` | GitHub, Postgres, fiducia | passes that interleave, or are cut short between the PUT and its row; replicas with different environments |
| hosted CI classifier (`hosted_ci.rs`) | none | `classify` | - | what counts as evidence about the source |
| configuration, ECR signing, crypto, entities, documents | none | - | - | - |

What makes each of them correct:

* **Queue.** One retained job per request id; a claim exactly as long as its job;
  a limited queue; permits conserved on every return; counters that add up; a job
  runs at most once, reaches one verdict, and is forgotten only after it.
* **Locks.** Builds under grants never overlap; a grant lasts as long as its
  build; fencing tokens grow with the starts; a build goes on without the lock
  only when the service cannot be reached; no crash holds the lock for ever.
* **GitHub webhook.** One build per delivery while one of the guards works; a
  delivery answered `duplicate` was dealt with; leases end in the right state.
* **Intake and records.** What is acknowledged is on record; a row lags its job by
  one statement and then agrees with it; no success is written over, and a failure
  by nobody but the job itself; no row stays open; a request is not built twice.
* **Executors.** Effects in the order of the plan; success means all of them; one
  command at a time, none beyond its job; no clone and no container left behind;
  every job ends; a job that an event started did what its rule says.
* **Registry webhook.** An event is relayed once, and a delivery answered
  `duplicate` was relayed.
* **Secret sync.** The newest hash on record is that of the value GitHub has, for
  as long as nothing was cut short; GitHub ends up with the values of the source
  of truth.
* **Classifier.** Nothing that never ran a step passes for evidence.

`PROJECT.json` lists every hazard with its line and the properties that cover it.

## 2. Modules

| module | models | checked by | proved in |
|---|---|---|---|
| `BuildPromise` | abstract: the ledger of jobs a submitter can rely on | as a property of `BuildQueue` | `BuildQueueRefinement` |
| `BuildQueue` | `enqueue_build`, `prune_jobs`, `run_job`, await by await | `MCBuildQueue` | `BuildQueueProofs`, `BuildQueueRefinement` |
| `FiduciaLock` | `acquire_lock`, `release_lock`, `run_job` around them, the lock service, time | `MCFiduciaLock` | `FiduciaLockProofs` |
| `Webhooks` | `github_webhook` with the delivery row and the lease, `registry_webhook` with its row and its relays | `MCWebhooks` | `WebhooksProofs` |
| `NatsIntake` | the intake loop, the JetStream consumer, a caller with the same request, job rows and the statements that write them, crashes and boots | `MCNatsIntake` | `NatsIntakeProofs` |
| `BuildRequests` | documents, profiles, rules, their validation and the steps of a request: operators only | in `BuildExecution`, `Webhooks` | `BuildExecutionProofs` |
| `BuildExecution` | a validated request, its commands, timeouts, clone, container and archive | `MCBuildExecution` | `BuildExecutionProofs` |
| `SecretSync` | passes of `sync_all` by loops and requests, the record, the lock, GitHub, restarts | `MCSecretSync` | `SecretSyncProofs` |
| `HostedCi` | `classify` | - | `HostedCi` |

The modules meet at `enqueue_build` and `run_job`. `BuildQueue` is the full
account of both; where another module needs one of them it keeps what that module
can tell apart: `Webhooks` its answer, `NatsIntake` its answer, the await it can
be dropped at, and the job's status and row, `FiduciaLock` the time around the execution, `BuildExecution` the
execution itself, which is one step (`Execute`) in `BuildQueue`. `BuildRequests` is
shared: `Webhooks` takes the matching of rules from it, `BuildExecution` all of it.
`SecretSync` meets the rest only in the lock service, under a key of its own.

### BuildQueue

A step runs from one await to the next. The `jobs` lock is never held across an
await, so its critical sections are atomic; the writer of `recent_request_ids` is
held from the lookup to the insertion, across awaits, and is the variable
`writer`. `call[s].pc` says which await a call of `enqueue_build` is at:
`want-writer` (574-581), `lookup` (583-610), `check` (612-631), `insert`
(633-663), `prune` (665-677). `task[j]` does the same for `run_job`. `Disconnect`
is axum dropping the handler's future: guards are given back, what was inserted
stays, nothing is spawned. It applies to `HttpCallers` only. Counters that nothing
reads back, rows and events are left out: they are awaits without an effect on
this state.

Definitions commented `Fault:` are variants of the definition that follows them,
with one plausible bug each; no specification uses them, and every property of a
passing run has one that breaks it (`PROJECT.json`, `mutants`).

### FiduciaLock

One lock key. A build asks, hears `busy`, an error or nothing, retries within its
budget, and executes under a grant or, with best-effort coordination, without. The
service is external: try-locks with a TTL, monotonic tokens, releases that name
the token. A reply can be lost after the service acted and a request can arrive
after its client gave up (`late`). The holder a client sends names its process,
so the model assumes that the service does not give the lock again to a holder
that has it; with a re-entrant service two builds of one process would overlap.
Time is counted in ticks; `Slack` is the longest time between grant and start. The
assumption `TTLCoversDeadline` is `TTL > Slack + Deadline`. The default TTL is
3900 s and the default deadline 3600 s, so the premise is that less than 300 s lie
between a grant and its start (in the code, a row to write and the job to read);
nothing enforces it, and a deployment that changes one of the two numbers may lose
it. A reply can be lost whole, which is an error, or lose its body alone, which
makes a 2xx without a grant of it, counts as busy and leaves `last_error` as it
was (`ReplyLost`).

### Webhooks

One handler per arrival, from await to await, on one of two replicas. The row, the
claim, the finish, the mark and the relay can each fail before or after they
acted; `lost` remembers which service has let a handler down. Authentication and
parsing are decided in one step before anything is touched. `Drop` is the sender
closing the connection, or the replica dying.

`registry_webhook` shares the table of rows with `github_webhook`, under its own
provider: the same id may come from both. It has no lease; `relays` counts, per
event of the delivery, the messages NATS has taken. `sent` is how far its loop
over the events is.

### NatsIntake

The stream and its consumer are external, modelled from the configuration the
code gives them: explicit acks, `ack_wait`, `max_deliver`. `max_ack_pending`
only withholds deliveries and is left out. A database is configured.

A job is named by its message and the delivery it comes from, so two jobs of one
message are visible; number 0 is the job of a caller of `POST /builds` with the
same request. A delivery that finds its id held by a job of that replica, whoever
asked for it, is acknowledged as a duplicate (`Claimants`, `Answers`), as
`enqueue_build` answers `Ok(existing)`. The caller may leave while its row is being
written (`CallerLeaves`): its record stays, an orphan that no task will run.

A status changes in memory (`task`) and its row an await later. `owed` is the
status whose statement is under way: `Insert` and `Update` set it, `Write` is
`persist_job`, an upsert that can fail, and only behind it does the task, or the
call of `enqueue_build`, go on. The effect of the statement and the return from its
await are one step: in between, whoever issued it does nothing, and what others do
(a boot, a crash) finds the same row on either side of the return. A write that
fails leaves the job in `unwritten` until a later one succeeds.

A replica's crash takes everything in its memory. `Boot` runs
`fail_interrupted_jobs`: `FailInterrupted` sets `failed` in every open row, those of
living replicas included, as the code does. Such a row is written over when its
job's next statement ends, with `running` or with its verdict; `RecoveredIsTerminal`,
which states the comment at `db.rs:106`, is violated by that. What does hold is
`VerdictStays`: a success is never written over, and a failure only by what the
job's own task still owes; and `RowFollowsTask`: behind its statement the row is
the status in memory, or `failed` by a boot while the job is open, and from its
last statement on the row is the verdict.

What the properties except, since the code promises no more, or breaks it:

* A duplicate of a caller's job is acknowledged while that job may have no row,
  and if its caller then leaves, or its replica crashes, no job carries the request
  any more and the stream will not deliver it again. `AckedIsOnRecord` names it
  (`Unrecorded`), `RequestsConclude` too (`CallerLost`). It is the consequence for
  NATS of what the run `disconnect` shows; without either exception TLC finds it.
* A row whose last statement failed is not looked at (`unwritten`), a message that
  used up `max_deliver` (`exhausted`) or that was terminated concludes as such, and
  the row of an orphan stays open until a boot.

### BuildRequests

Strings are the classes the code sorts them into: an image is of ECR, of another
allowed registry, without a tag, or foreign; a path is inside the repository or
not; a ref is a head, a tag, or the bare name of a `workflow_run`. A definition is
the decision of the function it is named after. `build_request_from_rule` keeps
what the code does with refs: a tag stays `refs/tags/...` in the request, and an
image named after a ref with a slash loses its tag. `Plan` is the sequence of
commands `execute_build` or `execute_profile` runs, `Executable` what they check
again, or take for granted, before each of them.

### BuildExecution

A request of a caller, or one that a rule made of an event, that validation let
through (`origin`, `request`). A command is a process whose exit is awaited under
`job_timeout`; then its two readers are joined, which needs every holder of the
pipes to be gone. `Deadline` drops the whole future: the command is killed
(`kill_on_drop`), its descendants are not. `RemoveWorkdir` is what `run_job` does
before the verdict: it can fail when a process still writes below the clone. The
container of a profile belongs to containerd and outlives a client that is killed.

`done` records what took effect, so that a verdict can be compared with what
happened; `cut` records that a command was left before it and its pipes had ended.
How git resolves a ref given to `--branch` is external: it prefixes `refs/heads/`
or `refs/tags/` itself.

### SecretSync

A pass goes from await to await: the key of a repository, then for each secret the
newest hash on record, the PUT, the row. A hash stands for its value. `env` is what
a process was started with, so a restart is what brings a rotated value to a
replica, and two replicas can carry different ones. Passes of the loops ask for
the lock; passes of `POST /secrets/sync` do not, as in the code. A PUT whose sender
no longer waits may still arrive (`stray`). The lock's TTL is that of builds
(3900 s); a pass is far shorter, so the lock expires only when its holder is gone.

`slips` is history: `fault` once the record had occasion to differ from GitHub
because a pass was cut short between the PUT and its row, a PUT took effect
unheard, or a row was lost; `race` once two passes with different environments
were at work together. The code repairs neither until the value changes, and the
properties say what holds otherwise.

### HostedCi

`classify` is a function of four fields. The theorems quote what its comments say
of it; there is no state to explore, so TLC has no part in it.

## 3. Runs

Passing runs:

| run | what it asks | instance | size |
|---|---|---|---|
| `safety` | types, claims against jobs, pruning against tasks, permits, the bound of the queue, and that the queue implements `BuildPromise` | an HTTP and a NATS caller, one id with two bodies and an anonymous request, 3 jobs, limits 1 | 1.2 M states |
| `liveness` | every call returns, every accepted job gets its verdict; counters; the exact bound for identified jobs | no disconnects, two ids, coordination required, 2 jobs | 14 k |
| `lock` | exclusion under grants, tokens, and that builds settle and the lock is freed | a strict and a best-effort (remote) build, 2 attempts, 3 grants, one late request | 71 k |
| `webhook` | one build per delivery, one relay per event, the end of leases, what `duplicate` tells the registry | 3 arrivals on 2 replicas, 6 kinds of delivery, a registry delivery with the id of a GitHub one, one expiry | 1.5 M |
| `recovery` | acknowledged is on record, rows follow jobs, verdicts stay, requests conclude, rows close | 2 replicas, a message with an id or garbage, a caller with the same request, 2 deliveries, 2 jobs, one fault (a crash, a refused write, or the caller leaves) | 0.36 M |
| `execution` | order of effects, meaning of success, guards, rules carried out, overlap, what is left behind, end of every job | 6 configurations; what they accept of some 400 documents, and of 5 rule documents under 4 events | 56 k |
| `sync` | the record against GitHub, serial passes under grants, convergence | 2 replicas with a loop each and a request, 3 documents, one variable not set or protected, with database and lock or neither; a rotation, 2 restarts, one fault, one late PUT | 0.7 M |

Runs that find a violation; each checks one claim of the repository:

| run | claim | what happens instead |
|---|---|---|
| `disconnect` | `jobs.rs:574` concurrent deliveries observe one accepted job | the client leaves between insertion and spawn: its id answers every retry with a job nobody runs |
| `sticky_error` | `fiducia.rs:43-47` Busy and Unavailable | an early error outlives later `busy` answers; the build goes on beside the holder |
| `webhook_retry` | `jobs.rs:613` a refused delivery can retry later | the row of the refused delivery makes its redelivery a `duplicate` |
| `nats_twice` | `fiducia.rs:11-14` at-least-once delivery cannot double-build | no lease is claimed for NATS; the other replica builds the message again |
| `recovered` | `db.rs:106-107` what a previous process left open is terminal now | a boot fails the row of a job that a living replica runs; the job's next statement writes over it |

Five further configurations are kept for reading; TLC finds each violated, for a
reason the model states:

* `FiduciaLock_lambda.cfg`: a lambda build that outlives its deadline overlaps the
  next build (`RemoteSerialized`). Its lock is released as if the function had
  stopped.
* `BuildQueue_anonymous.cfg`: two anonymous calls pass the same reading of the
  queue's limit (`QueueBounded`); the true bound, `QueueOvershoot`, is proved.
* `BuildExecution_artifacts.cfg`: an archive is served while it is written and
  after failures (`ArtifactsAfterSuccess`); what a successful job serves is whole
  (`SuccessMeansDone`).
* `SecretSync_race.cfg`: `POST /secrets/sync` on a replica with an older
  environment runs beside the loop of another, and without any failure a value is
  skipped that GitHub does not have (`SkippedIsThere`).
* `BuildExecution_tags.cfg`: `webhooks.rs:40` says of a rule's `tags` "Also react to
  tag pushes", but the request of a tag push asks for `refs/tags/...`, which
  `git clone --branch` cannot resolve: every such job fails (`TagPushesClone`).

`NatsIntake_faults.cfg`, which passes, asks the safety properties of `recovery` of a
larger instance: a message without an id beside the one with, and two faults (1.2 M
states).

**Why the bounds are enough.** Two callers are enough for every race of
`enqueue_build`, which is pairwise: the writer lock serialises identified calls,
and the anonymous race is shown in general by the proof of `QueueOvershoot`. Three
jobs and a retention of one give pruning a choice and a job it must spare. Two
builds and three grants let a lock pass on, expire and be handed to nobody. Two
deliveries of one message are a redelivery; a crash of either replica in any state
includes crashes before, between and after row and acknowledgement. `MaxJobs` is
two: a job and its duplicate, or a caller's job and the message's. A caller posts
only once the message is published, which loses nothing: publication changes the
stream alone and can come first. One fault leaves all else to interleave freely
with it; `NatsIntake_faults.cfg` has two. Three arrivals
are a duplicate in the same process and one in another. A registry delivery of two
events has one that is relayed and one that is not. The documents of `execution`
hold every class of each field in a request that is otherwise sound, and the rule
documents a rule that shadows another, one that is invalid, and one that makes an
invalid request. Two loops, a request and one rotation let an older environment
meet a newer one; two restarts let it go away. Every bound is a constant
marked `bound`. `MaxSubmitted` is reserved before a call starts (`Undecided`), so
that it never stops a call half way.

**Symmetry** is used by `webhook` alone, over the two arrivals on one replica,
which nothing tells apart; its temporal property speaks of single steps only.

**Deadlock** is checked for `BuildQueue`, where invalid requests can always
arrive. The other configurations switch it off: their builds, arrivals, messages
and jobs are finite in number and end, or (`SecretSync`) their rules may be empty,
which leaves a server that syncs nothing.

**Fairness.** A spawned task or a handler that is not dropped is polled: weak
fairness of its steps. tokio's `RwLock` and `Semaphore` are first-in first-out:
strong fairness of the steps that wait for them. Timers fire (`Tick`, `Deadline`,
`AckWaitExpires`, the loop of the sync), an abandoned lock expires, what was sent
arrives, `run_job` goes on to the removal of the clone and the verdict, a dead
replica is restarted (`Boot`), a statement ends, with or without effect (`Write`),
JetStream goes on delivering a request to some live replica (strong fairness of
`Deliver`, which crashes can disable; nothing is asked of it for garbage). No client is made to
send or to leave, no external command to end, no remote function to stop, no write
to succeed, no value to change. In `SecretSync` at most `MaxFaults` steps fail: a
GitHub that refuses for ever is not converged with.

## 4. Proofs

Every safety property a passing run checks is also a theorem, checked by TLAPS,
for every value of the constants their assumptions admit:

| module | theorems | of |
|---|---|---|
| `BuildQueueProofs` | `TypeCorrect`, `ClaimsCorrect`, `OneJobCorrect`, `JobFollowsTaskCorrect`, `PermitsCorrect`, `CountersCorrect` | `TypeOK`, `ClaimsMatchRetained`, `OneJobPerRequestId`, `JobFollowsTask`, `PermitsConserved`, `CountersConserve` |
| `BuildQueueRefinement` | `QueueOvershootCorrect`, `IdentifiedQueueCorrect`, `Refinement` | `QueueOvershoot`, `IdentifiedQueueBounded`, `KeepsPromise` |
| `FiduciaLockProofs` | `TypeCorrect`, `GrantBackedCorrect`, `SerializedCorrect`, `TokensCorrect` | `TypeOK`, `GrantBacked`, `Serialized`, `TokensFollowStarts` |
| `BuildExecutionProofs` | `TypeCorrect`, `EffectsCorrect`, `ExecutorsGuardedCorrect`, `SuccessCorrect`, `RulesCarriedOutCorrect`, `CleanCorrect`, `OverlapCorrect` | `TypeOK`, `EffectsInOrder`, `ExecutorsAreGuarded`, `SuccessMeansDone`, `RulesAreCarriedOut`, `CleanUnlessCutShort`, `CommandsDoNotOverlap` |
| `WebhooksProofs` | `TypeCorrect`, `OnceCorrect`, `CompletedCorrect`, `HoldersCorrect`, `DuplicatesCorrect` | `TypeOK`, `OncePerDelivery`, `CompletedMeansHandled`, `NoZombieHolder`, `DuplicateMeansRelayed` |
| `NatsIntakeProofs` | `TypeCorrect`, `AckedCorrect`, `RowsCorrect`, `VerdictsCorrect` | `TypeOK`, `AckedIsOnRecord`, `RowFollowsTask`, `VerdictStays` |
| `SecretSyncProofs` | `TypeCorrect`, `SerializeCorrect`, `RecordedCorrect` | `TypeOK`, `GrantedPassesSerialize`, `RecordedIsThere` |
| `HostedCi` | `EvidenceNeedsSteps`, `HintsJudgeNoSource`, `NoStepsLikeNone` | - (of every observation, by cases) |

**Assumptions.** All are `ASSUME`s of the modelled modules, so TLC evaluates them
in every run.

* `CallersAssumption` (finitely many callers, `NoCaller` none of them),
  `LimitsAssumption` (naturals, at least one permit), `CoordinationAssumption`.
  Callers may disconnect anywhere. `CountersCorrect` says that the counters never
  run ahead of the submissions, and that they account for all of them when nobody
  can disconnect; a call dropped between its admission and its insertion stays
  counted as submitted for ever.
* `LockAssumption` and `TTLCoversDeadline`: see `FiduciaLock` above. The second is
  the premise the exclusion rests on, and a deployment that lowers the TTL loses it.
  The wait budget allows at least one attempt: the loop tries before it looks at
  the time.
* `ExecutionAssumption`: requests, rules, events and settings have the types the
  deserializers give them. Rules need not be valid and requests need not be sound.
* `WebhookAssumption`: an id names one delivery of its provider. Both webhooks
  take the id from a header of the sender and refuse a request without one; what a
  provider that uses one id twice means by it the code cannot know.
* `IntakeAssumption`: requests are not garbage, the consumer delivers at least once.
* `SyncAssumption`: one loop per replica, and rules that name secrets.

### The arguments

**`BuildQueue`.** `ClaimsMatchRetained` is not inductive: between the lookup and
the insertion a call relies on its id being unclaimed. `IInv` adds that an
identified call from the lookup on holds the writer and, past the lookup, that its
id is unclaimed (`WriterHeld`); hence two insertions cannot meet on one id. It
adds that the job ids of admitted calls are their own and their tasks not yet
spawned (`JobIdsUnshared`, `CallsHoldRequests`), which keeps an insertion from
overwriting a job, and `JobFollowsTask`, which says that only jobs whose task has
ended are finished in the map, and so that pruning spares the others.

`PermitsInv` counts tasks by stage over `IInv`: each step moves at most one task
in or out of a set of stages (`StageMoves`), so cardinalities move by one.
`TypeCorrect` follows from both, since the range of `permits` is a consequence of
its conservation. `CountersInv` is proved in the same way over the admitted calls
and the tasks that have yet to be counted. The queue bounds count queued jobs and
admitted calls together: admission adds a call, insertion turns it into a job, all
else shrinks both sets. The refinement maps a job to its status in the map, or to
`forgotten` once it is gone and had a task: insertion accepts (`OneJobPerRequestId`
gives the guard), pruning forgets, status updates start, refuse and decide,
everything else stutters.

**`FiduciaLock`.** `GrantBacked` says that a build under a grant still has the
lock; what keeps it true is time. `TTLOutlasts`: the lock of a protected build has
lost no more of its TTL than the build has spent, so that with `TTL > Slack +
Deadline` it cannot expire first. `TokensOrdered` keeps a release that arrives
late from freeing the grant of another build, `LateReleasesEnded` from freeing
that of its own. `Serialized` follows, since the lock has one holder.

**`BuildExecution`.** `PlanExecutable` shows, from validation alone, that every
step of every plan is one the executors can run; `RuleMakesDocument` that what
rules make of events is a document validation is asked about. `IInv` then follows
one execution along its plan: `1..(at - 1) \subseteq done /\ done \subseteq 1..at`,
an exit code that is yet to be judged is that of the current step
(`CodeMeansDone`), and unless a command was left the execution knows what became
of it (`CommandKnown`). Success is then the end of the plan, and
`RulesAreCarriedOut` compares the plan with the first rule that matches, which the
lemma `LeastNatural` picks (from the library's well-foundedness of `<`, which
needs no operator as a parameter).

**`Webhooks`.** `RowGuards` and `LeaseGuards` are the two guards, each as long as its
service has let nobody down: the row of a delivery has one handler that may act,
and nothing was built before it got to it; a handler past its claim has the
lease, and a free lease stands for a delivery that was not built. Either alone
gives `OncePerDelivery`. `RelaysInOrder` and `RowsRelayed` do the same for the
registry: a row has its events relayed, or a handler at work, or one that was
dropped at it, which is what `duplicate` amounts to there.

**`NatsIntake`.** A job must be traced from its delivery to its row across crashes
that take everything but rows and stream. `DeliveriesFresh` and `CountsBounded`
keep the deliveries of a message apart, so that an insertion never meets a job
that is there; `HandsHoldJobs` says that a job of a message that is inserted, and
whose task is not spawned, is in the hand of the loop of a living replica.
`AnswersFounded` says that a loop sends an `ack` only for what is on record, or for
what a caller holds without a row; whoever finds a claim has `Claimants` to show,
and `RecordsFollow` what becomes of it.

`RowFollowsTask` is about one job at a time, and so is its proof: `Moves` lists what
any step can do to the task, the statement owed and the row of one job (inserted,
spawned, dropped, begun, ended, written, refused, forgotten, crashed, failed by a
boot), `MovesKeep` shows once that each of them keeps the invariant of a job, and the
lemmas of the actions only say which moves they are. What the row holds while a
statement is under way is in that invariant, since a boot can come between the status
and its row. `VerdictStays` then follows step by step: a row that changes is written
by its job's own statement, which is owed, or by a boot, which touches open rows
only; and a job that owes a statement has no `succeeded` in its row.

**`SecretSync`.** `RecordedIsThere` relates the record to GitHub through passes
that both change. `RecordFollows` is what holds them together before the first
slip: no PUT is astray, all passes at work carry one environment, what a pass has PUT
and not recorded is still at GitHub, and what it skips is still on record. Two
passes at one secret therefore carry one value (`SameValue`), and neither undoes
the other. `GrantedPassesSerialize` needs only `HeldHasLease`: a pass that was granted
the lock has it until it is given back, since the lease expires only when its
holder is gone.

**What the proofs changed.** The types of deliveries, rules and records are stated
in the modules, since nothing follows about a value without a type.
`FiduciaLock!TokensFollowStarts` compares the token of a build that starts with
those of all others, which is what is true and what a fence needs.
The alternatives of `NatsIntake!Answered` overlapped, which leaves the value of a
`CASE` open; TLC takes the first, the proof had to allow for each, and they are
exclusive now.

**Only model-checked.** Liveness under fairness is beyond the prover:
`KeepsPromiseFairly`, `CallsReturn`, `BuildsSettle`, `LockFreed`,
`RequestsConclude`, `RowsClose`, `JobEnds` and `Converges`. The properties of the
violation runs do not hold and have no proof.

## 5. Not modelled

* Lifecycle events (`events.rs`): published once, nothing depends on them.
* Configuration parsing (`config.rs`): it gives the constants their values.
* ECR signing, hashing, sealing (`ecr.rs`, `util.rs`): pure computations with nothing to
  interleave.
* The rules for strings: lengths, character sets, repository, namespace and build
  argument allowlists. `BuildRequests` takes them to be satisfied.
* The text of the log and its cap, I/O errors of the clean-up, metrics, listings,
  documents.
* Rows of the audit tables that nothing reads back.

## 6. Plan

Done: the queue with its promise and its proofs; locks; deliveries of both
webhooks; intake and records; requests, rules and executions; the secret sync; the
classifier.

Safety is proved wherever a run checks it. Next:

1. An abstract specification of deliveries (a request is built at most once per
   source, and nothing is built that was answered otherwise) that `Webhooks`
   refines while one of its guards works, step by step.
2. A lock seen from the builds (somebody has it, or nobody) that `FiduciaLock`
   refines under `TTLCoversDeadline`, and the tokens as its history.
3. Theorems about the operators of `BuildRequests` alone: which rules can never
   make a valid request, which requests two executors understand in the same way.
4. To model: `append_log` with its two writers and its cap.
