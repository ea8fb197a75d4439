----------------------------- MODULE SecretSync ------------------------------
(***************************************************************************)
(* The GitHub Actions secret sync (src/gh_secrets.rs): passes of sync_all, *)
(* started by the periodic loop of a replica under a fiducia lock, or by   *)
(* POST /secrets/sync (src/http.rs) without one.  A pass reads the value   *)
(* of a secret from the environment its process was started with, skips it *)
(* when the newest row on record carries its hash, else PUTs it and        *)
(* records what came of it (src/db.rs).                                    *)
(*                                                                         *)
(* A hash stands for its value; sealing is left out.  The source of truth, *)
(* which External Secrets copies into the environment of a starting pod,   *)
(* GitHub and the lock service are external.                               *)
(***************************************************************************)
EXTENDS Naturals, Sequences, FiniteSets

CONSTANTS
  Replicas,
  Loops, Posts,   \* passes of the periodic loops, passes of requests
  Home,           \* the replica of a pass
  Secrets,        \* the secrets at GitHub
  Values,         \* what they can be
  Unset,          \* an environment variable without a value
  Nobody,
  Modes,          \* settings: whether there are a database and a lock service
  Policies,       \* settings: allowlists
  RuleDocuments,  \* settings: what BUILD_SERVER_GH_SYNC_RULES can hold
  Sources,        \* the environment variable a secret comes from
  Truths,         \* the source of truth at the start
  MaxRotations,   \* bound on changes of the source of truth
  MaxRestarts,    \* bound on restarts of replicas
  MaxPosts,       \* bound on requests
  MaxFaults,      \* bound on what fails: locks, GitHub, rows, connections
  MaxStray        \* bound on PUTs that outlive the pass that sent them

Passes == Loops \cup Posts

Policy == [owners : {"none", "some"}, envs : {"none", "some"}]
Source == [protected : BOOLEAN, listed : BOOLEAN, prefixed : BOOLEAN]
Owners == {"listed", "unlisted", "malformed"}
SyncRules == [owner : Owners, secrets : Seq(Secrets)]

ASSUME SyncAssumption ==
  /\ Loops \cap Posts = {} /\ Nobody \notin Passes
  /\ Home \in [Passes -> Replicas]
  /\ \A w, x \in Loops : Home[w] = Home[x] => w = x
  /\ Unset \notin Values
  /\ Modes \subseteq [db : BOOLEAN, locks : BOOLEAN]
  /\ Policies \subseteq Policy
  /\ Sources \in [Secrets -> Source]
  /\ Truths \subseteq [Secrets -> Values \cup {Unset}]
  /\ RuleDocuments \subseteq Seq(SyncRules)
  /\ {MaxRotations, MaxRestarts, MaxPosts, MaxFaults, MaxStray} \subseteq Nat

VARIABLES
  settings,  \* the rules, and whether there are a database and a lock service
  truth,     \* the source of truth
  env,       \* the environment of each replica
  github,    \* the secrets GitHub has
  recorded,  \* the newest synced or skipped hash on record
  pass,      \* the passes of sync_all
  lease,     \* who has the lock of the periodic sync
  stray,     \* PUTs whose sender no longer waits
  spent,     \* what has been used of the bounds
  slips      \* history, with a database: how the record may have come to differ from GitHub

vars == <<settings, truth, env, github, recorded, pass, lease, stray, spent, slips>>

-----------------------------------------------------------------------------
(***************************************************************************)
(* Rules and policy                                                        *)
(***************************************************************************)
env_source_allowed(source, policy) ==
  /\ ~source.protected
  /\ IF policy.envs = "none" THEN source.prefixed ELSE source.listed

RuleValid(rule, policy) ==
  /\ rule.owner = "listed" /\ policy.owners = "some"
  /\ \A i \in DOMAIN rule.secrets : env_source_allowed(Sources[rule.secrets[i]], policy)

\* One invalid rule and the whole document is ignored.
parse_rules(rules, policy) ==
  IF \A i \in DOMAIN rules : RuleValid(rules[i], policy) THEN rules ELSE <<>>

Rules == settings.rules

Idle == [pc |-> "idle", rule |-> 1, secret |-> 1, value |-> Unset,
         status |-> "none", acted |-> FALSE, held |-> FALSE]

Init ==
  /\ \E policy \in Policies, rules \in RuleDocuments, mode \in Modes :
       settings = [rules |-> parse_rules(rules, policy), db |-> mode.db, locks |-> mode.locks]
  /\ truth \in Truths
  /\ env = [r \in Replicas |-> truth]
  /\ github = [s \in Secrets |-> Unset]
  /\ recorded = [s \in Secrets |-> Unset]
  /\ pass = [w \in Passes |-> Idle]
  /\ lease = Nobody
  /\ stray = {}
  /\ spent = [rotations |-> 0, restarts |-> 0, posts |-> 0, faults |-> 0]
  /\ slips = "none"

-----------------------------------------------------------------------------
(***************************************************************************)
(* Where a pass is                                                         *)
(***************************************************************************)
At(w, pc) == pass[w].pc = pc
Working == {w \in Passes : pass[w].pc \notin {"idle", "release"}}
Secret(w) == Rules[pass[w].rule].secrets[pass[w].secret]
Set(w, p) == pass' = [pass EXCEPT ![w] = p]

\* The pass is through: the loop gives back the grant it has.
Finished(p) == IF p.held THEN [Idle EXCEPT !.pc = "release", !.held = TRUE] ELSE Idle

ToRule(p, i) ==
  IF i \in DOMAIN Rules THEN [Idle EXCEPT !.pc = "key", !.rule = i, !.held = p.held]
  ELSE Finished(p)

\* Fault: a variable that is not set ends the pass.
ToSecretIfSet(w, p, i) ==
  LET secrets == Rules[p.rule].secrets IN
    IF i \notin DOMAIN secrets THEN ToRule(p, p.rule + 1)
    ELSE LET value == env[Home[w]][secrets[i]] IN
      IF value = Unset THEN Finished(p)
      ELSE [p EXCEPT !.secret = i, !.value = value, !.status = "none", !.acted = FALSE,
                     !.pc = IF settings.db THEN "look" ELSE "put"]

\* Fault: a variable that is not set counts as an empty value.
ToSecretUnchecked(w, p, i) ==
  LET secrets == Rules[p.rule].secrets IN
    IF i \notin DOMAIN secrets THEN ToRule(p, p.rule + 1)
    ELSE [p EXCEPT !.secret = i, !.value = env[Home[w]][secrets[i]], !.acted = FALSE,
                   !.status = "none", !.pc = IF settings.db THEN "look" ELSE "put"]

\* The next secret of the rule, with its value; one that is not set is failed.
ToSecret(w, p, i) ==
  LET secrets == Rules[p.rule].secrets IN
    IF i \notin DOMAIN secrets THEN ToRule(p, p.rule + 1)
    ELSE LET value == env[Home[w]][secrets[i]] IN
      [p EXCEPT !.secret = i, !.value = value, !.acted = FALSE,
                !.status = IF value = Unset THEN "failed" ELSE "none",
                !.pc = IF value = Unset THEN "row" ELSE IF settings.db THEN "look" ELSE "put"]

-----------------------------------------------------------------------------
(***************************************************************************)
(* How passes start and end                                                *)
(***************************************************************************)
\* The record may no longer agree with GitHub; a fault outweighs a race.
Slip(occasion, kind) ==
  slips' = IF occasion /\ settings.db /\ slips # "fault" THEN kind ELSE slips

Fault ==
  /\ spent.faults < MaxFaults
  /\ spent' = [spent EXCEPT !.faults = @ + 1]

\* Two passes that carry different environments are at work together.
Racing(w) == \E x \in Working \ {w} : env[Home[x]] # env[Home[w]]

Begin(w, held) ==
  /\ Rules # <<>>
  /\ Set(w, ToRule([Idle EXCEPT !.held = held], 1))
  /\ Slip(Racing(w), "race")

\* Fault: a lock that is busy does not keep the loop from its pass.
AcquireAnyway(w) ==
  /\ At(w, "idle") /\ settings.locks
  /\ lease' = w
  /\ Begin(w, TRUE)
  /\ UNCHANGED <<settings, truth, env, github, recorded, stray, spent>>

\* The lock is granted.  While it is somebody else's the loop goes back to sleep.
Acquire(w) ==
  /\ At(w, "idle") /\ settings.locks /\ lease = Nobody
  /\ lease' = w
  /\ Begin(w, TRUE)
  /\ UNCHANGED <<settings, truth, env, github, recorded, stray, spent>>

\* Coordination is off.
GoWithoutLock(w) ==
  /\ At(w, "idle") /\ ~settings.locks
  /\ Begin(w, FALSE)
  /\ UNCHANGED <<settings, truth, env, github, recorded, lease, stray, spent>>

\* Unavailable: the loop goes on without the lock.  The service may have granted
\* it before its reply was lost.
GoUnanswered(w) ==
  /\ At(w, "idle") /\ settings.locks /\ Fault
  /\ UNCHANGED lease \/ (lease = Nobody /\ lease' = w)
  /\ Begin(w, FALSE)
  /\ UNCHANGED <<settings, truth, env, github, recorded, stray>>

Release(w) ==
  /\ At(w, "release")
  /\ \/ lease' = Nobody /\ UNCHANGED spent
     \/ Fault /\ UNCHANGED lease
  /\ Set(w, Idle)
  /\ UNCHANGED <<settings, truth, env, github, recorded, stray, slips>>

\* POST /secrets/sync.
Request(w) ==
  /\ At(w, "idle") /\ spent.posts < MaxPosts
  /\ spent' = [spent EXCEPT !.posts = @ + 1]
  /\ Begin(w, FALSE)
  /\ UNCHANGED <<settings, truth, env, github, recorded, lease, stray>>

-----------------------------------------------------------------------------
(***************************************************************************)
(* sync_all                                                                *)
(***************************************************************************)
FetchKey(w) ==
  /\ At(w, "key")
  /\ Set(w, ToSecret(w, pass[w], 1))
  /\ UNCHANGED <<settings, truth, env, github, recorded, lease, stray, spent, slips>>

\* Without its key a repository is passed over; nothing is recorded.
KeyFails(w) ==
  /\ At(w, "key") /\ Fault
  /\ Set(w, ToRule(pass[w], pass[w].rule + 1))
  /\ UNCHANGED <<settings, truth, env, github, recorded, lease, stray, slips>>

\* The newest hash is that of the value; a query that fails finds none.
LookUp(w) ==
  LET known == recorded[Secret(w)] = pass[w].value IN
  /\ At(w, "look")
  /\ \/ /\ known /\ UNCHANGED spent
        /\ Set(w, [pass[w] EXCEPT !.pc = "row", !.status = "skipped"])
     \/ /\ IF known THEN Fault ELSE UNCHANGED spent
        /\ Set(w, [pass[w] EXCEPT !.pc = "put"])
  /\ UNCHANGED <<settings, truth, env, github, recorded, lease, stray, slips>>

\* GitHub takes the value; its reply is under way.
Put(w) ==
  /\ At(w, "put") /\ ~pass[w].acted
  /\ github' = [github EXCEPT ![Secret(w)] = pass[w].value]
  /\ Set(w, [pass[w] EXCEPT !.acted = TRUE])
  /\ UNCHANGED <<settings, truth, env, recorded, lease, stray, spent, slips>>

Recording(w, status) ==
  Set(w, IF settings.db THEN [pass[w] EXCEPT !.pc = "row", !.status = status]
         ELSE ToSecret(w, pass[w], pass[w].secret + 1))

PutSucceeds(w) ==
  /\ At(w, "put") /\ pass[w].acted
  /\ Recording(w, "synced")
  /\ UNCHANGED <<settings, truth, env, github, recorded, lease, stray, spent, slips>>

\* The PUT of a pass that no longer waits for it may still arrive.
Leaves(w) ==
  IF At(w, "put") /\ ~pass[w].acted /\ Cardinality(stray) < MaxStray
  THEN {{}, {[secret |-> Secret(w), value |-> pass[w].value]}} ELSE {{}}

\* An error status, a transport error or the client's timeout of 15 s.
PutFails(w) ==
  /\ At(w, "put") /\ Fault
  /\ \E left \in Leaves(w) :
       /\ stray' = stray \cup left
       /\ Slip(pass[w].acted \/ left # {}, "fault")
  /\ Recording(w, "failed")
  /\ UNCHANGED <<settings, truth, env, github, recorded, lease>>

\* Fault: rows of any status are read back.
AnyRow(status) == TRUE

\* The rows last_synced_sha256 reads.
CountsAsSynced(status) == status \in {"synced", "skipped"}

\* record_secret_sync; an insertion that fails is only logged.
Record(w) ==
  /\ At(w, "row")
  /\ \/ /\ recorded' = IF settings.db /\ CountsAsSynced(pass[w].status)
                       THEN [recorded EXCEPT ![Secret(w)] = pass[w].value] ELSE recorded
        /\ UNCHANGED <<slips, spent>>
     \/ /\ settings.db /\ Fault
        /\ Slip(pass[w].status = "synced", "fault")
        /\ UNCHANGED recorded
  /\ Set(w, ToSecret(w, pass[w], pass[w].secret + 1))
  /\ UNCHANGED <<settings, truth, env, github, lease, stray>>

-----------------------------------------------------------------------------
(***************************************************************************)
(* What befalls passes, and the outside world                              *)
(***************************************************************************)
Unrecorded(w) == (At(w, "put") /\ pass[w].acted) \/ (At(w, "row") /\ pass[w].status = "synced")

Abandon(gone, left) ==
  /\ stray' = stray \cup left
  /\ Slip(left # {} \/ \E w \in gone : Unrecorded(w), "fault")

\* The client of a request disconnects: the handler is dropped at its await.
Drop(w) ==
  /\ ~At(w, "idle") /\ Fault
  /\ \E left \in Leaves(w) : Abandon({w}, left)
  /\ Set(w, Idle)
  /\ UNCHANGED <<settings, truth, env, github, recorded, lease>>

\* A replica is replaced: its passes are gone, a lock it had is left to its TTL,
\* and the new process has the values of now.
Restart(r) ==
  /\ spent.restarts < MaxRestarts
  /\ spent' = [spent EXCEPT !.restarts = @ + 1]
  /\ LET gone == {w \in Passes : Home[w] = r} IN
       /\ \E left \in UNION {Leaves(w) : w \in gone} : Abandon(gone, left)
       /\ pass' = [w \in Passes |-> IF w \in gone THEN Idle ELSE pass[w]]
  /\ env' = [env EXCEPT ![r] = truth]
  /\ UNCHANGED <<settings, truth, github, recorded, lease>>

Rotate(s) ==
  /\ spent.rotations < MaxRotations
  /\ spent' = [spent EXCEPT !.rotations = @ + 1]
  /\ \E v \in Values \ {truth[s]} : truth' = [truth EXCEPT ![s] = v]
  /\ UNCHANGED <<settings, env, github, recorded, pass, lease, stray, slips>>

\* The TTL of the lock is that of builds, 3900 s, far longer than a pass.
LeaseExpires ==
  /\ lease # Nobody /\ ~pass[lease].held
  /\ lease' = Nobody
  /\ UNCHANGED <<settings, truth, env, github, recorded, pass, stray, spent, slips>>

StrayArrives ==
  \E p \in stray :
    /\ stray' = stray \ {p}
    /\ github' = [github EXCEPT ![p.secret] = p.value]
    /\ UNCHANGED <<settings, truth, env, recorded, pass, lease, spent, slips>>

-----------------------------------------------------------------------------
Work(w) ==
  \/ FetchKey(w) \/ KeyFails(w) \/ LookUp(w) \/ Put(w)
  \/ PutSucceeds(w) \/ PutFails(w) \/ Record(w)

\* run_periodic_sync.
Loop(w) == Acquire(w) \/ GoWithoutLock(w) \/ GoUnanswered(w) \/ Release(w)

Next ==
  \/ \E w \in Passes : Work(w)
  \/ \E w \in Loops : Loop(w)
  \/ \E w \in Posts : Request(w) \/ Drop(w)
  \/ \E r \in Replicas : Restart(r)
  \/ \E s \in Secrets : Rotate(s)
  \/ LeaseExpires \/ StrayArrives

Spec == Init /\ [][Next]_vars

\* Tasks are polled, timers fire, locks expire and what is sent arrives.  Nothing
\* makes values change, replicas restart, requests come or anything fail; what
\* fails does so at most MaxFaults times.
Fairness ==
  /\ \A w \in Passes : WF_vars(Work(w))
  /\ \A w \in Loops : WF_vars(Loop(w))
  /\ WF_vars(LeaseExpires) /\ WF_vars(StrayArrives)

FairSpec == Spec /\ Fairness

-----------------------------------------------------------------------------
(***************************************************************************)
(* Properties                                                              *)
(***************************************************************************)
\* Every variable has the type the code, or its environment, gives it, and a
\* pass is at a secret of a rule.
TypeOK ==
  /\ settings.rules \in RuleDocuments \cup {<<>>}
  /\ truth \in [Secrets -> Values \cup {Unset}]
  /\ env \in [Replicas -> [Secrets -> Values \cup {Unset}]]
  /\ github \in [Secrets -> Values \cup {Unset}]
  /\ recorded \in [Secrets -> Values \cup {Unset}]
  /\ lease \in Loops \cup {Nobody}
  /\ stray \subseteq [secret : Secrets, value : Values]
  /\ slips \in {"none", "race", "fault"}
  /\ \A w \in Passes :
       /\ pass[w].pc \in {"idle", "key", "look", "put", "row", "release"}
       /\ w \in Working => pass[w].rule \in DOMAIN Rules
       /\ At(w, "look") \/ At(w, "put") => pass[w].value \in Values
       /\ At(w, "row") => settings.db \/ pass[w].status = "failed"

\* The newest hash on record is that of the value GitHub has, but for a pass that
\* has yet to record what it PUT, as long as no pass was cut short between the
\* two, no PUT took effect unheard, no row was lost, and no two passes with
\* different environments were at work together.
RecordedIsThere ==
  slips = "none" =>
    \A s \in Secrets : recorded[s] \notin {Unset, github[s]} =>
      \E w \in Passes : Unrecorded(w) /\ Secret(w) = s

\* "serialized across replicas by a fiducia lock": passes that were granted the
\* lock never overlap.
GrantedPassesSerialize ==
  \A w, x \in Working : pass[w].held /\ pass[x].held => w = x

\* Once every replica has the values of the source of truth and they stay, GitHub
\* gets those that are set and keeps them; with a database, unless the record had
\* the occasion to slip.
Converges ==
  <>[](\A r \in Replicas : env[r] = truth)
  => \/ <>[](\A i \in DOMAIN Rules : \A j \in DOMAIN Rules[i].secrets :
               LET s == Rules[i].secrets[j] IN truth[s] \in {Unset, github[s]})
     \/ settings.db /\ <>(slips # "none")

\* "to skip unchanged values", "keeping GHA and the cluster on one secret source":
\* without a failure of any part, a value that is skipped is the one GitHub has.
SkippedIsThere ==
  slips # "fault" =>
    \A w \in Passes : At(w, "row") /\ pass[w].status = "skipped"
                      => github[Secret(w)] = pass[w].value
=============================================================================
