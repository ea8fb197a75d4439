-------------------------- MODULE SecretSyncProofs ---------------------------
(***************************************************************************)
(* Proofs about SecretSync, for every set of replicas, passes, secrets and *)
(* values, every rules and policies, and any number of rotations,          *)
(* restarts, requests and faults.                                          *)
(***************************************************************************)
EXTENDS SecretSync, SequenceTheorems, TLAPS

-----------------------------------------------------------------------------
(***************************************************************************)
(* The inductive invariant                                                 *)
(***************************************************************************)
SettingsFixed ==
  /\ settings.db \in BOOLEAN
  /\ Rules \in RuleDocuments \cup {<<>>} /\ Rules \in Seq(SyncRules)

TypeCore ==
  /\ truth \in [Secrets -> Values \cup {Unset}]
  /\ env \in [Replicas -> [Secrets -> Values \cup {Unset}]]
  /\ github \in [Secrets -> Values \cup {Unset}]
  /\ recorded \in [Secrets -> Values \cup {Unset}]
  /\ lease \in Loops \cup {Nobody}
  /\ stray \subseteq [secret : Secrets, value : Values]
  /\ slips \in {"none", "race", "fault"}

PassStates ==
  [pc : {"idle", "key", "look", "put", "row", "release"}, rule : Nat, secret : Nat,
   value : Values \cup {Unset}, status : {"none", "failed", "skipped", "synced"},
   acted : BOOLEAN, held : BOOLEAN]

SecretOf(p) == Rules[p.rule].secrets[p.secret]

\* A pass is at a secret of its rule, with the value its environment has for it; it
\* gives back a grant only when it has one.
Placed(p, environment) ==
  /\ p \in PassStates
  /\ p.pc \notin {"idle", "release"} => p.rule \in DOMAIN Rules
  /\ p.pc \in {"look", "put", "row"} =>
       /\ p.secret \in DOMAIN Rules[p.rule].secrets
       /\ p.value = environment[SecretOf(p)]
  /\ p.pc \in {"look", "put"} => p.value \in Values
  /\ p.pc = "look" => ~p.acted
  /\ p.pc = "row" => p.status = "failed" \/ (settings.db /\ p.value \in Values)
  /\ p.pc = "release" => p.held

PassesPlaced ==
  /\ pass \in [Passes -> PassStates]
  /\ \A w \in Passes : Placed(pass[w], env[Home[w]])

\* Only a loop has a grant, and it has it as long as the service says so.
HeldHasLease == \A w \in Passes : pass[w].held => w \in Loops /\ lease = w

\* A pass has PUT a value that it has yet to record.
Owes(p) == (p.pc = "put" /\ p.acted) \/ (p.pc = "row" /\ p.status = "synced")

\* What a pass has yet to record is what GitHub has, what it skips is on record.
Backed(p, there, newest) ==
  /\ Owes(p) => there[SecretOf(p)] = p.value
  /\ p.pc = "row" /\ p.status = "skipped" => newest[SecretOf(p)] = p.value

\* Before the first slip no PUT is astray and the passes at work carry one
\* environment, so that what one has PUT or found on record no other undoes.
RecordFollows ==
  settings.db /\ slips = "none" =>
    /\ stray = {}
    /\ \A w, x \in Working : env[Home[w]] = env[Home[x]]
    /\ \A w \in Passes : Backed(pass[w], github, recorded)

NothingRecorded == ~settings.db => \A s \in Secrets : recorded[s] = Unset

IInv ==
  /\ TypeCore /\ SettingsFixed /\ PassesPlaced /\ HeldHasLease
  /\ RecordFollows /\ NothingRecorded /\ RecordedIsThere

-----------------------------------------------------------------------------
(***************************************************************************)
(* Where passes go                                                         *)
(***************************************************************************)
LEMMA RulesType ==
  ASSUME SettingsFixed
  PROVE  /\ \A i \in DOMAIN Rules :
              /\ i \in Nat /\ Rules[i].secrets \in Seq(Secrets)
              /\ \A k \in DOMAIN Rules[i].secrets :
                   k \in Nat /\ Rules[i].secrets[k] \in Secrets
         /\ Rules # <<>> => 1 \in DOMAIN Rules
<1>1. Rules \in Seq(SyncRules)
  BY DEF SettingsFixed
<1>2. ASSUME NEW i \in DOMAIN Rules
      PROVE  i \in Nat /\ Rules[i].secrets \in Seq(Secrets)
  <2>1. Rules[i] \in SyncRules /\ i \in Nat
    BY <1>1
  <2> QED
    BY <2>1 DEF SyncRules
<1>3. \A s \in Seq(Secrets) : \A k \in DOMAIN s : k \in Nat /\ s[k] \in Secrets
  OBVIOUS
<1>4. Rules # <<>> => 1 \in DOMAIN Rules
  <2>1. Rules # <<>> => Len(Rules) # 0
    BY <1>1, EmptySeq
  <2>2. Len(Rules) \in Nat /\ DOMAIN Rules = 1..Len(Rules)
    BY <1>1
  <2> QED
    BY <2>1, <2>2
<1> QED
  BY <1>2, <1>3, <1>4

\* A pass says something of GitHub or of the record.
Claims(p) == Owes(p) \/ (p.pc = "row" /\ p.status = "skipped")

LEMMA IdlePlaced ==
  ASSUME NEW environment
  PROVE  Placed(Idle, environment) /\ ~Claims(Idle) /\ ~Idle.held
<1>1. Idle \in PassStates
  BY DEF Idle, PassStates
<1> QED
  BY <1>1 DEF Placed, Idle, Claims, Owes

LEMMA ToRulePlaced ==
  ASSUME NEW p \in PassStates, NEW i \in Nat, NEW environment
  PROVE  LET q == ToRule(p, i) IN
           /\ Placed(q, environment) /\ ~Claims(q)
           /\ q.held => p.held
           /\ q.pc \in {"key", "idle", "release"}
           /\ i \in DOMAIN Rules => q.held = p.held
<1> p.held \in BOOLEAN
  BY DEF PassStates
<1>1. CASE i \in DOMAIN Rules
  <2> DEFINE q == [Idle EXCEPT !.pc = "key", !.rule = i, !.held = p.held]
  <2>1. q \in PassStates /\ q.pc = "key" /\ q.rule = i /\ q.held = p.held
    BY DEF Idle, PassStates
  <2>2. ToRule(p, i) = q
    BY <1>1 DEF ToRule
  <2> HIDE DEF q
  <2> QED
    BY <1>1, <2>1, <2>2 DEF Placed, Claims, Owes
<1>2. CASE i \notin DOMAIN Rules /\ p.held
  <2> DEFINE q == [Idle EXCEPT !.pc = "release", !.held = TRUE]
  <2>1. q \in PassStates /\ q.pc = "release" /\ q.held = TRUE
    BY DEF Idle, PassStates
  <2>2. ToRule(p, i) = q
    BY <1>2 DEF ToRule, Finished
  <2> HIDE DEF q
  <2> QED
    BY <1>2, <2>1, <2>2 DEF Placed, Claims, Owes
<1>3. CASE i \notin DOMAIN Rules /\ ~p.held
  <2>1. ToRule(p, i) = Idle
    BY <1>3 DEF ToRule, Finished
  <2>2. Idle.pc = "idle"
    BY DEF Idle
  <2> QED
    BY <1>3, <2>1, <2>2, IdlePlaced
<1> QED
  BY <1>1, <1>2, <1>3

LEMMA ToSecretPlaced ==
  ASSUME SettingsFixed, NEW w \in Passes, env \in [Replicas -> [Secrets -> Values \cup {Unset}]],
         NEW p \in PassStates, p.rule \in DOMAIN Rules, NEW i \in Nat
  PROVE  LET q == ToSecret(w, p, i) IN
           /\ Placed(q, env[Home[w]]) /\ ~Claims(q)
           /\ q.held => p.held
<1> DEFINE secrets == Rules[p.rule].secrets
           value == env[Home[w]][secrets[i]]
<1>1. p.rule + 1 \in Nat
  BY DEF PassStates
<1>2. CASE i \notin DOMAIN secrets
  <2>1. ToSecret(w, p, i) = ToRule(p, p.rule + 1)
    BY <1>2 DEF ToSecret
  <2> DEFINE q == ToRule(p, p.rule + 1)
  <2>2. Placed(q, env[Home[w]]) /\ ~Claims(q) /\ (q.held => p.held)
    BY <1>1, ToRulePlaced
  <2> QED
    BY <2>1, <2>2
<1>3. CASE i \in DOMAIN secrets
  <2> DEFINE q == [p EXCEPT !.secret = i, !.value = value, !.acted = FALSE,
                !.status = IF value = Unset THEN "failed" ELSE "none",
                !.pc = IF value = Unset THEN "row" ELSE IF settings.db THEN "look" ELSE "put"]
  <2>1. ToSecret(w, p, i) = q
    BY <1>3 DEF ToSecret
  <2>2. value \in Values \cup {Unset}
    <3>1. secrets[i] \in Secrets
      BY <1>3, RulesType
    <3>2. Home[w] \in Replicas
      BY SyncAssumption
    <3> QED
      BY <3>1, <3>2
  <2> HIDE DEF value
  <2>3. /\ q \in PassStates /\ q.rule = p.rule /\ q.secret = i /\ q.value = value
        /\ q.acted = FALSE /\ q.held = p.held
        /\ q.status = IF value = Unset THEN "failed" ELSE "none"
        /\ q.pc = IF value = Unset THEN "row" ELSE IF settings.db THEN "look" ELSE "put"
    BY <2>2 DEF PassStates
  <2> HIDE DEF q
  <2>4. SecretOf(q) = secrets[i]
    BY <2>3 DEF SecretOf
  <2> QED
    BY <1>3, <2>1, <2>2, <2>3, <2>4 DEF Placed, Claims, Owes, value
<1> QED
  BY <1>2, <1>3

-----------------------------------------------------------------------------
(***************************************************************************)
(* Steps                                                                   *)
(***************************************************************************)
LEMMA InitIInv == Init => IInv
<1> SUFFICES ASSUME Init PROVE IInv
  OBVIOUS
<1> USE SyncAssumption DEF Init
<1>1. /\ settings.rules \in RuleDocuments \cup {<<>>}
      /\ settings.db \in BOOLEAN
  BY DEF parse_rules
<1>2. SettingsFixed
  <2>1. <<>> \in Seq(SyncRules)
    OBVIOUS
  <2> QED
    BY <1>1, <2>1 DEF SettingsFixed, Rules
<1>3. \A w \in Passes : pass[w] = Idle /\ ~pass[w].held
  BY DEF Idle
<1>4. PassesPlaced
  BY <1>3, IdlePlaced DEF PassesPlaced, Placed
<1>5. HeldHasLease /\ NothingRecorded
  BY <1>3 DEF HeldHasLease, NothingRecorded
<1>6. Working = {} /\ \A w \in Passes : ~At(w, "row") /\ ~At(w, "put") /\ ~At(w, "look")
  BY <1>3 DEF Working, At, Idle
<1>7. RecordFollows /\ RecordedIsThere
  <2>1. \A w \in Passes : Backed(pass[w], github, recorded)
    BY <1>3 DEF Backed, Owes, Idle
  <2>2. RecordedIsThere
    BY DEF RecordedIsThere
  <2> QED
    BY <1>6, <2>1, <2>2 DEF RecordFollows
<1>8. TypeCore
  BY DEF TypeCore
<1> QED
  BY <1>2, <1>4, <1>5, <1>7, <1>8 DEF IInv

\* What the invariant says of one pass.
LEMMA PassKnown ==
  ASSUME IInv, NEW w \in Passes
  PROVE  /\ pass[w] \in PassStates /\ Placed(pass[w], env[Home[w]])
         /\ Home[w] \in Replicas /\ env[Home[w]] \in [Secrets -> Values \cup {Unset}]
         /\ w \in Working <=> pass[w].pc \in {"key", "look", "put", "row"}
         /\ Unrecorded(w) <=> Owes(pass[w])
         /\ Secret(w) = SecretOf(pass[w])
         /\ pass[w].pc \in {"look", "put", "row"} => Secret(w) \in Secrets
<1>1. Placed(pass[w], env[Home[w]]) /\ pass[w] \in PassStates
  BY DEF IInv, PassesPlaced, Placed
<1>2. Home[w] \in Replicas /\ env[Home[w]] \in [Secrets -> Values \cup {Unset}]
  BY SyncAssumption DEF IInv, TypeCore
<1>3. /\ w \in Working <=> pass[w].pc \in {"key", "look", "put", "row"}
      /\ Unrecorded(w) <=> Owes(pass[w])
      /\ Secret(w) = SecretOf(pass[w])
  BY <1>1 DEF Working, PassStates, Unrecorded, Owes, At, Secret, SecretOf
<1>4. pass[w].pc \in {"look", "put", "row"} => Secret(w) \in Secrets
  BY <1>1, <1>3, RulesType DEF Placed, SecretOf, IInv
<1> QED
  BY <1>1, <1>2, <1>3, <1>4

\* Passes at work on one secret carry one value, before the first slip.
LEMMA SameValue ==
  ASSUME IInv, settings.db, slips = "none", NEW w \in Passes, NEW x \in Passes,
         pass[w].pc \in {"look", "put", "row"}, pass[x].pc \in {"look", "put", "row"},
         SecretOf(pass[w]) = SecretOf(pass[x])
  PROVE  pass[w].value = pass[x].value
<1>1. w \in Working /\ x \in Working
  BY PassKnown
<1>2. env[Home[w]] = env[Home[x]]
  BY <1>1 DEF IInv, RecordFollows
<1> QED
  BY <1>2, PassKnown DEF Placed

\* How one pass that goes on stands to the others.
LEMMA PassGoes ==
  ASSUME IInv, NEW w \in Passes, NEW p, Placed(p, env[Home[w]]),
         pass' = [pass EXCEPT ![w] = p], UNCHANGED <<settings, env>>
  PROVE  /\ SettingsFixed' /\ PassesPlaced' /\ pass'[w] = p
         /\ \A x \in Passes \ {w} : pass'[x] = pass[x]
         /\ \A x \in Passes :
              /\ Unrecorded(x)' <=> Owes(pass'[x])
              /\ Secret(x)' = SecretOf(pass[x])'
              /\ At(x, "row")' <=> pass'[x].pc = "row"
         /\ \A x \in Passes \ {w} : x \in Working' <=> x \in Working
         /\ w \in Working' <=> p.pc \in {"key", "look", "put", "row"}
<1>1. /\ pass \in [Passes -> PassStates] /\ p \in PassStates
      /\ \A x \in Passes : Placed(pass[x], env[Home[x]])
  BY DEF IInv, PassesPlaced, Placed
<1>2. /\ pass' \in [Passes -> PassStates] /\ pass'[w] = p
      /\ \A x \in Passes \ {w} : pass'[x] = pass[x]
  BY <1>1
<1>3. \A x \in Passes : Placed(pass'[x], env[Home[x]])
  BY <1>1, <1>2
<1>4. PassesPlaced'
  BY <1>2, <1>3 DEF PassesPlaced, Placed, SecretOf, Rules
<1>5. SettingsFixed'
  BY DEF IInv, SettingsFixed, Rules
<1>6. \A x \in Passes :
        /\ Unrecorded(x)' <=> Owes(pass'[x])
        /\ Secret(x)' = SecretOf(pass[x])'
        /\ At(x, "row")' <=> pass'[x].pc = "row"
  BY DEF Unrecorded, Owes, At, Secret, SecretOf, Rules
<1>7. \A x \in Passes \ {w} : x \in Working' <=> x \in Working
  BY <1>2 DEF Working
<1>8. w \in Working' <=> p.pc \in {"key", "look", "put", "row"}
  BY <1>1, <1>2 DEF Working, PassStates
<1> QED
  BY <1>2, <1>4, <1>5, <1>6, <1>7, <1>8

\* A pass goes on, or ends; what it then says is so, and what it had yet to record
\* it still has, or the step is a slip.
LEMMA MoveIInv ==
  ASSUME IInv, NEW w \in Passes, NEW p, Placed(p, env[Home[w]]),
         p.held => pass[w].held,
         p.pc \in {"key", "look", "put", "row"} => w \in Working,
         pass' = [pass EXCEPT ![w] = p],
         UNCHANGED <<settings, truth, env, github, recorded, lease>>,
         stray' \subseteq [secret : Secrets, value : Values],
         slips' \in {"none", "race", "fault"},
         settings.db /\ slips' = "none" =>
           /\ slips = "none" /\ stray' = stray
           /\ Backed(p, github, recorded)
           /\ Owes(pass[w]) => Owes(p) /\ SecretOf(p) = SecretOf(pass[w])
  PROVE  IInv'
<1> USE DEF IInv
<1>1. TypeCore' /\ NothingRecorded'
  BY DEF TypeCore, NothingRecorded
<1>2. HeldHasLease'
  BY PassGoes DEF HeldHasLease
<1>3. RecordFollows'
  <2> SUFFICES ASSUME settings.db, slips' = "none" PROVE RecordFollows'
    BY DEF RecordFollows
  <2>1. slips = "none" /\ stray' = {}
    BY DEF RecordFollows
  <2>2. Working' \subseteq Working
    BY PassGoes DEF Working
  <2>3. \A x, y \in Working' : env'[Home[x]] = env'[Home[y]]
    BY <2>1, <2>2 DEF RecordFollows
  <2>4. ASSUME NEW x \in Passes
        PROVE  Backed(pass[x], github, recorded)'
    <3>1. CASE x = w
      <4>1. pass'[x] = p /\ Backed(p, github, recorded)
        BY <3>1, PassGoes
      <4> QED
        BY <4>1 DEF Backed, SecretOf, Rules
    <3>2. CASE x # w
      <4>1. pass'[x] = pass[x] /\ Backed(pass[x], github, recorded)
        BY <2>1, <3>2, PassGoes DEF RecordFollows
      <4> QED
        BY <4>1 DEF Backed, SecretOf, Rules
    <3> QED
      BY <3>1, <3>2
  <2> QED
    BY <2>1, <2>3, <2>4 DEF RecordFollows
<1>4. RecordedIsThere'
  <2> SUFFICES ASSUME slips' = "none", NEW s \in Secrets, recorded[s] \notin {Unset, github[s]}
               PROVE  \E x \in Passes : Unrecorded(x)' /\ Secret(x)' = s
    BY DEF RecordedIsThere
  <2>1. settings.db /\ slips = "none"
    BY DEF NothingRecorded
  <2>2. PICK x \in Passes : Unrecorded(x) /\ Secret(x) = s
    BY <2>1 DEF RecordedIsThere
  <2>3. Owes(pass'[x])
    <3>1. Owes(pass[x]) /\ SecretOf(pass[x]) = s
      BY <2>2, PassKnown
    <3> QED
      BY <2>1, <3>1, PassGoes
  <2>4. Unrecorded(x)'
    BY <2>3, PassGoes
  <2>5. Secret(x)' = s
    <3>1. SecretOf(pass[x]) = s /\ Owes(pass[x])
      BY <2>2, PassKnown
    <3>2. CASE x = w
      <4>1. pass'[x] = p /\ SecretOf(p) = s
        BY <2>1, <3>1, <3>2, PassGoes
      <4> QED
        BY <4>1 DEF Secret, SecretOf, Rules
    <3>3. CASE x # w
      <4>1. pass'[x] = pass[x]
        BY <3>3, PassGoes
      <4> QED
        BY <3>1, <4>1 DEF Secret, SecretOf, Rules
    <3> QED
      BY <3>2, <3>3
  <2> QED
    BY <2>4, <2>5
<1> QED
  BY <1>1, <1>2, <1>3, <1>4, PassGoes

\* A pass goes on in a way that leaves the record and its agreement with GitHub
\* to the caller.
LEMMA StepFrame ==
  ASSUME IInv, NEW w \in Passes, NEW p, Placed(p, env[Home[w]]), p.held => pass[w].held,
         p.pc \in {"key", "look", "put", "row"} => w \in Working,
         pass' = [pass EXCEPT ![w] = p],
         UNCHANGED <<settings, truth, env, lease>>
  PROVE  /\ SettingsFixed' /\ PassesPlaced' /\ HeldHasLease'
         /\ \A x, y \in Working' :
              settings.db /\ slips = "none" => env'[Home[x]] = env'[Home[y]]
<1>1. SettingsFixed' /\ PassesPlaced'
  BY PassGoes
<1>2. HeldHasLease'
  BY PassGoes DEF IInv, HeldHasLease
<1>3. Working' \subseteq Working
  BY PassGoes DEF Working
<1> QED
  BY <1>1, <1>2, <1>3 DEF IInv, RecordFollows

LEMMA PutIInv ==
  ASSUME IInv, NEW w \in Passes, Put(w)
  PROVE  IInv'
<1> DEFINE p == [pass[w] EXCEPT !.acted = TRUE]
<1>1. /\ pass[w] \in PassStates /\ Placed(pass[w], env[Home[w]]) /\ pass[w].pc = "put"
      /\ w \in Working /\ Secret(w) = SecretOf(pass[w]) /\ Secret(w) \in Secrets
  BY PassKnown DEF Put, At
<1>2. pass[w].value \in Values
  BY <1>1 DEF Placed
<1>3. /\ p \in PassStates /\ p.pc = "put" /\ p.rule = pass[w].rule /\ p.secret = pass[w].secret
      /\ p.value = pass[w].value /\ p.held = pass[w].held /\ p.acted
  BY <1>1 DEF PassStates
<1>4. /\ pass' = [pass EXCEPT ![w] = p]
      /\ github' = [github EXCEPT ![Secret(w)] = pass[w].value]
      /\ UNCHANGED <<settings, truth, env, recorded, lease, stray, spent, slips>>
  BY DEF Put, Set
<1> HIDE DEF p
<1>5. SecretOf(p) = Secret(w) /\ Owes(p)
  BY <1>1, <1>3 DEF SecretOf, Owes
<1>6. Placed(p, env[Home[w]])
  BY <1>1, <1>3, <1>5 DEF Placed
<1>7. /\ SettingsFixed' /\ PassesPlaced' /\ HeldHasLease'
      /\ \A x, y \in Working' :
              settings.db /\ slips = "none" => env'[Home[x]] = env'[Home[y]]
  BY <1>1, <1>3, <1>4, <1>6, StepFrame
<1>8. TypeCore' /\ NothingRecorded'
  BY <1>1, <1>2, <1>4 DEF IInv, TypeCore, NothingRecorded
<1>9. github'[Secret(w)] = p.value /\ \A s \in Secrets \ {Secret(w)} : github'[s] = github[s]
  BY <1>1, <1>3, <1>4 DEF IInv, TypeCore
<1>10. pass'[w] = p /\ \A x \in Passes \ {w} : pass'[x] = pass[x]
  BY <1>4, <1>6, PassGoes
<1>11. ASSUME settings.db, slips = "none", NEW x \in Passes
       PROVE  Backed(pass[x], github, recorded)'
  <2>1. CASE x = w
    <3>1. Backed(p, github', recorded')
      BY <1>3, <1>5, <1>9 DEF Backed
    <3> QED
      BY <2>1, <3>1, <1>4, <1>10 DEF Backed, SecretOf, Rules
  <2>2. CASE x # w
    <3>1. pass'[x] = pass[x] /\ Backed(pass[x], github, recorded)
      BY <1>10, <1>11, <2>2 DEF IInv, RecordFollows
    <3>2. ASSUME Owes(pass[x]) PROVE github'[SecretOf(pass[x])] = pass[x].value
      <4>1. pass[x].pc \in {"look", "put", "row"} /\ SecretOf(pass[x]) \in Secrets
        BY <3>2, PassKnown DEF Owes
      <4>2. CASE SecretOf(pass[x]) = Secret(w)
        <5>1. pass[x].value = pass[w].value
          BY <1>1, <1>11, <4>1, <4>2, SameValue
        <5> QED
          BY <5>1, <4>2, <1>3, <1>9
      <4>3. CASE SecretOf(pass[x]) # Secret(w)
        BY <3>1, <3>2, <4>1, <4>3, <1>9 DEF Backed
      <4> QED
        BY <4>2, <4>3
    <3>3. Backed(pass[x], github', recorded')
      BY <1>4, <3>1, <3>2 DEF Backed
    <3> QED
      BY <3>1, <3>3, <1>4 DEF Backed, SecretOf, Rules
  <2> QED
    BY <2>1, <2>2
<1>12. RecordFollows'
  BY <1>4, <1>7, <1>11 DEF RecordFollows, IInv
<1>13. RecordedIsThere'
  <2> SUFFICES ASSUME slips' = "none", NEW s \in Secrets, recorded'[s] \notin {Unset, github'[s]}
               PROVE  \E x \in Passes : Unrecorded(x)' /\ Secret(x)' = s
    BY DEF RecordedIsThere
  <2>1. \A x \in Passes : /\ Unrecorded(x)' <=> Owes(pass'[x])
                          /\ Secret(x)' = SecretOf(pass[x])'
    BY <1>4, <1>6, PassGoes
  <2>2. CASE s = Secret(w)
    <3>1. Unrecorded(w)'
      BY <2>1, <1>5, <1>10
    <3>2. Secret(w)' = s
      BY <2>2, <1>3, <1>4, <1>10 DEF Secret, Rules
    <3> QED
      BY <3>1, <3>2
  <2>3. CASE s # Secret(w)
    <3>1. PICK x \in Passes : Unrecorded(x) /\ Secret(x) = s
      BY <1>4, <1>9, <2>3 DEF IInv, RecordedIsThere
    <3>2. pass'[x] = pass[x] /\ Owes(pass[x])
      BY <2>3, <3>1, <1>10, PassKnown
    <3>3. Unrecorded(x)'
      BY <2>1, <3>2
    <3>4. Secret(x)' = s
      BY <1>4, <3>1, <3>2 DEF Secret, Rules
    <3> QED
      BY <3>3, <3>4
  <2> QED
    BY <2>2, <2>3
<1> QED
  BY <1>7, <1>8, <1>12, <1>13 DEF IInv

\* A pass that says nothing has nothing to be held to.
LEMMA Silent ==
  ASSUME NEW p, ~Claims(p), NEW there, NEW newest
  PROVE  ~Owes(p) /\ Backed(p, there, newest)
BY DEF Claims, Backed

LEMMA SlipKnown ==
  ASSUME IInv, NEW occasion \in BOOLEAN, NEW kind \in {"race", "fault"}, Slip(occasion, kind)
  PROVE  /\ slips' \in {"none", "race", "fault"}
         /\ settings.db /\ slips' = "none" => slips = "none" /\ ~occasion
BY DEF IInv, TypeCore, Slip

LEMMA LeavesKnown ==
  ASSUME IInv, NEW w \in Passes, NEW left \in Leaves(w)
  PROVE  left \subseteq [secret : Secrets, value : Values]
<1>1. CASE left = {}
  BY <1>1
<1>2. CASE left # {}
  <2>1. pass[w].pc = "put" /\ left = {[secret |-> Secret(w), value |-> pass[w].value]}
    BY <1>2 DEF Leaves, At
  <2>2. Secret(w) \in Secrets /\ pass[w].value \in Values
    BY <2>1, PassKnown DEF Placed
  <2> QED
    BY <2>1, <2>2
<1> QED
  BY <1>1, <1>2

LEMMA FetchIInv ==
  ASSUME IInv, NEW w \in Passes, FetchKey(w) \/ KeyFails(w)
  PROVE  IInv'
<1>1. /\ pass[w] \in PassStates /\ Placed(pass[w], env[Home[w]]) /\ pass[w].pc = "key"
      /\ w \in Working /\ ~Owes(pass[w])
  BY PassKnown DEF FetchKey, KeyFails, At, Owes
<1>2. pass[w].rule \in DOMAIN Rules /\ pass[w].rule + 1 \in Nat
  BY <1>1 DEF Placed, PassStates
<1>3. /\ UNCHANGED <<settings, truth, env, github, recorded, lease, stray, slips>>
      /\ stray' \subseteq [secret : Secrets, value : Values]
      /\ slips' \in {"none", "race", "fault"}
  BY DEF FetchKey, KeyFails, IInv, TypeCore
<1>4. CASE FetchKey(w)
  <2>1. PICK p : p = ToSecret(w, pass[w], 1)
    OBVIOUS
  <2>2. Placed(p, env[Home[w]]) /\ ~Claims(p) /\ (p.held => pass[w].held)
    BY <1>1, <1>2, <2>1, ToSecretPlaced DEF IInv, TypeCore
  <2>3. pass' = [pass EXCEPT ![w] = p]
    BY <1>4, <2>1 DEF FetchKey, Set
  <2> QED
    BY <1>1, <1>3, <2>2, <2>3, MoveIInv, Silent
<1>5. CASE KeyFails(w)
  <2>1. PICK p : p = ToRule(pass[w], pass[w].rule + 1)
    OBVIOUS
  <2>2. Placed(p, env[Home[w]]) /\ ~Claims(p) /\ (p.held => pass[w].held)
    BY <1>1, <1>2, <2>1, ToRulePlaced
  <2>3. pass' = [pass EXCEPT ![w] = p]
    BY <1>5, <2>1 DEF KeyFails, Set
  <2> QED
    BY <1>1, <1>3, <2>2, <2>3, MoveIInv, Silent
<1> QED
  BY <1>4, <1>5

LEMMA LookUpIInv ==
  ASSUME IInv, NEW w \in Passes, LookUp(w)
  PROVE  IInv'
<1>1. /\ pass[w] \in PassStates /\ Placed(pass[w], env[Home[w]]) /\ pass[w].pc = "look"
      /\ w \in Working /\ ~Owes(pass[w]) /\ Secret(w) = SecretOf(pass[w])
  BY PassKnown DEF LookUp, At, Owes
<1>2. pass[w].value \in Values
  BY <1>1 DEF Placed
<1>3. /\ UNCHANGED <<settings, truth, env, github, recorded, lease, stray, slips>>
      /\ stray' \subseteq [secret : Secrets, value : Values]
      /\ slips' \in {"none", "race", "fault"}
  BY DEF LookUp, IInv, TypeCore
<1>4. CASE recorded[Secret(w)] = pass[w].value /\ settings.db
           /\ Set(w, [pass[w] EXCEPT !.pc = "row", !.status = "skipped"])
  <2>1. PICK p : p = [pass[w] EXCEPT !.pc = "row", !.status = "skipped"]
    OBVIOUS
  <2>2. /\ p \in PassStates /\ p.pc = "row" /\ p.status = "skipped" /\ p.value = pass[w].value
        /\ p.rule = pass[w].rule /\ p.secret = pass[w].secret /\ p.held = pass[w].held
    BY <1>1, <2>1 DEF PassStates
  <2>3. SecretOf(p) = Secret(w) /\ ~Owes(p)
    BY <1>1, <2>2 DEF SecretOf, Owes
  <2>4. Placed(p, env[Home[w]]) /\ Backed(p, github, recorded)
    BY <1>1, <1>2, <1>4, <2>2, <2>3 DEF Placed, Backed
  <2>5. pass' = [pass EXCEPT ![w] = p]
    BY <1>4, <2>1 DEF Set
  <2> QED
    BY <1>1, <1>3, <2>2, <2>4, <2>5, MoveIInv
<1>5. CASE Set(w, [pass[w] EXCEPT !.pc = "put"])
  <2>1. PICK p : p = [pass[w] EXCEPT !.pc = "put"]
    OBVIOUS
  <2>2. /\ p \in PassStates /\ p.pc = "put" /\ p.value = pass[w].value /\ p.acted = pass[w].acted
        /\ p.rule = pass[w].rule /\ p.secret = pass[w].secret /\ p.held = pass[w].held
    BY <1>1, <2>1 DEF PassStates
  <2>3. SecretOf(p) = Secret(w)
    BY <1>1, <2>2 DEF SecretOf
  <2>4. Placed(p, env[Home[w]])
    BY <1>1, <1>2, <2>2, <2>3 DEF Placed
  <2>5. ~Claims(p)
    BY <1>1, <2>2 DEF Claims, Owes, Placed
  <2>6. pass' = [pass EXCEPT ![w] = p]
    BY <1>5, <2>1 DEF Set
  <2> QED
    BY <1>1, <1>3, <2>2, <2>4, <2>5, <2>6, MoveIInv, Silent
<1>6. settings.db \/ recorded[Secret(w)] # pass[w].value
  <2>1. Secret(w) \in Secrets
    BY <1>1, PassKnown
  <2>2. ~settings.db => recorded[Secret(w)] = Unset
    BY <2>1 DEF IInv, NothingRecorded
  <2> QED
    BY <1>2, <2>2, SyncAssumption
<1> QED
  BY <1>4, <1>5, <1>6 DEF LookUp

\* Where Recording takes a pass that is done with its PUT.
Onward(w, p, status) ==
  /\ pass' = [pass EXCEPT ![w] = p]
  /\ Placed(p, env[Home[w]]) /\ (p.held => pass[w].held)
  /\ settings.db => /\ p.pc = "row" /\ p.status = status
                    /\ p.value = pass[w].value /\ SecretOf(p) = SecretOf(pass[w])
  /\ ~settings.db => ~Claims(p)

LEMMA RecordingGoes ==
  ASSUME IInv, NEW w \in Passes, pass[w].pc = "put", NEW status \in {"synced", "failed"},
         Recording(w, status)
  PROVE  \E p : Onward(w, p, status)
<1>1. /\ pass[w] \in PassStates /\ Placed(pass[w], env[Home[w]])
      /\ pass[w].rule \in DOMAIN Rules /\ pass[w].secret + 1 \in Nat
  BY PassKnown DEF Placed, PassStates
<1>2. CASE settings.db
  <2>1. PICK p : p = [pass[w] EXCEPT !.pc = "row", !.status = status]
    OBVIOUS
  <2>2. /\ p \in PassStates /\ p.pc = "row" /\ p.status = status /\ p.value = pass[w].value
        /\ p.rule = pass[w].rule /\ p.secret = pass[w].secret /\ p.held = pass[w].held
    BY <1>1, <2>1 DEF PassStates
  <2>3. SecretOf(p) = SecretOf(pass[w])
    BY <2>2 DEF SecretOf
  <2>4. Placed(p, env[Home[w]])
    BY <1>1, <1>2, <2>2, <2>3 DEF Placed
  <2>5. pass' = [pass EXCEPT ![w] = p]
    BY <1>2, <2>1 DEF Recording, Set
  <2> QED
    BY <1>2, <2>2, <2>3, <2>4, <2>5 DEF Onward
<1>3. CASE ~settings.db
  <2>1. PICK p : p = ToSecret(w, pass[w], pass[w].secret + 1)
    OBVIOUS
  <2>2. Placed(p, env[Home[w]]) /\ ~Claims(p) /\ (p.held => pass[w].held)
    BY <1>1, <2>1, ToSecretPlaced DEF IInv, TypeCore
  <2>3. pass' = [pass EXCEPT ![w] = p]
    BY <1>3, <2>1 DEF Recording, Set
  <2> QED
    BY <1>3, <2>2, <2>3 DEF Onward
<1> QED
  BY <1>2, <1>3

LEMMA PutEndsIInv ==
  ASSUME IInv, NEW w \in Passes, PutSucceeds(w) \/ PutFails(w)
  PROVE  IInv'
<1>1. /\ pass[w].pc = "put" /\ w \in Working /\ pass[w] \in PassStates
      /\ Owes(pass[w]) <=> pass[w].acted
  BY PassKnown DEF PutSucceeds, PutFails, At, Owes
<1>2. UNCHANGED <<settings, truth, env, github, recorded, lease>>
  BY DEF PutSucceeds, PutFails
<1>3. CASE PutSucceeds(w)
  <2>1. PICK p : Onward(w, p, "synced")
    <3>1. Recording(w, "synced")
      BY <1>3 DEF PutSucceeds
    <3> QED
      BY <1>1, <3>1, RecordingGoes
  <2>2. /\ UNCHANGED <<stray, slips>> /\ pass[w].acted
        /\ stray' \subseteq [secret : Secrets, value : Values]
        /\ slips' \in {"none", "race", "fault"}
    BY <1>3 DEF PutSucceeds, IInv, TypeCore
  <2>3. ASSUME settings.db, slips' = "none"
        PROVE  Owes(p) /\ Backed(p, github, recorded)
    <3>1. Backed(pass[w], github, recorded)
      BY <2>2, <2>3 DEF IInv, RecordFollows
    <3> QED
      BY <1>1, <2>1, <2>2, <2>3, <3>1 DEF Onward, Backed, Owes
  <2> QED
    <3>1. /\ pass' = [pass EXCEPT ![w] = p] /\ Placed(p, env[Home[w]]) /\ (p.held => pass[w].held)
          /\ settings.db => SecretOf(p) = SecretOf(pass[w])
      BY <2>1 DEF Onward
    <3> QED
      BY <1>1, <1>2, <2>2, <2>3, <3>1, MoveIInv
<1>4. CASE PutFails(w)
  <2>1. PICK p : Onward(w, p, "failed")
    <3>1. Recording(w, "failed")
      BY <1>4 DEF PutFails
    <3> QED
      BY <1>1, <3>1, RecordingGoes
  <2>2. PICK left \in Leaves(w) :
          /\ stray' = stray \cup left
          /\ Slip(pass[w].acted \/ left # {}, "fault")
    BY <1>4 DEF PutFails
  <2>3. stray' \subseteq [secret : Secrets, value : Values]
    BY <2>2, LeavesKnown DEF IInv, TypeCore
  <2>4. (pass[w].acted \/ left # {}) \in BOOLEAN
    OBVIOUS
  <2>5. /\ slips' \in {"none", "race", "fault"}
        /\ settings.db /\ slips' = "none" => slips = "none" /\ ~(pass[w].acted \/ left # {})
    BY <2>2, <2>4, SlipKnown
  <2>6. ~Claims(p)
    BY <2>1 DEF Onward, Claims, Owes
  <2> QED
    <3>1. pass' = [pass EXCEPT ![w] = p] /\ Placed(p, env[Home[w]]) /\ (p.held => pass[w].held)
      BY <2>1 DEF Onward
    <3> QED
      BY <1>1, <1>2, <2>2, <2>3, <2>5, <2>6, <3>1, MoveIInv, Silent
<1> QED
  BY <1>3, <1>4

\* The handler of a request that nobody waits for is dropped.
LEMMA DropIInv ==
  ASSUME IInv, NEW w \in Passes, Drop(w)
  PROVE  IInv'
<1>1. PICK left \in Leaves(w) :
        /\ stray' = stray \cup left
        /\ Slip(left # {} \/ \E x \in {w} : Unrecorded(x), "fault")
  BY DEF Drop, Abandon
<1>2. stray' \subseteq [secret : Secrets, value : Values]
  BY <1>1, LeavesKnown DEF IInv, TypeCore
<1>3. (left # {} \/ \E x \in {w} : Unrecorded(x)) \in BOOLEAN
  OBVIOUS
<1>4. /\ slips' \in {"none", "race", "fault"}
      /\ settings.db /\ slips' = "none" => slips = "none" /\ left = {} /\ ~Unrecorded(w)
  BY <1>1, <1>3, SlipKnown
<1>5. pass' = [pass EXCEPT ![w] = Idle] /\ UNCHANGED <<settings, truth, env, github, recorded, lease>>
  BY DEF Drop, Set
<1>6. Placed(Idle, env[Home[w]]) /\ ~Claims(Idle) /\ ~Idle.held /\ Idle.pc = "idle"
  BY IdlePlaced DEF Idle
<1> QED
  BY <1>1, <1>2, <1>4, <1>5, <1>6, MoveIInv, Silent, PassKnown

LEMMA RecordIInv ==
  ASSUME IInv, NEW w \in Passes, Record(w)
  PROVE  IInv'
<1>1. /\ pass[w] \in PassStates /\ Placed(pass[w], env[Home[w]]) /\ pass[w].pc = "row"
      /\ w \in Working /\ Secret(w) = SecretOf(pass[w]) /\ Secret(w) \in Secrets
      /\ Owes(pass[w]) <=> pass[w].status = "synced"
  BY PassKnown DEF Record, At, Owes
<1>2. pass[w].rule \in DOMAIN Rules /\ pass[w].secret + 1 \in Nat
  BY <1>1 DEF Placed, PassStates
<1>3. PICK p : p = ToSecret(w, pass[w], pass[w].secret + 1)
  OBVIOUS
<1>4. /\ Placed(p, env[Home[w]]) /\ ~Claims(p) /\ (p.held => pass[w].held)
      /\ pass' = [pass EXCEPT ![w] = p]
      /\ UNCHANGED <<settings, truth, env, github, lease, stray>>
  BY <1>1, <1>2, <1>3, ToSecretPlaced DEF IInv, TypeCore, Record, Set
<1>5. stray' \subseteq [secret : Secrets, value : Values]
  BY <1>4 DEF IInv, TypeCore
<1>6. CASE settings.db /\ CountsAsSynced(pass[w].status) /\ UNCHANGED slips
           /\ recorded' = [recorded EXCEPT ![Secret(w)] = pass[w].value]
  <2>1. pass[w].value \in Values /\ pass[w].status \in {"synced", "skipped"}
    BY <1>1, <1>6 DEF Placed, CountsAsSynced
  <2>2. TypeCore' /\ NothingRecorded'
    BY <1>1, <1>4, <1>6, <2>1 DEF IInv, TypeCore, NothingRecorded
  <2>3. /\ recorded'[Secret(w)] = pass[w].value
        /\ \A s \in Secrets \ {Secret(w)} : recorded'[s] = recorded[s]
    BY <1>1, <1>6 DEF IInv, TypeCore
  <2>4. /\ SettingsFixed' /\ PassesPlaced' /\ HeldHasLease'
        /\ \A x, y \in Working' :
              settings.db /\ slips = "none" => env'[Home[x]] = env'[Home[y]]
    BY <1>1, <1>4, StepFrame
  <2>5. /\ pass'[w] = p /\ \A x \in Passes \ {w} : pass'[x] = pass[x]
        /\ \A x \in Passes : Unrecorded(x)' <=> Owes(pass'[x])
    BY <1>4, PassGoes
  <2>6. ASSUME slips = "none", NEW x \in Passes
        PROVE  Backed(pass[x], github, recorded)'
    <3>1. CASE x = w
      <4>1. Backed(p, github', recorded')
        BY <1>4, Silent
      <4> QED
        BY <3>1, <4>1, <1>4, <2>5 DEF Backed, SecretOf, Rules
    <3>2. CASE x # w
      <4>1. pass'[x] = pass[x] /\ Backed(pass[x], github, recorded)
        BY <1>6, <2>5, <2>6, <3>2 DEF IInv, RecordFollows
      <4>2. ASSUME pass[x].pc = "row", pass[x].status = "skipped"
            PROVE  recorded'[SecretOf(pass[x])] = pass[x].value
        <5>1. SecretOf(pass[x]) \in Secrets
          BY <4>2, PassKnown
        <5>2. CASE SecretOf(pass[x]) = Secret(w)
          <6>1. pass[x].value = pass[w].value
            BY <1>1, <1>6, <2>6, <4>2, <5>2, SameValue
          <6> QED
            BY <2>3, <5>2, <6>1
        <5>3. CASE SecretOf(pass[x]) # Secret(w)
          BY <2>3, <4>1, <4>2, <5>1, <5>3 DEF Backed
        <5> QED
          BY <5>2, <5>3
      <4>3. Backed(pass[x], github', recorded')
        BY <1>4, <4>1, <4>2 DEF Backed
      <4> QED
        BY <4>1, <4>3, <1>4 DEF Backed, SecretOf, Rules
    <3> QED
      BY <3>1, <3>2
  <2>7. RecordFollows'
    BY <1>4, <1>6, <2>4, <2>6 DEF RecordFollows, IInv
  <2>8. RecordedIsThere'
    <3> SUFFICES ASSUME slips' = "none", NEW s \in Secrets, recorded'[s] \notin {Unset, github'[s]}
                 PROVE  \E x \in Passes : Unrecorded(x)' /\ Secret(x)' = s
      BY DEF RecordedIsThere
    <3>1. Backed(pass[w], github, recorded)
      BY <1>6 DEF IInv, RecordFollows
    <3>2. s = Secret(w) => pass[w].status = "skipped" /\ recorded[s] = pass[w].value
      BY <1>1, <1>4, <2>1, <2>3, <3>1 DEF Backed
    <3>3. recorded[s] = recorded'[s]
      BY <2>3, <3>2
    <3>4. PICK x \in Passes : Unrecorded(x) /\ Secret(x) = s
      BY <1>4, <1>6, <3>3 DEF IInv, RecordedIsThere
    <3>5. x # w
      BY <1>1, <3>2, <3>4, PassKnown
    <3>6. pass'[x] = pass[x] /\ Owes(pass[x])
      BY <2>5, <3>4, <3>5, PassKnown
    <3>7. Unrecorded(x)'
      BY <2>5, <3>6
    <3>8. Secret(x)' = s
      BY <1>4, <3>4, <3>6 DEF Secret, Rules
    <3> QED
      BY <3>7, <3>8
  <2> QED
    BY <2>2, <2>4, <2>7, <2>8 DEF IInv
<1>7. CASE ~(settings.db /\ CountsAsSynced(pass[w].status)) /\ UNCHANGED <<slips, recorded>>
  <2>1. slips' \in {"none", "race", "fault"}
    BY <1>7 DEF IInv, TypeCore
  <2>2. settings.db => ~Owes(pass[w])
    BY <1>1, <1>7 DEF CountsAsSynced
  <2> QED
    BY <1>1, <1>4, <1>5, <1>7, <2>1, <2>2, MoveIInv, Silent
<1>8. CASE Slip(pass[w].status = "synced", "fault") /\ UNCHANGED recorded
  <2>1. (pass[w].status = "synced") \in BOOLEAN
    OBVIOUS
  <2>2. /\ slips' \in {"none", "race", "fault"}
        /\ settings.db /\ slips' = "none" => slips = "none" /\ pass[w].status # "synced"
    BY <1>8, <2>1, SlipKnown
  <2> QED
    BY <1>1, <1>4, <1>5, <1>8, <2>2, MoveIInv, Silent
<1> QED
  BY <1>6, <1>7, <1>8 DEF Record


\* A pass begins: unless it meets one with another environment, and then that is
\* a slip.
LEMMA BeginIInv ==
  ASSUME IInv, NEW w \in Passes, NEW held \in BOOLEAN, At(w, "idle"), Begin(w, held),
         UNCHANGED <<settings, truth, env, github, recorded, stray>>,
         lease' = lease \/ (lease = Nobody /\ lease' = w /\ w \in Loops),
         held => w \in Loops /\ lease' = w
  PROVE  IInv'
<1>1. PICK p : p = ToRule([Idle EXCEPT !.held = held], 1)
  OBVIOUS
<1>2. 1 \in DOMAIN Rules
  BY RulesType DEF Begin, IInv
<1>3. [Idle EXCEPT !.held = held] \in PassStates /\ [Idle EXCEPT !.held = held].held = held
  BY DEF Idle, PassStates
<1>4. Placed(p, env[Home[w]]) /\ ~Claims(p) /\ p.held = held
  BY <1>1, <1>2, <1>3, ToRulePlaced
<1>5. pass' = [pass EXCEPT ![w] = p] /\ Slip(Racing(w), "race")
  BY <1>1 DEF Begin, Set
<1>6. /\ slips' \in {"none", "race", "fault"}
      /\ settings.db /\ slips' = "none" => slips = "none" /\ ~Racing(w)
  <2>1. Racing(w) \in BOOLEAN
    BY DEF Racing
  <2> QED
    BY <1>5, <2>1, SlipKnown
<1>7. /\ SettingsFixed' /\ PassesPlaced' /\ pass'[w] = p
      /\ \A x \in Passes \ {w} : pass'[x] = pass[x]
      /\ \A x \in Passes : Unrecorded(x)' <=> Owes(pass'[x])
      /\ \A x \in Passes \ {w} : x \in Working' <=> x \in Working
  BY <1>4, <1>5, PassGoes
<1>8. TypeCore' /\ NothingRecorded'
  BY <1>6 DEF IInv, TypeCore, NothingRecorded
<1>9. HeldHasLease'
  BY <1>4, <1>7, SyncAssumption DEF IInv, HeldHasLease
<1>10. RecordFollows'
  <2> SUFFICES ASSUME settings.db, slips' = "none" PROVE RecordFollows'
    BY DEF RecordFollows
  <2>1. slips = "none" /\ ~Racing(w) /\ stray' = {}
    BY <1>6 DEF IInv, RecordFollows
  <2>2. \A x \in Working \ {w} : env[Home[x]] = env[Home[w]]
    BY <2>1 DEF Racing
  <2>3. \A x \in Working' : x = w \/ x \in Working \ {w}
    BY <1>7 DEF Working
  <2>4. \A x, y \in Working' : env'[Home[x]] = env'[Home[y]]
    BY <2>2, <2>3
  <2>5. ASSUME NEW x \in Passes PROVE Backed(pass[x], github, recorded)'
    <3>1. Backed(pass'[x], github, recorded)
      <4>1. CASE x = w
        BY <4>1, <1>4, <1>7, Silent
      <4>2. CASE x # w
        BY <4>2, <1>7, <2>1 DEF IInv, RecordFollows
      <4> QED
        BY <4>1, <4>2
    <3> QED
      BY <3>1 DEF Backed, SecretOf, Rules
  <2> QED
    BY <2>1, <2>4, <2>5 DEF RecordFollows
<1>11. RecordedIsThere'
  <2> SUFFICES ASSUME slips' = "none", NEW s \in Secrets, recorded[s] \notin {Unset, github[s]}
               PROVE  \E x \in Passes : Unrecorded(x)' /\ Secret(x)' = s
    BY DEF RecordedIsThere
  <2>1. slips = "none"
    BY <1>6 DEF IInv, NothingRecorded
  <2>2. PICK x \in Passes : Unrecorded(x) /\ Secret(x) = s
    BY <2>1 DEF IInv, RecordedIsThere
  <2>3. x # w
    BY <2>2 DEF At, Unrecorded
  <2>4. pass'[x] = pass[x] /\ Owes(pass[x])
    BY <1>7, <2>2, <2>3, PassKnown
  <2>5. Unrecorded(x)'
    BY <1>7, <2>4
  <2>6. Secret(x)' = s
    BY <2>2, <2>4 DEF Secret, Rules
  <2> QED
    BY <2>5, <2>6
<1> QED
  BY <1>7, <1>8, <1>9, <1>10, <1>11 DEF IInv

LEMMA LoopIInv ==
  ASSUME IInv, NEW w \in Loops, Loop(w)
  PROVE  IInv'
<1>1. w \in Passes
  BY DEF Passes
<1>2. CASE Acquire(w)
  BY <1>1, <1>2, BeginIInv DEF Acquire
<1>3. CASE GoWithoutLock(w)
  BY <1>1, <1>3, BeginIInv DEF GoWithoutLock
<1>4. CASE GoUnanswered(w)
  BY <1>1, <1>4, BeginIInv DEF GoUnanswered
<1>5. CASE Release(w)
  <2>1. /\ pass[w].held /\ lease = w /\ ~Owes(pass[w])
    BY <1>1, <1>5, PassKnown DEF Release, At, Placed, IInv, HeldHasLease, Owes
  <2>2. /\ pass' = [pass EXCEPT ![w] = Idle]
        /\ UNCHANGED <<settings, truth, env, github, recorded, stray, slips>>
        /\ lease' \in {lease, Nobody}
    BY <1>5 DEF Release, Set
  <2>3. Placed(Idle, env[Home[w]]) /\ ~Claims(Idle) /\ ~Idle.held /\ Idle.pc = "idle"
    BY IdlePlaced DEF Idle
  <2>4. /\ SettingsFixed' /\ PassesPlaced' /\ pass'[w] = Idle
        /\ \A x \in Passes \ {w} : pass'[x] = pass[x]
        /\ \A x \in Passes : Unrecorded(x)' <=> Owes(pass'[x])
        /\ \A x \in Passes \ {w} : x \in Working' <=> x \in Working
        /\ w \notin Working'
    BY <1>1, <2>2, <2>3, PassGoes
  <2>5. TypeCore' /\ NothingRecorded'
    BY <2>2 DEF IInv, TypeCore, NothingRecorded
  <2>6. HeldHasLease'
    BY <2>1, <2>3, <2>4 DEF IInv, HeldHasLease
  <2>7. RecordFollows'
    <3> SUFFICES ASSUME settings.db, slips = "none" PROVE RecordFollows'
      BY <2>2 DEF RecordFollows
    <3>1. stray' = {} /\ \A x, y \in Working : env[Home[x]] = env[Home[y]]
      BY <2>2 DEF IInv, RecordFollows
    <3>2. \A x, y \in Working' : env'[Home[x]] = env'[Home[y]]
      BY <2>2, <2>4, <3>1 DEF Working
    <3>3. ASSUME NEW x \in Passes PROVE Backed(pass[x], github, recorded)'
      <4>1. Backed(pass'[x], github, recorded)
        <5>1. CASE x = w
          BY <5>1, <2>3, <2>4, Silent
        <5>2. CASE x # w
          BY <5>2, <2>4 DEF IInv, RecordFollows
        <5> QED
          BY <5>1, <5>2
      <4> QED
        BY <2>2, <4>1 DEF Backed, SecretOf, Rules
    <3> QED
      BY <3>1, <3>2, <3>3 DEF RecordFollows
  <2>8. RecordedIsThere'
    <3> SUFFICES ASSUME slips' = "none", NEW s \in Secrets, recorded'[s] \notin {Unset, github'[s]}
                 PROVE  \E x \in Passes : Unrecorded(x)' /\ Secret(x)' = s
      BY DEF RecordedIsThere
    <3>1. PICK x \in Passes : Unrecorded(x) /\ Secret(x) = s
      BY <2>2 DEF IInv, RecordedIsThere
    <3>2. x # w /\ Owes(pass[x])
      BY <2>1, <3>1, PassKnown
    <3>3. pass'[x] = pass[x]
      BY <2>4, <3>2
    <3>4. Unrecorded(x)'
      BY <2>4, <3>2, <3>3
    <3>5. Secret(x)' = s
      BY <2>2, <3>1, <3>3 DEF Secret, Rules
    <3> QED
      BY <3>4, <3>5
  <2> QED
    BY <2>4, <2>5, <2>6, <2>7, <2>8 DEF IInv
<1> QED
  BY <1>2, <1>3, <1>4, <1>5 DEF Loop


\* A replica is replaced: its passes end together, and those of the others keep
\* the environment they had.
LEMMA RestartIInv ==
  ASSUME IInv, NEW r \in Replicas, Restart(r)
  PROVE  IInv'
<1>1. PICK gone : gone = {w \in Passes : Home[w] = r}
  OBVIOUS
<1>2. PICK left \in UNION {Leaves(w) : w \in gone} : Abandon(gone, left)
  BY <1>1 DEF Restart
<1>3. left \subseteq [secret : Secrets, value : Values]
  <2>1. PICK w \in gone : left \in Leaves(w)
    BY <1>2
  <2> QED
    BY <1>1, <2>1, LeavesKnown
<1>4. /\ slips' \in {"none", "race", "fault"}
      /\ settings.db /\ slips' = "none" =>
           slips = "none" /\ left = {} /\ \A w \in gone : ~Unrecorded(w)
  <2>1. (left # {} \/ \E w \in gone : Unrecorded(w)) \in BOOLEAN
    OBVIOUS
  <2> QED
    BY <1>2, <2>1, SlipKnown DEF Abandon
<1>5. stray' = stray \cup left
  BY <1>2 DEF Abandon
<1>6. /\ pass' = [w \in Passes |-> IF w \in gone THEN Idle ELSE pass[w]]
      /\ env' = [env EXCEPT ![r] = truth]
      /\ UNCHANGED <<settings, truth, github, recorded, lease>>
  BY <1>1 DEF Restart
<1>7. /\ \A w \in gone : pass'[w] = Idle
      /\ \A w \in Passes \ gone : pass'[w] = pass[w] /\ env'[Home[w]] = env[Home[w]]
  BY <1>1, <1>6, SyncAssumption DEF IInv, TypeCore
<1>8. TypeCore'
  BY <1>3, <1>4, <1>5, <1>6 DEF IInv, TypeCore
<1>9. SettingsFixed' /\ NothingRecorded'
  BY <1>6 DEF IInv, SettingsFixed, Rules, NothingRecorded
<1>10. Idle \in PassStates /\ Idle.pc = "idle" /\ ~Idle.held
  BY DEF Idle, PassStates
<1>11. \A w \in Passes : pass[w] \in PassStates /\ Placed(pass[w], env[Home[w]])
  BY PassKnown
<1>12. PassesPlaced'
  <2>1. pass' \in [Passes -> PassStates]
    BY <1>6, <1>10, <1>11
  <2>2. \A w \in Passes : Placed(pass'[w], env'[Home[w]])
    BY <1>7, <1>11, IdlePlaced
  <2> QED
    BY <1>6, <2>1, <2>2 DEF PassesPlaced, Placed, SecretOf, Rules
<1>13. HeldHasLease'
  BY <1>6, <1>7, <1>10 DEF IInv, HeldHasLease
<1>14. \A w \in Passes : Unrecorded(w)' <=> Owes(pass'[w])
  BY DEF Unrecorded, Owes, At
<1>15. RecordFollows'
  <2> SUFFICES ASSUME settings.db, slips' = "none" PROVE RecordFollows'
    BY <1>6 DEF RecordFollows
  <2>1. slips = "none" /\ stray' = {}
    BY <1>4, <1>5 DEF IInv, RecordFollows
  <2>2. \A w \in Working' : w \in Working \ gone
    BY <1>7, <1>10 DEF Working
  <2>3. \A x, y \in Working' : env'[Home[x]] = env'[Home[y]]
    BY <2>1, <2>2, <1>7 DEF IInv, RecordFollows, Working
  <2>4. ASSUME NEW x \in Passes PROVE Backed(pass[x], github, recorded)'
    <3>1. Backed(pass'[x], github, recorded)
      <4>1. CASE x \in gone
        BY <4>1, <1>7, IdlePlaced, Silent
      <4>2. CASE x \notin gone
        BY <4>2, <1>7, <2>1 DEF IInv, RecordFollows
      <4> QED
        BY <4>1, <4>2
    <3> QED
      BY <1>6, <3>1 DEF Backed, SecretOf, Rules
  <2> QED
    BY <2>1, <2>3, <2>4 DEF RecordFollows
<1>16. RecordedIsThere'
  <2> SUFFICES ASSUME slips' = "none", NEW s \in Secrets, recorded'[s] \notin {Unset, github'[s]}
               PROVE  \E x \in Passes : Unrecorded(x)' /\ Secret(x)' = s
    BY DEF RecordedIsThere
  <2>1. slips = "none" /\ \A w \in gone : ~Unrecorded(w)
    BY <1>4, <1>6 DEF IInv, NothingRecorded
  <2>2. PICK x \in Passes : Unrecorded(x) /\ Secret(x) = s
    BY <1>6, <2>1 DEF IInv, RecordedIsThere
  <2>3. pass'[x] = pass[x] /\ Owes(pass[x])
    BY <1>7, <2>1, <2>2, PassKnown
  <2>4. Unrecorded(x)'
    BY <1>14, <2>3
  <2>5. Secret(x)' = s
    BY <1>6, <2>2, <2>3 DEF Secret, Rules
  <2> QED
    BY <2>4, <2>5
<1> QED
  BY <1>8, <1>9, <1>12, <1>13, <1>15, <1>16 DEF IInv

\* What is not a step of a pass.
LEMMA OutsideIInv ==
  ASSUME IInv, UNCHANGED <<settings, env, recorded, pass, slips>>,
         TypeCore',
         (UNCHANGED <<github, stray>> \/ stray # {}),
         (UNCHANGED lease \/ (lease # Nobody /\ ~pass[lease].held))
  PROVE  IInv'
<1>1. SettingsFixed' /\ NothingRecorded'
  BY DEF IInv, SettingsFixed, Rules, NothingRecorded
<1>2. PassesPlaced'
  BY DEF IInv, PassesPlaced, Placed, SecretOf, Rules
<1>3. HeldHasLease'
  BY DEF IInv, HeldHasLease
<1>4. CASE UNCHANGED <<github, stray>>
  <2>1. RecordFollows'
    BY <1>4 DEF IInv, RecordFollows, Working, Backed, SecretOf, Rules
  <2>2. RecordedIsThere'
    BY <1>4 DEF IInv, RecordedIsThere, Unrecorded, At, Secret, Rules
  <2> QED
    BY <1>1, <1>2, <1>3, <2>1, <2>2 DEF IInv
<1>5. CASE stray # {}
  <2>1. ~settings.db \/ slips # "none"
    BY <1>5 DEF IInv, RecordFollows
  <2>2. RecordFollows'
    BY <2>1 DEF RecordFollows
  <2>3. RecordedIsThere'
    BY <2>1 DEF IInv, NothingRecorded, RecordedIsThere
  <2> QED
    BY <1>1, <1>2, <1>3, <2>2, <2>3 DEF IInv
<1> QED
  BY <1>4, <1>5

LEMMA NextIInv ==
  ASSUME IInv, [Next]_vars
  PROVE  IInv'
<1>1. ASSUME NEW w \in Passes, Work(w) PROVE IInv'
  BY <1>1, FetchIInv, LookUpIInv, PutIInv, PutEndsIInv, RecordIInv DEF Work
<1>2. ASSUME NEW w \in Loops, Loop(w) PROVE IInv'
  BY <1>2, LoopIInv
<1>3. ASSUME NEW w \in Posts, Request(w) PROVE IInv'
  <2>1. w \in Passes
    BY DEF Passes
  <2> QED
    BY <1>3, <2>1, BeginIInv DEF Request
<1>4. ASSUME NEW w \in Posts, Drop(w) PROVE IInv'
  BY <1>4, DropIInv DEF Passes
<1>5. ASSUME NEW r \in Replicas, Restart(r) PROVE IInv'
  BY <1>5, RestartIInv
<1>6. ASSUME NEW s \in Secrets, Rotate(s) PROVE IInv'
  <2>1. TypeCore'
    BY <1>6 DEF IInv, TypeCore, Rotate
  <2> QED
    BY <1>6, <2>1, OutsideIInv DEF Rotate
<1>7. CASE LeaseExpires
  <2>1. TypeCore'
    BY <1>7 DEF IInv, TypeCore, LeaseExpires
  <2> QED
    BY <1>7, <2>1, OutsideIInv DEF LeaseExpires
<1>8. CASE StrayArrives
  <2>1. TypeCore' /\ stray # {}
    BY <1>8 DEF IInv, TypeCore, StrayArrives
  <2> QED
    BY <1>8, <2>1, OutsideIInv DEF StrayArrives
<1>9. CASE UNCHANGED vars
  <2>1. TypeCore'
    BY <1>9 DEF IInv, TypeCore, vars
  <2> QED
    BY <1>9, <2>1, OutsideIInv DEF vars
<1> QED
  BY <1>1, <1>2, <1>3, <1>4, <1>5, <1>6, <1>7, <1>8, <1>9 DEF Next

-----------------------------------------------------------------------------
(***************************************************************************)
(* Theorems                                                                *)
(***************************************************************************)
\* The invariant holds of every reachable state.
LEMMA IInvCorrect == Spec => []IInv
<1>1. Init => IInv
  BY InitIInv
<1>2. IInv /\ [Next]_vars => IInv'
  BY NextIInv
<1> QED
  BY <1>1, <1>2, PTL DEF Spec

\* Every variable keeps its type, and a pass at work is at a secret of a rule of the
\* document (sync_all walks the rules it was started with).
THEOREM TypeCorrect == Spec => []TypeOK
<1>1. IInv => TypeOK
  <2> SUFFICES ASSUME IInv PROVE TypeOK
    OBVIOUS
  <2>1. ASSUME NEW w \in Passes
        PROVE  /\ pass[w].pc \in {"idle", "key", "look", "put", "row", "release"}
               /\ w \in Working => pass[w].rule \in DOMAIN Rules
               /\ At(w, "look") \/ At(w, "put") => pass[w].value \in Values
               /\ At(w, "row") => settings.db \/ pass[w].status = "failed"
    BY PassKnown DEF Placed, PassStates, At, Working
  <2> QED
    BY <2>1 DEF TypeOK, IInv, TypeCore, SettingsFixed, Rules
<1> QED
  BY <1>1, IInvCorrect, PTL

\* Passes that were granted the fiducia lock never overlap, on any replicas,
\* whatever becomes of replies, releases and processes (run_periodic_sync).
THEOREM SerializeCorrect == Spec => []GrantedPassesSerialize
<1>1. IInv => GrantedPassesSerialize
  BY DEF IInv, HeldHasLease, GrantedPassesSerialize, Working
<1> QED
  BY <1>1, IInvCorrect, PTL

\* Before the first slip, the newest hash on record is that of the value GitHub has,
\* but for a pass that has yet to record its PUT: sync_one skips nothing that
\* GitHub lacks.
THEOREM RecordedCorrect == Spec => []RecordedIsThere
<1>1. IInv => RecordedIsThere
  BY DEF IInv
<1> QED
  BY <1>1, IInvCorrect, PTL
==============================================================================
