------------------------ MODULE BuildExecutionProofs -------------------------
(***************************************************************************)
(* Proofs about BuildExecution, for every configuration, every document    *)
(* and rule that validation lets through, and every event.                 *)
(***************************************************************************)
EXTENDS BuildExecution, SequenceTheorems, FiniteSetTheorems, WellFoundedInduction, TLAPS

-----------------------------------------------------------------------------
(***************************************************************************)
(* Sequences of steps                                                      *)
(***************************************************************************)
Has(seq, x) == \E i \in 1..Len(seq) : seq[i] = x

LEMMA IfProperties ==
  ASSUME NEW S, NEW condition, NEW step, condition => step \in S
  PROVE  /\ If(condition, step) \in Seq(S)
         /\ Len(If(condition, step)) = IF condition THEN 1 ELSE 0
         /\ \A x : Has(If(condition, step), x) <=> condition /\ x = step
<1>1. CASE condition
  BY <1>1 DEF If, Has
<1>2. CASE ~condition
  BY <1>2 DEF If, Has
<1> QED
  BY <1>1, <1>2

LEMMA ConcatHas ==
  ASSUME NEW S, NEW s \in Seq(S), NEW t \in Seq(S)
  PROVE  \A x : Has(s \o t, x) <=> Has(s, x) \/ Has(t, x)
<1>1. /\ Len(s) \in Nat /\ Len(t) \in Nat /\ Len(s \o t) = Len(s) + Len(t)
      /\ \A i \in 1..(Len(s) + Len(t)) :
           (s \o t)[i] = IF i <= Len(s) THEN s[i] ELSE t[i - Len(s)]
  BY ConcatProperties, LenProperties
<1> SUFFICES ASSUME NEW x PROVE Has(s \o t, x) <=> Has(s, x) \/ Has(t, x)
  OBVIOUS
<1>2. Has(s \o t, x) => Has(s, x) \/ Has(t, x)
  <2> SUFFICES ASSUME NEW i \in 1..(Len(s) + Len(t)), (s \o t)[i] = x
               PROVE  Has(s, x) \/ Has(t, x)
    BY <1>1 DEF Has
  <2>1. CASE i <= Len(s)
    BY <1>1, <2>1 DEF Has
  <2>2. CASE ~(i <= Len(s))
    <3>1. i - Len(s) \in 1..Len(t) /\ t[i - Len(s)] = x
      BY <1>1, <2>2
    <3> QED
      BY <3>1 DEF Has
  <2> QED
    BY <2>1, <2>2
<1>3. Has(s, x) => Has(s \o t, x)
  <2> SUFFICES ASSUME NEW i \in 1..Len(s), s[i] = x PROVE Has(s \o t, x)
    BY DEF Has
  <2>1. i \in 1..Len(s \o t) /\ (s \o t)[i] = x
    BY <1>1
  <2> QED
    BY <2>1 DEF Has
<1>4. Has(t, x) => Has(s \o t, x)
  <2> SUFFICES ASSUME NEW i \in 1..Len(t), t[i] = x PROVE Has(s \o t, x)
    BY DEF Has
  <2>1. /\ i + Len(s) \in 1..Len(s \o t) /\ ~(i + Len(s) <= Len(s))
        /\ (i + Len(s)) - Len(s) = i
    BY <1>1
  <2>2. (s \o t)[i + Len(s)] = x
    BY <1>1, <2>1
  <2> QED
    BY <2>1, <2>2 DEF Has
<1> QED
  BY <1>2, <1>3, <1>4

-----------------------------------------------------------------------------
(***************************************************************************)
(* The plan of a validated request                                         *)
(***************************************************************************)
StepNames == {"clone", "build", "login", "push", "apply", "rollout", "run", "archive", "dispatch"}

LEMMA SpecsType ==
  ASSUME NEW name \in Profiles
  PROVE  SPECS[name].steps \in {1, 2}
<1>1. name \in Verifying \cup Releasing
  BY DEF Profiles, SPECS
<1> QED
  BY <1>1 DEF SPECS

\* The two plans of commands, step by step.
LEMMA BuildPlanProperties ==
  ASSUME NEW c, NEW q, NEW S, {"clone", "build"} \subseteq S,
         q.push /\ c.login => "login" \in S, q.push => "push" \in S,
         Deploying(q) => "apply" \in S,
         Deploying(q) /\ q.rollout # "absent" => "rollout" \in S
  PROVE  /\ BuildPlan(c, q) \in Seq(S)
         /\ Len(BuildPlan(c, q)) > 0
         /\ \A x : Has(BuildPlan(c, q), x) <=>
              \/ x \in {"clone", "build"}
              \/ x = "login" /\ q.push /\ c.login
              \/ x = "push" /\ q.push
              \/ x = "apply" /\ Deploying(q)
              \/ x = "rollout" /\ Deploying(q) /\ q.rollout # "absent"
<1> DEFINE s1 == <<"clone", "build">>
           s2 == If(q.push /\ c.login, "login")
           s3 == If(q.push, "push")
           s4 == If(Deploying(q), "apply")
           s5 == If(Deploying(q) /\ q.rollout # "absent", "rollout")
           t3 == s1 \o s2 \o s3
           t4 == t3 \o s4
<1>1. s1 \in Seq(S) /\ \A x : Has(s1, x) <=> x \in {"clone", "build"}
  BY DEF Has
<1>2. s2 \in Seq(S) /\ \A x : Has(s2, x) <=> q.push /\ c.login /\ x = "login"
  BY IfProperties
<1>3. s3 \in Seq(S) /\ \A x : Has(s3, x) <=> q.push /\ x = "push"
  BY IfProperties
<1>4. s4 \in Seq(S) /\ \A x : Has(s4, x) <=> Deploying(q) /\ x = "apply"
  BY IfProperties
<1>5. s5 \in Seq(S) /\ \A x : Has(s5, x)
        <=> Deploying(q) /\ q.rollout # "absent" /\ x = "rollout"
  BY IfProperties
<1> HIDE DEF s1, s2, s3, s4, s5
<1>6. s1 \o s2 \in Seq(S) /\ \A x : Has(s1 \o s2, x) <=> Has(s1, x) \/ Has(s2, x)
  BY <1>1, <1>2, ConcatProperties, ConcatHas
<1>7. t3 \in Seq(S) /\ \A x : Has(t3, x) <=> Has(s1 \o s2, x) \/ Has(s3, x)
  BY <1>3, <1>6, ConcatProperties, ConcatHas
<1>8. BuildPlan(c, q) = t4 \o s5
  BY DEF BuildPlan, s1, s2, s3, s4, s5
<1> HIDE DEF t3
<1>9. t4 \in Seq(S) /\ \A x : Has(t4, x) <=> Has(t3, x) \/ Has(s4, x)
  BY <1>4, <1>7, ConcatProperties, ConcatHas
<1> HIDE DEF t4
<1>10. t4 \o s5 \in Seq(S) /\ \A x : Has(t4 \o s5, x) <=> Has(t4, x) \/ Has(s5, x)
  BY <1>5, <1>9, ConcatProperties, ConcatHas
<1>11. \A x : Has(BuildPlan(c, q), x) <=>
         \/ x \in {"clone", "build"}
         \/ x = "login" /\ q.push /\ c.login
         \/ x = "push" /\ q.push
         \/ x = "apply" /\ Deploying(q)
         \/ x = "rollout" /\ Deploying(q) /\ q.rollout # "absent"
  BY <1>1, <1>2, <1>3, <1>4, <1>5, <1>6, <1>7, <1>8, <1>9, <1>10
<1>12. Len(BuildPlan(c, q)) > 0
  <2>1. Len(BuildPlan(c, q)) \in Nat
    BY <1>8, <1>10, LenProperties
  <2>2. 1..Len(BuildPlan(c, q)) # {}
    BY <1>11 DEF Has
  <2> QED
    BY <2>1, <2>2
<1> QED
  BY <1>8, <1>10, <1>11, <1>12

\* A profile runs its commands after the clone, and packs its artifacts last.
LEMMA ProfilePlanProperties ==
  ASSUME NEW q, q.profile \in Profiles, NEW S, {"clone", "run", "archive"} \subseteq S
  PROVE  LET n == SPECS[q.profile].steps
             plan == ProfilePlan(q)
         IN  /\ plan \in Seq(S)
             /\ Len(plan) = IF SPECS[q.profile].artifacts THEN n + 2 ELSE n + 1
             /\ plan[1] = "clone"
             /\ \A i \in 2..(n + 1) : plan[i] = "run"
             /\ SPECS[q.profile].artifacts => plan[n + 2] = "archive"
<1> DEFINE n == SPECS[q.profile].steps
           runs == [i \in 1..n |-> "run"]
           last == If(SPECS[q.profile].artifacts, "archive")
           two == <<"clone">> \o runs
<1>1. n \in Nat
  BY SpecsType
<1> HIDE DEF n
<1>2. <<"clone">> \in Seq(S) /\ Len(<<"clone">>) = 1 /\ <<"clone">>[1] = "clone"
  OBVIOUS
<1>3. runs \in Seq(S) /\ Len(runs) = n /\ \A i \in 1..n : runs[i] = "run"
  BY <1>1
<1>4. /\ last \in Seq(S) /\ Len(last) = IF SPECS[q.profile].artifacts THEN 1 ELSE 0
      /\ SPECS[q.profile].artifacts => last[1] = "archive"
  BY IfProperties DEF If
<1>5. ProfilePlan(q) = two \o last
  BY DEF ProfilePlan, n
<1> HIDE DEF runs, last
<1>6. /\ two \in Seq(S) /\ Len(two) = n + 1
      /\ two[1] = "clone"
      /\ \A i \in 2..(n + 1) : two[i] = "run"
  BY <1>1, <1>2, <1>3, ConcatProperties
<1> HIDE DEF two
<1>7. /\ two \o last \in Seq(S) /\ Len(two \o last) = (n + 1) + Len(last)
      /\ \A i \in 1..((n + 1) + Len(last)) :
           (two \o last)[i] = IF i <= n + 1 THEN two[i] ELSE last[i - (n + 1)]
  <2>1. /\ two \o last \in Seq(S) /\ Len(two \o last) = Len(two) + Len(last)
        /\ \A i \in 1..(Len(two) + Len(last)) :
             (two \o last)[i] = IF i <= Len(two) THEN two[i] ELSE last[i - Len(two)]
    BY <1>4, <1>6, ConcatProperties
  <2> QED
    BY <1>6, <2>1
<1> SUFFICES /\ ProfilePlan(q) \in Seq(S)
             /\ Len(ProfilePlan(q)) = IF SPECS[q.profile].artifacts THEN n + 2 ELSE n + 1
             /\ ProfilePlan(q)[1] = "clone"
             /\ \A i \in 2..(n + 1) : ProfilePlan(q)[i] = "run"
             /\ SPECS[q.profile].artifacts => ProfilePlan(q)[n + 2] = "archive"
  BY DEF n
<1> QED
  BY <1>1, <1>4, <1>5, <1>6, <1>7

\* Validation keeps everything out of the plan that its executor would refuse, or
\* would not expect.
LEMMA PlanExecutable ==
  ASSUME NEW c, NEW q, validate_build_request(c, q)
  PROVE  /\ Plan(c, q) \in Seq({s \in StepNames : Executable(c, q, s)})
         /\ Len(Plan(c, q)) > 0
<1> DEFINE S == {s \in StepNames : Executable(c, q, s)}
<1>1. CASE q.kind = "run-profile"
  <2>1. q.profile \in Profiles
    BY <1>1 DEF validate_build_request, ValidProfileJob
  <2>2. {"clone", "run", "archive"} \subseteq S
    BY <2>1 DEF StepNames, Executable
  <2> HIDE DEF S
  <2>3. Plan(c, q) = ProfilePlan(q)
    BY <1>1 DEF Plan
  <2>4. SPECS[q.profile].steps \in Nat
    BY <2>1, SpecsType
  <2>5. ProfilePlan(q) \in Seq(S) /\ Len(ProfilePlan(q)) > 0
    BY <2>1, <2>2, <2>4, ProfilePlanProperties
  <2> QED
    BY <2>3, <2>5 DEF S
<1>2. CASE q.kind # "run-profile" /\ q.executor = "lambda"
  <2>1. c.lambda
    BY <1>2 DEF validate_build_request, ValidImageJob
  <2>2. "dispatch" \in S
    BY <2>1 DEF StepNames, Executable
  <2> QED
    BY <1>2, <2>2 DEF Plan
<1>3. CASE q.kind # "run-profile" /\ q.executor # "lambda"
  <2>1. q.push => c.push /\ validate_image(c, q.image, TRUE)
    BY <1>3 DEF validate_build_request, ValidImageJob, validate_image
  <2>2. Deploying(q) =>
          /\ c.deploy /\ q.deploy \in {"kustomize", "manifest"}
          /\ validate_relative_path(q.path) /\ validate_rollout_resource(q.rollout)
    BY <1>3 DEF validate_build_request, ValidImageJob, validate_deploy
  <2>3. /\ {"clone", "build"} \subseteq S
        /\ q.push => {"login", "push"} \subseteq S
        /\ Deploying(q) => {"apply", "rollout"} \subseteq S
    BY <2>1, <2>2 DEF StepNames, Executable
  <2> HIDE DEF S
  <2>4. BuildPlan(c, q) \in Seq(S) /\ Len(BuildPlan(c, q)) > 0
    BY <2>3, BuildPlanProperties
  <2> QED
    BY <1>3, <2>4 DEF Plan, S
<1> QED
  BY <1>1, <1>2, <1>3

\* An archive is packed last; a remote job is dispatched and nothing else.
LEMMA PlanShape ==
  ASSUME NEW c, NEW q, validate_build_request(c, q)
  PROVE  \A i \in 1..Len(Plan(c, q)) :
           /\ Plan(c, q)[i] = "archive" => i = Len(Plan(c, q))
           /\ Plan(c, q)[i] = "dispatch" => Len(Plan(c, q)) = 1
<1>1. CASE q.kind = "run-profile"
  <2> DEFINE n == SPECS[q.profile].steps
             plan == ProfilePlan(q)
  <2>1. q.profile \in Profiles
    BY <1>1 DEF validate_build_request, ValidProfileJob
  <2>2. n \in Nat
    BY <2>1, SpecsType
  <2>3. /\ Len(plan) = IF SPECS[q.profile].artifacts THEN n + 2 ELSE n + 1
        /\ plan[1] = "clone"
        /\ \A i \in 2..(n + 1) : plan[i] = "run"
        /\ SPECS[q.profile].artifacts => plan[n + 2] = "archive"
    BY <2>1, ProfilePlanProperties
  <2>4. Plan(c, q) = plan
    BY <1>1 DEF Plan
  <2> HIDE DEF n, plan
  <2> QED
    BY <2>2, <2>3, <2>4
<1>2. CASE q.kind # "run-profile" /\ q.executor = "lambda"
  BY <1>2 DEF Plan
<1>3. CASE q.kind # "run-profile" /\ q.executor # "lambda"
  <2>1. {"clone", "build", "login", "push", "apply", "rollout"} \subseteq StepNames
    BY DEF StepNames
  <2>2. \A x : Has(BuildPlan(c, q), x) => x \notin {"archive", "dispatch"}
    BY <2>1, BuildPlanProperties
  <2> QED
    BY <1>3, <2>2 DEF Plan, Has
<1> QED
  BY <1>1, <1>2, <1>3

-----------------------------------------------------------------------------
(***************************************************************************)
(* Rules                                                                   *)
(***************************************************************************)
LEMMA LeastNatural ==
  ASSUME NEW S \in SUBSET Nat, S # {}
  PROVE  \E i \in S : \A j \in S : i <= j
<1> DEFINE R == OpToRel(<, Nat)
<1>1. IsWellFoundedOn(R, Nat)
  BY NatLessThanWellFounded
<1>2. \A a, b \in Nat : a < b => <<a, b>> \in R
  BY DEF OpToRel
<1> HIDE DEF R
<1>3. PICK i \in S : \A j \in S : ~(<<j, i>> \in R)
  BY <1>1, WFMin
<1>4. ASSUME NEW j \in S PROVE i <= j
  <2>1. ~(j < i)
    BY <1>2, <1>3
  <2> QED
    BY <2>1
<1> QED
  BY <1>4

\* There is a decisive rule, and it is the first that matches.
LEMMA DecisiveIsFirst ==
  ASSUME NEW rules \in Seq(WebhookRules), NEW e, Matching(rules, e) # {}
  PROVE  \E i \in Matching(rules, e) :
           /\ \A j \in Matching(rules, e) : i <= j
           /\ Decisive(rules, e) = rules[i]
<1> DEFINE M == Matching(rules, e)
           IsFirst(i) == \A j \in M : i <= j
           first == CHOOSE i \in M : IsFirst(i)
<1>1. M \in SUBSET Nat
  BY LenProperties DEF Matching
<1>2. \E i \in M : IsFirst(i)
  BY <1>1, LeastNatural
<1>3. first \in M /\ IsFirst(first)
  <2> HIDE DEF M, IsFirst
  <2> QED
    BY <1>2
<1>4. Decisive(rules, e) = rules[first]
  BY DEF Decisive
<1> QED
  BY <1>3, <1>4

\* The request a rule makes is a document, and the rule is a valid one.
LEMMA RuleMakesDocument ==
  ASSUME NEW raw \in Seq(WebhookRules), NEW e, Matching(parse_rules(raw), e) # {}
  PROVE  LET rules == parse_rules(raw)
             rule == Decisive(rules, e)
         IN  /\ rules \in Seq(WebhookRules)
             /\ rule \in WebhookRules /\ ValidRule(rule)
             /\ build_request_from_rule(rule, e) \in Documents
<1> DEFINE rules == parse_rules(raw)
           rule == Decisive(rules, e)
<1>1. rules \in Seq(WebhookRules) /\ \A i \in DOMAIN rules : ValidRule(rules[i])
  BY DEF parse_rules
<1>2. PICK i \in Matching(rules, e) : rule = rules[i]
  BY <1>1, DecisiveIsFirst
<1>3. i \in DOMAIN rules /\ DOMAIN rules = 1..Len(rules)
  BY <1>1, <1>2, LenProperties DEF Matching
<1>4. rule \in WebhookRules /\ ValidRule(rule)
  BY <1>1, <1>2, <1>3, ElementOfSeq
<1> HIDE DEF rules, rule
<1>5. build_request_from_rule(rule, e) \in Documents
  <2>1. substitute_image(rule, e) \in ImageClasses \cup {"absent"}
    BY <1>4 DEF substitute_image, WebhookRules, ImageClasses
  <2> QED
    BY <1>4, <2>1 DEF build_request_from_rule, WebhookRules, Documents
<1> QED
  BY <1>1, <1>4, <1>5 DEF rules, rule

-----------------------------------------------------------------------------
(***************************************************************************)
(* The inductive invariant                                                 *)
(***************************************************************************)
\* The request is fixed and has been validated; a rule's is the rule's.
RequestValid ==
  /\ config \in Configs
  /\ origin.by \in {"caller", "rule"}
  /\ request \in Documents
  /\ validate_build_request(config, request)
  /\ origin.by = "rule" =>
       /\ origin.rules \in Seq(WebhookRules)
       /\ Matching(origin.rules, origin.event) # {}
       /\ ValidRule(Decisive(origin.rules, origin.event))
       /\ request = build_request_from_rule(Decisive(origin.rules, origin.event), origin.event)

TypeCore ==
  /\ at \in 1..Len(Steps)
  /\ main \in {"ready", "waiting", "joining", "replying", "over", "cleared"}
  /\ code \in {"none", "ok", "error"}
  /\ child \in {"none", "running", "killed", "exited"}
  /\ pipes \in {"open", "closed"}
  /\ container \in {"none", "running"}
  /\ repo \in {"absent", "present"}
  /\ archive \in {"absent", "partial", "whole"}
  /\ cut \in BOOLEAN
  /\ result \in {"none", "ok", "error"}
  /\ status \in {"running", "succeeded", "failed"}

\* The steps behind the current one are done, those ahead are not begun.
Progress == done \subseteq 1..at /\ 1..(at - 1) \subseteq done

\* An exit code the execution has yet to judge is that of the current step.
CodeMeansDone ==
  main \in {"waiting", "joining"} /\ code = "ok"
  => at \in done /\ (Step = "archive" => archive = "whole")

\* Unless a command was left, the execution knows what became of it.
CommandKnown ==
  /\ child = "running" => main = "waiting"
  /\ cut => main \in {"over", "cleared"}
  /\ ~cut =>
       /\ main = "waiting" => child \in {"running", "exited"}
       /\ main = "joining" => child = "exited"
       /\ main \notin {"waiting", "joining"} => child \in {"none", "exited"} /\ pipes = "closed"
       /\ child # "running" => container = "none"

ArchiveIsLast == archive # "absent" => Step = "archive" /\ main # "ready"

WorkdirRemoved == main = "cleared" /\ ~cut /\ repo = "present" => config.keep

ResultMeansDone ==
  /\ result = "none" <=> main \notin {"over", "cleared"}
  /\ main = "replying" => Step = "dispatch"
  /\ result = "ok" =>
       /\ ~cut /\ at = Len(Steps) /\ at \in done
       /\ Step = "archive" => archive = "whole"

StatusFollows ==
  /\ status # "running" => main = "cleared"
  /\ status = "succeeded" => result = "ok"

IInv ==
  /\ RequestValid
  /\ TypeCore
  /\ Progress
  /\ CodeMeansDone
  /\ CommandKnown
  /\ ArchiveIsLast
  /\ WorkdirRemoved
  /\ ResultMeansDone
  /\ StatusFollows

\* What the invariant says of the plan, for the steps that move along it.
LEMMA StepsShape ==
  ASSUME RequestValid
  PROVE  /\ Steps \in Seq(StepNames) /\ Len(Steps) \in Nat \ {0}
         /\ DOMAIN Steps = 1..Len(Steps)
         /\ \A i \in 1..Len(Steps) :
              /\ Executable(config, request, Steps[i])
              /\ Steps[i] = "archive" => i = Len(Steps)
              /\ Steps[i] = "dispatch" => Len(Steps) = 1
<1> DEFINE S == {s \in StepNames : Executable(config, request, s)}
<1>1. Steps \in Seq(S) /\ Len(Steps) > 0
  BY PlanExecutable DEF RequestValid, Steps
<1>2. Steps \in Seq(StepNames)
  BY <1>1, SeqMonotonic
<1>3. Len(Steps) \in Nat \ {0} /\ DOMAIN Steps = 1..Len(Steps)
  BY <1>1, LenProperties
<1>4. \A i \in 1..Len(Steps) : Executable(config, request, Steps[i])
  BY <1>1, ElementOfSeq
<1>5. \A i \in 1..Len(Steps) :
        /\ Steps[i] = "archive" => i = Len(Steps)
        /\ Steps[i] = "dispatch" => Len(Steps) = 1
  BY PlanShape DEF RequestValid, Steps
<1> QED
  BY <1>2, <1>3, <1>4, <1>5

LEMMA InitIInv == Init => IInv
<1> SUFFICES ASSUME Init PROVE IInv
  OBVIOUS
<1>1. RequestValid
  <2>1. CASE origin = [by |-> "caller"] /\ request \in Asked
    BY <2>1, ExecutionAssumption DEF Init, RequestValid
  <2>2. CASE \E raw \in RuleSets, e \in Events :
               LET rules == parse_rules(raw) IN
               /\ Matching(rules, e) # {}
               /\ origin = [by |-> "rule", rules |-> rules, event |-> e]
               /\ request = build_request_from_rule(Decisive(rules, e), e)
    <3>1. PICK raw \in RuleSets, e \in Events :
            /\ Matching(parse_rules(raw), e) # {}
            /\ origin = [by |-> "rule", rules |-> parse_rules(raw), event |-> e]
            /\ request = build_request_from_rule(Decisive(parse_rules(raw), e), e)
      BY <2>2
    <3>2. raw \in Seq(WebhookRules)
      BY ExecutionAssumption
    <3>3. /\ origin.by = "rule" /\ origin.rules = parse_rules(raw) /\ origin.event = e
      BY <3>1
    <3> QED
      BY <3>1, <3>2, <3>3, RuleMakesDocument DEF Init, RequestValid
  <2> QED
    BY <2>1, <2>2 DEF Init
<1>2. Len(Steps) \in Nat \ {0}
  BY <1>1, StepsShape
<1>3. TypeCore /\ Progress
  <2>1. 1 \in 1..Len(Steps) /\ 1..(1 - 1) = {}
    BY <1>2
  <2> QED
    BY <2>1 DEF Init, TypeCore, Progress
<1>4. CodeMeansDone /\ CommandKnown /\ ArchiveIsLast
  BY DEF Init, CodeMeansDone, CommandKnown, ArchiveIsLast
<1>5. WorkdirRemoved /\ ResultMeansDone /\ StatusFollows
  BY DEF Init, WorkdirRemoved, ResultMeansDone, StatusFollows
<1> QED
  BY <1>1, <1>3, <1>4, <1>5 DEF IInv

(***************************************************************************)
(* Its steps                                                               *)
(***************************************************************************)
LEMMA GivenKept ==
  ASSUME UNCHANGED given, RequestValid
  PROVE  Steps' = Steps /\ RequestValid'
  BY DEF given, Steps, RequestValid

\* Every conjunct but RequestValid, for a step that stays where it is in the plan.
LEMMA StayIInv ==
  ASSUME IInv, UNCHANGED <<given, at>>,
         \/ FailBefore \/ LoginFails \/ Spawn \/ Reap \/ CommandTimeout \/ Dispatch \/ Deadline
         \/ RemoveWorkdir \/ Conclude \/ Begin \/ StartContainer \/ Exit \/ Die \/ LeftoversEnd
         \/ FunctionEnds
  PROVE  IInv'
<1> USE DEF IInv, given, process, disk
<1>1. Steps' = Steps /\ RequestValid'
  BY GivenKept
<1>2. Step' = Step
  BY <1>1 DEF Step
<1>3. Len(Steps) \in Nat /\ at \in 1..Len(Steps) /\ (Step = "dispatch" => Len(Steps) = 1)
  BY StepsShape DEF TypeCore, Step
<1> USE DEF FailBefore, LoginFails, Spawn, Reap, CommandTimeout, Dispatch, Deadline,
            RemoveWorkdir, Cleared, Conclude, Begin, StartContainer, Exit, Die, LeftoversEnd,
            FunctionEnds, Return
<1>4. TypeCore'
  <2>1. cut' \in BOOLEAN
    BY DEF TypeCore
  <2>2. repo' \in {"absent", "present"}
    BY DEF TypeCore
  <2>3. /\ at' \in 1..Len(Steps')
        /\ main' \in {"ready", "waiting", "joining", "replying", "over", "cleared"}
        /\ code' \in {"none", "ok", "error"}
        /\ child' \in {"none", "running", "killed", "exited"}
        /\ pipes' \in {"open", "closed"}
        /\ container' \in {"none", "running"}
        /\ archive' \in {"absent", "partial", "whole"}
        /\ result' \in {"none", "ok", "error"}
        /\ status' \in {"running", "succeeded", "failed"}
    BY <1>1 DEF TypeCore
  <2> QED
    BY <2>1, <2>2, <2>3 DEF TypeCore
<1>5. Progress'
  <2>1. done' = done \/ done' = done \cup {at}
    OBVIOUS
  <2>2. at' = at /\ at \in 1..at
    BY <1>3
  <2> QED
    BY <2>1, <2>2 DEF Progress
<1>6. CodeMeansDone'
  BY <1>2 DEF CodeMeansDone, CommandKnown
<1>7. CommandKnown'
  <2>1. CASE Deadline
    <3>1. cut' <=> cut \/ child = "running" \/ pipes = "open"
      BY <2>1
    <3> QED
      BY <2>1, <3>1 DEF CommandKnown, TypeCore
  <2>2. CASE ~Deadline
    BY <2>2 DEF CommandKnown, TypeCore
  <2> QED
    BY <2>1, <2>2
<1>8. ArchiveIsLast'
  BY <1>2 DEF ArchiveIsLast, CommandKnown
<1>9. WorkdirRemoved'
  BY <1>2 DEF WorkdirRemoved, CommandKnown, Writers
<1>10. ResultMeansDone'
  BY <1>1, <1>2 DEF ResultMeansDone, CommandKnown, TypeCore
<1>11. StatusFollows'
  BY DEF StatusFollows, TypeCore, ResultMeansDone
<1> QED
  BY <1>1, <1>4, <1>5, <1>6, <1>7, <1>8, <1>9, <1>10, <1>11

\* The step is judged: the execution goes on behind a step that is done, or ends.
LEMMA OnwardIInv ==
  ASSUME IInv, Join \/ Reply
  PROVE  IInv'
<1> USE DEF IInv, given, process, disk
<1>1. Steps' = Steps /\ RequestValid'
  BY GivenKept DEF Join, Reply
<1>2. /\ Len(Steps) \in Nat /\ at \in 1..Len(Steps)
      /\ Step = "dispatch" => Len(Steps) = 1
      /\ Step = "archive" => at = Len(Steps)
  BY StepsShape DEF TypeCore, Step
<1>3. PICK succeeded \in BOOLEAN :
        /\ Onward(succeeded)
        /\ succeeded => at \in done /\ (Step = "archive" => archive = "whole")
  <2>1. CASE Join
    BY <2>1 DEF Join, CodeMeansDone
  <2>2. CASE Reply
    BY <2>2 DEF Reply, ResultMeansDone
  <2> QED
    BY <2>1, <2>2
<1>4. /\ main \in {"joining", "replying"} /\ pipes = "closed" /\ ~cut
      /\ child \in {"none", "exited"} /\ container = "none"
      /\ UNCHANGED <<given, code, child, pipes, container, repo, archive, done, cut, status>>
  BY DEF Join, Reply, CommandKnown
<1>5. CASE succeeded /\ at < Len(Steps)
  <2>1. at' = at + 1 /\ main' = "ready" /\ UNCHANGED result
    BY <1>2, <1>3, <1>5 DEF Onward
  <2>2. TypeCore'
    <3>1. at' \in 1..Len(Steps')
      BY <1>1, <1>2, <1>5, <2>1
    <3>2. cut' \in BOOLEAN
      BY <1>4 DEF TypeCore
    <3>3. main' \in {"ready", "waiting", "joining", "replying", "over", "cleared"}
      BY <2>1
    <3> QED
      BY <1>4, <2>1, <3>1, <3>2, <3>3 DEF TypeCore
  <2>3. Progress'
    <3>1. done' = done /\ at \in done /\ (at + 1) - 1 = at
      BY <1>2, <1>3, <1>4, <1>5
    <3>2. 1..at = 1..(at - 1) \cup {at} /\ 1..at \subseteq 1..(at + 1)
      BY <1>2
    <3> QED
      BY <2>1, <3>1, <3>2 DEF Progress
  <2>4. ArchiveIsLast'
    BY <1>2, <1>4, <1>5 DEF ArchiveIsLast
  <2>5. CodeMeansDone' /\ CommandKnown' /\ WorkdirRemoved'
    BY <1>4, <2>1 DEF CodeMeansDone, CommandKnown, WorkdirRemoved
  <2>6. ResultMeansDone' /\ StatusFollows'
    BY <1>4, <2>1 DEF ResultMeansDone, StatusFollows
  <2> QED
    BY <1>1, <2>2, <2>3, <2>4, <2>5, <2>6
<1>6. CASE ~(succeeded /\ at < Len(Steps))
  <2>1. /\ main' = "over" /\ at' = at
        /\ result' = IF succeeded THEN "ok" ELSE "error"
        /\ succeeded => at = Len(Steps)
    BY <1>2, <1>3, <1>6 DEF Onward, Return
  <2>2. Step' = Step
    BY <1>1, <2>1 DEF Step
  <2>3. TypeCore' /\ Progress'
    BY <1>1, <1>4, <2>1 DEF TypeCore, Progress
  <2>4. ArchiveIsLast' /\ CodeMeansDone' /\ CommandKnown' /\ WorkdirRemoved'
    BY <1>4, <2>1, <2>2 DEF ArchiveIsLast, CodeMeansDone, CommandKnown, WorkdirRemoved
  <2>5. ResultMeansDone' /\ StatusFollows'
    BY <1>1, <1>3, <1>4, <2>1, <2>2 DEF ResultMeansDone, StatusFollows
  <2> QED
    BY <1>1, <2>3, <2>4, <2>5
<1> QED
  BY <1>5, <1>6

LEMMA NextIInv == IInv /\ [Next]_vars => IInv'
<1> SUFFICES ASSUME IInv, [Next]_vars PROVE IInv'
  OBVIOUS
<1>1. CASE Join \/ Reply
  BY <1>1, OnwardIInv
<1>2. CASE FailBefore \/ LoginFails \/ Spawn \/ Reap \/ CommandTimeout \/ Dispatch
  BY <1>2, StayIInv
     DEF FailBefore, LoginFails, Spawn, Reap, CommandTimeout, Dispatch, process, disk
<1>3. CASE Deadline \/ RemoveWorkdir \/ Conclude
  BY <1>3, StayIInv DEF Deadline, RemoveWorkdir, Cleared, Conclude, process, disk
<1>4. CASE Begin \/ StartContainer \/ Exit \/ Die \/ LeftoversEnd \/ FunctionEnds
  BY <1>4, StayIInv DEF Begin, StartContainer, Exit, Die, LeftoversEnd, FunctionEnds,
                        process, disk
<1>5. CASE UNCHANGED vars
  <2>1. Steps' = Steps /\ RequestValid'
    BY <1>5, GivenKept DEF vars, given, IInv
  <2>2. Step' = Step
    BY <1>5, <2>1 DEF Step, vars
  <2> QED
    BY <1>5, <2>1, <2>2
       DEF vars, IInv, TypeCore, Progress, CodeMeansDone, CommandKnown, ArchiveIsLast,
           WorkdirRemoved, ResultMeansDone, StatusFollows
<1> QED
  BY <1>1, <1>2, <1>3, <1>4, <1>5 DEF Next, Execution

LEMMA IInvCorrect == Spec => []IInv
  BY InitIInv, NextIInv, PTL DEF Spec

-----------------------------------------------------------------------------
(***************************************************************************)
(* What follows                                                            *)
(***************************************************************************)
\* Type correctness: in particular the execution never leaves its plan, and every
\* request it is given, by a caller or by a rule, is a document.
THEOREM TypeCorrect == Spec => []TypeOK
<1>1. IInv => TypeOK
  <2> SUFFICES ASSUME IInv PROVE TypeOK
    OBVIOUS
  <2>1. Len(Steps) \in Nat
    BY StepsShape DEF IInv
  <2>2. at \in 1..Len(Steps) /\ done \subseteq 1..at
    BY DEF IInv, TypeCore, Progress
  <2>3. done \subseteq 1..Len(Steps)
    BY <2>1, <2>2
  <2>4. /\ result = "none" <=> main \notin {"over", "cleared"}
        /\ status # "running" => main = "cleared"
    BY DEF IInv, ResultMeansDone, StatusFollows
  <2> QED
    BY <2>3, <2>4 DEF IInv, TypeCore, RequestValid, TypeOK
<1> QED
  BY <1>1, IInvCorrect, PTL

\* Nothing is pushed that was not built, nothing deployed that was not pushed.
THEOREM EffectsCorrect == Spec => []EffectsInOrder
<1>1. IInv => EffectsInOrder
  <2> SUFFICES ASSUME IInv, NEW i \in done PROVE 1..i \subseteq done
    BY DEF EffectsInOrder
  <2>1. Len(Steps) \in Nat
    BY StepsShape DEF IInv
  <2>2. at \in 1..Len(Steps) /\ i \in 1..at /\ 1..(at - 1) \subseteq done
    BY DEF IInv, TypeCore, Progress
  <2> QED
    BY <2>1, <2>2
<1> QED
  BY <1>1, IInvCorrect, PTL

\* What validation keeps out never reaches the executors.
THEOREM ExecutorsGuardedCorrect == Spec => []ExecutorsAreGuarded
<1>1. IInv => ExecutorsAreGuarded
  BY StepsShape DEF IInv, ExecutorsAreGuarded
<1> QED
  BY <1>1, IInvCorrect, PTL

\* A job that succeeded has done every step of its plan.
LEMMA SucceededDidAll ==
  ASSUME IInv, status = "succeeded"
  PROVE  /\ done = DOMAIN Steps /\ at = Len(Steps)
         /\ Step = "archive" => archive = "whole"
<1>1. /\ at = Len(Steps) /\ at \in done /\ at \in 1..Len(Steps) /\ at \in Nat
      /\ done \subseteq 1..at /\ 1..(at - 1) \subseteq done
      /\ DOMAIN Steps = 1..Len(Steps)
      /\ Step = "archive" => archive = "whole"
  BY StepsShape DEF IInv, StatusFollows, ResultMeansDone, TypeCore, Progress
<1>2. 1..at = 1..(at - 1) \cup {at}
  BY <1>1
<1> QED
  BY <1>1, <1>2

\* Success means that all was done, and the archive that is served is whole.
THEOREM SuccessCorrect == Spec => []SuccessMeansDone
<1>1. IInv => SuccessMeansDone
  <2> SUFFICES ASSUME IInv, status = "succeeded"
               PROVE  /\ done = DOMAIN Steps
                      /\ archive = IF \E i \in DOMAIN Steps : Steps[i] = "archive"
                                   THEN "whole" ELSE "absent"
    BY DEF SuccessMeansDone, get_build_artifacts
  <2>1. /\ done = DOMAIN Steps /\ at = Len(Steps)
        /\ Step = "archive" => archive = "whole"
    BY SucceededDidAll
  <2>2. /\ at \in DOMAIN Steps
        /\ \A i \in DOMAIN Steps : Steps[i] = "archive" => i = Len(Steps)
    BY StepsShape DEF IInv, TypeCore
  <2>3. archive # "absent" => Step = "archive"
    BY DEF IInv, ArchiveIsLast
  <2> QED
    BY <2>1, <2>2, <2>3 DEF Step
<1> QED
  BY <1>1, IInvCorrect, PTL

\* What a rule asks of a job, and nothing else, is what a plan that is done has done.
LEMMA PlanPerforms ==
  ASSUME RequestValid, done = DOMAIN Steps, NEW rule \in WebhookRules, ValidRule(rule),
         NEW e, request = build_request_from_rule(rule, e)
  PROVE  Performed(rule)
<1>1. done = 1..Len(Steps) /\ validate_build_request(config, request)
  BY StepsShape DEF RequestValid
<1>2. \A x : Did(x) <=> Has(Steps, x)
  BY <1>1 DEF Did, Has
<1>3. /\ request.executor = rule.executor /\ request.profile = rule.profile
      /\ request.push = rule.push /\ request.deploy = rule.deploy
      /\ request.kind = "run-profile" <=> rule.profile # "absent"
  BY DEF build_request_from_rule
<1>4. rule.push \in BOOLEAN
  BY DEF WebhookRules
<1>5. CASE rule.profile # "absent"
  <2> DEFINE n == SPECS[request.profile].steps
             plan == ProfilePlan(request)
             packs == SPECS[request.profile].artifacts
  <2>1. /\ request.profile \in Profiles /\ rule.executor = "local"
        /\ rule.image = "absent" /\ rule.push = FALSE /\ ~Deploying(rule)
    BY <1>1, <1>3, <1>4, <1>5
       DEF validate_build_request, ValidProfileJob, ValidRule, Deploying
  <2>2. n \in Nat
    BY <2>1, SpecsType
  <2>3. /\ Len(plan) = IF packs THEN n + 2 ELSE n + 1
        /\ plan[1] = "clone"
        /\ \A i \in 2..(n + 1) : plan[i] = "run"
        /\ packs => plan[n + 2] = "archive"
    BY <2>1, ProfilePlanProperties
  <2>4. Steps = plan
    BY <1>3, <1>5 DEF Steps, Plan
  <2>5. n = SPECS[rule.profile].steps
    BY <1>3
  <2> HIDE DEF n, plan, packs
  <2>6. \A i \in 1..Len(plan) : plan[i] = "run" <=> i \in 2..(n + 1)
    BY <2>2, <2>3
  <2>7. \A i \in 1..Len(plan) : plan[i] \in {"clone", "run", "archive"}
    BY <2>2, <2>3
  <2>8. Did("build") = FALSE /\ Did("push") = FALSE /\ Did("apply") = FALSE
    BY <1>2, <2>4, <2>7 DEF Has
  <2>9. {i \in done : Steps[i] = "run"} = 2..(n + 1)
    <3>1. 2..(n + 1) \subseteq 1..Len(plan)
      BY <2>2, <2>3
    <3> QED
      BY <1>1, <2>4, <2>6, <3>1
  <2>10. Cardinality(2..(n + 1)) = n
    BY <2>2, FS_Interval
  <2>11. Cardinality({i \in done : Steps[i] = "run"}) = SPECS[rule.profile].steps
    BY <2>5, <2>9, <2>10
  <2>12. /\ (rule.image # "absent") = FALSE /\ Deploying(rule) = FALSE
         /\ rule.executor # "lambda"
    BY <2>1
  <2> QED
    BY <1>5, <2>1, <2>8, <2>11, <2>12 DEF Performed
<1>6. CASE rule.profile = "absent" /\ rule.executor = "lambda"
  <2>1. Steps = <<"dispatch">>
    BY <1>3, <1>6 DEF Steps, Plan
  <2>2. Did("dispatch")
    BY <1>2, <2>1 DEF Has
  <2> QED
    BY <1>6, <2>2 DEF Performed
<1>7. CASE rule.profile = "absent" /\ rule.executor # "lambda"
  <2>1. Steps = BuildPlan(config, request)
    BY <1>3, <1>7 DEF Steps, Plan
  <2>2. {"clone", "build", "login", "push", "apply", "rollout"} \subseteq StepNames
    BY DEF StepNames
  <2>3. \A x : Has(BuildPlan(config, request), x) <=>
          \/ x \in {"clone", "build"}
          \/ x = "login" /\ request.push /\ config.login
          \/ x = "push" /\ request.push
          \/ x = "apply" /\ Deploying(request)
          \/ x = "rollout" /\ Deploying(request) /\ request.rollout # "absent"
    BY <2>2, BuildPlanProperties
  <2>4. /\ Did("build") = TRUE /\ Did("push") = rule.push
        /\ Did("apply") = Deploying(rule) /\ ~Did("run")
    BY <1>2, <1>3, <1>4, <2>1, <2>3 DEF Deploying, Did
  <2>5. (rule.image # "absent") = TRUE
    BY <1>7 DEF ValidRule
  <2>6. Cardinality({i \in done : Steps[i] = "run"}) = 0
    BY <2>4, FS_EmptySet DEF Did
  <2> QED
    BY <1>7, <2>4, <2>5, <2>6 DEF Performed
<1> QED
  BY <1>5, <1>6, <1>7

\* A job that an event of GitHub started, and that succeeded, did what the first
\* rule for that event says and no other thing.
THEOREM RulesCarriedOutCorrect == Spec => []RulesAreCarriedOut
<1>1. IInv => RulesAreCarriedOut
  <2> SUFFICES ASSUME IInv, status = "succeeded", origin.by = "rule"
               PROVE  \E i \in Matching(origin.rules, origin.event) :
                        /\ \A j \in Matching(origin.rules, origin.event) : i <= j
                        /\ Performed(origin.rules[i])
    BY DEF RulesAreCarriedOut
  <2> DEFINE rules == origin.rules
             e == origin.event
  <2>1. /\ rules \in Seq(WebhookRules) /\ Matching(rules, e) # {}
        /\ ValidRule(Decisive(rules, e))
        /\ request = build_request_from_rule(Decisive(rules, e), e)
        /\ RequestValid
    BY DEF IInv, RequestValid
  <2>2. done = DOMAIN Steps
    BY SucceededDidAll
  <2> HIDE DEF rules, e
  <2>3. PICK i \in Matching(rules, e) :
          /\ \A j \in Matching(rules, e) : i <= j
          /\ Decisive(rules, e) = rules[i]
    BY <2>1, DecisiveIsFirst
  <2>4. rules[i] \in WebhookRules
    BY <2>1, ElementOfSeq, LenProperties DEF Matching
  <2>5. Performed(rules[i])
    BY <2>1, <2>2, <2>3, <2>4, PlanPerforms
  <2> QED
    BY <2>3, <2>5 DEF rules, e
<1> QED
  BY <1>1, IInvCorrect, PTL

\* No clone, no container and no command is left behind by a job whose commands
\* were all waited for.
THEOREM CleanCorrect == Spec => []CleanUnlessCutShort
<1>1. IInv => CleanUnlessCutShort
  BY DEF IInv, CleanUnlessCutShort, StatusFollows, CommandKnown, WorkdirRemoved, TypeCore
<1> QED
  BY <1>1, IInvCorrect, PTL

\* A command starts only when nothing of the one before it lives.
THEOREM OverlapCorrect == Spec => CommandsDoNotOverlap
<1> DEFINE Alone ==
      main = "ready" /\ main' = "waiting"
      => pipes = "closed" /\ child # "running" /\ container = "none"
<1>1. IInv /\ [Next]_vars => [Alone]_vars
  BY DEF IInv, CommandKnown
<1> QED
  BY <1>1, IInvCorrect, PTL DEF Spec, CommandsDoNotOverlap
=============================================================================
