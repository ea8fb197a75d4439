---------------------------- MODULE BuildRequests ----------------------------
(***************************************************************************)
(* What a job may be asked to do: the documents POST /builds and NATS      *)
(* bring (src/types.rs), the rules that turn events of GitHub into such    *)
(* documents (src/webhooks.rs), their validation (src/validation.rs), the  *)
(* profiles (src/profiles.rs), and the steps of a valid request (src/      *)
(* jobs.rs).                                                               *)
(*                                                                         *)
(* A string is the class the code puts it in.  Repositories, namespaces    *)
(* and build arguments are taken to be allowed, and names to be short and  *)
(* printable.                                                              *)
(***************************************************************************)
EXTENDS Naturals, Sequences

-----------------------------------------------------------------------------
(***************************************************************************)
(* Profiles and documents                                                  *)
(***************************************************************************)
Verifying == {"rust-verify", "node-verify", "python-verify", "flutter-verify",
              "playwright", "puppeteer", "browser-e2e"}
Releasing == {"flutter-android-debug", "flutter-web-release", "flutter-linux-release",
              "flutter-linux-desktop-entrypoint", "flutter-web-e2e"}

\* How many commands a profile has, and whether it has artifact_paths.
SPECS ==
  [name \in Verifying \cup Releasing |->
     [steps |-> IF name = "flutter-web-e2e" THEN 2 ELSE 1, artifacts |-> name \in Releasing]]

Profiles == DOMAIN SPECS

\* Of ECR, of another allowed registry, without tag or digest, not allowed.
ImageClasses == {"ecr", "plain", "untagged", "foreign"}
DeployKinds == {"absent", "none", "kustomize", "manifest", "other"}
Paths == {"inside", "outside"}

\* git_ref is a plain branch or tag name, or a qualified refs/tags/ name; rollout
\* a TYPE/NAME, or something kubectl would take for a flag.
Documents ==
  [kind : {"build-image", "build-and-deploy", "run-profile", "other"},
   executor : {"local", "lambda", "other"}, profile : Profiles \cup {"absent", "other"},
   image : ImageClasses \cup {"absent"}, git_ref : {"absent", "plain", "qualified"},
   context_dir : Paths, dockerfile : Paths \cup {"absent"}, push : BOOLEAN,
   deploy : DeployKinds, path : Paths, rollout : {"absent", "resource", "flag"}]

\* The rules of BUILD_SERVER_WEBHOOK_RULES, and what they look at in an event.
WebhookRules ==
  [branch : STRING, tags : BOOLEAN, events : SUBSET {"push", "workflow_run"},
   image : ImageClasses \cup {"absent"}, template : {"sha", "ref"},
   profile : Profiles \cup {"absent", "other"}, push : BOOLEAN,
   executor : {"local", "lambda", "other"}, context_dir : Paths,
   dockerfile : Paths \cup {"absent"}, deploy : DeployKinds, path : Paths,
   rollout : {"absent", "resource", "flag"}]

GithubEvents ==
  [event : {"push", "workflow_run"},
   ref : [kind : {"head", "tag", "bare"}, name : STRING, slash : BOOLEAN]]

Settings ==
  [push : BOOLEAN, deploy : BOOLEAN, lambda : BOOLEAN, login : BOOLEAN, keep : BOOLEAN,
   profiles : SUBSET Profiles]

-----------------------------------------------------------------------------
(***************************************************************************)
(* Validation                                                              *)
(***************************************************************************)
\* An image to push must be one the login can be made for.
validate_image(c, image, push) ==
  /\ image \in {"ecr", "plain"}
  /\ push /\ c.login => image = "ecr"

validate_relative_path(path) == path # "outside"
validate_rollout_resource(rollout) == rollout # "flag"
Deploying(q) == q.deploy \notin {"absent", "none"}

\* Fault: an unknown kind of deploy passes where deploys are on.
validate_deploy_lightly(c, q) ==
  Deploying(q) =>
    c.deploy /\ validate_relative_path(q.path) /\ validate_rollout_resource(q.rollout)

\* Nothing of a deploy of kind none is looked at.
validate_deploy(c, q) ==
  Deploying(q) =>
    /\ q.deploy \in {"kustomize", "manifest"}
    /\ c.deploy
    /\ validate_relative_path(q.path)
    /\ validate_rollout_resource(q.rollout)

ValidProfileJob(c, q) ==
  /\ q.profile \in Profiles \cap c.profiles
  /\ q.image = "absent" /\ ~q.push /\ q.deploy = "absent" /\ q.dockerfile = "absent"
  /\ q.executor = "local"

ValidImageJob(c, q) ==
  /\ q.profile = "absent"
  /\ validate_image(c, q.image, q.push)
  /\ validate_relative_path(q.dockerfile)
  /\ q.executor = "local" \/ (q.executor = "lambda" /\ c.lambda)
  /\ validate_deploy(c, q)

validate_build_request(c, q) ==
  /\ q.kind \in {"build-image", "build-and-deploy", "run-profile"}
  /\ IF q.kind = "run-profile" THEN ValidProfileJob(c, q) ELSE ValidImageJob(c, q)
  /\ validate_relative_path(q.context_dir)
  /\ q.push => c.push

-----------------------------------------------------------------------------
(***************************************************************************)
(* Rules and events                                                        *)
(***************************************************************************)
\* A ref is a head or a tag of a push, or the bare name a workflow_run carries; a
\* name with a slash in it is marked.  "*" is the branch of a rule that has none.
BranchMatches(rule, name) == rule.branch \in {"*", name}

\* A tag push needs the rule's consent; a bare name is taken for a branch.
rule_matches(rule, e) ==
  /\ e.event \in rule.events
  /\ IF e.ref.kind = "tag" THEN rule.tags ELSE BranchMatches(rule, e.ref.name)

ValidRule(rule) ==
  /\ (rule.image = "absent") # (rule.profile = "absent")
  /\ rule.profile # "absent" =>
       ~rule.push /\ rule.deploy = "absent" /\ rule.dockerfile = "absent"

\* One invalid rule takes all the rules of the document with it.
parse_rules(rules) == IF \A i \in DOMAIN rules : ValidRule(rules[i]) THEN rules ELSE <<>>

Matching(rules, e) == {i \in DOMAIN rules : rule_matches(rules[i], e)}

\* Fault: the last rule that matches decides.
DecisiveLast(rules, e) ==
  rules[CHOOSE i \in Matching(rules, e) : \A j \in Matching(rules, e) : j <= i]

\* The first rule that matches decides.
Decisive(rules, e) ==
  rules[CHOOSE i \in Matching(rules, e) : \A j \in Matching(rules, e) : i <= j]

\* A tag cannot have a slash: an image named after such a ref loses its tag.
substitute_image(rule, e) ==
  IF rule.template = "ref" /\ (e.ref.kind = "tag" \/ e.ref.slash) THEN "untagged" ELSE rule.image

\* branch_from_ref knows heads only: a tag keeps its refs/tags/.
build_request_from_rule(rule, e) ==
  [kind |-> IF rule.profile # "absent" THEN "run-profile"
            ELSE IF rule.deploy # "absent" THEN "build-and-deploy" ELSE "build-image",
   executor |-> rule.executor, profile |-> rule.profile,
   image |-> IF rule.image = "absent" THEN "absent" ELSE substitute_image(rule, e),
   git_ref |-> IF e.ref.kind = "tag" THEN "qualified" ELSE "plain",
   context_dir |-> rule.context_dir, dockerfile |-> rule.dockerfile, push |-> rule.push,
   deploy |-> rule.deploy, path |-> rule.path, rollout |-> rule.rollout]

-----------------------------------------------------------------------------
(***************************************************************************)
(* The steps of a request                                                  *)
(***************************************************************************)
If(condition, step) == IF condition THEN <<step>> ELSE <<>>

\* The kind build-image does not keep a deploy out.
BuildPlan(c, q) ==
  <<"clone", "build">>
  \o If(q.push /\ c.login, "login") \o If(q.push, "push")
  \o If(Deploying(q), "apply") \o If(Deploying(q) /\ q.rollout # "absent", "rollout")

ProfilePlan(q) ==
  <<"clone">> \o [i \in 1..SPECS[q.profile].steps |-> "run"]
  \o If(SPECS[q.profile].artifacts, "archive")

Plan(c, q) ==
  IF q.kind = "run-profile" THEN ProfilePlan(q)
  ELSE IF q.executor = "lambda" THEN <<"dispatch">>
  ELSE BuildPlan(c, q)

\* What the executors ask of a request again, or trust: the login's image, "deploy
\* kind is validated before queueing", the resource of the rollout, the profile.
Executable(c, q, step) ==
  CASE step \in {"login", "push"} -> c.push /\ validate_image(c, q.image, TRUE)
    [] step = "apply" ->
         c.deploy /\ q.deploy \in {"kustomize", "manifest"} /\ validate_relative_path(q.path)
    [] step = "rollout" -> validate_rollout_resource(q.rollout)
    [] step = "run" -> q.profile \in Profiles
    [] step = "dispatch" -> c.lambda
    [] OTHER -> TRUE
=============================================================================
