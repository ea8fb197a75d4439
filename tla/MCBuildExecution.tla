-------------------------- MODULE MCBuildExecution ---------------------------
(* Instances of BuildExecution for TLC. *)
EXTENDS BuildExecution

Everything ==
  [push |-> TRUE, deploy |-> TRUE, lambda |-> TRUE, login |-> TRUE, keep |-> FALSE,
   profiles |-> {"rust-verify", "flutter-linux-release", "flutter-web-e2e"}]

\* All features; pushes without a login and kept clones; each one switched off.
SomeConfigs ==
  {Everything,
   [Everything EXCEPT !.login = FALSE, !.keep = TRUE],
   [Everything EXCEPT !.push = FALSE], [Everything EXCEPT !.deploy = FALSE],
   [Everything EXCEPT !.lambda = FALSE], [Everything EXCEPT !.profiles = {}]}
OneConfig == {Everything}

BuildDocument ==
  [kind |-> "build-image", executor |-> "local", profile |-> "absent", image |-> "ecr",
   git_ref |-> "plain", context_dir |-> "inside", dockerfile |-> "absent", push |-> FALSE,
   deploy |-> "absent", path |-> "inside", rollout |-> "absent"]
ProfileDocument == [BuildDocument EXCEPT !.kind = "run-profile", !.image = "absent"]

Builds ==
  {[BuildDocument EXCEPT !.executor = x, !.image = i, !.push = p, !.deploy = d, !.rollout = r] :
     x \in {"local", "lambda", "other"}, i \in ImageClasses, p \in BOOLEAN, d \in DeployKinds,
     r \in {"absent", "resource", "flag"}}
Deploys ==
  {[BuildDocument EXCEPT !.kind = "build-and-deploy", !.deploy = d, !.path = p] :
     d \in DeployKinds, p \in Paths}
Runs ==
  {[ProfileDocument EXCEPT !.profile = n, !.push = p, !.git_ref = g] :
     n \in {"absent", "other", "playwright", "rust-verify", "flutter-linux-release",
            "flutter-web-e2e"},
     p \in BOOLEAN, g \in {"absent", "plain", "qualified"}}
Odd ==
  {[BuildDocument EXCEPT !.kind = "other"], [BuildDocument EXCEPT !.context_dir = "outside"],
   [BuildDocument EXCEPT !.dockerfile = "outside"], [BuildDocument EXCEPT !.git_ref = "qualified"],
   [BuildDocument EXCEPT !.profile = "rust-verify"], [ProfileDocument EXCEPT !.image = "ecr"]}
SomeDocuments == Builds \cup Deploys \cup Runs \cup Odd

Rule ==
  [branch |-> "*", tags |-> FALSE, events |-> {"push"}, image |-> "ecr", template |-> "sha",
   profile |-> "absent", push |-> TRUE, executor |-> "local", context_dir |-> "inside",
   dockerfile |-> "absent", deploy |-> "absent", path |-> "inside", rollout |-> "absent"]
Main == [Rule EXCEPT !.branch = "main", !.deploy = "kustomize", !.rollout = "resource"]
Verify ==
  [Rule EXCEPT !.image = "absent", !.profile = "rust-verify", !.push = FALSE,
               !.events = {"push", "workflow_run"}]
Tagged == [Rule EXCEPT !.branch = "main", !.tags = TRUE, !.executor = "lambda"]

\* A release from main before the checks of every branch; tags and images named
\* after refs; documents with a rule that is invalid, or makes an invalid request.
SomeRules ==
  {<<Main, Verify>>, <<[Main EXCEPT !.template = "ref"], Verify>>,
   <<Tagged, [Verify EXCEPT !.tags = TRUE]>>, <<Verify, [Verify EXCEPT !.push = TRUE]>>,
   <<[Main EXCEPT !.deploy = "other"], Rule>>}
TagRules == {<<[Verify EXCEPT !.tags = TRUE]>>}

Ref(kind, name, slash) == [kind |-> kind, name |-> name, slash |-> slash]
SomeEvents ==
  {[event |-> "push", ref |-> Ref("head", "main", FALSE)],
   [event |-> "push", ref |-> Ref("head", "fix/it", TRUE)],
   [event |-> "push", ref |-> Ref("tag", "v1", FALSE)],
   [event |-> "workflow_run", ref |-> Ref("bare", "main", FALSE)]}
=============================================================================
