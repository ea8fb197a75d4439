--------------------------- MODULE BuildExecution ----------------------------
(***************************************************************************)
(* The execution of one job: what run_job runs under its deadline          *)
(* (src/jobs.rs execute_build, execute_profile; src/lambda_exec.rs), one   *)
(* external command at a time (src/exec.rs).                               *)
(*                                                                         *)
(* A command is a process with two pipes.  Its exit is awaited under       *)
(* job_timeout, then the readers of the pipes are joined without a bound   *)
(* of their own: descendants of the command can keep the pipes open.       *)
(* Dropping the execution at job_deadline kills the command itself         *)
(* (kill_on_drop), not its descendants, and leaves the readers detached.   *)
(*                                                                         *)
(* The clone is a directory that run_job removes at its end, unless some   *)
(* process still writes there; the container of a profile's command        *)
(* belongs to containerd and outlives a client that is killed.             *)
(*                                                                         *)
(* The request is a validated one, of a caller or of a rule (module        *)
(* BuildRequests).  The text of the log is left out, and so are I/O errors *)
(* of the clean-up.                                                        *)
(***************************************************************************)
EXTENDS BuildRequests, FiniteSets

CONSTANTS
  Configs,    \* settings of the server: some of Settings
  Asked,      \* what POST /builds and NATS bring: some of Documents
  RuleSets,   \* sequences of webhook rules
  Events      \* actionable events of GitHub

ASSUME ExecutionAssumption ==
  /\ Configs \subseteq Settings
  /\ Asked \subseteq Documents
  /\ RuleSets \subseteq Seq(WebhookRules)
  /\ Events \subseteq GithubEvents

VARIABLES
  config,     \* the settings, fixed for the life of the process
  origin,     \* who asked: a caller, or an event under some rules
  request,    \* the validated request
  at,         \* the step of the plan the execution is in
  main,       \* where in the step it is
  code,       \* exit code of the last command
  child,      \* the process of the command
  pipes,      \* whether some process holds its pipes open
  container,  \* what `nerdctl run' has started
  repo,       \* the directory of the clone
  archive,    \* artifacts.tar.gz in the job directory
  done,       \* history: steps whose command, or remote call, did its work
  cut,        \* history: a command was left before it and its pipes had ended
  result,     \* what the execution returned
  status      \* of the job

vars == <<config, origin, request, at, main, code, child, pipes, container, repo, archive,
          done, cut, result, status>>
given == <<config, origin, request>>
process == <<code, child, pipes, container>>
disk == <<repo, archive>>

Steps == Plan(config, request)
Step == Steps[at]

\* A request that validate_build_request lets through, on either way in.
Init ==
  /\ config \in Configs
  /\ \/ origin = [by |-> "caller"] /\ request \in Asked
     \/ \E raw \in RuleSets, e \in Events :
          LET rules == parse_rules(raw) IN
          /\ Matching(rules, e) # {}
          /\ origin = [by |-> "rule", rules |-> rules, event |-> e]
          /\ request = build_request_from_rule(Decisive(rules, e), e)
  /\ validate_build_request(config, request)
  /\ at = 1 /\ main = "ready"
  /\ code = "none" /\ child = "none" /\ pipes = "closed" /\ container = "none"
  /\ repo = "absent" /\ archive = "absent"
  /\ done = {} /\ cut = FALSE
  /\ result = "none" /\ status = "running"

-----------------------------------------------------------------------------
(***************************************************************************)
(* The execution future                                                    *)
(***************************************************************************)
Return(outcome) == main' = "over" /\ result' = outcome

\* What can go wrong before a command runs: the job directory, a path that
\* leaves the repository, a validation that is repeated, the spawn.
FailBefore ==
  /\ main = "ready"
  /\ Return("error")
  /\ UNCHANGED <<given, at, process, disk, done, cut, status>>

\* The password goes to the stdin of a command that runs and is then dropped.
LoginFails ==
  /\ main = "ready" /\ Step = "login"
  /\ Return("error")
  /\ child' = "killed" /\ pipes' = "open" /\ code' = "none" /\ cut' = TRUE
  /\ UNCHANGED <<given, at, container, disk, done, status>>

Spawn ==
  /\ main = "ready" /\ Step # "dispatch"
  /\ main' = "waiting"
  /\ child' = "running" /\ pipes' = "open" /\ code' = "none"
  /\ UNCHANGED <<given, at, container, disk, done, cut, result, status>>

Reap ==
  /\ main = "waiting" /\ child = "exited"
  /\ main' = "joining"
  /\ UNCHANGED <<given, at, process, disk, done, cut, result, status>>

\* What an awaited step leads to: the next one, or the end.
Onward(succeeded) ==
  \/ /\ succeeded /\ at < Len(Steps)
     /\ at' = at + 1 /\ main' = "ready"
     /\ UNCHANGED result
  \/ /\ succeeded /\ at = Len(Steps)
     /\ Return("ok")
     /\ UNCHANGED at
  \/ /\ ~succeeded
     /\ Return("error")
     /\ UNCHANGED at

\* Fault: the exit status is logged and not looked at.
JoinUnjudged ==
  /\ main = "joining" /\ pipes = "closed"
  /\ Onward(TRUE)
  /\ UNCHANGED <<given, process, disk, done, cut, status>>

\* Fault: the readers are not joined.
JoinNothing ==
  /\ main = "joining"
  /\ Onward(code = "ok")
  /\ UNCHANGED <<given, process, disk, done, cut, status>>

Join ==
  /\ main = "joining" /\ pipes = "closed"
  /\ Onward(code = "ok")
  /\ UNCHANGED <<given, process, disk, done, cut, status>>

\* job_timeout: the command is killed and reaped; it may have ended just now.
CommandTimeout ==
  /\ main = "waiting" /\ child \in {"running", "exited"}
  /\ child' = "exited" /\ cut' = TRUE
  /\ Return("error")
  /\ UNCHANGED <<given, at, code, pipes, container, disk, done, status>>

\* lambda_exec::execute: the whole request goes to the remote function.
Dispatch ==
  /\ main = "ready" /\ Step = "dispatch"
  /\ main' = "replying"
  /\ UNCHANGED <<given, at, process, disk, done, cut, result, status>>

\* An answer that is not {"ok": true} with a 2xx status is an error, and so is
\* none within job_timeout, whatever the function has done by then.
Reply ==
  /\ main = "replying"
  /\ \/ at \in done /\ Onward(TRUE)
     \/ Onward(FALSE)
  /\ UNCHANGED <<given, process, disk, done, cut, status>>

-----------------------------------------------------------------------------
(***************************************************************************)
(* run_job around it                                                       *)
(***************************************************************************)
\* Fault: there is no deadline above the timeouts of the commands.
NoDeadline == FALSE /\ UNCHANGED vars

\* job_deadline drops the future wherever it stands.
Deadline ==
  /\ main \notin {"over", "cleared"}
  /\ Return("error")
  /\ child' = IF child = "running" THEN "killed" ELSE child
  /\ cut' = (cut \/ child = "running" \/ pipes = "open")
  /\ UNCHANGED <<given, at, code, pipes, container, disk, done, status>>

Cleared == main' = "cleared" /\ UNCHANGED <<given, at, process, archive, done, cut, result, status>>

\* Fault: only a job that succeeded has its clone removed.
RemoveWorkdirOfSuccess ==
  /\ main = "over"
  /\ repo' = IF config.keep \/ result # "ok" THEN repo ELSE "absent"
  /\ Cleared

\* Processes that may write below the clone, which is also the commands' HOME.
Writers == child \in {"running", "killed"} \/ pipes = "open" \/ container = "running"

\* remove_dir_all fails when an entry is written behind it, which is only logged.
RemoveWorkdir ==
  /\ main = "over"
  /\ repo' \in IF config.keep THEN {repo} ELSE {"absent"} \cup (IF Writers THEN {repo} ELSE {})
  /\ Cleared

\* Fault: the verdict is reported before the clone is removed.
ConcludeAtOnce ==
  /\ main \in {"over", "cleared"} /\ status = "running"
  /\ status' = IF result = "ok" THEN "succeeded" ELSE "failed"
  /\ UNCHANGED <<given, at, main, process, disk, done, cut, result>>

\* The verdict.
Conclude ==
  /\ main = "cleared" /\ status = "running"
  /\ status' = IF result = "ok" THEN "succeeded" ELSE "failed"
  /\ UNCHANGED <<given, at, main, process, disk, done, cut, result>>

-----------------------------------------------------------------------------
(***************************************************************************)
(* The processes and the remote function                                   *)
(***************************************************************************)
\* git makes its directory, tar its output, before it fills it.
Begin ==
  /\ child \in {"running", "killed"}
  /\ \/ Step = "clone" /\ repo = "absent" /\ repo' = "present" /\ UNCHANGED archive
     \/ Step = "archive" /\ archive = "absent" /\ archive' = "partial" /\ UNCHANGED repo
  /\ UNCHANGED <<given, at, main, process, done, cut, result, status>>

\* containerd starts what the client of a profile's command asks for.
StartContainer ==
  /\ child \in {"running", "killed"} /\ Step = "run" /\ container = "none"
  /\ container' = "running"
  /\ UNCHANGED <<given, at, main, code, child, pipes, disk, done, cut, result, status>>

\* `git clone --branch' looks for a branch and then for a tag of that name: it
\* prefixes refs/heads/ and refs/tags/ itself.
Resolves == request.git_ref # "qualified"

\* The command ends, after its container, and its pipes with it unless a
\* descendant lives on.  git removes the directory of a clone that fails.
Exit ==
  /\ child = "running"
  /\ child' = "exited" /\ container' = "none"
  /\ pipes' \in {"open", "closed"}
  /\ \/ /\ Step = "clone" => Resolves
        /\ code' = "ok"
        /\ done' = done \cup {at}
        /\ repo' = IF Step = "clone" THEN "present" ELSE repo
        /\ archive' = IF Step = "archive" THEN "whole" ELSE archive
     \/ /\ code' = "error"
        /\ repo' = IF Step = "clone" THEN "absent" ELSE repo
        /\ UNCHANGED <<done, archive>>
  /\ UNCHANGED <<given, at, main, cut, result, status>>

\* SIGKILL takes effect; what the command did may have been all its work.
Die ==
  /\ child = "killed"
  /\ child' = "exited"
  /\ pipes' \in {"open", "closed"}
  /\ done' \in {done, done \cup {at}}
  /\ UNCHANGED <<given, at, main, code, container, disk, cut, result, status>>

\* What a command has left behind ends.
LeftoversEnd ==
  /\ child \in {"exited", "none"}
  /\ \/ pipes = "open" /\ pipes' = "closed" /\ UNCHANGED container
     \/ container = "running" /\ container' = "none" /\ UNCHANGED pipes
  /\ UNCHANGED <<given, at, main, code, child, disk, done, cut, result, status>>

FunctionEnds ==
  /\ Step = "dispatch" /\ main \in {"replying", "over", "cleared"} /\ at \notin done
  /\ done' = done \cup {at}
  /\ UNCHANGED <<given, at, main, process, disk, cut, result, status>>

-----------------------------------------------------------------------------
Execution ==
  \/ FailBefore \/ LoginFails \/ Spawn \/ Reap \/ Join
  \/ CommandTimeout \/ Dispatch \/ Reply

Next ==
  \/ Execution \/ Deadline \/ RemoveWorkdir \/ Conclude
  \/ Begin \/ StartContainer \/ Exit \/ Die \/ LeftoversEnd \/ FunctionEnds

Spec == Init /\ [][Next]_vars

\* The task is polled and its timers fire.  Commands and what they leave behind
\* owe nothing.
Fairness == WF_vars(Deadline) /\ WF_vars(RemoveWorkdir) /\ WF_vars(Conclude)

FairSpec == Spec /\ Fairness

-----------------------------------------------------------------------------
(***************************************************************************)
(* Properties                                                              *)
(***************************************************************************)
\* Every variable has the type the code gives it: the execution has a result when
\* it is over and no sooner, the job a verdict only when that was cleaned up.
TypeOK ==
  /\ config \in Configs
  /\ origin.by \in {"caller", "rule"}
  /\ request \in Documents
  /\ at \in 1..Len(Steps)
  /\ main \in {"ready", "waiting", "joining", "replying", "over", "cleared"}
  /\ code \in {"none", "ok", "error"}
  /\ child \in {"none", "running", "killed", "exited"}
  /\ pipes \in {"open", "closed"}
  /\ container \in {"none", "running"}
  /\ repo \in {"absent", "present"}
  /\ archive \in {"absent", "partial", "whole"}
  /\ done \subseteq 1..Len(Steps)
  /\ cut \in BOOLEAN
  /\ result \in {"none", "ok", "error"}
  /\ status \in {"running", "succeeded", "failed"}
  /\ result = "none" <=> main \notin {"over", "cleared"}
  /\ status # "running" => main = "cleared"

\* No step does its work before all those ahead of it have done theirs: nothing
\* is pushed that was not built, nothing deployed that was not pushed.
EffectsInOrder == \A i \in done : 1..i \subseteq done

\* get_build_artifacts asks for the job and for the file, not for the status.
get_build_artifacts == archive

\* A job that succeeded has done all it was asked, and no download of its archive
\* finds it incomplete, or absent where the profile has artifacts.
SuccessMeansDone ==
  status = "succeeded" =>
    /\ done = DOMAIN Steps
    /\ get_build_artifacts = IF \E i \in DOMAIN Steps : Steps[i] = "archive"
                             THEN "whole" ELSE "absent"

\* What validation keeps out never reaches the executors, whichever way a request
\* came in: no step meets its unreachable!, or a feature that is switched off, or
\* an argument the validation that is repeated there would refuse.
ExecutorsAreGuarded == \A i \in DOMAIN Steps : Executable(config, request, Steps[i])

\* No process of an earlier command that holds its pipes lives when the next
\* command starts, nor a container.
CommandsDoNotOverlap ==
  [][main = "ready" /\ main' = "waiting"
     => pipes = "closed" /\ child # "running" /\ container = "none"]_vars

\* When the job has its verdict its command is dead, or has been sent SIGKILL.
\* "Cloned workdirs are removed after each job", and no container is left, unless a
\* timeout, the deadline or a failed login has cut a command short.
CleanUnlessCutShort ==
  status # "running" =>
    /\ child # "running"
    /\ cut \/ (container = "none" /\ (repo = "present" => config.keep))

Did(step) == \E i \in done : Steps[i] = step

Performed(rule) ==
  IF rule.executor = "lambda" THEN Did("dispatch")
  ELSE /\ Did("build") = (rule.image # "absent")
       /\ Did("push") = rule.push
       /\ Did("apply") = Deploying(rule)
       /\ Cardinality({i \in done : Steps[i] = "run"})
            = IF rule.profile = "absent" THEN 0 ELSE SPECS[rule.profile].steps

\* A job that GitHub's event started and that succeeded did what the first rule
\* for the event says: its image or its profile, its push, its deploy, no other.
RulesAreCarriedOut ==
  status = "succeeded" /\ origin.by = "rule" =>
    \E i \in Matching(origin.rules, origin.event) :
      /\ \A j \in Matching(origin.rules, origin.event) : i <= j
      /\ Performed(origin.rules[i])

\* Every execution ends in a verdict, though commands may hang, ignore their end
\* of the pipes or leave descendants that do.
JobEnds == <>(status # "running")

\* "stream the fixed-profile output archive after a successful profile build".
ArtifactsAfterSuccess == get_build_artifacts # "absent" => status = "succeeded"

\* "Also react to tag pushes": the clone of a rule's job asks for a ref that git
\* can resolve.
TagPushesClone ==
  origin.by = "rule" /\ Step = "clone" /\ main = "waiting" => Resolves
=============================================================================
