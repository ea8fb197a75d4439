----------------------------- MODULE MCWebhooks ------------------------------
(* Instances of Webhooks for TLC. *)
EXTENDS Webhooks, TLC

CONSTANTS h1, h2, h3

ThreeHandlers == {h1, h2, h3}
\* Two arrivals meet in one process, the third goes to another replica.
TwoReplicas == [h \in ThreeHandlers |-> IF h = h3 THEN "B" ELSE "A"]
OneProcess == Permutations({h1, h2})

Event(id, signed, event, actionable, kind, name) ==
  [provider |-> "github", id |-> id, signed |-> signed, event |-> event,
   actionable |-> actionable, ref |-> [kind |-> kind, name |-> name], images |-> 0]

\* Two pushed images, under the delivery id of GitHub's push.
Images == [Event("push", TRUE, "image", FALSE, "bare", "") EXCEPT
             !.provider = "registry", !.images = 2]

Push == Event("push", TRUE, "push", TRUE, "head", "main")

\* A push, a deletion, a forgery, a ping, a tag push without consent, and images.
Traffic ==
  {Push,
   Event("delete", TRUE, "push", FALSE, "head", "main"),
   Event("forged", FALSE, "push", TRUE, "head", "main"),
   Event("ping", TRUE, "ping", FALSE, "bare", ""),
   Event("tag", TRUE, "push", TRUE, "tag", "v1"),
   Images}

JustPush == {Push}

MainRules ==
  <<[events |-> {"workflow_run"}, branch |-> "*", tags |-> TRUE],
    [events |-> {"push"}, branch |-> "main", tags |-> FALSE]>>
=============================================================================
