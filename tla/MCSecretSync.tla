---------------------------- MODULE MCSecretSync -----------------------------
(* SecretSync with two replicas, a request to one of them, and documents that *)
(* are sound, name a protected variable or name an owner that is not listed.  *)
EXTENDS SecretSync, TLC

CONSTANTS r1, r2, l1, l2, p1, token, other, deploy

HomeOf == l1 :> r1 @@ l2 :> r2 @@ p1 :> r1

SourceOf ==
  [s \in Secrets |-> [protected |-> s = deploy, listed |-> TRUE, prefixed |-> TRUE]]

Strictest == {[owners |-> "some", envs |-> "some"]}
EveryPolicy == Strictest \cup {[owners |-> "some", envs |-> "none"], [owners |-> "none", envs |-> "some"]}

WithBoth == {[db |-> TRUE, locks |-> TRUE]}
BothOrNeither == WithBoth \cup {[db |-> FALSE, locks |-> FALSE]}

OneTruth == {[s \in Secrets |-> 1]}
TokenUnset == {[s \in Secrets |-> IF s = token THEN Unset ELSE 1]}

Rule(secrets) == [owner |-> "listed", secrets |-> secrets]
OneSecret == {<<Rule(<<token>>)>>}
Documents == {<<Rule(<<token>>), Rule(<<other>>)>>, <<Rule(<<other>>), Rule(<<deploy>>)>>,
              <<[owner |-> "unlisted", secrets |-> <<token>>]>>}
=============================================================================
