---------------------------- MODULE MCBuildQueue ----------------------------
(* Instances of BuildQueue for TLC. *)
EXTENDS BuildQueue, TLC

CONSTANTS h1, h2, n1, r1, r2, none

Keyed(rids, bodies) == [rid : rids, body : bodies]

\* An invalid request can arrive at any time, also when the ids have run out.
BadBodies == {"bad"}
Invalid == Keyed({none}, BadBodies)

\* One id submitted with two bodies, and an anonymous request.
MixedRequests == Keyed({r1}, {"a", "b"}) \cup Keyed({none}, {"a"}) \cup Invalid
\* Two ids and an anonymous request.
DistinctRequests == Keyed({r1, r2, none}, {"a"}) \cup Invalid
\* One request with an id and one without.
SomeRequests  == Keyed({r1, none}, {"a"}) \cup Invalid
=============================================================================
