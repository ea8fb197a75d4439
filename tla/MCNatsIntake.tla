---------------------------- MODULE MCNatsIntake -----------------------------
(* Model values of the instances of NatsIntake. *)
EXTENDS NatsIntake

CONSTANTS A, B, m1, m2, junk
=============================================================================
