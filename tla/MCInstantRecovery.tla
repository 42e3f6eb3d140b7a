-------------------------- MODULE MCInstantRecovery --------------------------
(* Names for the constants of InstantRecovery, for model checking. *)
EXTENDS InstantRecovery

CONSTANTS s1, t1, t2
=============================================================================
