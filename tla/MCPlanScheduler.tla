---------------------------- MODULE MCPlanScheduler ----------------------------
(* Names for the constants of PlanScheduler, for model checking. *)
EXTENDS PlanScheduler, TLC

CONSTANTS p1, p2, t1, t2

\* Due in every minute, or in the second one only.
EveryMinuteOrOnce == {0 .. MaxTime, {1}}

\* Plans and threads are interchangeable.
Symmetry == Permutations(Plans) \union Permutations(Runners)
================================================================================
