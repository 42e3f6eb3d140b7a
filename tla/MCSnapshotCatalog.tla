-------------------------- MODULE MCSnapshotCatalog --------------------------
(* Values for the constants of SnapshotCatalog, for model checking. *)
EXTENDS SnapshotCatalog, TLC

CONSTANTS daily, weekly,            \* plans
          v1, v2,                   \* volumes
          dailyTail, weeklyTail,    \* their suffixes
          t1, t2,                   \* threads
          xDailyTail                \* ends with "_" and the suffix of daily

OneVolume == [p \in Plans |-> {v1}]
AllVolumes == [p \in Plans |-> Volumes]

PlanTails == [p \in Plans |-> IF p = daily THEN dailyTail ELSE weeklyTail]

\* No suffix ends with another one.
Apart == [p \in Plans |-> {PlanTails[p]}]

\* What users type in may end with the suffix of a plan: x_daily.
ByEnding == [p \in Plans |-> {PlanTails[p]} \union (IF p = daily THEN {xDailyTail} ELSE {})]

\* The threads of the pool are alike.
ThreadSymmetry == Permutations(Threads)

KeepOne == [p \in Plans |-> 1]
=============================================================================
