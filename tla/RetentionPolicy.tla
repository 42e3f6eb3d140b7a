--------------------------- MODULE RetentionPolicy ---------------------------
(***************************************************************************)
(* What a protection plan promises about the snapshots of a volume,        *)
(* whatever the order in which jobs, users and the array act: retention    *)
(* may delete a snapshot of plan p only while Retention[p] newer ones of   *)
(* the same plan are kept.  A snapshot is kept while it is on the array,   *)
(* or if somebody other than retention took it away.                       *)
(* SnapshotCatalog is shown to implement this module.                      *)
(***************************************************************************)
EXTENDS Naturals, FiniteSets

CONSTANTS
    Plans,      \* protection plans (netapp_snapshot_schedules)
    Volumes,    \* ONTAP volumes
    Snaps,      \* snapshots; uuid grows in the order of creation
    Retention,  \* [Plans -> Nat]: retention_count
    Belongs(_, _)   \* Belongs(p, s): the name of s marks it as one of plan p's

VARIABLES
    ontap,      \* [Volumes -> SUBSET Snaps]: what is on the array
    withdrawn,  \* [Volumes -> SUBSET Snaps]: removed by users or the array
    expired     \* [Plans -> [Volumes -> SUBSET Snaps]]: removed by retention

policyVars == <<ontap, withdrawn, expired>>

Kept(v) == ontap[v] \cup withdrawn[v]

\* The kept snapshots of plan p on volume v that are newer than s.
KeptNewer(p, v, s) == {x \in Kept(v) : Belongs(p, x) /\ x.uuid > s.uuid}

PolicyInit ==
    /\ ontap = [v \in Volumes |-> {}]
    /\ withdrawn = [v \in Volumes |-> {}]
    /\ expired = [p \in Plans |-> [v \in Volumes |-> {}]]

\* A new snapshot is newer than every other one of the volume.
Take(v, s) ==
    /\ \A x \in Kept(v) : x.uuid < s.uuid
    /\ ontap' = [ontap EXCEPT ![v] = @ \cup {s}]
    /\ UNCHANGED <<withdrawn, expired>>

Withdraw(v, s) ==
    /\ s \in ontap[v]
    /\ ontap' = [ontap EXCEPT ![v] = @ \ {s}]
    /\ withdrawn' = [withdrawn EXCEPT ![v] = @ \cup {s}]
    /\ UNCHANGED expired

Expire(p, v, s) ==
    /\ s \in ontap[v]
    /\ Belongs(p, s)
    /\ Cardinality(KeptNewer(p, v, s)) >= Retention[p]
    /\ ontap' = [ontap EXCEPT ![v] = @ \ {s}]
    /\ expired' = [expired EXCEPT ![p][v] = @ \cup {s}]
    /\ UNCHANGED withdrawn

PolicyNext ==
    \E v \in Volumes :
        \/ \E s \in ontap'[v] : s \in Snaps /\ Take(v, s)
        \/ \E s \in ontap[v] :
              \/ Withdraw(v, s)
              \/ \E p \in Plans : Expire(p, v, s)

PolicySpec == PolicyInit /\ [][PolicyNext]_policyVars
=============================================================================
