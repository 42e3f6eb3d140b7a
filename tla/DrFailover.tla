----------------------------- MODULE DrFailover -----------------------------
(***************************************************************************)
(* Disaster recovery plans (api/dr.py): a plan lists volumes with the      *)
(* SnapMirror relationship that copies each to the DR side; a failover     *)
(* breaks the relationships of the selected entries, binds each copy as a  *)
(* datastore, and starts the VMs.  One entry's failure leaves the others   *)
(* alone; the state of the plan says how it ended; a process that dies in  *)
(* the middle leaves the plan running, and the next boot reconciles it.    *)
(* Requests do not interleave with each other (one worker), but with the   *)
(* failover threads, of which each plan has at most one.                   *)
(* An entry is made for a source volume, and names a relationship, a copy, *)
(* a storage id and hosts; all of these can be edited at any time, and the *)
(* storage id defaults to the one of the source, so the copy is bound      *)
(* under an id that may show another volume already.  An entry that lacks  *)
(* a relationship, an id or a host is skipped.                             *)
(* A volume v stands for the source, its relationship and its copy, by     *)
(* where it occurs.  A copy that is not there is a call that fails.        *)
(* Planned and emergency failovers differ in a transfer whose failure is   *)
(* ignored, and groups of VMs in what is started after the storage:        *)
(* neither is told apart here.  The hosts of the DR site are one cluster.  *)
(* External: the state of a relationship on ONTAP and of the storage on    *)
(* Proxmox VE, and which calls fail.  Statements on the database succeed.  *)
(* A definition in front of another one and named after it is a slip the   *)
(* code could have made; no action uses it.                                *)
(***************************************************************************)
EXTENDS Naturals, FiniteSets

CONSTANTS
    Plans,
    Volumes,
    NoVolume,
    Old,        \* any volume that is not the copy of one of them
    Sids,       \* storage ids
    NoSid,
    PrimarySid, \* [Volumes -> storage id of the source, or NoSid]
    Used,       \* storage ids of datastores, which the DR cluster may show too
    Targets,    \* what users enter for a volume
    MaxEdits,   \* bound on edits of entries and ends of replication
    MaxRuns,    \* bound on failovers started
    MaxFaults,  \* bound on failed calls
    MaxCrashes  \* bound on crashes

Entry == [rel : Volumes \cup {NoVolume}, vol : Volumes, sid : Sids \cup {NoSid},
          hosts : BOOLEAN]

ASSUME VolumeAssumption ==
    /\ NoVolume \notin Volumes /\ Old \notin Volumes \cup {NoVolume} /\ NoSid \notin Sids
    /\ PrimarySid \in [Volumes -> Sids \cup {NoSid}]
    /\ Used \subseteq Sids
    /\ Targets \subseteq Entry
ASSUME BoundsAssumption ==
    MaxEdits \in Nat /\ MaxRuns \in Nat /\ MaxFaults \in Nat /\ MaxCrashes \in Nat

VARIABLES
    plan,       \* [Plans -> PlanStates]: netapp_dr_plans
    entry,      \* [Plans -> [Volumes -> the entry, NoEntry]]: netapp_dr_plan_entries
    rel,        \* [Volumes -> RelStates]: the relationship on the DR side
    row,        \* [Sids -> the row found by that id]: netapp_provisioned_datastores
    storage,    \* [Sids -> the volume that Proxmox VE shows under the id]
    job,        \* [Plans -> record]: locals of _execute_failover
    given,      \* history: relationships that somebody chose to give up
    unsure,     \* history: entries about which a failed call was passed over
    contested,  \* history: storage ids that were another volume's when one was bound
    edits, runs, faults, crashes

vars == <<plan, entry, rel, row, storage, job, given, unsure, contested,
          edits, runs, faults, crashes>>
storageVars == <<rel, row, storage>>
historyVars == <<given, unsure, contested>>
boundVars == <<edits, runs, faults, crashes>>

PlanStates == {"none", "standby", "failover_running", "failed_over",
               "partial_failover", "deleted"}
RelStates == {"mirrored", "broken", "gone"}
Shown == Volumes \cup {Old, NoVolume}
Rows == [status : {"none", "provisioning", "active"}, name : Shown, home : Shown]

NoEntry == [rel |-> NoVolume, vol |-> NoVolume, sid |-> NoSid, hosts |-> FALSE]
\* name is the volume's name, home the one whose endpoint and SVM the row has.
RowOf(v, status) == [status |-> status, name |-> v, home |-> v]
NoRow == RowOf(NoVolume, "none")

\* copy is the entries as they were read; todo, took, ok and bad name them by source.
IdleJob == [pc |-> "idle", all |-> FALSE, ids |-> {}, todo |-> {},
            cur |-> NoVolume, took |-> {}, ok |-> {}, bad |-> {},
            copy |-> [v \in Volumes |-> NoEntry]]

\* A plan whose row is there.
Exists(p) == plan[p] \notin {"none", "deleted"}
Entries(p) == {v \in Volumes : entry[p][v] # NoEntry}
Complete(e) == e.rel # NoVolume /\ e.sid # NoSid /\ e.hosts

Init ==
    /\ plan = [p \in Plans |-> "none"]
    /\ entry = [p \in Plans |-> [v \in Volumes |-> NoEntry]]
    /\ rel = [v \in Volumes |-> "mirrored"]
    /\ row = [s \in Sids |-> IF s \in Used THEN RowOf(Old, "active") ELSE NoRow]
    /\ storage \in {f \in [Sids -> {NoVolume, Old}] : \A s \in Sids \ Used : f[s] = NoVolume}
    /\ job = [p \in Plans |-> IdleJob]
    /\ given = {}
    /\ unsure = {}
    /\ contested = {}
    /\ edits = 0
    /\ runs = 0
    /\ faults = 0
    /\ crashes = 0

Fault ==
    /\ faults < MaxFaults
    /\ faults' = faults + 1
    /\ UNCHANGED <<edits, runs, crashes>>

Edit ==
    /\ edits < MaxEdits
    /\ edits' = edits + 1
    /\ UNCHANGED <<runs, faults, crashes>>

-----------------------------------------------------------------------------
(* Requests on plans and entries *)

CreatePlan(p) ==
    /\ plan[p] = "none"
    /\ plan' = [plan EXCEPT ![p] = "standby"]
    /\ UNCHANGED <<entry, storageVars, job, historyVars, boundVars>>

DeletePlanAnytime(p) ==
    /\ Exists(p)
    /\ plan' = [plan EXCEPT ![p] = "deleted"]
    /\ entry' = [entry EXCEPT ![p] = [v \in Volumes |-> NoEntry]]
    /\ UNCHANGED <<storageVars, job, historyVars, boundVars>>
\* The entries go with the plan (ON DELETE CASCADE).
DeletePlan(p) ==
    /\ plan[p] = "standby"
    /\ plan' = [plan EXCEPT ![p] = "deleted"]
    /\ entry' = [entry EXCEPT ![p] = [v \in Volumes |-> NoEntry]]
    /\ UNCHANGED <<storageVars, job, historyVars, boundVars>>

\* _enrich_entry
Enriched(v, e) == [e EXCEPT !.sid = IF @ = NoSid THEN PrimarySid[v] ELSE @]

\* What is entered for a failover that has not read its entries yet is meant for it.
Awaited(p, v) == job[p].pc = "list" /\ (job[p].all \/ v \in job[p].ids)
Meant(p, new) == given' = given \cup {new[v].rel : v \in {u \in Volumes : Awaited(p, u)}}

SetEntries(p, new) ==
    /\ entry' = [entry EXCEPT ![p] = new]
    /\ Edit
    /\ Meant(p, new)
    /\ UNCHANGED <<plan, storageVars, job, unsure, contested>>

\* Without a relationship, the one of the source is taken if it is known.
AddEntry(p, v, t) ==
    /\ Exists(p)
    /\ entry[p][v] = NoEntry
    /\ \E e \in {t} \cup (IF t.rel = NoVolume THEN {[t EXCEPT !.rel = v]} ELSE {}) :
          SetEntries(p, [entry[p] EXCEPT ![v] = Enriched(v, e)])

Detected(v) == [rel |-> v, vol |-> v, sid |-> PrimarySid[v], hosts |-> FALSE]

\* From a table of relationships that is refreshed at other times.
AutoDetect(p, known) ==
    /\ Exists(p)
    /\ SetEntries(p, [v \in Volumes |-> IF v \in known \ Entries(p) THEN Detected(v)
                                        ELSE entry[p][v]])

\* Every field but the source may be replaced.
UpdateEntry(p, v, t) ==
    /\ v \in Entries(p)
    /\ SetEntries(p, [entry[p] EXCEPT ![v] = Enriched(v, t)])

\* A later entry for the volume has another id, which a request that is being
\* served does not name.
DeleteEntry(p, v) ==
    /\ v \in Entries(p)
    /\ Edit
    /\ entry' = [entry EXCEPT ![p][v] = NoEntry]
    /\ job' = [job EXCEPT ![p].ids = @ \ {v}]
    /\ UNCHANGED <<plan, storageVars, historyVars>>

\* Replication of the volume is ended: broken, then removed if that succeeds.
Teardown(v) ==
    /\ rel[v] # "gone"
    /\ Edit
    /\ \E s \in {"broken", "gone"} : rel' = [rel EXCEPT ![v] = s]
    /\ given' = given \cup {v}
    /\ UNCHANGED <<plan, entry, row, storage, job, unsure, contested>>

-----------------------------------------------------------------------------
(* Failover *)

\* An empty selection means every entry.
StartFailover(p, ids) ==
    /\ Exists(p)
    /\ plan[p] # "failover_running"
    /\ ids \subseteq Entries(p)
    /\ runs < MaxRuns
    /\ runs' = runs + 1
    /\ job' = [job EXCEPT ![p] =
                 [IdleJob EXCEPT !.pc = "list", !.all = (ids = {}), !.ids = ids]]
    /\ plan' = [plan EXCEPT ![p] = "failover_running"]
    /\ given' = given \cup
                  {entry[p][v].rel : v \in IF ids = {} THEN Entries(p) ELSE ids}
    /\ UNCHANGED <<entry, storageVars, unsure, contested, edits, faults, crashes>>

\* _finish: an UPDATE of a row that is gone changes nothing.
Finish(p, state) ==
    /\ job' = [job EXCEPT ![p] = IdleJob]
    /\ plan' = IF Exists(p) THEN [plan EXCEPT ![p] = state] ELSE plan

FinishEmpty(p) ==
    /\ job[p].pc = "list"
    /\ Entries(p) = {}
    /\ Finish(p, "standby")
    /\ UNCHANGED <<entry, storageVars, historyVars, boundVars>>

\* The entries are copied once; incomplete ones will be skipped.
ListEntries(p) ==
    /\ job[p].pc = "list"
    /\ Entries(p) # {}
    /\ LET chosen == {v \in Entries(p) : Awaited(p, v) /\ Complete(entry[p][v])}
       IN  job' = [job EXCEPT ![p].pc = "work", ![p].ids = {},
                              ![p].todo = chosen, ![p].took = chosen,
                              ![p].copy = [v \in Volumes |-> IF v \in chosen THEN entry[p][v]
                                                             ELSE NoEntry]]
    /\ UNCHANGED <<plan, entry, storageVars, historyVars, boundVars>>

CopyReread(p, v) == entry[p][v]
Copy(p, v) == job[p].copy[v]

\* _ensure_provisioned_ds
EnsureRow(e) ==
    row' = [row EXCEPT ![e.sid] = IF @ = NoRow THEN RowOf(e.vol, "provisioning") ELSE @]

EntryFailedStale(p, v) ==
    job' = [job EXCEPT ![p].pc = "work",
                       ![p].todo = @ \ {v}, ![p].bad = @ \cup {v}]
\* One entry is over: the exception is logged and the next entry is tried.
EntryFailed(p, v) ==
    job' = [job EXCEPT ![p].pc = "work", ![p].cur = NoVolume,
                       ![p].todo = @ \ {v}, ![p].bad = @ \cup {v}]

Working(p, v) == job[p].pc = "work" /\ v \in job[p].todo

\* The endpoint or the volume on the DR side cannot be read.
LookupFails(p, v) ==
    /\ Working(p, v)
    /\ Fault
    /\ EntryFailed(p, v)
    /\ UNCHANGED <<plan, entry, storageVars, historyVars>>

ToBind(p, v) ==
    job' = [job EXCEPT ![p].pc = "bind", ![p].cur = v, ![p].todo = @ \ {v}]

Break(p, v) ==
    LET e == Copy(p, v) IN
    /\ Working(p, v)
    /\ rel[e.rel] # "gone"
    /\ EnsureRow(e)
    /\ rel' = [rel EXCEPT ![e.rel] = "broken"]
    /\ ToBind(p, v)
    /\ UNCHANGED <<plan, entry, storage, historyVars, boundVars>>

\* The break was not confirmed after a minute: a warning, and the bind goes on.
BreakUnconfirmed(p, v) ==
    LET e == Copy(p, v) IN
    /\ Working(p, v)
    /\ rel[e.rel] = "mirrored"
    /\ Fault
    /\ EnsureRow(e)
    /\ ToBind(p, v)
    /\ unsure' = unsure \cup {e}
    /\ UNCHANGED <<plan, entry, rel, storage, given, contested>>

\* A failed break may have taken effect.
BreakFails(p, v) ==
    LET e == Copy(p, v) IN
    /\ Working(p, v)
    /\ rel[e.rel] = "mirrored"
    /\ Fault
    /\ EnsureRow(e)
    /\ \E s \in {"mirrored", "broken"} : rel' = [rel EXCEPT ![e.rel] = s]
    /\ EntryFailed(p, v)
    /\ UNCHANGED <<plan, entry, storage, historyVars>>

\* The relationship does not exist any more: the break is refused.
BreakRefused(p, v) ==
    LET e == Copy(p, v) IN
    /\ Working(p, v)
    /\ rel[e.rel] = "gone"
    /\ EnsureRow(e)
    /\ EntryFailed(p, v)
    /\ UNCHANGED <<plan, entry, rel, storage, historyVars, boundVars>>

\* The bind ends well: the row found by the storage id is active and gets the name of
\* the copy, whatever endpoint and SVM it has.
Bound(p, e) ==
    /\ job[p].pc = "bind"
    /\ row' = [row EXCEPT ![e.sid] = [@ EXCEPT !.status = "active", !.name = e.vol]]
    /\ job' = [job EXCEPT ![p].pc = "work", ![p].cur = NoVolume,
                          ![p].ok = @ \cup {job[p].cur}]
    /\ contested' = IF storage[e.sid] \in {NoVolume, e.vol} /\ row[e.sid].home = e.vol
                    THEN contested ELSE contested \cup {e.sid}
    /\ UNCHANGED <<plan, entry, rel, given>>

\* A storage that is there already counts as bound, whatever it shows.
Bind(p) ==
    LET e == Copy(p, job[p].cur) IN
    /\ Bound(p, e)
    /\ storage' = [storage EXCEPT ![e.sid] = IF @ = NoVolume THEN e.vol ELSE @]
    /\ UNCHANGED <<unsure, boundVars>>

\* Asking or pvesm add failed on every host: a warning each, and the bind goes on.
BindUnmounted(p) ==
    LET e == Copy(p, job[p].cur) IN
    /\ Bound(p, e)
    /\ Fault
    /\ unsure' = unsure \cup {e}
    /\ UNCHANGED storage

BindFailsForgotten(p) ==
    /\ job[p].pc = "bind"
    /\ Fault
    /\ job' = [job EXCEPT ![p].pc = "work", ![p].cur = NoVolume]
    /\ UNCHANGED <<plan, entry, storageVars, historyVars>>
\* No host answers, no LIF, or ONTAP refuses to mount or to export the volume.
BindFails(p) ==
    /\ job[p].pc = "bind"
    /\ Fault
    /\ EntryFailed(p, job[p].cur)
    /\ UNCHANGED <<plan, entry, storageVars, historyVars>>

Settled(p) == job[p].pc = "work" /\ job[p].todo = {}

FinishFailed(p) ==
    /\ Settled(p)
    /\ job[p].bad # {}
    /\ job[p].ok = {}
    /\ Finish(p, "standby")
    /\ UNCHANGED <<entry, storageVars, historyVars, boundVars>>

StartVmsAllGood(p) ==
    /\ Settled(p)
    /\ job[p].bad = {}
    /\ job' = [job EXCEPT ![p].pc = "start"]
    /\ UNCHANGED <<plan, entry, storageVars, historyVars, boundVars>>
StartVms(p) ==
    /\ Settled(p)
    /\ job[p].bad = {} \/ job[p].ok # {}
    /\ job' = [job EXCEPT ![p].pc = "start"]
    /\ UNCHANGED <<plan, entry, storageVars, historyVars, boundVars>>

FinishPartial(p) ==
    /\ job[p].pc = "start"
    /\ job[p].bad # {}
    /\ Finish(p, "partial_failover")
    /\ UNCHANGED <<entry, storageVars, historyVars, boundVars>>

FinishSuccess(p) ==
    /\ job[p].pc = "start"
    /\ job[p].bad = {}
    /\ Finish(p, "failed_over")
    /\ UNCHANGED <<entry, storageVars, historyVars, boundVars>>

\* The host that starts the VMs cannot be reached.  The outermost handler calls
\* the plan failed, whatever was broken and bound.
UnexpectedError(p) ==
    /\ job[p].pc = "start"
    /\ Fault
    /\ Finish(p, "standby")
    /\ UNCHANGED <<entry, storageVars, historyVars>>

-----------------------------------------------------------------------------
(* Boot *)

\* _live_dr_plan_state asks a row of the database for .get, which it has not:
\* with an entry it raises, and the plan is left as it is.
LiveState(p) ==
    IF Entries(p) = {} THEN "standby" ELSE plan[p]

Restart ==
    /\ crashes < MaxCrashes
    /\ crashes' = crashes + 1
    /\ job' = [p \in Plans |-> IdleJob]
    /\ plan' = [p \in Plans |->
                  IF plan[p] = "failover_running" THEN LiveState(p) ELSE plan[p]]
    /\ UNCHANGED <<entry, storageVars, historyVars, edits, runs, faults>>

-----------------------------------------------------------------------------

Requests(p) ==
    \/ CreatePlan(p)
    \/ DeletePlan(p)
    \/ \E known \in SUBSET Volumes : AutoDetect(p, known)
    \/ \E v \in Volumes, t \in Targets : AddEntry(p, v, t)
    \/ \E v \in Volumes, t \in Targets : UpdateEntry(p, v, t)
    \/ \E v \in Volumes : DeleteEntry(p, v)
    \/ \E ids \in SUBSET Volumes : StartFailover(p, ids)

EntryStep(p) ==
    \/ \E v \in Volumes : LookupFails(p, v)
    \/ \E v \in Volumes : Break(p, v)
    \/ \E v \in Volumes : BreakUnconfirmed(p, v)
    \/ \E v \in Volumes : BreakFails(p, v)
    \/ \E v \in Volumes : BreakRefused(p, v)
    \/ Bind(p)
    \/ BindUnmounted(p)
    \/ BindFails(p)

FailoverStep(p) ==
    \/ FinishEmpty(p)
    \/ ListEntries(p)
    \/ EntryStep(p)
    \/ FinishFailed(p)
    \/ StartVms(p)
    \/ FinishPartial(p)
    \/ FinishSuccess(p)
    \/ UnexpectedError(p)

Next ==
    \/ \E p \in Plans : Requests(p)
    \/ \E p \in Plans : FailoverStep(p)
    \/ \E v \in Volumes : Teardown(v)
    \/ Restart

\* A thread that was started goes on; nobody has to send a request.
Fairness == \A p \in Plans : WF_vars(FailoverStep(p))

Spec == Init /\ [][Next]_vars /\ Fairness

-----------------------------------------------------------------------------
(* Properties *)

JobType ==
    [pc : {"idle", "list", "work", "bind", "start"}, all : BOOLEAN,
     ids : SUBSET Volumes, todo : SUBSET Volumes,
     cur : Volumes \cup {NoVolume},
     took : SUBSET Volumes, ok : SUBSET Volumes, bad : SUBSET Volumes,
     copy : [Volumes -> Entry \cup {NoEntry}]]

\* Every variable has its type, and a volume is current exactly while it is
\* bound.
TypeOK ==
    /\ plan \in [Plans -> PlanStates]
    /\ entry \in [Plans -> [Volumes -> Entry \cup {NoEntry}]]
    /\ rel \in [Volumes -> RelStates]
    /\ row \in [Sids -> Rows]
    /\ storage \in [Sids -> Shown]
    /\ job \in [Plans -> JobType]
    /\ \A p \in Plans : job[p].pc = "bind" <=> job[p].cur # NoVolume
    /\ given \in SUBSET (Volumes \cup {NoVolume})
    /\ unsure \in SUBSET Entry
    /\ contested \in SUBSET Sids
    /\ edits \in 0..MaxEdits
    /\ runs \in 0..MaxRuns
    /\ faults \in 0..MaxFaults
    /\ crashes \in 0..MaxCrashes

Runs(p) == job[p].pc # "idle"

\* The state of a plan tells whether a failover of it is at work, on which the
\* guards of delete and of start rely; only a crash leaves a plan running that
\* nobody works on.
StateTellsRunner ==
    \A p \in Plans :
        /\ Runs(p) => plan[p] = "failover_running"
        /\ plan[p] = "failover_running" => Runs(p) \/ crashes > 0

\* A mirror is only broken if somebody ended its replication, or selected for a failover an
\* entry that named it, or pointed a selected entry to it before the failover read its entries:
\* what is edited, retargeted, detected or added later, and the failover of another plan,
\* make no difference.
MirrorBrokenOnPurpose ==
    \A v \in Volumes : rel[v] # "mirrored" => v \in given

Serves(e) ==
    rel[e.rel] # "mirrored" /\ row[e.sid] = RowOf(e.vol, "active") /\ storage[e.sid] = e.vol

\* When a failover is called done, every entry it took up has been carried out as it was
\* read: its relationship is not mirrored any more, and its copy is an active datastore
\* and what Proxmox VE shows under its storage id; unless a failed call about it was passed
\* over with a warning, or the id was another volume's already, which the bind does not
\* notice.  No entry gets lost among those that failed.
SuccessServes ==
    [][\A p \in Plans :
         plan[p] = "failover_running" /\ plan'[p] = "failed_over" =>
           \A v \in job[p].took :
             Copy(p, v) \notin unsure /\ Copy(p, v).sid \notin contested
               => Serves(Copy(p, v))]_vars

\* A failover that was started does not go on for ever and waits for nothing,
\* however many of its entries fail: it ends, or dies with the process.
FailoverEnds == \A p \in Plans : Runs(p) ~> ~Runs(p)
=============================================================================
