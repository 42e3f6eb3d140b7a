--------------------------- MODULE SnapshotCatalog ---------------------------
(***************************************************************************)
(* The snapshot catalogue of NaSnap: the table netapp_snapshots, the       *)
(* snapshots on the ONTAP volumes, the index file of every datastore, and  *)
(* the actors that change them:                                            *)
(*   - plan runs and manual snapshots (core/snapshot_engine.py), each a    *)
(*     thread; a plan run snapshots its datastores one after the other and *)
(*     applies the plan's retention after every snapshot;                  *)
(*   - the hourly Detect & Scan thread (api/provisioning.py, core/gc.py),  *)
(*     which imports index entries and collects stale rows;                *)
(*   - the request worker, which deletes a snapshot (api/snapshots.py);    *)
(*   - ONTAP itself and its operators, who may delete any snapshot;        *)
(*   - a crash of the process, which ends every thread.                    *)
(* Every SQLite statement and every ONTAP call is a step of its own        *)
(* wherever another actor's step in between can tell the difference.       *)
(* A definition in front of another one and named after it, such as        *)
(* SurplusKeepingMore, is a slip the code could have made; no action uses  *)
(* it, and the properties are known to detect it.                          *)
(*                                                                         *)
(* A snapshot name {prefix}{YYYYMMDD_HHMM}_{suffix} is a pair of a minute  *)
(* and a tail; a manual name {prefix}{user name} has minute 0.  Whether a  *)
(* name ends with "_" and a plan's suffix is the constant Matches.         *)
(***************************************************************************)
EXTENDS Naturals, FiniteSets

CONSTANTS
    Plans,          \* ids of protection plans
    NoPlan,         \* schedule_id of a manual snapshot
    Volumes,        \* ONTAP volumes, one datastore each
    NoVolume,
    NoName,
    StoresOf,       \* [Plans -> SUBSET Volumes]: mapping_ids of the plan
    Tails,          \* the last parts of snapshot names
    TailOf,         \* [Plans -> Tails]: sched_name_safe
    Matches,        \* [Plans -> SUBSET Tails]: tails that end with TailOf[p]
    ManualTails,    \* names users type in
    Retention,      \* [Plans -> Nat]: retention_count
    Threads,        \* job threads
    ScanEnabled,    \* BOOLEAN: does the hourly Detect & Scan thread run
    MaxMinute,      \* bound on the clock
    MaxRuns,        \* bound on the jobs started
    MaxFaults,      \* bound on failed calls and crashes
    MaxDeletes      \* bound on the deletions by users and ONTAP

ASSUME SetsAssumption ==
    /\ NoPlan \notin Plans
    /\ NoVolume \notin Volumes
    /\ ManualTails \subseteq Tails

ASSUME PlansAssumption ==
    /\ StoresOf \in [Plans -> SUBSET Volumes]
    /\ TailOf \in [Plans -> Tails]
    /\ Matches \in [Plans -> SUBSET Tails]
    /\ \A p \in Plans : TailOf[p] \in Matches[p]
    /\ Retention \in [Plans -> Nat \ {0}]

ASSUME BoundsAssumption ==
    /\ MaxMinute \in Nat
    /\ MaxRuns \in Nat
    /\ MaxFaults \in Nat
    /\ MaxDeletes \in Nat
    /\ ScanEnabled \in BOOLEAN

VARIABLES
    ontap,      \* [Volumes -> SUBSET Snaps]: snapshots on the array
    rows,       \* the rows of netapp_snapshots
    index,      \* [Volumes -> SUBSET Names]: .nasnap/index.json
    job,        \* [Threads -> record]: locals of _run_snapshot
    scan,       \* locals of _run_detect_and_scan
    request,    \* locals of _delete_snapshot
    minute,     \* the wall clock
    taken,      \* number of snapshots created, orders them
    runs,       \* number of jobs started, identifies them
    faults, deletes,    \* how much of the bounds is used
    withdrawn, expired, \* history: see RetentionPolicy
    swept       \* history: [Plans -> [Volumes -> Nat]], the value of taken
                \* at the listing of the latest flawless retention

vars == <<ontap, rows, index, job, scan, request, minute, taken, runs,
          faults, deletes, withdrawn, expired, swept>>

arrayVars == <<ontap, taken, withdrawn, expired>>
boundVars == <<minute, runs, faults, deletes>>

Owners == Plans \cup {NoPlan}
Names == [minute : Nat, tail : Tails]
Snaps == [uuid : Nat \ {0}, name : Names]

\* A row; run 0 marks a row imported from an index, uuid 0 an empty
\* ontap_snap_uuid.  run, vol and name together stand for the primary key.
Rows == [run : Nat, vol : Volumes, name : Names, plan : Owners,
         status : {"running", "done", "failed"}, uuid : Nat]

SameRow(r, q) == r.run = q.run /\ r.vol = q.vol /\ r.name = q.name

NamesOn(v) == {s.name : s \in ontap[v]}

Belongs(p, s) == s.name.tail \in Matches[p]

IdleJob ==
    [pc |-> "idle", plan |-> NoPlan, todo |-> {}, run |-> 0, vol |-> NoVolume,
     name |-> NoName, uuid |-> 0, listed |-> {}, doomed |-> {},
     victim |-> NoName, asof |-> 0, clean |-> FALSE]

IdleScan == [pc |-> "idle", todo |-> {}, vol |-> NoVolume, live |-> {}]

IdleRequest ==
    [pc |-> "idle", run |-> 0, vol |-> NoVolume, name |-> NoName, uuid |-> 0]

Init ==
    /\ ontap = [v \in Volumes |-> {}]
    /\ rows = {}
    /\ index = [v \in Volumes |-> {}]
    /\ job = [t \in Threads |-> IdleJob]
    /\ scan = IdleScan
    /\ request = IdleRequest
    /\ minute = 1
    /\ taken = 0
    /\ runs = 0
    /\ faults = 0
    /\ deletes = 0
    /\ withdrawn = [v \in Volumes |-> {}]
    /\ expired = [p \in Plans |-> [v \in Volumes |-> {}]]
    /\ swept = [p \in Plans |-> [v \in Volumes |-> 0]]

-----------------------------------------------------------------------------
(* The environment's bounded counters *)

Fault == faults < MaxFaults /\ faults' = faults + 1 /\ UNCHANGED <<minute, runs, deletes>>

Tick ==
    /\ minute < MaxMinute
    /\ minute' = minute + 1
    /\ UNCHANGED <<arrayVars, rows, index, job, scan, request, runs, faults,
                   deletes, swept>>

-----------------------------------------------------------------------------
(* Starting jobs *)

\* _execute_schedule, started by the scheduler or by "run now"; nothing
\* keeps two runs of one plan apart.
StartRun(t, p) ==
    /\ job[t].pc = "idle"
    /\ runs < MaxRuns
    /\ runs' = runs + 1
    /\ job' = [job EXCEPT ![t] = [IdleJob EXCEPT !.pc = "next", !.plan = p,
                                     !.todo = StoresOf[p], !.run = runs + 1]]
    /\ UNCHANGED <<arrayVars, rows, index, scan, request, minute, faults,
                   deletes, swept>>

\* _create_snapshot with a name typed by the user.
StartManual(t, v, tail) ==
    /\ job[t].pc = "idle"
    /\ runs < MaxRuns
    /\ runs' = runs + 1
    /\ job' = [job EXCEPT ![t] = [IdleJob EXCEPT !.pc = "insert", !.vol = v,
                                     !.run = runs + 1,
                                     !.name = [minute |-> 0, tail |-> tail]]]
    /\ UNCHANGED <<arrayVars, rows, index, scan, request, minute, faults,
                   deletes, swept>>

\* The thread is done with its datastore: on to the next one, or the end.
Leave(j) ==
    IF j.todo \ {j.vol} = {}
    THEN IdleJob
    ELSE [IdleJob EXCEPT !.pc = "next", !.plan = j.plan, !.run = j.run,
                         !.todo = j.todo \ {j.vol}]

-----------------------------------------------------------------------------
(* One datastore: _execute_single_ds and _run_snapshot *)

\* The name is made from the clock when the job starts.
OpenStore(t, v) ==
    /\ job[t].pc = "next"
    /\ v \in job[t].todo
    /\ job' = [job EXCEPT ![t].pc = "insert", ![t].vol = v,
                   ![t].name = [minute |-> minute,
                                tail |-> TailOf[job[t].plan]]]
    /\ UNCHANGED <<arrayVars, rows, index, scan, request, boundVars, swept>>

\* Mapping, PVE host or ONTAP endpoint not available: the job fails before
\* it wrote anything.
JobFailsEarly(t) ==
    /\ job[t].pc = "insert"
    /\ Fault
    /\ job' = [job EXCEPT ![t] = Leave(job[t])]
    /\ UNCHANGED <<arrayVars, rows, index, scan, request, swept>>

InsertRow(t) ==
    /\ job[t].pc = "insert"
    /\ rows' = rows \cup
           {[run |-> job[t].run, vol |-> job[t].vol, name |-> job[t].name,
             plan |-> job[t].plan, status |-> "running", uuid |-> 0]}
    /\ job' = [job EXCEPT ![t].pc = "index"]
    /\ UNCHANGED <<arrayVars, index, scan, request, boundVars, swept>>

\* add_snapshot of the index, written before the snapshot exists.
UpdateIndex(t) ==
    /\ job[t].pc = "index"
    /\ index' = [index EXCEPT ![job[t].vol] = @ \cup {job[t].name}]
    /\ job' = [job EXCEPT ![t].pc = "create"]
    /\ UNCHANGED <<arrayVars, rows, scan, request, boundVars, swept>>

\* A failed index update is logged and the job continues; when it was the
\* read that failed, the file now holds the new entry alone.
UpdateIndexFails(t) ==
    /\ job[t].pc = "index"
    /\ Fault
    /\ \/ UNCHANGED index
       \/ index' = [index EXCEPT ![job[t].vol] = {job[t].name}]
    /\ job' = [job EXCEPT ![t].pc = "create"]
    /\ UNCHANGED <<arrayVars, rows, scan, request, swept>>

\* ONTAP adds the snapshot; names are unique on a volume.
CreateOnArray(t) ==
    /\ job[t].name \notin NamesOn(job[t].vol)
    /\ taken' = taken + 1
    /\ ontap' = [ontap EXCEPT ![job[t].vol] = @ \cup
                    {[uuid |-> taken + 1, name |-> job[t].name]}]
    /\ UNCHANGED <<withdrawn, expired>>

CreateOk(t) ==
    /\ job[t].pc = "create"
    /\ CreateOnArray(t)
    /\ job' = [job EXCEPT ![t].pc = "lookup"]
    /\ UNCHANGED <<rows, index, scan, request, boundVars, swept>>

\* The snapshot is created but the answer is lost: poll_job times out, or
\* the list_snapshots call after it fails.
CreateAnswerLost(t) ==
    /\ job[t].pc = "create"
    /\ Fault
    /\ CreateOnArray(t)
    /\ job' = [job EXCEPT ![t].pc = "fail"]
    /\ UNCHANGED <<rows, index, scan, request, swept>>

CreateFails(t) ==
    /\ job[t].pc = "create"
    /\ \/ job[t].name \in NamesOn(job[t].vol) /\ UNCHANGED boundVars
       \/ Fault
    /\ job' = [job EXCEPT ![t].pc = "fail"]
    /\ UNCHANGED <<arrayVars, rows, index, scan, request, swept>>

\* list_snapshots again, to learn the uuid of the new snapshot.
LookupUuid(t) ==
    /\ job[t].pc = "lookup"
    /\ \/ /\ job[t].name \notin NamesOn(job[t].vol)
          /\ job' = [job EXCEPT ![t].pc = "mark"]
       \/ \E s \in ontap[job[t].vol] :
             /\ s.name = job[t].name
             /\ job' = [job EXCEPT ![t].pc = "mark", ![t].uuid = s.uuid]
    /\ UNCHANGED <<arrayVars, rows, index, scan, request, boundVars, swept>>

\* UPDATE netapp_snapshots SET ... WHERE id=?: no effect if the row is gone.
SetRowOtherWords(j, status) ==
    {IF SameRow(r, j)
     THEN [r EXCEPT !.status = IF status = "failed" THEN "error" ELSE status]
     ELSE r : r \in rows}
SetRow(j, status) ==
    {IF SameRow(r, j) THEN [r EXCEPT !.status = status, !.uuid = j.uuid] ELSE r :
        r \in rows}

MarkDone(t) ==
    /\ job[t].pc = "mark"
    /\ rows' = SetRow(job[t], "done")
    /\ job' = [job EXCEPT ![t] = IF @.plan = NoPlan THEN Leave(@)
                                 ELSE [@ EXCEPT !.pc = "list"]]
    /\ UNCHANGED <<arrayVars, index, scan, request, boundVars, swept>>

MarkFailed(t) ==
    /\ job[t].pc = "fail"
    /\ rows' = SetRow(job[t], "failed")
    /\ job' = [job EXCEPT ![t] = Leave(@)]
    /\ UNCHANGED <<arrayVars, index, scan, request, boundVars, swept>>

-----------------------------------------------------------------------------
(* Retention: _apply_schedule_retention *)

\* sched_snaps of the code: the snapshots whose name marks them as p's.
PlanSnaps(p, v) == {s \in ontap[v] : Belongs(p, s)}

\* sched_snaps[retention_count:] of the list sorted newest first.
SurplusKeepingFewer(S, count) ==
    {s \in S : Cardinality({x \in S : x.uuid > s.uuid}) >= count - 1}
SurplusKeepingMore(S, count) ==
    {s \in S : Cardinality({x \in S : x.uuid > s.uuid}) > count}
SurplusKeepingOldest(S, count) ==
    {s \in S : Cardinality({x \in S : x.uuid < s.uuid}) >= count}
Surplus(S, count) ==
    {s \in S : Cardinality({x \in S : x.uuid > s.uuid}) >= count}

ListForRetention(t) ==
    /\ job[t].pc = "list"
    /\ LET found == PlanSnaps(job[t].plan, job[t].vol) IN
       job' = [job EXCEPT ![t].pc = "expire",
                          ![t].listed = {s.name : s \in found},
                          ![t].doomed = Surplus(found, Retention[job[t].plan]),
                          ![t].asof = taken,
                          ![t].clean = TRUE]
    /\ UNCHANGED <<arrayVars, rows, index, scan, request, boundVars, swept>>

\* Retention is skipped with a warning when the listing fails.
ListFails(t) ==
    /\ job[t].pc = "list"
    /\ Fault
    /\ job' = [job EXCEPT ![t] = Leave(@)]
    /\ UNCHANGED <<arrayVars, rows, index, scan, request, swept>>

\* to_delete is walked from the newest to the oldest.
NextDoomed(t, d) ==
    /\ job[t].pc = "expire"
    /\ d \in job[t].doomed
    /\ \A e \in job[t].doomed : e.uuid <= d.uuid

ExpireOnArray(t, d) ==
    /\ d \in ontap[job[t].vol]
    /\ ontap' = [ontap EXCEPT ![job[t].vol] = @ \ {d}]
    /\ expired' = [expired EXCEPT ![job[t].plan][job[t].vol] = @ \cup {d}]
    /\ UNCHANGED <<taken, withdrawn>>

ExpireOne(t, d) ==
    /\ NextDoomed(t, d)
    /\ ExpireOnArray(t, d)
    /\ job' = [job EXCEPT ![t].pc = "droprow",
                          ![t].victim = d.name,
                          ![t].listed = @ \ {d.name},
                          ![t].doomed = @ \ {d}]
    /\ UNCHANGED <<rows, index, scan, request, boundVars, swept>>

\* Deleted, but the poll of the deletion job fails: the row is left alone.
ExpireAnswerLost(t, d) ==
    /\ NextDoomed(t, d)
    /\ Fault
    /\ ExpireOnArray(t, d)
    /\ job' = [job EXCEPT ![t].doomed = @ \ {d}]
    /\ UNCHANGED <<rows, index, scan, request, swept>>

\* Locked (tamperproof), refused, or deleted by somebody else meanwhile.
ExpireFails(t, d) ==
    /\ NextDoomed(t, d)
    /\ \/ d \notin ontap[job[t].vol] /\ UNCHANGED boundVars
       \/ d \in ontap[job[t].vol] /\ Fault
    /\ job' = [job EXCEPT ![t].doomed = @ \ {d},
                          ![t].clean = @ /\ d \notin ontap[job[t].vol]]
    /\ UNCHANGED <<arrayVars, rows, index, scan, request, swept>>

\* DELETE ... WHERE snap_name=? AND mapping_id IN (... volume_uuid=?)
DropRow(t) ==
    /\ job[t].pc = "droprow"
    /\ rows' = {r \in rows : ~(r.name = job[t].victim /\ r.vol = job[t].vol)}
    /\ job' = [job EXCEPT ![t].pc = "expire", ![t].victim = NoName]
    /\ UNCHANGED <<arrayVars, index, scan, request, boundVars, swept>>

\* The rows the closing DB sync removes: all of the plan's rows, whatever
\* their datastore and status, whose name is not in the listing of this one.
Orphaned(j) ==
    {r \in rows : r.plan = j.plan /\ r.name.tail \in Matches[j.plan]
                  /\ r.name \notin j.listed}

SyncRows(t) ==
    /\ job[t].pc = "expire"
    /\ job[t].doomed = {}
    /\ rows' = rows \ Orphaned(job[t])
    /\ swept' = IF job[t].clean /\ swept[job[t].plan][job[t].vol] < job[t].asof
                THEN [swept EXCEPT ![job[t].plan][job[t].vol] = job[t].asof]
                ELSE swept
    /\ job' = [job EXCEPT ![t] = Leave(@)]
    /\ UNCHANGED <<arrayVars, index, scan, request, boundVars>>

-----------------------------------------------------------------------------
(* Detect & Scan: _scan_all_datastores, then gc_stale_snapshots *)

ScanStart ==
    /\ ScanEnabled
    /\ scan.pc = "idle"
    /\ scan' = [IdleScan EXCEPT !.pc = "import", !.todo = Volumes]
    /\ UNCHANGED <<arrayVars, rows, index, job, request, boundVars, swept>>

\* On to the next volume, or from the imports to the garbage collection.
ScanNext(v) ==
    scan' = IF scan.todo # {v}
            THEN [IdleScan EXCEPT !.pc = IF scan.pc = "import" THEN "import"
                                         ELSE "gc",
                                  !.todo = scan.todo \ {v}]
            ELSE IF scan.pc = "import"
            THEN [IdleScan EXCEPT !.pc = "gc", !.todo = Volumes]
            ELSE IdleScan

HasRow(v, n) == \E r \in rows : r.vol = v /\ r.name = n

\* The index entries that no row of the volume accounts for.
UnknownEntriesByName(v) == {n \in index[v] : \A r \in rows : r.name # n}
UnknownEntries(v) == {n \in index[v] : ~HasRow(v, n)}

\* _reconcile_index_into_db: every entry without a row gets a 'done' row.
ImportIndex(v) ==
    /\ scan.pc = "import"
    /\ v \in scan.todo
    /\ rows' = rows \cup
           {[run |-> 0, vol |-> v, name |-> n, plan |-> NoPlan,
             status |-> "done", uuid |-> 0] : n \in UnknownEntries(v)}
    /\ ScanNext(v)
    /\ UNCHANGED <<arrayVars, index, job, request, boundVars, swept>>

\* gc_stale_snapshots reads the names on ONTAP first ...
GcList(v) ==
    /\ scan.pc = "gc"
    /\ v \in scan.todo
    /\ scan' = [scan EXCEPT !.pc = "sweep", !.vol = v, !.live = NamesOn(v)]
    /\ UNCHANGED <<arrayVars, rows, index, job, request, boundVars, swept>>

\* An index or a volume that cannot be read is skipped.
ScanSkips(v) ==
    /\ scan.pc \in {"import", "gc"}
    /\ v \in scan.todo
    /\ Fault
    /\ ScanNext(v)
    /\ UNCHANGED <<arrayVars, rows, index, job, request, swept>>

\* ... and the rows, which it compares with those names, afterwards.
StaleButImported(v, live) ==
    {r \in rows : r.vol = v /\ r.status = "done" /\ r.run # 0
                  /\ r.name \notin live}
Stale(v, live) ==
    {r \in rows : r.vol = v /\ r.status = "done" /\ r.name \notin live}

GcSweep ==
    /\ scan.pc = "sweep"
    /\ rows' = rows \ Stale(scan.vol, scan.live)
    /\ ScanNext(scan.vol)
    /\ UNCHANGED <<arrayVars, index, job, request, boundVars, swept>>

-----------------------------------------------------------------------------
(* Deletions from outside the plans *)

\* A user or ONTAP removes a snapshot.
WithdrawOnArray(v, s) ==
    /\ s \in ontap[v]
    /\ ontap' = [ontap EXCEPT ![v] = @ \ {s}]
    /\ withdrawn' = [withdrawn EXCEPT ![v] = @ \cup {s}]
    /\ UNCHANGED <<taken, expired>>

\* _delete_snapshot with "native", or a deletion on the array that NaSnap
\* never hears of: no row is touched.
NativeDelete(v, s) ==
    /\ deletes < MaxDeletes
    /\ deletes' = deletes + 1
    /\ WithdrawOnArray(v, s)
    /\ UNCHANGED <<rows, index, job, scan, request, minute, runs, faults, swept>>

\* _delete_snapshot of a row: read it, ...
DeleteReads(r) ==
    /\ request.pc = "idle"
    /\ r \in rows
    /\ deletes < MaxDeletes
    /\ deletes' = deletes + 1
    /\ request' = [pc |-> "array", run |-> r.run, vol |-> r.vol,
                   name |-> r.name, uuid |-> r.uuid]
    /\ UNCHANGED <<arrayVars, rows, index, job, scan, minute, runs, faults, swept>>

\* ... delete the snapshot of the uuid it held, if it held one, ...
DeleteOnArray ==
    /\ request.pc = "array"
    /\ \/ request.uuid = 0 /\ UNCHANGED arrayVars
       \/ \E s \in ontap[request.vol] :
             s.uuid = request.uuid /\ WithdrawOnArray(request.vol, s)
    /\ request' = [request EXCEPT !.pc = "row"]
    /\ UNCHANGED <<rows, index, job, scan, boundVars, swept>>

\* ... give up with an error if that fails, ...
DeleteFails ==
    /\ request.pc = "array"
    /\ request.uuid # 0
    /\ \/ /\ \A s \in ontap[request.vol] : s.uuid # request.uuid
          /\ UNCHANGED boundVars
       \/ Fault
    /\ request' = IdleRequest
    /\ UNCHANGED <<arrayVars, rows, index, job, scan, swept>>

\* ... and delete the row.
DeleteRow ==
    /\ request.pc = "row"
    /\ rows' = {r \in rows : ~SameRow(r, request)}
    /\ request' = IdleRequest
    /\ UNCHANGED <<arrayVars, index, job, scan, boundVars, swept>>

-----------------------------------------------------------------------------
(* The process dies and is started again *)

\* All threads are daemons; rows keep their status, 'running' included.
Crash ==
    /\ Fault
    /\ job' = [t \in Threads |-> IdleJob]
    /\ scan' = IdleScan
    /\ request' = IdleRequest
    /\ UNCHANGED <<arrayVars, rows, index, swept>>

-----------------------------------------------------------------------------

JobNext(t) ==
    \/ \E p \in Plans : StartRun(t, p)
    \/ \E v \in Volumes, tail \in ManualTails : StartManual(t, v, tail)
    \/ \E v \in Volumes : OpenStore(t, v)
    \/ JobFailsEarly(t)
    \/ InsertRow(t)
    \/ UpdateIndex(t)
    \/ UpdateIndexFails(t)
    \/ CreateOk(t)
    \/ CreateAnswerLost(t)
    \/ CreateFails(t)
    \/ LookupUuid(t)
    \/ MarkDone(t)
    \/ MarkFailed(t)
    \/ ListForRetention(t)
    \/ ListFails(t)
    \/ \E d \in job[t].doomed :
          \/ ExpireOne(t, d)
          \/ ExpireAnswerLost(t, d)
          \/ ExpireFails(t, d)
    \/ DropRow(t)
    \/ SyncRows(t)

ScanStep ==
    \/ ScanStart
    \/ \E v \in Volumes : ImportIndex(v) \/ GcList(v)
    \/ GcSweep

DeleteNext ==
    \/ \E v \in Volumes : \E s \in ontap[v] : NativeDelete(v, s)
    \/ \E r \in rows : DeleteReads(r)
    \/ DeleteOnArray
    \/ DeleteFails
    \/ DeleteRow

Next ==
    \/ Tick
    \/ \E t \in Threads : JobNext(t)
    \/ ScanStep
    \/ \E v \in Volumes : ScanSkips(v)
    \/ DeleteNext
    \/ Crash

Spec == Init /\ [][Next]_vars

\* The hourly scan thread is a loop that never ends: it is the only actor
\* whose steps are certain to be taken again and again.
FairSpec == Spec /\ WF_vars(ScanStep)

-----------------------------------------------------------------------------
(* Properties *)

JobType ==
    [pc : {"idle", "next", "insert", "index", "create", "lookup", "mark",
           "fail", "list", "expire", "droprow"},
     plan : Owners, todo : SUBSET Volumes, run : Nat,
     vol : Volumes \cup {NoVolume}, name : Names \cup {NoName}, uuid : Nat,
     listed : SUBSET Names, doomed : SUBSET Snaps,
     victim : Names \cup {NoName}, asof : Nat, clean : BOOLEAN]

ScanType ==
    [pc : {"idle", "import", "gc", "sweep"}, todo : SUBSET Volumes,
     vol : Volumes \cup {NoVolume}, live : SUBSET Names]

RequestType ==
    [pc : {"idle", "array", "row"}, run : Nat, vol : Volumes \cup {NoVolume},
     name : Names \cup {NoName}, uuid : Nat]

\* Every variable has its type: in particular a row or a snapshot is never
\* filed under a name or a volume that the code does not produce.
TypeOK ==
    /\ ontap \in [Volumes -> SUBSET Snaps]
    /\ rows \subseteq Rows
    /\ index \in [Volumes -> SUBSET Names]
    /\ job \in [Threads -> JobType]
    /\ scan \in ScanType
    /\ request \in RequestType
    /\ minute \in Nat /\ taken \in Nat /\ runs \in Nat
    /\ faults \in Nat /\ deletes \in Nat
    /\ withdrawn \in [Volumes -> SUBSET Snaps]
    /\ expired \in [Plans -> [Volumes -> SUBSET Snaps]]
    /\ swept \in [Plans -> [Volumes -> Nat]]

Policy == INSTANCE RetentionPolicy
          WITH ontap <- ontap, withdrawn <- withdrawn, expired <- expired

\* Every snapshot that retention of a plan deleted was, and still is, covered:
\* Retention[p] newer snapshots of the plan are on the volume or were taken
\* away by somebody else.  So however runs of the plan overlap, crash or lose
\* answers, retention never eats into the newest Retention[p] snapshots
\* (_apply_schedule_retention).  Holds for plans with TailsApart.
ExpiredCovered ==
    \A p \in Plans, v \in Volumes : \A s \in expired[p][v] :
        Cardinality(Policy!KeptNewer(p, v, s)) >= Retention[p]

\* What ExpiredCovered needs of the plans: no name counts for two of them.
\* The code does not see to it: suffixes are what users call their plans.
TailsApart == \A p, q \in Plans : p # q => Matches[p] \cap Matches[q] = {}

\* A retention pass that met no error leaves at most Retention[p] of the
\* snapshots that existed when it listed the volume, and no later step of any
\* actor brings more back (_apply_schedule_retention).
SweptBounded ==
    \A p \in Plans, v \in Volumes :
        Cardinality({s \in PlanSnaps(p, v) : s.uuid <= swept[p][v]})
            <= Retention[p]

\* The catalogue keeps the promise of RetentionPolicy: each step takes,
\* withdraws or rightfully expires one snapshot, or touches none.
ImplementsPolicy == Policy!PolicySpec

NamesInUse == [minute : 0 .. MaxMinute, tail : Tails]

ListedButGone(v, n) ==
    /\ \E r \in rows : r.vol = v /\ r.name = n /\ r.status = "done"
    /\ n \notin NamesOn(v)

\* A finished row whose snapshot is gone is removed in the end, whichever of
\* the lost answers, crashes and deletions on the array left it behind.
StaleRowsCollected ==
    \A v \in Volumes, n \in NamesInUse :
        ListedButGone(v, n) ~> ~ListedButGone(v, n)

\* A snapshot on ONTAP that the index of its datastore records gets a row
\* again, whatever deleted its row.
IndexedGetsRow ==
    \A v \in Volumes, n \in NamesInUse :
        []<>(n \in NamesOn(v) \cap index[v] => HasRow(v, n))
=============================================================================
