---------------------------- MODULE JobLifecycle ----------------------------
(***************************************************************************)
(* The life of a NaSnap job: its row in netapp_jobs, the thread that       *)
(* executes it, the registry of threads and cancel events                  *)
(* (core/_job_registry.py), and the actors that change them:               *)
(*   - the request worker (one synchronous gunicorn worker), which starts, *)
(*     cancels, deletes and cleans up jobs (api/snapshots.py);             *)
(*   - plan runs (api/schedules.py), which start snapshot jobs;            *)
(*   - the pool of bulk migrations (core/migrate_engine.py);               *)
(*   - background actions that run in their caller's thread and are never  *)
(*     registered (run_as_job of core/_helpers.py, DR failovers);          *)
(*   - a crash of the process and reconcile_stuck_jobs_on_boot             *)
(*     (api/dr.py) when it starts again.                                   *)
(* What a job does is left out, except that it may reach checkpoints       *)
(* (check_cancel) and that it ends in one of three ways.                   *)
(* A definition in front of another one and named after it is a slip the   *)
(* code could have made; no action uses it.                                *)
(***************************************************************************)
EXTENDS Naturals, FiniteSets

CONSTANTS
    Jobs,       \* ids of netapp_jobs
    NoJob,
    PoolWidth,  \* max_parallel of the bulk migration
    MaxFaults   \* bound on failing jobs, missing mappings and crashes

\* "none": the job does not exist yet.
Kinds == {"none", "request", "plan", "pool", "unregistered"}

ASSUME JobsAssumption ==
    /\ NoJob \notin Jobs
    /\ PoolWidth \in Nat \ {0}
    /\ MaxFaults \in Nat

VARIABLES
    kind,       \* [Jobs -> Kinds]: who runs the job
    row,        \* [Jobs -> status]: netapp_jobs.status; "none" before the
                \* INSERT, "deleted" after the DELETE
    launch,     \* [Jobs -> ...]: how far the starter of the job is
    thread,     \* [Jobs -> ...]: the thread that executes the job
    registry,   \* SUBSET Jobs: the keys of _threads and _events
    flagged,    \* SUBSET Jobs: the cancel events that are set
    web,        \* the request worker: what it does and for which job
    up,         \* BOOLEAN: the process runs
    faults      \* how much of the bound is used

vars == <<kind, row, launch, thread, registry, flagged, web, up, faults>>
registryVars == <<registry, flagged>>

Active == {"running", "cancelling"}
Final == {"done", "failed", "cancelled"}

IdleWeb == [pc |-> "idle", job |-> NoJob]

Init ==
    /\ kind = [j \in Jobs |-> "none"]
    /\ row = [j \in Jobs |-> "none"]
    /\ launch = [j \in Jobs |-> "none"]
    /\ thread = [j \in Jobs |-> "none"]
    /\ registry = {}
    /\ flagged = {}
    /\ web = IdleWeb
    /\ up = TRUE
    /\ faults = 0

Fault == faults < MaxFaults /\ faults' = faults + 1

\* UPDATE netapp_jobs SET status=...: no effect on a row that is gone.
SetRow(j, status) ==
    row' = [row EXCEPT ![j] = IF @ = "deleted" THEN @ ELSE status]

-----------------------------------------------------------------------------
(* Starting a job *)

\* INSERT INTO netapp_jobs
Insert(j, k, status) ==
    /\ row[j] = "none"
    /\ kind' = [kind EXCEPT ![j] = k]
    /\ row' = [row EXCEPT ![j] = status]

\* A request inserts the row; the worker is busy until it registered the
\* thread.
InsertByRequest(j) ==
    /\ web = IdleWeb
    /\ Insert(j, "request", "running")
    /\ launch' = [launch EXCEPT ![j] = "inserted"]
    /\ web' = [pc |-> "launch", job |-> j]
    /\ UNCHANGED <<thread, registryVars, up, faults>>

\* _execute_single_ds inserts the row before it looks anything up.
InsertByPlan(j) ==
    /\ Insert(j, "plan", "running")
    /\ launch' = [launch EXCEPT ![j] = "inserted"]
    /\ UNCHANGED <<thread, registryVars, web, up, faults>>

\* The mapping of the datastore is gone: the run goes on with the next
\* datastore and leaves the row as it is.
PlanSkips(j) ==
    /\ kind[j] = "plan"
    /\ launch[j] = "inserted"
    /\ Fault
    /\ launch' = [launch EXCEPT ![j] = "skipped"]
    /\ UNCHANGED <<kind, row, thread, registryVars, web, up>>

StartThread(j) ==
    /\ launch[j] = "inserted"
    /\ launch' = [launch EXCEPT ![j] = "started"]
    /\ thread' = [thread EXCEPT ![j] = "working"]
    /\ UNCHANGED <<kind, row, registryVars, web, up, faults>>

\* register comes after start: the thread may be gone already.
RegisterOnlyPlans(j) ==
    /\ launch[j] = "started"
    /\ launch' = [launch EXCEPT ![j] = "registered"]
    /\ registry' = IF kind[j] = "plan" THEN registry \cup {j} ELSE registry
    /\ flagged' = flagged \ {j}
    /\ web' = IF web.pc = "launch" /\ web.job = j THEN IdleWeb ELSE web
    /\ UNCHANGED <<kind, row, thread, up, faults>>
Register(j) ==
    /\ launch[j] = "started"
    /\ launch' = [launch EXCEPT ![j] = "registered"]
    /\ registry' = registry \cup {j}
    /\ flagged' = flagged \ {j}
    /\ web' = IF web.pc = "launch" /\ web.job = j THEN IdleWeb ELSE web
    /\ UNCHANGED <<kind, row, thread, up, faults>>

\* start_bulk_migrate inserts a row per VM and hands the jobs to the pool.
InsertIntoPool(j) ==
    /\ web = IdleWeb
    /\ Insert(j, "pool", "running")
    /\ thread' = [thread EXCEPT ![j] = "queued"]
    /\ UNCHANGED <<launch, registryVars, web, up, faults>>

\* A VM that no node of the cluster runs gets a failed row and no work.
PoolRejects(j) ==
    /\ web = IdleWeb
    /\ Fault
    /\ Insert(j, "pool", "failed")
    /\ UNCHANGED <<launch, thread, registryVars, web, up>>

\* A worker of the pool picks the job up, whatever became of its row.
PoolStarts(j) ==
    /\ thread[j] = "queued"
    /\ Cardinality({k \in Jobs : kind[k] = "pool"
                                  /\ thread[k] \in {"working", "ending"}}) < PoolWidth
    /\ thread' = [thread EXCEPT ![j] = "working"]
    /\ registry' = registry \cup {j}
    /\ flagged' = flagged \ {j}
    /\ UNCHANGED <<kind, row, launch, web, up, faults>>

\* run_as_job and its kin: row and thread, but no entry in the registry.
RunUnregistered(j) ==
    /\ Insert(j, "unregistered", "running")
    /\ thread' = [thread EXCEPT ![j] = "working"]
    /\ UNCHANGED <<launch, registryVars, web, up, faults>>

-----------------------------------------------------------------------------
(* Executing a job *)

\* The last UPDATE of the row; the finally clause is still to come.
EndsAs(j, status) ==
    /\ thread[j] = "working"
    /\ SetRow(j, status)
    /\ thread' = [thread EXCEPT ![j] =
                    IF kind[j] = "unregistered" THEN "gone" ELSE "ending"]
    /\ UNCHANGED <<kind, launch, registryVars, web, up>>

JobDone(j) == EndsAs(j, "done") /\ UNCHANGED faults

JobFails(j) == EndsAs(j, "failed") /\ Fault

\* check_cancel raises JobCancelledError, whose handler sets the row.  A job
\* may end before it comes to a check, and the snapshots of a plan have none.
JobCancelled(j) ==
    /\ kind[j] # "plan"
    /\ j \in flagged
    /\ EndsAs(j, "cancelled")
    /\ UNCHANGED faults

Unregister(j) ==
    /\ thread[j] = "ending"
    /\ thread' = [thread EXCEPT ![j] = "gone"]
    /\ registry' = registry \ {j}
    /\ flagged' = flagged \ {j}
    /\ UNCHANGED <<kind, row, launch, web, up, faults>>

-----------------------------------------------------------------------------
(* Requests about a job *)

\* thread_alive of the registry.
ThreadAlive(j) == j \in registry /\ thread[j] \in {"working", "ending"}

\* _cancel_job: only running jobs, says the row ...
CancelReads(j) ==
    /\ web = IdleWeb
    /\ row[j] \in Active
    /\ web' = [pc |-> "cancel", job |-> j]
    /\ UNCHANGED <<kind, row, launch, thread, registryVars, up, faults>>

\* ... is its thread alive? ...
CancelLooksUp ==
    /\ web.pc = "cancel"
    /\ web' = [web EXCEPT !.pc = IF ThreadAlive(web.job) THEN "signal"
                                 ELSE "stale"]
    /\ UNCHANGED <<kind, row, launch, thread, registryVars, up, faults>>

\* ... if so set its event, if there still is one, ...
CancelSignalsAnyway ==
    /\ web.pc = "signal"
    /\ flagged' = flagged \cup {web.job}
    /\ web' = [web EXCEPT !.pc = "mark"]
    /\ UNCHANGED <<kind, row, launch, thread, registry, up, faults>>
CancelSignals ==
    /\ web.pc = "signal"
    /\ flagged' = flagged \cup ({web.job} \cap registry)
    /\ web' = [web EXCEPT !.pc = "mark"]
    /\ UNCHANGED <<kind, row, launch, thread, registry, up, faults>>

\* ... and mark the row; ...
CancelMarks ==
    /\ web.pc = "mark"
    /\ SetRow(web.job, "cancelling")
    /\ web' = IdleWeb
    /\ UNCHANGED <<kind, launch, thread, registryVars, up, faults>>

\* ... if not, the row alone is left to be cleaned up.
CancelStale ==
    /\ web.pc = "stale"
    /\ SetRow(web.job, "cancelled")
    /\ web' = IdleWeb
    /\ UNCHANGED <<kind, launch, thread, registryVars, up, faults>>

\* _delete_job refuses rows that are running or cancelling.
DeleteJobUnlessRunning(j) ==
    /\ web = IdleWeb
    /\ row[j] \in Final \cup {"cancelling"}
    /\ row' = [row EXCEPT ![j] = "deleted"]
    /\ UNCHANGED <<kind, launch, thread, registryVars, web, up, faults>>
DeleteJob(j) ==
    /\ web = IdleWeb
    /\ row[j] \in Final
    /\ row' = [row EXCEPT ![j] = "deleted"]
    /\ UNCHANGED <<kind, launch, thread, registryVars, web, up, faults>>

\* _cleanup_jobs removes the done and failed ones in one statement.
CleanupJobs ==
    /\ web = IdleWeb
    /\ \E j \in Jobs : row[j] \in {"done", "failed"}
    /\ row' = [j \in Jobs |->
                 IF row[j] \in {"done", "failed"} THEN "deleted" ELSE row[j]]
    /\ UNCHANGED <<kind, launch, thread, registryVars, web, up, faults>>

-----------------------------------------------------------------------------
(* Crash and boot *)

\* The threads are daemons and the registry is memory: only the rows stay.
Crash ==
    /\ Fault
    /\ up' = FALSE
    /\ launch' = [j \in Jobs |-> IF launch[j] = "none" THEN "none" ELSE "lost"]
    /\ thread' = [j \in Jobs |-> IF thread[j] = "none" THEN "none" ELSE "gone"]
    /\ registry' = {}
    /\ flagged' = {}
    /\ web' = IdleWeb
    /\ UNCHANGED <<kind, row>>

\* The rows reconcile_stuck_jobs_on_boot finds.
StuckRegistered == {j \in Jobs : row[j] = "running" /\ kind[j] # "unregistered"}
StuckJobs == {j \in Jobs : row[j] = "running"}

\* It runs before the first request and before the schedulers start.
Boot ==
    /\ ~up
    /\ up' = TRUE
    /\ row' = [j \in Jobs |-> IF j \in StuckJobs THEN "failed" ELSE row[j]]
    /\ UNCHANGED <<kind, launch, thread, registryVars, web, faults>>

-----------------------------------------------------------------------------

Launch(j) == StartThread(j) \/ Register(j) \/ PoolStarts(j)

Execute(j) == JobDone(j) \/ JobFails(j) \/ JobCancelled(j) \/ Unregister(j)

JobNext(j) ==
    \/ InsertByRequest(j) \/ InsertByPlan(j) \/ InsertIntoPool(j)
    \/ PoolRejects(j)
    \/ RunUnregistered(j)
    \/ PlanSkips(j)
    \/ Launch(j)
    \/ Execute(j)

Cancel == CancelLooksUp \/ CancelSignals \/ CancelMarks \/ CancelStale

RequestNext ==
    \/ \E j \in Jobs : CancelReads(j) \/ DeleteJob(j)
    \/ Cancel
    \/ CleanupJobs

Next ==
    \/ /\ up
       /\ \/ \E j \in Jobs : JobNext(j)
          \/ RequestNext
          \/ Crash
    \/ Boot

Spec == Init /\ [][Next]_vars

\* Started threads and requests go on (every call they make has a timeout),
\* and the container restarts ("unless-stopped").  Users
\* need not do anything, and nothing ever has to fail.
Fairness ==
    /\ \A j \in Jobs :
          /\ WF_vars(up /\ Launch(j))
          /\ WF_vars(up /\ (JobDone(j) \/ JobCancelled(j) \/ Unregister(j)))
    /\ WF_vars(up /\ Cancel)
    /\ WF_vars(Boot)

FairSpec == Spec /\ Fairness

-----------------------------------------------------------------------------
(* Properties *)

\* Every variable has its type; in particular an event is set only for a
\* registered job, so that a cancel request always finds its thread.
TypeOK ==
    /\ kind \in [Jobs -> Kinds]
    /\ row \in [Jobs -> Active \cup Final \cup {"none", "deleted"}]
    /\ launch \in [Jobs -> {"none", "inserted", "skipped", "started",
                            "registered", "lost"}]
    /\ thread \in [Jobs -> {"none", "queued", "working", "ending", "gone"}]
    /\ registry \subseteq Jobs
    /\ flagged \subseteq registry
    /\ web \in [pc : {"idle", "launch", "cancel", "signal", "mark", "stale"},
                job : Jobs \cup {NoJob}]
    /\ up \in BOOLEAN
    /\ faults \in Nat

\* The work of the job is still to come or under way.
AtWork(j) ==
    thread[j] \in {"queued", "working"} \/ launch[j] = "inserted"

\* The jobs a request started and registered before the next request: the
\* three properties below hold for no other kind.
Requested(j) == kind[j] = "request"

\* A job is marked as cancelled behind its thread's back only when no thread
\* works on it ("Thread is dead but status stuck at running").
StaleCancelOnlyDead ==
    [][\A j \in Jobs :
          Requested(j) /\ web.pc = "stale" /\ web.job = j /\ row'[j] # row[j]
              => ~AtWork(j)]_vars

\* The row of a job that still works is never deleted ("Cannot delete running
\* jobs - cancel first").
RowOfLiveJobKept ==
    [][\A j \in Jobs :
          Requested(j) /\ row[j] # "deleted" /\ row'[j] = "deleted"
              => ~AtWork(j)]_vars

\* No job shows as running for ever, crashes included.  The exception is the
\* job of a plan whose datastore mapping is gone (PlanSkips).
RunningEnds ==
    \A j \in Jobs :
        row[j] = "running" ~> row[j] # "running" \/ launch[j] = "skipped"
=============================================================================
