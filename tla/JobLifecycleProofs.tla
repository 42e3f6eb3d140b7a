-------------------------- MODULE JobLifecycleProofs --------------------------
(***************************************************************************)
(* Proofs about JobLifecycle, for all jobs, widths of the pool and bounds: *)
(* a cancellation that finds no thread marks only jobs nobody works on     *)
(* (StaleCancelOnlyDead), and the row of a job at work is not deleted      *)
(* (RowOfLiveJobKept), both for the jobs of requests.  What makes this     *)
(* true is that the one worker is busy with a job until its thread is      *)
(* registered: JobInv relates the worker, the thread and the registry.     *)
(***************************************************************************)
EXTENDS JobLifecycle, TLAPS

USE JobsAssumption

-----------------------------------------------------------------------------
(* The inductive invariant *)

\* Until its thread is registered, a job keeps the worker busy; from then on
\* its thread can be looked up.  A final row is that of a job at its end.
RequestedGood(j) ==
    Requested(j) =>
        /\ row[j] # "none"
        /\ thread[j] # "queued"
        /\ launch[j] \in {"inserted", "started"} => web.pc = "launch" /\ web.job = j
        /\ launch[j] = "inserted" => row[j] = "running" /\ thread[j] = "none"
        /\ thread[j] \in {"working", "ending"} => launch[j] = "started" \/ j \in registry
        /\ row[j] \in Final \cup {"deleted"} => thread[j] # "working"

\* Nothing works on a job without a row, nor while the process is down.
RestGood(j) ==
    /\ row[j] = "none" => thread[j] = "none" /\ launch[j] = "none"
    /\ ~up => thread[j] \in {"none", "gone"} /\ launch[j] \in {"none", "lost"}

\* The worker is at a job that exists; and at a stale one only if it is dead.
WebGood ==
    /\ ~up => web = IdleWeb
    /\ web.pc # "idle" => web.job \in Jobs /\ row[web.job] # "none"
    /\ web.pc = "stale" /\ Requested(web.job) => thread[web.job] # "working"

JobInv ==
    /\ TypeOK
    /\ \A j \in Jobs : RequestedGood(j)
    /\ \A j \in Jobs : RestGood(j)
    /\ WebGood

LEMMA InitGood == Init => JobInv
BY DEF Init, JobInv, TypeOK, RequestedGood, RestGood, WebGood, Requested, IdleWeb,
       Kinds, Active, Final

-----------------------------------------------------------------------------
(* Every step keeps it: starting a job *)

\* A request inserts a row only when the worker is free, and stays with the job;
\* no other starter makes the job one of a request.
LEMMA InsertByRequestKeeps ==
    ASSUME JobInv, NEW j \in Jobs, InsertByRequest(j), up
    PROVE  JobInv'
<1> USE DEF JobInv, InsertByRequest, Insert, IdleWeb
<1>1. TypeOK'
  BY DEF TypeOK, Kinds, Active, Final, registryVars
<1>2. ASSUME NEW k \in Jobs PROVE RequestedGood(k)'
  BY DEF TypeOK, RequestedGood, RestGood, WebGood, Requested, registryVars, Active, Final
<1>3. ASSUME NEW k \in Jobs PROVE RestGood(k)'
  BY DEF TypeOK, RestGood, registryVars, Active, Final, WebGood
<1>4. WebGood'
  BY DEF TypeOK, RestGood, RequestedGood, WebGood, Requested, registryVars, Active, Final
<1>5. QED
  BY <1>1, <1>2, <1>3, <1>4

LEMMA InsertByPlanKeeps ==
    ASSUME JobInv, NEW j \in Jobs, InsertByPlan(j), up
    PROVE  JobInv'
<1> USE DEF JobInv, InsertByPlan, Insert, IdleWeb
<1>1. TypeOK'
  BY DEF TypeOK, Kinds, Active, Final, registryVars
<1>2. ASSUME NEW k \in Jobs PROVE RequestedGood(k)'
  BY DEF TypeOK, RequestedGood, RestGood, WebGood, Requested, registryVars, Active, Final
<1>3. ASSUME NEW k \in Jobs PROVE RestGood(k)'
  BY DEF TypeOK, RestGood, registryVars, Active, Final, WebGood
<1>4. WebGood'
  BY DEF TypeOK, RestGood, RequestedGood, WebGood, Requested, registryVars, Active, Final
<1>5. QED
  BY <1>1, <1>2, <1>3, <1>4

LEMMA InsertIntoPoolKeeps ==
    ASSUME JobInv, NEW j \in Jobs, InsertIntoPool(j), up
    PROVE  JobInv'
<1> USE DEF JobInv, InsertIntoPool, Insert, IdleWeb
<1>1. TypeOK'
  BY DEF TypeOK, Kinds, Active, Final, registryVars
<1>2. ASSUME NEW k \in Jobs PROVE RequestedGood(k)'
  BY DEF TypeOK, RequestedGood, RestGood, WebGood, Requested, registryVars, Active, Final
<1>3. ASSUME NEW k \in Jobs PROVE RestGood(k)'
  BY DEF TypeOK, RestGood, registryVars, Active, Final, WebGood
<1>4. WebGood'
  BY DEF TypeOK, RestGood, RequestedGood, WebGood, Requested, registryVars, Active, Final
<1>5. QED
  BY <1>1, <1>2, <1>3, <1>4

LEMMA PoolRejectsKeeps ==
    ASSUME JobInv, NEW j \in Jobs, PoolRejects(j), up
    PROVE  JobInv'
<1> USE DEF JobInv, PoolRejects, Insert, Fault, IdleWeb
<1>1. TypeOK'
  BY DEF TypeOK, Kinds, Active, Final, registryVars
<1>2. ASSUME NEW k \in Jobs PROVE RequestedGood(k)'
  BY DEF TypeOK, RequestedGood, RestGood, WebGood, Requested, registryVars, Active, Final
<1>3. ASSUME NEW k \in Jobs PROVE RestGood(k)'
  BY DEF TypeOK, RestGood, registryVars, Active, Final, WebGood
<1>4. WebGood'
  BY DEF TypeOK, RestGood, RequestedGood, WebGood, Requested, registryVars, Active, Final
<1>5. QED
  BY <1>1, <1>2, <1>3, <1>4

LEMMA RunUnregisteredKeeps ==
    ASSUME JobInv, NEW j \in Jobs, RunUnregistered(j), up
    PROVE  JobInv'
<1> USE DEF JobInv, RunUnregistered, Insert, IdleWeb
<1>1. TypeOK'
  BY DEF TypeOK, Kinds, Active, Final, registryVars
<1>2. ASSUME NEW k \in Jobs PROVE RequestedGood(k)'
  BY DEF TypeOK, RequestedGood, RestGood, WebGood, Requested, registryVars, Active, Final
<1>3. ASSUME NEW k \in Jobs PROVE RestGood(k)'
  BY DEF TypeOK, RestGood, registryVars, Active, Final, WebGood
<1>4. WebGood'
  BY DEF TypeOK, RestGood, RequestedGood, WebGood, Requested, registryVars, Active, Final
<1>5. QED
  BY <1>1, <1>2, <1>3, <1>4

LEMMA PlanSkipsKeeps ==
    ASSUME JobInv, NEW j \in Jobs, PlanSkips(j), up
    PROVE  JobInv'
<1> USE DEF JobInv, PlanSkips, Fault, IdleWeb
<1>1. TypeOK'
  BY DEF TypeOK, Kinds, Active, Final, registryVars
<1>2. ASSUME NEW k \in Jobs PROVE RequestedGood(k)'
  BY DEF TypeOK, RequestedGood, RestGood, WebGood, Requested, registryVars, Active, Final
<1>3. ASSUME NEW k \in Jobs PROVE RestGood(k)'
  BY DEF TypeOK, RestGood, registryVars, Active, Final, WebGood
<1>4. WebGood'
  BY DEF TypeOK, RestGood, RequestedGood, WebGood, Requested, registryVars, Active, Final
<1>5. QED
  BY <1>1, <1>2, <1>3, <1>4

\* A thread starts while the worker is with its job, and is found from the
\* moment the worker leaves it.
LEMMA StartThreadKeeps ==
    ASSUME JobInv, NEW j \in Jobs, StartThread(j), up
    PROVE  JobInv'
<1> USE DEF JobInv, StartThread, IdleWeb
<1>1. TypeOK'
  BY DEF TypeOK, Kinds, Active, Final, registryVars
<1>2. ASSUME NEW k \in Jobs PROVE RequestedGood(k)'
  BY DEF TypeOK, RequestedGood, RestGood, WebGood, Requested, registryVars, Active, Final
<1>3. ASSUME NEW k \in Jobs PROVE RestGood(k)'
  BY DEF TypeOK, RestGood, registryVars, Active, Final, WebGood
<1>4. WebGood'
  BY DEF TypeOK, RestGood, RequestedGood, WebGood, Requested, registryVars, Active, Final
<1>5. QED
  BY <1>1, <1>2, <1>3, <1>4

LEMMA RegisterKeeps ==
    ASSUME JobInv, NEW j \in Jobs, Register(j), up
    PROVE  JobInv'
<1> USE DEF JobInv, Register, IdleWeb
<1>1. TypeOK'
  BY DEF TypeOK, Kinds, Active, Final, registryVars
<1>2. ASSUME NEW k \in Jobs PROVE RequestedGood(k)'
  BY DEF TypeOK, RequestedGood, RestGood, WebGood, Requested, registryVars, Active, Final
<1>3. ASSUME NEW k \in Jobs PROVE RestGood(k)'
  BY DEF TypeOK, RestGood, registryVars, Active, Final, WebGood
<1>4. WebGood'
  BY DEF TypeOK, RestGood, RequestedGood, WebGood, Requested, registryVars, Active, Final
<1>5. QED
  BY <1>1, <1>2, <1>3, <1>4

LEMMA PoolStartsKeeps ==
    ASSUME JobInv, NEW j \in Jobs, PoolStarts(j), up
    PROVE  JobInv'
<1> USE DEF JobInv, PoolStarts, IdleWeb
<1>1. TypeOK'
  BY DEF TypeOK, Kinds, Active, Final, registryVars
<1>2. ASSUME NEW k \in Jobs PROVE RequestedGood(k)'
  BY DEF TypeOK, RequestedGood, RestGood, WebGood, Requested, registryVars, Active, Final
<1>3. ASSUME NEW k \in Jobs PROVE RestGood(k)'
  BY DEF TypeOK, RestGood, registryVars, Active, Final, WebGood
<1>4. WebGood'
  BY DEF TypeOK, RestGood, RequestedGood, WebGood, Requested, registryVars, Active, Final
<1>5. QED
  BY <1>1, <1>2, <1>3, <1>4

-----------------------------------------------------------------------------
(* Every step keeps it: executing a job *)

\* The row becomes final when the thread has no work left.
LEMMA JobDoneKeeps ==
    ASSUME JobInv, NEW j \in Jobs, JobDone(j), up
    PROVE  JobInv'
<1> USE DEF JobInv, JobDone, EndsAs, SetRow, IdleWeb
<1>1. TypeOK'
  BY DEF TypeOK, Kinds, Active, Final, registryVars
<1>2. ASSUME NEW k \in Jobs PROVE RequestedGood(k)'
  BY DEF TypeOK, RequestedGood, RestGood, WebGood, Requested, registryVars, Active, Final
<1>3. ASSUME NEW k \in Jobs PROVE RestGood(k)'
  BY DEF TypeOK, RestGood, registryVars, Active, Final, WebGood
<1>4. WebGood'
  BY DEF TypeOK, RestGood, RequestedGood, WebGood, Requested, registryVars, Active, Final
<1>5. QED
  BY <1>1, <1>2, <1>3, <1>4

LEMMA JobFailsKeeps ==
    ASSUME JobInv, NEW j \in Jobs, JobFails(j), up
    PROVE  JobInv'
<1> USE DEF JobInv, JobFails, EndsAs, SetRow, Fault, IdleWeb
<1>1. TypeOK'
  BY DEF TypeOK, Kinds, Active, Final, registryVars
<1>2. ASSUME NEW k \in Jobs PROVE RequestedGood(k)'
  BY DEF TypeOK, RequestedGood, RestGood, WebGood, Requested, registryVars, Active, Final
<1>3. ASSUME NEW k \in Jobs PROVE RestGood(k)'
  BY DEF TypeOK, RestGood, registryVars, Active, Final, WebGood
<1>4. WebGood'
  BY DEF TypeOK, RestGood, RequestedGood, WebGood, Requested, registryVars, Active, Final
<1>5. QED
  BY <1>1, <1>2, <1>3, <1>4

LEMMA JobCancelledKeeps ==
    ASSUME JobInv, NEW j \in Jobs, JobCancelled(j), up
    PROVE  JobInv'
<1> USE DEF JobInv, JobCancelled, EndsAs, SetRow, IdleWeb
<1>1. TypeOK'
  BY DEF TypeOK, Kinds, Active, Final, registryVars
<1>2. ASSUME NEW k \in Jobs PROVE RequestedGood(k)'
  BY DEF TypeOK, RequestedGood, RestGood, WebGood, Requested, registryVars, Active, Final
<1>3. ASSUME NEW k \in Jobs PROVE RestGood(k)'
  BY DEF TypeOK, RestGood, registryVars, Active, Final, WebGood
<1>4. WebGood'
  BY DEF TypeOK, RestGood, RequestedGood, WebGood, Requested, registryVars, Active, Final
<1>5. QED
  BY <1>1, <1>2, <1>3, <1>4

\* The thread leaves the registry and is gone, in one.
LEMMA UnregisterKeeps ==
    ASSUME JobInv, NEW j \in Jobs, Unregister(j), up
    PROVE  JobInv'
<1> USE DEF JobInv, Unregister, IdleWeb
<1>1. TypeOK'
  BY DEF TypeOK, Kinds, Active, Final, registryVars
<1>2. ASSUME NEW k \in Jobs PROVE RequestedGood(k)'
  BY DEF TypeOK, RequestedGood, RestGood, WebGood, Requested, registryVars, Active, Final
<1>3. ASSUME NEW k \in Jobs PROVE RestGood(k)'
  BY DEF TypeOK, RestGood, registryVars, Active, Final, WebGood
<1>4. WebGood'
  BY DEF TypeOK, RestGood, RequestedGood, WebGood, Requested, registryVars, Active, Final
<1>5. QED
  BY <1>1, <1>2, <1>3, <1>4

-----------------------------------------------------------------------------
(* Every step keeps it: requests about a job *)

LEMMA CancelReadsKeeps ==
    ASSUME JobInv, NEW j \in Jobs, CancelReads(j), up
    PROVE  JobInv'
<1> USE DEF JobInv, CancelReads, IdleWeb
<1>1. TypeOK'
  BY DEF TypeOK, Kinds, Active, Final, registryVars
<1>2. ASSUME NEW k \in Jobs PROVE RequestedGood(k)'
  BY DEF TypeOK, RequestedGood, RestGood, WebGood, Requested, registryVars, Active, Final
<1>3. ASSUME NEW k \in Jobs PROVE RestGood(k)'
  BY DEF TypeOK, RestGood, registryVars, Active, Final, WebGood
<1>4. WebGood'
  BY DEF TypeOK, RestGood, RequestedGood, WebGood, Requested, registryVars, Active, Final
<1>5. QED
  BY <1>1, <1>2, <1>3, <1>4

LEMMA DeleteJobKeeps ==
    ASSUME JobInv, NEW j \in Jobs, DeleteJob(j), up
    PROVE  JobInv'
<1> USE DEF JobInv, DeleteJob, IdleWeb
<1>1. TypeOK'
  BY DEF TypeOK, Kinds, Active, Final, registryVars
<1>2. ASSUME NEW k \in Jobs PROVE RequestedGood(k)'
  BY DEF TypeOK, RequestedGood, RestGood, WebGood, Requested, registryVars, Active, Final
<1>3. ASSUME NEW k \in Jobs PROVE RestGood(k)'
  BY DEF TypeOK, RestGood, registryVars, Active, Final, WebGood
<1>4. WebGood'
  BY DEF TypeOK, RestGood, RequestedGood, WebGood, Requested, registryVars, Active, Final
<1>5. QED
  BY <1>1, <1>2, <1>3, <1>4

\* No thread is found: the worker is with this job's cancellation, so the job
\* has been registered, and what was registered and is not found has ended.
LEMMA CancelLooksUpKeeps ==
    ASSUME JobInv, CancelLooksUp, up
    PROVE  JobInv'
<1> USE DEF JobInv, CancelLooksUp, ThreadAlive, IdleWeb
<1>1. TypeOK'
  BY DEF TypeOK, Kinds, Active, Final, registryVars, WebGood
<1>2. ASSUME NEW k \in Jobs PROVE RequestedGood(k)'
  BY DEF TypeOK, RequestedGood, RestGood, WebGood, Requested, registryVars, Active, Final
<1>3. ASSUME NEW k \in Jobs PROVE RestGood(k)'
  BY DEF TypeOK, RestGood, registryVars, Active, Final, WebGood
<1>4. WebGood'
  BY DEF TypeOK, RestGood, RequestedGood, WebGood, Requested, registryVars, Active, Final
<1>5. QED
  BY <1>1, <1>2, <1>3, <1>4

LEMMA CancelSignalsKeeps ==
    ASSUME JobInv, CancelSignals, up
    PROVE  JobInv'
<1> USE DEF JobInv, CancelSignals, IdleWeb
<1>1. TypeOK'
  BY DEF TypeOK, Kinds, Active, Final, registryVars, WebGood
<1>2. ASSUME NEW k \in Jobs PROVE RequestedGood(k)'
  BY DEF TypeOK, RequestedGood, RestGood, WebGood, Requested, registryVars, Active, Final
<1>3. ASSUME NEW k \in Jobs PROVE RestGood(k)'
  BY DEF TypeOK, RestGood, registryVars, Active, Final, WebGood
<1>4. WebGood'
  BY DEF TypeOK, RestGood, RequestedGood, WebGood, Requested, registryVars, Active, Final
<1>5. QED
  BY <1>1, <1>2, <1>3, <1>4

LEMMA CancelMarksKeeps ==
    ASSUME JobInv, CancelMarks, up
    PROVE  JobInv'
<1> USE DEF JobInv, CancelMarks, SetRow, IdleWeb
<1>1. TypeOK'
  BY DEF TypeOK, Kinds, Active, Final, registryVars, WebGood
<1>2. ASSUME NEW k \in Jobs PROVE RequestedGood(k)'
  BY DEF TypeOK, RequestedGood, RestGood, WebGood, Requested, registryVars, Active, Final
<1>3. ASSUME NEW k \in Jobs PROVE RestGood(k)'
  BY DEF TypeOK, RestGood, registryVars, Active, Final, WebGood
<1>4. WebGood'
  BY DEF TypeOK, RestGood, RequestedGood, WebGood, Requested, registryVars, Active, Final
<1>5. QED
  BY <1>1, <1>2, <1>3, <1>4

LEMMA CancelStaleKeeps ==
    ASSUME JobInv, CancelStale, up
    PROVE  JobInv'
<1> USE DEF JobInv, CancelStale, SetRow, IdleWeb
<1>1. TypeOK'
  BY DEF TypeOK, Kinds, Active, Final, registryVars, WebGood
<1>2. ASSUME NEW k \in Jobs PROVE RequestedGood(k)'
  BY DEF TypeOK, RequestedGood, RestGood, WebGood, Requested, registryVars, Active, Final
<1>3. ASSUME NEW k \in Jobs PROVE RestGood(k)'
  BY DEF TypeOK, RestGood, registryVars, Active, Final, WebGood
<1>4. WebGood'
  BY DEF TypeOK, RestGood, RequestedGood, WebGood, Requested, registryVars, Active, Final
<1>5. QED
  BY <1>1, <1>2, <1>3, <1>4

LEMMA CleanupJobsKeeps ==
    ASSUME JobInv, CleanupJobs, up
    PROVE  JobInv'
<1> USE DEF JobInv, CleanupJobs, IdleWeb
<1>1. TypeOK'
  BY DEF TypeOK, Kinds, Active, Final, registryVars, WebGood
<1>2. ASSUME NEW k \in Jobs PROVE RequestedGood(k)'
  BY DEF TypeOK, RequestedGood, RestGood, WebGood, Requested, registryVars, Active, Final
<1>3. ASSUME NEW k \in Jobs PROVE RestGood(k)'
  BY DEF TypeOK, RestGood, registryVars, Active, Final, WebGood
<1>4. WebGood'
  BY DEF TypeOK, RestGood, RequestedGood, WebGood, Requested, registryVars, Active, Final
<1>5. QED
  BY <1>1, <1>2, <1>3, <1>4

-----------------------------------------------------------------------------
(* Every step keeps it: crash and boot *)

LEMMA CrashKeeps ==
    ASSUME JobInv, Crash
    PROVE  JobInv'
<1> USE DEF JobInv, Crash, Fault, IdleWeb
<1>1. TypeOK'
  <2>1. launch' \in [Jobs -> {"none", "inserted", "skipped", "started", "registered", "lost"}]
    BY DEF TypeOK
  <2>2. thread' \in [Jobs -> {"none", "queued", "working", "ending", "gone"}]
    BY DEF TypeOK
  <2>3. web' \in [pc : {"idle", "launch", "cancel", "signal", "mark", "stale"},
                 job : Jobs \cup {NoJob}]
    OBVIOUS
  <2>4. kind' = kind /\ row' = row /\ registry' = {} /\ flagged' = {} /\ up' = FALSE
    OBVIOUS
  <2>5. faults' \in Nat
    BY DEF TypeOK
  <2> HIDE DEF Crash
  <2>6. QED
    BY <2>1, <2>2, <2>3, <2>4, <2>5 DEF TypeOK
<1>2. ASSUME NEW k \in Jobs PROVE RequestedGood(k)'
  BY DEF TypeOK, RequestedGood, RestGood, WebGood, Requested, registryVars, Active, Final
<1>3. ASSUME NEW k \in Jobs PROVE RestGood(k)'
  BY DEF TypeOK, RestGood, registryVars, Active, Final, WebGood
<1>4. WebGood'
  BY DEF TypeOK, RestGood, RequestedGood, WebGood, Requested, registryVars, Active, Final
<1>5. QED
  BY <1>1, <1>2, <1>3, <1>4

LEMMA BootKeeps ==
    ASSUME JobInv, Boot
    PROVE  JobInv'
<1> USE DEF JobInv, Boot, StuckJobs, IdleWeb
<1>1. TypeOK'
  BY DEF TypeOK, Kinds, Active, Final, registryVars, WebGood
<1>2. ASSUME NEW k \in Jobs PROVE RequestedGood(k)'
  BY DEF TypeOK, RequestedGood, RestGood, WebGood, Requested, registryVars, Active, Final
<1>3. ASSUME NEW k \in Jobs PROVE RestGood(k)'
  BY DEF TypeOK, RestGood, registryVars, Active, Final, WebGood
<1>4. WebGood'
  BY DEF TypeOK, RestGood, RequestedGood, WebGood, Requested, registryVars, Active, Final
<1>5. QED
  BY <1>1, <1>2, <1>3, <1>4

-----------------------------------------------------------------------------

LEMMA StepKeeps == JobInv /\ [Next]_vars => JobInv'
<1> SUFFICES ASSUME JobInv, [Next]_vars PROVE JobInv'
  OBVIOUS
<1>1. CASE UNCHANGED vars
  BY <1>1 DEF vars, JobInv, TypeOK, RequestedGood, RestGood, WebGood, Requested
<1>2. CASE Next
  BY <1>2, InsertByRequestKeeps, InsertByPlanKeeps, InsertIntoPoolKeeps,
     PoolRejectsKeeps, RunUnregisteredKeeps, PlanSkipsKeeps, StartThreadKeeps,
     RegisterKeeps, PoolStartsKeeps, JobDoneKeeps, JobFailsKeeps,
     JobCancelledKeeps, UnregisterKeeps, CancelReadsKeeps, DeleteJobKeeps,
     CancelLooksUpKeeps, CancelSignalsKeeps, CancelMarksKeeps,
     CancelStaleKeeps, CleanupJobsKeeps, CrashKeeps, BootKeeps
     DEF Next, JobNext, Launch, Execute, RequestNext, Cancel
<1>3. QED
  BY <1>1, <1>2

LEMMA Invariance == Spec => []JobInv
BY InitGood, StepKeeps, PTL DEF Spec

-----------------------------------------------------------------------------
(* What follows *)

\* All variables keep their types; in particular a cancel event is set only for
\* a registered thread (core/_job_registry.py).
THEOREM JobsTypeCorrect == Spec => []TypeOK
BY Invariance, PTL DEF JobInv

\* When the worker takes the job of a request for dead, nothing works on it.
LEMMA DeadWhenStale ==
    ASSUME JobInv, NEW j \in Jobs, Requested(j), web.pc = "stale", web.job = j
    PROVE  ~AtWork(j)
BY DEF JobInv, TypeOK, RequestedGood, WebGood, AtWork

\* _cancel_job marks a job as cancelled on its own only when no thread works on
\* it ("Thread is dead but status stuck at running").
THEOREM StaleMeansDead == Spec => StaleCancelOnlyDead
<1>1. JobInv /\ [Next]_vars =>
          [\A j \in Jobs : Requested(j) /\ web.pc = "stale" /\ web.job = j
                             /\ row'[j] # row[j] => ~AtWork(j)]_vars
  BY DeadWhenStale
<1>2. QED
  BY <1>1, Invariance, PTL DEF Spec, StaleCancelOnlyDead

\* _delete_job and _cleanup_jobs never take the row of a job that still works.
THEOREM LiveRowsKept == Spec => RowOfLiveJobKept
<1> DEFINE Kept(j) == Requested(j) /\ row[j] # "deleted" /\ row'[j] = "deleted"
                          => ~AtWork(j)
<1>1. ASSUME JobInv, Next, NEW j \in Jobs,
             Requested(j), row[j] # "deleted", row'[j] = "deleted"
      PROVE  ~AtWork(j)
  <2> USE <1>1 DEF JobInv, TypeOK
  <2> SUFFICES row[j] \in Final
    BY DEF RequestedGood, AtWork, Final
  <2>1. CASE \E k \in Jobs : DeleteJob(k)
    BY <2>1 DEF DeleteJob
  <2>2. CASE CleanupJobs
    BY <2>2 DEF CleanupJobs, Final
  <2>3. CASE \E k \in Jobs : JobNext(k)
    BY <2>3 DEF JobNext, InsertByRequest, InsertByPlan, InsertIntoPool,
                PoolRejects, RunUnregistered, PlanSkips, Insert, Launch,
                StartThread, Register, PoolStarts, Execute, JobDone, JobFails,
                JobCancelled, EndsAs, Unregister, SetRow
  <2>4. CASE Cancel \/ Crash \/ Boot \/ \E k \in Jobs : CancelReads(k)
    BY <2>4 DEF Cancel, CancelLooksUp, CancelSignals, CancelMarks, CancelStale,
                CancelReads, Crash, Boot, SetRow
  <2>5. QED
    BY <2>1, <2>2, <2>3, <2>4 DEF Next, RequestNext
<1>2. JobInv /\ [Next]_vars => [\A j \in Jobs : Kept(j)]_vars
  BY <1>1
<1>3. QED
  BY <1>2, Invariance, PTL DEF Spec, RowOfLiveJobKept
=============================================================================
