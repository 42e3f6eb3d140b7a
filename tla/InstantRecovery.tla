--------------------------- MODULE InstantRecovery ---------------------------
(***************************************************************************)
(* Instant recovery: a virtual machine that runs directly from a FlexClone *)
(* of a snapshot, until its disks are migrated or it is discarded          *)
(* (core/instant_recovery_engine.py, api/instant_recovery.py).             *)
(*                                                                         *)
(* A session is the row of netapp_instant_recovery_sessions together with  *)
(* what it stands for: the clone on ONTAP, the temporary storage and mount *)
(* on Proxmox VE, the virtual machine, and the snapshot that was taken for *)
(* this session only if it was started from a live machine.  Sessions are  *)
(* on NFS; those on NVMe are not modelled.  The actors:                    *)
(*   - the start job of each session, which undoes what it did if it fails;*)
(*   - threads that migrate, discard or clean up; they, not the requests   *)
(*     that start them, write the status of the session;                   *)
(*   - the request worker (one synchronous gunicorn worker);               *)
(*   - the administrator, who may move disks in Proxmox VE, and acts on a  *)
(*     list of orphaned clones that grows old in the browser;              *)
(*   - a crash of the process; nothing looks after sessions at boot.       *)
(* A definition in front of another one and named after it is a slip the   *)
(* code could have made; no action uses it.                                *)
(***************************************************************************)
EXTENDS Naturals, FiniteSets

CONSTANTS
    Sessions,
    NoSession,
    Disks,      \* number of disks of a recovered machine
    Threads,    \* background threads that migrate, discard or clean up
    MaxFaults,  \* bound on failed calls
    MaxCrashes  \* bound on crashes

ASSUME SessionsAssumption ==
    /\ NoSession \notin Sessions
    /\ Disks \in Nat \ {0}
    /\ MaxFaults \in Nat
    /\ MaxCrashes \in Nat

VARIABLES
    sess,       \* the row: status, error set?, clone_volume_uuid set?, ad_hoc?
    start,      \* the start job: progress, uuid of the clone learnt?, ad hoc?
    thread,     \* [Threads -> record]: operation, session, progress, ok
    web,        \* the request worker
    listed,     \* the clones on the list of orphans the administrator sees
    clone,      \* [Sessions -> BOOLEAN]: the clone exists on ONTAP
    left,       \* [Sessions -> SUBSET {"storage", "mount"}]: on Proxmox VE
    vm,         \* the machine, and how many of its disks are on the clone
    snap,       \* [Sessions -> BOOLEAN]: the snapshot taken for the session
    faults, crashes

vars == <<sess, start, thread, web, listed, clone, left, vm, snap,
          faults, crashes>>
outside == <<clone, left, vm, snap>>

NoRow == [status |-> "none", error |-> FALSE, known |-> FALSE, adhoc |-> FALSE]
NoVm == [state |-> "none", disks |-> 0]
Idle == [op |-> "none", s |-> NoSession, pc |-> "idle", ok |-> TRUE]
IdleWeb == [pc |-> "idle", s |-> NoSession]

Init ==
    /\ sess = [s \in Sessions |-> NoRow]
    /\ start = [s \in Sessions |-> [pc |-> "none", known |-> FALSE, adhoc |-> FALSE]]
    /\ thread = [t \in Threads |-> Idle]
    /\ web = IdleWeb
    /\ listed = {}
    /\ clone = [s \in Sessions |-> FALSE]
    /\ left = [s \in Sessions |-> {}]
    /\ vm = [s \in Sessions |-> NoVm]
    /\ snap = [s \in Sessions |-> FALSE]
    /\ faults = 0
    /\ crashes = 0

Fault == faults < MaxFaults /\ faults' = faults + 1

RowExists(s) == sess[s].status \notin {"none", "deleted"}

\* UPDATE ... SET status: no effect if the row is gone.
SetStatus(s, status, error) ==
    sess' = IF RowExists(s)
            THEN [sess EXCEPT ![s].status = status, ![s].error = @ \/ error]
            ELSE sess

-----------------------------------------------------------------------------
(* Starting: _run_instant_recovery *)

\* _start from a snapshot of the plan, or _start_live, which first takes one.
Begin(s, adhoc) ==
    /\ web = IdleWeb
    /\ start[s].pc = "none"
    /\ start' = [start EXCEPT ![s] = [pc |-> "reserve", known |-> FALSE,
                                      adhoc |-> adhoc]]
    /\ snap' = [snap EXCEPT ![s] = adhoc]
    /\ UNCHANGED <<sess, thread, web, listed, clone, left, vm, faults,
                   crashes>>

ReserveVmid(s) ==
    /\ start[s].pc = "reserve"
    /\ vm' = [vm EXCEPT ![s].state = "reserved"]
    /\ start' = [start EXCEPT ![s].pc = "clone"]
    /\ UNCHANGED <<sess, thread, web, listed, clone, left, snap,
                   faults, crashes>>

CloneOk(s) ==
    /\ start[s].pc = "clone"
    /\ clone' = [clone EXCEPT ![s] = TRUE]
    /\ start' = [start EXCEPT ![s].pc = "storage", ![s].known = TRUE]
    /\ UNCHANGED <<sess, thread, web, listed, left, vm, snap, faults,
                   crashes>>

\* ONTAP answered before the volume existed, and the lookup of its uuid by
\* name fails: a warning, and the session goes on without the uuid.
CloneUnresolved(s) ==
    /\ start[s].pc = "clone"
    /\ Fault
    /\ clone' = [clone EXCEPT ![s] = TRUE]
    /\ start' = [start EXCEPT ![s].pc = "storage"]
    /\ UNCHANGED <<sess, thread, web, listed, left, vm, snap, crashes>>

\* The clone is created but poll_job times out: its uuid is not known.
CloneAnswerLost(s) ==
    /\ start[s].pc = "clone"
    /\ Fault
    /\ clone' = [clone EXCEPT ![s] = TRUE]
    /\ start' = [start EXCEPT ![s].pc = "undo vm"]
    /\ UNCHANGED <<sess, thread, web, listed, left, vm, snap, crashes>>

\* pvesm add; Proxmox VE mounts an NFS storage on every node.
RegisterStorage(s) ==
    /\ start[s].pc = "storage"
    /\ left' = [left EXCEPT ![s] = {"storage", "mount"}]
    /\ start' = [start EXCEPT ![s].pc = "boot"]
    /\ UNCHANGED <<sess, thread, web, listed, clone, vm, snap, faults,
                   crashes>>

\* The configuration is written and the start requested.
BootVm(s) ==
    /\ start[s].pc = "boot"
    /\ vm' = [vm EXCEPT ![s] = [state |-> "exists", disks |-> Disks]]
    /\ start' = [start EXCEPT ![s].pc = "insert"]
    /\ UNCHANGED <<sess, thread, web, listed, clone, left, snap,
                   faults, crashes>>

InsertSession(s) ==
    /\ start[s].pc = "insert"
    /\ sess' = [sess EXCEPT ![s] = [status |-> "running", error |-> FALSE,
                                    known |-> start[s].known,
                                    adhoc |-> start[s].adhoc]]
    /\ start' = [start EXCEPT ![s].pc = "ended"]
    /\ UNCHANGED <<thread, web, listed, outside, faults, crashes>>

\* A call fails, or the disks of the manifest are not on the clone.
StartFails(s) ==
    /\ start[s].pc \in {"reserve", "clone", "storage", "boot"}
    /\ Fault
    /\ start' = [start EXCEPT ![s].pc = "undo vm"]
    /\ UNCHANGED <<sess, thread, web, listed, outside, crashes>>

\* _teardown_raw: every step is tried, and its failure only logged.  The
\* snapshot taken for the session is not its business.
AfterUndo(s) ==
    start' = [start EXCEPT ![s].pc = CASE @ = "undo vm" -> "undo storage"
                                       [] @ = "undo storage" -> "undo clone"
                                       [] @ = "undo clone" -> "ended"]

Undo(s) ==
    /\ start[s].pc \in {"undo vm", "undo storage", "undo clone"}
    /\ vm' = IF start[s].pc = "undo vm" THEN [vm EXCEPT ![s] = NoVm] ELSE vm
    /\ left' = IF start[s].pc = "undo storage" THEN [left EXCEPT ![s] = {}]
               ELSE left
    /\ clone' = IF start[s].pc = "undo clone" /\ start[s].known
                THEN [clone EXCEPT ![s] = FALSE] ELSE clone
    /\ AfterUndo(s)
    /\ UNCHANGED <<sess, thread, web, listed, snap, faults, crashes>>

UndoFails(s) ==
    /\ start[s].pc \in {"undo vm", "undo storage", "undo clone"}
    /\ Fault
    /\ \/ start[s].pc = "undo vm" /\ UNCHANGED <<left, clone>>
       \/ /\ start[s].pc = "undo storage"
          /\ \E l \in SUBSET left[s] : left' = [left EXCEPT ![s] = l]
          /\ UNCHANGED clone
       \/ /\ start[s].pc = "undo clone"
          /\ \E b \in {TRUE, ~start[s].known} :
                clone' = [clone EXCEPT ![s] = @ /\ b]
          /\ UNCHANGED left
    /\ AfterUndo(s)
    /\ UNCHANGED <<sess, thread, web, listed, vm, snap, crashes>>

-----------------------------------------------------------------------------
(* Requests about a session: they start a thread, the thread sets the status *)

Spawn(t, op, s) ==
    /\ thread[t] = Idle
    /\ thread' = [thread EXCEPT ![t] = [op |-> op, s |-> s, pc |-> "mark",
                                        ok |-> TRUE]]

Migrate(t, s) ==
    /\ web = IdleWeb
    /\ sess[s].status = "running"
    /\ Spawn(t, "migrate", s)
    /\ UNCHANGED <<sess, start, web, listed, outside, faults, crashes>>

\* _discard takes every status but these, "done" included.
Discard(t, s) ==
    /\ web = IdleWeb
    /\ RowExists(s)
    /\ sess[s].status \notin {"discarding", "discarded", "migrating"}
    /\ Spawn(t, "discard", s)
    /\ UNCHANGED <<sess, start, web, listed, outside, faults, crashes>>

\* _cleanup_clone reads the row, ...
CleanupReads(s) ==
    /\ web = IdleWeb
    /\ sess[s].status = "running"
    /\ web' = [pc |-> "verify", s |-> s]
    /\ UNCHANGED <<sess, start, thread, listed, outside, faults, crashes>>

\* ... makes sure that the machine has no disk on the clone any more, ...
CleanupTrusts(t) ==
    /\ web.pc = "verify"
    /\ Spawn(t, "cleanup", web.s)
    /\ web' = IdleWeb
    /\ UNCHANGED <<sess, start, listed, outside, faults, crashes>>
CleanupVerifies(t) ==
    /\ web.pc = "verify"
    /\ vm[web.s] = [state |-> "exists", disks |-> 0]
    /\ Spawn(t, "cleanup", web.s)
    /\ web' = IdleWeb
    /\ UNCHANGED <<sess, start, listed, outside, faults, crashes>>

\* ... and refuses if it has one, or cannot be read.
CleanupRefuses ==
    /\ web.pc = "verify"
    /\ \/ vm[web.s] # [state |-> "exists", disks |-> 0] /\ UNCHANGED faults
       \/ Fault
    /\ web' = IdleWeb
    /\ UNCHANGED <<sess, start, thread, listed, outside, crashes>>

Dismiss(s) ==
    /\ web = IdleWeb
    /\ sess[s].status = "done"
    /\ sess' = [sess EXCEPT ![s].status = "deleted"]
    /\ UNCHANGED <<start, thread, web, listed, outside, faults, crashes>>

-----------------------------------------------------------------------------
(* Orphaned clones *)

\* still_active of _scan_orphan_flexclones; the row is found by its uuid.
StillActive(s) ==
    /\ sess[s].known
    /\ sess[s].status \in {"running", "migrating", "discarding"}
    /\ ~sess[s].error

Orphaned(s) == clone[s] /\ ~StillActive(s)

ScanOrphans ==
    /\ web = IdleWeb
    /\ listed' = {s \in Sessions : Orphaned(s)}
    /\ listed' # listed
    /\ UNCHANGED <<sess, start, thread, web, outside, faults, crashes>>

\* _delete_orphan_flexclone deletes what was listed, without a second look, ...
DeleteOrphan(s) ==
    /\ web = IdleWeb
    /\ s \in listed
    /\ clone[s]
    /\ listed' = listed \ {s}
    /\ clone' = [clone EXCEPT ![s] = FALSE]
    /\ \/ web' = [pc |-> "orphan", s |-> s] /\ UNCHANGED faults
       \/ web' = IdleWeb /\ Fault
    /\ UNCHANGED <<sess, start, thread, left, vm, snap, crashes>>

\* ... or reports an error, ...
DeleteOrphanFails(s) ==
    /\ web = IdleWeb
    /\ s \in listed
    /\ \/ ~clone[s] /\ UNCHANGED faults
       \/ Fault
    /\ listed' = listed \ {s}
    /\ UNCHANGED <<sess, start, thread, web, outside, crashes>>

\* ... and then closes the session, if one has its uuid.
OrphanDeleted ==
    /\ web.pc = "orphan"
    /\ sess' = IF sess[web.s].known /\ RowExists(web.s)
               THEN [sess EXCEPT ![web.s].status = "discarded",
                                 ![web.s].error = FALSE]
               ELSE sess
    /\ web' = IdleWeb
    /\ UNCHANGED <<start, thread, listed, outside, faults, crashes>>

-----------------------------------------------------------------------------
(* The threads *)

To(t, pc) == thread' = [thread EXCEPT ![t].pc = pc]
Ends(t) == thread' = [thread EXCEPT ![t] = Idle]

\* The thread reads the row and sets its status.
Mark(t) ==
    /\ thread[t].pc = "mark"
    /\ SetStatus(thread[t].s, IF thread[t].op = "migrate" THEN "migrating"
                              ELSE "discarding", FALSE)
    /\ IF RowExists(thread[t].s)
       THEN To(t, IF thread[t].op = "cleanup" THEN "remove" ELSE "open")
       ELSE Ends(t)
    /\ UNCHANGED <<start, web, listed, outside, faults, crashes>>

\* The mapping and a host of the cluster are found.
Open(t) ==
    /\ thread[t].pc = "open"
    /\ To(t, IF thread[t].op = "migrate" THEN "move" ELSE "vm")
    /\ UNCHANGED <<sess, start, web, listed, outside, faults, crashes>>

\* They are not, here or at the beginning of _teardown_session_clone.  Discard
\* and clean-up handle the exception, migrate does not.
RaisesUnhandled(t) ==
    /\ thread[t].pc \in {"open", "remove"}
    /\ Fault
    /\ Ends(t)
    /\ UNCHANGED <<sess, start, web, listed, outside, crashes>>
Raises(t) ==
    /\ thread[t].pc \in {"open", "remove"}
    /\ Fault
    /\ IF thread[t].op = "migrate" THEN UNCHANGED sess
       ELSE SetStatus(thread[t].s, "running", TRUE)
    /\ Ends(t)
    /\ UNCHANGED <<start, web, listed, outside, crashes>>

\* _migrate_one_vm, disk by disk, ...
MoveDiskUnchecked(t) ==
    LET s == thread[t].s IN
    /\ thread[t].pc = "move"
    /\ vm[s].state = "exists"
    /\ vm' = [vm EXCEPT ![s].disks = @ - 1]
    /\ UNCHANGED <<sess, start, thread, web, listed, clone, left, snap,
                   faults, crashes>>
MoveDisk(t) ==
    LET s == thread[t].s IN
    /\ thread[t].pc = "move"
    /\ vm[s].state = "exists"
    /\ vm[s].disks > 0
    /\ vm' = [vm EXCEPT ![s].disks = @ - 1]
    /\ UNCHANGED <<sess, start, thread, web, listed, clone, left, snap,
                   faults, crashes>>

\* ... until none is left on the clone, ...
MoveDone(t) ==
    LET s == thread[t].s IN
    /\ thread[t].pc = "move"
    /\ vm[s] = [state |-> "exists", disks |-> 0]
    /\ To(t, "remove")
    /\ UNCHANGED <<sess, start, web, listed, outside, faults, crashes>>

\* ... or the machine is gone, a move fails, or the job is cancelled.
MoveFails(t) ==
    /\ thread[t].pc = "move"
    /\ \/ vm[thread[t].s].state # "exists" /\ UNCHANGED faults
       \/ Fault
    /\ SetStatus(thread[t].s, "running", TRUE)
    /\ Ends(t)
    /\ UNCHANGED <<start, web, listed, outside, crashes>>

DestroyVm(t) ==
    /\ thread[t].pc = "vm"
    /\ vm' = [vm EXCEPT ![thread[t].s] = NoVm]
    /\ To(t, "remove")
    /\ UNCHANGED <<sess, start, web, listed, clone, left, snap, faults,
                   crashes>>

\* Destroying the machine fails; the clone is torn down all the same.
DestroyFails(t) ==
    /\ thread[t].pc = "vm"
    /\ Fault
    /\ To(t, "remove")
    /\ UNCHANGED <<sess, start, web, listed, outside, crashes>>

\* _teardown_session_clone: pvesm remove, ...
Fails(t, pc) == thread' = [thread EXCEPT ![t].pc = pc, ![t].ok = FALSE]

RemoveStorage(t) ==
    LET s == thread[t].s IN
    /\ thread[t].pc = "remove"
    /\ \/ left' = [left EXCEPT ![s] = @ \ {"storage"}] /\ To(t, "unmount")
          /\ UNCHANGED faults
       \/ Fault /\ Fails(t, "unmount") /\ UNCHANGED left
    /\ UNCHANGED <<sess, start, web, listed, clone, vm, snap, crashes>>

\* ... unmount on every node; a mount that is only detached lazily counts as a
\* failure, ...
Unmount(t) ==
    LET s == thread[t].s IN
    /\ thread[t].pc = "unmount"
    /\ \/ left' = [left EXCEPT ![s] = @ \ {"mount"}] /\ To(t, "delete")
          /\ UNCHANGED faults
       \/ Fault /\ Fails(t, "delete") /\ left' \in {left, [left EXCEPT ![s] = @ \ {"mount"}]}
    /\ UNCHANGED <<sess, start, web, listed, clone, vm, snap, crashes>>

\* ... delete the clone if its uuid is known; gone already is fine, ...
DeleteClone(t) ==
    LET s == thread[t].s IN
    /\ thread[t].pc = "delete"
    /\ clone' = [clone EXCEPT ![s] = @ /\ ~sess[s].known]
    /\ To(t, "snapshot")
    /\ UNCHANGED <<sess, start, web, listed, left, vm, snap, faults, crashes>>

\* ... or fail to, or not hear that it succeeded, ...
DeleteFailsUnnoticed(t) ==
    LET s == thread[t].s IN
    /\ thread[t].pc = "delete"
    /\ sess[s].known
    /\ Fault
    /\ clone' \in {clone, [clone EXCEPT ![s] = FALSE]}
    /\ To(t, "snapshot")
    /\ UNCHANGED <<sess, start, web, listed, left, vm, snap, crashes>>
DeleteFails(t) ==
    LET s == thread[t].s IN
    /\ thread[t].pc = "delete"
    /\ sess[s].known
    /\ Fault
    /\ clone' \in {clone, [clone EXCEPT ![s] = FALSE]}
    /\ Fails(t, "snapshot")
    /\ UNCHANGED <<sess, start, web, listed, left, vm, snap, crashes>>

\* ... and delete the snapshot that was taken for the session.
DeleteSnapshot(t) ==
    LET s == thread[t].s IN
    /\ thread[t].pc = "snapshot"
    /\ \/ snap' = [snap EXCEPT ![s] = @ /\ ~sess[s].adhoc] /\ UNCHANGED faults
       \/ Fault /\ UNCHANGED snap
    /\ To(t, "finish")
    /\ UNCHANGED <<sess, start, web, listed, clone, left, vm, crashes>>

\* The status that the three operations end with.
Finish(t) ==
    LET j == thread[t] IN
    /\ j.pc = "finish"
    /\ SetStatus(j.s, CASE j.op = "migrate" -> "done"
                        [] j.op = "cleanup" /\ j.ok -> "done"
                        [] j.op = "discard" /\ j.ok -> "discarded"
                        [] OTHER -> "running", ~j.ok)
    /\ Ends(t)
    /\ UNCHANGED <<start, web, listed, outside, faults, crashes>>

-----------------------------------------------------------------------------
(* The administrator in Proxmox VE, and the death of the process *)

\* A disk is moved by hand.
MoveByHand(s) ==
    /\ sess[s].status = "running"
    /\ vm[s].state = "exists"
    /\ vm[s].disks > 0
    /\ vm' = [vm EXCEPT ![s].disks = @ - 1]
    /\ UNCHANGED <<sess, start, thread, web, listed, clone, left, snap,
                   faults, crashes>>

\* Rows stay as they are: the reconciliation at boot knows jobs only.
Crash ==
    /\ crashes < MaxCrashes
    /\ crashes' = crashes + 1
    /\ start' = [s \in Sessions |->
                   IF start[s].pc = "none" THEN start[s]
                   ELSE [start[s] EXCEPT !.pc = "ended"]]
    /\ thread' = [t \in Threads |-> Idle]
    /\ web' = IdleWeb
    /\ UNCHANGED <<sess, listed, outside, faults>>

-----------------------------------------------------------------------------

StartNext(s) ==
    \/ \E adhoc \in BOOLEAN : Begin(s, adhoc)
    \/ ReserveVmid(s)
    \/ CloneOk(s)
    \/ CloneUnresolved(s)
    \/ CloneAnswerLost(s)
    \/ RegisterStorage(s)
    \/ BootVm(s)
    \/ InsertSession(s)
    \/ StartFails(s)
    \/ Undo(s)
    \/ UndoFails(s)

Request ==
    \/ \E t \in Threads, s \in Sessions : Migrate(t, s) \/ Discard(t, s)
    \/ \E s \in Sessions : CleanupReads(s) \/ Dismiss(s)
    \/ \E s \in Sessions : DeleteOrphan(s) \/ DeleteOrphanFails(s)
    \/ \E t \in Threads : CleanupVerifies(t)
    \/ CleanupRefuses
    \/ ScanOrphans
    \/ OrphanDeleted

ThreadNext(t) ==
    \/ Mark(t) \/ Open(t) \/ Raises(t)
    \/ MoveDisk(t) \/ MoveDone(t) \/ MoveFails(t)
    \/ DestroyVm(t) \/ DestroyFails(t)
    \/ RemoveStorage(t) \/ Unmount(t)
    \/ DeleteClone(t) \/ DeleteFails(t)
    \/ DeleteSnapshot(t)
    \/ Finish(t)

Next ==
    \/ \E s \in Sessions : StartNext(s) \/ MoveByHand(s)
    \/ Request
    \/ \E t \in Threads : ThreadNext(t)
    \/ Crash

Spec == Init /\ [][Next]_vars

\* Threads go on: each of their calls has a timeout.
FairSpec == Spec /\ \A t \in Threads : WF_vars(ThreadNext(t))

-----------------------------------------------------------------------------
(* Properties *)

Statuses == {"none", "running", "migrating", "discarding", "discarded", "done",
             "deleted"}

\* Every variable has its type.
TypeOK ==
    /\ sess \in [Sessions -> [status : Statuses, error : BOOLEAN,
                              known : BOOLEAN, adhoc : BOOLEAN]]
    /\ start \in [Sessions ->
          [pc : {"none", "reserve", "clone", "storage", "boot", "insert",
                 "undo vm", "undo storage", "undo clone", "ended"},
           known : BOOLEAN, adhoc : BOOLEAN]]
    /\ thread \in [Threads ->
          [op : {"none", "migrate", "discard", "cleanup"},
           s : Sessions \cup {NoSession},
           pc : {"idle", "mark", "open", "move", "vm", "remove", "unmount",
                 "delete", "snapshot", "finish"},
           ok : BOOLEAN]]
    /\ web \in [pc : {"idle", "verify", "orphan"}, s : Sessions \cup {NoSession}]
    /\ listed \subseteq Sessions
    /\ clone \in [Sessions -> BOOLEAN]
    /\ left \in [Sessions -> SUBSET {"storage", "mount"}]
    /\ vm \in [Sessions -> [state : {"none", "reserved", "exists"},
                            disks : 0 .. Disks]]
    /\ snap \in [Sessions -> BOOLEAN]
    /\ faults \in Nat /\ crashes \in Nat

\* The sessions _teardown_session_clone can judge: the uuid of the clone is
\* known.
Judged(s) == sess[s].known

\* "Callers must NOT report discarded/done on False": a session that shows as
\* discarded, or as done without an error, has no clone; and if it is done, no
\* storage and no mount is left either.  This holds through retries, threads
\* that work on one session at a time, lost answers and crashes.
ClosedMeansClean ==
    \A s \in Sessions : Judged(s) =>
        /\ sess[s].status = "discarded" => ~clone[s]
        /\ sess[s].status = "done" /\ ~sess[s].error => ~clone[s] /\ left[s] = {}

\* A clone is never deleted under a machine that has a disk on it, unless the
\* administrator discards the session or deletes the clone as an orphan, or
\* the start failed ("deleting that storage out from under a live disk would
\* corrupt the VM").
CloneKeptUnderDisks ==
    [][\A s \in Sessions :
          clone[s] /\ ~clone'[s] /\ vm[s].disks > 0 =>
              \/ \E t \in Threads : thread[t].s = s /\ thread[t].op = "discard"
              \/ listed' # listed
              \/ start[s].pc = "undo clone"]_vars

AtWork(s) ==
    \/ start[s].pc \notin {"none", "ended"}
    \/ \E t \in Threads : thread[t].s = s

\* A clone that nobody works on can be got rid of: its session accepts a
\* request, or the list of orphans shows it ("instead of silently losing track
\* of the leftover").  Two things break this in the code, and are excluded: a
\* crash, and an exception in a migration, after which the session stays
\* migrating.
LeftoverReachable ==
    \A s \in Sessions :
        clone[s] /\ ~AtWork(s) /\ crashes = 0 =>
            \/ sess[s].status \in {"running", "done", "migrating"}
            \/ Orphaned(s)

\* Discarding and cleaning up come to an end, unless the process dies.
DiscardEnds ==
    \A s \in Sessions :
        sess[s].status = "discarding"
            ~> sess[s].status # "discarding" \/ crashes > 0
=============================================================================
