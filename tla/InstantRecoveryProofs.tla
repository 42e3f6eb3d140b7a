------------------------- MODULE InstantRecoveryProofs -------------------------
(***************************************************************************)
(* Proofs about InstantRecovery, for all sessions, disks, threads and      *)
(* bounds: a session that shows as closed has nothing left                 *)
(* (ClosedMeansClean), a clone nobody works on can be got rid of           *)
(* (LeftoverReachable), and clones are not deleted under the disks of a    *)
(* machine (CloneKeptUnderDisks).  Any number of threads may work on one   *)
(* session; what each of them has done stays done, because no row exists   *)
(* before the start job ends and nothing makes a clone or a mount again:   *)
(* RecoveryInv says what a thread may rely on at each of its steps.        *)
(***************************************************************************)
EXTENDS InstantRecovery, TLAPS

USE SessionsAssumption

-----------------------------------------------------------------------------
(* The inductive invariant *)

Row == [status : Statuses, error : BOOLEAN, known : BOOLEAN, adhoc : BOOLEAN]
StartPcs == {"none", "reserve", "clone", "storage", "boot", "insert", "undo vm",
             "undo storage", "undo clone", "ended"}
StartJob == [pc : StartPcs, known : BOOLEAN, adhoc : BOOLEAN]
TaskPcs == {"idle", "mark", "open", "move", "vm", "remove", "unmount", "delete",
            "snapshot", "finish"}
Task == [op : {"none", "migrate", "discard", "cleanup"},
         s : Sessions \cup {NoSession}, pc : TaskPcs, ok : BOOLEAN]
Vm == [state : {"none", "reserved", "exists"}, disks : 0 .. Disks]
Web == [pc : {"idle", "verify", "orphan"}, s : Sessions \cup {NoSession}]

\* TypeOK, with the types of the records folded.
Types ==
    /\ sess \in [Sessions -> Row]
    /\ start \in [Sessions -> StartJob]
    /\ thread \in [Threads -> Task]
    /\ web \in Web
    /\ listed \subseteq Sessions
    /\ clone \in [Sessions -> BOOLEAN]
    /\ left \in [Sessions -> SUBSET {"storage", "mount"}]
    /\ vm \in [Sessions -> Vm]
    /\ snap \in [Sessions -> BOOLEAN]
    /\ faults \in Nat /\ crashes \in Nat

\* The start job has not created the clone yet.
Before == {"none", "reserve", "clone"}
Teardown == {"remove", "unmount", "delete", "snapshot", "finish"}

\* There is a row only when the start job is over, and a clone only after it
\* made one: no thread ever works beside it.
StartGood(s) ==
    /\ start[s].pc # "ended" => sess[s].status = "none"
    /\ start[s].pc \in Before => ~clone[s]

\* What a teardown without failure has come past is gone, and the machine of a
\* session that is migrated or cleaned up has no disk on the clone by then.
TaskGood(r) ==
    r.pc # "idle" =>
        /\ r.op # "none"
        /\ r.s \in Sessions
        /\ sess[r.s].status # "none"
        /\ r.pc = "vm" => r.op = "discard"
        /\ r.pc = "open" => r.op # "cleanup"
        /\ r.op = "cleanup" \/ (r.op = "migrate" /\ r.pc \in Teardown)
               => vm[r.s].disks = 0
        /\ r.ok /\ r.pc \in Teardown \ {"remove"} => "storage" \notin left[r.s]
        /\ r.ok /\ r.pc \in {"delete", "snapshot", "finish"} => "mount" \notin left[r.s]
        /\ r.ok /\ r.pc \in {"snapshot", "finish"} /\ sess[r.s].known => ~clone[r.s]

WebGood ==
    /\ web.pc # "idle" => web.s \in Sessions
    /\ web.pc = "verify" => sess[web.s].status # "none"
    /\ web.pc = "orphan" => ~clone[web.s] /\ start[web.s].pc \notin Before

ClosedClean(s) ==
    Judged(s) =>
        /\ sess[s].status = "discarded" => ~clone[s]
        /\ sess[s].status = "done" /\ ~sess[s].error => ~clone[s] /\ left[s] = {}

\* Unless the process died, somebody is at work on a session that shows as
\* discarding.
Discards(r, s) ==
    r.s = s /\ r.op \in {"discard", "cleanup"} /\ r.pc \notin {"idle", "mark"}

Attended(s) ==
    sess[s].status = "discarding" /\ crashes = 0
        => \E t \in Threads : Discards(thread[t], s)

RecoveryInv ==
    /\ Types
    /\ \A s \in Sessions : StartGood(s)
    /\ \A t \in Threads : TaskGood(thread[t])
    /\ WebGood
    /\ \A s \in Sessions : ClosedClean(s)
    /\ \A s \in Sessions : Attended(s)

\* The records of TypeOK are named here, for the provers.
LEMMA TypesFold == TypeOK <=> Types
BY DEF TypeOK, Types, Row, StartJob, StartPcs, Task, TaskPcs, Vm, Web

LEMMA InitGood == Init => RecoveryInv
BY DEF Init, RecoveryInv, Types, StartGood, TaskGood, WebGood, ClosedClean,
       Attended, NoRow, NoVm, Idle, IdleWeb, Statuses, Judged, Before,
       Row, StartJob, StartPcs, Task, TaskPcs, Vm, Web

-----------------------------------------------------------------------------
(* Fields of records *)

\* The start job s comes to pc.
StartTo(s, pc) ==
    /\ start' \in [Sessions -> StartJob]
    /\ start'[s].pc = pc
    /\ \A r \in Sessions \ {s} : start'[r] = start[r]

LEMMA StartMoves ==
    ASSUME Types, NEW s \in Sessions, NEW pc \in StartPcs,
           \/ start' = [start EXCEPT ![s].pc = pc]
           \/ start' = [start EXCEPT ![s].pc = pc, ![s].known = TRUE]
    PROVE  StartTo(s, pc)
<1> DEFINE r == [start[s] EXCEPT !.pc = pc]
           k == [start[s] EXCEPT !.pc = pc, !.known = TRUE]
<1> start[s] \in StartJob
  BY DEF Types
<1>1. r \in StartJob /\ r.pc = pc
  BY DEF StartJob
<1>2. k \in StartJob /\ k.pc = pc
  BY DEF StartJob
<1>3. start' = [start EXCEPT ![s] = r] \/ start' = [start EXCEPT ![s] = k]
  OBVIOUS
<1> HIDE DEF r, k
<1>4. QED
  BY <1>1, <1>2, <1>3 DEF StartTo, Types

\* A failure is counted.
LEMMA FaultTyped ==
    ASSUME Types, Fault PROVE faults' \in Nat
BY DEF Types, Fault

LEMMA VmTyped ==
    /\ NoVm \in Vm /\ [state |-> "exists", disks |-> Disks] \in Vm
    /\ \A r \in Vm : /\ [r EXCEPT !.state = "reserved"] \in Vm
                     /\ r.disks > 0 => [r EXCEPT !.disks = @ - 1] \in Vm
BY DEF Vm, NoVm

-----------------------------------------------------------------------------
(* A start job takes a step *)

\* No thread works on its session; what matters is when clone and row appear.
LEMMA StartStepKeeps ==
    ASSUME RecoveryInv, NEW s \in Sessions, start[s].pc # "ended",
           Types', thread' = thread, web' = web, crashes' = crashes,
           \A r \in Sessions \ {s} :
               /\ sess'[r] = sess[r] /\ start'[r] = start[r]
               /\ clone'[r] = clone[r] /\ left'[r] = left[r] /\ vm'[r] = vm[r],
           sess'[s].status \in {"none", "running"},
           sess'[s].status = "none" \/ start'[s].pc = "ended",
           start'[s].pc \in Before => start[s].pc \in Before /\ ~clone'[s],
           clone'[s] => clone[s] \/ start[s].pc = "clone"
    PROVE  RecoveryInv'
<1>1. ASSUME NEW t \in Threads
      PROVE  thread[t].pc = "idle" \/ thread[t].s \in Sessions \ {s}
  BY <1>1 DEF RecoveryInv, TaskGood, StartGood
<1>2. ASSUME NEW t \in Threads PROVE TaskGood(thread[t])'
  BY <1>1, <1>2 DEF RecoveryInv, TaskGood
<1>3. ASSUME NEW r \in Sessions PROVE StartGood(r)'
  BY DEF RecoveryInv, StartGood
<1>4. WebGood'
  BY DEF RecoveryInv, WebGood, StartGood, Before
<1>5. ASSUME NEW r \in Sessions PROVE ClosedClean(r)' /\ Attended(r)'
  BY DEF RecoveryInv, ClosedClean, Judged, Attended
<1>6. QED
  BY <1>2, <1>3, <1>4, <1>5 DEF RecoveryInv

LEMMA BeginKeeps ==
    ASSUME RecoveryInv, NEW s \in Sessions, NEW adhoc \in BOOLEAN, Begin(s, adhoc)
    PROVE  RecoveryInv'
<1> DEFINE r == [pc |-> "reserve", known |-> FALSE, adhoc |-> adhoc]
<1>1. r \in StartJob /\ r.pc = "reserve"
  BY DEF StartJob, StartPcs
<1>2. start' = [start EXCEPT ![s] = r] /\ start[s].pc = "none"
  BY DEF Begin
<1> HIDE DEF r
<1>3. StartTo(s, "reserve")
  BY <1>1, <1>2 DEF StartTo, RecoveryInv, Types
<1>4. Types'
  BY <1>3 DEF Types, StartTo, RecoveryInv, Begin
<1>5. QED
  BY <1>2, <1>3, <1>4, StartStepKeeps
     DEF StartGood, Before, Types, StartTo, RecoveryInv, Begin

LEMMA ReserveVmidKeeps ==
    ASSUME RecoveryInv, NEW s \in Sessions, ReserveVmid(s)
    PROVE  RecoveryInv'
<1> USE DEF ReserveVmid
<1>1. StartTo(s, "clone")
  BY StartMoves DEF StartPcs, RecoveryInv
<1>2. Types'
  BY <1>1, VmTyped, FaultTyped DEF Types, StartTo, RecoveryInv
<1>3. QED
  BY <1>1, <1>2, StartStepKeeps DEF StartGood, Before, Types, StartTo, RecoveryInv

LEMMA CloneOkKeeps ==
    ASSUME RecoveryInv, NEW s \in Sessions, CloneOk(s)
    PROVE  RecoveryInv'
<1> USE DEF CloneOk
<1>1. StartTo(s, "storage")
  BY StartMoves DEF StartPcs, RecoveryInv
<1>2. Types'
  BY <1>1, VmTyped, FaultTyped DEF Types, StartTo, RecoveryInv
<1>3. QED
  BY <1>1, <1>2, StartStepKeeps DEF StartGood, Before, Types, StartTo, RecoveryInv

LEMMA CloneUnresolvedKeeps ==
    ASSUME RecoveryInv, NEW s \in Sessions, CloneUnresolved(s)
    PROVE  RecoveryInv'
<1> USE DEF CloneUnresolved
<1>1. StartTo(s, "storage")
  BY StartMoves DEF StartPcs, RecoveryInv
<1>2. Types'
  BY <1>1, VmTyped, FaultTyped DEF Types, StartTo, RecoveryInv
<1>3. QED
  BY <1>1, <1>2, StartStepKeeps DEF StartGood, Before, Types, StartTo, RecoveryInv

LEMMA CloneAnswerLostKeeps ==
    ASSUME RecoveryInv, NEW s \in Sessions, CloneAnswerLost(s)
    PROVE  RecoveryInv'
<1> USE DEF CloneAnswerLost
<1>1. StartTo(s, "undo vm")
  BY StartMoves DEF StartPcs, RecoveryInv
<1>2. Types'
  BY <1>1, VmTyped, FaultTyped DEF Types, StartTo, RecoveryInv
<1>3. QED
  BY <1>1, <1>2, StartStepKeeps DEF StartGood, Before, Types, StartTo, RecoveryInv

LEMMA RegisterStorageKeeps ==
    ASSUME RecoveryInv, NEW s \in Sessions, RegisterStorage(s)
    PROVE  RecoveryInv'
<1> USE DEF RegisterStorage
<1>1. StartTo(s, "boot")
  BY StartMoves DEF StartPcs, RecoveryInv
<1>2. Types'
  BY <1>1, VmTyped, FaultTyped DEF Types, StartTo, RecoveryInv
<1>3. QED
  BY <1>1, <1>2, StartStepKeeps DEF StartGood, Before, Types, StartTo, RecoveryInv

LEMMA BootVmKeeps ==
    ASSUME RecoveryInv, NEW s \in Sessions, BootVm(s)
    PROVE  RecoveryInv'
<1> USE DEF BootVm
<1>1. StartTo(s, "insert")
  BY StartMoves DEF StartPcs, RecoveryInv
<1>2. Types'
  BY <1>1, VmTyped, FaultTyped DEF Types, StartTo, RecoveryInv
<1>3. QED
  BY <1>1, <1>2, StartStepKeeps DEF StartGood, Before, Types, StartTo, RecoveryInv

LEMMA InsertSessionKeeps ==
    ASSUME RecoveryInv, NEW s \in Sessions, InsertSession(s)
    PROVE  RecoveryInv'
<1> DEFINE r == [status |-> "running", error |-> FALSE, known |-> start[s].known,
                 adhoc |-> start[s].adhoc]
<1>1. r \in Row /\ r.status = "running"
  BY DEF Row, Statuses, RecoveryInv, Types, StartJob
<1>2. sess' = [sess EXCEPT ![s] = r]
  BY DEF InsertSession
<1> HIDE DEF r
<1>3. StartTo(s, "ended")
  BY StartMoves DEF StartPcs, RecoveryInv, InsertSession
<1>4. sess' \in [Sessions -> Row] /\ sess'[s].status = "running"
      /\ \A q \in Sessions \ {s} : sess'[q] = sess[q]
  BY <1>1, <1>2 DEF RecoveryInv, Types
<1>5. /\ UNCHANGED <<thread, web, listed, clone, left, vm, snap, faults, crashes>>
      /\ start[s].pc = "insert"
  BY DEF InsertSession, outside
<1>6. Types'
  BY <1>3, <1>4, <1>5 DEF Types, StartTo, RecoveryInv
<1>7. QED
  BY <1>3, <1>4, <1>5, <1>6, StartStepKeeps DEF StartGood, Before, StartTo, RecoveryInv

LEMMA StartFailsKeeps ==
    ASSUME RecoveryInv, NEW s \in Sessions, StartFails(s)
    PROVE  RecoveryInv'
<1> USE DEF StartFails, outside
<1>1. StartTo(s, "undo vm")
  BY StartMoves DEF StartPcs, RecoveryInv
<1>2. Types'
  BY <1>1, VmTyped, FaultTyped DEF Types, StartTo, RecoveryInv
<1>3. QED
  BY <1>1, <1>2, StartStepKeeps DEF StartGood, Before, Types, StartTo, RecoveryInv

LEMMA UndoKeeps ==
    ASSUME RecoveryInv, NEW s \in Sessions, Undo(s) \/ UndoFails(s)
    PROVE  RecoveryInv'
<1> USE DEF Undo, UndoFails
<1>1. start[s].pc \in {"undo vm", "undo storage", "undo clone"}
  OBVIOUS
<1>2. PICK pc \in {"undo storage", "undo clone", "ended"} : StartTo(s, pc)
  <2>1. PICK pc \in {"undo storage", "undo clone", "ended"} :
           start' = [start EXCEPT ![s].pc = pc]
    BY <1>1 DEF AfterUndo
  <2>2. QED
    BY <2>1, StartMoves DEF StartPcs, RecoveryInv
<1>3. vm' \in [Sessions -> Vm] /\ \A r \in Sessions \ {s} : vm'[r] = vm[r]
  BY VmTyped DEF RecoveryInv, Types
<1>4. /\ left' \in [Sessions -> SUBSET {"storage", "mount"}]
      /\ \A r \in Sessions \ {s} : left'[r] = left[r]
  <2>1. left \in [Sessions -> SUBSET {"storage", "mount"}]
    BY DEF RecoveryInv, Types
  <2>2. \/ UNCHANGED left \/ left' = [left EXCEPT ![s] = {}]
        \/ \E l \in SUBSET left[s] : left' = [left EXCEPT ![s] = l]
    OBVIOUS
  <2>3. QED
    BY <2>1, <2>2
<1>5. /\ clone' \in [Sessions -> BOOLEAN]
      /\ \A r \in Sessions \ {s} : clone'[r] = clone[r]
      /\ clone'[s] => clone[s]
  <2>1. clone \in [Sessions -> BOOLEAN]
    BY DEF RecoveryInv, Types
  <2>2. \/ UNCHANGED clone
        \/ clone' = [clone EXCEPT ![s] = FALSE]
        \/ \E b \in {TRUE, ~start[s].known} : clone' = [clone EXCEPT ![s] = @ /\ b]
    OBVIOUS
  <2>3. clone'[s] => clone[s]
    BY <2>1, <2>2
  <2>4. QED
    BY <2>1, <2>2, <2>3
<1>6. Types'
  BY <1>2, <1>3, <1>4, <1>5, FaultTyped DEF Types, StartTo, RecoveryInv
<1> /\ thread' = thread /\ web' = web /\ crashes' = crashes /\ sess' = sess
  OBVIOUS
<1> HIDE DEF Undo, UndoFails
<1>7. QED
  BY <1>1, <1>2, <1>3, <1>4, <1>5, <1>6, StartStepKeeps
     DEF StartGood, Before, StartTo, RecoveryInv, Types

-----------------------------------------------------------------------------
(* A thread takes a step *)

\* Thread t comes to pc, or is free again; the others stay where they are.
TaskTo(t, pc, ok) ==
    /\ thread' \in [Threads -> Task]
    /\ \A u \in Threads \ {t} : thread'[u] = thread[u]
    /\ thread'[t].op = thread[t].op /\ thread'[t].s = thread[t].s
    /\ thread'[t].pc = pc /\ thread'[t].ok = ok

TaskEnds(t) ==
    /\ thread' \in [Threads -> Task]
    /\ \A u \in Threads \ {t} : thread'[u] = thread[u]
    /\ thread'[t].pc = "idle"

LEMMA TaskMoves ==
    ASSUME Types, NEW t \in Threads, NEW pc \in TaskPcs
    PROVE  /\ To(t, pc) => TaskTo(t, pc, thread[t].ok)
           /\ Fails(t, pc) => TaskTo(t, pc, FALSE)
           /\ Ends(t) => TaskEnds(t)
<1> DEFINE r == [thread[t] EXCEPT !.pc = pc]
           f == [thread[t] EXCEPT !.pc = pc, !.ok = FALSE]
<1> thread[t] \in Task
  BY DEF Types
<1>1. /\ r \in Task /\ r.pc = pc /\ r.ok = thread[t].ok
      /\ r.op = thread[t].op /\ r.s = thread[t].s
  BY DEF Task
<1>2. /\ f \in Task /\ f.pc = pc /\ f.ok = FALSE
      /\ f.op = thread[t].op /\ f.s = thread[t].s
  BY DEF Task
<1>3. Idle \in Task /\ Idle.pc = "idle"
  BY DEF Task, TaskPcs, Idle
<1>4. /\ To(t, pc) => thread' = [thread EXCEPT ![t] = r]
      /\ Fails(t, pc) => thread' = [thread EXCEPT ![t] = f]
      /\ Ends(t) => thread' = [thread EXCEPT ![t] = Idle]
  BY DEF To, Fails, Ends
<1> HIDE DEF r, f
<1>5. QED
  BY <1>1, <1>2, <1>3, <1>4 DEF TaskTo, TaskEnds, Types

\* An UPDATE finds the row, or has no effect.
LEMMA StatusSet ==
    ASSUME Types, NEW s \in Sessions, NEW status \in Statuses, NEW error \in BOOLEAN,
           SetStatus(s, status, error)
    PROVE  /\ sess' \in [Sessions -> Row]
           /\ \A q \in Sessions \ {s} : sess'[q] = sess[q]
           /\ sess'[s].known = sess[s].known
           /\ ~RowExists(s) => sess'[s] = sess[s]
           /\ RowExists(s) => /\ sess'[s].status = status
                              /\ sess'[s].error <=> sess[s].error \/ error
<1> DEFINE r == [sess[s] EXCEPT !.status = status, !.error = @ \/ error]
<1> sess[s] \in Row
  BY DEF Types
<1>1. r \in Row /\ r.status = status /\ r.known = sess[s].known
  BY DEF Row
<1>2. r.error <=> sess[s].error \/ error
  BY DEF Row
<1>3. sess' = IF RowExists(s) THEN [sess EXCEPT ![s] = r] ELSE sess
  BY DEF SetStatus
<1> HIDE DEF r
<1>4. QED
  BY <1>1, <1>2, <1>3 DEF Types

\* Other threads on the same session rely on what is gone to stay away.
LEMMA TaskStepKeeps ==
    ASSUME RecoveryInv, NEW t \in Threads, NEW s \in Sessions,
           thread[t].pc # "idle", thread[t].s = s,
           Types', start' = start, web' = web, crashes' = crashes,
           \A u \in Threads \ {t} : thread'[u] = thread[u],
           \A q \in Sessions \ {s} :
               /\ sess'[q] = sess[q] /\ clone'[q] = clone[q]
               /\ left'[q] = left[q] /\ vm'[q] = vm[q],
           sess'[s].known = sess[s].known, sess'[s].status # "none",
           clone'[s] => clone[s],
           left'[s] \subseteq left[s],
           vm[s].disks = 0 => vm'[s].disks = 0,
           TaskGood(thread[t])',
           ClosedClean(s)',
           sess'[s].status = "discarding" /\ crashes = 0
               => \/ Discards(thread'[t], s)
                  \/ sess[s].status = "discarding" /\ ~Discards(thread[t], s)
    PROVE  RecoveryInv'
<1>1. ASSUME NEW u \in Threads PROVE TaskGood(thread[u])'
  BY DEF RecoveryInv, TaskGood
<1>2. ASSUME NEW q \in Sessions PROVE StartGood(q)'
  BY DEF RecoveryInv, StartGood, TaskGood
<1>3. WebGood'
  BY DEF RecoveryInv, WebGood
<1>4. ASSUME NEW q \in Sessions PROVE ClosedClean(q)'
  BY DEF RecoveryInv, ClosedClean, Judged
<1>5. ASSUME NEW q \in Sessions PROVE Attended(q)'
  <2>1. ASSUME sess'[q].status = "discarding", crashes = 0
        PROVE  \E u \in Threads : Discards(thread'[u], q)
    BY <2>1 DEF RecoveryInv, Attended, Discards
  <2>2. QED
    BY <2>1 DEF Attended
<1>6. QED
  BY <1>1, <1>2, <1>3, <1>4, <1>5 DEF RecoveryInv

\* A thread that goes on to pc and leaves the row alone.
LEMMA GoesOn ==
    ASSUME RecoveryInv, NEW t \in Threads, NEW s \in Sessions,
           thread[t].pc \notin {"idle", "mark"}, thread[t].s = s,
           NEW pc \in TaskPcs \ {"idle", "mark"}, NEW ok, TaskTo(t, pc, ok),
           UNCHANGED <<sess, start, web, listed, crashes>>,
           faults' \in Nat,
           clone' \in [Sessions -> BOOLEAN],
           left' \in [Sessions -> SUBSET {"storage", "mount"}],
           vm' \in [Sessions -> Vm], snap' \in [Sessions -> BOOLEAN],
           \A q \in Sessions \ {s} :
               clone'[q] = clone[q] /\ left'[q] = left[q] /\ vm'[q] = vm[q],
           clone'[s] => clone[s], left'[s] \subseteq left[s],
           vm[s].disks = 0 => vm'[s].disks = 0,
           pc # "open", pc = "vm" => thread[t].op = "discard",
           pc \in Teardown => thread[t].pc \in Teardown \/ thread[t].op = "discard"
                                \/ vm'[s].disks = 0,
           ok => /\ pc \in Teardown \ {"remove"} => "storage" \notin left'[s]
                 /\ pc \in {"delete", "snapshot", "finish"} => "mount" \notin left'[s]
                 /\ pc \in {"snapshot", "finish"} /\ sess[s].known => ~clone'[s]
    PROVE  RecoveryInv'
<1>1. Types'
  BY DEF Types, TaskTo, RecoveryInv
<1>2. TaskGood(thread[t])'
  BY DEF TaskGood, TaskTo, RecoveryInv
<1>3. ClosedClean(s)'
  BY DEF RecoveryInv, ClosedClean, Judged
<1>4. Discards(thread[t], s) => Discards(thread'[t], s)
  BY DEF Discards, TaskTo
<1>5. sess[s].status # "none"
  BY DEF RecoveryInv, TaskGood
<1>6. QED
  BY <1>1, <1>2, <1>3, <1>4, <1>5, TaskStepKeeps DEF TaskTo

LEMMA AtSession ==
    ASSUME RecoveryInv, NEW t \in Threads, thread[t].pc # "idle"
    PROVE  /\ thread[t].s \in Sessions
           /\ sess[thread[t].s].status # "none"
           /\ thread[t].op \in {"migrate", "discard", "cleanup"}
BY DEF RecoveryInv, TaskGood, Types, Task

\* A thread that gives up: the session runs again, with an error.
LEMMA GivesUp ==
    ASSUME RecoveryInv, NEW t \in Threads, NEW s \in Sessions,
           thread[t].pc # "idle", thread[t].s = s, sess[s].status # "none",
           TaskEnds(t), SetStatus(s, "running", TRUE),
           faults' \in Nat, UNCHANGED <<start, web, listed, outside, crashes>>
    PROVE  RecoveryInv'
<1>1. /\ sess' \in [Sessions -> Row]
      /\ \A q \in Sessions \ {s} : sess'[q] = sess[q]
      /\ sess'[s].known = sess[s].known
      /\ sess'[s].status \in {sess[s].status, "running"}
      /\ sess'[s].status = "running" \/ (sess'[s] = sess[s] /\ ~RowExists(s))
  BY StatusSet DEF RecoveryInv, Statuses
<1>2. Types'
  BY <1>1 DEF Types, TaskEnds, RecoveryInv, outside
<1>3. TaskGood(thread[t])'
  BY DEF TaskGood, TaskEnds
<1>4. ClosedClean(s)'
  BY <1>1 DEF ClosedClean, Judged, RecoveryInv, outside
<1>5. sess'[s].status # "discarding"
  BY <1>1 DEF RowExists
<1>6. QED
  BY <1>1, <1>2, <1>3, <1>4, <1>5, TaskStepKeeps DEF TaskEnds, outside

LEMMA OpenKeeps ==
    ASSUME RecoveryInv, NEW t \in Threads, Open(t)
    PROVE  RecoveryInv'
<1> DEFINE s == thread[t].s
           pc == IF thread[t].op = "migrate" THEN "move" ELSE "vm"
<1>1. s \in Sessions /\ pc \in TaskPcs \ ({"idle", "mark"} \cup Teardown)
  BY AtSession DEF Open, TaskPcs, Teardown
<1>2. TaskTo(t, pc, thread[t].ok)
  BY <1>1, TaskMoves DEF Open, RecoveryInv
<1>3. UNCHANGED <<sess, start, web, listed, outside, faults, crashes>>
      /\ thread[t].pc = "open"
  BY DEF Open
<1>4. pc # "open" /\ (pc = "vm" => thread[t].op = "discard")
  BY <1>3, AtSession DEF RecoveryInv, TaskGood
<1> HIDE DEF pc
<1>5. QED
  BY <1>1, <1>2, <1>3, <1>4, GoesOn DEF RecoveryInv, Types, outside, Teardown

LEMMA MoveDiskKeeps ==
    ASSUME RecoveryInv, NEW t \in Threads, MoveDisk(t)
    PROVE  RecoveryInv'
<1> DEFINE s == thread[t].s
           r == [vm[s] EXCEPT !.disks = @ - 1]
<1>1. s \in Sessions /\ sess[s].status # "none" /\ thread[t].pc = "move"
  BY AtSession DEF MoveDisk
<1>2. r \in Vm /\ vm' = [vm EXCEPT ![s] = r] /\ vm[s].disks # 0
  <2>1. vm[s] \in Vm /\ vm[s].disks > 0 /\ vm' = [vm EXCEPT ![s] = r]
    BY <1>1 DEF RecoveryInv, Types, MoveDisk
  <2>2. QED
    BY <2>1, VmTyped DEF Vm
<1> HIDE DEF r
<1>3. UNCHANGED <<sess, start, thread, web, listed, clone, left, snap, faults, crashes>>
  BY DEF MoveDisk
<1>4. Types'
  BY <1>2, <1>3 DEF Types, RecoveryInv
<1>5. TaskGood(thread[t])' /\ ClosedClean(s)'
  BY <1>1, <1>2, <1>3 DEF TaskGood, ClosedClean, Judged, RecoveryInv, Types, Teardown
<1>6. QED
  BY <1>1, <1>2, <1>3, <1>4, <1>5, TaskStepKeeps DEF RecoveryInv, Types

LEMMA MoveDoneKeeps ==
    ASSUME RecoveryInv, NEW t \in Threads, MoveDone(t)
    PROVE  RecoveryInv'
<1> DEFINE s == thread[t].s
<1>1. s \in Sessions /\ thread[t].pc = "move" /\ vm[s].disks = 0
  BY AtSession DEF MoveDone
<1>2. TaskTo(t, "remove", thread[t].ok)
  BY TaskMoves DEF MoveDone, RecoveryInv, TaskPcs
<1>3. UNCHANGED <<sess, start, web, listed, outside, faults, crashes>>
  BY DEF MoveDone
<1>4. QED
  BY <1>1, <1>2, <1>3, GoesOn DEF RecoveryInv, Types, outside, TaskPcs

LEMMA MoveFailsKeeps ==
    ASSUME RecoveryInv, NEW t \in Threads, MoveFails(t)
    PROVE  RecoveryInv'
<1> DEFINE s == thread[t].s
<1>1. s \in Sessions /\ thread[t].pc = "move" /\ sess[s].status # "none"
  BY AtSession DEF MoveFails
<1>2. TaskEnds(t)
  BY TaskMoves DEF MoveFails, RecoveryInv, TaskPcs
<1>3. SetStatus(s, "running", TRUE)
  BY DEF MoveFails
<1>4. faults' \in Nat /\ UNCHANGED <<start, web, listed, outside, crashes>>
  BY FaultTyped DEF MoveFails, RecoveryInv, Types
<1>5. QED
  BY <1>1, <1>2, <1>3, <1>4, GivesUp

LEMMA RaisesKeeps ==
    ASSUME RecoveryInv, NEW t \in Threads, Raises(t)
    PROVE  RecoveryInv'
<1>1. PICK s \in Sessions :
          /\ thread[t].s = s /\ thread[t].pc \in {"open", "remove"}
          /\ sess[s].status # "none"
  BY AtSession DEF Raises
<1>2. TaskEnds(t)
  BY TaskMoves DEF Raises, RecoveryInv, TaskPcs
<1>3. faults' \in Nat /\ UNCHANGED <<start, web, listed, outside, crashes>>
  BY FaultTyped DEF Raises, RecoveryInv, Types
<1>4. CASE thread[t].op # "migrate"
  BY <1>1, <1>2, <1>3, <1>4, GivesUp DEF Raises
<1>5. CASE thread[t].op = "migrate"
  <2>1. sess' = sess
    BY <1>5 DEF Raises
  <2>2. Types'
    BY <1>2, <1>3, <2>1 DEF Types, TaskEnds, RecoveryInv, outside
  <2>3. TaskGood(thread[t])' /\ ~Discards(thread[t], s)
    BY <1>2, <1>5 DEF TaskGood, TaskEnds, Discards
  <2>4. ClosedClean(s)'
    BY <1>1, <1>3, <2>1 DEF RecoveryInv, ClosedClean, Judged, outside
  <2>5. QED
    BY <1>1, <1>2, <1>3, <2>1, <2>2, <2>3, <2>4, TaskStepKeeps
       DEF TaskEnds, outside
<1>6. QED
  BY <1>4, <1>5

LEMMA DestroyKeeps ==
    ASSUME RecoveryInv, NEW t \in Threads, DestroyVm(t) \/ DestroyFails(t)
    PROVE  RecoveryInv'
<1> DEFINE s == thread[t].s
<1>1. s \in Sessions /\ thread[t].pc = "vm"
  BY AtSession DEF DestroyVm, DestroyFails
<1>2. TaskTo(t, "remove", thread[t].ok)
  BY TaskMoves DEF DestroyVm, DestroyFails, RecoveryInv, TaskPcs
<1>3. /\ UNCHANGED <<sess, start, web, listed, clone, left, snap, crashes>>
      /\ faults' \in Nat
      /\ vm' = vm \/ vm' = [vm EXCEPT ![s] = NoVm]
  BY FaultTyped DEF DestroyVm, DestroyFails, RecoveryInv, Types, outside
<1>4. /\ vm' \in [Sessions -> Vm]
      /\ \A q \in Sessions \ {s} : vm'[q] = vm[q]
      /\ vm[s].disks = 0 => vm'[s].disks = 0
  BY <1>1, <1>3, VmTyped DEF RecoveryInv, Types, NoVm
<1>5. thread[t].op = "discard"
  BY <1>1 DEF RecoveryInv, TaskGood
<1>6. QED
  BY <1>1, <1>2, <1>3, <1>4, <1>5, GoesOn DEF RecoveryInv, Types, TaskPcs

LEMMA LeftShrinks ==
    ASSUME Types, NEW s \in Sessions, NEW x, left' = [left EXCEPT ![s] = @ \ {x}]
    PROVE  /\ left' \in [Sessions -> SUBSET {"storage", "mount"}]
           /\ \A q \in Sessions \ {s} : left'[q] = left[q]
           /\ left'[s] \subseteq left[s] /\ x \notin left'[s]
<1>1. left[s] \in SUBSET {"storage", "mount"}
  BY DEF Types
<1>2. left[s] \ {x} \in SUBSET {"storage", "mount"}
  BY <1>1
<1>3. left'[s] = left[s] \ {x} /\ \A q \in Sessions \ {s} : left'[q] = left[q]
  BY DEF Types
<1>4. QED
  BY <1>2, <1>3 DEF Types

LEMMA RemoveStorageKeeps ==
    ASSUME RecoveryInv, NEW t \in Threads, RemoveStorage(t)
    PROVE  RecoveryInv'
<1> DEFINE s == thread[t].s
<1>1. s \in Sessions /\ thread[t].pc = "remove"
  BY AtSession DEF RemoveStorage
<1>2. \/ /\ TaskTo(t, "unmount", thread[t].ok)
         /\ left' = [left EXCEPT ![s] = @ \ {"storage"}]
      \/ TaskTo(t, "unmount", FALSE) /\ left' = left
  BY TaskMoves DEF RemoveStorage, RecoveryInv, TaskPcs
<1>3. /\ UNCHANGED <<sess, start, web, listed, clone, vm, snap, crashes>>
      /\ faults' \in Nat
  BY FaultTyped DEF RemoveStorage, RecoveryInv, Types
<1>4. /\ left' \in [Sessions -> SUBSET {"storage", "mount"}]
      /\ \A q \in Sessions \ {s} : left'[q] = left[q]
      /\ left'[s] \subseteq left[s]
      /\ TaskTo(t, "unmount", FALSE) \/ "storage" \notin left'[s]
  BY <1>1, <1>2, LeftShrinks DEF RecoveryInv, Types
<1>5. PICK ok : TaskTo(t, "unmount", ok) /\ (ok => "storage" \notin left'[s])
  BY <1>2, <1>4
<1>6. QED
  BY <1>1, <1>3, <1>4, <1>5, GoesOn DEF RecoveryInv, Types, TaskPcs, Teardown

LEMMA UnmountKeeps ==
    ASSUME RecoveryInv, NEW t \in Threads, Unmount(t)
    PROVE  RecoveryInv'
<1> DEFINE s == thread[t].s
<1>1. s \in Sessions /\ thread[t].pc = "unmount"
  BY AtSession DEF Unmount
<1>2. \/ /\ TaskTo(t, "delete", thread[t].ok)
         /\ left' = [left EXCEPT ![s] = @ \ {"mount"}]
      \/ /\ TaskTo(t, "delete", FALSE)
         /\ left' \in {left, [left EXCEPT ![s] = @ \ {"mount"}]}
  BY TaskMoves DEF Unmount, RecoveryInv, TaskPcs
<1>3. /\ UNCHANGED <<sess, start, web, listed, clone, vm, snap, crashes>>
      /\ faults' \in Nat
  BY FaultTyped DEF Unmount, RecoveryInv, Types
<1>4. thread[t].ok => "storage" \notin left[s]
  BY <1>1 DEF RecoveryInv, TaskGood, Teardown
<1>5. /\ left' \in [Sessions -> SUBSET {"storage", "mount"}]
      /\ \A q \in Sessions \ {s} : left'[q] = left[q]
      /\ left'[s] \subseteq left[s]
      /\ TaskTo(t, "delete", FALSE) \/ "mount" \notin left'[s]
  BY <1>1, <1>2, LeftShrinks DEF RecoveryInv, Types
<1>6. PICK ok : TaskTo(t, "delete", ok)
                  /\ (ok => "storage" \notin left'[s] /\ "mount" \notin left'[s])
  <2>1. CASE TaskTo(t, "delete", FALSE)
    BY <2>1
  <2>2. CASE TaskTo(t, "delete", thread[t].ok) /\ "mount" \notin left'[s]
    BY <2>2, <1>4, <1>5
  <2>3. QED
    BY <2>1, <2>2, <1>2, <1>5
<1>7. QED
  BY <1>1, <1>3, <1>5, <1>6, GoesOn DEF RecoveryInv, Types, TaskPcs, Teardown

LEMMA DeleteKeeps ==
    ASSUME RecoveryInv, NEW t \in Threads, DeleteClone(t) \/ DeleteFails(t)
    PROVE  RecoveryInv'
<1> DEFINE s == thread[t].s
<1>1. s \in Sessions /\ thread[t].pc = "delete"
  BY AtSession DEF DeleteClone, DeleteFails
<1>2. \/ /\ TaskTo(t, "snapshot", thread[t].ok)
         /\ clone' = [clone EXCEPT ![s] = @ /\ ~sess[s].known]
      \/ /\ TaskTo(t, "snapshot", FALSE)
         /\ clone' \in {clone, [clone EXCEPT ![s] = FALSE]}
  BY TaskMoves DEF DeleteClone, DeleteFails, RecoveryInv, TaskPcs
<1>3. /\ UNCHANGED <<sess, start, web, listed, left, vm, snap, crashes>>
      /\ faults' \in Nat
  BY FaultTyped DEF DeleteClone, DeleteFails, RecoveryInv, Types
<1>4. thread[t].ok => "storage" \notin left[s] /\ "mount" \notin left[s]
  BY <1>1 DEF RecoveryInv, TaskGood, Teardown
<1>5. /\ clone' \in [Sessions -> BOOLEAN]
      /\ \A q \in Sessions \ {s} : clone'[q] = clone[q]
      /\ clone'[s] => clone[s]
  BY <1>1, <1>2 DEF RecoveryInv, Types, Row
<1>6. TaskTo(t, "snapshot", FALSE) \/ (sess[s].known => ~clone'[s])
  BY <1>1, <1>2 DEF RecoveryInv, Types, Row
<1>7. QED
  BY <1>1, <1>2, <1>3, <1>4, <1>5, <1>6, GoesOn
     DEF RecoveryInv, Types, TaskPcs, Teardown

LEMMA DeleteSnapshotKeeps ==
    ASSUME RecoveryInv, NEW t \in Threads, DeleteSnapshot(t)
    PROVE  RecoveryInv'
<1> DEFINE s == thread[t].s
<1>1. s \in Sessions /\ thread[t].pc = "snapshot"
  BY AtSession DEF DeleteSnapshot
<1>2. TaskTo(t, "finish", thread[t].ok)
  BY TaskMoves DEF DeleteSnapshot, RecoveryInv, TaskPcs
<1>3. /\ UNCHANGED <<sess, start, web, listed, clone, left, vm, crashes>>
      /\ faults' \in Nat
  BY FaultTyped DEF DeleteSnapshot, RecoveryInv, Types
<1>4. snap' \in [Sessions -> BOOLEAN]
  BY <1>1 DEF DeleteSnapshot, RecoveryInv, Types, Row
<1>5. thread[t].ok => /\ "storage" \notin left[s] /\ "mount" \notin left[s]
                      /\ sess[s].known => ~clone[s]
  BY <1>1 DEF RecoveryInv, TaskGood, Teardown
<1>6. QED
  BY <1>1, <1>2, <1>3, <1>4, <1>5, GoesOn DEF RecoveryInv, Types, TaskPcs, Teardown

LEMMA MarkKeeps ==
    ASSUME RecoveryInv, NEW t \in Threads, Mark(t)
    PROVE  RecoveryInv'
<1>1. PICK s \in Sessions :
          /\ thread[t].s = s /\ thread[t].pc = "mark" /\ sess[s].status # "none"
          /\ thread[t].op \in {"migrate", "discard", "cleanup"}
  BY AtSession DEF Mark
<1>2. UNCHANGED <<start, web, listed, clone, left, vm, snap, faults, crashes>>
  BY DEF Mark, outside
<1>3. CASE RowExists(s)
  <2> DEFINE status == IF thread[t].op = "migrate" THEN "migrating" ELSE "discarding"
             pc == IF thread[t].op = "cleanup" THEN "remove" ELSE "open"
  <2>1. /\ status \in {"migrating", "discarding"} /\ pc \in {"remove", "open"}
        /\ pc = "open" => thread[t].op # "cleanup"
        /\ pc = "remove" => thread[t].op = "cleanup"
        /\ status = "discarding" => thread[t].op \in {"discard", "cleanup"}
    BY <1>1
  <2>2. SetStatus(s, status, FALSE) /\ To(t, pc)
    BY <1>1, <1>3 DEF Mark
  <2> HIDE DEF status, pc
  <2>3. TaskTo(t, pc, thread[t].ok)
    BY <2>1, <2>2, TaskMoves DEF RecoveryInv, TaskPcs
  <2>4. /\ sess' \in [Sessions -> Row]
        /\ \A q \in Sessions \ {s} : sess'[q] = sess[q]
        /\ sess'[s].known = sess[s].known
        /\ sess'[s].status = status
    BY <1>3, <2>1, <2>2, StatusSet DEF RecoveryInv, Statuses
  <2>5. Types'
    BY <1>2, <2>3, <2>4 DEF Types, TaskTo, RecoveryInv
  <2>6. TaskGood(thread[t])'
    BY <1>1, <1>2, <2>1, <2>3, <2>4 DEF TaskGood, TaskTo, RecoveryInv, Teardown
  <2>7. ClosedClean(s)'
    BY <2>1, <2>4 DEF ClosedClean
  <2>8. status = "discarding" => Discards(thread'[t], s)
    BY <1>1, <2>1, <2>3 DEF Discards, TaskTo
  <2>9. QED
    BY <1>1, <1>2, <2>1, <2>3, <2>4, <2>5, <2>6, <2>7, <2>8, TaskStepKeeps DEF TaskTo
<1>4. CASE ~RowExists(s)
  <2>1. TaskEnds(t) /\ sess' = sess
    BY <1>1, <1>4, TaskMoves DEF Mark, RecoveryInv, TaskPcs, SetStatus
  <2>2. Types'
    BY <1>2, <2>1 DEF Types, TaskEnds, RecoveryInv
  <2>3. TaskGood(thread[t])'
    BY <2>1 DEF TaskGood, TaskEnds
  <2>4. ClosedClean(s)'
    BY <1>2, <2>1 DEF RecoveryInv, ClosedClean, Judged
  <2>5. sess[s].status # "discarding"
    BY <1>4 DEF RowExists
  <2>6. QED
    BY <1>1, <1>2, <2>1, <2>2, <2>3, <2>4, <2>5, TaskStepKeeps DEF TaskEnds
<1>5. QED
  BY <1>3, <1>4

\* A teardown that comes here without failure has removed everything.
LEMMA FinishKeeps ==
    ASSUME RecoveryInv, NEW t \in Threads, Finish(t)
    PROVE  RecoveryInv'
<1>1. PICK s \in Sessions :
          /\ thread[t].s = s /\ thread[t].pc = "finish" /\ sess[s].status # "none"
          /\ thread[t].op \in {"migrate", "discard", "cleanup"}
          /\ thread[t].ok \in BOOLEAN
  BY AtSession DEF Finish, RecoveryInv, Types, Task
<1>2. UNCHANGED <<start, web, listed, clone, left, vm, snap, faults, crashes>>
  BY DEF Finish, outside
<1>3. TaskEnds(t)
  BY TaskMoves DEF Finish, RecoveryInv, TaskPcs
<1>4. PICK status \in {"done", "discarded", "running"} :
          /\ SetStatus(s, status, ~thread[t].ok)
          /\ status = "discarded" => thread[t].ok
  BY <1>1 DEF Finish
<1>5. /\ sess' \in [Sessions -> Row]
      /\ \A q \in Sessions \ {s} : sess'[q] = sess[q]
      /\ sess'[s].known = sess[s].known
      /\ sess'[s].status # "none"
      /\ \/ sess'[s] = sess[s]
         \/ sess'[s].status = status /\ (~sess'[s].error => thread[t].ok)
      /\ sess'[s].status # "discarding"
  BY <1>1, <1>4, StatusSet DEF RecoveryInv, Statuses, RowExists
<1>6. Types'
  BY <1>2, <1>3, <1>5 DEF Types, TaskEnds, RecoveryInv
<1>7. TaskGood(thread[t])'
  BY <1>3 DEF TaskGood, TaskEnds
<1>8. thread[t].ok => left[s] = {} /\ (sess[s].known => ~clone[s])
  BY <1>1 DEF RecoveryInv, TaskGood, Teardown, Types
<1>9. ClosedClean(s)'
  BY <1>2, <1>4, <1>5, <1>8 DEF ClosedClean, Judged, RecoveryInv
<1>10. QED
  BY <1>1, <1>2, <1>3, <1>5, <1>6, <1>7, <1>9, TaskStepKeeps DEF TaskEnds

LEMMA ThreadKeeps ==
    ASSUME RecoveryInv, NEW t \in Threads, ThreadNext(t)
    PROVE  RecoveryInv'
BY MarkKeeps, OpenKeeps, RaisesKeeps, MoveDiskKeeps, MoveDoneKeeps, MoveFailsKeeps,
   DestroyKeeps, RemoveStorageKeeps, UnmountKeeps, DeleteKeeps, DeleteSnapshotKeeps,
   FinishKeeps
   DEF ThreadNext

-----------------------------------------------------------------------------
(* Requests, the administrator, and the death of the process *)

\* A thread is started for a session that has a row.
LEMMA SpawnKeeps ==
    ASSUME RecoveryInv, NEW t \in Threads, NEW s \in Sessions,
           NEW op \in {"migrate", "discard", "cleanup"},
           Spawn(t, op, s), sess[s].status # "none",
           op = "cleanup" => vm[s].disks = 0,
           web' = web \/ web' = IdleWeb,
           UNCHANGED <<sess, start, listed, outside, faults, crashes>>
    PROVE  RecoveryInv'
<1> DEFINE r == [op |-> op, s |-> s, pc |-> "mark", ok |-> TRUE]
<1>1. r \in Task /\ r.pc = "mark" /\ r.op = op /\ r.s = s
  BY DEF Task, TaskPcs
<1>2. thread[t] = Idle /\ thread' = [thread EXCEPT ![t] = r]
  BY DEF Spawn
<1> HIDE DEF r
<1>3. /\ thread' \in [Threads -> Task] /\ thread'[t] = r
      /\ \A u \in Threads \ {t} : thread'[u] = thread[u]
  BY <1>1, <1>2 DEF RecoveryInv, Types
<1>4. Types' /\ WebGood'
  BY <1>3 DEF Types, Web, IdleWeb, WebGood, RecoveryInv, outside
<1>5. ASSUME NEW u \in Threads PROVE TaskGood(thread[u])'
  BY <1>1, <1>3 DEF RecoveryInv, TaskGood, Teardown, outside
<1>6. ASSUME NEW q \in Sessions PROVE StartGood(q)' /\ ClosedClean(q)'
  BY DEF RecoveryInv, StartGood, ClosedClean, Judged, outside
<1>7. ASSUME NEW q \in Sessions PROVE Attended(q)'
  BY <1>2, <1>3 DEF RecoveryInv, Attended, Discards, Idle
<1>8. QED
  BY <1>4, <1>5, <1>6, <1>7 DEF RecoveryInv

LEMMA RequestsKeep ==
    ASSUME RecoveryInv, NEW t \in Threads, NEW s \in Sessions,
           Migrate(t, s) \/ Discard(t, s) \/ CleanupVerifies(t)
    PROVE  RecoveryInv'
<1>1. CASE Migrate(t, s)
  BY <1>1, SpawnKeeps DEF Migrate
<1>2. CASE Discard(t, s)
  BY <1>2, SpawnKeeps DEF Discard, RowExists
<1>3. CASE CleanupVerifies(t)
  BY <1>3, SpawnKeeps DEF CleanupVerifies, RecoveryInv, WebGood
<1>4. QED
  BY <1>1, <1>2, <1>3

\* Only the worker or the list moves.
LEMMA WebMovesKeep ==
    ASSUME RecoveryInv,
           \/ \E s \in Sessions : CleanupReads(s) \/ DeleteOrphanFails(s)
           \/ CleanupRefuses
           \/ ScanOrphans
    PROVE  RecoveryInv'
<1>1. /\ UNCHANGED <<sess, start, thread, outside, crashes>>
      /\ faults' \in Nat
  BY FaultTyped DEF CleanupReads, DeleteOrphanFails, CleanupRefuses, ScanOrphans,
                    RecoveryInv, Types
<1>2. web' \in Web /\ listed' \subseteq Sessions /\ WebGood'
  BY <1>1 DEF CleanupReads, DeleteOrphanFails, CleanupRefuses, ScanOrphans,
         RecoveryInv, Types, Web, WebGood, IdleWeb, outside
<1>3. QED
  BY <1>1, <1>2 DEF RecoveryInv, Types, StartGood, TaskGood, ClosedClean, Judged,
                    Attended, outside

LEMMA DismissKeeps ==
    ASSUME RecoveryInv, NEW s \in Sessions, Dismiss(s)
    PROVE  RecoveryInv'
<1> DEFINE r == [sess[s] EXCEPT !.status = "deleted"]
<1>1. r \in Row /\ r.status = "deleted" /\ r.known = sess[s].known
  <2>1. sess[s] \in Row
    BY DEF RecoveryInv, Types
  <2>2. QED
    BY <2>1 DEF Row, Statuses
<1>2. sess' = [sess EXCEPT ![s] = r] /\ sess[s].status = "done"
  BY DEF Dismiss
<1> HIDE DEF r
<1>3. /\ sess' \in [Sessions -> Row] /\ sess'[s] = r
      /\ \A q \in Sessions \ {s} : sess'[q] = sess[q]
  BY <1>1, <1>2 DEF RecoveryInv, Types
<1>4. UNCHANGED <<start, thread, web, listed, outside, faults, crashes>>
  BY DEF Dismiss
<1>5. QED
  BY <1>1, <1>2, <1>3, <1>4
     DEF RecoveryInv, Types, StartGood, TaskGood, WebGood, ClosedClean, Judged,
         Attended, outside

\* The clone that is deleted was there, so its start job is past making it.
LEMMA DeleteOrphanKeeps ==
    ASSUME RecoveryInv, NEW s \in Sessions, DeleteOrphan(s)
    PROVE  RecoveryInv'
<1>1. /\ clone' \in [Sessions -> BOOLEAN] /\ ~clone'[s]
      /\ \A q \in Sessions : clone'[q] => clone[q]
      /\ start[s].pc \notin Before
  BY DEF DeleteOrphan, RecoveryInv, Types, StartGood
<1>2. /\ UNCHANGED <<sess, start, thread, left, vm, snap, crashes>>
      /\ listed' \subseteq Sessions
      /\ faults' \in Nat
      /\ web' \in {[pc |-> "orphan", s |-> s], IdleWeb}
  BY FaultTyped DEF DeleteOrphan, RecoveryInv, Types
<1>3. Types' /\ WebGood'
  BY <1>1, <1>2 DEF RecoveryInv, Types, Web, IdleWeb, WebGood
<1>4. QED
  BY <1>1, <1>2, <1>3
     DEF RecoveryInv, StartGood, TaskGood, ClosedClean, Judged, Attended

LEMMA OrphanDeletedKeeps ==
    ASSUME RecoveryInv, OrphanDeleted
    PROVE  RecoveryInv'
<1>1. PICK s \in Sessions : web.s = s /\ ~clone[s]
  BY DEF RecoveryInv, WebGood, OrphanDeleted
<1>2. UNCHANGED <<start, thread, listed, outside, faults, crashes>> /\ web' = IdleWeb
  BY DEF OrphanDeleted
<1>3. /\ sess' \in [Sessions -> Row]
      /\ \A q \in Sessions \ {s} : sess'[q] = sess[q]
      /\ sess'[s].known = sess[s].known
      /\ sess'[s] = sess[s] \/ (RowExists(s) /\ sess'[s].status = "discarded")
  <2> DEFINE r == [sess[s] EXCEPT !.status = "discarded", !.error = FALSE]
  <2>1. r \in Row /\ r.status = "discarded" /\ r.known = sess[s].known
    <3>1. sess[s] \in Row
      BY DEF RecoveryInv, Types
    <3>2. QED
      BY <3>1 DEF Row, Statuses
  <2>2. sess' = sess \/ (RowExists(s) /\ sess' = [sess EXCEPT ![s] = r])
    BY <1>1 DEF OrphanDeleted
  <2> HIDE DEF r
  <2>3. QED
    BY <2>1, <2>2 DEF RecoveryInv, Types
<1>4. Types' /\ WebGood'
  BY <1>2, <1>3 DEF RecoveryInv, Types, Web, IdleWeb, WebGood, outside
<1>5. ASSUME NEW q \in Sessions PROVE StartGood(q)' /\ Attended(q)'
  BY <1>2, <1>3 DEF RecoveryInv, StartGood, Attended, RowExists, outside
<1>6. ASSUME NEW q \in Sessions PROVE ClosedClean(q)'
  BY <1>1, <1>2, <1>3 DEF RecoveryInv, ClosedClean, Judged, outside
<1>7. ASSUME NEW t \in Threads PROVE TaskGood(thread[t])'
  BY <1>2, <1>3 DEF RecoveryInv, TaskGood, outside
<1>8. QED
  BY <1>4, <1>5, <1>6, <1>7 DEF RecoveryInv

LEMMA MoveByHandKeeps ==
    ASSUME RecoveryInv, NEW s \in Sessions, MoveByHand(s)
    PROVE  RecoveryInv'
<1> DEFINE r == [vm[s] EXCEPT !.disks = @ - 1]
<1>1. r \in Vm /\ vm' = [vm EXCEPT ![s] = r] /\ vm[s].disks # 0
  <2>1. vm[s] \in Vm /\ vm[s].disks > 0 /\ vm' = [vm EXCEPT ![s] = r]
    BY DEF RecoveryInv, Types, MoveByHand
  <2>2. QED
    BY <2>1, VmTyped DEF Vm
<1> HIDE DEF r
<1>2. UNCHANGED <<sess, start, thread, web, listed, clone, left, snap, faults, crashes>>
  BY DEF MoveByHand
<1>3. vm' \in [Sessions -> Vm] /\ \A q \in Sessions : vm[q].disks = 0 => vm'[q] = vm[q]
  BY <1>1 DEF RecoveryInv, Types
<1>4. QED
  BY <1>2, <1>3 DEF RecoveryInv, Types, StartGood, TaskGood, WebGood, ClosedClean,
                    Judged, Attended

\* Whatever was going on has stopped; the rows and the outside stay.
LEMMA CrashKeeps ==
    ASSUME RecoveryInv, Crash
    PROVE  RecoveryInv'
<1> DEFINE r(s) == IF start[s].pc = "none" THEN start[s]
                   ELSE [start[s] EXCEPT !.pc = "ended"]
<1>1. /\ UNCHANGED <<sess, listed, outside, faults>>
      /\ crashes' \in Nat /\ crashes' # 0
      /\ thread' = [t \in Threads |-> Idle] /\ web' = IdleWeb
  BY DEF Crash, RecoveryInv, Types
<1>2. start' = [s \in Sessions |-> r(s)]
  BY DEF Crash
<1>3. ASSUME NEW s \in Sessions
      PROVE  /\ r(s) \in StartJob
             /\ r(s).pc = "ended" \/ r(s) = start[s]
  <2>1. start[s] \in StartJob
    BY DEF RecoveryInv, Types
  <2>2. QED
    BY <2>1 DEF StartJob, StartPcs
<1> HIDE DEF r
<1>4. Idle \in Task /\ Idle.pc = "idle" /\ IdleWeb \in Web /\ IdleWeb.pc = "idle"
  BY DEF Idle, Task, TaskPcs, IdleWeb, Web
<1>5. Types' /\ WebGood'
  BY <1>1, <1>2, <1>3, <1>4 DEF RecoveryInv, Types, WebGood, outside
<1>6. ASSUME NEW t \in Threads PROVE TaskGood(thread[t])'
  BY <1>1, <1>4 DEF TaskGood
<1>7. ASSUME NEW s \in Sessions PROVE StartGood(s)'
  BY <1>1, <1>2, <1>3 DEF RecoveryInv, StartGood, Before, outside
<1>8. ASSUME NEW s \in Sessions PROVE ClosedClean(s)' /\ Attended(s)'
  BY <1>1 DEF RecoveryInv, ClosedClean, Judged, Attended, outside
<1>9. QED
  BY <1>5, <1>6, <1>7, <1>8 DEF RecoveryInv

LEMMA StartNextKeeps ==
    ASSUME RecoveryInv, NEW s \in Sessions, StartNext(s)
    PROVE  RecoveryInv'
BY BeginKeeps, ReserveVmidKeeps, CloneOkKeeps, CloneUnresolvedKeeps,
   CloneAnswerLostKeeps, RegisterStorageKeeps, BootVmKeeps, InsertSessionKeeps,
   StartFailsKeeps, UndoKeeps
   DEF StartNext

LEMMA RequestKeeps ==
    ASSUME RecoveryInv, Request
    PROVE  RecoveryInv'
<1>1. CASE \E t \in Threads, s \in Sessions : Migrate(t, s) \/ Discard(t, s)
  BY <1>1, RequestsKeep
<1>2. CASE \E t \in Threads : CleanupVerifies(t)
  BY <1>2, RequestsKeep DEF RecoveryInv, WebGood, CleanupVerifies
<1>3. CASE \E s \in Sessions : Dismiss(s) \/ DeleteOrphan(s)
  BY <1>3, DismissKeeps, DeleteOrphanKeeps
<1>4. QED
  BY <1>1, <1>2, <1>3, WebMovesKeep, OrphanDeletedKeeps DEF Request

LEMMA StepKeeps == RecoveryInv /\ [Next]_vars => RecoveryInv'
<1> SUFFICES ASSUME RecoveryInv, [Next]_vars PROVE RecoveryInv'
  OBVIOUS
<1>1. CASE UNCHANGED vars
  BY <1>1 DEF vars, RecoveryInv, Types, StartGood, TaskGood, WebGood, ClosedClean,
              Judged, Attended, outside
<1>2. CASE Next
  BY <1>2, StartNextKeeps, MoveByHandKeeps, RequestKeeps, ThreadKeeps, CrashKeeps
     DEF Next
<1>3. QED
  BY <1>1, <1>2

LEMMA Invariance == Spec => []RecoveryInv
BY InitGood, StepKeeps, PTL DEF Spec

-----------------------------------------------------------------------------
(* What follows *)

\* Every variable keeps its type: a job, a request and a row are always in a
\* state the code knows, and no more disks are moved than the machine has.
THEOREM RecoveryTypeCorrect == Spec => []TypeOK
<1>1. RecoveryInv => TypeOK
  BY TypesFold DEF RecoveryInv
<1>2. QED
  BY <1>1, Invariance, PTL

\* A session is reported as discarded, or as done without an error, only when
\* its clone (and, if done, its storage and mount) is gone: for any number of
\* threads at work on one session, lost answers, retries and crashes
\* (_teardown_session_clone and its three callers).
THEOREM ClosedSessionsAreClean == Spec => []ClosedMeansClean
<1>1. RecoveryInv => ClosedMeansClean
  BY DEF RecoveryInv, ClosedClean, ClosedMeansClean
<1>2. QED
  BY <1>1, Invariance, PTL

\* While the process has not died, a clone that nobody works on can be got rid
\* of by a request or from the list of orphans: a session cannot be left
\* discarding by an operation that is over.
THEOREM LeftoversReachable == Spec => []LeftoverReachable
<1>1. ASSUME RecoveryInv PROVE LeftoverReachable
  <2> SUFFICES ASSUME NEW s \in Sessions, clone[s], ~AtWork(s), crashes = 0
               PROVE  \/ sess[s].status \in {"running", "done", "migrating"}
                      \/ Orphaned(s)
    BY DEF LeftoverReachable
  <2>1. sess[s].status # "discarding"
    BY <1>1 DEF RecoveryInv, Attended, Discards, AtWork
  <2>2. QED
    BY <2>1 DEF Orphaned, StillActive
<1>2. QED
  BY <1>1, Invariance, PTL

\* No step deletes a clone while the machine has a disk on it, other than on
\* behalf of somebody who discards the session, of the list of orphans or of a
\* start that failed: the teardown that ends a migration or a clean-up comes to
\* the clone only when the last disk has left.
THEOREM ClonesKeptUnderDisks == Spec => CloneKeptUnderDisks
<1> DEFINE Kept ==
      \A s \in Sessions :
          clone[s] /\ ~clone'[s] /\ vm[s].disks > 0 =>
              \/ \E t \in Threads : thread[t].s = s /\ thread[t].op = "discard"
              \/ listed' # listed
              \/ start[s].pc = "undo clone"
<1>1. ASSUME RecoveryInv, NEW t \in Threads, DeleteClone(t) \/ DeleteFails(t) PROVE Kept
  <2>1. PICK s \in Sessions :
            /\ thread[t].s = s
            /\ thread[t].op = "discard" \/ ~(vm[s].disks > 0)
            /\ \A q \in Sessions \ {s} : clone'[q] = clone[q]
    <3>1. thread[t].s \in Sessions
          /\ thread[t].op \in {"migrate", "discard", "cleanup"}
      BY <1>1, AtSession DEF DeleteClone, DeleteFails
    <3>2. thread[t].op = "discard" \/ vm[thread[t].s].disks = 0
      BY <1>1, <3>1 DEF RecoveryInv, TaskGood, Teardown, DeleteClone, DeleteFails
    <3>3. thread[t].op = "discard" \/ ~(vm[thread[t].s].disks > 0)
      BY <3>2
    <3>4. \A q \in Sessions \ {thread[t].s} : clone'[q] = clone[q]
      BY <1>1 DEF DeleteClone, DeleteFails, RecoveryInv, Types
    <3>5. QED
      BY <3>1, <3>3, <3>4
  <2>2. QED
    BY <2>1
<1>2. ASSUME RecoveryInv, NEW s \in Sessions, Undo(s) \/ UndoFails(s) PROVE Kept
  <2>1. \/ start[s].pc = "undo clone" /\ \A q \in Sessions \ {s} : clone'[q] = clone[q]
        \/ clone' = clone
    <3>1. clone \in [Sessions -> BOOLEAN]
      BY <1>2 DEF RecoveryInv, Types
    <3>2. \/ clone' = clone
          \/ start[s].pc = "undo clone" /\ clone' = [clone EXCEPT ![s] = FALSE]
          \/ start[s].pc = "undo clone"
             /\ \E b \in {TRUE, ~start[s].known} : clone' = [clone EXCEPT ![s] = @ /\ b]
      BY <1>2 DEF Undo, UndoFails
    <3>3. QED
      BY <3>1, <3>2
  <2>2. QED
    BY <2>1
<1>3. ASSUME RecoveryInv, NEW s \in Sessions, DeleteOrphan(s) PROVE Kept
  BY <1>3 DEF DeleteOrphan
<1>4. ASSUME RecoveryInv, NEW s \in Sessions,
             CloneOk(s) \/ CloneUnresolved(s) \/ CloneAnswerLost(s)
      PROVE  Kept
  BY <1>4 DEF CloneOk, CloneUnresolved, CloneAnswerLost, RecoveryInv, Types
<1>5. ASSUME clone' = clone PROVE Kept
  BY <1>5
<1> HIDE DEF Kept
<1>6. RecoveryInv /\ [Next]_vars => Kept
  <2> SUFFICES ASSUME RecoveryInv, [Next]_vars PROVE Kept
    OBVIOUS
  <2>1. CASE UNCHANGED vars
    BY <2>1, <1>5 DEF vars, outside
  <2>2. ASSUME NEW s \in Sessions, StartNext(s) \/ MoveByHand(s) PROVE Kept
    BY <2>2, <1>2, <1>4, <1>5
       DEF StartNext, MoveByHand, Begin, ReserveVmid, RegisterStorage, BootVm,
           InsertSession, StartFails, outside
  <2>3. ASSUME Request PROVE Kept
    BY <2>3, <1>3, <1>5
       DEF Request, Migrate, Discard, CleanupReads, Dismiss, DeleteOrphanFails,
           CleanupVerifies, CleanupRefuses, ScanOrphans, OrphanDeleted, outside
  <2>4. ASSUME NEW t \in Threads, ThreadNext(t) PROVE Kept
    BY <2>4, <1>1, <1>5
       DEF ThreadNext, Mark, Open, Raises, MoveDisk, MoveDone, MoveFails, DestroyVm,
           DestroyFails, RemoveStorage, Unmount, DeleteSnapshot, Finish, outside
  <2>5. ASSUME Crash PROVE Kept
    BY <2>5, <1>5 DEF Crash, outside
  <2>6. QED
    BY <2>1, <2>2, <2>3, <2>4, <2>5 DEF Next
<1>7. Spec => [][Kept]_vars
  BY <1>6, Invariance, PTL DEF Spec
<1>8. QED
  BY <1>7, PTL DEF CloneKeptUnderDisks, Kept

=============================================================================
