------------------------------ MODULE VmQuiesce ------------------------------
(***************************************************************************)
(* How a snapshot job brings its guests to rest and lets them go again     *)
(* (steps 6 to 9 of _run_snapshot, core/snapshot_engine.py), for the jobs  *)
(* of several threads that run at the same time:                           *)
(*   "app"      fsfreeze by the QEMU guest agent; suspend if that fails    *)
(*              and for containers;                                        *)
(*   "suspend"  suspend;                                                   *)
(*   "crash"    nothing.                                                   *)
(* Every call goes through the Proxmox API; it may fail, and it may take   *)
(* effect although the answer is lost.  What Proxmox and the guest do is   *)
(* external: a frozen guest refuses a second freeze; the agent of a        *)
(* suspended guest does not answer; a freeze is done when it is answered,  *)
(* a suspend is only accepted and runs as a task of its own (UPID), after  *)
(* which the guest's next task is run.                                     *)
(* A definition in front of another one and named after it is a slip the   *)
(* code could have made; no action uses it.                                *)
(***************************************************************************)
EXTENDS Naturals, FiniteSets

CONSTANTS
    Threads,    \* job threads
    Guests,     \* virtual machines and containers
    Containers, \* the containers among them: no guest agent
    NoGuest,
    GuestsOf,   \* [Threads -> SUBSET Guests]: vm_entries of its jobs
    Level,      \* [Threads -> Levels]: consistency of its jobs
    MaxRuns,    \* bound on the jobs started
    MaxFaults   \* bound on failed calls and crashes

Levels == {"crash", "suspend", "app"}

ASSUME GuestsAssumption ==
    /\ Containers \subseteq Guests
    /\ NoGuest \notin Guests
    /\ GuestsOf \in [Threads -> SUBSET Guests]
    /\ Level \in [Threads -> Levels]

ASSUME BoundsAssumption == MaxRuns \in Nat /\ MaxFaults \in Nat

VARIABLES
    frozen,     \* SUBSET Guests: file systems frozen
    paused,     \* SUBSET Guests: suspended
    tasks,      \* SUBSET Guests: suspend accepted but not run yet
    job,        \* [Threads -> record]: locals of _run_snapshot
    excused,    \* history: guests for which a call failed or a job died
    runs, faults

vars == <<frozen, paused, tasks, job, excused, runs, faults>>
guestVars == <<frozen, paused, tasks>>

IdleJob == [pc |-> "idle", todo |-> {}, guest |-> NoGuest,
            frozen |-> {}, suspended |-> {}]

Init ==
    /\ frozen = {}
    /\ paused = {}
    /\ tasks = {}
    /\ job = [t \in Threads |-> IdleJob]
    /\ excused = {}
    /\ runs = 0
    /\ faults = 0

\* A call about g fails.
FaultAt(g) ==
    /\ faults < MaxFaults
    /\ faults' = faults + 1
    /\ excused' = excused \cup {g}

NoFault == UNCHANGED <<excused, faults>>

Start(t) ==
    /\ job[t].pc = "idle"
    /\ runs < MaxRuns
    /\ runs' = runs + 1
    /\ job' = [job EXCEPT ![t] =
                 [IdleJob EXCEPT !.pc = "quiesce",
                    !.todo = IF Level[t] = "crash" THEN {} ELSE GuestsOf[t]]]
    /\ UNCHANGED <<guestVars, excused, faults>>

-----------------------------------------------------------------------------
(* _qemu_fsfreeze: True only if the answer is 200 *)

FreezesAll(t, g) ==
    /\ job[t].pc = "quiesce"
    /\ g \in job[t].todo
    /\ Level[t] = "app"
Freezes(t, g) ==
    /\ job[t].pc = "quiesce"
    /\ g \in job[t].todo \ Containers
    /\ Level[t] = "app"

\* False: try to suspend the guest.
FallsBack(t, g) ==
    /\ job' = [job EXCEPT ![t].pc = "fallback", ![t].guest = g,
                          ![t].todo = @ \ {g}]
    /\ UNCHANGED <<paused, tasks, runs>>

FreezeOk(t, g) ==
    /\ Freezes(t, g)
    /\ g \notin frozen \cup paused
    /\ frozen' = frozen \cup {g}
    /\ job' = [job EXCEPT ![t].todo = @ \ {g}, ![t].frozen = @ \cup {g}]
    /\ NoFault
    /\ UNCHANGED <<paused, tasks, runs>>

FreezeRefused(t, g) ==
    /\ Freezes(t, g)
    /\ g \in frozen \cup paused
    /\ FallsBack(t, g)
    /\ NoFault
    /\ UNCHANGED frozen

FreezeFailsUnnoticed(t, g) ==
    /\ Freezes(t, g)
    /\ job' = [job EXCEPT ![t].todo = @ \ {g}, ![t].frozen = @ \cup {g}]
    /\ FaultAt(g)
    /\ UNCHANGED <<guestVars, runs>>
FreezeFails(t, g) ==
    /\ Freezes(t, g)
    /\ FallsBack(t, g)
    /\ FaultAt(g)
    /\ UNCHANGED frozen

FreezeAnswerLost(t, g) ==
    /\ Freezes(t, g)
    /\ g \notin paused
    /\ frozen' = frozen \cup {g}
    /\ FallsBack(t, g)
    /\ FaultAt(g)

-----------------------------------------------------------------------------
(* _vm_suspend *)

Suspends(t, g) ==
    \/ /\ job[t].pc = "quiesce"
       /\ g \in job[t].todo
       /\ Level[t] = "suspend" \/ g \in Containers
    \/ /\ job[t].pc = "fallback"
       /\ g = job[t].guest

SuspendOk(t, g) ==
    /\ Suspends(t, g)
    /\ tasks' = tasks \cup {g}
    /\ job' = [job EXCEPT ![t].pc = "quiesce", ![t].todo = @ \ {g},
                          ![t].guest = NoGuest, ![t].suspended = @ \cup {g}]
    /\ NoFault
    /\ UNCHANGED <<frozen, paused, runs>>

\* Only a warning: the snapshot of this guest is crash consistent.
SuspendFails(t, g) ==
    /\ Suspends(t, g)
    /\ tasks' \in {tasks, tasks \cup {g}}   \* or only the answer is lost
    /\ job' = [job EXCEPT ![t].pc = "quiesce", ![t].todo = @ \ {g},
                          ![t].guest = NoGuest]
    /\ FaultAt(g)
    /\ UNCHANGED <<frozen, paused, runs>>

\* The host runs the task it accepted.
SuspendRuns(g) ==
    /\ g \in tasks
    /\ tasks' = tasks \ {g}
    /\ paused' = paused \cup {g}
    /\ UNCHANGED <<frozen, job, excused, runs, faults>>

-----------------------------------------------------------------------------
(* The snapshot, and the finally clause that follows it in any case *)

Snapshots(t) == job[t].pc = "quiesce" /\ job[t].todo = {}

Created(t) ==
    /\ Snapshots(t)
    /\ job' = [job EXCEPT ![t].pc = "release",
                          ![t].todo = job[t].frozen \cup job[t].suspended]
    /\ UNCHANGED <<guestVars, excused, runs, faults>>

CreateFailsUnreleased(t) ==
    /\ Snapshots(t)
    /\ faults < MaxFaults
    /\ faults' = faults + 1
    /\ job' = [job EXCEPT ![t] = IdleJob]
    /\ UNCHANGED <<guestVars, excused, runs>>
CreateFails(t) ==
    /\ Snapshots(t)
    /\ faults < MaxFaults
    /\ faults' = faults + 1
    /\ job' = [job EXCEPT ![t].pc = "release",
                          ![t].todo = job[t].frozen \cup job[t].suspended]
    /\ UNCHANGED <<guestVars, excused, runs>>

Releases(t, g) ==
    /\ job[t].pc = "release"
    /\ g \in job[t].todo

\* The job is through with g, whatever the answer was.
LetGo(t, g) ==
    /\ job' = [job EXCEPT ![t].todo = @ \ {g}, ![t].frozen = @ \ {g},
                          ![t].suspended = @ \ {g}]
    /\ UNCHANGED runs

\* _qemu_fsthaw looks at no answer and swallows every exception.
Thaw(t, g) ==
    /\ Releases(t, g)
    /\ g \in job[t].frozen
    /\ LetGo(t, g)
    /\ \/ g \notin paused /\ frozen' = frozen \ {g} /\ NoFault
       \/ g \in paused /\ UNCHANGED frozen /\ NoFault
       \/ UNCHANGED frozen /\ FaultAt(g)
    /\ UNCHANGED <<paused, tasks>>

\* A failed _vm_resume is logged as a warning.
Resume(t, g) ==
    /\ Releases(t, g)
    /\ g \in job[t].suspended
    /\ LetGo(t, g)
    /\ \/ g \notin tasks /\ paused' = paused \ {g} /\ NoFault
       \/ UNCHANGED paused /\ FaultAt(g)
    /\ UNCHANGED <<frozen, tasks>>

End(t) ==
    /\ job[t].pc = "release"
    /\ job[t].todo = {}
    /\ job' = [job EXCEPT ![t] = IdleJob]
    /\ UNCHANGED <<guestVars, excused, runs, faults>>

\* Nobody releases the guests of jobs that died with the process.
Crash ==
    /\ faults < MaxFaults
    /\ faults' = faults + 1
    /\ excused' = excused \cup
           UNION {job[t].frozen \cup job[t].suspended : t \in Threads}
    /\ job' = [t \in Threads |-> IdleJob]
    /\ UNCHANGED <<guestVars, runs>>

-----------------------------------------------------------------------------

GuestNext(t, g) ==
    \/ FreezeOk(t, g) \/ FreezeRefused(t, g) \/ FreezeFails(t, g)
    \/ FreezeAnswerLost(t, g)
    \/ SuspendOk(t, g) \/ SuspendFails(t, g)
    \/ Thaw(t, g) \/ Resume(t, g)

JobNext(t) ==
    \/ Start(t)
    \/ \E g \in GuestsOf[t] : GuestNext(t, g)
    \/ Created(t)
    \/ CreateFails(t)
    \/ End(t)

Next ==
    \/ \E t \in Threads : JobNext(t)
    \/ \E g \in Guests : SuspendRuns(g)
    \/ Crash

Spec == Init /\ [][Next]_vars

-----------------------------------------------------------------------------
(* Properties *)

JobType ==
    [pc : {"idle", "quiesce", "fallback", "release"}, todo : SUBSET Guests,
     guest : Guests \cup {NoGuest}, frozen : SUBSET (Guests \ Containers),
     suspended : SUBSET Guests]

\* Every variable has its type; in particular no container is ever frozen.
TypeOK ==
    /\ frozen \subseteq Guests \ Containers
    /\ paused \subseteq Guests
    /\ tasks \subseteq Guests
    /\ job \in [Threads -> JobType]
    /\ excused \subseteq Guests
    /\ runs \in Nat
    /\ faults \in Nat

Holds(t, g) == g \in job[t].frozen \cup job[t].suspended

\* A guest is frozen or suspended only while a job holds it and is going to
\* release it, unless a call about the guest failed or a job died with it in
\* hand: "fsfreeze-freeze before snapshot, fsfreeze-thaw after".
ReleasedOrExcused ==
    \A g \in frozen \cup paused : g \in excused \/ \E t \in Threads : Holds(t, g)

\* When the snapshot is taken, every guest that the job log calls "filesystem
\* frozen (app-consistent)" is frozen.
FrozenAtSnapshot ==
    [][\A t \in Threads : Created(t) => job[t].frozen \subseteq frozen]_vars

\* What these two need: no two threads snapshot the same guest.  The code
\* does not see to it.
GuestsApart ==
    \A t, u \in Threads : t # u => GuestsOf[t] \cap GuestsOf[u] = {}
=============================================================================
