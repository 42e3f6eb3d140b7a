-------------------------- MODULE CloneRestoreProofs --------------------------
(***************************************************************************)
(* Proofs about clones and restores (CloneRestore).                        *)
(*                                                                         *)
(* The invariant rests on the order of the steps in each program, which is *)
(* stated once (StepGood) and checked for all programs (ProgramsAreGood):  *)
(* what is made is dropped later, what can fail comes before the start,    *)
(* the guard comes before what writes, and so on.  With it, where a thread *)
(* is in its program says what it has still to do (To) and what it cannot  *)
(* do any more (Past), and the invariant relates that to the host and to   *)
(* the machines.                                                           *)
(*                                                                         *)
(* The proof goes by jobs.  A step of job j keeps what is said of j        *)
(* (AdvanceKept and its like, then one lemma per action) and touches only  *)
(* what j has its hands on (Stays, Spares), so that it keeps what is said  *)
(* of every other job, unless two jobs are at work on one machine, which   *)
(* the history raced records (JobsKept).                                   *)
(***************************************************************************)
EXTENDS CloneRestore, FiniteSetTheorems, WellFoundedInduction, TLAPS

-----------------------------------------------------------------------------
(* Programs *)

\* The step s is the one at i, or a later one.
Ahead(P, i, s) == \E k \in i .. Len(P) : P[k] = s

Writers == {"file", "copy", "revert"}
CanRaise == {"stop", "list", "snap", "check", "reserve", "volume", "group", "device", "mount",
             "import", "copy", "file", "conf", "set", "deactivate", "revert"}

\* What sees to it that a machine is down: a clone looks whether there is one, all
\* others stop it.
Guard(kind) == IF kind \in Clones THEN "check" ELSE "stop"

\* What the order of a program sees to, at each of its steps.
StepGood(kind, P, i) ==
    /\ P[i] \in {"volume", "group", "device", "mount"} => Ahead(P, i + 1, "drop")
    /\ P[i] \in CanRaise => Ahead(P, i + 1, "start")
    /\ P[i] = "start" => ~Ahead(P, i + 1, "start")
    /\ P[i] \notin {"end", "unsnap"} => Ahead(P, i + 1, "end")
    /\ P[i] \in {"end", "unsnap"} =>
          \A s \in {"drop", "conf"} \union Writers : ~Ahead(P, i, s)
    /\ P[i] \in Writers =>
          \A s \in Writers \union {Guard(kind)} : ~Ahead(P, i + 1, s)
    /\ P[i] = "snap" => Ahead(P, i + 1, "unsnap")
    /\ P[i] = "reserve" => /\ kind \in Clones
                           /\ Ahead(P, i + 1, "conf") /\ ~Ahead(P, i, "check")
    /\ P[i] = "stub" => Ahead(P, i + 1, "conf") /\ kind \in {"restore", "restoreDr"}
    /\ P[i] = "conf" => /\ ~Ahead(P, i + 1, "conf")
                        /\ kind \in Clones => ~Ahead(P, i, "check")
    /\ P[i] = "check" => kind \in Clones
    /\ P[i] = "revert" => kind = "revert"

ProgramGood(kind, P) ==
    /\ Len(P) \in 1 .. 16
    /\ \A i \in 1 .. Len(P) : StepGood(kind, P, i)
    /\ Ahead(P, 1, Guard(kind)) /\ Ahead(P, 1, "conf")
    /\ \E s \in Writers : Ahead(P, 1, s)

LEMMA ProgramsAreGood ==
    ASSUME NEW kind \in DOMAIN Programs, NEW proto \in DOMAIN Programs[kind]
    PROVE  ProgramGood(kind, Programs[kind][proto])
<1> USE DEF ProgramGood, StepGood, Ahead, Writers, CanRaise, Guard, Clones,
            TempClone, NvmeTempClone, DrNvmeTempClone
<1>1. ProgramGood("clone", CloneNfs)
  BY DEF CloneNfs
<1>0. ProgramGood("cloneLive", CloneLiveNfs)
  BY DEF CloneLiveNfs
<1>2. ProgramGood("clone", CloneSan(TempClone))
  BY SMTT(60) DEF CloneSan
<1>12. ProgramGood("clone", CloneSan(NvmeTempClone))
  BY SMTT(60) DEF CloneSan
<1>3. ProgramGood("cloneLive", CloneLiveSan(TempClone))
  BY DEF CloneLiveSan, CloneSan
<1>4. ProgramGood("cloneLive", CloneLiveSan(NvmeTempClone))
  BY DEF CloneLiveSan, CloneSan
<1>5. ProgramGood("drClone", DrCloneNfs)
  BY DEF DrCloneNfs
<1>6. ProgramGood("drClone", DrCloneIscsi)
  BY DEF DrCloneIscsi
<1>7. ProgramGood("drClone", DrCloneNvme)
  BY DEF DrCloneNvme
<1>8. /\ ProgramGood("restore", RestoreSfsr)
      /\ ProgramGood("flexclone", RestoreFlexclone)
      /\ ProgramGood("restoreDr", RestoreDrNfs)
  BY DEF RestoreSfsr, RestoreFlexclone, RestoreDrNfs
<1>9. ProgramGood("restore", RestoreSanSingle(TempClone))
  BY DEF RestoreSanSingle
<1>13. ProgramGood("restore", RestoreSanSingle(NvmeTempClone))
  BY DEF RestoreSanSingle
<1>10. /\ ProgramGood("restoreDr", RestoreDrIscsi)
       /\ ProgramGood("restoreDr", RestoreDrNvme)
  BY DEF RestoreDrIscsi, RestoreDrNvme
<1>11. /\ ProgramGood("revert", RevertNfs)
       /\ ProgramGood("revert", RevertSan)
  BY DEF RevertNfs, RevertSan
<1> HIDE DEF ProgramGood
<1> QED
  BY <1>0, <1>1, <1>2, <1>3, <1>4, <1>5, <1>6, <1>7, <1>8, <1>9, <1>10, <1>11, <1>12,
     <1>13
  DEF Programs

-----------------------------------------------------------------------------
(* The inductive invariant *)

Kinds == {"none"} \union DOMAIN Programs
Protos == {"nfs", "iscsi", "nvme"}
Ends == {"idle", "none", "failed", "cancelled", "over"}
Objects == {"snap", "volume", "group"}

JobType ==
    [kind : Kinds, proto : Protos, vm : Vmids \union {None}, scope : SUBSET Vmids,
     size : {0, NDisks}, pc : 1 .. 16, disk : 1 .. NDisks, vg : Names \union {0},
     dev : Jobs \union {None}, before : SUBSET Jobs, src : Jobs \union {None},
     known : SUBSET Objects, held : BOOLEAN, end : Ends]

Statuses == {"none", "running", "done", "failed", "cancelled"}
ConfType == [by : Jobs \union {None}, is : {"none", "held", "stub", "vm"}]

StateTyped ==
    /\ status \in [Jobs -> Statuses]
    /\ conf \in [Vmids -> ConfType]
    /\ disk \in [Vmids -> [1 .. NDisks -> Content]]
    /\ running \subseteq Vmids
    /\ ontap \in [Jobs -> SUBSET Objects]
    /\ wired \subseteq Jobs /\ wiped \subseteq Jobs
    /\ vg \in [Names -> Jobs \union {None}]
    /\ mixed \subseteq Jobs /\ leaky \subseteq Jobs
    /\ raced \subseteq Vmids /\ unstopped \subseteq Vmids
    /\ faults \in 0 .. MaxFaults

Typed == StateTyped /\ job \in [Jobs -> JobType]

Prog(r) == Programs[r.kind][r.proto]
AtWork(r) == r.end \notin {"idle", "over"}
Now(r) == Prog(r)[r.pc]
To(r, s) == r.end = "none" /\ Ahead(Prog(r), r.pc, s)
Past(r, s) == r.end = "none" /\ ~Ahead(Prog(r), r.pc, s)
MachinesOf(r) == IF r.kind = "revert" THEN r.scope ELSE {r.vm}

\* What a thread knows by itself.
ScopeGood(r) ==
    /\ ProgramGood(r.kind, Prog(r))
    /\ r.vm \in Vmids /\ r.vm \in r.scope
    /\ r.kind = "revert" => r.scope = Existing
    /\ r.kind \in Clones => r.scope = {r.vm}

RecordGood(r) ==
    /\ AtWork(r) => ScopeGood(r)
    /\ r.end = "none" =>
         /\ r.pc \in 1 .. Len(Prog(r))
         /\ (Now(r) \in {"copy", "file"} /\ r.size # 0) \/ r.disk = 1
         /\ r.known \intersect {"volume", "group"} # {} => To(r, "drop")
         /\ "snap" \in r.known => To(r, "unsnap")
         /\ r.held => Past(r, "check")
    /\ ~AtWork(r) => r.known = {} /\ ~r.held
    /\ r.held => r.kind \in Clones

\* It knows of all that it would leave.
LeavesKnown(j, r) ==
    \/ j \in leaky
    \/ /\ ontap[j] \subseteq r.known
       /\ j \in wired => AtWork(r) /\ (r.end = "none" => To(r, "drop"))
       /\ \A v \in Vmids : conf[v] = [by |-> j, is |-> "held"] =>
             r.held /\ r.vm = v /\ (r.end = "none" => To(r, "conf"))

\* Its stub is replaced before it is done.
StubGood(j, r) ==
    \/ j \in leaky
    \/ \A v \in Vmids : conf[v] = [by |-> j, is |-> "stub"] =>
          \/ r.kind = "restoreDr"
          \/ /\ r.kind = "restore"
             /\ \/ r.end = "none" /\ To(r, "conf") /\ r.vm = v
                \/ r.end \notin {"idle", "none"} /\ status[j] # "done"

\* A clone that has looked is alone with its id.
Looked(r) == r.kind \in Clones /\ (r.held \/ Past(r, "check"))
ConfOwn(j, r) ==
    Looked(r) => r.vm \in raced \/ (conf[r.vm].is = "vm" => conf[r.vm].by = j)

\* What it has written is there.
Covered(r, d) == d < r.disk \/ \A s \in Writers : ~Ahead(Prog(r), r.pc, s)
Written(j, r) ==
    r.end = "none" =>
        \/ j \in mixed \/ r.vm \in raced
        \/ /\ \A d \in 1 .. NDisks :
                 r.size # 0 /\ Covered(r, d) => disk[r.vm][d] = j
           /\ r.kind \in Clones /\ Past(r, "conf") =>
                 conf[r.vm] = [by |-> j, is |-> "vm"]

\* From the guard to the start its machines are down.
Down(r) ==
    \/ Past(r, Guard(r.kind)) /\ To(r, "start")
    \/ r.held /\ r.end \in {"failed", "cancelled"}
IsDown(r, v) ==
    v \in raced \/ v \notin running \/ (r.kind \notin Clones /\ v \in unstopped)
StaysDown(r) ==
    /\ Down(r) => \A v \in MachinesOf(r) : IsDown(r, v)
    /\ AtWork(r) => Touched(r.kind, r.scope) \subseteq MachinesOf(r) \union unstopped

RowGood(j, r) ==
    /\ status[j] = "none" => ~AtWork(r) /\ r.kind = "none"
    /\ r.end = "cancelled" => j \in mixed

JobGood(j, r) ==
    /\ RecordGood(r) /\ RowGood(j, r)
    /\ LeavesKnown(j, r) /\ StubGood(j, r) /\ ConfOwn(j, r) /\ Written(j, r) /\ StaysDown(r)

\* Two jobs at work on a machine are recorded.
Apart(r, s) ==
    AtWork(r) /\ AtWork(s) =>
        Touched(r.kind, r.scope) \intersect Touched(s.kind, s.scope) \subseteq raced

GroupsGood ==
    /\ \A n \in Names : vg[n] \in wired \union {None}
    /\ \A m, n \in Names : m # n /\ vg[m] # None => vg[m] # vg[n]

RunningGood == \A v \in running : v \in raced \/ conf[v].is \in {"vm", "stub"}

JobsGood == \A j \in Jobs : \A r \in {job[j]} : JobGood(j, r)
JobsApart ==
    \A j, k \in Jobs : j # k => \A r \in {job[j]}, s \in {job[k]} : Apart(r, s)

CloneInv == Typed /\ JobsGood /\ JobsApart /\ GroupsGood /\ RunningGood

-----------------------------------------------------------------------------
(* Records *)

SameJob(r, s) ==
    /\ r.kind = s.kind /\ r.proto = s.proto /\ r.vm = s.vm /\ r.scope = s.scope
    /\ r.size = s.size

LEMMA JobsNonempty == ASSUME NEW j \in Jobs PROVE 1 \in Names /\ Names \subseteq Nat \ {0}
<1>1. Cardinality(Jobs) \in Nat /\ Cardinality(Jobs) # 0
  BY CloneRestoreAssumption, FS_CardinalityType, FS_EmptySet
<1> QED
  BY <1>1 DEF Names

\* The records that the steps make, field by field.
LEMMA OnwardIs ==
    ASSUME NEW r \in JobType, NEW s, s = Onward(r), r.pc # 16
    PROVE  /\ s \in JobType /\ SameJob(r, s) /\ s.pc = r.pc + 1 /\ s.disk = r.disk
           /\ s.vg = r.vg /\ s.dev = r.dev /\ s.before = r.before /\ s.src = r.src
           /\ s.known = r.known /\ s.held = r.held /\ s.end = r.end
  BY DEF JobType, Onward, SameJob

LEMMA KnownIs ==
    ASSUME NEW r \in JobType, NEW x \in SUBSET Objects, NEW s,
           s = [r EXCEPT !.known = x]
    PROVE  /\ s \in JobType /\ SameJob(r, s) /\ s.pc = r.pc /\ s.disk = r.disk
           /\ s.vg = r.vg /\ s.dev = r.dev /\ s.before = r.before /\ s.src = r.src
           /\ s.known = x /\ s.held = r.held /\ s.end = r.end
  BY DEF JobType, SameJob

LEMMA HeldIs ==
    ASSUME NEW r \in JobType, NEW x \in BOOLEAN, NEW s,
           s = [r EXCEPT !.held = x]
    PROVE  /\ s \in JobType /\ SameJob(r, s) /\ s.pc = r.pc /\ s.disk = r.disk
           /\ s.vg = r.vg /\ s.dev = r.dev /\ s.before = r.before /\ s.src = r.src
           /\ s.known = r.known /\ s.held = x /\ s.end = r.end
  BY DEF JobType, SameJob

LEMMA HostFieldsAre ==
    ASSUME NEW r \in JobType, NEW s, NEW x
    PROVE  /\ x \in Names \union {0} /\ s = [r EXCEPT !.vg = x] =>
                /\ s \in JobType /\ SameJob(r, s) /\ s.pc = r.pc /\ s.disk = r.disk
                /\ s.known = r.known /\ s.held = r.held /\ s.end = r.end
           /\ x \in SUBSET Jobs /\ s = [r EXCEPT !.before = x] =>
                /\ s \in JobType /\ SameJob(r, s) /\ s.pc = r.pc /\ s.disk = r.disk
                /\ s.known = r.known /\ s.held = r.held /\ s.end = r.end
           /\ x \in Jobs /\ s = [r EXCEPT !.dev = x] =>
                /\ s \in JobType /\ SameJob(r, s) /\ s.pc = r.pc /\ s.disk = r.disk
                /\ s.known = r.known /\ s.held = r.held /\ s.end = r.end
           /\ x \in Jobs \union {None} /\ s = [r EXCEPT !.src = x] =>
                /\ s \in JobType /\ SameJob(r, s) /\ s.pc = r.pc /\ s.disk = r.disk
                /\ s.known = r.known /\ s.held = r.held /\ s.end = r.end
  BY DEF JobType, SameJob

LEMMA DiskIs ==
    ASSUME NEW r \in JobType, NEW s, s = NextDisk(r), r.pc # 16
    PROVE  /\ s \in JobType /\ SameJob(r, s)
           /\ s.known = r.known /\ s.held = r.held /\ s.end = r.end
           /\ \/ r.disk = NDisks /\ s.pc = r.pc + 1 /\ s.disk = 1
              \/ r.disk < NDisks /\ s.pc = r.pc /\ s.disk = r.disk + 1
<1>1. r.disk \in 1 .. NDisks /\ NDisks \in Nat \ {0}
  BY CloneRestoreAssumption DEF JobType
<1>2. CASE r.disk = NDisks
  <2> DEFINE o == Onward(r)
  <2>1. o \in JobType /\ SameJob(r, o) /\ o.pc = r.pc + 1 /\ o.known = r.known
        /\ o.held = r.held /\ o.end = r.end
    BY OnwardIs
  <2>2. s = [o EXCEPT !.disk = 1]
    BY <1>2 DEF NextDisk
  <2> HIDE DEF o
  <2> QED
    BY <1>1, <1>2, <2>1, <2>2 DEF JobType, SameJob
<1>3. CASE r.disk # NDisks
  <2>1. s = [r EXCEPT !.disk = r.disk + 1]
    BY <1>3 DEF NextDisk
  <2>2. r.disk + 1 \in 1 .. NDisks /\ r.disk < NDisks
    BY <1>1, <1>3
  <2> QED
    BY <1>1, <1>3, <2>1, <2>2 DEF JobType, SameJob
<1> QED
  BY <1>2, <1>3

LEMMA OverIs ==
    ASSUME Typed, NEW j \in Jobs, NEW s, s = Over(j)
    PROVE  /\ s \in JobType /\ s.end = "over" /\ s.known = {} /\ s.held = FALSE
           /\ s.kind = job[j].kind
<1>1. job[j] \in JobType
  BY DEF Typed
<1>2. s = [kind |-> job[j].kind, proto |-> job[j].proto, vm |-> job[j].vm, scope |-> {},
           size |-> 0, pc |-> 1, disk |-> 1, vg |-> 0, dev |-> None, before |-> {}, src |-> None,
           known |-> {}, held |-> FALSE, end |-> "over"]
  BY DEF Over, Idle
<1>3. 1 \in 1 .. NDisks
  BY CloneRestoreAssumption
<1> QED
  BY <1>1, <1>2, <1>3 DEF JobType, Ends

\* One step further in the program.
Advance(r, s) ==
    SameJob(r, s) /\ r.end = "none" /\ s.end = "none" /\ s.pc = r.pc + 1

LEMMA AheadNext ==
    ASSUME NEW P, Len(P) \in Nat, NEW i \in 1 .. Len(P), NEW s
    PROVE  Ahead(P, i, s) <=> P[i] = s \/ Ahead(P, i + 1, s)
  BY DEF Ahead

LEMMA StepFacts ==
    ASSUME NEW r \in JobType, RecordGood(r), r.end = "none"
    PROVE  /\ Len(Prog(r)) \in 1 .. 16 /\ r.pc \in 1 .. Len(Prog(r))
           /\ StepGood(r.kind, Prog(r), r.pc)
           /\ r.vm \in Vmids /\ r.vm \in r.scope
  BY DEF RecordGood, ScopeGood, ProgramGood, AtWork

LEMMA AdvanceTo ==
    ASSUME NEW r \in JobType, NEW s, RecordGood(r), Advance(r, s), NEW x
    PROVE  /\ To(r, x) <=> Now(r) = x \/ To(s, x)
           /\ To(s, x) <=> Ahead(Prog(r), r.pc + 1, x)
           /\ Past(r, x) <=> ~To(r, x)
           /\ Past(s, x) <=> ~To(s, x)
           /\ Ahead(Prog(r), r.pc, x) <=> To(r, x)
           /\ Ahead(Prog(s), s.pc, x) <=> To(s, x)
<1>1. Prog(s) = Prog(r)
  BY DEF Advance, SameJob, Prog
<1> QED
  BY <1>1, StepFacts, AheadNext DEF Advance, To, Past, Now

LEMMA NotLast ==
    ASSUME NEW n \in 1 .. 16, NEW i \in 1 .. n, NEW k \in i + 1 .. n
    PROVE  i + 1 <= n /\ i # 16
  OBVIOUS

LEMMA NotAtEnd ==
    ASSUME NEW r \in JobType, RecordGood(r), r.end = "none",
           Now(r) \notin {"end", "unsnap"}
    PROVE  r.pc + 1 <= Len(Prog(r)) /\ r.pc # 16
<1>1. Len(Prog(r)) \in 1 .. 16 /\ r.pc \in 1 .. Len(Prog(r))
  BY StepFacts
<1>2. Ahead(Prog(r), r.pc + 1, "end")
  BY StepFacts DEF StepGood, Now
<1>3. PICK k \in r.pc + 1 .. Len(Prog(r)) : Prog(r)[k] = "end"
  BY <1>2 DEF Ahead
<1> QED
  BY <1>1, <1>3, NotLast, Zenon

LEMMA ScopeStays ==
    ASSUME NEW r, NEW s, SameJob(r, s), ScopeGood(r)
    PROVE  ScopeGood(s)
  BY DEF SameJob, ScopeGood, Prog

LEMMA AdvanceRecord ==
    ASSUME NEW r \in JobType, NEW s \in JobType, RecordGood(r), Advance(r, s),
           r.pc + 1 <= Len(Prog(r)), Now(r) # "unsnap", s.disk = 1,
           \A o \in s.known : o \in r.known \/ o = Now(r),
           Now(r) = "drop" => s.known \subseteq {"snap"},
           s.held => r.held \/ Now(r) = "reserve"
    PROVE  RecordGood(s)
<1>1. Prog(s) = Prog(r)
  BY DEF Advance, SameJob, Prog
<1>2. ScopeGood(s)
  BY ScopeStays DEF Advance, RecordGood, AtWork
<1>3. s.pc \in 1 .. Len(Prog(s))
  BY <1>1, StepFacts DEF Advance
<1>4. ASSUME s.known \intersect {"volume", "group"} # {} PROVE To(s, "drop")
  <2>1. PICK o \in s.known : o \in {"volume", "group"}
    BY <1>4
  <2>2. Now(r) # "drop"
    BY <2>1
  <2>3. CASE o \in r.known
    BY <2>1, <2>2, <2>3, AdvanceTo DEF RecordGood, Advance
  <2>4. CASE o = Now(r)
    BY <2>1, <2>4, StepFacts, AdvanceTo DEF StepGood, Advance, Now
  <2> QED
    BY <2>1, <2>3, <2>4
<1>5. ASSUME "snap" \in s.known PROVE To(s, "unsnap")
  <2>1. CASE "snap" \in r.known
    BY <2>1, AdvanceTo DEF RecordGood, Advance
  <2>2. CASE "snap" = Now(r)
    BY <2>2, StepFacts, AdvanceTo DEF StepGood, Advance, Now
  <2> QED
    BY <1>5, <2>1, <2>2
<1>6. ASSUME s.held PROVE Past(s, "check") /\ s.kind \in Clones
  <2>1. CASE r.held
    BY <2>1, AdvanceTo DEF RecordGood, Advance, SameJob
  <2>2. CASE Now(r) = "reserve"
    <3>1. ~Ahead(Prog(r), r.pc, "check") /\ r.kind \in Clones
      BY <2>2, StepFacts DEF StepGood, Advance, Now
    <3> QED
      BY <3>1, AdvanceTo DEF Advance, SameJob
  <2> QED
    BY <1>6, <2>1, <2>2
<1> QED
  BY <1>2, <1>3, <1>4, <1>5, <1>6 DEF RecordGood, Advance, AtWork

\* Between two disks of a copy.
LEMMA NextDiskRecord ==
    ASSUME NEW r \in JobType, NEW s \in JobType, RecordGood(r), SameJob(r, s),
           r.end = "none", s.end = "none", s.pc = r.pc, Now(r) \in {"copy", "file"},
           r.size # 0, s.known = r.known, s.held = r.held
    PROVE  RecordGood(s)
<1>1. Prog(s) = Prog(r)
  BY DEF SameJob, Prog
<1>2. ScopeGood(s)
  BY ScopeStays DEF RecordGood, AtWork
<1> QED
  BY <1>1, <1>2 DEF RecordGood, AtWork, Now, To, Past, SameJob

-----------------------------------------------------------------------------
(* A job takes a step of its program *)

LEMMA KnownKept ==
    ASSUME NEW j \in Jobs, NEW r \in JobType, NEW s \in JobType, RecordGood(r),
           LeavesKnown(j, r), Advance(r, s), leaky \subseteq leaky',
           ontap[j] \subseteq r.known => ontap'[j] \subseteq s.known \/ j \in leaky',
           j \in wired' => j \in wired \/ Now(r) \in {"device", "mount"},
           Now(r) = "drop" => j \notin wired',
           s.held = r.held \/ Now(r) \in {"reserve", "conf"},
           \A v \in Vmids : conf'[v] = [by |-> j, is |-> "held"] =>
               \/ /\ conf[v] = conf'[v]
                  /\ Now(r) = "conf" /\ r.kind \in Clones => v # r.vm
                  /\ Now(r) # "reserve"
               \/ Now(r) = "reserve" /\ s.held /\ (v = r.vm \/ conf[v] = conf'[v])
    PROVE  LeavesKnown(j, s)'
<1> SUFFICES ASSUME j \notin leaky' PROVE LeavesKnown(j, s)'
  BY DEF LeavesKnown
<1>1. ontap'[j] \subseteq s.known
  BY DEF LeavesKnown
<1>2. s.end = "none" /\ AtWork(s)
  BY DEF Advance, AtWork
<1>3. ASSUME j \in wired' PROVE To(s, "drop")
  <2>1. CASE j \in wired
    BY <1>3, <2>1, AdvanceTo DEF LeavesKnown, Advance
  <2>2. CASE Now(r) \in {"device", "mount"}
    BY <2>2, AdvanceTo, StepFacts DEF StepGood, Now, Advance
  <2> QED
    BY <1>3, <2>1, <2>2
<1>4. ASSUME NEW v \in Vmids, conf'[v] = [by |-> j, is |-> "held"]
      PROVE  s.held /\ s.vm = v /\ To(s, "conf")
  <2>1. ASSUME conf[v] = conf'[v] PROVE r.held /\ r.vm = v /\ To(r, "conf")
    BY <1>4, <2>1 DEF LeavesKnown, Advance
  <2>2. CASE Now(r) = "reserve"
    <3>1. To(s, "conf")
      BY <2>2, AdvanceTo, StepFacts DEF StepGood, Now, Advance
    <3> QED
      BY <1>4, <2>1, <2>2, <3>1 DEF Advance, SameJob
  <2>3. CASE Now(r) # "reserve"
    <3>1. r.held /\ r.vm = v /\ To(r, "conf") /\ r.kind \in Clones
      BY <1>4, <2>1, <2>3 DEF RecordGood
    <3>2. Now(r) # "conf"
      BY <1>4, <2>3, <3>1
    <3> QED
      BY <2>3, <3>1, <3>2, AdvanceTo DEF Advance, SameJob
  <2> QED
    BY <2>2, <2>3
<1> QED
  BY <1>1, <1>2, <1>3, <1>4 DEF LeavesKnown

LEMMA OwnKept ==
    ASSUME NEW j \in Jobs, NEW r \in JobType, NEW s \in JobType, RecordGood(r),
           ConfOwn(j, r), Advance(r, s), raced \subseteq raced',
           s.held => r.held \/ Now(r) = "reserve",
           r.vm \in raced' \/ conf'[r.vm] = conf[r.vm] \/ conf'[r.vm].is # "vm"
               \/ conf'[r.vm].by = j,
           Now(r) = "check" => conf'[r.vm].is # "vm"
    PROVE  ConfOwn(j, s)'
<1> SUFFICES ASSUME Looked(s), r.vm \notin raced', Now(r) # "check"
             PROVE  conf'[r.vm].is = "vm" => conf'[r.vm].by = j
  BY DEF ConfOwn, Advance, SameJob
<1>1. Looked(r)
  <2>1. r.kind \in Clones
    BY DEF Looked, Advance, SameJob
  <2>2. CASE Past(s, "check")
    BY <2>1, <2>2, AdvanceTo DEF Looked
  <2>3. CASE s.held
    BY <2>1, <2>3, AdvanceTo, StepFacts DEF Looked, StepGood, Now, Advance
  <2> QED
    BY <2>2, <2>3 DEF Looked
<1> QED
  BY <1>1 DEF ConfOwn

LEMMA WrittenKept ==
    ASSUME NEW j \in Jobs, NEW r \in JobType, NEW s \in JobType, RecordGood(r),
           Written(j, r), Advance(r, s), raced \subseteq raced', mixed \subseteq mixed',
           Now(r) \notin Writers \/ r.size = 0, s.disk = 1, disk'[r.vm] = disk[r.vm],
           r.kind \in Clones =>
               \/ conf'[r.vm] = conf[r.vm] /\ Now(r) # "conf"
               \/ conf'[r.vm] = [by |-> j, is |-> "vm"]
               \/ To(s, "conf")
    PROVE  Written(j, s)'
<1> SUFFICES ASSUME j \notin mixed', r.vm \notin raced'
             PROVE  /\ \A d \in 1 .. NDisks :
                          r.size # 0 /\ Covered(s, d) => disk'[r.vm][d] = j
                    /\ r.kind \in Clones /\ Past(s, "conf") =>
                          conf'[r.vm] = [by |-> j, is |-> "vm"]
  BY DEF Written, Advance, SameJob
<1>1. ASSUME r.size # 0, NEW d \in 1 .. NDisks, Covered(s, d) PROVE Covered(r, d)
  <2>1. \A x \in Writers : ~Ahead(Prog(s), s.pc, x)
    BY <1>1, CloneRestoreAssumption DEF Covered
  <2>2. \A x \in Writers : ~Ahead(Prog(r), r.pc, x)
    BY <1>1, <2>1, AdvanceTo
  <2> QED
    BY <2>2 DEF Covered
<1>2. ASSUME r.kind \in Clones, Past(s, "conf")
      PROVE  conf'[r.vm] = [by |-> j, is |-> "vm"]
  <2>1. ~To(s, "conf")
    BY <1>2, AdvanceTo
  <2>2. CASE conf'[r.vm] = conf[r.vm] /\ Now(r) # "conf"
    BY <1>2, <2>1, <2>2, AdvanceTo DEF Written, Advance
  <2> QED
    BY <1>2, <2>1, <2>2
<1> QED
  BY <1>1, <1>2 DEF Written, Advance

LEMMA StubKept ==
    ASSUME NEW j \in Jobs, NEW r \in JobType, NEW s \in JobType, RecordGood(r),
           StubGood(j, r), Advance(r, s), leaky \subseteq leaky',
           Now(r) = "conf" =>
               r.kind = "restoreDr" \/ conf'[r.vm] # [by |-> j, is |-> "stub"],
           \A v \in Vmids : conf'[v] = [by |-> j, is |-> "stub"] =>
               conf[v] = conf'[v] \/ (Now(r) = "stub" /\ v = r.vm)
    PROVE  StubGood(j, s)'
<1> SUFFICES ASSUME j \notin leaky', r.kind # "restoreDr", NEW v \in Vmids,
                    conf'[v] = [by |-> j, is |-> "stub"]
             PROVE  r.kind = "restore" /\ s.end = "none" /\ To(s, "conf") /\ r.vm = v
  BY DEF StubGood, Advance, SameJob
<1>1. CASE Now(r) = "stub" /\ v = r.vm
  BY <1>1, AdvanceTo, StepFacts DEF StepGood, Now, Advance
<1>2. CASE conf[v] = conf'[v]
  <2>1. r.kind = "restore" /\ To(r, "conf") /\ r.vm = v
    BY <1>2 DEF StubGood, Advance
  <2> QED
    BY <2>1, AdvanceTo DEF Advance
<1> QED
  BY <1>1, <1>2

LEMMA DownKept ==
    ASSUME NEW j \in Jobs, NEW r \in JobType, NEW s \in JobType, RecordGood(r),
           StaysDown(r), Advance(r, s), raced \subseteq raced',
           unstopped \subseteq unstopped',
           s.held => r.held \/ Now(r) = "reserve",
           Now(r) = "start" \/ \A v \in MachinesOf(r) : v \in running' => v \in running,
           Now(r) = Guard(r.kind) => \A v \in MachinesOf(r) : IsDown(r, v)'
    PROVE  StaysDown(s)'
<1>1. /\ MachinesOf(s) = MachinesOf(r) /\ AtWork(r)
      /\ s.kind = r.kind /\ s.scope = r.scope
  BY DEF MachinesOf, Advance, SameJob, AtWork
<1>2. Touched(r.kind, r.scope) \subseteq MachinesOf(r) \union unstopped'
  BY <1>1 DEF StaysDown
<1>3. ASSUME Down(s), NEW v \in MachinesOf(r) PROVE IsDown(s, v)'
  <2>1. Past(s, Guard(r.kind)) /\ To(s, "start")
    BY <1>1, <1>3 DEF Down, Advance
  <2>2. Now(r) # "start"
    BY <2>1, StepFacts, AdvanceTo DEF StepGood, Now, Advance
  <2>3. CASE Now(r) = Guard(r.kind)
    BY <1>1, <1>3, <2>3 DEF IsDown
  <2>4. CASE Now(r) # Guard(r.kind)
    <3>1. Down(r)
      BY <2>1, <2>2, <2>4, AdvanceTo DEF Down
    <3>2. IsDown(r, v)
      BY <1>3, <3>1 DEF StaysDown
    <3> QED
      BY <1>1, <1>3, <2>2, <3>2 DEF IsDown
  <2> QED
    BY <2>3, <2>4
<1> QED
  BY <1>1, <1>2, <1>3 DEF StaysDown

-----------------------------------------------------------------------------
(* A job fails, or ends *)

LEMMA FailKept ==
    ASSUME NEW j \in Jobs, NEW r \in JobType, NEW s \in JobType, JobGood(j, r),
           SameJob(r, s), s.known = r.known, s.held = r.held,
           r.end = "none", s.end \in {"failed", "cancelled"},
           Ahead(Prog(r), r.pc + 1, "start"), raced' = raced, mixed \subseteq mixed', unstopped \subseteq unstopped',
           leaky \subseteq leaky', running' = running, conf' = conf,
           ontap'[j] = ontap[j] \/ j \in leaky',
           status'[j] = s.end, s.end = "cancelled" => j \in mixed'
    PROVE  JobGood(j, s)'
<1>1. AtWork(r) /\ AtWork(s) /\ s.end # "none"
  BY DEF AtWork
<1>2. RecordGood(s)
  <2>1. ScopeGood(s)
    BY <1>1, ScopeStays DEF JobGood, RecordGood
  <2> QED
    BY <1>1, <2>1 DEF JobGood, RecordGood, SameJob
<1>3. LeavesKnown(j, s)'
  BY <1>1 DEF JobGood, LeavesKnown, SameJob
<1>4. To(r, "start") /\ (r.held => Past(r, "check"))
  <2>2. Ahead(Prog(r), r.pc, "start")
    BY StepFacts DEF JobGood, Ahead
  <2> QED
    BY <2>2 DEF To, JobGood, RecordGood
<1>5. ConfOwn(j, s)'
  BY <1>1 DEF JobGood, ConfOwn, Looked, Past, SameJob
<1>6. Written(j, s)'
  BY <1>1 DEF Written
<1>7. StaysDown(s)'
  <2>1. MachinesOf(s) = MachinesOf(r) /\ s.kind = r.kind /\ s.scope = r.scope
    BY DEF MachinesOf, SameJob
  <2>2. Touched(r.kind, r.scope) \subseteq MachinesOf(r) \union unstopped'
    BY <1>1 DEF JobGood, StaysDown
  <2>3. ASSUME Down(s), NEW v \in MachinesOf(r) PROVE IsDown(s, v)'
    <3>1. Down(r)
      BY <1>1, <1>4, <2>3 DEF Down, Past, Guard, JobGood, RecordGood
    <3>2. IsDown(r, v)
      BY <2>3, <3>1 DEF JobGood, StaysDown
    <3> QED
      BY <2>1, <3>2 DEF IsDown
  <2> QED
    BY <2>1, <2>2, <2>3 DEF StaysDown
<1>8. RowGood(j, s)'
  BY DEF RowGood
<1>9. StubGood(j, s)'
  BY <1>1 DEF JobGood, StubGood, SameJob
<1> QED
  BY <1>2, <1>3, <1>5, <1>6, <1>7, <1>8, <1>9 DEF JobGood

LEMMA OverKept ==
    ASSUME NEW j \in Jobs, NEW s \in JobType,
           s.end = "over", s.known = {}, s.held = FALSE, status'[j] # "none",
           StubGood(j, s)',
           \/ j \in leaky'
           \/ /\ ontap'[j] = {} /\ j \notin wired'
              /\ \A v \in Vmids : conf'[v] # [by |-> j, is |-> "held"]
    PROVE  JobGood(j, s)'
<1>1. ~AtWork(s) /\ RecordGood(s) /\ ~Looked(s) /\ ~Down(s)
  BY DEF AtWork, RecordGood, Looked, Past, Down
<1> QED
  BY <1>1 DEF JobGood, RowGood, LeavesKnown, ConfOwn, Written, StaysDown

-----------------------------------------------------------------------------
(* What a step does to other jobs *)

\* What job r has its hands on, it may change; nothing else.
Stays(r, v) ==
    \/ v \in Touched(r.kind, r.scope)
    \/ conf'[v] = conf[v] /\ disk'[v] = disk[v] /\ (v \in running' => v \in running)

HistoryGrows ==
    /\ raced \subseteq raced' /\ mixed \subseteq mixed'
    /\ unstopped \subseteq unstopped' /\ leaky \subseteq leaky'

\* To job k, nothing that it counts on happens.
Spares(k) ==
    /\ ontap'[k] \subseteq ontap[k]
    /\ k \in wired' => k \in wired
    /\ status'[k] = status[k]
    /\ \A v \in Vmids :
         conf'[v] \in {[by |-> k, is |-> "held"], [by |-> k, is |-> "stub"]} =>
             conf'[v] = conf[v]

LEMMA OtherKept ==
    ASSUME NEW k \in Jobs, NEW t \in JobType, JobGood(k, t), HistoryGrows, Spares(k),
           AtWork(t) => \A v \in Touched(t.kind, t.scope) :
               \/ v \in raced'
               \/ conf'[v] = conf[v] /\ disk'[v] = disk[v]
                  /\ (v \in running' => v \in running)
    PROVE  JobGood(k, t)'
<1> USE DEF HistoryGrows
<1>1. ASSUME AtWork(t)
      PROVE  /\ t.vm \in Touched(t.kind, t.scope)
             /\ MachinesOf(t) \subseteq Touched(t.kind, t.scope)
  BY <1>1 DEF JobGood, RecordGood, ScopeGood, Touched, MachinesOf, JobType
<1>2. RecordGood(t) /\ RowGood(k, t)'
  BY DEF JobGood, RowGood, Spares
<1>3. LeavesKnown(k, t)'
  <2>1. ASSUME NEW v \in Vmids, conf'[v] = [by |-> k, is |-> "held"]
        PROVE  conf[v] = [by |-> k, is |-> "held"]
    BY <2>1 DEF Spares
  <2> QED
    BY <2>1 DEF JobGood, LeavesKnown, Spares
<1>7. StubGood(k, t)'
  <2>1. ASSUME NEW v \in Vmids, conf'[v] = [by |-> k, is |-> "stub"]
        PROVE  conf[v] = [by |-> k, is |-> "stub"]
    BY <2>1 DEF Spares
  <2> QED
    BY <2>1 DEF JobGood, StubGood, Spares
<1>4. ConfOwn(k, t)'
  <2> SUFFICES ASSUME Looked(t), t.vm \notin raced' PROVE conf'[t.vm] = conf[t.vm]
    BY DEF JobGood, ConfOwn
  <2>1. AtWork(t)
    BY DEF Looked, Past, AtWork, JobGood, RecordGood
  <2> QED
    BY <1>1, <2>1
<1>5. Written(k, t)'
  <2> SUFFICES ASSUME t.end = "none", t.vm \notin raced'
               PROVE  conf'[t.vm] = conf[t.vm] /\ disk'[t.vm] = disk[t.vm]
    BY DEF JobGood, Written
  <2>1. AtWork(t)
    BY DEF AtWork
  <2> QED
    BY <1>1, <2>1
<1>6. StaysDown(t)'
  <2>1. AtWork(t) => Touched(t.kind, t.scope) \subseteq MachinesOf(t) \union unstopped'
    BY DEF JobGood, StaysDown
  <2>2. ASSUME Down(t), NEW v \in MachinesOf(t) PROVE IsDown(t, v)'
    <3>1. AtWork(t)
      BY <2>2 DEF Down, Past, AtWork
    <3>2. IsDown(t, v)
      BY <2>2 DEF JobGood, StaysDown
    <3>3. v \in raced' \/ (v \in running' => v \in running)
      BY <1>1, <3>1, <2>2
    <3> QED
      BY <3>2, <3>3 DEF IsDown
  <2> QED
    BY <2>1, <2>2 DEF StaysDown
<1> QED
  BY <1>2, <1>3, <1>4, <1>5, <1>6, <1>7 DEF JobGood

-----------------------------------------------------------------------------
(* A step of a job, for itself and for the others *)

\* What a step of job j, whose record is r, is to the invariant.
TakesStep(j, r) ==
    /\ HistoryGrows /\ raced' = raced /\ AtWork(r)
    /\ \E s \in JobType : /\ job' = [job EXCEPT ![j] = s]
                          /\ JobGood(j, s)' /\ (AtWork(s) => SameJob(r, s))
    /\ \A v \in Vmids : Stays(r, v)
    /\ \A k \in Jobs \ {j} : Spares(k)

LEMMA JobsKept ==
    ASSUME CloneInv, NEW j \in Jobs, NEW r \in JobType, r = job[j], TakesStep(j, r)
    PROVE  JobsGood' /\ JobsApart' /\ job' \in [Jobs -> JobType]
<1>1. PICK s \in JobType : /\ job' = [job EXCEPT ![j] = s]
                           /\ JobGood(j, s)' /\ (AtWork(s) => SameJob(r, s))
  BY DEF TakesStep
<1>2. job' \in [Jobs -> JobType] /\ job'[j] = s
  BY <1>1 DEF CloneInv, Typed
<1>3. \A k \in Jobs \ {j} : job'[k] = job[k]
  BY <1>1 DEF CloneInv, Typed
<1>4. ASSUME NEW k \in Jobs, NEW t \in {job'[k]} PROVE JobGood(k, t)'
  <2>1. CASE k = j
    BY <1>1, <1>2, <1>4, <2>1
  <2>2. CASE k # j
    <3>1. t = job[k] /\ t \in JobType
      BY <1>3, <1>4, <2>2 DEF CloneInv, Typed
    <3>2. JobGood(k, t) /\ Apart(t, r)
      BY <2>2, <3>1 DEF CloneInv, JobsGood, JobsApart
    <3>3. ASSUME AtWork(t), NEW v \in Touched(t.kind, t.scope)
          PROVE  \/ v \in raced'
                 \/ conf'[v] = conf[v] /\ disk'[v] = disk[v]
                    /\ (v \in running' => v \in running)
      <4>1. v \in Vmids
        BY <3>1, <3>3 DEF Touched, JobType
      <4>2. Stays(r, v) /\ AtWork(r)
        BY <4>1 DEF TakesStep
      <4> QED
        BY <3>2, <3>3, <4>2 DEF Stays, Apart, TakesStep
    <3>4. HistoryGrows /\ Spares(k)
      BY <2>2 DEF TakesStep
    <3> HIDE DEF TakesStep, JobGood, Spares, HistoryGrows
    <3> QED
      BY <3>1, <3>2, <3>3, <3>4, OtherKept
  <2> QED
    BY <2>1, <2>2
<1>5. ASSUME NEW k \in Jobs, NEW l \in Jobs, k # l,
             NEW t \in {job'[k]}, NEW u \in {job'[l]}
      PROVE  Apart(t, u)'
  <2>1. \A a \in {job[k]}, b \in {job[l]} : Apart(a, b)
    BY <1>5 DEF CloneInv, JobsApart
  <2>2. raced' = raced
    BY DEF TakesStep
  <2>3. AtWork(t) => /\ AtWork(job[k]) /\ t.kind = job[k].kind
                     /\ t.scope = job[k].scope
    BY <1>1, <1>2, <1>3, <1>5 DEF TakesStep, SameJob
  <2>4. AtWork(u) => /\ AtWork(job[l]) /\ u.kind = job[l].kind
                     /\ u.scope = job[l].scope
    BY <1>1, <1>2, <1>3, <1>5 DEF TakesStep, SameJob
  <2> QED
    BY <2>1, <2>2, <2>3, <2>4 DEF Apart
<1> QED
  BY <1>2, <1>4, <1>5 DEF JobsGood, JobsApart

LEMMA OwnFacts ==
    ASSUME CloneInv, NEW j \in Jobs, NEW r \in JobType, r = job[j]
    PROVE  /\ JobGood(j, r) /\ RecordGood(r)
           /\ AtWork(r) => /\ r.vm \in Vmids /\ status[j] # "none"
                           /\ MachinesOf(r) \subseteq Touched(r.kind, r.scope)
                           /\ r.vm \in MachinesOf(r) /\ r.scope \subseteq Vmids
                           /\ r.scope \subseteq Touched(r.kind, r.scope)
           /\ r.end = "none" => /\ (Now(r) \in {"copy", "file"} /\ r.size # 0) \/ r.disk = 1
                                /\ r.pc \in 1 .. Len(Prog(r)) /\ AtWork(r)
<1>1. JobGood(j, r) /\ RecordGood(r)
  BY DEF CloneInv, JobsGood, JobGood
<1>2. AtWork(r) => ScopeGood(r) /\ status[j] # "none"
  BY <1>1 DEF RecordGood, JobGood, RowGood
<1>3. r.scope \subseteq Vmids
  BY DEF JobType
<1>4. ScopeGood(r) => /\ r.vm \in Vmids
                      /\ MachinesOf(r) \subseteq Touched(r.kind, r.scope)
                      /\ r.vm \in MachinesOf(r) /\ r.scope \subseteq Vmids
                      /\ r.scope \subseteq Touched(r.kind, r.scope)
  BY <1>3 DEF ScopeGood, MachinesOf, Touched
<1>5. r.end = "none" => /\ (Now(r) \in {"copy", "file"} /\ r.size # 0) \/ r.disk = 1
                        /\ r.pc \in 1 .. Len(Prog(r)) /\ AtWork(r)
  BY <1>1 DEF RecordGood, AtWork
<1> QED
  BY <1>1, <1>2, <1>4, <1>5

LEMMA AtIs ==
    ASSUME CloneInv, NEW j \in Jobs, NEW r \in JobType, r = job[j], NEW x, At(j, x)
    PROVE  r.end = "none" /\ Now(r) = x
  BY DEF At, Now, Prog

\* A job does a step of its program: what is left to see for each of them.
LEMMA AdvanceKept ==
    ASSUME NEW j \in Jobs, NEW r \in JobType, NEW s \in JobType, JobGood(j, r),
           Advance(r, s), HistoryGrows, status'[j] = status[j],
           Now(r) \notin {"end", "unsnap"}, s.disk = 1, Written(j, s)',
           \A o \in s.known : o \in r.known \/ o = Now(r),
           Now(r) = "drop" => s.known \subseteq {"snap"} /\ j \notin wired',
           ontap[j] \subseteq r.known => ontap'[j] \subseteq s.known \/ j \in leaky',
           j \in wired' => j \in wired \/ Now(r) \in {"device", "mount"},
           s.held => r.held \/ Now(r) = "reserve",
           s.held = r.held \/ Now(r) \in {"reserve", "conf"},
           \A v \in Vmids : conf'[v] = [by |-> j, is |-> "held"] =>
               \/ /\ conf[v] = conf'[v]
                  /\ Now(r) = "conf" /\ r.kind \in Clones => v # r.vm
                  /\ Now(r) # "reserve"
               \/ Now(r) = "reserve" /\ s.held /\ (v = r.vm \/ conf[v] = conf'[v]),
           \A v \in Vmids : conf'[v] = [by |-> j, is |-> "stub"] =>
               conf[v] = conf'[v] \/ (Now(r) = "stub" /\ v = r.vm),
           Now(r) = "conf" =>
               r.kind = "restoreDr" \/ conf'[r.vm] # [by |-> j, is |-> "stub"],
           r.vm \in raced' \/ conf'[r.vm] = conf[r.vm] \/ conf'[r.vm].is # "vm"
               \/ conf'[r.vm].by = j,
           Now(r) = "check" => conf'[r.vm].is # "vm",
           Now(r) = "start" \/ \A v \in MachinesOf(r) : v \in running' => v \in running,
           Now(r) = Guard(r.kind) => \A v \in MachinesOf(r) : IsDown(r, v)'
    PROVE  JobGood(j, s)'
<1> USE DEF HistoryGrows
<1>1. /\ RecordGood(r) /\ LeavesKnown(j, r) /\ ConfOwn(j, r) /\ StaysDown(r)
      /\ RowGood(j, r) /\ r.end = "none" /\ s.end = "none" /\ AtWork(r)
  BY DEF JobGood, Advance, AtWork
<1>2. RecordGood(s)
  <2>1. r.pc + 1 <= Len(Prog(r))
    BY <1>1, NotAtEnd
  <2> QED
    BY <1>1, <2>1, AdvanceRecord
<1>3. LeavesKnown(j, s)'
  BY <1>1, KnownKept
<1>4. ConfOwn(j, s)'
  BY <1>1, OwnKept
<1>5. StaysDown(s)'
  BY <1>1, DownKept
<1>6. RowGood(j, s)'
  BY <1>1 DEF RowGood
<1>7. StubGood(j, s)'
  BY <1>1, StubKept DEF JobGood
<1> QED
  BY <1>2, <1>3, <1>4, <1>5, <1>6, <1>7 DEF JobGood

\* A step that writes no disk and no configuration.
LEMMA QuietStep ==
    ASSUME CloneInv, NEW j \in Jobs, NEW r \in JobType, r = job[j], NEW s \in JobType,
           job' = [job EXCEPT ![j] = s], Advance(r, s), HistoryGrows, raced' = raced,
           status' = status, conf' = conf, disk' = disk,
           Now(r) \notin {"end", "unsnap", "reserve", "revert"},
           Now(r) \notin {"copy", "file"} \/ r.size = 0,
           Now(r) = "conf" => r.kind = "restoreDr",
           Now(r) = "check" => conf[r.vm].is = "none",
           s.disk = r.disk, s.held = r.held,
           \A o \in s.known : o \in r.known \/ o = Now(r),
           Now(r) = "drop" => s.known \subseteq {"snap"} /\ j \notin wired',
           \A k \in Jobs \ {j} : ontap'[k] = ontap[k],
           ontap[j] \subseteq r.known => ontap'[j] \subseteq s.known \/ j \in leaky',
           \A k \in wired' : k \in wired \/ (k = j /\ Now(r) \in {"device", "mount"}),
           Now(r) = "start" \/ running' \subseteq running,
           \A v \in running' : v \in running \/ v \in MachinesOf(r),
           Now(r) = "stop" =>
               \A v \in MachinesOf(r) : v \notin running' \/ v \in unstopped'
    PROVE  TakesStep(j, r)
<1>0. r.end = "none" /\ s.end = "none" /\ SameJob(r, s) /\ s.pc = r.pc + 1
  BY DEF Advance
<1>1. /\ JobGood(j, r) /\ RecordGood(r) /\ r.disk = 1 /\ AtWork(r)
      /\ MachinesOf(r) \subseteq Touched(r.kind, r.scope) /\ r.vm \in Vmids
      /\ r.pc \in 1 .. Len(Prog(r)) /\ StepGood(r.kind, Prog(r), r.pc)
  BY <1>0, OwnFacts, StepFacts DEF Writers
<1>2. Written(j, s)'
  <2>1. r.kind \in Clones => conf'[r.vm] = conf[r.vm] /\ Now(r) # "conf"
    BY DEF Clones
  <2>2. Written(j, r) /\ (Now(r) \notin Writers \/ r.size = 0)
    BY <1>1 DEF JobGood, Writers
  <2> QED
    BY <1>1, <2>1, <2>2, WrittenKept DEF HistoryGrows
<1>3. ASSUME Now(r) = Guard(r.kind), NEW v \in MachinesOf(r) PROVE IsDown(r, v)'
  <2>1. CASE r.kind \in Clones
    <3>1. Now(r) = "check" /\ v = r.vm /\ conf[r.vm].is = "none"
      BY <1>3, <2>1 DEF Guard, MachinesOf, Clones
    <3>2. v \in raced \/ v \notin running
      BY <3>1 DEF CloneInv, RunningGood
    <3>3. v \in raced' \/ v \notin running'
      BY <3>1, <3>2
    <3> QED
      BY <3>3 DEF IsDown
  <2>2. CASE r.kind \notin Clones
    BY <1>3, <2>2 DEF Guard, IsDown
  <2> QED
    BY <2>1, <2>2
<1>4. Now(r) = "check" => conf'[r.vm].is # "vm"
  OBVIOUS
<1>6. ASSUME NEW v \in Vmids, conf'[v] = [by |-> j, is |-> "held"]
      PROVE  /\ conf[v] = conf'[v]
             /\ Now(r) = "conf" /\ r.kind \in Clones => v # r.vm
             /\ Now(r) # "reserve"
  BY DEF Clones
<1>9. /\ \A v \in Vmids : conf'[v] = [by |-> j, is |-> "stub"] => conf[v] = conf'[v]
      /\ Now(r) = "conf" => r.kind = "restoreDr"
  OBVIOUS
<1>10. /\ Now(r) = "conf" =>
             r.kind = "restoreDr" \/ conf'[r.vm] # [by |-> j, is |-> "stub"]
       /\ \A v \in Vmids : conf'[v] = [by |-> j, is |-> "stub"] =>
             conf[v] = conf'[v] \/ (Now(r) = "stub" /\ v = r.vm)
       /\ r.vm \in raced' \/ conf'[r.vm] = conf[r.vm] \/ conf'[r.vm].is # "vm"
             \/ conf'[r.vm].by = j
  BY <1>9
<1>11. /\ s.disk = 1 /\ status'[j] = status[j]
       /\ j \in wired' => j \in wired \/ Now(r) \in {"device", "mount"}
  BY <1>1
<1>12. \A v \in Vmids : conf'[v] = [by |-> j, is |-> "held"] =>
           \/ /\ conf[v] = conf'[v]
              /\ Now(r) = "conf" /\ r.kind \in Clones => v # r.vm
              /\ Now(r) # "reserve"
           \/ Now(r) = "reserve" /\ s.held /\ (v = r.vm \/ conf[v] = conf'[v])
  BY <1>6
<1>5. JobGood(j, s)'
  BY <1>0, <1>1, <1>2, <1>3, <1>4, <1>10, <1>11, <1>12, AdvanceKept
<1>7. \A v \in Vmids : Stays(r, v)
  BY <1>1 DEF Stays
<1>8. \A k \in Jobs \ {j} : Spares(k)
  BY DEF Spares
<1> QED
  BY <1>0, <1>1, <1>5, <1>7, <1>8 DEF TakesStep

\* A step that fails.
LEMMA FailStep ==
    ASSUME CloneInv, NEW j \in Jobs, NEW r \in JobType, r = job[j],
           NEW x \in {"failed", "cancelled"}, Raise(j, x), r.end = "none",
           Now(r) \in CanRaise \/ Ahead(Prog(r), r.pc + 1, "start"),
           HistoryGrows, raced' = raced, conf' = conf,
           running' = running, wired' \subseteq wired,
           \A v \in Vmids : disk'[v] = disk[v] \/ v \in r.scope,
           \A k \in Jobs \ {j} : ontap'[k] = ontap[k],
           ontap'[j] = ontap[j] \/ j \in leaky', x = "cancelled" => j \in mixed'
    PROVE  TakesStep(j, r)
<1> DEFINE s == [r EXCEPT !.end = x, !.src = None]
<1>1. job' = [job EXCEPT ![j] = s]
  BY DEF Raise, CloneInv, Typed
<1>0. x \in Ends /\ s = [r EXCEPT !.end = x, !.src = None]
  BY DEF Ends
<1> HIDE DEF s
<1>2. s \in JobType /\ SameJob(r, s) /\ s.known = r.known /\ s.held = r.held /\ s.end = x
  BY <1>0 DEF JobType, SameJob
<1>3. /\ JobGood(j, r) /\ AtWork(r) /\ r.scope \subseteq Touched(r.kind, r.scope)
  BY OwnFacts
<1>4. status'[j] = x /\ \A k \in Jobs \ {j} : status'[k] = status[k]
  BY DEF Raise, CloneInv, Typed, StateTyped
<1>8. Ahead(Prog(r), r.pc + 1, "start")
  BY <1>3, StepFacts DEF JobGood, StepGood, Now
<1>5. JobGood(j, s)'
  BY <1>2, <1>3, <1>4, <1>8, FailKept DEF HistoryGrows
<1>6. \A v \in Vmids : Stays(r, v)
  BY <1>3 DEF Stays
<1>7. \A k \in Jobs \ {j} : Spares(k)
  BY <1>4 DEF Spares
<1> QED
  BY <1>1, <1>2, <1>3, <1>5, <1>6, <1>7 DEF TakesStep

\* A record that moved on, and nothing else.
LEMMA PlainStep ==
    ASSUME CloneInv, NEW j \in Jobs, NEW r \in JobType, r = job[j], r.end = "none",
           Now(r) \notin {"end", "unsnap"}, NEW s, s = Onward(r)
    PROVE  /\ s \in JobType /\ Advance(r, s) /\ s.disk = r.disk /\ s.held = r.held
           /\ s.known = r.known /\ s.vg = r.vg /\ s.src = r.src
<1>1. r.pc # 16
  BY OwnFacts, NotAtEnd
<1> QED
  BY <1>1, OnwardIs DEF Advance

LEMMA StepIs ==
    ASSUME NEW j \in Jobs, NEW r, r = job[j], Step(j)
    PROVE  job' = [job EXCEPT ![j] = Onward(r)]
  BY DEF Step

LEMMA CheckStep ==
    ASSUME CloneInv, NEW j \in Jobs, NEW r \in JobType, r = job[j], Check(j)
    PROVE  TakesStep(j, r)
<1>1. r.end = "none" /\ Now(r) = "check"
  BY AtIs DEF Check, is_vmid_in_use
<1>2. CASE Step(j) /\ UNCHANGED status /\ conf[job[j].vm].is = "none"
  <2> DEFINE s == Onward(r)
  <2>1. /\ s \in JobType /\ Advance(r, s) /\ s.disk = r.disk /\ s.held = r.held
        /\ s.known = r.known
    BY <1>1, PlainStep
  <2>2. job' = [job EXCEPT ![j] = s]
    BY <1>2, StepIs
  <2> HIDE DEF s
  <2> QED
    BY <1>1, <1>2, <2>1, <2>2, QuietStep
    DEF Check, pve, host, history, HistoryGrows, Writers
<1>3. CASE Raise(j, "failed")
  BY <1>1, <1>3, FailStep DEF Check, pve, host, history, HistoryGrows, CanRaise
<1> QED
  BY <1>2, <1>3 DEF Check, is_vmid_in_use

\* The steps that change none of the machines.
LEMMA StillStep ==
    ASSUME CloneInv, NEW j \in Jobs, NEW r \in JobType, r = job[j], Step(j),
           UNCHANGED <<status, conf, disk, ontap, history>>, r.end = "none",
           \/ /\ Now(r) \in {"group", "set", "deactivate"} /\ wired' = wired
              /\ running' = running
           \/ Now(r) = "conf" /\ r.kind = "restoreDr" /\ wired' = wired
              /\ running' = running
           \/ Now(r) \in {"copy", "file"} /\ r.size = 0 /\ wired' = wired
              /\ running' = running
           \/ Now(r) = "mount" /\ wired' = wired \union {j} /\ running' = running
           \/ /\ Now(r) = "start" /\ wired' = wired
              /\ \A v \in running' : v \in running \/ v \in MachinesOf(r)
    PROVE  TakesStep(j, r)
<1> DEFINE s == Onward(r)
<1>1. /\ s \in JobType /\ Advance(r, s) /\ s.disk = r.disk /\ s.held = r.held
      /\ s.known = r.known
  BY PlainStep
<1>2. job' = [job EXCEPT ![j] = s]
  BY StepIs
<1> HIDE DEF s
<1>3. HistoryGrows /\ raced' = raced
  BY DEF HistoryGrows, history
<1>4. \A k \in wired' : k \in wired \/ (k = j /\ Now(r) \in {"device", "mount"})
  OBVIOUS
<1>5. /\ Now(r) = "start" \/ running' \subseteq running
      /\ \A v \in running' : v \in running \/ v \in MachinesOf(r)
      /\ Now(r) \notin {"revert", "end", "unsnap", "reserve", "stop", "drop", "check"}
      /\ Now(r) \notin {"copy", "file"} \/ r.size = 0
      /\ Now(r) = "conf" => r.kind = "restoreDr"
  OBVIOUS
<1> QED
  BY <1>1, <1>2, <1>3, <1>4, <1>5, QuietStep

LEMMA StillSteps ==
    ASSUME CloneInv, NEW j \in Jobs, NEW r \in JobType, r = job[j],
           \/ SharedGroup(j) \/ Mount(j) \/ SkipConf(j) \/ SetName(j) \/ _vm_start(j)
           \/ vg_deactivate(j) \/ NoDisks(j)
    PROVE  TakesStep(j, r)
<1> USE DEF pve, host
<1>1. CASE SharedGroup(j)
  BY <1>1, AtIs, StillStep DEF SharedGroup
<1>2. CASE Mount(j)
  BY <1>2, AtIs, StillStep DEF Mount
<1>3. CASE SkipConf(j)
  BY <1>3, AtIs, StillStep DEF SkipConf
<1>7. CASE NoDisks(j)
  BY <1>7, AtIs, StillStep DEF NoDisks
<1>4. CASE SetName(j)
  BY <1>4, AtIs, StillStep DEF SetName
<1>5. CASE _vm_start(j)
  <2>1. \A v \in running' : v \in running \/ v \in MachinesOf(r)
    BY <1>5 DEF _vm_start, MachinesOf, Machines
  <2> QED
    BY <1>5, <2>1, AtIs, StillStep DEF _vm_start
<1>6. CASE vg_deactivate(j)
  <2>1. r.end = "none" /\ Now(r) = "deactivate"
    BY <1>6, AtIs DEF vg_deactivate
  <2>2. CASE Step(j) /\ UNCHANGED status
    BY <1>6, <2>1, <2>2, StillStep DEF vg_deactivate
  <2>3. CASE Raise(j, "failed")
    BY <1>6, <2>1, <2>3, FailStep DEF vg_deactivate, HistoryGrows, history, CanRaise
  <2> QED
    BY <1>6, <2>2, <2>3 DEF vg_deactivate
<1> QED
  BY <1>1, <1>2, <1>3, <1>4, <1>5, <1>6, <1>7

LEMMA MakeObjectStep ==
    ASSUME CloneInv, NEW j \in Jobs, NEW r \in JobType, r = job[j], MakeObject(j)
    PROVE  TakesStep(j, r)
<1>1. PICK o \in {"snap", "volume", "group"} :
          /\ At(j, o)
          /\ ontap' = [ontap EXCEPT ![j] = @ \union {o}]
          /\ job' = [job EXCEPT ![j] = [Onward(job[j]) EXCEPT !.known = @ \union {o}]]
          /\ UNCHANGED <<status, pve, host, history, faults>>
  BY DEF MakeObject
<1>2. r.end = "none" /\ Now(r) = o
  BY <1>1, AtIs
<1> DEFINE p == Onward(r)
<1>3. /\ p \in JobType /\ Advance(r, p) /\ p.disk = r.disk /\ p.held = r.held
      /\ p.known = r.known
  BY <1>2, PlainStep
<1> DEFINE s == [p EXCEPT !.known = p.known \union {o}]
<1>4. job' = [job EXCEPT ![j] = s]
  BY <1>1
<1> HIDE DEF p
<1>5. p.known \union {o} \in SUBSET Objects
  BY <1>3 DEF JobType, Objects
<1>6. /\ s \in JobType /\ Advance(r, s) /\ s.disk = r.disk /\ s.held = r.held
      /\ s.known = r.known \union {o}
  BY <1>3, <1>5, KnownIs DEF Advance, SameJob
<1> HIDE DEF s
<1>7. /\ \A k \in Jobs \ {j} : ontap'[k] = ontap[k]
      /\ ontap'[j] = ontap[j] \union {o}
  BY <1>1 DEF CloneInv, Typed, StateTyped
<1> QED
  BY <1>1, <1>2, <1>4, <1>6, <1>7, QuietStep
  DEF pve, host, history, HistoryGrows, Writers

LEMMA ListStep ==
    ASSUME CloneInv, NEW j \in Jobs, NEW r \in JobType, r = job[j], nvme_list_devices(j)
    PROVE  TakesStep(j, r)
<1>1. r.end = "none" /\ Now(r) = "list"
  BY AtIs DEF nvme_list_devices
<1> DEFINE p == Onward(r)
<1>2. /\ p \in JobType /\ Advance(r, p) /\ p.disk = r.disk /\ p.held = r.held
      /\ p.known = r.known
  BY <1>1, PlainStep
<1> DEFINE s == [p EXCEPT !.before = NvmeDevices(wired)]
<1>3. job' = [job EXCEPT ![j] = s]
  BY DEF nvme_list_devices
<1> HIDE DEF p
<1>4. NvmeDevices(wired) \in SUBSET Jobs
  BY DEF NvmeDevices, CloneInv, Typed, StateTyped
<1>6. /\ s \in JobType /\ SameJob(p, s) /\ s.pc = p.pc /\ s.disk = p.disk
      /\ s.known = p.known /\ s.held = p.held /\ s.end = p.end
  BY <1>2, <1>4, HostFieldsAre
<1> HIDE DEF s
<1>5. /\ s \in JobType /\ Advance(r, s) /\ s.disk = r.disk /\ s.held = r.held
      /\ s.known = r.known
  BY <1>2, <1>6 DEF Advance, SameJob
<1> QED
  BY <1>1, <1>3, <1>5, QuietStep
  DEF nvme_list_devices, pve, host, history, HistoryGrows, Writers

LEMMA DeviceStep ==
    ASSUME CloneInv, NEW j \in Jobs, NEW r \in JobType, r = job[j], Device(j)
    PROVE  TakesStep(j, r)
<1>1. r.end = "none" /\ Now(r) = "device"
  BY AtIs DEF Device
<1>2. PICK dev \in IF job[j].proto = "nvme"
                   THEN NvmeDevices(wired \union {j}) \ job[j].before ELSE {j} :
          /\ job' = [job EXCEPT ![j] = [Onward(@) EXCEPT !.dev = dev, !.before = {}]]
          /\ mixed' = IF dev = j THEN mixed ELSE mixed \union {j, dev}
  BY DEF Device
<1> DEFINE p == Onward(r)
           q == [p EXCEPT !.dev = dev]
           s == [q EXCEPT !.before = {}]
<1>3. /\ p \in JobType /\ Advance(r, p) /\ p.disk = r.disk /\ p.held = r.held
      /\ p.known = r.known
  BY <1>1, PlainStep
<1>4. job' = [job EXCEPT ![j] = s]
  BY <1>2
<1>5. dev \in Jobs
  BY <1>2 DEF NvmeDevices, CloneInv, Typed, StateTyped
<1> HIDE DEF p
<1>6. /\ q \in JobType /\ Advance(r, q) /\ q.disk = r.disk /\ q.held = r.held
      /\ q.known = r.known
  BY <1>3, <1>5, HostFieldsAre DEF Advance, SameJob
<1> HIDE DEF q
<1>7. /\ s \in JobType /\ Advance(r, s) /\ s.disk = r.disk /\ s.held = r.held
      /\ s.known = r.known
  <2>1. {} \in SUBSET Jobs
    OBVIOUS
  <2> QED
    BY <1>6, <2>1, HostFieldsAre DEF Advance, SameJob
<1> HIDE DEF s
<1>8. mixed \subseteq mixed'
  BY <1>2
<1> QED
  BY <1>1, <1>4, <1>7, <1>8, QuietStep DEF Device, pve, HistoryGrows, Writers

LEMMA StopStep ==
    ASSUME CloneInv, NEW j \in Jobs, NEW r \in JobType, r = job[j], _vm_stop(j)
    PROVE  TakesStep(j, r)
<1>1. r.end = "none" /\ Now(r) = "stop"
  BY AtIs DEF _vm_stop
<1> DEFINE s == Onward(r)
<1>2. /\ s \in JobType /\ Advance(r, s) /\ s.disk = r.disk /\ s.held = r.held
      /\ s.known = r.known
  BY <1>1, PlainStep
<1>3. job' = [job EXCEPT ![j] = s]
  BY StepIs DEF _vm_stop
<1> HIDE DEF s
<1>4. /\ \A v \in MachinesOf(r) : v \notin running' \/ v \in unstopped'
      /\ running' \subseteq running /\ unstopped \subseteq unstopped'
  BY DEF _vm_stop, MachinesOf, Machines
<1> QED
  BY <1>1, <1>2, <1>3, <1>4, QuietStep DEF _vm_stop, host, HistoryGrows, Writers

LEMMA CleanGroupStep ==
    ASSUME CloneInv, NEW j \in Jobs, NEW r \in JobType, r = job[j], cleanup_restore_vg(j)
    PROVE  TakesStep(j, r)
<1>1. r.end = "none" /\ Now(r) = "cleanvg"
  BY AtIs DEF cleanup_restore_vg
<1> DEFINE p == Onward(r)
           s == [p EXCEPT !.vg = 0]
<1>2. /\ p \in JobType /\ Advance(r, p) /\ p.disk = r.disk /\ p.held = r.held
      /\ p.known = r.known
  BY <1>1, PlainStep
<1>3. job' = [job EXCEPT ![j] = s]
  BY DEF cleanup_restore_vg
<1> HIDE DEF p
<1>4. /\ s \in JobType /\ Advance(r, s) /\ s.disk = r.disk /\ s.held = r.held
      /\ s.known = r.known
  <2>1. 0 \in Names \union {0}
    OBVIOUS
  <2> QED
    BY <1>2, <2>1, HostFieldsAre DEF Advance, SameJob
<1> HIDE DEF s
<1> QED
  BY <1>1, <1>3, <1>4, QuietStep
  DEF cleanup_restore_vg, pve, history, HistoryGrows, Writers

LEMMA UnpluggedIs ==
    ASSUME CloneInv, NEW j \in Jobs
    PROVE  Unplugged(j) \subseteq wired /\ (j \in wired => j \in Unplugged(j))
  BY DEF Unplugged

LEMMA DropStep ==
    ASSUME CloneInv, NEW j \in Jobs, NEW r \in JobType, r = job[j], Drop(j)
    PROVE  TakesStep(j, r)
<1>1. r.end = "none" /\ Now(r) = "drop"
  BY AtIs DEF Drop
<1> DEFINE p == Onward(r)
           s == [p EXCEPT !.known = p.known \intersect {"snap"}]
<1>2. /\ p \in JobType /\ Advance(r, p) /\ p.disk = r.disk /\ p.held = r.held
      /\ p.known = r.known
  BY <1>1, PlainStep
<1>3. job' = [job EXCEPT ![j] = s]
  BY DEF Drop
<1> HIDE DEF p
<1>4. /\ s \in JobType /\ Advance(r, s) /\ s.disk = r.disk /\ s.held = r.held
      /\ s.known = r.known \intersect {"snap"}
  <2>1. p.known \intersect {"snap"} \in SUBSET Objects
    BY DEF Objects
  <2> QED
    BY <1>2, <2>1, KnownIs DEF Advance, SameJob
<1> HIDE DEF s
<1>5. j \notin wired' /\ wired' \subseteq wired
  BY UnpluggedIs DEF Drop
<1>6. \A k \in Jobs \ {j} : ontap'[k] = ontap[k]
  BY DEF Drop, CloneInv, Typed, StateTyped
<1>7. ontap[j] \subseteq r.known => ontap'[j] \subseteq s.known \/ j \in leaky'
  <2>1. CASE ontap' = [ontap EXCEPT ![j] = @ \ (job[j].known \ {"snap"})]
    <3>1. ontap'[j] = ontap[j] \ (r.known \ {"snap"})
      BY <2>1 DEF CloneInv, Typed, StateTyped
    <3> QED
      BY <1>4, <3>1
  <2>2. CASE leaky' = leaky \union {j}
    BY <2>2
  <2> QED
    BY <2>1, <2>2 DEF Drop
<1>8. leaky \subseteq leaky'
  BY DEF Drop
<1> QED
  BY <1>1, <1>3, <1>4, <1>5, <1>6, <1>7, <1>8, QuietStep
  DEF Drop, pve, history, HistoryGrows, Writers

\* Where the deletion of a subsystem can fail, the machine has still to start.
LEMMA DropBeforeStart ==
    ASSUME NEW r \in JobType, r.kind \in Dr, r.proto = "nvme", Now(r) = "drop",
           r.pc \in 1 .. Len(Prog(r))
    PROVE  Ahead(Prog(r), r.pc + 1, "start")
<1>1. Prog(r) = DrCloneNvme \/ Prog(r) = RestoreDrNvme
  BY DEF Dr, Prog, Programs
<1>2. CASE Prog(r) = DrCloneNvme
  BY <1>2 DEF DrCloneNvme, DrNvmeTempClone, Now, Ahead
<1>3. CASE Prog(r) = RestoreDrNvme
  BY <1>3 DEF RestoreDrNvme, DrNvmeTempClone, Now, Ahead
<1> QED
  BY <1>1, <1>2, <1>3

LEMMA DropRaisesStep ==
    ASSUME CloneInv, NEW j \in Jobs, NEW r \in JobType, r = job[j], DropRaises(j)
    PROVE  TakesStep(j, r)
<1>1. r.end = "none" /\ Now(r) = "drop"
  BY AtIs DEF DropRaises
<1>2. Ahead(Prog(r), r.pc + 1, "start")
  BY <1>1, OwnFacts, DropBeforeStart DEF DropRaises
<1>3. wired' \subseteq wired
  BY DEF DropRaises
<1> QED
  BY <1>1, <1>2, <1>3, FailStep DEF DropRaises, pve, history, HistoryGrows

-----------------------------------------------------------------------------
(* The names of the volume groups *)

LEMMA SmallestName ==
    ASSUME NEW T \in SUBSET Nat, T # {}
    PROVE  Min(T) \in T
<1> DEFINE R == {pair \in Nat \X Nat : pair[1] < pair[2]}
<1>0. R = OpToRel(<, Nat)
  BY Zenon DEF OpToRel
<1>1. IsWellFoundedOn(R, Nat)
  BY <1>0, NatLessThanWellFounded
<1>2. \A x, y \in Nat : <<x, y>> \in R <=> x < y
  OBVIOUS
<1> HIDE DEF R
<1>3. PICK m \in T : \A x \in T : ~(<<x, m>> \in R)
  BY <1>1, WFMin
<1>4. ASSUME NEW x \in T PROVE m <= x
  <2>1. ~(x < m)
    BY <1>2, <1>3
  <2> QED
    BY <2>1
<1> QED
  BY <1>3, <1>4 DEF Min

\* There are as many names as jobs.  While the clone of one of them is in no group,
\* a name is free.
LEMMA FreeName ==
    ASSUME NEW left \in [Names -> Jobs \union {None}], NEW d \in Jobs,
           \A m, n \in Names : m # n /\ left[m] # None => left[m] # left[n],
           \A n \in Names : left[n] # d,
           NEW name, name = Min({n \in Names : left[n] = None})
    PROVE  name \in Names /\ left[name] = None
<1> DEFINE T == {n \in Names : left[n] = None}
<1>1. Names \subseteq Nat
  BY JobsNonempty
<1>2. ASSUME T = {} PROVE FALSE
  <2>1. left \in [Names -> Jobs \ {d}]
    BY <1>2
  <2>2. /\ Cardinality(Jobs) \in Nat /\ IsFiniteSet(Jobs \ {d})
        /\ Cardinality(Jobs \ {d}) = Cardinality(Jobs) - 1
    BY CloneRestoreAssumption, FS_CardinalityType, FS_RemoveElement
  <2>3. IsFiniteSet(Names) /\ Cardinality(Names) = Cardinality(Jobs)
    BY <2>2, FS_Interval DEF Names
  <2>4. Cardinality(Jobs \ {d}) < Cardinality(Names)
    BY <2>2, <2>3
  <2>5. \E m, n \in Names : m # n /\ left[m] = left[n]
    BY <2>1, <2>2, <2>3, <2>4, FS_PigeonHole
  <2> QED
    BY <1>2, <2>5
<1>3. Min(T) \in T
  BY <1>1, <1>2, SmallestName
<1> QED
  BY <1>3

\* What an import does: it may remove the group base1, and then it adds one or fails.
LEMMA ImportIs ==
    ASSUME CloneInv, NEW j \in Jobs, NEW r \in JobType, r = job[j], vg_import_clone(j)
    PROVE  \E left \in [Names -> Jobs \union {None}], bad \in SUBSET Jobs :
             /\ wiped \subseteq bad /\ wiped' = bad /\ mixed \subseteq mixed'
             /\ mixed' \subseteq Jobs
             /\ \A n \in Names : left[n] = vg[n] \/ left[n] = None
             /\ \/ \E name \in Names :
                     /\ r.dev \in wired /\ \A n \in Names : left[n] # r.dev
                     /\ vg' = [left EXCEPT ![name] = r.dev] /\ left[name] = None
                     /\ job' = [job EXCEPT ![j] = [Onward(r) EXCEPT !.vg = name]]
                     /\ status' = status
                \/ vg' = left /\ Raise(j, "failed")
<1> DEFINE stale == vg[1] # None /\ ~Busy(1)
           left == IF stale THEN [vg EXCEPT ![1] = None] ELSE vg
           bad == IF stale THEN wiped \union {vg[1]} ELSE wiped
           name == Min({n \in Names : left[n] = None})
<1>1. vg \in [Names -> Jobs \union {None}] /\ wiped \subseteq Jobs /\ wired \subseteq Jobs
      /\ mixed \subseteq Jobs
  BY DEF CloneInv, Typed, StateTyped
<1>2. 1 \in Names
  BY JobsNonempty
<1>3. left \in [Names -> Jobs \union {None}]
      /\ \A n \in Names : left[n] = vg[n] \/ left[n] = None
  BY <1>1, <1>2
<1>4. bad \in SUBSET Jobs /\ wiped \subseteq bad
  BY <1>1, <1>2
<1>5. wiped' = bad /\ mixed \subseteq mixed' /\ mixed' \subseteq Jobs
  BY <1>1 DEF vg_import_clone
<1>6. \/ /\ r.dev \in wired \ bad /\ \A n \in Names : left[n] # r.dev
         /\ vg' = [left EXCEPT ![name] = r.dev]
         /\ job' = [job EXCEPT ![j] = [Onward(r) EXCEPT !.vg = name]]
         /\ UNCHANGED status
      \/ vg' = left /\ Raise(j, "failed")
  BY DEF vg_import_clone
<1>7. \A m, n \in Names : m # n /\ left[m] # None => left[m] # left[n]
  BY <1>1, <1>2 DEF CloneInv, GroupsGood
<1> HIDE DEF left, bad
<1>8. CASE /\ r.dev \in wired \ bad /\ \A n \in Names : left[n] # r.dev
           /\ vg' = [left EXCEPT ![name] = r.dev]
           /\ job' = [job EXCEPT ![j] = [Onward(r) EXCEPT !.vg = name]]
           /\ UNCHANGED status
  <2>1. name \in Names /\ left[name] = None
    <3>1. r.dev \in Jobs
      BY <1>1, <1>8
    <3> QED
      BY <1>3, <1>7, <1>8, <3>1, FreeName
  <2> HIDE DEF name
  <2> QED
    BY <1>3, <1>4, <1>5, <1>8, <2>1
<1>9. CASE vg' = left /\ Raise(j, "failed")
  BY <1>3, <1>4, <1>5, <1>9
<1> QED
  BY <1>6, <1>8, <1>9

LEMMA ImportStep ==
    ASSUME CloneInv, NEW j \in Jobs, NEW r \in JobType, r = job[j], vg_import_clone(j)
    PROVE  TakesStep(j, r)
<1>1. /\ r.end = "none" /\ Now(r) = "import" /\ mixed \subseteq mixed'
      /\ UNCHANGED <<pve, ontap, wired, raced, unstopped, leaky, faults>>
  BY AtIs, ImportIs DEF vg_import_clone
<1>2. CASE Raise(j, "failed")
  BY <1>1, <1>2, FailStep DEF pve, HistoryGrows, CanRaise
<1>3. ASSUME NEW name \in Names, status' = status,
             job' = [job EXCEPT ![j] = [Onward(r) EXCEPT !.vg = name]]
      PROVE  TakesStep(j, r)
  <2> DEFINE p == Onward(r)
             s == [p EXCEPT !.vg = name]
  <2>1. /\ p \in JobType /\ Advance(r, p) /\ p.disk = r.disk /\ p.held = r.held
        /\ p.known = r.known
    BY <1>1, PlainStep
  <2>2. job' = [job EXCEPT ![j] = s]
    BY <1>3
  <2> HIDE DEF p
  <2>3. /\ s \in JobType /\ Advance(r, s) /\ s.disk = r.disk /\ s.held = r.held
        /\ s.known = r.known
    <3>1. name \in Names \union {0}
      OBVIOUS
    <3> QED
      BY <2>1, <3>1, HostFieldsAre DEF Advance, SameJob
  <2> HIDE DEF s
  <2> QED
    BY <1>1, <1>3, <2>2, <2>3, QuietStep DEF pve, HistoryGrows, Writers
<1> QED
  BY <1>2, <1>3, ImportIs

-----------------------------------------------------------------------------
(* The steps that write configurations *)

LEMMA ConfStep ==
    ASSUME CloneInv, NEW j \in Jobs, NEW r \in JobType, r = job[j], NEW s \in JobType,
           job' = [job EXCEPT ![j] = s], Advance(r, s), HistoryGrows, raced' = raced,
           UNCHANGED <<status, disk, running, ontap, wired>>,
           Now(r) \in {"reserve", "stub", "conf"},
           s.disk = r.disk, s.known = r.known,
           s.held => r.held \/ Now(r) = "reserve",
           s.held = r.held \/ Now(r) \in {"reserve", "conf"},
           \A v \in Vmids : conf'[v] = conf[v] \/
                            (v \in MachinesOf(r) /\ conf'[v].by = j),
           \A v \in Vmids : conf'[v] = [by |-> j, is |-> "held"] =>
               \/ /\ conf[v] = conf'[v]
                  /\ Now(r) = "conf" /\ r.kind \in Clones => v # r.vm
                  /\ Now(r) # "reserve"
               \/ Now(r) = "reserve" /\ s.held /\ (v = r.vm \/ conf[v] = conf'[v]),
           \A v \in Vmids : conf'[v] = [by |-> j, is |-> "stub"] =>
               conf[v] = conf'[v] \/ (Now(r) = "stub" /\ v = r.vm),
           Now(r) = "conf" => conf'[r.vm] # [by |-> j, is |-> "stub"],
           r.kind \in Clones =>
               \/ conf'[r.vm] = conf[r.vm] /\ Now(r) # "conf"
               \/ conf'[r.vm] = [by |-> j, is |-> "vm"]
               \/ To(s, "conf")
    PROVE  TakesStep(j, r)
<1>0. r.end = "none" /\ s.end = "none" /\ SameJob(r, s) /\ s.pc = r.pc + 1
  BY DEF Advance
<1>1. /\ JobGood(j, r) /\ RecordGood(r) /\ r.disk = 1 /\ AtWork(r)
      /\ MachinesOf(r) \subseteq Touched(r.kind, r.scope) /\ r.vm \in Vmids
      /\ Now(r) # Guard(r.kind)
  BY <1>0, OwnFacts DEF Guard
<1>2. Written(j, s)'
  BY <1>1, WrittenKept DEF HistoryGrows, JobGood, Writers
<1>3. r.vm \in raced' \/ conf'[r.vm] = conf[r.vm] \/ conf'[r.vm].is # "vm"
          \/ conf'[r.vm].by = j
  BY <1>1
<1>4. JobGood(j, s)'
  BY <1>0, <1>1, <1>2, <1>3, AdvanceKept
<1>5. \A v \in Vmids : Stays(r, v)
  BY <1>1 DEF Stays
<1>6. \A k \in Jobs \ {j} : Spares(k)
  BY DEF Spares
<1> QED
  BY <1>0, <1>1, <1>4, <1>5, <1>6 DEF TakesStep

LEMMA ReserveStep ==
    ASSUME CloneInv, NEW j \in Jobs, NEW r \in JobType, r = job[j], reserve_vmid(j)
    PROVE  TakesStep(j, r)
<1>1. r.end = "none" /\ Now(r) = "reserve"
  BY AtIs DEF reserve_vmid
<1> DEFINE p == Onward(r)
           s == [p EXCEPT !.held = TRUE]
<1>2. /\ p \in JobType /\ Advance(r, p) /\ p.disk = r.disk /\ p.held = r.held
      /\ p.known = r.known
  BY <1>1, PlainStep
<1>3. job' = [job EXCEPT ![j] = s]
  BY DEF reserve_vmid
<1> HIDE DEF p
<1>4. /\ s \in JobType /\ Advance(r, s) /\ s.disk = r.disk /\ s.held = TRUE
      /\ s.known = r.known
  BY <1>2 DEF Advance, SameJob, JobType
<1> HIDE DEF s
<1>5. /\ RecordGood(r) /\ r.vm \in Vmids /\ r.vm \in MachinesOf(r)
  BY <1>1, OwnFacts
<1>6. To(s, "conf")
  BY <1>1, <1>4, <1>5, AdvanceTo, StepFacts DEF StepGood, Now
<1>7. \A v \in Vmids : conf'[v] = IF v = r.vm THEN [by |-> j, is |-> "held"] ELSE conf[v]
  BY DEF reserve_vmid, CloneInv, Typed, StateTyped
<1>8. \A v \in Vmids : conf'[v] = conf[v] \/ (v \in MachinesOf(r) /\ conf'[v].by = j)
  BY <1>5, <1>7
<1>9. \A v \in Vmids : conf'[v] = [by |-> j, is |-> "held"] =>
        \/ /\ conf[v] = conf'[v]
           /\ Now(r) = "conf" /\ r.kind \in Clones => v # r.vm
           /\ Now(r) # "reserve"
        \/ Now(r) = "reserve" /\ s.held /\ (v = r.vm \/ conf[v] = conf'[v])
  BY <1>1, <1>4, <1>7
<1>10. UNCHANGED <<status, disk, running, ontap, wired>> /\ HistoryGrows /\ raced' = raced
  BY DEF reserve_vmid, host, history, HistoryGrows
<1>12. \A v \in Vmids : conf'[v] = [by |-> j, is |-> "stub"] => conf[v] = conf'[v]
  BY <1>7
<1>11. (s.held => r.held \/ Now(r) = "reserve") /\ Now(r) \in {"reserve", "stub", "conf"}
  BY <1>1
<1> QED
  BY <1>1, <1>3, <1>4, <1>6, <1>8, <1>9, <1>10, <1>11, <1>12, ConfStep

LEMMA StubStep ==
    ASSUME CloneInv, NEW j \in Jobs, NEW r \in JobType, r = job[j],
           _ensure_vmid_placeholder(j)
    PROVE  TakesStep(j, r)
<1>1. r.end = "none" /\ Now(r) = "stub"
  BY AtIs DEF _ensure_vmid_placeholder
<1> DEFINE s == Onward(r)
<1>2. /\ s \in JobType /\ Advance(r, s) /\ s.disk = r.disk /\ s.held = r.held
      /\ s.known = r.known
  BY <1>1, PlainStep
<1>3. job' = [job EXCEPT ![j] = s]
  BY StepIs DEF _ensure_vmid_placeholder
<1> HIDE DEF s
<1>4. /\ RecordGood(r) /\ r.vm \in Vmids /\ r.vm \in MachinesOf(r) /\ r.kind \notin Clones
  BY <1>1, OwnFacts, StepFacts DEF StepGood, Now, Clones
<1>5. \A v \in Vmids : \/ conf'[v] = conf[v]
                       \/ v = r.vm /\ conf'[v] = [by |-> j, is |-> "stub"]
  BY DEF _ensure_vmid_placeholder, CloneInv, Typed, StateTyped
<1>6. \A v \in Vmids : conf'[v] = conf[v] \/ (v \in MachinesOf(r) /\ conf'[v].by = j)
  BY <1>4, <1>5
<1>7. \A v \in Vmids :
        /\ conf'[v] = [by |-> j, is |-> "held"] => conf[v] = conf'[v]
        /\ conf'[v] = [by |-> j, is |-> "stub"] =>
              conf[v] = conf'[v] \/ (Now(r) = "stub" /\ v = r.vm)
  BY <1>1, <1>5
<1> QED
  BY <1>1, <1>2, <1>3, <1>4, <1>6, <1>7, ConfStep
  DEF _ensure_vmid_placeholder, host, history, HistoryGrows

LEMMA WriteConfStep ==
    ASSUME CloneInv, NEW j \in Jobs, NEW r \in JobType, r = job[j], WriteConf(j)
    PROVE  TakesStep(j, r)
<1>1. r.end = "none" /\ Now(r) = "conf"
  BY AtIs DEF WriteConf
<1> DEFINE p == Onward(r)
           b == p.held /\ r.kind # "drClone"
           s == [p EXCEPT !.held = b]
<1>2. /\ p \in JobType /\ Advance(r, p) /\ p.disk = r.disk /\ p.held = r.held
      /\ p.known = r.known
  BY <1>1, PlainStep
<1>3. job' = [job EXCEPT ![j] = s]
  BY DEF WriteConf
<1> HIDE DEF p
<1>4. /\ s \in JobType /\ Advance(r, s) /\ s.disk = r.disk /\ (s.held => r.held)
      /\ s.known = r.known
  <2>1. b \in BOOLEAN /\ (b => r.held)
    BY <1>2
  <2> HIDE DEF b
  <2>2. s \in JobType /\ SameJob(p, s) /\ s.pc = p.pc /\ s.end = p.end /\ s.held = b
        /\ s.disk = p.disk /\ s.known = p.known
    BY <1>2, <2>1 DEF SameJob, JobType
  <2> HIDE DEF s
  <2> QED
    BY <1>2, <2>1, <2>2 DEF Advance, SameJob
<1> HIDE DEF s
<1>5. /\ r.vm \in Vmids /\ r.vm \in MachinesOf(r)
  BY <1>1, OwnFacts
<1>6. \A v \in Vmids : conf'[v] = IF v \in MachinesOf(r) THEN [by |-> j, is |-> "vm"]
                                  ELSE conf[v]
  BY DEF WriteConf, Machines, MachinesOf
<1>7. conf'[r.vm] = [by |-> j, is |-> "vm"]
  BY <1>5, <1>6
<1>8. \A v \in Vmids : conf'[v] = conf[v] \/ (v \in MachinesOf(r) /\ conf'[v].by = j)
  BY <1>6
<1>9. \A v \in Vmids : conf'[v] = [by |-> j, is |-> "held"] =>
        \/ /\ conf[v] = conf'[v]
           /\ Now(r) = "conf" /\ r.kind \in Clones => v # r.vm
           /\ Now(r) # "reserve"
        \/ Now(r) = "reserve" /\ s.held /\ (v = r.vm \/ conf[v] = conf'[v])
  BY <1>1, <1>6, <1>7
<1>10. /\ \A v \in Vmids : conf'[v] = [by |-> j, is |-> "stub"] => conf[v] = conf'[v]
       /\ conf'[r.vm] # [by |-> j, is |-> "stub"]
  BY <1>6, <1>7
<1> QED
  BY <1>1, <1>3, <1>4, <1>7, <1>8, <1>9, <1>10, ConfStep
  DEF WriteConf, host, history, HistoryGrows

-----------------------------------------------------------------------------
(* The steps that write disks *)

LEMMA SoFar ==
    ASSUME NEW j \in Jobs, NEW r \in JobType, JobGood(j, r), r.end = "none",
           Now(r) \in Writers, r.size # 0, j \notin mixed, r.vm \notin raced
    PROVE  \A d \in 1 .. NDisks : d < r.disk => disk[r.vm][d] = j
  BY DEF JobGood, Written, Covered

\* Between two disks, or between the two halves of the copy of one.
LEMMA HereKept ==
    ASSUME NEW j \in Jobs, NEW r \in JobType, NEW s \in JobType, JobGood(j, r),
           SameJob(r, s), r.end = "none", s.end = "none", s.pc = r.pc,
           s.known = r.known, s.held = r.held, Now(r) \in {"copy", "file"},
           r.size # 0, HistoryGrows, raced' = raced, UNCHANGED <<status, conf, running, ontap, wired>>,
           \/ j \in mixed' \/ r.vm \in raced
           \/ \A d \in 1 .. NDisks : d < s.disk => disk'[r.vm][d] = j
    PROVE  JobGood(j, s)'
<1> USE DEF HistoryGrows
<1>1. Prog(s) = Prog(r) /\ MachinesOf(s) = MachinesOf(r) /\ AtWork(r) /\ AtWork(s)
  BY DEF SameJob, Prog, MachinesOf, AtWork
<1>2. RecordGood(s)
  BY NextDiskRecord DEF JobGood
<1>3. \A x : (To(s, x) <=> To(r, x)) /\ (Past(s, x) <=> Past(r, x))
  BY <1>1 DEF To, Past
<1>4. LeavesKnown(j, s)'
  BY <1>1, <1>3 DEF JobGood, LeavesKnown, SameJob
<1>5. ConfOwn(j, s)'
  BY <1>3 DEF JobGood, ConfOwn, Looked, SameJob
<1>6. Written(j, s)'
  <2> SUFFICES ASSUME j \notin mixed', r.vm \notin raced'
               PROVE  /\ \A d \in 1 .. NDisks :
                            r.size # 0 /\ Covered(s, d) => disk'[r.vm][d] = j
                      /\ r.kind \in Clones /\ Past(s, "conf") =>
                            conf'[r.vm] = [by |-> j, is |-> "vm"]
    BY DEF Written, SameJob
  <2>1. Ahead(Prog(r), r.pc, Now(r)) /\ Now(r) \in Writers
    BY StepFacts DEF JobGood, Ahead, Now, Writers
  <2>2. \A d \in 1 .. NDisks : Covered(s, d) => d < s.disk
    BY <1>1, <2>1 DEF Covered
  <2> QED
    BY <1>3, <2>2 DEF JobGood, Written
<1>7. StaysDown(s)'
  <2>1. Down(s) <=> Down(r)
    BY <1>3 DEF Down, SameJob
  <2>2. /\ Touched(r.kind, r.scope) \subseteq MachinesOf(r) \union unstopped'
        /\ s.kind = r.kind /\ s.scope = r.scope
    BY <1>1 DEF JobGood, StaysDown, SameJob
  <2>3. ASSUME Down(r), NEW v \in MachinesOf(r) PROVE IsDown(s, v)'
    BY <2>2, <2>3 DEF JobGood, StaysDown, IsDown
  <2> QED
    BY <1>1, <2>1, <2>2, <2>3 DEF StaysDown
<1>8. RowGood(j, s)'
  BY <1>1 DEF JobGood, RowGood
<1>9. StubGood(j, s)'
  BY <1>3 DEF JobGood, StubGood, SameJob
<1> QED
  BY <1>2, <1>4, <1>5, <1>6, <1>7, <1>8, <1>9 DEF JobGood

\* After the last disk.
LEMMA LastKept ==
    ASSUME NEW j \in Jobs, NEW r \in JobType, NEW s \in JobType, JobGood(j, r),
           Advance(r, s), s.disk = 1, s.known = r.known, s.held = r.held,
           Now(r) \in Writers, HistoryGrows, raced' = raced,
           UNCHANGED <<status, conf, running, ontap, wired>>,
           \/ j \in mixed' \/ r.vm \in raced
           \/ \A d \in 1 .. NDisks : disk'[r.vm][d] = j
    PROVE  JobGood(j, s)'
<1>1. RecordGood(r) /\ r.end = "none"
  BY DEF JobGood, Advance
<1>2. Written(j, s)'
  <2>1. Past(s, "conf") => Past(r, "conf")
    BY <1>1, AdvanceTo DEF Writers
  <2> QED
    BY <1>1, <2>1 DEF Written, JobGood, Advance, SameJob, HistoryGrows
<1>3. Now(r) \notin {"end", "unsnap", "drop", "check", "reserve", "conf", "start", "stop",
                     "stub", "device", "mount"}
  BY DEF Writers
<1>4. Now(r) # Guard(r.kind)
  BY <1>3 DEF Guard
<1>5. \A v \in Vmids : conf'[v] = [by |-> j, is |-> "held"] =>
        \/ /\ conf[v] = conf'[v]
           /\ Now(r) = "conf" /\ r.kind \in Clones => v # r.vm
           /\ Now(r) # "reserve"
        \/ Now(r) = "reserve" /\ s.held /\ (v = r.vm \/ conf[v] = conf'[v])
  BY <1>3
<1> QED
  BY <1>1, <1>2, <1>3, <1>4, <1>5, AdvanceKept

LEMMA WriteStep ==
    ASSUME CloneInv, NEW j \in Jobs, NEW r \in JobType, r = job[j], NEW s \in JobType,
           job' = [job EXCEPT ![j] = s], SameJob(r, s), r.end = "none", s.end = "none",
           Now(r) \in Writers, s.known = r.known, s.held = r.held,
           HistoryGrows, raced' = raced, UNCHANGED <<status, conf, running, ontap, wired>>,
           \A v \in Vmids : disk'[v] = disk[v] \/ v \in Touched(r.kind, r.scope),
           \/ /\ s.pc = r.pc /\ Now(r) \in {"copy", "file"} /\ r.size # 0
              /\ \/ j \in mixed' \/ r.vm \in raced
                 \/ \A d \in 1 .. NDisks : d < s.disk => disk'[r.vm][d] = j
           \/ /\ s.pc = r.pc + 1 /\ s.disk = 1
              /\ \/ j \in mixed' \/ r.vm \in raced
                 \/ \A d \in 1 .. NDisks : disk'[r.vm][d] = j
    PROVE  TakesStep(j, r)
<1>1. JobGood(j, r) /\ AtWork(r)
  BY OwnFacts
<1>2. JobGood(j, s)'
  BY <1>1, HereKept, LastKept DEF Advance
<1>3. \A v \in Vmids : Stays(r, v)
  BY DEF Stays
<1>4. \A k \in Jobs \ {j} : Spares(k)
  BY DEF Spares
<1> QED
  BY <1>1, <1>2, <1>3, <1>4 DEF TakesStep

LEMMA PutIs ==
    ASSUME CloneInv, NEW j \in Jobs, NEW r \in JobType, r = job[j], NEW V, NEW c,
           Put(j, V, c)
    PROVE  \A v \in Vmids :
             /\ v \notin V => disk'[v] = disk[v]
             /\ v \in V => \A d \in 1 .. NDisks :
                              disk'[v][d] = IF d = r.disk THEN c ELSE disk[v][d]
  BY DEF Put, CloneInv, Typed, StateTyped

LEMMA CopyBeginsStep ==
    ASSUME CloneInv, NEW j \in Jobs, NEW r \in JobType, r = job[j], CopyBegins(j)
    PROVE  TakesStep(j, r)
<1>1. /\ r.end = "none" /\ Now(r) = "copy" /\ r.size # 0
      /\ UNCHANGED <<conf, running, ontap, host, history, faults>>
  BY AtIs DEF CopyBegins, AtDisk
<1>2. CASE Raise(j, "failed") /\ UNCHANGED disk
  BY <1>1, <1>2, FailStep DEF host, history, HistoryGrows, CanRaise
<1>3. ASSUME NEW c \in wired, job' = [job EXCEPT ![j].src = c],
             Put(j, {r.vm}, Torn), UNCHANGED status
      PROVE  TakesStep(j, r)
  <2> DEFINE s == [r EXCEPT !.src = c]
  <2>1. job' = [job EXCEPT ![j] = s]
    BY <1>3
  <2>2. c \in Jobs \union {None}
    BY DEF CloneInv, Typed, StateTyped
  <2>3. /\ s \in JobType /\ SameJob(r, s) /\ s.pc = r.pc /\ s.disk = r.disk
        /\ s.known = r.known /\ s.held = r.held /\ s.end = r.end
    BY <2>2, HostFieldsAre
  <2> HIDE DEF s
  <2>4. JobGood(j, r) /\ r.vm \in Vmids /\ r.vm \in Touched(r.kind, r.scope)
    BY <1>1, OwnFacts
  <2>5. /\ \A v \in Vmids \ {r.vm} : disk'[v] = disk[v]
        /\ \A d \in 1 .. NDisks : disk'[r.vm][d] = IF d = r.disk THEN Torn
                                                    ELSE disk[r.vm][d]
    BY <1>3, <2>4, PutIs
  <2>6. j \in mixed \/ r.vm \in raced \/ \A d \in 1 .. NDisks : d < r.disk => disk[r.vm][d] = j
    BY <1>1, <2>4, SoFar DEF Writers
  <2>7. r.disk \in Nat
    BY CloneRestoreAssumption DEF JobType
  <2>8. \/ j \in mixed' \/ r.vm \in raced
        \/ \A d \in 1 .. NDisks : d < s.disk => disk'[r.vm][d] = j
    BY <1>1, <2>3, <2>5, <2>6, <2>7 DEF history
  <2>9. \A v \in Vmids : disk'[v] = disk[v] \/ v \in Touched(r.kind, r.scope)
    BY <2>4, <2>5
  <2> QED
    BY <1>1, <1>3, <2>1, <2>3, <2>8, <2>9, WriteStep DEF host, history, HistoryGrows, Writers
<1> QED
  BY <1>2, <1>3 DEF CopyBegins

LEMMA lv_copyStep ==
    ASSUME CloneInv, NEW j \in Jobs, NEW r \in JobType, r = job[j], lv_copy(j)
    PROVE  TakesStep(j, r)
<1>1. /\ r.end = "none" /\ Now(r) = "copy" /\ r.size # 0
      /\ UNCHANGED <<status, conf, running, ontap, host, raced, unstopped, leaky>>
  BY AtIs DEF lv_copy, AtDisk
<1>2. JobGood(j, r) /\ r.vm \in Vmids /\ r.vm \in Touched(r.kind, r.scope)
      /\ RecordGood(r)
  BY <1>1, OwnFacts
<1>3. r.pc # 16
  BY <1>1, <1>2, NotAtEnd
<1> DEFINE p == NextDisk(r)
           s == [p EXCEPT !.src = None]
<1>4. /\ p \in JobType /\ SameJob(r, p)
      /\ p.known = r.known /\ p.held = r.held /\ p.end = r.end
      /\ \/ r.disk = NDisks /\ p.pc = r.pc + 1 /\ p.disk = 1
         \/ r.disk < NDisks /\ p.pc = r.pc /\ p.disk = r.disk + 1
  BY <1>3, DiskIs
<1>5. job' = [job EXCEPT ![j] = s]
  BY DEF lv_copy
<1> HIDE DEF p
<1>6. /\ s \in JobType /\ SameJob(r, s)
      /\ s.known = r.known /\ s.held = r.held /\ s.end = r.end
      /\ \/ r.disk = NDisks /\ s.pc = r.pc + 1 /\ s.disk = 1
         \/ r.disk < NDisks /\ s.pc = r.pc /\ s.disk = r.disk + 1
  <2>1. None \in Jobs \union {None}
    OBVIOUS
  <2> QED
    BY <1>4, <2>1, HostFieldsAre DEF SameJob
<1> HIDE DEF s
<1>7. mixed \subseteq mixed'
  BY DEF lv_copy
<1>8. /\ \A v \in Vmids \ {r.vm} : disk'[v] = disk[v]
      /\ \/ j \in mixed'
         \/ \A d \in 1 .. NDisks : disk'[r.vm][d] = IF d = r.disk THEN j
                                                     ELSE disk[r.vm][d]
  <2>1. CASE Put(j, {r.vm}, r.src) /\ mixed' = IF r.src = j THEN mixed
                                                ELSE mixed \union {j}
    BY <1>2, <2>1, PutIs
  <2>2. CASE mixed' = mixed \union {j} /\ UNCHANGED disk
    BY <2>2
  <2> QED
    BY <2>1, <2>2 DEF lv_copy
<1>9. j \in mixed \/ r.vm \in raced \/ \A d \in 1 .. NDisks : d < r.disk => disk[r.vm][d] = j
  BY <1>1, <1>2, SoFar DEF Writers
<1>10. \/ j \in mixed' \/ r.vm \in raced
       \/ \A d \in 1 .. NDisks : d <= r.disk => disk'[r.vm][d] = j
  <2>1. r.disk \in 1 .. NDisks /\ NDisks \in Nat
    BY CloneRestoreAssumption DEF JobType
  <2> QED
    BY <1>7, <1>8, <1>9, <2>1
<1>11. \A v \in Vmids : disk'[v] = disk[v] \/ v \in Touched(r.kind, r.scope)
  BY <1>2, <1>8
<1>12. \/ /\ s.pc = r.pc /\ Now(r) \in {"copy", "file"} /\ r.size # 0
          /\ \/ j \in mixed' \/ r.vm \in raced
             \/ \A d \in 1 .. NDisks : d < s.disk => disk'[r.vm][d] = j
       \/ /\ s.pc = r.pc + 1 /\ s.disk = 1
          /\ \/ j \in mixed' \/ r.vm \in raced
             \/ \A d \in 1 .. NDisks : disk'[r.vm][d] = j
  <2>1. r.disk \in 1 .. NDisks /\ NDisks \in Nat
    BY CloneRestoreAssumption DEF JobType
  <2> QED
    BY <1>1, <1>6, <1>10, <2>1
<1> QED
  BY <1>1, <1>5, <1>6, <1>7, <1>11, <1>12, WriteStep DEF host, HistoryGrows, Writers

LEMMA FileStep ==
    ASSUME CloneInv, NEW j \in Jobs, NEW r \in JobType, r = job[j], File(j)
    PROVE  TakesStep(j, r)
<1>1. /\ r.end = "none" /\ Now(r) = "file" /\ r.size # 0
      /\ UNCHANGED <<conf, running, ontap, host, history, faults>>
  BY AtIs DEF File, AtDisk
<1>2. CASE Raise(j, "failed") /\ UNCHANGED disk
  BY <1>1, <1>2, FailStep DEF host, history, HistoryGrows, CanRaise
<1>3. CASE Put(j, r.scope, j) /\ job' = [job EXCEPT ![j] = NextDisk(@)] /\ UNCHANGED status
  <2>1. /\ JobGood(j, r) /\ RecordGood(r) /\ r.vm \in Vmids /\ r.vm \in r.scope
        /\ r.scope \subseteq Touched(r.kind, r.scope)
    BY <1>1, OwnFacts, StepFacts
  <2>2. r.pc # 16
    BY <1>1, <2>1, NotAtEnd
  <2> DEFINE s == NextDisk(r)
  <2>3. /\ s \in JobType /\ SameJob(r, s)
        /\ s.known = r.known /\ s.held = r.held /\ s.end = r.end
        /\ \/ r.disk = NDisks /\ s.pc = r.pc + 1 /\ s.disk = 1
           \/ r.disk < NDisks /\ s.pc = r.pc /\ s.disk = r.disk + 1
    BY <2>2, DiskIs
  <2>4. job' = [job EXCEPT ![j] = s]
    BY <1>3
  <2> HIDE DEF s
  <2>5. /\ \A v \in Vmids : v \notin r.scope => disk'[v] = disk[v]
        /\ \A d \in 1 .. NDisks : disk'[r.vm][d] = IF d = r.disk THEN j
                                                    ELSE disk[r.vm][d]
    BY <1>3, <2>1, PutIs
  <2>6. \/ j \in mixed \/ r.vm \in raced
        \/ \A d \in 1 .. NDisks : d < r.disk => disk[r.vm][d] = j
    BY <1>1, <2>1, SoFar DEF Writers
  <2>7. r.disk \in 1 .. NDisks /\ NDisks \in Nat
    BY CloneRestoreAssumption DEF JobType
  <2>8. \/ j \in mixed' \/ r.vm \in raced
        \/ \A d \in 1 .. NDisks : d <= r.disk => disk'[r.vm][d] = j
    BY <1>1, <2>5, <2>6, <2>7 DEF history
  <2>9. \A v \in Vmids : disk'[v] = disk[v] \/ v \in Touched(r.kind, r.scope)
    BY <2>1, <2>5
  <2>10. \/ /\ s.pc = r.pc /\ Now(r) \in {"copy", "file"} /\ r.size # 0
            /\ \/ j \in mixed' \/ r.vm \in raced
               \/ \A d \in 1 .. NDisks : d < s.disk => disk'[r.vm][d] = j
         \/ /\ s.pc = r.pc + 1 /\ s.disk = 1
            /\ \/ j \in mixed' \/ r.vm \in raced
               \/ \A d \in 1 .. NDisks : disk'[r.vm][d] = j
    BY <1>1, <2>3, <2>7, <2>8
  <2> QED
    BY <1>1, <1>3, <2>3, <2>4, <2>9, <2>10, WriteStep
    DEF host, history, HistoryGrows, Writers
<1> QED
  BY <1>2, <1>3 DEF File

LEMMA RevertStep ==
    ASSUME CloneInv, NEW j \in Jobs, NEW r \in JobType, r = job[j],
           restore_volume_snapshot_san(j)
    PROVE  TakesStep(j, r)
<1>1. /\ r.end = "none" /\ Now(r) = "revert"
      /\ UNCHANGED <<status, conf, running, ontap, host, history, faults>>
  BY AtIs DEF restore_volume_snapshot_san
<1> DEFINE s == Onward(r)
<1>2. /\ s \in JobType /\ Advance(r, s) /\ s.disk = r.disk /\ s.held = r.held
      /\ s.known = r.known
  BY <1>1, PlainStep
<1>3. job' = [job EXCEPT ![j] = s]
  BY StepIs DEF restore_volume_snapshot_san
<1> HIDE DEF s
<1>4. /\ JobGood(j, r) /\ RecordGood(r) /\ r.disk = 1 /\ r.vm \in Vmids
      /\ r.kind = "revert" /\ r.vm \in r.scope
  BY <1>1, OwnFacts, StepFacts DEF StepGood, Now
<1>5. r.vm \in Existing
  BY <1>1, <1>4 DEF RecordGood, ScopeGood, AtWork
<1>6. \A d \in 1 .. NDisks : disk'[r.vm][d] = j
  BY <1>4, <1>5 DEF restore_volume_snapshot_san
<1>7. \A v \in Vmids : disk'[v] = disk[v] \/ v \in Touched(r.kind, r.scope)
  BY <1>4 DEF Touched
<1> QED
  BY <1>1, <1>2, <1>3, <1>4, <1>6, <1>7, WriteStep
  DEF host, history, HistoryGrows, Writers, Advance

-----------------------------------------------------------------------------
(* The steps that fail *)

LEMMA FailSteps ==
    ASSUME CloneInv, NEW j \in Jobs, NEW r \in JobType, r = job[j],
           FileFails(j) \/ Raises(j) \/ Cancel(j)
    PROVE  TakesStep(j, r)
<1>1. CASE FileFails(j)
  <2>1. r.end = "none" /\ Now(r) = "file"
    BY <1>1, AtIs DEF FileFails, AtDisk
  <2>2. \A v \in Vmids : disk'[v] = disk[v] \/ v \in r.scope
    BY <1>1, PutIs DEF FileFails
  <2> QED
    BY <1>1, <2>1, <2>2, FailStep DEF FileFails, host, history, HistoryGrows, CanRaise
<1>2. CASE Raises(j)
  <2>1. r.end = "none" /\ Now(r) \in CanRaise
    BY <1>2 DEF Raises, Now, Prog, CanRaise
  <2> QED
    BY <1>2, <2>1, FailStep DEF Raises, pve, host, history, HistoryGrows
<1>3. CASE Cancel(j)
  <2>1. r.end = "none" /\ Now(r) \in CanRaise
    BY <1>3, AtIs DEF Cancel, CancelPoints, CanRaise
  <2> QED
    BY <1>3, <2>1, FailStep DEF Cancel, pve, host, HistoryGrows
<1> QED
  BY <1>1, <1>2, <1>3

LEMMA UnansweredStep ==
    ASSUME CloneInv, NEW j \in Jobs, NEW r \in JobType, r = job[j], Unanswered(j)
    PROVE  TakesStep(j, r)
<1>1. PICK o \in {"volume", "group"} :
          /\ At(j, o)
          /\ ontap' = [ontap EXCEPT ![j] = @ \union {o}]
          /\ leaky' = leaky \union {j}
          /\ (o = "group" /\ Step(j) /\ UNCHANGED status) \/ Raise(j, "failed")
          /\ UNCHANGED <<pve, host, raced, unstopped, mixed>>
  BY DEF Unanswered
<1>2. r.end = "none" /\ Now(r) = o
  BY <1>1, AtIs
<1>3. \A k \in Jobs \ {j} : ontap'[k] = ontap[k]
  BY <1>1 DEF CloneInv, Typed, StateTyped
<1>4. HistoryGrows /\ raced' = raced /\ j \in leaky'
  BY <1>1 DEF HistoryGrows
<1>5. CASE Raise(j, "failed")
  BY <1>1, <1>2, <1>3, <1>4, <1>5, FailStep DEF pve, host, CanRaise
<1>6. CASE o = "group" /\ Step(j) /\ UNCHANGED status
  <2> DEFINE s == Onward(r)
  <2>1. /\ s \in JobType /\ Advance(r, s) /\ s.disk = r.disk /\ s.held = r.held
        /\ s.known = r.known
    BY <1>2, PlainStep
  <2>2. job' = [job EXCEPT ![j] = s]
    BY <1>6, StepIs
  <2> HIDE DEF s
  <2> QED
    BY <1>1, <1>2, <1>3, <1>4, <1>6, <2>1, <2>2, QuietStep DEF pve, host, Writers
<1> QED
  BY <1>1, <1>5, <1>6

-----------------------------------------------------------------------------
(* The ends *)

\* Of a stub of j, if any stays.
StubLeft(j, r) ==
    \A v \in Vmids : conf'[v] = [by |-> j, is |-> "stub"] =>
        r.kind = "restoreDr" \/ (r.kind = "restore" /\ status'[j] # "done")

LEMMA OverStep ==
    ASSUME CloneInv, NEW j \in Jobs, NEW r \in JobType, r = job[j], AtWork(r),
           job' = [job EXCEPT ![j] = Over(j)], HistoryGrows, raced' = raced,
           \A k \in Jobs \ {j} : status'[k] = status[k] /\ ontap'[k] = ontap[k],
           wired' \subseteq wired, UNCHANGED <<disk, running>>,
           \A v \in Vmids : conf'[v] = conf[v] \/ (v = r.vm /\ conf'[v] = NoConf),
           \/ j \in leaky'
           \/ /\ ontap'[j] = {} /\ j \notin wired'
              /\ \A v \in Vmids : conf'[v] # [by |-> j, is |-> "held"]
              /\ StubLeft(j, r),
           status'[j] # "none"
    PROVE  TakesStep(j, r)
<1> DEFINE s == Over(j)
<1>0. PICK t : t = s
  OBVIOUS
<1>1. /\ t \in JobType /\ t.end = "over" /\ t.known = {} /\ t.held = FALSE
      /\ t.kind = r.kind
  BY <1>0, OverIs DEF CloneInv
<1>8. StubGood(j, t)'
  BY <1>1 DEF StubGood, StubLeft
<1>2. JobGood(j, t)'
  BY <1>1, <1>8, OverKept
<1>3. ~AtWork(t)
  BY <1>1 DEF AtWork
<1>4. r.vm \in Touched(r.kind, r.scope)
  BY OwnFacts
<1>5. \A v \in Vmids : Stays(r, v)
  BY <1>4 DEF Stays
<1>6. \A k \in Jobs \ {j} : Spares(k)
  BY DEF Spares, NoConf
<1>7. job' = [job EXCEPT ![j] = t]
  BY <1>0
<1> QED
  BY <1>1, <1>2, <1>3, <1>5, <1>6, <1>7 DEF TakesStep

\* At its end a job has nothing more to remove than the snapshot.
LEMMA NothingAtEnd ==
    ASSUME CloneInv, NEW j \in Jobs, NEW r \in JobType, r = job[j], r.end = "none",
           Now(r) \in {"end", "unsnap"}, j \notin leaky
    PROVE  /\ ontap[j] \subseteq r.known /\ r.known \subseteq {"snap"} /\ j \notin wired
           /\ \A v \in Vmids : conf[v] # [by |-> j, is |-> "held"]
           /\ r.kind = "restoreDr" \/
                 \A v \in Vmids : conf[v] # [by |-> j, is |-> "stub"]
<1>1. RecordGood(r) /\ LeavesKnown(j, r) /\ StubGood(j, r)
  BY OwnFacts DEF JobGood
<1>2. ~To(r, "drop") /\ ~To(r, "conf")
  BY <1>1, StepFacts DEF StepGood, To, Now
<1>3. r.known \subseteq {"snap", "volume", "group"}
  BY DEF JobType, Objects
<1>4. "volume" \notin r.known /\ "group" \notin r.known
  BY <1>1, <1>2 DEF RecordGood
<1> QED
  BY <1>1, <1>2, <1>3, <1>4 DEF LeavesKnown, StubGood

LEMMA FinishStep ==
    ASSUME CloneInv, NEW j \in Jobs, NEW r \in JobType, r = job[j], Finish(j)
    PROVE  TakesStep(j, r)
<1>1. /\ r.end = "none" /\ Now(r) = "end"
      /\ UNCHANGED <<pve, ontap, host, history, faults>>
  BY AtIs DEF Finish
<1>2. /\ JobGood(j, r) /\ RecordGood(r) /\ r.vm \in Vmids /\ r.disk = 1 /\ AtWork(r)
  BY <1>1, OwnFacts
<1>3. status'[j] = "done" /\ \A k \in Jobs \ {j} : status'[k] = status[k]
  BY DEF Finish, CloneInv, Typed, StateTyped
<1>4. HistoryGrows /\ raced' = raced
  BY <1>1 DEF history, HistoryGrows
<1>5. CASE "snap" \notin r.known
  <2>1. job' = [job EXCEPT ![j] = Over(j)]
    BY <1>5 DEF Finish
  <2>2. \/ j \in leaky'
        \/ /\ ontap'[j] = {} /\ j \notin wired'
           /\ \A v \in Vmids : conf'[v] # [by |-> j, is |-> "held"]
           /\ StubLeft(j, r)
    BY <1>1, <1>5, NothingAtEnd DEF history, host, pve, StubLeft
  <2> QED
    BY <1>1, <1>2, <1>3, <1>4, <2>1, <2>2, OverStep DEF pve, host
<1>6. CASE "snap" \in r.known
  <2> DEFINE s == Onward(r)
  <2>1. r.pc + 1 <= Len(Prog(r)) /\ r.pc # 16
    <3>1. To(r, "unsnap")
      BY <1>1, <1>2, <1>6 DEF RecordGood
    <3>2. PICK k \in r.pc .. Len(Prog(r)) : Prog(r)[k] = "unsnap"
      BY <3>1 DEF To, Ahead
    <3>3. k # r.pc
      BY <1>1, <3>2 DEF Now
    <3>4. Len(Prog(r)) \in 1 .. 16 /\ r.pc \in 1 .. Len(Prog(r))
      BY <1>1, <1>2, StepFacts
    <3> QED
      BY <3>2, <3>3, <3>4
  <2>2. /\ s \in JobType /\ Advance(r, s) /\ s.disk = 1 /\ s.held = r.held
        /\ s.known = r.known
    BY <1>1, <1>2, <2>1, OnwardIs DEF Advance
  <2>3. job' = [job EXCEPT ![j] = s]
    BY <1>6 DEF Finish
  <2> HIDE DEF s
  <2>4. RecordGood(s)
    BY <1>1, <1>2, <2>1, <2>2, AdvanceRecord
  <2>5. LeavesKnown(j, s)'
    BY <1>1, <1>2, <2>2, KnownKept DEF JobGood, pve, host, history
  <2>6. ConfOwn(j, s)'
    BY <1>1, <1>2, <2>2, OwnKept DEF JobGood, pve, history
  <2>7. Written(j, s)'
    BY <1>1, <1>2, <2>2, WrittenKept DEF JobGood, pve, history, Writers
  <2>8. StaysDown(s)'
    BY <1>1, <1>2, <2>2, DownKept DEF JobGood, pve, history, Guard
  <2>9. RowGood(j, s)'
    BY <1>3, <2>2 DEF RowGood, Advance
  <2>12. StubGood(j, s)'
    BY <1>1, <2>2, NothingAtEnd DEF StubGood, pve, history, Advance, SameJob
  <2>10. \A v \in Vmids : Stays(r, v)
    BY <1>1 DEF Stays, pve
  <2>11. \A k \in Jobs \ {j} : Spares(k)
    BY <1>1, <1>3 DEF Spares, pve, host
  <2> QED
    BY <1>2, <1>4, <2>2, <2>3, <2>4, <2>5, <2>6, <2>7, <2>8, <2>9, <2>10, <2>11, <2>12
    DEF TakesStep, JobGood, Advance
<1> QED
  BY <1>5, <1>6

LEMMA RemoveSnapshotStep ==
    ASSUME CloneInv, NEW j \in Jobs, NEW r \in JobType, r = job[j], RemoveSnapshot(j)
    PROVE  TakesStep(j, r)
<1>1. /\ r.end = "none" /\ Now(r) = "unsnap" /\ AtWork(r)
      /\ UNCHANGED <<status, pve, host, raced, unstopped, mixed>>
      /\ job' = [job EXCEPT ![j] = Over(j)]
  BY AtIs DEF RemoveSnapshot, AtWork
<1>2. HistoryGrows /\ \A k \in Jobs \ {j} : ontap'[k] = ontap[k]
  BY <1>1 DEF RemoveSnapshot, HistoryGrows, CloneInv, Typed, StateTyped
<1>3. \/ j \in leaky'
      \/ /\ ontap'[j] = {} /\ j \notin wired'
         /\ \A v \in Vmids : conf'[v] # [by |-> j, is |-> "held"]
         /\ StubLeft(j, r)
  <2>1. CASE ontap' = [ontap EXCEPT ![j] = @ \ {"snap"}] /\ leaky' = leaky
    <3>1. ontap'[j] = ontap[j] \ {"snap"}
      BY <2>1 DEF CloneInv, Typed, StateTyped
    <3> QED
      BY <1>1, <2>1, <3>1, NothingAtEnd DEF pve, host, StubLeft
  <2>2. CASE leaky' = leaky \union {j}
    BY <2>2
  <2> QED
    BY <2>1, <2>2 DEF RemoveSnapshot
<1>4. status'[j] # "none"
  BY <1>1, OwnFacts
<1> QED
  BY <1>1, <1>2, <1>3, <1>4, OverStep DEF pve, host

LEMMA HandleSteps ==
    ASSUME CloneInv, NEW j \in Jobs, NEW r \in JobType, r = job[j],
           Handle(j) \/ HandlePartly(j)
    PROVE  TakesStep(j, r)
<1>1. /\ r.end \in {"failed", "cancelled"} /\ AtWork(r)
      /\ UNCHANGED <<disk, running, raced, unstopped, mixed>>
      /\ job' = [job EXCEPT ![j] = Over(j)]
  BY DEF Handle, HandlePartly, AtWork, history
<1>2. HistoryGrows /\ wired' \subseteq wired
  BY DEF Handle, HandlePartly, HistoryGrows, history, host
<1>3. \A k \in Jobs \ {j} : status'[k] = status[k] /\ ontap'[k] = ontap[k]
  BY DEF Handle, HandlePartly, CloneInv, Typed, StateTyped
<1>4. \A v \in Vmids : conf'[v] = conf[v] \/ (v = r.vm /\ conf'[v] = NoConf)
  BY DEF Handle, HandlePartly, CloneInv, Typed, StateTyped
<1>6. status'[j] = Outcome(j)
  BY DEF Handle, HandlePartly, CloneInv, Typed, StateTyped
<1>7. status'[j] # "none" /\ (r.kind = "restore" => status'[j] = status[j])
  BY <1>1, <1>6, OwnFacts DEF Outcome
<1>5. \/ j \in leaky'
      \/ /\ ontap'[j] = {} /\ j \notin wired'
         /\ \A v \in Vmids : conf'[v] # [by |-> j, is |-> "held"]
         /\ StubLeft(j, r)
  <2>1. CASE HandlePartly(j)
    BY <2>1 DEF HandlePartly
  <2>2. CASE Handle(j) /\ j \notin leaky
    <3>1. /\ ontap[j] \subseteq r.known
          /\ \A v \in Vmids : conf[v] = [by |-> j, is |-> "held"] => r.held /\ r.vm = v
      BY <2>2, OwnFacts DEF JobGood, LeavesKnown
    <3>2. ontap'[j] = ontap[j] \ r.known
      BY <2>2 DEF Handle, CloneInv, Typed, StateTyped
    <3>3. j \notin wired'
      BY <2>2, UnpluggedIs DEF Handle
    <3>4. r.held => \A v \in Vmids : conf'[v] = IF v = r.vm THEN NoConf ELSE conf[v]
      BY <2>2 DEF Handle, Releases, CloneInv, Typed, StateTyped
    <3>5. ~r.held => conf' = conf
      BY <2>2 DEF Handle, Releases
    <3>6. \A v \in Vmids : conf'[v] = [by |-> j, is |-> "stub"] => conf[v] = conf'[v]
      BY <1>4 DEF NoConf
    <3>7. StubLeft(j, r)
      BY <1>1, <1>7, <2>2, <3>6, OwnFacts DEF JobGood, StubGood, StubLeft
    <3> QED
      BY <3>1, <3>2, <3>3, <3>4, <3>5, <3>7 DEF NoConf
  <2>3. CASE Handle(j) /\ j \in leaky
    BY <2>3 DEF Handle, history
  <2> QED
    BY <2>1, <2>2, <2>3
<1> QED
  BY <1>1, <1>2, <1>3, <1>4, <1>5, <1>7, OverStep

-----------------------------------------------------------------------------
(* Every step of a job *)

LEMMA WorksTakesStep ==
    ASSUME CloneInv, NEW j \in Jobs, NEW r \in JobType, r = job[j], Works(j)
    PROVE  TakesStep(j, r)
  BY CheckStep, ReserveStep, StubStep, MakeObjectStep, StillSteps, ListStep, DeviceStep,
     ImportStep, CopyBeginsStep, lv_copyStep, FileStep, FailSteps, RevertStep, StopStep,
     WriteConfStep, CleanGroupStep, DropStep, DropRaisesStep, FinishStep, RemoveSnapshotStep,
     UnansweredStep, HandleSteps
  DEF Works

\* What the steps of a job leave typed.
LEMMA WorksTyped ==
    ASSUME CloneInv, NEW j \in Jobs, Works(j)
    PROVE  StateTyped'
<1>0. PICK r \in JobType : r = job[j]
  BY DEF CloneInv, Typed
<1>1. /\ StateTyped /\ r.disk \in 1 .. NDisks
      /\ r.vm \in Vmids \union {None} /\ r.scope \subseteq Vmids
      /\ r.src \in Jobs \union {None} /\ r.vg \in Names \union {0}
      /\ MachinesOf(r) = Machines(j) /\ (AtWork(r) => MachinesOf(r) \subseteq Vmids)
  BY <1>0, OwnFacts DEF CloneInv, Typed, JobType, MachinesOf, Machines, Touched
<1>2. r.end = "none" => AtWork(r) /\ r.vm \in Vmids
  BY <1>0, OwnFacts
<1>3. vg_import_clone(j) => /\ wiped' \subseteq Jobs /\ mixed' \subseteq Jobs
                            /\ vg' \in [Names -> Jobs \union {None}]
  <2> SUFFICES ASSUME vg_import_clone(j)
               PROVE  /\ wiped' \subseteq Jobs /\ mixed' \subseteq Jobs
                      /\ vg' \in [Names -> Jobs \union {None}]
    OBVIOUS
  <2>1. PICK left \in [Names -> Jobs \union {None}], bad \in SUBSET Jobs :
           /\ wiped' = bad /\ mixed' \subseteq Jobs
           /\ \/ \E name \in Names :
                   r.dev \in wired /\ vg' = [left EXCEPT ![name] = r.dev]
              \/ vg' = left
    BY <1>0, ImportIs
  <2> QED
    BY <1>1, <2>1 DEF StateTyped
<1>4. Device(j) => mixed' \subseteq Jobs
  BY <1>1 DEF StateTyped, NvmeDevices, Device
<1>5. Outcome(j) \in Statuses
  BY <1>1 DEF Outcome, StateTyped, Statuses
<1>6. Unplugged(j) \subseteq wired
  BY UnpluggedIs
<1> USE DEF Works, Check, is_vmid_in_use, reserve_vmid, _ensure_vmid_placeholder,
         MakeObject, SharedGroup, nvme_list_devices, Device, Mount, vg_import_clone,
         CopyBegins, lv_copy, File, FileFails, NoDisks, restore_volume_snapshot_san, vg_deactivate,
         _vm_stop, WriteConf, SkipConf, SetName, _vm_start, cleanup_restore_vg, Drop, DropRaises,
         Finish, RemoveSnapshot, Raises, Unanswered, Cancel, Handle, HandlePartly,
         pve, host, history
<1>7. faults' = faults \/ (faults < MaxFaults /\ faults' = faults + 1)
  BY DEF Fault
<1>8. status' = status \/ \E x \in Statuses : status' = [status EXCEPT ![j] = x]
  BY <1>5 DEF Raise, Statuses
<1>9. /\ raced' = raced
      /\ leaky' \subseteq leaky \union {j}
      /\ unstopped' \subseteq unstopped \union Machines(j)
      /\ unstopped' = unstopped \/ AtWork(r)
  BY <1>0, <1>2 DEF At
<1>10. vg_import_clone(j) \/ Device(j) \/ mixed' \subseteq mixed \union {j}
  OBVIOUS
<1>11. ontap' = ontap \/ \E x \in SUBSET Objects : ontap' = [ontap EXCEPT ![j] = x]
  BY <1>1 DEF StateTyped, Objects
<1>12. wired' \subseteq wired \union {j}
  BY <1>6
<1>13. \/ vg_import_clone(j) \/ CleanGroup(j, {}) \/ CleanGroup(j, Unplugged(j))
       \/ vg' = vg /\ wiped' = wiped
  OBVIOUS
<1>14. /\ running' \subseteq running \union Machines(j)
       /\ running' \subseteq running \/ AtWork(r)
  BY <1>0, <1>2 DEF At
<1>15. \/ conf' = conf \/ WriteConf(j)
       \/ conf' = [conf EXCEPT ![r.vm] = NoConf]
       \/ conf' = [conf EXCEPT ![r.vm] = [by |-> j, is |-> "held"]]
       \/ conf' = [conf EXCEPT ![r.vm] = [by |-> j, is |-> "stub"]]
  BY <1>0 DEF Releases
<1>16. \/ disk' = disk \/ restore_volume_snapshot_san(j)
       \/ Put(j, {r.vm}, Torn) \/ Put(j, {r.vm}, r.src)
       \/ Put(j, r.scope, j) \/ Put(j, r.scope, Torn)
  BY <1>0
<1> HIDE DEF Works, Check, is_vmid_in_use, reserve_vmid, _ensure_vmid_placeholder,
         MakeObject, SharedGroup, nvme_list_devices, Device, Mount, vg_import_clone,
         CopyBegins, lv_copy, File, FileFails, NoDisks, restore_volume_snapshot_san, vg_deactivate,
         _vm_stop, WriteConf, SkipConf, SetName, _vm_start, cleanup_restore_vg, Drop, DropRaises,
         Finish, RemoveSnapshot, Raises, Unanswered, Cancel, Handle, HandlePartly,
         pve, host, history
<1>17. raced' \subseteq Vmids /\ leaky' \subseteq Jobs /\ unstopped' \subseteq Vmids
       /\ mixed' \subseteq Jobs /\ wired' \subseteq Jobs /\ running' \subseteq Vmids
  BY <1>1, <1>3, <1>4, <1>9, <1>10, <1>12, <1>14 DEF StateTyped
<1>18. wiped' \subseteq Jobs /\ vg' \in [Names -> Jobs \union {None}]
  <2>1. ASSUME NEW S, CleanGroup(j, S)
        PROVE  wiped' \subseteq Jobs /\ vg' \in [Names -> Jobs \union {None}]
    BY <1>0, <1>1, <2>1 DEF StateTyped, CleanGroup
  <2> QED
    BY <1>1, <1>3, <1>13, <2>1 DEF StateTyped
<1>19. conf' \in [Vmids -> ConfType]
  <2>1. /\ NoConf \in ConfType /\ [by |-> j, is |-> "held"] \in ConfType
        /\ [by |-> j, is |-> "stub"] \in ConfType /\ [by |-> j, is |-> "vm"] \in ConfType
    BY DEF NoConf, ConfType
  <2>2. CASE WriteConf(j)
    BY <1>1, <2>1, <2>2 DEF WriteConf, StateTyped
  <2>3. ASSUME NEW c \in ConfType, conf' = [conf EXCEPT ![r.vm] = c]
        PROVE  conf' \in [Vmids -> ConfType]
    BY <1>1, <2>3 DEF StateTyped
  <2> QED
    BY <1>1, <1>15, <2>1, <2>2, <2>3 DEF StateTyped
<1>20. disk' \in [Vmids -> [1 .. NDisks -> Content]]
  <2>1. {None, j, Torn, r.src} \subseteq Content
    BY <1>1 DEF Content
  <2>2. CASE restore_volume_snapshot_san(j)
    BY <2>1, <2>2 DEF restore_volume_snapshot_san
  <2>3. ASSUME NEW c \in Content, NEW S, Put(j, S, c)
        PROVE  disk' \in [Vmids -> [1 .. NDisks -> Content]]
    BY <1>1, <2>3 DEF StateTyped, Put
  <2> QED
    BY <1>1, <1>16, <2>1, <2>2, <2>3 DEF StateTyped
<1>21. faults' \in 0 .. MaxFaults
  BY <1>1, <1>7, CloneRestoreAssumption DEF StateTyped
<1>22. /\ status' \in [Jobs -> Statuses] /\ ontap' \in [Jobs -> SUBSET Objects]
  BY <1>1, <1>8, <1>11 DEF StateTyped
<1> QED
  BY <1>17, <1>18, <1>19, <1>20, <1>21, <1>22 DEF StateTyped

LEMMA WorksGroups ==
    ASSUME CloneInv, NEW j \in Jobs, Works(j)
    PROVE  GroupsGood'
<1>0. PICK r \in JobType : r = job[j]
  BY DEF CloneInv, Typed
<1>1. GroupsGood /\ vg \in [Names -> Jobs \union {None}] /\ None \notin wired
  BY CloneRestoreAssumption DEF CloneInv, Typed, StateTyped
<1>2. CASE vg_import_clone(j)
  <2>1. PICK left \in [Names -> Jobs \union {None}], bad \in SUBSET Jobs :
           /\ \A n \in Names : left[n] = vg[n] \/ left[n] = None
           /\ \/ \E name \in Names :
                   /\ r.dev \in wired /\ \A n \in Names : left[n] # r.dev
                   /\ vg' = [left EXCEPT ![name] = r.dev] /\ left[name] = None
              \/ vg' = left
    BY <1>0, <1>2, ImportIs
  <2>2. wired' = wired
    BY <1>2 DEF vg_import_clone
  <2>3. /\ \A n \in Names : left[n] \in wired \union {None}
        /\ \A m, n \in Names : m # n /\ left[m] # None => left[m] # left[n]
    BY <1>1, <2>1 DEF GroupsGood
  <2>4. CASE vg' = left
    BY <2>2, <2>3, <2>4 DEF GroupsGood
  <2>5. ASSUME NEW name \in Names, r.dev \in wired, \A n \in Names : left[n] # r.dev,
               vg' = [left EXCEPT ![name] = r.dev]
        PROVE  GroupsGood'
    <3>1. \A n \in Names : vg'[n] = IF n = name THEN r.dev ELSE left[n]
      BY <2>5
    <3> QED
      BY <2>2, <2>3, <2>5, <3>1 DEF GroupsGood
  <2> QED
    BY <2>1, <2>4, <2>5
<1>3. ASSUME NEW S, CleanGroup(j, S), wired \ S \subseteq wired' PROVE GroupsGood'
  <2>1. \A n \in Names : (vg'[n] = vg[n] /\ vg[n] \notin S) \/ vg'[n] = None
    BY <1>3 DEF CleanGroup
  <2> QED
    BY <1>1, <1>3, <2>1 DEF GroupsGood
<1>4. CASE vg' = vg /\ wired \subseteq wired'
  BY <1>1, <1>4 DEF GroupsGood
<1>5. \/ vg_import_clone(j)
      \/ vg' = vg /\ wired \subseteq wired'
      \/ CleanGroup(j, {}) /\ wired' = wired
      \/ CleanGroup(j, Unplugged(j)) /\ wired' = wired \ Unplugged(j)
  BY DEF Works, Check, is_vmid_in_use, reserve_vmid, _ensure_vmid_placeholder,
         MakeObject, SharedGroup, nvme_list_devices, Device, Mount,
         CopyBegins, lv_copy, File, FileFails, NoDisks, restore_volume_snapshot_san, vg_deactivate,
         _vm_stop, WriteConf, SkipConf, SetName, _vm_start, cleanup_restore_vg, Drop, DropRaises,
         Finish, RemoveSnapshot, Raises, Unanswered, Cancel, Handle, HandlePartly,
         pve, host, history
<1> QED
  BY <1>2, <1>3, <1>4, <1>5

\* The placeholder of a clone stands while its machine is down.
LEMMA HeldIsDown ==
    ASSUME CloneInv, NEW j \in Jobs, NEW r \in JobType, r = job[j], r.end # "over",
           \/ reserve_vmid(j)
           \/ r.held /\ r.end \in {"failed", "cancelled"}
    PROVE  r.vm \in raced \/ r.vm \notin running
<1>1. JobGood(j, r) /\ RecordGood(r)
  BY OwnFacts
<1>2. r.kind \in Clones /\ Down(r)
  <2>1. CASE reserve_vmid(j)
    <3>1. r.end = "none" /\ Now(r) = "reserve"
      BY <2>1, AtIs DEF reserve_vmid
    <3>2. /\ r.kind \in Clones /\ ~Ahead(Prog(r), r.pc, "check")
          /\ Ahead(Prog(r), r.pc + 1, "start") /\ r.pc \in Nat
      BY <1>1, <3>1, StepFacts DEF StepGood, Now, CanRaise
    <3>3. Ahead(Prog(r), r.pc, "start")
      BY <3>2 DEF Ahead
    <3> QED
      BY <3>1, <3>2, <3>3 DEF Down, Past, To, Guard
  <2>2. CASE r.held /\ r.end \in {"failed", "cancelled"}
    BY <1>1, <2>2 DEF RecordGood, Down
  <2> QED
    BY <2>1, <2>2
<1>3. r.vm \in MachinesOf(r)
  BY <1>2 DEF MachinesOf, Clones
<1> QED
  BY <1>1, <1>2, <1>3 DEF JobGood, StaysDown, IsDown

LEMMA WorksRunning ==
    ASSUME CloneInv, NEW j \in Jobs, Works(j)
    PROVE  RunningGood'
<1>0. PICK r \in JobType : r = job[j]
  BY DEF CloneInv, Typed
<1>1. /\ RunningGood /\ running \subseteq Vmids /\ conf \in [Vmids -> ConfType]
      /\ raced' = raced
  BY <1>0, WorksTakesStep DEF CloneInv, Typed, StateTyped, TakesStep
<1>2. \/ running' \subseteq running /\ conf' = conf
      \/ running' = running /\ (reserve_vmid(j) \/ _ensure_vmid_placeholder(j) \/ WriteConf(j))
      \/ _vm_start(j)
      \/ /\ running' = running /\ conf' = [conf EXCEPT ![r.vm] = NoConf]
         /\ r.held /\ r.end \in {"failed", "cancelled"}
  BY <1>0 DEF Works, Check, is_vmid_in_use, reserve_vmid, _ensure_vmid_placeholder,
         MakeObject, SharedGroup, nvme_list_devices, Device, Mount, vg_import_clone,
         CopyBegins, lv_copy, File, FileFails, NoDisks, restore_volume_snapshot_san, vg_deactivate,
         _vm_stop, WriteConf, SkipConf, SetName, cleanup_restore_vg, Drop, DropRaises,
         Finish, RemoveSnapshot, Raises, Unanswered, Cancel, Handle, HandlePartly, Releases,
         pve, host, history
<1>3. CASE running' \subseteq running /\ conf' = conf
  BY <1>1, <1>3 DEF RunningGood
<1>4. CASE running' = running /\ reserve_vmid(j)
  <2>1. r.vm \in raced \/ r.vm \notin running
    BY <1>0, <1>4, HeldIsDown, AtIs DEF reserve_vmid
  <2> QED
    BY <1>0, <1>1, <1>4, <2>1 DEF RunningGood, reserve_vmid
<1>5. CASE running' = running /\ _ensure_vmid_placeholder(j)
  BY <1>0, <1>1, <1>5 DEF RunningGood, _ensure_vmid_placeholder
<1>6. CASE running' = running /\ WriteConf(j)
  BY <1>0, <1>1, <1>6 DEF RunningGood, WriteConf
<1>7. CASE _vm_start(j)
  BY <1>1, <1>7 DEF RunningGood, _vm_start
<1>8. CASE /\ running' = running /\ conf' = [conf EXCEPT ![r.vm] = NoConf]
           /\ r.held /\ r.end \in {"failed", "cancelled"}
  <2>1. r.vm \in raced \/ r.vm \notin running
    BY <1>0, <1>8, HeldIsDown
  <2> QED
    BY <1>1, <1>8, <2>1 DEF RunningGood
<1> QED
  BY <1>2, <1>3, <1>4, <1>5, <1>6, <1>7, <1>8

-----------------------------------------------------------------------------
(* A request, a crash, the removal of an orphan *)

LEMMA FreshIs ==
    ASSUME NEW kind, NEW proto, NEW v, NEW scope, NEW size, NEW s,
           s = [Idle EXCEPT !.kind = kind, !.proto = proto, !.vm = v, !.scope = scope,
                            !.size = size, !.end = "none"]
    PROVE  s = [kind |-> kind, proto |-> proto, vm |-> v, scope |-> scope, size |-> size, pc |-> 1,
                disk |-> 1, vg |-> 0, dev |-> None, before |-> {}, src |-> None,
                known |-> {}, held |-> FALSE, end |-> "none"]
  BY DEF Idle

LEMMA FirstStep ==
    ASSUME NEW n \in 1 .. 16
    PROVE  1 \in 1 .. n
  OBVIOUS

LEMMA NewRecord ==
    ASSUME NEW v \in Vmids, NEW scope \in SUBSET Vmids, NEW size \in {0, NDisks},
           NEW kind \in DOMAIN Programs, NEW proto \in DOMAIN Programs[kind],
           kind = "revert" => v \in Existing, Discovers(kind, proto, v, scope), NEW s,
           s = [kind |-> kind, proto |-> proto, vm |-> v, scope |-> scope, size |-> size, pc |-> 1,
                disk |-> 1, vg |-> 0, dev |-> None, before |-> {}, src |-> None,
                known |-> {}, held |-> FALSE, end |-> "none"]
    PROVE  /\ s \in JobType /\ RecordGood(s) /\ AtWork(s) /\ s.end = "none"
           /\ s.kind = kind /\ s.scope = scope /\ s.vm = v
           /\ ~Looked(s) /\ ~Down(s) /\ ~Past(s, "conf")
           /\ s.known = {} /\ ~s.held
           /\ \A d \in 1 .. NDisks : ~Covered(s, d)
<1>2. kind \in Kinds /\ proto \in Protos
  BY DEF Kinds, Protos, Programs
<1>4. ProgramGood(kind, Programs[kind][proto])
  BY ProgramsAreGood
<1>5. v \in scope /\ (kind = "revert" => scope = Existing)
      /\ (kind \in Clones => scope = {v})
  BY DEF Discovers, Clones
<1>6. s \in JobType
  <2>1. 1 \in 1 .. NDisks
    BY CloneRestoreAssumption
  <2> QED
    BY <1>2, <2>1 DEF JobType, Ends, Objects
<1>7. /\ s.kind = kind /\ s.proto = proto /\ s.vm = v /\ s.scope = scope /\ s.pc = 1
      /\ s.disk = 1 /\ s.known = {} /\ s.held = FALSE /\ s.end = "none"
  OBVIOUS
<1>8. Prog(s) = Programs[kind][proto]
  BY <1>7 DEF Prog
<1>9. AtWork(s) /\ ScopeGood(s)
  BY <1>4, <1>5, <1>7, <1>8 DEF AtWork, ScopeGood
<1>10. RecordGood(s)
  <2>1. Len(Prog(s)) \in 1 .. 16
    BY <1>4, <1>8 DEF ProgramGood
  <2>2. 1 \in 1 .. Len(Prog(s))
    BY <2>1, FirstStep, Zenon
  <2> QED
    BY <1>7, <1>9, <2>2, Zenon DEF RecordGood
<1>11. ~Past(s, Guard(s.kind)) /\ ~Past(s, "conf")
  BY <1>4, <1>7, <1>8 DEF ProgramGood, Past
<1>12. ~Looked(s) /\ ~Down(s)
  BY <1>7, <1>11 DEF Looked, Guard, Down
<1>13. \A d \in 1 .. NDisks : ~Covered(s, d)
  BY <1>4, <1>7, <1>8, CloneRestoreAssumption DEF Covered, ProgramGood
<1> QED
  BY <1>6, <1>7, <1>9, <1>10, <1>11, <1>12, <1>13

LEMMA RequestKept ==
    ASSUME CloneInv, NEW j \in Jobs, NEW v \in Vmids, NEW q \in Requested,
           NEW scope \in SUBSET Vmids, NEW size \in {0, NDisks},
           Request(j, v, q[1], q[2], scope, size)
    PROVE  CloneInv'
<1>a. PICK kind, proto : kind = q[1] /\ proto = q[2]
  OBVIOUS
<1>b. kind \in DOMAIN Programs /\ proto \in DOMAIN Programs[kind]
  BY <1>a, RequestsAssumption
<1>0. PICK s : s = [Idle EXCEPT !.kind = kind, !.proto = proto, !.vm = v,
                                !.scope = scope, !.size = size, !.end = "none"]
  OBVIOUS
<1>c. /\ kind = "revert" => v \in Existing
      /\ Discovers(kind, proto, v, scope)
      /\ job' = [job EXCEPT ![j] = s]
  BY <1>a, <1>0 DEF Request
<1>d. s = [kind |-> kind, proto |-> proto, vm |-> v, scope |-> scope, size |-> size,
           pc |-> 1, disk |-> 1, vg |-> 0, dev |-> None, before |-> {}, src |-> None,
           known |-> {}, held |-> FALSE, end |-> "none"]
  BY <1>0 DEF Idle
<1>1. /\ s \in JobType /\ RecordGood(s) /\ AtWork(s) /\ s.end = "none"
      /\ s.kind = kind /\ s.scope = scope /\ s.vm = v
      /\ ~Looked(s) /\ ~Down(s) /\ ~Past(s, "conf")
      /\ s.known = {} /\ ~s.held
      /\ \A d \in 1 .. NDisks : ~Covered(s, d)
  BY <1>b, <1>c, <1>d, NewRecord
<1>2. job' = [job EXCEPT ![j] = s]
  BY <1>c
<1> DEFINE touched == Touched(s.kind, s.scope)
<1>3. /\ status[j] = "none" /\ status' = [status EXCEPT ![j] = "running"]
      /\ raced' = raced \union
             UNION {touched \intersect Touched(job[k].kind, job[k].scope) :
                       k \in {k \in Jobs : Active(k)}}
      /\ unstopped' = unstopped \union (touched \ MachinesOf(s))
      /\ UNCHANGED <<conf, disk, running, ontap, wired, vg, wiped, mixed, leaky, faults>>
  BY <1>a, <1>1 DEF Request, MachinesOf, pve, host
<1> HIDE DEF touched
<1>4. /\ Typed /\ status'[j] = "running"
      /\ job' \in [Jobs -> JobType] /\ job'[j] = s
      /\ \A k \in Jobs \ {j} : job'[k] = job[k] /\ status'[k] = status[k]
  BY <1>1, <1>2, <1>3 DEF CloneInv, Typed, StateTyped
<1>5. HistoryGrows
  BY <1>3 DEF HistoryGrows
<1>6. Typed'
  <2>1. touched \subseteq Vmids
    BY <1>1 DEF touched, Touched
  <2>2. raced' \subseteq Vmids /\ unstopped' \subseteq Vmids
    BY <1>3, <1>4, <2>1 DEF Typed, StateTyped
  <2>3. status' \in [Jobs -> Statuses]
    BY <1>3, <1>4 DEF Typed, StateTyped, Statuses
  <2> QED
    BY <1>3, <1>4, <2>2, <2>3 DEF Typed, StateTyped
<1>7. JobGood(j, s)'
  <2>1. PICK r \in JobType : r = job[j]
    BY <1>4 DEF Typed
  <2>2. ~AtWork(r) /\ r.known = {} /\ ~r.held /\ LeavesKnown(j, r)
    BY <1>3, <2>1, OwnFacts DEF JobGood, RowGood, RecordGood
  <2>3. LeavesKnown(j, s)'
    BY <1>3, <2>2 DEF LeavesKnown
  <2>6. StubGood(j, s)'
    BY <1>3, <2>1, <2>2, OwnFacts DEF JobGood, RowGood, StubGood
  <2>4. ConfOwn(j, s)' /\ Written(j, s)' /\ RowGood(j, s)'
    BY <1>1, <1>4 DEF ConfOwn, Written, RowGood
  <2>5. StaysDown(s)'
    BY <1>1, <1>3 DEF StaysDown, touched
  <2> QED
    BY <1>1, <2>3, <2>4, <2>5, <2>6 DEF JobGood
<1>8. ASSUME NEW k \in Jobs, NEW t \in {job'[k]} PROVE JobGood(k, t)'
  <2>1. CASE k = j
    BY <1>4, <1>7, <1>8, <2>1
  <2>2. CASE k # j
    <3>1. t = job[k] /\ t \in JobType /\ JobGood(k, t)
      BY <1>4, <1>8, <2>2 DEF CloneInv, JobsGood, Typed
    <3>2. Spares(k)
      BY <1>3, <1>4, <2>2 DEF Spares
    <3> QED
      BY <1>3, <1>5, <3>1, <3>2, OtherKept
  <2> QED
    BY <2>1, <2>2
<1>9. ASSUME NEW k \in Jobs \ {j}, AtWork(job[k])
      PROVE  touched \intersect Touched(job[k].kind, job[k].scope) \subseteq raced'
  BY <1>3, <1>9 DEF Active, AtWork
<1>10. ASSUME NEW k \in Jobs, NEW l \in Jobs, k # l,
              NEW t \in {job'[k]}, NEW u \in {job'[l]}
       PROVE  Apart(t, u)'
  <2>1. CASE k = j
    <3>1. t = s /\ u = job[l] /\ l \in Jobs \ {j}
      BY <1>4, <1>10, <2>1
    <3> QED
      BY <1>9, <3>1 DEF Apart, touched
  <2>2. CASE l = j
    <3>1. u = s /\ t = job[k] /\ k \in Jobs \ {j}
      BY <1>4, <1>10, <2>2
    <3> QED
      BY <1>9, <3>1 DEF Apart, touched
  <2>3. CASE k # j /\ l # j
    <3>1. t = job[k] /\ u = job[l]
      BY <1>4, <1>10, <2>3
    <3>2. Apart(t, u)
      BY <1>10, <3>1 DEF CloneInv, JobsApart
    <3> QED
      BY <1>5, <3>2 DEF Apart, HistoryGrows
  <2> QED
    BY <2>1, <2>2, <2>3
<1>11. GroupsGood' /\ RunningGood'
  BY <1>3 DEF CloneInv, GroupsGood, RunningGood
<1> QED
  BY <1>6, <1>8, <1>10, <1>11 DEF CloneInv, JobsGood, JobsApart

LEMMA CrashKept ==
    ASSUME CloneInv, Crash
    PROVE  CloneInv'
<1>1. /\ \A k \in Jobs : job'[k] = IF AtWork(job[k]) THEN Over(k) ELSE job[k]
      /\ \A k \in Jobs : AtWork(job[k]) => k \in leaky'
      /\ status' = [k \in Jobs |-> IF status[k] = "running" THEN "failed" ELSE status[k]]
      /\ leaky \subseteq leaky' /\ leaky' \subseteq leaky \union Jobs
      /\ UNCHANGED <<conf, disk, running, ontap, wired, vg, wiped, raced, unstopped, mixed>>
      /\ faults < MaxFaults /\ faults' = faults + 1
  BY DEF Crash, Active, AtWork, Fault, pve, host
<1>2. job' \in [Jobs -> JobType]
  <2>1. \A k \in Jobs : Over(k) \in JobType /\ job[k] \in JobType
    BY OverIs DEF CloneInv, Typed
  <2> QED
    BY <2>1 DEF Crash
<1>3. Typed'
  BY <1>1, <1>2, CloneRestoreAssumption DEF CloneInv, Typed, StateTyped, Statuses
<1>4. ASSUME NEW k \in Jobs, NEW t \in {job'[k]} PROVE JobGood(k, t)' /\ ~AtWork(t)
  <2>1. CASE AtWork(job[k])
    <3>1. t \in JobType /\ t.end = "over" /\ t.known = {} /\ t.held = FALSE
      BY <1>1, <1>4, <2>1, OverIs DEF CloneInv
    <3>2. status[k] # "none"
      BY <2>1, OwnFacts DEF CloneInv, Typed
    <3>3. status'[k] # "none" /\ StubGood(k, t)'
      BY <1>1, <2>1, <3>2 DEF StubGood
    <3> QED
      BY <1>1, <2>1, <3>1, <3>3, OverKept DEF AtWork
  <2>2. CASE ~AtWork(job[k])
    <3>1. t = job[k] /\ t \in JobType /\ JobGood(k, t) /\ ~AtWork(t)
      BY <1>1, <1>4, <2>2 DEF CloneInv, JobsGood, Typed
    <3>2. RecordGood(t) /\ ~Looked(t) /\ ~Down(t) /\ t.end # "none"
      BY <3>1 DEF JobGood, RecordGood, Looked, Past, Down, AtWork
    <3>3. RowGood(k, t)' /\ LeavesKnown(k, t)'
      BY <1>1, <3>1 DEF JobGood, RowGood, LeavesKnown, AtWork
    <3>4. ConfOwn(k, t)' /\ Written(k, t)' /\ StaysDown(t)'
      BY <3>1, <3>2 DEF ConfOwn, Written, StaysDown
    <3>5. StubGood(k, t)'
      BY <1>1, <3>1, <3>2 DEF JobGood, StubGood
    <3> QED
      BY <3>1, <3>2, <3>3, <3>4, <3>5 DEF JobGood
  <2> QED
    BY <2>1, <2>2
<1>5. JobsApart'
  BY <1>4 DEF JobsApart, Apart
<1>6. GroupsGood' /\ RunningGood'
  BY <1>1 DEF CloneInv, GroupsGood, RunningGood
<1> QED
  BY <1>3, <1>4, <1>5, <1>6 DEF CloneInv, JobsGood

LEMMA OrphanKept ==
    ASSUME CloneInv, NEW j \in Jobs, _delete_orphan_san_clone(j)
    PROVE  CloneInv'
<1>1. /\ ontap' \in [Jobs -> SUBSET Objects]
      /\ \A k \in Jobs : ontap'[k] \subseteq ontap[k]
      /\ UNCHANGED <<status, job, conf, disk, running, wired, vg, wiped, raced,
                     unstopped, mixed, leaky, faults>>
  BY DEF _delete_orphan_san_clone, CloneInv, Typed, StateTyped, pve, host, history
<1>2. ASSUME NEW k \in Jobs, NEW t \in {job'[k]} PROVE JobGood(k, t)'
  <2>1. t \in JobType /\ JobGood(k, t)
    BY <1>1, <1>2 DEF CloneInv, Typed, JobsGood
  <2>2. HistoryGrows /\ Spares(k)
    BY <1>1 DEF HistoryGrows, Spares
  <2> QED
    BY <1>1, <2>1, <2>2, OtherKept
<1>3. JobsApart' /\ GroupsGood' /\ RunningGood' /\ Typed'
  BY <1>1 DEF CloneInv, JobsApart, Apart, GroupsGood, RunningGood, Typed, StateTyped
<1> QED
  BY <1>2, <1>3 DEF CloneInv, JobsGood

-----------------------------------------------------------------------------
(* The invariant holds *)

LEMMA InitGood ==
    Init => CloneInv
<1> SUFFICES ASSUME Init PROVE CloneInv
  OBVIOUS
<1>1. /\ Idle \in JobType /\ ~AtWork(Idle) /\ Idle.end = "idle" /\ Idle.known = {}
      /\ Idle.held = FALSE /\ Idle.kind = "none"
  <2>1. 1 \in 1 .. NDisks
    BY CloneRestoreAssumption
  <2> QED
    BY <2>1 DEF Idle, JobType, Kinds, Protos, Ends, Objects, AtWork
<1>2. Typed
  <2>1. NoConf \in ConfType /\ [by |-> None, is |-> "vm"] \in ConfType
    BY DEF NoConf, ConfType
  <2>2. conf \in [Vmids -> ConfType]
    BY <2>1 DEF Init
  <2>3. disk \in [Vmids -> [1 .. NDisks -> Content]]
    BY DEF Init, Content
  <2>4. running \subseteq Vmids /\ faults \in 0 .. MaxFaults
    BY CloneRestoreAssumption DEF Init
  <2>5. job \in [Jobs -> JobType]
    BY <1>1 DEF Init
  <2> QED
    BY <2>2, <2>3, <2>4, <2>5 DEF Init, Typed, StateTyped, Statuses, Objects
<1>3. ASSUME NEW j \in Jobs, NEW r \in {job[j]} PROVE JobGood(j, r) /\ ~AtWork(r)
  <2>1. r = Idle
    BY <1>3 DEF Init
  <2>2. /\ ~AtWork(r) /\ r.end = "idle" /\ r.known = {} /\ r.held = FALSE
        /\ r.kind = "none"
    BY <1>1, <2>1
  <2>3. RecordGood(r) /\ ~Looked(r) /\ ~Down(r)
    BY <2>2 DEF RecordGood, Looked, Down, Past
  <2>4. \A v \in Vmids : /\ conf[v] # [by |-> j, is |-> "held"]
                       /\ conf[v] # [by |-> j, is |-> "stub"]
    BY DEF Init, NoConf
  <2>6. StubGood(j, r)
    BY <2>4 DEF StubGood
  <2>5. LeavesKnown(j, r)
    BY <2>2, <2>4 DEF Init, LeavesKnown
  <2> QED
    BY <2>2, <2>3, <2>5, <2>6 DEF JobGood, RowGood, ConfOwn, Written, StaysDown
<1>4. JobsApart
  BY <1>3 DEF JobsApart, Apart
<1>5. GroupsGood /\ RunningGood
  BY CloneRestoreAssumption DEF Init, GroupsGood, RunningGood
<1> QED
  BY <1>2, <1>3, <1>4, <1>5 DEF CloneInv, JobsGood

LEMMA WorksKept ==
    ASSUME CloneInv, NEW j \in Jobs, Works(j)
    PROVE  CloneInv'
<1>1. PICK r \in JobType : r = job[j]
  BY DEF CloneInv, Typed
<1>2. JobsGood' /\ JobsApart' /\ job' \in [Jobs -> JobType]
  BY <1>1, WorksTakesStep, JobsKept
<1> QED
  BY <1>2, WorksTyped, WorksGroups, WorksRunning DEF CloneInv, Typed

LEMMA StepKeeps ==
    CloneInv /\ [Next]_vars => CloneInv'
<1> SUFFICES ASSUME CloneInv, [Next]_vars PROVE CloneInv'
  OBVIOUS
<1>1. CASE UNCHANGED vars
  BY <1>1 DEF vars, CloneInv, Typed, StateTyped, JobsGood, JobsApart, GroupsGood,
     RunningGood, JobGood, RowGood, LeavesKnown, StubGood, ConfOwn, Written, StaysDown, IsDown, Apart
<1>2. CASE Crash
  BY <1>2, CrashKept
<1>3. ASSUME NEW j \in Jobs,
             \/ \E v \in Vmids, q \in Requested, scope \in SUBSET Vmids,
                   size \in {0, NDisks} : Request(j, v, q[1], q[2], scope, size)
             \/ Works(j) \/ _delete_orphan_san_clone(j)
      PROVE  CloneInv'
  BY <1>3, RequestKept, WorksKept, OrphanKept
<1> QED
  BY <1>1, <1>2, <1>3 DEF Next

LEMMA CloneInvHolds ==
    Spec => []CloneInv
BY InitGood, StepKeeps, PTL DEF Spec

-----------------------------------------------------------------------------
(* Results *)

\* The variables keep their types, and a thread that has ended knows of no object that
\* is gone.
THEOREM CloneTypeCorrect == Spec => []TypeOK
<1>1. CloneInv => TypeOK
  <2> SUFFICES ASSUME CloneInv PROVE TypeOK
    OBVIOUS
  <2>1. StateTyped
    BY DEF CloneInv, Typed
  <2>2. ASSUME NEW j \in Jobs
        PROVE  /\ job[j].pc \in 1 .. 16 /\ job[j].disk \in 1 .. NDisks
               /\ job[j].vg \in Names \union {0} /\ job[j].size \in {0, NDisks}
               /\ job[j].dev \in Jobs \union {None}
               /\ job[j].before \subseteq Jobs /\ job[j].src \in Jobs \union {None}
               /\ job[j].known \subseteq ontap[j] \/ Active(j)
    <3>1. PICK r \in JobType : r = job[j]
      BY DEF CloneInv, Typed
    <3>2. AtWork(r) \/ r.known = {}
      BY <3>1, OwnFacts DEF RecordGood
    <3>3. Active(j) <=> AtWork(r)
      BY <3>1 DEF Active, AtWork
    <3> QED
      BY <3>1, <3>2, <3>3 DEF JobType
  <2> QED
    BY <2>1, <2>2 DEF TypeOK, StateTyped, Statuses, ConfType, Objects
<1> QED
  BY <1>1, CloneInvHolds, PTL

\* A job that ended leaves no temporary object, device, group or placeholder of a
\* clone, if its clean-up calls worked and none of its objects was made unnoticed, and
\* a restore on the primary that is done leaves no stub: every exit of the clones and
\* the restores removes what the thread knows of, and it knows of all there is.  Stubs
\* and disks of jobs that failed are not spoken of.
THEOREM TemporariesAreGone == Spec => []TemporariesGone
<1>1. CloneInv => TemporariesGone
  <2> SUFFICES ASSUME CloneInv, NEW j \in Jobs, job[j].end = "over", j \notin leaky
               PROVE  /\ ontap[j] = {} /\ j \notin wired
                      /\ \A n \in Names : vg[n] # j
                      /\ \A v \in Vmids : conf[v] # [by |-> j, is |-> "held"]
                      /\ status[j] = "done" /\ job[j].kind # "restoreDr" =>
                            \A v \in Vmids : conf[v] # [by |-> j, is |-> "stub"]
    BY DEF TemporariesGone
  <2>1. PICK r \in JobType : r = job[j]
    BY DEF CloneInv, Typed
  <2>2. ~AtWork(r) /\ RecordGood(r) /\ LeavesKnown(j, r) /\ StubGood(j, r)
    BY <2>1, OwnFacts DEF AtWork, JobGood
  <2>3. r.known = {} /\ ~r.held
    BY <2>2 DEF RecordGood
  <2>4. /\ ontap[j] = {} /\ j \notin wired
        /\ \A v \in Vmids : conf[v] # [by |-> j, is |-> "held"]
    BY <2>2, <2>3 DEF LeavesKnown
  <2>5. \A n \in Names : vg[n] # j
    BY <2>4, CloneRestoreAssumption DEF CloneInv, GroupsGood
  <2>6. status[j] = "done" /\ r.kind # "restoreDr" =>
            \A v \in Vmids : conf[v] # [by |-> j, is |-> "stub"]
    BY <2>1, <2>2 DEF StubGood
  <2> QED
    BY <2>1, <2>4, <2>5, <2>6
<1> QED
  BY <1>1, CloneInvHolds, PTL

\* A job that reports done has put its snapshot on every disk of its machine, if its
\* list of disks was not empty, and a clone has its configuration.
THEOREM DoneJobsAreWhole == Spec => DoneIsWhole
<1> DEFINE Whole ==
      \A j \in Jobs :
          (/\ status[j] # "done" /\ status'[j] = "done"
           /\ j \notin mixed /\ job[j].vm \notin raced) =>
              /\ job[j].size # 0 => \A d \in 1 .. NDisks : disk[job[j].vm][d] = j
              /\ job[j].kind \in Clones => conf[job[j].vm] = [by |-> j, is |-> "vm"]
<1>1. ASSUME CloneInv, NEW j \in Jobs, Finish(j), j \notin mixed, job[j].vm \notin raced
      PROVE  /\ job[j].size # 0 => \A d \in 1 .. NDisks : disk[job[j].vm][d] = j
             /\ job[j].kind \in Clones => conf[job[j].vm] = [by |-> j, is |-> "vm"]
  <2>1. PICK r \in JobType : r = job[j]
    BY <1>1 DEF CloneInv, Typed
  <2>2. r.end = "none" /\ Now(r) = "end"
    BY <1>1, <2>1, AtIs DEF Finish
  <2>3. RecordGood(r) /\ Written(j, r)
    BY <1>1, <2>1, OwnFacts DEF JobGood
  <2>4. \A x \in {"conf"} \union Writers : ~Ahead(Prog(r), r.pc, x)
    BY <2>2, <2>3, StepFacts DEF StepGood, Now
  <2>5. Past(r, "conf") /\ \A d \in 1 .. NDisks : Covered(r, d)
    BY <2>2, <2>4 DEF Past, Covered
  <2> QED
    BY <1>1, <2>1, <2>2, <2>3, <2>5 DEF Written
<1>2. ASSUME CloneInv, NEW j \in Jobs, Works(j), status[j] # "done", status'[j] = "done",
             j \notin mixed
      PROVE  Finish(j)
  <2>1. status \in [Jobs -> Statuses]
    BY <1>2 DEF CloneInv, Typed, StateTyped
  <2>2. CASE Handle(j) \/ HandlePartly(j)
    <3>1. PICK r \in JobType : r = job[j]
      BY <1>2 DEF CloneInv, Typed
    <3>2. status'[j] = Outcome(j)
      BY <2>1, <2>2 DEF Handle, HandlePartly
    <3>3. r.end = "cancelled"
      BY <1>2, <3>1, <3>2 DEF Outcome
    <3>4. RowGood(j, r)
      BY <1>2, <3>1, OwnFacts DEF JobGood
    <3> QED
      BY <1>2, <3>3, <3>4 DEF RowGood
  <2>3. CASE ~Handle(j) /\ ~HandlePartly(j) /\ ~Finish(j)
    <3>1. status' = status \/ \E x \in {"failed", "cancelled"} :
                                 status' = [status EXCEPT ![j] = x]
      BY <1>2, <2>3 DEF Works, Check, is_vmid_in_use, reserve_vmid,
         _ensure_vmid_placeholder, MakeObject, SharedGroup, nvme_list_devices, Device,
         Mount, vg_import_clone, CopyBegins, lv_copy, File, FileFails, NoDisks,
         restore_volume_snapshot_san, vg_deactivate, _vm_stop, WriteConf, SkipConf,
         SetName, _vm_start, cleanup_restore_vg, Drop, DropRaises, RemoveSnapshot, Raises,
         Unanswered, Cancel, Raise
    <3> QED
      BY <1>2, <2>1, <3>1
  <2> QED
    BY <2>2, <2>3
<1>3. ASSUME CloneInv, [Next]_vars PROVE Whole
  <2> SUFFICES ASSUME NEW j \in Jobs, status[j] # "done", status'[j] = "done",
                      j \notin mixed, job[j].vm \notin raced
               PROVE  /\ job[j].size # 0 => \A d \in 1 .. NDisks : disk[job[j].vm][d] = j
                      /\ job[j].kind \in Clones =>
                            conf[job[j].vm] = [by |-> j, is |-> "vm"]
    OBVIOUS
  <2>1. status \in [Jobs -> Statuses]
    BY <1>3 DEF CloneInv, Typed, StateTyped
  <2>2. CASE UNCHANGED vars \/ Crash
    BY <2>1, <2>2 DEF vars, Crash
  <2>3. ASSUME NEW k \in Jobs, NEW v, NEW kind, NEW proto, NEW scope, NEW size,
               Request(k, v, kind, proto, scope, size)
        PROVE  FALSE
    BY <2>1, <2>3 DEF Request
  <2>4. ASSUME NEW k \in Jobs, _delete_orphan_san_clone(k) PROVE FALSE
    BY <2>4 DEF _delete_orphan_san_clone
  <2>5. ASSUME NEW k \in Jobs, Works(k)
        PROVE  /\ job[j].size # 0 => \A d \in 1 .. NDisks : disk[job[j].vm][d] = j
               /\ job[j].kind \in Clones => conf[job[j].vm] = [by |-> j, is |-> "vm"]
    <3>1. PICK r \in JobType : r = job[k]
      BY <1>3 DEF CloneInv, Typed
    <3>2. k = j
      BY <1>3, <2>5, <3>1, WorksTakesStep DEF TakesStep, Spares
    <3> QED
      BY <1>1, <1>2, <1>3, <2>5, <3>2
  <2> QED
    BY <1>3, <2>2, <2>3, <2>4, <2>5 DEF Next
<1> HIDE DEF Whole
<1>4. Spec => [][Whole]_vars
  BY <1>3, CloneInvHolds, PTL DEF Spec
<1> QED
  BY <1>4, PTL DEF DoneIsWhole, Whole

\* The configuration of a machine is replaced or removed only by a restore of that
\* machine, or by the clone that wrote it: between is_vmid_in_use and the placeholder
\* no other machine comes to have the id, unless two jobs had it.
THEOREM ConfigurationsKept == Spec => ConfKept
<1> DEFINE Kept ==
      \A v \in Vmids :
          (conf[v].is = "vm" /\ v \notin raced /\ conf'[v] # conf[v]) =>
              \E j \in Jobs :
                  /\ Active(j) /\ v \in job[j].scope
                  /\ job[j].kind \in Clones => conf[v].by = j
<1>1. ASSUME CloneInv, NEW j \in Jobs, Works(j), NEW v \in Vmids, conf[v].is = "vm",
             v \notin raced, conf'[v] # conf[v]
      PROVE  /\ Active(j) /\ v \in job[j].scope
             /\ job[j].kind \in Clones => conf[v].by = j
  <2>1. PICK r \in JobType : r = job[j]
    BY <1>1 DEF CloneInv, Typed
  <2>2. conf \in [Vmids -> ConfType]
    BY <1>1 DEF CloneInv, Typed, StateTyped
  <2>3. \/ reserve_vmid(j) \/ _ensure_vmid_placeholder(j) \/ WriteConf(j)
        \/ /\ conf' = [conf EXCEPT ![r.vm] = NoConf]
           /\ r.held /\ r.end \in {"failed", "cancelled"}
    BY <1>1, <2>1 DEF Works, Check, is_vmid_in_use,
         MakeObject, SharedGroup, nvme_list_devices, Device, Mount, vg_import_clone,
         CopyBegins, lv_copy, File, FileFails, NoDisks, restore_volume_snapshot_san, vg_deactivate,
         _vm_stop, SkipConf, SetName, _vm_start, cleanup_restore_vg, Drop, DropRaises,
         Finish, RemoveSnapshot, Raises, Unanswered, Cancel, Handle, HandlePartly,
         Releases, pve, host, history
  <2>4. JobGood(j, r) /\ RecordGood(r)
    BY <1>1, <2>1, OwnFacts
  <2>5. /\ AtWork(r) /\ v \in MachinesOf(r)
        /\ r.kind \in Clones => Looked(r)
    <3>1. CASE reserve_vmid(j)
      <4>1. r.end = "none" /\ Now(r) = "reserve"
        BY <1>1, <2>1, <3>1, AtIs DEF reserve_vmid
      <4>2. ~Ahead(Prog(r), r.pc, "check") /\ r.kind \in Clones
        BY <2>4, <4>1, StepFacts DEF StepGood, Now
      <4>3. v = r.vm
        BY <1>1, <2>1, <2>2, <3>1 DEF reserve_vmid
      <4> QED
        BY <4>1, <4>2, <4>3 DEF AtWork, Looked, Past, MachinesOf, Clones
    <3>2. CASE _ensure_vmid_placeholder(j)
      <4>1. r.end = "none" /\ Now(r) = "stub"
        BY <1>1, <2>1, <3>2, AtIs DEF _ensure_vmid_placeholder
      <4>2. v = r.vm /\ conf[v].is = "none"
        BY <1>1, <2>1, <2>2, <3>2 DEF _ensure_vmid_placeholder
      <4> QED
        BY <1>1, <4>2
    <3>3. CASE WriteConf(j)
      <4>1. r.end = "none" /\ Now(r) = "conf"
        BY <1>1, <2>1, <3>3, AtIs DEF WriteConf
      <4>2. r.kind \in Clones => ~Ahead(Prog(r), r.pc, "check")
        BY <2>4, <4>1, StepFacts DEF StepGood, Now
      <4>3. v \in MachinesOf(r)
        BY <1>1, <2>1, <3>3 DEF WriteConf, Machines, MachinesOf
      <4> QED
        BY <4>1, <4>2, <4>3 DEF AtWork, Looked, Past
    <3>4. CASE /\ conf' = [conf EXCEPT ![r.vm] = NoConf]
               /\ r.held /\ r.end \in {"failed", "cancelled"}
      <4>1. v = r.vm /\ r.kind \in Clones
        BY <1>1, <2>2, <2>4, <3>4 DEF RecordGood
      <4> QED
        BY <3>4, <4>1 DEF AtWork, Looked, MachinesOf, Clones
    <3> QED
      BY <2>3, <3>1, <3>2, <3>3, <3>4
  <2>6. v \in r.scope /\ (r.kind \in Clones => v = r.vm)
    BY <2>4, <2>5 DEF RecordGood, ScopeGood, MachinesOf, Clones
  <2>7. r.kind \in Clones => conf[v].by = j
    BY <1>1, <2>4, <2>5, <2>6 DEF JobGood, ConfOwn
  <2> QED
    BY <2>1, <2>5, <2>6, <2>7 DEF Active, AtWork
<1>2. ASSUME CloneInv, [Next]_vars PROVE Kept
  <2>1. CASE \E j \in Jobs : Works(j)
    BY <1>1, <1>2, <2>1
  <2>2. CASE conf' = conf
    BY <2>2
  <2>3. ASSUME NEW j \in Jobs, NEW v, NEW kind, NEW proto, NEW scope, NEW size,
               Request(j, v, kind, proto, scope, size)
        PROVE  conf' = conf
    BY <2>3 DEF Request, pve
  <2>4. ASSUME NEW j \in Jobs, _delete_orphan_san_clone(j) PROVE conf' = conf
    BY <2>4 DEF _delete_orphan_san_clone, pve
  <2>5. UNCHANGED vars \/ Crash => conf' = conf
    BY DEF vars, Crash, pve
  <2> HIDE DEF Kept
  <2> QED
    BY <1>2, <2>1, <2>2, <2>3, <2>4, <2>5 DEF Next
<1> HIDE DEF Kept
<1>3. Spec => [][Kept]_vars
  BY <1>2, CloneInvHolds, PTL DEF Spec
<1> QED
  BY <1>3, PTL DEF ConfKept, Kept

\* No disk is written under a running machine: a restore stops it first, a clone has
\* seen that there is none, and it stays down until the job starts it.
THEOREM DisksNotUnderRunning == Spec => NotUnderRunning
<1> DEFINE Safe == \A v \in running : disk'[v] # disk[v] => v \in raced \union unstopped
<1>1. ASSUME CloneInv, NEW j \in Jobs, Works(j), NEW v \in running, disk'[v] # disk[v]
      PROVE  v \in raced \union unstopped
  <2>1. PICK r \in JobType : r = job[j]
    BY <1>1 DEF CloneInv, Typed
  <2>2. v \in Vmids
    BY <1>1 DEF CloneInv, Typed, StateTyped
  <2>3. v \in Touched(r.kind, r.scope)
    BY <1>1, <2>1, <2>2, WorksTakesStep DEF TakesStep, Stays
  <2>4. r.end = "none" /\ Now(r) \in Writers
    <3>1. \/ CopyBegins(j) \/ lv_copy(j) \/ File(j) \/ FileFails(j)
          \/ restore_volume_snapshot_san(j)
      BY <1>1 DEF Works, Check, is_vmid_in_use, reserve_vmid, _ensure_vmid_placeholder,
         MakeObject, SharedGroup, nvme_list_devices, Device, Mount, vg_import_clone,
         vg_deactivate, _vm_stop, WriteConf, SkipConf, NoDisks, SetName, _vm_start,
         cleanup_restore_vg, Drop, DropRaises, Finish, RemoveSnapshot, Raises,
         Unanswered, Cancel, Handle, HandlePartly, pve, host, history
    <3> QED
      BY <1>1, <2>1, <3>1, AtIs
      DEF CopyBegins, lv_copy, File, FileFails, AtDisk,
          restore_volume_snapshot_san, Writers
  <2>5. RecordGood(r) /\ StaysDown(r) /\ AtWork(r)
    BY <1>1, <2>1, <2>4, OwnFacts DEF JobGood
  <2>6. Down(r)
    <3>1. /\ ~Ahead(Prog(r), r.pc + 1, Guard(r.kind)) /\ Ahead(Prog(r), r.pc + 1, "start")
          /\ Len(Prog(r)) \in Nat /\ r.pc \in 1 .. Len(Prog(r))
      BY <2>4, <2>5, StepFacts DEF StepGood, Now, Writers, CanRaise
    <3>2. Prog(r)[r.pc] # Guard(r.kind)
      BY <2>4 DEF Now, Writers, Guard
    <3>3. ~Ahead(Prog(r), r.pc, Guard(r.kind)) /\ Ahead(Prog(r), r.pc, "start")
      BY <3>1, <3>2, AheadNext
    <3> QED
      BY <2>4, <3>3 DEF Down, Past, To
  <2>7. v \in MachinesOf(r) \union unstopped
    BY <2>3, <2>5 DEF StaysDown
  <2> QED
    BY <1>1, <2>5, <2>6, <2>7 DEF StaysDown, IsDown
<1>2. ASSUME CloneInv, [Next]_vars PROVE Safe
  <2>1. CASE \E j \in Jobs : Works(j)
    BY <1>1, <1>2, <2>1
  <2>2. CASE disk' = disk
    BY <2>2
  <2>3. ASSUME NEW j \in Jobs, NEW v, NEW kind, NEW proto, NEW scope, NEW size,
               Request(j, v, kind, proto, scope, size)
        PROVE  disk' = disk
    BY <2>3 DEF Request, pve
  <2>4. ASSUME NEW j \in Jobs, _delete_orphan_san_clone(j) PROVE disk' = disk
    BY <2>4 DEF _delete_orphan_san_clone, pve
  <2>5. UNCHANGED vars \/ Crash => disk' = disk
    BY DEF vars, Crash, pve
  <2> HIDE DEF Safe
  <2> QED
    BY <1>2, <2>1, <2>2, <2>3, <2>4, <2>5 DEF Next
<1> HIDE DEF Safe
<1>3. Spec => [][Safe]_vars
  BY <1>2, CloneInvHolds, PTL DEF Spec
<1> QED
  BY <1>3, PTL DEF NotUnderRunning, Safe

=============================================================================
