------------------------ MODULE SnapshotCatalogProofs ------------------------
(***************************************************************************)
(* Proofs about SnapshotCatalog, for all plans, volumes, threads and       *)
(* bounds:                                                                 *)
(*   1. TypeInv is inductive, so TypeOK is an invariant;                   *)
(*   2. every step is a step of RetentionPolicy or leaves its variables    *)
(*      alone, as long as the snapshots that retention has listed for      *)
(*      deletion stay covered (DoomedCovered), and the steps of            *)
(*      RetentionPolicy keep what is covered covered when no name belongs  *)
(*      to two plans (TailsApart); hence ExpiredCovered and the            *)
(*      refinement;                                                        *)
(*   3. SweptBounded, from what a listing leaves undoomed (ListedBounded). *)
(***************************************************************************)
EXTENDS SnapshotCatalog, FiniteSetTheorems, WellFoundedInduction, TLAPS

USE SetsAssumption, PlansAssumption

-----------------------------------------------------------------------------
(* Types *)

\* What the program counter of a job says about its other locals; TypeOK is
\* inductive only together with it.
JobGood(j) ==
    /\ j \in JobType
    /\ j.pc = "next" => j.plan \in Plans
    /\ j.pc \in {"insert", "index", "create", "lookup", "mark", "fail"}
          => /\ j.vol \in Volumes
             /\ j.name \in Names
             /\ j.plan \in Plans \/ j.todo = {}
    /\ j.pc \in {"list", "expire", "droprow"}
          => j.vol \in Volumes /\ j.plan \in Plans
    /\ j.doomed # {} => j.pc \in {"expire", "droprow"}

JobsGood ==
    /\ job = [t \in Threads |-> job[t]]
    /\ \A t \in Threads : JobGood(job[t])

ScanGood ==
    /\ scan \in ScanType
    /\ scan.pc = "sweep" => scan.vol \in Volumes

RequestGood ==
    /\ request \in RequestType
    /\ request.pc # "idle" => request.vol \in Volumes

CountersGood ==
    /\ minute \in Nat /\ taken \in Nat /\ runs \in Nat
    /\ faults \in Nat /\ deletes \in Nat

ArrayGood ==
    /\ ontap \in [Volumes -> SUBSET Snaps]
    /\ withdrawn \in [Volumes -> SUBSET Snaps]
    /\ expired \in [Plans -> [Volumes -> SUBSET Snaps]]

StoreGood ==
    /\ rows \subseteq Rows
    /\ index \in [Volumes -> SUBSET Names]
    /\ swept \in [Plans -> [Volumes -> Nat]]

TypeInv ==
    /\ JobsGood
    /\ ScanGood
    /\ RequestGood
    /\ CountersGood
    /\ ArrayGood
    /\ StoreGood

-----------------------------------------------------------------------------
(* Coverage *)

FiniteArray == \A v \in Volumes : IsFiniteSet(Policy!Kept(v))

\* uuids grow: everything on the array was taken before the next snapshot.
TakenLast == \A v \in Volumes : \A s \in Policy!Kept(v) : s.uuid <= taken

Covered(p, v, s) == Cardinality(Policy!KeptNewer(p, v, s)) >= Retention[p]

\* What retention is about to delete is covered now and stays so, whatever
\* happens between the listing and the deletion.
DoomedGood(t, d) ==
    /\ Belongs(job[t].plan, d)
    /\ Covered(job[t].plan, job[t].vol, d)

DoomedCovered == \A t \in Threads : \A d \in job[t].doomed : DoomedGood(t, d)

CoverInv == FiniteArray /\ TakenLast /\ DoomedCovered /\ ExpiredCovered

-----------------------------------------------------------------------------
(* The bound after retention *)

UuidsUnique ==
    \A v \in Volumes : \A s, x \in ontap[v] : s.uuid = x.uuid => s = x

TakenBy(p, v, n) == {s \in PlanSnaps(p, v) : s.uuid <= n}

\* What a retention pass will leave of the snapshots it listed.
Leaves(t) == TakenBy(job[t].plan, job[t].vol, job[t].asof) \ job[t].doomed

InRetention(t) == job[t].pc \in {"expire", "droprow"}

ListedGood(t) ==
    InRetention(t) =>
        /\ job[t].asof <= taken
        /\ job[t].clean => Cardinality(Leaves(t)) <= Retention[job[t].plan]

\* A pass without errors will leave at most Retention[p] of them.
ListedBounded == \A t \in Threads : ListedGood(t)

SweptGood(p, v) ==
    /\ swept[p][v] <= taken
    /\ Cardinality(TakenBy(p, v, swept[p][v])) <= Retention[p]

SweptInv ==
    /\ FiniteArray
    /\ TakenLast
    /\ UuidsUnique
    /\ ListedBounded
    /\ \A p \in Plans, v \in Volumes : SweptGood(p, v)

-----------------------------------------------------------------------------
(* Proof of the types *)

LEMMA IdleGood ==
    /\ JobGood(IdleJob) /\ IdleJob.todo = {} /\ IdleJob.doomed = {}
    /\ IdleJob.pc = "idle"
    /\ IdleScan \in ScanType /\ IdleScan.pc = "idle"
    /\ IdleRequest \in RequestType /\ IdleRequest.pc = "idle"
BY DEF JobGood, IdleJob, JobType, Owners, IdleScan, ScanType, IdleRequest,
       RequestType

LEMMA LeaveGood ==
    ASSUME NEW j, JobGood(j), j.plan \in Plans \/ j.todo = {}
    PROVE  /\ JobGood(Leave(j))
           /\ Leave(j).pc \in {"idle", "next"}
           /\ Leave(j).doomed = {}
BY DEF JobGood, Leave, IdleJob, JobType, Owners

LEMMA JobStep ==
    ASSUME JobsGood, NEW t \in Threads,
           job' = [job EXCEPT ![t] = job'[t]], JobGood(job'[t])
    PROVE  JobsGood'
BY DEF JobsGood

\* A step of a thread changes the locals of no other one.
LEMMA OwnJobOnly ==
    ASSUME JobsGood, NEW t \in Threads, JobNext(t)
    PROVE  job' = [job EXCEPT ![t] = job'[t]]
BY DEF StartRun, StartManual, OpenStore, JobFailsEarly, InsertRow,
       UpdateIndex, UpdateIndexFails, CreateOk, CreateAnswerLost, CreateFails,
       LookupUuid, MarkDone, MarkFailed, ListForRetention, ListFails,
       ExpireOne, ExpireAnswerLost, ExpireFails, DropRow, SyncRows, JobNext,
       JobsGood

LEMMA JobsNext ==
    ASSUME TypeInv, NEW t \in Threads, JobNext(t)
    PROVE  JobsGood'
<1> SUFFICES JobGood(job'[t])
  BY OwnJobOnly, JobStep DEF TypeInv
<1>g. JobGood(job[t]) /\ job \in [Threads -> JobType]
  BY DEF TypeInv, JobsGood, JobGood
<1>t. /\ runs \in Nat /\ taken \in Nat /\ minute \in Nat
      /\ ontap \in [Volumes -> SUBSET Snaps]
  BY DEF TypeInv, CountersGood, ArrayGood
<1>1. ASSUME NEW p \in Plans, StartRun(t, p)
      PROVE  JobGood(job'[t])
  <2>1. job'[t] = [IdleJob EXCEPT !.pc = "next", !.plan = p,
                                  !.todo = StoresOf[p], !.run = runs + 1]
    BY <1>g, <1>1 DEF StartRun
  <2>2. StoresOf[p] \in SUBSET Volumes /\ runs + 1 \in Nat
    BY <1>t
  <2> QED BY <2>1, <2>2, IdleGood DEF JobGood, JobType, Owners
<1>2. ASSUME NEW v \in Volumes, NEW tail \in ManualTails,
               StartManual(t, v, tail)
      PROVE  JobGood(job'[t])
  <2>1. job'[t] = [IdleJob EXCEPT !.pc = "insert", !.vol = v,
                                  !.run = runs + 1,
                                  !.name = [minute |-> 0, tail |-> tail]]
    BY <1>g, <1>2 DEF StartManual
  <2>2. [minute |-> 0, tail |-> tail] \in Names /\ runs + 1 \in Nat
    BY <1>t DEF Names
  <2> QED BY <2>1, <2>2, IdleGood DEF JobGood, JobType, Owners
<1>3. ASSUME NEW v \in Volumes, OpenStore(t, v)
      PROVE  JobGood(job'[t])
  <2>1. [minute |-> minute, tail |-> TailOf[job[t].plan]] \in Names
    BY <1>g, <1>t, <1>3 DEF OpenStore, JobGood, Names
  <2> QED BY <2>1, <1>g, <1>3 DEF OpenStore, JobGood, JobType
<1>4. CASE JobFailsEarly(t)
  BY <1>g, <1>4, LeaveGood DEF JobFailsEarly, JobGood, JobType
<1>5. CASE InsertRow(t)
  BY <1>g, <1>5 DEF InsertRow, JobGood, JobType
<1>6. CASE UpdateIndex(t)
  BY <1>g, <1>6 DEF UpdateIndex, JobGood, JobType
<1>7. CASE UpdateIndexFails(t)
  BY <1>g, <1>7 DEF UpdateIndexFails, JobGood, JobType
<1>8. CASE CreateOk(t)
  BY <1>g, <1>8 DEF CreateOk, JobGood, JobType
<1>9. CASE CreateAnswerLost(t)
  BY <1>g, <1>9 DEF CreateAnswerLost, JobGood, JobType
<1>10. CASE CreateFails(t)
  BY <1>g, <1>10 DEF CreateFails, JobGood, JobType
<1>11. CASE LookupUuid(t)
  <2>1. CASE job[t].pc = "lookup" /\ job' = [job EXCEPT ![t].pc = "mark"]
    BY <2>1, <1>g DEF JobGood, JobType
  <2>2. ASSUME NEW s \in ontap[job[t].vol], job[t].pc = "lookup",
               job' = [job EXCEPT ![t].pc = "mark", ![t].uuid = s.uuid]
        PROVE  JobGood(job'[t])
    <3>1. s.uuid \in Nat
      BY <2>2, <1>g, <1>t DEF JobGood, Snaps
    <3> QED BY <2>2, <3>1, <1>g DEF JobGood, JobType
  <2> QED BY <1>11, <2>1, <2>2 DEF LookupUuid
<1>12. CASE MarkDone(t)
  <2>1. CASE job[t].plan = NoPlan
    BY <2>1, <1>g, <1>12, LeaveGood DEF MarkDone, JobGood
  <2>2. CASE job[t].plan # NoPlan
    <3>1. job[t].plan \in Plans
      BY <2>2, <1>g DEF JobGood, JobType, Owners
    <3> QED BY <3>1, <2>2, <1>g, <1>12 DEF MarkDone, JobGood, JobType
  <2> QED BY <2>1, <2>2
<1>13. CASE MarkFailed(t)
  BY <1>g, <1>13, LeaveGood DEF MarkFailed, JobGood, JobType
<1>14. CASE ListForRetention(t)
  <2> DEFINE found == PlanSnaps(job[t].plan, job[t].vol)
  <2>1. found \in SUBSET Snaps
    BY <1>14, <1>g, <1>t DEF PlanSnaps, ListForRetention, JobGood
  <2>2. /\ {s.name : s \in found} \in SUBSET Names
        /\ Surplus(found, Retention[job[t].plan]) \in SUBSET Snaps
    BY <2>1 DEF Surplus, Snaps
  <2> HIDE DEF found
  <2>3. /\ job[t].pc = "list"
        /\ job' = [job EXCEPT ![t].pc = "expire",
                       ![t].listed = {s.name : s \in found},
                       ![t].doomed = Surplus(found, Retention[job[t].plan]),
                       ![t].asof = taken,
                       ![t].clean = TRUE]
    BY <1>14 DEF ListForRetention, found
  <2> QED BY <2>2, <2>3, <1>t, <1>g DEF JobGood, JobType
<1>15. CASE ListFails(t)
  BY <1>g, <1>15, LeaveGood DEF ListFails, JobGood, JobType
<1>16. ASSUME NEW d \in job[t].doomed, ExpireOne(t, d)
      PROVE  JobGood(job'[t])
  <2>1. d.name \in Names
    BY <1>g DEF JobGood, JobType, Snaps
  <2> QED BY <2>1, <1>g, <1>16 DEF ExpireOne, NextDoomed, JobGood, JobType
<1>17. ASSUME NEW d \in job[t].doomed, ExpireAnswerLost(t, d)
      PROVE  JobGood(job'[t])
  BY <1>g, <1>17 DEF ExpireAnswerLost, NextDoomed, JobGood, JobType
<1>18. ASSUME NEW d \in job[t].doomed, ExpireFails(t, d)
      PROVE  JobGood(job'[t])
  BY <1>g, <1>18 DEF ExpireFails, NextDoomed, JobGood, JobType
<1>19. CASE DropRow(t)
  BY <1>g, <1>19 DEF DropRow, JobGood, JobType
<1>20. CASE SyncRows(t)
  BY <1>g, <1>20, LeaveGood DEF SyncRows, JobGood, JobType
<1> QED
  BY <1>1, <1>2, <1>3, <1>4, <1>5, <1>6, <1>7, <1>8, <1>9, <1>10,
       <1>11, <1>12, <1>13, <1>14, <1>15, <1>16, <1>17, <1>18, <1>19, <1>20
  DEF JobNext

LEMMA SetRowGood ==
    ASSUME rows \subseteq Rows, NEW j \in JobType,
           NEW status \in {"running", "done", "failed"}
    PROVE  SetRow(j, status) \subseteq Rows
<1>1. ASSUME NEW r \in rows
      PROVE  [r EXCEPT !.status = status, !.uuid = j.uuid] \in Rows
  <2>1. r \in Rows /\ j.uuid \in Nat
    BY DEF JobType
  <2> QED BY <2>1 DEF Rows
<1> QED BY <1>1 DEF SetRow

\* What a step can do to the array.
LEMMA ArraySteps ==
    ASSUME TypeInv, [Next]_vars
    PROVE  \/ UNCHANGED arrayVars
           \/ \E t \in Threads : job[t].pc = "create" /\ CreateOnArray(t)
           \/ \E t \in Threads : \E d \in job[t].doomed : ExpireOnArray(t, d)
           \/ \E v \in Volumes, s \in Snaps : WithdrawOnArray(v, s)
<1>1. ASSUME NEW t \in Threads, JobNext(t)
      PROVE  \/ UNCHANGED arrayVars
             \/ job[t].pc = "create" /\ CreateOnArray(t)
             \/ \E d \in job[t].doomed : ExpireOnArray(t, d)
  BY <1>1
  DEF StartRun, StartManual, OpenStore, JobFailsEarly, InsertRow, UpdateIndex,
      UpdateIndexFails, CreateOk, CreateAnswerLost, CreateFails, LookupUuid,
      MarkDone, MarkFailed, ListForRetention, ListFails, ExpireOne,
      ExpireAnswerLost, ExpireFails, DropRow, SyncRows, JobNext
<1>2. ASSUME NEW v \in Volumes, NEW s, WithdrawOnArray(v, s)
      PROVE  \E w \in Volumes, x \in Snaps : WithdrawOnArray(w, x)
  BY <1>2 DEF WithdrawOnArray, TypeInv, ArrayGood
<1>3. CASE DeleteOnArray
  <2>1. request.vol \in Volumes
    BY <1>3 DEF DeleteOnArray, TypeInv, RequestGood
  <2> QED BY <1>2, <1>3, <2>1 DEF DeleteOnArray
<1> QED
  BY <1>1, <1>2, <1>3
  DEF Tick, ScanStart, ImportIndex, GcList, GcSweep, ScanSkips, NativeDelete,
      DeleteReads, DeleteFails, DeleteRow, Crash, ScanStep, DeleteNext, Next,
      vars, arrayVars

LEMMA ArrayNext == TypeInv /\ [Next]_vars => ArrayGood'
<1> SUFFICES ASSUME TypeInv, [Next]_vars PROVE ArrayGood'
  OBVIOUS
<1>1. CASE UNCHANGED arrayVars
  BY <1>1 DEF arrayVars, TypeInv, ArrayGood
<1>2. ASSUME NEW t \in Threads, CreateOnArray(t), job[t].pc = "create"
      PROVE  ArrayGood'
  <2>1. /\ job[t].vol \in Volumes /\ job[t].name \in Names
        /\ job[t].plan \in Owners
    BY <1>2 DEF TypeInv, JobsGood, JobGood, JobType
  <2>2. [uuid |-> taken + 1, name |-> job[t].name] \in Snaps
    BY <2>1 DEF Snaps, TypeInv, CountersGood
  <2> QED BY <1>2, <2>1, <2>2 DEF CreateOnArray, TypeInv, ArrayGood
<1>3. ASSUME NEW t \in Threads, NEW d \in job[t].doomed, ExpireOnArray(t, d)
      PROVE  ArrayGood'
  <2>1. /\ job[t].vol \in Volumes /\ job[t].plan \in Plans /\ d \in Snaps
    BY <1>3 DEF TypeInv, JobsGood, JobGood, JobType
  <2> QED BY <1>3, <2>1 DEF ExpireOnArray, TypeInv, ArrayGood
<1>4. ASSUME NEW v \in Volumes, NEW s, WithdrawOnArray(v, s) PROVE ArrayGood'
  BY <1>4 DEF WithdrawOnArray, TypeInv, ArrayGood
<1> QED BY <1>1, <1>2, <1>3, <1>4, ArraySteps

LEMMA StoreNext == TypeInv /\ [Next]_vars => StoreGood'
<1> SUFFICES ASSUME TypeInv, [Next]_vars PROVE StoreGood'
  OBVIOUS
<1>1. CASE UNCHANGED <<rows, index, swept>>
  BY <1>1 DEF TypeInv, StoreGood
<1>2. ASSUME rows' \subseteq rows, UNCHANGED <<index, swept>>
      PROVE  StoreGood'
  BY <1>2 DEF TypeInv, StoreGood
<1>3. ASSUME NEW t \in Threads, JobNext(t) PROVE StoreGood'
  <2>g. JobGood(job[t]) /\ job[t] \in JobType
    BY DEF TypeInv, JobsGood, JobGood
  <2>1. CASE InsertRow(t)
    BY <2>1, <2>g DEF InsertRow, TypeInv, StoreGood, Rows, JobGood, JobType
  <2>2. CASE UpdateIndex(t) \/ UpdateIndexFails(t)
    BY <2>2, <2>g
    DEF UpdateIndex, UpdateIndexFails, TypeInv, StoreGood, JobGood
  <2>3. CASE MarkDone(t) \/ MarkFailed(t)
    BY <2>3, <2>g, SetRowGood DEF MarkDone, MarkFailed, TypeInv, StoreGood
  <2>4. CASE DropRow(t)
    BY <2>4, <1>2 DEF DropRow
  <2>5. CASE SyncRows(t)
    <3>1. job[t].asof \in Nat /\ job[t].plan \in Plans /\ job[t].vol \in Volumes
      BY <2>5, <2>g DEF SyncRows, JobGood, JobType
    <3> QED BY <2>5, <3>1 DEF SyncRows, TypeInv, StoreGood
  <2> QED
    BY <1>1, <1>3, <2>1, <2>2, <2>3, <2>4, <2>5
    DEF StartRun, StartManual, OpenStore, JobFailsEarly, CreateOk,
        CreateAnswerLost, CreateFails, LookupUuid, ListForRetention,
        ListFails, ExpireOne, ExpireAnswerLost, ExpireFails, JobNext
<1>4. ASSUME NEW v \in Volumes, ImportIndex(v) PROVE StoreGood'
  <2>1. UnknownEntries(v) \subseteq Names
    BY DEF UnknownEntries, TypeInv, StoreGood
  <2> QED BY <1>4, <2>1 DEF ImportIndex, TypeInv, StoreGood, Rows, Owners
<1>5. CASE GcSweep \/ DeleteRow
  BY <1>5, <1>2 DEF GcSweep, DeleteRow
<1> QED
  BY <1>1, <1>3, <1>4, <1>5
  DEF Tick, ScanStart, GcList, ScanSkips, NativeDelete, DeleteReads,
       DeleteOnArray, DeleteFails, Crash, ScanStep, DeleteNext, Next, vars

\* Threads leave the locals of the other actors alone.
LEMMA OthersAlone ==
    ASSUME NEW t \in Threads, JobNext(t)
    PROVE  UNCHANGED <<scan, request>>
BY DEF StartRun, StartManual, OpenStore, JobFailsEarly, InsertRow,
       UpdateIndex, UpdateIndexFails, CreateOk, CreateAnswerLost, CreateFails,
       LookupUuid, MarkDone, MarkFailed, ListForRetention, ListFails,
       ExpireOne, ExpireAnswerLost, ExpireFails, DropRow, SyncRows, JobNext

LEMMA ScanNextGood == TypeInv /\ [Next]_vars => ScanGood'
<1> SUFFICES ASSUME TypeInv, [Next]_vars PROVE ScanGood'
  OBVIOUS
<1>1. CASE UNCHANGED scan
  BY <1>1 DEF TypeInv, ScanGood
<1>2. ASSUME NEW v, ScanNext(v) PROVE ScanGood'
  BY <1>2 DEF ScanNext, TypeInv, ScanGood, ScanType, IdleScan
<1>3. CASE ScanStart
  BY <1>3 DEF ScanStart, ScanGood, ScanType, IdleScan
<1>4. ASSUME NEW v \in Volumes, GcList(v) PROVE ScanGood'
  <2>1. NamesOn(v) \in SUBSET Names
    BY DEF NamesOn, TypeInv, ArrayGood, Snaps
  <2> QED BY <1>4, <2>1 DEF GcList, TypeInv, ScanGood, ScanType
<1>5. CASE Crash
  BY <1>5, IdleGood DEF Crash, ScanGood
<1> QED
  BY <1>1, <1>2, <1>3, <1>4, <1>5, OthersAlone
  DEF Tick, ImportIndex, GcSweep, ScanSkips, NativeDelete, DeleteReads,
       DeleteOnArray, DeleteFails, DeleteRow, ScanStep, DeleteNext, Next, vars

LEMMA RequestNextGood == TypeInv /\ [Next]_vars => RequestGood'
<1> SUFFICES ASSUME TypeInv, [Next]_vars PROVE RequestGood'
  OBVIOUS
<1>1. CASE UNCHANGED request
  BY <1>1 DEF TypeInv, RequestGood
<1>2. CASE request' = IdleRequest
  BY <1>2, IdleGood DEF RequestGood
<1>3. ASSUME NEW r \in rows, DeleteReads(r) PROVE RequestGood'
  <2>1. r \in Rows
    BY DEF TypeInv, StoreGood
  <2> QED BY <1>3, <2>1 DEF DeleteReads, RequestGood, RequestType, Rows
<1>4. CASE DeleteOnArray
  BY <1>4 DEF DeleteOnArray, TypeInv, RequestGood, RequestType
<1> QED
  BY <1>1, <1>2, <1>3, <1>4, OthersAlone
  DEF Tick, ScanStart, ImportIndex, GcList, GcSweep, ScanSkips, NativeDelete,
       DeleteFails, DeleteRow, Crash, ScanStep, DeleteNext, Next, vars

LEMMA CountersNext == TypeInv /\ [Next]_vars => CountersGood'
<1> SUFFICES ASSUME TypeInv, [Next]_vars PROVE CountersGood'
  OBVIOUS
<1> DEFINE Up(x, y) == y = x \/ y = x + 1
<1>1. /\ Up(minute, minute') /\ Up(taken, taken') /\ Up(runs, runs')
      /\ Up(faults, faults') /\ Up(deletes, deletes')
  <2>1. ASSUME NEW t \in Threads, JobNext(t)
        PROVE  /\ Up(minute, minute') /\ Up(taken, taken') /\ Up(runs, runs')
               /\ Up(faults, faults') /\ Up(deletes, deletes')
    BY <2>1
    DEF StartRun, StartManual, OpenStore, JobFailsEarly,
        InsertRow, UpdateIndex, UpdateIndexFails, CreateOk, CreateAnswerLost,
        CreateFails, LookupUuid, MarkDone, MarkFailed, ListForRetention,
        ListFails, ExpireOne, ExpireAnswerLost, ExpireFails, DropRow,
        SyncRows, JobNext, arrayVars, boundVars, Fault, CreateOnArray,
        ExpireOnArray
  <2> QED
    BY <2>1
    DEF Tick, ScanStart, ImportIndex, GcList, GcSweep, ScanSkips,
        NativeDelete, DeleteReads, DeleteOnArray, DeleteFails, DeleteRow,
        Crash, ScanStep, DeleteNext, Next, vars, arrayVars, boundVars, Fault,
        WithdrawOnArray
<1> QED BY <1>1 DEF TypeInv, CountersGood

LEMMA TypeInit == Init => TypeInv
BY IdleGood
DEF Init, TypeInv, JobsGood, ScanGood, RequestGood, CountersGood, ArrayGood,
    StoreGood

LEMMA TypeNext == TypeInv /\ [Next]_vars => TypeInv'
<1> SUFFICES ASSUME TypeInv, [Next]_vars PROVE TypeInv'
  OBVIOUS
<1>1. JobsGood'
  <2>1. CASE UNCHANGED job
    BY <2>1 DEF TypeInv, JobsGood
  <2>2. CASE Crash
    BY <2>2, IdleGood DEF Crash, JobsGood
  <2> QED
    BY <2>1, <2>2, JobsNext
    DEF Tick, ScanStart, ImportIndex, GcList, GcSweep, ScanSkips,
        NativeDelete, DeleteReads, DeleteOnArray, DeleteFails, DeleteRow,
        ScanStep, DeleteNext, Next, vars
<1> QED
  BY <1>1, ArrayNext, StoreNext, ScanNextGood, RequestNextGood, CountersNext
  DEF TypeInv

\* TypeOK holds in every reachable state.
THEOREM TypeCorrect == Spec => []TypeOK
<1>1. TypeInv => TypeOK
  BY DEF TypeInv, TypeOK, JobsGood, JobGood, ScanGood, RequestGood,
         CountersGood, ArrayGood, StoreGood
<1> QED BY <1>1, TypeInit, TypeNext, PTL DEF Spec

-----------------------------------------------------------------------------
(* Retention: every step is one of RetentionPolicy *)

\* The instance has a copy of FiniteSets of its own.
LEMMA SameCardinality == \A S : Policy!Cardinality(S) = Cardinality(S)
BY DEF Policy!Cardinality, Cardinality

PolicyStep == Policy!PolicyNext \/ UNCHANGED <<ontap, withdrawn, expired>>

LEMMA CreateIsTake ==
    ASSUME TypeInv, TakenLast, NEW t \in Threads, job[t].pc = "create",
           CreateOnArray(t)
    PROVE  PolicyStep
<1> DEFINE v == job[t].vol
           s == [uuid |-> taken + 1, name |-> job[t].name]
<1>1. v \in Volumes /\ job[t].name \in Names /\ job[t].plan \in Owners
  BY DEF TypeInv, JobsGood, JobGood, JobType
<1>2. s \in Snaps /\ taken \in Nat
  BY <1>1 DEF Snaps, TypeInv, CountersGood
<1>3. s \in ontap'[v]
  BY <1>1 DEF CreateOnArray, TypeInv, ArrayGood
<1>4. ASSUME NEW x \in Policy!Kept(v) PROVE x.uuid < s.uuid
  <2>1. x.uuid <= taken /\ x.uuid \in Nat
    BY <1>1 DEF TakenLast, Policy!Kept, TypeInv, ArrayGood, Snaps
  <2> QED BY <2>1, <1>2
<1>5. Policy!Take(v, s)
  BY <1>4 DEF CreateOnArray, Policy!Take
<1> QED BY <1>1, <1>2, <1>3, <1>5 DEF PolicyStep, Policy!PolicyNext

LEMMA ExpireIsExpire ==
    ASSUME TypeInv, DoomedCovered, NEW t \in Threads,
           NEW d \in job[t].doomed, ExpireOnArray(t, d)
    PROVE  PolicyStep
<1> DEFINE v == job[t].vol
           p == job[t].plan
<1>1. v \in Volumes /\ p \in Plans
  BY DEF TypeInv, JobsGood, JobGood
<1>2. Belongs(p, d) /\ Cardinality(Policy!KeptNewer(p, v, d)) >= Retention[p]
  BY SameCardinality DEF DoomedCovered, DoomedGood, Covered
<1>3. d \in ontap[v] /\ Policy!Expire(p, v, d)
  BY <1>2, SameCardinality DEF ExpireOnArray, Policy!Expire
<1> QED BY <1>1, <1>3 DEF PolicyStep, Policy!PolicyNext

LEMMA WithdrawIsWithdraw ==
    ASSUME NEW v \in Volumes, NEW s, WithdrawOnArray(v, s)
    PROVE  PolicyStep
BY DEF WithdrawOnArray, PolicyStep, Policy!PolicyNext, Policy!Withdraw

LEMMA StepRefines ==
    ASSUME TypeInv, TakenLast, DoomedCovered, [Next]_vars
    PROVE  PolicyStep
<1>1. CASE UNCHANGED arrayVars
  BY <1>1 DEF arrayVars, PolicyStep
<1> QED
  BY <1>1, ArraySteps, CreateIsTake, ExpireIsExpire, WithdrawIsWithdraw

-----------------------------------------------------------------------------
(* Coverage is inductive *)

LEMMA FiniteNext ==
    ASSUME TypeInv, FiniteArray, [Next]_vars
    PROVE  FiniteArray'
<1> SUFFICES ASSUME NEW w \in Volumes PROVE IsFiniteSet(Policy!Kept(w))'
  BY DEF FiniteArray
<1>1. IsFiniteSet(Policy!Kept(w))
  BY DEF FiniteArray
<1>2. ASSUME NEW s, Policy!Kept(w)' \in SUBSET (Policy!Kept(w) \cup {s})
      PROVE  IsFiniteSet(Policy!Kept(w))'
  BY <1>1, <1>2, FS_AddElement, FS_Subset
<1>3. CASE UNCHANGED arrayVars
  BY <1>1, <1>3 DEF arrayVars, Policy!Kept
<1>4. ASSUME NEW t \in Threads, CreateOnArray(t)
      PROVE  IsFiniteSet(Policy!Kept(w))'
  BY <1>2, <1>4 DEF CreateOnArray, Policy!Kept, TypeInv, ArrayGood
<1>5. ASSUME NEW t \in Threads, NEW d, ExpireOnArray(t, d)
      PROVE  IsFiniteSet(Policy!Kept(w))'
  BY <1>2, <1>5 DEF ExpireOnArray, Policy!Kept, TypeInv, ArrayGood
<1>6. ASSUME NEW v \in Volumes, NEW s, WithdrawOnArray(v, s)
      PROVE  IsFiniteSet(Policy!Kept(w))'
  BY <1>2, <1>6 DEF WithdrawOnArray, Policy!Kept, TypeInv, ArrayGood
<1> QED BY <1>3, <1>4, <1>5, <1>6, ArraySteps

LEMMA TakenLastNext ==
    ASSUME TypeInv, TakenLast, [Next]_vars
    PROVE  TakenLast'
<1> SUFFICES ASSUME NEW v \in Volumes, NEW s \in Policy!Kept(v)'
             PROVE  s.uuid <= taken'
  BY DEF TakenLast
<1>0. taken \in Nat /\ \A x \in Policy!Kept(v) : x.uuid <= taken /\ x.uuid \in Nat
  BY DEF TypeInv, CountersGood, TakenLast, Policy!Kept, ArrayGood, Snaps
<1>1. CASE UNCHANGED arrayVars
  BY <1>0, <1>1 DEF arrayVars, Policy!Kept
<1>2. ASSUME NEW t \in Threads, job[t].pc = "create", CreateOnArray(t)
      PROVE  s.uuid <= taken'
  <2>1. \/ s \in Policy!Kept(v)
        \/ s = [uuid |-> taken + 1, name |-> job[t].name]
    BY <1>2 DEF CreateOnArray, Policy!Kept, TypeInv, ArrayGood
  <2>2. taken' = taken + 1
    BY <1>2 DEF CreateOnArray
  <2> QED BY <2>1, <2>2, <1>0
<1>3. ASSUME NEW t \in Threads, NEW d \in job[t].doomed, ExpireOnArray(t, d)
      PROVE  s.uuid <= taken'
  <2>1. s \in Policy!Kept(v) /\ taken' = taken
    BY <1>3 DEF ExpireOnArray, Policy!Kept, TypeInv, ArrayGood
  <2> QED BY <1>0, <2>1
<1>4. ASSUME NEW w \in Volumes, NEW x, WithdrawOnArray(w, x)
      PROVE  s.uuid <= taken'
  <2>1. s \in Policy!Kept(v) /\ taken' = taken
    BY <1>4 DEF WithdrawOnArray, Policy!Kept, TypeInv, ArrayGood
  <2> QED BY <1>0, <2>1
<1> QED BY <1>1, <1>2, <1>3, <1>4, ArraySteps

\* Whatever is covered stays covered: new snapshots only add to the newer
\* ones, a withdrawn one still counts, and an expired one either belongs to
\* another plan, or was older, or leaves all those behind that covered it.
LEMMA CoverStays ==
    ASSUME TailsApart, TypeInv, FiniteArray, FiniteArray', PolicyStep,
           NEW p \in Plans, NEW v \in Volumes, NEW s \in Snaps, Covered(p, v, s)
    PROVE  Covered(p, v, s)'
<1> DEFINE Newer(x) == Policy!KeptNewer(p, v, x)
<1>1. \A x : IsFiniteSet(Newer(x)) /\ Cardinality(Newer(x)) \in Nat
  <2> SUFFICES ASSUME NEW x PROVE IsFiniteSet(Newer(x)) /\ Cardinality(Newer(x)) \in Nat
    OBVIOUS
  <2>1. Newer(x) \in SUBSET Policy!Kept(v) /\ IsFiniteSet(Policy!Kept(v))
    BY DEF Policy!KeptNewer, FiniteArray
  <2> QED BY <2>1, FS_Subset, FS_CardinalityType
<1>2. IsFiniteSet(Newer(s)') /\ Cardinality(Newer(s)') \in Nat
  <2>1. Newer(s)' \in SUBSET Policy!Kept(v)' /\ IsFiniteSet(Policy!Kept(v)')
    BY DEF Policy!KeptNewer, FiniteArray
  <2> QED BY <2>1, FS_Subset, FS_CardinalityType
<1>3. Retention[p] \in Nat
  OBVIOUS
<1>4. ASSUME NEW x, Covered(p, v, x), Newer(x) \in SUBSET Newer(s)'
      PROVE  Covered(p, v, s)'
  <2>1. Cardinality(Newer(x)) <= Cardinality(Newer(s)')
    BY <1>2, <1>4, FS_Subset
  <2> QED BY <2>1, <1>1, <1>2, <1>3, <1>4 DEF Covered
<1>5. CASE Policy!Kept(v) \subseteq Policy!Kept(v)'
  <2>1. Newer(s) \in SUBSET Newer(s)'
    BY <1>5 DEF Policy!KeptNewer
  <2> QED BY <1>4, <2>1
<1>6. CASE UNCHANGED <<ontap, withdrawn, expired>>
  BY <1>5, <1>6 DEF Policy!Kept
<1>7. ASSUME NEW w \in Volumes, NEW x, Policy!Take(w, x) \/ Policy!Withdraw(w, x)
      PROVE  Covered(p, v, s)'
  <2>1. /\ ontap \in [Volumes -> SUBSET Snaps]
        /\ withdrawn \in [Volumes -> SUBSET Snaps]
    BY DEF TypeInv, ArrayGood
  <2>2. CASE Policy!Take(w, x)
    <3>1. ontap[v] \subseteq ontap'[v] /\ withdrawn' = withdrawn
      BY <2>1, <2>2 DEF Policy!Take
    <3> QED BY <3>1, <1>5 DEF Policy!Kept
  <2>3. CASE Policy!Withdraw(w, x)
    <3>1. Policy!Kept(v) \subseteq Policy!Kept(v)'
      BY <2>1, <2>3 DEF Policy!Withdraw, Policy!Kept
    <3> QED BY <3>1, <1>5
  <2> QED BY <1>7, <2>2, <2>3
<1>8. ASSUME NEW w \in Volumes, NEW q \in Plans, NEW d \in ontap[w],
             Policy!Expire(q, w, d)
      PROVE  Covered(p, v, s)'
  <2>1. CASE v # w
    BY <1>5, <1>8, <2>1 DEF Policy!Expire, Policy!Kept, TypeInv, ArrayGood
  <2>2. CASE v = w
    <3>1. Policy!Kept(v) \subseteq Policy!Kept(v)' \cup {d}
      BY <1>8, <2>2 DEF Policy!Expire, Policy!Kept, TypeInv, ArrayGood
    <3>2. d.uuid \in Nat /\ s.uuid \in Nat /\ \A x \in Policy!Kept(v) : x.uuid \in Nat
      BY <1>8, <2>2 DEF TypeInv, ArrayGood, Snaps, Policy!Kept
    <3>3. CASE d \notin Newer(s)
      <4>1. Newer(s) \in SUBSET Newer(s)'
        BY <3>1, <3>3 DEF Policy!KeptNewer
      <4> QED BY <1>4, <4>1
    <3>4. CASE d \in Newer(s)
      <4>1. p = q
        BY <1>8, <3>4 DEF Policy!KeptNewer, Policy!Expire, Belongs, TailsApart
      <4>2. Covered(p, v, d)
        BY <1>8, <2>2, <4>1, SameCardinality DEF Policy!Expire, Covered
      <4>3. d.uuid > s.uuid
        BY <3>4 DEF Policy!KeptNewer
      <4>4. Newer(d) \in SUBSET Newer(s)'
        BY <3>1, <3>2, <4>3 DEF Policy!KeptNewer
      <4> QED BY <1>4, <4>2, <4>4
    <3> QED BY <3>3, <3>4
  <2> QED BY <2>1, <2>2
<1> QED BY <1>6, <1>7, <1>8 DEF PolicyStep, Policy!PolicyNext

-----------------------------------------------------------------------------
(* Retention: what is doomed stays covered until it is deleted *)

\* Only a listing adds to the snapshots doomed.
DoomedBefore(u) ==
    /\ job'[u].doomed \subseteq job[u].doomed
    /\ job'[u].doomed # {} => /\ job'[u].plan = job[u].plan
                              /\ job'[u].vol = job[u].vol

LEMMA DoomedOnlyByListing ==
    ASSUME TypeInv, [Next]_vars, NEW u \in Threads, ~ListForRetention(u)
    PROVE  DoomedBefore(u)
<1>g. JobGood(job[u]) /\ job \in [Threads -> JobType]
  BY DEF TypeInv, JobsGood, JobGood
<1>1. CASE job'[u] = job[u]
  BY <1>1 DEF DoomedBefore
<1>2. CASE Crash
  BY <1>2, IdleGood DEF Crash, DoomedBefore
<1>3. CASE JobNext(u)
  <2>1. ASSUME NEW p \in Plans, StartRun(u, p) PROVE DoomedBefore(u)
    BY <2>1, <1>g, IdleGood DEF StartRun, DoomedBefore, JobGood, JobType
  <2>2. ASSUME NEW v \in Volumes, NEW tail \in ManualTails,
               StartManual(u, v, tail)
        PROVE  DoomedBefore(u)
    BY <2>2, <1>g, IdleGood DEF StartManual, DoomedBefore, JobGood, JobType
  <2>3. ASSUME NEW v \in Volumes, OpenStore(u, v) PROVE DoomedBefore(u)
    BY <2>3, <1>g DEF OpenStore, DoomedBefore, JobGood, JobType
  <2>4. CASE \/ JobFailsEarly(u) \/ MarkFailed(u) \/ ListFails(u) \/ SyncRows(u)
    BY <2>4, <1>g, LeaveGood
    DEF JobFailsEarly, MarkFailed, ListFails, SyncRows, DoomedBefore, JobGood,
        JobType
  <2>5. CASE \/ InsertRow(u) \/ UpdateIndex(u) \/ UpdateIndexFails(u)
             \/ CreateOk(u) \/ CreateAnswerLost(u) \/ CreateFails(u)
             \/ LookupUuid(u) \/ DropRow(u)
    BY <2>5, <1>g
    DEF InsertRow, UpdateIndex, UpdateIndexFails, CreateOk, CreateAnswerLost,
        CreateFails, LookupUuid, DropRow, DoomedBefore, JobGood, JobType
  <2>6. CASE MarkDone(u)
    BY <2>6, <1>g, LeaveGood DEF MarkDone, DoomedBefore, JobGood, JobType, Owners
  <2>7. ASSUME NEW d \in job[u].doomed,
               ExpireOne(u, d) \/ ExpireAnswerLost(u, d) \/ ExpireFails(u, d)
        PROVE  DoomedBefore(u)
    BY <2>7, <1>g
    DEF ExpireOne, ExpireAnswerLost, ExpireFails, DoomedBefore, JobGood, JobType
  <2> QED BY <1>3, <2>1, <2>2, <2>3, <2>4, <2>5, <2>6, <2>7 DEF JobNext
<1>4. ASSUME NEW t \in Threads, JobNext(t), t # u PROVE DoomedBefore(u)
  <2>1. job' = [job EXCEPT ![t] = job'[t]]
    BY <1>4, OwnJobOnly DEF TypeInv
  <2> QED BY <2>1, <1>1, <1>4, <1>g
<1> QED
  BY <1>1, <1>2, <1>3, <1>4
  DEF Tick, ScanStart, ImportIndex, GcList, GcSweep, ScanSkips, NativeDelete,
      DeleteReads, DeleteOnArray, DeleteFails, DeleteRow, ScanStep,
      DeleteNext, Next, vars

\* Retention[p] newer snapshots of the plan are listed, so they are kept.
LEMMA ListedCovered ==
    ASSUME TypeInv, FiniteArray, NEW t \in Threads, ListForRetention(t),
           NEW d \in job'[t].doomed
    PROVE  DoomedGood(t, d)'
<1> DEFINE p == job[t].plan
           v == job[t].vol
           found == PlanSnaps(p, v)
           newer == {x \in found : x.uuid > d.uuid}
<1>1. p \in Plans /\ v \in Volumes /\ job \in [Threads -> JobType]
  BY DEF ListForRetention, TypeInv, JobsGood, JobGood
<1>2. /\ job'[t].plan = p /\ job'[t].vol = v
      /\ job'[t].doomed = Surplus(found, Retention[p])
  <2>1. job' = [job EXCEPT ![t].pc = "expire",
                       ![t].listed = {s.name : s \in found},
                       ![t].doomed = Surplus(found, Retention[p]),
                       ![t].asof = taken,
                       ![t].clean = TRUE]
    BY DEF ListForRetention
  <2>2. ASSUME NEW names, NEW surplus,
               job' = [job EXCEPT ![t].pc = "expire",
                              ![t].listed = names,
                              ![t].doomed = surplus,
                              ![t].asof = taken,
                              ![t].clean = TRUE]
        PROVE  /\ job'[t].plan = job[t].plan /\ job'[t].vol = job[t].vol
               /\ job'[t].doomed = surplus
    <3>1. job[t] \in JobType
      BY <1>1
    <3> QED BY <1>1, <2>2, <3>1 DEF JobType
  <2> QED BY <2>1, <2>2
<1>u. ontap' = ontap /\ withdrawn' = withdrawn
  BY DEF ListForRetention, arrayVars
<1>3. d \in found /\ Cardinality(newer) >= Retention[p]
  BY <1>2 DEF Surplus
<1>4. Belongs(p, d)
  BY <1>3 DEF PlanSnaps
<1>5. newer \in SUBSET Policy!KeptNewer(p, v, d)
  BY DEF PlanSnaps, Policy!KeptNewer, Policy!Kept
<1>6. IsFiniteSet(Policy!KeptNewer(p, v, d))
  <2>1. Policy!KeptNewer(p, v, d) \in SUBSET Policy!Kept(v)
    BY DEF Policy!KeptNewer
  <2> QED BY <1>1, <2>1, FS_Subset DEF FiniteArray
<1>7. Cardinality(Policy!KeptNewer(p, v, d)) >= Retention[p]
  <2>1. /\ Cardinality(newer) <= Cardinality(Policy!KeptNewer(p, v, d))
        /\ IsFiniteSet(newer)
    BY <1>5, <1>6, FS_Subset
  <2>2. /\ Cardinality(newer) \in Nat
        /\ Cardinality(Policy!KeptNewer(p, v, d)) \in Nat
        /\ Retention[p] \in Nat
    BY <1>1, <1>6, <2>1, FS_CardinalityType
  <2> HIDE DEF newer
  <2> QED BY <1>3, <2>1, <2>2
<1>8. Policy!KeptNewer(job[t].plan, job[t].vol, d)'
           = Policy!KeptNewer(p, v, d)
  BY <1>2, <1>u DEF Policy!KeptNewer, Policy!Kept
<1> QED BY <1>2, <1>4, <1>7, <1>8 DEF DoomedGood, Covered

LEMMA DoomedNext ==
    ASSUME TailsApart, TypeInv, FiniteArray, TakenLast, DoomedCovered, [Next]_vars
    PROVE  DoomedCovered'
<1> SUFFICES ASSUME NEW t \in Threads, NEW d \in job'[t].doomed
             PROVE  DoomedGood(t, d)'
  BY DEF DoomedCovered
<1>1. CASE ListForRetention(t)
  BY <1>1, ListedCovered
<1>2. CASE ~ListForRetention(t)
  <2>1. /\ d \in job[t].doomed
        /\ job'[t].plan = job[t].plan /\ job'[t].vol = job[t].vol
    BY <1>2, DoomedOnlyByListing DEF DoomedBefore
  <2>2. job[t].plan \in Plans /\ job[t].vol \in Volumes /\ d \in Snaps
    BY <2>1 DEF TypeInv, JobsGood, JobGood, JobType
  <2>3. Belongs(job[t].plan, d) /\ Covered(job[t].plan, job[t].vol, d)
    BY <2>1 DEF DoomedCovered, DoomedGood
  <2>4. \A p \in Plans, v \in Volumes : Covered(p, v, d) => Covered(p, v, d)'
    BY <2>2, StepRefines, FiniteNext, CoverStays
  <2>5. ASSUME NEW p \in Plans, NEW v \in Volumes,
               p = job[t].plan, v = job[t].vol
        PROVE  DoomedGood(t, d)'
    BY <2>1, <2>3, <2>4, <2>5 DEF DoomedGood, Covered
  <2> QED BY <2>2, <2>5
<1> QED BY <1>1, <1>2

-----------------------------------------------------------------------------
(* Retention: the theorems *)

LEMMA ExpiredCoveredNext ==
    ASSUME TailsApart, TypeInv, FiniteArray, FiniteArray', PolicyStep,
           ExpiredCovered
    PROVE  ExpiredCovered'
<1> SUFFICES ASSUME NEW p \in Plans, NEW v \in Volumes, NEW s \in expired'[p][v]
             PROVE  Covered(p, v, s)'
  BY DEF ExpiredCovered, Covered
<1>1. CASE s \in expired[p][v]
  <2>1. s \in Snaps /\ Covered(p, v, s)
    BY <1>1 DEF ExpiredCovered, Covered, TypeInv, ArrayGood
  <2> QED BY <2>1, CoverStays
<1>2. CASE s \notin expired[p][v]
  <2>1. Policy!Expire(p, v, s)
    BY <1>2
    DEF PolicyStep, Policy!PolicyNext, Policy!Take, Policy!Withdraw,
        Policy!Expire, TypeInv, ArrayGood
  <2>2. s \in Snaps /\ Covered(p, v, s)
    BY <2>1, SameCardinality DEF Policy!Expire, Covered, TypeInv, ArrayGood
  <2> QED BY <2>2, CoverStays
<1> QED BY <1>1, <1>2

LEMMA CoverInit == Init => CoverInv
<1> SUFFICES ASSUME Init PROVE CoverInv
  OBVIOUS
<1>1. \A v \in Volumes : Policy!Kept(v) = {}
  BY DEF Init, Policy!Kept
<1>2. \A t \in Threads : job[t].doomed = {}
  BY IdleGood DEF Init
<1>3. \A p \in Plans, v \in Volumes : expired[p][v] = {}
  BY DEF Init
<1> QED
  BY <1>1, <1>2, <1>3, FS_EmptySet
  DEF CoverInv, FiniteArray, TakenLast, DoomedCovered, ExpiredCovered

LEMMA CoverNext ==
    TailsApart /\ TypeInv /\ CoverInv /\ [Next]_vars => CoverInv'
<1> SUFFICES ASSUME TailsApart, TypeInv, CoverInv, [Next]_vars PROVE CoverInv'
  OBVIOUS
<1>1. FiniteArray /\ TakenLast /\ DoomedCovered /\ ExpiredCovered
  BY DEF CoverInv
<1>2. PolicyStep
  BY <1>1, StepRefines
<1> QED
  BY <1>1, <1>2, FiniteNext, TakenLastNext, DoomedNext, ExpiredCoveredNext
  DEF CoverInv

\* Retention never eats into the newest Retention[p] snapshots of a plan,
\* whatever the interleaving, if no name belongs to two plans.
THEOREM RetentionKeepsNewest ==
    ASSUME TailsApart
    PROVE  Spec => []ExpiredCovered
<1>1. Init => TypeInv /\ CoverInv
  BY TypeInit, CoverInit
<1>2. TypeInv /\ CoverInv /\ [Next]_vars => (TypeInv /\ CoverInv)'
  BY TypeNext, CoverNext
<1>3. CoverInv => ExpiredCovered
  BY DEF CoverInv
<1> QED BY <1>1, <1>2, <1>3, PTL DEF Spec

\* Under the same condition the catalogue implements RetentionPolicy.
THEOREM CatalogImplementsPolicy ==
    ASSUME TailsApart
    PROVE  Spec => ImplementsPolicy
<1>1. Init => TypeInv /\ CoverInv
  BY TypeInit, CoverInit
<1>2. TypeInv /\ CoverInv /\ [Next]_vars => (TypeInv /\ CoverInv)'
  BY TypeNext, CoverNext
<1>3. Init => Policy!PolicyInit
  BY DEF Init, Policy!PolicyInit
<1>4. TypeInv /\ CoverInv /\ [Next]_vars
        => [Policy!PolicyNext]_(Policy!policyVars)
  BY StepRefines DEF CoverInv, PolicyStep, Policy!policyVars
<1> QED
  BY <1>1, <1>2, <1>3, <1>4, PTL DEF Spec, ImplementsPolicy, Policy!PolicySpec

-----------------------------------------------------------------------------
(* The bound after retention *)

LEMMA LeastExists ==
    ASSUME NEW T \in SUBSET Nat, T # {}
    PROVE  \E m \in T : \A x \in T : m <= x
<1> DEFINE R == {pair \in Nat \X Nat : pair[1] < pair[2]}
<1>1. R = OpToRel(<, Nat)
  BY Zenon DEF OpToRel
<1>2. IsWellFoundedOn(R, Nat)
  BY <1>1, NatLessThanWellFounded
<1>3. \A m, x \in Nat : x < m => <<x, m>> \in R
  OBVIOUS
<1> HIDE DEF R
<1>4. PICK m \in T : \A x \in T : ~(<<x, m>> \in R)
  BY <1>2, WFMin
<1>5. ASSUME NEW x \in T PROVE m <= x
  <2>1. ~(x < m)
    BY <1>3, <1>4
  <2> QED BY <2>1
<1> QED BY <1>5

\* The list cut off after its first count elements has at most count of them.
LEMMA SurplusLeaves ==
    ASSUME NEW S \in SUBSET Snaps, IsFiniteSet(S), NEW count \in Nat,
           \A s, x \in S : s.uuid = x.uuid => s = x
    PROVE  Cardinality(S \ Surplus(S, count)) <= count
<1> DEFINE T == S \ Surplus(S, count)
           newer(s) == {x \in S : x.uuid > s.uuid}
<1>1. IsFiniteSet(T) /\ \A s : IsFiniteSet(newer(s))
  BY FS_Subset
<1>2. CASE T = {}
  <2>1. Cardinality(T) = 0
    BY <1>2, FS_EmptySet
  <2> HIDE DEF T
  <2>2. Cardinality(T) <= count
    BY <2>1
  <2> QED BY <2>2 DEF T
<1>3. CASE T # {}
  <2>1. \A s \in S : s.uuid \in Nat
    BY DEF Snaps
  <2>2. PICK n \in {s.uuid : s \in T} : \A k \in {s.uuid : s \in T} : n <= k
    <3>1. {s.uuid : s \in T} \in SUBSET Nat /\ {s.uuid : s \in T} # {}
      BY <1>3, <2>1
    <3> HIDE DEF T
    <3> QED BY <3>1, LeastExists
  <2>3. PICK m \in T : m.uuid = n
    BY <2>2
  <2>4. T \ {m} \in SUBSET newer(m)
    <3> SUFFICES ASSUME NEW s \in T, s # m PROVE s.uuid > m.uuid
      OBVIOUS
    <3>1. s.uuid # m.uuid /\ s.uuid \in Nat /\ m.uuid \in Nat
      BY <2>1
    <3>2. m.uuid <= s.uuid
      BY <2>2, <2>3
    <3> QED BY <3>1, <3>2
  <2>5. Cardinality(newer(m)) < count
    <3>1. m \in S /\ ~(Cardinality(newer(m)) >= count)
      BY DEF Surplus
    <3>2. Cardinality(newer(m)) \in Nat
      BY <1>1, FS_CardinalityType
    <3> HIDE DEF newer
    <3> QED BY <3>1, <3>2
  <2>6. Cardinality(T \ {m}) <= Cardinality(newer(m))
    BY <1>1, <2>4, FS_Subset
  <2>7. Cardinality(T \ {m}) = Cardinality(T) - 1
    BY <1>1, FS_RemoveElement
  <2>8. Cardinality(T) \in Nat /\ Cardinality(newer(m)) \in Nat
    BY <1>1, FS_CardinalityType
  <2> HIDE DEF T, newer
  <2>9. Cardinality(T) <= count
    BY <2>5, <2>6, <2>7, <2>8
  <2> QED BY <2>9 DEF T
<1> QED BY <1>2, <1>3

LEMMA UniqueNext ==
    ASSUME TypeInv, TakenLast, UuidsUnique, [Next]_vars
    PROVE  UuidsUnique'
<1> SUFFICES ASSUME NEW v \in Volumes, NEW s \in ontap'[v], NEW x \in ontap'[v],
                    s.uuid = x.uuid
             PROVE  s = x
  BY DEF UuidsUnique
<1>1. ASSUME ontap'[v] \subseteq ontap[v] PROVE s = x
  BY <1>1 DEF UuidsUnique
<1>2. ASSUME NEW t \in Threads, CreateOnArray(t) PROVE s = x
  <2> DEFINE new == [uuid |-> taken + 1, name |-> job[t].name]
  <2>1. ontap'[v] \subseteq ontap[v] \cup {new}
    BY <1>2 DEF CreateOnArray, TypeInv, ArrayGood
  <2>2. \A y \in ontap[v] : y.uuid # new.uuid
    <3> SUFFICES ASSUME NEW y \in ontap[v] PROVE y.uuid # taken + 1
      OBVIOUS
    <3>1. y.uuid <= taken /\ y.uuid \in Nat /\ taken \in Nat
      BY DEF TakenLast, Policy!Kept, TypeInv, ArrayGood, CountersGood, Snaps
    <3> QED BY <3>1
  <2> HIDE DEF new
  <2> QED BY <2>1, <2>2 DEF UuidsUnique
<1>3. ASSUME NEW t \in Threads, NEW d, ExpireOnArray(t, d)
      PROVE  ontap'[v] \subseteq ontap[v]
  BY <1>3 DEF ExpireOnArray, TypeInv, ArrayGood
<1>4. ASSUME NEW w \in Volumes, NEW d, WithdrawOnArray(w, d)
      PROVE  ontap'[v] \subseteq ontap[v]
  BY <1>4 DEF WithdrawOnArray, TypeInv, ArrayGood
<1> QED BY <1>1, <1>2, <1>3, <1>4, ArraySteps DEF arrayVars

\* No step adds a snapshot that was taken before.
LEMMA TakenByShrinks ==
    ASSUME TypeInv, [Next]_vars, NEW p, NEW v \in Volumes,
           NEW n \in Nat, n <= taken
    PROVE  TakenBy(p, v, n)' \subseteq TakenBy(p, v, n)
<1>1. ASSUME ontap'[v] \subseteq ontap[v]
      PROVE  TakenBy(p, v, n)' \subseteq TakenBy(p, v, n)
  BY <1>1 DEF TakenBy, PlanSnaps
<1>2. ASSUME NEW t \in Threads, CreateOnArray(t)
      PROVE  TakenBy(p, v, n)' \subseteq TakenBy(p, v, n)
  <2> DEFINE new == [uuid |-> taken + 1, name |-> job[t].name]
  <2>1. ontap'[v] \subseteq ontap[v] \cup {new}
    BY <1>2 DEF CreateOnArray, TypeInv, ArrayGood
  <2>2. ~(new.uuid <= n)
    BY DEF TypeInv, CountersGood
  <2> HIDE DEF new
  <2> QED BY <2>1, <2>2 DEF TakenBy, PlanSnaps
<1>3. ASSUME NEW t \in Threads, NEW d, ExpireOnArray(t, d)
      PROVE  ontap'[v] \subseteq ontap[v]
  BY <1>3 DEF ExpireOnArray, TypeInv, ArrayGood
<1>4. ASSUME NEW w \in Volumes, NEW d, WithdrawOnArray(w, d)
      PROVE  ontap'[v] \subseteq ontap[v]
  BY <1>4 DEF WithdrawOnArray, TypeInv, ArrayGood
<1> QED BY <1>1, <1>2, <1>3, <1>4, ArraySteps DEF arrayVars

LEMMA TakenGrows ==
    ASSUME TypeInv, [Next]_vars
    PROVE  taken <= taken' /\ taken \in Nat /\ taken' \in Nat
<1>1. taken \in Nat
  BY DEF TypeInv, CountersGood
<1>2. taken' = taken \/ taken' = taken + 1
  BY ArraySteps
  DEF arrayVars, CreateOnArray, ExpireOnArray, WithdrawOnArray
<1> QED BY <1>1, <1>2

LEMMA FiniteTakenBy ==
    ASSUME FiniteArray, NEW p, NEW v \in Volumes, NEW n,
           NEW S \in SUBSET TakenBy(p, v, n)
    PROVE  IsFiniteSet(S) /\ Cardinality(S) \in Nat
<1>1. S \in SUBSET Policy!Kept(v) /\ IsFiniteSet(Policy!Kept(v))
  BY DEF TakenBy, PlanSnaps, Policy!Kept, FiniteArray
<1> QED BY <1>1, FS_Subset, FS_CardinalityType

\* Within one retention pass the set left behind only shrinks, or the pass
\* is no longer flawless.
SamePass(t) ==
    /\ InRetention(t)
    /\ job'[t].asof = job[t].asof
    /\ job'[t].plan = job[t].plan
    /\ job'[t].vol = job[t].vol
    /\ job'[t].clean =>
         /\ job[t].clean
         /\ \A d \in job[t].doomed \ job'[t].doomed : d \notin ontap'[job[t].vol]

LEMMA PassSteps ==
    ASSUME TypeInv, [Next]_vars, NEW u \in Threads, InRetention(u)',
           ~ListForRetention(u)
    PROVE  SamePass(u)
<1>g. JobGood(job[u]) /\ job \in [Threads -> JobType]
  BY DEF TypeInv, JobsGood, JobGood
<1>p. job'[u].pc \in {"expire", "droprow"}
  BY DEF InRetention
<1>1. CASE job'[u] = job[u]
  BY <1>1, <1>p DEF SamePass, InRetention
<1>2. CASE Crash
  BY <1>2, <1>p, IdleGood DEF Crash
<1>3. CASE JobNext(u)
  <2>1. ASSUME NEW p \in Plans, StartRun(u, p) PROVE FALSE
    BY <2>1, <1>g, <1>p, IdleGood DEF StartRun, JobGood, JobType
  <2>2. ASSUME NEW v \in Volumes, NEW tail \in ManualTails,
               StartManual(u, v, tail)
        PROVE  FALSE
    BY <2>2, <1>g, <1>p, IdleGood DEF StartManual, JobGood, JobType
  <2>3. ASSUME NEW v \in Volumes, OpenStore(u, v) PROVE FALSE
    BY <2>3, <1>g, <1>p DEF OpenStore, JobGood, JobType
  <2>4. CASE \/ JobFailsEarly(u) \/ MarkFailed(u) \/ ListFails(u) \/ SyncRows(u)
    BY <2>4, <1>g, <1>p, LeaveGood
    DEF JobFailsEarly, MarkFailed, ListFails, SyncRows, JobGood, JobType
  <2>5. CASE \/ InsertRow(u) \/ UpdateIndex(u) \/ UpdateIndexFails(u)
             \/ CreateOk(u) \/ CreateAnswerLost(u) \/ CreateFails(u)
             \/ LookupUuid(u)
    BY <2>5, <1>g, <1>p
    DEF InsertRow, UpdateIndex, UpdateIndexFails, CreateOk, CreateAnswerLost,
        CreateFails, LookupUuid, JobGood, JobType
  <2>6. CASE MarkDone(u)
    BY <2>6, <1>g, <1>p, LeaveGood DEF MarkDone, JobGood, JobType, Owners
  <2>7. CASE DropRow(u)
    BY <2>7, <1>g DEF DropRow, SamePass, InRetention, JobGood, JobType
  <2>8. ASSUME NEW d \in job[u].doomed,
               ExpireOne(u, d) \/ ExpireAnswerLost(u, d)
        PROVE  SamePass(u)
    <3>1. d \notin ontap'[job[u].vol]
      BY <2>8, <1>g
      DEF ExpireOne, ExpireAnswerLost, NextDoomed, ExpireOnArray, TypeInv,
          ArrayGood, JobGood
    <3>2. /\ job[u].pc = "expire" /\ job'[u].asof = job[u].asof
          /\ job'[u].plan = job[u].plan /\ job'[u].vol = job[u].vol
          /\ job'[u].clean = job[u].clean
          /\ job'[u].doomed = job[u].doomed \ {d}
      BY <2>8, <1>g
      DEF ExpireOne, ExpireAnswerLost, NextDoomed, JobGood, JobType
    <3> QED BY <3>1, <3>2 DEF SamePass, InRetention
  <2>9. ASSUME NEW d \in job[u].doomed, ExpireFails(u, d) PROVE SamePass(u)
    <3>1. /\ job[u].pc = "expire" /\ job'[u].asof = job[u].asof
          /\ job'[u].plan = job[u].plan /\ job'[u].vol = job[u].vol
          /\ job'[u].doomed = job[u].doomed \ {d}
          /\ job'[u].clean => job[u].clean /\ d \notin ontap[job[u].vol]
      BY <2>9, <1>g DEF ExpireFails, NextDoomed, JobGood, JobType
    <3>2. ontap' = ontap
      BY <2>9 DEF ExpireFails, arrayVars
    <3> QED BY <3>1, <3>2 DEF SamePass, InRetention
  <2> QED
    BY <1>3, <2>1, <2>2, <2>3, <2>4, <2>5, <2>6, <2>7, <2>8, <2>9 DEF JobNext
<1>4. ASSUME NEW t \in Threads, JobNext(t), t # u PROVE job'[u] = job[u]
  <2>1. job' = [job EXCEPT ![t] = job'[t]]
    BY <1>4, OwnJobOnly DEF TypeInv
  <2> QED BY <2>1, <1>4, <1>g
<1> QED
  BY <1>1, <1>2, <1>3, <1>4
  DEF Tick, ScanStart, ImportIndex, GcList, GcSweep, ScanSkips, NativeDelete,
      DeleteReads, DeleteOnArray, DeleteFails, DeleteRow, ScanStep,
      DeleteNext, Next, vars

LEMMA ListingGood ==
    ASSUME TypeInv, FiniteArray, UuidsUnique, TakenLast, NEW t \in Threads,
           ListForRetention(t)
    PROVE  ListedGood(t)'
<1> DEFINE p == job[t].plan
           v == job[t].vol
           found == PlanSnaps(p, v)
<1>1. /\ p \in Plans /\ v \in Volumes /\ job \in [Threads -> JobType]
      /\ taken \in Nat /\ job[t] \in JobType
  BY DEF ListForRetention, TypeInv, JobsGood, JobGood, CountersGood
<1>2. ASSUME NEW names, NEW surplus,
             job' = [job EXCEPT ![t].pc = "expire",
                            ![t].listed = names,
                            ![t].doomed = surplus,
                            ![t].asof = taken,
                            ![t].clean = TRUE]
      PROVE  /\ job'[t].plan = job[t].plan /\ job'[t].vol = job[t].vol
             /\ job'[t].asof = taken /\ job'[t].doomed = surplus
  BY <1>1, <1>2 DEF JobType
<1>3. /\ job'[t].plan = p /\ job'[t].vol = v /\ job'[t].asof = taken
      /\ job'[t].doomed = Surplus(found, Retention[p])
  BY <1>2 DEF ListForRetention
<1>4. ontap' = ontap /\ taken' = taken
  BY DEF ListForRetention, arrayVars
<1>5. TakenBy(p, v, taken) = found
  BY <1>1 DEF TakenBy, PlanSnaps, TakenLast, Policy!Kept
<1>6. Cardinality(found \ Surplus(found, Retention[p])) <= Retention[p]
  <2>1. found \in SUBSET Snaps /\ Retention[p] \in Nat
    BY <1>1 DEF PlanSnaps, TypeInv, ArrayGood
  <2>2. IsFiniteSet(found)
    BY <1>1, <1>5, FiniteTakenBy
  <2>3. \A s, x \in found : s.uuid = x.uuid => s = x
    BY <1>1 DEF PlanSnaps, UuidsUnique
  <2> QED BY <2>1, <2>2, <2>3, SurplusLeaves
<1>7. Leaves(t)' = found \ Surplus(found, Retention[p])
  BY <1>3, <1>4, <1>5 DEF Leaves, TakenBy, PlanSnaps
<1> QED BY <1>1, <1>3, <1>4, <1>6, <1>7 DEF ListedGood

LEMMA ListedNext ==
    ASSUME TypeInv, FiniteArray, UuidsUnique, TakenLast, [Next]_vars,
           NEW t \in Threads, ListedGood(t)
    PROVE  ListedGood(t)'
<1>1. CASE ListForRetention(t)
  BY <1>1, ListingGood
<1>2. CASE ~InRetention(t)'
  BY <1>2 DEF ListedGood
<1>3. CASE InRetention(t)' /\ ~ListForRetention(t)
  <2>1. SamePass(t)
    BY <1>3, PassSteps
  <2>2. PICK p \in Plans, v \in Volumes, n \in Nat :
            p = job[t].plan /\ v = job[t].vol /\ n = job[t].asof
    BY <2>1 DEF SamePass, InRetention, TypeInv, JobsGood, JobGood, JobType
  <2>3. n <= taken /\ taken <= taken' /\ taken \in Nat /\ taken' \in Nat
    BY <2>1, <2>2, TakenGrows DEF SamePass, ListedGood
  <2>4. job'[t].asof <= taken'
    BY <2>1, <2>2, <2>3 DEF SamePass
  <2>5. ASSUME job'[t].clean
        PROVE  Cardinality(Leaves(t)') <= Retention[job'[t].plan]
    <3>1. Leaves(t)' \in SUBSET Leaves(t)
      <4>1. TakenBy(p, v, n)' \subseteq TakenBy(p, v, n)
        BY <2>2, <2>3, TakenByShrinks
      <4>2. Leaves(t)' = TakenBy(p, v, n)' \ job'[t].doomed
        BY <2>1, <2>2 DEF SamePass, Leaves, TakenBy, PlanSnaps
      <4>3. \A d \in job[t].doomed \ job'[t].doomed : d \notin TakenBy(p, v, n)'
        BY <2>1, <2>2, <2>5 DEF SamePass, TakenBy, PlanSnaps
      <4> QED BY <2>2, <4>1, <4>2, <4>3 DEF Leaves
    <3>2. Cardinality(Leaves(t)) <= Retention[p]
      BY <2>1, <2>2, <2>5 DEF SamePass, ListedGood
    <3>3. IsFiniteSet(Leaves(t)) /\ Cardinality(Leaves(t)) \in Nat
      BY <2>2, FiniteTakenBy DEF Leaves
    <3>4. /\ Cardinality(Leaves(t)') <= Cardinality(Leaves(t))
          /\ Cardinality(Leaves(t)') \in Nat
      BY <3>1, <3>3, FS_Subset, FS_CardinalityType
    <3>5. Retention[p] \in Nat /\ job'[t].plan = p
      BY <2>1, <2>2 DEF SamePass
    <3> QED BY <3>2, <3>3, <3>4, <3>5
  <2> QED BY <2>4, <2>5 DEF ListedGood
<1> QED BY <1>1, <1>2, <1>3

EndsPass(t, p, v) ==
    /\ job[t].pc = "expire" /\ job[t].clean /\ job[t].doomed = {}
    /\ job[t].plan = p /\ job[t].vol = v
    /\ swept'[p][v] = job[t].asof
    /\ UNCHANGED arrayVars

\* A pass that ends flawless sets the mark to its own listing.
LEMMA SweptStep ==
    ASSUME TypeInv, [Next]_vars, NEW p \in Plans, NEW v \in Volumes,
           swept'[p][v] # swept[p][v]
    PROVE  \E t \in Threads : EndsPass(t, p, v)
<1>1. swept' # swept
  OBVIOUS
<1>2. ASSUME NEW t \in Threads, JobNext(t) PROVE SyncRows(t)
  BY <1>1, <1>2
  DEF StartRun, StartManual, OpenStore, JobFailsEarly, InsertRow, UpdateIndex,
      UpdateIndexFails, CreateOk, CreateAnswerLost, CreateFails, LookupUuid,
      MarkDone, MarkFailed, ListForRetention, ListFails, ExpireOne,
      ExpireAnswerLost, ExpireFails, DropRow, JobNext
<1>3. PICK t \in Threads : SyncRows(t)
  BY <1>1, <1>2
  DEF Tick, ScanStart, ImportIndex, GcList, GcSweep, ScanSkips, NativeDelete,
      DeleteReads, DeleteFails, DeleteRow, Crash, DeleteOnArray, ScanStep,
      DeleteNext, Next, vars
<1>4. /\ job[t].plan \in Plans /\ job[t].vol \in Volumes
      /\ swept \in [Plans -> [Volumes -> Nat]]
  BY <1>3 DEF SyncRows, TypeInv, JobsGood, JobGood, StoreGood
<1>5. /\ job[t].clean
      /\ swept' = [swept EXCEPT ![job[t].plan][job[t].vol] = job[t].asof]
  BY <1>1, <1>3 DEF SyncRows
<1>6. job[t].plan = p /\ job[t].vol = v /\ swept'[p][v] = job[t].asof
  BY <1>4, <1>5
<1> QED BY <1>3, <1>5, <1>6 DEF SyncRows, EndsPass

LEMMA SweptNext ==
    ASSUME TypeInv, FiniteArray, [Next]_vars, ListedBounded,
           NEW p \in Plans, NEW v \in Volumes, SweptGood(p, v)
    PROVE  SweptGood(p, v)'
<1>0. taken <= taken' /\ taken \in Nat /\ taken' \in Nat
  BY TakenGrows
<1>1. CASE swept'[p][v] = swept[p][v]
  <2>1. PICK n \in Nat : n = swept[p][v]
    BY DEF TypeInv, StoreGood
  <2>2. n <= taken /\ Cardinality(TakenBy(p, v, n)) <= Retention[p]
    BY <2>1 DEF SweptGood
  <2>3. TakenBy(p, v, n)' \in SUBSET TakenBy(p, v, n)
    BY <2>2, TakenByShrinks
  <2>4. IsFiniteSet(TakenBy(p, v, n)) /\ Cardinality(TakenBy(p, v, n)) \in Nat
    BY FiniteTakenBy
  <2>5. /\ Cardinality(TakenBy(p, v, n)') <= Cardinality(TakenBy(p, v, n))
        /\ Cardinality(TakenBy(p, v, n)') \in Nat
    BY <2>3, <2>4, FS_Subset, FS_CardinalityType
  <2>6. Cardinality(TakenBy(p, v, n)') <= Retention[p] /\ n <= taken'
    BY <2>2, <2>4, <2>5, <1>0
  <2>7. swept'[p][v] = n
    BY <1>1, <2>1
  <2> QED BY <2>6, <2>7 DEF SweptGood
<1>2. CASE swept'[p][v] # swept[p][v]
  <2>1. PICK t \in Threads : EndsPass(t, p, v)
    BY <1>2, SweptStep
  <2>2. job[t].asof <= taken /\ Cardinality(Leaves(t)) <= Retention[p]
    BY <2>1 DEF EndsPass, ListedBounded, ListedGood,
                  InRetention
  <2>3. TakenBy(p, v, swept[p][v])' = Leaves(t)
    BY <2>1 DEF EndsPass, TakenBy, PlanSnaps, Leaves, arrayVars
  <2>4. taken' = taken
    BY <2>1 DEF EndsPass, arrayVars
  <2> QED BY <2>1, <2>2, <2>3, <2>4 DEF EndsPass, SweptGood
<1> QED BY <1>1, <1>2

LEMMA SweptInvInit == Init => SweptInv
<1> SUFFICES ASSUME Init PROVE SweptInv
  OBVIOUS
<1>1. /\ \A v \in Volumes : Policy!Kept(v) = {} /\ ontap[v] = {}
      /\ \A t \in Threads : job[t].pc = "idle"
  BY IdleGood DEF Init, Policy!Kept
<1>2. ASSUME NEW p \in Plans, NEW v \in Volumes PROVE SweptGood(p, v)
  <2>1. swept[p][v] = 0 /\ taken = 0
    BY DEF Init
  <2>2. TakenBy(p, v, swept[p][v]) = {}
    BY <1>1 DEF TakenBy, PlanSnaps
  <2>3. Cardinality(TakenBy(p, v, swept[p][v])) = 0 /\ Retention[p] \in Nat
    BY <2>2, FS_EmptySet
  <2> QED BY <2>1, <2>3 DEF SweptGood
<1> QED
  BY <1>1, <1>2, FS_EmptySet
  DEF SweptInv, FiniteArray, TakenLast, UuidsUnique, ListedBounded, ListedGood,
      InRetention

LEMMA SweptInvNext == TypeInv /\ SweptInv /\ [Next]_vars => SweptInv'
<1> SUFFICES ASSUME TypeInv, SweptInv, [Next]_vars PROVE SweptInv'
  OBVIOUS
<1>1. FiniteArray' /\ TakenLast' /\ UuidsUnique'
  BY FiniteNext, TakenLastNext, UniqueNext DEF SweptInv
<1>2. ListedBounded'
  BY ListedNext DEF SweptInv, ListedBounded
<1>3. (\A p \in Plans, v \in Volumes : SweptGood(p, v))'
  BY SweptNext DEF SweptInv
<1> QED BY <1>1, <1>2, <1>3 DEF SweptInv

\* What a flawless retention pass has cut down to Retention[p] stays so:
\* for any plans, also when their names overlap.
THEOREM RetentionBounds == Spec => []SweptBounded
<1>1. Init => TypeInv /\ SweptInv
  BY TypeInit, SweptInvInit
<1>2. TypeInv /\ SweptInv /\ [Next]_vars => (TypeInv /\ SweptInv)'
  BY TypeNext, SweptInvNext
<1>3. SweptInv => SweptBounded
  BY DEF SweptInv, SweptGood, SweptBounded, TakenBy
<1> QED BY <1>1, <1>2, <1>3, PTL DEF Spec

=============================================================================
