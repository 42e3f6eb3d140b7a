-------------------------- MODULE DrFailoverProofs --------------------------
(***************************************************************************)
(* Proofs about DrFailover, for all plans, volumes and bounds: the state   *)
(* of a plan tells whether a failover of it is at work (StateTellsRunner), *)
(* mirrors are broken on purpose only (MirrorBrokenOnPurpose), and what a  *)
(* failover that is called done took up serves (SuccessServes).  The last  *)
(* is about one step; that it holds rests on what a failover knows of its  *)
(* entries in between, while other failovers and requests go on: JobGood.  *)
(***************************************************************************)
EXTENDS DrFailover, TLAPS

USE VolumeAssumption, BoundsAssumption

-----------------------------------------------------------------------------
(* The inductive invariant *)

Broken(r) == rel[r] # "mirrored"
Sound(e) == e \in Entry /\ e.rel \in Volumes /\ e.sid \in Sids

\* What a failover will take up names relationships that were given up; what it took
\* up was complete, and is still to do, is being bound, or has its outcome; the
\* relationship of what it binds is broken and what it calls succeeded serves, unless
\* a failed call was passed over or the storage id was another volume's.
JobGood(p) ==
    LET j == job[p] IN
    /\ j.pc = "bind" <=> j.cur # NoVolume
    /\ \A v \in Volumes : Awaited(p, v) /\ entry[p][v] # NoEntry => entry[p][v].rel \in given
    /\ \A v \in j.took : Sound(j.copy[v]) /\ j.copy[v].rel \in given
    /\ j.pc = "list" => j.took = {}
    /\ j.todo \subseteq j.took /\ j.ok \subseteq j.took
    /\ j.pc = "bind" => j.cur \in j.took
    /\ j.took \subseteq j.todo \cup {j.cur} \cup j.ok \cup j.bad
    /\ j.pc = "start" => j.todo = {}
    /\ j.pc = "bind" => Broken(j.copy[j.cur].rel) \/ j.copy[j.cur] \in unsure
    /\ \A v \in j.ok : \/ Serves(j.copy[v])
                        \/ j.copy[v] \in unsure
                        \/ j.copy[v].sid \in contested

StateGood ==
    /\ plan \in [Plans -> PlanStates]
    /\ entry \in [Plans -> [Volumes -> Entry \cup {NoEntry}]]
    /\ rel \in [Volumes -> RelStates]
    /\ row \in [Sids -> Rows]
    /\ storage \in [Sids -> Shown]
    /\ job \in [Plans -> JobType]
    /\ given \in SUBSET (Volumes \cup {NoVolume})
    /\ unsure \in SUBSET Entry
    /\ contested \in SUBSET Sids
    /\ edits \in 0..MaxEdits
    /\ runs \in 0..MaxRuns
    /\ faults \in 0..MaxFaults
    /\ crashes \in 0..MaxCrashes

PlanGood(p) ==
    /\ Runs(p) => plan[p] = "failover_running"
    /\ plan[p] = "failover_running" => Runs(p) \/ crashes > 0

DrInv ==
    /\ StateGood
    /\ \A p \in Plans : JobGood(p)
    /\ \A p \in Plans : PlanGood(p)
    /\ \A r \in Volumes : Broken(r) => r \in given

\* What a step of one failover or request never takes back from the others.
Grows ==
    /\ given \subseteq given'
    /\ unsure \subseteq unsure'
    /\ contested \subseteq contested'
    /\ crashes' = crashes
    /\ \A r \in Volumes : Broken(r) => Broken(r)'
    /\ \A e \in Entry : Sound(e) /\ Serves(e) => Serves(e)' \/ e.sid \in contested'

-----------------------------------------------------------------------------
(* One plan changes *)

LEMMA StateGoodFacts ==
    ASSUME DrInv, NEW p \in Plans
    PROVE  /\ job[p] \in JobType
           /\ JobGood(p)
           /\ PlanGood(p)
           /\ plan[p] \in PlanStates
           /\ entry[p] \in [Volumes -> Entry \cup {NoEntry}]
BY DEF DrInv, StateGood

\* A step that leaves the job, the state and the entries of a plan alone, and takes
\* nothing back, keeps what is known of it.
LEMMA OthersStay ==
    ASSUME DrInv, NEW q \in Plans, Grows,
           job'[q] = job[q], plan'[q] = plan[q], entry'[q] = entry[q]
    PROVE  JobGood(q)' /\ PlanGood(q)'
<1>1. /\ job[q] \in JobType
      /\ JobGood(q) /\ PlanGood(q)
  BY StateGoodFacts
<1>2. job[q].ok \subseteq Volumes /\ job[q].took \subseteq Volumes
  BY <1>1 DEF JobType
<1>3. ASSUME NEW v \in job[q].ok, NEW e \in Entry, e = job[q].copy[v]
      PROVE  Serves(e)' \/ e \in unsure' \/ e.sid \in contested'
  <2>1. Sound(e)
    BY <1>1, <1>3 DEF JobGood
  <2>2. Serves(e) \/ e \in unsure \/ e.sid \in contested
    BY <1>1, <1>3 DEF JobGood
  <2> QED
    BY <2>1, <2>2 DEF Grows
<1>4. ASSUME NEW e \in Entry, e = job[q].copy[job[q].cur], job[q].pc = "bind"
      PROVE  Broken(e.rel)' \/ e \in unsure'
  <2>1. e.rel \in Volumes
    BY <1>1, <1>4 DEF JobGood, Sound
  <2>2. Broken(e.rel) \/ e \in unsure
    BY <1>1, <1>4 DEF JobGood
  <2> QED
    BY <2>1, <2>2 DEF Grows
<1>5. \A v \in Volumes : (Awaited(q, v) /\ entry[q][v] # NoEntry => entry[q][v].rel \in given)'
  BY <1>1 DEF JobGood, Grows, Awaited
<1>6. \A v \in job[q].took : Sound(job[q].copy[v]) /\ job[q].copy[v].rel \in given'
  BY <1>1 DEF JobGood, Grows
<1>7. \A v \in job[q].took : job[q].copy[v] \in Entry
  BY <1>1 DEF JobGood, Sound
<1>8. /\ \A v \in job[q].ok : (\/ Serves(job[q].copy[v])
                              \/ job[q].copy[v] \in unsure
                              \/ job[q].copy[v].sid \in contested)'
      /\ job[q].pc = "bind" => (Broken(job[q].copy[job[q].cur].rel)
                                   \/ job[q].copy[job[q].cur] \in unsure)'
  BY <1>1, <1>3, <1>4, <1>7 DEF JobGood, Serves, Broken
<1>9. JobGood(q)'
  BY <1>1, <1>5, <1>6, <1>8 DEF JobGood, Sound
<1> QED
  BY <1>1, <1>9 DEF PlanGood, Runs, Grows

\* What a failover calls succeeded stays so while nothing is taken back.
LEMMA OkStays ==
    ASSUME DrInv, NEW p \in Plans, Grows, NEW f, f = job[p].copy
    PROVE  \A v \in job[p].ok :
             Serves(f[v])' \/ f[v] \in unsure' \/ f[v].sid \in contested'
<1>1. \A v \in job[p].ok :
         /\ Sound(f[v]) /\ f[v] \in Entry
         /\ Serves(f[v]) \/ f[v] \in unsure \/ f[v].sid \in contested
  BY StateGoodFacts DEF JobGood, Sound
<1> QED
  BY <1>1 DEF Grows

\* So a step that changes one plan keeps the invariant if it keeps it for that one.
LEMMA OnePlanChanges ==
    ASSUME DrInv, NEW p \in Plans,
           StateGood', Grows,
           \A q \in Plans \ {p} :
              job'[q] = job[q] /\ plan'[q] = plan[q] /\ entry'[q] = entry[q],
           JobGood(p)', PlanGood(p)',
           \A r \in Volumes : Broken(r)' => r \in given'
    PROVE  DrInv'
<1>1. ASSUME NEW q \in Plans \ {p}
      PROVE  JobGood(q)' /\ PlanGood(q)'
  BY <1>1, OthersStay
<1> QED
  BY <1>1 DEF DrInv

\* A step that leaves the storage alone takes nothing back.
LEMMA StorageStays ==
    ASSUME UNCHANGED <<storageVars, unsure, contested, crashes>>, given \subseteq given'
    PROVE  Grows
BY DEF storageVars, Grows, Broken, Serves

-----------------------------------------------------------------------------
(* Requests *)

LEMMA CreatePlanKeeps ==
    ASSUME DrInv, NEW p \in Plans, CreatePlan(p)
    PROVE  DrInv'
<1> USE StateGoodFacts DEF CreatePlan, historyVars, boundVars
<1>1. StateGood'
  BY DEF DrInv, StateGood, PlanStates, storageVars
<1>2. Grows
  BY StorageStays
<1>3. \A q \in Plans \ {p} : job'[q] = job[q] /\ plan'[q] = plan[q] /\ entry'[q] = entry[q]
  BY DEF DrInv, StateGood
<1>4. JobGood(p)'
  BY DEF JobGood, Serves, Broken, Sound, Awaited, storageVars
<1>5. PlanGood(p)'
  BY DEF PlanGood, Runs, DrInv, StateGood
<1>6. \A r \in Volumes : Broken(r)' => r \in given'
  BY DEF DrInv, Broken, storageVars
<1> QED
  BY <1>1, <1>2, <1>3, <1>4, <1>5, <1>6, OnePlanChanges

LEMMA DeletePlanKeeps ==
    ASSUME DrInv, NEW p \in Plans, DeletePlan(p)
    PROVE  DrInv'
<1> USE StateGoodFacts DEF DeletePlan, historyVars, boundVars
<1>1. entry' \in [Plans -> [Volumes -> Entry \cup {NoEntry}]]
      /\ \A v \in Volumes : entry'[p][v] = NoEntry
  BY DEF DrInv, StateGood
<1>2. StateGood'
  BY <1>1 DEF DrInv, StateGood, PlanStates, storageVars
<1>3. Grows
  BY StorageStays
<1>4. \A q \in Plans \ {p} : job'[q] = job[q] /\ plan'[q] = plan[q] /\ entry'[q] = entry[q]
  BY DEF DrInv, StateGood
<1>5. JobGood(p)'
  BY <1>1 DEF JobGood, Serves, Broken, Sound, storageVars
<1>6. PlanGood(p)'
  BY DEF PlanGood, Runs, DrInv, StateGood
<1>7. \A r \in Volumes : Broken(r)' => r \in given'
  BY DEF DrInv, Broken, storageVars
<1> QED
  BY <1>2, <1>3, <1>4, <1>5, <1>6, <1>7, OnePlanChanges

\* What is entered for a failover that has not read its entries is given up with it.
LEMMA SetEntriesKeeps ==
    ASSUME DrInv, NEW p \in Plans, NEW new \in [Volumes -> Entry \cup {NoEntry}],
           SetEntries(p, new)
    PROVE  DrInv'
<1> USE StateGoodFacts DEF SetEntries
<1>1. entry' \in [Plans -> [Volumes -> Entry \cup {NoEntry}]] /\ entry'[p] = new
  BY DEF DrInv, StateGood
<1>2. /\ given' \in SUBSET (Volumes \cup {NoVolume}) /\ given \subseteq given'
      /\ \A v \in Volumes : Awaited(p, v) => new[v].rel \in given'
  <2>1. \A v \in Volumes : new[v].rel \in Volumes \cup {NoVolume}
    BY DEF Entry, NoEntry
  <2> QED
    BY <2>1 DEF Meant, DrInv, StateGood
<1>3. StateGood'
  BY <1>1, <1>2 DEF DrInv, StateGood, storageVars, Edit
<1>4. Grows
  BY <1>2, StorageStays DEF Edit
<1>5. \A q \in Plans \ {p} : job'[q] = job[q] /\ plan'[q] = plan[q] /\ entry'[q] = entry[q]
  BY DEF DrInv, StateGood
<1>6. JobGood(p)'
  <2>1. \A v \in Volumes : (Awaited(p, v) /\ entry[p][v] # NoEntry => entry[p][v].rel \in given)'
    BY <1>1, <1>2 DEF Awaited
  <2> QED
    BY <1>2, <2>1 DEF JobGood, Serves, Broken, Sound, storageVars
<1>7. PlanGood(p)'
  BY DEF PlanGood, Runs, Edit
<1>8. \A r \in Volumes : Broken(r)' => r \in given'
  BY <1>2 DEF DrInv, Broken, storageVars
<1> QED
  BY <1>3, <1>4, <1>5, <1>6, <1>7, <1>8, OnePlanChanges

LEMMA EditsKeep ==
    ASSUME DrInv, NEW p \in Plans,
           \/ \E known \in SUBSET Volumes : AutoDetect(p, known)
           \/ \E v \in Volumes, t \in Targets : AddEntry(p, v, t)
           \/ \E v \in Volumes, t \in Targets : UpdateEntry(p, v, t)
    PROVE  DrInv'
<1> DEFINE Table == [Volumes -> Entry \cup {NoEntry}]
<1>1. entry[p] \in Table
  BY StateGoodFacts
<1>2. \A v \in Volumes, e \in Entry : Enriched(v, e) \in Entry
  BY DEF Enriched, Entry
<1>3. \A v \in Volumes, e \in Entry : [entry[p] EXCEPT ![v] = e] \in Table
  BY <1>1
<1>4. ASSUME NEW known \in SUBSET Volumes, AutoDetect(p, known)
      PROVE  \E new \in Table : SetEntries(p, new)
  <2>1. \A v \in Volumes : Detected(v) \in Entry
    BY DEF Detected, Entry
  <2> DEFINE new == [v \in Volumes |-> IF v \in known \ Entries(p) THEN Detected(v)
                                       ELSE entry[p][v]]
  <2>2. new \in Table
    BY <1>1, <2>1
  <2> QED
    BY <1>4, <2>2 DEF AutoDetect
<1>5. ASSUME NEW v \in Volumes, NEW t \in Targets, AddEntry(p, v, t)
      PROVE  \E new \in Table : SetEntries(p, new)
  <2>1. t \in Entry /\ [t EXCEPT !.rel = v] \in Entry
    BY DEF Entry
  <2>2. PICK e \in Entry : SetEntries(p, [entry[p] EXCEPT ![v] = Enriched(v, e)])
    BY <1>5, <2>1 DEF AddEntry
  <2> QED
    BY <1>2, <1>3, <2>2
<1>6. ASSUME NEW v \in Volumes, NEW t \in Targets, UpdateEntry(p, v, t)
      PROVE  \E new \in Table : SetEntries(p, new)
  BY <1>2, <1>3, <1>6 DEF UpdateEntry
<1>7. \E new \in Table : SetEntries(p, new)
  BY <1>4, <1>5, <1>6
<1> QED
  BY <1>7, SetEntriesKeeps

LEMMA DeleteEntryKeeps ==
    ASSUME DrInv, NEW p \in Plans, NEW v \in Volumes, DeleteEntry(p, v)
    PROVE  DrInv'
<1> USE StateGoodFacts DEF DeleteEntry, historyVars
<1> DEFINE j == [job[p] EXCEPT !.ids = @ \ {v}]
<1>1. j \in JobType /\ job' = [job EXCEPT ![p] = j]
  BY DEF JobType
<1>2. job' \in [Plans -> JobType] /\ job'[p] = j
  BY <1>1 DEF DrInv, StateGood
<1>3. /\ entry' \in [Plans -> [Volumes -> Entry \cup {NoEntry}]]
      /\ entry'[p][v] = NoEntry
      /\ \A u \in Volumes \ {v} : entry'[p][u] = entry[p][u]
  BY DEF DrInv, StateGood
<1>4. /\ j.pc = job[p].pc /\ j.all = job[p].all /\ j.ids = job[p].ids \ {v}
      /\ j.todo = job[p].todo /\ j.cur = job[p].cur /\ j.took = job[p].took
      /\ j.ok = job[p].ok /\ j.bad = job[p].bad /\ j.copy = job[p].copy
  BY DEF JobType
<1> HIDE DEF j
<1>5. StateGood'
  BY <1>2, <1>3 DEF DrInv, StateGood, storageVars, Edit
<1>6. Grows
  BY StorageStays DEF Edit
<1>7. \A q \in Plans \ {p} : job'[q] = job[q] /\ plan'[q] = plan[q] /\ entry'[q] = entry[q]
  BY DEF DrInv, StateGood
<1>8. JobGood(p)'
  <2>1. \A u \in Volumes : (Awaited(p, u) /\ entry[p][u] # NoEntry => entry[p][u].rel \in given)'
    BY <1>2, <1>3, <1>4 DEF Awaited, JobGood
  <2> QED
    BY <1>2, <1>4, <2>1 DEF JobGood, Serves, Broken, Sound, storageVars
<1>9. PlanGood(p)'
  BY <1>2, <1>4 DEF PlanGood, Runs, Edit
<1>10. \A r \in Volumes : Broken(r)' => r \in given'
  BY DEF DrInv, Broken, storageVars
<1> QED
  BY <1>5, <1>6, <1>7, <1>8, <1>9, <1>10, OnePlanChanges

LEMMA TeardownKeeps ==
    ASSUME DrInv, NEW v \in Volumes, Teardown(v)
    PROVE  DrInv'
<1> USE DEF Teardown, Edit
<1>1. /\ rel' \in [Volumes -> RelStates]
      /\ \A r \in Volumes : Broken(r) => Broken(r)'
      /\ \A r \in Volumes : Broken(r)' => Broken(r) \/ r = v
  BY DEF DrInv, StateGood, RelStates, Broken
<1>2. StateGood'
  BY <1>1 DEF DrInv, StateGood
<1>3. Grows
  BY <1>1 DEF Grows, Serves, Broken, Sound
<1>4. \A p \in Plans : JobGood(p)' /\ PlanGood(p)'
  BY <1>3, OthersStay
<1>5. \A r \in Volumes : Broken(r)' => r \in given'
  BY <1>1 DEF DrInv
<1> QED
  BY <1>2, <1>4, <1>5 DEF DrInv

-----------------------------------------------------------------------------
(* Failovers *)

\* The record that a step gives to the failover of p, as a whole.
LEMMA NewRecord ==
    ASSUME DrInv, NEW p \in Plans, NEW j \in JobType,
           job' = [job EXCEPT ![p] = j]
    PROVE  /\ job' \in [Plans -> JobType]
           /\ job'[p] = j
           /\ \A q \in Plans \ {p} : job'[q] = job[q]
BY DEF DrInv, StateGood

LEMMA IdleJobGood ==
    /\ IdleJob \in JobType
    /\ IdleJob.pc = "idle" /\ IdleJob.cur = NoVolume /\ IdleJob.todo = {}
    /\ IdleJob.took = {} /\ IdleJob.ok = {} /\ IdleJob.ids = {}
<1>1. [v \in Volumes |-> NoEntry] \in [Volumes -> Entry \cup {NoEntry}]
  OBVIOUS
<1> QED
  BY <1>1 DEF IdleJob, JobType

LEMMA StartFailoverKeeps ==
    ASSUME DrInv, NEW p \in Plans, NEW ids \in SUBSET Volumes,
           StartFailover(p, ids)
    PROVE  DrInv'
<1> USE StateGoodFacts DEF StartFailover
<1> DEFINE j == [IdleJob EXCEPT !.pc = "list", !.all = (ids = {}), !.ids = ids]
<1>1. j \in JobType
  BY IdleJobGood DEF JobType
<1>2. /\ job' \in [Plans -> JobType]
      /\ job'[p] = j
      /\ \A q \in Plans \ {p} : job'[q] = job[q]
  BY <1>1, NewRecord
<1>3. /\ j.pc = "list" /\ j.all = (ids = {}) /\ j.ids = ids /\ j.todo = {}
      /\ j.cur = NoVolume /\ j.took = {} /\ j.ok = {}
  BY DEF IdleJob
<1> HIDE DEF j
<1>4. /\ given' \in SUBSET (Volumes \cup {NoVolume}) /\ given \subseteq given'
      /\ \A v \in Entries(p) : ids = {} \/ v \in ids => entry[p][v].rel \in given'
  <2>1. \A v \in Volumes : entry[p][v].rel \in Volumes \cup {NoVolume}
    BY DEF Entry, NoEntry
  <2> QED
    BY <2>1 DEF DrInv, StateGood, Entries
<1>5. StateGood'
  BY <1>2, <1>4 DEF DrInv, StateGood, PlanStates, storageVars
<1>6. Grows
  BY <1>4, StorageStays
<1>7. \A q \in Plans \ {p} : plan'[q] = plan[q] /\ entry'[q] = entry[q]
  BY DEF DrInv, StateGood
<1>8. JobGood(p)'
  <2>1. \A v \in Volumes : (Awaited(p, v) /\ entry[p][v] # NoEntry => entry[p][v].rel \in given)'
    BY <1>2, <1>3, <1>4 DEF Awaited, Entries
  <2> QED
    BY <1>2, <1>3, <2>1 DEF JobGood
<1>9. PlanGood(p)'
  BY <1>2, <1>3 DEF PlanGood, Runs, DrInv, StateGood
<1>10. \A r \in Volumes : Broken(r)' => r \in given'
  BY <1>4 DEF DrInv, Broken, storageVars
<1> QED
  BY <1>2, <1>5, <1>6, <1>7, <1>8, <1>9, <1>10, OnePlanChanges

\* A step that ends the failover of p.
LEMMA FinishKeeps ==
    ASSUME DrInv, NEW p \in Plans, NEW s \in PlanStates \ {"failover_running"},
           Finish(p, s), Runs(p), faults' \in 0..MaxFaults,
           UNCHANGED <<entry, storageVars, historyVars, edits, runs, crashes>>
    PROVE  DrInv'
<1> USE StateGoodFacts DEF historyVars, Finish
<1>1. /\ job' \in [Plans -> JobType]
      /\ job'[p] = IdleJob
      /\ \A q \in Plans \ {p} : job'[q] = job[q]
  BY IdleJobGood, NewRecord
<1>2. plan' \in [Plans -> PlanStates]
  BY DEF DrInv, StateGood
<1>3. StateGood'
  BY <1>1, <1>2 DEF DrInv, StateGood, storageVars
<1>4. Grows
  BY StorageStays
<1>5. \A q \in Plans \ {p} : plan'[q] = plan[q] /\ entry'[q] = entry[q]
  BY DEF DrInv, StateGood
<1>6. JobGood(p)'
  BY <1>1, IdleJobGood DEF JobGood, Awaited
<1>7. PlanGood(p)'
  BY <1>1, IdleJobGood DEF PlanGood, Runs, Exists, DrInv, StateGood
<1>8. \A r \in Volumes : Broken(r)' => r \in given'
  BY DEF DrInv, Broken, storageVars
<1> QED
  BY <1>1, <1>3, <1>4, <1>5, <1>6, <1>7, <1>8, OnePlanChanges

LEMMA FinishesKeep ==
    ASSUME DrInv, NEW p \in Plans,
           \/ FinishEmpty(p)
           \/ FinishFailed(p)
           \/ FinishPartial(p)
           \/ FinishSuccess(p)
           \/ UnexpectedError(p)
    PROVE  DrInv'
<1>1. faults' \in 0..MaxFaults
  BY DEF DrInv, StateGood, FinishEmpty, FinishFailed, FinishPartial,
         FinishSuccess, UnexpectedError, Fault, boundVars
<1>2. UNCHANGED <<entry, storageVars, historyVars, edits, runs, crashes>> /\ Runs(p)
  BY DEF FinishEmpty, FinishFailed, FinishPartial, FinishSuccess,
         UnexpectedError, Fault, boundVars, Runs, Settled
<1>3. \E s \in PlanStates \ {"failover_running"} : Finish(p, s)
  BY DEF FinishEmpty, FinishFailed, FinishPartial, FinishSuccess,
         UnexpectedError, PlanStates
<1> QED
  BY <1>1, <1>2, <1>3, FinishKeeps

\* A step in the middle of the failover of p, which gives it the record j.
LEMMA MiddleKeeps ==
    ASSUME DrInv, NEW p \in Plans, NEW j \in JobType,
           Runs(p), j.pc \notin {"idle", "list"},
           job' = [job EXCEPT ![p] = j],
           UNCHANGED <<plan, entry, given, edits, runs, crashes>>,
           faults' \in 0..MaxFaults,
           rel' \in [Volumes -> RelStates],
           row' \in [Sids -> Rows],
           storage' \in [Sids -> Shown],
           unsure' \in SUBSET Entry,
           contested' \in SUBSET Sids,
           Grows,
           JobGood(p)',
           \A r \in Volumes : Broken(r)' => Broken(r) \/ r \in given
    PROVE  DrInv'
<1>1. /\ job' \in [Plans -> JobType]
      /\ job'[p] = j
      /\ \A q \in Plans \ {p} : job'[q] = job[q]
  BY NewRecord
<1>2. StateGood'
  BY <1>1 DEF DrInv, StateGood
<1>3. PlanGood(p)'
  BY <1>1, StateGoodFacts DEF PlanGood, Runs
<1>4. \A r \in Volumes : Broken(r)' => r \in given'
  BY DEF DrInv
<1> QED
  BY <1>1, <1>2, <1>3, <1>4, OnePlanChanges

LEMMA ListedType ==
    ASSUME NEW j \in JobType, NEW c \in SUBSET Volumes,
           NEW f \in [Volumes -> Entry \cup {NoEntry}]
    PROVE  [j EXCEPT !.pc = "work", !.ids = {}, !.todo = c, !.took = c, !.copy = f] \in JobType
BY DEF JobType

LEMMA ListEntriesKeeps ==
    ASSUME DrInv, NEW p \in Plans, ListEntries(p)
    PROVE  DrInv'
<1> USE StateGoodFacts DEF ListEntries
<1> DEFINE chosen == {v \in Entries(p) : Awaited(p, v) /\ Complete(entry[p][v])}
           copy == [v \in Volumes |-> IF v \in chosen THEN entry[p][v] ELSE NoEntry]
           j == [job[p] EXCEPT !.pc = "work", !.ids = {},
                               !.todo = chosen, !.took = chosen, !.copy = copy]
<1>1. /\ chosen \in SUBSET Volumes
      /\ copy \in [Volumes -> Entry \cup {NoEntry}]
      /\ \A v \in chosen : copy[v] = entry[p][v]
  BY DEF Entries
<1>2. \A v \in chosen : Sound(copy[v]) /\ copy[v].rel \in given
  <2> SUFFICES ASSUME NEW v \in chosen PROVE Sound(copy[v]) /\ copy[v].rel \in given
    OBVIOUS
  <2>1. copy[v] = entry[p][v] /\ v \in Volumes
    BY <1>1
  <2>2. Awaited(p, v) /\ Complete(entry[p][v]) /\ entry[p][v] \in Entry
        /\ entry[p][v] # NoEntry
    BY <1>1 DEF Entries
  <2>3. entry[p][v].rel \in given
    BY <2>1, <2>2 DEF JobGood
  <2>4. Sound(entry[p][v])
    BY <2>2 DEF Complete, Sound, Entry
  <2> QED
    BY <2>1, <2>3, <2>4
<1>3. j \in JobType
  BY <1>1, ListedType
<1>4. job' = [job EXCEPT ![p] = j]
  OBVIOUS
<1>5. job'[p] = j
  BY <1>3, <1>4, NewRecord
<1>6. /\ j.pc = "work" /\ j.todo = chosen /\ j.took = chosen /\ j.copy = copy
      /\ j.cur = job[p].cur /\ j.ok = job[p].ok
  BY DEF JobType
<1>7. job[p].ok = {} /\ job[p].cur = NoVolume
  BY DEF JobGood
<1> HIDE DEF chosen, copy, j
<1>8. JobGood(p)'
  <2>1. given' = given
    BY DEF historyVars
  <2>2. /\ job'[p].pc = "work" /\ job'[p].todo = chosen /\ job'[p].took = chosen
        /\ job'[p].copy = copy /\ job'[p].cur = NoVolume /\ job'[p].ok = {}
    BY <1>5, <1>6, <1>7
  <2> HIDE DEF ListEntries
  <2> QED
    BY <1>2, <2>1, <2>2 DEF JobGood, Sound, Awaited
<1>9. Runs(p) /\ Grows
  BY StorageStays DEF Runs, historyVars, boundVars
<1> QED
  BY <1>3, <1>4, <1>6, <1>8, <1>9, MiddleKeeps
  DEF DrInv, StateGood, Broken, storageVars, historyVars, boundVars

LEMMA StartVmsKeeps ==
    ASSUME DrInv, NEW p \in Plans, StartVms(p)
    PROVE  DrInv'
<1> USE StateGoodFacts
        DEF StartVms, Settled, storageVars, historyVars, boundVars
<1> DEFINE j == [job[p] EXCEPT !.pc = "start"]
<1>1. j \in JobType /\ job' = [job EXCEPT ![p] = j]
  BY DEF JobType
<1>2. job'[p] = j
  BY <1>1, NewRecord
<1>3. JobGood(p)'
  BY <1>2 DEF JobGood, Serves, Broken, Sound, Awaited, JobType
<1>4. Runs(p) /\ Grows /\ j.pc \notin {"idle", "list"}
  BY StorageStays DEF Runs, JobType
<1> QED
  BY <1>1, <1>3, <1>4, MiddleKeeps DEF DrInv, StateGood, Broken

\* EnsureRow leaves every active row as it is.
LEMMA EnsureRowKeeps ==
    ASSUME DrInv, NEW e \in Entry, Sound(e), EnsureRow(e)
    PROVE  /\ row' \in [Sids -> Rows]
           /\ \A s \in Sids, u \in Volumes :
                 row[s] = RowOf(u, "active") => row'[s] = RowOf(u, "active")
BY DEF EnsureRow, DrInv, StateGood, Sound, Rows, RowOf, NoRow, Shown, Entry

\* The rows stay or are new, relationships are only broken, and the storage stays.
LEMMA RowsGrow ==
    ASSUME DrInv, given \subseteq given', unsure \subseteq unsure',
           UNCHANGED <<storage, contested, crashes>>,
           \A s \in Sids, u \in Volumes :
              row[s] = RowOf(u, "active") => row'[s] = RowOf(u, "active"),
           \A r \in Volumes : Broken(r) => Broken(r)'
    PROVE  Grows
BY DEF Grows, Serves, Sound, Broken, Entry

\* What p knows of the entry it works on.
LEMMA WorkingFacts ==
    ASSUME DrInv, NEW p \in Plans, NEW v \in Volumes,
           Working(p, v) \/ (job[p].pc = "bind" /\ v = job[p].cur)
    PROVE  /\ v \in job[p].took
           /\ Copy(p, v) \in Entry
           /\ Sound(Copy(p, v))
           /\ Copy(p, v).rel \in given
           /\ Copy(p, v).rel \in Volumes
           /\ Runs(p)
BY StateGoodFacts DEF Working, Copy, JobGood, Sound, Runs

\* The records a failover passes through, entry by entry.
LEMMA WorkedTypes ==
    ASSUME NEW j \in JobType, NEW v \in Volumes
    PROVE  /\ [j EXCEPT !.pc = "work", !.cur = NoVolume,
                      !.todo = @ \ {v}, !.bad = @ \cup {v}] \in JobType
           /\ [j EXCEPT !.pc = "bind", !.cur = v, !.todo = @ \ {v}] \in JobType
           /\ [j EXCEPT !.pc = "work", !.cur = NoVolume,
                      !.ok = @ \cup {v}] \in JobType
<1>1. j.todo \ {v} \in SUBSET Volumes /\ j.bad \cup {v} \in SUBSET Volumes
      /\ j.ok \cup {v} \in SUBSET Volumes
  BY DEF JobType
<1>2. [j EXCEPT !.pc = "work", !.cur = NoVolume,
              !.todo = @ \ {v}, !.bad = @ \cup {v}] \in JobType
  BY <1>1 DEF JobType
<1>3. [j EXCEPT !.pc = "bind", !.cur = v, !.todo = @ \ {v}] \in JobType
  BY <1>1 DEF JobType
<1>4. [j EXCEPT !.pc = "work", !.cur = NoVolume, !.ok = @ \cup {v}] \in JobType
  BY <1>1 DEF JobType
<1> QED
  BY <1>2, <1>3, <1>4

\* An entry of p fails, before its relationship was broken or after.
LEMMA EntryFailedKeeps ==
    ASSUME DrInv, NEW p \in Plans, NEW v \in Volumes,
           Working(p, v) \/ (job[p].pc = "bind" /\ v = job[p].cur),
           EntryFailed(p, v),
           UNCHANGED <<plan, entry, storage, historyVars, edits, runs, crashes>>,
           faults' \in 0..MaxFaults,
           row' \in [Sids -> Rows],
           \A s \in Sids, u \in Volumes :
              row[s] = RowOf(u, "active") => row'[s] = RowOf(u, "active"),
           rel' \in [Volumes -> RelStates],
           \A r \in Volumes : Broken(r) => Broken(r)',
           \A r \in Volumes : Broken(r)' => Broken(r) \/ r \in given
    PROVE  DrInv'
<1> USE StateGoodFacts DEF historyVars
<1> DEFINE j == [job[p] EXCEPT !.pc = "work", !.cur = NoVolume,
                               !.todo = @ \ {v}, !.bad = @ \cup {v}]
<1>1. j \in JobType
  BY WorkedTypes
<1>2. job' = [job EXCEPT ![p] = j]
  BY DEF EntryFailed
<1>3. job'[p] = j
  BY <1>1, <1>2, NewRecord
<1>4. /\ j.pc = "work" /\ j.cur = NoVolume /\ j.todo = job[p].todo \ {v}
      /\ j.bad = job[p].bad \cup {v} /\ j.copy = job[p].copy
      /\ j.took = job[p].took /\ j.ok = job[p].ok
  BY DEF JobType
<1> HIDE DEF j
<1>5. j.took \subseteq j.todo \cup {j.cur} \cup j.ok \cup j.bad
  <2>1. job[p].took \subseteq Volumes
    BY DEF JobType
  <2>2. job[p].cur = v \/ job[p].cur = NoVolume
    BY DEF Working, JobGood
  <2> QED
    BY <1>4, <2>1, <2>2 DEF JobGood
<1>6. Runs(p) /\ Grows
  BY WorkingFacts, RowsGrow
<1>7. JobGood(p)'
  BY <1>3, <1>4, <1>5, <1>6, OkStays DEF JobGood, Sound, Awaited
<1> QED
  BY <1>1, <1>2, <1>4, <1>6, <1>7, MiddleKeeps DEF DrInv, StateGood

LEMMA FailuresKeep ==
    ASSUME DrInv, NEW p \in Plans, NEW v \in Volumes,
           \/ LookupFails(p, v)
           \/ BreakFails(p, v)
           \/ BreakRefused(p, v)
    PROVE  DrInv'
<1> USE DEF storageVars, historyVars, boundVars, Fault
<1>1. CASE LookupFails(p, v)
  BY <1>1, EntryFailedKeeps DEF LookupFails, DrInv, StateGood, Broken
<1>2. CASE BreakFails(p, v)
  <2> DEFINE e == Copy(p, v)
  <2>1. /\ e \in Entry /\ Sound(e) /\ e.rel \in given /\ e.rel \in Volumes
        /\ EnsureRow(e)
    BY <1>2, WorkingFacts DEF BreakFails
  <2>2. \E s \in {"mirrored", "broken"} :
           rel[e.rel] = "mirrored" /\ rel' = [rel EXCEPT ![e.rel] = s]
    BY <1>2 DEF BreakFails
  <2> HIDE DEF e
  <2>3. /\ rel' \in [Volumes -> RelStates]
        /\ \A r \in Volumes : Broken(r) => Broken(r)'
        /\ \A r \in Volumes : Broken(r)' => Broken(r) \/ r \in given
    BY <2>1, <2>2 DEF DrInv, StateGood, Broken, RelStates
  <2>4. /\ row' \in [Sids -> Rows]
        /\ \A s \in Sids, u \in Volumes :
              row[s] = RowOf(u, "active") => row'[s] = RowOf(u, "active")
    BY <2>1, EnsureRowKeeps
  <2> QED
    BY <1>2, <2>3, <2>4, EntryFailedKeeps DEF BreakFails, DrInv, StateGood
<1>3. CASE BreakRefused(p, v)
  BY <1>3, WorkingFacts, EntryFailedKeeps, EnsureRowKeeps
  DEF BreakRefused, DrInv, StateGood, Broken
<1> QED
  BY <1>1, <1>2, <1>3

LEMMA BindFailsKeeps ==
    ASSUME DrInv, NEW p \in Plans, BindFails(p)
    PROVE  DrInv'
<1>1. job[p].cur \in Volumes
  BY StateGoodFacts DEF BindFails, JobGood, JobType
<1> QED
  BY <1>1, EntryFailedKeeps
  DEF BindFails, Fault, DrInv, StateGood, Broken, storageVars, historyVars

\* The break for v is over, and p binds its copy next.
LEMMA ToBindKeeps ==
    ASSUME DrInv, NEW p \in Plans, NEW v \in Volumes,
           Working(p, v), ToBind(p, v), EnsureRow(Copy(p, v)),
           UNCHANGED <<plan, entry, storage, given, contested, edits, runs, crashes>>,
           faults' \in 0..MaxFaults,
           rel' \in [Volumes -> RelStates],
           \A r \in Volumes : Broken(r) => Broken(r)',
           \A r \in Volumes : Broken(r)' => Broken(r) \/ r \in given,
           unsure' \in SUBSET Entry, unsure \subseteq unsure',
           \A e \in Entry : e = Copy(p, v) => Broken(e.rel)' \/ e \in unsure'
    PROVE  DrInv'
<1> USE StateGoodFacts
<1> DEFINE j == [job[p] EXCEPT !.pc = "bind", !.cur = v, !.todo = @ \ {v}]
<1>1. j \in JobType
  BY WorkedTypes
<1>2. job' = [job EXCEPT ![p] = j]
  BY DEF ToBind
<1>3. job'[p] = j
  BY <1>1, <1>2, NewRecord
<1>4. /\ j.pc = "bind" /\ j.cur = v /\ j.todo = job[p].todo \ {v}
      /\ j.bad = job[p].bad /\ j.copy = job[p].copy
      /\ j.took = job[p].took /\ j.ok = job[p].ok
  BY DEF JobType
<1> HIDE DEF j
<1>5. j.took \subseteq j.todo \cup {j.cur} \cup j.ok \cup j.bad
  <2>1. job[p].took \subseteq Volumes
    BY DEF JobType
  <2>2. job[p].cur = NoVolume
    BY DEF Working, JobGood
  <2> QED
    BY <1>4, <2>1, <2>2 DEF JobGood
<1>6. /\ row' \in [Sids -> Rows]
      /\ \A s \in Sids, u \in Volumes :
            row[s] = RowOf(u, "active") => row'[s] = RowOf(u, "active")
  BY EnsureRowKeeps, WorkingFacts
<1>7. Runs(p) /\ Grows
  BY <1>6, RowsGrow, WorkingFacts
<1>8. PICK e \in Entry : e = job[p].copy[v] /\ v \in job[p].took
  BY WorkingFacts DEF Copy
<1>9. JobGood(p)'
  <2>1. /\ job'[p].pc = "bind" /\ job'[p].cur = v /\ job'[p].copy[v] = e
    BY <1>3, <1>4, <1>8
  <2>2. Broken(e.rel)' \/ e \in unsure'
    BY <1>8 DEF Copy
  <2>3. (job[p].pc = "bind" => \/ Broken(job[p].copy[job[p].cur].rel)
                               \/ job[p].copy[job[p].cur] \in unsure)'
    BY <2>1, <2>2 DEF Broken
  <2> QED
    BY <1>3, <1>4, <1>5, <1>7, <1>8, <2>3, OkStays DEF JobGood, Sound, Awaited
<1> QED
  BY <1>1, <1>2, <1>4, <1>6, <1>7, <1>9, MiddleKeeps DEF DrInv, StateGood

LEMMA BreaksKeep ==
    ASSUME DrInv, NEW p \in Plans, NEW v \in Volumes,
           Break(p, v) \/ BreakUnconfirmed(p, v)
    PROVE  DrInv'
<1> DEFINE e == Copy(p, v)
<1>1. /\ e \in Entry /\ e.rel \in given /\ e.rel \in Volumes
      /\ Working(p, v) /\ ToBind(p, v) /\ EnsureRow(e)
  BY WorkingFacts DEF Break, BreakUnconfirmed
<1>2. CASE Break(p, v)
  <2>1. rel' = [rel EXCEPT ![e.rel] = "broken"]
    BY <1>2 DEF Break
  <2> HIDE DEF e
  <2>2. /\ rel' \in [Volumes -> RelStates] /\ rel'[e.rel] # "mirrored"
        /\ \A r \in Volumes : Broken(r) => Broken(r)'
        /\ \A r \in Volumes : Broken(r)' => Broken(r) \/ r \in given
    BY <1>1, <2>1 DEF DrInv, StateGood, Broken, RelStates
  <2>3. \A f \in Entry : f = Copy(p, v) => Broken(f.rel)' \/ f \in unsure'
    BY <2>2 DEF Broken, e
  <2>4. /\ UNCHANGED <<plan, entry, storage, given, unsure, contested, edits, runs, crashes>>
        /\ faults' \in 0..MaxFaults /\ unsure \in SUBSET Entry
    BY <1>2 DEF Break, historyVars, boundVars, DrInv, StateGood
  <2> QED
    BY <1>1, <2>2, <2>3, <2>4, ToBindKeeps DEF e
<1>3. CASE BreakUnconfirmed(p, v)
  <2>1. /\ UNCHANGED <<plan, entry, rel, storage, given, contested, edits, runs, crashes>>
        /\ faults' \in 0..MaxFaults /\ unsure' = unsure \cup {e}
        /\ unsure \in SUBSET Entry /\ rel \in [Volumes -> RelStates]
    BY <1>3 DEF BreakUnconfirmed, Fault, DrInv, StateGood
  <2> HIDE DEF e
  <2> QED
    BY <1>1, <2>1, ToBindKeeps DEF Broken, e
<1> QED
  BY <1>2, <1>3

LEMMA BoundRow ==
    ASSUME NEW r \in Rows, NEW v \in Volumes
    PROVE  LET n == [r EXCEPT !.status = "active", !.name = v]
           IN  n \in Rows /\ n.status = "active" /\ n.name = v /\ n.home = r.home
BY DEF Rows, Shown

LEMMA BindsKeep ==
    ASSUME DrInv, NEW p \in Plans, Bind(p) \/ BindUnmounted(p)
    PROVE  DrInv'
<1> USE StateGoodFacts
<1>0. PICK v \in Volumes : v = job[p].cur /\ job[p].pc = "bind"
  BY DEF Bind, BindUnmounted, Bound, JobGood, JobType
<1>1. PICK e \in Entry : e = Copy(p, v)
  BY <1>0, WorkingFacts
<1>2. /\ v \in job[p].took /\ e = job[p].copy[v] /\ Sound(e) /\ Runs(p)
      /\ Broken(e.rel) \/ e \in unsure
      /\ e.vol \in Volumes /\ e.sid \in Sids
  BY <1>0, <1>1, WorkingFacts DEF Copy, JobGood, Sound, Entry
<1>3. Bound(p, e)
  BY <1>0, <1>1 DEF Bind, BindUnmounted
<1> DEFINE j == [job[p] EXCEPT !.pc = "work", !.cur = NoVolume,
                               !.ok = @ \cup {v}]
<1>4. j \in JobType
  BY WorkedTypes
<1>5. job' = [job EXCEPT ![p] = j]
  BY <1>0, <1>3 DEF Bound
<1>6. job'[p] = j
  BY <1>4, <1>5, NewRecord
<1>7. /\ j.pc = "work" /\ j.cur = NoVolume /\ j.todo = job[p].todo
      /\ j.bad = job[p].bad /\ j.copy = job[p].copy
      /\ j.took = job[p].took /\ j.ok = job[p].ok \cup {v}
  BY DEF JobType
<1> HIDE DEF j
<1>8. /\ row \in [Sids -> Rows] /\ storage \in [Sids -> Shown]
      /\ contested \in SUBSET Sids /\ unsure \in SUBSET Entry
      /\ rel \in [Volumes -> RelStates]
  BY DEF DrInv, StateGood
<1>9. /\ row' \in [Sids -> Rows]
      /\ row'[e.sid].status = "active" /\ row'[e.sid].name = e.vol
      /\ row'[e.sid].home = row[e.sid].home
      /\ \A s \in Sids \ {e.sid} : row'[s] = row[s]
  <2> DEFINE n == [row[e.sid] EXCEPT !.status = "active", !.name = e.vol]
  <2>1. n \in Rows /\ n.status = "active" /\ n.name = e.vol /\ n.home = row[e.sid].home
    BY <1>2, <1>8, BoundRow
  <2>2. row' = [row EXCEPT ![e.sid] = n]
    BY <1>3 DEF Bound
  <2> HIDE DEF n
  <2> QED
    BY <1>2, <1>8, <2>1, <2>2
<1>10. /\ storage' \in [Sids -> Shown]
       /\ \A s \in Sids \ {e.sid} : storage'[s] = storage[s]
       /\ storage'[e.sid] \in {storage[e.sid], e.vol}
       /\ storage[e.sid] # NoVolume => storage'[e.sid] = storage[e.sid]
       /\ storage[e.sid] = NoVolume => storage'[e.sid] = e.vol \/ e \in unsure'
  BY <1>0, <1>1, <1>2, <1>8 DEF Bind, BindUnmounted, Shown
<1>11. /\ UNCHANGED <<plan, entry, rel, given, edits, runs, crashes>>
       /\ faults' \in 0..MaxFaults
       /\ unsure' \in SUBSET Entry /\ unsure \subseteq unsure'
  BY <1>0, <1>1, <1>8 DEF Bind, BindUnmounted, Bound, Fault, boundVars, DrInv, StateGood
<1>12. /\ contested' \in SUBSET Sids /\ contested \subseteq contested'
       /\ \/ storage[e.sid] \in {NoVolume, e.vol} /\ row[e.sid].home = e.vol
          \/ e.sid \in contested'
  BY <1>2, <1>3, <1>8 DEF Bound
<1>13. Grows
  <2>1. ASSUME NEW f \in Entry, Sound(f), Serves(f), f.sid \notin contested'
        PROVE  Serves(f)'
    <3>1. f.sid \in Sids /\ f.vol \in Volumes /\ row[f.sid] = RowOf(f.vol, "active")
          /\ storage[f.sid] = f.vol /\ rel[f.rel] # "mirrored"
      BY <2>1 DEF Sound, Serves, Entry
    <3>2. CASE f.sid # e.sid
      BY <1>9, <1>10, <1>11, <3>1, <3>2 DEF Serves
    <3>3. CASE f.sid = e.sid
      <4>1. e.vol = f.vol
        BY <1>12, <2>1, <3>1, <3>3
      <4>2. row'[f.sid] = row[f.sid]
        <5>1. row'[f.sid] \in Rows /\ row[f.sid] \in Rows
          BY <1>8, <1>9, <3>1
        <5> QED
          BY <1>9, <3>1, <3>3, <4>1, <5>1 DEF Rows, RowOf
      <4> QED
        BY <1>10, <1>11, <3>1, <3>3, <4>2 DEF Serves
    <3> QED
      BY <3>2, <3>3
  <2> QED
    BY <1>11, <1>12, <2>1 DEF Grows, Broken
<1>14. Serves(e)' \/ e \in unsure' \/ e.sid \in contested'
  <2> SUFFICES ASSUME e \notin unsure', e.sid \notin contested' PROVE Serves(e)'
    OBVIOUS
  <2>1. rel'[e.rel] # "mirrored"
    BY <1>2, <1>11 DEF Broken
  <2>2. storage'[e.sid] = e.vol
    BY <1>10, <1>12
  <2>3. row'[e.sid] = RowOf(e.vol, "active")
    <3>1. row'[e.sid] \in Rows
      BY <1>2, <1>9
    <3> QED
      BY <1>9, <1>12, <3>1 DEF Rows, RowOf
  <2> QED
    BY <2>1, <2>2, <2>3 DEF Serves
<1>15. JobGood(p)'
  <2>1. \A u \in j.ok : (\/ Serves(job[p].copy[u])
                         \/ job[p].copy[u] \in unsure
                         \/ job[p].copy[u].sid \in contested)'
    <3>1. \A u \in job[p].ok : (\/ Serves(job[p].copy[u])
                                \/ job[p].copy[u] \in unsure
                                \/ job[p].copy[u].sid \in contested)'
      BY <1>6, <1>7, <1>13, OkStays DEF Serves
    <3>2. (\/ Serves(job[p].copy[v])
           \/ job[p].copy[v] \in unsure
           \/ job[p].copy[v].sid \in contested)'
      BY <1>2, <1>6, <1>7, <1>14 DEF Serves
    <3> QED
      BY <1>7, <3>1, <3>2
  <2>2. j.took \subseteq j.todo \cup {j.cur} \cup j.ok \cup j.bad
    BY <1>0, <1>7 DEF JobGood
  <2> QED
    BY <1>2, <1>6, <1>7, <1>11, <2>1, <2>2 DEF JobGood, Sound, Awaited
<1> QED
  BY <1>2, <1>4, <1>5, <1>7, <1>9, <1>10, <1>11, <1>12, <1>13, <1>15, MiddleKeeps
  DEF DrInv, StateGood, Broken

-----------------------------------------------------------------------------
(* Boot and the whole *)

LEMMA RestartKeeps ==
    ASSUME DrInv, Restart
    PROVE  DrInv'
<1> USE DEF Restart, historyVars
<1>1. \A p \in Plans : job'[p] = IdleJob
  OBVIOUS
<1>2. crashes' \in 0..MaxCrashes /\ crashes' > 0
  BY DEF DrInv, StateGood
<1>3. plan' \in [Plans -> PlanStates]
  BY DEF DrInv, StateGood, LiveState, PlanStates
<1>4. StateGood'
  BY <1>2, <1>3, IdleJobGood DEF DrInv, StateGood, storageVars
<1>5. \A p \in Plans : JobGood(p)'
  BY <1>1, IdleJobGood DEF JobGood, Awaited
<1>6. \A p \in Plans : PlanGood(p)'
  BY <1>1, <1>2, IdleJobGood DEF PlanGood, Runs
<1> QED
  BY <1>4, <1>5, <1>6 DEF DrInv, Broken, storageVars

LEMMA InitGood == Init => DrInv
<1> SUFFICES ASSUME Init PROVE DrInv
  OBVIOUS
<1>1. StateGood
  BY IdleJobGood DEF Init, StateGood, PlanStates, RelStates, Rows, RowOf, NoRow, Shown
<1>2. \A p \in Plans : JobGood(p) /\ PlanGood(p)
  BY IdleJobGood DEF Init, JobGood, PlanGood, Runs, Awaited
<1> QED
  BY <1>1, <1>2 DEF DrInv, Init, Broken

LEMMA StepsKeep == DrInv /\ [Next]_vars => DrInv'
<1> SUFFICES ASSUME DrInv, [Next]_vars PROVE DrInv'
  OBVIOUS
<1>1. ASSUME NEW p \in Plans, Requests(p) PROVE DrInv'
  BY <1>1, CreatePlanKeeps, DeletePlanKeeps, EditsKeep, DeleteEntryKeeps,
     StartFailoverKeeps DEF Requests
<1>2. ASSUME NEW p \in Plans, EntryStep(p) PROVE DrInv'
  BY <1>2, FailuresKeep, BreaksKeep, BindsKeep, BindFailsKeeps DEF EntryStep
<1>3. ASSUME NEW p \in Plans, FailoverStep(p) PROVE DrInv'
  BY <1>2, <1>3, FinishesKeep, ListEntriesKeeps, StartVmsKeeps
  DEF FailoverStep
<1>4. ASSUME NEW v \in Volumes, Teardown(v) PROVE DrInv'
  BY <1>4, TeardownKeeps
<1>5. CASE UNCHANGED vars
  <2>1. StateGood'
    BY <1>5 DEF DrInv, StateGood, vars
  <2>2. \A p \in Plans : JobGood(p)' /\ PlanGood(p)'
    BY <1>5 DEF DrInv, JobGood, PlanGood, Runs, Serves, Broken, Sound, Awaited, vars
  <2> QED
    BY <1>5, <2>1, <2>2 DEF DrInv, Broken, vars
<1> QED
  BY <1>1, <1>3, <1>4, <1>5, RestartKeeps DEF Next

\* The invariant of all plans (api/dr.py): what a failover knows of its entries stays
\* true while requests and other failovers go on.
THEOREM DrInvHolds == Spec => []DrInv
BY InitGood, StepsKeep, PTL DEF Spec

-----------------------------------------------------------------------------

\* Every variable keeps its type (api/dr.py).
THEOREM DrTypeCorrect == Spec => []TypeOK
<1>1. DrInv => TypeOK
  BY DEF DrInv, StateGood, JobGood, TypeOK
<1> QED
  BY <1>1, DrInvHolds, PTL

\* A plan is running while a failover of it is at work, and else only after a
\* crash: start and delete may rely on the state (dr.py:278-290, 771).
THEOREM StateTellsTruth == Spec => []StateTellsRunner
<1>1. DrInv => StateTellsRunner
  BY DEF DrInv, PlanGood, StateTellsRunner
<1> QED
  BY <1>1, DrInvHolds, PTL

\* A mirror is only broken if somebody ended its replication or chose an entry that named
\* it, whatever is edited, retargeted or detected while a failover runs (dr.py:857-919).
THEOREM MirrorsSafe == Spec => []MirrorBrokenOnPurpose
<1>1. DrInv => MirrorBrokenOnPurpose
  BY DEF DrInv, Broken, MirrorBrokenOnPurpose
<1> QED
  BY <1>1, DrInvHolds, PTL

-----------------------------------------------------------------------------
(* Success *)

\* Only FinishSuccess calls a plan failed over.
LEMMA OnlySuccess ==
    ASSUME DrInv, [Next]_vars, NEW p \in Plans,
           plan[p] = "failover_running", plan'[p] = "failed_over"
    PROVE  FinishSuccess(p)
<1> plan \in [Plans -> PlanStates]
  BY DEF DrInv, StateGood
<1>1. ~ UNCHANGED plan
  OBVIOUS
<1>2. ASSUME NEW q \in Plans, Requests(q) PROVE FALSE
  BY <1>1, <1>2 DEF Requests, CreatePlan, DeletePlan, AutoDetect, AddEntry,
                    UpdateEntry, SetEntries, DeleteEntry, StartFailover
<1>3. ASSUME NEW q \in Plans, FailoverStep(q) PROVE FinishSuccess(p)
  <2>1. ~ EntryStep(q) /\ ~ ListEntries(q) /\ ~ StartVms(q)
    BY <1>1 DEF EntryStep, ListEntries, StartVms, LookupFails, Break,
         BreakUnconfirmed, BreakFails, BreakRefused, Bind, BindUnmounted,
         Bound, BindFails
  <2>2. ~ FinishEmpty(q) /\ ~ FinishFailed(q) /\ ~ FinishPartial(q)
        /\ ~ UnexpectedError(q)
    BY DEF FinishEmpty, FinishFailed, FinishPartial, UnexpectedError, Finish
  <2>3. FinishSuccess(q)
    BY <1>3, <2>1, <2>2 DEF FailoverStep
  <2>4. q = p
    BY <2>3 DEF FinishSuccess, Finish
  <2> QED
    BY <2>3, <2>4
<1>4. ASSUME NEW v \in Volumes, Teardown(v) PROVE FALSE
  BY <1>1, <1>4 DEF Teardown
<1>5. ~ Restart
  BY DEF Restart, LiveState
<1> QED
  BY <1>1, <1>2, <1>3, <1>4, <1>5 DEF Next, vars

\* When a failover is called done, every entry it took up has been carried out as it was
\* read, unless a failed call about it was passed over or its storage id was another
\* volume's (dr.py:875-925, 1002-1004).
THEOREM DoneServes == Spec => SuccessServes
<1>1. ASSUME DrInv, [Next]_vars, NEW p \in Plans,
             plan[p] = "failover_running", plan'[p] = "failed_over",
             NEW v \in job[p].took,
             Copy(p, v) \notin unsure /\ Copy(p, v).sid \notin contested
      PROVE  Serves(Copy(p, v))
  <2>1. job[p].pc = "start" /\ job[p].bad = {}
    BY <1>1, OnlySuccess DEF FinishSuccess
  <2>2. JobGood(p) /\ job[p] \in JobType
    BY <1>1, StateGoodFacts
  <2>3. job[p].took \subseteq job[p].ok
    BY <2>1, <2>2 DEF JobGood, JobType
  <2> QED
    BY <1>1, <2>2, <2>3 DEF JobGood, Copy
<1> DEFINE A == \A p \in Plans :
         plan[p] = "failover_running" /\ plan'[p] = "failed_over" =>
           \A v \in job[p].took :
             Copy(p, v) \notin unsure /\ Copy(p, v).sid \notin contested
               => Serves(Copy(p, v))
<1>2. DrInv /\ [Next]_vars => [A]_vars
  BY <1>1
<1> QED
  BY <1>2, DrInvHolds, PTL DEF Spec, SuccessServes
=============================================================================
