-------------------------- MODULE ProvisioningProofs --------------------------
(***************************************************************************)
(* Proofs about Provisioning, for all datastores, protocols, ids, hosts,   *)
(* threads and bounds, on a cluster and off it.                            *)
(*                                                                         *)
(* The invariant ProvisioningInv says of every datastore that no two jobs  *)
(* on it overlapped what its hosts see, what its row names of that, and    *)
(* which hosts a removal will visit.  It holds because a job knows things  *)
(* from its earlier steps (Knows): a creation that it alone made the       *)
(* objects, the later jobs that the row is still the one they read, a      *)
(* removal what it has come past; the policy that a removal finds through  *)
(* the volume goes before the volume.  Overlapping jobs know nothing, and  *)
(* what is marred may be left over; the properties except both.            *)
(*                                                                         *)
(* 1. DatastoresTypeCorrect  the types.                                    *)
(* 2. HostsDependOnRecorded  TouchedMeansRecorded.                         *)
(* 3. ActiveMountsOwn        MountsOwn.                                    *)
(* 4. OthersLeftAlone        LeavesOthersAlone, a property of steps.       *)
(* 5. RemovalLeavesNothing   RemovalIsComplete, a property of steps.       *)
(*                                                                         *)
(* The records of jobs get names of their own (q before a step, r after    *)
(* it), since the provers do not look under the prime of JobGood(job[j]).  *)
(***************************************************************************)
EXTENDS Provisioning, TLAPS

USE ProvisioningAssumption

-----------------------------------------------------------------------------
(* The programs *)

Kinds == {"create", "remove", "join", "leave"}
Proto == {"nfs", "iscsi", "nvme"}

\* Both protocols with LUNs or namespaces have the same programs.
Length(kind, p) ==
    CASE kind = "create" -> IF p = "nfs" THEN 6 ELSE 9
      [] kind = "remove" -> IF p = "nfs" THEN 5 ELSE 7
      [] kind = "join"   -> IF p = "nfs" THEN 4 ELSE 5
      [] kind = "leave"  -> 3

ObjectsOf(p) ==
    IF p = "nfs" THEN {"policy", "volume"} ELSE {"volume", "lun", "group", "map"}

\* A creation whose answer is lost can leave a policy that no volume uses.
MayExist(p) == ObjectsOf(p) \union (IF p = "nfs" THEN {"stray"} ELSE {})

\* The step of a removal at which an object goes.
RemovedAt(p, o) ==
    IF p = "nfs" THEN IF o = "policy" THEN 3 ELSE 4
    ELSE CASE o = "map" -> 3 [] o = "lun" -> 4 [] o = "volume" -> 5 [] OTHER -> 6

PersistAt(p) == IF p = "nfs" THEN 3 ELSE 5
RegisterAt(kind, p) ==
    IF kind = "create" THEN PersistAt(p) + (IF p = "nfs" THEN 1 ELSE 2)
    ELSE IF p = "nfs" THEN 2 ELSE 3

\* Where a step is in a program.
Places(kind, p, n, s) ==
    /\ s = "persist" => kind = "create" /\ n = PersistAt(p)
    /\ s = "attach" => p # "nfs" /\ n = (IF kind = "create" THEN 6 ELSE 2)
    /\ s = "register" => n = RegisterAt(kind, p)
    /\ s = "active" => kind = "create" /\ n = RegisterAt(kind, p) + 1
    /\ s = "mappings" =>
         n = IF kind = "create" THEN Length(kind, p) ELSE Length(kind, p) - 1
    /\ s = "read" => n = 1
    /\ s = "detach" => n = 2 /\ Length(kind, p) > 2
    /\ s \in {"record", "delete"} => n = Length(kind, p)
    /\ s \in Objects => s \in ObjectsOf(p)
    /\ s \in Objects /\ kind = "create" => n < PersistAt(p)
    /\ s \in Objects /\ kind = "remove" =>
         n = RemovedAt(p, s) /\ n < Length(kind, p) /\ n > 2
    /\ kind = "remove" /\ s = "delete" =>
         \A o \in ObjectsOf(p) : RemovedAt(p, o) < n /\ n > 2

LEMMA CreateTable ==
    ASSUME NEW p \in Proto, NEW n \in 1 .. Length("create", p)
    PROVE  Places("create", p, n, Programs["create"][p][n])
<1>1. CASE p = "nfs"
  BY <1>1 DEF Length, Places, Programs, NfsCreate, PersistAt, RegisterAt, Objects,
              ObjectsOf, RemovedAt
<1>2. CASE p = "iscsi"
  BY <1>2 DEF Length, Places, Programs, IscsiCreate, PersistAt, RegisterAt, Objects,
              ObjectsOf, RemovedAt
<1>3. CASE p = "nvme"
  BY <1>3 DEF Length, Places, Programs, NvmeCreate, PersistAt, RegisterAt, Objects,
              ObjectsOf, RemovedAt
<1>4. QED
  BY <1>1, <1>2, <1>3 DEF Proto

LEMMA RemoveTable ==
    ASSUME NEW p \in Proto, NEW n \in 1 .. Length("remove", p)
    PROVE  Places("remove", p, n, Programs["remove"][p][n])
<1>1. CASE p = "nfs"
  BY <1>1 DEF Length, Places, Programs, NfsRemove, PersistAt, RegisterAt, Objects,
              ObjectsOf, RemovedAt
<1>2. CASE p = "iscsi"
  BY <1>2 DEF Length, Places, Programs, IscsiRemove, PersistAt, RegisterAt, Objects,
              ObjectsOf, RemovedAt
<1>3. CASE p = "nvme"
  BY <1>3 DEF Length, Places, Programs, NvmeRemove, PersistAt, RegisterAt, Objects,
              ObjectsOf, RemovedAt
<1>4. QED
  BY <1>1, <1>2, <1>3 DEF Proto

LEMMA HostTable ==
    ASSUME NEW kind \in {"join", "leave"}, NEW p \in Proto, NEW n \in 1 .. Length(kind, p)
    PROVE  Places(kind, p, n, Programs[kind][p][n])
<1>1. CASE kind = "leave"
  BY <1>1 DEF Length, Places, Programs, Leave, PersistAt, RegisterAt, Objects,
              ObjectsOf, RemovedAt, Proto
<1>2. CASE kind = "join"
  BY <1>2 DEF Length, Places, Programs, NfsJoin, IscsiJoin, NvmeJoin, PersistAt,
              RegisterAt, Objects, ObjectsOf, RemovedAt, Proto
<1>3. QED
  BY <1>1, <1>2

-----------------------------------------------------------------------------
(* The inductive invariant *)

RowType == [status : {"none", "provisioning", "active", "removing", "error"},
            ids : SUBSET Objects, hosts : SUBSET Hosts]

\* TypeOK, with the types of the rows folded.
Types ==
    /\ row \in [Datastores -> RowType]
    /\ proto \in Protocols
    /\ id \in [Datastores -> Ids \union {None}]
    /\ ontap \in [Datastores -> SUBSET Objects]
    /\ session \in [Hosts -> SUBSET (Datastores \union {IscsiTarget})]
    /\ cfg \in [Hosts -> [Ids -> Datastores \union {None}]]
    /\ mapping \in [Hosts -> [Ids -> Datastores \union {None}]]
    /\ job \in [Jobs -> JobType]
    /\ overlapped \subseteq Datastores /\ marred \subseteq Ids
    /\ started \in 0 .. MaxJobs /\ faults \in 0 .. MaxFaults

\* A job is in its program and works on a datastore that has an id.
JobGood(r) ==
    /\ r.kind = "idle" <=> r.ds = None
    /\ r.kind # "idle" => id[r.ds] # None /\ r.pc <= Length(r.kind, proto[r.ds])
    /\ r.todo \subseteq r.hosts
    /\ r.kind = "create" => r.made \subseteq ObjectsOf(proto[r.ds])
    /\ r.kind # "create" => r.made = {}

San(d) == proto[d] # "nfs"

Untouched(d) == \A h \in Hosts : d \notin session[h] /\ cfg[h][id[d]] # d

\* Host h has nothing of d any more; on a cluster that goes for all entries.
DetachedAt(d, h) ==
    /\ d \notin session[h]
    /\ \A k \in Hosts : k = h \/ Clustered => cfg[k][id[d]] # d

\* A host that joins may have an entry already that the row does not tell of.
Registers(r) == r.kind = "join" /\ r.pc >= RegisterAt("join", proto[r.ds])

\* What a creation relies on, ...
CreateKnows(r) ==
    r.kind = "create" =>
        /\ r.hosts \subseteq row[r.ds].hosts
        /\ ~(r.pc > PersistAt(proto[r.ds])) =>
             row[r.ds].ids = {} /\ r.made \subseteq ontap[r.ds]
        /\ San(r.ds) =>
             IF r.pc > PersistAt(proto[r.ds]) THEN ontap[r.ds] \subseteq row[r.ds].ids
             ELSE Untouched(r.ds) /\ ontap[r.ds] \subseteq r.made

\* ... and the jobs that have read the row.
ReadKnows(r) ==
    /\ r.kind \in {"remove", "join", "leave"} /\ r.pc > 1 =>
         /\ r.read.ids = row[r.ds].ids /\ r.read.hosts = row[r.ds].hosts
         /\ r.kind = "remove" => r.hosts = r.read.hosts
    /\ San(r.ds) /\ Registers(r) => row[r.ds].ids # {}

\* What a job that takes things away has come past is gone, unless marred.
RemovalKnows(r) ==
    id[r.ds] \notin marred =>
        /\ r.kind \in {"remove", "leave"} /\ r.pc = 2 =>
             \A h \in r.hosts \ r.todo : DetachedAt(r.ds, h)
        /\ r.kind \in {"remove", "leave"} /\ r.pc > 2 =>
             \A h \in r.hosts : DetachedAt(r.ds, h)
        /\ r.kind = "remove" =>
             \A o \in ObjectsOf(proto[r.ds]) :
                 r.pc > RemovedAt(proto[r.ds], o) /\ (r.delete \/ o = "map")
                   /\ o \in Found(r.read) => o \notin ontap[r.ds]

Knows(r) ==
    r.kind # "idle" /\ r.ds \notin overlapped =>
        CreateKnows(r) /\ ReadKnows(r) /\ RemovalKnows(r)

\* Without overlap a datastore with a job has a row, and no other job.
Alone(d) ==
    d \notin overlapped =>
        /\ \A j \in Jobs : job[j].ds = d => HasRow(d)
        /\ \A j, k \in Jobs : job[j].ds = d /\ job[k].ds = d => j = k

ObjectsGood(d) ==
    /\ ontap[d] \subseteq MayExist(proto[d])
    /\ row[d].ids \subseteq ObjectsOf(proto[d]) \ {"policy"}
    /\ id[d] = None => ~HasRow(d) /\ ontap[d] = {}
    /\ d \in overlapped => id[d] \in marred
    \* the volume through which the policy is found goes after it
    /\ id[d] \notin marred /\ "volume" \in row[d].ids /\ "policy" \in ontap[d] =>
         "volume" \in ontap[d]

\* The hosts that have something of d, and what a removal will find of it.
HostsGood(d) ==
    /\ \A h \in Hosts : d \in session[h] => proto[d] = "nvme" /\ id[d] # None
    /\ \A h \in Hosts, i \in Ids :
         cfg[h][i] = d => id[d] = i /\ (i \notin marred => HasRow(d))

Recorded(d) ==
    San(d) /\ HasRow(d) /\ d \notin overlapped =>
        \/ ontap[d] \subseteq row[d].ids
        \/ row[d].ids = {} /\ Untouched(d)

Serves(d, h) ==
    \/ h \in row[d].hosts
    \/ \E j \in Jobs : job[j].ds = d /\ Registers(job[j]) /\ h \in job[j].hosts

Listed(d) ==
    id[d] \notin marred /\ HasRow(d) =>
        \A k \in Hosts : cfg[k][id[d]] = d =>
            \E h \in Hosts : Serves(d, h) /\ (h = k \/ Clustered)

DatastoreGood(d) ==
    Alone(d) /\ ObjectsGood(d) /\ HostsGood(d) /\ Recorded(d) /\ Listed(d)

IdsOwned ==
    \A d, e \in Datastores : HasRow(d) /\ HasRow(e) /\ id[d] = id[e] => d = e

JobsGood == \A j \in Jobs : \A r \in {job[j]} : JobGood(r) /\ Knows(r)

ProvisioningInv ==
    /\ Types
    /\ JobsGood
    /\ \A d \in Datastores : DatastoreGood(d)
    /\ IdsOwned

LEMMA TypesFold == TypeOK <=> Types
BY DEF TypeOK, Types, RowType

LEMMA InitGood == Init => ProvisioningInv
<1> SUFFICES ASSUME Init PROVE ProvisioningInv
  OBVIOUS
<1>1. IdleJob \in JobType /\ NoRow \in RowType
  BY DEF IdleJob, JobType, NoRow, RowType
<1>2. Types
  BY <1>1 DEF Init, Types
<1>3. ASSUME NEW j \in Jobs PROVE JobGood(job[j]) /\ Knows(job[j])
  BY DEF Init, IdleJob, JobGood, Knows
<1>4. ASSUME NEW d \in Datastores PROVE DatastoreGood(d)
  BY DEF Init, IdleJob, DatastoreGood, Alone, ObjectsGood, HostsGood, Recorded,
         Listed, HasRow, NoRow
<1>5. IdsOwned
  BY DEF Init, IdsOwned, HasRow, NoRow
<1>6. QED
  BY <1>2, <1>3, <1>4, <1>5 DEF ProvisioningInv, JobsGood

-----------------------------------------------------------------------------
(* The step a job is at *)

LEMMA AtPlace ==
    ASSUME Types, NEW j \in Jobs, JobGood(job[j]), NEW kinds \in SUBSET Kinds,
           NEW step, At(j, kinds, step)
    PROVE  /\ job[j].kind \in kinds
           /\ job[j].ds \in Datastores /\ id[job[j].ds] \in Ids
           /\ proto[job[j].ds] \in Proto
           /\ job[j].pc \in 1 .. Length(job[j].kind, proto[job[j].ds])
           /\ Places(job[j].kind, proto[job[j].ds], job[j].pc, step)
<1>1. job[j].kind \in kinds /\ job[j].kind \in Kinds
  BY DEF At
<1>2. /\ job[j].ds \in Datastores \union {None} /\ job[j].ds # None
      /\ job[j].pc \in 1 .. 9
      /\ job[j].pc <= Length(job[j].kind, proto[job[j].ds])
  BY <1>1 DEF Types, JobType, JobGood, Kinds
<1>3. proto[job[j].ds] \in Proto /\ id[job[j].ds] \in Ids
  BY <1>1, <1>2 DEF Types, Proto, JobGood, Kinds
<1>4. Programs[job[j].kind][proto[job[j].ds]][job[j].pc] = step
  BY DEF At
<1>5. Length(job[j].kind, proto[job[j].ds]) \in Nat
  BY <1>1, <1>3 DEF Length, Kinds
<1>6. QED
  BY <1>1, <1>2, <1>3, <1>4, <1>5, CreateTable, RemoveTable, HostTable DEF Kinds

\* What a step makes of the job.
Goes(j, pc, hosts, todo, made, read) ==
    /\ job' \in [Jobs -> JobType]
    /\ \A k \in Jobs \ {j} : job'[k] = job[k]
    /\ job'[j].kind = job[j].kind /\ job'[j].ds = job[j].ds
    /\ job'[j].delete = job[j].delete
    /\ job'[j].pc = pc /\ job'[j].hosts = hosts /\ job'[j].todo = todo
    /\ job'[j].made = made /\ job'[j].read = read

Ends(j) ==
    /\ job' \in [Jobs -> JobType]
    /\ \A k \in Jobs \ {j} : job'[k] = job[k]
    /\ job'[j] = IdleJob

LEMMA JobMoves ==
    ASSUME Types, NEW j \in Jobs, NEW pc \in 1 .. 9, NEW hosts \in SUBSET Hosts,
           NEW todo \in SUBSET Hosts, NEW made \in SUBSET Objects, NEW read \in RowType,
           job' = [job EXCEPT ![j] = [job[j] EXCEPT !.pc = pc, !.hosts = hosts,
                                         !.todo = todo, !.made = made, !.read = read]]
    PROVE  Goes(j, pc, hosts, todo, made, read)
<1> DEFINE r == [job[j] EXCEPT !.pc = pc, !.hosts = hosts, !.todo = todo,
                               !.made = made, !.read = read]
<1>1. job[j] \in JobType
  BY DEF Types
<1>2. /\ r \in JobType
      /\ r.kind = job[j].kind /\ r.ds = job[j].ds /\ r.delete = job[j].delete
      /\ r.pc = pc /\ r.hosts = hosts /\ r.todo = todo
      /\ r.made = made /\ r.read = read
  BY <1>1 DEF JobType, RowType
<1>3. job' = [job EXCEPT ![j] = r]
  OBVIOUS
<1> HIDE DEF r
<1>4. QED
  BY <1>2, <1>3 DEF Goes, Types

LEMMA JobFields ==
    ASSUME Types, NEW j \in Jobs
    PROVE  /\ job[j].pc \in 1 .. 9 /\ job[j].hosts \in SUBSET Hosts
           /\ job[j].todo \in SUBSET Hosts /\ job[j].made \in SUBSET Objects
           /\ job[j].read \in RowType
           /\ job[j] = [kind |-> job[j].kind, ds |-> job[j].ds, pc |-> job[j].pc,
                        hosts |-> job[j].hosts, todo |-> job[j].todo,
                        made |-> job[j].made, read |-> job[j].read,
                        delete |-> job[j].delete, alone |-> job[j].alone]
BY DEF Types, JobType, RowType

LEMMA StepMoves ==
    ASSUME Types, NEW j \in Jobs, job[j].pc + 1 \in 1 .. 9, Step(j)
    PROVE  Goes(j, job[j].pc + 1, job[j].hosts, job[j].hosts, job[j].made, job[j].read)
<1> DEFINE r == [job[j] EXCEPT !.pc = job[j].pc + 1, !.todo = job[j].hosts]
           q == [job[j] EXCEPT !.pc = job[j].pc + 1, !.hosts = job[j].hosts,
                       !.todo = job[j].hosts, !.made = job[j].made, !.read = job[j].read]
<1>1. r = q
  BY JobFields
<1>2. job' = [job EXCEPT ![j] = r]
  BY DEF Step
<1>3. QED
  BY <1>1, <1>2, JobFields, JobMoves

LEMMA DoneMoves ==
    ASSUME Types, NEW j \in Jobs, job[j].pc + 1 \in 1 .. 9, NEW h \in Hosts, Done(j, h)
    PROVE  \/ /\ job[j].todo \subseteq {h}
              /\ Goes(j, job[j].pc + 1, job[j].hosts, job[j].hosts, job[j].made,
                      job[j].read)
           \/ Goes(j, job[j].pc, job[j].hosts, job[j].todo \ {h}, job[j].made,
                   job[j].read)
<1> DEFINE r == [job[j] EXCEPT !.todo = job[j].todo \ {h}]
           q == [job[j] EXCEPT !.pc = job[j].pc, !.hosts = job[j].hosts,
                       !.todo = job[j].todo \ {h}, !.made = job[j].made,
                       !.read = job[j].read]
<1>1. CASE job[j].todo \subseteq {h}
  BY <1>1, StepMoves DEF Done
<1>2. CASE ~(job[j].todo \subseteq {h})
  <2>1. r = q
    BY JobFields
  <2>2. job' = [job EXCEPT ![j] = r]
    BY <1>2 DEF Done
  <2>3. job[j].todo \ {h} \in SUBSET Hosts
    BY JobFields
  <2>4. QED
    BY <2>1, <2>2, <2>3, JobFields, JobMoves
<1>3. QED
  BY <1>1, <1>2

LEMMA EndMoves ==
    ASSUME Types, NEW j \in Jobs, End(j)
    PROVE  Ends(j)
<1>1. IdleJob \in JobType
  BY DEF IdleJob, JobType, NoRow
<1>2. QED
  BY <1>1 DEF End, Ends, Types

\* At most the status of the row of d changes.
RowKept(d) ==
    /\ row' \in [Datastores -> RowType]
    /\ \A e \in Datastores \ {d} : row'[e] = row[e]
    /\ row'[d].ids = row[d].ids /\ row'[d].hosts = row[d].hosts
    /\ HasRow(d)' <=> HasRow(d)

LEMMA StatusSet ==
    ASSUME Types, NEW d \in Datastores, NEW status \in {"active", "removing", "error"},
           SetStatus(d, status)
    PROVE  RowKept(d)
<1> DEFINE r == [row[d] EXCEPT !.status = status]
<1>1. row[d] \in RowType
  BY DEF Types
<1>2. /\ r \in RowType /\ r.status = status
      /\ r.ids = row[d].ids /\ r.hosts = row[d].hosts
  BY <1>1 DEF RowType
<1>3. row' = IF HasRow(d) THEN [row EXCEPT ![d] = r] ELSE row
  BY DEF SetStatus
<1> HIDE DEF r
<1>4. QED
  BY <1>2, <1>3 DEF Types, HasRow, RowKept

-----------------------------------------------------------------------------
(* A step of a job *)

\* A job on d touches the hosts' entries of d alone, and at most removes others.
Apart(j, d) ==
    /\ UNCHANGED <<proto, id, overlapped>> /\ marred \subseteq marred'
    /\ \A k \in Jobs \ {j} : job'[k] = job[k]
    /\ \A e \in Datastores \ {d} :
         /\ row'[e] = row[e] /\ ontap'[e] = ontap[e]
         /\ \A h \in Hosts : e \in session'[h] => e \in session[h]
         /\ \A h \in Hosts, i \in Ids : cfg'[h][i] = e => cfg[h][i] = e

LEMMA OthersKept ==
    ASSUME ProvisioningInv, NEW j \in Jobs, NEW d \in Datastores, job[j].ds = d,
           Apart(j, d), job'[j].ds \in {d, None},
           NEW e \in Datastores \ {d}
    PROVE  DatastoreGood(e)'
<1> USE DEF Apart
<1>1. DatastoreGood(e) /\ id[e] \in Ids \union {None}
  BY DEF ProvisioningInv, Types
<1>2. \A k \in Jobs : job'[k].ds = e => job'[k] = job[k]
  OBVIOUS
<1>3. \A k \in Jobs : job[k].ds = e => job'[k] = job[k]
  OBVIOUS
<1>4. Alone(e)'
  BY <1>1, <1>2 DEF DatastoreGood, Alone, HasRow
<1>5. ObjectsGood(e)' /\ HostsGood(e)'
  BY <1>1 DEF DatastoreGood, ObjectsGood, HostsGood, HasRow
<1>6. Recorded(e)'
  BY <1>1 DEF DatastoreGood, ObjectsGood, Recorded, HasRow, San, Untouched
<1>7. Listed(e)'
  <2>1. \A h \in Hosts : Serves(e, h) => Serves(e, h)'
    BY <1>3 DEF Serves, Registers
  <2>2. QED
    BY <1>1, <2>1 DEF DatastoreGood, ObjectsGood, Listed, HasRow
<1>8. QED
  BY <1>4, <1>5, <1>6, <1>7 DEF DatastoreGood

LEMMA OtherJobsKept ==
    ASSUME ProvisioningInv, NEW j \in Jobs, NEW d \in Datastores, job[j].ds = d,
           Apart(j, d), NEW k \in Jobs \ {j}, NEW r, r = job[k]
    PROVE  JobGood(r)' /\ Knows(r)'
<1> USE DEF Apart
<1>1. JobGood(r) /\ Knows(r)
  BY DEF ProvisioningInv, JobsGood
<1>2. JobGood(r)'
  BY <1>1 DEF JobGood
<1>3. CASE r.ds = d
  <2>1. d \in overlapped
    BY <1>3 DEF ProvisioningInv, DatastoreGood, Alone
  <2>2. QED
    BY <1>2, <1>3, <2>1 DEF Knows
<1>4. CASE r.kind = "idle"
  BY <1>2, <1>4 DEF Knows
<1>5. CASE r.ds # d /\ r.kind # "idle"
  <2>1. PICK e \in Datastores \ {d} : r.ds = e /\ id[e] \in Ids
    BY <1>1, <1>5 DEF ProvisioningInv, Types, JobType, JobGood
  <2>2. CreateKnows(r) => CreateKnows(r)'
    BY <2>1 DEF CreateKnows, San, Untouched
  <2>3. ReadKnows(r) => ReadKnows(r)'
    BY <2>1 DEF ReadKnows, San, Registers
  <2>4. \A h \in Hosts : DetachedAt(e, h) => DetachedAt(e, h)'
    BY <2>1 DEF DetachedAt
  <2>5. r.hosts \subseteq Hosts
    BY DEF ProvisioningInv, Types, JobType
  <2>6. RemovalKnows(r) => RemovalKnows(r)'
    BY <2>1, <2>4, <2>5 DEF RemovalKnows
  <2>7. QED
    BY <1>1, <1>2, <2>1, <2>2, <2>3, <2>6 DEF Knows
<1>6. QED
  BY <1>2, <1>3, <1>4, <1>5

LEMMA JobStepKeeps ==
    ASSUME ProvisioningInv, NEW j \in Jobs, NEW d \in Datastores, job[j].ds = d,
           Apart(j, d), Types', HasRow(d)' => HasRow(d),
           NEW r, r = job'[j], r.ds \in {d, None},
           r.ds = d /\ d \notin overlapped => HasRow(d)',
           JobGood(r)', Knows(r)',
           ObjectsGood(d)', HostsGood(d)', Recorded(d)', Listed(d)'
    PROVE  ProvisioningInv'
<1>1. Alone(d)'
  BY DEF ProvisioningInv, DatastoreGood, Alone, Apart
<1>2. ASSUME NEW e \in Datastores PROVE DatastoreGood(e)'
  BY <1>1, OthersKept DEF DatastoreGood
<1>3. ASSUME NEW k \in Jobs, NEW q, q = job'[k] PROVE JobGood(q)' /\ Knows(q)'
  <2>1. CASE k = j
    BY <1>3, <2>1
  <2>2. CASE k # j
    <3>1. q = job[k]
      BY <1>3, <2>2 DEF Apart
    <3>2. QED
      BY <2>2, <3>1, OtherJobsKept
  <2>3. QED
    BY <2>1, <2>2
<1>4. JobsGood'
  BY <1>3 DEF JobsGood
<1>5. IdsOwned'
  BY DEF ProvisioningInv, IdsOwned, Apart, HasRow
<1>6. QED
  BY <1>2, <1>4, <1>5 DEF ProvisioningInv

-----------------------------------------------------------------------------
LEMMA AtStep ==
    ASSUME ProvisioningInv, NEW j \in Jobs, NEW kinds \in SUBSET Kinds,
           NEW step, At(j, kinds, step)
    PROVE  \E d \in Datastores, q \in JobType, p \in Proto :
              /\ q = job[j] /\ q.ds = d /\ q.kind \in kinds /\ JobGood(q)
              /\ id[d] \in Ids /\ proto[d] = p
              /\ q.pc \in 1 .. Length(q.kind, p) /\ Places(q.kind, p, q.pc, step)
              /\ d \notin overlapped =>
                   /\ HasRow(d) /\ \A k \in Jobs : job[k].ds = d => k = j
                   /\ CreateKnows(q) /\ ReadKnows(q) /\ RemovalKnows(q)
<1> DEFINE q == job[j]
           d == job[j].ds
<1>1. Types /\ JobGood(q) /\ Knows(q)
  BY DEF ProvisioningInv, JobsGood
<1>2. /\ d \in Datastores /\ q \in JobType /\ proto[d] \in Proto
      /\ q.kind \in kinds /\ id[d] \in Ids
      /\ q.pc \in 1 .. Length(q.kind, proto[d])
      /\ Places(q.kind, proto[d], q.pc, step)
  BY <1>1, AtPlace DEF Types
<1>3. d \notin overlapped => HasRow(d) /\ \A k \in Jobs : job[k].ds = d => k = j
  BY <1>2 DEF ProvisioningInv, DatastoreGood, Alone
<1>4. d \notin overlapped => CreateKnows(q) /\ ReadKnows(q) /\ RemovalKnows(q)
  BY <1>1, <1>2 DEF Knows, Kinds
<1>5. QED
  BY <1>1, <1>2, <1>3, <1>4

LEMMA NotLast ==
    ASSUME NEW kind \in Kinds, NEW p \in Proto, NEW n \in 1 .. Length(kind, p),
           NEW step \in Objects \union {"persist", "attach", "register", "active",
                                        "mappings", "read", "detach"},
           step = "mappings" => kind = "join", step \in Objects => kind \in {"create", "remove"},
           step = "register" => kind \in {"create", "join"},
           step = "attach" => kind \in {"create", "join"},
           Places(kind, p, n, step)
    PROVE  n + 1 <= Length(kind, p) /\ n + 1 \in 1 .. 9
<1>1. Length(kind, p) \in 1 .. 9
  BY DEF Length, Kinds
<1>2. n + 1 <= Length(kind, p)
  <2>1. CASE step \in Objects
    BY <2>1, <1>1 DEF Places, Length, PersistAt
  <2>2. CASE step \notin Objects
    BY <2>2, <1>1 DEF Places, Length, PersistAt, RegisterAt, Kinds
  <2>3. QED
    BY <2>1, <2>2
<1>3. QED
  BY <1>1, <1>2

LEMMA Stages ==
    ASSUME NEW p \in Proto
    PROVE  /\ PersistAt(p) \in {3, 5}
           /\ \A o \in Objects : RemovedAt(p, o) \in 3 .. 6
           /\ RegisterAt("create", p) > PersistAt(p) /\ RegisterAt("create", p) < 9
           /\ RegisterAt("join", p) = (IF p = "nfs" THEN 2 ELSE 3)
           /\ RegisterAt("create", p) \in Nat
BY DEF PersistAt, RemovedAt, RegisterAt, Objects, Proto

LEMMA IdleGood ==
    ASSUME NEW r, r = IdleJob
    PROVE  JobGood(r)' /\ Knows(r)' /\ r.ds = None
BY DEF IdleJob, JobGood, Knows

LEMMA FaultTyped == Types /\ Fault => faults' \in 0 .. MaxFaults
BY DEF Types, Fault

\* A step that changes no host, and on ONTAP at most d.
LEMMA HostsStayKeeps ==
    ASSUME ProvisioningInv, NEW j \in Jobs, NEW d \in Datastores, Types',
           UNCHANGED <<names, session, cfg>>, marred \subseteq marred',
           \A k \in Jobs \ {j} : job'[k] = job[k],
           \A e \in Datastores \ {d} : ontap'[e] = ontap[e],
           ObjectsGood(d)', Recorded(d)', RowKept(d),
           NEW q, q = job[j], q.ds = d,
           NEW r, r = job'[j], r.ds \in {d, None},
           Registers(q) /\ HasRow(d) =>
               r.ds = d /\ Registers(r) /\ q.hosts \subseteq r.hosts,
           JobGood(r)', Knows(r)'
    PROVE  ProvisioningInv'
<1> USE DEF names, RowKept
<1>1. DatastoreGood(d) /\ id[d] \in Ids \union {None}
  BY DEF ProvisioningInv, Types
<1>2. Apart(j, d)
  BY DEF Apart
<1>3. HostsGood(d)'
  BY <1>1 DEF DatastoreGood, HostsGood
<1>4. HasRow(d) => \A h \in Hosts : Serves(d, h) => Serves(d, h)'
  BY DEF Serves, Registers
<1>5. Listed(d)'
  BY <1>1, <1>4 DEF DatastoreGood, Listed
<1>6. r.ds = d /\ d \notin overlapped => HasRow(d)'
  BY <1>1 DEF DatastoreGood, Alone
<1>7. QED
  BY <1>2, <1>3, <1>5, <1>6, JobStepKeeps

LEMMA QuietStepKeeps ==
    ASSUME ProvisioningInv, NEW j \in Jobs, NEW d \in Datastores, Types',
           UNCHANGED <<names, outside>>, marred \subseteq marred',
           \A k \in Jobs \ {j} : job'[k] = job[k], RowKept(d),
           NEW q, q = job[j], q.ds = d,
           NEW r, r = job'[j], r.ds \in {d, None},
           Registers(q) /\ HasRow(d) =>
               r.ds = d /\ Registers(r) /\ q.hosts \subseteq r.hosts,
           JobGood(r)', Knows(r)'
    PROVE  ProvisioningInv'
<1>1. DatastoreGood(d)
  BY DEF ProvisioningInv
<1>2. Recorded(d)'
  BY <1>1 DEF DatastoreGood, Recorded, San, Untouched, RowKept, names, outside
<1>3. ObjectsGood(d)'
  BY <1>1 DEF DatastoreGood, ObjectsGood, RowKept, names, outside
<1>4. /\ UNCHANGED <<names, session, cfg>>
      /\ \A e \in Datastores \ {d} : ontap'[e] = ontap[e]
  BY DEF outside
<1>5. QED
  BY <1>2, <1>3, <1>4, HostsStayKeeps

LEMMA RowStays ==
    ASSUME Types, UNCHANGED row, NEW d \in Datastores
    PROVE  RowKept(d)
BY DEF Types, RowKept, HasRow

\* A thread that ends and was not about to tell of a host that has an entry.
LEMMA EndsQuietly ==
    ASSUME ProvisioningInv, NEW j \in Jobs, NEW d \in Datastores,
           NEW q, q = job[j], q.ds = d, HasRow(d) => ~Registers(q),
           End(j), RowKept(d), faults' \in 0 .. MaxFaults,
           mapping' \in [Hosts -> [Ids -> Datastores \union {None}]],
           UNCHANGED <<names, outside, marred, started>>
    PROVE  ProvisioningInv'
<1> USE DEF names, outside
<1>1. Types
  BY DEF ProvisioningInv
<1>2. Ends(j)
  BY <1>1, EndMoves
<1>3. Types'
  BY <1>1, <1>2 DEF Types, Ends, RowKept
<1>4. PICK r : r = job'[j]
  OBVIOUS
<1>5. JobGood(r)' /\ Knows(r)' /\ r.ds = None
  BY <1>2, <1>4, IdleGood DEF Ends
<1>6. \A k \in Jobs \ {j} : job'[k] = job[k]
  BY <1>2 DEF Ends
<1>7. QED
  BY <1>3, <1>4, <1>5, <1>6, QuietStepKeeps

LEMMA RaisesKeeps ==
    ASSUME ProvisioningInv, NEW j \in Jobs, NEW d \in Datastores, job[j].ds = d,
           job[j].kind # "join", faults' \in 0 .. MaxFaults,
           NEW status \in {"active", "removing", "error"},
           End(j), SetStatus(d, status),
           UNCHANGED <<names, outside, mapping, marred, started>>
    PROVE  ProvisioningInv'
<1>1. RowKept(d)
  BY StatusSet DEF ProvisioningInv
<1>2. PICK q : q = job[j]
  OBVIOUS
<1>3. ~Registers(q) /\ mapping' \in [Hosts -> [Ids -> Datastores \union {None}]]
  BY <1>2 DEF Registers, ProvisioningInv, Types
<1>4. QED
  BY <1>1, <1>2, <1>3, EndsQuietly

LEMMA RemoveRaisesKeeps ==
    ASSUME ProvisioningInv, NEW j \in Jobs, RemoveRaises(j)
    PROVE  ProvisioningInv'
<1>1. At(j, {"remove"}, "detach") /\ Fault /\ End(j) /\ SetStatus(job[j].ds, "error")
  BY DEF RemoveRaises, Raises
<1>2. PICK d \in Datastores : job[j].ds = d /\ job[j].kind = "remove"
  BY <1>1, AtStep DEF Kinds
<1>3. faults' \in 0 .. MaxFaults
  BY <1>1, FaultTyped DEF ProvisioningInv
<1>4. SetStatus(d, "error")
  BY <1>1, <1>2
<1>5. UNCHANGED <<names, outside, mapping, marred, started>>
  BY DEF RemoveRaises
<1>6. QED
  BY <1>1, <1>2, <1>3, <1>4, <1>5, RaisesKeeps

\* A thread that goes on with what it knows: it is enough to look at its record.
LEMMA GoesQuietly ==
    ASSUME ProvisioningInv, NEW j \in Jobs, NEW d \in Datastores, NEW q \in JobType,
           q = job[j], q.ds = d, q.kind # "idle", JobGood(q),
           NEW pc, pc <= Length(q.kind, proto[d]), q.pc <= pc,
           NEW hosts, NEW todo, todo \subseteq hosts,
           Registers(q) => q.hosts \subseteq hosts,
           NEW read,
           Goes(j, pc, hosts, todo, q.made, read),
           RowKept(d), UNCHANGED <<names, outside>>,
           mapping' \in [Hosts -> [Ids -> Datastores \union {None}]],
           marred \subseteq marred', marred' \subseteq Ids,
           started' \in 0 .. MaxJobs, faults' \in 0 .. MaxFaults,
           d \notin overlapped =>
             \A r : r = job'[j] => CreateKnows(r)' /\ ReadKnows(r)' /\ RemovalKnows(r)'
    PROVE  ProvisioningInv'
<1> USE DEF names, outside
<1>1. Types
  BY DEF ProvisioningInv
<1>2. Types'
  BY <1>1 DEF Types, Goes, RowKept
<1>3. PICK r : r = job'[j]
  OBVIOUS
<1>4. /\ r.kind = q.kind /\ r.ds = d /\ r.pc = pc /\ r.made = q.made
      /\ r.hosts = hosts /\ r.todo = todo
      /\ \A k \in Jobs \ {j} : job'[k] = job[k]
  BY <1>3 DEF Goes
<1>5. JobGood(r)'
  BY <1>4 DEF JobGood
<1>6. Knows(r)'
  BY <1>3, <1>4 DEF Knows
<1>7. Registers(q) => Registers(r)
  <2>1. q.kind = "join" => RegisterAt("join", proto[d]) \in Nat
    BY DEF RegisterAt
  <2>2. pc \in 1 .. 9 /\ q.pc \in 1 .. 9
    BY <1>1, <1>2, <1>3, <1>4 DEF Types, JobType
  <2>3. QED
    BY <1>4, <2>1, <2>2 DEF Registers
<1>8. QED
  BY <1>2, <1>3, <1>4, <1>5, <1>6, <1>7, QuietStepKeeps

LEMMA SkipHostKeeps ==
    ASSUME ProvisioningInv, NEW j \in Jobs, SkipHost(j)
    PROVE  ProvisioningInv'
<1>1. Types /\ At(j, {"create"}, "group") /\ Fault
  BY DEF ProvisioningInv, SkipHost
<1>2. PICK d \in Datastores, q \in JobType, p \in Proto :
        /\ q = job[j] /\ q.ds = d /\ q.kind = "create" /\ JobGood(q)
        /\ id[d] \in Ids /\ proto[d] = p /\ q.pc \in 1 .. Length(q.kind, p)
        /\ d \notin overlapped => CreateKnows(q) /\ ReadKnows(q) /\ RemovalKnows(q)
  BY <1>1, AtStep DEF Kinds
<1>3. PICK h \in Hosts :
        job' = [job EXCEPT ![j].hosts = @ \ {h}, ![j].todo = @ \ {h}]
  BY <1>1, JobFields DEF SkipHost
<1>4. Goes(j, q.pc, q.hosts \ {h}, q.todo \ {h}, q.made, q.read)
  <2>1. [job[j] EXCEPT !.hosts = @ \ {h}, !.todo = @ \ {h}]
          = [job[j] EXCEPT !.pc = q.pc, !.hosts = q.hosts \ {h}, !.todo = q.todo \ {h},
                           !.made = q.made, !.read = q.read]
    BY <1>1, <1>2, JobFields
  <2>2. job' = [job EXCEPT ![j] = [job[j] EXCEPT !.hosts = @ \ {h}, !.todo = @ \ {h}]]
    BY <1>3
  <2>3. q.hosts \ {h} \in SUBSET Hosts /\ q.todo \ {h} \in SUBSET Hosts
    BY <1>1, <1>2, JobFields
  <2>4. QED
    BY <1>1, <1>2, <2>1, <2>2, <2>3, JobFields, JobMoves
<1>5. /\ UNCHANGED <<row, names, outside, mapping, marred, started>>
      /\ faults' \in 0 .. MaxFaults
  BY <1>1, FaultTyped DEF SkipHost
<1>6. ASSUME d \notin overlapped, NEW r, r = job'[j]
      PROVE  CreateKnows(r)' /\ ReadKnows(r)' /\ RemovalKnows(r)'
  <2>1. /\ r.kind = "create" /\ r.ds = d /\ r.pc = q.pc /\ r.hosts = q.hosts \ {h}
        /\ r.made = q.made
    BY <1>2, <1>4, <1>6 DEF Goes
  <2>2. CreateKnows(r)'
    BY <1>2, <1>5, <1>6, <2>1 DEF CreateKnows, San, Untouched, names, outside
  <2>3. ReadKnows(r)' /\ RemovalKnows(r)'
    BY <2>1 DEF ReadKnows, RemovalKnows, Registers
  <2>4. QED
    BY <2>2, <2>3
<1>7. q.todo \ {h} \subseteq q.hosts \ {h} /\ ~Registers(q)
  BY <1>2 DEF JobGood, Registers
<1>8. q.pc <= Length(q.kind, proto[d]) /\ q.pc <= q.pc
  BY <1>2 DEF JobType, Length
<1>9. QED
  BY <1>1, <1>2, <1>4, <1>5, <1>6, <1>7, <1>8, RowStays, GoesQuietly DEF Types

\* One step further, or to the next host.
Moves(j, q) ==
    \E pc \in {q.pc, q.pc + 1}, todo \in SUBSET q.hosts :
       /\ Goes(j, pc, q.hosts, todo, q.made, q.read)
       /\ pc = q.pc => \E h \in q.todo : todo = q.todo \ {h}
       /\ pc = q.pc + 1 => Step(j) \/ \E h \in q.todo : q.todo \subseteq {h}

LEMMA Moved ==
    ASSUME Types, NEW j \in Jobs, NEW q \in JobType, q = job[j], JobGood(q),
           q.pc + 1 \in 1 .. 9,
           Step(j) \/ \E h \in job[j].todo : Done(j, h)
    PROVE  Moves(j, q)
<1> USE DEF Moves
<1>1. CASE Step(j)
  <2>1. Goes(j, q.pc + 1, q.hosts, q.hosts, q.made, q.read)
    BY <1>1, StepMoves
  <2>2. q.pc # q.pc + 1
    BY JobFields
  <2>3. QED
    BY <1>1, <2>1, <2>2
<1>2. CASE \E h \in job[j].todo : Done(j, h)
  <2>1. PICK h \in q.todo : Done(j, h)
    BY <1>2
  <2>2. h \in Hosts /\ q.todo \ {h} \in SUBSET q.hosts
    BY <2>1, JobFields DEF JobGood
  <2>3. q.pc # q.pc + 1
    BY JobFields
  <2>4. CASE q.todo \subseteq {h} /\ Step(j)
    BY <1>1, <2>4
  <2>5. CASE ~(q.todo \subseteq {h})
    <3>1. Goes(j, q.pc, q.hosts, q.todo \ {h}, q.made, q.read)
      BY <2>1, <2>2, <2>5, DoneMoves
    <3>2. QED
      BY <2>1, <2>2, <2>3, <3>1
  <2>6. QED
    BY <2>1, <2>4, <2>5 DEF Done
<1>3. QED
  BY <1>1, <1>2

\* So go creations and joins once the row is written or read, ...
LEMMA AheadKeeps ==
    ASSUME ProvisioningInv, NEW j \in Jobs, NEW kinds \in SUBSET {"create", "join"},
           NEW step \in {"register", "active", "mappings"}, At(j, kinds, step),
           step = "mappings" => kinds = {"join"},
           Step(j) \/ \E h \in job[j].todo : Done(j, h),
           UNCHANGED <<names, outside, marred, started>>,
           UNCHANGED row \/ (step = "active" /\ SetStatus(job[j].ds, "active")),
           mapping' \in [Hosts -> [Ids -> Datastores \union {None}]],
           faults' \in 0 .. MaxFaults
    PROVE  ProvisioningInv'
<1>1. Types /\ kinds \in SUBSET Kinds
  BY DEF ProvisioningInv, Kinds
<1>2. PICK d \in Datastores, q \in JobType, p \in Proto :
        /\ q = job[j] /\ q.ds = d /\ q.kind \in kinds /\ JobGood(q)
        /\ id[d] \in Ids /\ proto[d] = p /\ q.pc \in 1 .. Length(q.kind, p)
        /\ Places(q.kind, p, q.pc, step)
        /\ d \notin overlapped => CreateKnows(q) /\ ReadKnows(q)
  BY <1>1, AtStep
<1>3. q.pc + 1 <= Length(q.kind, p) /\ q.pc + 1 \in 1 .. 9
  <2>1. /\ q.kind \in Kinds /\ q.kind \in {"create", "join"} /\ step \notin Objects
        /\ step = "mappings" => q.kind = "join"
    BY <1>1, <1>2 DEF Objects
  <2>2. QED
    BY <1>2, <2>1, NotLast
<1>4. PICK pc \in {q.pc, q.pc + 1}, todo \in SUBSET q.hosts :
        Goes(j, pc, q.hosts, todo, q.made, q.read)
  <2>1. Moves(j, q)
    BY <1>1, <1>2, <1>3, Moved
  <2>2. QED
    BY <2>1 DEF Moves
<1>5. /\ q.kind = "create" => q.pc > PersistAt(p)
      /\ q.kind = "join" => q.pc > 1 /\ q.pc >= RegisterAt("join", p)
  BY <1>1, <1>2 DEF Places, RegisterAt, PersistAt, Length, Proto
<1>6. RowKept(d)
  BY <1>1, <1>2, RowStays, StatusSet
<1>7. ASSUME d \notin overlapped, NEW r, r = job'[j]
      PROVE  CreateKnows(r)' /\ ReadKnows(r)' /\ RemovalKnows(r)'
  <2>1. /\ r.kind = q.kind /\ r.ds = d /\ r.pc = pc /\ r.hosts = q.hosts
        /\ r.made = q.made /\ r.read = q.read
    BY <1>2, <1>4, <1>7 DEF Goes
  <2>2. q.pc \in 1 .. 9 /\ PersistAt(p) \in Nat /\ RegisterAt("join", p) \in Nat
    BY <1>2, Stages DEF JobType
  <2>3. CreateKnows(r)'
    BY <1>2, <1>4, <1>5, <1>6, <1>7, <2>1, <2>2
    DEF CreateKnows, San, RowKept, names, outside
  <2>4. ReadKnows(r)'
    BY <1>1, <1>2, <1>4, <1>5, <1>6, <1>7, <2>1, <2>2
    DEF ReadKnows, San, RowKept, Registers, names, outside
  <2>5. RemovalKnows(r)'
    BY <1>2, <2>1 DEF RemovalKnows
  <2>6. QED
    BY <2>3, <2>4, <2>5
<1>8. q.pc <= pc /\ pc <= Length(q.kind, proto[d])
  BY <1>2, <1>3, <1>4 DEF JobType
<1>9. QED
  BY <1>1, <1>2, <1>4, <1>6, <1>7, <1>8, GoesQuietly DEF Types

LEMMA RegisterFailsKeeps ==
    ASSUME ProvisioningInv, NEW j \in Jobs, RegisterFails(j)
    PROVE  ProvisioningInv'
<1>1. /\ Types /\ At(j, {"create", "join"}, "register") /\ faults' \in 0 .. MaxFaults
      /\ UNCHANGED <<names, outside, mapping, marred, started>>
  BY FaultTyped DEF ProvisioningInv, RegisterFails, Types
<1>2. CASE Once(j)
  <2>1. End(j) /\ SetStatus(job[j].ds, "error")
    BY <1>2 DEF RegisterFails, Raises
  <2>2. PICK d \in Datastores : job[j].ds = d /\ job[j].kind = "create"
    BY <1>1, <1>2, AtStep DEF Kinds, Once
  <2>3. QED
    BY <1>1, <2>1, <2>2, RaisesKeeps
<1>3. CASE ~Once(j)
  BY <1>1, <1>3, AheadKeeps DEF RegisterFails, Types
<1>4. QED
  BY <1>2, <1>3

LEMMA ActivateKeeps ==
    ASSUME ProvisioningInv, NEW j \in Jobs, Activate(j)
    PROVE  ProvisioningInv'
BY AheadKeeps DEF ProvisioningInv, Types, Activate, budget

LEMMA AddMappingsKeeps ==
    ASSUME ProvisioningInv, NEW j \in Jobs, AddMappings(j)
    PROVE  ProvisioningInv'
<1>1. /\ Types /\ At(j, {"create", "join"}, "mappings")
      /\ UNCHANGED <<row, names, outside, marred, budget>>
  BY DEF ProvisioningInv, AddMappings
<1>2. PICK d \in Datastores, q \in JobType :
        q = job[j] /\ q.ds = d /\ q.kind \in {"create", "join"} /\ id[d] \in Ids
  BY <1>1, AtStep DEF Kinds
<1>3. mapping' \in [Hosts -> [Ids -> Datastores \union {None}]]
  BY <1>1, <1>2 DEF AddMappings, Types
<1>4. RowKept(d) /\ faults' \in 0 .. MaxFaults
  BY <1>1, RowStays DEF Types, budget
<1>5. CASE q.kind = "create"
  <2>1. End(j) /\ ~Registers(q)
    BY <1>2, <1>5 DEF AddMappings, Registers
  <2>2. QED
    BY <1>1, <1>2, <1>3, <1>4, <2>1, EndsQuietly DEF budget
<1>6. CASE q.kind # "create"
  <2>1. Step(j) /\ At(j, {"join"}, "mappings")
    BY <1>1, <1>2, <1>6 DEF AddMappings, At
  <2>2. QED
    BY <1>1, <1>3, <1>4, <2>1, AheadKeeps DEF budget
<1>7. QED
  BY <1>5, <1>6

LEMMA ReadRowKeeps ==
    ASSUME ProvisioningInv, NEW j \in Jobs, ReadRow(j)
    PROVE  ProvisioningInv'
<1>1. /\ Types /\ At(j, {"remove", "join", "leave"}, "read")
      /\ UNCHANGED <<row, names, outside, mapping, marred, budget>>
  BY DEF ProvisioningInv, ReadRow
<1>2. PICK d \in Datastores, q \in JobType, p \in Proto :
        /\ q = job[j] /\ q.ds = d /\ q.kind \in {"remove", "join", "leave"}
        /\ JobGood(q) /\ id[d] \in Ids /\ proto[d] = p
        /\ q.pc \in 1 .. Length(q.kind, p) /\ Places(q.kind, p, q.pc, "read")
  BY <1>1, AtStep DEF Kinds
<1>3. q.pc = 1 /\ q.pc + 1 <= Length(q.kind, p) /\ q.pc + 1 \in 1 .. 9
  BY <1>2, NotLast DEF Places, Kinds, Objects
<1>4. ~Registers(q)
  BY <1>2, <1>3, Stages DEF Registers
<1>5. RowKept(d) /\ faults' \in 0 .. MaxFaults
  BY <1>1, RowStays DEF Types, budget
<1>6. CASE ~HasRow(d)
  <2>1. End(j) /\ mapping' \in [Hosts -> [Ids -> Datastores \union {None}]]
    BY <1>1, <1>2, <1>6 DEF ReadRow, Types
  <2>2. QED
    BY <1>1, <1>2, <1>4, <1>5, <2>1, EndsQuietly DEF budget
<1>7. CASE HasRow(d)
  <2> PICK read : read = row[d]
    OBVIOUS
  <2> PICK hs : hs = IF q.kind = "remove" THEN read.hosts ELSE q.hosts
    OBVIOUS
  <2>1. hs \in SUBSET Hosts /\ read \in RowType
    BY <1>1, <1>2 DEF Types, RowType, JobType
  <2>2. job' = [job EXCEPT ![j].pc = @ + 1, ![j].read = read, ![j].hosts = hs,
                           ![j].todo = hs]
    BY <1>2, <1>7 DEF ReadRow
  <2>3. Goes(j, q.pc + 1, hs, hs, q.made, read)
    <3>1. [q EXCEPT !.pc = @ + 1, !.read = read, !.hosts = hs, !.todo = hs]
            = [q EXCEPT !.pc = q.pc + 1, !.hosts = hs, !.todo = hs, !.made = q.made,
                        !.read = read]
      BY <1>1, <1>2, JobFields
    <3>2. job' = [job EXCEPT ![j] = [q EXCEPT !.pc = @ + 1, !.read = read,
                                              !.hosts = hs, !.todo = hs]]
      BY <1>2, <2>2
    <3>3. QED
      BY <1>1, <1>2, <1>3, <2>1, <3>1, <3>2, JobFields, JobMoves
  <2>4. ASSUME d \notin overlapped, NEW r, r = job'[j]
        PROVE  CreateKnows(r)' /\ ReadKnows(r)' /\ RemovalKnows(r)'
    <3>1. /\ r.kind = q.kind /\ r.ds = d /\ r.pc = 2 /\ r.hosts = hs /\ r.todo = hs
          /\ r.made = q.made /\ r.read = read
      BY <1>2, <1>3, <2>3, <2>4 DEF Goes
    <3>2. CreateKnows(r)'
      BY <1>2, <3>1 DEF CreateKnows
    <3>3. ReadKnows(r)'
      BY <1>1, <1>2, <3>1, Stages DEF ReadKnows, San, Registers, names
    <3>4. RemovalKnows(r)'
      BY <1>1, <1>2, <3>1, Stages DEF RemovalKnows, ObjectsOf, Objects, names
    <3>5. QED
      BY <3>2, <3>3, <3>4
  <2>5. q.kind # "idle" /\ q.pc <= q.pc + 1
    BY <1>2, <1>3
  <2>6. /\ UNCHANGED <<names, outside>> /\ marred \subseteq marred' /\ marred' \subseteq Ids
        /\ mapping' \in [Hosts -> [Ids -> Datastores \union {None}]]
        /\ started' \in 0 .. MaxJobs
    BY <1>1 DEF Types, budget
  <2>7. QED
    BY <1>2, <1>3, <1>4, <1>5, <2>3, <2>4, <2>5, <2>6, GoesQuietly
<1>8. QED
  BY <1>6, <1>7

\* A call of a removal failed, with a warning.
LEMMA WarningKeeps ==
    ASSUME ProvisioningInv, NEW j \in Jobs, NEW kinds \in SUBSET {"remove", "leave"},
           NEW step \in Objects \union {"detach"}, At(j, kinds, step),
           step = "detach" \/ kinds = {"remove"},
           Step(j) \/ \E h \in job[j].todo : Done(j, h), Fault,
           marred' = marred \union {id[job[j].ds]},
           UNCHANGED <<row, names, outside, mapping, started>>
    PROVE  ProvisioningInv'
<1>1. Types /\ kinds \in SUBSET Kinds /\ faults' \in 0 .. MaxFaults
  BY FaultTyped DEF ProvisioningInv, Kinds
<1>2. PICK d \in Datastores, q \in JobType, p \in Proto :
        /\ q = job[j] /\ q.ds = d /\ q.kind \in kinds /\ JobGood(q)
        /\ id[d] \in Ids /\ proto[d] = p /\ q.pc \in 1 .. Length(q.kind, p)
        /\ Places(q.kind, p, q.pc, step)
        /\ d \notin overlapped => CreateKnows(q) /\ ReadKnows(q)
  BY <1>1, AtStep
<1>3. q.pc + 1 <= Length(q.kind, p) /\ q.pc + 1 \in 1 .. 9
  <2>1. /\ q.kind \in Kinds /\ q.kind \in {"remove", "leave"}
        /\ step \in Objects => q.kind = "remove"
        /\ step \notin {"mappings", "register", "attach"}
    BY <1>1, <1>2 DEF Objects
  <2>2. QED
    BY <1>2, <2>1, NotLast
<1>4. PICK pc \in {q.pc, q.pc + 1}, todo \in SUBSET q.hosts :
        Goes(j, pc, q.hosts, todo, q.made, q.read)
  <2>1. Moves(j, q)
    BY <1>1, <1>2, <1>3, Moved
  <2>2. QED
    BY <2>1 DEF Moves
<1>5. q.pc > 1 /\ ~Registers(q) /\ q.kind \in {"remove", "leave"}
  <2>1. /\ q.kind \in {"remove", "leave"}
        /\ step \in Objects => q.kind = "remove"
    BY <1>1, <1>2 DEF Objects
  <2>2. q.pc > 1
    BY <1>2, <2>1 DEF Places
  <2>3. QED
    BY <2>1, <2>2 DEF Registers
<1>6. RowKept(d)
  BY <1>1, RowStays
<1>7. ASSUME d \notin overlapped, NEW r, r = job'[j]
      PROVE  CreateKnows(r)' /\ ReadKnows(r)' /\ RemovalKnows(r)'
  <2>1. /\ r.kind = q.kind /\ r.ds = d /\ r.pc = pc /\ r.hosts = q.hosts
        /\ r.made = q.made /\ r.read = q.read
    BY <1>2, <1>4, <1>7 DEF Goes
  <2>2. CreateKnows(r)'
    BY <1>5, <2>1 DEF CreateKnows
  <2>3. ReadKnows(r)'
    BY <1>2, <1>5, <1>7, <2>1 DEF ReadKnows, Registers
  <2>4. RemovalKnows(r)'
    BY <1>2, <2>1 DEF RemovalKnows, names
  <2>5. QED
    BY <2>2, <2>3, <2>4
<1>8. q.pc <= pc /\ pc <= Length(q.kind, proto[d]) /\ q.kind # "idle"
  BY <1>2, <1>3, <1>4, <1>5 DEF JobType
<1>9. /\ UNCHANGED <<names, outside>> /\ marred \subseteq marred' /\ marred' \subseteq Ids
      /\ mapping' \in [Hosts -> [Ids -> Datastores \union {None}]]
      /\ started' \in 0 .. MaxJobs
  BY <1>1, <1>2 DEF Types
<1>10. QED
  BY <1>1, <1>2, <1>4, <1>5, <1>6, <1>7, <1>8, <1>9, GoesQuietly

LEMMA DetachFailsKeeps ==
    ASSUME ProvisioningInv, NEW j \in Jobs, DetachFails(j)
    PROVE  ProvisioningInv'
BY WarningKeeps DEF DetachFails

LEMMA RemoveObjectFailsKeeps ==
    ASSUME ProvisioningInv, NEW j \in Jobs, RemoveObjectFails(j)
    PROVE  ProvisioningInv'
BY WarningKeeps DEF RemoveObjectFails

LEMMA DetachNobodyKeeps ==
    ASSUME ProvisioningInv, NEW j \in Jobs, DetachNobody(j)
    PROVE  ProvisioningInv'
<1>1. /\ Types /\ At(j, {"remove"}, "detach") /\ job[j].todo = {} /\ Step(j)
      /\ UNCHANGED <<row, names, outside, mapping, marred, budget>>
  BY DEF ProvisioningInv, DetachNobody
<1>2. PICK d \in Datastores, q \in JobType, p \in Proto :
        /\ q = job[j] /\ q.ds = d /\ q.kind = "remove" /\ JobGood(q)
        /\ id[d] \in Ids /\ proto[d] = p /\ q.pc \in 1 .. Length(q.kind, p)
        /\ Places(q.kind, p, q.pc, "detach")
        /\ d \notin overlapped => CreateKnows(q) /\ ReadKnows(q) /\ RemovalKnows(q)
  BY <1>1, AtStep DEF Kinds
<1>3. q.pc = 2 /\ q.pc + 1 <= Length(q.kind, p) /\ q.pc + 1 \in 1 .. 9
  BY <1>2, NotLast DEF Places, Kinds, Objects
<1>4. Goes(j, q.pc + 1, q.hosts, q.hosts, q.made, q.read)
  BY <1>1, <1>2, <1>3, StepMoves
<1>5. ASSUME d \notin overlapped, NEW r, r = job'[j]
      PROVE  CreateKnows(r)' /\ ReadKnows(r)' /\ RemovalKnows(r)'
  <2>1. /\ r.kind = "remove" /\ r.ds = d /\ r.pc = 3 /\ r.hosts = q.hosts
        /\ r.made = q.made /\ r.read = q.read
    BY <1>2, <1>3, <1>4, <1>5 DEF Goes
  <2>2. CreateKnows(r)' /\ ReadKnows(r)'
    BY <1>1, <1>2, <1>3, <1>5, <2>1 DEF CreateKnows, ReadKnows, Registers
  <2>3. id[d] \notin marred => \A h \in q.hosts : DetachedAt(d, h)'
    BY <1>1, <1>2, <1>3, <1>5 DEF RemovalKnows, DetachedAt, names, outside
  <2>4. \A o \in ObjectsOf(p) : RemovedAt(p, o) \in 3 .. 6
    BY Stages DEF ObjectsOf, Objects
  <2>5. RemovalKnows(r)'
    BY <1>1, <1>2, <2>1, <2>3, <2>4 DEF RemovalKnows, names
  <2>6. QED
    BY <2>2, <2>5
<1>6. q.kind # "idle" /\ ~Registers(q) /\ q.pc <= q.pc + 1
  BY <1>2, <1>3 DEF Registers
<1>7. /\ UNCHANGED <<names, outside>> /\ marred \subseteq marred' /\ marred' \subseteq Ids
      /\ mapping' \in [Hosts -> [Ids -> Datastores \union {None}]]
      /\ started' \in 0 .. MaxJobs /\ faults' \in 0 .. MaxFaults /\ RowKept(d)
  BY <1>1, <1>2, RowStays DEF Types, budget
<1>8. QED
  BY <1>2, <1>3, <1>4, <1>5, <1>6, <1>7, GoesQuietly

LEMMA ObjectAdded ==
    ASSUME Types, NEW d \in Datastores, NEW o \in Objects,
           ontap' = [ontap EXCEPT ![d] = @ \union {o}] \/ UNCHANGED ontap
    PROVE  /\ ontap' \in [Datastores -> SUBSET Objects]
           /\ \A e \in Datastores \ {d} : ontap'[e] = ontap[e]
           /\ ontap[d] \subseteq ontap'[d] /\ ontap'[d] \subseteq ontap[d] \union {o}
BY DEF Types

LEMMA MakeObjectKeeps ==
    ASSUME ProvisioningInv, NEW j \in Jobs, MakeObject(j)
    PROVE  ProvisioningInv'
<1>1. PICK o \in Objects :
        /\ At(j, {"create"}, o)
        /\ ontap' = [ontap EXCEPT ![job[j].ds] = @ \union {o}]
        /\ job' = [job EXCEPT ![j].pc = @ + 1, ![j].made = @ \union {o}]
        /\ UNCHANGED <<row, names, session, cfg, mapping, marred, budget>>
  BY DEF MakeObject
<1>2. Types
  BY DEF ProvisioningInv
<1>3. PICK d \in Datastores, q \in JobType, p \in Proto :
        /\ q = job[j] /\ q.ds = d /\ q.kind = "create" /\ JobGood(q)
        /\ id[d] \in Ids /\ proto[d] = p /\ q.pc \in 1 .. Length(q.kind, p)
        /\ Places(q.kind, p, q.pc, o)
        /\ d \notin overlapped => CreateKnows(q)
  BY <1>1, AtStep DEF Kinds
<1>4. q.pc + 1 <= Length(q.kind, p) /\ q.pc + 1 \in 1 .. 9
  BY <1>3, NotLast DEF Kinds, Objects
<1>5. Goes(j, q.pc + 1, q.hosts, q.todo, q.made \union {o}, q.read)
  <2>1. [q EXCEPT !.pc = @ + 1, !.made = @ \union {o}]
          = [q EXCEPT !.pc = q.pc + 1, !.hosts = q.hosts, !.todo = q.todo,
                      !.made = q.made \union {o}, !.read = q.read]
    BY <1>2, <1>3, JobFields
  <2>2. job' = [job EXCEPT ![j] = [q EXCEPT !.pc = @ + 1, !.made = @ \union {o}]]
    BY <1>1, <1>3
  <2>3. q.made \union {o} \in SUBSET Objects
    BY <1>2, <1>3, JobFields
  <2>4. QED
    BY <1>2, <1>3, <1>4, <2>1, <2>2, <2>3, JobFields, JobMoves
<1>6. /\ ontap' \in [Datastores -> SUBSET Objects]
      /\ \A e \in Datastores \ {d} : ontap'[e] = ontap[e]
      /\ ontap[d] \subseteq ontap'[d] /\ ontap'[d] \subseteq ontap[d] \union {o}
      /\ o \in ontap'[d]
  BY <1>1, <1>2, <1>3, ObjectAdded DEF Types
<1>7. DatastoreGood(d) /\ o \in ObjectsOf(p) /\ q.pc < PersistAt(p)
  BY <1>3 DEF ProvisioningInv, Places
<1>8. PICK r : r = job'[j]
  OBVIOUS
<1>9. /\ r.kind = "create" /\ r.ds = d /\ r.pc = q.pc + 1 /\ r.hosts = q.hosts
      /\ r.todo = q.todo /\ r.made = q.made \union {o}
      /\ \A k \in Jobs \ {j} : job'[k] = job[k]
  BY <1>3, <1>5, <1>8 DEF Goes
<1>10. JobGood(r)'
  BY <1>1, <1>3, <1>4, <1>7, <1>9 DEF JobGood, names
<1>11. d \notin overlapped => CreateKnows(r)'
  <2>1. ~(q.pc > PersistAt(p)) /\ ~(q.pc + 1 > PersistAt(p))
    BY <1>3, <1>4, <1>7, Stages
  <2>2. QED
    BY <1>1, <1>3, <1>6, <1>9, <2>1 DEF CreateKnows, San, Untouched, names
<1>12. Knows(r)'
  BY <1>1, <1>9, <1>11 DEF Knows, ReadKnows, RemovalKnows, Registers, names
<1>13. Recorded(d)'
  <2>1. ~(q.pc > PersistAt(p))
    BY <1>3, <1>7, Stages
  <2>2. QED
    BY <1>1, <1>3, <2>1 DEF CreateKnows, Recorded, San, Untouched, names
<1>14. Types'
  BY <1>1, <1>2, <1>5, <1>6 DEF Types, Goes, names, budget
<1>15. ~Registers(q) /\ RowKept(d)
  BY <1>1, <1>2, <1>3, RowStays DEF Registers
<1>16. ObjectsGood(d)'
  <2>1. d \notin overlapped => row[d].ids = {}
    BY <1>3, <1>7, Stages DEF CreateKnows, JobType
  <2>2. QED
    BY <1>1, <1>3, <1>6, <1>7, <1>15, <2>1
    DEF DatastoreGood, ObjectsGood, MayExist, RowKept, names
<1>17. QED
  BY <1>1, <1>3, <1>6, <1>8, <1>9, <1>10, <1>12, <1>13, <1>14, <1>15, <1>16,
     HostsStayKeeps

LEMMA MakeObjectFailsKeeps ==
    ASSUME ProvisioningInv, NEW j \in Jobs, MakeObjectFails(j)
    PROVE  ProvisioningInv'
<1>1. PICK o \in Objects, obeyed \in BOOLEAN :
        /\ At(j, {"create"}, o) /\ Fault
        /\ ontap' = IF obeyed THEN [ontap EXCEPT ![job[j].ds] = @ \union {Lost(o)}]
                    ELSE ontap
        /\ IF o = "policy" THEN Step(j) /\ UNCHANGED row ELSE Raises(j)
        /\ UNCHANGED <<names, session, cfg, mapping, marred, started>>
  BY DEF MakeObjectFails
<1>2. Types /\ faults' \in 0 .. MaxFaults
  BY <1>1, FaultTyped DEF ProvisioningInv
<1>3. PICK d \in Datastores, q \in JobType, p \in Proto :
        /\ q = job[j] /\ q.ds = d /\ q.kind = "create" /\ JobGood(q)
        /\ id[d] \in Ids /\ proto[d] = p /\ q.pc \in 1 .. Length(q.kind, p)
        /\ Places(q.kind, p, q.pc, o)
        /\ d \notin overlapped => CreateKnows(q)
  BY <1>1, AtStep DEF Kinds
<1>4. /\ ontap' \in [Datastores -> SUBSET Objects]
      /\ \A e \in Datastores \ {d} : ontap'[e] = ontap[e]
      /\ ontap[d] \subseteq ontap'[d] /\ ontap'[d] \subseteq ontap[d] \union {Lost(o)}
  <2>1. Lost(o) \in Objects
    BY DEF Lost, Objects
  <2>2. QED
    BY <1>1, <1>2, <1>3, <2>1, ObjectAdded
<1>5. DatastoreGood(d) /\ o \in ObjectsOf(p) /\ q.pc < PersistAt(p)
  BY <1>3 DEF ProvisioningInv, Places
<1>6. RowKept(d)
  BY <1>1, <1>2, <1>3, RowStays, StatusSet DEF Raises
<1>7. PICK r : r = job'[j]
  OBVIOUS
<1>8. /\ JobGood(r)' /\ Knows(r)' /\ r.ds \in {d, None}
      /\ job' \in [Jobs -> JobType]
      /\ \A k \in Jobs \ {j} : job'[k] = job[k]
  <2>1. CASE o = "policy"
    <3>1. q.pc + 1 <= Length(q.kind, p) /\ q.pc + 1 \in 1 .. 9
      BY <1>3, NotLast DEF Kinds, Objects
    <3>2. Goes(j, q.pc + 1, q.hosts, q.hosts, q.made, q.read) /\ UNCHANGED row
      BY <1>1, <1>2, <1>3, <2>1, <3>1, StepMoves
    <3>3. /\ r.kind = "create" /\ r.ds = d /\ r.pc = q.pc + 1 /\ r.hosts = q.hosts
          /\ r.todo = q.hosts /\ r.made = q.made
          /\ job' \in [Jobs -> JobType]
          /\ \A k \in Jobs \ {j} : job'[k] = job[k]
      BY <1>3, <1>7, <3>2 DEF Goes
    <3>4. JobGood(r)'
      BY <1>1, <1>3, <3>1, <3>3 DEF JobGood, names
    <3>5. p = "nfs"
      BY <1>5, <2>1 DEF ObjectsOf
    <3>6. Knows(r)'
      BY <1>1, <1>3, <1>4, <1>5, <3>1, <3>2, <3>3, <3>5, Stages
      DEF Knows, CreateKnows, ReadKnows, RemovalKnows, Registers, San, names
    <3>7. QED
      BY <3>3, <3>4, <3>6
  <2>2. CASE o # "policy"
    <3>1. Ends(j)
      BY <1>1, <1>2, <2>2, EndMoves DEF Raises
    <3>2. QED
      BY <1>7, <3>1, IdleGood DEF Ends
  <2>3. QED
    BY <2>1, <2>2
<1>9. Recorded(d)'
  <2>1. ~(q.pc > PersistAt(p))
    BY <1>3, <1>5, Stages
  <2>2. QED
    BY <1>1, <1>3, <1>6, <2>1 DEF CreateKnows, Recorded, San, Untouched, RowKept, names
<1>10. Types'
  BY <1>1, <1>2, <1>4, <1>6, <1>8 DEF Types, RowKept, names
<1>11. ~Registers(q)
  BY <1>3 DEF Registers
<1>12. ObjectsGood(d)'
  <2>1. d \notin overlapped => row[d].ids = {}
    BY <1>3, <1>5, Stages DEF CreateKnows, JobType
  <2>2. ontap'[d] \subseteq MayExist(p)
    BY <1>3, <1>4, <1>5 DEF DatastoreGood, ObjectsGood, MayExist, ObjectsOf, Lost
  <2>3. QED
    BY <1>1, <1>3, <1>5, <1>6, <2>1, <2>2
    DEF DatastoreGood, ObjectsGood, RowKept, HasRow, names
<1>13. QED
  BY <1>1, <1>3, <1>4, <1>6, <1>7, <1>8, <1>9, <1>10, <1>11, <1>12, HostsStayKeeps

LEMMA RemoveObjectKeeps ==
    ASSUME ProvisioningInv, NEW j \in Jobs, RemoveObject(j)
    PROVE  ProvisioningInv'
<1>1. PICK o \in Objects :
        /\ At(j, {"remove"}, o)
        /\ ontap' = IF Deletes(j, o)
                    THEN [ontap EXCEPT ![job[j].ds] = @ \ {o}] ELSE ontap
        /\ Step(j)
        /\ UNCHANGED <<row, names, session, cfg, mapping, marred, budget>>
  BY DEF RemoveObject
<1>2. Types
  BY DEF ProvisioningInv
<1>3. PICK d \in Datastores, q \in JobType, p \in Proto :
        /\ q = job[j] /\ q.ds = d /\ q.kind = "remove" /\ JobGood(q)
        /\ id[d] \in Ids /\ proto[d] = p /\ q.pc \in 1 .. Length(q.kind, p)
        /\ Places(q.kind, p, q.pc, o)
        /\ d \notin overlapped => HasRow(d) /\ ReadKnows(q) /\ RemovalKnows(q)
  BY <1>1, AtStep DEF Kinds
<1>4. q.pc + 1 <= Length(q.kind, p) /\ q.pc + 1 \in 1 .. 9
  BY <1>3, NotLast DEF Kinds, Objects
<1>5. Goes(j, q.pc + 1, q.hosts, q.hosts, q.made, q.read)
  BY <1>1, <1>2, <1>3, <1>4, StepMoves
<1>6. /\ ontap' \in [Datastores -> SUBSET Objects]
      /\ \A e \in Datastores \ {d} : ontap'[e] = ontap[e]
      /\ ontap'[d] \subseteq ontap[d]
      /\ Deletes(j, o) => o \notin ontap'[d]
  BY <1>1, <1>2, <1>3 DEF Types
<1>7. /\ DatastoreGood(d) /\ o \in ObjectsOf(p)
      /\ q.pc = RemovedAt(p, o) /\ q.pc > 2
  BY <1>3 DEF ProvisioningInv, Places
<1>8. PICK r : r = job'[j]
  OBVIOUS
<1>9. /\ r.kind = "remove" /\ r.ds = d /\ r.pc = q.pc + 1 /\ r.hosts = q.hosts
      /\ r.todo = q.hosts /\ r.made = q.made /\ r.read = q.read /\ r.delete = q.delete
      /\ \A k \in Jobs \ {j} : job'[k] = job[k]
  BY <1>3, <1>5, <1>8 DEF Goes
<1>10. JobGood(r)'
  BY <1>1, <1>3, <1>4, <1>9 DEF JobGood, names
<1>11. ASSUME d \notin overlapped PROVE CreateKnows(r)' /\ ReadKnows(r)'
  BY <1>1, <1>3, <1>4, <1>7, <1>9, <1>11
  DEF CreateKnows, ReadKnows, Registers, names
\* What was to be deleted is deleted: the LUN is no longer mapped by then.
<1>12. ASSUME d \notin overlapped, id[d] \notin marred, q.delete \/ o = "map",
              o \in Found(q.read)
       PROVE  o \notin ontap'[d]
  <2>1. CASE o = "map" \/ "map" \notin ontap[d]
    <3>1. o = "policy" /\ "policy" \in ontap[d] => "volume" \in ontap[d]
      BY <1>3, <1>7, <1>12
      DEF ReadKnows, Found, DatastoreGood, ObjectsGood
    <3>2. QED
      BY <1>3, <1>6, <1>12, <2>1, <3>1 DEF Deletes
  <2>2. CASE o # "map" /\ "map" \in ontap[d]
    <3>1. "map" \in ObjectsOf(p) /\ p # "nfs"
      BY <1>3, <1>7, <2>2 DEF DatastoreGood, ObjectsGood, ObjectsOf, MayExist
    <3>2. q.read.ids = row[d].ids
      BY <1>3, <1>7, <1>12 DEF ReadKnows
    <3>3. "map" \in q.read.ids
      <4>1. o \in row[d].ids
        BY <1>7, <1>12, <3>1, <3>2 DEF Found, ObjectsOf
      <4>2. QED
        BY <1>3, <1>7, <1>12, <2>2, <3>1, <3>2, <4>1 DEF DatastoreGood, Recorded, San
    <3>4. q.pc > RemovedAt(p, "map")
      BY <1>3, <1>7, <2>2, <3>1 DEF RemovedAt, ObjectsOf
    <3>5. FALSE
      BY <1>3, <1>12, <2>2, <3>1, <3>3, <3>4 DEF RemovalKnows, Found
    <3>6. QED
      BY <3>5
  <2>3. QED
    BY <2>1, <2>2
<1>13. ASSUME d \notin overlapped PROVE RemovalKnows(r)'
  <2>1. \A h \in Hosts : DetachedAt(d, h)' <=> DetachedAt(d, h)
    BY <1>1 DEF DetachedAt, names
  <2>2. q.hosts \subseteq Hosts
    BY <1>2, <1>3, JobFields
  <2>3. \A x \in ObjectsOf(p) :
          r.pc > RemovedAt(p, x) => x = o \/ q.pc > RemovedAt(p, x)
    BY <1>4, <1>7, <1>9, Stages DEF ObjectsOf, Objects, RemovedAt
  <2>4. r.pc > 2 /\ r.pc # 2
    <3>1. q.pc \in 1 .. 9
      BY <1>2, <1>3, JobFields
    <3>2. QED
      BY <1>7, <1>9, <3>1
  <2>5. id[d] \notin marred => \A h \in q.hosts : DetachedAt(d, h)'
    BY <1>3, <1>7, <1>13, <2>1, <2>2 DEF RemovalKnows
  <2>6. ASSUME id[d] \notin marred, NEW x \in ObjectsOf(p), r.pc > RemovedAt(p, x),
               q.delete \/ x = "map", x \in Found(q.read)
        PROVE  x \notin ontap'[d]
    BY <1>3, <1>6, <1>12, <1>13, <2>3, <2>6 DEF RemovalKnows
  <2>7. QED
    BY <1>1, <1>3, <1>9, <2>4, <2>5, <2>6 DEF RemovalKnows, names
<1>14. Knows(r)'
  BY <1>1, <1>9, <1>11, <1>13 DEF Knows, names
<1>15. Recorded(d)'
  BY <1>1, <1>6, <1>7 DEF DatastoreGood, Recorded, San, HasRow, Untouched, names
<1>16. Types'
  BY <1>1, <1>2, <1>5, <1>6 DEF Types, Goes, names, budget
<1>17. ~Registers(q) /\ RowKept(d)
  BY <1>1, <1>2, <1>3, RowStays DEF Registers
<1>18. ObjectsGood(d)'
  <2>1. ASSUME id[d] \notin marred, "volume" \in row[d].ids, "policy" \in ontap'[d]
        PROVE  "volume" \in ontap'[d]
    <3>1. d \notin overlapped /\ "volume" \in ontap[d] /\ "policy" \in ontap[d]
      BY <1>6, <1>7, <2>1 DEF DatastoreGood, ObjectsGood
    <3>2. p = "nfs"
      BY <1>3, <1>7, <3>1 DEF DatastoreGood, ObjectsGood, MayExist, ObjectsOf
    <3>3. "policy" \in Found(q.read)
      BY <1>3, <1>7, <2>1, <3>1 DEF ReadKnows, Found
    <3>4. ~(q.delete /\ q.pc > 3)
      BY <1>3, <2>1, <3>1, <3>2, <3>3 DEF RemovalKnows, ObjectsOf, RemovedAt
    <3>5. o = "volume" => q.pc > 3
      BY <1>7, <3>2 DEF RemovedAt
    <3>6. ~(Deletes(j, o) /\ o = "volume")
      BY <1>3, <3>4, <3>5 DEF Deletes
    <3>7. QED
      BY <1>1, <1>2, <1>3, <3>1, <3>6 DEF Types
  <2>2. QED
    BY <1>1, <1>3, <1>6, <1>7, <1>17, <2>1
    DEF DatastoreGood, ObjectsGood, RowKept, names
<1>19. QED
  BY <1>1, <1>3, <1>6, <1>8, <1>9, <1>10, <1>14, <1>15, <1>16, <1>17, <1>18,
     HostsStayKeeps

LEMMA PersistKeeps ==
    ASSUME ProvisioningInv, NEW j \in Jobs, Persist(j)
    PROVE  ProvisioningInv'
<1>1. /\ Types /\ At(j, {"create"}, "persist") /\ Step(j)
      /\ row' = IF HasRow(job[j].ds)
                THEN [row EXCEPT ![job[j].ds].ids = job[j].made \ {"policy"}] ELSE row
      /\ UNCHANGED <<names, outside, mapping, marred, budget>>
  BY DEF ProvisioningInv, Persist
<1>2. PICK d \in Datastores, q \in JobType, p \in Proto :
        /\ q = job[j] /\ q.ds = d /\ q.kind = "create" /\ JobGood(q)
        /\ id[d] \in Ids /\ proto[d] = p /\ q.pc \in 1 .. Length(q.kind, p)
        /\ Places(q.kind, p, q.pc, "persist")
        /\ d \notin overlapped => HasRow(d) /\ CreateKnows(q)
  BY <1>1, AtStep DEF Kinds
<1>3. q.pc = PersistAt(p) /\ q.pc + 1 <= Length(q.kind, p) /\ q.pc + 1 \in 1 .. 9
  BY <1>2, NotLast DEF Places, Kinds
<1>4. Goes(j, q.pc + 1, q.hosts, q.hosts, q.made, q.read)
  BY <1>1, <1>2, <1>3, StepMoves
<1>5. PICK r : r = job'[j]
  OBVIOUS
<1>6. /\ r.kind = "create" /\ r.ds = d /\ r.pc = q.pc + 1 /\ r.hosts = q.hosts
      /\ r.todo = q.hosts /\ r.made = q.made
      /\ \A k \in Jobs \ {j} : job'[k] = job[k]
  BY <1>2, <1>4, <1>5 DEF Goes
<1>7. DatastoreGood(d) /\ q.made \subseteq ObjectsOf(p)
  BY <1>2 DEF ProvisioningInv, JobGood
<1>8. /\ row' \in [Datastores -> RowType]
      /\ \A e \in Datastores \ {d} : row'[e] = row[e]
      /\ HasRow(d)' <=> HasRow(d)
      /\ row'[d].hosts = row[d].hosts
      /\ row'[d].ids = IF HasRow(d) THEN q.made \ {"policy"} ELSE row[d].ids
  <2> DEFINE x == [row[d] EXCEPT !.ids = q.made \ {"policy"}]
  <2>1. row[d] \in RowType /\ q.made \ {"policy"} \in SUBSET Objects
    BY <1>1, <1>2, JobFields DEF Types
  <2>2. /\ x \in RowType /\ x.status = row[d].status /\ x.hosts = row[d].hosts
        /\ x.ids = q.made \ {"policy"}
    BY <2>1 DEF RowType
  <2>3. row' = IF HasRow(d) THEN [row EXCEPT ![d] = x] ELSE row
    BY <1>1, <1>2
  <2> HIDE DEF x
  <2>4. CASE HasRow(d)
    <3>1. row' = [row EXCEPT ![d] = x]
      BY <2>3, <2>4
    <3>2. row'[d] = x /\ \A e \in Datastores \ {d} : row'[e] = row[e]
      BY <1>1, <3>1 DEF Types
    <3>3. row \in [Datastores -> RowType] /\ x \in RowType
      BY <1>1, <2>2 DEF Types
    <3>4. row' \in [Datastores -> RowType]
      BY <3>1, <3>3
    <3>5. QED
      BY <2>2, <2>4, <3>2, <3>4 DEF HasRow
  <2>5. CASE ~HasRow(d)
    BY <1>1, <2>3, <2>5 DEF Types, HasRow
  <2>6. QED
    BY <2>4, <2>5
<1>9. Types'
  BY <1>1, <1>4, <1>8 DEF Types, Goes, names, outside, budget
<1>10. JobGood(r)'
  BY <1>1, <1>2, <1>3, <1>6 DEF JobGood, names
<1>11. ~(q.pc > PersistAt(p)) /\ q.pc + 1 > PersistAt(p)
  BY <1>3, Stages
\* There is no policy to leave out where the row has to name every object.
<1>12. ASSUME d \notin overlapped PROVE CreateKnows(r)' /\ Recorded(d)'
  <2>1. San(d) => "policy" \notin q.made
    BY <1>2, <1>7 DEF San, ObjectsOf
  <2>2. San(d) => ontap[d] \subseteq row'[d].ids
    BY <1>2, <1>8, <1>11, <1>12, <2>1 DEF CreateKnows
  <2>3. QED
    BY <1>1, <1>2, <1>6, <1>8, <1>11, <1>12, <2>2
    DEF CreateKnows, Recorded, San, names, outside
<1>13. Knows(r)'
  BY <1>1, <1>6, <1>12 DEF Knows, ReadKnows, RemovalKnows, Registers, names
<1>14. ObjectsGood(d)' /\ HostsGood(d)'
  <2>1. id[d] \notin marred => q.made \subseteq ontap[d]
    BY <1>2, <1>7, <1>11 DEF DatastoreGood, ObjectsGood, CreateKnows
  <2>2. QED
    BY <1>1, <1>2, <1>7, <1>8, <2>1
    DEF DatastoreGood, ObjectsGood, HostsGood, names, outside
<1>15. Recorded(d)'
  BY <1>1, <1>12 DEF Recorded, names
<1>16. Listed(d)'
  <2>1. \A h \in Hosts : Serves(d, h) => Serves(d, h)'
    BY <1>1, <1>2, <1>6, <1>8 DEF Serves, Registers, names
  <2>2. QED
    BY <1>1, <1>7, <1>8, <2>1 DEF DatastoreGood, Listed, names, outside
<1>17. Apart(j, d)
  BY <1>1, <1>6, <1>8 DEF Apart, names, outside
<1>18. QED
  BY <1>2, <1>5, <1>6, <1>8, <1>9, <1>10, <1>13, <1>14, <1>15, <1>16, <1>17,
     JobStepKeeps

\* A host that logs in: the row names all that it can see.
LEMMA LoginKeeps ==
    ASSUME ProvisioningInv, NEW j \in Jobs, NEW d \in Datastores, Types',
           UNCHANGED <<names, ontap, cfg, marred>>,
           \A k \in Jobs \ {j} : job'[k] = job[k], RowKept(d),
           NEW h \in Hosts, session' = [session EXCEPT ![h] = @ \union {Target(d)}],
           San(d), proto[d] \in Proto, id[d] # None,
           d \notin overlapped => ontap[d] \subseteq row[d].ids,
           NEW q, q = job[j], q.ds = d, ~Registers(q),
           NEW r, r = job'[j], r.ds \in {d, None},
           JobGood(r)', Knows(r)'
    PROVE  ProvisioningInv'
<1> USE DEF names, RowKept
<1>1. DatastoreGood(d) /\ session \in [Hosts -> SUBSET (Datastores \union {IscsiTarget})]
  BY DEF ProvisioningInv, Types
<1>2. \A e \in Datastores, k \in Hosts :
        e \in session'[k] => e \in session[k] \/ (e = d /\ proto[d] = "nvme")
  BY <1>1 DEF Target, San, Proto
<1>3. Apart(j, d)
  BY <1>2 DEF Apart
<1>4. ObjectsGood(d)' /\ HostsGood(d)'
  BY <1>1, <1>2 DEF DatastoreGood, ObjectsGood, HostsGood
<1>5. Recorded(d)'
  BY DEF Recorded, San
<1>6. \A k \in Hosts : Serves(d, k) => Serves(d, k)'
  BY DEF Serves, Registers
<1>7. Listed(d)'
  BY <1>1, <1>6 DEF DatastoreGood, Listed
<1>8. r.ds = d /\ d \notin overlapped => HasRow(d)'
  BY <1>1 DEF DatastoreGood, Alone
<1>9. QED
  BY <1>3, <1>4, <1>5, <1>7, <1>8, JobStepKeeps

LEMMA ShowsRecorded ==
    ASSUME ProvisioningInv, NEW j \in Jobs, NEW d \in Datastores, d \notin overlapped,
           NEW q, q = job[j], q.ds = d, q.kind \in {"create", "join"}, JobGood(q),
           q.kind = "create" => q.pc > PersistAt(proto[d]), q.pc > 1,
           San(d), HasRow(d), CreateKnows(q), ReadKnows(q), Shows(j)
    PROVE  ontap[d] \subseteq row[d].ids /\ row[d].ids # {}
<1>1. Recorded(d)
  BY DEF ProvisioningInv, DatastoreGood
<1>2. CASE q.kind = "create"
  BY <1>2 DEF CreateKnows, Shows
<1>3. CASE q.kind = "join"
  BY <1>1, <1>3 DEF ReadKnows, JobGood, Recorded, Shows
<1>4. QED
  BY <1>2, <1>3

LEMMA AttachKeeps ==
    ASSUME ProvisioningInv, NEW j \in Jobs, Attach(j)
    PROVE  ProvisioningInv'
<1>1. /\ Types /\ At(j, {"create", "join"}, "attach") /\ Shows(j)
      /\ UNCHANGED <<row, names, ontap, cfg, mapping, marred, budget>>
  BY DEF ProvisioningInv, Attach
<1>2. PICK d \in Datastores, q \in JobType, p \in Proto :
        /\ q = job[j] /\ q.ds = d /\ q.kind \in {"create", "join"} /\ JobGood(q)
        /\ id[d] \in Ids /\ proto[d] = p /\ q.pc \in 1 .. Length(q.kind, p)
        /\ Places(q.kind, p, q.pc, "attach")
        /\ d \notin overlapped => HasRow(d) /\ CreateKnows(q) /\ ReadKnows(q)
  BY <1>1, AtStep DEF Kinds
<1>3. PICK h \in Hosts : /\ h \in job[j].todo /\ Done(j, h)
                         /\ session' = [session EXCEPT ![h] = @ \union {Target(d)}]
  BY <1>1, <1>2, JobFields DEF Attach
<1>4. q.pc + 1 <= Length(q.kind, p) /\ q.pc + 1 \in 1 .. 9
  BY <1>2, NotLast DEF Kinds, Objects
<1>5. p # "nfs" /\ q.pc = IF q.kind = "create" THEN 6 ELSE 2
  BY <1>2 DEF Places
<1>6. q.pc > 1 /\ (q.kind = "create" => q.pc > PersistAt(p)) /\ San(d) /\ ~Registers(q)
  BY <1>2, <1>5, Stages DEF San, Registers
<1>7. d \notin overlapped => ontap[d] \subseteq row[d].ids /\ row[d].ids # {}
  BY <1>1, <1>2, <1>6, ShowsRecorded
<1>8. PICK pc \in {q.pc, q.pc + 1}, todo \in SUBSET q.hosts :
        Goes(j, pc, q.hosts, todo, q.made, q.read)
  <2>1. Moves(j, q)
    BY <1>1, <1>2, <1>3, <1>4, Moved
  <2>2. QED
    BY <2>1 DEF Moves
<1>9. PICK r : r = job'[j]
  OBVIOUS
<1>10. /\ r.kind = q.kind /\ r.ds = d /\ r.pc = pc /\ r.hosts = q.hosts
       /\ r.todo = todo /\ r.made = q.made /\ r.read = q.read
       /\ \A k \in Jobs \ {j} : job'[k] = job[k]
  BY <1>2, <1>8, <1>9 DEF Goes
<1>11. JobGood(r)'
  BY <1>1, <1>2, <1>4, <1>8, <1>10 DEF JobGood, names
<1>12. Knows(r)'
  <2>1. q.kind = "create" => pc > PersistAt(p)
    BY <1>5, <1>6, <1>8, Stages
  <2>2. d \notin overlapped => CreateKnows(r)'
    BY <1>1, <1>2, <1>6, <1>7, <1>10, <2>1 DEF CreateKnows, San, names
  <2>3. d \notin overlapped => ReadKnows(r)'
    BY <1>1, <1>2, <1>6, <1>7, <1>10 DEF ReadKnows, names
  <2>4. RemovalKnows(r)'
    BY <1>2, <1>10 DEF RemovalKnows
  <2>5. QED
    BY <1>1, <1>10, <2>2, <2>3, <2>4 DEF Knows, names
<1>13. Types'
  <2>1. session' \in [Hosts -> SUBSET (Datastores \union {IscsiTarget})]
    BY <1>1, <1>2, <1>3 DEF Types, Target
  <2>2. QED
    BY <1>1, <1>8, <2>1 DEF Types, Goes, names, budget
<1>14. RowKept(d)
  BY <1>1, RowStays
<1>15. QED
  BY <1>1, <1>2, <1>3, <1>6, <1>7, <1>9, <1>10, <1>11, <1>12, <1>13, <1>14, LoginKeeps

LEMMA AttachFailsKeeps ==
    ASSUME ProvisioningInv, NEW j \in Jobs, AttachFails(j)
    PROVE  ProvisioningInv'
<1>1. /\ Types /\ At(j, {"create", "join"}, "attach") /\ End(j)
      /\ UNCHANGED <<names, ontap, cfg, mapping, marred, started>>
      /\ SetStatus(job[j].ds, "error") \/ UNCHANGED row
  BY DEF ProvisioningInv, AttachFails, Raises
<1>2. PICK d \in Datastores, q \in JobType, p \in Proto :
        /\ q = job[j] /\ q.ds = d /\ q.kind \in {"create", "join"} /\ JobGood(q)
        /\ id[d] \in Ids /\ proto[d] = p /\ q.pc \in 1 .. Length(q.kind, p)
        /\ Places(q.kind, p, q.pc, "attach")
        /\ d \notin overlapped => HasRow(d) /\ CreateKnows(q) /\ ReadKnows(q)
  BY <1>1, AtStep DEF Kinds
<1>3. p # "nfs" /\ q.pc = IF q.kind = "create" THEN 6 ELSE 2
  BY <1>2 DEF Places
<1>4. q.pc > 1 /\ (q.kind = "create" => q.pc > PersistAt(p)) /\ San(d) /\ ~Registers(q)
  BY <1>2, <1>3, Stages DEF San, Registers
<1>5. RowKept(d) /\ mapping' \in [Hosts -> [Ids -> Datastores \union {None}]]
  BY <1>1, <1>2, RowStays, StatusSet DEF Types
<1>6. CASE ~Shows(j)
  <2>1. UNCHANGED <<session, faults>>
    BY <1>6 DEF AttachFails
  <2>2. faults' \in 0 .. MaxFaults /\ UNCHANGED outside
    BY <1>1, <2>1 DEF Types, outside
  <2>3. QED
    BY <1>1, <1>2, <1>4, <1>5, <2>2, EndsQuietly
<1>7. CASE Shows(j)
  <2>1. PICK h \in Hosts : session' = [session EXCEPT ![h] = @ \union {Target(d)}]
    BY <1>1, <1>2, <1>7, JobFields DEF AttachFails
  <2>2. faults' \in 0 .. MaxFaults
    BY <1>1, <1>7, FaultTyped DEF AttachFails
  <2>3. d \notin overlapped => ontap[d] \subseteq row[d].ids
    BY <1>2, <1>4, <1>7, ShowsRecorded
  <2>4. PICK r : r = job'[j]
    OBVIOUS
  <2>5. /\ JobGood(r)' /\ Knows(r)' /\ r.ds = None /\ job' \in [Jobs -> JobType]
        /\ \A k \in Jobs \ {j} : job'[k] = job[k]
    BY <1>1, <2>4, EndMoves, IdleGood DEF Ends
  <2>6. Types'
    <3>1. session' \in [Hosts -> SUBSET (Datastores \union {IscsiTarget})]
      BY <1>1, <1>2, <2>1 DEF Types, Target
    <3>2. QED
      BY <1>1, <1>5, <2>2, <2>5, <3>1 DEF Types, RowKept, names
  <2>7. QED
    BY <1>1, <1>2, <1>4, <1>5, <2>1, <2>3, <2>4, <2>5, <2>6, LoginKeeps
<1>8. QED
  BY <1>6, <1>7

LEMMA StorageWritten ==
    ASSUME Types, NEW d \in Datastores, id[d] \in Ids, NEW h \in Hosts,
           NEW who \in {d, None}, cfg' = Storage(h, d, who)
    PROVE  /\ cfg' \in [Hosts -> [Ids -> Datastores \union {None}]]
           /\ \A k \in Hosts, i \in Ids :
                cfg'[k][i] = IF i = id[d] /\ (Clustered \/ k = h) THEN who
                             ELSE cfg[k][i]
BY DEF Types, Storage

LEMMA RegisterKeeps ==
    ASSUME ProvisioningInv, NEW j \in Jobs, Register(j)
    PROVE  ProvisioningInv'
<1>1. /\ Types /\ At(j, {"create", "join"}, "register")
      /\ UNCHANGED <<row, names, ontap, session, mapping, marred, budget>>
  BY DEF ProvisioningInv, Register
<1>2. PICK d \in Datastores, q \in JobType, p \in Proto :
        /\ q = job[j] /\ q.ds = d /\ q.kind \in {"create", "join"} /\ JobGood(q)
        /\ id[d] \in Ids /\ proto[d] = p /\ q.pc \in 1 .. Length(q.kind, p)
        /\ Places(q.kind, p, q.pc, "register")
        /\ d \notin overlapped => HasRow(d) /\ CreateKnows(q) /\ ReadKnows(q)
  BY <1>1, AtStep DEF Kinds
<1>3. PICK h \in Hosts :
        /\ h \in q.todo
        /\ cfg' = IF cfg[h][id[d]] = None THEN Storage(h, d, d) ELSE cfg
        /\ Step(j) \/ \E x \in job[j].todo : Done(j, x)
  BY <1>1, <1>2, JobFields DEF Register
<1>4. q.pc + 1 <= Length(q.kind, p) /\ q.pc + 1 \in 1 .. 9
  BY <1>2, NotLast DEF Kinds, Objects
<1>5. q.pc = RegisterAt(q.kind, p)
  BY <1>2 DEF Places
<1>6. q.pc \in 1 .. 9
  BY <1>1, <1>2, JobFields
<1>7. /\ q.kind = "create" => q.pc > PersistAt(p)
      /\ q.kind = "join" => q.pc > 1 /\ Registers(q)
  BY <1>2, <1>5, <1>6, Stages DEF Registers
<1>8. PICK pc \in {q.pc, q.pc + 1}, todo \in SUBSET q.hosts :
        Goes(j, pc, q.hosts, todo, q.made, q.read)
  <2>1. Moves(j, q)
    BY <1>1, <1>2, <1>3, <1>4, Moved
  <2>2. QED
    BY <2>1 DEF Moves
<1>9. PICK r : r = job'[j]
  OBVIOUS
<1>10. /\ r.kind = q.kind /\ r.ds = d /\ r.pc = pc /\ r.hosts = q.hosts
       /\ r.todo = todo /\ r.made = q.made /\ r.read = q.read
       /\ \A k \in Jobs \ {j} : job'[k] = job[k]
  BY <1>2, <1>8, <1>9 DEF Goes
<1>11. JobGood(r)'
  BY <1>1, <1>2, <1>4, <1>8, <1>10 DEF JobGood, names
<1>12. q.kind = "join" => Registers(r) /\ Registers(r)'
  BY <1>1, <1>2, <1>5, <1>6, <1>7, <1>8, <1>10 DEF Registers, names
<1>13. Knows(r)'
  <2>1. q.kind = "create" => pc > PersistAt(p)
    BY <1>6, <1>7, <1>8, Stages
  <2>2. d \notin overlapped => CreateKnows(r)'
    BY <1>1, <1>2, <1>7, <1>10, <2>1 DEF CreateKnows, San, names
  <2>3. d \notin overlapped => ReadKnows(r)'
    BY <1>1, <1>2, <1>7, <1>10 DEF ReadKnows, Registers, San, names
  <2>4. RemovalKnows(r)'
    BY <1>2, <1>10 DEF RemovalKnows
  <2>5. QED
    BY <1>1, <1>10, <2>2, <2>3, <2>4 DEF Knows, names
<1>14. /\ cfg' \in [Hosts -> [Ids -> Datastores \union {None}]]
       /\ \A k \in Hosts, i \in Ids :
            \/ cfg'[k][i] = cfg[k][i]
            \/ cfg'[k][i] = d /\ i = id[d] /\ (Clustered \/ k = h)
  BY <1>1, <1>2, <1>3, StorageWritten DEF Types
<1>15. Types'
  BY <1>1, <1>8, <1>14 DEF Types, Goes, names, budget
<1>16. DatastoreGood(d)
  BY DEF ProvisioningInv
<1>17. Apart(j, d)
  BY <1>1, <1>10, <1>14 DEF Apart, names
<1>18. ObjectsGood(d)' /\ HostsGood(d)'
  <2>1. id[d] \notin marred => HasRow(d)
    BY <1>2, <1>16 DEF DatastoreGood, ObjectsGood
  <2>2. QED
    BY <1>1, <1>14, <1>16, <2>1 DEF DatastoreGood, ObjectsGood, HostsGood, HasRow, names
<1>19. Recorded(d)'
  <2>1. ASSUME San(d), HasRow(d), d \notin overlapped
        PROVE  ontap[d] \subseteq row[d].ids
    <3>1. CASE q.kind = "create"
      BY <1>2, <1>7, <2>1, <3>1 DEF CreateKnows
    <3>2. CASE q.kind = "join"
      BY <1>2, <1>7, <1>16, <2>1, <3>2 DEF ReadKnows, DatastoreGood, Recorded
    <3>3. QED
      BY <1>2, <3>1, <3>2
  <2>2. QED
    BY <1>1, <2>1 DEF Recorded, San, HasRow, names
<1>20. Listed(d)'
  <2>1. \A k \in Hosts : Serves(d, k) => Serves(d, k)'
    <3>1. \A k \in Jobs : job[k].ds = d /\ Registers(job[k]) /\ k # j =>
            job'[k] = job[k] /\ proto' = proto
      BY <1>1, <1>10 DEF names
    <3>2. Registers(job[j]) => q.kind = "join"
      BY <1>2 DEF Registers
    <3>3. QED
      BY <1>1, <1>2, <1>9, <1>10, <1>12, <3>1, <3>2 DEF Serves, Registers, names
  <2>2. id[d] \notin marred => Serves(d, h)'
    <3>1. CASE q.kind = "create"
      BY <1>1, <1>2, <1>3, <1>16, <3>1
      DEF CreateKnows, JobGood, Serves, DatastoreGood, ObjectsGood
    <3>2. CASE q.kind = "join"
      BY <1>1, <1>2, <1>3, <1>9, <1>10, <1>12, <3>2 DEF JobGood, Serves, Registers, names
    <3>3. QED
      BY <1>2, <3>1, <3>2
  <2>3. ASSUME id[d] \notin marred, HasRow(d), NEW k \in Hosts, cfg'[k][id[d]] = d
        PROVE  \E x \in Hosts : Serves(d, x)' /\ (x = k \/ Clustered)
    <3>1. CASE cfg[k][id[d]] = d
      BY <1>16, <2>1, <2>3, <3>1 DEF DatastoreGood, Listed
    <3>2. CASE cfg[k][id[d]] # d
      BY <1>2, <1>14, <2>2, <2>3, <3>2
    <3>3. QED
      BY <3>1, <3>2
  <2>4. QED
    BY <1>1, <2>3 DEF Listed, HasRow, names
<1>21. r.ds = d /\ d \notin overlapped => HasRow(d)'
  BY <1>1, <1>2 DEF HasRow
<1>22. HasRow(d)' => HasRow(d)
  BY <1>1 DEF HasRow
<1>23. QED
  BY <1>2, <1>9, <1>10, <1>11, <1>13, <1>15, <1>17, <1>18, <1>19, <1>20, <1>21, <1>22,
     JobStepKeeps

LEMMA DetachKeeps ==
    ASSUME ProvisioningInv, NEW j \in Jobs, Detach(j)
    PROVE  ProvisioningInv'
<1>1. /\ Types /\ At(j, {"remove", "leave"}, "detach")
      /\ UNCHANGED <<row, names, ontap, mapping, marred, budget>>
  BY DEF ProvisioningInv, Detach
<1>2. PICK d \in Datastores, q \in JobType, p \in Proto :
        /\ q = job[j] /\ q.ds = d /\ q.kind \in {"remove", "leave"} /\ JobGood(q)
        /\ id[d] \in Ids /\ proto[d] = p /\ q.pc \in 1 .. Length(q.kind, p)
        /\ Places(q.kind, p, q.pc, "detach")
        /\ d \notin overlapped => HasRow(d) /\ ReadKnows(q) /\ RemovalKnows(q)
  BY <1>1, AtStep DEF Kinds
<1>3. PICK h \in Hosts :
        /\ h \in q.todo /\ Done(j, h)
        /\ cfg' = Storage(h, d, None)
        /\ session' = [session EXCEPT ![h] = @ \ {Target(d)}]
  BY <1>1, <1>2, JobFields DEF Detach, Unregister
<1>4. q.pc = 2 /\ q.pc + 1 <= Length(q.kind, p) /\ q.pc + 1 \in 1 .. 9
  BY <1>2, NotLast DEF Places, Kinds, Objects
<1>5. PICK pc \in {2, 3}, todo \in SUBSET q.hosts :
        /\ Goes(j, pc, q.hosts, todo, q.made, q.read)
        /\ pc = 2 => todo = q.todo \ {h}
        /\ pc = 3 => q.todo \subseteq {h}
  <2>1. q.todo \ {h} \in SUBSET q.hosts /\ q.hosts \in SUBSET q.hosts
    BY <1>2 DEF JobGood
  <2>2. \/ /\ q.todo \subseteq {h}
           /\ Goes(j, 3, q.hosts, q.hosts, q.made, q.read)
        \/ Goes(j, 2, q.hosts, q.todo \ {h}, q.made, q.read)
    <3>1. /\ job[j].pc + 1 \in 1 .. 9 /\ job[j].pc = 2 /\ job[j].pc + 1 = 3
          /\ job[j] = q
      BY <1>2, <1>4
    <3>2. \/ /\ job[j].todo \subseteq {h}
             /\ Goes(j, job[j].pc + 1, job[j].hosts, job[j].hosts, job[j].made,
                     job[j].read)
          \/ Goes(j, job[j].pc, job[j].hosts, job[j].todo \ {h}, job[j].made,
                  job[j].read)
      BY <1>1, <1>3, <3>1, DoneMoves
    <3>3. QED
      BY <3>1, <3>2
  <2>3. QED
    BY <2>1, <2>2
<1>6. PICK r : r = job'[j]
  OBVIOUS
<1>7. /\ r.kind = q.kind /\ r.ds = d /\ r.pc = pc /\ r.hosts = q.hosts
      /\ r.todo = todo /\ r.made = q.made /\ r.read = q.read
      /\ \A k \in Jobs \ {j} : job'[k] = job[k]
  BY <1>2, <1>5, <1>6 DEF Goes
<1>8. JobGood(r)'
  BY <1>1, <1>2, <1>4, <1>5, <1>7 DEF JobGood, names
<1>9. DatastoreGood(d)
  BY DEF ProvisioningInv
<1>10. /\ cfg' \in [Hosts -> [Ids -> Datastores \union {None}]]
       /\ \A k \in Hosts, i \in Ids :
            cfg'[k][i] = IF i = id[d] /\ (Clustered \/ k = h) THEN None ELSE cfg[k][i]
  BY <1>1, <1>2, <1>3, StorageWritten
<1>11. /\ session' \in [Hosts -> SUBSET (Datastores \union {IscsiTarget})]
       /\ \A k \in Hosts : session'[k] \subseteq session[k]
       /\ Target(d) \notin session'[h]
  BY <1>1, <1>3 DEF Types
<1>12. DetachedAt(d, h)' /\ \A k \in Hosts : DetachedAt(d, k) => DetachedAt(d, k)'
  <2>1. d \notin session'[h]
    BY <1>9, <1>11 DEF DatastoreGood, HostsGood, Target
  <2>2. QED
    BY <1>1, <1>2, <1>10, <1>11, <2>1 DEF DetachedAt, names
<1>13. Knows(r)'
  <2>1. d \notin overlapped => ReadKnows(r)'
    BY <1>1, <1>2, <1>4, <1>5, <1>7 DEF ReadKnows, Registers, names
  <2>2. ASSUME d \notin overlapped PROVE RemovalKnows(r)'
    <3>1. ASSUME id[d] \notin marred, NEW k \in q.hosts, k \notin todo \/ pc = 3
          PROVE  DetachedAt(d, k)'
      <4>1. k \in Hosts /\ (k = h \/ k \notin q.todo)
        BY <1>1, <1>2, <1>5, <3>1, JobFields
      <4>2. QED
        BY <1>2, <1>4, <1>12, <2>2, <3>1, <4>1 DEF RemovalKnows
    <3>2. \A o \in ObjectsOf(p) : RemovedAt(p, o) \in 3 .. 6
      BY Stages DEF ObjectsOf, Objects
    <3>3. \A o \in ObjectsOf(p) : ~(pc > RemovedAt(p, o))
      BY <1>5, <3>2
    <3>4. QED
      BY <1>1, <1>2, <1>5, <1>7, <3>1, <3>3 DEF RemovalKnows, names
  <2>3. CreateKnows(r)'
    BY <1>2, <1>7 DEF CreateKnows
  <2>4. QED
    BY <1>1, <1>7, <2>1, <2>2, <2>3 DEF Knows, names
<1>14. Types'
  BY <1>1, <1>5, <1>10, <1>11 DEF Types, Goes, names, budget
<1>15. \A k \in Hosts, i \in Ids, e \in Datastores : cfg'[k][i] = e => cfg[k][i] = e
  BY <1>10
<1>16. Apart(j, d)
  BY <1>1, <1>7, <1>11, <1>15 DEF Apart, names
<1>17. ObjectsGood(d)' /\ HostsGood(d)'
  BY <1>1, <1>9, <1>11, <1>15 DEF DatastoreGood, ObjectsGood, HostsGood, HasRow, names
<1>18. Recorded(d)'
  BY <1>1, <1>2, <1>9, <1>11, <1>15
  DEF DatastoreGood, Recorded, San, Untouched, HasRow, names
<1>19. Listed(d)'
  <2>1. ~Registers(q)
    BY <1>2 DEF Registers
  <2>2. \A k \in Hosts : Serves(d, k) => Serves(d, k)'
    BY <1>1, <1>2, <1>7, <2>1 DEF Serves, Registers, names
  <2>3. QED
    BY <1>1, <1>2, <1>9, <1>15, <2>2 DEF DatastoreGood, Listed, HasRow, names
<1>20. (d \notin overlapped => HasRow(d)') /\ (HasRow(d)' => HasRow(d))
  BY <1>1, <1>2 DEF HasRow
<1>21. QED
  BY <1>2, <1>6, <1>7, <1>8, <1>13, <1>14, <1>16, <1>17, <1>18, <1>19, <1>20,
     JobStepKeeps

LEMMA DeleteRowKeeps ==
    ASSUME ProvisioningInv, NEW j \in Jobs, DeleteRow(j)
    PROVE  ProvisioningInv'
<1>1. /\ Types /\ At(j, {"remove"}, "delete") /\ End(j)
      /\ UNCHANGED <<names, outside, marred, budget>>
  BY DEF ProvisioningInv, DeleteRow
<1>2. PICK d \in Datastores, q \in JobType, p \in Proto :
        /\ q = job[j] /\ q.ds = d /\ q.kind = "remove" /\ JobGood(q)
        /\ id[d] \in Ids /\ proto[d] = p /\ q.pc \in 1 .. Length(q.kind, p)
        /\ Places(q.kind, p, q.pc, "delete")
        /\ d \notin overlapped =>
             /\ HasRow(d) /\ \A k \in Jobs : job[k].ds = d => k = j
             /\ ReadKnows(q) /\ RemovalKnows(q)
  BY <1>1, AtStep DEF Kinds
<1>3. q.pc > 2 /\ q.pc > 1
  <2>1. q.pc = Length("remove", p)
    BY <1>2 DEF Places
  <2>2. QED
    BY <2>1 DEF Length
<1>4. /\ row' = [row EXCEPT ![d] = NoRow]
      /\ mapping' = [h \in Hosts |-> IF h \in q.read.hosts
                                     THEN [mapping[h] EXCEPT ![id[d]] = None]
                                     ELSE mapping[h]]
  BY <1>2 DEF DeleteRow
<1>5. NoRow \in RowType /\ row \in [Datastores -> RowType]
  BY <1>1 DEF NoRow, RowType, Types
<1>6. /\ row' \in [Datastores -> RowType] /\ ~HasRow(d)' /\ row'[d].ids = {}
      /\ \A e \in Datastores \ {d} : row'[e] = row[e]
  BY <1>4, <1>5 DEF NoRow, HasRow
<1>7. mapping' \in [Hosts -> [Ids -> Datastores \union {None}]]
  BY <1>1, <1>2, <1>4 DEF Types
<1>8. PICK r : r = job'[j]
  OBVIOUS
<1>9. /\ JobGood(r)' /\ Knows(r)' /\ r.ds = None /\ job' \in [Jobs -> JobType]
      /\ \A k \in Jobs \ {j} : job'[k] = job[k]
  BY <1>1, <1>8, EndMoves, IdleGood DEF Ends
<1>10. Types'
  BY <1>1, <1>6, <1>7, <1>9 DEF Types, names, outside, budget
<1>11. DatastoreGood(d)
  BY DEF ProvisioningInv
\* All hosts of the row are detached, and the row lists all that have an entry.
<1>12. ASSUME id[d] \notin marred, NEW k \in Hosts PROVE cfg[k][id[d]] # d
  <2>1. d \notin overlapped
    BY <1>11, <1>12 DEF DatastoreGood, ObjectsGood
  <2>2. \A h \in Hosts : Serves(d, h) => h \in row[d].hosts
    BY <1>2, <2>1 DEF Serves, Registers
  <2>3. \A h \in row[d].hosts : DetachedAt(d, h)
    BY <1>2, <1>3, <1>12, <2>1 DEF ReadKnows, RemovalKnows
  <2>4. QED
    BY <1>2, <1>11, <1>12, <2>1, <2>2, <2>3 DEF DatastoreGood, Listed, DetachedAt
<1>13. ObjectsGood(d)' /\ HostsGood(d)'
  BY <1>1, <1>2, <1>6, <1>11, <1>12
  DEF DatastoreGood, ObjectsGood, HostsGood, names, outside
<1>14. Recorded(d)' /\ Listed(d)'
  BY <1>6 DEF Recorded, Listed
<1>15. Apart(j, d)
  BY <1>1, <1>6, <1>9 DEF Apart, names, outside
<1>16. QED
  BY <1>2, <1>6, <1>8, <1>9, <1>10, <1>13, <1>14, <1>15, JobStepKeeps

\* The host list of a row changes when its job ends.
LEMMA HostsSet ==
    ASSUME Types, NEW d \in Datastores, NEW hs \in SUBSET Hosts,
           row' = [row EXCEPT ![d].hosts = hs]
    PROVE  /\ row' \in [Datastores -> RowType]
           /\ \A e \in Datastores \ {d} : row'[e] = row[e]
           /\ row'[d].ids = row[d].ids /\ row'[d].hosts = hs
           /\ HasRow(d)' <=> HasRow(d)
<1> DEFINE x == [row[d] EXCEPT !.hosts = hs]
<1>1. row \in [Datastores -> RowType] /\ row[d] \in RowType
  BY DEF Types
<1>2. x \in RowType /\ x.status = row[d].status /\ x.ids = row[d].ids /\ x.hosts = hs
  BY <1>1 DEF RowType
<1>3. row' = [row EXCEPT ![d] = x]
  OBVIOUS
<1> HIDE DEF x
<1>4. row'[d] = x /\ \A e \in Datastores \ {d} : row'[e] = row[e]
  BY <1>1, <1>3
<1>5. row' \in [Datastores -> RowType]
  BY <1>1, <1>2, <1>3
<1>6. QED
  BY <1>2, <1>4, <1>5 DEF HasRow

LEMMA HostsChangeKeeps ==
    ASSUME ProvisioningInv, NEW j \in Jobs, NEW d \in Datastores,
           NEW q, q = job[j], q.ds = d, End(j),
           UNCHANGED <<names, outside, marred, budget>>,
           mapping' \in [Hosts -> [Ids -> Datastores \union {None}]],
           row' \in [Datastores -> RowType],
           \A e \in Datastores \ {d} : row'[e] = row[e],
           row'[d].ids = row[d].ids, HasRow(d)' <=> HasRow(d),
           id[d] \notin marred /\ HasRow(d) =>
             \A k \in Hosts : cfg[k][id[d]] = d =>
               \E h \in Hosts : /\ h = k \/ Clustered
                                /\ \/ h \in row'[d].hosts
                                   \/ \E i \in Jobs \ {j} :
                                        /\ job[i].ds = d /\ Registers(job[i])
                                        /\ h \in job[i].hosts
    PROVE  ProvisioningInv'
<1> USE DEF names, outside
<1>1. Types /\ DatastoreGood(d)
  BY DEF ProvisioningInv
<1>2. PICK r : r = job'[j]
  OBVIOUS
<1>3. /\ JobGood(r)' /\ Knows(r)' /\ r.ds = None /\ job' \in [Jobs -> JobType]
      /\ \A k \in Jobs \ {j} : job'[k] = job[k]
  BY <1>1, <1>2, EndMoves, IdleGood DEF Ends
<1>4. Types'
  BY <1>1, <1>3 DEF Types, budget
<1>5. ObjectsGood(d)' /\ HostsGood(d)'
  BY <1>1 DEF DatastoreGood, ObjectsGood, HostsGood
<1>6. Recorded(d)'
  BY <1>1 DEF DatastoreGood, Recorded, San, Untouched
<1>7. ASSUME id[d] \notin marred, HasRow(d), NEW k \in Hosts, cfg[k][id[d]] = d
      PROVE  \E h \in Hosts : Serves(d, h)' /\ (h = k \/ Clustered)
  <2>1. PICK h \in Hosts : /\ h = k \/ Clustered
                           /\ \/ h \in row'[d].hosts
                              \/ \E i \in Jobs \ {j} :
                                   /\ job[i].ds = d /\ Registers(job[i])
                                   /\ h \in job[i].hosts
    BY <1>7
  <2>2. Serves(d, h)'
    BY <1>3, <2>1 DEF Serves, Registers
  <2>3. QED
    BY <2>1, <2>2
<1>8. Listed(d)'
  BY <1>7 DEF Listed
<1>9. Apart(j, d)
  BY <1>3 DEF Apart
<1>10. QED
  BY <1>2, <1>3, <1>4, <1>5, <1>6, <1>8, <1>9, JobStepKeeps

LEMMA RecordHostKeeps ==
    ASSUME ProvisioningInv, NEW j \in Jobs, RecordHost(j)
    PROVE  ProvisioningInv'
<1>1. /\ Types /\ At(j, {"join"}, "record") /\ End(j)
      /\ UNCHANGED <<names, outside, mapping, marred, budget>>
  BY DEF ProvisioningInv, RecordHost
<1>2. PICK d \in Datastores, q \in JobType, p \in Proto :
        /\ q = job[j] /\ q.ds = d /\ q.kind = "join" /\ JobGood(q)
        /\ id[d] \in Ids /\ proto[d] = p /\ q.pc \in 1 .. Length(q.kind, p)
        /\ Places(q.kind, p, q.pc, "record")
        /\ d \notin overlapped =>
             /\ \A k \in Jobs : job[k].ds = d => k = j
             /\ ReadKnows(q)
  BY <1>1, AtStep DEF Kinds
<1>3. q.pc > 1
  BY <1>2 DEF Places, Length
<1>4. PICK hs \in SUBSET Hosts : hs = q.read.hosts \union q.hosts
  BY <1>1, <1>2, JobFields DEF RowType
<1>5. row' = IF HasRow(d) /\ ~(q.hosts \subseteq q.read.hosts)
             THEN [row EXCEPT ![d].hosts = hs] ELSE row
  BY <1>2, <1>4 DEF RecordHost
<1>6. /\ row' \in [Datastores -> RowType]
      /\ \A e \in Datastores \ {d} : row'[e] = row[e]
      /\ row'[d].ids = row[d].ids /\ (HasRow(d)' <=> HasRow(d))
  <2>1. CASE HasRow(d) /\ ~(q.hosts \subseteq q.read.hosts)
    BY <1>1, <1>5, <2>1, HostsSet
  <2>2. CASE ~(HasRow(d) /\ ~(q.hosts \subseteq q.read.hosts))
    BY <1>1, <1>5, <2>2 DEF Types, HasRow
  <2>3. QED
    BY <2>1, <2>2
<1>7. ASSUME id[d] \notin marred, HasRow(d), NEW h \in Hosts, Serves(d, h)
      PROVE  h \in row'[d].hosts
  <2>1. d \notin overlapped
    BY <1>7 DEF ProvisioningInv, DatastoreGood, ObjectsGood
  <2>2. q.read.hosts = row[d].hosts
    BY <1>2, <1>3, <2>1 DEF ReadKnows
  <2>3. h \in row[d].hosts \/ h \in q.hosts
    BY <1>2, <1>7, <2>1 DEF Serves
  <2>4. CASE q.hosts \subseteq q.read.hosts
    BY <1>5, <2>2, <2>3, <2>4
  <2>5. CASE ~(q.hosts \subseteq q.read.hosts)
    <3>1. row' = [row EXCEPT ![d].hosts = hs]
      BY <1>5, <1>7, <2>5
    <3>2. row'[d].hosts = hs
      BY <1>1, <3>1, HostsSet
    <3>3. QED
      BY <1>4, <2>2, <2>3, <3>2
  <2>6. QED
    BY <2>4, <2>5
<1>8. ASSUME id[d] \notin marred, HasRow(d), NEW k \in Hosts, cfg[k][id[d]] = d
       PROVE  \E h \in Hosts : (h = k \/ Clustered) /\ h \in row'[d].hosts
  BY <1>7, <1>8 DEF ProvisioningInv, DatastoreGood, Listed
<1>9. mapping' \in [Hosts -> [Ids -> Datastores \union {None}]]
  BY <1>1 DEF Types
<1>10. QED
  BY <1>1, <1>2, <1>6, <1>8, <1>9, HostsChangeKeeps

LEMMA ForgetHostKeeps ==
    ASSUME ProvisioningInv, NEW j \in Jobs, ForgetHost(j)
    PROVE  ProvisioningInv'
<1>1. /\ Types /\ At(j, {"leave"}, "record") /\ End(j)
      /\ UNCHANGED <<names, outside, marred, budget>>
  BY DEF ProvisioningInv, ForgetHost
<1>2. PICK d \in Datastores, q \in JobType, p \in Proto :
        /\ q = job[j] /\ q.ds = d /\ q.kind = "leave" /\ JobGood(q)
        /\ id[d] \in Ids /\ proto[d] = p /\ q.pc \in 1 .. Length(q.kind, p)
        /\ Places(q.kind, p, q.pc, "record")
        /\ d \notin overlapped => RemovalKnows(q)
  BY <1>1, AtStep DEF Kinds
<1>3. q.pc > 2
  BY <1>2 DEF Places, Length
<1>4. PICK hs \in SUBSET Hosts : hs = row[d].hosts \ q.hosts
  BY <1>1 DEF Types, RowType
<1>5. row' = IF HasRow(d) THEN [row EXCEPT ![d].hosts = hs] ELSE row
  BY <1>1, <1>2, <1>4 DEF ForgetHost, Types
<1>6. /\ row' \in [Datastores -> RowType]
      /\ \A e \in Datastores \ {d} : row'[e] = row[e]
      /\ row'[d].ids = row[d].ids /\ (HasRow(d)' <=> HasRow(d))
      /\ HasRow(d) => row'[d].hosts = hs
  <2>1. CASE HasRow(d)
    BY <1>1, <1>5, <2>1, HostsSet
  <2>2. CASE ~HasRow(d)
    BY <1>1, <1>5, <2>2 DEF Types, HasRow
  <2>3. QED
    BY <2>1, <2>2
<1>7. ASSUME id[d] \notin marred, HasRow(d), NEW k \in Hosts, cfg[k][id[d]] = d
      PROVE  \E h \in Hosts : /\ h = k \/ Clustered
                              /\ \/ h \in row'[d].hosts
                                 \/ \E i \in Jobs \ {j} :
                                      /\ job[i].ds = d /\ Registers(job[i])
                                      /\ h \in job[i].hosts
  <2>1. PICK h \in Hosts : Serves(d, h) /\ (h = k \/ Clustered)
    BY <1>7 DEF ProvisioningInv, DatastoreGood, Listed
  <2>2. h \notin q.hosts
    <3>1. d \notin overlapped
      BY <1>7 DEF ProvisioningInv, DatastoreGood, ObjectsGood
    <3>2. \A x \in q.hosts : DetachedAt(d, x)
      BY <1>2, <1>3, <1>7, <3>1 DEF RemovalKnows
    <3>3. QED
      BY <1>7, <2>1, <3>2 DEF DetachedAt
  <2>3. ~Registers(q)
    BY <1>2 DEF Registers
  <2>4. QED
    BY <1>2, <1>4, <1>6, <1>7, <2>1, <2>2, <2>3 DEF Serves
<1>8. mapping' \in [Hosts -> [Ids -> Datastores \union {None}]]
  BY <1>1, <1>2 DEF ForgetHost, Types
<1>9. QED
  BY <1>1, <1>2, <1>6, <1>7, <1>8, HostsChangeKeeps

-----------------------------------------------------------------------------
(* Requests and crashes *)

LEMMA NewJob ==
    ASSUME NEW kind \in Kinds, NEW d \in Datastores, NEW hs \in SUBSET Hosts,
           NEW delete \in BOOLEAN, NEW alone \in BOOLEAN,
           NEW n, n = [kind |-> kind, ds |-> d, pc |-> 1, hosts |-> hs, todo |-> hs,
                       made |-> {}, read |-> NoRow, delete |-> delete, alone |-> alone]
    PROVE  /\ n \in JobType /\ n.kind = kind /\ n.ds = d /\ n.pc = 1 /\ n.hosts = hs
           /\ n.todo = hs /\ n.made = {}
<1>1. NoRow \in RowType
  BY DEF NoRow, RowType
<1>2. QED
  BY <1>1 DEF JobType, RowType, Kinds

LEMMA CreateKeeps ==
    ASSUME ProvisioningInv, NEW d \in Datastores, NEW i \in Ids,
           NEW hs \in SUBSET Hosts, NEW j \in Jobs, Create(d, i, hs, j)
    PROVE  ProvisioningInv'
<1>1. /\ Types /\ started < MaxJobs /\ id[d] = None /\ job[j] = IdleJob
      /\ ~find_datastore_conflict(i)
      /\ UNCHANGED <<proto, outside, mapping, overlapped, marred, faults>>
  BY DEF ProvisioningInv, Create
<1>2. PICK n : n = [IdleJob EXCEPT !.kind = "create", !.ds = d, !.hosts = hs, !.todo = hs]
  OBVIOUS
<1>3. /\ n.kind = "create" /\ n.ds = d /\ n.pc = 1 /\ n.hosts = hs /\ n.todo = hs
      /\ n.made = {} /\ n \in JobType
  <2>1. n = [kind |-> "create", ds |-> d, pc |-> 1, hosts |-> hs, todo |-> hs,
             made |-> {}, read |-> NoRow, delete |-> FALSE, alone |-> TRUE]
    BY <1>2 DEF IdleJob
  <2>2. QED
    BY <2>1, NewJob DEF Kinds
<1>4. PICK x : x = [status |-> "provisioning", ids |-> {}, hosts |-> hs]
  OBVIOUS
<1>5. x \in RowType /\ x.status # "none" /\ x.ids = {} /\ x.hosts = hs
  BY <1>4 DEF RowType
<1>6. /\ job' = [job EXCEPT ![j] = n] /\ row' = [row EXCEPT ![d] = x]
      /\ id' = [id EXCEPT ![d] = i] /\ started' = started + 1
  BY <1>2, <1>4 DEF Create
<1>7. /\ job \in [Jobs -> JobType] /\ row \in [Datastores -> RowType]
      /\ id \in [Datastores -> Ids \union {None}]
  BY <1>1 DEF Types
<1>8. /\ job' \in [Jobs -> JobType] /\ job'[j] = n
      /\ \A k \in Jobs \ {j} : job'[k] = job[k]
  BY <1>3, <1>6, <1>7
<1>9. /\ row' \in [Datastores -> RowType] /\ row'[d] = x
      /\ \A e \in Datastores \ {d} : row'[e] = row[e]
  BY <1>5, <1>6, <1>7
<1>10. /\ id' \in [Datastores -> Ids \union {None}] /\ id'[d] = i
       /\ \A e \in Datastores \ {d} : id'[e] = id[e]
  BY <1>6, <1>7
<1>11. Types'
  <2>1. started' \in 0 .. MaxJobs
    BY <1>1, <1>6 DEF Types
  <2>2. QED
    BY <1>1, <1>8, <1>9, <1>10, <2>1 DEF Types, outside
<1>12. /\ ~HasRow(d) /\ ontap[d] = {} /\ d \notin overlapped
       /\ \A h \in Hosts : d \notin session[h] /\ \A y \in Ids : cfg[h][y] # d
  <2>1. ObjectsGood(d) /\ HostsGood(d) /\ marred \subseteq Ids
    BY <1>1 DEF ProvisioningInv, DatastoreGood, Types
  <2>2. QED
    BY <1>1, <2>1 DEF ObjectsGood, HostsGood
<1>13. Untouched(d)'
  BY <1>1, <1>10, <1>12 DEF Untouched, outside
<1>14. \A k \in Jobs : job[k].ds # d
  BY <1>1, <1>12 DEF ProvisioningInv, JobsGood, JobGood
<1>15. job[j].ds = None
  BY <1>1 DEF IdleJob
<1>16. \A e \in Datastores \ {d} : DatastoreGood(e)'
  <2>1. SUFFICES ASSUME NEW e \in Datastores \ {d} PROVE DatastoreGood(e)'
    OBVIOUS
  <2>2. DatastoreGood(e) /\ row'[e] = row[e] /\ id'[e] = id[e]
    BY <1>9, <1>10 DEF ProvisioningInv
  <2>3. \A k \in Jobs : job'[k].ds = e \/ job[k].ds = e => k # j /\ job'[k] = job[k]
    BY <1>3, <1>8, <1>15
  <2>4. Alone(e)'
    BY <1>1, <2>2, <2>3 DEF DatastoreGood, Alone, HasRow
  <2>5. ObjectsGood(e)' /\ HostsGood(e)' /\ Recorded(e)'
    BY <1>1, <2>2
    DEF DatastoreGood, ObjectsGood, HostsGood, Recorded, San, HasRow, Untouched, outside
  <2>6. \A h \in Hosts : Serves(e, h) => Serves(e, h)'
    BY <1>1, <2>2, <2>3 DEF Serves, Registers
  <2>7. Listed(e)'
    BY <1>1, <2>2, <2>6 DEF DatastoreGood, Listed, HasRow, outside
  <2>8. QED
    BY <2>2, <2>4, <2>5, <2>7 DEF DatastoreGood
<1>17. DatastoreGood(d)'
  <2>1. Alone(d)'
    BY <1>5, <1>8, <1>9, <1>14 DEF Alone, HasRow
  <2>2. ObjectsGood(d)' /\ HostsGood(d)' /\ Recorded(d)' /\ Listed(d)'
    BY <1>1, <1>5, <1>9, <1>10, <1>12, <1>13
    DEF ObjectsGood, HostsGood, Recorded, Listed, San, HasRow, outside
  <2>3. QED
    BY <2>1, <2>2 DEF DatastoreGood
<1>18. JobsGood'
  <2>1. SUFFICES ASSUME NEW k \in Jobs, NEW r, r = job'[k]
                 PROVE  JobGood(r)' /\ Knows(r)'
    BY DEF JobsGood
  <2>2. CASE k = j
    <3>1. r = n
      BY <1>8, <2>1, <2>2
    <3>2. JobGood(r)'
      <4>1. 1 <= Length("create", proto[d])
        BY DEF Length
      <4>2. QED
        BY <1>1, <1>3, <1>10, <3>1, <4>1 DEF JobGood
    <3>3. ~(1 > PersistAt(proto[d]))
      BY DEF PersistAt
    <3>4. CreateKnows(r)'
      BY <1>1, <1>3, <1>5, <1>9, <1>12, <1>13, <3>1, <3>3 DEF CreateKnows, outside
    <3>5. ReadKnows(r)' /\ RemovalKnows(r)'
      BY <1>3, <3>1 DEF ReadKnows, RemovalKnows, Registers
    <3>6. QED
      BY <3>2, <3>4, <3>5 DEF Knows
  <2>3. CASE k # j
    <3>1. r = job[k] /\ JobGood(r) /\ Knows(r) /\ r \in JobType
      BY <1>7, <1>8, <2>1, <2>3 DEF ProvisioningInv, JobsGood
    <3>2. CASE r.kind = "idle"
      BY <3>1, <3>2 DEF JobGood, Knows
    <3>3. CASE r.kind # "idle"
      <4>1. PICK e \in Datastores \ {d} : r.ds = e
        BY <1>14, <3>1, <3>3 DEF JobType, JobGood
      <4>2. row'[e] = row[e] /\ id'[e] = id[e]
        BY <1>9, <1>10
      <4>3. JobGood(r)'
        BY <1>1, <3>1, <4>1, <4>2 DEF JobGood
      <4>4. (CreateKnows(r) => CreateKnows(r)') /\ (ReadKnows(r) => ReadKnows(r)')
        BY <1>1, <4>1, <4>2 DEF CreateKnows, ReadKnows, Registers, San, Untouched, outside
      <4>5. RemovalKnows(r) => RemovalKnows(r)'
        BY <1>1, <4>1, <4>2 DEF RemovalKnows, DetachedAt, outside
      <4>6. QED
        BY <1>1, <3>1, <4>3, <4>4, <4>5 DEF Knows
    <3>4. QED
      BY <3>2, <3>3
  <2>4. QED
    BY <2>2, <2>3
<1>19. IdsOwned'
  <2>1. \A e \in Datastores : HasRow(e) => id[e] # i
    BY <1>1 DEF find_datastore_conflict
  <2>2. QED
    BY <1>9, <1>10, <2>1 DEF ProvisioningInv, IdsOwned, HasRow
<1>20. QED
  BY <1>11, <1>16, <1>17, <1>18, <1>19 DEF ProvisioningInv

\* The other jobs on d are no longer alone; else their records stay.
LEMMA OverlapMarks ==
    ASSUME Types, NEW d \in Datastores, NEW j \in Jobs, job[j].ds # d,
           NEW n \in JobType, Overlap(d, [job EXCEPT ![j] = n])
    PROVE  /\ job' \in [Jobs -> JobType] /\ job'[j] = n
           /\ \A k \in Jobs \ {j} :
                /\ job[k].ds # d => job'[k] = job[k]
                /\ job'[k].kind = job[k].kind /\ job'[k].ds = job[k].ds
                /\ job'[k].pc = job[k].pc /\ job'[k].hosts = job[k].hosts
                /\ job'[k].todo = job[k].todo /\ job'[k].made = job[k].made
<1>1. job \in [Jobs -> JobType]
  BY DEF Types
<1>2. job' = [k \in Jobs |-> IF job[k].ds = d THEN [job[k] EXCEPT !.alone = FALSE]
                             ELSE [job EXCEPT ![j] = n][k]]
  BY DEF Overlap
<1>3. job'[j] = n
  BY <1>1, <1>2
<1>4. ASSUME NEW k \in Jobs
      PROVE  \E x \in JobType :
               /\ x = [job[k] EXCEPT !.alone = FALSE]
               /\ x.kind = job[k].kind /\ x.ds = job[k].ds
               /\ x.pc = job[k].pc /\ x.hosts = job[k].hosts
               /\ x.todo = job[k].todo /\ x.made = job[k].made
  <2> DEFINE x == [job[k] EXCEPT !.alone = FALSE]
  <2>1. job[k] \in JobType
    BY <1>1
  <2>2. /\ x \in JobType
        /\ x.kind = job[k].kind /\ x.ds = job[k].ds
        /\ x.pc = job[k].pc /\ x.hosts = job[k].hosts
        /\ x.todo = job[k].todo /\ x.made = job[k].made
    BY <2>1 DEF JobType
  <2>3. QED
    BY <2>2
<1>5. \A k \in Jobs \ {j} : \E x \in JobType :
        /\ job'[k] = x /\ (job[k].ds # d => x = job[k])
        /\ x.kind = job[k].kind /\ x.ds = job[k].ds
        /\ x.pc = job[k].pc /\ x.hosts = job[k].hosts
        /\ x.todo = job[k].todo /\ x.made = job[k].made
  <2> SUFFICES ASSUME NEW k \in Jobs \ {j}
               PROVE  \E x \in JobType :
                         /\ job'[k] = x /\ (job[k].ds # d => x = job[k])
                         /\ x.kind = job[k].kind /\ x.ds = job[k].ds
                         /\ x.pc = job[k].pc /\ x.hosts = job[k].hosts
                         /\ x.todo = job[k].todo /\ x.made = job[k].made
    OBVIOUS
  <2>1. job[k] \in JobType
    BY <1>1
  <2>2. CASE job[k].ds = d
    <3>1. job'[k] = [job[k] EXCEPT !.alone = FALSE]
      BY <1>2, <2>2
    <3>2. QED
      BY <1>4, <2>2, <3>1
  <2>3. CASE job[k].ds # d
    <3>1. job'[k] = job[k]
      BY <1>1, <1>2, <2>3
    <3>2. QED
      BY <2>1, <2>3, <3>1
  <2>4. QED
    BY <2>2, <2>3
<1>6. \A k \in Jobs : job'[k] \in JobType
  BY <1>3, <1>5
<1>7. job' \in [Jobs -> JobType]
  BY <1>2, <1>6
<1>8. QED
  BY <1>3, <1>5, <1>7

LEMMA RequestKeeps ==
    ASSUME ProvisioningInv, NEW d \in Datastores, NEW j \in Jobs, HasRow(d),
           job[j] = IdleJob, started < MaxJobs, started' = started + 1,
           NEW n \in JobType, n.kind \in {"remove", "join", "leave"}, n.ds = d,
           n.pc = 1, n.made = {}, n.todo \subseteq n.hosts,
           Overlap(d, [job EXCEPT ![j] = n]), RowKept(d),
           UNCHANGED <<proto, id, outside, mapping, faults>>
    PROVE  ProvisioningInv'
<1> USE DEF RowKept, outside
<1>1. Types /\ DatastoreGood(d) /\ id[d] \in Ids /\ proto[d] \in Proto
  BY DEF ProvisioningInv, DatastoreGood, ObjectsGood, Types, Proto
<1>2. job[j].ds = None /\ job[j].kind = "idle"
  BY DEF IdleJob
<1>3. /\ job' \in [Jobs -> JobType] /\ job'[j] = n
      /\ \A k \in Jobs \ {j} :
           /\ job[k].ds # d => job'[k] = job[k]
           /\ job'[k].kind = job[k].kind /\ job'[k].ds = job[k].ds
           /\ job'[k].pc = job[k].pc /\ job'[k].hosts = job[k].hosts
           /\ job'[k].todo = job[k].todo /\ job'[k].made = job[k].made
  BY <1>1, <1>2, OverlapMarks
<1>4. /\ overlapped' \subseteq Datastores /\ marred' \subseteq Ids
      /\ marred \subseteq marred'
      /\ \A e \in Datastores \ {d} : e \in overlapped' <=> e \in overlapped
      /\ d \in overlapped' => id[d] \in marred'
      /\ d \notin overlapped' => d \notin overlapped /\ ~Busy(d)
  <2>1. d \in overlapped => id[d] \in marred
    BY <1>1 DEF DatastoreGood, ObjectsGood
  <2>2. QED
    BY <1>1, <2>1 DEF Overlap, Types
<1>5. Types'
  <2>1. started' \in 0 .. MaxJobs
    BY DEF ProvisioningInv, Types
  <2>2. QED
    BY <1>1, <1>3, <1>4, <2>1 DEF Types
<1>6. \A e \in Datastores, h \in Hosts : Serves(e, h) => Serves(e, h)'
  <2>1. SUFFICES ASSUME NEW e \in Datastores, NEW h \in Hosts, Serves(e, h)
                 PROVE  Serves(e, h)'
    OBVIOUS
  <2>2. CASE h \in row[e].hosts
    BY <2>2 DEF Serves
  <2>3. CASE \E k \in Jobs : job[k].ds = e /\ Registers(job[k]) /\ h \in job[k].hosts
    <3>1. PICK k \in Jobs \ {j} :
            job[k].ds = e /\ Registers(job[k]) /\ h \in job[k].hosts
      BY <1>2, <2>3
    <3>2. /\ job'[k].ds = e /\ h \in job'[k].hosts /\ job'[k].kind = job[k].kind
          /\ job'[k].pc = job[k].pc
      BY <1>3, <3>1
    <3>3. QED
      BY <3>1, <3>2 DEF Serves, Registers
  <2>4. QED
    BY <2>1, <2>2, <2>3 DEF Serves
<1>7. ASSUME NEW e \in Datastores PROVE DatastoreGood(e)'
  <2>1. DatastoreGood(e) /\ (HasRow(e)' <=> HasRow(e)) /\ row'[e].ids = row[e].ids
    BY DEF ProvisioningInv, HasRow
  <2>2. Alone(e)'
    <3>1. CASE e = d
      BY <1>3, <1>4, <2>1, <3>1 DEF Alone, Busy
    <3>2. CASE e # d
      BY <1>2, <1>3, <1>4, <2>1, <3>2 DEF DatastoreGood, Alone
    <3>3. QED
      BY <3>1, <3>2
  <2>3. ObjectsGood(e)'
    BY <1>4, <2>1 DEF DatastoreGood, ObjectsGood
  <2>4. HostsGood(e)' /\ Recorded(e)'
    BY <1>4, <2>1 DEF DatastoreGood, HostsGood, Recorded, San, Untouched
  <2>5. Listed(e)'
    BY <1>4, <1>6, <2>1 DEF DatastoreGood, Listed
  <2>6. QED
    BY <2>2, <2>3, <2>4, <2>5 DEF DatastoreGood
<1>8. JobsGood'
  <2>1. SUFFICES ASSUME NEW k \in Jobs, NEW r, r = job'[k]
                 PROVE  JobGood(r)' /\ Knows(r)'
    BY DEF JobsGood
  <2>2. CASE k = j
    <3>1. r = n /\ n.kind \in Kinds
      BY <1>3, <2>1, <2>2 DEF Kinds
    <3>2. 1 <= Length(n.kind, proto[d])
      BY <3>1 DEF Length, Kinds
    <3>3. JobGood(r)'
      BY <1>1, <3>1, <3>2 DEF JobGood
    <3>4. CreateKnows(r)' /\ ReadKnows(r)'
      BY <1>1, <3>1, Stages DEF CreateKnows, ReadKnows, Registers
    <3>5. RemovalKnows(r)'
      BY <1>1, <3>1, Stages DEF RemovalKnows, ObjectsOf, Objects
    <3>6. QED
      BY <3>3, <3>4, <3>5 DEF Knows
  <2>3. CASE k # j
    <3>1. PICK q : q = job[k]
      OBVIOUS
    <3>2. /\ JobGood(q) /\ Knows(q) /\ q \in JobType
          /\ r.kind = q.kind /\ r.ds = q.ds /\ r.pc = q.pc /\ r.hosts = q.hosts
          /\ r.todo = q.todo /\ r.made = q.made
          /\ q.ds # d => r = q
      BY <1>1, <1>3, <2>1, <2>3, <3>1 DEF ProvisioningInv, JobsGood, Types
    <3>3. JobGood(r)'
      BY <3>2 DEF JobGood
    <3>4. CASE q.ds = d
      <4>1. d \in overlapped'
        BY <1>4, <3>1, <3>4 DEF Busy
      <4>2. QED
        BY <3>2, <3>3, <3>4, <4>1 DEF Knows
    <3>5. CASE q.kind = "idle"
      BY <3>2, <3>3, <3>5 DEF Knows
    <3>6. CASE q.ds # d /\ q.kind # "idle"
      <4>1. PICK e \in Datastores \ {d} : r = q /\ r.ds = e
        BY <3>2, <3>6 DEF JobType, JobGood
      <4>2. (CreateKnows(r) => CreateKnows(r)') /\ (ReadKnows(r) => ReadKnows(r)')
        BY <4>1 DEF CreateKnows, ReadKnows, Registers, San, Untouched
      <4>3. RemovalKnows(r) => RemovalKnows(r)'
        BY <1>4, <4>1 DEF RemovalKnows, DetachedAt
      <4>4. QED
        BY <1>4, <3>2, <3>3, <4>1, <4>2, <4>3 DEF Knows
    <3>7. QED
      BY <3>4, <3>5, <3>6
  <2>4. QED
    BY <2>2, <2>3
<1>9. IdsOwned'
  BY DEF ProvisioningInv, IdsOwned, HasRow
<1>10. QED
  BY <1>5, <1>7, <1>8, <1>9 DEF ProvisioningInv

LEMMA RemoveRequestKeeps ==
    ASSUME ProvisioningInv, NEW d \in Datastores, NEW delete \in BOOLEAN,
           NEW j \in Jobs, Remove(d, delete, j)
    PROVE  ProvisioningInv'
<1>1. /\ HasRow(d) /\ job[j] = IdleJob /\ started < MaxJobs /\ started' = started + 1
      /\ SetStatus(d, "removing")
      /\ UNCHANGED <<proto, id, outside, mapping, faults>>
  BY DEF Remove
<1>2. PICK alone \in BOOLEAN : alone = ~Busy(d)
  OBVIOUS
<1>3. PICK n : n = [IdleJob EXCEPT !.kind = "remove", !.ds = d, !.delete = delete,
                                   !.alone = ~Busy(d)]
  OBVIOUS
<1>4. n = [IdleJob EXCEPT !.kind = "remove", !.ds = d, !.delete = delete, !.alone = alone]
  BY <1>2, <1>3
<1>5. /\ n \in JobType /\ n.kind = "remove" /\ n.ds = d /\ n.pc = 1 /\ n.hosts = {}
      /\ n.todo = {} /\ n.made = {}
  <2>1. PICK hs \in SUBSET Hosts : hs = {}
    OBVIOUS
  <2>2. n = [kind |-> "remove", ds |-> d, pc |-> 1, hosts |-> hs, todo |-> hs,
             made |-> {}, read |-> NoRow, delete |-> delete, alone |-> alone]
    BY <1>4, <2>1 DEF IdleJob
  <2>3. QED
    BY <2>1, <2>2, NewJob DEF Kinds
<1>6. Overlap(d, [job EXCEPT ![j] = n])
  BY <1>3 DEF Remove
<1>7. RowKept(d)
  BY <1>1, StatusSet DEF ProvisioningInv
<1>8. QED
  BY <1>1, <1>5, <1>6, <1>7, RequestKeeps

LEMMA HostJobKeeps ==
    ASSUME ProvisioningInv, NEW d \in Datastores, NEW kind \in {"join", "leave"},
           NEW h \in Hosts, NEW j \in Jobs, HostJob(d, kind, h, j)
    PROVE  ProvisioningInv'
<1>1. /\ HasRow(d) /\ job[j] = IdleJob /\ started < MaxJobs /\ started' = started + 1
      /\ UNCHANGED <<row, proto, id, outside, mapping, faults>>
  BY DEF HostJob
<1>2. PICK n : n = [IdleJob EXCEPT !.kind = kind, !.ds = d, !.hosts = {h}, !.todo = {h}]
  OBVIOUS
<1>3. /\ n \in JobType /\ n.kind = kind /\ n.ds = d /\ n.pc = 1 /\ n.hosts = {h}
      /\ n.todo = {h} /\ n.made = {}
  <2>1. PICK hs \in SUBSET Hosts : hs = {h}
    OBVIOUS
  <2>2. n = [IdleJob EXCEPT !.kind = kind, !.ds = d, !.hosts = hs, !.todo = hs]
    BY <1>2, <2>1
  <2> PICK no \in BOOLEAN, yes \in BOOLEAN : no = FALSE /\ yes = TRUE
    OBVIOUS
  <2>3. n = [kind |-> kind, ds |-> d, pc |-> 1, hosts |-> hs, todo |-> hs,
             made |-> {}, read |-> NoRow, delete |-> no, alone |-> yes]
    BY <2>2 DEF IdleJob
  <2>4. kind \in Kinds
    BY DEF Kinds
  <2>5. /\ n \in JobType /\ n.kind = kind /\ n.ds = d /\ n.pc = 1 /\ n.hosts = hs
        /\ n.todo = hs /\ n.made = {}
    <3>1. NoRow \in RowType
      BY DEF NoRow, RowType
    <3>2. QED
      BY <2>1, <2>3, <2>4, <3>1 DEF JobType, RowType, Kinds
  <2>6. QED
    BY <2>1, <2>5
<1>4. RowKept(d)
  BY <1>1, RowStays DEF ProvisioningInv
<1>5. Overlap(d, [job EXCEPT ![j] = n])
  BY <1>2 DEF HostJob
<1>6. QED
  BY <1>1, <1>3, <1>4, <1>5, RequestKeeps

LEMMA CrashKeeps ==
    ASSUME ProvisioningInv, Crash
    PROVE  ProvisioningInv'
<1> USE DEF names, outside
<1>1. /\ Types /\ faults' \in 0 .. MaxFaults
      /\ marred' = marred \union {id[d] : d \in {e \in Datastores : Busy(e)}}
      /\ job' = [j \in Jobs |-> IdleJob]
      /\ UNCHANGED <<row, names, outside, mapping, started>>
  BY FaultTyped DEF ProvisioningInv, Crash
<1>2. \A d \in Datastores : Busy(d) => id[d] \in Ids
  BY <1>1 DEF ProvisioningInv, JobsGood, JobGood, Busy, Types
<1>3. marred \subseteq marred' /\ marred' \subseteq Ids
  BY <1>1, <1>2 DEF Types
<1>4. IdleJob \in JobType /\ IdleJob.ds = None
  BY DEF IdleJob, JobType, NoRow
<1>5. job' \in [Jobs -> JobType]
  BY <1>1, <1>4
<1>6. Types'
  BY <1>1, <1>3, <1>5 DEF Types
<1>7. JobsGood'
  <2>1. ASSUME NEW r, r = IdleJob PROVE JobGood(r)' /\ Knows(r)'
    BY <2>1, IdleGood
  <2>2. QED
    BY <1>1, <2>1 DEF JobsGood
<1>8. ASSUME NEW d \in Datastores PROVE DatastoreGood(d)'
  <2>1. DatastoreGood(d)
    BY DEF ProvisioningInv
  <2>2. \A j \in Jobs : job'[j].ds # d
    BY <1>1, <1>4
  <2>3. Alone(d)'
    BY <2>2 DEF Alone
  <2>4. ObjectsGood(d)' /\ HostsGood(d)' /\ Recorded(d)'
    BY <1>1, <1>3, <2>1
    DEF DatastoreGood, ObjectsGood, HostsGood, Recorded, San, HasRow, Untouched
  <2>5. Listed(d)'
    <3>1. ASSUME id[d] \notin marred', NEW h \in Hosts, Serves(d, h)
          PROVE  Serves(d, h)'
      <4>1. ~Busy(d)
        BY <1>1, <3>1
      <4>2. QED
        BY <1>1, <3>1, <4>1 DEF Serves, Busy
    <3>2. QED
      BY <1>1, <1>3, <2>1, <3>1 DEF DatastoreGood, Listed, HasRow
  <2>6. QED
    BY <2>3, <2>4, <2>5 DEF DatastoreGood
<1>9. IdsOwned'
  BY <1>1 DEF ProvisioningInv, IdsOwned, HasRow
<1>10. QED
  BY <1>6, <1>7, <1>8, <1>9 DEF ProvisioningInv

LEMMA StutterKeeps ==
    ASSUME ProvisioningInv, UNCHANGED vars
    PROVE  ProvisioningInv'
<1> USE DEF vars, outside
<1>1. Types'
  BY DEF ProvisioningInv, Types
<1>2. JobsGood'
  BY DEF ProvisioningInv, JobsGood, JobGood, Knows, CreateKnows, ReadKnows, RemovalKnows,
         San, Untouched, Registers, DetachedAt
<1>3. ASSUME NEW d \in Datastores PROVE DatastoreGood(d)'
  BY DEF ProvisioningInv, DatastoreGood, Alone, ObjectsGood, HostsGood, Recorded, Listed,
         San, HasRow, Untouched, Serves, Registers
<1>4. IdsOwned'
  BY DEF ProvisioningInv, IdsOwned, HasRow
<1>5. QED
  BY <1>1, <1>2, <1>3, <1>4 DEF ProvisioningInv

LEMMA StepKeeps ==
    ASSUME ProvisioningInv, [Next]_vars
    PROVE  ProvisioningInv'
<1>1. CASE Requests
  <2>1. PICK d \in Datastores, j \in Jobs :
          \/ \E i \in Ids, hs \in SUBSET Hosts \ {{}} : Create(d, i, hs, j)
          \/ \E delete \in BOOLEAN : Remove(d, delete, j)
          \/ \E h \in Hosts : AddHost(d, h, j) \/ RemoveHost(d, h, j)
    BY <1>1 DEF Requests
  <2>2. CASE \E i \in Ids, hs \in SUBSET Hosts \ {{}} : Create(d, i, hs, j)
    BY <2>2, CreateKeeps
  <2>3. CASE \E delete \in BOOLEAN : Remove(d, delete, j)
    BY <2>3, RemoveRequestKeeps
  <2>4. CASE \E h \in Hosts : AddHost(d, h, j) \/ RemoveHost(d, h, j)
    BY <2>4, HostJobKeeps DEF AddHost, RemoveHost
  <2>5. QED
    BY <2>1, <2>2, <2>3, <2>4
<1>2. CASE \E j \in Jobs : Works(j)
  <2>1. PICK j \in Jobs : Works(j)
    BY <1>2
  <2>2. CASE MakeObject(j) \/ MakeObjectFails(j) \/ SkipHost(j) \/ Persist(j)
    BY <2>2, MakeObjectKeeps, MakeObjectFailsKeeps, SkipHostKeeps, PersistKeeps
  <2>3. CASE Attach(j) \/ AttachFails(j) \/ Register(j) \/ RegisterFails(j)
    BY <2>3, AttachKeeps, AttachFailsKeeps, RegisterKeeps, RegisterFailsKeeps
  <2>4. CASE Activate(j) \/ AddMappings(j) \/ ReadRow(j) \/ RemoveRaises(j)
    BY <2>4, ActivateKeeps, AddMappingsKeeps, ReadRowKeeps, RemoveRaisesKeeps
  <2>5. CASE Detach(j) \/ DetachFails(j) \/ DetachNobody(j)
    BY <2>5, DetachKeeps, DetachFailsKeeps, DetachNobodyKeeps
  <2>6. CASE RemoveObject(j) \/ RemoveObjectFails(j) \/ DeleteRow(j)
    BY <2>6, RemoveObjectKeeps, RemoveObjectFailsKeeps, DeleteRowKeeps
  <2>7. CASE RecordHost(j) \/ ForgetHost(j)
    BY <2>7, RecordHostKeeps, ForgetHostKeeps
  <2>8. QED
    BY <2>1, <2>2, <2>3, <2>4, <2>5, <2>6, <2>7 DEF Works
<1>3. CASE Crash
  BY <1>3, CrashKeeps
<1>4. CASE UNCHANGED vars
  BY <1>4, StutterKeeps
<1>5. QED
  BY <1>1, <1>2, <1>3, <1>4 DEF Next

LEMMA Invariance == Spec => []ProvisioningInv
<1>1. ProvisioningInv /\ [Next]_vars => ProvisioningInv'
  BY StepKeeps
<1>2. QED
  BY InitGood, <1>1, PTL DEF Spec

-----------------------------------------------------------------------------
(* Theorems *)

\* TypeOK.
THEOREM DatastoresTypeCorrect == Spec => []TypeOK
<1>1. ProvisioningInv => TypeOK
  BY TypesFold DEF ProvisioningInv
<1>2. QED
  BY <1>1, Invariance, PTL

\* TouchedMeansRecorded: what a host of a SAN datastore could depend on is named in
\* the row, for _run_provision writes the uuids before it touches a host and a job
\* that adds a host finds no device unless they were.
THEOREM HostsDependOnRecorded == Spec => []TouchedMeansRecorded
<1>1. ProvisioningInv => TouchedMeansRecorded
  BY DEF ProvisioningInv, DatastoreGood, Recorded, San, Untouched, TouchedMeansRecorded
<1>2. QED
  BY <1>1, Invariance, PTL

\* MountsOwn: ids are taken while any row has them, so that another datastore
\* behind the id of an active one must have left its row without its entry.
THEOREM ActiveMountsOwn == Spec => []MountsOwn
<1>1. ASSUME ProvisioningInv, NEW d \in Datastores, NEW h \in Hosts,
             row[d].status = "active", id[d] \notin marred, cfg[h][id[d]] # None
      PROVE  cfg[h][id[d]] = d
  <2>1. Types /\ HasRow(d) /\ id[d] \in Ids
    BY <1>1 DEF ProvisioningInv, DatastoreGood, ObjectsGood, HasRow, Types
  <2>2. PICK e \in Datastores : cfg[h][id[d]] = e
    BY <1>1, <2>1 DEF Types
  <2>3. id[e] = id[d] /\ HasRow(e)
    BY <1>1, <2>1, <2>2 DEF ProvisioningInv, DatastoreGood, HostsGood
  <2>4. QED
    BY <1>1, <2>1, <2>2, <2>3 DEF ProvisioningInv, IdsOwned
<1>2. ProvisioningInv => MountsOwn
  BY <1>1 DEF MountsOwn
<1>3. QED
  BY <1>2, Invariance, PTL

\* LeavesOthersAlone: the id of a datastore with a row is not that of the datastore
\* a job works on, and the only target that two datastores share is the iSCSI one.
LEMMA WorksOnOwn ==
    ASSUME ProvisioningInv, NEW j \in Jobs, NEW kinds \in SUBSET Kinds, NEW step,
           At(j, kinds, step), NEW d \in Datastores, ~Busy(d), HasRow(d), id[d] \notin marred
    PROVE  \E e \in Datastores \ {d} :
              job[j].ds = e /\ id[e] \in Ids /\ id[e] # id[d] /\ Target(e) # d
<1>1. PICK e \in Datastores : /\ job[j].ds = e /\ id[e] \in Ids
                              /\ e \notin overlapped => HasRow(e)
  BY AtStep
<1>2. e # d
  BY <1>1 DEF Busy
<1>3. e \in overlapped => id[e] \in marred
  BY DEF ProvisioningInv, DatastoreGood, ObjectsGood
<1>4. HasRow(e) /\ id[e] = id[d] => e = d
  BY DEF ProvisioningInv, IdsOwned
<1>5. QED
  BY <1>1, <1>2, <1>3, <1>4 DEF Target

LEMMA OthersUntouched ==
    ASSUME ProvisioningInv, NEW j \in Jobs, Works(j),
           NEW d \in Datastores, ~Busy(d), HasRow(d), id[d] \notin marred
    PROVE  /\ ontap'[d] = ontap[d]
           /\ \A h \in Hosts : /\ cfg[h][id[d]] = d => cfg'[h][id[d]] = d
                               /\ d \in session[h] => d \in session'[h]
<1>1. Types /\ id[d] \in Ids
  BY DEF ProvisioningInv, DatastoreGood, ObjectsGood, Types
<1>2. CASE UNCHANGED outside
  BY <1>2 DEF outside
<1>3. CASE MakeObject(j) \/ MakeObjectFails(j) \/ RemoveObject(j)
  <2>1. PICK o \in Objects, kinds \in SUBSET Kinds : At(j, kinds, o)
    BY <1>3 DEF MakeObject, MakeObjectFails, RemoveObject, Kinds
  <2>2. PICK e \in Datastores \ {d} : job[j].ds = e
    BY <2>1, WorksOnOwn
  <2>3. ontap'[d] = ontap[d]
    BY <1>1, <1>3, <2>2 DEF MakeObject, MakeObjectFails, RemoveObject, Types
  <2>4. UNCHANGED <<session, cfg>>
    BY <1>3 DEF MakeObject, MakeObjectFails, RemoveObject
  <2>5. QED
    BY <2>3, <2>4
<1>4. CASE Attach(j) \/ AttachFails(j)
  <2>1. UNCHANGED <<ontap, cfg>>
    BY <1>4 DEF Attach, AttachFails
  <2>2. \/ UNCHANGED session
        \/ \E h \in Hosts :
             session' = [session EXCEPT ![h] = @ \union {Target(job[j].ds)}]
    BY <1>1, <1>4, JobFields DEF Attach, AttachFails
  <2>3. \A h \in Hosts : session[h] \subseteq session'[h]
    BY <1>1, <2>2 DEF Types
  <2>4. QED
    BY <2>1, <2>3
<1>5. CASE Register(j) \/ Detach(j)
  <2>1. PICK kinds \in SUBSET Kinds, step \in {"register", "detach"} : At(j, kinds, step)
    BY <1>5 DEF Register, Detach, Kinds
  <2>2. PICK e \in Datastores \ {d} :
          job[j].ds = e /\ id[e] \in Ids /\ id[e] # id[d] /\ Target(e) # d
    BY <2>1, WorksOnOwn
  <2>3. UNCHANGED ontap
    BY <1>5 DEF Register, Detach
  <2>4. /\ \/ UNCHANGED cfg
           \/ \E h \in Hosts, who \in {e, None} : cfg' = Storage(h, e, who)
        /\ \/ UNCHANGED session
           \/ \E h \in Hosts : session' = [session EXCEPT ![h] = @ \ {Target(e)}]
    <3>1. CASE Register(j)
      BY <1>1, <2>2, <3>1, JobFields DEF Register
    <3>2. CASE Detach(j)
      BY <1>1, <2>2, <3>2, JobFields DEF Detach, Unregister
    <3>3. QED
      BY <1>5, <3>1, <3>2
  <2>5. \A k \in Hosts : cfg'[k][id[d]] = cfg[k][id[d]]
    BY <1>1, <2>2, <2>4, StorageWritten
  <2>6. \A k \in Hosts : d \in session[k] => d \in session'[k]
    BY <1>1, <2>2, <2>4 DEF Types
  <2>7. QED
    BY <2>3, <2>5, <2>6
<1>6. QED
  BY <1>2, <1>3, <1>4, <1>5
  DEF Works, SkipHost, Persist, RegisterFails, Activate, AddMappings, ReadRow,
      RemoveRaises, DetachFails, DetachNobody, RemoveObjectFails, DeleteRow, RecordHost,
      ForgetHost

THEOREM OthersLeftAlone == Spec => LeavesOthersAlone
<1> DEFINE Left(d) ==
      (~Busy(d) /\ HasRow(d) /\ id[d] \notin marred) =>
          /\ ontap'[d] = ontap[d]
          /\ \A h \in Hosts : /\ cfg[h][id[d]] = d => cfg'[h][id[d]] = d
                              /\ d \in session[h] => d \in session'[h]
<1>1. ASSUME ProvisioningInv, [Next]_vars, NEW d \in Datastores PROVE Left(d)
  <2>1. CASE \E j \in Jobs : Works(j)
    BY <1>1, <2>1, OthersUntouched
  <2>2. CASE UNCHANGED outside
    BY <2>2 DEF outside
  <2>3. Requests \/ Crash \/ UNCHANGED vars => UNCHANGED outside
    BY DEF Requests, Create, Remove, AddHost, RemoveHost, HostJob, Crash, vars, outside
  <2>4. QED
    BY <1>1, <2>1, <2>2, <2>3 DEF Next
<1>2. ProvisioningInv /\ [Next]_vars => [\A d \in Datastores : Left(d)]_vars
  BY <1>1
<1>3. QED
  BY Invariance, <1>2, PTL DEF Spec, LeavesOthersAlone

\* RemovalIsComplete: only the last step of a removal takes a row away, and by then
\* it has come past every object and every host that the row names.
LEMMA RowLeaves ==
    ASSUME ProvisioningInv, Next, NEW d \in Datastores, HasRow(d), ~HasRow(d)'
    PROVE  \E j \in Jobs : job[j].ds = d /\ DeleteRow(j)
<1>1. Types /\ row \in [Datastores -> RowType]
  BY DEF ProvisioningInv, Types
<1>2. ~UNCHANGED row
  BY DEF HasRow
<1>3. \A e \in Datastores : ~RowKept(e)
  BY DEF RowKept, HasRow
<1>4. \A e \in Datastores, status \in {"active", "removing", "error"} :
        ~SetStatus(e, status)
  BY <1>1, <1>3, StatusSet
<1>5. ASSUME Requests PROVE FALSE
  <2>1. PICK e \in Datastores :
          \/ \E j \in Jobs, i \in Ids, hs \in SUBSET Hosts : Create(e, i, hs, j)
          \/ \E j \in Jobs, delete \in BOOLEAN : Remove(e, delete, j)
          \/ \E j \in Jobs, h \in Hosts : AddHost(e, h, j) \/ RemoveHost(e, h, j)
    BY <1>5 DEF Requests
  <2>2. ASSUME NEW j \in Jobs, NEW i \in Ids, NEW hs \in SUBSET Hosts, Create(e, i, hs, j)
        PROVE  FALSE
    <3>1. row' = [row EXCEPT ![e] = [status |-> "provisioning", ids |-> {}, hosts |-> hs]]
      BY <2>2 DEF Create
    <3>2. QED
      BY <1>1, <3>1 DEF HasRow
  <2>3. ~\E j \in Jobs, delete \in BOOLEAN : Remove(e, delete, j)
    BY <1>4 DEF Remove
  <2>4. ~\E j \in Jobs, h \in Hosts : AddHost(e, h, j) \/ RemoveHost(e, h, j)
    BY <1>2 DEF AddHost, RemoveHost, HostJob
  <2>5. QED
    BY <2>1, <2>2, <2>3, <2>4
<1>6. ~Crash
  BY <1>2 DEF Crash
<1>7. PICK j \in Jobs : Works(j)
  BY <1>5, <1>6 DEF Next
<1>8. ASSUME NEW kinds \in SUBSET Kinds, NEW step, At(j, kinds, step)
      PROVE  job[j].ds \in Datastores
  BY <1>8, AtStep
<1>9. ~MakeObject(j) /\ ~SkipHost(j) /\ ~Attach(j) /\ ~Register(j) /\ ~AddMappings(j)
  BY <1>2 DEF MakeObject, SkipHost, Attach, Register, AddMappings
<1>10. /\ ~ReadRow(j) /\ ~Detach(j) /\ ~DetachFails(j) /\ ~DetachNobody(j)
       /\ ~RemoveObject(j) /\ ~RemoveObjectFails(j)
  BY <1>2 DEF ReadRow, Detach, DetachFails, DetachNobody, RemoveObject, RemoveObjectFails
<1>11. ~MakeObjectFails(j) /\ ~AttachFails(j) /\ ~RegisterFails(j)
  <2>1. At(j, {"create"}, "policy") \/ At(j, {"create"}, "volume")
          \/ At(j, {"create"}, "lun") \/ At(j, {"create"}, "group")
          \/ At(j, {"create"}, "map") \/ At(j, {"create"}, "stray")
          \/ At(j, {"create", "join"}, "attach")
          \/ At(j, {"create", "join"}, "register")
        => job[j].ds \in Datastores
    BY <1>8 DEF Kinds
  <2>2. QED
    BY <1>2, <1>4, <2>1 DEF MakeObjectFails, AttachFails, RegisterFails, Raises, Objects
<1>12. ~Activate(j) /\ ~RemoveRaises(j)
  BY <1>2, <1>4, <1>8 DEF Activate, RemoveRaises, Raises, Kinds
<1>13. ASSUME NEW e \in Datastores, NEW hs \in SUBSET Hosts,
              row' = [row EXCEPT ![e].hosts = hs]
       PROVE  FALSE
  BY <1>1, <1>13, HostsSet DEF HasRow
<1>14. ~RecordHost(j) /\ ~ForgetHost(j)
  <2>1. job[j].read.hosts \union job[j].hosts \in SUBSET Hosts
    BY <1>1, JobFields DEF RowType
  <2>2. At(j, {"join"}, "record") \/ At(j, {"leave"}, "record") => job[j].ds \in Datastores
    BY <1>8 DEF Kinds
  <2>3. ~RecordHost(j)
    BY <1>2, <1>13, <2>1, <2>2 DEF RecordHost
  <2>4. ASSUME ForgetHost(j) PROVE FALSE
    <3>1. PICK e \in Datastores : e = job[j].ds
      BY <2>2, <2>4 DEF ForgetHost
    <3>2. PICK hs \in SUBSET Hosts : hs = row[e].hosts \ job[j].hosts
      BY <1>1 DEF RowType
    <3>3. row' = [row EXCEPT ![e].hosts = hs]
      BY <1>1, <1>2, <2>4, <3>1, <3>2 DEF ForgetHost
    <3>4. QED
      BY <1>13, <3>3
  <2>5. QED
    BY <2>3, <2>4
<1>15. ASSUME Persist(j) PROVE FALSE
  <2>1. row[d].status = row'[d].status
    BY <1>1, <1>15 DEF Persist, RowType
  <2>2. QED
    BY <2>1 DEF HasRow
<1>16. DeleteRow(j)
  BY <1>7, <1>9, <1>10, <1>11, <1>12, <1>14, <1>15 DEF Works
<1>17. job[j].ds = d
  BY <1>16 DEF DeleteRow, HasRow
<1>18. QED
  BY <1>16, <1>17

THEOREM RemovalLeavesNothing == Spec => RemovalIsComplete
<1> DEFINE Complete(j) ==
      LET d == job[j].ds IN
      (/\ job[j].kind = "remove" /\ HasRow(d) /\ row'[d].status = "none"
       /\ job[j].delete /\ job[j].alone /\ id[d] \notin marred)
      => /\ ontap[d] \intersect Found(row[d]) = {}
         /\ \A h \in row[d].hosts :
                /\ cfg[h][id[d]] # d /\ d \notin session[h]
                /\ mapping'[h][id[d]] # d
<1>1. ASSUME ProvisioningInv, Next, NEW j \in Jobs, NEW d, d = job[j].ds,
             job[j].kind = "remove", HasRow(d), row'[d].status = "none",
             job[j].delete, id[d] \notin marred
      PROVE  /\ ontap[d] \intersect Found(row[d]) = {}
             /\ \A h \in row[d].hosts : /\ cfg[h][id[d]] # d /\ d \notin session[h]
                                        /\ mapping'[h][id[d]] # d
  <2>1. Types /\ d \in Datastores
    BY <1>1 DEF ProvisioningInv, JobsGood, JobGood, Types, JobType
  <2>2. PICK k \in Jobs : job[k].ds = d /\ DeleteRow(k)
    BY <1>1, <2>1, RowLeaves DEF HasRow
  <2>3. DatastoreGood(d) /\ d \notin overlapped
    BY <1>1, <2>1 DEF ProvisioningInv, DatastoreGood, ObjectsGood
  <2>4. k = j
    BY <1>1, <2>2, <2>3 DEF DatastoreGood, Alone
  <2>5. At(j, {"remove"}, "delete")
    BY <2>2, <2>4 DEF DeleteRow
  <2>6. PICK q \in JobType, p \in Proto :
          /\ q = job[j] /\ q.ds = d /\ q.kind = "remove"
          /\ id[d] \in Ids /\ proto[d] = p /\ q.pc \in 1 .. Length(q.kind, p)
          /\ Places(q.kind, p, q.pc, "delete")
          /\ ReadKnows(q) /\ RemovalKnows(q)
    BY <1>1, <2>3, <2>5, AtStep DEF Kinds
  <2>7. q.pc > 2 /\ q.pc > 1
    BY <2>6 DEF Places, Length
  <2>8. q.read.ids = row[d].ids /\ q.read.hosts = row[d].hosts /\ q.hosts = row[d].hosts
    BY <2>6, <2>7 DEF ReadKnows
  <2>9. \A h \in row[d].hosts : DetachedAt(d, h)
    BY <1>1, <2>6, <2>7, <2>8 DEF RemovalKnows
  <2>10. Found(row[d]) \intersect ObjectsOf(p) \intersect ontap[d] = {}
    BY <1>1, <2>6, <2>8 DEF RemovalKnows, Places, Found
  <2>11. /\ ontap[d] \subseteq MayExist(p) /\ row[d].ids \subseteq ObjectsOf(p)
         /\ row[d].hosts \subseteq Hosts
    BY <2>1, <2>3, <2>6 DEF DatastoreGood, ObjectsGood, Types, RowType
  <2>12. \A h \in row[d].hosts : mapping'[h][id[d]] = None
    BY <2>1, <2>2, <2>4, <2>6, <2>8, <2>11 DEF DeleteRow, Types
  <2>13. ontap[d] \intersect Found(row[d]) = {}
    BY <2>10, <2>11 DEF MayExist, ObjectsOf, Found
  <2>14. QED
    BY <2>1, <2>9, <2>11, <2>12, <2>13 DEF DetachedAt
<1>2. ASSUME ProvisioningInv, [Next]_vars, NEW j \in Jobs PROVE Complete(j)
  <2>1. CASE Next
    BY <1>1, <1>2, <2>1
  <2>2. CASE UNCHANGED vars
    BY <2>2 DEF vars, HasRow
  <2>3. QED
    BY <1>2, <2>1, <2>2
<1>3. ProvisioningInv /\ [Next]_vars => [\A j \in Jobs : Complete(j)]_vars
  BY <1>2
<1>4. QED
  BY Invariance, <1>3, PTL DEF Spec, RemovalIsComplete

=============================================================================
