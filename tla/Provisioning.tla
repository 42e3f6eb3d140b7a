----------------------------- MODULE Provisioning -----------------------------
(***************************************************************************)
(* Datastores provisioned by the application (api/provisioning.py): a row  *)
(* of netapp_provisioned_datastores, objects on ONTAP, and on every host   *)
(* an attachment (an iSCSI or NVMe session), an entry of storage.cfg and a *)
(* row of netapp_volume_mapping.                                           *)
(*                                                                         *)
(* A request checks, writes the row and starts a thread; nothing keeps a   *)
(* second job off a datastore that already has one.  Threads read the row  *)
(* once and work from that copy.  A job is a program, one step per call    *)
(* that can fail or be overtaken.  A crash kills the threads; at boot      *)
(* nothing looks after the rows.                                           *)
(*                                                                         *)
(* Objects: "policy" an export policy, "volume", "lun" a LUN or namespace, *)
(* "group" an igroup or subsystem, "map" the LUN or namespace mapped to    *)
(* it; "stray" an export policy that no volume uses, as the answer to its  *)
(* creation was lost.  Requests that reuse objects are not modelled.       *)
(* A definition in front of another one and named after it is a slip the   *)
(* code could have made; no action uses it.                                *)
(***************************************************************************)
EXTENDS Naturals, FiniteSets, Sequences

CONSTANTS
    Datastores,   \* rows ever created (their ids are uuids)
    Protocols,    \* the protocols they may have: functions on Datastores
    Ids,          \* storage ids
    Hosts,
    Jobs,         \* threads
    IscsiTarget,  \* the one iSCSI target of the SVM
    None,
    Clustered,    \* the hosts share one storage.cfg (pmxcfs)
    MaxJobs,      \* bound on jobs
    MaxFaults     \* bound on failed calls and crashes

ASSUME ProvisioningAssumption ==
    /\ Protocols \subseteq [Datastores -> {"nfs", "iscsi", "nvme"}]
    /\ None \notin Datastores \union Ids
    /\ IscsiTarget \notin Datastores
    /\ Clustered \in BOOLEAN
    /\ MaxJobs \in Nat /\ MaxFaults \in Nat

VARIABLES
    row,        \* the row: status, recorded objects, pve_host_ids
    proto, id,  \* protocol and pve_storage_id that each datastore is created with
    ontap,      \* objects of each datastore that exist on ONTAP
    session,    \* [Hosts -> targets the host is logged in to]
    cfg,        \* [Hosts -> [Ids -> the datastore behind it, or None]]
    mapping,    \* [Hosts -> [Ids -> the datastore the row names, or None]]
    job,
    overlapped, \* history: datastores that two jobs worked on at a time
    marred,     \* history: ids of such datastores, and of those a job of which
                \* failed to clean up or died
    started, faults

vars == <<row, proto, id, ontap, session, cfg, mapping, job, overlapped, marred,
          started, faults>>
outside == <<ontap, session, cfg>>
budget == <<started, faults>>
names == <<proto, id, overlapped>>

NoRow == [status |-> "none", ids |-> {}, hosts |-> {}]
IdleJob == [kind |-> "idle", ds |-> None, pc |-> 1, hosts |-> {}, todo |-> {},
            made |-> {}, read |-> NoRow, delete |-> FALSE, alone |-> TRUE]

Init ==
    /\ row = [d \in Datastores |-> NoRow]
    /\ proto \in Protocols
    /\ id = [d \in Datastores |-> None]
    /\ ontap = [d \in Datastores |-> {}]
    /\ session = [h \in Hosts |-> {}]
    /\ cfg = [h \in Hosts |-> [i \in Ids |-> None]]
    /\ mapping = [h \in Hosts |-> [i \in Ids |-> None]]
    /\ job = [j \in Jobs |-> IdleJob]
    /\ overlapped = {}
    /\ marred = {}
    /\ started = 0
    /\ faults = 0

-----------------------------------------------------------------------------
(* The programs *)

IscsiCreate == <<"volume", "lun", "group", "map", "persist", "attach",
                 "register", "active", "mappings">>
NvmeCreate == <<"volume", "lun", "group", "map", "persist", "attach",
                "register", "active", "mappings">>
NfsCreate == <<"policy", "volume", "persist", "register", "active", "mappings">>
IscsiRemoveKeepsGroup == <<"read", "detach", "map", "lun", "volume", "delete">>
IscsiRemove == <<"read", "detach", "map", "lun", "volume", "group", "delete">>
NvmeRemove == <<"read", "detach", "map", "lun", "volume", "group", "delete">>
NfsRemove == <<"read", "detach", "policy", "volume", "delete">>
IscsiJoin == <<"read", "attach", "register", "mappings", "record">>
NvmeJoin == <<"read", "attach", "register", "mappings", "record">>
NfsJoin == <<"read", "register", "mappings", "record">>
Leave == <<"read", "detach", "record">>

Programs ==
    [create |-> [iscsi |-> IscsiCreate, nvme |-> NvmeCreate, nfs |-> NfsCreate],
     remove |-> [iscsi |-> IscsiRemove, nvme |-> NvmeRemove, nfs |-> NfsRemove],
     join   |-> [iscsi |-> IscsiJoin, nvme |-> NvmeJoin, nfs |-> NfsJoin],
     leave  |-> [iscsi |-> Leave, nvme |-> Leave, nfs |-> Leave]]

At(j, kinds, step) ==
    /\ job[j].kind \in kinds
    /\ Programs[job[j].kind][proto[job[j].ds]][job[j].pc] = step

Busy(d) == \E j \in Jobs : job[j].ds = d
HasRow(d) == row[d].status # "none"
Target(d) == IF proto[d] = "iscsi" THEN IscsiTarget ELSE d
Fault == faults < MaxFaults /\ faults' = faults + 1

\* The thread goes on to the next step, ends, or is done with one host.
Step(j) == job' = [job EXCEPT ![j].pc = @ + 1, ![j].todo = job[j].hosts]
End(j) == job' = [job EXCEPT ![j] = IdleJob]
Done(j, h) == IF job[j].todo \subseteq {h} THEN Step(j)
              ELSE job' = [job EXCEPT ![j].todo = @ \ {h}]

\* UPDATEs have no effect when the row is gone.
SetStatus(d, s) ==
    row' = IF HasRow(d) THEN [row EXCEPT ![d].status = s] ELSE row

-----------------------------------------------------------------------------
(* Requests *)

\* Every row owns its storage id, whatever its status.
find_datastore_conflict_live(i) ==
    \E e \in Datastores : row[e].status \in {"provisioning", "active"} /\ id[e] = i
find_datastore_conflict(i) == \E e \in Datastores : HasRow(e) /\ id[e] = i

Create(d, i, hs, j) ==
    /\ started < MaxJobs
    /\ id[d] = None /\ job[j] = IdleJob
    /\ ~find_datastore_conflict(i)
    /\ id' = [id EXCEPT ![d] = i]
    /\ row' = [row EXCEPT ![d] = [status |-> "provisioning", ids |-> {},
                                  hosts |-> hs]]
    /\ job' = [job EXCEPT ![j] = [IdleJob EXCEPT !.kind = "create", !.ds = d,
                                                 !.hosts = hs, !.todo = hs]]
    /\ started' = started + 1
    /\ UNCHANGED <<proto, outside, mapping, overlapped, marred, faults>>

\* The jobs on d are no longer alone; d's id is marred.
Overlap(d, new) ==
    /\ job' = [j \in Jobs |-> IF job[j].ds = d
                              THEN [job[j] EXCEPT !.alone = FALSE] ELSE new[j]]
    /\ overlapped' = IF Busy(d) THEN overlapped \union {d} ELSE overlapped
    /\ marred' = IF Busy(d) THEN marred \union {id[d]} ELSE marred

\* The requests below ask only for the row.
Remove(d, delete, j) ==
    /\ started < MaxJobs
    /\ HasRow(d) /\ job[j] = IdleJob
    /\ SetStatus(d, "removing")
    /\ Overlap(d, [job EXCEPT ![j] = [IdleJob EXCEPT
           !.kind = "remove", !.ds = d, !.delete = delete, !.alone = ~Busy(d)]])
    /\ started' = started + 1
    /\ UNCHANGED <<proto, id, outside, mapping, faults>>

HostJob(d, kind, h, j) ==
    /\ started < MaxJobs
    /\ HasRow(d) /\ job[j] = IdleJob
    /\ Overlap(d, [job EXCEPT ![j] = [IdleJob EXCEPT
           !.kind = kind, !.ds = d, !.hosts = {h}, !.todo = {h}]])
    /\ started' = started + 1
    /\ UNCHANGED <<row, proto, id, outside, mapping, faults>>

AddHost(d, h, j) == HostJob(d, "join", h, j)
RemoveHost(d, h, j) == HostJob(d, "leave", h, j)

-----------------------------------------------------------------------------
(* Creating *)

\* The handlers of _run_provision and _run_remove.
RaisesFailed(j) == End(j) /\ SetStatus(job[j].ds, "failed")
Raises(j) == End(j) /\ SetStatus(job[j].ds, "error")

Objects == {"policy", "stray", "volume", "lun", "group", "map"}

\* An object is created, and its uuid kept in a variable of the thread.
MakeObject(j) ==
    \E o \in Objects :
        /\ At(j, {"create"}, o)
        /\ ontap' = [ontap EXCEPT ![job[j].ds] = @ \union {o}]
        /\ job' = [job EXCEPT ![j].pc = @ + 1, ![j].made = @ \union {o}]
        /\ UNCHANGED <<row, names, session, cfg, mapping, marred, budget>>

\* The call fails, or its answer is lost after it was obeyed.  Without an
\* export policy of its own, an NFS volume uses the default one.
Lost(o) == IF o = "policy" THEN "stray" ELSE o

MakeObjectFails(j) ==
    \E o \in Objects, obeyed \in BOOLEAN :
        /\ At(j, {"create"}, o)
        /\ Fault
        /\ ontap' = IF obeyed THEN [ontap EXCEPT ![job[j].ds] = @ \union {Lost(o)}]
                    ELSE ontap
        /\ IF o = "policy" THEN Step(j) /\ UNCHANGED row ELSE Raises(j)
        /\ UNCHANGED <<names, session, cfg, mapping, marred, started>>

\* Hosts that do not tell their IQN or NQN are skipped, but stay in the row.
SkipHost(j) ==
    /\ At(j, {"create"}, "group")
    /\ Fault
    /\ \E h \in job[j].hosts :
         /\ job[j].hosts # {h}
         /\ job' = [job EXCEPT ![j].hosts = @ \ {h}, ![j].todo = @ \ {h}]
    /\ UNCHANGED <<row, names, outside, mapping, marred, started>>

\* The uuids are written to the row, which has no column for an export policy.
PersistSome(j) ==
    /\ At(j, {"create"}, "persist")
    /\ row' = IF HasRow(job[j].ds)
              THEN [row EXCEPT ![job[j].ds].ids = job[j].made \ {"group", "policy"}]
              ELSE row
    /\ Step(j)
    /\ UNCHANGED <<names, outside, mapping, marred, budget>>
Persist(j) ==
    /\ At(j, {"create"}, "persist")
    /\ row' = IF HasRow(job[j].ds)
              THEN [row EXCEPT ![job[j].ds].ids = job[j].made \ {"policy"}] ELSE row
    /\ Step(j)
    /\ UNCHANGED <<names, outside, mapping, marred, budget>>

\* A device shows if the LUN is mapped and the thread knows it.
Shows(j) ==
    /\ "map" \in ontap[job[j].ds]
    /\ "map" \in job[j].made \union job[j].read.ids

\* A host logs in and finds the device.
Attach(j) ==
    /\ At(j, {"create", "join"}, "attach")
    /\ Shows(j)
    /\ \E h \in job[j].todo :
         /\ session' = [session EXCEPT ![h] = @ \union {Target(job[j].ds)}]
         /\ Done(j, h)
    /\ UNCHANGED <<row, names, ontap, cfg, mapping, marred, budget>>

\* No device: find_device_by_serial and its NVMe kin give up.
AttachFails(j) ==
    LET d == job[j].ds IN
    /\ At(j, {"create", "join"}, "attach")
    /\ IF Shows(j)
       THEN /\ Fault
            /\ \E h \in job[j].todo :
                 session' = [session EXCEPT ![h] = @ \union {Target(d)}]
       ELSE UNCHANGED <<session, faults>>
    /\ IF job[j].kind = "create" THEN Raises(j) ELSE End(j) /\ UNCHANGED row
    /\ UNCHANGED <<names, ontap, cfg, mapping, marred, started>>

\* storage.cfg when host h writes who is behind the id of d
Storage(h, d, who) ==
    [k \in Hosts |-> IF Clustered \/ k = h THEN [cfg[k] EXCEPT ![id[d]] = who]
                     ELSE cfg[k]]

\* A new NFS datastore is registered through one host.
Once(j) == proto[job[j].ds] = "nfs" /\ job[j].kind = "create"

\* pvesm add, unless the storage id exists: nobody asks whose it is.  Proxmox VE
\* mounts an NFS volume to add it.
Register(j) ==
    LET d == job[j].ds IN
    /\ At(j, {"create", "join"}, "register")
    /\ proto[d] = "nfs" => "volume" \in ontap[d]
    /\ \E h \in job[j].todo :
         /\ cfg' = IF cfg[h][id[d]] = None THEN Storage(h, d, d) ELSE cfg
         /\ IF Once(j) THEN Step(j) ELSE Done(j, h)
    /\ UNCHANGED <<row, names, ontap, session, mapping, marred, budget>>

\* A failure is a warning, except that a new NFS datastore is left in error
\* (and its job shows as done).
RegisterFails(j) ==
    /\ At(j, {"create", "join"}, "register")
    /\ IF proto[job[j].ds] = "nfs" /\ "volume" \notin ontap[job[j].ds]
       THEN UNCHANGED faults ELSE Fault
    /\ \E h \in job[j].todo :
         IF Once(j) THEN Raises(j) ELSE Done(j, h) /\ UNCHANGED row
    /\ UNCHANGED <<names, outside, mapping, marred, started>>

Activate(j) ==
    /\ At(j, {"create"}, "active")
    /\ SetStatus(job[j].ds, "active")
    /\ Step(j)
    /\ UNCHANGED <<names, outside, mapping, marred, budget>>

\* INSERT ... ON CONFLICT(pve_cluster_id, pve_storage_id) DO UPDATE
AddMappings(j) ==
    LET d == job[j].ds IN
    /\ At(j, {"create", "join"}, "mappings")
    /\ mapping' = [h \in Hosts |-> IF h \in job[j].hosts
                                   THEN [mapping[h] EXCEPT ![id[d]] = d]
                                   ELSE mapping[h]]
    /\ IF job[j].kind = "create" THEN End(j) ELSE Step(j)
    /\ UNCHANGED <<row, names, outside, marred, budget>>

-----------------------------------------------------------------------------
(* Removing, and hosts that join or leave *)

\* The other jobs read the row first; a faster removal may have deleted it.
ReadRow(j) ==
    LET d == job[j].ds
        hs == IF job[j].kind = "remove" THEN row[d].hosts ELSE job[j].hosts IN
    /\ At(j, {"remove", "join", "leave"}, "read")
    /\ IF HasRow(d)
       THEN job' = [job EXCEPT ![j].pc = @ + 1, ![j].read = row[d],
                               ![j].hosts = hs, ![j].todo = hs]
       ELSE End(j)
    /\ UNCHANGED <<row, names, outside, mapping, marred, budget>>

\* The endpoint is gone, say.
RemoveRaises(j) ==
    /\ At(j, {"remove"}, "detach")
    /\ Fault /\ Raises(j)
    /\ UNCHANGED <<names, outside, mapping, marred, started>>

\* pvesm remove, vgchange -an, and the end of the session.
UnregisterAll(d, h) == [k \in Hosts |-> [i \in Ids |-> None]]
Unregister(d, h) == Storage(h, d, None)

Detach(j) ==
    LET d == job[j].ds IN
    /\ At(j, {"remove", "leave"}, "detach")
    /\ job[j].todo # {}
    /\ \E h \in job[j].todo :
         /\ cfg' = Unregister(d, h)
         /\ session' = [session EXCEPT ![h] = @ \ {Target(d)}]
         /\ Done(j, h)
    /\ UNCHANGED <<row, names, ontap, mapping, marred, budget>>

\* "cannot reach host" is a warning.
DetachFails(j) ==
    /\ At(j, {"remove", "leave"}, "detach")
    /\ \E h \in job[j].todo : Done(j, h)
    /\ Fault
    /\ marred' = marred \union {id[job[j].ds]}
    /\ UNCHANGED <<row, names, outside, mapping, started>>

DetachNobody(j) ==
    /\ At(j, {"remove"}, "detach")
    /\ job[j].todo = {}
    /\ Step(j)
    /\ UNCHANGED <<row, names, outside, mapping, marred, budget>>

\* The export policy is found through the volume.
Found(r) == r.ids \union IF "volume" \in r.ids THEN {"policy"} ELSE {}

\* What the row names is deleted, if that was asked for; the mapping always.
\* ONTAP keeps what is mapped.
Deletes(j, o) ==
    /\ o \in Found(job[j].read)
    /\ job[j].delete \/ o = "map"
    /\ o = "map" \/ "map" \notin ontap[job[j].ds]
    /\ o = "policy" => "volume" \in ontap[job[j].ds]

RemoveObject(j) ==
    \E o \in Objects :
        /\ At(j, {"remove"}, o)
        /\ ontap' = IF Deletes(j, o)
                    THEN [ontap EXCEPT ![job[j].ds] = @ \ {o}] ELSE ontap
        /\ Step(j)
        /\ UNCHANGED <<row, names, session, cfg, mapping, marred, budget>>

\* The call fails, or the asynchronous job of ONTAP does, which nobody polls.
RemoveObjectFails(j) ==
    /\ \E o \in Objects : At(j, {"remove"}, o) /\ Deletes(j, o)
    /\ Fault /\ Step(j)
    /\ marred' = marred \union {id[job[j].ds]}
    /\ UNCHANGED <<row, names, outside, mapping, started>>

DeleteRow(j) ==
    LET d == job[j].ds IN
    /\ At(j, {"remove"}, "delete")
    /\ mapping' = [h \in Hosts |-> IF h \in job[j].read.hosts
                                   THEN [mapping[h] EXCEPT ![id[d]] = None]
                                   ELSE mapping[h]]
    /\ row' = [row EXCEPT ![d] = NoRow]
    /\ End(j)
    /\ UNCHANGED <<names, outside, marred, budget>>

\* The host list is extended from the copy that was read at the start.
RecordHost(j) ==
    LET d == job[j].ds IN
    /\ At(j, {"join"}, "record")
    /\ row' = IF HasRow(d) /\ ~(job[j].hosts \subseteq job[j].read.hosts)
              THEN [row EXCEPT ![d].hosts = job[j].read.hosts \union job[j].hosts]
              ELSE row
    /\ End(j)
    /\ UNCHANGED <<names, outside, mapping, marred, budget>>

\* _remove_host_from_ds_record reads the list again.
ForgetHost(j) ==
    LET d == job[j].ds IN
    /\ At(j, {"leave"}, "record")
    /\ row' = IF HasRow(d) THEN [row EXCEPT ![d].hosts = @ \ job[j].hosts] ELSE row
    /\ mapping' = [h \in Hosts |-> IF h \in job[j].hosts
                                   THEN [mapping[h] EXCEPT ![id[d]] = None]
                                   ELSE mapping[h]]
    /\ End(j)
    /\ UNCHANGED <<names, outside, marred, budget>>

Crash ==
    /\ Fault
    /\ \E j \in Jobs : job[j] # IdleJob
    /\ marred' = marred \union {id[d] : d \in {e \in Datastores : Busy(e)}}
    /\ job' = [j \in Jobs |-> IdleJob]
    /\ UNCHANGED <<row, names, outside, mapping, started>>

-----------------------------------------------------------------------------
Requests ==
    \E d \in Datastores, j \in Jobs :
        \/ \E i \in Ids, hs \in SUBSET Hosts \ {{}} :
             Create(d, i, hs, j)
        \/ \E delete \in BOOLEAN : Remove(d, delete, j)
        \/ \E h \in Hosts : AddHost(d, h, j) \/ RemoveHost(d, h, j)

Works(j) ==
    \/ MakeObject(j) \/ MakeObjectFails(j) \/ SkipHost(j) \/ Persist(j)
    \/ Attach(j) \/ AttachFails(j) \/ Register(j) \/ RegisterFails(j)
    \/ Activate(j) \/ AddMappings(j) \/ ReadRow(j) \/ RemoveRaises(j)
    \/ Detach(j) \/ DetachFails(j) \/ DetachNobody(j)
    \/ RemoveObject(j) \/ RemoveObjectFails(j) \/ DeleteRow(j)
    \/ RecordHost(j) \/ ForgetHost(j)

Next == Requests \/ (\E j \in Jobs : Works(j)) \/ Crash

Spec == Init /\ [][Next]_vars

-----------------------------------------------------------------------------
(* Properties *)

JobType ==
    [kind : {"idle", "create", "remove", "join", "leave"},
     ds : Datastores \union {None}, pc : 1 .. 9, hosts : SUBSET Hosts,
     todo : SUBSET Hosts, made : SUBSET Objects,
     read : [status : {"none", "provisioning", "active", "removing", "error"},
             ids : SUBSET Objects, hosts : SUBSET Hosts],
     delete : BOOLEAN, alone : BOOLEAN]

\* The types of all variables.
TypeOK ==
    /\ row \in [Datastores -> [status : {"none", "provisioning", "active",
                                         "removing", "error"},
                               ids : SUBSET Objects, hosts : SUBSET Hosts]]
    /\ proto \in Protocols
    /\ id \in [Datastores -> Ids \union {None}]
    /\ ontap \in [Datastores -> SUBSET Objects]
    /\ session \in [Hosts -> SUBSET (Datastores \union {IscsiTarget})]
    /\ cfg \in [Hosts -> [Ids -> Datastores \union {None}]]
    /\ mapping \in [Hosts -> [Ids -> Datastores \union {None}]]
    /\ job \in [Jobs -> JobType]
    /\ overlapped \subseteq Datastores /\ marred \subseteq Ids
    /\ started \in 0 .. MaxJobs /\ faults \in 0 .. MaxFaults

\* Before a host is touched the row names every object on ONTAP that the host
\* could depend on, so that removing the datastore after any failure or crash
\* finds them all.  (Not so on NFS: a volume whose creation was not answered is
\* not recorded, yet a host may be added to the datastore that is in error.)
TouchedMeansRecorded ==
    \A d \in Datastores :
        (/\ HasRow(d) /\ d \notin overlapped /\ proto[d] # "nfs"
         /\ \E h \in Hosts : d \in session[h] \/ cfg[h][id[d]] = d)
        => ontap[d] \subseteq row[d].ids

\* The entry of storage.cfg of an active datastore shows its own volume, never
\* that of an earlier datastore of that name - as long as no job on that
\* name was overlapped, died or failed to clean up.
MountsOwn ==
    \A d \in Datastores, h \in Hosts :
        row[d].status = "active" /\ id[d] \notin marred =>
            cfg[h][id[d]] \in {d, None}

\* When a removal that was to delete everything, was alone, and none of whose
\* calls failed, deletes the row, nothing that the row named is left: no
\* object, nor the export policy of its volume, no entry, no mapping on a
\* recorded host.
RemovalIsComplete ==
    [][\A j \in Jobs :
          LET d == job[j].ds IN
          (/\ job[j].kind = "remove" /\ HasRow(d) /\ row'[d].status = "none"
           /\ job[j].delete /\ job[j].alone /\ id[d] \notin marred)
          => /\ ontap[d] \intersect Found(row[d]) = {}
             /\ \A h \in row[d].hosts :
                    /\ cfg[h][id[d]] # d /\ d \notin session[h]
                    /\ mapping'[h][id[d]] # d]_vars

\* A job leaves the other datastores alone: what it changes at the hosts of a
\* datastore nobody works on is only the session of the iSCSI target that
\* the two share.
LeavesOthersAlone ==
    [][\A d \in Datastores :
          (~Busy(d) /\ HasRow(d) /\ id[d] \notin marred) =>
              /\ ontap'[d] = ontap[d]
              /\ \A h \in Hosts : /\ cfg[h][id[d]] = d => cfg'[h][id[d]] = d
                                  /\ d \in session[h] => d \in session'[h]]_vars
=============================================================================
