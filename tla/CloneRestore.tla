----------------------------- MODULE CloneRestore -----------------------------
(***************************************************************************)
(* Clones and restores of virtual machines (core/clone_engine.py,          *)
(* core/restore_engine.py) on one datastore and one host.                  *)
(*                                                                         *)
(* A request writes a row and starts a thread.  Nothing keeps two jobs off *)
(* one machine, or off what the host has only one of: the names "base1",   *)
(* "base2" of imported volume groups, the session with the target of the   *)
(* secondary, the list of NVMe devices.  A job is a program, one step per  *)
(* call that can fail or be overtaken.  The clean-up calls of a handler    *)
(* are one step.                                                           *)
(*                                                                         *)
(* A job stands for the snapshot it reads: a disk that holds j is a copy   *)
(* of the snapshot that j was asked for.                                   *)
(* A definition in front of another one and named after it is a slip the   *)
(* code could have made; no action uses it.                                *)
(***************************************************************************)
EXTENDS Naturals, FiniteSets, Sequences, FiniteSetsExt

CONSTANTS
    Jobs,       \* rows of netapp_jobs
    Vmids,      \* ids of machines
    Existing,   \* the machines there are, running, with disks on the datastore
    NDisks,     \* disks of a machine
    Requested,  \* the requests: pairs of a kind and a protocol
    None, Live, Torn,  \* contents of a disk: none, as at first, incomplete
    MaxFaults   \* bound on failed calls, cancellations and crashes

ASSUME CloneRestoreAssumption ==
    /\ IsFiniteSet(Jobs) /\ Existing \subseteq Vmids
    /\ NDisks \in Nat \ {0} /\ MaxFaults \in Nat
    /\ {None, Live, Torn} \intersect Jobs = {}

VARIABLES
    status,    \* of the rows
    job,       \* the threads
    conf,      \* /etc/pve/qemu-server/<vmid>.conf: what it is, and by which job
    disk,      \* [Vmids -> [1 .. NDisks -> what it holds]]
    running,   \* machines
    ontap,     \* [Jobs -> temporary objects]
    wired,     \* jobs whose clone the host has a device or mount of
    vg,        \* [number -> the job whose clone is the group base<number>]
    wiped,     \* jobs the group on whose clone was removed
    raced,     \* history: machines that two jobs were at work on at a time
    unstopped, \* history: machines that were not stopped when asked to be
    mixed,     \* history: jobs whose copy failed unnoticed, was cancelled, or
               \* whose clone was taken for another one's
    leaky,     \* history: jobs that failed to clean up, or died
    faults

vars == <<status, job, conf, disk, running, ontap, wired, vg, wiped, raced,
          unstopped, mixed, leaky, faults>>
pve == <<conf, disk, running>>
host == <<wired, vg, wiped>>
history == <<raced, unstopped, mixed, leaky>>

NoConf == [by |-> None, is |-> "none"]
Idle == [kind |-> "none", proto |-> "nfs", vm |-> None, scope |-> {}, size |-> 0,
         pc |-> 1, disk |-> 1, vg |-> 0, dev |-> None, before |-> {}, src |-> None,
         known |-> {}, held |-> FALSE, end |-> "idle"]
Names == 1 .. Cardinality(Jobs)

Init ==
    /\ status = [j \in Jobs |-> "none"]
    /\ job = [j \in Jobs |-> Idle]
    /\ conf = [v \in Vmids |-> IF v \in Existing THEN [by |-> None, is |-> "vm"]
                               ELSE NoConf]
    /\ disk = [v \in Vmids |-> [d \in 1 .. NDisks |->
                                   IF v \in Existing THEN Live ELSE None]]
    /\ running = Existing
    /\ ontap = [j \in Jobs |-> {}]
    /\ wired = {} /\ wiped = {}
    /\ vg = [n \in Names |-> None]
    /\ raced = {} /\ unstopped = {} /\ mixed = {} /\ leaky = {}
    /\ faults = 0

-----------------------------------------------------------------------------
(* The programs *)

TempClone == <<"volume", "group", "device", "import">>
NvmeTempClone == <<"list", "volume", "group", "device", "import">>
DrNvmeTempClone == <<"volume", "group", "list", "device", "import">>

CloneNfs == <<"check", "reserve", "file", "conf", "set", "start", "end">>
CloneLiveNfs == <<"check", "reserve", "file", "conf", "set", "start", "end">>
CloneSan(t) == t \o <<"check", "reserve", "copy", "cleanvg", "drop", "conf", "set",
                      "start", "end">>
CloneLiveSan(t) == <<"snap">> \o CloneSan(t) \o <<"unsnap">>
DrCloneNfs == <<"mount", "check", "reserve", "file", "conf", "set", "start",
                "drop", "end">>
DrCloneIscsi == <<"check", "reserve">> \o TempClone \o
                <<"copy", "cleanvg", "drop", "conf", "start", "end">>
DrCloneNvme == <<"check", "reserve">> \o DrNvmeTempClone \o
               <<"copy", "cleanvg", "drop", "conf", "start", "end">>
RestoreSfsr == <<"stop", "file", "conf", "start", "end">>
RestoreFlexclone == <<"stop", "volume", "mount", "file", "conf", "start", "drop",
                      "end">>
RestoreSanSingleStopsLate(t) == t \o <<"copy", "stop", "stub", "cleanvg", "drop",
                                      "conf", "start", "end">>
RestoreSanSingle(t) == <<"stop", "stub">> \o t \o
                       <<"copy", "cleanvg", "drop", "conf", "start", "end">>
RestoreDrNfs == <<"stop", "stub", "mount", "file", "conf", "start", "drop", "end">>
RestoreDrIscsi == <<"stop", "stub">> \o TempClone \o
                  <<"copy", "cleanvg", "drop", "conf", "start", "end">>
RestoreDrNvme == <<"stop", "stub">> \o DrNvmeTempClone \o
                 <<"copy", "cleanvg", "drop", "conf", "start", "end">>
RevertSan == <<"stop", "deactivate", "revert", "conf", "start", "end">>
RevertNfs == <<"stop", "revert", "conf", "start", "end">>

Programs ==
    [clone     |-> [nfs   |-> CloneNfs, iscsi |-> CloneSan(TempClone),
                    nvme  |-> CloneSan(NvmeTempClone)],
     cloneLive |-> [nfs   |-> CloneLiveNfs, iscsi |-> CloneLiveSan(TempClone),
                    nvme  |-> CloneLiveSan(NvmeTempClone)],
     drClone   |-> [nfs   |-> DrCloneNfs, iscsi |-> DrCloneIscsi,
                    nvme  |-> DrCloneNvme],
     restore   |-> [nfs   |-> RestoreSfsr, iscsi |-> RestoreSanSingle(TempClone),
                    nvme  |-> RestoreSanSingle(NvmeTempClone)],
     flexclone |-> [nfs   |-> RestoreFlexclone],
     restoreDr |-> [nfs   |-> RestoreDrNfs, iscsi |-> RestoreDrIscsi,
                    nvme  |-> RestoreDrNvme],
     revert    |-> [nfs   |-> RevertNfs, iscsi |-> RevertSan,
                    nvme  |-> RevertSan]]

\* There is a program for what is asked for: a restore from a clone of the volume
\* is one of files.
ASSUME RequestsAssumption ==
    \A r \in Requested : r[1] \in DOMAIN Programs /\ r[2] \in DOMAIN Programs[r[1]]

Clones == {"clone", "cloneLive", "drClone"}
Dr == {"drClone", "restoreDr"}

Active(j) == job[j].end \notin {"idle", "over"}
At(j, step) ==
    /\ job[j].end = "none"
    /\ Programs[job[j].kind][job[j].proto][job[j].pc] = step
AtDisk(j, step) == At(j, step) /\ job[j].size # 0  \* with a disk to do
Fault == faults < MaxFaults /\ faults' = faults + 1
Onward(r) == [r EXCEPT !.pc = @ + 1]
Step(j) == job' = [job EXCEPT ![j] = Onward(@)]
Over(j) == [Idle EXCEPT !.kind = job[j].kind, !.proto = job[j].proto,
                        !.vm = job[j].vm, !.end = "over"]

\* The row says so first; what the handler does then is in Handle.
Raise(j, end) ==
    /\ status' = [status EXCEPT ![j] = end]
    /\ job' = [job EXCEPT ![j].end = end, ![j].src = None]

-----------------------------------------------------------------------------
(* Requests *)

\* Without a manifest on the secondary, the disks of the snapshot are searched:
\* by _run_dr_clone in the directory of the machine, by _run_restore_dr in that
\* of all machines.
Discovers(kind, proto, v, scope) ==
    IF kind = "restoreDr" /\ proto = "nfs" THEN scope \in {{v}, Existing \union {v}}
    ELSE IF kind = "revert" THEN scope = Existing
    ELSE scope = {v}

\* A revert touches all there is on the volume, also what is newer.
Touched(kind, scope) == IF kind = "revert" THEN Vmids ELSE scope

\* The list of disks may be empty: that of a manifest, or, for a replica over iSCSI
\* or NVMe, where there is no row of the snapshot (a restore), or the volume group
\* could not be listed (a clone).  The other kinds raise then.
Sizes(kind, proto) ==
    IF <<kind, proto>> \in {<<"restore", "nfs">>, <<"flexclone", "nfs">>} \union
                          (Dr \X {"iscsi", "nvme"})
    THEN {0, NDisks} ELSE {NDisks}

Request(j, v, kind, proto, scope, size) ==
    /\ status[j] = "none"
    /\ kind = "revert" => v \in Existing
    /\ Discovers(kind, proto, v, scope)
    /\ size \in Sizes(kind, proto)
    /\ status' = [status EXCEPT ![j] = "running"]
    /\ job' = [job EXCEPT ![j] = [Idle EXCEPT !.kind = kind, !.proto = proto,
                                              !.vm = v, !.scope = scope,
                                              !.size = size, !.end = "none"]]
    /\ raced' = raced \union
                UNION {Touched(kind, scope) \intersect Touched(job[k].kind, job[k].scope) :
                          k \in {k \in Jobs : Active(k)}}
    /\ unstopped' = unstopped \union
                    (Touched(kind, scope) \ IF kind = "revert" THEN scope ELSE {v})
    /\ UNCHANGED <<pve, ontap, host, mixed, leaky, faults>>

-----------------------------------------------------------------------------
(* The VMID: is_vmid_in_use and the placeholder, two calls *)

CheckNothing(j) == At(j, "check") /\ Step(j) /\ UNCHANGED status
is_vmid_in_use(j) ==
    /\ At(j, "check")
    /\ IF conf[job[j].vm].is = "none" THEN Step(j) /\ UNCHANGED status
       ELSE Raise(j, "failed")

Check(j) == is_vmid_in_use(j) /\ UNCHANGED <<pve, ontap, host, history, faults>>

reserve_vmid(j) ==
    /\ At(j, "reserve")
    /\ conf' = [conf EXCEPT ![job[j].vm] = [by |-> j, is |-> "held"]]
    /\ job' = [job EXCEPT ![j] = [Onward(@) EXCEPT !.held = TRUE]]
    /\ UNCHANGED <<status, disk, running, ontap, host, history, faults>>

\* [ -f conf ] || cat > conf; it never raises, and nothing removes the stub.
_ensure_vmid_placeholder(j) ==
    /\ At(j, "stub")
    /\ \/ /\ conf' = IF conf[job[j].vm].is = "none"
                     THEN [conf EXCEPT ![job[j].vm] = [by |-> j, is |-> "stub"]]
                     ELSE conf
          /\ UNCHANGED faults
       \/ Fault /\ UNCHANGED conf
    /\ Step(j)
    /\ UNCHANGED <<status, disk, running, ontap, host, history>>

-----------------------------------------------------------------------------
(* The temporary clone *)

MakeObject(j) ==
    \E o \in {"snap", "volume", "group"} :
        /\ At(j, o)
        /\ ontap' = [ontap EXCEPT ![j] = @ \union {o}]
        /\ job' = [job EXCEPT ![j] = [Onward(job[j]) EXCEPT !.known = @ \union {o}]]
        /\ UNCHANGED <<status, pve, host, history, faults>>

\* Without the IQN of the host the clone is mapped to the group of production.
SharedGroup(j) ==
    /\ At(j, "group")
    /\ job[j].kind \notin Dr /\ job[j].proto = "iscsi"
    /\ Step(j)
    /\ UNCHANGED <<status, pve, ontap, host, history, faults>>

\* ls /dev/nvme*n*: all that is there.
NvmeDevices(S) == {k \in S : job[k].proto = "nvme"}

\* Connect, rescan, and find the device: by its serial number, or, with NVMe,
\* as one that was not in the list.
Device(j) ==
    /\ At(j, "device")
    /\ \E dev \in IF job[j].proto = "nvme"
                  THEN NvmeDevices(wired \union {j}) \ job[j].before ELSE {j} :
         /\ job' = [job EXCEPT ![j] = [Onward(@) EXCEPT !.dev = dev, !.before = {}]]
         /\ mixed' = IF dev = j THEN mixed ELSE mixed \union {j, dev}
    /\ wired' = wired \union {j}
    /\ UNCHANGED <<status, pve, ontap, vg, wiped, raced, unstopped, leaky, faults>>

nvme_list_devices(j) ==
    /\ At(j, "list")
    /\ job' = [job EXCEPT ![j] = [Onward(@) EXCEPT !.before = NvmeDevices(wired)]]
    /\ UNCHANGED <<status, pve, ontap, host, history, faults>>

Mount(j) ==
    /\ At(j, "mount")
    /\ wired' = wired \union {j}
    /\ Step(j)
    /\ UNCHANGED <<status, pve, ontap, vg, wiped, history, faults>>

\* A group is busy while one of its LVs is read.  A group base1 that is not busy
\* counts as left by an earlier job: it is removed, with what describes it on
\* its clone.  Then vgimportclone takes the first free name.
Busy(n) == \E k \in Jobs : job[k].vg = n /\ job[k].src # None

vg_import_clone(j) ==
    LET stale == vg[1] # None /\ ~Busy(1)
        left == IF stale THEN [vg EXCEPT ![1] = None] ELSE vg
        bad == IF stale THEN wiped \union {vg[1]} ELSE wiped
        name == Min({n \in Names : left[n] = None})
    IN  /\ At(j, "import")
        /\ wiped' = bad
        /\ mixed' = mixed \union {k \in Jobs : stale /\ job[k].vg = 1}
        /\ IF job[j].dev \in wired \ bad /\ \A n \in Names : left[n] # job[j].dev
           THEN /\ vg' = [left EXCEPT ![name] = job[j].dev]
                /\ job' = [job EXCEPT ![j] = [Onward(@) EXCEPT !.vg = name]]
                /\ UNCHANGED status
           ELSE vg' = left /\ Raise(j, "failed")
        /\ UNCHANGED <<pve, ontap, wired, raced, unstopped, leaky, faults>>

-----------------------------------------------------------------------------
(* The disks *)

NextDiskTooFar(r) == IF r.disk > NDisks THEN [Onward(r) EXCEPT !.disk = 1]
                     ELSE [r EXCEPT !.disk = @ + 1]
NextDiskTooSoon(r) == IF r.disk + 1 >= NDisks THEN [Onward(r) EXCEPT !.disk = 1]
                      ELSE [r EXCEPT !.disk = @ + 1]
NextDisk(r) == IF r.disk = NDisks THEN [Onward(r) EXCEPT !.disk = 1]
               ELSE [r EXCEPT !.disk = @ + 1]

\* Neither lvcreate nor a file clone replaces what is there.
Taken(j) ==
    /\ job[j].kind \in Clones /\ <<job[j].kind, job[j].proto>> # <<"drClone", "nfs">>
    /\ disk[job[j].vm][job[j].disk] # None

Put(j, vms, content) ==
    disk' = [v \in Vmids |-> IF v \in vms
                             THEN [disk[v] EXCEPT ![job[j].disk] = content]
                             ELSE disk[v]]

\* Activate the LV, which takes its device, and create the one to write.
CopyBegins(j) ==
    LET src == vg[job[j].vg] IN
    /\ AtDisk(j, "copy") /\ job[j].src = None
    /\ IF src \in wired /\ ~Taken(j)
       THEN /\ job' = [job EXCEPT ![j].src = src]
            /\ Put(j, {job[j].vm}, Torn)
            /\ UNCHANGED status
       ELSE Raise(j, "failed") /\ UNCHANGED disk
    /\ UNCHANGED <<conf, running, ontap, host, history, faults>>

\* The status of dd is lost: lv_copy returns as if all had been copied.
lv_copy(j) ==
    /\ AtDisk(j, "copy") /\ job[j].src # None
    /\ job' = [job EXCEPT ![j] = [NextDisk(@) EXCEPT !.src = None]]
    /\ \/ /\ job[j].src \in wired
          /\ Put(j, {job[j].vm}, job[j].src)
          /\ mixed' = IF job[j].src = j THEN mixed ELSE mixed \union {j}
          /\ UNCHANGED faults
       \/ /\ job[j].src \notin wired \/ faults < MaxFaults
          /\ faults' = IF job[j].src \in wired THEN faults + 1 ELSE faults
          /\ mixed' = mixed \union {j}
          /\ UNCHANGED disk
    /\ UNCHANGED <<status, conf, running, ontap, host, raced, unstopped, leaky>>

\* clone_file, restore_file, qemu-img convert or cp.
File(j) ==
    /\ AtDisk(j, "file")
    /\ IF Taken(j) THEN Raise(j, "failed") /\ UNCHANGED disk
       ELSE /\ Put(j, job[j].scope, j)
            /\ job' = [job EXCEPT ![j] = NextDisk(@)]
            /\ UNCHANGED status
    /\ UNCHANGED <<conf, running, ontap, host, history, faults>>

FileFails(j) ==
    /\ AtDisk(j, "file") /\ ~Taken(j)
    /\ Fault /\ Raise(j, "failed")
    /\ Put(j, job[j].scope, Torn)
    /\ UNCHANGED <<conf, running, ontap, host, history>>

\* The loop over an empty list.
NoDisks(j) ==
    /\ At(j, "copy") \/ At(j, "file")
    /\ job[j].size = 0
    /\ Step(j)
    /\ UNCHANGED <<status, pve, ontap, host, history, faults>>

\* The volume is as it was: machines that are newer than the snapshot lose
\* their disks.
restore_volume_snapshot_san(j) ==
    /\ At(j, "revert")
    /\ disk' = [v \in Vmids |-> [d \in 1 .. NDisks |->
                                    IF v \in Existing THEN j ELSE None]]
    /\ Step(j)
    /\ UNCHANGED <<status, conf, running, ontap, host, history, faults>>

\* vgchange -an, on one host: it fails if a machine of that host still runs.
vg_deactivate(j) ==
    /\ At(j, "deactivate")
    /\ \/ Step(j) /\ UNCHANGED status
       \/ running \intersect job[j].scope # {} /\ Raise(j, "failed")
    /\ UNCHANGED <<pve, ontap, host, history, faults>>

-----------------------------------------------------------------------------
(* The machine *)

Machines(j) == IF job[j].kind = "revert" THEN job[j].scope ELSE {job[j].vm}

\* It gives up after a minute, and never raises.
_vm_stop(j) ==
    /\ At(j, "stop")
    /\ Step(j)
    /\ \/ /\ running' = running \ Machines(j)
          /\ UNCHANGED <<unstopped, faults>>
       \/ /\ Fault
          /\ unstopped' = unstopped \union Machines(j)
          /\ UNCHANGED running
    /\ UNCHANGED <<status, conf, disk, ontap, host, raced, mixed, leaky>>

\* From here on a clone of a replica has no placeholder; the others still count
\* the file as theirs to remove.
WriteConf(j) ==
    /\ At(j, "conf")
    /\ conf' = [v \in Vmids |-> IF v \in Machines(j) THEN [by |-> j, is |-> "vm"]
                                ELSE conf[v]]
    /\ job' = [job EXCEPT ![j] = [Onward(job[j]) EXCEPT
                                     !.held = @ /\ job[j].kind # "drClone"]]
    /\ UNCHANGED <<status, disk, running, ontap, host, history, faults>>

\* A restore of a replica does without a configuration, on SAN only if there is no
\* row of the snapshot.
SkipConf(j) ==
    /\ At(j, "conf") /\ job[j].kind = "restoreDr"
    /\ job[j].proto = "nfs" \/ job[j].size = 0
    /\ Step(j)
    /\ UNCHANGED <<status, pve, ontap, host, history, faults>>

\* qm set --name
SetName(j) ==
    /\ At(j, "set") /\ Step(j)
    /\ UNCHANGED <<status, pve, ontap, host, history, faults>>

\* If asked to, and as far as Proxmox does.
_vm_start(j) ==
    /\ At(j, "start")
    /\ Step(j)
    /\ running' \in {running, running \union
                        {v \in Machines(j) : conf[v].is \in {"vm", "stub"}}}
    /\ UNCHANGED <<status, conf, disk, ontap, host, history, faults>>

-----------------------------------------------------------------------------
(* The end *)

\* With j's device go, for a replica on iSCSI, those of all such jobs: they
\* share the session.  The device takes its volume group along.
SharesSession(k) == job[k].kind \in Dr /\ job[k].proto = "iscsi"
Unplugged(j) ==
    wired \intersect ({j} \union
        IF SharesSession(j) THEN {k \in Jobs : SharesSession(k)} ELSE {})

\* vgchange and vgremove go by the name.
CleanGroup(j, devices) ==
    LET behind == IF job[j].vg = 0 THEN {} ELSE {vg[job[j].vg]} \ {None} IN
    /\ wiped' = wiped \union behind
    /\ vg' = [n \in Names |-> IF vg[n] \in behind \union devices THEN None ELSE vg[n]]

cleanup_restore_vg(j) ==
    /\ At(j, "cleanvg")
    /\ job' = [job EXCEPT ![j] = [Onward(@) EXCEPT !.vg = 0]]
    /\ \/ CleanGroup(j, {}) /\ UNCHANGED faults
       \/ Fault /\ UNCHANGED <<vg, wiped>>
    /\ UNCHANGED <<status, pve, ontap, wired, history>>

\* Flush or log out or unmount, and delete the objects; failures are warnings -
\* but for the deletion of the subsystem on the secondary (DropRaises).
Drop(j) ==
    /\ At(j, "drop")
    /\ wired' = wired \ Unplugged(j)
    /\ CleanGroup(j, Unplugged(j))
    /\ job' = [job EXCEPT ![j] = [Onward(job[j]) EXCEPT
                                     !.known = @ \intersect {"snap"}]]
    /\ \/ /\ ontap' = [ontap EXCEPT ![j] = @ \ (job[j].known \ {"snap"})]
          /\ UNCHANGED <<leaky, faults>>
       \/ Fault /\ leaky' = leaky \union {j} /\ UNCHANGED ontap
    /\ UNCHANGED <<status, pve, raced, unstopped, mixed>>

\* The host is off the subsystem; the objects are still known.
DropRaises(j) ==
    /\ At(j, "drop") /\ job[j].kind \in Dr /\ job[j].proto = "nvme"
    /\ Fault /\ Raise(j, "failed")
    /\ wired' = wired \ Unplugged(j)
    /\ CleanGroup(j, Unplugged(j))
    /\ UNCHANGED <<pve, ontap, history>>

Finish(j) ==
    /\ At(j, "end")
    /\ status' = [status EXCEPT ![j] = "done"]
    /\ job' = [job EXCEPT ![j] = IF "snap" \in @.known THEN Onward(@) ELSE Over(j)]
    /\ UNCHANGED <<pve, ontap, host, history, faults>>

\* The snapshot of a live clone.
RemoveSnapshot(j) ==
    /\ At(j, "unsnap")
    /\ \/ ontap' = [ontap EXCEPT ![j] = @ \ {"snap"}] /\ UNCHANGED <<leaky, faults>>
       \/ Fault /\ leaky' = leaky \union {j} /\ UNCHANGED ontap
    /\ job' = [job EXCEPT ![j] = Over(j)]
    /\ UNCHANGED <<status, pve, host, raced, unstopped, mixed>>

\* A call fails, without effect; at "stop", what is read before.
Raises(j) ==
    /\ job[j].end = "none"
    /\ Programs[job[j].kind][job[j].proto][job[j].pc] \in
           {"snap", "stop", "check", "reserve", "volume", "group", "device",
            "mount", "import", "copy", "file", "conf", "set", "deactivate", "revert"}
    /\ Fault /\ Raise(j, "failed")
    /\ UNCHANGED <<pve, ontap, host, history>>

\* An object is made, and the call that made it fails.
Unanswered(j) ==
    \E o \in {"volume", "group"} :
        /\ At(j, o)
        /\ Fault
        /\ ontap' = [ontap EXCEPT ![j] = @ \union {o}]
        /\ leaky' = leaky \union {j}
        /\ IF o = "group" /\ job[j].kind \notin Dr /\ job[j].proto = "iscsi"
           THEN Step(j) /\ UNCHANGED status ELSE Raise(j, "failed")
        /\ UNCHANGED <<pve, host, raced, unstopped, mixed>>

\* check_cancel, before each disk; a clone on SAN also asks before it makes its
\* temporary clone and before it imports the group.
CancelPoints(r) ==
    (IF <<r.kind, r.proto>> # <<"drClone", "nfs">> /\ r.size # 0
     THEN {"copy", "file"} ELSE {}) \union
    IF r.kind \in {"clone", "cloneLive"} /\ r.proto # "nfs"
    THEN {IF r.proto = "nvme" THEN "list" ELSE "volume", "import"} ELSE {}

Cancel(j) ==
    /\ \E step \in CancelPoints(job[j]) : At(j, step)
    /\ job[j].src = None
    /\ Fault /\ Raise(j, "cancelled")
    /\ mixed' = mixed \union {j}
    /\ UNCHANGED <<pve, ontap, host, raced, unstopped, leaky>>

\* Where the clean-up is in a finally, what follows asks only for a row that
\* does not say failed.
Outcome(j) == IF job[j].end = "cancelled"
                 /\ job[j].kind \in {"flexclone", "restoreDr"} /\ job[j].proto = "nfs"
              THEN "done" ELSE status[j]

HandleKeepsHeld(j) == FALSE
Releases(j) == job[j].held

\* Best effort, by the names and uuids the thread knows.
Handle(j) ==
    /\ job[j].end \in {"failed", "cancelled"}
    /\ status' = [status EXCEPT ![j] = Outcome(j)]
    /\ conf' = IF Releases(j) THEN [conf EXCEPT ![job[j].vm] = NoConf] ELSE conf
    /\ wired' = wired \ Unplugged(j)
    /\ CleanGroup(j, Unplugged(j))
    /\ ontap' = [ontap EXCEPT ![j] = @ \ job[j].known]
    /\ job' = [job EXCEPT ![j] = Over(j)]
    /\ UNCHANGED <<disk, running, history, faults>>

\* One of the calls fails, which is logged.
HandlePartly(j) ==
    /\ job[j].end \in {"failed", "cancelled"}
    /\ Fault /\ leaky' = leaky \union {j}
    /\ status' = [status EXCEPT ![j] = Outcome(j)]
    /\ \/ /\ job[j].held
          /\ wired' = wired \ Unplugged(j) /\ CleanGroup(j, Unplugged(j))
          /\ ontap' = [ontap EXCEPT ![j] = @ \ job[j].known]
          /\ UNCHANGED conf
       \/ /\ conf' = IF job[j].held THEN [conf EXCEPT ![job[j].vm] = NoConf] ELSE conf
          /\ \/ ontap' = [ontap EXCEPT ![j] = @ \ job[j].known] /\ UNCHANGED host
             \/ /\ wired' = wired \ Unplugged(j) /\ CleanGroup(j, Unplugged(j))
                /\ UNCHANGED ontap
    /\ job' = [job EXCEPT ![j] = Over(j)]
    /\ UNCHANGED <<disk, running, raced, unstopped, mixed>>

\* At boot the rows of the threads that died are set to failed.
Crash ==
    LET dead == {j \in Jobs : Active(j)} IN
    /\ dead # {} /\ Fault
    /\ job' = [j \in Jobs |-> IF j \in dead THEN Over(j) ELSE job[j]]
    /\ status' = [j \in Jobs |-> IF status[j] = "running" THEN "failed"
                                 ELSE status[j]]
    /\ leaky' = leaky \union dead
    /\ UNCHANGED <<pve, ontap, host, raced, unstopped, mixed>>

\* The scan knows the names on the primary; an administrator deletes.
_delete_orphan_san_clone(j) ==
    /\ status[j] \notin {"none", "running"} /\ job[j].kind \notin Dr
    /\ ontap[j] \intersect {"volume", "group"} # {}
    /\ ontap' = [ontap EXCEPT ![j] = @ \intersect {"snap"}]
    /\ UNCHANGED <<status, job, pve, host, history, faults>>

-----------------------------------------------------------------------------
Works(j) ==
    \/ Check(j) \/ reserve_vmid(j) \/ _ensure_vmid_placeholder(j)
    \/ MakeObject(j) \/ SharedGroup(j) \/ nvme_list_devices(j) \/ Device(j)
    \/ Mount(j) \/ vg_import_clone(j)
    \/ CopyBegins(j) \/ lv_copy(j) \/ File(j) \/ FileFails(j) \/ NoDisks(j)
    \/ restore_volume_snapshot_san(j) \/ vg_deactivate(j)
    \/ _vm_stop(j) \/ WriteConf(j) \/ SkipConf(j) \/ SetName(j) \/ _vm_start(j)
    \/ cleanup_restore_vg(j) \/ Drop(j) \/ DropRaises(j) \/ Finish(j) \/ RemoveSnapshot(j)
    \/ Raises(j) \/ Unanswered(j) \/ Cancel(j) \/ Handle(j) \/ HandlePartly(j)

Next ==
    \/ \E j \in Jobs :
         \/ \E v \in Vmids, r \in Requested, scope \in SUBSET Vmids,
                size \in {0, NDisks} : Request(j, v, r[1], r[2], scope, size)
         \/ Works(j) \/ _delete_orphan_san_clone(j)
    \/ Crash

Spec == Init /\ [][Next]_vars

-----------------------------------------------------------------------------
(* Properties *)

Content == Jobs \union {None, Live, Torn}

\* The types of all variables.
TypeOK ==
    /\ status \in [Jobs -> {"none", "running", "done", "failed", "cancelled"}]
    /\ \A j \in Jobs :
         /\ job[j].pc \in 1 .. 16 /\ job[j].disk \in 1 .. NDisks
         /\ job[j].vg \in Names \union {0} /\ job[j].size \in {0, NDisks}
         /\ job[j].dev \in Jobs \union {None}
         /\ job[j].before \subseteq Jobs /\ job[j].src \in Jobs \union {None}
         /\ job[j].known \subseteq ontap[j] \/ Active(j)
    /\ conf \in [Vmids -> [by : Jobs \union {None}, is : {"none", "held", "stub", "vm"}]]
    /\ disk \in [Vmids -> [1 .. NDisks -> Content]]
    /\ running \subseteq Vmids
    /\ ontap \in [Jobs -> SUBSET {"snap", "volume", "group"}]
    /\ wired \subseteq Jobs /\ wiped \subseteq Jobs
    /\ vg \in [Names -> Jobs \union {None}]
    /\ mixed \subseteq Jobs /\ leaky \subseteq Jobs
    /\ raced \subseteq Vmids /\ unstopped \subseteq Vmids
    /\ faults \in 0 .. MaxFaults

\* A job that reports done has put its snapshot on every disk of its machine, if
\* its list of disks was not empty, and a clone has its configuration - unless
\* another job was at work on the machine, took the volume group or the device,
\* dd failed, or the job was cancelled.  With an empty list, which a restore of a
\* replica has without a row of the snapshot, a job puts nothing on any disk and
\* reports done all the same.
DoneIsWhole ==
    [][\A j \in Jobs :
          (/\ status[j] # "done" /\ status'[j] = "done"
           /\ j \notin mixed /\ job[j].vm \notin raced) =>
              /\ job[j].size # 0 => \A d \in 1 .. NDisks : disk[job[j].vm][d] = j
              /\ job[j].kind \in Clones => conf[job[j].vm] = [by |-> j, is |-> "vm"]]_vars

\* A job that ended, however it ended, leaves none of its temporary objects on the
\* storage, no device or mount, no volume group and no placeholder of a clone, if
\* all its clean-up calls worked and none of its objects was made unnoticed.  The
\* stub of a restore is gone when that is done, but for the restore of a replica,
\* which may have no other configuration.  A job that failed or was cancelled
\* leaves its stub and the disks it has written: nothing here says it does not.
TemporariesGone ==
    \A j \in Jobs :
        job[j].end = "over" /\ j \notin leaky =>
            /\ ontap[j] = {} /\ j \notin wired
            /\ \A n \in Names : vg[n] # j
            /\ \A v \in Vmids : conf[v] # [by |-> j, is |-> "held"]
            /\ status[j] = "done" /\ job[j].kind # "restoreDr" =>
                  \A v \in Vmids : conf[v] # [by |-> j, is |-> "stub"]

\* The configuration of a machine is replaced or removed only by a restore of that
\* machine, or by the clone that wrote it - unless two jobs had its id.
ConfKept ==
    [][\A v \in Vmids :
          (conf[v].is = "vm" /\ v \notin raced /\ conf'[v] # conf[v]) =>
              \E j \in Jobs :
                  /\ Active(j) /\ v \in job[j].scope
                  /\ job[j].kind \in Clones => conf[v].by = j]_vars

\* No disk is written under a running machine - unless two jobs were at work on
\* it, it could not be stopped, or is a machine whose disks a restore from
\* the secondary took for its own.
NotUnderRunning ==
    [][\A v \in running :
          disk'[v] # disk[v] => v \in raced \union unstopped]_vars

\* What a job removes before it imports is left by an earlier, failed run: a clone,
\* with a VMID of its own, never copies the snapshot of another job.
CopiesOwn == \A j \in Jobs : job[j].vm \in raced \/ job[j].src \in {None, j}
=============================================================================
