------------------------------ MODULE SfrSessions ------------------------------
(***************************************************************************)
(* Single file restore (api/file_restore.py, core/sfr_engine.py): sessions *)
(* that show the disk of a machine as it was in a snapshot, through a      *)
(* network block device of the host, and copy files from it into the       *)
(* machine.                                                                *)
(*                                                                         *)
(* One worker answers requests, one at a time.  Beside it run the daemon   *)
(* that ends idle sessions, and a thread per copy.  All sessions here are  *)
(* of one machine.  A mount has a number; the row of a session knows only  *)
(* the number of the device and, on SAN, the clone.                        *)
(*                                                                         *)
(* A request logs in afresh: at the host of the datastore or, when that    *)
(* does not answer, at another one.  The daemon logs in at the host that   *)
(* was reached when the session was created.  Where a device is, nothing   *)
(* says.                                                                   *)
(* A definition in front of another one and named after it is a slip the   *)
(* code could have made; no action uses it.                                *)
(***************************************************************************)
EXTENDS Naturals, Sequences, FiniteSetsExt

CONSTANTS
    Sessions,   \* rows of netapp_sfr_sessions
    San,        \* the sessions of machines on iSCSI or NVMe
    Copies,     \* copies that can run at the same time
    Tars,       \* those that carry an archive
    Hosts,      \* rows of netapp_pve_hosts
    First,      \* the one that is tried first, for this datastore
    NDevices,   \* /dev/nbd0 .. /dev/nbd15, of each host
    MaxMounts,  \* bound on mounts
    MaxFaults   \* bound on failed calls and crashes

ASSUME SfrAssumption ==
    /\ San \subseteq Sessions /\ Tars \subseteq Copies /\ First \in Hosts
    /\ NDevices \in Nat /\ MaxMounts \in Nat /\ MaxFaults \in Nat

VARIABLES
    row,       \* [Sessions -> the row, NotYet or Gone]
    home,      \* [Sessions -> pve_host_id of the row]
    req,       \* the request that is being answered
    sweep,     \* the daemon: rows it has read, the one it is at
    thread,    \* [Copies -> the copy]
    running,   \* sessions whose _copy_progress says "running"
    cancelled, \* _copy_cancelled
    dev,       \* [Places -> the mount the device is connected for, or 0]
    owner,     \* the sessions of the mounts made so far, a sequence
    clones,    \* mounts whose clone is on ONTAP
    leaky,     \* history: mounts not fully made or undone, or lost to a race
    astray,    \* history: mounts made on, or not undone because a request was at,
               \* another host than the home of their session
    misled,    \* history: sessions with a row, or a row read, of a device given up,
               \* or with a row of a device that is on another host
    faults

vars == <<row, home, req, sweep, thread, running, cancelled, dev, owner, clones,
          leaky, astray, misled, faults>>
memory == <<thread, running, cancelled>>
host == <<home, dev, owner, clones>>
history == <<leaky, astray, misled>>

Devices == 1 .. NDevices
Places == Hosts \X Devices
Mounts == 1 .. MaxMounts
NotYet == [is |-> "none", nbd |-> 0, clone |-> 0, part |-> FALSE, fresh |-> FALSE]
Gone == [NotYet EXCEPT !.is = "gone"]
NewRow == [NotYet EXCEPT !.is = "open", !.fresh = TRUE]
Open(s) == row[s].is = "open"
NoThread == [sid |-> {}, pc |-> "none", host |-> First, src |-> 0, chunks |-> "all"]
Nothing == [nbd |-> 0, clone |-> 0]
Names(r) == [nbd |-> r.nbd, clone |-> r.clone]
NoReq == [kind |-> "idle", sid |-> {}, sess |-> Nothing, pc |-> "idle",
          host |-> First, nbd |-> 0, mount |-> 0]
NoSweep == [todo |-> {}, rows |-> [s \in Sessions |-> Nothing], sid |-> {},
            pc |-> "idle"]

Init ==
    /\ row = [s \in Sessions |-> NotYet]
    /\ home = [s \in Sessions |-> First]
    /\ req = NoReq /\ sweep = NoSweep
    /\ thread = [c \in Copies |-> NoThread]
    /\ running = {} /\ cancelled = {}
    /\ dev = [p \in Places |-> 0] /\ owner = <<>> /\ clones = {}
    /\ leaky = {} /\ astray = {} /\ misled = {}
    /\ faults = 0

Fault == faults < MaxFaults /\ faults' = faults + 1
Connected(m) == \E p \in Places : dev[p] = m
Kept(m) == m \in clones \/ Connected(m)
Mine(s) == {m \in DOMAIN owner : owner[m] = s}
Pending == {req.mount} \ {0}
Idle == req.kind = "idle"
Answered == req' = NoReq
Serves(s) == s \in req.sid

\* _pve_for_mapping: the others only if the first does not answer.
Reaches(h) == IF h = First THEN UNCHANGED faults ELSE Fault

-----------------------------------------------------------------------------
(* Requests without effect outside the database *)

_create_session(s) ==
    /\ Idle /\ row[s] = NotYet
    /\ \E h \in Hosts : Reaches(h) /\ home' = [home EXCEPT ![s] = h]
    /\ row' = [row EXCEPT ![s] = NewRow]
    /\ UNCHANGED <<req, sweep, memory, dev, owner, clones, history>>

\* Every listing, download or copied minute.
_touch(s) ==
    /\ Idle /\ Open(s) /\ ~row[s].fresh
    /\ row' = [row EXCEPT ![s].fresh = TRUE]
    /\ UNCHANGED <<req, sweep, memory, host, history, faults>>

\* Half an hour without any, which a running copy does not let pass.
Age(s) ==
    /\ Open(s) /\ row[s].fresh /\ ~Serves(s)
    /\ \A c \in Copies : s \notin thread[c].sid
    /\ row' = [row EXCEPT ![s].fresh = FALSE]
    /\ UNCHANGED <<req, sweep, memory, host, history, faults>>

-----------------------------------------------------------------------------
(* Unmounting: what umount_session and cleanup_san_state do for a row *)

\* Processes that read from the mount point are killed, those that read from the
\* device get an error.
Reads(c, s, h, d) ==
    /\ thread[c].pc = "read" /\ thread[c].src # 0 /\ thread[c].host = h
    /\ s \in thread[c].sid \/ (d # 0 /\ dev[<<h, d>>] = thread[c].src)

Cut(s, h, d) ==
    thread' = [c \in Copies |->
                 IF Reads(c, s, h, d)
                 THEN [thread[c] EXCEPT !.src = 0,
                          !.chunks = IF s \in thread[c].sid THEN "short" ELSE "padded"]
                 ELSE thread[c]]

\* At host h.  Every call is tried, whatever became of the others; the one that
\* deletes the clone goes to ONTAP.
Unmount(s, h, sess) ==
    LET p == <<h, sess.nbd>> IN
    /\ Cut(s, h, sess.nbd)
    /\ \/ /\ dev' = [q \in Places |-> IF q = p THEN 0 ELSE dev[q]]
          /\ \/ clones' = clones \ {sess.clone} /\ UNCHANGED <<leaky, faults>>
             \/ /\ sess.clone \in clones /\ Fault /\ UNCHANGED clones
                /\ leaky' = leaky \union {sess.clone}
       \/ /\ p \in Places /\ dev[p] # 0 /\ Fault /\ UNCHANGED dev
          /\ leaky' = leaky \union {dev[p]}
          /\ clones' = clones \ {sess.clone}
    /\ astray' = IF h = home[s] THEN astray ELSE astray \union Mine(s)
    /\ UNCHANGED <<home, owner>>

\* The row of the session, and of the one whose device it was, name a device given up.
Mislead(s, h, sess) ==
    {s} \union {owner[dev[p]] : p \in {q \in Places : q = <<h, sess.nbd>> /\ dev[q] # 0}}

Running(s) == s \in running

-----------------------------------------------------------------------------
(* Mount, unmount, close *)

Begin(s, kind, pc) ==
    /\ Idle /\ Open(s)
    /\ req' = [NoReq EXCEPT !.kind = kind, !.sid = {s}, !.pc = pc,
                             !.sess = Names(row[s])]

_mount(s) ==
    /\ Begin(s, "mount", "login")
    /\ UNCHANGED <<row, sweep, memory, host, history, faults>>

_umount_disk(s) ==
    /\ Begin(s, "umount", "login")
    /\ UNCHANGED <<row, sweep, memory, host, history, faults>>

_close_session(s) ==
    /\ Begin(s, "close", IF Running(s) \/ s \in cancelled THEN "wait" ELSE "login")
    /\ cancelled' = IF Running(s) THEN cancelled \union {s} ELSE cancelled
    /\ UNCHANGED <<row, sweep, thread, running, host, history, faults>>

\* Five seconds at most: then it goes on beside the copy.
CloseWaits ==
    /\ req.pc = "wait"
    /\ req' = [req EXCEPT !.pc = "login"]
    /\ UNCHANGED <<row, sweep, memory, host, history, faults>>

_pve_for_sess ==
    \E h \in Hosts :
        /\ req.pc = "login"
        /\ Reaches(h)
        /\ req' = [req EXCEPT !.host = h,
                      !.pc = IF req.kind = "mount" /\ req.sess.nbd = 0 THEN "attach"
                             ELSE "unmount"]
        /\ UNCHANGED <<row, sweep, memory, host, history>>

\* No host answers.  That ends a mount; the others go on to the row, without any
\* cleaning up.
LoginFails ==
    \E s \in req.sid :
        /\ req.pc = "login"
        /\ Fault
        /\ IF req.kind = "mount" THEN Answered /\ UNCHANGED leaky
           ELSE /\ req' = [req EXCEPT !.pc = "record", !.sess = Nothing]
                /\ leaky' = leaky \union Mine(s)
        /\ UNCHANGED <<row, sweep, memory, host, astray, misled>>

umount_session ==
    \E s \in req.sid :
        /\ req.pc = "unmount"
        /\ Unmount(s, req.host, req.sess)
        /\ req' = [req EXCEPT !.pc = IF req.kind = "mount" THEN "attach" ELSE "record",
                              !.sess = Nothing]
        /\ misled' = misled \union Mislead(s, req.host, req.sess)
        /\ UNCHANGED <<row, sweep, running, cancelled>>

Free(h) == {d \in Devices : dev[<<h, d>>] = 0}
_find_free_nbd_last(h) ==
    LET free == Free(h) \union {NDevices + 1} IN {d \in free : \A e \in free : d >= e}
_find_free_nbd(h) == {d \in Free(h) : \A e \in Free(h) : d <= e}

\* On SAN first, with its volume group; a lost answer leaves a clone whose uuid
\* nobody knows.
clone_lun_from_snapshot ==
    \E s \in req.sid \intersect San :
        /\ req.pc = "attach" /\ Len(owner) < MaxMounts
        /\ LET m == Len(owner) + 1 IN
             /\ owner' = Append(owner, s)
             /\ clones' = clones \union {m}
             /\ \/ /\ req' = [req EXCEPT !.pc = "connect", !.mount = m]
                   /\ UNCHANGED <<leaky, faults>>
                \/ Fault /\ Answered /\ leaky' = leaky \union {m}
        /\ UNCHANGED <<row, sweep, memory, home, dev, astray, misled>>

\* The device, for the clone or for the file.
Connects(s) == req.pc = IF s \in San THEN "connect" ELSE "attach"

\* mount_disk, or the rest of mount_san_disk.
mount_disk ==
    \E s \in req.sid, d \in _find_free_nbd(req.host) :
        /\ Connects(s) /\ (s \notin San => Len(owner) < MaxMounts)
        /\ LET m == IF s \in San THEN req.mount ELSE Len(owner) + 1 IN
             /\ owner' = IF s \in San THEN owner ELSE Append(owner, s)
             /\ dev' = [dev EXCEPT ![<<req.host, d>>] = m]
             /\ astray' = IF req.host = home[s] THEN astray ELSE astray \union {m}
             /\ \/ /\ req' = [req EXCEPT !.pc = "record", !.nbd = d, !.mount = m]
                   /\ UNCHANGED <<clones, leaky, faults>>
                \* it raises, and takes back the clone at most, never the device
                \/ /\ Fault /\ Answered
                   /\ leaky' = leaky \union {m} /\ clones' \in {clones, clones \ {m}}
        /\ UNCHANGED <<row, sweep, memory, home, misled>>

\* No device is free, or a call before the connection fails: the row stays as it is,
\* the clone goes, if the clean-up works.
MountFails ==
    /\ req.pc \in {"attach", "connect"}
    /\ \/ /\ _find_free_nbd(req.host) = {} /\ \A s \in req.sid : Connects(s)
          /\ clones' = clones \ Pending /\ UNCHANGED <<leaky, faults>>
       \/ /\ Fault
          /\ \/ clones' = clones \ Pending /\ UNCHANGED leaky
             \/ leaky' = leaky \union Pending /\ UNCHANGED clones
    /\ Answered
    /\ UNCHANGED <<row, sweep, memory, home, dev, owner, astray, misled>>

RecordUnmountedKeeps(r) == [r EXCEPT !.clone = 0, !.part = FALSE, !.fresh = TRUE]
RecordUnmounted(r) ==
    [r EXCEPT !.nbd = 0, !.clone = 0, !.part = FALSE, !.fresh = TRUE]

\* The device the row will name is at home, and has not been given up for a stale
\* row meanwhile.
Held(s) == req.kind = "mount" => req.host = home[s] /\ Connected(req.mount)

\* The row at the end of a request, if the daemon has left it there.
Record ==
    \E s \in req.sid :
        /\ req.pc = "record"
        /\ row' = IF ~Open(s) THEN row ELSE [row EXCEPT ![s] =
             CASE req.kind = "umount" -> RecordUnmounted(row[s])
               [] req.kind = "close"  -> Gone
               [] req.kind = "mount"  ->
                    [row[s] EXCEPT !.nbd = req.nbd, !.part = FALSE,
                         !.fresh = TRUE, !.clone = IF s \in San THEN req.mount ELSE 0]]
        /\ IF Open(s) /\ s \notin sweep.sid \union sweep.todo
           THEN misled' = (misled \ {s}) \union {t \in {s} : ~Held(t)} /\ UNCHANGED leaky
           ELSE /\ leaky' = leaky \union Pending
                /\ misled' = misled \union {t \in {s} : ~Held(t)}
        /\ IF req.kind = "close"
           THEN /\ running' = running \ {s}
                /\ cancelled' = cancelled \ {s}
           ELSE UNCHANGED <<running, cancelled>>
        /\ Answered
        /\ UNCHANGED <<sweep, thread, host, astray, faults>>

_select_partition(s) ==
    /\ Idle /\ Open(s) /\ row[s].nbd # 0 /\ ~row[s].part
    /\ row' = [row EXCEPT ![s].part = TRUE, ![s].fresh = TRUE]
    /\ UNCHANGED <<req, sweep, memory, host, history, faults>>

-----------------------------------------------------------------------------
(* Copies *)

\* It forgets a cancellation that the copy before has not noticed yet.
_copy_to_vm(c, s) ==
    /\ Idle /\ Open(s) /\ row[s].part /\ thread[c].pc = "none"
    /\ \E h \in Hosts :
         /\ Reaches(h)
         /\ thread' = [thread EXCEPT ![c] = [NoThread EXCEPT !.sid = {s}, !.pc = "open",
                                                            !.host = h]]
    /\ running' = running \union {s}
    /\ cancelled' = cancelled \ {s}
    /\ UNCHANGED <<row, req, sweep, host, history>>

\* Without a running copy the flag has no effect: the next copy takes it away.
_copy_cancel(s) ==
    /\ Idle /\ Running(s) /\ s \notin cancelled
    /\ cancelled' = cancelled \union {s}
    /\ UNCHANGED <<row, req, sweep, thread, running, host, history, faults>>

\* Remove what chunks there are in the machine, and open the file.
Opens(c) ==
    LET read == {m \in DOMAIN owner : \E s \in thread[c].sid, d \in Devices :
                    /\ owner[m] = s /\ dev[<<thread[c].host, d>>] = m
                    /\ Open(s) /\ row[s].nbd = d} IN
    /\ thread[c].pc = "open"
    /\ thread' = [k \in Copies |->
         IF k = c THEN [thread[c] EXCEPT !.pc = "read",
                           !.src = IF read = {} THEN 0 ELSE Min(read),
                           !.chunks = IF read = {} THEN "none" ELSE "all"]
         ELSE IF thread[k].pc = "read" THEN [thread[k] EXCEPT !.chunks = "swept"]
         ELSE thread[k]]
    /\ UNCHANGED <<row, req, sweep, running, cancelled, host, history, faults>>

\* A closed session has no progress to report to: the thread raises, and is over too.
Stops(c) ==
    /\ thread' = [thread EXCEPT ![c] = NoThread]
    /\ running' = running \ thread[c].sid

CopyCancelled(c) ==
    /\ thread[c].pc = "read" /\ thread[c].sid \subseteq cancelled
    /\ Stops(c)
    /\ cancelled' = cancelled \ thread[c].sid
    /\ UNCHANGED <<row, req, sweep, host, history, faults>>

CopyFails(c) ==
    /\ thread[c].pc \in {"open", "read"}
    /\ Fault
    /\ Stops(c)
    /\ cancelled' = cancelled \ thread[c].sid
    /\ UNCHANGED <<row, req, sweep, host, history>>

Noticed(c) ==
    thread[c].chunks \in IF c \in Tars THEN {"none", "short", "swept"} ELSE {"none"}

\* All that came is put together.  base64 does not mind a missing chunk, nor is the
\* status of the reader looked at; only no data at all or a torn archive is noticed.
copy_file_to_vm(c) ==
    /\ thread[c].pc = "read"
    /\ Stops(c)
    /\ row' = [s \in Sessions |->
                 IF s \in thread[c].sid /\ Open(s) /\ ~Noticed(c)
                 THEN [row[s] EXCEPT !.fresh = TRUE] ELSE row[s]]
    /\ cancelled' = IF Noticed(c) THEN cancelled \ thread[c].sid ELSE cancelled
    /\ UNCHANGED <<req, sweep, host, history, faults>>

-----------------------------------------------------------------------------
(* The daemon *)

Expired == {s \in Sessions : Open(s) /\ ~row[s].fresh}

_cleanup_expired ==
    /\ sweep.pc = "idle" /\ Expired # {}
    /\ sweep' = [NoSweep EXCEPT !.todo = Expired, !.pc = "next",
            !.rows = [s \in Sessions |-> IF s \in Expired THEN Names(row[s]) ELSE Nothing]]
    /\ UNCHANGED <<row, req, memory, host, history, faults>>

SweepNext ==
    /\ sweep.pc = "next"
    /\ \E s \in sweep.todo :
         /\ sweep' = [sweep EXCEPT !.todo = @ \ {s}, !.sid = {s}, !.pc = "unmount"]
         /\ cancelled' = IF Running(s) THEN cancelled \union {s} ELSE cancelled
    /\ UNCHANGED <<row, req, thread, running, host, history, faults>>

\* After three seconds, or when the copy has stopped: at the home of the session, or
\* not at all.
SweepUnmount ==
    \E s \in sweep.sid :
        /\ sweep.pc = "unmount"
        /\ Unmount(s, home[s], sweep.rows[s])
        /\ sweep' = [sweep EXCEPT !.pc = "delete", !.rows[s] = Nothing]
        /\ misled' = misled \union Mislead(s, home[s], sweep.rows[s])
        /\ UNCHANGED <<row, req, running, cancelled>>

SweepLoginFails ==
    \E s \in sweep.sid :
        /\ sweep.pc = "unmount"
        /\ Fault
        /\ leaky' = leaky \union Mine(s)
        /\ sweep' = [sweep EXCEPT !.pc = "delete", !.rows[s] = Nothing]
        /\ UNCHANGED <<row, req, memory, host, astray, misled>>

SweepDelete ==
    \E s \in sweep.sid :
        /\ sweep.pc = "delete"
        /\ row' = [row EXCEPT ![s] = Gone]
        /\ misled' = IF Serves(s) THEN misled ELSE misled \ {s}
        /\ running' = running \ {s}
        /\ cancelled' = cancelled \ {s}
        /\ sweep' = IF sweep.todo = {} THEN NoSweep
                    ELSE [sweep EXCEPT !.pc = "next", !.sid = {}]
        /\ UNCHANGED <<req, thread, host, leaky, astray, faults>>

\* The process dies; rows, devices and clones stay.
Crash ==
    /\ Fault
    /\ leaky' = leaky \union Pending
    /\ req' = NoReq /\ sweep' = NoSweep
    /\ thread' = [c \in Copies |-> NoThread]
    /\ running' = {} /\ cancelled' = {}
    /\ UNCHANGED <<row, host, astray, misled>>

ReferencedNever(m) == FALSE
Referenced(m) == \E s \in Sessions : Open(s) /\ row[s].clone = m

\* An administrator deletes a clone that no open session names.
_delete_orphan_san_clone(m) ==
    /\ Idle /\ m \in clones /\ ~Referenced(m)
    /\ clones' = clones \ {m}
    /\ UNCHANGED <<row, req, sweep, memory, home, dev, owner, history, faults>>

-----------------------------------------------------------------------------
Requests ==
    \/ \E s \in Sessions :
         \/ _create_session(s) \/ _touch(s) \/ _mount(s) \/ _umount_disk(s)
         \/ _close_session(s) \/ _select_partition(s) \/ _copy_cancel(s)
         \/ \E c \in Copies : _copy_to_vm(c, s)
    \/ \E m \in Mounts : _delete_orphan_san_clone(m)
Answers ==
    \/ CloseWaits \/ _pve_for_sess \/ LoginFails \/ umount_session
    \/ clone_lun_from_snapshot \/ mount_disk \/ MountFails \/ Record
Copying(c) == Opens(c) \/ CopyCancelled(c) \/ CopyFails(c) \/ copy_file_to_vm(c)
Sweeping ==
    \/ _cleanup_expired \/ SweepNext \/ SweepUnmount \/ SweepLoginFails \/ SweepDelete

Next ==
    \/ Requests \/ Answers \/ Sweeping \/ Crash
    \/ \E s \in Sessions : Age(s)
    \/ \E c \in Copies : Copying(c)

Spec == Init /\ [][Next]_vars

-----------------------------------------------------------------------------
(* Properties *)

Rows == [is : {"none", "open", "gone"}, nbd : 0 .. NDevices, clone : 0 .. MaxMounts,
         part : BOOLEAN, fresh : BOOLEAN]

\* The types of all variables.
TypeOK ==
    /\ row \in [Sessions -> Rows] /\ home \in [Sessions -> Hosts]
    /\ req.host \in Hosts /\ req.sid \subseteq Sessions /\ req.mount \in 0 .. MaxMounts
    /\ sweep.sid \union sweep.todo \subseteq Sessions
    /\ {req.sess} \union {sweep.rows[s] : s \in Sessions}
         \subseteq [nbd : 0 .. NDevices, clone : 0 .. MaxMounts]
    /\ \A c \in Copies :
         /\ thread[c].sid \subseteq Sessions /\ thread[c].host \in Hosts
         /\ thread[c].src \in 0 .. MaxMounts
    /\ running \union cancelled \subseteq Sessions
    /\ dev \in [Places -> 0 .. Len(owner)]
    /\ clones \subseteq DOMAIN owner
    /\ leaky \subseteq Mounts /\ astray \subseteq Mounts /\ misled \subseteq Sessions
    /\ faults \in 0 .. MaxFaults

\* What a host and ONTAP keep for a mount can be found again: the row of its session
\* names the clone, and the device on the host where the daemon looks, or the request
\* at work has them; and no device has lost its clone - unless a call failed, the
\* process died in between, the daemon took the session from under a request, or a
\* request about the session was at another host than the daemon will be.
MountNamed ==
    \A m \in DOMAIN owner \ (leaky \union astray) :
        LET s == owner[m] IN
        Kept(m) =>
            /\ \/ req.mount = m
               \/ /\ Open(s) /\ (s \in San => row[s].clone = m)
                  /\ \A p \in Places : dev[p] = m => p = <<home[s], row[s].nbd>>
            /\ s \in San => m \in clones

\* A session disconnects only devices of its own, unless its request is at another
\* host than its row was made for, or its row names a device that a failed request,
\* a crash or the daemon has given up, or that was connected on another host.
DisconnectsOwn ==
    [][\A p \in Places, s \in IF req' # req THEN req.sid ELSE sweep.sid :
         (dev[p] # 0 /\ dev'[p] = 0 /\ p[1] = home[s]) =>
             s \in misled \union {owner[dev[p]]}]_vars

\* What is done about one session never cuts a copy from another one short, with the
\* same exceptions.
CopyUndisturbed ==
    [][\A c \in Copies, s \in IF req' # req THEN req.sid ELSE sweep.sid :
         (/\ thread[c].src # 0 /\ thread'[c].pc = "read" /\ thread'[c].src = 0
          /\ thread[c].host = home[s]) =>
             s \in misled \union thread[c].sid]_vars

\* A copy that reports done has put together every chunk it wrote: what another one
\* removes before it starts was left by "previous interrupted sessions".
ChunksKept ==
    [][\A c \in Copies :
         (copy_file_to_vm(c) /\ ~Noticed(c)) => thread[c].chunks # "swept"]_vars
=============================================================================
