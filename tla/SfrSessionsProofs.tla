-------------------------- MODULE SfrSessionsProofs --------------------------
(***************************************************************************)
(* Proofs about SfrSessions, for all sessions, hosts, devices, copies and  *)
(* bounds.                                                                 *)
(*                                                                         *)
(* The row of a session knows a device and a clone, and copies of it go    *)
(* into the request that is answered and into the list of the daemon; all  *)
(* three get old.  SfrInv says what each is still good for: the clone it   *)
(* names is on the device it names, at the home of the session, or on none *)
(* (Homes), that device is the session's own unless the session is misled  *)
(* (Truthful), and nothing sound is kept for the session that it does not  *)
(* name (Found, ReqGood, SweepGood).                                       *)
(*                                                                         *)
(* 1. SessionsTypeCorrect    the types.                                    *)
(* 2. DevicesFoundAgain      MountNamed.                                   *)
(* 3. OnlyOwnDisconnected    DisconnectsOwn, a property of steps.          *)
(***************************************************************************)
EXTENDS SfrSessions, TLAPS

USE SfrAssumption

-----------------------------------------------------------------------------
(* The inductive invariant *)

Pair == [nbd : 0 .. NDevices, clone : 0 .. MaxMounts]
Request == [kind : {"idle", "mount", "umount", "close"}, sid : SUBSET Sessions,
            sess : Pair, host : Hosts, nbd : 0 .. NDevices, mount : 0 .. MaxMounts,
            pc : {"idle", "wait", "login", "unmount", "attach", "connect", "record"}]
Sweep == [todo : SUBSET Sessions, rows : [Sessions -> Pair], sid : SUBSET Sessions,
          pc : {"idle", "next", "unmount", "delete"}]
Thread == [sid : SUBSET Sessions, pc : {"none", "open", "read"}, host : Hosts,
           src : 0 .. MaxMounts, chunks : {"all", "none", "short", "padded", "swept"}]
Made == 1 .. Len(owner)

Types ==
    /\ row \in [Sessions -> Rows] /\ home \in [Sessions -> Hosts]
    /\ req \in Request /\ sweep \in Sweep /\ thread \in [Copies -> Thread]
    /\ running \subseteq Sessions /\ cancelled \subseteq Sessions
    /\ owner \in Seq(Sessions) /\ Len(owner) <= MaxMounts
    /\ dev \in [Places -> 0 .. Len(owner)]
    /\ clones \subseteq Made /\ leaky \subseteq Made /\ astray \subseteq Made
    /\ misled \subseteq Sessions
    /\ faults \in 0 .. MaxFaults

\* A clone is of a session on SAN.
ClonesSan == \A m \in clones : owner[m] \in San

\* Something that is kept for s, and that nobody has failed on, lost, or looked for on
\* another host.
Sound(m, s) == m \in Made /\ owner[m] = s /\ m \notin leaky \union astray /\ Kept(m)

\* What p names is all that is kept for m.
Tells(p, m, s) ==
    /\ s \in San => p.clone = m
    /\ \A q \in Places : dev[q] = m => q = <<home[s], p.nbd>>

\* The same as MountNamed, session by session.
Found ==
    \A s \in Sessions, m \in Made : Sound(m, s) =>
        /\ req.mount = m \/ (Open(s) /\ Tells(row[s], m, s))
        /\ s \in San => m \in clones

\* A clone that a row of s, or a copy of it, names is the session's own, and on the
\* device that is named, or on none, or not sound.
Home(p, s) ==
    p.clone # 0 =>
        /\ p.clone \in Made /\ owner[p.clone] = s /\ p.nbd # 0
        /\ \/ p.clone \in leaky \union astray
           \/ \A q \in Places : dev[q] = p.clone => q = <<home[s], p.nbd>>

Homes ==
    /\ \A s \in Sessions : Home(row[s], s) /\ Home(sweep.rows[s], s)
    /\ \A s \in req.sid : Home(req.sess, s)

ReqShape ==
    /\ req.kind = "idle" => req = NoReq
    /\ req.kind # "idle" => req.pc # "idle" /\ \E s \in Sessions : req.sid = {s}
    /\ req.pc \in {"attach", "connect"} => req.kind = "mount"
    /\ req.pc = "wait" => req.kind = "close"
    /\ req.mount # 0 <=> req.pc = "connect" \/ (req.pc = "record" /\ req.kind = "mount")
    /\ req.pc = "connect" => req.sid \subseteq San

\* The mount that a request has made is in no row, and on its device or on none.
MountGood ==
    req.mount # 0 =>
        /\ req.mount \in Made /\ req.sid = {owner[req.mount]}
        /\ owner[req.mount] \in San => req.mount \in clones
        /\ \A q \in Places : dev[q] = req.mount =>
             req.pc = "record" /\ q = <<req.host, req.nbd>>
        /\ req.pc = "record" =>
             /\ req.nbd # 0
             /\ req.host # home[owner[req.mount]] => req.mount \in astray
        /\ \A s \in Sessions :
             row[s].clone # req.mount /\ sweep.rows[s].clone # req.mount
        /\ req.sess.clone # req.mount

\* What a request may rely on.
ReqGood ==
    \A s \in req.sid :
        /\ req.pc \in {"wait", "login", "unmount"} /\ Open(s) =>
             req.sess = Names(row[s])
        /\ req.pc \in {"attach", "connect", "record"} =>
             \A m \in Made : Sound(m, s) => m = req.mount

SweepShape ==
    /\ sweep.pc = "idle" => sweep = NoSweep
    /\ sweep.pc = "next" => sweep.sid = {}
    /\ sweep.pc \in {"unmount", "delete"} => \E s \in Sessions : sweep.sid = {s}
    /\ sweep.pc = "delete" => \A s \in sweep.sid : sweep.rows[s] = Nothing
    /\ sweep.sid \intersect sweep.todo = {}
    /\ \A s \in Sessions \ (sweep.todo \union sweep.sid) : sweep.rows[s] = Nothing

\* What the daemon may rely on: what is not in its copy of the row was mounted later,
\* and is not recorded as sound.
SweepGood ==
    \A s \in sweep.todo \union sweep.sid, m \in Made :
        Sound(m, s) => m = req.mount \/ Tells(sweep.rows[s], m, s)

\* Before its row is made nothing is done about a session.
Unborn ==
    \A s \in Sessions : row[s].is = "none" =>
        /\ s \notin sweep.todo \union sweep.sid \union req.sid
        /\ \A m \in Made : owner[m] # s

Own(s, n) == n # 0 => dev[<<home[s], n>>] # 0 /\ owner[dev[<<home[s], n>>]] = s

Truthful ==
    \A s \in Sessions \ misled :
        /\ Open(s) => Own(s, row[s].nbd)
        /\ Own(s, sweep.rows[s].nbd)
        /\ s \in req.sid => Own(s, req.sess.nbd)

CopiesGood ==
    \A c \in Copies : thread[c].pc # "none" => \E s \in Sessions : thread[c].sid = {s}

SfrInv ==
    /\ Types /\ ClonesSan /\ Found /\ Homes /\ ReqShape /\ MountGood /\ ReqGood
    /\ SweepShape /\ SweepGood /\ Unborn /\ Truthful /\ CopiesGood

-----------------------------------------------------------------------------
(* Types *)

LEMMA TypesGiveTypeOK == Types => TypeOK
<1> SUFFICES ASSUME Types PROVE TypeOK
  OBVIOUS
<1>1. /\ req.sid \subseteq Sessions /\ req.mount \in 0 .. MaxMounts /\ req.sess \in Pair
      /\ req.host \in Hosts
  BY DEF Types, Request
<1>2. /\ sweep.sid \union sweep.todo \subseteq Sessions
      /\ \A s \in Sessions : sweep.rows[s] \in Pair
  BY DEF Types, Sweep
<1>3. \A c \in Copies : /\ thread[c].sid \subseteq Sessions /\ thread[c].host \in Hosts
                        /\ thread[c].src \in 0 .. MaxMounts
  BY DEF Types, Thread
<1>4. clones \subseteq DOMAIN owner
  BY DEF Types, Made
<1>5. leaky \subseteq Mounts /\ astray \subseteq Mounts
  BY DEF Types, Made, Mounts
<1>6. {req.sess} \union {sweep.rows[s] : s \in Sessions} \subseteq Pair
  BY <1>1, <1>2
<1>7. /\ row \in [Sessions -> Rows] /\ home \in [Sessions -> Hosts]
      /\ dev \in [Places -> 0 .. Len(owner)]
      /\ running \union cancelled \subseteq Sessions /\ misled \subseteq Sessions
      /\ faults \in 0 .. MaxFaults
  BY DEF Types
<1>8. QED
  BY <1>1, <1>2, <1>3, <1>4, <1>5, <1>6, <1>7 DEF TypeOK, Pair

LEMMA RowsTyped ==
    /\ NotYet \in Rows /\ NewRow \in Rows /\ Gone \in Rows
    /\ NotYet.is = "none" /\ NewRow.is = "open" /\ Gone.is = "gone"
    /\ Names(NotYet) = Nothing /\ Names(NewRow) = Nothing /\ Names(Gone) = Nothing
<1>1. \A r \in Rows : LET q == [r EXCEPT !.is = "gone"] IN
        q \in Rows /\ q.is = "gone" /\ q.nbd = r.nbd /\ q.clone = r.clone
  BY DEF Rows
<1>2. NotYet \in Rows /\ NotYet.is = "none" /\ NotYet.nbd = 0 /\ NotYet.clone = 0
  BY DEF NotYet, Rows
<1>3. \A r \in Rows : LET q == [r EXCEPT !.is = "open", !.fresh = TRUE] IN
        q \in Rows /\ q.is = "open" /\ q.nbd = r.nbd /\ q.clone = r.clone
  BY DEF Rows
<1>4. NewRow \in Rows /\ NewRow.is = "open" /\ NewRow.nbd = 0 /\ NewRow.clone = 0
  BY <1>2, <1>3 DEF NewRow
<1>5. Gone \in Rows /\ Gone.is = "gone" /\ Gone.nbd = 0 /\ Gone.clone = 0
  BY <1>1, <1>2 DEF Gone
<1>6. QED
  BY <1>2, <1>4, <1>5 DEF Names, Nothing

LEMMA PairsTyped ==
    /\ Nothing \in Pair /\ Nothing.nbd = 0 /\ Nothing.clone = 0
    /\ \A r \in Rows : Names(r) \in Pair
    /\ \A r : Names(r).nbd = r.nbd /\ Names(r).clone = r.clone
BY DEF Nothing, Pair, Names, Rows

LEMMA IdleTyped == NoReq \in Request /\ NoSweep \in Sweep /\ NoThread \in Thread
BY PairsTyped DEF NoReq, Request, NoSweep, Sweep, NoThread, Thread

LEMMA IdleFields ==
    /\ NoReq.kind = "idle" /\ NoReq.pc = "idle" /\ NoReq.sid = {} /\ NoReq.mount = 0
    /\ NoReq.sess = Nothing
    /\ NoSweep.pc = "idle" /\ NoSweep.sid = {} /\ NoSweep.todo = {}
    /\ \A s \in Sessions : NoSweep.rows[s] = Nothing
BY DEF NoReq, NoSweep

LEMMA FaultTyped == Types /\ Fault => faults' \in 0 .. MaxFaults
BY DEF Types, Fault

LEMMA ReachTyped == Types /\ (\E h \in Hosts : Reaches(h)) => faults' \in 0 .. MaxFaults
BY FaultTyped DEF Types, Reaches

\* What the parts of the state are, where the invariant is used.
LEMMA Parts ==
    ASSUME SfrInv
    PROVE  /\ row \in [Sessions -> Rows] /\ home \in [Sessions -> Hosts]
           /\ req \in Request /\ sweep \in Sweep /\ req.sid \subseteq Sessions
           /\ sweep.todo \union sweep.sid \subseteq Sessions
           /\ owner \in Seq(Sessions) /\ Len(owner) \in Nat
           /\ \A m \in Made : owner[m] \in Sessions /\ m # 0
           /\ \A q \in Places : dev[q] \in 0 .. Len(owner) /\ (dev[q] # 0 => dev[q] \in Made)
           /\ clones \subseteq Made
           /\ req.kind = "idle" => req.mount = 0 /\ req.sid = {} /\ req.pc = "idle"
           /\ req.sid # {} => req.kind # "idle"
<1>1. req \in Request /\ sweep \in Sweep
  BY DEF SfrInv, Types
<1>2. req.sid \subseteq Sessions /\ sweep.todo \union sweep.sid \subseteq Sessions
  BY <1>1 DEF Request, Sweep
<1>3. /\ owner \in Seq(Sessions) /\ Len(owner) \in Nat
      /\ \A m \in Made : owner[m] \in Sessions /\ m # 0
  BY DEF SfrInv, Types, Made
<1>4. \A q \in Places : dev[q] \in 0 .. Len(owner) /\ (dev[q] # 0 => dev[q] \in Made)
  BY <1>3 DEF SfrInv, Types, Made
<1>5. /\ req.kind = "idle" => req.mount = 0 /\ req.sid = {} /\ req.pc = "idle"
      /\ req.sid # {} => req.kind # "idle"
  BY IdleFields DEF SfrInv, ReqShape
<1>6. QED
  BY <1>1, <1>2, <1>3, <1>4, <1>5 DEF SfrInv, Types

LEMMA InitGood == Init => SfrInv
<1> SUFFICES ASSUME Init PROVE SfrInv
  OBVIOUS
<1>1. Types
  BY RowsTyped, IdleTyped DEF Init, Types, Made
<1>2. /\ \A s \in Sessions : row[s] = NotYet /\ sweep.rows[s] = Nothing
      /\ req = NoReq /\ sweep = NoSweep
      /\ sweep.sid = {} /\ sweep.todo = {}
      /\ clones = {} /\ Made = {}
  BY DEF Init, NoSweep, Made
<1>3. ClonesSan /\ Found /\ SweepGood /\ Unborn
  BY <1>2, IdleFields DEF ClonesSan, Found, SweepGood, Unborn
<1>4. Homes /\ MountGood /\ ReqGood
  BY <1>2, IdleFields, RowsTyped, PairsTyped DEF Homes, Home, MountGood, ReqGood
<1>5. ReqShape /\ SweepShape
  BY <1>2, IdleFields DEF ReqShape, SweepShape
<1>6. Truthful /\ CopiesGood
  BY <1>2, IdleFields, RowsTyped, PairsTyped
     DEF Init, Truthful, CopiesGood, NoThread, Own
<1>7. QED
  BY <1>1, <1>3, <1>4, <1>5, <1>6 DEF SfrInv

\* The invariant finds what is kept.
LEMMA FoundGivesNamed == SfrInv => MountNamed
<1> SUFFICES ASSUME SfrInv, NEW m \in DOMAIN owner \ (leaky \union astray), Kept(m)
             PROVE  LET s == owner[m] IN
                    /\ \/ req.mount = m
                       \/ /\ Open(s) /\ (s \in San => row[s].clone = m)
                          /\ \A p \in Places : dev[p] = m => p = <<home[s], row[s].nbd>>
                    /\ s \in San => m \in clones
  BY DEF MountNamed
<1>1. m \in Made /\ owner[m] \in Sessions
  BY Parts DEF Made
<1>2. Sound(m, owner[m])
  BY <1>1 DEF Sound
<1>3. QED
  BY <1>1, <1>2 DEF SfrInv, Found, Tells

-----------------------------------------------------------------------------
(* Steps that touch neither devices nor what names them *)

\* What names the devices, and who they belong to.
named == <<req, sweep, host, history>>

\* Listings, copies, the time that passes.
LEMMA NamesKept ==
    ASSUME SfrInv, UNCHANGED named,
           row' \in [Sessions -> Rows],
           \A s \in Sessions : row'[s].is = row[s].is /\ Names(row'[s]) = Names(row[s]),
           thread' \in [Copies -> Thread], CopiesGood',
           running' \subseteq Sessions, cancelled' \subseteq Sessions,
           faults' \in 0 .. MaxFaults
    PROVE  SfrInv'
<1>1. \A s \in Sessions : /\ Open(s)' <=> Open(s)
                         /\ row'[s].nbd = row[s].nbd /\ row'[s].clone = row[s].clone
  BY PairsTyped DEF Open
<1>2. /\ UNCHANGED <<req, sweep, home, dev, owner, clones, leaky, astray, misled>>
      /\ Made' = Made
  BY DEF named, host, history, Made
<1>3. Types'
  BY <1>2 DEF SfrInv, Types
<1>4. ClonesSan' /\ ReqShape' /\ SweepShape'
  BY <1>2 DEF SfrInv, ClonesSan, ReqShape, SweepShape
<1>5. \A m, s : Sound(m, s)' <=> Sound(m, s)
  BY <1>2 DEF Sound, Kept, Connected
<1>6. \A s \in Sessions : \A m : Tells(row[s], m, s) => Tells(row[s], m, s)'
  BY <1>1, <1>2 DEF Tells
<1>7. \A s \in Sessions : \A m : Tells(sweep.rows[s], m, s) => Tells(sweep.rows[s], m, s)'
  BY <1>2 DEF Tells
<1>8. Found' /\ SweepGood'
  BY <1>1, <1>2, <1>5, <1>6, <1>7, Parts DEF SfrInv, Found, SweepGood
<1>9. Homes' /\ MountGood'
  BY <1>1, <1>2 DEF SfrInv, Homes, Home, MountGood
<1>10. ReqGood'
  BY <1>1, <1>2, <1>5, Parts DEF SfrInv, ReqGood
<1>11. Unborn'
  BY <1>2 DEF SfrInv, Unborn
<1>12. Truthful'
  BY <1>1, <1>2 DEF SfrInv, Truthful, Own
<1>13. QED
  BY <1>3, <1>4, <1>8, <1>9, <1>10, <1>11, <1>12 DEF SfrInv

LEMMA RowsSame ==
    ASSUME NEW s \in Sessions, NEW r, row \in [Sessions -> Rows], r \in Rows,
           row' = [row EXCEPT ![s] = r], r.is = row[s].is, Names(r) = Names(row[s])
    PROVE  /\ row' \in [Sessions -> Rows]
           /\ \A t \in Sessions : row'[t].is = row[t].is /\ Names(row'[t]) = Names(row[t])
OBVIOUS

LEMMA RowFields ==
    ASSUME NEW r \in Rows
    PROVE  LET f == [r EXCEPT !.fresh = TRUE]
               a == [r EXCEPT !.fresh = FALSE]
               p == [r EXCEPT !.part = TRUE, !.fresh = TRUE]
           IN \A q \in {f, a, p} : q \in Rows /\ q.is = r.is /\ Names(q) = Names(r)
BY DEF Rows, Names

LEMMA RowsTouched ==
    ASSUME SfrInv, NEW s \in Sessions, _touch(s) \/ Age(s) \/ _select_partition(s)
    PROVE  SfrInv'
<1> DEFINE f == [row[s] EXCEPT !.fresh = TRUE]
           a == [row[s] EXCEPT !.fresh = FALSE]
           p == [row[s] EXCEPT !.part = TRUE, !.fresh = TRUE]
<1>1. row \in [Sessions -> Rows]
  BY DEF SfrInv, Types
<1>2. \E q \in {f, a, p} : row' = [row EXCEPT ![s] = q]
  BY <1>1 DEF _touch, Age, _select_partition
<1>3. \A q \in {f, a, p} : q \in Rows /\ q.is = row[s].is /\ Names(q) = Names(row[s])
  BY <1>1, RowFields
<1> HIDE DEF f, a, p
<1>4. /\ row' \in [Sessions -> Rows]
      /\ \A t \in Sessions : row'[t].is = row[t].is /\ Names(row'[t]) = Names(row[t])
  BY <1>1, <1>2, <1>3, RowsSame
<1>5. UNCHANGED <<named, memory, faults>>
  BY DEF _touch, Age, _select_partition, named
<1>6. /\ thread' \in [Copies -> Thread] /\ CopiesGood'
      /\ running' \subseteq Sessions /\ cancelled' \subseteq Sessions
      /\ faults' \in 0 .. MaxFaults
  BY <1>5 DEF SfrInv, Types, CopiesGood, memory
<1>7. QED
  BY <1>4, <1>5, <1>6, NamesKept

LEMMA ThreadOpened ==
    ASSUME NEW r \in Thread, NEW s \in Sessions,
           NEW q, q = [r EXCEPT !.sid = {s}, !.pc = "open"]
    PROVE  q \in Thread /\ q.sid = {s}
BY DEF Thread

LEMMA ThreadSwept ==
    ASSUME NEW r \in Thread, NEW q, q = [r EXCEPT !.chunks = "swept"]
    PROVE  q \in Thread /\ q.sid = r.sid /\ q.pc = r.pc
BY DEF Thread

LEMMA ThreadCut ==
    ASSUME NEW r \in Thread, NEW v \in {"short", "padded"},
           NEW q, q = [r EXCEPT !.src = 0, !.chunks = v]
    PROVE  q \in Thread /\ q.sid = r.sid /\ q.pc = r.pc
<1> DEFINE o == [r EXCEPT !.src = 0]
<1>1. o \in Thread /\ o.sid = r.sid /\ o.pc = r.pc
  BY DEF Thread
<1>2. q = [o EXCEPT !.chunks = v]
  OBVIOUS
<1> HIDE DEF o
<1>3. q \in Thread /\ q.sid = o.sid /\ q.pc = o.pc
  BY <1>1, <1>2 DEF Thread
<1>4. QED
  BY <1>1, <1>3

\* A copy that runs is of one session.
CopyGood(r) == r \in Thread /\ (r.pc = "none" \/ \E s \in Sessions : r.sid = {s})

LEMMA CopiesFold ==
    thread \in [Copies -> Thread] /\ CopiesGood <=>
        /\ thread = [c \in Copies |-> thread[c]]
        /\ \A c \in Copies : CopyGood(thread[c])
BY DEF CopiesGood, CopyGood

LEMMA CopyStarts ==
    ASSUME SfrInv, NEW c \in Copies, NEW s \in Sessions, _copy_to_vm(c, s)
    PROVE  SfrInv'
<1>1. PICK h \in Hosts :
        /\ Reaches(h)
        /\ thread' = [thread EXCEPT ![c] = [NoThread EXCEPT !.sid = {s}, !.pc = "open",
                                                           !.host = h]]
  BY DEF _copy_to_vm
<1> DEFINE k == [NoThread EXCEPT !.sid = {s}, !.pc = "open"]
           r == [k EXCEPT !.host = h]
<1>2. k \in Thread /\ k.sid = {s}
  BY IdleTyped, ThreadOpened
<1>3. thread' = [thread EXCEPT ![c] = r]
  BY <1>1
<1> HIDE DEF k
<1>4. r \in Thread /\ r.sid = {s}
  BY <1>2 DEF Thread
<1> HIDE DEF r
<1>5. thread' \in [Copies -> Thread] /\ CopiesGood'
  BY <1>3, <1>4 DEF SfrInv, Types, CopiesGood
<1>6. faults' \in 0 .. MaxFaults
  BY <1>1, ReachTyped DEF SfrInv
<1>7. QED
  BY <1>5, <1>6, NamesKept DEF _copy_to_vm, SfrInv, Types, named

\* The mount it reads is one that was made.
LEMMA ReadsOwnDevice ==
    ASSUME SfrInv, NEW c \in Copies, thread[c].pc = "open"
    PROVE  LET read == {m \in DOMAIN owner : \E s \in thread[c].sid, d \in Devices :
                           /\ owner[m] = s /\ dev[<<thread[c].host, d>>] = m
                           /\ Open(s) /\ row[s].nbd = d}
           IN  read = {} \/ Min(read) \in 0 .. MaxMounts
<1> DEFINE read == {m \in DOMAIN owner : \E s \in thread[c].sid, d \in Devices :
                       /\ owner[m] = s /\ dev[<<thread[c].host, d>>] = m
                       /\ Open(s) /\ row[s].nbd = d}
<1>1. PICK s \in Sessions : thread[c].sid = {s}
  BY DEF SfrInv, CopiesGood
<1>2. \A m \in read : m = dev[<<thread[c].host, row[s].nbd>>] /\ m \in 0 .. MaxMounts
  <2>1. \A m \in DOMAIN owner : m \in 0 .. MaxMounts
    BY DEF SfrInv, Types
  <2>2. \A m \in read : m = dev[<<thread[c].host, row[s].nbd>>] /\ m \in DOMAIN owner
    BY <1>1
  <2> HIDE DEF read
  <2>3. QED
    BY <2>1, <2>2
<1>3. SUFFICES ASSUME NEW m \in read, read = {m}
               PROVE  Min(read) \in 0 .. MaxMounts
  <2>1. read = {} \/ \E m \in read : read = {m}
    <3> HIDE DEF read
    <3>1. QED
      BY <1>2
  <2>2. QED
    BY <2>1, <1>3
<1>4. m \in 0 .. MaxMounts
  BY <1>2
<1>5. Min(read) = m
  <2> HIDE DEF read
  <2>1. m <= m
    BY <1>4
  <2>2. QED
    BY <1>3, <2>1 DEF Min
<1>6. QED
  BY <1>4, <1>5

LEMMA CopyOpens ==
    ASSUME SfrInv, NEW c \in Copies, Opens(c)
    PROVE  SfrInv'
<1>1. \E n \in 0 .. MaxMounts, v \in {"all", "none"} :
        thread' = [k \in Copies |->
           IF k = c THEN [thread[c] EXCEPT !.pc = "read", !.src = n, !.chunks = v]
           ELSE IF thread[k].pc = "read" THEN [thread[k] EXCEPT !.chunks = "swept"]
           ELSE thread[k]]
  <2> DEFINE read == {m \in DOMAIN owner : \E s \in thread[c].sid, d \in Devices :
                         /\ owner[m] = s /\ dev[<<thread[c].host, d>>] = m
                         /\ Open(s) /\ row[s].nbd = d}
             n == IF read = {} THEN 0 ELSE Min(read)
             v == IF read = {} THEN "none" ELSE "all"
  <2>1. read = {} \/ Min(read) \in 0 .. MaxMounts
    BY ReadsOwnDevice DEF Opens
  <2>2. thread' = [k \in Copies |->
           IF k = c THEN [thread[c] EXCEPT !.pc = "read", !.src = n, !.chunks = v]
           ELSE IF thread[k].pc = "read" THEN [thread[k] EXCEPT !.chunks = "swept"]
           ELSE thread[k]]
    BY DEF Opens
  <2> HIDE DEF read
  <2>3. n \in 0 .. MaxMounts /\ v \in {"all", "none"}
    BY <2>1
  <2> HIDE DEF n, v
  <2>4. QED
    BY <2>2, <2>3
<1>2. PICK n \in 0 .. MaxMounts, v \in {"all", "none"} :
        thread' = [k \in Copies |->
           IF k = c THEN [thread[c] EXCEPT !.pc = "read", !.src = n, !.chunks = v]
           ELSE IF thread[k].pc = "read" THEN [thread[k] EXCEPT !.chunks = "swept"]
           ELSE thread[k]]
  BY <1>1
<1>3. thread[c].pc = "open" /\ \A k \in Copies : CopyGood(thread[k])
  BY CopiesFold DEF Opens, SfrInv, Types
<1>4. ASSUME NEW k \in Copies PROVE CopyGood(thread'[k])
  <2>1. thread[k] \in Thread /\ thread[c] \in Thread
    BY <1>3 DEF CopyGood
  <2>2. CASE k = c
    <3> DEFINE o == [thread[c] EXCEPT !.pc = "read"]
               p == [o EXCEPT !.src = n]
               q == [p EXCEPT !.chunks = v]
    <3>1. thread'[k] = q
      BY <1>2, <2>2
    <3>2. o \in Thread /\ o.sid = thread[c].sid
      BY <2>1 DEF Thread
    <3> HIDE DEF o
    <3>3. p \in Thread /\ p.sid = thread[c].sid
      BY <3>2 DEF Thread
    <3> HIDE DEF p
    <3>4. q \in Thread /\ q.sid = thread[c].sid
      BY <3>3 DEF Thread
    <3> HIDE DEF q
    <3>5. QED
      BY <1>3, <3>1, <3>4 DEF CopyGood
  <2>3. CASE k # c /\ thread[k].pc = "read"
    <3> DEFINE q == [thread[k] EXCEPT !.chunks = "swept"]
    <3>1. q \in Thread /\ q.sid = thread[k].sid /\ q.pc = thread[k].pc
      BY <2>1, ThreadSwept
    <3>2. thread'[k] = q
      BY <1>2, <2>3
    <3> HIDE DEF q
    <3>3. QED
      BY <1>3, <3>1, <3>2 DEF CopyGood
  <2>4. CASE k # c /\ thread[k].pc # "read"
    BY <1>2, <1>3, <2>4
  <2>5. QED
    BY <2>2, <2>3, <2>4
<1>5. thread' \in [Copies -> Thread] /\ CopiesGood'
  BY <1>2, <1>4 DEF CopyGood, CopiesGood
<1>6. QED
  BY <1>5, NamesKept DEF Opens, SfrInv, Types, named

LEMMA ThreadStops ==
    ASSUME SfrInv, NEW c \in Copies, Stops(c)
    PROVE  /\ thread' \in [Copies -> Thread] /\ CopiesGood'
           /\ running' \subseteq Sessions
<1>1. thread' = [thread EXCEPT ![c] = NoThread] /\ running' \subseteq running
  BY DEF Stops
<1>2. NoThread.pc = "none"
  BY DEF NoThread
<1>3. QED
  BY <1>1, <1>2, IdleTyped DEF SfrInv, Types, CopiesGood

LEMMA CopyEnds ==
    ASSUME SfrInv, NEW c \in Copies,
           CopyCancelled(c) \/ CopyFails(c) \/ copy_file_to_vm(c)
    PROVE  SfrInv'
<1>1. Stops(c) /\ UNCHANGED named /\ cancelled' \subseteq cancelled
  BY DEF CopyCancelled, CopyFails, copy_file_to_vm, named
<1>2. faults' \in 0 .. MaxFaults
  BY FaultTyped DEF CopyCancelled, CopyFails, copy_file_to_vm, SfrInv, Types
<1>3. /\ row' \in [Sessions -> Rows]
      /\ \A s \in Sessions : row'[s].is = row[s].is /\ Names(row'[s]) = Names(row[s])
  <2>1. row \in [Sessions -> Rows]
    BY DEF SfrInv, Types
  <2>2. CASE UNCHANGED row
    BY <2>1, <2>2
  <2>3. CASE copy_file_to_vm(c)
    <3>1. row' = [s \in Sessions |->
                    IF s \in thread[c].sid /\ Open(s) /\ ~Noticed(c)
                    THEN [row[s] EXCEPT !.fresh = TRUE] ELSE row[s]]
      BY <2>3 DEF copy_file_to_vm
    <3>2. ASSUME NEW s \in Sessions
          PROVE  /\ row'[s] \in Rows
                 /\ row'[s].is = row[s].is /\ Names(row'[s]) = Names(row[s])
      <4> DEFINE q == [row[s] EXCEPT !.fresh = TRUE]
      <4>1. q \in Rows /\ q.is = row[s].is /\ Names(q) = Names(row[s])
        BY <2>1, RowFields
      <4>2. row'[s] = q \/ row'[s] = row[s]
        BY <3>1
      <4> HIDE DEF q
      <4>3. QED
        BY <2>1, <4>1, <4>2
    <3>3. QED
      BY <3>1, <3>2
  <2>4. QED
    BY <2>2, <2>3 DEF CopyCancelled, CopyFails
<1>4. QED
  BY <1>1, <1>2, <1>3, ThreadStops, NamesKept DEF SfrInv, Types

LEMMA CopyCancels ==
    ASSUME SfrInv, NEW s \in Sessions, _copy_cancel(s)
    PROVE  SfrInv'
<1>1. UNCHANGED <<named, row, thread, running, faults>> /\ cancelled' \subseteq Sessions
  BY DEF _copy_cancel, named, SfrInv, Types
<1>2. QED
  BY <1>1, NamesKept DEF SfrInv, Types, CopiesGood

-----------------------------------------------------------------------------
(* Steps in which what is kept gets less, or less is sound of it *)

\* A clone that goes was not sound, or goes with its device.
Shrinks ==
    /\ owner' = owner /\ home' = home /\ row' = row
    /\ \A q \in Places : dev'[q] \in {dev[q], 0}
    /\ clones' \subseteq clones /\ leaky \subseteq leaky' /\ astray \subseteq astray'
    /\ \A m \in clones \ clones' : m \in leaky' \union astray' \/ ~Kept(m)'

LEMMA Shrunk ==
    ASSUME SfrInv, Shrinks
    PROVE  /\ Made' = Made /\ ClonesSan'
           /\ \A s : \A m \in Made : Sound(m, s)' => Sound(m, s)
           /\ \A s : \A m \in Made : Sound(m, s)' /\ m \in clones => m \in clones'
           /\ \A p, s : \A m \in Made : Tells(p, m, s) => Tells(p, m, s)'
           /\ \A p, s : Home(p, s) => Home(p, s)'
<1>1. Made' = Made /\ ClonesSan'
  BY DEF Made, Shrinks, SfrInv, ClonesSan
<1>2. \A m \in Made, q \in Places : dev'[q] = m => dev[q] = m
  BY Parts DEF Shrinks
<1>3. \A m \in Made : Kept(m)' => Kept(m)
  BY <1>2 DEF Kept, Connected, Shrinks
<1>4. \A s : \A m \in Made : Sound(m, s)' => Sound(m, s)
  BY <1>1, <1>3 DEF Sound, Shrinks
<1>5. \A s : \A m \in Made : Sound(m, s)' /\ m \in clones => m \in clones'
  BY DEF Sound, Shrinks
<1>6. \A p, s : \A m \in Made : Tells(p, m, s) => Tells(p, m, s)'
  BY <1>2 DEF Tells, Shrinks
<1>7. \A p, s : Home(p, s) => Home(p, s)'
  BY <1>1, <1>2 DEF Home, Shrinks
<1>8. QED
  BY <1>1, <1>4, <1>5, <1>6, <1>7

\* What a request and the daemon have got wrong by such a step is up to the step.
LEMMA ShrinkStep ==
    ASSUME SfrInv, Shrinks, Types', CopiesGood', ReqShape', ReqGood', SweepShape',
           SweepGood', Truthful',
           req'.mount = 0 \/ (req' = req /\ req.mount \notin clones \ clones'),
           \A m \in Made : req' # req /\ m = req.mount => ~Sound(m, owner[m])',
           \A s \in req'.sid : Home(req'.sess, s) /\ row[s].is # "none",
           \A s \in Sessions : \/ sweep'.rows[s] \in {sweep.rows[s], Nothing}
                               \/ Open(s) /\ sweep'.rows[s] = Names(row[s]),
           \A s \in sweep'.todo \union sweep'.sid : s \in Sessions /\ row[s].is # "none"
    PROVE  SfrInv'
<1>1. /\ Made' = Made /\ ClonesSan'
      /\ \A s : \A m \in Made : Sound(m, s)' => Sound(m, s)
      /\ \A s : \A m \in Made : Sound(m, s)' /\ m \in clones => m \in clones'
      /\ \A p, s : \A m \in Made : Tells(p, m, s) => Tells(p, m, s)'
      /\ \A p, s : Home(p, s) => Home(p, s)'
  BY Shrunk
<1>2. row' = row /\ owner' = owner
  BY DEF Shrinks
<1>3. Found'
  <2>1. ASSUME NEW s \in Sessions, NEW m \in Made, Sound(m, s)'
        PROVE  /\ req'.mount = m \/ (Open(s) /\ Tells(row[s], m, s)')
               /\ s \in San => m \in clones'
    <3>1. Sound(m, s) /\ owner[m] = s
      BY <1>1, <2>1 DEF Sound
    <3>2. /\ req.mount = m \/ (Open(s) /\ Tells(row[s], m, s))
          /\ s \in San => m \in clones
      BY <3>1 DEF SfrInv, Found
    <3>3. req.mount = m => req'.mount = m
      BY <1>2, <2>1, <3>1
    <3>4. \A p : Tells(p, m, s) => Tells(p, m, s)'
      BY <1>1
    <3>5. \A p : p = row[s] => (Tells(p, m, s) => Tells(p, m, s)')
      BY <3>4
    <3>6. Tells(row[s], m, s) => Tells(row[s], m, s)'
      BY <1>2, <3>5
    <3>7. s \in San => m \in clones'
      BY <1>1, <2>1, <3>2
    <3>8. QED
      BY <3>2, <3>3, <3>6, <3>7
  <2>2. \A s \in Sessions : Open(s)' <=> Open(s)
    BY <1>2 DEF Open
  <2>3. QED
    BY <1>1, <1>2, <2>1, <2>2 DEF Found
<1>4. Homes'
  <2>1. ASSUME NEW s \in Sessions
        PROVE  Home(row[s], s)' /\ \A p : p = sweep'.rows[s] => Home(p, s)'
    <3>1. Home(row[s], s) /\ Home(sweep.rows[s], s)
      BY DEF SfrInv, Homes
    <3>2. \A p : Home(p, s) => Home(p, s)'
      BY <1>1
    <3>3. \A p : p = row[s] => Home(p, s)'
      BY <3>1, <3>2
    <3>4. \A p : p = sweep.rows[s] => Home(p, s)'
      BY <3>1, <3>2
    <3>5. \A p : p.clone = 0 => Home(p, s)'
      BY DEF Home
    <3>6. \A p : p = Names(row[s]) => Home(p, s)'
      BY <3>3, PairsTyped DEF Home
    <3>7. \A p : p = row'[s] => Home(p, s)'
      BY <1>2, <3>3
    <3>8. QED
      BY <3>4, <3>5, <3>6, <3>7, <1>2, PairsTyped
  <2>2. \A s \in req'.sid : \A p : p = req'.sess => Home(p, s)'
    BY <1>1
  <2>3. QED
    BY <1>2, <2>1, <2>2 DEF Homes
<1>5. MountGood'
  <2>1. CASE req'.mount = 0
    BY <2>1 DEF MountGood
  <2>2. CASE req' = req /\ req.mount # 0 /\ req.mount \notin clones \ clones'
    <3>1. \A q \in Places : dev'[q] = req.mount => dev[q] = req.mount
      BY <2>2 DEF Shrinks
    <3>2. \A s \in Sessions : sweep'.rows[s].clone \in {sweep.rows[s].clone, 0, row[s].clone}
      BY PairsTyped
    <3>3. home' = home /\ astray \subseteq astray' /\ clones' \subseteq clones
      BY DEF Shrinks
    <3>4. QED
      BY <1>1, <1>2, <2>2, <3>1, <3>2, <3>3 DEF SfrInv, MountGood
  <2>3. QED
    BY <2>1, <2>2
<1>6. Unborn'
  BY <1>1, <1>2 DEF SfrInv, Unborn
<1>7. QED
  BY <1>1, <1>3, <1>4, <1>5, <1>6 DEF SfrInv

\* A request that does not move.
LEMMA RequestStays ==
    ASSUME SfrInv, Shrinks, req' = req
    PROVE  /\ ReqShape' /\ ReqGood'
           /\ \A s \in req'.sid : Home(req'.sess, s) /\ row[s].is # "none"
<1>1. \A s : \A m \in Made : Sound(m, s)' => Sound(m, s)
  BY Shrunk
<1>2. row' = row /\ Made' = Made
  BY Shrunk DEF Shrinks
<1>3. ReqShape'
  BY DEF SfrInv, ReqShape
<1>4. ReqGood'
  BY <1>1, <1>2 DEF SfrInv, ReqGood, Open
<1>5. \A s \in req'.sid : Home(req'.sess, s) /\ row[s].is # "none"
  BY Parts DEF SfrInv, Homes, Unborn
<1>6. QED
  BY <1>3, <1>4, <1>5

\* The daemon, if it does not move.
LEMMA SweepStays ==
    ASSUME SfrInv, Shrinks, sweep' = sweep, req'.mount = 0 \/ req' = req,
           \A m \in Made : req' # req /\ m = req.mount => ~Sound(m, owner[m])'
    PROVE  /\ SweepShape' /\ SweepGood'
           /\ \A s \in Sessions : sweep'.rows[s] \in {sweep.rows[s], Nothing}
           /\ \A s \in sweep'.todo \union sweep'.sid : s \in Sessions /\ row[s].is # "none"
<1>1. /\ \A s : \A m \in Made : Sound(m, s)' => Sound(m, s)
      /\ \A p, s : \A m \in Made : Tells(p, m, s) => Tells(p, m, s)'
      /\ Made' = Made
  BY Shrunk
<1>2. SweepShape'
  BY DEF SfrInv, SweepShape
<1>3. SweepGood'
  <2>1. ASSUME NEW s \in sweep.todo \union sweep.sid, NEW m \in Made, Sound(m, s)'
        PROVE  m = req'.mount \/ Tells(sweep.rows[s], m, s)'
    <3>1. Sound(m, s) /\ owner[m] = s
      BY <1>1, <2>1 DEF Sound
    <3>2. m = req.mount \/ Tells(sweep.rows[s], m, s)
      BY <3>1 DEF SfrInv, SweepGood
    <3>3. m = req.mount => m = req'.mount
      <4>1. owner' = owner
        BY DEF Shrinks
      <4>2. QED
        BY <2>1, <3>1, <4>1
    <3>4. \A p : Tells(p, m, s) => Tells(p, m, s)'
      BY <1>1
    <3>5. \A p : p = sweep.rows[s] => (Tells(p, m, s) => Tells(p, m, s)')
      BY <3>4
    <3>6. QED
      BY <3>2, <3>3, <3>5
  <2>2. QED
    BY <1>1, <2>1 DEF SweepGood
<1>4. \A s \in sweep'.todo \union sweep'.sid : s \in Sessions /\ row[s].is # "none"
  BY Parts DEF SfrInv, Unborn
<1>5. QED
  BY <1>2, <1>3, <1>4

-----------------------------------------------------------------------------
(* Requests that touch no device *)

\* A new row names nothing, and nothing was done before about its session.
LEMMA SessionCreated ==
    ASSUME SfrInv, NEW s \in Sessions, _create_session(s)
    PROVE  SfrInv'
<1>1. PICK h \in Hosts : Reaches(h) /\ home' = [home EXCEPT ![s] = h]
  BY DEF _create_session
<1>2. /\ row' = [row EXCEPT ![s] = NewRow] /\ row[s] = NotYet
      /\ UNCHANGED <<req, sweep, thread, running, cancelled, dev, owner, clones,
                     leaky, astray, misled>>
      /\ req.mount = 0 /\ req.sid = {} /\ req.pc = "idle"
  BY Parts DEF _create_session, Idle, memory, history
<1>3. /\ row' \in [Sessions -> Rows] /\ row'[s].is = "open" /\ row[s].is = "none"
      /\ row'[s].nbd = 0 /\ row'[s].clone = 0
      /\ \A t \in Sessions \ {s} : row'[t] = row[t] /\ home'[t] = home[t]
      /\ home' \in [Sessions -> Hosts]
  <2>1. row'[s] = NewRow /\ \A t \in Sessions \ {s} : row'[t] = row[t]
    BY <1>2, Parts
  <2>2. NewRow.nbd = 0 /\ NewRow.clone = 0
    BY RowsTyped, PairsTyped
  <2>3. QED
    BY <1>1, <1>2, <2>1, <2>2, RowsTyped, Parts
<1>4. /\ s \notin sweep.todo \union sweep.sid /\ \A m \in Made : owner[m] # s
      /\ sweep.rows[s] = Nothing
  BY <1>3 DEF SfrInv, Unborn, SweepShape
<1>5. Made' = Made /\ faults' \in 0 .. MaxFaults
  BY <1>1, <1>2, ReachTyped DEF Made, SfrInv
<1>6. Types' /\ CopiesGood'
  BY <1>2, <1>3, <1>5 DEF SfrInv, Types, CopiesGood
<1>7. ClonesSan' /\ ReqShape' /\ SweepShape'
  BY <1>2 DEF SfrInv, ClonesSan, ReqShape, SweepShape
<1>8. \A t : \A m \in Made : Sound(m, t)' => Sound(m, t) /\ t # s
  BY <1>2, <1>4, <1>5 DEF Sound, Kept, Connected
<1>9. \A t \in Sessions \ {s} : \A p, m :
        /\ Tells(p, m, t) => Tells(p, m, t)'
        /\ Home(p, t) => Home(p, t)'
  BY <1>2, <1>3, <1>5 DEF Tells, Home
<1>10. Found'
  <2>1. ASSUME NEW t \in Sessions, NEW m \in Made, Sound(m, t)'
        PROVE  /\ req'.mount = m \/ (Open(t)' /\ Tells(row[t], m, t)')
               /\ t \in San => m \in clones'
    <3>1. Sound(m, t) /\ t # s
      BY <1>8, <2>1
    <3>2. \A p : Tells(p, m, t) => Tells(p, m, t)'
      BY <1>9, <3>1
    <3>3. \A p : p = row[t] => (Tells(p, m, t) => Tells(p, m, t)')
      BY <3>2
    <3>4. Tells(row[t], m, t) => Tells(row[t], m, t)'
      BY <1>3, <3>1, <3>3
    <3>5. Open(t) => Open(t)'
      BY <1>3, <3>1 DEF Open
    <3>6. QED
      BY <1>2, <3>1, <3>4, <3>5 DEF SfrInv, Found
  <2>2. QED
    BY <1>5, <2>1 DEF Found
<1>11. Homes'
  <2>1. \A t \in Sessions : \A p : p.clone = 0 => Home(p, t)'
    BY DEF Home
  <2>2. ASSUME NEW t \in Sessions PROVE Home(row[t], t)' /\ Home(sweep.rows[t], t)'
    <3>1. CASE t = s
      BY <1>2, <1>3, <1>4, <2>1, <3>1, PairsTyped
    <3>2. CASE t # s
      <4>1. \A p : p = row[t] \/ p = sweep.rows[t] => Home(p, t)'
        BY <1>9, <3>2 DEF SfrInv, Homes
      <4>2. QED
        BY <1>2, <1>3, <3>2, <4>1
    <3>3. QED
      BY <3>1, <3>2
  <2>3. QED
    BY <1>2, <2>2 DEF Homes
<1>12. MountGood' /\ ReqGood'
  BY <1>2 DEF MountGood, ReqGood
<1>13. SweepGood'
  <2>1. ASSUME NEW t \in sweep.todo \union sweep.sid, NEW m \in Made, Sound(m, t)'
        PROVE  m = req.mount \/ Tells(sweep.rows[t], m, t)'
    <3>1. Sound(m, t) /\ t \in Sessions \ {s}
      BY <1>4, <1>8, <2>1, Parts
    <3>2. \A p : p = sweep.rows[t] => (Tells(p, m, t) => Tells(p, m, t)')
      BY <1>9, <3>1
    <3>3. QED
      BY <1>2, <3>1, <3>2 DEF SfrInv, SweepGood
  <2>2. QED
    BY <1>2, <1>5, <2>1 DEF SweepGood
<1>14. Unborn'
  <2>1. \A t \in Sessions : row'[t].is = "none" => row[t].is = "none"
    BY <1>3
  <2>2. QED
    BY <1>2, <1>5, <2>1 DEF SfrInv, Unborn
<1>15. Truthful'
  <2>1. ASSUME NEW t \in Sessions \ misled
        PROVE  /\ Open(t)' => Own(t, row[t].nbd)'
               /\ Own(t, sweep.rows[t].nbd)'
    <3>1. CASE t = s
      BY <1>2, <1>3, <1>4, <3>1, PairsTyped DEF Own
    <3>2. CASE t # s
      BY <1>2, <1>3, <3>2 DEF SfrInv, Truthful, Own, Open
    <3>3. QED
      BY <3>1, <3>2
  <2>2. QED
    BY <1>2, <2>1 DEF Truthful
<1>16. QED
  BY <1>6, <1>7, <1>10, <1>11, <1>12, <1>13, <1>14, <1>15 DEF SfrInv

LEMMA RequestBegun ==
    ASSUME NEW s \in Sessions, NEW kind \in {"mount", "umount", "close"},
           NEW pc \in {"wait", "login"}, Begin(s, kind, pc), row[s] \in Rows
    PROVE  /\ req' \in Request /\ req'.kind = kind /\ req'.sid = {s} /\ req'.pc = pc
           /\ req'.mount = 0 /\ req'.sess = Names(row[s])
<1> DEFINE k == [NoReq EXCEPT !.kind = kind]
           l == [k EXCEPT !.sid = {s}]
           m == [l EXCEPT !.pc = pc]
           p == Names(row[s])
<1>1. req' = [m EXCEPT !.sess = p]
  BY DEF Begin
<1>2. k \in Request /\ k.kind = kind /\ k.mount = 0
  BY IdleTyped DEF Request, NoReq
<1> HIDE DEF k
<1>3. l \in Request /\ l.kind = kind /\ l.mount = 0 /\ l.sid = {s}
  BY <1>2 DEF Request
<1> HIDE DEF l
<1>4. m \in Request /\ m.kind = kind /\ m.mount = 0 /\ m.sid = {s} /\ m.pc = pc
  BY <1>3 DEF Request
<1> HIDE DEF m
<1>5. p \in Pair
  BY PairsTyped
<1> HIDE DEF p
<1>6. /\ req' \in Request /\ req'.kind = kind /\ req'.sid = {s} /\ req'.pc = pc
      /\ req'.mount = 0 /\ req'.sess = p
  BY <1>1, <1>4, <1>5 DEF Request
<1>7. QED
  BY <1>6 DEF p

LEMMA RequestAt ==
    ASSUME NEW r \in Request, NEW pc \in {"login", "unmount", "attach"},
           NEW q, q = [r EXCEPT !.pc = pc]
    PROVE  /\ q \in Request /\ q.pc = pc
           /\ q.kind = r.kind /\ q.sid = r.sid /\ q.sess = r.sess /\ q.mount = r.mount
BY DEF Request

\* Without the names it has read.
LEMMA RequestForgets ==
    ASSUME NEW r \in Request, NEW pc \in {"attach", "record"},
           NEW q, q = [r EXCEPT !.pc = pc, !.sess = Nothing]
    PROVE  /\ q \in Request /\ q.pc = pc /\ q.sess = Nothing
           /\ q.kind = r.kind /\ q.sid = r.sid /\ q.mount = r.mount
<1> DEFINE k == [r EXCEPT !.pc = pc]
<1>1. q = [k EXCEPT !.sess = Nothing]
  OBVIOUS
<1>2. k \in Request /\ k.pc = pc /\ k.kind = r.kind /\ k.sid = r.sid /\ k.mount = r.mount
  BY DEF Request
<1> HIDE DEF k
<1>3. QED
  BY <1>1, <1>2, PairsTyped DEF Request

\* A request that has no mount to write down goes on, and knows what it names.
LEMMA RequestMoves ==
    ASSUME SfrInv, Shrinks, UNCHANGED <<sweep, dev, thread, running, misled>>,
           cancelled' \subseteq Sessions, faults' \in 0 .. MaxFaults,
           leaky' \subseteq Made, astray' \subseteq Made,
           req' \in Request, req'.mount = 0, ReqShape', ReqGood',
           \A m \in Made : m = req.mount => ~Sound(m, owner[m])',
           \A s \in req'.sid :
              /\ Home(req'.sess, s) /\ row[s].is # "none"
              /\ s \in misled \/ Own(s, req'.sess.nbd)
    PROVE  SfrInv'
<1>1. Made' = Made /\ row' = row /\ owner' = owner /\ home' = home /\ clones' \subseteq Made
  BY Shrunk, Parts DEF Shrinks
<1>2. Types' /\ CopiesGood'
  BY <1>1 DEF SfrInv, Types, CopiesGood
<1>3. /\ SweepShape' /\ SweepGood'
      /\ \A s \in Sessions : sweep'.rows[s] \in {sweep.rows[s], Nothing}
      /\ \A s \in sweep'.todo \union sweep'.sid : s \in Sessions /\ row[s].is # "none"
  BY SweepStays
<1>4. Truthful'
  BY <1>1 DEF SfrInv, Truthful, Own, Open
<1>5. QED
  BY <1>2, <1>3, <1>4, ShrinkStep

\* What an open row names is its own.
LEMMA RequestBegins ==
    ASSUME SfrInv, NEW s \in Sessions, NEW kind \in {"mount", "umount", "close"},
           NEW pc \in {"wait", "login"}, Begin(s, kind, pc),
           pc = "wait" => kind = "close",
           UNCHANGED <<row, sweep, thread, running, host, history, faults>>,
           cancelled' \subseteq Sessions
    PROVE  SfrInv'
<1>1. row[s] \in Rows /\ req.mount = 0 /\ Open(s)
  BY Parts DEF Begin, Idle
<1>2. /\ req' \in Request /\ req'.kind = kind /\ req'.sid = {s} /\ req'.pc = pc
      /\ req'.mount = 0 /\ req'.sess = Names(row[s])
  BY <1>1, RequestBegun
<1>3. Shrinks
  BY DEF Shrinks, host, history
<1>4. ReqShape' /\ ReqGood'
  BY <1>2, <1>3 DEF ReqShape, ReqGood, Shrinks
<1>5. Home(req'.sess, s) /\ row[s].is # "none"
  BY <1>1, <1>2, PairsTyped DEF SfrInv, Homes, Home, Open
<1>6. s \in misled \/ Own(s, req'.sess.nbd)
  BY <1>1, <1>2, PairsTyped DEF SfrInv, Truthful
<1>7. QED
  BY <1>1, <1>2, <1>3, <1>4, <1>5, <1>6, RequestMoves, Parts
     DEF SfrInv, Types, host, history

LEMMA RequestStarts ==
    ASSUME SfrInv, NEW s \in Sessions, _mount(s) \/ _umount_disk(s) \/ _close_session(s)
    PROVE  SfrInv'
<1>1. CASE _mount(s)
  BY <1>1, RequestBegins DEF _mount, memory, SfrInv, Types
<1>2. CASE _umount_disk(s)
  BY <1>2, RequestBegins DEF _umount_disk, memory, SfrInv, Types
<1>3. CASE _close_session(s)
  <2>1. Begin(s, "close", "wait") \/ Begin(s, "close", "login")
    BY <1>3 DEF _close_session
  <2>2. /\ UNCHANGED <<row, sweep, thread, running, host, history, faults>>
        /\ cancelled' \subseteq Sessions
    BY <1>3 DEF _close_session, SfrInv, Types
  <2>3. QED
    BY <2>1, <2>2, RequestBegins
<1>4. QED
  BY <1>1, <1>2, <1>3

\* What a request knows before it has cleaned up.
LEMMA RequestKnows ==
    ASSUME SfrInv, req.pc \in {"wait", "login", "unmount"}
    PROVE  /\ req.mount = 0
           /\ \E s \in Sessions : req.sid = {s}
           /\ req.kind \in {"mount", "umount", "close"}
           /\ \A s \in req.sid :
                /\ Open(s) => req.sess = Names(row[s])
                /\ Home(req.sess, s) /\ row[s].is # "none"
                /\ s \in misled \/ Own(s, req.sess.nbd)
<1>1. req.kind # "idle" /\ req.mount = 0 /\ req \in Request
  BY Parts DEF SfrInv, ReqShape
<1>2. \E s \in Sessions : req.sid = {s}
  BY <1>1 DEF SfrInv, ReqShape
<1>3. req.kind \in {"mount", "umount", "close"}
  BY <1>1 DEF Request
<1>4. \A s \in req.sid :
         /\ Open(s) => req.sess = Names(row[s])
         /\ Home(req.sess, s) /\ row[s].is # "none"
         /\ s \in misled \/ Own(s, req.sess.nbd)
  BY Parts DEF SfrInv, ReqGood, Homes, Unborn, Truthful
<1>5. QED
  BY <1>1, <1>2, <1>3, <1>4

LEMMA RequestWaits ==
    ASSUME SfrInv, CloseWaits
    PROVE  SfrInv'
<1>1. /\ req.pc = "wait" /\ req' = [req EXCEPT !.pc = "login"] /\ req \in Request
      /\ UNCHANGED <<row, sweep, memory, host, history, faults>>
  BY Parts DEF CloseWaits
<1>2. /\ req' \in Request /\ req'.pc = "login"
      /\ req'.kind = req.kind /\ req'.sid = req.sid /\ req'.sess = req.sess
      /\ req'.mount = req.mount
  BY <1>1, RequestAt
<1>3. Shrinks
  BY <1>1 DEF Shrinks, host, history
<1>4. ReqShape' /\ ReqGood'
  BY <1>1, <1>2, RequestKnows DEF ReqShape, ReqGood, Open
<1>5. QED
  BY <1>1, <1>2, <1>3, <1>4, RequestKnows, RequestMoves, Parts
     DEF SfrInv, Types, memory, host, history

\* A mount without a device to give up has nothing sound: its row is what would name it.
LEMMA RequestLogsIn ==
    ASSUME SfrInv, _pve_for_sess
    PROVE  SfrInv'
<1> DEFINE pc == IF req.kind = "mount" /\ req.sess.nbd = 0 THEN "attach" ELSE "unmount"
<1>1. PICK h \in Hosts :
        /\ req.pc = "login" /\ Reaches(h)
        /\ req' = [req EXCEPT !.host = h, !.pc = pc]
        /\ UNCHANGED <<row, sweep, memory, host, history>>
  BY DEF _pve_for_sess
<1>2. req \in Request /\ faults' \in 0 .. MaxFaults
  BY <1>1, ReachTyped, Parts DEF SfrInv
<1>3. pc \in {"attach", "unmount"}
  OBVIOUS
<1>4. pc = "attach" => req.kind = "mount" /\ req.sess.nbd = 0
  OBVIOUS
<1> HIDE DEF pc
<1>5. /\ req' \in Request /\ req'.pc = pc
      /\ req'.kind = req.kind /\ req'.sid = req.sid /\ req'.sess = req.sess
      /\ req'.mount = req.mount
  <2> DEFINE k == [req EXCEPT !.host = h]
  <2>1. req' = [k EXCEPT !.pc = pc]
    BY <1>1
  <2>2. /\ k \in Request /\ k.kind = req.kind /\ k.sid = req.sid /\ k.sess = req.sess
        /\ k.mount = req.mount
    BY <1>2 DEF Request
  <2> HIDE DEF k
  <2>3. QED
    BY <1>3, <2>1, <2>2 DEF Request
<1>6. Shrinks
  BY <1>1 DEF Shrinks, host, history
<1>7. ReqShape'
  BY <1>1, <1>3, <1>4, <1>5, RequestKnows DEF ReqShape
<1>8. ReqGood'
  <2>1. ASSUME NEW s \in req.sid, NEW m \in Made, Sound(m, s), pc = "attach" PROVE FALSE
    <3>1. Open(s) /\ Tells(row[s], m, s) /\ m # 0 /\ s \in Sessions
      BY <1>1, <2>1, RequestKnows, Parts DEF SfrInv, Found
    <3>2. row[s].nbd = 0 /\ row[s].clone = 0
      <4>1. req.sess = Names(row[s]) /\ Home(row[s], s)
        BY <1>1, <3>1, RequestKnows DEF SfrInv, Homes
      <4>2. row[s].nbd = 0
        BY <1>4, <2>1, <4>1, PairsTyped
      <4>3. QED
        BY <4>1, <4>2 DEF Home
    <3>3. s \notin San /\ m \in clones
      <4>1. \A q \in Places : dev[q] # m
        BY <3>1, <3>2 DEF Tells, Places, Devices
      <4>2. QED
        BY <2>1, <3>1, <3>2, <4>1 DEF Tells, Sound, Kept, Connected
    <3>4. QED
      BY <2>1, <3>3 DEF SfrInv, ClonesSan, Sound
  <2>2. \A s \in req.sid, m \in Made : Sound(m, s)' => Sound(m, s)
    BY <1>6, Shrunk
  <2>3. Made' = Made /\ row' = row
    BY <1>6, Shrunk DEF Shrinks
  <2>4. QED
    BY <1>1, <1>3, <1>5, <2>1, <2>2, <2>3, RequestKnows DEF ReqGood, Open
<1>9. QED
  BY <1>1, <1>2, <1>5, <1>6, <1>7, <1>8, RequestKnows, RequestMoves, Parts
     DEF SfrInv, Types, memory, host, history

\* What a login that fails leaves behind counts as lost.
LEMMA LoginLost ==
    ASSUME SfrInv, LoginFails
    PROVE  SfrInv'
<1>1. PICK s \in req.sid :
        /\ req.pc = "login" /\ Fault
        /\ IF req.kind = "mount" THEN req' = NoReq /\ UNCHANGED leaky
           ELSE /\ req' = [req EXCEPT !.pc = "record", !.sess = Nothing]
                /\ leaky' = leaky \union Mine(s)
        /\ UNCHANGED <<row, sweep, memory, host, astray, misled>>
  BY DEF LoginFails, Answered
<1>2. faults' \in 0 .. MaxFaults /\ req \in Request /\ req.sid = {s}
  BY <1>1, FaultTyped, Parts, RequestKnows DEF SfrInv
<1>3. Mine(s) \subseteq Made /\ \A m \in Made : owner[m] = s => m \in Mine(s)
  BY Parts DEF Mine, Made
<1>4. Shrinks
  BY <1>1 DEF Shrinks, host
<1>5. leaky \subseteq Made /\ astray \subseteq Made /\ Made' = Made
  BY <1>4, Shrunk DEF SfrInv, Types
<1>6. CASE req.kind = "mount"
  <2>1. req' = NoReq /\ leaky' = leaky
    BY <1>1, <1>6
  <2>2. req' \in Request /\ ReqShape' /\ ReqGood'
    BY <2>1, IdleFields, IdleTyped DEF ReqShape, ReqGood
  <2>3. QED
    BY <1>1, <1>2, <1>4, <1>5, <2>1, <2>2, IdleFields, RequestKnows, RequestMoves, Parts
       DEF SfrInv, Types, memory, host
<1>7. CASE req.kind # "mount"
  <2>1. /\ req' = [req EXCEPT !.pc = "record", !.sess = Nothing]
        /\ leaky' = leaky \union Mine(s)
    BY <1>1, <1>7
  <2>2. /\ req' \in Request /\ req'.pc = "record" /\ req'.sess = Nothing
        /\ req'.kind = req.kind /\ req'.sid = req.sid /\ req'.mount = req.mount
    BY <1>2, <2>1, RequestForgets
  <2>3. ReqShape'
    BY <1>1, <1>7, <2>2, RequestKnows DEF ReqShape
  <2>4. ReqGood'
    <3>1. \A m \in Made : ~Sound(m, s)'
      BY <1>1, <1>3, <2>1 DEF Sound, host
    <3>2. QED
      BY <1>2, <1>5, <2>2, <3>1 DEF ReqGood
  <2>5. Home(req'.sess, s) /\ Own(s, req'.sess.nbd)
    BY <2>2, PairsTyped DEF Home, Own
  <2>6. leaky' \subseteq Made
    BY <1>3, <1>5, <2>1
  <2>7. QED
    BY <1>1, <1>2, <1>4, <1>5, <2>2, <2>3, <2>4, <2>5, <2>6, RequestKnows, RequestMoves,
       Parts DEF SfrInv, Types, memory, host
<1>8. QED
  BY <1>6, <1>7

\* The clone of a mount that fails goes, or counts as lost; its device is not there yet.
LEMMA RequestFails ==
    ASSUME SfrInv, MountFails
    PROVE  SfrInv'
<1>1. /\ req.pc \in {"attach", "connect"} /\ req' = NoReq
      /\ \/ clones' = clones \ Pending /\ leaky' = leaky
         \/ clones' = clones /\ leaky' = leaky \union Pending
      /\ UNCHANGED <<row, sweep, memory, home, dev, owner, astray, misled>>
  BY DEF MountFails, Answered
<1>2. faults' \in 0 .. MaxFaults
  BY FaultTyped DEF MountFails, SfrInv, Types
<1>3. Pending \subseteq Made
  BY DEF Pending, SfrInv, MountGood
<1>4. \A m \in Pending : m = req.mount /\ \A q \in Places : dev[q] # m
  BY <1>1 DEF Pending, SfrInv, MountGood
<1>5. \A m \in Made : m = req.mount => m \in leaky' \/ ~Kept(m)'
  <2>1. \A m \in Made : m = req.mount => m \in Pending
    BY Parts DEF Pending
  <2>2. QED
    BY <1>1, <1>4, <2>1 DEF Kept, Connected
<1>6. Shrinks
  <2>1. \A m \in clones \ clones' : m \in leaky' \union astray' \/ ~Kept(m)'
    BY <1>1, <1>4, <1>5, Parts DEF Kept, Connected
  <2>2. QED
    BY <1>1, <2>1 DEF Shrinks
<1>7. req' \in Request /\ ReqShape' /\ ReqGood'
  BY <1>1, IdleFields, IdleTyped DEF ReqShape, ReqGood
<1>8. leaky' \subseteq Made /\ astray' \subseteq Made
  BY <1>1, <1>3 DEF SfrInv, Types
<1>9. \A m \in Made : m = req.mount => ~Sound(m, owner[m])'
  BY <1>5 DEF Sound
<1>10. QED
  BY <1>1, <1>2, <1>6, <1>7, <1>8, <1>9, IdleFields, RequestMoves
     DEF SfrInv, Types, memory

\* A clone that no row names is of no sound mount: while no request is at work, each of
\* those is named by its row.
LEMMA OrphanDeleted ==
    ASSUME SfrInv, NEW m \in Mounts, _delete_orphan_san_clone(m)
    PROVE  SfrInv'
<1>1. /\ clones' = clones \ {m} /\ m \in clones /\ ~Referenced(m) /\ req.mount = 0
      /\ UNCHANGED <<row, req, sweep, memory, home, dev, owner, history, faults>>
  BY Parts DEF _delete_orphan_san_clone, Idle
<1>2. m \in leaky \union astray
  <2>1. SUFFICES ASSUME m \notin leaky \union astray PROVE FALSE
    OBVIOUS
  <2>2. m \in Made /\ owner[m] \in Sessions /\ owner[m] \in San /\ m # 0
    BY <1>1, Parts DEF SfrInv, ClonesSan
  <2>3. Sound(m, owner[m])
    BY <1>1, <2>1, <2>2 DEF Sound, Kept
  <2>4. Open(owner[m]) /\ row[owner[m]].clone = m
    BY <1>1, <2>2, <2>3 DEF SfrInv, Found, Tells
  <2>5. QED
    BY <1>1, <2>2, <2>4 DEF Referenced
<1>3. Shrinks
  BY <1>1, <1>2 DEF Shrinks, history
<1>4. Made' = Made
  BY <1>3, Shrunk
<1>5. Types' /\ CopiesGood'
  BY <1>1, <1>4 DEF SfrInv, Types, CopiesGood, memory, history
<1>6. /\ SweepShape' /\ SweepGood'
      /\ \A s \in Sessions : sweep'.rows[s] \in {sweep.rows[s], Nothing}
      /\ \A s \in sweep'.todo \union sweep'.sid : s \in Sessions /\ row[s].is # "none"
  BY <1>1, <1>3, SweepStays
<1>7. /\ ReqShape' /\ ReqGood'
      /\ \A s \in req'.sid : Home(req'.sess, s) /\ row[s].is # "none"
  BY <1>1, <1>3, RequestStays
<1>8. Truthful'
  BY <1>1 DEF SfrInv, Truthful, Own, Open, history
<1>9. QED
  BY <1>1, <1>3, <1>5, <1>6, <1>7, <1>8, ShrinkStep

\* A mount that was not written down is lost.
LEMMA ProcessDies ==
    ASSUME SfrInv, Crash
    PROVE  SfrInv'
<1>1. /\ leaky' = leaky \union Pending
      /\ req' = NoReq /\ sweep' = NoSweep /\ thread' = [c \in Copies |-> NoThread]
      /\ running' = {} /\ cancelled' = {}
      /\ UNCHANGED <<row, home, dev, owner, clones, astray, misled>>
  BY DEF Crash, host
<1>2. faults' \in 0 .. MaxFaults
  BY FaultTyped DEF Crash, SfrInv
<1>3. Shrinks
  BY <1>1 DEF Shrinks
<1>4. Made' = Made
  BY <1>3, Shrunk
<1>5. leaky' \subseteq Made
  BY <1>1 DEF Pending, SfrInv, MountGood, Types
<1>6. thread' \in [Copies -> Thread] /\ CopiesGood'
  <2>1. NoThread.pc = "none"
    BY DEF NoThread
  <2>2. QED
    BY <1>1, <2>1, IdleTyped DEF CopiesGood
<1>7. Types'
  BY <1>1, <1>2, <1>4, <1>5, <1>6, IdleTyped DEF SfrInv, Types
<1>8. ReqShape' /\ SweepShape' /\ ReqGood' /\ SweepGood'
  BY <1>1, IdleFields DEF ReqShape, SweepShape, ReqGood, SweepGood
<1>9. Truthful'
  BY <1>1, IdleFields, PairsTyped DEF SfrInv, Truthful, Own, Open
<1>10. \A m \in Made : m = req.mount => ~Sound(m, owner[m])'
  <2>1. \A m \in Made : m = req.mount => m \in Pending
    BY Parts DEF Pending
  <2>2. QED
    BY <1>1, <2>1 DEF Sound
<1>11. QED
  BY <1>1, <1>3, <1>6, <1>7, <1>8, <1>9, <1>10, IdleFields, ShrinkStep

-----------------------------------------------------------------------------
(* The daemon, but for what it unmounts *)

\* The daemon goes on, and knows what it names.
LEMMA SweepMoves ==
    ASSUME SfrInv, Shrinks, UNCHANGED <<req, dev, clones, thread, running, misled>>,
           cancelled' \subseteq Sessions, faults' \in 0 .. MaxFaults,
           leaky' \subseteq Made, astray' \subseteq Made,
           sweep' \in Sweep, SweepShape', SweepGood',
           \A s \in Sessions : \/ sweep'.rows[s] \in {sweep.rows[s], Nothing}
                               \/ Open(s) /\ sweep'.rows[s] = Names(row[s]),
           \A s \in sweep'.todo \union sweep'.sid : s \in Sessions /\ row[s].is # "none"
    PROVE  SfrInv'
<1>1. Made' = Made /\ row' = row /\ owner' = owner /\ home' = home /\ clones' \subseteq Made
  BY Shrunk, Parts DEF Shrinks
<1>2. Types' /\ CopiesGood'
  BY <1>1 DEF SfrInv, Types, CopiesGood
<1>3. /\ ReqShape' /\ ReqGood'
      /\ \A s \in req'.sid : Home(req'.sess, s) /\ row[s].is # "none"
  BY RequestStays
<1>4. Truthful'
  <2>1. ASSUME NEW s \in Sessions \ misled PROVE Own(s, sweep'.rows[s].nbd)
    <3>1. /\ Open(s) => Own(s, row[s].nbd)
          /\ Own(s, sweep.rows[s].nbd)
      BY DEF SfrInv, Truthful
    <3>2. \/ sweep'.rows[s].nbd \in {sweep.rows[s].nbd, 0}
          \/ Open(s) /\ sweep'.rows[s].nbd = row[s].nbd
      BY PairsTyped
    <3>3. QED
      BY <3>1, <3>2 DEF Own
  <2>2. QED
    BY <1>1, <2>1 DEF SfrInv, Truthful, Own, Open
<1>5. QED
  BY <1>2, <1>3, <1>4, ShrinkStep

LEMMA SweepRead ==
    ASSUME _cleanup_expired, Types
    PROVE  /\ sweep' \in Sweep /\ sweep'.todo = Expired /\ sweep'.pc = "next"
           /\ sweep'.sid = {}
           /\ \A s \in Sessions :
                sweep'.rows[s] = IF s \in Expired THEN Names(row[s]) ELSE Nothing
<1> DEFINE rows == [s \in Sessions |-> IF s \in Expired THEN Names(row[s]) ELSE Nothing]
           k == [NoSweep EXCEPT !.todo = Expired]
           l == [k EXCEPT !.pc = "next"]
<1>1. sweep' = [l EXCEPT !.rows = rows]
  BY DEF _cleanup_expired
<1>2. Expired \subseteq Sessions
  BY DEF Expired
<1>3. NoSweep.sid = {} /\ NoSweep \in Sweep
  BY IdleFields, IdleTyped
<1>4. k \in Sweep /\ k.todo = Expired /\ k.sid = {}
  BY <1>2, <1>3 DEF Sweep
<1> HIDE DEF k
<1>5. l \in Sweep /\ l.todo = Expired /\ l.sid = {} /\ l.pc = "next"
  BY <1>4 DEF Sweep
<1> HIDE DEF l
<1>6. rows \in [Sessions -> Pair]
  BY PairsTyped DEF Types
<1>7. \A s \in Sessions : rows[s] = IF s \in Expired THEN Names(row[s]) ELSE Nothing
  OBVIOUS
<1> HIDE DEF rows
<1>8. /\ sweep' \in Sweep /\ sweep'.todo = Expired /\ sweep'.sid = {}
      /\ sweep'.pc = "next" /\ sweep'.rows = rows
  BY <1>1, <1>5, <1>6 DEF Sweep
<1>9. QED
  BY <1>7, <1>8

LEMMA SweepStarts ==
    ASSUME SfrInv, _cleanup_expired
    PROVE  SfrInv'
<1>1. /\ sweep' \in Sweep /\ sweep'.todo = Expired /\ sweep'.pc = "next"
      /\ sweep'.sid = {}
      /\ \A s \in Sessions :
           sweep'.rows[s] = IF s \in Expired THEN Names(row[s]) ELSE Nothing
  BY SweepRead DEF SfrInv
<1>2. UNCHANGED <<row, req, memory, host, history, faults>>
  BY DEF _cleanup_expired
<1>3. \A s \in Expired : s \in Sessions /\ Open(s)
  BY DEF Expired
<1>4. SweepShape'
  BY <1>1 DEF SweepShape
<1>5. Shrinks
  BY <1>2 DEF Shrinks, host, history
<1>6. SweepGood'
  <2>1. ASSUME NEW s \in Expired, NEW m \in Made, Sound(m, s)
        PROVE  m = req.mount \/ Tells(sweep'.rows[s], m, s)
    <3>1. m = req.mount \/ Tells(row[s], m, s)
      BY <1>3, <2>1 DEF SfrInv, Found
    <3>2. sweep'.rows[s].nbd = row[s].nbd /\ sweep'.rows[s].clone = row[s].clone
      BY <1>1, <1>3, PairsTyped
    <3>3. QED
      BY <3>1, <3>2 DEF Tells
  <2>2. /\ UNCHANGED <<req, home, dev, owner, clones, leaky, astray>>
        /\ Made' = Made
    BY <1>2, <1>5, Shrunk DEF host, history
  <2>3. \A s : \A m \in Made : Sound(m, s)' <=> Sound(m, s)
    BY <2>2 DEF Sound, Kept, Connected
  <2>4. QED
    BY <1>1, <2>1, <2>2, <2>3 DEF SweepGood, Tells
<1>7. \A s \in sweep'.todo \union sweep'.sid : s \in Sessions /\ row[s].is # "none"
  BY <1>1, <1>3 DEF Open
<1>8. QED
  BY <1>1, <1>2, <1>3, <1>4, <1>5, <1>6, <1>7, SweepMoves
     DEF memory, host, history, SfrInv, Types

LEMMA SweepGoesOn ==
    ASSUME SfrInv, SweepNext
    PROVE  SfrInv'
<1>1. PICK s \in sweep.todo :
        /\ sweep' = [sweep EXCEPT !.todo = @ \ {s}, !.sid = {s}, !.pc = "unmount"]
        /\ cancelled' = IF Running(s) THEN cancelled \union {s} ELSE cancelled
  BY DEF SweepNext
<1>2. /\ sweep.pc = "next"
      /\ UNCHANGED <<row, req, thread, running, host, history, faults>>
  BY DEF SweepNext
<1>3. sweep \in Sweep /\ s \in Sessions
  BY Parts
<1>4. /\ sweep' \in Sweep /\ sweep'.todo = sweep.todo \ {s} /\ sweep'.sid = {s}
      /\ sweep'.pc = "unmount" /\ sweep'.rows = sweep.rows
  <2> DEFINE k == [sweep EXCEPT !.todo = sweep.todo \ {s}]
             l == [k EXCEPT !.sid = {s}]
  <2>1. sweep' = [l EXCEPT !.pc = "unmount"]
    BY <1>1, <1>3 DEF Sweep
  <2>2. k \in Sweep /\ k.todo = sweep.todo \ {s} /\ k.rows = sweep.rows
    BY <1>3 DEF Sweep
  <2> HIDE DEF k
  <2>3. l \in Sweep /\ l.todo = sweep.todo \ {s} /\ l.rows = sweep.rows /\ l.sid = {s}
    BY <1>3, <2>2 DEF Sweep
  <2> HIDE DEF l
  <2>4. QED
    BY <2>1, <2>3 DEF Sweep
<1>5. SweepShape'
  BY <1>2, <1>3, <1>4 DEF SfrInv, SweepShape
<1>6. Shrinks
  BY <1>2 DEF Shrinks, host, history
<1>7. sweep'.todo \union sweep'.sid = sweep.todo \union sweep.sid
  BY <1>2, <1>4 DEF SfrInv, SweepShape
<1>8. SweepGood'
  <2>1. Made' = Made /\ UNCHANGED <<req, home, dev, owner, clones, leaky, astray>>
    BY <1>2, <1>6, Shrunk DEF host, history
  <2>2. QED
    BY <1>4, <1>7, <2>1 DEF SfrInv, SweepGood, Sound, Kept, Connected, Tells
<1>9. cancelled' \subseteq Sessions
  BY <1>1, <1>3 DEF SfrInv, Types
<1>10. \A t \in sweep'.todo \union sweep'.sid : t \in Sessions /\ row[t].is # "none"
  BY <1>7, Parts DEF SfrInv, Unborn
<1>11. QED
  BY <1>2, <1>4, <1>5, <1>6, <1>8, <1>9, <1>10, SweepMoves
     DEF host, history, SfrInv, Types

\* The copy of the row the daemon is at, forgotten.
LEMMA SweepForgets ==
    ASSUME SfrInv, NEW s \in sweep.sid, sweep.pc = "unmount",
           sweep' = [sweep EXCEPT !.pc = "delete", !.rows[s] = Nothing]
    PROVE  /\ sweep' \in Sweep /\ sweep'.pc = "delete" /\ sweep'.sid = sweep.sid
           /\ sweep'.todo = sweep.todo /\ sweep'.rows[s] = Nothing
           /\ \A t \in Sessions \ {s} : sweep'.rows[t] = sweep.rows[t]
           /\ s \in Sessions /\ sweep.sid = {s} /\ SweepShape'
<1>1. sweep \in Sweep /\ s \in Sessions /\ sweep.sid = {s}
  BY Parts DEF SfrInv, SweepShape
<1> DEFINE rows == [sweep.rows EXCEPT ![s] = Nothing]
           k == [sweep EXCEPT !.pc = "delete"]
<1>2. sweep' = [k EXCEPT !.rows = rows]
  BY <1>1 DEF Sweep
<1>3. k \in Sweep /\ k.pc = "delete" /\ k.sid = sweep.sid /\ k.todo = sweep.todo
  BY <1>1 DEF Sweep
<1> HIDE DEF k
<1>4. /\ rows \in [Sessions -> Pair] /\ rows[s] = Nothing
      /\ \A t \in Sessions \ {s} : rows[t] = sweep.rows[t]
  BY <1>1, PairsTyped DEF Sweep
<1> HIDE DEF rows
<1>5. /\ sweep' \in Sweep /\ sweep'.pc = "delete" /\ sweep'.sid = sweep.sid
      /\ sweep'.todo = sweep.todo /\ sweep'.rows = rows
  BY <1>2, <1>3, <1>4 DEF Sweep
<1>6. SweepShape'
  BY <1>1, <1>4, <1>5 DEF SfrInv, SweepShape
<1>7. QED
  BY <1>1, <1>4, <1>5, <1>6

LEMMA SweepLoginLost ==
    ASSUME SfrInv, SweepLoginFails
    PROVE  SfrInv'
<1>1. PICK s \in sweep.sid :
        /\ sweep.pc = "unmount" /\ Fault
        /\ leaky' = leaky \union Mine(s)
        /\ sweep' = [sweep EXCEPT !.pc = "delete", !.rows[s] = Nothing]
        /\ UNCHANGED <<row, req, memory, host, astray, misled>>
  BY DEF SweepLoginFails
<1>2. /\ sweep' \in Sweep /\ sweep'.pc = "delete" /\ sweep'.sid = sweep.sid
      /\ sweep'.todo = sweep.todo /\ sweep'.rows[s] = Nothing
      /\ \A t \in Sessions \ {s} : sweep'.rows[t] = sweep.rows[t]
      /\ s \in Sessions /\ sweep.sid = {s} /\ SweepShape'
  BY <1>1, SweepForgets
<1>3. faults' \in 0 .. MaxFaults
  BY <1>1, FaultTyped DEF SfrInv
<1>4. Mine(s) \subseteq Made /\ \A m \in Made : owner[m] = s => m \in Mine(s)
  BY Parts DEF Mine, Made
<1>5. Shrinks
  BY <1>1 DEF Shrinks, host
<1>6. leaky' \subseteq Made /\ astray' \subseteq Made
  BY <1>1, <1>4 DEF SfrInv, Types
<1>7. SweepGood'
  <2>1. ASSUME NEW t \in sweep.todo \union sweep.sid, NEW m \in Made, Sound(m, t)'
        PROVE  m = req.mount \/ Tells(sweep.rows[t], m, t)'
    <3>1. Sound(m, t) /\ t \in Sessions
      BY <1>5, <2>1, Shrunk, Parts
    <3>2. t # s
      BY <1>1, <1>4, <2>1 DEF Sound, host
    <3>3. m = req.mount \/ Tells(sweep.rows[t], m, t)
      BY <2>1, <3>1 DEF SfrInv, SweepGood
    <3>4. \A p : p = sweep.rows[t] => (Tells(p, m, t) => Tells(p, m, t)')
      BY <1>5, Shrunk
    <3>5. sweep'.rows[t] = sweep.rows[t]
      BY <1>2, <3>1, <3>2
    <3>6. QED
      BY <3>3, <3>4, <3>5
  <2>2. Made' = Made /\ req' = req
    BY <1>1, <1>5, Shrunk
  <2>3. QED
    BY <1>2, <2>1, <2>2 DEF SweepGood
<1>8. \A t \in Sessions : sweep'.rows[t] \in {sweep.rows[t], Nothing}
  BY <1>2
<1>9. \A t \in sweep'.todo \union sweep'.sid : t \in Sessions /\ row[t].is # "none"
  BY <1>2, Parts DEF SfrInv, Unborn
<1>10. QED
  BY <1>1, <1>2, <1>3, <1>5, <1>6, <1>7, <1>8, <1>9, SweepMoves
     DEF memory, host, SfrInv, Types

\* Nothing of the session is sound by now, but what a request is about to write down.
LEMMA SweptClean ==
    ASSUME SfrInv, NEW s \in sweep.sid, sweep.pc = "delete"
    PROVE  /\ s \in Sessions /\ sweep.sid = {s} /\ sweep.rows[s] = Nothing
           /\ \A m \in Made : Sound(m, s) => m = req.mount
<1>1. s \in Sessions /\ sweep.sid = {s} /\ sweep.rows[s] = Nothing
  BY Parts DEF SfrInv, SweepShape
<1>2. ASSUME NEW m \in Made, Sound(m, s), m # req.mount PROVE FALSE
  <2>1. Tells(Nothing, m, s) /\ m # 0
    BY <1>1, <1>2, Parts DEF SfrInv, SweepGood
  <2>2. \A q \in Places : dev[q] # m
    BY <2>1, PairsTyped DEF Tells, Places, Devices
  <2>3. s \notin San /\ m \in clones
    BY <1>2, <2>1, <2>2, PairsTyped DEF Tells, Sound, Kept, Connected
  <2>4. QED
    BY <1>2, <2>3 DEF SfrInv, ClonesSan, Sound
<1>3. QED
  BY <1>1, <1>2

LEMMA SweepDeletes ==
    ASSUME SfrInv, SweepDelete
    PROVE  SfrInv'
<1>1. PICK s \in sweep.sid :
        /\ sweep.pc = "delete"
        /\ row' = [row EXCEPT ![s] = Gone]
        /\ misled' = IF Serves(s) THEN misled ELSE misled \ {s}
        /\ running' = running \ {s} /\ cancelled' = cancelled \ {s}
        /\ sweep' = IF sweep.todo = {} THEN NoSweep
                    ELSE [sweep EXCEPT !.pc = "next", !.sid = {}]
        /\ UNCHANGED <<req, thread, home, dev, owner, clones, leaky, astray, faults>>
  BY DEF SweepDelete, host
<1>2. /\ sweep \in Sweep /\ s \in Sessions /\ sweep.sid = {s} /\ sweep.rows[s] = Nothing
      /\ \A m \in Made : Sound(m, s) => m = req.mount
  BY <1>1, SweptClean, Parts
<1>3. /\ sweep' \in Sweep /\ sweep'.sid = {}
      /\ sweep' = NoSweep \/ sweep'.pc = "next"
      /\ sweep'.todo = sweep.todo
      /\ \A t \in Sessions : sweep'.rows[t] = Nothing \/ sweep'.rows[t] = sweep.rows[t]
      /\ \A t \in sweep'.todo : sweep'.rows[t] = sweep.rows[t]
  <2>1. CASE sweep.todo = {}
    BY <1>1, <2>1, IdleFields, IdleTyped
  <2>2. CASE sweep.todo # {}
    <3> DEFINE k == [sweep EXCEPT !.pc = "next"]
    <3>1. sweep' = [k EXCEPT !.sid = {}]
      BY <1>1, <2>2
    <3>2. k \in Sweep /\ k.pc = "next" /\ k.todo = sweep.todo /\ k.rows = sweep.rows
      BY <1>2 DEF Sweep
    <3> HIDE DEF k
    <3>3. /\ sweep' \in Sweep /\ sweep'.pc = "next" /\ sweep'.todo = sweep.todo
          /\ sweep'.rows = sweep.rows /\ sweep'.sid = {}
      BY <3>1, <3>2 DEF Sweep
    <3>4. QED
      BY <3>3
  <2>3. QED
    BY <2>1, <2>2
<1>4. /\ row' \in [Sessions -> Rows] /\ row'[s].is = "gone" /\ Names(row'[s]) = Nothing
      /\ \A t \in Sessions \ {s} : row'[t] = row[t]
  BY <1>1, <1>2, RowsTyped, Parts
<1>5. Made' = Made /\ \A m, t : Sound(m, t)' <=> Sound(m, t)
  BY <1>1 DEF Made, Sound, Kept, Connected
<1>6. Types' /\ CopiesGood'
  BY <1>1, <1>3, <1>4, <1>5 DEF SfrInv, Types, CopiesGood
<1>7. ClonesSan' /\ ReqShape'
  BY <1>1 DEF SfrInv, ClonesSan, ReqShape
<1>8. SweepShape'
  <2>1. CASE sweep' = NoSweep
    BY <2>1, IdleFields DEF SweepShape
  <2>2. CASE sweep'.pc = "next"
    BY <2>2, <1>2, <1>3 DEF SfrInv, SweepShape
  <2>3. QED
    BY <1>3, <2>1, <2>2
<1>9. Found'
  <2>1. ASSUME NEW t \in Sessions, NEW m \in Made, Sound(m, t)
        PROVE  /\ req.mount = m \/ (Open(t)' /\ Tells(row[t], m, t)')
               /\ t \in San => m \in clones
    <3>1. CASE t = s
      BY <1>2, <2>1, <3>1 DEF SfrInv, Found
    <3>2. CASE t # s
      BY <1>1, <1>4, <2>1, <3>2 DEF SfrInv, Found, Open, Tells
    <3>3. QED
      BY <3>1, <3>2
  <2>2. QED
    BY <1>1, <1>5, <2>1 DEF Found
<1>10. Homes'
  <2>1. ASSUME NEW t \in Sessions PROVE Home(row[t], t)' /\ Home(sweep.rows[t], t)'
    <3>1. row'[t].clone = 0 \/ row'[t] = row[t]
      BY <1>4, PairsTyped
    <3>2. QED
      BY <1>1, <1>3, <1>5, <3>1, PairsTyped DEF SfrInv, Homes, Home
  <2>2. QED
    BY <1>1, <1>5, <2>1 DEF SfrInv, Homes, Home
<1>11. MountGood'
  <2>1. \A t \in Sessions : /\ row'[t].clone \in {row[t].clone, 0}
                            /\ sweep'.rows[t].clone \in {sweep.rows[t].clone, 0}
    BY <1>3, <1>4, PairsTyped
  <2>2. QED
    BY <1>1, <1>5, <2>1 DEF SfrInv, MountGood
<1>12. ReqGood'
  <2>1. \A t \in req.sid : Open(t)' => Open(t) /\ row'[t] = row[t]
    BY <1>2, <1>4, Parts DEF Open
  <2>2. QED
    BY <1>1, <1>5, <2>1 DEF SfrInv, ReqGood
<1>13. SweepGood'
  BY <1>1, <1>3, <1>5 DEF SfrInv, SweepGood, Tells
<1>14. Unborn'
  BY <1>1, <1>3, <1>4, <1>5 DEF SfrInv, Unborn
<1>15. Truthful'
  <2>1. ASSUME NEW t \in Sessions \ misled'
        PROVE  /\ Open(t)' => Own(t, row'[t].nbd)
               /\ Own(t, sweep'.rows[t].nbd)
               /\ t \in req.sid => t \notin misled
    <3>1. CASE t = s
      BY <1>1, <1>2, <1>3, <1>4, <2>1, <3>1, PairsTyped DEF Own, Open, Serves
    <3>2. CASE t # s
      <4>1. t \notin misled /\ row'[t] = row[t]
        BY <1>1, <1>4, <2>1, <3>2
      <4>2. sweep'.rows[t].nbd \in {sweep.rows[t].nbd, 0}
        BY <1>3, PairsTyped
      <4>3. QED
        BY <4>1, <4>2 DEF SfrInv, Truthful, Own, Open
    <3>3. QED
      BY <3>1, <3>2
  <2>2. QED
    BY <1>1, <2>1 DEF SfrInv, Truthful, Own
<1>16. QED
  BY <1>6, <1>7, <1>8, <1>9, <1>10, <1>11, <1>12, <1>13, <1>14, <1>15 DEF SfrInv

-----------------------------------------------------------------------------
(* Unmounting *)

LEMMA CutTyped ==
    ASSUME Types, CopiesGood, NEW s, NEW h, NEW d, Cut(s, h, d)
    PROVE  thread' \in [Copies -> Thread] /\ CopiesGood'
<1>1. thread' = [c \in Copies |->
                   IF Reads(c, s, h, d)
                   THEN [thread[c] EXCEPT !.src = 0,
                            !.chunks = IF s \in thread[c].sid THEN "short" ELSE "padded"]
                   ELSE thread[c]]
  BY DEF Cut
<1>2. \A c \in Copies : CopyGood(thread[c])
  BY CopiesFold DEF Types
<1>3. ASSUME NEW c \in Copies PROVE CopyGood(thread'[c])
  <2>1. thread[c] \in Thread
    BY DEF Types
  <2>2. CASE Reads(c, s, h, d) /\ s \in thread[c].sid
    <3> DEFINE q == [thread[c] EXCEPT !.src = 0, !.chunks = "short"]
    <3>1. q \in Thread /\ q.sid = thread[c].sid /\ q.pc = thread[c].pc
      BY <2>1, ThreadCut
    <3>2. thread'[c] = q
      BY <1>1, <2>2
    <3> HIDE DEF q
    <3>3. QED
      BY <1>2, <3>1, <3>2 DEF CopyGood
  <2>3. CASE Reads(c, s, h, d) /\ s \notin thread[c].sid
    <3> DEFINE q == [thread[c] EXCEPT !.src = 0, !.chunks = "padded"]
    <3>1. q \in Thread /\ q.sid = thread[c].sid /\ q.pc = thread[c].pc
      BY <2>1, ThreadCut
    <3>2. thread'[c] = q
      BY <1>1, <2>3
    <3> HIDE DEF q
    <3>3. QED
      BY <1>2, <3>1, <3>2 DEF CopyGood
  <2>4. CASE ~Reads(c, s, h, d)
    BY <1>1, <1>2, <2>4
  <2>5. QED
    BY <2>2, <2>3, <2>4
<1>4. QED
  BY <1>1, <1>3 DEF CopyGood, CopiesGood

\* Whatever fails: what it was given the names of is given up, or is not sound.
LEMMA UnmountEffect ==
    ASSUME SfrInv, NEW s \in Sessions, NEW h \in Hosts, NEW n \in Pair, Home(n, s),
           Unmount(s, h, n), UNCHANGED row
    PROVE  /\ Shrinks /\ faults' \in 0 .. MaxFaults
           /\ thread' \in [Copies -> Thread] /\ CopiesGood'
           /\ dev' \in [Places -> 0 .. Len(owner)]
           /\ leaky' \subseteq Made /\ astray' \subseteq Made
           /\ \A q \in Places : dev'[q] = dev[q] \/ (dev'[q] = 0 /\ q = <<h, n.nbd>>)
           /\ \A m \in Made : Sound(m, s)' => ~Tells(n, m, s)
           /\ \A m \in clones \ clones' : m = n.clone
<1> DEFINE p == <<h, n.nbd>>
<1>1. /\ home' = home /\ owner' = owner
      /\ astray' = IF h = home[s] THEN astray ELSE astray \union Mine(s)
  BY DEF Unmount
<1>2. thread' \in [Copies -> Thread] /\ CopiesGood'
  BY CutTyped DEF Unmount, SfrInv
<1>3. faults' \in 0 .. MaxFaults
  BY FaultTyped DEF Unmount, SfrInv, Types
<1>4. /\ dev \in [Places -> 0 .. Len(owner)] /\ clones \subseteq Made
      /\ leaky \subseteq Made /\ astray \subseteq Made
      /\ \A q \in Places : dev[q] # 0 => dev[q] \in Made
      /\ \A m \in Made : m # 0
  BY Parts DEF SfrInv, Types
<1>5. \/ /\ dev' = [q \in Places |-> IF q = p THEN 0 ELSE dev[q]]
         /\ \/ clones' = clones \ {n.clone} /\ leaky' = leaky
            \/ /\ n.clone \in clones /\ clones' = clones
               /\ leaky' = leaky \union {n.clone}
      \/ /\ p \in Places /\ dev[p] # 0 /\ dev' = dev
         /\ leaky' = leaky \union {dev[p]}
         /\ clones' = clones \ {n.clone}
  BY DEF Unmount
<1> HIDE DEF p
<1>6. /\ dev' \in [Places -> 0 .. Len(owner)]
      /\ \A q \in Places : dev'[q] = dev[q] \/ (dev'[q] = 0 /\ q = p)
  <2>1. CASE dev' = [q \in Places |-> IF q = p THEN 0 ELSE dev[q]]
    BY <1>4, <2>1
  <2>2. CASE dev' = dev
    BY <1>4, <2>2
  <2>3. QED
    BY <1>5, <2>1, <2>2
<1>7. leaky \subseteq leaky' /\ leaky' \subseteq Made
  BY <1>4, <1>5
<1>8. Mine(s) \subseteq Made /\ \A m \in Made : owner[m] = s => m \in Mine(s)
  BY Parts DEF Mine, Made
<1>9. astray \subseteq astray' /\ astray' \subseteq Made
  BY <1>1, <1>4, <1>8
<1>10. \A m \in Made : (\A q \in Places : dev[q] = m => q = p) =>
         m \in leaky' \/ ~Connected(m)'
  <2>1. SUFFICES ASSUME NEW m \in Made, \A q \in Places : dev[q] = m => q = p,
                        NEW q \in Places, dev'[q] = m
                 PROVE  m \in leaky'
    BY DEF Connected
  <2>2. dev[q] = m /\ q = p
    BY <1>4, <1>6, <2>1
  <2>3. dev' # [r \in Places |-> IF r = p THEN 0 ELSE dev[r]]
    BY <1>4, <2>1, <2>2
  <2>4. QED
    BY <1>5, <2>2, <2>3
<1>11. clones' \subseteq clones /\ \A m \in clones \ clones' : m = n.clone
  BY <1>5
<1>12. n.clone \in leaky' \/ n.clone \notin clones'
  BY <1>5
<1>13. ASSUME NEW m \in clones \ clones' PROVE m \in leaky' \union astray' \/ ~Kept(m)'
  <2>1. m = n.clone /\ m \in Made /\ m # 0
    BY <1>4, <1>11
  <2>2. /\ owner[m] = s
        /\ m \in leaky \union astray \/ \A q \in Places : dev[q] = m => q = <<home[s], n.nbd>>
    BY <2>1 DEF Home
  <2>3. h # home[s] => m \in astray'
    BY <1>1, <1>8, <2>1, <2>2
  <2>4. h = home[s] => m \in leaky' \union astray' \/ ~Connected(m)'
    BY <1>7, <1>9, <1>10, <2>1, <2>2 DEF p
  <2>5. QED
    BY <1>13, <2>3, <2>4 DEF Kept
<1>14. Shrinks
  BY <1>1, <1>6, <1>7, <1>9, <1>11, <1>13 DEF Shrinks
<1>15. ASSUME NEW m \in Made, Sound(m, s)', Tells(n, m, s) PROVE FALSE
  <2>1. /\ owner[m] = s /\ m \notin leaky' /\ m \notin astray' /\ Kept(m)'
    BY <1>1, <1>15 DEF Sound
  <2>2. h = home[s]
    BY <1>1, <1>8, <2>1
  <2>3. \A q \in Places : dev[q] = m => q = p
    BY <1>15, <2>2 DEF Tells, p
  <2>4. ~Connected(m)'
    BY <1>10, <2>1, <2>3
  <2>5. m \in clones' /\ m \in clones
    BY <1>11, <2>1, <2>4 DEF Kept
  <2>6. s \in San
    BY <2>1, <2>5 DEF SfrInv, ClonesSan
  <2>7. n.clone = m
    BY <1>15, <2>6 DEF Tells
  <2>8. QED
    BY <1>12, <2>1, <2>5, <2>7
<1>16. QED
  BY <1>2, <1>3, <1>6, <1>7, <1>9, <1>11, <1>14, <1>15 DEF p

\* Everybody whose device this was is misled; the others have theirs.
LEMMA MisleadTells ==
    ASSUME SfrInv, NEW s \in Sessions, NEW h \in Hosts, NEW n \in Pair,
           home' = home, owner' = owner,
           \A q \in Places : dev'[q] = dev[q] \/ (dev'[q] = 0 /\ q = <<h, n.nbd>>)
    PROVE  /\ Mislead(s, h, n) \subseteq Sessions /\ s \in Mislead(s, h, n)
           /\ \A t \in Sessions \ Mislead(s, h, n), k \in 0 .. NDevices :
                Own(t, k) => Own(t, k)'
<1>1. \A q \in Places : dev[q] # 0 => owner[dev[q]] \in Sessions
  BY Parts
<1>2. Mislead(s, h, n) \subseteq Sessions /\ s \in Mislead(s, h, n)
  BY <1>1 DEF Mislead
<1>3. ASSUME NEW t \in Sessions \ Mislead(s, h, n), NEW k \in 0 .. NDevices,
             k # 0, Own(t, k)
      PROVE  Own(t, k)'
  <2>1. <<home[t], k>> \in Places
    BY <1>3, Parts DEF Places, Devices
  <2>2. dev[<<home[t], k>>] # 0 /\ owner[dev[<<home[t], k>>]] = t
    BY <1>3 DEF Own
  <2>3. <<home[t], k>> # <<h, n.nbd>>
    BY <1>3, <2>1, <2>2 DEF Mislead
  <2>4. dev'[<<home[t], k>>] = dev[<<home[t], k>>]
    BY <2>1, <2>3
  <2>5. QED
    BY <2>2, <2>4 DEF Own
<1>4. \A t, k : k = 0 => Own(t, k)'
  BY DEF Own
<1>5. QED
  BY <1>2, <1>3, <1>4

LEMMA RequestUnmounts ==
    ASSUME SfrInv, umount_session
    PROVE  SfrInv'
<1> DEFINE pc == IF req.kind = "mount" THEN "attach" ELSE "record"
<1>1. PICK s \in req.sid :
        /\ req.pc = "unmount" /\ Unmount(s, req.host, req.sess)
        /\ req' = [req EXCEPT !.pc = pc, !.sess = Nothing]
        /\ misled' = misled \union Mislead(s, req.host, req.sess)
        /\ UNCHANGED <<row, sweep, running, cancelled>>
  BY DEF umount_session
<1>2. /\ req \in Request /\ s \in Sessions /\ req.sess \in Pair /\ req.host \in Hosts
      /\ Home(req.sess, s) /\ req.sid = {s} /\ req.mount = 0 /\ row[s].is # "none"
      /\ req.kind \in {"mount", "umount", "close"}
      /\ Open(s) => req.sess = Names(row[s])
  BY <1>1, RequestKnows, Parts DEF Request
<1>3. /\ req' \in Request /\ req'.sess = Nothing /\ req'.pc = pc
      /\ req'.kind = req.kind /\ req'.sid = req.sid /\ req'.mount = req.mount
  <2> DEFINE k == [req EXCEPT !.pc = pc]
  <2>1. req' = [k EXCEPT !.sess = Nothing]
    BY <1>1
  <2>2. /\ k \in Request /\ k.pc = pc /\ k.kind = req.kind /\ k.sid = req.sid
        /\ k.mount = req.mount
    BY <1>2 DEF Request
  <2> HIDE DEF k
  <2>3. QED
    BY <2>1, <2>2, PairsTyped DEF Request
<1>4. /\ Shrinks /\ faults' \in 0 .. MaxFaults
      /\ thread' \in [Copies -> Thread] /\ CopiesGood'
      /\ dev' \in [Places -> 0 .. Len(owner)]
      /\ leaky' \subseteq Made /\ astray' \subseteq Made
      /\ \A q \in Places :
           dev'[q] = dev[q] \/ (dev'[q] = 0 /\ q = <<req.host, req.sess.nbd>>)
      /\ \A m \in Made : Sound(m, s)' => ~Tells(req.sess, m, s)
  BY <1>1, <1>2, UnmountEffect
<1>5. /\ Made' = Made /\ row' = row /\ owner' = owner /\ home' = home
      /\ clones' \subseteq Made
      /\ \A m \in Made : Sound(m, s)' => Sound(m, s)
  BY <1>4, Shrunk, Parts DEF Shrinks
<1>6. /\ Mislead(s, req.host, req.sess) \subseteq Sessions
      /\ s \in Mislead(s, req.host, req.sess)
      /\ \A t \in Sessions \ Mislead(s, req.host, req.sess), k \in 0 .. NDevices :
           Own(t, k) => Own(t, k)'
  BY <1>2, <1>4, <1>5, MisleadTells
<1>7. Types'
  BY <1>1, <1>3, <1>4, <1>5, <1>6 DEF SfrInv, Types
<1>8. ReqShape'
  BY <1>2, <1>3 DEF ReqShape
<1>9. ReqGood'
  <2>1. ASSUME NEW m \in Made, Sound(m, s)' PROVE FALSE
    <3>1. Open(s) /\ Tells(row[s], m, s)
      BY <1>2, <1>5, <2>1, Parts DEF SfrInv, Found
    <3>2. Tells(req.sess, m, s)
      BY <1>2, <3>1, PairsTyped DEF Tells
    <3>3. QED
      BY <1>4, <2>1, <3>2
  <2>2. QED
    BY <1>2, <1>3, <1>5, <2>1 DEF ReqGood
<1>10. /\ SweepShape' /\ SweepGood'
       /\ \A t \in Sessions : sweep'.rows[t] \in {sweep.rows[t], Nothing}
       /\ \A t \in sweep'.todo \union sweep'.sid : t \in Sessions /\ row[t].is # "none"
  <2>1. \A m \in Made : m # req.mount
    BY <1>2, Parts
  <2>2. QED
    BY <1>1, <1>2, <1>3, <1>4, <2>1, SweepStays
<1>11. Truthful'
  <2>1. ASSUME NEW t \in Sessions \ misled'
        PROVE  /\ Open(t) => Own(t, row[t].nbd)'
               /\ Own(t, sweep.rows[t].nbd)'
               /\ t # s
    <3>1. t \notin misled /\ t \notin Mislead(s, req.host, req.sess)
      BY <1>1, <2>1
    <3>2. row[t].nbd \in 0 .. NDevices /\ sweep.rows[t].nbd \in 0 .. NDevices
      BY Parts DEF Rows, Sweep, Pair
    <3>3. /\ Open(t) => Own(t, row[t].nbd)
          /\ Own(t, sweep.rows[t].nbd)
      BY <3>1 DEF SfrInv, Truthful
    <3>4. \A k \in 0 .. NDevices : Own(t, k) => Own(t, k)'
      BY <1>6, <3>1
    <3>5. \A k \in 0 .. NDevices : k = row[t].nbd \/ k = sweep.rows[t].nbd =>
            (Own(t, k) => Own(t, k)')
      BY <3>4
    <3>6. t # s
      BY <1>6, <3>1
    <3>7. QED
      BY <1>1, <1>5, <3>2, <3>3, <3>5, <3>6
  <2>2. QED
    BY <1>1, <1>2, <1>3, <1>5, <2>1 DEF Truthful, Open
<1>12. Home(req'.sess, s)
  BY <1>3, PairsTyped DEF Home
<1>13. \A m \in Made : req' # req /\ m = req.mount => ~Sound(m, owner[m])'
  BY <1>2, Parts
<1>14. QED
  BY <1>2, <1>3, <1>4, <1>7, <1>8, <1>9, <1>10, <1>11, <1>12, <1>13, ShrinkStep

LEMMA SweepUnmounts ==
    ASSUME SfrInv, SweepUnmount
    PROVE  SfrInv'
<1>1. PICK s \in sweep.sid :
        /\ sweep.pc = "unmount" /\ Unmount(s, home[s], sweep.rows[s])
        /\ sweep' = [sweep EXCEPT !.pc = "delete", !.rows[s] = Nothing]
        /\ misled' = misled \union Mislead(s, home[s], sweep.rows[s])
        /\ UNCHANGED <<row, req, running, cancelled>>
  BY DEF SweepUnmount
<1>2. /\ sweep' \in Sweep /\ sweep'.pc = "delete" /\ sweep'.sid = sweep.sid
      /\ sweep'.todo = sweep.todo /\ sweep'.rows[s] = Nothing
      /\ \A t \in Sessions \ {s} : sweep'.rows[t] = sweep.rows[t]
      /\ s \in Sessions /\ sweep.sid = {s} /\ SweepShape'
  BY <1>1, SweepForgets
<1>3. /\ sweep.rows[s] \in Pair /\ home[s] \in Hosts /\ Home(sweep.rows[s], s)
  BY <1>2, Parts DEF Sweep, SfrInv, Homes
<1>4. /\ Shrinks /\ faults' \in 0 .. MaxFaults
      /\ thread' \in [Copies -> Thread] /\ CopiesGood'
      /\ dev' \in [Places -> 0 .. Len(owner)]
      /\ leaky' \subseteq Made /\ astray' \subseteq Made
      /\ \A q \in Places :
           dev'[q] = dev[q] \/ (dev'[q] = 0 /\ q = <<home[s], sweep.rows[s].nbd>>)
      /\ \A m \in Made : Sound(m, s)' => ~Tells(sweep.rows[s], m, s)
      /\ \A m \in clones \ clones' : m = sweep.rows[s].clone
  BY <1>1, <1>2, <1>3, UnmountEffect
<1>5. /\ Made' = Made /\ row' = row /\ owner' = owner /\ home' = home
      /\ clones' \subseteq Made
      /\ \A t : \A m \in Made : Sound(m, t)' => Sound(m, t)
      /\ \A p, t : \A m \in Made : Tells(p, m, t) => Tells(p, m, t)'
  BY <1>4, Shrunk, Parts DEF Shrinks
<1>6. /\ Mislead(s, home[s], sweep.rows[s]) \subseteq Sessions
      /\ s \in Mislead(s, home[s], sweep.rows[s])
      /\ \A t \in Sessions \ Mislead(s, home[s], sweep.rows[s]), k \in 0 .. NDevices :
           Own(t, k) => Own(t, k)'
  BY <1>2, <1>3, <1>4, <1>5, MisleadTells
<1>7. Types'
  BY <1>1, <1>2, <1>4, <1>5, <1>6 DEF SfrInv, Types
<1>8. /\ ReqShape' /\ ReqGood'
      /\ \A t \in req'.sid : Home(req'.sess, t) /\ row[t].is # "none"
  BY <1>1, <1>4, RequestStays
<1>9. SweepGood'
  <2>1. ASSUME NEW t \in sweep.todo \union sweep.sid, NEW m \in Made, Sound(m, t)'
        PROVE  m = req.mount \/ (t # s /\ Tells(sweep.rows[t], m, t)')
    <3>1. m = req.mount \/ Tells(sweep.rows[t], m, t)
      BY <1>5, <2>1 DEF SfrInv, SweepGood
    <3>2. t = s => m = req.mount
      BY <1>4, <2>1, <3>1
    <3>3. CASE t # s
      <4>1. sweep'.rows[t] = sweep.rows[t]
        BY <1>2, <3>3, Parts
      <4>2. \A p : p = sweep.rows[t] => (Tells(p, m, t) => Tells(p, m, t)')
        BY <1>5
      <4>3. QED
        BY <3>1, <3>3, <4>1, <4>2
    <3>4. QED
      BY <3>2, <3>3
  <2>2. QED
    BY <1>1, <1>2, <1>5, <2>1 DEF SweepGood
<1>10. \A t \in sweep'.todo \union sweep'.sid : t \in Sessions /\ row[t].is # "none"
  BY <1>2, Parts DEF SfrInv, Unborn
<1>11. Truthful'
  <2>1. ASSUME NEW t \in Sessions \ misled'
        PROVE  /\ Open(t) => Own(t, row[t].nbd)'
               /\ Own(t, sweep.rows[t].nbd)'
               /\ t \in req.sid => Own(t, req.sess.nbd)'
    <3>1. t \notin misled /\ t \notin Mislead(s, home[s], sweep.rows[s])
      BY <1>1, <2>1
    <3>2. /\ row[t].nbd \in 0 .. NDevices /\ sweep.rows[t].nbd \in 0 .. NDevices
          /\ req.sess.nbd \in 0 .. NDevices
      BY Parts DEF Rows, Sweep, Request, Pair
    <3>3. /\ Open(t) => Own(t, row[t].nbd)
          /\ Own(t, sweep.rows[t].nbd)
          /\ t \in req.sid => Own(t, req.sess.nbd)
      BY <3>1 DEF SfrInv, Truthful
    <3>4. \A k \in 0 .. NDevices : Own(t, k) => Own(t, k)'
      BY <1>6, <3>1
    <3>5. \A k \in 0 .. NDevices :
            k = row[t].nbd \/ k = sweep.rows[t].nbd \/ k = req.sess.nbd =>
              (Own(t, k) => Own(t, k)')
      BY <3>4
    <3>6. t # s
      BY <1>6, <3>1
    <3>7. sweep'.rows[t] = sweep.rows[t]
      BY <1>2, <3>6
    <3>8. QED
      BY <1>1, <1>5, <3>2, <3>3, <3>5, <3>7
  <2>2. QED
    BY <1>1, <1>5, <2>1 DEF Truthful, Open
<1>12. \A t \in Sessions : sweep'.rows[t] \in {sweep.rows[t], Nothing}
  BY <1>2
<1>13. req.mount \notin clones \ clones'
  BY <1>2, <1>4, Parts DEF SfrInv, MountGood
<1>14. QED
  BY <1>1, <1>2, <1>4, <1>7, <1>8, <1>9, <1>10, <1>11, <1>12, <1>13, ShrinkStep

-----------------------------------------------------------------------------
(* Mounting *)

\* The next mount has a number that nothing names yet.
LEMMA NextMount ==
    ASSUME SfrInv, NEW s \in Sessions, Len(owner) < MaxMounts, owner' = Append(owner, s),
           NEW m, m = Len(owner) + 1
    PROVE  /\ owner' \in Seq(Sessions) /\ Len(owner') <= MaxMounts
           /\ m \in 1 .. MaxMounts /\ m \notin Made /\ Made' = Made \union {m}
           /\ owner'[m] = s /\ \A i \in Made : owner'[i] = owner[i]
           /\ m \notin clones /\ m \notin leaky /\ m \notin astray
           /\ \A q \in Places : dev[q] # m /\ dev[q] \in 0 .. Len(owner')
           /\ \A t \in Sessions : row[t].clone # m /\ sweep.rows[t].clone # m
           /\ req.sid # {} => req.sess.clone # m
<1>1. owner \in Seq(Sessions) /\ Len(owner) \in Nat
  BY Parts
<1>2. /\ owner' \in Seq(Sessions) /\ Len(owner') = m /\ m \in 1 .. MaxMounts
      /\ m \notin Made /\ Made' = Made \union {m}
      /\ owner'[m] = s /\ \A i \in Made : owner'[i] = owner[i]
  BY <1>1 DEF Made
<1>3. m \notin clones /\ m \notin leaky /\ m \notin astray
  BY <1>2 DEF SfrInv, Types
<1>4. \A q \in Places : dev[q] # m /\ dev[q] \in 0 .. Len(owner')
  BY <1>1, <1>2, Parts
<1>5. m # 0 /\ Len(owner') <= MaxMounts
  BY <1>2
<1>6. \A t \in Sessions : row[t].clone # m /\ sweep.rows[t].clone # m
  BY <1>2, <1>5 DEF SfrInv, Homes, Home
<1>7. req.sid # {} => req.sess.clone # m
  BY <1>2, <1>5 DEF SfrInv, Homes, Home
<1>8. QED
  BY <1>2, <1>3, <1>4, <1>5, <1>6, <1>7

\* A step on a mount of the request: what else is there stays as it was, and the mount
\* is still the request's, or lost.
Adds(m, s) ==
    /\ Made' = Made \union {m} /\ m # 0 /\ owner'[m] = s
    /\ \A i \in Made : owner'[i] = owner[i]
    /\ UNCHANGED <<row, sweep, home, misled>>
    /\ \A q \in Places : dev'[q] = dev[q] \/ (dev[q] = 0 /\ dev'[q] = m)
    /\ clones \ {m} \subseteq clones' /\ clones' \subseteq clones \union {m}
    /\ m \in clones' => s \in San
    /\ s \in San => m \in clones' \/ m \in leaky'
    /\ leaky \ {m} \subseteq leaky' /\ astray \subseteq astray'
    /\ \A t \in Sessions : row[t].clone # m /\ sweep.rows[t].clone # m
    /\ req.sess.clone # m /\ (req'.sess = req.sess \/ req' = NoReq)
    /\ req'.mount = m \/ m \in leaky'
    /\ \A i \in Made : i = req.mount => i = m

\* That is all there is to such a step, for what was there.
LEMMA OthersStay ==
    ASSUME SfrInv, NEW s, NEW m, Adds(m, s), NEW i \in Made \ {m}
    PROVE  /\ \A t : Sound(i, t)' => Sound(i, t)
           /\ \A p, t : Tells(p, i, t) => Tells(p, i, t)'
           /\ i \in clones => i \in clones'
<1>1. i # 0 /\ i # m /\ i \in Made
  BY Parts
<1>2. \A q \in Places : dev'[q] = i <=> dev[q] = i
  BY <1>1 DEF Adds
<1>3. Connected(i)' <=> Connected(i)
  BY <1>2 DEF Connected
<1>4. i \in clones' <=> i \in clones
  BY <1>1 DEF Adds
<1>5. \A t : Sound(i, t)' => Sound(i, t)
  BY <1>1, <1>3, <1>4 DEF Adds, Sound, Kept
<1>6. \A p, t : Tells(p, i, t) => Tells(p, i, t)'
  BY <1>2 DEF Adds, Tells
<1>7. QED
  BY <1>4, <1>5, <1>6

LEMMA HomesStay ==
    ASSUME SfrInv, NEW s, NEW m, Adds(m, s), NEW p, NEW t, Home(p, t), p.clone # m
    PROVE  Home(p, t)'
<1>1. SUFFICES ASSUME p.clone # 0 PROVE Home(p, t)'
  BY DEF Home
<1>2. /\ p.clone \in Made /\ owner[p.clone] = t /\ p.nbd # 0
      /\ \/ p.clone \in leaky \union astray
         \/ \A q \in Places : dev[q] = p.clone => q = <<home[t], p.nbd>>
  BY <1>1 DEF Home
<1>3. \A q \in Places : dev'[q] = p.clone => dev[q] = p.clone
  BY DEF Adds
<1>4. QED
  BY <1>1, <1>2, <1>3 DEF Home, Adds

LEMMA MountAdded ==
    ASSUME SfrInv, NEW s \in req.sid, NEW m, Adds(m, s), Types', CopiesGood',
           req.pc \in {"attach", "connect"}, ReqShape', MountGood', req'.sid \subseteq {s},
           req'.sid # {} => req'.pc \in {"connect", "record"}
    PROVE  SfrInv'
<1>1. s \in Sessions /\ req.sid = {s} /\ row[s].is # "none"
  BY Parts DEF SfrInv, ReqShape, Unborn
<1>2. \A t : Sound(m, t)' => t = s /\ req'.mount = m /\ (t \in San => m \in clones')
  BY DEF Sound, Adds
<1>3. Made' = Made \union {m} /\ UNCHANGED <<row, sweep, home, misled>>
  BY DEF Adds
<1>4. \A i \in Made' : i = m \/ i \in Made \ {m}
  BY <1>3
<1>5. \A i \in Made \ {m} : i # req.mount
  BY DEF Adds
<1>6. ClonesSan'
  BY Parts DEF SfrInv, ClonesSan, Adds
<1>7. Found'
  <2>1. ASSUME NEW t \in Sessions, NEW i \in Made \ {m}, Sound(i, t)'
        PROVE  /\ Open(t)' /\ Tells(row[t], i, t)'
               /\ t \in San => i \in clones'
    <3>1. Sound(i, t) /\ (\A p : Tells(p, i, t) => Tells(p, i, t)')
      BY <2>1, OthersStay
    <3>2. Open(t) /\ Tells(row[t], i, t) /\ (t \in San => i \in clones)
      BY <1>5, <3>1 DEF SfrInv, Found
    <3>3. \A p : p = row[t] => Tells(p, i, t)'
      BY <3>1, <3>2
    <3>4. t \in San => i \in clones'
      BY <3>2, OthersStay
    <3>5. QED
      BY <1>3, <3>2, <3>3, <3>4 DEF Open
  <2>2. QED
    BY <1>2, <1>4, <2>1 DEF Found
<1>8. Homes'
  <2>1. ASSUME NEW t \in Sessions PROVE Home(row[t], t)' /\ Home(sweep.rows[t], t)'
    <3>1. Home(row[t], t) /\ Home(sweep.rows[t], t)
      BY DEF SfrInv, Homes
    <3>2. row[t].clone # m /\ sweep.rows[t].clone # m
      BY DEF Adds
    <3>3. \A p : p = row[t] \/ p = sweep.rows[t] => Home(p, t)'
      BY <3>1, <3>2, HomesStay
    <3>4. QED
      BY <1>3, <3>3
  <2>2. \A t \in req'.sid : \A p : p = req'.sess => Home(p, t)'
    <3>1. CASE req' = NoReq
      BY <3>1, IdleFields
    <3>2. CASE req'.sess = req.sess
      <4>1. Home(req.sess, s) /\ req.sess.clone # m
        BY DEF SfrInv, Homes, Adds
      <4>2. \A p : p = req.sess => Home(p, s)'
        BY <4>1, HomesStay
      <4>3. QED
        BY <3>2, <4>2
    <3>3. QED
      BY <3>1, <3>2 DEF Adds
  <2>3. QED
    BY <1>3, <2>1, <2>2 DEF Homes
<1>9. ReqGood'
  <2>1. ASSUME NEW i \in Made \ {m}, Sound(i, s)' PROVE FALSE
    <3>1. Sound(i, s)
      BY <2>1, OthersStay
    <3>2. QED
      BY <1>5, <3>1 DEF SfrInv, ReqGood
  <2>2. \A i \in Made' : Sound(i, s)' => i = req'.mount
    BY <1>2, <1>4, <2>1
  <2>3. QED
    BY <2>2 DEF ReqGood
<1>10. SweepShape'
  BY <1>3 DEF SfrInv, SweepShape
<1>11. SweepGood'
  <2>1. ASSUME NEW t \in sweep.todo \union sweep.sid, NEW i \in Made \ {m}, Sound(i, t)'
        PROVE  Tells(sweep.rows[t], i, t)'
    <3>1. Sound(i, t) /\ (\A p : Tells(p, i, t) => Tells(p, i, t)')
      BY <2>1, OthersStay
    <3>2. Tells(sweep.rows[t], i, t)
      BY <1>5, <3>1 DEF SfrInv, SweepGood
    <3>3. \A p : p = sweep.rows[t] => Tells(p, i, t)'
      BY <3>1, <3>2
    <3>4. QED
      BY <1>3, <3>3
  <2>2. QED
    BY <1>2, <1>3, <1>4, <2>1 DEF SweepGood
<1>12. Unborn'
  <2>1. \A t \in Sessions : row[t].is = "none" => t # s
    BY <1>1
  <2>2. QED
    BY <1>1, <1>3, <1>4, <2>1 DEF SfrInv, Unborn, Adds
<1>13. Truthful'
  <2>1. ASSUME NEW t \in Sessions, NEW k \in 0 .. NDevices, Own(t, k) PROVE Own(t, k)'
    <3>1. SUFFICES ASSUME k # 0 PROVE Own(t, k)'
      BY DEF Own
    <3>2. <<home[t], k>> \in Places /\ dev[<<home[t], k>>] # 0
      BY <2>1, <3>1, Parts DEF Own, Places, Devices
    <3>3. dev'[<<home[t], k>>] = dev[<<home[t], k>>]
      BY <3>2 DEF Adds
    <3>4. dev[<<home[t], k>>] \in Made /\ owner[dev[<<home[t], k>>]] = t
      BY <2>1, <3>1, <3>2, Parts DEF Own
    <3>5. owner'[dev[<<home[t], k>>]] = t
      BY <3>4 DEF Adds
    <3>6. QED
      BY <1>3, <3>2, <3>3, <3>5 DEF Own
  <2>2. ASSUME NEW t \in Sessions \ misled
        PROVE  /\ Open(t) => Own(t, row[t].nbd)'
               /\ Own(t, sweep.rows[t].nbd)'
               /\ t \in req'.sid => \A k : k = req'.sess.nbd => Own(t, k)'
    <3>1. /\ Open(t) => Own(t, row[t].nbd)
          /\ Own(t, sweep.rows[t].nbd)
          /\ t \in req.sid => Own(t, req.sess.nbd)
      BY DEF SfrInv, Truthful
    <3>2. /\ row[t].nbd \in 0 .. NDevices /\ sweep.rows[t].nbd \in 0 .. NDevices
          /\ req.sess.nbd \in 0 .. NDevices
      BY Parts DEF Rows, Sweep, Request, Pair
    <3>3. \A k : k = row[t].nbd \/ k = sweep.rows[t].nbd \/ k = req.sess.nbd =>
            (Own(t, k) => Own(t, k)')
      BY <2>1, <3>2
    <3>4. t \in req'.sid => t = s /\ req'.sess = req.sess
      BY IdleFields DEF Adds
    <3>5. QED
      BY <1>1, <1>3, <3>1, <3>3, <3>4
  <2>3. QED
    BY <1>3, <2>2 DEF Truthful, Open
<1>14. QED
  BY <1>6, <1>7, <1>8, <1>9, <1>10, <1>11, <1>12, <1>13 DEF SfrInv

\* The clone is the request's, or lost.
LEMMA RequestClones ==
    ASSUME SfrInv, clone_lun_from_snapshot
    PROVE  SfrInv'
<1> DEFINE m == Len(owner) + 1
<1>1. PICK s \in req.sid \intersect San :
        /\ req.pc = "attach" /\ Len(owner) < MaxMounts
        /\ owner' = Append(owner, s) /\ clones' = clones \union {m}
        /\ \/ /\ req' = [req EXCEPT !.pc = "connect", !.mount = m]
              /\ UNCHANGED <<leaky, faults>>
           \/ Fault /\ req' = NoReq /\ leaky' = leaky \union {m}
        /\ UNCHANGED <<row, sweep, memory, home, dev, astray, misled>>
  BY DEF clone_lun_from_snapshot, Answered
<1>2. /\ req \in Request /\ s \in Sessions /\ s \in San /\ req.sid = {s}
      /\ req.kind = "mount" /\ req.mount = 0
  BY <1>1, Parts DEF SfrInv, ReqShape
<1>3. /\ owner' \in Seq(Sessions) /\ Len(owner') <= MaxMounts
      /\ m \in 1 .. MaxMounts /\ m \notin Made /\ Made' = Made \union {m}
      /\ owner'[m] = s /\ \A i \in Made : owner'[i] = owner[i]
      /\ m \notin clones /\ m \notin leaky /\ m \notin astray
      /\ \A q \in Places : dev[q] # m /\ dev[q] \in 0 .. Len(owner')
      /\ \A t \in Sessions : row[t].clone # m /\ sweep.rows[t].clone # m
      /\ req.sid # {} => req.sess.clone # m
  BY <1>1, <1>2, NextMount
<1>4. \/ /\ req' \in Request /\ req'.kind = "mount" /\ req'.pc = "connect"
         /\ req'.sid = {s} /\ req'.sess = req.sess /\ req'.mount = m
         /\ leaky' = leaky /\ faults' = faults
      \/ req' = NoReq /\ leaky' = leaky \union {m} /\ Fault
  <2>1. CASE req' = [req EXCEPT !.pc = "connect", !.mount = m] /\ UNCHANGED <<leaky, faults>>
    <3> DEFINE k == [req EXCEPT !.pc = "connect"]
    <3>1. req' = [k EXCEPT !.mount = m] /\ m \in 0 .. MaxMounts
      BY <1>3, <2>1
    <3>2. /\ k \in Request /\ k.pc = "connect" /\ k.kind = req.kind /\ k.sid = req.sid
          /\ k.sess = req.sess
      BY <1>2 DEF Request
    <3> HIDE DEF k, m
    <3>3. QED
      BY <1>2, <2>1, <3>1, <3>2 DEF Request
  <2>2. QED
    BY <1>1, <2>1
<1> HIDE DEF m
<1>5. m # 0
  BY <1>3
<1>6. Types' /\ CopiesGood'
  <2>1. req' \in Request /\ faults' \in 0 .. MaxFaults
    BY <1>4, IdleTyped, FaultTyped DEF SfrInv, Types
  <2>2. clones' \subseteq Made' /\ leaky' \subseteq Made' /\ astray' \subseteq Made'
    BY <1>1, <1>3, <1>4 DEF SfrInv, Types
  <2>3. dev' \in [Places -> 0 .. Len(owner')]
    BY <1>1, <1>3 DEF SfrInv, Types
  <2>4. QED
    BY <1>1, <1>3, <2>1, <2>2, <2>3 DEF SfrInv, Types, CopiesGood, memory
<1>7. Adds(m, s)
  BY <1>1, <1>2, <1>3, <1>4, <1>5, Parts DEF Adds
<1>8. ReqShape'
  BY <1>2, <1>4, <1>5, IdleFields DEF ReqShape
<1>9. MountGood'
  <2>1. CASE req' = NoReq
    BY <2>1, IdleFields DEF MountGood
  <2>2. CASE /\ req'.pc = "connect" /\ req'.sid = {s} /\ req'.mount = m
             /\ req'.sess = req.sess
    <3>1. m \in clones' /\ m \in Made' /\ \A q \in Places : dev'[q] # m
      BY <1>1, <1>3
    <3>2. UNCHANGED <<row, sweep>>
      BY <1>1
    <3>3. QED
      BY <1>2, <1>3, <2>2, <3>1, <3>2 DEF MountGood
  <2>3. QED
    BY <1>4, <2>1, <2>2
<1>10. req'.sid \subseteq {s} /\ (req'.sid # {} => req'.pc \in {"connect", "record"})
  BY <1>4, IdleFields
<1>11. QED
  BY <1>1, <1>6, <1>7, <1>8, <1>9, <1>10, MountAdded

\* The device is the request's, at a place where there was none, or lost.
LEMMA RequestMounts ==
    ASSUME SfrInv, mount_disk
    PROVE  SfrInv'
<1>1. PICK s \in req.sid, d \in _find_free_nbd(req.host) :
        /\ Connects(s) /\ (s \notin San => Len(owner) < MaxMounts)
        /\ LET m == IF s \in San THEN req.mount ELSE Len(owner) + 1 IN
             /\ owner' = IF s \in San THEN owner ELSE Append(owner, s)
             /\ dev' = [dev EXCEPT ![<<req.host, d>>] = m]
             /\ astray' = IF req.host = home[s] THEN astray ELSE astray \union {m}
             /\ \/ /\ req' = [req EXCEPT !.pc = "record", !.nbd = d, !.mount = m]
                   /\ UNCHANGED <<clones, leaky, faults>>
                \/ /\ Fault /\ req' = NoReq
                   /\ leaky' = leaky \union {m} /\ clones' \in {clones, clones \ {m}}
        /\ UNCHANGED <<row, sweep, memory, home, misled>>
  BY DEF mount_disk, Answered
<1> DEFINE m == IF s \in San THEN req.mount ELSE Len(owner) + 1
           p == <<req.host, d>>
<1>2. /\ owner' = IF s \in San THEN owner ELSE Append(owner, s)
      /\ dev' = [dev EXCEPT ![p] = m]
      /\ astray' = IF req.host = home[s] THEN astray ELSE astray \union {m}
      /\ \/ /\ req' = [req EXCEPT !.pc = "record", !.nbd = d, !.mount = m]
            /\ UNCHANGED <<clones, leaky, faults>>
         \/ /\ Fault /\ req' = NoReq
            /\ leaky' = leaky \union {m} /\ clones' \in {clones, clones \ {m}}
  BY <1>1
<1>3. /\ req \in Request /\ s \in Sessions /\ req.kind = "mount" /\ req.sid = {s}
      /\ req.pc = IF s \in San THEN "connect" ELSE "attach"
  BY <1>1, Parts DEF Connects, SfrInv, ReqShape
<1>4. p \in Places /\ dev[p] = 0 /\ d \in 0 .. NDevices /\ d # 0
  BY <1>3 DEF _find_free_nbd, Free, Devices, Places, Request
<1>5. /\ owner' \in Seq(Sessions) /\ Len(owner') <= MaxMounts
      /\ m \in 1 .. MaxMounts /\ Made' = Made \union {m} /\ owner'[m] = s
      /\ \A i \in Made : owner'[i] = owner[i]
      /\ \A q \in Places : dev[q] # m /\ dev[q] \in 0 .. Len(owner')
      /\ \A t \in Sessions : row[t].clone # m /\ sweep.rows[t].clone # m
      /\ req.sess.clone # m
      /\ \A i \in Made : i = req.mount => i = m
      /\ m \in clones <=> s \in San
      /\ Len(owner) <= Len(owner')
  <2>1. CASE s \in San
    <3>1. m = req.mount /\ owner' = owner /\ m # 0
      BY <1>2, <1>3, <2>1 DEF SfrInv, ReqShape
    <3>2. /\ m \in Made /\ {owner[m]} = {s} /\ m \in clones
          /\ \A q \in Places : dev[q] # m
          /\ \A t \in Sessions : row[t].clone # m /\ sweep.rows[t].clone # m
          /\ req.sess.clone # m
      BY <1>3, <2>1, <3>1 DEF SfrInv, MountGood
    <3> HIDE DEF m
    <3>3. Made' = Made \union {m} /\ m \in 1 .. MaxMounts /\ Len(owner) <= MaxMounts
      BY <3>1, <3>2 DEF Made, SfrInv, Types
    <3>4. owner'[m] = s /\ \A i \in Made : owner'[i] = owner[i]
      BY <3>1, <3>2
    <3>5. /\ \A q \in Places : dev[q] # m /\ dev[q] \in 0 .. Len(owner')
          /\ owner' \in Seq(Sessions) /\ Len(owner') <= MaxMounts
          /\ Len(owner) <= Len(owner')
      BY <3>1, <3>2, <3>3, Parts
    <3>6. \A i \in Made : i = req.mount => i = m
      BY <3>1
    <3>7. QED
      BY <2>1, <3>2, <3>3, <3>4, <3>5, <3>6
  <2>2. CASE s \notin San
    <3>1. /\ m = Len(owner) + 1 /\ owner' = Append(owner, s) /\ Len(owner) < MaxMounts
          /\ req.mount = 0
      BY <1>1, <1>2, <1>3, <2>2 DEF SfrInv, ReqShape
    <3> HIDE DEF m
    <3>2. /\ owner' \in Seq(Sessions) /\ Len(owner') <= MaxMounts
          /\ m \in 1 .. MaxMounts /\ m \notin Made /\ Made' = Made \union {m}
          /\ owner'[m] = s /\ \A i \in Made : owner'[i] = owner[i]
          /\ m \notin clones /\ m \notin leaky /\ m \notin astray
          /\ \A q \in Places : dev[q] # m /\ dev[q] \in 0 .. Len(owner')
          /\ \A t \in Sessions : row[t].clone # m /\ sweep.rows[t].clone # m
          /\ req.sid # {} => req.sess.clone # m
      BY <1>3, <3>1, NextMount
    <3>3. Len(owner) <= Len(owner')
      BY <3>1, Parts
    <3>4. QED
      BY <1>3, <2>2, <3>1, <3>2, <3>3, Parts
  <2>3. QED
    BY <2>1, <2>2
<1>6. \/ /\ req' \in Request /\ req'.kind = "mount" /\ req'.pc = "record"
         /\ req'.sid = {s} /\ req'.sess = req.sess /\ req'.nbd = d /\ req'.mount = m
         /\ req'.host = req.host
         /\ clones' = clones /\ leaky' = leaky /\ faults' = faults
      \/ /\ req' = NoReq /\ leaky' = leaky \union {m} /\ Fault
         /\ clones' \in {clones, clones \ {m}}
  <2>1. CASE req' = [req EXCEPT !.pc = "record", !.nbd = d, !.mount = m]
             /\ UNCHANGED <<clones, leaky, faults>>
    <3> DEFINE k == [req EXCEPT !.pc = "record"]
               l == [k EXCEPT !.nbd = d]
    <3>1. req' = [l EXCEPT !.mount = m] /\ m \in 0 .. MaxMounts
      BY <1>5, <2>1
    <3>2. /\ k \in Request /\ k.pc = "record" /\ k.kind = req.kind /\ k.sid = req.sid
          /\ k.sess = req.sess /\ k.host = req.host
      BY <1>3 DEF Request
    <3> HIDE DEF k, m
    <3>3. /\ l \in Request /\ l.pc = "record" /\ l.kind = req.kind /\ l.sid = req.sid
          /\ l.sess = req.sess /\ l.nbd = d /\ l.host = req.host
      BY <1>4, <3>2 DEF Request
    <3> HIDE DEF l
    <3>4. QED
      BY <1>3, <2>1, <3>1, <3>3 DEF Request
  <2>2. QED
    BY <1>2, <2>1
<1>7. /\ dev'[p] = m /\ \A q \in Places : q # p => dev'[q] = dev[q]
      /\ dev' \in [Places -> 0 .. Len(owner')]
  <2>1. m \in 0 .. Len(owner')
    BY <1>5, Parts DEF Made
  <2>2. dev \in [Places -> 0 .. Len(owner')]
    BY <1>5 DEF SfrInv, Types
  <2> HIDE DEF m, p
  <2>3. QED
    BY <1>2, <1>4, <2>1, <2>2
<1> HIDE DEF m
<1>8. m # 0 /\ UNCHANGED <<row, sweep, thread, running, cancelled, home, misled>>
  BY <1>1, <1>5 DEF memory
<1>9. Types' /\ CopiesGood'
  <2>1. req' \in Request /\ faults' \in 0 .. MaxFaults
    BY <1>6, IdleTyped, FaultTyped DEF SfrInv, Types
  <2>2. clones' \subseteq Made' /\ leaky' \subseteq Made' /\ astray' \subseteq Made'
    BY <1>2, <1>5, <1>6 DEF SfrInv, Types
  <2>3. QED
    BY <1>5, <1>7, <1>8, <2>1, <2>2 DEF SfrInv, Types, CopiesGood
<1>10. Adds(m, s)
  <2>1. clones \ {m} \subseteq clones' /\ clones' \subseteq clones /\ leaky \subseteq leaky'
    BY <1>6
  <2>2. s \in San => m \in clones' \/ m \in leaky'
    BY <1>5, <1>6
  <2>3. astray \subseteq astray'
    BY <1>2
  <2>4. \A q \in Places : dev'[q] = dev[q] \/ (dev[q] = 0 /\ dev'[q] = m)
    BY <1>4, <1>7
  <2>5. (req'.sess = req.sess \/ req' = NoReq) /\ (req'.mount = m \/ m \in leaky')
    BY <1>6
  <2>6. QED
    BY <1>5, <1>8, <2>1, <2>2, <2>3, <2>4, <2>5 DEF Adds
<1>11. ReqShape'
  BY <1>3, <1>6, <1>8, IdleFields DEF ReqShape
<1>12. MountGood'
  <2>1. CASE req' = NoReq
    BY <2>1, IdleFields DEF MountGood
  <2>2. CASE /\ req'.pc = "record" /\ req'.sid = {s} /\ req'.mount = m
             /\ req'.sess = req.sess /\ req'.nbd = d /\ req'.host = req.host
             /\ clones' = clones
    <3>1. m \in Made' /\ (s \in San => m \in clones')
      BY <1>5, <2>2
    <3>2. \A q \in Places : dev'[q] = m => q = <<req'.host, req'.nbd>>
      BY <1>5, <1>7, <2>2 DEF p
    <3>3. req'.host # home'[s] => m \in astray'
      BY <1>2, <1>8, <2>2
    <3>4. QED
      BY <1>4, <1>5, <1>8, <2>2, <3>1, <3>2, <3>3 DEF MountGood
  <2>3. QED
    BY <1>6, <2>1, <2>2
<1>13. req'.sid \subseteq {s} /\ (req'.sid # {} => req'.pc \in {"connect", "record"})
  BY <1>6, IdleFields
<1>14. QED
  BY <1>3, <1>9, <1>10, <1>11, <1>12, <1>13, MountAdded

-----------------------------------------------------------------------------
(* Writing down *)

\* The row of the request before and after it is written.
Written(s) ==
    /\ row' \in [Sessions -> Rows]
    /\ \A t \in Sessions \ {s} : row'[t] = row[t]
    /\ ~Open(s) => row'[s] = row[s]
    /\ Open(s) => \/ row'[s].is = "gone" /\ req.mount = 0
                       /\ row'[s].nbd = 0 /\ row'[s].clone = 0
                  \/ row'[s].is = "open" /\ req.mount = 0
                       /\ row'[s].nbd = 0 /\ row'[s].clone = 0
                  \/ row'[s].is = "open" /\ req.mount # 0 /\ row'[s].nbd = req.nbd
                       /\ row'[s].clone = IF s \in San THEN req.mount ELSE 0

LEMMA RecordWrites ==
    ASSUME SfrInv, NEW s \in req.sid, req.pc = "record",
           row' = IF ~Open(s) THEN row ELSE [row EXCEPT ![s] =
             CASE req.kind = "umount" -> RecordUnmounted(row[s])
               [] req.kind = "close"  -> Gone
               [] req.kind = "mount"  ->
                    [row[s] EXCEPT !.nbd = req.nbd, !.part = FALSE,
                         !.fresh = TRUE, !.clone = IF s \in San THEN req.mount ELSE 0]]
    PROVE  Written(s)
<1>1. /\ req \in Request /\ s \in Sessions
      /\ row \in [Sessions -> Rows] /\ req.kind \in {"umount", "close", "mount"}
      /\ req.mount # 0 <=> req.kind = "mount"
  <2>1. req.kind # "idle" /\ req \in Request
    BY Parts
  <2>2. req.kind \in {"umount", "close", "mount"}
    BY <2>1 DEF Request
  <2>3. QED
    BY <2>1, <2>2, Parts DEF SfrInv, ReqShape
<1>2. CASE ~Open(s)
  BY <1>1, <1>2 DEF Written
<1>3. CASE Open(s) /\ req.kind = "close"
  <2>1. row' = [row EXCEPT ![s] = Gone]
    BY <1>3
  <2>2. QED
    BY <1>1, <1>3, <2>1, RowsTyped, PairsTyped DEF Written
<1>4. CASE Open(s) /\ req.kind = "umount"
  <2> DEFINE k == [row[s] EXCEPT !.nbd = 0]
             l == [k EXCEPT !.clone = 0]
             n == [l EXCEPT !.part = FALSE]
             q == [n EXCEPT !.fresh = TRUE]
  <2>1. row' = [row EXCEPT ![s] = q]
    BY <1>4 DEF RecordUnmounted
  <2>2. k \in Rows /\ k.is = row[s].is /\ k.nbd = 0
    BY <1>1 DEF Rows
  <2> HIDE DEF k
  <2>3. l \in Rows /\ l.is = row[s].is /\ l.nbd = 0 /\ l.clone = 0
    BY <2>2 DEF Rows
  <2> HIDE DEF l
  <2>4. n \in Rows /\ n.is = row[s].is /\ n.nbd = 0 /\ n.clone = 0
    BY <2>3 DEF Rows
  <2> HIDE DEF n
  <2>5. q \in Rows /\ q.is = row[s].is /\ q.nbd = 0 /\ q.clone = 0
    BY <2>4 DEF Rows
  <2> HIDE DEF q
  <2>6. /\ row' \in [Sessions -> Rows] /\ row'[s] = q
        /\ \A t \in Sessions \ {s} : row'[t] = row[t]
    BY <1>1, <2>1, <2>5
  <2>7. QED
    BY <1>1, <1>4, <2>5, <2>6 DEF Written, Open
<1>5. CASE Open(s) /\ req.kind = "mount"
  <2> DEFINE c == IF s \in San THEN req.mount ELSE 0
             k == [row[s] EXCEPT !.nbd = req.nbd]
             l == [k EXCEPT !.part = FALSE]
             n == [l EXCEPT !.fresh = TRUE]
             q == [n EXCEPT !.clone = c]
  <2>1. row' = [row EXCEPT ![s] = q]
    BY <1>5
  <2>2. c \in 0 .. MaxMounts /\ req.nbd \in 0 .. NDevices
    BY <1>1 DEF Request
  <2>3. k \in Rows /\ k.is = row[s].is /\ k.nbd = req.nbd
    BY <1>1, <2>2 DEF Rows
  <2> HIDE DEF k
  <2>4. l \in Rows /\ l.is = row[s].is /\ l.nbd = req.nbd
    BY <2>3 DEF Rows
  <2> HIDE DEF l
  <2>5. n \in Rows /\ n.is = row[s].is /\ n.nbd = req.nbd
    BY <2>4 DEF Rows
  <2> HIDE DEF n
  <2>6. q \in Rows /\ q.is = row[s].is /\ q.nbd = req.nbd /\ q.clone = c
    BY <2>2, <2>5 DEF Rows
  <2> HIDE DEF q
  <2>7. /\ row' \in [Sessions -> Rows] /\ row'[s] = q
        /\ \A t \in Sessions \ {s} : row'[t] = row[t]
    BY <1>1, <2>1, <2>6
  <2>8. QED
    BY <1>1, <1>5, <2>6, <2>7 DEF Written, Open
<1>6. QED
  BY <1>1, <1>2, <1>3, <1>4, <1>5

\* What was sound of the session is gone, or is the mount that is written down; if
\* the daemon has read the row before, the mount counts as lost.
LEMMA RequestRecords ==
    ASSUME SfrInv, Record
    PROVE  SfrInv'
<1> DEFINE clear(s) == Open(s) /\ s \notin sweep.sid \union sweep.todo
<1>1. PICK s \in req.sid :
        /\ req.pc = "record"
        /\ Written(s)
        /\ IF clear(s)
           THEN misled' = (misled \ {s}) \union {t \in {s} : ~Held(t)} /\ leaky' = leaky
           ELSE /\ leaky' = leaky \union Pending
                /\ misled' = misled \union {t \in {s} : ~Held(t)}
  BY RecordWrites DEF Record
<1>2. /\ req' = NoReq /\ running' \subseteq running /\ cancelled' \subseteq cancelled
      /\ UNCHANGED <<sweep, thread, home, dev, owner, clones, astray, faults>>
      /\ Made' = Made
  BY DEF Record, Answered, host, Made
<1>3. /\ req \in Request /\ s \in Sessions /\ req.sid = {s} /\ Len(owner) \in Nat
      /\ req.mount # 0 <=> req.kind = "mount"
      /\ req.nbd \in 0 .. NDevices
  BY <1>1, Parts DEF SfrInv, ReqShape, Request
<1>4. /\ req.mount # 0 =>
           /\ req.nbd # 0 /\ owner[req.mount] = s /\ req.mount \in Made
           /\ \A q \in Places : dev[q] = req.mount => q = <<req.host, req.nbd>>
           /\ req.host # home[s] => req.mount \in astray
      /\ \A m \in Made : Sound(m, s) => m = req.mount
  <2>1. req.mount # 0 => {owner[req.mount]} = {s}
    BY <1>3 DEF SfrInv, MountGood
  <2>2. QED
    BY <1>1, <1>3, <2>1 DEF SfrInv, MountGood, ReqGood
<1>5. Pending \subseteq Made /\ \A m \in Made : m = req.mount => m \in Pending
  BY <1>4, Parts DEF Pending
<1>6. /\ leaky \subseteq leaky' /\ leaky' \subseteq Made
      /\ ~clear(s) => Pending \subseteq leaky'
      /\ misled' \subseteq Sessions
      /\ \A t \in Sessions \ {s} : t \in misled' <=> t \in misled
      /\ s \notin misled' => Held(s) /\ (clear(s) \/ s \notin misled)
  <2>1. leaky \subseteq Made /\ misled \subseteq Sessions
    BY DEF SfrInv, Types
  <2> HIDE DEF clear
  <2>2. QED
    BY <1>1, <1>3, <1>5, <2>1
<1> HIDE DEF clear
<1>7. Types' /\ CopiesGood'
  BY <1>1, <1>2, <1>6, IdleTyped DEF SfrInv, Types, CopiesGood, Written
<1>8. ClonesSan' /\ SweepShape'
  BY <1>2 DEF SfrInv, ClonesSan, SweepShape
<1>9. ReqShape' /\ MountGood' /\ ReqGood'
  BY <1>2, IdleFields DEF ReqShape, MountGood, ReqGood
<1>10. \A m, t : Sound(m, t)' => Sound(m, t)
  BY <1>2, <1>6 DEF Sound, Kept, Connected
<1>11. \A p, m, t : Tells(p, m, t) => Tells(p, m, t)'
  BY <1>2 DEF Tells
<1>12. \A m \in Made : \A t : Sound(m, t)' /\ m = req.mount => t = s /\ clear(s)
  BY <1>2, <1>4, <1>5, <1>6, Parts DEF Sound
<1>13. Found'
  <2>1. ASSUME NEW t \in Sessions, NEW m \in Made, Sound(m, t)'
        PROVE  /\ Open(t)' /\ Tells(row[t], m, t)'
               /\ t \in San => m \in clones
    <3>1. Sound(m, t) /\ m \notin astray /\ m # 0
      BY <1>10, <2>1, Parts DEF Sound
    <3>2. t \in San => m \in clones
      BY <3>1 DEF SfrInv, Found
    <3>3. CASE m = req.mount
      <4>1. t = s /\ clear(s) /\ req.mount # 0 /\ req.host = home[s]
        BY <1>4, <1>12, <2>1, <3>1, <3>3
      <4>2. /\ row'[s].is = "open" /\ row'[s].nbd = req.nbd
            /\ s \in San => row'[s].clone = req.mount
        BY <1>1, <4>1 DEF Written, clear
      <4>3. Tells(row[s], m, s)'
        BY <1>2, <1>4, <3>3, <4>1, <4>2 DEF Tells
      <4>4. QED
        BY <3>2, <4>1, <4>2, <4>3 DEF Open
    <3>4. CASE m # req.mount
      <4>1. Open(t) /\ Tells(row[t], m, t)
        BY <3>1, <3>4 DEF SfrInv, Found
      <4>2. t # s
        BY <1>4, <3>1, <3>4
      <4>3. row'[t] = row[t]
        BY <1>1, <4>2 DEF Written
      <4>4. \A p : p = row[t] => Tells(p, m, t)'
        BY <1>11, <4>1
      <4>5. QED
        BY <3>2, <4>1, <4>3, <4>4 DEF Open
    <3>5. QED
      BY <3>3, <3>4
  <2>2. QED
    BY <1>2, <2>1 DEF Found
<1>14. Homes'
  <2>1. \A p, t : Home(p, t) => Home(p, t)'
    BY <1>2, <1>6 DEF Home
  <2>2. ASSUME NEW t \in Sessions PROVE Home(row[t], t)' /\ Home(sweep.rows[t], t)'
    <3>1. \A p : p = row[t] \/ p = sweep.rows[t] => Home(p, t)'
      BY <2>1 DEF SfrInv, Homes
    <3>2. Home(sweep.rows[t], t)'
      BY <1>2, <3>1
    <3>3. CASE row'[t] = row[t]
      BY <3>1, <3>2, <3>3
    <3>4. CASE row'[t].clone = 0
      BY <3>2, <3>4 DEF Home
    <3>5. CASE t = s /\ row'[t].clone = req.mount /\ row'[t].nbd = req.nbd /\ req.mount # 0
      BY <1>2, <1>4, <3>2, <3>5 DEF Home
    <3>6. row'[t] = row[t] \/ row'[t].clone = 0 \/
            (t = s /\ row'[t].clone = req.mount /\ row'[t].nbd = req.nbd /\ req.mount # 0)
      BY <1>1 DEF Written
    <3>7. QED
      BY <3>3, <3>4, <3>5, <3>6
  <2>3. QED
    BY <1>2, <2>2, IdleFields DEF Homes
<1>15. SweepGood'
  <2>1. ASSUME NEW t \in sweep.todo \union sweep.sid, NEW m \in Made, Sound(m, t)'
        PROVE  Tells(sweep.rows[t], m, t)'
    <3>1. m # req.mount
      BY <1>12, <2>1 DEF clear
    <3>2. Tells(sweep.rows[t], m, t)
      BY <1>10, <2>1, <3>1 DEF SfrInv, SweepGood
    <3>3. \A p : p = sweep.rows[t] => Tells(p, m, t)'
      BY <1>11, <3>2
    <3>4. QED
      BY <1>2, <3>3
  <2>2. QED
    BY <1>2, <2>1 DEF SweepGood
<1>16. Unborn'
  <2>1. \A t \in Sessions : row'[t].is = "none" => row[t].is = "none"
    BY <1>1 DEF Written
  <2>2. QED
    BY <1>2, <2>1, IdleFields DEF SfrInv, Unborn
<1>17. Truthful'
  <2>1. \A t, k : Own(t, k) <=> Own(t, k)'
    BY <1>2 DEF Own
  <2>2. ASSUME NEW t \in Sessions \ {s}, t \notin misled'
        PROVE  /\ Open(t)' => Own(t, row'[t].nbd)
               /\ Own(t, sweep.rows[t].nbd)
    BY <1>1, <1>6, <2>2 DEF SfrInv, Truthful, Open, Written
  <2>3. ASSUME s \notin misled' PROVE Open(s)' => Own(s, row'[s].nbd)
    <3>1. CASE ~Open(s)
      BY <1>1, <3>1 DEF Written, Open
    <3>2. CASE row'[s].nbd = 0
      BY <3>2 DEF Own
    <3>3. CASE req.mount # 0 /\ row'[s].nbd = req.nbd
      <4>1. req.host = home[s] /\ Connected(req.mount)
        BY <1>3, <1>6, <2>3, <3>3 DEF Held
      <4>2. dev[<<home[s], req.nbd>>] = req.mount
        BY <1>4, <3>3, <4>1 DEF Connected
      <4>3. QED
        BY <1>4, <3>3, <4>2 DEF Own
    <3>4. QED
      BY <1>1, <3>1, <3>2, <3>3 DEF Written
  <2>4. ASSUME s \notin misled' PROVE Own(s, sweep.rows[s].nbd)
    <3>1. CASE s \notin misled
      BY <1>3, <3>1 DEF SfrInv, Truthful
    <3>2. CASE s \in misled
      <4>1. s \notin sweep.sid \union sweep.todo
        BY <1>6, <2>4, <3>2 DEF clear
      <4>2. sweep.rows[s].nbd = 0
        BY <1>3, <4>1, PairsTyped DEF SfrInv, SweepShape
      <4>3. QED
        BY <4>2 DEF Own
    <3>3. QED
      BY <3>1, <3>2
  <2>5. ASSUME NEW t \in Sessions \ misled'
        PROVE  (Open(t)' => Own(t, row[t].nbd)') /\ Own(t, sweep.rows[t].nbd)'
    <3>1. (Open(t)' => Own(t, row'[t].nbd)) /\ Own(t, sweep.rows[t].nbd)
      BY <2>2, <2>3, <2>4, <2>5
    <3>2. \A k : k = row'[t].nbd \/ k = sweep.rows[t].nbd => (Own(t, k) => Own(t, k)')
      BY <2>1
    <3>3. QED
      BY <1>2, <3>1, <3>2
  <2>6. QED
    BY <1>2, <2>5, IdleFields DEF Truthful
<1>18. QED
  BY <1>7, <1>8, <1>9, <1>13, <1>14, <1>15, <1>16, <1>17 DEF SfrInv

-----------------------------------------------------------------------------
(* The theorems *)

LEMMA StepGood == SfrInv /\ [Next]_vars => SfrInv'
<1> SUFFICES ASSUME SfrInv, [Next]_vars PROVE SfrInv'
  OBVIOUS
<1>1. CASE UNCHANGED vars
  BY <1>1, NamesKept DEF vars, named, memory, host, history, SfrInv, Types, CopiesGood
<1>2. ASSUME NEW s \in Sessions,
             \/ _create_session(s) \/ _touch(s) \/ _mount(s) \/ _umount_disk(s)
             \/ _close_session(s) \/ _select_partition(s) \/ _copy_cancel(s)
             \/ \E c \in Copies : _copy_to_vm(c, s)
      PROVE  SfrInv'
  BY <1>2, SessionCreated, RowsTouched, RequestStarts, CopyCancels, CopyStarts
<1>3. CASE Requests
  BY <1>2, <1>3, OrphanDeleted DEF Requests
<1>4. CASE Answers
  BY <1>4, RequestWaits, RequestLogsIn, LoginLost, RequestUnmounts, RequestClones,
     RequestMounts, RequestFails, RequestRecords DEF Answers
<1>5. CASE Sweeping
  BY <1>5, SweepStarts, SweepGoesOn, SweepUnmounts, SweepLoginLost, SweepDeletes
     DEF Sweeping
<1>6. ASSUME NEW c \in Copies, Copying(c) PROVE SfrInv'
  BY <1>6, CopyOpens, CopyEnds DEF Copying
<1>7. CASE Crash \/ \E s \in Sessions : Age(s)
  BY <1>7, ProcessDies, RowsTouched
<1>8. QED
  BY <1>1, <1>3, <1>4, <1>5, <1>6, <1>7 DEF Next

LEMMA Invariance == Spec => []SfrInv
<1>1. Init => SfrInv
  BY InitGood
<1>2. SfrInv /\ [Next]_vars => SfrInv'
  BY StepGood
<1>3. QED
  BY <1>1, <1>2, PTL DEF Spec

\* Every variable keeps its type: what requests, the daemon and copies hold while
\* they are at work, too.
THEOREM SessionsTypeCorrect == Spec => []TypeOK
<1>1. SfrInv => TypeOK
  BY TypesGiveTypeOK DEF SfrInv
<1>2. QED
  BY <1>1, Invariance, PTL

\* What is kept for a mount can be found again: the row of the session
\* (umount_session, _close_session, _cleanup_expired read no more than that) or the
\* request at work names the clone, and the device on the host that was reached when
\* the session was created.  Not so for a mount on which a call failed or that was lost
\* to a crash or a race (leaky), and not when a request reached another host (astray):
\* then a device can be left that nobody names.
THEOREM DevicesFoundAgain == Spec => []MountNamed
<1>1. SfrInv => MountNamed
  BY FoundGivesNamed
<1>2. QED
  BY <1>1, Invariance, PTL

\* On the host that was reached when the session was created, umount_session calls
\* qemu-nbd --disconnect on devices of the session itself, unless the session is
\* misled.  Of a request that has reached another host it says nothing: there the
\* device of that number may be anybody's.
THEOREM OnlyOwnDisconnected == Spec => DisconnectsOwn
<1> DEFINE Fine == \A p \in Places, s \in IF req' # req THEN req.sid ELSE sweep.sid :
                     (dev[p] # 0 /\ dev'[p] = 0 /\ p[1] = home[s]) =>
                         s \in misled \union {owner[dev[p]]}
<1>1. ASSUME SfrInv, umount_session PROVE Fine
  <2>1. PICK s \in req.sid :
          /\ req.pc = "unmount" /\ Unmount(s, req.host, req.sess)
          /\ UNCHANGED row
    BY <1>1 DEF umount_session
  <2>2. /\ s \in Sessions /\ req \in Request /\ req.sess \in Pair /\ req.host \in Hosts
        /\ Home(req.sess, s) /\ req.sid = {s}
        /\ s \in misled \/ Own(s, req.sess.nbd)
    BY <1>1, <2>1, RequestKnows, Parts DEF Request
  <2>3. \A q \in Places : dev'[q] = dev[q] \/ q = <<req.host, req.sess.nbd>>
    BY <1>1, <2>1, <2>2, UnmountEffect
  <2>4. req' # req
    <3> DEFINE pc == IF req.kind = "mount" THEN "attach" ELSE "record"
               k == [req EXCEPT !.pc = pc]
    <3>1. req' = [k EXCEPT !.sess = Nothing]
      BY <1>1 DEF umount_session
    <3>2. k.pc = pc /\ k \in Request
      BY <2>2 DEF Request
    <3> HIDE DEF k
    <3>3. req'.pc = pc
      BY <3>1, <3>2 DEF Request
    <3>4. pc # "unmount" /\ req.pc = "unmount"
      BY <2>1
    <3> HIDE DEF pc
    <3>5. QED
      BY <3>3, <3>4
  <2>5. ASSUME NEW p \in Places, dev[p] # 0, dev'[p] = 0, p[1] = home[s], s \notin misled
        PROVE  s = owner[dev[p]]
    <3>1. p = <<home[s], req.sess.nbd>> /\ req.sess.nbd \in Devices
      BY <2>3, <2>5 DEF Places
    <3>2. QED
      BY <2>2, <2>5, <3>1 DEF Own, Devices
  <2>6. QED
    BY <2>2, <2>4, <2>5
<1>2. ASSUME SfrInv, SweepUnmount PROVE Fine
  <2>1. PICK s \in sweep.sid :
          /\ sweep.pc = "unmount" /\ Unmount(s, home[s], sweep.rows[s])
          /\ UNCHANGED <<row, req>>
    BY <1>2 DEF SweepUnmount
  <2>2. /\ s \in Sessions /\ sweep.rows[s] \in Pair /\ Home(sweep.rows[s], s)
        /\ sweep.sid = {s} /\ home[s] \in Hosts
        /\ s \in misled \/ Own(s, sweep.rows[s].nbd)
    BY <1>2, <2>1, Parts DEF SfrInv, Sweep, Homes, SweepShape, Truthful
  <2>3. \A q \in Places : dev'[q] = dev[q] \/ q = <<home[s], sweep.rows[s].nbd>>
    BY <1>2, <2>1, <2>2, UnmountEffect
  <2>4. ASSUME NEW p \in Places, dev[p] # 0, dev'[p] = 0, s \notin misled
        PROVE  s = owner[dev[p]]
    <3>1. p = <<home[s], sweep.rows[s].nbd>> /\ sweep.rows[s].nbd \in Devices
      BY <2>3, <2>4 DEF Places
    <3>2. QED
      BY <2>2, <2>4, <3>1 DEF Own, Devices
  <2>5. QED
    BY <2>1, <2>2, <2>4
<1>3. ASSUME SfrInv, mount_disk PROVE \A q \in Places : dev[q] # 0 => dev'[q] # 0
  <2>1. PICK s \in req.sid, d \in _find_free_nbd(req.host), m \in {req.mount, Len(owner) + 1} :
          dev' = [dev EXCEPT ![<<req.host, d>>] = m]
    BY <1>3 DEF mount_disk
  <2>2. dev[<<req.host, d>>] = 0 /\ dev \in [Places -> 0 .. Len(owner)]
    BY <1>3 DEF _find_free_nbd, Free, SfrInv, Types
  <2>3. QED
    BY <2>1, <2>2
<1>4. ASSUME \A q \in Places : dev[q] # 0 => dev'[q] # 0 PROVE Fine
  BY <1>4
<1>5. ASSUME UNCHANGED dev PROVE Fine
  BY <1>5
<1> HIDE DEF Fine
<1>6. SfrInv /\ [Next]_vars => Fine
  <2> SUFFICES ASSUME SfrInv, [Next]_vars PROVE Fine
    OBVIOUS
  <2>1. CASE UNCHANGED vars
    BY <1>5, <2>1 DEF vars
  <2>2. CASE Requests
    BY <1>5, <2>2 DEF Requests, _create_session, _touch, _mount, _umount_disk,
       _close_session, _select_partition, _copy_cancel, _copy_to_vm,
       _delete_orphan_san_clone, host
  <2>3. CASE Answers
    BY <1>1, <1>3, <1>4, <1>5, <2>3 DEF Answers, CloseWaits, _pve_for_sess, LoginFails,
       clone_lun_from_snapshot, MountFails, Record, host
  <2>4. CASE Sweeping
    BY <1>2, <1>5, <2>4 DEF Sweeping, _cleanup_expired, SweepNext, SweepLoginFails,
       SweepDelete, host
  <2>5. ASSUME NEW c \in Copies, Copying(c) PROVE Fine
    BY <1>5, <2>5 DEF Copying, Opens, CopyCancelled, CopyFails, copy_file_to_vm, host
  <2>6. CASE Crash \/ \E s \in Sessions : Age(s)
    BY <1>5, <2>6 DEF Crash, Age, host
  <2>7. QED
    BY <2>1, <2>2, <2>3, <2>4, <2>5, <2>6 DEF Next
<1>7. Spec => [][Fine]_vars
  BY <1>6, Invariance, PTL DEF Spec
<1>8. QED
  BY <1>7, PTL DEF DisconnectsOwn, Fine

=============================================================================
