---------------------------- MODULE PlanRunProofs ----------------------------
(***************************************************************************)
(* Proofs about the runs of protection plans: when they start              *)
(* (PlanScheduler) and how they bring guests to rest (VmQuiesce).  The two *)
(* share no constant and no variable.                                      *)
(*                                                                         *)
(* PlanScheduler, for any plans, minutes and work.  The properties speak   *)
(* of minutes, the loop keeps times.  The invariant names, for each plan,  *)
(* a time that lies in the minute of its last start, and says how far the  *)
(* end of the sleep is from it, and from the time since when the loop owes *)
(* the plan a judgement.                                                   *)
(*                                                                         *)
(* VmQuiesce, for all threads, guests, levels and bounds: with GuestsApart,*)
(* a guest is at rest only in the hands of a job (ReleasedOrExcused), and  *)
(* what a job calls frozen is frozen when it takes the snapshot            *)
(* (FrozenAtSnapshot).  Neither is inductive: a thaw releases a guest only *)
(* if nobody suspended it meanwhile, so QuiesceInv says whose guest is     *)
(* whose and in which of the two ways it is held.                          *)
(***************************************************************************)
EXTENDS PlanScheduler, VmQuiesce, TLAPS


-----------------------------------------------------------------------------
(* The scheduler: minutes *)

LEMMA MinuteNat ==
    ASSUME NEW a \in Nat
    PROVE  MinuteOf(a) \in Nat
  BY SchedulerAssumption, Z3 DEF MinuteOf

\* Two times that are a minute apart are in different minutes.
LEMMA MinutesApart ==
    ASSUME NEW a \in Nat, NEW b \in Nat, a + Minute <= b
    PROVE  MinuteOf(a) # MinuteOf(b)
  BY SchedulerAssumption, Z3 DEF MinuteOf

\* Between two times no more than two minutes apart, the minute changes twice at most.
LEMMA MinutesClose ==
    ASSUME NEW a \in Nat, NEW b \in Nat, b <= a + 2 * Minute
    PROVE  MinuteOf(b) - MinuteOf(a) <= 2
  BY SchedulerAssumption, Z3 DEF MinuteOf

-----------------------------------------------------------------------------
(* The invariant *)

LoopType ==
    /\ loop = [pc |-> loop.pc, until |-> loop.until, todo |-> loop.todo, rows |-> loop.rows]
    /\ loop.todo \subseteq Plans
    /\ begun \in [Plans -> [minute : Nat \union {Never}, times : Nat]]

\* Nothing is left to look at during the sleep, it lasts a minute, and no time passes
\* beyond its end.
Pace ==
    /\ loop.pc = "wait" => /\ loop.todo = {}
                          /\ now <= loop.until /\ loop.until <= now + Minute
    /\ loop.pc = "look" => loop.until <= now /\ now <= loop.until + Work

\* The loop started p at the time b, a minute before it can do so again.
StartedAt(p, b) ==
    /\ begun[p].minute = MinuteOf(b)
    /\ loop.pc = "wait" \/ p \in loop.todo => b + Minute <= loop.until

StartedOnce(p) ==
    /\ begun[p].times <= 1
    /\ begun[p].minute # Never => \E b \in 0 .. now : StartedAt(p, b)

StartInv ==
    /\ SchedTypeOK /\ LoopType /\ Pace
    /\ \A p \in Plans : StartedOnce(p)

\* A judgement of p that is owed comes with the next look, or with this one, which read
\* the present row.
Owes(p) ==
    /\ loop.pc = "wait" => loop.until <= owed[p] + Work + Minute
    /\ loop.pc = "look" /\ owed[p] < loop.until =>
         /\ p \in loop.todo /\ loop.rows[p].cron = plan[p].cron
         /\ loop.until <= owed[p] + Work + Minute

SchedInv == StartInv /\ \A p \in Enabled : Owes(p)

-----------------------------------------------------------------------------
LEMMA InitInv == SchedInit => SchedInv
  <1> SUFFICES ASSUME SchedInit PROVE SchedInv
    OBVIOUS
  <1> USE SchedulerAssumption DEF SchedInit
  <1>1. SchedTypeOK
    BY DEF SchedTypeOK, NoPlan, NoRun, Asleep, Never
  <1>2. LoopType /\ Pace
    BY DEF LoopType, Pace, Asleep, Never
  <1>3. ASSUME NEW p \in Plans PROVE StartedOnce(p)
    <2>1. begun[p].minute = Never /\ begun[p].times = 0
      BY Zenon
    <2> QED
      BY <2>1 DEF StartedOnce
  <1>4. Enabled = {}
    BY DEF Enabled, NoPlan
  <1> QED
    BY <1>1, <1>2, <1>3, <1>4 DEF SchedInv, StartInv

\* Requests and runs leave the loop, the clock and the history as they are.
LEMMA OthersKeepStarts ==
    ASSUME StartInv, SchedTypeOK', UNCHANGED <<now, loop, begun>>
    PROVE  StartInv'
  <1>1. LoopType' /\ Pace'
    BY DEF StartInv, LoopType, Pace
  <1>2. ASSUME NEW p \in Plans PROVE StartedOnce(p)'
    BY DEF StartInv, StartedOnce, StartedAt, MinuteOf
  <1> QED
    BY <1>1, <1>2 DEF StartInv

\* The loop goes to sleep, after a look, a failed look or a start of the process.
LEMMA SleepKeepsStarts ==
    ASSUME StartInv, SchedTypeOK', loop' = Asleep(now), now' = now, begun' = begun
    PROVE  StartInv'
  <1> USE SchedulerAssumption
  <1>1. now \in Nat /\ loop.until \in Nat
    BY DEF StartInv, SchedTypeOK
  <1>2. LoopType' /\ Pace'
    BY <1>1 DEF StartInv, LoopType, Pace, Asleep
  <1>3. ASSUME NEW p \in Plans PROVE StartedOnce(p)'
    <2>1. StartedOnce(p)
      BY DEF StartInv
    <2>2. CASE begun[p].minute = Never
      BY <2>1, <2>2 DEF StartedOnce
    <2>3. CASE begun[p].minute # Never
      <3>1. PICK b \in 0 .. now : StartedAt(p, b)
        BY <2>1, <2>3 DEF StartedOnce
      <3>2. StartedAt(p, b)'
        BY <1>1, <3>1 DEF StartedAt, Asleep, MinuteOf
      <3> QED
        BY <2>1, <3>2 DEF StartedOnce
    <2> QED
      BY <2>2, <2>3
  <1> QED
    BY <1>2, <1>3 DEF StartInv

-----------------------------------------------------------------------------
(* Types *)

LEMMA PlansAndRunsKeepTypes ==
    ASSUME SchedTypeOK, UNCHANGED <<now, loop>>, owed' \in [Plans -> 0 .. MaxTime],
           plan' \in [Plans -> [is : BOOLEAN, cron : Crons \union {{}}, enabled : BOOLEAN,
                                last : -1 .. MaxTime]],
           run' \in [Runners -> [plan : SUBSET Plans, left : 0 .. Stores]]
    PROVE  SchedTypeOK'
  BY DEF SchedTypeOK

\* Every action keeps the types.
LEMMA TypeStep ==
    ASSUME StartInv, SchedNext
    PROVE  SchedTypeOK'
  <1> USE SchedulerAssumption
  <1>0. SchedTypeOK /\ LoopType /\ now \in Nat /\ loop.until \in Nat
    BY DEF StartInv, SchedTypeOK
  <1>1. CASE Tick
    <2>1. now' \in 0 .. MaxTime
      BY <1>0, <1>1 DEF Tick, SchedTypeOK
    <2> QED
      BY <1>1, <2>1 DEF StartInv, Tick, SchedTypeOK
  <1>2. ASSUME NEW p \in Plans, NEW c \in Crons, _add_schedule(p, c) PROVE SchedTypeOK'
    BY <1>0, <1>2, PlansAndRunsKeepTypes DEF _add_schedule, SchedTypeOK, NoPlan, Never
  <1>3. ASSUME NEW p \in Plans, NEW c \in Crons, NEW on \in BOOLEAN,
               _update_schedule(p, c, on)
        PROVE SchedTypeOK'
    <2>1. plan' \in [Plans -> [is : BOOLEAN, cron : Crons \union {{}},
                               enabled : BOOLEAN, last : -1 .. MaxTime]]
      <3>1. plan[p] \in [is : BOOLEAN, cron : Crons \union {{}}, enabled : BOOLEAN,
                         last : -1 .. MaxTime]
        BY <1>0 DEF SchedTypeOK
      <3>2. [plan[p] EXCEPT !.cron = c, !.enabled = on]
              \in [is : BOOLEAN, cron : Crons \union {{}}, enabled : BOOLEAN,
                   last : -1 .. MaxTime]
        BY <3>1
      <3>3. plan' = [plan EXCEPT ![p] = [plan[p] EXCEPT !.cron = c, !.enabled = on]]
        BY <1>0, <1>3 DEF _update_schedule, SchedTypeOK
      <3> QED
        BY <1>0, <3>2, <3>3 DEF SchedTypeOK
    <2>2. run' \in [Runners -> [plan : SUBSET Plans, left : 0 .. Stores]]
      BY <1>0, <1>3 DEF _update_schedule, SchedTypeOK
    <2>3. owed' \in [Plans -> 0 .. MaxTime]
      BY <1>0, <1>3 DEF _update_schedule, SchedTypeOK
    <2> QED
      BY <1>0, <1>3, <2>1, <2>2, <2>3, PlansAndRunsKeepTypes DEF _update_schedule
  <1>4. ASSUME NEW p \in Plans, _delete_schedule(p) PROVE SchedTypeOK'
    BY <1>0, <1>4, PlansAndRunsKeepTypes DEF _delete_schedule, SchedTypeOK, NoPlan, Never
  <1>5. ASSUME NEW p \in Plans, NEW t \in Runners, _run_schedule_now(t, p) PROVE SchedTypeOK'
    BY <1>0, <1>5, PlansAndRunsKeepTypes DEF _run_schedule_now, Starts, SchedTypeOK
  <1>6. ASSUME NEW t \in Runners, _execute_single_ds(t) PROVE SchedTypeOK'
    BY <1>0, <1>6, PlansAndRunsKeepTypes DEF _execute_single_ds, SchedTypeOK
  <1>7. ASSUME NEW t \in Runners, _execute_schedule(t) PROVE SchedTypeOK'
    <2>1. now \in -1 .. MaxTime
      BY <1>0 DEF SchedTypeOK
    <2>2. PICK p \in run[t].plan :
            /\ plan' = IF plan[p].is THEN [plan EXCEPT ![p].last = now] ELSE plan
            /\ run' = [run EXCEPT ![t] = NoRun]
            /\ UNCHANGED <<now, loop, begun, owed, edits, misses>>
      BY <1>7 DEF _execute_schedule
    <2>3. plan' \in [Plans -> [is : BOOLEAN, cron : Crons \union {{}},
                               enabled : BOOLEAN, last : -1 .. MaxTime]]
      BY <1>0, <2>1, <2>2 DEF SchedTypeOK
    <2> QED
      BY <1>0, <2>2, <2>3, PlansAndRunsKeepTypes DEF SchedTypeOK, NoRun
  <1>8. CASE _scheduler_loop
    <2>1. /\ loop'.pc = "look" /\ loop'.until = loop.until
          /\ loop'.todo = Enabled /\ DOMAIN loop'.rows = Enabled
      BY <1>0, <1>8 DEF _scheduler_loop, LoopType
    <2> QED
      BY <1>0, <1>8, <2>1 DEF _scheduler_loop, SchedTypeOK
  <1>9. ASSUME NEW p \in Plans, NEW t \in Runners, Begin(t, p) PROVE SchedTypeOK'
    <2>1. /\ loop'.pc = loop.pc /\ loop'.until = loop.until
          /\ loop'.rows = loop.rows /\ loop'.todo = loop.todo \ {p}
      BY <1>0, <1>9 DEF Begin, Looked, LoopType
    <2>2. owed' \in [Plans -> 0 .. MaxTime]
      BY <1>0, <1>9 DEF Begin, Looked, SchedTypeOK
    <2> QED
      BY <1>0, <1>9, <2>1, <2>2 DEF Begin, Starts, SchedTypeOK
  <1>10. ASSUME NEW p \in Plans, PassOver(p) PROVE SchedTypeOK'
    <2>1. /\ loop'.pc = loop.pc /\ loop'.until = loop.until
          /\ loop'.rows = loop.rows /\ loop'.todo = loop.todo \ {p}
      BY <1>0, <1>10 DEF PassOver, Looked, LoopType
    <2>2. owed' \in [Plans -> 0 .. MaxTime]
      BY <1>0, <1>10 DEF PassOver, Looked, SchedTypeOK
    <2> QED
      BY <1>0, <1>10, <2>1, <2>2 DEF PassOver, SchedTypeOK
  <1>11. CASE Sleep
    BY <1>0, <1>11 DEF Sleep, NextSleep, Asleep, SchedTypeOK
  <1>12. CASE LookFails
    BY <1>0, <1>12 DEF LookFails, NextSleep, Asleep, SchedTypeOK
  <1>13. CASE SchedCrash
    BY <1>0, <1>13 DEF SchedCrash, Restart, Asleep, NoRun, SchedTypeOK
  <1> QED
    BY <1>1, <1>2, <1>3, <1>4, <1>5, <1>6, <1>7, <1>8, <1>9, <1>10, <1>11, <1>12,
       <1>13 DEF SchedNext

-----------------------------------------------------------------------------
(* The steps of the clock and of the loop *)

LEMMA TickKeepsStarts ==
    ASSUME StartInv, Tick, SchedTypeOK'
    PROVE  StartInv'
  <1> USE SchedulerAssumption
  <1>1. now \in Nat /\ loop.until \in Nat /\ loop.pc \in {"wait", "look"}
    BY DEF StartInv, SchedTypeOK
  <1>2. LoopType' /\ Pace'
    BY <1>1 DEF StartInv, LoopType, Pace, Tick
  <1>3. ASSUME NEW p \in Plans PROVE StartedOnce(p)'
    <2>1. StartedOnce(p) /\ begun' = begun /\ loop' = loop /\ now' = now + 1
      BY DEF StartInv, Tick
    <2>2. CASE begun[p].minute = Never
      BY <2>1, <2>2 DEF StartedOnce
    <2>3. CASE begun[p].minute # Never
      <3>1. PICK b \in 0 .. now : StartedAt(p, b)
        BY <2>1, <2>3 DEF StartedOnce
      <3>2. StartedAt(p, b)' /\ b \in 0 .. now'
        BY <1>1, <2>1, <3>1 DEF StartedAt, MinuteOf
      <3> QED
        BY <2>1, <3>2 DEF StartedOnce
    <2> QED
      BY <2>2, <2>3
  <1> QED
    BY <1>2, <1>3 DEF StartInv

\* A plan that is looked at was started a minute ago, or never.
LEMMA LookKeepsStarts ==
    ASSUME StartInv, _scheduler_loop, SchedTypeOK'
    PROVE  StartInv'
  <1> USE SchedulerAssumption
  <1>1. now \in Nat /\ loop.until = now
    BY DEF StartInv, SchedTypeOK, _scheduler_loop
  <1>2. /\ loop'.pc = "look" /\ loop'.until = now /\ loop'.todo = Enabled
        /\ loop' = [pc |-> loop'.pc, until |-> loop'.until, todo |-> loop'.todo,
                    rows |-> loop'.rows]
    BY <1>1 DEF StartInv, LoopType, _scheduler_loop
  <1>3. LoopType' /\ Pace'
    BY <1>1, <1>2 DEF StartInv, LoopType, Pace, Enabled, _scheduler_loop
  <1>4. ASSUME NEW p \in Plans PROVE StartedOnce(p)'
    <2>1. StartedOnce(p)
      BY DEF StartInv
    <2> QED
      BY <1>1, <1>2, <2>1 DEF StartedOnce, StartedAt, _scheduler_loop, MinuteOf
  <1> QED
    BY <1>1, <1>3, <1>4 DEF StartInv, _scheduler_loop

\* A look at one plan takes it from the list, and starts it or not.
LEMMA PlanKeepsStarts ==
    ASSUME StartInv, SchedTypeOK', NEW p \in Plans, p \in loop.todo, Looked(p),
           UNCHANGED now,
           \/ begun' = begun
           \/ begun' = [begun EXCEPT ![p] =
                [minute |-> MinuteOf(now),
                 times |-> IF @.minute = MinuteOf(now) THEN @.times + 1 ELSE 1]]
    PROVE  StartInv'
  <1> USE SchedulerAssumption
  <1>1. /\ now \in Nat /\ loop.until \in Nat
        /\ loop.pc = "look" /\ loop.until <= now /\ MinuteOf(now) \in Nat
    BY MinuteNat DEF StartInv, SchedTypeOK, Pace
  <1>2. /\ loop'.pc = loop.pc /\ loop'.until = loop.until /\ loop'.todo = loop.todo \ {p}
        /\ loop' = [pc |-> loop'.pc, until |-> loop'.until, todo |-> loop'.todo,
                    rows |-> loop'.rows]
    BY DEF StartInv, LoopType, Looked
  <1>3. LoopType' /\ Pace'
    BY <1>1, <1>2 DEF StartInv, LoopType, Pace
  <1>4. ASSUME NEW q \in Plans PROVE StartedOnce(q)'
    <2>1. StartedOnce(q)
      BY DEF StartInv
    <2>2. CASE begun'[q] = begun[q]
      BY <1>1, <1>2, <2>1, <2>2 DEF StartedOnce, StartedAt, MinuteOf
    <2>3. CASE begun'[q] # begun[q]
      <3>1. /\ q = p
            /\ begun'[p] = [minute |-> MinuteOf(now),
                            times |-> IF begun[p].minute = MinuteOf(now)
                                      THEN begun[p].times + 1 ELSE 1]
        BY <2>3 DEF StartInv, LoopType
      <3>2. begun[p].minute # MinuteOf(now)
        <4>1. CASE begun[p].minute = Never
          BY <1>1, <4>1 DEF Never
        <4>2. CASE begun[p].minute # Never
          <5>1. PICK b \in 0 .. now : StartedAt(p, b)
            BY <2>1, <3>1, <4>2 DEF StartedOnce
          <5>2. b + Minute <= now
            BY <1>1, <5>1 DEF StartedAt
          <5> QED
            BY <1>1, <5>1, <5>2, MinutesApart DEF StartedAt
        <4> QED
          BY <4>1, <4>2
      <3>3. StartedAt(p, now)'
        BY <1>1, <1>2, <3>1 DEF StartedAt, MinuteOf
      <3> QED
        BY <1>1, <3>1, <3>2, <3>3 DEF StartedOnce
    <2> QED
      BY <2>2, <2>3
  <1> QED
    BY <1>3, <1>4 DEF StartInv

-----------------------------------------------------------------------------
LEMMA StepKeepsStarts == StartInv /\ [SchedNext]_schedVars => StartInv'
  <1> SUFFICES ASSUME StartInv, [SchedNext]_schedVars PROVE StartInv'
    OBVIOUS
  <1>0. ASSUME SchedNext PROVE SchedTypeOK'
    BY <1>0, TypeStep
  <1>1. CASE UNCHANGED schedVars
    <2>1. SchedTypeOK'
      BY <1>1 DEF StartInv, SchedTypeOK, schedVars, MinuteOf
    <2> QED
      BY <1>1, <2>1, OthersKeepStarts DEF schedVars
  <1>2. CASE SchedNext
    <2> USE <1>0, <1>2
    <2>1. CASE Tick
      BY <2>1, TickKeepsStarts
    <2>2. ASSUME NEW p \in Plans,
                 \/ \E c \in Crons : \/ _add_schedule(p, c)
                                     \/ \E on \in BOOLEAN : _update_schedule(p, c, on)
                 \/ _delete_schedule(p)
                 \/ \E t \in Runners : _run_schedule_now(t, p)
          PROVE StartInv'
      BY <2>2, OthersKeepStarts
         DEF _add_schedule, _update_schedule, _delete_schedule, _run_schedule_now
    <2>3. ASSUME NEW t \in Runners, _execute_single_ds(t) \/ _execute_schedule(t)
          PROVE StartInv'
      BY <2>3, OthersKeepStarts DEF _execute_single_ds, _execute_schedule
    <2>4. ASSUME NEW p \in Plans, PassOver(p) PROVE StartInv'
      BY <2>4, PlanKeepsStarts DEF PassOver
    <2>5. ASSUME NEW p \in Plans, NEW t \in Runners, Begin(t, p) PROVE StartInv'
      BY <2>5, PlanKeepsStarts DEF Begin
    <2>6. CASE _scheduler_loop
      BY <2>6, LookKeepsStarts
    <2>7. CASE Sleep
      BY <2>7, SleepKeepsStarts DEF Sleep, NextSleep
    <2>8. CASE LookFails
      BY <2>8, SleepKeepsStarts DEF LookFails, NextSleep
    <2>9. CASE SchedCrash
      BY <2>9, SleepKeepsStarts DEF SchedCrash, Restart
    <2> QED
      BY <2>1, <2>2, <2>3, <2>4, <2>5, <2>6, <2>7, <2>8, <2>9 DEF SchedNext
  <1> QED
    BY <1>1, <1>2

-----------------------------------------------------------------------------
(* What the loop owes a plan *)

\* A plan whose row changes, or which a failed look or the end of the process leaves, is
\* owed from now.
LEMMA OwedFromNow ==
    ASSUME StartInv, StartInv', now' = now, NEW p \in Plans, owed'[p] = now
    PROVE  Owes(p)'
  BY SchedulerAssumption DEF StartInv, SchedTypeOK, Pace, Owes

\* What concerns neither the loop nor the row of a plan changes nothing.
LEMMA OwedAsBefore ==
    ASSUME NEW p \in Plans, Owes(p), UNCHANGED <<loop, owed>>, plan'[p].cron = plan[p].cron
    PROVE  Owes(p)'
  BY DEF Owes

LEMMA EditsKeepDebts ==
    ASSUME SchedInv, StartInv', NEW q \in Plans, UNCHANGED <<now, loop>>,
           \/ owed' = [owed EXCEPT ![q] = now]
           \/ owed' = owed /\ plan'[q] = NoPlan,
           \A r \in Plans \ {q} : plan'[r] = plan[r],
           NEW p \in Enabled'
    PROVE  Owes(p)'
  <1>1. p \in Plans /\ owed \in [Plans -> 0 .. MaxTime]
    BY DEF Enabled, SchedInv, StartInv, SchedTypeOK
  <1>2. CASE p = q
    <2>1. owed'[p] = now
      BY <1>1, <1>2 DEF Enabled, NoPlan
    <2> QED
      BY <1>1, <2>1, OwedFromNow DEF SchedInv
  <1>3. CASE p # q
    <2>1. plan'[p] = plan[p] /\ owed'[p] = owed[p]
      BY <1>1, <1>3
    <2>2. Owes(p)
      BY <1>1, <2>1 DEF SchedInv, Enabled
    <2> QED
      BY <2>1, <2>2 DEF Owes
  <1> QED
    BY <1>2, <1>3

LEMMA LookKeepsDebts ==
    ASSUME SchedInv, _scheduler_loop, NEW p \in Enabled'
    PROVE  Owes(p)'
  <1>1. p \in Enabled /\ Owes(p) /\ LoopType
    BY DEF SchedInv, StartInv, _scheduler_loop, Enabled
  <1>2. /\ loop'.pc = "look" /\ loop'.until = loop.until
        /\ loop'.todo = Enabled /\ loop'.rows = [q \in Enabled |-> plan[q]]
    BY <1>1 DEF _scheduler_loop, LoopType
  <1> QED
    BY <1>1, <1>2 DEF _scheduler_loop, Owes

LEMMA JudgementKeepsDebts ==
    ASSUME SchedInv, StartInv', NEW q \in Plans, Looked(q), loop.pc = "look",
           UNCHANGED <<now, plan>>, NEW p \in Enabled'
    PROVE  Owes(p)'
  <1>1. /\ p \in Plans /\ p \in Enabled /\ Owes(p) /\ LoopType /\ Pace
        /\ owed \in [Plans -> 0 .. MaxTime]
        /\ now \in Nat /\ loop.until \in Nat
    BY DEF SchedInv, StartInv, Enabled, SchedTypeOK
  <1>2. /\ loop'.pc = loop.pc /\ loop'.until = loop.until /\ loop'.rows = loop.rows
        /\ loop'.todo = loop.todo \ {q}
    BY <1>1 DEF Looked, LoopType
  <1>3. CASE p = q /\ loop.rows[p].cron = plan[p].cron
    <2>1. owed'[p] = now
      BY <1>1, <1>3 DEF Looked
    <2> QED
      BY <1>1, <2>1, OwedFromNow DEF SchedInv
  <1>4. CASE p = q /\ loop.rows[p].cron # plan[p].cron
    <2>1. owed' = owed /\ ~(owed[p] < loop.until)
      BY <1>1, <1>4 DEF Looked, Owes
    <2> QED
      BY <1>2, <2>1 DEF Owes
  <1>5. CASE p # q
    <2>1. owed'[p] = owed[p]
      BY <1>1, <1>5 DEF Looked
    <2> QED
      BY <1>1, <1>2, <1>5, <2>1 DEF Owes
  <1> QED
    BY <1>3, <1>4, <1>5

\* The sleep begins no later than a look after the plan was judged.
LEMMA SleepKeepsDebts ==
    ASSUME SchedInv, StartInv', NEW p \in Enabled', loop.pc = "look",
           loop' = Asleep(now), UNCHANGED <<now, plan>>, p \notin loop.todo, owed'[p] = owed[p]
    PROVE  Owes(p)'
  <1> USE SchedulerAssumption
  <1>1. /\ p \in Plans /\ Owes(p) /\ Pace /\ owed[p] \in Nat
        /\ now \in Nat /\ loop.until \in Nat
    BY DEF SchedInv, StartInv, Enabled, SchedTypeOK
  <1>2. loop.until <= owed[p]
    BY <1>1 DEF Owes
  <1>3. now + Minute <= owed[p] + Work + Minute
    BY <1>1, <1>2 DEF Pace
  <1> QED
    BY <1>3 DEF Owes, Asleep

LEMMA DebtStep ==
    ASSUME SchedInv, SchedNext, StartInv', NEW p \in Enabled'
    PROVE  Owes(p)'
  <1> USE SchedulerAssumption
  <1>0. /\ p \in Plans /\ SchedTypeOK /\ StartInv
        /\ plan \in [Plans -> [is : BOOLEAN, cron : Crons \union {{}}, enabled : BOOLEAN,
                               last : -1 .. MaxTime]]
        /\ owed \in [Plans -> 0 .. MaxTime]
        /\ \A q \in Enabled : Owes(q)
    BY DEF SchedInv, StartInv, Enabled, SchedTypeOK
  <1>s. ASSUME UNCHANGED <<loop, owed>>, plan' = plan PROVE Owes(p)'
    BY <1>0, <1>s, OwedAsBefore DEF Enabled
  <1>1. CASE Tick
    BY <1>1, <1>s DEF Tick
  <1>2. ASSUME NEW q \in Plans, NEW c \in Crons, _add_schedule(q, c) PROVE Owes(p)'
    BY <1>0, <1>2, EditsKeepDebts DEF _add_schedule
  <1>3. ASSUME NEW q \in Plans, NEW c \in Crons, NEW on \in BOOLEAN,
               _update_schedule(q, c, on)
        PROVE Owes(p)'
    BY <1>0, <1>3, EditsKeepDebts DEF _update_schedule
  <1>4. ASSUME NEW q \in Plans, _delete_schedule(q) PROVE Owes(p)'
    BY <1>0, <1>4, EditsKeepDebts DEF _delete_schedule
  <1>5. ASSUME NEW q \in Plans, NEW t \in Runners, _run_schedule_now(t, q) PROVE Owes(p)'
    BY <1>5, <1>s DEF _run_schedule_now
  <1>6. ASSUME NEW t \in Runners, _execute_single_ds(t) PROVE Owes(p)'
    BY <1>6, <1>s DEF _execute_single_ds
  <1>7. ASSUME NEW t \in Runners, _execute_schedule(t) PROVE Owes(p)'
    <2>1. PICK q \in run[t].plan :
            /\ plan' = IF plan[q].is THEN [plan EXCEPT ![q].last = now] ELSE plan
            /\ UNCHANGED <<loop, owed>>
      BY <1>7 DEF _execute_schedule
    <2>2. /\ plan'[p].cron = plan[p].cron /\ plan'[p].is = plan[p].is
          /\ plan'[p].enabled = plan[p].enabled
      BY <1>0, <2>1
    <2> QED
      BY <1>0, <2>1, <2>2, OwedAsBefore DEF Enabled
  <1>8. CASE _scheduler_loop
    BY <1>8, LookKeepsDebts
  <1>9. ASSUME NEW q \in Plans, PassOver(q) \/ \E t \in Runners : Begin(t, q)
        PROVE Owes(p)'
    <2>1. loop.pc = "look"
      BY <1>0, <1>9 DEF PassOver, Begin, StartInv, Pace, SchedTypeOK
    <2> QED
      BY <1>9, <2>1, JudgementKeepsDebts DEF PassOver, Begin
  <1>10. CASE Sleep
    BY <1>10, SleepKeepsDebts DEF Sleep, NextSleep
  <1>11. CASE LookFails
    <2>1. CASE p \in loop.todo
      BY <1>0, <1>11, <2>1, OwedFromNow DEF LookFails
    <2>2. CASE p \notin loop.todo
      BY <1>0, <1>11, <2>2, SleepKeepsDebts DEF LookFails, NextSleep
    <2> QED
      BY <2>1, <2>2
  <1>12. CASE SchedCrash
    BY <1>0, <1>12, OwedFromNow DEF SchedCrash
  <1> QED
    BY <1>1, <1>2, <1>3, <1>4, <1>5, <1>6, <1>7, <1>8, <1>9, <1>10, <1>11, <1>12
       DEF SchedNext

LEMMA StepKeepsInv == SchedInv /\ [SchedNext]_schedVars => SchedInv'
  <1> SUFFICES ASSUME SchedInv, [SchedNext]_schedVars PROVE SchedInv'
    OBVIOUS
  <1>1. StartInv'
    BY StepKeepsStarts DEF SchedInv
  <1>2. CASE UNCHANGED schedVars
    <2>1. Enabled' = Enabled /\ \A p \in Enabled : p \in Plans /\ plan'[p].cron = plan[p].cron
      BY <1>2 DEF schedVars, Enabled
    <2> QED
      BY <1>1, <1>2, <2>1, OwedAsBefore DEF SchedInv, schedVars
  <1>3. CASE SchedNext
    BY <1>1, <1>3, DebtStep DEF SchedInv
  <1> QED
    BY <1>1, <1>2, <1>3

LEMMA SchedInvHolds == SchedSpec => []SchedInv
  BY InitInv, StepKeepsInv, PTL DEF SchedSpec

-----------------------------------------------------------------------------
\* Every variable keeps its type.
THEOREM SchedulerTypeCorrect == SchedSpec => []SchedTypeOK
  <1>1. SchedInv => SchedTypeOK
    BY DEF SchedInv, StartInv
  <1> QED
    BY <1>1, SchedInvHolds, PTL

\* The loop starts a plan at most once in a minute, however long its looks take, and
\* whatever becomes of last_run_at.
THEOREM StartsOncePerMinute == SchedSpec => []OncePerMinute
  <1>1. SchedInv => OncePerMinute
    BY DEF SchedInv, StartInv, StartedOnce, OncePerMinute
  <1> QED
    BY <1>1, SchedInvHolds, PTL

\* While a look takes no more than half a minute, the loop judges every enabled plan by its
\* present row in one of two minutes in a row, counted anew after a change of the row, a
\* look that failed before it came to the plan, and a start of the process.
THEOREM JudgesEverySecondMinute == SchedSpec => []JudgedEverySecondMinute
  <1>1. SchedInv => JudgedEverySecondMinute
    <2> SUFFICES ASSUME SchedInv, NEW p \in Enabled
                 PROVE  MinuteOf(now) - MinuteOf(owed[p]) <= 2
      BY DEF JudgedEverySecondMinute
    <2> USE SchedulerAssumption
    <2>1. /\ Owes(p) /\ Pace /\ owed[p] \in Nat /\ now \in Nat /\ loop.until \in Nat
          /\ loop.pc \in {"wait", "look"}
      BY DEF SchedInv, StartInv, SchedTypeOK, Enabled
    <2>2. CASE loop.pc = "wait"
      BY <2>1, <2>2, MinutesClose DEF Owes, Pace
    <2>3. CASE loop.pc = "look"
      <3>1. now <= loop.until + Work
        BY <2>3, <2>1 DEF Pace
      <3>2. loop.until <= owed[p] \/ loop.until <= owed[p] + Work + Minute
        BY <2>3, <2>1 DEF Owes
      <3>3. now <= owed[p] + 2 * Minute
        BY <2>1, <3>1, <3>2
      <3> QED
        BY <2>1, <3>3, MinutesClose
    <2> QED
      BY <2>1, <2>2, <2>3
  <1> QED
    BY <1>1, SchedInvHolds, PTL

-----------------------------------------------------------------------------
USE GuestsAssumption, BoundsAssumption

-----------------------------------------------------------------------------
(* Guests: the inductive invariant *)

HeldBy(j) == j.frozen \cup j.suspended

\* A job holds guests of its own, each in one way, and handles each once.
JobGood(t, j) ==
    /\ j \in JobType
    /\ HeldBy(j) \subseteq GuestsOf[t]
    /\ j.todo \subseteq GuestsOf[t]
    /\ j.frozen \cap j.suspended = {}
    /\ j.pc = "idle" => HeldBy(j) = {}
    /\ j.pc \in {"quiesce", "fallback"} => j.todo \cap HeldBy(j) = {}
    /\ j.pc = "fallback" => j.guest \in GuestsOf[t] \ (HeldBy(j) \cup j.todo)
    /\ j.pc = "release" => j.todo = HeldBy(j)

\* What job t holds as frozen is frozen, and not suspended as well; what it
\* holds as suspended is not frozen as well.
HeldGood(t) ==
    /\ job[t].frozen \subseteq frozen
    /\ \A g \in job[t].frozen : g \in excused \/ g \notin paused \cup tasks
    /\ \A g \in job[t].suspended : g \in excused \/ g \notin frozen

AccountedFor(g) == g \in excused \/ \E t \in Threads : Holds(t, g)

StateGood ==
    /\ frozen \subseteq Guests \ Containers
    /\ paused \subseteq Guests
    /\ tasks \subseteq Guests
    /\ excused \subseteq Guests
    /\ runs \in Nat
    /\ faults \in Nat

QuiesceInv ==
    /\ StateGood
    /\ job \in [Threads -> JobType]
    /\ \A t \in Threads : JobGood(t, job[t])
    /\ \A t \in Threads : HeldGood(t)
    /\ \A g \in frozen \cup paused \cup tasks : AccountedFor(g)

-----------------------------------------------------------------------------
(* One job changes *)

\* A step of thread t leads to the invariant if the new record of t is good,
\* if it fits the new guests, and if the step touches no guest but g, one of
\* t's.
LEMMA OneJobChanges ==
    ASSUME QuiesceInv, GuestsApart,
           NEW t \in Threads, NEW g \in GuestsOf[t], NEW j,
           job' = [job EXCEPT ![t] = j],
           JobGood(t, j),
           StateGood',
           frozen \ {g} = frozen' \ {g},
           paused \ {g} = paused' \ {g},
           tasks \ {g} = tasks' \ {g},
           excused \subseteq excused',
           HeldBy(j) \ {g} = HeldBy(job[t]) \ {g},
           j.frozen \ {g} = job[t].frozen \ {g},
           j.suspended \ {g} = job[t].suspended \ {g},
           g \in j.frozen => /\ g \in frozen'
                             /\ g \in excused' \/ g \notin paused' \cup tasks',
           g \in j.suspended => g \in excused' \/ g \notin frozen',
           g \in frozen' \cup paused' \cup tasks'
               => g \in excused' \/ g \in HeldBy(j)
    PROVE  QuiesceInv'
<1>1. job'[t] = j /\ \A u \in Threads \ {t} : job'[u] = job[u]
  BY DEF QuiesceInv
<1>2. j \in JobType
  BY DEF JobGood
<1>3. job' \in [Threads -> JobType]
  BY <1>2 DEF QuiesceInv
<1>4. \A u \in Threads : JobGood(u, job'[u])
  BY <1>1 DEF QuiesceInv
<1>5. ASSUME NEW u \in Threads \ {t}
      PROVE  g \notin HeldBy(job[u])
  BY DEF QuiesceInv, JobGood, GuestsApart
<1>6. ASSUME NEW u \in Threads
      PROVE  HeldGood(u)'
  <2>1. CASE u = t
    BY <2>1, <1>1 DEF HeldGood, QuiesceInv
  <2>2. CASE u # t
    BY <2>2, <1>1, <1>5 DEF HeldGood, HeldBy, QuiesceInv
  <2> QED BY <2>1, <2>2
<1>7. ASSUME NEW h \in frozen' \cup paused' \cup tasks'
      PROVE  AccountedFor(h)'
  <2>1. CASE h = g
    BY <2>1, <1>1 DEF AccountedFor, Holds, HeldBy
  <2>2. CASE h # g
    <3>1. h \in frozen \cup paused \cup tasks
      BY <2>2
    <3>2. AccountedFor(h)
      BY <3>1 DEF QuiesceInv
    <3>3. CASE h \in excused
      BY <3>3 DEF AccountedFor
    <3>4. ASSUME NEW u \in Threads, Holds(u, h)
          PROVE  Holds(u, h)'
      <4>1. CASE u = t
        BY <4>1, <3>4, <2>2, <1>1 DEF Holds, HeldBy
      <4>2. CASE u # t
        BY <4>2, <3>4, <1>1 DEF Holds
      <4> QED BY <4>1, <4>2
    <3> QED BY <3>2, <3>3, <3>4 DEF AccountedFor
  <2> QED BY <2>1, <2>2
<1> QED
  BY <1>3, <1>4, <1>6, <1>7 DEF QuiesceInv

\* The record that a step gives to thread t, as a whole.
LEMMA JobStep ==
    ASSUME job \in [Threads -> JobType], NEW t \in Threads, NEW g \in Guests
    PROVE  /\ [job EXCEPT ![t].pc = "fallback", ![t].guest = g,
                          ![t].todo = @ \ {g}]
                = [job EXCEPT ![t] =
                     [job[t] EXCEPT !.pc = "fallback", !.guest = g,
                                    !.todo = @ \ {g}]]
           /\ [job EXCEPT ![t].todo = @ \ {g}, ![t].frozen = @ \cup {g}]
                = [job EXCEPT ![t] =
                     [job[t] EXCEPT !.todo = @ \ {g}, !.frozen = @ \cup {g}]]
           /\ [job EXCEPT ![t].pc = "quiesce", ![t].todo = @ \ {g},
                          ![t].guest = NoGuest, ![t].suspended = @ \cup {g}]
                = [job EXCEPT ![t] =
                     [job[t] EXCEPT !.pc = "quiesce", !.todo = @ \ {g},
                                    !.guest = NoGuest,
                                    !.suspended = @ \cup {g}]]
           /\ [job EXCEPT ![t].pc = "quiesce", ![t].todo = @ \ {g},
                          ![t].guest = NoGuest]
                = [job EXCEPT ![t] =
                     [job[t] EXCEPT !.pc = "quiesce", !.todo = @ \ {g},
                                    !.guest = NoGuest]]
           /\ [job EXCEPT ![t].todo = @ \ {g}, ![t].frozen = @ \ {g},
                          ![t].suspended = @ \ {g}]
                = [job EXCEPT ![t] =
                     [job[t] EXCEPT !.todo = @ \ {g}, !.frozen = @ \ {g},
                                    !.suspended = @ \ {g}]]
  OBVIOUS

\* A step of thread t that touches no guest.
LEMMA NoGuestChanges ==
    ASSUME QuiesceInv, NEW t \in Threads, NEW j,
           job' = [job EXCEPT ![t] = j],
           JobGood(t, j),
           j.frozen = job[t].frozen, j.suspended = job[t].suspended,
           guestVars' = guestVars, excused' = excused,
           runs' \in Nat, faults' \in Nat
    PROVE  QuiesceInv'
<1>1. job'[t] = j /\ \A u \in Threads \ {t} : job'[u] = job[u]
  BY DEF QuiesceInv
<1>2. job' \in [Threads -> JobType]
  BY DEF QuiesceInv, JobGood
<1>3. \A u \in Threads : JobGood(u, job'[u])
  BY <1>1 DEF QuiesceInv
<1>4. \A u \in Threads : HeldGood(u)'
  BY <1>1 DEF QuiesceInv, HeldGood, guestVars
<1>5. \A u \in Threads, h \in Guests : Holds(u, h) <=> Holds(u, h)'
  BY <1>1 DEF Holds
<1>6. \A h \in frozen' \cup paused' \cup tasks' : AccountedFor(h)'
  BY <1>5 DEF QuiesceInv, StateGood, AccountedFor, guestVars
<1> QED
  BY <1>2, <1>3, <1>4, <1>6 DEF QuiesceInv, StateGood, guestVars

\* A guest that the job is about to bring to rest is at rest only if a call
\* about it failed.
LEMMA NotYetAtRest ==
    ASSUME QuiesceInv, GuestsApart,
           NEW t \in Threads, NEW g \in GuestsOf[t],
           g \notin HeldBy(job[t]),
           g \in frozen \cup paused \cup tasks
    PROVE  g \in excused
<1>1. ASSUME NEW u \in Threads, Holds(u, g)
      PROVE  FALSE
  <2>1. u = t
    BY <1>1 DEF QuiesceInv, JobGood, GuestsApart, Holds, HeldBy
  <2> QED BY <2>1, <1>1 DEF Holds, HeldBy
<1> QED BY <1>1 DEF QuiesceInv, AccountedFor

-----------------------------------------------------------------------------
(* The steps about one guest *)

LEMMA FreezeKeeps ==
    ASSUME QuiesceInv, GuestsApart,
           NEW t \in Threads, NEW g \in GuestsOf[t],
           \/ FreezeOk(t, g) \/ FreezeRefused(t, g) \/ FreezeFails(t, g)
           \/ FreezeAnswerLost(t, g)
    PROVE  QuiesceInv'
<1>1. /\ g \in Guests \ Containers
      /\ g \notin HeldBy(job[t])
      /\ JobGood(t, job[t])
      /\ job[t].pc = "quiesce"
      /\ g \in job[t].todo
  BY DEF QuiesceInv, JobGood, FreezeOk, FreezeRefused, FreezeFails,
         FreezeAnswerLost, Freezes
<1>2. CASE FreezeOk(t, g)
  <2> DEFINE j == [job[t] EXCEPT !.todo = @ \ {g}, !.frozen = @ \cup {g}]
  <2>1. job' = [job EXCEPT ![t] = j]
    BY <1>1, <1>2, JobStep DEF FreezeOk, QuiesceInv
  <2>2. j.frozen = job[t].frozen \cup {g} /\ j.suspended = job[t].suspended
    BY <1>1 DEF JobGood, JobType
  <2>3. JobGood(t, j)
    BY <1>1 DEF JobGood, JobType, HeldBy
  <2>4. g \in tasks => g \in excused
    BY <1>1, NotYetAtRest
  <2>5. /\ frozen' = frozen \cup {g} /\ g \notin paused
        /\ paused' = paused /\ tasks' = tasks /\ excused' = excused
        /\ runs' = runs /\ faults' = faults
    BY <1>2 DEF FreezeOk, NoFault
  <2>6. StateGood'
    BY <1>1, <2>5 DEF StateGood, QuiesceInv
  <2>7. g \notin job[t].suspended
    BY <1>1 DEF HeldBy
  <2> HIDE DEF j
  <2> QED
    BY <1>1, <2>1, <2>2, <2>3, <2>4, <2>5, <2>6, <2>7, OneJobChanges
    DEF HeldBy
<1>3. CASE FreezeRefused(t, g) \/ FreezeFails(t, g) \/ FreezeAnswerLost(t, g)
  <2> DEFINE j == [job[t] EXCEPT !.pc = "fallback", !.guest = g,
                                 !.todo = @ \ {g}]
  <2>1. job' = [job EXCEPT ![t] = j]
    BY <1>1, <1>3, JobStep
    DEF FreezeRefused, FreezeFails, FreezeAnswerLost, FallsBack, QuiesceInv
  <2>2. j.frozen = job[t].frozen /\ j.suspended = job[t].suspended
    BY <1>1 DEF JobGood, JobType
  <2>3. JobGood(t, j)
    BY <1>1 DEF JobGood, JobType, HeldBy
  <2> HIDE DEF j
  <2>4. \/ excused' = excused /\ frozen' = frozen /\ faults' = faults
        \/ excused' = excused \cup {g} /\ frozen' \in {frozen, frozen \cup {g}}
           /\ faults' = faults + 1
    BY <1>3 DEF FreezeRefused, FreezeFails, FreezeAnswerLost, FaultAt, NoFault
  <2>5. paused' = paused /\ tasks' = tasks /\ runs' = runs
    BY <1>3 DEF FreezeRefused, FreezeFails, FreezeAnswerLost, FallsBack
  <2>6. g \in frozen \cup paused \cup tasks => g \in excused
    BY <1>1, NotYetAtRest
  <2>7. StateGood'
    BY <1>1, <2>4, <2>5 DEF StateGood, QuiesceInv
  <2> QED
    BY <1>1, <2>1, <2>2, <2>3, <2>4, <2>5, <2>6, <2>7, OneJobChanges
    DEF HeldBy
<1> QED BY <1>2, <1>3

LEMMA SuspendKeeps ==
    ASSUME QuiesceInv, GuestsApart,
           NEW t \in Threads, NEW g \in GuestsOf[t],
           SuspendOk(t, g) \/ SuspendFails(t, g)
    PROVE  QuiesceInv'
<1>1. /\ g \in Guests
      /\ g \notin HeldBy(job[t])
      /\ JobGood(t, job[t])
      /\ job[t].pc \in {"quiesce", "fallback"}
  BY DEF QuiesceInv, JobGood, SuspendOk, SuspendFails, Suspends
<1>2. g \in frozen \cup paused \cup tasks => g \in excused
  BY <1>1, NotYetAtRest
<1>3. CASE SuspendOk(t, g)
  <2> DEFINE j == [job[t] EXCEPT !.pc = "quiesce", !.todo = @ \ {g},
                                 !.guest = NoGuest, !.suspended = @ \cup {g}]
  <2>1. job' = [job EXCEPT ![t] = j]
    BY <1>1, <1>3, JobStep DEF SuspendOk, QuiesceInv
  <2>2. j.frozen = job[t].frozen /\ j.suspended = job[t].suspended \cup {g}
    BY <1>1 DEF JobGood, JobType
  <2>3. JobGood(t, j)
    BY <1>1 DEF JobGood, JobType, HeldBy
  <2>4. /\ tasks' = tasks \cup {g} /\ frozen' = frozen
        /\ paused' = paused /\ excused' = excused
        /\ runs' = runs /\ faults' = faults
    BY <1>3 DEF SuspendOk, NoFault
  <2>5. StateGood'
    BY <1>1, <2>4 DEF StateGood, QuiesceInv
  <2> HIDE DEF j
  <2> QED
    BY <1>1, <1>2, <2>1, <2>2, <2>3, <2>4, <2>5, OneJobChanges
    DEF HeldBy
<1>4. CASE SuspendFails(t, g)
  <2> DEFINE j == [job[t] EXCEPT !.pc = "quiesce", !.todo = @ \ {g},
                                 !.guest = NoGuest]
  <2>1. job' = [job EXCEPT ![t] = j]
    BY <1>1, <1>4, JobStep DEF SuspendFails, QuiesceInv
  <2>2. j.frozen = job[t].frozen /\ j.suspended = job[t].suspended
    BY <1>1 DEF JobGood, JobType
  <2>3. JobGood(t, j)
    BY <1>1 DEF JobGood, JobType, HeldBy
  <2> HIDE DEF j
  <2>4. tasks' \in {tasks, tasks \cup {g}} /\ excused' = excused \cup {g}
    BY <1>4 DEF SuspendFails, FaultAt
  <2>5. frozen' = frozen /\ paused' = paused /\ runs' = runs
    BY <1>4 DEF SuspendFails
  <2>6. faults' \in Nat
    BY <1>4 DEF SuspendFails, FaultAt, QuiesceInv, StateGood
  <2>7. StateGood'
    BY <1>1, <2>4, <2>5, <2>6 DEF StateGood, QuiesceInv
  <2> QED
    BY <1>1, <1>2, <2>1, <2>2, <2>3, <2>4, <2>5, <2>7, OneJobChanges
    DEF HeldBy
<1> QED BY <1>3, <1>4

LEMMA ReleaseKeeps ==
    ASSUME QuiesceInv, GuestsApart,
           NEW t \in Threads, NEW g \in GuestsOf[t],
           Thaw(t, g) \/ Resume(t, g)
    PROVE  QuiesceInv'
<1> DEFINE j == [job[t] EXCEPT !.todo = @ \ {g}, !.frozen = @ \ {g},
                               !.suspended = @ \ {g}]
<1>1. /\ g \in Guests
      /\ JobGood(t, job[t])
      /\ HeldGood(t)
      /\ job[t].pc = "release"
  BY DEF QuiesceInv, Thaw, Resume, Releases
<1>2. job' = [job EXCEPT ![t] = j]
  BY <1>1, JobStep DEF Thaw, Resume, LetGo, QuiesceInv
<1>3. /\ j.frozen = job[t].frozen \ {g}
      /\ j.suspended = job[t].suspended \ {g}
  BY <1>1 DEF JobGood, JobType
<1>4. JobGood(t, j)
  BY <1>1 DEF JobGood, JobType, HeldBy
<1> HIDE DEF j
<1>5. CASE Thaw(t, g)
  <2>1. \/ frozen' = frozen \ {g} /\ excused' = excused
        \/ frozen' = frozen /\ g \in excused' /\ excused' = excused \cup {g}
    BY <1>1, <1>5 DEF Thaw, HeldGood, NoFault, FaultAt
  <2>2. g \in paused \cup tasks => g \in excused
    BY <1>1, <1>5 DEF Thaw, HeldGood
  <2>3. paused' = paused /\ tasks' = tasks /\ runs' = runs
    BY <1>5 DEF Thaw, LetGo
  <2>4. faults' \in Nat
    BY <1>5 DEF Thaw, NoFault, FaultAt, QuiesceInv, StateGood
  <2> QED
    BY <1>1, <1>2, <1>3, <1>4, <2>1, <2>2, <2>3, <2>4, OneJobChanges
    DEF StateGood, QuiesceInv, HeldBy
<1>6. CASE Resume(t, g)
  <2>1. \/ paused' = paused \ {g} /\ g \notin tasks /\ excused' = excused
        \/ paused' = paused /\ excused' = excused \cup {g}
    BY <1>6 DEF Resume, NoFault, FaultAt
  <2>2. g \in frozen => g \in excused
    BY <1>1, <1>6 DEF Resume, HeldGood
  <2>3. frozen' = frozen /\ tasks' = tasks /\ runs' = runs
    BY <1>6 DEF Resume, LetGo
  <2>4. faults' \in Nat
    BY <1>6 DEF Resume, NoFault, FaultAt, QuiesceInv, StateGood
  <2> QED
    BY <1>1, <1>2, <1>3, <1>4, <2>1, <2>2, <2>3, <2>4, OneJobChanges
    DEF StateGood, QuiesceInv, HeldBy
<1> QED BY <1>5, <1>6

-----------------------------------------------------------------------------
(* The other steps *)

LEMMA JobNextKeeps ==
    ASSUME QuiesceInv, GuestsApart, NEW t \in Threads, JobNext(t)
    PROVE  QuiesceInv'
<1>1. JobGood(t, job[t]) /\ job \in [Threads -> JobType] /\ runs \in Nat
      /\ faults \in Nat
  BY DEF QuiesceInv, StateGood
<1>2. CASE Start(t)
  <2> DEFINE j == [IdleJob EXCEPT !.pc = "quiesce",
                     !.todo = IF Level[t] = "crash" THEN {} ELSE GuestsOf[t]]
  <2>1. job' = [job EXCEPT ![t] = j]
    BY <1>2 DEF Start
  <2>2. job[t].frozen = {} /\ job[t].suspended = {}
    BY <1>1, <1>2 DEF Start, JobGood, HeldBy
  <2>3. j.frozen = {} /\ j.suspended = {} /\ j.pc = "quiesce"
        /\ j.todo \subseteq GuestsOf[t]
    BY DEF IdleJob
  <2>4. j \in JobType
    BY <1>1 DEF JobType, IdleJob
  <2>5. JobGood(t, j)
    BY <2>3, <2>4 DEF JobGood, HeldBy
  <2>6. j.frozen = job[t].frozen /\ j.suspended = job[t].suspended
    BY <2>2, <2>3
  <2>7. guestVars' = guestVars /\ excused' = excused /\ faults' = faults
        /\ runs' \in Nat
    BY <1>1, <1>2 DEF Start, guestVars
  <2>8. faults' \in Nat
    BY <1>1, <2>7
  <2> HIDE DEF j
  <2> QED
    BY <2>1, <2>5, <2>6, <2>7, <2>8, NoGuestChanges, Zenon
<1>3. ASSUME NEW g \in GuestsOf[t], GuestNext(t, g)
      PROVE  QuiesceInv'
  BY <1>3, FreezeKeeps, SuspendKeeps, ReleaseKeeps DEF GuestNext
<1>4. CASE Created(t) \/ CreateFails(t)
  <2> DEFINE j == [job[t] EXCEPT !.pc = "release",
                     !.todo = job[t].frozen \cup job[t].suspended]
  <2>1. job' = [job EXCEPT ![t] = j]
    BY <1>1, <1>4 DEF Created, CreateFails
  <2>2. /\ j.frozen = job[t].frozen /\ j.suspended = job[t].suspended
        /\ j.pc = "release" /\ j.todo = HeldBy(job[t])
    BY <1>1 DEF JobType, HeldBy
  <2>3. JobGood(t, j)
    BY <1>1, <2>2 DEF JobGood, JobType, HeldBy
  <2>4. faults' \in Nat
    BY <1>1, <1>4 DEF Created, CreateFails
  <2> HIDE DEF j
  <2> QED
    BY <1>1, <1>4, <2>1, <2>2, <2>3, <2>4, NoGuestChanges
    DEF Created, CreateFails, guestVars
<1>5. CASE End(t)
  <2>1. job[t].frozen = {} /\ job[t].suspended = {}
    BY <1>1, <1>5 DEF End, JobGood, HeldBy
  <2>2. IdleJob.frozen = {} /\ IdleJob.suspended = {} /\ JobGood(t, IdleJob)
    BY DEF IdleJob, JobGood, JobType, HeldBy
  <2> QED
    BY <1>1, <1>5, <2>1, <2>2, NoGuestChanges DEF End, guestVars
<1> QED BY <1>2, <1>3, <1>4, <1>5 DEF JobNext

\* A task that runs late finds the guest still in the hands of the job.
LEMMA SuspendRunsKeeps ==
    ASSUME QuiesceInv, NEW g \in Guests, SuspendRuns(g)
    PROVE  QuiesceInv'
<1>1. /\ frozen' = frozen /\ job' = job /\ excused' = excused
      /\ runs' = runs /\ faults' = faults
      /\ paused' \cup tasks' = paused \cup tasks
      /\ paused' \subseteq Guests /\ tasks' \subseteq Guests
  BY DEF SuspendRuns, QuiesceInv, StateGood
<1>2. \A t \in Threads : HeldGood(t)'
  BY <1>1 DEF QuiesceInv, HeldGood
<1>3. \A h : AccountedFor(h) => AccountedFor(h)'
  BY <1>1 DEF AccountedFor, Holds
<1>4. \A h \in frozen' \cup paused' \cup tasks' : AccountedFor(h)'
  BY <1>1, <1>3 DEF QuiesceInv
<1> QED BY <1>1, <1>2, <1>4 DEF QuiesceInv, StateGood

LEMMA CrashKeeps ==
    ASSUME QuiesceInv, Crash
    PROVE  QuiesceInv'
<1> DEFINE held == UNION {job[t].frozen \cup job[t].suspended : t \in Threads}
<1>1. job' = [t \in Threads |-> IdleJob] /\ excused' = excused \cup held
  BY DEF Crash
<1>2. \A t \in Threads : HeldBy(job[t]) \subseteq Guests
  BY DEF QuiesceInv, JobGood
<1>3. held \subseteq Guests
  BY <1>2 DEF HeldBy
<1>4. \A t \in Threads : JobGood(t, IdleJob)
  BY DEF IdleJob, JobGood, JobType, HeldBy
<1>5. \A t \in Threads : HeldGood(t)'
  BY <1>1 DEF HeldGood, IdleJob
<1>6. \A h \in frozen \cup paused \cup tasks : h \in excused'
  BY <1>1 DEF QuiesceInv, AccountedFor, Holds
<1>7. \A h \in frozen' \cup paused' \cup tasks' : AccountedFor(h)'
  BY <1>6 DEF Crash, guestVars, AccountedFor
<1>8. job' \in [Threads -> JobType] /\ \A t \in Threads : JobGood(t, job'[t])
  BY <1>1, <1>4 DEF JobGood
<1>9. StateGood'
  BY <1>1, <1>3 DEF Crash, guestVars, QuiesceInv, StateGood
<1> QED BY <1>5, <1>7, <1>8, <1>9 DEF QuiesceInv

LEMMA InitGood == Init => QuiesceInv
  BY DEF Init, QuiesceInv, StateGood, JobGood, JobType, IdleJob, HeldGood, HeldBy

LEMMA NextKeeps ==
    ASSUME QuiesceInv, GuestsApart, [Next]_vars
    PROVE  QuiesceInv'
<1>1. CASE Next
  BY <1>1, JobNextKeeps, SuspendRunsKeeps, CrashKeeps DEF Next
<1>2. CASE UNCHANGED vars
  BY <1>2 DEF vars, QuiesceInv, StateGood, HeldGood, AccountedFor, Holds
<1> QED BY <1>1, <1>2

-----------------------------------------------------------------------------
(* The theorems *)

LEMMA InvHolds ==
    ASSUME GuestsApart
    PROVE  Spec => []QuiesceInv
<1>1. QuiesceInv /\ [Next]_vars => QuiesceInv'
  BY NextKeeps
<1> QED BY InitGood, <1>1, PTL DEF Spec

\* As long as no two threads snapshot the same guest, a guest is frozen or
\* suspended only while a job holds it and will release it, unless a call
\* about it failed or the process died (_run_snapshot, steps 6 to 9).
THEOREM GuestsReleased ==
    ASSUME GuestsApart
    PROVE  Spec => []ReleasedOrExcused
<1>1. QuiesceInv => ReleasedOrExcused
  BY DEF QuiesceInv, ReleasedOrExcused, AccountedFor
<1> QED BY <1>1, InvHolds, PTL

\* As long as no two threads snapshot the same guest, every guest that a job
\* calls frozen is frozen when the job takes the snapshot.
THEOREM FreezeHolds ==
    ASSUME GuestsApart
    PROVE  Spec => FrozenAtSnapshot
<1>1. QuiesceInv
        => [\A t \in Threads : Created(t) => job[t].frozen \subseteq frozen]_vars
  BY DEF QuiesceInv, HeldGood
<1> QED BY <1>1, InvHolds, PTL DEF FrozenAtSnapshot

\* Every variable of VmQuiesce has its type.
THEOREM QuiesceTypeCorrect ==
    ASSUME GuestsApart
    PROVE  Spec => []TypeOK
<1>1. QuiesceInv => TypeOK
  BY DEF QuiesceInv, StateGood, TypeOK
<1> QED BY <1>1, InvHolds, PTL
=============================================================================
