----------------------------- MODULE PlanScheduler -----------------------------
(***************************************************************************)
(* When a protection plan runs (api/schedules.py).  A daemon thread sleeps *)
(* a minute, looks at every enabled plan, and starts a thread for each one *)
(* that is due in the minute the clock shows.  A run takes the datastores  *)
(* of its plan in turn and writes last_run_at when it has ended.           *)
(*                                                                         *)
(* Time is counted in ticks.  What a run does to a datastore is the module *)
(* SnapshotCatalog.                                                        *)
(* A definition in front of another one and named after it is a slip the   *)
(* code could have made; no action uses it.                                *)
(***************************************************************************)
EXTENDS Integers

CONSTANTS
    Plans,    \* netapp_snapshot_schedules
    Crons,    \* the minutes in which a cron expression is due: sets of minutes
    Stores,   \* how many datastores a plan has
    Runners,  \* runs that can be at work at the same time
    Minute,   \* ticks of a minute
    Work,     \* ticks that a look at all plans takes, at most
    MaxTime,  \* bound on time
    MaxEdits, \* bound on changes of plans
    MaxMisses \* bound on failed looks and crashes

ASSUME SchedulerAssumption ==
    /\ Stores \in Nat \ {0} /\ Minute \in Nat \ {0} /\ Work \in Nat /\ 2 * Work <= Minute
    /\ MaxTime \in Nat /\ MaxEdits \in Nat /\ MaxMisses \in Nat

VARIABLES
    now,    \* the clock
    plan,   \* [Plans -> the row, NoPlan]
    loop,   \* the daemon thread
    run,    \* [Runners -> the run, NoRun]
    begun,  \* history: [Plans -> the last minute the loop started it, and how often]
    owed,   \* history: [Plans -> when the loop last judged the plan by its present row,
            \* or gave up, or the row became this one: since then it owes a judgement]
    edits, misses

schedVars == <<now, plan, loop, run, begun, owed, edits, misses>>

Never == -1
MinuteOf(t) == t \div Minute
NoPlan == [is |-> FALSE, cron |-> {}, enabled |-> FALSE, last |-> Never]
NoRun == [plan |-> {}, left |-> 0]
Asleep(t) == [pc |-> "wait", until |-> t + Minute, todo |-> {}, rows |-> <<>>]

SchedInit ==
    /\ now = 0
    /\ plan = [p \in Plans |-> NoPlan]
    /\ loop = Asleep(0)
    /\ run = [t \in Runners |-> NoRun]
    /\ begun = [p \in Plans |-> [minute |-> Never, times |-> 0]]
    /\ owed = [p \in Plans |-> 0]
    /\ edits = 0 /\ misses = 0

Edit == edits < MaxEdits /\ edits' = edits + 1
Fault == misses < MaxMisses /\ misses' = misses + 1

\* The sleep ends in time, and a look takes at most Work ticks.
Tick ==
    /\ now < MaxTime
    /\ now < IF loop.pc = "wait" THEN loop.until ELSE loop.until + Work
    /\ now' = now + 1
    /\ UNCHANGED <<plan, loop, run, begun, owed, edits, misses>>

-----------------------------------------------------------------------------
(* Plans *)

_add_schedule(p, c) ==
    /\ Edit /\ plan[p] = NoPlan /\ begun[p].minute = Never
    /\ plan' = [plan EXCEPT ![p] =
                   [NoPlan EXCEPT !.is = TRUE, !.cron = c, !.enabled = TRUE]]
    /\ owed' = [owed EXCEPT ![p] = now]
    /\ UNCHANGED <<now, loop, run, begun, misses>>

_update_schedule(p, c, on) ==
    /\ Edit /\ plan[p].is
    /\ plan' = [plan EXCEPT ![p].cron = c, ![p].enabled = on]
    /\ owed' = [owed EXCEPT ![p] = now]
    /\ UNCHANGED <<now, loop, run, begun, misses>>

\* Its runs go on.  A plan with the same name gets a new id.
_delete_schedule(p) ==
    /\ Edit /\ plan[p].is
    /\ plan' = [plan EXCEPT ![p] = NoPlan]
    /\ UNCHANGED <<now, loop, run, begun, owed, misses>>

-----------------------------------------------------------------------------
(* Runs *)

Starts(t, p) ==
    /\ run[t] = NoRun
    /\ run' = [run EXCEPT ![t] = [plan |-> {p}, left |-> Stores]]

\* A plan that is off, or running already, can be run as well.
_run_schedule_now(t, p) ==
    /\ Edit /\ plan[p].is
    /\ Starts(t, p)
    /\ UNCHANGED <<now, plan, loop, begun, owed, misses>>

_execute_single_ds_always(t) ==
    /\ run[t] # NoRun
    /\ run' = [run EXCEPT ![t].left = @ - 1]
    /\ UNCHANGED <<now, plan, loop, begun, owed, edits, misses>>
_execute_single_ds(t) ==
    /\ run[t].left > 0
    /\ run' = [run EXCEPT ![t].left = @ - 1]
    /\ UNCHANGED <<now, plan, loop, begun, owed, edits, misses>>

\* The end of _execute_schedule: a row that is no longer there is not updated.
_execute_schedule(t) ==
    \E p \in run[t].plan :
        /\ run[t].left = 0
        /\ plan' = IF plan[p].is THEN [plan EXCEPT ![p].last = now] ELSE plan
        /\ run' = [run EXCEPT ![t] = NoRun]
        /\ UNCHANGED <<now, loop, begun, owed, edits, misses>>

-----------------------------------------------------------------------------
(* The loop *)

\* By the row as it was read, and the clock as it is.
_cron_is_due(r) ==
    /\ MinuteOf(now) \in r.cron
    /\ r.last # Never => now - r.last >= Minute

Enabled == {p \in Plans : plan[p].is /\ plan[p].enabled}

_scheduler_loop ==
    /\ loop.pc = "wait" /\ now = loop.until
    /\ loop' = [loop EXCEPT !.pc = "look", !.todo = Enabled,
                            !.rows = [p \in Enabled |-> plan[p]]]
    /\ UNCHANGED <<now, plan, run, begun, owed, edits, misses>>

\* A row that was changed after the look began is judged as it was.
Looked(p) ==
    /\ loop' = [loop EXCEPT !.todo = @ \ {p}]
    /\ owed' = IF loop.rows[p].cron = plan[p].cron THEN [owed EXCEPT ![p] = now] ELSE owed

Begin(t, p) ==
    /\ p \in loop.todo /\ _cron_is_due(loop.rows[p])
    /\ Starts(t, p) /\ Looked(p)
    /\ begun' = [begun EXCEPT ![p] =
         [minute |-> MinuteOf(now),
          times |-> IF @.minute = MinuteOf(now) THEN @.times + 1 ELSE 1]]
    /\ UNCHANGED <<now, plan, edits, misses>>

PassOver(p) ==
    /\ p \in loop.todo /\ ~_cron_is_due(loop.rows[p])
    /\ Looked(p)
    /\ UNCHANGED <<now, plan, run, begun, edits, misses>>

NextSleepTwice == Asleep(now + Minute)
NextSleep == Asleep(now)

Sleep ==
    /\ loop.pc = "look" /\ loop.todo = {}
    /\ loop' = NextSleep
    /\ UNCHANGED <<now, plan, run, begun, owed, edits, misses>>

\* A query raises: the plans that are left wait for the next look.
LookFails ==
    /\ loop.pc = "look" /\ Fault
    /\ loop' = NextSleep
    /\ owed' = [p \in Plans |-> IF p \in loop.todo THEN now ELSE owed[p]]
    /\ UNCHANGED <<now, plan, run, begun, edits>>

RestartAtOnce == [Asleep(now) EXCEPT !.until = now]
Restart == Asleep(now)

\* The process dies with all its threads, and starts again.
SchedCrash ==
    /\ Fault
    /\ loop' = Restart
    /\ owed' = [p \in Plans |-> now]
    /\ run' = [t \in Runners |-> NoRun]
    /\ UNCHANGED <<now, plan, begun, edits>>

-----------------------------------------------------------------------------
SchedNext ==
    \/ Tick
    \/ \E p \in Plans :
         \/ \E c \in Crons :
              _add_schedule(p, c) \/ \E on \in BOOLEAN : _update_schedule(p, c, on)
         \/ _delete_schedule(p) \/ PassOver(p)
         \/ \E t \in Runners : _run_schedule_now(t, p) \/ Begin(t, p)
    \/ \E t \in Runners : _execute_single_ds(t) \/ _execute_schedule(t)
    \/ _scheduler_loop \/ Sleep \/ LookFails \/ SchedCrash

SchedSpec == SchedInit /\ [][SchedNext]_schedVars

-----------------------------------------------------------------------------
(* Properties *)

\* The types of all variables.
SchedTypeOK ==
    /\ now \in 0 .. MaxTime
    /\ plan \in [Plans -> [is : BOOLEAN, cron : Crons \union {{}}, enabled : BOOLEAN,
                           last : -1 .. MaxTime]]
    /\ loop.pc \in {"wait", "look"} /\ loop.todo \subseteq DOMAIN loop.rows
    /\ loop.until \in 0 .. MaxTime + Minute
    /\ run \in [Runners -> [plan : SUBSET Plans, left : 0 .. Stores]]
    /\ owed \in [Plans -> 0 .. MaxTime]

\* The loop starts a plan at most once in a minute, though last_run_at tells nothing of a
\* run that is still at work, or was at work when the process died.
OncePerMinute == \A p \in Plans : begun[p].times <= 1

\* Every enabled plan is judged by its present row in one of two minutes in a row, whatever
\* its look and its neighbours take.  The count starts anew when the row changes, when the
\* process starts, and for the plans that a failed look leaves: those a look that fails
\* before it comes to them misses once more.
JudgedEverySecondMinute ==
    \A p \in Enabled : MinuteOf(now) - MinuteOf(owed[p]) <= 2
=============================================================================
