------------------------------ MODULE UpdateTask ------------------------------
(***************************************************************************)
(* The server's self-update: the background task and its command queue,    *)
(* the waiters of scheduled updates, and the admin dashboard's handlers,   *)
(* all sharing Redis keys, one in-process apply lock, the host's channel   *)
(* image and Watchtower, which kills and replaces the process.             *)
(*                                                                         *)
(* Versions are numbers; a release list is known by the newest version on  *)
(* it, and so is its ETag.  The image of a channel in the registry is its  *)
(* newest release.  Redis answers, but for the one write whose failure the *)
(* code turns into a decision (store_previous_version).                    *)
(***************************************************************************)
EXTENDS Naturals, Sequences, FiniteSets

CONSTANTS
    MaxVersion,   \* bound: releases published
    Last,         \* bound: the clock's last tick
    Horizon,      \* SCHEDULE_RECOVERY_MAX_FUTURE_SECS
    QueueLimit,   \* the command channel's capacity
    MaxRequests,  \* bound: admin requests that change something
    MaxFaults     \* bound: failed pulls, writes and triggers, and crashes

ASSUME UpdateAssumption ==
    {MaxVersion, Last, Horizon, QueueLimit, MaxRequests, MaxFaults} \subseteq Nat

VARIABLES
    newest,     \* the newest release of the channel, and its registry image
    image,      \* what the host's channel tag points at
    running,    \* CARGO_PKG_VERSION of the running process
    swap,       \* the image Watchtower is about to recreate the container from, and
                \* whose trigger it took
    now,
    keys,       \* the update:* keys; 0 is an absent one
    lock,       \* update_apply_lock's holder
    queue,      \* update_tx
    loop,       \* the update task
    waiters,    \* wait_and_apply futures by number
    checker,    \* the dashboard's check: the outcome it has not recorded
    scheduler, canceller, rollback,  \* the dashboard's handlers under way
    requests, faults                 \* bounds used up

world == <<newest, image, running, swap, now>>
handlers == <<checker, scheduler, canceller, rollback>>
bounds == <<requests, faults>>
vars == <<world, keys, lock, queue, loop, waiters, handlers, bounds>>

None == 0
NoSwap == [to |-> None, by |-> "apply"]
Unknown == MaxVersion + 1   \* an outcome that leaves the cached state alone

\* The lock's holders: the task, a future, the rollback handler.
Loop == 0
Waiters == 1 .. MaxRequests + 1
NoOne == MaxRequests + 2
Rollback == MaxRequests + 3

Request == requests < MaxRequests /\ requests' = requests + 1
Fault == faults < MaxFaults /\ faults' = faults + 1

-----------------------------------------------------------------------------
(* Checking for a release: check_for_update, then what its caller records *)

\* The outcome of a fetch, and the ETag it leaves: 304 when the list is the cached
\* one, else the newest release if it is newer than this process, else none.
Fetched ==
    IF keys.etag = newest THEN Unknown
    ELSE IF newest > running THEN newest ELSE None

Fetch(outcome) ==
    /\ outcome \in {Fetched, Unknown}
    /\ IF outcome = Unknown /\ keys.etag # newest
       THEN Fault /\ UNCHANGED keys
       ELSE keys' = [keys EXCEPT !.etag = newest] /\ UNCHANGED faults

Recorded(k, outcome) ==
    IF outcome = Unknown THEN k ELSE [k EXCEPT !.available = outcome]

NoCheck == [pc |-> "idle", found |-> None]

\* The dashboard's button.
CheckFetches ==
    /\ checker.pc = "idle"
    /\ Request
    /\ \E outcome \in 0 .. Unknown : Fetch(outcome) /\ checker' = [pc |-> "records", found |-> outcome]
    /\ UNCHANGED <<world, lock, queue, loop, waiters, scheduler, canceller, rollback>>

CheckRecords ==
    /\ checker.pc = "records"
    /\ keys' = Recorded(keys, checker.found)
    /\ checker' = NoCheck
    /\ UNCHANGED <<world, lock, queue, loop, waiters, scheduler, canceller, rollback, bounds>>

\* The task's own poll: only with auto-update on.
LoopFetches ==
    /\ loop.pc = "receives"
    /\ keys.auto
    /\ \E outcome \in 0 .. Unknown :
          Fetch(outcome) /\ loop' = [pc |-> "records", kind |-> "auto", found |-> outcome]
    /\ UNCHANGED <<world, lock, queue, waiters, handlers, requests>>

LoopRecords ==
    /\ loop.pc = "records"
    /\ keys' = Recorded(keys, loop.found)
    /\ loop' = [loop EXCEPT !.pc = "waits", !.found = None]
    /\ UNCHANGED <<world, lock, queue, waiters, handlers, bounds>>

-----------------------------------------------------------------------------
(* The apply paths: lock, then read, pull, store the rollback target, trigger.
   The task runs one at a time; every waiter is a task of its own. *)

Tasks == {Loop} \cup Waiters
At(t) == IF t = Loop THEN loop.pc ELSE waiters[t].pc

Goes(t, pc) ==
    IF t = Loop
    THEN loop' = [loop EXCEPT !.pc = pc] /\ UNCHANGED waiters
    ELSE waiters' = [waiters EXCEPT ![t].pc = pc] /\ UNCHANGED loop

\* The guard drops and the task is done.
Leaves(t) == lock' = NoOne /\ Goes(t, IF t = Loop THEN "receives" ELSE "gone")

\* A waiter's sleep is over.
WaiterWakes(w) ==
    /\ waiters[w].pc = "sleeps" /\ now >= waiters[w].ts
    /\ Goes(w, "waits")
    /\ UNCHANGED <<world, keys, lock, queue, handlers, bounds>>

Acquires(t) ==
    /\ At(t) = "waits" /\ lock = NoOne
    /\ lock' = t
    /\ Goes(t, "checks")
    /\ UNCHANGED <<world, keys, queue, handlers, bounds>>

\* Faulty: an ApplyNow was let in when it was sent.
MayApplyUnlocked(t) ==
    IF t # Loop THEN keys.scheduled = waiters[t].ts /\ ~keys.locked
    ELSE IF loop.kind = "now" THEN TRUE
    ELSE keys.auto /\ ~keys.locked /\ keys.scheduled = None /\ keys.available # None

\* Faulty: a scheduled update asks for auto-update, too.
MayApplyAutoOnly(t) ==
    /\ keys.auto /\ ~keys.locked
    /\ IF t # Loop THEN keys.scheduled = waiters[t].ts
       ELSE loop.kind = "now" \/ (keys.scheduled = None /\ keys.available # None)

\* decide_should_apply, ApplyNow's and wait_and_apply's re-checks.
MayApply(t) ==
    IF t # Loop THEN keys.scheduled = waiters[t].ts /\ ~keys.locked
    ELSE IF loop.kind = "now" THEN ~keys.locked
    ELSE keys.auto /\ ~keys.locked /\ keys.scheduled = None /\ keys.available # None

Checks(t) ==
    /\ At(t) = "checks"
    /\ IF MayApply(t) THEN Goes(t, "pulls") /\ UNCHANGED lock ELSE Leaves(t)
    /\ UNCHANGED <<world, keys, queue, handlers, bounds>>

\* update:apply_interval_secs has not passed since the release was found.
TooEarly ==
    /\ loop.pc = "pulls" /\ loop.kind = "auto"
    /\ Leaves(Loop)
    /\ UNCHANGED <<world, keys, queue, handlers, bounds>>

\* A failed pull is logged and the apply goes on.
Pulls(t) ==
    /\ At(t) = "pulls"
    /\ \/ image' = newest /\ UNCHANGED faults
       \/ Fault /\ UNCHANGED image
    /\ Goes(t, "stores")
    /\ UNCHANGED <<newest, running, swap, now, keys, lock, queue, handlers, requests>>

\* Faulty: the write is not waited for.
StoresPreviousLate(t) ==
    /\ At(t) = "stores"
    /\ Goes(t, "triggers")
    /\ UNCHANGED <<world, keys, lock, queue, handlers, bounds>>

StoresPrevious(t) ==
    /\ At(t) = "stores"
    /\ \/ /\ keys' = [keys EXCEPT !.previous = running]
          /\ Goes(t, "triggers") /\ UNCHANGED <<lock, faults>>
       \/ /\ Fault /\ UNCHANGED keys
          /\ IF t = Loop THEN Leaves(t) ELSE Goes(t, "clears") /\ UNCHANGED lock
    /\ UNCHANGED <<world, queue, handlers, requests>>

\* Watchtower, one run at a time, takes the trigger and compares the images, or the
\* request fails.
Triggered(ok, by) ==
    IF ok
    THEN /\ swap = NoSwap
         /\ swap' = IF image # running THEN [to |-> image, by |-> by] ELSE NoSwap
         /\ UNCHANGED faults
    ELSE Fault /\ UNCHANGED swap

Triggers(t) ==
    /\ At(t) = "triggers"
    /\ \E ok \in BOOLEAN : Triggered(ok, "apply")
    /\ IF t = Loop THEN Leaves(t) ELSE Goes(t, "clears") /\ UNCHANGED lock
    /\ UNCHANGED <<newest, image, running, now, keys, queue, handlers, requests>>

\* A waiter that had its one shot clears the schedule, whosever it is by now.
Clears(w) ==
    /\ waiters[w].pc = "clears"
    /\ keys' = [keys EXCEPT !.scheduled = None, !.target = None]
    /\ Leaves(w)
    /\ UNCHANGED <<world, queue, handlers, bounds>>

-----------------------------------------------------------------------------
(* Commands *)

Sends(cmd) == Len(queue) < QueueLimit /\ queue' = Append(queue, cmd)

Spawns(ws, ts) ==
    \E w \in Waiters \ {v \in Waiters : ws[v].pc # "gone"} :
       /\ \A v \in 1 .. w - 1 : ws[v].pc # "gone"
       /\ waiters' = [ws EXCEPT ![w] = [pc |-> "sleeps", ts |-> ts]]

Receives(kind) ==
    loop.pc = "receives" /\ queue # <<>> /\ Head(queue).kind = kind /\ queue' = Tail(queue)

ReceivesApplyNow ==
    /\ Receives("apply")
    /\ loop' = [pc |-> "waits", kind |-> "now", found |-> None]
    /\ UNCHANGED <<world, keys, lock, waiters, handlers, bounds>>

ReceivesSchedule ==
    /\ Receives("schedule")
    /\ keys' = [keys EXCEPT !.scheduled = Head(queue).ts]
    /\ Spawns(waiters, Head(queue).ts)
    /\ UNCHANGED <<world, lock, loop, handlers, bounds>>

ReceivesCancel ==
    /\ Receives("cancel")
    /\ keys' = [keys EXCEPT !.scheduled = None, !.target = None]
    /\ UNCHANGED <<world, lock, loop, waiters, handlers, bounds>>

\* The poll interval is not modelled: the next poll may come at any time.
ReceivesSettings ==
    /\ Receives("settings")
    /\ UNCHANGED <<world, keys, lock, loop, waiters, handlers, bounds>>

-----------------------------------------------------------------------------
(* The dashboard *)

ApplyNow ==
    /\ keys.available # None /\ ~keys.locked
    /\ Request
    /\ Sends([kind |-> "apply"])
    /\ UNCHANGED <<world, keys, lock, loop, waiters, handlers, faults>>

\* The keys first, then the command.
ScheduleUpdate(ts) ==
    /\ scheduler = None
    /\ keys.available # None
    /\ Request
    /\ keys' = [keys EXCEPT !.scheduled = ts, !.target = keys.available]
    /\ scheduler' = ts
    /\ UNCHANGED <<world, lock, queue, loop, waiters, checker, canceller, rollback, faults>>

ScheduleSends ==
    /\ scheduler # None
    /\ Sends([kind |-> "schedule", ts |-> scheduler])
    /\ scheduler' = None
    /\ UNCHANGED <<world, keys, lock, loop, waiters, checker, canceller, rollback, bounds>>

\* The command first, then the keys.
CancelUpdate ==
    /\ canceller = "idle"
    /\ Request
    /\ Sends([kind |-> "cancel"])
    /\ canceller' = "clears"
    /\ UNCHANGED <<world, keys, lock, loop, waiters, checker, scheduler, rollback, faults>>

CancelClears ==
    /\ canceller = "clears"
    /\ keys' = [keys EXCEPT !.scheduled = None, !.target = None]
    /\ canceller' = "idle"
    /\ UNCHANGED <<world, lock, queue, loop, waiters, checker, scheduler, rollback, bounds>>

\* Turning auto-update on is what clears the rollback lock.
SaveUpdateSettings(on) ==
    /\ on # keys.auto \/ (on /\ keys.locked)
    /\ Request
    /\ keys' = [keys EXCEPT !.auto = on, !.locked = @ /\ ~on]
    /\ Sends([kind |-> "settings"])
    /\ UNCHANGED <<world, lock, loop, waiters, handlers, faults>>

\* The form's version is checked against the stored one before the lock is taken.
RollbackUpdate ==
    /\ rollback.pc = "idle"
    /\ keys.previous # None
    /\ Request
    /\ rollback' = [pc |-> "waits", target |-> keys.previous]
    /\ UNCHANGED <<world, keys, lock, queue, loop, waiters, checker, scheduler, canceller,
                   faults>>

RollbackGoes(pc) == rollback' = [rollback EXCEPT !.pc = pc]
RollbackEnds == rollback' = [pc |-> "idle", target |-> None]

\* Faulty: the retag does not wait for an apply under way.
RollbackBarges ==
    /\ rollback.pc = "waits"
    /\ lock' = Rollback
    /\ RollbackGoes("retags")
    /\ UNCHANGED <<world, keys, queue, loop, waiters, checker, scheduler, canceller, bounds>>

RollbackAcquires ==
    /\ rollback.pc = "waits" /\ lock = NoOne
    /\ lock' = Rollback
    /\ RollbackGoes("retags")
    /\ UNCHANGED <<world, keys, queue, loop, waiters, checker, scheduler, canceller, bounds>>

RollbackRetags ==
    /\ rollback.pc = "retags"
    /\ \/ image' = rollback.target /\ RollbackGoes("triggers") /\ UNCHANGED <<lock, faults>>
       \/ Fault /\ RollbackEnds /\ lock' = NoOne /\ UNCHANGED image
    /\ UNCHANGED <<newest, running, swap, now, keys, queue, loop, waiters, checker, scheduler,
                   canceller, requests>>

RollbackTriggers ==
    /\ rollback.pc = "triggers"
    /\ \E ok \in BOOLEAN :
          Triggered(ok, "rollback") /\ RollbackGoes(IF ok THEN "commits" ELSE "locks")
    /\ UNCHANGED <<newest, image, running, now, keys, lock, queue, loop, waiters, checker,
                   scheduler, canceller, requests>>

RollbackWrites ==
    /\ rollback.pc \in {"commits", "locks"}
    /\ keys' = [keys EXCEPT !.auto = FALSE, !.locked = TRUE,
                  !.previous = IF rollback.pc = "commits" THEN None ELSE @,
                  !.available = IF rollback.pc = "commits" THEN None ELSE @]
    /\ RollbackGoes("sends")
    /\ UNCHANGED <<world, lock, queue, loop, waiters, checker, scheduler, canceller, bounds>>

\* The lock is held until the task has room for the command.
RollbackSends ==
    /\ rollback.pc = "sends"
    /\ Sends([kind |-> "settings"])
    /\ RollbackEnds
    /\ lock' = NoOne
    /\ UNCHANGED <<world, keys, loop, waiters, checker, scheduler, canceller, bounds>>

-----------------------------------------------------------------------------
(* The world *)

Publish ==
    /\ newest < MaxVersion
    /\ newest' = newest + 1
    /\ UNCHANGED <<image, running, swap, now, keys, lock, queue, loop, waiters, handlers,
                   bounds>>

Tick ==
    /\ now < Last
    /\ now' = now + 1
    /\ UNCHANGED <<newest, image, running, swap, keys, lock, queue, loop, waiters, handlers,
                   bounds>>

Receiving == [pc |-> "receives", kind |-> "now", found |-> None]
NoWaiters == [w \in Waiters |-> [pc |-> "gone", ts |-> None]]

\* classify_recovered_schedule: AlreadyPassed and Corrupted are cleared.
Usable(ts) == ts > now /\ ts <= now + Horizon

\* is_stale_available_version: a notice of what this process is already, or older.
NoticeAfter(notice, version) == IF notice <= version THEN None ELSE notice

\* The process is replaced: what was under way in it is gone, and the new one clears
\* a notice of what it already is and takes up a schedule still ahead.
Restarts(version) ==
    /\ running' = version
    /\ keys' = [keys EXCEPT
          !.available = NoticeAfter(@, version),
          !.scheduled = IF Usable(@) THEN @ ELSE None,
          !.target = IF keys.scheduled = None \/ Usable(keys.scheduled) THEN @ ELSE None]
    /\ IF Usable(keys.scheduled)
       THEN Spawns(NoWaiters, keys.scheduled)
       ELSE waiters' = NoWaiters
    /\ lock' = NoOne /\ queue' = <<>> /\ loop' = Receiving
    /\ checker' = NoCheck /\ scheduler' = None /\ canceller' = "idle" /\ RollbackEnds

\* Watchtower stops the container and recreates it.
Swap ==
    /\ swap # NoSwap
    /\ swap' = NoSwap
    /\ Restarts(swap.to)
    /\ UNCHANGED <<newest, image, now, bounds>>

\* A crash: the same container starts again.
Crash ==
    /\ Fault
    /\ Restarts(running)
    /\ UNCHANGED <<newest, image, swap, now, requests>>

-----------------------------------------------------------------------------
(* The specification *)

Init ==
    /\ newest = 1 /\ image = 1 /\ running = 1 /\ swap = NoSwap /\ now = 0
    /\ keys = [auto |-> FALSE, locked |-> FALSE, available |-> None, previous |-> None,
               scheduled |-> None, target |-> None, etag |-> None]
    /\ lock = NoOne /\ queue = <<>> /\ loop = Receiving /\ waiters = NoWaiters
    /\ checker = NoCheck /\ scheduler = None /\ canceller = "idle"
    /\ rollback = [pc |-> "idle", target |-> None]
    /\ requests = 0 /\ faults = 0

ApplyNext(t) ==
    Acquires(t) \/ Checks(t) \/ Pulls(t) \/ StoresPrevious(t) \/ Triggers(t)

TaskNext ==
    \/ LoopFetches \/ LoopRecords \/ TooEarly
    \/ ReceivesApplyNow \/ ReceivesSchedule \/ ReceivesCancel \/ ReceivesSettings
    \/ \E t \in Tasks : ApplyNext(t)
    \/ \E w \in Waiters : WaiterWakes(w) \/ Clears(w)

AdminNext ==
    \/ CheckFetches \/ CheckRecords
    \/ ApplyNow
    \/ \E ts \in 1 .. Last : ScheduleUpdate(ts)
    \/ ScheduleSends \/ CancelUpdate \/ CancelClears
    \/ \E on \in BOOLEAN : SaveUpdateSettings(on)
    \/ RollbackUpdate \/ RollbackAcquires \/ RollbackRetags \/ RollbackTriggers
    \/ RollbackWrites \/ RollbackSends

WorldNext == Publish \/ Tick \/ Swap \/ Crash

Next == TaskNext \/ AdminNext \/ WorldNext

Spec == Init /\ [][Next]_vars

-----------------------------------------------------------------------------
(* Properties *)

ApplyPcs == {"waits", "checks", "pulls", "stores", "triggers"}

\* The mutex serialises every path that touches the channel image: a task past its
\* acquisition is the holder.
ApplyPathsExclude ==
    /\ \A t \in Tasks : At(t) \in {"checks", "pulls", "stores", "triggers", "clears"}
                        <=> lock = t
    /\ rollback.pc \notin {"idle", "waits"} <=> lock = Rollback

\* Lock, then read: no apply that is past its check runs over a rollback lock,
\* however long it had been queued when the rollback set it.
RollbackWins ==
    \A t \in Tasks : At(t) \in {"pulls", "stores", "triggers"} => ~keys.locked

\* The rollback target is stored before the swap that would lose it: whenever
\* Watchtower strikes for an apply, the keys name the version that is running.
SwapKeepsTarget == swap.to # None /\ swap.by = "apply" => keys.previous = running

\* A pending schedule is somebody's: a handler about to send it, a command in the
\* queue or a future that will look for it.
Owned ==
    \/ scheduler = keys.scheduled
    \/ \E i \in DOMAIN queue : queue[i].kind = "schedule" /\ queue[i].ts = keys.scheduled
    \/ \E w \in Waiters : waiters[w].pc \in ApplyPcs \cup {"sleeps", "clears"}
                          /\ waiters[w].ts = keys.scheduled

ScheduleOwned == keys.scheduled # None => Owned

\* A schedule nobody acts on blocks every automatic update after it (task.rs:492).  It
\* is left alone only at a waiter's re-check under the rollback lock, which returns
\* without clearing it: no cancel, second schedule, restart or lost race does that.
ScheduleLostToRollback == [][ScheduleOwned /\ ~ScheduleOwned' => keys.locked]_vars
=============================================================================
