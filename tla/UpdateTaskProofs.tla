----------------------------- MODULE UpdateTaskProofs -----------------------------
(***************************************************************************)
(* UpdateTask, proved for any number of releases, ticks, queued commands,  *)
(* requests and faults: the apply paths and the rollback exclude each      *)
(* other, a rollback stops every apply not yet past its check, and an      *)
(* apply's swap keeps the version it replaces.                             *)
(***************************************************************************)
EXTENDS UpdateTask, TLAPS

-----------------------------------------------------------------------------
(* Types *)

Release == Nat \ {0}
LoopPcs == {"receives", "records"} \cup ApplyPcs
WaiterPcs == {"gone", "sleeps", "clears"} \cup ApplyPcs
RollbackPcs == {"idle", "waits", "retags", "triggers", "commits", "locks", "sends"}
Commands == [kind : {"apply", "cancel", "settings"}] \cup [kind : {"schedule"}, ts : Nat]
Keys == [auto : BOOLEAN, locked : BOOLEAN, available : Nat, previous : Nat,
         scheduled : Nat, target : Nat, etag : Nat]

WorldOK ==
    /\ newest \in Release /\ image \in Release /\ running \in Release /\ now \in Nat
    /\ swap \in {NoSwap} \cup [to : Release, by : {"apply", "rollback"}]

TasksOK ==
    /\ loop \in [pc : LoopPcs, kind : {"auto", "now"}, found : Nat]
    /\ waiters \in [Waiters -> [pc : WaiterPcs, ts : Nat]]

HandlersOK ==
    /\ checker \in [pc : {"idle", "records"}, found : Nat]
    /\ scheduler \in Nat /\ canceller \in {"idle", "clears"}
    /\ rollback \in [pc : RollbackPcs, target : Nat]
    /\ rollback.pc \in {"waits", "retags"} => rollback.target \in Release

TypeOK ==
    /\ WorldOK /\ TasksOK /\ HandlersOK
    /\ keys \in Keys
    /\ lock \in Tasks \cup {NoOne, Rollback}
    /\ queue \in Seq(Commands)

\* The lock's holders are different.
LEMMA Holders ==
    /\ Unknown \in Nat /\ Loop \in Tasks /\ Waiters \subseteq Tasks
    /\ Loop \notin Waiters /\ NoOne \notin Tasks /\ Rollback \notin Tasks /\ NoOne # Rollback
BY UpdateAssumption DEF Unknown, Loop, Waiters, Tasks, NoOne, Rollback

LEMMA TypeInit == Init => TypeOK
<1> SUFFICES ASSUME Init PROVE TypeOK
  OBVIOUS
<1>1. WorldOK
  BY DEF Init, WorldOK, Release
<1>2. loop \in [pc : LoopPcs, kind : {"auto", "now"}, found : Nat]
  BY DEF Init, Receiving, LoopPcs, None
<1>3. waiters \in [Waiters -> [pc : WaiterPcs, ts : Nat]]
  BY DEF Init, NoWaiters, WaiterPcs, None
<1>4. HandlersOK
  BY DEF Init, HandlersOK, NoCheck, None, RollbackPcs
<1>5. keys \in Keys
  BY DEF Init, Keys, None
<1>6. queue \in Seq(Commands) /\ lock = NoOne
  BY DEF Init
<1> QED BY <1>1, <1>2, <1>3, <1>4, <1>5, <1>6 DEF TypeOK, TasksOK

\* Task t is at pc, and the others where they were.
Moves(t, pc) ==
    /\ TasksOK'
    /\ At(t)' = pc
    /\ \A u \in Tasks \ {t} : At(u)' = At(u)

\* No waiter forgets what it waits for.
KeepsTs == \A w \in Waiters : waiters'[w].ts = waiters[w].ts

LEMMA GoesMoves ==
    ASSUME TasksOK, NEW t \in Tasks, NEW pc, Goes(t, pc),
           pc \in (IF t = Loop THEN LoopPcs ELSE WaiterPcs)
    PROVE  Moves(t, pc) /\ KeepsTs /\ (t = Loop => UNCHANGED waiters) /\ (t # Loop => UNCHANGED loop)
<1>1. CASE t = Loop
  <2>1. loop' = [loop EXCEPT !.pc = pc] /\ UNCHANGED waiters /\ pc \in LoopPcs
    BY <1>1 DEF Goes
  <2>2. loop' \in [pc : LoopPcs, kind : {"auto", "now"}, found : Nat] /\ loop'.pc = pc
    BY <2>1 DEF TasksOK
  <2> QED BY <1>1, <2>1, <2>2 DEF Moves, KeepsTs, TasksOK, At
<1>2. CASE t # Loop
  <2>1. t \in Waiters /\ pc \in WaiterPcs /\ UNCHANGED loop
        /\ waiters' = [waiters EXCEPT ![t].pc = pc]
    BY <1>2 DEF Goes, Tasks
  <2>2. /\ waiters' \in [Waiters -> [pc : WaiterPcs, ts : Nat]]
        /\ waiters'[t].pc = pc /\ waiters'[t].ts = waiters[t].ts
        /\ \A u \in Waiters \ {t} : waiters'[u] = waiters[u]
    BY <2>1 DEF TasksOK
  <2> QED BY <1>2, <2>1, <2>2 DEF Moves, KeepsTs, TasksOK, At, Tasks
<1> QED BY <1>1, <1>2

Away(t) == IF t = Loop THEN "receives" ELSE "gone"

LEMMA LeavesMoves ==
    ASSUME TasksOK, NEW t \in Tasks, Leaves(t)
    PROVE  Moves(t, Away(t)) /\ lock' = NoOne /\ KeepsTs /\ (t = Loop => UNCHANGED waiters)
BY GoesMoves DEF Leaves, Away, LoopPcs, WaiterPcs

\* Where a task may be told from where its kind goes.
LEMMA AtPcs == TasksOK => \A t \in Tasks : At(t) \in (IF t = Loop THEN LoopPcs ELSE WaiterPcs)
BY DEF TasksOK, At, Tasks

LEMMA SendsType ==
    ASSUME queue \in Seq(Commands), NEW cmd \in Commands, Sends(cmd)
    PROVE  queue' \in Seq(Commands)
BY DEF Sends

LEMMA Cmds == /\ [kind |-> "apply"] \in Commands /\ [kind |-> "cancel"] \in Commands
              /\ [kind |-> "settings"] \in Commands
              /\ \A t \in Nat : [kind |-> "schedule", ts |-> t] \in Commands
BY DEF Commands

LEMMA ReceivesType ==
    ASSUME queue \in Seq(Commands), NEW kind, Receives(kind)
    PROVE  /\ queue' \in Seq(Commands) /\ Head(queue) \in Commands
           /\ kind = "schedule" => Head(queue).ts \in Nat
<1>1. queue # <<>> /\ queue' = Tail(queue) /\ Head(queue).kind = kind
  BY DEF Receives
<1>2. Head(queue) \in Commands /\ queue' \in Seq(Commands)
  BY <1>1
<1> QED BY <1>1, <1>2 DEF Commands

LEMMA FetchType ==
    ASSUME TypeOK, NEW outcome, Fetch(outcome)
    PROVE  keys' \in Keys
<1>1. newest \in Nat
  BY DEF TypeOK, WorldOK, Release
<1>2. [keys EXCEPT !.etag = newest] \in Keys
  BY <1>1 DEF TypeOK, Keys
<1> QED BY <1>2 DEF Fetch, TypeOK

LEMMA RecordedType == ASSUME keys \in Keys, NEW outcome \in Nat PROVE Recorded(keys, outcome) \in Keys
BY DEF Recorded, Keys

WaiterTable == [Waiters -> [pc : WaiterPcs, ts : Nat]]

LEMMA SpawnsType ==
    ASSUME NEW ws \in WaiterTable, NEW ts \in Nat, Spawns(ws, ts)
    PROVE  /\ waiters' \in WaiterTable
           /\ \E w \in Waiters : /\ ws[w].pc = "gone"
                                 /\ waiters'[w].pc = "sleeps" /\ waiters'[w].ts = ts
                                 /\ \A v \in Waiters \ {w} : waiters'[v] = ws[v]
<1>1. PICK w \in Waiters : /\ ws[w].pc = "gone"
                           /\ waiters' = [ws EXCEPT ![w] = [pc |-> "sleeps", ts |-> ts]]
  BY DEF Spawns
<1>2. [pc |-> "sleeps", ts |-> ts] \in [pc : WaiterPcs, ts : Nat]
  BY DEF WaiterPcs
<1> QED BY <1>1, <1>2 DEF WaiterTable

\* What a new process starts with.
LEMMA RestartsType ==
    ASSUME TypeOK, NEW version \in Release, Restarts(version)
    PROVE  /\ TasksOK' /\ HandlersOK' /\ keys' \in Keys /\ queue' = <<>> /\ lock' = NoOne
           /\ running' = version /\ loop' = Receiving
           /\ rollback'.pc = "idle"
           /\ keys'.previous = keys.previous /\ keys'.locked = keys.locked
           /\ \A w \in Waiters : waiters'[w].pc \in {"gone", "sleeps"}
<1>1. keys.scheduled \in Nat /\ keys.target \in Nat /\ keys.available \in Nat /\ None \in Nat
  BY DEF TypeOK, Keys, None
<1>2. PICK av \in Nat, sc \in Nat, tg \in Nat :
         keys' = [keys EXCEPT !.available = av, !.scheduled = sc, !.target = tg]
  <2>1. keys' = [keys EXCEPT
          !.available = NoticeAfter(keys.available, version),
          !.scheduled = IF Usable(keys.scheduled) THEN keys.scheduled ELSE None,
          !.target = IF keys.scheduled = None \/ Usable(keys.scheduled) THEN keys.target ELSE None]
    BY DEF Restarts
  <2>2. /\ NoticeAfter(keys.available, version) \in Nat
        /\ (IF Usable(keys.scheduled) THEN keys.scheduled ELSE None) \in Nat
        /\ (IF keys.scheduled = None \/ Usable(keys.scheduled) THEN keys.target ELSE None) \in Nat
    BY <1>1 DEF NoticeAfter
  <2> QED BY <2>1, <2>2
<1>3. keys' \in Keys /\ keys'.previous = keys.previous /\ keys'.locked = keys.locked
  BY <1>2 DEF TypeOK, Keys
<1>4. NoWaiters \in WaiterTable /\ \A w \in Waiters : NoWaiters[w].pc = "gone"
  BY DEF NoWaiters, WaiterTable, WaiterPcs, None
<1>5. waiters' \in WaiterTable /\ \A w \in Waiters : waiters'[w].pc \in {"gone", "sleeps"}
  <2>1. waiters' = NoWaiters \/ Spawns(NoWaiters, keys.scheduled)
    BY DEF Restarts
  <2> QED BY <1>1, <1>4, <2>1, SpawnsType
<1>6. loop' = Receiving /\ Receiving \in [pc : LoopPcs, kind : {"auto", "now"}, found : Nat]
  BY DEF Restarts, Receiving, LoopPcs, None
<1>7. HandlersOK' /\ rollback'.pc = "idle"
  BY DEF Restarts, HandlersOK, NoCheck, RollbackEnds, RollbackPcs, None
<1>8. queue' = <<>> /\ lock' = NoOne /\ running' = version
  BY DEF Restarts
<1> QED BY <1>3, <1>5, <1>6, <1>7, <1>8 DEF TasksOK, WaiterTable

-----------------------------------------------------------------------------
(* Every step keeps the types. *)

LEMMA TypeChecks ==
    ASSUME TypeOK, CheckFetches \/ CheckRecords \/ LoopFetches \/ LoopRecords
    PROVE  TypeOK'
<1>0. \A o \in 0 .. Unknown : o \in Nat
  BY Holders
<1>1. CASE CheckFetches
  <2>1. PICK o \in 0 .. Unknown : Fetch(o) /\ checker' = [pc |-> "records", found |-> o]
    BY <1>1 DEF CheckFetches
  <2>2. keys' \in Keys /\ HandlersOK'
    BY <1>0, <1>1, <2>1, FetchType DEF CheckFetches, TypeOK, HandlersOK
  <2> QED BY <1>1, <2>2 DEF CheckFetches, TypeOK, WorldOK, TasksOK, world
<1>2. CASE CheckRecords
  <2>1. keys' \in Keys /\ HandlersOK'
    BY <1>2, RecordedType DEF CheckRecords, TypeOK, HandlersOK, NoCheck, None
  <2> QED BY <1>2, <2>1 DEF CheckRecords, TypeOK, WorldOK, TasksOK, world
<1>3. CASE LoopFetches
  <2>1. PICK o \in 0 .. Unknown : Fetch(o) /\ loop' = [pc |-> "records", kind |-> "auto", found |-> o]
    BY <1>3 DEF LoopFetches
  <2>2. keys' \in Keys /\ TasksOK'
    BY <1>0, <1>3, <2>1, FetchType DEF LoopFetches, TypeOK, TasksOK, LoopPcs
  <2> QED BY <1>3, <2>2 DEF LoopFetches, TypeOK, WorldOK, HandlersOK, world, handlers
<1>4. CASE LoopRecords
  <2>1. keys' \in Keys
    BY <1>4, RecordedType DEF LoopRecords, TypeOK, TasksOK
  <2>2. TasksOK'
    BY <1>4 DEF LoopRecords, TypeOK, TasksOK, LoopPcs, ApplyPcs, None
  <2> QED BY <1>4, <2>1, <2>2 DEF LoopRecords, TypeOK, WorldOK, HandlersOK, world, handlers
<1> QED BY <1>1, <1>2, <1>3, <1>4

LEMMA TypeApply ==
    ASSUME TypeOK, NEW t \in Tasks,
           ApplyNext(t) \/ TooEarly \/ (t \in Waiters /\ (WaiterWakes(t) \/ Clears(t)))
    PROVE  TypeOK'
<1>0. ApplyPcs \subseteq (LoopPcs \cap WaiterPcs) /\ TasksOK
  BY DEF LoopPcs, WaiterPcs, TypeOK
<1>1. CASE t \in Waiters /\ WaiterWakes(t)
  <2>1. TasksOK'
    BY <1>0, <1>1, Holders, GoesMoves DEF WaiterWakes, Moves, ApplyPcs
  <2> QED BY <1>1, <2>1 DEF WaiterWakes, TypeOK, WorldOK, HandlersOK, world, handlers
<1>2. CASE Acquires(t)
  <2>1. TasksOK'
    BY <1>0, <1>2, GoesMoves DEF Acquires, Moves, ApplyPcs
  <2> QED BY <1>2, <2>1 DEF Acquires, TypeOK, WorldOK, HandlersOK, world, handlers
<1>3. CASE Checks(t)
  <2>1. TasksOK' /\ lock' \in Tasks \cup {NoOne, Rollback}
    BY <1>0, <1>3, GoesMoves, LeavesMoves DEF Checks, Moves, ApplyPcs, TypeOK
  <2> QED BY <1>3, <2>1 DEF Checks, TypeOK, WorldOK, HandlersOK, world, handlers
<1>4. CASE TooEarly
  <2>1. TasksOK' /\ lock' = NoOne
    BY <1>0, <1>4, Holders, LeavesMoves DEF TooEarly, Moves
  <2> QED BY <1>4, <2>1 DEF TooEarly, TypeOK, WorldOK, HandlersOK, world, handlers
<1>5. CASE Pulls(t)
  <2>1. TasksOK'
    BY <1>0, <1>5, GoesMoves DEF Pulls, Moves, ApplyPcs
  <2>2. WorldOK'
    BY <1>5 DEF Pulls, TypeOK, WorldOK
  <2> QED BY <1>5, <2>1, <2>2 DEF Pulls, TypeOK, HandlersOK, handlers
<1>6. CASE StoresPrevious(t)
  <2>1. TasksOK' /\ lock' \in Tasks \cup {NoOne, Rollback}
    <3>1. Goes(t, "triggers") => Moves(t, "triggers")
      BY <1>0, GoesMoves DEF ApplyPcs
    <3>2. t # Loop /\ Goes(t, "clears") => Moves(t, "clears")
      BY <1>0, GoesMoves DEF WaiterPcs
    <3>3. Leaves(t) => TasksOK' /\ lock' = NoOne
      BY <1>0, LeavesMoves DEF Moves
    <3> QED BY <1>6, <3>1, <3>2, <3>3 DEF StoresPrevious, Moves, TypeOK
  <2>2. keys' \in Keys
    <3>1. [keys EXCEPT !.previous = running] \in Keys
      BY DEF TypeOK, Keys, WorldOK, Release
    <3> QED BY <1>6, <3>1 DEF StoresPrevious, TypeOK
  <2> QED BY <1>6, <2>1, <2>2 DEF StoresPrevious, TypeOK, WorldOK, HandlersOK, world, handlers
<1>7. CASE Triggers(t)
  <2>1. TasksOK' /\ lock' \in Tasks \cup {NoOne, Rollback}
    <3>1. t # Loop /\ Goes(t, "clears") => Moves(t, "clears")
      BY <1>0, GoesMoves DEF WaiterPcs
    <3>2. Leaves(t) => TasksOK' /\ lock' = NoOne
      BY <1>0, LeavesMoves DEF Moves
    <3> QED BY <1>7, <3>1, <3>2 DEF Triggers, Moves, TypeOK
  <2>2. WorldOK'
    BY <1>7 DEF Triggers, Triggered, TypeOK, WorldOK
  <2> QED BY <1>7, <2>1, <2>2 DEF Triggers, TypeOK, HandlersOK, handlers
<1>8. CASE t \in Waiters /\ Clears(t)
  <2>1. TasksOK' /\ lock' = NoOne
    BY <1>0, <1>8, LeavesMoves DEF Clears, Moves
  <2>2. keys' \in Keys
    BY <1>8 DEF Clears, TypeOK, Keys, None
  <2> QED BY <1>8, <2>1, <2>2 DEF Clears, TypeOK, WorldOK, HandlersOK, world, handlers
<1> QED BY <1>1, <1>2, <1>3, <1>4, <1>5, <1>6, <1>7, <1>8 DEF ApplyNext

LEMMA TypeReceives ==
    ASSUME TypeOK, ReceivesApplyNow \/ ReceivesSchedule \/ ReceivesCancel \/ ReceivesSettings
    PROVE  TypeOK'
<1>0. queue \in Seq(Commands)
  BY DEF TypeOK
<1>1. CASE ReceivesApplyNow
  <2>1. TasksOK'
    BY <1>1 DEF ReceivesApplyNow, TypeOK, TasksOK, LoopPcs, ApplyPcs, None
  <2> QED BY <1>0, <1>1, <2>1, ReceivesType
          DEF ReceivesApplyNow, TypeOK, WorldOK, HandlersOK, world, handlers
<1>2. CASE ReceivesSchedule
  <2>1. queue' \in Seq(Commands) /\ Head(queue).ts \in Nat
    BY <1>0, <1>2, ReceivesType DEF ReceivesSchedule
  <2>2. waiters' \in WaiterTable
    BY <1>2, <2>1, SpawnsType DEF ReceivesSchedule, TypeOK, TasksOK, WaiterTable
  <2>3. keys' \in Keys
    BY <1>2, <2>1 DEF ReceivesSchedule, TypeOK, Keys
  <2> QED BY <1>2, <2>1, <2>2, <2>3
          DEF ReceivesSchedule, TypeOK, TasksOK, WorldOK, HandlersOK, world, handlers, WaiterTable
<1>3. CASE ReceivesCancel
  <2>1. keys' \in Keys
    BY <1>3 DEF ReceivesCancel, TypeOK, Keys, None
  <2> QED BY <1>0, <1>3, <2>1, ReceivesType
          DEF ReceivesCancel, TypeOK, TasksOK, WorldOK, HandlersOK, world, handlers
<1>4. CASE ReceivesSettings
  BY <1>0, <1>4, ReceivesType DEF ReceivesSettings, TypeOK, TasksOK, WorldOK, HandlersOK, world, handlers
<1> QED BY <1>1, <1>2, <1>3, <1>4

LEMMA TypeAdmin ==
    ASSUME TypeOK,
           \/ ApplyNow \/ (\E ts \in 1 .. Last : ScheduleUpdate(ts))
           \/ ScheduleSends \/ CancelUpdate \/ CancelClears
           \/ \E on \in BOOLEAN : SaveUpdateSettings(on)
    PROVE  TypeOK'
<1>0. queue \in Seq(Commands)
  BY DEF TypeOK
<1>1. CASE ApplyNow
  BY <1>0, <1>1, SendsType, Cmds DEF ApplyNow, TypeOK, TasksOK, WorldOK, HandlersOK, world, handlers
<1>2. ASSUME NEW ts \in 1 .. Last, ScheduleUpdate(ts) PROVE TypeOK'
  <2>0. ts \in Nat
    BY UpdateAssumption
  <2>1. [keys EXCEPT !.scheduled = ts, !.target = keys.available] \in Keys
    BY <2>0 DEF TypeOK, Keys
  <2>2. keys' \in Keys /\ HandlersOK'
    BY <1>2, <2>0, <2>1 DEF ScheduleUpdate, TypeOK, HandlersOK
  <2> QED BY <1>2, <2>2 DEF ScheduleUpdate, TypeOK, TasksOK, WorldOK, world
<1>3. CASE ScheduleSends
  <2>1. queue' \in Seq(Commands)
    BY <1>0, <1>3, SendsType, Cmds DEF ScheduleSends, TypeOK, HandlersOK
  <2>2. HandlersOK'
    BY <1>3 DEF ScheduleSends, TypeOK, HandlersOK, None
  <2> QED BY <1>3, <2>1, <2>2 DEF ScheduleSends, TypeOK, TasksOK, WorldOK, world
<1>4. CASE CancelUpdate
  <2>1. queue' \in Seq(Commands) /\ HandlersOK'
    BY <1>0, <1>4, SendsType, Cmds DEF CancelUpdate, TypeOK, HandlersOK
  <2> QED BY <1>4, <2>1 DEF CancelUpdate, TypeOK, TasksOK, WorldOK, world
<1>5. CASE CancelClears
  <2>1. keys' \in Keys /\ HandlersOK'
    BY <1>5 DEF CancelClears, TypeOK, HandlersOK, Keys, None
  <2> QED BY <1>5, <2>1 DEF CancelClears, TypeOK, TasksOK, WorldOK, world
<1>6. ASSUME NEW on \in BOOLEAN, SaveUpdateSettings(on) PROVE TypeOK'
  <2>1. (keys.locked /\ ~on) \in BOOLEAN
    BY Zenon
  <2>2. [keys EXCEPT !.auto = on, !.locked = keys.locked /\ ~on] \in Keys
    BY <2>1 DEF TypeOK, Keys
  <2>3. queue' \in Seq(Commands) /\ keys' \in Keys
    BY <1>0, <1>6, <2>2, SendsType, Cmds DEF SaveUpdateSettings
  <2> QED BY <1>6, <2>3 DEF SaveUpdateSettings, TypeOK, TasksOK, WorldOK, HandlersOK, world, handlers
<1> QED BY <1>1, <1>2, <1>3, <1>4, <1>5, <1>6

LEMMA RollbackGoesTo ==
    ASSUME HandlersOK, NEW pc \in RollbackPcs, RollbackGoes(pc)
    PROVE  /\ rollback' \in [pc : RollbackPcs, target : Nat]
           /\ rollback'.pc = pc /\ rollback'.target = rollback.target
BY DEF HandlersOK, RollbackGoes

LEMMA TypeRollback ==
    ASSUME TypeOK,
           \/ RollbackUpdate \/ RollbackAcquires \/ RollbackRetags \/ RollbackTriggers
           \/ RollbackWrites \/ RollbackSends
    PROVE  TypeOK'
<1>0. /\ {"waits", "retags", "triggers", "commits", "locks", "sends", "idle"} \subseteq RollbackPcs
      /\ HandlersOK /\ queue \in Seq(Commands)
  BY DEF RollbackPcs, TypeOK
<1>e. RollbackEnds => rollback' \in [pc : RollbackPcs, target : Nat] /\ rollback'.pc = "idle"
  BY DEF RollbackEnds, RollbackPcs, None
<1>1. CASE RollbackUpdate
  <2>1. HandlersOK'
    BY <1>1 DEF RollbackUpdate, TypeOK, HandlersOK, RollbackPcs, Keys, None, Release
  <2> QED BY <1>1, <2>1 DEF RollbackUpdate, TypeOK, TasksOK, WorldOK, world
<1>2. CASE RollbackAcquires
  <2>1. HandlersOK'
    BY <1>0, <1>2, RollbackGoesTo DEF RollbackAcquires, HandlersOK
  <2> QED BY <1>2, <2>1 DEF RollbackAcquires, TypeOK, TasksOK, WorldOK, world
<1>3. CASE RollbackRetags
  <2>1. HandlersOK'
    <3>1. UNCHANGED <<checker, scheduler, canceller>>
      BY <1>3 DEF RollbackRetags
    <3>2. rollback' \in [pc : RollbackPcs, target : Nat] /\ rollback'.pc \in {"triggers", "idle"}
      BY <1>0, <1>3, <1>e, RollbackGoesTo DEF RollbackRetags
    <3> QED BY <1>0, <3>1, <3>2 DEF HandlersOK
  <2>2. WorldOK' /\ lock' \in Tasks \cup {NoOne, Rollback}
    BY <1>3 DEF RollbackRetags, TypeOK, WorldOK, HandlersOK
  <2> QED BY <1>3, <2>1, <2>2 DEF RollbackRetags, TypeOK, TasksOK
<1>4. CASE RollbackTriggers
  <2>1. HandlersOK'
    <3>1. UNCHANGED <<checker, scheduler, canceller>>
      BY <1>4 DEF RollbackTriggers
    <3>2. rollback' \in [pc : RollbackPcs, target : Nat] /\ rollback'.pc \in {"commits", "locks"}
      BY <1>0, <1>4, RollbackGoesTo DEF RollbackTriggers
    <3> QED BY <1>0, <3>1, <3>2 DEF HandlersOK
  <2>2. WorldOK'
    BY <1>4 DEF RollbackTriggers, Triggered, TypeOK, WorldOK
  <2> QED BY <1>4, <2>1, <2>2 DEF RollbackTriggers, TypeOK, TasksOK
<1>5. CASE RollbackWrites
  <2>1. HandlersOK'
    BY <1>0, <1>5, RollbackGoesTo DEF RollbackWrites, HandlersOK
  <2>2. keys' \in Keys
    BY <1>5 DEF RollbackWrites, TypeOK, Keys, None
  <2> QED BY <1>5, <2>1, <2>2 DEF RollbackWrites, TypeOK, TasksOK, WorldOK, world
<1>6. CASE RollbackSends
  <2>1. HandlersOK'
    BY <1>0, <1>6, <1>e DEF RollbackSends, HandlersOK
  <2>2. queue' \in Seq(Commands)
    BY <1>0, <1>6, SendsType, Cmds DEF RollbackSends
  <2> QED BY <1>6, <2>1, <2>2 DEF RollbackSends, TypeOK, TasksOK, WorldOK, world
<1> QED BY <1>1, <1>2, <1>3, <1>4, <1>5, <1>6

LEMMA TypeWorld == ASSUME TypeOK, WorldNext PROVE TypeOK'
<1>0. <<>> \in Seq(Commands)
  OBVIOUS
<1>1. CASE Publish
  BY <1>1 DEF Publish, TypeOK, TasksOK, WorldOK, HandlersOK, handlers, Release
<1>2. CASE Tick
  BY <1>2 DEF Tick, TypeOK, TasksOK, WorldOK, HandlersOK, handlers
<1>3. CASE Swap
  <2>1. swap # NoSwap /\ swap.to \in Release
    BY <1>3 DEF Swap, TypeOK, WorldOK
  <2>2. Restarts(swap.to) /\ swap' = NoSwap /\ UNCHANGED <<newest, image, now>>
    BY <1>3 DEF Swap
  <2>3. WorldOK'
    BY <2>1, <2>2, RestartsType DEF TypeOK, WorldOK
  <2> QED BY <2>1, <2>2, <2>3, <1>0, RestartsType DEF TypeOK
<1>4. CASE Crash
  <2>1. Restarts(running) /\ UNCHANGED <<newest, image, swap, now>> /\ running \in Release
    BY <1>4 DEF Crash, TypeOK, WorldOK
  <2>3. WorldOK'
    BY <2>1, RestartsType DEF TypeOK, WorldOK
  <2> QED BY <2>1, <2>3, <1>0, RestartsType DEF TypeOK
<1> QED BY <1>1, <1>2, <1>3, <1>4 DEF WorldNext

LEMMA TypeNext == TypeOK /\ [Next]_vars => TypeOK'
<1>1. TypeOK /\ UNCHANGED vars => TypeOK'
  BY DEF vars, world, handlers, TypeOK, TasksOK, WorldOK, HandlersOK
<1> QED BY <1>1, Holders, TypeChecks, TypeApply, TypeReceives, TypeAdmin, TypeRollback, TypeWorld
        DEF Next, TaskNext, AdminNext

-----------------------------------------------------------------------------
(* The lock, and what its holders may rely on.                             *)

Applying == {"checks", "pulls", "stores", "triggers", "clears"}

\* An apply about to trigger has stored its target, and a rollback about to forget
\* it is not doing so under an apply's swap.
TargetStored ==
    /\ \A t \in Tasks : At(t) = "triggers" => keys.previous = running
    /\ rollback.pc = "commits" => swap.to = None \/ swap.by = "rollback"

Safe == ApplyPathsExclude /\ RollbackWins /\ TargetStored /\ SwapKeepsTarget

LEMMA SafeInit == Init => Safe
<1> SUFFICES ASSUME Init PROVE Safe
  OBVIOUS
<1>1. /\ \A t \in Tasks : At(t) \in {"receives", "gone"}
      /\ lock = NoOne /\ rollback.pc = "idle" /\ swap.to = None
  BY DEF Init, At, Tasks, Receiving, NoWaiters, NoSwap
<1> QED BY <1>1, Holders DEF Safe, ApplyPathsExclude, RollbackWins, TargetStored, SwapKeepsTarget

\* A step that touches neither the lock nor what its holders look at.
LEMMA SafeKept ==
    ASSUME Safe, UNCHANGED <<lock, running, swap>>,
           keys'.previous = keys.previous, keys'.locked => keys.locked,
           \A t \in Tasks : \/ At(t)' = At(t)
                            \/ At(t) \notin Applying /\ At(t)' \notin Applying,
           \/ UNCHANGED rollback
           \/ rollback.pc \in {"idle", "waits"} /\ rollback'.pc \in {"idle", "waits"}
    PROVE  Safe'
<1>1. ApplyPathsExclude'
  BY DEF Safe, ApplyPathsExclude, Applying
<1>2. RollbackWins'
  BY DEF Safe, RollbackWins, Applying
<1>3. TargetStored'
  BY DEF Safe, TargetStored, Applying
<1>4. SwapKeepsTarget'
  BY DEF Safe, SwapKeepsTarget
<1> QED BY <1>1, <1>2, <1>3, <1>4 DEF Safe

LEMMA SafeSame ==
    ASSUME Safe, UNCHANGED <<lock, running, swap, loop, waiters, rollback>>,
           keys'.previous = keys.previous, keys'.locked => keys.locked
    PROVE  Safe'
<1>1. \A t \in Tasks : At(t)' = At(t)
  BY DEF At
<1> QED BY <1>1, SafeKept

LEMMA ExcludeMoves ==
    ASSUME TypeOK, ApplyPathsExclude, NEW t \in Tasks, NEW pc, Moves(t, pc), UNCHANGED rollback,
           \/ lock' = lock /\ (pc \in Applying <=> At(t) \in Applying)
           \/ lock = NoOne /\ lock' = t /\ pc \in Applying
           \/ lock = t /\ lock' = NoOne /\ pc \notin Applying
    PROVE  ApplyPathsExclude'
<1>1. ASSUME NEW u \in Tasks PROVE At(u)' \in Applying <=> lock' = u
  BY Holders DEF Moves, ApplyPathsExclude, Applying
<1>2. rollback'.pc \notin {"idle", "waits"} <=> lock' = Rollback
  BY Holders DEF ApplyPathsExclude
<1> QED BY <1>1, <1>2 DEF ApplyPathsExclude, Applying

LEMMA SafeApply ==
    ASSUME TypeOK, Safe, NEW t \in Tasks,
           ApplyNext(t) \/ (TooEarly /\ t = Loop) \/ (t \in Waiters /\ (WaiterWakes(t) \/ Clears(t)))
    PROVE  Safe'
<1>0. TasksOK /\ UNCHANGED rollback
  BY DEF TypeOK, ApplyNext, Acquires, Checks, Pulls, StoresPrevious, Triggers, TooEarly,
         WaiterWakes, Clears, handlers
<1>p. ApplyPcs \subseteq (LoopPcs \cap WaiterPcs) /\ "clears" \in WaiterPcs
  BY DEF LoopPcs, WaiterPcs
<1>a. Away(t) \notin Applying
  BY DEF Away, Applying
<1>h. At(t) \in Applying <=> lock = t
  BY DEF Safe, ApplyPathsExclude, Applying
<1>1. CASE t \in Waiters /\ WaiterWakes(t)
  <2>1. Moves(t, "waits") /\ At(t) = "sleeps"
    BY <1>0, <1>1, <1>p, Holders, GoesMoves DEF WaiterWakes, ApplyPcs, At
  <2> QED BY <1>0, <1>1, <2>1, SafeKept DEF WaiterWakes, world, Moves, Applying
<1>2. CASE Acquires(t)
  <2>1. Moves(t, "checks") /\ lock = NoOne /\ lock' = t /\ UNCHANGED <<keys, running, swap>>
    BY <1>0, <1>2, <1>p, GoesMoves DEF Acquires, ApplyPcs, world
  <2>2. ApplyPathsExclude'
    BY <1>0, <2>1, ExcludeMoves DEF Safe, Applying
  <2> QED BY <1>0, <2>1, <2>2 DEF Safe, RollbackWins, TargetStored, SwapKeepsTarget, Moves
<1>3. CASE Checks(t)
  <2>0. lock = t /\ UNCHANGED <<keys, running, swap>>
    BY <1>3, <1>h DEF Checks, Applying, world
  <2>1. CASE MayApply(t)
    <3>1. Moves(t, "pulls") /\ lock' = lock
      BY <1>0, <1>3, <1>p, <2>1, GoesMoves DEF Checks, ApplyPcs
    <3>2. ~keys.locked
      BY <2>1 DEF MayApply
    <3>3. ApplyPathsExclude'
      BY <1>0, <1>h, <2>0, <3>1, ExcludeMoves DEF Safe, Applying
    <3> QED BY <1>0, <2>0, <3>1, <3>2, <3>3 DEF Safe, RollbackWins, TargetStored, SwapKeepsTarget, Moves
  <2>2. CASE ~MayApply(t)
    <3>1. Moves(t, Away(t)) /\ lock' = NoOne
      BY <1>0, <1>3, <2>2, LeavesMoves DEF Checks
    <3>2. ApplyPathsExclude'
      BY <1>0, <1>a, <2>0, <3>1, ExcludeMoves DEF Safe
    <3> QED BY <1>0, <1>a, <2>0, <3>1, <3>2
            DEF Safe, RollbackWins, TargetStored, SwapKeepsTarget, Moves, Applying
  <2> QED BY <2>1, <2>2
<1>4. CASE TooEarly /\ t = Loop
  <2>1. lock = t /\ UNCHANGED <<keys, running, swap>> /\ Moves(t, Away(t)) /\ lock' = NoOne
    BY <1>0, <1>4, <1>h, LeavesMoves DEF TooEarly, Applying, world, At
  <2>2. ApplyPathsExclude'
    BY <1>0, <1>a, <2>1, ExcludeMoves DEF Safe
  <2> QED BY <1>0, <1>a, <2>1, <2>2
          DEF Safe, RollbackWins, TargetStored, SwapKeepsTarget, Moves, Applying
<1>5. CASE Pulls(t)
  <2>1. /\ At(t) = "pulls" /\ lock = t /\ UNCHANGED <<lock, keys, running, swap>>
        /\ Moves(t, "stores")
    BY <1>0, <1>5, <1>h, <1>p, GoesMoves DEF Pulls, ApplyPcs, Applying
  <2>2. ApplyPathsExclude'
    BY <1>0, <2>1, ExcludeMoves DEF Safe, Applying
  <2> QED BY <1>0, <2>1, <2>2 DEF Safe, RollbackWins, TargetStored, SwapKeepsTarget, Moves
<1>6. CASE StoresPrevious(t)
  <2>0. At(t) = "stores" /\ lock = t /\ UNCHANGED <<running, swap>> /\ ~keys.locked
    BY <1>6, <1>h DEF StoresPrevious, Applying, world, Safe, RollbackWins
  <2>1. CASE keys' = [keys EXCEPT !.previous = running] /\ Goes(t, "triggers") /\ UNCHANGED lock
    <3>1. keys'.previous = running /\ keys'.locked = keys.locked
      BY <2>1 DEF TypeOK, Keys
    <3>2. Moves(t, "triggers")
      BY <1>0, <1>p, <2>1, GoesMoves DEF ApplyPcs
    <3>3. ApplyPathsExclude'
      BY <1>0, <2>0, <2>1, <3>2, ExcludeMoves DEF Safe, Applying
    <3> QED BY <1>0, <2>0, <3>1, <3>2, <3>3
            DEF Safe, RollbackWins, TargetStored, SwapKeepsTarget, Moves
  <2>2. CASE UNCHANGED keys /\ Leaves(t)
    <3>1. Moves(t, Away(t)) /\ lock' = NoOne
      BY <1>0, <2>2, LeavesMoves
    <3>2. ApplyPathsExclude'
      BY <1>0, <1>a, <2>0, <3>1, ExcludeMoves DEF Safe
    <3> QED BY <1>0, <1>a, <2>0, <2>2, <3>1, <3>2
            DEF Safe, RollbackWins, TargetStored, SwapKeepsTarget, Moves, Applying
  <2>3. CASE UNCHANGED <<keys, lock>> /\ t # Loop /\ Goes(t, "clears")
    <3>1. Moves(t, "clears")
      BY <1>0, <1>p, <2>3, GoesMoves
    <3>2. ApplyPathsExclude'
      BY <1>0, <2>0, <2>3, <3>1, ExcludeMoves DEF Safe, Applying
    <3> QED BY <1>0, <2>0, <2>3, <3>1, <3>2
            DEF Safe, RollbackWins, TargetStored, SwapKeepsTarget, Moves
  <2> QED BY <1>6, <2>1, <2>2, <2>3 DEF StoresPrevious
<1>7. CASE Triggers(t)
  <2>0. /\ At(t) = "triggers" /\ lock = t /\ UNCHANGED <<running, keys>> /\ ~keys.locked
        /\ keys.previous = running /\ rollback.pc \in {"idle", "waits"}
    BY <1>7, <1>h, Holders DEF Triggers, Applying, Safe, RollbackWins, TargetStored, ApplyPathsExclude
  <2>1. PICK pc : /\ Moves(t, pc)
                  /\ \/ pc \notin Applying /\ lock' = NoOne
                     \/ pc = "clears" /\ lock' = lock
    <3>1. Leaves(t) => Moves(t, Away(t)) /\ lock' = NoOne
      BY <1>0, LeavesMoves
    <3>2. t # Loop /\ Goes(t, "clears") => Moves(t, "clears")
      BY <1>0, <1>p, GoesMoves
    <3> QED BY <1>7, <1>a, <3>1, <3>2 DEF Triggers
  <2>2. ApplyPathsExclude'
    BY <1>0, <2>0, <2>1, ExcludeMoves DEF Safe, Applying
  <2>3. RollbackWins' /\ TargetStored'
    BY <1>0, <2>0, <2>1 DEF Safe, RollbackWins, TargetStored, Moves, Applying
  <2>4. SwapKeepsTarget'
    BY <2>0 DEF SwapKeepsTarget
  <2> QED BY <2>2, <2>3, <2>4 DEF Safe
<1>8. CASE t \in Waiters /\ Clears(t)
  <2>1. /\ lock = t /\ UNCHANGED <<running, swap>> /\ Moves(t, Away(t)) /\ lock' = NoOne
    BY <1>0, <1>8, <1>h, Holders, LeavesMoves DEF Clears, Applying, world, At
  <2>2. keys'.previous = keys.previous /\ keys'.locked = keys.locked
    BY <1>8 DEF Clears, TypeOK, Keys
  <2>3. ApplyPathsExclude'
    BY <1>0, <1>a, <2>1, ExcludeMoves DEF Safe
  <2> QED BY <1>0, <1>a, <2>1, <2>2, <2>3
          DEF Safe, RollbackWins, TargetStored, SwapKeepsTarget, Moves, Applying
<1> QED BY <1>1, <1>2, <1>3, <1>4, <1>5, <1>6, <1>7, <1>8 DEF ApplyNext

\* While the rollback holds the lock no apply is past its acquisition.
LEMMA RollbackHolds ==
    Safe /\ TypeOK /\ lock = Rollback => \A t \in Tasks : At(t) \notin Applying
BY Holders DEF Safe, ApplyPathsExclude, Applying

LEMMA SafeRollback ==
    ASSUME TypeOK, Safe,
           RollbackAcquires \/ RollbackRetags \/ RollbackTriggers \/ RollbackWrites \/ RollbackSends
    PROVE  Safe'
<1>0. UNCHANGED <<loop, waiters, running>> /\ HandlersOK
  BY DEF RollbackAcquires, RollbackRetags, RollbackTriggers, RollbackWrites, RollbackSends, world, TypeOK
<1>1. \A t \in Tasks : At(t)' = At(t)
  BY <1>0 DEF At
<1>2. {"retags", "triggers", "commits", "locks", "sends"} \subseteq RollbackPcs
  BY DEF RollbackPcs
<1>3. CASE RollbackAcquires
  <2>1. lock = NoOne /\ lock' = Rollback /\ rollback'.pc = "retags" /\ UNCHANGED <<keys, swap>>
    BY <1>0, <1>2, <1>3, RollbackGoesTo DEF RollbackAcquires, world
  <2> QED BY <1>0, <1>1, <2>1, Holders
          DEF Safe, ApplyPathsExclude, RollbackWins, TargetStored, SwapKeepsTarget
<1>4. ASSUME lock = Rollback, rollback'.pc \notin {"idle", "waits"} <=> lock' = Rollback,
             lock' \in {NoOne, Rollback}
      PROVE  ApplyPathsExclude' /\ RollbackWins' /\ (\A t \in Tasks : At(t)' # "triggers")
  BY <1>1, <1>4, RollbackHolds, Holders DEF Safe, ApplyPathsExclude, RollbackWins, Applying
<1>5. CASE RollbackRetags \/ RollbackSends
  <2>1. lock = Rollback /\ UNCHANGED <<keys, swap>>
    BY <1>5 DEF RollbackRetags, RollbackSends, world, Safe, ApplyPathsExclude
  <2>2. \/ rollback'.pc = "triggers" /\ lock' = lock
        \/ rollback'.pc = "idle" /\ lock' = NoOne
    <3>1. RollbackGoes("triggers") => rollback'.pc = "triggers"
      BY <1>0, <1>2, RollbackGoesTo
    <3>2. RollbackEnds => rollback'.pc = "idle"
      BY DEF RollbackEnds
    <3> QED BY <1>5, <3>1, <3>2 DEF RollbackRetags, RollbackSends
  <2> QED BY <1>0, <1>4, <2>1, <2>2, Holders DEF Safe, TargetStored, SwapKeepsTarget
<1>6. CASE RollbackTriggers
  <2>1. lock = Rollback /\ UNCHANGED <<keys, lock>>
    BY <1>6 DEF RollbackTriggers, Safe, ApplyPathsExclude
  <2>2. \/ /\ rollback'.pc = "commits" /\ swap' \in {NoSwap, [to |-> image, by |-> "rollback"]}
        \/ rollback'.pc = "locks" /\ swap' = swap
    BY <1>0, <1>2, <1>6, RollbackGoesTo DEF RollbackTriggers, Triggered
  <2> QED BY <1>0, <1>4, <2>1, <2>2 DEF Safe, TargetStored, SwapKeepsTarget, NoSwap
<1>7. CASE RollbackWrites
  <2>1. /\ lock = Rollback /\ UNCHANGED <<lock, swap>> /\ rollback'.pc = "sends"
        /\ rollback.pc = "commits" \/ keys'.previous = keys.previous
    BY <1>0, <1>2, <1>7, RollbackGoesTo
       DEF RollbackWrites, world, Safe, ApplyPathsExclude, TypeOK, Keys
  <2> QED BY <1>0, <1>4, <2>1 DEF Safe, TargetStored, SwapKeepsTarget
<1> QED BY <1>3, <1>5, <1>6, <1>7

LEMMA SafeRestarts ==
    ASSUME TypeOK, Safe, Swap \/ Crash PROVE Safe'
<1>1. PICK version \in Release : /\ Restarts(version)
                                 /\ swap' = NoSwap \/ (swap' = swap /\ version = running)
  BY DEF Swap, Crash, TypeOK, WorldOK
<1>2. /\ lock' = NoOne /\ running' = version /\ rollback'.pc = "idle"
      /\ keys'.previous = keys.previous
      /\ \A t \in Tasks : At(t)' \in {"receives", "gone", "sleeps"}
  BY <1>1, RestartsType DEF Receiving, At, Tasks
<1> QED BY <1>1, <1>2, Holders
        DEF Safe, ApplyPathsExclude, RollbackWins, TargetStored, SwapKeepsTarget, NoSwap

LEMMA SafeOthers ==
    ASSUME TypeOK, Safe,
           \/ CheckFetches \/ CheckRecords \/ LoopFetches \/ LoopRecords
           \/ ReceivesApplyNow \/ ReceivesSchedule \/ ReceivesCancel \/ ReceivesSettings
           \/ ApplyNow \/ (\E ts \in 1 .. Last : ScheduleUpdate(ts))
           \/ ScheduleSends \/ CancelUpdate \/ CancelClears
           \/ (\E on \in BOOLEAN : SaveUpdateSettings(on))
           \/ RollbackUpdate \/ Publish \/ Tick
    PROVE  Safe'
<1>0. /\ keys \in Keys
      /\ \A o : Fetch(o) \/ keys' = Recorded(keys, o)
                   => keys'.previous = keys.previous /\ keys'.locked = keys.locked
  BY DEF TypeOK, Keys, Fetch, Recorded
<1>1. CASE CheckFetches \/ CheckRecords
  BY <1>0, <1>1, SafeSame DEF CheckFetches, CheckRecords, world
<1>2. CASE LoopFetches \/ LoopRecords \/ ReceivesApplyNow
  <2>0. UNCHANGED <<lock, waiters, rollback, running, swap>>
    BY <1>2 DEF LoopFetches, LoopRecords, ReceivesApplyNow, handlers, world
  <2>1. loop.pc \notin Applying /\ loop'.pc \notin Applying
    <3>1. CASE LoopRecords
      BY <3>1 DEF LoopRecords, Applying, TypeOK, TasksOK
    <3>2. CASE LoopFetches \/ ReceivesApplyNow
      BY <3>2 DEF LoopFetches, ReceivesApplyNow, Receives, Applying
    <3> QED BY <1>2, <3>1, <3>2
  <2>2. keys'.previous = keys.previous /\ keys'.locked = keys.locked
    BY <1>0, <1>2 DEF LoopFetches, LoopRecords, ReceivesApplyNow
  <2>3. ASSUME NEW t \in Tasks PROVE At(t)' = At(t) \/ (At(t) \notin Applying /\ At(t)' \notin Applying)
    BY <2>0, <2>1 DEF At
  <2> QED BY <2>0, <2>2, <2>3, SafeKept
<1>3. CASE ReceivesSchedule
  <2>1. Head(queue).ts \in Nat /\ waiters \in WaiterTable
    BY <1>3, ReceivesType DEF ReceivesSchedule, TypeOK, TasksOK, WaiterTable
  <2>2. PICK w \in Waiters : /\ waiters[w].pc = "gone" /\ waiters'[w].pc = "sleeps"
                             /\ \A v \in Waiters \ {w} : waiters'[v] = waiters[v]
    BY <1>3, <2>1, SpawnsType DEF ReceivesSchedule
  <2>3. UNCHANGED <<lock, loop, rollback, running, swap>>
        /\ keys'.previous = keys.previous /\ keys'.locked = keys.locked
    BY <1>0, <1>3 DEF ReceivesSchedule, handlers, world, Keys
  <2>4. ASSUME NEW t \in Tasks PROVE At(t)' = At(t) \/ (At(t) \notin Applying /\ At(t)' \notin Applying)
    BY <2>2, <2>3 DEF At, Tasks, Applying
  <2> QED BY <2>3, <2>4, SafeKept
<1>4. CASE ReceivesCancel \/ ReceivesSettings
  BY <1>0, <1>4, SafeSame DEF ReceivesCancel, ReceivesSettings, handlers, world, Keys
<1>5. CASE ApplyNow \/ (\E ts \in 1 .. Last : ScheduleUpdate(ts)) \/ ScheduleSends \/ CancelUpdate
           \/ CancelClears
  BY <1>0, <1>5, SafeSame
     DEF ApplyNow, ScheduleUpdate, ScheduleSends, CancelUpdate, CancelClears, handlers, world, Keys
<1>6. ASSUME NEW on \in BOOLEAN, SaveUpdateSettings(on) PROVE Safe'
  <2>1. keys'.previous = keys.previous /\ (keys'.locked => keys.locked)
    BY <1>0, <1>6 DEF SaveUpdateSettings, Keys
  <2> QED BY <1>6, <2>1, SafeSame DEF SaveUpdateSettings, handlers, world
<1>7. CASE RollbackUpdate
  <2>1. \A t \in Tasks : At(t)' = At(t)
    BY <1>7 DEF RollbackUpdate, At
  <2> QED BY <1>7, <2>1, SafeKept DEF RollbackUpdate, world
<1>8. CASE Publish \/ Tick
  BY <1>8, SafeSame DEF Publish, Tick, handlers
<1> QED BY <1>1, <1>2, <1>3, <1>4, <1>5, <1>6, <1>7, <1>8

LEMMA SafeNext == TypeOK /\ Safe /\ [Next]_vars => Safe'
<1>1. Safe /\ UNCHANGED vars => Safe'
  BY SafeSame DEF vars, world, handlers
<1> QED BY <1>1, Holders, SafeApply, SafeRollback, SafeRestarts, SafeOthers
        DEF Next, TaskNext, AdminNext, WorldNext

-----------------------------------------------------------------------------
(* Who a pending schedule belongs to.                                      *)

\* The schedules in the queue stay in it, and the waiters of the pending one wait.
QueueKeeps ==
    \A i \in DOMAIN queue : queue[i].kind = "schedule"
        => \E j \in DOMAIN queue' : queue'[j] = queue[i]

WaitersKeep ==
    \A w \in Waiters : waiters[w].pc # "gone" /\ waiters[w].ts = keys.scheduled
        => waiters'[w].pc # "gone" /\ waiters'[w].ts = waiters[w].ts

LEMMA OwnedBy ==
    TasksOK => (Owned <=> \/ scheduler = keys.scheduled
                          \/ \E i \in DOMAIN queue : /\ queue[i].kind = "schedule"
                                                     /\ queue[i].ts = keys.scheduled
                          \/ \E w \in Waiters : /\ waiters[w].pc # "gone"
                                                /\ waiters[w].ts = keys.scheduled)
<1>1. ASSUME TasksOK, NEW w \in Waiters
      PROVE  waiters[w].pc \in ApplyPcs \cup {"sleeps", "clears"} <=> waiters[w].pc # "gone"
  BY <1>1 DEF TasksOK, WaiterPcs, ApplyPcs
<1> QED BY <1>1, Zenon DEF Owned

LEMMA OwnedKept ==
    ASSUME TasksOK, TasksOK', ScheduleOwned, keys'.scheduled = keys.scheduled, UNCHANGED scheduler,
           QueueKeeps, WaitersKeep
    PROVE  ScheduleOwned'
<1> SUFFICES ASSUME keys.scheduled # None PROVE Owned'
  BY DEF ScheduleOwned
<1>1. Owned
  BY DEF ScheduleOwned
<1>2. CASE scheduler = keys.scheduled
  BY <1>2 DEF Owned
<1>3. ASSUME NEW i \in DOMAIN queue, queue[i].kind = "schedule", queue[i].ts = keys.scheduled
      PROVE  Owned'
  <2>1. PICK j \in DOMAIN queue' : queue'[j] = queue[i]
    BY <1>3 DEF QueueKeeps
  <2>2. queue'[j].kind = "schedule" /\ queue'[j].ts = keys'.scheduled
    BY <1>3, <2>1
  <2> QED BY <2>2 DEF Owned
<1>4. ASSUME NEW w \in Waiters, waiters[w].pc # "gone", waiters[w].ts = keys.scheduled PROVE Owned'
  <2>1. waiters'[w].pc \in WaiterPcs \ {"gone"} /\ waiters'[w].ts = keys'.scheduled
    BY <1>4 DEF WaitersKeep, TasksOK
  <2> QED BY <2>1 DEF Owned, WaiterPcs
<1> QED BY <1>1, <1>2, <1>3, <1>4, OwnedBy

LEMMA SendsKeeps == ASSUME queue \in Seq(Commands), NEW cmd, Sends(cmd) PROVE QueueKeeps
<1>1. queue' = Append(queue, cmd)
  BY DEF Sends
<1>2. \A i \in DOMAIN queue : i \in DOMAIN queue' /\ queue'[i] = queue[i]
  BY <1>1
<1> QED BY <1>2 DEF QueueKeeps

LEMMA ReceivesKeeps ==
    ASSUME queue \in Seq(Commands), NEW kind, kind # "schedule", Receives(kind) PROVE QueueKeeps
<1>1. queue # <<>> /\ queue' = Tail(queue) /\ Head(queue).kind # "schedule"
  BY DEF Receives
<1>2. ASSUME NEW i \in DOMAIN queue, queue[i].kind = "schedule"
      PROVE  i - 1 \in DOMAIN queue' /\ queue'[i - 1] = queue[i]
  <2>1. i # 1
    BY <1>1, <1>2
  <2> QED BY <1>1, <2>1
<1> QED BY <1>2 DEF QueueKeeps

LEMMA SameKeeps == /\ UNCHANGED queue => QueueKeeps
                   /\ UNCHANGED waiters => WaitersKeep
                   /\ keys.scheduled = None => ScheduleOwned
BY DEF QueueKeeps, WaitersKeep, ScheduleOwned

\* A waiter that moves on still waits, unless it is gone.
LEMMA MovesKeep ==
    ASSUME TasksOK, NEW t \in Tasks, NEW pc, Moves(t, pc), KeepsTs, pc # "gone" \/ t = Loop
    PROVE  WaitersKeep
BY Holders DEF Moves, KeepsTs, WaitersKeep, At

LEMMA OwnedApply ==
    ASSUME TypeOK, TypeOK', ScheduleOwned, ~keys.locked, NEW t \in Tasks,
           ApplyNext(t) \/ (TooEarly /\ t = Loop) \/ (t \in Waiters /\ (WaiterWakes(t) \/ Clears(t)))
    PROVE  ScheduleOwned'
<1>0. /\ TasksOK /\ TasksOK' /\ UNCHANGED <<scheduler, queue>> /\ keys \in Keys /\ QueueKeeps
      /\ ApplyPcs \subseteq (LoopPcs \cap WaiterPcs) /\ "clears" \in WaiterPcs
  BY SameKeeps DEF TypeOK, ApplyNext, Acquires, Checks, Pulls, StoresPrevious, Triggers, TooEarly,
                   WaiterWakes, Clears, handlers, LoopPcs, WaiterPcs
<1>1. ASSUME NEW pc \in ApplyPcs, Goes(t, pc) PROVE WaitersKeep
  BY <1>0, <1>1, GoesMoves, MovesKeep DEF ApplyPcs
<1>2. ASSUME t # Loop, Goes(t, "clears") PROVE WaitersKeep
  BY <1>0, <1>2, GoesMoves, MovesKeep
<1>3. ASSUME t = Loop, Leaves(t) PROVE WaitersKeep
  BY <1>0, <1>3, LeavesMoves, SameKeeps
<1>4. CASE t \in Waiters /\ Clears(t)
  BY <1>0, <1>4, SameKeeps DEF Clears, Keys, ScheduleOwned
<1>5. CASE Checks(t)
  <2>1. UNCHANGED keys
    BY <1>5 DEF Checks
  <2>2. CASE MayApply(t) \/ t = Loop
    <3>1. WaitersKeep
      BY <1>1, <1>3, <1>5, <2>2 DEF Checks, ApplyPcs
    <3> QED BY <1>0, <2>1, <3>1, OwnedKept
  <2>3. CASE ~MayApply(t) /\ t # Loop
    <3>1. Leaves(t) /\ keys.scheduled # waiters[t].ts /\ t \in Waiters
      BY <1>5, <2>3 DEF Checks, MayApply, Tasks
    <3>2. \A w \in Waiters \ {t} : waiters'[w].pc = waiters[w].pc /\ waiters'[w].ts = waiters[w].ts
      BY <1>0, <3>1, LeavesMoves, Holders DEF Moves, KeepsTs, At
    <3>3. WaitersKeep
      BY <3>1, <3>2 DEF WaitersKeep
    <3> QED BY <1>0, <2>1, <3>3, OwnedKept
  <2> QED BY <2>2, <2>3
<1>6. CASE (t \in Waiters /\ WaiterWakes(t)) \/ Acquires(t) \/ Pulls(t) \/ (TooEarly /\ t = Loop)
  <2>1. WaitersKeep /\ UNCHANGED keys
    BY <1>1, <1>3, <1>6 DEF WaiterWakes, Acquires, Pulls, TooEarly, ApplyPcs
  <2> QED BY <1>0, <2>1, OwnedKept
<1>7. CASE StoresPrevious(t)
  <2>1. WaitersKeep
    BY <1>1, <1>2, <1>3, <1>7 DEF StoresPrevious, ApplyPcs
  <2>2. keys'.scheduled = keys.scheduled
    BY <1>0, <1>7 DEF StoresPrevious, Keys
  <2> QED BY <1>0, <2>1, <2>2, OwnedKept
<1>8. CASE Triggers(t)
  <2>1. WaitersKeep /\ UNCHANGED keys
    BY <1>2, <1>3, <1>8 DEF Triggers
  <2> QED BY <1>0, <2>1, OwnedKept
<1> QED BY <1>4, <1>5, <1>6, <1>7, <1>8 DEF ApplyNext

LEMMA OwnedLoop ==
    ASSUME TypeOK, TypeOK', ScheduleOwned,
           \/ LoopFetches \/ LoopRecords
           \/ ReceivesApplyNow \/ ReceivesSchedule \/ ReceivesCancel \/ ReceivesSettings
    PROVE  ScheduleOwned'
<1>0. TasksOK /\ TasksOK' /\ keys \in Keys /\ queue \in Seq(Commands)
  BY DEF TypeOK
<1>1. CASE LoopFetches \/ LoopRecords
  <2>1. UNCHANGED <<queue, waiters, scheduler>> /\ keys'.scheduled = keys.scheduled
    BY <1>0, <1>1 DEF LoopFetches, LoopRecords, Fetch, Recorded, handlers, Keys
  <2> QED BY <1>0, <2>1, SameKeeps, OwnedKept
<1>2. CASE ReceivesApplyNow \/ ReceivesSettings
  <2>1. QueueKeeps /\ UNCHANGED <<keys, waiters, scheduler>>
    BY <1>0, <1>2, ReceivesKeeps DEF ReceivesApplyNow, ReceivesSettings, handlers
  <2> QED BY <1>0, <2>1, SameKeeps, OwnedKept
<1>3. CASE ReceivesSchedule
  <2>1. Head(queue).ts \in Nat /\ waiters \in WaiterTable
    BY <1>0, <1>3, ReceivesType DEF ReceivesSchedule, TasksOK, WaiterTable
  <2>2. PICK w \in Waiters : waiters'[w].pc = "sleeps" /\ waiters'[w].ts = Head(queue).ts
    BY <1>3, <2>1, SpawnsType DEF ReceivesSchedule
  <2>3. keys'.scheduled = Head(queue).ts
    BY <1>0, <1>3 DEF ReceivesSchedule, Keys
  <2> QED BY <2>2, <2>3 DEF ScheduleOwned, Owned
<1>4. CASE ReceivesCancel
  <2>1. keys'.scheduled = None
    BY <1>0, <1>4 DEF ReceivesCancel, Keys
  <2> QED BY <2>1 DEF ScheduleOwned
<1> QED BY <1>1, <1>2, <1>3, <1>4

LEMMA OwnedAdmin ==
    ASSUME TypeOK, TypeOK', ScheduleOwned, AdminNext PROVE ScheduleOwned'
<1>0. TasksOK /\ TasksOK' /\ keys \in Keys /\ queue \in Seq(Commands)
  BY DEF TypeOK
<1>1. CASE CheckFetches \/ CheckRecords
  <2>1. UNCHANGED <<queue, waiters, scheduler>> /\ keys'.scheduled = keys.scheduled
    BY <1>0, <1>1 DEF CheckFetches, CheckRecords, Fetch, Recorded, Keys
  <2> QED BY <1>0, <2>1, SameKeeps, OwnedKept
<1>2. CASE ApplyNow \/ CancelUpdate \/ (\E on \in BOOLEAN : SaveUpdateSettings(on)) \/ RollbackSends
  <2>1. QueueKeeps /\ UNCHANGED <<waiters, scheduler>>
    BY <1>0, <1>2, SendsKeeps DEF ApplyNow, CancelUpdate, SaveUpdateSettings, RollbackSends, handlers
  <2>2. keys'.scheduled = keys.scheduled
    BY <1>0, <1>2 DEF ApplyNow, CancelUpdate, SaveUpdateSettings, RollbackSends, Keys
  <2> QED BY <1>0, <2>1, <2>2, SameKeeps, OwnedKept
<1>3. ASSUME NEW ts \in 1 .. Last, ScheduleUpdate(ts) PROVE ScheduleOwned'
  <2>1. keys'.scheduled = ts /\ scheduler' = ts
    BY <1>0, <1>3 DEF ScheduleUpdate, Keys
  <2> QED BY <2>1 DEF ScheduleOwned, Owned
<1>4. CASE ScheduleSends
  <2>1. UNCHANGED <<keys, waiters>> /\ QueueKeeps
    BY <1>0, <1>4, SendsKeeps DEF ScheduleSends
  <2>2. CASE scheduler = keys.scheduled
    <3>1. /\ Len(queue) + 1 \in DOMAIN queue'
          /\ queue'[Len(queue) + 1] = [kind |-> "schedule", ts |-> scheduler]
      BY <1>0, <1>4 DEF ScheduleSends, Sends
    <3> QED BY <2>1, <2>2, <3>1 DEF ScheduleOwned, Owned
  <2>3. CASE scheduler # keys.scheduled
    <3>1. ASSUME NEW i \in DOMAIN queue, queue[i].kind = "schedule", queue[i].ts = keys.scheduled
          PROVE  Owned'
      <4>1. PICK j \in DOMAIN queue' : queue'[j] = queue[i]
        BY <2>1, <3>1 DEF QueueKeeps
      <4>2. queue'[j].kind = "schedule" /\ queue'[j].ts = keys'.scheduled
        BY <2>1, <3>1, <4>1
      <4> QED BY <4>2 DEF Owned
    <3>2. ASSUME NEW w \in Waiters, waiters[w].pc # "gone", waiters[w].ts = keys.scheduled
          PROVE  Owned'
      BY <1>0, <2>1, <3>2 DEF Owned, TasksOK, WaiterPcs
    <3> QED BY <1>0, <2>1, <2>3, <3>1, <3>2, OwnedBy DEF ScheduleOwned
  <2> QED BY <2>2, <2>3
<1>5. CASE CancelClears
  <2>1. keys'.scheduled = None
    BY <1>0, <1>5 DEF CancelClears, Keys
  <2> QED BY <2>1 DEF ScheduleOwned
<1>6. CASE RollbackUpdate \/ RollbackAcquires \/ RollbackRetags \/ RollbackTriggers \/ RollbackWrites
  <2>1. UNCHANGED <<queue, waiters, scheduler>> /\ keys'.scheduled = keys.scheduled
    BY <1>0, <1>6 DEF RollbackUpdate, RollbackAcquires, RollbackRetags, RollbackTriggers,
                      RollbackWrites, Keys
  <2> QED BY <1>0, <2>1, SameKeeps, OwnedKept
<1> QED BY <1>1, <1>2, <1>3, <1>4, <1>5, <1>6 DEF AdminNext

\* A restart keeps the schedule it gives a waiter, and no other.
LEMMA OwnedRestarts ==
    ASSUME TypeOK, NEW version \in Release, Restarts(version) PROVE ScheduleOwned'
<1>1. keys.scheduled \in Nat /\ keys \in Keys
  BY DEF TypeOK, Keys
<1>2. keys'.scheduled = IF Usable(keys.scheduled) THEN keys.scheduled ELSE None
  BY <1>1 DEF Restarts, Keys
<1>3. CASE Usable(keys.scheduled)
  <2>1. NoWaiters \in WaiterTable
    BY DEF NoWaiters, WaiterTable, WaiterPcs, None
  <2>2. PICK w \in Waiters : waiters'[w].pc = "sleeps" /\ waiters'[w].ts = keys.scheduled
    BY <1>1, <1>3, <2>1, SpawnsType DEF Restarts
  <2> QED BY <1>2, <1>3, <2>2 DEF ScheduleOwned, Owned
<1>4. CASE ~Usable(keys.scheduled)
  BY <1>2, <1>4 DEF ScheduleOwned
<1> QED BY <1>3, <1>4

LEMMA OwnedWorld == ASSUME TypeOK, TypeOK', ScheduleOwned, WorldNext PROVE ScheduleOwned'
<1>1. CASE Swap \/ Crash
  <2>1. PICK version \in Release : Restarts(version)
    BY <1>1 DEF Swap, Crash, TypeOK, WorldOK
  <2> QED BY <2>1, OwnedRestarts
<1>2. CASE Publish \/ Tick
  BY <1>2, SameKeeps, OwnedKept DEF Publish, Tick, handlers, TypeOK
<1> QED BY <1>1, <1>2 DEF WorldNext

LEMMA OwnedNext ==
    TypeOK /\ [Next]_vars => [ScheduleOwned /\ ~ScheduleOwned' => keys.locked]_vars
<1> SUFFICES ASSUME TypeOK, Next, ScheduleOwned, ~keys.locked PROVE ScheduleOwned'
  OBVIOUS
<1>1. TypeOK'
  BY TypeNext
<1> QED BY <1>1, Holders, OwnedApply, OwnedLoop, OwnedAdmin, OwnedWorld DEF Next, TaskNext

-----------------------------------------------------------------------------
(* The theorems *)

IInv == TypeOK /\ Safe

LEMMA IInvInit == Init => IInv
BY TypeInit, SafeInit DEF IInv

LEMMA IInvNext == IInv /\ [Next]_vars => IInv'
BY TypeNext, SafeNext DEF IInv

\* update_apply_lock serialises the task, the waiters and the rollback: who is past
\* its acquisition is the holder.
THEOREM ApplyPathsSerialised == Spec => []ApplyPathsExclude
<1>1. IInv => ApplyPathsExclude
  BY DEF IInv, Safe
<1> QED BY IInvInit, IInvNext, <1>1, PTL DEF Spec

\* No apply that is past its re-check runs over a rollback lock.
THEOREM RollbackLockWins == Spec => []RollbackWins
<1>1. IInv => RollbackWins
  BY DEF IInv, Safe
<1> QED BY IInvInit, IInvNext, <1>1, PTL DEF Spec

\* Whenever Watchtower strikes for an apply, update:previous_version names what it
\* is about to replace.
THEOREM SwapsKeepTarget == Spec => []SwapKeepsTarget
<1>1. IInv => SwapKeepsTarget
  BY DEF IInv, Safe
<1> QED BY IInvInit, IInvNext, <1>1, PTL DEF Spec

\* A pending schedule loses its waiter only under the rollback lock.
THEOREM SchedulesLostToRollback == Spec => ScheduleLostToRollback
<1>1. IInv /\ [Next]_vars => [ScheduleOwned /\ ~ScheduleOwned' => keys.locked]_vars
  BY OwnedNext DEF IInv
<1> QED BY IInvInit, IInvNext, <1>1, PTL DEF Spec, ScheduleLostToRollback
=============================================================================
