# Briska Blast: verification project

TLA+ models of Briska Blast, a peer-to-peer multiplayer game with a matchmaking
server (Rust, axum and Redis), a game client (C#, Godot) and a launcher (Rust,
Iced). The modules are translated from the source; TLC checks them on small
instances and TLAPS proves their safety properties for every instance.

Run from this directory, for instance

    tlc -workers 2 -config match.cfg MCSessionServer
    tlapm SessionServerProofs.tla

## 1. The system

| Part | Where | State | Operations | Talks to |
|---|---|---|---|---|
| Session record | Redis `session:<code>`, written by `server/src/api`, `server/src/signaling/ws/session_ops.rs` | host, joiners in order of seniority, status, frozen seating, capacity | host, join, transfer host, start, activate, end, remove joiner, promote, TTL | every handler |
| Signal hub | `server/src/signaling/mod.rs` | per room: the live channel of each player, score tally, win target, ready barrier, pause holds; per player: armed grace timers | join/leave room, ready, force start, pause, score, arm/take grace | WebSocket tasks, `/start`, valves |
| REST handlers | `server/src/api` | none of their own; `/start` carries a roster across awaits | `/host`, `/join`, `/start`, `/transfer`, `DELETE` | record, hub |
| WebSocket tasks | `server/src/signaling/ws` | one task per socket: who, host flag read at identify, where it stands | identify, pump, frames, cleanup | record, hub, timers |
| Timers and valves | `ws/disconnect.rs`, `ws/session_ops.rs` | 30 s promotion grace, 120 s slot hold, 20 s ready barrier, 25 s pause valve | fire, or find themselves cancelled | record, hub |
| Player accounts | `server/src/api/register.rs`, `me.rs`, `admin/users.rs`, `chat/bans.rs`, `launcher/src/app/handlers/identity.rs` | counter, freelist, token hashes, names, bans; the launcher's `identity.json` | register, rename, delete, ban | Redis, launcher |
| Chat | `server/src/chat`, `admin/chatmod*` | transcripts and their retention, bans, audit log, word list and its cache | append, mark, ban, end, sweep, import | frames, admin |
| Self-update | `server/src/update`, `admin/dashboard.rs` | schedule, available and previous version, rollback lock, apply lock | check, apply, schedule, cancel, roll back | Redis, Docker, Watchtower |
| Match flow (client) | `client/src/core/MatchFlow*.cs` | Idle, InLobby, Preparing, InMatch, PostMatch; expected and connected peers; ready sent | lobby, start, mesh, rejoin, end | signaling client, mesh, REST |
| Signaling client | `client/src/net/SignalingClient*.cs` | socket, reconnect window, terminal-close latch | dial, identify, drain, reconnect | server |
| Game over the mesh | `client/src/game`, `client/src/net/WebRtc*` | balls, edges, items, clock offset | simulate, hand off, restore portals | peers, server |
| Launcher | `launcher/src` | identity, installed versions, running jobs, release cache, back-off state, discovery file | register, install, repair, verify, uninstall, play, self-update, single instance | GitHub, server, game process |
| Shared protocol | `shared/` | message and setting types | none | all |

### What is hard, and what makes each part correct

* **Session record.** Every write is one atomic command, but callers decide with
  what they read earlier. Correct: the roster stays sound, a live match is always
  seated, the seating is frozen, seniority survives promotions.
* **Signal hub and its tasks.** Each hub method holds one lock; everything between
  two awaits interleaves. Correct: only a player's own live socket evicts it, a lost
  host is replaced, a lost joiner is awaited, the match starts once.
* **`/start`, ready barrier, pause.** A check, a compare-and-set, an in-memory
  seeding, a network call and a broadcast; then the last client, the valve, a drop
  and a rejoin race. Correct: exactly one start, no endless barrier, no endless pause.
* **Accounts.** Five Redis commands per handler, numbers that are used again. Correct:
  a number has one holder, and what belonged to the last holder does not pass on.
* **Chat.** Read-then-delete teardown against late marks, a pointer that several tasks
  create. Correct: evidence is never deleted, one conversation has one transcript, the
  log tells who is banned.
* **Self-update.** A queue, spawned schedules and an admin handler share one lock and
  five Redis keys. Correct: a rollback is not undone, every swap leaves a way back.
* **Client flow.** Best-effort broadcasts, a poll, reconnects and four deadlines.
  Correct: every player ends in the match or back in the menu, and no session leaves
  anything to the next.
* **Mesh.** No referee: balls live on one screen or in one channel. Correct: one
  master ball, distinct ids, nothing lost unless something fails.
* **Launcher.** Tasks over one directory, files shared between processes. Correct: one
  live instance, an install is whole or absent, a rate limit is honoured.

The hazards, each at its line and with the properties that watch it, are listed in
`PROJECT.json`.

## 2. Modules

    SessionStore        the Redis record, one action per atomic operation
    SignalHub           what each hub method makes of a room (operators)
    SessionServer       REST handlers, sockets, timers and valves over both; implements SessionStore
    MatchFlow           one client: MatchFlow, its socket, its mesh and its chat log
    MasterBall          what the screens promise of the ball that scores
    BallMesh            balls, items and channels between the screens; implements MasterBall
    UpdateTask          the server's self-update
    ChatStore           transcripts, retention, moderation, audit log
    Accounts            numbers, tokens, names, bans, identity files
    LauncherInstall     the launcher's jobs over the install directories
    InstanceSlot        the single-instance slot
    ReleaseCache        the release list and the back-off
    LauncherProcesses   composes the last two
    MC...               instances for TLC
    ...Proofs           theorems; ClientProofs holds those of MatchFlow and of BallMesh

`ClientProofs` extends both client modules, which is why the top-level names of
`MatchFlow` carry the word Flow.

**SessionStore** has one variable, `session`. Every Redis command or Lua script that
touches `session:<code>` is one action, its early returns the guards. What a caller
only *believes* (how many joiners it counted, who it saw connected) is a parameter
bound by `\E`, so the properties hold for outdated beliefs too. `joined_at_ms` is left
to the order of `joiners`; match settings do not change after `/host` and are left out.

**SignalHub** defines the room and what each method returns and leaves behind. The
methods hold the rooms lock for their whole body, so each is one step of its caller.

**SessionServer** is the concurrent system.

| State | Code |
|---|---|
| `socks[c]` | the `handle_socket` task of connection `c`: player, `is_host` as read at identify, `rejoin`, the explicit-leave flag and a `pc` naming the await it stands at |
| `grace[p][kind]` | `SignalHub.grace`; the value is the number of the timer whose cancel channel is stored |
| `timers` | the spawned grace tasks; `"claimed"` is the slot timer after `take_grace`, before it frees the slot |
| `promos` | calls of `promote_demote_or_end_active` between the snapshot of connected players and the script |
| `start` | the `/start` handler: read and check, commit, seed, mint and announce, with its retries |
| `barrier`, `valves` | `spawn_ready_barrier`, `spawn_pause_valve` |
| `closer` | `DELETE /session` between its check and its `DEL` |

`hold`, `announced`, `started`, `roomLost` and `unmoved` are history variables, read
by no action except that a client is only ready once the start was announced or its
socket was opened for a match that had left Waiting. `spent` counts the bounds. Steps
are merged only where nobody can see between them: a broadcast with the step before
it, the release of a pause hold with the cleanup's own Redis call (they touch
different state), the two grace entries a welcome takes. Not merged: the check and
commit of `/start` and of `DELETE`, the two locks of `arm_grace`, `join_room` and the
grace entries taken up to five seconds later, the timer and the slot it frees, the
snapshot and the promotion script, the latch and the activation that follows it. Time
is not counted: a timer may fire at any moment after it is armed, except that the
120 s hold armed together with a 30 s promotion does not overtake it
(`PromotionUnderWay`).

**MatchFlow** is one player's client. Godot's main loop is one thread, so a frame, a
mesh event, a timer or an answered request is one action and runs its handler whole.
`flow`, `isRejoin`, `expected`, `connected`, `failed`, `readySent` are the fields of
`MatchFlow`; `sock` and `sig` the socket and the flags of `SignalingClient`; `chat` is
`ChatLog._entries`; `poll` the lobby poll in flight. The server half (`srv`) is what
the tasks of SessionServer do to this one client, without the races among them. Frames
are FIFO on one socket (`up`, `down`) and die with it, except that a last `ready` or
`leave` may still arrive (`late`).

**BallMesh** is the match on all screens. `balls[p]` is `GameState.Balls`, `wire[p][q]`
what p has sent to q, `mapped[p]` the peers behind a portal edge, `link` the data
channels as each end sees them, `proc` where each process is, `joins` the `PeerJoined`
frames not yet read. A ball is an id, a kind and its last hitter; where it flies is
abstract: in each state it may next meet a paddle, the goal, a portal, a splitter or a
pickup. Ids are built as in `GameState`: the seat's block of 1,000,000, the process'
offset in it (`epoch`) and `_nextBallId` (`made`), which starts at zero with every
process. The code draws the offset at random from 0 to 899,999; the model takes the
ranges of one seat's processes not to overlap, which is what the code counts on.
`MasterKept` maps screens and channels to **MasterBall**: `at` is where a master is,
`served` whether any ball was made.

**UpdateTask**: `keys` are the `update:*` keys, `lock` the holder of
`update_apply_lock`, `queue` the command channel, `loop` the task, `waiters` the
spawned `wait_and_apply` futures, `checker`, `scheduler`, `canceller`, `rollback` the
dashboard's handlers where they await. `swap` is Watchtower about to replace the
process, `image` what the host's channel tag points at.

**ChatStore**: one variable per Redis key (`live`, `issued`, `transcript`, `marks`,
`retained`, `flagged`, `archived`, `banned`, `records`, `cursor`). `jobs[a]` is the
request a player's socket, a moderator or an ending session has under way, `pc` the
command it issues next. `doomed` and `unrecorded` are history: transcripts a teardown
found without evidence, and net bans no record tells of because a fault came between.

**Accounts**: `hash`, `username`, `banned`, `freelist`, `counter` are the Redis keys,
`disk` and `identity` the launcher's file and its copy in `AppState`, `calls` the
requests under way with the identity each was made from, `wiped` and `spared` history.

**LauncherInstall**: the fields of `AppState` (`job`, `removal`, `verifying`,
`updating`, `playing`, `recovered`, ...), what `identity.json` says (`saved`, in memory
`creds`) and the tree in each install directory (`live`). A task's stages are actions;
the message it posts is its last stage. `torn` names the channels whose record one of
the mishaps listed at `RecordMatchesDisk` has spoiled, `hasty` that the user outran
the boot probe. It is the Linux and macOS build.

**InstanceSlot** is `acquire_in`, attempt by attempt and file operation by file
operation, with relaunch, quit and crash; **ReleaseCache** the release list behind its
lock, revalidation by ETag over one or two pages, and `ratelimits.json` as a
read-modify-write. **LauncherProcesses** runs both: only a process that is live calls
GitHub, and one that ends takes its calls with it while its files stay.

Faulty variants of actions (their comments begin with "Faulty:") stand before the
action they vary; `PROJECT.json` says which property each of them breaks. No
specification uses them.

## 3. Runs

All configurations say `CHECK_DEADLOCK FALSE`: when the bounds are used up and the
tasks are done, the modelled system has nothing left to do.

| Run | Instance | Question |
|---|---|---|
| `store` | 4 players, capacities 3 and 4 | is every order of the record's operations safe, whatever its callers believe? |
| `assembly` | 2 players, 3 connections, from nothing; one transfer, close and score report, TTL | does a session come about, start once and end when it is decided, every write being an operation of the record? |
| `match` | 3 players, 4 connections, match under way | do drops, takeovers and rejoins keep presence, promotion and slot holds consistent? |
| `fair` | 2 players, 3 connections, a lobby or a match | do pauses, slot holds and the barrier end? |
| `flow` | 1 client and 1 peer, 1 session, a drop, a death, chat lines (2 of these) | does the client enter when and only when it is let in, and leave nothing behind? |
| `flow_fair` | the same without deaths, 1 event | is a ready client resolved, and one that missed the start recovered? |
| `balls` | 3 screens, 2 balls, 2 pickups, 1 fault | is the master one, are ids distinct, is nothing lost without a fault? |
| `update` | 3 releases, 2 ticks, 3 requests, 1 fault | do checks, applies, schedules, a rollback and restarts respect each other? |
| `chat` | 1 code used twice, 1 player, 1 moderator, 1 ending task, an old log, 3 events | does evidence outlive teardown, and does the log agree with the list? |
| `accounts` | 2 launchers with 2 requests each, 1 admin, 1 moderator, 2 numbers, 5 requests, 1 loss | does a reused number start clean? |
| `install` | 2 channels, 2 releases, 2 polls, 3 requests, 1 fault | does the record match the directory whatever runs or fails? |
| `processes` | 2 launchers with 2 tasks each, 2 ticks, 2 changes per page, 2 calls, 1 mishap | is one instance live, and is no stale list or lifted block believed? |

The bounds are named in the modules and their configurations. They are the least at
which the interesting case happens:

* three players are the fewest for which a promotion leaves somebody to promote to,
  the fourth connection of `match` lets one player be on an old, a live and a closing
  socket, and `store` needs a fourth player so that the order of the joiners who stay
  can be wrong. `LobbyInit` and `MatchInit` are states the assembled system reaches;
  they save the bounds for what happens next;
* with one drop and one death `flow` sees a blip in every state of the client, a
  process that comes back into a match, and both after one another; the carry limit of
  one makes the second chat line the one too many;
* three screens let a ball come back to where it was made by another way, two balls
  let a restarted process repeat an id, one fault is a death, a departure, a blip or a
  broken channel at any moment. `balls` lets no fault happen while somebody holds or
  awaits an item: what a fault does to items is not asked;
* two generations of one session code and three events let a teardown, a late line and
  a moderator meet; two requests per launcher let a reply find an identity other than
  the one it was asked with; two numbers let one be in the pool while the other is in use;
* `update` has a release during an apply and one after a rollback; `processes` a crash
  or a failure on either side, and a relaunch.

Symmetry is used where players, channels, launchers or tasks are interchangeable and
only invariants and action properties are checked.

Fairness. `fair`: tokio polls every ready task again and every sleep elapses, so each
socket's own steps, the timers, the barrier's valve, its activation, the pause valves
and `/start` are weakly fair; nothing is assumed of clients, who may never report
ready, leave or come back. `flow_fair`: the main loop runs every frame and drains the
socket, a dial and a poll are answered, a refused socket closes, the server reads an
identify and a ready, announces a started match and forces a barrier. Nothing makes a
user, a peer, a deadline or the reconnect window act.

### Known deviations

What the models show, or reading for them did, that falls short of what one would
want; the properties state how far the intended ones hold (`OneWinner` while the room
survives, `FounderLossHandled` and `StartedJoinerSlotsHeld` for players connected when
`/start` committed and in the same role since, and so on).

Server sessions: a former host's drop deletes the lobby its successor is connected to,
and a superseded host socket still tears the lobby down. Losing a *promoted* host arms
no promotion: `is_host` is fixed when a socket identifies (`identify.rs:93`). So is the
loss of a host that got the role by a transfer in the lobby and has not identified again
(met from an empty server, outside `match`, whose instance makes no transfer). A player
promoted, rejoined and demoted again can leave without a hold. A rejoin between `arm_grace`'s two locks leaves a timer armed against a present
player. An old pause valve releases a later hold. A leave and a join during `/start`
keep the count, so the announced roster need not be the frozen one. The barrier's latch
dies with the room, so after that a match can start twice; seeding the barrier after
the last socket left re-creates a room nobody removes. A joiner dropped between the
check and the commit of `/start` is seated without a hold.

Client: a `PeerLeft` missed while reconnecting leaves the client awaiting the leaver
(`MatchFlow.Roster.cs:36-37`). A portal to a player who has gone, and a packet to a
screen that still prepares, swallow the ball; a lost master is never served again
(`GameScene.cs:194-197`). A `PeerJoined` read before the old channel's loss is noticed
heals nothing, and one broadcast for a mere blip of the socket opens a portal with no
channel behind it. A client blipping during `match_resumed` stays frozen. A deletion
missed while reconnecting leaves the chat text visible. The random id offset of a
rejoined process (`GameState.cs:396-400`) can in principle repeat an earlier range.

Self-update: a waiter's early return under the rollback lock leaves its schedule with
nobody to act on it, which blocks later automatic updates (`task.rs:465-468`, and the
comment at 489-496); `ScheduleLostToRollback` says that nothing else does. The rollback
handler sends into the bounded channel while it holds the apply lock, triggers
Watchtower before it writes its lock, and keeps the ETag while it deletes the available
version, so a 304 hides a newer release. A failed pre-pull still overwrites the
previous version; an unconditional clear erases a newer schedule; the schedule handler
accepts dates that recovery after a restart discards.

Chat: a flagged line appended between the teardown's look and its `DEL` is lost. A line
appended after the teardown opens a new instance, and the fallback of the pointer's
re-read can leave an unlinked transcript. A session that ends by TTL keeps its pointer
until the sweep. A message checked before a ban is stored after it.

Accounts: two deletions of one number at once, by two admins, with a registration
between them, wipe the new holder (`users.rs:190`). This is what the assumption of at
most one admin excludes. A ban placed on a number nobody owns, or after the deletion
dropped the old one, is inherited; so is a ban whose removal failed. A rename validated
before a deletion can write its name onto the next owner. Two overlapping registrations
of one launcher make two accounts and orphan one.

Launcher: an install is confirmed without asking whether an uninstall, a game or a
verify is under way; Play is allowed during an uninstall; a crash between two renames
leaves only the directory that was moved aside; an update or repair replaces the
install directory with its `saves`, although `repair_confirm.rs:58` says "Your saves
are not affected"; a game that does not answer a probe in time counts as gone. Two
starters that judge one stale discovery file can both go live (`raced` excuses it), and
the guard's drop removes whichever file is there. `note_response` is a
read-modify-write that can wipe another task's block (excused in `OnlyTimeReopens`).

## 4. Proofs

Every property of every run is stated by a theorem, except the five liveness
properties. Each theorem is proved for all values of the constants under the named
assumptions of its module, from an inductive invariant that TLC checked first.

| Module | Inductive invariant | Theorems |
|---|---|---|
| `SessionStoreProofs` | `IInv`: type, `RosterSound`, `MatchSeated` | `TypeCorrect`, `RosterSafe`, `SeatsSafe`, `SeatingIsFrozen`, `SeniorityIsStable` |
| `SessionServerProofs` | `MatchInv` and the invariants below it | `ServerTyped`, `ServerKeepsStore`, `ServerRecordSafe`, `StartsOnce`, `DecisionEndsSession`, `EvictionsByOwn`, `LostHostIsReplaced`, `LostJoinerIsAwaited`, `MatchTypedRecord` |
| `ClientProofs` (screens) | `IInv`: type, `BallInv` | `BallMeshTyped`, `WorkingChannelsEnterScreens`, `BallIdsAreUnique`, `MasterBallKept`, `QuietMatchLosesNothing` |
| `ClientProofs` (flow) | `FlowInv` | `FlowTyped`, `MatchIsEntered`, `SessionsLeaveNothing`, `ChatKeepsRecentPast`, `EndScreenOutlivesSession`, `BlipsNeverPause` |
| `UpdateTaskProofs` | `IInv`: type, `Safe` | `ApplyPathsSerialised`, `RollbackLockWins`, `SwapsKeepTarget`, `SchedulesLostToRollback` |
| `ChatStoreProofs` | `Typed`, `HomeOf(c)`, `Ledger`, `ImportOf(c)` | `ChatTyped`, `EvidenceStays`, `LinesShareInstance`, `LedgerAgrees`, `OldLogImportedOnce` |
| `AccountsProofs` | `IInv`: type, `Claims`, `Keeps`, `Bound` | `NumbersHaveOneHolder`, `IdentitiesLast`, `BansStayWithAccounts` |
| `LauncherInstallProofs` | `IInv`: type, `GameInv`, `JobsExclude`, `RecordInv` | `JobsNeverOverlap`, `LiveGameKeepsFlag`, `RecordTellsDisk` |
| `LauncherProcessesProofs` | `SlotInv`, `CacheInv` | `OneLauncherClaims`, `RevalidatedListIsCurrent`, `GateOpensWithTime` |

The arguments:

* **Session record.** `MatchSeated` is not inductive alone: that a departing host can
  keep a seat needs `RosterSound`, and both need the type. Lemmas say what removing,
  appending and prepending do to a duplicate-free sequence.
* **Server.** `ServerKeepsStore` is the refinement: every step of the server is an
  operation of `SessionStore` on `session` or leaves it alone. It needs that a promotion
  in flight never counts the host it replaces among the connected. `ServerRecordSafe`
  carries the store's invariants over. `StartsOnce` follows the latch from the seeded
  barrier to the broadcast; `DecisionEndsSession` the winning report's task to its
  `DEL`. For a match under way, `MatchInv` ties each player of the roster to a live
  socket, a task that still has to act, or an armed grace entry with its timer: it is
  the conjunction of `Sound`, `UnderWay`, `Roles`, `HostTasks`, `FounderHeld` and
  `JoinersHeld`, of which the last two are the properties.
* **Screens.** Every step is one of five kinds as far as the balls can tell: it loses
  some (`Shrinks`), passes one on (`Moves`), serves a lost master again (`Reserves`),
  splits (`Grows`) or is the first serve. The invariant is kept kind by kind. That ids
  stay apart needs that every ball's id lies below what its seat's processes have used
  (`IdsBelow`), that a new process starts above it, and that a host which still has to
  serve has seen no ball. The refinement of `MasterBall` follows from the same kinds.
  `QuietMatchLosesNothing` carries `Clean`, what holds of a match without a fault:
  channels are symmetric, the master is somewhere, and items add up.
* **Client flow.** `FlowInv` joins the types with `Wire` (which frames can be on the
  way in which state), `Told` (what the server has been told), `Meshless` and `Offline`.
* **Self-update.** Lock, then read: past its check an applier is the lock's holder, and
  the rollback writes its key only as the holder.
* **Chat.** `Counted` bounds the ids still to be issued by the events left, so that ids
  never collide; `HomeOf(c)` follows a request from the instance it resolved to the one
  it writes to; `Balanced(p)` counts records, bans under way and bans lost.
* **Accounts.** A number is in the pool, in one request's hands or in one account;
  tokens drawn later differ from all earlier ones.
* **Launcher.** `RecordInv` says, stage by stage, what the directory holds while a job
  is under way. `SlotInv` says who a blank or a numbered file can belong to. `CacheInv`
  relates each page in hand to the ETag and the time it was fetched at.

Assumptions on constants: `MinPlayers` is at least 2 and bounds every capacity
(`gamemode.rs`); connections are numbered; bounds are naturals;
players, moderators and launchers are finite sets where they are counted; the caller sets of Accounts are
disjoint and have at most one admin; a session makes fewer than 1,000 balls per process
and has fewer than 1,000 faults, which keeps a seat's ids in its block of 1,000,000; a
rate limit's window with its padding, and the fallback, are not empty.

Only model-checked:

* liveness, which rests on fairness and ENABLED: `PauseEnds`, `HoldResolves`,
  `BarrierResolves`, `ReadyResolves`, `LobbyRecovers`;
* that the system assembled from nothing reaches the matches `LostHostIsReplaced` and
  `LostJoinerIsAwaited` speak of: those begin in `MatchInit`, with everybody connected.

## 5. Not modelled

* Admin pages and login, server start-up, configuration, redaction; rendering, input
  and physics of the client; the launcher's views, firewall and changelog; build,
  release and packaging; the shared types.
* The word list of the chat and its cache, reading pages, the encoding of ids.
* WebRTC's negotiation (one step), offers, answers and clock synchronisation; TURN
  credentials beyond the room a cached set may re-create; rate limits of the server.
* More than one `/start` in flight, a session code reused after its end (outside
  ChatStore), Redis failures in the session handlers, a restart of the signaling server.
* The Windows build of the launcher, download progress, resetting caches, and the
  game's own copy of the single-instance slot.

## 6. Plan

1. `LostHostIsReplaced` and `LostJoinerIsAwaited` from an empty server as well: the
   marker `unmoved` must then leave out a host whose socket predates its transfer.
2. The word list and its cache (reload against invalidate), and the admin login.
3. The composition of `MatchFlow` with `SessionServer` over one queue per socket, in
   place of the server half that `MatchFlow` has of its own.
4. Abstract specifications for what two components promise each other: `GraceLatch`
   (armed once, taken once), `ReadyBarrier`, and the install record as seen by Play.
5. Pure functions against reference definitions: semantic versions and release choice,
   win condition, loot weights.
