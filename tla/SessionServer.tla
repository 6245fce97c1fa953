---------------------------- MODULE SessionServer ----------------------------
(***************************************************************************)
(* One session code on the matchmaking server: the REST handlers, the      *)
(* WebSocket tasks, the grace timers and the two valves, all interleaving  *)
(* over the Redis record (SessionStore) and the in-process room            *)
(* (SignalHub).                                                            *)
(*                                                                         *)
(* The server is multi-threaded async Rust.  A handler is atomic only      *)
(* between two awaits on shared state, so a handler that takes several     *)
(* locks or Redis round trips is one action per shared access, and `pc`    *)
(* says where the task stands.  Steps nobody else can observe apart        *)
(* (usernames, logging, two accesses that commute) are merged.             *)
(***************************************************************************)
EXTENDS SignalHub, Sequences, SequencesExt

CONSTANTS Capacities, MinPlayers, NoSession,
          Lobby,        \* LobbyInit: the host followed by the joiners
          WinTarget,    \* the win condition's target score
          MaxOpens,     \* bound: sockets identified in one behaviour
          MaxJoins,     \* bound: POST /join calls that succeed
          MaxTransfers, \* bound: host handoffs
          MaxCloses,    \* bound: DELETE /session calls
          MaxReports,   \* bound: score reports
          TtlLapses     \* whether the key's TTL may lapse

\* A full lobby: everybody once, each on a connection.
ASSUME LobbyAssumption ==
    /\ Lobby \in Seq(Players)
    /\ Len(Lobby) \in Capacities
    /\ 1 .. Len(Lobby) \subseteq Conns
    /\ \A p \in Players : \E i \in 1 .. Len(Lobby) : Lobby[i] = p
    /\ \A i, j \in 1 .. Len(Lobby) : Lobby[i] = Lobby[j] => i = j

ASSUME BoundAssumption ==
    /\ {MaxOpens, MaxJoins, MaxTransfers, MaxCloses, MaxReports, WinTarget} \subseteq Nat
    /\ TtlLapses \in BOOLEAN

VARIABLES
    session,    \* Redis: session:<code>
    room,       \* SignalHub.rooms[code]
    socks,      \* the socket tasks, by connection
    grace,      \* SignalHub.grace: player and kind to the timer's id, 0 if none
    timers,     \* the spawned grace timers
    promos,     \* tasks inside promote_demote_or_end_active, between its two steps
    start,      \* the /start handler in flight
    barrier,    \* the ready barrier's valve
    valves,     \* the pause valves, one per hold placed
    hold,       \* history: holds placed so far for each player
    closer,     \* DELETE /session between its check and its DEL
    spent,      \* bounds used up
    announced,  \* history: peers of the StartSignaling broadcast
    started,    \* history: MatchStarted broadcasts
    roomLost,   \* history: the room was dropped after the barrier was seeded
    unmoved     \* history: connected when /start committed, in the same role since

taskVars == <<socks, grace, timers, promos>>
startVars == <<start, barrier, announced, started, unmoved>>
pauseVars == <<valves, hold>>
vars == <<session, room, taskVars, startVars, pauseVars, closer, spent, roomLost>>

Store == INSTANCE SessionStore

\* What SessionStore assumes of the constants it shares with this module.
ASSUME StoreAssumption ==
    /\ MinPlayers \in Nat /\ MinPlayers >= 2
    /\ Capacities \subseteq {n \in Nat : n >= MinPlayers}
    /\ NoSession \notin Store!Session

Kinds == {"promotion", "reconnect"}
Closed == [pc |-> "closed"]
Idle == [pc |-> "idle"]
Nobody == "nobody"

MaxStartRetries == 3

-----------------------------------------------------------------------------
(* Helpers *)

Spend(what) == spent' = [spent EXCEPT ![what] = @ + 1]

\* c is the first connection not in use.
FreeConn(c) == socks[c] = Closed /\ \A d \in Conns : d < c => socks[d] # Closed

At(c, pc) == socks[c] # Closed /\ socks[c].pc = pc
Goto(c, pc) == socks' = [socks EXCEPT ![c].pc = pc]
Finish(c) == socks' = [socks EXCEPT ![c] = Closed]
Who(c) == socks[c].player

Present(p) == p \in RoomMembers(room)

Cancel(g, p, kind) == [g EXCEPT ![p][kind] = 0]

\* n is the first id no timer has.
FreshTimer(n) ==
    /\ \A t \in timers : t.id # n
    /\ \A k \in 1 .. (n - 1) : \E t \in timers : t.id = k

\* The room changes to r; note it if that drops a seeded room.
RoomBecomes(r) ==
    /\ room' = r
    /\ roomLost' = (roomLost \/ (room # NoRoom /\ r = NoRoom /\ room.ready_roster # {}))

\* Broadcast MatchStarted; activation is the task's next step.
BroadcastStarted == started' = started + 1

-----------------------------------------------------------------------------
(* REST handlers *)

HostSession(p, n) ==
    /\ spent.joins = 0
    /\ Store!Host(p, n)
    /\ Spend("joins")
    /\ UNCHANGED <<room, taskVars, startVars, pauseVars, closer, roomLost>>

JoinSession(p) ==
    /\ spent.joins \in 1 .. MaxJoins
    /\ Store!Join(p)
    /\ Spend("joins")
    /\ UNCHANGED <<room, taskVars, startVars, pauseVars, closer, roomLost>>

TransferHost(p, target) ==
    /\ spent.transfers < MaxTransfers
    /\ Store!TransferHost(p, target)
    /\ Spend("transfers")
    /\ UNCHANGED <<room, taskVars, startVars, pauseVars, closer, roomLost>>

\* DELETE /session/:code checks the host, then deletes: two round trips.
CloseCheck(p) ==
    /\ spent.closes < MaxCloses
    /\ closer = Nobody
    /\ session # NoSession
    /\ session.host = p
    /\ closer' = p
    /\ Spend("closes")
    /\ UNCHANGED <<session, room, taskVars, startVars, pauseVars, roomLost>>

CloseDelete ==
    /\ closer # Nobody
    /\ closer' = Nobody
    /\ session' = NoSession
    /\ UNCHANGED <<room, taskVars, startVars, pauseVars, spent, roomLost>>

SessionExpires ==
    /\ TtlLapses
    /\ Store!Expire
    /\ UNCHANGED <<room, taskVars, startVars, pauseVars, closer, spent, roomLost>>

-----------------------------------------------------------------------------
(* POST /session/:code/start *)

MemberList(s) == <<s.host>> \o s.joiners

AllConnected(s) == Store!Members(s) \subseteq RoomMembers(room)

Checked(p, tries) ==
    [pc |-> "checked", by |-> p, members |-> MemberList(session), tries |-> tries]

\* The client offers Start to the host alone; it may be demoted by the commit.
StartCheck ==
    /\ start = Idle
    /\ session # NoSession
    /\ session.status = "waiting"
    /\ AllConnected(session)
    /\ start' = Checked(session.host, 1)
    /\ UNCHANGED <<session, room, taskVars, barrier, announced, started, unmoved,
                   pauseVars, closer, spent, roomLost>>

StartRecheck ==
    /\ start.pc = "retry"
    /\ start' = IF session # NoSession /\ AllConnected(session)
                THEN Checked(start.by, start.tries) ELSE Idle
    /\ UNCHANGED <<session, room, taskVars, barrier, announced, started, unmoved,
                   pauseVars, closer, spent, roomLost>>

\* Faulty: the session read at the check is written back.
StartCommitFromRead ==
    /\ start.pc = "checked"
    /\ session # NoSession
    /\ session' = [session EXCEPT !.status = "starting", !.joiners = Tail(start.members),
                                  !.seat_order = start.members]
    /\ start' = [start EXCEPT !.pc = "seed"]
    /\ unmoved' = RoomMembers(room)
    /\ UNCHANGED <<room, taskVars, barrier, announced, started, pauseVars, closer,
                   spent, roomLost>>

StartCommit ==
    /\ start.pc = "checked"
    /\ \/ /\ Store!Start(start.by, Len(start.members) - 1)
          /\ start' = [start EXCEPT !.pc = "seed"]
          /\ unmoved' = RoomMembers(room)
       \/ /\ Store!StartAllowed(start.by)
          /\ Len(session.joiners) # Len(start.members) - 1
          /\ start' = IF start.tries < MaxStartRetries
                      THEN [start EXCEPT !.pc = "retry", !.tries = @ + 1] ELSE Idle
          /\ UNCHANGED <<session, unmoved>>
       \/ /\ ~Store!StartAllowed(start.by)
          /\ start' = Idle
          /\ UNCHANGED <<session, unmoved>>
    /\ UNCHANGED <<room, taskVars, barrier, announced, started, pauseVars, closer,
                   spent, roomLost>>

\* The roster the barrier waits on is the one read at StartCheck.
StartSeed ==
    /\ start.pc = "seed"
    /\ room' = SetReadyRoster(SetWinTarget(room, WinTarget), ToSet(start.members))
    /\ start' = [start EXCEPT !.pc = "announce"]
    /\ UNCHANGED <<session, taskVars, barrier, announced, started, unmoved,
                   pauseVars, closer, spent, roomLost>>

\* The TURN mint (up to 5s), its cache, the broadcast, then the valve.
StartAnnounce ==
    /\ start.pc = "announce"
    /\ \E minted \in BOOLEAN : room' = IF minted THEN SetIceServers(room) ELSE room
    /\ announced' = start.members
    /\ barrier' = "sleeping"
    /\ start' = Idle
    /\ UNCHANGED <<session, taskVars, started, unmoved, pauseVars, closer, spent,
                   roomLost>>

-----------------------------------------------------------------------------
(* WebSocket task: identify *)

\* Membership, is_host and so on are read once, from this GET.
Identify(p, rejoin) ==
    /\ spent.opens < MaxOpens
    /\ session # NoSession
    /\ p \in Store!Members(session)
    /\ rejoin => session.status # "waiting"
    /\ \E c \in Conns :
          /\ FreeConn(c)
          /\ socks' = [socks EXCEPT ![c] =
                         [player |-> p, is_host |-> session.host = p, rejoin |-> rejoin,
                          late |-> session.status # "waiting", leave |-> FALSE,
                          pc |-> "identified"]]
    /\ Spend("opens")
    /\ UNCHANGED <<session, room, grace, timers, promos, startVars, pauseVars, closer,
                   roomLost>>

\* join_room and the roster snapshot, whose failure backs out again.
Register(c) ==
    /\ At(c, "identified")
    /\ LET joined == JoinRoom(room, Who(c), c)
       IN  IF session = NoSession
           THEN RoomBecomes(LeaveRoom(joined, Who(c), c)) /\ Finish(c)
           ELSE /\ room' = joined
                /\ Goto(c, IF Store!Live(session) THEN "joined live" ELSE "joined")
                /\ UNCHANGED roomLost
    /\ UNCHANGED <<session, grace, timers, promos, startVars, pauseVars, closer, spent>>

\* Up to 5s later, when the snapshot was a match's and its credentials had to be
\* minted and cached anew: Identified, PeerJoined, and both grace entries.
Welcome(c) ==
    /\ At(c, "joined") \/ At(c, "joined live")
    /\ \E minted \in BOOLEAN :
          /\ minted => At(c, "joined live")
          /\ room' = IF minted THEN SetIceServers(room) ELSE room
    /\ grace' = LET g == Cancel(grace, Who(c), "reconnect")
                IN  IF socks[c].is_host THEN Cancel(g, Who(c), "promotion") ELSE g
    /\ Goto(c, IF socks[c].rejoin THEN "registered" ELSE "pump")
    /\ UNCHANGED <<session, timers, promos, startVars, pauseVars, closer, spent, roomLost>>

\* Faulty: the hold is placed and no valve is armed.
PauseMatchNoValve(c) ==
    /\ At(c, "registered")
    /\ room' = PauseFor(room, Who(c))
    /\ hold' = [hold EXCEPT ![Who(c)] = IF Pausable(room, Who(c)) THEN @ + 1 ELSE @]
    /\ Goto(c, "pump")
    /\ UNCHANGED <<session, grace, timers, promos, startVars, valves, closer, spent,
                   roomLost>>

PauseMatch(c) ==
    /\ At(c, "registered")
    /\ room' = PauseFor(room, Who(c))
    /\ IF Pausable(room, Who(c))
       THEN /\ hold' = [hold EXCEPT ![Who(c)] = @ + 1]
            /\ valves' = valves \cup {[player |-> Who(c), hold |-> hold[Who(c)] + 1]}
       ELSE UNCHANGED <<hold, valves>>
    /\ Goto(c, "pump")
    /\ UNCHANGED <<session, grace, timers, promos, startVars, closer, spent, roomLost>>

-----------------------------------------------------------------------------
(* WebSocket task: client frames *)

\* A client is ready after StartSignaling, or on a socket it opened because the
\* lobby poll or its /join told it that the match is past Waiting.
ClientReady(c) ==
    /\ At(c, "pump")
    /\ announced # <<>> \/ socks[c].late
    /\ CASE ReadyOutcome(room, Who(c)) = "AllReady" ->
              /\ room' = RecordReady(room, Who(c))
              /\ BroadcastStarted
              /\ Goto(c, "activating")
         [] ReadyOutcome(room, Who(c)) = "Pending" ->
              /\ room' = RecordReady(room, Who(c))
              /\ UNCHANGED <<started, socks>>
         [] ReadyOutcome(room, Who(c)) = "AlreadyStarted" ->
              /\ room' = ClearPause(room, Who(c))
              /\ UNCHANGED <<started, socks>>
         [] OTHER -> UNCHANGED <<room, started, socks>>
    /\ UNCHANGED <<session, grace, timers, promos, start, barrier, announced,
                   unmoved, pauseVars, closer, spent, roomLost>>

ActivateFromSocket(c) ==
    /\ At(c, "activating")
    /\ IF session # NoSession /\ session.status = "starting"
       THEN Store!Activate ELSE UNCHANGED session
    /\ Goto(c, "pump")
    /\ UNCHANGED <<room, grace, timers, promos, startVars, pauseVars, closer, spent,
                   roomLost>>

ReportScore(c, scorer, points) ==
    /\ At(c, "pump")
    /\ spent.reports < MaxReports
    /\ Creditable(room, scorer, points)
    /\ room' = RecordScore(room, scorer, points)
    /\ IF Wins(room, scorer, points) THEN Goto(c, "winning") ELSE UNCHANGED socks
    /\ Spend("reports")
    /\ UNCHANGED <<session, grace, timers, promos, startVars, pauseVars, closer, roomLost>>

\* Faulty: the win is announced and the session stays.
EndWonSessionLate(c) ==
    /\ At(c, "winning")
    /\ Goto(c, "pump")
    /\ UNCHANGED <<session, room, grace, timers, promos, startVars, pauseVars, closer,
                   spent, roomLost>>

\* end_session after the GameOver broadcast.
EndWonSession(c) ==
    /\ At(c, "winning")
    /\ session' = NoSession
    /\ Goto(c, "pump")
    /\ UNCHANGED <<room, grace, timers, promos, startVars, pauseVars, closer, spent,
                   roomLost>>

-----------------------------------------------------------------------------
(* WebSocket task: cleanup *)

\* leave_room; "left" is was_live, "stale" is not.
LeaveTheRoom(c, leave) ==
    /\ RoomBecomes(LeaveRoom(room, Who(c), c))
    /\ socks' = [socks EXCEPT ![c].pc = IF Bound(room, Who(c), c) THEN "left" ELSE "stale",
                              ![c].leave = leave]
    /\ UNCHANGED <<session, grace, timers, promos, startVars, pauseVars, closer, spent>>

\* The client says Leave, or its connection drops.
SocketCloses(c, leave) == At(c, "pump") /\ LeaveTheRoom(c, leave)

\* The hub dropped this task's sender: a newer socket took the player over.
Superseded(c) ==
    /\ At(c, "pump")
    /\ ~Bound(room, Who(c), c)
    /\ LeaveTheRoom(c, FALSE)

InCleanup(c) == At(c, "left") \/ At(c, "stale")

\* Only the player's live socket releases its pause hold.
ReleaseHold(c) == room' = IF At(c, "left") THEN ClearPause(room, Who(c)) ELSE room

CheckPc == [promotion |-> "check promotion", reconnect |-> "check reconnect"]
InsertPc == [promotion |-> "insert promotion", reconnect |-> "insert reconnect"]

\* Faulty: a lost host gets a joiner's grace.
HostCleanupAsJoiner(c) ==
    /\ InCleanup(c)
    /\ ReleaseHold(c)
    /\ socks[c].is_host
    /\ UNCHANGED session
    /\ IF session = NoSession THEN Finish(c) ELSE Goto(c, CheckPc["reconnect"])
    /\ UNCHANGED <<grace, timers, promos, startVars, pauseVars, closer, spent, roomLost>>

\* is_host is the one read at Identify.
HostCleanup(c) ==
    /\ InCleanup(c)
    /\ ReleaseHold(c)
    /\ socks[c].is_host
    /\ IF session # NoSession /\ session.status = "waiting"
       THEN Store!EndIfWaiting /\ Finish(c)
       ELSE /\ UNCHANGED session
            /\ IF session = NoSession THEN Finish(c)
               ELSE Goto(c, IF socks[c].leave THEN "promote" ELSE CheckPc["promotion"])
    /\ UNCHANGED <<grace, timers, promos, startVars, pauseVars, closer, spent,
                   roomLost>>

JoinerCleanup(c) ==
    /\ InCleanup(c)
    /\ ReleaseHold(c)
    /\ ~socks[c].is_host
    /\ IF socks[c].leave
       THEN /\ IF session # NoSession /\ Who(c) \in ToSet(session.joiners)
               THEN Store!RemoveJoiner(Who(c)) ELSE UNCHANGED session
            /\ Finish(c)
       ELSE /\ UNCHANGED session
            /\ IF Store!Live(session) THEN Goto(c, CheckPc["reconnect"]) ELSE Finish(c)
    /\ UNCHANGED <<grace, timers, promos, startVars, pauseVars, closer, spent,
                   roomLost>>

\* arm_grace looks for a live socket under the rooms lock...
ArmCheck(c, kind) ==
    /\ At(c, CheckPc[kind])
    /\ IF Present(Who(c)) THEN Finish(c) ELSE Goto(c, InsertPc[kind])
    /\ UNCHANGED <<session, room, grace, timers, promos, startVars, pauseVars, closer,
                   spent, roomLost>>

\* ...and inserts under the grace lock; then the timer is spawned.
ArmInsert(c, kind) ==
    /\ At(c, InsertPc[kind])
    /\ \E n \in 1 .. (Cardinality(timers) + 1) :
          /\ FreshTimer(n)
          /\ grace' = [grace EXCEPT ![Who(c)][kind] = n]
          /\ timers' = timers \cup {[id |-> n, kind |-> kind, player |-> Who(c),
                                     pc |-> "sleeping"]}
    /\ IF kind = "promotion" THEN Goto(c, CheckPc["reconnect"]) ELSE Finish(c)
    /\ UNCHANGED <<session, room, promos, startVars, pauseVars, closer, spent, roomLost>>

-----------------------------------------------------------------------------
(* Grace timers *)

\* A promotion is 90s ahead of the slot's hold that was armed with it.
PromotionUnderWay(p) ==
    \/ \E u \in timers : u.player = p /\ u.kind = "promotion"
    \/ \E m \in promos : m.host = p

\* The stored sender was dropped: taken, or overwritten by a newer arm.
TimerCancelled(t) ==
    /\ t.pc = "sleeping"
    /\ grace[t.player][t.kind] # t.id
    /\ timers' = timers \ {t}
    /\ UNCHANGED <<session, room, socks, grace, promos, startVars, pauseVars, closer,
                   spent, roomLost>>

\* Faulty: the entry is looked up, not taken.
PeekGrace(t) ==
    /\ t.pc = "sleeping"
    /\ grace[t.player][t.kind] # 0
    /\ UNCHANGED grace

\* The sleep ends.  take_grace is by key, and a timer whose sleep ended before it
\* saw its own cancellation takes whatever entry it finds there.
TakeGrace(t) ==
    /\ t.pc = "sleeping"
    /\ grace[t.player][t.kind] # 0
    /\ grace' = Cancel(grace, t.player, t.kind)

\* The Reconnect window elapsed; PeerLeft, then the slot is freed.
SlotTimerFires(t) ==
    /\ t.kind = "reconnect"
    /\ ~PromotionUnderWay(t.player)
    /\ TakeGrace(t)
    /\ timers' = (timers \ {t}) \cup {[t EXCEPT !.pc = "claimed"]}
    /\ UNCHANGED <<session, room, socks, promos, startVars, pauseVars, closer, spent,
                   roomLost>>

\* Faulty: peers are told, the slot is not freed.
FreeSlotNoticeOnly(t) ==
    /\ t.pc = "claimed"
    /\ timers' = timers \ {t}
    /\ UNCHANGED <<session, room, socks, grace, promos, startVars, pauseVars, closer,
                   spent, roomLost>>

FreeSlot(t) ==
    /\ t.pc = "claimed"
    /\ IF session # NoSession /\ t.player \in ToSet(session.joiners)
       THEN Store!RemoveJoiner(t.player) ELSE UNCHANGED session
    /\ timers' = timers \ {t}
    /\ UNCHANGED <<room, socks, grace, promos, startVars, pauseVars, closer, spent,
                   roomLost>>

-----------------------------------------------------------------------------
(* Promotion: snapshot who is connected, then run the script with it. *)

Snapshot(p, keep) ==
    promos' = promos \cup {[host |-> p, keep |-> keep, seen |-> RoomMembers(room) \ {p}]}

PromotionTimerFires(t) ==
    /\ t.kind = "promotion"
    /\ TakeGrace(t)
    /\ Snapshot(t.player, TRUE)
    /\ timers' = timers \ {t}
    /\ UNCHANGED <<session, room, socks, startVars, pauseVars, closer, spent, roomLost>>

PromoteAfterLeave(c) ==
    /\ At(c, "promote")
    /\ Snapshot(Who(c), FALSE)
    /\ Finish(c)
    /\ UNCHANGED <<session, room, grace, timers, startVars, pauseVars, closer, spent,
                   roomLost>>

PromoteCommit(m) ==
    /\ IF Store!Live(session) /\ session.host = m.host
       THEN /\ Store!PromoteOrEnd(m.host, m.seen, m.keep)
            /\ unmoved' = IF session' = NoSession THEN unmoved
                          ELSE unmoved \ {m.host, session'.host}
       ELSE UNCHANGED <<session, unmoved>>
    /\ promos' = promos \ {m}
    /\ UNCHANGED <<room, socks, grace, timers, start, barrier, announced, started,
                   pauseVars, closer, spent, roomLost>>

-----------------------------------------------------------------------------
(* Valves *)

\* Faulty: the valve gives up while nobody is ready.
BarrierValveTimid ==
    /\ barrier = "sleeping"
    /\ IF Forceable(room) /\ room.ready # {}
       THEN room' = ForceMatchStart(room) /\ barrier' = "activating" /\ BroadcastStarted
       ELSE barrier' = "done" /\ UNCHANGED <<room, started>>
    /\ UNCHANGED <<session, taskVars, start, announced, unmoved, pauseVars, closer,
                   spent, roomLost>>

BarrierValve ==
    /\ barrier = "sleeping"
    /\ room' = ForceMatchStart(room)
    /\ IF Forceable(room)
       THEN barrier' = "activating" /\ BroadcastStarted
       ELSE barrier' = "done" /\ UNCHANGED started
    /\ UNCHANGED <<session, taskVars, start, announced, unmoved, pauseVars, closer,
                   spent, roomLost>>

ActivateFromValve ==
    /\ barrier = "activating"
    /\ IF session # NoSession /\ session.status = "starting"
       THEN Store!Activate ELSE UNCHANGED session
    /\ barrier' = "done"
    /\ UNCHANGED <<room, taskVars, start, announced, started, unmoved, pauseVars,
                   closer, spent, roomLost>>

PauseValve(v) ==
    /\ room' = ClearPause(room, v.player)
    /\ valves' = valves \ {v}
    /\ UNCHANGED <<session, taskVars, startVars, hold, closer, spent, roomLost>>

-----------------------------------------------------------------------------
NoTasks ==
    /\ grace = [p \in Players |-> [kind \in Kinds |-> 0]]
    /\ timers = {} /\ promos = {} /\ valves = {} /\ closer = Nobody
    /\ hold = [p \in Players |-> 0] /\ roomLost = FALSE

NeverStarted ==
    /\ start = Idle /\ barrier = "none"
    /\ announced = <<>> /\ started = 0 /\ unmoved = {}

\* The server has just come up.
Init ==
    /\ session = NoSession
    /\ room = NoRoom
    /\ socks = [c \in Conns |-> Closed]
    /\ spent = [joins |-> 0, opens |-> 0, transfers |-> 0, closes |-> 0, reports |-> 0]
    /\ NoTasks
    /\ NeverStarted

LobbySenders == [p \in Players |-> CHOOSE i \in 1 .. Len(Lobby) : Lobby[i] = p]

LobbySocks ==
    [c \in Conns |-> IF c <= Len(Lobby)
                     THEN [player |-> Lobby[c], is_host |-> c = 1, rejoin |-> FALSE,
                           late |-> FALSE, leave |-> FALSE, pc |-> "pump"]
                     ELSE Closed]

Opened(n) ==
    spent = [joins |-> 1, opens |-> n, transfers |-> 0, closes |-> 0, reports |-> 0]

\* A lobby whose members have all joined and identified, in Lobby's order.
FullLobby ==
    /\ session = [host |-> Lobby[1], joiners |-> Tail(Lobby), status |-> "waiting",
                  seat_order |-> <<>>, player_count |-> Len(Lobby)]
    /\ socks = LobbySocks
    /\ room = [DefaultRoom EXCEPT !.senders = LobbySenders]
    /\ NoTasks
    /\ NeverStarted

LobbyInit == FullLobby /\ Opened(Len(Lobby))

\* The same members, once the match is under way.
MatchInit ==
    /\ session = [host |-> Lobby[1], joiners |-> Tail(Lobby), status |-> "active",
                  seat_order |-> Lobby, player_count |-> Len(Lobby)]
    /\ socks = LobbySocks
    /\ room = [DefaultRoom EXCEPT
                 !.senders = LobbySenders, !.win_target = WinTarget,
                 !.ready_roster = Players, !.ready = Players, !.match_started = TRUE]
    /\ Opened(Len(Lobby))
    /\ NoTasks
    /\ start = Idle /\ barrier = "done"
    /\ announced = Lobby /\ started = 1 /\ unmoved = Players

\* Steps the server's own tasks owe.
SocketStep(c) ==
    \/ Register(c) \/ Welcome(c) \/ PauseMatch(c)
    \/ ActivateFromSocket(c) \/ EndWonSession(c)
    \/ Superseded(c) \/ HostCleanup(c) \/ JoinerCleanup(c)
    \/ \E kind \in Kinds : ArmCheck(c, kind) \/ ArmInsert(c, kind)
    \/ PromoteAfterLeave(c)

TimerStep ==
    \/ \E t \in timers : \/ TimerCancelled(t) \/ SlotTimerFires(t) \/ FreeSlot(t)
                         \/ PromotionTimerFires(t)
    \/ \E m \in promos : PromoteCommit(m)

ValveStep == BarrierValve \/ ActivateFromValve \/ \E v \in valves : PauseValve(v)

StartStep == StartRecheck \/ StartCommit \/ StartSeed \/ StartAnnounce

\* What the clients and the clock decide.
ClientStep ==
    \/ \E p \in Players : \/ \E n \in Capacities : HostSession(p, n)
                          \/ JoinSession(p)
                          \/ \E q \in Players : TransferHost(p, q)
                          \/ CloseCheck(p)
                          \/ \E rejoin \in BOOLEAN : Identify(p, rejoin)
    \/ StartCheck
    \/ \E c \in Conns : \/ ClientReady(c)
                        \/ \E q \in Players, n \in 1 .. 3 : ReportScore(c, q, n)
                        \/ \E leave \in BOOLEAN : SocketCloses(c, leave)
    \/ SessionExpires

Next ==
    \/ ClientStep
    \/ \E c \in Conns : SocketStep(c)
    \/ TimerStep
    \/ ValveStep
    \/ StartStep
    \/ CloseDelete

Spec == Init /\ [][Next]_vars
LobbySpec == LobbyInit /\ [][Next]_vars
MatchSpec == MatchInit /\ [][Next]_vars

\* Every spawned task is polled again and every timer elapses; nothing is
\* assumed of the clients.
Fairness ==
    /\ \A c \in Conns : WF_vars(SocketStep(c))
    /\ WF_vars(TimerStep)
    /\ WF_vars(BarrierValve) /\ WF_vars(ActivateFromValve)
    /\ WF_vars(\E v \in valves : PauseValve(v))
    /\ WF_vars(StartStep)

\* A lobby in which nobody reconnects, or a match in which somebody may.
FairSpec ==
    ((FullLobby /\ Opened(MaxOpens)) \/ MatchInit) /\ [][Next]_vars /\ Fairness

-----------------------------------------------------------------------------
(* Properties: types and refinement *)

SockPcs ==
    {"identified", "joined", "joined live", "registered", "pump", "activating",
     "winning", "left", "stale", "promote"}
    \cup {CheckPc[k] : k \in Kinds} \cup {InsertPc[k] : k \in Kinds}

Sock == [player : Players, is_host : BOOLEAN, rejoin : BOOLEAN, late : BOOLEAN,
         leave : BOOLEAN, pc : SockPcs]

Timer == [id : Nat \ {0}, kind : Kinds, player : Players, pc : {"sleeping", "claimed"}]

StartTask == [pc : {"checked", "retry", "seed", "announce"}, by : Players,
              members : Seq(Players), tries : 1 .. MaxStartRetries]

TypeOK ==
    /\ session \in Store!Session \cup {NoSession}
    /\ room \in Room \cup {NoRoom}
    /\ socks \in [Conns -> Sock \cup {Closed}]
    /\ grace \in [Players -> [Kinds -> Nat]]
    /\ timers \subseteq Timer
    /\ promos \subseteq [host : Players, keep : BOOLEAN, seen : SUBSET Players]
    /\ start \in StartTask \cup {Idle}
    /\ barrier \in {"none", "sleeping", "activating", "done"}
    /\ valves \subseteq [player : Players, hold : Nat]
    /\ hold \in [Players -> Nat]
    /\ closer \in Players \cup {Nobody}
    /\ spent \in [{"joins", "opens", "transfers", "closes", "reports"} -> Nat]
    /\ announced \in Seq(Players)
    /\ started \in Nat
    /\ unmoved \subseteq Players
    /\ roomLost \in BOOLEAN

\* Every write any handler makes of the key is one operation of SessionStore, so
\* what is proved of the record holds of the running server.
KeepsStore == [][Store!Next]_session

-----------------------------------------------------------------------------
(* Properties: sockets *)

\* A player stops being present only through the cleanup of the very socket the
\* room was bound to, or of a newer one that finds the session gone: an older
\* socket's late cleanup evicts nobody.
EvictedOnlyByOwn ==
    [][\A p \in Players :
          p \in RoomMembers(room) /\ p \notin RoomMembers(room') =>
             \/ socks'[room.senders[p]].pc = "left"
             \/ session = NoSession /\ \E c \in Conns : At(c, "identified") /\ Who(c) = p
      ]_vars

-----------------------------------------------------------------------------
(* Properties: start, barrier, score *)

\* The last ClientReady and the valve never both start the match, as long as the
\* room the barrier lives in survives.
OneWinner == ~roomLost => started <= 1

\* A decided match is over: once the winning report's task is done, no session
\* is left to score in or to promote a host of.
DecidedMeansOver ==
    room # NoRoom /\ room.game_over /\ (\A c \in Conns : ~At(c, "winning"))
        => session = NoSession

-----------------------------------------------------------------------------
(* Properties: absence and grace *)

\* Some task of p's will still act on its presence.
InFlight(p) ==
    \/ \E c \in Conns : socks[c] # Closed /\ Who(c) = p
    \/ \E t \in timers : t.player = p /\ t.pc # "sleeping"
    \/ \E m \in promos : m.host = p

Lost(p) == ~Present(p) /\ ~InFlight(p)

\* Whenever the host of a live match is lost, its promotion is pending.
HostLossHandled ==
    Store!Live(session) /\ Lost(session.host)
        => grace[session.host]["promotion"] # 0

\* The same for the host the match was started by, until it is first replaced.
FounderLossHandled ==
    Store!Live(session) /\ session.host \in unmoved => HostLossHandled

\* If p is a joiner of a live match and lost, its slot is held for a rejoin.
SlotHeld(p) ==
    Store!Live(session) /\ p \in ToSet(session.joiners) /\ Lost(p)
        => grace[p]["reconnect"] # 0

\* A joiner that was connected when /start committed and has not been host since
\* keeps its slot, absent or not, until its hold runs out.
StartedJoinerSlotsHeld == Store!Live(session) => \A p \in unmoved : SlotHeld(p)

-----------------------------------------------------------------------------
(* Properties: liveness *)

\* However a rejoin ends, the match is not left frozen.
PauseEnds ==
    \A p \in Players :
        (room # NoRoom /\ p \in room.paused_for)
            ~> (room = NoRoom \/ p \notin room.paused_for)

\* A match that is starting starts or ends, unless its barrier was lost.
BarrierResolves ==
    (session # NoSession /\ session.status = "starting")
        ~> (session = NoSession \/ session.status # "starting" \/ roomLost)

\* A slot that is held is rejoined or freed.
HoldResolves ==
    \A p \in Players : grace[p]["reconnect"] # 0 ~> grace[p]["reconnect"] = 0
=============================================================================
