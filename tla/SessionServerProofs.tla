------------------------- MODULE SessionServerProofs -------------------------
(***************************************************************************)
(* The server implements SessionStore: whatever its tasks do, in whatever  *)
(* order, the Redis record goes through the operations of SessionStore     *)
(* only, so what SessionStoreProofs proves of the record holds of it.      *)
(***************************************************************************)
EXTENDS SessionServer, TLAPS

\* SessionStore with its theorems; Store and SP are the same module.
SP == INSTANCE SessionStoreProofs

-----------------------------------------------------------------------------
(* What SessionStoreProofs assumes holds here. *)

LEMMA StoreCapacity == SP!CapacityAssumption
BY StoreAssumption

LEMMA StoreNoSession == SP!NoSessionAssumption
BY StoreAssumption DEF Store!Session, SP!Session, Store!Statuses, SP!Statuses

\* An operation of Store is that operation of SP.
LEMMA SameRemoval == \A p : Store!RemoveJoiner(p) => SP!RemoveJoiner(p)
BY DEF Store!RemoveJoiner, SP!RemoveJoiner, Store!JoinerAt, SP!JoinerAt, Store!ToSet,
       SP!ToSet, Store!RemoveAt, SP!RemoveAt

LEMMA SamePromotion ==
    \A p, seen, keep : Store!PromoteOrEnd(p, seen, keep) => SP!PromoteOrEnd(p, seen, keep)
BY DEF Store!PromoteOrEnd, SP!PromoteOrEnd, Store!Live, SP!Live, Store!Playable,
       SP!Playable, Store!OldestAt, SP!OldestAt, Store!ConnectedAt, SP!ConnectedAt,
       Store!RemoveAt, SP!RemoveAt

LEMMA SameNext == [Store!Next]_session => [SP!Next]_session
<1> SUFFICES ASSUME Store!Next
             PROVE  SP!Next
  OBVIOUS
<1>1. \A p, n : Store!Host(p, n) => SP!Host(p, n)
  BY DEF Store!Host, SP!Host
<1>2. \A p : Store!Join(p) => SP!Join(p)
  BY DEF Store!Join, SP!Join, Store!ToSet, SP!ToSet
<1>3. \A p, q : Store!TransferHost(p, q) => SP!TransferHost(p, q)
  BY DEF Store!TransferHost, SP!TransferHost, Store!JoinerAt, SP!JoinerAt, Store!ToSet,
         SP!ToSet, Store!RemoveAt, SP!RemoveAt
<1>4. \A p, n : Store!Start(p, n) => SP!Start(p, n)
  BY DEF Store!Start, SP!Start, Store!StartAllowed, SP!StartAllowed
<1>5. Store!Activate => SP!Activate
  BY DEF Store!Activate, SP!Activate
<1>6. /\ Store!EndIfWaiting => SP!EndIfWaiting
      /\ Store!Delete => SP!Delete
      /\ Store!Expire => SP!Expire
  BY DEF Store!EndIfWaiting, SP!EndIfWaiting, Store!Delete, SP!Delete, Store!Expire,
         SP!Expire
<1>7. \A p : Store!RemoveJoiner(p) => SP!RemoveJoiner(p)
  BY SameRemoval
<1>8. \A p, seen, keep : Store!PromoteOrEnd(p, seen, keep) => SP!PromoteOrEnd(p, seen, keep)
  BY SamePromotion
<1>9. Store!Counts = SP!Counts
  BY DEF Store!Counts, SP!Counts
<1> QED
  BY <1>1, <1>2, <1>3, <1>4, <1>5, <1>6, <1>7, <1>8, <1>9 DEF Store!Next, SP!Next

\* SessionStore's inductive invariant, kept by each of its operations.
LEMMA StoreStep == SP!IInv /\ [Store!Next]_session => SP!IInv'
BY SameNext, StoreCapacity, StoreNoSession, SP!TypeNext, SP!RosterNext, SP!SeatedNext
   DEF SP!IInv
-----------------------------------------------------------------------------
(* The parameters the handlers call the operations with *)

\* A promotion in flight never counts the host it replaces among the connected.
PromosSound ==
    \A m \in promos :
        m.keep \in BOOLEAN /\ m.seen \subseteq Players /\ m.host \notin m.seen

LEMMA SnapshotSound ==
    ASSUME PromosSound, NEW p, NEW keep \in BOOLEAN, Snapshot(p, keep)
    PROVE  PromosSound'
BY DEF PromosSound, Snapshot, RoomMembers

LEMMA PromosNext == PromosSound /\ [Next]_vars => PromosSound'
<1> SUFFICES ASSUME PromosSound, [Next]_vars
             PROVE  PromosSound'
  OBVIOUS
<1>1. ASSUME UNCHANGED promos
      PROVE  PromosSound'
  BY <1>1 DEF PromosSound
<1>2. CASE ClientStep
  <2>1. UNCHANGED promos
    BY <1>2 DEF ClientStep, HostSession, JoinSession, TransferHost, CloseCheck, Identify,
       StartCheck, ClientReady, ReportScore, SocketCloses, LeaveTheRoom, SessionExpires,
       taskVars
  <2> QED BY <1>1, <2>1
<1>3. ASSUME NEW c \in Conns, SocketStep(c)
      PROVE  PromosSound'
  <2>1. CASE PromoteAfterLeave(c)
    BY <2>1, SnapshotSound DEF PromoteAfterLeave
  <2>2. CASE \E kind \in Kinds : ArmCheck(c, kind) \/ ArmInsert(c, kind)
    BY <1>1, <2>2 DEF ArmCheck, ArmInsert
  <2>3. CASE \/ Register(c) \/ Welcome(c) \/ PauseMatch(c) \/ ActivateFromSocket(c)
             \/ EndWonSession(c) \/ Superseded(c) \/ HostCleanup(c) \/ JoinerCleanup(c)
    <3>1. UNCHANGED promos
      BY <2>3 DEF Register, Welcome, PauseMatch, ActivateFromSocket, EndWonSession, Superseded,
         HostCleanup, JoinerCleanup, LeaveTheRoom
    <3> QED BY <1>1, <3>1
  <2> QED BY <1>3, <2>1, <2>2, <2>3 DEF SocketStep
<1>4. CASE TimerStep
  <2>1. ASSUME NEW t \in timers, TimerCancelled(t) \/ SlotTimerFires(t) \/ FreeSlot(t)
        PROVE  PromosSound'
    BY <1>1, <2>1 DEF TimerCancelled, SlotTimerFires, FreeSlot
  <2>2. ASSUME NEW t \in timers, PromotionTimerFires(t)
        PROVE  PromosSound'
    BY <2>2, SnapshotSound DEF PromotionTimerFires
  <2>3. ASSUME NEW m \in promos, PromoteCommit(m)
        PROVE  PromosSound'
    BY <2>3 DEF PromoteCommit, PromosSound
  <2> QED BY <1>4, <2>1, <2>2, <2>3 DEF TimerStep
<1>5. CASE ValveStep \/ StartStep \/ CloseDelete
  <2>1. UNCHANGED promos
    BY <1>5 DEF ValveStep, BarrierValve, ActivateFromValve, PauseValve, StartStep,
       StartRecheck, StartCommit, StartSeed, StartAnnounce, CloseDelete, taskVars
  <2> QED BY <1>1, <2>1
<1>6. CASE UNCHANGED vars
  BY <1>1, <1>6 DEF vars, taskVars
<1> QED BY <1>2, <1>3, <1>4, <1>5, <1>6 DEF Next
-----------------------------------------------------------------------------
(* Each operation, as a step of SessionStore *)

\* Whom the record names is a player, and how many joiners it has can be counted.
LEMMA RecordFacts ==
    ASSUME SP!IInv, session # NoSession
    PROVE  /\ session.host \in Players
           /\ Store!ToSet(session.joiners) \subseteq Players
           /\ Len(session.joiners) \in Store!Counts
<1>1. session \in SP!Session
  BY DEF SP!IInv, SP!TypeOK
<1>2. /\ session.host \in Players /\ session.joiners \in Seq(Players)
      /\ Len(session.joiners) \in Nat /\ DOMAIN session.joiners = 1 .. Len(session.joiners)
      /\ session.player_count \in Capacities
  BY <1>1, StoreCapacity, StoreNoSession, SP!SessionFields
<1>3. Store!ToSet(session.joiners) \subseteq Players
  BY <1>2 DEF Store!ToSet
<1>4. Len(session.joiners) \in 0 .. (session.player_count - 1)
  <2>1. 1 + Len(session.joiners) <= session.player_count
    BY DEF SP!IInv, SP!RosterSound
  <2>2. session.player_count \in Nat
    BY <1>2, StoreAssumption
  <2> QED BY <1>2, <2>1, <2>2
<1> QED BY <1>2, <1>3, <1>4 DEF Store!Counts

LEMMA IsJoin == \A p \in Players : Store!Join(p) => Store!Next
BY DEF Store!Next

LEMMA IsHost == \A p \in Players, n \in Capacities : Store!Host(p, n) => Store!Next
BY DEF Store!Next

LEMMA IsTransfer ==
    \A p, target \in Players : Store!TransferHost(p, target) => Store!Next
BY DEF Store!Next

LEMMA IsStart ==
    ASSUME SP!IInv, NEW p, NEW counted, Store!Start(p, counted)
    PROVE  Store!Next
<1>1. session # NoSession /\ session.host = p /\ Len(session.joiners) = counted
  BY DEF Store!Start, Store!StartAllowed
<1>2. p \in Players /\ counted \in Store!Counts
  BY <1>1, RecordFacts
<1> QED BY <1>2 DEF Store!Next

LEMMA IsEnd == Store!Activate \/ Store!EndIfWaiting \/ Store!Delete \/ Store!Expire => Store!Next
BY DEF Store!Next

\* Deleting a key that may be gone already.
LEMMA IsDelete == session' = NoSession => [Store!Next]_session
BY IsEnd DEF Store!Delete

LEMMA IsRemove ==
    ASSUME SP!IInv, NEW p, Store!RemoveJoiner(p)
    PROVE  Store!Next
<1>1. session # NoSession /\ p \in Store!ToSet(session.joiners)
  BY DEF Store!RemoveJoiner
<1>2. p \in Players
  BY <1>1, RecordFacts
<1> QED BY <1>2 DEF Store!Next

LEMMA IsPromotion ==
    ASSUME SP!IInv, PromosSound, NEW m \in promos, Store!PromoteOrEnd(m.host, m.seen, m.keep)
    PROVE  Store!Next
<1>1. session # NoSession /\ session.host = m.host
  BY DEF Store!PromoteOrEnd, Store!Live
<1>2. /\ m.host \in Players /\ m.seen \in SUBSET Players /\ m.keep \in BOOLEAN
      /\ m.host \notin m.seen
  BY <1>1, RecordFacts DEF PromosSound
<1> QED BY <1>2 DEF Store!Next
-----------------------------------------------------------------------------
(* The refinement *)

\* Whatever task takes a step, the record takes an operation or stays.
LEMMA ServerStep == SP!IInv /\ PromosSound /\ [Next]_vars => [Store!Next]_session
<1> SUFFICES ASSUME SP!IInv, PromosSound, [Next]_vars
             PROVE  [Store!Next]_session
  OBVIOUS
<1>1. CASE ClientStep
  <2>1. ASSUME NEW p \in Players, NEW n \in Capacities, HostSession(p, n)
        PROVE  Store!Next
    BY <2>1, IsHost DEF HostSession
  <2>2. ASSUME NEW p \in Players, JoinSession(p)
        PROVE  Store!Next
    BY <2>2, IsJoin DEF JoinSession
  <2>3. ASSUME NEW p \in Players, NEW q \in Players, TransferHost(p, q)
        PROVE  Store!Next
    BY <2>3, IsTransfer DEF TransferHost
  <2>4. ASSUME NEW p \in Players, CloseCheck(p) \/ \E rejoin \in BOOLEAN : Identify(p, rejoin)
        PROVE  UNCHANGED session
    BY <2>4 DEF CloseCheck, Identify
  <2>5. ASSUME NEW c \in Conns,
               \/ ClientReady(c)
               \/ \E q \in Players, n \in 1 .. 3 : ReportScore(c, q, n)
               \/ \E leave \in BOOLEAN : SocketCloses(c, leave)
        PROVE  UNCHANGED session
    BY <2>5 DEF ClientReady, ReportScore, SocketCloses, LeaveTheRoom
  <2>6. CASE StartCheck
    BY <2>6 DEF StartCheck
  <2>7. CASE SessionExpires
    BY <2>7, IsEnd DEF SessionExpires
  <2> QED BY <1>1, <2>1, <2>2, <2>3, <2>4, <2>5, <2>6, <2>7 DEF ClientStep
<1>2. ASSUME NEW c \in Conns, SocketStep(c)
      PROVE  [Store!Next]_session
  <2>1. CASE \/ Register(c) \/ Welcome(c) \/ PauseMatch(c) \/ Superseded(c) \/ PromoteAfterLeave(c)
             \/ \E kind \in Kinds : ArmCheck(c, kind) \/ ArmInsert(c, kind)
    BY <2>1 DEF Register, Welcome, PauseMatch, Superseded, LeaveTheRoom, PromoteAfterLeave,
       ArmCheck, ArmInsert
  <2>2. CASE ActivateFromSocket(c)
    BY <2>2, IsEnd DEF ActivateFromSocket
  <2>3. CASE EndWonSession(c)
    BY <2>3, IsDelete DEF EndWonSession
  <2>4. CASE HostCleanup(c)
    BY <2>4, IsEnd DEF HostCleanup
  <2>5. CASE JoinerCleanup(c)
    BY <2>5, IsRemove DEF JoinerCleanup
  <2> QED BY <1>2, <2>1, <2>2, <2>3, <2>4, <2>5 DEF SocketStep
<1>3. CASE TimerStep
  <2>1. ASSUME NEW t \in timers,
               TimerCancelled(t) \/ SlotTimerFires(t) \/ PromotionTimerFires(t)
        PROVE  UNCHANGED session
    BY <2>1 DEF TimerCancelled, SlotTimerFires, PromotionTimerFires
  <2>2. ASSUME NEW t \in timers, FreeSlot(t)
        PROVE  [Store!Next]_session
    BY <2>2, IsRemove DEF FreeSlot
  <2>3. ASSUME NEW m \in promos, PromoteCommit(m)
        PROVE  [Store!Next]_session
    BY <2>3, IsPromotion DEF PromoteCommit
  <2> QED BY <1>3, <2>1, <2>2, <2>3 DEF TimerStep
<1>4. CASE ValveStep
  <2>1. CASE BarrierValve \/ \E v \in valves : PauseValve(v)
    BY <2>1 DEF BarrierValve, PauseValve
  <2>2. CASE ActivateFromValve
    BY <2>2, IsEnd DEF ActivateFromValve
  <2> QED BY <1>4, <2>1, <2>2 DEF ValveStep
<1>5. CASE StartStep
  <2>1. CASE StartRecheck \/ StartSeed \/ StartAnnounce
    BY <2>1 DEF StartRecheck, StartSeed, StartAnnounce
  <2>2. CASE StartCommit
    BY <2>2, IsStart DEF StartCommit
  <2> QED BY <1>5, <2>1, <2>2 DEF StartStep
<1>6. CASE CloseDelete
  BY <1>6, IsDelete DEF CloseDelete
<1>7. CASE UNCHANGED vars
  BY <1>7 DEF vars
<1> QED BY <1>1, <1>2, <1>3, <1>4, <1>5, <1>6, <1>7 DEF Next

LEMMA ServerInit == Init => SP!IInv /\ PromosSound
<1> SUFFICES ASSUME Init
             PROVE  SP!IInv /\ PromosSound
  OBVIOUS
<1>1. session = NoSession /\ promos = {}
  BY DEF Init, NoTasks
<1> QED BY <1>1 DEF SP!IInv, SP!TypeOK, SP!RosterSound, SP!MatchSeated, PromosSound

LEMMA ServerInductive == Spec => [](SP!IInv /\ PromosSound)
<1>1. SP!IInv /\ PromosSound /\ [Next]_vars => (SP!IInv /\ PromosSound)'
  BY ServerStep, StoreStep, PromosNext
<1> QED BY ServerInit, <1>1, PTL DEF Spec

\* Every write any handler, timer or valve makes of the key is one operation of
\* SessionStore, made with parameters SessionStore allows.
THEOREM ServerKeepsStore == Spec => KeepsStore
<1>1. SP!IInv /\ PromosSound /\ [Next]_vars => [Store!Next]_session
  BY ServerStep
<1> QED BY ServerInductive, <1>1, PTL DEF Spec, KeepsStore

\* So, under every interleaving of the server's tasks, the record is well formed,
\* its roster is sound and a live match stays seated.
THEOREM ServerRecordSafe ==
    Spec => [](Store!TypeOK /\ Store!RosterSound /\ Store!MatchSeated)
<1>1. SP!IInv => Store!TypeOK /\ Store!RosterSound /\ Store!MatchSeated
  BY DEF SP!IInv, SP!TypeOK, SP!RosterSound, SP!MatchSeated, Store!TypeOK,
     Store!RosterSound, Store!MatchSeated, SP!Session, Store!Session, SP!Statuses,
     Store!Statuses, SP!Distinct, Store!Distinct, SP!Members, Store!Members, SP!ToSet,
     Store!ToSet
<1> QED BY ServerInductive, <1>1, PTL
-----------------------------------------------------------------------------
(* The room, one lemma per SignalHub method *)

Rooms == Room \cup {NoRoom}

\* What the score, the sockets and the holds leave alone.
SameBarrier(r, s) ==
    s.ready_roster = r.ready_roster /\ s.match_started = r.match_started

LEMMA EntryType ==
    ASSUME NEW r \in Rooms
    PROVE  /\ EntryOrDefault(r) \in Room
           /\ r # NoRoom => EntryOrDefault(r) = r
           /\ r = NoRoom => EntryOrDefault(r) = DefaultRoom
BY DEF Rooms, Room, EntryOrDefault, DefaultRoom

LEMMA JoinRoomType ==
    ASSUME NEW r \in Rooms, NEW p \in Players, NEW c \in Conns
    PROVE  /\ JoinRoom(r, p, c) \in Room
           /\ SameBarrier(EntryOrDefault(r), JoinRoom(r, p, c))
           /\ JoinRoom(r, p, c).game_over = EntryOrDefault(r).game_over
           /\ JoinRoom(r, p, c).senders[p] = c
           /\ \A q \in Players \ {p} :
                 JoinRoom(r, p, c).senders[q] = EntryOrDefault(r).senders[q]
<1> DEFINE e == EntryOrDefault(r)
<1>1. e \in Room
  BY EntryType
<1> HIDE DEF e
<1>2. [e EXCEPT !.senders[p] = c] \in Room
  BY <1>1 DEF Room
<1> QED BY <1>1, <1>2 DEF JoinRoom, e, Room, SameBarrier

LEMMA LeaveRoomType ==
    ASSUME NEW r \in Rooms, NEW p \in Players, NEW c
    PROVE  /\ LeaveRoom(r, p, c) \in Rooms
           /\ r = NoRoom => LeaveRoom(r, p, c) = NoRoom
           /\ LeaveRoom(r, p, c) # NoRoom =>
                 /\ SameBarrier(r, LeaveRoom(r, p, c))
                 /\ LeaveRoom(r, p, c).game_over = r.game_over
           /\ RoomMembers(LeaveRoom(r, p, c)) =
                 IF Bound(r, p, c) THEN RoomMembers(r) \ {p} ELSE RoomMembers(r)
           /\ LeaveRoom(r, p, c) # NoRoom =>
                 \A q \in RoomMembers(LeaveRoom(r, p, c)) :
                    LeaveRoom(r, p, c).senders[q] = r.senders[q]
<1>1. CASE r = NoRoom
  BY <1>1 DEF LeaveRoom, Rooms, RoomMembers, Bound
<1>2. CASE r # NoRoom
  <2> DEFINE left == IF r.senders[p] = c THEN [r EXCEPT !.senders[p] = 0] ELSE r
  <2>1. r \in Room
    BY <1>2 DEF Rooms
  <2>2. left \in Room
    BY <2>1 DEF Room
  <2>3. /\ SameBarrier(r, left) /\ left.game_over = r.game_over
        /\ \A q \in Players :
              left.senders[q] = IF q = p /\ r.senders[p] = c THEN 0 ELSE r.senders[q]
    BY <2>1 DEF Room, SameBarrier
  <2>4. left # NoRoom
    BY <2>2, NoRoomAssumption
  <2>5. RoomMembers(left) = IF Bound(r, p, c) THEN RoomMembers(r) \ {p} ELSE RoomMembers(r)
    BY <1>2, <2>3, <2>4 DEF RoomMembers, Bound
  <2>6. LeaveRoom(r, p, c) = IF RoomMembers(left) = {} THEN NoRoom ELSE left
    BY <1>2 DEF LeaveRoom
  <2>7. RoomMembers(LeaveRoom(r, p, c)) = RoomMembers(left)
    BY <2>6 DEF RoomMembers
  <2>8. \A q \in RoomMembers(left) : left.senders[q] = r.senders[q]
    BY <2>3, <2>4 DEF RoomMembers
  <2> HIDE DEF left
  <2> QED BY <1>2, <2>2, <2>3, <2>4, <2>5, <2>6, <2>7, <2>8 DEF Rooms
<1> QED BY <1>1, <1>2

LEMMA SeedType ==
    ASSUME NEW r \in Rooms, NEW roster \in SUBSET Players
    PROVE  LET s == SetReadyRoster(SetWinTarget(r, WinTarget), roster)
           IN  /\ s \in Room /\ s # NoRoom
               /\ s.ready_roster = roster /\ ~s.match_started /\ ~s.game_over
               /\ RoomMembers(s) = RoomMembers(r)
               /\ s.senders = EntryOrDefault(r).senders
<1> DEFINE e == EntryOrDefault(r)
           w == [e EXCEPT !.win_target = WinTarget, !.game_over = FALSE]
           s == [w EXCEPT !.ready_roster = roster, !.ready = {}, !.match_started = FALSE]
<1>1. e \in Room /\ (r = NoRoom => e = DefaultRoom) /\ (r # NoRoom => e = r)
  BY EntryType
<1> HIDE DEF e
<1>2. w \in Room /\ w.senders = e.senders
  BY <1>1, BoundAssumption DEF Room
<1>3. w = SetWinTarget(r, WinTarget)
  BY DEF SetWinTarget, e
<1>4. w # NoRoom
  BY <1>2, NoRoomAssumption
<1> HIDE DEF w
<1>5. s = SetReadyRoster(SetWinTarget(r, WinTarget), roster)
  BY <1>3, <1>4 DEF SetReadyRoster, EntryOrDefault
<1>6. /\ s \in Room /\ s.ready_roster = roster /\ s.match_started = FALSE
      /\ s.game_over = w.game_over /\ s.senders = w.senders
  BY <1>2 DEF Room
<1>7. w.game_over = FALSE
  BY <1>1 DEF w, Room
<1>8. s # NoRoom
  BY <1>6, NoRoomAssumption
<1> HIDE DEF s
<1>9. RoomMembers(s) = RoomMembers(r)
  BY <1>1, <1>2, <1>6, <1>8 DEF RoomMembers, DefaultRoom
<1> QED BY <1>2, <1>5, <1>6, <1>7, <1>8, <1>9 DEF e

\* What the holds leave alone.
SameMatch(r, s) ==
    /\ SameBarrier(r, s) /\ s.game_over = r.game_over /\ s.senders = r.senders

LEMMA PauseType ==
    ASSUME NEW r \in Rooms, NEW p \in Players
    PROVE  /\ PauseFor(r, p) \in Rooms /\ ClearPause(r, p) \in Rooms
           /\ (PauseFor(r, p) = NoRoom) <=> (r = NoRoom)
           /\ (ClearPause(r, p) = NoRoom) <=> (r = NoRoom)
           /\ r # NoRoom => SameMatch(r, PauseFor(r, p)) /\ SameMatch(r, ClearPause(r, p))
<1>1. CASE r = NoRoom
  BY <1>1 DEF Rooms, PauseFor, ClearPause, Pausable
<1>2. CASE r # NoRoom
  <2>1. r \in Room
    BY <1>2 DEF Rooms
  <2>2. \A held \in SUBSET Players :
           /\ [r EXCEPT !.paused_for = held] \in Room
           /\ SameMatch(r, [r EXCEPT !.paused_for = held])
    BY <2>1 DEF Room, SameMatch, SameBarrier
  <2>3. r.paused_for \cup {p} \in SUBSET Players /\ r.paused_for \ {p} \in SUBSET Players
    BY <2>1 DEF Room
  <2>4. SameMatch(r, r)
    BY DEF SameMatch, SameBarrier
  <2>5. PauseFor(r, p) \in Room /\ ClearPause(r, p) \in Room
    BY <1>2, <2>1, <2>2, <2>3 DEF PauseFor, ClearPause
  <2> QED BY <1>2, <2>2, <2>3, <2>4, <2>5, NoRoomAssumption DEF PauseFor, ClearPause, Rooms
<1> QED BY <1>1, <1>2

LEMMA ScoreType ==
    ASSUME NEW r \in Rooms, NEW p \in Players, NEW n \in Nat, Creditable(r, p, n)
    PROVE  /\ RecordScore(r, p, n) \in Room
           /\ SameBarrier(r, RecordScore(r, p, n))
           /\ RecordScore(r, p, n).game_over = (r.game_over \/ Wins(r, p, n))
           /\ RecordScore(r, p, n).senders = r.senders
<1>1. r \in Room
  BY DEF Creditable, Rooms
<1>2. r.scores[p] + Credit(n) \in Nat
  BY <1>1 DEF Room, Credit, MaxScorePoints
<1>3. (r.game_over \/ Wins(r, p, n)) \in BOOLEAN
  BY <1>1, Zenon DEF Wins
<1>4. \A m \in Nat, over \in BOOLEAN :
         /\ [r EXCEPT !.scores[p] = m, !.game_over = over] \in Room
         /\ SameBarrier(r, [r EXCEPT !.scores[p] = m, !.game_over = over])
         /\ [r EXCEPT !.scores[p] = m, !.game_over = over].game_over = over
         /\ [r EXCEPT !.scores[p] = m, !.game_over = over].senders = r.senders
  BY <1>1 DEF Room, SameBarrier
<1>5. RecordScore(r, p, n) = [r EXCEPT !.scores[p] = r.scores[p] + Credit(n),
                                       !.game_over = r.game_over \/ Wins(r, p, n)]
  BY <1>1, Zenon DEF RecordScore
<1> DEFINE m == r.scores[p] + Credit(n)
           over == r.game_over \/ Wins(r, p, n)
<1>6. m \in Nat /\ over \in BOOLEAN
  BY <1>2, <1>3
<1>7. RecordScore(r, p, n) = [r EXCEPT !.scores[p] = m, !.game_over = over]
  BY <1>5, Zenon
<1> HIDE DEF m, over
<1> DEFINE s == [r EXCEPT !.scores[p] = m, !.game_over = over]
<1>8. s \in Room /\ SameBarrier(r, s) /\ s.game_over = over /\ s.senders = r.senders
  BY <1>4, <1>6
<1>9. RecordScore(r, p, n) = s
  BY <1>7
<1> HIDE DEF s
<1> QED BY <1>8, <1>9, Zenon DEF over

LEMMA ReadyType ==
    ASSUME NEW r \in Rooms, NEW p \in Players,
           ReadyOutcome(r, p) \in {"AllReady", "Pending"}
    PROVE  /\ r \in Room /\ r # NoRoom
           /\ r.ready_roster # {} /\ ~r.match_started
           /\ RecordReady(r, p) \in Room
           /\ RecordReady(r, p).ready_roster = r.ready_roster
           /\ RecordReady(r, p).match_started = (ReadyOutcome(r, p) = "AllReady")
           /\ RecordReady(r, p).game_over = r.game_over
           /\ RecordReady(r, p).senders = r.senders
<1>1. r # NoRoom /\ ~r.match_started /\ p \in r.ready_roster
  BY DEF ReadyOutcome
<1>2. r \in Room
  BY <1>1 DEF Rooms
<1>3. \A all \in BOOLEAN :
         LET s == [r EXCEPT !.ready = @ \cup {p}, !.match_started = all]
         IN  /\ s \in Room /\ s.ready_roster = r.ready_roster /\ s.match_started = all
             /\ s.game_over = r.game_over /\ s.senders = r.senders
  BY <1>2 DEF Room
<1>4. RecordReady(r, p) = [r EXCEPT !.ready = @ \cup {p},
                                    !.match_started = (ReadyOutcome(r, p) = "AllReady")]
  BY DEF RecordReady
<1>5. (ReadyOutcome(r, p) = "AllReady") \in BOOLEAN
  OBVIOUS
<1> QED BY <1>1, <1>2, <1>3, <1>4, <1>5

LEMMA ForceType ==
    ASSUME NEW r \in Rooms
    PROVE  /\ ForceMatchStart(r) \in Rooms
           /\ (ForceMatchStart(r) = NoRoom) <=> (r = NoRoom)
           /\ ~Forceable(r) => ForceMatchStart(r) = r
           /\ r # NoRoom =>
                 /\ ForceMatchStart(r).match_started
                 /\ ForceMatchStart(r).ready_roster = r.ready_roster
                 /\ ForceMatchStart(r).game_over = r.game_over
                 /\ ForceMatchStart(r).senders = r.senders
<1>1. CASE r = NoRoom
  BY <1>1 DEF Rooms, ForceMatchStart, Forceable
<1>2. CASE r # NoRoom
  <2>1. r \in Room
    BY <1>2 DEF Rooms
  <2>2. /\ [r EXCEPT !.match_started = TRUE] \in Room
        /\ [r EXCEPT !.match_started = TRUE].match_started = TRUE
        /\ [r EXCEPT !.match_started = TRUE].ready_roster = r.ready_roster
        /\ [r EXCEPT !.match_started = TRUE].game_over = r.game_over
        /\ [r EXCEPT !.match_started = TRUE].senders = r.senders
    BY <2>1 DEF Room
  <2> QED BY <1>2, <2>1, <2>2, NoRoomAssumption DEF ForceMatchStart, Forceable, Rooms
<1> QED BY <1>1, <1>2
-----------------------------------------------------------------------------
(* The socket tasks *)

SocksType == socks \in [Conns -> Sock \cup {Closed}]

\* c's task goes on at pc, for the same player in the same role.
Moves(c, pc) ==
    /\ SocksType'
    /\ socks'[c] # Closed /\ socks'[c].pc = pc
    /\ socks'[c].player = socks[c].player /\ socks'[c].is_host = socks[c].is_host
    /\ \A d \in Conns \ {c} : socks'[d] = socks[d]

\* c's task is over.
Ends(c) ==
    /\ SocksType'
    /\ socks'[c] = Closed
    /\ \A d \in Conns \ {c} : socks'[d] = socks[d]

LEMMA SockFields ==
    ASSUME SocksType, NEW c \in Conns, socks[c] # Closed
    PROVE  /\ socks[c] \in Sock /\ Who(c) \in Players /\ socks[c].pc \in SockPcs
           /\ socks[c].is_host \in BOOLEAN /\ socks[c].leave \in BOOLEAN
           /\ socks[c].rejoin \in BOOLEAN
BY DEF SocksType, Sock, Who

LEMMA Pcs ==
    /\ CheckPc["promotion"] = "check promotion" /\ CheckPc["reconnect"] = "check reconnect"
    /\ InsertPc["promotion"] = "insert promotion"
    /\ InsertPc["reconnect"] = "insert reconnect"
    /\ SockPcs = {"identified", "joined", "joined live", "registered", "pump", "activating",
                  "winning", "left", "stale", "promote", "check promotion",
                  "check reconnect", "insert promotion", "insert reconnect"}
<1>1. /\ CheckPc["promotion"] = "check promotion" /\ CheckPc["reconnect"] = "check reconnect"
      /\ InsertPc["promotion"] = "insert promotion"
      /\ InsertPc["reconnect"] = "insert reconnect"
  BY DEF CheckPc, InsertPc
<1>2. {CheckPc[k] : k \in Kinds} = {"check promotion", "check reconnect"}
  BY <1>1 DEF Kinds
<1>3. {InsertPc[k] : k \in Kinds} = {"insert promotion", "insert reconnect"}
  BY <1>1 DEF Kinds
<1> QED BY <1>1, <1>2, <1>3 DEF SockPcs

LEMMA SockMoves ==
    ASSUME SocksType, NEW c \in Conns, socks[c] # Closed
    PROVE  /\ \A pc \in SockPcs : Goto(c, pc) => Moves(c, pc)
           /\ Finish(c) => Ends(c)
           /\ \A pc \in SockPcs, leave \in BOOLEAN :
                 socks' = [socks EXCEPT ![c].pc = pc, ![c].leave = leave] => Moves(c, pc)
<1>1. socks[c] \in Sock
  BY DEF SocksType
<1>2. \A pc \in SockPcs : Goto(c, pc) => Moves(c, pc)
  <2> SUFFICES ASSUME NEW pc \in SockPcs, Goto(c, pc)
               PROVE  Moves(c, pc)
    OBVIOUS
  <2> DEFINE s == [socks[c] EXCEPT !.pc = pc]
  <2>1. /\ s \in Sock /\ s # Closed /\ s.pc = pc /\ s.player = socks[c].player
        /\ s.is_host = socks[c].is_host
    BY <1>1 DEF Sock, Closed
  <2>2. socks' = [socks EXCEPT ![c] = s]
    BY DEF Goto
  <2> HIDE DEF s
  <2> QED BY <2>1, <2>2 DEF Moves, SocksType
<1>3. Finish(c) => Ends(c)
  BY DEF Finish, Ends, SocksType
<1>4. \A pc \in SockPcs, leave \in BOOLEAN :
         socks' = [socks EXCEPT ![c].pc = pc, ![c].leave = leave] => Moves(c, pc)
  <2> SUFFICES ASSUME NEW pc \in SockPcs, NEW leave \in BOOLEAN,
                      socks' = [socks EXCEPT ![c].pc = pc, ![c].leave = leave]
               PROVE  Moves(c, pc)
    OBVIOUS
  <2> DEFINE s == [socks[c] EXCEPT !.pc = pc, !.leave = leave]
  <2>1. /\ s \in Sock /\ s # Closed /\ s.pc = pc /\ s.player = socks[c].player
        /\ s.is_host = socks[c].is_host
    BY <1>1 DEF Sock, Closed
  <2>2. socks' = [socks EXCEPT ![c] = s]
    OBVIOUS
  <2> HIDE DEF s
  <2> QED BY <2>1, <2>2 DEF Moves, SocksType
<1> QED BY <1>2, <1>3, <1>4

\* Where each step of a socket task takes it.
LEMMA SocketMoves ==
    ASSUME SocksType, NEW c \in Conns
    PROVE  /\ Register(c) =>
                 /\ At(c, "identified")
                 /\ IF session = NoSession THEN Ends(c)
                    ELSE Moves(c, "joined") \/ Moves(c, "joined live")
           /\ Welcome(c) =>
                 /\ At(c, "joined") \/ At(c, "joined live")
                 /\ Moves(c, "registered") \/ Moves(c, "pump")
           /\ PauseMatch(c) => At(c, "registered") /\ Moves(c, "pump")
           /\ ActivateFromSocket(c) => At(c, "activating") /\ Moves(c, "pump")
           /\ EndWonSession(c) => At(c, "winning") /\ Moves(c, "pump")
           /\ HostCleanup(c) =>
                 /\ InCleanup(c)
                 /\ Ends(c) \/ Moves(c, "promote") \/ Moves(c, "check promotion")
           /\ JoinerCleanup(c) => InCleanup(c) /\ (Ends(c) \/ Moves(c, "check reconnect"))
           /\ PromoteAfterLeave(c) => At(c, "promote") /\ Ends(c)
<1>1. Register(c) => /\ At(c, "identified")
                     /\ IF session = NoSession THEN Ends(c)
                        ELSE Moves(c, "joined") \/ Moves(c, "joined live")
  BY SockMoves, Pcs DEF Register, At
<1>2. Welcome(c) => /\ At(c, "joined") \/ At(c, "joined live")
                    /\ Moves(c, "registered") \/ Moves(c, "pump")
  BY SockMoves, Pcs DEF Welcome, At
<1>3. /\ PauseMatch(c) => At(c, "registered") /\ Moves(c, "pump")
      /\ ActivateFromSocket(c) => At(c, "activating") /\ Moves(c, "pump")
      /\ EndWonSession(c) => At(c, "winning") /\ Moves(c, "pump")
  BY SockMoves, Pcs DEF PauseMatch, ActivateFromSocket, EndWonSession, At
<1>4. HostCleanup(c) =>
         /\ InCleanup(c)
         /\ Ends(c) \/ Moves(c, "promote") \/ Moves(c, "check promotion")
  BY SockMoves, Pcs DEF HostCleanup, InCleanup, At
<1>5. JoinerCleanup(c) => InCleanup(c) /\ (Ends(c) \/ Moves(c, "check reconnect"))
  BY SockMoves, Pcs DEF JoinerCleanup, InCleanup, At
<1>6. PromoteAfterLeave(c) => At(c, "promote") /\ Ends(c)
  BY SockMoves, Pcs DEF PromoteAfterLeave, At
<1> QED BY <1>1, <1>2, <1>3, <1>4, <1>5, <1>6

LEMMA LeaveMoves ==
    ASSUME SocksType, NEW c \in Conns, NEW leave \in BOOLEAN,
           SocketCloses(c, leave) \/ Superseded(c)
    PROVE  /\ At(c, "pump")
           /\ RoomBecomes(LeaveRoom(room, Who(c), c))
           /\ IF Bound(room, Who(c), c) THEN Moves(c, "left") ELSE Moves(c, "stale")
<1>1. /\ At(c, "pump")
      /\ LeaveTheRoom(c, leave) \/ LeaveTheRoom(c, FALSE)
  BY DEF SocketCloses, Superseded
<1>2. PICK l \in BOOLEAN : LeaveTheRoom(c, l)
  BY <1>1
<1>3. CASE Bound(room, Who(c), c)
  <2>1. socks' = [socks EXCEPT ![c].pc = "left", ![c].leave = l]
    BY <1>2, <1>3 DEF LeaveTheRoom
  <2> QED BY <1>1, <1>2, <1>3, <2>1, SockMoves, Pcs DEF At, LeaveTheRoom
<1>4. CASE ~Bound(room, Who(c), c)
  <2>1. socks' = [socks EXCEPT ![c].pc = "stale", ![c].leave = l]
    BY <1>2, <1>4 DEF LeaveTheRoom
  <2> QED BY <1>1, <1>2, <1>4, <2>1, SockMoves, Pcs DEF At, LeaveTheRoom
<1> QED BY <1>3, <1>4

LEMMA ArmMoves ==
    ASSUME SocksType, NEW c \in Conns, NEW kind \in Kinds
    PROVE  /\ ArmCheck(c, kind) =>
                 /\ At(c, CheckPc[kind])
                 /\ IF Present(Who(c)) THEN Ends(c) ELSE Moves(c, InsertPc[kind])
           /\ ArmInsert(c, kind) =>
                 /\ At(c, InsertPc[kind])
                 /\ IF kind = "promotion" THEN Moves(c, "check reconnect") ELSE Ends(c)
<1>1. ArmCheck(c, kind) =>
         /\ At(c, CheckPc[kind])
         /\ IF Present(Who(c)) THEN Ends(c) ELSE Moves(c, InsertPc[kind])
  BY SockMoves, Pcs DEF ArmCheck, At, Kinds
<1>2. ArmInsert(c, kind) =>
         /\ At(c, InsertPc[kind])
         /\ IF kind = "promotion" THEN Moves(c, "check reconnect") ELSE Ends(c)
  BY SockMoves, Pcs DEF ArmInsert, At, Kinds
<1> QED BY <1>1, <1>2

LEMMA FrameMoves ==
    ASSUME SocksType, NEW c \in Conns
    PROVE  /\ ClientReady(c) => At(c, "pump") /\ (Moves(c, "activating") \/ UNCHANGED socks)
           /\ \A q, n : ReportScore(c, q, n) =>
                 /\ At(c, "pump")
                 /\ IF Wins(room, q, n) THEN Moves(c, "winning") ELSE UNCHANGED socks
<1>1. ClientReady(c) => At(c, "pump") /\ (Moves(c, "activating") \/ UNCHANGED socks)
  <2>1. ClientReady(c) => At(c, "pump") /\ (Goto(c, "activating") \/ UNCHANGED socks)
    BY DEF ClientReady
  <2> QED BY <2>1, SockMoves, Pcs DEF At
<1>2. \A q, n : ReportScore(c, q, n) =>
         /\ At(c, "pump")
         /\ IF Wins(room, q, n) THEN Moves(c, "winning") ELSE UNCHANGED socks
  BY SockMoves, Pcs DEF ReportScore, At
<1> QED BY <1>1, <1>2

\* A new task, on a connection that was free.
Opens(c, p, host) ==
    /\ SocksType'
    /\ socks[c] = Closed
    /\ socks'[c] # Closed /\ socks'[c].pc = "identified"
    /\ socks'[c].player = p /\ socks'[c].is_host = host
    /\ \A d \in Conns \ {c} : socks'[d] = socks[d]

LEMMA IdentifyOpens ==
    ASSUME SocksType, NEW p \in Players, NEW rejoin \in BOOLEAN, Identify(p, rejoin)
    PROVE  /\ session # NoSession /\ p \in Store!Members(session)
           /\ \E c \in Conns : Opens(c, p, (session.host = p))
<1>1. PICK c \in Conns :
         /\ socks[c] = Closed
         /\ socks' = [socks EXCEPT ![c] =
                       [player |-> p, is_host |-> session.host = p, rejoin |-> rejoin,
                        late |-> session.status # "waiting", leave |-> FALSE,
                        pc |-> "identified"]]
  BY DEF Identify, FreeConn
<1> DEFINE s == [player |-> p, is_host |-> session.host = p, rejoin |-> rejoin,
                 late |-> session.status # "waiting", leave |-> FALSE, pc |-> "identified"]
<1>2. s \in Sock /\ s # Closed /\ s.pc = "identified" /\ s.player = p
  BY Pcs DEF Sock, Closed
<1>3. s.is_host = (session.host = p)
  OBVIOUS
<1> HIDE DEF s
<1>4. socks' = [socks EXCEPT ![c] = s]
  BY <1>1 DEF s
<1>5. socks'[c] = s /\ SocksType' /\ \A d \in Conns \ {c} : socks'[d] = socks[d]
  BY <1>2, <1>4 DEF SocksType
<1>6. Opens(c, p, (session.host = p))
  BY <1>1, <1>2, <1>3, <1>5 DEF Opens
<1> QED BY <1>6 DEF Identify
-----------------------------------------------------------------------------
(* Which steps touch which variables *)

LEMMA SocksFrame ==
    ASSUME [Next]_vars
    PROVE  \/ UNCHANGED socks
           \/ \E p \in Players, rejoin \in BOOLEAN : Identify(p, rejoin)
           \/ \E c \in Conns :
                 \/ SocketStep(c) \/ ClientReady(c)
                 \/ \E q \in Players, n \in 1 .. 3 : ReportScore(c, q, n)
                 \/ \E leave \in BOOLEAN : SocketCloses(c, leave)
<1> DEFINE Goal == \/ UNCHANGED socks
                   \/ \E p \in Players, rejoin \in BOOLEAN : Identify(p, rejoin)
                   \/ \E c \in Conns :
                         \/ SocketStep(c) \/ ClientReady(c)
                         \/ \E q \in Players, n \in 1 .. 3 : ReportScore(c, q, n)
                         \/ \E leave \in BOOLEAN : SocketCloses(c, leave)
<1>1. CASE ClientStep
  BY <1>1 DEF ClientStep, HostSession, JoinSession, TransferHost, CloseCheck, StartCheck,
     SessionExpires, taskVars
<1>2. CASE \E c \in Conns : SocketStep(c)
  BY <1>2
<1>3. CASE TimerStep
  BY <1>3 DEF TimerStep, TimerCancelled, SlotTimerFires, FreeSlot, PromotionTimerFires,
     PromoteCommit
<1>4. CASE ValveStep \/ StartStep \/ CloseDelete
  BY <1>4 DEF ValveStep, BarrierValve, ActivateFromValve, PauseValve, StartStep,
     StartRecheck, StartCommit, StartSeed, StartAnnounce, CloseDelete, taskVars
<1>5. CASE UNCHANGED vars
  BY <1>5 DEF vars, taskVars
<1> QED BY <1>1, <1>2, <1>3, <1>4, <1>5 DEF Next

LEMMA RoomFrame ==
    ASSUME [Next]_vars
    PROVE  \/ UNCHANGED <<room, roomLost>>
           \/ \E c \in Conns :
                 \/ Register(c) \/ Welcome(c) \/ PauseMatch(c) \/ Superseded(c)
                 \/ HostCleanup(c) \/ JoinerCleanup(c) \/ ClientReady(c)
                 \/ \E q \in Players, n \in 1 .. 3 : ReportScore(c, q, n)
                 \/ \E leave \in BOOLEAN : SocketCloses(c, leave)
           \/ BarrierValve \/ (\E v \in valves : PauseValve(v))
           \/ StartSeed \/ StartAnnounce
<1>1. CASE ClientStep
  BY <1>1 DEF ClientStep, HostSession, JoinSession, TransferHost, CloseCheck, StartCheck,
     SessionExpires, Identify
<1>2. CASE \E c \in Conns : SocketStep(c)
  <2> SUFFICES ASSUME NEW c \in Conns, SocketStep(c),
                      ~Register(c), ~Welcome(c), ~PauseMatch(c), ~Superseded(c),
                      ~HostCleanup(c), ~JoinerCleanup(c)
               PROVE  UNCHANGED <<room, roomLost>>
    BY <1>2
  <2> QED BY DEF SocketStep, ActivateFromSocket, EndWonSession, ArmCheck, ArmInsert,
             PromoteAfterLeave
<1>3. CASE TimerStep
  BY <1>3 DEF TimerStep, TimerCancelled, SlotTimerFires, FreeSlot, PromotionTimerFires,
     PromoteCommit
<1>4. CASE ValveStep \/ StartStep \/ CloseDelete
  BY <1>4 DEF ValveStep, ActivateFromValve, StartStep, StartRecheck, StartCommit, CloseDelete
<1>5. CASE UNCHANGED vars
  BY <1>5 DEF vars
<1> QED BY <1>1, <1>2, <1>3, <1>4, <1>5 DEF Next

LEMMA TaskFrame ==
    ASSUME [Next]_vars
    PROVE  \/ UNCHANGED <<grace, timers, promos>>
           \/ \E c \in Conns :
                 \/ Welcome(c) \/ PromoteAfterLeave(c)
                 \/ \E kind \in Kinds : ArmInsert(c, kind)
           \/ TimerStep
<1>1. CASE ClientStep
  BY <1>1 DEF ClientStep, HostSession, JoinSession, TransferHost, CloseCheck, StartCheck,
     SessionExpires, Identify, ClientReady, ReportScore, SocketCloses, LeaveTheRoom, taskVars
<1>2. CASE \E c \in Conns : SocketStep(c)
  <2> SUFFICES ASSUME NEW c \in Conns, SocketStep(c), ~Welcome(c), ~PromoteAfterLeave(c),
                      ~\E kind \in Kinds : ArmInsert(c, kind)
               PROVE  UNCHANGED <<grace, timers, promos>>
    BY <1>2
  <2> QED BY DEF SocketStep, Register, PauseMatch, ActivateFromSocket, EndWonSession,
             Superseded, HostCleanup, JoinerCleanup, ArmCheck, LeaveTheRoom
<1>3. CASE ValveStep \/ StartStep \/ CloseDelete
  BY <1>3 DEF ValveStep, BarrierValve, ActivateFromValve, PauseValve, StartStep,
     StartRecheck, StartCommit, StartSeed, StartAnnounce, CloseDelete, taskVars
<1>4. CASE UNCHANGED vars
  BY <1>4 DEF vars, taskVars
<1> QED BY <1>1, <1>2, <1>3, <1>4 DEF Next

LEMMA StartFrame ==
    ASSUME [Next]_vars
    PROVE  \/ UNCHANGED <<start, barrier, announced>>
           \/ StartCheck \/ StartStep \/ BarrierValve \/ ActivateFromValve
<1>1. CASE ClientStep
  BY <1>1 DEF ClientStep, HostSession, JoinSession, TransferHost, CloseCheck,
     SessionExpires, Identify, ClientReady, ReportScore, SocketCloses, LeaveTheRoom, startVars
<1>2. CASE \E c \in Conns : SocketStep(c)
  BY ZenonT(40), <1>2 DEF SocketStep, Register, Welcome, PauseMatch, ActivateFromSocket, EndWonSession,
     Superseded, HostCleanup, JoinerCleanup, ArmCheck, ArmInsert, PromoteAfterLeave,
     LeaveTheRoom, startVars
<1>3. CASE TimerStep
  BY <1>3 DEF TimerStep, TimerCancelled, SlotTimerFires, FreeSlot, PromotionTimerFires,
     PromoteCommit, startVars
<1>4. CASE ValveStep \/ StartStep \/ CloseDelete
  BY <1>4 DEF ValveStep, PauseValve, CloseDelete, startVars
<1>5. CASE UNCHANGED vars
  BY <1>5 DEF vars, startVars
<1> QED BY <1>1, <1>2, <1>3, <1>4, <1>5 DEF Next

LEMMA StartedFrame ==
    ASSUME [Next]_vars
    PROVE  UNCHANGED started \/ (\E c \in Conns : ClientReady(c)) \/ BarrierValve
<1>1. CASE ClientStep
  BY <1>1 DEF ClientStep, HostSession, JoinSession, TransferHost, CloseCheck, StartCheck,
     SessionExpires, Identify, ReportScore, SocketCloses, LeaveTheRoom, startVars
<1>2. CASE \E c \in Conns : SocketStep(c)
  BY <1>2 DEF SocketStep, Register, Welcome, PauseMatch, ActivateFromSocket, EndWonSession,
     Superseded, HostCleanup, JoinerCleanup, ArmCheck, ArmInsert, PromoteAfterLeave,
     LeaveTheRoom, startVars
<1>3. CASE TimerStep
  BY <1>3 DEF TimerStep, TimerCancelled, SlotTimerFires, FreeSlot, PromotionTimerFires,
     PromoteCommit, startVars
<1>4. CASE ValveStep \/ StartStep \/ CloseDelete
  BY <1>4 DEF ValveStep, ActivateFromValve, PauseValve, StartStep, StartRecheck,
     StartCommit, StartSeed, StartAnnounce, CloseDelete, startVars
<1>5. CASE UNCHANGED vars
  BY <1>5 DEF vars, startVars
<1> QED BY <1>1, <1>2, <1>3, <1>4, <1>5 DEF Next
-----------------------------------------------------------------------------
(* Types *)

LEMMA SocksNext ==
    ASSUME SocksType, [Next]_vars
    PROVE  SocksType'
<1>1. CASE UNCHANGED socks
  BY <1>1 DEF SocksType
<1>2. CASE \E p \in Players, rejoin \in BOOLEAN : Identify(p, rejoin)
  BY <1>2, IdentifyOpens DEF Opens
<1>3. ASSUME NEW c \in Conns, SocketStep(c)
      PROVE  SocksType'
  <2>1. CASE \E kind \in Kinds : ArmCheck(c, kind) \/ ArmInsert(c, kind)
    BY <2>1, ArmMoves DEF Moves, Ends
  <2>2. CASE Superseded(c)
    BY <2>2, LeaveMoves DEF Moves
  <2> QED BY <1>3, <2>1, <2>2, SocketMoves DEF SocketStep, Moves, Ends
<1>4. ASSUME NEW c \in Conns,
             \/ ClientReady(c)
             \/ \E q \in Players, n \in 1 .. 3 : ReportScore(c, q, n)
             \/ \E leave \in BOOLEAN : SocketCloses(c, leave)
      PROVE  SocksType'
  <2>1. CASE \E leave \in BOOLEAN : SocketCloses(c, leave)
    BY <2>1, LeaveMoves DEF Moves
  <2> QED BY <1>1, <1>4, <2>1, FrameMoves DEF Moves
<1> QED BY <1>1, <1>2, <1>3, <1>4, SocksFrame

ValvesType ==
    valves \subseteq [player : Players, hold : Nat] /\ hold \in [Players -> Nat]

RoomType == room \in Rooms

LEMMA RoomNext ==
    ASSUME SocksType, RoomType, ValvesType, start \in StartTask \cup {Idle}, [Next]_vars
    PROVE  RoomType'
<1> USE DEF RoomType
<1>1. CASE UNCHANGED <<room, roomLost>>
  BY <1>1
<1>2. ASSUME NEW c \in Conns,
             \/ Register(c) \/ Superseded(c) \/ \E leave \in BOOLEAN : SocketCloses(c, leave)
      PROVE  RoomType'
  <2>1. Who(c) \in Players
    BY <1>2, SocketMoves, LeaveMoves, SockFields DEF At
  <2>2. CASE Register(c)
    <3>1. JoinRoom(room, Who(c), c) \in Room
      BY <2>1, JoinRoomType
    <3> HIDE DEF RoomType
    <3>2. JoinRoom(room, Who(c), c) \in Rooms
      BY <3>1 DEF Rooms
    <3>3. LeaveRoom(JoinRoom(room, Who(c), c), Who(c), c) \in Rooms
      BY <2>1, <3>2, LeaveRoomType
    <3>4. room' = JoinRoom(room, Who(c), c)
             \/ room' = LeaveRoom(JoinRoom(room, Who(c), c), Who(c), c)
      BY <2>2 DEF Register, RoomBecomes
    <3> QED BY <3>2, <3>3, <3>4 DEF RoomType
  <2>3. CASE Superseded(c) \/ \E leave \in BOOLEAN : SocketCloses(c, leave)
    <3>1. room' = LeaveRoom(room, Who(c), c)
      BY <2>3, LeaveMoves DEF RoomBecomes
    <3> QED BY <2>1, <3>1, LeaveRoomType
  <2> QED BY <1>2, <2>2, <2>3
<1>3. ASSUME NEW c \in Conns,
             Welcome(c) \/ PauseMatch(c) \/ HostCleanup(c) \/ JoinerCleanup(c)
      PROVE  RoomType'
  <2>1. Who(c) \in Players
    BY <1>3, SocketMoves, SockFields DEF At, InCleanup
  <2>2. CASE Welcome(c)
    BY <2>2, EntryType DEF Welcome, SetIceServers, Rooms
  <2>3. CASE PauseMatch(c)
    BY <2>1, <2>3, PauseType DEF PauseMatch
  <2>4. CASE HostCleanup(c) \/ JoinerCleanup(c)
    BY <2>1, <2>4, PauseType DEF HostCleanup, JoinerCleanup, ReleaseHold
  <2> QED BY <1>3, <2>2, <2>3, <2>4
<1>4. ASSUME NEW c \in Conns, ClientReady(c)
      PROVE  RoomType'
  <2>1. Who(c) \in Players
    BY <1>4, FrameMoves, SockFields DEF At
  <2> QED BY <1>4, <2>1, ReadyType, PauseType DEF ClientReady, Rooms
<1>5. ASSUME NEW c \in Conns, NEW q \in Players, NEW n \in 1 .. 3, ReportScore(c, q, n)
      PROVE  RoomType'
  BY <1>5, ScoreType DEF ReportScore, Rooms
<1>6. CASE BarrierValve \/ \E v \in valves : PauseValve(v)
  BY <1>6, ForceType, PauseType DEF BarrierValve, PauseValve, ValvesType
<1>7. CASE StartSeed
  <2>1. ToSet(start.members) \in SUBSET Players
    BY <1>7 DEF StartSeed, StartTask, Idle, ToSet
  <2> QED BY <1>7, <2>1, SeedType DEF StartSeed, Rooms
<1>8. CASE StartAnnounce
  BY <1>8, EntryType DEF StartAnnounce, SetIceServers, Rooms
<1> QED BY <1>1, <1>2, <1>3, <1>4, <1>5, <1>6, <1>7, <1>8, RoomFrame

Starting == start \in StartTask \cup {Idle} /\ (start # Idle => start.members # <<>>)

LEMMA CheckedType ==
    ASSUME SP!IInv, session # NoSession, NEW p \in Players, NEW n \in 1 .. MaxStartRetries
    PROVE  /\ Checked(p, n) \in StartTask /\ Checked(p, n).members # <<>>
           /\ Checked(p, n).pc = "checked"
<1>1. session.host \in Players /\ session.joiners \in Seq(Players)
  <2>1. session \in SP!Session
    BY DEF SP!IInv, SP!TypeOK
  <2> QED BY <2>1, StoreCapacity, StoreNoSession, SP!SessionFields
<1>2. MemberList(session) \in Seq(Players) /\ Len(MemberList(session)) = 1 + Len(session.joiners)
  BY <1>1 DEF MemberList
<1>3. MemberList(session) # <<>>
  BY <1>1, <1>2
<1> HIDE DEF MemberList
<1> QED BY <1>2, <1>3 DEF Checked, StartTask

LEMMA StartingNext ==
    ASSUME SP!IInv, Starting, [Next]_vars
    PROVE  Starting'
<1>1. CASE UNCHANGED <<start, barrier, announced>>
  BY <1>1 DEF Starting
<1>2. CASE StartCheck
  BY <1>2, RecordFacts, CheckedType DEF StartCheck, Starting, MaxStartRetries
<1>3. CASE StartRecheck
  <2>1. start \in StartTask
    BY <1>3 DEF StartRecheck, Starting, Idle
  <2>2. start.by \in Players /\ start.tries \in 1 .. MaxStartRetries
    BY <2>1 DEF StartTask
  <2> QED BY <1>3, <2>2, CheckedType DEF StartRecheck, Starting
<1>4. CASE StartCommit
  <2>1. start \in StartTask /\ start.members # <<>>
    BY <1>4 DEF StartCommit, Starting, Idle
  <2>2. [start EXCEPT !.pc = "seed"] \in StartTask
    BY <2>1 DEF StartTask
  <2>3. start.tries < MaxStartRetries
           => [start EXCEPT !.pc = "retry", !.tries = @ + 1] \in StartTask
    <3>1. start.tries \in 1 .. 3
      BY <2>1 DEF StartTask, MaxStartRetries
    <3>2. \A n \in 1 .. 3 : [start EXCEPT !.pc = "retry", !.tries = n] \in StartTask
      BY <2>1 DEF StartTask, MaxStartRetries
    <3>3. start.tries < MaxStartRetries => start.tries + 1 \in 1 .. 3
      BY <3>1 DEF MaxStartRetries
    <3> QED BY <3>2, <3>3
  <2>4. /\ [start EXCEPT !.pc = "seed"].members = start.members
        /\ [start EXCEPT !.pc = "retry", !.tries = @ + 1].members = start.members
    BY <2>1 DEF StartTask
  <2>5. \/ start' = [start EXCEPT !.pc = "seed"]
        \/ start.tries < MaxStartRetries
             /\ start' = [start EXCEPT !.pc = "retry", !.tries = @ + 1]
        \/ start' = Idle
    BY <1>4 DEF StartCommit
  <2> QED BY <2>1, <2>2, <2>3, <2>4, <2>5 DEF Starting
<1>5. CASE StartSeed
  <2>1. start \in StartTask /\ start.members # <<>>
    BY <1>5 DEF StartSeed, Starting, Idle
  <2>2. [start EXCEPT !.pc = "announce"] \in StartTask
        /\ [start EXCEPT !.pc = "announce"].members = start.members
    BY <2>1 DEF StartTask
  <2> QED BY <1>5, <2>1, <2>2 DEF StartSeed, Starting
<1>6. CASE StartAnnounce
  BY <1>6 DEF StartAnnounce, Starting
<1>7. CASE BarrierValve \/ ActivateFromValve
  BY <1>7 DEF BarrierValve, ActivateFromValve, Starting
<1> QED BY <1>1, <1>2, <1>3, <1>4, <1>5, <1>6, <1>7, StartFrame DEF StartStep

LEMMA ValvesNext ==
    ASSUME SocksType, ValvesType, [Next]_vars
    PROVE  ValvesType'
<1>1. CASE UNCHANGED <<valves, hold>>
  BY <1>1 DEF ValvesType
<1>2. CASE ClientStep
  BY <1>1, <1>2 DEF ClientStep, HostSession, JoinSession, TransferHost, CloseCheck,
     StartCheck, SessionExpires, Identify, ClientReady, ReportScore, SocketCloses,
     LeaveTheRoom, pauseVars
<1>3. ASSUME NEW c \in Conns, SocketStep(c)
      PROVE  ValvesType'
  <2>1. CASE PauseMatch(c)
    <3>1. Who(c) \in Players
      BY <2>1, SocketMoves, SockFields DEF At
    <3>2. hold[Who(c)] + 1 \in Nat
      BY <3>1 DEF ValvesType
    <3>3. \/ UNCHANGED <<hold, valves>>
          \/ /\ hold' = [hold EXCEPT ![Who(c)] = @ + 1]
             /\ valves' = valves \cup {[player |-> Who(c), hold |-> hold[Who(c)] + 1]}
      BY <2>1 DEF PauseMatch
    <3> QED BY <3>1, <3>2, <3>3 DEF ValvesType
  <2>2. CASE ~PauseMatch(c)
    BY <1>1, <1>3, <2>2 DEF SocketStep, Register, Welcome, ActivateFromSocket, EndWonSession,
       Superseded, HostCleanup, JoinerCleanup, ArmCheck, ArmInsert, PromoteAfterLeave,
       LeaveTheRoom, pauseVars
  <2> QED BY <2>1, <2>2
<1>4. CASE TimerStep
  BY <1>1, <1>4 DEF TimerStep, TimerCancelled, SlotTimerFires, FreeSlot,
     PromotionTimerFires, PromoteCommit, pauseVars
<1>5. CASE ValveStep
  <2>1. CASE \E v \in valves : PauseValve(v)
    BY <2>1 DEF PauseValve, ValvesType
  <2> QED BY <1>1, <1>5, <2>1 DEF ValveStep, BarrierValve, ActivateFromValve, pauseVars
<1>6. CASE StartStep \/ CloseDelete
  BY <1>1, <1>6 DEF StartStep, StartRecheck, StartCommit, StartSeed, StartAnnounce,
     CloseDelete, pauseVars
<1>7. CASE UNCHANGED vars
  BY <1>1, <1>7 DEF vars, pauseVars
<1> QED BY <1>2, <1>3, <1>4, <1>5, <1>6, <1>7 DEF Next

TimersType == grace \in [Players -> [Kinds -> Nat]] /\ timers \subseteq Timer

LEMMA CancelType ==
    ASSUME NEW g \in [Players -> [Kinds -> Nat]], NEW p \in Players, NEW kind \in Kinds
    PROVE  /\ Cancel(g, p, kind) \in [Players -> [Kinds -> Nat]]
           /\ Cancel(g, p, kind)[p][kind] = 0
           /\ \A q \in Players, k \in Kinds :
                 q # p \/ k # kind => Cancel(g, p, kind)[q][k] = g[q][k]
BY DEF Cancel

LEMMA TakeGraceType ==
    ASSUME TimersType, NEW t \in timers, TakeGrace(t)
    PROVE  /\ t \in Timer
           /\ grace' \in [Players -> [Kinds -> Nat]]
           /\ \A q \in Players, k \in Kinds :
                 q # t.player \/ k # t.kind => grace'[q][k] = grace[q][k]
<1>1. t \in Timer
  BY DEF TimersType
<1>2. t.player \in Players /\ t.kind \in Kinds
  BY <1>1 DEF Timer
<1>3. grace' = Cancel(grace, t.player, t.kind)
  BY DEF TakeGrace
<1> QED BY <1>1, <1>2, <1>3, CancelType DEF TimersType

LEMMA TimersNext ==
    ASSUME SocksType, TimersType, [Next]_vars
    PROVE  TimersType'
<1>1. CASE UNCHANGED <<grace, timers, promos>>
  BY <1>1 DEF TimersType
<1>2. ASSUME NEW c \in Conns, Welcome(c)
      PROVE  TimersType'
  <2>1. Who(c) \in Players
    BY <1>2, SocketMoves, SockFields DEF At
  <2> DEFINE g == Cancel(grace, Who(c), "reconnect")
  <2>2. g \in [Players -> [Kinds -> Nat]]
    BY <2>1, CancelType DEF TimersType, Kinds
  <2>3. grace' = g \/ grace' = Cancel(g, Who(c), "promotion")
    BY <1>2 DEF Welcome
  <2> HIDE DEF g
  <2>4. Cancel(g, Who(c), "promotion") \in [Players -> [Kinds -> Nat]]
    BY <2>1, <2>2, CancelType DEF Kinds
  <2>5. timers' = timers
    BY <1>2 DEF Welcome
  <2> QED BY <2>2, <2>3, <2>4, <2>5 DEF TimersType
<1>3. ASSUME NEW c \in Conns, PromoteAfterLeave(c)
      PROVE  TimersType'
  BY <1>3 DEF PromoteAfterLeave, TimersType
<1>4. ASSUME NEW c \in Conns, NEW kind \in Kinds, ArmInsert(c, kind)
      PROVE  TimersType'
  <2>1. Who(c) \in Players
    BY <1>4, ArmMoves, SockFields DEF At
  <2>2. PICK n \in 1 .. (Cardinality(timers) + 1) :
           /\ grace' = [grace EXCEPT ![Who(c)][kind] = n]
           /\ timers' = timers \cup {[id |-> n, kind |-> kind, player |-> Who(c),
                                      pc |-> "sleeping"]}
    BY <1>4 DEF ArmInsert
  <2>3. n \in Nat /\ n # 0
    OBVIOUS
  <2>4. [id |-> n, kind |-> kind, player |-> Who(c), pc |-> "sleeping"] \in Timer
    BY <2>1, <2>3 DEF Timer
  <2> QED BY <2>1, <2>2, <2>3, <2>4 DEF TimersType
<1>5. CASE TimerStep
  <2>1. ASSUME NEW t \in timers, TimerCancelled(t) \/ FreeSlot(t)
        PROVE  TimersType'
    BY <2>1 DEF TimerCancelled, FreeSlot, TimersType
  <2>2. ASSUME NEW t \in timers, SlotTimerFires(t)
        PROVE  TimersType'
    <3>1. t \in Timer /\ grace' \in [Players -> [Kinds -> Nat]]
      BY <2>2, TakeGraceType DEF SlotTimerFires
    <3>2. [t EXCEPT !.pc = "claimed"] \in Timer
      BY <3>1 DEF Timer
    <3> QED BY <2>2, <3>1, <3>2 DEF SlotTimerFires, TimersType
  <2>3. ASSUME NEW t \in timers, PromotionTimerFires(t)
        PROVE  TimersType'
    BY <2>3, TakeGraceType DEF PromotionTimerFires, TimersType
  <2>4. ASSUME NEW m \in promos, PromoteCommit(m)
        PROVE  TimersType'
    BY <2>4 DEF PromoteCommit, TimersType
  <2> QED BY <1>5, <2>1, <2>2, <2>3, <2>4 DEF TimerStep
<1> QED BY <1>1, <1>2, <1>3, <1>4, <1>5, TaskFrame

\* The rest of TypeOK: flags, counters and histories.
HistoryType ==
    /\ barrier \in {"none", "sleeping", "activating", "done"}
    /\ closer \in Players \cup {Nobody}
    /\ spent \in [{"joins", "opens", "transfers", "closes", "reports"} -> Nat]
    /\ announced \in Seq(Players)
    /\ started \in Nat
    /\ unmoved \subseteq Players
    /\ roomLost \in BOOLEAN

LEMMA SpendType ==
    ASSUME HistoryType, NEW what \in {"joins", "opens", "transfers", "closes", "reports"},
           Spend(what)
    PROVE  /\ spent' \in [{"joins", "opens", "transfers", "closes", "reports"} -> Nat]
           /\ spent'[what] = spent[what] + 1
           /\ \A other \in {"joins", "opens", "transfers", "closes", "reports"} \ {what} :
                 spent'[other] = spent[other]
BY DEF HistoryType, Spend

LEMMA RoomLostType ==
    ASSUME NEW r, RoomBecomes(r)
    PROVE  roomLost' \in BOOLEAN
BY Zenon DEF RoomBecomes

LEMMA HistoryNext ==
    ASSUME SocksType, Starting, HistoryType, [Next]_vars
    PROVE  HistoryType'
<1> USE DEF HistoryType
<1>1. CASE ClientStep
  <2>1. ASSUME NEW p \in Players, NEW n \in Capacities, HostSession(p, n)
        PROVE  HistoryType'
    BY <2>1, SpendType DEF HostSession, startVars
  <2>2. ASSUME NEW p \in Players, JoinSession(p)
        PROVE  HistoryType'
    BY <2>2, SpendType DEF JoinSession, startVars
  <2>3. ASSUME NEW p \in Players, NEW q \in Players, TransferHost(p, q)
        PROVE  HistoryType'
    BY <2>3, SpendType DEF TransferHost, startVars
  <2>4. ASSUME NEW p \in Players, CloseCheck(p)
        PROVE  HistoryType'
    BY <2>4, SpendType DEF CloseCheck, startVars
  <2>5. ASSUME NEW p \in Players, NEW rejoin \in BOOLEAN, Identify(p, rejoin)
        PROVE  HistoryType'
    BY <2>5, SpendType DEF Identify, startVars
  <2>6. CASE StartCheck
    BY <2>6 DEF StartCheck
  <2>7. ASSUME NEW c \in Conns, ClientReady(c)
        PROVE  HistoryType'
    BY <2>7 DEF ClientReady, BroadcastStarted
  <2>8. ASSUME NEW c \in Conns, NEW q \in Players, NEW n \in 1 .. 3, ReportScore(c, q, n)
        PROVE  HistoryType'
    BY <2>8, SpendType DEF ReportScore, startVars
  <2>9. ASSUME NEW c \in Conns, NEW leave \in BOOLEAN, SocketCloses(c, leave)
        PROVE  HistoryType'
    BY <2>9, RoomLostType DEF SocketCloses, LeaveTheRoom, startVars
  <2>10. CASE SessionExpires
    BY <2>10 DEF SessionExpires, startVars
  <2> QED BY <1>1, <2>1, <2>2, <2>3, <2>4, <2>5, <2>6, <2>7, <2>8, <2>9, <2>10 DEF ClientStep
<1>2. ASSUME NEW c \in Conns, SocketStep(c)
      PROVE  HistoryType'
  <2>1. CASE Register(c) \/ Superseded(c)
    BY <2>1, RoomLostType DEF Register, Superseded, LeaveTheRoom, startVars
  <2>2. CASE ~Register(c) /\ ~Superseded(c)
    BY <1>2, <2>2 DEF SocketStep, Welcome, PauseMatch, ActivateFromSocket, EndWonSession,
       HostCleanup, JoinerCleanup, ArmCheck, ArmInsert, PromoteAfterLeave, startVars
  <2> QED BY <2>1, <2>2
<1>3. CASE TimerStep
  <2>1. ASSUME NEW m \in promos, PromoteCommit(m)
        PROVE  HistoryType'
    <3>1. unmoved' \subseteq unmoved
      BY <2>1 DEF PromoteCommit
    <3> QED BY <2>1, <3>1 DEF PromoteCommit
  <2> QED BY <1>3, <2>1 DEF TimerStep, TimerCancelled, SlotTimerFires, FreeSlot,
             PromotionTimerFires, startVars
<1>4. CASE ValveStep
  BY <1>4 DEF ValveStep, BarrierValve, ActivateFromValve, PauseValve, BroadcastStarted,
     startVars
<1>5. CASE StartStep
  <2>1. CASE StartCommit
    <3>1. unmoved' = unmoved \/ unmoved' = RoomMembers(room)
      BY <2>1 DEF StartCommit
    <3>2. RoomMembers(room) \subseteq Players
      BY DEF RoomMembers
    <3> QED BY <2>1, <3>1, <3>2 DEF StartCommit
  <2>2. CASE StartAnnounce
    BY <2>2 DEF StartAnnounce, Starting, StartTask, Idle
  <2> QED BY <1>5, <2>1, <2>2 DEF StartStep, StartRecheck, StartSeed
<1>6. CASE CloseDelete
  BY <1>6 DEF CloseDelete, startVars, Nobody
<1>7. CASE UNCHANGED vars
  BY <1>7 DEF vars, startVars
<1> QED BY <1>1, <1>2, <1>3, <1>4, <1>5, <1>6, <1>7 DEF Next

PromosType == promos \subseteq [host : Players, keep : BOOLEAN, seen : SUBSET Players]

LEMMA PromosTypeNext ==
    ASSUME SocksType, TimersType, PromosType, [Next]_vars
    PROVE  PromosType'
<1>1. CASE UNCHANGED promos
  BY <1>1 DEF PromosType
<1>2. ASSUME NEW p \in Players, NEW keep \in BOOLEAN, Snapshot(p, keep)
      PROVE  PromosType'
  <2>1. RoomMembers(room) \ {p} \subseteq Players
    BY DEF RoomMembers
  <2> QED BY <1>2, <2>1 DEF Snapshot, PromosType
<1>3. ASSUME NEW c \in Conns,
             \/ Welcome(c) \/ PromoteAfterLeave(c)
             \/ \E kind \in Kinds : ArmInsert(c, kind)
      PROVE  PromosType'
  <2>1. CASE PromoteAfterLeave(c)
    BY <1>2, <2>1, SocketMoves, SockFields DEF PromoteAfterLeave, At
  <2> QED BY <1>1, <1>3, <2>1 DEF Welcome, ArmInsert
<1>4. CASE TimerStep
  <2>1. ASSUME NEW t \in timers, PromotionTimerFires(t)
        PROVE  PromosType'
    BY <1>2, <2>1 DEF PromotionTimerFires, TimersType, Timer
  <2>2. ASSUME NEW m \in promos, PromoteCommit(m)
        PROVE  PromosType'
    BY <2>2 DEF PromoteCommit, PromosType
  <2> QED BY <1>1, <1>4, <2>1, <2>2 DEF TimerStep, TimerCancelled, SlotTimerFires, FreeSlot
<1> QED BY <1>1, <1>3, <1>4, TaskFrame

\* What every step of the server keeps, whatever state it began in.
Sound ==
    /\ SP!IInv /\ PromosSound
    /\ SocksType /\ RoomType /\ ValvesType /\ Starting /\ TimersType /\ PromosType
    /\ HistoryType

LEMMA SoundNext == Sound /\ [Next]_vars => Sound'
<1> SUFFICES ASSUME Sound, [Next]_vars
             PROVE  Sound'
  OBVIOUS
<1>1. SP!IInv' /\ PromosSound'
  BY ServerStep, StoreStep, PromosNext DEF Sound
<1>2. SocksType' /\ RoomType' /\ ValvesType' /\ Starting'
  BY SocksNext, RoomNext, ValvesNext, StartingNext DEF Sound, Starting
<1>3. TimersType' /\ PromosType' /\ HistoryType'
  BY TimersNext, PromosTypeNext, HistoryNext DEF Sound
<1> QED BY <1>1, <1>2, <1>3 DEF Sound

LEMMA SoundIsTyped == Sound => TypeOK
<1>1. SP!IInv => session \in Store!Session \cup {NoSession}
  BY DEF SP!IInv, SP!TypeOK, SP!Session, Store!Session, SP!Statuses, Store!Statuses
<1> QED BY <1>1 DEF Sound, SocksType, RoomType, Rooms, ValvesType, Starting, TimersType,
   PromosType, HistoryType, TypeOK

LEMMA SoundInit == Init => Sound
<1> SUFFICES ASSUME Init
             PROVE  Sound
  OBVIOUS
<1>1. SP!IInv /\ PromosSound
  BY ServerInit
<1>2. SocksType /\ RoomType
  BY DEF Init, SocksType, RoomType, Rooms
<1>3. ValvesType /\ TimersType /\ PromosType
  BY DEF Init, NoTasks, ValvesType, TimersType, PromosType
<1>4. Starting
  BY DEF Init, NeverStarted, Starting
<1>5. HistoryType
  <2>1. spent \in [{"joins", "opens", "transfers", "closes", "reports"} -> Nat]
    BY DEF Init
  <2>2. /\ barrier \in {"none", "sleeping", "activating", "done"}
        /\ announced \in Seq(Players) /\ started \in Nat /\ unmoved \subseteq Players
    BY DEF Init, NeverStarted
  <2>3. closer \in Players \cup {Nobody} /\ roomLost \in BOOLEAN
    BY DEF Init, NoTasks, Nobody
  <2> QED BY <2>1, <2>2, <2>3 DEF HistoryType
<1> QED BY <1>1, <1>2, <1>3, <1>4, <1>5 DEF Sound
-----------------------------------------------------------------------------
(* One life per code: it is hosted once, started once, seeded once *)

\* Before /host there is nothing.
Unborn ==
    spent.joins = 0 =>
        /\ session = NoSession /\ room = NoRoom /\ start = Idle /\ barrier = "none"
        /\ \A c \in Conns : socks[c] = Closed

\* /start's commit happened and its barrier was seeded.
Seeded == start.pc = "announce" \/ barrier # "none"

\* A code that can still be started has not been, and a start seeds once.
SeedsOnce ==
    /\ session # NoSession /\ session.status = "waiting" =>
          start.pc \notin {"seed", "announce"} /\ barrier = "none"
    /\ start.pc = "seed" => barrier = "none"

\* The latch tells how often the start was broadcast, while its room survives.
Latched ==
    IF Seeded
    THEN roomLost \/ /\ room # NoRoom
                     /\ room.ready_roster # {}
                     /\ started = IF room.match_started THEN 1 ELSE 0
    ELSE /\ started = 0 /\ ~roomLost
         /\ room # NoRoom => room.ready_roster = {} /\ ~room.match_started

\* Whoever decided the match is about to delete it, or it is gone.
Decided ==
    room # NoRoom /\ room.game_over =>
        session = NoSession \/ \E c \in Conns : At(c, "winning")

LEMMA JoinsGrow ==
    ASSUME HistoryType, [Next]_vars, spent.joins # 0
    PROVE  spent'.joins # 0
<1>1. spent.joins \in Nat
  BY DEF HistoryType
<1>2. ASSUME NEW what \in {"joins", "opens", "transfers", "closes", "reports"}, Spend(what)
      PROVE  spent'.joins # 0
  BY <1>1, <1>2, SpendType
<1>3. CASE ClientStep
  BY <1>2, <1>3 DEF ClientStep, HostSession, JoinSession, TransferHost, CloseCheck, Identify,
     StartCheck, ClientReady, ReportScore, SocketCloses, LeaveTheRoom, SessionExpires
<1>4. CASE \E c \in Conns : SocketStep(c)
  BY <1>4 DEF SocketStep, Register, Welcome, PauseMatch, ActivateFromSocket, EndWonSession,
     Superseded, HostCleanup, JoinerCleanup, ArmCheck, ArmInsert, PromoteAfterLeave,
     LeaveTheRoom
<1>5. CASE TimerStep
  BY <1>5 DEF TimerStep, TimerCancelled, SlotTimerFires, FreeSlot, PromotionTimerFires,
     PromoteCommit
<1>6. CASE ValveStep \/ StartStep \/ CloseDelete
  BY <1>6 DEF ValveStep, BarrierValve, ActivateFromValve, PauseValve, StartStep,
     StartRecheck, StartCommit, StartSeed, StartAnnounce, CloseDelete
<1>7. CASE UNCHANGED vars
  BY <1>7 DEF vars
<1> QED BY <1>3, <1>4, <1>5, <1>6, <1>7 DEF Next

LEMMA UnbornNext ==
    ASSUME Sound, Unborn, [Next]_vars
    PROVE  Unborn'
<1> SUFFICES ASSUME spent'.joins = 0
             PROVE  /\ session' = NoSession /\ room' = NoRoom /\ start' = Idle
                    /\ barrier' = "none" /\ \A c \in Conns : socks'[c] = Closed
  BY DEF Unborn
<1>1. /\ spent.joins = 0
      /\ session = NoSession /\ room = NoRoom /\ start = Idle /\ barrier = "none"
      /\ \A c \in Conns : socks[c] = Closed
  BY JoinsGrow DEF Unborn, Sound
<1>2. \A c \in Conns, pc \in SockPcs : ~At(c, pc)
  BY <1>1 DEF At
<1>3. CASE ClientStep
  <2>1. ASSUME NEW p \in Players, NEW n \in Capacities, HostSession(p, n)
        PROVE  FALSE
    <3>1. spent'.joins = spent.joins + 1
      BY <2>1, SpendType DEF HostSession, Sound
    <3> QED BY <1>1, <3>1
  <2>2. ASSUME NEW p \in Players, JoinSession(p)
        PROVE  FALSE
    BY <1>1, <2>2 DEF JoinSession
  <2>3. ASSUME NEW p \in Players,
               \/ \E q \in Players : TransferHost(p, q)
               \/ CloseCheck(p) \/ \E rejoin \in BOOLEAN : Identify(p, rejoin)
        PROVE  FALSE
    BY <1>1, <2>3 DEF TransferHost, Store!TransferHost, CloseCheck, Identify
  <2>4. ASSUME NEW c \in Conns,
               \/ ClientReady(c)
               \/ \E q \in Players, n \in 1 .. 3 : ReportScore(c, q, n)
               \/ \E leave \in BOOLEAN : SocketCloses(c, leave)
        PROVE  FALSE
    BY <1>2, <2>4, Pcs DEF ClientReady, ReportScore, SocketCloses
  <2>5. ~StartCheck /\ ~SessionExpires
    BY <1>1 DEF StartCheck, SessionExpires, Store!Expire
  <2> QED BY <1>3, <2>1, <2>2, <2>3, <2>4, <2>5 DEF ClientStep
<1>4. ASSUME NEW c \in Conns, SocketStep(c)
      PROVE  FALSE
  BY <1>2, <1>4, Pcs DEF SocketStep, Register, Welcome, PauseMatch, ActivateFromSocket,
     EndWonSession, Superseded, HostCleanup, JoinerCleanup, InCleanup, ArmCheck, ArmInsert,
     PromoteAfterLeave, Kinds
<1>5. CASE TimerStep
  BY <1>1, <1>5 DEF TimerStep, TimerCancelled, SlotTimerFires, FreeSlot,
     PromotionTimerFires, PromoteCommit, Store!Live, startVars
<1>6. CASE ValveStep
  BY <1>1, <1>6 DEF ValveStep, BarrierValve, ActivateFromValve, PauseValve, ClearPause,
     taskVars, startVars
<1>7. CASE StartStep
  BY <1>1, <1>7 DEF StartStep, StartRecheck, StartCommit, StartSeed, StartAnnounce, Idle
<1>8. CASE CloseDelete
  BY <1>1, <1>8 DEF CloseDelete, taskVars, startVars
<1>9. CASE UNCHANGED vars
  BY <1>1, <1>9 DEF vars, taskVars, startVars
<1> QED BY <1>3, <1>4, <1>5, <1>6, <1>7, <1>8, <1>9 DEF Next

\* Only /host makes a session, and only once.
LEMMA HostedOnce ==
    ASSUME [Next]_vars, session = NoSession, session' # NoSession
    PROVE  spent.joins = 0
<1>1. CASE ClientStep
  BY <1>1 DEF ClientStep, HostSession, JoinSession, Store!Join, TransferHost,
     Store!TransferHost, CloseCheck, Identify, StartCheck, ClientReady, ReportScore,
     SocketCloses, LeaveTheRoom, SessionExpires, Store!Expire
<1>2. CASE \E c \in Conns : SocketStep(c)
  BY <1>2 DEF SocketStep, Register, Welcome, PauseMatch, ActivateFromSocket, EndWonSession,
     Superseded, HostCleanup, JoinerCleanup, ArmCheck, ArmInsert, PromoteAfterLeave,
     LeaveTheRoom
<1>3. CASE TimerStep
  BY <1>3 DEF TimerStep, TimerCancelled, SlotTimerFires, FreeSlot, PromotionTimerFires,
     PromoteCommit, Store!Live
<1>4. CASE ValveStep \/ StartStep \/ CloseDelete
  BY <1>4 DEF ValveStep, BarrierValve, ActivateFromValve, PauseValve, StartStep,
     StartRecheck, StartCommit, Store!Start, Store!StartAllowed, StartSeed, StartAnnounce,
     CloseDelete
<1>5. CASE UNCHANGED vars
  BY <1>5 DEF vars
<1> QED BY <1>1, <1>2, <1>3, <1>4, <1>5 DEF Next

\* A match never goes back to its lobby.
LEMMA NeverBack ==
    ASSUME Sound, [Next]_vars, session # NoSession, session' # NoSession,
           session.status # "waiting"
    PROVE  session'.status # "waiting"
<1>1. SP!FrozenStep
  BY ServerStep, SameNext, StoreCapacity, StoreNoSession, SP!FrozenNext
     DEF Sound, SP!IInv
<1>2. session \in SP!Session
  BY DEF Sound, SP!IInv, SP!TypeOK
<1> QED BY <1>1, <1>2 DEF SP!FrozenStep, SP!Phase, SP!Session, SP!Statuses

LEMMA SeedsOnceNext ==
    ASSUME Sound, Unborn, SeedsOnce, [Next]_vars
    PROVE  SeedsOnce'
<1>1. ASSUME session' # NoSession, session'.status = "waiting"
      PROVE  start.pc \notin {"seed", "announce"} /\ barrier = "none"
  <2>1. CASE session = NoSession
    BY <1>1, <2>1, HostedOnce DEF Unborn, Idle
  <2>2. CASE session # NoSession
    BY <1>1, <2>2, NeverBack DEF SeedsOnce
  <2> QED BY <2>1, <2>2
<1>2. CASE UNCHANGED <<start, barrier, announced>>
  BY <1>1, <1>2 DEF SeedsOnce
<1>3. CASE StartCheck \/ StartRecheck
  <2>1. barrier' = barrier /\ start'.pc \notin {"seed", "announce"}
    BY <1>3 DEF StartCheck, StartRecheck, Checked, Idle
  <2> QED BY <1>1, <2>1 DEF SeedsOnce
<1>4. CASE StartCommit
  <2>1. CASE Store!Start(start.by, Len(start.members) - 1)
    <3>1. session # NoSession /\ session.status = "waiting"
      BY <2>1 DEF Store!Start, Store!StartAllowed
    <3>2. session'.status # "waiting"
      <4>1. session \in SP!Session
        BY <3>1 DEF Sound, SP!IInv, SP!TypeOK
      <4>2. session'.status = "starting"
        BY <2>1, <4>1 DEF Store!Start, SP!Session
      <4> QED BY <4>2
    <3>3. barrier' = "none"
      BY <1>4, <3>1 DEF StartCommit, SeedsOnce
    <3> QED BY <3>2, <3>3 DEF SeedsOnce
  <2>2. CASE ~Store!Start(start.by, Len(start.members) - 1)
    <3>1. start \in StartTask
      BY <1>4 DEF StartCommit, Idle, Sound, Starting
    <3>2. /\ barrier' = barrier /\ session' = session
          /\ \/ start' = [start EXCEPT !.pc = "retry", !.tries = @ + 1]
             \/ start' = Idle
      BY <1>4, <2>2 DEF StartCommit
    <3>3. start'.pc \in {"retry", "idle"}
      <4>1. [start EXCEPT !.pc = "retry", !.tries = @ + 1].pc = "retry"
        BY <3>1 DEF StartTask
      <4>2. Idle.pc = "idle"
        BY DEF Idle
      <4> QED BY <3>2, <4>1, <4>2
    <3> QED BY <1>1, <3>2, <3>3 DEF SeedsOnce
  <2> QED BY <2>1, <2>2
<1>5. CASE StartSeed
  <2>1. start'.pc = "announce" /\ start.pc = "seed" /\ session' = session /\ barrier' = barrier
    BY <1>5 DEF StartSeed, Sound, Starting, StartTask, Idle
  <2> QED BY <1>1, <2>1 DEF SeedsOnce
<1>6. CASE StartAnnounce
  <2>1. start'.pc = "idle" /\ start.pc = "announce" /\ session' = session
    BY <1>6 DEF StartAnnounce, Idle
  <2> QED BY <1>1, <2>1 DEF SeedsOnce
<1>7. CASE BarrierValve \/ ActivateFromValve
  <2>1. start' = start /\ barrier # "none"
    BY <1>7 DEF BarrierValve, ActivateFromValve
  <2>2. start.pc # "seed"
    BY <2>1 DEF SeedsOnce
  <2> QED BY <1>1, <2>1, <2>2 DEF SeedsOnce
<1> QED BY <1>2, <1>3, <1>4, <1>5, <1>6, <1>7, StartFrame DEF StartStep

\* The barrier in the room stays as it is, or is lost with it.
BarrierKept ==
    /\ roomLost' = (roomLost \/ (room # NoRoom /\ room' = NoRoom /\ room.ready_roster # {}))
    /\ room' # NoRoom => SameBarrier(EntryOrDefault(room), room')

LEMMA BarrierStays ==
    ASSUME Sound, [Next]_vars, ~StartSeed, ~BarrierValve, ~\E c \in Conns : ClientReady(c)
    PROVE  BarrierKept
<1>0. SocksType /\ room \in Rooms /\ ValvesType /\ HistoryType
  BY DEF Sound, RoomType
<1>1. ASSUME roomLost' = roomLost, room # NoRoom => room' # NoRoom,
             room' # NoRoom => SameBarrier(EntryOrDefault(room), room')
      PROVE  BarrierKept
  BY <1>1, <1>0 DEF BarrierKept, HistoryType
<1>2. CASE UNCHANGED <<room, roomLost>>
  BY <1>0, <1>1, <1>2, EntryType DEF SameBarrier
<1>3. ASSUME NEW c \in Conns, Register(c)
      PROVE  BarrierKept
  <2>1. Who(c) \in Players
    BY <1>0, <1>3, SocketMoves, SockFields DEF At
  <2> DEFINE j == JoinRoom(room, Who(c), c)
  <2>2. j \in Room /\ SameBarrier(EntryOrDefault(room), j)
    BY <1>0, <2>1, JoinRoomType
  <2>3. j \in Rooms /\ j # NoRoom
    BY <2>2, NoRoomAssumption DEF Rooms
  <2> HIDE DEF j
  <2>4. LeaveRoom(j, Who(c), c) # NoRoom => SameBarrier(j, LeaveRoom(j, Who(c), c))
    BY <2>1, <2>3, LeaveRoomType
  <2>5. CASE session = NoSession
    <3>1. RoomBecomes(LeaveRoom(j, Who(c), c))
      BY <1>3, <2>5 DEF Register, j
    <3> QED BY <2>2, <2>4, <3>1 DEF RoomBecomes, BarrierKept, SameBarrier
  <2>6. CASE session # NoSession
    <3>1. room' = j /\ roomLost' = roomLost
      BY <1>3, <2>6 DEF Register, j
    <3> QED BY <1>1, <2>2, <2>3, <3>1
  <2> QED BY <2>5, <2>6
<1>4. ASSUME NEW c \in Conns, Superseded(c) \/ \E leave \in BOOLEAN : SocketCloses(c, leave)
      PROVE  BarrierKept
  <2>1. At(c, "pump") /\ RoomBecomes(LeaveRoom(room, Who(c), c))
    BY <1>0, <1>4, LeaveMoves
  <2>2. Who(c) \in Players
    BY <1>0, <2>1, SockFields DEF At
  <2>3. /\ room = NoRoom => LeaveRoom(room, Who(c), c) = NoRoom
        /\ LeaveRoom(room, Who(c), c) # NoRoom
              => SameBarrier(room, LeaveRoom(room, Who(c), c))
    BY <1>0, <2>2, LeaveRoomType
  <2> QED BY <1>0, <2>1, <2>3, EntryType DEF RoomBecomes, BarrierKept, SameBarrier
<1>5. ASSUME NEW c \in Conns,
             Welcome(c) \/ PauseMatch(c) \/ HostCleanup(c) \/ JoinerCleanup(c)
      PROVE  BarrierKept
  <2>1. Who(c) \in Players /\ roomLost' = roomLost
    BY <1>0, <1>5, SocketMoves, SockFields DEF At, InCleanup, Welcome, PauseMatch,
       HostCleanup, JoinerCleanup
  <2>2. CASE Welcome(c)
    BY <1>0, <1>1, <2>1, <2>2, EntryType DEF Welcome, SetIceServers, SameBarrier, EntryOrDefault
  <2>3. CASE PauseMatch(c)
    <3>1. room' = PauseFor(room, Who(c))
      BY <2>3 DEF PauseMatch
    <3> QED BY <1>0, <1>1, <2>1, <3>1, PauseType, EntryType DEF SameMatch
  <2>4. CASE HostCleanup(c) \/ JoinerCleanup(c)
    <3>1. room' = ClearPause(room, Who(c)) \/ room' = room
      BY <2>4 DEF HostCleanup, JoinerCleanup, ReleaseHold
    <3> QED BY <1>0, <1>1, <2>1, <3>1, PauseType, EntryType DEF SameMatch, SameBarrier
  <2> QED BY <1>5, <2>2, <2>3, <2>4
<1>6. ASSUME NEW c \in Conns, NEW q \in Players, NEW n \in 1 .. 3, ReportScore(c, q, n)
      PROVE  BarrierKept
  <2>1. /\ Creditable(room, q, n) /\ room' = RecordScore(room, q, n)
        /\ roomLost' = roomLost
    BY <1>6 DEF ReportScore
  <2>2. room' \in Room /\ SameBarrier(room, room') /\ room # NoRoom
    BY <1>0, <2>1, ScoreType DEF Creditable
  <2> QED BY <1>0, <1>1, <2>1, <2>2, EntryType, NoRoomAssumption
<1>7. CASE \E v \in valves : PauseValve(v)
  <2>1. PICK v \in valves : PauseValve(v)
    BY <1>7
  <2>2. v.player \in Players /\ room' = ClearPause(room, v.player) /\ roomLost' = roomLost
    BY <1>0, <2>1 DEF PauseValve, ValvesType
  <2> QED BY <1>0, <1>1, <2>2, PauseType, EntryType DEF SameMatch
<1>8. CASE StartAnnounce
  BY <1>0, <1>1, <1>8, EntryType DEF StartAnnounce, SetIceServers, SameBarrier, EntryOrDefault
<1> QED BY <1>2, <1>3, <1>4, <1>5, <1>6, <1>7, <1>8, RoomFrame

LEMMA LatchedNext ==
    ASSUME Sound, SeedsOnce, Latched, [Next]_vars
    PROVE  Latched'
<1>0. room \in Rooms /\ SocksType /\ started \in Nat /\ roomLost \in BOOLEAN
  BY DEF Sound, RoomType, HistoryType
<1>1. CASE StartSeed
  <2>1. /\ start.pc = "seed" /\ barrier = "none" /\ barrier' = barrier
        /\ start \in StartTask /\ start.members # <<>>
        /\ start' = [start EXCEPT !.pc = "announce"]
        /\ started' = started /\ roomLost' = roomLost
        /\ room' = SetReadyRoster(SetWinTarget(room, WinTarget), ToSet(start.members))
    BY <1>1 DEF StartSeed, SeedsOnce, Sound, Starting, Idle
  <2>2. start.members \in Seq(Players) /\ start'.pc = "announce"
    BY <2>1 DEF StartTask
  <2>3. ToSet(start.members) \in SUBSET Players /\ ToSet(start.members) # {}
    <3>1. start.members[1] \in ToSet(start.members)
      BY <2>1, <2>2 DEF ToSet
    <3>2. ToSet(start.members) \subseteq Players
      BY <2>2 DEF ToSet
    <3> QED BY <3>1, <3>2
  <2>4. room' # NoRoom /\ room'.ready_roster # {} /\ ~room'.match_started
    BY <1>0, <2>1, <2>3, SeedType
  <2>5. started = 0 /\ ~roomLost
    BY <2>1 DEF Latched, Seeded
  <2> QED BY <2>1, <2>2, <2>4, <2>5 DEF Latched, Seeded
<1>2. ASSUME ~StartSeed
      PROVE  Seeded' <=> Seeded
  <2>1. CASE UNCHANGED <<start, barrier, announced>>
    BY <2>1 DEF Seeded
  <2>2. CASE StartCheck \/ StartRecheck
    BY <2>2 DEF StartCheck, StartRecheck, Checked, Idle, Seeded
  <2>3. CASE StartCommit
    <3>1. start \in StartTask /\ start.pc = "checked" /\ barrier' = barrier
      BY <2>3 DEF StartCommit, Sound, Starting, Idle
    <3>2. \/ start' = [start EXCEPT !.pc = "seed"]
          \/ start' = [start EXCEPT !.pc = "retry", !.tries = @ + 1]
          \/ start' = Idle
      BY <2>3 DEF StartCommit
    <3>3. /\ [start EXCEPT !.pc = "seed"].pc = "seed"
          /\ [start EXCEPT !.pc = "retry", !.tries = @ + 1].pc = "retry"
          /\ Idle.pc = "idle"
      BY <3>1 DEF StartTask, Idle
    <3>4. start'.pc # "announce"
      BY <3>2, <3>3
    <3> QED BY <3>1, <3>4 DEF Seeded
  <2>4. CASE StartAnnounce \/ BarrierValve \/ ActivateFromValve
    BY <2>4 DEF StartAnnounce, BarrierValve, ActivateFromValve, Seeded
  <2> QED BY <1>2, <2>1, <2>2, <2>3, <2>4, StartFrame DEF StartStep
<1>3. ASSUME NEW c \in Conns, ClientReady(c)
      PROVE  Latched'
  <2>1. Who(c) \in Players /\ roomLost' = roomLost
    BY <1>0, <1>3, FrameMoves, SockFields DEF At, ClientReady
  <2>2. Seeded' <=> Seeded
    BY <1>2, <1>3 DEF StartSeed, ClientReady, Seeded
  <2>3. CASE ReadyOutcome(room, Who(c)) \in {"AllReady", "Pending"}
    <3>1. /\ room # NoRoom /\ room.ready_roster # {} /\ ~room.match_started
          /\ RecordReady(room, Who(c)) \in Room
          /\ RecordReady(room, Who(c)).ready_roster = room.ready_roster
          /\ RecordReady(room, Who(c)).match_started
                = (ReadyOutcome(room, Who(c)) = "AllReady")
      BY <1>0, <2>1, <2>3, ReadyType
    <3>2. /\ room' = RecordReady(room, Who(c))
          /\ IF ReadyOutcome(room, Who(c)) = "AllReady" THEN started' = started + 1
             ELSE started' = started
      BY <1>3, <2>3 DEF ClientReady, BroadcastStarted
    <3>3. room' # NoRoom
      BY <3>1, <3>2, NoRoomAssumption
    <3>4. Seeded /\ (roomLost \/ started = 0)
      BY <3>1 DEF Latched
    <3>5. room'.match_started <=> ReadyOutcome(room, Who(c)) = "AllReady"
      BY <3>1, <3>2
    <3> QED BY <2>1, <2>2, <3>1, <3>2, <3>3, <3>4, <3>5 DEF Latched
  <2>4. CASE ReadyOutcome(room, Who(c)) \notin {"AllReady", "Pending"}
    <3>1. started' = started /\ (room' = room \/ room' = ClearPause(room, Who(c)))
      BY <1>3, <2>4 DEF ClientReady
    <3>2. /\ room' # NoRoom <=> room # NoRoom
          /\ room # NoRoom => SameBarrier(room, room')
      BY <1>0, <2>1, <3>1, PauseType DEF SameMatch, SameBarrier
    <3> QED BY <2>1, <2>2, <3>1, <3>2 DEF Latched, SameBarrier
  <2> QED BY <2>3, <2>4
<1>4. CASE BarrierValve
  <2>1. /\ room' = ForceMatchStart(room) /\ roomLost' = roomLost /\ Seeded /\ Seeded'
        /\ IF Forceable(room) THEN started' = started + 1 ELSE started' = started
    BY <1>4 DEF BarrierValve, BroadcastStarted, Seeded
  <2>2. CASE roomLost
    BY <2>1, <2>2 DEF Latched
  <2>3. CASE ~roomLost
    <3>1. /\ room # NoRoom /\ room.ready_roster # {}
          /\ started = IF room.match_started THEN 1 ELSE 0
      BY <2>1, <2>3 DEF Latched
    <3>2. /\ room' # NoRoom /\ room'.ready_roster # {} /\ room'.match_started
          /\ Forceable(room) <=> ~room.match_started
      BY <1>0, <2>1, <3>1, ForceType DEF Forceable
    <3> QED BY <2>1, <3>1, <3>2 DEF Latched
  <2> QED BY <2>2, <2>3
<1>5. CASE ~StartSeed /\ ~BarrierValve /\ ~\E c \in Conns : ClientReady(c)
  <2>1. BarrierKept /\ started' = started /\ (Seeded' <=> Seeded)
    BY <1>2, <1>5, BarrierStays, StartedFrame
  <2>2. /\ room # NoRoom => EntryOrDefault(room) = room
        /\ room = NoRoom => /\ EntryOrDefault(room).ready_roster = {}
                            /\ ~EntryOrDefault(room).match_started
    BY <1>0, EntryType DEF DefaultRoom
  <2> QED BY <1>0, <2>1, <2>2 DEF Latched, BarrierKept, SameBarrier
<1> QED BY <1>1, <1>3, <1>4, <1>5

\* The score stays decided or not, but for a report that decides it.
LEMMA DecidedByReport ==
    ASSUME Sound, [Next]_vars, room' # NoRoom, room'.game_over
    PROVE  \/ room # NoRoom /\ room.game_over
           \/ \E c \in Conns : Moves(c, "winning")
<1>0. SocksType /\ room \in Rooms /\ ValvesType /\ EntryOrDefault(room) \in Room
  BY EntryType DEF Sound, RoomType
<1>1. /\ room # NoRoom => EntryOrDefault(room) = room
      /\ room = NoRoom => ~EntryOrDefault(room).game_over
  BY <1>0, EntryType DEF DefaultRoom
<1>2. CASE UNCHANGED <<room, roomLost>>
  BY <1>2
<1>3. ASSUME NEW c \in Conns, Register(c)
      PROVE  room # NoRoom /\ room.game_over
  <2>1. Who(c) \in Players
    BY <1>0, <1>3, SocketMoves, SockFields DEF At
  <2> DEFINE j == JoinRoom(room, Who(c), c)
  <2>2. j \in Room /\ j.game_over = EntryOrDefault(room).game_over
    BY <1>0, <2>1, JoinRoomType
  <2>3. j \in Rooms /\ j # NoRoom
    BY <2>2, NoRoomAssumption DEF Rooms
  <2>4. room' = j \/ room' = LeaveRoom(j, Who(c), c)
    BY <1>3 DEF Register, RoomBecomes
  <2> HIDE DEF j
  <2>5. LeaveRoom(j, Who(c), c) # NoRoom
           => LeaveRoom(j, Who(c), c).game_over = j.game_over
    BY <2>1, <2>3, LeaveRoomType
  <2>6. room'.game_over = j.game_over
    BY <2>4, <2>5
  <2> QED BY <1>1, <2>2, <2>6
<1>4. ASSUME NEW c \in Conns, Superseded(c) \/ \E leave \in BOOLEAN : SocketCloses(c, leave)
      PROVE  room # NoRoom /\ room.game_over
  <2>1. At(c, "pump") /\ room' = LeaveRoom(room, Who(c), c)
    BY <1>0, <1>4, LeaveMoves DEF RoomBecomes
  <2> QED BY <1>0, <2>1, SockFields, LeaveRoomType DEF At
<1>5. ASSUME NEW c \in Conns,
             Welcome(c) \/ PauseMatch(c) \/ HostCleanup(c) \/ JoinerCleanup(c)
      PROVE  room # NoRoom /\ room.game_over
  <2>1. Who(c) \in Players
    BY <1>0, <1>5, SocketMoves, SockFields DEF At, InCleanup
  <2>2. \/ room' = EntryOrDefault(room) \/ room' = room
        \/ room' = PauseFor(room, Who(c)) \/ room' = ClearPause(room, Who(c))
    BY <1>5 DEF Welcome, SetIceServers, PauseMatch, HostCleanup, JoinerCleanup, ReleaseHold
  <2> QED BY <1>0, <1>1, <2>1, <2>2, PauseType DEF SameMatch
<1>6. ASSUME NEW c \in Conns, NEW q \in Players, NEW n \in 1 .. 3, ReportScore(c, q, n)
      PROVE  (room # NoRoom /\ room.game_over) \/ Moves(c, "winning")
  <2>1. /\ Creditable(room, q, n) /\ room' = RecordScore(room, q, n)
        /\ Wins(room, q, n) => Moves(c, "winning")
    BY <1>0, <1>6, FrameMoves DEF ReportScore
  <2>2. n \in Nat /\ room # NoRoom
    BY <2>1 DEF Creditable
  <2>3. room'.game_over = (room.game_over \/ Wins(room, q, n))
    BY <1>0, <2>1, <2>2, ScoreType
  <2>4. room.game_over \/ Wins(room, q, n)
    BY <2>3, Zenon
  <2> QED BY <2>1, <2>2, <2>4
<1>7. ASSUME NEW c \in Conns, ClientReady(c)
      PROVE  room # NoRoom /\ room.game_over
  <2>1. Who(c) \in Players
    BY <1>0, <1>7, FrameMoves, SockFields DEF At
  <2>2. \/ /\ ReadyOutcome(room, Who(c)) \in {"AllReady", "Pending"}
           /\ room' = RecordReady(room, Who(c))
        \/ room' = ClearPause(room, Who(c)) \/ room' = room
    BY <1>7 DEF ClientReady
  <2> QED BY <1>0, <2>1, <2>2, ReadyType, PauseType DEF SameMatch
<1>8. CASE BarrierValve
  BY <1>0, <1>8, ForceType DEF BarrierValve
<1>9. ASSUME NEW v \in valves, PauseValve(v)
      PROVE  room # NoRoom /\ room.game_over
  BY <1>0, <1>9, PauseType DEF PauseValve, ValvesType, SameMatch
<1>10. CASE StartSeed
  <2>1. start \in StartTask
    BY <1>10 DEF StartSeed, Sound, Starting, Idle
  <2>2. ToSet(start.members) \in SUBSET Players
    BY <2>1 DEF StartTask, ToSet
  <2>3. ~room'.game_over
    BY <1>0, <1>10, <2>2, SeedType DEF StartSeed
  <2> QED BY <2>3
<1>11. CASE StartAnnounce
  BY <1>1, <1>11 DEF StartAnnounce, SetIceServers
<1> QED BY <1>2, <1>3, <1>4, <1>5, <1>6, <1>7, <1>8, <1>9, <1>10, <1>11, RoomFrame

\* A step leaves a socket's task alone unless it is that task's own.
LEMMA OwnStep ==
    ASSUME SocksType, [Next]_vars, NEW c \in Conns, socks[c] # Closed
    PROVE  \/ socks'[c] = socks[c]
           \/ SocketStep(c) \/ ClientReady(c)
           \/ \E q \in Players, n \in 1 .. 3 : ReportScore(c, q, n)
           \/ \E leave \in BOOLEAN : SocketCloses(c, leave)
<1>1. CASE \E p \in Players, rejoin \in BOOLEAN : Identify(p, rejoin)
  BY <1>1, IdentifyOpens DEF Opens
<1>2. ASSUME NEW d \in Conns, d # c,
             Moves(d, "left") \/ Moves(d, "stale") \/ Moves(d, "activating")
               \/ Moves(d, "winning") \/ (\E pc \in SockPcs : Moves(d, pc)) \/ Ends(d)
      PROVE  socks'[c] = socks[c]
  BY <1>2 DEF Moves, Ends
<1>3. ASSUME NEW d \in Conns, d # c, SocketStep(d)
      PROVE  socks'[c] = socks[c]
  <2>1. CASE Superseded(d)
    BY <1>2, <1>3, <2>1, LeaveMoves
  <2>2. ASSUME NEW kind \in Kinds, ArmCheck(d, kind) \/ ArmInsert(d, kind)
        PROVE  socks'[c] = socks[c]
    <3>1. InsertPc[kind] \in SockPcs /\ "check reconnect" \in SockPcs
      BY Pcs DEF Kinds
    <3> QED BY <1>2, <1>3, <2>2, <3>1, ArmMoves
  <2>3. CASE \/ Register(d) \/ Welcome(d) \/ PauseMatch(d) \/ ActivateFromSocket(d)
             \/ EndWonSession(d) \/ HostCleanup(d) \/ JoinerCleanup(d)
             \/ PromoteAfterLeave(d)
    BY <1>2, <1>3, <2>3, SocketMoves, Pcs
  <2> QED BY <1>3, <2>1, <2>2, <2>3 DEF SocketStep
<1>4. ASSUME NEW d \in Conns, d # c,
             \/ ClientReady(d)
             \/ \E q \in Players, n \in 1 .. 3 : ReportScore(d, q, n)
             \/ \E leave \in BOOLEAN : SocketCloses(d, leave)
      PROVE  socks'[c] = socks[c]
  BY <1>2, <1>4, FrameMoves, LeaveMoves
<1> QED BY <1>1, <1>3, <1>4, SocksFrame

LEMMA DecidedNext ==
    ASSUME Sound, Unborn, Decided, [Next]_vars
    PROVE  Decided'
<1>0. SocksType
  BY DEF Sound
<1> SUFFICES ASSUME room' # NoRoom, room'.game_over, session' # NoSession
             PROVE  \E c \in Conns : At(c, "winning")'
  BY DEF Decided
<1>1. CASE \E c \in Conns : Moves(c, "winning")
  BY <1>1 DEF Moves, At
<1>2. CASE room # NoRoom /\ room.game_over
  <2>1. session # NoSession
    BY <1>2, HostedOnce DEF Unborn
  <2>2. PICK c \in Conns : At(c, "winning")
    BY <1>2, <2>1 DEF Decided
  <2>3. CASE socks'[c] = socks[c]
    BY <2>2, <2>3 DEF At
  <2>4. ~EndWonSession(c)
    BY DEF EndWonSession
  <2>5. ~SocketStep(c)
    <3>1. InCleanup(c) => FALSE
      BY <2>2 DEF InCleanup, At
    <3>2. ~Superseded(c)
      BY <2>2 DEF Superseded, At
    <3>3. \A kind \in Kinds : ~ArmCheck(c, kind) /\ ~ArmInsert(c, kind)
      BY <2>2, Pcs DEF ArmCheck, ArmInsert, At, Kinds
    <3> QED BY <1>0, <2>2, <2>4, <3>1, <3>2, <3>3, SocketMoves DEF SocketStep, At
  <2>6. /\ ~ClientReady(c)
        /\ \A q \in Players, n \in 1 .. 3 : ~ReportScore(c, q, n)
        /\ \A leave \in BOOLEAN : ~SocketCloses(c, leave)
    BY <2>2 DEF ClientReady, ReportScore, SocketCloses, At
  <2> QED BY <1>0, <2>2, <2>3, <2>5, <2>6, OwnStep DEF At
<1> QED BY <1>1, <1>2, DecidedByReport

OneLife == Sound /\ Unborn /\ SeedsOnce /\ Latched /\ Decided

LEMMA OneLifeInit == Init => OneLife
<1> SUFFICES ASSUME Init
             PROVE  OneLife
  OBVIOUS
<1>1. Sound
  BY SoundInit
<1>2. /\ session = NoSession /\ room = NoRoom /\ start = Idle /\ barrier = "none"
      /\ started = 0 /\ ~roomLost /\ \A c \in Conns : socks[c] = Closed
  BY DEF Init, NoTasks, NeverStarted
<1> QED BY <1>1, <1>2 DEF OneLife, Unborn, SeedsOnce, Latched, Seeded, Decided, Idle

LEMMA OneLifeInductive == Spec => []OneLife
<1>1. OneLife /\ [Next]_vars => OneLife'
  BY SoundNext, UnbornNext, SeedsOnceNext, LatchedNext, DecidedNext DEF OneLife
<1> QED BY OneLifeInit, <1>1, PTL DEF Spec

\* The type invariant of the server.
THEOREM ServerTyped == Spec => []TypeOK
<1>1. OneLife => TypeOK
  BY SoundIsTyped DEF OneLife
<1> QED BY OneLifeInductive, <1>1, PTL

\* The last ClientReady and the barrier's valve never both broadcast MatchStarted,
\* whatever tasks, sockets and round trips come between, while the room survives.
THEOREM StartsOnce == Spec => []OneWinner
<1>1. OneLife => OneWinner
  BY DEF OneLife, Sound, HistoryType, Latched, OneWinner
<1> QED BY OneLifeInductive, <1>1, PTL

\* Once the task of the winning report is done no session is left, whatever else
\* ran between the report and the delete.
THEOREM DecisionEndsSession == Spec => []DecidedMeansOver
<1>1. OneLife => DecidedMeansOver
  BY DEF OneLife, Decided, DecidedMeansOver
<1> QED BY OneLifeInductive, <1>1, PTL
-----------------------------------------------------------------------------
(* Who leaves the room *)

\* p's own socket hangs up, or backs out of a session that is gone.
Leaves(p) ==
    \/ \E c \in Conns :
          c = room.senders[p] /\ At(c, "pump") /\ Who(c) = p /\ Moves(c, "left")
    \/ session = NoSession /\ \E c \in Conns : At(c, "identified") /\ Who(c) = p

LEMMA LeaveNext ==
    ASSUME Sound, [Next]_vars, NEW p \in Players, p \in RoomMembers(room),
           p \notin RoomMembers(room')
    PROVE  Leaves(p)
<1>0. /\ SocksType /\ room \in Rooms /\ ValvesType
      /\ room # NoRoom /\ room \in Room /\ EntryOrDefault(room) = room
  BY EntryType DEF Sound, RoomType, RoomMembers, Rooms
<1>1. ASSUME room' \in Room, room'.senders = room.senders
      PROVE  FALSE
  <2>1. room' # NoRoom
    BY <1>1, NoRoomAssumption
  <2> QED BY <1>0, <1>1, <2>1 DEF RoomMembers
<1>2. ASSUME NEW c \in Conns, Register(c)
      PROVE  Leaves(p)
  <2>1. At(c, "identified") /\ Who(c) \in Players
    BY <1>0, <1>2, SocketMoves, SockFields DEF At
  <2> DEFINE j == JoinRoom(room, Who(c), c)
  <2>2. /\ j \in Room
        /\ j.senders[Who(c)] = c
        /\ \A q \in Players \ {Who(c)} : j.senders[q] = room.senders[q]
    BY <1>0, <2>1, JoinRoomType
  <2>3. j \in Rooms /\ j # NoRoom
    BY <2>2, NoRoomAssumption DEF Rooms
  <2>4. c # 0
    BY ConnAssumption
  <2>5. p \in RoomMembers(j) /\ Bound(j, Who(c), c)
    BY <1>0, <2>2, <2>3, <2>4 DEF RoomMembers, Bound
  <2>6. room' = j \/ (session = NoSession /\ room' = LeaveRoom(j, Who(c), c))
    BY <1>2 DEF Register, RoomBecomes
  <2> HIDE DEF j
  <2>7. RoomMembers(LeaveRoom(j, Who(c), c)) = RoomMembers(j) \ {Who(c)}
    BY <2>1, <2>3, <2>5, LeaveRoomType
  <2> QED BY <2>1, <2>5, <2>6, <2>7 DEF Leaves
<1>3. ASSUME NEW c \in Conns, Superseded(c) \/ \E leave \in BOOLEAN : SocketCloses(c, leave)
      PROVE  Leaves(p)
  <2>1. /\ At(c, "pump") /\ room' = LeaveRoom(room, Who(c), c)
        /\ Bound(room, Who(c), c) => Moves(c, "left")
    BY <1>0, <1>3, LeaveMoves DEF RoomBecomes
  <2>2. RoomMembers(room') = IF Bound(room, Who(c), c) THEN RoomMembers(room) \ {Who(c)}
                                                       ELSE RoomMembers(room)
    BY <1>0, <2>1, SockFields, LeaveRoomType DEF At
  <2>3. Bound(room, Who(c), c) /\ Who(c) = p
    BY <2>2
  <2> QED BY <2>1, <2>3 DEF Bound, Leaves
<1>4. ASSUME NEW c \in Conns,
             Welcome(c) \/ PauseMatch(c) \/ HostCleanup(c) \/ JoinerCleanup(c)
      PROVE  FALSE
  <2>1. Who(c) \in Players
    BY <1>0, <1>4, SocketMoves, SockFields DEF At, InCleanup
  <2>2. \/ room' = EntryOrDefault(room) \/ room' = room
        \/ room' = PauseFor(room, Who(c)) \/ room' = ClearPause(room, Who(c))
    BY <1>4 DEF Welcome, SetIceServers, PauseMatch, HostCleanup, JoinerCleanup, ReleaseHold
  <2> QED BY SMTT(20), <1>0, <1>1, <2>1, <2>2, PauseType DEF SameMatch, Rooms
<1>5. ASSUME NEW c \in Conns, NEW q \in Players, NEW n \in 1 .. 3, ReportScore(c, q, n)
      PROVE  FALSE
  BY <1>0, <1>1, <1>5, ScoreType DEF ReportScore
<1>6. ASSUME NEW c \in Conns, ClientReady(c)
      PROVE  FALSE
  <2>1. Who(c) \in Players
    BY <1>0, <1>6, FrameMoves, SockFields DEF At
  <2>2. \/ /\ ReadyOutcome(room, Who(c)) \in {"AllReady", "Pending"}
           /\ room' = RecordReady(room, Who(c))
        \/ room' = ClearPause(room, Who(c)) \/ room' = room
    BY <1>6 DEF ClientReady
  <2> QED BY SMTT(20), <1>0, <1>1, <2>1, <2>2, ReadyType, PauseType DEF SameMatch, Rooms
<1>7. CASE BarrierValve
  BY <1>0, <1>1, <1>7, ForceType DEF BarrierValve, Rooms
<1>8. ASSUME NEW v \in valves, PauseValve(v)
      PROVE  FALSE
  BY <1>0, <1>1, <1>8, PauseType DEF PauseValve, ValvesType, SameMatch, Rooms
<1>9. CASE StartSeed
  <2>1. start \in StartTask
    BY <1>9 DEF StartSeed, Sound, Starting, Idle
  <2>2. ToSet(start.members) \in SUBSET Players
    BY <2>1 DEF StartTask, ToSet
  <2> QED BY <1>0, <1>1, <1>9, <2>2, SeedType DEF StartSeed
<1>10. CASE StartAnnounce
  BY <1>0, <1>1, <1>10 DEF StartAnnounce, SetIceServers
<1>11. CASE UNCHANGED <<room, roomLost>>
  BY <1>11
<1> QED BY <1>2, <1>3, <1>4, <1>5, <1>6, <1>7, <1>8, <1>9, <1>10, <1>11, RoomFrame

\* One step of EvictedOnlyByOwn.
EvictStep ==
    \A p \in Players :
       p \in RoomMembers(room) /\ p \notin RoomMembers(room') =>
          \/ socks'[room.senders[p]].pc = "left"
          \/ session = NoSession /\ \E c \in Conns : At(c, "identified") /\ Who(c) = p

LEMMA EvictNext == Sound /\ [Next]_vars => EvictStep
<1> SUFFICES ASSUME Sound, [Next]_vars, NEW p \in Players,
                    p \in RoomMembers(room), p \notin RoomMembers(room')
             PROVE  \/ socks'[room.senders[p]].pc = "left"
                    \/ /\ session = NoSession
                       /\ \E c \in Conns : At(c, "identified") /\ Who(c) = p
  BY DEF EvictStep
<1>1. Leaves(p)
  BY LeaveNext
<1> QED BY <1>1 DEF Leaves, Moves

-----------------------------------------------------------------------------
(* A match under way: MatchSpec *)

LEMMA LobbyFacts ==
    /\ Lobby \in Seq(Players) /\ Len(Lobby) \in Nat /\ Len(Lobby) >= 2
    /\ Len(Lobby) >= MinPlayers /\ Len(Lobby) \in Capacities
    /\ Lobby[1] \in Players
    /\ Tail(Lobby) \in Seq(Players) /\ Len(Tail(Lobby)) = Len(Lobby) - 1
    /\ \A i \in 1 .. (Len(Lobby) - 1) : Tail(Lobby)[i] = Lobby[i + 1]
<1>1. Lobby \in Seq(Players) /\ Len(Lobby) \in Nat /\ Len(Lobby) \in Capacities
  BY LobbyAssumption
<1>2. Len(Lobby) >= MinPlayers /\ Len(Lobby) >= 2
  BY <1>1, StoreAssumption
<1>3. Lobby[1] \in Players /\ Lobby # <<>>
  BY <1>1, <1>2
<1>4. /\ Tail(Lobby) \in Seq(Players) /\ Len(Tail(Lobby)) = Len(Lobby) - 1
      /\ \A i \in 1 .. (Len(Lobby) - 1) : Tail(Lobby)[i] = Lobby[i + 1]
  BY <1>1, <1>3
<1> QED BY <1>1, <1>2, <1>3, <1>4

LEMMA MatchRecord == MatchInit => SP!IInv
<1> SUFFICES ASSUME MatchInit
             PROVE  SP!IInv
  OBVIOUS
<1> DEFINE s == [host |-> Lobby[1], joiners |-> Tail(Lobby), status |-> "active",
                 seat_order |-> Lobby, player_count |-> Len(Lobby)]
<1>1. session = s
  BY DEF MatchInit
<1>2. s \in SP!Session /\ s # NoSession
  BY LobbyFacts, StoreNoSession DEF SP!Session, SP!Statuses
<1>3. DOMAIN Lobby = 1 .. Len(Lobby) /\ DOMAIN Tail(Lobby) = 1 .. (Len(Lobby) - 1)
  BY LobbyFacts
<1>4. s.host \notin SP!ToSet(s.joiners)
  BY LobbyFacts, LobbyAssumption, <1>3 DEF SP!ToSet
<1>5. SP!Distinct(s.joiners) /\ SP!Distinct(s.seat_order)
  BY SMTT(20), LobbyFacts, LobbyAssumption, <1>3 DEF SP!Distinct
<1>6. 1 + Len(s.joiners) <= s.player_count
  BY LobbyFacts
<1>7. s.joiners # <<>> /\ Len(s.seat_order) >= MinPlayers
  <2>1. Len(Tail(Lobby)) >= 1
    BY LobbyFacts
  <2>2. Tail(Lobby) # <<>>
    BY <2>1
  <2> QED BY <2>2, LobbyFacts
<1>8. SP!Members(s) \subseteq SP!ToSet(s.seat_order)
  BY LobbyFacts, <1>3 DEF SP!Members, SP!ToSet
<1>9. s.status = "active"
  OBVIOUS
<1> HIDE DEF s
<1> QED BY <1>1, <1>2, <1>4, <1>5, <1>6, <1>7, <1>8, <1>9
        DEF SP!IInv, SP!TypeOK, SP!RosterSound, SP!MatchSeated

LEMMA MatchRoom == MatchInit => room \in Room /\ room.senders = LobbySenders
<1> SUFFICES ASSUME MatchInit
             PROVE  room \in Room /\ room.senders = LobbySenders
  OBVIOUS
<1>1. LobbySenders \in [Players -> Conns \cup {0}]
  BY LobbyAssumption DEF LobbySenders
<1>2. WinTarget \in Nat
  BY BoundAssumption
<1> DEFINE r == [DefaultRoom EXCEPT
                   !.senders = LobbySenders, !.win_target = WinTarget,
                   !.ready_roster = Players, !.ready = Players, !.match_started = TRUE]
<1>3. r \in Room /\ r.senders = LobbySenders
  BY <1>1, <1>2 DEF DefaultRoom, Room
<1>4. room = r
  BY DEF MatchInit
<1> HIDE DEF r
<1> QED BY <1>3, <1>4

LEMMA MatchTyped == MatchInit => Sound
<1> SUFFICES ASSUME MatchInit
             PROVE  Sound
  OBVIOUS
<1>1. SP!IInv
  BY MatchRecord
<1>2. /\ promos = {} /\ timers = {} /\ valves = {} /\ closer = Nobody /\ roomLost = FALSE
      /\ grace = [p \in Players |-> [kind \in Kinds |-> 0]] /\ hold = [p \in Players |-> 0]
      /\ start = Idle /\ barrier = "done" /\ announced = Lobby /\ started = 1
      /\ unmoved = Players
  BY DEF MatchInit, NoTasks
<1>3. PromosSound /\ PromosType /\ TimersType /\ ValvesType /\ Starting
  BY <1>2 DEF PromosSound, PromosType, TimersType, ValvesType, Starting
<1>4. SocksType
  <2>1. \A c \in Conns : c \in Nat /\ c # 0
    BY ConnAssumption
  <2>2. \A c \in Conns : c <= Len(Lobby) =>
           [player |-> Lobby[c], is_host |-> c = 1, rejoin |-> FALSE, late |-> FALSE,
            leave |-> FALSE, pc |-> "pump"] \in Sock
    <3>1. \A c \in Conns : c <= Len(Lobby) => Lobby[c] \in Players
      BY <2>1, LobbyFacts
    <3>2. \A c \in Conns : (c = 1) \in BOOLEAN
      OBVIOUS
    <3>3. "pump" \in SockPcs
      BY Pcs
    <3>4. \A p \in Players, h \in BOOLEAN :
             [player |-> p, is_host |-> h, rejoin |-> FALSE, late |-> FALSE,
              leave |-> FALSE, pc |-> "pump"] \in Sock
      BY <3>3 DEF Sock
    <3> QED BY <3>1, <3>2, <3>4, Zenon
  <2>3. LobbySocks \in [Conns -> Sock \cup {Closed}]
    BY <2>2 DEF LobbySocks
  <2> QED BY <2>3 DEF MatchInit, SocksType
<1>5. RoomType
  BY MatchRoom DEF RoomType, Rooms
<1>6. HistoryType
  <2>1. spent \in [{"joins", "opens", "transfers", "closes", "reports"} -> Nat]
    BY LobbyFacts DEF MatchInit, Opened
  <2> QED BY <1>2, <2>1, LobbyFacts DEF HistoryType
<1> QED BY <1>1, <1>3, <1>4, <1>5, <1>6 DEF Sound

\* No socket's late cleanup takes away a player whom a newer socket connected.
THEOREM EvictionsByOwn == Spec \/ MatchSpec => EvictedOnlyByOwn
<1>1. Sound /\ [Next]_vars => EvictStep
  BY EvictNext
<1>2. Spec => EvictedOnlyByOwn
  BY SoundInit, SoundNext, <1>1, PTL DEF Spec, EvictedOnlyByOwn, EvictStep
<1>3. MatchSpec => EvictedOnlyByOwn
  BY MatchTyped, SoundNext, <1>1, PTL DEF MatchSpec, EvictedOnlyByOwn, EvictStep
<1> QED BY <1>2, <1>3

\* Who hosted the match when it began.
Founder == Lobby[1]

\* /start is behind, and the record is a match's for as long as it lives.
UnderWay ==
    /\ start = Idle /\ barrier = "done" /\ spent.joins # 0
    /\ session # NoSession => Store!Live(session)

\* Whoever has not moved is in the role it began in, and so is each of its tasks.
Roles ==
    /\ session # NoSession => \A p \in unmoved : session.host = p <=> p = Founder
    /\ \A c \in Conns : socks[c] # Closed /\ Who(c) \in unmoved =>
                           (socks[c].is_host <=> Who(c) = Founder)

\* Only a host's task promotes another.
HostTasks == \A c \in Conns : At(c, "promote") => socks[c].is_host

\* c's task will still arm the promotion of its player, or leave it to another.
WillPromote(c) == socks[c] # Closed /\ socks[c].pc \notin {"check reconnect", "insert reconnect"}

\* The founder of a running match is there, awaited, or about to be replaced.
FounderHeld ==
    session # NoSession /\ Founder \in unmoved /\ ~Present(Founder) =>
        \/ grace[Founder]["promotion"] # 0
        \/ \E c \in Conns : WillPromote(c) /\ Who(c) = Founder
        \/ \E m \in promos : m.host = Founder

\* So is every joiner that was there when the match began.
JoinersHeld ==
    session # NoSession => \A p \in unmoved :
        p \in ToSet(session.joiners) /\ ~Present(p) =>
            \/ grace[p]["reconnect"] # 0
            \/ \E c \in Conns : socks[c] # Closed /\ Who(c) = p
            \/ \E t \in timers : t.player = p /\ t.pc = "claimed"

LEMMA UnderWayNext ==
    ASSUME Sound, UnderWay, [Next]_vars
    PROVE  UnderWay'
<1>1. start' = Idle /\ barrier' = "done"
  <2>1. ~StartCheck
    BY DEF StartCheck, UnderWay, Store!Live
  <2>2. ~StartStep
    BY DEF StartStep, StartRecheck, StartCommit, StartSeed, StartAnnounce, UnderWay, Idle
  <2>3. ~BarrierValve /\ ~ActivateFromValve
    BY DEF BarrierValve, ActivateFromValve, UnderWay
  <2> QED BY <2>1, <2>2, <2>3, StartFrame DEF UnderWay
<1>2. spent'.joins # 0
  BY JoinsGrow DEF UnderWay, Sound
<1>3. session' # NoSession => session # NoSession /\ session'.status # "waiting"
  BY HostedOnce, NeverBack DEF UnderWay, Store!Live
<1> QED BY <1>1, <1>2, <1>3 DEF UnderWay, Store!Live

LEMMA SessionFrame ==
    ASSUME [Next]_vars
    PROVE  \/ UNCHANGED <<session, unmoved>>
           \/ \E p \in Players :
                 \/ JoinSession(p) \/ \E n \in Capacities : HostSession(p, n)
                 \/ \E q \in Players : TransferHost(p, q)
           \/ SessionExpires \/ CloseDelete \/ StartCommit \/ ActivateFromValve
           \/ \E c \in Conns : \/ ActivateFromSocket(c) \/ EndWonSession(c)
                               \/ HostCleanup(c) \/ JoinerCleanup(c)
           \/ \E t \in timers : FreeSlot(t)
           \/ \E m \in promos : PromoteCommit(m)
<1>1. CASE ClientStep
  BY <1>1 DEF ClientStep, CloseCheck, Identify, StartCheck, ClientReady, ReportScore,
     SocketCloses, LeaveTheRoom, startVars
<1>2. CASE \E c \in Conns : SocketStep(c)
  <2> SUFFICES ASSUME NEW c \in Conns, SocketStep(c), ~ActivateFromSocket(c),
                      ~EndWonSession(c), ~HostCleanup(c), ~JoinerCleanup(c)
               PROVE  UNCHANGED <<session, unmoved>>
    BY <1>2
  <2> QED BY DEF SocketStep, Register, Welcome, PauseMatch, Superseded, ArmCheck, ArmInsert,
             PromoteAfterLeave, LeaveTheRoom, startVars
<1>3. CASE TimerStep
  BY <1>3 DEF TimerStep, TimerCancelled, SlotTimerFires, PromotionTimerFires, startVars
<1>4. CASE ValveStep \/ StartStep \/ CloseDelete
  BY <1>4 DEF ValveStep, BarrierValve, PauseValve, StartStep, StartRecheck, StartSeed,
     StartAnnounce, startVars
<1>5. CASE UNCHANGED vars
  BY <1>5 DEF vars, startVars
<1> QED BY <1>1, <1>2, <1>3, <1>4, <1>5 DEF Next

\* Nobody's place changed; somebody may have lost it.
Stays ==
    /\ session'.host = session.host /\ unmoved' = unmoved
    /\ ToSet(session'.joiners) \subseteq ToSet(session.joiners)

\* One joiner became the host, and both are noted.
HandedOn ==
    /\ session'.host \in ToSet(session.joiners)
    /\ unmoved' = unmoved \ {session.host, session'.host}
    /\ ToSet(session'.joiners) \subseteq ToSet(session.joiners) \cup {session.host}

\* All that can become of the record of a running match that survives the step.
LEMMA RecordChange ==
    ASSUME Sound, UnderWay, [Next]_vars, session' # NoSession
    PROVE  session # NoSession /\ Store!Live(session) /\ (Stays \/ HandedOn)
<1>1. session # NoSession /\ Store!Live(session)
  BY HostedOnce DEF UnderWay
<1>2. session \in SP!Session /\ SP!TypeOK /\ SP!RosterSound
  BY <1>1 DEF Sound, SP!IInv, SP!TypeOK
<1>3. ASSUME UNCHANGED <<session, unmoved>>
      PROVE  Stays
  <2>1. session' = session /\ unmoved' = unmoved
    BY <1>3
  <2> QED BY <2>1 DEF Stays
<1>4. ASSUME NEW p \in Players,
             \/ JoinSession(p) \/ \E n \in Capacities : HostSession(p, n)
             \/ \E q \in Players : TransferHost(p, q)
      PROVE  FALSE
  BY <1>1, <1>4 DEF JoinSession, Store!Join, HostSession, TransferHost, Store!TransferHost,
     Store!Live, UnderWay
<1>5. CASE SessionExpires \/ CloseDelete \/ \E c \in Conns : EndWonSession(c)
  BY <1>5 DEF SessionExpires, Store!Expire, Store!Delete, CloseDelete, EndWonSession
<1>6. ~StartCommit /\ ~ActivateFromValve
  BY DEF StartCommit, ActivateFromValve, UnderWay, Idle
<1>7. ASSUME NEW c \in Conns, ActivateFromSocket(c) \/ HostCleanup(c)
      PROVE  Stays
  <2>1. unmoved' = unmoved /\ (UNCHANGED session \/ Store!Activate)
    BY <1>1, <1>7 DEF ActivateFromSocket, HostCleanup, startVars, Store!Live
  <2>2. Store!Activate => session'.host = session.host /\ session'.joiners = session.joiners
    BY <1>1, <1>2 DEF Store!Activate, SP!Session
  <2> QED BY <2>1, <2>2 DEF Stays
<1>8. ASSUME NEW p, Store!RemoveJoiner(p), unmoved' = unmoved
      PROVE  Stays
  <2>1. SP!RemoveJoiner(p)
    BY <1>8, SameRemoval
  <2>2. /\ session'.host = session.host
        /\ SP!ToSet(session'.joiners) = SP!ToSet(session.joiners) \ {p}
    BY <1>2, <2>1, StoreCapacity, StoreNoSession, SP!RemovalStep
  <2> QED BY <1>8, <2>2 DEF Stays, ToSet, SP!ToSet
<1>9. ASSUME NEW c \in Conns, JoinerCleanup(c)
      PROVE  Stays
  <2>1. unmoved' = unmoved /\ (UNCHANGED session \/ Store!RemoveJoiner(Who(c)))
    BY <1>9 DEF JoinerCleanup, startVars
  <2> QED BY <1>8, <2>1 DEF Stays
<1>10. ASSUME NEW t \in timers, FreeSlot(t)
       PROVE  Stays
  <2>1. unmoved' = unmoved /\ (UNCHANGED session \/ Store!RemoveJoiner(t.player))
    BY <1>10 DEF FreeSlot, startVars
  <2> QED BY <1>8, <2>1 DEF Stays
<1>11. ASSUME NEW m \in promos, PromoteCommit(m)
       PROVE  Stays \/ HandedOn
  <2>1. CASE UNCHANGED <<session, unmoved>>
    BY <1>3, <2>1
  <2>2. CASE ~UNCHANGED <<session, unmoved>>
    <3>1. /\ session.host = m.host /\ Store!PromoteOrEnd(m.host, m.seen, m.keep)
          /\ unmoved' = unmoved \ {m.host, session'.host}
      BY <1>11, <2>2 DEF PromoteCommit
    <3>2. m.host \in Players /\ m.keep \in BOOLEAN
      BY DEF Sound, PromosType
    <3>3. SP!PromoteOrEnd(m.host, m.seen, m.keep)
      BY <3>1, SamePromotion
    <3>4. /\ session'.host \in SP!ToSet(session.joiners)
          /\ SP!ToSet(session'.joiners) \subseteq SP!ToSet(session.joiners) \cup {m.host}
      BY <1>2, <3>2, <3>3, StoreCapacity, StoreNoSession, SP!PromotionStep
    <3> QED BY <3>1, <3>4 DEF HandedOn, ToSet, SP!ToSet
  <2> QED BY <2>1, <2>2
<1> QED BY <1>1, <1>3, <1>4, <1>5, <1>6, <1>7, <1>9, <1>10, <1>11, SessionFrame

\* The step of a task moves it, for the same player in the same role, or ends it.
LEMMA TaskSteps ==
    ASSUME SocksType, NEW c \in Conns,
           \/ SocketStep(c) \/ ClientReady(c)
           \/ \E q \in Players, n \in 1 .. 3 : ReportScore(c, q, n)
           \/ \E leave \in BOOLEAN : SocketCloses(c, leave)
    PROVE  /\ socks[c] # Closed
           /\ UNCHANGED socks \/ Ends(c) \/ \E pc \in SockPcs : Moves(c, pc)
<1> DEFINE Goal == /\ socks[c] # Closed
                   /\ UNCHANGED socks \/ Ends(c) \/ \E pc \in SockPcs : Moves(c, pc)
<1>1. CASE \/ Register(c) \/ Welcome(c) \/ PauseMatch(c) \/ ActivateFromSocket(c)
           \/ EndWonSession(c) \/ HostCleanup(c) \/ JoinerCleanup(c) \/ PromoteAfterLeave(c)
  <2>1. socks[c] # Closed
    BY <1>1, SocketMoves DEF At, InCleanup
  <2>2. Ends(c) \/ \E pc \in SockPcs : Moves(c, pc)
    BY <1>1, SocketMoves, Pcs
  <2> QED BY <2>1, <2>2
<1>2. CASE Superseded(c) \/ \E leave \in BOOLEAN : SocketCloses(c, leave)
  BY <1>2, LeaveMoves, Pcs DEF At
<1>3. ASSUME NEW kind \in Kinds, ArmCheck(c, kind) \/ ArmInsert(c, kind)
      PROVE  Goal
  <2>1. InsertPc[kind] \in SockPcs /\ "check reconnect" \in SockPcs
    BY Pcs DEF Kinds
  <2> QED BY <1>3, <2>1, ArmMoves DEF At
<1>4. CASE ClientReady(c) \/ \E q \in Players, n \in 1 .. 3 : ReportScore(c, q, n)
  BY <1>4, FrameMoves, Pcs DEF At
<1> QED BY <1>1, <1>2, <1>3, <1>4 DEF SocketStep

\* A task keeps its player and its role, which it read when it was opened.
LEMMA KeepsRole ==
    ASSUME SocksType, [Next]_vars, NEW c \in Conns, socks'[c] # Closed
    PROVE  \/ /\ socks[c] # Closed
              /\ socks'[c].player = socks[c].player /\ socks'[c].is_host = socks[c].is_host
           \/ /\ session # NoSession /\ UNCHANGED <<session, unmoved>>
              /\ socks'[c].pc = "identified"
              /\ socks'[c].is_host = (session.host = socks'[c].player)
<1>1. ASSUME NEW p \in Players, NEW rejoin \in BOOLEAN, Identify(p, rejoin)
      PROVE  \/ socks'[c] = socks[c]
             \/ /\ session # NoSession /\ UNCHANGED <<session, unmoved>>
                /\ socks'[c].pc = "identified"
                /\ socks'[c].is_host = (session.host = socks'[c].player)
  <2>1. UNCHANGED <<session, unmoved>>
    BY <1>1 DEF Identify, startVars
  <2>2. PICK d \in Conns : session # NoSession /\ Opens(d, p, (session.host = p))
    BY <1>1, IdentifyOpens
  <2>3. CASE d = c
    <3>1. socks'[c].player = p /\ socks'[c].pc = "identified"
      BY <2>2, <2>3 DEF Opens
    <3>2. socks'[c].is_host = (session.host = p)
      BY <2>2, <2>3 DEF Opens
    <3>3. socks'[c].is_host = (session.host = socks'[c].player)
      BY <3>1, <3>2
    <3> QED BY <2>1, <2>2, <3>1, <3>3, Zenon
  <2>4. CASE d # c
    BY <2>2, <2>4 DEF Opens
  <2> QED BY <2>3, <2>4
<1>2. ASSUME NEW d \in Conns,
             \/ SocketStep(d) \/ ClientReady(d)
             \/ \E q \in Players, n \in 1 .. 3 : ReportScore(d, q, n)
             \/ \E leave \in BOOLEAN : SocketCloses(d, leave)
      PROVE  /\ socks[c] # Closed
             /\ socks'[c].player = socks[c].player /\ socks'[c].is_host = socks[c].is_host
  <2>1. /\ socks[d] # Closed
        /\ UNCHANGED socks \/ Ends(d) \/ \E pc \in SockPcs : Moves(d, pc)
    BY <1>2, TaskSteps
  <2>2. CASE d = c
    BY <2>1, <2>2 DEF Ends, Moves
  <2>3. CASE d # c
    BY <2>1, <2>3 DEF Ends, Moves
  <2> QED BY <2>2, <2>3
<1>3. CASE socks' = socks
  BY <1>3
<1> QED BY <1>1, <1>2, <1>3, SocksFrame

LEMMA RolesNext ==
    ASSUME Sound, UnderWay, Roles, [Next]_vars
    PROVE  Roles'
<1>0. SocksType
  BY DEF Sound
<1>1. ASSUME session' # NoSession, NEW p \in unmoved'
      PROVE  session'.host = p <=> p = Founder
  <2>1. session # NoSession /\ (Stays \/ HandedOn)
    BY <1>1, RecordChange
  <2>2. p \in unmoved
    BY <2>1 DEF Stays, HandedOn
  <2>3. session.host = p <=> p = Founder
    BY <2>1, <2>2 DEF Roles
  <2> QED BY <1>1, <2>1, <2>3 DEF Stays, HandedOn, Founder
<1>2. unmoved' \subseteq unmoved
  <2>1. ~StartCommit
    BY DEF StartCommit, UnderWay, Idle
  <2>2. \A m \in promos : PromoteCommit(m) => unmoved' \subseteq unmoved
    BY DEF PromoteCommit
  <2>3. \A p \in Players : /\ JoinSession(p) => UNCHANGED unmoved
                           /\ \A n \in Capacities : HostSession(p, n) => UNCHANGED unmoved
                           /\ \A q \in Players : TransferHost(p, q) => UNCHANGED unmoved
    BY DEF JoinSession, HostSession, TransferHost, startVars
  <2>4. SessionExpires \/ CloseDelete \/ ActivateFromValve => UNCHANGED unmoved
    BY DEF SessionExpires, CloseDelete, ActivateFromValve, startVars
  <2>5. /\ \A c \in Conns : ActivateFromSocket(c) \/ EndWonSession(c) \/ HostCleanup(c)
                              \/ JoinerCleanup(c) => UNCHANGED unmoved
        /\ \A t \in timers : FreeSlot(t) => UNCHANGED unmoved
    BY DEF ActivateFromSocket, EndWonSession, HostCleanup, JoinerCleanup, FreeSlot, startVars
  <2> QED BY <2>1, <2>2, <2>3, <2>4, <2>5, SessionFrame
<1>3. ASSUME NEW c \in Conns, socks'[c] # Closed, socks'[c].player \in unmoved'
      PROVE  socks'[c].is_host <=> socks'[c].player = Founder
  <2>1. socks'[c].player \in unmoved
    BY <1>2, <1>3
  <2>2. CASE /\ socks[c] # Closed
             /\ socks'[c].player = socks[c].player /\ socks'[c].is_host = socks[c].is_host
    BY <2>1, <2>2 DEF Roles, Who
  <2>3. CASE session # NoSession /\ socks'[c].is_host = (session.host = socks'[c].player)
    BY <2>1, <2>3 DEF Roles
  <2> QED BY <1>0, <1>3, <2>2, <2>3, KeepsRole
<1> QED BY <1>1, <1>3 DEF Roles, Who, Founder

LEMMA HostTasksNext ==
    ASSUME SocksType, HostTasks, [Next]_vars
    PROVE  HostTasks'
<1> SUFFICES ASSUME NEW c \in Conns, socks'[c] # Closed, socks'[c].pc = "promote"
             PROVE  socks'[c].is_host
  BY DEF HostTasks, At
<1>1. socks[c] # Closed /\ socks'[c].is_host = socks[c].is_host
  BY KeepsRole
<1>2. CASE socks'[c] = socks[c]
  BY <1>1, <1>2 DEF HostTasks, At
<1>3. CASE HostCleanup(c)
  BY <1>1, <1>3 DEF HostCleanup
<1>4. ASSUME NEW pc, Moves(c, pc)
      PROVE  pc = "promote"
  BY <1>4 DEF Moves
<1>5. ~Ends(c)
  BY DEF Ends
<1>6. CASE SocketStep(c) /\ ~HostCleanup(c)
  <2>1. ~Superseded(c)
    BY <1>4, LeaveMoves
  <2>2. \A kind \in Kinds : ~ArmCheck(c, kind) /\ ~ArmInsert(c, kind)
    BY <1>4, <1>5, ArmMoves, Pcs DEF Kinds
  <2>3. \/ Register(c) \/ Welcome(c) \/ PauseMatch(c) \/ ActivateFromSocket(c)
        \/ EndWonSession(c) \/ JoinerCleanup(c) \/ PromoteAfterLeave(c)
    BY <1>6, <2>1, <2>2 DEF SocketStep
  <2>4. FALSE
    BY <1>4, <1>5, <2>3, SocketMoves
  <2> QED BY <2>4
<1>7. CASE ClientReady(c) \/ \E q \in Players, n \in 1 .. 3 : ReportScore(c, q, n)
  <2>1. socks' = socks
    BY <1>4, <1>7, FrameMoves
  <2> QED BY <1>2, <2>1
<1>8. ASSUME NEW leave \in BOOLEAN, SocketCloses(c, leave)
      PROVE  FALSE
  BY <1>4, <1>8, LeaveMoves
<1> QED BY <1>1, <1>2, <1>3, <1>6, <1>7, <1>8, OwnStep

\* What becomes of a host's task that would still arm or run the promotion.
LEMMA FounderTask ==
    ASSUME Sound, UnderWay, Roles, [Next]_vars, session' # NoSession,
           NEW c \in Conns, WillPromote(c), Who(c) = Founder, Founder \in unmoved
    PROVE  \/ WillPromote(c)' /\ socks'[c].player = Founder
           \/ Present(Founder) /\ UNCHANGED room
           \/ PromoteAfterLeave(c)
           \/ ArmInsert(c, "promotion")
<1>0. SocksType /\ socks[c] # Closed /\ socks[c].is_host /\ session # NoSession
  BY HostedOnce DEF Sound, Roles, WillPromote, UnderWay
<1> DEFINE Goal == \/ WillPromote(c)' /\ socks'[c].player = Founder
                   \/ Present(Founder) /\ UNCHANGED room
                   \/ PromoteAfterLeave(c)
                   \/ ArmInsert(c, "promotion")
<1>1. CASE socks'[c] = socks[c]
  BY <1>1 DEF WillPromote, Who
<1>2. ASSUME NEW pc, Moves(c, pc), pc \notin {"check reconnect", "insert reconnect"}
      PROVE  Goal
  BY <1>2 DEF Moves, WillPromote, Who
<1>3. CASE Superseded(c) \/ \E leave \in BOOLEAN : SocketCloses(c, leave)
  BY <1>0, <1>2, <1>3, LeaveMoves
<1>4. CASE ClientReady(c) \/ \E q \in Players, n \in 1 .. 3 : ReportScore(c, q, n)
  BY <1>0, <1>1, <1>2, <1>4, FrameMoves
<1>5. CASE Register(c) \/ Welcome(c) \/ PauseMatch(c) \/ ActivateFromSocket(c) \/ EndWonSession(c)
  BY <1>0, <1>2, <1>5, SocketMoves
<1>6. CASE HostCleanup(c)
  <2>1. ~(session.status = "waiting")
    BY <1>0 DEF UnderWay, Store!Live
  <2>2. /\ socks' = [socks EXCEPT ![c].pc = IF socks[c].leave THEN "promote"
                                            ELSE "check promotion"]
    BY <1>0, <1>6, <2>1, Pcs DEF HostCleanup, Goto
  <2>3. Moves(c, "promote") \/ Moves(c, "check promotion")
    BY <1>0, <2>2, SockMoves, Pcs DEF Goto
  <2> QED BY <1>2, <2>3
<1>7. ~JoinerCleanup(c)
  BY <1>0 DEF JoinerCleanup
<1>8. ASSUME NEW kind \in Kinds, ArmCheck(c, kind)
      PROVE  Goal
  <2>1. kind = "promotion"
    BY <1>8, Pcs DEF ArmCheck, At, WillPromote, Kinds
  <2>2. room' = room /\ IF Present(Founder) THEN Ends(c) ELSE Moves(c, "insert promotion")
    BY <1>0, <1>8, <2>1, ArmMoves, Pcs DEF ArmCheck
  <2> QED BY <1>2, <2>2
<1>9. ASSUME NEW kind \in Kinds, ArmInsert(c, kind)
      PROVE  Goal
  <2>1. kind = "promotion"
    BY <1>9, Pcs DEF ArmInsert, At, WillPromote, Kinds
  <2> QED BY <1>9, <2>1
<1> QED BY <1>0, <1>1, <1>3, <1>4, <1>5, <1>6, <1>7, <1>8, <1>9, OwnStep DEF SocketStep

\* A grace entry goes when its player is welcomed or when its timer takes it.
LEMMA GraceKept ==
    ASSUME Sound, [Next]_vars, NEW p \in Players, NEW kind \in Kinds, grace[p][kind] # 0
    PROVE  \/ grace'[p][kind] # 0
           \/ \E c \in Conns : Welcome(c) /\ Who(c) = p
           \/ \E t \in timers : /\ t.player = p /\ t.kind = kind
                                /\ PromotionTimerFires(t) \/ SlotTimerFires(t)
<1>0. SocksType /\ TimersType /\ grace \in [Players -> [Kinds -> Nat]]
  BY DEF Sound, TimersType
<1>1. ASSUME NEW q \in Players, NEW k \in Kinds, grace' = Cancel(grace, q, k),
             p # q \/ kind # k
      PROVE  grace'[p][kind] # 0
  BY <1>0, <1>1 DEF Cancel
<1>2. ASSUME NEW c \in Conns, Welcome(c)
      PROVE  grace'[p][kind] # 0 \/ Who(c) = p
  <2>1. Who(c) \in Players
    BY <1>0, <1>2, SocketMoves, SockFields DEF At
  <2>2. SUFFICES ASSUME Who(c) # p
                 PROVE  grace'[p][kind] # 0
    OBVIOUS
  <2>3. Cancel(grace, Who(c), "reconnect")[p] = grace[p]
    BY <1>0, <2>1, <2>2 DEF Cancel
  <2>4. Cancel(Cancel(grace, Who(c), "reconnect"), Who(c), "promotion")[p] = grace[p]
    BY <1>0, <2>1, <2>2 DEF Cancel
  <2>5. \/ grace' = Cancel(grace, Who(c), "reconnect")
        \/ grace' = Cancel(Cancel(grace, Who(c), "reconnect"), Who(c), "promotion")
    BY <1>2 DEF Welcome
  <2> QED BY <2>3, <2>4, <2>5
<1>3. ASSUME NEW c \in Conns, NEW k \in Kinds, ArmInsert(c, k)
      PROVE  grace'[p][kind] # 0
  <2>1. Who(c) \in Players
    BY <1>0, <1>3, ArmMoves, SockFields DEF At
  <2>2. PICK n \in 1 .. (Cardinality(timers) + 1) : grace' = [grace EXCEPT ![Who(c)][k] = n]
    BY <1>3 DEF ArmInsert
  <2>3. n # 0
    OBVIOUS
  <2> QED BY <1>0, <2>1, <2>2, <2>3
<1>4. ASSUME NEW c \in Conns, PromoteAfterLeave(c)
      PROVE  grace'[p][kind] # 0
  BY <1>4 DEF PromoteAfterLeave
<1>5. CASE TimerStep
  <2>1. ASSUME NEW t \in timers, PromotionTimerFires(t) \/ SlotTimerFires(t)
        PROVE  grace'[p][kind] # 0 \/ (t.player = p /\ t.kind = kind)
    <3>1. t.player \in Players /\ t.kind \in Kinds
      BY <1>0 DEF TimersType, Timer
    <3>2. grace' = Cancel(grace, t.player, t.kind)
      BY <2>1 DEF PromotionTimerFires, SlotTimerFires, TakeGrace
    <3> QED BY <1>1, <3>1, <3>2
  <2>2. ASSUME ~\E t \in timers : PromotionTimerFires(t) \/ SlotTimerFires(t)
        PROVE  grace' = grace
    BY <1>5, <2>2 DEF TimerStep, TimerCancelled, FreeSlot, PromoteCommit
  <2> QED BY <2>1, <2>2
<1> QED BY <1>2, <1>3, <1>4, <1>5, TaskFrame

LEMMA PromosKept ==
    ASSUME [Next]_vars, NEW m \in promos
    PROVE  m \in promos' \/ PromoteCommit(m)
<1>1. CASE TimerStep
  BY <1>1 DEF TimerStep, TimerCancelled, SlotTimerFires, FreeSlot, PromotionTimerFires,
     PromoteCommit, Snapshot
<1>2. CASE \E c \in Conns : Welcome(c) \/ PromoteAfterLeave(c)
                              \/ \E kind \in Kinds : ArmInsert(c, kind)
  BY <1>2 DEF Welcome, PromoteAfterLeave, ArmInsert, Snapshot
<1> QED BY <1>1, <1>2, TaskFrame

\* A promotion that is snapshot is about to be committed.
LEMMA SnapshotPending ==
    ASSUME NEW p, NEW keep, Snapshot(p, keep)
    PROVE  \E m \in promos' : m.host = p
<1> DEFINE m == [host |-> p, keep |-> keep, seen |-> RoomMembers(room) \ {p}]
<1>1. m \in promos'
  BY DEF Snapshot
<1>2. m.host = p
  OBVIOUS
<1> QED BY <1>1, <1>2

LEMMA FounderHeldNext ==
    ASSUME Sound, UnderWay, Roles, FounderHeld, [Next]_vars
    PROVE  FounderHeld'
<1> SUFFICES ASSUME session' # NoSession, Founder \in unmoved', Founder \notin RoomMembers(room')
             PROVE  \/ grace'[Founder]["promotion"] # 0
                    \/ \E c \in Conns : WillPromote(c)' /\ socks'[c].player = Founder
                    \/ \E m \in promos' : m.host = Founder
  BY DEF FounderHeld, Present, Who, Founder
<1>0. /\ session # NoSession /\ Stays /\ Founder \in unmoved /\ session.host = Founder
      /\ Store!Live(session) /\ SocksType /\ Founder \in Players
  <2>1. session # NoSession /\ Store!Live(session) /\ (Stays \/ HandedOn)
    BY RecordChange
  <2>2. Founder \in unmoved
    BY <2>1 DEF Stays, HandedOn
  <2>3. session.host = Founder
    BY <2>1, <2>2 DEF Roles
  <2> QED BY <2>1, <2>2, <2>3, LobbyFacts DEF HandedOn, Sound, Founder
<1>1. CASE Present(Founder)
  <2>1. Leaves(Founder)
    BY <1>0, <1>1, LeaveNext DEF Present
  <2>2. PICK c \in Conns : At(c, "pump") /\ Who(c) = Founder /\ Moves(c, "left")
    BY <1>0, <2>1 DEF Leaves
  <2> QED BY <2>2 DEF Moves, WillPromote, Who
<1>2. CASE grace[Founder]["promotion"] # 0
  <2>1. ASSUME NEW c \in Conns, Welcome(c), Who(c) = Founder
        PROVE  WillPromote(c)' /\ socks'[c].player = Founder
    BY <1>0, <2>1, SocketMoves DEF Moves, WillPromote, Who
  <2>2. ASSUME NEW t \in timers, t.player = Founder, t.kind = "promotion",
               PromotionTimerFires(t) \/ SlotTimerFires(t)
        PROVE  \E m \in promos' : m.host = Founder
    BY <2>2, SnapshotPending DEF PromotionTimerFires, SlotTimerFires
  <2> QED BY <1>0, <1>2, <2>1, <2>2, GraceKept DEF Kinds
<1>3. ASSUME ~Present(Founder), NEW c \in Conns, WillPromote(c), Who(c) = Founder
      PROVE  \/ grace'[Founder]["promotion"] # 0
             \/ WillPromote(c)' /\ socks'[c].player = Founder
             \/ \E m \in promos' : m.host = Founder
  <2>1. CASE PromoteAfterLeave(c)
    BY <1>3, <2>1, SnapshotPending DEF PromoteAfterLeave
  <2>2. CASE ArmInsert(c, "promotion")
    <3>1. PICK n \in 1 .. (Cardinality(timers) + 1) :
             grace' = [grace EXCEPT ![Founder]["promotion"] = n]
      BY <1>3, <2>2 DEF ArmInsert
    <3>2. n # 0 /\ grace \in [Players -> [Kinds -> Nat]]
      BY DEF Sound, TimersType
    <3> QED BY <1>0, <3>1, <3>2 DEF Kinds
  <2> QED BY <1>0, <1>3, <2>1, <2>2, FounderTask
<1>4. ASSUME NEW m \in promos, m.host = Founder
      PROVE  m \in promos'
  <2>1. ~PromoteCommit(m)
    BY <1>0, <1>4 DEF PromoteCommit
  <2> QED BY <2>1, PromosKept
<1> QED BY <1>0, <1>1, <1>2, <1>3, <1>4 DEF FounderHeld

\* What becomes of the task of a joiner that is absent from a running match.
LEMMA JoinerTask ==
    ASSUME Sound, UnderWay, Roles, HostTasks, [Next]_vars, session' # NoSession,
           NEW p \in unmoved, p # Founder, NEW c \in Conns, socks[c] # Closed, Who(c) = p
    PROVE  \/ socks'[c] # Closed /\ socks'[c].player = p
           \/ p \notin ToSet(session'.joiners)
           \/ Present(p) /\ UNCHANGED room
           \/ ArmInsert(c, "reconnect")
<1>0. /\ SocksType /\ ~socks[c].is_host /\ session # NoSession /\ Store!Live(session)
      /\ SP!TypeOK /\ SP!RosterSound
  BY HostedOnce DEF Sound, Roles, UnderWay, SP!IInv
<1> DEFINE Goal == \/ socks'[c] # Closed /\ socks'[c].player = p
                   \/ p \notin ToSet(session'.joiners)
                   \/ Present(p) /\ UNCHANGED room
                   \/ ArmInsert(c, "reconnect")
<1>1. CASE socks'[c] = socks[c]
  BY <1>1 DEF Who
<1>2. ASSUME NEW pc, Moves(c, pc)
      PROVE  Goal
  BY <1>2 DEF Moves, Who
<1>3. CASE Superseded(c) \/ \E leave \in BOOLEAN : SocketCloses(c, leave)
  BY <1>0, <1>2, <1>3, LeaveMoves
<1>4. CASE ClientReady(c) \/ \E q \in Players, n \in 1 .. 3 : ReportScore(c, q, n)
  BY <1>0, <1>1, <1>2, <1>4, FrameMoves
<1>5. CASE Register(c) \/ Welcome(c) \/ PauseMatch(c) \/ ActivateFromSocket(c) \/ EndWonSession(c)
  BY <1>0, <1>2, <1>5, SocketMoves
<1>6. ~HostCleanup(c) /\ ~PromoteAfterLeave(c)
  BY <1>0 DEF HostCleanup, PromoteAfterLeave, HostTasks
<1>7. CASE JoinerCleanup(c)
  <2>1. CASE socks[c].leave
    <3>1. CASE p \notin ToSet(session.joiners)
      <4>1. session' = session
        BY <1>7, <2>1, <3>1 DEF JoinerCleanup, Who
      <4> QED BY <3>1, <4>1
    <3>2. CASE p \in ToSet(session.joiners)
      <4>1. Store!RemoveJoiner(p)
        BY <1>0, <1>7, <2>1, <3>2 DEF JoinerCleanup
      <4>2. SP!RemoveJoiner(p)
        BY <4>1, SameRemoval
      <4>3. SP!ToSet(session'.joiners) = SP!ToSet(session.joiners) \ {p}
        BY <1>0, <4>2, StoreCapacity, StoreNoSession, SP!RemovalStep
      <4> QED BY <4>3 DEF ToSet, SP!ToSet
    <3> QED BY <3>1, <3>2
  <2>2. CASE ~socks[c].leave
    <3>1. Goto(c, "check reconnect")
      BY <1>0, <1>7, <2>2, Pcs DEF JoinerCleanup
    <3>2. Moves(c, "check reconnect")
      BY <1>0, <3>1, SockMoves, Pcs
    <3> QED BY <1>2, <3>2
  <2> QED BY <2>1, <2>2
<1>8. ASSUME NEW kind \in Kinds, ArmCheck(c, kind)
      PROVE  Goal
  <2>1. room' = room /\ IF Present(p) THEN Ends(c) ELSE Moves(c, InsertPc[kind])
    BY <1>0, <1>8, ArmMoves DEF ArmCheck
  <2> QED BY <1>2, <2>1
<1>9. ASSUME NEW kind \in Kinds, ArmInsert(c, kind)
      PROVE  Goal
  <2>1. kind = "promotion" => Moves(c, "check reconnect")
    BY <1>0, <1>9, ArmMoves
  <2> QED BY <1>2, <1>9, <2>1 DEF Kinds
<1> QED BY <1>0, <1>1, <1>3, <1>4, <1>5, <1>6, <1>7, <1>8, <1>9, OwnStep DEF SocketStep

\* A claimed timer stays until it has freed its slot.
LEMMA ClaimKept ==
    ASSUME Sound, [Next]_vars, NEW t \in timers, t.pc = "claimed"
    PROVE  t \in timers' \/ FreeSlot(t)
<1>1. CASE TimerStep
  BY <1>1 DEF TimerStep, TimerCancelled, SlotTimerFires, FreeSlot, PromotionTimerFires,
     PromoteCommit, TakeGrace
<1>2. CASE \E c \in Conns : Welcome(c) \/ PromoteAfterLeave(c)
                              \/ \E kind \in Kinds : ArmInsert(c, kind)
  BY <1>2 DEF Welcome, PromoteAfterLeave, ArmInsert
<1> QED BY <1>1, <1>2, TaskFrame

LEMMA JoinersHeldNext ==
    ASSUME Sound, UnderWay, Roles, HostTasks, JoinersHeld, [Next]_vars
    PROVE  JoinersHeld'
<1> SUFFICES ASSUME session' # NoSession, NEW p \in unmoved',
                    p \in ToSet(session'.joiners), p \notin RoomMembers(room')
             PROVE  \/ grace'[p]["reconnect"] # 0
                    \/ \E c \in Conns : socks'[c] # Closed /\ socks'[c].player = p
                    \/ \E t \in timers' : t.player = p /\ t.pc = "claimed"
  BY DEF JoinersHeld, Present, Who, ToSet
<1>0. /\ session # NoSession /\ Store!Live(session) /\ SocksType /\ TimersType
      /\ p \in unmoved /\ p \in ToSet(session.joiners) /\ p # Founder /\ p \in Players
  <2>1. session # NoSession /\ Store!Live(session) /\ (Stays \/ HandedOn)
    BY RecordChange
  <2>2. p \in unmoved /\ p \in ToSet(session.joiners)
    BY <2>1 DEF Stays, HandedOn
  <2>3. session.host \notin ToSet(session.joiners)
    BY <2>1 DEF Sound, SP!IInv, SP!RosterSound, SP!ToSet, ToSet
  <2>4. p # Founder
    BY <2>1, <2>2, <2>3 DEF Roles
  <2> QED BY <2>1, <2>2, <2>4 DEF Sound, HistoryType
<1>1. CASE Present(p)
  <2>1. Leaves(p)
    BY <1>0, <1>1, LeaveNext DEF Present
  <2>2. PICK c \in Conns : Who(c) = p /\ Moves(c, "left")
    BY <1>0, <2>1 DEF Leaves
  <2> QED BY <2>2 DEF Moves, Who
<1>2. CASE grace[p]["reconnect"] # 0
  <2>1. ASSUME NEW c \in Conns, Welcome(c), Who(c) = p
        PROVE  socks'[c] # Closed /\ socks'[c].player = p
    BY <1>0, <2>1, SocketMoves DEF Moves, Who
  <2>2. ASSUME NEW t \in timers, t.player = p, t.kind = "reconnect",
               PromotionTimerFires(t) \/ SlotTimerFires(t)
        PROVE  \E u \in timers' : u.player = p /\ u.pc = "claimed"
    <3>1. SlotTimerFires(t)
      BY <2>2 DEF PromotionTimerFires
    <3>2. [t EXCEPT !.pc = "claimed"] \in timers'
      BY <3>1 DEF SlotTimerFires
    <3>3. [t EXCEPT !.pc = "claimed"].player = p /\ [t EXCEPT !.pc = "claimed"].pc = "claimed"
      BY <1>0, <2>2 DEF TimersType, Timer
    <3> QED BY <3>2, <3>3
  <2> QED BY <1>0, <1>2, <2>1, <2>2, GraceKept DEF Kinds
<1>3. ASSUME ~Present(p), NEW c \in Conns, socks[c] # Closed, Who(c) = p
      PROVE  \/ grace'[p]["reconnect"] # 0
             \/ socks'[c] # Closed /\ socks'[c].player = p
  <2>1. CASE ArmInsert(c, "reconnect")
    <3>1. PICK n \in 1 .. (Cardinality(timers) + 1) :
             grace' = [grace EXCEPT ![p]["reconnect"] = n]
      BY <1>3, <2>1 DEF ArmInsert
    <3>2. n # 0
      OBVIOUS
    <3> QED BY <1>0, <3>1, <3>2 DEF TimersType, Kinds
  <2> QED BY <1>0, <1>3, <2>1, JoinerTask
<1>4. ASSUME NEW t \in timers, t.player = p, t.pc = "claimed"
      PROVE  t \in timers'
  <2>1. CASE FreeSlot(t)
    <3>1. SP!RemoveJoiner(p)
      BY <1>0, <1>4, <2>1, SameRemoval DEF FreeSlot
    <3>2. SP!ToSet(session'.joiners) = SP!ToSet(session.joiners) \ {p}
      BY <1>0, <3>1, StoreCapacity, StoreNoSession, SP!RemovalStep DEF Sound, SP!IInv
    <3> QED BY <3>2 DEF ToSet, SP!ToSet
  <2> QED BY <1>4, <2>1, ClaimKept
<1> QED BY <1>0, <1>1, <1>2, <1>3, <1>4 DEF JoinersHeld

\* What holds throughout a match, whoever comes, goes or takes over.
MatchInv == Sound /\ UnderWay /\ Roles /\ HostTasks /\ FounderHeld /\ JoinersHeld

LEMMA MatchInvInit == MatchInit => MatchInv
<1> SUFFICES ASSUME MatchInit
             PROVE  MatchInv
  OBVIOUS
<1> DEFINE s == [host |-> Lobby[1], joiners |-> Tail(Lobby), status |-> "active",
                 seat_order |-> Lobby, player_count |-> Len(Lobby)]
<1>1. Sound
  BY MatchTyped
<1>2. session = s /\ s # NoSession /\ s.host = Founder /\ s.status = "active"
  <2>1. s \in SP!Session
    BY LobbyFacts DEF SP!Session, SP!Statuses
  <2> QED BY <2>1, StoreNoSession DEF MatchInit, Founder
<1> HIDE DEF s
<1>3. UnderWay
  <2>1. spent.joins = 1
    BY DEF MatchInit, Opened
  <2> QED BY <1>2, <2>1 DEF MatchInit, UnderWay, Store!Live
<1>4. \A c \in Conns : socks[c] # Closed =>
         /\ c <= Len(Lobby) /\ socks[c].player = Lobby[c] /\ socks[c].pc = "pump"
         /\ socks[c].is_host = (c = 1)
  BY DEF MatchInit, LobbySocks
<1>5. \A c \in Conns : c <= Len(Lobby) => (Lobby[c] = Founder <=> c = 1)
  <2>1. \A c \in Conns : c \in Nat /\ c # 0
    BY ConnAssumption
  <2>2. \A c \in Conns : c <= Len(Lobby) => c \in 1 .. Len(Lobby)
    BY <2>1, LobbyFacts
  <2>3. 1 \in 1 .. Len(Lobby)
    BY LobbyFacts
  <2> QED BY <2>2, <2>3, LobbyAssumption DEF Founder
<1>6. Roles
  <2>1. \A c \in Conns : socks[c] # Closed => (socks[c].is_host <=> Who(c) = Founder)
    BY ZenonT(40), <1>4, <1>5 DEF Who
  <2> QED BY <1>2, <2>1 DEF Roles
<1>7. HostTasks
  BY <1>4 DEF HostTasks, At
<1>8. \A p \in Players : Present(p)
  <2>1. \A p \in Players : LobbySenders[p] \in 1 .. Len(Lobby)
    BY LobbyAssumption DEF LobbySenders
  <2>2. room # NoRoom /\ room.senders = LobbySenders
    BY MatchRoom, NoRoomAssumption
  <2> QED BY <2>1, <2>2, LobbyFacts DEF Present, RoomMembers
<1>9. Founder \in Players /\ unmoved = Players
  BY LobbyFacts DEF MatchInit, Founder
<1> QED BY <1>1, <1>3, <1>6, <1>7, <1>8, <1>9 DEF MatchInv, FounderHeld, JoinersHeld

LEMMA MatchInvNext == MatchInv /\ [Next]_vars => MatchInv'
BY SoundNext, UnderWayNext, RolesNext, HostTasksNext, FounderHeldNext, JoinersHeldNext
   DEF MatchInv, Sound

LEMMA MatchInductive == MatchSpec => []MatchInv
BY MatchInvInit, MatchInvNext, PTL DEF MatchSpec

\* However the host that began a match gets lost, and whatever its older and newer
\* sockets, its timers and the others' do meanwhile, its promotion is pending.
THEOREM LostHostIsReplaced == MatchSpec => []FounderLossHandled
<1>1. MatchInv => FounderLossHandled
  <2> SUFFICES ASSUME MatchInv, Store!Live(session), session.host \in unmoved,
                      Lost(session.host)
               PROVE  grace[session.host]["promotion"] # 0
    BY DEF FounderLossHandled, HostLossHandled
  <2>1. session # NoSession /\ session.host = Founder
    BY DEF MatchInv, Roles, Store!Live
  <2> QED BY <2>1 DEF MatchInv, FounderHeld, Lost, InFlight, WillPromote
<1> QED BY MatchInductive, <1>1, PTL

\* A joiner that was there when the match began keeps its slot until its hold ends.
THEOREM LostJoinerIsAwaited == MatchSpec => []StartedJoinerSlotsHeld
<1>1. MatchInv => StartedJoinerSlotsHeld
  <2> SUFFICES ASSUME MatchInv, Store!Live(session), NEW p \in unmoved,
                      p \in ToSet(session.joiners), Lost(p)
               PROVE  grace[p]["reconnect"] # 0
    BY DEF StartedJoinerSlotsHeld, SlotHeld
  <2>1. session # NoSession
    BY DEF Store!Live
  <2> QED BY <2>1 DEF MatchInv, JoinersHeld, Lost, InFlight
<1> QED BY MatchInductive, <1>1, PTL

\* The match's own start: types, and the record as SessionStore has it.
THEOREM MatchTypedRecord == MatchSpec => [](TypeOK /\ SP!RosterSound /\ SP!MatchSeated)
<1>1. MatchInv => TypeOK /\ SP!RosterSound /\ SP!MatchSeated
  BY SoundIsTyped DEF MatchInv, Sound, SP!IInv
<1> QED BY MatchInductive, <1>1, PTL
=============================================================================
