------------------------------- MODULE BallMesh -------------------------------
(***************************************************************************)
(* The match on the players' screens: balls that cross a peer-to-peer mesh *)
(* of data channels through portal edges, and what a lost, failed or       *)
(* rejoined peer does to the edges.                                        *)
(*                                                                         *)
(* No server steps in: a ball exists on one screen or in one channel.      *)
(* Geometry is abstract: a ball may next meet a paddle, the goal, a portal,*)
(* a splitter or a pickup.  The freeze of a paused match only takes steps  *)
(* away and is left out.                                                   *)
(***************************************************************************)
EXTENDS Integers, FiniteSets, FiniteSetsExt

CONSTANTS
    Players,      \* the seats, by number: the frozen seat_order
    Host,         \* the start-time host
    SplitBallCount,
    HotbarRoom,   \* how many items a hotbar takes
    MaxBalls,     \* bound: balls made
    MaxPickups,   \* bound: pickups earned and not used, in a match without faults
    MaxFaults     \* bound: deaths, departures and broken links

ASSUME SeatAssumption == Players \subseteq Nat \ {0} /\ IsFiniteSet(Players) /\ Host \in Players
ASSUME BoundAssumption ==
    {SplitBallCount, HotbarRoom, MaxBalls, MaxPickups, MaxFaults} \subseteq Nat

\* GameState.cs: a screen never allocates near BallIdSeatStride balls.
ASSUME BlockAssumption == MaxBalls < 1000 /\ MaxFaults < 1000

VARIABLES
    proc,     \* where each player's process is
    fresh,    \* it enters the match for the first time (~MatchFlow.IsRejoin)
    epoch,    \* its ball id offset in BallIdBase, new with every process
    awaited,  \* MatchFlow._expectedPeers while it prepares
    link,     \* WebRtcMeshTransport: p's channel to q
    mapped,   \* NetGameController._peerToEdge: the peers behind a portal edge
    balls,    \* GameState.Balls
    wire,     \* what p has sent to q and q has not read
    joins,    \* PeerJoined frames p has not read, by the player they name
    bag,      \* items in p's hotbar
    made,     \* GameState._nextBallId: balls its process has made
    births,   \* bound used up: balls made by all
    earned, wasted,  \* history: pickups earned by p, of them the hotbar took not
    faults,   \* bound used up
    start     \* the match: not "yet", started "full", or "forced" by the valve

vars == <<proc, fresh, epoch, awaited, link, mapped, balls, wire, joins, bag, made,
          births, earned, wasted, faults, start>>

Others(p) == Players \ {p}
InScene(p) == proc[p] = "scene"
Nobody == 0
Award == [kind |-> "award"]
Kinds == {"master", "split"}
Ball == [id : Nat, kind : Kinds, hitter : Players \cup {Nobody}]

Total(count) == MapThenSumSet(LAMBDA p : count[p], Players)

\* Bound: no fault while somebody holds or awaits an item.
Fault == faults < MaxFaults /\ Total(earned) = 0 /\ faults' = faults + 1

-----------------------------------------------------------------------------
(* Balls *)

\* Faulty: a rejoined process counts its seat's block from the start again.
NextBallIdNoOffset(p, k) == 1000000 * p + made[p] + k

\* The seat's block, the process' offset in it and the process' own count.  The
\* code draws the offset at random: no two of one seat are taken to be within a
\* thousand of each other.
NextBallId(p, k) == 1000000 * p + 1000 * epoch[p] + made[p] + k

NewBall(p, k, kind, hitter) == [id |-> NextBallId(p, k), kind |-> kind, hitter |-> hitter]

Room(n) == births + n <= MaxBalls
Makes(p, n) == made' = [made EXCEPT ![p] = @ + n] /\ births' = births + n

\* SpawnServeBall: the ball waits on the paddle, untouched.
ServeBall(p) == NewBall(p, 0, "master", Nobody)

WithBalls(p, s) == balls' = [balls EXCEPT ![p] = s]

\* The serve, or a paddle: the local player hit it last.
PaddleHit(p, b) ==
    /\ InScene(p) /\ b \in balls[p] /\ b.hitter # p
    /\ WithBalls(p, (balls[p] \ {b}) \cup {[b EXCEPT !.hitter = p]})
    /\ UNCHANGED <<proc, fresh, epoch, awaited, link, mapped, wire, joins, bag, made, births,
                   earned, wasted, faults, start>>

\* Faulty: only the credited goal of a master is served again.
GoalUncredited(p, b) ==
    /\ InScene(p) /\ b \in balls[p] /\ b.hitter # Nobody
    /\ Room(1)
    /\ IF b.kind = "master" /\ b.hitter # p
       THEN /\ WithBalls(p, (balls[p] \ {b}) \cup {ServeBall(p)})
            /\ Makes(p, 1)
       ELSE /\ WithBalls(p, balls[p] \ {b})
            /\ UNCHANGED <<made, births>>
    /\ UNCHANGED <<proc, fresh, epoch, awaited, link, mapped, wire, joins, bag, earned, wasted,
                   faults, start>>

\* The goal line: the ball is gone, and the player it passed serves a lost master.
Goal(p, b) ==
    /\ InScene(p) /\ b \in balls[p] /\ b.hitter # Nobody
    /\ Room(1)
    /\ IF b.kind = "master"
       THEN /\ WithBalls(p, (balls[p] \ {b}) \cup {ServeBall(p)})
            /\ Makes(p, 1)
       ELSE /\ WithBalls(p, balls[p] \ {b})
            /\ UNCHANGED <<made, births>>
    /\ UNCHANGED <<proc, fresh, epoch, awaited, link, mapped, wire, joins, bag, earned, wasted,
                   faults, start>>

\* A splitter: a fan of split balls of the same hitter.
Splits(p, b) ==
    /\ InScene(p) /\ b \in balls[p] /\ b.hitter # Nobody
    /\ Room(SplitBallCount)
    /\ WithBalls(p, balls[p] \cup {NewBall(p, k, "split", b.hitter) : k \in 0 .. SplitBallCount - 1})
    /\ Makes(p, SplitBallCount)
    /\ UNCHANGED <<proc, fresh, epoch, awaited, link, mapped, wire, joins, bag, earned, wasted,
                   faults, start>>

\* The two ends are of one negotiation only when both are open.
Linked(p, q) == link[p][q] = "open" /\ link[q][p] = "open"

\* WebRtcMeshTransport.Send: what goes into a channel the other end has lost is lost.
Sent(p, q, packet) ==
    IF Linked(p, q) THEN [wire EXCEPT ![p][q] = @ \cup {packet}] ELSE wire

\* A portal edge: the ball leaves this screen whether or not it was sent.
Handoff(p, b, q) ==
    /\ InScene(p) /\ b \in balls[p] /\ b.hitter # Nobody
    /\ q \in mapped[p]
    /\ WithBalls(p, balls[p] \ {b})
    /\ wire' = Sent(p, q, b)
    /\ UNCHANGED <<proc, fresh, epoch, awaited, link, mapped, joins, bag, made, births, earned,
                   wasted, faults, start>>

\* OnPeerData, a ball: dropped from a peer without a portal and when already here.
ReceiveBall(p, q, b) ==
    /\ link[p][q] = "open" /\ b \in wire[q][p] /\ b # Award
    /\ wire' = [wire EXCEPT ![q][p] = @ \ {b}]
    /\ IF InScene(p) /\ q \in mapped[p] /\ \A a \in balls[p] : a.id # b.id
       THEN WithBalls(p, balls[p] \cup {b}) ELSE UNCHANGED balls
    /\ UNCHANGED <<proc, fresh, epoch, awaited, link, mapped, joins, bag, made, births, earned,
                   wasted, faults, start>>

-----------------------------------------------------------------------------
(* Loot *)

\* GrantItem: a full hotbar takes nothing.
Grant(p) ==
    IF bag[p] < HotbarRoom
    THEN bag' = [bag EXCEPT ![p] = @ + 1] /\ UNCHANGED wasted
    ELSE wasted' = [wasted EXCEPT ![p] = @ + 1] /\ UNCHANGED bag

\* A ball meets a pickup: its last hitter earns the item, here or over the mesh.
\* Bounds: one award at a time on a channel, and none after a fault.
Pickup(p, b) ==
    /\ InScene(p) /\ b \in balls[p] /\ b.hitter # Nobody
    /\ faults = 0 /\ Total(earned) < MaxPickups /\ Award \notin wire[p][b.hitter]
    /\ earned' = [earned EXCEPT ![b.hitter] = @ + 1]
    /\ IF b.hitter = p
       THEN Grant(p) /\ UNCHANGED wire
       ELSE wire' = Sent(p, b.hitter, Award) /\ UNCHANGED <<bag, wasted>>
    /\ UNCHANGED <<proc, fresh, epoch, awaited, link, mapped, balls, joins, made, births,
                   faults, start>>

ReceiveAward(p, q) ==
    /\ link[p][q] = "open" /\ Award \in wire[q][p]
    /\ wire' = [wire EXCEPT ![q][p] = @ \ {Award}]
    /\ IF InScene(p) /\ q \in mapped[p] THEN Grant(p) ELSE UNCHANGED <<bag, wasted>>
    /\ UNCHANGED <<proc, fresh, epoch, awaited, link, mapped, balls, joins, made, births,
                   earned, faults, start>>

UseItem(p) ==
    /\ InScene(p) /\ bag[p] > 0
    /\ bag' = [bag EXCEPT ![p] = @ - 1]
    /\ earned' = [earned EXCEPT ![p] = @ - 1]
    /\ UNCHANGED <<proc, fresh, epoch, awaited, link, mapped, balls, wire, joins, made, births,
                   wasted, faults, start>>

-----------------------------------------------------------------------------
(* Channels *)

NoLinks == [q \in Players |-> "none"]

\* Both ends hold the same negotiation: the channel opens on both.
LinkOpens(p, q) ==
    /\ p < q
    /\ link[p][q] = "new" /\ link[q][p] = "new"
    /\ link' = [link EXCEPT ![p][q] = "open", ![q][p] = "open"]
    /\ UNCHANGED <<proc, fresh, epoch, awaited, mapped, balls, wire, joins, bag, made, births,
                   earned, wasted, faults, start>>

\* p's end reports Failed or Closed: a screen walls the edge, a flow that still
\* prepares only counts it, and what the channel had not delivered is gone.
LoseLink(p, q) ==
    /\ link' = [link EXCEPT ![p][q] = "closed"]
    /\ wire' = [wire EXCEPT ![q][p] = {}]
    /\ mapped' = IF InScene(p) THEN [mapped EXCEPT ![p] = @ \ {q}] ELSE mapped

\* Connectivity fails under two live processes.
LinkBreaks(p, q) ==
    /\ link[p][q] \in {"open", "new"}
    /\ Fault
    /\ LoseLink(p, q)
    /\ UNCHANGED <<proc, fresh, epoch, awaited, balls, joins, bag, made, births, earned,
                   wasted, start>>

\* The far end is closed, re-negotiating or gone.
LinkFoundDead(p, q) ==
    /\ link[p][q] = "open" /\ link[q][p] # "open"
    /\ LoseLink(p, q)
    /\ UNCHANGED <<proc, fresh, epoch, awaited, balls, joins, bag, made, births, earned,
                   wasted, faults, start>>

\* Faulty: the link is re-negotiated and its edge stays a wall.
OnPeerRejoinedNoPortal(p, q) ==
    /\ q \in joins[p]
    /\ joins' = [joins EXCEPT ![p] = @ \ {q}]
    /\ IF InScene(p) /\ q \notin mapped[p]
       THEN /\ link' = [link EXCEPT ![p][q] = "new"]
            /\ wire' = [wire EXCEPT ![q][p] = {}, ![p][q] = {}]
       ELSE UNCHANGED <<link, wire>>
    /\ UNCHANGED <<proc, fresh, epoch, awaited, mapped, balls, bag, made, births, earned,
                   wasted, faults, start>>

\* PeerJoined: only an edge walled off is healed.
OnPeerRejoined(p, q) ==
    /\ q \in joins[p]
    /\ joins' = [joins EXCEPT ![p] = @ \ {q}]
    /\ IF InScene(p) /\ q \notin mapped[p]
       THEN /\ mapped' = [mapped EXCEPT ![p] = @ \cup {q}]
            /\ link' = [link EXCEPT ![p][q] = "new"]
            /\ wire' = [wire EXCEPT ![q][p] = {}, ![p][q] = {}]
       ELSE UNCHANGED <<mapped, link, wire>>
    /\ UNCHANGED <<proc, fresh, epoch, awaited, balls, bag, made, births, earned, wasted,
                   faults, start>>

-----------------------------------------------------------------------------
(* Processes *)

\* Ready: every awaited peer's channel is open.
Ready == {p \in Players : proc[p] = "preparing" /\ \A q \in awaited[p] : link[p][q] = "open"}

\* Faulty: a returning host serves again.
EnterServing(ps, servers) ==
    LET serves == Host \in ps
    IN  /\ proc' = [p \in Players |-> IF p \in ps THEN "scene" ELSE proc[p]]
        /\ mapped' = [p \in Players |-> IF p \in ps THEN Others(p) ELSE mapped[p]]
        /\ IF serves
           THEN /\ WithBalls(Host, {ServeBall(Host)})
                /\ Makes(Host, 1)
           ELSE UNCHANGED <<balls, made, births>>
        /\ UNCHANGED <<fresh, epoch, awaited, link, wire, joins, bag, earned, wasted, faults>>

\* GameScene._Ready: every other seat of the frozen roster gets a portal, and the
\* host serves unless it returns.
Enter(ps, servers) ==
    /\ proc' = [p \in Players |-> IF p \in ps THEN "scene" ELSE proc[p]]
    /\ mapped' = [p \in Players |-> IF p \in ps THEN Others(p) ELSE mapped[p]]
    /\ IF Host \in ps \cap servers
       THEN /\ WithBalls(Host, {ServeBall(Host)})
            /\ Makes(Host, 1)
       ELSE UNCHANGED <<balls, made, births>>
    /\ UNCHANGED <<fresh, epoch, awaited, link, wire, joins, bag, earned, wasted, faults>>

Fresh == {p \in Players : fresh[p]}

\* The barrier resolves: match_started reaches every screen before a ball can
\* have crossed one.
MatchStarts ==
    /\ start = "yet" /\ Ready = Players
    /\ start' = "full"
    /\ Enter(Players, Fresh)

\* Its valve fires: who is ready goes in.
MatchForced ==
    /\ start = "yet" /\ Ready # {}
    /\ start' = "forced"
    /\ Enter(Ready, Fresh)

\* A straggler or a rejoiner announces itself to a match that has started.
EnterScene(p) ==
    /\ start # "yet" /\ p \in Ready
    /\ Enter({p}, Fresh)
    /\ UNCHANGED start

\* What ends with p's process, and what it had under way.
Stops(p, state) ==
    /\ proc' = [proc EXCEPT ![p] = state]
    /\ balls' = [balls EXCEPT ![p] = {}]
    /\ mapped' = [mapped EXCEPT ![p] = {}]
    /\ link' = [link EXCEPT ![p] = NoLinks]
    /\ wire' = [q \in Players |-> [r \in Players |-> IF r = p THEN {} ELSE wire[q][r]]]
    /\ bag' = [bag EXCEPT ![p] = 0]
    /\ joins' = [joins EXCEPT ![p] = {}]

\* Death, or Preparing's failure: the slot is held.
ProcessDies(p) ==
    /\ proc[p] \in {"scene", "preparing"}
    /\ Fault
    /\ Stops(p, "dead")
    /\ awaited' = [awaited EXCEPT ![p] = {}]
    /\ fresh' = [fresh EXCEPT ![p] = FALSE]
    /\ UNCHANGED <<epoch, made, births, earned, wasted, start>>

\* PeerLeft: the others stop awaiting it.
LeavesForGood(p) ==
    /\ proc[p] # "gone"
    /\ Fault
    /\ Stops(p, "gone")
    /\ awaited' = [q \in Players |-> awaited[q] \ {p}]
    /\ UNCHANGED <<fresh, epoch, made, births, earned, wasted, start>>

\* A new process identifies: it meshes with the members there are, and every
\* socket in the room hears PeerJoined.
Rejoins(p) ==
    /\ proc[p] = "dead"
    /\ LET members == {q \in Others(p) : proc[q] # "gone"}
       IN  /\ awaited' = [awaited EXCEPT ![p] = members]
           /\ link' = [link EXCEPT ![p] = [q \in Players |->
                                             IF q \in members THEN "new" ELSE "none"]]
    /\ proc' = [proc EXCEPT ![p] = "preparing"]
    /\ epoch' = [epoch EXCEPT ![p] = @ + 1]
    /\ made' = [made EXCEPT ![p] = 0]
    /\ joins' = [q \in Players |-> IF q # p /\ proc[q] \in {"scene", "preparing"}
                                   THEN joins[q] \cup {p} ELSE joins[q]]
    /\ UNCHANGED <<fresh, mapped, balls, wire, bag, births, earned, wasted, faults, start>>

\* A socket blip: the process lives on and PeerJoined is broadcast all the same.
SocketBlips(p) ==
    /\ proc[p] \in {"scene", "preparing"}
    /\ Fault
    /\ joins' = [q \in Players |-> IF q # p /\ proc[q] \in {"scene", "preparing"}
                                   THEN joins[q] \cup {p} ELSE joins[q]]
    /\ UNCHANGED <<proc, fresh, epoch, awaited, link, mapped, balls, wire, bag, made, births,
                   earned, wasted, start>>

-----------------------------------------------------------------------------
(* The specification *)

\* /start has frozen the seats and everyone is bringing its mesh up.
Init ==
    /\ proc = [p \in Players |-> "preparing"]
    /\ fresh = [p \in Players |-> TRUE]
    /\ epoch = [p \in Players |-> 0]
    /\ awaited = [p \in Players |-> Others(p)]
    /\ link = [p \in Players |-> [q \in Players |-> IF p = q THEN "none" ELSE "new"]]
    /\ mapped = [p \in Players |-> {}]
    /\ balls = [p \in Players |-> {}]
    /\ wire = [p \in Players |-> [q \in Players |-> {}]]
    /\ joins = [p \in Players |-> {}]
    /\ bag = [p \in Players |-> 0] /\ made = [p \in Players |-> 0]
    /\ earned = [p \in Players |-> 0] /\ wasted = [p \in Players |-> 0]
    /\ faults = 0 /\ births = 0 /\ start = "yet"

BallNext(p) ==
    \E b \in balls[p] :
       \/ PaddleHit(p, b) \/ Goal(p, b) \/ Splits(p, b) \/ Pickup(p, b)
       \/ \E q \in Players : Handoff(p, b, q)

MeshNext(p) ==
    \E q \in Others(p) :
       \/ LinkOpens(p, q) \/ LinkBreaks(p, q) \/ LinkFoundDead(p, q) \/ OnPeerRejoined(p, q)
       \/ ReceiveAward(p, q)
       \/ \E b \in wire[q][p] : ReceiveBall(p, q, b)

ProcessNext(p) ==
    EnterScene(p) \/ ProcessDies(p) \/ LeavesForGood(p) \/ Rejoins(p) \/ SocketBlips(p)

Next ==
    \/ MatchStarts \/ MatchForced
    \/ \E p \in Players : BallNext(p) \/ UseItem(p) \/ MeshNext(p) \/ ProcessNext(p)

Spec == Init /\ [][Next]_vars

-----------------------------------------------------------------------------
(* Properties *)

\* The balls on p's screen, or on their way from p to q.
Held(p, q) == IF p = q THEN balls[p] ELSE wire[p][q] \ {Award}

\* Every ball there is: <<where, ball>>, on a screen or in a channel.
Places == UNION {{<<x[1], x[2], b>> : b \in Held(x[1], x[2])} : x \in Players \X Players}

Masters == {at \in Places : at[3].kind = "master"}

\* Every variable stays in its domain.
TypeOK ==
    /\ proc \in [Players -> {"preparing", "scene", "dead", "gone"}]
    /\ fresh \in [Players -> BOOLEAN]
    /\ epoch \in [Players -> Nat] /\ made \in [Players -> Nat]
    /\ link \in [Players -> [Players -> {"none", "new", "open", "closed"}]]
    /\ awaited \in [Players -> SUBSET Players] /\ joins \in [Players -> SUBSET Players]
    /\ mapped \in [Players -> SUBSET Players] /\ \A p \in Players : p \notin mapped[p]
    /\ balls \in [Players -> SUBSET Ball]
    /\ wire \in [Players -> [Players -> SUBSET (Ball \cup {Award})]]
    /\ bag \in [Players -> Nat] /\ \A p \in Players : bag[p] <= HotbarRoom
    /\ earned \in [Players -> Int] /\ wasted \in [Players -> Nat]
    /\ births \in Nat /\ faults \in 0 .. MaxFaults
    /\ start \in {"yet", "full", "forced"}

\* A ball is in one place, and no two balls share an id: the receiver's
\* duplicate check never drops a ball that is not a duplicate.
BallsAreDistinct == \A x, y \in Places : x[3].id = y[3].id => x = y

\* With nothing dying, leaving or breaking, the master is never lost and
\* every earned item is held, on its way or refused by a full hotbar.
NothingLostWithoutFault ==
    faults = 0 /\ start = "full" =>
       /\ Cardinality(Masters) = 1
       /\ \A p \in Players :
             earned[p] = bag[p] + wasted[p] + Cardinality({q \in Players : Award \in wire[q][p]})

\* A screen never walls an edge whose channel works: whoever can send to this
\* screen gets its balls taken in, so a handoff that arrives is not discarded.
OpenChannelHasPortal ==
    \A p \in Players : InScene(p) =>
       \A q \in Others(p) : link[p][q] \in {"open", "new"} => q \in mapped[p]

\* The screens and channels together as one abstract master ball.
HasMaster(s) == \E b \in s : b.kind = "master"

MasterAt == {x \in Players \X Players : HasMaster(Held(x[1], x[2]))}

Master == INSTANCE MasterBall WITH served <- births > 0, at <- MasterAt

\* Screens that only hand balls to each other keep the promise of one ball: the
\* master is served once, by the host, crosses one channel at a time, and a
\* lost one is served by nobody (GameScene.cs: a returning host does not).
MasterKept == Master!Spec
=============================================================================
