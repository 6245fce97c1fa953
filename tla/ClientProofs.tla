----------------------------- MODULE ClientProofs -----------------------------
(***************************************************************************)
(* The game client.  BallMesh, proved for any number of seats, balls,      *)
(* pickups and faults: no two balls share an id, no working channel ends   *)
(* at a walled edge, and the screens and channels together implement       *)
(* MasterBall.  MatchFlow, proved for any peers and any number of drops,   *)
(* deaths, sessions and chat lines.                                        *)
(***************************************************************************)
EXTENDS BallMesh, MatchFlow, FiniteSetTheorems, SequenceTheorems, TLAPS

-----------------------------------------------------------------------------
(* Types *)

Processes == {"preparing", "scene", "dead", "gone"}
Links == {"none", "new", "open", "closed"}

ProcsOK ==
    /\ proc \in [Players -> Processes] /\ fresh \in [Players -> BOOLEAN]
    /\ epoch \in [Players -> Nat]
    /\ awaited \in [Players -> SUBSET Players] /\ joins \in [Players -> SUBSET Players]
    /\ start \in {"yet", "full", "forced"} /\ faults \in 0 .. MaxFaults

MeshOK ==
    /\ link \in [Players -> [Players -> Links]]
    /\ mapped \in [Players -> SUBSET Players]
    /\ \A p \in Players : p \notin mapped[p]

BallsOK ==
    /\ balls \in [Players -> SUBSET Ball]
    /\ wire \in [Players -> [Players -> SUBSET (Ball \cup {Award})]]
    /\ made \in [Players -> Nat] /\ births \in Nat

LootOK ==
    /\ bag \in [Players -> Nat] /\ \A p \in Players : bag[p] <= HotbarRoom
    /\ earned \in [Players -> Int] /\ wasted \in [Players -> Nat]

LEMMA TypeParts ==
    /\ TypeOK <=> ProcsOK /\ MeshOK /\ BallsOK /\ LootOK
    /\ TypeOK' <=> ProcsOK' /\ MeshOK' /\ BallsOK' /\ LootOK'
BY DEF TypeOK, ProcsOK, MeshOK, BallsOK, LootOK, Processes, Links

LEMMA Seats == Players \subseteq Nat \ {0} /\ Host \in Players /\ Nobody \notin Players
BY SeatAssumption DEF Nobody

LEMMA Bounds ==
    /\ SplitBallCount \in Nat /\ HotbarRoom \in Nat /\ MaxBalls \in Nat
    /\ MaxPickups \in Nat /\ MaxFaults \in Nat
BY BoundAssumption

\* A ball and an award never look alike.
LEMMA AwardIsNoBall == Award \notin Ball
BY DEF Award, Ball, Kinds

LEMMA BallFields ==
    \A b \in Ball : b.id \in Nat /\ b.kind \in Kinds /\ b.hitter \in Players \cup {Nobody}
BY DEF Ball

LEMMA BallKinds == "master" \in Kinds /\ "split" \in Kinds
BY DEF Kinds

LEMMA NewBallTyped ==
    ASSUME ProcsOK, BallsOK, NEW p \in Players, NEW k \in Nat, NEW kind \in Kinds,
           NEW hitter \in Players \cup {Nobody}
    PROVE  /\ NextBallId(p, k) \in Nat
           /\ NewBall(p, k, kind, hitter) \in Ball
           /\ NewBall(p, k, kind, hitter).id = NextBallId(p, k)
           /\ NewBall(p, k, kind, hitter).kind = kind
<1>1. NextBallId(p, k) \in Nat
  BY Seats DEF NextBallId, ProcsOK, BallsOK
<1> QED
  BY <1>1 DEF NewBall, Ball

LEMMA ServeBallTyped ==
    ASSUME ProcsOK, BallsOK, NEW p \in Players
    PROVE  /\ ServeBall(p) \in Ball
           /\ ServeBall(p).id = NextBallId(p, 0) /\ ServeBall(p).kind = "master"
BY NewBallTyped DEF ServeBall, Kinds

LEMMA MakesTyped ==
    ASSUME BallsOK, NEW p \in Players, NEW n \in Nat, Makes(p, n)
    PROVE  made' \in [Players -> Nat] /\ births' \in Nat
BY DEF Makes, BallsOK

\* What Sent leaves in the channels.
LEMMA SentTyped ==
    ASSUME BallsOK, NEW p \in Players, NEW q \in Players, NEW k \in Ball \cup {Award}
    PROVE  Sent(p, q, k) \in [Players -> [Players -> SUBSET (Ball \cup {Award})]]
<1>1. CASE Linked(p, q)
  <2>1. [wire[p] EXCEPT ![q] = @ \cup {k}] \in [Players -> SUBSET (Ball \cup {Award})]
    BY DEF BallsOK
  <2> QED BY <1>1, <2>1 DEF Sent, BallsOK
<1>2. CASE ~Linked(p, q)
  BY <1>2 DEF Sent, BallsOK
<1> QED BY <1>1, <1>2

LEMMA GrantTyped ==
    ASSUME LootOK, NEW p \in Players, Grant(p)
    PROVE  /\ bag' \in [Players -> Nat] /\ \A q \in Players : bag'[q] <= HotbarRoom
           /\ wasted' \in [Players -> Nat]
BY Bounds DEF LootOK, Grant

LEMMA ProcsKept ==
    ProcsOK /\ UNCHANGED <<proc, fresh, epoch, awaited, joins, start, faults>> => ProcsOK'
BY DEF ProcsOK

LEMMA MeshKept == MeshOK /\ UNCHANGED <<link, mapped>> => MeshOK'
BY DEF MeshOK

LEMMA BallsKept == BallsOK /\ UNCHANGED <<balls, wire, made, births>> => BallsOK'
BY DEF BallsOK

LEMMA LootKept == LootOK /\ UNCHANGED <<bag, earned, wasted>> => LootOK'
BY DEF LootOK

LEMMA FaultTyped == ProcsOK /\ Fault => faults' \in 0 .. MaxFaults
BY Bounds DEF ProcsOK, Fault

LEMMA InitTyped == Init => TypeOK
BY Bounds, Seats DEF Init, TypeOK, Others

LEMMA BallTyped ==
    ASSUME TypeOK, NEW p \in Players, BallNext(p)
    PROVE  TypeOK'
<1> USE TypeParts
<1>0. PICK b \in balls[p] :
           \/ PaddleHit(p, b) \/ Goal(p, b) \/ Splits(p, b) \/ Pickup(p, b)
           \/ \E q \in Players : Handoff(p, b, q)
  BY DEF BallNext
<1>b. b \in Ball /\ b.hitter \in Players \cup {Nobody} /\ b.id \in Nat /\ b.kind \in Kinds
  BY BallFields DEF BallsOK
<1>1. CASE PaddleHit(p, b)
  <2>1. [b EXCEPT !.hitter = p] \in Ball
    BY <1>b DEF Ball
  <2>2. BallsOK'
    BY <1>1, <2>1 DEF PaddleHit, WithBalls, BallsOK
  <2> QED BY <1>1, <2>2, ProcsKept, MeshKept, LootKept DEF PaddleHit
<1>2. CASE Goal(p, b)
  <2>1. BallsOK'
    BY <1>2, ServeBallTyped, MakesTyped DEF Goal, WithBalls, BallsOK
  <2> QED BY <1>2, <2>1, ProcsKept, MeshKept, LootKept DEF Goal
<1>3. CASE Splits(p, b)
  <2>1. \A k \in 0 .. SplitBallCount - 1 : NewBall(p, k, "split", b.hitter) \in Ball
    <3> SUFFICES ASSUME NEW k \in 0 .. SplitBallCount - 1
                 PROVE  NewBall(p, k, "split", b.hitter) \in Ball
      OBVIOUS
    <3>1. k \in Nat /\ "split" \in Kinds
      BY Bounds, BallKinds
    <3> QED BY <1>b, <3>1, NewBallTyped
  <2>2. {NewBall(p, k, "split", b.hitter) : k \in 0 .. SplitBallCount - 1} \subseteq Ball
    BY <2>1
  <2>3. BallsOK'
    BY <1>3, <2>2, MakesTyped, Bounds DEF Splits, WithBalls, BallsOK
  <2> QED BY <1>3, <2>3, ProcsKept, MeshKept, LootKept DEF Splits
<1>4. CASE Pickup(p, b)
  <2>0. b.hitter \in Players
    BY <1>4, <1>b DEF Pickup
  <2>1. BallsOK'
    BY <1>4, <2>0, SentTyped DEF Pickup, BallsOK
  <2>2. earned' \in [Players -> Int]
    BY <1>4, <2>0 DEF Pickup, LootOK
  <2>3. LootOK'
    BY <1>4, <2>2, GrantTyped DEF Pickup, LootOK
  <2> QED BY <1>4, <2>1, <2>3, ProcsKept, MeshKept DEF Pickup
<1>5. ASSUME NEW q \in Players, Handoff(p, b, q)
      PROVE  TypeOK'
  <2>1. BallsOK'
    BY <1>5, <1>b, SentTyped DEF Handoff, WithBalls, BallsOK
  <2> QED BY <1>5, <2>1, ProcsKept, MeshKept, LootKept DEF Handoff
<1> QED BY <1>0, <1>1, <1>2, <1>3, <1>4, <1>5

LEMMA UseTyped ==
    ASSUME TypeOK, NEW p \in Players, UseItem(p)
    PROVE  TypeOK'
<1>1. LootOK'
  BY TypeParts, Bounds DEF UseItem, LootOK
<1> QED BY <1>1, TypeParts, ProcsKept, MeshKept, BallsKept DEF UseItem

\* One end of a channel, and what it had not read.
LEMMA LinkTyped ==
    ASSUME MeshOK, NEW p \in Players, NEW q \in Players, NEW s \in Links
    PROVE  [link EXCEPT ![p][q] = s] \in [Players -> [Players -> Links]]
BY DEF MeshOK

LEMMA EmptiedTyped ==
    ASSUME BallsOK, NEW p \in Players, NEW q \in Players
    PROVE  [wire EXCEPT ![p][q] = {}] \in [Players -> [Players -> SUBSET (Ball \cup {Award})]]
BY DEF BallsOK

LEMMA LoseLinkTyped ==
    ASSUME MeshOK, BallsOK, NEW p \in Players, NEW q \in Players, LoseLink(p, q)
    PROVE  /\ MeshOK'
           /\ wire' \in [Players -> [Players -> SUBSET (Ball \cup {Award})]]
<1>1. link' \in [Players -> [Players -> Links]]
  BY LinkTyped DEF LoseLink, Links
<1>2. wire' \in [Players -> [Players -> SUBSET (Ball \cup {Award})]]
  BY EmptiedTyped DEF LoseLink
<1>3. mapped' \in [Players -> SUBSET Players] /\ \A r \in Players : mapped'[r] \subseteq mapped[r]
  BY DEF LoseLink, MeshOK
<1> QED BY <1>1, <1>2, <1>3 DEF MeshOK

LEMMA MeshTyped ==
    ASSUME TypeOK, NEW p \in Players, MeshNext(p)
    PROVE  TypeOK'
<1> USE TypeParts
<1>0. PICK q \in Others(p) :
           \/ LinkOpens(p, q) \/ LinkBreaks(p, q) \/ LinkFoundDead(p, q) \/ OnPeerRejoined(p, q)
           \/ ReceiveAward(p, q)
           \/ \E b \in wire[q][p] : ReceiveBall(p, q, b)
  BY DEF MeshNext
<1>q. q \in Players /\ p # q
  BY DEF Others
<1>1. CASE LinkOpens(p, q)
  <2>1. link' \in [Players -> [Players -> Links]]
    <3>1. [link EXCEPT ![p][q] = "open"] \in [Players -> [Players -> Links]]
      BY <1>q, LinkTyped DEF Links
    <3> QED BY <1>1, <1>q, <3>1 DEF LinkOpens, Links
  <2> QED BY <1>1, <2>1, ProcsKept, BallsKept, LootKept DEF LinkOpens, MeshOK
<1>2. CASE LinkBreaks(p, q)
  <2>1. MeshOK' /\ BallsOK'
    BY <1>2, <1>q, LoseLinkTyped DEF LinkBreaks, BallsOK
  <2>2. ProcsOK'
    BY <1>2, FaultTyped DEF LinkBreaks, ProcsOK
  <2> QED BY <1>2, <2>1, <2>2, LootKept DEF LinkBreaks
<1>3. CASE LinkFoundDead(p, q)
  <2>1. MeshOK' /\ BallsOK'
    BY <1>3, <1>q, LoseLinkTyped DEF LinkFoundDead, BallsOK
  <2> QED BY <1>3, <2>1, ProcsKept, LootKept DEF LinkFoundDead
<1>4. CASE OnPeerRejoined(p, q)
  <2>1. joins' \in [Players -> SUBSET Players]
    BY <1>4 DEF OnPeerRejoined, ProcsOK
  <2>2. ASSUME InScene(p) /\ q \notin mapped[p]
        PROVE  MeshOK' /\ BallsOK'
    <3>0. /\ mapped' = [mapped EXCEPT ![p] = @ \cup {q}]
          /\ link' = [link EXCEPT ![p][q] = "new"]
          /\ wire' = [wire EXCEPT ![q][p] = {}, ![p][q] = {}]
      BY <1>4, <2>2 DEF OnPeerRejoined
    <3>1. [mapped EXCEPT ![p] = @ \cup {q}] \in [Players -> SUBSET Players]
      BY <1>q DEF MeshOK
    <3>2. mapped' \in [Players -> SUBSET Players] /\ \A r \in Players : r \notin mapped'[r]
      BY <1>q, <3>0, <3>1 DEF MeshOK
    <3>3. link' \in [Players -> [Players -> Links]]
      BY <1>q, <3>0, LinkTyped DEF Links
    <3>4. [wire EXCEPT ![q][p] = {}] \in [Players -> [Players -> SUBSET (Ball \cup {Award})]]
      BY <1>q, EmptiedTyped
    <3>5. wire' \in [Players -> [Players -> SUBSET (Ball \cup {Award})]]
      BY <1>q, <3>0, <3>4
    <3> QED BY <1>4, <3>2, <3>3, <3>5 DEF InScene, OnPeerRejoined, MeshOK, BallsOK
  <2>3. ASSUME ~(InScene(p) /\ q \notin mapped[p])
        PROVE  MeshOK' /\ BallsOK'
    BY <1>4, <2>3, MeshKept, BallsKept DEF InScene, OnPeerRejoined
  <2>4. ProcsOK' /\ MeshOK' /\ BallsOK'
    BY <1>4, <2>1, <2>2, <2>3 DEF OnPeerRejoined, ProcsOK
  <2> QED BY <1>4, <2>4, LootKept DEF OnPeerRejoined
<1>5. CASE ReceiveAward(p, q)
  <2>1. wire' \in [Players -> [Players -> SUBSET (Ball \cup {Award})]]
    BY <1>5, <1>q DEF ReceiveAward, BallsOK
  <2>2. LootOK' /\ BallsOK'
    BY <1>5, <2>1, GrantTyped DEF ReceiveAward, LootOK, BallsOK
  <2> QED BY <1>5, <2>2, ProcsKept, MeshKept DEF ReceiveAward
<1>6. ASSUME NEW b \in wire[q][p], ReceiveBall(p, q, b)
      PROVE  TypeOK'
  <2>0. b \in Ball
    BY <1>6, <1>q DEF ReceiveBall, BallsOK
  <2>1. wire' \in [Players -> [Players -> SUBSET (Ball \cup {Award})]]
    BY <1>6, <1>q DEF ReceiveBall, BallsOK
  <2>2. balls' \in [Players -> SUBSET Ball]
    BY <1>6, <2>0 DEF ReceiveBall, WithBalls, BallsOK
  <2>3. BallsOK'
    BY <1>6, <2>1, <2>2 DEF ReceiveBall, BallsOK
  <2> QED BY <1>6, <2>3, ProcsKept, MeshKept, LootKept DEF ReceiveBall
<1> QED BY <1>0, <1>1, <1>2, <1>3, <1>4, <1>5, <1>6

LEMMA EnterTyped ==
    ASSUME TypeOK, NEW ps \in SUBSET Players, Enter(ps, Fresh), start' \in {"yet", "full", "forced"}
    PROVE  TypeOK'
<1> USE TypeParts
<1>1. ProcsOK'
  BY DEF Enter, ProcsOK, Processes
<1>2. MeshOK'
  BY DEF Enter, MeshOK, Others
<1>3. BallsOK'
  BY ServeBallTyped, MakesTyped, Seats DEF Enter, WithBalls, BallsOK
<1> QED BY <1>1, <1>2, <1>3, LootKept DEF Enter

LEMMA StopsTyped ==
    ASSUME TypeOK, NEW p \in Players, NEW state \in {"dead", "gone"}, Stops(p, state)
    PROVE  /\ proc' \in [Players -> Processes] /\ joins' \in [Players -> SUBSET Players]
           /\ MeshOK'
           /\ balls' \in [Players -> SUBSET Ball]
           /\ wire' \in [Players -> [Players -> SUBSET (Ball \cup {Award})]]
           /\ bag' \in [Players -> Nat] /\ \A q \in Players : bag'[q] <= HotbarRoom
<1> USE TypeParts
<1>1. proc' \in [Players -> Processes] /\ joins' \in [Players -> SUBSET Players]
  BY DEF Stops, ProcsOK, Processes
<1>2. MeshOK'
  BY DEF Stops, MeshOK, NoLinks, Links
<1>3. balls' \in [Players -> SUBSET Ball]
  BY DEF Stops, BallsOK
<1>4. wire' \in [Players -> [Players -> SUBSET (Ball \cup {Award})]]
  BY DEF Stops, BallsOK
<1>5. bag' \in [Players -> Nat] /\ \A q \in Players : bag'[q] <= HotbarRoom
  BY Bounds DEF Stops, LootOK
<1> QED BY <1>1, <1>2, <1>3, <1>4, <1>5

LEMMA ProcessTyped ==
    ASSUME TypeOK, NEW p \in Players, ProcessNext(p)
    PROVE  TypeOK'
<1> USE TypeParts
<1>1. CASE EnterScene(p)
  BY <1>1, EnterTyped DEF EnterScene, ProcsOK
<1>2. CASE ProcessDies(p)
  <2>1. fresh' \in [Players -> BOOLEAN] /\ awaited' \in [Players -> SUBSET Players]
    BY <1>2 DEF ProcessDies, ProcsOK
  <2> QED BY <1>2, <2>1, StopsTyped, FaultTyped DEF ProcessDies, ProcsOK, BallsOK, LootOK
<1>3. CASE LeavesForGood(p)
  <2>1. awaited' \in [Players -> SUBSET Players]
    BY <1>3 DEF LeavesForGood, ProcsOK
  <2> QED BY <1>3, <2>1, StopsTyped, FaultTyped DEF LeavesForGood, ProcsOK, BallsOK, LootOK
<1>4. CASE Rejoins(p)
  <2>1. ProcsOK'
    BY <1>4 DEF Rejoins, ProcsOK, Processes, Others
  <2>2. MeshOK'
    BY <1>4 DEF Rejoins, MeshOK, Links
  <2>3. BallsOK'
    BY <1>4 DEF Rejoins, BallsOK
  <2> QED BY <1>4, <2>1, <2>2, <2>3, LootKept DEF Rejoins
<1>5. CASE SocketBlips(p)
  <2>1. ProcsOK'
    BY <1>5, FaultTyped DEF SocketBlips, ProcsOK
  <2> QED BY <1>5, <2>1, MeshKept, BallsKept, LootKept DEF SocketBlips
<1> QED BY <1>1, <1>2, <1>3, <1>4, <1>5 DEF ProcessNext

LEMMA NextTyped == TypeOK /\ [Next]_vars => TypeOK'
<1> SUFFICES ASSUME TypeOK, [Next]_vars
             PROVE  TypeOK'
  OBVIOUS
<1>1. CASE MatchStarts
  BY <1>1, EnterTyped DEF MatchStarts
<1>2. CASE MatchForced
  BY <1>2, EnterTyped DEF MatchForced, Ready
<1>3. CASE \E p \in Players : BallNext(p) \/ UseItem(p) \/ MeshNext(p) \/ ProcessNext(p)
  BY <1>3, BallTyped, UseTyped, MeshTyped, ProcessTyped
<1>4. CASE UNCHANGED vars
  BY <1>4, TypeParts, ProcsKept, MeshKept, BallsKept, LootKept DEF vars
<1> QED BY <1>1, <1>2, <1>3, <1>4 DEF Next

\* Whatever crosses the mesh, breaks, leaves or rejoins, every screen, channel,
\* hotbar and counter stays within its domain.
THEOREM BallMeshTyped == Spec => []TypeOK
BY InitTyped, NextTyped, PTL DEF Spec

-----------------------------------------------------------------------------
(* Channels and portals *)

LEMMA LoseLinkPortal ==
    ASSUME MeshOK, OpenChannelHasPortal, NEW p \in Players, NEW q \in Others(p),
           LoseLink(p, q), UNCHANGED proc
    PROVE  OpenChannelHasPortal'
<1>1. \A r, s \in Players :
         link'[r][s] = IF r = p /\ s = q THEN "closed" ELSE link[r][s]
  BY DEF LoseLink, MeshOK, Others
<1>2. \A r \in Players : InScene(r) =>
         \A s \in mapped[r] : ~(r = p /\ s = q) => s \in mapped'[r]
  BY DEF LoseLink, MeshOK
<1> SUFFICES ASSUME NEW r \in Players, InScene(r), NEW s \in Others(r),
                    link'[r][s] \in {"open", "new"}
             PROVE  s \in mapped'[r]
  BY DEF OpenChannelHasPortal, InScene
<1>3. s \in Players /\ ~(r = p /\ s = q) /\ link[r][s] \in {"open", "new"}
  BY <1>1 DEF Others
<1> QED
  BY <1>2, <1>3 DEF OpenChannelHasPortal

LEMMA PortalKept == OpenChannelHasPortal /\ UNCHANGED <<proc, link, mapped>> => OpenChannelHasPortal'
BY DEF OpenChannelHasPortal, InScene

LEMMA EnterPortal ==
    ASSUME TypeOK, OpenChannelHasPortal, NEW ps \in SUBSET Players, Enter(ps, Fresh)
    PROVE  OpenChannelHasPortal'
<1>1. \A p \in Players : proc'[p] = IF p \in ps THEN "scene" ELSE proc[p]
  BY DEF Enter
<1>2. \A p \in Players : mapped'[p] = IF p \in ps THEN Others(p) ELSE mapped[p]
  BY DEF Enter
<1>3. link' = link
  BY DEF Enter
<1> QED BY <1>1, <1>2, <1>3 DEF OpenChannelHasPortal, InScene

LEMMA StopsPortal ==
    ASSUME TypeOK, OpenChannelHasPortal, NEW p \in Players, NEW state \in {"dead", "gone"},
           Stops(p, state)
    PROVE  OpenChannelHasPortal'
<1>1. \A q \in Players : proc'[q] = IF q = p THEN state ELSE proc[q]
  BY DEF Stops, TypeOK
<1>2. \A q \in Players \ {p} : mapped'[q] = mapped[q] /\ link'[q] = link[q]
  BY DEF Stops, TypeOK
<1> QED BY <1>1, <1>2 DEF OpenChannelHasPortal, InScene

LEMMA MeshPortal ==
    ASSUME TypeOK, OpenChannelHasPortal, NEW p \in Players, MeshNext(p)
    PROVE  OpenChannelHasPortal'
<1>0. PICK q \in Others(p) :
           \/ LinkOpens(p, q) \/ LinkBreaks(p, q) \/ LinkFoundDead(p, q) \/ OnPeerRejoined(p, q)
           \/ ReceiveAward(p, q)
           \/ \E b \in wire[q][p] : ReceiveBall(p, q, b)
  BY DEF MeshNext
<1>q. q \in Players /\ p # q
  BY DEF Others
<1>1. CASE LinkOpens(p, q)
  <2>1. \A r, s \in Players : link'[r][s] = link[r][s] \/ (link[r][s] = "new" /\ link'[r][s] = "open")
    BY <1>1, <1>q DEF LinkOpens, TypeOK
  <2> QED BY <1>1, <2>1 DEF LinkOpens, OpenChannelHasPortal, InScene, Others
<1>2. CASE LinkBreaks(p, q)
  BY <1>2, TypeParts, LoseLinkPortal DEF LinkBreaks
<1>3. CASE LinkFoundDead(p, q)
  BY <1>3, TypeParts, LoseLinkPortal DEF LinkFoundDead
<1>4. CASE OnPeerRejoined(p, q)
  <2>1. CASE InScene(p) /\ q \notin mapped[p]
    <3>1. /\ mapped' = [mapped EXCEPT ![p] = @ \cup {q}]
          /\ link' = [link EXCEPT ![p][q] = "new"]
      BY <1>4, <2>1 DEF OnPeerRejoined
    <3>2. \A r, s \in Players : link'[r][s] # link[r][s] => r = p /\ s = q
      BY <1>q, <3>1 DEF TypeOK
    <3>3. \A r \in Players : mapped[r] \subseteq mapped'[r] /\ q \in mapped'[p]
      BY <1>q, <3>1 DEF TypeOK
    <3> QED BY <1>4, <1>q, <3>2, <3>3 DEF OnPeerRejoined, OpenChannelHasPortal, InScene, Others
  <2>2. CASE ~(InScene(p) /\ q \notin mapped[p])
    BY <1>4, <2>2, PortalKept DEF OnPeerRejoined
  <2> QED BY <2>1, <2>2
<1>5. CASE ReceiveAward(p, q)
  BY <1>5, PortalKept DEF ReceiveAward
<1>6. CASE \E b \in wire[q][p] : ReceiveBall(p, q, b)
  BY <1>6, PortalKept DEF ReceiveBall
<1> QED BY <1>0, <1>1, <1>2, <1>3, <1>4, <1>5, <1>6

LEMMA ProcessPortal ==
    ASSUME TypeOK, OpenChannelHasPortal, NEW p \in Players, ProcessNext(p)
    PROVE  OpenChannelHasPortal'
<1>1. CASE EnterScene(p)
  BY <1>1, EnterPortal DEF EnterScene
<1>2. CASE ProcessDies(p)
  BY <1>2, StopsPortal DEF ProcessDies
<1>3. CASE LeavesForGood(p)
  BY <1>3, StopsPortal DEF LeavesForGood
<1>4. CASE Rejoins(p)
  <2>1. proc'[p] = "preparing" /\ mapped' = mapped
    BY <1>4 DEF Rejoins, TypeOK
  <2>2. \A q \in Players \ {p} : proc'[q] = proc[q] /\ link'[q] = link[q]
    BY <1>4 DEF Rejoins, TypeOK
  <2> QED BY <2>1, <2>2 DEF OpenChannelHasPortal, InScene
<1>5. CASE SocketBlips(p)
  BY <1>5, PortalKept DEF SocketBlips
<1> QED BY <1>1, <1>2, <1>3, <1>4, <1>5 DEF ProcessNext

LEMMA NextPortal == TypeOK /\ OpenChannelHasPortal /\ [Next]_vars => OpenChannelHasPortal'
<1> SUFFICES ASSUME TypeOK, OpenChannelHasPortal, [Next]_vars
             PROVE  OpenChannelHasPortal'
  OBVIOUS
<1>1. CASE MatchStarts
  BY <1>1, EnterPortal DEF MatchStarts
<1>2. CASE MatchForced
  BY <1>2, EnterPortal DEF MatchForced, Ready
<1>3. ASSUME NEW p \in Players, BallNext(p) \/ UseItem(p)
      PROVE  OpenChannelHasPortal'
  BY <1>3, PortalKept DEF BallNext, PaddleHit, Goal, Splits, Pickup, Handoff, UseItem
<1>4. CASE \E p \in Players : MeshNext(p) \/ ProcessNext(p)
  BY <1>4, MeshPortal, ProcessPortal
<1>5. CASE UNCHANGED vars
  BY <1>5, PortalKept DEF vars
<1> QED BY <1>1, <1>2, <1>3, <1>4, <1>5 DEF Next

LEMMA InitPortal == Init => OpenChannelHasPortal
BY DEF Init, OpenChannelHasPortal, InScene

\* Through every loss, failure and rejoin, a screen that can be sent to has the
\* portal that takes the ball in.
THEOREM WorkingChannelsEnterScreens == Spec => []OpenChannelHasPortal
BY InitTyped, NextTyped, InitPortal, NextPortal, PTL DEF Spec

-----------------------------------------------------------------------------
(* What a step does to the balls *)

\* What p's process has used of its seat's block.
Counts(p) == 1000 * epoch[p] + made[p]

Keeps == made' = made /\ births' = births

\* None either, though a new process counts from zero, in a range of its own.
Restarts ==
    /\ births' = births
    /\ \A p \in Players :
          \/ epoch'[p] = epoch[p] /\ made'[p] = made[p]
          \/ epoch'[p] = epoch[p] + 1 /\ made'[p] = 0

\* No ball is made or moved.
Shrinks ==
    /\ Restarts
    /\ \A x, y \in Players : Held(x, y)' \subseteq Held(x, y)

\* One hop, or none: out through a channel or in from it.
Hop(p, q, r, s) ==
    \/ p = r /\ q = s
    \/ p = q /\ p = r /\ r # s
    \/ p # q /\ r = q /\ s = q

\* Ball b, held from p to q, goes, and only c, held from r to s, appears.
Exchanges(p, q, b, r, s, c) ==
    /\ b \in Held(p, q)
    /\ \A x, y \in Players : \A d \in Held(x, y)' :
          \/ d \in Held(x, y) /\ ~(x = p /\ y = q /\ d = b)
          \/ x = r /\ y = s /\ d = c

\* It becomes c on its way.
Passes(p, q, b, r, s, c) ==
    /\ Exchanges(p, q, b, r, s, c) /\ Hop(p, q, r, s)
    /\ c.kind = b.kind /\ c \in Held(r, s)'

\* The same ball, elsewhere or hit by another.
Moves ==
    /\ Keeps /\ epoch' = epoch
    /\ \E p, q, r, s \in Players : \E b, c \in Ball : Passes(p, q, b, r, s, c) /\ c.id = b.id

\* A lost master comes back to the paddle of the player it passed.
Reserves ==
    /\ epoch' = epoch
    /\ \E p \in Players : \E b \in Ball :
          /\ Passes(p, p, b, p, p, ServeBall(p))
          /\ Makes(p, 1) /\ Room(1)

Grows ==
    /\ epoch' = epoch
    /\ \E p \in Players : \E b \in Held(p, p) :
          /\ Makes(p, SplitBallCount) /\ Room(SplitBallCount)
          /\ \A x, y \in Players : \A d \in Held(x, y)' :
                \/ d \in Held(x, y)
                \/ /\ x = p /\ y = p
                   /\ \E k \in 0 .. SplitBallCount - 1 : d = NewBall(p, k, "split", b.hitter)

FirstServe ==
    /\ epoch' = epoch /\ births = 0 /\ Makes(Host, 1) /\ proc'[Host] = "scene"
    /\ ServeBall(Host) \in Held(Host, Host)'
    /\ \A x, y \in Players : \A d \in Held(x, y)' :
          d \in Held(x, y) \/ (x = Host /\ y = Host /\ d = ServeBall(Host))

\* A host that still has to serve: no ball was ever made.
HostWaits ==
    /\ proc[Host] = "preparing" /\ fresh[Host] => births = 0
    /\ \A p \in Players : proc[p] = "dead" => ~fresh[p]

LEMMA KeepsRestarts == Keeps /\ epoch' = epoch => Restarts
BY DEF Keeps, Restarts

LEMMA HeldTyped == BallsOK => \A p, q \in Players : Held(p, q) \subseteq Ball
BY DEF BallsOK, Held

\* A packet into a channel: it is the only one that can appear.
LEMMA HeldSent ==
    ASSUME BallsOK, NEW p \in Players, NEW q \in Players, NEW k \in Ball \cup {Award}
    PROVE  /\ \A x, y \in Players : \A d \in Sent(p, q, k)[x][y] :
                 d \in wire[x][y] \/ (x = p /\ y = q /\ d = k)
           /\ \A x, y \in Players : wire[x][y] \subseteq Sent(p, q, k)[x][y]
           /\ Linked(p, q) => k \in Sent(p, q, k)[p][q]
           /\ ~Linked(p, q) => Sent(p, q, k) = wire
BY DEF Sent, BallsOK, Linked

LEMMA HeldIn ==
    /\ \A x, y, d : d \in Held(x, y) <=> IF x = y THEN d \in balls[x]
                                                  ELSE d \in wire[x][y] /\ d # Award
    /\ \A x, y, d : d \in Held(x, y)' <=> IF x = y THEN d \in balls'[x]
                                                   ELSE d \in wire'[x][y] /\ d # Award
BY DEF Held, Award

\* The balls change on one screen only: what has appeared is on it.
LEMMA HeldOnScreen ==
    ASSUME BallsOK, NEW p \in Players, NEW s, WithBalls(p, s), UNCHANGED wire
    PROVE  /\ \A x, y \in Players : ~(x = p /\ y = p) => Held(x, y)' = Held(x, y)
           /\ Held(p, p)' = s /\ Held(p, p) = balls[p]
<1>1. \A x \in Players : balls'[x] = IF x = p THEN s ELSE balls[x]
  BY DEF WithBalls, BallsOK
<1>2. wire' = wire
  OBVIOUS
<1> QED BY <1>1, <1>2 DEF Held, Award

LEMMA HeldKept ==
    UNCHANGED <<balls, wire>> => \A x, y : Held(x, y)' = Held(x, y)
BY DEF Held, Award

LEMMA StepPaddleHit ==
    ASSUME TypeOK, NEW p \in Players, NEW b \in balls[p], PaddleHit(p, b)
    PROVE  Moves
<1> DEFINE c == [b EXCEPT !.hitter = p]
<1>1. b \in Ball /\ b \in Held(p, p)
  BY TypeParts, HeldIn DEF BallsOK
<1>2. c \in Ball /\ c.id = b.id /\ c.kind = b.kind
  BY <1>1 DEF Ball
<1>3. /\ \A x, y \in Players : ~(x = p /\ y = p) => Held(x, y)' = Held(x, y)
      /\ Held(p, p)' = (Held(p, p) \ {b}) \cup {c}
  BY TypeParts, HeldOnScreen DEF PaddleHit
<1>4. Keeps /\ epoch' = epoch
  BY DEF PaddleHit, Keeps
<1> HIDE DEF c
<1>5. Passes(p, p, b, p, p, c)
  BY <1>1, <1>2, <1>3 DEF Passes, Exchanges, Hop
<1> QED BY <1>1, <1>2, <1>4, <1>5 DEF Moves

LEMMA StepGoal ==
    ASSUME TypeOK, NEW p \in Players, NEW b \in balls[p], Goal(p, b)
    PROVE  Shrinks \/ Reserves
<1>1. b \in Ball /\ b \in Held(p, p)
  BY TypeParts, HeldIn DEF BallsOK
<1>2. CASE b.kind = "master"
  <2>1. /\ \A x, y \in Players : ~(x = p /\ y = p) => Held(x, y)' = Held(x, y)
        /\ Held(p, p)' = (Held(p, p) \ {b}) \cup {ServeBall(p)}
    BY <1>2, TypeParts, HeldOnScreen DEF Goal
  <2>2. ServeBall(p).kind = "master"
    BY TypeParts, ServeBallTyped
  <2>3. Passes(p, p, b, p, p, ServeBall(p))
    BY <1>1, <1>2, <2>1, <2>2 DEF Passes, Exchanges, Hop
  <2> QED BY <1>1, <1>2, <2>3 DEF Reserves, Goal
<1>3. CASE b.kind # "master"
  <2>1. /\ \A x, y \in Players : ~(x = p /\ y = p) => Held(x, y)' = Held(x, y)
        /\ Held(p, p)' = Held(p, p) \ {b}
    BY <1>3, TypeParts, HeldOnScreen DEF Goal
  <2>2. Keeps /\ epoch' = epoch
    BY <1>3 DEF Goal, Keeps
  <2> QED BY <2>1, <2>2, KeepsRestarts DEF Shrinks
<1> QED BY <1>2, <1>3

LEMMA StepSplits ==
    ASSUME TypeOK, NEW p \in Players, NEW b \in balls[p], Splits(p, b)
    PROVE  Grows
<1>1. b \in Held(p, p)
  BY TypeParts, HeldIn DEF BallsOK
<1>2. /\ \A x, y \in Players : ~(x = p /\ y = p) => Held(x, y)' = Held(x, y)
      /\ Held(p, p)' = Held(p, p) \cup {NewBall(p, k, "split", b.hitter) :
                                          k \in 0 .. SplitBallCount - 1}
  BY TypeParts, HeldOnScreen DEF Splits
<1>3. Makes(p, SplitBallCount) /\ Room(SplitBallCount) /\ epoch' = epoch
  BY DEF Splits
<1>4. \A x, y \in Players : \A d \in Held(x, y)' :
         \/ d \in Held(x, y)
         \/ /\ x = p /\ y = p
            /\ \E k \in 0 .. SplitBallCount - 1 : d = NewBall(p, k, "split", b.hitter)
  BY <1>2
<1> QED BY <1>1, <1>3, <1>4 DEF Grows

LEMMA StepPickup ==
    ASSUME TypeOK, NEW p \in Players, NEW b \in balls[p], Pickup(p, b)
    PROVE  Shrinks
<1>1. b.hitter \in Players
  BY TypeParts, BallFields DEF BallsOK, Pickup
<1>2. \A x, y \in Players : \A d \in wire'[x][y] : d \in wire[x][y] \/ d = Award
  BY <1>1, TypeParts, HeldSent DEF Pickup
<1>3. balls' = balls /\ Keeps /\ epoch' = epoch
  BY DEF Pickup, Keeps
<1>4. \A x, y \in Players : Held(x, y)' \subseteq Held(x, y)
  BY <1>2, <1>3, HeldIn
<1> QED BY <1>3, <1>4, KeepsRestarts DEF Shrinks

LEMMA StepHandoff ==
    ASSUME TypeOK, NEW p \in Players, NEW b \in balls[p], NEW q \in Players, Handoff(p, b, q)
    PROVE  Shrinks \/ Moves
<1>1. b \in Ball /\ b \in Held(p, p) /\ p # q /\ b # Award
  BY TypeParts, HeldIn, AwardIsNoBall DEF BallsOK, MeshOK, Handoff
<1>2. Keeps /\ epoch' = epoch
  BY DEF Handoff, Keeps
<1>3. \A x \in Players : balls'[x] = IF x = p THEN balls[p] \ {b} ELSE balls[x]
  BY TypeParts DEF Handoff, WithBalls, BallsOK
<1>4. wire' = Sent(p, q, b)
  BY DEF Handoff
<1>5. /\ \A x, y \in Players : \A d \in wire'[x][y] : d \in wire[x][y] \/ (x = p /\ y = q /\ d = b)
      /\ Linked(p, q) => b \in wire'[p][q]
      /\ ~Linked(p, q) => wire' = wire
  BY <1>1, <1>4, TypeParts, HeldSent
<1>6. CASE Linked(p, q)
  <2>1. b \in Held(p, q)'
    BY <1>1, <1>5, <1>6, HeldIn
  <2>2. ASSUME NEW x \in Players, NEW y \in Players, NEW d \in Held(x, y)'
        PROVE  \/ d \in Held(x, y) /\ ~(x = p /\ y = p /\ d = b)
               \/ x = p /\ y = q /\ d = b
    BY <1>3, <1>5, HeldIn
  <2>3. Passes(p, p, b, p, q, b)
    BY <1>1, <2>1, <2>2 DEF Passes, Exchanges, Hop
  <2> QED BY <1>1, <1>2, <2>3 DEF Moves
<1>7. CASE ~Linked(p, q)
  <2>1. \A x, y \in Players : Held(x, y)' \subseteq Held(x, y)
    BY <1>3, <1>5, <1>7, HeldIn
  <2> QED BY <1>2, <2>1, KeepsRestarts DEF Shrinks
<1> QED BY <1>6, <1>7

LEMMA StepReceiveBall ==
    ASSUME TypeOK, NEW p \in Players, NEW q \in Others(p), NEW b \in wire[q][p],
           ReceiveBall(p, q, b)
    PROVE  Shrinks \/ Moves
<1>1. q \in Players /\ p # q /\ b \in Ball /\ b # Award /\ b \in Held(q, p)
  BY TypeParts, HeldIn DEF BallsOK, ReceiveBall, Others
<1>2. Keeps /\ epoch' = epoch
  BY DEF ReceiveBall, Keeps
<1>3. \A x, y \in Players :
         wire'[x][y] = IF x = q /\ y = p THEN wire[q][p] \ {b} ELSE wire[x][y]
  BY <1>1, TypeParts DEF ReceiveBall, BallsOK
<1>4. CASE balls' = balls
  <2>1. \A x, y \in Players : Held(x, y)' \subseteq Held(x, y)
    BY <1>1, <1>3, <1>4, HeldIn
  <2> QED BY <1>2, <2>1, KeepsRestarts DEF Shrinks
<1>5. CASE balls' # balls
  <2>1. \A x \in Players : balls'[x] = IF x = p THEN balls[p] \cup {b} ELSE balls[x]
    BY <1>5, TypeParts DEF ReceiveBall, WithBalls, BallsOK
  <2>2. b \in Held(p, p)'
    BY <2>1, HeldIn
  <2>3. ASSUME NEW x \in Players, NEW y \in Players, NEW d \in Held(x, y)'
        PROVE  \/ d \in Held(x, y) /\ ~(x = q /\ y = p /\ d = b)
               \/ x = p /\ y = p /\ d = b
    BY <1>1, <1>3, <2>1, HeldIn
  <2>4. Passes(q, p, b, p, p, b)
    BY <1>1, <2>2, <2>3 DEF Passes, Exchanges, Hop
  <2> QED BY <1>1, <1>2, <2>4 DEF Moves
<1> QED BY <1>4, <1>5

LEMMA StepEnter ==
    ASSUME TypeOK, HostWaits, NEW ps \in SUBSET Ready, Enter(ps, Fresh)
    PROVE  Shrinks \/ FirstServe
<1>1. epoch' = epoch /\ wire' = wire
  BY DEF Enter
<1>2. CASE Host \in ps \cap Fresh
  <2>1. proc[Host] = "preparing" /\ fresh[Host]
    BY <1>2 DEF Ready, Fresh
  <2>2. births = 0 /\ WithBalls(Host, {ServeBall(Host)}) /\ Makes(Host, 1)
    BY <1>2, <2>1 DEF Enter, HostWaits
  <2>3. /\ \A x, y \in Players : ~(x = Host /\ y = Host) => Held(x, y)' = Held(x, y)
        /\ Held(Host, Host)' = {ServeBall(Host)}
    BY <1>1, <2>2, Seats, TypeParts, HeldOnScreen
  <2>4. proc'[Host] = "scene"
    BY <1>2, Seats DEF Enter
  <2> QED BY <1>1, <2>2, <2>3, <2>4 DEF FirstServe
<1>3. CASE Host \notin ps \cap Fresh
  <2>1. UNCHANGED <<balls, made, births>>
    BY <1>3 DEF Enter
  <2> QED BY <1>1, <2>1, HeldKept DEF Shrinks, Restarts
<1> QED BY <1>2, <1>3

LEMMA StepStops ==
    ASSUME TypeOK, NEW p \in Players, NEW state, Stops(p, state)
    PROVE  \A x, y \in Players : Held(x, y)' \subseteq Held(x, y)
<1>1. \A x \in Players : balls'[x] \subseteq balls[x]
  BY TypeParts DEF Stops, BallsOK
<1>2. \A x, y \in Players : wire'[x][y] \subseteq wire[x][y]
  BY TypeParts DEF Stops, BallsOK
<1> QED BY <1>1, <1>2, HeldIn

\* The channels only lose what they carried.
LEMMA StepDrains ==
    ASSUME TypeOK, UNCHANGED <<balls, made, births, epoch>>,
           \A x, y \in Players : wire'[x][y] \subseteq wire[x][y]
    PROVE  Shrinks
<1>1. \A x, y \in Players : Held(x, y)' \subseteq Held(x, y)
  BY HeldIn
<1> QED BY <1>1 DEF Shrinks, Restarts

LEMMA LoseLinkDrains ==
    ASSUME TypeOK, NEW p \in Players, NEW q \in Players, LoseLink(p, q)
    PROVE  \A x, y \in Players : wire'[x][y] \subseteq wire[x][y]
BY DEF LoseLink, TypeOK

LEMMA StepMesh ==
    ASSUME TypeOK, NEW p \in Players, MeshNext(p)
    PROVE  Shrinks \/ Moves
<1>0. PICK q \in Others(p) :
           \/ LinkOpens(p, q) \/ LinkBreaks(p, q) \/ LinkFoundDead(p, q) \/ OnPeerRejoined(p, q)
           \/ ReceiveAward(p, q)
           \/ \E b \in wire[q][p] : ReceiveBall(p, q, b)
  BY DEF MeshNext
<1>q. q \in Players
  BY DEF Others
<1>1. CASE LinkOpens(p, q)
  BY <1>1, StepDrains DEF LinkOpens
<1>2. CASE LinkBreaks(p, q)
  BY <1>2, <1>q, LoseLinkDrains, StepDrains DEF LinkBreaks
<1>3. CASE LinkFoundDead(p, q)
  BY <1>3, <1>q, LoseLinkDrains, StepDrains DEF LinkFoundDead
<1>4. CASE OnPeerRejoined(p, q)
  <2>1. UNCHANGED <<balls, made, births, epoch>>
    BY <1>4 DEF OnPeerRejoined
  <2>2. wire' = wire \/ wire' = [wire EXCEPT ![q][p] = {}, ![p][q] = {}]
    BY <1>4 DEF OnPeerRejoined
  <2>3. \A x, y \in Players : wire'[x][y] \subseteq wire[x][y]
    <3> DEFINE drained == [wire EXCEPT ![q][p] = {}]
    <3>1. /\ drained \in [Players -> [Players -> SUBSET (Ball \cup {Award})]]
          /\ \A x, y \in Players : drained[x][y] \subseteq wire[x][y]
      BY <1>q, EmptiedTyped, TypeParts DEF TypeOK
    <3>2. wire' = wire \/ wire' = [drained EXCEPT ![p][q] = {}]
      BY <2>2
    <3> HIDE DEF drained
    <3> QED BY <1>q, <3>1, <3>2
  <2> QED BY <2>1, <2>3, StepDrains
<1>5. CASE ReceiveAward(p, q)
  <2>1. \A x, y \in Players : wire'[x][y] \subseteq wire[x][y]
    BY <1>5, <1>q DEF ReceiveAward, TypeOK
  <2> QED BY <1>5, <2>1, StepDrains DEF ReceiveAward
<1>6. CASE \E b \in wire[q][p] : ReceiveBall(p, q, b)
  BY <1>6, StepReceiveBall
<1> QED BY <1>0, <1>1, <1>2, <1>3, <1>4, <1>5, <1>6

LEMMA StepProcess ==
    ASSUME TypeOK, HostWaits, NEW p \in Players, ProcessNext(p)
    PROVE  Shrinks \/ FirstServe
<1>1. CASE EnterScene(p)
  BY <1>1, StepEnter DEF EnterScene
<1>2. CASE ProcessDies(p)
  BY <1>2, StepStops DEF ProcessDies, Shrinks, Restarts
<1>3. CASE LeavesForGood(p)
  BY <1>3, StepStops DEF LeavesForGood, Shrinks, Restarts
<1>4. CASE Rejoins(p)
  <2>1. \A q \in Players :
           \/ epoch'[q] = epoch[q] /\ made'[q] = made[q]
           \/ epoch'[q] = epoch[q] + 1 /\ made'[q] = 0
    BY <1>4, TypeParts DEF Rejoins, ProcsOK, BallsOK
  <2> QED BY <1>4, <2>1, HeldKept DEF Rejoins, Shrinks, Restarts
<1>5. CASE SocketBlips(p)
  BY <1>5, StepDrains DEF SocketBlips
<1> QED BY <1>1, <1>2, <1>3, <1>4, <1>5 DEF ProcessNext

\* Every step of the match, as far as the balls can tell.
LEMMA StepKinds ==
    ASSUME TypeOK, HostWaits, [Next]_vars
    PROVE  Shrinks \/ Moves \/ Reserves \/ Grows \/ FirstServe
<1>1. CASE MatchStarts
  BY <1>1, StepEnter DEF MatchStarts
<1>2. CASE MatchForced
  BY <1>2, StepEnter DEF MatchForced
<1>3. ASSUME NEW p \in Players, BallNext(p)
      PROVE  Shrinks \/ Moves \/ Reserves \/ Grows \/ FirstServe
  BY <1>3, StepPaddleHit, StepGoal, StepSplits, StepPickup, StepHandoff DEF BallNext
<1>4. ASSUME NEW p \in Players, UseItem(p)
      PROVE  Shrinks
  BY <1>4, StepDrains DEF UseItem
<1>5. CASE \E p \in Players : MeshNext(p) \/ ProcessNext(p)
  BY <1>5, StepMesh, StepProcess
<1>6. CASE UNCHANGED vars
  BY <1>6, StepDrains DEF vars
<1> QED BY <1>1, <1>2, <1>3, <1>4, <1>5, <1>6 DEF Next

-----------------------------------------------------------------------------
(* Ids *)

\* Bounds and counters.
Counted ==
    /\ \A p \in Players : made[p] <= births
    /\ births <= MaxBalls \/ births <= 1

Aged == \A p \in Players : epoch[p] + (IF proc[p] = "dead" THEN 1 ELSE 0) <= faults

EmptyBefore == births = 0 => \A p, q \in Players : Held(p, q) = {}

IdsBelow ==
    \A p, q \in Players : \A d \in Held(p, q) :
       \E s \in Players : \E n \in Nat : n < Counts(s) /\ d.id = 1000000 * s + n

Distinct ==
    \A p, q, r, s \in Players : \A a \in Held(p, q), b \in Held(r, s) :
       a.id = b.id => p = r /\ q = s /\ a = b

OneMaster ==
    \A p, q, r, s \in Players : \A a \in Held(p, q), b \in Held(r, s) :
       a.kind = "master" /\ b.kind = "master" => p = r /\ q = s /\ a = b

BallInv == HostWaits /\ Counted /\ Aged /\ EmptyBefore /\ IdsBelow /\ Distinct /\ OneMaster

\* A seat's ids stay in the seat's block.
LEMMA InBlock ==
    ASSUME TypeOK, Counted, Aged
    PROVE  \A p \in Players : Counts(p) \in Nat /\ Counts(p) < 1000000
<1> SUFFICES ASSUME NEW p \in Players
             PROVE  Counts(p) \in Nat /\ Counts(p) < 1000000
  OBVIOUS
<1>1. epoch[p] \in Nat /\ made[p] \in Nat /\ births \in Nat /\ faults \in Nat /\ faults <= MaxFaults
  BY Bounds DEF TypeOK
<1>2. epoch[p] <= MaxFaults /\ made[p] <= births
  BY <1>1, Bounds DEF Counted, Aged
<1> QED BY <1>1, <1>2, Bounds, BlockAssumption DEF Counts, Counted

\* A new id is no held ball's.
LEMMA NewIdIsFree ==
    ASSUME TypeOK, Counted, Aged, IdsBelow, NEW p \in Players, NEW n \in Nat, Room(n) \/ (n = 1 /\ births = 0),
           NEW k \in 0 .. n - 1
    PROVE  /\ NextBallId(p, k) = 1000000 * p + (Counts(p) + k)
           /\ Counts(p) + k < 1000000
           /\ \A x, y \in Players : \A d \in Held(x, y) : d.id # NextBallId(p, k)
<1>1. /\ epoch[p] \in Nat /\ made[p] \in Nat /\ births \in Nat /\ faults \in Nat
      /\ faults <= MaxFaults /\ p \in Nat /\ k \in Nat
  BY Bounds, Seats DEF TypeOK
<1>2. epoch[p] <= MaxFaults /\ made[p] <= births
  BY <1>1, Bounds DEF Counted, Aged
<1>3. NextBallId(p, k) = 1000000 * p + (Counts(p) + k)
  BY <1>1 DEF NextBallId, Counts
<1>4. Counts(p) + k < 1000000 /\ Counts(p) \in Nat
  BY <1>1, <1>2, Bounds, BlockAssumption DEF Counts, Room
<1>5. ASSUME NEW x \in Players, NEW y \in Players, NEW d \in Held(x, y)
      PROVE  d.id # NextBallId(p, k)
  <2>1. PICK s \in Players, n1 \in Nat : n1 < Counts(s) /\ d.id = 1000000 * s + n1
    BY DEF IdsBelow
  <2>2. Counts(s) < 1000000 /\ Counts(s) \in Nat /\ s \in Nat
    BY InBlock, Seats
  <2>3. CASE s = p
    BY <1>1, <1>3, <1>4, <2>1, <2>2, <2>3
  <2>4. CASE s # p
    BY <1>1, <1>3, <1>4, <2>1, <2>2, <2>4
  <2> QED BY <2>3, <2>4
<1> QED BY <1>3, <1>4, <1>5

LEMMA MakesCounts ==
    ASSUME TypeOK, NEW p \in Players, NEW n \in Nat, Makes(p, n), UNCHANGED epoch
    PROVE  /\ \A s \in Players : Counts(s) \in Nat /\ Counts(s)' = Counts(s) + (IF s = p THEN n ELSE 0)
           /\ \A s \in Players : made'[s] = made[s] + (IF s = p THEN n ELSE 0)
           /\ births' = births + n
<1>1. \A s \in Players : made[s] \in Nat /\ epoch[s] \in Nat
  BY DEF TypeOK
<1>2. \A s \in Players : made'[s] = made[s] + (IF s = p THEN n ELSE 0)
  BY <1>1 DEF Makes, TypeOK
<1>3. \A s \in Players : Counts(s) = 1000 * epoch[s] + made[s] /\ Counts(s)' = 1000 * epoch[s] + made'[s]
  BY DEF Counts
<1> QED BY <1>1, <1>2, <1>3 DEF Makes

\* A new process starts above all that its seat's earlier ones have used.
LEMMA RestartCounts ==
    ASSUME TypeOK, TypeOK', Counted, Restarts
    PROVE  \A s \in Players : Counts(s) \in Nat /\ Counts(s)' \in Nat /\ Counts(s)' >= Counts(s)
<1> SUFFICES ASSUME NEW s \in Players
             PROVE  Counts(s) \in Nat /\ Counts(s)' \in Nat /\ Counts(s)' >= Counts(s)
  OBVIOUS
<1>1. /\ made[s] \in Nat /\ epoch[s] \in Nat /\ made'[s] \in Nat /\ epoch'[s] \in Nat
      /\ births \in Nat
  BY DEF TypeOK
<1>2. made[s] < 1000
  BY <1>1, Bounds, BlockAssumption DEF Counted
<1>3. Counts(s) = 1000 * epoch[s] + made[s] /\ Counts(s)' = 1000 * epoch'[s] + made'[s]
  BY DEF Counts
<1>4. \/ epoch'[s] = epoch[s] /\ made'[s] = made[s]
      \/ epoch'[s] = epoch[s] + 1 /\ made'[s] = 0
  BY DEF Restarts
<1> QED BY <1>1, <1>2, <1>3, <1>4

LEMMA MovesRestarts == Moves => Restarts
BY KeepsRestarts DEF Moves

LEMMA SplitTyped ==
    ASSUME TypeOK, NEW p \in Players, NEW b \in Held(p, p), NEW k \in 0 .. SplitBallCount - 1
    PROVE  /\ NewBall(p, k, "split", b.hitter).id = NextBallId(p, k)
           /\ NewBall(p, k, "split", b.hitter).kind = "split"
BY DEF NewBall

LEMMA ShrinksIds ==
    ASSUME TypeOK, TypeOK', Counted, IdsBelow, Shrinks
    PROVE  IdsBelow'
<1> SUFFICES ASSUME NEW p \in Players, NEW q \in Players, NEW d \in Held(p, q)'
             PROVE  \E s \in Players : \E n \in Nat : n < Counts(s)' /\ d.id = 1000000 * s + n
  BY DEF IdsBelow
<1>1. PICK s \in Players, n \in Nat : n < Counts(s) /\ d.id = 1000000 * s + n
  BY DEF Shrinks, IdsBelow
<1> QED BY <1>1, RestartCounts DEF Shrinks

LEMMA MovesIds ==
    ASSUME TypeOK, TypeOK', Counted, IdsBelow, Moves
    PROVE  IdsBelow'
<1> SUFFICES ASSUME NEW p \in Players, NEW q \in Players, NEW d \in Held(p, q)'
             PROVE  \E s \in Players : \E n \in Nat : n < Counts(s)' /\ d.id = 1000000 * s + n
  BY DEF IdsBelow
<1>1. \E x, y \in Players : \E b \in Held(x, y) : d.id = b.id
  BY DEF Moves, Passes, Exchanges
<1>2. PICK s \in Players, n \in Nat : n < Counts(s) /\ d.id = 1000000 * s + n
  BY <1>1 DEF IdsBelow
<1> QED BY <1>2, RestartCounts, MovesRestarts

\* Balls made on one screen.
LEMMA MakesIds ==
    ASSUME TypeOK, Counted, Aged, IdsBelow, NEW p \in Players, NEW n \in Nat, Makes(p, n),
           UNCHANGED epoch, Room(n) \/ (n = 1 /\ births = 0),
           \A x, y \in Players : \A d \in Held(x, y)' :
              d \in Held(x, y) \/ \E k \in 0 .. n - 1 : d.id = NextBallId(p, k)
    PROVE  IdsBelow'
<1> SUFFICES ASSUME NEW x \in Players, NEW y \in Players, NEW d \in Held(x, y)'
             PROVE  \E s \in Players : \E m \in Nat : m < Counts(s)' /\ d.id = 1000000 * s + m
  BY DEF IdsBelow
<1>1. CASE d \in Held(x, y)
  <2>1. PICK s \in Players, m \in Nat : m < Counts(s) /\ d.id = 1000000 * s + m
    BY <1>1 DEF IdsBelow
  <2> QED BY <2>1, MakesCounts
<1>2. ASSUME NEW k \in 0 .. n - 1, d.id = NextBallId(p, k)
      PROVE  \E s \in Players : \E m \in Nat : m < Counts(s)' /\ d.id = 1000000 * s + m
  <2>1. d.id = 1000000 * p + (Counts(p) + k)
    BY <1>2, NewIdIsFree
  <2>2. Counts(p) + k \in Nat /\ Counts(p) + k < Counts(p)'
    BY MakesCounts
  <2> QED BY <2>1, <2>2
<1> QED BY <1>1, <1>2

LEMMA ReservesNew ==
    ASSUME TypeOK, Reserves
    PROVE  \E p \in Players : \E b \in Held(p, p) :
              /\ Makes(p, 1) /\ Room(1)
              /\ ServeBall(p).id = NextBallId(p, 0)
              /\ ServeBall(p).kind = "master" /\ b.kind = "master"
              /\ Exchanges(p, p, b, p, p, ServeBall(p))
<1>1. PICK p \in Players, b \in Ball :
           Passes(p, p, b, p, p, ServeBall(p)) /\ Makes(p, 1) /\ Room(1)
  BY DEF Reserves
<1>2. ServeBall(p).id = NextBallId(p, 0) /\ ServeBall(p).kind = "master"
  BY ServeBallTyped, TypeParts
<1> QED BY <1>1, <1>2 DEF Passes, Exchanges

LEMMA KindsIds ==
    ASSUME TypeOK, TypeOK', Counted, Aged, IdsBelow,
           Shrinks \/ Moves \/ Reserves \/ Grows \/ FirstServe
    PROVE  IdsBelow'
<1>1. CASE Reserves
  <2>1. PICK p \in Players : \E b \in Held(p, p) :
              /\ Makes(p, 1) /\ Room(1)
              /\ ServeBall(p).id = NextBallId(p, 0)
              /\ Exchanges(p, p, b, p, p, ServeBall(p))
    BY <1>1, ReservesNew
  <2>2. \A x, y \in Players : \A d \in Held(x, y)' :
           d \in Held(x, y) \/ \E k \in 0 .. 1 - 1 : d.id = NextBallId(p, k)
    BY <2>1 DEF Exchanges
  <2>3. UNCHANGED epoch
    BY <1>1 DEF Reserves
  <2> QED BY <2>1, <2>2, <2>3, MakesIds
<1>2. CASE Grows
  <2>1. PICK p \in Players : \E b \in Held(p, p) :
          /\ Makes(p, SplitBallCount) /\ Room(SplitBallCount)
          /\ \A x, y \in Players : \A d \in Held(x, y)' :
                \/ d \in Held(x, y)
                \/ /\ x = p /\ y = p
                   /\ \E k \in 0 .. SplitBallCount - 1 : d = NewBall(p, k, "split", b.hitter)
    BY <1>2 DEF Grows
  <2>2. \A x, y \in Players : \A d \in Held(x, y)' :
           d \in Held(x, y) \/ \E k \in 0 .. SplitBallCount - 1 : d.id = NextBallId(p, k)
    BY <2>1, SplitTyped
  <2>3. UNCHANGED epoch
    BY <1>2 DEF Grows
  <2> QED BY <2>1, <2>2, <2>3, MakesIds, Bounds
<1>3. CASE FirstServe
  <2>1. ServeBall(Host).id = NextBallId(Host, 0)
    BY ServeBallTyped, TypeParts, Seats
  <2>2. \A x, y \in Players : \A d \in Held(x, y)' :
           d \in Held(x, y) \/ \E k \in 0 .. 1 - 1 : d.id = NextBallId(Host, k)
    BY <1>3, <2>1 DEF FirstServe
  <2>3. UNCHANGED epoch /\ Makes(Host, 1) /\ births = 0
    BY <1>3 DEF FirstServe
  <2> QED BY <2>2, <2>3, MakesIds, Seats
<1> QED BY <1>1, <1>2, <1>3, ShrinksIds, MovesIds

LEMMA DistinctFrom ==
    ASSUME Distinct, NEW p \in Players, NEW q \in Players, NEW r \in Players,
           NEW s \in Players, NEW b, NEW c, c.id = b.id, Exchanges(p, q, b, r, s, c)
    PROVE  Distinct'
<1> SUFFICES ASSUME NEW w \in Players, NEW x \in Players, NEW y \in Players, NEW z \in Players,
                    NEW d \in Held(w, x)', NEW e \in Held(y, z)', d.id = e.id
             PROVE  w = y /\ x = z /\ d = e
  BY DEF Distinct
<1>0. b \in Held(p, q)
  BY DEF Exchanges
<1>1. CASE d \in Held(w, x) /\ ~(w = p /\ x = q /\ d = b)
  <2>1. CASE e \in Held(y, z)
    BY <1>1, <2>1 DEF Distinct
  <2>2. CASE e = c
    BY <1>0, <1>1, <2>2 DEF Distinct
  <2> QED BY <2>1, <2>2 DEF Exchanges
<1>2. CASE w = r /\ x = s /\ d = c
  <2>1. CASE e \in Held(y, z) /\ ~(y = p /\ z = q /\ e = b)
    BY <1>0, <1>2, <2>1 DEF Distinct
  <2>2. CASE y = r /\ z = s /\ e = c
    BY <1>2, <2>2
  <2> QED BY <2>1, <2>2 DEF Exchanges
<1> QED BY <1>1, <1>2 DEF Exchanges

\* New ids, each used once, on one screen.
LEMMA DistinctNew ==
    ASSUME TypeOK, Counted, Aged, IdsBelow, Distinct, NEW p \in Players, NEW n \in Nat,
           Room(n) \/ (n = 1 /\ births = 0), NEW fan,
           \A k \in 0 .. n - 1 : fan[k].id = NextBallId(p, k),
           \A x, y \in Players : \A d \in Held(x, y)' :
              \/ d \in Held(x, y)
              \/ x = p /\ y = p /\ \E k \in 0 .. n - 1 : d = fan[k]
    PROVE  Distinct'
<1> SUFFICES ASSUME NEW w \in Players, NEW x \in Players, NEW y \in Players, NEW z \in Players,
                    NEW d \in Held(w, x)', NEW e \in Held(y, z)', d.id = e.id
             PROVE  w = y /\ x = z /\ d = e
  BY DEF Distinct
<1>1. CASE d \in Held(w, x) /\ e \in Held(y, z)
  BY <1>1 DEF Distinct
<1>2. ASSUME NEW k \in 0 .. n - 1, d = fan[k], e \in Held(y, z)
      PROVE  FALSE
  BY <1>2, NewIdIsFree
<1>3. ASSUME NEW k \in 0 .. n - 1, e = fan[k], d \in Held(w, x)
      PROVE  FALSE
  BY <1>3, NewIdIsFree
<1>4. ASSUME NEW j \in 0 .. n - 1, NEW k \in 0 .. n - 1, d = fan[j], e = fan[k]
      PROVE  j = k
  <2>1. NextBallId(p, j) = 1000000 * p + (Counts(p) + j) /\ NextBallId(p, k) = 1000000 * p + (Counts(p) + k)
    BY NewIdIsFree
  <2>2. Counts(p) \in Nat /\ p \in Nat
    BY InBlock, Seats
  <2> QED BY <1>4, <2>1, <2>2
<1> QED BY <1>1, <1>2, <1>3, <1>4

LEMMA KindsDistinct ==
    ASSUME TypeOK, Counted, Aged, IdsBelow, Distinct,
           Shrinks \/ Moves \/ Reserves \/ Grows \/ FirstServe
    PROVE  Distinct'
<1>1. CASE Shrinks
  <2> SUFFICES ASSUME NEW w \in Players, NEW x \in Players, NEW y \in Players, NEW z \in Players,
                      NEW d \in Held(w, x)', NEW e \in Held(y, z)', d.id = e.id
               PROVE  w = y /\ x = z /\ d = e
    BY DEF Distinct
  <2>1. d \in Held(w, x) /\ e \in Held(y, z)
    BY <1>1 DEF Shrinks
  <2> QED BY <2>1 DEF Distinct
<1>2. CASE Moves
  <2>1. PICK p \in Players, q \in Players, r \in Players, s \in Players, b \in Ball, c \in Ball :
             Passes(p, q, b, r, s, c) /\ c.id = b.id
    BY <1>2 DEF Moves
  <2> QED BY <2>1, DistinctFrom DEF Passes
<1>3. CASE Reserves
  <2>1. PICK p \in Players : \E b \in Held(p, p) :
              /\ Makes(p, 1) /\ Room(1)
              /\ ServeBall(p).id = NextBallId(p, 0)
              /\ Exchanges(p, p, b, p, p, ServeBall(p))
    BY <1>3, ReservesNew
  <2> DEFINE fan == [k \in 0 .. 1 - 1 |-> ServeBall(p)]
  <2>2. \A k \in 0 .. 1 - 1 : fan[k].id = NextBallId(p, k)
    BY <2>1
  <2>3. \A x, y \in Players : \A d \in Held(x, y)' :
           d \in Held(x, y) \/ (x = p /\ y = p /\ \E k \in 0 .. 1 - 1 : d = fan[k])
    BY <2>1 DEF Exchanges
  <2> HIDE DEF fan
  <2> QED BY <2>1, <2>2, <2>3, DistinctNew
<1>4. CASE Grows
  <2>1. PICK p \in Players : \E b \in Held(p, p) :
          /\ Makes(p, SplitBallCount) /\ Room(SplitBallCount)
          /\ \A x, y \in Players : \A d \in Held(x, y)' :
                \/ d \in Held(x, y)
                \/ /\ x = p /\ y = p
                   /\ \E k \in 0 .. SplitBallCount - 1 : d = NewBall(p, k, "split", b.hitter)
    BY <1>4 DEF Grows
  <2>2. PICK b \in Held(p, p) :
          \A x, y \in Players : \A d \in Held(x, y)' :
                \/ d \in Held(x, y)
                \/ /\ x = p /\ y = p
                   /\ \E k \in 0 .. SplitBallCount - 1 : d = NewBall(p, k, "split", b.hitter)
    BY <2>1
  <2> DEFINE fan == [k \in 0 .. SplitBallCount - 1 |-> NewBall(p, k, "split", b.hitter)]
  <2>3. \A k \in 0 .. SplitBallCount - 1 : fan[k].id = NextBallId(p, k)
    BY SplitTyped
  <2>4. \A x, y \in Players : \A d \in Held(x, y)' :
           d \in Held(x, y) \/ (x = p /\ y = p /\ \E k \in 0 .. SplitBallCount - 1 : d = fan[k])
    BY <2>2
  <2> HIDE DEF fan
  <2> QED BY <2>1, <2>3, <2>4, DistinctNew, Bounds
<1>5. CASE FirstServe
  <2> DEFINE fan == [k \in 0 .. 1 - 1 |-> ServeBall(Host)]
  <2>1. ServeBall(Host).id = NextBallId(Host, 0)
    BY ServeBallTyped, TypeParts, Seats
  <2>2. \A k \in 0 .. 1 - 1 : fan[k].id = NextBallId(Host, k)
    BY <2>1
  <2>3. \A x, y \in Players : \A d \in Held(x, y)' :
           d \in Held(x, y) \/ (x = Host /\ y = Host /\ \E k \in 0 .. 1 - 1 : d = fan[k])
    BY <1>5 DEF FirstServe
  <2>4. births = 0
    BY <1>5 DEF FirstServe
  <2> HIDE DEF fan
  <2> QED BY <2>2, <2>3, <2>4, DistinctNew, Seats
<1> QED BY <1>1, <1>2, <1>3, <1>4, <1>5

-----------------------------------------------------------------------------
(* One master *)

\* The master that passes stays the only one.
LEMMA MasterFrom ==
    ASSUME OneMaster, NEW p \in Players, NEW q \in Players, NEW r \in Players,
           NEW s \in Players, NEW b, NEW c, c.kind = b.kind, Exchanges(p, q, b, r, s, c)
    PROVE  OneMaster'
<1> SUFFICES ASSUME NEW w \in Players, NEW x \in Players, NEW y \in Players, NEW z \in Players,
                    NEW d \in Held(w, x)', NEW e \in Held(y, z)',
                    d.kind = "master" /\ e.kind = "master"
             PROVE  w = y /\ x = z /\ d = e
  BY DEF OneMaster
<1>0. b \in Held(p, q)
  BY DEF Exchanges
<1>1. CASE d \in Held(w, x) /\ ~(w = p /\ x = q /\ d = b)
  <2>1. CASE e \in Held(y, z)
    BY <1>1, <2>1 DEF OneMaster
  <2>2. CASE e = c
    BY <1>0, <1>1, <2>2 DEF OneMaster
  <2> QED BY <2>1, <2>2 DEF Exchanges
<1>2. CASE w = r /\ x = s /\ d = c
  <2>1. CASE e \in Held(y, z) /\ ~(y = p /\ z = q /\ e = b)
    BY <1>0, <1>2, <2>1 DEF OneMaster
  <2>2. CASE y = r /\ z = s /\ e = c
    BY <1>2, <2>2
  <2> QED BY <2>1, <2>2 DEF Exchanges
<1> QED BY <1>1, <1>2 DEF Exchanges

LEMMA KindsMaster ==
    ASSUME TypeOK, EmptyBefore, OneMaster, Shrinks \/ Moves \/ Reserves \/ Grows \/ FirstServe
    PROVE  OneMaster'
<1>1. CASE Moves
  <2>1. PICK p \in Players, q \in Players, r \in Players, s \in Players, b \in Ball, c \in Ball :
             Passes(p, q, b, r, s, c)
    BY <1>1 DEF Moves
  <2> QED BY <2>1, MasterFrom DEF Passes
<1>2. CASE Reserves
  <2>1. PICK p \in Players : \E b \in Held(p, p) :
              /\ ServeBall(p).kind = b.kind
              /\ Exchanges(p, p, b, p, p, ServeBall(p))
    BY <1>2, ReservesNew
  <2> QED BY <2>1, MasterFrom
<1>3. ASSUME Shrinks \/ Grows
      PROVE  OneMaster'
  <2>1. \A x, y \in Players : \A d \in Held(x, y)' : d \in Held(x, y) \/ d.kind = "split"
    BY <1>3, SplitTyped DEF Shrinks, Grows
  <2> QED BY <2>1 DEF OneMaster
<1>4. CASE FirstServe
  <2>1. \A x, y \in Players : \A d \in Held(x, y)' : x = Host /\ y = Host /\ d = ServeBall(Host)
    BY <1>4 DEF FirstServe, EmptyBefore
  <2> QED BY <2>1 DEF OneMaster
<1> QED BY <1>1, <1>2, <1>3, <1>4

-----------------------------------------------------------------------------
(* The ball invariant *)

LEMMA KindsEmpty ==
    ASSUME TypeOK, EmptyBefore, Shrinks \/ Moves \/ Reserves \/ Grows \/ FirstServe
    PROVE  /\ EmptyBefore'
           /\ births' = births \/ births # 0 \/ (births = 0 /\ proc'[Host] = "scene")
<1>1. births \in Nat
  BY DEF TypeOK
<1>2. CASE Shrinks
  BY <1>2 DEF Shrinks, Restarts, EmptyBefore
<1>3. CASE Moves
  <2>1. births # 0
    BY <1>3 DEF Moves, Passes, Exchanges, EmptyBefore
  <2> QED BY <1>3, <2>1 DEF Moves, Keeps, EmptyBefore
<1>4. CASE Reserves
  <2>1. births # 0 /\ births' = births + 1
    BY <1>4, ReservesNew DEF EmptyBefore, Makes
  <2> QED BY <1>1, <2>1 DEF EmptyBefore
<1>5. CASE Grows
  <2>1. births # 0 /\ births' = births + SplitBallCount
    BY <1>5 DEF Grows, EmptyBefore, Makes
  <2> QED BY <1>1, <2>1, Bounds DEF EmptyBefore
<1>6. CASE FirstServe
  <2>1. births' = 1 /\ births = 0 /\ proc'[Host] = "scene"
    BY <1>6 DEF FirstServe, Makes
  <2> QED BY <2>1 DEF EmptyBefore
<1> QED BY <1>2, <1>3, <1>4, <1>5, <1>6

LEMMA MakesCounted ==
    ASSUME TypeOK, Counted, NEW p \in Players, NEW n \in Nat, Makes(p, n),
           Room(n) \/ (n = 1 /\ births = 0)
    PROVE  births # 0 \/ n = 1 => Counted'
<1>1. \A q \in Players : made[q] \in Nat
  BY DEF TypeOK
<1>2. births \in Nat
  BY DEF TypeOK
<1>3. \A q \in Players : made'[q] = made[q] + (IF q = p THEN n ELSE 0)
  BY <1>1 DEF Makes, TypeOK
<1>4. births' = births + n
  BY DEF Makes
<1>5. ASSUME births # 0 \/ n = 1
      PROVE  Counted'
  <2>1. \A q \in Players : made'[q] <= births'
    BY <1>1, <1>2, <1>3, <1>4 DEF Counted
  <2>2. births' <= MaxBalls \/ births' <= 1
    BY <1>2, <1>4, Bounds DEF Room
  <2> QED BY <2>1, <2>2 DEF Counted
<1> QED BY <1>5

LEMMA KindsCounted ==
    ASSUME TypeOK, Counted, EmptyBefore, Shrinks \/ Moves \/ Reserves \/ Grows \/ FirstServe
    PROVE  Counted'
<1>1. CASE Shrinks \/ Moves
  <2>1. Restarts
    BY <1>1, MovesRestarts DEF Shrinks
  <2> QED BY <2>1 DEF Restarts, Counted, TypeOK
<1>2. CASE Reserves
  BY <1>2, MakesCounted DEF Reserves
<1>3. CASE Grows
  <2>1. births # 0
    BY <1>3 DEF Grows, EmptyBefore
  <2> QED BY <1>3, <2>1, MakesCounted, Bounds DEF Grows
<1>4. CASE FirstServe
  BY <1>4, MakesCounted, Seats DEF FirstServe
<1> QED BY <1>1, <1>2, <1>3, <1>4

\* What a step can do to where the processes are.
ProcStep ==
    /\ Aged'
    /\ \A p \in Players : proc'[p] = "dead" => ~fresh'[p]
    /\ \A p \in Players : proc'[p] = "preparing" /\ fresh'[p] => proc[p] = "preparing" /\ fresh[p]

LEMMA ProcStepKept == Aged /\ HostWaits /\ UNCHANGED <<proc, fresh, epoch, faults>> => ProcStep
BY DEF Aged, HostWaits, ProcStep

LEMMA FaultStep ==
    ASSUME TypeOK, Aged, HostWaits, Fault, UNCHANGED <<proc, fresh, epoch>>
    PROVE  ProcStep
<1>1. faults' = faults + 1 /\ faults \in Nat
  BY Bounds DEF Fault, TypeOK
<1>2. \A p \in Players : epoch[p] \in Nat
  BY DEF TypeOK
<1> QED BY <1>1, <1>2 DEF Aged, HostWaits, ProcStep

LEMMA EnterStep ==
    ASSUME TypeOK, Aged, HostWaits, NEW ps \in SUBSET Ready, Enter(ps, Fresh)
    PROVE  ProcStep
<1>1. \A p \in Players : proc'[p] = proc[p] \/ (proc'[p] = "scene" /\ proc[p] = "preparing")
  BY DEF Enter, Ready
<1>2. UNCHANGED <<fresh, epoch, faults>>
  BY DEF Enter
<1> QED BY <1>1, <1>2 DEF Aged, HostWaits, ProcStep

LEMMA ProcessStep ==
    ASSUME TypeOK, Aged, HostWaits, NEW p \in Players, ProcessNext(p)
    PROVE  ProcStep
<1>t. \A q \in Players : epoch[q] \in Nat
  BY DEF TypeOK
<1>f. faults \in Nat
  BY Bounds DEF TypeOK
<1>1. CASE EnterScene(p)
  BY <1>1, EnterStep DEF EnterScene
<1>2. CASE ProcessDies(p)
  <2>1. \A q \in Players : proc'[q] = IF q = p THEN "dead" ELSE proc[q]
    BY <1>2 DEF ProcessDies, Stops, TypeOK
  <2>2. \A q \in Players : fresh'[q] = IF q = p THEN FALSE ELSE fresh[q]
    BY <1>2 DEF ProcessDies, TypeOK
  <2>3. faults' = faults + 1 /\ epoch' = epoch /\ proc[p] # "dead"
    BY <1>2 DEF ProcessDies, Fault
  <2>4. Aged'
    BY <1>t, <1>f, <2>1, <2>3 DEF Aged
  <2> QED BY <2>1, <2>2, <2>3, <2>4 DEF HostWaits, ProcStep
<1>3. CASE LeavesForGood(p)
  <2>1. \A q \in Players : proc'[q] = IF q = p THEN "gone" ELSE proc[q]
    BY <1>3 DEF LeavesForGood, Stops, TypeOK
  <2>2. faults' = faults + 1 /\ UNCHANGED <<fresh, epoch>>
    BY <1>3 DEF LeavesForGood, Fault
  <2>3. Aged'
    BY <1>t, <1>f, <2>1, <2>2 DEF Aged
  <2> QED BY <2>1, <2>2, <2>3 DEF HostWaits, ProcStep
<1>4. CASE Rejoins(p)
  <2>1. \A q \in Players : proc'[q] = IF q = p THEN "preparing" ELSE proc[q]
    BY <1>4 DEF Rejoins, TypeOK
  <2>2. \A q \in Players : epoch'[q] = epoch[q] + (IF q = p THEN 1 ELSE 0)
    BY <1>4, <1>t DEF Rejoins, TypeOK
  <2>3. UNCHANGED <<fresh, faults>> /\ proc[p] = "dead"
    BY <1>4 DEF Rejoins
  <2> QED BY <1>t, <1>f, <2>1, <2>2, <2>3 DEF Aged, HostWaits, ProcStep
<1>5. CASE SocketBlips(p)
  BY <1>5, FaultStep DEF SocketBlips
<1> QED BY <1>1, <1>2, <1>3, <1>4, <1>5 DEF ProcessNext

LEMMA NextProc ==
    ASSUME TypeOK, Aged, HostWaits, [Next]_vars
    PROVE  ProcStep
<1>1. CASE MatchStarts
  BY <1>1, EnterStep DEF MatchStarts
<1>2. CASE MatchForced
  BY <1>2, EnterStep DEF MatchForced
<1>3. ASSUME NEW p \in Players, BallNext(p) \/ UseItem(p)
      PROVE  ProcStep
  BY <1>3, ProcStepKept DEF BallNext, PaddleHit, Goal, Splits, Pickup, Handoff, UseItem
<1>4. ASSUME NEW p \in Players, MeshNext(p)
      PROVE  ProcStep
  BY <1>4, ProcStepKept, FaultStep DEF MeshNext, LinkOpens, LinkBreaks, LinkFoundDead,
     OnPeerRejoined, ReceiveAward, ReceiveBall
<1>5. CASE \E p \in Players : ProcessNext(p)
  BY <1>5, ProcessStep
<1>6. CASE UNCHANGED vars
  BY <1>6, ProcStepKept DEF vars
<1> QED BY <1>1, <1>2, <1>3, <1>4, <1>5, <1>6 DEF Next

LEMMA BallInit == Init => BallInv
<1> SUFFICES ASSUME Init
             PROVE  BallInv
  OBVIOUS
<1>1. \A p, q \in Players : Held(p, q) = {}
  BY DEF Init, Held
<1>2. HostWaits /\ Counted /\ Aged
  BY Bounds DEF Init, HostWaits, Counted, Aged
<1> QED BY <1>1, <1>2 DEF BallInv, EmptyBefore, IdsBelow, Distinct, OneMaster

LEMMA BallStep == TypeOK /\ BallInv /\ [Next]_vars => BallInv'
<1> SUFFICES ASSUME TypeOK, BallInv, [Next]_vars
             PROVE  BallInv'
  OBVIOUS
<1>0. TypeOK'
  BY NextTyped
<1>i. HostWaits /\ Counted /\ Aged /\ EmptyBefore /\ IdsBelow /\ Distinct /\ OneMaster
  BY DEF BallInv
<1>1. Shrinks \/ Moves \/ Reserves \/ Grows \/ FirstServe
  BY <1>i, StepKinds
<1>2. ProcStep
  BY <1>i, NextProc
<1>3. EmptyBefore' /\ Counted' /\ IdsBelow' /\ Distinct' /\ OneMaster'
  BY <1>0, <1>1, <1>i, KindsEmpty, KindsCounted, KindsIds, KindsDistinct, KindsMaster
<1>4. HostWaits'
  BY <1>1, <1>2, <1>i, KindsEmpty, Seats DEF ProcStep, HostWaits
<1> QED BY <1>2, <1>3, <1>4 DEF ProcStep, BallInv

LEMMA PlacesHeld ==
    ASSUME NEW x \in Places
    PROVE  /\ x[1] \in Players /\ x[2] \in Players
           /\ x[3] \in Held(x[1], x[2]) /\ x = <<x[1], x[2], x[3]>>
<1>1. PICK z \in Players \X Players : x \in {<<z[1], z[2], b>> : b \in Held(z[1], z[2])}
  BY DEF Places
<1>2. z[1] \in Players /\ z[2] \in Players
  OBVIOUS
<1> QED BY <1>1, <1>2

LEMMA HeldPlaced ==
    ASSUME NEW p \in Players, NEW q \in Players, NEW b \in Held(p, q)
    PROVE  <<p, q, b>> \in Places
<1>1. <<p, q>> \in Players \X Players /\ <<p, q>>[1] = p /\ <<p, q>>[2] = q
  OBVIOUS
<1>2. <<p, q, b>> \in {<<p, q, c>> : c \in Held(p, q)}
  OBVIOUS
<1> QED BY <1>1, <1>2 DEF Places

IInv == TypeOK /\ BallInv

LEMMA IInvInit == Init => IInv
BY InitTyped, BallInit DEF IInv

LEMMA IInvNext == IInv /\ [Next]_vars => IInv'
BY NextTyped, BallStep DEF IInv

\* Whatever crosses, dies or rejoins, no two balls share an id: a seat numbers its
\* balls in a block of its own and a rejoined process goes on above its old ones.
THEOREM BallIdsAreUnique == Spec => []BallsAreDistinct
<1>1. IInv => BallsAreDistinct
  <2> SUFFICES ASSUME IInv, NEW x \in Places, NEW y \in Places, x[3].id = y[3].id
               PROVE  x = y
    BY DEF BallsAreDistinct
  <2>1. /\ x[1] \in Players /\ x[2] \in Players /\ y[1] \in Players /\ y[2] \in Players
        /\ x[3] \in Held(x[1], x[2]) /\ y[3] \in Held(y[1], y[2])
        /\ x = <<x[1], x[2], x[3]>> /\ y = <<y[1], y[2], y[3]>>
    BY PlacesHeld
  <2>2. x[1] = y[1] /\ x[2] = y[2] /\ x[3] = y[3]
    BY <2>1 DEF IInv, BallInv, Distinct
  <2> QED BY <2>1, <2>2
<1> QED BY IInvInit, IInvNext, <1>1, PTL DEF Spec

-----------------------------------------------------------------------------
(* The master ball *)

Served == births > 0

LEMMA MasterIn ==
    /\ \A x : x \in MasterAt <=> /\ x \in Players \X Players
                                 /\ \E b \in Held(x[1], x[2]) : b.kind = "master"
    /\ \A x : x \in MasterAt' <=> /\ x \in Players \X Players
                                  /\ \E b \in Held(x[1], x[2])' : b.kind = "master"
BY DEF MasterAt, HasMaster

LEMMA MasterAlone ==
    OneMaster => \A x, y \in MasterAt : x = y
<1> SUFFICES ASSUME OneMaster, NEW x \in MasterAt, NEW y \in MasterAt
             PROVE  x = y
  OBVIOUS
<1>1. x \in Players \X Players /\ y \in Players \X Players
  BY MasterIn
<1>2. PICK b \in Held(x[1], x[2]) : b.kind = "master"
  BY MasterIn
<1>3. PICK c \in Held(y[1], y[2]) : c.kind = "master"
  BY MasterIn
<1>4. x[1] = y[1] /\ x[2] = y[2]
  BY <1>1, <1>2, <1>3 DEF OneMaster
<1> QED BY <1>1, <1>4

\* Nothing new that could be the master.
LEMMA MasterOnlyGoes ==
    ASSUME OneMaster, Served' = Served,
           \A x, y \in Players : \A d \in Held(x, y)' : d.kind = "master" => d \in Held(x, y)
    PROVE  Master!Next \/ UNCHANGED <<Served, MasterAt>>
<1>1. MasterAt' \subseteq MasterAt
  BY MasterIn
<1>2. CASE MasterAt' = MasterAt
  BY <1>2
<1>3. CASE MasterAt' # MasterAt
  <2>1. PICK x \in MasterAt : x \notin MasterAt'
    BY <1>1, <1>3
  <2>2. MasterAt' = {}
    BY <1>1, <2>1, MasterAlone
  <2>3. Master!Vanish
    BY <2>2 DEF Master!Vanish
  <2> QED BY <2>1, <2>3 DEF Master!Next, Served
<1> QED BY <1>2, <1>3

LEMMA ServedKept ==
    ASSUME TypeOK, births # 0, NEW p \in Players, NEW n \in Nat, Makes(p, n)
    PROVE  Served /\ Served'
BY DEF Makes, TypeOK, Served

\* The master is in one place before and in one after.
LEMMA MasterPasses ==
    ASSUME OneMaster, NEW p \in Players, NEW q \in Players, NEW r \in Players, NEW s \in Players,
           NEW b, NEW c, Passes(p, q, b, r, s, c), b.kind = "master"
    PROVE  MasterAt = {<<p, q>>} /\ MasterAt' = {<<r, s>>} /\ Hop(p, q, r, s)
<1>1. b \in Held(p, q) /\ c \in Held(r, s)' /\ c.kind = "master" /\ Hop(p, q, r, s)
  BY DEF Passes, Exchanges
<1>2. <<p, q>> \in MasterAt
  BY <1>1, MasterIn
<1>3. <<r, s>> \in MasterAt'
  BY <1>1, MasterIn
<1>4. ASSUME NEW x \in MasterAt'
      PROVE  x = <<r, s>>
  <2>1. x \in Players \X Players
    BY MasterIn
  <2>2. PICK d \in Held(x[1], x[2])' : d.kind = "master"
    BY MasterIn
  <2>3. \/ d \in Held(x[1], x[2]) /\ ~(x[1] = p /\ x[2] = q /\ d = b)
        \/ x[1] = r /\ x[2] = s /\ d = c
    BY <2>1 DEF Passes, Exchanges
  <2>4. ~(d \in Held(x[1], x[2]) /\ ~(x[1] = p /\ x[2] = q /\ d = b))
    BY <1>1, <2>1, <2>2 DEF OneMaster
  <2> QED BY <2>1, <2>3, <2>4
<1> QED BY <1>1, <1>2, <1>3, <1>4, MasterAlone

LEMMA HopRefines ==
    ASSUME NEW p \in Players, NEW q \in Players, NEW r \in Players, NEW s \in Players,
           Hop(p, q, r, s), MasterAt = {<<p, q>>}, MasterAt' = {<<r, s>>}, Served' = Served
    PROVE  Master!Next \/ UNCHANGED <<Served, MasterAt>>
<1> DEFINE x == <<p, q>>
<1>0. x \in MasterAt /\ x[1] = p /\ x[2] = q
  OBVIOUS
<1>1. CASE p = r /\ q = s
  BY <1>1
<1>2. CASE p = q /\ p = r /\ r # s
  <2>1. Master!Cross(x)
    BY <1>0, <1>2 DEF Master!Cross
  <2> QED BY <1>0, <2>1 DEF Master!Next, Served
<1>3. CASE p # q /\ r = q /\ s = q
  <2>1. Master!Arrive(x)
    BY <1>0, <1>3 DEF Master!Arrive
  <2> QED BY <1>0, <2>1 DEF Master!Next, Served
<1> QED BY <1>1, <1>2, <1>3 DEF Hop

LEMMA MasterStep ==
    ASSUME IInv, [Next]_vars
    PROVE  Master!Next \/ UNCHANGED <<Served, MasterAt>>
<1>i. TypeOK /\ HostWaits /\ Counted /\ Aged /\ EmptyBefore /\ IdsBelow /\ Distinct /\ OneMaster
  BY DEF IInv, BallInv
<1>k. Shrinks \/ Moves \/ Reserves \/ Grows \/ FirstServe
  BY <1>i, StepKinds
<1>1. CASE Shrinks
  <2>1. Served' = Served
    BY <1>1 DEF Shrinks, Restarts, Served
  <2> QED BY <1>i, <1>1, <2>1, MasterOnlyGoes DEF Shrinks
<1>2. CASE Moves
  <2>1. Served' = Served
    BY <1>2 DEF Moves, Keeps, Served
  <2>2. PICK p \in Players, q \in Players, r \in Players, s \in Players, b \in Ball, c \in Ball :
             Passes(p, q, b, r, s, c)
    BY <1>2 DEF Moves
  <2>3. CASE b.kind = "master"
    BY <1>i, <2>1, <2>2, <2>3, MasterPasses, HopRefines
  <2>4. CASE b.kind # "master"
    <3>1. \A x, y \in Players : \A d \in Held(x, y)' : d.kind = "master" => d \in Held(x, y)
      BY <2>2, <2>4 DEF Passes, Exchanges
    <3> QED BY <1>i, <2>1, <3>1, MasterOnlyGoes
  <2> QED BY <2>3, <2>4
<1>3. CASE Reserves
  <2>1. PICK p \in Players, b \in Ball : Passes(p, p, b, p, p, ServeBall(p)) /\ Makes(p, 1)
    BY <1>3 DEF Reserves
  <2>2. births # 0
    BY <1>i, <2>1 DEF Passes, Exchanges, EmptyBefore
  <2>3. Served' = Served
    <3>1. Served /\ Served'
      BY <1>i, <2>1, <2>2, ServedKept
    <3> QED BY <3>1 DEF Served
  <2>4. b.kind = "master"
    BY <1>i, <2>1, ServeBallTyped, TypeParts DEF Passes
  <2> QED BY <1>i, <2>1, <2>3, <2>4, MasterPasses, HopRefines
<1>4. CASE Grows
  <2>1. PICK p \in Players : \E b \in Held(p, p) : Makes(p, SplitBallCount)
    BY <1>4 DEF Grows
  <2>2. births # 0
    BY <1>i, <2>1 DEF EmptyBefore
  <2>3. Served' = Served
    <3>1. Served /\ Served'
      BY <1>i, <2>1, <2>2, ServedKept, Bounds
    <3> QED BY <3>1 DEF Served
  <2>4. \A x, y \in Players : \A d \in Held(x, y)' : d.kind = "master" => d \in Held(x, y)
    BY <1>i, <1>4, SplitTyped DEF Grows
  <2> QED BY <1>i, <2>3, <2>4, MasterOnlyGoes
<1>5. CASE FirstServe
  <2>1. births = 0 /\ Makes(Host, 1) /\ ServeBall(Host) \in Held(Host, Host)'
    BY <1>5 DEF FirstServe
  <2>3. ~Served /\ Served'
    BY <2>1 DEF Served, Makes
  <2>6. \A p, q \in Players : Held(p, q) = {}
    BY <1>i, <2>1 DEF EmptyBefore
  <2>7. ServeBall(Host).kind = "master"
    BY <1>i, ServeBallTyped, TypeParts, Seats
  <2>8. <<Host, Host>> \in MasterAt'
    BY <2>1, <2>7, MasterIn, Seats
  <2>9. ASSUME NEW x \in MasterAt'
        PROVE  x = <<Host, Host>>
    <3>1. x \in Players \X Players /\ \E d \in Held(x[1], x[2])' : TRUE
      BY MasterIn
    <3>2. x[1] = Host /\ x[2] = Host
      BY <1>5, <2>6, <3>1 DEF FirstServe
    <3> QED BY <3>1, <3>2
  <2>10. MasterAt' = {<<Host, Host>>}
    BY <2>8, <2>9
  <2> QED BY <2>3, <2>10 DEF Master!Next, Master!Serve, Served
<1> QED BY <1>k, <1>1, <1>2, <1>3, <1>4, <1>5

\* The screens implement MasterBall: the master is served once, by the host, passes
\* one channel at a time, and a lost one is served by nobody.
THEOREM MasterBallKept == Spec => MasterKept
<1>1. Init => Master!Init
  <2> SUFFICES ASSUME Init
               PROVE  Master!Init
    OBVIOUS
  <2>1. \A p, q \in Players : Held(p, q) = {}
    BY DEF Init, Held
  <2>2. MasterAt = {}
    BY <2>1, MasterIn
  <2>3. ~(births > 0)
    BY DEF Init
  <2> QED BY <2>2, <2>3 DEF Master!Init
<1>2. IInv /\ [Next]_vars => [Master!Next]_<<births > 0, MasterAt>>
  BY MasterStep DEF Served
<1> QED BY IInvInit, IInvNext, <1>1, <1>2, PTL DEF Spec, MasterKept, Master!Spec

-----------------------------------------------------------------------------
(* A match without faults *)

Pending(p) == {q \in Players : Award \in wire[q][p]}

\* Nobody is away and every channel is whole.
Calm ==
    /\ \A p \in Players : joins[p] = {} /\ awaited[p] = Others(p) /\ fresh[p]
    /\ \A p \in Players : proc[p] = IF start = "yet" THEN "preparing" ELSE "scene"
    /\ \A p \in Players : \A q \in Others(p) :
          link[p][q] \in {"new", "open"} /\ link[p][q] = link[q][p]

Unplayed ==
    /\ \A p \in Players : earned[p] = 0 /\ bag[p] = 0 /\ wasted[p] = 0
    /\ \A p, q \in Players : wire[p][q] = {}

Whole ==
    \A p \in Players : mapped[p] = Others(p) /\ \A q \in Others(p) : link[p][q] = "open"

MasterThere == \E p, q \in Players : \E b \in Held(p, q) : b.kind = "master"

LootAdds ==
    \A p \in Players : earned[p] = bag[p] + wasted[p] + Cardinality(Pending(p))

Clean ==
    faults = 0 /\ start # "forced" =>
       /\ Calm
       /\ start = "yet" => Unplayed
       /\ start = "full" => Whole /\ MasterThere /\ LootAdds

LEMMA PendingFinite == \A p : IsFiniteSet(Pending(p)) /\ Cardinality(Pending(p)) \in Nat
<1> SUFFICES ASSUME NEW p
             PROVE  IsFiniteSet(Pending(p)) /\ Cardinality(Pending(p)) \in Nat
  OBVIOUS
<1>1. IsFiniteSet(Players) /\ Pending(p) \subseteq Players
  BY SeatAssumption DEF Pending
<1> QED BY <1>1, FS_Subset, FS_CardinalityType

\* What a step does to the count of faults and to the match.
Proceeds ==
    /\ faults' = faults \/ Fault
    /\ start' = start \/ start' = "forced" \/ (start = "yet" /\ start' = "full")

LEMMA NextProceeds ==
    ASSUME [Next]_vars
    PROVE  Proceeds
<1>1. CASE MatchStarts
  BY <1>1 DEF MatchStarts, Enter, Proceeds
<1>2. CASE MatchForced
  BY <1>2 DEF MatchForced, Enter, Proceeds
<1>3. ASSUME NEW p \in Players, BallNext(p)
      PROVE  Proceeds
  <2>1. \A b : PaddleHit(p, b) \/ Goal(p, b) \/ Splits(p, b) => Proceeds
    BY DEF PaddleHit, Goal, Splits, Proceeds
  <2>2. \A b : Pickup(p, b) => Proceeds
    BY DEF Pickup, Proceeds
  <2>3. \A b, q : Handoff(p, b, q) => Proceeds
    BY DEF Handoff, Proceeds
  <2> QED BY <1>3, <2>1, <2>2, <2>3 DEF BallNext
<1>4. ASSUME NEW p \in Players, UseItem(p)
      PROVE  Proceeds
  BY <1>4 DEF UseItem, Proceeds
<1>5. ASSUME NEW p \in Players, MeshNext(p)
      PROVE  Proceeds
  <2>1. \A q : LinkOpens(p, q) \/ LinkFoundDead(p, q) \/ LinkBreaks(p, q) => Proceeds
    BY DEF LinkOpens, LinkFoundDead, LinkBreaks, Proceeds
  <2>2. \A q : OnPeerRejoined(p, q) \/ ReceiveAward(p, q) => Proceeds
    BY DEF OnPeerRejoined, ReceiveAward, Proceeds
  <2>3. \A b, q : ReceiveBall(p, q, b) => Proceeds
    BY DEF ReceiveBall, Proceeds
  <2> QED BY <1>5, <2>1, <2>2, <2>3 DEF MeshNext
<1>6. ASSUME NEW p \in Players, ProcessNext(p)
      PROVE  Proceeds
  <2>1. EnterScene(p) \/ Rejoins(p) => Proceeds
    BY DEF EnterScene, Enter, Rejoins, Proceeds
  <2>2. ProcessDies(p) \/ LeavesForGood(p) \/ SocketBlips(p) => Proceeds
    BY DEF ProcessDies, LeavesForGood, SocketBlips, Proceeds
  <2> QED BY <1>6, <2>1, <2>2 DEF ProcessNext
<1>7. CASE UNCHANGED vars
  BY <1>7 DEF vars, Proceeds
<1> QED BY <1>1, <1>2, <1>3, <1>4, <1>5, <1>6, <1>7 DEF Next

\* No fault has happened, so this step is none.
LEMMA QuietNow ==
    ASSUME TypeOK, [Next]_vars, faults' = 0
    PROVE  faults = 0 /\ ~Fault
<1>1. faults \in Nat
  BY Bounds DEF TypeOK
<1>2. faults' = faults \/ faults' = faults + 1
  BY NextProceeds DEF Proceeds, Fault
<1>3. faults = 0
  BY <1>1, <1>2
<1> QED BY <1>3 DEF Fault

\* What is left for a step to be.
QuietStep ==
    \/ MatchStarts
    \/ UNCHANGED vars
    \/ start = "yet" /\ \E p \in Players : \E q \in Others(p) : LinkOpens(p, q)
    \/ /\ start = "full"
       /\ \E p \in Players :
             \/ BallNext(p) \/ UseItem(p)
             \/ \E q \in Others(p) : ReceiveAward(p, q) \/ \E b \in wire[q][p] : ReceiveBall(p, q, b)

LEMMA QuietKinds ==
    ASSUME TypeOK, Clean, [Next]_vars, faults' = 0, start' # "forced"
    PROVE  faults = 0 /\ start # "forced" /\ QuietStep
<1>0. faults = 0 /\ ~Fault
  BY QuietNow
<1>1. start # "forced"
  BY NextProceeds DEF Proceeds
<1>2. Calm /\ (start = "yet" => Unplayed) /\ (start = "full" => Whole) /\ start \in {"yet", "full"}
  BY <1>0, <1>1 DEF Clean, TypeOK
<1>3. CASE MatchStarts \/ MatchForced \/ UNCHANGED vars
  BY <1>0, <1>1, <1>3 DEF QuietStep, MatchForced
<1>4. ASSUME NEW p \in Players, BallNext(p) \/ UseItem(p)
      PROVE  QuietStep
  <2>1. InScene(p)
    BY <1>4 DEF BallNext, PaddleHit, Goal, Splits, Pickup, Handoff, UseItem
  <2>2. start = "full"
    BY <1>2, <2>1 DEF Calm, InScene
  <2> QED BY <1>4, <2>2 DEF QuietStep
<1>5. ASSUME NEW p \in Players, MeshNext(p)
      PROVE  QuietStep
  <2>0. PICK q \in Others(p) :
             \/ LinkOpens(p, q) \/ LinkBreaks(p, q) \/ LinkFoundDead(p, q) \/ OnPeerRejoined(p, q)
             \/ ReceiveAward(p, q)
             \/ \E b \in wire[q][p] : ReceiveBall(p, q, b)
    BY <1>5 DEF MeshNext
  <2>q. q \in Players
    BY DEF Others
  <2>1. CASE LinkOpens(p, q)
    <3>1. start = "yet"
      BY <1>2, <2>1 DEF LinkOpens, Whole
    <3> QED BY <2>1, <3>1 DEF QuietStep
  <2>2. ~LinkBreaks(p, q)
    BY <1>0 DEF LinkBreaks
  <2>3. ~LinkFoundDead(p, q)
    BY <1>2 DEF LinkFoundDead, Calm
  <2>4. ~OnPeerRejoined(p, q)
    BY <1>2 DEF OnPeerRejoined, Calm
  <2>5. CASE ReceiveAward(p, q) \/ \E b \in wire[q][p] : ReceiveBall(p, q, b)
    <3>1. start = "full"
      BY <1>2, <2>q, <2>5 DEF ReceiveAward, Unplayed
    <3> QED BY <2>5, <3>1 DEF QuietStep
  <2> QED BY <2>0, <2>1, <2>2, <2>3, <2>4, <2>5
<1>6. ASSUME NEW p \in Players, ProcessNext(p)
      PROVE  QuietStep
  <2>1. ~EnterScene(p)
    BY <1>2 DEF EnterScene, Ready, Calm
  <2>2. ~ProcessDies(p) /\ ~LeavesForGood(p) /\ ~SocketBlips(p)
    BY <1>0 DEF ProcessDies, LeavesForGood, SocketBlips
  <2>3. ~Rejoins(p)
    BY <1>2 DEF Rejoins, Calm
  <2> QED BY <1>6, <2>1, <2>2, <2>3 DEF ProcessNext
<1> QED BY <1>0, <1>1, <1>3, <1>4, <1>5, <1>6 DEF Next

LEMMA StartsClean ==
    ASSUME TypeOK, BallInv, Clean, faults = 0, MatchStarts
    PROVE  Clean'
<1>1. start = "yet" /\ start' = "full" /\ Ready = Players /\ Enter(Players, Fresh)
  BY DEF MatchStarts
<1>2. Calm /\ Unplayed
  BY <1>1 DEF Clean
<1>3. \A p \in Players : proc'[p] = "scene" /\ mapped'[p] = Others(p)
  BY <1>1 DEF Enter
<1>4. UNCHANGED <<fresh, awaited, link, joins, wire, bag, earned, wasted, faults>>
  BY <1>1 DEF Enter
<1>5. Calm'
  BY <1>1, <1>2, <1>3, <1>4 DEF Calm
<1>6. Whole'
  BY <1>1, <1>2, <1>3, <1>4 DEF Whole, Calm, Ready
<1>7. MasterThere'
  <2>1. Host \in Players \cap Fresh
    BY <1>2, Seats DEF Calm, Fresh
  <2>2. WithBalls(Host, {ServeBall(Host)})
    BY <1>1, <2>1 DEF Enter
  <2>3. ServeBall(Host) \in Held(Host, Host)' /\ ServeBall(Host).kind = "master"
    BY <2>2, <1>4, Seats, TypeParts, HeldOnScreen, ServeBallTyped
  <2> QED BY <2>3, Seats DEF MasterThere
<1>8. LootAdds'
  <2>1. \A p \in Players : Pending(p)' = {}
    BY <1>2, <1>4 DEF Unplayed, Pending, Award
  <2> QED BY <1>2, <1>4, <2>1, FS_EmptySet DEF LootAdds, Unplayed
<1> QED BY <1>1, <1>5, <1>6, <1>7, <1>8 DEF Clean

LEMMA OpensClean ==
    ASSUME TypeOK, Clean, faults = 0, start = "yet", NEW p \in Players, NEW q \in Others(p),
           LinkOpens(p, q)
    PROVE  Clean'
<1>1. Calm /\ Unplayed
  BY DEF Clean
<1>2. UNCHANGED <<fresh, awaited, proc, start, joins, wire, bag, earned, wasted, faults>>
  BY DEF LinkOpens
<1>3. Unplayed'
  BY <1>1, <1>2 DEF Unplayed
<1>4. \A r \in Players : \A s \in Others(r) :
         link'[r][s] = IF (r = p /\ s = q) \/ (r = q /\ s = p) THEN "open" ELSE link[r][s]
  BY DEF LinkOpens, TypeOK, Others
<1>5. \A r \in Players : \A s \in Others(r) :
         link'[r][s] \in {"new", "open"} /\ link'[r][s] = link'[s][r]
  BY <1>1, <1>4 DEF Calm, Others
<1>6. Calm'
  BY <1>1, <1>2, <1>5 DEF Calm
<1> QED BY <1>2, <1>3, <1>6 DEF Clean

\* What holds while a match without faults is played.
Played == Calm /\ Whole /\ MasterThere /\ LootAdds

LEMMA PlayedKept ==
    ASSUME Played, faults = 0, start = "full", MasterThere', LootAdds',
           UNCHANGED <<proc, fresh, awaited, link, mapped, joins, faults, start>>
    PROVE  Clean'
<1>1. Calm'
  BY DEF Played, Calm
<1>2. Whole'
  BY DEF Played, Whole
<1> QED BY <1>1, <1>2 DEF Clean

\* The master is where it was, or where what passed it on put it.
LEMMA MasterStays ==
    ASSUME MasterThere,
           \A x, y \in Players : \A d \in Held(x, y) :
              \/ d \in Held(x, y)'
              \/ \E r, s \in Players : \E c \in Held(r, s)' : c.kind = d.kind
              \/ d.kind # "master"
    PROVE  MasterThere'
<1>1. PICK x \in Players, y \in Players : \E d \in Held(x, y) : d.kind = "master"
  BY DEF MasterThere
<1>2. PICK d \in Held(x, y) : d.kind = "master"
  BY <1>1
<1>3. \/ d \in Held(x, y)'
      \/ \E r, s \in Players : \E c \in Held(r, s)' : c.kind = d.kind
  BY <1>2
<1> QED BY <1>2, <1>3 DEF MasterThere

LEMMA LootKeptAdds ==
    ASSUME LootAdds, UNCHANGED <<earned, bag, wasted>>,
           \A x, y \in Players : Award \in wire'[x][y] <=> Award \in wire[x][y]
    PROVE  LootAdds'
<1>1. \A p \in Players : Pending(p)' = Pending(p)
  BY DEF Pending, Award
<1> QED BY <1>1 DEF LootAdds

LEMMA GrantSum ==
    ASSUME LootOK, NEW p \in Players, Grant(p)
    PROVE  \A r \in Players :
              /\ bag[r] \in Nat /\ wasted[r] \in Nat /\ earned[r] \in Int
              /\ bag'[r] \in Nat /\ wasted'[r] \in Nat
              /\ bag'[r] + wasted'[r] = bag[r] + wasted[r] + (IF r = p THEN 1 ELSE 0)
BY Bounds DEF LootOK, Grant

LEMMA PlayedBalls ==
    ASSUME TypeOK, BallInv, Played, faults = 0, start = "full", NEW p \in Players,
           NEW b \in balls[p], PaddleHit(p, b) \/ Goal(p, b) \/ Splits(p, b)
    PROVE  Clean'
<1>1. UNCHANGED <<proc, fresh, awaited, link, mapped, joins, faults, start>>
  BY DEF PaddleHit, Goal, Splits
<1>2. UNCHANGED <<earned, bag, wasted, wire>>
  BY DEF PaddleHit, Goal, Splits
<1>3. LootAdds'
  BY <1>2, LootKeptAdds DEF Played
<1>b. b \in Ball
  BY TypeParts DEF BallsOK
<1>4. MasterThere'
  <2>1. CASE PaddleHit(p, b)
    <3> DEFINE c == [b EXCEPT !.hitter = p]
    <3>1. c.kind = b.kind
      BY <1>b DEF Ball
    <3>2. /\ \A x, y \in Players : ~(x = p /\ y = p) => Held(x, y)' = Held(x, y)
          /\ Held(p, p)' = (Held(p, p) \ {b}) \cup {c}
      BY <2>1, TypeParts, HeldOnScreen DEF PaddleHit
    <3> HIDE DEF c
    <3> QED BY <3>1, <3>2, MasterStays DEF Played
  <2>2. CASE Goal(p, b)
    <3>1. CASE b.kind = "master"
      <4>1. Held(p, p)' = (Held(p, p) \ {b}) \cup {ServeBall(p)}
        BY <2>2, <3>1, TypeParts, HeldOnScreen DEF Goal
      <4>2. ServeBall(p).kind = "master"
        BY TypeParts, ServeBallTyped
      <4> QED BY <4>1, <4>2 DEF MasterThere
    <3>2. CASE b.kind # "master"
      <4>1. /\ \A x, y \in Players : ~(x = p /\ y = p) => Held(x, y)' = Held(x, y)
            /\ Held(p, p)' = Held(p, p) \ {b}
        BY <2>2, <3>2, TypeParts, HeldOnScreen DEF Goal
      <4> QED BY <3>2, <4>1, MasterStays DEF Played
    <3> QED BY <3>1, <3>2
  <2>3. CASE Splits(p, b)
    <3>1. /\ \A x, y \in Players : ~(x = p /\ y = p) => Held(x, y)' = Held(x, y)
          /\ Held(p, p)' = Held(p, p) \cup {NewBall(p, k, "split", b.hitter) :
                                              k \in 0 .. SplitBallCount - 1}
      BY <2>3, TypeParts, HeldOnScreen DEF Splits
    <3> QED BY <3>1, MasterStays DEF Played
  <2> QED BY <2>1, <2>2, <2>3
<1> QED BY <1>1, <1>3, <1>4, PlayedKept

LEMMA PlayedPickup ==
    ASSUME TypeOK, Played, faults = 0, start = "full", NEW p \in Players,
           NEW b \in balls[p], Pickup(p, b)
    PROVE  Clean'
<1> DEFINE h == b.hitter
<1>h. h \in Players
  BY TypeParts, BallFields DEF BallsOK, Pickup
<1> HIDE DEF h
<1>1. UNCHANGED <<proc, fresh, awaited, link, mapped, joins, faults, start>>
  BY DEF Pickup
<1>2. /\ balls' = balls /\ Award \notin wire[p][h]
      /\ earned' = [earned EXCEPT ![h] = @ + 1]
      /\ IF h = p THEN Grant(p) /\ UNCHANGED wire
                  ELSE wire' = Sent(p, h, Award) /\ UNCHANGED <<bag, wasted>>
  BY DEF Pickup, h
<1>e. \A r \in Players : earned'[r] = earned[r] + (IF r = h THEN 1 ELSE 0)
  BY <1>h, <1>2, TypeParts DEF LootOK
<1>t. \A r \in Players : earned[r] \in Int /\ bag[r] \in Nat /\ wasted[r] \in Nat
  BY TypeParts DEF LootOK
<1>3. CASE h = p
  <2>1. Grant(p) /\ wire' = wire
    BY <1>2, <1>3
  <2>2. \A r \in Players : Pending(r)' = Pending(r)
    BY <2>1 DEF Pending, Award
  <2>3. \A r \in Players : bag'[r] + wasted'[r] = bag[r] + wasted[r] + (IF r = h THEN 1 ELSE 0)
    BY <1>3, <2>1, GrantSum, TypeParts
  <2>4. LootAdds'
    <3> SUFFICES ASSUME NEW r \in Players
                 PROVE  earned'[r] = bag'[r] + wasted'[r] + Cardinality(Pending(r)')
      BY DEF LootAdds
    <3>1. earned[r] = bag[r] + wasted[r] + Cardinality(Pending(r))
      BY DEF Played, LootAdds
    <3>2. Cardinality(Pending(r)) \in Nat /\ Pending(r)' = Pending(r)
      BY <2>2, PendingFinite
    <3> QED BY <1>e, <1>t, <2>1, <2>3, <3>1, <3>2, GrantSum, TypeParts
  <2>5. MasterThere'
    BY <1>2, <2>1, HeldKept DEF Played, MasterThere
  <2> QED BY <1>1, <2>4, <2>5, PlayedKept
<1>4. CASE h # p
  <2>1. Linked(p, h)
    BY <1>h, <1>4 DEF Played, Whole, Linked, Others
  <2>2. /\ \A x, y \in Players : \A d \in wire'[x][y] : d \in wire[x][y] \/ (x = p /\ y = h /\ d = Award)
        /\ Award \in wire'[p][h]
    BY <1>h, <1>2, <1>4, <2>1, TypeParts, HeldSent
  <2>3. \A x, y \in Players : wire[x][y] \subseteq wire'[x][y]
    BY <1>h, <1>2, <1>4, TypeParts, HeldSent
  <2>4. /\ \A r \in Players : r # h => Pending(r)' = Pending(r)
        /\ Pending(h)' = Pending(h) \cup {p} /\ p \notin Pending(h)
    BY <1>h, <1>2, <2>2, <2>3 DEF Pending, Award
  <2>5. LootAdds'
    <3> SUFFICES ASSUME NEW r \in Players
                 PROVE  earned'[r] = bag'[r] + wasted'[r] + Cardinality(Pending(r)')
      BY DEF LootAdds
    <3>1. earned[r] = bag[r] + wasted[r] + Cardinality(Pending(r)) /\ Cardinality(Pending(r)) \in Nat
      BY PendingFinite DEF Played, LootAdds
    <3>2. bag' = bag /\ wasted' = wasted
      BY <1>2, <1>4
    <3>3. Cardinality(Pending(r)') = Cardinality(Pending(r)) + (IF r = h THEN 1 ELSE 0)
      <4>1. CASE r = h
        BY <2>4, <4>1, PendingFinite, FS_AddElement
      <4>2. CASE r # h
        BY <2>4, <3>1, <4>2
      <4> QED BY <4>1, <4>2
    <3> QED BY <1>e, <1>t, <3>1, <3>2, <3>3
  <2>6. MasterThere'
    <3>1. \A x, y \in Players : Held(x, y) \subseteq Held(x, y)'
      BY <1>2, <2>3, HeldIn
    <3> QED BY <3>1 DEF Played, MasterThere
  <2> QED BY <1>1, <2>5, <2>6, PlayedKept
<1> QED BY <1>3, <1>4

LEMMA PlayedHandoff ==
    ASSUME TypeOK, Played, faults = 0, start = "full", NEW p \in Players,
           NEW b \in balls[p], NEW q \in Players, Handoff(p, b, q)
    PROVE  Clean'
<1>0. b \in Ball /\ b # Award /\ p # q
  BY TypeParts, AwardIsNoBall DEF BallsOK, MeshOK, Handoff
<1>1. UNCHANGED <<proc, fresh, awaited, link, mapped, joins, faults, start>>
  BY DEF Handoff
<1>2. UNCHANGED <<earned, bag, wasted>> /\ wire' = Sent(p, q, b)
  BY DEF Handoff
<1>3. Linked(p, q)
  BY <1>0 DEF Played, Whole, Linked, Others
<1>4. /\ \A x, y \in Players : \A d \in wire'[x][y] : d \in wire[x][y] \/ (x = p /\ y = q /\ d = b)
      /\ \A x, y \in Players : wire[x][y] \subseteq wire'[x][y]
      /\ b \in wire'[p][q]
  BY <1>0, <1>2, <1>3, TypeParts, HeldSent
<1>5. \A x \in Players : balls'[x] = IF x = p THEN balls[p] \ {b} ELSE balls[x]
  BY TypeParts DEF Handoff, WithBalls, BallsOK
<1>6. LootAdds'
  <2>1. \A x, y \in Players : Award \in wire'[x][y] <=> Award \in wire[x][y]
    BY <1>0, <1>4
  <2> QED BY <1>2, <2>1, LootKeptAdds DEF Played
<1>7. MasterThere'
  <2>1. b \in Held(p, q)'
    BY <1>0, <1>4, HeldIn
  <2>2. \A x, y \in Players : \A d \in Held(x, y) : d \in Held(x, y)' \/ d = b
    BY <1>4, <1>5, HeldIn
  <2> QED BY <2>1, <2>2, MasterStays DEF Played
<1> QED BY <1>1, <1>6, <1>7, PlayedKept

LEMMA PlayedReceiveBall ==
    ASSUME TypeOK, BallInv, Played, faults = 0, start = "full", NEW p \in Players,
           NEW q \in Others(p), NEW b \in wire[q][p], ReceiveBall(p, q, b)
    PROVE  Clean'
<1>0. q \in Players /\ p # q /\ b \in Ball /\ b # Award /\ b \in Held(q, p)
  BY TypeParts, HeldIn DEF BallsOK, ReceiveBall, Others
<1>1. UNCHANGED <<proc, fresh, awaited, link, mapped, joins, faults, start>>
  BY DEF ReceiveBall
<1>2. UNCHANGED <<earned, bag, wasted>>
  BY DEF ReceiveBall
<1>3. \A x, y \in Players :
         wire'[x][y] = IF x = q /\ y = p THEN wire[q][p] \ {b} ELSE wire[x][y]
  BY <1>0, TypeParts DEF ReceiveBall, BallsOK
<1>4. InScene(p) /\ q \in mapped[p] /\ \A a \in balls[p] : a.id # b.id
  <2>1. InScene(p) /\ q \in mapped[p]
    BY DEF Played, Calm, Whole, InScene
  <2>2. ASSUME NEW a \in balls[p], a.id = b.id
        PROVE  FALSE
    <3>1. a \in Held(p, p)
      BY HeldIn
    <3> QED BY <1>0, <2>2, <3>1 DEF BallInv, Distinct
  <2> QED BY <2>1, <2>2
<1>5. WithBalls(p, balls[p] \cup {b})
  BY <1>4 DEF ReceiveBall
<1>6. \A x \in Players : balls'[x] = IF x = p THEN balls[p] \cup {b} ELSE balls[x]
  BY <1>5, TypeParts DEF WithBalls, BallsOK
<1>7. LootAdds'
  <2>1. \A x, y \in Players : Award \in wire'[x][y] <=> Award \in wire[x][y]
    BY <1>0, <1>3
  <2> QED BY <1>2, <2>1, LootKeptAdds DEF Played
<1>8. MasterThere'
  <2>1. b \in Held(p, p)'
    BY <1>6, HeldIn
  <2>2. \A x, y \in Players : \A d \in Held(x, y) : d \in Held(x, y)' \/ d = b
    BY <1>3, <1>6, HeldIn
  <2> QED BY <2>1, <2>2, MasterStays DEF Played
<1> QED BY <1>1, <1>7, <1>8, PlayedKept

LEMMA PlayedReceiveAward ==
    ASSUME TypeOK, Played, faults = 0, start = "full", NEW p \in Players,
           NEW q \in Others(p), ReceiveAward(p, q)
    PROVE  Clean'
<1>0. q \in Players /\ p # q /\ Award \in wire[q][p]
  BY DEF Others, ReceiveAward
<1>1. UNCHANGED <<proc, fresh, awaited, link, mapped, joins, faults, start, balls, earned>>
  BY DEF ReceiveAward
<1>2. \A x, y \in Players :
         wire'[x][y] = IF x = q /\ y = p THEN wire[q][p] \ {Award} ELSE wire[x][y]
  BY <1>0, TypeParts DEF ReceiveAward, BallsOK
<1>3. Grant(p)
  <2>1. InScene(p) /\ q \in mapped[p]
    BY DEF Played, Calm, Whole, InScene
  <2> QED BY <2>1 DEF ReceiveAward
<1>4. /\ \A r \in Players : r # p => Pending(r)' = Pending(r)
      /\ Pending(p)' = Pending(p) \ {q} /\ q \in Pending(p)
  BY <1>0, <1>2 DEF Pending, Award
<1>5. LootAdds'
  <2> SUFFICES ASSUME NEW r \in Players
               PROVE  earned'[r] = bag'[r] + wasted'[r] + Cardinality(Pending(r)')
    BY DEF LootAdds
  <2>1. earned[r] = bag[r] + wasted[r] + Cardinality(Pending(r)) /\ Cardinality(Pending(r)) \in Nat
    BY PendingFinite DEF Played, LootAdds
  <2>2. Cardinality(Pending(r)') = Cardinality(Pending(r)) - (IF r = p THEN 1 ELSE 0)
    <3>1. CASE r = p
      BY <1>4, <3>1, PendingFinite, FS_RemoveElement
    <3>2. CASE r # p
      BY <1>4, <2>1, <3>2
    <3> QED BY <3>1, <3>2
  <2>3. /\ bag[r] \in Nat /\ wasted[r] \in Nat /\ bag'[r] \in Nat /\ wasted'[r] \in Nat
        /\ bag'[r] + wasted'[r] = bag[r] + wasted[r] + (IF r = p THEN 1 ELSE 0)
    BY <1>3, GrantSum, TypeParts
  <2>4. earned' = earned
    BY <1>1
  <2> QED BY <2>1, <2>2, <2>3, <2>4
<1>6. MasterThere'
  <2>1. \A x, y \in Players : Held(x, y) \subseteq Held(x, y)'
    BY <1>1, <1>2, HeldIn
  <2> QED BY <2>1 DEF Played, MasterThere
<1> QED BY <1>1, <1>5, <1>6, PlayedKept

LEMMA PlayedUse ==
    ASSUME TypeOK, Played, faults = 0, start = "full", NEW p \in Players, UseItem(p)
    PROVE  Clean'
<1>1. UNCHANGED <<proc, fresh, awaited, link, mapped, joins, faults, start, balls, wire, wasted>>
  BY DEF UseItem
<1>2. \A r \in Players : /\ bag'[r] = bag[r] - (IF r = p THEN 1 ELSE 0)
                         /\ earned'[r] = earned[r] - (IF r = p THEN 1 ELSE 0)
                         /\ earned[r] \in Int /\ bag[r] \in Nat /\ wasted[r] \in Nat
  BY DEF UseItem, TypeOK
<1>3. LootAdds'
  <2> SUFFICES ASSUME NEW r \in Players
               PROVE  earned'[r] = bag'[r] + wasted'[r] + Cardinality(Pending(r)')
    BY DEF LootAdds
  <2>1. earned[r] = bag[r] + wasted[r] + Cardinality(Pending(r)) /\ Cardinality(Pending(r)) \in Nat
    BY PendingFinite DEF Played, LootAdds
  <2>2. Pending(r)' = Pending(r) /\ wasted' = wasted
    BY <1>1 DEF Pending, Award
  <2> QED BY <1>2, <2>1, <2>2
<1>4. MasterThere'
  BY <1>1, HeldKept DEF Played, MasterThere
<1> QED BY <1>1, <1>3, <1>4, PlayedKept

LEMMA CleanKept ==
    ASSUME Clean, UNCHANGED vars
    PROVE  Clean'
<1>1. UNCHANGED <<proc, fresh, awaited, link, mapped, joins, faults, start, balls, wire, bag,
                  earned, wasted>>
  BY DEF vars
<1>2. \A p \in Players : Pending(p)' = Pending(p)
  BY <1>1 DEF Pending, Award
<1>3. \A p, q : Held(p, q)' = Held(p, q)
  BY <1>1, HeldKept
<1>4. MasterThere' = MasterThere
  BY <1>3 DEF MasterThere
<1>5. LootAdds => LootAdds'
  BY <1>1, <1>2 DEF LootAdds
<1>6. (Calm => Calm') /\ (Unplayed => Unplayed') /\ (Whole => Whole')
  BY <1>1 DEF Calm, Unplayed, Whole
<1> QED BY <1>1, <1>4, <1>5, <1>6 DEF Clean

LEMMA CleanStep == TypeOK /\ BallInv /\ Clean /\ [Next]_vars => Clean'
<1> SUFFICES ASSUME TypeOK, BallInv, Clean, [Next]_vars, faults' = 0, start' # "forced"
             PROVE  Clean'
  BY DEF Clean
<1>0. faults = 0 /\ start # "forced" /\ QuietStep
  BY QuietKinds
<1>1. CASE MatchStarts
  BY <1>0, <1>1, StartsClean
<1>2. CASE UNCHANGED vars
  BY <1>2, CleanKept
<1>3. CASE start = "yet" /\ \E p \in Players : \E q \in Others(p) : LinkOpens(p, q)
  BY <1>0, <1>3, OpensClean
<1>4. ASSUME start = "full", NEW p \in Players,
             \/ BallNext(p) \/ UseItem(p)
             \/ \E q \in Others(p) : ReceiveAward(p, q) \/ \E b \in wire[q][p] : ReceiveBall(p, q, b)
      PROVE  Clean'
  <2>1. Played
    BY <1>0, <1>4 DEF Clean, Played
  <2>2. CASE BallNext(p)
    BY <1>0, <1>4, <2>1, <2>2, PlayedBalls, PlayedPickup, PlayedHandoff DEF BallNext
  <2>3. CASE UseItem(p)
    BY <1>0, <1>4, <2>1, <2>3, PlayedUse
  <2>4. CASE \E q \in Others(p) : ReceiveAward(p, q)
    BY <1>0, <1>4, <2>1, <2>4, PlayedReceiveAward
  <2>5. CASE \E q \in Others(p) : \E b \in wire[q][p] : ReceiveBall(p, q, b)
    BY <1>0, <1>4, <2>1, <2>5, PlayedReceiveBall
  <2> QED BY <1>4, <2>2, <2>3, <2>4, <2>5
<1> QED BY <1>0, <1>1, <1>2, <1>3, <1>4 DEF QuietStep

LEMMA CleanInit == Init => Clean
BY DEF Init, Clean, Calm, Unplayed, Others

\* Without a fault there is one master from the first serve on, and every item a
\* player earned is held, on its way or was refused by a full hotbar.
THEOREM QuietMatchLosesNothing == Spec => []NothingLostWithoutFault
<1>1. IInv /\ Clean => NothingLostWithoutFault
  <2> SUFFICES ASSUME IInv, Clean, faults = 0, start = "full"
               PROVE  /\ Cardinality(Masters) = 1
                      /\ LootAdds
    BY DEF NothingLostWithoutFault, LootAdds, Pending
  <2>1. MasterThere /\ LootAdds
    BY DEF Clean
  <2>2. PICK p \in Players, q \in Players : \E b \in Held(p, q) : b.kind = "master"
    BY <2>1 DEF MasterThere
  <2>3. PICK b \in Held(p, q) : b.kind = "master"
    BY <2>2
  <2> DEFINE m == <<p, q, b>>
  <2>4. m \in Masters
    BY <2>3, HeldPlaced DEF Masters
  <2>5. ASSUME NEW x \in Masters
        PROVE  x = m
    <3>1. x \in Places /\ x[3].kind = "master"
      BY DEF Masters
    <3>2. /\ x[1] \in Players /\ x[2] \in Players
          /\ x[3] \in Held(x[1], x[2]) /\ x = <<x[1], x[2], x[3]>>
      BY <3>1, PlacesHeld
    <3>3. x[1] = p /\ x[2] = q /\ x[3] = b
      BY <2>3, <3>1, <3>2 DEF IInv, BallInv, OneMaster
    <3> QED BY <3>2, <3>3
  <2>6. Masters = {m}
    BY <2>4, <2>5
  <2> QED BY <2>1, <2>6, FS_Singleton
<1>2. Init => IInv /\ Clean
  BY IInvInit, CleanInit
<1>3. IInv /\ Clean /\ [Next]_vars => (IInv /\ Clean)'
  BY IInvNext, CleanStep DEF IInv
<1> QED BY <1>1, <1>2, <1>3, PTL DEF Spec

-----------------------------------------------------------------------------
(* The match flow: its queues of frames *)

\* No frame of kind t is queued.
Lacks(q, t) == \A i \in 1 .. Len(q) : q[i].t # t

LEMMA ConcatFrames ==
    ASSUME NEW S, NEW p \in Seq(S), NEW q \in Seq(S), NEW t
    PROVE  /\ p \o q \in Seq(S)
           /\ Lacks(p, t) /\ Lacks(q, t) => Lacks(p \o q, t)
<1>1. /\ p \o q \in Seq(S)
      /\ Len(p \o q) = Len(p) + Len(q)
      /\ \A i \in 1 .. Len(p) + Len(q) :
            (p \o q)[i] = IF i <= Len(p) THEN p[i] ELSE q[i - Len(p)]
  BY ConcatProperties
<1>2. Len(p) \in Nat /\ Len(q) \in Nat
  BY LenProperties
<1>3. ASSUME Lacks(p, t), Lacks(q, t), NEW i \in 1 .. Len(p \o q)
      PROVE  (p \o q)[i].t # t
  <2>1. CASE i <= Len(p)
    BY <1>1, <1>2, <1>3, <2>1 DEF Lacks
  <2>2. CASE ~(i <= Len(p))
    <3>1. i - Len(p) \in 1 .. Len(q)
      BY <1>1, <1>2, <2>2
    <3> QED BY <1>1, <1>2, <1>3, <2>2, <3>1 DEF Lacks
  <2> QED BY <2>1, <2>2
<1> QED BY <1>1, <1>3 DEF Lacks

LEMMA AppendFrame ==
    ASSUME NEW S, NEW q \in Seq(S), NEW f \in S, NEW t
    PROVE  /\ Append(q, f) \in Seq(S) /\ Append(q, f) # <<>>
           /\ Lacks(q, t) /\ f.t # t => Lacks(Append(q, f), t)
           /\ q # <<>> => Head(Append(q, f)) = Head(q)
           /\ q = <<>> => Head(Append(q, f)) = f
           /\ f.t # t /\ (q # <<>> => Lacks(Tail(q), t)) =>
                 Lacks(Tail(Append(q, f)), t)
<1>1. /\ Append(q, f) \in Seq(S) /\ Append(q, f) # <<>>
      /\ Len(Append(q, f)) = Len(q) + 1
      /\ \A i \in 1 .. Len(q) : Append(q, f)[i] = q[i]
      /\ Append(q, f)[Len(q) + 1] = f
  BY AppendProperties
<1>2. Len(q) \in Nat /\ (q = <<>> <=> Len(q) = 0)
  BY LenProperties, EmptySeq
<1>3. Lacks(q, t) /\ f.t # t => Lacks(Append(q, f), t)
  BY <1>1, <1>2 DEF Lacks
<1>4. /\ q # <<>> => Head(Append(q, f)) = Head(q)
      /\ q = <<>> => Head(Append(q, f)) = f
  BY <1>1, <1>2
<1>5. ASSUME f.t # t, q # <<>> => Lacks(Tail(q), t)
      PROVE  Lacks(Tail(Append(q, f)), t)
  <2>1. /\ Len(Tail(Append(q, f))) = Len(q)
        /\ \A i \in 1 .. Len(q) : Tail(Append(q, f))[i] = Append(q, f)[i + 1]
    BY <1>1, <1>2, HeadTailProperties
  <2>2. ASSUME NEW i \in 1 .. Len(q)
        PROVE  Append(q, f)[i + 1].t # t
    <3>1. q # <<>>
      BY <1>2
    <3>2. CASE i = Len(q)
      BY <1>1, <1>5, <3>2
    <3>3. CASE i # Len(q)
      <4>1. i \in 1 .. Len(q) - 1 /\ i + 1 \in 1 .. Len(q)
        BY <1>2, <3>3
      <4>2. Len(Tail(q)) = Len(q) - 1 /\ \A j \in 1 .. Len(Tail(q)) : Tail(q)[j] = q[j + 1]
        BY <3>1, HeadTailProperties
      <4> QED BY <1>1, <1>5, <3>1, <4>1, <4>2 DEF Lacks
    <3> QED BY <3>2, <3>3
  <2> QED BY <2>1, <2>2 DEF Lacks
<1> QED BY <1>1, <1>3, <1>4, <1>5

LEMMA TailFrames ==
    ASSUME NEW S, NEW q \in Seq(S), q # <<>>, NEW t
    PROVE  /\ Head(q) \in S /\ Tail(q) \in Seq(S)
           /\ Lacks(q, t) => Lacks(Tail(q), t) /\ Head(q).t # t
<1>1. /\ Head(q) \in S /\ Tail(q) \in Seq(S)
      /\ Len(Tail(q)) = Len(q) - 1
      /\ \A i \in 1 .. Len(Tail(q)) : Tail(q)[i] = q[i + 1]
  BY HeadTailProperties
<1>2. Len(q) \in Nat /\ Len(q) # 0 /\ Head(q) = q[1]
  BY LenProperties, EmptySeq
<1> QED BY <1>1, <1>2 DEF Lacks
\* match_started is on its way only from a started match.
Told == srv.started \/ Lacks(down, "match_started")

\* The server has bound only an open socket, and has read its identify: frames come
\* down that socket alone, and the identify, first in line, says what the client means.
Wire ==
    /\ sock # "open" => srv.bound # "live" /\ up = <<>>
    /\ srv.bound # "live" => down = <<>>
    /\ srv.bound = "live" => Lacks(up, "identify")
    /\ up # <<>> =>
          /\ Lacks(Tail(up), "identify")
          /\ Head(up).t = "identify" => Head(up).rejoin = sig.rejoin

\* Before the mesh is started nobody is awaited and no ready was sent.
Meshless ==
    ~transport => /\ ~readySent /\ expected = {}
                  /\ \A p \in Peers : links[p] = "none"

Offline == flow = "Idle" => sock = "none"

LEMMA NoFrames ==
    /\ <<>> \in Seq(UpFrames) /\ <<>> \in Seq(DownFrames)
    /\ <<>> \in Seq(Lines) /\ <<>> \in Seq(Nat)
    /\ \A t : Lacks(<<>>, t)
BY EmptySeq DEF Lacks

LEMMA GoneSocket ==
    ASSUME FlowTypeOK, NEW more \in SUBSET {"ready", "leave"}, SocketGone(more)
    PROVE  /\ late' \subseteq {"ready", "leave"}
           /\ srv' \in SessionViews
           /\ srv'.bound # "live" /\ srv'.started = srv.started /\ srv'.hold = srv.hold
<1>1. PICK got \in SUBSET (({up[i].t : i \in DOMAIN up} \cap {"ready"}) \cup more) :
         late' = late \cup got
  BY DEF SocketGone
<1>2. late' \subseteq {"ready", "leave"}
  BY <1>1 DEF FlowTypeOK
<1>3. srv' = IF srv.bound = "live" THEN [srv EXCEPT !.bound = "dead"] ELSE srv
  BY DEF SocketGone
<1>4. srv \in SessionViews
  BY DEF FlowTypeOK
<1> QED BY <1>2, <1>3, <1>4 DEF SessionViews

LEMMA CheckedReady ==
    ASSUME FlowTypeOK, NEW exp, NEW conn, NEW sent \in BOOLEAN,
           CheckPreparingComplete(exp, conn, sent)
    PROVE  /\ readySent' \in BOOLEAN /\ (sent => readySent')
           /\ exp \subseteq conn => readySent'
           /\ up' \in Seq(UpFrames)
           /\ up' # up => sock = "open"
           /\ Lacks(up, "identify") => Lacks(up', "identify")
           /\ (up # <<>> => /\ Lacks(Tail(up), "identify")
                            /\ Head(up).t = "identify" => Head(up).rejoin = sig.rejoin)
              => (up' # <<>> => /\ Lacks(Tail(up'), "identify")
                                /\ Head(up').t = "identify" =>
                                      Head(up').rejoin = sig.rejoin)
<1>1. up \in Seq(UpFrames)
  BY DEF FlowTypeOK
<1>2. Frame("ready") \in UpFrames /\ Frame("ready").t = "ready"
  BY DEF Frame, UpFrames
<1>3. /\ readySent' = (sent \/ (exp \subseteq conn /\ ~sent))
      /\ up' = up \/ (up' = Append(up, Frame("ready")) /\ sock = "open")
  BY DEF CheckPreparingComplete
<1>4. readySent' \in BOOLEAN /\ (sent => readySent') /\ (exp \subseteq conn => readySent')
  BY <1>3, Zenon
<1>5. CASE up' = up
  BY <1>1, <1>4, <1>5
<1>6. CASE up' = Append(up, Frame("ready")) /\ sock = "open"
  <2>1. /\ up' \in Seq(UpFrames)
        /\ Lacks(up, "identify") => Lacks(up', "identify")
        /\ up # <<>> => Head(up') = Head(up)
        /\ up = <<>> => Head(up') = Frame("ready")
        /\ (up # <<>> => Lacks(Tail(up), "identify")) => Lacks(Tail(up'), "identify")
    BY <1>1, <1>2, <1>6, AppendFrame, "identify" # "ready"
  <2> QED BY <1>2, <1>4, <1>6, <2>1
<1> QED BY <1>3, <1>5, <1>6

LEMMA TornDown ==
    ASSUME FlowTypeOK, NEW s \in BOOLEAN, Teardown(s),
           error' \in BOOLEAN, poll' \in [code : Nat, answer : PollAnswers \cup {"none", "pending"}],
           spent' \in [sessions : Nat, drops : Nat, deaths : Nat]
    PROVE  /\ FlowTypeOK' /\ Wire' /\ Told' /\ Meshless' /\ Offline'
           /\ MeshDecidesEntry' /\ FreshFlowIsClean'
<1>1. /\ CloseSignaling(s)
      /\ sig' = NoSig /\ sock' = "none" /\ up' = <<>> /\ down' = <<>>
      /\ transport' = FALSE /\ links' = [p \in Peers |-> "none"]
      /\ expected' = {} /\ connected' = {} /\ failed' = {}
      /\ isRejoin' = FALSE /\ chat' = <<>> /\ heard' = <<>>
      /\ readySent' = FALSE /\ flow' = "Idle"
  BY DEF Teardown, ClearedMesh
<1>2. /\ late' \subseteq {"ready", "leave"}
      /\ srv' \in SessionViews
      /\ srv'.bound # "live" /\ srv'.started = srv.started
  BY <1>1, GoneSocket DEF CloseSignaling
<1>3. FlowTypeOK'
  BY <1>1, <1>2, NoFrames DEF FlowTypeOK, NoSig, States
<1>4. Wire' /\ Told' /\ Meshless' /\ Offline'
  BY <1>1, <1>2, NoFrames DEF Wire, Told, Meshless, Offline
<1>5. MeshDecidesEntry' /\ FreshFlowIsClean'
  BY <1>1 DEF MeshDecidesEntry, FreshFlowIsClean, NoSig
<1> QED BY <1>3, <1>4, <1>5
\* What makes the flow's invariants inductive.
FlowInv ==
    /\ FlowTypeOK /\ Wire /\ Told /\ Meshless /\ Offline
    /\ MeshDecidesEntry /\ FreshFlowIsClean

LEMMA ServerKeepsClient ==
    ASSUME FlowInv, UNCHANGED clientVars, UNCHANGED spent,
           sock' \in {sock, "refused"}, sock' # sock => sock = "open",
           up' \in Seq(UpFrames), down' \in Seq(DownFrames),
           late' \subseteq {"ready", "leave"},
           srv' \in SessionViews, srv.started => srv'.started, Wire', Told'
    PROVE  FlowInv'
<1>1. FlowTypeOK'
  BY DEF FlowInv, FlowTypeOK, clientVars, meshVars
<1>2. Meshless' /\ Offline'
  BY DEF FlowInv, Meshless, Offline, clientVars, meshVars
<1>3. MeshDecidesEntry' /\ FreshFlowIsClean'
  BY DEF FlowInv, MeshDecidesEntry, FreshFlowIsClean, clientVars, meshVars
<1> QED BY <1>1, <1>2, <1>3 DEF FlowInv

\* A push reaches the client only through the socket the server has bound.
LEMMA PushedKeeps ==
    ASSUME FlowInv, NEW fs \in Seq(DownFrames), UNCHANGED <<clientVars, sock, up, late, spent>>,
           srv' \in SessionViews, srv'.bound = srv.bound, srv.started => srv'.started,
           down' \in {down, Pushed(fs)}, srv'.started \/ Lacks(fs, "match_started")
    PROVE  FlowInv'
<1>1. /\ down \in Seq(DownFrames) /\ up \in Seq(UpFrames) /\ late \subseteq {"ready", "leave"}
  BY DEF FlowInv, FlowTypeOK
<1>2. /\ down \o fs \in Seq(DownFrames)
      /\ Lacks(down, "match_started") /\ Lacks(fs, "match_started") =>
            Lacks(down \o fs, "match_started")
  BY <1>1, ConcatFrames
<1>3. down' = down \/ (down' = down \o fs /\ srv.bound = "live")
  BY DEF Pushed
<1>4. down' \in Seq(DownFrames)
  BY <1>1, <1>2, <1>3
<1>5. Wire'
  BY <1>3 DEF FlowInv, Wire, clientVars
<1>6. Told'
  BY <1>2, <1>3 DEF FlowInv, Told
<1> QED BY <1>1, <1>4, <1>5, <1>6, ServerKeepsClient

LEMMA OneFrame ==
    /\ <<Frame("match_started")>> \in Seq(DownFrames)
    /\ <<Frame("session_ended")>> \in Seq(DownFrames)
    /\ Lacks(<<Frame("session_ended")>>, "match_started")
    /\ <<Frame("game_over"), Frame("session_ended")>> \in Seq(DownFrames)
    /\ Lacks(<<Frame("game_over"), Frame("session_ended")>>, "match_started")
    /\ \A ps \in SUBSET Everyone :
          LET f == <<[t |-> "start_signaling", peers |-> ps]>>
          IN  f \in Seq(DownFrames) /\ Lacks(f, "match_started")
    /\ \A p \in Peers :
          LET f == <<[t |-> "peer_left", peer |-> p]>>
              g == <<[t |-> "peer_left", peer |-> p]>> \o <<Frame("session_ended")>>
          IN  /\ f \in Seq(DownFrames) /\ Lacks(f, "match_started")
              /\ g \in Seq(DownFrames) /\ Lacks(g, "match_started")
<1>1. /\ Frame("match_started") \in DownFrames /\ Frame("session_ended") \in DownFrames
      /\ Frame("game_over") \in DownFrames
      /\ Frame("session_ended").t = "session_ended" /\ Frame("game_over").t = "game_over"
  BY DEF Frame, DownFrames
<1>2. /\ <<Frame("match_started")>> \in Seq(DownFrames)
      /\ <<Frame("session_ended")>> \in Seq(DownFrames)
      /\ <<Frame("game_over"), Frame("session_ended")>> \in Seq(DownFrames)
  BY <1>1
<1>3. /\ Lacks(<<Frame("session_ended")>>, "match_started")
      /\ Lacks(<<Frame("game_over"), Frame("session_ended")>>, "match_started")
  BY <1>1 DEF Lacks
<1>4. ASSUME NEW ps \in SUBSET Everyone
      PROVE  /\ <<[t |-> "start_signaling", peers |-> ps]>> \in Seq(DownFrames)
             /\ Lacks(<<[t |-> "start_signaling", peers |-> ps]>>, "match_started")
  BY DEF DownFrames, Lacks
<1>5. ASSUME NEW p \in Peers
      PROVE  /\ <<[t |-> "peer_left", peer |-> p]>> \in Seq(DownFrames)
             /\ Lacks(<<[t |-> "peer_left", peer |-> p]>>, "match_started")
  BY DEF DownFrames, Lacks
<1>6. ASSUME NEW p \in Peers
      PROVE  LET g == <<[t |-> "peer_left", peer |-> p]>> \o <<Frame("session_ended")>>
             IN  g \in Seq(DownFrames) /\ Lacks(g, "match_started")
  BY <1>2, <1>3, <1>5, <1>6, ConcatFrames
<1> QED BY <1>2, <1>3, <1>4, <1>5, <1>6
LEMMA ReadiedKeeps ==
    ASSUME FlowInv, NEW p \in Everyone, Readied(p),
           up' \in Seq(UpFrames), late' \subseteq {"ready", "leave"},
           UNCHANGED <<clientVars, sock, spent>>,
           srv.bound = "live" => Lacks(up', "identify"),
           up' # <<>> => /\ up # <<>> /\ Lacks(Tail(up'), "identify")
                         /\ Head(up').t = "identify" => Head(up').rejoin = sig.rejoin
    PROVE  FlowInv'
<1>1. /\ srv \in SessionViews /\ down \in Seq(DownFrames)
  BY DEF FlowInv, FlowTypeOK
<1>2. /\ srv' \in SessionViews /\ srv'.bound = srv.bound
      /\ srv.started => srv'.started
      /\ down' \in {down, Pushed(<<Frame("match_started")>>)}
      /\ down' # down => srv'.started
  <2> DEFINE r == srv.ready \cup {p}
  <2>0. r \in SUBSET Everyone /\ srv.roster \in SUBSET Everyone
    BY <1>1 DEF SessionViews
  <2>1. CASE srv.started
    <3>1. srv' = [srv EXCEPT !.hold = @ /\ p # Me]
      BY <2>1 DEF Readied
    <3>2. down' \in {down, Pushed(<<Frame("match_started")>>)}
      BY <2>1 DEF Readied
    <3> QED BY <1>1, <2>1, <3>1, <3>2 DEF SessionViews
  <2>2. CASE ~srv.started
    <3>1. /\ srv' = [srv EXCEPT !.ready = r, !.started = srv.roster \subseteq r]
          /\ down' = IF srv.roster \subseteq r THEN Pushed(<<Frame("match_started")>>)
                     ELSE down
      BY <2>2 DEF Readied
    <3> HIDE DEF r
    <3>2. /\ srv' \in SessionViews /\ srv'.bound = srv.bound
          /\ srv'.started <=> srv.roster \subseteq r
      BY <1>1, <2>0, <3>1 DEF SessionViews
    <3> QED BY <2>2, <3>1, <3>2
  <2> QED BY <2>1, <2>2
<1>3. down' = down \/ (down' = down \o <<Frame("match_started")>> /\ srv.bound = "live")
  BY <1>2 DEF Pushed
<1>4. down' \in Seq(DownFrames)
  <2>1. down \o <<Frame("match_started")>> \in Seq(DownFrames)
    BY <1>1, OneFrame, ConcatProperties
  <2> QED BY <1>1, <1>3, <2>1
<1>5. Wire'
  BY <1>2, <1>3 DEF FlowInv, Wire, clientVars
<1>6. Told'
  BY <1>2 DEF FlowInv, Told
<1> QED BY <1>2, <1>4, <1>5, <1>6, ServerKeepsClient

LEMMA ServerIdentifiesKeeps == FlowInv /\ ServerIdentifies => FlowInv'
<1> SUFFICES ASSUME FlowInv, ServerIdentifies PROVE FlowInv'
  OBVIOUS
<1>1. /\ up # <<>> /\ Head(up).t = "identify"
      /\ up \in Seq(UpFrames) /\ down \in Seq(DownFrames) /\ srv \in SessionViews
      /\ late \subseteq {"ready", "leave"} /\ UNCHANGED <<clientVars, late, spent>>
  BY DEF ServerIdentifies, Serves, FlowInv, FlowTypeOK
<1>2. sock = "open"
  BY <1>1 DEF FlowInv, Wire
<1>3. ~Lacks(up, "identify")
  BY <1>1, TailFrames
<1>4. srv.bound # "live" /\ down = <<>>
  BY <1>3 DEF FlowInv, Wire
<1>5. Lacks(Tail(up), "identify")
  BY <1>1 DEF FlowInv, Wire
<1>6. CASE srv.status # "over" /\ Me \in srv.members
  <2> DEFINE f == [t |-> "identified", peers |-> srv.members \ {Me},
                   seated |-> srv.status # "waiting"]
  <2>1. /\ up' = Tail(up) /\ sock' = sock
        /\ srv' = [srv EXCEPT !.bound = "live",
                              !.hold = @ \/ (Head(up).rejoin /\ srv.started)]
        /\ down' = Append(down, f)
    BY <1>6 DEF ServerIdentifies
  <2>2. f \in DownFrames /\ f.t = "identified"
    BY <1>1 DEF DownFrames, SessionViews, Everyone
  <2>3. /\ down' \in Seq(DownFrames) /\ down' # <<>>
        /\ Lacks(down, "match_started") => Lacks(down', "match_started")
    BY <1>1, <2>1, <2>2, AppendFrame, "identified" # "match_started"
  <2>4. /\ srv' \in SessionViews /\ srv'.bound = "live" /\ srv'.started = srv.started
    BY <1>1, <2>1 DEF SessionViews
  <2>5. up' \in Seq(UpFrames) /\ Lacks(up', "identify")
    BY <1>1, <1>5, <2>1, TailFrames
  <2>6. up' # <<>> => Lacks(Tail(up'), "identify") /\ Head(up').t # "identify"
    BY <2>5, TailFrames
  <2>7. Wire'
    BY <1>2, <2>1, <2>4, <2>5, <2>6 DEF Wire
  <2>8. Told'
    BY <2>3, <2>4 DEF FlowInv, Told
  <2> QED BY <1>1, <2>1, <2>3, <2>4, <2>5, <2>7, <2>8, ServerKeepsClient
<1>7. CASE ~(srv.status # "over" /\ Me \in srv.members)
  <2>1. sock' = "refused" /\ up' = <<>> /\ UNCHANGED <<srv, down>>
    BY <1>7 DEF ServerIdentifies
  <2>2. Wire' /\ Told'
    BY <1>4, <2>1, NoFrames DEF FlowInv, Wire, Told
  <2> QED BY <1>1, <1>2, <2>1, <2>2, NoFrames, ServerKeepsClient
<1> QED BY <1>6, <1>7

LEMMA ServerGetsReadyKeeps == FlowInv /\ ServerGetsReady => FlowInv'
<1> SUFFICES ASSUME FlowInv, ServerGetsReady PROVE FlowInv'
  OBVIOUS
<1>1. /\ up # <<>> /\ Head(up).t = "ready" /\ up' = Tail(up)
      /\ up \in Seq(UpFrames) /\ late' \subseteq {"ready", "leave"}
      /\ down \in Seq(DownFrames) /\ srv \in SessionViews
      /\ UNCHANGED <<clientVars, sock, spent>>
  BY DEF ServerGetsReady, Serves, FlowInv, FlowTypeOK
<1>2. Lacks(Tail(up), "identify")
  BY <1>1 DEF FlowInv, Wire
<1>3. /\ up' \in Seq(UpFrames) /\ Lacks(up', "identify")
      /\ up' # <<>> => Lacks(Tail(up'), "identify") /\ Head(up').t # "identify"
  BY <1>1, <1>2, TailFrames
<1>4. CASE Readied(Me)
  BY <1>1, <1>3, <1>4, ReadiedKeeps DEF Everyone
<1>5. CASE UNCHANGED <<srv, down>>
  <2>1. Wire' /\ Told'
    BY <1>1, <1>3, <1>5 DEF FlowInv, Wire, Told, clientVars
  <2> QED BY <1>1, <1>3, <1>5, <2>1, ServerKeepsClient
<1> QED BY <1>4, <1>5 DEF ServerGetsReady

LEMMA ServerGetsLateKeeps ==
    ASSUME NEW f \in {"ready", "leave"}
    PROVE  FlowInv /\ ServerGetsLate(f) => FlowInv'
<1> SUFFICES ASSUME FlowInv, ServerGetsLate(f) PROVE FlowInv'
  OBVIOUS
<1>1. /\ late' \subseteq {"ready", "leave"} /\ UNCHANGED <<clientVars, sock, up, spent>>
      /\ up \in Seq(UpFrames) /\ down \in Seq(DownFrames) /\ srv \in SessionViews
  BY DEF ServerGetsLate, FlowInv, FlowTypeOK
<1>2. CASE f = "ready" /\ Live
  <2>1. Readied(Me)
    BY <1>2 DEF ServerGetsLate
  <2> QED BY <1>1, <2>1, ReadiedKeeps DEF Everyone, FlowInv, Wire
<1>3. CASE ~(f = "ready" /\ Live)
  <2>1. /\ srv' \in {srv, [srv EXCEPT !.members = @ \ {Me}]} /\ UNCHANGED down
    BY <1>3 DEF ServerGetsLate
  <2>2. /\ srv' \in SessionViews /\ srv'.bound = srv.bound /\ srv'.started = srv.started
    BY <1>1, <2>1 DEF SessionViews
  <2>3. Wire' /\ Told'
    BY <1>1, <2>1, <2>2 DEF FlowInv, Wire, Told, clientVars
  <2> QED BY <1>1, <2>1, <2>2, <2>3, ServerKeepsClient
<1> QED BY <1>2, <1>3
\* What the server does by itself: it marks the session and may push a frame.
LEMMA ServerActsKeeps ==
    ASSUME FlowInv,
           \/ ServerSeesDrop \/ ServerFreesSlot \/ ServerStarts \/ ServerAnnounces
           \/ ServerForcesStart \/ ServerActivates \/ ServerReleasesHold
           \/ ServerDecidesMatch \/ ServerEndsSession
    PROVE  FlowInv'
<1>1. /\ srv \in SessionViews /\ down \in Seq(DownFrames) /\ up \in Seq(UpFrames)
      /\ late \subseteq {"ready", "leave"}
  BY DEF FlowInv, FlowTypeOK
<1>2. CASE ServerSeesDrop
  <2>1. /\ srv' = [srv EXCEPT !.bound = "none", !.hold = FALSE] /\ srv.bound = "dead"
        /\ UNCHANGED <<clientVars, netVars, spent>>
    BY <1>2 DEF ServerSeesDrop
  <2>2. srv' \in SessionViews /\ srv'.bound = "none" /\ srv'.started = srv.started
    BY <1>1, <2>1 DEF SessionViews
  <2>3. Wire' /\ Told'
    BY <2>1, <2>2 DEF FlowInv, Wire, Told, clientVars, netVars
  <2> QED BY <1>1, <2>1, <2>2, <2>3, ServerKeepsClient DEF netVars
<1>3. CASE ServerFreesSlot \/ ServerStarts \/ ServerActivates \/ ServerReleasesHold
  <2>1. /\ UNCHANGED <<clientVars, netVars, spent>>
        /\ \/ srv' = [srv EXCEPT !.members = @ \ {Me}]
           \/ srv' = [srv EXCEPT !.status = "starting", !.roster = srv.members]
           \/ srv' = [srv EXCEPT !.status = "active"]
           \/ srv' = [srv EXCEPT !.hold = FALSE]
    BY <1>3 DEF ServerFreesSlot, ServerStarts, ServerActivates, ServerReleasesHold
  <2>2. srv' \in SessionViews /\ srv'.bound = srv.bound /\ srv'.started = srv.started
    <3>1. CASE srv' = [srv EXCEPT !.members = @ \ {Me}]
      BY <1>1, <3>1 DEF SessionViews
    <3>2. CASE srv' = [srv EXCEPT !.status = "starting", !.roster = srv.members]
      BY <1>1, <3>2 DEF SessionViews
    <3>3. CASE srv' = [srv EXCEPT !.status = "active"]
      BY <1>1, <3>3 DEF SessionViews
    <3>4. CASE srv' = [srv EXCEPT !.hold = FALSE]
      BY <1>1, <3>4 DEF SessionViews
    <3> QED BY <2>1, <3>1, <3>2, <3>3, <3>4
  <2>3. <<>> \in Seq(DownFrames) /\ Lacks(<<>>, "match_started")
    BY NoFrames
  <2> QED BY <2>1, <2>2, <2>3, PushedKeeps DEF netVars
<1>4. CASE ServerAnnounces
  <2> DEFINE fs == <<[t |-> "start_signaling", peers |-> srv.roster]>>
  <2>1. /\ srv' = [srv EXCEPT !.announced = TRUE] /\ down' = Pushed(fs)
        /\ UNCHANGED <<clientVars, sock, up, late, spent>>
    BY <1>4 DEF ServerAnnounces
  <2>2. srv' \in SessionViews /\ srv'.bound = srv.bound /\ srv'.started = srv.started
    BY <1>1, <2>1 DEF SessionViews
  <2>3. fs \in Seq(DownFrames) /\ Lacks(fs, "match_started")
    BY <1>1, OneFrame DEF SessionViews
  <2> HIDE DEF fs
  <2> QED BY <2>1, <2>2, <2>3, PushedKeeps
<1>5. CASE ServerForcesStart
  <2>1. /\ srv' = [srv EXCEPT !.started = TRUE]
        /\ down' = Pushed(<<Frame("match_started")>>)
        /\ UNCHANGED <<clientVars, sock, up, late, spent>>
    BY <1>5 DEF ServerForcesStart, Start
  <2>2. srv' \in SessionViews /\ srv'.bound = srv.bound /\ srv'.started
    BY <1>1, <2>1 DEF SessionViews
  <2> QED BY <2>1, <2>2, OneFrame, PushedKeeps
<1>6. CASE ServerDecidesMatch \/ ServerEndsSession
  <2> DEFINE one == <<Frame("session_ended")>>
             two == <<Frame("game_over"), Frame("session_ended")>>
  <2>1. /\ srv' = [srv EXCEPT !.status = "over"] /\ down' \in {Pushed(one), Pushed(two)}
        /\ UNCHANGED <<clientVars, sock, up, late, spent>>
    BY <1>6 DEF ServerDecidesMatch, ServerEndsSession
  <2>2. srv' \in SessionViews /\ srv'.bound = srv.bound /\ srv'.started = srv.started
    BY <1>1, <2>1 DEF SessionViews
  <2>3. /\ one \in Seq(DownFrames) /\ Lacks(one, "match_started")
        /\ two \in Seq(DownFrames) /\ Lacks(two, "match_started")
    BY OneFrame
  <2> HIDE DEF one, two
  <2> QED BY <2>1, <2>2, <2>3, PushedKeeps
<1> QED BY <1>2, <1>3, <1>4, <1>5, <1>6

LEMMA PeerGetsReadyKeeps ==
    ASSUME NEW p \in Peers
    PROVE  FlowInv /\ PeerGetsReady(p) => FlowInv'
<1> SUFFICES ASSUME FlowInv, PeerGetsReady(p) PROVE FlowInv'
  OBVIOUS
<1>1. Readied(p) /\ UNCHANGED <<clientVars, sock, up, late, spent>>
  BY DEF PeerGetsReady
<1>2. up \in Seq(UpFrames) /\ late \subseteq {"ready", "leave"} /\ Wire
  BY DEF FlowInv, FlowTypeOK
<1> QED BY <1>1, <1>2, ReadiedKeeps DEF Everyone, Wire

LEMMA ServerLosesPeerKeeps ==
    ASSUME NEW p \in Peers
    PROVE  FlowInv /\ ServerLosesPeer(p) => FlowInv'
<1> SUFFICES ASSUME FlowInv, ServerLosesPeer(p) PROVE FlowInv'
  OBVIOUS
<1> DEFINE left == srv.members \ {p}
           alone == Live /\ Cardinality(left) < 2
           fs == <<[t |-> "peer_left", peer |-> p]>>
                 \o (IF alone THEN <<Frame("session_ended")>> ELSE <<>>)
<1>1. /\ srv' = [srv EXCEPT !.members = left, !.status = IF alone THEN "over" ELSE @]
      /\ down' = Pushed(fs)
      /\ UNCHANGED <<clientVars, sock, up, late, spent>>
  BY DEF ServerLosesPeer
<1>2. srv \in SessionViews
  BY DEF FlowInv, FlowTypeOK
<1>3. /\ <<[t |-> "peer_left", peer |-> p]>> \in Seq(DownFrames)
      /\ Lacks(<<[t |-> "peer_left", peer |-> p]>>, "match_started")
      /\ <<Frame("session_ended")>> \in Seq(DownFrames) /\ <<>> \in Seq(DownFrames)
      /\ Lacks(<<Frame("session_ended")>>, "match_started") /\ Lacks(<<>>, "match_started")
  BY OneFrame, NoFrames
<1>4. fs \in Seq(DownFrames) /\ Lacks(fs, "match_started")
  BY <1>3, ConcatFrames
<1> HIDE DEF alone, fs
<1>5. srv' \in SessionViews /\ srv'.bound = srv.bound /\ srv'.started = srv.started
  BY <1>1, <1>2 DEF SessionViews
<1> QED BY <1>1, <1>4, <1>5, PushedKeeps

LEMMA ServerStepKeeps == FlowInv /\ ServerNext => FlowInv'
BY ServerIdentifiesKeeps, ServerGetsReadyKeeps, ServerGetsLateKeeps, ServerActsKeeps,
   PeerGetsReadyKeeps, ServerLosesPeerKeeps DEF ServerNext
LEMMA FailedFlowKeeps ==
    FlowInv /\ FailFlow /\ UNCHANGED <<poll, spent>> => FlowInv'
BY TornDown DEF FailFlow, FlowInv, FlowTypeOK

LEMMA SpentTyped ==
    ASSUME FlowTypeOK
    PROVE  \A what \in {"sessions", "drops", "deaths"} :
              Spend(what) => spent' \in [sessions : Nat, drops : Nat, deaths : Nat]
<1>1. spent \in [sessions : Nat, drops : Nat, deaths : Nat]
  BY DEF FlowTypeOK
<1> QED BY <1>1 DEF Spend

LEMMA UserStepKeeps == FlowInv /\ UserNext => FlowInv'
<1> SUFFICES ASSUME FlowInv, UserNext PROVE FlowInv'
  OBVIOUS
<1>1. CASE \E s \in BOOLEAN : UserLeaves(s)
  BY <1>1, TornDown DEF UserLeaves, FlowInv, FlowTypeOK
<1>2. CASE ClientDies
  <2>1. Teardown(FALSE) /\ UNCHANGED error /\ poll' = NoPoll /\ Spend("deaths")
    BY <1>2 DEF ClientDies
  <2>2. /\ spent' \in [sessions : Nat, drops : Nat, deaths : Nat]
        /\ error' \in BOOLEAN
    BY <2>1, SpentTyped DEF FlowInv, FlowTypeOK
  <2>3. poll' \in [code : Nat, answer : PollAnswers \cup {"none", "pending"}]
    BY <2>1 DEF NoPoll
  <2> QED BY <2>1, <2>2, <2>3, TornDown DEF FlowInv
<1>3. CASE EnterLobby
  <2>1. /\ flow = "Idle" /\ flow' = "InLobby" /\ error' = FALSE /\ late' = {}
        /\ srv' = FreshSession(spent.sessions + 1)
        /\ sig' = [on |-> TRUE, rejoin |-> isRejoin, reconnecting |-> FALSE]
        /\ sock' = "connecting" /\ up' = <<>> /\ down' = <<>>
        /\ UNCHANGED <<isRejoin, meshVars, poll, chat, heard>>
        /\ Spend("sessions")
    BY <1>3 DEF EnterLobby, OpenSignaling
  <2>2. srv' \in SessionViews /\ srv'.bound = "none"
    BY <2>1 DEF FlowInv, FlowTypeOK, FreshSession, SessionViews, Everyone
  <2>3. FlowTypeOK'
    <3>1. spent' \in [sessions : Nat, drops : Nat, deaths : Nat]
      BY <2>1, SpentTyped DEF FlowInv
    <3>2. sig' \in [on : BOOLEAN, rejoin : BOOLEAN, reconnecting : BOOLEAN]
      BY <2>1 DEF FlowInv, FlowTypeOK
    <3> QED BY <2>1, <2>2, <3>1, <3>2, NoFrames DEF FlowInv, FlowTypeOK, States, meshVars
  <2>4. Wire' /\ Told' /\ Meshless' /\ Offline'
    BY <2>1, <2>2, NoFrames DEF FlowInv, Wire, Told, Meshless, Offline, meshVars
  <2>5. MeshDecidesEntry' /\ FreshFlowIsClean'
    BY <2>1 DEF FlowInv, MeshDecidesEntry, FreshFlowIsClean, meshVars
  <2> QED BY <2>3, <2>4, <2>5 DEF FlowInv
<1>4. CASE BeginRejoin
  <2>1. /\ flow = "Idle" /\ flow' = "Preparing" /\ error' = FALSE /\ isRejoin' = TRUE
        /\ sig' = [on |-> TRUE, rejoin |-> TRUE, reconnecting |-> FALSE]
        /\ sock' = "connecting" /\ up' = <<>> /\ down' = <<>>
        /\ UNCHANGED <<meshVars, poll, chat, heard, late, srv, spent>>
    BY <1>4 DEF BeginRejoin, OpenSignaling
  <2>2. srv.bound # "live"
    BY <2>1 DEF FlowInv, Offline, Wire
  <2>3. FlowTypeOK'
    BY <2>1, NoFrames DEF FlowInv, FlowTypeOK, States, meshVars
  <2>4. Wire' /\ Told' /\ Meshless' /\ Offline'
    BY <2>1, <2>2, NoFrames DEF FlowInv, Wire, Told, Meshless, Offline, meshVars
  <2>5. MeshDecidesEntry' /\ FreshFlowIsClean'
    BY <2>1 DEF FlowInv, MeshDecidesEntry, FreshFlowIsClean, meshVars
  <2> QED BY <2>3, <2>4, <2>5 DEF FlowInv
<1> QED BY <1>1, <1>2, <1>3, <1>4 DEF UserNext

LEMMA SocketStepKeeps == FlowInv /\ SocketNext => FlowInv'
<1> SUFFICES ASSUME FlowInv, SocketNext PROVE FlowInv'
  OBVIOUS
<1>1. CASE SocketOpens
  <2> DEFINE hello == [t |-> "identify", rejoin |-> sig.rejoin]
             tail == IF sig.reconnecting /\ flow = "Preparing" /\ readySent
                     THEN <<Frame("ready")>> ELSE <<>>
  <2>1. /\ sock = "connecting" /\ sock' = "open"
        /\ up' = <<hello>> \o tail
        /\ sig' = [sig EXCEPT !.reconnecting = FALSE]
        /\ UNCHANGED <<flow, isRejoin, error, meshVars, poll, chat, heard, down, late, srv,
                       spent>>
    BY <1>1 DEF SocketOpens
  <2>2. sig \in [on : BOOLEAN, rejoin : BOOLEAN, reconnecting : BOOLEAN]
    BY DEF FlowInv, FlowTypeOK
  <2>3. /\ sig' \in [on : BOOLEAN, rejoin : BOOLEAN, reconnecting : BOOLEAN]
        /\ sig'.rejoin = sig.rejoin /\ sig'.on = sig.on
    BY <2>1, <2>2
  <2>4. hello \in UpFrames /\ Frame("ready") \in UpFrames
    BY <2>2 DEF UpFrames, Frame
  <2>5. tail \in Seq(UpFrames) /\ Lacks(tail, "identify")
    BY <2>4, NoFrames DEF Lacks, Frame
  <2> HIDE DEF tail
  <2>6. /\ <<hello>> \o tail \in Seq(UpFrames)
        /\ Head(<<hello>> \o tail) = hello /\ Tail(<<hello>> \o tail) = tail
    <3>1. /\ <<hello>> \in Seq(UpFrames) /\ Len(<<hello>>) = 1 /\ <<hello>>[1] = hello
      BY <2>4
    <3>2. /\ <<hello>> \o tail \in Seq(UpFrames)
          /\ Len(<<hello>> \o tail) = 1 + Len(tail)
          /\ \A i \in 1 .. 1 + Len(tail) :
                (<<hello>> \o tail)[i] = IF i <= 1 THEN <<hello>>[i] ELSE tail[i - 1]
      BY <2>5, <3>1, ConcatProperties
    <3>3. Len(tail) \in Nat
      BY <2>5, LenProperties
    <3>4. <<hello>> \o tail # <<>>
      BY <3>2, <3>3, EmptySeq
    <3>5. /\ Tail(<<hello>> \o tail) \in Seq(UpFrames)
          /\ Len(Tail(<<hello>> \o tail)) = Len(tail)
          /\ \A i \in 1 .. Len(tail) : Tail(<<hello>> \o tail)[i] = tail[i]
      BY <3>2, <3>3, <3>4, HeadTailProperties
    <3>6. Tail(<<hello>> \o tail) = tail
      BY <2>5, <3>5, SeqEqual
    <3>7. Head(<<hello>> \o tail) = hello
      BY <3>1, <3>2, <3>3
    <3> QED BY <3>2, <3>6, <3>7
  <2>7. FlowTypeOK'
    BY <2>1, <2>3, <2>6 DEF FlowInv, FlowTypeOK, meshVars
  <2>8. Wire'
    <3>1. srv'.bound # "live" /\ down' = <<>> /\ sock' = "open"
      BY <2>1 DEF FlowInv, Wire
    <3>2. Lacks(Tail(up'), "identify") /\ Head(up').rejoin = sig'.rejoin
      <4>1. hello.rejoin = sig.rejoin
        OBVIOUS
      <4> HIDE DEF hello
      <4>2. Tail(up') = tail /\ Head(up') = hello
        BY <2>1, <2>6
      <4> QED BY <2>3, <2>5, <4>1, <4>2
    <3> QED BY <3>1, <3>2 DEF Wire
  <2>9. Told' /\ Meshless' /\ Offline'
    BY <2>1 DEF FlowInv, Told, Meshless, Offline, meshVars
  <2>10. MeshDecidesEntry' /\ FreshFlowIsClean'
    BY <2>1, <2>3 DEF FlowInv, MeshDecidesEntry, FreshFlowIsClean, meshVars
  <2> QED BY <2>7, <2>8, <2>9, <2>10 DEF FlowInv
<1>2. CASE SocketDrops
  <2>1. /\ sock # "none" /\ sock' = "lost" /\ up' = <<>> /\ down' = <<>>
        /\ sig' = [sig EXCEPT !.reconnecting = TRUE]
        /\ SocketGone({})
        /\ Spend("drops")
        /\ UNCHANGED <<flow, isRejoin, error, meshVars, poll, chat, heard>>
    BY <1>2 DEF SocketDrops
  <2>2. /\ late' \subseteq {"ready", "leave"} /\ srv' \in SessionViews
        /\ srv'.bound # "live" /\ srv'.started = srv.started
    BY <2>1, GoneSocket DEF FlowInv
  <2>3. /\ sig' \in [on : BOOLEAN, rejoin : BOOLEAN, reconnecting : BOOLEAN]
        /\ sig'.rejoin = sig.rejoin /\ sig'.on = sig.on
    BY <2>1 DEF FlowInv, FlowTypeOK
  <2>4. spent' \in [sessions : Nat, drops : Nat, deaths : Nat]
    BY <2>1, SpentTyped DEF FlowInv
  <2>5. FlowTypeOK'
    BY <2>1, <2>2, <2>3, <2>4, NoFrames DEF FlowInv, FlowTypeOK, meshVars
  <2>6. Wire' /\ Told' /\ Meshless' /\ Offline'
    BY <2>1, <2>2, NoFrames DEF FlowInv, Wire, Told, Meshless, Offline, meshVars
  <2>7. MeshDecidesEntry' /\ FreshFlowIsClean'
    BY <2>1, <2>2, <2>3 DEF FlowInv, MeshDecidesEntry, FreshFlowIsClean, meshVars
  <2> QED BY <2>5, <2>6, <2>7 DEF FlowInv
<1>3. CASE AttemptReconnect
  <2>1. /\ sock = "lost" /\ sock' = "connecting"
        /\ UNCHANGED <<clientVars, up, down, late, srv, spent>>
    BY <1>3 DEF AttemptReconnect
  <2>2. FlowTypeOK' /\ Wire' /\ Told' /\ Meshless' /\ Offline'
    BY <2>1 DEF FlowInv, FlowTypeOK, Wire, Told, Meshless, Offline, clientVars, meshVars
  <2>3. MeshDecidesEntry' /\ FreshFlowIsClean'
    BY <2>1 DEF FlowInv, MeshDecidesEntry, FreshFlowIsClean, clientVars, meshVars
  <2> QED BY <2>2, <2>3 DEF FlowInv
<1>4. CASE OnClosed
  <2>1. CASE flow # "PostMatch"
    BY <1>4, <2>1, FailedFlowKeeps DEF OnClosed
  <2>2. CASE flow = "PostMatch"
    <3>1. /\ sock # "open" /\ sock' = "closed"
          /\ sig' = [sig EXCEPT !.reconnecting = FALSE]
          /\ UNCHANGED <<flow, isRejoin, error, meshVars, poll, chat, heard, up, down, late,
                         srv, spent>>
      BY <1>4, <2>2 DEF OnClosed
    <3>2. /\ sig' \in [on : BOOLEAN, rejoin : BOOLEAN, reconnecting : BOOLEAN]
      BY <3>1 DEF FlowInv, FlowTypeOK
    <3>3. FlowTypeOK'
      BY <3>1, <3>2 DEF FlowInv, FlowTypeOK, meshVars
    <3>4. Wire' /\ Told' /\ Meshless' /\ Offline'
      BY <2>2, <3>1 DEF FlowInv, Wire, Told, Meshless, Offline, meshVars
    <3>5. MeshDecidesEntry' /\ FreshFlowIsClean'
      BY <2>2, <3>1 DEF FlowInv, MeshDecidesEntry, FreshFlowIsClean, meshVars
    <3> QED BY <3>3, <3>4, <3>5 DEF FlowInv
  <2> QED BY <2>1, <2>2
<1> QED BY <1>1, <1>2, <1>3, <1>4 DEF SocketNext
LEMMA ConsumedFrame ==
    ASSUME FlowInv, NEW kind, Receives(kind)
    PROVE  /\ down # <<>> /\ Head(down) \in DownFrames /\ Head(down).t = kind
           /\ Tail(down) \in Seq(DownFrames)
           /\ Consume /\ srv' = srv => Told'
           /\ kind = "match_started" => srv.started
           /\ sock = "open" /\ Lacks(up, "identify") /\ flow # "Idle"
           /\ sock' = sock /\ srv' = srv /\ up' \in Seq(UpFrames) /\ Lacks(up', "identify")
              => Wire'
<1>1. /\ down # <<>> /\ Head(down).t = kind /\ sock = "open"
      /\ down \in Seq(DownFrames) /\ up \in Seq(UpFrames)
  BY DEF Receives, FlowInv, FlowTypeOK
<1>2. srv.bound = "live" /\ Lacks(up, "identify") /\ flow # "Idle"
  BY <1>1 DEF FlowInv, Wire, Offline
<1>3. /\ Head(down) \in DownFrames /\ Tail(down) \in Seq(DownFrames)
      /\ Lacks(down, "match_started") =>
            Lacks(Tail(down), "match_started") /\ Head(down).t # "match_started"
  BY <1>1, TailFrames
<1>4. kind = "match_started" => srv.started
  BY <1>1, <1>3 DEF FlowInv, Told
<1>5. Consume /\ srv' = srv => Told'
  BY <1>3 DEF FlowInv, Told, Consume
<1>6. ASSUME sock' = sock, srv' = srv, up' \in Seq(UpFrames), Lacks(up', "identify")
      PROVE  Wire'
  <2>1. up' # <<>> => Lacks(Tail(up'), "identify") /\ Head(up').t # "identify"
    BY <1>6, TailFrames
  <2> QED BY <1>1, <1>2, <1>6, <2>1 DEF Wire
<1> QED BY <1>1, <1>2, <1>3, <1>4, <1>5, <1>6

LEMMA MeshStarted ==
    ASSUME FlowInv, NEW ps \in SUBSET Everyone, StartMesh(ps)
    PROVE  /\ expected' \subseteq Peers /\ connected' = {} /\ failed' = {}
           /\ transport' = TRUE /\ readySent' \in BOOLEAN
           /\ links' \in [Peers -> {"none", "new", "open", "failed", "closed"}]
           /\ expected' \subseteq connected' => readySent'
           /\ up' \in Seq(UpFrames)
           /\ Lacks(up, "identify") => Lacks(up', "identify")
<1>1. /\ expected' = ps \ {Me} /\ connected' = {} /\ failed' = {} /\ transport' = TRUE
      /\ links' = [p \in Peers |-> IF p \in ps THEN "new" ELSE "none"]
      /\ CheckPreparingComplete(ps \ {Me}, {}, FALSE)
  BY DEF StartMesh
<1>2. /\ readySent' \in BOOLEAN /\ (ps \ {Me} \subseteq {} => readySent')
      /\ up' \in Seq(UpFrames) /\ (Lacks(up, "identify") => Lacks(up', "identify"))
  BY <1>1, CheckedReady DEF FlowInv
<1> QED BY <1>1, <1>2 DEF Everyone

LEMMA CarriedChat ==
    ASSUME NEW entries \in Seq(Lines)
    PROVE  LET kept == CarryIntoMatch(entries)
           IN  /\ kept \in Seq(Lines)
               /\ Len(kept) = IF Len(entries) <= CarryLimit THEN Len(entries) ELSE CarryLimit
               /\ \A i \in 1 .. Len(kept) :
                     kept[i] = entries[Len(entries) - Len(kept) + i]
<1> DEFINE kept == CarryIntoMatch(entries)
<1>1. Len(entries) \in Nat /\ CarryLimit \in Nat
  BY LenProperties, LimitAssumption
<1>2. CASE Len(entries) <= CarryLimit
  <2>1. kept = entries
    BY <1>2 DEF CarryIntoMatch
  <2> QED BY <1>1, <1>2, <2>1
<1>3. CASE ~(Len(entries) <= CarryLimit)
  <2> DEFINE from == Len(entries) - CarryLimit + 1
  <2>1. kept = SubSeq(entries, from, Len(entries))
    BY <1>3 DEF CarryIntoMatch
  <2>2. from \in Int /\ from >= 1 /\ Len(entries) \in Int /\ from <= Len(entries) + 1
    BY <1>1, <1>3
  <2>3. \A i \in from .. Len(entries) : entries[i] \in Lines
    BY <1>1, <2>2, ElementOfSeq
  <2> HIDE DEF from
  <2>4. /\ kept \in Seq(Lines)
        /\ Len(kept) = IF from <= Len(entries) THEN Len(entries) - from + 1 ELSE 0
        /\ \A i \in 1 .. Len(entries) - from + 1 : kept[i] = entries[from + i - 1]
    BY <2>1, <2>2, <2>3, SubSeqProperties
  <2>5. Len(kept) = CarryLimit
    BY <1>1, <1>3, <2>4 DEF from
  <2>6. \A i \in 1 .. Len(kept) : kept[i] = entries[Len(entries) - Len(kept) + i]
    BY <1>1, <2>2, <2>4, <2>5 DEF from
  <2> QED BY <1>3, <2>4, <2>5, <2>6
<1> QED BY <1>2, <1>3
LEMMA OnIdentifiedKeeps == FlowInv /\ OnIdentified => FlowInv'
<1> SUFFICES ASSUME FlowInv, OnIdentified PROVE FlowInv'
  OBVIOUS
<1>1. /\ Receives("identified") /\ UNCHANGED <<poll, spent>>
  BY DEF OnIdentified
<1>2. /\ Head(down) \in DownFrames /\ Head(down).t = "identified"
      /\ Tail(down) \in Seq(DownFrames) /\ flow # "Idle" /\ Lacks(up, "identify")
      /\ Consume /\ srv' = srv => Told'
      /\ sock' = sock /\ srv' = srv /\ up' \in Seq(UpFrames) /\ Lacks(up', "identify") => Wire'
  BY <1>1, ConsumedFrame
<1>3. CASE flow = "Preparing" /\ ~transport /\ ~Head(down).seated
  BY <1>1, <1>3, FailedFlowKeeps DEF OnIdentified
<1>4. CASE flow = "Preparing" /\ ~transport /\ Head(down).seated
  <2>1. /\ StartMesh(Head(down).peers) /\ Consume
        /\ UNCHANGED <<flow, isRejoin, error, sig, chat, heard, sock, late, srv>>
    BY <1>4 DEF OnIdentified
  <2>2. Head(down).peers \in SUBSET Everyone
    BY <1>2 DEF DownFrames, Everyone
  <2>3. /\ expected' \subseteq Peers /\ connected' = {} /\ failed' = {}
        /\ transport' = TRUE /\ readySent' \in BOOLEAN
        /\ links' \in [Peers -> {"none", "new", "open", "failed", "closed"}]
        /\ expected' \subseteq connected' => readySent'
        /\ up' \in Seq(UpFrames) /\ (Lacks(up, "identify") => Lacks(up', "identify"))
    BY <2>1, <2>2, MeshStarted
  <2>4. FlowTypeOK'
    BY <1>1, <1>2, <2>1, <2>3 DEF FlowInv, FlowTypeOK, Consume
  <2>5. Wire' /\ Told' /\ Meshless' /\ Offline'
    BY <1>2, <1>4, <2>1, <2>3 DEF Meshless, Offline
  <2>6. MeshDecidesEntry' /\ FreshFlowIsClean'
    BY <1>4, <2>1, <2>3 DEF MeshDecidesEntry, FreshFlowIsClean
  <2> QED BY <2>4, <2>5, <2>6 DEF FlowInv
<1>5. CASE ~(flow = "Preparing" /\ ~transport)
  <2>1. /\ Consume
        /\ UNCHANGED <<flow, isRejoin, error, meshVars, sig, chat, heard, sock, up, late, srv>>
    BY <1>5 DEF OnIdentified
  <2>2. FlowTypeOK'
    BY <1>1, <1>2, <2>1 DEF FlowInv, FlowTypeOK, Consume, meshVars
  <2>3. Wire' /\ Told' /\ Meshless' /\ Offline'
    BY <1>2, <2>1 DEF FlowInv, FlowTypeOK, Meshless, Offline, meshVars
  <2>4. MeshDecidesEntry' /\ FreshFlowIsClean'
    BY <2>1 DEF FlowInv, MeshDecidesEntry, FreshFlowIsClean, meshVars
  <2> QED BY <2>2, <2>3, <2>4 DEF FlowInv
<1> QED BY <1>3, <1>4, <1>5

LEMMA OnStartSignalingKeeps == FlowInv /\ OnStartSignaling => FlowInv'
<1> SUFFICES ASSUME FlowInv, OnStartSignaling PROVE FlowInv'
  OBVIOUS
<1>1. /\ Receives("start_signaling") /\ Consume
      /\ UNCHANGED <<isRejoin, error, sig, poll, heard, sock, late, srv, spent>>
  BY DEF OnStartSignaling
<1>2. /\ Head(down) \in DownFrames /\ Head(down).t = "start_signaling"
      /\ Tail(down) \in Seq(DownFrames) /\ flow # "Idle" /\ Lacks(up, "identify")
      /\ Told'
      /\ up' \in Seq(UpFrames) /\ Lacks(up', "identify") => Wire'
  BY <1>1, ConsumedFrame
<1>3. CASE "Preparing" \in Legal[flow]
  <2>1. flow' = "Preparing" /\ chat' = CarryIntoMatch(chat) /\ StartMesh(Head(down).peers)
    BY <1>3 DEF OnStartSignaling
  <2>2. Head(down).peers \in SUBSET Everyone
    BY <1>2 DEF DownFrames
  <2>3. /\ expected' \subseteq Peers /\ connected' = {} /\ failed' = {}
        /\ transport' = TRUE /\ readySent' \in BOOLEAN
        /\ links' \in [Peers -> {"none", "new", "open", "failed", "closed"}]
        /\ expected' \subseteq connected' => readySent'
        /\ up' \in Seq(UpFrames) /\ (Lacks(up, "identify") => Lacks(up', "identify"))
    BY <2>1, <2>2, MeshStarted
  <2>4. chat' \in Seq(Lines)
    BY <2>1, CarriedChat DEF FlowInv, FlowTypeOK
  <2>5. FlowTypeOK'
    BY <1>1, <1>2, <2>1, <2>3, <2>4 DEF FlowInv, FlowTypeOK, Consume, States
  <2>6. Wire' /\ Told' /\ Meshless' /\ Offline'
    BY <1>2, <2>1, <2>3 DEF Meshless, Offline
  <2>7. MeshDecidesEntry' /\ FreshFlowIsClean'
    BY <2>1, <2>3 DEF MeshDecidesEntry, FreshFlowIsClean
  <2> QED BY <2>5, <2>6, <2>7 DEF FlowInv
<1>4. CASE ~("Preparing" \in Legal[flow])
  <2>1. UNCHANGED <<flow, chat, meshVars, up>>
    BY <1>4 DEF OnStartSignaling
  <2>2. FlowTypeOK'
    BY <1>1, <1>2, <2>1 DEF FlowInv, FlowTypeOK, Consume, meshVars
  <2>3. Wire' /\ Told' /\ Meshless' /\ Offline'
    BY <1>1, <1>2, <2>1 DEF FlowInv, FlowTypeOK, Meshless, Offline, meshVars
  <2>4. MeshDecidesEntry' /\ FreshFlowIsClean'
    BY <1>1, <2>1 DEF FlowInv, MeshDecidesEntry, FreshFlowIsClean, meshVars
  <2> QED BY <2>2, <2>3, <2>4 DEF FlowInv
<1> QED BY <1>3, <1>4

LEMMA OnMatchStartedKeeps == FlowInv /\ OnMatchStarted => FlowInv'
<1> SUFFICES ASSUME FlowInv, OnMatchStarted PROVE FlowInv'
  OBVIOUS
<1>1. /\ Receives("match_started") /\ Consume
      /\ UNCHANGED <<isRejoin, error, meshVars, poll, chat, heard, sock, up, late, srv, spent>>
  BY DEF OnMatchStarted
<1>2. /\ Tail(down) \in Seq(DownFrames) /\ flow # "Idle" /\ Lacks(up, "identify")
      /\ srv.started /\ Told'
      /\ up' \in Seq(UpFrames) /\ Lacks(up', "identify") => Wire'
  BY <1>1, ConsumedFrame
<1>3. \/ /\ flow = "Preparing" /\ readySent
         /\ flow' = "InMatch" /\ sig' = [sig EXCEPT !.rejoin = FALSE]
      \/ UNCHANGED <<flow, sig>>
  BY DEF OnMatchStarted
<1>4. sig' \in [on : BOOLEAN, rejoin : BOOLEAN, reconnecting : BOOLEAN]
  BY <1>3 DEF FlowInv, FlowTypeOK
<1>5. FlowTypeOK'
  BY <1>1, <1>2, <1>3, <1>4 DEF FlowInv, FlowTypeOK, Consume, meshVars, States
<1>6. Wire' /\ Told' /\ Meshless' /\ Offline'
  BY <1>1, <1>2, <1>3 DEF FlowInv, FlowTypeOK, Meshless, Offline, meshVars
<1>7. flow = "Preparing" /\ readySent => (sig' = [sig EXCEPT !.rejoin = FALSE] => ~sig'.rejoin)
  BY DEF FlowInv, FlowTypeOK
<1>8. MeshDecidesEntry' /\ FreshFlowIsClean'
  BY <1>1, <1>2, <1>3, <1>7
     DEF FlowInv, FlowTypeOK, MeshDecidesEntry, FreshFlowIsClean, Meshless, meshVars
<1> QED BY <1>5, <1>6, <1>8 DEF FlowInv

LEMMA OnPeerLeftKeeps == FlowInv /\ OnPeerLeft => FlowInv'
<1> SUFFICES ASSUME FlowInv, OnPeerLeft PROVE FlowInv'
  OBVIOUS
<1> DEFINE p == Head(down).peer
<1>1. /\ Receives("peer_left") /\ Consume
      /\ UNCHANGED <<flow, isRejoin, error, transport, links, sig, poll, chat, heard, sock, late,
                     srv, spent>>
  BY DEF OnPeerLeft
<1>2. /\ Tail(down) \in Seq(DownFrames) /\ flow # "Idle" /\ Lacks(up, "identify")
      /\ Told'
      /\ up' \in Seq(UpFrames) /\ Lacks(up', "identify") => Wire'
  BY <1>1, ConsumedFrame
<1>3. CASE flow = "Preparing" /\ p \in expected
  <2>1. /\ expected' = expected \ {p} /\ connected' = connected \ {p}
        /\ failed' = failed \ {p}
        /\ CheckPreparingComplete(expected \ {p}, connected \ {p}, readySent)
    BY <1>3 DEF OnPeerLeft
  <2> HIDE DEF p
  <2>2. /\ readySent' \in BOOLEAN /\ (expected' \subseteq connected' => readySent')
        /\ up' \in Seq(UpFrames) /\ (Lacks(up, "identify") => Lacks(up', "identify"))
    BY <2>1, CheckedReady DEF FlowInv, FlowTypeOK
  <2>3. transport
    BY <1>3 DEF FlowInv, Meshless
  <2>4. FlowTypeOK'
    BY <1>1, <1>2, <2>1, <2>2 DEF FlowInv, FlowTypeOK, Consume
  <2>5. Wire' /\ Told' /\ Meshless' /\ Offline'
    BY <1>1, <1>2, <1>3, <2>2, <2>3 DEF Meshless, Offline
  <2>6. MeshDecidesEntry' /\ FreshFlowIsClean'
    BY <1>1, <1>3, <2>2 DEF MeshDecidesEntry, FreshFlowIsClean
  <2> QED BY <2>4, <2>5, <2>6 DEF FlowInv
<1>4. CASE ~(flow = "Preparing" /\ p \in expected)
  <2>1. UNCHANGED <<expected, connected, failed, readySent, up>>
    BY <1>4 DEF OnPeerLeft
  <2> HIDE DEF p
  <2>2. FlowTypeOK'
    BY <1>1, <1>2, <2>1 DEF FlowInv, FlowTypeOK, Consume
  <2>3. Wire' /\ Told' /\ Meshless' /\ Offline'
    BY <1>1, <1>2, <2>1 DEF FlowInv, FlowTypeOK, Meshless, Offline
  <2>4. MeshDecidesEntry' /\ FreshFlowIsClean'
    BY <1>1, <2>1 DEF FlowInv, MeshDecidesEntry, FreshFlowIsClean
  <2> QED BY <2>2, <2>3, <2>4 DEF FlowInv
<1> QED BY <1>3, <1>4

LEMMA EndFramesKeep == FlowInv /\ (OnGameOver \/ OnSessionEnded) => FlowInv'
<1> SUFFICES ASSUME FlowInv, OnGameOver \/ OnSessionEnded PROVE FlowInv'
  OBVIOUS
<1>1. UNCHANGED <<poll, spent>>
  BY DEF OnGameOver, OnSessionEnded
<1>2. CASE FailFlow
  BY <1>1, <1>2, FailedFlowKeeps
<1>3. CASE /\ Consume
           /\ \/ Receives("game_over") /\ flow # "Preparing"
                 /\ flow' = IF "PostMatch" \in Legal[flow] THEN "PostMatch" ELSE flow
              \/ Receives("session_ended") /\ flow' = flow
           /\ UNCHANGED <<isRejoin, error, meshVars, sig, chat, heard, sock, up, late, srv>>
  <2>1. /\ Tail(down) \in Seq(DownFrames) /\ flow # "Idle" /\ Lacks(up, "identify")
        /\ Told'
        /\ up' \in Seq(UpFrames) /\ Lacks(up', "identify") => Wire'
    BY <1>3, ConsumedFrame
  <2>2. flow' = flow \/ flow' = "PostMatch"
    BY <1>3
  <2>3. FlowTypeOK'
    BY <1>1, <1>3, <2>1, <2>2 DEF FlowInv, FlowTypeOK, Consume, meshVars, States
  <2>4. Wire' /\ Told' /\ Meshless' /\ Offline'
    BY <1>3, <2>1, <2>2 DEF FlowInv, FlowTypeOK, Meshless, Offline, meshVars
  <2>5. MeshDecidesEntry' /\ FreshFlowIsClean'
    BY <1>3, <2>2 DEF FlowInv, MeshDecidesEntry, FreshFlowIsClean, meshVars
  <2> QED BY <2>3, <2>4, <2>5 DEF FlowInv
<1> QED BY <1>2, <1>3 DEF OnGameOver, OnSessionEnded
LEMMA ChatStepTyped ==
    ASSUME FlowInv, ChatNext
    PROVE  /\ chat' \in Seq(Lines) /\ heard' \in Seq(Nat) /\ srv' \in SessionViews
           /\ srv'.bound = srv.bound /\ srv'.started = srv.started /\ srv'.hold = srv.hold
           /\ sock = "open"
           /\ UNCHANGED <<flow, isRejoin, error, meshVars, sig, poll, netVars, spent>>
<1>1. /\ chat \in Seq(Lines) /\ heard \in Seq(Nat) /\ srv \in SessionViews
  BY DEF FlowInv, FlowTypeOK
<1>2. CASE OnChatMessage
  <2> DEFINE n == srv.lines + 1
  <2>1. n \in Nat
    BY <1>1 DEF SessionViews
  <2>2. [body |-> n, deleted |-> FALSE] \in Lines
    BY <2>1 DEF Lines
  <2>3. /\ chat' = Append(chat, [body |-> n, deleted |-> FALSE]) /\ heard' = Append(heard, n)
        /\ srv' = [srv EXCEPT !.lines = @ + 1] /\ sock = "open"
        /\ UNCHANGED <<flow, isRejoin, error, meshVars, sig, poll, netVars, spent>>
    BY <1>2 DEF OnChatMessage
  <2>4. /\ srv' \in SessionViews
        /\ srv'.bound = srv.bound /\ srv'.started = srv.started /\ srv'.hold = srv.hold
    BY <1>1, <2>1, <2>3 DEF SessionViews
  <2> HIDE DEF n
  <2> QED BY <1>1, <2>1, <2>2, <2>3, <2>4, AppendProperties
<1>3. CASE \E body \in 1 .. MaxEvents : OnChatBodyDeleted(body)
  <2>1. PICK body \in 1 .. MaxEvents : OnChatBodyDeleted(body)
    BY <1>3
  <2>2. body \in Nat
    BY LimitAssumption
  <2>3. /\ chat' = [i \in DOMAIN chat |->
                      [chat[i] EXCEPT !.deleted = @ \/ chat[i].body = body]]
        /\ srv' = [srv EXCEPT !.withdrawn = body] /\ sock = "open"
        /\ UNCHANGED <<flow, isRejoin, error, meshVars, sig, poll, heard, netVars, spent>>
    BY <2>1 DEF OnChatBodyDeleted
  <2>4. Len(chat) \in Nat /\ DOMAIN chat = 1 .. Len(chat)
    BY <1>1, LenProperties
  <2>5. \A i \in 1 .. Len(chat) : chat[i] \in Lines
    BY <1>1, ElementOfSeq
  <2>6. \A i \in 1 .. Len(chat) : [chat[i] EXCEPT !.deleted = @ \/ chat[i].body = body] \in Lines
    BY <2>5 DEF Lines
  <2>7. chat' \in [1 .. Len(chat) -> Lines]
    BY <2>3, <2>4, <2>6
  <2>8. chat' \in Seq(Lines)
    BY <2>4, <2>7, SeqDef
  <2>9. /\ srv' \in SessionViews
        /\ srv'.bound = srv.bound /\ srv'.started = srv.started /\ srv'.hold = srv.hold
    BY <1>1, <2>2, <2>3 DEF SessionViews
  <2> QED BY <1>1, <2>3, <2>8, <2>9
<1> QED BY <1>2, <1>3 DEF ChatNext

LEMMA ChatStepKeeps == FlowInv /\ ChatNext => FlowInv'
<1> SUFFICES ASSUME FlowInv, ChatNext PROVE FlowInv'
  OBVIOUS
<1>1. /\ chat' \in Seq(Lines) /\ heard' \in Seq(Nat) /\ srv' \in SessionViews
      /\ srv'.bound = srv.bound /\ srv'.started = srv.started /\ sock = "open"
      /\ UNCHANGED <<flow, isRejoin, error, meshVars, sig, poll, netVars, spent>>
  BY ChatStepTyped
<1>2. FlowTypeOK'
  BY <1>1 DEF FlowInv, FlowTypeOK, meshVars, netVars
<1>3. Wire' /\ Told' /\ Meshless' /\ Offline'
  BY <1>1 DEF FlowInv, Wire, Told, Meshless, Offline, meshVars, netVars
<1>4. flow # "Idle"
  BY <1>1 DEF FlowInv, Offline
<1>5. MeshDecidesEntry' /\ FreshFlowIsClean'
  BY <1>1, <1>4 DEF FlowInv, MeshDecidesEntry, FreshFlowIsClean, meshVars
<1> QED BY <1>2, <1>3, <1>5 DEF FlowInv

LEMMA PeerStepKeeps == FlowInv /\ PeerNext => FlowInv'
<1> SUFFICES ASSUME FlowInv, NEW p \in Peers,
                    OnMeshPeerConnected(p) \/ OnMeshPeerFailed(p) \/ OnMeshPeerDisconnected(p)
             PROVE  FlowInv'
  BY DEF PeerNext
<1>1. /\ UNCHANGED <<flow, isRejoin, error, transport, expected, sig, poll, chat, heard, sock,
                     down, late, srv, spent>>
      /\ flow = "Preparing" /\ links[p] # "none"
      /\ \E l \in {"open", "failed", "closed"} : links' = [links EXCEPT ![p] = l]
  BY DEF OnMeshPeerConnected, OnMeshPeerFailed, OnMeshPeerDisconnected, netVars
<1>2. transport
  BY <1>1 DEF FlowInv, Meshless
<1>3. /\ connected' \subseteq Peers /\ failed' \subseteq Peers
      /\ readySent' \in BOOLEAN /\ up' \in Seq(UpFrames) /\ Wire'
      /\ expected \subseteq connected' => readySent'
  <2>1. CASE OnMeshPeerConnected(p)
    <3>1. /\ connected' = connected \cup {p} /\ failed' = failed \ {p}
          /\ CheckPreparingComplete(expected, connected \cup {p}, readySent)
      BY <2>1 DEF OnMeshPeerConnected
    <3>2. /\ readySent' \in BOOLEAN /\ (expected \subseteq connected' => readySent')
          /\ up' \in Seq(UpFrames) /\ (up' # up => sock = "open")
          /\ (Lacks(up, "identify") => Lacks(up', "identify"))
          /\ (up # <<>> => /\ Lacks(Tail(up), "identify")
                           /\ Head(up).t = "identify" => Head(up).rejoin = sig.rejoin)
              => (up' # <<>> => /\ Lacks(Tail(up'), "identify")
                                /\ Head(up').t = "identify" =>
                                      Head(up').rejoin = sig.rejoin)
      BY <3>1, CheckedReady DEF FlowInv, FlowTypeOK
    <3>3. Wire'
      BY <1>1, <3>2 DEF FlowInv, Wire
    <3> QED BY <3>1, <3>2, <3>3 DEF FlowInv, FlowTypeOK
  <2>2. CASE OnMeshPeerFailed(p) \/ OnMeshPeerDisconnected(p)
    <3>1. /\ connected' = connected \ {p} /\ failed' \subseteq failed \cup {p}
          /\ UNCHANGED <<readySent, up>>
      BY <2>2 DEF OnMeshPeerFailed, OnMeshPeerDisconnected, netVars
    <3>2. Wire'
      BY <1>1, <3>1 DEF FlowInv, Wire
    <3> QED BY <1>1, <1>2, <3>1, <3>2 DEF FlowInv, FlowTypeOK, MeshDecidesEntry
  <2> QED BY <2>1, <2>2
<1>4. FlowTypeOK'
  BY <1>1, <1>3 DEF FlowInv, FlowTypeOK
<1>5. Told' /\ Meshless' /\ Offline'
  BY <1>1, <1>2 DEF FlowInv, Told, Meshless, Offline
<1>6. MeshDecidesEntry' /\ FreshFlowIsClean'
  BY <1>1, <1>3 DEF MeshDecidesEntry, FreshFlowIsClean
<1> QED BY <1>3, <1>4, <1>5, <1>6 DEF FlowInv

LEMMA PollStepKeeps == FlowInv /\ PollNext => FlowInv'
<1> SUFFICES ASSUME FlowInv, PollNext PROVE FlowInv'
  OBVIOUS
<1> DEFINE Polls == [code : Nat, answer : PollAnswers \cup {"none", "pending"}]
<1>1. poll \in Polls /\ srv \in SessionViews
  BY DEF FlowInv, FlowTypeOK
<1>2. CASE /\ UNCHANGED <<flow, isRejoin, error, meshVars, sig, chat, heard, netVars, srv>>
           /\ poll' \in Polls /\ spent' \in [sessions : Nat, drops : Nat, deaths : Nat]
  <2>1. FlowTypeOK'
    BY <1>2 DEF FlowInv, FlowTypeOK, meshVars, netVars
  <2>2. Wire' /\ Told' /\ Meshless' /\ Offline'
    BY <1>2 DEF FlowInv, Wire, Told, Meshless, Offline, meshVars, netVars
  <2>3. MeshDecidesEntry' /\ FreshFlowIsClean'
    BY <1>2 DEF FlowInv, MeshDecidesEntry, FreshFlowIsClean, meshVars
  <2> QED BY <2>1, <2>2, <2>3 DEF FlowInv
<1>3. CASE MaybePollLobby
  <2>1. poll' \in Polls
    BY <1>1, <1>3 DEF MaybePollLobby, SessionViews
  <2> QED BY <1>2, <1>3, <2>1 DEF MaybePollLobby, FlowInv, FlowTypeOK
<1>4. CASE \E answer \in PollAnswers : PollAnswered(answer)
  <2>1. PICK answer \in PollAnswers : PollAnswered(answer)
    BY <1>4
  <2>2. poll' \in Polls
    <3>1. poll' = [poll EXCEPT !.answer = answer]
      BY <2>1 DEF PollAnswered
    <3> QED BY <1>1, <3>1
  <2>3. spent' \in [sessions : Nat, drops : Nat, deaths : Nat]
    BY <2>1, SpentTyped DEF PollAnswered, FlowInv, FlowTypeOK
  <2> QED BY <1>2, <2>1, <2>2, <2>3 DEF PollAnswered
<1>5. CASE OnLobbyPollResult /\ PollCounts
  <2> DEFINE r == (poll.answer = "active")
  <2>1. /\ poll' = NoPoll /\ flow = "InLobby" /\ flow' = "Preparing"
        /\ isRejoin' = r /\ CloseSignaling(FALSE) /\ chat' = CarryIntoMatch(chat)
        /\ sig' = [on |-> TRUE, rejoin |-> r, reconnecting |-> FALSE]
        /\ sock' = "connecting" /\ up' = <<>> /\ down' = <<>>
        /\ UNCHANGED <<error, meshVars, heard, spent>>
    BY <1>5 DEF OnLobbyPollResult, OpenSignaling, PollCounts
  <2>2. r \in BOOLEAN
    OBVIOUS
  <2> HIDE DEF r
  <2>3. /\ late' \subseteq {"ready", "leave"} /\ srv' \in SessionViews
        /\ srv'.bound # "live" /\ srv'.started = srv.started
    BY <2>1, GoneSocket DEF CloseSignaling, FlowInv
  <2>4. chat' \in Seq(Lines)
    BY <2>1, CarriedChat DEF FlowInv, FlowTypeOK
  <2>5. /\ poll' \in Polls
        /\ sig' \in [on : BOOLEAN, rejoin : BOOLEAN, reconnecting : BOOLEAN]
    BY <2>1, <2>2 DEF NoPoll
  <2>6. FlowTypeOK'
    BY <2>1, <2>2, <2>3, <2>4, <2>5, NoFrames DEF FlowInv, FlowTypeOK, meshVars, States
  <2>7. Wire' /\ Told' /\ Meshless' /\ Offline'
    BY <2>1, <2>3, NoFrames DEF FlowInv, Wire, Told, Meshless, Offline, meshVars
  <2>8. MeshDecidesEntry' /\ FreshFlowIsClean'
    BY <2>1 DEF FlowInv, MeshDecidesEntry, FreshFlowIsClean, meshVars
  <2> QED BY <2>6, <2>7, <2>8 DEF FlowInv
<1>6. CASE OnLobbyPollResult /\ ~PollCounts
  <2>1. poll' \in Polls
    BY <1>6 DEF OnLobbyPollResult, NoPoll
  <2> QED BY <1>2, <1>6, <2>1 DEF OnLobbyPollResult, FlowInv, FlowTypeOK
<1> QED BY <1>3, <1>4, <1>5, <1>6 DEF PollNext

LEMMA FlowStepKeeps == FlowInv /\ [FlowNext]_flowVars => FlowInv'
<1> SUFFICES ASSUME FlowInv, [FlowNext]_flowVars PROVE FlowInv'
  OBVIOUS
<1>1. CASE PrepareFails \/ PrepareTimesOut
  BY <1>1, FailedFlowKeeps DEF PrepareFails, PrepareTimesOut
<1>2. CASE FrameNext
  BY <1>2, OnIdentifiedKeeps, OnStartSignalingKeeps, OnMatchStartedKeeps, OnPeerLeftKeeps,
     EndFramesKeep DEF FrameNext
<1>3. CASE UNCHANGED flowVars
  <2>1. FlowTypeOK' /\ Wire' /\ Told' /\ Meshless' /\ Offline'
    BY <1>3 DEF FlowInv, FlowTypeOK, Wire, Told, Meshless, Offline, flowVars, clientVars,
                meshVars, netVars
  <2>2. MeshDecidesEntry' /\ FreshFlowIsClean'
    BY <1>3 DEF FlowInv, MeshDecidesEntry, FreshFlowIsClean, flowVars, clientVars, meshVars,
                netVars
  <2> QED BY <2>1, <2>2 DEF FlowInv
<1> QED BY <1>1, <1>2, <1>3, UserStepKeeps, SocketStepKeeps, ChatStepKeeps, PeerStepKeeps,
           PollStepKeeps, ServerStepKeeps DEF FlowNext

LEMMA FlowStarts == FlowInit => FlowInv
<1> SUFFICES ASSUME FlowInit PROVE FlowInv
  OBVIOUS
<1>1. srv \in SessionViews /\ srv.bound = "none"
  BY DEF FlowInit, FreshSession, SessionViews, Everyone
<1>2. FlowTypeOK
  BY <1>1, NoFrames DEF FlowInit, FlowTypeOK, States, NoSig, NoPoll
<1>3. Wire /\ Told /\ Meshless /\ Offline
  BY <1>1, NoFrames DEF FlowInit, Wire, Told, Meshless, Offline
<1>4. MeshDecidesEntry /\ FreshFlowIsClean
  BY DEF FlowInit, MeshDecidesEntry, FreshFlowIsClean, NoSig
<1> QED BY <1>2, <1>3, <1>4 DEF FlowInv

LEMMA FlowInvHolds == FlowSpec => []FlowInv
BY FlowStarts, FlowStepKeeps, PTL DEF FlowSpec

\* Whatever the user, the network, the peers and the server do, the flow, its frames
\* and the session it sees stay within their domains.
THEOREM FlowTyped == FlowSpec => []FlowTypeOK
<1>1. FlowInv => FlowTypeOK
  BY DEF FlowInv
<1> QED BY <1>1, FlowInvHolds, PTL

\* Once everybody awaited is connected the ready has gone out, and a match is entered
\* only with the mesh, after the ready and after the server has started it.
THEOREM MatchIsEntered == FlowSpec => []MeshDecidesEntry
<1>1. FlowInv => MeshDecidesEntry
  BY DEF FlowInv
<1> QED BY <1>1, FlowInvHolds, PTL

\* Every way out of a session leaves the next one nothing: no mesh, no ready, no
\* rejoin, no chat.
THEOREM SessionsLeaveNothing == FlowSpec => []FreshFlowIsClean
<1>1. FlowInv => FreshFlowIsClean
  BY DEF FlowInv
<1> QED BY <1>1, FlowInvHolds, PTL
LEMMA LogMoves ==
    ASSUME [FlowNext]_flowVars
    PROVE  \/ UNCHANGED <<chat, heard>>
           \/ chat' = <<>> /\ heard' = <<>>
           \/ chat' = CarryIntoMatch(chat) /\ heard' = heard
           \/ ChatNext
<1>1. CASE UserNext
  BY <1>1 DEF UserNext, EnterLobby, BeginRejoin, UserLeaves, ClientDies, Teardown
<1>2. CASE SocketNext
  BY <1>2 DEF SocketNext, SocketOpens, SocketDrops, AttemptReconnect, OnClosed, FailFlow,
              Teardown, clientVars
<1>3. CASE FrameNext
  <2>1. CASE OnIdentified \/ OnStartSignaling
    BY <2>1 DEF OnIdentified, OnStartSignaling, FailFlow, Teardown
  <2>2. CASE OnMatchStarted \/ OnPeerLeft
    BY <2>2 DEF OnMatchStarted, OnPeerLeft
  <2>3. CASE OnGameOver \/ OnSessionEnded
    BY <2>3 DEF OnGameOver, OnSessionEnded, FailFlow, Teardown
  <2> QED BY <1>3, <2>1, <2>2, <2>3 DEF FrameNext
<1>4. CASE PeerNext
  BY <1>4 DEF PeerNext, OnMeshPeerConnected, OnMeshPeerFailed, OnMeshPeerDisconnected
<1>5. CASE PrepareFails \/ PrepareTimesOut
  BY <1>5 DEF PrepareFails, PrepareTimesOut, FailFlow, Teardown
<1>6. CASE PollNext
  BY <1>6 DEF PollNext, MaybePollLobby, OnLobbyPollResult, PollAnswered
<1>7. CASE ServerNext
  <2>1. UNCHANGED clientVars
    BY <1>7 DEF ServerNext, ServerIdentifies, ServerGetsReady, ServerGetsLate, PeerGetsReady,
                ServerSeesDrop, ServerFreesSlot, ServerStarts, ServerAnnounces,
                ServerForcesStart, ServerActivates, ServerReleasesHold, ServerLosesPeer,
                ServerDecidesMatch, ServerEndsSession
  <2> QED BY <2>1 DEF clientVars
<1>8. CASE UNCHANGED flowVars
  BY <1>8 DEF flowVars, clientVars
<1> QED BY <1>1, <1>2, <1>3, <1>4, <1>5, <1>6, <1>7, <1>8 DEF FlowNext

LEMMA ChatStepRecent ==
    ASSUME FlowInv, ChatIsRecentPast, ChatNext
    PROVE  ChatIsRecentPast'
<1>1. /\ chat \in Seq(Lines) /\ heard \in Seq(Nat) /\ srv \in SessionViews
  BY DEF FlowInv, FlowTypeOK
<1>2. Len(chat) \in Nat /\ Len(heard) \in Nat /\ CarryLimit \in Nat /\ DOMAIN chat = 1 .. Len(chat)
  BY <1>1, LenProperties, LimitAssumption
<1>3. /\ Len(chat) <= Len(heard)
      /\ Len(chat) >= IF Len(heard) < CarryLimit THEN Len(heard) ELSE CarryLimit
      /\ \A i \in 1 .. Len(chat) : chat[i].body = heard[Len(heard) - Len(chat) + i]
  BY DEF ChatIsRecentPast
<1>4. CASE OnChatMessage
  <2> DEFINE n == srv.lines + 1
             line == [body |-> n, deleted |-> FALSE]
  <2>1. n \in Nat /\ line \in Lines /\ line.body = n
    BY <1>1 DEF SessionViews, Lines
  <2>2. chat' = Append(chat, line) /\ heard' = Append(heard, n)
    BY <1>4 DEF OnChatMessage
  <2> HIDE DEF n, line
  <2>3. /\ Len(chat') = Len(chat) + 1 /\ Len(heard') = Len(heard) + 1
        /\ \A i \in 1 .. Len(chat) : chat'[i] = chat[i]
        /\ chat'[Len(chat) + 1] = line
        /\ \A i \in 1 .. Len(heard) : heard'[i] = heard[i]
        /\ heard'[Len(heard) + 1] = n
    BY <1>1, <2>1, <2>2, AppendProperties
  <2>4. ASSUME NEW i \in 1 .. Len(chat')
        PROVE  chat'[i].body = heard'[Len(heard') - Len(chat') + i]
    <3>1. Len(heard') - Len(chat') + i = Len(heard) - Len(chat) + i
      BY <1>2, <2>3
    <3>2. CASE i = Len(chat) + 1
      <4>1. Len(heard) - Len(chat) + i = Len(heard) + 1
        BY <1>2, <3>2
      <4> QED BY <2>1, <2>3, <3>1, <3>2, <4>1
    <3>3. CASE i # Len(chat) + 1
      <4>1. i \in 1 .. Len(chat) /\ Len(heard) - Len(chat) + i \in 1 .. Len(heard)
        BY <1>2, <1>3, <2>3, <3>3
      <4> QED BY <1>3, <2>3, <3>1, <4>1
    <3> QED BY <3>2, <3>3
  <2>5. /\ Len(chat') <= Len(heard')
        /\ Len(chat') >= IF Len(heard') < CarryLimit THEN Len(heard') ELSE CarryLimit
    BY <1>2, <1>3, <2>3
  <2> QED BY <2>4, <2>5 DEF ChatIsRecentPast
<1>5. CASE \E body \in 1 .. MaxEvents : OnChatBodyDeleted(body)
  <2>1. PICK body \in 1 .. MaxEvents : OnChatBodyDeleted(body)
    BY <1>5
  <2>2. /\ heard' = heard
        /\ chat' = [i \in DOMAIN chat |->
                      [chat[i] EXCEPT !.deleted = @ \/ chat[i].body = body]]
    BY <2>1 DEF OnChatBodyDeleted
  <2>3. \A i \in 1 .. Len(chat) : chat[i] \in Lines
    BY <1>1, ElementOfSeq
  <2>4. \A i \in 1 .. Len(chat) : chat'[i].body = chat[i].body
    BY <1>2, <2>2, <2>3 DEF Lines
  <2>5. chat' \in Seq(Lines) /\ DOMAIN chat' = DOMAIN chat
    BY <2>2, ChatStepTyped
  <2>6. Len(chat') = Len(chat)
    <3>1. Len(chat') \in Nat /\ DOMAIN chat' = 1 .. Len(chat')
      BY <2>5, LenProperties
    <3> QED BY <1>2, <2>5, <3>1
  <2> QED BY <1>3, <2>2, <2>4, <2>6 DEF ChatIsRecentPast
<1> QED BY <1>4, <1>5 DEF ChatNext

LEMMA ChatStaysRecent ==
    FlowInv /\ ChatIsRecentPast /\ [FlowNext]_flowVars => ChatIsRecentPast'
<1> SUFFICES ASSUME FlowInv, ChatIsRecentPast, [FlowNext]_flowVars PROVE ChatIsRecentPast'
  OBVIOUS
<1>1. CASE UNCHANGED <<chat, heard>>
  BY <1>1 DEF ChatIsRecentPast
<1>2. CASE chat' = <<>> /\ heard' = <<>>
  <2>1. Len(<<>>) = 0 /\ CarryLimit \in Nat
    BY EmptySeq, LimitAssumption
  <2> QED BY <1>2, <2>1 DEF ChatIsRecentPast
<1>3. CASE chat' = CarryIntoMatch(chat) /\ heard' = heard
  <2>1. chat \in Seq(Lines) /\ heard \in Seq(Nat)
    BY DEF FlowInv, FlowTypeOK
  <2>2. Len(chat) \in Nat /\ Len(heard) \in Nat /\ CarryLimit \in Nat
    BY <2>1, LenProperties, LimitAssumption
  <2>3. /\ Len(chat') = IF Len(chat) <= CarryLimit THEN Len(chat) ELSE CarryLimit
        /\ \A i \in 1 .. Len(chat') : chat'[i] = chat[Len(chat) - Len(chat') + i]
    BY <1>3, <2>1, CarriedChat
  <2>4. /\ Len(chat) <= Len(heard)
        /\ Len(chat) >= IF Len(heard) < CarryLimit THEN Len(heard) ELSE CarryLimit
        /\ \A i \in 1 .. Len(chat) : chat[i].body = heard[Len(heard) - Len(chat) + i]
    BY DEF ChatIsRecentPast
  <2>5. ASSUME NEW i \in 1 .. Len(chat')
        PROVE  chat'[i].body = heard'[Len(heard') - Len(chat') + i]
    <3> DEFINE j == Len(chat) - Len(chat') + i
    <3>1. j \in 1 .. Len(chat) /\ Len(heard) - Len(chat) + j = Len(heard) - Len(chat') + i
      BY <2>2, <2>3
    <3>2. chat'[i] = chat[j]
      BY <2>3
    <3> HIDE DEF j
    <3> QED BY <1>3, <2>4, <3>1, <3>2
  <2>6. /\ Len(chat') <= Len(heard')
        /\ Len(chat') >= IF Len(heard') < CarryLimit THEN Len(heard') ELSE CarryLimit
    BY <1>3, <2>2, <2>3, <2>4
  <2> QED BY <2>5, <2>6 DEF ChatIsRecentPast
<1> QED BY <1>1, <1>2, <1>3, LogMoves, ChatStepRecent

\* The log is always the newest part of what was heard, and never shorter than the
\* part a match start must carry over.
THEOREM ChatKeepsRecentPast == FlowSpec => []ChatIsRecentPast
<1>1. FlowInit => ChatIsRecentPast
  <2> SUFFICES ASSUME FlowInit PROVE ChatIsRecentPast
    OBVIOUS
  <2>1. Len(<<>>) = 0 /\ CarryLimit \in Nat /\ chat = <<>> /\ heard = <<>>
    BY EmptySeq, LimitAssumption DEF FlowInit
  <2> QED BY <2>1 DEF ChatIsRecentPast
<1> QED BY <1>1, FlowInvHolds, ChatStaysRecent, PTL DEF FlowSpec
LEMMA ServerLeavesClient ==
    ASSUME ServerNext PROVE UNCHANGED clientVars
BY DEF ServerNext, ServerIdentifies, ServerGetsReady, ServerGetsLate, PeerGetsReady,
       ServerSeesDrop, ServerFreesSlot, ServerStarts, ServerAnnounces, ServerForcesStart,
       ServerActivates, ServerReleasesHold, ServerLosesPeer, ServerDecidesMatch,
       ServerEndsSession

\* No frame, timer or lost socket turns the end screen into an error.
THEOREM EndScreenOutlivesSession == FlowSpec => EndScreenStays
<1>1. ASSUME FlowInv, [FlowNext]_flowVars, flow = "PostMatch", flow' = "Idle"
      PROVE  error' = error
  <2>1. CASE UserNext
    BY <1>1, <2>1 DEF UserNext, EnterLobby, BeginRejoin, UserLeaves, ClientDies
  <2>2. CASE SocketNext
    BY <1>1, <2>2 DEF SocketNext, SocketOpens, SocketDrops, AttemptReconnect, OnClosed,
                      clientVars
  <2>3. CASE FrameNext
    BY <1>1, <2>3 DEF FrameNext, OnIdentified, OnStartSignaling, OnMatchStarted, OnPeerLeft,
                      OnGameOver, OnSessionEnded
  <2>4. CASE ChatNext \/ PeerNext
    BY <1>1, <2>4 DEF ChatNext, OnChatMessage, OnChatBodyDeleted, PeerNext,
                      OnMeshPeerConnected, OnMeshPeerFailed, OnMeshPeerDisconnected
  <2>5. CASE PrepareFails \/ PrepareTimesOut \/ PollNext
    BY <1>1, <2>5 DEF PrepareFails, PrepareTimesOut, PollNext, MaybePollLobby,
                      OnLobbyPollResult, PollAnswered
  <2>6. CASE ServerNext
    BY <2>6, ServerLeavesClient DEF clientVars
  <2>7. CASE UNCHANGED flowVars
    BY <2>7 DEF flowVars, clientVars
  <2> QED BY <1>1, <2>1, <2>2, <2>3, <2>4, <2>5, <2>6, <2>7 DEF FlowNext
<1>2. FlowInv /\ [FlowNext]_flowVars =>
         [flow = "PostMatch" /\ flow' = "Idle" => error' = error]_flowVars
  BY <1>1
<1> QED BY <1>2, FlowInvHolds, PTL DEF FlowSpec, EndScreenStays

LEMMA ReadiedHold ==
    ASSUME srv \in SessionViews, NEW p, Readied(p)
    PROVE  srv'.hold => srv.hold
<1> DEFINE r == srv.ready \cup {p}
<1>1. \/ srv' = [srv EXCEPT !.hold = @ /\ p # Me]
      \/ srv' = [srv EXCEPT !.ready = r, !.started = srv.roster \subseteq r]
  BY DEF Readied
<1> HIDE DEF r
<1> QED BY <1>1 DEF SessionViews

LEMMA HoldsInMatch ==
    ASSUME FlowInv, [FlowNext]_flowVars, flow = "InMatch"
    PROVE  srv'.hold => srv.hold
<1>1. srv \in SessionViews
  BY DEF FlowInv, FlowTypeOK
<1>2. ASSUME NEW s, Teardown(s), s \in BOOLEAN
      PROVE  srv'.hold = srv.hold
  BY <1>2, GoneSocket DEF Teardown, CloseSignaling, FlowInv
<1>3. CASE UserNext
  BY <1>2, <1>3 DEF UserNext, EnterLobby, BeginRejoin, UserLeaves, ClientDies
<1>4. CASE SocketNext
  <2>1. SocketGone({}) => srv'.hold = srv.hold
    BY GoneSocket DEF FlowInv
  <2> QED BY <1>2, <1>4, <2>1 DEF SocketNext, SocketOpens, SocketDrops, AttemptReconnect,
                                  OnClosed, FailFlow
<1>5. CASE FrameNext
  BY <1>2, <1>5 DEF FrameNext, OnIdentified, OnStartSignaling, OnMatchStarted, OnPeerLeft,
                    OnGameOver, OnSessionEnded, FailFlow
<1>6. CASE ChatNext
  BY <1>6, ChatStepTyped
<1>7. CASE PeerNext
  BY <1>7 DEF PeerNext, OnMeshPeerConnected, OnMeshPeerFailed, OnMeshPeerDisconnected
<1>8. CASE PrepareFails \/ PrepareTimesOut \/ PollNext
  BY <1>2, <1>8 DEF PrepareFails, PrepareTimesOut, FailFlow, PollNext, MaybePollLobby,
                    OnLobbyPollResult, PollCounts, PollAnswered
<1>9. CASE ServerIdentifies
  <2>1. up # <<>> /\ Head(up).t = "identify"
    BY <1>9 DEF ServerIdentifies, Serves
  <2>2. Head(up).rejoin = sig.rejoin /\ ~sig.rejoin
    BY <2>1 DEF FlowInv, Wire, MeshDecidesEntry
  <2>3. \/ srv' = [srv EXCEPT !.bound = "live",
                              !.hold = @ \/ (Head(up).rejoin /\ srv.started)]
        \/ srv' = srv
    BY <1>9 DEF ServerIdentifies
  <2> QED BY <1>1, <2>2, <2>3 DEF SessionViews
<1>10. CASE \/ ServerGetsReady \/ \E p \in Peers : PeerGetsReady(p)
            \/ \E f \in {"ready", "leave"} : ServerGetsLate(f)
  <2>1. \/ \E p \in Everyone : Readied(p)
        \/ srv' \in {srv, [srv EXCEPT !.members = @ \ {Me}]}
    BY <1>10 DEF ServerGetsReady, PeerGetsReady, ServerGetsLate, Everyone
  <2> QED BY <1>1, <2>1, ReadiedHold DEF SessionViews
<1>11. CASE \/ ServerSeesDrop \/ ServerFreesSlot \/ ServerStarts \/ ServerAnnounces
            \/ ServerForcesStart \/ ServerActivates \/ ServerReleasesHold
            \/ ServerDecidesMatch \/ ServerEndsSession
  BY <1>1, <1>11 DEF ServerSeesDrop, ServerFreesSlot, ServerStarts, ServerAnnounces,
                     ServerForcesStart, Start, ServerActivates, ServerReleasesHold,
                     ServerDecidesMatch, ServerEndsSession, SessionViews
<1>12. CASE \E p \in Peers : ServerLosesPeer(p)
  BY <1>1, <1>12 DEF ServerLosesPeer, SessionViews
<1>13. CASE UNCHANGED flowVars
  BY <1>13 DEF flowVars
<1> QED BY <1>3, <1>4, <1>5, <1>6, <1>7, <1>8, <1>9, <1>10, <1>11, <1>12, <1>13
        DEF FlowNext, ServerNext

\* Only a client that is not in its match can have it paused for a rejoin: in a match
\* no identify that says so can be on its way.
THEOREM BlipsNeverPause == FlowSpec => BlipNeverPauses
<1>1. FlowInv /\ [FlowNext]_flowVars =>
         [flow = "InMatch" => (srv'.hold => srv.hold)]_flowVars
  BY HoldsInMatch
<1> QED BY <1>1, FlowInvHolds, PTL DEF FlowSpec, BlipNeverPauses
=============================================================================
