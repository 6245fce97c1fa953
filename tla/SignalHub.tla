------------------------------ MODULE SignalHub ------------------------------
(***************************************************************************)
(* The in-process room of one session code: what each SignalHub method     *)
(* makes of the room and what it answers.  Every method holds the rooms    *)
(* lock for its whole body, so each is one step of whoever calls it.       *)
(*                                                                         *)
(* A connection is a number, 0 for none; the roster of the ready barrier   *)
(* and the tally are keyed by player, so their order and their absent      *)
(* entries (= 0) are left out.                                             *)
(***************************************************************************)
EXTENDS Integers, FiniteSets

CONSTANTS Players, Conns, NoRoom

ASSUME ConnAssumption == Conns \subseteq Nat \ {0}

MaxScorePoints == 2

Room == [senders : [Players -> Conns \cup {0}], scores : [Players -> Nat],
         win_target : Nat, game_over : BOOLEAN, ready_roster : SUBSET Players,
         ready : SUBSET Players, match_started : BOOLEAN,
         paused_for : SUBSET Players]

DefaultRoom ==
    [senders |-> [p \in Players |-> 0], scores |-> [p \in Players |-> 0],
     win_target |-> 0, game_over |-> FALSE, ready_roster |-> {}, ready |-> {},
     match_started |-> FALSE, paused_for |-> {}]

ASSUME NoRoomAssumption == NoRoom \notin Room

EntryOrDefault(r) == IF r = NoRoom THEN DefaultRoom ELSE r

-----------------------------------------------------------------------------
(* Sockets *)

RoomMembers(r) == IF r = NoRoom THEN {} ELSE {p \in Players : r.senders[p] # 0}

\* The channel of connection c is still the one p's messages go to.
Bound(r, p, c) == r # NoRoom /\ r.senders[p] = c

JoinRoom(r, p, c) == [EntryOrDefault(r) EXCEPT !.senders[p] = c]

\* Faulty: whichever socket leaves, the player is removed.
LeaveRoomUnscoped(r, p, c) ==
    IF r = NoRoom THEN NoRoom
    ELSE LET left == [r EXCEPT !.senders[p] = 0]
         IN  IF RoomMembers(left) = {} THEN NoRoom ELSE left

\* Only p's own connection unbinds it; the last one out drops the room.
LeaveRoom(r, p, c) ==
    IF r = NoRoom THEN NoRoom
    ELSE LET left == IF r.senders[p] = c THEN [r EXCEPT !.senders[p] = 0] ELSE r
         IN  IF RoomMembers(left) = {} THEN NoRoom ELSE left

-----------------------------------------------------------------------------
(* Ready barrier *)

SetReadyRoster(r, roster) ==
    [EntryOrDefault(r) EXCEPT !.ready_roster = roster, !.ready = {},
                              !.match_started = FALSE]

ReadyOutcome(r, p) ==
    CASE r = NoRoom                                -> "NotSeated"
      [] r # NoRoom /\ r.match_started             -> "AlreadyStarted"
      [] r # NoRoom /\ ~r.match_started
            /\ p \notin r.ready_roster             -> "NotSeated"
      [] OTHER -> IF r.ready_roster \subseteq r.ready \cup {p}
                  THEN "AllReady" ELSE "Pending"

RecordReady(r, p) ==
    IF ReadyOutcome(r, p) \in {"AllReady", "Pending"}
    THEN [r EXCEPT !.ready = @ \cup {p},
                   !.match_started = (ReadyOutcome(r, p) = "AllReady")]
    ELSE r

\* Faulty: the latch is not looked at.
ForceableAgain(r) == r # NoRoom

\* Whether the valve wins the latch.
Forceable(r) == r # NoRoom /\ ~r.match_started

ForceMatchStart(r) == IF Forceable(r) THEN [r EXCEPT !.match_started = TRUE] ELSE r

-----------------------------------------------------------------------------
(* Pause holds *)

Pausable(r, p) == r # NoRoom /\ r.match_started /\ p \notin r.paused_for

PauseFor(r, p) == IF Pausable(r, p) THEN [r EXCEPT !.paused_for = @ \cup {p}] ELSE r

ClearPause(r, p) == IF r = NoRoom THEN r ELSE [r EXCEPT !.paused_for = @ \ {p}]

-----------------------------------------------------------------------------
(* Score *)

SetWinTarget(r, target) ==
    [EntryOrDefault(r) EXCEPT !.win_target = target, !.game_over = FALSE]

\* The credentials are data; caching them may create the room.
SetIceServers(r) == EntryOrDefault(r)

Creditable(r, p, points) == r # NoRoom /\ r.senders[p] # 0 /\ points > 0

Credit(points) == IF points > MaxScorePoints THEN MaxScorePoints ELSE points

Wins(r, p, points) ==
    /\ ~r.game_over
    /\ r.win_target > 0
    /\ r.scores[p] + Credit(points) >= r.win_target

RecordScore(r, p, points) ==
    IF Creditable(r, p, points)
    THEN [r EXCEPT !.scores[p] = @ + Credit(points),
                   !.game_over = @ \/ Wins(r, p, points)]
    ELSE r
=============================================================================
