---------------------------- MODULE SessionStore ----------------------------
(***************************************************************************)
(* The Redis record of one session code, and the atomic operations on it.  *)
(*                                                                         *)
(* Every write of the server to `session:<code>` is one Redis command or   *)
(* one Lua script, so each is one action here, whoever calls it and in     *)
(* whatever order.  What a caller knows when it calls (who is connected,   *)
(* how many joiners it counted) is a parameter: this module promises its   *)
(* properties for every value of it.  SessionServer supplies the callers.  *)
(*                                                                         *)
(* Left out: the game mode and match settings (immutable after /host) and  *)
(* joined_at_ms (the order of `joiners` carries it).                       *)
(***************************************************************************)
EXTENDS Integers, Sequences, FiniteSets, SequencesExt

CONSTANTS Players,      \* player ids
          Capacities,   \* the player counts a host may choose
          MinPlayers,   \* the game mode's minimum, host included
          NoSession     \* the key does not exist

ASSUME CapacityAssumption ==
    /\ MinPlayers \in Nat /\ MinPlayers >= 2
    /\ Capacities \subseteq {n \in Nat : n >= MinPlayers}

VARIABLE session

Statuses == {"waiting", "starting", "active"}

Session == [host : Players, joiners : Seq(Players), status : Statuses,
            seat_order : Seq(Players), player_count : Capacities]

ASSUME NoSessionAssumption == NoSession \notin Session

Members(s) == {s.host} \cup ToSet(s.joiners)

Live(s) == s # NoSession /\ s.status # "waiting"

\* The position of p among the joiners.
JoinerAt(s, p) == CHOOSE i \in DOMAIN s.joiners : s.joiners[i] = p

-----------------------------------------------------------------------------
(* Operations: the code's early returns are the guards.                    *)

Host(p, capacity) ==
    /\ session = NoSession
    /\ session' = [host |-> p, joiners |-> <<>>, status |-> "waiting",
                   seat_order |-> <<>>, player_count |-> capacity]

Join(p) ==
    /\ session # NoSession
    /\ session.status = "waiting"
    /\ p # session.host
    /\ p \notin ToSet(session.joiners)
    /\ 1 + Len(session.joiners) < session.player_count
    /\ session' = [session EXCEPT !.joiners = Append(@, p)]

\* Faulty: the new host stays listed as a joiner.
TransferHostCopy(p, target) ==
    /\ session # NoSession /\ session.host = p /\ session.status = "waiting"
    /\ target \in ToSet(session.joiners)
    /\ session' = [session EXCEPT !.host = target]

TransferHost(p, target) ==
    /\ session # NoSession
    /\ session.host = p
    /\ session.status = "waiting"
    /\ target \in ToSet(session.joiners)
    /\ session' = [session EXCEPT
                     !.host = target,
                     !.joiners = Append(RemoveAt(@, JoinerAt(session, target)), p)]

\* The commit of /start. `counted` is how many joiners the caller last saw.
StartAllowed(p) ==
    /\ session # NoSession
    /\ session.host = p
    /\ session.status = "waiting"
    /\ 1 + Len(session.joiners) >= MinPlayers

Start(p, counted) ==
    /\ StartAllowed(p)
    /\ Len(session.joiners) = counted
    /\ session' = [session EXCEPT !.status = "starting",
                                  !.seat_order = <<session.host>> \o session.joiners]

Activate ==
    /\ session # NoSession
    /\ session.status = "starting"
    /\ session' = [session EXCEPT !.status = "active"]

EndIfWaiting ==
    /\ session # NoSession
    /\ session.status = "waiting"
    /\ session' = NoSession

\* The unconditional DEL of a won match and of DELETE /session.
Delete ==
    /\ session # NoSession
    /\ session' = NoSession

\* Faulty: the last joiner's leave does not end the match.
RemoveJoinerKeepAlone(p) ==
    /\ session # NoSession
    /\ p \in ToSet(session.joiners)
    /\ session' = [session EXCEPT !.joiners = RemoveAt(@, JoinerAt(session, p))]

\* Faulty: the last joiner is moved into the gap.
RemoveJoinerSwap(p) ==
    /\ session # NoSession
    /\ p \in ToSet(session.joiners)
    /\ LET gap == JoinerAt(session, p)
           rest == Front([session.joiners EXCEPT ![gap] = Last(session.joiners)])
       IN  session' = IF session.status # "waiting" /\ rest = <<>>
                      THEN NoSession
                      ELSE [session EXCEPT !.joiners = rest]

RemoveJoiner(p) ==
    /\ session # NoSession
    /\ p \in ToSet(session.joiners)
    /\ LET rest == RemoveAt(session.joiners, JoinerAt(session, p))
       IN  session' = IF session.status # "waiting" /\ rest = <<>>
                      THEN NoSession
                      ELSE [session EXCEPT !.joiners = rest]

\* Joiners of s that the caller saw connected, by position.
ConnectedAt(s, seen) == {i \in DOMAIN s.joiners : s.joiners[i] \in seen}

\* At least two of them: a lone survivor has nobody to play.
Playable(s, seen) == \E i, j \in ConnectedAt(s, seen) : i # j

OldestAt(s, seen) ==
    CHOOSE i \in ConnectedAt(s, seen) : \A j \in ConnectedAt(s, seen) : i <= j

\* Faulty: a promotion seats the players anew.
PromoteReseating(departing, seen, keep) ==
    /\ Live(session) /\ session.host = departing
    /\ session' =
         IF Playable(session, seen)
         THEN LET heir == OldestAt(session, seen)
                  rest == RemoveAt(session.joiners, heir)
              IN  [session EXCEPT
                     !.host = session.joiners[heir],
                     !.seat_order = <<session.joiners[heir]>> \o rest \o <<departing>>,
                     !.joiners = IF keep THEN Append(rest, departing) ELSE rest]
         ELSE NoSession

PromoteOrEnd(departing, seen, keep) ==
    /\ Live(session)
    /\ session.host = departing
    /\ session' =
         IF Playable(session, seen)
         THEN LET heir == OldestAt(session, seen)
                  rest == RemoveAt(session.joiners, heir)
              IN  [session EXCEPT
                     !.host = session.joiners[heir],
                     !.joiners = IF keep THEN Append(rest, departing) ELSE rest]
         ELSE NoSession

\* The key's TTL lapses; every SET above restarts it.
Expire ==
    /\ session # NoSession
    /\ session' = NoSession

-----------------------------------------------------------------------------
Init == session = NoSession

\* A joiner count some reading of the session can give.
Counts == UNION {0 .. (n - 1) : n \in Capacities}

Next ==
    \/ \E p \in Players, n \in Capacities : Host(p, n)
    \/ \E p \in Players : Join(p)
    \/ \E p, target \in Players : TransferHost(p, target)
    \/ \E p \in Players, counted \in Counts : Start(p, counted)
    \/ Activate
    \/ EndIfWaiting
    \/ Delete
    \/ \E p \in Players : RemoveJoiner(p)
    \/ \E p \in Players, seen \in SUBSET Players, keep \in BOOLEAN :
          p \notin seen /\ PromoteOrEnd(p, seen, keep)
    \/ Expire

Spec == Init /\ [][Next]_session

-----------------------------------------------------------------------------
(* Properties                                                              *)

TypeOK == session \in Session \cup {NoSession}

Distinct(seq) == \A i, j \in DOMAIN seq : seq[i] = seq[j] => i = j

\* The roster names nobody twice, never lists the host as its own joiner, and
\* never outgrows the capacity, through joins, handoffs, demotions and leaves.
RosterSound ==
    session # NoSession =>
        /\ session.host \notin ToSet(session.joiners)
        /\ Distinct(session.joiners)
        /\ 1 + Len(session.joiners) <= session.player_count

\* Past Waiting the host is never alone (the scripts' re-encode of `joiners`
\* relies on it), the seating has at least MinPlayers distinct seats, and every
\* member, demoted or promoted, still has the seat Start gave it.
MatchSeated ==
    session # NoSession =>
        IF session.status = "waiting"
        THEN session.seat_order = <<>>
        ELSE /\ session.joiners # <<>>
             /\ Len(session.seat_order) >= MinPlayers
             /\ Distinct(session.seat_order)
             /\ Members(session) \subseteq ToSet(session.seat_order)

\* Once frozen, the seating never changes while the session lives, and a match
\* never returns to an earlier phase.
Phase(s) == IF s.status = "waiting" THEN 0 ELSE IF s.status = "starting" THEN 1 ELSE 2

SeatingFrozen ==
    [][session # NoSession /\ session' # NoSession =>
          /\ Phase(session') >= Phase(session)
          /\ session.status # "waiting" =>
                session'.seat_order = session.seat_order]_session

\* Seniority is never reshuffled: of two joiners that stay joiners, the one that
\* was ahead stays ahead, so "the oldest connected joiner" means what it says.
SeniorityStable ==
    [][session # NoSession /\ session' # NoSession =>
          \A p, q \in ToSet(session.joiners) \cap ToSet(session'.joiners) :
             JoinerAt(session, p) < JoinerAt(session, q)
                => JoinerAt(session', p) < JoinerAt(session', q)]_session
=============================================================================
