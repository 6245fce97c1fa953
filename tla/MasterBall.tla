------------------------------ MODULE MasterBall ------------------------------
(***************************************************************************)
(* What the screens of a match together promise of the master ball, the    *)
(* one ball that scores: it is served once, by the host, it is on one      *)
(* screen or on the way to one, and once lost it is never served again.    *)
(***************************************************************************)
CONSTANTS Players, Host

VARIABLES
    served,
    at         \* {<<p, p>>} on p's screen, {<<p, q>>} on the way from p to q, {} not in play

Init == served = FALSE /\ at = {}

Serve == ~served /\ served' = TRUE /\ at' = {<<Host, Host>>}

\* Through a portal of the screen it is on, and in at the far end of the channel.
Cross(x) == x[1] = x[2] /\ at' \in {{<<x[1], q>>} : q \in Players \ {x[1]}}
Arrive(x) == x[1] # x[2] /\ at' = {<<x[2], x[2]>>}

\* With a process, or in a dead channel.
Vanish == at' = {}

Next ==
    \/ Serve
    \/ \E x \in at : (Cross(x) \/ Arrive(x) \/ Vanish) /\ UNCHANGED served

Spec == Init /\ [][Next]_<<served, at>>
=============================================================================
