--------------------------- MODULE MCSessionStore ---------------------------
(* Four players, so that a promotion leaves joiners whose order can be wrong *)
(* and a session of capacity 3 has somebody to turn away.                    *)
EXTENDS SessionStore

CONSTANTS p1, p2, p3, p4

MCPlayers == {p1, p2, p3, p4}
MCCapacities == {3, 4}
=============================================================================
