--------------------------- MODULE MCSessionServer ---------------------------
EXTENDS SessionServer

CONSTANTS p1, p2, p3

Two == {p1, p2}
Three == {p1, p2, p3}
Lobby2 == <<p1, p2>>
Lobby3 == <<p1, p2, p3>>
Capacity2 == {2}
Capacity3 == {3}
Conns3 == 1 .. 3
Conns4 == 1 .. 4

=============================================================================
