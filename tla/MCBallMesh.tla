----------------------------- MODULE MCBallMesh -----------------------------
EXTENDS BallMesh

Seats2 == {1, 2}
Seats3 == {1, 2, 3}
=============================================================================
