----------------------------- MODULE MCRequests -----------------------------
EXTENDS Requests, TLC

CONSTANTS c1, c2, c3, a1, a2, a3, w

OnePiece == [b \in Blocks |-> 1]
\* Every connection has an address of its own.
Apart == [c \in Conns |-> IF c = c1 THEN a1 ELSE IF c = c2 THEN a2 ELSE a3]
Everything == [c \in Conns |-> Pieces]
\* The reliable connections are the slow ones.
SteadyPace == [c \in Conns |-> IF c \in Reliable THEN 1 ELSE 2]
=============================================================================
