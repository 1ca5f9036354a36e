--------------------------- MODULE MCServerLifetime ---------------------------
(***************************************************************************)
(* A small instance of ServerLifetime for TLC: more clients than may be    *)
(* served at once.                                                         *)
(***************************************************************************)
EXTENDS ServerLifetime, TLC

CONSTANTS c1, c2, c3

ThreeConnections == {c1, c2, c3}

(* Connections are interchangeable                                         *)
ConnectionSymmetry == Permutations(Connections)
===============================================================================
