------------------------------ MODULE MCTCPServer ------------------------------
(***************************************************************************)
(* Small instances of TCPServer for TLC.                                   *)
(***************************************************************************)
EXTENDS TCPServer

CONSTANTS c1, c2, c3

TwoConnections   == {c1, c2}
ThreeConnections == {c1, c2, c3}
===============================================================================
