--------------------------- MODULE MCSocketPool ---------------------------
(* A small network for SocketPool: a host and a client in one pool, and a  *)
(* client in a pool of its own.                                            *)
EXTENDS SocketPool, TLC

CONSTANTS h, c1, c2, q1, q2

MCPoolOf == (h :> q1) @@ (c1 :> q1) @@ (c2 :> q2)

MCMaxSlots == (h :> 3) @@ (c1 :> 0) @@ (c2 :> 1)

MCCounts == (h :> {3}) @@ (c1 :> {}) @@ (c2 :> {1})

===========================================================================
