---------------------------- MODULE MCPeerLossy ----------------------------
(* Small instances of PeerLossy for TLC. *)
EXTENDS PeerLossy

MCNoGarbage == {}

===========================================================================
