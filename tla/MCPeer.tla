------------------------------ MODULE MCPeer ------------------------------
(* Small instances of PeerSystem for TLC. *)
EXTENDS PeerSystem, TLC

(* Clients and data are interchangeable. *)
MCSymmetry == Permutations(Clients) \cup Permutations(Data)

MCNoGarbage == {}

(* What is read past the end of a queue looks like a new message of actor  *)
(* 1.                                                                      *)
MCGarbage == {[time |-> 0, actor |-> 1, data |-> NoData]}

===========================================================================
