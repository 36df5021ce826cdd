------------------------------ MODULE PeerNet ------------------------------
(***************************************************************************)
(* The datagrams between the host and its clients, and what the two kinds  *)
(* of peer share.  A packet is never removed once it has been sent: it may *)
(* be delivered at any later time, in any order, several times or not at   *)
(* all, which is what UDP may do with what peer_pool_tick hands to sendto. *)
(***************************************************************************)
EXTENDS PeerMessages

CONSTANTS
  Elapsed,      \* the values of time_elapsed given to peer_tick
  Timeout,      \* PEER_TIMEOUT_HEARTBEAT
  NDEBUG,       \* TRUE in a build without assertions
  Stops,        \* TRUE when applications may call peer_destroy
  AppendFails,  \* TRUE when queue_append may find no memory
  PackFails     \* TRUE when queue_pack may find no memory

ASSUME ClockAssumption == Elapsed \subseteq Nat /\ Timeout \in Nat
ASSUME BuildAssumption ==
  /\ NDEBUG \in BOOLEAN /\ Stops \in BOOLEAN
  /\ AppendFails \in BOOLEAN /\ PackFails \in BOOLEAN

VARIABLES
  toHost,    \* packets sent by clients
  toClient   \* packets sent by the host

netVars == <<toHost, toClient>>

NetTypeOK ==
  /\ toHost \subseteq [src : Clients, dst : SlotIds, chunks : SUBSET Chunk]
  /\ toClient \subseteq [src : SlotIds, dst : Clients, chunks : SUBSET Chunk]

NetInit ==
  /\ toHost = {}
  /\ toClient = {}

(* clock_heartbeat at the start of peer_tick. *)
CountDown(clock, e) == IF clock > 0 THEN clock - e ELSE clock

===========================================================================
