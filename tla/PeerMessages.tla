--------------------------- MODULE PeerMessages ---------------------------
(***************************************************************************)
(* The data of the peer protocol: messages, queues, the chunks a queue is  *)
(* turned into and the packets that carry them (peer.c, peer.h, serial.h,  *)
(* packet.c).                                                              *)
(*                                                                         *)
(* Indexes are those of the code: they start at 0.  A host's mutual queue  *)
(* and a client's outgoing queue only grow at the end and are sequences,   *)
(* entry i of the code being element i + 1.  A queue filled by             *)
(* queue_insert may have holes and is a function whose domain is the set   *)
(* of indexes with is_ready = 1.                                           *)
(***************************************************************************)
EXTENDS Integers, Sequences, FiniteSets

CONSTANTS
  Clients,          \* the clients; a client is also the id of its socket
  NumSlots,         \* slots 1..NumSlots can be opened next to slot 0
  Data,             \* what an application may put in a message
  NoData,           \* the empty data of a zero-filled queue entry
  SerialSize,       \* PEER_TRAIL_SERIAL_SIZE
  ScatterSize,      \* PEER_TRAIL_SCATTER_SIZE
  ScatterDistance,  \* PEER_TRAIL_SCATTER_DISTANCE
  ChunksPerPacket   \* how many chunks fit in PEER_PACKET_SIZE bytes

ASSUME SlotsAssumption == NumSlots \in Nat
ASSUME TrailAssumption == /\ SerialSize \in Nat
                          /\ ScatterSize \in Nat
                          /\ ScatterDistance \in Nat
ASSUME PacketAssumption == ChunksPerPacket \in Nat \ {0}

Undefined == -1

(* Slot 0 is the host's own.  The id of the socket of slot j is j. *)
Slots   == 1..NumSlots
SlotIds == 0..NumSlots

Message == [time : Nat, actor : Int, data : Data \cup {NoData}]

(* What memset leaves in a queue entry that queue_insert skipped. *)
ZeroMessage == [time |-> 0, actor |-> 0, data |-> NoData]

---------------------------------------------------------------------------
(* Chunks: peer_write_message and the peer_read_message_* functions. *)

Application(i, m) ==
  [kind |-> "application", index |-> i, time |-> m.time,
   actor |-> m.actor, data |-> m.data]

Heartbeat(t, a) == [kind |-> "heartbeat", time |-> t, actor |-> a]

SessionResponse(t, a, addr) ==
  [kind |-> "session_response", time |-> t, actor |-> a, address |-> addr]

ApplicationChunk ==
  [kind : {"application"}, index : Nat, time : Nat, actor : Int,
   data : Data \cup {NoData}]

Chunk ==
  ApplicationChunk
    \cup [kind : {"heartbeat"}, time : Nat, actor : Int]
    \cup [kind : {"session_response"}, time : Nat, actor : Slots,
          address : Slots]

Payload(ch) == [time |-> ch.time, actor |-> ch.actor, data |-> ch.data]

ApplicationChunks(chunks) == {ch \in chunks : ch.kind = "application"}

---------------------------------------------------------------------------
(* A mutant: the entry after the right one. *)
QueueInsertShifted(q, chunks) ==
  LET new == {ch.index + 1 : ch \in chunks}
  IN  [i \in DOMAIN q \cup new |->
         IF i \in DOMAIN q
         THEN q[i]
         ELSE Payload(CHOOSE ch \in chunks : ch.index + 1 = i)]

(* queue_insert for every application chunk of a packet: an entry that is  *)
(* ready is never overwritten, any other index becomes ready.  Chunks of   *)
(* one packet with one index are copies of one entry.                      *)
QueueInsert(q, chunks) ==
  LET new == {ch.index : ch \in chunks}
  IN  [i \in DOMAIN q \cup new |->
         IF i \in DOMAIN q
         THEN q[i]
         ELSE Payload(CHOOSE ch \in chunks : ch.index = i)]

(* The indexes below index that lie past the end of a queue with holes:    *)
(* queue_insert grows it to the largest index it was given.                *)
BeyondQueue(q, index) == {i \in 0..(index - 1) : \A k \in DOMAIN q : k < i}

---------------------------------------------------------------------------
(* chunks_append_trail: which of the messages before index are sent again. *)

TrailSize(index) ==
  IF SerialSize > index \/ index - SerialSize < ScatterDistance
  THEN index
  ELSE SerialSize

SerialTrail(index) ==
  [k \in 1..TrailSize(index) |-> index - TrailSize(index) + k - 1]

(* How far back the random picks reach, and how many there are. *)
ScatterReach(index) ==
  IF ScatterDistance > index - TrailSize(index)
  THEN index - TrailSize(index)
  ELSE ScatterDistance

ScatterCount(index) ==
  IF ScatterSize > ScatterReach(index)
  THEN ScatterReach(index)
  ELSE ScatterSize

(* mt64_generate may pick any of them. *)
ScatterTrails(index) ==
  [1..ScatterCount(index) -> (index - ScatterReach(index))..(index - 1)]

Trails(index) == {SerialTrail(index) \o s : s \in ScatterTrails(index)}

(* An allocation that fails leaves no trail, or the serial one alone. *)
PartialTrails(index) == Trails(index) \cup {<<>>, SerialTrail(index)}

(* The indexes queue_pack sends: the new messages and then a trail. *)
NewIndexes(index, size) == [k \in 1..(size - index) |-> index + k - 1]

ChunksOf(indexes, entries) ==
  [k \in 1..Len(indexes) |-> Application(indexes[k], entries[indexes[k]])]

---------------------------------------------------------------------------
(* peer_pack cuts the chunks, in their order, into packets.  The order of  *)
(* the chunks of one packet does not matter to peer_input.                 *)

PacketCount(chunks) ==
  (Len(chunks) + ChunksPerPacket - 1) \div ChunksPerPacket

PacketChunks(chunks, g) ==
  {chunks[k] : k \in {n \in 1..Len(chunks) : (n - 1) \div ChunksPerPacket = g}}

Pack(src, dst, chunks) ==
  {[src |-> src, dst |-> dst, chunks |-> PacketChunks(chunks, g)] :
     g \in 0..(PacketCount(chunks) - 1)}

===========================================================================
