------------------------------ MODULE Packets ------------------------------
(***************************************************************************)
(* peer_pack and peer_unpack (packet.c), in bytes: chunks are cut into     *)
(* packets of bounded size, and the receiver of the packets cuts the       *)
(* chunks out again by the sizes written in them.                          *)
(*                                                                         *)
(* A chunk is its number; chunks[k] is how many bytes chunk k has.  The    *)
(* data of a packet is the set of the chunks copied into it, each with the *)
(* offset of its first byte; everything else in it is zero.  Packets are   *)
(* sent whatever status peer_pack returns, so unpacking follows every end  *)
(* of packing.                                                             *)
(*                                                                         *)
(* A chunk may be larger than a packet.  Where its size still fits in the  *)
(* message only assertions stand against it: a build without them copies   *)
(* it past the end of the packet, which stops the program or, where memory *)
(* kept for more packets takes the bytes, makes a packet of too large a    *)
(* size.                                                                   *)
(***************************************************************************)
EXTENDS Integers, Sequences, FiniteSets

CONSTANTS
  PacketSize,     \* PEER_PACKET_SIZE
  PacketHeader,   \* PEER_N_PACKET_MESSAGES
  MessageHeader,  \* PEER_N_MESSAGE_DATA, the size of an empty message
  SizeRange,      \* the size in a message is kept modulo this: 10 bits
  Sizes,          \* the sizes chunks may have
  MaxChunks,      \* bound: so many chunks are packed at most
  MaxPrior,       \* bound: packets in the list before the call
  Builds,         \* TRUE for a build without assertions, FALSE for one with
  AllocFails      \* TRUE when an allocation may fail

ASSUME SizesAssumption ==
  /\ PacketSize \in Nat /\ PacketHeader \in Nat /\ MessageHeader \in Nat \ {0}
  /\ SizeRange \in Nat /\ PacketSize < SizeRange
  /\ PacketHeader + MessageHeader <= PacketSize
  /\ \A s \in Sizes : s \in Nat /\ s >= MessageHeader
ASSUME CountsAssumption ==
  MaxChunks \in Nat /\ MaxPrior \in Nat
ASSUME FlagsAssumption == Builds \subseteq BOOLEAN /\ AllocFails \in BOOLEAN

VARIABLES
  ndebug,   \* the build
  chunks,   \* the chunks given to peer_pack, by their sizes
  prior,    \* previous_size
  packets,  \* out_packets
  stage,    \* where the program is
  i,        \* the chunk, or the packet, a loop is at
  offset,   \* offset
  status,   \* "ok" or the error returned
  box       \* out_chunks of peer_unpack

vars == <<ndebug, chunks, prior, packets, stage, i, offset, status, box>>

NoChunk == 0

(* Packets of another slot, made by an earlier call. *)
Other == [to |-> "other", size |-> PacketHeader + MessageHeader,
          data |-> {[at |-> PacketHeader, chunk |-> NoChunk]}]

Fresh == [to |-> "us", size |-> 0, data |-> {}]

(* What DA_RESIZE leaves in a packet nothing is written to. *)
Unset == [to |-> "nobody", size |-> 0, data |-> {}]

Init ==
  /\ ndebug \in Builds
  /\ \E n \in 0..MaxChunks : chunks \in [1..n -> Sizes]
  /\ prior \in 0..MaxPrior
  /\ packets = [k \in 1..prior |-> Other]
  /\ stage = "cut"
  /\ i = 1
  /\ offset = PacketSize
  /\ status = "ok"
  /\ box = <<>>

---------------------------------------------------------------------------
(* peer_pack *)

Opened == Len(packets) > prior

(* The size of the last packet goes into its header. *)
Closed == [packets EXCEPT ![Len(packets)].size = offset]

(* assert(offset < PEER_PACKET_SIZE - PEER_N_PACKET_MESSAGES) *)
Short == ndebug \/ offset < PacketSize - PacketHeader

(* A mutant: the header is not counted. *)
FitsBare(k) == offset + chunks[k] <= PacketSize + PacketHeader

Fits(k) == offset + chunks[k] <= PacketSize

KeepPacket ==
  /\ stage = "cut" /\ i <= Len(chunks)
  /\ Fits(i)
  /\ stage' = "add"
  /\ UNCHANGED <<ndebug, chunks, prior, packets, i, offset, status, box>>

(* A mutant: the packet before is left without its size. *)
NewPacketOpen ==
  /\ stage = "cut" /\ i <= Len(chunks)
  /\ ~Fits(i)
  /\ Opened => Short
  /\ packets' = Append(packets, Fresh)
  /\ offset' = PacketHeader
  /\ stage' = "add"
  /\ UNCHANGED <<ndebug, chunks, prior, i, status, box>>

NewPacket ==
  /\ stage = "cut" /\ i <= Len(chunks)
  /\ ~Fits(i)
  /\ Opened => Short
  /\ packets' = Append(IF Opened THEN Closed ELSE packets, Fresh)
  /\ offset' = PacketHeader
  /\ stage' = "add"
  /\ UNCHANGED <<ndebug, chunks, prior, i, status, box>>

(* PEER_ERROR_BAD_ALLOC, after the header of the packet before *)
NewPacketFails ==
  /\ stage = "cut" /\ i <= Len(chunks)
  /\ ~Fits(i)
  /\ Opened => Short
  /\ AllocFails
  /\ packets' = IF Opened THEN Closed ELSE packets
  /\ status' = "bad_alloc"
  /\ stage' = "unpack" /\ i' = 1
  /\ UNCHANGED <<ndebug, chunks, prior, offset, box>>

(* peer_read_message_size of a chunk that peer_write_message has written *)
WrittenSize(k) == chunks[k] % SizeRange

(* A mutant: the size in the message is not compared. *)
SizeTaken(k) == TRUE

SizeCorrect(k) == chunks[k] = WrittenSize(k)

AddChunk ==
  /\ stage = "add"
  /\ SizeCorrect(i)
  /\ ndebug \/ chunks[i] + PacketHeader < PacketSize
  /\ packets' = [packets EXCEPT ![Len(packets)].data =
                   @ \cup {[at |-> offset, chunk |-> i]}]
  /\ offset' = offset + chunks[i]
  /\ i' = i + 1
  /\ stage' = "cut"
  /\ UNCHANGED <<ndebug, chunks, prior, status, box>>

(* A chunk that a packet of its own has no room for *)
Oversized(k) == PacketHeader + chunks[k] > PacketSize

(* The copy runs past the packet into memory that is not the program's.    *)
Overrun ==
  /\ stage = "add"
  /\ SizeCorrect(i)
  /\ ndebug /\ Oversized(i)
  /\ stage' = "aborted"
  /\ UNCHANGED <<ndebug, chunks, prior, packets, i, offset, status, box>>

(* PEER_ERROR_INVALID_MESSAGE_SIZE: the last packet gets no header *)
WrongSize ==
  /\ stage = "add"
  /\ ~SizeCorrect(i)
  /\ ndebug
  /\ status' = "invalid_message_size"
  /\ stage' = "unpack" /\ i' = 1
  /\ UNCHANGED <<ndebug, chunks, prior, packets, offset, box>>

LastHeader ==
  /\ stage = "cut" /\ i > Len(chunks)
  /\ Opened
  /\ Short
  /\ packets' = Closed
  /\ stage' = "unpack" /\ i' = 1
  /\ UNCHANGED <<ndebug, chunks, prior, offset, status, box>>

(* No chunks: the list grows by one packet, and packet 0 is cleared. *)
EmptyPacket ==
  /\ stage = "cut" /\ i > Len(chunks)
  /\ ~Opened
  /\ packets' = [Append(packets, Unset) EXCEPT ![1] = Fresh]
  /\ stage' = "unpack" /\ i' = 1
  /\ UNCHANGED <<ndebug, chunks, prior, offset, status, box>>

EmptyPacketFails ==
  /\ stage = "cut" /\ i > Len(chunks)
  /\ ~Opened
  /\ AllocFails
  /\ status' = "bad_alloc"
  /\ stage' = "unpack" /\ i' = 1
  /\ UNCHANGED <<ndebug, chunks, prior, packets, offset, box>>

(* A failed assertion on the offset or on the size of a chunk *)
Abort ==
  /\ ~ndebug
  /\ \/ stage = "cut" /\ i <= Len(chunks) /\ ~Fits(i) /\ Opened /\ ~Short
     \/ stage = "cut" /\ i > Len(chunks) /\ Opened /\ ~Short
     \/ stage = "add" /\ ~SizeCorrect(i)
     \/ stage = "add" /\ chunks[i] + PacketHeader >= PacketSize
  /\ stage' = "aborted"
  /\ UNCHANGED <<ndebug, chunks, prior, packets, i, offset, status, box>>

---------------------------------------------------------------------------
(* peer_unpack, at the receiver of our packets, which may be another build *)

SkipPacket ==
  /\ stage = "unpack" /\ i <= Len(packets)
  /\ packets[i].to # "us" \/ packets[i].size = 0
  /\ i' = i + 1
  /\ UNCHANGED <<ndebug, chunks, prior, packets, stage, offset, status, box>>

(* recvfrom cuts a datagram to the size of a packet; packets given to      *)
(* peer_unpack directly keep the size they have.                           *)
Cut(n) == IF n > PacketSize THEN PacketSize ELSE n

SizeAllowed(n) == PacketHeader <= n /\ n <= PacketSize

OpenPacket ==
  /\ stage = "unpack" /\ i <= Len(packets)
  /\ packets[i].to = "us" /\ packets[i].size # 0
  /\ \E n \in {packets[i].size, Cut(packets[i].size)} : SizeAllowed(n)
  /\ stage' = "read"
  /\ offset' = PacketHeader
  /\ UNCHANGED <<ndebug, chunks, prior, packets, i, status, box>>

(* PEER_ERROR_INVALID_PACKET_SIZE *)
RefusePacket ==
  /\ stage = "unpack" /\ i <= Len(packets)
  /\ packets[i].to = "us" /\ packets[i].size # 0
  /\ ~SizeAllowed(packets[i].size)
  /\ TRUE \in Builds
  /\ status' = "invalid_packet_size"
  /\ i' = i + 1
  /\ UNCHANGED <<ndebug, chunks, prior, packets, stage, offset, box>>

(* The assertion on the size, at a receiver that has it *)
ReceiverAbort ==
  /\ stage = "unpack" /\ i <= Len(packets)
  /\ packets[i].to = "us" /\ packets[i].size # 0
  /\ ~SizeAllowed(packets[i].size)
  /\ FALSE \in Builds
  /\ stage' = "receiver_aborted"
  /\ UNCHANGED <<ndebug, chunks, prior, packets, i, offset, status, box>>

(* The chunk that begins at the offset: none where the bytes are zero. *)
Here == {d \in packets[i].data : d.at = offset}

More == offset + MessageHeader <= Cut(packets[i].size) /\ Here # {}

(* The size read at the offset keeps the chunk inside the packet. *)
Inside(d) == offset + WrittenSize(d.chunk) <= PacketSize

Piece(k) == [chunk |-> k, bytes |-> WrittenSize(k)]

(* A mutant: the offset stays where it is. *)
ReadChunkAgain ==
  /\ stage = "read"
  /\ More
  /\ \E d \in Here : box' = Append(box, Piece(d.chunk))
  /\ UNCHANGED <<ndebug, chunks, prior, packets, stage, i, offset, status>>

ReadChunk ==
  /\ stage = "read"
  /\ More
  /\ \E d \in Here :
       /\ Inside(d)
       /\ box' = Append(box, Piece(d.chunk))
       /\ offset' = offset + WrittenSize(d.chunk)
  /\ UNCHANGED <<ndebug, chunks, prior, packets, stage, i, status>>

(* Either out_chunks does not grow, or it has and the bytes of the new     *)
(* chunk are not allocated; the rest of the packet is left.                *)
ReadFails ==
  /\ stage = "read"
  /\ More
  /\ \E d \in Here : Inside(d)
  /\ AllocFails
  /\ box' \in {box, Append(box, [chunk |-> NoChunk, bytes |-> 0])}
  /\ status' = "bad_alloc"
  /\ stage' = "unpack" /\ i' = i + 1
  /\ UNCHANGED <<ndebug, chunks, prior, packets, offset>>

(* No more chunks, or one that would end past the packet *)
EndPacket ==
  /\ stage = "read"
  /\ More => \A d \in Here : ~Inside(d)
  /\ status' = IF More THEN "invalid_message_size" ELSE status
  /\ stage' = "unpack" /\ i' = i + 1
  /\ UNCHANGED <<ndebug, chunks, prior, packets, offset, box>>

UnpackDone ==
  /\ stage = "unpack" /\ i > Len(packets)
  /\ stage' = "done"
  /\ UNCHANGED <<ndebug, chunks, prior, packets, i, offset, status, box>>

Next ==
  \/ KeepPacket
  \/ NewPacket
  \/ NewPacketFails
  \/ AddChunk
  \/ Overrun
  \/ WrongSize
  \/ LastHeader
  \/ EmptyPacket
  \/ EmptyPacketFails
  \/ Abort
  \/ SkipPacket
  \/ OpenPacket
  \/ RefusePacket
  \/ ReceiverAbort
  \/ ReadChunk
  \/ ReadFails
  \/ EndPacket
  \/ UnpackDone

Spec == Init /\ [][Next]_vars

---------------------------------------------------------------------------
Ours == {k \in 1..Len(packets) : packets[k].to = "us"}

(* When nothing failed, the chunks that come out are the ones that were    *)
(* put in, each once and in their order.                                   *)
RoundTrip ==
  stage = "done" /\ status = "ok" =>
    box = [k \in 1..Len(chunks) |-> [chunk |-> k, bytes |-> chunks[k]]]

(* However packing ended, the packets that are sent hold the chunks from   *)
(* the first to some last one: an error leaves no hole and nothing twice.  *)
PackedPrefix ==
  stage \in {"unpack", "read", "done"} =>
    LET whole == UNION {packets[k].data :
                          k \in {m \in Ours : packets[m].size # 0}}
    IN  {d.chunk : d \in whole} = 1..Cardinality(whole)

(* A packet is within the limit, or is made without assertions of a single *)
(* chunk that no packet has room for.                                      *)
Bounded(data, size) ==
  \/ size <= PacketSize
  \/ ndebug /\ \E d \in data : data = {d} /\ Oversized(d.chunk)

(* No byte of a chunk lies past the size written in its packet, chunks     *)
(* follow each other without a gap, and no packet is larger than the limit *)
(* for the sake of a second chunk, or in a build with assertions.          *)
PacketsFit ==
  \A k \in Ours : packets[k].size # 0 =>
    /\ Bounded(packets[k].data, packets[k].size)
    /\ \A d \in packets[k].data :
         /\ d.at + chunks[d.chunk] <= packets[k].size
         /\ \/ d.at = PacketHeader
            \/ \E e \in packets[k].data : e.at + chunks[e.chunk] = d.at

(* Whatever fails on either side, what is unpacked is in order and nothing *)
(* is unpacked twice.                                                      *)
InOrder ==
  \A m, n \in 1..Len(box) :
    m < n /\ box[n].chunk # NoChunk => box[m].chunk < box[n].chunk
---------------------------------------------------------------------------
(* Stated by the code, and not so. *)

(* PEER_MAX_MESSAGE_SIZE is the most a packet has room for: packing        *)
(* messages up to that size aborts on no assertion.                        *)
NeverAborts == stage # "aborted"

===========================================================================
