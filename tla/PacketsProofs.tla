--------------------------- MODULE PacketsProofs ---------------------------
(***************************************************************************)
(* peer_pack and peer_unpack for every size of a packet, of its header and *)
(* of the messages, for any number of chunks and of earlier packets.       *)
(***************************************************************************)
EXTENDS Packets, FiniteSetTheorems, SequenceTheorems, TLAPS

Packet == [to : {"us", "other", "nobody"}, size : Nat,
           data : SUBSET [at : Nat, chunk : Nat]]

TypeInv ==
  /\ ndebug \in BOOLEAN
  /\ chunks \in Seq(Sizes)
  /\ prior \in Nat
  /\ packets \in Seq(Packet)
  /\ stage \in {"cut", "add", "aborted", "unpack", "read", "receiver_aborted",
                "done"}
  /\ i \in Nat \ {0}
  /\ offset \in Nat
  /\ status \in {"ok", "bad_alloc", "invalid_message_size",
                 "invalid_packet_size"}
  /\ box \in Seq([chunk : Nat, bytes : Nat])

Packing == stage \in {"cut", "add", "aborted"}

(* The chunks that are in our packets. *)
Packed == UNION {{d.chunk : d \in packets[k].data} : k \in Ours}

(* Where chunk d.chunk of a packet ends. *)
End(d) == d.at + chunks[d.chunk]

(* Chunks lie in a packet in their order, one after another, up to end. *)
Laid(data, end) ==
  /\ \A d \in data : /\ d.chunk \in 1..Len(chunks)
                     /\ SizeCorrect(d.chunk)
                     /\ d.at >= PacketHeader
                     /\ End(d) <= end
                     /\ \/ d.at = PacketHeader
                        \/ \E e \in data : e.chunk = d.chunk - 1 /\ End(e) = d.at
  /\ \A d, e \in data : /\ d.chunk < e.chunk => End(d) <= e.at
                        /\ d.chunk = e.chunk => d = e

(* Every packet that has its header; the others are empty, but for the one *)
(* that is being filled.                                                   *)
ClosedInv ==
  \A k \in Ours :
    /\ packets[k].size # 0 => /\ Bounded(packets[k].data, packets[k].size)
                              /\ Laid(packets[k].data, packets[k].size)
    /\ packets[k].size = 0 => \/ Packing /\ k = Len(packets)
                              \/ packets[k].data = {}

(* Chunks of an earlier packet come before those of a later one. *)
PacketOrder ==
  \A k, l \in Ours : k < l =>
    \A d \in packets[k].data, e \in packets[l].data : d.chunk < e.chunk

(* The packet that is being filled. *)
OpenInv ==
  LET data == packets[Len(packets)].data
  IN  /\ packets[Len(packets)].size = 0
      /\ PacketHeader <= offset
      /\ data # {} => Bounded(data, offset)
      /\ Laid(data, offset)
      /\ \/ data = {} /\ offset = PacketHeader
         \/ \E e \in data : e.chunk = i - 1 /\ End(e) = offset
      /\ stage = "cut" => data # {}
      /\ stage = "add" => \/ data = {}
                          \/ SizeCorrect(i) /\ offset + chunks[i] <= PacketSize

PackInv ==
  Packing =>
    /\ box = <<>>
    /\ status = "ok"
    /\ prior <= Len(packets)
    /\ \A k \in 1..Len(packets) : packets[k].to = "us" <=> k > prior
    /\ i - 1 <= Len(chunks)
    /\ Packed = 1..(i - 1)
    /\ IF Opened THEN OpenInv ELSE offset = PacketSize
    /\ stage = "add" => Opened /\ i <= Len(chunks)

(* The chunks peer_unpack has not come to. *)
Ahead(k, d) == k > i \/ (k = i /\ (stage = "read" => d.at >= offset))

(* While nothing has failed, what has been unpacked is all up to a chunk,  *)
(* and the next one is at the offset or in a later packet.                 *)
ReadInv ==
  /\ Packed = 1..Len(chunks)
  /\ Len(box) <= Len(chunks)
  /\ \A n \in 1..Len(box) : box[n] = [chunk |-> n, bytes |-> chunks[n]]
  /\ \A k \in Ours : \A d \in packets[k].data :
       Ahead(k, d) \/ d.chunk <= Len(box)
  /\ stage = "read" =>
       \/ offset = PacketHeader
       \/ \E e \in packets[i].data : e.chunk = Len(box) /\ End(e) = offset

UnpackInv ==
  ~Packing =>
    /\ \E m \in 0..Len(chunks) : Packed = 1..m
    /\ stage = "read" => i \in Ours /\ packets[i].size # 0 /\ offset >= PacketHeader
    /\ stage = "done" => i > Len(packets)
    /\ \A k \in Ours : \A d \in packets[k].data : \A n \in 1..Len(box) :
         Ahead(k, d) => box[n].chunk < d.chunk
    /\ status = "ok" => ReadInv

PInv ==
  /\ TypeInv
  /\ ClosedInv
  /\ PacketOrder
  /\ PackInv
  /\ UnpackInv
  /\ InOrder

---------------------------------------------------------------------------
(* Chunks, and how they lie in a packet *)

LEMMA ModSmall ==
  ASSUME NEW a \in Nat, NEW n \in Nat, n > 0
  PROVE  a % n \in 0..(n - 1) /\ (a < n => a % n = a)
OBVIOUS

(* A chunk whose size is not in the message is larger than a packet. *)
LEMMA ChunkFacts ==
  ASSUME TypeInv, NEW k \in 1..Len(chunks)
  PROVE  /\ chunks[k] \in Nat
         /\ chunks[k] >= MessageHeader
         /\ chunks[k] > 0
         /\ WrittenSize(k) \in Nat
         /\ SizeCorrect(k) => WrittenSize(k) = chunks[k]
         /\ ~SizeCorrect(k) => chunks[k] > PacketSize
<1>. USE SizesAssumption
<1>1. chunks[k] \in Sizes
  BY DEF TypeInv
<1>2. /\ chunks[k] \in Nat
      /\ chunks[k] >= MessageHeader
      /\ chunks[k] > 0
  BY <1>1
<1>3. SizeRange \in Nat /\ SizeRange > 0
  OBVIOUS
<1>4. WrittenSize(k) \in 0..(SizeRange - 1)
  BY <1>2, <1>3, ModSmall DEF WrittenSize
<1>5. chunks[k] < SizeRange => WrittenSize(k) = chunks[k]
  BY <1>2, <1>3, ModSmall DEF WrittenSize
<1>. QED
  BY <1>2, <1>3, <1>4, <1>5 DEF SizeCorrect

LEMMA DatumType ==
  ASSUME TypeInv, NEW k \in 1..Len(packets)
  PROVE  /\ packets[k] \in Packet
         /\ packets[k].size \in Nat
         /\ packets[k].data \in SUBSET [at : Nat, chunk : Nat]
         /\ \A d \in packets[k].data : d.at \in Nat /\ d.chunk \in Nat
<1>1. packets[k] \in Packet
  BY DEF TypeInv
<1>. QED
  BY <1>1 DEF Packet

LEMMA LaidType ==
  ASSUME TypeInv, NEW data \in SUBSET [at : Nat, chunk : Nat], NEW end \in Nat,
         Laid(data, end), NEW d \in data
  PROVE  /\ d.at \in Nat
         /\ d.chunk \in 1..Len(chunks)
         /\ chunks[d.chunk] \in Nat
         /\ chunks[d.chunk] >= MessageHeader
         /\ chunks[d.chunk] > 0
         /\ WrittenSize(d.chunk) = chunks[d.chunk]
         /\ End(d) \in Nat
         /\ d.at < End(d)
         /\ End(d) <= end
<1>1. d.at \in Nat /\ d.chunk \in Nat
  OBVIOUS
<1>2. d.chunk \in 1..Len(chunks) /\ SizeCorrect(d.chunk) /\ End(d) <= end
  BY DEF Laid
<1>3. /\ chunks[d.chunk] \in Nat
      /\ chunks[d.chunk] >= MessageHeader
      /\ chunks[d.chunk] > 0
      /\ WrittenSize(d.chunk) = chunks[d.chunk]
  BY <1>2, ChunkFacts
<1>. QED
  BY <1>1, <1>2, <1>3 DEF End

LEMMA LaidEmpty == \A end : Laid({}, end)
BY DEF Laid

(* The next chunk goes where the last one ends. *)
LEMMA LaidGrows ==
  ASSUME TypeInv, NEW data \in SUBSET [at : Nat, chunk : Nat], NEW end \in Nat,
         Laid(data, end), end >= PacketHeader,
         NEW c \in 1..Len(chunks), SizeCorrect(c),
         \A e \in data : e.chunk < c,
         \/ data = {} /\ end = PacketHeader
         \/ \E e \in data : e.chunk = c - 1 /\ End(e) = end
  PROVE  Laid(data \cup {[at |-> end, chunk |-> c]}, end + chunks[c])
<1>. USE SizesAssumption
<1>. DEFINE new == [at |-> end, chunk |-> c]
            all == data \cup {new}
<1>0. chunks[c] \in Nat
  BY ChunkFacts
<1>1. new.at = end /\ new.chunk = c /\ End(new) = end + chunks[c]
  BY DEF End
<1>2. \A d \in data : /\ d.at \in Nat
                      /\ d.chunk \in 1..Len(chunks)
                      /\ End(d) \in Nat
                      /\ End(d) <= end
                      /\ End(d) <= end + chunks[c]
  BY <1>0, LaidType
<1>. HIDE DEF new
<1>3. ASSUME NEW d \in all
      PROVE  /\ d.chunk \in 1..Len(chunks)
             /\ SizeCorrect(d.chunk)
             /\ d.at >= PacketHeader
             /\ End(d) <= end + chunks[c]
             /\ \/ d.at = PacketHeader
                \/ \E e \in all : e.chunk = d.chunk - 1 /\ End(e) = d.at
  <2>1. CASE d \in data
    BY <1>2, <2>1 DEF Laid
  <2>2. CASE d = new
    BY <1>0, <1>1, <2>2
  <2>. QED
    BY <2>1, <2>2
<1>4. ASSUME NEW d \in all, NEW e \in all
      PROVE  /\ d.chunk < e.chunk => End(d) <= e.at
             /\ d.chunk = e.chunk => d = e
  <2>1. CASE d \in data /\ e \in data
    BY <2>1 DEF Laid
  <2>2. CASE d \in data /\ e = new
    BY <1>1, <1>2, <2>2
  <2>3. CASE d = new /\ e \in data
    BY <1>1, <1>2, <2>3
  <2>4. CASE d = new /\ e = new
    BY <1>1, <2>4
  <2>. QED
    BY <2>1, <2>2, <2>3, <2>4
<1>5. Laid(all, end + chunks[c])
  BY <1>3, <1>4 DEF Laid
<1>. QED
  BY <1>5 DEF new

(* The size is written into the header of the last packet. *)
LEMMA CloseEffect ==
  ASSUME TypeInv, Len(packets) > 0
  PROVE  /\ Closed \in Seq(Packet)
         /\ Len(Closed) = Len(packets)
         /\ \A k \in 1..(Len(packets) - 1) : Closed[k] = packets[k]
         /\ Closed[Len(packets)].to = packets[Len(packets)].to
         /\ Closed[Len(packets)].data = packets[Len(packets)].data
         /\ Closed[Len(packets)].size = offset
<1>. DEFINE L == Len(packets)
<1>1. packets \in Seq(Packet) /\ offset \in Nat /\ L \in Nat /\ L \in 1..L
  BY DEF TypeInv
<1>2. packets[L] \in Packet
  BY <1>1
<1>3. PICK p \in Packet : p = [packets[L] EXCEPT !.size = offset]
  BY <1>1, <1>2 DEF Packet
<1>4. p.to = packets[L].to /\ p.data = packets[L].data /\ p.size = offset
  BY <1>2, <1>3 DEF Packet
<1>5. Closed = [packets EXCEPT ![L] = p]
  BY <1>3 DEF Closed
<1>. QED
  BY <1>1, <1>4, <1>5

---------------------------------------------------------------------------
(* What the actions do to the packets *)

(* The list before a packet is added to it, or before a failure to. *)
Ended == IF Opened THEN Closed ELSE packets

LEMMA EndedEffect ==
  ASSUME TypeInv
  PROVE  /\ Ended \in Seq(Packet)
         /\ Len(Ended) = Len(packets)
         /\ Len(packets) \in Nat
         /\ \A k \in 1..Len(packets) :
              /\ Ended[k].to = packets[k].to
              /\ Ended[k].data = packets[k].data
              /\ Ended[k].size = IF Opened /\ k = Len(packets)
                                 THEN offset ELSE packets[k].size
<1>1. packets \in Seq(Packet) /\ Len(packets) \in Nat /\ prior \in Nat
  BY DEF TypeInv
<1>2. CASE Opened
  <2>1. Len(packets) > 0 /\ Ended = Closed
    BY <1>1, <1>2 DEF Opened, Ended
  <2>. QED
    BY <1>1, <1>2, <2>1, CloseEffect
<1>3. CASE ~Opened
  BY <1>1, <1>3 DEF Ended
<1>. QED
  BY <1>2, <1>3

LEMMA NewPacketEffect ==
  ASSUME TypeInv, NewPacket
  PROVE  /\ packets' \in Seq(Packet)
         /\ Len(packets') = Len(packets) + 1
         /\ Len(packets) \in Nat
         /\ packets'[Len(packets) + 1].to = "us"
         /\ packets'[Len(packets) + 1].size = 0
         /\ packets'[Len(packets) + 1].data = {}
         /\ \A k \in 1..Len(packets) :
              /\ packets'[k].to = packets[k].to
              /\ packets'[k].data = packets[k].data
              /\ packets'[k].size = IF Opened /\ k = Len(packets)
                                    THEN offset ELSE packets[k].size
<1>1. packets' = Append(Ended, Fresh)
  BY DEF NewPacket, Ended
<1>2. Fresh \in Packet /\ Fresh.to = "us" /\ Fresh.size = 0 /\ Fresh.data = {}
  BY DEF Fresh, Packet
<1>3. /\ Ended \in Seq(Packet)
      /\ Len(Ended) = Len(packets)
      /\ Len(packets) \in Nat
  BY EndedEffect
<1>4. /\ packets' \in Seq(Packet)
      /\ Len(packets') = Len(packets) + 1
      /\ packets'[Len(packets) + 1] = Fresh
      /\ \A k \in 1..Len(packets) : packets'[k] = Ended[k]
  BY <1>1, <1>2, <1>3
<1>. QED
  BY <1>2, <1>3, <1>4, EndedEffect

LEMMA AddChunkEffect ==
  ASSUME TypeInv, Opened, AddChunk
  PROVE  /\ packets' \in Seq(Packet)
         /\ Len(packets') = Len(packets)
         /\ Len(packets) \in Nat \ {0}
         /\ \A k \in 1..Len(packets) :
              /\ packets'[k].to = packets[k].to
              /\ packets'[k].size = packets[k].size
              /\ k # Len(packets) => packets'[k].data = packets[k].data
         /\ packets'[Len(packets)].data
              = packets[Len(packets)].data \cup {[at |-> offset, chunk |-> i]}
<1>. DEFINE L == Len(packets)
            new == [at |-> offset, chunk |-> i]
<1>1. /\ packets \in Seq(Packet) /\ offset \in Nat /\ i \in Nat
      /\ L \in Nat /\ L \in 1..L
  BY DEF TypeInv, Opened
<1>2. packets[L] \in Packet /\ new \in [at : Nat, chunk : Nat]
  BY <1>1
<1>. HIDE DEF new
<1>3. PICK p : p = [packets[L] EXCEPT !.data = packets[L].data \cup {new}]
  OBVIOUS
<1>4. /\ p \in Packet
      /\ p.to = packets[L].to /\ p.size = packets[L].size
      /\ p.data = packets[L].data \cup {new}
  BY <1>2, <1>3 DEF Packet
<1>5. packets' = [packets EXCEPT ![L] = p]
  BY <1>3 DEF AddChunk, new
<1>6. /\ packets' \in Seq(Packet)
      /\ Len(packets') = L
      /\ packets'[L] = p
      /\ \A k \in 1..L : k # L => packets'[k] = packets[k]
  BY <1>1, <1>4, <1>5
<1>. QED
  BY <1>1, <1>4, <1>6 DEF new

LEMMA EmptyPacketEffect ==
  ASSUME TypeInv, EmptyPacket
  PROVE  /\ packets' \in Seq(Packet)
         /\ Len(packets') = Len(packets) + 1
         /\ Len(packets) \in Nat
         /\ packets'[1].size = 0
         /\ packets'[1].data = {}
         /\ \A k \in 2..Len(packets) : packets'[k] = packets[k]
         /\ Len(packets) > 0 => packets'[Len(packets) + 1].to = "nobody"
<1>1. packets \in Seq(Packet) /\ Len(packets) \in Nat
  BY DEF TypeInv
<1>2. /\ Unset \in Packet /\ Fresh \in Packet
      /\ Unset.to = "nobody" /\ Fresh.size = 0 /\ Fresh.data = {}
  BY DEF Unset, Fresh, Packet
<1>. DEFINE q == Append(packets, Unset)
<1>3. /\ q \in Seq(Packet)
      /\ Len(q) = Len(packets) + 1
      /\ q[Len(packets) + 1] = Unset
      /\ \A k \in 1..Len(packets) : q[k] = packets[k]
  BY <1>1, <1>2
<1>4. packets' = [q EXCEPT ![1] = Fresh]
  BY DEF EmptyPacket
<1>. HIDE DEF q
<1>5. /\ packets' \in Seq(Packet)
      /\ Len(packets') = Len(q)
      /\ packets'[1] = Fresh
      /\ \A k \in 2..Len(q) : packets'[k] = q[k]
  BY <1>1, <1>2, <1>3, <1>4
<1>. QED
  BY <1>1, <1>2, <1>3, <1>5

(* The receiver cuts out a chunk that lies at the offset. *)
LEMMA HereFacts ==
  ASSUME PInv, stage = "read", NEW d \in Here
  PROVE  /\ i \in Ours
         /\ d \in packets[i].data
         /\ d.at = offset
         /\ d.chunk \in 1..Len(chunks)
         /\ WrittenSize(d.chunk) = chunks[d.chunk]
         /\ chunks[d.chunk] \in Nat
         /\ chunks[d.chunk] > 0
         /\ chunks[d.chunk] >= MessageHeader
         /\ End(d) <= packets[i].size
<1>1. TypeInv /\ i \in Ours /\ packets[i].size # 0
  BY DEF PInv, UnpackInv, Packing
<1>2. i \in 1..Len(packets) /\ Laid(packets[i].data, packets[i].size)
  BY <1>1 DEF PInv, ClosedInv, Ours
<1>3. d \in packets[i].data /\ d.at = offset
  BY DEF Here
<1>4. /\ packets[i].data \in SUBSET [at : Nat, chunk : Nat]
      /\ packets[i].size \in Nat
  BY <1>1, <1>2, DatumType
<1>. QED
  BY <1>1, <1>2, <1>3, <1>4, LaidType

LEMMA TypeStep ==
  ASSUME PInv, [Next]_vars
  PROVE  TypeInv'
<1>. USE SizesAssumption DEF TypeInv
<1>0. TypeInv
  BY DEF PInv
<1>1. CASE KeepPacket
  BY <1>0, <1>1 DEF KeepPacket
<1>2. CASE NewPacket
  BY <1>0, <1>2, NewPacketEffect DEF NewPacket
<1>3. CASE NewPacketFails
  <2>1. packets' \in Seq(Packet)
    BY <1>0, <1>3, EndedEffect DEF NewPacketFails, Ended
  <2>. QED
    BY <1>0, <1>3, <2>1 DEF NewPacketFails
<1>4. CASE AddChunk
  <2>1. Opened /\ i \in 1..Len(chunks)
    BY <1>0, <1>4 DEF AddChunk, PInv, PackInv, Packing
  <2>2. packets' \in Seq(Packet)
    BY <1>0, <1>4, <2>1, AddChunkEffect
  <2>3. offset + chunks[i] \in Nat
    BY <1>0, <2>1, ChunkFacts
  <2>. QED
    <3>1. /\ offset' = offset + chunks[i]
          /\ i' = i + 1
          /\ stage' = "cut"
          /\ UNCHANGED <<ndebug, chunks, prior, status, box>>
      BY <1>4 DEF AddChunk
    <3>. QED
      BY <1>0, <2>2, <2>3, <3>1
<1>5. CASE WrongSize \/ Overrun
  <2>1. CASE WrongSize
    BY <1>0, <2>1 DEF WrongSize
  <2>2. CASE Overrun
    BY <1>0, <2>2 DEF Overrun
  <2>. QED
    BY <1>5, <2>1, <2>2
<1>6. CASE LastHeader
  <2>1. packets' \in Seq(Packet)
    BY <1>0, <1>6, EndedEffect DEF LastHeader, Ended
  <2>. QED
    BY <1>0, <1>6, <2>1 DEF LastHeader
<1>7. CASE EmptyPacket
  BY <1>0, <1>7, EmptyPacketEffect DEF EmptyPacket
<1>8. CASE EmptyPacketFails
  BY <1>0, <1>8 DEF EmptyPacketFails
<1>9. CASE Abort
  BY <1>0, <1>9 DEF Abort
<1>10. CASE SkipPacket
  BY <1>0, <1>10 DEF SkipPacket
<1>11. CASE OpenPacket \/ RefusePacket \/ ReceiverAbort
  <2>1. CASE OpenPacket
    BY <1>0, <2>1 DEF OpenPacket
  <2>2. CASE RefusePacket
    BY <1>0, <2>2 DEF RefusePacket
  <2>3. CASE ReceiverAbort
    BY <1>0, <2>3 DEF ReceiverAbort
  <2>. QED
    BY <1>11, <2>1, <2>2, <2>3
<1>12. CASE ReadChunk
  <2>1. PICK d \in Here : /\ box' = Append(box, Piece(d.chunk))
                          /\ offset' = offset + WrittenSize(d.chunk)
    BY <1>12 DEF ReadChunk
  <2>2. d.chunk \in Nat /\ WrittenSize(d.chunk) \in Nat
    BY <1>12, <2>1, HereFacts DEF ReadChunk
  <2>3. Piece(d.chunk) \in [chunk : Nat, bytes : Nat]
    BY <2>2 DEF Piece
  <2>4. box' \in Seq([chunk : Nat, bytes : Nat]) /\ offset' \in Nat
    BY <1>0, <2>1, <2>2, <2>3
  <2>. QED
    BY <1>0, <1>12, <2>4 DEF ReadChunk
<1>13. CASE ReadFails
  <2>1. [chunk |-> NoChunk, bytes |-> 0] \in [chunk : Nat, bytes : Nat]
    BY DEF NoChunk
  <2>2. box' \in Seq([chunk : Nat, bytes : Nat])
    <3>1. PICK b : b = [chunk |-> NoChunk, bytes |-> 0]
      OBVIOUS
    <3>2. box' = box \/ box' = Append(box, b)
      BY <1>13, <3>1 DEF ReadFails
    <3>. DEFINE S == [chunk : Nat, bytes : Nat]
    <3>3. box \in Seq(S) /\ b \in S
      BY <1>0, <2>1, <3>1
    <3>. HIDE DEF S
    <3>4. Append(box, b) \in Seq(S)
      BY <3>3
    <3>5. box' \in Seq(S)
      BY <3>2, <3>3, <3>4
    <3>. QED
      BY <3>5 DEF S
  <2>. QED
    BY <1>0, <1>13, <2>2 DEF ReadFails
<1>14. CASE EndPacket
  BY <1>0, <1>14 DEF EndPacket
<1>15. CASE UnpackDone
  BY <1>0, <1>15 DEF UnpackDone
<1>16. CASE UNCHANGED vars
  BY <1>0, <1>16 DEF vars
<1>. QED
  BY <1>1, <1>2, <1>3, <1>4, <1>5, <1>6, <1>7, <1>8, <1>9, <1>10, <1>11,
     <1>12, <1>13, <1>14, <1>15, <1>16 DEF Next

---------------------------------------------------------------------------
(* peer_pack *)

LEMMA LaidSame ==
  ASSUME chunks' = chunks, ndebug' = ndebug
  PROVE  \A data, end : /\ Laid(data, end)' <=> Laid(data, end)
                        /\ Bounded(data, end)' <=> Bounded(data, end)
BY DEF Laid, End, SizeCorrect, WrittenSize, Bounded, Oversized

LEMMA OursType ==
  ASSUME TypeInv
  PROVE  \A k \in Ours : /\ k \in 1..Len(packets)
                         /\ k \in Nat
                         /\ packets[k].size \in Nat
                         /\ packets[k].data \in SUBSET [at : Nat, chunk : Nat]
BY DatumType DEF Ours, TypeInv

LEMMA PackedMember ==
  \A c : c \in Packed <=> \E k \in Ours : \E d \in packets[k].data : d.chunk = c
BY DEF Packed

(* In a packet that is being filled and has chunks, the last one ends at   *)
(* the offset.                                                             *)
LEMMA OpenFacts ==
  ASSUME PInv, stage = "cut", Opened
  PROVE  /\ Len(packets) \in Ours
         /\ OpenInv
         /\ offset > 0
         /\ Bounded(packets[Len(packets)].data, offset)
         /\ Laid(packets[Len(packets)].data, offset)
<1>1. TypeInv /\ OpenInv
  BY DEF PInv, PackInv, Packing
<1>2. Len(packets) \in Nat /\ Len(packets) > prior /\ prior \in Nat
  BY <1>1 DEF TypeInv, Opened
<1>3. Len(packets) \in Ours
  BY <1>2 DEF PInv, PackInv, Packing, Ours
<1>4. PICK e \in packets[Len(packets)].data : End(e) = offset
  BY <1>1 DEF OpenInv
<1>5. /\ packets[Len(packets)].data \in SUBSET [at : Nat, chunk : Nat]
      /\ offset \in Nat
      /\ Laid(packets[Len(packets)].data, offset)
  BY <1>1, <1>3, OursType DEF OpenInv, TypeInv
<1>6. offset > 0
  BY <1>1, <1>4, <1>5, LaidType
<1>. QED
  BY <1>1, <1>3, <1>4, <1>5, <1>6 DEF OpenInv

LEMMA KeepPacketStep ==
  ASSUME PInv, KeepPacket
  PROVE  PInv'
<1>. USE SizesAssumption
<1>1. TypeInv /\ TypeInv' /\ PackInv /\ i \in 1..Len(chunks)
  BY TypeStep DEF PInv, Next, KeepPacket, TypeInv
<1>2. /\ UNCHANGED <<ndebug, chunks, prior, packets, i, offset, status, box>>
      /\ stage = "cut" /\ stage' = "add" /\ Packing /\ Packing'
      /\ Fits(i)
  BY DEF KeepPacket, Packing
<1>3. chunks[i] \in Nat /\ chunks[i] > 0 /\ offset \in Nat
      /\ offset + chunks[i] <= PacketSize
  BY <1>1, <1>2, ChunkFacts DEF TypeInv, Fits
<1>4. Opened /\ SizeCorrect(i)
  <2>1. offset # PacketSize
    BY <1>3
  <2>2. ~(chunks[i] > PacketSize)
    BY <1>3
  <2>. QED
    BY <1>1, <1>2, <2>1, <2>2, ChunkFacts DEF PackInv
<1>5. /\ Ours' = Ours /\ Packed' = Packed /\ (Opened' <=> Opened)
      /\ (SizeCorrect(i)' <=> SizeCorrect(i))
      /\ \A data, end : /\ Laid(data, end)' <=> Laid(data, end)
                        /\ Bounded(data, end)' <=> Bounded(data, end)
  BY <1>2, LaidSame DEF Ours, Packed, Opened, SizeCorrect, WrittenSize
<1>6. ClosedInv' /\ PacketOrder' /\ InOrder'
  BY <1>2, <1>5 DEF PInv, ClosedInv, PacketOrder, InOrder
<1>7. OpenInv'
  <2>1. OpenInv
    BY <1>1, <1>2, <1>4 DEF PackInv
  <2>. QED
    BY <1>2, <1>3, <1>4, <1>5, <2>1 DEF OpenInv, End
<1>8. PackInv'
  BY <1>1, <1>2, <1>4, <1>5, <1>7 DEF PackInv
<1>. QED
  BY <1>1, <1>2, <1>6, <1>8 DEF PInv, UnpackInv

LEMMA NewPacketStep ==
  ASSUME PInv, NewPacket
  PROVE  PInv'
<1>. USE SizesAssumption
<1>. DEFINE L == Len(packets)
<1>1. TypeInv /\ TypeInv' /\ PackInv /\ i \in 1..Len(chunks)
  BY TypeStep DEF PInv, Next, NewPacket, TypeInv
<1>2. /\ UNCHANGED <<ndebug, chunks, prior, i, status, box>>
      /\ stage = "cut" /\ stage' = "add" /\ Packing /\ Packing'
      /\ offset' = PacketHeader
  BY DEF NewPacket, Packing
<1>3. /\ Len(packets') = L + 1
      /\ L \in Nat
      /\ packets'[L + 1].to = "us"
      /\ packets'[L + 1].size = 0
      /\ packets'[L + 1].data = {}
      /\ \A k \in 1..L :
           /\ packets'[k].to = packets[k].to
           /\ packets'[k].data = packets[k].data
           /\ packets'[k].size = IF Opened /\ k = L
                                 THEN offset ELSE packets[k].size
  BY <1>1, NewPacketEffect
<1>4. /\ prior \in Nat /\ prior <= L
      /\ \A k \in 1..L : packets[k].to = "us" <=> k > prior
      /\ Packed = 1..(i - 1)
  BY <1>1, <1>2 DEF PackInv, TypeInv
<1>5. Ours' = Ours \cup {L + 1}
  <2>1. 1..(L + 1) = 1..L \cup {L + 1}
    BY <1>3
  <2>. QED
    BY <1>3, <2>1 DEF Ours
<1>6. \A k \in Ours : k \in 1..L /\ k \in Nat /\ Opened
  BY <1>3, <1>4 DEF Ours, Opened
<1>7. Packed' = Packed
  BY <1>3, <1>5, <1>6 DEF Packed
<1>8. /\ \A data, end : /\ Laid(data, end)' <=> Laid(data, end)
                        /\ Bounded(data, end)' <=> Bounded(data, end)
      /\ SizeCorrect(i)' <=> SizeCorrect(i)
  BY <1>2, LaidSame DEF SizeCorrect, WrittenSize
<1>9. ClosedInv'
  <2>1. ASSUME NEW k \in Ours
        PROVE  /\ packets'[k].size # 0 =>
                    /\ Bounded(packets'[k].data, packets'[k].size)
                    /\ Laid(packets'[k].data, packets'[k].size)
               /\ packets'[k].size = 0 => packets'[k].data = {}
    <3>1. CASE k = L
      BY <1>2, <1>3, <1>6, <2>1, <3>1, OpenFacts
    <3>2. CASE k # L
      BY <1>3, <1>6, <2>1, <3>2 DEF PInv, ClosedInv
    <3>. QED
      BY <3>1, <3>2
  <2>. QED
    BY <1>2, <1>3, <1>5, <1>8, <2>1 DEF ClosedInv
<1>10. PacketOrder'
  <2>1. ASSUME NEW k \in Ours', NEW l \in Ours', k < l,
               NEW d \in packets'[k].data, NEW e \in packets'[l].data
        PROVE  d.chunk < e.chunk
    <3>1. k \in Ours /\ l \in Ours
      BY <1>3, <1>5, <2>1
    <3>. QED
      BY <1>3, <1>6, <2>1, <3>1 DEF PInv, PacketOrder
  <2>. QED
    BY <2>1 DEF PacketOrder
<1>11. Opened' /\ OpenInv'
  <2>1. Opened'
    BY <1>2, <1>3, <1>4 DEF Opened
  <2>. QED
    BY <1>2, <1>3, <1>8, <2>1, LaidEmpty DEF OpenInv
<1>12. PackInv'
  <2>1. \A k \in 1..(L + 1) : packets'[k].to = "us" <=> k > prior
    <3>1. L + 1 > prior
      BY <1>3, <1>4
    <3>. QED
      BY <1>3, <1>4, <3>1
  <2>. QED
    BY <1>1, <1>2, <1>3, <1>4, <1>7, <1>11, <2>1 DEF PackInv
<1>13. InOrder'
  BY <1>2 DEF PInv, InOrder
<1>. QED
  BY <1>1, <1>2, <1>9, <1>10, <1>12, <1>13 DEF PInv, UnpackInv

LEMMA AddChunkStep ==
  ASSUME PInv, AddChunk
  PROVE  PInv'
<1>. USE SizesAssumption
<1>. DEFINE L == Len(packets)
            new == [at |-> offset, chunk |-> i]
            data == packets[L].data
<1>1. TypeInv /\ TypeInv' /\ PackInv
  BY TypeStep DEF PInv, Next
<1>2. /\ UNCHANGED <<ndebug, chunks, prior, status, box>>
      /\ stage = "add" /\ stage' = "cut" /\ Packing /\ Packing'
      /\ offset' = offset + chunks[i]
      /\ i' = i + 1
      /\ SizeCorrect(i)
  BY DEF AddChunk, Packing
<1>3. /\ Opened /\ OpenInv
      /\ i \in 1..Len(chunks)
      /\ offset \in Nat
      /\ Packed = 1..(i - 1)
  BY <1>1, <1>2 DEF PackInv, TypeInv
<1>4. /\ Len(packets') = L
      /\ L \in Nat \ {0}
      /\ \A k \in 1..L :
           /\ packets'[k].to = packets[k].to
           /\ packets'[k].size = packets[k].size
           /\ k # L => packets'[k].data = packets[k].data
      /\ packets'[L].data = data \cup {new}
  BY <1>1, <1>3, AddChunkEffect
<1>5. /\ Ours' = Ours
      /\ \A k \in Ours : k \in 1..L /\ k \in Nat
      /\ L \in Ours
      /\ (Opened' <=> Opened)
      /\ \A c, end : /\ Laid(c, end)' <=> Laid(c, end)
                     /\ Bounded(c, end)' <=> Bounded(c, end)
  <2>1. L \in Ours
    BY <1>1, <1>2, <1>3, <1>4 DEF PackInv, Ours, Opened, TypeInv
  <2>. QED
    BY <1>2, <1>4, <2>1, LaidSame DEF Ours, Opened
<1>6. /\ new.at = offset /\ new.chunk = i
      /\ End(new) = offset + chunks[i]
      /\ chunks[i] \in Nat /\ chunks[i] > 0
  BY <1>1, <1>3, ChunkFacts DEF End
<1>7. ASSUME NEW k \in Ours, NEW d \in packets[k].data
      PROVE  d.chunk \in 1..(i - 1) /\ d.chunk < i
  <2>1. d.chunk \in Packed
    BY PackedMember
  <2>. QED
    BY <1>3, <2>1
<1>8. Laid(data \cup {new}, offset + chunks[i])
  <2>1. data \in SUBSET [at : Nat, chunk : Nat]
    BY <1>1, <1>5, OursType
  <2>2. /\ Laid(data, offset) /\ offset >= PacketHeader
        /\ \/ data = {} /\ offset = PacketHeader
           \/ \E e \in data : e.chunk = i - 1 /\ End(e) = offset
    BY <1>3 DEF OpenInv
  <2>3. \A e \in data : e.chunk < i
    BY <1>5, <1>7
  <2>. HIDE DEF data
  <2>. QED
    BY <1>1, <1>2, <1>3, <2>1, <2>2, <2>3, LaidGrows
<1>9. Packed' = 1..i
  <2>1. ASSUME NEW c PROVE c \in Packed' <=> c \in Packed \/ c = i
    <3>1. c \in Packed' <=> \E k \in Ours : \E d \in packets'[k].data : d.chunk = c
      BY <1>5 DEF Packed
    <3>2. c \in Packed <=> \E k \in Ours : \E d \in packets[k].data : d.chunk = c
      BY PackedMember
    <3>3. c = i => c \in Packed'
      BY <1>4, <1>5, <1>6, <3>1
    <3>4. \A k \in Ours : packets[k].data \subseteq packets'[k].data
      BY <1>4, <1>5
    <3>5. \A k \in Ours : \A d \in packets'[k].data :
            d \in packets[k].data \/ d.chunk = i
      BY <1>4, <1>5, <1>6
    <3>. QED
      BY <3>1, <3>2, <3>3, <3>4, <3>5
  <2>2. 1..i = 1..(i - 1) \cup {i}
    BY <1>3
  <2>. QED
    BY <1>3, <2>1, <2>2
<1>. HIDE DEF new
<1>10. packets[L].size = 0 /\ packets'[L].size = 0
  BY <1>3, <1>4 DEF OpenInv
<1>11. ClosedInv'
  <2>1. ASSUME NEW k \in Ours, k # L
        PROVE  /\ packets'[k].size # 0 =>
                    /\ Bounded(packets'[k].data, packets'[k].size)
                    /\ Laid(packets'[k].data, packets'[k].size)
               /\ packets'[k].size = 0 => packets'[k].data = {}
    BY <1>4, <1>5, <2>1 DEF PInv, ClosedInv
  <2>. QED
    BY <1>2, <1>4, <1>5, <1>10, <2>1 DEF ClosedInv
<1>12. PacketOrder'
  <2>1. ASSUME NEW k \in Ours, NEW l \in Ours, k < l,
               NEW d \in packets'[k].data, NEW e \in packets'[l].data
        PROVE  d.chunk < e.chunk
    <3>1. k # L /\ d \in packets[k].data
      BY <1>4, <1>5, <2>1
    <3>2. CASE e \in packets[l].data
      BY <2>1, <3>1, <3>2 DEF PInv, PacketOrder
    <3>3. CASE e \notin packets[l].data
      <4>1. e = new
        BY <1>4, <1>5, <2>1, <3>3
      <4>. QED
        BY <1>6, <1>7, <3>1, <4>1
    <3>. QED
      BY <3>2, <3>3
  <2>. QED
    BY <1>5, <2>1 DEF PacketOrder
<1>13. OpenInv'
  <2>1. Bounded(data \cup {new}, offset + chunks[i])
    <3>1. CASE data = {}
      <4>1. offset = PacketHeader /\ data \cup {new} = {new}
        BY <1>3, <3>1 DEF OpenInv
      <4>2. ndebug \/ chunks[i] + PacketHeader < PacketSize
        BY DEF AddChunk
      <4>3. chunks[i] + PacketHeader > PacketSize =>
              Oversized(new.chunk)
        BY <1>3, <1>6 DEF Oversized
      <4>. QED
        BY <1>3, <1>6, <4>1, <4>2, <4>3 DEF Bounded
    <3>2. CASE data # {}
      BY <1>2, <1>3, <3>2 DEF OpenInv, Bounded
    <3>. QED
      BY <3>1, <3>2
  <2>2. PacketHeader <= offset + chunks[i]
    BY <1>3, <1>6 DEF OpenInv
  <2>3. PICK e : e = new
    OBVIOUS
  <2>4. e \in packets'[L].data /\ e.chunk = i' - 1 /\ End(e)' = offset'
    <3>1. End(e)' = e.at + chunks[e.chunk]
      BY <1>2 DEF End
    <3>. QED
      BY <1>2, <1>3, <1>4, <1>6, <2>3, <3>1
  <2>. QED
    BY <1>2, <1>4, <1>5, <1>8, <1>10, <2>1, <2>2, <2>4 DEF OpenInv
<1>14. PackInv'
  <2>1. (i' - 1) = i /\ i' - 1 <= Len(chunks)
    BY <1>2, <1>3
  <2>2. /\ box' = <<>> /\ status' = "ok" /\ prior' <= Len(packets')
        /\ \A k \in 1..Len(packets') : packets'[k].to = "us" <=> k > prior'
    BY <1>1, <1>2, <1>4 DEF PackInv
  <2>. QED
    BY <1>2, <1>3, <1>5, <1>9, <1>13, <2>1, <2>2 DEF PackInv
<1>15. InOrder'
  BY <1>2 DEF PInv, InOrder
<1>. QED
  BY <1>1, <1>2, <1>11, <1>12, <1>14, <1>15 DEF PInv, UnpackInv

(* However peer_pack ends, unpacking starts with all chunks ahead. *)
LEMMA PackingEnds ==
  ASSUME PInv, Packing, TypeInv', ClosedInv', PacketOrder', Packed' = Packed,
         stage' = "unpack", i' = 1, UNCHANGED <<chunks, box>>,
         status' = "ok" => i > Len(chunks)
  PROVE  PInv'
<1>1. /\ box = <<>> /\ i - 1 <= Len(chunks)
      /\ Packed = 1..(i - 1)
      /\ i \in Nat \ {0} /\ Len(chunks) \in Nat
  BY DEF PInv, PackInv, TypeInv
<1>2. ~Packing' /\ PackInv' /\ box' = <<>> /\ Len(box') = 0
  BY <1>1 DEF Packing, PackInv
<1>3. \E m \in 0..Len(chunks') : Packed' = 1..m
  BY <1>1
<1>4. status' = "ok" => Packed' = 1..Len(chunks')
  <2>1. i > Len(chunks) => i - 1 = Len(chunks)
    BY <1>1
  <2>. QED
    BY <1>1, <2>1
<1>5. \A k \in Ours' : \A d \in packets'[k].data : Ahead(k, d)'
  <2>1. \A k \in Ours' : k \in Nat /\ k >= 1
    BY OursType, <1>2 DEF Ours, TypeInv
  <2>. QED
    BY <2>1 DEF Ahead
<1>6. status' = "ok" => ReadInv'
  BY <1>1, <1>2, <1>4, <1>5 DEF ReadInv
<1>7. UnpackInv' /\ InOrder'
  BY <1>2, <1>3, <1>6 DEF UnpackInv, InOrder
<1>. QED
  BY <1>2, <1>7 DEF PInv

LEMMA EndsWithHeader ==
  ASSUME PInv, LastHeader \/ NewPacketFails
  PROVE  PInv'
<1>. DEFINE L == Len(packets)
<1>1. TypeInv /\ TypeInv'
  BY TypeStep DEF PInv, Next
<1>2. /\ UNCHANGED <<ndebug, chunks, prior, box>>
      /\ stage = "cut" /\ stage' = "unpack" /\ Packing /\ ~Packing'
      /\ i' = 1
      /\ packets' = Ended
      /\ status' = "ok" => i > Len(chunks)
  BY DEF LastHeader, NewPacketFails, Packing, Ended
<1>3. /\ Len(packets') = L
      /\ L \in Nat
      /\ \A k \in 1..L :
           /\ packets'[k].to = packets[k].to
           /\ packets'[k].data = packets[k].data
           /\ packets'[k].size = IF Opened /\ k = L
                                 THEN offset ELSE packets[k].size
  BY <1>1, <1>2, EndedEffect
<1>4. /\ prior \in Nat
      /\ \A k \in 1..L : packets[k].to = "us" <=> k > prior
  BY <1>1, <1>2 DEF PInv, PackInv, TypeInv
<1>5. /\ Ours' = Ours
      /\ \A k \in Ours : k \in 1..L /\ k \in Nat /\ Opened
  BY <1>3, <1>4 DEF Ours, Opened
<1>6. Packed' = Packed
  BY <1>3, <1>5 DEF Packed
<1>7. \A data, end : /\ Laid(data, end)' <=> Laid(data, end)
                     /\ Bounded(data, end)' <=> Bounded(data, end)
  BY <1>2, LaidSame
<1>8. ClosedInv'
  <2>1. ASSUME NEW k \in Ours
        PROVE  /\ packets'[k].size # 0 =>
                    /\ Bounded(packets'[k].data, packets'[k].size)
                    /\ Laid(packets'[k].data, packets'[k].size)
               /\ packets'[k].size = 0 => packets'[k].data = {}
    <3>1. CASE k = L
      BY <1>2, <1>3, <1>5, <2>1, <3>1, OpenFacts
    <3>2. CASE k # L
      BY <1>3, <1>5, <2>1, <3>2 DEF PInv, ClosedInv
    <3>. QED
      BY <3>1, <3>2
  <2>. QED
    BY <1>5, <1>7, <2>1 DEF ClosedInv
<1>9. PacketOrder'
  BY <1>3, <1>5 DEF PInv, PacketOrder
<1>. QED
  BY <1>1, <1>2, <1>6, <1>8, <1>9, PackingEnds

(* PEER_ERROR_INVALID_MESSAGE_SIZE leaves one packet without a header, and *)
(* no chunk is in it.                                                      *)
LEMMA WrongSizeStep ==
  ASSUME PInv, WrongSize
  PROVE  PInv'
<1>1. TypeInv /\ TypeInv'
  BY TypeStep DEF PInv, Next
<1>2. /\ UNCHANGED <<ndebug, chunks, prior, packets, offset, box>>
      /\ stage = "add" /\ stage' = "unpack" /\ Packing /\ ~Packing'
      /\ i' = 1
      /\ status' # "ok"
      /\ ~SizeCorrect(i)
  BY DEF WrongSize, Packing
<1>3. packets[Len(packets)].data = {}
  BY <1>2 DEF PInv, PackInv, OpenInv
<1>4. /\ Ours' = Ours /\ Packed' = Packed
      /\ \A data, end : /\ Laid(data, end)' <=> Laid(data, end)
                        /\ Bounded(data, end)' <=> Bounded(data, end)
  BY <1>2, LaidSame DEF Ours, Packed
<1>5. ClosedInv' /\ PacketOrder'
  BY <1>2, <1>3, <1>4 DEF PInv, ClosedInv, PacketOrder
<1>. QED
  BY <1>1, <1>2, <1>4, <1>5, PackingEnds

LEMMA EndsWithoutChunks ==
  ASSUME PInv, EmptyPacket \/ EmptyPacketFails
  PROVE  PInv'
<1>1. TypeInv /\ TypeInv'
  BY TypeStep DEF PInv, Next
<1>2. /\ UNCHANGED <<ndebug, chunks, prior, box>>
      /\ stage = "cut" /\ stage' = "unpack" /\ Packing /\ ~Packing'
      /\ i' = 1
      /\ i > Len(chunks)
      /\ ~Opened
  BY DEF EmptyPacket, EmptyPacketFails, Packing
<1>3. Ours = {} /\ Packed = {}
  <2>1. Ours = {}
    BY <1>1, <1>2 DEF PInv, PackInv, Ours, Opened, TypeInv
  <2>. QED
    BY <2>1 DEF Packed
<1>4. \A k \in Ours' : packets'[k].size = 0 /\ packets'[k].data = {}
  <2>1. CASE EmptyPacketFails
    BY <1>3, <2>1 DEF EmptyPacketFails, Ours
  <2>2. CASE EmptyPacket
    <3>1. /\ Len(packets') = Len(packets) + 1
          /\ Len(packets) \in Nat
          /\ packets'[1].size = 0
          /\ packets'[1].data = {}
          /\ \A k \in 2..Len(packets) : packets'[k] = packets[k]
          /\ Len(packets) > 0 => packets'[Len(packets) + 1].to = "nobody"
      BY <1>1, <2>2, EmptyPacketEffect
    <3>2. ASSUME NEW k \in 1..(Len(packets) + 1), packets'[k].to = "us"
          PROVE  k = 1
      <4>1. k \notin 2..Len(packets)
        BY <1>3, <3>1, <3>2 DEF Ours
      <4>2. ~(k = Len(packets) + 1 /\ Len(packets) > 0)
        BY <3>1, <3>2
      <4>. QED
        BY <3>1, <3>2, <4>1, <4>2
    <3>. QED
      BY <3>1, <3>2 DEF Ours
  <2>. QED
    BY <2>1, <2>2
<1>5. Packed' = {} /\ ClosedInv' /\ PacketOrder'
  BY <1>4 DEF Packed, ClosedInv, PacketOrder
<1>. QED
  BY <1>1, <1>2, <1>3, <1>5, PackingEnds

LEMMA AbortStep ==
  ASSUME PInv, Abort \/ Overrun
  PROVE  PInv'
<1>1. TypeInv /\ TypeInv'
  BY TypeStep DEF PInv, Next
<1>2. /\ UNCHANGED <<ndebug, chunks, prior, packets, i, offset, status, box>>
      /\ stage' = "aborted" /\ Packing /\ Packing'
  BY DEF Abort, Overrun, Packing
<1>3. /\ Ours' = Ours /\ Packed' = Packed /\ (Opened' <=> Opened)
      /\ \A data, end : /\ Laid(data, end)' <=> Laid(data, end)
                        /\ Bounded(data, end)' <=> Bounded(data, end)
  BY <1>2, LaidSame DEF Ours, Packed, Opened
<1>4. ClosedInv' /\ PacketOrder' /\ InOrder'
  BY <1>2, <1>3 DEF PInv, ClosedInv, PacketOrder, InOrder
<1>5. OpenInv => OpenInv'
  BY <1>2, <1>3 DEF OpenInv, End
<1>6. PackInv'
  BY <1>2, <1>3, <1>5 DEF PInv, PackInv
<1>. QED
  BY <1>1, <1>2, <1>4, <1>6 DEF PInv, UnpackInv

---------------------------------------------------------------------------
(* peer_unpack *)

(* Reading changes no packet. *)
LEMMA UnpackFrame ==
  ASSUME PInv, TypeInv', ~Packing, ~Packing',
         UNCHANGED <<packets, chunks, ndebug>>,
         UnpackInv', InOrder'
  PROVE  PInv'
<1>1. /\ Ours' = Ours
      /\ \A data, end : /\ Laid(data, end)' <=> Laid(data, end)
                        /\ Bounded(data, end)' <=> Bounded(data, end)
  BY LaidSame DEF Ours
<1>2. ClosedInv' /\ PacketOrder' /\ PackInv'
  BY <1>1 DEF PInv, ClosedInv, PacketOrder, PackInv
<1>. QED
  BY <1>2 DEF PInv

LEMMA OursSame ==
  ASSUME UNCHANGED <<packets, chunks>>
  PROVE  /\ Ours' = Ours
         /\ Packed' = Packed
         /\ \A e : End(e)' = End(e)
BY DEF Ours, Packed, End

(* A step that reads no chunk and passes none over. *)
LEMMA PassStep ==
  ASSUME PInv, TypeInv', ~Packing, ~Packing',
         UNCHANGED <<packets, chunks, ndebug, box, status>>,
         \A k \in Ours : \A d \in packets[k].data : Ahead(k, d)' <=> Ahead(k, d),
         stage' = "read" => /\ i' \in Ours
                            /\ packets[i'].size # 0
                            /\ offset' = PacketHeader,
         stage' = "done" => i' > Len(packets)
  PROVE  PInv'
<1>. USE SizesAssumption
<1>1. /\ Ours' = Ours /\ Packed' = Packed
      /\ \A e : End(e)' = End(e)
  BY OursSame
<1>2. UnpackInv
  BY DEF PInv
<1>3. InOrder'
  BY DEF PInv, InOrder
<1>4. status = "ok" => ReadInv'
  <2>1. SUFFICES ASSUME ReadInv PROVE ReadInv'
    BY <1>2 DEF UnpackInv
  <2>. QED
    BY <1>1, <2>1 DEF ReadInv
<1>5. UnpackInv'
  BY <1>1, <1>2, <1>4 DEF UnpackInv
<1>. QED
  BY <1>3, <1>5, UnpackFrame

LEMMA SkipPacketStep ==
  ASSUME PInv, SkipPacket
  PROVE  PInv'
<1>1. TypeInv /\ TypeInv'
  BY TypeStep DEF PInv, Next
<1>2. /\ UNCHANGED <<packets, chunks, ndebug, box, status>>
      /\ i' = i + 1
      /\ stage = "unpack" /\ stage' = "unpack" /\ ~Packing /\ ~Packing'
      /\ packets[i].to # "us" \/ packets[i].size = 0
  BY DEF SkipPacket, Packing
<1>3. i \in Ours => packets[i].data = {}
  BY <1>2 DEF PInv, ClosedInv, Ours
<1>4. ASSUME NEW k \in Ours, NEW d \in packets[k].data
      PROVE  Ahead(k, d)' <=> Ahead(k, d)
  <2>1. k # i /\ k \in Nat /\ i \in Nat
    BY <1>1, <1>3, <1>4, OursType DEF TypeInv
  <2>. QED
    BY <1>2, <2>1 DEF Ahead
<1>. QED
  BY <1>1, <1>2, <1>4, PassStep

LEMMA OpenPacketStep ==
  ASSUME PInv, OpenPacket
  PROVE  PInv'
<1>1. TypeInv /\ TypeInv'
  BY TypeStep DEF PInv, Next
<1>2. /\ UNCHANGED <<packets, chunks, ndebug, box, status, i>>
      /\ stage = "unpack" /\ stage' = "read" /\ ~Packing /\ ~Packing'
      /\ packets[i].to = "us" /\ packets[i].size # 0 /\ i <= Len(packets)
      /\ offset' = PacketHeader
  BY DEF OpenPacket, Packing
<1>3. i \in Ours
  BY <1>1, <1>2 DEF Ours, TypeInv
<1>4. \A d \in packets[i].data : d.at >= PacketHeader
  BY <1>2, <1>3 DEF PInv, ClosedInv, Laid
<1>5. ASSUME NEW k \in Ours, NEW d \in packets[k].data
      PROVE  Ahead(k, d)' <=> Ahead(k, d)
  BY <1>2, <1>4, <1>5 DEF Ahead
<1>. QED
  BY <1>1, <1>2, <1>3, <1>5, PassStep

(* A packet that is refused leaves the later ones to be read. *)
LEMMA RefusePacketStep ==
  ASSUME PInv, RefusePacket
  PROVE  PInv'
<1>1. TypeInv /\ TypeInv' /\ InOrder /\ UnpackInv
  BY TypeStep DEF PInv, Next
<1>2. /\ UNCHANGED <<packets, chunks, ndebug, box>>
      /\ stage = "unpack" /\ stage' = "unpack" /\ ~Packing /\ ~Packing'
      /\ i' = i + 1
      /\ status' # "ok"
  BY DEF RefusePacket, Packing
<1>3. Ours' = Ours /\ Packed' = Packed
  BY <1>2, OursSame
<1>4. ASSUME NEW k \in Ours, NEW d, Ahead(k, d)'
      PROVE  Ahead(k, d)
  <2>1. k \in Nat /\ i \in Nat
    BY <1>1, OursType DEF TypeInv
  <2>. QED
    BY <1>2, <1>4, <2>1 DEF Ahead
<1>5. InOrder'
  BY <1>1, <1>2 DEF InOrder
<1>6. UnpackInv'
  BY <1>1, <1>2, <1>3, <1>4 DEF UnpackInv
<1>. QED
  BY <1>1, <1>2, <1>5, <1>6, UnpackFrame

LEMMA ReceiverAbortStep ==
  ASSUME PInv, ReceiverAbort
  PROVE  PInv'
<1>1. TypeInv /\ TypeInv'
  BY TypeStep DEF PInv, Next
<1>2. /\ UNCHANGED <<packets, chunks, ndebug, box, status, i>>
      /\ stage = "unpack" /\ stage' = "receiver_aborted"
      /\ ~Packing /\ ~Packing'
  BY DEF ReceiverAbort, Packing
<1>3. ASSUME NEW k \in Ours, NEW d \in packets[k].data
      PROVE  Ahead(k, d)' <=> Ahead(k, d)
  BY <1>2 DEF Ahead
<1>. QED
  BY <1>1, <1>2, <1>3, PassStep

LEMMA UnpackDoneStep ==
  ASSUME PInv, UnpackDone
  PROVE  PInv'
<1>1. TypeInv /\ TypeInv'
  BY TypeStep DEF PInv, Next
<1>2. /\ UNCHANGED <<packets, chunks, ndebug, box, status, i>>
      /\ stage = "unpack" /\ stage' = "done" /\ ~Packing /\ ~Packing'
      /\ i > Len(packets)
  BY DEF UnpackDone, Packing
<1>3. ASSUME NEW k \in Ours, NEW d \in packets[k].data
      PROVE  Ahead(k, d)' <=> Ahead(k, d)
  BY <1>2 DEF Ahead
<1>. QED
  BY <1>1, <1>2, <1>3, PassStep

(* What the receiver has left of a packet it is reading. *)
LEMMA ReadFacts ==
  ASSUME PInv, stage = "read"
  PROVE  /\ TypeInv
         /\ i \in Ours
         /\ ~Packing
         /\ Laid(packets[i].data, packets[i].size)
         /\ offset \in Nat /\ offset >= PacketHeader
         /\ \A k \in Ours : \A d \in packets[k].data :
              /\ d.at \in Nat
              /\ d.chunk \in 1..Len(chunks)
              /\ End(d) \in Nat
              /\ d.at < End(d)
         /\ \A d \in packets[i].data : End(d) <= packets[i].size
         /\ \A d, e \in packets[i].data : /\ d.chunk < e.chunk => End(d) <= e.at
                                          /\ d.chunk = e.chunk => d = e
<1>1. TypeInv /\ ~Packing /\ i \in Ours /\ packets[i].size # 0 /\ offset >= PacketHeader
  BY DEF PInv, UnpackInv, Packing
<1>2. Laid(packets[i].data, packets[i].size) /\ offset \in Nat
  BY <1>1 DEF PInv, ClosedInv, TypeInv
<1>3. ASSUME NEW k \in Ours, NEW d \in packets[k].data
      PROVE  /\ d.at \in Nat
             /\ d.chunk \in 1..Len(chunks)
             /\ End(d) \in Nat
             /\ d.at < End(d)
             /\ End(d) <= packets[k].size
  <2>1. packets[k].size # 0
    BY <1>1, <1>3 DEF PInv, ClosedInv
  <2>2. Laid(packets[k].data, packets[k].size)
    BY <1>3, <2>1 DEF PInv, ClosedInv
  <2>3. /\ packets[k].data \in SUBSET [at : Nat, chunk : Nat]
        /\ packets[k].size \in Nat
    BY <1>1, OursType
  <2>. QED
    BY <1>1, <2>2, <2>3, LaidType
<1>4. \A d, e \in packets[i].data : /\ d.chunk < e.chunk => End(d) <= e.at
                                    /\ d.chunk = e.chunk => d = e
  BY <1>2 DEF Laid
<1>. QED
  BY <1>1, <1>2, <1>3, <1>4

(* While nothing has failed, a chunk that is ahead in this packet means    *)
(* that the next chunk begins at the offset.                               *)
LEMMA NextChunk ==
  ASSUME PInv, stage = "read", status = "ok",
         NEW a \in packets[i].data, a.at >= offset
  PROVE  \E d \in Here : d.chunk = Len(box) + 1
<1>. USE SizesAssumption
<1>1. /\ TypeInv /\ ~Packing
      /\ i \in Ours
      /\ offset \in Nat /\ offset >= PacketHeader
      /\ \A k \in Ours : \A d \in packets[k].data :
           /\ d.at \in Nat
           /\ d.chunk \in 1..Len(chunks)
           /\ End(d) \in Nat
           /\ d.at < End(d)
      /\ \A d, e \in packets[i].data : /\ d.chunk < e.chunk => End(d) <= e.at
                                       /\ d.chunk = e.chunk => d = e
  BY ReadFacts
<1>2. ReadInv /\ Len(box) \in Nat /\ i \in Nat
  BY <1>1 DEF PInv, UnpackInv, TypeInv
<1>. DEFINE n == Len(box)
<1>3. ASSUME NEW k \in Ours, NEW d \in packets[k].data, Ahead(k, d)
      PROVE  d.chunk > n
  <2>1. CASE n = 0
    BY <1>1, <1>3, <2>1
  <2>2. CASE n > 0
    <3>1. n \in 1..n /\ box[n] = [chunk |-> n, bytes |-> chunks[n]]
      BY <1>2, <2>2 DEF ReadInv
    <3>2. box[n].chunk = n
      BY <3>1
    <3>3. box[n].chunk < d.chunk
      BY <1>1, <1>3, <3>1 DEF PInv, UnpackInv
    <3>. QED
      BY <1>1, <1>2, <1>3, <3>2, <3>3
  <2>. QED
    BY <1>2, <2>1, <2>2
<1>4. a.chunk > n /\ a.chunk \in 1..Len(chunks)
  BY <1>1, <1>3 DEF Ahead
<1>5. n + 1 \in Packed
  BY <1>2, <1>4 DEF ReadInv
<1>6. PICK k \in Ours : \E d \in packets[k].data : d.chunk = n + 1
  BY <1>5, PackedMember
<1>7. PICK d \in packets[k].data : d.chunk = n + 1
  BY <1>6
<1>8. Ahead(k, d)
  BY <1>1, <1>2, <1>6, <1>7 DEF ReadInv
<1>9. k = i
  <2>1. k \in Nat
    BY <1>1, OursType
  <2>2. ~(k > i)
    BY <1>1, <1>2, <1>4, <1>6, <1>7, <2>1 DEF PInv, PacketOrder
  <2>. QED
    BY <1>2, <1>8, <2>1, <2>2 DEF Ahead
<1>10. d.at >= offset /\ d \in packets[i].data
  BY <1>2, <1>6, <1>7, <1>8, <1>9 DEF Ahead
<1>11. \/ d.at = PacketHeader
       \/ \E e \in packets[i].data : e.chunk = n /\ End(e) = d.at
  <2>1. \/ d.at = PacketHeader
        \/ \E e \in packets[i].data : e.chunk = d.chunk - 1 /\ End(e) = d.at
    BY <1>10, ReadFacts DEF Laid
  <2>. QED
    BY <1>2, <1>6, <1>7, <2>1
<1>12. \/ offset = PacketHeader
       \/ \E e \in packets[i].data : e.chunk = n /\ End(e) = offset
  BY <1>2 DEF ReadInv
<1>13. d.at = offset
  <2>1. CASE d.at = PacketHeader
    BY <1>1, <1>10, <2>1
  <2>2. ASSUME NEW e \in packets[i].data, e.chunk = n, End(e) = d.at,
               offset = PacketHeader
        PROVE  d.at = offset
    <3>1. e.at >= PacketHeader /\ e.at \in Nat
      BY <1>1, ReadFacts DEF Laid
    <3>2. Ahead(i, e)
      BY <2>2, <3>1 DEF Ahead
    <3>. QED
      BY <1>1, <1>2, <1>3, <2>2, <3>2
  <2>3. ASSUME NEW e \in packets[i].data, e.chunk = n, End(e) = d.at,
               NEW f \in packets[i].data, f.chunk = n, End(f) = offset
        PROVE  d.at = offset
    BY <1>1, <2>3
  <2>. QED
    BY <1>11, <1>12, <2>1, <2>2, <2>3
<1>. QED
  BY <1>6, <1>7, <1>10, <1>13 DEF Here

(* Growing what has been unpacked by something that comes after all of it. *)
LEMMA AppendInOrder ==
  ASSUME TypeInv, InOrder, NEW r \in [chunk : Nat, bytes : Nat],
         box' = Append(box, r),
         r.chunk # NoChunk => \A n \in 1..Len(box) : box[n].chunk < r.chunk
  PROVE  /\ InOrder'
         /\ Len(box) \in Nat
         /\ Len(box') = Len(box) + 1
         /\ box'[Len(box) + 1] = r
         /\ \A n \in 1..Len(box) : box'[n] = box[n]
<1>1. box \in Seq([chunk : Nat, bytes : Nat]) /\ Len(box) \in Nat
  BY DEF TypeInv
<1>2. /\ Len(box') = Len(box) + 1
      /\ box'[Len(box) + 1] = r
      /\ \A n \in 1..Len(box) : box'[n] = box[n]
  BY <1>1
<1>3. ASSUME NEW m \in 1..Len(box'), NEW n \in 1..Len(box'),
             m < n, box'[n].chunk # NoChunk
      PROVE  box'[m].chunk < box'[n].chunk
  <2>1. m \in 1..Len(box) /\ box'[m] = box[m]
    BY <1>1, <1>2, <1>3
  <2>2. CASE n = Len(box) + 1
    BY <1>2, <1>3, <2>1, <2>2
  <2>3. CASE n # Len(box) + 1
    <3>1. n \in 1..Len(box) /\ box'[n] = box[n]
      BY <1>1, <1>2, <2>3
    <3>. QED
      BY <1>3, <2>1, <3>1 DEF InOrder
  <2>. QED
    BY <2>2, <2>3
<1>4. InOrder'
  BY <1>3 DEF InOrder
<1>. QED
  BY <1>1, <1>2, <1>4

(* A chunk is taken: those still ahead were ahead before, and come after   *)
(* it.                                                                     *)
LEMMA AheadAfter ==
  ASSUME PInv, stage = "read", NEW d \in Here,
         stage' = "read", i' = i, offset' = End(d),
         UNCHANGED <<packets, chunks>>,
         NEW k \in Ours, NEW e \in packets[k].data
  PROVE  /\ Ahead(k, e)' => Ahead(k, e) /\ d.chunk < e.chunk
         /\ Ahead(k, e) => Ahead(k, e)' \/ e.chunk <= d.chunk
<1>1. /\ TypeInv
      /\ i \in Ours
      /\ offset \in Nat
      /\ \A l \in Ours : \A a \in packets[l].data :
           /\ a.at \in Nat
           /\ a.chunk \in 1..Len(chunks)
           /\ End(a) \in Nat
           /\ a.at < End(a)
      /\ \A a, b \in packets[i].data : /\ a.chunk < b.chunk => End(a) <= b.at
                                       /\ a.chunk = b.chunk => a = b
  BY ReadFacts
<1>2. d \in packets[i].data /\ d.at = offset
  BY DEF Here
<1>3. k \in Nat /\ i \in Nat
  BY <1>1, OursType
<1>4. CASE k = i
  <2>1. e \in packets[i].data
    BY <1>4
  <2>2. /\ e.at \in Nat /\ e.chunk \in Nat /\ End(e) \in Nat /\ e.at < End(e)
        /\ d.at \in Nat /\ d.chunk \in Nat /\ End(d) \in Nat /\ d.at < End(d)
    BY <1>1, <1>2, <2>1
  <2>3. /\ d.chunk < e.chunk => End(d) <= e.at
        /\ e.chunk < d.chunk => End(e) <= d.at
        /\ d.chunk = e.chunk => d = e
    BY <1>1, <1>2, <2>1
  <2>4. Ahead(k, e) <=> e.at >= offset
    BY <1>3, <1>4 DEF Ahead
  <2>5. Ahead(k, e)' <=> e.at >= End(d)
    BY <1>3, <1>4 DEF Ahead
  <2>. QED
    BY <1>1, <1>2, <2>2, <2>3, <2>4, <2>5
<1>5. CASE k # i
  <2>1. Ahead(k, e) <=> k > i
    BY <1>5 DEF Ahead
  <2>2. Ahead(k, e)' <=> k > i
    BY <1>5 DEF Ahead
  <2>3. k > i => d.chunk < e.chunk
    BY <1>1, <1>2, <1>3 DEF PInv, PacketOrder
  <2>. QED
    BY <2>1, <2>2, <2>3
<1>. QED
  BY <1>4, <1>5

LEMMA ReadChunkStep ==
  ASSUME PInv, ReadChunk
  PROVE  PInv'
<1>1. TypeInv /\ TypeInv' /\ InOrder
  BY TypeStep DEF PInv, Next
<1>2. /\ UNCHANGED <<chunks, packets, ndebug, stage, i, status>>
      /\ stage = "read" /\ ~Packing /\ ~Packing'
  BY DEF ReadChunk, Packing
<1>3. PICK d \in Here : /\ box' = Append(box, Piece(d.chunk))
                        /\ offset' = offset + WrittenSize(d.chunk)
  BY DEF ReadChunk
<1>4. /\ i \in Ours
      /\ d \in packets[i].data
      /\ d.at = offset
      /\ d.chunk \in 1..Len(chunks)
      /\ WrittenSize(d.chunk) = chunks[d.chunk]
      /\ chunks[d.chunk] \in Nat
  BY <1>2, HereFacts
<1>5. offset' = End(d) /\ Ahead(i, d)
  BY <1>1, <1>3, <1>4 DEF End, Ahead, TypeInv
<1>6. /\ Ours' = Ours /\ Packed' = Packed
      /\ \A e : End(e)' = End(e)
  BY <1>2, OursSame
<1>7. UnpackInv /\ packets[i].size # 0
      /\ offset \in Nat /\ offset >= PacketHeader
      /\ \A n \in 1..Len(box) : box[n].chunk < d.chunk
  <2>1. UnpackInv
    BY DEF PInv
  <2>. QED
    BY <1>1, <1>2, <1>4, <1>5, <2>1 DEF UnpackInv, TypeInv
<1>8. PICK r \in [chunk : Nat, bytes : Nat] :
        /\ r = Piece(d.chunk) /\ r.chunk = d.chunk /\ r.bytes = chunks[d.chunk]
  <2>1. Piece(d.chunk) = [chunk |-> d.chunk, bytes |-> chunks[d.chunk]]
    BY <1>4 DEF Piece
  <2>2. d.chunk \in Nat /\ chunks[d.chunk] \in Nat
    BY <1>4
  <2>. QED
    BY <2>1, <2>2
<1>9. /\ InOrder'
      /\ Len(box) \in Nat
      /\ Len(box') = Len(box) + 1
      /\ box'[Len(box) + 1] = r
      /\ \A n \in 1..Len(box) : box'[n] = box[n]
  BY <1>1, <1>3, <1>7, <1>8, AppendInOrder
<1>10. ASSUME NEW k \in Ours, NEW e \in packets[k].data
       PROVE  /\ Ahead(k, e)' => Ahead(k, e) /\ d.chunk < e.chunk
              /\ Ahead(k, e) => Ahead(k, e)' \/ e.chunk <= d.chunk
  BY <1>2, <1>5, <1>10, AheadAfter
<1>11. ASSUME NEW k \in Ours, NEW e \in packets[k].data, Ahead(k, e)',
              NEW n \in 1..Len(box')
       PROVE  box'[n].chunk < e.chunk
  <2>1. CASE n = Len(box) + 1
    BY <1>8, <1>9, <1>10, <1>11, <2>1
  <2>2. CASE n # Len(box) + 1
    <3>1. n \in 1..Len(box) /\ box'[n] = box[n]
      BY <1>9, <2>2
    <3>. QED
      BY <1>2, <1>7, <1>10, <1>11, <3>1 DEF UnpackInv
  <2>. QED
    BY <2>1, <2>2
<1>12. ASSUME status = "ok"
       PROVE  ReadInv'
  <2>1. ReadInv
    BY <1>2, <1>7, <1>12 DEF UnpackInv
  <2>2. PICK f \in Here : f.chunk = Len(box) + 1
    BY <1>1, <1>2, <1>4, <1>7, <1>12, NextChunk
  <2>3. d.chunk = Len(box) + 1
    <3>1. f \in packets[i].data /\ f.at = offset
      BY DEF Here
    <3>2. /\ f.chunk \in Nat /\ d.chunk \in Nat
          /\ f.at \in Nat /\ End(f) \in Nat /\ f.at < End(f)
          /\ d.at \in Nat /\ End(d) \in Nat /\ d.at < End(d)
          /\ d.chunk < f.chunk => End(d) <= f.at
          /\ f.chunk < d.chunk => End(f) <= d.at
      BY <1>2, <1>4, <3>1, ReadFacts
    <3>. QED
      BY <1>4, <2>2, <3>1, <3>2
  <2>4. Len(box') <= Len(chunks')
    BY <1>1, <1>2, <1>4, <1>9, <2>3
  <2>5. ASSUME NEW n \in 1..Len(box')
        PROVE  box'[n] = [chunk |-> n, bytes |-> chunks'[n]]
    <3>1. CASE n = Len(box) + 1
      BY <1>2, <1>4, <1>8, <1>9, <2>3, <3>1 DEF Piece
    <3>2. CASE n # Len(box) + 1
      <4>1. n \in 1..Len(box) /\ box'[n] = box[n]
        BY <1>9, <3>2
      <4>. QED
        BY <1>2, <2>1, <4>1 DEF ReadInv
    <3>. QED
      BY <3>1, <3>2
  <2>6. ASSUME NEW k \in Ours, NEW e \in packets[k].data
        PROVE  Ahead(k, e)' \/ e.chunk <= Len(box')
    <3>1. Ahead(k, e) \/ e.chunk <= Len(box)
      BY <2>1, <2>6 DEF ReadInv
    <3>2. e.chunk \in Nat
      BY <1>2, <2>6, ReadFacts
    <3>. QED
      BY <1>9, <1>10, <2>3, <2>6, <3>1, <3>2
  <2>7. \E e \in packets'[i'].data : e.chunk = Len(box') /\ End(e)' = offset'
    BY <1>2, <1>4, <1>5, <1>6, <1>9, <2>3
  <2>. QED
    BY <1>2, <1>6, <2>1, <2>4, <2>5, <2>6, <2>7 DEF ReadInv
<1>13. offset' >= PacketHeader
  BY <1>3, <1>4, <1>7, SizesAssumption
<1>14. UnpackInv'
  BY <1>2, <1>4, <1>6, <1>7, <1>11, <1>12, <1>13 DEF UnpackInv
<1>. QED
  BY <1>1, <1>2, <1>9, <1>14, UnpackFrame

(* The receiver leaves a packet: what is ahead is in the later ones. *)
LEMMA AheadLater ==
  ASSUME TypeInv, stage = "read", stage' = "unpack", i' = i + 1,
         NEW k \in Ours, NEW e
  PROVE  /\ Ahead(k, e)' <=> k > i
         /\ Ahead(k, e)' => Ahead(k, e)
         /\ Ahead(k, e) => Ahead(k, e)' \/ (k = i /\ e.at >= offset)
<1>1. k \in Nat /\ i \in Nat
  BY OursType DEF TypeInv
<1>. QED
  BY <1>1 DEF Ahead

LEMMA ReadFailsStep ==
  ASSUME PInv, ReadFails
  PROVE  PInv'
<1>. DEFINE r == [chunk |-> NoChunk, bytes |-> 0]
<1>1. TypeInv /\ TypeInv' /\ InOrder /\ UnpackInv
  BY TypeStep DEF PInv, Next
<1>2. /\ UNCHANGED <<chunks, packets, ndebug>>
      /\ stage = "read" /\ stage' = "unpack" /\ ~Packing /\ ~Packing'
      /\ i' = i + 1
      /\ status' # "ok"
      /\ box' = box \/ box' = Append(box, r)
  BY DEF ReadFails, Packing
<1>3. Ours' = Ours /\ Packed' = Packed
  BY <1>2, OursSame
<1>4. r \in [chunk : Nat, bytes : Nat] /\ r.chunk = NoChunk
  BY DEF NoChunk
<1>. HIDE DEF r
<1>5. ASSUME NEW k \in Ours, NEW e \in packets[k].data, Ahead(k, e)',
             NEW n \in 1..Len(box)
      PROVE  box[n].chunk < e.chunk
  BY <1>1, <1>2, <1>5, AheadLater DEF UnpackInv
<1>6. /\ InOrder'
      /\ \A k \in Ours : \A e \in packets[k].data : \A n \in 1..Len(box') :
           Ahead(k, e)' => box'[n].chunk < e.chunk
  <2>1. CASE box' = box
    BY <1>1, <1>5, <2>1 DEF InOrder
  <2>2. CASE box' = Append(box, r)
    <3>1. /\ InOrder'
          /\ Len(box) \in Nat
          /\ Len(box') = Len(box) + 1
          /\ box'[Len(box) + 1] = r
          /\ \A n \in 1..Len(box) : box'[n] = box[n]
      BY <1>1, <1>4, <2>2, AppendInOrder
    <3>2. ASSUME NEW k \in Ours, NEW e \in packets[k].data, Ahead(k, e)',
                 NEW n \in 1..Len(box')
          PROVE  box'[n].chunk < e.chunk
      <4>1. CASE n = Len(box) + 1
        <5>1. e.chunk \in 1..Len(chunks)
          BY <1>2, <3>2, ReadFacts
        <5>2. box'[n].chunk = 0
          BY <1>4, <3>1, <4>1 DEF NoChunk
        <5>. QED
          BY <1>1, <5>1, <5>2 DEF TypeInv
      <4>2. CASE n # Len(box) + 1
        <5>1. n \in 1..Len(box) /\ box'[n] = box[n]
          BY <3>1, <4>2
        <5>. QED
          BY <1>5, <3>2, <5>1
      <4>. QED
        BY <4>1, <4>2
    <3>. QED
      BY <3>1, <3>2
  <2>. QED
    BY <1>2, <2>1, <2>2
<1>7. UnpackInv'
  BY <1>1, <1>2, <1>3, <1>6 DEF UnpackInv
<1>. QED
  BY <1>1, <1>2, <1>6, <1>7, UnpackFrame

(* While nothing has failed, a packet is left when all its chunks have     *)
(* been taken: one that is still ahead would be there to be read.          *)
LEMMA EndPacketStep ==
  ASSUME PInv, EndPacket
  PROVE  PInv'
<1>. USE SizesAssumption
<1>1. TypeInv /\ TypeInv' /\ InOrder /\ UnpackInv
  BY TypeStep DEF PInv, Next
<1>2. /\ UNCHANGED <<chunks, packets, ndebug, box>>
      /\ stage = "read" /\ stage' = "unpack" /\ ~Packing /\ ~Packing'
      /\ i' = i + 1
      /\ status' = IF More THEN "invalid_message_size" ELSE status
  BY DEF EndPacket, Packing
<1>3. /\ Ours' = Ours /\ Packed' = Packed
      /\ \A e : End(e)' = End(e)
  BY <1>2, OursSame
<1>4. InOrder'
  BY <1>1, <1>2 DEF InOrder
<1>5. \A k \in Ours : \A e \in packets[k].data : \A n \in 1..Len(box') :
        Ahead(k, e)' => box'[n].chunk < e.chunk
  BY <1>1, <1>2, AheadLater DEF UnpackInv
<1>6. ASSUME status' = "ok"
      PROVE  ReadInv'
  <2>1. ~More /\ status = "ok" /\ ReadInv
    BY <1>1, <1>2, <1>6 DEF UnpackInv
  <2>2. ASSUME NEW a \in packets[i].data, a.at >= offset
        PROVE  FALSE
    <3>1. PICK d \in Here : d.chunk = Len(box) + 1
      BY <1>2, <2>1, <2>2, NextChunk
    <3>2. /\ i \in Ours
          /\ d.at = offset
          /\ chunks[d.chunk] \in Nat
          /\ chunks[d.chunk] >= MessageHeader
          /\ d.at + chunks[d.chunk] <= packets[i].size
      BY <1>2, HereFacts DEF End
    <3>3. offset \in Nat /\ packets[i].size \in Nat
      BY <1>1, <3>2, OursType DEF TypeInv
    <3>4. offset + MessageHeader <= Cut(packets[i].size)
      <4>1. CASE packets[i].size <= PacketSize
        BY <3>2, <3>3, <4>1 DEF Cut
      <4>2. CASE packets[i].size > PacketSize
        <5>1. Bounded(packets[i].data, packets[i].size)
          <6>1. packets[i].size # 0
            BY <1>1, <1>2 DEF UnpackInv
          <6>. QED
            BY <3>2, <6>1 DEF PInv, ClosedInv
        <5>2. \A e \in packets[i].data : e = d
          <6>1. d \in packets[i].data
            BY DEF Here
          <6>. QED
            BY <3>3, <4>2, <5>1, <6>1 DEF Bounded
        <5>3. d.at = PacketHeader
          <6>1. \/ d.at = PacketHeader
                \/ \E e \in packets[i].data :
                     e.chunk = d.chunk - 1 /\ End(e) = d.at
            BY <1>2, ReadFacts DEF Laid, Here
          <6>2. d.chunk \in 1..Len(chunks)
            BY <1>2, HereFacts
          <6>. QED
            BY <5>2, <6>1, <6>2
        <5>. QED
          BY <3>2, <3>3, <4>2, <5>3 DEF Cut
      <4>. QED
        BY <3>3, <4>1, <4>2
    <3>. QED
      BY <2>1, <3>1, <3>4 DEF More
  <2>3. ASSUME NEW k \in Ours, NEW e \in packets[k].data
        PROVE  Ahead(k, e)' \/ e.chunk <= Len(box')
    <3>1. Ahead(k, e) \/ e.chunk <= Len(box)
      BY <2>1, <2>3 DEF ReadInv
    <3>. QED
      BY <1>1, <1>2, <2>2, <2>3, <3>1, AheadLater
  <2>. QED
    BY <1>2, <1>3, <2>1, <2>3 DEF ReadInv
<1>7. UnpackInv'
  BY <1>1, <1>2, <1>3, <1>5, <1>6 DEF UnpackInv
<1>. QED
  BY <1>1, <1>2, <1>4, <1>7, UnpackFrame

---------------------------------------------------------------------------
(* The invariant *)

LEMMA PInvInit ==
  ASSUME Init
  PROVE  PInv
<1>. USE SizesAssumption, CountsAssumption, FlagsAssumption
<1>1. PICK n \in 0..MaxChunks : chunks \in [1..n -> Sizes]
  BY DEF Init
<1>2. n \in Nat /\ chunks \in Seq(Sizes)
  BY <1>1
<1>3. /\ prior \in 0..MaxPrior /\ prior \in Nat
      /\ packets = [k \in 1..prior |-> Other]
      /\ stage = "cut" /\ i = 1 /\ offset = PacketSize /\ status = "ok"
      /\ box = <<>> /\ ndebug \in BOOLEAN
  BY DEF Init
<1>4. Other \in Packet /\ Other.to = "other"
  BY DEF Other, Packet, NoChunk
<1>5. /\ packets \in Seq(Packet) /\ Len(packets) = prior
      /\ \A k \in 1..prior : packets[k].to = "other"
  BY <1>3, <1>4
<1>6. TypeInv
  BY <1>2, <1>3, <1>5 DEF TypeInv
<1>7. Ours = {} /\ Packed = {}
  <2>1. Ours = {}
    BY <1>5 DEF Ours
  <2>. QED
    BY <2>1 DEF Packed
<1>8. ClosedInv /\ PacketOrder /\ InOrder
  BY <1>3, <1>7 DEF ClosedInv, PacketOrder, InOrder
<1>9. Packing /\ ~Opened
  BY <1>3, <1>5 DEF Packing, Opened
<1>10. PackInv
  <2>1. i - 1 = 0 /\ 1..(i - 1) = {} /\ i - 1 <= Len(chunks)
    BY <1>2, <1>3
  <2>2. \A k \in 1..Len(packets) : packets[k].to = "us" <=> k > prior
    BY <1>3, <1>5
  <2>. QED
    BY <1>3, <1>5, <1>7, <1>9, <2>1, <2>2 DEF PackInv
<1>. QED
  BY <1>6, <1>8, <1>9, <1>10 DEF PInv, UnpackInv

LEMMA PInvStays ==
  ASSUME PInv, UNCHANGED vars
  PROVE  PInv'
<1>1. UNCHANGED <<ndebug, chunks, prior, packets, stage, i, offset, status, box>>
  BY DEF vars
<1>2. /\ Ours' = Ours /\ Packed' = Packed
      /\ \A e : End(e)' = End(e)
      /\ \A data, end : /\ Laid(data, end)' <=> Laid(data, end)
                        /\ Bounded(data, end)' <=> Bounded(data, end)
      /\ \A k, d : Ahead(k, d)' <=> Ahead(k, d)
      /\ (Packing' <=> Packing) /\ (Opened' <=> Opened)
  BY <1>1, OursSame, LaidSame DEF Ahead, Packing, Opened
<1>3. TypeInv'
  BY TypeStep
<1>4. ClosedInv' /\ PacketOrder' /\ InOrder'
  BY <1>1, <1>2 DEF PInv, ClosedInv, PacketOrder, InOrder
<1>5. OpenInv => OpenInv'
  BY <1>1, <1>2 DEF OpenInv, SizeCorrect, WrittenSize
<1>6. PackInv'
  BY <1>1, <1>2, <1>5 DEF PInv, PackInv
<1>7. ReadInv => ReadInv'
  BY <1>1, <1>2 DEF ReadInv
<1>8. UnpackInv'
  BY <1>1, <1>2, <1>7 DEF PInv, UnpackInv
<1>. QED
  BY <1>3, <1>4, <1>6, <1>8 DEF PInv

LEMMA PInvStep ==
  ASSUME PInv, [Next]_vars
  PROVE  PInv'
BY KeepPacketStep, NewPacketStep, AddChunkStep, EndsWithHeader, WrongSizeStep,
   EndsWithoutChunks, AbortStep, SkipPacketStep, OpenPacketStep, RefusePacketStep,
   ReceiverAbortStep, ReadChunkStep, ReadFailsStep, EndPacketStep, UnpackDoneStep, PInvStays DEF Next

(* The invariant of packing and unpacking: how chunks lie in every packet, *)
(* in which order, and how far peer_unpack has come in them.               *)
THEOREM PacketsInvariance == Spec => []PInv
<1>1. Init => PInv
  BY PInvInit
<1>2. PInv /\ [Next]_vars => PInv'
  BY PInvStep
<1>. QED
  BY <1>1, <1>2, PTL DEF Spec

(* What PacketsFit says of peer_pack: at every step the sizes written into *)
(* the headers cover the chunks, which lie without a gap, and only a chunk *)
(* larger than a packet, in a build without assertions, makes one too      *)
(* large.                                                                  *)
THEOREM PacketsFitHolds == Spec => []PacketsFit
<1>1. PInv => PacketsFit
  <2>. SUFFICES ASSUME PInv, NEW k \in Ours, packets[k].size # 0
                PROVE  /\ Bounded(packets[k].data, packets[k].size)
                       /\ \A d \in packets[k].data :
                            /\ d.at + chunks[d.chunk] <= packets[k].size
                            /\ \/ d.at = PacketHeader
                               \/ \E e \in packets[k].data :
                                    e.at + chunks[e.chunk] = d.at
    BY DEF PacketsFit
  <2>1. /\ Bounded(packets[k].data, packets[k].size)
        /\ Laid(packets[k].data, packets[k].size)
    BY DEF PInv, ClosedInv
  <2>. QED
    BY <2>1 DEF Laid, End
<1>. QED
  BY <1>1, PacketsInvariance, PTL

(* What InOrder says of peer_unpack: a chunk comes out after all that are  *)
(* before it, and once, whichever allocations fail.                        *)
THEOREM InOrderHolds == Spec => []InOrder
<1>1. PInv => InOrder
  BY DEF PInv
<1>. QED
  BY <1>1, PacketsInvariance, PTL

(* A set whose members are numbered from 1 to m, each once, has m members. *)
LEMMA Numbered ==
  ASSUME NEW D, NEW m \in Nat,
         {d.chunk : d \in D} = 1..m,
         \A d, e \in D : d.chunk = e.chunk => d = e
  PROVE  Cardinality(D) = m
<1>. DEFINE f == [c \in 1..m |-> CHOOSE d \in D : d.chunk = c]
<1>1. \A c \in 1..m : f[c] \in D /\ f[c].chunk = c
  OBVIOUS
<1>2. f \in [1..m -> D]
  BY <1>1
<1>. HIDE DEF f
<1>3. \A b, c \in 1..m : f[b] = f[c] => b = c
  BY <1>1
<1>4. \A d \in D : \E c \in 1..m : f[c] = d
  <2>1. ASSUME NEW d \in D PROVE d.chunk \in 1..m /\ f[d.chunk] = d
    <3>1. d.chunk \in 1..m
      OBVIOUS
    <3>. QED
      BY <1>1, <3>1
  <2>. QED
    BY <2>1
<1>5. f \in Bijection(1..m, D)
  BY <1>2, <1>3, <1>4 DEF Bijection, Injection, Surjection, IsInjective
<1>6. ExistsBijection(1..m, D)
  BY <1>5 DEF ExistsBijection
<1>. QED
  BY <1>6, FS_CountingElements

(* What PackedPrefix says of peer_pack: whichever way it returns, the      *)
(* packets to be sent hold the chunks from the first to some last one.     *)
THEOREM PackedPrefixHolds == Spec => []PackedPrefix
<1>1. PInv => PackedPrefix
  <2>. DEFINE sent == {k \in Ours : packets[k].size # 0}
              whole == UNION {packets[k].data : k \in sent}
  <2>. SUFFICES ASSUME PInv, stage \in {"unpack", "read", "done"}
                PROVE  {d.chunk : d \in whole} = 1..Cardinality(whole)
    BY DEF PackedPrefix
  <2>1. TypeInv /\ ~Packing
    BY DEF PInv, Packing
  <2>2. PICK m \in 0..Len(chunks) : Packed = 1..m
    BY <2>1 DEF PInv, UnpackInv
  <2>3. \A k \in Ours : packets[k].size = 0 => packets[k].data = {}
    BY <2>1 DEF PInv, ClosedInv
  <2>4. {d.chunk : d \in whole} = 1..m
    <3>1. \A c : c \in Packed <=> \E k \in Ours : \E d \in packets[k].data : d.chunk = c
      BY PackedMember
    <3>. QED
      BY <2>2, <2>3, <3>1
  <2>5. ASSUME NEW d \in whole, NEW e \in whole, d.chunk = e.chunk
        PROVE  d = e
    <3>1. PICK k \in sent : d \in packets[k].data
      OBVIOUS
    <3>2. PICK l \in sent : e \in packets[l].data
      OBVIOUS
    <3>3. k \in Nat /\ l \in Nat /\ d.chunk \in Nat
      <4>1. k \in Nat /\ l \in Nat
        BY <2>1, <3>1, <3>2, OursType
      <4>2. d.chunk \in 1..m
        BY <2>4
      <4>. QED
        BY <4>1, <4>2
    <3>4. k = l
      BY <2>5, <3>1, <3>2, <3>3 DEF PInv, PacketOrder
    <3>. QED
      BY <2>5, <3>1, <3>2, <3>4 DEF PInv, ClosedInv, Laid
  <2>6. m \in Nat
    BY <2>1, <2>2 DEF TypeInv
  <2>7. Cardinality(whole) = m
    <3>. HIDE DEF whole
    <3>. QED
      BY <2>4, <2>5, <2>6, Numbered
  <2>. QED
    BY <2>4, <2>7
<1>. QED
  BY <1>1, PacketsInvariance, PTL

(* What RoundTrip says of the two together: with no error, peer_unpack     *)
(* gives what peer_pack was given, byte for byte.                          *)
THEOREM RoundTripHolds == Spec => []RoundTrip
<1>1. PInv => RoundTrip
  <2>. SUFFICES ASSUME PInv, stage = "done", status = "ok"
                PROVE  box = [k \in 1..Len(chunks) |->
                                [chunk |-> k, bytes |-> chunks[k]]]
    BY DEF RoundTrip
  <2>1. TypeInv /\ ~Packing /\ i > Len(packets) /\ ReadInv
    BY DEF PInv, UnpackInv, Packing
  <2>2. \A k \in Ours : \A d \in packets[k].data : d.chunk <= Len(box)
    <3>1. ASSUME NEW k \in Ours, NEW d \in packets[k].data
          PROVE  d.chunk <= Len(box)
      <4>1. k \in 1..Len(packets) /\ i \in Nat
        BY <2>1, OursType DEF TypeInv
      <4>2. ~Ahead(k, d)
        BY <2>1, <4>1 DEF Ahead, TypeInv
      <4>. QED
        BY <2>1, <3>1, <4>2 DEF ReadInv
    <3>. QED
      BY <3>1
  <2>3. Len(box) \in Nat /\ Len(chunks) \in Nat
    BY <2>1 DEF TypeInv
  <2>4. Len(box) = Len(chunks)
    <3>1. Len(box) <= Len(chunks)
      BY <2>1 DEF ReadInv
    <3>2. CASE Len(chunks) > 0
      <4>1. Len(chunks) \in Packed
        BY <2>1, <2>3, <3>2 DEF ReadInv
      <4>2. Len(chunks) <= Len(box)
        BY <2>2, <4>1, PackedMember
      <4>. QED
        BY <2>3, <3>1, <4>2
    <3>. QED
      BY <2>3, <3>1, <3>2
  <2>5. \A k \in 1..Len(chunks) : box[k] = [chunk |-> k, bytes |-> chunks[k]]
    BY <2>1, <2>4 DEF ReadInv
  <2>6. box = [k \in 1..Len(box) |-> box[k]]
    BY <2>1 DEF TypeInv
  <2>. QED
    BY <2>4, <2>5, <2>6
<1>. QED
  BY <1>1, PacketsInvariance, PTL

===========================================================================
