------------------------------- MODULE Serial -------------------------------
(***************************************************************************)
(* The header of a message in bytes (serial.h): what peer_write_message    *)
(* leaves in a buffer and what the peer_read_message functions make of it. *)
(*                                                                         *)
(* Bytes are digits to the base Base, 256 in the program.  Integers keep   *)
(* their number of bytes: 8 for the index and the time, 4 for the actor,   *)
(* one and a quarter for the size, which shares its second byte with the   *)
(* mode.  The buffer is not cleared before it is written.                  *)
(***************************************************************************)
EXTENDS Integers

CONSTANTS
  Base,      \* 2^8: how many values a byte has, a multiple of 4
  Modes,     \* message modes
  Indexes,   \* indexes of messages, PEER_UNDEFINED among them
  Times,     \* times
  Actors,    \* actor ids, PEER_UNDEFINED among them
  DataSizes, \* sizes of data
  Leftovers  \* what the bytes of a buffer may hold before

ASSUME BaseAssumption == Base \in Nat \ {0} /\ Base % 4 = 0
ASSUME FieldsAssumption ==
  /\ Modes \subseteq 0..(Base \div 4 - 1)
  /\ Leftovers \subseteq 0..(Base - 1)

VARIABLES
  buffer,   \* the bytes of the header
  written   \* the message written last, if any, as a set

vars == <<buffer, written>>

Undefined == -1

(* PEER_N_MESSAGE_...: where the fields begin, and the size of the header. *)
Checksum    == 0
SizeByte    == 8
SizeAndMode == 9
Index       == 10
Time        == 18
Actor       == 26
HeaderSize  == 30

---------------------------------------------------------------------------
(* What a byte k places up weighs: 2^(8 * k) in the program. *)
Weight[k \in 0..8] == IF k = 0 THEN 1 ELSE Base * Weight[k - 1]

(* peer_write_u64, peer_write_u32: the lowest byte first *)
Byte(x, k) == (x \div Weight[k]) % Base

WriteUnsigned(buf, at, n, x) ==
  [b \in DOMAIN buf |->
     IF b \in at..(at + n - 1) THEN Byte(x, b - at) ELSE buf[b]]

(* peer_read_u64, peer_read_u32 *)
ReadUnsigned(buf, at, n) ==
  LET sum[k \in 0..n] ==
        IF k = 0 THEN 0 ELSE sum[k - 1] + buf[at + k - 1] * Weight[k - 1]
  IN  sum[n]

(* Conversions of a signed integer to n bytes, and of 8 bytes back. *)
Unsigned(x, n) == x % Weight[n]

Signed(x, n) == IF x >= Weight[n] \div 2 THEN x - Weight[n] ELSE x

(* What the types and the assertions of peer_write_message allow: signed   *)
(* integers of 8 bytes, sizes of ten bits, actor ids of 4 bytes.  The      *)
(* largest of these is PEER_UNDEFINED when it is read; no slot has it.     *)
ASSUME RangesAssumption ==
  /\ Indexes \cup Times \subseteq -(Weight[8] \div 2)..(Weight[8] \div 2 - 1)
  /\ Actors \subseteq -1..(Weight[4] - 2)
  /\ DataSizes \subseteq 0..(4 * Base - 1 - HeaderSize)

(* peer_write_message_size: the high bits of the size go to the two low    *)
(* bits of the byte it shares with the mode, whose other bits stay.        *)
WriteSize(buf, size) ==
  [buf EXCEPT ![SizeByte] = size % Base,
              ![SizeAndMode] = 4 * (@ \div 4) + ((size \div Base) % 4)]

(* A mutant: the bits of the size are not kept. *)
WriteModeAlone(buf, mode) == [buf EXCEPT ![SizeAndMode] = mode * 4]

(* peer_write_message_mode *)
WriteMode(buf, mode) == [buf EXCEPT ![SizeAndMode] = (@ % 4) + mode * 4]

(* peer_write_message, without the data; the checksum is 0 *)
WriteMessage(buf, m) ==
  LET summed == WriteUnsigned(buf, Checksum, 8, 0)
      sized  == WriteSize(summed, HeaderSize + m.size)
      moded  == WriteMode(sized, m.mode)
      placed == WriteUnsigned(moded, Index, 8, Unsigned(m.index, 8))
      timed  == WriteUnsigned(placed, Time, 8, Unsigned(m.time, 8))
  IN  WriteUnsigned(timed, Actor, 4,
                    IF m.actor = Undefined THEN Unsigned(-1, 4)
                                           ELSE Unsigned(m.actor, 4))

(* peer_read_message_size and _data_size *)
ReadSize(buf) == buf[SizeByte] + (buf[SizeAndMode] % 4) * Base

ReadDataSize(buf) == ReadSize(buf) - HeaderSize

(* peer_read_message_mode, _index, _time and _actor *)
ReadMode(buf) == buf[SizeAndMode] \div 4

ReadIndex(buf) == Signed(ReadUnsigned(buf, Index, 8), 8)

ReadTime(buf) == Signed(ReadUnsigned(buf, Time, 8), 8)

ReadActor(buf) ==
  LET a == ReadUnsigned(buf, Actor, 4)
  IN  IF a = Unsigned(-1, 4) THEN Undefined ELSE a

---------------------------------------------------------------------------
Message == [mode : Modes, index : Indexes, time : Times, actor : Actors,
            size : DataSizes]

Init ==
  /\ buffer \in {[b \in 0..(HeaderSize - 1) |-> x] : x \in Leftovers}
  /\ written = {}

(* A buffer that may have held anything, another message too, is written. *)
Write(m) ==
  /\ buffer' = WriteMessage(buffer, m)
  /\ written' = {m}

Next == \E m \in Message : Write(m)

Spec == Init /\ [][Next]_vars

---------------------------------------------------------------------------
(* Every field reads back as it was written, whatever the buffer held and  *)
(* though two of them share a byte; undefined indexes and actor ids too.   *)
ReadsBack ==
  \A m \in written :
    m = [mode  |-> ReadMode(buffer),  index |-> ReadIndex(buffer),
         time  |-> ReadTime(buffer),  actor |-> ReadActor(buffer),
         size  |-> ReadDataSize(buffer)]

===========================================================================
