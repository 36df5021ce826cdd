----------------------------- MODULE MCPackets -----------------------------
(* The sizes of options.h for TLC. *)
EXTENDS Packets

(* The smallest message, one byte more, two that fill a packet, the        *)
(* largest one, the smallest that no packet has room for, and one whose    *)
(* size does not fit in ten bits.                                          *)
MCSizes == {30, 31, 185, 200, 385, 386, 1054}

(* Messages up to PEER_MAX_MESSAGE_SIZE. *)
MCLegalSizes == {30, 185, 200, 385}

===========================================================================
