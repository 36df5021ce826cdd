------------------------------ MODULE MCSerial ------------------------------
(* Serial for TLC, whose integers have 32 bits: bytes of 12 values, so that *)
(* eight of them hold less than 2^31.  The values are the ends of the      *)
(* ranges and the places where a byte overflows into the next.             *)
EXTENDS Serial

MCIndexes   == {-1, 0, 12, 12^8 \div 2 - 1}
MCTimes     == {0, 143, 12^8 \div 2 - 1}
MCActors    == {-1, 0, 12, 12^4 - 2}
MCDataSizes == {0, 5, 6, 17}

===========================================================================
