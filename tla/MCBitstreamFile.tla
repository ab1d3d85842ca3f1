-------------------------- MODULE MCBitstreamFile --------------------------
(* Small packages for BitstreamFile: counts below 3 and below 4 for the    *)
(* two types of packets, and data that looks like headers and sync words.  *)
EXTENDS BitstreamFile

MCTypeOneLimit == 3
MCTypeTwoLimit == 4

(* One byte before the length, so that words are not at multiples of 4.    *)
MCBitHeader == <<<<Word(0, "read", "bit", 0), 1>>>>

Dummy == Word(7, "nop", "dummy", 0)
MCHeader == <<Dummy, Sync>>

WriteTwo == Word(1, "write", "FDRI", 2)

TypeOne ==
  {Packet(1, "nop", "CRC", <<>>), Packet(1, "write", "FDRI", <<>>),
   Packet(1, "write", "CMD", <<WriteTwo>>),
   Packet(1, "write", "FDRI", <<Sync, WriteTwo>>)}
TypeTwo ==
  {Packet(2, "write", "FDRI", <<>>),
   Packet(2, "write", "FDRI", <<WriteTwo, Number(0), Sync>>)}
Padding == {Packet(0, "nop", "CRC", <<>>)}

(* A count that does not fit, and a type that is not known.                *)
Malformed ==
  {Packet(1, "write", "CMD", <<Number(1), WriteTwo, Number(1)>>),
   Packet(3, "write", "FDRI", <<>>)}

MCPackages ==
  LET all == TypeOne \cup TypeTwo \cup Padding \cup Malformed
  IN {<<>>} \cup {<<p, q>> : p, q \in all}
       \cup {<<p, q, r>> : p \in TypeOne, q \in TypeTwo \cup Padding,
                          r \in TypeOne \cup TypeTwo}
=============================================================================
