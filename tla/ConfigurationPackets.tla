------------------------ MODULE ConfigurationPackets ------------------------
(***************************************************************************)
(* Configuration packets, and the words and bytes they are in a bitstream: *)
(* PacketHeader (bitstream-writer.cc) makes the header of a packet, and    *)
(* InitWithWords (arch-xc7-configuration-packet.cc) parses a packet.       *)
(*                                                                         *)
(* Any word can be taken for a header, so a word is a record of the fields *)
(* of a header, whatever it is meant for.  A byte is a word and the place  *)
(* the byte has in it, from the most significant one on.                   *)
(***************************************************************************)
EXTENDS Integers, Sequences, SequencesExt

CONSTANTS
  TypeOneLimit,   (* counts of type 1 headers are below this: 2^11          *)
  TypeTwoLimit    (* counts of type 2 headers are below this: 2^27          *)

ASSUME CountAssumption ==
  /\ TypeOneLimit \in Nat \ {0}
  /\ TypeTwoLimit \in Nat \ {0}

Word(type, opcode, register, count) ==
  [type |-> type, opcode |-> opcode, register |-> register, count |-> count]

AnyWord == [type : Nat, opcode : STRING, register : STRING, count : Nat]

(* A number is a word of type 0, as it has no bits that high.              *)
Number(n) == Word(0, "nop", "CRC", n)

(* 0xaa995566, whose first bits are those of a header of unknown type.     *)
Sync == Word(5, "write", "sync", 0)

Packet(type, opcode, register, data) ==
  [type |-> type, opcode |-> opcode, address |-> register, data |-> data]

(* bit_field_set drops the bits of a count that do not fit.                *)
PacketHeader(packet) ==
  CASE packet.type = 1 ->
         Word(1, packet.opcode, packet.address, Len(packet.data) % TypeOneLimit)
    [] packet.type = 2 ->
         Word(2, packet.opcode, "none", Len(packet.data) % TypeTwoLimit)
    [] OTHER -> Word(packet.type, "nop", "CRC", 0)

AnyPacket ==
  [type : Nat, opcode : STRING, address : STRING, data : Seq(AnyWord)]

-----------------------------------------------------------------------------
(* InitWithWords: the words that are left, and the packet if there is one. *)
(* Nothing is consumed when the words of a packet are not all there.       *)

Result(left, packet) == [left |-> left, packet |-> packet]

Rest(words, count) == SubSeq(words, count + 2, Len(words))
Data(words, count) == SubSeq(words, 2, count + 1)

(* Bug: the header is counted as a word of data.                           *)
IncompleteWithHeader(words) ==
  /\ Head(words).type \in {1, 2}
  /\ Head(words).count >= Len(words) - 1

Incomplete(words) ==
  /\ Head(words).type \in {1, 2}
  /\ Head(words).count > Len(words) - 1

(* A type 2 packet has the register of the packet before it; without one   *)
(* its words are consumed all the same.                                    *)
Registers(header, previous) ==
  IF header.type = 1 THEN {header.register} ELSE {p.address : p \in previous}

(* A word of zeroes is a packet of type 0, a header of another type is the *)
(* end.                                                                    *)
InitWithWords(words, previous) ==
  LET header == Head(words) IN
  IF words = <<>> \/ Incomplete(words) THEN Result(words, {})
  ELSE IF header.type = 0
  THEN Result(Tail(words), {Packet(0, "nop", "CRC", <<>>)})
  ELSE IF header.type \in {1, 2}
  THEN Result(Rest(words, header.count),
              {Packet(header.type, header.opcode, register,
                      Data(words, header.count))
                 : register \in Registers(header, previous)})
  ELSE Result(<<>>, {})

-----------------------------------------------------------------------------
(* Bytes.                                                                  *)

WordBytes == 4

BytesOf(word) == [k \in 1 .. WordBytes |-> <<word, k>>]

Bytes(words) == FlattenSeq([i \in DOMAIN words |-> BytesOf(words[i])])

(* The words of a span of bytes, as many as are whole.  The bytes of one   *)
(* come from one word only if the span starts between words.               *)
BigEndianWords(bytes) ==
  [i \in 1 .. Len(bytes) \div WordBytes |->
     LET b == SubSeq(bytes, WordBytes * (i - 1) + 1, WordBytes * i)
     IN IF b = BytesOf(b[1][1]) THEN b[1][1] ELSE Word(7, "mixed", "mixed", 0)]

(* The places where the bytes of the sync word begin.                      *)
SyncPositions(bytes) ==
  {i \in 1 .. Len(bytes) - WordBytes + 1 :
     SubSeq(bytes, i, i + WordBytes - 1) = BytesOf(Sync)}

-----------------------------------------------------------------------------
(* The words that a package is meant to be.                                *)
WordsOf(packets) ==
  FlattenSeq([i \in DOMAIN packets |->
                <<PacketHeader(packets[i])>> \o packets[i].data])

(* Packet i can be told from its words and the packet before it.           *)
Sound(packets, i) ==
  \/ packets[i] = Packet(0, "nop", "CRC", <<>>)
  \/ packets[i].type = 1 /\ Len(packets[i].data) < TypeOneLimit
  \/ /\ packets[i].type = 2 /\ Len(packets[i].data) < TypeTwoLimit
     /\ i > 1 /\ packets[i].address = packets[i - 1].address

SoundPrefix(packets) ==
  LET unsound == SelectInSeq([i \in DOMAIN packets |-> Sound(packets, i)],
                             LAMBDA sound : ~ sound)
  IN IF unsound = 0 THEN packets ELSE SubSeq(packets, 1, unsound - 1)
=============================================================================
