--------------------------- MODULE BitstreamWriter ---------------------------
(***************************************************************************)
(* BitstreamWriter::writeBitstream (src/fpga/xilinx/bitstream-writer.h):   *)
(* the header of a .bit file, the words that begin a bitstream, the words  *)
(* of each packet by an iterator over packets and one over their words,    *)
(* and then the length of the data, put into the header.                   *)
(*                                                                         *)
(* The stream is a file, or a pipe, where one cannot seek; and it may fail *)
(* within any word (a full disk), after which it takes nothing more.       *)
(***************************************************************************)
EXTENDS ConfigurationPackets

CONSTANTS
  BitHeader,      (* bytes of the header before the length                  *)
  Header          (* header_: the words that begin a bitstream              *)

VARIABLES
  package,        (* the packets to write                                   *)
  sink,           (* "file" or "pipe"                                       *)
  written,        (* the bytes that got into it                             *)
  broken,         (* whether it has failed                                  *)
  writing,        (* what is written: "header", "words", "length", "done"   *)
  itr_header,     (* place in Header                                        *)
  itr_packets,    (* place in the package                                   *)
  packet_itr      (* op_itr_packet_: the packet's iterator, if there is one *)

iterators == <<itr_header, itr_packets, packet_itr>>
writerVars == <<package, sink, written, broken, writing, iterators>>

-----------------------------------------------------------------------------
(* The iterators.                                                          *)

PacketBegin(i) == [state |-> "header", data |-> 1]
PacketEnd(i) == [state |-> "end", data |-> Len(package[i].data) + 1]

NextInPacket(i, itr) ==
  LET data == IF itr.state = "header" THEN 1 ELSE itr.data + 1
  IN [state |-> IF data = Len(package[i].data) + 1 THEN "end" ELSE "data",
      data |-> data]

Deref(i, itr) ==
  CASE itr.state = "header" -> PacketHeader(package[i])
    [] itr.state = "data" -> package[i].data[itr.data]

(* The iterator of the packet at i, or none at the end of the package.     *)
PacketItrAt(i) == {PacketBegin(j) : j \in {i} \cap DOMAIN package}

HeaderEnd == Len(Header) + 1
PacketsEnd == Len(package) + 1

AtEnd == itr_header = HeaderEnd /\ itr_packets = PacketsEnd /\ packet_itr = {}

-----------------------------------------------------------------------------
(* What a stream does with bytes.  One that fails takes some of them.      *)
Put(bytes) ==
  \/ broken /\ UNCHANGED <<written, broken>>
  \/ /\ ~ broken
     /\ written' = written \o bytes
     /\ UNCHANGED broken
  \/ /\ ~ broken
     /\ \E n \in 0 .. Len(bytes) - 1 : written' = written \o SubSeq(bytes, 1, n)
     /\ broken' = TRUE

EndOfHeader == Len(BitHeader) + WordBytes

WriterInit ==
  /\ written = <<>>
  /\ broken = FALSE
  /\ writing = "header"
  /\ itr_header = 1
  /\ itr_packets = 1
  /\ packet_itr = PacketItrAt(1)

(* create_header, with a length of zero.                                   *)
WriteBitHeader ==
  /\ writing = "header"
  /\ Put(BitHeader \o BytesOf(Number(0)))
  /\ writing' = "words"
  /\ UNCHANGED <<package, sink, iterators>>

WriteHeaderWord ==
  /\ writing = "words"
  /\ itr_header # HeaderEnd
  /\ Put(BytesOf(Header[itr_header]))
  /\ itr_header' = itr_header + 1
  /\ itr_packets' = IF itr_header' = HeaderEnd THEN 1 ELSE itr_packets
  /\ packet_itr' = IF itr_header' = HeaderEnd THEN PacketItrAt(1) ELSE packet_itr
  /\ UNCHANGED <<package, sink, writing>>

(* Bug: the iterator of the last packet stays.                             *)
WritePacketWordKeepItr ==
  /\ writing = "words"
  /\ itr_header = HeaderEnd
  /\ \E itr \in packet_itr :
       /\ Put(BytesOf(Deref(itr_packets, itr)))
       /\ LET next == NextInPacket(itr_packets, itr) IN
            IF next = PacketEnd(itr_packets)
            THEN /\ itr_packets' = itr_packets + 1
                 /\ packet_itr' = {PacketBegin(itr_packets + 1)}
            ELSE packet_itr' = {next} /\ UNCHANGED itr_packets
  /\ UNCHANGED <<package, sink, writing, itr_header>>

WritePacketWord ==
  /\ writing = "words"
  /\ itr_header = HeaderEnd
  /\ \E itr \in packet_itr :
       /\ Put(BytesOf(Deref(itr_packets, itr)))
       /\ LET next == NextInPacket(itr_packets, itr) IN
            IF next = PacketEnd(itr_packets)
            THEN /\ itr_packets' = itr_packets + 1
                 /\ packet_itr' = PacketItrAt(itr_packets + 1)
            ELSE packet_itr' = {next} /\ UNCHANGED itr_packets
  /\ UNCHANGED <<package, sink, writing, itr_header>>

EndOfWords ==
  /\ writing = "words"
  /\ AtEnd
  /\ writing' = "length"
  /\ UNCHANGED <<package, sink, written, broken, iterators>>

(* Bug: the length includes the header.                                    *)
LengthOfFile == Number(Len(written))

LengthOfData == Number(Len(written) - EndOfHeader)

(* tellp and seekp fail on a pipe and on a stream that has failed, and     *)
(* then nothing is put.  The function returns 0 in every case.             *)
WriteLength ==
  /\ writing = "length"
  /\ written' = IF broken \/ sink = "pipe" THEN written
                ELSE SubSeq(written, 1, EndOfHeader - WordBytes)
                       \o BytesOf(LengthOfData)
                       \o SubSeq(written, EndOfHeader + 1, Len(written))
  /\ writing' = "done"
  /\ UNCHANGED <<package, sink, broken, iterators>>

WriterNext ==
  \/ WriteBitHeader \/ WriteHeaderWord \/ WritePacketWord
  \/ EndOfWords \/ WriteLength

-----------------------------------------------------------------------------
WriterTypeOK ==
  /\ sink \in {"file", "pipe"}
  /\ broken \in BOOLEAN
  /\ writing \in {"header", "words", "length", "done"}
  /\ itr_header \in 1 .. HeaderEnd
  /\ itr_packets \in 1 .. PacketsEnd
  /\ packet_itr = {} <=> itr_packets = PacketsEnd
  /\ \A itr \in packet_itr :
       /\ itr.state \in {"header", "data"}
       /\ itr.data \in 1 .. Len(package[itr_packets].data) + 1
       /\ itr.state = "data" => itr.data \in DOMAIN package[itr_packets].data

(* The length in the header is zero, or it is that of all words of the     *)
(* package and they are there: who reads it can tell whether the file is   *)
(* whole.  On a file that does not fail it is that of the words.           *)
LengthOfWhole ==
  writing # "header" /\ Len(written) >= EndOfHeader =>
    LET length == SubSeq(written, EndOfHeader - WordBytes + 1, EndOfHeader)
        data == SubSeq(written, EndOfHeader + 1, Len(written))
        IsWhole == data = Bytes(Header \o WordsOf(package))
    IN /\ length # BytesOf(Number(0)) =>
            length = BytesOf(Number(Len(data))) /\ IsWhole
       /\ writing = "done" /\ sink = "file" /\ ~ broken =>
            length # BytesOf(Number(0))
=============================================================================
