---------------------------- MODULE BitstreamFile ----------------------------
(***************************************************************************)
(* A bitstream is written by BitstreamWriter, and what has got into the    *)
(* file is read by BitstreamReader.                                        *)
(***************************************************************************)
EXTENDS ConfigurationPackets, FiniteSets

CONSTANTS
  Packages,       (* the sequences of packets that may be written           *)
  BitHeader, Header

ASSUME BitHeaderAssumption == BitHeader \in Seq(AnyWord \X (1 .. WordBytes))
ASSUME HeaderAssumption == Header \in Seq(AnyWord) \ {<<>>} /\ Last(Header) = Sync
(* The sync word that the words of the header end with is the first one.   *)
ASSUME SyncAssumption ==
  /\ \A i \in 1 .. Len(Header) - 1 : Header[i] # Sync
  /\ SyncPositions(BitHeader) = {}
ASSUME PackagesAssumption == \A packets \in Packages : packets \in Seq(AnyPacket)

VARIABLES
  package, sink, written, broken, writing,            (* the writer         *)
  itr_header, itr_packets, packet_itr,
  reading, words, previous, received                  (* the reader         *)

Writer == INSTANCE BitstreamWriter
Reader == INSTANCE BitstreamReader WITH bitstream <- written

inputs == <<package, sink>>
readerVars == <<reading, words, previous, received>>
writerVars ==
  <<inputs, written, broken, writing, itr_header, itr_packets, packet_itr>>
vars == <<writerVars, readerVars>>

Init ==
  /\ package \in Packages
  /\ sink \in {"file", "pipe"}
  /\ Writer!WriterInit
  /\ Reader!ReaderInit

Write == Writer!WriterNext /\ UNCHANGED readerVars

Read ==
  /\ writing = "done"
  /\ Reader!ReaderNext
  /\ UNCHANGED <<inputs, broken, writing, itr_header, itr_packets, packet_itr>>

Next == Write \/ Read

(* Neither the writer nor the reader waits for anything.                   *)
Spec == Init /\ [][Next]_vars /\ WF_vars(Next)

-----------------------------------------------------------------------------
TypeOK ==
  /\ Writer!WriterTypeOK
  /\ Reader!ReaderTypeOK

(* See LengthOfWhole in BitstreamWriter: the length in the .bit header     *)
(* vouches for all of the data.                                            *)
LengthOfWhole == Writer!LengthOfWhole

(* A package is delivered up to the first packet that its words cannot     *)
(* stand for (its count does not fit, or it is of type 2 and not preceded  *)
(* by one of its register): packets are neither lost, cut, repeated nor    *)
(* made up, wherever the file was cut, and whatever their data looks like. *)
Sent == SoundPrefix(package)

EndOf(k) ==
  Writer!EndOfHeader
    + WordBytes * Len(Header \o WordsOf(SubSeq(package, 1, k)))

Smaller(m, n) == IF m < n THEN m ELSE n

Delivery == INSTANCE PacketTransfer WITH
  sent <- Sent,
  stored <- Cardinality({k \in DOMAIN Sent : EndOf(k) <= Len(written)}),
  failed <- broken,
  closed <- writing = "done",
  delivered <- SubSeq(received, 1, Smaller(Len(received), Len(Sent))),
  ended <- reading \notin {"bytes", "packets"}

DeliversPackets == Delivery!TransferSpec
=============================================================================
