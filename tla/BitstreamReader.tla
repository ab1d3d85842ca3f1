--------------------------- MODULE BitstreamReader ---------------------------
(***************************************************************************)
(* BitstreamReader (src/fpga/xilinx/bitstream-reader.h): InitWithBytes     *)
(* finds the words after the first sync word, and an iterator yields their *)
(* packets.  The steps are InitWithBytes and the passes of the do-while    *)
(* loop of the iterator's operator++.                                      *)
(***************************************************************************)
EXTENDS ConfigurationPackets

VARIABLES
  bitstream,      (* the bytes of a file                                    *)
  reading,        (* "bytes", then "packets", then "end" or why there are   *)
                  (* no packets: "no sync", "thrown"                        *)
  words,          (* parse_result_.first: the words not yet parsed          *)
  previous,       (* parse_result_.second: the packet parsed, if any        *)
  received        (* the packets the iterator has yielded (history)         *)

readerVars == <<reading, words, previous, received>>

ReaderInit ==
  /\ reading = "bytes"
  /\ words = <<>>
  /\ previous = {}
  /\ received = <<>>

AfterSync(positions) ==
  WordBytes + CHOOSE i \in positions : \A j \in positions : i <= j

(* The span of words takes a whole word from bytes that are not one, and   *)
(* throws when it goes on behind them.                                     *)
InitWithBytes ==
  LET positions == SyncPositions(bitstream)
      bytes == SubSeq(bitstream, AfterSync(positions), Len(bitstream))
  IN /\ reading = "bytes"
     /\ \/ positions = {} /\ reading' = "no sync" /\ UNCHANGED words
        \/ /\ positions # {} /\ Len(bytes) % WordBytes # 0
           /\ reading' = "thrown" /\ UNCHANGED words
        \/ /\ positions # {} /\ Len(bytes) % WordBytes = 0
           /\ reading' = "packets" /\ words' = BigEndianWords(bytes)
     /\ UNCHANGED <<bitstream, previous, received>>

Parsed == InitWithWords(words, previous)

(* No progress: no words are left, or too few for their packet.            *)
Stop ==
  /\ reading = "packets"
  /\ Parsed.left = words
  /\ reading' = "end"
  /\ UNCHANGED <<bitstream, words, previous, received>>

Yield ==
  /\ reading = "packets"
  /\ Parsed.left # words
  /\ \E packet \in Parsed.packet : received' = Append(received, packet)
  /\ words' = Parsed.left
  /\ previous' = Parsed.packet
  /\ UNCHANGED <<bitstream, reading>>

(* Words without a packet: the loop goes on while there are some.          *)
PassOver ==
  /\ reading = "packets"
  /\ Parsed.left # words
  /\ Parsed.packet = {}
  /\ words' = Parsed.left
  /\ previous' = {}
  /\ reading' = IF words' = <<>> THEN "end" ELSE "packets"
  /\ UNCHANGED <<bitstream, received>>

ReaderNext == InitWithBytes \/ Stop \/ Yield \/ PassOver

ReaderTypeOK ==
  /\ reading \in {"bytes", "packets", "end", "no sync", "thrown"}
  /\ received # <<>> => previous \in {{}, {Last(received)}}
  /\ received = <<>> => previous = {}
=============================================================================
