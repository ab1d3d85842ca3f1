----------------------------- MODULE XC7Streams -----------------------------
(***************************************************************************)
(* Bitstreams of other tools, as the comments of InitWithPackets           *)
(* (src/fpga/xilinx/configuration.h) describe them, handled by XC7Device:  *)
(* the frame data comes in several auto-incrementing FDRI packets, either  *)
(* with FAR writes between them that only show progress (bit 21 of CTL1 is *)
(* set), or with FAR writes that each start a write of their own, in any   *)
(* order.                                                                  *)
(***************************************************************************)
EXTENDS XC7Device, FiniteSets, SequencesExt

CONSTANTS
  Parts,          (* regular parts                                          *)
  Markers,        (* addresses that progress markers may show               *)
  MaxCuts,        (* bound: cuts of the frame data into packets             *)
  Idcode

ASSUME StreamsAssumption ==
  /\ \A p \in Parts : IsPart(p) /\ Fits(p) /\ IsRegular(p)
  /\ Blank \in Words

VARIABLE
  design          (* the frames the bitstream is meant to load              *)

vars == <<deviceVars, design>>

-----------------------------------------------------------------------------
Frames(p) ==
  {a \in [type: BlockTypes, bottom: Halves, row: 0 .. RowLimit - 1,
          column: 0 .. ColumnLimit - 1, minor: 0 .. MinorLimit - 1] :
     IsValidFrameAddress(p, a)}

(* The elements of a set in increasing order.                              *)
InOrder(S, Below(_, _)) ==
  [k \in 1 .. Cardinality(S) |->
     CHOOSE a \in S : Cardinality({b \in S : Below(b, a)}) = k - 1]

Write(register, value) ==
  [opcode |-> "write", address |-> register, data |-> <<value>>]

FrameData(frames) ==
  [opcode |-> "write", address |-> "FDRI", data |-> frames]

(* The k-th frame of the design with the padding that follows its row.     *)
Slot(order, k) ==
  <<design[order[k]]>> \o
    IF k < Len(order) /\ RowChanges(order[k], order[k + 1])
    THEN <<Blank, Blank>> ELSE <<>>

Chunk(order, first, last) ==
  FrameData(FlattenSeq([k \in 1 .. last - first + 1 |-> Slot(order, first + k - 1)]))

(* The chunks that the cuts make of the design, as pairs of first and last.*)
Chunks(order, cuts) ==
  LET ends == InOrder(cuts \cup {Len(order)}, <)
  IN [i \in DOMAIN ends |-> <<IF i = 1 THEN 1 ELSE ends[i - 1] + 1, ends[i]>>]

(* One write, with progress markers before the later chunks.               *)
MarkedStream(order, cuts, marker) ==
  LET chunks == Chunks(order, cuts)
  IN <<Write("IDCODE", Idcode), Write("MASK", {Inhibit}), Write("CTL1", {Inhibit}),
       Write("FAR", order[1]), Write("CMD", "WCFG")>> \o
     FlattenSeq([i \in DOMAIN chunks |->
       (IF i = 1 THEN <<>> ELSE <<Write("FAR", marker)>>) \o
       <<Chunk(order, chunks[i][1], chunks[i][2])>>])

(* A write for each chunk; the masked bit of CTL1 stays clear.             *)
SeekingStream(order, cuts, arrangement) ==
  LET chunks == Chunks(order, cuts)
  IN <<Write("IDCODE", Idcode), Write("MASK", {}), Write("CTL1", {Inhibit}),
       Write("CMD", "WCFG")>> \o
     FlattenSeq([i \in DOMAIN chunks |->
       LET chunk == chunks[arrangement[i]]
       IN <<Write("FAR", order[chunk[1]]), Chunk(order, chunk[1], chunk[2])>>])

Init ==
  /\ part \in Parts
  /\ idcode = Idcode
  /\ design = [a \in Frames(part) |-> a]
  /\ \E order \in {InOrder(Frames(part), Less)} :
     \E cuts \in SUBSET (1 .. Len(order) - 1) :
       /\ Cardinality(cuts) <= MaxCuts
       /\ \/ \E marker \in Markers : packets = MarkedStream(order, cuts, marker)
          \/ \E arrangement \in Bijection(1 .. Cardinality(cuts) + 1,
                                            1 .. Cardinality(cuts) + 1) :
               packets = SeekingStream(order, cuts, arrangement)
  /\ DeviceInit

Next == DeviceNext /\ UNCHANGED design

Spec == Init /\ [][Next]_vars /\ WF_vars(Next)

-----------------------------------------------------------------------------
(* Wherever a bitstream is cut into packets between two frames, and        *)
(* whatever its progress markers show, no frame ever lands at the address  *)
(* of another one or in place of padding.                                  *)
LandsInPlace ==
  \A a \in DOMAIN loaded : a \in DOMAIN design /\ loaded[a] = design[a]

(* In the end the device holds the whole design.                           *)
LoadsAll == <>(verdict = "configured" /\ loaded = design)
=============================================================================
