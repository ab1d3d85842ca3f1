---------------------------- MODULE MCXC7Frames ----------------------------
(* Small parts for XC7Frames, with fields of two or three values.          *)
EXTENDS XC7Frames, TLC

CONSTANT design

Clb(counts) == [CLB_IO_CLK |-> counts]
Both(counts, ram) == [CLB_IO_CLK |-> counts, BLOCK_RAM |-> ram]
Cfg(counts, cfg) == [CLB_IO_CLK |-> counts, CFG_CLB |-> cfg]

(* part.json contents: regular ones, then rows without a bus, columns      *)
(* without frames, a half without rows, two buses of one block type, and   *)
(* counts and rows that do not fit their fields.                           *)
Jsons ==
  {[top |-> <<Both(<<2, 1>>, <<2>>), Both(<<1>>, <<1>>)>>,
    bottom |-> <<Both(<<3>>, <<1, 2>>)>>],
   [top |-> <<Clb(<<3, 3>>)>>, bottom |-> <<Clb(<<1>>), Clb(<<2>>)>>],
   [top |-> <<Both(<<1>>, <<>>), Both(<<2>>, <<2>>)>>,
    bottom |-> <<Both(<<1>>, <<1>>), Clb(<<1>>), Both(<<1>>, <<1>>)>>],
   [top |-> <<Both(<<2, 0, 2>>, <<1>>)>>, bottom |-> <<Both(<<0, 1>>, <<1>>)>>],
   [top |-> <<>>, bottom |-> <<Both(<<2>>, <<1>>)>>],
   [top |-> <<Cfg(<<2>>, <<3, 1>>)>>, bottom |-> <<Clb(<<1>>)>>],
   [top |-> <<Clb(<<4, 1>>), Clb(<<1, 1, 5>>)>>, bottom |-> <<Clb(<<1>>)>>]}

(* Lists of addresses, as the tests build parts from.                      *)
Lists ==
  {{FrameAddress(0, 0, 0, 0, 1), FrameAddress(0, 0, 0, 2, 0),
    FrameAddress(0, 0, 2, 0, 0), FrameAddress(1, 1, 0, 0, 2),
    FrameAddress(2, 0, 0, 0, 0)},
   {FrameAddress(0, 0, 1, 0, 1), FrameAddress(0, 1, 0, 1, 0)}}

MCParts == UNION {FromPart(json) : json \in Jsons} \cup {PartOf(l) : l \in Lists}

(* A part.json whose second row has no block RAM bus.                      *)
MCGapParts ==
  FromPart([top |-> <<Both(<<1>>, <<1>>), Clb(<<1>>), Both(<<2>>, <<2>>)>>,
            bottom |-> <<Both(<<1>>, <<1>>)>>])

(* Address zero, frames of some of the parts, and a frame of none.         *)
MCFrameKeys ==
  {Zero, FrameAddress(0, 0, 1, 0, 0), FrameAddress(0, 1, 0, 0, 0),
   FrameAddress(1, 1, 0, 0, 1), FrameAddress(2, 1, 2, 2, 2)}

MCWords == {Blank, design}
=============================================================================
