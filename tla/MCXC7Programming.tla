-------------------------- MODULE MCXC7Programming --------------------------
(* Small regular parts for XC7Programming.                                 *)
EXTENDS XC7Programming, TLC

CONSTANT design

Clb(counts) == [CLB_IO_CLK |-> counts]
Both(counts, ram) == [CLB_IO_CLK |-> counts, BLOCK_RAM |-> ram]

Jsons ==
  {[top |-> <<Both(<<2, 1>>, <<2>>), Both(<<1>>, <<1>>)>>,
    bottom |-> <<Both(<<2>>, <<1, 1>>)>>],
   [top |-> <<Clb(<<3, 1>>)>>, bottom |-> <<Clb(<<1>>), Clb(<<2>>)>>],
   [top |-> <<>>, bottom |-> <<Clb(<<2>>), Clb(<<1>>)>>]}

(* A part with frames of all three block types, from a list of addresses.  *)
List ==
  {FrameAddress(0, 0, 0, 0, 1), FrameAddress(1, 0, 0, 0, 0),
   FrameAddress(1, 1, 0, 0, 1), FrameAddress(2, 0, 0, 0, 0)}

MCParts == UNION {FromPart(json) : json \in Jsons} \cup {PartOf(List)}

MCFrameKeys ==
  {Zero, FrameAddress(0, 0, 0, 0, 1), FrameAddress(0, 1, 0, 0, 0),
   FrameAddress(1, 1, 0, 0, 1), FrameAddress(2, 0, 0, 0, 0)}

MCWords == {Blank, design}
=============================================================================
