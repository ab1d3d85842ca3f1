---------------------------- MODULE MCXC7Streams ----------------------------
(* Two small parts, every cut in up to three packets.                      *)
EXTENDS XC7Streams

Clb(counts) == [CLB_IO_CLK |-> counts]
Both(counts, ram) == [CLB_IO_CLK |-> counts, BLOCK_RAM |-> ram]

Jsons ==
  {[top |-> <<Both(<<2, 1>>, <<1>>), Clb(<<1>>)>>, bottom |-> <<Both(<<1>>, <<2>>)>>],
   [top |-> <<Clb(<<2>>)>>, bottom |-> <<Clb(<<1>>), Clb(<<1, 1>>)>>],
   [top |-> <<>>, bottom |-> <<Clb(<<2>>), Clb(<<1>>)>>]}

MCParts == UNION {FromPart(json) : json \in Jsons}

MCMarkers == {Zero, FrameAddress(0, 1, 0, 0, 0)}

MCWords == Address \cup {Blank}
=============================================================================
