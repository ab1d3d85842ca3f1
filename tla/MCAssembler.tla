----------------------------- MODULE MCAssembler -----------------------------
(* A part of seven tiles, with words of 4 bits and values of 4 bits.      *)
EXTENDS Assembler

MCWordSizeBits == 4
MCUnsignedLimit == 64
MCFrameWordCount == 8
MCValueBits == 4
MCRangeLimit == 16

Block(alias, base_address, count, offset, words) ==
  [alias |-> alias, base_address |-> base_address, frames |-> count,
   offset |-> offset, words |-> words]

Tile4(type, bits, pin_functions, sites) ==
  [type |-> type, bits |-> bits, pin_functions |-> pin_functions, sites |-> sites]

To(type) == <<[type |-> type, start_offset |-> 0, sites |-> <<>>]>>

(* The single site of SING is the upper one of an IOB33: its block begins  *)
(* two words before the tile.  TWO has aliases to two types.  HIGH has an  *)
(* address that is more than an unsigned number.                           *)
ToIob33 == <<[type |-> "LIOB33", start_offset |-> 2,
              sites |-> <<"IOB33_Y0">> :> <<"IOB33_Y0">>]>>

MCGrid ==
  "LIOB33_A" :> Tile4("LIOB33", "CLB" :> Block(<<>>, 0, 2, 4, 4),
                      7 :> "PUDC_B" @@ 8 :> "IO", {7, 8})
  @@ "LIOB33_SING" :> Tile4("LIOB33_SING", "CLB" :> Block(ToIob33, 0, 2, 0, 2),
                            <<>>, {10})
  @@ "HCLK_IOI3_A" :> Tile4("HCLK_IOI3", "CLB" :> Block(<<>>, 4, 2, 0, 1), <<>>, {})
  @@ "BRAM" :> Tile4("BRAM", "CLB" :> Block(<<>>, 8, 2, 0, 1)
                             @@ "RAM" :> Block(<<>>, 12, 2, 0, 2), <<>>, {})
  @@ "INT" :> Tile4("INT", "CLB" :> Block(<<>>, 16, 1, 0, 1), <<>>, {})
  @@ "TWO" :> Tile4("TWO", "CLB" :> Block(To("LIOB33"), 20, 2, 0, 4)
                           @@ "RAM" :> Block(To("BRAM"), 24, 2, 0, 2), <<>>, {})
  @@ "HIGH" :> Tile4("BRAM", "CLB" :> Block(<<>>, 66, 2, 0, 1), <<>>, {})

Segbit(column, word_bit) ==
  [word_column |-> column, word_bit |-> word_bit, is_set |-> TRUE]
Clear(segbit) == [segbit EXCEPT !.is_set = FALSE]

(* The lower half of an IOB33 is Y1.  Two features have a bit in common.   *)
Iob33Bits ==
  <<<<"IOB_Y1", "LVCMOS12_LVCMOS15_LVCMOS18", "IN_ONLY">>, 0>> :> {Segbit(0, 1)}
  @@ <<<<"IOB_Y1", "LVCMOS25_LVCMOS33_LVTTL", "IN">>, 0>> :> {Segbit(0, 2)}
  @@ <<<<"IOB_Y1", "PULLTYPE", "PULLUP">>, 0>> :> {Segbit(0, 1), Segbit(0, 3)}
  @@ <<<<"IOB_Y1", "STEPDOWN">>, 0>> :> {Segbit(1, 4)}
  @@ <<<<"IOB_Y0", "DRIVE">>, 0>> :> {Segbit(0, 8), Clear(Segbit(0, 9))}
  @@ <<<<"IOB_Y0", "IN">>, 0>> :> {Segbit(0, 9)}
  @@ <<<<"IOB_Y0", "STEPDOWN">>, 0>> :> {Segbit(1, 12)}

MCTileTypes ==
  "LIOB33" :> [pips |-> {}, segment_bits |-> "CLB" :> Iob33Bits]
  @@ "HCLK_IOI3" :> [pips |-> {}, segment_bits |->
       "CLB" :> (<<<<"STEPDOWN">>, 0>> :> {Segbit(0, 3)})]
  @@ "BRAM" :> [pips |-> {}, segment_bits |->
       "CLB" :> (<<<<"MODE">>, 0>> :> {Segbit(0, 0)})
       @@ "RAM" :> [k \in {<<<<"INIT">>, n>> : n \in 0 .. 5} |->
                      {Segbit(k[2] % 2, k[2])}]]
  @@ "INT" :> [pips |-> {<<"INT", "PIP">>}, segment_bits |-> <<>>]

MCIOBanks == 14 :> "HCLK_IOI3_A" @@ 15 :> "HCLK_IOI3_A"
MCPackagePins ==
  <<[bank |-> 14, tile |-> "LIOB33_A"], [bank |-> 14, tile |-> "LIOB33_SING"],
    [bank |-> 17, tile |-> "TWO"], [bank |-> 17, tile |-> "LIOB33_B"],
    [bank |-> 16, tile |-> "BRAM"], [bank |-> 14, tile |-> "LIOB33_A"]>>

(* LIOB33_B is not in the grid.                                            *)
MCIob33 == {"LIOB33_A", "LIOB33_SING", "LIOB33_B"}
MCHclkIoi3 == {"HCLK_IOI3_A"}
MCStepDownTags == {"STEPDOWN"}

Dotted(segments) == FoldLeft(LAMBDA name, segment : name \o "." \o segment,
                             Head(segments), Tail(segments))

(* A line that assigns these bits, the highest first, to a range.          *)
Line(segments, range, digits) ==
  [feature |-> Dotted(segments), range |-> range, bracket |-> TRUE,
   assigned |-> IF digits = <<>> THEN <<>>
                ELSE <<[base |-> "b", number |-> 1, digits |-> digits]>>,
   annotations |-> <<>>, junk |-> FALSE]
One(segments) == Line(segments, <<>>, <<>>)

Comment == [One(<<"TOP">>) EXCEPT !.feature = ""]
Annotated(l) == [l EXCEPT !.annotations = <<[list |-> <<"quoted">>, closed |-> TRUE]>>]
Junk(l) == [l EXCEPT !.junk = TRUE]

(* The fourth is 0; the value of the sixth has two words, that of the      *)
(* seventh has only one, for a range of more bits.                         *)
Lines ==
  {One(<<"LIOB33_A", "IOB_Y0", "DRIVE">>), One(<<"LIOB33_A", "IOB_Y0", "IN">>),
   One(<<"LIOB33_A", "IOB_Y0", "STEPDOWN">>),
   One(<<"LIOB33_SING", "IOB_Y0", "DRIVE">>),
   One(<<"LIOB33_SING", "IOB_Y0", "STEPDOWN">>),
   Line(<<"LIOB33_SING", "IOB_Y0", "STEPDOWN">>, <<0>>, <<0>>),
   Line(<<"BRAM", "INIT">>, <<5, 2>>, <<1, 0, 0, 1>>),
   Line(<<"BRAM", "INIT">>, <<5, 0>>, <<0, 0, 1, 0, 0, 0, 0, 1>>),
   Line(<<"BRAM", "INIT">>, <<5, 0>>, <<1, 0>>),
   One(<<"BRAM", "MODE">>), One(<<"INT", "PIP">>)}

OfTwo ==
  {One(<<"TWO", "MODE">>), One(<<"TWO", "IOB_Y0", "IN">>),
   One(<<"TWO", "IOB_Y0", "STEPDOWN">>),
   Line(<<"TWO", "INIT">>, <<3, 0>>, <<1, 0, 1, 1>>)}

(* No dot, no tile, no feature, no bank for its STEPDOWN, an address and a *)
(* site out of reach.                                                      *)
Impossible ==
  {One(<<"TOP">>), One(<<"NOWHERE", "IN">>), One(<<"BRAM", "OUT">>),
   One(<<"INT", "IOB_Y0", "STEPDOWN">>), One(<<"HIGH", "MODE">>),
   One(<<"LIOB33_SING", "IOB_Y1", "STEPDOWN">>)}

Mode == One(<<"BRAM", "MODE">>)
Inverted == Line(<<"BRAM", "INIT">>, <<0, 2>>, <<1>>)

Text(lines) == [lines |-> lines, newline |-> TRUE]

MCTexts ==
  {Text(<<l, m>>) : l \in Lines, m \in Lines \cup Impossible}
    \cup {Text(<<l, m>>) : l \in OfTwo, m \in {Mode, Junk(Comment)}}
    \cup {Text(<<l, Junk(m), m>>) : l, m \in {Mode, Line(<<"BRAM", "INIT">>, <<5, 2>>, <<1>>)}}
    \cup {Text(<<Comment, l>>) : l \in {Annotated(Mode), Inverted}}
    \cup {Text(<<>>), [lines |-> <<Mode, Comment>>, newline |-> FALSE]}

MCSegmentsOf ==
  LET names == {<<"LIOB33_A", "IOB_Y0", "DRIVE">>, <<"LIOB33_A", "IOB_Y0", "IN">>,
                <<"LIOB33_A", "IOB_Y0", "STEPDOWN">>, <<"LIOB33_SING", "IOB_Y0", "DRIVE">>,
                <<"LIOB33_SING", "IOB_Y0", "STEPDOWN">>, <<"BRAM", "INIT">>,
                <<"BRAM", "MODE">>, <<"INT", "PIP">>, <<"TWO", "MODE">>,
                <<"TWO", "IOB_Y0", "IN">>, <<"TWO", "IOB_Y0", "STEPDOWN">>,
                <<"TWO", "INIT">>, <<"TOP">>, <<"NOWHERE", "IN">>, <<"BRAM", "OUT">>,
                <<"INT", "IOB_Y0", "STEPDOWN">>, <<"HIGH", "MODE">>,
                <<"LIOB33_SING", "IOB_Y1", "STEPDOWN">>}
  IN [name \in {Dotted(segments) : segments \in names} |->
        CHOOSE segments \in names : Dotted(segments) = name]
=============================================================================
