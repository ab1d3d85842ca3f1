---------------------------- MODULE MCFasmParser ----------------------------
(* Lines for FasmParser, with words of 4 bits and bit numbers below 16.    *)
EXTENDS FasmParser

MCWordBits == 4
MCRangeLimit == 16

Line(feature, range, assigned, annotations, junk) ==
  [feature |-> feature, range |-> range, bracket |-> TRUE,
   assigned |-> assigned, annotations |-> annotations, junk |-> junk]

Feature(range, assigned) == Line("F", range, assigned, <<>>, FALSE)

(* Of 1, 4, 6, 8 and 10 bits.  Two wrap around, one is inverted.           *)
Ranges ==
  {<<>>, <<3>>, <<17>>, <<18, 2>>, <<1, 4>>}
    \cup {<<max, 2>> : max \in {2, 5, 7, 9, 11}}

Based(base, precision, digits) ==
  <<[base |-> base, number |-> precision, digits |-> digits]>>
Plain(n) == Based("", n, <<>>)

Binary == SeqOf({0, 1}, 5) \cup
  {<<1, 0, 0, 1>> \o s : s \in {<<0, 1, 1>>, <<0, 1, 1, 0>>, <<1, 0, 1, 1, 0>>}}
Hex == SeqOf({0, 6, 15}, 3)

Values ==
  {<<>>} \cup {Plain(n) : n \in {0, 5, 300}}
    \cup {Based("b", 4, s) : s \in Binary}
    \cup {Based("h", n, s) : n \in {0, 8}, s \in Hex}
    \cup {Based("o", 8, <<7, 1>>), Based("d", 8, <<1, 9>>), Based("y", 8, <<1>>)}

Block(list, closed) == <<[list |-> list, closed |-> closed]>>
Blocks ==
  {Block(<<>>, TRUE), Block(<<"quoted">>, FALSE),
   Block(<<"quoted", "quoted">>, TRUE), Block(<<"quoted", "not quoted">>, TRUE),
   Block(<<"no equals", "quoted">>, TRUE), Block(<<"unfinished">>, FALSE)}

Lines ==
  {Line("", <<>>, <<>>, annotations, FALSE) : annotations \in Blocks \cup {<<>>}}
    \cup {Line("F", range, <<>>, annotations, junk) :
            range \in {<<>>, <<3, 2>>, <<2, 3>>},
            annotations \in Blocks \cup {<<>>}, junk \in BOOLEAN}
    \cup {Line("", <<>>, <<>>, <<>>, TRUE),
          [Feature(<<4>>, <<>>) EXCEPT !.bracket = FALSE],
          Feature(<<9, 2>>, Based("h", 8, <<15, 6>>)),
          Feature(<<7, 0>>, Plain(3))}

MCContents ==
  {<<>>} \cup {<<Feature(range, value)>> : range \in Ranges, value \in Values}
         \cup Lines \X Lines

(* Numbers of two words, of which the second is not whole.                 *)
MCTwoWords ==
  {<<Feature(<<7, 0>>, Based("b", 8, s))>> : s \in [1 .. 5 -> {0, 1}]}
=============================================================================
