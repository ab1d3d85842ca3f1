--------------------------- MODULE AssemblerProofs ---------------------------
(***************************************************************************)
(* Assembler for every database, every text and every order that the hash  *)
(* maps may have: what is written is whole, sites of the design are left   *)
(* alone, and the frames are those of the features, which are those of the *)
(* text.                                                                   *)
(***************************************************************************)
EXTENDS Assembler, FiniteSetTheorems, SequenceTheorems, TLAPS

(* The parser with its theorems, for the lines that may be read.           *)
Lines == UNION {ToSet(t.lines) : t \in Texts}

PP == INSTANCE FasmParserProofs
        WITH WordBits <- ValueBits, Contents <- {<<l>> : l \in Lines}, Answers <- {TRUE},
             content <- <<text.lines[line_number]>>,
             newline <- (line_number < Len(text.lines) \/ text.newline),
             annotating <- (step = "parse"), line_number <- parser_line

IsFeature(f) ==
  /\ f.start_bit \in Int /\ f.width \in Int
  /\ f.bits \subseteq 0 .. ValueBits - 1

Reading == {"lines", "parse", "stepdown"}

Types ==
  /\ text \in Texts
  /\ step \in Final \cup {"open", "pudcb", "bits"} \cup Reading
  /\ line_number \in Nat \ {0}
  /\ design \in Seq(ToSet(design)) /\ Len(design) = line_number - 1
  /\ features \in Seq(ToSet(features))
  /\ \A f \in ToSet(features) : IsFeature(f)
  /\ current \in Nat \ {0} /\ addr \in Nat

(* The parser has one line, and what it calls back are numbers.            *)
Parsing ==
  step = "parse" =>
    /\ line_number \in DOMAIN text.lines
    /\ calls \in Seq(ToSet(calls))
    /\ at \in {"start", "feature", "chunks", "annotations", "end of line", "done"}
    /\ at \notin {"start", "done"} => parser_line = 1
    /\ at = "start" => parser_line = 1
    /\ chunk \in Int
    /\ at = "chunks" => width \in Int /\ Len(bitset) \in Nat

(* What the lines have set is among the features.                          *)
Collected ==
  /\ DesignFeatures \subseteq ToSet(features)
  /\ step = "parse" => \A c \in ToSet(calls) : FeatureOf(c) \in ToSet(features)

OfLines(f) ==
  \/ f \in DesignFeatures
  \/ step = "parse" /\ \E c \in ToSet(calls) : f = FeatureOf(c)

(* A site of IOB33 that is stepped down is one of the design, or one that  *)
(* the design does not use.                                                *)
SteppedRightly(f) ==
  /\ Len(f.name) = 3 /\ f.name[1] \in Iob33
  /\ \E g \in DesignFeatures : g.bits # {} /\ Mentions(f.name, g.name)
  => f \in DesignFeatures

(* Where the features come from.  Names that PUDC_B adds have four parts.  *)
Origin ==
  /\ step \in {"open", "pudcb"} => features = <<>>
  /\ step \in Reading => \A f \in ToSet(features) : OfLines(f) \/ Len(f.name) = 4
  /\ step = "bits" => \A f \in ToSet(features) : SteppedRightly(f)

(* The place has a tile and, in a type that has been read, a feature.      *)
IsPlace(f, k) ==
  /\ f.name[1] \in DOMAIN Grid
  /\ \E resolved \in Resolutions(f.name[1], Tail(f.name)) :
       resolved.type \in segment_bits_cache /\ Has(f.name[1], resolved, f.start_bit + k)

IsBefore(i, k) == i < current \/ (i = current /\ k < addr)

(* All bits before the current one have been set.                          *)
SetUp ==
  /\ step \in Reading \cup {"open", "pudcb"} => current = 1 /\ addr = 0
  /\ \A i \in DOMAIN features : \A k \in features[i].bits :
       k < features[i].width /\ IsBefore(i, k) => IsPlace(features[i], k)
  /\ step = "written" => current > Len(features)

Accepted ==
  step # "failed" => \A i \in DOMAIN design : design[i].accepted

IInv ==
  /\ Types
  /\ Parsing
  /\ Collected
  /\ Origin
  /\ SetUp
  /\ Accepted

-----------------------------------------------------------------------------
LEMMA FunctionIsSeq ==
  ASSUME NEW S, NEW n \in Nat, NEW s \in [1 .. n -> S]
  PROVE  s \in Seq(S) /\ Len(s) = n
<1>1. s \in UNION {[1 .. m -> S] : m \in Nat}
  BY Zenon
<1>2. s \in Seq(S)
  BY <1>1, SeqDef, Zenon
<1>3. QED
  BY <1>2, LenProperties

LEMMA SeqOfOwn ==
  ASSUME NEW S, NEW s \in Seq(S)
  PROVE  s \in Seq(ToSet(s))
<1>1. /\ Len(s) \in Nat /\ s \in [1 .. Len(s) -> S]
      /\ DOMAIN s = 1 .. Len(s)
  BY LenProperties
<1>2. s \in [1 .. Len(s) -> ToSet(s)]
  BY <1>1 DEF ToSet
<1>3. QED
  BY <1>1, <1>2, FunctionIsSeq

LEMMA AppendElements ==
  ASSUME NEW s, s \in Seq(ToSet(s)), NEW e
  PROVE  /\ Append(s, e) \in Seq(ToSet(Append(s, e)))
         /\ ToSet(Append(s, e)) = ToSet(s) \cup {e}
         /\ Len(Append(s, e)) = Len(s) + 1
<1> DEFINE S == ToSet(s) \cup {e}
           t == Append(s, e)
<1>1. s \in Seq(S)
  BY SeqMonotonic
<1>2. /\ t \in Seq(S) /\ Len(t) = Len(s) + 1
      /\ \A i \in 1 .. Len(s) : t[i] = s[i]
      /\ t[Len(s) + 1] = e
  BY <1>1, AppendProperties
<1>3. /\ Len(s) \in Nat /\ DOMAIN s = 1 .. Len(s) /\ DOMAIN t = 1 .. Len(t)
  BY <1>1, <1>2, LenProperties
<1>4. t \in Seq(ToSet(t))
  BY <1>2, SeqOfOwn
<1>5. ToSet(t) = ToSet(s) \cup {e}
  <2> HIDE DEF t
  <2>1. DOMAIN t = DOMAIN s \cup {Len(s) + 1}
    BY <1>2, <1>3
  <2>2. QED
    BY <1>2, <1>3, <2>1 DEF ToSet
<1>6. QED
  BY <1>2, <1>4, <1>5

LEMMA ConcatElements ==
  ASSUME NEW s, s \in Seq(ToSet(s)), NEW t, t \in Seq(ToSet(t))
  PROVE  /\ s \o t \in Seq(ToSet(s \o t))
         /\ ToSet(s \o t) = ToSet(s) \cup ToSet(t)
<1> DEFINE S == ToSet(s) \cup ToSet(t)
           u == s \o t
<1>1. s \in Seq(S) /\ t \in Seq(S)
  BY SeqMonotonic
<1>2. /\ u \in Seq(S) /\ Len(u) = Len(s) + Len(t)
      /\ \A i \in 1 .. Len(s) + Len(t) : u[i] = IF i <= Len(s) THEN s[i] ELSE t[i - Len(s)]
  BY <1>1, ConcatProperties
<1>3. /\ Len(s) \in Nat /\ Len(t) \in Nat
      /\ DOMAIN s = 1 .. Len(s) /\ DOMAIN t = 1 .. Len(t)
      /\ DOMAIN u = 1 .. Len(u) /\ u \in [1 .. Len(u) -> S]
  BY <1>1, <1>2, LenProperties
<1>4. u \in Seq(ToSet(u))
  BY <1>2, SeqOfOwn
<1> HIDE DEF u
<1>5. ToSet(u) \subseteq S
  BY <1>3 DEF ToSet
<1>6. ASSUME NEW i \in DOMAIN s PROVE s[i] \in ToSet(u)
  <2>1. i \in DOMAIN u /\ u[i] = s[i]
    BY <1>2, <1>3
  <2>2. QED
    BY <2>1 DEF ToSet
<1>7. ASSUME NEW i \in DOMAIN t PROVE t[i] \in ToSet(u)
  <2>1. /\ Len(s) + i \in DOMAIN u /\ ~ Len(s) + i <= Len(s)
        /\ (Len(s) + i) - Len(s) = i
    BY <1>2, <1>3
  <2>2. u[Len(s) + i] = t[i]
    BY <1>2, <1>3, <2>1
  <2>3. QED
    BY <2>1, <2>2 DEF ToSet
<1>8. S \subseteq ToSet(u)
  BY <1>6, <1>7 DEF ToSet
<1>9. QED
  BY <1>4, <1>5, <1>8 DEF u

-----------------------------------------------------------------------------
(* What is a line for the assembler is one for the parser.                 *)
LEMMA SameLine ==
  ASSUME NEW l, P!IsLine(l)
  PROVE  PP!IsLine(l)
<1>1. \A base : P!Radix(base) = PP!Radix(base)
  BY DEF P!Radix, PP!Radix
<1>2. P!AnyValue = PP!AnyValue /\ P!AnyBlock = PP!AnyBlock
  BY DEF P!AnyValue, PP!AnyValue, P!AnyBlock, PP!AnyBlock
<1>3. P!ToSet(l.assigned) = PP!ToSet(l.assigned)
  BY DEF P!ToSet, PP!ToSet
<1>4. QED
  BY <1>1, <1>2, <1>3 DEF P!IsLine, PP!IsLine

(* The parser is FasmParser with these constants.                          *)
LEMMA ParserAssumptions ==
  PP!ParserAssumption /\ PP!ContentsAssumption
<1>1. PP!ParserAssumption
  BY AssemblerAssumption DEF PP!ParserAssumption
<1>2. PP!ContentsAssumption
  <2>1. ASSUME NEW l \in Lines
        PROVE  <<l>> \in Seq(PP!ToSet(<<l>>)) /\ \A m \in PP!ToSet(<<l>>) : PP!IsLine(m)
    <3>1. PP!ToSet(<<l>>) = {l}
      BY DEF PP!ToSet
    <3>2. P!IsLine(l)
      BY AssemblerAssumption DEF Lines
    <3>3. PP!IsLine(l)
      BY <3>2, SameLine
    <3>4. QED
      BY <3>1, <3>3
  <2>2. QED
    BY <2>1 DEF PP!ContentsAssumption
<1>3. QED
  BY <1>1, <1>2

LEMMA ValueBitsType == ValueBits \in Nat /\ 0 < ValueBits
  BY AssemblerAssumption

LEMMA LineNumbers ==
  ASSUME NEW l, P!IsLine(l)
  PROVE  /\ P!MinBit(l) \in Int
         /\ P!Width(l) \in Int
         /\ Len(P!Bitset(l)) \in Nat
<1>1. PP!IsLine(l)
  BY SameLine
<1>2. /\ PP!MinBit(l) \in Nat /\ PP!RangeWidth(l) \in Int
      /\ Len(PP!Bitset(l)) \in Nat
  BY <1>1, ParserAssumptions, PP!BitsType, PP!BitsetLen
<1>3. P!MinBit(l) = PP!MinBit(l) /\ P!RangeWidth(l) = PP!RangeWidth(l)
  BY DEF P!MinBit, PP!MinBit, P!RangeWidth, PP!RangeWidth, P!MaxBit, PP!MaxBit,
         P!Last, PP!Last
<1>4. P!Bitset(l) = PP!Bitset(l)
  BY DEF P!Bitset, PP!Bitset, P!LongNumberWithBase, PP!LongNumberWithBase,
         P!NumberWithBase, PP!NumberWithBase, P!WordLimit, PP!WordLimit,
         P!FoldLeft, PP!FoldLeft, P!MapThenFoldSet, PP!MapThenFoldSet,
         P!Min, PP!Min, P!Max, PP!Max, P!Reverse, PP!Reverse
<1>5. P!Width(l) \in Int
  BY <1>2, <1>3, AssemblerAssumption DEF P!Width
<1>6. QED
  BY <1>2, <1>3, <1>4, <1>5

(* What one step of the parser does to what the assembler sees of it.      *)
LEMMA ParserSteps ==
  ASSUME IInv, step = "parse", P!Next, UNCHANGED <<text, step, line_number>>
  PROVE  /\ Parsing'
         /\ \/ calls' = calls
            \/ \E c : /\ calls' = Append(calls, c)
                      /\ c.start_bit \in Int /\ c.width \in Int
<1> DEFINE l == text.lines[line_number]
           Moves == /\ at' \in {"feature", "annotations", "end of line", "done"}
                    /\ at' # "done" => parser_line' = 1
                    /\ chunk' = chunk
<1>1. P!IsLine(l) /\ line_number \in DOMAIN text.lines
  BY AssemblerAssumption DEF IInv, Types, Parsing, ToSet
<1>2. /\ P!MinBit(l) \in Int /\ P!Width(l) \in Int /\ Len(P!Bitset(l)) \in Nat
  BY <1>1, LineNumbers
<1>3. at # "done" => parser_line = 1 /\ P!line = l
  <2>1. at # "done" => parser_line = 1
    BY DEF IInv, Parsing
  <2>2. P!line = <<l>>[parser_line] /\ <<l>>[1] = l
    BY DEF P!line
  <2>3. QED
    BY <2>1, <2>2
<1>4. Len(<<l>>) = 1 /\ <<l>> # <<>>
  OBVIOUS
<1>5. calls \in Seq(ToSet(calls)) /\ chunk \in Int
  BY DEF IInv, Parsing
<1> HIDE DEF l
<1>6. ASSUME Moves, calls' = calls
      PROVE  Parsing'
  BY <1>1, <1>5, <1>6 DEF Parsing, l
<1>7. CASE P!Start
  <2>1. Moves /\ calls' = calls
    BY <1>3, <1>7 DEF P!Start, IInv, Parsing
  <2>2. QED
    BY <1>6, <2>1
<1>8. CASE P!NoFeature \/ P!NoAnnotations \/ P!ReadAnnotations
  <2>1. Moves /\ calls' = calls
    BY <1>3, <1>8 DEF P!NoFeature, P!NoAnnotations, P!ReadAnnotations
  <2>2. QED
    BY <1>6, <2>1
<1>9. CASE P!SkipLine \/ P!EndOfLine
  <2>1. P!NextLine /\ at # "done" /\ chunk' = chunk /\ calls' = calls
    BY <1>9 DEF P!SkipLine, P!EndOfLine
  <2>2. at' = "done"
    BY <1>3, <1>4, <2>1 DEF P!NextLine, l
  <2>3. QED
    BY <1>6, <2>1, <2>2
<1>10. CASE P!ReadValue
  <2>1. /\ at # "done" /\ parser_line' = parser_line /\ calls' = calls
        /\ width' = P!Width(P!line) /\ bitset' = P!Bitset(P!line)
        /\ chunk' = 1 /\ at' = "chunks"
    BY <1>10 DEF P!ReadValue
  <2>2. width' \in Int /\ Len(bitset') \in Nat /\ parser_line' = 1
    BY <1>2, <1>3, <2>1
  <2>3. QED
    BY <1>1, <1>5, <2>1, <2>2 DEF Parsing, l
<1>11. CASE P!Report
  <2>1. PICK bits : calls' = Append(calls, P!Call(bits))
    BY <1>11 DEF P!Report
  <2>2. /\ at = "chunks" /\ parser_line' = parser_line
        /\ chunk' = chunk + 1 /\ width' = width /\ bitset' = bitset
        /\ at' \in {"chunks", "annotations", "end of line"}
    BY <1>11 DEF P!Report, P!AfterChunks
  <2>3. width \in Int /\ Len(bitset) \in Nat /\ parser_line = 1
    BY <2>2 DEF IInv, Parsing
  <2>4. P!Call(bits).start_bit \in Int /\ P!Call(bits).width \in Int
    <3>0. P!line = l
      BY <1>3, <2>2
    <3>1. ValueBits \in Int /\ P!MinBit(P!line) \in Int
      BY <1>2, <3>0, ValueBitsType
    <3>2. P!MinBit(P!line) + (chunk - 1) * ValueBits \in Int
      BY <1>5, <3>1
    <3>3. P!ValueWidth(chunk) \in Int
      BY <2>3, <3>1 DEF P!ValueWidth
    <3>4. QED
      BY <3>2, <3>3 DEF P!Call
  <2>5. calls' \in Seq(ToSet(calls'))
    BY <1>5, <2>1, AppendElements
  <2>6. Parsing'
    <3>0. chunk' = chunk + 1 /\ chunk \in Int
      BY <1>5, <2>2
    <3>1. chunk' \in Int
      BY <3>0
    <3>2. QED
      BY <1>1, <2>2, <2>3, <2>5, <3>1 DEF Parsing, l
  <2>7. QED
    BY <2>1, <2>4, <2>6
<1>12. QED
  BY <1>6, <1>7, <1>8, <1>9, <1>10, <1>11 DEF P!Next

-----------------------------------------------------------------------------
LEMMA NoElements == <<>> \in Seq(ToSet(<<>>)) /\ ToSet(<<>>) = {} /\ DOMAIN <<>> = {}
<1>1. DOMAIN <<>> = {}
  OBVIOUS
<1>2. ToSet(<<>>) = {}
  BY <1>1 DEF ToSet
<1>3. QED
  BY <1>1, <1>2

LEMMA InitInvariant == Init => IInv
<1> SUFFICES ASSUME Init PROVE IInv
  OBVIOUS
<1>1. Types
  BY NoElements DEF Init, Types, Reading
<1>2. Parsing
  BY DEF Init, Parsing
<1>3. Collected
  <2>1. DesignFeatures = {}
    BY DEF Init, DesignFeatures
  <2>2. QED
    BY <2>1 DEF Init, Collected
<1>4. Origin
  BY DEF Init, Origin, Reading
<1>5. SetUp
  BY NoElements DEF Init, SetUp, Reading
<1>6. Accepted
  BY NoElements DEF Init, Accepted
<1>7. QED
  BY <1>1, <1>2, <1>3, <1>4, <1>5, <1>6 DEF IInv

LEMMA SameDesign ==
  ASSUME UNCHANGED <<design, line_number>>
  PROVE  DesignFeatures' = DesignFeatures
  BY DEF DesignFeatures

(* While bits are set, the lines and features stay.                        *)
LEMMA FeaturesStay ==
  ASSUME IInv, step = "bits", UNCHANGED <<lineVars, features>>,
         step' \in Final \cup {"bits"}
  PROVE  Parsing' /\ Collected' /\ Origin' /\ Accepted'
<1>1. /\ design' = design /\ line_number' = line_number
      /\ features' = features
  BY DEF lineVars
<1>2. DesignFeatures' = DesignFeatures
  BY <1>1, SameDesign
<1>3. step' # "parse" /\ step' \notin Reading \cup {"open", "pudcb"}
  BY DEF Final, Reading
<1>4. Parsing'
  BY <1>3 DEF Parsing
<1>5. Collected'
  BY <1>1, <1>2, <1>3 DEF IInv, Collected
<1>6. Origin'
  <2>1. \A f \in ToSet(features) : SteppedRightly(f)
    BY DEF IInv, Origin
  <2>2. \A f : SteppedRightly(f)' <=> SteppedRightly(f)
    BY <1>2 DEF SteppedRightly
  <2>3. QED
    BY <1>1, <1>3, <2>1, <2>2 DEF Origin
<1>7. Accepted'
  BY <1>1 DEF IInv, Accepted
<1>8. QED
  BY <1>4, <1>5, <1>6, <1>7

LEMMA TypesStay ==
  ASSUME IInv, UNCHANGED <<lineVars, features>>,
         step' \in Final \cup {"open", "pudcb", "bits"} \cup Reading,
         current' \in Nat \ {0}, addr' \in Nat
  PROVE  Types'
  BY DEF IInv, Types, lineVars

(* What has been read stays.                                               *)
LEMMA PlacesStay ==
  ASSUME segment_bits_cache \subseteq segment_bits_cache', NEW f, NEW k, IsPlace(f, k)
  PROVE  IsPlace(f, k)'
  BY DEF IsPlace

LEMMA FeatureTypes ==
  ASSUME IInv, NEW i \in DOMAIN features
  PROVE  /\ IsFeature(features[i])
         /\ Len(features) \in Nat /\ DOMAIN features = 1 .. Len(features)
         /\ features[i] \in ToSet(features)
<1>1. features \in Seq(ToSet(features)) /\ \A f \in ToSet(features) : IsFeature(f)
  BY DEF IInv, Types
<1>2. Len(features) \in Nat /\ DOMAIN features = 1 .. Len(features)
  BY <1>1, LenProperties
<1>3. features[i] \in ToSet(features)
  BY DEF ToSet
<1>4. QED
  BY <1>1, <1>2, <1>3

(* To the next bit, which has been set or needs none.                      *)
LEMMA NextBit ==
  ASSUME IInv, IsAtBit, UNCHANGED <<lineVars, step, features, current>>,
         addr' = addr + 1,
         segment_bits_cache \subseteq segment_bits_cache',
         NEW f, f = feature, NEW n, n = addr, n \in f.bits => IsPlace(f, n)'
  PROVE  IInv'
<1>1. step = "bits" /\ step' = "bits" /\ addr < feature.width
  BY DEF IsAtBit
<1>2. addr \in Nat /\ current \in Nat \ {0}
  BY DEF IInv, Types
<1>3. Parsing' /\ Collected' /\ Origin' /\ Accepted'
  BY <1>1, FeaturesStay
<1>4. Types'
  BY <1>1, <1>2, TypesStay
<1>5. SetUp'
  <2>0. features' = features /\ current' = current /\ addr' = addr + 1
    OBVIOUS
  <2>1. ASSUME NEW i \in DOMAIN features, NEW k \in features[i].bits,
               k < features[i].width, IsBefore(i, k)'
        PROVE  IsPlace(features[i], k)'
    <3>1. k \in Int
      BY FeatureTypes, ValueBitsType DEF IsFeature
    <3>2. IsBefore(i, k) \/ (i = current /\ k = addr)
      <4>1. i < current \/ (i = current /\ k < addr + 1)
        BY <2>1, <2>0 DEF IsBefore
      <4>2. k < addr + 1 => k < addr \/ k = addr
        BY <1>2, <3>1
      <4>3. QED
        BY <4>1, <4>2 DEF IsBefore
    <3>3. CASE IsBefore(i, k)
      <4>1. IsPlace(features[i], k)
        BY <2>1, <3>3 DEF IInv, SetUp
      <4>2. QED
        BY <4>1, PlacesStay
    <3>4. CASE i = current /\ k = addr
      <4>1. features[i] = f /\ k = n /\ n \in f.bits
        BY <2>1, <3>4 DEF feature
      <4>2. QED
        BY <4>1
    <3>5. QED
      BY <3>2, <3>3, <3>4
  <2>2. features' = features /\ current' = current
    OBVIOUS
  <2>3. QED
    BY <1>1, <2>1, <2>2 DEF SetUp, Reading
<1>6. QED
  BY <1>3, <1>4, <1>5 DEF IInv

LEMMA CurrentFeature ==
  ASSUME IInv, IsAtBit
  PROVE  current \in DOMAIN features /\ IsFeature(feature)
<1>1. /\ current \in Nat \ {0} /\ current <= Len(features)
      /\ features \in Seq(ToSet(features))
  BY DEF IsAtBit, IInv, Types
<1>2. current \in DOMAIN features
  BY <1>1, LenProperties
<1>3. QED
  BY <1>2, FeatureTypes DEF feature

LEMMA SkippedIsClear ==
  ASSUME IInv, SkipBit
  PROVE  addr \notin feature.bits
<1>1. IsAtBit /\ FALSE \in BitValues
  BY DEF SkipBit
<1>2. feature.bits \subseteq 0 .. ValueBits - 1
  BY <1>1, CurrentFeature DEF IsFeature
<1>3. addr \in Nat
  BY DEF IInv, Types
<1>4. addr \in feature.bits => addr < ValueBits
  BY <1>2, <1>3, ValueBitsType
<1>5. QED
  BY <1>1, <1>4 DEF BitValues

LEMMA SkipBitStep == IInv /\ SkipBit => IInv'
<1> SUFFICES ASSUME IInv, SkipBit PROVE IInv'
  OBVIOUS
<1>1. /\ IsAtBit /\ addr' = addr + 1
      /\ UNCHANGED <<lineVars, step, features, current>>
      /\ segment_bits_cache' = segment_bits_cache
  BY DEF SkipBit, databaseVars
<1>2. PICK f, n : f = feature /\ n = addr
  OBVIOUS
<1>3. n \notin f.bits
  BY <1>2, SkippedIsClear
<1>4. QED
  BY <1>1, <1>2, <1>3, NextBit

LEMMA SetBitStep == IInv /\ SetBit => IInv'
<1> SUFFICES ASSUME IInv, SetBit PROVE IInv'
  OBVIOUS
<1>1. /\ IsAtBit /\ addr' = addr + 1 /\ Tile \in DOMAIN Grid
      /\ UNCHANGED <<lineVars, step, features, current>>
  BY DEF SetBit
<1>2. PICK resolved \in Resolutions(Tile, Tail(feature.name)) :
        ConfigBits(Tile, resolved, addr + feature.start_bit)
  BY DEF SetBit
<1>3. /\ segment_bits_cache \subseteq segment_bits_cache'
      /\ resolved.type \in segment_bits_cache'
      /\ Has(Tile, resolved, addr + feature.start_bit)
  BY <1>2 DEF ConfigBits, AddSegbitsToCache
<1>4. addr + feature.start_bit = feature.start_bit + addr
  <2>1. feature.start_bit \in Int
    BY <1>1, CurrentFeature DEF IsFeature
  <2>2. addr \in Nat
    BY DEF IInv, Types
  <2>3. QED
    BY <2>1, <2>2
<1>5. PICK f, n : f = feature /\ n = addr
  OBVIOUS
<1>6. IsPlace(f, n)'
  <2>1. Tile = f.name[1]
    BY <1>5 DEF Tile
  <2>2. /\ f.name[1] \in DOMAIN Grid
        /\ resolved \in Resolutions(f.name[1], Tail(f.name))
        /\ Has(f.name[1], resolved, f.start_bit + n)
    BY <1>1, <1>2, <1>3, <1>4, <1>5, <2>1
  <2>3. QED
    BY <1>3, <2>2 DEF IsPlace
<1>7. QED
  BY <1>1, <1>3, <1>5, <1>6, NextBit

LEMMA MarkFramesStep == IInv /\ MarkFrames => IInv'
<1> SUFFICES ASSUME IInv, MarkFrames PROVE IInv'
  OBVIOUS
<1>1. /\ step = "bits" /\ step' = step /\ current <= Len(features)
      /\ addr >= feature.width /\ current' = current + 1 /\ addr' = 0
      /\ UNCHANGED <<lineVars, features>>
      /\ features' = features /\ segment_bits_cache' = segment_bits_cache
  BY DEF MarkFrames, databaseVars
<1>2. addr \in Nat /\ current \in Nat \ {0}
  BY DEF IInv, Types
<1>3. Parsing' /\ Collected' /\ Origin' /\ Accepted'
  BY <1>1, FeaturesStay
<1>4. Types'
  <2>1. current' \in Nat \ {0} /\ addr' \in Nat
    BY <1>1, <1>2
  <2>2. QED
    BY <1>1, <2>1, TypesStay
<1>5. SetUp'
  <2>1. ASSUME NEW i \in DOMAIN features, NEW k \in features[i].bits,
               k < features[i].width, i < current + 1 \/ (i = current + 1 /\ k < 0)
        PROVE  IsPlace(features[i], k)'
    <3>1. k \in Nat /\ i \in Nat /\ features[i].width \in Int
      BY FeatureTypes, ValueBitsType DEF IsFeature
    <3>2. i < current \/ i = current
      BY <1>2, <2>1, <3>1
    <3>3. i = current => k < addr
      BY <1>1, <1>2, <2>1, <3>1 DEF feature
    <3>4. IsBefore(i, k)
      BY <3>2, <3>3 DEF IsBefore
    <3>5. IsPlace(features[i], k)
      BY <2>1, <3>4 DEF IInv, SetUp
    <3>6. QED
      BY <1>1, <3>5, PlacesStay
  <2>2. \A i, k : IsBefore(i, k)' <=> (i < current + 1 \/ (i = current + 1 /\ k < 0))
    BY <1>1 DEF IsBefore
  <2>3. QED
    BY <1>1, <2>1, <2>2 DEF SetUp, Reading
<1>6. QED
  BY <1>3, <1>4, <1>5 DEF IInv

(* The program ends.                                                       *)
LEMMA EndingStep ==
  ASSUME IInv, step = "bits", UNCHANGED <<lineVars, features, current, addr>>,
         step' \in Final, step' = "written" => current > Len(features),
         segment_bits_cache \subseteq segment_bits_cache'
  PROVE  IInv'
<1>1. Parsing' /\ Collected' /\ Origin' /\ Accepted'
  BY FeaturesStay
<1>2. Types'
  <2>1. current' \in Nat \ {0} /\ addr' \in Nat
    BY DEF IInv, Types
  <2>2. QED
    BY <2>1, TypesStay
<1>3. SetUp'
  <2>1. features' = features /\ current' = current /\ addr' = addr
    OBVIOUS
  <2>2. ASSUME NEW i \in DOMAIN features, NEW k \in features[i].bits,
               k < features[i].width, IsBefore(i, k)
        PROVE  IsPlace(features[i], k)'
    <3>1. IsPlace(features[i], k)
      BY <2>2 DEF IInv, SetUp
    <3>2. QED
      BY <3>1, PlacesStay
  <2>3. \A i, k : IsBefore(i, k)' <=> IsBefore(i, k)
    BY <2>1 DEF IsBefore
  <2>4. step' \notin Reading \cup {"open", "pudcb"}
    BY DEF Final, Reading
  <2>5. QED
    BY <2>1, <2>2, <2>3, <2>4 DEF SetUp
<1>4. QED
  BY <1>1, <1>2, <1>3 DEF IInv

LEMMA EndingSteps ==
  IInv /\ (CannotSplit \/ SetBitBeyond \/ SetBitDies \/ Encode) => IInv'
<1>1. ASSUME IInv, CannotSplit \/ Encode PROVE IInv'
  <2>1. /\ step = "bits" /\ UNCHANGED <<lineVars, features, current, addr>>
        /\ step' \in Final /\ (step' = "written" => current > Len(features))
        /\ segment_bits_cache' = segment_bits_cache
    BY <1>1 DEF CannotSplit, Encode, cursor, databaseVars, Final
  <2>2. QED
    BY <1>1, <2>1, EndingStep
<1>2. ASSUME IInv, SetBitDies PROVE IInv'
  <2>1. /\ step = "bits" /\ UNCHANGED <<lineVars, features, current, addr>>
        /\ step' \in Final /\ step' # "written"
    BY <1>2 DEF SetBitDies, IsAtBit, cursor, Final
  <2>2. segment_bits_cache \subseteq segment_bits_cache'
    BY <1>2 DEF SetBitDies, ConfigBitsDies, AddSegbitsToCache, databaseVars
  <2>3. QED
    BY <1>2, <2>1, <2>2, EndingStep
<1>3. ASSUME IInv, SetBitBeyond PROVE IInv'
  <2>1. /\ step = "bits" /\ UNCHANGED <<lineVars, features, current, addr>>
        /\ step' \in Final /\ step' # "written"
    BY <1>3 DEF SetBitBeyond, IsAtBit, cursor, Final
  <2>2. segment_bits_cache \subseteq segment_bits_cache'
    BY <1>3 DEF SetBitBeyond, ConfigBits, AddSegbitsToCache
  <2>3. QED
    BY <1>3, <2>1, <2>2, EndingStep
<1>4. QED
  BY <1>1, <1>2, <1>3

-----------------------------------------------------------------------------
(* Before bits are set, there is no bit to account for.                    *)
LEMMA NothingSetUp ==
  ASSUME IInv, step \in Reading \cup {"open", "pudcb"},
         UNCHANGED <<current, addr>>, Types', step' # "written"
  PROVE  SetUp'
<1>1. current' = 1 /\ addr' = 0
  BY DEF IInv, SetUp
<1>2. ASSUME NEW i \in DOMAIN features', NEW k \in features'[i].bits
      PROVE  ~ IsBefore(i, k)'
  <2>1. /\ features' \in Seq(ToSet(features'))
        /\ \A f \in ToSet(features') : IsFeature(f)
    BY DEF Types
  <2>2. features'[i] \in ToSet(features') /\ i \in Nat \ {0}
    BY <2>1, LenProperties DEF ToSet
  <2>3. k \in Nat
    BY <2>1, <2>2, ValueBitsType DEF IsFeature
  <2>4. ~ (i < 1) /\ ~ (k < 0)
    BY <2>2, <2>3
  <2>5. QED
    BY <1>1, <2>4 DEF IsBefore
<1>3. QED
  BY <1>1, <1>2 DEF SetUp

LEMMA AcceptedStays ==
  ASSUME IInv, step # "failed", design' = design
  PROVE  Accepted'
  BY DEF IInv, Accepted

LEMMA OpenDatabaseStep == IInv /\ OpenDatabase => IInv'
<1> SUFFICES ASSUME IInv, OpenDatabase PROVE IInv'
  OBVIOUS
<1>1. /\ step = "open" /\ step' \in {"pudcb", "failed", "died"}
      /\ UNCHANGED <<lineVars, features, current, addr>>
      /\ design' = design /\ line_number' = line_number /\ features' = features
  BY DEF OpenDatabase, cursor, lineVars
<1>2. Types'
  <2>1. current' \in Nat \ {0} /\ addr' \in Nat
    BY <1>1 DEF IInv, Types
  <2>2. step' \in Final \cup {"open", "pudcb", "bits"} \cup Reading
    BY <1>1 DEF Final
  <2>3. QED
    BY <1>1, <2>1, <2>2, TypesStay
<1>3. DesignFeatures' = DesignFeatures
  BY <1>1, SameDesign
<1>4. Parsing' /\ Collected'
  BY <1>1, <1>3 DEF IInv, Parsing, Collected
<1>5. Origin'
  <2>1. step' \notin Reading \cup {"bits"}
    BY <1>1 DEF Reading
  <2>2. features = <<>>
    BY <1>1 DEF IInv, Origin
  <2>3. QED
    BY <1>1, <2>1, <2>2 DEF Origin
<1>6. SetUp'
  BY <1>1, <1>2, NothingSetUp
<1>7. Accepted'
  BY <1>1, AcceptedStays
<1>8. QED
  BY <1>2, <1>4, <1>5, <1>6, <1>7 DEF IInv

(* More features, of numbers as they should be.                            *)
LEMMA MoreFeatures ==
  ASSUME IInv, NEW added, added \in Seq(ToSet(added)),
         \A f \in ToSet(added) : IsFeature(f),
         features' = features \o added
  PROVE  /\ ToSet(features') = ToSet(features) \cup ToSet(added)
         /\ features' \in Seq(ToSet(features'))
         /\ \A f \in ToSet(features') : IsFeature(f)
<1>1. features \in Seq(ToSet(features)) /\ \A f \in ToSet(features) : IsFeature(f)
  BY DEF IInv, Types
<1>2. /\ features' \in Seq(ToSet(features'))
      /\ ToSet(features') = ToSet(features) \cup ToSet(added)
  BY <1>1, ConcatElements
<1>3. QED
  BY <1>1, <1>2

LEMMA AddedIsFeature ==
  ASSUME NEW name
  PROVE  IsFeature(AddedFeature(name)) /\ AddedFeature(name).name = name
<1>1. /\ AddedFeature(name).start_bit = 0 /\ AddedFeature(name).width = 1
      /\ AddedFeature(name).bits = {0} /\ AddedFeature(name).name = name
  BY DEF AddedFeature
<1>2. {0} \subseteq 0 .. ValueBits - 1
  BY ValueBitsType
<1>3. QED
  BY <1>1, <1>2 DEF IsFeature

LEMMA PudcbNames ==
  ASSUME NEW added \in PudcbAdditions
  PROVE  /\ added \in Seq(ToSet(added))
         /\ \A f \in ToSet(added) : IsFeature(f) /\ Len(f.name) = 4
<1>1. CASE added = <<>>
  BY <1>1, NoElements
<1>2. CASE added # <<>>
  <2>1. PICK tile, site : added = PudcbFeatures(tile, site)
    BY <1>2 DEF PudcbAdditions
  <2> DEFINE n1 == <<tile, site, "LVCMOS12_LVCMOS15_LVCMOS18", "IN_ONLY">>
             n2 == <<tile, site, "LVCMOS25_LVCMOS33_LVTTL", "IN">>
             n3 == <<tile, site, "PULLTYPE", "PULLUP">>
             S == {AddedFeature(n1), AddedFeature(n2), AddedFeature(n3)}
  <2>2. Len(n1) = 4 /\ Len(n2) = 4 /\ Len(n3) = 4
    OBVIOUS
  <2>3. added = <<AddedFeature(n1), AddedFeature(n2), AddedFeature(n3)>>
    BY <2>1 DEF PudcbFeatures
  <2> HIDE DEF n1, n2, n3
  <2>4. added \in Seq(S) /\ added \in [1 .. 3 -> S]
    BY <2>3
  <2>5. ToSet(added) \subseteq S
    BY <2>4 DEF ToSet
  <2>6. \A f \in S : IsFeature(f) /\ Len(f.name) = 4
    BY <2>2, AddedIsFeature
  <2>7. added \in Seq(ToSet(added))
    BY <2>4, SeqOfOwn
  <2>8. QED
    BY <2>5, <2>6, <2>7
<1>3. QED
  BY <1>1, <1>2

LEMMA AddPUDCBStep == IInv /\ AddPUDCBFeatures => IInv'
<1> SUFFICES ASSUME IInv, AddPUDCBFeatures PROVE IInv'
  OBVIOUS
<1>1. /\ step = "pudcb" /\ step' = "lines"
      /\ UNCHANGED <<lineVars, current, addr>>
      /\ design' = design /\ line_number' = line_number /\ text' = text
  BY DEF AddPUDCBFeatures, cursor, lineVars
<1>2. PICK added \in PudcbAdditions : features' = features \o added
  BY DEF AddPUDCBFeatures
<1>3. /\ added \in Seq(ToSet(added))
      /\ \A f \in ToSet(added) : IsFeature(f) /\ Len(f.name) = 4
  BY PudcbNames
<1>4. /\ ToSet(features') = ToSet(features) \cup ToSet(added)
      /\ features' \in Seq(ToSet(features'))
      /\ \A f \in ToSet(features') : IsFeature(f)
  BY <1>2, <1>3, MoreFeatures
<1>5. Types'
  BY <1>1, <1>4 DEF IInv, Types, Reading
<1>6. DesignFeatures' = DesignFeatures
  BY <1>1, SameDesign
<1>7. Parsing' /\ Collected'
  BY <1>1, <1>4, <1>6 DEF IInv, Parsing, Collected
<1>8. Origin'
  <2>1. ToSet(features) = {}
    BY <1>1, NoElements DEF IInv, Origin
  <2>2. QED
    BY <1>1, <1>3, <1>4, <2>1 DEF Origin
<1>9. SetUp'
  BY <1>1, <1>5, NothingSetUp
<1>10. Accepted'
  BY <1>1, AcceptedStays
<1>11. QED
  BY <1>5, <1>7, <1>8, <1>9, <1>10 DEF IInv

LEMMA GetLineStep == IInv /\ GetLine => IInv'
<1> SUFFICES ASSUME IInv, GetLine PROVE IInv'
  OBVIOUS
<1>1. /\ step = "lines" /\ step' = "parse"
      /\ UNCHANGED <<text, design, line_number, features, current, addr>>
      /\ calls' = <<>> /\ at' = "start" /\ parser_line' = 1 /\ chunk' = 1
      /\ line_number <= Len(text.lines)
  BY DEF GetLine, cursor
<1>2. Types'
  BY <1>1 DEF IInv, Types, Reading
<1>3. DesignFeatures' = DesignFeatures
  BY <1>1, SameDesign
<1>4. Parsing'
  <2>1. line_number \in DOMAIN text.lines
    <3>1. text \in Texts /\ line_number \in Nat \ {0}
      BY DEF IInv, Types
    <3>2. text.lines \in Seq(ToSet(text.lines))
      BY <3>1, AssemblerAssumption
    <3>3. QED
      BY <1>1, <3>1, <3>2, LenProperties
  <2>2. calls' \in Seq(ToSet(calls'))
    BY <1>1, NoElements
  <2>3. QED
    BY <1>1, <2>1, <2>2 DEF Parsing
<1>5. Collected'
  <2>1. ToSet(calls') = {}
    BY <1>1, NoElements
  <2>2. QED
    BY <1>1, <1>3, <2>1 DEF IInv, Collected
<1>6. Origin'
  <2>1. \A f \in ToSet(features) : f \in DesignFeatures \/ Len(f.name) = 4
    BY <1>1 DEF IInv, Origin, Reading, OfLines
  <2>2. QED
    BY <1>1, <1>3, <2>1 DEF Origin, OfLines
<1>7. SetUp'
  BY <1>1, <1>2, NothingSetUp DEF Reading
<1>8. Accepted'
  BY <1>1, AcceptedStays
<1>9. QED
  BY <1>2, <1>4, <1>5, <1>6, <1>7, <1>8 DEF IInv

(* What is called back is added to the features.                           *)
LEMMA CallsAreFeatures ==
  ASSUME IInv, ParseStep
  PROVE  /\ Parsing'
         /\ \E fresh : /\ ToSet(calls') = ToSet(calls) \cup fresh
                       /\ ToSet(features') = ToSet(features) \cup {FeatureOf(c) : c \in fresh}
                       /\ features' \in Seq(ToSet(features'))
                       /\ \A f \in ToSet(features') : IsFeature(f)
<1> DEFINE added == [i \in 1 .. Len(calls') - Len(calls) |-> FeatureOf(calls'[Len(calls) + i])]
<1>1. /\ step = "parse" /\ P!Next /\ UNCHANGED <<text, step, line_number>>
      /\ features' = features \o added
  BY DEF ParseStep
<1>2. /\ Parsing'
      /\ \/ calls' = calls
         \/ \E c : /\ calls' = Append(calls, c)
                   /\ c.start_bit \in Int /\ c.width \in Int
  BY <1>1, ParserSteps
<1>3. calls \in Seq(ToSet(calls)) /\ Len(calls) \in Nat
  <2>1. calls \in Seq(ToSet(calls))
    BY <1>1 DEF IInv, Parsing
  <2>2. QED
    BY <2>1, LenProperties
<1>4. CASE calls' = calls
  <2>1. added = [i \in 1 .. 0 |-> FeatureOf(calls'[Len(calls) + i])]
    BY <1>3, <1>4
  <2>2. added \in [1 .. 0 -> {}] /\ DOMAIN added = 1 .. 0
    BY <2>1
  <2>3. added \in Seq({})
    BY <2>2, FunctionIsSeq
  <2>4. added \in Seq(ToSet(added)) /\ ToSet(added) = {}
    BY <2>2, <2>3, SeqOfOwn DEF ToSet
  <2> HIDE DEF added
  <2>5. /\ ToSet(features') = ToSet(features) \cup {}
        /\ features' \in Seq(ToSet(features'))
        /\ \A f \in ToSet(features') : IsFeature(f)
    BY <1>1, <2>4, MoreFeatures
  <2>6. ToSet(calls') = ToSet(calls) \cup {} /\ {FeatureOf(c) : c \in {}} = {}
    BY <1>4
  <2>7. QED
    BY <1>2, <2>5, <2>6
<1>5. CASE \E c : /\ calls' = Append(calls, c)
                  /\ c.start_bit \in Int /\ c.width \in Int
  <2>1. PICK c : /\ calls' = Append(calls, c)
                 /\ c.start_bit \in Int /\ c.width \in Int
    BY <1>5
  <2>2. /\ ToSet(calls') = ToSet(calls) \cup {c} /\ Len(calls') = Len(calls) + 1
        /\ calls'[Len(calls) + 1] = c
    BY <1>3, <2>1, AppendElements, AppendProperties
  <2>3. added = [i \in 1 .. 1 |-> FeatureOf(calls'[Len(calls) + i])]
    BY <1>3, <2>2
  <2>4. DOMAIN added = {1} /\ DOMAIN added = 1 .. 1 /\ added[1] = FeatureOf(c)
    BY <2>2, <2>3
  <2>5. added \in [1 .. 1 -> {FeatureOf(c)}]
    BY <2>3, <2>4
  <2>6. added \in Seq({FeatureOf(c)})
    BY <2>5, FunctionIsSeq
  <2>7. added \in Seq(ToSet(added)) /\ ToSet(added) = {FeatureOf(c)}
    <3> HIDE DEF added
    <3>1. ToSet(added) = {FeatureOf(c)}
      BY <2>4 DEF ToSet
    <3>2. QED
      BY <2>6, <3>1
  <2>8. IsFeature(FeatureOf(c))
    BY <2>1 DEF IsFeature, FeatureOf
  <2> HIDE DEF added
  <2>9. /\ ToSet(features') = ToSet(features) \cup {FeatureOf(c)}
        /\ features' \in Seq(ToSet(features'))
        /\ \A f \in ToSet(features') : IsFeature(f)
    BY <1>1, <2>7, <2>8, MoreFeatures
  <2>10. {FeatureOf(d) : d \in {c}} = {FeatureOf(c)}
    OBVIOUS
  <2>11. QED
    BY <1>2, <2>2, <2>9, <2>10
<1>6. QED
  BY <1>2, <1>4, <1>5

LEMMA SameFeatureOf ==
  ASSUME UNCHANGED <<text, line_number>>, NEW c
  PROVE  FeatureOf(c)' = FeatureOf(c)
  BY DEF FeatureOf

LEMMA ParseStepStep == IInv /\ ParseStep => IInv'
<1> SUFFICES ASSUME IInv, ParseStep PROVE IInv'
  OBVIOUS
<1>1. /\ step = "parse" /\ step' = "parse"
      /\ UNCHANGED <<text, design, line_number, current, addr>>
  BY DEF ParseStep, cursor
<1>2. PICK fresh :
        /\ ToSet(calls') = ToSet(calls) \cup fresh
        /\ ToSet(features') = ToSet(features) \cup {FeatureOf(c) : c \in fresh}
        /\ features' \in Seq(ToSet(features'))
        /\ \A f \in ToSet(features') : IsFeature(f)
  BY CallsAreFeatures
<1>3. Parsing'
  BY CallsAreFeatures
<1>4. Types'
  BY <1>1, <1>2 DEF IInv, Types, Reading
<1>5. DesignFeatures' = DesignFeatures
  BY <1>1, SameDesign
<1>6. \A c : FeatureOf(c)' = FeatureOf(c)
  BY <1>1, SameFeatureOf
<1>7. Collected'
  <2>1. /\ DesignFeatures \subseteq ToSet(features)
        /\ \A c \in ToSet(calls) : FeatureOf(c) \in ToSet(features)
    BY <1>1 DEF IInv, Collected
  <2>2. \A c \in ToSet(calls') : FeatureOf(c) \in ToSet(features')
    BY <1>2, <2>1
  <2>3. QED
    BY <1>2, <1>5, <1>6, <2>1, <2>2 DEF Collected
<1>8. Origin'
  <2>1. \A f \in ToSet(features) :
          f \in DesignFeatures \/ Len(f.name) = 4 \/ \E c \in ToSet(calls) : f = FeatureOf(c)
    BY <1>1 DEF IInv, Origin, Reading, OfLines
  <2>2. \A f \in ToSet(features') :
          f \in DesignFeatures \/ Len(f.name) = 4 \/ \E c \in ToSet(calls') : f = FeatureOf(c)
    BY <1>2, <2>1
  <2>3. QED
    BY <1>1, <1>5, <1>6, <2>2 DEF Origin, OfLines
<1>9. SetUp'
  BY <1>1, <1>4, NothingSetUp DEF Reading
<1>10. Accepted'
  BY <1>1, AcceptedStays
<1>11. QED
  BY <1>3, <1>4, <1>7, <1>8, <1>9, <1>10 DEF IInv

(* A line is through: what it has set is of the design.                    *)
LEMMA DesignGrows ==
  ASSUME IInv, CheckResult
  PROVE  /\ design' \in Seq(ToSet(design')) /\ Len(design') = line_number' - 1
         /\ DesignFeatures' = DesignFeatures \cup {FeatureOf(c) : c \in ToSet(calls)}
         /\ \A i \in DOMAIN design' :
              design'[i].accepted <=> IF i = line_number THEN IsAccepted ELSE design[i].accepted
         /\ \A i \in DOMAIN design' : i # line_number => i \in DOMAIN design
<1> DEFINE own == [i \in DOMAIN calls |-> FeatureOf(calls[i])]
           last == [features |-> own, accepted |-> IsAccepted]
<1>1. design' = Append(design, last) /\ line_number' = line_number + 1
  BY DEF CheckResult, LineParsed
<1>2. /\ design \in Seq(ToSet(design)) /\ Len(design) = line_number - 1
      /\ line_number \in Nat \ {0} /\ Len(design) \in Nat
      /\ DOMAIN design = 1 .. Len(design)
  <2>1. /\ design \in Seq(ToSet(design)) /\ Len(design) = line_number - 1
        /\ line_number \in Nat \ {0}
    BY DEF IInv, Types
  <2>2. QED
    BY <2>1, LenProperties
<1>3. ToSet(own) = {FeatureOf(c) : c \in ToSet(calls)}
  BY DEF ToSet
<1>4. last.features = own /\ last.accepted = IsAccepted
  OBVIOUS
<1> HIDE DEF last, own
<1>5. design' \in Seq(ToSet(design')) /\ Len(design') = Len(design) + 1
  BY <1>1, <1>2, AppendElements
<1>6. /\ \A i \in 1 .. Len(design) : design'[i] = design[i]
      /\ design'[Len(design) + 1] = last
  <2>1. design \in Seq(ToSet(design) \cup {last})
    BY <1>2, SeqMonotonic
  <2>2. QED
    BY <1>1, <2>1, AppendProperties
<1>7. Len(design') = line_number' - 1 /\ DOMAIN design' = 1 .. line_number
  <2>1. DOMAIN design' = 1 .. Len(design')
    BY <1>5, LenProperties
  <2>2. QED
    BY <1>1, <1>2, <1>5, <2>1
<1>8. 1 .. line_number' - 1 = (1 .. line_number - 1) \cup {line_number}
  BY <1>1, <1>2
<1>9. \A i \in 1 .. line_number - 1 : design'[i] = design[i] /\ i # line_number
  BY <1>2, <1>6
<1>10. design'[line_number] = last
  BY <1>2, <1>6
<1>11. DesignFeatures' = DesignFeatures \cup ToSet(own)
  <2>1. DesignFeatures' = UNION {ToSet(design'[i].features) : i \in 1 .. line_number' - 1}
    BY DEF DesignFeatures
  <2>2. QED
    BY <1>4, <1>8, <1>9, <1>10, <2>1 DEF DesignFeatures
<1>12. \A i \in DOMAIN design' : i = line_number \/ i \in 1 .. line_number - 1
  BY <1>2, <1>7
<1>13. \A i \in DOMAIN design' :
         design'[i].accepted <=> IF i = line_number THEN IsAccepted ELSE design[i].accepted
  BY <1>4, <1>9, <1>10, <1>12
<1>14. \A i \in DOMAIN design' : i # line_number => i \in DOMAIN design
  BY <1>2, <1>12
<1>15. QED
  BY <1>3, <1>5, <1>7, <1>11, <1>13, <1>14

LEMMA CheckResultStep == IInv /\ CheckResult => IInv'
<1> SUFFICES ASSUME IInv, CheckResult PROVE IInv'
  OBVIOUS
<1>1. /\ step = "parse" /\ step' = IF IsAccepted THEN "lines" ELSE "failed"
      /\ UNCHANGED <<text, features, current, addr>>
      /\ line_number' = line_number + 1
  BY DEF CheckResult, LineParsed, cursor
<1>2. step' \in {"lines", "failed"} /\ (step' # "failed" => IsAccepted)
  BY <1>1
<1>3. /\ design' \in Seq(ToSet(design')) /\ Len(design') = line_number' - 1
      /\ DesignFeatures' = DesignFeatures \cup {FeatureOf(c) : c \in ToSet(calls)}
  BY DesignGrows
<1>4. Types'
  <2>1. line_number' \in Nat \ {0}
    BY <1>1 DEF IInv, Types
  <2>2. QED
    BY <1>1, <1>2, <1>3, <2>1 DEF IInv, Types, Reading, Final
<1>5. Parsing'
  BY <1>2 DEF Parsing
<1>6. Collected'
  BY <1>1, <1>2, <1>3 DEF IInv, Collected
<1>7. Origin'
  <2>1. \A f \in ToSet(features) : f \in DesignFeatures' \/ Len(f.name) = 4
    BY <1>1, <1>3 DEF IInv, Origin, Reading, OfLines
  <2>2. QED
    BY <1>1, <1>2, <2>1 DEF Origin, OfLines
<1>8. SetUp'
  BY <1>1, <1>2, <1>4, NothingSetUp DEF Reading
<1>9. Accepted'
  <2>1. \A i \in DOMAIN design : design[i].accepted
    BY <1>1 DEF IInv, Accepted
  <2>2. ASSUME step' # "failed", NEW i \in DOMAIN design' PROVE design'[i].accepted
    <3>1. design'[i].accepted <=> IF i = line_number THEN IsAccepted ELSE design[i].accepted
      BY DesignGrows
    <3>2. i # line_number => i \in DOMAIN design
      BY DesignGrows
    <3>3. QED
      BY <1>2, <2>1, <2>2, <3>1, <3>2
  <2>3. QED
    BY <2>2 DEF Accepted
<1>10. QED
  BY <1>4, <1>5, <1>6, <1>7, <1>8, <1>9 DEF IInv

LEMMA EndOfLinesStep == IInv /\ EndOfLines => IInv'
<1> SUFFICES ASSUME IInv, EndOfLines PROVE IInv'
  OBVIOUS
<1>1. /\ step = "lines" /\ step' = "stepdown"
      /\ UNCHANGED <<lineVars, features, current, addr>>
      /\ design' = design /\ line_number' = line_number /\ features' = features
  BY DEF EndOfLines, cursor, lineVars
<1>2. Types'
  <2>1. current' \in Nat \ {0} /\ addr' \in Nat
    BY <1>1 DEF IInv, Types
  <2>2. QED
    BY <1>1, <2>1, TypesStay DEF Reading
<1>3. DesignFeatures' = DesignFeatures
  BY <1>1, SameDesign
<1>4. Parsing' /\ Collected'
  BY <1>1, <1>3 DEF IInv, Parsing, Collected
<1>5. Origin'
  <2>1. \A f \in ToSet(features) : f \in DesignFeatures \/ Len(f.name) = 4
    BY <1>1 DEF IInv, Origin, Reading, OfLines
  <2>2. QED
    BY <1>1, <1>3, <2>1 DEF Origin, OfLines
<1>6. SetUp'
  BY <1>1, <1>2, NothingSetUp DEF Reading
<1>7. Accepted'
  BY <1>1, AcceptedStays
<1>8. QED
  BY <1>2, <1>4, <1>5, <1>6, <1>7 DEF IInv

-----------------------------------------------------------------------------
(* What STEPDOWN adds.                                                     *)

BothSites == {"IOB_Y0", "IOB_Y1"}

(* The names of a site that is not used yet, and of a HCLK tile.           *)
IsSiteName(name) ==
  \E tile \in Iob33, site \in BothSites, tag \in StepDownTags :
    name = <<tile, site, tag>> /\ <<tile, site>> \notin UsedIobSites

IsClockName(name) == \E tile \in HclkIoi3 : name = <<tile, "STEPDOWN">>

LEMMA AppendToPair == \A a, b, c : Append(<<a, b>>, c) = <<a, b, c>>
<1> TAKE a, b, c
<1> DEFINE S == {a, b, c}
           s == <<a, b>>
           t == Append(s, c)
           u == <<a, b, c>>
<1>0. s \in Seq(S) /\ c \in S
  OBVIOUS
<1>1. Len(s) = 2 /\ s[1] = a /\ s[2] = b
  OBVIOUS
<1>2. u \in Seq(S) /\ Len(u) = 3 /\ u[1] = a /\ u[2] = b /\ u[3] = c
  OBVIOUS
<1> HIDE DEF s, u, S
<1>3. /\ t \in Seq(S) /\ Len(t) = 3 /\ t[3] = c
      /\ \A i \in 1 .. 2 : t[i] = s[i]
  <2>1. /\ t \in Seq(S) /\ Len(t) = Len(s) + 1 /\ t[Len(s) + 1] = c
        /\ \A i \in 1 .. Len(s) : t[i] = s[i]
    BY <1>0, AppendProperties
  <2> HIDE DEF t
  <2>2. QED
    BY <1>1, <2>1
<1>4. t[1] = a /\ t[2] = b
  BY <1>1, <1>3
<1> HIDE DEF t
<1>5. \A i \in 1 .. 3 : t[i] = u[i]
  <2>1. \A i \in 1 .. 3 : i = 1 \/ i = 2 \/ i = 3
    OBVIOUS
  <2>2. QED
    BY <1>2, <1>3, <1>4, <2>1
<1>6. t = u
  BY <1>2, <1>3, <1>5, SeqEqual
<1>7. QED
  BY <1>6 DEF t, s, u

LEMMA SteppedNames ==
  ASSUME NEW bank, NEW tag \in StepDownTags, NEW name \in StepDownNames(bank, tag)
  PROVE  IsSiteName(name) \/ IsClockName(name)
<1> DEFINE sites == UNION {{<<tile, IobSite(y)>> : y \in Grid[tile].sites}
                           : tile \in Iob33 \cap Tiles(bank)}
<1>1. \/ \E site \in sites \ UsedIobSites : name = Append(site, tag)
      \/ \E tile \in HclkIoi3 \cap Tiles(bank) : name = <<tile, "STEPDOWN">>
  BY DEF StepDownNames
<1>2. ASSUME NEW site \in sites \ UsedIobSites, name = Append(site, tag)
      PROVE  IsSiteName(name)
  <2>0. PICK tile \in Iob33 : \E y : site = <<tile, IobSite(y)>>
    BY <1>2
  <2>1. PICK y : site = <<tile, IobSite(y)>>
    BY <2>0
  <2>2. IobSite(y) \in BothSites
    BY DEF IobSite, BothSites
  <2>3. name = <<tile, IobSite(y), tag>> /\ <<tile, IobSite(y)>> \notin UsedIobSites
    BY <1>2, <2>1, AppendToPair
  <2>4. QED
    BY <2>2, <2>3 DEF IsSiteName
<1>3. QED
  BY <1>1, <1>2 DEF IsClockName

PossibleNames ==
  {<<p[1], p[2][1], p[2][2]>> : p \in Iob33 \X (BothSites \X StepDownTags)}
    \cup {<<tile, "STEPDOWN">> : tile \in HclkIoi3}

LEMMA PossibleNamesFinite == IsFiniteSet(PossibleNames)
<1>1. IsFiniteSet(Iob33) /\ IsFiniteSet(HclkIoi3) /\ IsFiniteSet(StepDownTags)
  BY AssemblerAssumption
<1>2. IsFiniteSet(BothSites)
  <2>1. BothSites = {"IOB_Y0"} \cup {"IOB_Y1"}
    BY DEF BothSites
  <2>2. QED
    BY <2>1, FS_Singleton, FS_Union
<1> DEFINE D == Iob33 \X (BothSites \X StepDownTags)
           A == {<<p[1], p[2][1], p[2][2]>> : p \in D}
           B == {<<tile, "STEPDOWN">> : tile \in HclkIoi3}
           f == [p \in D |-> <<p[1], p[2][1], p[2][2]>>]
           g == [tile \in HclkIoi3 |-> <<tile, "STEPDOWN">>]
<1>3. IsFiniteSet(D)
  BY <1>1, <1>2, FS_Product
<1>4. f \in Surjection(D, A)
  <2> HIDE DEF D
  <2>1. QED
    BY DEF Surjection
<1>5. g \in Surjection(HclkIoi3, B)
  BY DEF Surjection
<1>6. IsFiniteSet(A) /\ IsFiniteSet(B)
  <2> HIDE DEF D, A, B, f, g
  <2>1. QED
    BY <1>1, <1>3, <1>4, <1>5, FS_Surjection
<1>7. QED
  BY <1>6, FS_Union DEF PossibleNames

(* The names that are added, in one of their orders.                       *)
LEMMA SteppedFeatures ==
  ASSUME NEW names, names \subseteq PossibleNames, NEW order \in SetToSeqs(names)
  PROVE  LET added == [i \in DOMAIN order |-> AddedFeature(order[i])]
         IN /\ added \in Seq(ToSet(added))
            /\ \A f \in ToSet(added) : IsFeature(f) /\ f.name \in names
<1> DEFINE n == Cardinality(names)
           added == [i \in DOMAIN order |-> AddedFeature(order[i])]
<1>1. n \in Nat
  BY PossibleNamesFinite, FS_Subset, FS_CardinalityType
<1> HIDE DEF n
<1>2. order \in [1 .. n -> names]
  BY DEF SetToSeqs, n
<1>3. DOMAIN order = 1 .. n /\ \A i \in 1 .. n : order[i] \in names
  BY <1>2
<1>4. added = [i \in 1 .. n |-> AddedFeature(order[i])]
  BY <1>3
<1>5. added \in [1 .. n -> {AddedFeature(name) : name \in names}]
  BY <1>3, <1>4
<1>6. added \in Seq(ToSet(added))
  BY <1>1, <1>5, FunctionIsSeq, SeqOfOwn
<1>7. ToSet(added) \subseteq {AddedFeature(name) : name \in names}
  BY <1>3, <1>4 DEF ToSet
<1>8. QED
  BY <1>6, <1>7, AddedIsFeature

LEMMA StepDownStep == IInv /\ AddStepDownFeatures => IInv'
<1> SUFFICES ASSUME IInv, AddStepDownFeatures PROVE IInv'
  OBVIOUS
<1>1. /\ step = "stepdown" /\ step' \in {"died", "bits"}
      /\ UNCHANGED <<lineVars, current, addr>>
      /\ design' = design /\ line_number' = line_number /\ text' = text
  BY DEF AddStepDownFeatures, cursor, lineVars
<1> DEFINE Added(bank) == UNION {StepDownNames(bank[f.name[1]], f.name[3]) : f \in StepDowns}
<1>2. \/ step' = "died" /\ features' = features
      \/ \E bank : \E order \in SetToSeqs(Added(bank)) :
           features' = features \o [i \in DOMAIN order |-> AddedFeature(order[i])]
  BY DEF AddStepDownFeatures
<1>3. \A f \in ToSet(features) : f \in DesignFeatures \/ Len(f.name) = 4
  BY <1>1 DEF IInv, Origin, Reading, OfLines
<1>4. DesignFeatures' = DesignFeatures
  BY <1>1, SameDesign
<1>5. ASSUME /\ features' \in Seq(ToSet(features'))
             /\ \A f \in ToSet(features') : IsFeature(f)
             /\ ToSet(features) \subseteq ToSet(features')
             /\ step' = "bits" => \A f \in ToSet(features') : SteppedRightly(f)
      PROVE  IInv'
  <2>1. Types'
    BY <1>1, <1>5 DEF IInv, Types, Final
  <2>2. Parsing' /\ Collected'
    BY <1>1, <1>4, <1>5 DEF IInv, Parsing, Collected
  <2>3. Origin'
    <3>1. \A f : SteppedRightly(f)' <=> SteppedRightly(f)
      BY <1>4 DEF SteppedRightly
    <3>2. QED
      BY <1>1, <1>5, <3>1 DEF Origin, Reading
  <2>4. SetUp'
    BY <1>1, <2>1, NothingSetUp DEF Reading
  <2>5. Accepted'
    BY <1>1, AcceptedStays
  <2>6. QED
    BY <2>1, <2>2, <2>3, <2>4, <2>5 DEF IInv
<1>6. CASE step' = "died" /\ features' = features
  BY <1>5, <1>6 DEF IInv, Types
<1>7. ASSUME NEW bank, NEW order \in SetToSeqs(Added(bank)),
             features' = features \o [i \in DOMAIN order |-> AddedFeature(order[i])]
      PROVE  IInv'
  <2> DEFINE added == [i \in DOMAIN order |-> AddedFeature(order[i])]
  <2>1. \A name \in Added(bank) : IsSiteName(name) \/ IsClockName(name)
    <3>1. SUFFICES ASSUME NEW f \in StepDowns, NEW name \in StepDownNames(bank[f.name[1]], f.name[3])
                   PROVE  IsSiteName(name) \/ IsClockName(name)
      OBVIOUS
    <3>2. f.name[3] \in StepDownTags
      BY DEF StepDowns
    <3>3. QED
      BY <3>2, SteppedNames
  <2>2. Added(bank) \subseteq PossibleNames
    <3> HIDE DEF Added
    <3>1. ASSUME NEW tile \in Iob33, NEW site \in BothSites, NEW tag \in StepDownTags
          PROVE  <<tile, site, tag>> \in PossibleNames
      <4> DEFINE p == <<tile, <<site, tag>>>>
      <4>1. p \in Iob33 \X (BothSites \X StepDownTags)
        OBVIOUS
      <4>2. <<p[1], p[2][1], p[2][2]>> = <<tile, site, tag>>
        OBVIOUS
      <4> HIDE DEF p
      <4>3. QED
        BY <4>1, <4>2 DEF PossibleNames
    <3>2. \A tile \in HclkIoi3 : <<tile, "STEPDOWN">> \in PossibleNames
      BY DEF PossibleNames
    <3>3. \A name : IsSiteName(name) => name \in PossibleNames
      BY <3>1 DEF IsSiteName
    <3>4. \A name : IsClockName(name) => name \in PossibleNames
      BY <3>2 DEF IsClockName
    <3>5. QED
      BY <2>1, <3>3, <3>4
  <2> HIDE DEF Added
  <2>3. /\ added \in Seq(ToSet(added))
        /\ \A f \in ToSet(added) : IsFeature(f) /\ f.name \in Added(bank)
    BY <1>7, <2>2, SteppedFeatures
  <2> HIDE DEF added
  <2>4. /\ ToSet(features') = ToSet(features) \cup ToSet(added)
        /\ features' \in Seq(ToSet(features'))
        /\ \A f \in ToSet(features') : IsFeature(f)
    BY <1>7, <2>3, MoreFeatures DEF added
  <2>5. ASSUME NEW f \in ToSet(features) PROVE SteppedRightly(f)
    BY <1>3 DEF SteppedRightly
  <2>6. ASSUME NEW f \in ToSet(added) PROVE SteppedRightly(f)
    <3>1. SUFFICES ASSUME Len(f.name) = 3, f.name[1] \in Iob33, NEW g \in DesignFeatures,
                          g.bits # {}, Mentions(f.name, g.name)
                   PROVE  FALSE
      BY DEF SteppedRightly
    <3>2. PICK tile \in Iob33, site \in BothSites, tag \in StepDownTags :
            f.name = <<tile, site, tag>> /\ <<tile, site>> \notin UsedIobSites
      <4>1. \A tile : Len(<<tile, "STEPDOWN">>) = 2
        OBVIOUS
      <4>2. ~ IsClockName(f.name)
        BY <3>1, <4>1 DEF IsClockName
      <4>3. IsSiteName(f.name)
        BY <2>1, <2>3, <4>2
      <4>4. QED
        BY <4>3 DEF IsSiteName
    <3>3. f.name[1] = tile /\ f.name[2] = site
      BY <3>2
    <3>4. Len(g.name) >= 3 /\ g.name[1] = tile /\ g.name[2] = site
      BY <3>1, <3>3 DEF Mentions
    <3>5. g \in ToSet(features)
      BY DEF IInv, Collected
    <3>6. g \in SiteFeatures
      BY <3>1, <3>4, <3>5 DEF SiteFeatures
    <3>7. <<g.name[1], g.name[2]>> \in UsedIobSites
      BY <3>1, <3>4, <3>6 DEF UsedIobSites
    <3>8. QED
      BY <3>2, <3>4, <3>7
  <2>7. QED
    BY <1>5, <2>4, <2>5, <2>6
<1>8. QED
  BY <1>2, <1>6, <1>7

-----------------------------------------------------------------------------
LEMMA StepInvariant == IInv /\ [Next]_vars => IInv'
<1> SUFFICES ASSUME IInv, [Next]_vars PROVE IInv'
  OBVIOUS
<1>1. CASE Next
  BY <1>1, OpenDatabaseStep, AddPUDCBStep, GetLineStep, ParseStepStep,
     CheckResultStep, EndOfLinesStep, StepDownStep, EndingSteps, SkipBitStep,
     SetBitStep, MarkFramesStep DEF Next
<1>2. CASE UNCHANGED vars
  <2>1. /\ UNCHANGED <<text, design, step, line_number, features, current, addr>>
        /\ UNCHANGED <<at, parser_line, width, bitset, chunk, calls>>
        /\ UNCHANGED segment_bits_cache
    BY <1>2 DEF vars, databaseVars, lineVars, parserVars, cursor
  <2>2. DesignFeatures' = DesignFeatures
    BY <2>1, SameDesign
  <2>3. \A c : FeatureOf(c)' = FeatureOf(c)
    BY <2>1, SameFeatureOf
  <2>4. Types' /\ Parsing'
    BY <2>1 DEF IInv, Types, Parsing
  <2>5. Collected'
    BY <2>1, <2>2, <2>3 DEF IInv, Collected
  <2>6. Origin'
    <3>1. \A f : SteppedRightly(f)' <=> SteppedRightly(f)
      BY <2>2 DEF SteppedRightly
    <3>2. \A f : OfLines(f)' <=> OfLines(f)
      BY <2>1, <2>2, <2>3 DEF OfLines
    <3>3. QED
      BY <2>1, <3>1, <3>2 DEF IInv, Origin
  <2>7. SetUp'
    <3>1. \A f, k : IsPlace(f, k)' <=> IsPlace(f, k)
      BY <2>1 DEF IsPlace
    <3>2. \A i, k : IsBefore(i, k)' <=> IsBefore(i, k)
      BY <2>1 DEF IsBefore
    <3>3. QED
      BY <2>1, <3>1, <3>2 DEF IInv, SetUp
  <2>8. Accepted'
    BY <2>1 DEF IInv, Accepted
  <2>9. QED
    BY <2>4, <2>5, <2>6, <2>7, <2>8 DEF IInv
<1>3. QED
  BY <1>1, <1>2

LEMMA Invariant == Spec => []IInv
<1>1. QED
  BY InitInvariant, StepInvariant, PTL DEF Spec

(* All or nothing, whatever the database holds and the hash maps do: when  *)
(* a bitstream is written, every line was accepted, and every bit of the   *)
(* design is one of a tile and of a feature in a file that was read.       *)
THEOREM WritesAllOrNothing == Spec => []WrittenIsWhole
<1>1. IInv => WrittenIsWhole
  <2> SUFFICES ASSUME IInv, step = "written" PROVE WrittenIsWhole
    BY DEF WrittenIsWhole
  <2>1. \A i \in 1 .. line_number - 1 : design[i].accepted
    <3>1. /\ DOMAIN design = 1 .. Len(design) /\ Len(design) = line_number - 1
          /\ \A i \in DOMAIN design : design[i].accepted
      BY LenProperties DEF IInv, Types, Accepted
    <3>2. QED
      BY <3>1
  <2>2. ASSUME NEW w \in WantedBits(DesignFeatures)
        PROVE  /\ w[1][1] \in DOMAIN Grid
               /\ \E resolved \in Resolutions(w[1][1], Tail(w[1])) :
                    resolved.type \in segment_bits_cache /\ Has(w[1][1], resolved, w[2])
    <3>0. PICK f \in DesignFeatures :
            \E k \in f.bits : k < f.width /\ w = <<f.name, f.start_bit + k>>
      BY DEF WantedBits
    <3>1. PICK k \in f.bits : k < f.width /\ w = <<f.name, f.start_bit + k>>
      BY <3>0
    <3>2. f \in ToSet(features)
      BY DEF IInv, Collected
    <3>3. PICK i \in DOMAIN features : f = features[i]
      BY <3>2 DEF ToSet
    <3>4. IsBefore(i, k)
      <4>1. i \in 1 .. Len(features) /\ Len(features) \in Nat
        BY FeatureTypes
      <4>2. current > Len(features) /\ current \in Nat
        BY DEF IInv, SetUp, Types
      <4>3. i < current
        BY <4>1, <4>2
      <4>4. QED
        BY <4>3 DEF IsBefore
    <3>5. IsPlace(f, k)
      BY <3>1, <3>3, <3>4 DEF IInv, SetUp
    <3>6. w[1] = f.name /\ w[2] = f.start_bit + k
      BY <3>1
    <3>7. QED
      BY <3>5, <3>6 DEF IsPlace
  <2>3. QED
    BY <2>1, <2>2 DEF WrittenIsWhole
<1>2. QED
  BY Invariant, <1>1, PTL

(* Whatever the bank, the tag and the order in which names are added,      *)
(* STEPDOWN leaves the sites alone that the design configures.             *)
THEOREM LeavesUsedSites == Spec => []UsedSitesKept
<1>1. IInv => UsedSitesKept
  <2> SUFFICES ASSUME IInv, step = "bits", NEW i \in DOMAIN features,
                      Len(features[i].name) = 3, features[i].name[1] \in Iob33,
                      \E g \in DesignFeatures : g.bits # {} /\ Mentions(features[i].name, g.name)
               PROVE  \E f \in DesignFeatures : f.name = features[i].name
    BY DEF UsedSitesKept
  <2>1. features[i] \in ToSet(features)
    BY DEF ToSet
  <2>2. SteppedRightly(features[i])
    BY <2>1 DEF IInv, Origin
  <2>3. features[i] \in DesignFeatures
    BY <2>2 DEF SteppedRightly
  <2>4. QED
    BY <2>3
<1>2. QED
  BY Invariant, <1>1, PTL

-----------------------------------------------------------------------------
(* The bit setter.  Numbers that are small enough do not wrap.             *)
LEMMA TimesAtLeast ==
  ASSUME NEW k \in Nat, NEW w \in Nat, k >= 1
  PROVE  k * w >= w
<1>1. k - 1 \in Nat /\ k = (k - 1) + 1
  OBVIOUS
<1>2. \A a, b \in Nat : a * b >= 0 /\ (a + 1) * b = a * b + b
  OBVIOUS
<1>3. k * w = (k - 1) * w + w /\ (k - 1) * w >= 0
  BY <1>1, <1>2
<1>4. (k - 1) * w \in Int
  BY <1>1
<1>5. QED
  BY <1>3, <1>4

LEMMA DivOfSum ==
  ASSUME NEW w \in Nat \ {0}, NEW q \in Nat, NEW r \in 0 .. w - 1
  PROVE  (q * w + r) \div w = q /\ (q * w + r) % w = r
<1>1. PICK x \in Nat : x = q * w + r
  OBVIOUS
<1>2. PICK d \in Int, m \in Int : d = x \div w /\ m = x % w
  OBVIOUS
<1>3. x = d * w + m /\ m >= 0 /\ m < w
  BY <1>2
<1>4. ASSUME NEW a \in Int, NEW b \in Int, a < b PROVE b * w - a * w >= w
  <2>1. b - a \in Nat /\ b - a >= 1
    BY <1>4
  <2>2. (b - a) * w >= w
    BY <2>1, TimesAtLeast
  <2>3. (b - a) * w = b * w - a * w
    OBVIOUS
  <2>4. QED
    BY <2>2, <2>3
<1>5. d * w \in Int /\ q * w \in Int
  OBVIOUS
<1>6. d = q
  <2>1. ~ d < q
    BY <1>1, <1>3, <1>4, <1>5
  <2>2. ~ q < d
    BY <1>1, <1>3, <1>4, <1>5
  <2>3. QED
    BY <2>1, <2>2
<1>7. m = r
  BY <1>1, <1>3, <1>6
<1>8. QED
  BY <1>1, <1>2, <1>6, <1>7

LEMMA SmallRemains ==
  ASSUME NEW w \in Nat \ {0}, NEW x \in Nat, x < w
  PROVE  x % w = x
  OBVIOUS

LEMMA SegbitTypes ==
  ASSUME NEW tile, NEW resolved, NEW address, NEW x \in SegbitsOf(tile, resolved, address)
  PROVE  /\ x[1] \in DOMAIN Blocks(tile)
         /\ tile \in DOMAIN Grid => IsBlock(Blocks(tile)[x[1]])
         /\ resolved.type \in DOMAIN TileTypes => IsSegbit(x[2])
<1> DEFINE segment_bits == TileTypes[resolved.type].segment_bits
           key == <<resolved.feature, address>>
<1>1. PICK bus \in MatchingBuses(tile, resolved, address) :
        x \in {bus} \X segment_bits[bus][key]
  BY DEF SegbitsOf
<1>2. /\ bus \in DOMAIN Blocks(tile) /\ bus \in DOMAIN segment_bits
      /\ key \in DOMAIN segment_bits[bus]
  BY DEF MatchingBuses
<1>3. x[1] = bus /\ x[2] \in segment_bits[bus][key]
  BY <1>1
<1> HIDE DEF key
<1>4. tile \in DOMAIN Grid => IsBlock(Blocks(tile)[bus])
  BY <1>2, DatabaseAssumption DEF Blocks
<1>5. resolved.type \in DOMAIN TileTypes => IsSegbit(x[2])
  BY <1>2, <1>3, DatabaseAssumption
<1>6. QED
  BY <1>2, <1>3, <1>4, <1>5

(* Then it is called for the place of the segbit.                          *)
LEMMA CallIsPlace ==
  ASSUME NEW block, NEW bus, NEW segbit, IsBlock(block), IsSegbit(segbit),
         IsUnsigned(block, segbit)
  PROVE  LET c == BitSetterCall(block, bus, segbit)
         IN /\ c.address = Place(block, segbit).address
            /\ c.bit = Place(block, segbit).bit
            /\ c.value = Place(block, segbit).value
<1>1. /\ block.base_address \in Nat /\ block.offset \in Int
      /\ segbit.word_column \in Nat /\ segbit.word_bit \in Nat
      /\ block.alias # <<>> => block.alias[1].start_offset \in Nat
  BY DEF IsBlock, IsSegbit
<1>2. /\ WordSizeBits \in Nat \ {0} /\ UnsignedLimit \in Nat \ {0}
  BY DatabaseAssumption
<1>3. PICK o \in Int : o = Offset(block)
  BY <1>1 DEF Offset
<1>4. PICK d \in Int : d = segbit.word_bit \div WordSizeBits
  BY <1>1, <1>2
<1>5. Word(block, segbit) = o + d
  <2>1. Start(block) \in Int /\ o = block.offset - Start(block)
    BY <1>1, <1>3 DEF Offset, Start
  <2>2. Word(block, segbit) = block.offset + d - Start(block)
    BY <1>4 DEF Word
  <2>3. QED
    BY <1>1, <2>1, <2>2
<1>6. o + d >= 0 /\ (o + d + 1) * WordSizeBits <= UnsignedLimit
  BY <1>5 DEF IsUnsigned
<1>7. PICK pos : pos = (o * WordSizeBits + segbit.word_bit) % UnsignedLimit
  OBVIOUS
<1>8. pos \div WordSizeBits = o + d /\ pos % WordSizeBits = segbit.word_bit % WordSizeBits
  <2>1. PICK w \in Nat \ {0} : w = WordSizeBits
    BY <1>2
  <2>2. PICK limit \in Nat \ {0} : limit = UnsignedLimit
    BY <1>2
  <2>3. PICK x \in Nat : x = segbit.word_bit
    BY <1>1
  <2>4. PICK r \in Int : r = x % w
    BY <2>1, <2>3
  <2>5. x = d * w + r /\ r \in 0 .. w - 1
    <3>1. d = x \div w
      BY <1>4, <2>1, <2>3
    <3>2. QED
      BY <2>4, <3>1
  <2>6. PICK q \in Nat : q = o + d
    BY <1>3, <1>4, <1>6
  <2>7. (q + 1) * w <= limit
    BY <1>6, <2>1, <2>2, <2>6
  <2>8. q * w = o * w + d * w /\ (q + 1) * w = q * w + w
    BY <1>3, <1>4, <2>1, <2>6
  <2>9. q * w \in Nat /\ o * w \in Int /\ d * w \in Int
    BY <1>3, <1>4, <2>1, <2>6
  <2>10. o * w + x = q * w + r
    BY <2>5, <2>8, <2>9
  <2>11. q * w + r \in Nat /\ q * w + r < limit
    BY <2>5, <2>7, <2>8, <2>9
  <2>12. pos = q * w + r
    BY <1>7, <2>1, <2>2, <2>3, <2>10, <2>11, SmallRemains
  <2>13. (q * w + r) \div w = q /\ (q * w + r) % w = r
    BY <2>5, DivOfSum
  <2>14. QED
    BY <2>1, <2>3, <2>4, <2>6, <2>12, <2>13
<1>9. (block.base_address + segbit.word_column) % UnsignedLimit = Address(block, segbit)
  <2>1. Address(block, segbit) = block.base_address + segbit.word_column
    BY DEF Address
  <2>2. Address(block, segbit) \in Nat /\ Address(block, segbit) < UnsignedLimit
    BY <1>1, <2>1 DEF IsUnsigned
  <2>3. QED
    BY <1>2, <2>1, <2>2, SmallRemains
<1>10. BitSetterCall(block, bus, segbit) =
         [bus |-> bus, address |-> Address(block, segbit),
          bit |-> <<Word(block, segbit), segbit.word_bit % WordSizeBits>>,
          value |-> segbit.is_set]
  BY <1>3, <1>5, <1>7, <1>8, <1>9 DEF BitSetterCall
<1>11. QED
  BY <1>10 DEF Place

(* Segbits of a block that is in the frames are at places in it.           *)
LEMMA OfBlockInFrame ==
  ASSUME NEW block, NEW segbit, IsBlock(block), IsSegbit(segbit), IsOfBlock(block, segbit)
  PROVE  /\ IsUnsigned(block, segbit)
         /\ Address(block, segbit) \in
              block.base_address .. block.base_address + block.frames - 1
         /\ Word(block, segbit) \in block.offset .. block.offset + block.words - 1
         /\ Word(block, segbit) < FrameWordCount
<1>1. /\ block.base_address \in Nat /\ block.offset \in Int
      /\ block.frames \in Nat /\ block.words \in Nat
      /\ segbit.word_column \in Nat /\ segbit.word_bit \in Nat
      /\ block.alias # <<>> => block.alias[1].start_offset \in Nat
  BY DEF IsBlock, IsSegbit
<1>2. WordSizeBits \in Nat \ {0} /\ UnsignedLimit \in Nat \ {0}
  BY DatabaseAssumption
<1>3. FrameWordCount \in Nat \ {0}
  BY AssemblerAssumption
<1>4. PICK d \in Int : d = segbit.word_bit \div WordSizeBits
  BY <1>1, <1>2
<1>5. PICK s \in Int : s = Start(block)
  BY <1>1 DEF Start
<1>6. PICK q \in Int : q = Word(block, segbit) /\ q = block.offset + d - s
  BY <1>1, <1>4, <1>5 DEF Word
<1>7. /\ segbit.word_column < block.frames
      /\ d - s \in 0 .. block.words - 1
      /\ block.offset >= 0 /\ block.offset + block.words <= FrameWordCount
      /\ FrameWordCount * WordSizeBits <= UnsignedLimit
      /\ block.base_address + block.frames <= UnsignedLimit
  BY <1>4, <1>5 DEF IsOfBlock
<1>8. q \in block.offset .. block.offset + block.words - 1 /\ q >= 0
  BY <1>1, <1>6, <1>7
<1>9. q < FrameWordCount
  BY <1>1, <1>3, <1>7, <1>8
<1>10. (q + 1) * WordSizeBits <= UnsignedLimit
  <2>1. PICK m \in Nat : FrameWordCount = q + 1 + m
    <3>1. FrameWordCount - (q + 1) \in Nat
      BY <1>3, <1>8, <1>9
    <3>2. FrameWordCount = q + 1 + (FrameWordCount - (q + 1))
      BY <1>3
    <3>3. QED
      BY <3>1, <3>2
  <2>2. \A a, b, c \in Nat : (a + b) * c = a * c + b * c /\ b * c >= 0 /\ a * c \in Nat
    OBVIOUS
  <2>3. q + 1 \in Nat
    BY <1>8
  <2>4. FrameWordCount * WordSizeBits >= (q + 1) * WordSizeBits
    BY <1>2, <2>1, <2>2, <2>3
  <2>5. (q + 1) * WordSizeBits \in Int /\ FrameWordCount * WordSizeBits \in Int
    BY <1>2, <1>3
  <2>6. QED
    BY <1>2, <1>7, <2>4, <2>5
<1>11. /\ Address(block, segbit) = block.base_address + segbit.word_column
       /\ Address(block, segbit) \in
            block.base_address .. block.base_address + block.frames - 1
       /\ Address(block, segbit) < UnsignedLimit
  BY <1>1, <1>2, <1>7 DEF Address
<1>12. IsUnsigned(block, segbit)
  BY <1>6, <1>8, <1>10, <1>11 DEF IsUnsigned
<1>13. QED
  BY <1>6, <1>8, <1>9, <1>11, <1>12

-----------------------------------------------------------------------------
(* The frames.  What the bit setter is called with for some bits, and the  *)
(* frames of the blocks in which these are.                                *)

CallsFor(w) ==
  UNION {BitSetterCalls(w[1][1], resolved, w[2])
         : resolved \in Resolutions(w[1][1], Tail(w[1]))}

AllCalls(wanted) == UNION {CallsFor(w) : w \in wanted}

Marked(wanted) ==
  UNION {b.base_address .. b.base_address + b.frames - 1
         : b \in UNION {{Blocks(w[1][1])[c.bus] : c \in CallsFor(w)} : w \in wanted}}

Addresses(bit_calls) == {c.address : c \in bit_calls}

BitsAt(bit_calls, a) == {c.bit : c \in {d \in bit_calls : d.address = a /\ d.value}}

FramesFor(addresses, bit_calls) ==
  [a \in addresses \cup Addresses(bit_calls) |-> BitsAt(bit_calls, a)]

(* The bits of the features that are done, and of the current one.         *)
Finished == WantedBits({features[i] : i \in {n \in DOMAIN features : n < current}})

BitsBelow(f, k) == {<<f.name, f.start_bit + j>> : j \in {n \in f.bits : n < f.width /\ n < k}}

Started == IF current \in DOMAIN features THEN BitsBelow(feature, addr) ELSE {}

HasOneReading(f) == f.width <= ValueBits /\ AliasesAgree(f.name[1])

Definite == \A f \in ToSet(features) : HasOneReading(f)

(* Of features that leave no choice, the frames are known at each bit.     *)
Framed ==
  /\ step \in Reading \cup {"open", "pudcb"} => frames = <<>> /\ used_config_buses = {}
  /\ Definite =>
       /\ frames = FramesFor(Marked(Finished), AllCalls(Finished \cup Started))
       /\ used_config_buses = {c.bus : c \in AllCalls(Started)}

(* FramesOf is what that says of all bits, if they are set at their places.*)
Resolved(w) == Resolutions(w[1][1], Tail(w[1]))
Segments(w) == UNION {SegbitsOf(w[1][1], resolved, w[2]) : resolved \in Resolved(w)}

LEMMA FramesOfCalls ==
  ASSUME NEW wanted,
         \A w \in wanted : \A x \in Segments(w) :
           LET block == Blocks(w[1][1])[x[1]]
           IN IsBlock(block) /\ IsSegbit(x[2]) /\ IsUnsigned(block, x[2])
  PROVE  FramesOf(wanted) = FramesFor(Marked(wanted), AllCalls(wanted))
<1> DEFINE CallOf(w, x) == BitSetterCall(Blocks(w[1][1])[x[1]], x[1], x[2])
           PlaceOf(w, x) == Place(Blocks(w[1][1])[x[1]], x[2])
           bits == UNION {BlockBits(w) : w \in wanted}
           places == {Place(x[1], x[2]) : x \in bits}
           all == AllCalls(wanted)
           IsSame(c, p) == c.address = p.address /\ c.bit = p.bit /\ c.value = p.value
<1>1. \A w \in wanted : \A x \in Segments(w) : IsSame(CallOf(w, x), PlaceOf(w, x))
  BY CallIsPlace
<1>2. \A w, c : c \in CallsFor(w) <=> \E x \in Segments(w) : c = CallOf(w, x)
  BY DEF CallsFor, BitSetterCalls, Resolved, Segments
<1>3. \A w, y : y \in BlockBits(w) <=>
        \E x \in Segments(w) : y = <<Blocks(w[1][1])[x[1]], x[2]>>
  BY DEF BlockBits, Resolved, Segments
<1>4. \A w, x : CallOf(w, x).bus = x[1]
  BY DEF BitSetterCall
<1>5. \A w : {Blocks(w[1][1])[c.bus] : c \in CallsFor(w)} = {x[1] : x \in BlockBits(w)}
  <2> TAKE w
  <2>1. ASSUME NEW c \in CallsFor(w)
        PROVE  \E y \in BlockBits(w) : Blocks(w[1][1])[c.bus] = y[1]
    <3>1. PICK x \in Segments(w) : c = CallOf(w, x)
      BY <1>2
    <3>2. c.bus = x[1]
      BY <1>4, <3>1
    <3>3. <<Blocks(w[1][1])[x[1]], x[2]>> \in BlockBits(w)
      BY <1>3
    <3>4. QED
      BY <3>2, <3>3
  <2>2. ASSUME NEW y \in BlockBits(w)
        PROVE  \E c \in CallsFor(w) : y[1] = Blocks(w[1][1])[c.bus]
    <3>1. PICK x \in Segments(w) : y = <<Blocks(w[1][1])[x[1]], x[2]>>
      BY <1>3
    <3>2. CallOf(w, x) \in CallsFor(w)
      BY <1>2
    <3>3. CallOf(w, x).bus = x[1]
      BY <1>4
    <3>4. QED
      BY <3>1, <3>2, <3>3
  <2>3. QED
    BY <2>1, <2>2
<1> HIDE DEF CallOf
<1>6. ASSUME NEW c \in all PROVE \E p \in places : IsSame(c, p)
  <2>1. PICK w \in wanted : c \in CallsFor(w)
    BY DEF AllCalls
  <2>2. PICK x \in Segments(w) : c = CallOf(w, x)
    BY <1>2, <2>1
  <2>3. <<Blocks(w[1][1])[x[1]], x[2]>> \in bits
    BY <1>3
  <2>4. PlaceOf(w, x) \in places
    BY <2>3
  <2>5. QED
    BY <1>1, <2>2, <2>4
<1>7. ASSUME NEW p \in places PROVE \E c \in all : IsSame(c, p)
  <2>1. PICK y \in bits : p = Place(y[1], y[2])
    OBVIOUS
  <2> PICK w \in wanted : y \in BlockBits(w)
    OBVIOUS
  <2>2. PICK x \in Segments(w) : y = <<Blocks(w[1][1])[x[1]], x[2]>>
    BY <1>3, <2>1
  <2>3. p = PlaceOf(w, x)
    BY <2>1, <2>2
  <2>4. CallOf(w, x) \in all
    BY <1>2 DEF AllCalls
  <2>5. QED
    BY <1>1, <2>3, <2>4
<1>8. Addresses(all) = {p.address : p \in places}
  BY <1>6, <1>7 DEF Addresses
<1>9. \A a : BitsAt(all, a) = {p.bit : p \in {q \in places : q.address = a /\ q.value}}
  BY <1>6, <1>7 DEF BitsAt
<1>10. Marked(wanted) = UNION {x[1].base_address .. x[1].base_address + x[1].frames - 1
                               : x \in bits}
  <2> DEFINE A(w) == {Blocks(w[1][1])[c.bus] : c \in CallsFor(w)}
             B(w) == {x[1] : x \in BlockBits(w)}
  <2> HIDE DEF A, B
  <2>1. \A w : A(w) = B(w)
    BY <1>5 DEF A, B
  <2>2. UNION {A(w) : w \in wanted} = UNION {B(w) : w \in wanted}
    BY <2>1
  <2>3. Marked(wanted) = UNION {b.base_address .. b.base_address + b.frames - 1
                                : b \in UNION {B(w) : w \in wanted}}
    BY <2>2 DEF Marked, A
  <2>4. UNION {B(w) : w \in wanted} = {x[1] : x \in bits}
    BY DEF B
  <2>5. QED
    BY <2>3, <2>4
<1> HIDE DEF bits, places, all
<1>11. FramesOf(wanted) =
         [a \in Marked(wanted) \cup {p.address : p \in places} |->
            {p.bit : p \in {q \in places : q.address = a /\ q.value}}]
  BY <1>10 DEF FramesOf, bits, places
<1>12. QED
  BY <1>8, <1>9, <1>11 DEF FramesFor, all

LEMMA MoreCalls ==
  ASSUME NEW D, NEW done, NEW more
  PROVE  WithBits(FramesFor(D, done), more) = FramesFor(D, done \cup more)
<1> DEFINE fs == FramesFor(D, done)
           all == Blank(fs, Addresses(more))
<1>1. DOMAIN fs = D \cup Addresses(done) /\ \A a \in DOMAIN fs : fs[a] = BitsAt(done, a)
  BY DEF FramesFor
<1> HIDE DEF fs
<1>2. DOMAIN all = DOMAIN fs \cup Addresses(more)
  BY DEF Blank
<1>3. \A a \in DOMAIN all : all[a] = IF a \in DOMAIN fs THEN fs[a] ELSE {}
  BY DEF Blank
<1>4. WithBits(fs, more) = [a \in DOMAIN all |-> all[a] \cup BitsAt(more, a)]
  BY DEF WithBits, Addresses, BitsAt
<1> HIDE DEF all
<1>5. DOMAIN all = D \cup Addresses(done \cup more)
  BY <1>1, <1>2 DEF Addresses
<1>6. ASSUME NEW a \in DOMAIN all PROVE all[a] \cup BitsAt(more, a) = BitsAt(done \cup more, a)
  <2>1. a \notin Addresses(done) => BitsAt(done, a) = {}
    BY DEF Addresses, BitsAt
  <2>2. all[a] = BitsAt(done, a)
    BY <1>1, <1>3, <1>5, <2>1
  <2>3. BitsAt(done, a) \cup BitsAt(more, a) = BitsAt(done \cup more, a)
    BY DEF BitsAt
  <2>4. QED
    BY <2>2, <2>3
<1>7. QED
  BY <1>4, <1>5, <1>6 DEF FramesFor, fs

LEMMA MoreFrames ==
  ASSUME NEW D, NEW E, NEW done
  PROVE  Blank(FramesFor(D, done), E) = FramesFor(D \cup E, done)
<1> DEFINE fs == FramesFor(D, done)
<1>1. DOMAIN fs = D \cup Addresses(done) /\ \A a \in DOMAIN fs : fs[a] = BitsAt(done, a)
  BY DEF FramesFor
<1> HIDE DEF fs
<1>2. \A a : a \notin Addresses(done) => BitsAt(done, a) = {}
  BY DEF Addresses, BitsAt
<1>3. DOMAIN fs \cup E = (D \cup E) \cup Addresses(done)
  BY <1>1
<1>4. \A a \in DOMAIN fs \cup E : (IF a \in DOMAIN fs THEN fs[a] ELSE {}) = BitsAt(done, a)
  BY <1>1, <1>2
<1>5. QED
  BY <1>3, <1>4 DEF Blank, FramesFor, fs

(* All aliases of a tile agree: there is one resolution.                   *)
LEMMA OneResolution ==
  ASSUME NEW tile \in DOMAIN Grid, AliasesAgree(tile), NEW feature_name,
         NEW r \in Resolutions(tile, feature_name)
  PROVE  Resolutions(tile, feature_name) = {r}
<1>1. \A a, b \in AliasedBuses(tile) : Blocks(tile)[a].alias = Blocks(tile)[b].alias
  BY DEF AliasesAgree, AliasesOf
<1>2. CASE AliasedBuses(tile) = {}
  BY <1>2 DEF Resolutions
<1>3. CASE AliasedBuses(tile) # {}
  <2>1. Resolutions(tile, feature_name) =
          {[type |-> Blocks(tile)[bus].alias[1].type,
            feature |-> AliasedFeature(feature_name, Blocks(tile)[bus].alias[1])]
             : bus \in AliasedBuses(tile)}
    BY <1>3 DEF Resolutions
  <2>2. \A s \in Resolutions(tile, feature_name) : s = r
    BY <1>1, <2>1
  <2>3. QED
    BY <2>2
<1>4. QED
  BY <1>2, <1>3

LEMMA UnionOfCalls ==
  ASSUME NEW A, NEW B
  PROVE  /\ AllCalls(A \cup B) = AllCalls(A) \cup AllCalls(B)
         /\ Marked(A \cup B) = Marked(A) \cup Marked(B)
  BY DEF AllCalls, Marked

Unframed == current = 1 /\ addr = 0 /\ frames = <<>> /\ used_config_buses = {}

LEMMA NothingFramed == Types /\ Unframed => Framed
<1> SUFFICES ASSUME Types, Unframed PROVE Framed
  OBVIOUS
<1>1. /\ features \in Seq(ToSet(features)) /\ \A f \in ToSet(features) : IsFeature(f)
      /\ DOMAIN features \subseteq Nat \ {0}
  BY LenProperties DEF Types
<1>2. \A i \in DOMAIN features : ~ (i < 1)
  BY <1>1
<1>3. {features[i] : i \in {n \in DOMAIN features : n < current}} = {}
  BY <1>2 DEF Unframed
<1>4. Finished = {}
  BY <1>3 DEF Finished, WantedBits
<1>5. \A f \in ToSet(features) : BitsBelow(f, 0) = {}
  <2> TAKE f \in ToSet(features)
  <2>1. \A n \in f.bits : ~ (n < 0)
    BY <1>1, ValueBitsType DEF IsFeature
  <2>2. QED
    BY <2>1 DEF BitsBelow
<1>6. Started = {}
  <2>1. current \in DOMAIN features => feature \in ToSet(features)
    BY DEF feature, ToSet
  <2>2. QED
    BY <1>5, <2>1 DEF Started, Unframed
<1>7. AllCalls({}) = {} /\ Marked({}) = {} /\ Addresses({}) = {}
  BY DEF AllCalls, Marked, Addresses
<1>8. frames = FramesFor({}, {})
  BY <1>7 DEF Unframed, FramesFor
<1>9. QED
  BY <1>4, <1>6, <1>7, <1>8 DEF Framed, Unframed

LEMMA NothingFramedNext == Types' /\ Unframed' => Framed'
  BY NothingFramed, PTL

LEMMA InitFramed == Init => Framed
<1> SUFFICES ASSUME Init PROVE Framed
  OBVIOUS
<1>1. Types
  BY InitInvariant DEF IInv
<1>2. Unframed
  BY DEF Init, Unframed
<1>3. QED
  BY <1>1, <1>2, NothingFramed

(* Features are read and added: there is no frame yet.                     *)
LEMMA ReadingFramed ==
  ASSUME IInv, Framed, Types', step \in Reading \cup {"open", "pudcb"},
         UNCHANGED <<cursor, frames>>
  PROVE  Framed'
<1>1. Unframed
  BY DEF IInv, SetUp, Framed, Unframed
<1>2. Unframed'
  BY <1>1 DEF Unframed, cursor
<1>3. QED
  BY <1>2, NothingFramedNext

(* The program ends: the frames stay.                                      *)
LEMMA EndingFramed ==
  ASSUME IInv, Framed, UNCHANGED <<features, cursor, frames>>,
         step \in Final \cup {"bits"} => step' \in Final \cup {"bits"}
  PROVE  Framed'
<1>1. /\ features' = features /\ current' = current /\ addr' = addr
      /\ used_config_buses' = used_config_buses /\ frames' = frames
  BY DEF cursor
<1>2. Finished' = Finished /\ Started' = Started /\ (Definite' <=> Definite)
  BY <1>1 DEF Finished, Started, Definite, feature
<1>3. step' \in Reading \cup {"open", "pudcb"} => step \in Reading \cup {"open", "pudcb"}
  BY DEF IInv, Types, Reading, Final
<1>4. QED
  BY <1>1, <1>2, <1>3 DEF Framed

LEMMA SkipBitFramed == IInv /\ Framed /\ SkipBit => Framed'
<1> SUFFICES ASSUME IInv, Framed, SkipBit PROVE Framed'
  OBVIOUS
<1>1. /\ IsAtBit /\ addr' = addr + 1 /\ step' = step /\ step = "bits"
      /\ features' = features /\ current' = current
      /\ used_config_buses' = used_config_buses /\ frames' = frames
      /\ addr \in Nat
  BY DEF SkipBit, IsAtBit, IInv, Types
<1>2. addr \notin feature.bits
  BY SkippedIsClear
<1>3. BitsBelow(feature, addr + 1) = BitsBelow(feature, addr)
  <2>1. \A n \in feature.bits : n < addr + 1 <=> n < addr
    <3>1. feature.bits \subseteq Int
      BY CurrentFeature, ValueBitsType, <1>1 DEF IsFeature
    <3>2. QED
      BY <1>1, <1>2, <3>1
  <2>2. QED
    BY <2>1 DEF BitsBelow
<1>4. Started' = Started
  <2>1. feature' = feature
    BY <1>1 DEF feature
  <2>2. QED
    BY <1>1, <1>3, <2>1 DEF Started
<1>5. Finished' = Finished /\ (Definite' <=> Definite)
  BY <1>1 DEF Finished, Definite
<1>6. QED
  BY <1>1, <1>4, <1>5 DEF Framed, Reading

LEMMA SetBitFramed == IInv /\ Framed /\ SetBit => Framed'
<1> SUFFICES ASSUME IInv, Framed, SetBit PROVE Framed'
  OBVIOUS
<1>1. /\ IsAtBit /\ addr' = addr + 1 /\ step' = step /\ step = "bits"
      /\ features' = features /\ current' = current
      /\ addr \in Nat /\ addr < feature.width /\ TRUE \in BitValues
      /\ Tile \in DOMAIN Grid
  BY DEF SetBit, IsAtBit, IInv, Types
<1> DEFINE address == addr + feature.start_bit
           w == <<feature.name, feature.start_bit + addr>>
<1>2. PICK resolved \in Resolutions(Tile, Tail(feature.name)) :
        /\ frames' = WithBits(frames, BitSetterCalls(Tile, resolved, address))
        /\ used_config_buses' =
             used_config_buses \cup {c.bus : c \in BitSetterCalls(Tile, resolved, address)}
  BY DEF SetBit
<1>3. current \in DOMAIN features /\ IsFeature(feature)
  BY <1>1, CurrentFeature
<1>4. Finished' = Finished /\ (Definite' <=> Definite)
  BY <1>1 DEF Finished, Definite
<1>5. ASSUME Definite PROVE Framed'
  <2>1. HasOneReading(feature)
    BY <1>3, <1>5 DEF Definite, feature, ToSet
  <2>2. addr \in feature.bits
    <3>1. addr < ValueBits
      BY <1>1, <1>3, <2>1, ValueBitsType DEF HasOneReading, IsFeature
    <3>2. QED
      BY <1>1, <3>1 DEF BitValues
  <2>3. BitsBelow(feature, addr + 1) = BitsBelow(feature, addr) \cup {w}
    <3>1. \A n \in feature.bits : n < addr + 1 <=> n < addr \/ n = addr
      <4>1. feature.bits \subseteq Int
        BY <1>3, ValueBitsType DEF IsFeature
      <4>2. QED
        BY <1>1, <4>1
    <3>2. {n \in feature.bits : n < feature.width /\ n < addr + 1} =
            {n \in feature.bits : n < feature.width /\ n < addr} \cup {addr}
      BY <1>1, <2>2, <3>1
    <3>3. QED
      BY <3>2 DEF BitsBelow
  <2>4. Started' = Started \cup {w}
    <3>1. feature' = feature
      BY <1>1 DEF feature
    <3>2. Started = BitsBelow(feature, addr) /\ Started' = BitsBelow(feature, addr + 1)
      BY <1>1, <1>3, <3>1 DEF Started
    <3>3. QED
      BY <2>3, <3>2
  <2>5. BitSetterCalls(Tile, resolved, address) = CallsFor(w)
    <3>1. Tile = feature.name[1]
      BY DEF Tile
    <3>2. Resolutions(Tile, Tail(feature.name)) = {resolved}
      BY <1>1, <1>2, <2>1, <3>1, OneResolution DEF HasOneReading
    <3>3. address = feature.start_bit + addr
      BY <1>1, <1>3 DEF IsFeature
    <3>4. w[1] = feature.name /\ w[2] = feature.start_bit + addr
      OBVIOUS
    <3> HIDE DEF w, address
    <3>5. CallsFor(w) = UNION {BitSetterCalls(Tile, r, address) : r \in {resolved}}
      BY <3>1, <3>2, <3>3, <3>4 DEF CallsFor
    <3>6. QED
      BY <3>5
  <2> HIDE DEF w, address
  <2>6. AllCalls({w}) = CallsFor(w)
    BY DEF AllCalls
  <2>7. AllCalls((Finished \cup Started)') = AllCalls(Finished \cup Started) \cup CallsFor(w)
    <3>1. (Finished \cup Started)' = (Finished \cup Started) \cup {w}
      BY <1>4, <2>4
    <3>2. AllCalls((Finished \cup Started) \cup {w}) =
            AllCalls(Finished \cup Started) \cup AllCalls({w})
      BY UnionOfCalls
    <3>3. QED
      BY <2>6, <3>1, <3>2
  <2>8. frames = FramesFor(Marked(Finished), AllCalls(Finished \cup Started))
    BY <1>5 DEF Framed
  <2>9. frames' = FramesFor(Marked(Finished), AllCalls((Finished \cup Started)'))
    <3>1. frames' = WithBits(frames, CallsFor(w))
      BY <1>2, <2>5
    <3>2. WithBits(FramesFor(Marked(Finished), AllCalls(Finished \cup Started)), CallsFor(w)) =
            FramesFor(Marked(Finished), AllCalls(Finished \cup Started) \cup CallsFor(w))
      BY MoreCalls
    <3>3. QED
      BY <2>7, <2>8, <3>1, <3>2
  <2>10. used_config_buses' = {c.bus : c \in AllCalls(Started')}
    <3>1. AllCalls(Started') = AllCalls(Started) \cup CallsFor(w)
      BY <2>4, <2>6, UnionOfCalls
    <3>2. used_config_buses = {c.bus : c \in AllCalls(Started)}
      BY <1>5 DEF Framed
    <3>3. QED
      BY <1>2, <2>5, <3>1, <3>2
  <2>11. QED
    BY <1>1, <1>4, <2>9, <2>10 DEF Framed, Reading
<1>6. ASSUME ~ Definite PROVE Framed'
  BY <1>1, <1>4, <1>6 DEF Framed, Reading
<1>7. QED
  BY <1>5, <1>6

LEMMA MarkFramesFramed == IInv /\ Framed /\ MarkFrames => Framed'
<1> SUFFICES ASSUME IInv, Framed, MarkFrames PROVE Framed'
  OBVIOUS
<1>1. /\ step = "bits" /\ step' = step /\ features' = features
      /\ current \in Nat \ {0} /\ addr \in Nat /\ addr >= feature.width
      /\ current <= Len(features)
      /\ current' = current + 1 /\ addr' = 0 /\ used_config_buses' = {}
      /\ frames' = Blank(frames, UsedAddresses)
  BY DEF MarkFrames, IInv, Types
<1>2. /\ features \in Seq(ToSet(features)) /\ \A f \in ToSet(features) : IsFeature(f)
      /\ Len(features) \in Nat /\ DOMAIN features = 1 .. Len(features)
  BY LenProperties DEF IInv, Types
<1>3. current \in DOMAIN features /\ feature \in ToSet(features) /\ IsFeature(feature)
  <2>1. current \in DOMAIN features
    BY <1>1, <1>2
  <2>2. QED
    BY <1>2, <2>1 DEF feature, ToSet
<1>4. Started = WantedBits({feature})
  <2>1. \A n \in feature.bits : n < feature.width => n < addr
    <3>1. feature.bits \subseteq Int /\ feature.width \in Int
      BY <1>3, ValueBitsType DEF IsFeature
    <3>2. QED
      BY <1>1, <3>1
  <2>2. {n \in feature.bits : n < feature.width /\ n < addr} =
          {n \in feature.bits : n < feature.width}
    BY <2>1
  <2>3. QED
    BY <1>3, <2>2 DEF Started, BitsBelow, WantedBits
<1>5. Finished' = Finished \cup Started
  <2>1. {n \in DOMAIN features : n < current + 1} =
          {n \in DOMAIN features : n < current} \cup {current}
    BY <1>1, <1>2, <1>3
  <2>2. {features[i] : i \in {n \in DOMAIN features : n < current + 1}} =
          {features[i] : i \in {n \in DOMAIN features : n < current}} \cup {feature}
    BY <2>1 DEF feature
  <2>3. \A A, B : WantedBits(A \cup B) = WantedBits(A) \cup WantedBits(B)
    BY DEF WantedBits
  <2>4. Finished' = WantedBits({features[i] : i \in {n \in DOMAIN features : n < current + 1}})
    BY <1>1 DEF Finished
  <2>5. WantedBits({features[i] : i \in {n \in DOMAIN features : n < current}} \cup {feature}) =
          Finished \cup Started
    BY <1>4, <2>3 DEF Finished
  <2>6. QED
    BY <2>2, <2>4, <2>5
<1>6. Started' = {}
  <2>1. \A f \in ToSet(features) : BitsBelow(f, 0) = {}
    <3> TAKE f \in ToSet(features)
    <3>1. \A n \in f.bits : ~ (n < 0)
      BY <1>2, ValueBitsType DEF IsFeature
    <3>2. QED
      BY <3>1 DEF BitsBelow
  <2>2. current + 1 \in DOMAIN features => features[current + 1] \in ToSet(features)
    BY DEF ToSet
  <2>3. QED
    BY <1>1, <2>1, <2>2 DEF Started, feature
<1>7. Definite' <=> Definite
  BY <1>1 DEF Definite
<1>8. ASSUME Definite PROVE Framed'
  <2>1. UsedAddresses = Marked(Started)
    <3>1. used_config_buses = {c.bus : c \in AllCalls(Started)}
      BY <1>8 DEF Framed
    <3>2. \A w \in Started : w[1][1] = Tile
      BY DEF Started, BitsBelow, Tile
    <3>3. UNION {{Blocks(w[1][1])[c.bus] : c \in CallsFor(w)} : w \in Started} =
            {Blocks(Tile)[bus] : bus \in used_config_buses}
      <4>1. \A w \in Started : {Blocks(w[1][1])[c.bus] : c \in CallsFor(w)} =
                                 {Blocks(Tile)[c.bus] : c \in CallsFor(w)}
        BY <3>2
      <4>2. UNION {{Blocks(Tile)[c.bus] : c \in CallsFor(w)} : w \in Started} =
              {Blocks(Tile)[c.bus] : c \in AllCalls(Started)}
        BY DEF AllCalls
      <4>3. {Blocks(Tile)[c.bus] : c \in AllCalls(Started)} =
              {Blocks(Tile)[bus] : bus \in used_config_buses}
        BY <3>1
      <4> DEFINE A(w) == {Blocks(w[1][1])[c.bus] : c \in CallsFor(w)}
                 B(w) == {Blocks(Tile)[c.bus] : c \in CallsFor(w)}
      <4>4. \A w \in Started : A(w) = B(w)
        BY <4>1
      <4> HIDE DEF A, B
      <4>5. UNION {A(w) : w \in Started} = UNION {B(w) : w \in Started}
        BY <4>4
      <4>6. QED
        BY <4>2, <4>3, <4>5 DEF A, B
    <3>4. QED
      BY <3>3 DEF UsedAddresses, Marked
  <2>2. frames = FramesFor(Marked(Finished), AllCalls(Finished \cup Started))
    BY <1>8 DEF Framed
  <2>3. frames' = FramesFor(Marked(Finished) \cup Marked(Started),
                            AllCalls(Finished \cup Started))
    BY <1>1, <2>1, <2>2, MoreFrames
  <2>4. Marked(Finished') = Marked(Finished) \cup Marked(Started)
    BY <1>5, UnionOfCalls
  <2>5. Finished' \cup Started' = Finished \cup Started
    BY <1>5, <1>6
  <2>6. used_config_buses' = {c.bus : c \in AllCalls(Started')}
    BY <1>1, <1>6 DEF AllCalls
  <2>7. QED
    BY <1>1, <2>3, <2>4, <2>5, <2>6 DEF Framed, Reading
<1>9. ASSUME ~ Definite PROVE Framed'
  BY <1>1, <1>7, <1>9 DEF Framed, Reading
<1>10. QED
  BY <1>8, <1>9

LEMMA StepFramed == IInv /\ Framed /\ [Next]_vars => Framed'
<1> SUFFICES ASSUME IInv, Framed, [Next]_vars PROVE Framed'
  OBVIOUS
<1>1. Types'
  BY StepInvariant DEF IInv
<1>2. CASE OpenDatabase \/ AddPUDCBFeatures \/ GetLine \/ ParseStep \/ CheckResult
           \/ EndOfLines \/ AddStepDownFeatures
  <2>1. step \in Reading \cup {"open", "pudcb"} /\ UNCHANGED <<cursor, frames>>
    BY <1>2 DEF OpenDatabase, AddPUDCBFeatures, GetLine, ParseStep, CheckResult,
                LineParsed, EndOfLines, AddStepDownFeatures, Reading
  <2>2. QED
    BY <1>1, <2>1, ReadingFramed
<1>3. CASE CannotSplit \/ SetBitBeyond \/ SetBitDies \/ Encode
  <2>1. /\ UNCHANGED <<features, cursor, frames>>
        /\ step' \in Final
    BY <1>3 DEF CannotSplit, SetBitBeyond, SetBitDies, Encode, Final
  <2>2. QED
    BY <2>1, EndingFramed
<1>4. CASE UNCHANGED vars
  <2>1. UNCHANGED <<features, cursor, frames>> /\ step' = step
    BY <1>4 DEF vars
  <2>2. QED
    BY <2>1, EndingFramed
<1>5. QED
  BY <1>2, <1>3, <1>4, SkipBitFramed, SetBitFramed, MarkFramesFramed DEF Next

LEMMA AlwaysFramed == Spec => [](IInv /\ Framed)
<1>1. QED
  BY InitInvariant, InitFramed, StepInvariant, StepFramed, PTL DEF Spec

(* What is read is of the database.                                        *)
InDatabase ==
  indexed \subseteq DOMAIN TileTypes /\ segment_bits_cache \subseteq DOMAIN TileTypes

LEMMA InitInDatabase == Init => InDatabase
  BY DEF Init, InDatabase

LEMMA StepInDatabase == InDatabase /\ [Next]_vars => InDatabase'
<1> SUFFICES ASSUME InDatabase, [Next]_vars PROVE InDatabase'
  OBVIOUS
<1>1. CASE UNCHANGED databaseVars
  BY <1>1 DEF InDatabase, databaseVars
<1>2. CASE Index
  BY <1>2 DEF InDatabase, Index
<1>3. ASSUME NEW type, AddSegbitsToCache(type) PROVE InDatabase'
  BY <1>3 DEF InDatabase, AddSegbitsToCache
<1>4. CASE OpenDatabase
  BY <1>1, <1>2, <1>4 DEF OpenDatabase
<1>5. CASE SetBit
  BY <1>3, <1>5 DEF SetBit, ConfigBits
<1>6. CASE SetBitBeyond
  BY <1>3, <1>6 DEF SetBitBeyond, ConfigBits
<1>7. CASE SetBitDies
  BY <1>1, <1>3, <1>7 DEF SetBitDies, ConfigBitsDies
<1>8. CASE \/ AddPUDCBFeatures \/ GetLine \/ ParseStep \/ CheckResult \/ EndOfLines
           \/ AddStepDownFeatures \/ CannotSplit \/ SkipBit \/ MarkFrames \/ Encode
           \/ UNCHANGED vars
  <2>1. UNCHANGED databaseVars
    BY <1>8 DEF AddPUDCBFeatures, GetLine, ParseStep, CheckResult, LineParsed, EndOfLines,
                AddStepDownFeatures, CannotSplit, SkipBit, MarkFrames, Encode, vars
  <2>2. QED
    BY <1>1, <2>1
<1>9. QED
  BY <1>4, <1>5, <1>6, <1>7, <1>8 DEF Next

(* What is written is made of the features, whatever their order.          *)
FramesOfFeatures ==
  step = "written" /\ NothingWraps /\ Definite =>
    frames = FramesOf(WantedBits(ToSet(features)))

(* Bits that have been set are of one type, in a file that was read.       *)
LEMMA WantedAreRead ==
  ASSUME IInv, InDatabase, step = "written", Definite,
         NEW w \in WantedBits(ToSet(features)), NEW resolved \in Resolved(w)
  PROVE  w[1][1] \in DOMAIN Grid /\ resolved.type \in DOMAIN TileTypes
<1>1. PICK f \in ToSet(features) :
        \E k \in {j \in f.bits : j < f.width} : w = <<f.name, f.start_bit + k>>
  BY DEF WantedBits
<1> PICK k \in {j \in f.bits : j < f.width} : w = <<f.name, f.start_bit + k>>
  BY <1>1
<1>2. PICK i \in DOMAIN features : f = features[i]
  BY DEF ToSet
<1>3. /\ current > Len(features) /\ current \in Nat
      /\ Len(features) \in Nat /\ DOMAIN features = 1 .. Len(features)
  BY FeatureTypes DEF IInv, SetUp, Types
<1>4. IsBefore(i, k)
  BY <1>3 DEF IsBefore
<1>5. IsPlace(f, k)
  BY <1>1, <1>2, <1>4 DEF IInv, SetUp
<1>6. PICK r \in Resolutions(f.name[1], Tail(f.name)) : r.type \in segment_bits_cache
  BY <1>5 DEF IsPlace
<1>7. f.name[1] \in DOMAIN Grid /\ AliasesAgree(f.name[1])
  BY <1>5 DEF IsPlace, Definite, HasOneReading
<1>8. Resolutions(f.name[1], Tail(f.name)) = {r}
  BY <1>6, <1>7, OneResolution
<1>9. w[1] = f.name
  BY <1>1
<1>10. resolved = r
  BY <1>8, <1>9 DEF Resolved
<1>11. QED
  BY <1>6, <1>7, <1>9, <1>10 DEF InDatabase

LEMMA FramesAreOfFeatures == IInv /\ Framed /\ InDatabase => FramesOfFeatures
<1> SUFFICES ASSUME IInv, Framed, InDatabase, step = "written", NothingWraps, Definite
             PROVE  frames = FramesOf(WantedBits(ToSet(features)))
  BY DEF FramesOfFeatures
<1>1. /\ current > Len(features) /\ current \in Nat
      /\ Len(features) \in Nat /\ DOMAIN features = 1 .. Len(features)
  BY FeatureTypes DEF IInv, SetUp, Types
<1>2. current \notin DOMAIN features /\ \A n \in DOMAIN features : n < current
  BY <1>1
<1>3. Started = {}
  BY <1>2 DEF Started
<1>4. {features[i] : i \in {n \in DOMAIN features : n < current}} = ToSet(features)
  BY <1>2 DEF ToSet
<1>5. Finished = WantedBits(ToSet(features))
  BY <1>4 DEF Finished
<1>6. frames = FramesFor(Marked(Finished), AllCalls(Finished))
  <2>1. Finished \cup Started = Finished
    BY <1>3
  <2>2. QED
    BY <2>1 DEF Framed
<1>7. ASSUME NEW w \in WantedBits(ToSet(features)), NEW x \in Segments(w)
      PROVE  LET block == Blocks(w[1][1])[x[1]]
             IN IsBlock(block) /\ IsSegbit(x[2]) /\ IsUnsigned(block, x[2])
  <2> PICK resolved \in Resolved(w) : x \in SegbitsOf(w[1][1], resolved, w[2])
    BY DEF Segments
  <2>1. w[1][1] \in DOMAIN Grid /\ resolved.type \in DOMAIN TileTypes
    BY WantedAreRead
  <2>2. IsBlock(Blocks(w[1][1])[x[1]]) /\ IsSegbit(x[2])
    BY <2>1, SegbitTypes
  <2>3. <<Blocks(w[1][1])[x[1]], x[2]>> \in BlockBits(w)
    BY DEF BlockBits, Resolved
  <2>4. IsUnsigned(Blocks(w[1][1])[x[1]], x[2])
    BY <2>3 DEF NothingWraps
  <2>5. QED
    BY <2>2, <2>4
<1>8. FramesOf(WantedBits(ToSet(features))) =
        FramesFor(Marked(WantedBits(ToSet(features))), AllCalls(WantedBits(ToSet(features))))
  BY <1>7, FramesOfCalls
<1>9. QED
  BY <1>5, <1>6, <1>8

-----------------------------------------------------------------------------
(* Bits are set in the blocks of their tiles.                              *)
AllOfBlocks ==
  /\ \A f \in ToSet(features) : f.width <= ValueBits
  /\ \A w \in WantedBits(ToSet(features)) :
       w[1][1] \in DOMAIN Grid => \A x \in BlockBits(w) : IsOfBlock(x[1], x[2])

IsInBlock(a, bit) ==
  \E tile \in DOMAIN Grid : \E bus \in DOMAIN Blocks(tile) :
    LET block == Blocks(tile)[bus] IN
    /\ a \in block.base_address .. block.base_address + block.frames - 1
    /\ bit[1] \in block.offset .. block.offset + block.words - 1

AllInBlocks(fs) == \A a \in DOMAIN fs : \A bit \in fs[a] : IsInBlock(a, bit)

LEMMA BitsInBlocksIs ==
  BitsInBlocks <=> (AllOfBlocks => step # "undefined" /\ AllInBlocks(frames))
  BY DEF BitsInBlocks, AllOfBlocks, AllInBlocks, IsInBlock

LEMMA BitsInBlocksIsNext ==
  BitsInBlocks' <=> (AllOfBlocks' => step' # "undefined" /\ AllInBlocks(frames'))
  BY DEF BitsInBlocks, AllOfBlocks, AllInBlocks, IsInBlock

LEMMA CallInBlock ==
  ASSUME IInv, InDatabase', AllOfBlocks, IsAtBit, TRUE \in BitValues, Tile \in DOMAIN Grid,
         NEW resolved \in Resolutions(Tile, Tail(feature.name)),
         resolved.type \in segment_bits_cache',
         NEW c \in BitSetterCalls(Tile, resolved, addr + feature.start_bit)
  PROVE  IsInFrame(c) /\ IsInBlock(c.address, c.bit)
<1>1. /\ current \in DOMAIN features /\ IsFeature(feature)
      /\ addr \in Nat /\ addr < feature.width
  BY CurrentFeature DEF IsAtBit, IInv, Types
<1>2. feature \in ToSet(features)
  BY <1>1 DEF feature, ToSet
<1>3. addr \in feature.bits
  <2>1. feature.width <= ValueBits
    BY <1>2 DEF AllOfBlocks
  <2>2. addr < ValueBits
    BY <1>1, <2>1, ValueBitsType DEF IsFeature
  <2>3. QED
    BY <2>2 DEF BitValues
<1>4. PICK w : w = <<feature.name, feature.start_bit + addr>>
  OBVIOUS
<1>5. w \in WantedBits(ToSet(features))
  BY <1>1, <1>2, <1>3, <1>4 DEF WantedBits
<1>6. w[1] = feature.name /\ w[1][1] = Tile /\ w[2] = addr + feature.start_bit
  BY <1>1, <1>4 DEF Tile, IsFeature
<1>7. PICK x \in SegbitsOf(Tile, resolved, addr + feature.start_bit) :
        c = BitSetterCall(Blocks(Tile)[x[1]], x[1], x[2])
  BY DEF BitSetterCalls
<1>8. PICK block : block = Blocks(Tile)[x[1]]
  OBVIOUS
<1>9. IsBlock(block) /\ IsSegbit(x[2]) /\ x[1] \in DOMAIN Blocks(Tile)
  <2>1. resolved.type \in DOMAIN TileTypes
    BY DEF InDatabase
  <2>2. QED
    BY <1>8, <2>1, SegbitTypes
<1>10. <<block, x[2]>> \in BlockBits(w)
  BY <1>6, <1>8 DEF BlockBits
<1>11. IsOfBlock(block, x[2])
  BY <1>5, <1>6, <1>10 DEF AllOfBlocks
<1>12. /\ IsUnsigned(block, x[2])
       /\ Address(block, x[2]) \in
            block.base_address .. block.base_address + block.frames - 1
       /\ Word(block, x[2]) \in block.offset .. block.offset + block.words - 1
       /\ Word(block, x[2]) < FrameWordCount
  BY <1>9, <1>11, OfBlockInFrame
<1>13. c.address = Address(block, x[2]) /\ c.bit[1] = Word(block, x[2])
  BY <1>7, <1>8, <1>9, <1>12, CallIsPlace DEF Place
<1>14. QED
  BY <1>8, <1>9, <1>12, <1>13 DEF IsInFrame, IsInBlock

LEMMA SetBitInBlocks ==
  ASSUME IInv, InDatabase', BitsInBlocks, SetBit
  PROVE  BitsInBlocks'
<1>1. /\ IsAtBit /\ TRUE \in BitValues /\ Tile \in DOMAIN Grid
      /\ features' = features /\ step' = step
  BY DEF SetBit
<1>2. AllOfBlocks' <=> AllOfBlocks
  BY <1>1 DEF AllOfBlocks
<1>3. PICK resolved \in Resolutions(Tile, Tail(feature.name)) :
        /\ resolved.type \in segment_bits_cache'
        /\ frames' = WithBits(frames,
                       BitSetterCalls(Tile, resolved, addr + feature.start_bit))
  BY DEF SetBit, ConfigBits
<1>4. ASSUME AllOfBlocks PROVE AllInBlocks(frames')
  <2> PICK more : more = BitSetterCalls(Tile, resolved, addr + feature.start_bit)
    OBVIOUS
  <2>1. \A c \in more : IsInBlock(c.address, c.bit)
    BY <1>1, <1>3, <1>4, CallInBlock
  <2>2. AllInBlocks(frames)
    BY <1>4, BitsInBlocksIs
  <2>3. PICK all : all = Blank(frames, {c.address : c \in more})
    OBVIOUS
  <2>4. \A a \in DOMAIN all : all[a] = IF a \in DOMAIN frames THEN frames[a] ELSE {}
    BY <2>3 DEF Blank
  <2>5. frames' = [a \in DOMAIN all |->
                     all[a] \cup {c.bit : c \in {d \in more : d.address = a /\ d.value}}]
    BY <1>3, <2>3 DEF WithBits
  <2>6. ASSUME NEW a \in DOMAIN frames', NEW bit \in frames'[a] PROVE IsInBlock(a, bit)
    <3>1. a \in DOMAIN all
      BY <2>5
    <3>2. CASE bit \in all[a]
      BY <2>2, <2>4, <3>1, <3>2 DEF AllInBlocks
    <3>3. CASE bit \in {c.bit : c \in {d \in more : d.address = a /\ d.value}}
      BY <2>1, <3>3
    <3>4. QED
      BY <2>5, <3>1, <3>2, <3>3
  <2>7. QED
    BY <2>6 DEF AllInBlocks
<1>5. QED
  BY <1>1, <1>2, <1>4, BitsInBlocksIs, BitsInBlocksIsNext

LEMMA StepInBlocks ==
  ASSUME IInv, Framed, InDatabase', BitsInBlocks, [Next]_vars
  PROVE  BitsInBlocks'
<1>1. CASE OpenDatabase \/ AddPUDCBFeatures \/ GetLine \/ ParseStep \/ CheckResult
           \/ EndOfLines \/ AddStepDownFeatures
  <2>1. /\ step \in Reading \cup {"open", "pudcb"} /\ UNCHANGED frames
        /\ step' # "undefined"
    BY <1>1 DEF OpenDatabase, AddPUDCBFeatures, GetLine, ParseStep, CheckResult,
                LineParsed, EndOfLines, AddStepDownFeatures, Reading
  <2>2. frames' = <<>>
    BY <2>1 DEF Framed
  <2>3. AllInBlocks(frames')
    BY <2>2 DEF AllInBlocks
  <2>4. QED
    BY <2>1, <2>3, BitsInBlocksIsNext
<1>2. CASE CannotSplit \/ SkipBit \/ SetBitDies \/ Encode \/ UNCHANGED vars
  <2>1. /\ UNCHANGED <<features, frames>>
        /\ step' = step \/ step' # "undefined"
    BY <1>2 DEF CannotSplit, SkipBit, SetBitDies, Encode, vars
  <2>2. AllOfBlocks' <=> AllOfBlocks
    BY <2>1 DEF AllOfBlocks
  <2>3. QED
    BY <2>1, <2>2, BitsInBlocksIs, BitsInBlocksIsNext
<1>3. CASE SetBit
  BY <1>3, SetBitInBlocks
<1>4. CASE SetBitBeyond
  <2>1. /\ IsAtBit /\ TRUE \in BitValues /\ Tile \in DOMAIN Grid
        /\ features' = features
    BY <1>4 DEF SetBitBeyond
  <2>2. PICK resolved \in Resolutions(Tile, Tail(feature.name)) :
          /\ resolved.type \in segment_bits_cache'
          /\ \E c \in BitSetterCalls(Tile, resolved, addr + feature.start_bit) :
               ~ IsInFrame(c)
    BY <1>4 DEF SetBitBeyond, ConfigBits
  <2>3. ~ AllOfBlocks
    BY <2>1, <2>2, CallInBlock
  <2>4. AllOfBlocks' <=> AllOfBlocks
    BY <2>1 DEF AllOfBlocks
  <2>5. QED
    BY <2>3, <2>4, BitsInBlocksIsNext
<1>5. CASE MarkFrames
  <2>1. /\ features' = features /\ step' = step
        /\ frames' = Blank(frames, UsedAddresses)
    BY <1>5 DEF MarkFrames
  <2>2. AllOfBlocks' <=> AllOfBlocks
    BY <2>1 DEF AllOfBlocks
  <2>3. AllInBlocks(frames) => AllInBlocks(frames')
    BY <2>1 DEF AllInBlocks, Blank
  <2>4. QED
    BY <2>1, <2>2, <2>3, BitsInBlocksIs, BitsInBlocksIsNext
<1>6. QED
  BY <1>1, <1>2, <1>3, <1>4, <1>5 DEF Next

(* For every database: where what is wanted is of its blocks, no frame is  *)
(* written past its end, and what is set is in a block of the grid.        *)
THEOREM StaysInBlocks == Spec => []BitsInBlocks
<1>1. Init => BitsInBlocks
  BY BitsInBlocksIs DEF Init, AllInBlocks
<1>2. QED
  BY <1>1, InitInvariant, InitFramed, InitInDatabase, StepInvariant, StepFramed,
     StepInDatabase, StepInBlocks, PTL DEF Spec

-----------------------------------------------------------------------------
(* Where the bits come from.  All features are those of the lines and of   *)
(* PUDC_B, and then those of the banks that step down.                     *)

OfCalls == IF step = "parse" THEN {FeatureOf(c) : c \in ToSet(calls)} ELSE {}

ReadFrom ==
  step \in Reading =>
    \E added \in PudcbAdditions :
      ToSet(features) = DesignFeatures \cup ToSet(added) \cup OfCalls

IsCompleted(added) ==
  WantedBits(ToSet(features)) = Complete(WantedBits(DesignFeatures \cup ToSet(added)))

IsKnown(f) == f \in DesignFeatures \/ (f.width = 1 /\ f.name[1] \in AddedTiles)

Completed ==
  step \in {"bits", "written"} =>
    /\ \A f \in ToSet(features) : IsKnown(f)
    /\ (\A f \in DesignFeatures : IsDefinite(f)) =>
         \E added \in PudcbAdditions : IsCompleted(added)

(* The features of PUDC_B set their only bit, and none is a STEPDOWN.      *)
LEMMA PudcbFeaturesAre ==
  ASSUME NEW added \in PudcbAdditions, NEW f \in ToSet(added)
  PROVE  /\ f.width = 1 /\ f.bits = {0} /\ f.name[1] \in AddedTiles
         /\ f.name[3] \notin StepDownTags
<1>1. added # <<>>
  BY NoElements
<1>2. PICK site \in PudcbSites : added = PudcbFeatures(site[1], site[2])
  BY <1>1 DEF PudcbAdditions
<1> DEFINE n1 == <<site[1], site[2], "LVCMOS12_LVCMOS15_LVCMOS18", "IN_ONLY">>
           n2 == <<site[1], site[2], "LVCMOS25_LVCMOS33_LVTTL", "IN">>
           n3 == <<site[1], site[2], "PULLTYPE", "PULLUP">>
           tags == {"LVCMOS12_LVCMOS15_LVCMOS18", "LVCMOS25_LVCMOS33_LVTTL", "PULLTYPE"}
           S == {AddedFeature(n1), AddedFeature(n2), AddedFeature(n3)}
<1>3. \A n \in {n1, n2, n3} : n[1] = site[1] /\ n[3] \in tags
  OBVIOUS
<1>4. added = <<AddedFeature(n1), AddedFeature(n2), AddedFeature(n3)>>
  BY <1>2 DEF PudcbFeatures
<1> HIDE DEF n1, n2, n3
<1>5. added \in [1 .. 3 -> S]
  BY <1>4
<1>6. f \in S
  BY <1>5 DEF ToSet
<1>7. PICK n \in {n1, n2, n3} : f = AddedFeature(n)
  BY <1>6
<1>8. /\ f.width = 1 /\ f.bits = {0} /\ f.name = n
  BY <1>7 DEF AddedFeature
<1>9. StepDownTags \cap tags = {}
  BY AssemblerAssumption
<1>10. site[1] \in AddedTiles
  BY DEF AddedTiles
<1>11. QED
  BY <1>3, <1>8, <1>9, <1>10

LEMMA StepDownNamesAre ==
  ASSUME NEW bank, NEW tag, NEW name
  PROVE  name \in StepDownNames(bank, tag) <=>
           \/ \E tile \in HclkIoi3 \cap Tiles(bank) : name = <<tile, "STEPDOWN">>
           \/ \E tile \in Iob33 \cap Tiles(bank), site \in BothSites :
                /\ name = <<tile, site, tag>>
                /\ IsSite(tile, site)
                /\ <<tile, site>> \notin UsedIobSites
<1> DEFINE sites == UNION {{<<tile, IobSite(y)>> : y \in Grid[tile].sites}
                           : tile \in Iob33 \cap Tiles(bank)}
<1>1. StepDownNames(bank, tag) =
        {Append(site, tag) : site \in sites \ UsedIobSites}
          \cup {<<tile, "STEPDOWN">> : tile \in HclkIoi3 \cap Tiles(bank)}
  BY DEF StepDownNames
<1>2. \A y : IobSite(y) \in BothSites
  BY DEF IobSite, BothSites
<1>3. \A s : s \in sites <=>
        \E tile \in Iob33 \cap Tiles(bank), site \in BothSites :
          s = <<tile, site>> /\ IsSite(tile, site)
  BY <1>2 DEF IsSite
<1> HIDE DEF sites
<1>4. ASSUME NEW s \in sites \ UsedIobSites, name = Append(s, tag)
      PROVE  \E tile \in Iob33 \cap Tiles(bank), site \in BothSites :
               /\ name = <<tile, site, tag>>
               /\ IsSite(tile, site)
               /\ <<tile, site>> \notin UsedIobSites
  <2>1. PICK tile \in Iob33 \cap Tiles(bank), site \in BothSites :
          s = <<tile, site>> /\ IsSite(tile, site)
    BY <1>3
  <2>2. name = <<tile, site, tag>>
    BY <1>4, <2>1, AppendToPair
  <2>3. QED
    BY <2>1, <2>2
<1>5. ASSUME NEW tile \in Iob33 \cap Tiles(bank), NEW site \in BothSites,
             name = <<tile, site, tag>>, IsSite(tile, site),
             <<tile, site>> \notin UsedIobSites
      PROVE  \E s \in sites \ UsedIobSites : name = Append(s, tag)
  <2>1. <<tile, site>> \in sites
    BY <1>3, <1>5
  <2>2. name = Append(<<tile, site>>, tag)
    BY <1>5, AppendToPair
  <2>3. QED
    BY <1>5, <2>1, <2>2
<1>6. QED
  BY <1>1, <1>4, <1>5

(* The lines have been read: all bits of their features are in the widths. *)
AreRead(added) ==
  /\ added \in PudcbAdditions
  /\ ToSet(features) = DesignFeatures \cup ToSet(added)
  /\ \A f \in DesignFeatures : IsDefinite(f)

Wanted == WantedBits(ToSet(features))

Tagged == {n \in Names(Wanted) : Len(n) >= 3 /\ n[3] \in StepDownTags}

LEMMA NamesWanted ==
  ASSUME IInv, NEW added, AreRead(added), NEW name
  PROVE  name \in Names(Wanted) <=> \E f \in ToSet(features) : f.name = name /\ f.bits # {}
<1>1. ASSUME NEW f \in ToSet(features), NEW k \in f.bits PROVE k < f.width
  <2>1. CASE f \in DesignFeatures
    <3>1. f.bits \subseteq 0 .. f.width - 1 /\ f.width \in Int
      BY <2>1 DEF AreRead, IsDefinite, IInv, Types, IsFeature
    <3>2. QED
      BY <3>1
  <2>2. CASE f \in ToSet(added)
    BY <2>2, PudcbFeaturesAre DEF AreRead
  <2>3. QED
    BY <2>1, <2>2 DEF AreRead
<1>2. ASSUME NEW w \in Wanted PROVE \E f \in ToSet(features) : f.name = w[1] /\ f.bits # {}
  <2>1. PICK f \in ToSet(features) :
          w \in {<<f.name, f.start_bit + k>> : k \in {j \in f.bits : j < f.width}}
    BY DEF Wanted, WantedBits
  <2>2. QED
    BY <2>1
<1>3. ASSUME NEW f \in ToSet(features), f.bits # {} PROVE f.name \in Names(Wanted)
  <2>1. PICK k \in f.bits : TRUE
    BY <1>3
  <2>2. k < f.width
    BY <1>1
  <2>3. <<f.name, f.start_bit + k>> \in Wanted
    BY <2>2 DEF Wanted, WantedBits
  <2>4. <<f.name, f.start_bit + k>>[1] = f.name
    OBVIOUS
  <2>5. QED
    BY <2>3, <2>4 DEF Names
<1>4. QED
  BY <1>2, <1>3 DEF Names

LEMMA TaggedNames ==
  ASSUME IInv, NEW added, AreRead(added)
  PROVE  /\ \A name : name \in Tagged <=> \E f \in StepDowns : f.name = name
         /\ \A f \in StepDowns : f \in DesignFeatures
<1>1. \A name : name \in Tagged <=> \E f \in StepDowns : f.name = name
  BY NamesWanted DEF Tagged, StepDowns, SiteFeatures
<1>2. \A f \in StepDowns : f \in DesignFeatures
  BY PudcbFeaturesAre DEF AreRead, StepDowns, SiteFeatures
<1>3. QED
  BY <1>1, <1>2

LEMMA UnusedSites ==
  ASSUME IInv, NEW added, AreRead(added), NEW tile \in Iob33, NEW site, NEW tag
  PROVE  <<tile, site>> \notin UsedIobSites <=>
           \A name \in Names(Wanted) : ~ Mentions(<<tile, site, tag>>, name)
<1>1. <<tile, site>> \in UsedIobSites <=>
        \E f \in ToSet(features) :
          f.bits # {} /\ Len(f.name) >= 3 /\ f.name[1] = tile /\ f.name[2] = site
  BY DEF UsedIobSites, SiteFeatures
<1> DEFINE t == <<tile, site, tag>>
<1>2. t[1] = tile /\ t[2] = site
  OBVIOUS
<1> HIDE DEF t
<1>3. \A name : Mentions(t, name) <=> Len(name) >= 3 /\ name[1] = tile /\ name[2] = site
  BY <1>2 DEF Mentions
<1>4. <<tile, site>> \in UsedIobSites <=> \E name \in Names(Wanted) : Mentions(t, name)
  BY <1>1, <1>3, NamesWanted
<1>5. QED
  BY <1>4 DEF t

FirstBank(tile) == CHOOSE b \in FrontBanks(tile) : TRUE

LEMMA ChosenBank ==
  ASSUME IInv, NEW added, AreRead(added), NEW bank \in BankChoices, NEW f \in StepDowns
  PROVE  bank[f.name[1]] = FirstBank(f.name[1])
<1> DEFINE tile == f.name[1]
           tiles == {g.name[1] : g \in StepDowns}
<1>1. tile \in tiles
  OBVIOUS
<1>2. \A t \in tiles : bank[t] \in FrontBanks(t)
  BY DEF BankChoices
<1>3. bank[tile] \in FrontBanks(tile)
  BY <1>1, <1>2
<1>4. IsDefiniteName(f.name)
  BY TaggedNames DEF AreRead, IsDefinite
<1>5. \A a, b \in FrontBanks(tile) : a = b
  BY <1>4 DEF IsDefiniteName, StepDowns, SiteFeatures
<1> HIDE DEF tile
<1>6. FirstBank(tile) \in FrontBanks(tile)
  BY <1>3 DEF FirstBank
<1>7. bank[tile] = FirstBank(tile)
  BY <1>3, <1>5, <1>6
<1>8. QED
  BY <1>7 DEF tile

(* The names that are added for the banks of all features with STEPDOWN.   *)
AddedNames(bank) == UNION {StepDownNames(bank[f.name[1]], f.name[3]) : f \in StepDowns}

IsClockOf(n, name) ==
  \E tile \in HclkIoi3 \cap Tiles(FirstBank(n[1])) : name = <<tile, "STEPDOWN">>

IsSiteOf(n, tile, site) == tile \in Iob33 \cap Tiles(FirstBank(n[1])) /\ site \in BothSites

LEMMA AddedNamesAre ==
  ASSUME IInv, NEW added, AreRead(added), NEW bank \in BankChoices, NEW name
  PROVE  name \in AddedNames(bank) <=>
           \E n \in Tagged :
             \/ IsClockOf(n, name)
             \/ \E tile, site : /\ IsSiteOf(n, tile, site)
                                /\ name = <<tile, site, n[3]>>
                                /\ IsSite(tile, site)
                                /\ <<tile, site>> \notin UsedIobSites
<1> DEFINE Right(n) ==
             \/ IsClockOf(n, name)
             \/ \E tile, site : /\ IsSiteOf(n, tile, site)
                                /\ name = <<tile, site, n[3]>>
                                /\ IsSite(tile, site)
                                /\ <<tile, site>> \notin UsedIobSites
<1>1. ASSUME NEW f \in StepDowns
      PROVE  name \in StepDownNames(bank[f.name[1]], f.name[3]) <=> Right(f.name)
  <2>1. bank[f.name[1]] = FirstBank(f.name[1])
    BY ChosenBank
  <2>2. name \in StepDownNames(FirstBank(f.name[1]), f.name[3]) <=> Right(f.name)
    BY StepDownNamesAre DEF IsClockOf, IsSiteOf
  <2>3. QED
    BY <2>1, <2>2
<1> HIDE DEF Right
<1>2. name \in AddedNames(bank) <=> \E f \in StepDowns : Right(f.name)
  BY <1>1 DEF AddedNames
<1>3. (\E f \in StepDowns : Right(f.name)) <=> \E n \in Tagged : Right(n)
  BY TaggedNames
<1>4. QED
  BY <1>2, <1>3 DEF Right

LEMMA SteppedDownAre ==
  ASSUME NEW w
  PROVE  w \in SteppedDown(Wanted) <=>
           \E n \in Tagged :
             \/ \E name : IsClockOf(n, name) /\ w = <<name, 0>>
             \/ \E tile, site : IsSiteOf(n, tile, site) /\ w = <<<<tile, site, n[3]>>, 0>>
<1> DEFINE Clocks(n) == {<<<<tile, "STEPDOWN">>, 0>> : tile \in HclkIoi3 \cap Tiles(FirstBank(n[1]))}
           Sites(n) == {<<<<tile, site, n[3]>>, 0>> :
                          tile \in Iob33 \cap Tiles(FirstBank(n[1])), site \in BothSites}
<1>1. SteppedDown(Wanted) = UNION {Clocks(n) \cup Sites(n) : n \in Tagged}
  BY DEF SteppedDown, Tagged, FirstBank, BothSites
<1>2. ASSUME NEW n
      PROVE  w \in Clocks(n) <=> \E name : IsClockOf(n, name) /\ w = <<name, 0>>
  BY DEF IsClockOf
<1>3. ASSUME NEW n
      PROVE  w \in Sites(n) <=>
               \E tile, site : IsSiteOf(n, tile, site) /\ w = <<<<tile, site, n[3]>>, 0>>
  BY DEF IsSiteOf
<1> HIDE DEF Clocks, Sites
<1>4. w \in SteppedDown(Wanted) <=> \E n \in Tagged : w \in Clocks(n) \/ w \in Sites(n)
  BY <1>1
<1>5. QED
  BY <1>2, <1>3, <1>4

FirstBits(names) == {<<name, 0>> : name \in names}

(* A bit that is stepped down is kept: a site that there is and that the   *)
(* design does not mention.                                                *)
IsKept(w) ==
  Len(w[1]) = 3 =>
    /\ IsSite(w[1][1], w[1][2])
    /\ \A name \in Names(Wanted) : ~ Mentions(w[1], name)

LEMMA KeptClock ==
  ASSUME NEW n, NEW name, IsClockOf(n, name)
  PROVE  IsKept(<<name, 0>>)
<1>1. PICK tile : name = <<tile, "STEPDOWN">>
  BY DEF IsClockOf
<1>2. Len(name) = 2
  BY <1>1
<1> DEFINE w == <<name, 0>>
<1>3. w[1] = name
  OBVIOUS
<1> HIDE DEF w
<1>4. Len(w[1]) # 3
  BY <1>2, <1>3
<1>5. QED
  BY <1>4 DEF IsKept, w

LEMMA KeptSite ==
  ASSUME IInv, NEW added, AreRead(added), NEW n, NEW tile, NEW site, IsSiteOf(n, tile, site)
  PROVE  IsKept(<<<<tile, site, n[3]>>, 0>>) <=>
           IsSite(tile, site) /\ <<tile, site>> \notin UsedIobSites
<1> DEFINE name == <<tile, site, n[3]>>
           w == <<name, 0>>
<1>1. Len(name) = 3 /\ name[1] = tile /\ name[2] = site
  OBVIOUS
<1>2. <<tile, site>> \notin UsedIobSites <=>
        \A other \in Names(Wanted) : ~ Mentions(name, other)
  BY UnusedSites DEF IsSiteOf
<1> HIDE DEF name
<1>3. w[1] = name
  OBVIOUS
<1> HIDE DEF w
<1>4. IsKept(w) <=> IsSite(tile, site) /\ <<tile, site>> \notin UsedIobSites
  BY <1>1, <1>2, <1>3 DEF IsKept
<1>5. QED
  BY <1>4 DEF w, name

LEMMA SteppedBits ==
  ASSUME IInv, NEW added, AreRead(added), NEW bank \in BankChoices
  PROVE  Wanted \cup FirstBits(AddedNames(bank)) = Complete(Wanted)
<1>1. Complete(Wanted) = Wanted \cup {w \in SteppedDown(Wanted) : IsKept(w)}
  BY DEF Complete, IsKept
<1>2. ASSUME NEW name \in AddedNames(bank)
      PROVE  <<name, 0>> \in SteppedDown(Wanted) /\ IsKept(<<name, 0>>)
  <2>1. PICK n \in Tagged :
             \/ IsClockOf(n, name)
             \/ \E tile, site : /\ IsSiteOf(n, tile, site)
                                /\ name = <<tile, site, n[3]>>
                                /\ IsSite(tile, site)
                                /\ <<tile, site>> \notin UsedIobSites
    BY AddedNamesAre
  <2>2. CASE IsClockOf(n, name)
    <3>1. IsKept(<<name, 0>>)
      BY <2>2, KeptClock
    <3>2. \E c : IsClockOf(n, c) /\ <<name, 0>> = <<c, 0>>
      BY <2>2
    <3>3. <<name, 0>> \in SteppedDown(Wanted)
      BY <3>2, SteppedDownAre
    <3>4. QED
      BY <3>1, <3>3
  <2>3. ASSUME NEW tile, NEW site, IsSiteOf(n, tile, site), name = <<tile, site, n[3]>>,
               IsSite(tile, site), <<tile, site>> \notin UsedIobSites
        PROVE  <<name, 0>> \in SteppedDown(Wanted) /\ IsKept(<<name, 0>>)
    <3>1. IsKept(<<<<tile, site, n[3]>>, 0>>)
      BY <2>3, KeptSite
    <3>2. <<<<tile, site, n[3]>>, 0>> \in SteppedDown(Wanted)
      BY <2>3, SteppedDownAre
    <3>3. QED
      BY <2>3, <3>1, <3>2
  <2>4. QED
    BY <2>1, <2>2, <2>3
<1>3. ASSUME NEW w \in SteppedDown(Wanted), IsKept(w)
      PROVE  \E name \in AddedNames(bank) : w = <<name, 0>>
  <2>1. PICK n \in Tagged :
             \/ \E name : IsClockOf(n, name) /\ w = <<name, 0>>
             \/ \E tile, site : IsSiteOf(n, tile, site) /\ w = <<<<tile, site, n[3]>>, 0>>
    BY SteppedDownAre
  <2>2. ASSUME NEW name, IsClockOf(n, name), w = <<name, 0>>
        PROVE  \E c \in AddedNames(bank) : w = <<c, 0>>
    <3>1. name \in AddedNames(bank)
      BY <2>2, AddedNamesAre
    <3>2. QED
      BY <2>2, <3>1
  <2>3. ASSUME NEW tile, NEW site, IsSiteOf(n, tile, site), w = <<<<tile, site, n[3]>>, 0>>
        PROVE  \E c \in AddedNames(bank) : w = <<c, 0>>
    <3>1. IsSite(tile, site) /\ <<tile, site>> \notin UsedIobSites
      BY <1>3, <2>3, KeptSite
    <3> DEFINE name == <<tile, site, n[3]>>
    <3>2. name = <<tile, site, n[3]>>
      OBVIOUS
    <3> HIDE DEF name
    <3>3. name \in AddedNames(bank)
      BY <2>3, <3>1, <3>2, AddedNamesAre
    <3>4. w = <<name, 0>>
      BY <2>3, <3>2
    <3>5. QED
      BY <3>3, <3>4
  <2>4. QED
    BY <2>1, <2>2, <2>3
<1>4. FirstBits(AddedNames(bank)) = {w \in SteppedDown(Wanted) : IsKept(w)}
  BY <1>2, <1>3 DEF FirstBits
<1>5. QED
  BY <1>1, <1>4

(* In whatever order, each of the names is added.                          *)
LEMMA OrderedFeatures ==
  ASSUME NEW names, names \subseteq PossibleNames, NEW order \in SetToSeqs(names)
  PROVE  LET added == [i \in DOMAIN order |-> AddedFeature(order[i])]
         IN /\ added \in Seq(ToSet(added))
            /\ ToSet(added) = {AddedFeature(name) : name \in names}
<1> DEFINE n == Cardinality(names)
           added == [i \in DOMAIN order |-> AddedFeature(order[i])]
<1>1. IsFiniteSet(names) /\ n \in Nat
  BY PossibleNamesFinite, FS_Subset, FS_CardinalityType
<1>2. order \in [1 .. n -> names] /\ \A i, j \in 1 .. n : i # j => order[i] # order[j]
  BY DEF SetToSeqs
<1>3. order \in Injection(1 .. n, names)
  <2> HIDE DEF n
  <2>1. DOMAIN order = 1 .. n
    BY <1>2
  <2>2. QED
    BY <1>2, <2>1 DEF IsInjective, Injection
<1>4. Cardinality(1 .. n) = n /\ IsFiniteSet(1 .. n)
  BY <1>1, FS_Interval
<1>5. order \in Surjection(1 .. n, names)
  BY <1>1, <1>3, <1>4, FS_Injection
<1>6. added \in Seq(ToSet(added))
  BY SteppedFeatures
<1> HIDE DEF n
<1>7. DOMAIN order = 1 .. n /\ \A name \in names : \E i \in 1 .. n : order[i] = name
  BY <1>2, <1>5 DEF Surjection
<1>8. \A i \in 1 .. n : order[i] \in names
  BY <1>2
<1>9. ToSet(added) = {AddedFeature(name) : name \in names}
  BY <1>7, <1>8 DEF ToSet
<1>10. QED
  BY <1>6, <1>9

LEMMA AddedNamesPossible ==
  ASSUME NEW bank
  PROVE  AddedNames(bank) \subseteq PossibleNames
<1> SUFFICES ASSUME NEW f \in StepDowns, NEW name \in StepDownNames(bank[f.name[1]], f.name[3])
             PROVE  name \in PossibleNames
  BY DEF AddedNames
<1>1. f.name[3] \in StepDownTags
  BY DEF StepDowns
<1>2. IsSiteName(name) \/ IsClockName(name)
  BY <1>1, SteppedNames
<1>3. CASE IsClockName(name)
  BY <1>3 DEF IsClockName, PossibleNames
<1>4. CASE IsSiteName(name)
  <2>1. PICK tile \in Iob33, site \in BothSites, tag \in StepDownTags :
          name = <<tile, site, tag>>
    BY <1>4 DEF IsSiteName
  <2> DEFINE p == <<tile, <<site, tag>>>>
  <2>2. p \in Iob33 \X (BothSites \X StepDownTags)
    OBVIOUS
  <2>3. <<p[1], p[2][1], p[2][2]>> = <<tile, site, tag>>
    OBVIOUS
  <2> HIDE DEF p
  <2>4. QED
    BY <2>1, <2>2, <2>3 DEF PossibleNames
<1>5. QED
  BY <1>2, <1>3, <1>4

LEMMA AddedTilesOfNames ==
  ASSUME NEW name \in PossibleNames
  PROVE  name[1] \in AddedTiles
<1>1. CASE \E p \in Iob33 \X (BothSites \X StepDownTags) : name = <<p[1], p[2][1], p[2][2]>>
  BY <1>1 DEF AddedTiles
<1>2. CASE \E tile \in HclkIoi3 : name = <<tile, "STEPDOWN">>
  BY <1>2 DEF AddedTiles
<1>3. QED
  BY <1>1, <1>2 DEF PossibleNames

LEMMA UnionOfBits ==
  ASSUME NEW F, NEW G
  PROVE  WantedBits(F \cup G) = WantedBits(F) \cup WantedBits(G)
  BY DEF WantedBits

LEMMA AddedBits ==
  ASSUME NEW names
  PROVE  WantedBits({AddedFeature(name) : name \in names}) = FirstBits(names)
<1> DEFINE bits(f) == {<<f.name, f.start_bit + k>> : k \in {j \in f.bits : j < f.width}}
<1>1. ASSUME NEW name PROVE bits(AddedFeature(name)) = {<<name, 0>>}
  <2> DEFINE f == AddedFeature(name)
  <2>1. f.name = name /\ f.start_bit = 0 /\ f.width = 1 /\ f.bits = {0}
    BY DEF AddedFeature
  <2> HIDE DEF f
  <2>2. {j \in f.bits : j < f.width} = {0}
    BY <2>1
  <2>3. f.start_bit + 0 = 0
    BY <2>1
  <2>4. bits(f) = {<<name, 0>>}
    BY <2>1, <2>2, <2>3
  <2>5. QED
    BY <2>4 DEF f
<1>2. WantedBits({AddedFeature(name) : name \in names}) =
        UNION {bits(AddedFeature(name)) : name \in names}
  BY DEF WantedBits
<1> HIDE DEF bits
<1>3. QED
  BY <1>1, <1>2 DEF FirstBits

LEMMA InitSources == Init => ReadFrom /\ Completed
  BY DEF Init, ReadFrom, Completed, Reading

(* The banks step down: the bits are complete.                             *)
LEMMA StepDownSources ==
  ASSUME IInv, ReadFrom, AddStepDownFeatures
  PROVE  ReadFrom' /\ Completed'
<1>1. /\ step = "stepdown" /\ step' \in {"died", "bits"} /\ UNCHANGED <<design, line_number>>
  BY DEF AddStepDownFeatures, lineVars
<1>2. ReadFrom'
  BY <1>1 DEF ReadFrom, Reading
<1>3. DesignFeatures' = DesignFeatures
  BY <1>1, SameDesign
<1>4. PICK added \in PudcbAdditions : ToSet(features) = DesignFeatures \cup ToSet(added)
  BY <1>1 DEF ReadFrom, Reading, OfCalls
<1>5. CASE step' = "bits"
  <2>1. PICK bank \in BankChoices : \E order \in SetToSeqs(AddedNames(bank)) :
          features' = features \o [i \in DOMAIN order |-> AddedFeature(order[i])]
    BY <1>5 DEF AddStepDownFeatures, AddedNames
  <2>2. PICK order \in SetToSeqs(AddedNames(bank)) :
          features' = features \o [i \in DOMAIN order |-> AddedFeature(order[i])]
    BY <2>1
  <2> DEFINE more == [i \in DOMAIN order |-> AddedFeature(order[i])]
             named == {AddedFeature(name) : name \in AddedNames(bank)}
  <2>3. more \in Seq(ToSet(more)) /\ ToSet(more) = named
    BY AddedNamesPossible, OrderedFeatures
  <2>4. features' = features \o more
    BY <2>2
  <2> HIDE DEF more
  <2>5. ToSet(features') = ToSet(features) \cup named
    <3>1. features \in Seq(ToSet(features))
      BY DEF IInv, Types
    <3>2. QED
      BY <2>3, <2>4, <3>1, ConcatElements
  <2> HIDE DEF named
  <2>6. \A f \in ToSet(features') : f \in DesignFeatures \/ (f.width = 1 /\ f.name[1] \in AddedTiles)
    <3>1. \A f \in ToSet(added) : f.width = 1 /\ f.name[1] \in AddedTiles
      BY PudcbFeaturesAre
    <3>2. ASSUME NEW name \in AddedNames(bank)
          PROVE  AddedFeature(name).width = 1 /\ AddedFeature(name).name[1] \in AddedTiles
      <4>1. AddedFeature(name).width = 1 /\ AddedFeature(name).name = name
        BY DEF AddedFeature
      <4>2. name[1] \in AddedTiles
        BY AddedNamesPossible, AddedTilesOfNames
      <4>3. QED
        BY <4>1, <4>2
    <3>3. \A f \in named : f.width = 1 /\ f.name[1] \in AddedTiles
      BY <3>2 DEF named
    <3>4. QED
      BY <1>4, <2>5, <3>1, <3>3
  <2>7. ASSUME \A f \in DesignFeatures : IsDefinite(f)
        PROVE  WantedBits(ToSet(features')) = Complete(WantedBits(DesignFeatures \cup ToSet(added)))
    <3>1. AreRead(added)
      BY <1>4, <2>7 DEF AreRead
    <3>2. Wanted \cup FirstBits(AddedNames(bank)) = Complete(Wanted)
      BY <3>1, SteppedBits
    <3>3. WantedBits(named) = FirstBits(AddedNames(bank))
      BY AddedBits DEF named
    <3>4. WantedBits(ToSet(features')) = Wanted \cup FirstBits(AddedNames(bank))
      BY <2>5, <3>3, UnionOfBits DEF Wanted
    <3>5. QED
      BY <1>4, <3>2, <3>4 DEF Wanted
  <2>8. QED
    BY <1>2, <1>3, <2>6, <2>7 DEF Completed, IsKnown, IsCompleted
<1>6. QED
  BY <1>1, <1>2, <1>5 DEF Completed

LEMMA SourcesStep == IInv /\ ReadFrom /\ Completed /\ [Next]_vars => ReadFrom' /\ Completed'
<1> SUFFICES ASSUME IInv, ReadFrom, Completed, [Next]_vars
             PROVE  ReadFrom' /\ Completed'
  OBVIOUS
<1>1. CASE OpenDatabase
  BY <1>1 DEF OpenDatabase, ReadFrom, Completed, Reading
<1>2. CASE AddPUDCBFeatures
  <2>1. /\ step = "pudcb" /\ step' = "lines" /\ UNCHANGED <<design, line_number>>
    BY <1>2 DEF AddPUDCBFeatures, lineVars
  <2>2. PICK added \in PudcbAdditions : features' = features \o added
    BY <1>2 DEF AddPUDCBFeatures
  <2>3. ToSet(features) = {} /\ features \in Seq(ToSet(features))
    BY <2>1, NoElements DEF IInv, Origin, Types
  <2>4. ToSet(features') = ToSet(added)
    <3>1. added \in Seq(ToSet(added)) /\ \A f \in ToSet(added) : IsFeature(f)
      BY PudcbNames
    <3>2. ToSet(features') = ToSet(features) \cup ToSet(added)
      BY <2>2, <3>1, MoreFeatures
    <3>3. QED
      BY <2>3, <3>2
  <2>5. DesignFeatures = {} /\ DesignFeatures' = DesignFeatures
    BY <2>1, <2>3, SameDesign DEF IInv, Collected
  <2>6. OfCalls' = {}
    BY <2>1 DEF OfCalls
  <2>7. QED
    BY <2>1, <2>4, <2>5, <2>6 DEF ReadFrom, Completed
<1>3. CASE GetLine
  <2>1. /\ step = "lines" /\ step' = "parse" /\ calls' = <<>>
        /\ UNCHANGED <<design, line_number, features>>
    BY <1>3 DEF GetLine
  <2>2. OfCalls = {} /\ OfCalls' = {}
    BY <2>1, NoElements DEF OfCalls
  <2>3. DesignFeatures' = DesignFeatures
    BY <2>1, SameDesign
  <2>4. QED
    BY <2>1, <2>2, <2>3 DEF ReadFrom, Completed, Reading
<1>4. CASE ParseStep
  <2>1. /\ step = "parse" /\ step' = "parse" /\ UNCHANGED <<text, design, line_number>>
    BY <1>4 DEF ParseStep
  <2>2. PICK fresh :
          /\ ToSet(calls') = ToSet(calls) \cup fresh
          /\ ToSet(features') = ToSet(features) \cup {FeatureOf(c) : c \in fresh}
    BY <1>4, CallsAreFeatures
  <2>3. DesignFeatures' = DesignFeatures /\ \A c : FeatureOf(c)' = FeatureOf(c)
    BY <2>1, SameDesign, SameFeatureOf
  <2>4. OfCalls' = OfCalls \cup {FeatureOf(c) : c \in fresh}
    <3>1. OfCalls' = {FeatureOf(c) : c \in ToSet(calls')}
      BY <2>1, <2>3 DEF OfCalls
    <3>2. QED
      BY <2>1, <2>2, <3>1 DEF OfCalls
  <2>5. PICK added \in PudcbAdditions :
          ToSet(features) = DesignFeatures \cup ToSet(added) \cup OfCalls
    BY <2>1 DEF ReadFrom, Reading
  <2>6. ToSet(features') = DesignFeatures \cup ToSet(added) \cup OfCalls'
    BY <2>2, <2>4, <2>5
  <2>7. QED
    BY <2>1, <2>3, <2>6 DEF ReadFrom, Completed
<1>5. CASE CheckResult
  <2>1. /\ step = "parse" /\ step' \in {"lines", "failed"} /\ features' = features
    BY <1>5 DEF CheckResult, LineParsed
  <2>2. DesignFeatures' = DesignFeatures \cup OfCalls
    BY <1>5, <2>1, DesignGrows DEF OfCalls
  <2>3. OfCalls' = {}
    BY <2>1 DEF OfCalls
  <2>4. PICK added \in PudcbAdditions :
          ToSet(features) = DesignFeatures \cup ToSet(added) \cup OfCalls
    BY <2>1 DEF ReadFrom, Reading
  <2>5. ToSet(features') = DesignFeatures' \cup ToSet(added) \cup OfCalls'
    BY <2>1, <2>2, <2>3, <2>4
  <2>6. QED
    BY <2>1, <2>5 DEF ReadFrom, Completed
<1>6. CASE EndOfLines
  <2>1. /\ step = "lines" /\ step' = "stepdown"
        /\ UNCHANGED <<design, line_number, features>>
    BY <1>6 DEF EndOfLines, lineVars
  <2>2. OfCalls = {} /\ OfCalls' = {}
    BY <2>1 DEF OfCalls
  <2>3. DesignFeatures' = DesignFeatures
    BY <2>1, SameDesign
  <2>4. QED
    BY <2>1, <2>2, <2>3 DEF ReadFrom, Completed, Reading
<1>7. CASE \/ CannotSplit \/ SkipBit \/ SetBit \/ SetBitBeyond \/ SetBitDies
           \/ MarkFrames \/ Encode
  <2>1. /\ step = "bits" /\ step' \in {"bits", "written", "failed", "died", "undefined"}
        /\ UNCHANGED <<design, line_number, features>>
    BY <1>7 DEF CannotSplit, SkipBit, SetBit, SetBitBeyond, SetBitDies, MarkFrames, Encode,
                IsAtBit, lineVars
  <2>2. DesignFeatures' = DesignFeatures
    BY <2>1, SameDesign
  <2>3. QED
    BY <2>1, <2>2 DEF ReadFrom, Completed, Reading, IsKnown, IsCompleted
<1>8. CASE UNCHANGED vars
  <2>1. UNCHANGED <<text, design, line_number, features, step, calls>>
    BY <1>8 DEF vars, lineVars, parserVars
  <2>2. DesignFeatures' = DesignFeatures /\ \A c : FeatureOf(c)' = FeatureOf(c)
    BY <2>1, SameDesign, SameFeatureOf
  <2>3. OfCalls' = OfCalls
    BY <2>1, <2>2 DEF OfCalls
  <2>4. QED
    BY <2>1, <2>2, <2>3 DEF ReadFrom, Completed, Reading, IsKnown, IsCompleted
<1>9. QED
  BY <1>1, <1>2, <1>3, <1>4, <1>5, <1>6, <1>7, <1>8, StepDownSources DEF Next

(* From lines to frames, for every database: what is encoded has exactly   *)
(* the bits of the design, of PUDC_B and of the banks that step down.      *)
THEOREM WritesTheDesign == Spec => []FramesOfDesign
<1>1. Spec => [](IInv /\ Framed /\ InDatabase /\ ReadFrom /\ Completed)
  BY AlwaysFramed, InitInvariant, InitInDatabase, StepInDatabase, InitSources, SourcesStep,
     PTL DEF Spec
<1>2. IInv /\ Framed /\ InDatabase /\ Completed => FramesOfDesign
  <2> SUFFICES ASSUME IInv, Framed, InDatabase, Completed, step = "written", NothingWraps,
                      \A tile \in AddedTiles : AliasesAgree(tile),
                      \A f \in DesignFeatures : IsDefinite(f)
               PROVE  \E added \in PudcbAdditions :
                        frames = FramesOf(Complete(WantedBits(DesignFeatures \cup ToSet(added))))
    BY DEF FramesOfDesign
  <2>1. PICK added \in PudcbAdditions : IsCompleted(added)
    BY DEF Completed
  <2>2. ASSUME NEW f \in ToSet(features) PROVE HasOneReading(f)
    <3>1. IsKnown(f)
      BY DEF Completed
    <3>2. CASE f \in DesignFeatures
      BY <3>2 DEF IsDefinite, IsDefiniteName, HasOneReading
    <3>3. CASE f.width = 1 /\ f.name[1] \in AddedTiles
      <4>1. f.width <= ValueBits
        BY <3>3, ValueBitsType
      <4>2. QED
        BY <3>3, <4>1 DEF HasOneReading
    <3>4. QED
      BY <3>1, <3>2, <3>3 DEF IsKnown
  <2>3. frames = FramesOf(WantedBits(ToSet(features)))
    BY <2>2, FramesAreOfFeatures DEF FramesOfFeatures, Definite
  <2>4. QED
    BY <2>1, <2>3 DEF IsCompleted
<1>3. QED
  BY <1>1, <1>2, PTL

-----------------------------------------------------------------------------
(* From the text to the features.  A step of the parser of the assembler   *)
(* is one of PP, so the invariants of FasmParserProofs hold of each line.  *)
LEMMA SameNumbers ==
  /\ \A l : P!MinBit(l) = PP!MinBit(l) /\ P!MaxBit(l) = PP!MaxBit(l)
  /\ \A l : P!RangeWidth(l) = PP!RangeWidth(l)
  /\ \A l : P!Base(l) = PP!Base(l) /\ P!Bitset(l) = PP!Bitset(l)
  /\ \A l : P!NoBracket(l) <=> PP!NoBracket(l)
  /\ \A l : P!Inverted(l) <=> PP!Inverted(l)
<1>1. \A l : P!MinBit(l) = PP!MinBit(l) /\ P!MaxBit(l) = PP!MaxBit(l)
  BY DEF P!MinBit, PP!MinBit, P!MaxBit, PP!MaxBit, P!Last, PP!Last
<1>2. \A l : P!RangeWidth(l) = PP!RangeWidth(l)
  BY <1>1 DEF P!RangeWidth, PP!RangeWidth
<1>3. \A l : P!Base(l) = PP!Base(l)
  BY DEF P!Base, PP!Base
<1>4. \A l : P!Bitset(l) = PP!Bitset(l)
  BY DEF P!Bitset, PP!Bitset, P!LongNumberWithBase, PP!LongNumberWithBase,
         P!NumberWithBase, PP!NumberWithBase, P!WordLimit, PP!WordLimit,
         P!FoldLeft, PP!FoldLeft, P!MapThenFoldSet, PP!MapThenFoldSet,
         P!Min, PP!Min, P!Max, PP!Max, P!Reverse, PP!Reverse
<1>5. \A l : P!NoBracket(l) <=> PP!NoBracket(l)
  BY DEF P!NoBracket, PP!NoBracket
<1>6. \A l : P!Inverted(l) <=> PP!Inverted(l)
  BY <1>1, <1>5 DEF P!Inverted, PP!Inverted
<1>7. QED
  BY <1>1, <1>2, <1>3, <1>4, <1>5, <1>6

LEMMA SameValues ==
  /\ \A l : P!Fits(l) <=> PP!Fits(l)
  /\ \A l : P!Assigned(l) = PP!Assigned(l)
<1>1. \A l : P!DigitBits(l) = PP!DigitBits(l)
  BY SameNumbers DEF P!DigitBits, PP!DigitBits
<1>2. \A l : P!Fits(l) <=> PP!Fits(l)
  BY <1>1, SameNumbers DEF P!Fits, PP!Fits
<1>3. \A b : P!Radix(b) = PP!Radix(b)
  BY DEF P!Radix, PP!Radix
<1>4. \A d, b : P!Number(d, b) = PP!Number(d, b)
  <2> TAKE d, b
  <2>1. QED
    BY DEF P!Number, PP!Number, P!FoldLeft, PP!FoldLeft, P!MapThenFoldSet,
           PP!MapThenFoldSet, P!Max, PP!Max
<1>5. \A l : P!Assigned(l) = PP!Assigned(l)
  BY <1>3, <1>4, SameNumbers DEF P!Assigned, PP!Assigned
<1>6. QED
  BY <1>2, <1>5

LEMMA SameIssues ==
  /\ \A S : P!Worst(S) = PP!Worst(S)
  /\ \A l : P!UnknownBase(l) <=> PP!UnknownBase(l)
  /\ \A l : P!Width(l) = PP!Width(l)
  /\ \A l : P!Issues(l) = PP!Issues(l)
<1>1. \A S : P!Worst(S) = PP!Worst(S)
  BY DEF P!Worst, PP!Worst, P!Max, PP!Max
<1>2. \A l : P!UnknownBase(l) <=> PP!UnknownBase(l)
  BY SameNumbers DEF P!UnknownBase, PP!UnknownBase
<1>3. \A l : P!Trims(l) <=> PP!Trims(l)
  BY SameNumbers DEF P!Trims, PP!Trims
<1>4. \A l : P!Width(l) = PP!Width(l)
  BY <1>3, SameNumbers DEF P!Width, PP!Width
<1>5. \A l : P!Issues(l) = PP!Issues(l)
  BY <1>2, <1>3, SameNumbers
  DEF P!Issues, PP!Issues, P!kInfo, PP!kInfo, P!kNonCritical, PP!kNonCritical,
      P!kError, PP!kError
<1>6. QED
  BY <1>1, <1>2, <1>4, <1>5

(* The parser of the assembler takes the steps of FasmParser.              *)
LEMMA SameSteps == P!Next => PP!Next
<1> USE DEF P!inputs, PP!inputs, P!kError, PP!kError, P!kSkipped, PP!kSkipped,
            P!kUserAbort, PP!kUserAbort
<1>1. P!line = PP!line
  BY DEF P!line, PP!line
<1>2. P!NextLine <=> PP!NextLine
  BY DEF P!NextLine, PP!NextLine
<1>3. P!Start => PP!Start
  BY DEF P!Start, PP!Start
<1>4. P!NoFeature => PP!NoFeature
  BY <1>1 DEF P!NoFeature, PP!NoFeature
<1>5. P!SkipLine => PP!SkipLine
  BY <1>1, <1>2, SameNumbers, SameIssues DEF P!SkipLine, PP!SkipLine
<1>6. P!ReadValue => PP!ReadValue
  BY <1>1, SameNumbers, SameIssues DEF P!ReadValue, PP!ReadValue
<1>7. P!Report => PP!Report
  <2>1. \A k : P!ValueWidth(k) = PP!ValueWidth(k)
    BY DEF P!ValueWidth, PP!ValueWidth
  <2>2. \A k : P!ClampedBits(k) = PP!ClampedBits(k)
    BY <2>1 DEF P!ClampedBits, PP!ClampedBits
  <2>3. \A bits : P!Call(bits) = PP!Call(bits)
    BY <1>1, <2>1, SameNumbers DEF P!Call, PP!Call
  <2>4. P!AfterChunks = PP!AfterChunks
    BY <1>1, SameIssues DEF P!AfterChunks, PP!AfterChunks
  <2>5. QED
    BY <2>2, <2>3, <2>4, SameIssues DEF P!Report, PP!Report
<1>8. P!ReadAnnotations => PP!ReadAnnotations
  <2> DEFINE list == PP!line.annotations[1].list
  <2>1. P!SelectInSeq(list, LAMBDA a : a # "quoted") = PP!SelectInSeq(list, LAMBDA a : a # "quoted")
    BY DEF P!SelectInSeq, PP!SelectInSeq, P!Min, PP!Min
  <2>2. QED
    BY <1>1, <2>1, Zenon DEF P!ReadAnnotations, PP!ReadAnnotations
<1>9. P!NoAnnotations => PP!NoAnnotations
  BY <1>1 DEF P!NoAnnotations, PP!NoAnnotations
<1>10. P!EndOfLine => PP!EndOfLine
  BY <1>2 DEF P!EndOfLine, PP!EndOfLine
<1>11. QED
  BY <1>3, <1>4, <1>5, <1>6, <1>7, <1>8, <1>9, <1>10 DEF P!Next, PP!Next

-----------------------------------------------------------------------------
(* No line is skipped but where a range is inverted, and the callback      *)
(* never stops the parser.                                                 *)
NotSkipped ==
  /\ result # P!kUserAbort
  /\ result = P!kSkipped => P!Inverted(text.lines[line_number])

ParsedRightly ==
  step = "parse" => PP!IInv /\ PP!Reported /\ NotSkipped

LEMMA NewParser == PP!Init => PP!IInv /\ PP!Reported
  BY ParserAssumptions, PP!InitInvariant, PP!InitReported

LEMMA NewParserNext == PP!Init' => PP!IInv' /\ PP!Reported'
  BY NewParser, PTL

LEMMA GetLineParsed ==
  ASSUME IInv, GetLine
  PROVE  ParsedRightly'
<1>1. /\ at' = "start" /\ parser_line' = 1 /\ result' = P!kSuccess
      /\ width' = 0 /\ bitset' = <<>> /\ chunk' = 1
      /\ calls' = <<>> /\ notes' = <<>>
      /\ text' = text /\ line_number' = line_number
      /\ line_number <= Len(text.lines)
  BY DEF GetLine
<1>2. /\ text \in Texts /\ line_number \in Nat \ {0}
      /\ text.lines \in Seq(ToSet(text.lines))
  BY AssemblerAssumption DEF IInv, Types
<1>3. text.lines[line_number] \in Lines
  <2>1. line_number \in DOMAIN text.lines
    BY <1>1, <1>2, LenProperties
  <2>2. QED
    BY <1>2, <2>1 DEF Lines, ToSet
<1>4. PP!Init'
  <2>1. <<text'.lines[line_number']>> \in {<<l>> : l \in Lines}
    BY <1>1, <1>3
  <2>2. (line_number' < Len(text'.lines) \/ text'.newline) \in BOOLEAN
    BY <1>1
  <2>3. QED
    BY <1>1, <2>1, <2>2 DEF PP!Init, P!kSuccess, PP!kSuccess
<1>5. NotSkipped'
  BY <1>1 DEF NotSkipped, P!kSuccess, P!kSkipped, P!kUserAbort
<1>6. QED
  BY <1>4, <1>5, NewParserNext DEF ParsedRightly

LEMMA ParseStepParsed ==
  ASSUME IInv, ParsedRightly, ParseStep
  PROVE  ParsedRightly'
<1>1. /\ step = "parse" /\ P!Next /\ UNCHANGED <<text, step, line_number>>
      /\ PP!IInv /\ PP!Reported /\ NotSkipped
  BY DEF ParseStep, ParsedRightly
<1>2. PP!IInv' /\ PP!Reported'
  <2>1. PP!Next
    BY <1>1, SameSteps
  <2>2. PP!IInv'
    BY <1>1, <2>1, ParserAssumptions, PP!StepInvariant
  <2>3. PP!Reported'
    BY <1>1, <2>1, ParserAssumptions, PP!StepReported DEF PP!RInv
  <2>4. QED
    BY <2>2, <2>3
<1> DEFINE l == text.lines[line_number]
<1>3. /\ at = "start" \/ at \in {"feature", "chunks", "annotations", "end of line", "done"}
      /\ at # "done" => parser_line = 1
      /\ P!line = <<l>>[parser_line] /\ <<l>>[1] = l
  BY <1>1 DEF IInv, Parsing, P!line
<1>4. result \in 0 .. 5
  BY <1>1 DEF PP!IInv, PP!Position, PP!kSuccess, PP!kError
<1> HIDE DEF l
<1>5. ASSUME result' # result, result' # P!kError PROVE result' # P!kUserAbort
                     /\ (result' = P!kSkipped => P!Inverted(l))
  <2>1. CASE P!Start \/ P!NoFeature \/ P!ReadAnnotations \/ P!NoAnnotations \/ P!EndOfLine
    BY <1>5, <2>1 DEF P!Start, P!NoFeature, P!ReadAnnotations, P!NoAnnotations, P!EndOfLine
  <2>2. CASE P!SkipLine
    <3>1. at # "done" /\ P!Inverted(P!line) /\ result' = P!Worst({result, P!kSkipped})
      BY <1>5, <2>2 DEF P!SkipLine
    <3>2. P!Inverted(l)
      BY <1>3, <3>1
    <3>3. result' \in {result, P!kSkipped}
      <4>1. {result, P!kSkipped} \subseteq PP!kSuccess .. PP!kError
        BY <1>4 DEF P!kSkipped, PP!kSuccess, PP!kError
      <4>2. PP!Worst({result, P!kSkipped}) \in {result, P!kSkipped}
        BY <4>1, ParserAssumptions, PP!WorstIsWorst
      <4>3. QED
        BY <3>1, <4>2, SameIssues
    <3>4. QED
      BY <1>5, <3>2, <3>3 DEF P!kSkipped, P!kUserAbort
  <2>3. CASE P!ReadValue
    <3>1. result' = P!Worst({result} \cup P!Issues(P!line))
      BY <2>3 DEF P!ReadValue
    <3>2. P!Issues(P!line) \subseteq {P!kInfo, P!kNonCritical, P!kError}
      BY DEF P!Issues
    <3>3. result' \in {result} \cup P!Issues(P!line)
      <4>1. {result} \cup P!Issues(P!line) \subseteq PP!kSuccess .. PP!kError
        BY <1>4, <3>2 DEF P!kInfo, P!kNonCritical, P!kError, PP!kSuccess, PP!kError
      <4>2. PP!Worst({result} \cup P!Issues(P!line)) \in {result} \cup P!Issues(P!line)
        BY <4>1, ParserAssumptions, PP!WorstIsWorst
      <4>3. QED
        BY <3>1, <4>2, SameIssues
    <3>4. result' \in {P!kInfo, P!kNonCritical}
      BY <1>5, <3>2, <3>3
    <3>5. QED
      BY <3>4 DEF P!kInfo, P!kNonCritical, P!kSkipped, P!kUserAbort
  <2>4. CASE P!Report
    BY <1>5, <2>4 DEF P!Report
  <2>5. QED
    BY <1>1, <2>1, <2>2, <2>3, <2>4 DEF P!Next
<1>6. P!Inverted(l)' <=> P!Inverted(l)
  BY <1>1 DEF P!Inverted, P!NoBracket, P!MaxBit, P!MinBit, P!Last, l
<1>7. NotSkipped'
  <2>1. CASE result' = result
    BY <1>1, <1>6, <2>1 DEF NotSkipped, l
  <2>2. CASE result' = P!kError
    BY <2>2 DEF NotSkipped, P!kError, P!kSkipped, P!kUserAbort
  <2>3. CASE result' # result /\ result' # P!kError
    BY <1>5, <1>6, <2>3 DEF NotSkipped, l
  <2>4. QED
    BY <2>1, <2>2, <2>3
<1>8. QED
  BY <1>2, <1>7 DEF ParsedRightly

-----------------------------------------------------------------------------
(* What a line assigns, as bits, and as it must be for FramesOfText.       *)
BitsOf(l) ==
  IF l.feature = "" THEN {}
  ELSE {<<SegmentsOf[l.feature], P!MinBit(l) + k>> :
          k \in {j \in 0 .. P!RangeWidth(l) - 1 : (P!Assigned(l) \div 2 ^ j) % 2 = 1}}

IsPlain(l) == l.feature # "" => P!Fits(l) /\ ~ P!Inverted(l)

(* The features are of the line, and no shift for them is undefined.       *)
IsFeatureOf(l, f) ==
  /\ l.feature # "" /\ f.name = SegmentsOf[l.feature]
  /\ f.width <= ValueBits /\ f.bits \subseteq 0 .. f.width - 1

AssignedIn(l, F) ==
  /\ \A f \in F : IsFeatureOf(l, f)
  /\ WantedBits(F) = BitsOf(l)

(* Each line that has been read set what it assigns.                       *)
OfText ==
  \A i \in 1 .. line_number - 1 :
    design[i].accepted /\ IsPlain(text.lines[i]) =>
      AssignedIn(text.lines[i], ToSet(design[i].features))

LEMMA BitOfChunk ==
  \A n, s, w, j \in Nat :
    (((n \div 2 ^ s) % 2 ^ w) \div 2 ^ j) % 2
      = IF j < w THEN (n \div 2 ^ (s + j)) % 2 ELSE 0
  BY ParserAssumptions, PP!BitOfPart

(* The bits that the callback makes of a value: those of the number from   *)
(* place s on.                                                             *)
IsChunk(l, c, s) ==
  /\ c.start_bit = P!MinBit(l) + s /\ s + c.width <= P!RangeWidth(l)
  /\ {k \in 0 .. ValueBits - 1 : (c.bits \div 2 ^ k) % 2 = 1}
       = {k \in 0 .. c.width - 1 : (P!Assigned(l) \div 2 ^ (s + k)) % 2 = 1}

LEMMA BitsOfCall ==
  ASSUME NEW l, P!IsLine(l), NEW c, PP!IsPlaced(l, c), PP!ReportsBits(l, c), P!Fits(l),
         c.start_bit \in Int
  PROVE  /\ l.feature # "" /\ c.width \in 1 .. ValueBits
         /\ P!MinBit(l) \in Nat /\ P!RangeWidth(l) \in Int /\ P!Assigned(l) \in Nat
         /\ \E s \in Nat : IsChunk(l, c, s)
<1>1. PP!IsLine(l)
  BY SameLine
<1>2. /\ PP!MinBit(l) \in Nat /\ PP!MaxBit(l) \in Nat /\ PP!Assigned(l) \in Nat
  BY <1>1, ParserAssumptions, PP!BitsType, PP!AssignedType
<1>3. PICK min, n : min = P!MinBit(l) /\ n = P!Assigned(l)
  OBVIOUS
<1>4. /\ PP!MinBit(l) = min /\ PP!Assigned(l) = n /\ min \in Nat /\ n \in Nat
      /\ P!RangeWidth(l) = PP!MaxBit(l) - min + 1
  BY <1>2, <1>3, SameNumbers, SameValues DEF PP!RangeWidth
<1>5. l.feature # "" /\ c.start_bit - min \in Nat /\ c.width \in 1 .. ValueBits
  BY <1>4, SameValues DEF PP!IsPlaced
<1>6. PICK s \in Nat, w \in 1 .. ValueBits, at_ \in {c.start_bit} :
        s = c.start_bit - min /\ w = c.width /\ at_ = c.start_bit
  BY <1>5
<1>7. at_ + w <= PP!MaxBit(l) + 1 /\ c.bits = (n \div 2 ^ s) % 2 ^ w
  BY <1>4, <1>6 DEF PP!ReportsBits
<1>8. at_ = min + s /\ s + w <= P!RangeWidth(l)
  <2>1. min + s = at_
    BY <1>4, <1>6
  <2>2. \A x, y \in Int : at_ + w <= x + 1 /\ y = x - min + 1 => s + w <= y
    BY <1>4, <1>6, <2>1, ValueBitsType
  <2>3. PP!MaxBit(l) \in Int /\ P!RangeWidth(l) \in Int
    BY <1>2, <1>4
  <2>4. s + w <= P!RangeWidth(l)
    BY <1>4, <1>7, <2>2, <2>3, Zenon
  <2>5. QED
    BY <2>1, <2>4
<1>9. \A k \in Nat : (c.bits \div 2 ^ k) % 2 = IF k < w THEN (n \div 2 ^ (s + k)) % 2 ELSE 0
  <2> TAKE k \in Nat
  <2>1. w \in Nat
    BY ValueBitsType
  <2>2. n \in Nat
    BY <1>4
  <2>3. (((n \div 2 ^ s) % 2 ^ w) \div 2 ^ k) % 2
          = IF k < w THEN (n \div 2 ^ (s + k)) % 2 ELSE 0
    BY <2>1, <2>2, BitOfChunk, Zenon
  <2>4. c.bits = (n \div 2 ^ s) % 2 ^ w
    BY <1>7
  <2>5. QED
    BY <2>3, <2>4, Zenon
<1>10. ASSUME NEW k
       PROVE  k \in 0 .. ValueBits - 1 /\ (c.bits \div 2 ^ k) % 2 = 1
                <=> k \in 0 .. w - 1 /\ (n \div 2 ^ (s + k)) % 2 = 1
  <2>1. k \in 0 .. w - 1 => k \in 0 .. ValueBits - 1
    BY <1>6, ValueBitsType
  <2>2. k \in 0 .. ValueBits - 1 => k \in Nat /\ (k < w <=> k \in 0 .. w - 1)
    BY <1>6, ValueBitsType
  <2>3. 0 # 1
    OBVIOUS
  <2>4. QED
    BY <1>9, <2>1, <2>2, <2>3, Zenon
<1>11. {k \in 0 .. ValueBits - 1 : (c.bits \div 2 ^ k) % 2 = 1}
         = {k \in 0 .. w - 1 : (n \div 2 ^ (s + k)) % 2 = 1}
  BY <1>10, Zenon
<1>12. /\ c.start_bit = min + s /\ s + c.width <= P!RangeWidth(l)
       /\ {k \in 0 .. ValueBits - 1 : (c.bits \div 2 ^ k) % 2 = 1}
            = {k \in 0 .. c.width - 1 : (n \div 2 ^ (s + k)) % 2 = 1}
  BY <1>6, <1>8, <1>11, Zenon
<1>13. min \in Nat /\ n \in Nat /\ P!RangeWidth(l) \in Int
  BY <1>2, <1>4
<1>14. s \in Nat
  OBVIOUS
<1>15. IsChunk(l, c, s)
  BY <1>3, <1>12, Zenon DEF IsChunk
<1>16. QED
  BY <1>3, <1>5, <1>13, <1>14, <1>15, Zenon

(* The features of a whole line, in which nothing is inverted.             *)
LEMMA LineIsAssigned ==
  ASSUME IInv, ParsedRightly, step = "parse", at = "done", IsAccepted,
         NEW l, l = text.lines[line_number], IsPlain(l)
  PROVE  AssignedIn(l, {FeatureOf(c) : c \in ToSet(calls)})
<1>1. P!IsLine(l) /\ line_number \in DOMAIN text.lines
  BY AssemblerAssumption DEF IInv, Types, Parsing, ToSet
<1>2. PP!ToSet(calls) = ToSet(calls)
  BY DEF PP!ToSet, ToSet
<1>3. /\ \A c \in ToSet(calls) : PP!IsPlaced(l, c) /\ (PP!Fits(l) => PP!ReportsBits(l, c))
      /\ result < PP!kSkipped /\ l.feature # "" =>
           \A bit \in PP!MinBit(l) .. PP!MaxBit(l) : \E c \in ToSet(calls) :
             bit \in c.start_bit .. c.start_bit + c.width - 1
  <2>1. PP!IInv /\ PP!Reported
    BY DEF ParsedRightly
  <2>2. /\ \A c \in PP!ToSet(calls) : PP!IsPlaced(l, c) /\ (PP!Fits(l) => PP!ReportsBits(l, c))
        /\ result < PP!kSkipped /\ l.feature # "" =>
             \A bit \in PP!MinBit(l) .. PP!MaxBit(l) : \E c \in PP!ToSet(calls) :
               bit \in c.start_bit .. c.start_bit + c.width - 1
    BY <2>1, ParserAssumptions, PP!WholeLine
  <2>3. QED
    BY <1>2, <2>2
<1>4. l.feature # "" => result < PP!kSkipped
  <2>1. result \in 0 .. 5
    BY DEF ParsedRightly, PP!IInv, PP!Position, PP!kSuccess, PP!kError
  <2>2. result \notin {4, 5} /\ (result = 3 => P!Inverted(l))
    BY DEF IsAccepted, ParsedRightly, NotSkipped, P!kUserAbort, P!kError, P!kSkipped
  <2>3. l.feature # "" => result # 3
    BY <2>2, Zenon DEF IsPlain
  <2>4. result # 3 => result < 3
    BY <2>1, <2>2
  <2>5. QED
    BY <2>3, <2>4 DEF PP!kSkipped
<1> DEFINE F == {FeatureOf(c) : c \in ToSet(calls)}
           bits(f) == {<<f.name, f.start_bit + k>> : k \in {j \in f.bits : j < f.width}}
<1>5. WantedBits(F) = UNION {bits(f) : f \in F}
  BY DEF WantedBits
<1>6. CASE l.feature = ""
  <2>1. ToSet(calls) = {}
    BY <1>3, <1>6 DEF PP!IsPlaced
  <2>2. F = {}
    BY <2>1
  <2>3. QED
    BY <1>5, <1>6, <2>2 DEF AssignedIn, BitsOf
<1>7. CASE l.feature # ""
  <2>1. P!Fits(l) /\ PP!Fits(l)
    BY <1>7, SameValues DEF IsPlain
  <2>2. PICK min, n, wide, name : /\ min = P!MinBit(l) /\ n = P!Assigned(l)
                                  /\ wide = P!RangeWidth(l) /\ name = SegmentsOf[l.feature]
    OBVIOUS
  <2>3. min \in Nat /\ wide \in Int /\ PP!MinBit(l) = min /\ PP!MaxBit(l) = min + wide - 1
    <3>1. PP!MinBit(l) \in Nat /\ PP!MaxBit(l) \in Nat
      BY <1>1, SameLine, ParserAssumptions, PP!BitsType
    <3>2. wide = PP!MaxBit(l) - PP!MinBit(l) + 1 /\ min = PP!MinBit(l)
      BY <2>2, SameNumbers DEF PP!RangeWidth
    <3>3. QED
      BY <3>1, <3>2
  <2> DEFINE placed == {<<name, min + k>> : k \in {j \in 0 .. wide - 1 : (n \div 2 ^ j) % 2 = 1}}
  <2>4. BitsOf(l) = placed
    BY <1>7, <2>2 DEF BitsOf
  <2>5. ASSUME NEW c \in ToSet(calls)
        PROVE  \E s \in Nat, w \in 1 .. ValueBits :
                 /\ c.start_bit = min + s /\ c.width = w /\ s + w <= wide
                 /\ FeatureOf(c) = [name |-> name, start_bit |-> min + s, width |-> w,
                       bits |-> {k \in 0 .. w - 1 : (n \div 2 ^ (s + k)) % 2 = 1}]
    <3>0. c.start_bit \in Int
      <4>1. FeatureOf(c) \in ToSet(features)
        BY DEF IInv, Collected
      <4>2. FeatureOf(c).start_bit \in Int
        BY <4>1 DEF IInv, Types, IsFeature
      <4>3. QED
        BY <4>2 DEF FeatureOf
    <3>1. PP!IsPlaced(l, c) /\ PP!ReportsBits(l, c)
      BY <1>3, <2>1
    <3>2. c.width \in 1 .. ValueBits /\ \E s \in Nat : IsChunk(l, c, s)
      <4>1. P!IsLine(l) /\ P!Fits(l)
        BY <1>1, <2>1
      <4>2. QED
        BY <3>0, <3>1, <4>1, BitsOfCall
    <3>3. PICK s \in Nat :
              /\ c.start_bit = min + s /\ s + c.width <= wide
              /\ {k \in 0 .. ValueBits - 1 : (c.bits \div 2 ^ k) % 2 = 1}
                   = {k \in 0 .. c.width - 1 : (n \div 2 ^ (s + k)) % 2 = 1}
      BY <2>2, <3>2, Zenon DEF IsChunk
    <3>4. FeatureOf(c) = [name |-> name, start_bit |-> min + s, width |-> c.width,
                       bits |-> {k \in 0 .. c.width - 1 : (n \div 2 ^ (s + k)) % 2 = 1}]
      BY <2>2, <3>3, Zenon DEF FeatureOf
    <3>5. QED
      BY <3>2, <3>3, <3>4
  <2>6. \A c \in ToSet(calls) : IsFeatureOf(l, FeatureOf(c))
    <3> TAKE c \in ToSet(calls)
    <3>1. PICK s \in Nat, w \in 1 .. ValueBits :
            FeatureOf(c) = [name |-> name, start_bit |-> min + s, width |-> w,
                       bits |-> {k \in 0 .. w - 1 : (n \div 2 ^ (s + k)) % 2 = 1}]
      BY <2>5
    <3>2. PICK f : f = FeatureOf(c)
      OBVIOUS
    <3>3. f.name = name /\ f.width = w /\ f.bits \subseteq 0 .. w - 1
      BY <3>1, <3>2
    <3>4. w <= ValueBits
      BY ValueBitsType
    <3>5. QED
      BY <1>7, <2>2, <3>2, <3>3, <3>4 DEF IsFeatureOf
  <2>7. ASSUME NEW c \in ToSet(calls), NEW x \in bits(FeatureOf(c))
        PROVE  x \in placed
    <3>1. PICK s \in Nat, w \in 1 .. ValueBits :
            /\ s + w <= wide
            /\ FeatureOf(c) = [name |-> name, start_bit |-> min + s, width |-> w,
                       bits |-> {k \in 0 .. w - 1 : (n \div 2 ^ (s + k)) % 2 = 1}]
      BY <2>5
    <3>2. PICK f : f = FeatureOf(c)
      OBVIOUS
    <3>3. /\ f.name = name /\ f.width = w /\ f.start_bit = min + s
          /\ f.bits = {k \in 0 .. w - 1 : (n \div 2 ^ (s + k)) % 2 = 1}
      BY <3>1, <3>2
    <3>4. PICK k \in f.bits : x = <<f.name, f.start_bit + k>>
      BY <2>7, <3>2
    <3>5. k \in 0 .. w - 1 /\ (n \div 2 ^ (s + k)) % 2 = 1
      BY <3>3, <3>4
    <3>6. PICK j \in Nat : j = s + k
      BY <3>5
    <3>7. j \in 0 .. wide - 1 /\ min + s + k = min + j /\ (n \div 2 ^ j) % 2 = 1
      <4>1. j \in 0 .. wide - 1 /\ min + s + k = min + j
        BY <2>3, <3>1, <3>5, <3>6
      <4>2. (n \div 2 ^ j) % 2 = 1
        BY <3>5, <3>6, Zenon
      <4>3. QED
        BY <4>1, <4>2
    <3>8. x = <<name, min + j>>
      BY <3>3, <3>4, <3>7
    <3>9. QED
      BY <3>7, <3>8
  <2>8. ASSUME NEW j \in 0 .. wide - 1, (n \div 2 ^ j) % 2 = 1
        PROVE  \E c \in ToSet(calls) : <<name, min + j>> \in bits(FeatureOf(c))
    <3>1. min + j \in min .. min + wide - 1
      BY <2>3
    <3>2. PICK c \in ToSet(calls) : min + j \in c.start_bit .. c.start_bit + c.width - 1
      BY <1>3, <1>4, <1>7, <2>3, <3>1
    <3>3. PICK s \in Nat, w \in 1 .. ValueBits :
            /\ c.start_bit = min + s /\ c.width = w
            /\ FeatureOf(c) = [name |-> name, start_bit |-> min + s, width |-> w,
                       bits |-> {k \in 0 .. w - 1 : (n \div 2 ^ (s + k)) % 2 = 1}]
      BY <2>5
    <3>4. PICK f : f = FeatureOf(c)
      OBVIOUS
    <3>5. /\ f.name = name /\ f.width = w /\ f.start_bit = min + s
          /\ f.bits = {k \in 0 .. w - 1 : (n \div 2 ^ (s + k)) % 2 = 1}
      BY <3>3, <3>4
    <3>6. PICK k \in 0 .. w - 1 : j = s + k /\ k < w
      <4>1. min + j \in min + s .. min + s + w - 1 /\ w \in Nat
        BY <3>2, <3>3, ValueBitsType
      <4>2. j - s \in 0 .. w - 1 /\ j = s + (j - s) /\ j - s < w
        BY <2>3, <4>1
      <4>3. QED
        BY <4>2
    <3>7. k \in f.bits
      <4>1. (n \div 2 ^ (s + k)) % 2 = 1
        BY <2>8, <3>6, Zenon
      <4>2. QED
        BY <3>5, <4>1
    <3>8. <<name, min + j>> = <<f.name, f.start_bit + k>>
      BY <2>3, <3>5, <3>6
    <3>9. QED
      BY <3>4, <3>5, <3>6, <3>7, <3>8
  <2> HIDE DEF bits
  <2>9. UNION {bits(f) : f \in F} = placed
    BY <2>7, <2>8
  <2>10. QED
    BY <1>5, <2>4, <2>6, <2>9 DEF AssignedIn
<1>8. QED
  BY <1>6, <1>7

LEMMA SameOfText ==
  ASSUME UNCHANGED <<text, design, line_number>>
  PROVE  OfText' <=> OfText
<1>1. \A l : /\ P!Fits(l)' <=> P!Fits(l)
            /\ P!Inverted(l)' <=> P!Inverted(l)
            /\ BitsOf(l)' = BitsOf(l)
  BY DEF P!Fits, P!RangeWidth, P!DigitBits, P!Base, P!Inverted, P!NoBracket, P!MaxBit,
         P!MinBit, P!Last, BitsOf, P!Assigned
<1>2. QED
  BY <1>1 DEF OfText, AssignedIn, IsPlain, IsFeatureOf, WantedBits, ToSet

LEMMA CheckResultOfText ==
  ASSUME IInv, ParsedRightly, OfText, CheckResult
  PROVE  OfText'
<1> DEFINE own == [i \in DOMAIN calls |-> FeatureOf(calls[i])]
           last == [features |-> own, accepted |-> IsAccepted]
<1>1. /\ step = "parse" /\ at = "done" /\ text' = text
      /\ design' = Append(design, last) /\ line_number' = line_number + 1
  BY DEF CheckResult, LineParsed
<1>2. ToSet(own) = {FeatureOf(c) : c \in ToSet(calls)}
  BY DEF ToSet
<1>3. last.features = own /\ last.accepted = IsAccepted
  OBVIOUS
<1> HIDE DEF last, own
<1>4. /\ design \in Seq(ToSet(design)) /\ Len(design) = line_number - 1
      /\ line_number \in Nat \ {0}
  BY DEF IInv, Types
<1>5. /\ \A i \in 1 .. line_number - 1 : design'[i] = design[i]
      /\ design'[line_number] = last
  <2>1. design \in Seq(ToSet(design) \cup {last})
    BY <1>4, SeqMonotonic
  <2>2. /\ \A i \in 1 .. Len(design) : design'[i] = design[i]
        /\ design'[Len(design) + 1] = last
    BY <1>1, <2>1, AppendProperties
  <2>3. QED
    BY <1>4, <2>2
<1>6. ASSUME NEW i \in 1 .. line_number, design'[i].accepted, IsPlain(text.lines[i])
      PROVE  AssignedIn(text.lines[i], ToSet(design'[i].features))
  <2>1. CASE i = line_number
    <3>1. IsAccepted
      BY <1>3, <1>5, <1>6, <2>1
    <3>2. AssignedIn(text.lines[i], {FeatureOf(c) : c \in ToSet(calls)})
      BY <1>1, <1>6, <2>1, <3>1, LineIsAssigned
    <3>3. QED
      BY <1>2, <1>3, <1>5, <2>1, <3>2
  <2>2. CASE i # line_number
    <3>1. i \in 1 .. line_number - 1
      BY <1>4, <2>2
    <3>2. QED
      BY <1>5, <1>6, <3>1 DEF OfText
  <2>3. QED
    BY <2>1, <2>2
<1>7. 1 .. line_number' - 1 = 1 .. line_number
  BY <1>1, <1>4
<1>8. \A l : /\ P!Fits(l)' <=> P!Fits(l)
            /\ P!Inverted(l)' <=> P!Inverted(l)
            /\ BitsOf(l)' = BitsOf(l)
  BY DEF P!Fits, P!RangeWidth, P!DigitBits, P!Base, P!Inverted, P!NoBracket, P!MaxBit,
         P!MinBit, P!Last, BitsOf, P!Assigned
<1>9. QED
  <2> SUFFICES ASSUME NEW i \in (1 .. line_number - 1)', (design[i].accepted)',
                      IsPlain(text.lines[i])'
               PROVE  AssignedIn(text.lines[i], ToSet(design[i].features))'
    BY DEF OfText
  <2>1. i \in 1 .. line_number /\ design'[i].accepted
    BY <1>7
  <2>2. IsPlain(text.lines[i])
    BY <1>1, <1>8 DEF IsPlain
  <2>3. AssignedIn(text.lines[i], ToSet(design'[i].features))
    BY <1>6, <2>1, <2>2
  <2>4. QED
    BY <1>1, <1>8, <2>3 DEF AssignedIn, IsFeatureOf, WantedBits, ToSet

(* With IInv, what makes OfText inductive.                                 *)
TextInv == ParsedRightly /\ OfText

LEMMA InitText == Init => TextInv
  BY DEF Init, TextInv, ParsedRightly, OfText

LEMMA StepText == IInv /\ TextInv /\ [Next]_vars => TextInv'
<1> SUFFICES ASSUME IInv, ParsedRightly, OfText, [Next]_vars
             PROVE  ParsedRightly' /\ OfText'
  BY DEF TextInv
<1>1. CASE GetLine
  <2>1. UNCHANGED <<text, design, line_number>>
    BY <1>1 DEF GetLine
  <2>2. QED
    BY <1>1, <2>1, SameOfText, GetLineParsed
<1>2. CASE ParseStep
  <2>1. UNCHANGED <<text, design, line_number>>
    BY <1>2 DEF ParseStep
  <2>2. QED
    BY <1>2, <2>1, SameOfText, ParseStepParsed
<1>3. CASE CheckResult
  <2>1. step' # "parse"
    BY <1>3 DEF CheckResult, LineParsed
  <2>2. QED
    BY <1>3, <2>1, CheckResultOfText DEF ParsedRightly
<1>4. CASE \/ OpenDatabase \/ AddPUDCBFeatures \/ EndOfLines \/ AddStepDownFeatures
           \/ CannotSplit \/ SkipBit \/ SetBit \/ SetBitBeyond \/ SetBitDies
           \/ MarkFrames \/ Encode
  <2>1. UNCHANGED <<text, design, line_number>> /\ step' # "parse"
    BY <1>4 DEF OpenDatabase, AddPUDCBFeatures, EndOfLines, AddStepDownFeatures,
                CannotSplit, SkipBit, SetBit, SetBitBeyond, SetBitDies, MarkFrames, Encode,
                IsAtBit, lineVars
  <2>2. QED
    BY <2>1, SameOfText DEF ParsedRightly
<1>5. CASE UNCHANGED vars
  <2>1. /\ UNCHANGED <<text, design, line_number, step, at, parser_line, result, width,
                       bitset, chunk, calls, notes>>
    BY <1>5 DEF vars, lineVars, parserVars
  <2>2. ParsedRightly'
    <3> SUFFICES ASSUME step = "parse" PROVE PP!IInv' /\ PP!Reported' /\ NotSkipped'
      BY <2>1 DEF ParsedRightly
    <3>1. PP!IInv /\ PP!Reported /\ NotSkipped
      BY DEF ParsedRightly
    <3>2. UNCHANGED PP!vars
      BY <2>1 DEF PP!vars, PP!inputs
    <3>3. PP!IInv' /\ PP!Reported'
      BY <3>1, <3>2, ParserAssumptions, PP!StepInvariant, PP!StepReported DEF PP!RInv
    <3>4. NotSkipped'
      BY <2>1, <3>1 DEF NotSkipped, P!Inverted, P!NoBracket, P!MaxBit, P!MinBit, P!Last,
                        P!kSkipped, P!kUserAbort
    <3>5. QED
      BY <3>3, <3>4
  <2>3. QED
    BY <2>1, <2>2, SameOfText
<1>6. QED
  BY <1>1, <1>2, <1>3, <1>4, <1>5 DEF Next

(* From the text to the frames, for every text and every database: of      *)
(* lines with numbers that fit and ranges in order, the frames have the    *)
(* bits that the text assigns, and those that are added, and no others.    *)
THEOREM WritesTheText == Spec => []FramesOfText
<1>1. IInv /\ TextInv /\ FramesOfDesign => FramesOfText
  <2> SUFFICES ASSUME IInv, OfText, FramesOfDesign, step = "written", NothingWraps,
                      \A tile \in AddedTiles : AliasesAgree(tile),
                      \A i \in 1 .. line_number - 1 :
                        LET l == text.lines[i]
                        IN l.feature # "" => /\ P!Fits(l) /\ ~ P!Inverted(l)
                                             /\ IsDefiniteName(SegmentsOf[l.feature])
               PROVE  \E added \in PudcbAdditions :
                        frames = FramesOf(Complete(TextBits \cup WantedBits(ToSet(added))))
    BY DEF TextInv, FramesOfText
  <2>1. ASSUME NEW i \in 1 .. line_number - 1
        PROVE  /\ AssignedIn(text.lines[i], ToSet(design[i].features))
               /\ text.lines[i].feature # "" =>
                    IsDefiniteName(SegmentsOf[text.lines[i].feature])
    <3>1. DOMAIN design = 1 .. line_number - 1
      BY LenProperties DEF IInv, Types
    <3>2. design[i].accepted
      BY <3>1 DEF IInv, Accepted
    <3>3. IsPlain(text.lines[i])
      BY DEF IsPlain
    <3>4. QED
      BY <3>2, <3>3 DEF OfText
  <2>2. ASSUME NEW f \in DesignFeatures PROVE IsDefinite(f)
    <3>1. PICK i \in 1 .. line_number - 1 : f \in ToSet(design[i].features)
      BY DEF DesignFeatures
    <3>2. QED
      BY <2>1, <3>1 DEF AssignedIn, IsFeatureOf, IsDefinite
  <2>3. PICK added \in PudcbAdditions :
          frames = FramesOf(Complete(WantedBits(DesignFeatures \cup ToSet(added))))
    BY <2>2 DEF FramesOfDesign
  <2>4. WantedBits(DesignFeatures) = TextBits
    <3>1. WantedBits(DesignFeatures) =
            UNION {WantedBits(ToSet(design[i].features)) : i \in 1 .. line_number - 1}
      <4> DEFINE bits(f) == {<<f.name, f.start_bit + k>> : k \in {j \in f.bits : j < f.width}}
                 lines == 1 .. line_number - 1
                 own(i) == ToSet(design[i].features)
      <4>1. \A F : WantedBits(F) = UNION {bits(f) : f \in F}
        BY DEF WantedBits
      <4>2. DesignFeatures = UNION {own(i) : i \in lines}
        BY DEF DesignFeatures
      <4> HIDE DEF bits, lines, own
      <4>3. \A x : x \in WantedBits(DesignFeatures) <=>
                     \E i \in lines : x \in WantedBits(own(i))
        <5>1. \A F, x : x \in WantedBits(F) <=> \E f \in F : x \in bits(f)
          BY <4>1
        <5>2. \A f : f \in DesignFeatures <=> \E i \in lines : f \in own(i)
          BY <4>2
        <5>3. QED
          BY <5>1, <5>2, Zenon
      <4>4. WantedBits(DesignFeatures) = UNION {WantedBits(own(i)) : i \in lines}
        BY <4>3
      <4>5. QED
        BY <4>4 DEF lines, own
    <3>2. TextBits = UNION {BitsOf(text.lines[i]) : i \in 1 .. line_number - 1}
      BY DEF TextBits, BitsOf
    <3>3. \A i \in 1 .. line_number - 1 :
            WantedBits(ToSet(design[i].features)) = BitsOf(text.lines[i])
      BY <2>1 DEF AssignedIn
    <3>4. QED
      BY <3>1, <3>2, <3>3
  <2>5. WantedBits(DesignFeatures \cup ToSet(added)) = TextBits \cup WantedBits(ToSet(added))
    BY <2>4, UnionOfBits
  <2>6. QED
    BY <2>3, <2>5
<1>2. Spec => [](IInv /\ TextInv)
  BY InitInvariant, StepInvariant, InitText, StepText, PTL DEF Spec
<1>3. QED
  BY <1>1, <1>2, WritesTheDesign, PTL

-----------------------------------------------------------------------------
(* Types: the bit is one of the feature, or the one after the last.        *)
Bounded ==
  /\ current <= Len(features) + 1
  /\ current <= Len(features) => addr <= Max({0, feature.width})

(* Only what is indexed is read, and only tiles' own buses are used.       *)
Known ==
  /\ line_number <= Len(text.lines) + 1
  /\ segment_bits_cache \subseteq indexed
  /\ step = "open" => segment_bits_cache = {}
  /\ step \in Reading \cup {"open", "pudcb"} => used_config_buses = {}
  /\ used_config_buses \subseteq DOMAIN Blocks(Tile)

LEMMA MaxOfZero == \A w \in Int : /\ Max({0, w}) \in Int
                                  /\ Max({0, w}) >= 0 /\ Max({0, w}) >= w
<1> TAKE w \in Int
<1>1. \E x \in {0, w} : \A y \in {0, w} : x >= y
  OBVIOUS
<1>2. Max({0, w}) \in {0, w} /\ \A y \in {0, w} : Max({0, w}) >= y
  BY <1>1 DEF Max
<1>3. QED
  BY <1>2

(* Before bits are set.                                                    *)
AtFirst == current = 1 /\ addr = 0

LEMMA FirstIsBounded == Types /\ AtFirst => Bounded
<1> SUFFICES ASSUME Types, current = 1, addr = 0 PROVE Bounded
  BY DEF AtFirst
<1>1. /\ Len(features) \in Nat /\ DOMAIN features = 1 .. Len(features)
  BY LenProperties DEF Types
<1>2. 1 <= Len(features) => IsFeature(features[1])
  <2>1. 1 <= Len(features) => features[1] \in ToSet(features)
    BY <1>1 DEF ToSet
  <2>2. QED
    BY <2>1 DEF Types
<1>3. 1 <= Len(features) => 0 <= Max({0, features[1].width})
  BY <1>2, MaxOfZero DEF IsFeature
<1>4. QED
  BY <1>1, <1>3 DEF Bounded, feature

LEMMA FirstIsBoundedNext == Types' /\ AtFirst' => Bounded'
  BY FirstIsBounded, PTL

LEMMA InitBounded == Init => Bounded /\ Known
<1> SUFFICES ASSUME Init PROVE Bounded /\ Known
  OBVIOUS
<1>1. Bounded
  BY InitInvariant, FirstIsBounded DEF Init, IInv, AtFirst
<1>2. Len(text.lines) \in Nat
  BY AssemblerAssumption, LenProperties DEF Init
<1>3. QED
  BY <1>1, <1>2 DEF Init, Known

LEMMA BusesOfCalls ==
  ASSUME NEW tile, NEW resolved, NEW address, NEW c \in BitSetterCalls(tile, resolved, address)
  PROVE  c.bus \in DOMAIN Blocks(tile)
<1>1. PICK x \in SegbitsOf(tile, resolved, address) :
        c = BitSetterCall(Blocks(tile)[x[1]], x[1], x[2])
  BY DEF BitSetterCalls
<1>2. c.bus = x[1]
  BY <1>1 DEF BitSetterCall
<1>3. QED
  BY <1>2, SegbitTypes

LEMMA StepBounded == IInv /\ Bounded /\ Known /\ [Next]_vars => Bounded' /\ Known'
<1> SUFFICES ASSUME IInv, Bounded, Known, [Next]_vars
             PROVE  Bounded' /\ Known'
  OBVIOUS
<1>1. Types'
  BY StepInvariant DEF IInv
<1>2. /\ current \in Nat \ {0} /\ addr \in Nat
      /\ Len(features) \in Nat /\ Len(text.lines) \in Nat
      /\ line_number \in Nat \ {0}
  BY AssemblerAssumption, LenProperties DEF IInv, Types
<1>3. ASSUME step \in Reading \cup {"open", "pudcb"}, UNCHANGED <<current, addr>>
      PROVE  Bounded'
  BY <1>1, <1>3, FirstIsBoundedNext DEF IInv, SetUp, AtFirst
<1>4. ASSUME UNCHANGED features, UNCHANGED <<current, addr>>
      PROVE  Bounded'
  BY <1>4 DEF Bounded, feature
<1>5. CASE OpenDatabase
  <2>1. /\ step = "open" /\ step' \in {"pudcb", "failed", "died"}
        /\ UNCHANGED <<lineVars, features, cursor, segment_bits_cache>>
    BY <1>5 DEF OpenDatabase, Index, databaseVars
  <2>2. segment_bits_cache' = {} /\ used_config_buses' = {}
    BY <2>1 DEF Known, cursor
  <2>3. Bounded'
    BY <1>3, <2>1 DEF cursor
  <2>4. QED
    BY <2>1, <2>2, <2>3 DEF Known, lineVars
<1>6. CASE AddPUDCBFeatures \/ AddStepDownFeatures
  <2>1. /\ step \in {"pudcb", "stepdown"} /\ step' \notin {"open"}
        /\ UNCHANGED <<databaseVars, lineVars, cursor>>
    BY <1>6 DEF AddPUDCBFeatures, AddStepDownFeatures
  <2>2. used_config_buses' = {} /\ step \in Reading \cup {"open", "pudcb"}
    BY <2>1 DEF Known, cursor, Reading
  <2>3. Bounded'
    BY <1>3, <2>1, <2>2 DEF cursor
  <2>4. QED
    BY <2>1, <2>2, <2>3 DEF Known, lineVars, databaseVars
<1>7. CASE GetLine \/ ParseStep \/ EndOfLines
  <2>1. /\ step \in Reading /\ step' \in Reading
        /\ UNCHANGED <<databaseVars, text, line_number, cursor>>
    BY <1>7 DEF GetLine, ParseStep, EndOfLines, Reading, lineVars
  <2>2. used_config_buses' = {}
    BY <2>1 DEF Known, cursor
  <2>3. Bounded'
    BY <1>3, <2>1 DEF cursor
  <2>4. step' # "open"
    BY <2>1 DEF Reading
  <2>5. QED
    BY <2>1, <2>2, <2>3, <2>4 DEF Known, databaseVars
<1>8. CASE CheckResult
  <2>1. /\ step = "parse" /\ step' \in {"lines", "failed"} /\ line_number' = line_number + 1
        /\ UNCHANGED <<databaseVars, text, features, cursor>>
    BY <1>8 DEF CheckResult, LineParsed
  <2>2. line_number + 1 <= Len(text.lines) + 1
    <3>1. line_number \in DOMAIN text.lines
      BY <2>1 DEF IInv, Parsing
    <3>2. DOMAIN text.lines = 1 .. Len(text.lines)
      BY AssemblerAssumption, LenProperties DEF IInv, Types
    <3>3. QED
      BY <1>2, <3>1, <3>2
  <2>3. used_config_buses' = {}
    BY <2>1 DEF Known, cursor, Reading
  <2>4. Bounded'
    BY <1>4, <2>1 DEF cursor
  <2>5. QED
    BY <2>1, <2>2, <2>3, <2>4 DEF Known, databaseVars
<1>9. CASE CannotSplit \/ Encode \/ UNCHANGED vars
  <2>1. /\ UNCHANGED <<databaseVars, lineVars, features, cursor>>
        /\ \/ step' = step
           \/ step' \in Final
    BY <1>9 DEF CannotSplit, Encode, Final, vars
  <2>2. Bounded'
    BY <1>4, <2>1 DEF cursor
  <2>3. Known'
    BY <2>1 DEF Known, Tile, feature, databaseVars, lineVars, cursor, Blocks, Final, Reading
  <2>4. QED
    BY <2>2, <2>3
<1>10. ASSUME IsAtBit, addr' = addr + 1, UNCHANGED <<features, current>> PROVE Bounded'
  <2>1. addr < feature.width /\ feature.width \in Int
    BY <1>10, CurrentFeature DEF IsAtBit, IsFeature
  <2>2. addr + 1 <= Max({0, feature.width})
    BY <1>2, <2>1, MaxOfZero
  <2>3. QED
    BY <1>2, <1>10, <2>2 DEF Bounded, feature
<1>11. CASE SkipBit
  <2>1. Bounded'
    BY <1>10, <1>11 DEF SkipBit
  <2>2. Known'
    BY <1>11 DEF SkipBit, Known, Tile, feature, databaseVars, lineVars, Blocks
  <2>3. QED
    BY <2>1, <2>2
<1>12. CASE SetBit
  <2>1. Bounded'
    BY <1>10, <1>12 DEF SetBit
  <2>2. PICK resolved \in Resolutions(Tile, Tail(feature.name)) :
          /\ ConfigBits(Tile, resolved, addr + feature.start_bit)
          /\ used_config_buses' = used_config_buses \cup
               {c.bus : c \in BitSetterCalls(Tile, resolved, addr + feature.start_bit)}
    BY <1>12 DEF SetBit
  <2>3. segment_bits_cache' \subseteq indexed'
    BY <2>2 DEF ConfigBits, AddSegbitsToCache, Known
  <2>4. used_config_buses' \subseteq DOMAIN Blocks(Tile)
    BY <2>2, BusesOfCalls DEF Known
  <2>5. /\ step = "bits" /\ step' = "bits" /\ UNCHANGED <<text, line_number, features, current>>
    BY <1>12 DEF SetBit, IsAtBit, lineVars
  <2>6. QED
    BY <2>1, <2>3, <2>4, <2>5 DEF Known, Tile, feature, Blocks, Reading
<1>13. CASE SetBitBeyond \/ SetBitDies
  <2>1. /\ step' \in {"died", "undefined"} /\ UNCHANGED <<lineVars, features, cursor>>
    BY <1>13 DEF SetBitBeyond, SetBitDies
  <2>2. segment_bits_cache' \subseteq indexed'
    <3>1. CASE SetBitBeyond
      BY <3>1 DEF SetBitBeyond, ConfigBits, AddSegbitsToCache, Known
    <3>2. CASE SetBitDies
      BY <3>2 DEF SetBitDies, ConfigBitsDies, AddSegbitsToCache, Known, databaseVars
    <3>3. QED
      BY <1>13, <3>1, <3>2
  <2>3. Bounded'
    BY <1>4, <2>1 DEF cursor
  <2>4. QED
    BY <2>1, <2>2, <2>3 DEF Known, Tile, feature, lineVars, cursor, Blocks, Reading
<1>14. CASE MarkFrames
  <2>1. /\ step = "bits" /\ step' = "bits" /\ current <= Len(features)
        /\ UNCHANGED <<databaseVars, lineVars, features>>
        /\ current' = current + 1 /\ addr' = 0 /\ used_config_buses' = {}
    BY <1>14 DEF MarkFrames
  <2>2. current' <= Len(features') + 1
    BY <1>2, <2>1
  <2>3. ASSUME current' <= Len(features')
        PROVE  0 <= Max({0, features'[current'].width})
    <3>1. current' \in DOMAIN features
      <4>1. DOMAIN features = 1 .. Len(features)
        BY LenProperties DEF IInv, Types
      <4>2. QED
        BY <1>2, <2>1, <2>3, <4>1
    <3>2. IsFeature(features'[current'])
      BY <2>1, <3>1, FeatureTypes
    <3>3. QED
      BY <3>2, MaxOfZero DEF IsFeature
  <2>4. QED
    BY <2>1, <2>2, <2>3 DEF Bounded, Known, feature, databaseVars, lineVars
<1>15. QED
  BY <1>5, <1>6, <1>7, <1>8, <1>9, <1>11, <1>12, <1>13, <1>14 DEF Next

LEMMA SameTypes == PP!TypeOK => P!TypeOK
  BY DEF PP!TypeOK, P!TypeOK, PP!kSuccess, P!kSuccess, PP!kError, P!kError,
         PP!WordLimit, P!WordLimit

(* Every variable has its type: no line, feature or bit is gone past, the  *)
(* parser is in its line, and only what is indexed is read.                *)
THEOREM TypeCorrect == Spec => []TypeOK
<1>1. IInv /\ TextInv /\ Bounded /\ Known => TypeOK
  <2> SUFFICES ASSUME IInv, ParsedRightly, Bounded, Known PROVE TypeOK
    BY DEF TextInv
  <2>1. step = "parse" => P!TypeOK
    BY ParserAssumptions, PP!TypeFollows, SameTypes DEF ParsedRightly, PP!RInv
  <2>2. /\ current \in Nat \ {0} /\ Len(features) \in Nat
        /\ line_number \in Nat /\ Len(design) = line_number - 1
    BY LenProperties DEF IInv, Types
  <2>3. current \in 1 .. Len(features) + 1 /\ line_number = Len(design) + 1
    BY <2>2 DEF Bounded
  <2>4. QED
    BY <2>1, <2>3 DEF TypeOK, IInv, Types, Bounded, Known, Reading
<1>2. Spec => [](IInv /\ TextInv /\ Bounded /\ Known)
  BY InitInvariant, StepInvariant, InitText, StepText, InitBounded, StepBounded, PTL DEF Spec
<1>3. QED
  BY <1>1, <1>2, PTL
=============================================================================
