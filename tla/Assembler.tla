------------------------------ MODULE Assembler ------------------------------
(***************************************************************************)
(* The assembler (src/fpga/assembler.cc): AssembleFrames reads the lines   *)
(* of a design, adds the features that PUDC_B and STEPDOWN ask for, and    *)
(* sets the bits of all features in frames; main has the frames encoded.   *)
(*                                                                         *)
(* Each line is a text of its own for the parser, see FasmParser.  What it *)
(* makes of a line is kept in design: the features and whether the line is *)
(* accepted.  A feature has a name, a start bit, a width, and as bits the  *)
(* set of the places that are 1.  A site is the y coordinate in its name.  *)
(* A frame is the set of its bits, each a word and the index in the word.  *)
(***************************************************************************)
EXTENDS PartDatabase

CONSTANTS
  Texts,          (* what may be read: [lines, newline], where newline is   *)
                  (* whether the last line ends with one                    *)
  SegmentsOf,     (* the name of a feature -> the segments of the name      *)
  Iob33,          (* the tiles with IOB33 in their name                     *)
  HclkIoi3,       (* the tiles with HCLK_IOI3 in their name                 *)
  StepDownTags,   (* the segments of names with STEPDOWN in them            *)
  FrameWordCount, (* words of a frame: 101                                  *)
  ValueBits,      (* bits of a value: 64                                    *)
  RangeLimit      (* of bit numbers in a text: 2^16                         *)

VARIABLES
  text,
  design,         (* what the parser has made of the lines (history)        *)
  step,           (* what is done next, or how the program ended:           *)
                  (* "written", "failed" (a status), "died", "undefined"    *)
  line_number,
  features,       (* the features so far                                    *)
  current,        (* the feature of which bits are set                      *)
  addr,           (* the bit of it                                          *)
  used_config_buses,
  frames,         (* address -> frame                                       *)
  at, parser_line, result, width, bitset, chunk, calls, notes
                  (* of the parser, for the line that is read               *)

cursor == <<current, addr, used_config_buses>>
parserVars == <<at, parser_line, result, width, bitset, chunk, calls, notes>>
lineVars == <<text, design, line_number, parserVars>>
vars == <<databaseVars, lineVars, step, features, cursor, frames>>

(* Only the last line of the text may be without a newline.  The callback  *)
(* always wants to go on; there is one for annotations, too.               *)
P == INSTANCE FasmParser
       WITH WordBits <- ValueBits, Contents <- {}, Answers <- {TRUE},
            content <- <<text.lines[line_number]>>,
            newline <- (line_number < Len(text.lines) \/ text.newline),
            annotating <- (step = "parse"), line_number <- parser_line

Final == {"written", "failed", "died", "undefined"}

ASSUME AssemblerAssumption ==
  /\ FrameWordCount \in Nat \ {0}
  /\ ValueBits \in Nat \ {0} /\ ValueBits % 4 = 0
  /\ RangeLimit \in Nat \ {0}
  /\ \A t \in Texts :
       /\ t.lines \in Seq(ToSet(t.lines))
       /\ \A l \in ToSet(t.lines) : P!IsLine(l)
  /\ IsFiniteSet(Iob33) /\ IsFiniteSet(HclkIoi3) /\ IsFiniteSet(StepDownTags)
  /\ StepDownTags \cap {"LVCMOS12_LVCMOS15_LVCMOS18", "LVCMOS25_LVCMOS33_LVTTL",
                         "PULLTYPE"} = {}

-----------------------------------------------------------------------------
(* Features that are added.                                                *)

AddedFeature(name) == [name |-> name, start_bit |-> 0, width |-> 1, bits |-> {0}]

(* The code of the last digit of y, modulo 2.                              *)
IobSite(y) == IF (48 + (y % 10)) % 2 = 0 THEN "IOB_Y0" ELSE "IOB_Y1"

(* FindPUDCBTileSite: hash maps decide which one is found.                 *)
PudcbSites ==
  UNION {{<<tile, IobSite(y)>> :
            y \in {z \in DOMAIN Grid[tile].pin_functions :
                     Grid[tile].pin_functions[z] = "PUDC_B"}}
         : tile \in DOMAIN Grid}

PudcbFeatures(tile, site) ==
  <<AddedFeature(<<tile, site, "LVCMOS12_LVCMOS15_LVCMOS18", "IN_ONLY">>),
    AddedFeature(<<tile, site, "LVCMOS25_LVCMOS33_LVTTL", "IN">>),
    AddedFeature(<<tile, site, "PULLTYPE", "PULLUP">>)>>

(* Features on sites: a name is cut at its first three dots.               *)
SiteFeatures ==
  {f \in ToSet(features) : f.bits # {} /\ Len(f.name) >= 3}

(* Bug: only the sites with STEPDOWN count as used.                        *)
UsedIobSitesTagged ==
  {<<f.name[1], f.name[2]>> :
     f \in {g \in SiteFeatures : g.name[1] \in Iob33 /\ g.name[3] \in StepDownTags}}

UsedIobSites ==
  {<<f.name[1], f.name[2]>> : f \in {g \in SiteFeatures : g.name[1] \in Iob33}}

StepDowns == {f \in SiteFeatures : f.name[3] \in StepDownTags}

(* A choice of the bank for each tile that uses STEPDOWN.                  *)
BankChoices ==
  LET tiles == {f.name[1] : f \in StepDowns}
  IN {bank \in [tiles -> UNION {FrontBanks(tile) : tile \in tiles}] :
        \A tile \in tiles : bank[tile] \in FrontBanks(tile)}

(* The names to add for the bank of one feature with STEPDOWN.             *)
StepDownNames(bank, tag) ==
  LET sites == UNION {{<<tile, IobSite(y)>> : y \in Grid[tile].sites}
                      : tile \in Iob33 \cap Tiles(bank)}
  IN {Append(site, tag) : site \in sites \ UsedIobSites}
       \cup {<<tile, "STEPDOWN">> : tile \in HclkIoi3 \cap Tiles(bank)}

-----------------------------------------------------------------------------
Init ==
  /\ text \in Texts
  /\ design = <<>>
  /\ at = "done" /\ parser_line = 1 /\ result = 0
  /\ width = 0 /\ bitset = <<>> /\ chunk = 1
  /\ calls = <<>> /\ notes = <<>>
  /\ step = "open"
  /\ line_number = 1
  /\ features = <<>>
  /\ current = 1 /\ addr = 0 /\ used_config_buses = {}
  /\ frames = <<>>
  /\ indexed = {} /\ segment_bits_cache = {}

(* PartDatabase::Parse: all files but those of tile types are read.        *)
OpenDatabase ==
  /\ step = "open"
  /\ \/ Index /\ step' = "pudcb"
     \/ UNCHANGED databaseVars /\ step' \in {"failed", "died"}
  /\ UNCHANGED <<lineVars, features, cursor, frames>>

PudcbAdditions ==
  IF PudcbSites = {} THEN {<<>>}
  ELSE {PudcbFeatures(site[1], site[2]) : site \in PudcbSites}

AddPUDCBFeatures ==
  /\ step = "pudcb"
  /\ \E added \in PudcbAdditions : features' = features \o added
  /\ step' = "lines"
  /\ UNCHANGED <<databaseVars, lineVars, cursor, frames>>

(* getline, and the call of Parse.                                         *)
GetLine ==
  /\ step = "lines"
  /\ line_number <= Len(text.lines)
  /\ step' = "parse"
  /\ at' = "start" /\ parser_line' = 1 /\ result' = P!kSuccess
  /\ width' = 0 /\ bitset' = <<>> /\ chunk' = 1
  /\ calls' = <<>> /\ notes' = <<>>
  /\ UNCHANGED <<databaseVars, text, design, line_number, features, cursor, frames>>

(* The callback: what it is called with, as a feature.                     *)
FeatureOf(call) ==
  [name |-> SegmentsOf[text.lines[line_number].feature],
   start_bit |-> call.start_bit, width |-> call.width,
   bits |-> {k \in 0 .. ValueBits - 1 : (call.bits \div 2 ^ k) % 2 = 1}]

ParseStep ==
  /\ step = "parse"
  /\ UNCHANGED <<databaseVars, text, design, step, line_number, cursor, frames>>
  /\ P!Next
  /\ features' = features \o
       [i \in 1 .. Len(calls') - Len(calls) |-> FeatureOf(calls'[Len(calls) + i])]

IsAccepted == result \notin {P!kUserAbort, P!kError}

LineParsed(next) ==
  /\ step = "parse"
  /\ at = "done"
  /\ design' = Append(design, [features |-> [i \in DOMAIN calls |-> FeatureOf(calls[i])],
                               accepted |-> IsAccepted])
  /\ line_number' = line_number + 1
  /\ step' = next
  /\ UNCHANGED <<databaseVars, text, parserVars, features, cursor, frames>>

(* Bug: a line that is an error is left out.                               *)
CheckResultNever == LineParsed("lines")

(* What is worse than a line that is skipped ends the program.             *)
CheckResult == LineParsed(IF IsAccepted THEN "lines" ELSE "failed")

(* A file that cannot be read any further is taken for one that has ended. *)
EndOfLines ==
  /\ step = "lines"
  /\ step' = "stepdown"
  /\ UNCHANGED <<databaseVars, lineVars, features, cursor, frames>>

(* The tile of a feature with STEPDOWN must have a bank, and the tiles of  *)
(* the bank must be in the grid.  Hash maps give the order of what is      *)
(* added.                                                                  *)
AddStepDownFeatures ==
  /\ step = "stepdown"
  /\ \/ /\ \E f \in StepDowns : FrontBanks(f.name[1]) = {}
        /\ step' = "died" /\ UNCHANGED features
     \/ \E bank \in BankChoices :
          LET banks == {bank[tile] : tile \in DOMAIN bank}
              names == UNION {StepDownNames(bank[f.name[1]], f.name[3])
                              : f \in StepDowns}
          IN \/ /\ \E b \in banks : ~ Iob33 \cap Tiles(b) \subseteq DOMAIN Grid
                /\ step' = "died" /\ UNCHANGED features
             \/ /\ \A b \in banks : Iob33 \cap Tiles(b) \subseteq DOMAIN Grid
                /\ \E order \in SetToSeqs(names) :
                     features' = features \o
                       [i \in DOMAIN order |-> AddedFeature(order[i])]
                /\ step' = "bits"
  /\ UNCHANGED <<databaseVars, lineVars, cursor, frames>>

-----------------------------------------------------------------------------
(* ProcessFasmFeatures.                                                    *)

feature == features[current]
Tile == Head(feature.name)

HasDot == Len(feature.name) > 1

CannotSplit ==
  /\ step = "bits"
  /\ current <= Len(features)
  /\ ~ HasDot
  /\ step' = "failed"
  /\ UNCHANGED <<databaseVars, lineVars, features, cursor, frames>>

IsAtBit ==
  /\ step = "bits"
  /\ current <= Len(features)
  /\ HasDot
  /\ addr < feature.width

(* What a bit of the value may be found to be: shifting by more than a     *)
(* value has bits is undefined.                                            *)
BitValues == IF addr < ValueBits THEN {(addr \in feature.bits)} ELSE BOOLEAN

(* Bug: a bit that is 0 is looked at again.                                *)
SkipBitAgain == IsAtBit /\ FALSE \in BitValues /\ UNCHANGED vars

SkipBit ==
  /\ IsAtBit
  /\ FALSE \in BitValues
  /\ addr' = addr + 1
  /\ UNCHANGED <<databaseVars, lineVars, step, features, current,
                 used_config_buses, frames>>

(* The frames of addresses, those that are not there yet blank.            *)
Blank(fs, addresses) ==
  [a \in DOMAIN fs \cup addresses |-> IF a \in DOMAIN fs THEN fs[a] ELSE {}]

WithBits(fs, bit_calls) ==
  LET all == Blank(fs, {c.address : c \in bit_calls})
  IN [a \in DOMAIN all |->
        all[a] \cup {c.bit : c \in {d \in bit_calls : d.address = a /\ d.value}}]

(* The words of a frame are not looked at before they are written.         *)
IsInFrame(call) == call.value => call.bit[1] < FrameWordCount

SetBit ==
  /\ IsAtBit
  /\ TRUE \in BitValues
  /\ Tile \in DOMAIN Grid
  /\ \E resolved \in Resolutions(Tile, Tail(feature.name)) :
       LET address == addr + feature.start_bit
           bit_calls == BitSetterCalls(Tile, resolved, address)
       IN /\ ConfigBits(Tile, resolved, address)
          /\ \A call \in bit_calls : IsInFrame(call)
          /\ frames' = WithBits(frames, bit_calls)
          /\ used_config_buses' = used_config_buses \cup {c.bus : c \in bit_calls}
  /\ addr' = addr + 1
  /\ UNCHANGED <<lineVars, step, features, current>>

(* A write past the end of a frame ends the program or spoils its memory,  *)
(* and nothing is known of what it does then.                              *)
SetBitBeyond ==
  /\ IsAtBit
  /\ TRUE \in BitValues
  /\ Tile \in DOMAIN Grid
  /\ \E resolved \in Resolutions(Tile, Tail(feature.name)) :
       LET address == addr + feature.start_bit
       IN /\ ConfigBits(Tile, resolved, address)
          /\ \E call \in BitSetterCalls(Tile, resolved, address) : ~ IsInFrame(call)
  /\ step' \in {"died", "undefined"}
  /\ UNCHANGED <<lineVars, features, cursor, frames>>

SetBitDies ==
  /\ IsAtBit
  /\ TRUE \in BitValues
  /\ ConfigBitsDies(Tile, Tail(feature.name), addr + feature.start_bit)
  /\ step' = "died"
  /\ UNCHANGED <<lineVars, features, cursor, frames>>

(* Bug: one frame too many.                                                *)
UsedAddressesBeyond ==
  UNION {LET info == Blocks(Tile)[bus]
         IN info.base_address .. info.base_address + info.frames
         : bus \in used_config_buses}

UsedAddresses ==
  UNION {LET info == Blocks(Tile)[bus]
         IN info.base_address .. info.base_address + info.frames - 1
         : bus \in used_config_buses}

MarkFrames ==
  /\ step = "bits"
  /\ current <= Len(features)
  /\ HasDot
  /\ addr >= feature.width
  /\ frames' = Blank(frames, UsedAddresses)
  /\ current' = current + 1 /\ addr' = 0 /\ used_config_buses' = {}
  /\ UNCHANGED <<databaseVars, lineVars, step, features>>

Encode ==
  /\ step = "bits"
  /\ current > Len(features)
  /\ step' \in {"written", "failed"}
  /\ UNCHANGED <<databaseVars, lineVars, features, cursor, frames>>

Next ==
  \/ OpenDatabase \/ AddPUDCBFeatures \/ GetLine \/ ParseStep \/ CheckResult
  \/ EndOfLines
  \/ AddStepDownFeatures \/ CannotSplit
  \/ SkipBit \/ SetBit \/ SetBitBeyond \/ SetBitDies
  \/ MarkFrames \/ Encode

(* The program waits for nothing but its files.                            *)
Spec == Init /\ [][Next]_vars /\ WF_vars(Next)

-----------------------------------------------------------------------------
TypeOK ==
  /\ step \in Final \cup {"open", "pudcb", "lines", "parse", "stepdown", "bits"}
  /\ line_number = Len(design) + 1
  /\ line_number <= Len(text.lines) + 1
  /\ step = "parse" => P!TypeOK
  /\ current \in 1 .. Len(features) + 1
  /\ current <= Len(features) => addr <= Max({0, feature.width})
  /\ segment_bits_cache \subseteq indexed
  /\ used_config_buses # {} => used_config_buses \subseteq DOMAIN Blocks(Tile)

(* What the lines and PUDC_B set: names, and the addresses of their bits.  *)
WantedBits(fs) ==
  UNION {{<<f.name, f.start_bit + k>> : k \in {j \in f.bits : j < f.width}}
         : f \in fs}

(* The features of the lines that have been read.                          *)
DesignFeatures == UNION {ToSet(design[i].features) : i \in 1 .. line_number - 1}

Names(wanted) == {w[1] : w \in wanted}

(* In the bank of a tile that uses STEPDOWN, sites of IOB33 of which the   *)
(* design says nothing step down as well, and so do the HCLK tiles.        *)
SteppedDown(wanted) ==
  UNION {LET bank == CHOOSE b \in FrontBanks(name[1]) : TRUE
         IN {<<<<tile, "STEPDOWN">>, 0>> : tile \in HclkIoi3 \cap Tiles(bank)}
              \cup {<<<<tile, site, name[3]>>, 0>> :
                     tile \in Iob33 \cap Tiles(bank), site \in {"IOB_Y0", "IOB_Y1"}}
         : name \in {n \in Names(wanted) : Len(n) >= 3 /\ n[3] \in StepDownTags}}

IsSite(tile, site) == \E y \in Grid[tile].sites : IobSite(y) = site

Mentions(name, other) ==
  Len(other) >= 3 /\ name[1] = other[1] /\ name[2] = other[2]

Complete(wanted) ==
  wanted \cup {w \in SteppedDown(wanted) :
                 Len(w[1]) = 3 =>
                   /\ IsSite(w[1][1], w[1][2])
                   /\ \A name \in Names(wanted) : ~ Mentions(w[1], name)}

(* The segbits of a wanted bit, each with its block.                       *)
BlockBits(w) ==
  UNION {{<<Blocks(w[1][1])[x[1]], x[2]>> : x \in SegbitsOf(w[1][1], resolved, w[2])}
         : resolved \in Resolutions(w[1][1], Tail(w[1]))}

(* Where a block begins in the type that it is an alias of, in words.      *)
Start(block) == IF block.alias = <<>> THEN 0 ELSE block.alias[1].start_offset

(* The place of a segbit: as far in its block as it is in that of the type.*)
Address(block, segbit) == block.base_address + segbit.word_column
Word(block, segbit) ==
  block.offset + (segbit.word_bit \div WordSizeBits) - Start(block)
Place(block, segbit) ==
  [address |-> Address(block, segbit),
   bit |-> <<Word(block, segbit), segbit.word_bit % WordSizeBits>>,
   value |-> segbit.is_set]

FramesOf(wanted) ==
  LET bits == UNION {BlockBits(w) : w \in wanted}
      places == {Place(x[1], x[2]) : x \in bits}
      marked == UNION {x[1].base_address .. x[1].base_address + x[1].frames - 1
                       : x \in bits}
  IN [a \in marked \cup {p.address : p \in places} |->
        {p.bit : p \in {q \in places : q.address = a /\ q.value}}]

(* Addresses and positions of bits are unsigned numbers.                   *)
IsUnsigned(block, segbit) ==
  /\ Address(block, segbit) < UnsignedLimit
  /\ Word(block, segbit) >= 0
  /\ (Word(block, segbit) + 1) * WordSizeBits <= UnsignedLimit

NothingWraps ==
  \A w \in WantedBits(ToSet(features)) : \A x \in BlockBits(w) : IsUnsigned(x[1], x[2])

AliasesOf(tile) == {Blocks(tile)[bus].alias : bus \in AliasedBuses(tile)}
AliasesAgree(tile) == tile \in DOMAIN Grid => \A a, b \in AliasesOf(tile) : a = b

(* The tiles of the features that are added.                               *)
AddedTiles == {site[1] : site \in PudcbSites} \cup Iob33 \cup HclkIoi3

(* Hash maps leave no choice: the aliases of a tile are all of one type,   *)
(* as a TODO at database.cc:376 has it, and one bank can come first.       *)
IsDefiniteName(name) ==
  /\ AliasesAgree(name[1])
  /\ Len(name) >= 3 /\ name[3] \in StepDownTags =>
       \A a, b \in FrontBanks(name[1]) : a = b

(* The bits are in the width, and a shift for each of them is defined.     *)
IsDefinite(f) ==
  /\ f.width <= ValueBits /\ f.bits \subseteq 0 .. f.width - 1
  /\ IsDefiniteName(f.name)

(* README, "when a tile feature is enabled, its corresponding              *)
(* configuration bits must also be activated": what is encoded has exactly *)
(* the bits of the features of the design, of PUDC_B and of the banks that *)
(* step down, and all frames of the blocks they are in, in whatever order  *)
(* lines come and hash maps are gone through, if 32 bits are enough for    *)
(* their places.                                                           *)
FramesOfDesign ==
  /\ step = "written" /\ NothingWraps
  /\ \A tile \in AddedTiles : AliasesAgree(tile)
  /\ \A f \in DesignFeatures : IsDefinite(f)
  => \E added \in PudcbAdditions :
       frames = FramesOf(Complete(WantedBits(DesignFeatures \cup ToSet(added))))

(* What the lines of the text assign: the bits of the number of each, from *)
(* the lowest bit of its range.                                            *)
TextBits ==
  UNION {LET l == text.lines[i]
         IN IF l.feature = "" THEN {}
            ELSE {<<SegmentsOf[l.feature], P!MinBit(l) + k>> :
                    k \in {j \in 0 .. P!RangeWidth(l) - 1 :
                             (P!Assigned(l) \div 2 ^ j) % 2 = 1}}
         : i \in 1 .. line_number - 1}

(* The same from the text to the frames, through parser, callback and      *)
(* database, where numbers fit and no range is inverted: no bit of a value *)
(* is lost, moved or set twice where chunks, ranges and addresses meet.    *)
FramesOfText ==
  /\ step = "written" /\ NothingWraps
  /\ \A tile \in AddedTiles : AliasesAgree(tile)
  /\ \A i \in 1 .. line_number - 1 :
       LET l == text.lines[i]
       IN l.feature # "" => /\ P!Fits(l) /\ ~ P!Inverted(l)
                            /\ IsDefiniteName(SegmentsOf[l.feature])
  => \E added \in PudcbAdditions :
       frames = FramesOf(Complete(TextBits \cup WantedBits(ToSet(added))))

(* All or nothing: a bitstream is written only if each line that was read  *)
(* was accepted, and each bit of these lines is of a tile and of a feature *)
(* that its type has, in a file that was read.                             *)
WrittenIsWhole ==
  step = "written" =>
    /\ \A i \in 1 .. line_number - 1 : design[i].accepted
    /\ \A w \in WantedBits(DesignFeatures) :
         /\ w[1][1] \in DOMAIN Grid
         /\ \E resolved \in Resolutions(w[1][1], Tail(w[1])) :
              resolved.type \in segment_bits_cache /\ Has(w[1][1], resolved, w[2])

(* STEPDOWN changes nothing for a site that the design configures.         *)
UsedSitesKept ==
  step = "bits" =>
    \A i \in DOMAIN features :
      LET name == features[i].name IN
      /\ Len(name) = 3 /\ name[1] \in Iob33 /\ name[3] \in StepDownTags
      /\ \E f \in DesignFeatures : f.bits # {} /\ Mentions(name, f.name)
      => \E f \in DesignFeatures : f.name = name

(* A segbit is of the part of its type that is in the block, and the block *)
(* is in the frames.                                                       *)
IsOfBlock(block, segbit) ==
  /\ segbit.word_column < block.frames
  /\ (segbit.word_bit \div WordSizeBits) - Start(block) \in 0 .. block.words - 1
  /\ block.offset >= 0 /\ block.offset + block.words <= FrameWordCount
  /\ FrameWordCount * WordSizeBits <= UnsignedLimit
  /\ block.base_address + block.frames <= UnsignedLimit

(* Nothing keeps a text from naming the site of an aliased tile that is    *)
(* not there, whose bits would be before the block and wrap.  Where all    *)
(* that is wanted is of its blocks, the words of a frame are never left,   *)
(* and every bit that is set is in a block of the grid, also where an      *)
(* aliased block begins before the tile and its offset is below zero.      *)
BitsInBlocks ==
  /\ \A f \in ToSet(features) : f.width <= ValueBits
  /\ \A w \in WantedBits(ToSet(features)) :
       w[1][1] \in DOMAIN Grid => \A x \in BlockBits(w) : IsOfBlock(x[1], x[2])
  => /\ step # "undefined"
     /\ \A a \in DOMAIN frames : \A bit \in frames[a] :
          \E tile \in DOMAIN Grid : \E bus \in DOMAIN Blocks(tile) :
            LET block == Blocks(tile)[bus] IN
            /\ a \in block.base_address .. block.base_address + block.frames - 1
            /\ bit[1] \in block.offset .. block.offset + block.words - 1

(* The loops over features and bits end.                                   *)
Ends == <>(step \in Final)
=============================================================================
