---------------------------- MODULE PartDatabase ----------------------------
(***************************************************************************)
(* PartDatabase and BanksTilesRegistry (src/fpga/database.{h,cc}).         *)
(* Tiles, tile types and banks are model values or strings; a feature is   *)
(* the sequence of the segments of its name, which dots separate.          *)
(*                                                                         *)
(* The files of tile types are found when the database is opened and read  *)
(* when a feature first needs them; what is read stays in a cache.         *)
(***************************************************************************)
EXTENDS Integers, Sequences, SequencesExt

CONSTANTS
  Grid,           (* tile -> [type, bits, pin_functions, sites], where bits *)
                  (* is bus -> [alias, base_address, frames, offset, words] *)
  TileTypes,      (* tile type -> [pips, segment_bits], where segment_bits  *)
                  (* is bus -> (<<feature, address>> -> set of segbits)     *)
  IOBanks,        (* bank -> tile of its location, HCLK_IOI3_<location>     *)
  PackagePins,    (* sequence of [bank, tile]                               *)
  WordSizeBits,   (* 32                                                     *)
  UnsignedLimit   (* unsigned numbers are below this: 2^32                  *)

(* The numbers of a block and of a segbit, as the files have them.         *)
IsBlock(block) ==
  /\ block.base_address \in Nat /\ block.frames \in Nat
  /\ block.offset \in Int /\ block.words \in Nat
  /\ block.alias # <<>> => block.alias[1].start_offset \in Nat

IsSegbit(segbit) == segbit.word_column \in Nat /\ segbit.word_bit \in Nat

ASSUME DatabaseAssumption ==
  /\ WordSizeBits \in Nat \ {0}
  /\ UnsignedLimit \in Nat \ {0}
  /\ \A tile \in DOMAIN Grid : \A bus \in DOMAIN Grid[tile].bits :
       IsBlock(Grid[tile].bits[bus])
  /\ \A type \in DOMAIN TileTypes :
       LET segment_bits == TileTypes[type].segment_bits
       IN \A bus \in DOMAIN segment_bits : \A key \in DOMAIN segment_bits[bus] :
            \A segbit \in segment_bits[bus][key] : IsSegbit(segbit)

VARIABLES
  indexed,              (* the tile types of which files were found         *)
  segment_bits_cache    (* the tile types that have been read               *)

databaseVars == <<indexed, segment_bits_cache>>

-----------------------------------------------------------------------------
(* BanksTilesRegistry.                                                     *)

(* The tiles of a bank, if it is known.                                    *)
Tiles(bank) ==
  {IOBanks[b] : b \in {bank} \cap DOMAIN IOBanks}
    \cup {PackagePins[i].tile : i \in {j \in DOMAIN PackagePins :
                                        PackagePins[j].bank = bank}}

(* The banks that may come first among those of a tile: IO banks come in   *)
(* the order of a hash map, and before the pins.                           *)
FrontBanks(tile) ==
  LET io == {bank \in DOMAIN IOBanks : IOBanks[bank] = tile}
      pin == SelectInSeq(PackagePins, LAMBDA p : p.tile = tile)
  IN IF io # {} THEN io
     ELSE IF pin = 0 THEN {} ELSE {PackagePins[pin].bank}

-----------------------------------------------------------------------------
(* ConfigBits.                                                             *)

Blocks(tile) == Grid[tile].bits

AliasedBuses(tile) == {bus \in DOMAIN Blocks(tile) : Blocks(tile)[bus].alias # <<>>}

(* What comes behind the first dot is taken for a site, if the alias has   *)
(* another one for it.                                                     *)
AliasedFeature(feature, alias) ==
  LET rest == Tail(feature) IN
  IF Len(feature) > 1 /\ rest \in DOMAIN alias.sites
  THEN <<Head(feature)>> \o alias.sites[rest] ELSE feature

(* The type of which the features are and the name that the feature has    *)
(* there.  That of the bus that the map has last is taken.                 *)
Resolutions(tile, feature) ==
  IF AliasedBuses(tile) = {}
  THEN {[type |-> Grid[tile].type, feature |-> feature]}
  ELSE {LET alias == Blocks(tile)[bus].alias[1]
        IN [type |-> alias.type, feature |-> AliasedFeature(feature, alias)]
          : bus \in AliasedBuses(tile)}

(* Bug: the offset of an aliased block is that in the tile itself.         *)
OwnOffset(block) == block.offset

Offset(block) ==
  IF block.alias = <<>> THEN block.offset
  ELSE block.offset - block.alias[1].start_offset

IsPseudoPip(tile, resolved) ==
  LET pips == TileTypes[resolved.type].pips
  IN \/ <<tile>> \o resolved.feature \in pips
     \/ <<resolved.type>> \o resolved.feature \in pips

(* The buses on which the type has the feature.                            *)
MatchingBuses(tile, resolved, address) ==
  LET segment_bits == TileTypes[resolved.type].segment_bits
  IN {bus \in DOMAIN Blocks(tile) \cap DOMAIN segment_bits :
        <<resolved.feature, address>> \in DOMAIN segment_bits[bus]}

(* The segbits of a feature, with their buses.  A pseudo pip has none.     *)
SegbitsOf(tile, resolved, address) ==
  IF IsPseudoPip(tile, resolved) THEN {}
  ELSE UNION {{bus} \X TileTypes[resolved.type].segment_bits[bus]
                         [<<resolved.feature, address>>]
              : bus \in MatchingBuses(tile, resolved, address)}

(* What the bit setter is called with, for one segbit: the base address    *)
(* loses its upper half, sums and the offset wrap.                         *)
BitSetterCall(block, bus, segbit) ==
  LET bit_pos == (Offset(block) * WordSizeBits + segbit.word_bit) % UnsignedLimit
  IN [bus |-> bus,
      address |-> (block.base_address + segbit.word_column) % UnsignedLimit,
      bit |-> <<bit_pos \div WordSizeBits, bit_pos % WordSizeBits>>,
      value |-> segbit.is_set]

BitSetterCalls(tile, resolved, address) ==
  {BitSetterCall(Blocks(tile)[x[1]], x[1], x[2])
     : x \in SegbitsOf(tile, resolved, address)}

-----------------------------------------------------------------------------
(* IndexTileTypes goes on where files cannot be accessed, and may so miss  *)
(* some.                                                                   *)
Index ==
  /\ indexed' \in SUBSET DOMAIN TileTypes
  /\ UNCHANGED segment_bits_cache

(* Bug: a type that could not be read is cached as well.                   *)
AddSegbitsUnread(type) ==
  /\ segment_bits_cache' = segment_bits_cache \cup {type}
  /\ UNCHANGED indexed

(* AddSegbitsToCache: reading may fail, and then nothing is inserted.      *)
AddSegbitsToCache(type) ==
  /\ \/ segment_bits_cache' = segment_bits_cache \cup ({type} \cap indexed)
     \/ UNCHANGED segment_bits_cache
  /\ UNCHANGED indexed

(* ConfigBits returns if the tile type is there and has the feature.       *)
Has(tile, resolved, address) ==
  \/ IsPseudoPip(tile, resolved)
  \/ MatchingBuses(tile, resolved, address) # {}

ConfigBits(tile, resolved, address) ==
  /\ AddSegbitsToCache(resolved.type)
  /\ resolved.type \in segment_bits_cache'
  /\ Has(tile, resolved, address)

(* Otherwise it throws or fails a CHECK, which end the program.            *)
ConfigBitsDies(tile, feature, address) ==
  \/ tile \notin DOMAIN Grid /\ UNCHANGED databaseVars
  \/ /\ tile \in DOMAIN Grid
     /\ \E resolved \in Resolutions(tile, feature) :
          /\ AddSegbitsToCache(resolved.type)
          /\ resolved.type \in segment_bits_cache' =>
               ~ Has(tile, resolved, address)
=============================================================================
