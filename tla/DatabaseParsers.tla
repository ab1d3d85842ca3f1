--------------------------- MODULE DatabaseParsers ---------------------------
(***************************************************************************)
(* The parsers of database files (src/fpga/database-parsers.cc): what one  *)
(* line of a text file adds, and what a JSON value is turned into.         *)
(*                                                                         *)
(* Texts are strings.  A JSON value is a pair of its type and its content: *)
(* a number, a text, a sequence of values, or the sequence of the members  *)
(* of an object, each [name, value].  Lines are described at their parsers.*)
(***************************************************************************)
EXTENDS Integers, Sequences, SequencesExt, TLC

CONSTANTS
  Atoi,           (* text of a decimal number -> the number                 *)
  Strtol,         (* text that strtol reads a number from -> number         *)
  UintLimit,      (* 2^32                                                   *)
  LongLimit       (* 2^63                                                   *)

ASSUME ParsersAssumption ==
  /\ UintLimit \in Nat \ {0} /\ LongLimit \in Nat \ {0}
  /\ \A text \in DOMAIN Atoi : Atoi[text] \in Int
  /\ \A text \in DOMAIN Strtol : Strtol[text] \in Int

(* The texts that SimpleAtoi reads into a uint32_t, and into an int32_t.   *)
IsUint(text) == text \in DOMAIN Atoi /\ Atoi[text] \in 0 .. UintLimit - 1
IsInt32(text) ==
  text \in DOMAIN Atoi /\ 2 * Atoi[text] \in -UintLimit .. UintLimit - 1

(* absl::StatusOr, and a failed CHECK.                                     *)
Ok(value) == [status |-> "ok", value |-> value]
Error == [status |-> "error"]
Dies == [status |-> "died"]

(* Op(value).  (As a member of a set, TLC evaluates the value only once.)  *)
With(value, Op(_)) == CHOOSE result \in {Op(v) : v \in {value}} : TRUE

(* ASSIGN_OR_RETURN: the rest is done only with a value.                   *)
Then(result, Rest(_)) ==
  With(result, LAMBDA r : IF r.status = "ok" THEN Rest(r.value) ELSE r)

(* Assignment to a key of a map.                                          *)
InsertOver(map, k, v) ==
  [key \in DOMAIN map \cup {k} |-> IF key = k THEN v ELSE map[key]]

(* insert() on a map keeps what is there.                                  *)
Insert(map, k, v) ==
  [key \in DOMAIN map \cup {k} |-> IF key \in DOMAIN map THEN map[key] ELSE v]

-----------------------------------------------------------------------------
(* JSON.                                                                   *)

IsObject(json) == json[1] = "object"

Member(json, name) == SelectInSeq(json[2], LAMBDA m : m.name = name)

GetMember(json, name, Unmarshal(_)) ==
  IF ~ IsObject(json) \/ Member(json, name) = 0 THEN Error
  ELSE With(json[2][Member(json, name)].value, Unmarshal)

OptGetMember(json, name, Unmarshal(_)) ==
  IF IsObject(json) /\ Member(json, name) = 0 THEN Ok(<<>>)
  ELSE Then(GetMember(json, name, Unmarshal), LAMBDA v : Ok(<<v>>))

(* The members in their order, until one cannot be taken.                  *)
ForMembers(json, Take(_, _)) ==
  LET after[i \in 0 .. Len(json[2])] ==
        IF i = 0 THEN Ok(<<>>)
        ELSE Then(after[i - 1], LAMBDA v : With(json[2][i], LAMBDA m : Take(v, m)))
  IN after[Len(json[2])]

String(json) == IF json[1] = "string" THEN Ok(json[2]) ELSE Error

Uint(json) ==
  IF json[1] = "number" /\ json[2] \in 0 .. UintLimit - 1 THEN Ok(json[2]) ELSE Error

Int32(json) ==
  IF json[1] = "number" /\ 2 * json[2] \in -UintLimit .. UintLimit - 1
  THEN Ok(json[2]) ELSE Error

Strings(json) ==
  IF json[1] = "array" /\ \A i \in DOMAIN json[2] : json[2][i][1] = "string"
  THEN Ok([i \in DOMAIN json[2] |-> json[2][i][2]]) ELSE Error

StringMap(json) ==
  IF ~ IsObject(json) THEN Error
  ELSE ForMembers(json, LAMBDA out, m :
         Then(String(m.value), LAMBDA v : Ok(Insert(out, m.name, v))))

(* ParseBaseAddress: without digits, strtol gives zero; a negative number  *)
(* wraps around.                                                           *)
BaseAddress(json) ==
  Then(String(json), LAMBDA text :
    IF text \notin DOMAIN Strtol THEN Ok(0)
    ELSE IF Strtol[text] \in -LongLimit .. LongLimit - 1 THEN Ok(Strtol[text] % (2 * LongLimit))
    ELSE Error)

Alias(json) ==
  Then(GetMember(json, "sites", StringMap), LAMBDA sites :
  Then(GetMember(json, "start_offset", Uint), LAMBDA start_offset :
  Then(GetMember(json, "type", String), LAMBDA type :
    Ok([sites |-> sites, start_offset |-> start_offset, type |-> type]))))

BitsBlock(json) ==
  Then(OptGetMember(json, "alias", Alias), LAMBDA alias :
  Then(GetMember(json, "baseaddr", BaseAddress), LAMBDA base_address :
  Then(GetMember(json, "frames", Uint), LAMBDA frames :
  Then(GetMember(json, "offset", Int32), LAMBDA offset :
  Then(GetMember(json, "words", Uint), LAMBDA words :
    Ok([alias |-> alias, base_address |-> base_address, frames |-> frames,
        offset |-> offset, words |-> words]))))))

StringToConfigBusType == {"BLOCK_RAM", "CLB_IO_CLK", "CFG_CLB"}

(* Whether this is an object is not asked: going through the members of    *)
(* anything else fails an assertion of rapidjson.                          *)
Bits(json) ==
  IF ~ IsObject(json) THEN Dies
  ELSE ForMembers(json, LAMBDA out, m :
         IF m.name \notin StringToConfigBusType THEN Error
         ELSE Then(BitsBlock(m.value), LAMBDA v : Ok(Insert(out, m.name, v))))

UnmarshalTile(json) ==
  Then(GetMember(json, "type", String), LAMBDA type :
  Then(GetMember(json, "grid_x", Uint), LAMBDA x :
  Then(GetMember(json, "grid_y", Uint), LAMBDA y :
  Then(OptGetMember(json, "clock_region", String), LAMBDA clock_region :
  Then(GetMember(json, "bits", Bits), LAMBDA bits :
  Then(GetMember(json, "pin_functions", StringMap), LAMBDA pin_functions :
  Then(GetMember(json, "sites", StringMap), LAMBDA sites :
  Then(GetMember(json, "prohibited_sites", Strings), LAMBDA prohibited_sites :
    Ok([type |-> type, coord |-> <<x, y>>, clock_region |-> clock_region,
        bits |-> bits, pin_functions |-> pin_functions, sites |-> sites,
        prohibited_sites |-> prohibited_sites])))))))))

ParseTileGridJSON(json) ==
  IF ~ IsObject(json) THEN Error
  ELSE ForMembers(json, LAMBDA out, m :
         Then(UnmarshalTile(m.value), LAMBDA v : Ok(Insert(out, m.name, v))))

(* Bug: the keys are taken as they come.                                   *)
InAnyOrder(json, Unmarshal(_)) ==
  IF ~ IsObject(json) THEN Error
  ELSE ForMembers(json, LAMBDA out, m :
         IF ~ IsInt32(m.name) THEN Error
         ELSE Then(Unmarshal(m.value), LAMBDA v : Ok(Append(out, v))))

(* Keys are to be "0", "1", "2" in exactly this order, or a CHECK fails.   *)
InSequence(json, Unmarshal(_)) ==
  IF ~ IsObject(json) THEN Error
  ELSE ForMembers(json, LAMBDA out, m :
         IF ~ IsInt32(m.name) THEN Error
         ELSE IF Atoi[m.name] # Len(out) THEN Dies
         ELSE Then(Unmarshal(m.value), LAMBDA v : Ok(Append(out, v))))

(* Bug: see InAnyOrder.                                                    *)
ColumnsInAnyOrder(json) ==
  InAnyOrder(json, LAMBDA column : GetMember(column, "frame_count", Uint))

Columns(json) == InSequence(json, LAMBDA column : GetMember(column, "frame_count", Uint))

Row(json) ==
  IF ~ IsObject(json) THEN Error
  ELSE ForMembers(json, LAMBDA out, m :
         IF m.name \notin StringToConfigBusType THEN Error
         ELSE Then(GetMember(m.value, "configuration_columns", Columns),
                   LAMBDA counts : Ok(Insert(out, m.name, counts))))

RegionHalf(json) ==
  InSequence(json, LAMBDA row : GetMember(row, "configuration_buses", Row))

Rows(half) == GetMember(half, "rows", RegionHalf)

GlobalClockRegions(json) ==
  Then(GetMember(json, "bottom", Rows), LAMBDA bottom :
  Then(GetMember(json, "top", Rows), LAMBDA top :
    Ok([bottom |-> bottom, top |-> top])))

TakeIOBank(out, m) ==
  IF ~ IsUint(m.name) THEN Error
  ELSE IF m.value[1] # "string" THEN Dies
  ELSE Ok(Insert(out, Atoi[m.name], m.value[2]))

IOBanksIDsToLocation(json) ==
  IF ~ IsObject(json) THEN Dies ELSE ForMembers(json, TakeIOBank)

ParsePartJSON(json) ==
  Then(GetMember(json, "idcode", Uint), LAMBDA idcode :
  Then(OptGetMember(json, "iobanks", IOBanksIDsToLocation), LAMBDA iobanks :
  Then(GetMember(json, "global_clock_regions", GlobalClockRegions), LAMBDA regions :
    Ok([idcode |-> idcode,
        iobanks |-> IF iobanks = <<>> THEN <<>> ELSE iobanks[1],
        global_clock_regions |-> regions]))))

-----------------------------------------------------------------------------
(* Lines.  Each parser gets what the lines before have given.              *)

(* ppips_*.db.  A line is the sequence of its words, and empty only if it  *)
(* does not even have blanks.                                              *)
PseudoPIPTypes == {"always", "default", "hint"}

ParsePseudoPIPDatabaseLine(n, line, pips) ==
  IF line.empty THEN Ok(pips)
  ELSE IF Len(line.words) = 2 /\ line.words[2] \in PseudoPIPTypes
  THEN Ok(Insert(pips, line.words[1], line.words[2]))
  ELSE Error

(* segbits_*.db.  A line is a sequence: a name [feature, index], where     *)
(* index is what is in brackets at the end, "" if there are none; and bits *)
(* [set, coordinates], where underscores separate coordinates.             *)
TileFeature(name) ==
  IF IsUint(name.index)
  THEN [tile_feature |-> <<name.feature, "">>, address |-> Atoi[name.index]]
  ELSE [tile_feature |-> <<name.feature, name.index>>, address |-> 0]

IsSegmentBit(bit) ==
  Len(bit.coordinates) = 2 /\ \A i \in 1 .. 2 : IsUint(bit.coordinates[i])

SegmentBit(bit) ==
  [word_column |-> Atoi[bit.coordinates[1]], word_bit |-> Atoi[bit.coordinates[2]],
   is_set |-> bit.set]

ParseSegmentsBitsDatabaseLine(n, line, segbits) ==
  IF line = <<>> THEN Ok(segbits)
  ELSE IF Len(line) > 1 /\ \A i \in 2 .. Len(line) : IsSegmentBit(line[i])
  THEN Ok(Insert(segbits, TileFeature(line[1]),
                 [i \in 1 .. Len(line) - 1 |-> SegmentBit(line[i + 1])]))
  ELSE Error

(* package_pins.csv.  A line is the sequence of its columns.               *)
kHeader == <<"pin", "bank", "site", "tile", "pin_function">>

(* Empty columns are dropped, so that later ones take their place.         *)
Segments(line) == SelectSeq(line, LAMBDA column : column # "")

ParsePackagePinCSVLine(n, line, pins) ==
  LET segments == Segments(line)
  IN IF n = 1 THEN IF segments = kHeader THEN Ok(pins) ELSE Error
     ELSE IF segments = <<>> THEN Ok(pins)
     ELSE IF Len(segments) = 5 /\ IsUint(segments[2])
     THEN Ok(Append(pins, [bank |-> Atoi[segments[2]], tile |-> segments[4]]))
     ELSE Error

-----------------------------------------------------------------------------
(* The sinks of ParsePartsInfos, for one entry of a YAML file.             *)
DeviceSink(device, properties, fabrics) ==
  IF "fabric" \in DOMAIN properties
  THEN Ok(Insert(fabrics, device, properties["fabric"])) ELSE Error

PartSink(fabrics, part, properties, infos) ==
  IF /\ {"device", "package", "speedgrade"} \subseteq DOMAIN properties
     /\ properties["device"] \in DOMAIN fabrics
  THEN Ok(Insert(infos, part,
                 [device |-> properties["device"], package |-> properties["package"],
                  speedgrade |-> properties["speedgrade"],
                  fabric |-> fabrics[properties["device"]]]))
  ELSE Error
=============================================================================
