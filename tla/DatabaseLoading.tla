---------------------------- MODULE DatabaseLoading ----------------------------
(***************************************************************************)
(* PartDatabase::Parse and AddSegbitsToCache (src/fpga/database.cc): the   *)
(* files of a part are read when the database is opened, those of a tile   *)
(* type when one of its features is first asked for.                       *)
(*                                                                         *)
(* A file has a state: it is "missing", it cannot be "unmapped" (mmap      *)
(* fails, which goes unnoticed), or it is "mapped".  A file of lines may   *)
(* end without a newline where a page ends.  A line of YAML has a kind;    *)
(* a blank or a comment is "skipped", a name at the "top" and a "nested"   *)
(* pair have their colon or not.                                           *)
(***************************************************************************)
EXTENDS DatabaseParsers

CONSTANT Databases    (* records of files, see MCDatabaseLoading            *)

(* The optional files of a tile type, in the order in which they are read. *)
Kinds == <<"ppips", "segbits", "block_ram">>

(* The values in a JSON value, as deep as the parsers go; an object is a   *)
(* sequence of members.                                                    *)
Deeper(values) ==
  values \cup UNION {{m.value : m \in ToSet(v[2])} : v \in {v \in values : IsObject(v)}}

Within(json) == Deeper(Deeper(Deeper(Deeper(Deeper(Deeper(Deeper({json})))))))

IsJSON(json) == \A v \in Within(json) : IsObject(v) => v[2] \in Seq(ToSet(v[2]))

(* Each file of a tile type is in one of the three states, and a file that *)
(* is mapped is a JSON value or a sequence of lines.                       *)
ASSUME DatabasesAssumption ==
  \A d \in Databases :
    /\ d.part.state = "mapped" => IsJSON(d.part.json)
    /\ \A fabric \in DOMAIN d.tilegrids :
         d.tilegrids[fabric].state = "mapped" => IsJSON(d.tilegrids[fabric].json)
    /\ \A read \in {d.devices, d.parts, d.package_pins} :
         read.state = "mapped" => read.lines \in Seq(ToSet(read.lines))
    /\ \A name \in DOMAIN d.directories : \A type \in DOMAIN d.directories[name] :
         \A kind \in ToSet(Kinds) :
           LET read == d.directories[name][type][kind]
           IN /\ read.state \in {"missing", "unmapped", "mapped"}
              /\ read.state = "mapped" => read.lines \in Seq(ToSet(read.lines))

VARIABLES
  files,                (* the directory of the database                    *)
  step,                 (* the file that is read, or what is done next      *)
  line_number,
  entry,                (* the entry of the YAML file, [key, properties]    *)
  out,                  (* what the file that is read has given so far      *)
  parsed,               (* what the files before have given                 *)
  pending,              (* banks of part.iobanks that are not registered    *)
  tile_to_banks,
  banks_to_tiles,
  reading,              (* the tile type that is asked for                  *)
  segments,             (* what its files have given: kind of file -> map   *)
  segment_bits_cache,   (* tile type -> [pips, segment_bits]                *)
  gone                  (* the files of tile types have been removed        *)

file == <<line_number, entry, out>>
registry == <<pending, tile_to_banks, banks_to_tiles>>
cache == <<reading, segments, segment_bits_cache>>
vars == <<files, step, file, parsed, registry, cache, gone>>

Final == {"failed", "died"}

(* The files of lines, and those of JSON.                                  *)
LineSteps == {"package_pins"} \cup ToSet(Kinds)
YAMLSteps == {"devices", "parts"}

Missing == [state |-> "missing"]

(* A file that was not there when tile types were indexed is not looked    *)
(* for.                                                                    *)
TileTypeFile(type, kind) ==
  LET path == parsed.paths[type]
  IN IF kind \notin path.found THEN [state |-> "unknown"]
     ELSE IF gone THEN Missing ELSE files.directories[path.directory][type][kind]

File ==
  CASE step \in {"devices", "parts", "part", "package_pins"} -> files[step]
    [] step = "tilegrid" ->
         IF parsed.info.fabric \in DOMAIN files.tilegrids
         THEN files.tilegrids[parsed.info.fabric] ELSE Missing
    [] step \in ToSet(Kinds) -> TileTypeFile(reading, step)

-----------------------------------------------------------------------------
Init ==
  /\ files \in Databases
  /\ step = "mapping"
  /\ line_number = 1
  /\ entry = [key |-> "", properties |-> <<>>]
  /\ out = <<>>
  /\ parsed = [fabrics |-> <<>>, info |-> <<>>, tilegrid |-> <<>>, paths |-> <<>>,
                part |-> <<>>, package_pins |-> <<>>]
  /\ pending = {} /\ tile_to_banks = <<>> /\ banks_to_tiles = <<>>
  /\ reading = "" /\ segments = <<>> /\ segment_bits_cache = <<>>
  /\ gone = FALSE

(* Reading starts at the first line, with nothing.                         *)
StartOf(next) ==
  /\ step' = next
  /\ line_number' = 1
  /\ entry' = [key |-> "", properties |-> <<>>]
  /\ out' = <<>>

EndsAs(end) == step' = end /\ UNCHANGED file

Parsed(name, value) == parsed' = [parsed EXCEPT ![name] = value]

(* ParsePartInfo maps both files before it parses one.                     *)
MapMapping ==
  /\ step = "mapping"
  /\ IF "missing" \in {files.parts.state, files.devices.state}
     THEN EndsAs("failed") ELSE StartOf("devices")
  /\ UNCHANGED <<files, parsed, registry, cache, gone>>

(* Bug: the mask file that was found is read as well.                      *)
AfterKindMask ==
  CASE step = "ppips" -> "segbits"
    [] step = "segbits" -> "block_ram"
    [] step = "block_ram" -> "mask"

AfterKind ==
  CASE step = "ppips" -> "segbits"
    [] step = "segbits" -> "block_ram"
    [] step = "block_ram" -> "insert"

(* Bug: a file of a tile type that has gone counts as one that never was.  *)
MissingFileSkipped ==
  /\ step \in {"tilegrid", "part"} \cup LineSteps
  /\ File.state = "missing"
  /\ IF step \in ToSet(Kinds) THEN StartOf(AfterKind) ELSE EndsAs("failed")
  /\ UNCHANGED <<files, parsed, registry, cache, gone>>

(* The file of the step is not there: if it is of a tile type, nothing of  *)
(* the type is kept, and the next request starts again.                    *)
MissingFile ==
  /\ step \in {"tilegrid", "part"} \cup LineSteps
  /\ File.state = "missing"
  /\ EndsAs(IF step \in ToSet(Kinds) THEN "open" ELSE "failed")
  /\ UNCHANGED <<files, parsed, registry, cache, gone>>

UnmappedFile ==
  /\ step \in {"tilegrid", "part"} \cup LineSteps \cup YAMLSteps
  /\ File.state = "unmapped"
  /\ EndsAs("died")
  /\ UNCHANGED <<files, parsed, registry, cache, gone>>

-----------------------------------------------------------------------------
(* ParseMappingYAML.                                                       *)

Sink ==
  IF entry.key = "" THEN Ok(out)
  ELSE IF step = "devices" THEN DeviceSink(entry.key, entry.properties, out)
  ELSE PartSink(parsed.fabrics, entry.key, entry.properties, out)

IsYAMLLine(kind) ==
  /\ step \in YAMLSteps
  /\ File.state = "mapped"
  /\ line_number <= Len(File.lines)
  /\ File.lines[line_number].kind = kind

NextLine == line_number' = line_number + 1 /\ UNCHANGED step

(* Bug: a skipped line is looked at again.                                 *)
SkippedLineAgain == IsYAMLLine("skipped") /\ UNCHANGED vars

SkippedLine ==
  /\ IsYAMLLine("skipped")
  /\ NextLine
  /\ UNCHANGED <<files, entry, out, parsed, registry, cache, gone>>

(* Bug: a new entry starts with the properties of the last one.            *)
TopLineKeeps ==
  /\ IsYAMLLine("top")
  /\ LET line == File.lines[line_number]
         ok == Sink.status = "ok" /\ line.colon
     IN IF ok
        THEN /\ NextLine
             /\ out' = Sink.value
             /\ entry' = [entry EXCEPT !.key = line.key]
        ELSE EndsAs("failed")
  /\ UNCHANGED <<files, parsed, registry, cache, gone>>

(* The entry before is flushed, then a new one starts.                     *)
TopLine ==
  /\ IsYAMLLine("top")
  /\ LET line == File.lines[line_number]
         ok == Sink.status = "ok" /\ line.colon
     IN IF ok
        THEN /\ NextLine
             /\ out' = Sink.value
             /\ entry' = [key |-> line.key, properties |-> <<>>]
        ELSE EndsAs("failed")
  /\ UNCHANGED <<files, parsed, registry, cache, gone>>

NestedLine ==
  /\ IsYAMLLine("nested")
  /\ LET line == File.lines[line_number]
     IN IF line.colon
        THEN /\ NextLine
             /\ entry' = [entry EXCEPT !.properties =
                            InsertOver(@, line.key, line.value)]
             /\ UNCHANGED out
        ELSE EndsAs("failed")
  /\ UNCHANGED <<files, parsed, registry, cache, gone>>

AtEndOfYAML(name) ==
  /\ step = name
  /\ File.state = "mapped"
  /\ line_number > Len(File.lines)

EndOfDevices ==
  /\ AtEndOfYAML("devices")
  /\ IF Sink.status = "ok"
     THEN StartOf("parts") /\ Parsed("fabrics", Sink.value)
     ELSE EndsAs("failed") /\ UNCHANGED parsed
  /\ UNCHANGED <<files, registry, cache, gone>>

(* The part that is asked for must be there.                               *)
EndOfParts ==
  /\ AtEndOfYAML("parts")
  /\ IF Sink.status = "ok" /\ files.part_name \in DOMAIN Sink.value
     THEN StartOf("tilegrid") /\ Parsed("info", Sink.value[files.part_name])
     ELSE EndsAs("failed") /\ UNCHANGED parsed
  /\ UNCHANGED <<files, registry, cache, gone>>

-----------------------------------------------------------------------------
(* The files of JSON, and the directories of tile types.                   *)

Result(result) == IF result.status = "error" THEN "failed" ELSE "died"

ParseTileGrid ==
  /\ step = "tilegrid"
  /\ File.state = "mapped"
  /\ LET result == ParseTileGridJSON(File.json)
     IN IF result.status = "ok"
        THEN EndsAs("index") /\ Parsed("tilegrid", result.value)
        ELSE EndsAs(Result(result)) /\ UNCHANGED parsed
  /\ UNCHANGED <<files, registry, cache, gone>>

(* Where a tile type was found, and with which files.                      *)
Directories(type) ==
  {d \in DOMAIN files.directories : type \in DOMAIN files.directories[d]}

Found(type, d) ==
  {k \in ToSet(Kinds) : files.directories[d][type][k].state # "missing"}

TileTypes == UNION {DOMAIN files.directories[d] : d \in DOMAIN files.directories}

(* IndexTileTypes and GetDatabasePaths: what cannot be accessed is left    *)
(* out, and of a type that is in several directories the first counts.     *)
IndexTileTypes ==
  /\ step = "index"
  /\ \E accessed \in SUBSET TileTypes :
       \E directory \in [accessed -> DOMAIN files.directories] :
         /\ \A type \in accessed : directory[type] \in Directories(type)
         /\ Parsed("paths", [type \in accessed |->
                               [directory |-> directory[type],
                                found |-> Found(type, directory[type])]])
  /\ EndsAs("part")
  /\ UNCHANGED <<files, registry, cache, gone>>

(* There may be no iterator at all, and the calls that take no error code  *)
(* throw, which ends the program.                                          *)
CannotIndex ==
  /\ step = "index"
  /\ EndsAs("failed") \/ EndsAs("died")
  /\ UNCHANGED <<files, parsed, registry, cache, gone>>

ParsePart ==
  /\ step = "part"
  /\ File.state = "mapped"
  /\ LET result == ParsePartJSON(File.json)
     IN IF result.status = "ok"
        THEN StartOf("package_pins") /\ Parsed("part", result.value)
        ELSE EndsAs(Result(result)) /\ UNCHANGED parsed
  /\ UNCHANGED <<files, registry, cache, gone>>

-----------------------------------------------------------------------------
(* LinesGenerator, with the parser of the step.                            *)

ParseLine(line) ==
  CASE step = "package_pins" -> ParsePackagePinCSVLine(line_number, line, out)
    [] step = "ppips" -> ParsePseudoPIPDatabaseLine(line_number, line, out)
    [] OTHER -> ParseSegmentsBitsDatabaseLine(line_number, line, out)

IsAtLine ==
  /\ step \in LineSteps
  /\ File.state = "mapped"
  /\ line_number <= Len(File.lines)

(* A line that is an error ends the file; of a tile type nothing is kept.  *)
GenerateLine ==
  /\ IsAtLine
  /\ LET result == ParseLine(File.lines[line_number])
     IN IF result.status = "ok"
        THEN NextLine /\ out' = result.value /\ UNCHANGED entry
        ELSE EndsAs(IF step \in ToSet(Kinds) THEN "open" ELSE "failed")
  /\ UNCHANGED <<files, parsed, registry, cache, gone>>

(* skip_to_eol looks at the character before it asks whether that is still *)
(* in the file: at the end of a page there may be none.                    *)
OverrunPage ==
  /\ IsAtLine
  /\ File.ends_page /\ line_number = Len(File.lines)
  /\ EndsAs("died")
  /\ UNCHANGED <<files, parsed, registry, cache, gone>>

AtEndOfLines ==
  /\ File.state = "mapped"
  /\ line_number > Len(File.lines)

EndOfPins ==
  /\ step = "package_pins"
  /\ AtEndOfLines
  /\ Parsed("package_pins", out)
  /\ pending' = DOMAIN parsed.part.iobanks
  /\ StartOf("registry")
  /\ UNCHANGED <<files, tile_to_banks, banks_to_tiles, cache, gone>>

-----------------------------------------------------------------------------
(* BanksTilesRegistry::Create.                                             *)

(* Bug: the tile of an IO bank is given to the bank only.                  *)
RegisterHalf(bank, tile) ==
  /\ banks_to_tiles' = InsertOver(banks_to_tiles, bank,
       {tile} \cup IF bank \in DOMAIN banks_to_tiles THEN banks_to_tiles[bank] ELSE {})
  /\ tile_to_banks' = InsertOver(tile_to_banks, tile, <<bank>>)

Register(bank, tile) ==
  /\ banks_to_tiles' = InsertOver(banks_to_tiles, bank,
       {tile} \cup IF bank \in DOMAIN banks_to_tiles THEN banks_to_tiles[bank] ELSE {})
  /\ tile_to_banks' = InsertOver(tile_to_banks, tile,
       Append(IF tile \in DOMAIN tile_to_banks THEN tile_to_banks[tile] ELSE <<>>, bank))

HclkTile(location) == "HCLK_IOI3_" \o location

(* In the order of a hash map.                                             *)
RegisterIOBank ==
  /\ step = "registry"
  /\ \E bank \in pending :
       /\ Register(bank, HclkTile(parsed.part.iobanks[bank]))
       /\ pending' = pending \ {bank}
  /\ UNCHANGED <<files, step, file, parsed, cache, gone>>

(* line_number counts the pins.                                            *)
RegisterPin ==
  /\ step = "registry"
  /\ pending = {}
  /\ line_number <= Len(parsed.package_pins)
  /\ LET pin == parsed.package_pins[line_number] IN Register(pin.bank, pin.tile)
  /\ NextLine
  /\ UNCHANGED <<files, entry, out, parsed, pending, cache, gone>>

Opened ==
  /\ step = "registry"
  /\ pending = {}
  /\ line_number > Len(parsed.package_pins)
  /\ EndsAs("open")
  /\ UNCHANGED <<files, parsed, registry, cache, gone>>

-----------------------------------------------------------------------------
(* AddSegbitsToCache, of a type that is not in the cache: of one that was  *)
(* not found, nothing is read.                                             *)
AddSegbitsToCache ==
  /\ step = "open"
  /\ reading' \in DOMAIN parsed.paths \ DOMAIN segment_bits_cache
  /\ segments' = <<>>
  /\ StartOf("ppips")
  /\ UNCHANGED <<files, parsed, registry, segment_bits_cache, gone>>

UnknownFile ==
  /\ step \in ToSet(Kinds)
  /\ File.state = "unknown"
  /\ StartOf(AfterKind)
  /\ UNCHANGED <<files, parsed, registry, cache, gone>>

EndOfTileTypeFile ==
  /\ step \in ToSet(Kinds)
  /\ AtEndOfLines
  /\ segments' = Insert(segments, step, out)
  /\ StartOf(AfterKind)
  /\ UNCHANGED <<files, parsed, registry, reading, segment_bits_cache, gone>>

(* The file of the features on a bus.                                      *)
KindOfBus == [CLB_IO_CLK |-> "segbits", BLOCK_RAM |-> "block_ram"]

SegmentsBitsWithPseudoPIPs ==
  LET buses == {bus \in DOMAIN KindOfBus : KindOfBus[bus] \in DOMAIN segments}
  IN [pips |-> IF "ppips" \in DOMAIN segments THEN segments["ppips"] ELSE <<>>,
      segment_bits |-> [bus \in buses |-> segments[KindOfBus[bus]]]]

InsertTileType ==
  /\ step = "insert"
  /\ segment_bits_cache' =
       Insert(segment_bits_cache, reading, SegmentsBitsWithPseudoPIPs)
  /\ EndsAs("open")
  /\ UNCHANGED <<files, parsed, registry, reading, segments, gone>>

-----------------------------------------------------------------------------
(* Somebody else removes the files of tile types.  A file that is mapped   *)
(* stays.                                                                  *)
RemoveFiles ==
  /\ step \in ToSet(Kinds) /\ line_number = 1
  /\ gone' = TRUE
  /\ UNCHANGED <<files, step, file, parsed, registry, cache>>

Open ==
  \/ MapMapping \/ SkippedLine \/ TopLine \/ NestedLine \/ EndOfDevices \/ EndOfParts
  \/ ParseTileGrid \/ IndexTileTypes \/ CannotIndex \/ ParsePart
  \/ EndOfPins \/ RegisterIOBank \/ RegisterPin \/ Opened

Read ==
  \/ MissingFile \/ UnmappedFile \/ GenerateLine \/ OverrunPage
  \/ UnknownFile \/ EndOfTileTypeFile \/ InsertTileType

Next == Open \/ Read \/ AddSegbitsToCache \/ RemoveFiles

(* The program goes on once it has begun to read.                          *)
Spec == Init /\ [][Next]_vars /\ WF_vars(Open \/ Read)

-----------------------------------------------------------------------------
Steps ==
  {"mapping", "tilegrid", "index", "part", "registry", "open", "insert"}
    \cup YAMLSteps \cup LineSteps \cup Final

(* The variables have their types.                                         *)
TypeOK ==
  /\ step \in Steps
  /\ line_number \in Nat \ {0}
  /\ DOMAIN parsed.paths \subseteq TileTypes
  /\ \A type \in DOMAIN parsed.paths : parsed.paths[type].found \subseteq ToSet(Kinds)
  /\ DOMAIN segment_bits_cache \subseteq TileTypes
  /\ DOMAIN segments \subseteq ToSet(Kinds)
  /\ pending \subseteq 0 .. UintLimit - 1
  /\ DOMAIN banks_to_tiles \subseteq 0 .. UintLimit - 1
  /\ gone \in BOOLEAN

(* The line of the property in the first entry of that name: the last one  *)
(* that gives it before the next entry.                                    *)
IsOwnValue(lines, name, property, value) ==
  \E i \in DOMAIN lines :
    /\ lines[i].kind = "top" /\ lines[i].key = name
    /\ \A j \in 1 .. i - 1 : lines[j].kind = "top" => lines[j].key # name
    /\ \E j \in i + 1 .. Len(lines) :
         /\ \A k \in i + 1 .. j : lines[k].kind # "top"
         /\ lines[j].kind = "nested" /\ lines[j].key = property
         /\ lines[j].value = value
         /\ \A k \in j + 1 .. Len(lines) :
              lines[k].kind = "nested" /\ lines[k].key = property =>
                \E l \in j + 1 .. k : lines[l].kind = "top"

(* A part has what its own entry says, and the fabric that the entry of    *)
(* its device says: nothing is taken over from the entry before, however   *)
(* lines are blank, repeated or missing (ParseMappingYAML).                *)
InfoOfOwnEntry ==
  parsed.info # <<>> =>
    /\ \A property \in {"device", "package", "speedgrade"} :
         IsOwnValue(files.parts.lines, files.part_name, property, parsed.info[property])
    /\ IsOwnValue(files.devices.lines, parsed.info.device, "fabric", parsed.info.fabric)

(* The value of a member.                                                  *)
At(json, name) == json[2][Member(json, name)].value

(* Each has the member with its index for a key.                           *)
ColumnsAsWritten(read, columns) ==
  \A c \in DOMAIN read : \E column \in ToSet(columns) :
    /\ Atoi[column.name] = c - 1
    /\ read[c] = At(column.value, "frame_count")[2]

RowAsWritten(read, buses) ==
  \A bus \in DOMAIN read :
    ColumnsAsWritten(read[bus], At(At(buses, bus), "configuration_columns")[2])

RowsAsWritten(read, rows) ==
  /\ Len(read) = Len(rows)
  /\ \A r \in DOMAIN read : \E row \in ToSet(rows) :
       /\ Atoi[row.name] = r - 1
       /\ RowAsWritten(read[r], At(row.value, "configuration_buses"))

BlocksAsWritten(bits, json) ==
  /\ DOMAIN bits = {m.name : m \in ToSet(json[2])}
  /\ \A bus \in DOMAIN bits :
       /\ bits[bus].offset = At(At(json, bus), "offset")[2]
       /\ bits[bus].alias = <<>> <=> Member(At(json, bus), "alias") = 0

(* The frame counts of a part are those of the rows and columns that have  *)
(* their index for a key, whatever the order of keys in the file; and the  *)
(* blocks of a tile are its own (ParsePartJSON, ParseTileGridJSON).        *)
JSONAsWritten ==
  /\ parsed.part # <<>> =>
       \A half \in {"bottom", "top"} :
         LET regions == At(files.part.json, "global_clock_regions")
         IN RowsAsWritten(parsed.part.global_clock_regions[half],
                          At(At(regions, half), "rows")[2])
  /\ \A tile \in DOMAIN parsed.tilegrid :
       BlocksAsWritten(parsed.tilegrid[tile].bits,
                       At(At(files.tilegrids[parsed.info.fabric].json, tile), "bits"))

(* The bank of the tile is in the files.                                   *)
IsBankOf(bank, tile) ==
  LET iobanks == files.part.json[2][Member(files.part.json, "iobanks")].value[2]
      lines == files.package_pins.lines
  IN \/ /\ Member(files.part.json, "iobanks") # 0
        /\ \E i \in DOMAIN iobanks :
             /\ Atoi[iobanks[i].name] = bank
             /\ tile = HclkTile(iobanks[i].value[2])
             /\ \A j \in 1 .. i - 1 : Atoi[iobanks[j].name] # bank
     \/ \E i \in 2 .. Len(lines) :
          LET columns == Segments(lines[i])
          IN Len(columns) = 5 /\ Atoi[columns[2]] = bank /\ columns[4] = tile

(* In an open database, the tiles of a bank are those that have the bank,  *)
(* and both are what part.json and every line of package_pins.csv say.     *)
(* The bank that comes first, which STEPDOWN takes, is an IO bank if the   *)
(* tile has one (BanksTilesRegistry::Create, ParsePackagePins).            *)
BanksAgree ==
  step = "open" =>
    /\ \A i \in 2 .. Len(files.package_pins.lines) :
         LET columns == Segments(files.package_pins.lines[i])
         IN columns # <<>> => Len(columns) = 5 /\ IsUint(columns[2])
    /\ \A bank \in DOMAIN banks_to_tiles : \A tile \in banks_to_tiles[bank] :
         tile \in DOMAIN tile_to_banks /\ bank \in ToSet(tile_to_banks[tile])
    /\ \A tile \in DOMAIN tile_to_banks : \A bank \in ToSet(tile_to_banks[tile]) :
         bank \in DOMAIN banks_to_tiles /\ tile \in banks_to_tiles[bank]
    /\ \A bank \in {Atoi[text] : text \in DOMAIN Atoi} : \A tile \in DOMAIN tile_to_banks :
         IsBankOf(bank, tile) <=> bank \in ToSet(tile_to_banks[tile])
    /\ \A tile \in DOMAIN tile_to_banks : \A bank \in DOMAIN parsed.part.iobanks :
         tile = HclkTile(parsed.part.iobanks[bank]) =>
           tile_to_banks[tile][1] \in DOMAIN parsed.part.iobanks

(* What the line gives, as a pair, if it is well-formed.                   *)
PipOf(line) == <<line.words[1], line.words[2]>>
SegbitsOf(line) == <<TileFeature(line[1]), [i \in 1 .. Len(line) - 1 |-> SegmentBit(line[i + 1])]>>

IsEmptyOfPips(line) == line.empty
IsEmptyOfSegbits(line) == line = <<>>

(* The map has the first value that the lines give each key.               *)
IsContent(map, lines, IsEmpty(_), Of(_)) ==
  LET given == {i \in DOMAIN lines : ~ IsEmpty(lines[i])}
  IN /\ DOMAIN map = {Of(lines[i])[1] : i \in given}
     /\ \A i \in given :
          \/ map[Of(lines[i])[1]] = Of(lines[i])[2]
          \/ \E j \in given : j < i /\ Of(lines[j])[1] = Of(lines[i])[1]

(* A tile type is cached with all that its files say, or not at all: every *)
(* line of each file that was found is well-formed and counts, if none     *)
(* before has the same name, also if files are removed while others are    *)
(* read (ParseTileTypeDatabase, AddSegbitsToCache).                        *)
CachedIsContent ==
  \A type \in DOMAIN segment_bits_cache :
    LET path == parsed.paths[type]
        cached == segment_bits_cache[type]
        lines(kind) == files.directories[path.directory][type][kind].lines
    IN /\ IF "ppips" \in path.found
          THEN /\ \A i \in DOMAIN lines("ppips") :
                    ParsePseudoPIPDatabaseLine(i, lines("ppips")[i], <<>>).status = "ok"
               /\ IsContent(cached.pips, lines("ppips"), IsEmptyOfPips, PipOf)
          ELSE cached.pips = <<>>
       /\ \A bus \in DOMAIN KindOfBus :
            IF KindOfBus[bus] \in path.found
            THEN /\ bus \in DOMAIN cached.segment_bits
                 /\ \A i \in DOMAIN lines(KindOfBus[bus]) :
                      LET line == lines(KindOfBus[bus])[i]
                      IN line # <<>> => Len(line) > 1 /\ \A k \in 2 .. Len(line) :
                                                          IsSegmentBit(line[k])
                 /\ IsContent(cached.segment_bits[bus], lines(KindOfBus[bus]),
                              IsEmptyOfSegbits, SegbitsOf)
            ELSE bus \notin DOMAIN cached.segment_bits

(* The program gets through every file: again and again it is open for     *)
(* requests, or it has ended (LinesGenerator, ParseMappingYAML, Create).   *)
Returns == []<>(step \in {"open"} \cup Final)
=============================================================================
