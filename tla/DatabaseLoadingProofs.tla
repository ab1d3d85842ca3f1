------------------------ MODULE DatabaseLoadingProofs ------------------------
(***************************************************************************)
(* What the database keeps of a tile type is what its files say, what it   *)
(* says of a part is what the entry of the part says, its frame counts and *)
(* the blocks of tiles are those of the JSON files, and the banks and      *)
(* tiles of an open database are those of part.json and package_pins.csv,  *)
(* for all databases and however long their files are.                     *)
(***************************************************************************)
EXTENDS DatabaseLoading, NaturalsInduction, WellFoundedInduction, TLAPS

-----------------------------------------------------------------------------
(* Tile types.                                                             *)

(* What is read of a line of each kind of file.                            *)
IsEmptyLine(kind, line) ==
  IF kind = "ppips" THEN IsEmptyOfPips(line) ELSE IsEmptyOfSegbits(line)

IsWellFormed(kind, line) ==
  \/ IsEmptyLine(kind, line)
  \/ IF kind = "ppips" THEN Len(line.words) = 2 /\ line.words[2] \in PseudoPIPTypes
     ELSE Len(line) > 1 /\ \A k \in 2 .. Len(line) : IsSegmentBit(line[k])

PairOf(kind, line) == IF kind = "ppips" THEN PipOf(line) ELSE SegbitsOf(line)

(* The lines that count among the first n.                                 *)
Given(kind, lines, n) == {i \in 1 .. n : ~ IsEmptyLine(kind, lines[i])}

(* The map is what the first n lines give.                                 *)
Gives(kind, lines, n, map) ==
  /\ \A i \in 1 .. n : IsWellFormed(kind, lines[i])
  /\ DOMAIN map = {PairOf(kind, lines[i])[1] : i \in Given(kind, lines, n)}
  /\ \A i \in Given(kind, lines, n) :
       \/ map[PairOf(kind, lines[i])[1]] = PairOf(kind, lines[i])[2]
       \/ \E j \in Given(kind, lines, n) :
            j < i /\ PairOf(kind, lines[j])[1] = PairOf(kind, lines[i])[1]

FileOf(type, kind) == files.directories[parsed.paths[type].directory][type][kind]

(* The map is the content of a file that was found.                        *)
IsFile(type, kind, map) ==
  /\ FileOf(type, kind).state = "mapped"
  /\ Gives(kind, FileOf(type, kind).lines, Len(FileOf(type, kind).lines), map)

(* The files that have been read when it is the turn of another.           *)
Past(next) ==
  CASE next = "ppips" -> {}
    [] next = "segbits" -> {"ppips"}
    [] next = "block_ram" -> {"ppips", "segbits"}
    [] OTHER -> ToSet(Kinds)

(* Before tile types are indexed none is cached.                           *)
NoneIndexed ==
  /\ "paths" \in DOMAIN parsed
  /\ step \in {"mapping", "devices", "parts", "tilegrid", "index"} =>
       DOMAIN segment_bits_cache = {}

(* A tile type was found where the database has it.                        *)
Indexed ==
  \A type \in DOMAIN parsed.paths :
    /\ parsed.paths[type].directory \in DOMAIN files.directories
    /\ type \in DOMAIN files.directories[parsed.paths[type].directory]
    /\ parsed.paths[type].found \subseteq ToSet(Kinds)

(* The type that is read is not in the cache.                              *)
ReadingNew ==
  step \in ToSet(Kinds) \cup {"insert"} =>
    /\ reading \in DOMAIN parsed.paths
    /\ reading \notin DOMAIN segment_bits_cache

(* Up to the line that is next, a file has given what it says.             *)
PartlyRead ==
  step \in ToSet(Kinds) =>
    /\ line_number \in Nat \ {0}
    /\ FileOf(reading, step).state = "mapped" =>
         /\ line_number <= Len(FileOf(reading, step).lines) + 1
         /\ Gives(step, FileOf(reading, step).lines, line_number - 1, out)

(* What has been read is the content of the files before.                  *)
SegmentsRead ==
  step \in ToSet(Kinds) \cup {"insert"} =>
    /\ DOMAIN segments = Past(step) \cap parsed.paths[reading].found
    /\ \A kind \in DOMAIN segments : IsFile(reading, kind, segments[kind])

(* What is cached is the content of all the files.                         *)
IsCached(type, cached) ==
  /\ IF "ppips" \in parsed.paths[type].found
     THEN IsFile(type, "ppips", cached.pips) ELSE cached.pips = <<>>
  /\ \A bus \in DOMAIN KindOfBus :
       IF KindOfBus[bus] \in parsed.paths[type].found
       THEN /\ bus \in DOMAIN cached.segment_bits
            /\ IsFile(type, KindOfBus[bus], cached.segment_bits[bus])
       ELSE bus \notin DOMAIN cached.segment_bits

AllCached ==
  \A type \in DOMAIN segment_bits_cache :
    type \in DOMAIN parsed.paths /\ IsCached(type, segment_bits_cache[type])

CacheInv ==
  /\ files \in Databases
  /\ NoneIndexed /\ Indexed /\ ReadingNew
  /\ PartlyRead /\ SegmentsRead /\ AllCached

-----------------------------------------------------------------------------
LEMMA KindsAre == ToSet(Kinds) = {"ppips", "segbits", "block_ram"}
  BY DEF ToSet, Kinds

(* insert() adds a key that is not there, and nothing else.                *)
LEMMA InsertKeeps ==
  ASSUME NEW map, NEW k, NEW v
  PROVE  /\ DOMAIN Insert(map, k, v) = DOMAIN map \cup {k}
         /\ \A key \in DOMAIN map : Insert(map, k, v)[key] = map[key]
         /\ k \notin DOMAIN map => Insert(map, k, v)[k] = v
  BY DEF Insert

LEMMA GivesNothing ==
  ASSUME NEW kind, NEW lines
  PROVE  Gives(kind, lines, 0, <<>>)
<1>1. Given(kind, lines, 0) = {}
  BY DEF Given
<1>2. QED
  BY <1>1 DEF Gives

(* One more line gives its pair, unless it is empty or the key is there.   *)
LEMMA GivesMore ==
  ASSUME NEW kind, NEW lines, NEW n \in Nat, NEW map, NEW more,
         Gives(kind, lines, n, map),
         IsWellFormed(kind, lines[n + 1]),
         more = IF IsEmptyLine(kind, lines[n + 1]) THEN map
                ELSE Insert(map, PairOf(kind, lines[n + 1])[1],
                            PairOf(kind, lines[n + 1])[2])
  PROVE  Gives(kind, lines, n + 1, more)
<1> DEFINE Key(i) == PairOf(kind, lines[i])[1]
           Value(i) == PairOf(kind, lines[i])[2]
           G == Given(kind, lines, n)
           H == Given(kind, lines, n + 1)
<1>1. /\ \A i \in 1 .. n : IsWellFormed(kind, lines[i])
      /\ DOMAIN map = {Key(i) : i \in G}
      /\ \A i \in G : map[Key(i)] = Value(i) \/ \E j \in G : j < i /\ Key(j) = Key(i)
  BY DEF Gives
<1>2. \A i \in 1 .. n + 1 : IsWellFormed(kind, lines[i])
  BY <1>1
<1>3. G \subseteq 1 .. n
  BY DEF Given
<1>4. CASE IsEmptyLine(kind, lines[n + 1])
  <2>1. H = G
    BY <1>4 DEF Given
  <2>2. more = map
    BY <1>4
  <2>3. QED
    BY <1>1, <1>2, <2>1, <2>2 DEF Gives
<1>5. CASE ~ IsEmptyLine(kind, lines[n + 1])
  <2>1. H = G \cup {n + 1}
    BY <1>5 DEF Given
  <2>2. more = Insert(map, Key(n + 1), Value(n + 1))
    BY <1>5
  <2> HIDE DEF Key, Value, G, H
  <2>3. /\ DOMAIN more = DOMAIN map \cup {Key(n + 1)}
        /\ \A key \in DOMAIN map : more[key] = map[key]
        /\ Key(n + 1) \notin DOMAIN map => more[Key(n + 1)] = Value(n + 1)
    BY <2>2 DEF Insert
  <2>4. DOMAIN more = {Key(i) : i \in H}
    BY <1>1, <2>1, <2>3
  <2>5. ASSUME NEW i \in H
        PROVE  more[Key(i)] = Value(i) \/ \E j \in H : j < i /\ Key(j) = Key(i)
    <3>1. CASE i \in G
      <4>1. Key(i) \in DOMAIN map
        BY <1>1, <3>1
      <4>2. QED
        BY <1>1, <2>1, <2>3, <3>1, <4>1
    <3>2. CASE i = n + 1 /\ Key(i) \notin DOMAIN map
      BY <2>3, <3>2
    <3>3. CASE i = n + 1 /\ Key(i) \in DOMAIN map
      <4>1. PICK j \in G : Key(j) = Key(i)
        BY <1>1, <3>3
      <4>2. j \in H /\ j < i
        BY <1>3, <2>1, <3>3, <4>1
      <4>3. QED
        BY <4>1, <4>2
    <3>4. QED
      BY <2>1, <3>1, <3>2, <3>3
  <2>6. QED
    BY <1>2, <2>4, <2>5 DEF Gives, Key, Value, H
<1>6. QED
  BY <1>4, <1>5

(* What a line adds to what the lines before have given.                   *)
LEMMA ParseLineAdds ==
  ASSUME NEW line, step \in ToSet(Kinds), ParseLine(line).status = "ok"
  PROVE  /\ IsWellFormed(step, line)
         /\ ParseLine(line).value =
              IF IsEmptyLine(step, line) THEN out
              ELSE Insert(out, PairOf(step, line)[1], PairOf(step, line)[2])
<1>1. CASE step = "ppips"
  <2>1. ParseLine(line) = ParsePseudoPIPDatabaseLine(line_number, line, out)
    BY <1>1 DEF ParseLine
  <2>2. CASE line.empty
    BY <1>1, <2>1, <2>2
       DEF ParsePseudoPIPDatabaseLine, Ok, IsWellFormed, IsEmptyLine, IsEmptyOfPips
  <2>3. CASE ~ line.empty
    BY <1>1, <2>1, <2>3
       DEF ParsePseudoPIPDatabaseLine, Ok, Error, IsWellFormed, IsEmptyLine,
           IsEmptyOfPips, PairOf, PipOf
  <2>4. QED
    BY <2>2, <2>3
<1>2. CASE step \in {"segbits", "block_ram"}
  <2>1. ParseLine(line) = ParseSegmentsBitsDatabaseLine(line_number, line, out)
    BY <1>2 DEF ParseLine
  <2>2. CASE line = <<>>
    BY <1>2, <2>1, <2>2
       DEF ParseSegmentsBitsDatabaseLine, Ok, IsWellFormed, IsEmptyLine, IsEmptyOfSegbits
  <2>3. CASE line # <<>>
    <3>1. Len(line) > 1 /\ \A i \in 2 .. Len(line) : IsSegmentBit(line[i])
      BY <2>1, <2>3 DEF ParseSegmentsBitsDatabaseLine, Error
    <3>2. ParseLine(line).value =
            Insert(out, TileFeature(line[1]),
                   [i \in 1 .. Len(line) - 1 |-> SegmentBit(line[i + 1])])
      BY <2>1, <2>3, <3>1 DEF ParseSegmentsBitsDatabaseLine, Ok
    <3>3. QED
      BY <1>2, <2>3, <3>1, <3>2
         DEF IsWellFormed, IsEmptyLine, IsEmptyOfSegbits, PairOf, SegbitsOf
  <2>4. QED
    BY <2>2, <2>3
<1>3. QED
  BY <1>1, <1>2, KindsAre

(* The lines of a file of a tile type that was found are a sequence.       *)
LEMMA LinesOfFile ==
  ASSUME CacheInv, NEW type \in DOMAIN parsed.paths, NEW kind \in ToSet(Kinds)
  PROVE  /\ FileOf(type, kind).state \in {"missing", "unmapped", "mapped"}
         /\ FileOf(type, kind).state = "mapped" =>
              LET lines == FileOf(type, kind).lines
              IN Len(lines) \in Nat /\ DOMAIN lines = 1 .. Len(lines)
<1> DEFINE lines == FileOf(type, kind).lines
<1>1. /\ FileOf(type, kind).state \in {"missing", "unmapped", "mapped"}
      /\ FileOf(type, kind).state = "mapped" => lines \in Seq(ToSet(lines))
  BY DatabasesAssumption DEF CacheInv, Indexed, FileOf
<1> HIDE DEF lines
<1>2. lines \in Seq(ToSet(lines)) => Len(lines) \in Nat /\ DOMAIN lines = 1 .. Len(lines)
  OBVIOUS
<1>3. QED
  BY <1>1, <1>2 DEF lines

(* The file that is read, if it is of a tile type.                         *)
LEMMA FileIs ==
  ASSUME step \in ToSet(Kinds)
  PROVE  File = TileTypeFile(reading, step)
  BY KindsAre DEF File

LEMMA MappedFile ==
  ASSUME CacheInv, step \in ToSet(Kinds), File.state = "mapped"
  PROVE  /\ step \in parsed.paths[reading].found
         /\ File = FileOf(reading, step)
  BY FileIs DEF TileTypeFile, Missing, FileOf

LEMMA UnknownIsNotFound ==
  ASSUME CacheInv, step \in ToSet(Kinds), File.state = "unknown"
  PROVE  step \notin parsed.paths[reading].found
<1>1. reading \in DOMAIN parsed.paths
  BY DEF CacheInv, ReadingNew
<1>2. FileOf(reading, step).state # "unknown"
  BY <1>1, LinesOfFile
<1>3. QED
  BY <1>2, FileIs DEF TileTypeFile, Missing, FileOf

-----------------------------------------------------------------------------
(* Steps that read no tile type.                                           *)
LEMMA OtherSteps ==
  ASSUME CacheInv,
         UNCHANGED <<files, reading, segment_bits_cache>>,
         "paths" \in DOMAIN parsed', parsed'.paths = parsed.paths,
         step' \notin ToSet(Kinds) \cup {"insert"},
         step' \in {"mapping", "devices", "parts", "tilegrid", "index"} =>
           step \in {"mapping", "devices", "parts", "tilegrid", "index"}
  PROVE  CacheInv'
<1> USE DEF CacheInv
<1>1. NoneIndexed'
  BY DEF NoneIndexed
<1>2. Indexed'
  BY DEF Indexed
<1>3. ReadingNew' /\ PartlyRead' /\ SegmentsRead'
  BY DEF ReadingNew, PartlyRead, SegmentsRead, Kinds
<1>4. AllCached'
  BY DEF AllCached, IsCached, IsFile, FileOf
<1>5. QED
  BY <1>1, <1>2, <1>3, <1>4

(* The entry of another name is kept.                                      *)
LEMMA PathsKept ==
  ASSUME CacheInv, NEW name, NEW value, name # "paths", Parsed(name, value)
  PROVE  "paths" \in DOMAIN parsed' /\ parsed'.paths = parsed.paths
  BY DEF CacheInv, NoneIndexed, Parsed

LEMMA CacheInit == Init => CacheInv
<1> SUFFICES ASSUME Init PROVE CacheInv
  OBVIOUS
<1>1. /\ step = "mapping" /\ files \in Databases
      /\ DOMAIN segment_bits_cache = {} /\ DOMAIN parsed.paths = {}
      /\ "paths" \in DOMAIN parsed
  <2>1. DOMAIN <<>> = {}
    OBVIOUS
  <2>2. /\ parsed = [fabrics |-> <<>>, info |-> <<>>, tilegrid |-> <<>>, paths |-> <<>>,
                     part |-> <<>>, package_pins |-> <<>>]
        /\ segment_bits_cache = <<>> /\ step = "mapping" /\ files \in Databases
    BY DEF Init
  <2>3. "paths" \in DOMAIN parsed /\ parsed.paths = <<>>
    BY <2>2
  <2>4. QED
    BY <2>1, <2>2, <2>3
<1>2. step \notin ToSet(Kinds) \cup {"insert"}
  BY <1>1, KindsAre
<1>3. QED
  BY <1>1, <1>2 DEF CacheInv, NoneIndexed, Indexed, ReadingNew, PartlyRead, SegmentsRead,
                    AllCached

LEMMA OpenKeeps ==
  ASSUME CacheInv, Open
  PROVE  CacheInv'
<1> USE KindsAre
<1>0. "paths" \in DOMAIN parsed
  BY DEF CacheInv, NoneIndexed
<1>1. CASE MapMapping
  BY <1>0, <1>1, OtherSteps DEF MapMapping, EndsAs, StartOf, cache
<1>2. CASE SkippedLine
  BY <1>0, <1>2, OtherSteps DEF SkippedLine, IsYAMLLine, YAMLSteps, NextLine, cache
<1>3. CASE TopLine
  BY <1>0, <1>3, OtherSteps DEF TopLine, IsYAMLLine, YAMLSteps, NextLine, EndsAs, cache
<1>4. CASE NestedLine
  BY <1>0, <1>4, OtherSteps DEF NestedLine, IsYAMLLine, YAMLSteps, NextLine, EndsAs, cache
<1>5. CASE EndOfDevices
  <2>1. "paths" \in DOMAIN parsed' /\ parsed'.paths = parsed.paths
    BY <1>0, <1>5, PathsKept DEF EndOfDevices
  <2>2. QED
    BY <1>5, <2>1, OtherSteps DEF EndOfDevices, AtEndOfYAML, EndsAs, StartOf, cache
<1>6. CASE EndOfParts
  <2>1. "paths" \in DOMAIN parsed' /\ parsed'.paths = parsed.paths
    BY <1>0, <1>6, PathsKept DEF EndOfParts
  <2>2. QED
    BY <1>6, <2>1, OtherSteps DEF EndOfParts, AtEndOfYAML, EndsAs, StartOf, cache
<1>7. CASE ParseTileGrid
  <2>1. "paths" \in DOMAIN parsed' /\ parsed'.paths = parsed.paths
    BY <1>0, <1>7, PathsKept DEF ParseTileGrid
  <2>2. step = "tilegrid" /\ step' \in {"index", "failed", "died"}
    BY <1>7 DEF ParseTileGrid, EndsAs, Result
  <2>3. QED
    BY <1>7, <2>1, <2>2, OtherSteps DEF ParseTileGrid, cache
<1>8. CASE IndexTileTypes
  <2>0. PICK accessed \in SUBSET TileTypes :
          \E directory \in [accessed -> DOMAIN files.directories] :
            /\ \A type \in accessed : directory[type] \in Directories(type)
            /\ Parsed("paths", [type \in accessed |->
                                  [directory |-> directory[type],
                                   found |-> Found(type, directory[type])]])
    BY <1>8 DEF IndexTileTypes
  <2>1. PICK directory \in [accessed -> DOMAIN files.directories] :
          /\ \A type \in accessed : directory[type] \in Directories(type)
          /\ Parsed("paths", [type \in accessed |->
                                [directory |-> directory[type],
                                 found |-> Found(type, directory[type])]])
    BY <2>0
  <2>2. /\ "paths" \in DOMAIN parsed'
        /\ parsed'.paths = [type \in accessed |->
                              [directory |-> directory[type],
                               found |-> Found(type, directory[type])]]
    BY <1>0, <2>1 DEF Parsed
  <2>3. /\ step = "index" /\ step' = "part"
        /\ UNCHANGED <<files, reading, segment_bits_cache>>
    BY <1>8 DEF IndexTileTypes, EndsAs, cache
  <2>4. Indexed'
    <3>1. ASSUME NEW type \in accessed
          PROVE  /\ directory[type] \in DOMAIN files.directories
                 /\ type \in DOMAIN files.directories[directory[type]]
                 /\ Found(type, directory[type]) \subseteq ToSet(Kinds)
      BY <2>1 DEF Directories, Found
    <3>2. QED
      BY <2>2, <2>3, <3>1 DEF Indexed
  <2>5. DOMAIN segment_bits_cache' = {}
    BY <2>3 DEF CacheInv, NoneIndexed
  <2>6. QED
    BY <2>2, <2>3, <2>4, <2>5
       DEF CacheInv, NoneIndexed, ReadingNew, PartlyRead, SegmentsRead, AllCached
<1>9. CASE CannotIndex
  BY <1>0, <1>9, OtherSteps DEF CannotIndex, EndsAs, cache
<1>10. CASE ParsePart
  <2>1. "paths" \in DOMAIN parsed' /\ parsed'.paths = parsed.paths
    BY <1>0, <1>10, PathsKept DEF ParsePart
  <2>2. step' \in {"package_pins", "failed", "died"}
    BY <1>10 DEF ParsePart, EndsAs, StartOf, Result
  <2>3. QED
    BY <1>10, <2>1, <2>2, OtherSteps DEF ParsePart, cache
<1>11. CASE EndOfPins
  <2>1. "paths" \in DOMAIN parsed' /\ parsed'.paths = parsed.paths
    BY <1>0, <1>11, PathsKept DEF EndOfPins
  <2>2. QED
    BY <1>11, <2>1, OtherSteps DEF EndOfPins, StartOf, cache
<1>12. CASE RegisterIOBank
  BY <1>0, <1>12, OtherSteps DEF RegisterIOBank, cache
<1>13. CASE RegisterPin
  BY <1>0, <1>13, OtherSteps DEF RegisterPin, NextLine, cache
<1>14. CASE Opened
  BY <1>0, <1>14, OtherSteps DEF Opened, EndsAs, cache
<1>15. QED
  BY <1>1, <1>2, <1>3, <1>4, <1>5, <1>6, <1>7, <1>8, <1>9, <1>10, <1>11, <1>12,
     <1>13, <1>14 DEF Open

-----------------------------------------------------------------------------
(* Steps that read a tile type.                                            *)

(* Files, the index and the cache stay.                                    *)
LEMMA SameFiles ==
  ASSUME CacheInv, UNCHANGED <<files, parsed, segment_bits_cache>>
  PROVE  /\ Indexed' /\ AllCached' /\ files' \in Databases /\ "paths" \in DOMAIN parsed'
         /\ \A type, kind : FileOf(type, kind)' = FileOf(type, kind)
         /\ \A type, kind, map : IsFile(type, kind, map)' = IsFile(type, kind, map)
  BY DEF CacheInv, Indexed, AllCached, IsCached, IsFile, FileOf, NoneIndexed

LEMMA EmptyIsGiven ==
  ASSUME NEW type, NEW kind, CacheInv, type \in DOMAIN parsed.paths,
         kind \in ToSet(Kinds), FileOf(type, kind).state = "mapped"
  PROVE  /\ 1 <= Len(FileOf(type, kind).lines) + 1
         /\ Gives(kind, FileOf(type, kind).lines, 1 - 1, <<>>)
<1>1. Len(FileOf(type, kind).lines) \in Nat
  BY LinesOfFile
<1>2. 1 - 1 = 0
  OBVIOUS
<1>3. QED
  BY <1>1, <1>2, GivesNothing

(* On to the next kind of file, with what has been read.                   *)
LEMMA NextKind ==
  ASSUME CacheInv, step \in ToSet(Kinds),
         UNCHANGED <<files, parsed, reading, segment_bits_cache>>,
         StartOf(AfterKind),
         DOMAIN segments' = Past(AfterKind) \cap parsed.paths[reading].found,
         \A kind \in DOMAIN segments' : IsFile(reading, kind, segments'[kind])
  PROVE  CacheInv'
<1> USE KindsAre
<1>1. step' \in {"segbits", "block_ram", "insert"} /\ step' = AfterKind
      /\ line_number' = 1 /\ out' = <<>>
  BY DEF StartOf, AfterKind
<1>2. reading \in DOMAIN parsed.paths /\ reading \notin DOMAIN segment_bits_cache
  BY DEF CacheInv, ReadingNew
<1>3. PartlyRead'
  <2> SUFFICES ASSUME step' \in ToSet(Kinds), FileOf(reading, step)'.state = "mapped"
               PROVE  /\ 1 <= Len(FileOf(reading, step)'.lines) + 1
                      /\ Gives(step', FileOf(reading, step)'.lines, 1 - 1, <<>>)
    BY <1>1 DEF PartlyRead
  <2>1. FileOf(reading, step)' = FileOf(reading, step')
    BY DEF FileOf
  <2>2. QED
    BY <1>2, <2>1, EmptyIsGiven
<1>4. SegmentsRead'
  BY <1>1, SameFiles DEF SegmentsRead
<1>5. ReadingNew' /\ NoneIndexed'
  BY <1>1, <1>2, SameFiles DEF ReadingNew, NoneIndexed
<1>6. QED
  BY <1>3, <1>4, <1>5, SameFiles DEF CacheInv

LEMMA PastKinds ==
  ASSUME step \in ToSet(Kinds)
  PROVE  Past(AfterKind) = Past(step) \cup {step} /\ step \notin Past(step)
  BY KindsAre DEF Past, AfterKind

LEMMA GenerateLineKeeps ==
  ASSUME CacheInv, GenerateLine
  PROVE  CacheInv'
<1> USE KindsAre
<1>0. "paths" \in DOMAIN parsed /\ UNCHANGED <<files, parsed, reading, segments, segment_bits_cache>>
  BY DEF CacheInv, NoneIndexed, GenerateLine, cache
<1>1. /\ step \in LineSteps /\ File.state = "mapped" /\ line_number <= Len(File.lines)
  BY DEF GenerateLine, IsAtLine
<1> DEFINE line == File.lines[line_number]
<1>2. CASE ParseLine(line).status # "ok" \/ step = "package_pins"
  <2>1. step' \notin ToSet(Kinds) \cup {"insert"} /\ step' \in {"open", "failed", "package_pins"}
    BY <1>1, <1>2 DEF GenerateLine, EndsAs, NextLine, LineSteps
  <2>2. QED
    BY <1>0, <2>1, OtherSteps
<1>3. CASE ParseLine(line).status = "ok" /\ step \in ToSet(Kinds)
  <2>1. /\ step' = step /\ line_number' = line_number + 1
        /\ out' = ParseLine(line).value
    BY <1>3 DEF GenerateLine, NextLine
  <2>2. /\ IsWellFormed(step, line)
        /\ out' = IF IsEmptyLine(step, line) THEN out
                  ELSE Insert(out, PairOf(step, line)[1], PairOf(step, line)[2])
    BY <1>3, <2>1, ParseLineAdds
  <2>3. File = FileOf(reading, step)
    BY <1>1, <1>3, MappedFile
  <2>4. /\ line_number \in Nat \ {0}
        /\ Gives(step, File.lines, line_number - 1, out)
    BY <1>1, <1>3, <2>3 DEF CacheInv, PartlyRead
  <2>5. line_number - 1 \in Nat /\ (line_number - 1) + 1 = line_number
        /\ line_number' - 1 = line_number
    BY <2>1, <2>4
  <2>6. Gives(step, File.lines, line_number, out')
    BY <2>2, <2>4, <2>5, GivesMore
  <2>7. reading \in DOMAIN parsed.paths
    BY <1>3 DEF CacheInv, ReadingNew
  <2>8. Len(File.lines) \in Nat
    BY <1>1, <1>3, <2>3, <2>7, LinesOfFile
  <2>9. PartlyRead'
    <3>1. FileOf(reading, step)' = File
      BY <1>0, <2>1, <2>3 DEF FileOf
    <3>2. /\ line_number' \in Nat \ {0}
          /\ line_number' <= Len(File.lines) + 1
          /\ Gives(step', File.lines, line_number' - 1, out')
      BY <1>1, <2>1, <2>4, <2>5, <2>6, <2>8
    <3>3. QED
      BY <3>1, <3>2 DEF PartlyRead
  <2>10. SegmentsRead'
    <3>1. /\ DOMAIN segments = Past(step) \cap parsed.paths[reading].found
          /\ \A kind \in DOMAIN segments : IsFile(reading, kind, segments[kind])
      BY <1>3 DEF CacheInv, SegmentsRead
    <3>2. \A kind \in DOMAIN segments : IsFile(reading, kind, segments[kind])'
      BY <1>0, <3>1 DEF IsFile, FileOf
    <3>3. QED
      BY <1>0, <2>1, <3>1, <3>2 DEF SegmentsRead
  <2>11. ReadingNew' /\ NoneIndexed'
    BY <1>0, <2>1 DEF CacheInv, ReadingNew, NoneIndexed
  <2>12. QED
    BY <1>0, <2>9, <2>10, <2>11, SameFiles DEF CacheInv
<1>4. QED
  BY <1>1, <1>2, <1>3 DEF LineSteps

LEMMA ReadKeeps ==
  ASSUME CacheInv, Read
  PROVE  CacheInv'
<1> USE KindsAre
<1>0. "paths" \in DOMAIN parsed
  BY DEF CacheInv, NoneIndexed
<1>1. CASE MissingFile
  <2>1. step' \in {"open", "failed"}
    BY <1>1 DEF MissingFile, EndsAs
  <2>2. QED
    BY <1>0, <1>1, <2>1, OtherSteps DEF MissingFile, cache
<1>2. CASE UnmappedFile
  BY <1>0, <1>2, OtherSteps DEF UnmappedFile, EndsAs, cache
<1>3. CASE GenerateLine
  BY <1>3, GenerateLineKeeps
<1>4. CASE OverrunPage
  BY <1>0, <1>4, OtherSteps DEF OverrunPage, EndsAs, cache
<1>5. CASE UnknownFile
  <2>1. step \in ToSet(Kinds) /\ File.state = "unknown" /\ StartOf(AfterKind)
        /\ UNCHANGED <<files, parsed, reading, segments, segment_bits_cache>>
    BY <1>5 DEF UnknownFile, cache
  <2>2. step \notin parsed.paths[reading].found
    BY <2>1, UnknownIsNotFound
  <2>3. DOMAIN segments = Past(step) \cap parsed.paths[reading].found
        /\ \A kind \in DOMAIN segments : IsFile(reading, kind, segments[kind])
    BY <2>1 DEF CacheInv, SegmentsRead
  <2>4. DOMAIN segments = Past(AfterKind) \cap parsed.paths[reading].found
    BY <2>1, <2>2, <2>3, PastKinds
  <2>5. QED
    BY <2>1, <2>3, <2>4, NextKind
<1>6. CASE EndOfTileTypeFile
  <2>1. /\ step \in ToSet(Kinds) /\ File.state = "mapped" /\ StartOf(AfterKind)
        /\ line_number > Len(File.lines)
        /\ segments' = Insert(segments, step, out)
        /\ UNCHANGED <<files, parsed, reading, segment_bits_cache>>
    BY <1>6 DEF EndOfTileTypeFile, AtEndOfLines
  <2>2. step \in parsed.paths[reading].found /\ File = FileOf(reading, step)
    BY <2>1, MappedFile
  <2>3. DOMAIN segments = Past(step) \cap parsed.paths[reading].found
        /\ \A kind \in DOMAIN segments : IsFile(reading, kind, segments[kind])
    BY <2>1 DEF CacheInv, SegmentsRead
  <2>4. step \notin DOMAIN segments
    BY <2>1, <2>3, PastKinds
  <2>5. /\ DOMAIN segments' = DOMAIN segments \cup {step}
        /\ \A kind \in DOMAIN segments : segments'[kind] = segments[kind]
        /\ segments'[step] = out
    BY <2>1, <2>4 DEF Insert
  <2>6. IsFile(reading, step, out)
    <3>1. reading \in DOMAIN parsed.paths
      BY <2>1 DEF CacheInv, ReadingNew
    <3>2. Len(File.lines) \in Nat
      BY <2>1, <2>2, <3>1, LinesOfFile
    <3>3. /\ line_number \in Nat \ {0} /\ line_number <= Len(File.lines) + 1
          /\ Gives(step, File.lines, line_number - 1, out)
      BY <2>1, <2>2 DEF CacheInv, PartlyRead
    <3>4. line_number - 1 = Len(File.lines)
      BY <2>1, <3>2, <3>3
    <3>5. QED
      BY <2>1, <2>2, <3>3, <3>4 DEF IsFile
  <2>7. DOMAIN segments' = Past(AfterKind) \cap parsed.paths[reading].found
    BY <2>1, <2>2, <2>3, <2>5, PastKinds
  <2>8. \A kind \in DOMAIN segments' : IsFile(reading, kind, segments'[kind])
    BY <2>3, <2>5, <2>6
  <2>9. QED
    BY <2>1, <2>7, <2>8, NextKind
<1>7. CASE InsertTileType
  <2> DEFINE cached == SegmentsBitsWithPseudoPIPs
  <2>1. /\ step = "insert" /\ step' = "open"
        /\ segment_bits_cache' = Insert(segment_bits_cache, reading, cached)
        /\ UNCHANGED <<files, parsed, reading, segments>>
    BY <1>7 DEF InsertTileType, EndsAs
  <2>2. /\ reading \in DOMAIN parsed.paths /\ reading \notin DOMAIN segment_bits_cache
        /\ DOMAIN segments = ToSet(Kinds) \cap parsed.paths[reading].found
        /\ \A kind \in DOMAIN segments : IsFile(reading, kind, segments[kind])
    BY <2>1 DEF CacheInv, ReadingNew, SegmentsRead, Past
  <2>3. IsCached(reading, cached)
    <3>1. IF "ppips" \in parsed.paths[reading].found
          THEN IsFile(reading, "ppips", cached.pips) ELSE cached.pips = <<>>
      BY <2>2 DEF SegmentsBitsWithPseudoPIPs
    <3>2. ASSUME NEW bus \in DOMAIN KindOfBus
          PROVE  IF KindOfBus[bus] \in parsed.paths[reading].found
                 THEN /\ bus \in DOMAIN cached.segment_bits
                      /\ IsFile(reading, KindOfBus[bus], cached.segment_bits[bus])
                 ELSE bus \notin DOMAIN cached.segment_bits
      <4>1. KindOfBus[bus] \in ToSet(Kinds)
        BY DEF KindOfBus
      <4>2. cached.segment_bits =
              [b \in {b \in DOMAIN KindOfBus : KindOfBus[b] \in DOMAIN segments} |->
                 segments[KindOfBus[b]]]
        BY DEF SegmentsBitsWithPseudoPIPs
      <4>3. QED
        BY <2>2, <4>1, <4>2
    <3>3. QED
      BY <3>1, <3>2 DEF IsCached
  <2>4. \A type \in DOMAIN segment_bits_cache :
          type \in DOMAIN parsed.paths /\ IsCached(type, segment_bits_cache[type])
    BY DEF CacheInv, AllCached
  <2> HIDE DEF cached
  <2>5. /\ DOMAIN segment_bits_cache' = DOMAIN segment_bits_cache \cup {reading}
        /\ \A type \in DOMAIN segment_bits_cache :
             segment_bits_cache'[type] = segment_bits_cache[type]
        /\ segment_bits_cache'[reading] = cached
    BY <2>1, <2>2 DEF Insert
  <2>6. \A type \in DOMAIN segment_bits_cache' :
          type \in DOMAIN parsed.paths /\ IsCached(type, segment_bits_cache'[type])
    BY <2>2, <2>3, <2>4, <2>5
  <2>7. AllCached'
    BY <2>1, <2>6 DEF AllCached, IsCached, IsFile, FileOf
  <2>8. QED
    BY <1>0, <2>1, <2>7
       DEF CacheInv, NoneIndexed, Indexed, ReadingNew, PartlyRead, SegmentsRead
<1>8. QED
  BY <1>1, <1>2, <1>3, <1>4, <1>5, <1>6, <1>7 DEF Read

LEMMA RequestKeeps ==
  ASSUME CacheInv, AddSegbitsToCache
  PROVE  CacheInv'
<1> USE KindsAre
<1>1. /\ step' = "ppips" /\ line_number' = 1 /\ out' = <<>> /\ segments' = <<>>
      /\ UNCHANGED <<files, parsed, segment_bits_cache>>
      /\ reading' \in DOMAIN parsed.paths \ DOMAIN segment_bits_cache
  BY DEF AddSegbitsToCache, StartOf
<1>2. PartlyRead'
  <2> SUFFICES ASSUME FileOf(reading, step)'.state = "mapped"
               PROVE  /\ 1 <= Len(FileOf(reading, step)'.lines) + 1
                      /\ Gives("ppips", FileOf(reading, step)'.lines, 1 - 1, <<>>)
    BY <1>1 DEF PartlyRead
  <2>1. FileOf(reading, step)' = FileOf(reading', "ppips")
    BY <1>1 DEF FileOf
  <2>2. QED
    BY <1>1, <2>1, EmptyIsGiven
<1>3. SegmentsRead'
  <2>1. DOMAIN <<>> = {}
    OBVIOUS
  <2>2. Past(step)' = {}
    BY <1>1 DEF Past
  <2>3. QED
    BY <1>1, <2>1, <2>2 DEF SegmentsRead
<1>4. ReadingNew' /\ NoneIndexed'
  BY <1>1, SameFiles DEF ReadingNew, NoneIndexed
<1>5. QED
  BY <1>1, <1>2, <1>3, <1>4, SameFiles DEF CacheInv

LEMMA StaysKeep ==
  ASSUME CacheInv, RemoveFiles \/ UNCHANGED vars
  PROVE  CacheInv'
<1>1. UNCHANGED <<files, step, line_number, out, parsed, reading, segments, segment_bits_cache>>
  BY DEF RemoveFiles, vars, file, cache
<1>2. QED
  BY <1>1 DEF CacheInv, NoneIndexed, Indexed, ReadingNew, PartlyRead, SegmentsRead,
              AllCached, IsCached, IsFile, FileOf

-----------------------------------------------------------------------------
LEMMA ContentIsIn ==
  ASSUME CacheInv
  PROVE  CachedIsContent
<1> SUFFICES ASSUME NEW type \in DOMAIN segment_bits_cache
             PROVE
    LET path == parsed.paths[type]
        cached == segment_bits_cache[type]
        lines(kind) == files.directories[path.directory][type][kind].lines
    IN /\ IF "ppips" \in path.found
          THEN /\ \A i \in DOMAIN lines("ppips") :
                    ParsePseudoPIPDatabaseLine(i, lines("ppips")[i], <<>>).status = "ok"
               /\ IsContent(cached.pips, lines("ppips"), IsEmptyOfPips, PipOf)
          ELSE cached.pips = <<>>
       /\ \A bus \in DOMAIN KindOfBus :
            IF KindOfBus[bus] \in path.found
            THEN /\ bus \in DOMAIN cached.segment_bits
                 /\ \A i \in DOMAIN lines(KindOfBus[bus]) :
                      LET line == lines(KindOfBus[bus])[i]
                      IN line # <<>> => Len(line) > 1 /\ \A k \in 2 .. Len(line) :
                                                          IsSegmentBit(line[k])
                 /\ IsContent(cached.segment_bits[bus], lines(KindOfBus[bus]),
                              IsEmptyOfSegbits, SegbitsOf)
            ELSE bus \notin DOMAIN cached.segment_bits
  BY DEF CachedIsContent
<1> DEFINE cached == segment_bits_cache[type]
<1>1. type \in DOMAIN parsed.paths /\ IsCached(type, cached)
  BY DEF CacheInv, AllCached
<1>2. ASSUME NEW kind \in ToSet(Kinds), FileOf(type, kind).state = "mapped"
      PROVE  DOMAIN FileOf(type, kind).lines = 1 .. Len(FileOf(type, kind).lines)
  BY <1>1, <1>2, LinesOfFile
<1>3. ASSUME "ppips" \in parsed.paths[type].found
      PROVE  LET lines == FileOf(type, "ppips").lines
             IN /\ \A i \in DOMAIN lines :
                     ParsePseudoPIPDatabaseLine(i, lines[i], <<>>).status = "ok"
                /\ IsContent(cached.pips, lines, IsEmptyOfPips, PipOf)
  <2> DEFINE lines == FileOf(type, "ppips").lines
  <2>1. IsFile(type, "ppips", cached.pips)
    BY <1>1, <1>3 DEF IsCached
  <2>2. DOMAIN lines = 1 .. Len(lines)
    BY <1>2, <2>1, KindsAre DEF IsFile
  <2>3. Gives("ppips", lines, Len(lines), cached.pips)
    BY <2>1 DEF IsFile
  <2> HIDE DEF lines, cached
  <2>4. \A i \in DOMAIN lines :
          ParsePseudoPIPDatabaseLine(i, lines[i], <<>>).status = "ok"
    BY <2>2, <2>3
       DEF Gives, IsWellFormed, IsEmptyLine, IsEmptyOfPips, ParsePseudoPIPDatabaseLine, Ok
  <2>5. IsContent(cached.pips, lines, IsEmptyOfPips, PipOf)
    BY <2>2, <2>3 DEF Gives, Given, IsEmptyLine, PairOf, IsContent
  <2>6. QED
    BY <2>4, <2>5 DEF lines
<1>4. ASSUME NEW bus \in DOMAIN KindOfBus, KindOfBus[bus] \in parsed.paths[type].found
      PROVE  LET lines == FileOf(type, KindOfBus[bus]).lines
             IN /\ bus \in DOMAIN cached.segment_bits
                /\ \A i \in DOMAIN lines :
                     LET line == lines[i]
                     IN line # <<>> => Len(line) > 1 /\ \A k \in 2 .. Len(line) :
                                                         IsSegmentBit(line[k])
                /\ IsContent(cached.segment_bits[bus], lines, IsEmptyOfSegbits, SegbitsOf)
  <2> DEFINE kind == KindOfBus[bus]
             lines == FileOf(type, kind).lines
  <2>0. kind \in ToSet(Kinds) /\ kind # "ppips"
    BY KindsAre DEF KindOfBus
  <2>1. bus \in DOMAIN cached.segment_bits /\ IsFile(type, kind, cached.segment_bits[bus])
    BY <1>1, <1>4 DEF IsCached
  <2>2. DOMAIN lines = 1 .. Len(lines)
    BY <1>2, <2>0, <2>1 DEF IsFile
  <2>3. Gives(kind, lines, Len(lines), cached.segment_bits[bus])
    BY <2>1 DEF IsFile
  <2> HIDE DEF lines, cached, kind
  <2>4. \A i \in DOMAIN lines :
          lines[i] # <<>> => Len(lines[i]) > 1 /\ \A k \in 2 .. Len(lines[i]) :
                                                   IsSegmentBit(lines[i][k])
    BY <2>0, <2>2, <2>3 DEF Gives, IsWellFormed, IsEmptyLine, IsEmptyOfSegbits
  <2>5. IsContent(cached.segment_bits[bus], lines, IsEmptyOfSegbits, SegbitsOf)
    BY <2>0, <2>2, <2>3 DEF Gives, Given, IsEmptyLine, PairOf, IsContent
  <2>6. QED
    BY <2>1, <2>4, <2>5 DEF lines, kind
<1>5. ASSUME NEW bus \in DOMAIN KindOfBus, KindOfBus[bus] \notin parsed.paths[type].found
      PROVE  bus \notin DOMAIN cached.segment_bits
  BY <1>1, <1>5 DEF IsCached
<1>6. "ppips" \notin parsed.paths[type].found => cached.pips = <<>>
  BY <1>1 DEF IsCached
<1>7. QED
  BY <1>3, <1>4, <1>5, <1>6 DEF FileOf

(* A tile type is cached with all that its files say, or not at all, even  *)
(* if files are removed while others are read: the cache of AddSegbitsTo-  *)
(* Cache and ParseTileTypeDatabase, for all files of any length.           *)
THEOREM CachesWholeTypes == Spec => []CachedIsContent
<1>1. CacheInv /\ [Next]_vars => CacheInv'
  BY OpenKeeps, ReadKeeps, RequestKeeps, StaysKeep DEF Next
<1>2. QED
  BY CacheInit, ContentIsIn, <1>1, PTL DEF Spec

-----------------------------------------------------------------------------
(* The entries of YAML files.                                              *)

(* No line from i to j begins an entry.                                    *)
NoTop(lines, i, j) == \A k \in i .. j : lines[k].kind # "top"

(* Of the lines after m, up to n, the last that gives the property.        *)
GivesLast(lines, m, n, property, value) ==
  \E j \in m + 1 .. n :
    /\ lines[j].kind = "nested" /\ lines[j].key = property
    /\ lines[j].value = value
    /\ \A k \in j + 1 .. n : ~ (lines[k].kind = "nested" /\ lines[k].key = property)

(* No more line of the entry comes after line n.                           *)
EntryEnds(lines, n) == n < Len(lines) => lines[n + 1].kind = "top"

(* The entry that is read begins at line m (0 before the first), and has   *)
(* what its own lines have given, up to line n.                            *)
IsEntry(lines, m, n) ==
  /\ DOMAIN entry = {"key", "properties"}
  /\ NoTop(lines, m + 1, n)
  /\ m = 0 => entry.key = ""
  /\ m > 0 => lines[m].kind = "top" /\ entry.key = lines[m].key
  /\ \A property \in DOMAIN entry.properties :
       GivesLast(lines, m, n, property, entry.properties[property])

(* The entries of parts have their own properties, and their device's.     *)
IsOwnInfo(lines, fabrics, name, info) ==
  /\ \A property \in {"device", "package", "speedgrade"} :
       IsOwnValue(lines, name, property, info[property])
  /\ info.device \in DOMAIN fabrics /\ info.fabric = fabrics[info.device]

IsOwn(name, value) ==
  IF step = "devices" THEN IsOwnValue(files.devices.lines, name, "fabric", value)
  ELSE IsOwnInfo(files.parts.lines, parsed.fabrics, name, value)

(* The entries before the one at line m have been handed over.             *)
HandedOver(lines, m) ==
  /\ \A name \in DOMAIN out : IsOwn(name, out[name])
  /\ \A i \in 1 .. m - 1 :
       lines[i].kind = "top" /\ lines[i].key # "" => lines[i].key \in DOMAIN out

YAMLRead ==
  step \in YAMLSteps /\ files[step].state = "mapped" =>
    /\ line_number \in Nat \ {0}
    /\ line_number <= Len(files[step].lines) + 1
    /\ \E m \in 0 .. line_number - 1 :
         /\ IsEntry(files[step].lines, m, line_number - 1)
         /\ HandedOver(files[step].lines, m)

FabricsOwn ==
  \A device \in DOMAIN parsed.fabrics :
    IsOwnValue(files.devices.lines, device, "fabric", parsed.fabrics[device])

InfoInv ==
  /\ files \in Databases
  /\ {"fabrics", "info"} \subseteq DOMAIN parsed
  /\ step \in {"mapping", "devices", "parts"} => parsed.info = <<>>
  /\ YAMLRead /\ FabricsOwn /\ InfoOfOwnEntry

-----------------------------------------------------------------------------
LEMMA YAMLLines ==
  ASSUME files \in Databases, step \in YAMLSteps, files[step].state = "mapped"
  PROVE  LET lines == files[step].lines
         IN Len(lines) \in Nat /\ DOMAIN lines = 1 .. Len(lines)
<1> DEFINE lines == files[step].lines
<1>1. files[step] \in {files.devices, files.parts}
  BY DEF YAMLSteps
<1>2. lines \in Seq(ToSet(lines))
  BY <1>1, DatabasesAssumption
<1> HIDE DEF lines
<1>3. Len(lines) \in Nat /\ DOMAIN lines = 1 .. Len(lines)
  BY <1>2
<1>4. QED
  BY <1>3 DEF lines

(* What an entry has when it ends is its own, if none before has its name. *)
LEMMA EntryGivesOwn ==
  ASSUME NEW lines, Len(lines) \in Nat, DOMAIN lines = 1 .. Len(lines),
         NEW n \in 0 .. Len(lines), NEW m \in 1 .. n, NEW property, NEW value,
         lines[m].kind = "top", NoTop(lines, m + 1, n),
         EntryEnds(lines, n),
         \A i \in 1 .. m - 1 : lines[i].kind = "top" => lines[i].key # lines[m].key,
         GivesLast(lines, m, n, property, value)
  PROVE  IsOwnValue(lines, lines[m].key, property, value)
<1>1. PICK j \in m + 1 .. n :
        /\ lines[j].kind = "nested" /\ lines[j].key = property
        /\ lines[j].value = value
        /\ \A k \in j + 1 .. n : ~ (lines[k].kind = "nested" /\ lines[k].key = property)
  BY DEF GivesLast
<1>2. j \in m + 1 .. Len(lines) /\ m \in DOMAIN lines
  BY <1>1
<1>3. \A k \in m + 1 .. j : lines[k].kind # "top"
  BY <1>1 DEF NoTop
<1>4. ASSUME NEW k \in j + 1 .. Len(lines), lines[k].kind = "nested", lines[k].key = property
      PROVE  \E l \in j + 1 .. k : lines[l].kind = "top"
  <2>1. k > n
    <3>1. k \in j + 1 .. n => FALSE
      BY <1>1, <1>4
    <3>2. QED
      BY <1>1, <3>1
  <2>2. lines[n + 1].kind = "top" /\ n + 1 \in j + 1 .. k
    <3>1. n + 1 \in j + 1 .. k
      BY <1>1, <2>1
    <3>2. n < Len(lines)
      BY <2>1
    <3>3. QED
      BY <3>1, <3>2 DEF EntryEnds
  <2>3. QED
    BY <2>2
<1>5. QED
  BY <1>1, <1>2, <1>3, <1>4 DEF IsOwnValue

(* An entry that is handed over leaves what is due: its own properties, if *)
(* none before has its name, and what was there before.                    *)
LEMMA SinkHandsOver ==
  ASSUME InfoInv, step \in YAMLSteps, files[step].state = "mapped",
         NEW m \in 0 .. line_number - 1,
         IsEntry(files[step].lines, m, line_number - 1),
         HandedOver(files[step].lines, m),
         Sink.status = "ok",
         EntryEnds(files[step].lines, line_number - 1)
  PROVE  /\ \A name \in DOMAIN Sink.value : IsOwn(name, Sink.value[name])
         /\ \A i \in 1 .. m :
              files[step].lines[i].kind = "top" /\ files[step].lines[i].key # "" =>
                files[step].lines[i].key \in DOMAIN Sink.value
<1> DEFINE lines == files[step].lines
           n == line_number - 1
<1>1. line_number \in Nat \ {0} /\ line_number <= Len(lines) + 1
  BY DEF InfoInv, YAMLRead
<1>2. Len(lines) \in Nat /\ DOMAIN lines = 1 .. Len(lines)
  BY YAMLLines DEF InfoInv
<1>3. /\ \A name \in DOMAIN out : IsOwn(name, out[name])
      /\ \A i \in 1 .. m - 1 :
           lines[i].kind = "top" /\ lines[i].key # "" => lines[i].key \in DOMAIN out
  BY DEF HandedOver
<1>4. CASE entry.key = ""
  <2>1. Sink.value = out
    BY <1>4 DEF Sink, Ok
  <2>2. m > 0 => lines[m].key = ""
    BY <1>4 DEF IsEntry
  <2> HIDE DEF lines
  <2>3. ASSUME NEW i \in 1 .. m, lines[i].kind = "top", lines[i].key # ""
        PROVE  lines[i].key \in DOMAIN out
    <3>1. m \in Nat /\ i \in Nat /\ 1 <= i /\ i <= m
      BY <1>1
    <3>2. ASSUME i = m PROVE FALSE
      <4>1. lines[m].key # ""
        BY <2>3, <3>2
      <4>2. m > 0
        BY <3>1
      <4>3. QED
        BY <2>2, <4>1, <4>2
    <3>3. i \in 1 .. m - 1
      BY <3>1, <3>2
    <3>4. QED
      BY <1>3, <2>3, <3>3
  <2>4. QED
    BY <1>3, <2>1, <2>3 DEF lines
<1>5. CASE entry.key # ""
  <2>1. m \in 1 .. n /\ lines[m].kind = "top" /\ entry.key = lines[m].key
        /\ NoTop(lines, m + 1, n)
        /\ \A property \in DOMAIN entry.properties :
             GivesLast(lines, m, n, property, entry.properties[property])
    <3>1. /\ NoTop(lines, m + 1, n)
          /\ m = 0 => entry.key = ""
          /\ m > 0 => lines[m].kind = "top" /\ entry.key = lines[m].key
          /\ \A property \in DOMAIN entry.properties :
               GivesLast(lines, m, n, property, entry.properties[property])
      BY DEF IsEntry
    <3>2. m # 0
      BY <1>5, <3>1
    <3>3. m \in 0 .. n
      OBVIOUS
    <3>4. m \in 1 .. n /\ m > 0
      BY <1>1, <3>2, <3>3
    <3>5. QED
      BY <3>1, <3>4
  <2>2. n \in 0 .. Len(lines) /\ n + 1 = line_number
    BY <1>1, <1>2
  <2>3. EntryEnds(lines, n)
    OBVIOUS
  <2> HIDE DEF lines, n
  <2>4. ASSUME entry.key \notin DOMAIN out, NEW property \in DOMAIN entry.properties
        PROVE  IsOwnValue(lines, entry.key, property, entry.properties[property])
    <3>1. \A i \in 1 .. m - 1 : lines[i].kind = "top" => lines[i].key # lines[m].key
      BY <1>3, <1>5, <2>1, <2>4
    <3>2. GivesLast(lines, m, n, property, entry.properties[property])
      BY <2>1, <2>4
    <3>3. QED
      BY <1>2, <2>1, <2>2, <2>3, <3>1, <3>2, EntryGivesOwn
  <2>5. PICK value :
          /\ Sink.value = Insert(out, entry.key, value)
          /\ entry.key \notin DOMAIN out => IsOwn(entry.key, value)
    <3>1. CASE step = "devices"
      <4>1. Sink = DeviceSink(entry.key, entry.properties, out)
        BY <1>5, <3>1 DEF Sink
      <4>2. "fabric" \in DOMAIN entry.properties
            /\ Sink.value = Insert(out, entry.key, entry.properties["fabric"])
        BY <4>1 DEF DeviceSink, Ok, Error
      <4>3. entry.key \notin DOMAIN out => IsOwn(entry.key, entry.properties["fabric"])
        BY <2>4, <3>1, <4>2 DEF IsOwn, lines
      <4>4. QED
        BY <4>2, <4>3
    <3>2. CASE step = "parts"
      <4> DEFINE info == [device |-> entry.properties["device"],
                          package |-> entry.properties["package"],
                          speedgrade |-> entry.properties["speedgrade"],
                          fabric |-> parsed.fabrics[entry.properties["device"]]]
      <4>1. Sink = PartSink(parsed.fabrics, entry.key, entry.properties, out)
        BY <1>5, <3>2 DEF Sink
      <4>2. /\ {"device", "package", "speedgrade"} \subseteq DOMAIN entry.properties
            /\ entry.properties["device"] \in DOMAIN parsed.fabrics
            /\ Sink.value = Insert(out, entry.key, info)
        BY <4>1 DEF PartSink, Ok, Error
      <4>3. /\ \A property \in {"device", "package", "speedgrade"} :
                 info[property] = entry.properties[property]
            /\ info.device = entry.properties["device"]
            /\ info.fabric = parsed.fabrics[info.device]
        OBVIOUS
      <4> HIDE DEF info
      <4>4. entry.key \notin DOMAIN out => IsOwn(entry.key, info)
        BY <2>4, <3>2, <4>2, <4>3 DEF IsOwn, IsOwnInfo, lines
      <4>5. QED
        BY <4>2, <4>4
    <3>3. QED
      BY <3>1, <3>2 DEF YAMLSteps
  <2>6. /\ DOMAIN Sink.value = DOMAIN out \cup {entry.key}
        /\ \A name \in DOMAIN out : Sink.value[name] = out[name]
        /\ entry.key \notin DOMAIN out => Sink.value[entry.key] = value
    BY <2>5 DEF Insert
  <2>7. ASSUME NEW name \in DOMAIN Sink.value
        PROVE  IsOwn(name, Sink.value[name])
    BY <1>3, <2>5, <2>6
  <2>8. ASSUME NEW i \in 1 .. m, lines[i].kind = "top", lines[i].key # ""
        PROVE  lines[i].key \in DOMAIN Sink.value
    <3>1. i \in 1 .. m - 1 \/ i = m
      BY <2>1, <2>2
    <3>2. QED
      BY <1>3, <2>1, <2>6, <2>8, <3>1
  <2>9. QED
    BY <2>7, <2>8 DEF lines
<1>6. QED
  BY <1>4, <1>5

LEMMA InfoInit == Init => InfoInv
<1> SUFFICES ASSUME Init PROVE InfoInv
  OBVIOUS
<1>1. /\ step = "mapping" /\ files \in Databases
      /\ parsed = [fabrics |-> <<>>, info |-> <<>>, tilegrid |-> <<>>, paths |-> <<>>,
                   part |-> <<>>, package_pins |-> <<>>]
  BY DEF Init
<1>2. {"fabrics", "info"} \subseteq DOMAIN parsed /\ parsed.fabrics = <<>> /\ parsed.info = <<>>
  BY <1>1
<1>3. DOMAIN <<>> = {}
  OBVIOUS
<1>4. FabricsOwn
  BY <1>2, <1>3 DEF FabricsOwn
<1>5. YAMLRead /\ InfoOfOwnEntry
  BY <1>1, <1>2 DEF YAMLRead, YAMLSteps, InfoOfOwnEntry
<1>6. QED
  BY <1>1, <1>2, <1>4, <1>5 DEF InfoInv

(* A file begins with no entry and nothing handed over.                    *)
LEMMA YAMLStarts ==
  ASSUME NEW next \in YAMLSteps, StartOf(next), files \in Databases, UNCHANGED files
  PROVE  YAMLRead'
<1> SUFFICES ASSUME files[next].state = "mapped"
             PROVE  /\ 1 \in Nat \ {0} /\ 1 <= Len(files[next].lines) + 1
                    /\ \E m \in 0 .. 1 - 1 :
                         /\ IsEntry(files[next].lines, m, 1 - 1)'
                         /\ HandedOver(files[next].lines, m)'
  BY DEF YAMLRead, StartOf
<1> DEFINE lines == files[next].lines
<1>1. Len(lines) \in Nat
  <2>1. files[next] \in {files.devices, files.parts}
    BY DEF YAMLSteps
  <2>2. lines \in Seq(ToSet(lines))
    BY <2>1, DatabasesAssumption
  <2> HIDE DEF lines
  <2>3. QED
    BY <2>2
<1>2. /\ entry' = [key |-> "", properties |-> <<>>] /\ out' = <<>>
  BY DEF StartOf
<1>3. DOMAIN <<>> = {}
  OBVIOUS
<1>4. /\ DOMAIN entry' = {"key", "properties"} /\ entry'.key = ""
      /\ DOMAIN entry'.properties = {}
  BY <1>2, <1>3
<1>5. \A some : NoTop(some, 0 + 1, 0)
  BY DEF NoTop
<1> HIDE DEF lines
<1>6. ASSUME NEW some PROVE IsEntry(some, 0, 0)'
  <2>1. ~ (0 > 0)
    OBVIOUS
  <2>2. NoTop(some, 0 + 1, 0)
    BY <1>5
  <2>3. \A property \in DOMAIN entry'.properties :
          GivesLast(some, 0, 0, property, entry'.properties[property])
    BY <1>4
  <2>4. QED
    BY <1>4, <2>1, <2>2, <2>3, Zenon DEF IsEntry
<1>7. ASSUME NEW some PROVE HandedOver(some, 0)'
  <2>1. 1 .. 0 - 1 = {}
    OBVIOUS
  <2>2. DOMAIN out' = {}
    BY <1>2, <1>3
  <2>3. QED
    BY <2>1, <2>2 DEF HandedOver
<1>8. QED
  BY <1>1, <1>6, <1>7

(* Steps that change neither the information of the part nor a YAML file.  *)
LEMMA InfoKept ==
  ASSUME InfoInv, UNCHANGED files,
         {"fabrics", "info"} \subseteq DOMAIN parsed',
         parsed'.fabrics = parsed.fabrics, parsed'.info = parsed.info,
         step' \notin {"mapping", "devices", "parts"}
  PROVE  InfoInv'
<1>1. FabricsOwn' /\ InfoOfOwnEntry'
  BY DEF InfoInv, FabricsOwn, InfoOfOwnEntry
<1>2. YAMLRead'
  BY DEF YAMLRead, YAMLSteps
<1>3. QED
  BY <1>1, <1>2 DEF InfoInv

LEMMA OthersKept ==
  ASSUME InfoInv, NEW name, NEW value, name \notin {"fabrics", "info"}, Parsed(name, value)
  PROVE  /\ {"fabrics", "info"} \subseteq DOMAIN parsed'
         /\ parsed'.fabrics = parsed.fabrics /\ parsed'.info = parsed.info
  BY DEF InfoInv, Parsed

(* The file of a step of YAML, and where reading is in it.                 *)
LEMMA AtYAMLLine ==
  ASSUME InfoInv, NEW kind, IsYAMLLine(kind)
  PROVE  /\ step \in YAMLSteps /\ files[step].state = "mapped" /\ File = files[step]
         /\ line_number \in Nat \ {0}
         /\ Len(files[step].lines) \in Nat
         /\ line_number <= Len(files[step].lines)
         /\ files[step].lines[line_number].kind = kind
<1>1. step \in YAMLSteps /\ File.state = "mapped"
  BY DEF IsYAMLLine
<1>2. step \in {"devices", "parts", "part", "package_pins"}
  BY <1>1 DEF YAMLSteps
<1>3. File = files[step]
  BY <1>2, KindsAre DEF File
<1>4. Len(files[step].lines) \in Nat
  BY <1>1, <1>3, YAMLLines DEF InfoInv
<1>5. QED
  BY <1>1, <1>3, <1>4 DEF IsYAMLLine, InfoInv, YAMLRead

(* One more line is read, of the same file.                                *)
LEMMA OneLineMore ==
  ASSUME InfoInv, step \in YAMLSteps,
         NEW lines, lines = files[step].lines, Len(lines) \in Nat,
         NEW n \in Nat \ {0}, n = line_number, n <= Len(lines),
         UNCHANGED <<files, step, parsed>>, line_number' = n + 1,
         NEW m \in 0 .. n, IsEntry(lines, m, n)', HandedOver(lines, m)'
  PROVE  InfoInv'
<1>1. YAMLRead'
  <2>1. files[step]'.lines = lines
    OBVIOUS
  <2>2. n + 1 \in Nat \ {0} /\ n + 1 <= Len(lines) + 1 /\ (n + 1) - 1 = n
    OBVIOUS
  <2>3. /\ line_number' \in Nat \ {0}
        /\ line_number' <= Len(lines) + 1
        /\ line_number' - 1 = n
    BY <2>2
  <2>4. QED
    BY <2>1, <2>3 DEF YAMLRead
<1>2. FabricsOwn' /\ InfoOfOwnEntry'
  BY DEF InfoInv, FabricsOwn, InfoOfOwnEntry
<1>3. QED
  BY <1>1, <1>2 DEF InfoInv

(* What is added to the end of the lines of an entry.                      *)
LEMMA StillLast ==
  ASSUME NEW lines, NEW n \in Nat \ {0}, NEW m \in 0 .. n - 1, NEW property, NEW value,
         GivesLast(lines, m, n - 1, property, value),
         ~ (lines[n].kind = "nested" /\ lines[n].key = property)
  PROVE  GivesLast(lines, m, n, property, value)
<1>1. PICK j \in m + 1 .. n - 1 :
        /\ lines[j].kind = "nested" /\ lines[j].key = property
        /\ lines[j].value = value
        /\ \A k \in j + 1 .. n - 1 : ~ (lines[k].kind = "nested" /\ lines[k].key = property)
  BY DEF GivesLast
<1>2. j \in m + 1 .. n
  BY <1>1
<1>3. ASSUME NEW k \in j + 1 .. n
      PROVE  ~ (lines[k].kind = "nested" /\ lines[k].key = property)
  <2>1. k \in j + 1 .. n - 1 \/ k = n
    BY <1>1, <1>3
  <2>2. QED
    BY <1>1, <2>1
<1>4. QED
  BY <1>1, <1>2, <1>3 DEF GivesLast

LEMMA NowLast ==
  ASSUME NEW lines, NEW n \in Nat \ {0}, NEW m \in 0 .. n - 1, lines[n].kind = "nested"
  PROVE  GivesLast(lines, m, n, lines[n].key, lines[n].value)
<1>1. n \in m + 1 .. n /\ n + 1 .. n = {}
  OBVIOUS
<1>2. QED
  BY <1>1 DEF GivesLast

LEMMA NoTopMore ==
  ASSUME NEW lines, NEW n \in Nat \ {0}, NEW m \in 0 .. n - 1,
         NoTop(lines, m + 1, n - 1), lines[n].kind # "top"
  PROVE  NoTop(lines, m + 1, n)
<1>1. \A k \in m + 1 .. n : k \in m + 1 .. n - 1 \/ k = n
  OBVIOUS
<1>2. QED
  BY <1>1 DEF NoTop

LEMMA SkippedLineKeepsInfo ==
  ASSUME InfoInv, SkippedLine
  PROVE  InfoInv'
<1>1. PICK lines, n : lines = files[step].lines /\ n = line_number
  OBVIOUS
<1>2. /\ step \in YAMLSteps /\ files[step].state = "mapped"
      /\ n \in Nat \ {0} /\ Len(lines) \in Nat /\ n <= Len(lines)
      /\ lines[n].kind = "skipped"
  BY <1>1, AtYAMLLine DEF SkippedLine
<1>3. UNCHANGED <<files, step, entry, out, parsed>> /\ line_number' = n + 1
  BY <1>1 DEF SkippedLine, NextLine
<1>4. PICK m \in 0 .. n - 1 : IsEntry(lines, m, n - 1) /\ HandedOver(lines, m)
  BY <1>1, <1>2 DEF InfoInv, YAMLRead
<1>5. m \in 0 .. n
  BY <1>2
<1>6. HandedOver(lines, m)'
  BY <1>3, <1>4 DEF HandedOver, IsOwn
<1>7. IsEntry(lines, m, n)'
  <2>1. NoTop(lines, m + 1, n)
    BY <1>2, <1>4, NoTopMore DEF IsEntry
  <2>2. \A property \in DOMAIN entry.properties :
          GivesLast(lines, m, n, property, entry.properties[property])
    BY <1>2, <1>4, StillLast DEF IsEntry
  <2>3. QED
    BY <1>3, <1>4, <2>1, <2>2 DEF IsEntry
<1>8. QED
  BY <1>1, <1>2, <1>3, <1>5, <1>6, <1>7, OneLineMore

LEMMA NestedLineKeepsInfo ==
  ASSUME InfoInv, NestedLine
  PROVE  InfoInv'
<1>1. PICK lines, n : lines = files[step].lines /\ n = line_number
  OBVIOUS
<1>2. /\ step \in YAMLSteps /\ files[step].state = "mapped" /\ File = files[step]
      /\ n \in Nat \ {0} /\ Len(lines) \in Nat /\ n <= Len(lines)
      /\ lines[n].kind = "nested"
  BY <1>1, AtYAMLLine DEF NestedLine
<1>3. CASE ~ lines[n].colon
  <2>1. UNCHANGED <<files, parsed>> /\ step' = "failed"
    BY <1>1, <1>2, <1>3 DEF NestedLine, EndsAs
  <2>2. QED
    BY <2>1, InfoKept DEF InfoInv
<1>4. CASE lines[n].colon
  <2>1. /\ UNCHANGED <<files, step, out, parsed>> /\ line_number' = n + 1
        /\ entry' = [entry EXCEPT !.properties = InsertOver(@, lines[n].key, lines[n].value)]
    BY <1>1, <1>2, <1>4 DEF NestedLine, NextLine
  <2>2. PICK m \in 0 .. n - 1 : IsEntry(lines, m, n - 1) /\ HandedOver(lines, m)
    BY <1>1, <1>2 DEF InfoInv, YAMLRead
  <2>3. m \in 0 .. n
    BY <1>2
  <2>4. HandedOver(lines, m)'
    BY <2>1, <2>2 DEF HandedOver, IsOwn
  <2>5. IsEntry(lines, m, n)'
    <3>1. NoTop(lines, m + 1, n)
      BY <1>2, <2>2, NoTopMore DEF IsEntry
    <3>2. /\ DOMAIN entry' = {"key", "properties"} /\ entry'.key = entry.key
          /\ entry'.properties = InsertOver(entry.properties, lines[n].key, lines[n].value)
      BY <2>1, <2>2 DEF IsEntry
    <3>3. ASSUME NEW property \in DOMAIN entry'.properties
          PROVE  GivesLast(lines, m, n, property, entry'.properties[property])
      <4>1. CASE property = lines[n].key
        <5>1. entry'.properties[property] = lines[n].value
          BY <3>2, <4>1 DEF InsertOver
        <5>2. QED
          BY <1>2, <4>1, <5>1, NowLast
      <4>2. CASE property # lines[n].key
        <5>1. /\ property \in DOMAIN entry.properties
              /\ entry'.properties[property] = entry.properties[property]
          BY <3>2, <4>2 DEF InsertOver
        <5>2. GivesLast(lines, m, n - 1, property, entry.properties[property])
          BY <2>2, <5>1 DEF IsEntry
        <5>3. QED
          BY <1>2, <4>2, <5>1, <5>2, StillLast
      <4>3. QED
        BY <4>1, <4>2
    <3>4. QED
      BY <2>2, <3>1, <3>2, <3>3 DEF IsEntry
  <2>6. QED
    BY <1>1, <1>2, <2>1, <2>3, <2>4, <2>5, OneLineMore
<1>5. QED
  BY <1>3, <1>4

LEMMA TopLineKeepsInfo ==
  ASSUME InfoInv, TopLine
  PROVE  InfoInv'
<1>1. PICK lines, n : lines = files[step].lines /\ n = line_number
  OBVIOUS
<1>2. /\ step \in YAMLSteps /\ files[step].state = "mapped" /\ File = files[step]
      /\ n \in Nat \ {0} /\ Len(lines) \in Nat /\ n <= Len(lines)
      /\ lines[n].kind = "top"
  BY <1>1, AtYAMLLine DEF TopLine
<1>3. CASE ~ (Sink.status = "ok" /\ lines[n].colon)
  <2>1. UNCHANGED <<files, parsed>> /\ step' = "failed"
    BY <1>1, <1>2, <1>3 DEF TopLine, EndsAs
  <2>2. QED
    BY <2>1, InfoKept DEF InfoInv
<1>4. CASE Sink.status = "ok" /\ lines[n].colon
  <2>0. PICK given : given = Sink.value
    OBVIOUS
  <2>1. /\ UNCHANGED <<files, step, parsed>> /\ line_number' = n + 1
        /\ out' = given
        /\ entry' = [key |-> lines[n].key, properties |-> <<>>]
    BY <1>1, <1>2, <1>4, <2>0 DEF TopLine, NextLine
  <2>2. PICK m \in 0 .. n - 1 : IsEntry(lines, m, n - 1) /\ HandedOver(lines, m)
    BY <1>1, <1>2 DEF InfoInv, YAMLRead
  <2>3. EntryEnds(lines, n - 1)
    BY <1>2 DEF EntryEnds
  <2>4. /\ \A name \in DOMAIN given : IsOwn(name, given[name])
        /\ \A i \in 1 .. m :
             lines[i].kind = "top" /\ lines[i].key # "" => lines[i].key \in DOMAIN given
    BY <1>1, <1>2, <1>4, <2>0, <2>2, <2>3, SinkHandsOver
  <2>5. HandedOver(lines, n)'
    <3>1. \A name \in DOMAIN given : IsOwn(name, given[name])'
      BY <2>1, <2>4 DEF IsOwn
    <3>2. ASSUME NEW i \in 1 .. n - 1, lines[i].kind = "top", lines[i].key # ""
          PROVE  lines[i].key \in DOMAIN given
      <4>1. NoTop(lines, m + 1, n - 1)
        BY <2>2 DEF IsEntry
      <4>2. i \in 1 .. m \/ i \in m + 1 .. n - 1
        BY <1>2, <2>2
      <4>3. QED
        BY <2>4, <3>2, <4>1, <4>2 DEF NoTop
    <3>3. QED
      BY <2>1, <3>1, <3>2 DEF HandedOver
  <2>6. IsEntry(lines, n, n)'
    <3>1. NoTop(lines, n + 1, n)
      BY <1>2 DEF NoTop
    <3>2. DOMAIN <<>> = {}
      OBVIOUS
    <3>3. /\ DOMAIN entry' = {"key", "properties"} /\ entry'.key = lines[n].key
          /\ DOMAIN entry'.properties = {}
      BY <2>1, <3>2
    <3>4. \A property \in DOMAIN entry'.properties :
            GivesLast(lines, n, n, property, entry'.properties[property])
      BY <3>3
    <3>5. n # 0
      BY <1>2
    <3>6. QED
      BY <1>2, <3>1, <3>3, <3>4, <3>5, Zenon DEF IsEntry
  <2>7. n \in 0 .. n
    BY <1>2
  <2>8. QED
    BY <1>1, <1>2, <2>1, <2>5, <2>6, <2>7, OneLineMore
<1>5. QED
  BY <1>3, <1>4

(* At the end of a file all of its entries are handed over.                *)
LEMMA AllHandedOver ==
  ASSUME InfoInv, NEW name \in YAMLSteps, AtEndOfYAML(name), Sink.status = "ok"
  PROVE  \A key \in DOMAIN Sink.value : IsOwn(key, Sink.value[key])
<1> DEFINE lines == files[step].lines
<1>1. step \in YAMLSteps /\ step = name /\ File.state = "mapped" /\ line_number > Len(File.lines)
  BY DEF AtEndOfYAML
<1>2. step \in {"devices", "parts", "part", "package_pins"}
  BY <1>1 DEF YAMLSteps
<1>3. File = files[step]
  BY <1>2, KindsAre DEF File
<1>4. Len(lines) \in Nat
  BY <1>1, <1>3, YAMLLines DEF InfoInv
<1>5. PICK m \in 0 .. line_number - 1 :
        IsEntry(lines, m, line_number - 1) /\ HandedOver(lines, m)
  BY <1>1, <1>3 DEF InfoInv, YAMLRead
<1>6. line_number \in Nat \ {0}
  BY <1>1, <1>3 DEF InfoInv, YAMLRead
<1>7. EntryEnds(lines, line_number - 1)
  BY <1>1, <1>3, <1>4, <1>6 DEF EntryEnds
<1>8. QED
  BY <1>1, <1>3, <1>5, <1>7, SinkHandsOver

LEMMA EndOfDevicesKeepsInfo ==
  ASSUME InfoInv, EndOfDevices
  PROVE  InfoInv'
<1>1. step = "devices" /\ UNCHANGED files
  BY DEF EndOfDevices, AtEndOfYAML
<1>2. CASE Sink.status # "ok"
  <2>1. UNCHANGED parsed /\ step' = "failed"
    BY <1>2 DEF EndOfDevices, EndsAs
  <2>2. QED
    BY <1>1, <2>1, InfoKept DEF InfoInv
<1>3. CASE Sink.status = "ok"
  <2>0. PICK given : given = Sink.value
    OBVIOUS
  <2>1. StartOf("parts") /\ parsed' = [parsed EXCEPT !["fabrics"] = given]
    BY <1>3, <2>0 DEF EndOfDevices, Parsed
  <2>2. "devices" \in YAMLSteps /\ "parts" \in YAMLSteps
    BY DEF YAMLSteps
  <2>3. \A key \in DOMAIN given : IsOwn(key, given[key])
    BY <1>3, <2>0, <2>2, AllHandedOver DEF EndOfDevices
  <2>4. \A key \in DOMAIN given :
          IsOwnValue(files.devices.lines, key, "fabric", given[key])
    BY <1>1, <2>3 DEF IsOwn
  <2>5. /\ {"fabrics", "info"} \subseteq DOMAIN parsed'
        /\ parsed'.fabrics = given /\ parsed'.info = parsed.info /\ parsed.info = <<>>
    BY <1>1, <2>1 DEF InfoInv
  <2>6. FabricsOwn'
    BY <1>1, <2>4, <2>5 DEF FabricsOwn
  <2>7. YAMLRead'
    BY <1>1, <2>1, <2>2, YAMLStarts DEF InfoInv
  <2>8. InfoOfOwnEntry'
    BY <2>5 DEF InfoOfOwnEntry
  <2>9. QED
    BY <1>1, <2>5, <2>6, <2>7, <2>8 DEF InfoInv
<1>4. QED
  BY <1>2, <1>3

LEMMA EndOfPartsKeepsInfo ==
  ASSUME InfoInv, EndOfParts
  PROVE  InfoInv'
<1>1. step = "parts" /\ UNCHANGED files
  BY DEF EndOfParts, AtEndOfYAML
<1>2. CASE ~ (Sink.status = "ok" /\ files.part_name \in DOMAIN Sink.value)
  <2>1. UNCHANGED parsed /\ step' = "failed"
    BY <1>2 DEF EndOfParts, EndsAs
  <2>2. QED
    BY <1>1, <2>1, InfoKept DEF InfoInv
<1>3. CASE Sink.status = "ok" /\ files.part_name \in DOMAIN Sink.value
  <2>0. PICK info : info = Sink.value[files.part_name]
    OBVIOUS
  <2>1. step' = "tilegrid" /\ parsed' = [parsed EXCEPT !["info"] = info]
    BY <1>3, <2>0 DEF EndOfParts, StartOf, Parsed
  <2>2. "parts" \in YAMLSteps
    BY DEF YAMLSteps
  <2>3. IsOwn(files.part_name, info)
    BY <1>3, <2>0, <2>2, AllHandedOver DEF EndOfParts
  <2>4. IsOwnInfo(files.parts.lines, parsed.fabrics, files.part_name, info)
    BY <1>1, <2>3 DEF IsOwn
  <2>5. /\ {"fabrics", "info"} \subseteq DOMAIN parsed'
        /\ parsed'.fabrics = parsed.fabrics /\ parsed'.info = info
    BY <2>1 DEF InfoInv
  <2>6. FabricsOwn'
    BY <1>1, <2>5 DEF InfoInv, FabricsOwn
  <2>7. YAMLRead'
    BY <2>1 DEF YAMLRead, YAMLSteps
  <2>8. InfoOfOwnEntry'
    <3>1. \A property \in {"device", "package", "speedgrade"} :
            IsOwnValue(files.parts.lines, files.part_name, property, info[property])
      BY <2>4 DEF IsOwnInfo
    <3>2. IsOwnValue(files.devices.lines, info.device, "fabric", info.fabric)
      BY <2>4 DEF IsOwnInfo, InfoInv, FabricsOwn
    <3>3. QED
      BY <1>1, <2>5, <3>1, <3>2 DEF InfoOfOwnEntry
  <2>9. QED
    BY <1>1, <2>1, <2>5, <2>6, <2>7, <2>8 DEF InfoInv
<1>4. QED
  BY <1>2, <1>3

LEMMA InfoStep ==
  ASSUME InfoInv, Next
  PROVE  InfoInv'
<1> USE KindsAre
<1>0. {"fabrics", "info"} \subseteq DOMAIN parsed
  BY DEF InfoInv
<1>1. CASE MapMapping
  <2>1. UNCHANGED <<files, parsed>> /\ step = "mapping"
    BY <1>1 DEF MapMapping
  <2>2. CASE step' = "failed"
    BY <1>0, <2>1, <2>2, InfoKept
  <2>3. CASE StartOf("devices")
    <3>1. YAMLRead'
      BY <2>1, <2>3, YAMLStarts DEF InfoInv, YAMLSteps
    <3>2. FabricsOwn' /\ InfoOfOwnEntry'
      BY <2>1 DEF InfoInv, FabricsOwn, InfoOfOwnEntry
    <3>3. QED
      BY <2>1, <3>1, <3>2 DEF InfoInv
  <2>4. QED
    BY <1>1, <2>2, <2>3 DEF MapMapping, EndsAs
<1>2. CASE SkippedLine
  BY <1>2, SkippedLineKeepsInfo
<1>3. CASE TopLine
  BY <1>3, TopLineKeepsInfo
<1>4. CASE NestedLine
  BY <1>4, NestedLineKeepsInfo
<1>5. CASE EndOfDevices
  BY <1>5, EndOfDevicesKeepsInfo
<1>6. CASE EndOfParts
  BY <1>6, EndOfPartsKeepsInfo
<1>7. CASE ParseTileGrid \/ IndexTileTypes \/ ParsePart \/ EndOfPins
  <2>1. UNCHANGED files
    BY <1>7 DEF ParseTileGrid, IndexTileTypes, ParsePart, EndOfPins
  <2>2. UNCHANGED parsed \/ \E value : \/ Parsed("tilegrid", value) \/ Parsed("paths", value)
                                       \/ Parsed("part", value) \/ Parsed("package_pins", value)
    BY <1>7 DEF ParseTileGrid, IndexTileTypes, ParsePart, EndOfPins
  <2>3. /\ {"fabrics", "info"} \subseteq DOMAIN parsed'
        /\ parsed'.fabrics = parsed.fabrics /\ parsed'.info = parsed.info
    BY <1>0, <2>2, OthersKept
  <2>4. step' \in {"index", "failed", "died", "part", "package_pins", "registry"}
    BY <1>7 DEF ParseTileGrid, IndexTileTypes, ParsePart, EndOfPins, EndsAs, StartOf, Result
  <2>5. QED
    BY <2>1, <2>3, <2>4, InfoKept
<1>8. CASE CannotIndex \/ RegisterIOBank \/ RegisterPin \/ Opened
  BY <1>0, <1>8, InfoKept DEF CannotIndex, RegisterIOBank, RegisterPin, Opened, EndsAs, NextLine
<1>9. CASE MissingFile \/ UnmappedFile \/ OverrunPage \/ InsertTileType
  <2>1. step' \in {"open", "failed", "died"} /\ UNCHANGED <<files, parsed>>
    BY <1>9 DEF MissingFile, UnmappedFile, OverrunPage, InsertTileType, EndsAs
  <2>2. QED
    BY <1>0, <2>1, InfoKept
<1>10. CASE GenerateLine
  <2>1. step' \in {"open", "failed", step} /\ step \in LineSteps /\ UNCHANGED <<files, parsed>>
    BY <1>10 DEF GenerateLine, IsAtLine, EndsAs, NextLine
  <2>2. QED
    BY <1>0, <2>1, InfoKept DEF LineSteps
<1>11. CASE UnknownFile \/ EndOfTileTypeFile
  <2>1. step' \in {"segbits", "block_ram", "insert"} /\ UNCHANGED <<files, parsed>>
    BY <1>11 DEF UnknownFile, EndOfTileTypeFile, StartOf, AfterKind
  <2>2. QED
    BY <1>0, <2>1, InfoKept
<1>12. CASE AddSegbitsToCache
  BY <1>0, <1>12, InfoKept DEF AddSegbitsToCache, StartOf
<1>13. CASE RemoveFiles
  BY <1>0, <1>13, InfoKept DEF RemoveFiles
<1>14. QED
  BY <1>1, <1>2, <1>3, <1>4, <1>5, <1>6, <1>7, <1>8, <1>9, <1>10, <1>11, <1>12, <1>13
     DEF Next, Open, Read

(* What the database says of the part is what the part's own entry says,   *)
(* and what its device's own entry says, for all files of any length:      *)
(* ParseMappingYAML with the sinks of ParsePartsInfos.                     *)
THEOREM PartOfOwnEntry == Spec => []InfoOfOwnEntry
<1>1. InfoInv /\ UNCHANGED vars => InfoInv'
  BY DEF InfoInv, YAMLRead, FabricsOwn, InfoOfOwnEntry, IsEntry, HandedOver, IsOwn, vars, file
<1>2. InfoInv /\ [Next]_vars => InfoInv'
  BY <1>1, InfoStep
<1>3. InfoInv => InfoOfOwnEntry
  BY DEF InfoInv
<1>4. QED
  BY InfoInit, <1>2, <1>3, PTL DEF Spec

-----------------------------------------------------------------------------
(* Induction over numbers, and the loop over the IO banks of part.json.    *)

NatLess == {ss \in Nat \X Nat : ss[1] < ss[2]}

LEMMA NatLessWellFounded == IsWellFoundedOn(NatLess, Nat)
  BY NatLessThanWellFounded DEF OpToRel, NatLess

(* For the provers, which cannot instantiate a theorem with an operator.   *)
LEMMA NatSetInduction ==
  ASSUME NEW S, 0 \in S, \A n \in Nat : n \in S => n + 1 \in S
  PROVE  Nat \subseteq S
<1> SUFFICES ASSUME Nat \ S # {} PROVE FALSE
  OBVIOUS
<1>1. PICK n \in Nat \ S : \A m \in Nat \ S : ~ (<<m, n>> \in NatLess)
  <2>1. Nat \ S \subseteq Nat
    OBVIOUS
  <2>2. QED
    BY <2>1, NatLessWellFounded, WFMin
<1>2. n # 0 /\ n - 1 \in Nat /\ n - 1 < n
  BY <1>1
<1>3. <<n - 1, n>> \in NatLess
  BY <1>2 DEF NatLess
<1>4. n - 1 \in S
  BY <1>1, <1>2, <1>3
<1>5. QED
  BY <1>1, <1>2, <1>4

(* What taking one more member gives, and what the first n give.           *)
Taken(result, m) ==
  IF result.status = "ok" THEN TakeIOBank(result.value, m) ELSE result

IsAfter(after, members, n) ==
  after = [i \in 0 .. n |-> IF i = 0 THEN Ok(<<>>) ELSE Taken(after[i - 1], members[i])]

LEMMA AfterExists ==
  ASSUME NEW members, NEW n \in Nat
  PROVE  \E after : IsAfter(after, members, n)
<1> DEFINE K == {k \in Nat : \E after : IsAfter(after, members, k)}
<1>1. 0 \in K
  <2> DEFINE f == [i \in 0 .. 0 |-> Ok(<<>>)]
  <2>1. f = [i \in 0 .. 0 |-> IF i = 0 THEN Ok(<<>>) ELSE Taken(f[i - 1], members[i])]
    OBVIOUS
  <2> HIDE DEF f
  <2>2. QED
    BY <2>1 DEF IsAfter
<1>2. ASSUME NEW k \in Nat, k \in K
      PROVE  k + 1 \in K
  <2>1. PICK f : IsAfter(f, members, k)
    BY <1>2
  <2> DEFINE g == [i \in 0 .. k + 1 |->
                     IF i \in 0 .. k THEN f[i] ELSE Taken(f[i - 1], members[i])]
  <2>2. \A i \in 0 .. k : f[i] = IF i = 0 THEN Ok(<<>>) ELSE Taken(f[i - 1], members[i])
    BY <2>1 DEF IsAfter
  <2>3. \A i \in 0 .. k + 1 :
          g[i] = IF i = 0 THEN Ok(<<>>) ELSE Taken(g[i - 1], members[i])
    <3> TAKE i \in 0 .. k + 1
    <3>1. i # 0 => i - 1 \in 0 .. k
      OBVIOUS
    <3>2. i # 0 => g[i - 1] = f[i - 1]
      BY <3>1
    <3>3. g[i] = IF i = 0 THEN Ok(<<>>) ELSE Taken(f[i - 1], members[i])
      BY <2>2
    <3>4. QED
      BY <3>2, <3>3
  <2>4. g = [i \in DOMAIN g |-> g[i]] /\ DOMAIN g = 0 .. k + 1
    OBVIOUS
  <2> HIDE DEF g
  <2>5. g = [i \in 0 .. k + 1 |-> IF i = 0 THEN Ok(<<>>) ELSE Taken(g[i - 1], members[i])]
    BY <2>3, <2>4
  <2>6. QED
    BY <2>5 DEF IsAfter
<1>3. Nat \subseteq K
  <2> HIDE DEF K
  <2>1. QED
    BY <1>1, <1>2, NatSetInduction
<1>4. QED
  BY <1>3

LEMMA ForMembersIsAfter ==
  ASSUME NEW json, Len(json[2]) \in Nat
  PROVE  \E after : /\ IsAfter(after, json[2], Len(json[2]))
                    /\ ForMembers(json, TakeIOBank) = after[Len(json[2])]
<1> DEFINE Loop(f) ==
             f = [i \in 0 .. Len(json[2]) |->
                    IF i = 0 THEN Ok(<<>>)
                    ELSE Then(f[i - 1], LAMBDA v :
                           With(json[2][i], LAMBDA m : TakeIOBank(v, m)))]
<1>1. ForMembers(json, TakeIOBank) = (CHOOSE f : Loop(f))[Len(json[2])]
  BY Zenon DEF ForMembers
<1>2. ASSUME NEW f
      PROVE  Loop(f) <=> IsAfter(f, json[2], Len(json[2]))
  <2>1. ASSUME NEW i \in 0 .. Len(json[2])
        PROVE  (IF i = 0 THEN Ok(<<>>)
                ELSE Then(f[i - 1], LAMBDA v :
                       With(json[2][i], LAMBDA m : TakeIOBank(v, m))))
               = (IF i = 0 THEN Ok(<<>>) ELSE Taken(f[i - 1], json[2][i]))
    BY DEF Then, With, Taken
  <2>2. QED
    BY <2>1, Zenon DEF IsAfter
<1> HIDE DEF Loop
<1>3. QED
  BY <1>1, <1>2, AfterExists

(* The banks of the first n members: of each, the first that has it.       *)
IsBanksOf(members, n, banks) ==
  /\ \A i \in 1 .. n : IsUint(members[i].name)
  /\ DOMAIN banks = {Atoi[members[i].name] : i \in 1 .. n}
  /\ \A bank \in DOMAIN banks : \E i \in 1 .. n :
       /\ Atoi[members[i].name] = bank
       /\ banks[bank] = members[i].value[2]
       /\ \A j \in 1 .. i - 1 : Atoi[members[j].name] # bank

LEMMA OneBankMore ==
  ASSUME NEW members, NEW n \in Nat, NEW banks, IsBanksOf(members, n, banks),
         NEW result, result = TakeIOBank(banks, members[n + 1]), result.status = "ok"
  PROVE  IsBanksOf(members, n + 1, result.value)
<1> DEFINE key == Atoi[members[n + 1].name]
<1>1. /\ IsUint(members[n + 1].name)
      /\ result.value = Insert(banks, key, members[n + 1].value[2])
  BY DEF TakeIOBank, Ok, Error, Dies
<1>2. /\ \A i \in 1 .. n : IsUint(members[i].name)
      /\ DOMAIN banks = {Atoi[members[i].name] : i \in 1 .. n}
      /\ \A bank \in DOMAIN banks : \E i \in 1 .. n :
           /\ Atoi[members[i].name] = bank
           /\ banks[bank] = members[i].value[2]
           /\ \A j \in 1 .. i - 1 : Atoi[members[j].name] # bank
  BY DEF IsBanksOf
<1>3. /\ DOMAIN result.value = DOMAIN banks \cup {key}
      /\ \A bank \in DOMAIN banks : result.value[bank] = banks[bank]
      /\ key \notin DOMAIN banks => result.value[key] = members[n + 1].value[2]
  BY <1>1 DEF Insert
<1>4. 1 .. n + 1 = 1 .. n \cup {n + 1}
  OBVIOUS
<1>5. \A i \in 1 .. n + 1 : IsUint(members[i].name)
  BY <1>1, <1>2, <1>4
<1>6. DOMAIN result.value = {Atoi[members[i].name] : i \in 1 .. n + 1}
  BY <1>2, <1>3, <1>4
<1>7. ASSUME NEW bank \in DOMAIN result.value
      PROVE  \E i \in 1 .. n + 1 :
               /\ Atoi[members[i].name] = bank
               /\ result.value[bank] = members[i].value[2]
               /\ \A j \in 1 .. i - 1 : Atoi[members[j].name] # bank
  <2>1. CASE bank \in DOMAIN banks
    <3>1. PICK i \in 1 .. n :
            /\ Atoi[members[i].name] = bank
            /\ banks[bank] = members[i].value[2]
            /\ \A j \in 1 .. i - 1 : Atoi[members[j].name] # bank
      BY <1>2, <2>1
    <3>2. i \in 1 .. n + 1
      BY <1>4
    <3>3. QED
      BY <1>3, <2>1, <3>1, <3>2
  <2>2. CASE bank \notin DOMAIN banks
    <3>1. bank = key /\ result.value[bank] = members[n + 1].value[2]
      BY <1>3, <2>2
    <3>2. \A j \in 1 .. (n + 1) - 1 : Atoi[members[j].name] # bank
      BY <1>2, <2>2
    <3>3. n + 1 \in 1 .. n + 1
      OBVIOUS
    <3>4. QED
      BY <3>1, <3>2, <3>3
  <2>3. QED
    BY <2>1, <2>2
<1>8. QED
  BY <1>5, <1>6, <1>7 DEF IsBanksOf

LEMMA ForMembersIsBanks ==
  ASSUME NEW json, Len(json[2]) \in Nat, ForMembers(json, TakeIOBank).status = "ok"
  PROVE  IsBanksOf(json[2], Len(json[2]), ForMembers(json, TakeIOBank).value)
<1> DEFINE members == json[2]
<1>1. PICK after : /\ IsAfter(after, members, Len(members))
                   /\ ForMembers(json, TakeIOBank) = after[Len(members)]
  BY ForMembersIsAfter
<1>2. \A i \in 0 .. Len(members) :
        after[i] = IF i = 0 THEN Ok(<<>>) ELSE Taken(after[i - 1], members[i])
  BY <1>1 DEF IsAfter
<1> DEFINE K == {k \in Nat : k <= Len(members) /\ after[k].status = "ok" =>
                               IsBanksOf(members, k, after[k].value)}
<1> HIDE DEF members
<1>3. 0 \in K
  <2>1. after[0] = Ok(<<>>)
    <3>1. 0 \in 0 .. Len(members)
      BY DEF members
    <3>2. QED
      BY <1>2, <3>1
  <2>2. IsBanksOf(members, 0, <<>>)
    <3>1. DOMAIN <<>> = {} /\ 1 .. 0 = {}
      OBVIOUS
    <3>2. QED
      BY <3>1 DEF IsBanksOf
  <2>3. QED
    BY <2>1, <2>2 DEF Ok
<1>4. ASSUME NEW k \in Nat, k \in K
      PROVE  k + 1 \in K
  <2> SUFFICES ASSUME k + 1 <= Len(members), after[k + 1].status = "ok"
               PROVE  IsBanksOf(members, k + 1, after[k + 1].value)
    OBVIOUS
  <2>1. k <= Len(members) /\ k + 1 \in 0 .. Len(members) /\ k + 1 # 0 /\ (k + 1) - 1 = k
    BY DEF members
  <2>2. after[k + 1] = Taken(after[k], members[k + 1])
    BY <1>2, <2>1
  <2>3. after[k].status = "ok" /\ after[k + 1] = TakeIOBank(after[k].value, members[k + 1])
    BY <2>2 DEF Taken
  <2>4. IsBanksOf(members, k, after[k].value)
    BY <1>4, <2>1, <2>3
  <2>5. QED
    BY <2>3, <2>4, OneBankMore
<1>5. Nat \subseteq K
  <2> HIDE DEF K
  <2>1. QED
    BY <1>3, <1>4, NatSetInduction
<1>6. Len(members) \in K
  BY <1>5 DEF members
<1>7. QED
  BY <1>1, <1>6 DEF members

(* The IO banks of a part that is taken.                                   *)
LEMMA PartHasIOBanks ==
  ASSUME NEW json, ParsePartJSON(json).status = "ok"
  PROVE  LET iobanks == ParsePartJSON(json).value.iobanks
             at == Member(json, "iobanks")
             result == IOBanksIDsToLocation(json[2][at].value)
         IN /\ at = 0 => iobanks = <<>>
            /\ at # 0 => /\ IsObject(json)
                         /\ result.status = "ok" /\ iobanks = result.value
<1> DEFINE id == GetMember(json, "idcode", Uint)
           io == OptGetMember(json, "iobanks", IOBanksIDsToLocation)
           regions == GetMember(json, "global_clock_regions", GlobalClockRegions)
           at == Member(json, "iobanks")
           result == IOBanksIDsToLocation(json[2][at].value)
<1> DEFINE Inner(i, banks) ==
             Then(regions, LAMBDA r :
               Ok([idcode |-> i, iobanks |-> IF banks = <<>> THEN <<>> ELSE banks[1],
                   global_clock_regions |-> r]))
           Outer(i) == Then(io, LAMBDA banks : Inner(i, banks))
<1>1. ParsePartJSON(json) = Then(id, LAMBDA i : Outer(i))
  BY Zenon DEF ParsePartJSON
<1>2. io = IF IsObject(json) /\ at = 0 THEN Ok(<<>>)
           ELSE Then(IF ~ IsObject(json) \/ at = 0 THEN Error ELSE result, LAMBDA v : Ok(<<v>>))
  BY DEF OptGetMember, GetMember, With
<1> HIDE DEF id, io, regions, at, result
<1>3. ASSUME NEW i, NEW banks, Inner(i, banks).status = "ok"
      PROVE  Inner(i, banks).value.iobanks = IF banks = <<>> THEN <<>> ELSE banks[1]
  <2>1. Inner(i, banks) =
          IF regions.status = "ok"
          THEN Ok([idcode |-> i, iobanks |-> IF banks = <<>> THEN <<>> ELSE banks[1],
                   global_clock_regions |-> regions.value])
          ELSE regions
    BY DEF Then, With
  <2> HIDE DEF Inner
  <2>2. CASE regions.status # "ok"
    BY <1>3, <2>1, <2>2
  <2>3. CASE regions.status = "ok"
    <3> DEFINE first == IF banks = <<>> THEN <<>> ELSE banks[1]
    <3>1. Inner(i, banks).value =
            [idcode |-> i, iobanks |-> first, global_clock_regions |-> regions.value]
      BY <2>1, <2>3 DEF Ok
    <3> HIDE DEF first
    <3>2. Inner(i, banks).value.iobanks = first
      BY <3>1
    <3>3. QED
      BY <3>2 DEF first
  <2>4. QED
    BY <2>2, <2>3
<1> HIDE DEF Inner
<1>4. \A i : Outer(i) = IF io.status = "ok" THEN Inner(i, io.value) ELSE io
  BY DEF Then, With
<1> HIDE DEF Outer
<1>5. ParsePartJSON(json) = IF id.status = "ok" THEN Outer(id.value) ELSE id
  BY <1>1 DEF Then, With
<1>6. /\ io.status = "ok"
      /\ ParsePartJSON(json).value.iobanks = IF io.value = <<>> THEN <<>> ELSE io.value[1]
  BY <1>3, <1>4, <1>5
<1>7. CASE at = 0
  <2>1. io.value = <<>>
    BY <1>2, <1>6, <1>7 DEF Then, With, Ok, Error
  <2>2. QED
    BY <1>6, <1>7, <2>1 DEF at, result
<1>8. CASE at # 0
  <2>1. CASE ~ IsObject(json)
    <3>1. io = Then(Error, LAMBDA v : Ok(<<v>>))
      BY <1>2, <2>1
    <3>2. io = Error
      BY <3>1 DEF Then, With, Error
    <3>3. QED
      BY <1>6, <3>2 DEF Error
  <2>2. CASE IsObject(json)
    <3>1. io = Then(result, LAMBDA v : Ok(<<v>>))
      BY <1>2, <1>8, <2>2
    <3>2. io = IF result.status = "ok" THEN Ok(<<result.value>>) ELSE result
      BY <3>1 DEF Then, With
    <3>3. result.status = "ok" /\ io.value = <<result.value>>
      BY <1>6, <3>2 DEF Ok
    <3>4. <<result.value>> # <<>> /\ <<result.value>>[1] = result.value
      OBVIOUS
    <3>5. ParsePartJSON(json).value.iobanks = result.value
      BY <1>6, <3>3, <3>4
    <3>6. QED
      BY <1>8, <2>2, <3>3, <3>5 DEF at, result
  <2>3. QED
    BY <2>1, <2>2
<1>9. QED
  BY <1>7, <1>8

-----------------------------------------------------------------------------
(* Banks and tiles.                                                        *)

IOBankLocations == parsed.part.iobanks
Pins == parsed.package_pins

(* Reading is past package_pins.csv.                                       *)
OpenSteps == {"open", "insert"} \cup ToSet(Kinds)

HasPin(line) == Segments(line) # <<>>
PinOf(line) == [bank |-> Atoi[Segments(line)[2]], tile |-> Segments(line)[4]]

(* The pins of the first n lines, of which the first is a header.          *)
IsPinsOf(lines, n, pins) ==
  /\ pins \in Seq(ToSet(pins))
  /\ \A i \in 2 .. n : HasPin(lines[i]) =>
       Len(Segments(lines[i])) = 5 /\ IsUint(Segments(lines[i])[2])
  /\ \A k \in DOMAIN pins : \E i \in 2 .. n : HasPin(lines[i]) /\ pins[k] = PinOf(lines[i])
  /\ \A i \in 2 .. n : HasPin(lines[i]) => \E k \in DOMAIN pins : pins[k] = PinOf(lines[i])

PinsRead ==
  /\ step = "package_pins" /\ files.package_pins.state = "mapped" =>
       /\ line_number <= Len(files.package_pins.lines) + 1
       /\ IsPinsOf(files.package_pins.lines, line_number - 1, out)
  /\ step \in {"registry"} \cup OpenSteps =>
       IsPinsOf(files.package_pins.lines, Len(files.package_pins.lines), Pins)

IOBanksRead ==
  step \in {"package_pins", "registry"} \cup OpenSteps =>
    LET at == Member(files.part.json, "iobanks")
        members == files.part.json[2][at].value[2]
    IN /\ at = 0 => IOBankLocations = <<>>
       /\ at # 0 => IsBanksOf(members, Len(members), IOBankLocations) /\ Len(members) \in Nat
                    /\ DOMAIN members = 1 .. Len(members)

(* The bank has been registered with the tile, when the IO banks that are  *)
(* left and the pins after the first n have not.                           *)
IsDue(bank, tile, left, n) ==
  \/ bank \in DOMAIN IOBankLocations \ left /\ tile = HclkTile(IOBankLocations[bank])
  \/ \E k \in 1 .. n : Pins[k].bank = bank /\ Pins[k].tile = tile

IsRegistered(bank, tile) ==
  /\ bank \in DOMAIN banks_to_tiles /\ tile \in banks_to_tiles[bank]
  /\ tile \in DOMAIN tile_to_banks /\ bank \in ToSet(tile_to_banks[tile])

(* A tile that is known has a first bank.                                  *)
FirstBanks ==
  \A tile \in DOMAIN tile_to_banks :
    /\ tile_to_banks[tile] \in Seq(ToSet(tile_to_banks[tile]))
    /\ tile_to_banks[tile] # <<>>

(* Both maps have what is due and nothing else, and tiles of IO banks have *)
(* one of these first.                                                     *)
Registry(left, n) ==
  /\ FirstBanks
  /\ \A bank \in DOMAIN banks_to_tiles : \A tile \in banks_to_tiles[bank] :
       IsDue(bank, tile, left, n)
  /\ \A tile \in DOMAIN tile_to_banks : \A bank \in ToSet(tile_to_banks[tile]) :
       IsDue(bank, tile, left, n)
  /\ \A bank \in DOMAIN IOBankLocations \ left :
       /\ IsRegistered(bank, HclkTile(IOBankLocations[bank]))
       /\ tile_to_banks[HclkTile(IOBankLocations[bank])][1] \in DOMAIN IOBankLocations
  /\ \A k \in 1 .. n : IsRegistered(Pins[k].bank, Pins[k].tile)

Registered ==
  /\ step \notin {"registry"} \cup OpenSteps \cup Final =>
       DOMAIN banks_to_tiles = {} /\ DOMAIN tile_to_banks = {}
  /\ step = "registry" =>
       /\ line_number <= Len(Pins) + 1
       /\ pending \subseteq DOMAIN IOBankLocations
       /\ pending # {} => line_number = 1
       /\ Registry(pending, line_number - 1)
  /\ step \in OpenSteps => Registry({}, Len(Pins))

BanksInv ==
  /\ files \in Databases /\ {"part", "package_pins"} \subseteq DOMAIN parsed
  /\ step \in Steps /\ line_number \in Nat \ {0}
  /\ PinsRead /\ IOBanksRead /\ Registered

-----------------------------------------------------------------------------
LEMMA BanksInit == Init => BanksInv
<1> SUFFICES ASSUME Init PROVE BanksInv
  OBVIOUS
<1>1. /\ step = "mapping" /\ files \in Databases /\ line_number = 1
      /\ parsed = [fabrics |-> <<>>, info |-> <<>>, tilegrid |-> <<>>, paths |-> <<>>,
                   part |-> <<>>, package_pins |-> <<>>]
      /\ tile_to_banks = <<>> /\ banks_to_tiles = <<>>
  BY DEF Init
<1>2. {"part", "package_pins"} \subseteq DOMAIN parsed
  BY <1>1
<1>3. DOMAIN <<>> = {}
  OBVIOUS
<1>4. step \notin {"package_pins", "registry"} \cup OpenSteps
  BY <1>1, KindsAre DEF OpenSteps
<1>5. PinsRead /\ IOBanksRead /\ Registered
  BY <1>1, <1>3, <1>4 DEF PinsRead, IOBanksRead, Registered
<1>6. step \in Steps /\ line_number \in Nat \ {0}
  BY <1>1 DEF Steps
<1>7. QED
  BY <1>1, <1>2, <1>5, <1>6 DEF BanksInv

(* Nothing but the maps, the IO banks and the pins counts for a registry.  *)
LEMMA RegistryKept ==
  ASSUME NEW left, NEW n,
         UNCHANGED <<IOBankLocations, Pins, banks_to_tiles, tile_to_banks>>
  PROVE  Registry(left, n)' <=> Registry(left, n)
<1>1. FirstBanks' <=> FirstBanks
  BY DEF FirstBanks
<1>2. \A bank, tile : IsDue(bank, tile, left, n)' <=> IsDue(bank, tile, left, n)
  BY DEF IsDue
<1>3. \A bank, tile : IsRegistered(bank, tile)' <=> IsRegistered(bank, tile)
  BY DEF IsRegistered
<1>4. ASSUME NEW bank, NEW tile
      PROVE  /\ IsDue(bank, tile, left, n)' <=> IsDue(bank, tile, left, n)
             /\ IsRegistered(bank, tile)' <=> IsRegistered(bank, tile)
  BY <1>2, <1>3
<1>5. /\ IOBankLocations' = IOBankLocations /\ Pins' = Pins
      /\ banks_to_tiles' = banks_to_tiles /\ tile_to_banks' = tile_to_banks
  OBVIOUS
<1>6. QED
  BY <1>1, <1>4, <1>5 DEF Registry

(* Steps that read neither part.json nor package_pins.csv.                 *)
LEMMA BanksKept ==
  ASSUME BanksInv, UNCHANGED <<files, tile_to_banks, banks_to_tiles>>,
         {"part", "package_pins"} \subseteq DOMAIN parsed',
         parsed'.part = parsed.part, parsed'.package_pins = parsed.package_pins,
         step' \in Steps \ {"package_pins", "registry"}, line_number' \in Nat \ {0},
         step' \in OpenSteps => step \in OpenSteps,
         step' \notin OpenSteps \cup Final => step \notin {"registry"} \cup OpenSteps \cup Final
  PROVE  BanksInv'
<1>1. UNCHANGED <<IOBankLocations, Pins>>
  BY DEF IOBankLocations, Pins
<1>2. OpenSteps' = OpenSteps /\ Final' = Final /\ Steps' = Steps
  BY DEF OpenSteps, Final, Steps, Kinds, YAMLSteps, LineSteps
<1>3. PinsRead'
  BY <1>1, <1>2 DEF BanksInv, PinsRead
<1>4. IOBanksRead'
  BY <1>1, <1>2 DEF BanksInv, IOBanksRead
<1>5. ASSUME step \in OpenSteps
      PROVE  Registry({}, Len(Pins))'
  <2>1. PICK n : n = Len(Pins)
    OBVIOUS
  <2>2. Registry({}, n)
    BY <1>5, <2>1 DEF BanksInv, Registered
  <2>3. Registry({}, n)'
    BY <1>1, <2>2, RegistryKept
  <2>4. QED
    BY <1>1, <2>1, <2>3
<1>6. Registered'
  BY <1>2, <1>5 DEF BanksInv, Registered
<1>7. QED
  BY <1>2, <1>3, <1>4, <1>6 DEF BanksInv

LEMMA OtherNamesKept ==
  ASSUME BanksInv, NEW name, NEW value, name \notin {"part", "package_pins"},
         Parsed(name, value)
  PROVE  /\ {"part", "package_pins"} \subseteq DOMAIN parsed'
         /\ parsed'.part = parsed.part /\ parsed'.package_pins = parsed.package_pins
  BY DEF BanksInv, Parsed

(* The place of the first member with a name, if there is one.             *)
LEMMA MemberIsIn ==
  ASSUME NEW json, NEW name, json[2] \in Seq(ToSet(json[2])), Member(json, name) # 0
  PROVE  Member(json, name) \in DOMAIN json[2]
<1> DEFINE I == {i \in 1 .. Len(json[2]) : json[2][i].name = name}
<1>1. Member(json, name) = IF I # {} THEN Min(I) ELSE 0
  BY DEF Member, SelectInSeq
<1>2. I # {} /\ Member(json, name) = Min(I)
  BY <1>1
<1>3. I \subseteq 1 .. Len(json[2]) /\ I \subseteq Nat /\ 1 .. Len(json[2]) = DOMAIN json[2]
  OBVIOUS
<1> HIDE DEF I
<1>4. PICK i \in I : \A j \in I : ~ (<<j, i>> \in NatLess)
  BY <1>2, <1>3, NatLessWellFounded, WFMin
<1>5. ASSUME NEW j \in I PROVE i <= j
  <2>1. i \in Nat /\ j \in Nat
    BY <1>3
  <2>2. ~ (j < i)
    BY <1>4, <2>1 DEF NatLess
  <2>3. QED
    BY <2>1, <2>2
<1>6. Min(I) \in I
  BY <1>5 DEF Min
<1>7. QED
  BY <1>2, <1>3, <1>6

(* Values within values.                                                   *)
AreSound(values) == \A v \in values : IsObject(v) => v[2] \in Seq(ToSet(v[2]))

LEMMA InValues ==
  ASSUME NEW values, NEW v \in values, IsObject(v), v[2] \in Seq(ToSet(v[2])),
         NEW i \in 1 .. Len(v[2])
  PROVE  v[2][i].value \in Deeper(values)
<1>1. v[2][i] \in ToSet(v[2])
  BY DEF ToSet
<1>2. v[2][i].value \in {m.value : m \in ToSet(v[2])}
  BY <1>1
<1>3. {m.value : m \in ToSet(v[2])}
        \in {{m.value : m \in ToSet(u[2])} : u \in {u \in values : IsObject(u)}}
  OBVIOUS
<1>4. QED
  BY <1>2, <1>3 DEF Deeper

LEMMA DeeperSound ==
  ASSUME NEW values, AreSound(Deeper(values))
  PROVE  AreSound(values)
  BY DEF AreSound, Deeper

LEMMA JSONIsSound ==
  ASSUME NEW json, IsJSON(json)
  PROVE  AreSound({json}) /\ AreSound(Deeper({json}))
<1>1. PICK values : values = {json}
  OBVIOUS
<1>2. AreSound(Deeper(Deeper(Deeper(Deeper(Deeper(Deeper(Deeper(values))))))))
  BY <1>1 DEF IsJSON, Within, AreSound
<1>3. AreSound(values) /\ AreSound(Deeper(values))
  BY <1>2, DeeperSound
<1>4. QED
  BY <1>1, <1>3

LEMMA ParsePartKeepsBanks ==
  ASSUME BanksInv, ParsePart
  PROVE  BanksInv'
<1> DEFINE json == files.part.json
           at == Member(json, "iobanks")
           members == json[2][at].value[2]
           result == ParsePartJSON(json)
<1>1. /\ step = "part" /\ File.state = "mapped"
      /\ UNCHANGED <<files, tile_to_banks, banks_to_tiles>>
  BY DEF ParsePart, registry
<1>2. File = files.part
  BY <1>1, KindsAre DEF File
<1>3. step \notin {"registry"} \cup OpenSteps \cup Final
  BY <1>1, KindsAre DEF OpenSteps, Final
<1>4. CASE result.status # "ok"
  <2>1. step' \in {"failed", "died"} /\ UNCHANGED <<parsed, line_number>>
    BY <1>2, <1>4 DEF ParsePart, EndsAs, Result, file
  <2>2. step' \in (Steps \cap Final) \ OpenSteps
    BY <2>1, KindsAre DEF Steps, Final, OpenSteps
  <2>3. step' \notin {"package_pins", "registry"}
    BY <2>1
  <2>4. QED
    BY <1>1, <2>1, <2>2, <2>3, BanksKept DEF BanksInv
<1>5. CASE result.status = "ok"
  <2>0. PICK value : value = result.value
    OBVIOUS
  <2>1. /\ StartOf("package_pins") /\ parsed' = [parsed EXCEPT !["part"] = value]
    BY <1>2, <1>5, <2>0 DEF ParsePart, Parsed
  <2>2. /\ {"part", "package_pins"} \subseteq DOMAIN parsed'
        /\ IOBankLocations' = value.iobanks
        /\ step' = "package_pins" /\ line_number' = 1 /\ out' = <<>>
    BY <2>1 DEF BanksInv, StartOf, IOBankLocations
  <2>3. at = 0 => value.iobanks = <<>>
    BY <1>5, <2>0, PartHasIOBanks
  <2>4. ASSUME at # 0
        PROVE  /\ IsBanksOf(members, Len(members), value.iobanks)
               /\ Len(members) \in Nat /\ DOMAIN members = 1 .. Len(members)
    <3> DEFINE banks == IOBanksIDsToLocation(json[2][at].value)
    <3>1. banks.status = "ok" /\ value.iobanks = banks.value /\ IsObject(json)
      BY <1>5, <2>0, <2>4, PartHasIOBanks
    <3>2. IsObject(json[2][at].value) /\ banks = ForMembers(json[2][at].value, TakeIOBank)
      BY <3>1 DEF IOBanksIDsToLocation, Dies
    <3>3. AreSound({json}) /\ AreSound(Deeper({json}))
      <4>1. IsJSON(json)
        BY <1>1, <1>2, DatabasesAssumption DEF BanksInv
      <4>2. QED
        BY <4>1, JSONIsSound
    <3>4. json[2] \in Seq(ToSet(json[2]))
      BY <3>1, <3>3 DEF AreSound
    <3>5. at \in 1 .. Len(json[2])
      <4>1. at \in DOMAIN json[2]
        BY <2>4, <3>4, MemberIsIn
      <4>2. QED
        BY <3>4, <4>1
    <3>6. json[2][at].value \in Deeper({json})
      <4>1. json \in {json}
        OBVIOUS
      <4>2. QED
        BY <3>1, <3>4, <3>5, <4>1, InValues
    <3>7. members \in Seq(ToSet(members))
      BY <3>2, <3>3, <3>6 DEF AreSound
    <3> HIDE DEF json
    <3>8. Len(members) \in Nat /\ DOMAIN members = 1 .. Len(members)
      BY <3>7
    <3>9. IsBanksOf(members, Len(members), banks.value)
      BY <3>1, <3>2, <3>8, ForMembersIsBanks
    <3>10. QED
      BY <3>1, <3>8, <3>9
  <2>5. IOBanksRead'
    BY <1>1, <2>2, <2>3, <2>4 DEF IOBanksRead
  <2>6. PinsRead'
    <3>1. \A lines : IsPinsOf(lines, 1 - 1, <<>>)
      <4>1. 2 .. 1 - 1 = {} /\ DOMAIN <<>> = {} /\ <<>> \in Seq(ToSet(<<>>))
        OBVIOUS
      <4>2. QED
        BY <4>1 DEF IsPinsOf
    <3>2. files.package_pins.state = "mapped" => 1 <= Len(files.package_pins.lines) + 1
      <4>1. files.package_pins.state = "mapped" =>
              files.package_pins.lines \in Seq(ToSet(files.package_pins.lines))
        BY DatabasesAssumption DEF BanksInv
      <4>2. \A lines : lines \in Seq(ToSet(lines)) => 1 <= Len(lines) + 1
        OBVIOUS
      <4>3. QED
        BY <4>1, <4>2
    <3>3. step' \notin {"registry"} \cup OpenSteps
      BY <2>2, KindsAre DEF OpenSteps
    <3>4. OpenSteps' = OpenSteps
      BY DEF OpenSteps, Kinds
    <3>5. QED
      BY <1>1, <2>2, <3>1, <3>2, <3>3, <3>4 DEF PinsRead
  <2>7. Registered'
    <3>1. DOMAIN banks_to_tiles = {} /\ DOMAIN tile_to_banks = {}
      BY <1>3 DEF BanksInv, Registered
    <3>2. step' \notin {"registry"} \cup OpenSteps
      BY <2>2, KindsAre DEF OpenSteps
    <3>3. OpenSteps' = OpenSteps
      BY DEF OpenSteps, Kinds
    <3>4. QED
      BY <1>1, <3>1, <3>2, <3>3 DEF Registered
  <2>8. step' \in Steps /\ line_number' \in Nat \ {0}
    BY <2>2 DEF Steps, LineSteps
  <2>9. QED
    BY <1>1, <2>2, <2>5, <2>6, <2>7, <2>8 DEF BanksInv
<1>6. QED
  BY <1>4, <1>5

-----------------------------------------------------------------------------
(* Sequences, to which one element is appended.                            *)
LEMMA AppendAdds ==
  ASSUME NEW s, s \in Seq(ToSet(s)), NEW e, NEW t, t = Append(s, e)
  PROVE  /\ t \in Seq(ToSet(t)) /\ t # <<>>
         /\ ToSet(t) = ToSet(s) \cup {e}
         /\ Len(t) = Len(s) + 1 /\ DOMAIN t = 1 .. Len(s) + 1 /\ DOMAIN s = 1 .. Len(s)
         /\ Len(s) \in Nat
         /\ \A i \in 1 .. Len(s) : t[i] = s[i]
         /\ t[Len(s) + 1] = e
         /\ t[1] = IF s = <<>> THEN e ELSE s[1]
<1>1. s \in Seq(ToSet(s) \cup {e})
  <2>1. \A S, T : S \subseteq T => Seq(S) \subseteq Seq(T)
    OBVIOUS
  <2>2. QED
    BY <2>1
<1>2. /\ t \in Seq(ToSet(s) \cup {e}) /\ Len(t) = Len(s) + 1 /\ Len(s) \in Nat
      /\ DOMAIN t = 1 .. Len(s) + 1 /\ DOMAIN s = 1 .. Len(s)
      /\ \A i \in 1 .. Len(s) : t[i] = s[i]
      /\ t[Len(s) + 1] = e
  BY <1>1
<1>3. ToSet(t) = ToSet(s) \cup {e}
  <2>1. \A i \in 1 .. Len(s) : t[i] \in ToSet(s)
    BY <1>2 DEF ToSet
  <2>2. ToSet(t) \subseteq ToSet(s) \cup {e}
    BY <1>2, <2>1 DEF ToSet
  <2>3. \A x \in ToSet(s) : x \in ToSet(t)
    <3>1. \A i \in 1 .. Len(s) : i \in 1 .. Len(s) + 1
      BY <1>2
    <3>2. QED
      BY <1>2, <3>1 DEF ToSet
  <2>4. e \in ToSet(t)
    <3>1. Len(s) + 1 \in 1 .. Len(s) + 1
      BY <1>2
    <3>2. QED
      BY <1>2, <3>1 DEF ToSet
  <2>5. QED
    BY <2>2, <2>3, <2>4
<1>4. t # <<>>
  BY <1>2
<1>5. t[1] = IF s = <<>> THEN e ELSE s[1]
  <2>1. CASE s = <<>>
    BY <1>2, <2>1
  <2>2. CASE s # <<>>
    <3>1. Len(s) # 0
      BY <2>2
    <3>2. 1 \in 1 .. Len(s)
      BY <1>2, <3>1
    <3>3. QED
      BY <1>2, <2>2, <3>2
  <2>3. QED
    BY <2>1, <2>2
<1>6. QED
  BY <1>2, <1>3, <1>4, <1>5

(* One more line of package_pins.csv.                                      *)
LEMMA OnePinMore ==
  ASSUME NEW lines, NEW n \in Nat \ {0}, NEW pins, IsPinsOf(lines, n - 1, pins),
         NEW result, result = ParsePackagePinCSVLine(n, lines[n], pins), result.status = "ok"
  PROVE  IsPinsOf(lines, n, result.value)
<1>1. CASE n = 1
  <2>1. result.value = pins
    BY <1>1 DEF ParsePackagePinCSVLine, Ok, Error
  <2>2. 2 .. n = {} /\ 2 .. n - 1 = {}
    BY <1>1
  <2>3. QED
    BY <2>1, <2>2 DEF IsPinsOf
<1>2. CASE n # 1
  <2>1. 2 .. n = 2 .. n - 1 \cup {n}
    BY <1>2
  <2>2. CASE ~ HasPin(lines[n])
    <3>1. result.value = pins
      BY <1>2, <2>2 DEF ParsePackagePinCSVLine, Ok, HasPin
    <3>2. QED
      BY <2>1, <2>2, <3>1 DEF IsPinsOf
  <2>3. CASE HasPin(lines[n])
    <3>1. /\ Len(Segments(lines[n])) = 5 /\ IsUint(Segments(lines[n])[2])
          /\ result.value = Append(pins, PinOf(lines[n]))
      BY <1>2, <2>3 DEF ParsePackagePinCSVLine, Ok, Error, HasPin, PinOf
    <3>0. PICK more, pin : more = result.value /\ pin = PinOf(lines[n])
      OBVIOUS
    <3>2. pins \in Seq(ToSet(pins)) /\ more = Append(pins, pin)
      BY <3>0, <3>1 DEF IsPinsOf
    <3>3. /\ more \in Seq(ToSet(more))
          /\ DOMAIN more = 1 .. Len(pins) + 1 /\ DOMAIN pins = 1 .. Len(pins)
          /\ Len(pins) \in Nat
          /\ \A k \in 1 .. Len(pins) : more[k] = pins[k]
          /\ more[Len(pins) + 1] = pin
      <4>1. more \in Seq(ToSet(more)) /\ Len(pins) \in Nat
        BY <3>2, AppendAdds
      <4>2. DOMAIN more = 1 .. Len(pins) + 1 /\ DOMAIN pins = 1 .. Len(pins)
        BY <3>2, AppendAdds
      <4>3. \A k \in 1 .. Len(pins) : more[k] = pins[k]
        BY <3>2, AppendAdds
      <4>4. more[Len(pins) + 1] = pin
        BY <3>2, AppendAdds
      <4>5. QED
        BY <4>1, <4>2, <4>3, <4>4
    <3>4. 1 .. Len(pins) + 1 = 1 .. Len(pins) \cup {Len(pins) + 1}
      BY <3>3
    <3>5. \A i \in 2 .. n : HasPin(lines[i]) =>
            Len(Segments(lines[i])) = 5 /\ IsUint(Segments(lines[i])[2])
      BY <2>1, <3>1 DEF IsPinsOf
    <3>6. ASSUME NEW k \in DOMAIN more
          PROVE  \E i \in 2 .. n : HasPin(lines[i]) /\ more[k] = PinOf(lines[i])
      <4>1. CASE k \in DOMAIN pins
        <5>1. PICK i \in 2 .. n - 1 : HasPin(lines[i]) /\ pins[k] = PinOf(lines[i])
          BY <4>1 DEF IsPinsOf
        <5>2. QED
          BY <2>1, <3>3, <4>1, <5>1
      <4>2. CASE k = Len(pins) + 1
        BY <2>1, <2>3, <3>0, <3>3, <4>2
      <4>3. QED
        BY <3>3, <3>4, <4>1, <4>2
    <3>7. ASSUME NEW i \in 2 .. n, HasPin(lines[i])
          PROVE  \E k \in DOMAIN more : more[k] = PinOf(lines[i])
      <4>1. CASE i \in 2 .. n - 1
        <5>1. PICK k \in DOMAIN pins : pins[k] = PinOf(lines[i])
          BY <3>7, <4>1 DEF IsPinsOf
        <5>2. QED
          BY <3>3, <3>4, <5>1
      <4>2. CASE i = n
        BY <3>0, <3>3, <3>4, <4>2
      <4>3. QED
        BY <2>1, <4>1, <4>2
    <3>8. QED
      BY <3>0, <3>3, <3>5, <3>6, <3>7 DEF IsPinsOf
  <2>4. QED
    BY <2>2, <2>3
<1>3. QED
  BY <1>1, <1>2

LEMMA PinsFile ==
  ASSUME BanksInv, step = "package_pins", File.state = "mapped"
  PROVE  /\ File = files.package_pins
         /\ Len(File.lines) \in Nat
         /\ line_number <= Len(File.lines) + 1
         /\ IsPinsOf(File.lines, line_number - 1, out)
<1>1. File = files.package_pins
  BY KindsAre DEF File
<1>2. File.lines \in Seq(ToSet(File.lines))
  BY <1>1, DatabasesAssumption DEF BanksInv
<1>3. \A lines : lines \in Seq(ToSet(lines)) => Len(lines) \in Nat
  OBVIOUS
<1>4. Len(File.lines) \in Nat
  BY <1>2, <1>3
<1>5. QED
  BY <1>1, <1>4 DEF BanksInv, PinsRead

LEMMA PinLineKeepsBanks ==
  ASSUME BanksInv, GenerateLine, step = "package_pins"
  PROVE  BanksInv'
<1>0. step \notin ToSet(Kinds) /\ step \notin {"registry"} \cup OpenSteps \cup Final
  BY KindsAre DEF OpenSteps, Final
<1>1. PICK lines, n : lines = files.package_pins.lines /\ n = line_number
  OBVIOUS
<1>2. /\ File.state = "mapped" /\ n <= Len(lines) /\ Len(lines) \in Nat /\ n \in Nat \ {0}
      /\ IsPinsOf(lines, n - 1, out) /\ File.lines = lines
  BY <1>1, PinsFile DEF GenerateLine, IsAtLine, BanksInv
<1>3. PICK result : result = ParsePackagePinCSVLine(n, lines[n], out)
  OBVIOUS
<1>4. UNCHANGED <<files, parsed, tile_to_banks, banks_to_tiles>>
  BY DEF GenerateLine, registry
<1>5. ParseLine(File.lines[line_number]) = result
  BY <1>1, <1>2, <1>3 DEF ParseLine
<1>6. CASE result.status # "ok"
  <2>1. step' = "failed" /\ UNCHANGED line_number
    BY <1>0, <1>5, <1>6 DEF GenerateLine, EndsAs, file
  <2>2. step' \in (Steps \cap Final) \ OpenSteps
    BY <2>1, KindsAre DEF Steps, Final, OpenSteps
  <2>3. QED
    BY <1>4, <2>1, <2>2, BanksKept DEF BanksInv
<1>7. CASE result.status = "ok"
  <2>1. step' = step /\ line_number' = n + 1 /\ out' = result.value
    BY <1>1, <1>5, <1>7 DEF GenerateLine, NextLine
  <2>2. IsPinsOf(lines, n, out')
    BY <1>2, <1>3, <1>7, <2>1, OnePinMore
  <2>3. OpenSteps' = OpenSteps /\ Final' = Final /\ Steps' = Steps
    BY DEF OpenSteps, Final, Steps, Kinds, YAMLSteps, LineSteps
  <2>4. n + 1 \in Nat \ {0} /\ n + 1 <= Len(lines) + 1 /\ (n + 1) - 1 = n
    BY <1>2
  <2>5. PinsRead'
    BY <1>0, <1>1, <1>4, <2>1, <2>2, <2>3, <2>4 DEF PinsRead
  <2>6. IOBanksRead'
    BY <1>4, <2>1, <2>3 DEF BanksInv, IOBanksRead, IOBankLocations
  <2>7. Registered'
    BY <1>0, <1>4, <2>1, <2>3 DEF BanksInv, Registered
  <2>8. QED
    BY <1>4, <2>1, <2>3, <2>4, <2>5, <2>6, <2>7 DEF BanksInv
<1>8. QED
  BY <1>6, <1>7

LEMMA EndOfPinsKeepsBanks ==
  ASSUME BanksInv, EndOfPins
  PROVE  BanksInv'
<1>1. /\ step = "package_pins" /\ File.state = "mapped" /\ line_number > Len(File.lines)
      /\ UNCHANGED <<files, tile_to_banks, banks_to_tiles>>
      /\ pending' = DOMAIN IOBankLocations
      /\ step' = "registry" /\ line_number' = 1
      /\ parsed' = [parsed EXCEPT !["package_pins"] = out]
  BY DEF EndOfPins, AtEndOfLines, StartOf, IOBankLocations, Parsed
<1>2. /\ {"part", "package_pins"} \subseteq DOMAIN parsed'
      /\ IOBankLocations' = IOBankLocations /\ Pins' = out
  BY <1>1 DEF BanksInv, IOBankLocations, Pins
<1>3. step \notin {"registry"} \cup OpenSteps \cup Final /\ "registry" \notin OpenSteps
  BY <1>1, KindsAre DEF OpenSteps, Final
<1>4. OpenSteps' = OpenSteps /\ Final' = Final /\ Steps' = Steps
  BY DEF OpenSteps, Final, Steps, Kinds, YAMLSteps, LineSteps
<1>5. IsPinsOf(files.package_pins.lines, Len(files.package_pins.lines), Pins')
  <2>1. /\ File = files.package_pins /\ Len(File.lines) \in Nat
        /\ line_number <= Len(File.lines) + 1
        /\ IsPinsOf(File.lines, line_number - 1, out) /\ line_number \in Nat
    BY <1>1, PinsFile DEF BanksInv
  <2>2. line_number - 1 = Len(File.lines)
    BY <1>1, <2>1
  <2>3. QED
    BY <1>2, <2>1, <2>2
<1>6. PinsRead'
  BY <1>1, <1>3, <1>4, <1>5 DEF PinsRead
<1>7. IOBanksRead'
  BY <1>1, <1>2, <1>4 DEF BanksInv, IOBanksRead
<1>8. Registered'
  <2>1. DOMAIN banks_to_tiles' = {} /\ DOMAIN tile_to_banks' = {}
    BY <1>1, <1>3 DEF BanksInv, Registered
  <2>2. 1 .. 1 - 1 = {}
    OBVIOUS
  <2>3. Registry(pending, line_number - 1)'
    BY <1>1, <1>2, <2>1, <2>2 DEF Registry, FirstBanks
  <2>4. line_number' <= Len(Pins') + 1
    <3>1. Pins' \in Seq(ToSet(Pins'))
      BY <1>5 DEF IsPinsOf
    <3>2. \A pins : pins \in Seq(ToSet(pins)) => 1 <= Len(pins) + 1
      OBVIOUS
    <3>3. QED
      BY <1>1, <3>1, <3>2
  <2>5. QED
    BY <1>1, <1>2, <1>3, <1>4, <2>3, <2>4 DEF Registered
<1>9. step' \in Steps' /\ line_number' \in Nat \ {0}
  BY <1>1 DEF Steps
<1>10. QED
  BY <1>1, <1>2, <1>6, <1>7, <1>8, <1>9 DEF BanksInv

-----------------------------------------------------------------------------
(* Registering a bank and a tile adds the pair, and no other; what is      *)
(* registered stays, and so does the first bank of a tile.                 *)
LEMMA RegisterAdds ==
  ASSUME FirstBanks, NEW bank, NEW tile, Register(bank, tile)
  PROVE  /\ FirstBanks' /\ IsRegistered(bank, tile)'
         /\ \A b, t : IsRegistered(b, t) => IsRegistered(b, t)'
         /\ \A b \in DOMAIN banks_to_tiles' : \A t \in banks_to_tiles'[b] :
              \/ b = bank /\ t = tile
              \/ b \in DOMAIN banks_to_tiles /\ t \in banks_to_tiles[b]
         /\ \A t \in DOMAIN tile_to_banks' : \A b \in ToSet(tile_to_banks'[t]) :
              \/ b = bank /\ t = tile
              \/ t \in DOMAIN tile_to_banks /\ b \in ToSet(tile_to_banks[t])
         /\ \A t \in DOMAIN tile_to_banks : tile_to_banks'[t][1] = tile_to_banks[t][1]
         /\ tile \notin DOMAIN tile_to_banks => tile_to_banks'[tile][1] = bank
         /\ DOMAIN banks_to_tiles' = DOMAIN banks_to_tiles \cup {bank}
<1> DEFINE old == IF tile \in DOMAIN tile_to_banks THEN tile_to_banks[tile] ELSE <<>>
           tiles == IF bank \in DOMAIN banks_to_tiles THEN banks_to_tiles[bank] ELSE {}
<1>1. PICK more : more = Append(old, bank)
  OBVIOUS
<1>2. /\ banks_to_tiles' = InsertOver(banks_to_tiles, bank, {tile} \cup tiles)
      /\ tile_to_banks' = InsertOver(tile_to_banks, tile, more)
  BY <1>1 DEF Register
<1>3. /\ DOMAIN banks_to_tiles' = DOMAIN banks_to_tiles \cup {bank}
      /\ banks_to_tiles'[bank] = {tile} \cup tiles
      /\ \A b \in DOMAIN banks_to_tiles : b # bank => banks_to_tiles'[b] = banks_to_tiles[b]
  BY <1>2 DEF InsertOver
<1>4. /\ DOMAIN tile_to_banks' = DOMAIN tile_to_banks \cup {tile}
      /\ tile_to_banks'[tile] = more
      /\ \A t \in DOMAIN tile_to_banks : t # tile => tile_to_banks'[t] = tile_to_banks[t]
  BY <1>2 DEF InsertOver
<1>5. old \in Seq(ToSet(old))
  <2>1. <<>> \in Seq(ToSet(<<>>))
    OBVIOUS
  <2>2. QED
    BY <2>1 DEF FirstBanks
<1>6. old # <<>> <=> tile \in DOMAIN tile_to_banks
  BY DEF FirstBanks
<1> HIDE DEF old, tiles
<1>7. more \in Seq(ToSet(more)) /\ more # <<>>
  BY <1>1, <1>5, AppendAdds
<1>8. ToSet(more) = ToSet(old) \cup {bank}
  BY <1>1, <1>5, AppendAdds
<1>9. more[1] = IF old = <<>> THEN bank ELSE old[1]
  BY <1>1, <1>5, AppendAdds
<1>10. ToSet(<<>>) = {}
  BY DEF ToSet
<1>11. FirstBanks'
  BY <1>4, <1>7 DEF FirstBanks
<1>12. IsRegistered(bank, tile)'
  BY <1>3, <1>4, <1>8 DEF IsRegistered
<1>13. ASSUME NEW b, NEW t, IsRegistered(b, t)
       PROVE  IsRegistered(b, t)'
  <2>1. b \in DOMAIN banks_to_tiles' /\ t \in banks_to_tiles'[b]
    BY <1>3, <1>13 DEF IsRegistered, tiles
  <2>2. t \in DOMAIN tile_to_banks' /\ b \in ToSet(tile_to_banks'[t])
    BY <1>4, <1>8, <1>13 DEF IsRegistered, old
  <2>3. QED
    BY <2>1, <2>2 DEF IsRegistered
<1>14. ASSUME NEW b \in DOMAIN banks_to_tiles', NEW t \in banks_to_tiles'[b]
       PROVE  \/ b = bank /\ t = tile
              \/ b \in DOMAIN banks_to_tiles /\ t \in banks_to_tiles[b]
  BY <1>3, <1>14 DEF tiles
<1>15. ASSUME NEW t \in DOMAIN tile_to_banks', NEW b \in ToSet(tile_to_banks'[t])
       PROVE  \/ b = bank /\ t = tile
              \/ t \in DOMAIN tile_to_banks /\ b \in ToSet(tile_to_banks[t])
  <2>1. CASE t # tile
    BY <1>4, <1>15, <2>1
  <2>2. CASE t = tile
    <3>1. b \in ToSet(old) \/ b = bank
      BY <1>4, <1>8, <1>15, <2>2
    <3>2. QED
      BY <1>10, <2>2, <3>1 DEF old
  <2>3. QED
    BY <2>1, <2>2
<1>16. \A t \in DOMAIN tile_to_banks : tile_to_banks'[t][1] = tile_to_banks[t][1]
  BY <1>4, <1>6, <1>9 DEF old
<1>17. tile \notin DOMAIN tile_to_banks => tile_to_banks'[tile][1] = bank
  BY <1>4, <1>6, <1>9
<1>18. QED
  BY <1>3, <1>11, <1>12, <1>13, <1>14, <1>15, <1>16, <1>17

(* The pins that have been read are a sequence.                            *)
LEMMA PinsAre ==
  ASSUME BanksInv, step \in {"registry"} \cup OpenSteps
  PROVE  /\ IsPinsOf(files.package_pins.lines, Len(files.package_pins.lines), Pins)
         /\ Len(Pins) \in Nat /\ DOMAIN Pins = 1 .. Len(Pins)
<1>1. IsPinsOf(files.package_pins.lines, Len(files.package_pins.lines), Pins)
  BY DEF BanksInv, PinsRead
<1>2. Pins \in Seq(ToSet(Pins))
  BY <1>1 DEF IsPinsOf
<1>3. \A pins : pins \in Seq(ToSet(pins)) => Len(pins) \in Nat /\ DOMAIN pins = 1 .. Len(pins)
  OBVIOUS
<1>4. QED
  BY <1>1, <1>2, <1>3

(* One more pair is due, and is registered.                                *)
LEMMA DueRegistered ==
  ASSUME NEW left, NEW n, NEW less, NEW more, Registry(left, n),
         UNCHANGED <<IOBankLocations, Pins>>,
         NEW bank, NEW tile, Register(bank, tile),
         \A b, t : IsDue(b, t, left, n) => IsDue(b, t, less, more),
         IsDue(bank, tile, less, more),
         \A b \in DOMAIN IOBankLocations \ less :
           b \in DOMAIN IOBankLocations \ left
             \/ (b = bank /\ tile = HclkTile(IOBankLocations[b])),
         \A b \in DOMAIN IOBankLocations \ less : b \notin DOMAIN IOBankLocations \ left =>
           \/ tile \notin DOMAIN tile_to_banks
           \/ tile_to_banks[tile][1] \in DOMAIN IOBankLocations,
         \A k \in 1 .. more : k \in 1 .. n \/ (Pins[k].bank = bank /\ Pins[k].tile = tile)
  PROVE  Registry(less, more)'
<1> USE DEF Registry
<1>1. FirstBanks' /\ IsRegistered(bank, tile)'
  BY RegisterAdds
<1>2. \A b, t : IsRegistered(b, t) => IsRegistered(b, t)'
  BY RegisterAdds
<1>3. \A b, t : IsDue(b, t, less, more)' <=> IsDue(b, t, less, more)
  BY DEF IsDue
<1>4. ASSUME NEW b \in DOMAIN banks_to_tiles', NEW t \in banks_to_tiles'[b]
      PROVE  IsDue(b, t, less, more)'
  <2>1. \/ b = bank /\ t = tile
        \/ b \in DOMAIN banks_to_tiles /\ t \in banks_to_tiles[b]
    BY <1>4, RegisterAdds
  <2>2. QED
    BY <1>3, <2>1
<1>5. ASSUME NEW t \in DOMAIN tile_to_banks', NEW b \in ToSet(tile_to_banks'[t])
      PROVE  IsDue(b, t, less, more)'
  <2>1. \/ b = bank /\ t = tile
        \/ t \in DOMAIN tile_to_banks /\ b \in ToSet(tile_to_banks[t])
    BY <1>5, RegisterAdds
  <2>2. QED
    BY <1>3, <2>1
<1>6. ASSUME NEW b \in DOMAIN IOBankLocations \ less
      PROVE  /\ IsRegistered(b, HclkTile(IOBankLocations[b]))'
             /\ tile_to_banks'[HclkTile(IOBankLocations[b])][1] \in DOMAIN IOBankLocations
  <2>1. CASE b \in DOMAIN IOBankLocations \ left
    <3>1. /\ IsRegistered(b, HclkTile(IOBankLocations[b]))
          /\ tile_to_banks[HclkTile(IOBankLocations[b])][1] \in DOMAIN IOBankLocations
      BY <2>1
    <3>2. HclkTile(IOBankLocations[b]) \in DOMAIN tile_to_banks
      BY <3>1 DEF IsRegistered
    <3>3. \A t \in DOMAIN tile_to_banks : tile_to_banks'[t][1] = tile_to_banks[t][1]
      BY RegisterAdds
    <3>4. PICK t : t = HclkTile(IOBankLocations[b])
      OBVIOUS
    <3>5. IsRegistered(b, t)'
      BY <1>2, <3>1, <3>4
    <3>6. QED
      BY <3>1, <3>2, <3>3, <3>4, <3>5
  <2>2. CASE b \notin DOMAIN IOBankLocations \ left
    <3>1. b = bank /\ tile = HclkTile(IOBankLocations[b])
      BY <1>6, <2>2
    <3>2. CASE tile \notin DOMAIN tile_to_banks
      <4>1. tile_to_banks'[tile][1] = bank
        BY <3>2, RegisterAdds
      <4>2. QED
        BY <1>1, <1>6, <3>1, <4>1
    <3>3. CASE tile \in DOMAIN tile_to_banks
      <4>1. tile_to_banks[tile][1] \in DOMAIN IOBankLocations
        BY <1>6, <2>2, <3>3
      <4>2. tile_to_banks'[tile][1] = tile_to_banks[tile][1]
        BY <3>3, RegisterAdds
      <4>3. QED
        BY <1>1, <3>1, <4>1, <4>2
    <3>4. QED
      BY <3>2, <3>3
  <2>3. QED
    BY <2>1, <2>2
<1>7. ASSUME NEW k \in 1 .. more
      PROVE  IsRegistered(Pins[k].bank, Pins[k].tile)'
  <2>1. PICK b, t : b = Pins[k].bank /\ t = Pins[k].tile
    OBVIOUS
  <2>2. IsRegistered(b, t)'
    BY <1>1, <1>2, <2>1
  <2>3. Pins'[k].bank = b /\ Pins'[k].tile = t
    BY <2>1
  <2>4. QED
    BY <2>2, <2>3
<1>8. QED
  BY <1>1, <1>4, <1>5, <1>6, <1>7

(* A step of Create keeps the files, and what has been read of them.       *)
LEMMA RegisteringKeepsBanks ==
  ASSUME BanksInv, step = "registry", UNCHANGED <<files, parsed>>,
         step' \in {"registry", "open"}, line_number' \in Nat \ {0}, Registered'
  PROVE  BanksInv'
<1>1. OpenSteps' = OpenSteps /\ Final' = Final /\ Steps' = Steps
  BY DEF OpenSteps, Final, Steps, Kinds, YAMLSteps, LineSteps
<1>2. UNCHANGED <<IOBankLocations, Pins>>
  BY DEF IOBankLocations, Pins
<1>3. PinsRead'
  BY <1>1, <1>2 DEF BanksInv, PinsRead
<1>4. IOBanksRead'
  BY <1>1, <1>2 DEF BanksInv, IOBanksRead
<1>5. step' \in Steps'
  BY <1>1 DEF Steps
<1>6. QED
  BY <1>3, <1>4, <1>5 DEF BanksInv

LEMMA RegisterIOBankKeepsBanks ==
  ASSUME BanksInv, RegisterIOBank
  PROVE  BanksInv'
<1>1. /\ step = "registry" /\ step' = step /\ UNCHANGED <<files, parsed, line_number>>
  BY DEF RegisterIOBank, file
<1>2. PICK bank \in pending :
        /\ Register(bank, HclkTile(IOBankLocations[bank]))
        /\ pending' = pending \ {bank}
  BY DEF RegisterIOBank, IOBankLocations
<1>3. UNCHANGED <<IOBankLocations, Pins>>
  BY <1>1 DEF IOBankLocations, Pins
<1>4. PICK left, less, tile :
        /\ left = pending /\ less = pending \ {bank}
        /\ tile = HclkTile(IOBankLocations[bank])
  OBVIOUS
<1>5. /\ line_number = 1 /\ left \subseteq DOMAIN IOBankLocations /\ Registry(left, 0)
      /\ line_number <= Len(Pins) + 1
  BY <1>1, <1>2, <1>4 DEF BanksInv, Registered
<1>6. 1 .. 0 = {}
  OBVIOUS
<1>7. ASSUME NEW b, NEW t
      PROVE  IsDue(b, t, left, 0) => IsDue(b, t, less, 0)
  BY <1>4, <1>6 DEF IsDue
<1>8. bank \in DOMAIN IOBankLocations \ less
  BY <1>2, <1>4, <1>5
<1>9. IsDue(bank, tile, less, 0)
  BY <1>4, <1>8 DEF IsDue
<1>10. \A b \in DOMAIN IOBankLocations \ less :
         b \in DOMAIN IOBankLocations \ left \/ (b = bank /\ tile = HclkTile(IOBankLocations[b]))
  BY <1>4
<1>11. tile \notin DOMAIN tile_to_banks \/ tile_to_banks[tile][1] \in DOMAIN IOBankLocations
  <2> SUFFICES ASSUME tile \in DOMAIN tile_to_banks
               PROVE  tile_to_banks[tile][1] \in DOMAIN IOBankLocations
    OBVIOUS
  <2>1. tile_to_banks[tile] \in Seq(ToSet(tile_to_banks[tile])) /\ tile_to_banks[tile] # <<>>
    BY <1>5 DEF Registry, FirstBanks
  <2>2. tile_to_banks[tile][1] \in ToSet(tile_to_banks[tile])
    <3>1. \A s : s \in Seq(ToSet(s)) /\ s # <<>> => s[1] \in ToSet(s)
      OBVIOUS
    <3>2. QED
      BY <2>1, <3>1
  <2>3. IsDue(tile_to_banks[tile][1], tile, left, 0)
    BY <1>5, <2>2 DEF Registry
  <2>4. QED
    BY <1>6, <2>3 DEF IsDue
<1>12. \A b \in DOMAIN IOBankLocations \ less : b \notin DOMAIN IOBankLocations \ left =>
         \/ tile \notin DOMAIN tile_to_banks
         \/ tile_to_banks[tile][1] \in DOMAIN IOBankLocations
  BY <1>11
<1>13. \A k \in 1 .. 0 : k \in 1 .. 0 \/ (Pins[k].bank = bank /\ Pins[k].tile = tile)
  OBVIOUS
<1>14. Register(bank, tile)
  BY <1>2, <1>4
<1>15. Registry(less, 0)'
  BY <1>3, <1>5, <1>7, <1>9, <1>10, <1>12, <1>13, <1>14, DueRegistered
<1>16. Registered'
  <2>1. Registry(pending, line_number - 1)'
    <3>1. line_number' - 1 = 0 /\ pending' = less
      BY <1>1, <1>2, <1>4, <1>5
    <3>2. QED
      BY <1>15, <3>1 DEF Registry, FirstBanks, IsDue, IsRegistered
  <2>2. pending' \subseteq DOMAIN IOBankLocations' /\ line_number' = 1
        /\ line_number' <= Len(Pins') + 1
    BY <1>1, <1>2, <1>3, <1>4, <1>5
  <2>3. step' \notin OpenSteps' /\ step' = "registry"
    BY <1>1, KindsAre DEF OpenSteps, Kinds
  <2>4. QED
    BY <2>1, <2>2, <2>3 DEF Registered
<1>17. line_number' \in Nat \ {0}
  BY <1>1 DEF BanksInv
<1>18. QED
  BY <1>1, <1>16, <1>17, RegisteringKeepsBanks

LEMMA RegisterPinKeepsBanks ==
  ASSUME BanksInv, RegisterPin
  PROVE  BanksInv'
<1>0. PICK n, k : n = line_number - 1 /\ k = line_number
  OBVIOUS
<1>1. /\ step = "registry" /\ step' = step /\ UNCHANGED <<files, parsed, pending>>
      /\ pending = {} /\ k <= Len(Pins) /\ line_number' = k + 1
      /\ Register(Pins[k].bank, Pins[k].tile)
  BY <1>0 DEF RegisterPin, NextLine, Pins
<1>2. UNCHANGED <<IOBankLocations, Pins>>
  BY <1>1 DEF IOBankLocations, Pins
<1>3. n \in Nat /\ k = n + 1 /\ k \in Nat
  BY <1>0 DEF BanksInv
<1>4. Registry({}, n)
  BY <1>0, <1>1 DEF BanksInv, Registered
<1>5. PICK bank, tile : bank = Pins[k].bank /\ tile = Pins[k].tile
  OBVIOUS
<1>6. 1 .. k = 1 .. n \cup {k}
  BY <1>3
<1>7. \A b, t : IsDue(b, t, {}, n) => IsDue(b, t, {}, k)
  BY <1>6 DEF IsDue
<1>8. IsDue(bank, tile, {}, k)
  BY <1>5, <1>6 DEF IsDue
<1>9. \A i \in 1 .. k : i \in 1 .. n \/ (Pins[i].bank = bank /\ Pins[i].tile = tile)
  BY <1>5, <1>6
<1>10. Register(bank, tile)
  BY <1>1, <1>5
<1>11. \A b \in DOMAIN IOBankLocations \ {} :
         b \in DOMAIN IOBankLocations \ {} \/ (b = bank /\ tile = HclkTile(IOBankLocations[b]))
  OBVIOUS
<1>12. \A b \in DOMAIN IOBankLocations \ {} : b \notin DOMAIN IOBankLocations \ {} =>
         \/ tile \notin DOMAIN tile_to_banks
         \/ tile_to_banks[tile][1] \in DOMAIN IOBankLocations
  OBVIOUS
<1>13. Registry({}, k)'
  BY <1>2, <1>4, <1>7, <1>8, <1>9, <1>10, <1>11, <1>12, DueRegistered
<1>14. Registered'
  <2>1. Registry(pending, line_number - 1)'
    <3>1. line_number' - 1 = k /\ pending' = {}
      BY <1>1, <1>3
    <3>2. QED
      BY <1>13, <3>1 DEF Registry, FirstBanks, IsDue, IsRegistered
  <2>2. line_number' <= Len(Pins') + 1
    <3>1. Len(Pins) \in Nat
      BY <1>1, PinsAre
    <3>2. QED
      BY <1>1, <1>2, <1>3, <3>1
  <2>3. step' \notin OpenSteps' /\ step' = "registry"
    BY <1>1, KindsAre DEF OpenSteps, Kinds
  <2>4. pending' = {}
    BY <1>1
  <2>5. QED
    BY <2>1, <2>2, <2>3, <2>4 DEF Registered
<1>15. line_number' \in Nat \ {0}
  BY <1>1, <1>3
<1>16. QED
  BY <1>1, <1>14, <1>15, RegisteringKeepsBanks

LEMMA OpenedKeepsBanks ==
  ASSUME BanksInv, Opened
  PROVE  BanksInv'
<1>1. /\ step = "registry" /\ step' = "open"
      /\ UNCHANGED <<files, parsed, line_number, pending, tile_to_banks, banks_to_tiles>>
      /\ pending = {} /\ line_number > Len(Pins)
  BY DEF Opened, EndsAs, file, registry, Pins
<1>2. UNCHANGED <<IOBankLocations, Pins>>
  BY <1>1 DEF IOBankLocations, Pins
<1>3. /\ line_number \in Nat /\ line_number <= Len(Pins) + 1
      /\ Registry({}, line_number - 1)
  BY <1>1 DEF BanksInv, Registered
<1>4. Len(Pins) \in Nat
  BY <1>1, PinsAre
<1>5. line_number - 1 = Len(Pins)
  BY <1>1, <1>3, <1>4
<1>6. PICK n : n = Len(Pins) /\ Registry({}, n)
  BY <1>3, <1>5
<1>7. Registry({}, Len(Pins))'
  <2>1. Registry({}, n)'
    BY <1>1, <1>2, <1>6, RegistryKept
  <2>2. QED
    BY <1>2, <1>6, <2>1
<1>8. Registered'
  <2>1. OpenSteps' = OpenSteps /\ "open" \in OpenSteps
    BY DEF OpenSteps, Kinds
  <2>2. QED
    BY <1>1, <1>7, <2>1 DEF Registered
<1>9. line_number' \in Nat \ {0}
  BY <1>1 DEF BanksInv
<1>10. QED
  BY <1>1, <1>8, <1>9, RegisteringKeepsBanks

(* Before part.json and package_pins.csv are read.                         *)
EarlySteps == {"mapping", "tilegrid", "index", "part"} \cup YAMLSteps

LEMMA EarlyKeepBanks ==
  ASSUME BanksInv, step \in EarlySteps, step' \in (EarlySteps \cup Final),
         UNCHANGED <<files, tile_to_banks, banks_to_tiles>>,
         {"part", "package_pins"} \subseteq DOMAIN parsed',
         parsed'.part = parsed.part, parsed'.package_pins = parsed.package_pins,
         line_number' \in Nat \ {0}
  PROVE  BanksInv'
<1>1. /\ step \notin {"registry"} \cup OpenSteps \cup Final
      /\ step' \in Steps \ {"package_pins", "registry"} /\ step' \notin OpenSteps
  BY KindsAre DEF EarlySteps, YAMLSteps, Steps, Final, OpenSteps
<1>2. QED
  BY <1>1, BanksKept

LEMMA OpenKeepsBanks ==
  ASSUME BanksInv, Open
  PROVE  BanksInv'
<1>0. /\ {"part", "package_pins"} \subseteq DOMAIN parsed /\ line_number \in Nat \ {0}
      /\ line_number + 1 \in Nat \ {0} /\ 1 \in Nat \ {0}
  BY DEF BanksInv
<1>1. CASE MapMapping
  BY <1>0, <1>1, EarlyKeepBanks DEF MapMapping, EndsAs, StartOf, EarlySteps, YAMLSteps, Final,
     file, registry
<1>2. CASE SkippedLine
  BY <1>0, <1>2, EarlyKeepBanks DEF SkippedLine, IsYAMLLine, NextLine, EarlySteps, registry
<1>3. CASE TopLine
  <2>1. step \in YAMLSteps /\ UNCHANGED <<files, parsed, tile_to_banks, banks_to_tiles>>
    BY <1>3 DEF TopLine, IsYAMLLine, registry
  <2>2. \/ step' = step /\ line_number' = line_number + 1
        \/ step' = "failed" /\ line_number' = line_number
    BY <1>3 DEF TopLine, NextLine, EndsAs, file
  <2>3. QED
    BY <1>0, <2>1, <2>2, EarlyKeepBanks DEF EarlySteps, Final
<1>4. CASE NestedLine
  <2>1. step \in YAMLSteps /\ UNCHANGED <<files, parsed, tile_to_banks, banks_to_tiles>>
    BY <1>4 DEF NestedLine, IsYAMLLine, registry
  <2>2. \/ step' = step /\ line_number' = line_number + 1
        \/ step' = "failed" /\ line_number' = line_number
    BY <1>4 DEF NestedLine, NextLine, EndsAs, file
  <2>3. QED
    BY <1>0, <2>1, <2>2, EarlyKeepBanks DEF EarlySteps, Final
<1>5. CASE EndOfDevices
  <2>1. step = "devices" /\ UNCHANGED <<files, tile_to_banks, banks_to_tiles>>
    BY <1>5 DEF EndOfDevices, AtEndOfYAML, registry
  <2>2. \/ step' = "parts" /\ line_number' = 1 /\ Parsed("fabrics", Sink.value)
        \/ step' = "failed" /\ line_number' = line_number /\ parsed' = parsed
    BY <1>5 DEF EndOfDevices, StartOf, EndsAs, file
  <2>3. /\ {"part", "package_pins"} \subseteq DOMAIN parsed'
        /\ parsed'.part = parsed.part /\ parsed'.package_pins = parsed.package_pins
    BY <1>0, <2>2, OtherNamesKept
  <2>4. QED
    BY <1>0, <2>1, <2>2, <2>3, EarlyKeepBanks DEF EarlySteps, Final, YAMLSteps
<1>6. CASE EndOfParts
  <2>1. step = "parts" /\ UNCHANGED <<files, tile_to_banks, banks_to_tiles>>
    BY <1>6 DEF EndOfParts, AtEndOfYAML, registry
  <2>2. \/ /\ step' = "tilegrid" /\ line_number' = 1
           /\ Parsed("info", Sink.value[files.part_name])
        \/ step' = "failed" /\ line_number' = line_number /\ parsed' = parsed
    BY <1>6 DEF EndOfParts, StartOf, EndsAs, file
  <2>3. /\ {"part", "package_pins"} \subseteq DOMAIN parsed'
        /\ parsed'.part = parsed.part /\ parsed'.package_pins = parsed.package_pins
    BY <1>0, <2>2, OtherNamesKept
  <2>4. QED
    BY <1>0, <2>1, <2>2, <2>3, EarlyKeepBanks DEF EarlySteps, Final, YAMLSteps
<1>7. CASE ParseTileGrid
  <2>0. PICK result : result = ParseTileGridJSON(File.json)
    OBVIOUS
  <2>1. /\ step = "tilegrid" /\ UNCHANGED <<files, tile_to_banks, banks_to_tiles>>
    BY <1>7 DEF ParseTileGrid, registry
  <2>2. \/ step' = "index" /\ line_number' = line_number /\ Parsed("tilegrid", result.value)
        \/ step' = Result(result) /\ line_number' = line_number /\ parsed' = parsed
    BY <1>7, <2>0 DEF ParseTileGrid, EndsAs, file
  <2>3. /\ {"part", "package_pins"} \subseteq DOMAIN parsed'
        /\ parsed'.part = parsed.part /\ parsed'.package_pins = parsed.package_pins
    BY <1>0, <2>2, OtherNamesKept
  <2>4. QED
    BY <1>0, <2>1, <2>2, <2>3, EarlyKeepBanks DEF EarlySteps, Final, Result
<1>8. CASE IndexTileTypes
  <2>1. /\ step = "index" /\ step' = "part"
        /\ UNCHANGED <<files, tile_to_banks, banks_to_tiles, line_number>>
    BY <1>8 DEF IndexTileTypes, EndsAs, file, registry
  <2>2. PICK paths : Parsed("paths", paths)
    BY <1>8 DEF IndexTileTypes
  <2>3. /\ {"part", "package_pins"} \subseteq DOMAIN parsed'
        /\ parsed'.part = parsed.part /\ parsed'.package_pins = parsed.package_pins
    BY <1>0, <2>2, OtherNamesKept
  <2>4. QED
    BY <1>0, <2>1, <2>3, EarlyKeepBanks DEF EarlySteps
<1>9. CASE CannotIndex
  BY <1>0, <1>9, EarlyKeepBanks DEF CannotIndex, EndsAs, file, registry, EarlySteps, Final
<1>10. CASE ParsePart
  BY <1>10, ParsePartKeepsBanks
<1>11. CASE EndOfPins
  BY <1>11, EndOfPinsKeepsBanks
<1>12. CASE RegisterIOBank
  BY <1>12, RegisterIOBankKeepsBanks
<1>13. CASE RegisterPin
  BY <1>13, RegisterPinKeepsBanks
<1>14. CASE Opened
  BY <1>14, OpenedKeepsBanks
<1>15. QED
  BY <1>1, <1>2, <1>3, <1>4, <1>5, <1>6, <1>7, <1>8, <1>9, <1>10, <1>11, <1>12, <1>13, <1>14
     DEF Open

(* Steps of requests, and those that end the program.                      *)
LEMMA LateKeepBanks ==
  ASSUME BanksInv, UNCHANGED <<files, parsed, tile_to_banks, banks_to_tiles>>,
         \/ step \in OpenSteps /\ step' \in OpenSteps
         \/ step' \in Final,
         line_number' \in Nat \ {0}
  PROVE  BanksInv'
<1>1. /\ step' \in Steps \ {"package_pins", "registry"}
      /\ step' \in OpenSteps => step \in OpenSteps
      /\ step' \notin OpenSteps \cup Final => step \notin {"registry"} \cup OpenSteps \cup Final
  BY KindsAre DEF OpenSteps, Final, Steps, LineSteps
<1>2. {"part", "package_pins"} \subseteq DOMAIN parsed'
  BY DEF BanksInv
<1>3. QED
  BY <1>1, <1>2, BanksKept

LEMMA ReadKeepsBanks ==
  ASSUME BanksInv, Read
  PROVE  BanksInv'
<1>0. line_number \in Nat \ {0} /\ line_number + 1 \in Nat \ {0} /\ 1 \in Nat \ {0}
  BY DEF BanksInv
<1> USE KindsAre
<1>1. CASE MissingFile
  <2>1. step' = IF step \in ToSet(Kinds) THEN "open" ELSE "failed"
    BY <1>1 DEF MissingFile, EndsAs
  <2>2. UNCHANGED <<files, parsed, tile_to_banks, banks_to_tiles, line_number>>
    BY <1>1 DEF MissingFile, EndsAs, file, registry
  <2>3. QED
    BY <1>0, <2>1, <2>2, LateKeepBanks DEF OpenSteps, Final
<1>2. CASE UnmappedFile
  BY <1>0, <1>2, LateKeepBanks DEF UnmappedFile, EndsAs, file, registry, Final
<1>3. CASE GenerateLine
  <2>1. CASE step = "package_pins"
    BY <1>3, <2>1, PinLineKeepsBanks
  <2>2. CASE step \in ToSet(Kinds)
    <3>1. UNCHANGED <<files, parsed, tile_to_banks, banks_to_tiles>>
      BY <1>3 DEF GenerateLine, registry
    <3>2. \/ step' = step /\ line_number' = line_number + 1
          \/ step' = "open" /\ line_number' = line_number
      BY <1>3, <2>2 DEF GenerateLine, NextLine, EndsAs, file
    <3>3. QED
      BY <1>0, <2>2, <3>1, <3>2, LateKeepBanks DEF OpenSteps
  <2>3. step \in LineSteps
    BY <1>3 DEF GenerateLine, IsAtLine
  <2>4. QED
    BY <2>1, <2>2, <2>3 DEF LineSteps
<1>4. CASE OverrunPage
  BY <1>0, <1>4, LateKeepBanks DEF OverrunPage, EndsAs, file, registry, Final
<1>5. CASE UnknownFile
  <2>1. step \in ToSet(Kinds) /\ step' = AfterKind /\ line_number' = 1
        /\ UNCHANGED <<files, parsed, tile_to_banks, banks_to_tiles>>
    BY <1>5 DEF UnknownFile, StartOf, registry
  <2>2. QED
    BY <1>0, <2>1, LateKeepBanks DEF OpenSteps, AfterKind
<1>6. CASE EndOfTileTypeFile
  <2>1. step \in ToSet(Kinds) /\ step' = AfterKind /\ line_number' = 1
        /\ UNCHANGED <<files, parsed, tile_to_banks, banks_to_tiles>>
    BY <1>6 DEF EndOfTileTypeFile, StartOf, registry
  <2>2. QED
    BY <1>0, <2>1, LateKeepBanks DEF OpenSteps, AfterKind
<1>7. CASE InsertTileType
  <2>1. step = "insert" /\ step' = "open" /\ line_number' = line_number
        /\ UNCHANGED <<files, parsed, tile_to_banks, banks_to_tiles>>
    BY <1>7 DEF InsertTileType, EndsAs, file, registry
  <2>2. QED
    BY <1>0, <2>1, LateKeepBanks DEF OpenSteps
<1>8. QED
  BY <1>1, <1>2, <1>3, <1>4, <1>5, <1>6, <1>7 DEF Read

LEMMA RequestKeepsBanks ==
  ASSUME BanksInv, AddSegbitsToCache
  PROVE  BanksInv'
<1>1. step = "open" /\ step' = "ppips" /\ line_number' = 1
      /\ UNCHANGED <<files, parsed, tile_to_banks, banks_to_tiles>>
  BY DEF AddSegbitsToCache, StartOf, registry
<1>2. QED
  BY <1>1, KindsAre, LateKeepBanks DEF OpenSteps

LEMMA StaysKeepBanks ==
  ASSUME BanksInv, RemoveFiles \/ UNCHANGED vars
  PROVE  BanksInv'
<1>1. UNCHANGED <<files, step, line_number, out, parsed, pending, tile_to_banks, banks_to_tiles>>
  BY DEF RemoveFiles, vars, file, registry
<1>2. OpenSteps' = OpenSteps /\ Final' = Final /\ Steps' = Steps
  BY DEF OpenSteps, Final, Steps, Kinds, YAMLSteps, LineSteps
<1>3. UNCHANGED <<IOBankLocations, Pins>>
  BY <1>1 DEF IOBankLocations, Pins
<1>4. PinsRead' /\ IOBanksRead'
  BY <1>1, <1>2, <1>3 DEF BanksInv, PinsRead, IOBanksRead
<1>5. PICK left, n, all : left = pending /\ n = line_number - 1 /\ all = Len(Pins)
  OBVIOUS
<1>6. /\ Registry(left, n)' <=> Registry(left, n)
      /\ Registry({}, all)' <=> Registry({}, all)
  BY <1>1, <1>3, RegistryKept
<1>7. Registered'
  BY <1>1, <1>2, <1>3, <1>5, <1>6 DEF BanksInv, Registered
<1>8. QED
  BY <1>1, <1>2, <1>4, <1>7 DEF BanksInv

(* The two ways of IsBankOf.                                               *)
IsIOBankOf(bank, tile) ==
  LET iobanks == files.part.json[2][Member(files.part.json, "iobanks")].value[2]
  IN /\ Member(files.part.json, "iobanks") # 0
     /\ \E i \in DOMAIN iobanks :
          /\ Atoi[iobanks[i].name] = bank
          /\ tile = HclkTile(iobanks[i].value[2])
          /\ \A j \in 1 .. i - 1 : Atoi[iobanks[j].name] # bank

IsPinBankOf(bank, tile) ==
  \E i \in 2 .. Len(files.package_pins.lines) :
    LET columns == Segments(files.package_pins.lines[i])
    IN Len(columns) = 5 /\ Atoi[columns[2]] = bank /\ columns[4] = tile

(* What the registry has is what the files say.                            *)
LEMMA IOBanksAre ==
  ASSUME BanksInv, step \in OpenSteps, NEW bank, NEW tile
  PROVE  (bank \in DOMAIN IOBankLocations /\ tile = HclkTile(IOBankLocations[bank])) <=>
           IsIOBankOf(bank, tile)
<1> USE DEF IsIOBankOf
<1>1. PICK at : at = Member(files.part.json, "iobanks")
  OBVIOUS
<1>2. PICK members : members = files.part.json[2][at].value[2]
  OBVIOUS
<1>3. /\ at = 0 => IOBankLocations = <<>>
      /\ at # 0 => IsBanksOf(members, Len(members), IOBankLocations) /\ Len(members) \in Nat
                   /\ DOMAIN members = 1 .. Len(members)
  BY <1>1, <1>2 DEF BanksInv, IOBanksRead
<1>4. CASE at = 0
  <2>1. DOMAIN IOBankLocations = {}
    BY <1>3, <1>4
  <2>2. QED
    BY <1>1, <1>4, <2>1
<1>5. CASE at # 0
  <2>1. /\ DOMAIN IOBankLocations = {Atoi[members[i].name] : i \in DOMAIN members}
        /\ \A b \in DOMAIN IOBankLocations : \E i \in DOMAIN members :
             /\ Atoi[members[i].name] = b
             /\ IOBankLocations[b] = members[i].value[2]
             /\ \A j \in 1 .. i - 1 : Atoi[members[j].name] # b
        /\ DOMAIN members = 1 .. Len(members) /\ Len(members) \in Nat
    BY <1>3, <1>5 DEF IsBanksOf
  <2>2. ASSUME bank \in DOMAIN IOBankLocations, tile = HclkTile(IOBankLocations[bank])
        PROVE  \E i \in DOMAIN members :
                 /\ Atoi[members[i].name] = bank
                 /\ tile = HclkTile(members[i].value[2])
                 /\ \A j \in 1 .. i - 1 : Atoi[members[j].name] # bank
    BY <2>1, <2>2
  <2>3. ASSUME NEW i \in DOMAIN members, Atoi[members[i].name] = bank,
               tile = HclkTile(members[i].value[2]),
               \A j \in 1 .. i - 1 : Atoi[members[j].name] # bank
        PROVE  bank \in DOMAIN IOBankLocations /\ tile = HclkTile(IOBankLocations[bank])
    <3>1. bank \in DOMAIN IOBankLocations
      BY <2>1, <2>3
    <3>2. PICK f \in DOMAIN members :
            /\ Atoi[members[f].name] = bank
            /\ IOBankLocations[bank] = members[f].value[2]
            /\ \A j \in 1 .. f - 1 : Atoi[members[j].name] # bank
      BY <2>1, <3>1
    <3>3. ~ (f \in 1 .. i - 1) /\ ~ (i \in 1 .. f - 1)
      BY <2>3, <3>2
    <3>4. i = f
      <4>1. i \in 1 .. Len(members) /\ f \in 1 .. Len(members)
        BY <2>1
      <4>2. QED
        BY <2>1, <3>3, <4>1
    <3>5. QED
      BY <2>3, <3>1, <3>2, <3>4
  <2>4. QED
    BY <1>1, <1>2, <1>5, <2>2, <2>3
<1>6. QED
  BY <1>4, <1>5

LEMMA PinsAreInLines ==
  ASSUME BanksInv, step \in OpenSteps, NEW bank, NEW tile
  PROVE  (\E k \in 1 .. Len(Pins) : Pins[k].bank = bank /\ Pins[k].tile = tile) <=>
           IsPinBankOf(bank, tile)
<1> USE DEF IsPinBankOf
<1>1. PICK lines : lines = files.package_pins.lines
  OBVIOUS
<1>2. /\ IsPinsOf(lines, Len(lines), Pins)
      /\ DOMAIN Pins = 1 .. Len(Pins)
  BY <1>1, PinsAre
<1>3. ASSUME NEW k \in 1 .. Len(Pins), Pins[k].bank = bank, Pins[k].tile = tile
      PROVE  \E i \in 2 .. Len(lines) :
               Len(Segments(lines[i])) = 5 /\ Atoi[Segments(lines[i])[2]] = bank
               /\ Segments(lines[i])[4] = tile
  <2>1. PICK i \in 2 .. Len(lines) : HasPin(lines[i]) /\ Pins[k] = PinOf(lines[i])
    BY <1>2 DEF IsPinsOf
  <2>2. Len(Segments(lines[i])) = 5
    BY <1>2, <2>1 DEF IsPinsOf
  <2>3. Pins[k].bank = Atoi[Segments(lines[i])[2]] /\ Pins[k].tile = Segments(lines[i])[4]
    BY <2>1 DEF PinOf
  <2>4. QED
    BY <1>3, <2>2, <2>3
<1>4. ASSUME NEW i \in 2 .. Len(lines), Len(Segments(lines[i])) = 5,
             Atoi[Segments(lines[i])[2]] = bank, Segments(lines[i])[4] = tile
      PROVE  \E k \in 1 .. Len(Pins) : Pins[k].bank = bank /\ Pins[k].tile = tile
  <2>1. HasPin(lines[i])
    <3>1. Len(<<>>) # 5
      OBVIOUS
    <3>2. QED
      BY <1>4, <3>1 DEF HasPin
  <2>2. PICK k \in DOMAIN Pins : Pins[k] = PinOf(lines[i])
    BY <1>2, <2>1 DEF IsPinsOf
  <2>3. Pins[k].bank = bank /\ Pins[k].tile = tile
    BY <1>4, <2>2 DEF PinOf
  <2>4. QED
    BY <1>2, <2>3
<1>5. QED
  BY <1>1, <1>3, <1>4

LEMMA BanksAgreeIn ==
  ASSUME BanksInv
  PROVE  BanksAgree
<1> SUFFICES ASSUME step = "open" PROVE BanksAgree
  BY DEF BanksAgree
<1>1. step \in OpenSteps
  BY DEF OpenSteps
<1>2. Registry({}, Len(Pins))
  BY <1>1 DEF BanksInv, Registered
<1>3. ASSUME NEW i \in 2 .. Len(files.package_pins.lines),
             Segments(files.package_pins.lines[i]) # <<>>
      PROVE  /\ Len(Segments(files.package_pins.lines[i])) = 5
             /\ IsUint(Segments(files.package_pins.lines[i])[2])
  BY <1>1, <1>3, PinsAre DEF IsPinsOf, HasPin
<1>4. ASSUME NEW bank, NEW tile
      PROVE  IsDue(bank, tile, {}, Len(Pins)) <=> IsRegistered(bank, tile)
  BY <1>2 DEF Registry, IsDue, IsRegistered
<1>5. ASSUME NEW bank, NEW tile
      PROVE  IsDue(bank, tile, {}, Len(Pins)) <=> IsBankOf(bank, tile)
  <2>1. IsDue(bank, tile, {}, Len(Pins)) <=>
          \/ bank \in DOMAIN IOBankLocations /\ tile = HclkTile(IOBankLocations[bank])
          \/ \E k \in 1 .. Len(Pins) : Pins[k].bank = bank /\ Pins[k].tile = tile
    BY DEF IsDue
  <2>2. IsBankOf(bank, tile) <=> IsIOBankOf(bank, tile) \/ IsPinBankOf(bank, tile)
    BY Zenon DEF IsBankOf, IsIOBankOf, IsPinBankOf
  <2>3. /\ (bank \in DOMAIN IOBankLocations /\ tile = HclkTile(IOBankLocations[bank]))
              <=> IsIOBankOf(bank, tile)
        /\ (\E k \in 1 .. Len(Pins) : Pins[k].bank = bank /\ Pins[k].tile = tile)
              <=> IsPinBankOf(bank, tile)
    BY <1>1, IOBanksAre, PinsAreInLines
  <2>4. QED
    BY <2>1, <2>2, <2>3
<1>6. ASSUME NEW bank \in DOMAIN banks_to_tiles, NEW tile \in banks_to_tiles[bank]
      PROVE  tile \in DOMAIN tile_to_banks /\ bank \in ToSet(tile_to_banks[tile])
  BY <1>2, <1>4 DEF Registry, IsRegistered
<1>7. ASSUME NEW tile \in DOMAIN tile_to_banks, NEW bank \in ToSet(tile_to_banks[tile])
      PROVE  bank \in DOMAIN banks_to_tiles /\ tile \in banks_to_tiles[bank]
  BY <1>2, <1>4 DEF Registry, IsRegistered
<1>8. ASSUME NEW bank, NEW tile \in DOMAIN tile_to_banks
      PROVE  IsBankOf(bank, tile) <=> bank \in ToSet(tile_to_banks[tile])
  <2>1. bank \in ToSet(tile_to_banks[tile]) <=> IsRegistered(bank, tile)
    BY <1>7 DEF IsRegistered
  <2>2. QED
    BY <1>4, <1>5, <2>1
<1>9. ASSUME NEW tile \in DOMAIN tile_to_banks, NEW bank \in DOMAIN parsed.part.iobanks,
             tile = HclkTile(parsed.part.iobanks[bank])
      PROVE  tile_to_banks[tile][1] \in DOMAIN parsed.part.iobanks
  BY <1>2, <1>9 DEF Registry, IOBankLocations
<1>10. QED
  BY <1>3, <1>6, <1>7, <1>8, <1>9 DEF BanksAgree

(* In an open database, banks and tiles have each other as part.json and   *)
(* package_pins.csv say.                                                   *)
THEOREM BanksOfBothFiles == Spec => []BanksAgree
<1>1. BanksInv /\ [Next]_vars => BanksInv'
  BY OpenKeepsBanks, ReadKeepsBanks, RequestKeepsBanks, StaysKeepBanks DEF Next
<1>2. QED
  BY BanksInit, BanksAgreeIn, <1>1, PTL DEF Spec

-----------------------------------------------------------------------------
(* Types, as far as they do not follow from the other invariants.          *)
OtherTypes ==
  /\ DOMAIN segments \subseteq ToSet(Kinds)
  /\ pending \subseteq 0 .. UintLimit - 1
  /\ DOMAIN banks_to_tiles \subseteq 0 .. UintLimit - 1
  /\ gone \in BOOLEAN

TypeInv == CacheInv /\ BanksInv /\ OtherTypes

LEMMA TypesIn ==
  ASSUME TypeInv
  PROVE  TypeOK
<1>1. step \in Steps /\ line_number \in Nat \ {0}
  BY DEF TypeInv, BanksInv
<1>2. /\ DOMAIN parsed.paths \subseteq TileTypes
      /\ \A type \in DOMAIN parsed.paths : parsed.paths[type].found \subseteq ToSet(Kinds)
  BY DEF TypeInv, CacheInv, Indexed, TileTypes
<1>3. DOMAIN segment_bits_cache \subseteq TileTypes
  BY <1>2 DEF TypeInv, CacheInv, AllCached
<1>4. QED
  BY <1>1, <1>2, <1>3 DEF TypeInv, OtherTypes, TypeOK

LEMMA OtherTypesInit == Init => OtherTypes
<1> SUFFICES ASSUME Init PROVE OtherTypes
  OBVIOUS
<1>1. pending = {} /\ banks_to_tiles = <<>> /\ segments = <<>> /\ gone = FALSE
  BY DEF Init
<1>2. DOMAIN <<>> = {}
  OBVIOUS
<1>3. QED
  BY <1>1, <1>2 DEF OtherTypes

LEMMA BanksAreUint ==
  ASSUME BanksInv
  PROVE  /\ step \in {"package_pins", "registry"} =>
              DOMAIN IOBankLocations \subseteq 0 .. UintLimit - 1
         /\ step = "registry" =>
              \A k \in DOMAIN Pins : Pins[k].bank \in 0 .. UintLimit - 1
<1>1. ASSUME step \in {"package_pins", "registry"}
      PROVE  DOMAIN IOBankLocations \subseteq 0 .. UintLimit - 1
  <2>1. PICK at, members : /\ at = Member(files.part.json, "iobanks")
                           /\ members = files.part.json[2][at].value[2]
    OBVIOUS
  <2>2. /\ at = 0 => IOBankLocations = <<>>
        /\ at # 0 => IsBanksOf(members, Len(members), IOBankLocations)
    BY <1>1, <2>1 DEF BanksInv, IOBanksRead
  <2>3. DOMAIN <<>> = {}
    OBVIOUS
  <2>4. QED
    BY <2>2, <2>3 DEF IsBanksOf, IsUint
<1>2. ASSUME step = "registry", NEW k \in DOMAIN Pins
      PROVE  Pins[k].bank \in 0 .. UintLimit - 1
  <2>1. PICK lines : IsPinsOf(lines, Len(lines), Pins)
    BY <1>2, PinsAre
  <2>2. PICK i \in 2 .. Len(lines) : HasPin(lines[i]) /\ Pins[k] = PinOf(lines[i])
    BY <2>1 DEF IsPinsOf
  <2>3. IsUint(Segments(lines[i])[2])
    BY <2>1, <2>2 DEF IsPinsOf
  <2>4. QED
    BY <2>2, <2>3 DEF PinOf, IsUint
<1>3. QED
  BY <1>1, <1>2

LEMMA OtherTypesKept ==
  ASSUME TypeInv, [Next]_vars
  PROVE  OtherTypes'
<1> USE DEF TypeInv, OtherTypes
<1>0. ToSet(Kinds)' = ToSet(Kinds)
  BY DEF Kinds
<1>1. CASE EndOfPins
  <2>1. pending' = DOMAIN IOBankLocations /\ UNCHANGED <<segments, banks_to_tiles, gone>>
        /\ step = "package_pins"
    BY <1>1 DEF EndOfPins, IOBankLocations, cache
  <2>2. QED
    BY <1>0, <2>1, BanksAreUint
<1>2. CASE RegisterIOBank
  <2>1. PICK bank \in pending :
          /\ Register(bank, HclkTile(IOBankLocations[bank]))
          /\ pending' = pending \ {bank}
    BY <1>2 DEF RegisterIOBank, IOBankLocations
  <2>2. DOMAIN banks_to_tiles' = DOMAIN banks_to_tiles \cup {bank}
    BY <2>1 DEF Register, InsertOver
  <2>3. UNCHANGED <<segments, gone>>
    BY <1>2 DEF RegisterIOBank, cache
  <2>4. QED
    BY <1>0, <2>1, <2>2, <2>3
<1>3. CASE RegisterPin
  <2>1. /\ step = "registry" /\ line_number <= Len(Pins) /\ line_number \in Nat \ {0}
        /\ Register(Pins[line_number].bank, Pins[line_number].tile)
        /\ UNCHANGED <<segments, gone, pending>>
    BY <1>3 DEF RegisterPin, Pins, cache, BanksInv
  <2>2. line_number \in DOMAIN Pins
    BY <2>1, PinsAre
  <2>3. DOMAIN banks_to_tiles' = DOMAIN banks_to_tiles \cup {Pins[line_number].bank}
    BY <2>1 DEF Register, InsertOver
  <2>4. QED
    BY <1>0, <2>1, <2>2, <2>3, BanksAreUint
<1>4. CASE AddSegbitsToCache
  <2>1. segments' = <<>> /\ UNCHANGED <<pending, banks_to_tiles, gone>>
    BY <1>4 DEF AddSegbitsToCache, registry
  <2>2. DOMAIN <<>> = {}
    OBVIOUS
  <2>3. QED
    BY <1>0, <2>1, <2>2
<1>5. CASE EndOfTileTypeFile
  <2>1. /\ step \in ToSet(Kinds) /\ segments' = Insert(segments, step, out)
        /\ UNCHANGED <<pending, banks_to_tiles, gone>>
    BY <1>5 DEF EndOfTileTypeFile, registry
  <2>2. DOMAIN segments' = DOMAIN segments \cup {step}
    BY <2>1 DEF Insert
  <2>3. QED
    BY <1>0, <2>1, <2>2
<1>6. CASE RemoveFiles
  BY <1>0, <1>6 DEF RemoveFiles, registry, cache
<1>7. CASE UNCHANGED <<segments, pending, banks_to_tiles, gone>>
  BY <1>0, <1>7
<1>8. ASSUME Open, ~ EndOfPins, ~ RegisterIOBank, ~ RegisterPin
      PROVE  UNCHANGED <<segments, pending, banks_to_tiles, gone>>
  BY <1>8 DEF Open, MapMapping, SkippedLine, TopLine, NestedLine, EndOfDevices, EndOfParts,
     ParseTileGrid, IndexTileTypes, CannotIndex, ParsePart, Opened, registry, cache
<1>9. ASSUME Read, ~ EndOfTileTypeFile
      PROVE  UNCHANGED <<segments, pending, banks_to_tiles, gone>>
  BY <1>9 DEF Read, MissingFile, UnmappedFile, GenerateLine, OverrunPage, UnknownFile,
     InsertTileType, registry, cache
<1>10. UNCHANGED vars => UNCHANGED <<segments, pending, banks_to_tiles, gone>>
  BY DEF vars, registry, cache
<1>11. QED
  BY <1>1, <1>2, <1>3, <1>4, <1>5, <1>6, <1>7, <1>8, <1>9, <1>10 DEF Next

(* The variables have their types.                                         *)
THEOREM TypesOfLoading == Spec => []TypeOK
<1>1. Init => TypeInv
  BY CacheInit, BanksInit, OtherTypesInit DEF TypeInv
<1>2. TypeInv /\ [Next]_vars => TypeInv'
  <2> SUFFICES ASSUME TypeInv, [Next]_vars PROVE TypeInv'
    OBVIOUS
  <2>1. CacheInv'
    BY OpenKeeps, ReadKeeps, RequestKeeps, StaysKeep DEF Next, TypeInv
  <2>2. BanksInv'
    BY OpenKeepsBanks, ReadKeepsBanks, RequestKeepsBanks, StaysKeepBanks DEF Next, TypeInv
  <2>3. QED
    BY <2>1, <2>2, OtherTypesKept DEF TypeInv
<1>3. QED
  BY TypesIn, <1>1, <1>2, PTL DEF Spec

-----------------------------------------------------------------------------
(* The members of a JSON object, one after the other.                      *)

(* What the value of one more member gives: it is appended if the name is  *)
(* its index, or inserted with its name.                                   *)
Combined(result, in_order, m, r) ==
  IF result.status # "ok" THEN result
  ELSE IF in_order /\ ~ IsInt32(m.name) THEN Error
  ELSE IF in_order /\ Atoi[m.name] # Len(result.value) THEN Dies
  ELSE IF r.status # "ok" THEN r
  ELSE Ok(IF in_order THEN Append(result.value, r.value)
          ELSE Insert(result.value, m.name, r.value))

(* The loop, when of[i] is what the value of the i-th member gives.        *)
IsRun(after, in_order, members, of, n) ==
  after = [i \in 0 .. n |-> IF i = 0 THEN Ok(<<>>)
                            ELSE Combined(after[i - 1], in_order, members[i], of[i])]

IsResult(result, in_order, members, of) ==
  \E after : /\ IsRun(after, in_order, members, of, Len(members))
             /\ result = after[Len(members)]

LEMMA RunExists ==
  ASSUME NEW in_order, NEW members, NEW of, NEW n \in Nat
  PROVE  \E after : IsRun(after, in_order, members, of, n)
<1> DEFINE Step(r, i) == Combined(r, in_order, members[i], of[i])
           K == {k \in Nat : \E after : IsRun(after, in_order, members, of, k)}
<1>0. \A f, k : IsRun(f, in_order, members, of, k) <=>
                  f = [i \in 0 .. k |-> IF i = 0 THEN Ok(<<>>) ELSE Step(f[i - 1], i)]
  BY DEF IsRun
<1> HIDE DEF Step
<1>1. 0 \in K
  <2> DEFINE f == [i \in 0 .. 0 |-> Ok(<<>>)]
  <2>1. f = [i \in 0 .. 0 |-> IF i = 0 THEN Ok(<<>>) ELSE Step(f[i - 1], i)]
    OBVIOUS
  <2> HIDE DEF f
  <2>2. QED
    BY <1>0, <2>1
<1>2. ASSUME NEW k \in Nat, k \in K
      PROVE  k + 1 \in K
  <2>1. PICK f : IsRun(f, in_order, members, of, k)
    BY <1>2
  <2> DEFINE g == [i \in 0 .. k + 1 |-> IF i \in 0 .. k THEN f[i] ELSE Step(f[i - 1], i)]
  <2>2. \A i \in 0 .. k : f[i] = IF i = 0 THEN Ok(<<>>) ELSE Step(f[i - 1], i)
    BY <1>0, <2>1
  <2>3. \A i \in 0 .. k + 1 : g[i] = IF i = 0 THEN Ok(<<>>) ELSE Step(g[i - 1], i)
    <3> TAKE i \in 0 .. k + 1
    <3>1. i # 0 => i - 1 \in 0 .. k
      OBVIOUS
    <3>2. i # 0 => g[i - 1] = f[i - 1]
      BY <3>1
    <3>3. g[i] = IF i = 0 THEN Ok(<<>>) ELSE Step(f[i - 1], i)
      BY <2>2
    <3>4. QED
      BY <3>2, <3>3
  <2>4. g = [i \in DOMAIN g |-> g[i]] /\ DOMAIN g = 0 .. k + 1
    OBVIOUS
  <2> HIDE DEF g
  <2>5. g = [i \in 0 .. k + 1 |-> IF i = 0 THEN Ok(<<>>) ELSE Step(g[i - 1], i)]
    BY <2>3, <2>4
  <2>6. IsRun(g, in_order, members, of, k + 1)
    BY <2>5 DEF IsRun, Step
  <2>7. QED
    BY <2>6
<1>3. Nat \subseteq K
  <2> HIDE DEF K
  <2>1. QED
    BY <1>1, <1>2, NatSetInduction
<1>4. QED
  BY <1>3

(* The parsers of objects are such loops.                                  *)
Frames(json) == [i \in 1 .. Len(json[2]) |-> GetMember(json[2][i].value, "frame_count", Uint)]

LEMMA ColumnsAreResult ==
  ASSUME NEW json, Len(json[2]) \in Nat, IsObject(json)
  PROVE  IsResult(Columns(json), TRUE, json[2], Frames(json))
<1> DEFINE n == Len(json[2])
           Take(out_, m) ==
             IF ~ IsInt32(m.name) THEN Error
             ELSE IF Atoi[m.name] # Len(out_) THEN Dies
             ELSE Then(GetMember(m.value, "frame_count", Uint),
                       LAMBDA v : Ok(Append(out_, v)))
           Loop(f) ==
             f = [i \in 0 .. n |->
                    IF i = 0 THEN Ok(<<>>)
                    ELSE Then(f[i - 1], LAMBDA v : With(json[2][i], LAMBDA m : Take(v, m)))]
<1>1. Columns(json) = ForMembers(json, LAMBDA out_, m :
         IF ~ IsInt32(m.name) THEN Error
         ELSE IF Atoi[m.name] # Len(out_) THEN Dies
         ELSE Then(GetMember(m.value, "frame_count", Uint), LAMBDA v : Ok(Append(out_, v))))
  BY Zenon DEF Columns, InSequence
<1>2. Columns(json) = (CHOOSE f : Loop(f))[n]
  BY <1>1, Zenon DEF ForMembers
<1>3. ASSUME NEW f
      PROVE  Loop(f) <=> IsRun(f, TRUE, json[2], Frames(json), n)
  <2>1. ASSUME NEW i \in 0 .. n
        PROVE  (IF i = 0 THEN Ok(<<>>)
                ELSE Then(f[i - 1], LAMBDA v : With(json[2][i], LAMBDA m : Take(v, m))))
               = (IF i = 0 THEN Ok(<<>>)
                  ELSE Combined(f[i - 1], TRUE, json[2][i], Frames(json)[i]))
    <3> DEFINE m == json[2][i]
               got == GetMember(m.value, "frame_count", Uint)
    <3>1. CASE i = 0
      BY <3>1
    <3>2. CASE i # 0
      <4>1. Frames(json)[i] = got
        BY <3>2 DEF Frames
      <4>2. \A v : Take(v, m) = IF ~ IsInt32(m.name) THEN Error
                               ELSE IF Atoi[m.name] # Len(v) THEN Dies
                               ELSE IF got.status = "ok" THEN Ok(Append(v, got.value)) ELSE got
        BY DEF Then, With
      <4> HIDE DEF Take, got
      <4>3. Then(f[i - 1], LAMBDA v : With(json[2][i], LAMBDA x : Take(v, x)))
            = IF f[i - 1].status = "ok" THEN Take(f[i - 1].value, m) ELSE f[i - 1]
        BY DEF Then, With
      <4>4. QED
        BY <3>2, <4>1, <4>2, <4>3 DEF Combined
    <3>3. QED
      BY <3>1, <3>2
  <2>2. QED
    BY <2>1, Zenon DEF IsRun
<1> HIDE DEF Loop
<1>4. \E f : IsRun(f, TRUE, json[2], Frames(json), n)
  BY RunExists
<1>5. QED
  BY <1>2, <1>3, <1>4 DEF IsResult

BusColumns(json) ==
  [i \in 1 .. Len(json[2]) |->
     IF json[2][i].name \notin StringToConfigBusType THEN Error
     ELSE GetMember(json[2][i].value, "configuration_columns", Columns)]

LEMMA RowIsResult ==
  ASSUME NEW json, Len(json[2]) \in Nat, IsObject(json)
  PROVE  IsResult(Row(json), FALSE, json[2], BusColumns(json))
<1> DEFINE n == Len(json[2])
           Take(out_, m) ==
             IF m.name \notin StringToConfigBusType THEN Error
             ELSE Then(GetMember(m.value, "configuration_columns", Columns),
                       LAMBDA v : Ok(Insert(out_, m.name, v)))
           Loop(f) ==
             f = [i \in 0 .. n |->
                    IF i = 0 THEN Ok(<<>>)
                    ELSE Then(f[i - 1], LAMBDA v : With(json[2][i], LAMBDA m : Take(v, m)))]
<1>1. Row(json) = ForMembers(json, LAMBDA out_, m :
             IF m.name \notin StringToConfigBusType THEN Error
             ELSE Then(GetMember(m.value, "configuration_columns", Columns),
                       LAMBDA v : Ok(Insert(out_, m.name, v))))
  BY Zenon DEF Row
<1>2. Row(json) = (CHOOSE f : Loop(f))[n]
  BY <1>1, Zenon DEF ForMembers
<1>3. ASSUME NEW f
      PROVE  Loop(f) <=> IsRun(f, FALSE, json[2], BusColumns(json), n)
  <2>1. ASSUME NEW i \in 0 .. n
        PROVE  (IF i = 0 THEN Ok(<<>>)
                ELSE Then(f[i - 1], LAMBDA v : With(json[2][i], LAMBDA m : Take(v, m))))
               = (IF i = 0 THEN Ok(<<>>)
                  ELSE Combined(f[i - 1], FALSE, json[2][i], BusColumns(json)[i]))
    <3> DEFINE m == json[2][i]
               got == GetMember(m.value, "configuration_columns", Columns)
    <3>1. CASE i = 0
      BY <3>1
    <3>2. CASE i # 0
      <4>1. BusColumns(json)[i] = IF m.name \notin StringToConfigBusType THEN Error ELSE got
        BY <3>2 DEF BusColumns
      <4>2. \A v : Take(v, m) = IF m.name \notin StringToConfigBusType THEN Error
                               ELSE IF got.status = "ok" THEN Ok(Insert(v, m.name, got.value))
                               ELSE got
        BY DEF Then, With
      <4> HIDE DEF Take, got
      <4>3. Then(f[i - 1], LAMBDA v : With(json[2][i], LAMBDA x : Take(v, x)))
            = IF f[i - 1].status = "ok" THEN Take(f[i - 1].value, m) ELSE f[i - 1]
        BY DEF Then, With
      <4>4. QED
        BY <3>2, <4>1, <4>2, <4>3 DEF Combined, Error
    <3>3. QED
      BY <3>1, <3>2
  <2>2. QED
    BY <2>1, Zenon DEF IsRun
<1> HIDE DEF Loop
<1>4. \E f : IsRun(f, FALSE, json[2], BusColumns(json), n)
  BY RunExists
<1>5. QED
  BY <1>2, <1>3, <1>4 DEF IsResult

RowsOf(json) ==
  [i \in 1 .. Len(json[2]) |-> GetMember(json[2][i].value, "configuration_buses", Row)]

LEMMA RegionHalfIsResult ==
  ASSUME NEW json, Len(json[2]) \in Nat, IsObject(json)
  PROVE  IsResult(RegionHalf(json), TRUE, json[2], RowsOf(json))
<1> DEFINE n == Len(json[2])
           Take(out_, m) ==
             IF ~ IsInt32(m.name) THEN Error
             ELSE IF Atoi[m.name] # Len(out_) THEN Dies
             ELSE Then(GetMember(m.value, "configuration_buses", Row), LAMBDA v : Ok(Append(out_, v)))
           Loop(f) ==
             f = [i \in 0 .. n |->
                    IF i = 0 THEN Ok(<<>>)
                    ELSE Then(f[i - 1], LAMBDA v : With(json[2][i], LAMBDA m : Take(v, m)))]
<1>1. RegionHalf(json) = ForMembers(json, LAMBDA out_, m :
             IF ~ IsInt32(m.name) THEN Error
             ELSE IF Atoi[m.name] # Len(out_) THEN Dies
             ELSE Then(GetMember(m.value, "configuration_buses", Row), LAMBDA v : Ok(Append(out_, v))))
  BY Zenon DEF RegionHalf, InSequence
<1>2. RegionHalf(json) = (CHOOSE f : Loop(f))[n]
  BY <1>1, Zenon DEF ForMembers
<1>3. ASSUME NEW f
      PROVE  Loop(f) <=> IsRun(f, TRUE, json[2], RowsOf(json), n)
  <2>1. ASSUME NEW i \in 0 .. n
        PROVE  (IF i = 0 THEN Ok(<<>>)
                ELSE Then(f[i - 1], LAMBDA v : With(json[2][i], LAMBDA m : Take(v, m))))
               = (IF i = 0 THEN Ok(<<>>)
                  ELSE Combined(f[i - 1], TRUE, json[2][i], RowsOf(json)[i]))
    <3> DEFINE m == json[2][i]
               got == GetMember(m.value, "configuration_buses", Row)
    <3>1. CASE i = 0
      BY <3>1
    <3>2. CASE i # 0
      <4>1. RowsOf(json)[i] = got
        BY <3>2 DEF RowsOf
      <4>2. \A v : Take(v, m) = IF ~ IsInt32(m.name) THEN Error
                               ELSE IF Atoi[m.name] # Len(v) THEN Dies
                               ELSE IF got.status = "ok" THEN Ok(Append(v, got.value)) ELSE got
        BY DEF Then, With
      <4> HIDE DEF Take, got
      <4>3. Then(f[i - 1], LAMBDA v : With(json[2][i], LAMBDA x : Take(v, x)))
            = IF f[i - 1].status = "ok" THEN Take(f[i - 1].value, m) ELSE f[i - 1]
        BY DEF Then, With
      <4>4. QED
        BY <3>2, <4>1, <4>2, <4>3 DEF Combined, Error
    <3>3. QED
      BY <3>1, <3>2
  <2>2. QED
    BY <2>1, Zenon DEF IsRun
<1> HIDE DEF Loop
<1>4. \E f : IsRun(f, TRUE, json[2], RowsOf(json), n)
  BY RunExists
<1>5. QED
  BY <1>2, <1>3, <1>4 DEF IsResult

Blocks(json) ==
  [i \in 1 .. Len(json[2]) |->
     IF json[2][i].name \notin StringToConfigBusType THEN Error
     ELSE BitsBlock(json[2][i].value)]

LEMMA BitsAreResult ==
  ASSUME NEW json, Len(json[2]) \in Nat, IsObject(json)
  PROVE  IsResult(Bits(json), FALSE, json[2], Blocks(json))
<1> DEFINE n == Len(json[2])
           Take(out_, m) ==
             IF m.name \notin StringToConfigBusType THEN Error
             ELSE Then(BitsBlock(m.value),
                       LAMBDA v : Ok(Insert(out_, m.name, v)))
           Loop(f) ==
             f = [i \in 0 .. n |->
                    IF i = 0 THEN Ok(<<>>)
                    ELSE Then(f[i - 1], LAMBDA v : With(json[2][i], LAMBDA m : Take(v, m)))]
<1>1. Bits(json) = ForMembers(json, LAMBDA out_, m :
             IF m.name \notin StringToConfigBusType THEN Error
             ELSE Then(BitsBlock(m.value),
                       LAMBDA v : Ok(Insert(out_, m.name, v))))
  BY Zenon DEF Bits
<1>2. Bits(json) = (CHOOSE f : Loop(f))[n]
  BY <1>1, Zenon DEF ForMembers
<1>3. ASSUME NEW f
      PROVE  Loop(f) <=> IsRun(f, FALSE, json[2], Blocks(json), n)
  <2>1. ASSUME NEW i \in 0 .. n
        PROVE  (IF i = 0 THEN Ok(<<>>)
                ELSE Then(f[i - 1], LAMBDA v : With(json[2][i], LAMBDA m : Take(v, m))))
               = (IF i = 0 THEN Ok(<<>>)
                  ELSE Combined(f[i - 1], FALSE, json[2][i], Blocks(json)[i]))
    <3> DEFINE m == json[2][i]
               got == BitsBlock(m.value)
    <3>1. CASE i = 0
      BY <3>1
    <3>2. CASE i # 0
      <4>1. Blocks(json)[i] = IF m.name \notin StringToConfigBusType THEN Error ELSE got
        BY <3>2 DEF Blocks
      <4>2. \A v : Take(v, m) = IF m.name \notin StringToConfigBusType THEN Error
                               ELSE IF got.status = "ok" THEN Ok(Insert(v, m.name, got.value))
                               ELSE got
        BY DEF Then, With
      <4> HIDE DEF Take, got
      <4>3. Then(f[i - 1], LAMBDA v : With(json[2][i], LAMBDA x : Take(v, x)))
            = IF f[i - 1].status = "ok" THEN Take(f[i - 1].value, m) ELSE f[i - 1]
        BY DEF Then, With
      <4>4. QED
        BY <3>2, <4>1, <4>2, <4>3 DEF Combined, Error
    <3>3. QED
      BY <3>1, <3>2
  <2>2. QED
    BY <2>1, Zenon DEF IsRun
<1> HIDE DEF Loop
<1>4. \E f : IsRun(f, FALSE, json[2], Blocks(json), n)
  BY RunExists
<1>5. QED
  BY <1>2, <1>3, <1>4 DEF IsResult

Tiles(json) == [i \in 1 .. Len(json[2]) |-> UnmarshalTile(json[2][i].value)]

LEMMA TileGridIsResult ==
  ASSUME NEW json, Len(json[2]) \in Nat, IsObject(json)
  PROVE  IsResult(ParseTileGridJSON(json), FALSE, json[2], Tiles(json))
<1> DEFINE n == Len(json[2])
           Take(out_, m) ==
             Then(UnmarshalTile(m.value), LAMBDA v : Ok(Insert(out_, m.name, v)))
           Loop(f) ==
             f = [i \in 0 .. n |->
                    IF i = 0 THEN Ok(<<>>)
                    ELSE Then(f[i - 1], LAMBDA v : With(json[2][i], LAMBDA m : Take(v, m)))]
<1>1. ParseTileGridJSON(json) = ForMembers(json, LAMBDA out_, m :
             Then(UnmarshalTile(m.value), LAMBDA v : Ok(Insert(out_, m.name, v))))
  BY Zenon DEF ParseTileGridJSON
<1>2. ParseTileGridJSON(json) = (CHOOSE f : Loop(f))[n]
  BY <1>1, Zenon DEF ForMembers
<1>3. ASSUME NEW f
      PROVE  Loop(f) <=> IsRun(f, FALSE, json[2], Tiles(json), n)
  <2>1. ASSUME NEW i \in 0 .. n
        PROVE  (IF i = 0 THEN Ok(<<>>)
                ELSE Then(f[i - 1], LAMBDA v : With(json[2][i], LAMBDA m : Take(v, m))))
               = (IF i = 0 THEN Ok(<<>>)
                  ELSE Combined(f[i - 1], FALSE, json[2][i], Tiles(json)[i]))
    <3> DEFINE m == json[2][i]
               got == UnmarshalTile(m.value)
    <3>1. CASE i = 0
      BY <3>1
    <3>2. CASE i # 0
      <4>1. Tiles(json)[i] = got
        BY <3>2 DEF Tiles
      <4>2. \A v : Take(v, m) = IF got.status = "ok" THEN Ok(Insert(v, m.name, got.value)) ELSE got
        BY DEF Then, With
      <4> HIDE DEF Take, got
      <4>3. Then(f[i - 1], LAMBDA v : With(json[2][i], LAMBDA x : Take(v, x)))
            = IF f[i - 1].status = "ok" THEN Take(f[i - 1].value, m) ELSE f[i - 1]
        BY DEF Then, With
      <4>4. QED
        BY <3>2, <4>1, <4>2, <4>3 DEF Combined, Error
    <3>3. QED
      BY <3>1, <3>2
  <2>2. QED
    BY <2>1, Zenon DEF IsRun
<1> HIDE DEF Loop
<1>4. \E f : IsRun(f, FALSE, json[2], Tiles(json), n)
  BY RunExists
<1>5. QED
  BY <1>2, <1>3, <1>4 DEF IsResult

-----------------------------------------------------------------------------
(* What such a loop gives, if no member fails.                             *)

(* The first k values, in their order, under their index.                  *)
AreAppended(value, k, members, of) ==
  /\ value \in Seq(ToSet(value)) /\ Len(value) = k
  /\ \A i \in 1 .. k : /\ Atoi[members[i].name] = i - 1
                       /\ of[i].status = "ok" /\ value[i] = of[i].value

LEMMA OkHas == \A v : Ok(v).status = "ok" /\ Ok(v).value = v
  BY DEF Ok

LEMMA OneMoreAppended ==
  ASSUME NEW members, NEW of, NEW k \in Nat, NEW result, NEW m, m = members[k + 1],
         result.status = "ok" => AreAppended(result.value, k, members, of),
         Combined(result, TRUE, m, of[k + 1]).status = "ok"
  PROVE  AreAppended(Combined(result, TRUE, m, of[k + 1]).value, k + 1, members, of)
<1>1. /\ result.status = "ok" /\ Atoi[m.name] = Len(result.value)
      /\ of[k + 1].status = "ok"
      /\ Combined(result, TRUE, m, of[k + 1]) = Ok(Append(result.value, of[k + 1].value))
  BY DEF Combined, Error, Dies
<1> DEFINE s == result.value
           e == of[k + 1].value
           t == Append(s, e)
<1>2. Combined(result, TRUE, m, of[k + 1]).value = t
  BY <1>1, OkHas
<1>3. /\ s \in Seq(ToSet(s)) /\ Len(s) = k
      /\ \A i \in 1 .. k : /\ Atoi[members[i].name] = i - 1
                           /\ of[i].status = "ok" /\ s[i] = of[i].value
  BY <1>1 DEF AreAppended
<1>4. /\ t \in Seq(ToSet(t)) /\ Len(t) = k + 1 /\ t[k + 1] = e
      /\ \A i \in 1 .. k : t[i] = s[i]
  <2>1. PICK s0, e0, t0 : s0 = s /\ e0 = e /\ t0 = Append(s0, e0)
    OBVIOUS
  <2>2. s0 \in Seq(ToSet(s0))
    BY <1>3, <2>1
  <2>3. t0 = Append(s0, e0)
    BY <2>1
  <2>4. t0 \in Seq(ToSet(t0))
    BY <2>2, <2>3, AppendAdds
  <2>5. Len(t0) = Len(s0) + 1
    BY <2>2, <2>3, AppendAdds
  <2>6. t0[Len(s0) + 1] = e0
    BY <2>2, <2>3, AppendAdds
  <2>7. \A i \in 1 .. Len(s0) : t0[i] = s0[i]
    BY <2>2, <2>3, AppendAdds
  <2>8. s0 = s /\ e0 = e /\ t0 = t
    BY <2>1
  <2> HIDE DEF s, e, t
  <2>9. QED
    BY <1>3, <2>4, <2>5, <2>6, <2>7, <2>8
<1> HIDE DEF s, e, t
<1>5. ASSUME NEW i \in 1 .. k + 1
      PROVE  /\ Atoi[members[i].name] = i - 1
             /\ of[i].status = "ok" /\ t[i] = of[i].value
  <2>1. CASE i = k + 1
    BY <1>1, <1>3, <1>4, <2>1 DEF s, e
  <2>2. CASE i # k + 1
    <3>1. i \in 1 .. k
      BY <2>2
    <3>2. QED
      BY <1>3, <1>4, <3>1
  <2>3. QED
    BY <2>1, <2>2
<1>6. QED
  BY <1>2, <1>4, <1>5 DEF AreAppended

LEMMA AppendedAll ==
  ASSUME NEW members, Len(members) \in Nat, NEW of, NEW result,
         IsResult(result, TRUE, members, of), result.status = "ok"
  PROVE  AreAppended(result.value, Len(members), members, of)
<1>1. PICK n \in Nat : n = Len(members)
  OBVIOUS
<1>2. PICK after : IsRun(after, TRUE, members, of, n) /\ result = after[n]
  BY <1>1 DEF IsResult
<1>3. \A i \in 0 .. n : after[i] = IF i = 0 THEN Ok(<<>>)
                                   ELSE Combined(after[i - 1], TRUE, members[i], of[i])
  BY <1>2 DEF IsRun
<1> DEFINE K == {k \in Nat : k <= n /\ after[k].status = "ok" =>
                               AreAppended(after[k].value, k, members, of)}
<1>4. 0 \in K
  <2>1. after[0] = Ok(<<>>)
    <3>1. 0 \in 0 .. n
      OBVIOUS
    <3>2. QED
      BY <1>3, <3>1
  <2>2. AreAppended(<<>>, 0, members, of)
    <3>1. <<>> \in Seq(ToSet(<<>>)) /\ Len(<<>>) = 0 /\ 1 .. 0 = {}
      OBVIOUS
    <3>2. QED
      BY <3>1 DEF AreAppended
  <2>3. QED
    BY <2>1, <2>2 DEF Ok
<1>5. ASSUME NEW k \in Nat, k \in K
      PROVE  k + 1 \in K
  <2> SUFFICES ASSUME k + 1 <= n, after[k + 1].status = "ok"
               PROVE  AreAppended(after[k + 1].value, k + 1, members, of)
    OBVIOUS
  <2>1. k <= n /\ k + 1 \in 0 .. n /\ k + 1 # 0 /\ (k + 1) - 1 = k
    OBVIOUS
  <2>2. after[k + 1] = Combined(after[k], TRUE, members[k + 1], of[k + 1])
    BY <1>3, <2>1
  <2>3. after[k].status = "ok" => AreAppended(after[k].value, k, members, of)
    BY <1>5, <2>1
  <2>4. PICK before, m : before = after[k] /\ m = members[k + 1]
    OBVIOUS
  <2>5. /\ before.status = "ok" => AreAppended(before.value, k, members, of)
        /\ Combined(before, TRUE, m, of[k + 1]).status = "ok"
    BY <2>2, <2>3, <2>4
  <2>6. AreAppended(Combined(before, TRUE, m, of[k + 1]).value, k + 1, members, of)
    BY <2>4, <2>5, OneMoreAppended
  <2>7. QED
    BY <2>2, <2>4, <2>6
<1>6. Nat \subseteq K
  <2> HIDE DEF K
  <2>1. QED
    BY <1>4, <1>5, NatSetInduction
<1>7. n \in K
  BY <1>6
<1>8. QED
  BY <1>1, <1>2, <1>7

(* The first k values, each under its name if none before has the same.    *)
AreInserted(value, k, members, of) ==
  /\ DOMAIN value = {members[i].name : i \in 1 .. k}
  /\ \A i \in 1 .. k : of[i].status = "ok"
  /\ \A name \in DOMAIN value : \E i \in 1 .. k :
       /\ members[i].name = name /\ value[name] = of[i].value
       /\ \A j \in 1 .. i - 1 : members[j].name # name

LEMMA OneMoreInserted ==
  ASSUME NEW members, NEW of, NEW k \in Nat, NEW result, NEW m, m = members[k + 1],
         result.status = "ok" => AreInserted(result.value, k, members, of),
         Combined(result, FALSE, m, of[k + 1]).status = "ok"
  PROVE  AreInserted(Combined(result, FALSE, m, of[k + 1]).value, k + 1, members, of)
<1>1. /\ result.status = "ok" /\ of[k + 1].status = "ok"
      /\ Combined(result, FALSE, m, of[k + 1])
         = Ok(Insert(result.value, m.name, of[k + 1].value))
  BY DEF Combined, Error, Dies
<1> DEFINE s == result.value
           t == Insert(s, m.name, of[k + 1].value)
<1>2. Combined(result, FALSE, m, of[k + 1]).value = t
  BY <1>1, OkHas
<1>3. /\ DOMAIN s = {members[i].name : i \in 1 .. k}
      /\ \A i \in 1 .. k : of[i].status = "ok"
      /\ \A name \in DOMAIN s : \E i \in 1 .. k :
           /\ members[i].name = name /\ s[name] = of[i].value
           /\ \A j \in 1 .. i - 1 : members[j].name # name
  BY <1>1 DEF AreInserted
<1>4. /\ DOMAIN t = DOMAIN s \cup {m.name}
      /\ \A name \in DOMAIN s : t[name] = s[name]
      /\ m.name \notin DOMAIN s => t[m.name] = of[k + 1].value
  BY DEF Insert
<1> HIDE DEF s, t
<1>5. 1 .. k + 1 = 1 .. k \cup {k + 1}
  OBVIOUS
<1>6. DOMAIN t = {members[i].name : i \in 1 .. k + 1}
  BY <1>3, <1>4, <1>5
<1>7. \A i \in 1 .. k + 1 : of[i].status = "ok"
  BY <1>1, <1>3, <1>5
<1>8. ASSUME NEW name \in DOMAIN t
      PROVE  \E i \in 1 .. k + 1 :
               /\ members[i].name = name /\ t[name] = of[i].value
               /\ \A j \in 1 .. i - 1 : members[j].name # name
  <2>1. CASE name \in DOMAIN s
    <3>1. PICK i \in 1 .. k :
            /\ members[i].name = name /\ s[name] = of[i].value
            /\ \A j \in 1 .. i - 1 : members[j].name # name
      BY <1>3, <2>1
    <3>2. i \in 1 .. k + 1
      BY <1>5
    <3>3. QED
      BY <1>4, <2>1, <3>1, <3>2
  <2>2. CASE name \notin DOMAIN s
    <3>1. name = m.name /\ t[name] = of[k + 1].value
      BY <1>4, <2>2
    <3>2. \A j \in 1 .. (k + 1) - 1 : members[j].name # name
      BY <1>3, <2>2
    <3>3. k + 1 \in 1 .. k + 1
      OBVIOUS
    <3>4. QED
      BY <3>1, <3>2, <3>3
  <2>3. QED
    BY <2>1, <2>2
<1>9. QED
  BY <1>2, <1>6, <1>7, <1>8 DEF AreInserted

LEMMA InsertedAll ==
  ASSUME NEW members, Len(members) \in Nat, NEW of, NEW result,
         IsResult(result, FALSE, members, of), result.status = "ok"
  PROVE  AreInserted(result.value, Len(members), members, of)
<1>1. PICK n \in Nat : n = Len(members)
  OBVIOUS
<1>2. PICK after : IsRun(after, FALSE, members, of, n) /\ result = after[n]
  BY <1>1 DEF IsResult
<1>3. \A i \in 0 .. n : after[i] = IF i = 0 THEN Ok(<<>>)
                                   ELSE Combined(after[i - 1], FALSE, members[i], of[i])
  BY <1>2 DEF IsRun
<1> DEFINE K == {k \in Nat : k <= n /\ after[k].status = "ok" =>
                               AreInserted(after[k].value, k, members, of)}
<1>4. 0 \in K
  <2>1. after[0] = Ok(<<>>)
    <3>1. 0 \in 0 .. n
      OBVIOUS
    <3>2. QED
      BY <1>3, <3>1
  <2>2. AreInserted(<<>>, 0, members, of)
    <3>1. DOMAIN <<>> = {} /\ 1 .. 0 = {}
      OBVIOUS
    <3>2. QED
      BY <3>1 DEF AreInserted
  <2>3. QED
    BY <2>1, <2>2 DEF Ok
<1>5. ASSUME NEW k \in Nat, k \in K
      PROVE  k + 1 \in K
  <2> SUFFICES ASSUME k + 1 <= n, after[k + 1].status = "ok"
               PROVE  AreInserted(after[k + 1].value, k + 1, members, of)
    OBVIOUS
  <2>1. k <= n /\ k + 1 \in 0 .. n /\ k + 1 # 0 /\ (k + 1) - 1 = k
    OBVIOUS
  <2>2. after[k + 1] = Combined(after[k], FALSE, members[k + 1], of[k + 1])
    BY <1>3, <2>1
  <2>3. after[k].status = "ok" => AreInserted(after[k].value, k, members, of)
    BY <1>5, <2>1
  <2>4. PICK before, m : before = after[k] /\ m = members[k + 1]
    OBVIOUS
  <2>5. /\ before.status = "ok" => AreInserted(before.value, k, members, of)
        /\ Combined(before, FALSE, m, of[k + 1]).status = "ok"
    BY <2>2, <2>3, <2>4
  <2>6. AreInserted(Combined(before, FALSE, m, of[k + 1]).value, k + 1, members, of)
    BY <2>4, <2>5, OneMoreInserted
  <2>7. QED
    BY <2>2, <2>4, <2>6
<1>6. Nat \subseteq K
  <2> HIDE DEF K
  <2>1. QED
    BY <1>4, <1>5, NatSetInduction
<1>7. n \in K
  BY <1>6
<1>8. QED
  BY <1>1, <1>2, <1>7

(* The first member with a name is the one that is asked for.              *)
LEMMA FirstMember ==
  ASSUME NEW json, NEW name, json[2] \in Seq(ToSet(json[2])),
         NEW i \in 1 .. Len(json[2]), json[2][i].name = name,
         \A j \in 1 .. i - 1 : json[2][j].name # name
  PROVE  Member(json, name) = i /\ At(json, name) = json[2][i].value
<1> DEFINE I == {j \in 1 .. Len(json[2]) : json[2][j].name = name}
<1>1. Member(json, name) = IF I # {} THEN Min(I) ELSE 0
  BY DEF Member, SelectInSeq
<1>2. i \in I
  OBVIOUS
<1>3. ASSUME NEW j \in I PROVE i <= j /\ j \in Nat
  OBVIOUS
<1> HIDE DEF I
<1>4. Min(I) \in I /\ \A j \in I : Min(I) <= j
  BY <1>2, <1>3 DEF Min
<1>5. Min(I) = i
  <2>1. PICK least : least = Min(I)
    OBVIOUS
  <2>2. i <= least /\ least \in Nat /\ i \in Nat
    BY <1>2, <1>3, <1>4, <2>1
  <2>3. least <= i
    BY <1>2, <1>4, <2>1
  <2>4. QED
    BY <2>1, <2>2, <2>3
<1>6. QED
  BY <1>1, <1>2, <1>5 DEF At

-----------------------------------------------------------------------------
(* What is read of the members of an object.                               *)

(* A member that is there, and is an unsigned integer.                     *)
LEMMA GotUint ==
  ASSUME NEW json, NEW name, GetMember(json, name, Uint).status = "ok"
  PROVE  GetMember(json, name, Uint).value = At(json, name)[2]
<1> DEFINE got == GetMember(json, name, Uint)
           value == At(json, name)
<1>1. got = IF ~ IsObject(json) \/ Member(json, name) = 0 THEN Error ELSE Uint(value)
  BY DEF GetMember, With, At
<1>2. got.status = "ok"
  OBVIOUS
<1> HIDE DEF got, value
<1>3. got = Uint(value)
  BY <1>1, <1>2 DEF Error
<1>4. got = Ok(value[2])
  BY <1>2, <1>3 DEF Uint, Error
<1>5. QED
  BY <1>4, OkHas DEF got, value

LEMMA ColumnsRead ==
  ASSUME NEW json, AreSound({json}), Columns(json).status = "ok"
  PROVE  ColumnsAsWritten(Columns(json).value, json[2])
<1> DEFINE members == json[2]
<1>1. IsObject(json)
  BY DEF Columns, InSequence, Error
<1>2. members \in Seq(ToSet(members))
  BY <1>1 DEF AreSound
<1>3. PICK n \in Nat : n = Len(members)
  BY <1>2
<1>4. PICK result, of : result = Columns(json) /\ of = Frames(json)
  OBVIOUS
<1>5. IsResult(result, TRUE, members, of)
  BY <1>1, <1>3, <1>4, ColumnsAreResult
<1>6. AreAppended(result.value, n, members, of)
  BY <1>3, <1>4, <1>5, AppendedAll
<1>7. ASSUME NEW c \in DOMAIN result.value
      PROVE  \E column \in ToSet(members) :
               /\ Atoi[column.name] = c - 1
               /\ result.value[c] = At(column.value, "frame_count")[2]
  <2>1. c \in 1 .. n /\ 1 .. n = DOMAIN members
    BY <1>2, <1>3, <1>6 DEF AreAppended
  <2>2. /\ Atoi[members[c].name] = c - 1
        /\ of[c].status = "ok" /\ result.value[c] = of[c].value
    BY <1>6, <2>1 DEF AreAppended
  <2>3. of[c] = GetMember(members[c].value, "frame_count", Uint)
    BY <1>3, <1>4, <2>1 DEF Frames
  <2>4. of[c].value = At(members[c].value, "frame_count")[2]
    BY <2>2, <2>3, GotUint
  <2>5. members[c] \in ToSet(members)
    BY <2>1 DEF ToSet
  <2>6. QED
    BY <2>2, <2>4, <2>5
<1>8. QED
  BY <1>4, <1>7 DEF ColumnsAsWritten

LEMMA GotColumns ==
  ASSUME NEW json, NEW name, GetMember(json, name, Columns).status = "ok"
  PROVE  /\ IsObject(json) /\ Member(json, name) # 0
         /\ Columns(At(json, name)).status = "ok"
         /\ GetMember(json, name, Columns).value = Columns(At(json, name)).value
  BY DEF GetMember, With, Error, At

LEMMA GotSound ==
  ASSUME NEW values, NEW json \in values, NEW name,
         AreSound(values), IsObject(json), Member(json, name) # 0
  PROVE  At(json, name) \in Deeper(values)
<1>1. json[2] \in Seq(ToSet(json[2]))
  BY DEF AreSound
<1>2. Member(json, name) \in DOMAIN json[2]
  BY <1>1, MemberIsIn
<1>3. DOMAIN json[2] = 1 .. Len(json[2])
  BY <1>1
<1>4. QED
  BY <1>1, <1>2, <1>3, InValues DEF At

LEMMA OneSound ==
  ASSUME NEW values, AreSound(values), NEW json \in values
  PROVE  AreSound({json})
  BY DEF AreSound

LEMMA RowRead ==
  ASSUME NEW values, NEW json \in values, AreSound(Deeper(Deeper(values))),
         Row(json).status = "ok"
  PROVE  RowAsWritten(Row(json).value, json)
<1> DEFINE members == json[2]
<1>1. IsObject(json)
  BY DEF Row, Error
<1>2. AreSound(values) /\ AreSound(Deeper(values))
  BY DeeperSound
<1>3. members \in Seq(ToSet(members))
  BY <1>1, <1>2 DEF AreSound
<1>4. PICK n \in Nat : n = Len(members)
  BY <1>3
<1>5. PICK result, of : result = Row(json) /\ of = BusColumns(json)
  OBVIOUS
<1>6. IsResult(result, FALSE, members, of)
  BY <1>1, <1>4, <1>5, RowIsResult
<1>7. AreInserted(result.value, n, members, of)
  BY <1>4, <1>5, <1>6, InsertedAll
<1>8. ASSUME NEW bus \in DOMAIN result.value
      PROVE  ColumnsAsWritten(result.value[bus], At(At(json, bus), "configuration_columns")[2])
  <2>1. PICK i \in 1 .. n :
          /\ members[i].name = bus /\ result.value[bus] = of[i].value
          /\ \A j \in 1 .. i - 1 : members[j].name # bus
    BY <1>7 DEF AreInserted
  <2>2. of[i].status = "ok"
    BY <1>7 DEF AreInserted
  <2>3. PICK value : value = members[i].value
    OBVIOUS
  <2>4. of[i] = GetMember(value, "configuration_columns", Columns)
    BY <1>4, <1>5, <2>2, <2>3 DEF BusColumns, Error
  <2>5. At(json, bus) = value
    BY <1>3, <1>4, <2>1, <2>3, FirstMember
  <2>6. value \in Deeper(values)
    BY <1>1, <1>3, <1>4, <2>3, InValues
  <2>7. PICK columns : columns = At(value, "configuration_columns")
    OBVIOUS
  <2>8. /\ IsObject(value) /\ Member(value, "configuration_columns") # 0
        /\ Columns(columns).status = "ok" /\ of[i].value = Columns(columns).value
    BY <2>2, <2>4, <2>7, GotColumns
  <2>9. columns \in Deeper(Deeper(values))
    BY <1>2, <2>6, <2>7, <2>8, GotSound
  <2>10. AreSound({columns})
    BY <2>9, OneSound
  <2>11. ColumnsAsWritten(Columns(columns).value, columns[2])
    BY <2>8, <2>10, ColumnsRead
  <2>12. QED
    BY <2>1, <2>5, <2>7, <2>8, <2>11
<1>9. QED
  BY <1>5, <1>8 DEF RowAsWritten

LEMMA GotRow ==
  ASSUME NEW json, NEW name, GetMember(json, name, Row).status = "ok"
  PROVE  /\ IsObject(json) /\ Member(json, name) # 0
         /\ Row(At(json, name)).status = "ok"
         /\ GetMember(json, name, Row).value = Row(At(json, name)).value
  BY DEF GetMember, With, Error, At

LEMMA GotRegionHalf ==
  ASSUME NEW json, NEW name, GetMember(json, name, RegionHalf).status = "ok"
  PROVE  /\ IsObject(json) /\ Member(json, name) # 0
         /\ RegionHalf(At(json, name)).status = "ok"
         /\ GetMember(json, name, RegionHalf).value = RegionHalf(At(json, name)).value
  BY DEF GetMember, With, Error, At

LEMMA GotRows ==
  ASSUME NEW json, NEW name, GetMember(json, name, Rows).status = "ok"
  PROVE  /\ IsObject(json) /\ Member(json, name) # 0
         /\ Rows(At(json, name)).status = "ok"
         /\ GetMember(json, name, Rows).value = Rows(At(json, name)).value
  BY DEF GetMember, With, Error, At

LEMMA GotRegions ==
  ASSUME NEW json, NEW name, GetMember(json, name, GlobalClockRegions).status = "ok"
  PROVE  /\ IsObject(json) /\ Member(json, name) # 0
         /\ GlobalClockRegions(At(json, name)).status = "ok"
         /\ GetMember(json, name, GlobalClockRegions).value
            = GlobalClockRegions(At(json, name)).value
  BY DEF GetMember, With, Error, At

LEMMA RegionHalfRead ==
  ASSUME NEW values, NEW json \in values,
         AreSound(Deeper(Deeper(Deeper(Deeper(values))))),
         RegionHalf(json).status = "ok"
  PROVE  RowsAsWritten(RegionHalf(json).value, json[2])
<1> DEFINE members == json[2]
<1>1. IsObject(json)
  BY DEF RegionHalf, InSequence, Error
<1>2. AreSound(values) /\ AreSound(Deeper(values))
  BY DeeperSound
<1>3. members \in Seq(ToSet(members))
  BY <1>1, <1>2 DEF AreSound
<1>4. PICK n \in Nat : n = Len(members)
  BY <1>3
<1>5. PICK result, of : result = RegionHalf(json) /\ of = RowsOf(json)
  OBVIOUS
<1>6. IsResult(result, TRUE, members, of)
  BY <1>1, <1>4, <1>5, RegionHalfIsResult
<1>7. AreAppended(result.value, n, members, of)
  BY <1>4, <1>5, <1>6, AppendedAll
<1>8. ASSUME NEW r \in DOMAIN result.value
      PROVE  \E row \in ToSet(members) :
               /\ Atoi[row.name] = r - 1
               /\ RowAsWritten(result.value[r], At(row.value, "configuration_buses"))
  <2>1. r \in 1 .. n /\ 1 .. n = DOMAIN members
    BY <1>3, <1>4, <1>7 DEF AreAppended
  <2>2. /\ Atoi[members[r].name] = r - 1
        /\ of[r].status = "ok" /\ result.value[r] = of[r].value
    BY <1>7, <2>1 DEF AreAppended
  <2>3. PICK value : value = members[r].value
    OBVIOUS
  <2>4. of[r] = GetMember(value, "configuration_buses", Row)
    BY <1>4, <1>5, <2>1, <2>3 DEF RowsOf
  <2>5. value \in Deeper(values)
    BY <1>1, <1>3, <1>4, <2>1, <2>3, InValues
  <2>6. PICK buses : buses = At(value, "configuration_buses")
    OBVIOUS
  <2>7. /\ IsObject(value) /\ Member(value, "configuration_buses") # 0
        /\ Row(buses).status = "ok" /\ of[r].value = Row(buses).value
    BY <2>2, <2>4, <2>6, GotRow
  <2>8. buses \in Deeper(Deeper(values))
    BY <1>2, <2>5, <2>6, <2>7, GotSound
  <2>9. RowAsWritten(Row(buses).value, buses)
    BY <2>7, <2>8, RowRead
  <2>10. members[r] \in ToSet(members)
    BY <2>1 DEF ToSet
  <2>11. QED
    BY <2>2, <2>3, <2>6, <2>7, <2>9, <2>10
<1>9. Len(result.value) = Len(members)
  BY <1>4, <1>7 DEF AreAppended
<1>10. QED
  BY <1>5, <1>8, <1>9 DEF RowsAsWritten

LEMMA RowsRead ==
  ASSUME NEW values, NEW json \in values,
         AreSound(Deeper(Deeper(Deeper(Deeper(Deeper(values)))))), Rows(json).status = "ok"
  PROVE  RowsAsWritten(Rows(json).value, At(json, "rows")[2])
<1>1. PICK rows : rows = At(json, "rows")
  OBVIOUS
<1>2. /\ IsObject(json) /\ Member(json, "rows") # 0
      /\ RegionHalf(rows).status = "ok" /\ Rows(json).value = RegionHalf(rows).value
  BY <1>1, GotRegionHalf DEF Rows
<1>3. AreSound(values)
  BY DeeperSound
<1>4. rows \in Deeper(values)
  BY <1>1, <1>2, <1>3, GotSound
<1>5. RowsAsWritten(RegionHalf(rows).value, rows[2])
  BY <1>2, <1>4, RegionHalfRead
<1>6. QED
  BY <1>1, <1>2, <1>5

LEMMA RegionsAre ==
  ASSUME NEW json, GlobalClockRegions(json).status = "ok", NEW half \in {"bottom", "top"}
  PROVE  /\ GetMember(json, half, Rows).status = "ok"
         /\ GlobalClockRegions(json).value[half] = GetMember(json, half, Rows).value
<1> DEFINE bottom == GetMember(json, "bottom", Rows)
           top == GetMember(json, "top", Rows)
           Inner(b) == Then(top, LAMBDA t : Ok([bottom |-> b, top |-> t]))
<1>1. GlobalClockRegions(json) = Then(bottom, LAMBDA b : Inner(b))
  BY Zenon DEF GlobalClockRegions
<1> HIDE DEF bottom, top
<1>2. \A b : Inner(b) = IF top.status = "ok" THEN Ok([bottom |-> b, top |-> top.value]) ELSE top
  BY DEF Then, With
<1> HIDE DEF Inner
<1>3. GlobalClockRegions(json) =
        IF bottom.status = "ok" THEN Inner(bottom.value) ELSE bottom
  BY <1>1 DEF Then, With
<1>4. /\ bottom.status = "ok" /\ top.status = "ok"
      /\ GlobalClockRegions(json).value = [bottom |-> bottom.value, top |-> top.value]
  BY <1>2, <1>3, OkHas
<1>5. QED
  BY <1>4 DEF bottom, top

LEMMA RegionsRead ==
  ASSUME NEW values, NEW json \in values, NEW half \in {"bottom", "top"},
         AreSound(Deeper(Deeper(Deeper(Deeper(Deeper(Deeper(values))))))),
         GlobalClockRegions(json).status = "ok"
  PROVE  RowsAsWritten(GlobalClockRegions(json).value[half], At(At(json, half), "rows")[2])
<1>1. PICK value : value = At(json, half)
  OBVIOUS
<1>2. /\ GetMember(json, half, Rows).status = "ok"
      /\ GlobalClockRegions(json).value[half] = GetMember(json, half, Rows).value
  BY RegionsAre
<1>3. /\ IsObject(json) /\ Member(json, half) # 0
      /\ Rows(value).status = "ok" /\ GetMember(json, half, Rows).value = Rows(value).value
  BY <1>1, <1>2, GotRows
<1>4. AreSound(values)
  BY DeeperSound
<1>5. value \in Deeper(values)
  BY <1>1, <1>3, <1>4, GotSound
<1>6. RowsAsWritten(Rows(value).value, At(value, "rows")[2])
  BY <1>3, <1>5, RowsRead
<1>7. QED
  BY <1>1, <1>2, <1>3, <1>6

LEMMA PartHasRegions ==
  ASSUME NEW json, ParsePartJSON(json).status = "ok"
  PROVE  LET regions == GetMember(json, "global_clock_regions", GlobalClockRegions)
         IN /\ regions.status = "ok"
            /\ ParsePartJSON(json).value.global_clock_regions = regions.value
<1> DEFINE id == GetMember(json, "idcode", Uint)
           io == OptGetMember(json, "iobanks", IOBanksIDsToLocation)
           regions == GetMember(json, "global_clock_regions", GlobalClockRegions)
<1> DEFINE Inner(i, banks) ==
             Then(regions, LAMBDA r :
               Ok([idcode |-> i, iobanks |-> IF banks = <<>> THEN <<>> ELSE banks[1],
                   global_clock_regions |-> r]))
           Outer(i) == Then(io, LAMBDA banks : Inner(i, banks))
<1>1. ParsePartJSON(json) = Then(id, LAMBDA i : Outer(i))
  BY Zenon DEF ParsePartJSON
<1> HIDE DEF id, io, regions
<1>2. ASSUME NEW i, NEW banks, Inner(i, banks).status = "ok"
      PROVE  /\ regions.status = "ok"
             /\ Inner(i, banks).value.global_clock_regions = regions.value
  <2>1. PICK first : first = IF banks = <<>> THEN <<>> ELSE banks[1]
    OBVIOUS
  <2>2. Inner(i, banks) =
          IF regions.status = "ok"
          THEN Ok([idcode |-> i, iobanks |-> first, global_clock_regions |-> regions.value])
          ELSE regions
    BY <2>1 DEF Then, With
  <2> HIDE DEF Inner
  <2>3. regions.status = "ok"
    BY <1>2, <2>2
  <2>4. Inner(i, banks).value =
          [idcode |-> i, iobanks |-> first, global_clock_regions |-> regions.value]
    BY <2>2, <2>3, OkHas
  <2>5. QED
    BY <2>3, <2>4
<1> HIDE DEF Inner
<1>3. \A i : Outer(i) = IF io.status = "ok" THEN Inner(i, io.value) ELSE io
  BY DEF Then, With
<1> HIDE DEF Outer
<1>4. ParsePartJSON(json) = IF id.status = "ok" THEN Outer(id.value) ELSE id
  BY <1>1 DEF Then, With
<1>5. /\ regions.status = "ok"
      /\ ParsePartJSON(json).value.global_clock_regions = regions.value
  BY <1>2, <1>3, <1>4
<1>6. QED
  BY <1>5 DEF regions

(* The frame counts of a part that is taken.                               *)
LEMMA PartRead ==
  ASSUME NEW json, IsJSON(json), ParsePartJSON(json).status = "ok",
         NEW half \in {"bottom", "top"}
  PROVE  RowsAsWritten(ParsePartJSON(json).value.global_clock_regions[half],
                       At(At(At(json, "global_clock_regions"), half), "rows")[2])
<1>1. PICK regions : regions = At(json, "global_clock_regions")
  OBVIOUS
<1>2. LET got == GetMember(json, "global_clock_regions", GlobalClockRegions)
      IN /\ got.status = "ok"
         /\ ParsePartJSON(json).value.global_clock_regions = got.value
  BY PartHasRegions
<1>3. /\ IsObject(json) /\ Member(json, "global_clock_regions") # 0
      /\ GlobalClockRegions(regions).status = "ok"
      /\ ParsePartJSON(json).value.global_clock_regions = GlobalClockRegions(regions).value
  BY <1>1, <1>2, GotRegions
<1>4. PICK values : values = {json}
  OBVIOUS
<1>5. AreSound(Deeper(Deeper(Deeper(Deeper(Deeper(Deeper(Deeper(values))))))))
  BY <1>4 DEF IsJSON, Within, AreSound
<1>6. AreSound(values)
  BY <1>5, DeeperSound
<1>7. regions \in Deeper(values)
  BY <1>1, <1>3, <1>4, <1>6, GotSound
<1>8. RowsAsWritten(GlobalClockRegions(regions).value[half], At(At(regions, half), "rows")[2])
  BY <1>3, <1>5, <1>7, RegionsRead
<1>9. QED
  BY <1>1, <1>3, <1>8

-----------------------------------------------------------------------------
(* The blocks of a tile.                                                   *)

LEMMA GotInt32 ==
  ASSUME NEW json, NEW name, GetMember(json, name, Int32).status = "ok"
  PROVE  GetMember(json, name, Int32).value = At(json, name)[2]
<1> DEFINE got == GetMember(json, name, Int32)
           value == At(json, name)
<1>1. got = IF ~ IsObject(json) \/ Member(json, name) = 0 THEN Error ELSE Int32(value)
  BY DEF GetMember, With, At
<1>2. got.status = "ok"
  OBVIOUS
<1> HIDE DEF got, value
<1>3. got = Int32(value)
  BY <1>1, <1>2 DEF Error
<1>4. got = Ok(value[2])
  BY <1>2, <1>3 DEF Int32, Error
<1>5. QED
  BY <1>4, OkHas DEF got, value

LEMMA GotAlias ==
  ASSUME NEW json, OptGetMember(json, "alias", Alias).status = "ok"
  PROVE  OptGetMember(json, "alias", Alias).value = <<>> <=> Member(json, "alias") = 0
<1> DEFINE got == GetMember(json, "alias", Alias)
           opt == OptGetMember(json, "alias", Alias)
           at == Member(json, "alias")
<1>1. opt = IF IsObject(json) /\ at = 0 THEN Ok(<<>>) ELSE Then(got, LAMBDA v : Ok(<<v>>))
  BY DEF OptGetMember
<1>2. ~ IsObject(json) \/ at = 0 => got = Error
  BY DEF GetMember
<1>3. opt.status = "ok"
  OBVIOUS
<1> HIDE DEF got, opt, at
<1>4. opt = IF IsObject(json) /\ at = 0 THEN Ok(<<>>)
            ELSE IF got.status = "ok" THEN Ok(<<got.value>>) ELSE got
  BY <1>1 DEF Then, With
<1>5. CASE IsObject(json) /\ at = 0
  BY <1>4, <1>5, OkHas DEF opt, at
<1>6. CASE ~ (IsObject(json) /\ at = 0)
  <2>1. got.status = "ok"
    BY <1>3, <1>4, <1>6
  <2>2. at # 0
    BY <1>2, <2>1 DEF Error
  <2>3. opt.value = <<got.value>>
    BY <1>4, <1>6, <2>1, OkHas
  <2>4. <<got.value>> # <<>>
    OBVIOUS
  <2>5. QED
    BY <2>2, <2>3, <2>4 DEF opt, at
<1>7. QED
  BY <1>5, <1>6

LEMMA BlockRead ==
  ASSUME NEW json, BitsBlock(json).status = "ok"
  PROVE  /\ BitsBlock(json).value.offset = At(json, "offset")[2]
         /\ BitsBlock(json).value.alias = <<>> <=> Member(json, "alias") = 0
<1> DEFINE alias == OptGetMember(json, "alias", Alias)
           base == GetMember(json, "baseaddr", BaseAddress)
           frames == GetMember(json, "frames", Uint)
           offset == GetMember(json, "offset", Int32)
           words == GetMember(json, "words", Uint)
<1> DEFINE Rest5(a, b, f, o) ==
             Then(words, LAMBDA w :
               Ok([alias |-> a, base_address |-> b, frames |-> f, offset |-> o, words |-> w]))
           Rest4(a, b, f) == Then(offset, LAMBDA o : Rest5(a, b, f, o))
           Rest3(a, b) == Then(frames, LAMBDA f : Rest4(a, b, f))
           Rest2(a) == Then(base, LAMBDA b : Rest3(a, b))
<1>1. BitsBlock(json) = Then(alias, LAMBDA a : Rest2(a))
  BY Zenon DEF BitsBlock
<1>2. offset.status = "ok" => offset.value = At(json, "offset")[2]
  BY GotInt32
<1>3. alias.status = "ok" => (alias.value = <<>> <=> Member(json, "alias") = 0)
  BY GotAlias
<1> HIDE DEF alias, base, frames, offset, words
<1>4. ASSUME NEW a, NEW b, NEW f, NEW o, Rest5(a, b, f, o).status = "ok"
      PROVE  Rest5(a, b, f, o).value.alias = a /\ Rest5(a, b, f, o).value.offset = o
  <2>1. Rest5(a, b, f, o) =
          IF words.status = "ok"
          THEN Ok([alias |-> a, base_address |-> b, frames |-> f, offset |-> o,
                   words |-> words.value])
          ELSE words
    BY DEF Then, With
  <2> HIDE DEF Rest5
  <2>2. Rest5(a, b, f, o).value =
          [alias |-> a, base_address |-> b, frames |-> f, offset |-> o, words |-> words.value]
    BY <1>4, <2>1, OkHas
  <2>3. QED
    BY <2>2
<1> HIDE DEF Rest5
<1>5. \A a, b, f : Rest4(a, b, f) =
        IF offset.status = "ok" THEN Rest5(a, b, f, offset.value) ELSE offset
  BY DEF Then, With
<1> HIDE DEF Rest4
<1>6. \A a, b : Rest3(a, b) =
        IF frames.status = "ok" THEN Rest4(a, b, frames.value) ELSE frames
  BY DEF Then, With
<1> HIDE DEF Rest3
<1>7. \A a : Rest2(a) = IF base.status = "ok" THEN Rest3(a, base.value) ELSE base
  BY DEF Then, With
<1> HIDE DEF Rest2
<1>8. BitsBlock(json) = IF alias.status = "ok" THEN Rest2(alias.value) ELSE alias
  BY <1>1 DEF Then, With
<1>9. alias.status = "ok" /\ BitsBlock(json) = Rest2(alias.value)
  BY <1>8
<1>10. BitsBlock(json) = Rest3(alias.value, base.value)
  BY <1>7, <1>9
<1>11. BitsBlock(json) = Rest4(alias.value, base.value, frames.value)
  BY <1>6, <1>10
<1>12. /\ offset.status = "ok"
       /\ BitsBlock(json) = Rest5(alias.value, base.value, frames.value, offset.value)
  BY <1>5, <1>11
<1>13. /\ BitsBlock(json).value.alias = alias.value
       /\ BitsBlock(json).value.offset = offset.value
  BY <1>4, <1>12
<1>14. QED
  BY <1>2, <1>3, <1>9, <1>12, <1>13

LEMMA BitsRead ==
  ASSUME NEW json, AreSound({json}), Bits(json).status = "ok"
  PROVE  BlocksAsWritten(Bits(json).value, json)
<1> DEFINE members == json[2]
<1>1. IsObject(json)
  BY DEF Bits, Dies
<1>2. members \in Seq(ToSet(members))
  BY <1>1 DEF AreSound
<1>3. PICK n \in Nat : n = Len(members)
  BY <1>2
<1>4. PICK result, of : result = Bits(json) /\ of = Blocks(json)
  OBVIOUS
<1>5. IsResult(result, FALSE, members, of)
  BY <1>1, <1>3, <1>4, BitsAreResult
<1>6. AreInserted(result.value, n, members, of)
  BY <1>3, <1>4, <1>5, InsertedAll
<1>7. DOMAIN result.value = {m.name : m \in ToSet(members)}
  <2>1. ToSet(members) = {members[i] : i \in 1 .. n}
    <3>1. DOMAIN members = 1 .. n
      BY <1>2, <1>3
    <3>2. QED
      BY <3>1 DEF ToSet
  <2>2. QED
    BY <1>6, <2>1 DEF AreInserted
<1>8. ASSUME NEW bus \in DOMAIN result.value
      PROVE  /\ result.value[bus].offset = At(At(json, bus), "offset")[2]
             /\ result.value[bus].alias = <<>> <=> Member(At(json, bus), "alias") = 0
  <2>1. PICK i \in 1 .. n :
          /\ members[i].name = bus /\ result.value[bus] = of[i].value
          /\ \A j \in 1 .. i - 1 : members[j].name # bus
    BY <1>6 DEF AreInserted
  <2>2. of[i].status = "ok"
    BY <1>6 DEF AreInserted
  <2>3. PICK value : value = members[i].value
    OBVIOUS
  <2>4. of[i] = BitsBlock(value)
    BY <1>3, <1>4, <2>2, <2>3 DEF Blocks, Error
  <2>5. At(json, bus) = value
    BY <1>2, <1>3, <2>1, <2>3, FirstMember
  <2>6. /\ BitsBlock(value).value.offset = At(value, "offset")[2]
        /\ BitsBlock(value).value.alias = <<>> <=> Member(value, "alias") = 0
    BY <2>2, <2>4, BlockRead
  <2>7. QED
    BY <2>1, <2>4, <2>5, <2>6
<1>9. QED
  BY <1>4, <1>7, <1>8 DEF BlocksAsWritten

LEMMA TileHasBits ==
  ASSUME NEW json, UnmarshalTile(json).status = "ok"
  PROVE  LET bits == GetMember(json, "bits", Bits)
         IN bits.status = "ok" /\ UnmarshalTile(json).value.bits = bits.value
<1> DEFINE type == GetMember(json, "type", String)
           x == GetMember(json, "grid_x", Uint)
           y == GetMember(json, "grid_y", Uint)
           region == OptGetMember(json, "clock_region", String)
           bits == GetMember(json, "bits", Bits)
           pins == GetMember(json, "pin_functions", StringMap)
           sites == GetMember(json, "sites", StringMap)
           prohibited == GetMember(json, "prohibited_sites", Strings)
<1> DEFINE Rest8(t, v, w, c, b, p, s) ==
             Then(prohibited, LAMBDA q :
               Ok([type |-> t, coord |-> <<v, w>>, clock_region |-> c, bits |-> b,
                   pin_functions |-> p, sites |-> s, prohibited_sites |-> q]))
           Rest7(t, v, w, c, b, p) == Then(sites, LAMBDA s : Rest8(t, v, w, c, b, p, s))
           Rest6(t, v, w, c, b) == Then(pins, LAMBDA p : Rest7(t, v, w, c, b, p))
           Rest5(t, v, w, c) == Then(bits, LAMBDA b : Rest6(t, v, w, c, b))
           Rest4(t, v, w) == Then(region, LAMBDA c : Rest5(t, v, w, c))
           Rest3(t, v) == Then(y, LAMBDA w : Rest4(t, v, w))
           Rest2(t) == Then(x, LAMBDA v : Rest3(t, v))
<1>1. UnmarshalTile(json) = Then(type, LAMBDA t : Rest2(t))
  BY Zenon DEF UnmarshalTile
<1> HIDE DEF type, x, y, region, bits, pins, sites, prohibited
<1>2. ASSUME NEW t, NEW v, NEW w, NEW c, NEW b, NEW p, NEW s,
             Rest8(t, v, w, c, b, p, s).status = "ok"
      PROVE  Rest8(t, v, w, c, b, p, s).value.bits = b
  <2>1. PICK coord : coord = <<v, w>>
    OBVIOUS
  <2>2. Rest8(t, v, w, c, b, p, s) =
          IF prohibited.status = "ok"
          THEN Ok([type |-> t, coord |-> coord, clock_region |-> c, bits |-> b,
                   pin_functions |-> p, sites |-> s, prohibited_sites |-> prohibited.value])
          ELSE prohibited
    BY <2>1 DEF Then, With
  <2> HIDE DEF Rest8
  <2>3. Rest8(t, v, w, c, b, p, s).value =
          [type |-> t, coord |-> coord, clock_region |-> c, bits |-> b,
           pin_functions |-> p, sites |-> s, prohibited_sites |-> prohibited.value]
    BY <1>2, <2>2, OkHas
  <2>4. QED
    BY <2>3
<1> HIDE DEF Rest8
<1>3. \A t, v, w, c, b, p : Rest7(t, v, w, c, b, p) =
        IF sites.status = "ok" THEN Rest8(t, v, w, c, b, p, sites.value) ELSE sites
  BY DEF Then, With
<1> HIDE DEF Rest7
<1>4. \A t, v, w, c, b : Rest6(t, v, w, c, b) =
        IF pins.status = "ok" THEN Rest7(t, v, w, c, b, pins.value) ELSE pins
  BY DEF Then, With
<1> HIDE DEF Rest6
<1>5. \A t, v, w, c : Rest5(t, v, w, c) =
        IF bits.status = "ok" THEN Rest6(t, v, w, c, bits.value) ELSE bits
  BY DEF Then, With
<1> HIDE DEF Rest5
<1>6. \A t, v, w : Rest4(t, v, w) =
        IF region.status = "ok" THEN Rest5(t, v, w, region.value) ELSE region
  BY DEF Then, With
<1> HIDE DEF Rest4
<1>7. \A t, v : Rest3(t, v) = IF y.status = "ok" THEN Rest4(t, v, y.value) ELSE y
  BY DEF Then, With
<1> HIDE DEF Rest3
<1>8. \A t : Rest2(t) = IF x.status = "ok" THEN Rest3(t, x.value) ELSE x
  BY DEF Then, With
<1> HIDE DEF Rest2
<1>9. UnmarshalTile(json) = IF type.status = "ok" THEN Rest2(type.value) ELSE type
  BY <1>1 DEF Then, With
<1>10. UnmarshalTile(json) = Rest2(type.value)
  BY <1>9
<1>11. UnmarshalTile(json) = Rest3(type.value, x.value)
  BY <1>8, <1>10
<1>12. UnmarshalTile(json) = Rest4(type.value, x.value, y.value)
  BY <1>7, <1>11
<1>13. UnmarshalTile(json) = Rest5(type.value, x.value, y.value, region.value)
  BY <1>6, <1>12
<1>14. /\ bits.status = "ok"
       /\ UnmarshalTile(json) = Rest6(type.value, x.value, y.value, region.value, bits.value)
  BY <1>5, <1>13
<1>15. UnmarshalTile(json)
       = Rest7(type.value, x.value, y.value, region.value, bits.value, pins.value)
  BY <1>4, <1>14
<1>16. UnmarshalTile(json)
       = Rest8(type.value, x.value, y.value, region.value, bits.value, pins.value, sites.value)
  BY <1>3, <1>15
<1>17. UnmarshalTile(json).value.bits = bits.value
  BY <1>2, <1>16
<1>18. QED
  BY <1>14, <1>17 DEF bits

LEMMA GotBits ==
  ASSUME NEW json, NEW name, GetMember(json, name, Bits).status = "ok"
  PROVE  /\ IsObject(json) /\ Member(json, name) # 0
         /\ Bits(At(json, name)).status = "ok"
         /\ GetMember(json, name, Bits).value = Bits(At(json, name)).value
  BY DEF GetMember, With, Error, At

(* The blocks of a tile grid that is taken.                                *)
LEMMA TileGridRead ==
  ASSUME NEW json, IsJSON(json), ParseTileGridJSON(json).status = "ok",
         NEW tile \in DOMAIN ParseTileGridJSON(json).value
  PROVE  BlocksAsWritten(ParseTileGridJSON(json).value[tile].bits, At(At(json, tile), "bits"))
<1> DEFINE members == json[2]
<1>1. IsObject(json)
  BY DEF ParseTileGridJSON, Error
<1>2. PICK values : values = {json}
  OBVIOUS
<1>3. AreSound(Deeper(Deeper(Deeper(Deeper(Deeper(Deeper(Deeper(values))))))))
  BY <1>2 DEF IsJSON, Within, AreSound
<1>4. AreSound(values) /\ AreSound(Deeper(values)) /\ AreSound(Deeper(Deeper(values)))
  BY <1>3, DeeperSound
<1>5. members \in Seq(ToSet(members))
  BY <1>1, <1>2, <1>4 DEF AreSound
<1>6. PICK n \in Nat : n = Len(members)
  BY <1>5
<1>7. PICK result, of : result = ParseTileGridJSON(json) /\ of = Tiles(json)
  OBVIOUS
<1>8. IsResult(result, FALSE, members, of)
  BY <1>1, <1>6, <1>7, TileGridIsResult
<1>9. AreInserted(result.value, n, members, of)
  BY <1>6, <1>7, <1>8, InsertedAll
<1>10. PICK i \in 1 .. n :
         /\ members[i].name = tile /\ result.value[tile] = of[i].value
         /\ \A j \in 1 .. i - 1 : members[j].name # tile
  BY <1>7, <1>9 DEF AreInserted
<1>11. of[i].status = "ok"
  BY <1>9 DEF AreInserted
<1>12. PICK value : value = members[i].value
  OBVIOUS
<1>13. of[i] = UnmarshalTile(value)
  BY <1>6, <1>7, <1>12 DEF Tiles
<1>14. At(json, tile) = value
  BY <1>5, <1>6, <1>10, <1>12, FirstMember
<1>15. value \in Deeper(values)
  BY <1>1, <1>2, <1>5, <1>6, <1>12, InValues
<1>16. LET got == GetMember(value, "bits", Bits)
       IN got.status = "ok" /\ of[i].value.bits = got.value
  BY <1>11, <1>13, TileHasBits
<1>17. PICK bits : bits = At(value, "bits")
  OBVIOUS
<1>18. /\ IsObject(value) /\ Member(value, "bits") # 0
       /\ Bits(bits).status = "ok" /\ of[i].value.bits = Bits(bits).value
  BY <1>16, <1>17, GotBits
<1>19. bits \in Deeper(Deeper(values))
  BY <1>4, <1>15, <1>17, <1>18, GotSound
<1>20. AreSound({bits})
  BY <1>4, <1>19, OneSound
<1>21. BlocksAsWritten(Bits(bits).value, bits)
  BY <1>18, <1>20, BitsRead
<1>22. QED
  BY <1>7, <1>10, <1>14, <1>17, <1>18, <1>21

-----------------------------------------------------------------------------
(* What is kept of part.json and tilegrid.json is what was read.           *)

PartIsRead ==
  parsed.part # <<>> =>
    LET result == ParsePartJSON(files.part.json)
    IN /\ files.part.state = "mapped"
       /\ result.status = "ok" /\ parsed.part = result.value

TileGridOf(fabric) == files.tilegrids[fabric]

TileGridIsRead ==
  parsed.tilegrid # <<>> =>
    LET result == ParseTileGridJSON(TileGridOf(parsed.info.fabric).json)
    IN /\ parsed.info.fabric \in DOMAIN files.tilegrids
       /\ TileGridOf(parsed.info.fabric).state = "mapped"
       /\ result.status = "ok" /\ parsed.tilegrid = result.value

(* The fabric is chosen before its tile grid is read.                      *)
NoTileGridYet ==
  step \in {"mapping", "devices", "parts", "tilegrid"} => parsed.tilegrid = <<>>

JSONInv ==
  /\ files \in Databases /\ {"info", "tilegrid", "part"} \subseteq DOMAIN parsed
  /\ PartIsRead /\ TileGridIsRead /\ NoTileGridYet

LEMMA JSONInit == Init => JSONInv
<1> SUFFICES ASSUME Init PROVE JSONInv
  OBVIOUS
<1>1. /\ files \in Databases
      /\ parsed = [fabrics |-> <<>>, info |-> <<>>, tilegrid |-> <<>>, paths |-> <<>>,
                   part |-> <<>>, package_pins |-> <<>>]
  BY DEF Init
<1>2. /\ {"info", "tilegrid", "part"} \subseteq DOMAIN parsed
      /\ parsed.part = <<>> /\ parsed.tilegrid = <<>>
  BY <1>1
<1>3. QED
  BY <1>1, <1>2 DEF JSONInv, PartIsRead, TileGridIsRead, NoTileGridYet

LEMMA JSONKept ==
  ASSUME JSONInv, UNCHANGED files, {"info", "tilegrid", "part"} \subseteq DOMAIN parsed',
         parsed'.part = parsed.part, parsed'.tilegrid = parsed.tilegrid,
         parsed'.info = parsed.info \/ parsed.tilegrid = <<>>,
         \/ step' \notin {"mapping", "devices", "parts", "tilegrid"}
         \/ parsed.tilegrid = <<>>
  PROVE  JSONInv'
<1>1. PartIsRead'
  BY DEF JSONInv, PartIsRead
<1>2. TileGridIsRead'
  <2>1. CASE parsed.tilegrid = <<>>
    BY <2>1 DEF TileGridIsRead
  <2>2. CASE parsed'.info = parsed.info
    BY <2>2 DEF JSONInv, TileGridIsRead, TileGridOf
  <2>3. QED
    BY <2>1, <2>2
<1>3. NoTileGridYet'
  BY DEF JSONInv, NoTileGridYet
<1>4. QED
  BY <1>1, <1>2, <1>3 DEF JSONInv

LEMMA OtherFilesKeepJSON ==
  ASSUME JSONInv, NEW name, NEW value, name \notin {"info", "tilegrid", "part"},
         Parsed(name, value)
  PROVE  /\ {"info", "tilegrid", "part"} \subseteq DOMAIN parsed'
         /\ parsed'.part = parsed.part /\ parsed'.tilegrid = parsed.tilegrid
         /\ parsed'.info = parsed.info
  BY DEF JSONInv, Parsed

LEMMA ParseTileGridKeepsJSON ==
  ASSUME JSONInv, ParseTileGrid
  PROVE  JSONInv'
<1>1. /\ step = "tilegrid" /\ File.state = "mapped" /\ UNCHANGED files
      /\ {"info", "tilegrid", "part"} \subseteq DOMAIN parsed
  BY DEF ParseTileGrid, JSONInv
<1>2. PICK fabric : fabric = parsed.info.fabric
  OBVIOUS
<1>3. fabric \in DOMAIN files.tilegrids /\ File = files.tilegrids[fabric]
  BY <1>1, <1>2, KindsAre DEF File, Missing
<1>4. PICK result : result = ParseTileGridJSON(File.json)
  OBVIOUS
<1>5. CASE result.status = "ok"
  <2>1. step' = "index" /\ parsed' = [parsed EXCEPT !["tilegrid"] = result.value]
    BY <1>4, <1>5 DEF ParseTileGrid, EndsAs, Parsed
  <2>2. /\ DOMAIN parsed' = DOMAIN parsed
        /\ parsed'.tilegrid = result.value
        /\ parsed'.info = parsed.info /\ parsed'.part = parsed.part
    BY <1>1, <2>1
  <2>3. PartIsRead'
    BY <1>1, <2>2 DEF JSONInv, PartIsRead
  <2>4. TileGridIsRead'
    BY <1>1, <1>2, <1>3, <1>4, <1>5, <2>2 DEF TileGridIsRead, TileGridOf
  <2>5. NoTileGridYet'
    BY <2>1 DEF NoTileGridYet
  <2>6. QED
    BY <1>1, <2>2, <2>3, <2>4, <2>5 DEF JSONInv
<1>6. CASE result.status # "ok"
  <2>1. step' \in {"failed", "died"} /\ UNCHANGED parsed
    BY <1>4, <1>6 DEF ParseTileGrid, EndsAs, Result
  <2>2. QED
    BY <1>1, <2>1, JSONKept
<1>7. QED
  BY <1>5, <1>6

LEMMA ParsePartKeepsJSON ==
  ASSUME JSONInv, ParsePart
  PROVE  JSONInv'
<1>1. /\ step = "part" /\ File.state = "mapped" /\ UNCHANGED files
      /\ {"info", "tilegrid", "part"} \subseteq DOMAIN parsed
  BY DEF ParsePart, JSONInv
<1>2. File = files.part
  BY <1>1, KindsAre DEF File
<1>3. PICK result : result = ParsePartJSON(files.part.json)
  OBVIOUS
<1>4. CASE result.status = "ok"
  <2>1. step' = "package_pins" /\ parsed' = [parsed EXCEPT !["part"] = result.value]
    BY <1>2, <1>3, <1>4 DEF ParsePart, StartOf, Parsed
  <2>2. /\ DOMAIN parsed' = DOMAIN parsed
        /\ parsed'.part = result.value
        /\ parsed'.info = parsed.info /\ parsed'.tilegrid = parsed.tilegrid
    BY <1>1, <2>1
  <2>3. PartIsRead'
    BY <1>1, <1>2, <1>3, <1>4, <2>2 DEF PartIsRead
  <2>4. TileGridIsRead'
    BY <1>1, <2>2 DEF JSONInv, TileGridIsRead, TileGridOf
  <2>5. NoTileGridYet'
    BY <2>1 DEF NoTileGridYet
  <2>6. QED
    BY <1>1, <2>2, <2>3, <2>4, <2>5 DEF JSONInv
<1>5. CASE result.status # "ok"
  <2>1. step' \in {"failed", "died"} /\ UNCHANGED parsed
    BY <1>2, <1>3, <1>5 DEF ParsePart, EndsAs, Result
  <2>2. QED
    BY <1>1, <2>1, JSONKept
<1>6. QED
  BY <1>4, <1>5

LEMMA EndOfPartsKeepsJSON ==
  ASSUME JSONInv, EndOfParts
  PROVE  JSONInv'
<1>1. step = "parts" /\ UNCHANGED files
  BY DEF EndOfParts, AtEndOfYAML
<1>2. parsed.tilegrid = <<>>
  BY <1>1 DEF JSONInv, NoTileGridYet
<1>3. UNCHANGED parsed \/ \E value : Parsed("info", value)
  BY DEF EndOfParts
<1>4. /\ {"info", "tilegrid", "part"} \subseteq DOMAIN parsed'
      /\ parsed'.part = parsed.part /\ parsed'.tilegrid = parsed.tilegrid
  BY <1>3 DEF JSONInv, Parsed
<1>5. QED
  BY <1>1, <1>2, <1>4, JSONKept

LEMMA JSONStep ==
  ASSUME JSONInv, Next
  PROVE  JSONInv'
<1> USE KindsAre
<1>0. {"info", "tilegrid", "part"} \subseteq DOMAIN parsed
  BY DEF JSONInv
<1>1. CASE MapMapping \/ SkippedLine \/ TopLine \/ NestedLine
  <2>1. step \in {"mapping", "devices", "parts"} /\ UNCHANGED <<files, parsed>>
    BY <1>1 DEF MapMapping, SkippedLine, TopLine, NestedLine, IsYAMLLine, YAMLSteps
  <2>2. parsed.tilegrid = <<>>
    BY <2>1 DEF JSONInv, NoTileGridYet
  <2>3. QED
    BY <1>0, <2>1, <2>2, JSONKept
<1>2. CASE EndOfDevices
  <2>1. step = "devices" /\ UNCHANGED files
    BY <1>2 DEF EndOfDevices, AtEndOfYAML
  <2>2. parsed.tilegrid = <<>>
    BY <2>1 DEF JSONInv, NoTileGridYet
  <2>3. UNCHANGED parsed \/ \E value : Parsed("fabrics", value)
    BY <1>2 DEF EndOfDevices
  <2>4. /\ {"info", "tilegrid", "part"} \subseteq DOMAIN parsed'
        /\ parsed'.part = parsed.part /\ parsed'.tilegrid = parsed.tilegrid
        /\ parsed'.info = parsed.info
    BY <1>0, <2>3, OtherFilesKeepJSON
  <2>5. QED
    BY <2>1, <2>2, <2>4, JSONKept
<1>3. CASE EndOfParts
  BY <1>3, EndOfPartsKeepsJSON
<1>4. CASE ParseTileGrid
  BY <1>4, ParseTileGridKeepsJSON
<1>5. CASE ParsePart
  BY <1>5, ParsePartKeepsJSON
<1>6. CASE IndexTileTypes \/ EndOfPins
  <2>1. UNCHANGED files /\ step' \in {"part", "registry"}
    BY <1>6 DEF IndexTileTypes, EndOfPins, EndsAs, StartOf
  <2>2. \E value : Parsed("paths", value) \/ Parsed("package_pins", value)
    BY <1>6 DEF IndexTileTypes, EndOfPins
  <2>3. /\ {"info", "tilegrid", "part"} \subseteq DOMAIN parsed'
        /\ parsed'.part = parsed.part /\ parsed'.tilegrid = parsed.tilegrid
        /\ parsed'.info = parsed.info
    BY <2>2, OtherFilesKeepJSON
  <2>4. QED
    BY <2>1, <2>3, JSONKept
<1>7. CASE CannotIndex \/ RegisterIOBank \/ RegisterPin \/ Opened
  BY <1>0, <1>7, JSONKept DEF CannotIndex, RegisterIOBank, RegisterPin, Opened, EndsAs, NextLine
<1>8. CASE MissingFile \/ UnmappedFile \/ OverrunPage \/ InsertTileType
  <2>1. step' \in {"open", "failed", "died"} /\ UNCHANGED <<files, parsed>>
    BY <1>8 DEF MissingFile, UnmappedFile, OverrunPage, InsertTileType, EndsAs
  <2>2. QED
    BY <1>0, <2>1, JSONKept
<1>9. CASE GenerateLine
  <2>1. step' \in {"open", "failed", step} /\ step \in LineSteps /\ UNCHANGED <<files, parsed>>
    BY <1>9 DEF GenerateLine, IsAtLine, EndsAs, NextLine
  <2>2. QED
    BY <1>0, <2>1, JSONKept DEF LineSteps
<1>10. CASE UnknownFile \/ EndOfTileTypeFile
  <2>1. step' \in {"segbits", "block_ram", "insert"} /\ UNCHANGED <<files, parsed>>
    BY <1>10 DEF UnknownFile, EndOfTileTypeFile, StartOf, AfterKind
  <2>2. QED
    BY <1>0, <2>1, JSONKept
<1>11. CASE AddSegbitsToCache
  BY <1>0, <1>11, JSONKept DEF AddSegbitsToCache, StartOf
<1>12. CASE RemoveFiles
  <2>1. UNCHANGED <<files, parsed, step>>
    BY <1>12 DEF RemoveFiles
  <2>2. step \in ToSet(Kinds)
    BY <1>12 DEF RemoveFiles
  <2>3. QED
    BY <1>0, <2>1, <2>2, JSONKept
<1>13. QED
  BY <1>1, <1>2, <1>3, <1>4, <1>5, <1>6, <1>7, <1>8, <1>9, <1>10, <1>11, <1>12
     DEF Next, Open, Read

LEMMA JSONIn ==
  ASSUME JSONInv
  PROVE  JSONAsWritten
<1>1. ASSUME parsed.part # <<>>, NEW half \in {"bottom", "top"}
      PROVE  RowsAsWritten(parsed.part.global_clock_regions[half],
                           At(At(At(files.part.json, "global_clock_regions"), half), "rows")[2])
  <2>1. PICK json : json = files.part.json
    OBVIOUS
  <2>2. /\ files.part.state = "mapped" /\ ParsePartJSON(json).status = "ok"
        /\ parsed.part = ParsePartJSON(json).value
    BY <1>1, <2>1 DEF JSONInv, PartIsRead
  <2>3. IsJSON(json)
    BY <2>1, <2>2, DatabasesAssumption DEF JSONInv
  <2>4. RowsAsWritten(ParsePartJSON(json).value.global_clock_regions[half],
                      At(At(At(json, "global_clock_regions"), half), "rows")[2])
    BY <2>2, <2>3, PartRead
  <2>5. QED
    BY <2>1, <2>2, <2>4
<1>2. ASSUME NEW tile \in DOMAIN parsed.tilegrid
      PROVE  BlocksAsWritten(parsed.tilegrid[tile].bits,
                             At(At(files.tilegrids[parsed.info.fabric].json, tile), "bits"))
  <2>1. PICK fabric, json : fabric = parsed.info.fabric /\ json = files.tilegrids[fabric].json
    OBVIOUS
  <2>2. parsed.tilegrid # <<>>
    <3>1. DOMAIN <<>> = {}
      OBVIOUS
    <3>2. QED
      BY <3>1
  <2>3. /\ fabric \in DOMAIN files.tilegrids /\ files.tilegrids[fabric].state = "mapped"
        /\ ParseTileGridJSON(json).status = "ok"
        /\ parsed.tilegrid = ParseTileGridJSON(json).value
    BY <2>1, <2>2 DEF JSONInv, TileGridIsRead, TileGridOf
  <2>4. IsJSON(json)
    BY <2>1, <2>3, DatabasesAssumption DEF JSONInv
  <2>5. tile \in DOMAIN ParseTileGridJSON(json).value
    BY <2>3
  <2>6. BlocksAsWritten(ParseTileGridJSON(json).value[tile].bits, At(At(json, tile), "bits"))
    BY <2>3, <2>4, <2>5, TileGridRead
  <2>7. QED
    BY <2>1, <2>3, <2>6
<1>3. QED
  BY <1>1, <1>2 DEF JSONAsWritten

(* The frame counts of a part are those of the rows and columns that have  *)
(* their index for a key, and the blocks of a tile are its own, for JSON   *)
(* files with any members in any order: ParsePartJSON, ParseTileGridJSON.  *)
THEOREM PartAndGridAsWritten == Spec => []JSONAsWritten
<1>1. JSONInv /\ UNCHANGED vars => JSONInv'
  <2> SUFFICES ASSUME JSONInv, UNCHANGED vars PROVE JSONInv'
    OBVIOUS
  <2>1. UNCHANGED <<files, parsed, step>>
    BY DEF vars
  <2>2. QED
    BY <2>1 DEF JSONInv, PartIsRead, TileGridIsRead, TileGridOf, NoTileGridYet
<1>2. JSONInv /\ [Next]_vars => JSONInv'
  BY <1>1, JSONStep
<1>3. QED
  BY JSONInit, JSONIn, <1>2, PTL DEF Spec
=============================================================================
