# fpga-assembler in TLA+

fpga-assembler turns a FASM file (one line per configured feature of an FPGA)
into a bitstream for a Xilinx Series-7 part. This directory specifies the parts
of the program where an error is silent: the output is a file of plausible
words, and a frame that is lost, shifted or written twice shows only in a
device that misbehaves.

    fasm file --> FASM parser --> assembler <-- part database <-- prjxray files
                                      |
                               map of frames (address -> 101 words)
                                      |   BitStream::Encode
                                      v
          fill in missing frames -> lay out -> package of packets -> words -> file
                                                                     |
                       InitWithPackets <- packets <- bitstream reader <-+

The program is sequential, from `main` (assembler.cc:375) to the last byte
written. The only concurrent code is a tool, `scripts/run-clang-tidy-cached.cc`.

## Components

| component | state | operations | what makes it correct |
|---|---|---|---|
| frame addresses, parts (`xilinx/arch-xc7-frame.h`, `arch-xc7-part.{h,cc}`) | a part: nested ordered maps half, row, block type, column -> number of frames | build from part.json or from a list of addresses; is an address a frame; the address after an address | the walk goes forward, stays in the part, and on a regular part misses no frame |
| frame container (`xilinx/frames.h`) | map from address to content | `AddMissingFrames` | ends; the design survives; only blank frames of the part are added, and all of them |
| configuration package (`xilinx/configuration.{h,cc}`) | payload, list of packets | lay out frames with padding between rows; surround with the programming sequence | the reader finds each frame where the writer put it |
| configuration reader (`configuration.h`, `InitWithPackets`) | CMD, FAR, MASK, CTL1, pending write, write position, frames | one packet at a time | progress markers do not move the write, seeks do; nothing is written twice; another part's stream is refused |
| bitstream writer (`bitstream-writer.{h,cc}`) | nested iterators over packets, header with length field | words of packets, header, length patch | words of every packet once, in order; length is that of the data |
| bitstream reader, packet parser (`bitstream-reader.h`, `arch-xc7-configuration-packet.cc`) | span of the words left, previous packet | find sync word, next packet | inverse of the writer; ends on any input |
| ECC, ICAP CRC (`arch-xc7-frame.{h,cc}`) | - | pure | not called by the program's encoder |
| FASM parser (`fasm-parser.h`) | text left, result | parse, callbacks per 64 bit chunk | the bits of a value reach the callback at their positions; what is not reported shows in the result |
| assembler (`assembler.cc`) | used features, frames | features to bits, PUDC_B and STEPDOWN additions | frames do not depend on hash order; bits only from features |
| part database (`database.{h,cc}`, `memory-mapped-file.{h,cc}`) | lazy cache of tile types, bank registry, grid | `Parse`, `ConfigBits`, `Tiles`, `TileBanks` | a tile type is cached with all its files say or not at all; banks and tiles agree; bits stay inside the frame |
| database file parsers (`database-parsers.{h,cc}`) | per file: line, entry being gathered, records so far | text to records | each entry by itself, rows and columns in their place, every line counts or the file is refused |
| cached clang-tidy runner (`scripts/run-clang-tidy-cached.cc`) | work queue, store of results, temporary files | workers, report | each result is of its own file and of what it reads now; all workers end |

Interactions: the assembler calls the parser line by line and is called back
for each feature; it asks the database for bits of a feature, which the
database answers by a callback that sets them in the frames; `Encode` asks the
part for the next address, and so do, separately, the layout and the reader.
That is where the hard behaviour is: three loops (fill, layout, read) must
agree on where each frame lies, because the frame data carries no addresses.
The other hard spots are listed, each at its line, under "hazards" in
PROJECT.json.

## Modules

| module | models | of |
|---|---|---|
| `XC7Part` | addresses, parts, `GetNextFrameAddress`; operators only | arch-xc7-part.{h,cc}, class `FrameAddress` |
| `XC7Frames` | `AddMissingFrames`, one action per iteration | frames.h:52-62 |
| `XC7Device` | `InitWithPackets`, one action per packet, one per frame of FDRI data | configuration.h:106-225 |
| `XC7Programming` | `Encode` and a device that gets its packets; composes `XC7Frames` and `XC7Device` and adds layout and packaging | bitstream.h:34-70, configuration.h:61-84, configuration.cc |
| `XC7Streams` | bitstreams of other tools, as the comments of `InitWithPackets` describe them, handled by `XC7Device` | configuration.h:163-215 |
| `FrameLoading` | the abstract specification: the frames of a design appear one by one, in the order of addresses, each once, until the design is there | - |
| `XC7FramesProofs`, `XC7ProgrammingProofs`, `XC7StreamsProofs` | theorems about `XC7Part` and `XC7Frames`, `XC7Programming`, `XC7Streams` | |
| `BitstreamFileProofs` | theorems about `ConfigurationPackets` and `BitstreamFile` | |
| `FasmParserProofs`, `AssemblerProofs`, `DatabaseLoadingProofs`, `ClangTidyCacheProofs` | theorems about `FasmParser`, `Assembler`, `DatabaseLoading` and `ClangTidyCache` | |
| `ConfigurationPackets` | packets, words and bytes: `PacketHeader`, `InitWithWords`; operators only | bitstream-writer.cc:33-58, arch-xc7-configuration-packet.cc:42-101, big-endian-span.h |
| `BitstreamWriter` | `writeBitstream`, one action per word | bitstream-writer.h |
| `BitstreamReader` | `InitWithBytes`, and one action per pass of the loop of the iterator's `operator++` | bitstream-reader.h |
| `BitstreamFile` | a writer and then a reader of what got into the file; composes the two | bitstream.h:62-69 |
| `PacketTransfer` | the abstract specification: packets are stored, and the stored ones delivered, in order and as they were | - |
| `ClangTidyCache` | several invocations of the cached clang-tidy runner, each with its threads, on one store | scripts/run-clang-tidy-cached.cc |
| `FasmParser` | `Parse`: one action per part of a line, one per chunk that is called back | fasm-parser.h |
| `PartDatabase` | bank registry, `ConfigBits`, the index and cache of tile types, as the assembler sees them | database.{h,cc} |
| `DatabaseParsers` | what each parser makes of a JSON value, a line, an entry; operators only | database-parsers.cc |
| `DatabaseLoading` | opening a database file by file and line by line, reading a tile type when it is asked for; extends `DatabaseParsers` | database.cc, database-parsers.cc, memory-mapped-file.cc |
| `Assembler` | `main`: reading, added features, bits, frames; extends `PartDatabase` and runs `FasmParser` on each line | assembler.cc |
| `MCXC7Frames`, `MCXC7Programming`, `MCXC7Streams`, `MCBitstreamFile`, `MCFasmParser`, `MCAssembler`, `MCDatabaseLoading`, `MCClangTidyCache` | instances for TLC | |

How state corresponds. A frame address is a record of the five fields of the
32 bit word; `Less` is the order of the words, `Increment` adds one to the word
and so carries from a full field into the next; the constructor `FrameAddress`
reduces row, column and minor modulo their field, as `bit_field_set` does. The
numbers of rows, columns and minors a field can name are constants (32, 1024
and 128 in the code). The nested `btree_map`s of a part are nested functions,
and the next key of a map is `KeyAfter`. A `std::optional` is a set of at most
one element. The words of a frame are one value, `Blank` for all zeroes. In
`RowFrom` the buses of a row come in the order of a hash map and the first of
each block type is kept (`CFG_CLB` has the block type of `CLB_IO_CLK`), so
`FromPart` is the set of parts that one part.json can give.

Packets are records of opcode, register and data; a word for MASK, CTL0 and
CTL1 is the set of its bits, a word for FAR an address, the data of FDRI a
sequence of frames. Runs of no-operations are one packet. A type 2 packet is
given the register of the packet before it, which the writer makes sure of by
an empty FDRI packet. `offset` is `ii` of the FDRI loop, in frames;
`offset = Idle` between packets. A packet with an unexpected opcode, an unknown
register or no data is passed over (`SkipPacket`).

In the bitstream modules a word is a record of the fields of a header, since the
parser may take any word for one, and a byte is a word with the place of the
byte in it, so that bytes put together at the wrong places give no word. Counts
are cut to their field as by `bit_field_set`; 2^11 and 2^27 are constants. The
iterators are places in the words `header_` and in the package, and the
`std::optional` iterator in a packet. `sink` is what `std::cout` is: a file, or
a pipe where `tellp` and `seekp` fail. The stream may fail within any word
(`broken`), after which it takes nothing more and the program does not notice.

In `FasmParser` a text is a sequence of lines, each a record of what the scanner
finds in it: name, numbers of the range, base and digits of the value,
annotations, and what is wrong with it. `at` is the place in the loop of `Parse`,
`chunk` the variable of that name, counted from 1; calls are kept as history.
A word of 64 bits has `WordBits`, and a bit number, of 16 bits in the code, is
below `RangeLimit`. Widths are computed in integers: `ValueWidth` may be zero or
negative where the code's unsigned number wraps around. A shift by such a width
is undefined and gives any of the masks (`ClampedBits`). `Answers` is what the
callback may return; the assembler's returns true.

In `PartDatabase` and `Assembler` a feature is the sequence of the segments of
its name, a value the set of its bits that are 1, a frame the set of the bits
set in it. The grid and the tile types are records and functions as the parsers
of their files give them. A hash map that the code goes through is any order:
`Resolutions` is a set because the bus that comes last decides of which type a
feature is, `FrontBanks` because the bank that comes first decides which bank
steps down, `SetToSeqs` orders the features that are added. The place of a bit is
computed as in database.cc:427-450 (`BitSetterCall`): the base address loses its
upper half, and sums and the offset of an aliased block, which may be below zero,
wrap at `UnsignedLimit`, 2^32 in the code. What a word past the end of a frame
does (assembler.cc:132 does not look at it) is not defined: the program dies, or
nothing is known of what it does (`SetBitBeyond`). `indexed` are the
tile types whose files were found when the database was opened;
`segment_bits_cache` those that have been read since. An exception and a failed
CHECK both end the program (`died`). A read that fails ends the file
(`EndOfLines`), as `getline` does not tell one from the other. Each line is a
text of its own for `FasmParser`: `GetLine` starts the parser, `ParseStep` is
any step of it and turns new calls into features, `CheckResult` looks at its
result. `text` and `design` are history: what is in the file, and what the
parser has made of each line.
`AddStepDownFeatures` looks at the third segment of any name, and
`AliasedFeature` at all that is behind the first dot, as the code does.

In `DatabaseLoading` the directory of the database is `files`: a file is missing,
or there and cannot be mapped (then reading it is a crash, as the result of
`mmap` is not looked at), or a JSON value or lines. `step` is the file that is
read; a failed CHECK and an exception end in `died`, a status in `failed`, but a
status for a tile type only ends the request, for which the program sees a type
that does not exist. A JSON value is its type and content, the members of an
object in their order and perhaps repeated, as the parsers go through them; in
two places (`Bits`, `IOBanksIDsToLocation`) they do so without asking whether it
is an object, which fails an assertion of rapidjson where assertions are on.
Numbers in texts are looked up in `Atoi` and `Strtol`. The limits of 32 and
63 bits are constants. `GenerateLine` is one pass of the loop of
`LinesGenerator` with the parser of the file; `OverrunPage` is the pass that
reads the character behind a file whose last line has no newline and ends where
a page does. `reading`, `segments` are the request for a tile type in progress,
`RemoveFiles` somebody who removes its files meanwhile. The directory may fail to
be listed, or a call of the file system throw and so end the program
(`CannotIndex`).

In `ClangTidyCache` a hash is the set of the contents that were hashed into it an
odd number of times (`HashIn`, over all the files that are hashed, `Hashed`), as
they are xored; so two hashes are equal only where xor makes them so. The queue
of an invocation is a set of places in the listing, taken in their order. The
store is a directory of names bound to inodes with bytes, because a writer keeps
its inode open while the name is removed, replaced or truncated. A thread is a
pair of an invocation and a worker, with its program counter, the file it works
on, the inode it has open and the text it has read; one action per system call
that others can see. `BuildWorkList` hashes all files in one step: edits come
before or after it. A result is outdated only when it is not there
(`revisit_if_any_include_changes` covers the rest through the hash; the trigger
by modification time is off in `kConfig`). A project has the files and how many
threads each invocation gets (`jobs`, `CLANG_TIDY_JOBS` in the code). clang-tidy reads
a file and all that is included from it, through however many headers
(`ReadBy`), while the hash has the file's own includes only. It writes its output at once,
and goes on when only its invocation is killed. It may also fail, or be ended by
some signal (`ToolFails`): whatever it has written, be it nothing, is then
repaired and renamed like any other output, as the program looks for SIGINT and
SIGQUIT only. Ctrl-C reaches the tools, and
not the program, while some thread waits in `system()`; at other times it is a
`Kill`.

Names that end a comment "Bug: ..." are variants of a definition with a
plausible mistake. No behaviour uses them: PROJECT.json pairs each with the
definition it replaces and the property that then fails.

## What the runs check

**xc7_frames** (`XC7Frames.cfg`, about 17 000 states). Nine part descriptions,
every choice of the hash order, every design over five addresses with two
contents. Fields of three values, so that a row, a column and a minor that does
not fit is just one more. The parts: regular ones, rows without a bus, columns
without frames, an empty half, two buses of one block type, a column of more
frames than the minor can count, parts built from lists as the tests do.
- `AssembledKept`: no frame of the features is lost or changed.
- `AddedArePartFrames`: what is added is blank and a frame of the part, or
  address zero, where the loop starts without asking (frames.h:54).
- `Swept`: on a regular part, no frame behind the walk is missing.
- `CursorAdvances`, `Termination`: the walk goes forward, and so ends. For a
  column with more frames than the field can count it only happens to end.

*Regular* (`IsRegular`): buses start at column 0 and have no column without
frames; a bus a row has is in the rows before it; rows start at 0; a block type
other than the first starts in the top half. prjxray describes real parts so.
**xc7_frames_gap** shows what happens otherwise: with a row that lacks a bus
between rows that have it, the walk leaves the half at the gap
(arch-xc7-part.cc:189 asks only the row directly after), and the frames beyond
are not added, although the comment of `AddMissingFrames` (frames.h:38-39) says
that the frames present in the part are.

**xc7_programming** (`XC7Programming.cfg`, about 92 000 states). Filling,
layout, packages and a device of the same or another idcode. Some designs hold
frames that the part does not have (`Strays`): the assembler takes addresses
from the tile grid and never asks the part.
- `LoadsFrameByFrame`: the whole is an implementation of `FrameLoading`, with
  the device's frames as its memory, including that it finishes; of designs with
  strays the frames before the first of them are loaded. The design
  that arrives is computed from the features' frames and the part alone
  (`FullDesign`), not from what the program built on the way. No frame is written
  twice, so neither does the padding after the last frame overwrite it.
- `LoadsDesign`: at any time, every frame before the first stray is where it
  belongs. Those after it are displaced on the device: layout writes all frames
  of the map, while the reader counts along the part. Both properties state how
  far the damage reaches.
- `NoSecondWrite`: nothing after the frame data arms another write, although
  the finalization writes FAR, which executes CMD again.

**xc7_streams** (`XC7Streams.cfg`, about 4 500 states). The frame data of three
parts cut in every way into up to three FDRI packets, either with FAR writes
between them as progress markers (bit 21 of CTL1 set) or with a FAR write per
packet that starts a write, in every order of the packets.
- `LandsInPlace`: no frame at the address of another, no padding as a frame.
- `LoadsAll`: in the end the device holds the whole design.

**bitstream_file** (`BitstreamFile.cfg`, about 85 000 states). Packages of up to
three packets of all types, with and without data, with data that looks like
headers and sync words, with counts that do not fit and types that do not
exist, into a file or a pipe that may fail within any word.
- `DeliversPackets`: writer and reader together implement `PacketTransfer`. What
  is delivered is the package up to the first packet that its words cannot stand
  for (`SoundPrefix`); of a file that was cut, the packets that are whole. In
  every case the reader comes to its end. When the cut is not between words
  the reader throws and delivers nothing, which `PacketTransfer` allows only
  after the storage has failed.
- `LengthOfWhole`: the length in the header vouches for the data: it is zero, or
  that of all the words of the package, and they are there.

Words and packets are handled one by one and only the packet before is
remembered, so three packets and up to three words of data, with limits of
three and four on the counts, have each pair of neighbours and each boundary.

**fasm_parser** (`FasmParser.cfg`, about 136 000 states). One line with each of
ten ranges and some ninety values of up to three words of four bits, and every
text of two lines of a list that has everything that can be wrong with a line.
- `ReportsValue`: the calls for a line give the bits of its number, each at its
  place, without a gap; checked for numbers of one word, and of whole words as
  many as the range has (`Fits`). The number is computed from the digits at once,
  the chunks by the code's way of cutting and reversing.
- `AcceptedIsWhole`: up to a result of kNonCritical (the assembler goes on up to
  kSkipped) each feature of the text is reported in all of its range, and the
  annotations of each line, once and in their order. A chunk, a line or an annotation that gets lost must show in the
  result.
- `SeverityKept`: no line makes the result better again; some set it, some take
  the worse.
- `Ends`: a line in error is left behind.

**fasm_unaligned** shows what lies outside `Fits`, where comments and tests make
no exception: digits that do not fill their last word put all words at the
wrong place.

A word of
four bits is one hexadecimal digit, so aligned and unaligned numbers both occur
in few digits; two lines are enough because only `result` goes from one to the
next.

**assembler** (`Assembler.cfg`, about 163 000 states). A part with an IOB33 tile,
a single-site tile aliased to it with a block that begins two words before the
tile, two banks of one HCLK tile, a package pin of a tile that is not in the grid, a
tile with two buses, one with a pseudo pip and one whose two buses have aliases to
different types; words and values of four bits. Texts of up to three lines out
of fifteen that can be assembled, among them values of two words, and four that
cannot, an address that does not fit and the site that the aliased tile is without, with comments, annotations, junk, an inverted range and a last line
without a newline. Addresses and positions of bits wrap at 64 and a frame has eight
words.
Every index of tile types, every failed read, every order of the hash maps.
- `FramesOfDesign`: what is encoded is a function of the set of features: the
  bits of the features of the design, of PUDC_B and of the sites that step down,
  and all frames of the blocks they are in. The definition (`FramesOf`,
  `Complete`) knows nothing of lines, orders or addresses done so far. One choice
  is left to the hash maps, the pin that is found to be PUDC_B. Designs in which
  they have another are excluded (`IsDefinite`): of a tile with aliases to two types
  the last is taken, of two banks of one tile the first. So are features with
  bits beyond their width, of which the parser makes none where the width is that
  of a shift, and tiles of added features (`AddedTiles`) with two types. The place of
  a bit is defined over the integers (`Place`), so the property is about designs
  whose places are 32 bit numbers (`NothingWraps`); those with the tile `HIGH` or the
  missing site in the run are not.
- `FramesOfText`: the same from the text on, where numbers fit their ranges:
  through chunks, callback, start bits and addresses no bit of a value is lost,
  moved or set twice. The bits are computed from the digits at once.
- `WrittenIsWhole`: nothing is written unless every line was accepted and every
  feature exists in a type that was read.
- `UsedSitesKept`: no STEPDOWN is added to a site that the design configures.
- `BitsInBlocks`: the words of a frame are never left and bits land in the words of
  a block of the grid, also where the offset of an aliased block is below zero and
  the 32 bit sum wraps around. This is so as long as what is wanted is of its block
  (`IsOfBlock`). By its alias a tile also has the features of sites that it is
  without, whose bits are before its block; nothing in the code keeps a text from
  naming them, and the program then writes far behind the frame: the text of the
  run that does so comes to `SetBitBeyond`.
- `Ends`: the loops end.

Two features are the least that can share a frame, a bit, a bank or a site, one
of them in an alias and one not; adding a third adds no new pair.

**database** (`DatabaseLoading.cfg`, about 6 000 states). One database that is as
it should be and some seventy in which one file is otherwise: missing, not
mapped, of another shape, with repeated or swapped entries, with a number that
does not fit, empty, ending with its page. Every order in which the directory
is listed and every set of files of tile types that cannot be accessed; these files may
go away while they are read.
- `InfoOfOwnEntry`: part and fabric are those of the part's own entry in the YAML
  files, whatever entries come before or after it and however their lines lie.
- `JSONAsWritten`: rows and columns have the index that is their key, and each
  block of a tile is that of the file, alias and all.
- `BanksAgree`: the two maps of the registry say the same, and what part.json
  and every line of package_pins.csv say; an IO bank comes before others.
- `CachedIsContent`: a tile type that is cached has all that its files say and
  nothing else, the first of two lines of one name; a file with an error, or one
  that has gone since it was found, keeps all of the type out.
- `Returns`: the program gets through every file: again and again the database
  is open for requests, or the program has ended.

One file at a time is enough because a file is read with what the ones before
have given, of which only fabrics and paths matter; lines affect each other
through one entry or one map, so that two of each kind in every neighbourhood
have all cases.

**clang_tidy_cache** (`ClangTidyCache.cfg`, about 668 000 states). Five projects.
In `Shared`, two invocations with one thread each share a store: a source file and
its header, two edits at any time, or one edit and two interruptions, kills or failures of
clang-tidy at any time. In `Copies`, one invocation with two threads has three files, two of
them with one name and content, and two interruptions, kills or failures. `LikeNamed` has
two headers of one name, one of which includes that name; in `Sloppy` a source
file includes a name that two headers have, and one of two invocations has no
threads. In `Nested` a header includes a header, with one edit between two invocations
or during them.
- `StoredIsWholeIfApart`: where no two files of an invocation have one name in
  the store (`NamesApart`), whatever is under the name of a result is, repaired, all
  that one clang-tidy wrote before it ended or failed, never half of it or that of
  one that got Ctrl-C. Two invocations meet in the same result here;
  the process id in the name of the temporary file is what keeps them apart.
- `ReportCurrent`: an invocation reports, be it from the store or from its own run,
  what clang-tidy said in an invocation that began with the same contents of the
  file and of its own includes, unless clang-tidy failed.
- `StoredForGood`: a result, once stored, is never removed, and changed only where
  clang-tidy failed.
- `WorkIsExclusive`: no file of the list is worked on twice.
- `NoLitter`: an invocation that comes to its report leaves no temporary file.
- `Finishes`: an invocation that has begun comes to its end, unless killed.

`ReportCurrent` and `StoredForGood` are about projects in which nothing cancels
out of a hash (`HashesWhole`: each file has a text of its own and includes headers
of different names, none of them its own) and behaviours in which edits are made between invocations
(`undisturbed`); the code takes no precaution against others.

**clang_tidy_nested** (`ClangTidyNested.cfg`) shows what `ReportCurrent` leaves out. A source
file includes a header, which includes another one; the latter is edited between
two invocations. No hash but that of the two headers changes, as
run-clang-tidy-cached.cc:477-492 look at one level of includes, so the second
invocation reports of the source file what clang-tidy said of the old header,
although a file is to be revisited "if any of its include files changed content"
(run-clang-tidy-cached.cc:107). `ReportRevisited` is that promise.

**clang_tidy_copies** shows what the name of a result does not tell apart. Of two
headers of one name, the one that includes that name is hashed twice, as itself
and as a header of the name, so that its own contents cancel out and its hash is
that of the other. They have one temporary file,
which two threads then write at once, so that the file put in place is empty or
half written, although PathFor expects the content hash to make the name unique
(run-clang-tidy-cached.cc:212). No two files have the same contents here.

A source file and one header are enough for `ContentHash`, which looks at one
level of includes, and one header more for what it does not look at; three files let two threads be on different files while a
third is queued; two edits let a text change and change back.

Why the bounds of the other runs are enough: the walk and the reader decide by
looking at one address and its successor, so each case is a change of minor, column, row, half
or block type, or the end of the part. The parts have all of these changes, next
to each other in every order, and the widths make every field overflow. What
does depend on size is proved instead (below).

Fairness: `WF_vars(Next)` in all but `ClangTidyCache` and `DatabaseLoading`. The encoder is one thread
with no wait in it, no more than parser and assembler, and a reader of packets
goes on while there are packets; no order between actions is assumed, as the
fairness is of the whole next-state relation. Deadlock is not checked in these
runs because the loop, and the device, are done at some point; that they get
there is what `Termination`, `LoadsAll` and the liveness part of
`LoadsFrameByFrame` and `DeliversPackets`, and `Ends`, say. `FrameLoading`
promises its end as a leads-to, `accepts ~> Missing = {}`, rather than by the
fairness of a step. (Reading a file that
never ends is not modelled.) In `DatabaseLoading` the steps of the program are
fair (`Open \/ Read`); nobody has to ask for a tile type or to remove a file. In `ClangTidyCache` each thread is weakly fair, as
the operating system schedules it, and so is the main thread of each invocation,
which waits for the threads and then writes the report; that clang-tidy ends is
assumed with it. Nothing makes anyone start an invocation, edit a file or
interrupt.

Disagreements with comments that were met on the way and have no run:
- A line that the parser skips, such as one with an inverted range, is left out of a
  bitstream that is written all the same: the assembler gives up at the two worst
  results only (assembler.cc:287), although fasm-parser.h:44 has one worry at kSkipped.
- A parse callback that returns false "wants the parsing to abort"
  (fasm-parser.h:32-33), but is called again on later lines: the `break` at
  line 346 leaves only the loop over chunks. The assembler's callback never does so.
- A number of more digits than its range is reported beyond the end of the range
  in whole words, although a test (fasm-parser_test.cc:134) has it "properly
  shaved"; and a range of more than 64 bits without a value, or with a short
  hexadecimal or binary one, is reported in one call of its whole width.
- A word of zeroes in a bitstream is yielded as a packet of type 0, although a
  comment (arch-xc7-configuration-packet.cc:56-58) says that none is generated.
- The parsers of lines read the character behind a file whose last line has no
  newline (database-parsers.cc:405-407), although tests have such files
  (database-parsers_test.cc:131-133); it is there unless the file fills its last page.
- A feature `FOO` and one `FOO[0]` are the same in segbits files
  (database-parsers.cc:494-519), so the second of
  them is dropped.
- A source file that includes two headers of one name from two directories gets
  the xor of both hashes twice, so that it is not processed again when one
  of them changes, although run-clang-tidy-cached.cc:108-110 says so.

## What is proved

About the frames: for every set of parts, every design, every width of the
fields, from `LimitsAssumption` (the widths are positive) and `FramesAssumption` (parts are
what the constructors build, keys are addresses).

`XC7FramesProofs` is first about the walk. `NextIsLaterFrame`: the address returned is
a frame of the part and numerically later, if rows, columns and frames fit
their fields. It splits on the six ways `GetNextFrameAddress` answers
(`NextForm`), each of which changes one field and clears those below it.
`NextSkipsNone`: on a regular part no frame lies between an address and the
answer, or after an address without answer. This goes level by level: in a row,
in a half, in the part (`SkipsNoneInRow`, `SkipsNoneInRegion`). The least key
after a key (`KeyAfterExists`) needs well-founded induction over the naturals
through the library's lemma about smallest elements.

Then it proves that `Spec` of `XC7Frames` keeps `TypeOK`, `AssembledKept`,
`AddedArePartFrames` and `Swept`, and that `CursorAdvances`. The inductive
invariant `IInv` adds `CursorIsFrame`: the loop stands at address zero or at a
frame of the part. Without it the frame inserted next need not be of the part,
and `NextSkipsNone`, which holds only from such addresses, would not apply.
Both actions are first shown to be one and the same `Iteration` (insert a blank
frame where there is none, go on), so that each conjunct is shown once.

`Termination` is only model-checked; with `Advances`, and finitely many
addresses, it is what one expects.

`XC7ProgrammingProofs` is about the whole way from the frames of the features to
a configured device; besides those assumptions `ProgrammingAssumption` has parts
and keys as above, `Blank` among the words, and two different idcodes. It proves
- `TypeCorrect`;
- `WritesOnce` (`NoSecondWrite`), for every part, regular or not: after the frame
  data the command register no longer holds WCFG, so that the FAR write of the
  finalization arms nothing;
- `LoadsTheDesign` (`LoadsDesign`): of a regular part that fits, and of whatever
  design, the device holds at each address below the first stray frame what the
  encoder had there, at any time;
- `ConfiguredWhole`: a device that comes to report itself configured has the
  idcode of the bitstream, and then holds all of the design below the first
  stray, and nothing else there;
- `LoadsByFrames`: where all parts are regular and fit, the initial state is one
  of `FrameLoading`, and each step loads the next frame or stutters. (That
  loading ends is the liveness part of `LoadsFrameByFrame`, left to TLC.)

Its invariant follows a frame through the stages. The filling keeps the invariant
of `XC7FramesProofs` (through an instance; the `Same...` lemmas show that the
definitions in the instances are those of `XC7Part`). `CopiedInOrder`
says that frames are laid out from the lowest on. `Layout` says that each of them has a
place in the payload: the lowest the first, and of two adjacent ones the next the place
behind the other and its padding (`Placed`: two blank frames where the row changes
or the part ends), and that the reader, while it handles the
frame data, stands at the place of the address it is about to write (`Located`).
`Queued` says that the packets left are the rest of the package, and `Sequenced`
what each register can be after so many packets, with the place of the FDRI
packets, of the idcode and of the commands in the package; that is what rules
out a second write. `Loads` says what the device then has: all frames below that
address, as the design has them, and nothing else. The step of one frame needs `NextSkipsNone`: as no
frame of the part is missing in the design and none is skipped by the walk, the
next address of the device is the next of the payload, and both see the same change
of row. Strays break the correspondence from the first of them on, and only
from there.

About bitstreams of other tools: `XC7StreamsProofs` proves `LandsRightly`
(`LandsInPlace`), for every width of the fields, any number of cuts, any marker and
any order of the packets, from `StreamsAssumption`: parts are regular and fit their
fields. (What happens to other parts `NextSkipsNone` and `xc7_frames_gap` show: the
walk misses frames, and a stream that has them all cannot land.) Three parts:
- the frames of a part, in order, are its walk. `InOrder` chooses the k-th element by
  how many are below it, and a finite set with a total order has one for each
  k (`PlacesAreTaken`); what is between two adjacent ones is nothing, so by
  `NextIsLaterFrame` and `NextSkipsNone` the one is the answer for the other (`OrderIsWalk`);
- the frame data of a chunk is the slots of its frames one after the other, so
  what is left of a packet after `offset` begins with the slot of the frame
  whose address the cursor shows (`Position`): a frame goes there, and the padding
  behind it is skipped where the reader sees the row change. At the end of the chunk
  the cursor shows the first frame of the next;
- which packet is next says what the registers are: in a stream with markers
  bit 21 is set, so that a FAR write starts nothing and, whatever it shows, the cursor
  stays where the last chunk ended (`MarkedRegisters`); in the other that bit is clear
  and CMD still WCFG, so that each FAR write moves the cursor to the first frame of the
  chunk behind it (`SeekingRegisters`).

`StreamInv` is the conjunction of the last two with `LandsInPlace`, which alone is
not inductive: a device whose cursor is one frame behind has done nothing wrong yet.

About the bitstream: for every set of packages, with any data and any limits on
the counts, from `CountAssumption` (the limits are positive), `PackagesAssumption`
(packages are sequences of packets), `HeaderAssumption` (the words that begin
a bitstream end with the sync word), `SyncAssumption` (it is the first sync word: of
the words of `header_` in bitstream-writer.cc only the last is 0xaa995566, and the names
in the .bit header do not contain its four bytes) and `BitHeaderAssumption` (the .bit
header before the length is a sequence of bytes).

`BitstreamFileProofs` is first about the parser of packets. `ParsesWhatIsWritten`: where a
package is `Sound`, the parser gets a packet back from the words the writer made
of it, and leaves exactly what follows. The words are taken apart by position
(`WordsOfPacket`), and the header says what they are because a count below the
limit is its own remainder (`HeaderOfPacket`). `LeavesWhatIsCut`: of a packet cut
short nothing is consumed, so a reader never makes up a packet at the end of a
file that was cut. `ParsingAdvances`: on any words at all the parser leaves
fewer, or leaves all and has no packet, which is where the reader stops.

Then it proves that `Spec` of `BitstreamFile` keeps `TypeOK` and `LengthOfWhole`. `IInv` states the same
of the variables of both sides, with the type of `received` beside it: that the
previous packet is the last of those received is not kept by a step unless
`Append` is known to append. That there is at most one previous packet
(`ParsedPacket`) rests on `TypeOK` itself: a packet of type 2 gets one register
because there is one packet at most before it. `LengthVouches` (`LengthOfWhole`) needs
`Whole` beside it, which says at each place of the nested iterators what the file
is: header, a length of zero, and exactly the bytes of the words put so far
(`PutSoFar`); of a file that has failed, only that its length, if there is any, is zero.
The last write puts the length over the zero, and there the file is taken
apart and put together again (`FileParts`, `LengthWhole`).

`DeliversSafely` is the safety part of `DeliversPackets`: for every set of packages and
wherever the stream breaks, each step of writer and reader maps to a step of `PacketTransfer`
or to none. Besides `Whole` it needs two invariants. `Cut`: what is in a file whose
stream broke is the beginning of the whole file, and shorter than it. `ReadSoFar`: while
sound packets are to come, what has been received are the first packets of the package,
and the words that are left are those behind them (`AtPacket`); after that, all sound
packets have been stored and received (`PastAll`). Where the packets of a package end in the file
grows with them (`EndsInOrder`), so the number that is stored is that of the ends within
the file (`StoredUpTo`), and one more word completes one packet at most
(`StoredWithWord`): that is the writer's side (`WriterStores`). On the reader's side
the sync word is found where the header ends and not before, also not across the border of
two words (`SyncNotBefore`, `SyncFound`); the words found are those of the package, as
many as are whole (`WordsFound`); and the next packet is parsed when all of its words are left, and
otherwise none is (`ParsesNext`), which is where the file was cut (`PacketRead`). A reader
that finds no sync word or throws has a file that is not whole (`BytesRead`).

The first lemmas of the module are what these rest on. `FlattenSeq` is defined by recursion
over the sequence, and the library's theorems for that take an operator, which
the provers cannot instantiate. The facts of which the library derives them do
not: that a non-empty set has a least element for a well-founded relation is
about sets. So `NatSetInduction` is about the set of the numbers for which
something holds, `SeqSetInduction` about such a set of sequences; `JoinsExist`
and `JoinsAgree` show with it that there is one function with the recursive
property, and `FlattenAppend` computes one more step of it.

About the parser: for every text, every width of a word and of a bit number and
every callback, from `ParserAssumption` (a width is a multiple of four, as
64 is) and `ContentsAssumption` (texts are sequences of what the scanner finds).
`FasmParserProofs` proves all its invariants and its action property: `AcceptedWhole`
(`AcceptedIsWhole`), `IssuesKept` (`SeverityKept`), `ValueReported` (`ReportsValue`) and
`TypeCorrect` (`TypeOK`). For the first two the invariant, `IInv`, says of the lines before the current one, unless the
result is kSkipped or worse, that they are whole, and of the current one what
has been called: of a value all bits below the next chunk (`CalledSoFar`), and of
annotations that they are, in the list of all calls, in one piece after those of the
lines before (`NotedSoFar`). Two facts are not of the property and still needed:
while chunks are reported the width is that of the range, because the code
that trims it sets kError (`Position`); and every value has at least one chunk
(`BitsetLen`), without which the loop over chunks would report nothing.

`ValueReported` is about numbers of any length, where a run has three words of four
bits. `RInv` adds to `Position` what has been reported (`Reported`): the chunks are those
of the line, the last call is the chunk before (`LastCalled`), and so the next one begins
where it ended. That the bits are right is a fact about the value alone (`ChunksOfValue`),
and most of the proof:
- the provers know nothing of powers of two. That `2 ^ n` is a natural and doubles
  from n to n + 1 comes from the library's number of subsets of a set (`PowersOfTwo`),
  the power of a sum by induction (`PowerOfSum`);
- `FoldLeft` is a function on sets of positions that is chosen by its recursion.
  There is one for every number of digits (`FoldsExist`), and they agree where the
  digits do (`FoldsAgree`); so one digit more is one step more (`NumberAppended`);
- by induction over the digits: reducing to a word after each digit, as the
  code does, is reducing at the end (`NumberWraps`); n digits of b bits stay below
  2 ^ (b * n) (`NumberBelow`), and a number is its first digits, shifted, plus the others
  (`NumberOfConcat`);
- cutting the digits into words from the front and reversing the words puts
  each word at its place if the digits fill them (`WholeWords`): the number is what is before the
  k-th word, the word and what is after it, and dividing and reducing drops the
  last and the first. It is here that digits that do not fill the words, as
  `fasm_unaligned` shows, come out wrong.

`TypeCorrect` needs `RInv` too: that there is a chunk to report, and that chunks
are words, are facts about the value of the line (`BitsetWords`).

About the assembler: for every database, every text, every set of IOB33, HCLK and
STEPDOWN names and every order of the hash maps, from `AssemblerAssumption`: a value
has a positive number of bits, a multiple of four; texts are sequences of what the
scanner finds; the sets of names are finite, and the three features of PUDC_B have
no STEPDOWN in their names. The numbers of blocks and segbits have the ranges of their types
(`DatabaseAssumption`), and a frame has a positive number of words. `AssemblerProofs`
proves all its invariants: `WritesAllOrNothing` (`WrittenIsWhole`), `LeavesUsedSites` (`UsedSitesKept`),
`WritesTheDesign` (`FramesOfDesign`), `WritesTheText` (`FramesOfText`), `StaysInBlocks`
(`BitsInBlocks`) and `TypeCorrect` (`TypeOK`).

The first two come from `IInv`: each call of the parser is a feature
(`Collected`), each feature is one of a line, of PUDC_B, whose names have four parts, or of a
site that the lines do not use (`Origin`, `SteppedRightly`), each bit before the
current one is of a tile and feature that has been read (`SetUp`), and a line that is not
accepted ends the program (`Accepted`). That the parser, at any of its steps, calls
back numbers and at most one feature more (`ParserSteps`) is shown of
`FasmParser` as `Assembler` instantiates it, with the lemmas of `FasmParserProofs`.

`WritesTheDesign` follows a bit from the line to the frame, in two halves that meet in the
list of features. `Framed`: at each bit the frames are those of the bits so far, with
the blocks marked of the features that are finished (`MoreCalls`, `MoreFrames`: setting
bits in frames is the union of the calls, whatever their order; `OneResolution`:
where aliases agree, the hash map has no choice). `ReadFrom` and `Completed`: the
features are those of the lines and of PUDC_B, and then `Complete` of them.
The heart of that half is `SteppedBits`: the names that `AddStepDownFeatures`
computes from lists and sets of the code are, for the one bank of each tile,
exactly the sites and HCLK tiles that the design leaves free; in whatever order,
each is added (`OrderedFeatures`: a list of distinct names as long as there are names
has them all). What the bit setter is called with is the place that the property
has for a bit where nothing wraps (`CallIsPlace`).

`StaysInBlocks` (`BitsInBlocks`) is about the same calls: of a segbit of its block the
wrapped offset and the sum wrap back to a word of the block, below the 101
(`OfBlockInFrame`), and so do all calls of a feature (`FramesOfCalls`).

`WritesTheText` puts the theorems about the parser before it, so that nothing is
assumed between the digits of a line and the frames. The parser of `Assembler` takes
the steps of `FasmParser` (`SameSteps`), from its initial state for each line, so
while a line is parsed the invariants of `FasmParserProofs` hold
(`ParsedRightly`); besides, a line is skipped only for an inverted range (`NotSkipped`),
as the severities of `ReadValue` leave `kSkipped` out. When it is done, each call
has bits of the number that belong at its place and all of the range is called
(`WholeLine`); a bit of a part of a number is a bit of the number (`BitOfPart`),
so the features that the callback makes of the calls have the bits that the text
assigns, and none outside their width (`LineIsAssigned`). The latter is what
`WritesTheDesign` asks of features (`IsDefinite`): that a shift by too much
is undefined never matters in such a line.

`TypeCorrect` adds `Bounded` (the bit is one of the feature, or the one after the
last) and `Known` (only what is indexed is read, the buses are those of the tile).

About the database: for every database, with files of any number and any lines, from
`DatabasesAssumption` (each file of a tile type is missing, not mapped or mapped; what is
mapped is a sequence of lines, or JSON whose objects are sequences of members, as deep
as the parsers go) and `ParsersAssumption` (what Atoi gives is a number).
`DatabaseLoadingProofs` proves all invariants of `DatabaseLoading`, from four inductive ones:
- `CacheInv`, for `CachesWholeTypes` (`CachedIsContent`): up to the line that is next, a file
  has given what its lines say (`Gives`), the files before have given their content
  (`SegmentsRead`), and the type that is read is not in the cache (`ReadingNew`). A
  file that is gone ends the request and leaves `segments` behind, so this
  is claimed only while a type is read. `Indexed` says that what was found is there;
- `InfoInv`, for `PartOfOwnEntry` (`InfoOfOwnEntry`): the entry that is read begins at some
  line, has what its own lines have given last (`IsEntry`, `GivesLast`), and the
  entries before have been handed over (`HandedOver`), of each name the first;
- `BanksInv`, for `BanksOfBothFiles` (`BanksAgree`): the IO banks are those of the members
  of part.json (`IsBanksOf`, by induction over the loop of `ForMembers`), the pins those
  of the lines read so far (`IsPinsOf`), and the maps have, at any point of the
  loops of `Create`, the pairs that are due and no other (`Registry`, `DueRegistered`).
  That IO banks are first in a tile's list holds because no pin is registered
  while an IO bank is left;
- `JSONInv`, for `PartAndGridAsWritten` (`JSONAsWritten`): what is kept of a JSON file is what
  its parser gives for it, and the tile grid is that of the fabric, which is chosen
  before (`NoTileGridYet`). The rest is about the parsers. Each loop over members is a
  run that combines what their values give (`IsRun`; `RunExists` and one lemma for
  each loop, such as `ColumnsAreResult`), and by induction a run without an error
  has appended all values under their index (`AppendedAll`) or inserted, under each
  name, the value of the first member that has it (`InsertedAll`), which is the
  one that `Member` finds (`FirstMember`). `ColumnsRead`, `RowRead`, `RegionHalfRead` and so on put
  the loops within loops together, one level at a time.

`TypesOfLoading` (`TypeOK`) needs `CacheInv` and `BanksInv`: that banks are below 2^32 comes
from the parsers (`BanksAreUint`).

About the clang-tidy runner: for every project, any number of invocations,
threads, edits and signals, from `ProjectAssumption` (a project lists its files, each once; what is
included are files) and `VersionsAssumption` (files begin somewhere). `ClangTidyCacheProofs`
proves all its invariants and its action property: `TypesAreRight` (`TypeOK`),
`NothingTwice` (`WorkIsExclusive`), `LeavesNothing` (`NoLitter`), `ResultsAreWhole` (`StoredIsWholeIfApart`),
`ReportsAreCurrent` (`ReportCurrent`), `ResultsAreForGood` (`StoredForGood`), and besides
`ReportsAreRevisited`: `ReportRevisited` holds where no header includes another one
(`NothingNested`). They come from
one invariant, whose parts need each other:
- `Staged`: threads of an invocation work only between its beginning and report;
- `Exclusive`: a file is in the queue or with one thread, not both;
- `TmpOfThreads`: each temporary file belongs to a thread that has it;
- `Covered`: without interruption, a file is queued, worked on or has a result, and at
  the end it has one, which is what makes the report complete;
- `Hashes`: keys are the hashes of what the invocation saw when it began;
- `Stored`, where names are apart: the temporary file of a thread is bound to the inode
  that it alone writes and holds what its step says (`HoldsTmp`); each result
  is a whole output of an invocation that is through with the file (`IsResult`). Two
  invocations may put a result under one name: the later one replaces
  the inode and not its bytes;
- `Agreed`: if a result appears under the key of a file that an invocation has yet to
  do, it is what clang-tidy says of the present contents, or of one that failed
  (`SaidOf`): another invocation was as fast, and edits did not come between.

Where nothing cancels out (`HashesWhole`) equal hashes mean equal contents, by
counting the contents of a hash (`Cardinality ... % 2`), and only then a result found under the
key says what the tool said of the same file and includes. The counterexamples of `clang_tidy_copies` are
why this is a hypothesis of the property.

Not proved: liveness (`Termination`, `LoadsAll`, `Finishes`, `Ends`, `Returns`, and the
ends of `LoadsFrameByFrame` and `DeliversPackets`), which is beyond the prover.

## What is not modelled

Words inside a frame (but for the bits in `Assembler`), the CRC, wording of
messages. The characters of a FASM text: blanks, digit separators and comments
are skipped by the scanner, and a line that ends with a tick, which makes it go
on in the next line, is left out. Of the database files the syntax of JSON, which is
rapidjson's, and blanks, comments and quotes; a file that is changed or cut while
it is mapped; tile types whose names differ in case only and so share their
files. `Assembler` reads the files of a tile type at once or not at all:
`CachedIsContent` is the reason. The component list in
PROJECT.json says for each part whether it is modelled. `Frames::AddFrame` and
the ECC have no caller in the program. `xilinx/bistream-writer.h` is an unused
copy of the writer. Streams cut within the padding of a row are not generated:
the reader takes the rest of the padding of such a cut for frames, and nothing
says whether such streams exist. Of the clang-tidy runner the summary of counts
and the symbolic links to it are left out, and that invocations started in one
directory write their reports to one file. An edit during a run gives a result under the hash of the
text before it: `ReportCurrent` is checked for edits between runs only.

## Plan

1. The whole of `Encode`: `BitstreamFile` between package and device of
   `XC7Programming`, with frames as one word of data.
2. ECC as a fold, against a bitwise definition.

Theorems planned: `FromPart` and `PartOf` give parts (`IsPart`).
