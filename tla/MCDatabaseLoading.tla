--------------------------- MODULE MCDatabaseLoading ---------------------------
(***************************************************************************)
(* Databases for TLC: one that is as it should be, and one for each way in *)
(* which one of its files can be otherwise.                                *)
(***************************************************************************)
EXTENDS DatabaseLoading

MCAtoi ==
  ("0" :> 0) @@ ("1" :> 1) @@ ("2" :> 2) @@ ("14" :> 14) @@ ("014" :> 14) @@
  ("16" :> 16) @@ ("-1" :> -1) @@ ("999" :> 999)
MCStrtol == ("0x10" :> 16) @@ ("-1" :> -1) @@ ("0x8000" :> 40000)

-----------------------------------------------------------------------------
Obj(members) == <<"object", members>>
M(name, value) == [name |-> name, value |-> value]
Num(n) == <<"number", n>>
Str(text) == <<"string", text>>
Map(f) == Obj(SetToSeq({M(name, Str(f[name])) : name \in DOMAIN f}))
Invalid == <<"invalid", <<>>>>

JSON(json) == [state |-> "mapped", json |-> json]
Lines(lines) == [state |-> "mapped", lines |-> lines, ends_page |-> FALSE]
EndsPage(file_) == [file_ EXCEPT !.ends_page = TRUE]
Unmapped == [state |-> "unmapped"]

-----------------------------------------------------------------------------
Skip == [kind |-> "skipped"]
Top(key) == [kind |-> "top", key |-> key, colon |-> TRUE]
Nested(key, value) == [kind |-> "nested", key |-> key, value |-> value, colon |-> TRUE]
NoColon(line) == [line EXCEPT !.colon = FALSE]

Devices ==
  <<Skip, Top("d2"), Nested("fabric", "f2"), Top("d1"), Nested("fabric", "f1"), Skip>>
Entry(part_name, device) ==
  <<Top(part_name), Nested("device", device), Nested("package", "csg"), Nested("speedgrade", "3")>>
Parts == Entry("p0", "d2") \o <<Skip>> \o Entry("p1", "d1")

DevicesFiles ==
  {Missing, Unmapped,
   Lines(<<Top("d1"), Skip, Nested("fabric", "f2"), Nested("fabric", "f1"),
           Top("d2"), Nested("fabric", "f2"), Top("d1"), Nested("fabric", "f2")>>),
   Lines(<<Nested("fabric", "f2"), Top("d2"), Nested("fabric", "f2"), Top("d1")>>),
   Lines(<<Top(""), NoColon(Nested("fabric", "f1"))>>),
   Lines(<<>>)}

PartsFiles ==
  {Missing, Unmapped,
   Lines(Entry("p1", "d1") \o Entry("p1", "d2")),
   Lines(Entry("p0", "d2") \o <<Top("p1"), Nested("device", "d1"), Nested("speedgrade", "2")>>),
   Lines(Entry("", "d2") \o <<Top("p1"), Nested("package", "csg"), Nested("device", "d2"),
         Nested("device", "d1"), Nested("speedgrade", "2")>>),
   Lines(Entry("p1", "d1") \o <<Top("p0"), Nested("device", "d3")>>),
   Lines(Entry("p1", "d1") \o <<NoColon(Top("p0"))>>),
   Lines(Entry("p0", "d1"))}

-----------------------------------------------------------------------------
AliasJSON == Obj(<<M("sites", Map([X0Y0 |-> "X0Y1"])), M("start_offset", Num(2)), M("type", Str("T2"))>>)
BlockJSON(base, offset) ==
  Obj(<<M("baseaddr", base), M("frames", Num(2)), M("offset", Num(offset)), M("words", Num(2))>>)
AliasedJSON(offset) == Obj(<<M("alias", AliasJSON)>> \o BlockJSON(Str("0x10"), offset)[2])
TileJSON(bits) ==
  Obj(<<M("bits", bits), M("grid_x", Num(0)), M("grid_y", Num(1)),
        M("pin_functions", Obj(<<>>)), M("prohibited_sites", <<"array", <<Str("S")>>>>),
        M("sites", Map([S |-> "SLICEL"])), M("type", Str("T1"))>>)
GridJSON ==
  Obj(<<M("A", TileJSON(Obj(<<M("CLB_IO_CLK", AliasedJSON(-1)), M("BLOCK_RAM", BlockJSON(Str("none"), 1))>>))),
        M("B", TileJSON(Obj(<<>>)))>>)

BitsVariants ==
  {Obj(<<M("CLB", BlockJSON(Str("0x10"), 0))>>), Num(0),
   Obj(<<M("CFG_CLB", BlockJSON(Str("0x8000"), 0))>>),
   Obj(<<M("CFG_CLB", BlockJSON(Str("-1"), 0))>>),
   Obj(<<M("CFG_CLB", BlockJSON(Str("-1"), 200))>>),
   Obj(<<M("CFG_CLB", BlockJSON(Num(16), 0))>>),
   Obj(<<M("CLB_IO_CLK", AliasedJSON(3)), M("CLB_IO_CLK", BlockJSON(Str("0x10"), 1))>>)}

TileGridFiles ==
  {Unmapped, JSON(Invalid), JSON(Obj(<<M("A", Num(1))>>)),
   JSON(Obj(GridJSON[2] \o <<M("A", TileJSON(Obj(<<M("CLB_IO_CLK", BlockJSON(Str("0x10"), 1))>>)))>>))}
  \cup {JSON(Obj(<<M("A", TileJSON(bits))>>)) : bits \in BitsVariants}

-----------------------------------------------------------------------------
Column(key, count) == M(key, Obj(<<M("frame_count", Num(count))>>))
RowJSON(key, bus, columns) ==
  M(key, Obj(<<M("configuration_buses",
                 Obj(<<M(bus, Obj(<<M("configuration_columns", Obj(columns))>>))>>))>>))
Rows2 ==
  <<RowJSON("0", "CLB_IO_CLK", <<Column("0", 1), Column("1", 2)>>),
    RowJSON("1", "BLOCK_RAM", <<Column("0", 1)>>)>>
Swapped(rows) == <<rows[2], rows[1]>>
PartJSON(bottom, top, iobanks) ==
  Obj(<<M("global_clock_regions",
          Obj(<<M("bottom", Obj(<<M("rows", Obj(bottom))>>)),
                M("top", Obj(<<M("rows", Obj(top))>>))>>)),
        M("idcode", Num(1))>> \o iobanks)
IOBanks == <<M("iobanks", Map(("14" :> "X1Y1") @@ ("16" :> "X1Y1")))>>

PartFiles ==
  {Missing, Unmapped, JSON(Invalid), JSON(Obj(<<M("idcode", Num(1))>>))}
  \cup {JSON(PartJSON(Rows2, <<>>, iobanks)) : iobanks \in
          {<<>>, <<M("iobanks", Num(1))>>, <<M("iobanks", Map([X |-> "X1Y1"]))>>,
           <<M("iobanks", Obj(<<M("14", Num(1))>>))>>,
           <<M("iobanks", Obj(<<M("14", Str("X1Y1")), M("014", Str("X2Y2"))>>))>>}}
  \cup {JSON(PartJSON(rows, Rows2, IOBanks)) : rows \in
          {Swapped(Rows2), <<Rows2[2]>>, <<RowJSON("0", "CLB", <<>>)>>,
           <<RowJSON("0", "CLB_IO_CLK", Swapped(<<Column("0", 1), Column("1", 2)>>))>>,
           <<RowJSON("0", "CLB_IO_CLK", <<Column("0", 1), Column("a", 2)>>)>>,
           <<RowJSON("0", "CLB_IO_CLK", <<Column("0", 300)>>)>>,
           <<RowJSON("0", "CLB_IO_CLK", <<Column("-1", 1)>>)>>,
           <<RowJSON("0", "CLB_IO_CLK", <<Column("999", 1)>>)>>}}

-----------------------------------------------------------------------------
Pin(bank, tile) == <<"A1", bank, "IOB_X0Y0", tile, "IO_L1P">>
PinsFile ==
  Lines(<<kHeader, Pin("16", "T"), <<"">>, Pin("14", "T"), Pin("16", "HCLK_IOI3_X1Y1")>>)

PinsFiles ==
  {Missing, Unmapped, Lines(<<>>), Lines(<<Pin("16", "T")>>),
   Lines(<<kHeader, Pin("a", "T")>>), Lines(<<kHeader, Pin("", "T")>>),
   Lines(<<kHeader, Pin("-1", "T"), Pin("16", "T")>>),
   EndsPage(Lines(<<kHeader, Pin("2", "T"), Pin("2", "T")>>))}

-----------------------------------------------------------------------------
Words(words) == [empty |-> FALSE, words |-> words]
Empty == [empty |-> TRUE, words |-> <<>>]
Bit(set, x, y) == [set |-> set, coordinates |-> <<x, y>>]
Feature(name, index) == [feature |-> name, index |-> index]

Pips == Lines(<<Words(<<"T1.A.B", "always">>), Empty, Words(<<"T1.A.B", "hint">>),
                Words(<<"T1.A.C", "default">>)>>)
Segbits ==
  Lines(<<<<Feature("F", ""), Bit(TRUE, "0", "14")>>, <<>>,
          <<Feature("F", "0"), Bit(FALSE, "1", "1")>>,
          <<Feature("F", "1"), Bit(TRUE, "0", "1"), Bit(FALSE, "0", "2")>>>>)
Bram == Lines(<<<<Feature("F", "a"), Bit(TRUE, "0", "0")>>>>)

PipsFiles ==
  {Missing, Unmapped, EndsPage(Pips), Lines(<<>>),
   Lines(<<Words(<<"T1.A.B", "always">>), Words(<<>>)>>), Lines(<<Words(<<"T1.A.B">>)>>),
   Lines(<<Words(<<"T1.A.B", "never">>), Words(<<"T1.A.C", "hint">>)>>)}

SegbitsFiles ==
  {Unmapped, EndsPage(Segbits),
   Lines(<<<<Feature("F", "")>>, <<Feature("G", ""), Bit(TRUE, "0", "0")>>>>),
   Lines(<<<<Feature("F", ""), Bit(TRUE, "0", "0")>>,
           <<Feature("G", ""), Bit(TRUE, "0", "0"), Bit(TRUE, "a", "0")>>>>),
   Lines(<<<<Feature("F", ""), [set |-> TRUE, coordinates |-> <<"0">>]>>>>)}

TypeFiles(ppips, segbits, block_ram) ==
  [ppips |-> ppips, segbits |-> segbits, block_ram |-> block_ram]
NoFiles == TypeFiles(Missing, Missing, Missing)
Whole == TypeFiles(Pips, Segbits, Bram)

Directories_ ==
  {[root |-> [T1 |-> TypeFiles(Pips, Segbits, Missing)],
    f1 |-> [T1 |-> TypeFiles(Missing, Segbits, Bram), T2 |-> NoFiles]],
   [root |-> <<>>]}
  \cup {[root |-> [T1 |-> TypeFiles(ppips, Segbits, Missing)]] : ppips \in PipsFiles}
  \cup {[root |-> [T1 |-> TypeFiles(Pips, segbits, Bram)]] : segbits \in SegbitsFiles}
  \cup {[root |-> [T1 |-> TypeFiles(Pips, Segbits, segbits)]] : segbits \in SegbitsFiles}

-----------------------------------------------------------------------------
Base ==
  [part_name |-> "p1", parts |-> Lines(Parts), devices |-> Lines(Devices),
   tilegrids |-> [f1 |-> JSON(GridJSON), f2 |-> JSON(Obj(<<>>))],
   part |-> JSON(PartJSON(Rows2, Rows2, IOBanks)), package_pins |-> PinsFile,
   directories |-> [root |-> [T1 |-> Whole, T2 |-> NoFiles]]]

MCDatabases ==
  {Base, [Base EXCEPT !.tilegrids = [f2 |-> JSON(GridJSON)]],
   [Base EXCEPT !.package_pins = Lines(<<kHeader, Pin("14", "HCLK_IOI3_X2Y2"), Pin("2", "T")>>),
                !.part = JSON(PartJSON(<<>>, <<>>, <<M("iobanks", Map("14" :> "X1Y1"))>>))]}
  \cup {[Base EXCEPT !.devices = f] : f \in DevicesFiles}
  \cup {[Base EXCEPT !.parts = f] : f \in PartsFiles}
  \cup {[Base EXCEPT !.tilegrids.f1 = f] : f \in TileGridFiles}
  \cup {[Base EXCEPT !.part = f] : f \in PartFiles}
  \cup {[Base EXCEPT !.package_pins = f] : f \in PinsFiles}
  \cup {[Base EXCEPT !.directories = f] : f \in Directories_}
=============================================================================
