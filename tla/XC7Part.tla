------------------------------ MODULE XC7Part ------------------------------
(***************************************************************************)
(* Frame addresses of a Series-7 part and the enumeration of the frames    *)
(* the part has (src/fpga/xilinx/arch-xc7-part.{h,cc} and the class        *)
(* FrameAddress of arch-xc7-frame.h).                                      *)
(*                                                                         *)
(* A part is a pair of global clock regions, one per half (0 is the top    *)
(* half, 1 the bottom half).  A region maps row numbers to rows, a row     *)
(* maps block types to buses, a bus maps column numbers to the number of   *)
(* frames of the column: the nested btree_maps of the code.                *)
(*                                                                         *)
(* A std::optional is a set with at most one element.                      *)
(***************************************************************************)
EXTENDS Integers, Sequences

CONSTANTS
  RowLimit,     (* rows a frame address can name, 2^5 in the code           *)
  ColumnLimit,  (* columns a frame address can name, 2^10 in the code       *)
  MinorLimit    (* minors a frame address can name, 2^7 in the code         *)

ASSUME LimitsAssumption ==
  /\ RowLimit \in Nat \ {0}
  /\ ColumnLimit \in Nat \ {0}
  /\ MinorLimit \in Nat \ {0}

(* The block types that own frames, numbered as in the address.            *)
kCLBIOCLK == 0
kBlockRam == 1
kCFGCLB == 2
BlockTypes == {kCLBIOCLK, kBlockRam, kCFGCLB}

(* The halves of a part, as the is_bottom_half_rows bit.                   *)
Halves == 0 .. 1

-----------------------------------------------------------------------------
(* Frame addresses: the fields of the 32 bit word, most significant first. *)

Address ==
  [type: 0 .. 7, bottom: Halves, row: 0 .. RowLimit - 1,
   column: 0 .. ColumnLimit - 1, minor: 0 .. MinorLimit - 1]

(* The constructor from fields: bit_field_set drops the bits of a value    *)
(* that do not fit its field.                                              *)
FrameAddress(type, bottom, row, column, minor) ==
  [type |-> type, bottom |-> bottom, row |-> row % RowLimit,
   column |-> column % ColumnLimit, minor |-> minor % MinorLimit]

Zero == FrameAddress(kCLBIOCLK, 0, 0, 0, 0)

(* Bug: one is added to the minor alone, nothing is carried.               *)
IncrementUncarried(a) == [a EXCEPT !.minor = a.minor + 1]

(* FrameAddress(uint32_t(a) + 1): a full field carries into the next one.  *)
Increment(a) ==
  LET minorFull  == a.minor + 1 = MinorLimit
      columnFull == minorFull /\ a.column + 1 = ColumnLimit
      rowFull    == columnFull /\ a.row + 1 = RowLimit
      halfFull   == rowFull /\ a.bottom = 1
  IN [minor  |-> IF minorFull THEN 0 ELSE a.minor + 1,
      column |-> IF columnFull THEN 0
                 ELSE IF minorFull THEN a.column + 1 ELSE a.column,
      row    |-> IF rowFull THEN 0
                 ELSE IF columnFull THEN a.row + 1 ELSE a.row,
      bottom |-> IF halfFull THEN 0
                 ELSE IF rowFull THEN 1 ELSE a.bottom,
      type   |-> IF halfFull THEN a.type + 1 ELSE a.type]

(* The order of the addresses as 32 bit numbers, operator<=>.              *)
Less(a, b) ==
  \/ a.type < b.type
  \/ /\ a.type = b.type
     /\ \/ a.bottom < b.bottom
        \/ /\ a.bottom = b.bottom
           /\ \/ a.row < b.row
              \/ /\ a.row = b.row
                 /\ \/ a.column < b.column
                    \/ a.column = b.column /\ a.minor < b.minor

-----------------------------------------------------------------------------
(* Which addresses are frames of the part: IsValidFrameAddress of a bus,   *)
(* a row, a region and the part.                                           *)

BusHas(bus, a) == a.column \in DOMAIN bus /\ a.minor < bus[a.column]

RowHas(row, a) == a.type \in DOMAIN row /\ BusHas(row[a.type], a)

RegionHas(region, a) == a.row \in DOMAIN region /\ RowHas(region[a.row], a)

IsValidFrameAddress(part, a) == RegionHas(part[a.bottom], a)

-----------------------------------------------------------------------------
(* The frame that follows another one: GetNextFrameAddress of a column, a  *)
(* bus, a row, a region and the part.                                      *)

OrElse(first, second) == IF first # {} THEN first ELSE second

(* Bug: an iterator that is not advanced.                                  *)
KeyAt(map, k) ==
  {j \in DOMAIN map : j >= k /\ \A i \in DOMAIN map : i >= k => j <= i}

(* The key after k in an ordered map: ++iterator.                          *)
KeyAfter(map, k) ==
  {j \in DOMAIN map : j > k /\ \A i \in DOMAIN map : i > k => j <= i}

ColumnNext(count, a) == {b \in {Increment(a)} : a.minor + 1 < count}

BusNext(bus, a) ==
  IF a.column \in DOMAIN bus
  THEN OrElse(ColumnNext(bus[a.column], a),
              {FrameAddress(a.type, a.bottom, a.row, c, 0) :
                 c \in {k \in KeyAfter(bus, a.column) : bus[k] > 0}})
  ELSE {}

RowNext(row, a) ==
  IF a.type \in DOMAIN row THEN BusNext(row[a.type], a) ELSE {}

RowStart(a, r) == FrameAddress(a.type, a.bottom, r, 0, 0)

(* Bug: the next row is not asked whether it has the bus.                  *)
RegionNextUnasked(region, a) ==
  IF a.row \in DOMAIN region
  THEN OrElse(RowNext(region[a.row], a),
              {RowStart(a, r) : r \in KeyAfter(region, a.row)})
  ELSE {}

RegionNext(region, a) ==
  IF a.row \in DOMAIN region
  THEN OrElse(RowNext(region[a.row], a),
              {RowStart(a, r) : r \in {k \in KeyAfter(region, a.row) :
                                         RowHas(region[k], RowStart(a, k))}})
  ELSE {}

BottomNext(part, a) ==
  {b \in {FrameAddress(a.type, 1, 0, 0, 0)} :
     a.bottom = 0 /\ RegionHas(part[1], b)}

(* Bug: a block type is offered again to its own frames.                   *)
BlockNextAgain(part, a, type) ==
  {b \in {FrameAddress(type, 0, 0, 0, 0)} :
     a.type <= type /\ IsValidFrameAddress(part, b)}

BlockNext(part, a, type) ==
  {b \in {FrameAddress(type, 0, 0, 0, 0)} :
     a.type < type /\ IsValidFrameAddress(part, b)}

(* Bug: the bottom half is not visited.                                    *)
NextInTopHalf(part, a) ==
  OrElse(RegionNext(part[a.bottom], a),
  OrElse(BlockNext(part, a, kBlockRam),
         BlockNext(part, a, kCFGCLB)))

GetNextFrameAddress(part, a) ==
  OrElse(RegionNext(part[a.bottom], a),
  OrElse(BottomNext(part, a),
  OrElse(BlockNext(part, a, kBlockRam),
         BlockNext(part, a, kCFGCLB))))

-----------------------------------------------------------------------------
(* Part(idcode, addresses): the part whose columns reach up to the highest *)
(* minor listed; rows, buses and columns that are not listed do not exist. *)

ColumnOf(addresses) ==
  LET minors == {a.minor : a \in addresses}
  IN (CHOOSE m \in minors : \A n \in minors : n <= m) + 1

BusOf(addresses) ==
  [c \in {a.column : a \in addresses} |->
     ColumnOf({a \in addresses : a.column = c})]

RowOf(addresses) ==
  [t \in {a.type : a \in addresses} |->
     BusOf({a \in addresses : a.type = t})]

RegionOf(addresses) ==
  [r \in {a.row : a \in addresses} |->
     RowOf({a \in addresses : a.row = r})]

PartOf(addresses) ==
  [half \in Halves |-> RegionOf({a \in addresses : a.bottom = half})]

-----------------------------------------------------------------------------
(* Part::FromPart: from the parsed part.json, a pair of sequences of rows, *)
(* each a map from configuration bus names to sequences of frame counts.   *)
(* The buses of a row are visited in the order of a hash map and the first *)
(* one of a block type is kept, so one part.json may give several parts.   *)

BlockTypeFrom(bus) ==
  CASE bus = "CLB_IO_CLK" -> kCLBIOCLK
    [] bus = "BLOCK_RAM"  -> kBlockRam
    [] bus = "CFG_CLB"    -> kCLBIOCLK

ColumnsFrom(counts) == [c \in 0 .. Len(counts) - 1 |-> counts[c + 1]]

RowFrom(row) ==
  LET used  == {bus \in DOMAIN row : row[bus] # <<>>}
      types == {BlockTypeFrom(bus) : bus \in used}
      picks == {f \in [types -> used] : \A t \in types : BlockTypeFrom(f[t]) = t}
  IN {[t \in types |-> ColumnsFrom(row[pick[t]])] : pick \in picks}

GlobalClockRegionFrom(rows) ==
  LET choices == UNION {RowFrom(rows[i]) : i \in 1 .. Len(rows)}
  IN {region \in [0 .. Len(rows) - 1 -> choices] :
        \A r \in 0 .. Len(rows) - 1 : region[r] \in RowFrom(rows[r + 1])}

FromPart(json) ==
  {[half \in Halves |-> IF half = 0 THEN top ELSE bottom] : top \in GlobalClockRegionFrom(json.top),
                                 bottom \in GlobalClockRegionFrom(json.bottom)}

-----------------------------------------------------------------------------
(* What a part looks like whichever constructor built it.                  *)
IsPart(part) ==
  /\ DOMAIN part = Halves
  /\ \A half \in Halves :
       /\ DOMAIN part[half] \subseteq Nat
       /\ \A r \in DOMAIN part[half] :
            /\ DOMAIN part[half][r] \subseteq BlockTypes
            /\ \A t \in DOMAIN part[half][r] :
                 /\ DOMAIN part[half][r][t] \subseteq Nat
                 /\ \A c \in DOMAIN part[half][r][t] :
                      part[half][r][t][c] \in Nat

(* Every row, column and frame of the part has an address of its own.      *)
Fits(part) ==
  \A half \in Halves :
    /\ DOMAIN part[half] \subseteq 0 .. RowLimit - 1
    /\ \A r \in DOMAIN part[half] : \A t \in DOMAIN part[half][r] :
         /\ DOMAIN part[half][r][t] \subseteq 0 .. ColumnLimit - 1
         /\ \A c \in DOMAIN part[half][r][t] :
              part[half][r][t][c] <= MinorLimit

(* The shape under which following GetNextFrameAddress from address zero   *)
(* meets every frame: buses start at column 0 and have no empty column, a  *)
(* bus that some row has is also in every earlier row, rows start at 0,    *)
(* and a block type other than the first one starts in the top half.       *)
IsRegular(part) ==
  /\ \A half \in Halves :
       /\ DOMAIN part[half] # {} => 0 \in DOMAIN part[half]
       /\ \A r \in DOMAIN part[half] : \A t \in DOMAIN part[half][r] :
            /\ 0 \in DOMAIN part[half][r][t]
            /\ \A c \in DOMAIN part[half][r][t] : part[half][r][t][c] > 0
            /\ \A q \in DOMAIN part[half] : q < r => t \in DOMAIN part[half][q]
  /\ \A r \in DOMAIN part[1] : \A t \in DOMAIN part[1][r] :
       t # kCLBIOCLK => 0 \in DOMAIN part[0] /\ t \in DOMAIN part[0][0]
=============================================================================
