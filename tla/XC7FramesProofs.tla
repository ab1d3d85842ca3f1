-------------------------- MODULE XC7FramesProofs --------------------------
(***************************************************************************)
(* First, what GetNextFrameAddress returns, for every part and every width *)
(* of the address fields.  Then AddMissingFrames, for every set of parts   *)
(* and every design too: what TLC checks on the parts of MCXC7Frames.      *)
(***************************************************************************)
EXTENDS XC7Frames, TLAPS, WellFoundedInduction

(* A number that fits a field is not changed by it, and every number is    *)
(* cut down to one that fits.                                              *)
LEMMA FieldRange ==
  ASSUME NEW limit \in Nat \ {0}, NEW n \in Nat
  PROVE  /\ n % limit \in 0 .. limit - 1
         /\ n < limit => n % limit = n
  OBVIOUS

(* The constructor of an address gives an address.                         *)
LEMMA FrameAddressType ==
  ASSUME NEW t \in 0 .. 7, NEW h \in Halves, NEW r \in Nat, NEW c \in Nat
  PROVE  FrameAddress(t, h, r, c, 0) \in Address
  BY FieldRange, LimitsAssumption DEF FrameAddress, Address, Halves

(* The address with the given fields.                                      *)
At(t, h, r, c, m) ==
  [type |-> t, bottom |-> h, row |-> r, column |-> c, minor |-> m]

(* Fields in range are taken over as they are.                             *)
LEMMA FrameAddressFields ==
  ASSUME NEW t, NEW h, NEW r \in 0 .. RowLimit - 1,
         NEW c \in 0 .. ColumnLimit - 1
  PROVE  FrameAddress(t, h, r, c, 0) = At(t, h, r, c, 0)
<1>1. r % RowLimit = r /\ c % ColumnLimit = c /\ 0 % MinorLimit = 0
  BY FieldRange, LimitsAssumption
<1>2. QED
  BY <1>1 DEF FrameAddress, At

(* A non-empty set of numbers has a smallest one.                          *)
LEMMA SmallestExists ==
  ASSUME NEW T, T \subseteq Nat, T # {}
  PROVE  \E i \in T : \A n \in T : i <= n
<1>1. PICK i \in T : \A n \in T : ~ (<<n, i>> \in OpToRel(<, Nat))
  BY NatLessThanWellFounded, WFMin
<1>2. \A n \in T : i <= n
  <2>1. TAKE n \in T
  <2>2. n \in Nat /\ i \in Nat
    BY <1>1
  <2>3. <<n, i>> \notin OpToRel(<, Nat)
    BY <1>1
  <2>4. ~ (n < i)
    BY <2>2, <2>3, Zenon DEF OpToRel
  <2>5. QED
    BY <2>2, <2>4
<1>3. QED
  BY <1>1, <1>2

(* Among the keys of a map above k there is a smallest one.                *)
LEMMA KeyAfterExists ==
  ASSUME NEW map, DOMAIN map \subseteq Nat, NEW k \in Nat,
         NEW j \in DOMAIN map, j > k
  PROVE  \E i \in KeyAfter(map, k) : i <= j
<1> DEFINE T == {i \in DOMAIN map : i > k}
<1>1. PICK i \in T : \A n \in T : i <= n
  <2>1. T \subseteq Nat /\ T # {}
    OBVIOUS
  <2>2. QED
    BY <2>1, SmallestExists
<1>2. i \in KeyAfter(map, k)
  BY <1>1 DEF KeyAfter
<1>3. QED
  BY <1>1, <1>2

-----------------------------------------------------------------------------
(* The five ways in which a frame b can follow a: within its column, in a  *)
(* later column of the bus, in a later row of the region, in the bottom    *)
(* half, and in a later block type.                                        *)

NextMinor(p, a, b) ==
  /\ a.row \in DOMAIN p[a.bottom]
  /\ a.type \in DOMAIN p[a.bottom][a.row]
  /\ a.column \in DOMAIN p[a.bottom][a.row][a.type]
  /\ a.minor + 1 < p[a.bottom][a.row][a.type][a.column]
  /\ b = Increment(a)

NextColumn(p, a, b) ==
  /\ a.row \in DOMAIN p[a.bottom]
  /\ a.type \in DOMAIN p[a.bottom][a.row]
  /\ \E c \in KeyAfter(p[a.bottom][a.row][a.type], a.column) :
       /\ p[a.bottom][a.row][a.type][c] > 0
       /\ b = FrameAddress(a.type, a.bottom, a.row, c, 0)

NextRow(p, a, b) ==
  \E r \in KeyAfter(p[a.bottom], a.row) :
    /\ RowHas(p[a.bottom][r], RowStart(a, r))
    /\ b = RowStart(a, r)

NextHalf(p, a, b) ==
  /\ a.bottom = 0
  /\ b = FrameAddress(a.type, 1, 0, 0, 0)
  /\ RegionHas(p[1], b)

NextBlock(p, a, b) ==
  \E t \in {kBlockRam, kCFGCLB} :
    /\ a.type < t
    /\ b = FrameAddress(t, 0, 0, 0, 0)
    /\ IsValidFrameAddress(p, b)

(* What a row answers stays in a column or goes to a later one, what a     *)
(* region answers stays in the row or goes to a later one.                 *)
LEMMA RowNextForm ==
  ASSUME NEW p, NEW a, a.row \in DOMAIN p[a.bottom],
         NEW b \in RowNext(p[a.bottom][a.row], a)
  PROVE  NextMinor(p, a, b) \/ NextColumn(p, a, b)
<1> DEFINE row == p[a.bottom][a.row]
<1>1. a.type \in DOMAIN row /\ b \in BusNext(row[a.type], a)
  BY DEF RowNext
<1>2. QED
  BY <1>1 DEF BusNext, ColumnNext, OrElse, NextMinor, NextColumn

LEMMA RegionNextForm ==
  ASSUME NEW p, NEW a, NEW b \in RegionNext(p[a.bottom], a)
  PROVE  \/ NextMinor(p, a, b)
         \/ NextColumn(p, a, b)
         \/ NextRow(p, a, b)
<1>1. a.row \in DOMAIN p[a.bottom]
  BY DEF RegionNext
<1>2. \/ b \in RowNext(p[a.bottom][a.row], a)
      \/ NextRow(p, a, b)
  BY <1>1 DEF RegionNext, OrElse, NextRow
<1>3. QED
  BY <1>1, <1>2, RowNextForm

(* GetNextFrameAddress answers in one of these ways.                       *)
LEMMA NextForm ==
  ASSUME NEW p, NEW a, NEW b \in GetNextFrameAddress(p, a)
  PROVE  \/ NextMinor(p, a, b)
         \/ NextColumn(p, a, b)
         \/ NextRow(p, a, b)
         \/ NextHalf(p, a, b)
         \/ NextBlock(p, a, b)
<1>1. CASE b \in RegionNext(p[a.bottom], a)
  BY <1>1, RegionNextForm
<1>2. CASE b \in BottomNext(p, a)
  BY <1>2 DEF BottomNext, NextHalf
<1>3. CASE b \in BlockNext(p, a, kBlockRam) \cup BlockNext(p, a, kCFGCLB)
  BY <1>3 DEF BlockNext, NextBlock
<1>4. QED
  BY <1>1, <1>2, <1>3 DEF GetNextFrameAddress, OrElse

(* GetNextFrameAddress answers with at most one address.                   *)
LEMMA NextUnique ==
  ASSUME NEW p, IsPart(p), NEW a \in Address,
         NEW b \in GetNextFrameAddress(p, a),
         NEW c \in GetNextFrameAddress(p, a)
  PROVE  b = c
<1> DEFINE region == p[a.bottom]
           One(S) == \A x, y \in S : x = y
<1>1. DOMAIN region \subseteq Nat
  BY DEF IsPart, Address
<1>2. One({RowStart(a, r) : r \in {k \in KeyAfter(region, a.row) :
                                      RowHas(region[k], RowStart(a, k))}})
  BY <1>1 DEF KeyAfter
<1>3. ASSUME a.row \in DOMAIN region
      PROVE  One(RowNext(region[a.row], a))
  <2>1. ASSUME a.type \in DOMAIN region[a.row]
        PROVE  One(BusNext(region[a.row][a.type], a))
    <3> DEFINE bus == region[a.row][a.type]
    <3>1. DOMAIN bus \subseteq Nat
      BY <1>3, <2>1 DEF IsPart, Address
    <3>2. One(ColumnNext(bus[a.column], a))
      BY DEF ColumnNext
    <3>3. One({FrameAddress(a.type, a.bottom, a.row, k, 0) :
                 k \in {l \in KeyAfter(bus, a.column) : bus[l] > 0}})
      BY <3>1 DEF KeyAfter
    <3>4. QED
      BY <3>2, <3>3 DEF BusNext, OrElse
  <2>2. QED
    BY <2>1 DEF RowNext
<1>4. One(RegionNext(region, a))
  BY <1>2, <1>3 DEF RegionNext, OrElse
<1>5. One(BottomNext(p, a)) /\ \A t : One(BlockNext(p, a, t))
  BY DEF BottomNext, BlockNext
<1>6. QED
  BY <1>4, <1>5 DEF GetNextFrameAddress, OrElse

(* The types a part has frames of, and the counts of its columns, are      *)
(* numbers: the facts about a part that the next lemmas use.               *)
LEMMA PartShape ==
  ASSUME NEW p, IsPart(p), NEW h \in Halves,
         NEW r \in DOMAIN p[h], NEW t \in DOMAIN p[h][r]
  PROVE  /\ r \in Nat /\ t \in 0 .. 2
         /\ DOMAIN p[h][r][t] \subseteq Nat
         /\ \A c \in DOMAIN p[h][r][t] : p[h][r][t][c] \in Nat
  BY DEF IsPart, BlockTypes, kCLBIOCLK, kBlockRam, kCFGCLB

(* Adding one to an address gives an address: the carry stays inside.      *)
LEMMA IncrementType ==
  ASSUME NEW a \in Address, a.type <= 2
  PROVE  Increment(a) \in Address
  BY LimitsAssumption DEF Increment, Address, Halves

(* The answer of GetNextFrameAddress is an address, whatever the part.     *)
LEMMA NextType ==
  ASSUME NEW p, IsPart(p), NEW a \in Address
  PROVE  GetNextFrameAddress(p, a) \subseteq Address
<1> SUFFICES ASSUME NEW b \in GetNextFrameAddress(p, a)
             PROVE  b \in Address
  OBVIOUS
<1>0. /\ a.type \in 0 .. 7 /\ a.bottom \in Halves
      /\ a.row \in Nat /\ a.column \in Nat
  BY LimitsAssumption DEF Address
<1>1. CASE NextMinor(p, a, b)
  BY <1>1, PartShape, IncrementType DEF NextMinor, Address
<1>2. CASE NextColumn(p, a, b)
  <2>1. PICK c \in KeyAfter(p[a.bottom][a.row][a.type], a.column) :
          b = FrameAddress(a.type, a.bottom, a.row, c, 0)
    BY <1>2 DEF NextColumn
  <2>2. c \in Nat
    BY <1>2, <2>1, PartShape DEF NextColumn, KeyAfter, Address
  <2>3. QED
    BY <1>0, <2>1, <2>2, FrameAddressType
<1>3. CASE NextRow(p, a, b)
  <2>1. PICK r \in KeyAfter(p[a.bottom], a.row) :
          b = FrameAddress(a.type, a.bottom, r, 0, 0)
    BY <1>3 DEF NextRow, RowStart
  <2>2. r \in Nat
    BY <2>1 DEF KeyAfter, IsPart, Address
  <2>3. QED
    BY <1>0, <2>1, <2>2, FrameAddressType
<1>4. CASE NextHalf(p, a, b)
  BY <1>0, <1>4, FrameAddressType DEF NextHalf, Halves
<1>5. CASE NextBlock(p, a, b)
  BY <1>5, FrameAddressType DEF NextBlock, Halves, kBlockRam, kCFGCLB
<1>6. QED
  BY <1>1, <1>2, <1>3, <1>4, <1>5, NextForm

(* Inside a column of a part that fits, one added to an address is the     *)
(* next minor: nothing is carried.                                         *)
LEMMA IncrementMinor ==
  ASSUME NEW a \in Address, a.minor + 1 < MinorLimit
  PROVE  Increment(a) = At(a.type, a.bottom, a.row, a.column, a.minor + 1)
  BY LimitsAssumption DEF Increment, Address, At

(* The columns, rows and frames of a part that fits have their numbers in  *)
(* range.                                                                  *)
LEMMA FitsShape ==
  ASSUME NEW p, IsPart(p), Fits(p), NEW h \in Halves,
         NEW r \in DOMAIN p[h], NEW t \in DOMAIN p[h][r],
         NEW c \in DOMAIN p[h][r][t]
  PROVE  /\ r \in 0 .. RowLimit - 1
         /\ c \in 0 .. ColumnLimit - 1
         /\ p[h][r][t][c] <= MinorLimit
  BY DEF Fits

(* In a part that fits, the address after a, in each of the five ways.     *)
LEMMA NextFields ==
  ASSUME NEW p, IsPart(p), Fits(p), NEW a \in Address, NEW b
  PROVE  /\ NextMinor(p, a, b) => b = At(a.type, a.bottom, a.row, a.column, a.minor + 1)
         /\ NextColumn(p, a, b) =>
              \E c \in KeyAfter(p[a.bottom][a.row][a.type], a.column) :
                /\ p[a.bottom][a.row][a.type][c] > 0
                /\ c \in Nat
                /\ b = At(a.type, a.bottom, a.row, c, 0)
         /\ NextRow(p, a, b) =>
              \E r \in KeyAfter(p[a.bottom], a.row) :
                /\ RowHas(p[a.bottom][r], b)
                /\ r \in Nat
                /\ b = At(a.type, a.bottom, r, 0, 0)
         /\ NextHalf(p, a, b) =>
              b = At(a.type, 1, 0, 0, 0)
<1>0. a.bottom \in Halves
  BY DEF Address
<1>1. ASSUME NextMinor(p, a, b)
      PROVE  b = At(a.type, a.bottom, a.row, a.column, a.minor + 1)
  <2> DEFINE count == p[a.bottom][a.row][a.type][a.column]
  <2>1. count \in Nat /\ count <= MinorLimit
    BY <1>0, <1>1, FitsShape, PartShape DEF NextMinor
  <2>2. a.minor + 1 < MinorLimit
    BY <1>1, <2>1, LimitsAssumption DEF NextMinor, Address
  <2>3. QED
    BY <1>1, <2>2, IncrementMinor DEF NextMinor
<1>2. ASSUME NextColumn(p, a, b)
      PROVE  \E c \in KeyAfter(p[a.bottom][a.row][a.type], a.column) :
               /\ p[a.bottom][a.row][a.type][c] > 0
               /\ c \in Nat
               /\ b = At(a.type, a.bottom, a.row, c, 0)
  <2> DEFINE bus == p[a.bottom][a.row][a.type]
  <2>1. PICK c \in KeyAfter(bus, a.column) :
          bus[c] > 0 /\ b = FrameAddress(a.type, a.bottom, a.row, c, 0)
    BY <1>2 DEF NextColumn
  <2>2. c \in DOMAIN bus
    BY <2>1 DEF KeyAfter
  <2>3. c \in 0 .. ColumnLimit - 1
    BY <1>0, <1>2, <2>2, FitsShape DEF NextColumn
  <2>4. b = At(a.type, a.bottom, a.row, c, 0)
    BY <2>1, <2>3, FrameAddressFields DEF Address
  <2>5. QED
    BY <2>1, <2>3, <2>4
<1>3. ASSUME NextRow(p, a, b)
      PROVE  \E r \in KeyAfter(p[a.bottom], a.row) :
               /\ RowHas(p[a.bottom][r], b)
               /\ r \in Nat
               /\ b = At(a.type, a.bottom, r, 0, 0)
  <2>1. PICK r \in KeyAfter(p[a.bottom], a.row) :
          RowHas(p[a.bottom][r], RowStart(a, r)) /\ b = RowStart(a, r)
    BY <1>3 DEF NextRow
  <2>2. r \in 0 .. RowLimit - 1
    BY <1>0, <2>1 DEF Fits, KeyAfter
  <2>3. b = At(a.type, a.bottom, r, 0, 0)
    BY <2>1, <2>2, FrameAddressFields, LimitsAssumption DEF RowStart, Address
  <2>4. QED
    BY <2>1, <2>2, <2>3
<1>4. ASSUME NextHalf(p, a, b)
      PROVE  b = At(a.type, 1, 0, 0, 0)
  BY <1>4, FrameAddressFields, LimitsAssumption DEF NextHalf
<1>5. QED
  BY <1>1, <1>2, <1>3, <1>4

(* In a part that fits, the frame that follows another one is a frame of   *)
(* the part and has a higher address.                                      *)
THEOREM NextIsLaterFrame ==
  ASSUME NEW p, IsPart(p), Fits(p), NEW a \in Address,
         NEW b \in GetNextFrameAddress(p, a)
  PROVE  IsValidFrameAddress(p, b) /\ Less(a, b)
<1>1. CASE NextMinor(p, a, b)
  <2>1. b = At(a.type, a.bottom, a.row, a.column, a.minor + 1)
    BY <1>1, NextFields
  <2>2. QED
    BY <1>1, <2>1 DEF NextMinor, IsValidFrameAddress, RegionHas, RowHas, BusHas,
                      Less, Address, At
<1>2. CASE NextColumn(p, a, b)
  <2>1. PICK c \in KeyAfter(p[a.bottom][a.row][a.type], a.column) :
          /\ p[a.bottom][a.row][a.type][c] > 0
          /\ c \in Nat
          /\ b = At(a.type, a.bottom, a.row, c, 0)
    BY <1>2, NextFields
  <2>2. QED
    BY <1>2, <2>1 DEF KeyAfter, NextColumn, IsValidFrameAddress, RegionHas, RowHas,
                      BusHas, Less, Address, At
<1>3. CASE NextRow(p, a, b)
  <2>1. PICK r \in KeyAfter(p[a.bottom], a.row) :
          /\ RowHas(p[a.bottom][r], b)
          /\ r \in Nat
          /\ b = At(a.type, a.bottom, r, 0, 0)
    BY <1>3, NextFields
  <2>2. QED
    BY <2>1 DEF KeyAfter, IsValidFrameAddress, RegionHas, Less, Address, At
<1>4. CASE NextHalf(p, a, b)
  <2>1. b = At(a.type, 1, 0, 0, 0)
    BY <1>4, NextFields
  <2>2. b.type = a.type /\ b.bottom = 1
    BY <2>1 DEF At
  <2>3. QED
    BY <1>4, <2>2 DEF NextHalf, IsValidFrameAddress, Less
<1>5. CASE NextBlock(p, a, b)
  BY <1>5 DEF NextBlock, FrameAddress, Less
<1>6. QED
  BY <1>1, <1>2, <1>3, <1>4, <1>5, NextForm

-----------------------------------------------------------------------------
(* In a regular part a bus that some row has starts, in the first row of   *)
(* its half and in every row before it, with a frame.                      *)
LEMMA RegularBus ==
  ASSUME NEW p, IsPart(p), IsRegular(p), NEW h \in Halves,
         NEW r \in DOMAIN p[h], NEW t \in DOMAIN p[h][r]
  PROVE  /\ 0 \in DOMAIN p[h]
         /\ \A q \in DOMAIN p[h] : q <= r =>
              /\ t \in DOMAIN p[h][q]
              /\ 0 \in DOMAIN p[h][q][t]
              /\ p[h][q][t][0] > 0
         /\ \A c \in DOMAIN p[h][r][t] : p[h][r][t][c] > 0
<1>1. 0 \in DOMAIN p[h]
  BY DEF IsRegular
<1>2. \A q \in DOMAIN p[h] : q < r => t \in DOMAIN p[h][q]
  BY DEF IsRegular
<1>3. \A q \in DOMAIN p[h] : t \in DOMAIN p[h][q] =>
        /\ 0 \in DOMAIN p[h][q][t]
        /\ \A c \in DOMAIN p[h][q][t] : p[h][q][t][c] > 0
  BY DEF IsRegular
<1>4. \A q \in DOMAIN p[h] : q <= r => q < r \/ q = r
  BY DEF IsPart
<1>5. QED
  BY <1>1, <1>2, <1>3, <1>4

(* The first address of a bus is a frame when the bus exists in that row.  *)
LEMMA StartIsFrame ==
  ASSUME NEW p, IsPart(p), IsRegular(p), NEW h \in Halves,
         NEW q \in DOMAIN p[h], NEW r \in DOMAIN p[h], q <= r,
         NEW t \in DOMAIN p[h][r], NEW b, b = At(t, h, q, 0, 0)
  PROVE  RowHas(p[h][q], b) /\ RegionHas(p[h], b)
<1>1. /\ t \in DOMAIN p[h][q]
      /\ 0 \in DOMAIN p[h][q][t]
      /\ p[h][q][t][0] > 0
  BY RegularBus
<1>2. b.row = q /\ b.type = t /\ b.column = 0 /\ b.minor = 0
  BY DEF At
<1>3. QED
  BY <1>1, <1>2, PartShape DEF RowHas, RegionHas, BusHas

(* What is valid in a part: the fields of a frame name a row, a bus and a  *)
(* column of it.                                                           *)
LEMMA FrameFields ==
  ASSUME NEW p, NEW v, IsValidFrameAddress(p, v)
  PROVE  /\ v.row \in DOMAIN p[v.bottom]
         /\ v.type \in DOMAIN p[v.bottom][v.row]
         /\ v.column \in DOMAIN p[v.bottom][v.row][v.type]
         /\ v.minor < p[v.bottom][v.row][v.type][v.column]
  BY DEF IsValidFrameAddress, RegionHas, RowHas, BusHas

LEMMA ZeroFields == Zero = At(kCLBIOCLK, 0, 0, 0, 0)
  BY FrameAddressFields, LimitsAssumption DEF Zero

(* A frame later in the row than a: the row answers, and not with an       *)
(* address behind it.                                                      *)
LEMMA SkipsNoneInRow ==
  ASSUME NEW p, IsPart(p), Fits(p), IsRegular(p), NEW a \in Address,
         a = Zero \/ IsValidFrameAddress(p, a),
         NEW v \in Address, IsValidFrameAddress(p, v), Less(a, v),
         v.type = a.type, v.bottom = a.bottom, v.row = a.row
  PROVE  \E b \in RowNext(p[a.bottom][a.row], a) : ~ Less(v, b)
<1> DEFINE row == p[a.bottom][a.row]
           bus == p[a.bottom][a.row][a.type]
<1>0. /\ a.column \in Nat /\ v.column \in Nat /\ a.minor \in Nat /\ v.minor \in Nat
      /\ a.row \in Nat /\ a.type \in Nat /\ a.bottom \in Nat
      /\ \/ v.column > a.column
         \/ v.column = a.column /\ v.minor > a.minor
  BY LimitsAssumption DEF Address, Halves, Less
<1>1. /\ a.bottom \in Halves
      /\ a.row \in DOMAIN p[a.bottom]
      /\ a.type \in DOMAIN row
      /\ v.column \in DOMAIN bus
      /\ v.minor < bus[v.column]
  BY FrameFields DEF Address
<1>2. a.column \in DOMAIN bus
  <2>1. CASE a = Zero
    BY <1>1, <2>1, ZeroFields, RegularBus, PartShape DEF At
  <2>2. CASE IsValidFrameAddress(p, a)
    BY <2>2, FrameFields
  <2>3. QED
    BY <2>1, <2>2
<1>3. /\ DOMAIN bus \subseteq Nat
      /\ \A c \in DOMAIN bus : bus[c] \in Nat /\ bus[c] > 0
  <2>1. \A c \in DOMAIN bus : bus[c] > 0
    BY <1>1, RegularBus
  <2>2. DOMAIN bus \subseteq Nat /\ \A c \in DOMAIN bus : bus[c] \in Nat
    BY <1>1, PartShape
  <2>3. QED
    BY <2>1, <2>2
<1>4. RowNext(row, a) = BusNext(bus, a)
  BY <1>1 DEF RowNext
<1>5. CASE a.minor + 1 < bus[a.column]
  <2>1. Increment(a) \in RowNext(row, a)
    BY <1>2, <1>4, <1>5 DEF BusNext, ColumnNext, OrElse
  <2>2. bus[a.column] <= MinorLimit
    BY <1>1, <1>2, FitsShape
  <2>3. a.minor + 1 < MinorLimit
    <3>1. \A m \in Nat, n \in Nat : m + 1 < n /\ n <= MinorLimit => m + 1 < MinorLimit
      BY LimitsAssumption
    <3>2. bus[a.column] \in Nat
      BY <1>2, <1>3
    <3>3. QED
      BY <1>0, <1>5, <2>2, <3>1, <3>2
  <2>4. Increment(a) = At(a.type, a.bottom, a.row, a.column, a.minor + 1)
    BY <2>3, IncrementMinor
  <2>5. ~ Less(v, Increment(a))
    BY <1>0, <2>4 DEF Less, At
  <2>6. QED
    BY <2>1, <2>5
<1>6. CASE ~ (a.minor + 1 < bus[a.column])
  <2>1. v.column > a.column
    <3>1. CASE v.column = a.column /\ v.minor > a.minor
      <4>1. bus[a.column] \in Nat /\ v.minor < bus[a.column]
        BY <1>1, <1>2, <1>3, <3>1
      <4>2. QED
        BY <1>0, <1>6, <3>1, <4>1
    <3>2. QED
      BY <1>0, <3>1
  <2>2. PICK c \in KeyAfter(bus, a.column) : c <= v.column
    BY <1>0, <1>1, <1>3, <2>1, KeyAfterExists
  <2>3. c \in DOMAIN bus /\ bus[c] > 0
    BY <1>3, <2>2 DEF KeyAfter
  <2>4. FrameAddress(a.type, a.bottom, a.row, c, 0) \in RowNext(row, a)
    BY <1>2, <1>4, <1>6, <2>2, <2>3 DEF BusNext, ColumnNext, OrElse
  <2>5. c \in 0 .. ColumnLimit - 1
    BY <1>1, <2>3, FitsShape
  <2>6. FrameAddress(a.type, a.bottom, a.row, c, 0) = At(a.type, a.bottom, a.row, c, 0)
    BY <2>5, FrameAddressFields DEF Address
  <2>7. ~ Less(v, At(a.type, a.bottom, a.row, c, 0))
    BY <1>0, <2>2, <2>5 DEF Less, At
  <2>8. QED
    BY <2>4, <2>6, <2>7
<1>7. QED
  BY <1>5, <1>6

(* The same for a frame later in the region.                               *)
LEMMA SkipsNoneInRegion ==
  ASSUME NEW p, IsPart(p), Fits(p), IsRegular(p), NEW a \in Address,
         a = Zero \/ IsValidFrameAddress(p, a),
         NEW v \in Address, IsValidFrameAddress(p, v), Less(a, v),
         v.type = a.type, v.bottom = a.bottom
  PROVE  \E b \in RegionNext(p[a.bottom], a) : ~ Less(v, b)
<1> DEFINE region == p[a.bottom]
<1>0. /\ a.row \in Nat /\ v.row \in Nat /\ a.type \in Nat /\ a.bottom \in Nat
      /\ v.column \in Nat /\ v.minor \in Nat
      /\ v.row > a.row \/ v.row = a.row
  BY LimitsAssumption DEF Address, Halves, Less
<1>1. /\ a.bottom \in Halves
      /\ v.row \in DOMAIN region
      /\ v.type \in DOMAIN region[v.row]
  BY FrameFields DEF Address
<1>2. a.row \in DOMAIN region
  <2>1. CASE a = Zero
    BY <1>1, <2>1, ZeroFields, RegularBus DEF At
  <2>2. CASE IsValidFrameAddress(p, a)
    BY <2>2, FrameFields
  <2>3. QED
    BY <2>1, <2>2
<1>3. CASE v.row = a.row
  BY <1>2, <1>3, SkipsNoneInRow DEF RegionNext, OrElse
<1>4. CASE v.row > a.row /\ RowNext(region[a.row], a) # {}
  <2>1. PICK b \in RowNext(region[a.row], a) : TRUE
    BY <1>4
  <2>2. b \in RegionNext(region, a)
    BY <1>2, <2>1 DEF RegionNext, OrElse
  <2>3. b.type = a.type /\ b.bottom = a.bottom /\ b.row = a.row
    <3>1. CASE NextMinor(p, a, b)
      <4>1. b = At(a.type, a.bottom, a.row, a.column, a.minor + 1)
        BY <3>1, NextFields
      <4>2. QED
        BY <4>1 DEF At
    <3>2. CASE NextColumn(p, a, b)
      <4>1. PICK c : b = At(a.type, a.bottom, a.row, c, 0)
        BY <3>2, NextFields
      <4>2. QED
        BY <4>1 DEF At
    <3>3. QED
      BY <1>2, <2>1, <3>1, <3>2, RowNextForm
  <2>4. ~ Less(v, b)
    BY <1>0, <1>4, <2>3 DEF Less
  <2>5. QED
    BY <2>2, <2>4
<1>5. CASE v.row > a.row /\ RowNext(region[a.row], a) = {}
  <2>1. DOMAIN region \subseteq Nat
    BY <1>1 DEF IsPart
  <2>2. PICK r \in KeyAfter(region, a.row) : r <= v.row
    BY <1>0, <1>1, <1>5, <2>1, KeyAfterExists
  <2>3. r \in DOMAIN region /\ r \in 0 .. RowLimit - 1 /\ r \in Nat
    BY <1>1, <2>1, <2>2 DEF KeyAfter, Fits
  <2>4. RowStart(a, r) = At(a.type, a.bottom, r, 0, 0)
    BY <2>3, FrameAddressFields, LimitsAssumption DEF RowStart
  <2>5. RowHas(region[r], RowStart(a, r))
    BY <1>1, <2>2, <2>3, <2>4, StartIsFrame
  <2>6. RowStart(a, r) \in RegionNext(region, a)
    BY <1>2, <1>5, <2>2, <2>5 DEF RegionNext, OrElse
  <2>7. ~ Less(v, At(a.type, a.bottom, r, 0, 0))
    BY <1>0, <2>2, <2>3 DEF Less, At
  <2>8. QED
    BY <2>4, <2>6, <2>7
<1>6. QED
  BY <1>0, <1>3, <1>4, <1>5

(* A region answers with an address of the same half and block type.       *)
LEMMA RegionNextStays ==
  ASSUME NEW p, IsPart(p), Fits(p), NEW a \in Address,
         NEW b \in RegionNext(p[a.bottom], a)
  PROVE  b.type = a.type /\ b.bottom = a.bottom
<1>1. \/ b = At(a.type, a.bottom, a.row, a.column, a.minor + 1)
      \/ \E c : b = At(a.type, a.bottom, a.row, c, 0)
      \/ \E r : b = At(a.type, a.bottom, r, 0, 0)
  <2>1. CASE NextMinor(p, a, b)
    BY <2>1, NextFields
  <2>2. CASE NextColumn(p, a, b)
    BY <2>2, NextFields
  <2>3. CASE NextRow(p, a, b)
    BY <2>3, NextFields
  <2>4. QED
    BY <2>1, <2>2, <2>3, RegionNextForm
<1>2. QED
  BY <1>1 DEF At

(* In a regular part that fits, GetNextFrameAddress passes over no frame:  *)
(* whenever a frame v has a higher address than a, there is an answer for  *)
(* a, and it is not behind v.                                              *)
THEOREM NextSkipsNone ==
  ASSUME NEW p, IsPart(p), Fits(p), IsRegular(p), NEW a \in Address,
         a = Zero \/ IsValidFrameAddress(p, a),
         NEW v \in Address, IsValidFrameAddress(p, v), Less(a, v)
  PROVE  \E b \in GetNextFrameAddress(p, a) : ~ Less(v, b)
<1>0. /\ a.type \in Nat /\ v.type \in Nat
      /\ a.bottom \in Halves /\ v.bottom \in Halves
      /\ v.row \in Nat /\ v.column \in Nat /\ v.minor \in Nat
      /\ \/ v.type > a.type
         \/ v.type = a.type /\ v.bottom = a.bottom
         \/ v.type = a.type /\ v.bottom = 1 /\ a.bottom = 0
  BY LimitsAssumption DEF Address, Halves, Less
<1>1. /\ v.row \in DOMAIN p[v.bottom]
      /\ v.type \in DOMAIN p[v.bottom][v.row]
  BY FrameFields
<1>2. 0 \in DOMAIN p[v.bottom] /\ 0 <= v.row
  BY <1>0, <1>1, RegularBus
<1>3. CASE RegionNext(p[a.bottom], a) # {}
  <2>1. CASE v.type = a.type /\ v.bottom = a.bottom
    BY <2>1, <1>3, SkipsNoneInRegion DEF GetNextFrameAddress, OrElse
  <2>2. CASE v.type > a.type \/ (v.type = a.type /\ v.bottom = 1 /\ a.bottom = 0)
    <3>1. PICK b \in RegionNext(p[a.bottom], a) : TRUE
      BY <1>3
    <3>2. b.type = a.type /\ b.bottom = a.bottom
      BY RegionNextStays
    <3>3. ~ Less(v, b)
      BY <1>0, <2>2, <3>2 DEF Less, Halves
    <3>4. b \in GetNextFrameAddress(p, a)
      BY <1>3, <3>1 DEF GetNextFrameAddress, OrElse
    <3>5. QED
      BY <3>3, <3>4
  <2>3. QED
    BY <1>0, <2>1, <2>2
<1>4. CASE RegionNext(p[a.bottom], a) = {} /\ BottomNext(p, a) # {}
  <2> DEFINE b == FrameAddress(a.type, 1, 0, 0, 0)
  <2>1. b \in GetNextFrameAddress(p, a) /\ a.bottom = 0
    BY <1>4 DEF GetNextFrameAddress, OrElse, BottomNext
  <2>2. b = At(a.type, 1, 0, 0, 0)
    BY FrameAddressFields, LimitsAssumption
  <2>3. ~ (v.type = a.type /\ v.bottom = a.bottom)
    BY <1>4, SkipsNoneInRegion
  <2>4. ~ Less(v, At(a.type, 1, 0, 0, 0))
    BY <1>0, <2>3 DEF Less, At, Halves
  <2>5. QED
    BY <2>1, <2>2, <2>4
<1>5. CASE RegionNext(p[a.bottom], a) = {} /\ BottomNext(p, a) = {}
  <2>1. v.type > a.type
    <3>1. CASE v.type = a.type /\ v.bottom = a.bottom
      BY <1>5, <3>1, SkipsNoneInRegion
    <3>2. CASE v.type = a.type /\ v.bottom = 1 /\ a.bottom = 0
      <4>1. FrameAddress(a.type, 1, 0, 0, 0) = At(v.type, 1, 0, 0, 0)
        BY <3>2, FrameAddressFields, LimitsAssumption
      <4>2. RegionHas(p[1], FrameAddress(a.type, 1, 0, 0, 0))
        BY <1>0, <1>1, <1>2, <3>2, <4>1, StartIsFrame
      <4>3. QED
        BY <1>5, <3>2, <4>2 DEF BottomNext
    <3>3. QED
      BY <1>0, <3>1, <3>2
  <2>2. v.type \in {kBlockRam, kCFGCLB} /\ v.type # kCLBIOCLK
    BY <1>0, <1>1, <2>1, PartShape DEF kBlockRam, kCFGCLB, kCLBIOCLK
  <2>3. 0 \in DOMAIN p[0] /\ v.type \in DOMAIN p[0][0]
    <3>1. CASE v.bottom = 0
      BY <1>0, <1>1, <1>2, <3>1, RegularBus
    <3>2. CASE v.bottom = 1
      BY <1>1, <2>2, <3>2 DEF IsRegular
    <3>3. QED
      BY <1>0, <3>1, <3>2 DEF Halves
  <2>4. \A t \in Nat : FrameAddress(t, 0, 0, 0, 0) = At(t, 0, 0, 0, 0)
    BY FrameAddressFields, LimitsAssumption
  <2>5. FrameAddress(v.type, 0, 0, 0, 0) \in BlockNext(p, a, v.type)
    <3>1. At(v.type, 0, 0, 0, 0).bottom = 0
      BY DEF At
    <3>2. RegionHas(p[0], At(v.type, 0, 0, 0, 0))
      BY <2>3, StartIsFrame DEF Halves
    <3>3. QED
      BY <1>0, <2>1, <2>4, <3>1, <3>2 DEF BlockNext, IsValidFrameAddress
  <2>6. PICK t \in {kBlockRam, kCFGCLB} :
          t <= v.type /\ FrameAddress(t, 0, 0, 0, 0) \in GetNextFrameAddress(p, a)
    <3>1. CASE BlockNext(p, a, kBlockRam) # {}
      BY <1>5, <2>2, <3>1 DEF BlockNext, GetNextFrameAddress, OrElse, kBlockRam, kCFGCLB
    <3>2. CASE BlockNext(p, a, kBlockRam) = {}
      BY <1>5, <2>2, <2>5, <3>2
         DEF BlockNext, GetNextFrameAddress, OrElse, kBlockRam, kCFGCLB
    <3>3. QED
      BY <3>1, <3>2
  <2>7. ~ Less(v, At(t, 0, 0, 0, 0))
    BY <1>0, <2>6 DEF Less, At, Halves, kBlockRam, kCFGCLB
  <2>8. QED
    BY <2>4, <2>6, <2>7 DEF kBlockRam, kCFGCLB
<1>6. QED
  BY <1>3, <1>4, <1>5

-----------------------------------------------------------------------------
(* The loop of AddMissingFrames.                                           *)

(* In a part that fits, the loop stands at address zero or at a frame.     *)
CursorIsFrame ==
  Fits(part) => \A c \in current : c = Zero \/ IsValidFrameAddress(part, c)

IInv ==
  /\ TypeOK
  /\ CursorIsFrame
  /\ AssembledKept
  /\ AddedArePartFrames
  /\ Swept

-----------------------------------------------------------------------------
(* Both actions record the frame the loop stands at and go on.             *)
Iteration(a) ==
  /\ data' = InsertBlank(data, a)
  /\ current' = GetNextFrameAddress(part, a)
  /\ UNCHANGED <<part, assembled>>

LEMMA NextIsIteration ==
  ASSUME TypeOK, Next
  PROVE  \E a \in current : Iteration(a)
<1>1. CASE KeepFrame
  <2>1. PICK a \in current : a \in DOMAIN data /\ UNCHANGED data /\ Advance(a)
    BY <1>1 DEF KeepFrame
  <2>2. InsertBlank(data, a) = data
    BY <2>1 DEF InsertBlank, TypeOK
  <2>3. QED
    BY <2>1, <2>2 DEF Advance, Iteration
<1>2. CASE AddMissingFrame
  BY <1>2 DEF AddMissingFrame, Advance, Iteration
<1>3. QED
  BY <1>1, <1>2 DEF Next

LEMMA ZeroIsAddress == Zero \in Address
  BY FrameAddressType DEF Zero, Halves, kCLBIOCLK

(* The initial states satisfy the invariant: nothing lies below the cursor.*)
LEMMA InitInvariant == Init => IInv
<1> SUFFICES ASSUME Init PROVE IInv
  OBVIOUS
<1>1. TypeOK
  BY FramesAssumption, ZeroIsAddress DEF Init, TypeOK
<1>2. \A a \in Address : ~ Less(a, Zero)
  <2>1. TAKE a \in Address
  <2>2. a.type >= 0 /\ a.bottom >= 0 /\ a.row >= 0 /\ a.column >= 0 /\ a.minor >= 0
    BY DEF Address, Halves
  <2>3. QED
    BY <2>2, ZeroFields DEF Less, At, kCLBIOCLK, Address, Halves
<1>3. Swept
  BY <1>2 DEF Init, Swept
<1>4. QED
  BY <1>1, <1>3 DEF Init, IInv, CursorIsFrame, AssembledKept, AddedArePartFrames

(* One iteration preserves the invariant.                                  *)
LEMMA IterationInvariant ==
  ASSUME IInv, NEW a \in current, Iteration(a)
  PROVE  IInv'
<1>1. /\ a \in Address /\ IsPart(part) /\ part' = part
      /\ assembled' = assembled
      /\ current' = GetNextFrameAddress(part, a)
      /\ data' = InsertBlank(data, a)
      /\ \A c \in current : c = a
  BY FramesAssumption DEF IInv, TypeOK, Iteration
<1>2. /\ DOMAIN data' = DOMAIN data \cup {a}
      /\ \A k \in DOMAIN data : data'[k] = data[k]
      /\ a \notin DOMAIN data => data'[a] = Blank
  BY <1>1 DEF InsertBlank
<1>3. TypeOK'
  <2>1. data' \in [DOMAIN data' -> Words]
    BY <1>1, <1>2, FramesAssumption DEF IInv, TypeOK, InsertBlank
  <2>2. current' \subseteq Address /\ \A b, c \in current' : b = c
    BY <1>1, NextType, NextUnique
  <2>3. DOMAIN data' \subseteq Address
    BY <1>1, <1>2 DEF IInv, TypeOK
  <2>4. QED
    BY <1>1, <2>1, <2>2, <2>3 DEF IInv, TypeOK
<1>4. CursorIsFrame'
  BY <1>1, NextIsLaterFrame DEF CursorIsFrame
<1>5. AssembledKept'
  BY <1>1, <1>2 DEF IInv, AssembledKept
<1>6. AddedArePartFrames'
  <2>1. SUFFICES ASSUME NEW k \in DOMAIN data' \ DOMAIN assembled
                 PROVE  /\ data'[k] = Blank
                        /\ Fits(part) => k = Zero \/ IsValidFrameAddress(part, k)
    BY <1>1 DEF AddedArePartFrames
  <2>2. CASE k \in DOMAIN data
    BY <1>2, <2>1, <2>2 DEF IInv, AddedArePartFrames
  <2>3. CASE k \notin DOMAIN data
    BY <1>2, <2>1, <2>3 DEF IInv, CursorIsFrame
  <2>4. QED
    BY <2>2, <2>3
<1>7. Swept'
  <2>1. SUFFICES ASSUME Fits(part), IsRegular(part), NEW v \in Address,
                        IsValidFrameAddress(part, v),
                        \A c \in current' : Less(v, c)
                 PROVE  v \in DOMAIN data'
    BY <1>1 DEF Swept
  <2>2. CASE Less(v, a)
    BY <1>1, <1>2, <2>1, <2>2 DEF IInv, Swept
  <2>3. CASE v = a
    BY <1>2, <2>3
  <2>4. CASE Less(a, v)
    <3>1. \E b \in GetNextFrameAddress(part, a) : ~ Less(v, b)
      BY <1>1, <2>1, <2>4, NextSkipsNone DEF IInv, CursorIsFrame
    <3>2. QED
      BY <1>1, <2>1, <3>1
  <2>5. Less(v, a) \/ v = a \/ Less(a, v)
    <3>1. a = At(a.type, a.bottom, a.row, a.column, a.minor)
      BY <1>1 DEF Address, At
    <3>2. v = At(v.type, v.bottom, v.row, v.column, v.minor)
      BY DEF Address, At
    <3>3. /\ a.type \in Int /\ a.bottom \in Int /\ a.row \in Int
          /\ a.column \in Int /\ a.minor \in Int
          /\ v.type \in Int /\ v.bottom \in Int /\ v.row \in Int
          /\ v.column \in Int /\ v.minor \in Int
      BY <1>1, LimitsAssumption DEF Address, Halves
    <3>4. QED
      BY <3>1, <3>2, <3>3 DEF Less
  <2>6. QED
    BY <2>2, <2>3, <2>4, <2>5
<1>8. QED
  BY <1>3, <1>4, <1>5, <1>6, <1>7 DEF IInv

LEMMA StepInvariant == IInv /\ [Next]_vars => IInv'
<1>1. ASSUME IInv, Next
      PROVE  IInv'
  <2>1. PICK a \in current : Iteration(a)
    BY <1>1, NextIsIteration DEF IInv
  <2>2. QED
    BY <1>1, <2>1, IterationInvariant
<1>2. ASSUME IInv, UNCHANGED vars
      PROVE  IInv'
  BY <1>2 DEF vars, IInv, TypeOK, CursorIsFrame, AssembledKept,
              AddedArePartFrames, Swept
<1>3. QED
  BY <1>1, <1>2

LEMMA Invariant == Spec => []IInv
<1>1. QED
  BY InitInvariant, StepInvariant, PTL DEF Spec

-----------------------------------------------------------------------------
(* The frames are a map from addresses to frame contents and the loop      *)
(* stands at no more than one address.                                     *)
THEOREM TypeCorrect == Spec => []TypeOK
<1>1. IInv => TypeOK
  BY DEF IInv
<1>2. QED
  BY <1>1, Invariant, PTL

(* No frame that the features wrote is lost or changed.                    *)
THEOREM KeepsAssembled == Spec => []AssembledKept
<1>1. IInv => AssembledKept
  BY DEF IInv
<1>2. QED
  BY <1>1, Invariant, PTL

(* Only blank frames are added, and only frames of the part or frame zero. *)
THEOREM AddsPartFrames == Spec => []AddedArePartFrames
<1>1. IInv => AddedArePartFrames
  BY DEF IInv
<1>2. QED
  BY <1>1, Invariant, PTL

(* In a regular part that fits, the loop leaves no frame behind it.        *)
THEOREM SweepsAll == Spec => []Swept
<1>1. IInv => Swept
  BY DEF IInv
<1>2. QED
  BY <1>1, Invariant, PTL

(* The addresses of the loop increase: no frame is visited twice.          *)
THEOREM Advances == Spec => CursorAdvances
<1> DEFINE Later == Fits(part) => \A a \in current : \A b \in current' : Less(a, b)
<1>1. TypeOK /\ Next => Later
  <2>1. SUFFICES ASSUME TypeOK, Next, Fits(part), NEW a \in current, NEW b \in current'
                 PROVE  Less(a, b)
    OBVIOUS
  <2>2. Iteration(a)
    BY <2>1, NextIsIteration DEF TypeOK
  <2>3. QED
    BY <2>1, <2>2, NextIsLaterFrame, FramesAssumption DEF Iteration, TypeOK
<1>2. TypeOK /\ [Next]_vars => [Later]_vars
  BY <1>1
<1> HIDE DEF Later
<1>3. Spec => [][Later]_vars
  BY <1>2, TypeCorrect, PTL DEF Spec
<1>4. QED
  BY <1>3 DEF Later, CursorAdvances
=============================================================================
