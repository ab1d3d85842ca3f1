------------------------ MODULE XC7ProgrammingProofs ------------------------
(***************************************************************************)
(* From frames to a configured device, for all parts, designs and widths   *)
(* of the address fields: the safety properties of XC7Programming, and     *)
(* that its steps are those of FrameLoading.                               *)
(*                                                                         *)
(* The invariant follows a frame through the stages: the filling, as       *)
(* XC7FramesProofs has it; the layout, where every frame has a place in    *)
(* the payload (Placed); the device, whose state depends on how many       *)
(* packets of the package it has handled (Sequenced), and which, while it  *)
(* handles the packet of the frames, stands in the payload at the place of *)
(* the frame its cursor names (Located) and has the frames below it        *)
(* (Loads).                                                                *)
(***************************************************************************)
EXTENDS XC7Programming, SequenceTheorems, TLAPS

FillProofs == INSTANCE XC7FramesProofs

-----------------------------------------------------------------------------
(* The parts, addresses and walk of the instances are those of XC7Part.    *)

LEMMA SameParts ==
  ASSUME NEW p
  PROVE  /\ FillProofs!IsPart(p) <=> IsPart(p)
         /\ Device!IsPart(p) <=> IsPart(p)
         /\ FillProofs!Fits(p) <=> Fits(p)
         /\ FillProofs!IsRegular(p) <=> IsRegular(p)
<1>1. FillProofs!IsPart(p) <=> IsPart(p)
  BY DEF IsPart, Halves, BlockTypes, kCLBIOCLK, kBlockRam, kCFGCLB,
         FillProofs!IsPart, FillProofs!Halves, FillProofs!BlockTypes,
         FillProofs!kCLBIOCLK, FillProofs!kBlockRam, FillProofs!kCFGCLB
<1>2. Device!IsPart(p) <=> IsPart(p)
  BY DEF IsPart, Halves, BlockTypes, kCLBIOCLK, kBlockRam, kCFGCLB,
         Device!IsPart, Device!Halves, Device!BlockTypes,
         Device!kCLBIOCLK, Device!kBlockRam, Device!kCFGCLB
<1>3. FillProofs!Fits(p) <=> Fits(p)
  BY DEF Fits, Halves, FillProofs!Fits, FillProofs!Halves
<1>4. FillProofs!IsRegular(p) <=> IsRegular(p)
  BY DEF IsRegular, Halves, kCLBIOCLK, FillProofs!IsRegular,
         FillProofs!Halves, FillProofs!kCLBIOCLK
<1>5. QED
  BY <1>1, <1>2, <1>3, <1>4

LEMMA SameAddresses ==
  /\ FillProofs!Address = Address /\ Fill!Address = Address
  /\ Device!Address = Address
  /\ FillProofs!Zero = Zero /\ Fill!Zero = Zero /\ Device!Zero = Zero
<1>1. /\ FillProofs!Address = Address /\ Fill!Address = Address
      /\ Device!Address = Address
  BY DEF Address, Halves, FillProofs!Address, FillProofs!Halves,
         Fill!Address, Fill!Halves, Device!Address, Device!Halves
<1>2. /\ FillProofs!Zero = Zero /\ Fill!Zero = Zero /\ Device!Zero = Zero
  BY DEF Zero, FrameAddress, kCLBIOCLK,
         FillProofs!Zero, FillProofs!FrameAddress, FillProofs!kCLBIOCLK,
         Fill!Zero, Fill!FrameAddress, Fill!kCLBIOCLK,
         Device!Zero, Device!FrameAddress, Device!kCLBIOCLK
<1>3. QED
  BY <1>1, <1>2

LEMMA SameOrder ==
  ASSUME NEW a, NEW b
  PROVE  /\ FillProofs!Less(a, b) <=> Less(a, b)
         /\ Device!RowChanges(a, b) <=>
              a.type # b.type \/ a.bottom # b.bottom \/ a.row # b.row
  BY DEF Less, FillProofs!Less, Device!RowChanges

LEMMA SameFrames ==
  ASSUME NEW p, NEW a
  PROVE  FillProofs!IsValidFrameAddress(p, a) <=> IsValidFrameAddress(p, a)
  BY DEF IsValidFrameAddress, RegionHas, RowHas, BusHas,
         FillProofs!IsValidFrameAddress, FillProofs!RegionHas,
         FillProofs!RowHas, FillProofs!BusHas

LEMMA SameWalk ==
  ASSUME NEW p, NEW a
  PROVE  /\ FillProofs!GetNextFrameAddress(p, a) = GetNextFrameAddress(p, a)
         /\ Fill!GetNextFrameAddress(p, a) = GetNextFrameAddress(p, a)
         /\ Device!GetNextFrameAddress(p, a) = GetNextFrameAddress(p, a)
<1> USE DEF GetNextFrameAddress, OrElse, RegionNext, BottomNext, BlockNext,
            RowNext, BusNext, ColumnNext, KeyAfter, RowHas, RegionHas,
            IsValidFrameAddress, BusHas, RowStart, FrameAddress, Increment,
            kBlockRam, kCFGCLB
<1>1. FillProofs!GetNextFrameAddress(p, a) = GetNextFrameAddress(p, a)
  BY DEF FillProofs!GetNextFrameAddress, FillProofs!OrElse,
         FillProofs!RegionNext, FillProofs!BottomNext, FillProofs!BlockNext,
         FillProofs!RowNext, FillProofs!BusNext, FillProofs!ColumnNext,
         FillProofs!KeyAfter, FillProofs!RowHas, FillProofs!RegionHas,
         FillProofs!IsValidFrameAddress, FillProofs!BusHas,
         FillProofs!RowStart, FillProofs!FrameAddress, FillProofs!Increment,
         FillProofs!kBlockRam, FillProofs!kCFGCLB
<1>2. Fill!GetNextFrameAddress(p, a) = GetNextFrameAddress(p, a)
  BY DEF Fill!GetNextFrameAddress, Fill!OrElse, Fill!RegionNext,
         Fill!BottomNext, Fill!BlockNext, Fill!RowNext, Fill!BusNext,
         Fill!ColumnNext, Fill!KeyAfter, Fill!RowHas, Fill!RegionHas,
         Fill!IsValidFrameAddress, Fill!BusHas, Fill!RowStart,
         Fill!FrameAddress, Fill!Increment, Fill!kBlockRam, Fill!kCFGCLB
<1>3. Device!GetNextFrameAddress(p, a) = GetNextFrameAddress(p, a)
  BY DEF Device!GetNextFrameAddress, Device!OrElse, Device!RegionNext,
         Device!BottomNext, Device!BlockNext, Device!RowNext, Device!BusNext,
         Device!ColumnNext, Device!KeyAfter, Device!RowHas, Device!RegionHas,
         Device!IsValidFrameAddress, Device!BusHas, Device!RowStart,
         Device!FrameAddress, Device!Increment, Device!kBlockRam,
         Device!kCFGCLB
<1>4. QED
  BY <1>1, <1>2, <1>3

(* The assumptions under which the results about the filling were proved.  *)
LEMMA FillAssumptions ==
  FillProofs!LimitsAssumption /\ FillProofs!FramesAssumption
<1>1. FillProofs!LimitsAssumption
  BY LimitsAssumption DEF FillProofs!LimitsAssumption
<1>2. FillProofs!FramesAssumption
  BY ProgrammingAssumption, SameParts, SameAddresses
     DEF FillProofs!FramesAssumption
<1>3. QED
  BY <1>1, <1>2

-----------------------------------------------------------------------------
(* What XC7FramesProofs has of the addresses and of the walk.  The answer  *)
(* of GetNextFrameAddress is one, and an address; in a part that fits, a   *)
(* later frame of the part; in a regular one, no frame is passed over.     *)

(* The address with the given fields.                                      *)
At(t, h, r, c, m) ==
  [type |-> t, bottom |-> h, row |-> r, column |-> c, minor |-> m]

LEMMA FieldRange ==
  ASSUME NEW limit \in Nat \ {0}, NEW n \in Nat
  PROVE  /\ n % limit \in 0 .. limit - 1
         /\ n < limit => n % limit = n
  OBVIOUS

LEMMA FrameAddressType ==
  ASSUME NEW t \in 0 .. 7, NEW h \in Halves, NEW r \in Nat, NEW c \in Nat
  PROVE  FrameAddress(t, h, r, c, 0) \in Address
  BY FieldRange, LimitsAssumption DEF FrameAddress, Address, Halves

LEMMA ZeroFields == Zero = At(kCLBIOCLK, 0, 0, 0, 0)
<1>1. 0 % RowLimit = 0 /\ 0 % ColumnLimit = 0 /\ 0 % MinorLimit = 0
  BY FieldRange, LimitsAssumption
<1>2. QED
  BY <1>1 DEF Zero, FrameAddress, At

(* The rows, buses and columns of a part have numbers, in range if it fits. *)
LEMMA PartShape ==
  ASSUME NEW p, IsPart(p), NEW h \in Halves,
         NEW r \in DOMAIN p[h], NEW t \in DOMAIN p[h][r]
  PROVE  /\ r \in Nat /\ t \in 0 .. 2
         /\ DOMAIN p[h][r][t] \subseteq Nat
         /\ \A c \in DOMAIN p[h][r][t] : p[h][r][t][c] \in Nat
  BY DEF IsPart, BlockTypes, kCLBIOCLK, kBlockRam, kCFGCLB

LEMMA FitsShape ==
  ASSUME NEW p, IsPart(p), Fits(p), NEW h \in Halves,
         NEW r \in DOMAIN p[h], NEW t \in DOMAIN p[h][r],
         NEW c \in DOMAIN p[h][r][t]
  PROVE  /\ r \in 0 .. RowLimit - 1
         /\ c \in 0 .. ColumnLimit - 1
         /\ p[h][r][t][c] <= MinorLimit
  BY DEF Fits

LEMMA NextUnique ==
  ASSUME NEW p, IsPart(p), NEW a \in Address,
         NEW b \in GetNextFrameAddress(p, a),
         NEW c \in GetNextFrameAddress(p, a)
  PROVE  b = c
<1>1. \A q, x, y, z :
        FillProofs!IsPart(q) /\ x \in FillProofs!Address
          /\ y \in FillProofs!GetNextFrameAddress(q, x)
          /\ z \in FillProofs!GetNextFrameAddress(q, x)
        => y = z
  BY FillProofs!NextUnique, FillAssumptions, LimitsAssumption,
     ProgrammingAssumption, SameParts, SameAddresses
     DEF FillProofs!LimitsAssumption, FillProofs!FramesAssumption
<1>2. QED
  BY <1>1, SameParts, SameAddresses, SameWalk

LEMMA NextType ==
  ASSUME NEW p, IsPart(p), NEW a \in Address
  PROVE  GetNextFrameAddress(p, a) \subseteq Address
<1>1. \A q, x :
        FillProofs!IsPart(q) /\ x \in FillProofs!Address
        => FillProofs!GetNextFrameAddress(q, x) \subseteq FillProofs!Address
  BY FillProofs!NextType, FillAssumptions, LimitsAssumption,
     ProgrammingAssumption, SameParts, SameAddresses
     DEF FillProofs!LimitsAssumption, FillProofs!FramesAssumption
<1>2. QED
  BY <1>1, SameParts, SameAddresses, SameWalk

LEMMA NextIsLaterFrame ==
  ASSUME NEW p, IsPart(p), Fits(p), NEW a \in Address,
         NEW b \in GetNextFrameAddress(p, a)
  PROVE  IsValidFrameAddress(p, b) /\ Less(a, b)
<1>1. \A q, x, y :
        FillProofs!IsPart(q) /\ FillProofs!Fits(q) /\ x \in FillProofs!Address
          /\ y \in FillProofs!GetNextFrameAddress(q, x)
        => FillProofs!IsValidFrameAddress(q, y) /\ FillProofs!Less(x, y)
  BY FillProofs!NextIsLaterFrame, FillAssumptions, LimitsAssumption,
     ProgrammingAssumption, SameParts, SameAddresses
     DEF FillProofs!LimitsAssumption, FillProofs!FramesAssumption
<1>2. QED
  BY <1>1, SameParts, SameAddresses, SameOrder, SameFrames, SameWalk

LEMMA NextSkipsNone ==
  ASSUME NEW p, IsPart(p), Fits(p), IsRegular(p), NEW a \in Address,
         a = Zero \/ IsValidFrameAddress(p, a),
         NEW v \in Address, IsValidFrameAddress(p, v), Less(a, v)
  PROVE  \E b \in GetNextFrameAddress(p, a) : ~ Less(v, b)
<1>1. \A q, x, y :
        FillProofs!IsPart(q) /\ FillProofs!Fits(q) /\ FillProofs!IsRegular(q)
          /\ x \in FillProofs!Address /\ y \in FillProofs!Address
          /\ (x = FillProofs!Zero \/ FillProofs!IsValidFrameAddress(q, x))
          /\ FillProofs!IsValidFrameAddress(q, y) /\ FillProofs!Less(x, y)
        => \E b \in FillProofs!GetNextFrameAddress(q, x) :
             ~ FillProofs!Less(y, b)
  BY FillProofs!NextSkipsNone, FillAssumptions, LimitsAssumption,
     ProgrammingAssumption, SameParts, SameAddresses
     DEF FillProofs!LimitsAssumption, FillProofs!FramesAssumption
<1>2. PICK b \in FillProofs!GetNextFrameAddress(p, a) :
        ~ FillProofs!Less(v, b)
  BY <1>1, SameParts, SameAddresses, SameOrder, SameFrames
<1>3. b \in GetNextFrameAddress(p, a) /\ ~ Less(v, b)
  BY <1>2, SameOrder, SameWalk
<1>4. QED
  BY <1>3

-----------------------------------------------------------------------------
(* Filling in the missing frames, as XC7FramesProofs has it.               *)

LEMMA FillInit == Init => FillProofs!IInv
<1>1. Init => FillProofs!Init
  BY SameAddresses DEF Init, FillProofs!Init
<1>2. QED
  BY <1>1, FillProofs!InitInvariant, FillAssumptions, LimitsAssumption,
     ProgrammingAssumption, SameParts, SameAddresses
     DEF FillProofs!FramesAssumption, FillProofs!LimitsAssumption

LEMMA FillStep ==
  FillProofs!IInv /\ [FillProofs!Next]_(FillProofs!vars) => FillProofs!IInv'
  BY FillProofs!StepInvariant, FillAssumptions, LimitsAssumption,
     ProgrammingAssumption, SameParts, SameAddresses
     DEF FillProofs!FramesAssumption, FillProofs!LimitsAssumption

LEMMA FillNext == Fill!Next => FillProofs!Next
<1>1. ASSUME NEW a, Fill!Advance(a)
      PROVE  FillProofs!Advance(a)
  BY <1>1, SameWalk DEF Fill!Advance, FillProofs!Advance
<1>2. Fill!KeepFrame => FillProofs!KeepFrame
  BY <1>1 DEF Fill!KeepFrame, FillProofs!KeepFrame
<1>3. Fill!AddMissingFrame => FillProofs!AddMissingFrame
  BY <1>1 DEF Fill!AddMissingFrame, FillProofs!AddMissingFrame,
              Fill!InsertBlank, FillProofs!InsertBlank
<1>4. QED
  BY <1>2, <1>3 DEF Fill!Next, FillProofs!Next

(* What the filling says of the frames, in the words of this module.       *)
LEMMA FillFacts ==
  ASSUME FillProofs!IInv
  PROVE  /\ Fill!TypeOK
         /\ part \in Parts /\ IsPart(part)
         /\ DOMAIN data \subseteq Address
         /\ data \in [DOMAIN data -> Words]
         /\ DOMAIN assembled \subseteq Address
         /\ \A a \in DOMAIN assembled : a \in DOMAIN data /\ data[a] = assembled[a]
         /\ \A a \in DOMAIN data \ DOMAIN assembled : data[a] = Blank
         /\ Fits(part) => \A a \in DOMAIN data :
              a \in Strays \/ a = Zero \/ IsValidFrameAddress(part, a)
         /\ Fits(part) /\ IsRegular(part) /\ current = {} =>
              \A a \in Address : IsValidFrameAddress(part, a) => a \in DOMAIN data
<1>1. FillProofs!TypeOK /\ Fill!TypeOK
  BY SameAddresses DEF FillProofs!IInv, FillProofs!TypeOK, Fill!TypeOK
<1>2. part \in Parts /\ IsPart(part)
  BY <1>1, ProgrammingAssumption DEF FillProofs!TypeOK
<1>3. /\ DOMAIN data \subseteq Address
      /\ data \in [DOMAIN data -> Words]
      /\ DOMAIN assembled \subseteq Address
  BY <1>1, SameAddresses, ProgrammingAssumption DEF FillProofs!TypeOK
<1>4. \A a \in DOMAIN assembled : a \in DOMAIN data /\ data[a] = assembled[a]
  BY DEF FillProofs!IInv, FillProofs!AssembledKept
<1>5. \A a \in DOMAIN data \ DOMAIN assembled :
        /\ data[a] = Blank
        /\ Fits(part) => a = Zero \/ IsValidFrameAddress(part, a)
  BY SameParts, SameAddresses, SameFrames
     DEF FillProofs!IInv, FillProofs!AddedArePartFrames
<1>6. Fits(part) => \A a \in DOMAIN data :
        a \in Strays \/ a = Zero \/ IsValidFrameAddress(part, a)
  BY <1>5 DEF Strays
<1>7. Fits(part) /\ IsRegular(part) /\ current = {} =>
        \A a \in Address : IsValidFrameAddress(part, a) => a \in DOMAIN data
  BY SameParts, SameAddresses, SameFrames DEF FillProofs!IInv, FillProofs!Swept
<1>8. QED
  BY <1>1, <1>2, <1>3, <1>4, <1>5, <1>6, <1>7

-----------------------------------------------------------------------------
(* The order of the addresses is total.                                    *)
LEMMA AddressFields ==
  ASSUME NEW a \in Address
  PROVE  /\ a.type \in Int /\ a.bottom \in Int /\ a.row \in Int
         /\ a.column \in Int /\ a.minor \in Int
         /\ a = At(a.type, a.bottom, a.row, a.column, a.minor)
<1>1. /\ a.type \in Int /\ a.bottom \in Int /\ a.row \in Int
      /\ a.column \in Int /\ a.minor \in Int
  BY LimitsAssumption DEF Address, Halves
<1>2. a = At(a.type, a.bottom, a.row, a.column, a.minor)
  BY DEF Address, At
<1>3. QED
  BY <1>1, <1>2

LEMMA LessTransitive ==
  ASSUME NEW a \in Address, NEW b \in Address, NEW c \in Address,
         Less(a, b), Less(b, c)
  PROVE  Less(a, c)
  BY AddressFields DEF Less

LEMMA LessIrreflexive ==
  ASSUME NEW a \in Address
  PROVE  ~ Less(a, a)
  BY AddressFields DEF Less

LEMMA LessTotal ==
  ASSUME NEW a \in Address, NEW b \in Address
  PROVE  Less(a, b) \/ a = b \/ Less(b, a)
<1>1. a = At(a.type, a.bottom, a.row, a.column, a.minor)
  BY AddressFields
<1>2. b = At(b.type, b.bottom, b.row, b.column, b.minor)
  BY AddressFields
<1>3. QED
  BY <1>1, <1>2, AddressFields DEF Less

LEMMA ZeroIsFirst ==
  /\ Zero \in Address
  /\ \A a \in Address : ~ Less(a, Zero)
<1>1. Zero \in Address
  BY FrameAddressType DEF Zero, Halves, kCLBIOCLK
<1>2. \A a \in Address : ~ Less(a, Zero)
  <2>1. TAKE a \in Address
  <2>2. a.type >= 0 /\ a.bottom >= 0 /\ a.row >= 0 /\ a.column >= 0 /\ a.minor >= 0
    BY DEF Address, Halves
  <2>3. QED
    BY <2>2, ZeroFields DEF Less, At, kCLBIOCLK, Address, Halves
<1>3. QED
  BY <1>1, <1>2

(* The elements of two sequences one after the other.                      *)
LEMMA JoinAt ==
  ASSUME NEW S, NEW s \in Seq(S), NEW t \in Seq(S)
  PROVE  /\ s \o t \in Seq(S)
         /\ Len(s) \in Nat /\ Len(t) \in Nat
         /\ Len(s \o t) = Len(s) + Len(t)
         /\ \A i \in 1 .. Len(s) : (s \o t)[i] = s[i]
         /\ \A i \in 1 .. Len(t) : (s \o t)[Len(s) + i] = t[i]
<1>1. Len(s) \in Nat /\ Len(t) \in Nat
  BY LenProperties
<1>2. /\ s \o t \in Seq(S)
      /\ Len(s \o t) = Len(s) + Len(t)
      /\ \A i \in 1 .. Len(s) + Len(t) : (s \o t)[i] =
           IF i <= Len(s) THEN s[i] ELSE t[i - Len(s)]
  BY ConcatProperties
<1>3. \A i \in 1 .. Len(s) : (s \o t)[i] = s[i]
  BY <1>1, <1>2
<1>4. \A i \in 1 .. Len(t) : (s \o t)[Len(s) + i] = t[i]
  <2>1. TAKE i \in 1 .. Len(t)
  <2>2. /\ Len(s) + i \in 1 .. Len(s) + Len(t)
        /\ ~ (Len(s) + i <= Len(s)) /\ Len(s) + i - Len(s) = i
    BY <1>1
  <2>3. QED
    BY <1>2, <2>2
<1>5. QED
  BY <1>1, <1>2, <1>3, <1>4

-----------------------------------------------------------------------------
(* The packets of the package, by their places.                            *)

PackageLength == 38
FirstFDRI == 22     (* the packet that starts the write, without data       *)
FramesFDRI == 23    (* the packet of the frames                             *)
IdcodeAt == 11

Value(p) == p.data[1]

(* What the packet at a place of the package is to the device.             *)
IsPlaced(p, i, frames) ==
  /\ p.opcode \in {"nop", "write"}
  /\ p.opcode = "write" /\ p.address = "FDRI" <=> i \in {FirstFDRI, FramesFDRI}
  /\ i = FirstFDRI => p.data = <<>>
  /\ i = FramesFDRI => p.data = frames
  /\ i \notin {FirstFDRI, FramesFDRI} => (p.data = <<>> <=> p.opcode = "nop")
  /\ p.opcode = "write" =>
       /\ p.address \in {"MASK", "CTL1"} => Value(p) \subseteq 0 .. 31
       /\ p.address = "FAR" => Value(p) \in Address
       /\ p.address = "FAR" /\ i < FirstFDRI => Value(p) = Zero
       /\ p.address = "CMD" /\ i > FramesFDRI => Value(p) # "WCFG"
       /\ p.address = "IDCODE" => i = IdcodeAt /\ Value(p) = Idcode
  /\ i = IdcodeAt => p.opcode = "write" /\ p.address = "IDCODE"
  /\ i = FramesFDRI + 1 => p.opcode = "write" /\ p.address = "CMD"

LEMMA FinalAddressType == FinalAddress \in Address
  BY LimitsAssumption, FrameAddressType DEF FinalAddress, Halves

LEMMA NopPlaced ==
  ASSUME NEW frames, NEW i \in Nat,
         i \notin {IdcodeAt, FirstFDRI, FramesFDRI, FramesFDRI + 1}
  PROVE  IsPlaced(Nop, i, frames)
  BY DEF IsPlaced, Nop

LEMMA WritePlaced ==
  ASSUME NEW frames, NEW register, NEW value, NEW i \in Nat,
         register # "FDRI", i \notin {FirstFDRI, FramesFDRI},
         register \in {"MASK", "CTL1"} => value \subseteq 0 .. 31,
         register = "FAR" => value \in Address,
         register = "FAR" /\ i < FirstFDRI => value = Zero,
         register = "CMD" /\ i > FramesFDRI => value # "WCFG",
         register = "IDCODE" => i = IdcodeAt /\ value = Idcode,
         i = IdcodeAt => register = "IDCODE",
         i = FramesFDRI + 1 => register = "CMD"
  PROVE  IsPlaced(Write(register, value), i, frames)
<1>1. /\ Write(register, value).opcode = "write"
      /\ Write(register, value).address = register
      /\ Write(register, value).data # <<>>
      /\ Value(Write(register, value)) = value
  BY DEF Write, Value
<1>2. QED
  BY <1>1 DEF IsPlaced

LEMMA InitializationPlaced ==
  ASSUME NEW frames
  PROVE  \A i \in 1 .. 21 : IsPlaced(Initialization[i], i, frames)
<1> USE DEF Initialization, IdcodeAt, FirstFDRI, FramesFDRI
<1>1. \A i \in {1, 5, 7, 13, 18, 21} : Initialization[i] = Nop
  OBVIOUS
<1>1a. \A i \in {1, 5, 7, 13, 18, 21} : IsPlaced(Initialization[i], i, frames)
  BY <1>1, NopPlaced
<1>2. /\ IsPlaced(Initialization[2], 2, frames)
      /\ IsPlaced(Initialization[3], 3, frames)
      /\ IsPlaced(Initialization[4], 4, frames)
  BY WritePlaced
<1>3. /\ IsPlaced(Initialization[6], 6, frames)
      /\ IsPlaced(Initialization[8], 8, frames)
      /\ IsPlaced(Initialization[9], 9, frames)
  BY WritePlaced
<1>4. /\ IsPlaced(Initialization[10], 10, frames)
      /\ IsPlaced(Initialization[11], 11, frames)
      /\ IsPlaced(Initialization[12], 12, frames)
  BY WritePlaced
<1>5. /\ IsPlaced(Initialization[14], 14, frames)
      /\ IsPlaced(Initialization[15], 15, frames)
      /\ IsPlaced(Initialization[16], 16, frames)
  BY WritePlaced
<1>6. /\ IsPlaced(Initialization[17], 17, frames)
      /\ IsPlaced(Initialization[19], 19, frames)
      /\ IsPlaced(Initialization[20], 20, frames)
  BY WritePlaced, ZeroIsFirst
<1>7. QED
  BY <1>1a, <1>2, <1>3, <1>4, <1>5, <1>6

LEMMA FinalizationPlaced ==
  ASSUME NEW frames
  PROVE  \A i \in 1 .. 15 : IsPlaced(Finalization[i], FramesFDRI + i, frames)
<1> DEFINE Placed(i) == IsPlaced(Finalization[i], FramesFDRI + i, frames)
<1> USE DEF Finalization, IdcodeAt, FirstFDRI, FramesFDRI
<1>1. Placed(2) /\ Placed(4) /\ Placed(6) /\ Placed(8) /\ Placed(13) /\ Placed(15)
  BY NopPlaced
<1>2. Placed(1) /\ Placed(3) /\ Placed(5)
  BY WritePlaced
<1>3. Placed(7) /\ Placed(9) /\ Placed(10)
  BY WritePlaced, FinalAddressType
<1>4. Placed(11) /\ Placed(12) /\ Placed(14)
  BY WritePlaced
<1>5. QED
  BY <1>1, <1>2, <1>3, <1>4

LEMMA PackagePlaced ==
  ASSUME NEW frames
  PROVE  /\ \E T : Package(frames) \in Seq(T)
         /\ Len(Package(frames)) = PackageLength
         /\ \A i \in 1 .. PackageLength : IsPlaced(Package(frames)[i], i, frames)
<1> DEFINE middle == <<FrameData(<<>>), FrameData(frames)>>
           front == Initialization \o middle
           S == {Initialization[i] : i \in 1 .. 21}
                  \cup {middle[i] : i \in 1 .. 2}
                  \cup {Finalization[i] : i \in 1 .. 15}
<1>1. Initialization \in Seq(S) /\ Len(Initialization) = 21
  BY DEF Initialization
<1>2. Finalization \in Seq(S) /\ Len(Finalization) = 15
  BY DEF Finalization
<1>3. middle \in Seq(S) /\ Len(middle) = 2
  OBVIOUS
<1>4. /\ middle[1] = FrameData(<<>>) /\ middle[2] = FrameData(frames)
  OBVIOUS
<1> HIDE DEF middle, S
<1>5. /\ front \in Seq(S) /\ Len(front) = 23
      /\ \A i \in 1 .. 21 : front[i] = Initialization[i]
      /\ front[22] = middle[1] /\ front[23] = middle[2]
  <2>0. Initialization \in Seq(S) /\ middle \in Seq(S)
    BY <1>1, <1>3
  <2>1. /\ front \in Seq(S)
        /\ Len(Initialization) \in Nat /\ Len(middle) \in Nat
        /\ Len(front) = Len(Initialization) + Len(middle)
        /\ \A i \in 1 .. Len(Initialization) : front[i] = Initialization[i]
        /\ \A i \in 1 .. Len(middle) : front[Len(Initialization) + i] = middle[i]
    BY <2>0, JoinAt
  <2> HIDE DEF front
  <2>2. front[21 + 1] = middle[1] /\ front[21 + 2] = middle[2]
    BY <1>1, <1>3, <2>1
  <2>3. QED
    BY <1>1, <1>3, <2>1, <2>2
<1> HIDE DEF front
<1> DEFINE all == front \o Finalization
<1>6. /\ all \in Seq(S) /\ Len(all) = 38
      /\ \A i \in 1 .. 23 : all[i] = front[i]
      /\ \A i \in 1 .. 15 : all[23 + i] = Finalization[i]
  <2>0. front \in Seq(S) /\ Finalization \in Seq(S)
    BY <1>2, <1>5
  <2>1. /\ all \in Seq(S)
        /\ Len(front) \in Nat /\ Len(Finalization) \in Nat
        /\ Len(all) = Len(front) + Len(Finalization)
        /\ \A i \in 1 .. Len(front) : all[i] = front[i]
        /\ \A i \in 1 .. Len(Finalization) : all[Len(front) + i] = Finalization[i]
    BY <2>0, JoinAt
  <2> HIDE DEF all
  <2>2. QED
    BY <1>2, <1>5, <2>1
<1> HIDE DEF all
<1>7. Package(frames) = all
  BY DEF Package, all, front, middle
<1>8. IsPlaced(Package(frames)[22], 22, frames)
  <2>1. Package(frames)[22] = FrameData(<<>>)
    BY <1>4, <1>5, <1>6, <1>7
  <2>2. QED
    BY <2>1 DEF FrameData, IsPlaced, IdcodeAt, FirstFDRI, FramesFDRI
<1>9. IsPlaced(Package(frames)[23], 23, frames)
  <2>1. Package(frames)[23] = FrameData(frames)
    BY <1>4, <1>5, <1>6, <1>7
  <2>2. QED
    BY <2>1 DEF FrameData, IsPlaced, IdcodeAt, FirstFDRI, FramesFDRI
<1>10. \A i \in 1 .. 21 : IsPlaced(Package(frames)[i], i, frames)
  <2>1. TAKE i \in 1 .. 21
  <2>2. Package(frames)[i] = Initialization[i]
    <3>1. i \in 1 .. 23
      OBVIOUS
    <3>2. all[i] = front[i]
      BY <1>6, <3>1
    <3>3. QED
      BY <1>5, <1>7, <3>2
  <2>3. QED
    BY <2>2, InitializationPlaced
<1>11. \A i \in 1 .. 15 : IsPlaced(Package(frames)[23 + i], 23 + i, frames)
  BY <1>6, <1>7, FinalizationPlaced DEF FramesFDRI
<1>12. \A i \in 1 .. 38 : IsPlaced(Package(frames)[i], i, frames)
  <2>1. TAKE i \in 1 .. 38
  <2>2. i \in 1 .. 21 \/ i = 22 \/ i = 23 \/ (i - 23 \in 1 .. 15 /\ i = 23 + (i - 23))
    OBVIOUS
  <2>3. QED
    BY <2>2, <1>8, <1>9, <1>10, <1>11
<1>13. \E T : Package(frames) \in Seq(T)
  BY <1>6, <1>7
<1>14. QED
  BY <1>6, <1>7, <1>12, <1>13 DEF PackageLength

-----------------------------------------------------------------------------
(* The device: which packets it has handled, and what it holds then.       *)

Handled == PackageLength - Len(packets)

(* What is left of the package.                                            *)
Queued ==
  stage = "device" =>
    /\ \E T : packets \in Seq(T)
    /\ Len(packets) \in 0 .. PackageLength
    /\ \A i \in 1 .. Len(packets) : packets[i] = Package(payload)[Handled + i]

(* The first FDRI packet makes the pending write begin at address zero,    *)
(* the second one has the frames, after it no packet begins another write; *)
(* a device that has got past the idcode is one of the part.               *)
Sequenced ==
  stage = "device" =>
    /\ Handled < FirstFDRI => frame_address_register = Zero
    /\ \/ Handled < FirstFDRI
       \/ Handled = FirstFDRI /\ offset = Device!Idle
       => current_frame_address = Zero /\ loaded = <<>>
    /\ Handled \notin {FirstFDRI - 1, FirstFDRI} => offset = Device!Idle
    /\ Handled = FirstFDRI - 1 /\ offset # Device!Idle =>
         offset = 0 /\ ~ start_new_write
    /\ Handled >= FirstFDRI => ~ start_new_write
    /\ Handled > FramesFDRI => command_register # "WCFG"
    /\ Handled >= IdcodeAt /\ verdict # "rejected" => idcode = Idcode
    /\ offset # Device!Idle => verdict = "reading"
    /\ verdict = "rejected" => Handled = IdcodeAt
    /\ verdict = "configured" => packets = <<>>

Types ==
  /\ copied \subseteq DOMAIN data
  /\ payload \in Seq(Words)
  /\ idcode \in {Idcode, OtherIdcode}
  /\ Device!DeviceTypeOK

(* What the steps of the device leave alone.                               *)
Fixed ==
  UNCHANGED <<part, assembled, data, current, stage, copied, payload, idcode>>

LEMMA ConfigureFrame == Configure => stage = "device" /\ Device!DeviceNext /\ Fixed
<1> USE DEF Device!device
<1>1. Device!DeviceNext => UNCHANGED <<part, idcode>>
  BY DEF Device!DeviceNext, Device!SkipPacket, Device!WriteMASK,
         Device!WriteCTL1, Device!WriteCMD, Device!WriteIDCODE,
         Device!WriteFAR, Device!BeginFDRI, Device!WriteFrame,
         Device!WriteLastFrame, Device!EndFDRI, Device!Return
<1>2. QED
  BY <1>1 DEF Configure, Fixed, fillVars, layoutVars

LEMMA HeadPlaced ==
  ASSUME Queued, stage = "device", packets # <<>>
  PROVE  /\ Handled \in 0 .. PackageLength - 1
         /\ IsPlaced(Device!packet, Handled + 1, payload)
<1>1. PICK T : packets \in Seq(T)
  BY DEF Queued
<1>2. Len(packets) \in 1 .. PackageLength /\ Head(packets) = packets[1]
  <2>1. Len(packets) # 0
    BY <1>1
  <2>2. Len(packets) \in 0 .. 38
    BY DEF Queued, PackageLength
  <2>3. Head(packets) = packets[1]
    BY <1>1
  <2>4. QED
    BY <2>1, <2>2, <2>3 DEF PackageLength
<1>3. Handled \in 0 .. PackageLength - 1 /\ Handled + 1 \in 1 .. PackageLength
  <2>1. \A n \in 1 .. 38 : 38 - n \in 0 .. 38 - 1 /\ (38 - n) + 1 \in 1 .. 38
    OBVIOUS
  <2>2. QED
    BY <1>2, <2>1, Zenon DEF Handled, PackageLength
<1>4. packets[1] = Package(payload)[Handled + 1]
  BY <1>2 DEF Queued
<1>5. QED
  BY <1>2, <1>3, <1>4, PackagePlaced DEF Device!packet

LEMMA ConsumeQueued ==
  ASSUME Queued, stage = "device", packets # <<>>, Device!Consume,
         payload' = payload, stage' = stage
  PROVE  Queued' /\ Handled' = Handled + 1
<1>1. PICK T : packets \in Seq(T)
  BY DEF Queued
<1>2. /\ packets' \in Seq(T)
      /\ Len(packets') = Len(packets) - 1
      /\ \A i \in 1 .. Len(packets') : packets'[i] = packets[i + 1]
  BY <1>1, HeadTailProperties DEF Device!Consume
<1>3. Len(packets) \in 1 .. PackageLength
  <2>1. Len(packets) # 0
    BY <1>1
  <2>2. Len(packets) \in 0 .. 38
    BY DEF Queued, PackageLength
  <2>3. QED
    BY <2>1, <2>2 DEF PackageLength
<1>4. Handled' = Handled + 1 /\ Handled \in Int
  BY <1>2, <1>3 DEF Handled, PackageLength
<1>5. Len(packets') \in 0 .. PackageLength
  <2>1. \A n \in 1 .. 38 : n - 1 \in 0 .. 38
    OBVIOUS
  <2>2. QED
    BY <2>1, <1>2, <1>3 DEF PackageLength
<1>6. ASSUME NEW i \in 1 .. Len(packets')
      PROVE  packets'[i] = Package(payload')[Handled' + i]
  <2>1. i + 1 \in 1 .. Len(packets) /\ Handled + (i + 1) = Handled' + i
    BY <1>2, <1>3, <1>4 DEF PackageLength
  <2>2. packets[i + 1] = Package(payload)[Handled + (i + 1)]
    BY <2>1 DEF Queued
  <2>3. QED
    BY <1>2, <2>1, <2>2
<1>7. QED
  BY <1>2, <1>4, <1>5, <1>6 DEF Queued

LEMMA KeepQueued ==
  ASSUME Queued, UNCHANGED <<packets, payload, stage>>
  PROVE  Queued' /\ Handled' = Handled
  BY DEF Queued, Handled

-----------------------------------------------------------------------------
LEMMA InFDRIData ==
  ASSUME Types, Queued, Sequenced, stage = "device", packets # <<>>,
         Device!InFDRI
  PROVE  /\ Handled = FirstFDRI /\ Device!packet.data = payload
         /\ offset \in Nat /\ offset + 1 \in 1 .. Len(payload)
         /\ ~ start_new_write
<1>1. offset # Device!Idle /\ offset < Len(Device!packet.data) /\ offset \in Nat
  BY DEF Device!InFDRI, Types, Device!DeviceTypeOK, Device!Idle
<1>2. Handled \in {FirstFDRI - 1, FirstFDRI} /\ ~ start_new_write
  BY <1>1 DEF Sequenced, FirstFDRI
<1>3. IsPlaced(Device!packet, Handled + 1, payload)
  BY HeadPlaced
<1>4. Handled # FirstFDRI - 1
  <2>1. SUFFICES ASSUME Handled = FirstFDRI - 1 PROVE FALSE
    OBVIOUS
  <2>2. Device!packet.data = <<>>
    BY <1>3, <2>1 DEF IsPlaced, FirstFDRI
  <2>3. QED
    BY <1>1, <2>2
<1>5. Handled = FirstFDRI /\ Device!packet.data = payload
  BY <1>2, <1>3, <1>4 DEF IsPlaced, FirstFDRI, FramesFDRI
<1>6. payload \in Seq(Words) /\ Len(payload) \in Nat
  BY LenProperties DEF Types
<1>7. QED
  BY <1>1, <1>2, <1>5, <1>6

(* The handling of packets other than FDRI.                                *)
Registers ==
  \/ Device!SkipPacket \/ Device!WriteMASK \/ Device!WriteCTL1
  \/ Device!WriteCMD \/ Device!WriteIDCODE \/ Device!WriteFAR

LEMMA RegistersStep ==
  ASSUME Queued, Sequenced, stage = "device", Registers, Fixed
  PROVE  /\ packets # <<>> /\ Queued' /\ Handled' = Handled + 1
         /\ Handled \in 0 .. PackageLength - 1
         /\ verdict = "reading"
         /\ Handled \notin {FirstFDRI - 1, FirstFDRI} /\ offset = Device!Idle
         /\ UNCHANGED <<current_frame_address, loaded, offset>>
<1> USE DEF Device!device, Device!registers, Device!writePosition
<1>1. /\ packets # <<>> /\ Device!Consume /\ verdict = "reading"
      /\ UNCHANGED <<current_frame_address, loaded, offset>>
      /\ ~ (Device!packet.opcode = "write" /\ Device!packet.address = "FDRI")
  <2>1. CASE Device!SkipPacket
    BY <2>1 DEF Device!SkipPacket
  <2>2. CASE Device!WriteMASK
    BY <2>2 DEF Device!WriteMASK, Device!Writes
  <2>3. CASE Device!WriteCTL1
    BY <2>3 DEF Device!WriteCTL1, Device!Writes
  <2>4. CASE Device!WriteCMD
    BY <2>4 DEF Device!WriteCMD, Device!Writes
  <2>5. CASE Device!WriteIDCODE
    BY <2>5 DEF Device!WriteIDCODE, Device!Writes
  <2>6. CASE Device!WriteFAR
    BY <2>6 DEF Device!WriteFAR, Device!Writes
  <2>7. QED
    BY <2>1, <2>2, <2>3, <2>4, <2>5, <2>6 DEF Registers
<1>2. Handled \in 0 .. PackageLength - 1 /\ IsPlaced(Device!packet, Handled + 1, payload)
  BY <1>1, HeadPlaced
<1>3. Queued' /\ Handled' = Handled + 1
  BY <1>1, ConsumeQueued DEF Fixed
<1>4. Handled + 1 \notin {FirstFDRI, FramesFDRI}
  BY <1>1, <1>2 DEF IsPlaced
<1>5. Handled \notin {FirstFDRI - 1, FirstFDRI}
  BY <1>2, <1>4 DEF FirstFDRI, FramesFDRI, PackageLength
<1>6. offset = Device!Idle
  BY <1>5 DEF Sequenced
<1>7. QED
  BY <1>1, <1>2, <1>3, <1>5, <1>6

LEMMA RegistersTypes ==
  ASSUME Types, Queued, Sequenced, stage = "device", Registers, Fixed
  PROVE  Device!DeviceTypeOK'
<1> USE DEF Device!device, Device!registers, Device!writePosition,
            Device!DeviceTypeOK, Device!word, Value
<1>0. part' = part
  BY DEF Fixed
<1>1. packets # <<>> /\ UNCHANGED <<current_frame_address, loaded, offset>>
  BY RegistersStep
<1>2. IsPlaced(Device!packet, Handled + 1, payload)
  BY <1>1, HeadPlaced
<1>3. Device!DeviceTypeOK
  BY DEF Types
<1>4. Device!IsFrameMap(loaded)'
  BY <1>1, <1>3 DEF Device!IsFrameMap
<1> USE <1>0, <1>1, <1>2, <1>3, <1>4
<1>5. CASE Device!SkipPacket
  BY <1>5 DEF Device!SkipPacket
<1>6. CASE Device!WriteMASK
  BY <1>6 DEF Device!WriteMASK, Device!Writes, IsPlaced
<1>7. CASE Device!WriteCTL1
  BY <1>7 DEF Device!WriteCTL1, Device!Writes, IsPlaced
<1>8. CASE Device!WriteCMD
  BY <1>8 DEF Device!WriteCMD, Device!Writes
<1>9. CASE Device!WriteIDCODE
  BY <1>9 DEF Device!WriteIDCODE, Device!Writes
<1>10. CASE Device!WriteFAR
  <2>1. frame_address_register' \in Device!Address
    BY <1>10, SameAddresses DEF Device!WriteFAR, Device!Writes, IsPlaced
  <2>2. start_new_write' \in BOOLEAN
    BY <1>10 DEF Device!WriteFAR, Device!ExecutesCommand
  <2>3. QED
    BY <1>10, <2>1, <2>2 DEF Device!WriteFAR
<1>11. QED
  BY <1>5, <1>6, <1>7, <1>8, <1>9, <1>10 DEF Registers

LEMMA RegistersSequenced ==
  ASSUME Types, Queued, Sequenced, stage = "device", Registers, Fixed
  PROVE  Sequenced'
<1> USE DEF Device!device, Device!registers, Device!writePosition, Device!word,
            Value, FirstFDRI, FramesFDRI, IdcodeAt, PackageLength
<1>1. /\ packets # <<>> /\ Handled' = Handled + 1
      /\ Handled \in 0 .. PackageLength - 1
      /\ verdict = "reading"
      /\ Handled \notin {FirstFDRI - 1, FirstFDRI} /\ offset = Device!Idle
      /\ UNCHANGED <<current_frame_address, loaded, offset>>
  BY RegistersStep
<1>2. IsPlaced(Device!packet, Handled + 1, payload)
  BY <1>1, HeadPlaced
<1>3. stage' = stage /\ idcode' = idcode
  BY DEF Fixed
<1>4. Handled' < FirstFDRI => frame_address_register' = Zero
  BY <1>1, <1>2 DEF Sequenced, IsPlaced, Registers, Device!SkipPacket,
     Device!WriteMASK, Device!WriteCTL1, Device!WriteCMD, Device!WriteIDCODE,
     Device!WriteFAR, Device!Writes
<1>5. Handled' >= FirstFDRI => ~ start_new_write'
  <2>1. SUFFICES ASSUME Handled >= FramesFDRI
                 PROVE  ~ start_new_write'
    <3>1. \A n \in 0 .. 37 : n # 21 /\ n # 22 /\ n + 1 >= 22 => n >= 23
      OBVIOUS
    <3>2. QED
      BY <1>1, <3>1
  <2>2. ~ start_new_write /\ (Handled > FramesFDRI => command_register # "WCFG")
    <3>1. Handled >= FirstFDRI
      BY <1>1, <2>1
    <3>2. QED
      BY <3>1 DEF Sequenced
  <2>3. CASE Device!WriteCMD
    <3>1. Handled + 1 > FramesFDRI
      BY <1>1, <2>1
    <3>2. Device!packet.opcode = "write" /\ Device!packet.address = "CMD"
      BY <2>3 DEF Device!WriteCMD, Device!Writes
    <3>3. Device!packet.data[1] # "WCFG"
      BY <1>2, <3>1, <3>2, Zenon DEF IsPlaced
    <3>4. QED
      BY <2>2, <2>3, <3>3, Zenon DEF Device!WriteCMD
  <2>4. CASE Device!WriteFAR
    <3>1. Handled > FramesFDRI
      BY <1>1, <1>2, <2>1, <2>4 DEF Device!WriteFAR, Device!Writes, IsPlaced
    <3>2. QED
      BY <2>2, <2>4, <3>1, Zenon DEF Device!WriteFAR, Device!ExecutesCommand
  <2>5. CASE ~ Device!WriteCMD /\ ~ Device!WriteFAR
    BY <2>2, <2>5 DEF Registers, Device!SkipPacket, Device!WriteMASK,
       Device!WriteCTL1, Device!WriteIDCODE
  <2>6. QED
    BY <2>3, <2>4, <2>5
<1>6. Handled' > FramesFDRI => command_register' # "WCFG"
  <2>1. SUFFICES ASSUME Handled >= FramesFDRI
                 PROVE  command_register' # "WCFG"
    BY <1>1
  <2>2. CASE Device!WriteCMD
    BY <1>1, <1>2, <2>1, <2>2 DEF Device!WriteCMD, Device!Writes, IsPlaced
  <2>3. CASE ~ Device!WriteCMD
    <3>1. Handled > FramesFDRI
      BY <1>1, <1>2, <2>1, <2>3 DEF IsPlaced, Registers, Device!SkipPacket,
         Device!WriteMASK, Device!WriteCTL1, Device!WriteIDCODE,
         Device!WriteFAR, Device!Writes
    <3>2. QED
      BY <2>3, <3>1 DEF Sequenced, Registers, Device!SkipPacket,
         Device!WriteMASK, Device!WriteCTL1, Device!WriteIDCODE, Device!WriteFAR
  <2>4. QED
    BY <2>2, <2>3
<1>7. /\ Handled' >= IdcodeAt /\ verdict' # "rejected" => idcode' = Idcode
      /\ verdict' \in {"reading", "rejected"}
      /\ verdict' = "rejected" => Handled' = IdcodeAt
  <2>1. CASE Device!WriteIDCODE
    BY <1>1, <1>2, <1>3, <2>1 DEF Device!WriteIDCODE, Device!Writes, IsPlaced
  <2>2. CASE ~ Device!WriteIDCODE
    <3>1. Handled # IdcodeAt - 1 /\ verdict' = verdict
      BY <1>1, <1>2, <2>2 DEF IsPlaced, Registers, Device!SkipPacket,
         Device!WriteMASK, Device!WriteCTL1, Device!WriteCMD,
         Device!WriteFAR, Device!Writes
    <3>2. QED
      BY <1>1, <1>3, <3>1 DEF Sequenced
  <2>3. QED
    BY <2>1, <2>2
<1>8. QED
  BY <1>1, <1>3, <1>4, <1>5, <1>6, <1>7 DEF Sequenced

-----------------------------------------------------------------------------
(* The handling of FDRI packets.                                           *)

LEMMA InFDRIPlace ==
  ASSUME Queued, Sequenced, stage = "device", offset # Device!Idle
  PROVE  /\ packets # <<>> /\ verdict = "reading"
         /\ Handled \in {FirstFDRI - 1, FirstFDRI}
         /\ ~ start_new_write
<1>1. verdict = "reading" /\ Handled \in {FirstFDRI - 1, FirstFDRI}
  BY DEF Sequenced
<1>2. packets # <<>>
  <2>1. Len(<<>>) = 0
    OBVIOUS
  <2>2. QED
    BY <1>1, <2>1 DEF Handled, PackageLength, FirstFDRI
<1>3. ~ start_new_write
  BY <1>1 DEF Sequenced, FirstFDRI
<1>4. QED
  BY <1>1, <1>2, <1>3

LEMMA BeginFDRIStep ==
  ASSUME Types, Queued, Sequenced, stage = "device", Device!BeginFDRI, Fixed
  PROVE  /\ Handled \in {FirstFDRI - 1, FirstFDRI}
         /\ Queued' /\ Handled' = Handled
         /\ current_frame_address' = Zero /\ loaded = <<>> /\ loaded' = <<>>
         /\ offset' = 0
         /\ Device!DeviceTypeOK' /\ Sequenced'
<1> USE DEF Device!device, Device!registers, FirstFDRI, FramesFDRI
<1>1. /\ verdict = "reading" /\ packets # <<>> /\ offset = Device!Idle
      /\ Device!packet.opcode = "write" /\ Device!packet.address = "FDRI"
      /\ current_frame_address' =
           IF start_new_write THEN frame_address_register
                              ELSE current_frame_address
      /\ ~ start_new_write' /\ start_new_write' = FALSE /\ offset' = 0
      /\ UNCHANGED <<packets, frame_address_register, command_register,
                     mask_register, ctl1_register, loaded, verdict>>
  BY DEF Device!BeginFDRI
<1>2. Handled \in {FirstFDRI - 1, FirstFDRI}
  <2>1. Handled \in 0 .. 37 /\ IsPlaced(Device!packet, Handled + 1, payload)
    BY <1>1, HeadPlaced DEF PackageLength
  <2>2. Handled + 1 \in {22, 23}
    BY <1>1, <2>1 DEF IsPlaced
  <2>3. QED
    BY <2>1, <2>2
<1>3. Queued' /\ Handled' = Handled
  BY <1>1, KeepQueued DEF Fixed
<1>4. current_frame_address = Zero /\ loaded = <<>>
  BY <1>1, <1>2 DEF Sequenced
<1>5. current_frame_address' = Zero
  <2>1. CASE Handled = 21
    <3>1. frame_address_register = Zero
      BY <2>1 DEF Sequenced
    <3>2. QED
      BY <1>1, <1>4, <3>1, Zenon
  <2>2. CASE Handled = 22
    <3>1. ~ start_new_write
      BY <2>2 DEF Sequenced
    <3>2. QED
      BY <1>1, <1>4, <3>1, Zenon
  <2>3. QED
    BY <1>2, <2>1, <2>2
<1>6. Device!DeviceTypeOK'
  <2>1. part' = part /\ loaded' = loaded
    BY <1>1 DEF Fixed
  <2>2. Device!IsFrameMap(loaded)'
    BY <2>1 DEF Types, Device!DeviceTypeOK, Device!IsFrameMap
  <2>3. offset' \in Nat \cup {Device!Idle} /\ start_new_write' \in BOOLEAN
    BY <1>1
  <2>4. QED
    BY <1>1, <1>5, <2>1, <2>2, <2>3, ZeroIsFirst, SameAddresses
       DEF Types, Device!DeviceTypeOK
<1>7. Sequenced'
  <2>1. Handled \in 0 .. 37 /\ stage' = stage /\ idcode' = idcode
    BY <1>2 DEF Fixed
  <2>2. QED
    BY <1>1, <1>2, <1>3, <1>4, <1>5, <2>1 DEF Sequenced, IdcodeAt
<1>8. QED
  BY <1>1, <1>2, <1>3, <1>4, <1>5, <1>6, <1>7

(* A frame is written, and the cursor goes on if the part has a next frame.*)
LEMMA StoreStep ==
  ASSUME Types, Queued, Sequenced, IsPart(part), stage = "device",
         Device!WriteFrame \/ Device!WriteLastFrame, Fixed
  PROVE  /\ Handled = FirstFDRI
         /\ offset \in Nat /\ offset + 1 \in 1 .. Len(payload)
         /\ loaded' = [a \in DOMAIN loaded \cup {current_frame_address} |->
                         IF a = current_frame_address THEN payload[offset + 1]
                                                      ELSE loaded[a]]
         /\ Queued' /\ Device!DeviceTypeOK' /\ Sequenced'
<1> USE DEF Device!device, Device!registers, Device!writePosition
<1>1. Device!InFDRI /\ Device!StoreFrame
  BY DEF Device!WriteFrame, Device!WriteLastFrame
<1>2. packets # <<>> /\ verdict = "reading"
  BY <1>1, InFDRIPlace DEF Device!InFDRI
<1>3. /\ Handled = FirstFDRI /\ Device!packet.data = payload
      /\ offset \in Nat /\ offset + 1 \in 1 .. Len(payload)
      /\ ~ start_new_write
  BY <1>1, <1>2, InFDRIData
<1>4. loaded' = [a \in DOMAIN loaded \cup {current_frame_address} |->
                   IF a = current_frame_address THEN payload[offset + 1]
                                                ELSE loaded[a]]
  BY <1>1, <1>3 DEF Device!StoreFrame
<1>5. Device!IsFrameMap(loaded)'
  <2>1. payload[offset + 1] \in Words
    BY <1>3, ElementOfSeq DEF Types
  <2>2. /\ DOMAIN loaded \subseteq Device!Address
        /\ loaded \in [DOMAIN loaded -> Words]
        /\ current_frame_address \in Device!Address
    BY DEF Types, Device!DeviceTypeOK, Device!IsFrameMap
  <2>3. QED
    BY <1>4, <2>1, <2>2 DEF Device!IsFrameMap
<1>6. /\ part' = part /\ stage' = stage /\ idcode' = idcode /\ payload' = payload
      /\ UNCHANGED <<command_register, frame_address_register, mask_register,
                     ctl1_register, start_new_write, verdict>>
  BY DEF Device!WriteFrame, Device!WriteLastFrame, Fixed
<1>7. CASE Device!WriteFrame
  <2>1. /\ \E next \in GetNextFrameAddress(part, current_frame_address) :
             /\ offset' \in {offset + 3, offset + 1}
             /\ current_frame_address' = next
        /\ packets' = packets
    BY <1>7, SameWalk DEF Device!WriteFrame
  <2>2. Queued' /\ Handled' = Handled
    BY <1>6, <2>1, KeepQueued
  <2>3. current_frame_address' \in Device!Address
    BY <2>1, SameAddresses, NextType DEF Types, Device!DeviceTypeOK
  <2>4. offset' \in Nat
    BY <1>3, <2>1
  <2>5. Device!DeviceTypeOK'
    BY <1>5, <1>6, <2>3, <2>4 DEF Types, Device!DeviceTypeOK
  <2>6. Sequenced'
    BY <1>2, <1>3, <1>6, <2>2, <2>4
       DEF Sequenced, FirstFDRI, FramesFDRI, IdcodeAt, Device!Idle
  <2>7. QED
    BY <1>3, <1>4, <2>2, <2>5, <2>6
<1>8. CASE Device!WriteLastFrame
  <2>1. /\ current_frame_address' = current_frame_address
        /\ offset' = Device!Idle /\ Device!Consume
    BY <1>8 DEF Device!WriteLastFrame
  <2>2. Queued' /\ Handled' = Handled + 1
    BY <1>2, <1>6, <2>1, ConsumeQueued
  <2>3. Device!DeviceTypeOK'
    BY <1>5, <1>6, <2>1 DEF Types, Device!DeviceTypeOK
  <2>4. Sequenced'
    BY <1>2, <1>3, <1>6, <2>1, <2>2
       DEF Sequenced, FirstFDRI, FramesFDRI, IdcodeAt
  <2>5. QED
    BY <1>3, <1>4, <2>2, <2>3, <2>4
<1>9. QED
  BY <1>7, <1>8

LEMMA EndFDRIStep ==
  ASSUME Types, Queued, Sequenced, stage = "device", Device!EndFDRI, Fixed
  PROVE  /\ Handled \in {FirstFDRI - 1, FirstFDRI} /\ Handled' = Handled + 1
         /\ UNCHANGED <<current_frame_address, loaded>>
         /\ offset \in Nat
         /\ Handled = FirstFDRI => offset >= Len(payload)
         /\ Queued' /\ Device!DeviceTypeOK' /\ Sequenced'
<1> USE DEF Device!device, Device!registers, Device!writePosition,
            FirstFDRI, FramesFDRI
<1>1. /\ offset # Device!Idle /\ offset >= Len(Device!packet.data)
      /\ offset' = Device!Idle /\ Device!Consume
      /\ UNCHANGED <<command_register, frame_address_register, mask_register,
                     ctl1_register, start_new_write, current_frame_address,
                     verdict, loaded>>
      /\ part' = part /\ stage' = stage /\ idcode' = idcode /\ payload' = payload
  BY DEF Device!EndFDRI, Fixed
<1>2. /\ packets # <<>> /\ verdict = "reading" /\ ~ start_new_write
      /\ Handled \in {21, 22}
  BY <1>1, InFDRIPlace
<1>3. Queued' /\ Handled' = Handled + 1
  BY <1>1, <1>2, ConsumeQueued
<1>4. offset \in Nat
  BY <1>1 DEF Types, Device!DeviceTypeOK
<1>5. Handled = 22 => offset >= Len(payload)
  <2>1. IsPlaced(Device!packet, Handled + 1, payload)
    BY <1>2, HeadPlaced
  <2>2. Handled = 22 => Device!packet.data = payload
    BY <2>1 DEF IsPlaced
  <2>3. QED
    BY <1>1, <2>2
<1>6. Device!DeviceTypeOK'
  <2>1. Device!IsFrameMap(loaded)'
    BY <1>1 DEF Types, Device!DeviceTypeOK, Device!IsFrameMap
  <2>2. QED
    BY <1>1, <2>1 DEF Types, Device!DeviceTypeOK
<1>7. Sequenced'
  <2>1. CASE Handled = 21
    <3>1. current_frame_address = Zero /\ loaded = <<>>
      BY <2>1 DEF Sequenced
    <3>2. idcode = Idcode
      BY <1>2, <2>1 DEF Sequenced, IdcodeAt
    <3>3. QED
      BY <1>1, <1>2, <1>3, <2>1, <3>1, <3>2 DEF Sequenced, IdcodeAt
  <2>2. CASE Handled = 22
    <3>1. idcode = Idcode
      BY <1>2, <2>2 DEF Sequenced, IdcodeAt
    <3>2. QED
      BY <1>1, <1>2, <1>3, <2>2, <3>1 DEF Sequenced, IdcodeAt
  <2>3. QED
    BY <1>2, <2>1, <2>2
<1>8. QED
  BY <1>1, <1>2, <1>3, <1>4, <1>5, <1>6, <1>7

LEMMA ReturnStep ==
  ASSUME Types, Queued, Sequenced, stage = "device", Device!Return, Fixed
  PROVE  /\ Handled = PackageLength /\ Handled' = Handled
         /\ UNCHANGED <<current_frame_address, loaded, offset>>
         /\ Queued' /\ Device!DeviceTypeOK' /\ Sequenced'
<1> USE DEF Device!device, Device!registers, Device!writePosition
<1>1. /\ packets = <<>> /\ verdict = "reading" /\ verdict' = "configured"
      /\ UNCHANGED <<packets, command_register, frame_address_register,
                     mask_register, ctl1_register, start_new_write,
                     current_frame_address, loaded, offset>>
      /\ part' = part /\ stage' = stage /\ idcode' = idcode /\ payload' = payload
  BY DEF Device!Return, Fixed
<1>2. Handled = PackageLength
  <2>1. Len(packets) = 0
    BY <1>1
  <2>2. QED
    BY <2>1 DEF Handled, PackageLength
<1>3. Queued' /\ Handled' = Handled
  BY <1>1, KeepQueued
<1>4. Device!DeviceTypeOK'
  <2>1. Device!IsFrameMap(loaded)'
    BY <1>1 DEF Types, Device!DeviceTypeOK, Device!IsFrameMap
  <2>2. QED
    BY <1>1, <2>1 DEF Types, Device!DeviceTypeOK
<1>5. Sequenced'
  BY <1>1, <1>2, <1>3
     DEF Sequenced, IdcodeAt, PackageLength, FirstFDRI, FramesFDRI
<1>6. QED
  BY <1>1, <1>2, <1>3, <1>4, <1>5

-----------------------------------------------------------------------------
(* The layout: every frame copied has a place in the payload, the first    *)
(* one is address zero's, and the place of the frame that follows another  *)
(* one in the data is right after that and its padding.                    *)

Gap(a) == Len(Separator(a))

Adjacent(a, b) ==
  Less(a, b) /\ \A d \in DOMAIN data : ~ (Less(a, d) /\ Less(d, b))

IsLast(a) == \A b \in copied : ~ Less(a, b)

Placed(pos) ==
  /\ pos \in [copied -> Nat \ {0}]
  /\ \A a \in copied :
       /\ pos[a] + Gap(a) <= Len(payload)
       /\ payload[pos[a]] = data[a]
       /\ stage = "layout" /\ IsLast(a) => Len(payload) = pos[a] + Gap(a)
       /\ a = Zero => pos[a] = 1
  /\ \A a, b \in copied : Adjacent(a, b) => pos[b] = pos[a] + 1 + Gap(a)

(* The frames are copied in the order of their addresses.                  *)
CopiedInOrder ==
  /\ \A a \in copied : \A b \in DOMAIN data : Less(b, a) => b \in copied
  /\ stage = "layout" /\ copied = {} => payload = <<>>

LEMMA GapType ==
  ASSUME NEW a
  PROVE  /\ Separator(a) \in Seq(Words)
         /\ Gap(a) = IF \E next \in GetNextFrameAddress(part, a) :
                          Device!RowChanges(a, next)
                     THEN 2 ELSE 0
<1>1. ZeroFrames \in Seq(Words) /\ Len(ZeroFrames) = 2
  BY ProgrammingAssumption DEF ZeroFrames
<1>2. <<>> \in Seq(Words) /\ Len(<<>>) = 0
  OBVIOUS
<1> DEFINE Changes == \E next \in GetNextFrameAddress(part, a) :
                        Device!RowChanges(a, next)
<1>3. Separator(a) = IF Changes THEN ZeroFrames ELSE <<>>
  BY DEF Separator
<1> HIDE DEF Changes
<1>4. Separator(a) \in Seq(Words) /\ Gap(a) = IF Changes THEN 2 ELSE 0
  BY <1>1, <1>2, <1>3 DEF Gap
<1>5. QED
  BY <1>4 DEF Changes

(* A frame and its padding added to the payload.                           *)
LEMMA PayloadWithFrame ==
  ASSUME NEW P \in Seq(Words), NEW w \in Words, NEW z \in Seq(Words)
  PROVE  /\ P \o <<w>> \o z \in Seq(Words)
         /\ Len(P) \in Nat /\ Len(z) \in Nat
         /\ Len(P \o <<w>> \o z) = Len(P) + 1 + Len(z)
         /\ (P \o <<w>> \o z)[Len(P) + 1] = w
         /\ \A i \in 1 .. Len(P) : (P \o <<w>> \o z)[i] = P[i]
<1>1. <<w>> \in Seq(Words) /\ Len(<<w>>) = 1 /\ <<w>>[1] = w
  OBVIOUS
<1> DEFINE Q == P \o <<w>>
<1>2. /\ Q \in Seq(Words) /\ Len(P) \in Nat
      /\ Len(Q) = Len(P) + 1
      /\ Q[Len(P) + 1] = w
      /\ \A i \in 1 .. Len(P) : Q[i] = P[i]
  <2>1. /\ Q \in Seq(Words) /\ Len(P) \in Nat
        /\ Len(Q) = Len(P) + Len(<<w>>)
        /\ \A i \in 1 .. Len(P) : Q[i] = P[i]
        /\ \A i \in 1 .. Len(<<w>>) : Q[Len(P) + i] = <<w>>[i]
    BY <1>1, JoinAt
  <2> HIDE DEF Q
  <2>2. QED
    BY <1>1, <2>1
<1> HIDE DEF Q
<1>3. /\ Q \o z \in Seq(Words) /\ Len(z) \in Nat
      /\ Len(Q \o z) = Len(Q) + Len(z)
      /\ \A i \in 1 .. Len(Q) : (Q \o z)[i] = Q[i]
  BY <1>2, JoinAt
<1> DEFINE R == Q \o z
<1>4. R = P \o <<w>> \o z
  BY DEF Q
<1> HIDE DEF R
<1>5. /\ R \in Seq(Words) /\ Len(R) = Len(P) + 1 + Len(z)
      /\ R[Len(P) + 1] = w
      /\ \A i \in 1 .. Len(P) : R[i] = P[i]
  BY <1>2, <1>3 DEF R
<1>6. QED
  BY <1>2, <1>3, <1>4, <1>5, Zenon

LEMMA CopyFrameStep ==
  ASSUME Types, CopiedInOrder, CopyFrame,
         DOMAIN data \subseteq Address, data \in [DOMAIN data -> Words],
         NEW pos, Placed(pos)
  PROVE  /\ payload' \in Seq(Words) /\ copied' \subseteq DOMAIN data
         /\ CopiedInOrder'
         /\ \E new : Placed(new)'
<1>1. PICK a \in DOMAIN data \ copied :
        /\ \A b \in DOMAIN data \ copied : b = a \/ Less(a, b)
        /\ payload' = payload \o <<data[a]>> \o Separator(a)
        /\ copied' = copied \cup {a}
  BY DEF CopyFrame
<1>2. /\ stage = "layout" /\ stage' = stage /\ part' = part /\ data' = data
  BY DEF CopyFrame, fillVars
<1>3. /\ payload' \in Seq(Words)
      /\ Len(payload) \in Nat /\ Gap(a) \in Nat
      /\ Len(payload') = Len(payload) + 1 + Gap(a)
      /\ payload'[Len(payload) + 1] = data[a]
      /\ \A i \in 1 .. Len(payload) : payload'[i] = payload[i]
  <2>1. payload \in Seq(Words) /\ data[a] \in Words /\ Separator(a) \in Seq(Words)
    BY GapType DEF Types
  <2>2. QED
    BY <1>1, <2>1, PayloadWithFrame DEF Gap
<1>4. \A b \in DOMAIN data : Gap(b)' = Gap(b)
  BY <1>2 DEF Gap, Separator, ZeroFrames
<1>5. \A b \in copied : Less(b, a) /\ ~ Less(a, b) /\ b # a
  <2>1. TAKE b \in copied
  <2>2. b \in Address /\ a \in Address /\ b # a
    BY <1>1 DEF Types
  <2>3. ~ Less(a, b)
    BY <1>1 DEF CopiedInOrder
  <2>4. QED
    BY <2>2, <2>3, LessTotal
<1>6. CopiedInOrder'
  <2>1. ASSUME NEW b \in copied', NEW d \in DOMAIN data, Less(d, b)
        PROVE  d \in copied'
    <3>1. CASE b = a
      <4>1. ~ Less(a, d) /\ a \in Address /\ d \in Address
        BY <2>1, <3>1, <1>1, LessTransitive, LessIrreflexive
      <4>2. d = a \/ d \in copied
        BY <1>1, <4>1
      <4>3. QED
        BY <1>1, <4>2
    <3>2. CASE b \in copied
      BY <1>1, <2>1, <3>2 DEF CopiedInOrder
    <3>3. QED
      BY <1>1, <2>1, <3>1, <3>2
  <2>2. copied' # {}
    BY <1>1
  <2>3. QED
    BY <1>2, <2>1, <2>2 DEF CopiedInOrder
<1>0. PICK new : new = [b \in copied \cup {a} |->
                         IF b = a THEN Len(payload) + 1 ELSE pos[b]]
  OBVIOUS
<1>7. /\ new[a] = Len(payload) + 1
      /\ \A b \in copied : new[b] = pos[b] /\ pos[b] \in Nat \ {0}
      /\ new \in [copied' -> Nat \ {0}]
  BY <1>0, <1>1, <1>3 DEF Placed
<1>7a. \A b \in copied : pos[b] + Gap(b) <= Len(payload) /\ pos[b] \in 1 .. Len(payload)
  <2>1. TAKE b \in copied
  <2>2. Gap(b) \in Nat /\ pos[b] \in Nat \ {0} /\ pos[b] + Gap(b) <= Len(payload)
    BY GapType, <1>7 DEF Placed
  <2>3. QED
    BY <1>3, <2>2
<1>8. ASSUME NEW b \in copied'
      PROVE  /\ new[b] + Gap(b)' <= Len(payload')
             /\ payload'[new[b]] = data[b]
             /\ IsLast(b)' => Len(payload') = new[b] + Gap(b)'
             /\ b = Zero => new[b] = 1
  <2>1. CASE b = a
    <3>1. a = Zero => copied = {}
      <4>1. \A c \in copied : c \in Address
        BY DEF Types
      <4>2. QED
        BY <1>5, <4>1, ZeroIsFirst
    <3>2. a = Zero => Len(payload) = 0
      BY <1>2, <3>1 DEF CopiedInOrder
    <3>3. QED
      BY <1>1, <1>3, <1>4, <1>7, <2>1, <3>2
  <2>2. CASE b \in copied
    <3>1. ~ IsLast(b)'
      BY <1>1, <1>5, <2>2 DEF IsLast
    <3>2. pos[b] + Gap(b) <= Len(payload) /\ payload[pos[b]] = data[b]
          /\ (b = Zero => pos[b] = 1)
      BY <2>2 DEF Placed
    <3>3. Gap(b)' = Gap(b) /\ Gap(b) \in Nat
      BY <1>4, <2>2, GapType DEF Types
    <3>4. pos[b] + Gap(b) <= Len(payload')
      BY <1>3, <1>7, <2>2, <3>2, <3>3
    <3>5. payload'[pos[b]] = data[b]
      BY <1>3, <1>7a, <2>2, <3>2
    <3>6. QED
      BY <1>7, <2>2, <3>1, <3>2, <3>3, <3>4, <3>5
  <2>3. QED
    BY <1>1, <1>8, <2>1, <2>2
<1>9. ASSUME NEW b \in copied', NEW c \in copied', Adjacent(b, c)'
      PROVE  new[c] = new[b] + 1 + Gap(b)'
  <2>1. /\ Adjacent(b, c) /\ b \in DOMAIN data /\ b \in Address /\ c \in Address
    BY <1>1, <1>2, <1>9 DEF Adjacent, Types
  <2>2. b \in copied
    <3>1. CASE b = a
      BY <1>1, <1>5, <2>1, <3>1, LessIrreflexive DEF Adjacent
    <3>2. QED
      BY <1>1, <1>9, <3>1
  <2>3. CASE c \in copied
    BY <1>4, <1>7, <2>1, <2>2, <2>3 DEF Placed
  <2>4. CASE c = a
    <3>1. IsLast(b)
      <4>1. SUFFICES ASSUME NEW d \in copied, Less(b, d) PROVE FALSE
        BY DEF IsLast
      <4>2. Less(d, a) /\ d \in DOMAIN data
        BY <1>5 DEF Types
      <4>3. QED
        BY <2>1, <2>4, <4>1, <4>2 DEF Adjacent
    <3>2. Len(payload) = pos[b] + Gap(b)
      BY <1>2, <2>2, <3>1 DEF Placed
    <3>3. new[c] = Len(payload) + 1 /\ new[b] = pos[b] /\ Gap(b)' = Gap(b)
      BY <1>4, <1>7, <2>1, <2>2, <2>4
    <3>4. Gap(b) \in Nat /\ pos[b] \in Nat
      BY GapType, <1>7, <2>2
    <3>5. QED
      BY <3>2, <3>3, <3>4
  <2>5. QED
    BY <1>1, <1>9, <2>3, <2>4
<1>10. Placed(new)'
  <2>1. \A b \in copied' :
          /\ new[b] + Gap(b)' <= Len(payload')
          /\ payload'[new[b]] = data'[b]
          /\ stage' = "layout" /\ IsLast(b)' => Len(payload') = new[b] + Gap(b)'
          /\ b = Zero => new[b] = 1
    BY <1>2, <1>8
  <2>2. \A b, c \in copied' : Adjacent(b, c)' => new[c] = new[b] + 1 + Gap(b)'
    BY <1>9
  <2>3. QED
    BY <1>7, <2>1, <2>2 DEF Placed
<1>11. QED
  BY <1>1, <1>3, <1>6, <1>10 DEF Types

-----------------------------------------------------------------------------
(* The walk of the device over the frames of the data.                     *)

BeforeAll(a) == \A s \in Strays : Less(a, s)

(* The data of a regular part that fits, filled in.                        *)
Complete ==
  /\ IsPart(part) /\ Fits(part) /\ IsRegular(part)
  /\ DOMAIN data \subseteq Address /\ Zero \in DOMAIN data
  /\ Strays \subseteq Address
  /\ \A a \in DOMAIN data : a \in Strays \/ a = Zero \/ IsValidFrameAddress(part, a)
  /\ \A a \in Address : IsValidFrameAddress(part, a) => a \in DOMAIN data

IsFrame(a) == a \in Address /\ (a = Zero \/ IsValidFrameAddress(part, a))

LEMMA BeforeAllIsFrame ==
  ASSUME Complete, NEW a \in Address, BeforeAll(a)
  PROVE  a \in DOMAIN data <=> a = Zero \/ IsValidFrameAddress(part, a)
  BY LessIrreflexive DEF Complete, BeforeAll

LEMMA BeforeAllDown ==
  ASSUME Complete, NEW a \in Address, NEW b \in Address, BeforeAll(b), Less(a, b)
  PROVE  BeforeAll(a)
  BY LessTransitive DEF Complete, BeforeAll

LEMMA BeyondAll ==
  ASSUME Complete, NEW a \in Address, NEW c \in Address,
         BeforeAll(a), ~ BeforeAll(c)
  PROVE  Less(a, c)
<1>1. PICK s \in Strays : ~ Less(c, s)
  BY DEF BeforeAll
<1>2. s \in Address /\ Less(a, s)
  BY DEF Complete, BeforeAll
<1>3. s = c \/ Less(s, c)
  BY <1>1, <1>2, LessTotal
<1>4. QED
  BY <1>2, <1>3, LessTransitive

(* No frame of the data lies between a frame and the next one of the part. *)
LEMMA NoneBetween ==
  ASSUME Complete, NEW c, IsFrame(c), NEW n \in GetNextFrameAddress(part, c),
         NEW d \in DOMAIN data, BeforeAll(d), Less(c, d)
  PROVE  ~ Less(d, n)
<1>1. c \in Address /\ d \in Address /\ n \in Address
  BY NextType DEF Complete, IsFrame
<1>2. d # Zero
  BY <1>1, ZeroIsFirst
<1>3. IsValidFrameAddress(part, d)
  BY <1>1, <1>2, BeforeAllIsFrame
<1>4. PICK b \in GetNextFrameAddress(part, c) : ~ Less(d, b)
  BY <1>1, <1>3, NextSkipsNone DEF Complete, IsFrame
<1>5. b = n
  BY <1>1, NextUnique DEF Complete
<1>6. QED
  BY <1>4, <1>5

LEMMA NoneAfter ==
  ASSUME Complete, NEW c, IsFrame(c), GetNextFrameAddress(part, c) = {},
         NEW d \in DOMAIN data, BeforeAll(d)
  PROVE  ~ Less(c, d)
<1>1. SUFFICES ASSUME Less(c, d) PROVE FALSE
  OBVIOUS
<1>2. c \in Address /\ d \in Address
  BY DEF Complete, IsFrame
<1>3. d # Zero
  BY <1>1, <1>2, ZeroIsFirst
<1>4. IsValidFrameAddress(part, d)
  BY <1>2, <1>3, BeforeAllIsFrame
<1>5. QED
  BY <1>1, <1>2, <1>4, NextSkipsNone DEF Complete, IsFrame

-----------------------------------------------------------------------------
(* While the frames are written: where the device is in the payload, and   *)
(* which frames it has.                                                    *)

Writing == stage = "device" /\ Handled = FirstFDRI /\ offset # Device!Idle

Located(pos) ==
  Writing /\ Complete /\ BeforeAll(current_frame_address) =>
    /\ current_frame_address \in DOMAIN data
    /\ offset + 1 = pos[current_frame_address]

HasBelow(c) ==
  \A a \in Address : BeforeAll(a) =>
    (a \in DOMAIN loaded <=> a \in DOMAIN data /\ Less(a, c))

HasAll ==
  \A a \in Address : BeforeAll(a) => (a \in DOMAIN loaded <=> a \in DOMAIN data)

Contents ==
  \A a \in DOMAIN loaded : BeforeAll(a) =>
    a \in DOMAIN data /\ loaded[a] = data[a]

Loads ==
  Complete /\ stage = "device" =>
    /\ Contents
    /\ Writing => IsFrame(current_frame_address) /\ HasBelow(current_frame_address)
    /\ Handled > FirstFDRI => HasAll

(* What the device is made to load at a frame before the first stray one.  *)
LEMMA WritesData ==
  ASSUME Loads, Writing, Complete, NEW pos, Placed(pos), copied = DOMAIN data,
         Located(pos), BeforeAll(current_frame_address)
  PROVE  /\ current_frame_address \in DOMAIN data
         /\ payload[offset + 1] = data[current_frame_address]
         /\ offset + 1 = pos[current_frame_address]
  BY DEF Located, Placed

LEMMA SameStrays ==
  ASSUME part' = part, assembled' = assembled, data' = data
  PROVE  /\ Strays' = Strays
         /\ Complete' <=> Complete
         /\ \A a : BeforeAll(a)' <=> BeforeAll(a)
<1>1. Strays' = Strays
  BY DEF Strays
<1>2. QED
  BY <1>1 DEF Complete, BeforeAll

(* What is written at the cursor, if that is before the stray frames, is   *)
(* the content of the data there.                                          *)
LEMMA StoreContents ==
  ASSUME Types, Loads, Complete, Writing, NEW pos, Placed(pos),
         copied = DOMAIN data, Located(pos), data' = data,
         \A a : BeforeAll(a)' <=> BeforeAll(a),
         loaded' = [a \in DOMAIN loaded \cup {current_frame_address} |->
                      IF a = current_frame_address THEN payload[offset + 1]
                                                   ELSE loaded[a]]
  PROVE  /\ Contents'
         /\ DOMAIN loaded' = DOMAIN loaded \cup {current_frame_address}
         /\ IsFrame(current_frame_address)
         /\ HasBelow(current_frame_address)
         /\ BeforeAll(current_frame_address) => current_frame_address \in DOMAIN data
<1> DEFINE c == current_frame_address
<1>1. Contents /\ IsFrame(c) /\ HasBelow(c)
  BY DEF Loads, Writing
<1>2. BeforeAll(c) => c \in DOMAIN data /\ payload[offset + 1] = data[c]
  BY WritesData
<1>3. ASSUME NEW a \in DOMAIN loaded', BeforeAll(a)
      PROVE  a \in DOMAIN data /\ loaded'[a] = data[a]
  <2>1. CASE a = c
    BY <1>2, <1>3, <2>1
  <2>2. CASE a # c
    <3>1. a \in DOMAIN loaded /\ loaded'[a] = loaded[a]
      BY <1>3, <2>2
    <3>2. QED
      BY <1>1, <1>3, <3>1 DEF Contents
  <2>3. QED
    BY <2>1, <2>2
<1>4. Contents'
  BY <1>3 DEF Contents
<1>5. QED
  BY <1>1, <1>2, <1>4

LEMMA WriteFrameLoads ==
  ASSUME Types, Queued, Sequenced, Loads, Complete, stage = "device",
         copied = DOMAIN data, NEW pos, Placed(pos), Located(pos),
         Device!WriteFrame, Fixed
  PROVE  Loads' /\ Located(pos)'
<1> DEFINE c == current_frame_address
<1>1. /\ Handled = FirstFDRI /\ offset \in Nat
      /\ loaded' = [a \in DOMAIN loaded \cup {c} |->
                      IF a = c THEN payload[offset + 1] ELSE loaded[a]]
  BY StoreStep DEF Complete
<1>2. Writing
  BY <1>1 DEF Writing, Device!Idle
<1>3. /\ part' = part /\ assembled' = assembled /\ data' = data
      /\ stage' = stage /\ copied' = copied
  BY DEF Fixed
<1>4. Complete' /\ \A a : BeforeAll(a)' <=> BeforeAll(a)
  BY <1>3, SameStrays
<1>5. /\ Contents' /\ DOMAIN loaded' = DOMAIN loaded \cup {c}
      /\ IsFrame(c) /\ HasBelow(c)
      /\ BeforeAll(c) => c \in DOMAIN data
  BY <1>1, <1>2, <1>3, <1>4, StoreContents
<1>6. PICK n \in GetNextFrameAddress(part, c) :
        /\ offset' = IF Device!RowChanges(c, n) THEN offset + 3 ELSE offset + 1
        /\ current_frame_address' = n
  BY SameWalk DEF Device!WriteFrame
<1>7. Handled' = Handled
  BY DEF Device!WriteFrame, Handled
<1>8. c \in Address /\ n \in Address /\ Less(c, n) /\ IsValidFrameAddress(part, n)
  BY <1>5, <1>6, NextType, NextIsLaterFrame DEF Complete, IsFrame
<1>9. ASSUME NEW a \in Address, BeforeAll(a)
      PROVE  a \in DOMAIN loaded' <=> a \in DOMAIN data /\ Less(a, n)
  <2>1. a \in DOMAIN loaded <=> a \in DOMAIN data /\ Less(a, c)
    BY <1>5, <1>9 DEF HasBelow
  <2>2. Less(a, c) => Less(a, n)
    BY <1>8, LessTransitive
  <2>3. a = c => a \in DOMAIN data /\ Less(a, n)
    BY <1>5, <1>8, <1>9
  <2>4. a \in DOMAIN data /\ Less(a, n) => a = c \/ Less(a, c)
    BY <1>5, <1>6, <1>8, <1>9, NoneBetween, LessTotal
  <2>5. QED
    BY <1>5, <2>1, <2>2, <2>3, <2>4
<1>10. Loads'
  <2>1. HasBelow(current_frame_address)'
    BY <1>3, <1>4, <1>6, <1>9 DEF HasBelow
  <2>2. IsFrame(current_frame_address)'
    BY <1>3, <1>6, <1>8 DEF IsFrame
  <2>3. ~ Handled' > FirstFDRI
    BY <1>1, <1>7 DEF FirstFDRI
  <2>4. QED
    BY <1>5, <2>1, <2>2, <2>3 DEF Loads
<1>11. Located(pos)'
  <2>1. SUFFICES ASSUME BeforeAll(n)
                 PROVE  n \in DOMAIN data /\ offset' + 1 = pos[n]
    BY <1>3, <1>4, <1>6 DEF Located
  <2>2. n \in DOMAIN data
    BY <1>8 DEF Complete
  <2>3. BeforeAll(c)
    BY <1>8, <2>1, BeforeAllDown
  <2>4. c \in DOMAIN data /\ offset + 1 = pos[c]
    BY <1>2, <2>3, WritesData
  <2>5. Adjacent(c, n)
    <3>1. ASSUME NEW d \in DOMAIN data, Less(c, d), Less(d, n)
          PROVE  FALSE
      <4>1. d \in Address
        BY DEF Complete
      <4>2. BeforeAll(d)
        BY <1>8, <2>1, <3>1, <4>1, BeforeAllDown
      <4>3. QED
        BY <1>5, <1>6, <3>1, <4>2, NoneBetween
    <3>2. QED
      BY <1>8, <3>1 DEF Adjacent
  <2>6. pos[n] = pos[c] + 1 + Gap(c)
    BY <2>2, <2>4, <2>5 DEF Placed
  <2>7. Gap(c) = IF Device!RowChanges(c, n) THEN 2 ELSE 0
    <3>1. \A m \in GetNextFrameAddress(part, c) : m = n
      BY <1>6, <1>8, NextUnique DEF Complete
    <3>2. QED
      BY <1>6, <3>1, GapType
  <2>8. QED
    BY <1>1, <1>6, <2>2, <2>4, <2>6, <2>7
<1>12. QED
  BY <1>10, <1>11

LEMMA WriteLastFrameLoads ==
  ASSUME Types, Queued, Sequenced, Loads, Complete, stage = "device",
         copied = DOMAIN data, NEW pos, Placed(pos), Located(pos),
         Device!WriteLastFrame, Fixed
  PROVE  Loads' /\ Located(pos)'
<1> DEFINE c == current_frame_address
<1>1. /\ Handled = FirstFDRI /\ offset \in Nat
      /\ loaded' = [a \in DOMAIN loaded \cup {c} |->
                      IF a = c THEN payload[offset + 1] ELSE loaded[a]]
  BY StoreStep DEF Complete
<1>2. Writing
  BY <1>1 DEF Writing, Device!Idle
<1>3. /\ part' = part /\ assembled' = assembled /\ data' = data
      /\ stage' = stage /\ copied' = copied
  BY DEF Fixed
<1>4. \A a : BeforeAll(a)' <=> BeforeAll(a)
  BY <1>3, SameStrays
<1>5. /\ Contents' /\ DOMAIN loaded' = DOMAIN loaded \cup {c}
      /\ IsFrame(c) /\ HasBelow(c)
      /\ BeforeAll(c) => c \in DOMAIN data
  BY <1>1, <1>2, <1>3, <1>4, StoreContents
<1>6. GetNextFrameAddress(part, c) = {} /\ offset' = Device!Idle
  BY SameWalk DEF Device!WriteLastFrame
<1>7. ASSUME NEW a \in Address, BeforeAll(a)
      PROVE  a \in DOMAIN loaded' <=> a \in DOMAIN data
  <2>1. a \in DOMAIN loaded <=> a \in DOMAIN data /\ Less(a, c)
    BY <1>5, <1>7 DEF HasBelow
  <2>2. a \in DOMAIN data => a = c \/ Less(a, c)
    BY <1>5, <1>6, <1>7, NoneAfter, LessTotal DEF IsFrame
  <2>3. QED
    BY <1>5, <1>7, <2>1, <2>2
<1>8. HasAll'
  BY <1>3, <1>4, <1>7 DEF HasAll
<1>9. ~ Writing'
  BY <1>6 DEF Writing
<1>10. QED
  BY <1>5, <1>8, <1>9 DEF Loads, Located

LEMMA EndFDRILoads ==
  ASSUME Types, Queued, Sequenced, Loads, Complete, stage = "device",
         copied = DOMAIN data, NEW pos, Placed(pos), Located(pos),
         Device!EndFDRI, Fixed
  PROVE  Loads' /\ Located(pos)'
<1> DEFINE c == current_frame_address
<1>1. /\ Handled \in {FirstFDRI - 1, FirstFDRI} /\ Handled' = Handled + 1
      /\ loaded' = loaded /\ offset \in Nat
      /\ Handled = FirstFDRI => offset >= Len(payload)
  BY EndFDRIStep
<1>2. /\ part' = part /\ assembled' = assembled /\ data' = data
      /\ stage' = stage /\ copied' = copied
  BY DEF Fixed
<1>3. \A a : BeforeAll(a)' <=> BeforeAll(a)
  BY <1>2, SameStrays
<1>4. ~ Writing'
  BY DEF Writing, Device!EndFDRI
<1>5. Contents'
  BY <1>1, <1>2, <1>3 DEF Loads, Contents
<1>6. CASE Handled = FirstFDRI - 1
  <2>1. ~ Handled' > FirstFDRI
    BY <1>1, <1>6 DEF FirstFDRI
  <2>2. QED
    BY <1>4, <1>5, <2>1 DEF Loads, Located
<1>7. CASE Handled = FirstFDRI
  <2>1. Writing
    BY <1>1, <1>7 DEF Writing, Device!Idle
  <2>2. ~ BeforeAll(c)
    <3>1. SUFFICES ASSUME BeforeAll(c) PROVE FALSE
      OBVIOUS
    <3>2. c \in DOMAIN data /\ offset + 1 = pos[c]
      BY <2>1, <3>1, WritesData
    <3>3. pos[c] + Gap(c) <= Len(payload)
      BY <3>2 DEF Placed
    <3>4. Gap(c) \in Nat /\ Len(payload) \in Nat
      BY GapType DEF Types
    <3>5. QED
      BY <1>1, <1>7, <3>2, <3>3, <3>4
  <2>3. IsFrame(c) /\ HasBelow(c)
    BY <2>1 DEF Loads
  <2>4. HasAll
    BY <2>2, <2>3, BeyondAll DEF HasBelow, HasAll, IsFrame
  <2>5. HasAll'
    BY <1>1, <1>2, <1>3, <2>4 DEF HasAll
  <2>6. QED
    BY <1>4, <1>5, <2>5 DEF Loads, Located
<1>8. QED
  BY <1>1, <1>6, <1>7

LEMMA BeginFDRILoads ==
  ASSUME Types, Queued, Sequenced, Loads, Complete, stage = "device",
         copied = DOMAIN data, NEW pos, Placed(pos), Located(pos),
         Device!BeginFDRI, Fixed
  PROVE  Loads' /\ Located(pos)'
<1>1. /\ Handled \in {FirstFDRI - 1, FirstFDRI} /\ Handled' = Handled
      /\ current_frame_address' = Zero /\ loaded' = <<>> /\ offset' = 0
  BY BeginFDRIStep
<1>2. /\ part' = part /\ assembled' = assembled /\ data' = data
      /\ stage' = stage /\ copied' = copied
  BY DEF Fixed
<1>3. \A a : BeforeAll(a)' <=> BeforeAll(a)
  BY <1>2, SameStrays
<1>4. DOMAIN loaded' = {}
  BY <1>1
<1>5. Contents'
  BY <1>4 DEF Contents
<1>6. IsFrame(Zero) /\ Zero \in DOMAIN data /\ ~ Handled' > FirstFDRI
  BY <1>1, ZeroIsFirst DEF IsFrame, Complete, FirstFDRI
<1>7. IsFrame(current_frame_address)'
  BY <1>1, <1>2, <1>6 DEF IsFrame
<1>8. HasBelow(current_frame_address)'
  BY <1>1, <1>4, ZeroIsFirst DEF HasBelow
<1>9. pos[Zero] = 1
  BY <1>6 DEF Placed
<1>10. QED
  BY <1>1, <1>2, <1>5, <1>6, <1>7, <1>8, <1>9 DEF Loads, Located

(* The other packets do not touch the frames.                              *)
LEMMA RegistersLoads ==
  ASSUME Types, Queued, Sequenced, Loads, Complete, stage = "device",
         NEW pos, Registers \/ Device!Return, Fixed
  PROVE  Loads' /\ Located(pos)'
<1>1. /\ Handled' \in Int /\ Handled \in Int
      /\ loaded' = loaded /\ ~ Writing'
      /\ Handled' > FirstFDRI => Handled > FirstFDRI
  <2>1. CASE Registers
    <3>1. /\ Handled' = Handled + 1 /\ Handled \in 0 .. PackageLength - 1
          /\ Handled \notin {FirstFDRI - 1, FirstFDRI}
          /\ loaded' = loaded /\ offset' = Device!Idle
      BY <2>1, RegistersStep
    <3>2. QED
      BY <3>1 DEF FirstFDRI, PackageLength, Writing
  <2>2. CASE Device!Return
    <3>1. Handled = PackageLength /\ Handled' = Handled /\ loaded' = loaded
      BY <2>2, ReturnStep
    <3>2. QED
      BY <3>1 DEF PackageLength, FirstFDRI, Writing
  <2>3. QED
    BY <2>1, <2>2
<1>2. /\ part' = part /\ assembled' = assembled /\ data' = data
      /\ stage' = stage
  BY DEF Fixed
<1>3. \A a : BeforeAll(a)' <=> BeforeAll(a)
  BY <1>2, SameStrays
<1>4. Contents'
  BY <1>1, <1>2, <1>3 DEF Loads, Contents
<1>5. Handled' > FirstFDRI => HasAll'
  BY <1>1, <1>2, <1>3 DEF Loads, HasAll
<1>6. QED
  BY <1>1, <1>4, <1>5 DEF Loads, Located

-----------------------------------------------------------------------------
(* What each stage leaves behind, and what the later ones have not touched.*)
Staged ==
  /\ stage \in {"filling", "layout", "device"}
  /\ stage = "filling" => copied = {} /\ payload = <<>>
  /\ stage # "filling" => current = {}
  /\ stage = "device" => copied = DOMAIN data
  /\ stage # "device" => packets = <<>> /\ Device!DeviceInit
  /\ current = {Zero} \/ Zero \in DOMAIN data

Layout == \E pos : Placed(pos) /\ Located(pos)

IInv ==
  /\ FillProofs!IInv
  /\ Staged
  /\ Types
  /\ CopiedInOrder
  /\ Queued
  /\ Sequenced
  /\ Layout
  /\ Loads

LEMMA CompleteWhenFilled ==
  ASSUME FillProofs!IInv, Staged, stage # "filling"
  PROVE  Fits(part) /\ IsRegular(part) => Complete
<1>1. current = {} /\ Zero \in DOMAIN data
  BY DEF Staged
<1>2. Strays \subseteq Address
  BY FillFacts DEF Strays
<1>3. QED
  BY <1>1, <1>2, FillFacts DEF Complete

LEMMA InitialDevice ==
  ASSUME Device!DeviceInit, IsPart(part)
  PROVE  Device!DeviceTypeOK /\ loaded = <<>> /\ offset = Device!Idle
<1>1. Device!IsFrameMap(loaded)
  BY DEF Device!DeviceInit, Device!IsFrameMap
<1>2. Device!IsPart(part) /\ Zero \in Device!Address /\ Device!Zero = Zero
  BY SameParts, SameAddresses, ZeroIsFirst
<1>3. QED
  BY <1>1, <1>2 DEF Device!DeviceInit, Device!DeviceTypeOK

LEMMA InitInvariant == Init => IInv
<1> SUFFICES ASSUME Init PROVE IInv
  OBVIOUS
<1>1. FillProofs!IInv
  BY FillInit
<1>2. IsPart(part)
  BY <1>1, FillFacts
<1>3. Staged
  BY DEF Init, Staged
<1>4. Types
  BY <1>2, InitialDevice DEF Init, Types
<1>5. CopiedInOrder /\ Queued /\ Sequenced /\ Loads
  BY DEF Init, CopiedInOrder, Queued, Sequenced, Loads
<1>6. PICK pos : pos = [k \in {} |-> 1]
  OBVIOUS
<1>7. Placed(pos) /\ Located(pos)
  BY <1>6 DEF Init, Placed, Located, Writing
<1>8. QED
  BY <1>1, <1>3, <1>4, <1>5, <1>7 DEF IInv, Layout

-----------------------------------------------------------------------------
(* The steps before the device.                                            *)

LEMMA FillFramesStep ==
  ASSUME IInv, FillFrames
  PROVE  IInv'
<1>1. /\ stage = "filling" /\ stage' = stage
      /\ copied' = copied /\ payload' = payload /\ packets' = packets
      /\ copied = {} /\ payload = <<>>
      /\ UNCHANGED deviceVars
      /\ Fill!Next
  BY DEF FillFrames, layoutVars, IInv, Staged
<1>2. FillProofs!IInv'
  BY <1>1, FillNext, FillStep DEF IInv
<1>3. PICK a \in current : current' = GetNextFrameAddress(part, a)
        /\ DOMAIN data' = DOMAIN data \cup {a} /\ part' = part
  BY <1>1, SameWalk DEF Fill!Next, Fill!KeepFrame, Fill!AddMissingFrame,
     Fill!Advance, Fill!InsertBlank
<1>4. Staged'
  <2>1. Zero \in DOMAIN data'
    BY <1>3 DEF IInv, Staged
  <2>2. Device!DeviceInit'
    BY <1>1 DEF IInv, Staged, Device!DeviceInit, deviceVars
  <2>3. QED
    BY <1>1, <2>1, <2>2 DEF IInv, Staged
<1>5. Types'
  <2>1. Device!DeviceTypeOK'
    <3>1. Device!IsFrameMap(loaded)'
      BY <1>1 DEF IInv, Types, Device!DeviceTypeOK, Device!IsFrameMap, deviceVars
    <3>2. QED
      BY <1>1, <1>3, <3>1 DEF IInv, Types, Device!DeviceTypeOK, deviceVars
  <2>2. QED
    BY <1>1, <2>1 DEF IInv, Types, deviceVars
<1>6. /\ CopiedInOrder' /\ Queued' /\ Sequenced' /\ Loads' /\ Layout'
  <2>1. PICK pos : pos = [k \in {} |-> 1]
    OBVIOUS
  <2>2. pos \in [{} -> Nat \ {0}]
    BY <2>1
  <2>3. copied' = {} /\ payload' = <<>> /\ stage' # "device"
    BY <1>1
  <2>4. /\ CopiedInOrder' /\ Queued' /\ Sequenced' /\ Loads'
        /\ Placed(pos)' /\ Located(pos)'
    BY <2>2, <2>3
       DEF CopiedInOrder, Queued, Sequenced, Loads, Placed, Located, Writing
  <2>5. QED
    BY <2>4 DEF Layout
<1>7. QED
  BY <1>2, <1>4, <1>5, <1>6 DEF IInv

(* A step that leaves the filling alone.                                   *)
LEMMA FillKept ==
  ASSUME FillProofs!IInv, UNCHANGED <<part, assembled, data, current>>
  PROVE  FillProofs!IInv'
  BY FillStep DEF FillProofs!vars

LEMMA DeviceKept ==
  ASSUME Types, Device!DeviceInit, part' = part, UNCHANGED deviceVars
  PROVE  Device!DeviceTypeOK' /\ Device!DeviceInit' /\ idcode' = idcode
<1>1. Device!IsFrameMap(loaded)'
  BY DEF Types, Device!DeviceTypeOK, Device!IsFrameMap, deviceVars
<1>2. QED
  BY <1>1 DEF Types, Device!DeviceTypeOK, Device!DeviceInit, deviceVars

LEMMA BeginLayoutStep ==
  ASSUME IInv, BeginLayout
  PROVE  IInv'
<1>1. /\ stage = "filling" /\ stage' = "layout" /\ current = {}
      /\ UNCHANGED <<part, assembled, data, current, copied, payload, packets>>
      /\ UNCHANGED deviceVars
      /\ copied = {} /\ payload = <<>>
  BY DEF BeginLayout, Fill!Done, fillVars, layoutVars, IInv, Staged
<1>2. FillProofs!IInv'
  BY <1>1, FillKept DEF IInv
<1>3. Device!DeviceTypeOK' /\ Device!DeviceInit' /\ idcode' = idcode
  BY <1>1, DeviceKept DEF IInv, Staged
<1>4. Staged' /\ Types'
  BY <1>1, <1>3 DEF IInv, Staged, Types
<1>5. /\ CopiedInOrder' /\ Queued' /\ Sequenced' /\ Loads' /\ Layout'
  <2>1. PICK pos : pos = [k \in {} |-> 1]
    OBVIOUS
  <2>2. copied' = {} /\ payload' = <<>> /\ stage' # "device"
    BY <1>1
  <2>3. /\ CopiedInOrder' /\ Queued' /\ Sequenced' /\ Loads'
        /\ Placed(pos)' /\ Located(pos)'
    BY <2>1, <2>2
       DEF CopiedInOrder, Queued, Sequenced, Loads, Placed, Located, Writing
  <2>4. QED
    BY <2>3 DEF Layout
<1>6. QED
  BY <1>2, <1>4, <1>5 DEF IInv

LEMMA CopyFrameInvariant ==
  ASSUME IInv, CopyFrame
  PROVE  IInv'
<1>1. /\ stage = "layout" /\ stage' = stage
      /\ UNCHANGED <<part, assembled, data, current, packets>>
      /\ UNCHANGED deviceVars
  BY DEF CopyFrame, fillVars
<1>2. FillProofs!IInv'
  BY <1>1, FillKept DEF IInv
<1>3. PICK pos : Placed(pos)
  BY DEF IInv, Layout
<1>4. /\ payload' \in Seq(Words) /\ copied' \subseteq DOMAIN data
      /\ CopiedInOrder' /\ \E new : Placed(new)'
  BY <1>3, CopyFrameStep, FillFacts DEF IInv
<1>5. Device!DeviceTypeOK' /\ Device!DeviceInit' /\ idcode' = idcode
  BY <1>1, DeviceKept DEF IInv, Staged
<1>6. Staged' /\ Types'
  BY <1>1, <1>4, <1>5 DEF IInv, Staged, Types
<1>7. Queued' /\ Sequenced' /\ Loads' /\ \A new : Located(new)'
  BY <1>1 DEF Queued, Sequenced, Loads, Located, Writing
<1>8. QED
  BY <1>2, <1>4, <1>6, <1>7 DEF IInv, Layout

LEMMA CreatePackageStep ==
  ASSUME IInv, CreatePackage
  PROVE  IInv'
<1>1. /\ stage = "layout" /\ stage' = "device" /\ copied = DOMAIN data
      /\ payload' = payload \o ZeroFrames /\ packets' = Package(payload')
      /\ UNCHANGED <<part, assembled, data, current, copied>>
      /\ UNCHANGED deviceVars
  BY DEF CreatePackage, fillVars
<1>2. FillProofs!IInv'
  BY <1>1, FillKept DEF IInv
<1>3. /\ payload' \in Seq(Words) /\ Len(payload) \in Nat
      /\ Len(payload') = Len(payload) + 2
      /\ \A i \in 1 .. Len(payload) : payload'[i] = payload[i]
  <2>1. /\ payload \in Seq(Words) /\ ZeroFrames \in Seq(Words)
        /\ Len(ZeroFrames) = 2
    BY ProgrammingAssumption DEF IInv, Types, ZeroFrames
  <2>2. /\ payload \o ZeroFrames \in Seq(Words) /\ Len(payload) \in Nat
        /\ Len(payload \o ZeroFrames) = Len(payload) + Len(ZeroFrames)
        /\ \A i \in 1 .. Len(payload) : (payload \o ZeroFrames)[i] = payload[i]
    BY <2>1, JoinAt
  <2>3. QED
    BY <1>1, <2>1, <2>2
<1>4. Device!DeviceTypeOK' /\ Device!DeviceInit' /\ idcode' = idcode
  BY <1>1, DeviceKept DEF IInv, Staged
<1>5. /\ loaded' = <<>> /\ offset' = Device!Idle /\ verdict' = "reading"
      /\ current_frame_address' = Zero /\ frame_address_register' = Zero
      /\ start_new_write' = FALSE
  BY <1>4, SameAddresses DEF Device!DeviceInit
<1>6. Staged' /\ Types' /\ CopiedInOrder'
  <2>1. Staged'
    BY <1>1 DEF IInv, Staged
  <2>2. Types'
    BY <1>1, <1>3, <1>4 DEF IInv, Types
  <2>3. CopiedInOrder'
    BY <1>1 DEF IInv, CopiedInOrder
  <2>4. QED
    BY <2>1, <2>2, <2>3
<1>7. Queued' /\ Handled' = 0
  <2>1. /\ \E T : packets' \in Seq(T)
        /\ Len(packets') = PackageLength
    BY <1>1, PackagePlaced
  <2>2. Handled' = 0
    BY <2>1 DEF Handled, PackageLength
  <2>3. Len(packets') \in 0 .. PackageLength
    BY <2>1 DEF PackageLength
  <2>4. \A i \in 1 .. Len(packets') : packets'[i] = Package(payload')[Handled' + i]
    BY <1>1, <2>2
  <2>5. QED
    BY <2>1, <2>2, <2>3, <2>4, Zenon DEF Queued
<1>8. Sequenced'
  BY <1>5, <1>7 DEF Sequenced, FirstFDRI, FramesFDRI, IdcodeAt
<1>9. Loads' /\ \A pos : Located(pos)'
  <2>1. ~ Writing' /\ ~ Handled' > FirstFDRI
    BY <1>5, <1>7 DEF Writing, FirstFDRI
  <2>2. DOMAIN loaded' = {}
    BY <1>5
  <2>3. Contents'
    BY <2>2 DEF Contents
  <2>4. QED
    BY <2>1, <2>3 DEF Loads, Located
<1>10. Layout'
  <2>1. PICK pos : Placed(pos)
    BY DEF IInv, Layout
  <2>2. \A a \in copied : Gap(a)' = Gap(a) /\ Gap(a) \in Nat
    BY <1>1, GapType DEF Gap, Separator, ZeroFrames
  <2>3. ASSUME NEW a \in copied
        PROVE  pos[a] + Gap(a) <= Len(payload') /\ payload'[pos[a]] = data[a]
    <3>1. /\ pos[a] + Gap(a) <= Len(payload) /\ payload[pos[a]] = data[a]
          /\ pos[a] \in Nat \ {0} /\ Gap(a) \in Nat
      BY <2>1, <2>2 DEF Placed
    <3>2. pos[a] \in 1 .. Len(payload)
      BY <1>3, <3>1
    <3>3. QED
      BY <1>3, <3>1, <3>2
  <2>4. Placed(pos)'
    <3>1. \A a, b \in copied : Adjacent(a, b)' <=> Adjacent(a, b)
      BY <1>1 DEF Adjacent
    <3>2. QED
      BY <1>1, <2>1, <2>2, <2>3, <3>1 DEF Placed
  <2>5. QED
    BY <1>9, <2>4 DEF Layout
<1>11. QED
  BY <1>2, <1>6, <1>7, <1>8, <1>9, <1>10 DEF IInv

-----------------------------------------------------------------------------
(* The steps of the device.                                                *)

LEMMA DeviceStep ==
  ASSUME Types, Queued, Sequenced, IsPart(part), stage = "device",
         Device!DeviceNext, Fixed
  PROVE  Queued' /\ Device!DeviceTypeOK' /\ Sequenced'
<1>1. CASE Registers
  BY <1>1, RegistersStep, RegistersTypes, RegistersSequenced
<1>2. CASE Device!BeginFDRI
  BY <1>2, BeginFDRIStep
<1>3. CASE Device!WriteFrame \/ Device!WriteLastFrame
  BY <1>3, StoreStep
<1>4. CASE Device!EndFDRI
  BY <1>4, EndFDRIStep
<1>5. CASE Device!Return
  BY <1>5, ReturnStep
<1>6. QED
  BY <1>1, <1>2, <1>3, <1>4, <1>5 DEF Device!DeviceNext, Registers

LEMMA DeviceLoads ==
  ASSUME Types, Queued, Sequenced, Loads, Complete, stage = "device",
         copied = DOMAIN data, NEW pos, Placed(pos), Located(pos),
         Device!DeviceNext, Fixed
  PROVE  Loads' /\ Located(pos)'
<1>1. CASE Registers \/ Device!Return
  BY <1>1, RegistersLoads
<1>2. CASE Device!BeginFDRI
  BY <1>2, BeginFDRILoads
<1>3. CASE Device!WriteFrame
  BY <1>3, WriteFrameLoads
<1>4. CASE Device!WriteLastFrame
  BY <1>4, WriteLastFrameLoads
<1>5. CASE Device!EndFDRI
  BY <1>5, EndFDRILoads
<1>6. QED
  BY <1>1, <1>2, <1>3, <1>4, <1>5 DEF Device!DeviceNext, Registers

LEMMA ConfigureStep ==
  ASSUME IInv, Configure
  PROVE  IInv'
<1>1. /\ stage = "device" /\ Device!DeviceNext /\ Fixed
      /\ UNCHANGED <<part, assembled, data, current, stage, copied, payload, idcode>>
  BY ConfigureFrame DEF Fixed
<1>2. FillProofs!IInv'
  BY <1>1, FillKept DEF IInv
<1>3. IsPart(part)
  BY FillFacts DEF IInv
<1>4. Queued' /\ Device!DeviceTypeOK' /\ Sequenced'
  BY <1>1, <1>3, DeviceStep DEF IInv
<1>5. Staged' /\ Types' /\ CopiedInOrder'
  <2>1. Staged'
    BY <1>1 DEF IInv, Staged
  <2>2. Types'
    BY <1>1, <1>4 DEF IInv, Types
  <2>3. CopiedInOrder'
    BY <1>1 DEF IInv, CopiedInOrder
  <2>4. QED
    BY <2>1, <2>2, <2>3
<1>6. PICK pos : Placed(pos) /\ Located(pos)
  BY DEF IInv, Layout
<1>7. Placed(pos)'
  <2>1. \A a : Gap(a)' = Gap(a) /\ (IsLast(a)' <=> IsLast(a))
    BY <1>1 DEF Gap, Separator, ZeroFrames, IsLast
  <2>2. \A a, b : Adjacent(a, b)' <=> Adjacent(a, b)
    BY <1>1 DEF Adjacent
  <2>3. QED
    BY <1>1, <1>6, <2>1, <2>2 DEF Placed
<1>8. Loads' /\ Located(pos)'
  <2>1. CASE Complete
    BY <1>1, <1>6, <2>1, DeviceLoads DEF IInv, Staged
  <2>2. CASE ~ Complete
    <3>1. ~ Complete'
      BY <1>1, <2>2, SameStrays
    <3>2. QED
      BY <3>1 DEF Loads, Located
  <2>3. QED
    BY <2>1, <2>2
<1>9. QED
  BY <1>2, <1>4, <1>5, <1>7, <1>8 DEF IInv, Layout

-----------------------------------------------------------------------------
LEMMA StepInvariant == IInv /\ [Next]_vars => IInv'
<1> SUFFICES ASSUME IInv, [Next]_vars
             PROVE  IInv'
  OBVIOUS
<1>1. CASE FillFrames
  BY <1>1, FillFramesStep
<1>2. CASE BeginLayout
  BY <1>2, BeginLayoutStep
<1>3. CASE CopyFrame
  BY <1>3, CopyFrameInvariant
<1>4. CASE CreatePackage
  BY <1>4, CreatePackageStep
<1>5. CASE Configure
  BY <1>5, ConfigureStep
<1>6. CASE UNCHANGED vars
  <2>1. /\ UNCHANGED <<part, assembled, data, current, stage, copied, payload,
                       idcode, packets>>
        /\ UNCHANGED deviceVars
    BY <1>6 DEF vars, fillVars, layoutVars, deviceVars
  <2>2. FillProofs!IInv'
    BY <2>1, FillKept DEF IInv
  <2>3. Staged' /\ Types' /\ CopiedInOrder'
    <3>1. Device!IsFrameMap(loaded)' /\ (Device!DeviceInit' <=> Device!DeviceInit)
      BY <2>1 DEF IInv, Types, Device!DeviceTypeOK, Device!IsFrameMap,
         Device!DeviceInit, deviceVars
    <3>2. Device!DeviceTypeOK'
      BY <2>1, <3>1 DEF IInv, Types, Device!DeviceTypeOK, deviceVars
    <3>3. QED
      BY <2>1, <3>1, <3>2 DEF IInv, Staged, Types, CopiedInOrder
  <2>4. Queued' /\ Handled' = Handled
    BY <2>1, KeepQueued DEF IInv
  <2>5. Sequenced'
    BY <2>1, <2>4 DEF IInv, Sequenced, deviceVars
  <2>6. Complete' <=> Complete
    BY <2>1, SameStrays
  <2>7. \A a : BeforeAll(a)' <=> BeforeAll(a)
    BY <2>1, SameStrays
  <2>8. Writing' <=> Writing
    BY <2>1, <2>4 DEF Writing, deviceVars
  <2>9. Loads'
    <3>1. (Contents' <=> Contents) /\ (HasAll' <=> HasAll)
      BY <2>1, <2>7 DEF Contents, HasAll, deviceVars
    <3>2. /\ HasBelow(current_frame_address)' <=> HasBelow(current_frame_address)
          /\ IsFrame(current_frame_address)' <=> IsFrame(current_frame_address)
      BY <2>1, <2>7 DEF HasBelow, IsFrame, deviceVars
    <3>3. QED
      BY <2>1, <2>4, <2>6, <2>8, <3>1, <3>2 DEF IInv, Loads
  <2>10. Layout'
    <3>1. PICK pos : Placed(pos) /\ Located(pos)
      BY DEF IInv, Layout
    <3>2. \A a : Gap(a)' = Gap(a) /\ (IsLast(a)' <=> IsLast(a))
      BY <2>1 DEF Gap, Separator, ZeroFrames, IsLast
    <3>3. \A a, b : Adjacent(a, b)' <=> Adjacent(a, b)
      BY <2>1 DEF Adjacent
    <3>4. Placed(pos)'
      BY <2>1, <3>1, <3>2, <3>3 DEF Placed
    <3>5. Located(pos)'
      BY <2>1, <2>6, <2>7, <2>8, <3>1 DEF Located, deviceVars
    <3>6. QED
      BY <3>4, <3>5 DEF Layout
  <2>11. QED
    BY <2>2, <2>3, <2>4, <2>5, <2>9, <2>10 DEF IInv
<1>7. QED
  BY <1>1, <1>2, <1>3, <1>4, <1>5, <1>6 DEF Next

LEMMA Invariant == Spec => []IInv
  BY InitInvariant, StepInvariant, PTL DEF Spec

(* The stages, the layout and the state of the device are of their types.  *)
THEOREM TypeCorrect == Spec => []TypeOK
<1>1. IInv => TypeOK
  BY FillFacts DEF IInv, Staged, Types, TypeOK
<1>2. QED
  BY <1>1, Invariant, PTL

(* Whatever the part and the design, no packet after the frame data starts *)
(* another write.                                                          *)
THEOREM WritesOnce == Spec => []NoSecondWrite
<1>1. ASSUME IInv, start_new_write
      PROVE  loaded = <<>>
  <2>1. CASE stage = "device"
    <3>1. Handled < FirstFDRI
      <4>1. ~ Handled >= FirstFDRI
        BY <1>1, <2>1 DEF IInv, Sequenced
      <4>2. Handled \in Int
        BY <1>1, <2>1 DEF IInv, Queued, Handled, PackageLength
      <4>3. QED
        BY <4>1, <4>2 DEF FirstFDRI
    <3>2. QED
      BY <1>1, <2>1, <3>1 DEF IInv, Sequenced
  <2>2. CASE stage # "device"
    BY <1>1, <2>2 DEF IInv, Staged, Device!DeviceInit
  <2>3. QED
    BY <2>1, <2>2
<1>2. IInv => NoSecondWrite
  BY <1>1 DEF NoSecondWrite
<1>3. QED
  BY <1>2, Invariant, PTL

(* Frames before the first stray one: what the device has is the design's. *)
THEOREM LoadsTheDesign == Spec => []LoadsDesign
<1>1. ASSUME IInv, Fits(part), IsRegular(part), NEW a \in DOMAIN BeforeStrays(loaded)
      PROVE  a \in DOMAIN data /\ loaded[a] = data[a]
  <2>1. a \in DOMAIN loaded /\ BeforeAll(a)
    BY <1>1 DEF BeforeStrays, BeforeAll, Restrict
  <2>2. stage = "device"
    <3>1. SUFFICES ASSUME stage # "device" PROVE FALSE
      OBVIOUS
    <3>2. loaded = <<>>
      BY <1>1, <3>1 DEF IInv, Staged, Device!DeviceInit
    <3>3. DOMAIN loaded = {}
      BY <3>2
    <3>4. QED
      BY <2>1, <3>3
  <2>3. Complete
    BY <1>1, <2>2, CompleteWhenFilled DEF IInv
  <2>4. QED
    BY <1>1, <2>1, <2>2, <2>3 DEF IInv, Loads, Contents
<1>2. IInv => LoadsDesign
  BY <1>1 DEF LoadsDesign
<1>3. QED
  BY <1>2, Invariant, PTL

-----------------------------------------------------------------------------
(* The design as the abstract specification has it.                        *)

LEMMA AnyFrameFields ==
  ASSUME NEW t, NEW h, NEW r \in 0 .. RowLimit - 1,
         NEW c \in 0 .. ColumnLimit - 1, NEW m \in 0 .. MinorLimit - 1
  PROVE  FrameAddress(t, h, r, c, m) = At(t, h, r, c, m)
<1>1. r % RowLimit = r /\ c % ColumnLimit = c /\ m % MinorLimit = m
  BY FieldRange, LimitsAssumption
<1>2. QED
  BY <1>1 DEF FrameAddress, At

(* The frames listed for a half are its frames.                            *)
LEMMA FramesOfHalfAre ==
  ASSUME IsPart(part), Fits(part), NEW h \in Halves, NEW a
  PROVE  a \in FramesOfHalf(h) <=>
           a \in Address /\ a.bottom = h /\ IsValidFrameAddress(part, a)
<1>1. ASSUME NEW r \in DOMAIN part[h], NEW t \in DOMAIN part[h][r],
             NEW c \in DOMAIN part[h][r][t], NEW m \in 0 .. part[h][r][t][c] - 1
      PROVE  /\ FrameAddress(t, h, r, c, m) = At(t, h, r, c, m)
             /\ At(t, h, r, c, m) \in Address
             /\ IsValidFrameAddress(part, At(t, h, r, c, m))
  <2>1. /\ r \in 0 .. RowLimit - 1 /\ c \in 0 .. ColumnLimit - 1
        /\ part[h][r][t][c] <= MinorLimit /\ part[h][r][t][c] \in Nat
        /\ t \in 0 .. 2
    BY FitsShape, PartShape
  <2>2. m \in 0 .. MinorLimit - 1 /\ m < part[h][r][t][c]
    BY <2>1, LimitsAssumption
  <2>3. At(t, h, r, c, m) \in Address
    BY <2>1, <2>2 DEF Address, At
  <2>4. IsValidFrameAddress(part, At(t, h, r, c, m))
    BY <2>2 DEF IsValidFrameAddress, RegionHas, RowHas, BusHas, At
  <2>5. QED
    BY <2>1, <2>2, <2>3, <2>4, AnyFrameFields
<1>2. ASSUME a \in FramesOfHalf(h)
      PROVE  a \in Address /\ a.bottom = h /\ IsValidFrameAddress(part, a)
  <2>1. PICK r \in DOMAIN part[h] : \E t \in DOMAIN part[h][r] :
          a \in FramesOfBus(h, r, t)
    BY <1>2 DEF FramesOfHalf
  <2>2. PICK t \in DOMAIN part[h][r] : a \in FramesOfBus(h, r, t)
    BY <2>1
  <2>3. PICK c \in DOMAIN part[h][r][t] : \E m \in 0 .. part[h][r][t][c] - 1 :
          a = FrameAddress(t, h, r, c, m)
    BY <2>2 DEF FramesOfBus
  <2>4. PICK m \in 0 .. part[h][r][t][c] - 1 : a = FrameAddress(t, h, r, c, m)
    BY <2>3
  <2>5. a = At(t, h, r, c, m)
    BY <1>1, <2>4
  <2>6. QED
    BY <1>1, <2>5 DEF At
<1>3. ASSUME a \in Address, a.bottom = h, IsValidFrameAddress(part, a)
      PROVE  a \in FramesOfHalf(h)
  <2>1. /\ a.row \in DOMAIN part[h] /\ a.type \in DOMAIN part[h][a.row]
        /\ a.column \in DOMAIN part[h][a.row][a.type]
        /\ a.minor < part[h][a.row][a.type][a.column]
    BY <1>3 DEF IsValidFrameAddress, RegionHas, RowHas, BusHas
  <2>2. a.minor \in 0 .. part[h][a.row][a.type][a.column] - 1
    <3>1. part[h][a.row][a.type][a.column] \in Nat
      BY <2>1, PartShape
    <3>2. a.minor \in Nat
      BY <1>3, LimitsAssumption DEF Address
    <3>3. QED
      BY <2>1, <3>1, <3>2
  <2>3. a = FrameAddress(a.type, h, a.row, a.column, a.minor)
    BY <1>1, <1>3, <2>1, <2>2, AddressFields
  <2>4. a \in FramesOfBus(h, a.row, a.type)
    <3>1. PICK c \in DOMAIN part[h][a.row][a.type] : c = a.column
      BY <2>1
    <3>2. PICK m \in 0 .. part[h][a.row][a.type][c] - 1 : m = a.minor
      BY <2>2, <3>1
    <3>3. a = FrameAddress(a.type, h, a.row, c, m)
      BY <2>3, <3>1, <3>2, Zenon
    <3>4. a \in {FrameAddress(a.type, h, a.row, c, n) :
                 n \in 0 .. part[h][a.row][a.type][c] - 1}
      BY <3>2, <3>3
    <3>5. QED
      BY <3>1, <3>4 DEF FramesOfBus
  <2>5. QED
    BY <2>1, <2>4 DEF FramesOfHalf
<1>4. QED
  BY <1>2, <1>3

LEMMA FullDesignIsData ==
  ASSUME FillProofs!IInv, Complete, NEW a, BeforeAll(a)
  PROVE  /\ a \in DOMAIN FullDesign <=> a \in DOMAIN data
         /\ a \in DOMAIN data => FullDesign[a] = data[a]
<1>1. /\ DOMAIN assembled \subseteq DOMAIN data
      /\ \A k \in DOMAIN assembled : data[k] = assembled[k]
      /\ \A k \in DOMAIN data \ DOMAIN assembled : data[k] = Blank
  BY FillFacts
<1>2. a \in FramesOfHalf(0) \cup FramesOfHalf(1) <=>
        a \in Address /\ IsValidFrameAddress(part, a)
  <2>1. \A k \in Address : k.bottom \in {0, 1}
    BY DEF Address, Halves
  <2>2. 0 \in Halves /\ 1 \in Halves
    BY DEF Halves
  <2>3. QED
    BY <2>1, <2>2, FramesOfHalfAre DEF Complete
<1>3. a \in DOMAIN FullDesign <=>
        \/ a \in DOMAIN assembled \/ a = Zero
        \/ a \in FramesOfHalf(0) \cup FramesOfHalf(1)
  BY DEF FullDesign
<1>4. a \in DOMAIN FullDesign <=> a \in DOMAIN data
  BY <1>1, <1>2, <1>3, BeforeAllIsFrame DEF Complete
<1>5. a \in DOMAIN FullDesign =>
        FullDesign[a] = IF a \in DOMAIN assembled THEN assembled[a] ELSE Blank
  BY DEF FullDesign
<1>6. QED
  BY <1>1, <1>4, <1>5

-----------------------------------------------------------------------------
(* The steps map to steps of the abstract specification.                   *)

LEMMA MemoryKept ==
  ASSUME UNCHANGED <<part, assembled, idcode, loaded>>
  PROVE  UNCHANGED Loading!loadingVars
<1>1. Strays' = Strays /\ FullDesign' = FullDesign
  BY DEF Strays, FullDesign, FramesOfHalf, FramesOfBus
<1>2. BeforeStrays(loaded)' = BeforeStrays(loaded)
  BY <1>1 DEF BeforeStrays
<1>3. BeforeStrays(FullDesign)' = BeforeStrays(FullDesign)
  BY <1>1 DEF BeforeStrays
<1>4. QED
  BY <1>2, <1>3 DEF Loading!loadingVars

LEMMA NonStoringStep ==
  ASSUME Next, ~ Device!WriteFrame, ~ Device!WriteLastFrame
  PROVE  UNCHANGED <<part, assembled, idcode, loaded>>
<1>1. CASE FillFrames
  BY <1>1 DEF FillFrames, deviceVars, Fill!Next, Fill!KeepFrame,
     Fill!AddMissingFrame, Fill!Advance
<1>2. CASE BeginLayout \/ CopyFrame \/ CreatePackage
  BY <1>2 DEF BeginLayout, CopyFrame, CreatePackage, deviceVars, fillVars
<1>3. CASE Configure
  <2>1. UNCHANGED <<part, assembled, idcode>>
    BY <1>3, ConfigureFrame DEF Fixed
  <2>2. UNCHANGED loaded
    BY <1>3 DEF Configure, Device!DeviceNext, Device!SkipPacket,
       Device!WriteMASK, Device!WriteCTL1, Device!WriteCMD,
       Device!WriteIDCODE, Device!WriteFAR, Device!BeginFDRI,
       Device!EndFDRI, Device!Return
  <2>3. QED
    BY <2>1, <2>2
<1>4. QED
  BY <1>1, <1>2, <1>3 DEF Next

(* A frame before the stray ones that the device stores is the first one   *)
(* it lacks; the others do not count.                                      *)
LEMMA StoringStep ==
  ASSUME IInv, Next, Device!WriteFrame \/ Device!WriteLastFrame,
         Fits(part), IsRegular(part)
  PROVE  Loading!LoadFrame \/ UNCHANGED Loading!loadingVars
<1> DEFINE c == current_frame_address
           design == BeforeStrays(FullDesign)
           memory == BeforeStrays(loaded)
<1>1. stage = "device" /\ Fixed
  <2>1. offset # Device!Idle
    BY DEF Device!WriteFrame, Device!WriteLastFrame, Device!InFDRI
  <2>2. stage = "device"
    BY <2>1 DEF IInv, Staged, Device!DeviceInit
  <2>3. Configure
    BY <2>2 DEF Next, FillFrames, BeginLayout, CopyFrame, CreatePackage
  <2>4. QED
    BY <2>2, <2>3, ConfigureFrame
<1>2. Complete
  BY <1>1, CompleteWhenFilled DEF IInv
<1>3. PICK pos : Placed(pos) /\ Located(pos)
  BY DEF IInv, Layout
<1>4. /\ Handled = FirstFDRI /\ offset \in Nat
      /\ loaded' = [a \in DOMAIN loaded \cup {c} |->
                      IF a = c THEN payload[offset + 1] ELSE loaded[a]]
  BY <1>1, <1>2, StoreStep DEF IInv, Complete
<1>5. Writing
  BY <1>1, <1>4 DEF Writing, Device!Idle
<1>6. copied = DOMAIN data
  BY <1>1 DEF IInv, Staged
<1>7. Loads /\ IsFrame(c) /\ HasBelow(c) /\ c \in Address
  BY <1>1, <1>2, <1>5 DEF IInv, Loads, IsFrame
<1>8. /\ part' = part /\ assembled' = assembled /\ data' = data
      /\ idcode' = idcode
  BY <1>1 DEF Fixed
<1>9. /\ Strays' = Strays /\ FullDesign' = FullDesign
      /\ \A a : BeforeAll(a)' <=> BeforeAll(a)
  BY <1>8, SameStrays DEF FullDesign, FramesOfHalf, FramesOfBus
<1>10. BeforeStrays(FullDesign)' = BeforeStrays(FullDesign)
  BY <1>9 DEF BeforeStrays
<1>11. /\ DOMAIN memory = {a \in DOMAIN loaded : BeforeAll(a)}
       /\ \A a \in DOMAIN memory : memory[a] = loaded[a]
       /\ DOMAIN design = {a \in DOMAIN FullDesign : BeforeAll(a)}
       /\ \A a \in DOMAIN design : design[a] = FullDesign[a]
  BY DEF BeforeStrays, BeforeAll, Restrict
<1>12. memory' = [a \in {b \in DOMAIN loaded \cup {c} : BeforeAll(b)} |->
                    IF a = c THEN payload[offset + 1] ELSE loaded[a]]
  BY <1>4, <1>9 DEF BeforeStrays, BeforeAll, Restrict
<1>13. CASE BeforeAll(c)
  <2>1. c \in DOMAIN data /\ payload[offset + 1] = data[c]
    BY <1>2, <1>3, <1>5, <1>6, <1>7, <1>13, WritesData
  <2>2. c \in DOMAIN design /\ design[c] = data[c]
    BY <1>2, <1>11, <1>13, <2>1, FullDesignIsData DEF IInv
  <2>3. c \notin DOMAIN memory
    BY <1>7, <1>11, <1>13, LessIrreflexive DEF HasBelow
  <2>4. ASSUME NEW b \in DOMAIN design \ DOMAIN memory
        PROVE  b = c \/ Less(c, b)
    <3>1. BeforeAll(b) /\ b \notin DOMAIN loaded /\ b \in DOMAIN data
      BY <1>2, <1>11, <2>4, FullDesignIsData DEF IInv
    <3>2. b \in Address
      BY <1>2, <3>1 DEF Complete
    <3>3. ~ Less(b, c)
      BY <1>7, <3>1, <3>2 DEF HasBelow
    <3>4. QED
      BY <1>7, <3>2, <3>3, LessTotal
  <2>5. memory' = [b \in DOMAIN memory \cup {c} |->
                     IF b = c THEN design[c] ELSE memory[b]]
    <3>1. {b \in DOMAIN loaded \cup {c} : BeforeAll(b)} = DOMAIN memory \cup {c}
      BY <1>11, <1>13
    <3>2. \A b \in DOMAIN memory : memory[b] = loaded[b]
      BY <1>11
    <3> HIDE DEF memory, design
    <3>3. [b \in DOMAIN memory \cup {c} |->
             IF b = c THEN payload[offset + 1] ELSE loaded[b]]
          = [b \in DOMAIN memory \cup {c} |->
               IF b = c THEN design[c] ELSE memory[b]]
      BY <2>1, <2>2, <3>2
    <3>4. QED
      BY <1>12, <3>1, <3>3
  <2>6. idcode = Idcode
    BY <1>1, <1>4, <1>5 DEF IInv, Sequenced, Writing, FirstFDRI, IdcodeAt
  <2>7. Loading!LoadFrame
    <3>1. \A a, b : Loading!Less(a, b) <=> Less(a, b)
      BY DEF Less, Loading!Less
    <3>2. c \in Loading!Missing
      BY <2>2, <2>3 DEF Loading!Missing
    <3>3. \A b \in Loading!Missing : b = c \/ Loading!Less(c, b)
      BY <2>4, <3>1 DEF Loading!Missing
    <3>4. QED
      BY <1>8, <1>10, <2>5, <2>6, <3>2, <3>3 DEF Loading!LoadFrame
  <2>8. QED
    BY <2>7
<1>14. CASE ~ BeforeAll(c)
  <2>1. memory' = memory
    <3>1. {b \in DOMAIN loaded \cup {c} : BeforeAll(b)} = DOMAIN memory
      BY <1>11, <1>14
    <3>2. c \notin DOMAIN memory
      BY <1>11, <1>14
    <3>3. memory = [b \in DOMAIN memory |-> loaded[b]]
      BY <1>11 DEF BeforeStrays, Restrict
    <3>4. memory' = [b \in DOMAIN memory |-> loaded[b]]
      BY <1>12, <3>1, <3>2
    <3>5. QED
      BY <3>3, <3>4
  <2>2. QED
    BY <1>8, <1>10, <2>1 DEF Loading!loadingVars
<1>15. QED
  BY <1>13, <1>14

LEMMA LoadingStep ==
  ASSUME IInv, [Next]_vars, Fits(part), IsRegular(part)
  PROVE  [Loading!LoadFrame]_(Loading!loadingVars)
<1>1. CASE Next /\ (Device!WriteFrame \/ Device!WriteLastFrame)
  BY <1>1, StoringStep
<1>2. CASE Next /\ ~ Device!WriteFrame /\ ~ Device!WriteLastFrame
  BY <1>2, NonStoringStep, MemoryKept
<1>3. CASE UNCHANGED vars
  <2>1. UNCHANGED <<part, assembled, idcode, loaded>>
    BY <1>3 DEF vars, fillVars, deviceVars
  <2>2. QED
    BY <2>1, MemoryKept
<1>4. QED
  BY <1>1, <1>2, <1>3

LEMMA LoadingBegins == Init => Loading!LoadingInit
<1> SUFFICES ASSUME Init PROVE Loading!LoadingInit
  OBVIOUS
<1>1. loaded = <<>>
  BY DEF Init, Device!DeviceInit
<1>2. BeforeStrays(loaded) = [a \in {} |-> loaded[a]]
  BY <1>1 DEF BeforeStrays, Restrict
<1>3. [a \in {} |-> loaded[a]] = <<>>
  OBVIOUS
<1>4. QED
  BY <1>2, <1>3 DEF Loading!LoadingInit

(* Up to progress the encoder and the device implement the loading of the  *)
(* design frame by frame: each step maps to the loading of the first frame *)
(* that lacks, or to no step.                                              *)
THEOREM LoadsByFrames ==
  ASSUME \A p \in Parts : Fits(p) /\ IsRegular(p)
  PROVE  Spec => Loading!LoadingInit
                   /\ [][Loading!LoadFrame]_(Loading!loadingVars)
<1>1. IInv /\ [Next]_vars => [Loading!LoadFrame]_(Loading!loadingVars)
  <2>1. IInv => Fits(part) /\ IsRegular(part)
    BY FillFacts DEF IInv
  <2>2. QED
    BY <2>1, LoadingStep
<1>2. QED
  BY <1>1, LoadingBegins, Invariant, PTL DEF Spec

(* A device that has been configured is one of the part, and has the whole *)
(* design up to the first stray frame.                                     *)
Configured ==
  verdict = "configured" =>
    /\ idcode = Idcode
    /\ Fits(part) /\ IsRegular(part) =>
         BeforeStrays(loaded) = BeforeStrays(data)

THEOREM ConfiguredWhole == Spec => []Configured
<1>1. ASSUME IInv, verdict = "configured"
      PROVE  /\ stage = "device" /\ Handled = PackageLength
             /\ idcode = Idcode
  <2>1. stage = "device"
    BY <1>1 DEF IInv, Staged, Device!DeviceInit
  <2>2. packets = <<>>
    BY <1>1, <2>1 DEF IInv, Sequenced
  <2>3. Handled = PackageLength
    <3>1. Len(packets) = 0
      BY <2>2
    <3>2. QED
      BY <3>1 DEF Handled, PackageLength
  <2>4. QED
    BY <1>1, <2>1, <2>3 DEF IInv, Sequenced, PackageLength, IdcodeAt
<1>2. ASSUME IInv, verdict = "configured", Fits(part), IsRegular(part)
      PROVE  BeforeStrays(loaded) = BeforeStrays(data)
  <2>1. Complete
    BY <1>1, <1>2, CompleteWhenFilled DEF IInv
  <2>2. Contents /\ HasAll
    BY <1>1, <1>2, <2>1 DEF IInv, Loads, PackageLength, FirstFDRI
  <2>3. DOMAIN loaded \subseteq Address /\ DOMAIN data \subseteq Address
    BY <1>2, <2>1, SameAddresses
       DEF IInv, Types, Device!DeviceTypeOK, Device!IsFrameMap, Complete
  <2>4. {a \in DOMAIN loaded : BeforeAll(a)} = {a \in DOMAIN data : BeforeAll(a)}
    BY <2>2, <2>3 DEF HasAll
  <2>5. \A a \in {b \in DOMAIN loaded : BeforeAll(b)} : loaded[a] = data[a]
    BY <2>2 DEF Contents
  <2>6. /\ BeforeStrays(loaded) = [a \in {b \in DOMAIN loaded : BeforeAll(b)} |-> loaded[a]]
        /\ BeforeStrays(data) = [a \in {b \in DOMAIN data : BeforeAll(b)} |-> data[a]]
    BY DEF BeforeStrays, BeforeAll, Restrict
  <2>7. QED
    BY <2>4, <2>5, <2>6
<1>3. IInv => Configured
  BY <1>1, <1>2 DEF Configured
<1>4. QED
  BY <1>3, Invariant, PTL
=============================================================================
