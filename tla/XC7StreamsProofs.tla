-------------------------- MODULE XC7StreamsProofs --------------------------
(***************************************************************************)
(* Bitstreams of other tools, for all regular parts, every width of the    *)
(* address fields, any number of cuts and whatever the markers show: no    *)
(* frame lands at the address of another one.                              *)
(*                                                                         *)
(* The frames in order are the walk of the part (OrderIsWalk), so that the *)
(* device is, at every frame of a packet, at the frame whose slot begins   *)
(* the rest of the packet (Position); and what it has handled of the       *)
(* stream says what its registers are (Marked, Seeking).                   *)
(***************************************************************************)
EXTENDS XC7Streams, SequenceTheorems, FiniteSetTheorems, WellFoundedInduction,
        TLAPS

(* For its lemmas about the walk; of its variables only the part counts.   *)
Walk == INSTANCE XC7FramesProofs
  WITH FrameKeys <- {}, assembled <- loaded, data <- loaded, current <- {}

-----------------------------------------------------------------------------
(* The parts, addresses and walk of the instance are those of XC7Part.     *)

LEMMA SameParts ==
  ASSUME NEW p
  PROVE  /\ Walk!IsPart(p) <=> IsPart(p)
         /\ Walk!Fits(p) <=> Fits(p)
         /\ Walk!IsRegular(p) <=> IsRegular(p)
         /\ Walk!Address = Address
<1>1. Walk!IsPart(p) <=> IsPart(p)
  BY DEF IsPart, Halves, BlockTypes, kCLBIOCLK, kBlockRam, kCFGCLB,
         Walk!IsPart, Walk!Halves, Walk!BlockTypes,
         Walk!kCLBIOCLK, Walk!kBlockRam, Walk!kCFGCLB
<1>2. Walk!Fits(p) <=> Fits(p)
  BY DEF Fits, Halves, Walk!Fits, Walk!Halves
<1>3. Walk!IsRegular(p) <=> IsRegular(p)
  BY DEF IsRegular, Halves, kCLBIOCLK, Walk!IsRegular, Walk!Halves,
         Walk!kCLBIOCLK
<1>4. Walk!Address = Address
  BY DEF Address, Halves, Walk!Address, Walk!Halves
<1>5. QED
  BY <1>1, <1>2, <1>3, <1>4

LEMMA SameFrames ==
  ASSUME NEW p, NEW a, NEW b
  PROVE  /\ Walk!Less(a, b) <=> Less(a, b)
         /\ Walk!IsValidFrameAddress(p, a) <=> IsValidFrameAddress(p, a)
         /\ Walk!GetNextFrameAddress(p, a) = GetNextFrameAddress(p, a)
<1>1. Walk!Less(a, b) <=> Less(a, b)
  BY DEF Less, Walk!Less
<1>2. Walk!IsValidFrameAddress(p, a) <=> IsValidFrameAddress(p, a)
  BY DEF IsValidFrameAddress, RegionHas, RowHas, BusHas,
         Walk!IsValidFrameAddress, Walk!RegionHas, Walk!RowHas, Walk!BusHas
<1>3. Walk!GetNextFrameAddress(p, a) = GetNextFrameAddress(p, a)
  BY DEF GetNextFrameAddress, OrElse, RegionNext, BottomNext, BlockNext,
         RowNext, BusNext, ColumnNext, KeyAfter, RowHas, RegionHas,
         IsValidFrameAddress, BusHas, RowStart, FrameAddress, Increment,
         kBlockRam, kCFGCLB,
         Walk!GetNextFrameAddress, Walk!OrElse, Walk!RegionNext,
         Walk!BottomNext, Walk!BlockNext, Walk!RowNext, Walk!BusNext,
         Walk!ColumnNext, Walk!KeyAfter, Walk!RowHas, Walk!RegionHas,
         Walk!IsValidFrameAddress, Walk!BusHas, Walk!RowStart,
         Walk!FrameAddress, Walk!Increment, Walk!kBlockRam, Walk!kCFGCLB
<1>4. QED
  BY <1>1, <1>2, <1>3

LEMMA WalkAssumptions == Walk!LimitsAssumption /\ Walk!FramesAssumption
<1>1. Walk!LimitsAssumption
  BY LimitsAssumption DEF Walk!LimitsAssumption
<1>2. Walk!FramesAssumption
  BY StreamsAssumption, SameParts DEF Walk!FramesAssumption
<1>3. QED
  BY <1>1, <1>2

(* The answer of GetNextFrameAddress is one, a later frame.                *)
LEMMA NextIsLaterFrame ==
  \A p, a, b :
    IsPart(p) /\ Fits(p) /\ a \in Address /\ b \in GetNextFrameAddress(p, a)
    => IsValidFrameAddress(p, b) /\ Less(a, b) /\ b \in Address
<1>1. \A p, a, b :
        Walk!IsPart(p) /\ Walk!Fits(p) /\ a \in Walk!Address
          /\ b \in Walk!GetNextFrameAddress(p, a)
        => Walk!IsValidFrameAddress(p, b) /\ Walk!Less(a, b)
  BY Walk!NextIsLaterFrame, WalkAssumptions, LimitsAssumption
     DEF Walk!LimitsAssumption
<1>2. \A p, a :
        Walk!IsPart(p) /\ a \in Walk!Address
        => Walk!GetNextFrameAddress(p, a) \subseteq Walk!Address
  BY Walk!NextType, WalkAssumptions, LimitsAssumption
     DEF Walk!LimitsAssumption
<1>3. QED
  BY <1>1, <1>2, SameParts, SameFrames

LEMMA NextUnique ==
  \A p, a, b, c :
    IsPart(p) /\ a \in Address
      /\ b \in GetNextFrameAddress(p, a) /\ c \in GetNextFrameAddress(p, a)
    => b = c
<1>1. \A p, a, b, c :
        Walk!IsPart(p) /\ a \in Walk!Address
          /\ b \in Walk!GetNextFrameAddress(p, a)
          /\ c \in Walk!GetNextFrameAddress(p, a)
        => b = c
  BY Walk!NextUnique, WalkAssumptions, LimitsAssumption
     DEF Walk!LimitsAssumption
<1>2. QED
  BY <1>1, SameParts, SameFrames

LEMMA NextSkipsNone ==
  \A p, a, v :
    IsPart(p) /\ Fits(p) /\ IsRegular(p) /\ a \in Address /\ v \in Address
      /\ IsValidFrameAddress(p, a) /\ IsValidFrameAddress(p, v) /\ Less(a, v)
    => \E b \in GetNextFrameAddress(p, a) : ~ Less(v, b)
<1>1. \A p, a, v :
        Walk!IsPart(p) /\ Walk!Fits(p) /\ Walk!IsRegular(p)
          /\ a \in Walk!Address /\ v \in Walk!Address
          /\ Walk!IsValidFrameAddress(p, a)
          /\ Walk!IsValidFrameAddress(p, v) /\ Walk!Less(a, v)
        => \E b \in Walk!GetNextFrameAddress(p, a) : ~ Walk!Less(v, b)
  BY Walk!NextSkipsNone, WalkAssumptions, LimitsAssumption
     DEF Walk!LimitsAssumption
<1>2. SUFFICES ASSUME NEW p, NEW a \in Address, NEW v \in Address,
                      IsPart(p), Fits(p), IsRegular(p),
                      IsValidFrameAddress(p, a), IsValidFrameAddress(p, v),
                      Less(a, v)
               PROVE  \E b \in GetNextFrameAddress(p, a) : ~ Less(v, b)
  OBVIOUS
<1>3. PICK b \in Walk!GetNextFrameAddress(p, a) : ~ Walk!Less(v, b)
  BY <1>1, <1>2, SameParts, SameFrames
<1>4. b \in GetNextFrameAddress(p, a) /\ ~ Less(v, b)
  BY <1>3, SameFrames
<1>5. QED
  BY <1>4

-----------------------------------------------------------------------------
(* InOrder.  As many elements are below an element as its place says.      *)

FrameOrder(p) == InOrder(Frames(p), Less)

NumberOrder(S) == InOrder(S, <)

LEMMA PlacesAreTaken ==
  ASSUME NEW S, IsFiniteSet(S), NEW below \in [S -> SUBSET S],
         \A a \in S : a \notin below[a],
         \A a, b \in S : a = b \/ a \in below[b] \/ b \in below[a],
         \A a, b \in S : a \in below[b] => below[a] \subseteq below[b]
  PROVE  /\ Cardinality(S) \in Nat
         /\ \A a \in S : Cardinality(below[a]) \in 0 .. Cardinality(S) - 1
         /\ \A a, b \in S :
              a \in below[b] => Cardinality(below[a]) < Cardinality(below[b])
         /\ \A k \in 1 .. Cardinality(S) :
              \E a \in S : Cardinality(below[a]) = k - 1
<1> DEFINE n == Cardinality(S)
           rank == [a \in S |-> Cardinality(below[a])]
<1>1. n \in Nat
  BY FS_CardinalityType
<1>2. \A a \in S : IsFiniteSet(below[a]) /\ Cardinality(below[a]) \in Nat
  BY FS_Subset, FS_CardinalityType
<1>3. \A a \in S : Cardinality(below[a]) \in 0 .. n - 1
  <2> TAKE a \in S
  <2>1. Cardinality(S \ {a}) = n - 1 /\ IsFiniteSet(S \ {a})
    BY FS_RemoveElement
  <2>2. below[a] \in SUBSET (S \ {a})
    OBVIOUS
  <2>3. Cardinality(below[a]) <= n - 1
    BY <2>1, <2>2, FS_Subset
  <2>4. QED
    BY <1>1, <1>2, <2>3
<1>4. ASSUME NEW a \in S, NEW b \in S, a \in below[b]
      PROVE  Cardinality(below[a]) < Cardinality(below[b])
  <2>1. below[a] \in SUBSET below[b] /\ below[a] # below[b]
    BY <1>4
  <2>2. /\ Cardinality(below[a]) <= Cardinality(below[b])
        /\ Cardinality(below[a]) # Cardinality(below[b])
    BY <1>2, <2>1, FS_Subset
  <2>3. QED
    BY <1>2, <2>2
<1>5. rank \in Injection(S, 0 .. n - 1)
  <2>1. rank \in [S -> 0 .. n - 1]
    BY <1>3
  <2>2. ASSUME NEW a \in S, NEW b \in S, rank[a] = rank[b]
        PROVE  a = b
    <3>1. ~ (a \in below[b]) /\ ~ (b \in below[a])
      BY <1>2, <1>4, <2>2
    <3>2. QED
      BY <3>1
  <2>3. QED
    BY <2>1, <2>2 DEF Injection, IsInjective
<1>6. IsFiniteSet(0 .. n - 1) /\ Cardinality(0 .. n - 1) = n
  BY <1>1, FS_Interval
<1>7. rank \in Surjection(S, 0 .. n - 1)
  BY <1>5, <1>6, FS_Injection
<1>8. \A k \in 1 .. n : \E a \in S : Cardinality(below[a]) = k - 1
  <2> TAKE k \in 1 .. n
  <2>1. k - 1 \in 0 .. n - 1
    BY <1>1
  <2>2. \E a \in S : rank[a] = k - 1
    BY <1>7, <2>1 DEF Surjection
  <2>3. QED
    BY <2>2
<1>9. QED
  BY <1>1, <1>3, <1>4, <1>8

(* Addresses are in a strict order.                                        *)
LEMMA LessIsOrder ==
  /\ \A a \in Address : ~ Less(a, a)
  /\ \A a, b \in Address : a = b \/ Less(a, b) \/ Less(b, a)
  /\ \A a, b \in Address : ~ (Less(a, b) /\ Less(b, a))
  /\ \A a, b, c \in Address : Less(a, b) /\ Less(b, c) => Less(a, c)
<1>1. \A a \in Address :
        /\ a.type \in Int /\ a.bottom \in Int /\ a.row \in Int
        /\ a.column \in Int /\ a.minor \in Int
  BY LimitsAssumption DEF Address, Halves
<1>2. \A a \in Address :
        a = [type |-> a.type, bottom |-> a.bottom, row |-> a.row,
             column |-> a.column, minor |-> a.minor]
  BY DEF Address
<1>3. ASSUME NEW a \in Address, NEW b \in Address
      PROVE  a = b \/ Less(a, b) \/ Less(b, a)
  <2>1. \/ Less(a, b) \/ Less(b, a)
        \/ /\ a.type = b.type /\ a.bottom = b.bottom /\ a.row = b.row
           /\ a.column = b.column /\ a.minor = b.minor
    BY <1>1 DEF Less
  <2>2. QED
    BY <1>2, <2>1
<1>4. ASSUME NEW a \in Address, NEW b \in Address, NEW c \in Address
      PROVE  /\ ~ Less(a, a)
             /\ ~ (Less(a, b) /\ Less(b, a))
             /\ Less(a, b) /\ Less(b, c) => Less(a, c)
  BY <1>1 DEF Less
<1>5. QED
  BY <1>3, <1>4

(* A part has finitely many frames, and they are its valid addresses.      *)
LEMMA FramesFinite ==
  ASSUME NEW p
  PROVE  IsFiniteSet(Frames(p))
<1> DEFINE T == (((BlockTypes \X Halves) \X (0 .. RowLimit - 1))
                   \X (0 .. ColumnLimit - 1)) \X (0 .. MinorLimit - 1)
           f == [x \in T |->
                   [type |-> x[1][1][1][1], bottom |-> x[1][1][1][2],
                    row |-> x[1][1][2], column |-> x[1][2], minor |-> x[2]]]
           F == {f[x] : x \in T}
<1>1. IsFiniteSet(T)
  <2>1. IsFiniteSet(BlockTypes) /\ IsFiniteSet(Halves)
    <3>1. BlockTypes = 0 .. 2
      BY DEF BlockTypes, kCLBIOCLK, kBlockRam, kCFGCLB
    <3>2. \A m, n \in Int : IsFiniteSet(m .. n)
      BY FS_Interval
    <3>3. 0 \in Int /\ 1 \in Int /\ 2 \in Int
      OBVIOUS
    <3>4. QED
      BY <3>1, <3>2, <3>3, Zenon DEF Halves
  <2>2. /\ IsFiniteSet(0 .. RowLimit - 1) /\ IsFiniteSet(0 .. ColumnLimit - 1)
        /\ IsFiniteSet(0 .. MinorLimit - 1)
    BY LimitsAssumption, FS_Interval
  <2>3. IsFiniteSet(BlockTypes \X Halves)
    BY <2>1, FS_Product
  <2>4. IsFiniteSet((BlockTypes \X Halves) \X (0 .. RowLimit - 1))
    BY <2>2, <2>3, FS_Product
  <2>5. IsFiniteSet(((BlockTypes \X Halves) \X (0 .. RowLimit - 1))
                      \X (0 .. ColumnLimit - 1))
    BY <2>2, <2>4, FS_Product
  <2>6. QED
    BY <2>2, <2>5, FS_Product
<1>2. IsFiniteSet(F)
  <2>1. f \in [T -> F]
    OBVIOUS
  <2>2. f \in Surjection(T, F)
    BY <2>1 DEF Surjection
  <2>3. QED
    BY <1>1, <2>2, FS_Surjection
<1>3. Frames(p) \subseteq F
  <2>1. SUFFICES ASSUME NEW a \in Frames(p) PROVE a \in F
    OBVIOUS
  <2>2. /\ a.type \in BlockTypes /\ a.bottom \in Halves
        /\ a.row \in 0 .. RowLimit - 1 /\ a.column \in 0 .. ColumnLimit - 1
        /\ a.minor \in 0 .. MinorLimit - 1
        /\ a = [type |-> a.type, bottom |-> a.bottom, row |-> a.row,
                column |-> a.column, minor |-> a.minor]
    BY DEF Frames
  <2> DEFINE x == <<<<<<<<a.type, a.bottom>>, a.row>>, a.column>>, a.minor>>
  <2>3. x \in T
    BY <2>2
  <2>4. f[x] = a
    BY <2>2, <2>3
  <2>5. QED
    BY <2>3, <2>4
<1>4. QED
  BY <1>2, <1>3, FS_Subset

LEMMA FramesAreValid ==
  ASSUME NEW p, IsPart(p), NEW a
  PROVE  a \in Frames(p) <=> a \in Address /\ IsValidFrameAddress(p, a)
<1>1. a \in Frames(p) => a \in Address
  BY DEF Frames, Address, BlockTypes, kCLBIOCLK, kBlockRam, kCFGCLB
<1>2. a \in Address /\ IsValidFrameAddress(p, a) => a.type \in BlockTypes
  BY DEF IsPart, IsValidFrameAddress, RegionHas, RowHas, Address
<1>3. QED
  BY <1>1, <1>2 DEF Frames, Address

(* The frames in order: none is left out, and none lies between two that   *)
(* are next to each other.                                                 *)
LEMMA FramesInOrder ==
  ASSUME NEW p, IsPart(p), NEW order, order = FrameOrder(p),
         NEW n, n = Cardinality(Frames(p))
  PROVE  /\ n \in Nat /\ order \in [1 .. n -> Frames(p)]
         /\ \A k \in 1 .. n : \A v \in Frames(p) :
              Less(order[k], v) =>
                /\ k < n
                /\ v = order[k + 1] \/ Less(order[k + 1], v)
         /\ \A k \in 1 .. n - 1 : Less(order[k], order[k + 1])
<1> DEFINE S == Frames(p)
           below == [a \in S |-> {b \in S : Less(b, a)}]
           rank == [a \in S |-> Cardinality(below[a])]
<1>1. S \subseteq Address
  BY FramesAreValid
<1> HIDE DEF S
<1>2. IsFiniteSet(S) /\ n = Cardinality(S)
  BY FramesFinite DEF S
<1>3. /\ below \in [S -> SUBSET S]
      /\ \A a \in S : a \notin below[a]
      /\ \A a, b \in S : a = b \/ a \in below[b] \/ b \in below[a]
      /\ \A a, b \in S : a \in below[b] => below[a] \subseteq below[b]
  BY <1>1, LessIsOrder
<1>4. /\ n \in Nat
      /\ \A a \in S : rank[a] \in 0 .. n - 1
      /\ \A a, b \in S : Less(a, b) => rank[a] < rank[b]
      /\ \A k \in 1 .. n : \E a \in S : rank[a] = k - 1
  <2> HIDE DEF below
  <2>1. /\ Cardinality(S) \in Nat
        /\ \A a \in S : Cardinality(below[a]) \in 0 .. Cardinality(S) - 1
        /\ \A a, b \in S :
             a \in below[b] => Cardinality(below[a]) < Cardinality(below[b])
        /\ \A k \in 1 .. Cardinality(S) :
             \E a \in S : Cardinality(below[a]) = k - 1
    BY <1>2, <1>3, PlacesAreTaken
  <2>2. \A a, b \in S : Less(a, b) => a \in below[b]
    BY DEF below
  <2>3. QED
    BY <1>2, <2>1, <2>2
<1>5. /\ order = [k \in 1 .. n |->
             CHOOSE a \in S : Cardinality({b \in S : Less(b, a)}) = k - 1]
  BY <1>2 DEF InOrder, FrameOrder, S
<1>6. \A k \in 1 .. n : order[k] \in S /\ rank[order[k]] = k - 1
  <2> TAKE k \in 1 .. n
  <2>1. \A a \in S : rank[a] = Cardinality({b \in S : Less(b, a)})
    OBVIOUS
  <2>2. \E a \in S : Cardinality({b \in S : Less(b, a)}) = k - 1
    BY <1>4, <2>1
  <2>3. order[k] = CHOOSE a \in S : Cardinality({b \in S : Less(b, a)}) = k - 1
    BY <1>5
  <2>4. /\ order[k] \in S
        /\ Cardinality({b \in S : Less(b, order[k])}) = k - 1
    <3> HIDE DEF below
    <3>1. QED
      BY <2>2, <2>3
  <2>5. QED
    BY <2>1, <2>4
<1>7. order \in [1 .. n -> S]
  BY <1>5, <1>6
<1> HIDE DEF below, rank
<1>8. ASSUME NEW k \in 1 .. n, NEW v \in S, Less(order[k], v)
      PROVE  k < n /\ (v = order[k + 1] \/ Less(order[k + 1], v))
  <2>1. k - 1 < rank[v] /\ rank[v] \in 0 .. n - 1
    BY <1>4, <1>6, <1>8
  <2>2. k < n /\ k + 1 \in 1 .. n
    BY <1>4, <2>1
  <2>3. order[k + 1] \in S /\ rank[order[k + 1]] = k
    BY <1>4, <1>6, <2>2
  <2>4. ~ Less(v, order[k + 1])
    <3>1. Less(v, order[k + 1]) => rank[v] < rank[order[k + 1]]
      BY <1>4, <2>3
    <3>2. \A m \in 0 .. n - 1 : k - 1 < m => ~ (m < k)
      BY <1>4
    <3>3. QED
      BY <2>1, <2>3, <3>1, <3>2, Zenon
  <2>5. QED
    BY <1>1, <2>2, <2>3, <2>4, LessIsOrder
<1>9. \A k \in 1 .. n - 1 : Less(order[k], order[k + 1])
  <2> TAKE k \in 1 .. n - 1
  <2>1. k \in 1 .. n /\ k + 1 \in 1 .. n
    BY <1>4
  <2>2. /\ order[k] \in S /\ order[k + 1] \in S
        /\ rank[order[k]] = k - 1 /\ rank[order[k + 1]] = k
    BY <1>4, <1>6, <2>1
  <2>3. ~ Less(order[k + 1], order[k]) /\ order[k] # order[k + 1]
    <3>1. Less(order[k + 1], order[k]) =>
            rank[order[k + 1]] < rank[order[k]]
      BY <1>4, <2>2
    <3>2. k \in Int
      BY <1>4
    <3>3. ~ (k < k - 1) /\ k # k - 1
      BY <3>2
    <3>4. QED
      BY <2>2, <3>1, <3>3, Zenon
  <2>4. QED
    BY <1>1, <2>2, <2>3, LessIsOrder
<1>10. QED
  BY <1>4, <1>7, <1>8, <1>9 DEF S

(* The frames in order are the walk.                                       *)
LEMMA OrderIsWalk ==
  ASSUME NEW p, IsPart(p), Fits(p), IsRegular(p),
         NEW order, order = FrameOrder(p),
         NEW n, n = Cardinality(Frames(p)), NEW k \in 1 .. n
  PROVE  /\ n \in Nat /\ order[k] \in Frames(p)
         /\ k < n => GetNextFrameAddress(p, order[k]) = {order[k + 1]}
         /\ k = n => GetNextFrameAddress(p, order[k]) = {}
<1> DEFINE a == order[k]
           next == GetNextFrameAddress(p, a)
<1>1. /\ n \in Nat /\ order \in [1 .. n -> Frames(p)]
      /\ \A v \in Frames(p) :
           Less(a, v) => k < n /\ (v = order[k + 1] \/ Less(order[k + 1], v))
      /\ k < n => Less(a, order[k + 1])
  <2>1. /\ n \in Nat /\ order \in [1 .. n -> Frames(p)]
        /\ \A i \in 1 .. n : \A v \in Frames(p) :
             Less(order[i], v) =>
               /\ i < n
               /\ v = order[i + 1] \/ Less(order[i + 1], v)
        /\ \A i \in 1 .. n - 1 : Less(order[i], order[i + 1])
    BY FramesInOrder
  <2>2. k < n => k \in 1 .. n - 1
    BY <2>1
  <2>3. QED
    BY <2>1, <2>2, Zenon
<1>2. a \in Frames(p) /\ (k < n => order[k + 1] \in Frames(p))
  <2>1. k < n => k + 1 \in 1 .. n
    BY <1>1
  <2>2. QED
    BY <1>1, <2>1
<1> HIDE DEF a
<1>3. /\ a \in Address /\ IsValidFrameAddress(p, a)
      /\ k < n => order[k + 1] \in Address /\ IsValidFrameAddress(p, order[k + 1])
  BY <1>2, FramesAreValid
<1>4. ASSUME NEW b \in next
      PROVE  /\ b \in Frames(p) /\ b \in Address
             /\ k < n /\ (b = order[k + 1] \/ Less(order[k + 1], b))
             /\ next = {b}
  <2>1. IsValidFrameAddress(p, b) /\ Less(a, b) /\ b \in Address
    BY <1>3, <1>4, NextIsLaterFrame
  <2>2. b \in Frames(p)
    BY <2>1, FramesAreValid
  <2>3. \A c \in next : c = b
    BY <1>3, <1>4, NextUnique
  <2>4. QED
    BY <1>1, <1>4, <2>1, <2>2, <2>3, Zenon
<1>5. CASE k = n
  <2>1. ~ (k < n)
    BY <1>1, <1>5
  <2>2. next = {}
    BY <1>4, <2>1
  <2>3. QED
    BY <1>1, <1>2, <1>5, <2>1, <2>2 DEF a
<1>6. CASE k # n
  <2>1. k < n
    BY <1>1, <1>6
  <2>2. PICK b \in next : ~ Less(order[k + 1], b)
    BY <1>1, <1>3, <2>1, NextSkipsNone
  <2>3. next = {order[k + 1]}
    BY <1>4, <2>2
  <2>4. QED
    BY <1>1, <1>2, <1>6, <2>1, <2>3 DEF a
<1>7. QED
  BY <1>5, <1>6

(* Numbers in order, the largest last.                                     *)
LEMMA NumbersInOrder ==
  ASSUME NEW n \in Nat, NEW S \in SUBSET (0 .. n), n \in S,
         NEW ends, ends = NumberOrder(S), NEW c, c = Cardinality(S)
  PROVE  /\ c \in Nat \ {0} /\ ends \in [1 .. c -> S]
         /\ \A i \in 1 .. c - 1 : ends[i] < ends[i + 1]
         /\ ends[c] = n
<1> DEFINE below == [a \in S |-> {b \in S : b < a}]
           rank == [a \in S |-> Cardinality(below[a])]
<1>1. IsFiniteSet(S) /\ c \in Nat /\ c # 0
  <2>1. IsFiniteSet(0 .. n)
    BY FS_Interval
  <2>2. IsFiniteSet(S) /\ S # {}
    BY <2>1, FS_Subset
  <2>3. QED
    BY <2>2, FS_CardinalityType, FS_EmptySet
<1>2. /\ below \in [S -> SUBSET S]
      /\ \A a \in S : a \notin below[a]
      /\ \A a, b \in S : a = b \/ a \in below[b] \/ b \in below[a]
      /\ \A a, b \in S : a \in below[b] => below[a] \subseteq below[b]
  <2>1. \A a \in S : a \in Int
    OBVIOUS
  <2>2. below \in [S -> SUBSET S] /\ \A a \in S : a \notin below[a]
    BY <2>1
  <2>3. \A a, b \in S : a = b \/ a \in below[b] \/ b \in below[a]
    BY <2>1
  <2>4. ASSUME NEW a \in S, NEW b \in S, a \in below[b]
        PROVE  below[a] \subseteq below[b]
    <3>1. a < b
      BY <2>4
    <3>2. \A x \in S : x < a => x < b
      BY <2>1, <3>1
    <3>3. QED
      BY <3>2
  <2>5. QED
    BY <2>2, <2>3, <2>4
<1>3. /\ \A a \in S : rank[a] \in 0 .. c - 1
      /\ \A a, b \in S : a < b => rank[a] < rank[b]
      /\ \A k \in 1 .. c : \E a \in S : rank[a] = k - 1
  <2> HIDE DEF below
  <2>1. /\ \A a \in S : Cardinality(below[a]) \in 0 .. Cardinality(S) - 1
        /\ \A a, b \in S :
             a \in below[b] => Cardinality(below[a]) < Cardinality(below[b])
        /\ \A k \in 1 .. Cardinality(S) :
             \E a \in S : Cardinality(below[a]) = k - 1
    BY <1>1, <1>2, PlacesAreTaken
  <2>2. \A a, b \in S : a < b => a \in below[b]
    BY DEF below
  <2>3. QED
    BY <2>1, <2>2
<1>4. ends = [k \in 1 .. c |->
                CHOOSE a \in S : Cardinality({b \in S : b < a}) = k - 1]
  BY DEF InOrder, NumberOrder
<1>5. \A k \in 1 .. c : ends[k] \in S /\ rank[ends[k]] = k - 1
  <2> TAKE k \in 1 .. c
  <2>1. \A a \in S : rank[a] = Cardinality({b \in S : b < a})
    OBVIOUS
  <2>2. \E a \in S : Cardinality({b \in S : b < a}) = k - 1
    BY <1>3, <2>1
  <2>3. ends[k] = CHOOSE a \in S : Cardinality({b \in S : b < a}) = k - 1
    BY <1>4
  <2>4. /\ ends[k] \in S
        /\ Cardinality({b \in S : b < ends[k]}) = k - 1
    <3> HIDE DEF below, rank
    <3>1. QED
      BY <2>2, <2>3
  <2>5. QED
    BY <2>1, <2>4
<1>6. ends \in [1 .. c -> S]
  BY <1>4, <1>5
<1> HIDE DEF below, rank
<1>7. \A i \in 1 .. c - 1 : ends[i] < ends[i + 1]
  <2> TAKE i \in 1 .. c - 1
  <2>1. i \in 1 .. c /\ i + 1 \in 1 .. c /\ (i + 1) - 1 = i
    BY <1>1
  <2>2. /\ ends[i] \in S /\ ends[i + 1] \in S
        /\ rank[ends[i]] = i - 1 /\ rank[ends[i + 1]] = i
    BY <1>5, <2>1
  <2>3. ends[i + 1] < ends[i] => rank[ends[i + 1]] < rank[ends[i]]
    BY <1>3, <2>2
  <2>4. ~ (i < i - 1) /\ i # i - 1
    BY <1>1
  <2>5. ~ (ends[i + 1] < ends[i]) /\ ends[i] # ends[i + 1]
    BY <2>2, <2>3, <2>4, Zenon
  <2>6. \A x, y \in 0 .. n : ~ (y < x) /\ x # y => x < y
    OBVIOUS
  <2>7. ends[i] \in 0 .. n /\ ends[i + 1] \in 0 .. n
    BY <2>2
  <2>8. QED
    BY <2>5, <2>6, <2>7, Zenon
<1>8. ends[c] = n
  <2>1. c \in 1 .. c
    BY <1>1
  <2>2. ends[c] \in S /\ rank[ends[c]] = c - 1
    BY <1>5, <2>1
  <2>3. ends[c] < n => c - 1 < rank[n]
    BY <1>3, <2>2
  <2>4. rank[n] \in 0 .. c - 1
    BY <1>3
  <2>5. ~ (c - 1 < rank[n])
    BY <1>1, <2>4
  <2>6. ~ (ends[c] < n)
    BY <2>3, <2>5, Zenon
  <2>7. \A x \in 0 .. n : ~ (x < n) => x = n
    OBVIOUS
  <2>8. ends[c] \in 0 .. n
    BY <2>2
  <2>9. QED
    BY <2>6, <2>7, <2>8, Zenon
<1>9. QED
  BY <1>1, <1>6, <1>7, <1>8

-----------------------------------------------------------------------------
(* Induction over numbers, as a set of those for which something holds,    *)
(* and what FlattenSeq, defined by recursion, makes of a sequence.         *)

NatLess == {ss \in Nat \X Nat : ss[1] < ss[2]}

LEMMA NatLessWellFounded == IsWellFoundedOn(NatLess, Nat)
  BY NatLessThanWellFounded DEF OpToRel, NatLess

LEMMA NatSetInduction ==
  ASSUME NEW S, 0 \in S, \A n \in Nat : n \in S => n + 1 \in S
  PROVE  Nat \subseteq S
<1> SUFFICES ASSUME Nat \ S # {} PROVE FALSE
  OBVIOUS
<1>1. PICK n \in Nat \ S : \A m \in Nat \ S : ~ (<<m, n>> \in NatLess)
  <2>1. Nat \ S \subseteq Nat
    OBVIOUS
  <2>2. QED
    BY <2>1, NatLessWellFounded, WFMin
<1>2. n # 0 /\ n - 1 \in Nat /\ n - 1 < n
  BY <1>1
<1>3. <<n - 1, n>> \in NatLess
  BY <1>2 DEF NatLess
<1>4. n - 1 \in S
  BY <1>1, <1>2, <1>3
<1>5. QED
  BY <1>1, <1>2, <1>4

(* FlattenSeq is the last of the joins of the first sequences.             *)
IsJoins(f, seqs, n) ==
  f = [i \in 1 .. n |-> IF i = 1 THEN seqs[i] ELSE f[i - 1] \o seqs[i]]

LEMMA JoinsExist ==
  ASSUME NEW seqs, NEW n \in Nat
  PROVE  \E f : IsJoins(f, seqs, n)
<1> DEFINE K == {k \in Nat : \E f : IsJoins(f, seqs, k)}
<1>1. 0 \in K
  <2> DEFINE f == [i \in 1 .. 0 |-> <<>>]
  <2>1. f = [i \in 1 .. 0 |-> IF i = 1 THEN seqs[i] ELSE f[i - 1] \o seqs[i]]
    OBVIOUS
  <2> HIDE DEF f
  <2>2. QED
    BY <2>1 DEF IsJoins
<1>2. ASSUME NEW k \in Nat, k \in K
      PROVE  k + 1 \in K
  <2>1. PICK f : IsJoins(f, seqs, k)
    BY <1>2
  <2> DEFINE g == [i \in 1 .. k + 1 |->
                    IF i \in 1 .. k THEN f[i]
                    ELSE IF i = 1 THEN seqs[i] ELSE f[i - 1] \o seqs[i]]
  <2>2. \A i \in 1 .. k :
          f[i] = IF i = 1 THEN seqs[i] ELSE f[i - 1] \o seqs[i]
    BY <2>1 DEF IsJoins
  <2>3. \A i \in 1 .. k + 1 :
          g[i] = IF i = 1 THEN seqs[i] ELSE g[i - 1] \o seqs[i]
    <3> TAKE i \in 1 .. k + 1
    <3>1. i # 1 => i - 1 \in 1 .. k
      OBVIOUS
    <3>2. i # 1 => g[i - 1] = f[i - 1]
      BY <3>1
    <3>3. g[i] = IF i = 1 THEN seqs[i] ELSE f[i - 1] \o seqs[i]
      BY <2>2
    <3>4. QED
      BY <3>2, <3>3
  <2>4. g = [i \in DOMAIN g |-> g[i]] /\ DOMAIN g = 1 .. k + 1
    OBVIOUS
  <2> HIDE DEF g
  <2>5. g = [i \in 1 .. k + 1 |-> IF i = 1 THEN seqs[i] ELSE g[i - 1] \o seqs[i]]
    BY <2>3, <2>4
  <2>6. IsJoins(g, seqs, k + 1)
    BY <2>5 DEF IsJoins
  <2>7. QED
    BY <2>6
<1>3. Nat \subseteq K
  <2> HIDE DEF K
  <2>1. QED
    BY <1>1, <1>2, NatSetInduction
<1>4. QED
  BY <1>3

(* Joins are determined by the sequences that are joined.                  *)
LEMMA JoinsAgree ==
  \A s, t, f, g : \A m, n \in Nat :
    IsJoins(f, s, m) /\ IsJoins(g, t, n) /\ m <= n
      /\ (\A i \in 1 .. m : s[i] = t[i])
    => \A i \in 1 .. m : f[i] = g[i]
<1> SUFFICES ASSUME NEW s, NEW t, NEW f, NEW g, NEW m \in Nat, NEW n \in Nat,
                    IsJoins(f, s, m), IsJoins(g, t, n), m <= n,
                    \A i \in 1 .. m : s[i] = t[i]
             PROVE  \A i \in 1 .. m : f[i] = g[i]
  OBVIOUS
<1> DEFINE K == {k \in Nat : k \in 1 .. m => f[k] = g[k]}
<1>1. \A k \in 1 .. m :
        /\ f[k] = IF k = 1 THEN s[k] ELSE f[k - 1] \o s[k]
        /\ g[k] = IF k = 1 THEN t[k] ELSE g[k - 1] \o t[k]
  <2>1. \A k \in 1 .. m : f[k] = IF k = 1 THEN s[k] ELSE f[k - 1] \o s[k]
    BY DEF IsJoins
  <2>2. \A k \in 1 .. n : g[k] = IF k = 1 THEN t[k] ELSE g[k - 1] \o t[k]
    BY DEF IsJoins
  <2>3. 1 .. m \subseteq 1 .. n
    OBVIOUS
  <2>4. QED
    BY <2>1, <2>2, <2>3
<1>2. 0 \in K
  OBVIOUS
<1>3. ASSUME NEW k \in Nat, k \in K
      PROVE  k + 1 \in K
  <2> SUFFICES ASSUME k + 1 \in 1 .. m PROVE f[k + 1] = g[k + 1]
    OBVIOUS
  <2>1. CASE k = 0
    BY <1>1, <2>1
  <2>2. CASE k # 0
    <3>1. k \in 1 .. m /\ k + 1 # 1 /\ (k + 1) - 1 = k
      BY <2>2
    <3>2. f[k] = g[k] /\ s[k + 1] = t[k + 1]
      BY <1>3, <3>1
    <3>3. QED
      BY <1>1, <3>1, <3>2
  <2>3. QED
    BY <2>1, <2>2
<1>4. Nat \subseteq K
  <2> HIDE DEF K
  <2>1. QED
    BY <1>2, <1>3, NatSetInduction
<1>5. QED
  BY <1>4

LEMMA FlattenIsJoin ==
  ASSUME NEW seqs, Len(seqs) \in Nat, Len(seqs) # 0
  PROVE  \E f : IsJoins(f, seqs, Len(seqs)) /\ FlattenSeq(seqs) = f[Len(seqs)]
<1> DEFINE f == CHOOSE g : g = [i \in 1 .. Len(seqs) |->
                   IF i = 1 THEN seqs[i] ELSE g[i - 1] \o seqs[i]]
<1>1. f = [i \in 1 .. Len(seqs) |->
             IF i = 1 THEN seqs[i] ELSE f[i - 1] \o seqs[i]]
  <2>1. \E g : g = [i \in 1 .. Len(seqs) |->
                      IF i = 1 THEN seqs[i] ELSE g[i - 1] \o seqs[i]]
    BY JoinsExist DEF IsJoins
  <2>2. QED
    BY <2>1
<1>2. FlattenSeq(seqs) = f[Len(seqs)]
  BY DEF FlattenSeq
<1>3. QED
  <2> HIDE DEF f
  <2>1. QED
    BY <1>1, <1>2 DEF IsJoins

(* Flattening one sequence more joins it to the rest.                      *)
LEMMA FlattenAppend ==
  ASSUME NEW S, NEW seqs \in Seq(Seq(S)), NEW last \in Seq(S)
  PROVE  FlattenSeq(Append(seqs, last)) = FlattenSeq(seqs) \o last
<1> DEFINE n == Len(seqs)
           all == Append(seqs, last)
<1>1. /\ n \in Nat /\ Len(all) = n + 1 /\ all[n + 1] = last
      /\ \A i \in 1 .. n : all[i] = seqs[i]
  BY LenProperties, AppendProperties
<1>2. CASE n = 0
  <2>1. seqs = <<>> /\ FlattenSeq(seqs) = <<>>
    BY <1>2, EmptySeq DEF FlattenSeq
  <2>2. PICK f : IsJoins(f, all, 1) /\ FlattenSeq(all) = f[1]
    BY <1>1, <1>2, FlattenIsJoin
  <2>3. FlattenSeq(all) = last
    BY <1>1, <1>2, <2>2 DEF IsJoins
  <2>4. QED
    BY <2>1, <2>3, ConcatEmptySeq
<1>3. CASE n # 0
  <2> HIDE DEF n, all
  <2>1. PICK f : IsJoins(f, seqs, n) /\ FlattenSeq(seqs) = f[n]
    BY <1>1, <1>3, FlattenIsJoin DEF n
  <2>2. PICK g : IsJoins(g, all, n + 1) /\ FlattenSeq(all) = g[n + 1]
    <3>1. Len(all) \in Nat /\ Len(all) # 0
      BY <1>1
    <3>2. \E g : IsJoins(g, all, Len(all)) /\ FlattenSeq(all) = g[Len(all)]
      BY <3>1, FlattenIsJoin
    <3>3. QED
      BY <1>1, <3>2
  <2>3. f[n] = g[n]
    <3>1. n \in Nat /\ n + 1 \in Nat /\ n <= n + 1
      BY <1>1
    <3>2. \A i \in 1 .. n : seqs[i] = all[i]
      BY <1>1
    <3>3. \A i \in 1 .. n : f[i] = g[i]
      BY <2>1, <2>2, <3>1, <3>2, JoinsAgree
    <3>4. QED
      BY <1>1, <1>3, <3>3
  <2>4. g[n + 1] = g[n] \o all[n + 1]
    <3>1. \A i \in 1 .. n + 1 :
            g[i] = IF i = 1 THEN all[i] ELSE g[i - 1] \o all[i]
      BY <2>2 DEF IsJoins
    <3>2. n + 1 \in 1 .. n + 1 /\ n + 1 # 1 /\ (n + 1) - 1 = n
      BY <1>1, <1>3
    <3>3. QED
      BY <3>1, <3>2
  <2>5. FlattenSeq(all) = FlattenSeq(seqs) \o last
    BY <1>1, <2>1, <2>2, <2>3, <2>4
  <2>6. QED
    BY <2>5 DEF all
<1>4. QED
  BY <1>2, <1>3

-----------------------------------------------------------------------------
(* The slots of the frames from one place to another, which is the data of *)
(* a chunk: the first of them comes before the others.                     *)

SlotsFrom(order, first, last) ==
  FlattenSeq([k \in 1 .. last - first + 1 |-> Slot(order, first + k - 1)])

SlotsIn(S, order, first, last) ==
  \A k \in first .. last : Slot(order, k) \in Seq(S)

LEMMA SlotsAppend ==
  ASSUME NEW S, NEW order, NEW first \in Nat, NEW next \in Nat \ {0},
         first <= next, SlotsIn(S, order, first, next)
  PROVE  SlotsFrom(order, first, next)
           = SlotsFrom(order, first, next - 1) \o Slot(order, next)
<1> DEFINE m == (next - 1) - first + 1
           slots == [k \in 1 .. m |-> Slot(order, first + k - 1)]
           all == [k \in 1 .. m + 1 |-> Slot(order, first + k - 1)]
<1>1. m \in Nat /\ next - first + 1 = m + 1 /\ first + (m + 1) - 1 = next
  OBVIOUS
<1>2. \A k \in 1 .. m + 1 : first + k - 1 \in first .. next
  OBVIOUS
<1>3. slots \in Seq(Seq(S)) /\ Slot(order, next) \in Seq(S)
  <2>0. \A k \in first .. next : Slot(order, k) \in Seq(S)
    BY DEF SlotsIn
  <2>1. \A k \in 1 .. m : Slot(order, first + k - 1) \in Seq(S)
    BY <1>1, <1>2, <2>0
  <2>2. next \in first .. next
    OBVIOUS
  <2>3. QED
    BY <1>1, <2>1, <2>2, <2>0, IsASeq
<1>4. Append(slots, Slot(order, next)) = all
  <2>1. Len(slots) = m
    BY <1>1
  <2>2. Append(slots, Slot(order, next))
          = [k \in 1 .. m + 1 |-> IF k \in 1 .. m THEN slots[k]
                                  ELSE Slot(order, next)]
    BY <1>1, <1>3, <2>1 DEF Append
  <2>3. \A k \in 1 .. m + 1 : k \notin 1 .. m => first + k - 1 = next
    BY <1>1
  <2>4. QED
    BY <2>2, <2>3
<1>5. FlattenSeq(all) = FlattenSeq(slots) \o Slot(order, next)
  <2> HIDE DEF slots, all
  <2>1. QED
    BY <1>3, <1>4, FlattenAppend
<1>6. SlotsFrom(order, first, next - 1) = FlattenSeq(slots)
  BY DEF SlotsFrom
<1>7. SlotsFrom(order, first, next) = FlattenSeq(all)
  BY <1>1 DEF SlotsFrom
<1>8. QED
  BY <1>5, <1>6, <1>7

LEMMA NoSlots ==
  ASSUME NEW order, NEW first \in Nat \ {0}
  PROVE  SlotsFrom(order, first, first - 1) = <<>>
<1>1. (first - 1) - first + 1 = 0
  OBVIOUS
<1> DEFINE slots == [k \in 1 .. 0 |-> Slot(order, first + k - 1)]
<1>2. slots = <<>>
  OBVIOUS
<1>3. SlotsFrom(order, first, first - 1) = FlattenSeq(slots)
  BY <1>1 DEF SlotsFrom
<1>4. FlattenSeq(<<>>) = <<>>
  BY DEF FlattenSeq
<1>5. QED
  BY <1>2, <1>3, <1>4

LEMMA SlotsUnfold ==
  ASSUME NEW S, NEW order, NEW first \in Nat \ {0}, NEW last \in Nat,
         first <= last, SlotsIn(S, order, first, last)
  PROVE  /\ SlotsFrom(order, first, last)
              = Slot(order, first) \o SlotsFrom(order, first + 1, last)
         /\ SlotsFrom(order, first + 1, last) \in Seq(S)
<1> DEFINE Unfolds(d) ==
             /\ SlotsFrom(order, first, first + d)
                  = Slot(order, first) \o SlotsFrom(order, first + 1, first + d)
             /\ SlotsFrom(order, first + 1, first + d) \in Seq(S)
           K == {d \in Nat : first + d <= last => Unfolds(d)}
<1>1. 0 \in K
  <2>1. SlotsFrom(order, first + 1, first) = <<>>
    <3>1. first + 1 \in Nat \ {0} /\ (first + 1) - 1 = first
      OBVIOUS
    <3>2. QED
      BY <3>1, NoSlots
  <2>2. SlotsFrom(order, first, first)
          = SlotsFrom(order, first, first - 1) \o Slot(order, first)
    <3>1. SlotsIn(S, order, first, first) /\ first \in Nat /\ first <= first
      BY DEF SlotsIn
    <3>2. QED
      BY <3>1, SlotsAppend
  <2>3. SlotsFrom(order, first, first - 1) = <<>>
    BY NoSlots
  <2>4. Slot(order, first) \in Seq(S) /\ first + 0 = first
    BY DEF SlotsIn
  <2>5. <<>> \o Slot(order, first) = Slot(order, first) \o <<>>
    BY <2>4, ConcatEmptySeq
  <2>6. <<>> \in Seq(S)
    OBVIOUS
  <2>7. QED
    BY <2>1, <2>2, <2>3, <2>4, <2>5, <2>6
<1>2. ASSUME NEW d \in Nat, d \in K
      PROVE  d + 1 \in K
  <2> SUFFICES ASSUME first + (d + 1) <= last
               PROVE  Unfolds(d + 1)
    OBVIOUS
  <2> DEFINE e == first + d
             l == first + (d + 1)
             g == first + 1
  <2>0. l - 1 = e
    OBVIOUS
  <2>1. l \in Nat \ {0} /\ first <= l /\ g <= l /\ first \in Nat /\ g \in Nat
    OBVIOUS
  <2>2. SlotsIn(S, order, first, l) /\ SlotsIn(S, order, g, l)
    BY DEF SlotsIn
  <2>3. Unfolds(d)
    BY <1>2
  <2>4. Slot(order, first) \in Seq(S) /\ Slot(order, l) \in Seq(S)
    BY DEF SlotsIn
  <2>5. /\ SlotsFrom(order, first, e) = Slot(order, first) \o SlotsFrom(order, g, e)
        /\ SlotsFrom(order, g, e) \in Seq(S)
    BY <2>3
  <2> HIDE DEF e, l, g
  <2>a. /\ SlotsFrom(order, first, l)
             = SlotsFrom(order, first, l - 1) \o Slot(order, l)
        /\ SlotsFrom(order, g, l) = SlotsFrom(order, g, l - 1) \o Slot(order, l)
    BY <2>1, <2>2, SlotsAppend
  <2>6. SlotsFrom(order, first, l) = SlotsFrom(order, first, e) \o Slot(order, l)
    BY <2>0, <2>a, Zenon
  <2>7. SlotsFrom(order, g, l) = SlotsFrom(order, g, e) \o Slot(order, l)
    BY <2>0, <2>a, Zenon
  <2>8. SlotsFrom(order, g, l) \in Seq(S)
    BY <2>4, <2>5, <2>7, ConcatProperties
  <2>9. SlotsFrom(order, first, l) = Slot(order, first) \o SlotsFrom(order, g, l)
    <3>1. (Slot(order, first) \o SlotsFrom(order, g, e)) \o Slot(order, l)
            = Slot(order, first) \o (SlotsFrom(order, g, e) \o Slot(order, l))
      BY <2>4, <2>5, ConcatAssociative
    <3>2. QED
      BY <2>5, <2>6, <2>7, <3>1, Zenon
  <2>10. QED
    BY <2>8, <2>9 DEF l, g
<1>3. Nat \subseteq K
  <2> HIDE DEF K
  <2>1. QED
    BY <1>1, <1>2, NatSetInduction
<1>4. last - first \in Nat /\ first + (last - first) = last
  OBVIOUS
<1>5. Unfolds(last - first)
  <2>1. last - first \in K
    BY <1>3, <1>4
  <2>2. \A d \in K : first + d <= last => Unfolds(d)
    OBVIOUS
  <2> HIDE DEF Unfolds, K
  <2>3. QED
    BY <1>4, <2>1, <2>2
<1>6. QED
  BY <1>4, <1>5

LEMMA SlotsType ==
  ASSUME NEW S, NEW order, NEW first \in Nat \ {0}, NEW last \in Nat,
         first <= last + 1, SlotsIn(S, order, first, last)
  PROVE  SlotsFrom(order, first, last) \in Seq(S)
<1>1. CASE first <= last
  <2>1. first \in first .. last
    BY <1>1
  <2>2. Slot(order, first) \in Seq(S)
    BY <2>1 DEF SlotsIn
  <2>3. QED
    BY <1>1, <2>2, SlotsUnfold, ConcatProperties
<1>2. CASE first = last + 1
  <2>1. first - 1 = last
    BY <1>2
  <2>2. <<>> \in Seq(S)
    OBVIOUS
  <2>3. QED
    BY <2>1, <2>2, NoSlots
<1>3. QED
  BY <1>1, <1>2

-----------------------------------------------------------------------------
(* The chunks: one after another, from the first frame to the last.        *)
AreChunks(chunks, c, n) ==
  /\ c \in Nat \ {0} /\ Len(chunks) = c /\ DOMAIN chunks = 1 .. c
  /\ \A i \in 1 .. c :
       /\ chunks[i][1] \in 1 .. n + 1 /\ chunks[i][2] \in 0 .. n
       /\ chunks[i][1] <= chunks[i][2] + 1
  /\ chunks[1][1] = 1
  /\ \A i \in 1 .. c - 1 :
       chunks[i + 1][1] = chunks[i][2] + 1 /\ chunks[i][2] < n

LEMMA ChunksAreChunks ==
  ASSUME NEW n \in Nat, NEW order, Len(order) = n,
         NEW cuts \in SUBSET (1 .. n - 1)
  PROVE  AreChunks(Chunks(order, cuts), Cardinality(cuts) + 1, n)
<1> DEFINE S == cuts \cup {n}
           ends == NumberOrder(S)
           c == Cardinality(cuts) + 1
           chunks == [i \in DOMAIN ends |->
                        <<IF i = 1 THEN 1 ELSE ends[i - 1] + 1, ends[i]>>]
<1>1. Chunks(order, cuts) = chunks
  BY DEF Chunks, NumberOrder
<1>2. Cardinality(S) = c
  <2>1. IsFiniteSet(1 .. n - 1)
    BY FS_Interval
  <2>2. IsFiniteSet(cuts)
    BY <2>1, FS_Subset
  <2>3. n \notin cuts
    OBVIOUS
  <2>4. QED
    BY <2>2, <2>3, FS_AddElement
<1>3. S \in SUBSET (0 .. n) /\ n \in S
  OBVIOUS
<1> HIDE DEF S
<1>4. /\ c \in Nat \ {0} /\ ends \in [1 .. c -> S]
      /\ \A i \in 1 .. c - 1 : ends[i] < ends[i + 1]
  BY <1>2, <1>3, NumbersInOrder
<1> HIDE DEF ends, c
<1>5. \A i \in 1 .. c : ends[i] \in 0 .. n
  BY <1>3, <1>4 DEF S
<1>6. chunks \in [1 .. c -> (1 .. n + 1) \X (0 .. n)] /\ Len(chunks) = c
  <2>1. ASSUME NEW i \in 1 .. c
        PROVE  (IF i = 1 THEN 1 ELSE ends[i - 1] + 1) \in 1 .. n + 1
    <3>1. CASE i = 1
      BY <3>1
    <3>2. CASE i # 1
      <4>1. i - 1 \in 1 .. c
        BY <1>4, <3>2
      <4>2. QED
        BY <1>5, <3>2, <4>1
    <3>3. QED
      BY <3>1, <3>2
  <2>2. QED
    BY <1>4, <1>5, <2>1
<1>7. ASSUME NEW i \in 1 .. c
      PROVE  chunks[i][1] <= chunks[i][2] + 1
  <2>1. CASE i = 1
    BY <1>4, <1>5, <2>1
  <2>2. CASE i # 1
    <3>1. i - 1 \in 1 .. c - 1 /\ i - 1 \in 1 .. c /\ (i - 1) + 1 = i
      BY <1>4, <2>2
    <3>2. ends[i - 1] < ends[i]
      BY <1>4, <3>1
    <3>3. chunks[i][1] = ends[i - 1] + 1 /\ chunks[i][2] = ends[i]
      BY <1>4, <2>2
    <3>4. ends[i - 1] \in Int /\ ends[i] \in Int
      BY <1>5, <3>1
    <3>5. \A x, y \in Int : x < y => x + 1 <= y + 1
      OBVIOUS
    <3>6. QED
      BY <3>2, <3>3, <3>4, <3>5, Zenon
  <2>3. QED
    BY <2>1, <2>2
<1>8. ASSUME NEW i \in 1 .. c - 1
      PROVE  chunks[i + 1][1] = chunks[i][2] + 1 /\ chunks[i][2] < n
  <2>1. i \in 1 .. c /\ i + 1 \in 1 .. c /\ i + 1 # 1 /\ (i + 1) - 1 = i
    BY <1>4
  <2>2. chunks[i + 1][1] = ends[i] + 1 /\ chunks[i][2] = ends[i]
    BY <1>4, <2>1
  <2>3. ends[i] < ends[i + 1] /\ ends[i] \in 0 .. n /\ ends[i + 1] \in 0 .. n
    BY <1>4, <1>5, <2>1
  <2>4. \A x, y \in 0 .. n : x < y => x < n
    OBVIOUS
  <2>5. QED
    BY <2>2, <2>3, <2>4, Zenon
<1>9. chunks[1][1] = 1 /\ DOMAIN chunks = 1 .. c
  BY <1>4
<1>10. AreChunks(chunks, c, n)
  <2> HIDE DEF chunks
  <2>1. \A i \in 1 .. c : chunks[i][1] \in 1 .. n + 1 /\ chunks[i][2] \in 0 .. n
    BY <1>6
  <2>2. QED
    BY <1>4, <1>6, <1>7, <1>8, <1>9, <2>1 DEF AreChunks
<1>11. QED
  BY <1>1, <1>10 DEF c

-----------------------------------------------------------------------------
LEMMA JoinOne ==
  \A x, y : <<>> \o <<y>> = <<y>> /\ <<x>> \o <<y>> = <<x, y>>
<1> TAKE x, y
<1> DEFINE S == {x, y}
           z == <<x>> \o <<y>>
<1>1. /\ <<x>> \in Seq(S) /\ <<y>> \in Seq(S)
      /\ Len(<<x>>) = 1 /\ Len(<<y>>) = 1 /\ <<x>>[1] = x /\ <<y>>[1] = y
  OBVIOUS
<1>2. <<>> \o <<y>> = <<y>>
  BY <1>1, ConcatEmptySeq
<1>3. /\ z \in Seq(S) /\ Len(z) = 1 + 1
      /\ \A i \in 1 .. 1 + 1 : z[i] = IF i <= 1 THEN <<x>>[i] ELSE <<y>>[i - 1]
  BY <1>1, ConcatProperties
<1>4. z[1] = x /\ z[2] = y /\ Len(z) = 2
  BY <1>1, <1>3
<1> HIDE DEF z
<1>5. z = <<x, y>>
  BY <1>3, <1>4
<1>6. QED
  BY <1>2, <1>5 DEF z

(* A sequence, and then pairs: the one after another.                      *)
ThenPairs(m, h, f, g) ==
  [i \in 1 .. m |-> IF i = 1 THEN h ELSE <<f[i], g[i]>>]

ArePairs(S, m, h, f, g, s) ==
  /\ s \in Seq(S) /\ Len(s) = Len(h) + 2 * (m - 1)
  /\ \A j \in 1 .. Len(h) : s[j] = h[j]
  /\ \A i \in 2 .. m : /\ s[Len(h) + 2 * i - 3] = f[i]
                       /\ s[Len(h) + 2 * i - 2] = g[i]

LEMMA PairsInOrder ==
  ASSUME NEW S, NEW m \in Nat \ {0}, NEW h \in Seq(S),
         NEW f \in [1 .. m -> S], NEW g \in [1 .. m -> S]
  PROVE  ArePairs(S, m, h, f, g, FlattenSeq(ThenPairs(m, h, f, g)))
<1> DEFINE seqs(n) == [i \in 1 .. n |-> IF i = 1 THEN h ELSE <<f[i], g[i]>>]
           Holds(n, t) ==
             /\ t \in Seq(S) /\ Len(t) = Len(h) + 2 * (n - 1)
             /\ \A j \in 1 .. Len(h) : t[j] = h[j]
             /\ \A i \in 2 .. n : /\ t[Len(h) + 2 * i - 3] = f[i]
                                  /\ t[Len(h) + 2 * i - 2] = g[i]
           K == {d \in Nat : d + 1 <= m => Holds(d + 1, FlattenSeq(seqs(d + 1)))}
<1>0. Len(h) \in Nat
  BY LenProperties
<1>1. \A n \in 1 .. m : seqs(n) \in Seq(Seq(S))
  <2> TAKE n \in 1 .. m
  <2>1. \A i \in 1 .. n : (IF i = 1 THEN h ELSE <<f[i], g[i]>>) \in Seq(S)
    <3> TAKE i \in 1 .. n
    <3>1. f[i] \in S /\ g[i] \in S
      OBVIOUS
    <3>2. QED
      BY <3>1
  <2>2. QED
    BY <2>1, IsASeq
<1>2. \A n \in 1 .. m - 1 :
        seqs(n + 1) = Append(seqs(n), <<f[n + 1], g[n + 1]>>)
  <2> TAKE n \in 1 .. m - 1
  <2>1. Len(seqs(n)) = n /\ n + 1 # 1
    OBVIOUS
  <2>2. Append(seqs(n), <<f[n + 1], g[n + 1]>>)
          = [k \in 1 .. n + 1 |-> IF k \in 1 .. n THEN seqs(n)[k]
                                  ELSE <<f[n + 1], g[n + 1]>>]
    BY <2>1 DEF Append
  <2>3. \A k \in 1 .. n + 1 : k \notin 1 .. n => k = n + 1
    OBVIOUS
  <2>4. QED
    BY <2>1, <2>2, <2>3
<1>3. seqs(1) = Append(<<>>, h)
  <2>1. Append(<<>>, h) = [k \in 1 .. 1 |-> h]
    BY DEF Append
  <2>2. \A k \in 1 .. 1 : k = 1
    OBVIOUS
  <2>3. QED
    BY <2>1, <2>2
<1> HIDE DEF seqs
<1>4. 0 \in K
  <2>1. FlattenSeq(seqs(1)) = FlattenSeq(<<>>) \o h
    <3>1. <<>> \in Seq(Seq(S))
      OBVIOUS
    <3>2. QED
      BY <1>3, <3>1, FlattenAppend
  <2>2. FlattenSeq(<<>>) = <<>>
    BY DEF FlattenSeq
  <2>3. FlattenSeq(seqs(1)) = h
    BY <2>1, <2>2, ConcatEmptySeq
  <2>4. Holds(1, h)
    BY <1>0
  <2>5. QED
    BY <2>3, <2>4
<1>5. ASSUME NEW d \in Nat, d \in K
      PROVE  d + 1 \in K
  <2> SUFFICES ASSUME (d + 1) + 1 <= m
               PROVE  Holds((d + 1) + 1, FlattenSeq(seqs((d + 1) + 1)))
    OBVIOUS
  <2> DEFINE n == d + 1
             t == FlattenSeq(seqs(n))
             pair == <<f[n + 1], g[n + 1]>>
  <2>1. n \in 1 .. m - 1 /\ n \in 1 .. m /\ n + 1 \in 1 .. m /\ n \in Nat /\ n >= 1
    OBVIOUS
  <2>2. Holds(n, t)
    BY <1>5, <2>1
  <2> HIDE DEF n
  <2>3. pair \in Seq(S) /\ Len(pair) = 2 /\ pair[1] = f[n + 1] /\ pair[2] = g[n + 1]
    BY <2>1
  <2>4. FlattenSeq(seqs(n + 1)) = t \o pair
    <3> HIDE DEF pair
    <3>1. seqs(n + 1) = Append(seqs(n), pair)
      BY <1>2, <2>1 DEF pair
    <3>2. QED
      BY <1>1, <2>1, <2>3, <3>1, FlattenAppend
  <2> HIDE DEF t, pair
  <2>5. /\ t \o pair \in Seq(S) /\ Len(t \o pair) = Len(t) + 2
        /\ \A i \in 1 .. Len(t) + 2 :
             (t \o pair)[i] = IF i <= Len(t) THEN t[i] ELSE pair[i - Len(t)]
    <3>1. t \in Seq(S) /\ pair \in Seq(S) /\ Len(pair) = 2
      BY <2>2, <2>3
    <3> HIDE DEF Holds
    <3>2. /\ t \o pair \in Seq(S) /\ Len(t \o pair) = Len(t) + Len(pair)
          /\ \A i \in 1 .. Len(t) + Len(pair) :
               (t \o pair)[i] = IF i <= Len(t) THEN t[i] ELSE pair[i - Len(t)]
      BY <3>1, ConcatProperties
    <3>3. QED
      BY <3>1, <3>2
  <2>6. Len(t) = Len(h) + 2 * (n - 1) /\ Len(t) \in Nat
    BY <1>0, <2>1, <2>2
  <2>7. \A j \in 1 .. Len(h) : (t \o pair)[j] = h[j]
    <3> TAKE j \in 1 .. Len(h)
    <3>1. j \in 1 .. Len(t) + 2 /\ j <= Len(t)
      BY <1>0, <2>1, <2>6
    <3>2. QED
      BY <2>2, <2>5, <3>1
  <2>8. ASSUME NEW i \in 2 .. n + 1
        PROVE  /\ (t \o pair)[Len(h) + 2 * i - 3] = f[i]
               /\ (t \o pair)[Len(h) + 2 * i - 2] = g[i]
    <3>1. CASE i = n + 1
      <4>1. /\ Len(h) + 2 * i - 3 = Len(t) + 1 /\ Len(h) + 2 * i - 2 = Len(t) + 2
        BY <1>0, <2>1, <2>6, <3>1
      <4>2. /\ (t \o pair)[Len(t) + 1] = pair[1]
            /\ (t \o pair)[Len(t) + 2] = pair[2]
        BY <2>5, <2>6
      <4>3. QED
        BY <2>3, <3>1, <4>1, <4>2
    <3>2. CASE i # n + 1
      <4>1. i \in 2 .. n
        BY <2>1, <3>2
      <4>2. /\ Len(h) + 2 * i - 3 \in 1 .. Len(t)
            /\ Len(h) + 2 * i - 2 \in 1 .. Len(t)
        BY <1>0, <2>1, <2>6, <4>1
      <4>3. \A k \in 1 .. Len(t) : (t \o pair)[k] = t[k]
        BY <2>5, <2>6
      <4>4. QED
        BY <2>2, <4>1, <4>2, <4>3
    <3>3. QED
      BY <3>1, <3>2
  <2>9. Len(t \o pair) = Len(h) + 2 * ((n + 1) - 1)
    BY <1>0, <2>1, <2>5, <2>6
  <2>10. Holds(n + 1, FlattenSeq(seqs(n + 1)))
    BY <2>4, <2>5, <2>7, <2>8, <2>9
  <2>11. QED
    BY <2>10 DEF n
<1>6. Nat \subseteq K
  <2> HIDE DEF K
  <2>1. QED
    BY <1>4, <1>5, NatSetInduction
<1>7. m - 1 \in K /\ (m - 1) + 1 = m
  <2>1. m - 1 \in Nat /\ (m - 1) + 1 = m
    OBVIOUS
  <2> HIDE DEF K
  <2>2. QED
    BY <1>6, <2>1
<1>8. Holds(m, FlattenSeq(seqs(m)))
  <2>1. \A d \in K : d + 1 <= m => Holds(d + 1, FlattenSeq(seqs(d + 1)))
    OBVIOUS
  <2> HIDE DEF K, Holds
  <2>2. QED
    BY <1>7, <2>1
<1>9. seqs(m) = ThenPairs(m, h, f, g)
  BY DEF seqs, ThenPairs
<1>10. QED
  BY <1>8, <1>9 DEF ArePairs

(* The same after a beginning, as the streams are built.                   *)
IsStream(S, m, a, h, f, g, s) ==
  /\ s \in Seq(S) /\ Len(s) = Len(a) + Len(h) + 2 * (m - 1)
  /\ \A j \in 1 .. Len(a) : s[j] = a[j]
  /\ \A j \in 1 .. Len(h) : s[Len(a) + j] = h[j]
  /\ \A i \in 2 .. m : /\ s[Len(a) + Len(h) + 2 * i - 3] = f[i]
                       /\ s[Len(a) + Len(h) + 2 * i - 2] = g[i]

LEMMA StreamInOrder ==
  ASSUME NEW S, NEW m \in Nat \ {0}, NEW a \in Seq(S), NEW h \in Seq(S),
         NEW f \in [1 .. m -> S], NEW g \in [1 .. m -> S]
  PROVE  IsStream(S, m, a, h, f, g, a \o FlattenSeq(ThenPairs(m, h, f, g)))
<1> DEFINE t == FlattenSeq(ThenPairs(m, h, f, g))
           s == a \o t
<1>2. s = a \o t
  OBVIOUS
<1>b. ArePairs(S, m, h, f, g, t)
  BY PairsInOrder
<1> HIDE DEF t, s
<1>1. /\ t \in Seq(S) /\ Len(t) = Len(h) + 2 * (m - 1)
      /\ \A j \in 1 .. Len(h) : t[j] = h[j]
      /\ \A i \in 2 .. m : /\ t[Len(h) + 2 * i - 3] = f[i]
                           /\ t[Len(h) + 2 * i - 2] = g[i]
  BY <1>b DEF ArePairs
<1>3. Len(a) \in Nat /\ Len(h) \in Nat /\ Len(t) \in Nat
  BY <1>1, LenProperties
<1>4. /\ a \o t \in Seq(S) /\ Len(a \o t) = Len(a) + Len(t)
      /\ \A i \in 1 .. Len(a) + Len(t) :
           (a \o t)[i] = IF i <= Len(a) THEN a[i] ELSE t[i - Len(a)]
  BY <1>1, ConcatProperties
<1>5. \A j \in 1 .. Len(t) : s[Len(a) + j] = t[j]
  <2> TAKE j \in 1 .. Len(t)
  <2>1. /\ Len(a) + j \in 1 .. Len(a) + Len(t) /\ ~ (Len(a) + j <= Len(a))
        /\ (Len(a) + j) - Len(a) = j
    BY <1>3
  <2>2. QED
    BY <1>2, <1>4, <2>1
<1>6. \A j \in 1 .. Len(a) : s[j] = a[j]
  <2> TAKE j \in 1 .. Len(a)
  <2>1. j \in 1 .. Len(a) + Len(t) /\ j <= Len(a)
    BY <1>3
  <2>2. QED
    BY <1>2, <1>4, <2>1
<1>7. \A j \in 1 .. Len(h) : s[Len(a) + j] = h[j]
  <2> TAKE j \in 1 .. Len(h)
  <2>1. j \in 1 .. Len(t)
    BY <1>1, <1>3
  <2>2. QED
    BY <1>1, <1>5, <2>1
<1>8. ASSUME NEW i \in 2 .. m
      PROVE  /\ s[Len(a) + Len(h) + 2 * i - 3] = f[i]
             /\ s[Len(a) + Len(h) + 2 * i - 2] = g[i]
  <2> DEFINE j == Len(h) + 2 * i - 3
             k == Len(h) + 2 * i - 2
  <2>1. /\ j \in 1 .. Len(t) /\ k \in 1 .. Len(t)
        /\ Len(a) + Len(h) + 2 * i - 3 = Len(a) + j
        /\ Len(a) + Len(h) + 2 * i - 2 = Len(a) + k
    BY <1>1, <1>3
  <2>2. t[j] = f[i] /\ t[k] = g[i]
    BY <1>1
  <2> HIDE DEF j, k
  <2>3. QED
    BY <1>5, <2>1, <2>2
<1>9. Len(s) = Len(a) + Len(h) + 2 * (m - 1)
  BY <1>1, <1>2, <1>3, <1>4
<1>10. IsStream(S, m, a, h, f, g, s)
  BY <1>2, <1>4, <1>6, <1>7, <1>8, <1>9 DEF IsStream
<1>11. QED
  BY <1>10 DEF s, t

(* What is left of a sequence of which some has been handled.              *)
LEMMA RestIs ==
  \A s : \A m, l \in Nat :
    SubSeq(s, m + 1, l) = [i \in 1 .. l - m |-> s[m + i]]
<1> TAKE s
<1> TAKE m, l \in Nat
<1>1. /\ l - (m + 1) + 1 = l - m
      /\ \A i \in 1 .. l - m : (m + 1) + i - 1 = m + i
  OBVIOUS
<1>2. QED
  BY <1>1 DEF SubSeq

LEMMA RestUnfolds ==
  ASSUME NEW S, NEW s \in Seq(S), NEW m \in 0 .. Len(s),
         NEW rest, rest = SubSeq(s, m + 1, Len(s))
  PROVE  /\ m = Len(s) => rest = <<>>
         /\ m # Len(s) =>
              /\ rest # <<>> /\ m + 1 \in 1 .. Len(s)
              /\ Head(rest) = s[m + 1]
              /\ Tail(rest) = SubSeq(s, (m + 1) + 1, Len(s))
<1>1. Len(s) \in Nat
  BY LenProperties
<1>2. /\ rest \in Seq(S) /\ Len(rest) = Len(s) - m
      /\ \A i \in 1 .. Len(s) - m : rest[i] = s[m + i]
  <2>1. /\ m + 1 \in 1 .. Len(s) + 1 /\ Len(s) \in m .. Len(s)
        /\ Len(s) - (m + 1) + 1 = Len(s) - m
        /\ \A i \in 1 .. Len(s) - m : (m + 1) + i - 1 = m + i
    BY <1>1
  <2>2. rest = [i \in 1 .. Len(s) - m |-> s[m + i]]
    BY <1>1, <2>1 DEF SubSeq
  <2>3. Len(s) - m \in Nat /\ \A i \in 1 .. Len(s) - m : m + i \in 1 .. Len(s)
    BY <1>1
  <2>4. \A i \in 1 .. Len(s) - m : s[m + i] \in S
    BY <2>3
  <2>5. QED
    BY <2>2, <2>3, <2>4
<1>3. CASE m = Len(s)
  BY <1>1, <1>2, <1>3, EmptySeq
<1>4. CASE m # Len(s)
  <2>1. /\ Len(s) - m \in Nat \ {0} /\ m + 1 \in 1 .. Len(s)
        /\ (m + 1) + 1 \in 1 .. Len(s) + 1
    BY <1>1, <1>4
  <2>2. rest # <<>> /\ Head(rest) = s[m + 1]
    <3>1. Len(rest) # 0 /\ Len(rest) \in Nat /\ 1 \in 1 .. Len(s) - m
      BY <1>2, <2>1
    <3>2. rest # <<>> /\ Head(rest) = rest[1]
      <4>1. rest # <<>>
        BY <3>1
      <4>2. QED
        BY <1>2, <4>1, HeadTailProperties
    <3>3. rest[1] = s[m + 1]
      BY <1>2, <3>1
    <3>4. QED
      BY <3>2, <3>3
  <2>3. /\ Tail(rest) \in Seq(S) /\ Len(Tail(rest)) = Len(rest) - 1
        /\ \A i \in 1 .. Len(Tail(rest)) : Tail(rest)[i] = rest[i + 1]
    BY <1>2, <2>2, HeadTailProperties
  <2>4. SubSeq(s, (m + 1) + 1, Len(s)) = [i \in 1 .. Len(s) - m - 1 |-> s[m + 1 + i]]
    <3>1. /\ Len(s) - ((m + 1) + 1) + 1 = Len(s) - m - 1
          /\ \A i \in 1 .. Len(s) - m - 1 : ((m + 1) + 1) + i - 1 = m + 1 + i
      BY <1>1
    <3>2. QED
      BY <1>1, <3>1 DEF SubSeq
  <2>5. Tail(rest) = [i \in 1 .. Len(s) - m - 1 |-> s[m + 1 + i]]
    <3>1. Len(Tail(rest)) = Len(s) - m - 1
      BY <1>1, <1>2, <2>3
    <3>2. \A i \in 1 .. Len(s) - m - 1 : Tail(rest)[i] = s[m + 1 + i]
      <4> TAKE i \in 1 .. Len(s) - m - 1
      <4>1. i + 1 \in 1 .. Len(s) - m /\ m + (i + 1) = m + 1 + i
        BY <1>1
      <4>2. QED
        BY <1>2, <2>3, <3>1, <4>1
    <3>3. Tail(rest) = [i \in 1 .. Len(Tail(rest)) |-> Tail(rest)[i]]
      BY <2>3
    <3>4. QED
      BY <3>1, <3>2, <3>3
  <2>6. QED
    BY <1>4, <2>1, <2>2, <2>4, <2>5
<1>5. QED
  BY <1>3, <1>4

RestBegins(S, s, m, x, y) ==
  /\ s \in Seq(S) /\ x \in Seq(S) /\ y \in Seq(S) /\ m \in 0 .. Len(s)
  /\ SubSeq(s, m + 1, Len(s)) = x \o y

RestFollows(s, m, x, y) ==
  /\ m + Len(x) \in 0 .. Len(s)
  /\ SubSeq(s, m + Len(x) + 1, Len(s)) = y
  /\ x # <<>> => m < Len(s) /\ s[m + 1] = x[1]

LEMMA RestAdvances ==
  ASSUME NEW S, NEW s, NEW m, NEW x, NEW y, RestBegins(S, s, m, x, y)
  PROVE  RestFollows(s, m, x, y)
<1>0. /\ s \in Seq(S) /\ x \in Seq(S) /\ y \in Seq(S) /\ m \in 0 .. Len(s)
      /\ SubSeq(s, m + 1, Len(s)) = x \o y
  BY DEF RestBegins
<1> DEFINE l == Len(s)
           n == Len(x)
<1>1. l \in Nat /\ n \in Nat /\ Len(y) \in Nat /\ m \in 0 .. l
  BY <1>0, LenProperties
<1>2. SubSeq(s, m + 1, l) = [i \in 1 .. l - m |-> s[m + i]]
  <2>1. m \in Nat
    BY <1>1
  <2> HIDE DEF l
  <2>2. QED
    BY <1>1, <2>1, RestIs
<1>3. /\ Len(x \o y) = n + Len(y)
      /\ \A i \in 1 .. n + Len(y) :
           (x \o y)[i] = IF i <= n THEN x[i] ELSE y[i - n]
  BY <1>0, ConcatProperties
<1>4. l - m = n + Len(y)
  <2>1. Len([i \in 1 .. l - m |-> s[m + i]]) = l - m
    BY <1>1
  <2>2. QED
    BY <1>0, <1>2, <1>3, <2>1
<1>5. \A i \in 1 .. n + Len(y) : s[m + i] = IF i <= n THEN x[i] ELSE y[i - n]
  BY <1>0, <1>2, <1>3, <1>4
<1>6. m + n \in 0 .. l /\ l - (m + n) = Len(y)
  BY <1>1, <1>4
<1>7. SubSeq(s, m + n + 1, l) = [i \in 1 .. Len(y) |-> s[m + n + i]]
  <2>1. m + n \in Nat
    BY <1>1
  <2> HIDE DEF l, n
  <2>2. SubSeq(s, m + n + 1, l) = [i \in 1 .. l - (m + n) |-> s[m + n + i]]
    BY <1>1, <2>1, RestIs
  <2>3. QED
    BY <1>6, <2>2, Zenon
<1>8. \A i \in 1 .. Len(y) : s[m + n + i] = y[i]
  <2> TAKE i \in 1 .. Len(y)
  <2>1. /\ n + i \in 1 .. n + Len(y) /\ ~ (n + i <= n) /\ (n + i) - n = i
        /\ m + (n + i) = m + n + i
    BY <1>1
  <2> HIDE DEF n, l
  <2>2. s[m + (n + i)] = y[(n + i) - n]
    BY <1>5, <2>1
  <2>3. QED
    BY <2>1, <2>2
<1>9. y = [i \in 1 .. Len(y) |-> y[i]]
  BY <1>0
<1>10. x # <<>> => m < l /\ s[m + 1] = x[1]
  <2> SUFFICES ASSUME x # <<>> PROVE m < l /\ s[m + 1] = x[1]
    OBVIOUS
  <2>1. n # 0
    BY <1>0, EmptySeq
  <2>2. 1 \in 1 .. n + Len(y) /\ 1 <= n /\ m < l
    BY <1>1, <1>4, <2>1
  <2> HIDE DEF n, l
  <2>3. QED
    BY <1>5, <2>2
<1>11. SubSeq(s, m + n + 1, l) = y
  <2> HIDE DEF n, l
  <2>1. QED
    BY <1>7, <1>8, <1>9
<1>12. QED
  BY <1>6, <1>10, <1>11 DEF RestFollows

-----------------------------------------------------------------------------
(* The walk of the part the bitstream is for, and the device on it: the    *)
(* rest of the packet begins with the slot of the current frame.           *)

frames == Cardinality(Frames(part))

walk == FrameOrder(part)

Contents == {design[a] : a \in Frames(part)} \cup {Blank}

IsForPart == part \in Parts /\ design = [a \in Frames(part) |-> a]

AtSlot(data, last) ==
  \E k \in 1 .. last + 1 :
    /\ offset \in 0 .. Len(data)
    /\ SubSeq(data, offset + 1, Len(data)) = SlotsFrom(walk, k, last)
    /\ k <= frames => current_frame_address = walk[k]

LEMMA SlotsOfWalk ==
  ASSUME IsForPart
  PROVE  /\ frames \in Nat
         /\ \A k \in 1 .. frames :
              /\ walk[k] \in Frames(part)
              /\ Slot(walk, k) \in Seq(Contents)
              /\ Slot(walk, k) # <<>> /\ Slot(walk, k)[1] = design[walk[k]]
              /\ k < frames =>
                   /\ GetNextFrameAddress(part, walk[k]) = {walk[k + 1]}
                   /\ Len(Slot(walk, k))
                        = IF RowChanges(walk[k], walk[k + 1]) THEN 3 ELSE 1
              /\ k = frames => GetNextFrameAddress(part, walk[k]) = {}
<1>1. IsPart(part) /\ Fits(part) /\ IsRegular(part)
  BY StreamsAssumption DEF IsForPart
<1>2. frames \in Nat /\ Len(walk) = frames
  <2>1. frames \in Nat /\ walk \in [1 .. frames -> Frames(part)]
    BY <1>1, FramesInOrder DEF frames, walk
  <2>2. QED
    BY <2>1
<1>3. ASSUME NEW k \in 1 .. frames
      PROVE  /\ walk[k] \in Frames(part)
             /\ k < frames => GetNextFrameAddress(part, walk[k]) = {walk[k + 1]}
             /\ k = frames => GetNextFrameAddress(part, walk[k]) = {}
  BY <1>1, OrderIsWalk DEF frames, walk
<1>4. ASSUME NEW k \in 1 .. frames
      PROVE  /\ Slot(walk, k) \in Seq(Contents)
             /\ Slot(walk, k) # <<>> /\ Slot(walk, k)[1] = design[walk[k]]
             /\ k < frames =>
                  Len(Slot(walk, k))
                    = IF RowChanges(walk[k], walk[k + 1]) THEN 3 ELSE 1
  <2> DEFINE frame == design[walk[k]]
             padded == k < frames /\ RowChanges(walk[k], walk[k + 1])
  <2>1. frame \in Contents /\ Blank \in Contents
    BY <1>3 DEF Contents
  <2>2. Slot(walk, k)
          = <<frame>> \o IF padded THEN <<Blank, Blank>> ELSE <<>>
    BY <1>2 DEF Slot
  <2> HIDE DEF frame, padded
  <2>3. CASE padded
    <3>1. /\ <<frame>> \in Seq(Contents) /\ <<Blank, Blank>> \in Seq(Contents)
          /\ Len(<<frame>>) = 1 /\ Len(<<Blank, Blank>>) = 2 /\ <<frame>>[1] = frame
      BY <2>1
    <3>a. /\ Slot(walk, k) \in Seq(Contents)
          /\ Len(Slot(walk, k)) = 3 /\ Slot(walk, k)[1] = frame
      BY <2>2, <2>3, <3>1, ConcatProperties
    <3>2. QED
      <4>1. k < frames => RowChanges(walk[k], walk[k + 1])
        BY <2>3 DEF padded
      <4>2. Slot(walk, k) # <<>>
        BY <3>a
      <4>3. QED
        BY <3>a, <4>1, <4>2, Zenon DEF frame
  <2>4. CASE ~ padded
    <3>1. Slot(walk, k) = <<frame>>
      BY <2>2, <2>4
    <3>2. QED
      BY <2>1, <2>4, <3>1 DEF padded, frame
  <2>5. QED
    BY <2>3, <2>4
<1>5. QED
  BY <1>2, <1>3, <1>4

(* The rest of a packet that the slots of some frames begin.               *)
LEMMA SlotsOfRest ==
  ASSUME IsForPart, NEW last \in 0 .. frames, NEW k \in 1 .. last + 1
  PROVE  /\ SlotsFrom(walk, k, last) \in Seq(Contents)
         /\ k = last + 1 => SlotsFrom(walk, k, last) = <<>>
         /\ k # last + 1 =>
              /\ SlotsFrom(walk, k + 1, last) \in Seq(Contents)
              /\ SlotsFrom(walk, k, last)
                   = Slot(walk, k) \o SlotsFrom(walk, k + 1, last)
              /\ SlotsFrom(walk, k, last) # <<>>
<1>1. frames \in Nat /\ \A i \in 1 .. frames : Slot(walk, i) \in Seq(Contents)
                                              /\ Slot(walk, i) # <<>>
  BY SlotsOfWalk
<1>2. /\ k \in Nat \ {0} /\ last \in Nat /\ k <= last + 1
      /\ \A i \in k .. last : i \in 1 .. frames
  BY <1>1
<1>3. SlotsIn(Contents, walk, k, last)
  BY <1>1, <1>2 DEF SlotsIn
<1>4. SlotsFrom(walk, k, last) \in Seq(Contents)
  BY <1>2, <1>3, SlotsType
<1>5. ASSUME k = last + 1 PROVE SlotsFrom(walk, k, last) = <<>>
  <2>1. last = k - 1
    BY <1>2, <1>5
  <2>2. QED
    BY <1>2, <2>1, NoSlots
<1>6. ASSUME k # last + 1
      PROVE  /\ SlotsFrom(walk, k + 1, last) \in Seq(Contents)
             /\ SlotsFrom(walk, k, last)
                  = Slot(walk, k) \o SlotsFrom(walk, k + 1, last)
             /\ SlotsFrom(walk, k, last) # <<>>
  <2>1. k <= last /\ k \in k .. last
    BY <1>2, <1>6
  <2>2. /\ SlotsFrom(walk, k, last)
             = Slot(walk, k) \o SlotsFrom(walk, k + 1, last)
        /\ SlotsFrom(walk, k + 1, last) \in Seq(Contents)
    BY <1>2, <1>3, <2>1, SlotsUnfold
  <2>3. Slot(walk, k) \in Seq(Contents) /\ Slot(walk, k) # <<>>
    BY <1>1, <1>2, <2>1
  <2>4. Slot(walk, k) \o SlotsFrom(walk, k + 1, last) # <<>>
    BY <2>2, <2>3, ConcatEmptySeq
  <2>5. QED
    BY <2>2, <2>4
<1>7. QED
  BY <1>4, <1>5, <1>6

(* What a step needs of the state to keep the frames in place.             *)
InPlace == IsForPart /\ LandsInPlace

LEMMA SlotsKept ==
  ASSUME UNCHANGED <<part, design>>
  PROVE  /\ IsForPart => IsForPart'
         /\ frames' = frames /\ walk' = walk
         /\ \A k, last : SlotsFrom(walk, k, last)' = SlotsFrom(walk, k, last)
<1>1. frames' = frames /\ walk' = walk
  BY DEF frames, walk
<1>2. IsForPart => IsForPart'
  BY DEF IsForPart
<1>3. \A k, last : SlotsFrom(walk, k, last)' = SlotsFrom(walk, k, last)
  <2> TAKE k, last
  <2>1. \A i : Slot(walk, i)' = Slot(walk, i)
    BY <1>1 DEF Slot
  <2>2. QED
    BY <1>1, <2>1 DEF SlotsFrom
<1>4. QED
  BY <1>1, <1>2, <1>3

LEMMA BeginAtSlot ==
  ASSUME IsForPart, NEW last \in 0 .. frames, NEW first \in 1 .. last + 1,
         NEW data, data = SlotsFrom(walk, first, last),
         BeginFDRI, UNCHANGED design,
         first <= frames => current_frame_address' = walk[first]
  PROVE  AtSlot(data, last)'
<1>1. data \in Seq(Contents) /\ frames \in Nat
  BY SlotsOfRest, SlotsOfWalk
<1>2. offset' = 0 /\ UNCHANGED <<part, design>>
  BY DEF BeginFDRI, device
<1>3. /\ Len(data) \in Nat /\ SubSeq(data, 1, Len(data)) = data
      /\ 0 \in 0 .. Len(data)
  BY <1>1
<1>4. SlotsFrom(walk, first, last)' = data /\ frames' = frames /\ walk' = walk
  BY <1>2, SlotsKept
<1>5. /\ offset' \in 0 .. Len(data)
      /\ SubSeq(data, offset' + 1, Len(data)) = SlotsFrom(walk, first, last)'
      /\ first <= frames' => current_frame_address' = walk[first]'
  BY <1>2, <1>3, <1>4
<1>6. QED
  BY <1>5 DEF AtSlot

(* A packet of frames, handled: each frame lands at its own address.       *)
LEMMA FrameInPlace ==
  ASSUME InPlace, NEW last \in 0 .. frames, NEW data \in Seq(Contents),
         packet.data = data, AtSlot(data, last), InFDRI
  PROVE  \E k \in 1 .. last :
           /\ offset \in 0 .. Len(data)
           /\ SubSeq(data, offset + 1, Len(data)) = SlotsFrom(walk, k, last)
           /\ current_frame_address = walk[k]
           /\ data[offset + 1] = design[walk[k]]
           /\ offset + Len(Slot(walk, k)) \in 0 .. Len(data)
           /\ SubSeq(data, offset + Len(Slot(walk, k)) + 1, Len(data))
                = SlotsFrom(walk, k + 1, last)
<1>1. IsForPart /\ frames \in Nat /\ Len(data) \in Nat
  BY SlotsOfWalk DEF InPlace
<1>2. PICK k \in 1 .. last + 1 :
        /\ offset \in 0 .. Len(data)
        /\ SubSeq(data, offset + 1, Len(data)) = SlotsFrom(walk, k, last)
        /\ k <= frames => current_frame_address = walk[k]
  BY DEF AtSlot
<1>3. offset # Len(data)
  BY <1>1, <1>2 DEF InFDRI
<1>4. SubSeq(data, offset + 1, Len(data)) # <<>>
  BY <1>2, <1>3, RestUnfolds
<1>5. k # last + 1
  <2>1. k = last + 1 => SlotsFrom(walk, k, last) = <<>>
    BY <1>1, SlotsOfRest
  <2>2. QED
    BY <1>2, <1>4, <2>1
<1>6. k \in 1 .. last /\ k \in 1 .. frames
  BY <1>1, <1>5
<1>7. /\ Slot(walk, k) \in Seq(Contents) /\ Slot(walk, k) # <<>>
      /\ Slot(walk, k)[1] = design[walk[k]]
  BY <1>1, <1>6, SlotsOfWalk
<1>8. /\ SlotsFrom(walk, k + 1, last) \in Seq(Contents)
      /\ SlotsFrom(walk, k, last)
           = Slot(walk, k) \o SlotsFrom(walk, k + 1, last)
  BY <1>1, <1>5, SlotsOfRest
<1>9. /\ offset + Len(Slot(walk, k)) \in 0 .. Len(data)
      /\ SubSeq(data, offset + Len(Slot(walk, k)) + 1, Len(data))
           = SlotsFrom(walk, k + 1, last)
      /\ data[offset + 1] = Slot(walk, k)[1]
  <2> DEFINE x == Slot(walk, k)
             y == SlotsFrom(walk, k + 1, last)
  <2>1. x \in Seq(Contents) /\ y \in Seq(Contents) /\ x # <<>>
    BY <1>7, <1>8
  <2>2. SubSeq(data, offset + 1, Len(data)) = x \o y
    BY <1>2, <1>8
  <2> HIDE DEF x, y
  <2>3. /\ offset + Len(x) \in 0 .. Len(data)
        /\ SubSeq(data, offset + Len(x) + 1, Len(data)) = y
        /\ data[offset + 1] = x[1]
    <3> DEFINE o == offset
    <3>1. RestBegins(Contents, data, o, x, y)
      BY <1>2, <2>1, <2>2 DEF RestBegins
    <3> HIDE DEF o
    <3>2. RestFollows(data, o, x, y)
      BY <3>1, RestAdvances
    <3>3. QED
      BY <2>1, <3>2 DEF o, RestFollows
  <2>4. QED
    BY <2>3 DEF x, y
<1>10. current_frame_address = walk[k]
  BY <1>1, <1>2, <1>6
<1>11. QED
  BY <1>2, <1>6, <1>7, <1>9, <1>10

LEMMA StoreInPlace ==
  ASSUME InPlace, NEW a \in Frames(part), current_frame_address = a,
         packet.data[offset + 1] = design[a], StoreFrame, UNCHANGED design
  PROVE  LandsInPlace'
<1>1. DOMAIN design = Frames(part)
  BY DEF InPlace, IsForPart
<1>2. QED
  BY <1>1 DEF InPlace, LandsInPlace, StoreFrame

LEMMA WriteAtSlot ==
  ASSUME InPlace, NEW last \in 0 .. frames, NEW data \in Seq(Contents),
         packet.data = data, AtSlot(data, last),
         WriteFrame, UNCHANGED design
  PROVE  AtSlot(data, last)' /\ LandsInPlace'
<1>1. IsForPart /\ frames \in Nat /\ Len(data) \in Nat
  BY SlotsOfWalk DEF InPlace
<1>2. InFDRI /\ StoreFrame /\ UNCHANGED <<part, design>>
  BY DEF WriteFrame, device
<1>3. PICK k \in 1 .. last :
        /\ offset \in 0 .. Len(data)
        /\ SubSeq(data, offset + 1, Len(data)) = SlotsFrom(walk, k, last)
        /\ current_frame_address = walk[k]
        /\ data[offset + 1] = design[walk[k]]
        /\ offset + Len(Slot(walk, k)) \in 0 .. Len(data)
        /\ SubSeq(data, offset + Len(Slot(walk, k)) + 1, Len(data))
             = SlotsFrom(walk, k + 1, last)
  BY <1>2, FrameInPlace
<1>4. PICK next \in GetNextFrameAddress(part, walk[k]) :
        /\ offset' = IF RowChanges(walk[k], next)
                     THEN offset + 3 ELSE offset + 1
        /\ current_frame_address' = next
  BY <1>3 DEF WriteFrame
<1>5. k \in 1 .. frames
  BY <1>1
<1>6. /\ walk[k] \in Frames(part)
      /\ k < frames /\ next = walk[k + 1]
      /\ Len(Slot(walk, k)) = IF RowChanges(walk[k], walk[k + 1]) THEN 3 ELSE 1
  <2>1. /\ walk[k] \in Frames(part)
        /\ k < frames =>
             /\ GetNextFrameAddress(part, walk[k]) = {walk[k + 1]}
             /\ Len(Slot(walk, k))
                  = IF RowChanges(walk[k], walk[k + 1]) THEN 3 ELSE 1
        /\ k = frames => GetNextFrameAddress(part, walk[k]) = {}
    BY <1>1, <1>5, SlotsOfWalk
  <2>2. k # frames
    BY <1>4, <2>1
  <2>3. k < frames
    BY <1>1, <1>5, <2>2
  <2>4. QED
    BY <1>4, <2>1, <2>3
<1>7. LandsInPlace'
  BY <1>2, <1>3, <1>6, StoreInPlace
<1>8. offset' = offset + Len(Slot(walk, k))
  BY <1>4, <1>6
<1>9. /\ offset' \in 0 .. Len(data)
      /\ SubSeq(data, offset' + 1, Len(data)) = SlotsFrom(walk, k + 1, last)
      /\ current_frame_address' = walk[k + 1]
  BY <1>3, <1>4, <1>6, <1>8
<1>10. /\ SlotsFrom(walk, k + 1, last)' = SlotsFrom(walk, k + 1, last)
       /\ walk' = walk
  BY <1>2, SlotsKept
<1>11. k + 1 \in 1 .. last + 1
  BY <1>1
<1>12. AtSlot(data, last)'
  BY <1>9, <1>10, <1>11 DEF AtSlot
<1>13. QED
  BY <1>7, <1>12

LEMMA WriteLastInPlace ==
  ASSUME InPlace, NEW last \in 0 .. frames, NEW data \in Seq(Contents),
         packet.data = data, AtSlot(data, last),
         WriteLastFrame, UNCHANGED design
  PROVE  last = frames /\ LandsInPlace'
<1>1. IsForPart /\ frames \in Nat
  BY SlotsOfWalk DEF InPlace
<1>2. InFDRI /\ StoreFrame
  BY DEF WriteLastFrame
<1>3. PICK k \in 1 .. last :
        /\ current_frame_address = walk[k]
        /\ data[offset + 1] = design[walk[k]]
  BY <1>2, FrameInPlace
<1>4. k \in 1 .. frames
  BY <1>1
<1>5. /\ walk[k] \in Frames(part)
      /\ k < frames => GetNextFrameAddress(part, walk[k]) = {walk[k + 1]}
  BY <1>1, <1>4, SlotsOfWalk
<1>6. GetNextFrameAddress(part, walk[k]) = {}
  BY <1>3 DEF WriteLastFrame
<1>7. ~ (k < frames)
  BY <1>5, <1>6
<1>8. last = frames
  BY <1>1, <1>7
<1>9. LandsInPlace'
  BY <1>2, <1>3, <1>5, StoreInPlace
<1>10. QED
  BY <1>8, <1>9

LEMMA EndAtSlot ==
  ASSUME IsForPart, NEW last \in 0 .. frames, NEW data \in Seq(Contents),
         packet.data = data, AtSlot(data, last), EndFDRI
  PROVE  last < frames => current_frame_address = walk[last + 1]
<1>1. frames \in Nat /\ Len(data) \in Nat
  BY SlotsOfWalk
<1>2. PICK k \in 1 .. last + 1 :
        /\ offset \in 0 .. Len(data)
        /\ SubSeq(data, offset + 1, Len(data)) = SlotsFrom(walk, k, last)
        /\ k <= frames => current_frame_address = walk[k]
  BY DEF AtSlot
<1>3. offset = Len(data)
  BY <1>1, <1>2 DEF EndFDRI
<1>4. SubSeq(data, offset + 1, Len(data)) = <<>>
  BY <1>2, <1>3, RestUnfolds
<1>5. k # last + 1 => SlotsFrom(walk, k, last) # <<>>
  BY <1>1, SlotsOfRest
<1>6. k = last + 1
  BY <1>2, <1>4, <1>5
<1>7. QED
  BY <1>1, <1>2, <1>6

-----------------------------------------------------------------------------
(* The two kinds of stream, packet by packet.                              *)

ChunkData(chunk) == SlotsFrom(walk, chunk[1], chunk[2])

IsSequence(s) == \E S : s \in Seq(S)

IsMarked(s, chunks, c, marker) ==
  /\ AreChunks(chunks, c, frames)
  /\ IsSequence(s) /\ Len(s) = 4 + 2 * c
  /\ s[1] = Write("IDCODE", Idcode)
  /\ s[2] = Write("MASK", {Inhibit})
  /\ s[3] = Write("CTL1", {Inhibit})
  /\ s[4] = Write("FAR", walk[1])
  /\ s[5] = Write("CMD", "WCFG")
  /\ \A i \in 1 .. c : s[4 + 2 * i] = FrameData(ChunkData(chunks[i]))
  /\ \A i \in 1 .. c - 1 : s[5 + 2 * i] = Write("FAR", marker)

IsSeeking(s, chunks, c, turn) ==
  /\ AreChunks(chunks, c, frames) /\ turn \in [1 .. c -> 1 .. c]
  /\ IsSequence(s) /\ Len(s) = 4 + 2 * c
  /\ s[1] = Write("IDCODE", Idcode)
  /\ s[2] = Write("MASK", {})
  /\ s[3] = Write("CTL1", {Inhibit})
  /\ s[4] = Write("CMD", "WCFG")
  /\ \A i \in 1 .. c :
       /\ s[3 + 2 * i] = Write("FAR", walk[chunks[turn[i]][1]])
       /\ s[4 + 2 * i] = FrameData(ChunkData(chunks[turn[i]]))

LEMMA MarkedIsMarked ==
  ASSUME NEW cuts, NEW marker, NEW c, NEW chunks,
         chunks = Chunks(walk, cuts), AreChunks(chunks, c, frames)
  PROVE  IsMarked(MarkedStream(walk, cuts, marker), chunks, c, marker)
<1> DEFINE a == <<Write("IDCODE", Idcode), Write("MASK", {Inhibit}),
                  Write("CTL1", {Inhibit}), Write("FAR", walk[1]),
                  Write("CMD", "WCFG")>>
           f == [i \in 1 .. c |-> Write("FAR", marker)]
           g == [i \in 1 .. c |-> FrameData(ChunkData(chunks[i]))]
           h == <<g[1]>>
           S == {f[i] : i \in 1 .. c} \cup {g[i] : i \in 1 .. c}
                  \cup {a[j] : j \in 1 .. 5}
           s == MarkedStream(walk, cuts, marker)
<1>1. c \in Nat \ {0} /\ DOMAIN chunks = 1 .. c
  BY DEF AreChunks
<1>2. f \in [1 .. c -> S] /\ g \in [1 .. c -> S]
  OBVIOUS
<1>3. a \in Seq(S) /\ Len(a) = 5 /\ h \in Seq(S) /\ Len(h) = 1 /\ h[1] = g[1]
  <2>1. g[1] \in S
    BY <1>1
  <2>2. /\ a[1] \in S /\ a[2] \in S /\ a[3] \in S /\ a[4] \in S /\ a[5] \in S
    OBVIOUS
  <2> HIDE DEF S
  <2>3. QED
    BY <2>1, <2>2
<1>4. s = a \o FlattenSeq(ThenPairs(c, h, f, g))
  <2> DEFINE parts == [i \in 1 .. c |->
                         (IF i = 1 THEN <<>> ELSE <<Write("FAR", marker)>>) \o
                         <<Chunk(walk, chunks[i][1], chunks[i][2])>>]
  <2>1. \A i \in 1 .. c : Chunk(walk, chunks[i][1], chunks[i][2]) = g[i]
    BY DEF Chunk, ChunkData, SlotsFrom
  <2>2. s = a \o FlattenSeq(parts)
    BY <1>1 DEF MarkedStream
  <2>3. parts = ThenPairs(c, h, f, g)
    <3>1. ASSUME NEW i \in 1 .. c
          PROVE  (IF i = 1 THEN <<>> ELSE <<Write("FAR", marker)>>) \o
                   <<Chunk(walk, chunks[i][1], chunks[i][2])>>
                   = IF i = 1 THEN h ELSE <<f[i], g[i]>>
      <4> DEFINE x == Write("FAR", marker)
                 y == g[i]
      <4>1. Chunk(walk, chunks[i][1], chunks[i][2]) = y /\ f[i] = x
        BY <2>1
      <4>2. i = 1 => h = <<y>>
        OBVIOUS
      <4> HIDE DEF x, y, g, f, h
      <4>3. <<>> \o <<y>> = <<y>> /\ <<x>> \o <<y>> = <<x, y>>
        BY JoinOne
      <4>4. QED
        BY <4>1, <4>2, <4>3 DEF x, y
    <3> HIDE DEF f, g, h
    <3>2. QED
      BY <3>1 DEF ThenPairs
  <2> HIDE DEF s, a, parts
  <2>4. QED
    BY <2>2, <2>3
<1>5. /\ s \in Seq(S) /\ Len(s) = 5 + 1 + 2 * (c - 1)
      /\ \A j \in 1 .. 5 : s[j] = a[j]
      /\ s[5 + 1] = h[1]
      /\ \A i \in 2 .. c : /\ s[5 + 1 + 2 * i - 3] = f[i]
                           /\ s[5 + 1 + 2 * i - 2] = g[i]
  <2> HIDE DEF a, f, g, h, S, s
  <2>1. /\ s \in Seq(S) /\ Len(s) = Len(a) + Len(h) + 2 * (c - 1)
        /\ \A j \in 1 .. Len(a) : s[j] = a[j]
        /\ \A j \in 1 .. Len(h) : s[Len(a) + j] = h[j]
        /\ \A i \in 2 .. c : /\ s[Len(a) + Len(h) + 2 * i - 3] = f[i]
                             /\ s[Len(a) + Len(h) + 2 * i - 2] = g[i]
    <3>1. IsStream(S, c, a, h, f, g, a \o FlattenSeq(ThenPairs(c, h, f, g)))
      BY <1>1, <1>2, <1>3, StreamInOrder
    <3>2. QED
      BY <1>4, <3>1 DEF IsStream
  <2>2. 1 \in 1 .. Len(h)
    BY <1>3
  <2>3. QED
    BY <1>3, <2>1, <2>2
<1>6. ASSUME NEW i \in 1 .. c
      PROVE  s[4 + 2 * i] = FrameData(ChunkData(chunks[i]))
  <2>1. CASE i = 1
    <3>1. 4 + 2 * i = 5 + 1
      BY <2>1
    <3>2. h[1] = g[i]
      BY <2>1
    <3> HIDE DEF h, s
    <3>3. QED
      BY <1>5, <3>1, <3>2
  <2>2. CASE i # 1
    <3>1. i \in 2 .. c /\ 4 + 2 * i = 5 + 1 + 2 * i - 2
      BY <1>1, <2>2
    <3> HIDE DEF s
    <3>2. QED
      BY <1>5, <3>1
  <2>3. QED
    BY <2>1, <2>2
<1>7. ASSUME NEW i \in 1 .. c - 1
      PROVE  s[5 + 2 * i] = Write("FAR", marker)
  <2>1. i + 1 \in 2 .. c /\ i + 1 \in 1 .. c /\ 5 + 2 * i = 5 + 1 + 2 * (i + 1) - 3
    BY <1>1
  <2> HIDE DEF s
  <2>2. s[5 + 2 * i] = f[i + 1]
    BY <1>5, <2>1
  <2>3. QED
    BY <2>1, <2>2
<1>8. /\ s[1] = Write("IDCODE", Idcode) /\ s[2] = Write("MASK", {Inhibit})
      /\ s[3] = Write("CTL1", {Inhibit}) /\ s[4] = Write("FAR", walk[1])
      /\ s[5] = Write("CMD", "WCFG")
  <2> HIDE DEF s
  <2>1. QED
    BY <1>5
<1>9. Len(s) = 4 + 2 * c
  BY <1>1, <1>5
<1>10. IsSequence(s)
  BY <1>5 DEF IsSequence
<1>11. QED
  <2> HIDE DEF s, f, g, h, a, S
  <2>1. IsMarked(s, chunks, c, marker)
    BY <1>6, <1>7, <1>8, <1>9, <1>10 DEF IsMarked
  <2>2. QED
    BY <2>1 DEF s

LEMMA SeekingIsSeeking ==
  ASSUME NEW cuts, NEW c, NEW turn \in [1 .. c -> 1 .. c], NEW chunks,
         chunks = Chunks(walk, cuts), AreChunks(chunks, c, frames)
  PROVE  IsSeeking(SeekingStream(walk, cuts, turn), chunks, c, turn)
<1> DEFINE a == <<Write("IDCODE", Idcode), Write("MASK", {}),
                  Write("CTL1", {Inhibit}), Write("CMD", "WCFG")>>
           f == [i \in 1 .. c |-> Write("FAR", walk[chunks[turn[i]][1]])]
           g == [i \in 1 .. c |-> FrameData(ChunkData(chunks[turn[i]]))]
           h == <<f[1], g[1]>>
           S == {f[i] : i \in 1 .. c} \cup {g[i] : i \in 1 .. c}
                  \cup {a[j] : j \in 1 .. 4}
           s == SeekingStream(walk, cuts, turn)
<1>1. c \in Nat \ {0} /\ DOMAIN chunks = 1 .. c
  BY DEF AreChunks
<1>2. f \in [1 .. c -> S] /\ g \in [1 .. c -> S]
  OBVIOUS
<1>3. /\ a \in Seq(S) /\ Len(a) = 4
      /\ h \in Seq(S) /\ Len(h) = 2 /\ h[1] = f[1] /\ h[2] = g[1]
  <2>1. f[1] \in S /\ g[1] \in S
    BY <1>1
  <2>2. a[1] \in S /\ a[2] \in S /\ a[3] \in S /\ a[4] \in S
    <3> HIDE DEF a, f, g
    <3>1. QED
      OBVIOUS
  <2> HIDE DEF S
  <2>3. QED
    BY <2>1, <2>2
<1>4. s = a \o FlattenSeq(ThenPairs(c, h, f, g))
  <2> DEFINE parts == [i \in 1 .. c |->
                         LET chunk == chunks[turn[i]]
                         IN <<Write("FAR", walk[chunk[1]]),
                              Chunk(walk, chunk[1], chunk[2])>>]
  <2>1. \A i \in 1 .. c :
          Chunk(walk, chunks[turn[i]][1], chunks[turn[i]][2]) = g[i]
    BY DEF Chunk, ChunkData, SlotsFrom
  <2>2. s = a \o FlattenSeq(parts)
    BY <1>1 DEF SeekingStream
  <2>3. parts = ThenPairs(c, h, f, g)
    <3>1. \A i \in 1 .. c :
            <<Write("FAR", walk[chunks[turn[i]][1]]),
              Chunk(walk, chunks[turn[i]][1], chunks[turn[i]][2])>>
              = <<f[i], g[i]>>
      BY <2>1
    <3>2. \A i \in 1 .. c : i = 1 => h = <<f[i], g[i]>>
      OBVIOUS
    <3>3. parts = [i \in 1 .. c |-> <<f[i], g[i]>>]
      BY <3>1
    <3> HIDE DEF f, g, h, parts
    <3>4. QED
      BY <3>2, <3>3 DEF ThenPairs
  <2> HIDE DEF s, a, parts
  <2>4. QED
    BY <2>2, <2>3
<1>5. /\ s \in Seq(S) /\ Len(s) = 4 + 2 + 2 * (c - 1)
      /\ \A j \in 1 .. 4 : s[j] = a[j]
      /\ s[4 + 1] = h[1] /\ s[4 + 2] = h[2]
      /\ \A i \in 2 .. c : /\ s[4 + 2 + 2 * i - 3] = f[i]
                           /\ s[4 + 2 + 2 * i - 2] = g[i]
  <2> HIDE DEF a, f, g, h, S, s
  <2>1. IsStream(S, c, a, h, f, g, a \o FlattenSeq(ThenPairs(c, h, f, g)))
    BY <1>1, <1>2, <1>3, StreamInOrder
  <2>2. /\ s \in Seq(S) /\ Len(s) = Len(a) + Len(h) + 2 * (c - 1)
        /\ \A j \in 1 .. Len(a) : s[j] = a[j]
        /\ \A j \in 1 .. Len(h) : s[Len(a) + j] = h[j]
        /\ \A i \in 2 .. c : /\ s[Len(a) + Len(h) + 2 * i - 3] = f[i]
                             /\ s[Len(a) + Len(h) + 2 * i - 2] = g[i]
    BY <1>4, <2>1 DEF IsStream
  <2>3. 1 \in 1 .. Len(h) /\ 2 \in 1 .. Len(h)
    BY <1>3
  <2>4. QED
    BY <1>3, <2>2, <2>3
<1>6. ASSUME NEW i \in 1 .. c
      PROVE  /\ s[3 + 2 * i] = Write("FAR", walk[chunks[turn[i]][1]])
             /\ s[4 + 2 * i] = FrameData(ChunkData(chunks[turn[i]]))
  <2>0. /\ f[i] = Write("FAR", walk[chunks[turn[i]][1]])
        /\ g[i] = FrameData(ChunkData(chunks[turn[i]]))
    OBVIOUS
  <2>1. s[3 + 2 * i] = f[i] /\ s[4 + 2 * i] = g[i]
    <3>1. CASE i = 1
      <4>1. 3 + 2 * i = 4 + 1 /\ 4 + 2 * i = 4 + 2
        BY <3>1
      <4> HIDE DEF f, g, h, s
      <4>2. QED
        BY <1>3, <1>5, <3>1, <4>1
    <3>2. CASE i # 1
      <4>1. /\ i \in 2 .. c /\ 3 + 2 * i = 4 + 2 + 2 * i - 3
            /\ 4 + 2 * i = 4 + 2 + 2 * i - 2
        BY <1>1, <3>2
      <4> HIDE DEF f, g, s
      <4>2. QED
        BY <1>5, <4>1
    <3>3. QED
      BY <3>1, <3>2
  <2> HIDE DEF f, g, s
  <2>2. QED
    BY <2>0, <2>1
<1>7. /\ s[1] = Write("IDCODE", Idcode) /\ s[2] = Write("MASK", {})
      /\ s[3] = Write("CTL1", {Inhibit}) /\ s[4] = Write("CMD", "WCFG")
  <2> HIDE DEF s
  <2>1. QED
    BY <1>5
<1>8. Len(s) = 4 + 2 * c
  BY <1>1, <1>5
<1>9. IsSequence(s)
  BY <1>5 DEF IsSequence
<1>10. QED
  <2> HIDE DEF s, f, g, h, a, S
  <2>1. IsSeeking(s, chunks, c, turn)
    BY <1>6, <1>7, <1>8, <1>9 DEF IsSeeking
  <2>2. QED
    BY <2>1 DEF s

-----------------------------------------------------------------------------
(* What has been handled of a stream, and what its registers are then.     *)

Handled(s, m) == m \in 0 .. Len(s) /\ packets = SubSeq(s, m + 1, Len(s))

MarkedRegisters(chunks, c, m) ==
  /\ m >= 2 => mask_register = {Inhibit}
  /\ m >= 3 => ctl1_register = {Inhibit}
  /\ m \in 4 .. 5 => frame_address_register = walk[1]
  /\ m = 5 /\ offset = Idle => start_new_write
  /\ m >= 6 => ~ start_new_write
  /\ offset = Idle =>
       \A i \in 1 .. c - 1 :
         m \in 4 + 2 * i .. 5 + 2 * i =>
           current_frame_address = walk[chunks[i + 1][1]]
  /\ offset # Idle =>
       /\ ~ start_new_write
       /\ \E i \in 1 .. c :
            /\ m = 3 + 2 * i
            /\ \E data \in {ChunkData(chunks[i])} : AtSlot(data, chunks[i][2])

SeekingRegisters(chunks, c, turn, m) ==
  /\ mask_register = {} /\ ctl1_register = {}
  /\ m >= 4 => command_register = "WCFG"
  /\ offset = Idle =>
       \A i \in 1 .. c :
         m = 3 + 2 * i =>
           /\ start_new_write
           /\ frame_address_register = walk[chunks[turn[i]][1]]
  /\ offset # Idle =>
       \E i \in 1 .. c :
         /\ m = 3 + 2 * i
         /\ \E data \in {ChunkData(chunks[turn[i]])} :
              AtSlot(data, chunks[turn[i]][2])

InMarked ==
  \E s, chunks, c, marker, m :
    /\ IsMarked(s, chunks, c, marker) /\ Handled(s, m)
    /\ MarkedRegisters(chunks, c, m)

InSeeking ==
  \E s, chunks, c, turn, m :
    /\ IsSeeking(s, chunks, c, turn) /\ Handled(s, m)
    /\ SeekingRegisters(chunks, c, turn, m)

(* The inductive invariant.                                                *)
StreamInv == InPlace /\ (InMarked \/ InSeeking)

LEMMA HeadOfStream ==
  ASSUME NEW s, IsSequence(s), NEW m, Handled(s, m), packets # <<>>
  PROVE  /\ m \in 0 .. Len(s) - 1 /\ Len(s) \in Nat
         /\ packet = s[m + 1]
         /\ Consume => Handled(s, m + 1)'
<1>1. PICK S : s \in Seq(S)
  BY DEF IsSequence
<1>2. m \in 0 .. Len(s) /\ packets = SubSeq(s, m + 1, Len(s)) /\ Len(s) \in Nat
  BY <1>1 DEF Handled
<1>3. /\ m = Len(s) => packets = <<>>
      /\ m # Len(s) =>
           /\ m + 1 \in 1 .. Len(s)
           /\ Head(packets) = s[m + 1]
           /\ Tail(packets) = SubSeq(s, (m + 1) + 1, Len(s))
  BY <1>1, <1>2, RestUnfolds
<1>4. m # Len(s)
  BY <1>3
<1>5. m \in 0 .. Len(s) - 1 /\ m + 1 \in 0 .. Len(s)
  BY <1>2, <1>4
<1>6. Consume => Handled(s, m + 1)'
  BY <1>3, <1>4, <1>5 DEF Consume, Handled
<1>7. packet = s[m + 1]
  BY <1>3, <1>4 DEF packet
<1>8. QED
  BY <1>2, <1>5, <1>6, <1>7

LEMMA ChunkIsInside ==
  ASSUME IsForPart, NEW chunks, NEW c, AreChunks(chunks, c, frames),
         NEW i \in 1 .. c
  PROVE  /\ chunks[i][2] \in 0 .. frames
         /\ chunks[i][1] \in 1 .. chunks[i][2] + 1
         /\ ChunkData(chunks[i]) \in Seq(Contents)
         /\ i < c => chunks[i + 1][1] = chunks[i][2] + 1 /\ chunks[i][2] < frames
<1>1. frames \in Nat
  BY SlotsOfWalk
<1>2. /\ chunks[i][2] \in 0 .. frames
      /\ chunks[i][1] \in 1 .. chunks[i][2] + 1
  <2>1. /\ chunks[i][1] \in 1 .. frames + 1 /\ chunks[i][2] \in 0 .. frames
        /\ chunks[i][1] <= chunks[i][2] + 1
    BY DEF AreChunks
  <2>2. QED
    BY <1>1, <2>1
<1>3. i < c => chunks[i + 1][1] = chunks[i][2] + 1 /\ chunks[i][2] < frames
  <2>1. c \in Nat
    BY DEF AreChunks
  <2>2. i < c => i \in 1 .. c - 1
    BY <2>1
  <2>3. QED
    BY <2>2 DEF AreChunks
<1>4. ChunkData(chunks[i]) \in Seq(Contents)
  BY <1>2, SlotsOfRest DEF ChunkData
<1>5. QED
  BY <1>2, <1>3, <1>4

(* Which packet of a stream each place holds.                              *)
MarkedAt(s, chunks, c, marker, m) ==
  \/ m = 0 /\ s[m + 1] = Write("IDCODE", Idcode)
  \/ m = 1 /\ s[m + 1] = Write("MASK", {Inhibit})
  \/ m = 2 /\ s[m + 1] = Write("CTL1", {Inhibit})
  \/ m = 3 /\ s[m + 1] = Write("FAR", walk[1])
  \/ m = 4 /\ s[m + 1] = Write("CMD", "WCFG")
  \/ \E i \in 1 .. c :
       /\ m = 3 + 2 * i /\ s[m + 1] = FrameData(ChunkData(chunks[i]))
  \/ \E i \in 1 .. c - 1 :
       m = 4 + 2 * i /\ s[m + 1] = Write("FAR", marker)

LEMMA MarkedPacket ==
  ASSUME NEW s, NEW chunks, NEW c, NEW marker,
         IsMarked(s, chunks, c, marker), NEW m \in 0 .. Len(s) - 1
  PROVE  MarkedAt(s, chunks, c, marker, m)
<1>1. c \in Nat \ {0} /\ Len(s) = 4 + 2 * c
  BY DEF IsMarked, AreChunks
<1>2. m \in 0 .. 3 + 2 * c
  BY <1>1
<1>3. m \in 0 .. 4 \/ m \in 5 .. 3 + 2 * c
  BY <1>1, <1>2
<1>4. CASE m \in 0 .. 4
  <2>1. m = 0 \/ m = 1 \/ m = 2 \/ m = 3 \/ m = 4
    BY <1>4
  <2>2. m + 1 = 1 \/ m + 1 = 2 \/ m + 1 = 3 \/ m + 1 = 4 \/ m + 1 = 5
    BY <1>4
  <2>3. QED
    BY <2>1 DEF IsMarked, MarkedAt
<1>5. CASE m \in 5 .. 3 + 2 * c
  <2>1. \/ \E i \in 1 .. c : m = 3 + 2 * i
        \/ \E i \in 1 .. c - 1 : m = 4 + 2 * i
    <3> DEFINE j == (m - 3) \div 2
    <3>1. j \in Nat /\ (m - 3 = 2 * j \/ m - 3 = 2 * j + 1)
      BY <1>5
    <3>2. m = 3 + 2 * j => j \in 1 .. c
      BY <1>1, <1>5, <3>1
    <3>3. m = 4 + 2 * j => j \in 1 .. c - 1
      BY <1>1, <1>5, <3>1
    <3>4. m = 3 + 2 * j \/ m = 4 + 2 * j
      BY <1>5, <3>1
    <3> HIDE DEF j
    <3>5. QED
      BY <3>2, <3>3, <3>4
  <2>2. ASSUME NEW i \in 1 .. c, m = 3 + 2 * i
        PROVE  s[m + 1] = FrameData(ChunkData(chunks[i]))
    <3>1. m + 1 = 4 + 2 * i
      BY <2>2
    <3>2. QED
      BY <3>1 DEF IsMarked
  <2>3. ASSUME NEW i \in 1 .. c - 1, m = 4 + 2 * i
        PROVE  s[m + 1] = Write("FAR", marker)
    <3>1. m + 1 = 5 + 2 * i
      BY <2>3
    <3>2. QED
      BY <3>1 DEF IsMarked
  <2>4. QED
    BY <2>1, <2>2, <2>3 DEF MarkedAt
<1>6. QED
  BY <1>3, <1>4, <1>5

SeekingAt(s, chunks, c, turn, m) ==
  \/ m = 0 /\ s[m + 1] = Write("IDCODE", Idcode)
  \/ m = 1 /\ s[m + 1] = Write("MASK", {})
  \/ m = 2 /\ s[m + 1] = Write("CTL1", {Inhibit})
  \/ m = 3 /\ s[m + 1] = Write("CMD", "WCFG")
  \/ \E i \in 1 .. c :
       /\ m = 2 + 2 * i
       /\ s[m + 1] = Write("FAR", walk[chunks[turn[i]][1]])
  \/ \E i \in 1 .. c :
       /\ m = 3 + 2 * i
       /\ s[m + 1] = FrameData(ChunkData(chunks[turn[i]]))

LEMMA SeekingPacket ==
  ASSUME NEW s, NEW chunks, NEW c, NEW turn,
         IsSeeking(s, chunks, c, turn), NEW m \in 0 .. Len(s) - 1
  PROVE  SeekingAt(s, chunks, c, turn, m)
<1>1. c \in Nat \ {0} /\ Len(s) = 4 + 2 * c
  BY DEF IsSeeking, AreChunks
<1>2. m \in 0 .. 3 + 2 * c
  BY <1>1
<1>3. m \in 0 .. 3 \/ m \in 4 .. 3 + 2 * c
  BY <1>1, <1>2
<1>4. CASE m \in 0 .. 3
  <2>1. m = 0 \/ m = 1 \/ m = 2 \/ m = 3
    BY <1>4
  <2>2. QED
    BY <2>1 DEF IsSeeking, SeekingAt
<1>5. CASE m \in 4 .. 3 + 2 * c
  <2>1. \/ \E i \in 1 .. c : m = 2 + 2 * i
        \/ \E i \in 1 .. c : m = 3 + 2 * i
    <3> DEFINE j == (m - 2) \div 2
    <3>1. j \in Nat /\ (m - 2 = 2 * j \/ m - 2 = 2 * j + 1)
      BY <1>5
    <3>2. j \in 1 .. c
      BY <1>1, <1>5, <3>1
    <3>3. m = 2 + 2 * j \/ m = 3 + 2 * j
      BY <1>5, <3>1
    <3> HIDE DEF j
    <3>4. QED
      BY <3>2, <3>3
  <2>2. ASSUME NEW i \in 1 .. c, m = 2 + 2 * i
        PROVE  s[m + 1] = Write("FAR", walk[chunks[turn[i]][1]])
    <3>1. m + 1 = 3 + 2 * i
      BY <2>2
    <3>2. QED
      BY <3>1 DEF IsSeeking
  <2>3. ASSUME NEW i \in 1 .. c, m = 3 + 2 * i
        PROVE  s[m + 1] = FrameData(ChunkData(chunks[turn[i]]))
    <3>1. m + 1 = 4 + 2 * i
      BY <2>3
    <3>2. QED
      BY <3>1 DEF IsSeeking
  <2>4. QED
    BY <2>1, <2>2, <2>3 DEF SeekingAt
<1>6. QED
  BY <1>3, <1>4, <1>5

-----------------------------------------------------------------------------
(* The device on a marked stream.                                          *)

LEMMA StreamKept ==
  ASSUME IsForPart, UNCHANGED <<part, design>>, NEW s, NEW chunks, NEW c
  PROVE  /\ IsForPart' /\ frames' = frames /\ walk' = walk
         /\ \A chunk : ChunkData(chunk)' = ChunkData(chunk)
         /\ \A marker :
              IsMarked(s, chunks, c, marker) => IsMarked(s, chunks, c, marker)'
         /\ \A turn :
              IsSeeking(s, chunks, c, turn) => IsSeeking(s, chunks, c, turn)'
<1>1. /\ IsForPart' /\ frames' = frames /\ walk' = walk
      /\ \A k, last : SlotsFrom(walk, k, last)' = SlotsFrom(walk, k, last)
  BY SlotsKept
<1>2. \A chunk : ChunkData(chunk)' = ChunkData(chunk)
  BY <1>1 DEF ChunkData
<1>3. \A marker :
        IsMarked(s, chunks, c, marker) => IsMarked(s, chunks, c, marker)'
  BY <1>1, <1>2 DEF IsMarked
<1>4. \A turn :
        IsSeeking(s, chunks, c, turn) => IsSeeking(s, chunks, c, turn)'
  BY <1>1, <1>2 DEF IsSeeking
<1>5. QED
  BY <1>1, <1>2, <1>3, <1>4

(* Every step but the return handles a part of the packet at the head.     *)
LEMMA StepOfPacket ==
  ASSUME DeviceNext, ~ Return
  PROVE  packets # <<>> \/ offset # Idle
BY DEF DeviceNext, SkipPacket, WriteMASK, WriteCTL1, WriteCMD, WriteIDCODE,
       WriteFAR, Writes, BeginFDRI, WriteFrame, WriteLastFrame, EndFDRI, InFDRI

LEMMA DeviceKept ==
  ASSUME DeviceNext, UNCHANGED design
  PROVE  UNCHANGED <<part, design>>
BY DEF DeviceNext, SkipPacket, WriteMASK, WriteCTL1, WriteCMD, WriteIDCODE,
       WriteFAR, BeginFDRI, WriteFrame, WriteLastFrame, EndFDRI, Return, device

(* Before the first frame the registers are set, one packet each.          *)
LEMMA MarkedSetUp ==
  ASSUME InPlace, NEW s, NEW chunks, NEW c, NEW marker, NEW m,
         IsMarked(s, chunks, c, marker), Handled(s, m),
         MarkedRegisters(chunks, c, m), packets # <<>>,
         m \in 0 .. 4, DeviceNext, UNCHANGED design
  PROVE  /\ UNCHANGED loaded
         /\ Handled(s, m + 1)' /\ MarkedRegisters(chunks, c, m + 1)'
<1>1. /\ m \in 0 .. Len(s) - 1 /\ Len(s) \in Nat
      /\ packet = s[m + 1] /\ (Consume => Handled(s, m + 1)')
  BY HeadOfStream DEF IsMarked
<1>2. c \in Nat \ {0}
  BY DEF IsMarked, AreChunks
<1>3. offset = Idle
  BY <1>2 DEF MarkedRegisters
<1>4. \/ m = 0 /\ packet = Write("IDCODE", Idcode)
      \/ m = 1 /\ packet = Write("MASK", {Inhibit})
      \/ m = 2 /\ packet = Write("CTL1", {Inhibit})
      \/ m = 3 /\ packet = Write("FAR", walk[1])
      \/ m = 4 /\ packet = Write("CMD", "WCFG")
  <2>1. \A i \in 1 .. c : m # 3 + 2 * i
    BY <1>2
  <2>2. \A i \in 1 .. c - 1 : m # 4 + 2 * i
    BY <1>2
  <2>3. MarkedAt(s, chunks, c, marker, m)
    BY <1>1, MarkedPacket
  <2>4. QED
    BY <1>1, <2>1, <2>2, <2>3, Zenon DEF MarkedAt
<1>5. walk' = walk
  BY DeviceKept, StreamKept DEF InPlace
<1>6. \A i \in 1 .. c : m + 1 \notin 4 + 2 * i .. 5 + 2 * i
  BY <1>2
<1>7. CASE m = 0
  <2>1. WriteIDCODE
    BY <1>3, <1>4, <1>7
       DEF Write, DeviceNext, SkipPacket, WriteMASK, WriteCTL1, WriteCMD,
           WriteFAR, Writes, BeginFDRI, WriteFrame, WriteLastFrame, EndFDRI,
           InFDRI, Return
  <2>2. QED
    BY <1>1, <1>3, <1>7, <2>1
       DEF WriteIDCODE, registers, writePosition, MarkedRegisters
<1>8. CASE m = 1
  <2>1. WriteMASK /\ word = {Inhibit}
    BY <1>3, <1>4, <1>8
       DEF Write, word, DeviceNext, SkipPacket, WriteIDCODE, WriteCTL1,
           WriteCMD, WriteFAR, Writes, BeginFDRI, WriteFrame, WriteLastFrame,
           EndFDRI, InFDRI, Return
  <2>2. QED
    BY <1>1, <1>3, <1>8, <2>1 DEF WriteMASK, writePosition, MarkedRegisters
<1>9. CASE m = 2
  <2>1. WriteCTL1 /\ word = {Inhibit}
    BY <1>3, <1>4, <1>9
       DEF Write, word, DeviceNext, SkipPacket, WriteIDCODE, WriteMASK,
           WriteCMD, WriteFAR, Writes, BeginFDRI, WriteFrame, WriteLastFrame,
           EndFDRI, InFDRI, Return
  <2>2. mask_register = {Inhibit}
    BY <1>9 DEF MarkedRegisters
  <2>3. ctl1_register' = {Inhibit}
    BY <2>1, <2>2 DEF WriteCTL1
  <2>4. QED
    BY <1>1, <1>3, <1>9, <2>1, <2>2, <2>3
       DEF WriteCTL1, writePosition, MarkedRegisters
<1>10. CASE m = 3
  <2>1. WriteFAR /\ word = walk[1]
    BY <1>3, <1>4, <1>10
       DEF Write, word, DeviceNext, SkipPacket, WriteIDCODE, WriteMASK,
           WriteCMD, WriteCTL1, Writes, BeginFDRI, WriteFrame, WriteLastFrame,
           EndFDRI, InFDRI, Return
  <2>2. frame_address_register' = walk'[1]
    BY <1>5, <2>1 DEF WriteFAR
  <2>3. QED
    BY <1>1, <1>3, <1>10, <2>1, <2>2 DEF WriteFAR, MarkedRegisters
<1>11. CASE m = 4
  <2>1. WriteCMD /\ word = "WCFG"
    BY <1>3, <1>4, <1>11
       DEF Write, word, DeviceNext, SkipPacket, WriteIDCODE, WriteMASK,
           WriteFAR, WriteCTL1, Writes, BeginFDRI, WriteFrame, WriteLastFrame,
           EndFDRI, InFDRI, Return
  <2>2. start_new_write' /\ frame_address_register' = walk'[1]
    <3>1. start_new_write'
      BY <2>1, Zenon DEF WriteCMD
    <3>2. m \in 4 .. 5
      BY <1>11
    <3>3. frame_address_register = walk[1]
      BY <3>2 DEF MarkedRegisters
    <3>4. frame_address_register' = frame_address_register
      BY <2>1 DEF WriteCMD
    <3>5. QED
      BY <1>5, <3>1, <3>3, <3>4
  <2>3. QED
    BY <1>1, <1>3, <1>6, <1>11, <2>1, <2>2 DEF WriteCMD, MarkedRegisters
<1>12. QED
  BY <1>4, <1>7, <1>8, <1>9, <1>10, <1>11

(* A packet of frames of a marked stream, from its beginning to its end.   *)
LEMMA MarkedFrames ==
  ASSUME InPlace, NEW s, NEW chunks, NEW c, NEW marker, NEW m,
         IsMarked(s, chunks, c, marker), Handled(s, m),
         MarkedRegisters(chunks, c, m), packets # <<>>,
         NEW i \in 1 .. c, m = 3 + 2 * i,
         DeviceNext, UNCHANGED design
  PROVE  /\ LandsInPlace'
         /\ \E q : Handled(s, q)' /\ MarkedRegisters(chunks, c, q)'
<1>0. PICK data : data = ChunkData(chunks[i])
  OBVIOUS
<1> DEFINE first == chunks[i][1]
           last == chunks[i][2]
<1>1. /\ m \in 0 .. Len(s) - 1 /\ Len(s) \in Nat
      /\ packet = s[m + 1] /\ (Consume => Handled(s, m + 1)')
  BY HeadOfStream DEF IsMarked
<1>2. c \in Nat \ {0} /\ AreChunks(chunks, c, frames) /\ chunks[1][1] = 1
  BY DEF IsMarked, AreChunks
<1>3. IsForPart /\ LandsInPlace /\ frames \in Nat
  BY SlotsOfWalk DEF InPlace
<1>4. /\ last \in 0 .. frames /\ first \in 1 .. last + 1
      /\ data \in Seq(Contents)
      /\ i < c => chunks[i + 1][1] = last + 1 /\ last < frames
  BY <1>0, <1>2, <1>3, ChunkIsInside
<1>5. packet = FrameData(data)
  <2>1. m + 1 = 4 + 2 * i
    OBVIOUS
  <2>2. QED
    BY <1>0, <1>1, <2>1 DEF IsMarked
<1>6. packet.opcode = "write" /\ packet.address = "FDRI" /\ packet.data = data
  BY <1>5 DEF FrameData
<1>7. BeginFDRI \/ WriteFrame \/ WriteLastFrame \/ EndFDRI
  BY <1>6 DEF DeviceNext, SkipPacket, WriteMASK, WriteCTL1, WriteCMD,
              WriteIDCODE, WriteFAR, Writes, Return
<1>8. /\ UNCHANGED <<part, design>> /\ walk' = walk
      /\ \A chunk : ChunkData(chunk)' = ChunkData(chunk)
  BY <1>3, DeviceKept, StreamKept
<1>9. \A j \in 1 .. c : m = 3 + 2 * j => j = i
  OBVIOUS
<1>10. m >= 5 /\ m + 1 >= 6 /\ m + 1 \notin 4 .. 5
  OBVIOUS
<1>11. offset # Idle => ~ start_new_write /\ AtSlot(data, last)
  BY <1>0, <1>9 DEF MarkedRegisters
<1>12. mask_register = {Inhibit} /\ ctl1_register = {Inhibit}
  BY <1>10 DEF MarkedRegisters
<1>13. UNCHANGED <<mask_register, ctl1_register, frame_address_register>>
  BY <1>7 DEF BeginFDRI, WriteFrame, WriteLastFrame, EndFDRI, registers
<1>14. ASSUME Handled(s, m)', offset' # Idle, ~ start_new_write',
              AtSlot(data, last)'
       PROVE  Handled(s, m)' /\ MarkedRegisters(chunks, c, m)'
  <2>1. data \in {ChunkData(chunks[i])}' /\ last = chunks[i][2]
    BY <1>0, <1>8
  <2>2. \E j \in 1 .. c :
          /\ m = 3 + 2 * j
          /\ \E d \in {ChunkData(chunks[j])}' : AtSlot(d, chunks[j][2])'
    BY <1>14, <2>1
  <2>3. m \in 4 .. 5 => frame_address_register' = walk'[1]
    BY <1>8, <1>13 DEF MarkedRegisters
  <2>4. QED
    BY <1>12, <1>13, <1>14, <2>2, <2>3 DEF MarkedRegisters
<1>15. ASSUME Handled(s, m + 1)', offset' = Idle, ~ start_new_write',
              i < c => current_frame_address' = walk[chunks[i + 1][1]]
       PROVE  Handled(s, m + 1)' /\ MarkedRegisters(chunks, c, m + 1)'
  <2>1. \A j \in 1 .. c - 1 : m + 1 \in 4 + 2 * j .. 5 + 2 * j => j = i /\ i < c
    BY <1>2
  <2>2. \A j \in 1 .. c - 1 :
          m + 1 \in 4 + 2 * j .. 5 + 2 * j =>
            current_frame_address' = walk'[chunks[j + 1][1]]
    BY <1>8, <1>15, <2>1
  <2>3. QED
    BY <1>10, <1>12, <1>13, <1>15, <2>2 DEF MarkedRegisters
<1>16. CASE BeginFDRI
  <2>1. /\ offset = Idle /\ offset' # Idle /\ ~ start_new_write'
        /\ packets' = packets /\ loaded' = loaded
    BY <1>16 DEF BeginFDRI, Idle
  <2>2. current_frame_address' = walk[first]
    <3>1. CASE i = 1
      <4>1. m = 5 /\ m \in 4 .. 5 /\ first = 1
        BY <1>2, <3>1
      <4>2. start_new_write
        BY <2>1, <4>1, Zenon DEF MarkedRegisters
      <4>3. frame_address_register = walk[1]
        BY <4>1 DEF MarkedRegisters
      <4>4. QED
        BY <1>16, <4>1, <4>2, <4>3 DEF BeginFDRI
    <3>2. CASE i # 1
      <4> DEFINE j == i - 1
      <4>1. /\ j \in 1 .. c - 1 /\ j + 1 = i /\ m >= 6
            /\ m \in 4 + 2 * j .. 5 + 2 * j
        BY <1>2, <3>2
      <4> HIDE DEF j
      <4>2. ~ start_new_write
        BY <4>1 DEF MarkedRegisters
      <4>3. current_frame_address = walk[chunks[j + 1][1]]
        BY <2>1, <4>1 DEF MarkedRegisters
      <4>4. QED
        BY <1>16, <4>1, <4>2, <4>3 DEF BeginFDRI
    <3>3. QED
      BY <3>1, <3>2
  <2>3. AtSlot(data, last)'
    <3>1. data = SlotsFrom(walk, first, last)
      BY <1>0 DEF ChunkData
    <3> HIDE DEF first, last
    <3>2. QED
      BY <1>3, <1>4, <1>16, <2>2, <3>1, BeginAtSlot
  <2>4. Handled(s, m)'
    BY <2>1 DEF Handled
  <2>5. LandsInPlace'
    BY <1>3, <2>1 DEF LandsInPlace
  <2>6. QED
    BY <1>14, <2>1, <2>3, <2>4, <2>5
<1>17. CASE WriteFrame
  <2>1. /\ offset # Idle /\ start_new_write' = start_new_write
        /\ packets' = packets
    BY <1>17 DEF WriteFrame, InFDRI
  <2>2. AtSlot(data, last)' /\ LandsInPlace'
    <3>1. AtSlot(data, last)
      BY <1>11, <2>1
    <3> HIDE DEF last
    <3>2. QED
      BY <1>4, <1>6, <1>17, <3>1, WriteAtSlot
  <2>3. offset' # Idle
    <3> HIDE DEF last
    <3>1. offset' \in 0 .. Len(data) /\ Len(data) \in Nat
      BY <1>4, <2>2 DEF AtSlot
    <3>2. QED
      BY <3>1 DEF Idle
  <2>4. Handled(s, m)'
    BY <2>1 DEF Handled
  <2>5. ~ start_new_write'
    BY <1>11, <2>1, Zenon
  <2>6. QED
    BY <1>14, <2>2, <2>3, <2>4, <2>5
<1>18. CASE WriteLastFrame
  <2>1. /\ offset # Idle /\ start_new_write' = start_new_write
        /\ offset' = Idle /\ Consume
    BY <1>18 DEF WriteLastFrame, InFDRI, writePosition
  <2>2. last = frames /\ LandsInPlace'
    <3>1. AtSlot(data, last)
      BY <1>11, <2>1
    <3> HIDE DEF last
    <3>2. QED
      BY <1>4, <1>6, <1>18, <3>1, WriteLastInPlace
  <2>3. ~ (i < c)
    BY <1>3, <1>4, <2>2
  <2>4. ~ start_new_write'
    BY <1>11, <2>1, Zenon
  <2>5. QED
    BY <1>1, <1>15, <2>1, <2>2, <2>3, <2>4
<1>19. CASE EndFDRI
  <2>1. /\ offset # Idle /\ start_new_write' = start_new_write
        /\ current_frame_address' = current_frame_address
        /\ offset' = Idle /\ Consume /\ loaded' = loaded
    BY <1>19 DEF EndFDRI, writePosition
  <2>2. last < frames => current_frame_address = walk[last + 1]
    <3>1. AtSlot(data, last)
      BY <1>11, <2>1
    <3> HIDE DEF last
    <3>2. QED
      BY <1>3, <1>4, <1>6, <1>19, <3>1, EndAtSlot
  <2>3. i < c => current_frame_address' = walk[chunks[i + 1][1]]
    BY <1>4, <2>1, <2>2
  <2>4. LandsInPlace'
    BY <1>3, <2>1 DEF LandsInPlace
  <2>5. ~ start_new_write'
    BY <1>11, <2>1, Zenon
  <2>6. QED
    BY <1>1, <1>15, <2>1, <2>3, <2>4, <2>5
<1>20. QED
  BY <1>7, <1>16, <1>17, <1>18, <1>19

(* A progress marker changes nothing but the frame address register.       *)
LEMMA MarkedMarker ==
  ASSUME InPlace, NEW s, NEW chunks, NEW c, NEW marker, NEW m,
         IsMarked(s, chunks, c, marker), Handled(s, m),
         MarkedRegisters(chunks, c, m), packets # <<>>,
         NEW i \in 1 .. c - 1, m = 4 + 2 * i,
         DeviceNext, UNCHANGED design
  PROVE  /\ UNCHANGED loaded
         /\ Handled(s, m + 1)' /\ MarkedRegisters(chunks, c, m + 1)'
<1>1. /\ m \in 0 .. Len(s) - 1 /\ Len(s) \in Nat
      /\ packet = s[m + 1] /\ (Consume => Handled(s, m + 1)')
  BY HeadOfStream DEF IsMarked
<1>2. c \in Nat \ {0}
  BY DEF IsMarked, AreChunks
<1>3. packet = Write("FAR", marker)
  <2>1. m + 1 = 5 + 2 * i
    OBVIOUS
  <2>2. QED
    BY <1>1, <2>1 DEF IsMarked
<1>4. offset = Idle
  <2>1. \A j \in 1 .. c : m # 3 + 2 * j
    BY <1>2
  <2>2. QED
    BY <2>1 DEF MarkedRegisters
<1>5. WriteFAR
  BY <1>3, <1>4
     DEF Write, DeviceNext, SkipPacket, WriteMASK, WriteCTL1, WriteCMD,
         WriteIDCODE, Writes, BeginFDRI, WriteFrame, WriteLastFrame, EndFDRI,
         InFDRI, Return
<1>6. walk' = walk
  BY DeviceKept, StreamKept DEF InPlace
<1>7. /\ m >= 6 /\ m + 1 >= 6 /\ m + 1 \notin 4 .. 5
      /\ m \in 4 + 2 * i .. 5 + 2 * i
      /\ \A j \in 1 .. c - 1 : m + 1 \in 4 + 2 * j .. 5 + 2 * j => j = i
  BY <1>2
<1>8. /\ mask_register = {Inhibit} /\ ctl1_register = {Inhibit}
      /\ ~ start_new_write
      /\ current_frame_address = walk[chunks[i + 1][1]]
  BY <1>4, <1>7 DEF MarkedRegisters
<1>9. ~ start_new_write'
  <2>1. ~ ExecutesCommand
    BY <1>8 DEF ExecutesCommand
  <2>2. QED
    BY <1>5, <1>8, <2>1, Zenon DEF WriteFAR
<1>10. /\ UNCHANGED <<mask_register, ctl1_register, current_frame_address,
                      loaded, offset>>
       /\ Consume
  BY <1>5 DEF WriteFAR
<1>11. \A j \in 1 .. c - 1 :
         m + 1 \in 4 + 2 * j .. 5 + 2 * j =>
           current_frame_address' = walk'[chunks[j + 1][1]]
  BY <1>6, <1>7, <1>8, <1>10
<1>12. MarkedRegisters(chunks, c, m + 1)'
  BY <1>4, <1>7, <1>8, <1>9, <1>10, <1>11 DEF MarkedRegisters
<1>13. QED
  BY <1>1, <1>10, <1>12

LEMMA PacketsLeft ==
  ASSUME NEW s, IsSequence(s), NEW m, Handled(s, m), m # Len(s)
  PROVE  packets # <<>>
<1>1. PICK S : s \in Seq(S)
  BY DEF IsSequence
<1>2. QED
  BY <1>1, RestUnfolds DEF Handled

LEMMA MarkedStep ==
  ASSUME InPlace, NEW s, NEW chunks, NEW c, NEW marker, NEW m,
         IsMarked(s, chunks, c, marker), Handled(s, m),
         MarkedRegisters(chunks, c, m), DeviceNext, UNCHANGED design
  PROVE  InPlace' /\ InMarked'
<1>1. /\ IsForPart' /\ walk' = walk
      /\ IsMarked(s, chunks, c, marker)'
      /\ \A chunk : ChunkData(chunk)' = ChunkData(chunk)
  BY DeviceKept, StreamKept DEF InPlace
<1>2. c \in Nat \ {0} /\ Len(s) = 4 + 2 * c /\ IsSequence(s)
  BY DEF IsMarked, AreChunks
<1>3. UNCHANGED loaded => LandsInPlace'
  BY DEF InPlace, LandsInPlace
<1>4. SUFFICES /\ LandsInPlace'
               /\ \E q : Handled(s, q)' /\ MarkedRegisters(chunks, c, q)'
  BY <1>1 DEF InPlace, InMarked
<1>5. CASE Return
  <2>1. /\ packets = <<>>
        /\ UNCHANGED <<packets, registers, writePosition, loaded, offset>>
    BY <1>5 DEF Return
  <2>2. Handled(s, m)'
    BY <2>1 DEF Handled
  <2>3. offset = Idle
    <3>1. m = Len(s)
      BY <1>2, <2>1, PacketsLeft
    <3>2. \A i \in 1 .. c : m # 3 + 2 * i
      BY <1>2, <3>1
    <3>3. QED
      BY <3>2 DEF MarkedRegisters
  <2>4. MarkedRegisters(chunks, c, m)'
    BY <1>1, <2>1, <2>3 DEF registers, writePosition, MarkedRegisters
  <2>5. QED
    BY <1>3, <2>1, <2>2, <2>4
<1>6. CASE ~ Return
  <2>1. packets # <<>>
    <3>1. SUFFICES ASSUME offset # Idle PROVE packets # <<>>
      BY <1>6, StepOfPacket
    <3>2. PICK i \in 1 .. c : m = 3 + 2 * i
      BY <3>1 DEF MarkedRegisters
    <3>3. m # Len(s)
      BY <1>2, <3>2
    <3>4. QED
      BY <1>2, <3>3, PacketsLeft
  <2>2. m \in 0 .. Len(s) - 1
    BY <1>2, <2>1, HeadOfStream
  <2>3. MarkedAt(s, chunks, c, marker, m)
    BY <2>2, MarkedPacket
  <2>4. \/ m \in 0 .. 4
        \/ \E i \in 1 .. c : m = 3 + 2 * i
        \/ \E i \in 1 .. c - 1 : m = 4 + 2 * i
    BY <2>3 DEF MarkedAt
  <2>5. CASE m \in 0 .. 4
    <3>1. /\ UNCHANGED loaded
          /\ Handled(s, m + 1)' /\ MarkedRegisters(chunks, c, m + 1)'
      BY <2>1, <2>5, MarkedSetUp
    <3>2. QED
      BY <1>3, <3>1
  <2>6. CASE \E i \in 1 .. c : m = 3 + 2 * i
    <3>1. PICK i \in 1 .. c : m = 3 + 2 * i
      BY <2>6
    <3>2. QED
      BY <2>1, <3>1, MarkedFrames
  <2>7. CASE \E i \in 1 .. c - 1 : m = 4 + 2 * i
    <3>1. PICK i \in 1 .. c - 1 : m = 4 + 2 * i
      BY <2>7
    <3>2. /\ UNCHANGED loaded
          /\ Handled(s, m + 1)' /\ MarkedRegisters(chunks, c, m + 1)'
      BY <2>1, <3>1, MarkedMarker
    <3>3. QED
      BY <1>3, <3>2
  <2>8. QED
    BY <2>4, <2>5, <2>6, <2>7
<1>7. QED
  BY <1>5, <1>6

-----------------------------------------------------------------------------
(* The device on a stream that seeks.                                      *)

LEMMA SeekingSetUp ==
  ASSUME InPlace, NEW s, NEW chunks, NEW c, NEW turn, NEW m,
         IsSeeking(s, chunks, c, turn), Handled(s, m),
         SeekingRegisters(chunks, c, turn, m), packets # <<>>,
         m \in 0 .. 3, DeviceNext, UNCHANGED design
  PROVE  /\ UNCHANGED loaded
         /\ Handled(s, m + 1)' /\ SeekingRegisters(chunks, c, turn, m + 1)'
<1>1. /\ m \in 0 .. Len(s) - 1 /\ Len(s) \in Nat
      /\ packet = s[m + 1] /\ (Consume => Handled(s, m + 1)')
  BY HeadOfStream DEF IsSeeking
<1>2. c \in Nat \ {0}
  BY DEF IsSeeking, AreChunks
<1>3. offset = Idle /\ mask_register = {} /\ ctl1_register = {}
  BY <1>2 DEF SeekingRegisters
<1>4. \/ m = 0 /\ packet = Write("IDCODE", Idcode)
      \/ m = 1 /\ packet = Write("MASK", {})
      \/ m = 2 /\ packet = Write("CTL1", {Inhibit})
      \/ m = 3 /\ packet = Write("CMD", "WCFG")
  <2>1. \A i \in 1 .. c : m # 3 + 2 * i /\ m # 2 + 2 * i
    BY <1>2
  <2>2. SeekingAt(s, chunks, c, turn, m)
    BY <1>1, SeekingPacket
  <2>3. QED
    BY <1>1, <2>1, <2>2, Zenon DEF SeekingAt
<1>5. \A i \in 1 .. c : m + 1 # 3 + 2 * i
  BY <1>2
<1>6. CASE m = 0
  <2>1. WriteIDCODE
    BY <1>3, <1>4, <1>6
       DEF Write, DeviceNext, SkipPacket, WriteMASK, WriteCTL1, WriteCMD,
           WriteFAR, Writes, BeginFDRI, WriteFrame, WriteLastFrame, EndFDRI,
           InFDRI, Return
  <2>2. QED
    BY <1>1, <1>3, <1>5, <1>6, <2>1
       DEF WriteIDCODE, registers, writePosition, SeekingRegisters
<1>7. CASE m = 1
  <2>1. WriteMASK /\ word = {}
    BY <1>3, <1>4, <1>7
       DEF Write, word, DeviceNext, SkipPacket, WriteIDCODE, WriteCTL1,
           WriteCMD, WriteFAR, Writes, BeginFDRI, WriteFrame, WriteLastFrame,
           EndFDRI, InFDRI, Return
  <2>2. QED
    BY <1>1, <1>3, <1>5, <1>7, <2>1
       DEF WriteMASK, writePosition, SeekingRegisters
<1>8. CASE m = 2
  <2>1. WriteCTL1
    BY <1>3, <1>4, <1>8
       DEF Write, word, DeviceNext, SkipPacket, WriteIDCODE, WriteMASK,
           WriteCMD, WriteFAR, Writes, BeginFDRI, WriteFrame, WriteLastFrame,
           EndFDRI, InFDRI, Return
  <2>2. ctl1_register' = {}
    BY <1>3, <2>1 DEF WriteCTL1
  <2>3. QED
    BY <1>1, <1>3, <1>5, <1>8, <2>1, <2>2
       DEF WriteCTL1, writePosition, SeekingRegisters
<1>9. CASE m = 3
  <2>1. WriteCMD /\ word = "WCFG"
    BY <1>3, <1>4, <1>9
       DEF Write, word, DeviceNext, SkipPacket, WriteIDCODE, WriteMASK,
           WriteFAR, WriteCTL1, Writes, BeginFDRI, WriteFrame, WriteLastFrame,
           EndFDRI, InFDRI, Return
  <2>2. QED
    BY <1>1, <1>3, <1>5, <1>9, <2>1 DEF WriteCMD, SeekingRegisters
<1>10. QED
  BY <1>4, <1>6, <1>7, <1>8, <1>9

(* Loading the frame address register starts the write of a chunk.         *)
LEMMA SeekingSeek ==
  ASSUME InPlace, NEW s, NEW chunks, NEW c, NEW turn, NEW m,
         IsSeeking(s, chunks, c, turn), Handled(s, m),
         SeekingRegisters(chunks, c, turn, m), packets # <<>>,
         NEW i \in 1 .. c, m = 2 + 2 * i,
         DeviceNext, UNCHANGED design
  PROVE  /\ UNCHANGED loaded
         /\ Handled(s, m + 1)' /\ SeekingRegisters(chunks, c, turn, m + 1)'
<1>1. /\ m \in 0 .. Len(s) - 1 /\ Len(s) \in Nat
      /\ packet = s[m + 1] /\ (Consume => Handled(s, m + 1)')
  BY HeadOfStream DEF IsSeeking
<1>2. packet = Write("FAR", walk[chunks[turn[i]][1]])
  <2>1. m + 1 = 3 + 2 * i
    OBVIOUS
  <2>2. QED
    BY <1>1, <2>1 DEF IsSeeking
<1>3. offset = Idle
  <2>1. \A j \in 1 .. c : m # 3 + 2 * j
    OBVIOUS
  <2>2. QED
    BY <2>1 DEF SeekingRegisters
<1>4. WriteFAR /\ word = walk[chunks[turn[i]][1]]
  BY <1>2, <1>3
     DEF Write, word, DeviceNext, SkipPacket, WriteMASK, WriteCTL1, WriteCMD,
         WriteIDCODE, Writes, BeginFDRI, WriteFrame, WriteLastFrame, EndFDRI,
         InFDRI, Return
<1>5. walk' = walk
  BY DeviceKept, StreamKept DEF InPlace
<1>6. m >= 4 /\ \A j \in 1 .. c : m + 1 = 3 + 2 * j => j = i
  OBVIOUS
<1>7. mask_register = {} /\ ctl1_register = {} /\ command_register = "WCFG"
  BY <1>6 DEF SeekingRegisters
<1>8. start_new_write'
  <2>1. ExecutesCommand
    BY <1>7 DEF ExecutesCommand
  <2>2. QED
    BY <1>4, <2>1, Zenon DEF WriteFAR
<1>9. /\ UNCHANGED <<mask_register, ctl1_register, command_register, loaded,
                     offset>>
      /\ frame_address_register' = walk'[chunks[turn[i]][1]]
      /\ Consume
  BY <1>4, <1>5 DEF WriteFAR
<1>10. \A j \in 1 .. c :
         m + 1 = 3 + 2 * j =>
           /\ start_new_write'
           /\ frame_address_register' = walk'[chunks[turn[j]][1]]
  BY <1>6, <1>8, <1>9
<1>11. SeekingRegisters(chunks, c, turn, m + 1)'
  BY <1>3, <1>7, <1>9, <1>10 DEF SeekingRegisters
<1>12. QED
  BY <1>1, <1>9, <1>11

LEMMA SeekingFrames ==
  ASSUME InPlace, NEW s, NEW chunks, NEW c, NEW turn, NEW m,
         IsSeeking(s, chunks, c, turn), Handled(s, m),
         SeekingRegisters(chunks, c, turn, m), packets # <<>>,
         NEW i \in 1 .. c, m = 3 + 2 * i,
         DeviceNext, UNCHANGED design
  PROVE  /\ LandsInPlace'
         /\ \E q : Handled(s, q)' /\ SeekingRegisters(chunks, c, turn, q)'
<1>0. PICK data : data = ChunkData(chunks[turn[i]])
  OBVIOUS
<1> DEFINE first == chunks[turn[i]][1]
           last == chunks[turn[i]][2]
<1>1. /\ m \in 0 .. Len(s) - 1 /\ Len(s) \in Nat
      /\ packet = s[m + 1] /\ (Consume => Handled(s, m + 1)')
  BY HeadOfStream DEF IsSeeking
<1>2. AreChunks(chunks, c, frames) /\ turn[i] \in 1 .. c
  BY DEF IsSeeking
<1>3. IsForPart /\ LandsInPlace /\ frames \in Nat
  BY SlotsOfWalk DEF InPlace
<1>4. /\ last \in 0 .. frames /\ first \in 1 .. last + 1
      /\ data \in Seq(Contents)
  BY <1>0, <1>2, <1>3, ChunkIsInside
<1>5. packet = FrameData(data)
  <2>1. m + 1 = 4 + 2 * i
    OBVIOUS
  <2>2. QED
    BY <1>0, <1>1, <2>1 DEF IsSeeking
<1>6. packet.opcode = "write" /\ packet.address = "FDRI" /\ packet.data = data
  BY <1>5 DEF FrameData
<1>7. BeginFDRI \/ WriteFrame \/ WriteLastFrame \/ EndFDRI
  BY <1>6 DEF DeviceNext, SkipPacket, WriteMASK, WriteCTL1, WriteCMD,
              WriteIDCODE, WriteFAR, Writes, Return
<1>8. /\ UNCHANGED <<part, design>> /\ walk' = walk
      /\ \A chunk : ChunkData(chunk)' = ChunkData(chunk)
  BY <1>3, DeviceKept, StreamKept
<1>9. /\ \A j \in 1 .. c : m = 3 + 2 * j => j = i
      /\ \A j \in 1 .. c : m + 1 # 3 + 2 * j
      /\ m >= 4
  OBVIOUS
<1>10. offset # Idle => AtSlot(data, last)
  BY <1>0, <1>9 DEF SeekingRegisters
<1>11. mask_register = {} /\ ctl1_register = {} /\ command_register = "WCFG"
  BY <1>9 DEF SeekingRegisters
<1>12. UNCHANGED <<mask_register, ctl1_register, command_register>>
  BY <1>7 DEF BeginFDRI, WriteFrame, WriteLastFrame, EndFDRI, registers
<1>13. ASSUME Handled(s, m)', offset' # Idle, AtSlot(data, last)'
       PROVE  Handled(s, m)' /\ SeekingRegisters(chunks, c, turn, m)'
  <2>1. data \in {ChunkData(chunks[turn[i]])}' /\ last = chunks[turn[i]][2]
    BY <1>0, <1>8
  <2>2. \E j \in 1 .. c :
          /\ m = 3 + 2 * j
          /\ \E d \in {ChunkData(chunks[turn[j]])}' :
               AtSlot(d, chunks[turn[j]][2])'
    BY <1>13, <2>1
  <2>3. QED
    BY <1>11, <1>12, <1>13, <2>2 DEF SeekingRegisters
<1>14. ASSUME Handled(s, m + 1)', offset' = Idle
       PROVE  Handled(s, m + 1)' /\ SeekingRegisters(chunks, c, turn, m + 1)'
  BY <1>9, <1>11, <1>12, <1>14 DEF SeekingRegisters
<1>15. CASE BeginFDRI
  <2>1. /\ offset = Idle /\ offset' # Idle
        /\ packets' = packets /\ loaded' = loaded
    BY <1>15 DEF BeginFDRI, Idle
  <2>2. current_frame_address' = walk[first]
    <3>1. start_new_write
      BY <2>1, Zenon DEF SeekingRegisters
    <3>2. frame_address_register = walk[first]
      BY <2>1 DEF SeekingRegisters
    <3>3. QED
      BY <1>15, <3>1, <3>2 DEF BeginFDRI
  <2>3. AtSlot(data, last)'
    <3>1. data = SlotsFrom(walk, first, last)
      BY <1>0 DEF ChunkData
    <3> HIDE DEF first, last
    <3>2. QED
      BY <1>3, <1>4, <1>15, <2>2, <3>1, BeginAtSlot
  <2>4. Handled(s, m)'
    BY <2>1 DEF Handled
  <2>5. LandsInPlace'
    BY <1>3, <2>1 DEF LandsInPlace
  <2>6. QED
    BY <1>13, <2>1, <2>3, <2>4, <2>5
<1>16. CASE WriteFrame
  <2>1. offset # Idle /\ packets' = packets
    BY <1>16 DEF WriteFrame, InFDRI
  <2>2. AtSlot(data, last)' /\ LandsInPlace'
    <3>1. AtSlot(data, last)
      BY <1>10, <2>1
    <3> HIDE DEF last
    <3>2. QED
      BY <1>4, <1>6, <1>16, <3>1, WriteAtSlot
  <2>3. offset' # Idle
    <3> HIDE DEF last
    <3>1. offset' \in 0 .. Len(data) /\ Len(data) \in Nat
      BY <1>4, <2>2 DEF AtSlot
    <3>2. QED
      BY <3>1 DEF Idle
  <2>4. Handled(s, m)'
    BY <2>1 DEF Handled
  <2>5. QED
    BY <1>13, <2>2, <2>3, <2>4
<1>17. CASE WriteLastFrame
  <2>1. offset # Idle /\ offset' = Idle /\ Consume
    BY <1>17 DEF WriteLastFrame, InFDRI
  <2>2. LandsInPlace'
    <3>1. AtSlot(data, last)
      BY <1>10, <2>1
    <3> HIDE DEF last
    <3>2. QED
      BY <1>4, <1>6, <1>17, <3>1, WriteLastInPlace
  <2>3. QED
    BY <1>1, <1>14, <2>1, <2>2
<1>18. CASE EndFDRI
  <2>1. offset' = Idle /\ Consume /\ loaded' = loaded
    BY <1>18 DEF EndFDRI
  <2>2. LandsInPlace'
    BY <1>3, <2>1 DEF LandsInPlace
  <2>3. QED
    BY <1>1, <1>14, <2>1, <2>2
<1>19. QED
  BY <1>7, <1>15, <1>16, <1>17, <1>18

LEMMA SeekingStep ==
  ASSUME InPlace, NEW s, NEW chunks, NEW c, NEW turn, NEW m,
         IsSeeking(s, chunks, c, turn), Handled(s, m),
         SeekingRegisters(chunks, c, turn, m), DeviceNext, UNCHANGED design
  PROVE  InPlace' /\ InSeeking'
<1>1. /\ IsForPart' /\ walk' = walk
      /\ IsSeeking(s, chunks, c, turn)'
      /\ \A chunk : ChunkData(chunk)' = ChunkData(chunk)
  BY DeviceKept, StreamKept DEF InPlace
<1>2. c \in Nat \ {0} /\ Len(s) = 4 + 2 * c /\ IsSequence(s)
  BY DEF IsSeeking, AreChunks
<1>3. UNCHANGED loaded => LandsInPlace'
  BY DEF InPlace, LandsInPlace
<1>4. SUFFICES /\ LandsInPlace'
               /\ \E q : Handled(s, q)' /\ SeekingRegisters(chunks, c, turn, q)'
  BY <1>1 DEF InPlace, InSeeking
<1>5. CASE Return
  <2>1. /\ packets = <<>>
        /\ UNCHANGED <<packets, registers, writePosition, loaded, offset>>
    BY <1>5 DEF Return
  <2>2. Handled(s, m)'
    BY <2>1 DEF Handled
  <2>3. \A i \in 1 .. c : m # 3 + 2 * i
    <3>1. m = Len(s)
      BY <1>2, <2>1, PacketsLeft
    <3>2. QED
      BY <1>2, <3>1
  <2>4. SeekingRegisters(chunks, c, turn, m)'
    BY <1>1, <2>1, <2>3 DEF registers, writePosition, SeekingRegisters
  <2>5. QED
    BY <1>3, <2>1, <2>2, <2>4
<1>6. CASE ~ Return
  <2>1. packets # <<>>
    <3>1. SUFFICES ASSUME offset # Idle PROVE packets # <<>>
      BY <1>6, StepOfPacket
    <3>2. PICK i \in 1 .. c : m = 3 + 2 * i
      BY <3>1 DEF SeekingRegisters
    <3>3. m # Len(s)
      BY <1>2, <3>2
    <3>4. QED
      BY <1>2, <3>3, PacketsLeft
  <2>2. m \in 0 .. Len(s) - 1
    BY <1>2, <2>1, HeadOfStream
  <2>3. SeekingAt(s, chunks, c, turn, m)
    BY <2>2, SeekingPacket
  <2>4. \/ m \in 0 .. 3
        \/ \E i \in 1 .. c : m = 2 + 2 * i
        \/ \E i \in 1 .. c : m = 3 + 2 * i
    BY <2>3 DEF SeekingAt
  <2>5. CASE m \in 0 .. 3
    <3>1. /\ UNCHANGED loaded
          /\ Handled(s, m + 1)' /\ SeekingRegisters(chunks, c, turn, m + 1)'
      BY <2>1, <2>5, SeekingSetUp
    <3>2. QED
      BY <1>3, <3>1
  <2>6. CASE \E i \in 1 .. c : m = 2 + 2 * i
    <3>1. PICK i \in 1 .. c : m = 2 + 2 * i
      BY <2>6
    <3>2. /\ UNCHANGED loaded
          /\ Handled(s, m + 1)' /\ SeekingRegisters(chunks, c, turn, m + 1)'
      BY <2>1, <3>1, SeekingSeek
    <3>3. QED
      BY <1>3, <3>2
  <2>7. CASE \E i \in 1 .. c : m = 3 + 2 * i
    <3>1. PICK i \in 1 .. c : m = 3 + 2 * i
      BY <2>7
    <3>2. QED
      BY <2>1, <3>1, SeekingFrames
  <2>8. QED
    BY <2>4, <2>5, <2>6, <2>7
<1>7. QED
  BY <1>5, <1>6

-----------------------------------------------------------------------------
LEMMA InitialStream == Init => StreamInv
<1> SUFFICES ASSUME Init PROVE StreamInv
  OBVIOUS
<1>1. /\ part \in Parts /\ design = [a \in Frames(part) |-> a]
      /\ loaded = <<>> /\ DeviceInit
  BY DEF Init, DeviceInit
<1>2. InPlace
  BY <1>1 DEF InPlace, IsForPart, LandsInPlace
<1>3. IsPart(part) /\ frames \in Nat /\ Len(walk) = frames
  <2>1. IsPart(part)
    BY <1>1, StreamsAssumption
  <2>2. frames \in Nat /\ walk \in [1 .. frames -> Frames(part)]
    BY <2>1, FramesInOrder DEF frames, walk
  <2>3. QED
    BY <2>1, <2>2
<1>4. PICK cuts \in SUBSET (1 .. Len(walk) - 1) :
        \/ \E marker \in Markers : packets = MarkedStream(walk, cuts, marker)
        \/ \E arrangement \in Bijection(1 .. Cardinality(cuts) + 1,
                                        1 .. Cardinality(cuts) + 1) :
             packets = SeekingStream(walk, cuts, arrangement)
  <2>1. InOrder(Frames(part), Less) = walk
    BY DEF walk, FrameOrder
  <2>2. \E order \in {walk} :
        \E cuts \in SUBSET (1 .. Len(order) - 1) :
          /\ Cardinality(cuts) <= MaxCuts
          /\ \/ \E marker \in Markers : packets = MarkedStream(order, cuts, marker)
             \/ \E arrangement \in Bijection(1 .. Cardinality(cuts) + 1,
                                        1 .. Cardinality(cuts) + 1) :
                  packets = SeekingStream(order, cuts, arrangement)
    BY DEF Init, walk, FrameOrder
  <2>3. QED
    BY <2>2
<1> DEFINE chunks == Chunks(walk, cuts)
           c == Cardinality(cuts) + 1
<1>5. AreChunks(chunks, c, frames)
  BY <1>3, <1>4, ChunksAreChunks
<1> HIDE DEF c
<1>6. \A s : IsSequence(s) /\ packets = s => Handled(s, 0)
  <2> SUFFICES ASSUME NEW s, IsSequence(s), packets = s PROVE Handled(s, 0)
    OBVIOUS
  <2>1. PICK S : s \in Seq(S)
    BY DEF IsSequence
  <2>2. SubSeq(s, 0 + 1, Len(s)) = s /\ 0 \in 0 .. Len(s)
    BY <2>1
  <2>3. QED
    BY <2>2 DEF Handled
<1>7. c \in Nat \ {0}
  BY <1>5 DEF AreChunks
<1>8. CASE \E marker \in Markers : packets = MarkedStream(walk, cuts, marker)
  <2>1. PICK marker : packets = MarkedStream(walk, cuts, marker)
    BY <1>8
  <2>2. IsMarked(packets, chunks, c, marker)
    BY <1>5, <2>1, MarkedIsMarked
  <2>3. Handled(packets, 0)
    BY <1>6, <2>2 DEF IsMarked
  <2>4. MarkedRegisters(chunks, c, 0)
    BY <1>1, <1>7 DEF DeviceInit, MarkedRegisters
  <2>5. QED
    BY <1>2, <2>2, <2>3, <2>4 DEF StreamInv, InMarked
<1>9. CASE \E arrangement \in Bijection(1 .. Cardinality(cuts) + 1,
                                        1 .. Cardinality(cuts) + 1) :
             packets = SeekingStream(walk, cuts, arrangement)
  <2>1. PICK turn \in Bijection(1 .. c, 1 .. c) :
          packets = SeekingStream(walk, cuts, turn)
    BY <1>9 DEF c
  <2>2. turn \in [1 .. c -> 1 .. c]
    BY <2>1 DEF Bijection, Injection
  <2>3. IsSeeking(packets, chunks, c, turn)
    BY <1>5, <2>1, <2>2, SeekingIsSeeking
  <2>4. Handled(packets, 0)
    BY <1>6, <2>3 DEF IsSeeking
  <2>5. SeekingRegisters(chunks, c, turn, 0)
    BY <1>1, <1>7 DEF DeviceInit, SeekingRegisters
  <2>6. QED
    BY <1>2, <2>3, <2>4, <2>5 DEF StreamInv, InSeeking
<1>10. QED
  BY <1>4, <1>8, <1>9

LEMMA StreamInvStep == StreamInv /\ [Next]_vars => StreamInv'
<1> SUFFICES ASSUME StreamInv, [Next]_vars PROVE StreamInv'
  OBVIOUS
<1>1. CASE UNCHANGED vars
  <2>1. /\ UNCHANGED <<part, design>>
        /\ UNCHANGED <<packets, mask_register, ctl1_register, command_register,
                       frame_address_register, start_new_write,
                       current_frame_address, loaded, offset>>
    BY <1>1 DEF vars, deviceVars
  <2>2. IsForPart
    BY DEF StreamInv, InPlace
  <2>3. InPlace'
    BY <2>1, <2>2, SlotsKept DEF StreamInv, InPlace, LandsInPlace
  <2>4. /\ walk' = walk /\ frames' = frames
        /\ \A chunk : ChunkData(chunk)' = ChunkData(chunk)
        /\ \A k, last : SlotsFrom(walk, k, last)' = SlotsFrom(walk, k, last)
    BY <2>1, <2>2, SlotsKept, StreamKept
  <2>5. \A data, last : AtSlot(data, last) => AtSlot(data, last)'
    BY <2>1, <2>4 DEF AtSlot
  <2>6. CASE InMarked
    <3>1. PICK s, chunks, c, marker, m :
            /\ IsMarked(s, chunks, c, marker) /\ Handled(s, m)
            /\ MarkedRegisters(chunks, c, m)
      BY <2>6 DEF InMarked
    <3>2. IsMarked(s, chunks, c, marker)'
      BY <2>1, <2>2, <3>1, StreamKept
    <3>3. Handled(s, m)'
      BY <2>1, <3>1 DEF Handled
    <3>4. MarkedRegisters(chunks, c, m)'
      BY <2>1, <2>4, <2>5, <3>1 DEF MarkedRegisters
    <3>5. QED
      BY <2>3, <3>2, <3>3, <3>4 DEF StreamInv, InMarked
  <2>7. CASE InSeeking
    <3>1. PICK s, chunks, c, turn, m :
            /\ IsSeeking(s, chunks, c, turn) /\ Handled(s, m)
            /\ SeekingRegisters(chunks, c, turn, m)
      BY <2>7 DEF InSeeking
    <3>2. IsSeeking(s, chunks, c, turn)'
      BY <2>1, <2>2, <3>1, StreamKept
    <3>3. Handled(s, m)'
      BY <2>1, <3>1 DEF Handled
    <3>4. SeekingRegisters(chunks, c, turn, m)'
      BY <2>1, <2>4, <2>5, <3>1 DEF SeekingRegisters
    <3>5. QED
      BY <2>3, <3>2, <3>3, <3>4 DEF StreamInv, InSeeking
  <2>8. QED
    BY <2>6, <2>7 DEF StreamInv
<1>2. CASE Next
  <2>1. DeviceNext /\ UNCHANGED design /\ InPlace
    BY <1>2 DEF Next, StreamInv
  <2>2. CASE InMarked
    <3>1. PICK s, chunks, c, marker, m :
            /\ IsMarked(s, chunks, c, marker) /\ Handled(s, m)
            /\ MarkedRegisters(chunks, c, m)
      BY <2>2 DEF InMarked
    <3>2. QED
      BY <2>1, <3>1, MarkedStep DEF StreamInv
  <2>3. CASE InSeeking
    <3>1. PICK s, chunks, c, turn, m :
            /\ IsSeeking(s, chunks, c, turn) /\ Handled(s, m)
            /\ SeekingRegisters(chunks, c, turn, m)
      BY <2>3 DEF InSeeking
    <3>2. QED
      BY <2>1, <3>1, SeekingStep DEF StreamInv
  <2>4. QED
    BY <2>2, <2>3 DEF StreamInv
<1>3. QED
  BY <1>1, <1>2

(* Wherever a bitstream is cut into packets, whatever its progress markers *)
(* show and in whatever order it seeks its chunks: the FDRI loop of        *)
(* InitWithPackets never stores a frame at the address of another one.     *)
THEOREM LandsRightly == Spec => []LandsInPlace
<1>1. Init => StreamInv
  BY InitialStream
<1>2. StreamInv /\ [Next]_vars => StreamInv'
  BY StreamInvStep
<1>3. StreamInv => LandsInPlace
  BY DEF StreamInv, InPlace
<1>4. QED
  BY <1>1, <1>2, <1>3, PTL DEF Spec
=============================================================================
