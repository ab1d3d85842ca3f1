------------------------ MODULE BitstreamFileProofs ------------------------
(***************************************************************************)
(* Parsing undoes writing, for packets with any data and for every limit   *)
(* on the counts, whatever follows a packet in the stream; and first, the  *)
(* induction over numbers and sequences that this rests on.                *)
(*                                                                         *)
(* Then, BitstreamFile for every set of packages: the iterators of the     *)
(* writer stay in the package, those of the reader agree with each other,  *)
(* the length that is written vouches for the bytes, and packets are       *)
(* transferred as PacketTransfer promises.                                 *)
(***************************************************************************)
EXTENDS BitstreamFile, FiniteSetTheorems, SequenceTheorems,
        WellFoundedInduction, TLAPS

-----------------------------------------------------------------------------
(* Induction for the provers, which cannot instantiate a theorem with an   *)
(* operator for a parameter: what holds is put as a set.  With it, what    *)
(* FlattenSeq, defined by recursion, makes of a sequence.                  *)

NatLess == {ss \in Nat \X Nat : ss[1] < ss[2]}

LEMMA NatLessWellFounded == IsWellFoundedOn(NatLess, Nat)
  BY NatLessThanWellFounded DEF OpToRel, NatLess

LEMMA NatSetInduction ==
  ASSUME NEW S, 0 \in S, \A n \in Nat : n \in S => n + 1 \in S
  PROVE  Nat \subseteq S
<1> SUFFICES ASSUME Nat \ S # {} PROVE FALSE
  OBVIOUS
<1>1. PICK n \in Nat \ S : \A m \in Nat \ S : ~ (<<m, n>> \in NatLess)
  <2>1. Nat \ S \subseteq Nat
    OBVIOUS
  <2>2. QED
    BY <2>1, NatLessWellFounded, WFMin
<1>2. n # 0 /\ n - 1 \in Nat /\ n - 1 < n
  BY <1>1
<1>3. <<n - 1, n>> \in NatLess
  BY <1>2 DEF NatLess
<1>4. n - 1 \in S
  BY <1>1, <1>2, <1>3
<1>5. QED
  BY <1>1, <1>2, <1>4

(* FlattenSeq is the last of the joins of the first sequences.             *)
IsJoins(f, seqs, n) ==
  f = [i \in 1 .. n |-> IF i = 1 THEN seqs[i] ELSE f[i - 1] \o seqs[i]]

LEMMA JoinsExist ==
  ASSUME NEW seqs, NEW n \in Nat
  PROVE  \E f : IsJoins(f, seqs, n)
<1> DEFINE K == {k \in Nat : \E f : IsJoins(f, seqs, k)}
<1>1. 0 \in K
  <2> DEFINE f == [i \in 1 .. 0 |-> <<>>]
  <2>1. f = [i \in 1 .. 0 |-> IF i = 1 THEN seqs[i] ELSE f[i - 1] \o seqs[i]]
    OBVIOUS
  <2> HIDE DEF f
  <2>2. QED
    BY <2>1 DEF IsJoins
<1>2. ASSUME NEW k \in Nat, k \in K
      PROVE  k + 1 \in K
  <2>1. PICK f : IsJoins(f, seqs, k)
    BY <1>2
  <2> DEFINE g == [i \in 1 .. k + 1 |->
                    IF i \in 1 .. k THEN f[i]
                    ELSE IF i = 1 THEN seqs[i] ELSE f[i - 1] \o seqs[i]]
  <2>2. \A i \in 1 .. k :
          f[i] = IF i = 1 THEN seqs[i] ELSE f[i - 1] \o seqs[i]
    BY <2>1 DEF IsJoins
  <2>3. \A i \in 1 .. k + 1 :
          g[i] = IF i = 1 THEN seqs[i] ELSE g[i - 1] \o seqs[i]
    <3> TAKE i \in 1 .. k + 1
    <3>1. i # 1 => i - 1 \in 1 .. k
      OBVIOUS
    <3>2. i # 1 => g[i - 1] = f[i - 1]
      BY <3>1
    <3>3. g[i] = IF i = 1 THEN seqs[i] ELSE f[i - 1] \o seqs[i]
      BY <2>2
    <3>4. QED
      BY <3>2, <3>3
  <2>4. g = [i \in DOMAIN g |-> g[i]] /\ DOMAIN g = 1 .. k + 1
    OBVIOUS
  <2> HIDE DEF g
  <2>5. g = [i \in 1 .. k + 1 |-> IF i = 1 THEN seqs[i] ELSE g[i - 1] \o seqs[i]]
    BY <2>3, <2>4
  <2>6. IsJoins(g, seqs, k + 1)
    BY <2>5 DEF IsJoins
  <2>7. QED
    BY <2>6
<1>3. Nat \subseteq K
  <2> HIDE DEF K
  <2>1. QED
    BY <1>1, <1>2, NatSetInduction
<1>4. QED
  BY <1>3

(* Joins are determined by the sequences that are joined.                  *)
LEMMA JoinsAgree ==
  \A s, t, f, g : \A m, n \in Nat :
    IsJoins(f, s, m) /\ IsJoins(g, t, n) /\ m <= n
      /\ (\A i \in 1 .. m : s[i] = t[i])
    => \A i \in 1 .. m : f[i] = g[i]
<1> SUFFICES ASSUME NEW s, NEW t, NEW f, NEW g, NEW m \in Nat, NEW n \in Nat,
                    IsJoins(f, s, m), IsJoins(g, t, n), m <= n,
                    \A i \in 1 .. m : s[i] = t[i]
             PROVE  \A i \in 1 .. m : f[i] = g[i]
  OBVIOUS
<1> DEFINE K == {k \in Nat : k \in 1 .. m => f[k] = g[k]}
<1>1. \A k \in 1 .. m :
        /\ f[k] = IF k = 1 THEN s[k] ELSE f[k - 1] \o s[k]
        /\ g[k] = IF k = 1 THEN t[k] ELSE g[k - 1] \o t[k]
  <2>1. \A k \in 1 .. m : f[k] = IF k = 1 THEN s[k] ELSE f[k - 1] \o s[k]
    BY DEF IsJoins
  <2>2. \A k \in 1 .. n : g[k] = IF k = 1 THEN t[k] ELSE g[k - 1] \o t[k]
    BY DEF IsJoins
  <2>3. 1 .. m \subseteq 1 .. n
    OBVIOUS
  <2>4. QED
    BY <2>1, <2>2, <2>3
<1>2. 0 \in K
  OBVIOUS
<1>3. ASSUME NEW k \in Nat, k \in K
      PROVE  k + 1 \in K
  <2> SUFFICES ASSUME k + 1 \in 1 .. m PROVE f[k + 1] = g[k + 1]
    OBVIOUS
  <2>1. CASE k = 0
    BY <1>1, <2>1
  <2>2. CASE k # 0
    <3>1. k \in 1 .. m /\ k + 1 # 1 /\ (k + 1) - 1 = k
      BY <2>2
    <3>2. f[k] = g[k] /\ s[k + 1] = t[k + 1]
      BY <1>3, <3>1
    <3>3. QED
      BY <1>1, <3>1, <3>2
  <2>3. QED
    BY <2>1, <2>2
<1>4. Nat \subseteq K
  <2> HIDE DEF K
  <2>1. QED
    BY <1>2, <1>3, NatSetInduction
<1>5. QED
  BY <1>4

LEMMA FlattenIsJoin ==
  ASSUME NEW seqs, Len(seqs) \in Nat, Len(seqs) # 0
  PROVE  \E f : IsJoins(f, seqs, Len(seqs)) /\ FlattenSeq(seqs) = f[Len(seqs)]
<1> DEFINE f == CHOOSE g : g = [i \in 1 .. Len(seqs) |->
                   IF i = 1 THEN seqs[i] ELSE g[i - 1] \o seqs[i]]
<1>1. f = [i \in 1 .. Len(seqs) |->
             IF i = 1 THEN seqs[i] ELSE f[i - 1] \o seqs[i]]
  <2>1. \E g : g = [i \in 1 .. Len(seqs) |->
                      IF i = 1 THEN seqs[i] ELSE g[i - 1] \o seqs[i]]
    BY JoinsExist DEF IsJoins
  <2>2. QED
    BY <2>1
<1>2. FlattenSeq(seqs) = f[Len(seqs)]
  BY DEF FlattenSeq
<1>3. QED
  <2> HIDE DEF f
  <2>1. QED
    BY <1>1, <1>2 DEF IsJoins

(* Flattening one sequence more joins it to the rest.                      *)
LEMMA FlattenAppend ==
  ASSUME NEW S, NEW seqs \in Seq(Seq(S)), NEW last \in Seq(S)
  PROVE  FlattenSeq(Append(seqs, last)) = FlattenSeq(seqs) \o last
<1> DEFINE n == Len(seqs)
           all == Append(seqs, last)
<1>1. /\ n \in Nat /\ Len(all) = n + 1 /\ all[n + 1] = last
      /\ \A i \in 1 .. n : all[i] = seqs[i]
  BY LenProperties, AppendProperties
<1>2. CASE n = 0
  <2>1. seqs = <<>> /\ FlattenSeq(seqs) = <<>>
    BY <1>2, EmptySeq DEF FlattenSeq
  <2>2. PICK f : IsJoins(f, all, 1) /\ FlattenSeq(all) = f[1]
    BY <1>1, <1>2, FlattenIsJoin
  <2>3. FlattenSeq(all) = last
    BY <1>1, <1>2, <2>2 DEF IsJoins
  <2>4. QED
    BY <2>1, <2>3, ConcatEmptySeq
<1>3. CASE n # 0
  <2> HIDE DEF n, all
  <2>1. PICK f : IsJoins(f, seqs, n) /\ FlattenSeq(seqs) = f[n]
    BY <1>1, <1>3, FlattenIsJoin DEF n
  <2>2. PICK g : IsJoins(g, all, n + 1) /\ FlattenSeq(all) = g[n + 1]
    <3>1. Len(all) \in Nat /\ Len(all) # 0
      BY <1>1
    <3>2. \E g : IsJoins(g, all, Len(all)) /\ FlattenSeq(all) = g[Len(all)]
      BY <3>1, FlattenIsJoin
    <3>3. QED
      BY <1>1, <3>2
  <2>3. f[n] = g[n]
    <3>1. n \in Nat /\ n + 1 \in Nat /\ n <= n + 1
      BY <1>1
    <3>2. \A i \in 1 .. n : seqs[i] = all[i]
      BY <1>1
    <3>3. \A i \in 1 .. n : f[i] = g[i]
      BY <2>1, <2>2, <3>1, <3>2, JoinsAgree
    <3>4. QED
      BY <1>1, <1>3, <3>3
  <2>4. g[n + 1] = g[n] \o all[n + 1]
    <3>1. \A i \in 1 .. n + 1 :
            g[i] = IF i = 1 THEN all[i] ELSE g[i - 1] \o all[i]
      BY <2>2 DEF IsJoins
    <3>2. n + 1 \in 1 .. n + 1 /\ n + 1 # 1 /\ (n + 1) - 1 = n
      BY <1>1, <1>3
    <3>3. QED
      BY <3>1, <3>2
  <2>5. FlattenSeq(all) = FlattenSeq(seqs) \o last
    BY <1>1, <2>1, <2>2, <2>3, <2>4
  <2>6. QED
    BY <2>5 DEF all
<1>4. QED
  BY <1>2, <1>3

(* What holds for the empty sequence and from a sequence to a longer one   *)
(* holds for all.                                                          *)
LEMMA SeqSetInduction ==
  ASSUME NEW S, NEW T, <<>> \in T,
         \A s \in Seq(S), e \in S : s \in T => Append(s, e) \in T
  PROVE  Seq(S) \subseteq T
<1> DEFINE K == {n \in Nat : \A s \in Seq(S) : Len(s) = n => s \in T}
<1>1. 0 \in K
  BY EmptySeq
<1>2. ASSUME NEW n \in Nat, n \in K
      PROVE  n + 1 \in K
  <2> SUFFICES ASSUME NEW s \in Seq(S), Len(s) = n + 1 PROVE s \in T
    OBVIOUS
  <2>1. s # <<>>
    BY EmptySeq
  <2>2. PICK front \in Seq(S), e \in S : s = Append(front, e)
    BY <2>1, SequenceEmptyOrAppend
  <2>3. Len(front) = n
    BY <2>2, AppendProperties, LenProperties
  <2>4. QED
    BY <1>2, <2>2, <2>3
<1>3. Nat \subseteq K
  <2> HIDE DEF K
  <2>1. QED
    BY <1>1, <1>2, NatSetInduction
<1>4. QED
  BY <1>3, LenProperties

-----------------------------------------------------------------------------
(* The words of one packet and what follows it, as the writer puts them.   *)
Stream(packet, rest) == <<PacketHeader(packet)>> \o packet.data \o rest

-----------------------------------------------------------------------------
LEMMA WordsOfPacket ==
  ASSUME NEW W, NEW header \in W, NEW data \in Seq(W), NEW rest \in Seq(W)
  PROVE  LET input == <<header>> \o data \o rest
         IN /\ input \in Seq(W)
            /\ input # <<>>
            /\ Len(input) = 1 + Len(data) + Len(rest)
            /\ Head(input) = header
            /\ Data(input, Len(data)) = data
            /\ Rest(input, Len(data)) = rest
<1> DEFINE front == <<header>> \o data
           input == front \o rest
           d == Data(input, Len(data))
           r == Rest(input, Len(data))
<1>1. <<header>> \in Seq(W) /\ Len(<<header>>) = 1 /\ <<header>>[1] = header
  OBVIOUS
<1>2. /\ front \in Seq(W)
      /\ Len(front) = 1 + Len(data)
      /\ \A i \in 1 .. 1 + Len(data) :
           front[i] = IF i = 1 THEN header ELSE data[i - 1]
  BY <1>1, ConcatProperties, LenProperties
<1>3. /\ input \in Seq(W)
      /\ Len(input) = 1 + Len(data) + Len(rest)
      /\ \A i \in 1 .. 1 + Len(data) + Len(rest) :
           input[i] = IF i <= 1 + Len(data) THEN front[i]
                      ELSE rest[i - (1 + Len(data))]
  BY <1>2, ConcatProperties
<1>4. Len(data) \in Nat /\ Len(rest) \in Nat
  BY LenProperties
<1>5. input # <<>> /\ Head(input) = header
  BY <1>2, <1>3, <1>4
<1>6. d = data
  <2>1. \A i \in 2 .. Len(data) + 1 : input[i] = data[i - 1] /\ input[i] \in W
    BY <1>2, <1>3, <1>4, ElementOfSeq
  <2>2. d \in Seq(W) /\ Len(d) = Len(data)
    BY <2>1, <1>4, SubSeqProperties DEF Data
  <2>3. \A i \in 1 .. Len(data) : d[i] = input[i + 1]
    BY <2>1, <1>4, SubSeqProperties DEF Data
  <2>4. \A i \in 1 .. Len(data) : d[i] = data[i]
    BY <2>1, <2>3, <1>4
  <2>5. QED
    BY <2>2, <2>4, SeqEqual
<1>7. r = rest
  <2>1. \A i \in Len(data) + 2 .. Len(input) :
          input[i] = rest[i - (1 + Len(data))] /\ input[i] \in W
    BY <1>3, <1>4, ElementOfSeq
  <2>2. r \in Seq(W) /\ Len(r) = Len(rest)
    BY <2>1, <1>3, <1>4, SubSeqProperties DEF Rest
  <2>3. \A i \in 1 .. Len(rest) : r[i] = input[i + Len(data) + 1]
    BY <2>1, <1>3, <1>4, SubSeqProperties DEF Rest
  <2>4. ASSUME NEW i \in 1 .. Len(rest) PROVE r[i] = rest[i]
    <3> DEFINE j == i + Len(data) + 1
    <3>1. j \in Len(data) + 2 .. Len(input) /\ j - (1 + Len(data)) = i
      BY <1>3, <1>4
    <3>2. input[j] = rest[i]
      BY <2>1, <3>1
    <3>3. QED
      BY <2>3, <3>2
  <2>5. QED
    BY <2>2, <2>4, SeqEqual
<1>8. QED
  BY <1>3, <1>5, <1>6, <1>7

LEMMA TailIsRest ==
  ASSUME NEW W, NEW input \in Seq(W), input # <<>>
  PROVE  Tail(input) = Rest(input, 0)
<1>1. 0 + 2 = 2
  OBVIOUS
<1>2. QED
  BY <1>1, TailIsSubSeq DEF Rest

(* A count that fits its field is the length of the data.                  *)
LEMMA HeaderOfPacket ==
  ASSUME NEW W, NEW packet, packet.data \in Seq(W),
         \/ packet.type = 1 /\ Len(packet.data) < TypeOneLimit
         \/ packet.type = 2 /\ Len(packet.data) < TypeTwoLimit
  PROVE  /\ PacketHeader(packet).type = packet.type
         /\ PacketHeader(packet).opcode = packet.opcode
         /\ PacketHeader(packet).count = Len(packet.data)
         /\ packet.type = 1 => PacketHeader(packet).register = packet.address
<1>1. Len(packet.data) \in Nat
  BY LenProperties
<1>2. \A n, m \in Nat : n < m => n % m = n
  OBVIOUS
<1>3. CASE packet.type = 1
  BY <1>1, <1>2, <1>3, CountAssumption DEF PacketHeader, Word
<1>4. CASE packet.type = 2
  BY <1>1, <1>2, <1>4, CountAssumption DEF PacketHeader, Word
<1>5. QED
  BY <1>3, <1>4

(* A packet whose words are all there is parsed.                           *)
LEMMA ParsesWholePacket ==
  ASSUME NEW input, NEW before, NEW header, NEW address,
         Registers(header, before) = {address},
         input # <<>>, Head(input) = header, Len(input) \in Nat,
         header.type \in {1, 2}, header.count \in Nat,
         header.count + 1 <= Len(input)
  PROVE  InitWithWords(input, before) =
           Result(Rest(input, header.count),
                  {Packet(header.type, header.opcode, address,
                          Data(input, header.count))})
<1>1. \A m, n \in Nat : m + 1 <= n => ~ m > n - 1
  OBVIOUS
<1>2. ~ Incomplete(input)
  BY <1>1 DEF Incomplete
<1>3. header.type # 0
  OBVIOUS
<1>4. InitWithWords(input, before) =
        Result(Rest(input, header.count),
               {Packet(header.type, header.opcode, register,
                       Data(input, header.count))
                  : register \in Registers(header, before)})
  BY <1>2, <1>3, Zenon DEF InitWithWords
<1>5. {Packet(header.type, header.opcode, register, Data(input, header.count))
         : register \in Registers(header, before)}
      = {Packet(header.type, header.opcode, address, Data(input, header.count))}
  OBVIOUS
<1>6. QED
  BY <1>4, <1>5, Zenon

-----------------------------------------------------------------------------
(* Reading back: the packet that the writer put into the stream is the one *)
(* the parser gets from it, and all of the rest is left, if the package is *)
(* sound there.                                                            *)
THEOREM ParsesWhatIsWritten ==
  ASSUME NEW W, NEW packets \in Seq([type : Nat, opcode : STRING,
                                     address : STRING, data : Seq(W)]),
         NEW i \in DOMAIN packets, Sound(packets, i),
         PacketHeader(packets[i]) \in W,
         NEW rest \in Seq(W)
  PROVE  InitWithWords(Stream(packets[i], rest),
                       IF i = 1 THEN {} ELSE {packets[i - 1]})
           = Result(rest, {packets[i]})
<1> DEFINE packet == packets[i]
           header == PacketHeader(packet)
           input == Stream(packet, rest)
           before == IF i = 1 THEN {} ELSE {packets[i - 1]}
<1>1. /\ packet \in [type : Nat, opcode : STRING, address : STRING, data : Seq(W)]
      /\ packet.data \in Seq(W)
      /\ packet = Packet(packet.type, packet.opcode, packet.address, packet.data)
  <2>1. packet \in [type : Nat, opcode : STRING, address : STRING, data : Seq(W)]
    BY ElementOfSeq, LenProperties
  <2>2. QED
    BY <2>1 DEF Packet
<1>2. /\ input \in Seq(W) /\ input # <<>>
      /\ Len(input) = 1 + Len(packet.data) + Len(rest)
      /\ Head(input) = header
      /\ Data(input, Len(packet.data)) = packet.data
      /\ Rest(input, Len(packet.data)) = rest
  BY <1>1, WordsOfPacket DEF Stream
<1>3. Len(packet.data) \in Nat /\ Len(rest) \in Nat
  BY <1>1, LenProperties
<1>4. CASE packet = Packet(0, "nop", "CRC", <<>>)
  <2>1. header.type = 0 /\ packet.data = <<>>
    BY <1>4 DEF PacketHeader, Packet, Word
  <2>2. ~ Incomplete(input)
    BY <1>2, <2>1 DEF Incomplete
  <2>3. Tail(input) = rest
    <3>1. Tail(input) = Rest(input, 0)
      BY <1>2, TailIsRest
    <3>2. Len(packet.data) = 0
      BY <2>1
    <3>3. QED
      BY <1>2, <3>1, <3>2
  <2>4. QED
    BY <1>2, <1>4, <2>1, <2>2, <2>3 DEF InitWithWords
<1>5. CASE \/ packet.type = 1 /\ Len(packet.data) < TypeOneLimit
           \/ /\ packet.type = 2 /\ Len(packet.data) < TypeTwoLimit
              /\ i > 1 /\ packet.address = packets[i - 1].address
  <2>1. /\ header.type = packet.type /\ header.opcode = packet.opcode
        /\ header.count = Len(packet.data)
        /\ packet.type = 1 => header.register = packet.address
    BY <1>1, <1>5, HeaderOfPacket
  <2>2. header.type \in {1, 2} /\ header.count + 1 <= Len(input)
    <3>1. packet.type \in {1, 2}
      BY <1>5
    <3>2. Len(packet.data) + 1 <= Len(input)
      BY <1>2, <1>3
    <3>3. QED
      BY <2>1, <3>1, <3>2
  <2>3. Registers(header, before) = {packet.address}
    <3>1. CASE packet.type = 1
      BY <2>1, <3>1 DEF Registers
    <3>2. CASE packet.type # 1
      <4>1. before = {packets[i - 1]} /\ packet.address = packets[i - 1].address
        BY <1>5, <3>2
      <4>2. QED
        BY <2>1, <3>2, <4>1 DEF Registers
    <3>3. QED
      BY <3>1, <3>2
  <2>4. InitWithWords(input, before) =
          Result(Rest(input, header.count),
                 {Packet(header.type, header.opcode, packet.address,
                         Data(input, header.count))})
    <3>1. Len(input) \in Nat /\ header.count \in Nat
      BY <1>2, <1>3, <2>1
    <3>2. QED
      BY <1>2, <2>2, <2>3, <3>1, ParsesWholePacket
  <2>5. QED
    BY <1>1, <1>2, <2>1, <2>4
<1>6. QED
  BY <1>4, <1>5 DEF Sound

(* A file that ends within a packet: nothing of the packet is consumed and *)
(* there is no packet, so what comes before the cut is all that is read.   *)
THEOREM LeavesWhatIsCut ==
  ASSUME NEW W, NEW packet, packet.data \in Seq(W),
         \/ packet.type = 1 /\ Len(packet.data) < TypeOneLimit
         \/ packet.type = 2 /\ Len(packet.data) < TypeTwoLimit,
         PacketHeader(packet) \in W,
         NEW read \in Seq(W), Len(read) < Len(packet.data), NEW before
  PROVE  InitWithWords(<<PacketHeader(packet)>> \o read, before)
           = Result(<<PacketHeader(packet)>> \o read, {})
<1> DEFINE header == PacketHeader(packet)
           input == <<header>> \o read
<1>1. header.type \in {1, 2} /\ header.count = Len(packet.data)
  BY HeaderOfPacket
<1>2. /\ Len(input) = 1 + Len(read)
      /\ Head(input) = header
  <2>1. input = <<header>> \o read \o <<>>
    BY ConcatProperties, ConcatEmptySeq
  <2>2. <<>> \in Seq(W) /\ Len(<<>>) = 0 /\ Len(read) \in Nat
    BY LenProperties
  <2>3. QED
    BY <2>1, <2>2, WordsOfPacket
<1>3. Incomplete(input)
  <2>1. \A m, n \in Nat : m < n => n > 1 + m - 1
    OBVIOUS
  <2>2. Len(read) \in Nat /\ Len(packet.data) \in Nat
    BY LenProperties
  <2>3. header.count > Len(input) - 1
    BY <1>1, <1>2, <2>1, <2>2
  <2>4. QED
    BY <1>1, <1>2, <2>3 DEF Incomplete
<1>4. QED
  BY <1>3, Zenon DEF InitWithWords

(* Whatever the words, parsing leaves all of them and has no packet, or    *)
(* leaves fewer: the loop over the packets of any file ends.               *)
THEOREM ParsingAdvances ==
  ASSUME NEW W, NEW input \in Seq(W), NEW before,
         \A word \in W : word.count \in Nat
  PROVE  LET result == InitWithWords(input, before)
         IN \/ result = Result(input, {})
            \/ result.left \in Seq(W) /\ Len(result.left) < Len(input)
<1> DEFINE result == InitWithWords(input, before)
           header == Head(input)
<1>1. CASE input = <<>> \/ Incomplete(input)
  BY <1>1, Zenon DEF InitWithWords
<1>2. CASE input # <<>> /\ ~ Incomplete(input)
  <2>1. /\ Len(input) \in Nat \ {0}
        /\ header \in W /\ header.count \in Nat
        /\ Tail(input) \in Seq(W) /\ Len(Tail(input)) = Len(input) - 1
    BY <1>2, EmptySeq, HeadTailProperties
  <2>2. CASE header.type = 0
    <3>1. result.left = Tail(input)
      BY <1>2, <2>2 DEF InitWithWords, Result
    <3>2. QED
      BY <2>1, <3>1
  <2>3. CASE header.type # 0 /\ header.type \in {1, 2}
    <3>1. result.left = Rest(input, header.count)
      BY <1>2, <2>3 DEF InitWithWords, Result
    <3>2. header.count <= Len(input) - 1
      BY <1>2, <2>1, <2>3 DEF Incomplete
    <3>3. \A i \in header.count + 2 .. Len(input) : input[i] \in W
      BY <2>1, ElementOfSeq
    <3>4. /\ Rest(input, header.count) \in Seq(W)
          /\ Len(Rest(input, header.count)) =
               IF header.count + 2 <= Len(input)
               THEN Len(input) - (header.count + 2) + 1 ELSE 0
      BY <2>1, <3>3, SubSeqProperties DEF Rest
    <3>5. QED
      BY <2>1, <3>1, <3>2, <3>4
  <2>4. CASE header.type # 0 /\ header.type \notin {1, 2}
    <3>1. result.left = <<>>
      BY <1>2, <2>4 DEF InitWithWords, Result
    <3>2. <<>> \in Seq(W) /\ Len(<<>>) = 0
      BY EmptySeq
    <3>3. QED
      BY <2>1, <3>1, <3>2
  <2>5. QED
    BY <2>2, <2>3, <2>4
<1>3. QED
  BY <1>1, <1>2

-----------------------------------------------------------------------------
(* The bytes of words and the words of packets.                            *)

(* All words of a bitstream: the provers cannot tell that a string is in   *)
(* STRING, and so not that headers and numbers are in AnyWord.             *)
StreamWord == AnyWord \cup {PacketHeader(packet) : packet \in AnyPacket}
                      \cup {Number(n) : n \in Nat}

Byte == StreamWord \X (1 .. WordBytes)

LEMMA BytesOfWord ==
  ASSUME NEW word \in StreamWord
  PROVE  /\ BytesOf(word) \in Seq(Byte)
         /\ Len(BytesOf(word)) = WordBytes
<1>1. BytesOf(word) \in [1 .. WordBytes -> Byte]
  BY DEF BytesOf, Byte
<1>2. BytesOf(word) \in Seq(Byte)
  <2>1. WordBytes \in Nat
    BY DEF WordBytes
  <2>2. QED
    BY <1>1, <2>1, SeqDef
<1>3. DOMAIN BytesOf(word) = 1 .. WordBytes
  BY <1>1
<1>4. QED
  BY <1>2, <1>3, LenProperties DEF WordBytes

(* A sequence that is made of another element by element.                  *)
LEMMA BytesAppend ==
  ASSUME NEW input \in Seq(StreamWord), NEW word \in StreamWord
  PROVE  Bytes(Append(input, word)) = Bytes(input) \o BytesOf(word)
<1> DEFINE n == Len(input)
           all == Append(input, word)
           these == [i \in DOMAIN input |-> BytesOf(input[i])]
           those == [i \in DOMAIN all |-> BytesOf(all[i])]
<1>1. /\ n \in Nat /\ DOMAIN input = 1 .. n
      /\ all \in Seq(StreamWord) /\ DOMAIN all = 1 .. n + 1
      /\ \A i \in 1 .. n : all[i] = input[i]
      /\ all[n + 1] = word
  BY LenProperties, AppendProperties
<1>2. /\ \A i \in DOMAIN input : input[i] \in StreamWord
      /\ \A i \in DOMAIN all : all[i] \in StreamWord
  BY <1>1, LenProperties
<1>3. these \in Seq(Seq(Byte)) /\ Len(these) = n
  <2>1. these \in [1 .. n -> Seq(Byte)]
    BY <1>1, <1>2, BytesOfWord
  <2>2. these \in Seq(Seq(Byte))
    BY <1>1, <2>1, SeqDef
  <2>3. QED
    BY <1>1, <2>1, <2>2, LenProperties
<1>4. BytesOf(word) \in Seq(Byte)
  BY BytesOfWord
<1>5. those = Append(these, BytesOf(word))
  <2>1. those \in [1 .. n + 1 -> Seq(Byte)]
    BY <1>1, <1>2, BytesOfWord
  <2>2. those \in Seq(Seq(Byte)) /\ Len(those) = n + 1
    <3>1. those \in Seq(Seq(Byte))
      BY <1>1, <2>1, SeqDef
    <3>2. QED
      BY <1>1, <2>1, <3>1, LenProperties
  <2>3. /\ Append(these, BytesOf(word)) \in Seq(Seq(Byte))
        /\ Len(Append(these, BytesOf(word))) = n + 1
        /\ \A i \in 1 .. n : Append(these, BytesOf(word))[i] = these[i]
        /\ Append(these, BytesOf(word))[n + 1] = BytesOf(word)
    <3> HIDE DEF these
    <3>1. QED
      BY <1>3, <1>4, AppendProperties
  <2>4. \A i \in 1 .. n + 1 : those[i] = Append(these, BytesOf(word))[i]
    <3> TAKE i \in 1 .. n + 1
    <3>1. CASE i = n + 1
      BY <1>1, <2>3, <3>1
    <3>2. CASE i # n + 1
      <4>1. i \in 1 .. n
        BY <1>1, <3>2
      <4>2. those[i] = BytesOf(input[i]) /\ these[i] = BytesOf(input[i])
        BY <1>1, <4>1
      <4>3. QED
        BY <2>3, <4>1, <4>2
    <3>3. QED
      BY <3>1, <3>2
  <2>5. QED
    <3> HIDE DEF these, those
    <3>1. QED
      BY <2>2, <2>3, <2>4, SeqEqual
<1>6. QED
  <2>1. FlattenSeq(those) = FlattenSeq(these) \o BytesOf(word)
    <3> HIDE DEF these, those
    <3>1. QED
      BY <1>3, <1>4, <1>5, FlattenAppend
  <2>2. QED
    BY <2>1 DEF Bytes

LEMMA NoBytes == Bytes(<<>>) = <<>>
  BY DEF Bytes, FlattenSeq

(* Words take the same number of bytes each.                               *)
LEMMA BytesLength ==
  ASSUME NEW input \in Seq(StreamWord)
  PROVE  Bytes(input) \in Seq(Byte) /\ Len(Bytes(input)) = WordBytes * Len(input)
<1> DEFINE T == {s \in Seq(StreamWord) :
                   Bytes(s) \in Seq(Byte) /\ Len(Bytes(s)) = WordBytes * Len(s)}
<1>1. <<>> \in T
  <2>1. /\ <<>> \in Seq(StreamWord) /\ <<>> \in Seq(Byte) /\ Len(<<>>) = 0
        /\ WordBytes * 0 = 0
    BY EmptySeq DEF WordBytes
  <2>2. QED
    BY <2>1, NoBytes
<1>2. ASSUME NEW s \in Seq(StreamWord), NEW e \in StreamWord, s \in T
      PROVE  Append(s, e) \in T
  <2>1. Append(s, e) \in Seq(StreamWord) /\ Len(Append(s, e)) = Len(s) + 1
        /\ Len(s) \in Nat
    BY AppendProperties, LenProperties
  <2>2. Bytes(Append(s, e)) = Bytes(s) \o BytesOf(e)
    BY BytesAppend
  <2>3. /\ Bytes(Append(s, e)) \in Seq(Byte)
        /\ Len(Bytes(Append(s, e))) = Len(Bytes(s)) + WordBytes
    <3>1. Bytes(s) \in Seq(Byte)
      BY <1>2
    <3>2. BytesOf(e) \in Seq(Byte) /\ Len(BytesOf(e)) = WordBytes
      BY BytesOfWord
    <3>3. QED
      BY <2>2, <3>1, <3>2, ConcatProperties
  <2>4. QED
    BY <1>2, <2>1, <2>3 DEF WordBytes
<1>3. Seq(StreamWord) \subseteq T
  <2> HIDE DEF T
  <2>1. QED
    BY <1>1, <1>2, SeqSetInduction
<1>4. QED
  BY <1>3

WordsOfOne(packet) == <<PacketHeader(packet)>> \o packet.data

LEMMA WordsOfOneType ==
  ASSUME NEW packet \in AnyPacket
  PROVE  WordsOfOne(packet) \in Seq(StreamWord) /\ PacketHeader(packet) \in StreamWord
<1>1. packet.data \in Seq(StreamWord)
  <2>1. packet.data \in Seq(AnyWord)
    BY DEF AnyPacket
  <2>2. AnyWord \subseteq StreamWord
    BY DEF StreamWord
  <2>3. QED
    BY <2>1, <2>2, SeqMonotonic
<1>2. PacketHeader(packet) \in StreamWord
  BY DEF StreamWord
<1>3. <<PacketHeader(packet)>> \in Seq(StreamWord)
  BY <1>2
<1>4. QED
  BY <1>1, <1>2, <1>3, ConcatProperties DEF WordsOfOne

LEMMA WordsOfAppend ==
  ASSUME NEW packets \in Seq(AnyPacket), NEW packet \in AnyPacket
  PROVE  WordsOf(Append(packets, packet)) = WordsOf(packets) \o WordsOfOne(packet)
<1> DEFINE n == Len(packets)
           all == Append(packets, packet)
           these == [i \in DOMAIN packets |-> WordsOfOne(packets[i])]
           those == [i \in DOMAIN all |-> WordsOfOne(all[i])]
<1>1. /\ n \in Nat /\ DOMAIN packets = 1 .. n
      /\ all \in Seq(AnyPacket) /\ DOMAIN all = 1 .. n + 1
      /\ \A i \in 1 .. n : all[i] = packets[i]
      /\ all[n + 1] = packet
  BY LenProperties, AppendProperties
<1>2. /\ \A i \in DOMAIN packets : packets[i] \in AnyPacket
      /\ \A i \in DOMAIN all : all[i] \in AnyPacket
  BY <1>1, LenProperties
<1>3. these \in Seq(Seq(StreamWord)) /\ Len(these) = n
  <2>1. these \in [1 .. n -> Seq(StreamWord)]
    BY <1>1, <1>2, WordsOfOneType
  <2>2. these \in Seq(Seq(StreamWord))
    BY <1>1, <2>1, SeqDef
  <2>3. QED
    BY <1>1, <2>1, <2>2, LenProperties
<1>4. WordsOfOne(packet) \in Seq(StreamWord)
  BY WordsOfOneType
<1>5. those = Append(these, WordsOfOne(packet))
  <2>1. those \in [1 .. n + 1 -> Seq(StreamWord)]
    BY <1>1, <1>2, WordsOfOneType
  <2>2. those \in Seq(Seq(StreamWord)) /\ Len(those) = n + 1
    <3>1. those \in Seq(Seq(StreamWord))
      BY <1>1, <2>1, SeqDef
    <3>2. QED
      BY <1>1, <2>1, <3>1, LenProperties
  <2>3. /\ Append(these, WordsOfOne(packet)) \in Seq(Seq(StreamWord))
        /\ Len(Append(these, WordsOfOne(packet))) = n + 1
        /\ \A i \in 1 .. n : Append(these, WordsOfOne(packet))[i] = these[i]
        /\ Append(these, WordsOfOne(packet))[n + 1] = WordsOfOne(packet)
    <3> HIDE DEF these
    <3>1. QED
      BY <1>3, <1>4, AppendProperties
  <2>4. \A i \in 1 .. n + 1 : those[i] = Append(these, WordsOfOne(packet))[i]
    <3> TAKE i \in 1 .. n + 1
    <3>1. CASE i = n + 1
      BY <1>1, <2>3, <3>1
    <3>2. CASE i # n + 1
      <4>1. i \in 1 .. n
        BY <1>1, <3>2
      <4>2. those[i] = WordsOfOne(packets[i]) /\ these[i] = WordsOfOne(packets[i])
        BY <1>1, <4>1
      <4>3. QED
        BY <2>3, <4>1, <4>2
    <3>3. QED
      BY <3>1, <3>2
  <2>5. QED
    <3> HIDE DEF these, those
    <3>1. QED
      BY <2>2, <2>3, <2>4, SeqEqual
<1>6. QED
  <2>1. FlattenSeq(those) = FlattenSeq(these) \o WordsOfOne(packet)
    <3> HIDE DEF these, those
    <3>1. QED
      BY <1>3, <1>4, <1>5, FlattenAppend
  <2>2. QED
    BY <2>1 DEF WordsOf, WordsOfOne

LEMMA NoWords == WordsOf(<<>>) = <<>>
  BY DEF WordsOf, FlattenSeq

LEMMA WordsOfType ==
  ASSUME NEW packets \in Seq(AnyPacket)
  PROVE  WordsOf(packets) \in Seq(StreamWord)
<1> DEFINE T == {s \in Seq(AnyPacket) : WordsOf(s) \in Seq(StreamWord)}
<1>1. <<>> \in T
  BY NoWords, EmptySeq
<1>2. ASSUME NEW s \in Seq(AnyPacket), NEW e \in AnyPacket, s \in T
      PROVE  Append(s, e) \in T
  <2>1. Append(s, e) \in Seq(AnyPacket)
    BY AppendProperties
  <2>2. WordsOf(Append(s, e)) = WordsOf(s) \o WordsOfOne(e)
    BY WordsOfAppend
  <2>3. WordsOf(Append(s, e)) \in Seq(StreamWord)
    BY <1>2, <2>2, WordsOfOneType, ConcatProperties
  <2>4. QED
    BY <2>1, <2>3
<1>3. Seq(AnyPacket) \subseteq T
  <2> HIDE DEF T
  <2>1. QED
    BY <1>1, <1>2, SeqSetInduction
<1>4. QED
  BY <1>3

-----------------------------------------------------------------------------
(* BitstreamFile.                                                          *)

Elements(s) == {s[i] : i \in DOMAIN s}

(* The iterators in a packet, at the place i of a package: there is none   *)
(* exactly at its end, and one is at the packet's header or in its data.   *)
ItrTypeOK(packets, itrs, i) ==
  /\ itrs = {} <=> i = Len(packets) + 1
  /\ \A itr \in itrs :
       /\ itr.state \in {"header", "data"}
       /\ itr.data \in 1 .. Len(packets[i].data) + 1
       /\ itr.state = "data" => itr.data \in 1 .. Len(packets[i].data)

IInv ==
  /\ package \in Packages
  /\ sink \in {"file", "pipe"}
  /\ broken \in BOOLEAN
  /\ writing \in {"header", "words", "length", "done"}
  /\ itr_header \in 1 .. Len(Header) + 1
  /\ itr_packets \in 1 .. Len(package) + 1
  /\ ItrTypeOK(package, packet_itr, itr_packets)
  /\ Reader!ReaderTypeOK
  /\ received \in Seq(Elements(received))

-----------------------------------------------------------------------------
LEMMA PackageType ==
  ASSUME package \in Packages
  PROVE  /\ Len(package) \in Nat
         /\ DOMAIN package = 1 .. Len(package)
         /\ \A i \in DOMAIN package : Len(package[i].data) \in Nat
<1>1. package \in Seq(AnyPacket)
  BY PackagesAssumption
<1>2. Len(package) \in Nat /\ DOMAIN package = 1 .. Len(package)
  BY <1>1, LenProperties
<1>3. ASSUME NEW i \in DOMAIN package PROVE Len(package[i].data) \in Nat
  <2>1. package[i] \in AnyPacket
    BY <1>1, <1>2, ElementOfSeq
  <2>2. package[i].data \in Seq(AnyWord)
    BY <2>1 DEF AnyPacket
  <2>3. QED
    BY <2>2, LenProperties
<1>4. QED
  BY <1>2, <1>3

(* A new iterator of the package is at the header of a packet, and there   *)
(* is none exactly at the end of the package.                              *)
LEMMA ItrAtType ==
  ASSUME package \in Packages, NEW i \in 1 .. Len(package) + 1
  PROVE  /\ Writer!PacketItrAt(i) = {} <=> i = Len(package) + 1
         /\ \A itr \in Writer!PacketItrAt(i) :
              itr = [state |-> "header", data |-> 1] /\ i \in DOMAIN package
<1>1. Len(package) \in Nat /\ DOMAIN package = 1 .. Len(package)
  BY PackageType
<1>2. CASE i = Len(package) + 1
  <2>1. {i} \cap DOMAIN package = {}
    BY <1>1, <1>2
  <2>2. QED
    BY <1>2, <2>1 DEF Writer!PacketItrAt
<1>3. CASE i # Len(package) + 1
  <2>1. {i} \cap DOMAIN package = {i} /\ i \in DOMAIN package
    BY <1>1, <1>3
  <2>2. Writer!PacketItrAt(i) = {Writer!PacketBegin(i)}
    BY <2>1 DEF Writer!PacketItrAt
  <2>3. QED
    BY <1>3, <2>1, <2>2 DEF Writer!PacketBegin
<1>4. QED
  BY <1>2, <1>3

LEMMA NewItrType ==
  ASSUME package \in Packages, NEW i \in 1 .. Len(package) + 1
  PROVE  ItrTypeOK(package, Writer!PacketItrAt(i), i)
<1>1. ASSUME NEW itr \in Writer!PacketItrAt(i)
      PROVE  itr.state = "header" /\ itr.data = 1 /\ Len(package[i].data) \in Nat
  BY ItrAtType, PackageType
<1>2. QED
  BY <1>1, ItrAtType DEF ItrTypeOK

LEMMA InvariantTypes == IInv => TypeOK
<1> SUFFICES ASSUME IInv PROVE TypeOK
  OBVIOUS
<1>1. ASSUME NEW itr \in packet_itr
      PROVE  DOMAIN package[itr_packets].data = 1 .. Len(package[itr_packets].data)
  <2>1. itr_packets \in 1 .. Len(package) /\ package \in Seq(AnyPacket)
    BY <1>1, PackageType, PackagesAssumption DEF IInv, ItrTypeOK
  <2>2. package[itr_packets] \in AnyPacket
    BY <2>1, ElementOfSeq
  <2>3. package[itr_packets].data \in Seq(AnyWord)
    BY <2>2 DEF AnyPacket
  <2>4. QED
    BY <2>3, LenProperties
<1>2. Writer!WriterTypeOK
  BY <1>1 DEF IInv, Writer!WriterTypeOK, Writer!PacketsEnd, Writer!HeaderEnd, ItrTypeOK
<1>3. QED
  BY <1>2 DEF IInv, TypeOK

LEMMA AppendElements ==
  ASSUME NEW s, s \in Seq(Elements(s)), NEW e
  PROVE  /\ Append(s, e) \in Seq(Elements(Append(s, e)))
         /\ Append(s, e) # <<>>
         /\ Reader!Last(Append(s, e)) = e
<1> DEFINE S == Elements(s) \cup {e}
           t == Append(s, e)
<1>1. s \in Seq(S)
  BY SeqMonotonic
<1>2. /\ t \in Seq(S) /\ Len(t) = Len(s) + 1 /\ t # <<>>
      /\ t[Len(s) + 1] = e
  BY <1>1, AppendProperties
<1>3. Len(t) \in Nat /\ t \in [1 .. Len(t) -> S] /\ DOMAIN t = 1 .. Len(t)
  BY <1>2, LenProperties
<1>4. t \in [1 .. Len(t) -> Elements(t)]
  BY <1>3 DEF Elements
<1>5. t \in Seq(Elements(t))
  <2>1. t \in UNION {[1 .. n -> Elements(t)] : n \in Nat}
    BY <1>3, <1>4, Zenon
  <2>2. QED
    BY <2>1, SeqDef, Zenon
<1>6. Reader!Last(t) = e
  BY <1>2 DEF Reader!Last
<1>7. QED
  BY <1>2, <1>5, <1>6

-----------------------------------------------------------------------------
LEMMA InitInvariant == Init => IInv
<1> SUFFICES ASSUME Init PROVE IInv
  OBVIOUS
<1>1. package \in Packages
  BY DEF Init
<1>2. Len(package) \in Nat /\ Len(Header) \in Nat
  BY <1>1, PackageType, HeaderAssumption, LenProperties
<1>3. ItrTypeOK(package, packet_itr, itr_packets) /\ itr_packets = 1
  BY <1>1, <1>2, NewItrType DEF Init, Writer!WriterInit
<1>4. Reader!ReaderTypeOK /\ received \in Seq(Elements(received))
  BY EmptySeq DEF Init, Reader!ReaderInit, Reader!ReaderTypeOK
<1>5. itr_header \in 1 .. Len(Header) + 1 /\ itr_packets \in 1 .. Len(package) + 1
  <2>1. \A n \in Nat : 1 \in 1 .. n + 1
    OBVIOUS
  <2>2. itr_header = 1 /\ itr_packets = 1
    BY DEF Init, Writer!WriterInit
  <2>3. QED
    BY <1>2, <2>1, <2>2
<1>6. /\ sink \in {"file", "pipe"} /\ broken \in BOOLEAN
      /\ writing \in {"header", "words", "length", "done"}
  BY DEF Init, Writer!WriterInit
<1>7. QED
  BY <1>1, <1>3, <1>4, <1>5, <1>6 DEF IInv

(* A stream is not mended.                                                 *)
LEMMA PutType ==
  ASSUME broken \in BOOLEAN, NEW bytes, Writer!Put(bytes)
  PROVE  broken' \in BOOLEAN
  BY DEF Writer!Put

LEMMA WriterStep == IInv /\ Write => IInv'
<1> SUFFICES ASSUME IInv, Write PROVE IInv'
  OBVIOUS
<1>1. /\ Len(package) \in Nat /\ Len(Header) \in Nat
      /\ DOMAIN package = 1 .. Len(package)
      /\ \A i \in DOMAIN package : Len(package[i].data) \in Nat
  BY PackageType, HeaderAssumption, LenProperties DEF IInv
<1>2. /\ package' = package /\ sink' = sink
      /\ reading' = reading /\ words' = words
      /\ previous' = previous /\ received' = received
  BY DEF Write, readerVars, Writer!WriterNext, Writer!WriteBitHeader,
         Writer!WriteHeaderWord, Writer!WritePacketWord, Writer!EndOfWords,
         Writer!WriteLength
<1>3. Reader!ReaderTypeOK' /\ received' \in Seq(Elements(received'))
  BY <1>2 DEF IInv, Reader!ReaderTypeOK
<1>4. ASSUME broken' \in BOOLEAN,
             writing' \in {"header", "words", "length", "done"},
             itr_header' \in 1 .. Len(Header) + 1,
             itr_packets' \in 1 .. Len(package) + 1,
             ItrTypeOK(package, packet_itr', itr_packets')
      PROVE  IInv'
  BY <1>2, <1>3, <1>4 DEF IInv
<1>5. CASE Writer!WriteBitHeader
  BY <1>4, <1>5, PutType DEF IInv, Writer!WriteBitHeader, Writer!iterators
<1>6. CASE Writer!WriteHeaderWord
  <2>1. itr_header' \in 1 .. Len(Header) + 1
    BY <1>1, <1>6 DEF IInv, Writer!WriteHeaderWord, Writer!HeaderEnd
  <2>2. /\ itr_packets' \in 1 .. Len(package) + 1
        /\ ItrTypeOK(package, packet_itr', itr_packets')
    <3>1. CASE itr_header' = Writer!HeaderEnd
      BY <1>1, <1>6, <3>1, NewItrType DEF IInv, Writer!WriteHeaderWord
    <3>2. CASE itr_header' # Writer!HeaderEnd
      BY <1>6, <3>2 DEF IInv, Writer!WriteHeaderWord
    <3>3. QED
      BY <3>1, <3>2
  <2>3. broken' \in BOOLEAN /\ writing' = writing
    BY <1>6, PutType DEF IInv, Writer!WriteHeaderWord
  <2>4. QED
    BY <1>4, <2>1, <2>2, <2>3 DEF IInv
<1>7. CASE Writer!WritePacketWord
  <2>1. PICK itr \in packet_itr :
          /\ Writer!Put(Writer!BytesOf(Writer!Deref(itr_packets, itr)))
          /\ IF Writer!NextInPacket(itr_packets, itr) = Writer!PacketEnd(itr_packets)
             THEN /\ itr_packets' = itr_packets + 1
                  /\ packet_itr' = Writer!PacketItrAt(itr_packets + 1)
             ELSE /\ packet_itr' = {Writer!NextInPacket(itr_packets, itr)}
                  /\ itr_packets' = itr_packets
    BY <1>7 DEF Writer!WritePacketWord
  <2> DEFINE next == Writer!NextInPacket(itr_packets, itr)
             length == Len(package[itr_packets].data)
  <2>2. itr_packets \in 1 .. Len(package) /\ length \in Nat
    <3>1. itr_packets \in 1 .. Len(package) + 1 /\ itr_packets # Len(package) + 1
      BY <2>1 DEF IInv, ItrTypeOK
    <3>2. itr_packets \in 1 .. Len(package)
      BY <1>1, <3>1
    <3>3. QED
      BY <1>1, <3>2
  <2>3. ASSUME next # Writer!PacketEnd(itr_packets)
        PROVE  next.state = "data" /\ next.data \in 1 .. length
    <3>1. /\ itr.state \in {"header", "data"}
          /\ itr.state = "data" => itr.data \in 1 .. length
      BY <2>1 DEF IInv, ItrTypeOK
    <3> DEFINE data == IF itr.state = "header" THEN 1 ELSE itr.data + 1
    <3>2. data \in 1 .. length + 1
      BY <2>2, <3>1
    <3>3. next = [state |-> IF data = length + 1 THEN "end" ELSE "data",
                  data |-> data]
      BY DEF Writer!NextInPacket
    <3>4. data # length + 1
      BY <2>3, <3>3 DEF Writer!PacketEnd
    <3>5. next.state = "data" /\ next.data = data
      BY <3>3, <3>4
    <3>6. QED
      BY <2>2, <3>2, <3>4, <3>5
  <2>4. /\ itr_packets' \in 1 .. Len(package) + 1
        /\ ItrTypeOK(package, packet_itr', itr_packets')
    <3>1. CASE next = Writer!PacketEnd(itr_packets)
      <4>1. /\ itr_packets' = itr_packets + 1
            /\ packet_itr' = Writer!PacketItrAt(itr_packets + 1)
        BY <2>1, <3>1
      <4>2. itr_packets + 1 \in 1 .. Len(package) + 1
        BY <1>1, <2>2
      <4>3. ItrTypeOK(package, Writer!PacketItrAt(itr_packets + 1), itr_packets + 1)
        BY <4>2, NewItrType DEF IInv
      <4>4. QED
        BY <4>1, <4>2, <4>3
    <3>2. CASE next # Writer!PacketEnd(itr_packets)
      <4>1. packet_itr' = {next} /\ itr_packets' = itr_packets
        BY <2>1, <3>2
      <4>2. next.state = "data" /\ next.data \in 1 .. length
        BY <2>3, <3>2
      <4>3. /\ itr_packets # Len(package) + 1
            /\ itr_packets \in 1 .. Len(package) + 1
            /\ next.data \in 1 .. length + 1
        BY <1>1, <2>2, <4>2
      <4> HIDE DEF next
      <4>4. ItrTypeOK(package, {next}, itr_packets)
        BY <4>2, <4>3 DEF ItrTypeOK
      <4>5. QED
        BY <4>1, <4>3, <4>4
    <3>3. QED
      BY <3>1, <3>2
  <2>5. broken' \in BOOLEAN /\ writing' = writing /\ itr_header' = itr_header
    BY <1>7, <2>1, PutType DEF IInv, Writer!WritePacketWord
  <2>6. QED
    BY <1>4, <2>4, <2>5 DEF IInv
<1>8. CASE Writer!EndOfWords
  BY <1>4, <1>8 DEF IInv, Writer!EndOfWords, Writer!iterators
<1>9. CASE Writer!WriteLength
  BY <1>4, <1>9 DEF IInv, Writer!WriteLength, Writer!iterators
<1>10. QED
  BY <1>5, <1>6, <1>7, <1>8, <1>9 DEF Write, Writer!WriterNext

(* There is one packet at most: that of type 2 has one register, as there  *)
(* is one packet at most before it.                                        *)
LEMMA ParsedPacket ==
  ASSUME IInv, NEW packet \in Reader!Parsed.packet
  PROVE  Reader!Parsed.packet = {packet}
<1>1. PICK last : previous \in {{}, {last}}
  BY DEF IInv, Reader!ReaderTypeOK
<1> DEFINE header == Head(words)
           registers == Reader!Registers(header, previous)
           P(register) == Reader!Packet(header.type, header.opcode, register,
                                        Reader!Data(words, header.count))
           packets == {P(register) : register \in registers}
<1>2. registers \in {{}, {header.register}, {last.address}}
  BY <1>1 DEF Reader!Registers
<1>3. \A p \in packets : packets = {p}
  <2> HIDE DEF registers, P
  <2>1. QED
    BY <1>2
<1>4. Reader!Parsed.packet
        \in {{}, {Reader!Packet(0, "nop", "CRC", <<>>)}, packets}
  <2> HIDE DEF packets
  <2>1. Reader!InitWithWords(words, previous)
          \in {Reader!Result(words, {}), Reader!Result(<<>>, {}),
               Reader!Result(Tail(words), {Reader!Packet(0, "nop", "CRC", <<>>)}),
               Reader!Result(Reader!Rest(words, header.count), packets)}
    BY Zenon DEF Reader!InitWithWords, packets
  <2>2. QED
    BY <2>1 DEF Reader!Parsed, Reader!Result
<1>5. QED
  <2> HIDE DEF packets
  <2>1. QED
    BY <1>3, <1>4

LEMMA ReaderStep == IInv /\ Read => IInv'
<1> SUFFICES ASSUME IInv, Read PROVE IInv'
  OBVIOUS
<1>1. /\ package' = package /\ sink' = sink /\ broken' = broken
      /\ writing' = writing /\ itr_header' = itr_header
      /\ itr_packets' = itr_packets /\ packet_itr' = packet_itr
  BY DEF Read, inputs
<1>2. ASSUME Reader!ReaderTypeOK', received' \in Seq(Elements(received'))
      PROVE  IInv'
  BY <1>1, <1>2 DEF IInv
<1>3. CASE Reader!InitWithBytes
  BY <1>2, <1>3 DEF IInv, Reader!InitWithBytes, Reader!ReaderTypeOK
<1>4. CASE Reader!Stop
  BY <1>2, <1>4 DEF IInv, Reader!Stop, Reader!ReaderTypeOK
<1>5. CASE Reader!Yield
  <2>1. PICK packet \in Reader!Parsed.packet : received' = Append(received, packet)
    BY <1>5 DEF Reader!Yield
  <2>2. /\ received' \in Seq(Elements(received')) /\ received' # <<>>
        /\ Reader!Last(received') = packet
    BY <2>1, AppendElements DEF IInv
  <2>3. previous' = {packet}
    BY <1>5, <2>1, ParsedPacket DEF Reader!Yield
  <2>4. reading' = reading
    BY <1>5 DEF Reader!Yield
  <2>5. QED
    BY <1>2, <2>2, <2>3, <2>4 DEF IInv, Reader!ReaderTypeOK
<1>6. CASE Reader!PassOver
  BY <1>2, <1>6 DEF IInv, Reader!PassOver, Reader!ReaderTypeOK
<1>7. QED
  BY <1>3, <1>4, <1>5, <1>6 DEF Read, Reader!ReaderNext

LEMMA StepInvariant == IInv /\ [Next]_vars => IInv'
<1> SUFFICES ASSUME IInv, [Next]_vars PROVE IInv'
  OBVIOUS
<1>1. CASE UNCHANGED vars
  BY <1>1 DEF IInv, vars, writerVars, readerVars, inputs, Reader!ReaderTypeOK
<1>2. QED
  BY <1>1, WriterStep, ReaderStep DEF Next

(* The iterators of the writer stay in the package and in the packet they  *)
(* are in, and the reader's previous packet is the one it yielded last.    *)
THEOREM TypeCorrect == Spec => []TypeOK
  BY InitInvariant, StepInvariant, InvariantTypes, PTL DEF Spec

-----------------------------------------------------------------------------
(* What has got into the file.                                             *)

(* The instance has definitions of its own.                                *)
LEMMA SameWords ==
  /\ \A word : Writer!BytesOf(word) = BytesOf(word)
  /\ \A n : Writer!Number(n) = Number(n)
  /\ \A packet : Writer!PacketHeader(packet) = PacketHeader(packet)
  /\ \A s : Writer!Bytes(s) = Bytes(s)
  /\ \A packets : Writer!WordsOf(packets) = WordsOf(packets)
  /\ Writer!WordBytes = 4 /\ WordBytes = 4
<1>1. \A word : Writer!BytesOf(word) = BytesOf(word)
  BY DEF BytesOf, Writer!BytesOf, WordBytes, Writer!WordBytes
<1>2. \A n : Writer!Number(n) = Number(n)
  BY DEF Number, Writer!Number, Word, Writer!Word
<1>3. \A packet : Writer!PacketHeader(packet) = PacketHeader(packet)
  BY DEF PacketHeader, Writer!PacketHeader, Word, Writer!Word
<1>4. \A s : Writer!Bytes(s) = Bytes(s)
  BY DEF Bytes, Writer!Bytes, FlattenSeq, Writer!FlattenSeq, BytesOf,
         Writer!BytesOf, WordBytes, Writer!WordBytes
<1>5. \A packets : Writer!WordsOf(packets) = WordsOf(packets)
  BY DEF WordsOf, Writer!WordsOf, FlattenSeq, Writer!FlattenSeq,
         PacketHeader, Writer!PacketHeader, Word, Writer!Word
<1>6. QED
  BY <1>1, <1>2, <1>3, <1>4, <1>5 DEF WordBytes, Writer!WordBytes

(* A file with the words after a header with the length.                   *)
File(length, bytes) == BitHeader \o BytesOf(Number(length)) \o bytes

(* The words of a packet that have been put when its iterator is at itr.   *)
Count(itr) == IF itr.state = "header" THEN 0 ELSE itr.data

PacketsSoFar(i, n) ==
  WordsOf(SubSeq(package, 1, i - 1)) \o SubSeq(WordsOfOne(package[i]), 1, n)

HasPut(s) == written = File(0, Bytes(s))

All == Header \o WordsOf(package)

PutSoFar ==
  /\ itr_header # Writer!HeaderEnd => HasPut(SubSeq(Header, 1, itr_header - 1))
  /\ itr_header = Writer!HeaderEnd =>
       /\ packet_itr = {} => HasPut(All)
       /\ \A itr \in packet_itr :
            HasPut(Header \o PacketsSoFar(itr_packets, Count(itr)))

(* The length is put at the very end, if it can be; until then it is zero. *)
Whole ==
  /\ writing = "header" => written = <<>> /\ itr_header = 1 /\ ~ broken
  /\ broken => \/ written \in Seq(Byte) /\ Len(written) < Writer!EndOfHeader
               \/ \E bytes \in Seq(Byte) : written = File(0, bytes)
  /\ ~ broken =>
       /\ writing = "words" => PutSoFar
       /\ writing = "length" => HasPut(All)
       /\ writing = "done" =>
            written = File(IF sink = "pipe" THEN 0 ELSE Len(Bytes(All)), Bytes(All))

\* Two sequences joined: how long the result is, and where each one is in it.
LEMMA Joined ==
  ASSUME NEW S, NEW a \in Seq(S), NEW b \in Seq(S), NEW ab, ab = a \o b
  PROVE  /\ ab \in Seq(S) /\ Len(ab) = Len(a) + Len(b)
         /\ SubSeq(ab, 1, Len(a)) = a
         /\ SubSeq(ab, Len(a) + 1, Len(a) + Len(b)) = b
<1>1. Len(a) \in Nat /\ Len(b) \in Nat
  BY LenProperties
<1>2. /\ ab \in Seq(S) /\ Len(ab) = Len(a) + Len(b)
      /\ \A i \in 1 .. Len(a) + Len(b) :
           ab[i] = IF i <= Len(a) THEN a[i] ELSE b[i - Len(a)]
  BY ConcatProperties
<1>3. \A i \in 1 .. Len(a) + Len(b) : ab[i] \in S
  BY <1>2, LenProperties
<1>4. SubSeq(ab, 1, Len(a)) = a
  <2>1. /\ SubSeq(ab, 1, Len(a)) \in Seq(S) /\ Len(SubSeq(ab, 1, Len(a))) = Len(a)
        /\ \A i \in 1 .. Len(a) : SubSeq(ab, 1, Len(a))[i] = ab[i]
    BY <1>1, <1>3, SubSeqProperties
  <2>2. \A i \in 1 .. Len(a) : ab[i] = a[i]
    BY <1>1, <1>2
  <2>3. QED
    BY <2>1, <2>2, SeqEqual
<1>5. SubSeq(ab, Len(a) + 1, Len(a) + Len(b)) = b
  <2>1. /\ SubSeq(ab, Len(a) + 1, Len(a) + Len(b)) \in Seq(S)
        /\ Len(SubSeq(ab, Len(a) + 1, Len(a) + Len(b))) = Len(b)
        /\ \A i \in 1 .. Len(b) :
             SubSeq(ab, Len(a) + 1, Len(a) + Len(b))[i] = ab[Len(a) + i]
    BY <1>1, <1>3, SubSeqProperties
  <2>2. \A i \in 1 .. Len(b) : ab[Len(a) + i] = b[i]
    <3> TAKE i \in 1 .. Len(b)
    <3>1. Len(a) + i \in 1 .. Len(a) + Len(b) /\ ~ Len(a) + i <= Len(a)
          /\ (Len(a) + i) - Len(a) = i
      BY <1>1
    <3>2. QED
      BY <1>2, <3>1
  <2>3. QED
    BY <2>1, <2>2, SeqEqual
<1>6. QED
  BY <1>2, <1>4, <1>5

\* The same of three: each is found again at its place.
LEMMA JoinedThrice ==
  ASSUME NEW S, NEW a \in Seq(S), NEW b \in Seq(S), NEW c \in Seq(S),
         NEW ab, ab = a \o b, NEW abc, abc = ab \o c
  PROVE  /\ abc \in Seq(S)
         /\ Len(abc) = Len(a) + Len(b) + Len(c)
         /\ SubSeq(abc, 1, Len(a)) = a
         /\ SubSeq(abc, Len(a) + 1, Len(a) + Len(b)) = b
         /\ SubSeq(abc, Len(a) + Len(b) + 1, Len(a) + Len(b) + Len(c)) = c
<1>1. Len(a) \in Nat /\ Len(b) \in Nat /\ Len(c) \in Nat
  BY LenProperties
<1>2. /\ ab \in Seq(S) /\ Len(ab) = Len(a) + Len(b)
      /\ SubSeq(ab, 1, Len(a)) = a
      /\ SubSeq(ab, Len(a) + 1, Len(a) + Len(b)) = b
  BY Joined
<1>3. /\ abc \in Seq(S) /\ Len(abc) = Len(ab) + Len(c)
      /\ SubSeq(abc, Len(ab) + 1, Len(ab) + Len(c)) = c
  BY <1>2, Joined
<1>5. \A i \in 1 .. Len(ab) : abc[i] = ab[i]
  BY <1>1, <1>2, ConcatProperties
<1>6. \A i \in 1 .. Len(ab) : abc[i] \in S /\ ab[i] \in S
  BY <1>2, <1>5, LenProperties
<1>7. SubSeq(abc, 1, Len(a)) = SubSeq(ab, 1, Len(a))
  <2>1. /\ SubSeq(ab, 1, Len(a)) \in Seq(S) /\ Len(SubSeq(ab, 1, Len(a))) = Len(a)
        /\ \A i \in 1 .. Len(a) : SubSeq(ab, 1, Len(a))[i] = ab[i]
    BY <1>1, <1>2, <1>6, SubSeqProperties
  <2>2. /\ SubSeq(abc, 1, Len(a)) \in Seq(S) /\ Len(SubSeq(abc, 1, Len(a))) = Len(a)
        /\ \A i \in 1 .. Len(a) : SubSeq(abc, 1, Len(a))[i] = abc[i]
    BY <1>1, <1>2, <1>6, SubSeqProperties
  <2>3. \A i \in 1 .. Len(a) : abc[i] = ab[i]
    BY <1>1, <1>2, <1>5
  <2>4. QED
    BY <2>1, <2>2, <2>3, SeqEqual
<1>8. SubSeq(abc, Len(a) + 1, Len(a) + Len(b)) = SubSeq(ab, Len(a) + 1, Len(a) + Len(b))
  <2>1. /\ SubSeq(ab, Len(a) + 1, Len(a) + Len(b)) \in Seq(S)
        /\ Len(SubSeq(ab, Len(a) + 1, Len(a) + Len(b))) = Len(b)
        /\ \A i \in 1 .. Len(b) :
             SubSeq(ab, Len(a) + 1, Len(a) + Len(b))[i] = ab[Len(a) + i]
    BY <1>1, <1>2, <1>6, SubSeqProperties
  <2>2. /\ SubSeq(abc, Len(a) + 1, Len(a) + Len(b)) \in Seq(S)
        /\ Len(SubSeq(abc, Len(a) + 1, Len(a) + Len(b))) = Len(b)
        /\ \A i \in 1 .. Len(b) :
             SubSeq(abc, Len(a) + 1, Len(a) + Len(b))[i] = abc[Len(a) + i]
    BY <1>1, <1>2, <1>6, SubSeqProperties
  <2>3. \A i \in 1 .. Len(b) : abc[Len(a) + i] = ab[Len(a) + i]
    BY <1>1, <1>2, <1>5
  <2>4. QED
    BY <2>1, <2>2, <2>3, SeqEqual
<1>9. QED
  BY <1>1, <1>2, <1>3, <1>7, <1>8

LEMMA FileParts ==
  ASSUME NEW length \in Nat, NEW bytes \in Seq(Byte)
  PROVE  /\ File(length, bytes) \in Seq(Byte)
         /\ BitHeader \in Seq(Byte) /\ Len(BitHeader) \in Nat
         /\ Writer!EndOfHeader = Len(BitHeader) + 4
         /\ Len(File(length, bytes)) = Writer!EndOfHeader + Len(bytes)
         /\ SubSeq(File(length, bytes), 1, Len(BitHeader)) = BitHeader
         /\ SubSeq(File(length, bytes), Len(BitHeader) + 1, Writer!EndOfHeader)
              = BytesOf(Number(length))
         /\ SubSeq(File(length, bytes), Writer!EndOfHeader + 1,
                   Len(File(length, bytes))) = bytes
<1>a. PICK number : number = BytesOf(Number(length))
  OBVIOUS
<1>b. PICK front : front = BitHeader \o number
  OBVIOUS
<1>c. PICK file : file = front \o bytes
  OBVIOUS
<1>1. BitHeader \in Seq(Byte)
  <2>1. AnyWord \X (1 .. WordBytes) \subseteq Byte
    BY DEF Byte, StreamWord
  <2>2. QED
    BY <2>1, BitHeaderAssumption, SeqMonotonic
<1>2. number \in Seq(Byte) /\ Len(number) = 4
  <2>1. Number(length) \in StreamWord
    BY DEF StreamWord
  <2>2. QED
    BY <1>a, <2>1, BytesOfWord DEF WordBytes
<1>3. Len(BitHeader) \in Nat /\ Len(bytes) \in Nat
  BY <1>1, LenProperties
<1>4. /\ file \in Seq(Byte)
      /\ Len(file) = Len(BitHeader) + Len(number) + Len(bytes)
      /\ SubSeq(file, 1, Len(BitHeader)) = BitHeader
      /\ SubSeq(file, Len(BitHeader) + 1, Len(BitHeader) + Len(number)) = number
      /\ SubSeq(file, Len(BitHeader) + Len(number) + 1,
                Len(BitHeader) + Len(number) + Len(bytes)) = bytes
  <2>1. number \in Seq(Byte)
    BY <1>2
  <2>2. QED
    BY <1>1, <2>1, <1>b, <1>c, JoinedThrice
<1>5. Writer!EndOfHeader = Len(BitHeader) + 4
  BY SameWords DEF Writer!EndOfHeader
<1>6. File(length, bytes) = file
  BY <1>a, <1>b, <1>c DEF File
<1>7. QED
  BY <1>1, <1>2, <1>3, <1>4, <1>5, <1>6, <1>a

LEMMA FileJoin ==
  ASSUME NEW length \in Nat, NEW bytes \in Seq(Byte), NEW more \in Seq(Byte)
  PROVE  /\ File(length, bytes) \o more = File(length, bytes \o more)
         /\ bytes \o more \in Seq(Byte)
<1> DEFINE start == BitHeader \o BytesOf(Number(length))
<1>1. start \in Seq(Byte)
  <2>1. Number(length) \in StreamWord
    BY DEF StreamWord
  <2>2. BytesOf(Number(length)) \in Seq(Byte) /\ BitHeader \in Seq(Byte)
    BY <2>1, BytesOfWord, FileParts
  <2>3. QED
    BY <2>2, ConcatProperties
<1>2. File(length, bytes) = start \o bytes
      /\ File(length, bytes \o more) = start \o (bytes \o more)
  BY DEF File
<1> HIDE DEF start
<1>3. (start \o bytes) \o more = start \o (bytes \o more)
  BY <1>1, ConcatAssociative
<1>4. bytes \o more \in Seq(Byte)
  BY ConcatProperties
<1>5. QED
  BY <1>2, <1>3, <1>4

LEMMA OneMore ==
  ASSUME NEW S, NEW seq \in Seq(S), NEW n \in 0 .. Len(seq) - 1
  PROVE  /\ SubSeq(seq, 1, n) \in Seq(S) /\ seq[n + 1] \in S
         /\ SubSeq(seq, 1, n + 1) = Append(SubSeq(seq, 1, n), seq[n + 1])
<1>1. Len(seq) \in Nat /\ \A i \in 1 .. Len(seq) : seq[i] \in S
  BY LenProperties
<1>2. SubSeq(seq, 1, n) \in Seq(S) /\ seq[n + 1] \in S
  <2>1. \A i \in 1 .. n : seq[i] \in S
    BY <1>1
  <2>2. QED
    BY <1>1, <2>1, SubSeqProperties
<1>3. SubSeq(seq, 1, n + 1) = SubSeq(seq, 1, n) \o <<seq[n + 1]>>
  <2>1. 1 \in 1 .. Len(seq) /\ n + 1 \in 1 .. Len(seq) /\ (n + 1) - 1 = n
    BY <1>1
  <2>2. QED
    BY <2>1, SubSeqRecursiveSecond
<1>4. QED
  BY <1>2, <1>3, AppendIsConcat

(* A stream that takes a word has one word more, and one that fails keeps  *)
(* its length of zero.                                                     *)
LEMMA PutWord ==
  ASSUME Whole, writing = "words", NEW word \in StreamWord,
         NEW put \in Seq(StreamWord), ~ broken => HasPut(put),
         Writer!Put(Writer!BytesOf(word))
  PROVE  /\ ~ broken' => written' = File(0, Bytes(Append(put, word)))
         /\ broken' => \/ written' \in Seq(Byte) /\ Len(written') < Writer!EndOfHeader
                       \/ \E bytes \in Seq(Byte) : written' = File(0, bytes)
<1> DEFINE more == BytesOf(word)
<1>1. more \in Seq(Byte) /\ Len(more) = 4 /\ Writer!BytesOf(word) = more
  BY BytesOfWord, SameWords
<1>2. Bytes(put) \in Seq(Byte) /\ 0 \in Nat
  BY BytesLength
<1> HIDE DEF more
<1>3. CASE broken
  BY <1>3 DEF Writer!Put, Whole
<1>4. CASE ~ broken /\ ~ broken'
  <2>1. written' = written \o more
    BY <1>1, <1>4 DEF Writer!Put
  <2>2. written' = File(0, Bytes(put) \o more)
    <3>1. written = File(0, Bytes(put))
      BY <1>4 DEF HasPut
    <3>2. QED
      BY <1>1, <1>2, <2>1, <3>1, FileJoin
  <2>3. Bytes(put) \o more = Bytes(Append(put, word))
    BY BytesAppend DEF more
  <2>4. QED
    BY <1>4, <2>2, <2>3
<1>5. CASE ~ broken /\ broken'
  <2>1. PICK n \in 0 .. Len(more) - 1 : written' = written \o SubSeq(more, 1, n)
    BY <1>1, <1>5 DEF Writer!Put
  <2>2. SubSeq(more, 1, n) \in Seq(Byte)
    BY <1>1, OneMore
  <2>3. written' = File(0, Bytes(put) \o SubSeq(more, 1, n))
    <3>1. written = File(0, Bytes(put))
      BY <1>5 DEF HasPut
    <3>2. QED
      BY <1>2, <2>1, <2>2, <3>1, FileJoin
  <2>4. Bytes(put) \o SubSeq(more, 1, n) \in Seq(Byte)
    BY <1>2, <2>2, ConcatProperties
  <2>5. QED
    BY <1>5, <2>3, <2>4
<1>6. QED
  BY <1>3, <1>4, <1>5

LEMMA PackageWords ==
  ASSUME IInv
  PROVE  /\ package \in Seq(AnyPacket)
         /\ Header \in Seq(StreamWord) /\ Header # <<>>
         /\ All \in Seq(StreamWord)
         /\ Bytes(All) \in Seq(Byte) /\ Len(Bytes(All)) \in Nat \ {0}
<1>1. package \in Seq(AnyPacket)
  BY PackagesAssumption DEF IInv
<1>2. Header \in Seq(StreamWord) /\ Header # <<>>
  <2>1. AnyWord \subseteq StreamWord
    BY DEF StreamWord
  <2>2. QED
    BY <2>1, HeaderAssumption, SeqMonotonic
<1>3. All \in Seq(StreamWord) /\ Len(All) = Len(Header) + Len(WordsOf(package))
  BY <1>1, <1>2, WordsOfType, ConcatProperties DEF All
<1>4. Len(All) \in Nat \ {0}
  BY <1>1, <1>2, <1>3, WordsOfType, EmptySeq, LenProperties
<1>5. QED
  BY <1>1, <1>2, <1>3, <1>4, BytesLength DEF WordBytes

-----------------------------------------------------------------------------
LEMMA BitHeaderWhole ==
  ASSUME IInv, Whole, Writer!WriteBitHeader
  PROVE  Whole'
<1> DEFINE start == BitHeader \o BytesOf(Number(0))
<1>1. /\ written = <<>> /\ itr_header = 1 /\ ~ broken
      /\ writing' = "words" /\ itr_header' = 1
      /\ Writer!Put(start)
  BY SameWords DEF Whole, Writer!WriteBitHeader, Writer!iterators
<1>2. /\ start \in Seq(Byte) /\ Len(start) = Writer!EndOfHeader
      /\ start = File(0, <<>>)
  <2>1. <<>> \in Seq(Byte) /\ Len(<<>>) = 0 /\ 0 \in Nat
    BY EmptySeq
  <2>2. File(0, <<>>) \in Seq(Byte) /\ Len(File(0, <<>>)) = Writer!EndOfHeader + 0
        /\ Writer!EndOfHeader = Len(BitHeader) + 4 /\ Len(BitHeader) \in Nat
    BY <2>1, FileParts
  <2>3. Number(0) \in StreamWord
    BY DEF StreamWord
  <2>4. start \in Seq(Byte)
    BY <2>1, <2>3, BytesOfWord, FileParts, ConcatProperties
  <2>5. File(0, <<>>) = start
    BY <2>4, ConcatEmptySeq DEF File
  <2>6. QED
    BY <2>2, <2>4, <2>5
<1> HIDE DEF start
<1>3. CASE ~ broken'
  <2>1. written' = start
    BY <1>1, <1>2, <1>3, ConcatEmptySeq DEF Writer!Put
  <2>2. SubSeq(Header, 1, itr_header' - 1) = <<>>
    BY <1>1, SubSeqEmpty
  <2>3. itr_header' # Writer!HeaderEnd
    <3>1. Len(Header) \in Nat \ {0}
      BY PackageWords, EmptySeq
    <3>2. QED
      BY <1>1, <3>1 DEF Writer!HeaderEnd
  <2>4. PutSoFar'
    BY <1>2, <2>1, <2>2, <2>3, NoBytes DEF PutSoFar, HasPut, Writer!HeaderEnd
  <2>5. QED
    BY <1>1, <1>3, <2>4 DEF Whole
<1>4. CASE broken'
  <2>1. PICK n \in 0 .. Len(start) - 1 : written' = written \o SubSeq(start, 1, n)
    BY <1>1, <1>4 DEF Writer!Put
  <2>2. SubSeq(start, 1, n) \in Seq(Byte) /\ Len(SubSeq(start, 1, n)) = n
    <3>1. Len(start) \in Nat /\ \A i \in 1 .. Len(start) : start[i] \in Byte
      BY <1>2, LenProperties
    <3>2. \A i \in 1 .. n : start[i] \in Byte
      BY <3>1
    <3>3. QED
      BY <3>1, <3>2, SubSeqProperties
  <2>3. written' \in Seq(Byte) /\ Len(written') < Writer!EndOfHeader
    <3>1. written' = SubSeq(start, 1, n)
      BY <1>1, <2>1, <2>2, ConcatEmptySeq
    <3>2. Len(start) \in Nat
      BY <1>2, LenProperties
    <3>3. QED
      BY <1>2, <2>2, <3>1, <3>2
  <2>4. (Writer!EndOfHeader)' = Writer!EndOfHeader
    BY DEF Writer!EndOfHeader
  <2>5. QED
    BY <1>1, <1>4, <2>3, <2>4 DEF Whole
<1>5. QED
  BY <1>3, <1>4

LEMMA HeaderWordWhole ==
  ASSUME IInv, Whole, Writer!WriteHeaderWord
  PROVE  Whole'
<1>1. PICK k : k = itr_header
  OBVIOUS
<1>2. /\ writing = "words" /\ writing' = "words" /\ package' = package
      /\ k # Writer!HeaderEnd /\ itr_header' = k + 1
      /\ Writer!Put(Writer!BytesOf(Header[k]))
      /\ itr_header' = Writer!HeaderEnd =>
           itr_packets' = 1 /\ packet_itr' = Writer!PacketItrAt(1)
  BY <1>1 DEF Writer!WriteHeaderWord
<1>3. Header \in Seq(StreamWord) /\ Len(Header) \in Nat /\ k \in 1 .. Len(Header)
  BY <1>1, <1>2, PackageWords, LenProperties DEF IInv, Writer!HeaderEnd
<1>4. PICK put, word : put = SubSeq(Header, 1, k - 1) /\ word = Header[k]
  OBVIOUS
<1>9. /\ put \in Seq(StreamWord) /\ word \in StreamWord
      /\ SubSeq(Header, 1, k) = Append(put, word)
  <2>1. k - 1 \in 0 .. Len(Header) - 1 /\ (k - 1) + 1 = k
    BY <1>3
  <2>2. QED
    BY <1>3, <1>4, <2>1, OneMore
<1>5. /\ ~ broken' => written' = File(0, Bytes(SubSeq(Header, 1, k)))
      /\ broken' => \/ written' \in Seq(Byte) /\ Len(written') < Writer!EndOfHeader
                    \/ \E bytes \in Seq(Byte) : written' = File(0, bytes)
  <2>1. ~ broken => HasPut(put)
    BY <1>1, <1>2, <1>4 DEF Whole, PutSoFar
  <2>2. Writer!Put(Writer!BytesOf(word))
    BY <1>2, <1>4
  <2>3. QED
    BY <1>2, <1>9, <2>1, <2>2, PutWord
<1>6. ASSUME ~ broken' PROVE PutSoFar'
  <2>1. CASE itr_header' # Writer!HeaderEnd
    <3>1. (k + 1) - 1 = k
      BY <1>3
    <3>2. HasPut(SubSeq(Header, 1, itr_header - 1))'
      BY <1>2, <1>5, <1>6, <3>1 DEF HasPut
    <3>3. QED
      BY <2>1, <3>2 DEF PutSoFar, Writer!HeaderEnd
  <2>2. CASE itr_header' = Writer!HeaderEnd
    <3>1. k = Len(Header) /\ SubSeq(Header, 1, k) = Header
      BY <1>2, <1>3, <2>2, SubSeqFull DEF Writer!HeaderEnd
    <3>2. written' = File(0, Bytes(Header))
      BY <1>5, <1>6, <3>1
    <3>3. CASE packet_itr' = {}
      <4>1. package = <<>>
        <5>1. 1 \in 1 .. Len(package) + 1
          BY PackageType DEF IInv
        <5>2. 1 = Len(package) + 1
          BY <1>2, <2>2, <3>3, <5>1, ItrAtType DEF IInv
        <5>3. Len(package) = 0
          BY <5>2, PackageType DEF IInv
        <5>4. QED
          BY <5>3, PackageWords, EmptySeq
      <4>2. All' = Header
        BY <1>2, <1>3, <4>1, NoWords, ConcatEmptySeq DEF All
      <4>3. QED
        BY <2>2, <3>2, <3>3, <4>2 DEF PutSoFar, HasPut, Writer!HeaderEnd
    <3>4. CASE packet_itr' # {}
      <4>1. ASSUME NEW itr \in packet_itr'
            PROVE  HasPut(Header \o PacketsSoFar(itr_packets, Count(itr)))'
        <5>1. itr = [state |-> "header", data |-> 1] /\ itr_packets' = 1
          <6>1. 1 \in 1 .. Len(package) + 1
            BY PackageType DEF IInv
          <6>2. QED
            BY <1>2, <2>2, <4>1, <6>1, ItrAtType DEF IInv
        <5>2. Count(itr) = 0
          BY <5>1 DEF Count
        <5>3. PacketsSoFar(1, 0)' = <<>>
          <6>1. SubSeq(package, 1, 1 - 1) = <<>>
            BY SubSeqEmpty
          <6>2. SubSeq(WordsOfOne(package[1]), 1, 0) = <<>>
            BY SubSeqEmpty
          <6>3. QED
            BY <1>2, <6>1, <6>2, NoWords, EmptySeq, ConcatEmptySeq DEF PacketsSoFar
        <5>4. QED
          BY <1>3, <3>2, <5>1, <5>2, <5>3, ConcatEmptySeq DEF HasPut
      <4>2. QED
        BY <2>2, <3>4, <4>1 DEF PutSoFar, Writer!HeaderEnd
    <3>5. QED
      BY <3>3, <3>4
  <2>3. QED
    BY <2>1, <2>2
<1>7. (Writer!EndOfHeader)' = Writer!EndOfHeader
  BY DEF Writer!EndOfHeader
<1>8. QED
  BY <1>2, <1>5, <1>6, <1>7 DEF Whole

(* The word an iterator is at is the next of the package.                  *)
LEMMA DerefIsNext ==
  ASSUME IInv, NEW itr \in packet_itr, NEW i, i = itr_packets,
         NEW n, n = Count(itr), NEW ws, ws = WordsOfOne(package[i])
  PROVE  /\ i \in 1 .. Len(package) /\ package[i] \in AnyPacket
         /\ ws \in Seq(StreamWord)
         /\ n \in 0 .. Len(ws) - 1
         /\ Writer!Deref(i, itr) = ws[n + 1]
         /\ Writer!NextInPacket(i, itr) = Writer!PacketEnd(i) => n + 1 = Len(ws)
         /\ Writer!NextInPacket(i, itr) # Writer!PacketEnd(i) =>
              Count(Writer!NextInPacket(i, itr)) = n + 1
<1> DEFINE p == package[i]
           next == Writer!NextInPacket(i, itr)
<1>1. i \in 1 .. Len(package) /\ package \in Seq(AnyPacket)
  <2>1. Len(package) \in Nat /\ package \in Seq(AnyPacket)
    BY PackageWords, LenProperties
  <2>2. i \in 1 .. Len(package) + 1 /\ i # Len(package) + 1
    BY DEF IInv, ItrTypeOK
  <2>3. QED
    BY <2>1, <2>2
<1>2. p \in AnyPacket
  BY <1>1, ElementOfSeq
<1>3. p.data \in Seq(StreamWord) /\ Len(p.data) \in Nat
  <2>1. p.data \in Seq(AnyWord)
    BY <1>2 DEF AnyPacket
  <2>2. AnyWord \subseteq StreamWord
    BY DEF StreamWord
  <2>3. QED
    BY <2>1, <2>2, SeqMonotonic, LenProperties
<1>4. ws \in Seq(StreamWord) /\ PacketHeader(p) \in StreamWord
  BY <1>2, WordsOfOneType
<1>5. /\ itr.state \in {"header", "data"}
      /\ itr.state = "data" => itr.data \in 1 .. Len(p.data)
  BY <1>1 DEF IInv, ItrTypeOK
<1>6. /\ Len(ws) = Len(p.data) + 1
      /\ \A j \in 1 .. Len(p.data) + 1 :
           ws[j] = IF j <= 1 THEN PacketHeader(p) ELSE p.data[j - 1]
  <2> DEFINE first == <<PacketHeader(p)>>
  <2>1. first \in Seq(StreamWord) /\ Len(first) = 1 /\ first[1] = PacketHeader(p)
    BY <1>4
  <2> HIDE DEF first, p
  <2>2. /\ Len(first \o p.data) = Len(first) + Len(p.data)
        /\ \A j \in 1 .. Len(first) + Len(p.data) :
             (first \o p.data)[j] =
               IF j <= Len(first) THEN first[j] ELSE p.data[j - Len(first)]
    BY <1>3, <2>1, ConcatProperties
  <2>3. ws = first \o p.data
    BY DEF WordsOfOne, first, p
  <2>4. \A j \in 1 .. Len(p.data) + 1 : j <= 1 => j = 1
    OBVIOUS
  <2>5. QED
    BY <1>3, <2>1, <2>2, <2>3, <2>4
<1>7. n \in 0 .. Len(p.data)
  BY <1>3, <1>5 DEF Count
<1> HIDE DEF p
<1>8. Writer!Deref(i, itr) = ws[n + 1]
  <2>1. CASE itr.state = "header"
    <3>1. n = 0 /\ 0 + 1 = 1 /\ 1 \in 1 .. Len(p.data) + 1
      BY <1>3, <2>1 DEF Count
    <3>2. ws[1] = PacketHeader(p)
      BY <1>6, <3>1
    <3>3. QED
      BY <2>1, <3>1, <3>2, SameWords DEF Writer!Deref, p
  <2>2. CASE itr.state = "data"
    <3>1. n = itr.data /\ n \in 1 .. Len(p.data)
      BY <1>5, <2>2 DEF Count
    <3>2. n + 1 \in 1 .. Len(p.data) + 1 /\ ~ n + 1 <= 1 /\ (n + 1) - 1 = n
      BY <1>3, <3>1
    <3>3. ws[n + 1] = p.data[n]
      BY <1>6, <3>2
    <3>4. QED
      BY <2>2, <3>1, <3>3 DEF Writer!Deref, p
  <2>3. QED
    BY <1>5, <2>1, <2>2
<1>9. next = [state |-> IF n + 1 = Len(p.data) + 1 THEN "end" ELSE "data",
              data |-> n + 1]
  BY <1>5 DEF Writer!NextInPacket, Count, p
<1>10. Writer!PacketEnd(i) = [state |-> "end", data |-> Len(p.data) + 1]
  BY DEF Writer!PacketEnd, p
<1>11. next = Writer!PacketEnd(i) => n + 1 = Len(p.data) + 1
  BY <1>9, <1>10
<1>12. next # Writer!PacketEnd(i) => next.state = "data" /\ next.data = n + 1
  <2>1. CASE n + 1 = Len(p.data) + 1
    BY <1>9, <1>10, <2>1
  <2>2. CASE n + 1 # Len(p.data) + 1
    BY <1>9, <2>2
  <2>3. QED
    BY <2>1, <2>2
<1>13. QED
  <2>1. n \in 0 .. Len(ws) - 1
    BY <1>3, <1>6, <1>7
  <2> HIDE DEF next
  <2>2. next # Writer!PacketEnd(i) => Count(next) = n + 1
    BY <1>12 DEF Count
  <2>3. QED
    BY <1>1, <1>2, <1>4, <1>6, <1>8, <1>11, <2>1, <2>2 DEF next, p

(* After its last word a packet is one of those that are done.             *)
LEMMA PacketDone ==
  ASSUME IInv, NEW i \in 1 .. Len(package)
  PROVE  /\ WordsOf(SubSeq(package, 1, i - 1)) \in Seq(StreamWord)
         /\ PacketsSoFar(i, Len(WordsOfOne(package[i])))
              = WordsOf(SubSeq(package, 1, i))
<1>1. package \in Seq(AnyPacket) /\ Len(package) \in Nat
  BY PackageWords, LenProperties
<1>2. /\ SubSeq(package, 1, i - 1) \in Seq(AnyPacket) /\ package[i] \in AnyPacket
      /\ SubSeq(package, 1, i) = Append(SubSeq(package, 1, i - 1), package[i])
  <2>1. i - 1 \in 0 .. Len(package) - 1 /\ (i - 1) + 1 = i
    BY <1>1
  <2>2. QED
    BY <1>1, <2>1, OneMore
<1>3. WordsOfOne(package[i]) \in Seq(StreamWord)
  BY <1>2, WordsOfOneType
<1>4. QED
  BY <1>2, <1>3, WordsOfType, WordsOfAppend, SubSeqFull DEF PacketsSoFar

LEMMA PacketWordWhole ==
  ASSUME IInv, Whole, Writer!WritePacketWord
  PROVE  Whole'
<1>1. PICK itr \in packet_itr :
        /\ Writer!Put(Writer!BytesOf(Writer!Deref(itr_packets, itr)))
        /\ IF Writer!NextInPacket(itr_packets, itr) = Writer!PacketEnd(itr_packets)
           THEN /\ itr_packets' = itr_packets + 1
                /\ packet_itr' = Writer!PacketItrAt(itr_packets + 1)
           ELSE /\ packet_itr' = {Writer!NextInPacket(itr_packets, itr)}
                /\ itr_packets' = itr_packets
  BY DEF Writer!WritePacketWord
<1>2. /\ writing = "words" /\ writing' = "words" /\ package' = package
      /\ itr_header = Writer!HeaderEnd /\ itr_header' = itr_header
      /\ (Writer!HeaderEnd)' = Writer!HeaderEnd
      /\ (Writer!EndOfHeader)' = Writer!EndOfHeader
  BY DEF Writer!WritePacketWord, Writer!HeaderEnd, Writer!EndOfHeader
<1>3. PICK i, n : i = itr_packets /\ n = Count(itr)
  OBVIOUS
<1>4. PICK ws : ws = WordsOfOne(package[i])
  OBVIOUS
<1>5. PICK next : next = Writer!NextInPacket(i, itr)
  OBVIOUS
<1>6. /\ i \in 1 .. Len(package) /\ package[i] \in AnyPacket
      /\ ws \in Seq(StreamWord) /\ n \in 0 .. Len(ws) - 1
      /\ Writer!Deref(i, itr) = ws[n + 1]
      /\ next = Writer!PacketEnd(i) => n + 1 = Len(ws)
      /\ next # Writer!PacketEnd(i) => Count(next) = n + 1
  BY <1>3, <1>4, <1>5, DerefIsNext
<1>7. PICK before, front, put, word, after :
        /\ before = WordsOf(SubSeq(package, 1, i - 1))
        /\ front = SubSeq(ws, 1, n)
        /\ put = Header \o (before \o front)
        /\ word = ws[n + 1]
        /\ after = Header \o (before \o SubSeq(ws, 1, n + 1))
  OBVIOUS
<1>8. Header \in Seq(StreamWord)
  BY PackageWords
<1>9. /\ before \in Seq(StreamWord) /\ front \in Seq(StreamWord)
      /\ word \in StreamWord /\ SubSeq(ws, 1, n + 1) = Append(front, word)
  BY <1>6, <1>7, PacketDone, OneMore
<1>10. put \in Seq(StreamWord) /\ Append(put, word) = after
  <2>1. before \o front \in Seq(StreamWord)
    BY <1>9, ConcatProperties
  <2>2. PICK last, middle : last = <<word>> /\ middle = before \o front
    OBVIOUS
  <2>3. last \in Seq(StreamWord)
    BY <1>9, <2>2
  <2>4. put \in Seq(StreamWord)
    BY <1>7, <1>8, <2>1, ConcatProperties
  <2>5. Append(put, word) = put \o last /\ Append(front, word) = front \o last
    BY <1>9, <2>2, <2>4, AppendIsConcat
  <2>6. (Header \o middle) \o last = Header \o (middle \o last)
    <3>1. middle \in Seq(StreamWord)
      BY <2>1, <2>2
    <3>2. QED
      BY <1>8, <2>3, <3>1, ConcatAssociative
  <2>7. (before \o front) \o last = before \o (front \o last)
    BY <1>9, <2>3, ConcatAssociative
  <2>8. put \o last = after
    BY <1>7, <1>9, <2>2, <2>5, <2>6, <2>7
  <2>9. QED
    BY <2>4, <2>5, <2>8
<1>11. /\ ~ broken' => written' = File(0, Bytes(after))
       /\ broken' => \/ written' \in Seq(Byte) /\ Len(written') < Writer!EndOfHeader
                     \/ \E bytes \in Seq(Byte) : written' = File(0, bytes)
  <2>1. put = Header \o PacketsSoFar(i, n)
    BY <1>4, <1>7 DEF PacketsSoFar
  <2>2. ~ broken => HasPut(put)
    BY <1>2, <1>3, <2>1 DEF Whole, PutSoFar
  <2>3. Writer!Put(Writer!BytesOf(word))
    BY <1>1, <1>3, <1>6, <1>7
  <2>4. QED
    BY <1>2, <1>9, <1>10, <2>2, <2>3, PutWord
<1>12. ASSUME ~ broken' PROVE PutSoFar'
  <2>1. CASE next = Writer!PacketEnd(i)
    <3>1. itr_packets' = i + 1 /\ packet_itr' = Writer!PacketItrAt(i + 1)
      BY <1>1, <1>3, <1>5, <2>1
    <3>2. after = Header \o WordsOf(SubSeq(package, 1, i))
      <4>1. n + 1 = Len(ws)
        BY <1>6, <2>1
      <4>2. before \o SubSeq(ws, 1, n + 1) = PacketsSoFar(i, Len(ws))
        BY <1>4, <1>7, <4>1 DEF PacketsSoFar
      <4>3. QED
        BY <1>4, <1>6, <1>7, <4>2, PacketDone
    <3>3. i + 1 \in 1 .. Len(package) + 1
      BY <1>6
    <3>4. CASE packet_itr' = {}
      <4>1. i = Len(package) /\ SubSeq(package, 1, i) = package
        <5>1. i + 1 = Len(package) + 1
          BY <3>1, <3>3, <3>4, ItrAtType DEF IInv
        <5>2. Len(package) \in Nat
          BY PackageWords, LenProperties
        <5>3. i = Len(package)
          BY <1>6, <5>1, <5>2
        <5>4. QED
          BY <5>3, PackageWords, SubSeqFull
      <4>2. All' = after
        BY <1>2, <3>2, <4>1 DEF All
      <4>3. QED
        BY <1>2, <1>11, <1>12, <3>4, <4>2 DEF PutSoFar, HasPut
    <3>5. CASE packet_itr' # {}
      <4>1. ASSUME NEW it \in packet_itr'
            PROVE  HasPut(Header \o PacketsSoFar(itr_packets, Count(it)))'
        <5>1. it = [state |-> "header", data |-> 1]
          BY <3>1, <3>3, <4>1, ItrAtType DEF IInv
        <5>2. Count(it) = 0
          BY <5>1 DEF Count
        <5>3. SubSeq(WordsOfOne(package[i + 1]), 1, 0) = <<>>
          BY SubSeqEmpty
        <5>4. (i + 1) - 1 = i
          BY <1>6
        <5>5. WordsOf(SubSeq(package, 1, i)) \in Seq(StreamWord)
          <6>1. i + 1 \in 1 .. Len(package)
            <7>1. i + 1 # Len(package) + 1
              BY <3>1, <3>3, <3>5, ItrAtType DEF IInv
            <7>2. Len(package) \in Nat
              BY PackageWords, LenProperties
            <7>3. QED
              BY <3>3, <7>1, <7>2
          <6>2. QED
            BY <5>4, <6>1, PacketDone
        <5>6. PacketsSoFar(itr_packets, Count(it))' = WordsOf(SubSeq(package, 1, i))
          BY <1>2, <3>1, <5>2, <5>3, <5>4, <5>5, ConcatEmptySeq DEF PacketsSoFar, Count
        <5>7. QED
          BY <1>11, <1>12, <3>2, <5>6 DEF HasPut
      <4>2. QED
        BY <1>2, <3>5, <4>1 DEF PutSoFar
    <3>6. QED
      BY <3>4, <3>5
  <2>2. CASE next # Writer!PacketEnd(i)
    <3>1. itr_packets' = i /\ packet_itr' = {next} /\ Count(next) = n + 1
      BY <1>1, <1>3, <1>5, <1>6, <2>2
    <3>2. after = Header \o PacketsSoFar(i, n + 1)
      BY <1>4, <1>7 DEF PacketsSoFar
    <3>3. PacketsSoFar(itr_packets, n + 1)' = PacketsSoFar(i, n + 1)
      BY <1>2, <3>1 DEF PacketsSoFar
    <3>4. ASSUME NEW it \in packet_itr'
          PROVE  HasPut(Header \o PacketsSoFar(itr_packets, Count(it)))'
      BY <1>11, <1>12, <3>1, <3>2, <3>3, <3>4 DEF HasPut, PacketsSoFar, Count
    <3>5. QED
      BY <1>2, <3>1, <3>4 DEF PutSoFar
  <2>3. QED
    BY <2>1, <2>2
<1>13. QED
  BY <1>2, <1>11, <1>12 DEF Whole

LEMMA LengthWhole ==
  ASSUME IInv, Whole, Writer!WriteLength
  PROVE  Whole'
<1>1. /\ writing = "length" /\ writing' = "done" /\ package' = package
      /\ sink' = sink /\ broken' = broken
      /\ (Writer!EndOfHeader)' = Writer!EndOfHeader
  BY DEF Writer!WriteLength, Writer!EndOfHeader
<1>2. PICK bytes, n : bytes = Bytes(All) /\ n = Len(bytes)
  OBVIOUS
<1>3. bytes \in Seq(Byte) /\ n \in Nat /\ 0 \in Nat
  BY <1>2, PackageWords
<1>4. CASE broken
  BY <1>1, <1>4 DEF Whole, Writer!WriteLength
<1>5. CASE ~ broken /\ sink = "pipe"
  <2>1. written' = File(0, bytes)
    BY <1>1, <1>2, <1>5 DEF Whole, HasPut, Writer!WriteLength
  <2>2. QED
    BY <1>1, <1>2, <1>5, <2>1 DEF Whole, All
<1>6. CASE ~ broken /\ sink # "pipe"
  <2>1. written = File(0, bytes)
    BY <1>1, <1>2, <1>6 DEF Whole, HasPut
  <2>2. PICK m, e : m = Len(BitHeader) /\ e = Writer!EndOfHeader
    OBVIOUS
  <2>3. /\ m \in Nat /\ e = m + 4 /\ Len(written) = e + n
        /\ SubSeq(written, 1, m) = BitHeader
        /\ SubSeq(written, e + 1, Len(written)) = bytes
    BY <1>2, <1>3, <2>1, <2>2, FileParts
  <2>4. e - Writer!WordBytes = m /\ Len(written) - e = n
    BY <1>3, <2>3, SameWords
  <2>5. Writer!BytesOf(Writer!LengthOfData) = BytesOf(Number(n))
    BY <2>2, <2>4, SameWords DEF Writer!LengthOfData
  <2>6. written' = BitHeader \o BytesOf(Number(n)) \o bytes
    BY <1>6, <2>2, <2>3, <2>4, <2>5 DEF Writer!WriteLength
  <2>7. written' = File(n, bytes)
    BY <2>6 DEF File
  <2>8. QED
    BY <1>1, <1>2, <1>6, <2>7 DEF Whole, All
<1>7. QED
  BY <1>4, <1>5, <1>6

LEMMA WholeStep == IInv /\ Whole /\ [Next]_vars => Whole'
<1> SUFFICES ASSUME IInv, Whole, [Next]_vars PROVE Whole'
  OBVIOUS
<1>1. ASSUME UNCHANGED <<writerVars>> PROVE Whole'
  BY <1>1 DEF Whole, writerVars, inputs, PutSoFar, HasPut, All, PacketsSoFar,
              Writer!HeaderEnd, Writer!EndOfHeader
<1>2. CASE Read
  <2>1. written' = written
    BY <1>2 DEF Read, Reader!ReaderNext, Reader!InitWithBytes, Reader!Stop,
                Reader!Yield, Reader!PassOver
  <2>2. QED
    BY <1>1, <1>2, <2>1 DEF Read, writerVars, inputs
<1>3. CASE Writer!EndOfWords
  <2>1. /\ writing = "words" /\ writing' = "length" /\ package' = package
        /\ written' = written /\ broken' = broken
        /\ itr_header = Writer!HeaderEnd /\ packet_itr = {}
    BY <1>3 DEF Writer!EndOfWords, Writer!AtEnd
  <2>2. QED
    BY <2>1 DEF Whole, PutSoFar, HasPut, All, Writer!EndOfHeader
<1>4. CASE UNCHANGED vars
  BY <1>1, <1>4 DEF vars
<1>5. QED
  BY <1>2, <1>3, <1>4, BitHeaderWhole, HeaderWordWhole, PacketWordWhole, LengthWhole
     DEF Next, Write, Writer!WriterNext

(* Until the length has been put it is zero.                               *)
LEMMA ZeroUntilPut ==
  ASSUME IInv, Whole, writing # "header", Len(written) >= Writer!EndOfHeader,
         broken \/ writing # "done" \/ sink = "pipe"
  PROVE  \E bytes \in Seq(Byte) : written = File(0, bytes)
<1>1. CASE broken
  <2>1. ASSUME written \in Seq(Byte), Len(written) < Writer!EndOfHeader PROVE FALSE
    <3>1. Len(written) \in Nat
      BY <2>1, LenProperties
    <3>2. Writer!EndOfHeader \in Nat
      <4>1. <<>> \in Seq(Byte) /\ 0 \in Nat
        BY EmptySeq
      <4>2. Writer!EndOfHeader = Len(BitHeader) + 4 /\ Len(BitHeader) \in Nat
        BY <4>1, FileParts
      <4>3. QED
        BY <4>2
    <3>3. QED
      BY <2>1, <3>1, <3>2
  <2>2. QED
    BY <1>1, <2>1 DEF Whole
<1>2. CASE ~ broken /\ writing \in {"length", "done"}
  BY <1>2, PackageWords DEF Whole, HasPut
<1>3. CASE ~ broken /\ writing = "words"
  <2>1. ASSUME NEW put \in Seq(StreamWord), HasPut(put)
        PROVE  \E bytes \in Seq(Byte) : written = File(0, bytes)
    BY <2>1, BytesLength DEF HasPut
  <2>2. CASE itr_header # Writer!HeaderEnd
    <3>1. itr_header - 1 \in 0 .. Len(Header) - 1
      BY <2>2, PackageWords, LenProperties DEF IInv, Writer!HeaderEnd
    <3>2. SubSeq(Header, 1, itr_header - 1) \in Seq(StreamWord)
      BY <3>1, PackageWords, OneMore
    <3>3. QED
      BY <1>3, <2>1, <2>2, <3>2 DEF Whole, PutSoFar
  <2>3. CASE itr_header = Writer!HeaderEnd /\ packet_itr = {}
    BY <1>3, <2>1, <2>3, PackageWords DEF Whole, PutSoFar
  <2>4. ASSUME itr_header = Writer!HeaderEnd, NEW itr \in packet_itr
        PROVE  \E bytes \in Seq(Byte) : written = File(0, bytes)
    <3>1. PICK i, n, ws, before : /\ i = itr_packets /\ n = Count(itr)
                                  /\ ws = WordsOfOne(package[i])
                                  /\ before = WordsOf(SubSeq(package, 1, i - 1))
      OBVIOUS
    <3>2. /\ i \in 1 .. Len(package) /\ ws \in Seq(StreamWord)
          /\ n \in 0 .. Len(ws) - 1
      BY <2>4, <3>1, DerefIsNext
    <3>3. before \in Seq(StreamWord) /\ SubSeq(ws, 1, n) \in Seq(StreamWord)
      BY <3>1, <3>2, PacketDone, OneMore
    <3>4. before \o SubSeq(ws, 1, n) \in Seq(StreamWord)
      BY <3>3, ConcatProperties
    <3>5. PacketsSoFar(i, n) \in Seq(StreamWord)
      BY <3>1, <3>4 DEF PacketsSoFar
    <3>6. Header \o PacketsSoFar(i, n) \in Seq(StreamWord)
      BY <3>5, PackageWords, ConcatProperties
    <3>7. HasPut(Header \o PacketsSoFar(i, n))
      BY <1>3, <2>4, <3>1 DEF Whole, PutSoFar
    <3>8. QED
      BY <2>1, <3>6, <3>7
  <2>5. QED
    BY <2>2, <2>3, <2>4
<1>4. QED
  BY <1>1, <1>2, <1>3 DEF IInv

LEMMA WholeLength == IInv /\ Whole => LengthOfWhole
<1> SUFFICES ASSUME IInv, Whole,
                    writing # "header", Len(written) >= Writer!EndOfHeader
             PROVE
               LET length == SubSeq(written, Writer!EndOfHeader - Writer!WordBytes + 1,
                                    Writer!EndOfHeader)
                   data == SubSeq(written, Writer!EndOfHeader + 1, Len(written))
                   IsWhole == data = Writer!Bytes(Header \o Writer!WordsOf(package))
               IN /\ length # Writer!BytesOf(Writer!Number(0)) =>
                       length = Writer!BytesOf(Writer!Number(Len(data))) /\ IsWhole
                  /\ writing = "done" /\ sink = "file" /\ ~ broken =>
                       length # Writer!BytesOf(Writer!Number(0))
  BY DEF LengthOfWhole, Writer!LengthOfWhole
<1>1. Writer!BytesOf(Writer!Number(0)) = BytesOf(Number(0))
  BY SameWords
<1>2. ASSUME NEW length \in Nat, NEW bytes \in Seq(Byte), written = File(length, bytes)
      PROVE  /\ SubSeq(written, Writer!EndOfHeader - Writer!WordBytes + 1,
                       Writer!EndOfHeader) = BytesOf(Number(length))
             /\ SubSeq(written, Writer!EndOfHeader + 1, Len(written)) = bytes
  <2>1. /\ Writer!EndOfHeader = Len(BitHeader) + 4 /\ Len(BitHeader) \in Nat
        /\ Writer!WordBytes = 4
    BY FileParts, SameWords
  <2>2. Writer!EndOfHeader - Writer!WordBytes + 1 = Len(BitHeader) + 1
    BY <2>1
  <2>3. QED
    BY <1>2, <2>2, FileParts
<1>3. CASE broken \/ writing # "done" \/ sink = "pipe"
  <2>1. PICK bytes \in Seq(Byte) : written = File(0, bytes)
    BY <1>3, ZeroUntilPut
  <2>2. SubSeq(written, Writer!EndOfHeader - Writer!WordBytes + 1, Writer!EndOfHeader)
          = BytesOf(Number(0))
    BY <1>2, <2>1
  <2>3. ~ (writing = "done" /\ sink = "file" /\ ~ broken)
    BY <1>3
  <2>4. QED
    BY <1>1, <2>2, <2>3
<1>4. CASE ~ broken /\ writing = "done" /\ sink # "pipe"
  <2>1. PICK bytes, n : bytes = Bytes(All) /\ n = Len(bytes)
    OBVIOUS
  <2>2. bytes \in Seq(Byte) /\ n \in Nat \ {0} /\ written = File(n, bytes)
    BY <1>4, <2>1, PackageWords DEF Whole
  <2>3. /\ SubSeq(written, Writer!EndOfHeader - Writer!WordBytes + 1,
                  Writer!EndOfHeader) = BytesOf(Number(n))
        /\ SubSeq(written, Writer!EndOfHeader + 1, Len(written)) = bytes
    BY <1>2, <2>2
  <2>4. BytesOf(Number(n)) # BytesOf(Number(0))
    <3>1. Number(n).count = n /\ Number(0).count = 0
      BY DEF Number, Word
    <3>2. Number(n) # Number(0)
      BY <2>2, <3>1
    <3>3. 1 \in 1 .. WordBytes
      BY DEF WordBytes
    <3>4. BytesOf(Number(n))[1] = <<Number(n), 1>> /\ BytesOf(Number(0))[1] = <<Number(0), 1>>
      BY <3>3 DEF BytesOf
    <3>5. QED
      BY <3>2, <3>4
  <2>5. Writer!BytesOf(Writer!Number(n)) = BytesOf(Number(n))
    BY SameWords
  <2>6. Writer!Bytes(Header \o Writer!WordsOf(package)) = bytes
    BY <2>1, SameWords DEF All
  <2>7. QED
    BY <1>1, <2>1, <2>3, <2>4, <2>5, <2>6
<1>5. QED
  BY <1>3, <1>4

(* A length other than zero in the header of a file vouches for the data:  *)
(* it is put after the last word only, and only where all words got into   *)
(* the file, whichever word the stream may have failed at.                 *)
THEOREM LengthVouches == Spec => []LengthOfWhole
<1>1. Init => Whole
  BY DEF Init, Writer!WriterInit, Whole
<1>2. IInv /\ [Next]_vars => IInv'
  BY StepInvariant
<1>3. QED
  BY <1>1, <1>2, InitInvariant, WholeStep, WholeLength, PTL DEF Spec

-----------------------------------------------------------------------------
(* Where the words of a packet are among those of its package, and where   *)
(* the bytes of a word are in a file.                                      *)

WordsBefore(packets, i) == Len(WordsOf(SubSeq(packets, 1, i)))

LEMMA ConcatAt ==
  ASSUME NEW S, NEW a \in Seq(S), NEW b \in Seq(S), NEW ab, ab = a \o b
  PROVE  /\ ab \in Seq(S)
         /\ Len(a) \in Nat /\ Len(b) \in Nat /\ Len(ab) = Len(a) + Len(b)
         /\ \A i \in 1 .. Len(a) : ab[i] = a[i]
         /\ \A i \in 1 .. Len(b) : ab[Len(a) + i] = b[i]
<1>1. Len(a) \in Nat /\ Len(b) \in Nat
  BY LenProperties
<1>2. /\ ab \in Seq(S) /\ Len(ab) = Len(a) + Len(b)
      /\ \A i \in 1 .. Len(a) + Len(b) :
           ab[i] = IF i <= Len(a) THEN a[i] ELSE b[i - Len(a)]
  BY ConcatProperties
<1>3. ASSUME NEW i \in 1 .. Len(a) PROVE ab[i] = a[i]
  BY <1>1, <1>2
<1>4. ASSUME NEW i \in 1 .. Len(b) PROVE ab[Len(a) + i] = b[i]
  <2>1. /\ Len(a) + i \in 1 .. Len(a) + Len(b)
        /\ ~ Len(a) + i <= Len(a) /\ Len(a) + i - Len(a) = i
    BY <1>1
  <2>2. QED
    BY <1>2, <2>1
<1>5. QED
  BY <1>1, <1>2, <1>3, <1>4

LEMMA SubSeqAt ==
  ASSUME NEW S, NEW s \in Seq(S), NEW m \in 0 .. Len(s), NEW n \in 0 .. Len(s),
         m <= n
  PROVE  /\ SubSeq(s, m + 1, n) \in Seq(S)
         /\ Len(SubSeq(s, m + 1, n)) = n - m
         /\ \A i \in 1 .. n - m : SubSeq(s, m + 1, n)[i] = s[m + i]
<1>1. Len(s) \in Nat /\ \A i \in 1 .. Len(s) : s[i] \in S
  BY LenProperties
<1>2. \A i \in m + 1 .. n : s[i] \in S
  BY <1>1
<1>3. /\ SubSeq(s, m + 1, n) \in Seq(S)
      /\ Len(SubSeq(s, m + 1, n)) = IF m + 1 <= n THEN n - (m + 1) + 1 ELSE 0
      /\ \A i \in 1 .. n - (m + 1) + 1 :
           SubSeq(s, m + 1, n)[i] = s[(m + 1) + i - 1]
  BY <1>1, <1>2, SubSeqProperties
<1>4. n - (m + 1) + 1 = n - m
  BY <1>1
<1>5. Len(SubSeq(s, m + 1, n)) = n - m
  BY <1>1, <1>3
<1>6. ASSUME NEW i \in 1 .. n - m PROVE SubSeq(s, m + 1, n)[i] = s[m + i]
  <2>1. (m + 1) + i - 1 = m + i
    BY <1>1
  <2>2. QED
    BY <1>3, <1>4, <2>1
<1>7. QED
  BY <1>3, <1>5, <1>6

LEMMA MoreWords ==
  ASSUME NEW packets \in Seq(AnyPacket), NEW packet \in AnyPacket,
         NEW front \in Seq(StreamWord), NEW rest \in Seq(StreamWord),
         WordsOf(packets) = front \o rest
  PROVE  \E more \in Seq(StreamWord) :
           WordsOf(Append(packets, packet)) = front \o more
<1>1. PICK one : one = WordsOfOne(packet)
  OBVIOUS
<1>2. WordsOf(Append(packets, packet)) = (front \o rest) \o one
  BY <1>1, WordsOfAppend
<1>3. one \in Seq(StreamWord)
  BY <1>1, WordsOfOneType
<1>4. (front \o rest) \o one = front \o (rest \o one)
  BY <1>3, ConcatAssociative
<1>5. rest \o one \in Seq(StreamWord)
  BY <1>3, ConcatProperties
<1>6. QED
  BY <1>2, <1>4, <1>5

LEMMA FirstWords ==
  ASSUME NEW packets \in Seq(AnyPacket), NEW i \in 0 .. Len(packets)
  PROVE  \E rest \in Seq(StreamWord) :
           WordsOf(packets) = WordsOf(SubSeq(packets, 1, i)) \o rest
<1> DEFINE Splits(s) == \A j \in 0 .. Len(s) : \E rest \in Seq(StreamWord) :
                          WordsOf(s) = WordsOf(SubSeq(s, 1, j)) \o rest
           T == {s \in Seq(AnyPacket) : Splits(s)}
<1>0. ASSUME NEW s \in Seq(AnyPacket)
      PROVE  \E rest \in Seq(StreamWord) :
               WordsOf(s) = WordsOf(SubSeq(s, 1, Len(s))) \o rest
  <2>1. SubSeq(s, 1, Len(s)) = s
    BY SubSeqFull
  <2>2. <<>> \in Seq(StreamWord) /\ WordsOf(s) = WordsOf(s) \o <<>>
    BY WordsOfType, EmptySeq, ConcatEmptySeq
  <2>3. QED
    BY <2>1, <2>2
<1>1. <<>> \in T
  <2>1. <<>> \in Seq(AnyPacket) /\ Len(<<>>) = 0 /\ \A j \in 0 .. 0 : j = 0
    BY EmptySeq
  <2>2. QED
    BY <1>0, <2>1
<1>2. ASSUME NEW s \in Seq(AnyPacket), NEW e \in AnyPacket, s \in T
      PROVE  Append(s, e) \in T
  <2>1. PICK n, t : n = Len(s) /\ t = Append(s, e)
    OBVIOUS
  <2>2. n \in Nat /\ t \in Seq(AnyPacket) /\ Len(t) = n + 1
        /\ \A j \in 1 .. n : t[j] = s[j]
    BY <2>1, AppendProperties, LenProperties
  <2>3. ASSUME NEW j \in 0 .. n
        PROVE  \E rest \in Seq(StreamWord) :
                 WordsOf(t) = WordsOf(SubSeq(t, 1, j)) \o rest
    <3>1. PICK rest \in Seq(StreamWord) :
            WordsOf(s) = WordsOf(SubSeq(s, 1, j)) \o rest
      BY <1>2, <2>1
    <3>2. SubSeq(t, 1, j) = SubSeq(s, 1, j) /\ SubSeq(s, 1, j) \in Seq(AnyPacket)
      <4>1. /\ SubSeq(t, 1, j) \in Seq(AnyPacket) /\ Len(SubSeq(t, 1, j)) = j
            /\ \A i_1 \in 1 .. j : SubSeq(t, 1, j)[i_1] = t[i_1]
        <5>1. 0 \in 0 .. Len(t) /\ j \in 0 .. Len(t) /\ 0 <= j /\ j - 0 = j
              /\ 0 + 1 = 1 /\ \A x \in 1 .. j : 0 + x = x
          BY <2>2
        <5>2. QED
          BY <2>2, <5>1, SubSeqAt
      <4>2. /\ SubSeq(s, 1, j) \in Seq(AnyPacket) /\ Len(SubSeq(s, 1, j)) = j
            /\ \A i_1 \in 1 .. j : SubSeq(s, 1, j)[i_1] = s[i_1]
        <5>1. 0 \in 0 .. Len(s) /\ j \in 0 .. Len(s) /\ 0 <= j /\ j - 0 = j
              /\ 0 + 1 = 1 /\ \A x \in 1 .. j : 0 + x = x
          BY <2>1, <2>2
        <5>2. QED
          BY <2>1, <5>1, SubSeqAt
      <4>3. \A i_1 \in 1 .. j : t[i_1] = s[i_1]
        BY <2>2
      <4>4. QED
        BY <4>1, <4>2, <4>3, SeqEqual
    <3>3. WordsOf(t) = WordsOf(s) \o WordsOfOne(e)
      BY <2>1, WordsOfAppend
    <3>4. PICK front : front = WordsOf(SubSeq(s, 1, j))
      OBVIOUS
    <3>5. front \in Seq(StreamWord)
      BY <3>2, <3>4, WordsOfType
    <3>6. \E more \in Seq(StreamWord) : WordsOf(t) = front \o more
      BY <2>1, <3>1, <3>4, <3>5, MoreWords
    <3>7. QED
      BY <3>2, <3>4, <3>6
  <2>4. \A j \in 0 .. n + 1 : j \in 0 .. n \/ j = Len(t)
    BY <2>2
  <2>5. Splits(t)
    <3> SUFFICES ASSUME NEW j \in 0 .. n + 1
                 PROVE  \E rest \in Seq(StreamWord) :
                          WordsOf(t) = WordsOf(SubSeq(t, 1, j)) \o rest
      BY <2>2
    <3>1. CASE j \in 0 .. n
      BY <2>3, <3>1
    <3>2. CASE j = Len(t)
      BY <1>0, <2>2, <3>2
    <3>3. QED
      BY <2>4, <3>1, <3>2
  <2>6. QED
    BY <2>1, <2>2, <2>5
<1>3. Seq(AnyPacket) \subseteq T
  <2> HIDE DEF T
  <2>1. QED
    BY <1>1, <1>2, SeqSetInduction
<1>4. QED
  BY <1>3

LEMMA WordsOfEach ==
  ASSUME NEW packets \in Seq(AnyPacket), NEW i \in 1 .. Len(packets)
  PROVE  LET one == WordsOfOne(packets[i])
             before == WordsBefore(packets, i - 1)
         IN /\ packets[i] \in AnyPacket
            /\ one \in Seq(StreamWord) /\ Len(one) \in Nat \ {0}
            /\ before \in Nat /\ WordsBefore(packets, i) = before + Len(one)
            /\ before + Len(one) <= Len(WordsOf(packets))
            /\ \A k \in 1 .. before :
                 WordsOf(packets)[k] = WordsOf(SubSeq(packets, 1, i - 1))[k]
            /\ \A k \in 1 .. Len(one) : WordsOf(packets)[before + k] = one[k]
<1>0. PICK one, front, before :
        /\ one = WordsOfOne(packets[i])
        /\ front = WordsOf(SubSeq(packets, 1, i - 1)) /\ before = Len(front)
  OBVIOUS
<1>1. Len(packets) \in Nat
  BY LenProperties
<1>2. /\ SubSeq(packets, 1, i - 1) \in Seq(AnyPacket) /\ packets[i] \in AnyPacket
      /\ SubSeq(packets, 1, i) = Append(SubSeq(packets, 1, i - 1), packets[i])
  <2>1. i - 1 \in 0 .. Len(packets) - 1 /\ (i - 1) + 1 = i
    BY <1>1
  <2>2. QED
    BY <2>1, OneMore
<1>3. WordsOf(SubSeq(packets, 1, i)) = front \o one
  BY <1>0, <1>2, WordsOfAppend
<1>4. one \in Seq(StreamWord) /\ front \in Seq(StreamWord)
  BY <1>0, <1>2, WordsOfOneType, WordsOfType
<1>5. PICK rest \in Seq(StreamWord) : WordsOf(packets) = (front \o one) \o rest
  <2>1. i \in 0 .. Len(packets)
    BY <1>1
  <2>2. QED
    BY <1>3, <2>1, FirstWords
<1>6. Len(one) \in Nat \ {0}
  <2>1. packets[i].data \in Seq(StreamWord)
    <3>1. packets[i].data \in Seq(AnyWord)
      BY <1>2 DEF AnyPacket
    <3>2. AnyWord \subseteq StreamWord
      BY DEF StreamWord
    <3>3. QED
      BY <3>1, <3>2, SeqMonotonic
  <2>2. PICK first, data :
          first = <<PacketHeader(packets[i])>> /\ data = packets[i].data
    OBVIOUS
  <2>3. first \in Seq(StreamWord) /\ Len(first) = 1
    BY <1>2, <2>2, WordsOfOneType
  <2>4. one = first \o data /\ data \in Seq(StreamWord)
    BY <1>0, <2>1, <2>2 DEF WordsOfOne
  <2>5. Len(one) = Len(first) + Len(data) /\ Len(data) \in Nat
    <3>1. first \in Seq(StreamWord)
      BY <2>3
    <3>2. data \in Seq(StreamWord)
      BY <2>4
    <3>3. one = first \o data
      BY <2>4
    <3>4. QED
      BY <3>1, <3>2, <3>3, ConcatAt
  <2>6. QED
    BY <2>3, <2>5
<1>7. PICK both : both = front \o one
  OBVIOUS
<1>8. /\ both \in Seq(StreamWord) /\ before \in Nat /\ Len(both) = before + Len(one)
      /\ \A k \in 1 .. before : both[k] = front[k]
      /\ \A k \in 1 .. Len(one) : both[before + k] = one[k]
  BY <1>0, <1>4, <1>7, ConcatAt
<1>9. /\ Len(WordsOf(packets)) = Len(both) + Len(rest) /\ Len(rest) \in Nat
      /\ \A k \in 1 .. Len(both) : WordsOf(packets)[k] = both[k]
  <2>1. PICK all : all = WordsOf(packets)
    OBVIOUS
  <2>2. all = both \o rest
    BY <1>5, <1>7, <2>1
  <2>3. /\ Len(all) = Len(both) + Len(rest) /\ Len(rest) \in Nat
        /\ \A k \in 1 .. Len(both) : all[k] = both[k]
    <3>1. both \in Seq(StreamWord)
      BY <1>8
    <3>2. QED
      BY <2>2, <3>1, ConcatAt
  <2>4. QED
    BY <2>1, <2>3
<1>10. /\ \A k \in 1 .. before : k \in 1 .. Len(both)
       /\ \A k \in 1 .. Len(one) : before + k \in 1 .. Len(both)
  BY <1>6, <1>8
<1>11. WordsBefore(packets, i) = before + Len(one)
       /\ WordsBefore(packets, i - 1) = before
  BY <1>0, <1>3, <1>7, <1>8 DEF WordsBefore
<1>12. before + Len(one) <= Len(WordsOf(packets))
  BY <1>6, <1>8, <1>9
<1>13. \A k \in 1 .. before : WordsOf(packets)[k] = front[k]
  BY <1>8, <1>9, <1>10
<1>14. \A k \in 1 .. Len(one) : WordsOf(packets)[before + k] = one[k]
  BY <1>8, <1>9, <1>10
<1>15. QED
  BY <1>0, <1>2, <1>4, <1>6, <1>8, <1>11, <1>12, <1>13, <1>14

(* A file holds each byte of each word.                                    *)
LEMMA BytesAt ==
  ASSUME NEW s \in Seq(StreamWord)
  PROVE  /\ Bytes(s) \in Seq(Byte) /\ Len(s) \in Nat
         /\ Len(Bytes(s)) = 4 * Len(s)
         /\ \A q \in 1 .. Len(s), k \in 1 .. 4 :
              Bytes(s)[4 * (q - 1) + k] = <<s[q], k>>
<1> DEFINE Placed(t) == \A q \in 1 .. Len(t), k \in 1 .. 4 :
                          Bytes(t)[4 * (q - 1) + k] = <<t[q], k>>
           T == {t \in Seq(StreamWord) : Placed(t)}
<1>1. <<>> \in T
  BY EmptySeq
<1>2. ASSUME NEW t \in Seq(StreamWord), NEW e \in StreamWord, t \in T
      PROVE  Append(t, e) \in T
  <2>1. PICK n, u, bytes, more, both :
          /\ n = Len(t) /\ u = Append(t, e)
          /\ bytes = Bytes(t) /\ more = BytesOf(e) /\ both = Bytes(u)
    OBVIOUS
  <2>2. /\ n \in Nat /\ u \in Seq(StreamWord) /\ Len(u) = n + 1
        /\ \A q \in 1 .. n : u[q] = t[q]
        /\ u[n + 1] = e
    BY <2>1, AppendProperties, LenProperties
  <2>3. bytes \in Seq(Byte) /\ Len(bytes) = 4 * n
    BY <2>1, BytesLength DEF WordBytes
  <2>4. /\ more \in Seq(Byte) /\ Len(more) = 4
        /\ \A k \in 1 .. 4 : more[k] = <<e, k>>
    BY <2>1, BytesOfWord DEF BytesOf, WordBytes
  <2>5. both = bytes \o more
    BY <2>1, BytesAppend
  <2>6. /\ \A x \in 1 .. Len(bytes) : both[x] = bytes[x]
        /\ \A x \in 1 .. Len(more) : both[Len(bytes) + x] = more[x]
    <3>1. bytes \in Seq(Byte)
      BY <2>3
    <3>2. more \in Seq(Byte)
      BY <2>4
    <3>3. QED
      BY <2>5, <3>1, <3>2, ConcatAt
  <2>7. ASSUME NEW q \in 1 .. n + 1, NEW k \in 1 .. 4
        PROVE  both[4 * (q - 1) + k] = <<u[q], k>>
    <3>1. CASE q \in 1 .. n
      <4>1. 4 * (q - 1) + k \in 1 .. Len(bytes)
        BY <2>2, <2>3, <3>1
      <4>2. bytes[4 * (q - 1) + k] = <<t[q], k>>
        BY <1>2, <2>1, <3>1
      <4>3. QED
        BY <2>2, <2>6, <3>1, <4>1, <4>2
    <3>2. CASE q = n + 1
      <4>1. 4 * (q - 1) + k = Len(bytes) + k
        BY <2>2, <2>3, <3>2
      <4>2. both[Len(bytes) + k] = <<e, k>>
        BY <2>4, <2>6
      <4>3. QED
        BY <2>2, <3>2, <4>1, <4>2
    <3>3. QED
      BY <2>2, <3>1, <3>2
  <2>8. Placed(u)
    BY <2>1, <2>2, <2>7
  <2>9. QED
    BY <2>1, <2>2, <2>8
<1>3. Seq(StreamWord) \subseteq T
  <2> HIDE DEF T
  <2>1. QED
    BY <1>1, <1>2, SeqSetInduction
<1>4. s \in T
  BY <1>3
<1>5. QED
  BY <1>4, BytesLength, LenProperties DEF WordBytes

Holds(file, number, s) ==
  LET m == Len(BitHeader)
      start == Writer!EndOfHeader
  IN /\ m \in Nat /\ start = m + 4 /\ Len(s) \in Nat
     /\ file \in Seq(Byte) /\ Len(file) = start + 4 * Len(s)
     /\ \A x \in 1 .. m : file[x] = BitHeader[x]
     /\ \A k \in 1 .. 4 : file[m + k] = <<Number(number), k>>
     /\ \A q \in 1 .. Len(s), k \in 1 .. 4 :
          file[start + 4 * (q - 1) + k] = <<s[q], k>>

LEMMA FileHolds ==
  ASSUME NEW n \in Nat, NEW s \in Seq(StreamWord)
  PROVE  Holds(File(n, Bytes(s)), n, s)
<1>0. PICK file, m, start : /\ file = File(n, Bytes(s)) /\ m = Len(BitHeader)
                            /\ start = Writer!EndOfHeader
  OBVIOUS
<1>1. PICK bytes, number, front :
        /\ bytes = Bytes(s) /\ number = BytesOf(Number(n))
        /\ front = BitHeader \o number
  OBVIOUS
<1>2. /\ bytes \in Seq(Byte) /\ Len(s) \in Nat /\ Len(bytes) = 4 * Len(s)
      /\ \A q \in 1 .. Len(s), k \in 1 .. 4 : bytes[4 * (q - 1) + k] = <<s[q], k>>
  BY <1>1, BytesAt
<1>3. /\ number \in Seq(Byte) /\ Len(number) = 4
      /\ \A k \in 1 .. 4 : number[k] = <<Number(n), k>>
  <2>1. Number(n) \in StreamWord
    BY DEF StreamWord
  <2>2. number \in Seq(Byte) /\ Len(number) = 4
    BY <1>1, <2>1, BytesOfWord DEF WordBytes
  <2>3. QED
    BY <1>1, <2>2 DEF BytesOf, WordBytes
<1>4. BitHeader \in Seq(Byte) /\ m \in Nat /\ start = m + 4
  BY <1>0, <1>2, FileParts
<1>5. file = front \o bytes
  BY <1>0, <1>1 DEF File
<1>6. /\ front \in Seq(Byte) /\ Len(front) = start
      /\ \A x \in 1 .. m : front[x] = BitHeader[x]
      /\ \A k \in 1 .. 4 : front[m + k] = <<Number(n), k>>
  <2>1. number \in Seq(Byte)
    BY <1>3
  <2>2. BitHeader \in Seq(Byte)
    BY <1>4
  <2>3. /\ front \in Seq(Byte) /\ Len(front) = m + Len(number)
        /\ \A x \in 1 .. m : front[x] = BitHeader[x]
        /\ \A k \in 1 .. Len(number) : front[m + k] = number[k]
    BY <1>0, <1>1, <2>1, <2>2, ConcatAt
  <2>4. QED
    BY <1>3, <1>4, <2>3
<1>7. /\ file \in Seq(Byte) /\ Len(file) = start + Len(bytes)
      /\ \A x \in 1 .. start : file[x] = front[x]
      /\ \A x \in 1 .. Len(bytes) : file[start + x] = bytes[x]
  <2>1. front \in Seq(Byte)
    BY <1>6
  <2>2. bytes \in Seq(Byte)
    BY <1>2
  <2>3. /\ file \in Seq(Byte) /\ Len(file) = Len(front) + Len(bytes)
        /\ \A x \in 1 .. Len(front) : file[x] = front[x]
        /\ \A x \in 1 .. Len(bytes) : file[Len(front) + x] = bytes[x]
    BY <1>5, <2>1, <2>2, ConcatAt
  <2>4. QED
    BY <1>6, <2>3
<1>8. ASSUME NEW x \in 1 .. m PROVE file[x] = BitHeader[x]
  BY <1>4, <1>6, <1>7
<1>9. ASSUME NEW k \in 1 .. 4 PROVE file[m + k] = <<Number(n), k>>
  <2>1. m + k \in 1 .. start
    BY <1>4
  <2>2. QED
    BY <1>6, <1>7, <2>1
<1>10. ASSUME NEW q \in 1 .. Len(s), NEW k \in 1 .. 4
       PROVE  file[start + 4 * (q - 1) + k] = <<s[q], k>>
  <2>1. 4 * (q - 1) + k \in 1 .. Len(bytes)
        /\ start + (4 * (q - 1) + k) = start + 4 * (q - 1) + k
    BY <1>2, <1>4
  <2>2. QED
    BY <1>2, <1>7, <2>1
<1>11. QED
  BY <1>0, <1>2, <1>4, <1>7, <1>8, <1>9, <1>10 DEF Holds

(* What is sent is the packets before the first that is not sound.         *)
LEMMA SentIsSound ==
  ASSUME NEW packets \in Seq(AnyPacket), NEW sent, sent = SoundPrefix(packets)
  PROVE  /\ Len(packets) \in Nat /\ Len(sent) \in 0 .. Len(packets)
         /\ sent \in Seq(AnyPacket)
         /\ DOMAIN sent = 1 .. Len(sent)
         /\ \A i \in 1 .. Len(sent) : sent[i] = packets[i] /\ Sound(packets, i)
<1>1. PICK flags : flags = [i \in DOMAIN packets |-> Sound(packets, i)]
  OBVIOUS
<1>2. PICK unsound : unsound = {i \in 1 .. Len(flags) : ~ flags[i]}
  OBVIOUS
<1>3. Len(packets) \in Nat /\ DOMAIN packets = 1 .. Len(packets)
  BY LenProperties
<1>4. Len(flags) = Len(packets)
  <2>1. flags \in [1 .. Len(packets) -> {Sound(packets, i) : i \in DOMAIN packets}]
    BY <1>1, <1>3
  <2>2. flags \in Seq({Sound(packets, i) : i \in DOMAIN packets})
    BY <1>3, <2>1, SeqDef
  <2>3. DOMAIN flags = 1 .. Len(flags) /\ Len(flags) \in Nat
    BY <2>2, LenProperties
  <2>4. DOMAIN flags = 1 .. Len(packets)
    BY <2>1
  <2>5. \A m, n \in Nat : 1 .. m = 1 .. n => m = n
    <3> SUFFICES ASSUME NEW m \in Nat, NEW n \in Nat, 1 .. m = 1 .. n
                 PROVE  m = n
      OBVIOUS
    <3>1. m > 0 => m \in 1 .. n
      OBVIOUS
    <3>2. n > 0 => n \in 1 .. m
      OBVIOUS
    <3>3. QED
      BY <3>1, <3>2
  <2>6. QED
    BY <1>3, <2>3, <2>4, <2>5
<1>5. unsound = {i \in 1 .. Len(packets) : ~ Sound(packets, i)}
  BY <1>1, <1>2, <1>3, <1>4, Zenon
<1>6. sent = IF (IF unsound # {} THEN Min(unsound) ELSE 0) = 0 THEN packets
             ELSE SubSeq(packets, 1,
                         (IF unsound # {} THEN Min(unsound) ELSE 0) - 1)
  BY <1>1, <1>2, Zenon DEF SoundPrefix, SelectInSeq
<1>7. CASE unsound = {}
  <2>1. sent = packets
    BY <1>6, <1>7
  <2>2. \A i \in 1 .. Len(packets) : Sound(packets, i)
    BY <1>5, <1>7
  <2>3. QED
    BY <1>3, <2>1, <2>2
<1>8. CASE unsound # {}
  <2>1. PICK first \in unsound : \A i \in unsound : first <= i
    <3>1. unsound \subseteq Nat
      BY <1>3, <1>5
    <3>2. PICK x \in unsound : \A y \in unsound : ~ (<<y, x>> \in NatLess)
      BY <1>8, <3>1, NatLessWellFounded, WFMin
    <3>3. \A y, z \in Nat : ~ (<<y, z>> \in NatLess) => z <= y
      BY DEF NatLess
    <3>5. \A y \in unsound : x <= y
      BY <3>1, <3>2, <3>3
    <3>6. QED
      BY <3>5
  <2>2. PICK least : least = Min(unsound)
    OBVIOUS
  <2>3. least \in unsound /\ \A i \in unsound : least <= i
    BY <2>1, <2>2 DEF Min
  <2>4. least \in 1 .. Len(packets)
    BY <1>5, <2>3
  <2>5. sent = SubSeq(packets, 1, least - 1)
    BY <1>3, <1>6, <1>8, <2>2, <2>4
  <2>6. /\ 0 \in 0 .. Len(packets) /\ least - 1 \in 0 .. Len(packets)
        /\ 0 <= least - 1 /\ 0 + 1 = 1 /\ least - 1 - 0 = least - 1
        /\ \A i \in 1 .. least - 1 : 0 + i = i
    BY <1>3, <2>4
  <2>7. PICK zero, last : zero = 0 /\ last = least - 1
    OBVIOUS
  <2>8. /\ SubSeq(packets, zero + 1, last) \in Seq(AnyPacket)
        /\ Len(SubSeq(packets, zero + 1, last)) = last - zero
        /\ \A i \in 1 .. last - zero :
             SubSeq(packets, zero + 1, last)[i] = packets[zero + i]
    BY <2>6, <2>7, SubSeqAt
  <2>9. /\ sent \in Seq(AnyPacket) /\ Len(sent) = least - 1
        /\ \A i \in 1 .. least - 1 : sent[i] = packets[i]
    BY <2>5, <2>6, <2>7, <2>8
  <2>10. \A i \in 1 .. least - 1 : Sound(packets, i)
    <3>1. \A i \in 1 .. least - 1 : i \in 1 .. Len(packets) /\ ~ least <= i
      BY <1>3, <2>4
    <3>2. QED
      BY <1>5, <2>3, <3>1
  <2>11. DOMAIN sent = 1 .. Len(sent)
    BY <2>9, LenProperties
  <2>12. QED
    BY <1>3, <2>4, <2>9, <2>10, <2>11
<1>9. QED
  BY <1>7, <1>8

-----------------------------------------------------------------------------
(* How many packets are stored in a file of so many bytes.                 *)

StoredIn(length) == Cardinality({k \in DOMAIN Sent : EndOf(k) <= length})

LEMMA EndsInOrder ==
  ASSUME IInv
  PROVE  /\ Len(Sent) \in Nat /\ DOMAIN Sent = 1 .. Len(Sent)
         /\ Len(Sent) <= Len(package) /\ Len(package) \in Nat
         /\ Writer!EndOfHeader \in Nat /\ Len(Header) \in Nat \ {0}
         /\ \A k \in 1 .. Len(package) :
              /\ WordsBefore(package, k) \in Nat \ {0}
              /\ WordsBefore(package, k) <= Len(WordsOf(package))
              /\ EndOf(k) = Writer!EndOfHeader
                              + 4 * (Len(Header) + WordsBefore(package, k))
         /\ \A k \in 1 .. Len(package) - 1 :
              WordsBefore(package, k + 1) > WordsBefore(package, k)
<1>1. package \in Seq(AnyPacket) /\ Header \in Seq(StreamWord) /\ Header # <<>>
  BY PackageWords
<1>2. /\ Len(package) \in Nat /\ Len(Sent) \in 0 .. Len(package)
      /\ DOMAIN Sent = 1 .. Len(Sent)
  BY <1>1, SentIsSound DEF Sent
<1>3. Writer!EndOfHeader \in Nat /\ Len(Header) \in Nat \ {0}
  <2>1. <<>> \in Seq(Byte) /\ 0 \in Nat
    BY EmptySeq
  <2>2. Writer!EndOfHeader = Len(BitHeader) + 4 /\ Len(BitHeader) \in Nat
    BY <2>1, FileParts
  <2>3. Writer!EndOfHeader \in Nat
    BY <2>2
  <2>4. QED
    BY <1>1, <2>3, EmptySeq, LenProperties
<1>4. ASSUME NEW k \in 1 .. Len(package)
      PROVE  /\ WordsBefore(package, k) \in Nat \ {0}
             /\ WordsBefore(package, k - 1) \in Nat
             /\ WordsBefore(package, k) > WordsBefore(package, k - 1)
             /\ WordsBefore(package, k) <= Len(WordsOf(package))
             /\ EndOf(k) = Writer!EndOfHeader
                             + 4 * (Len(Header) + WordsBefore(package, k))
  <2>1. PICK one, before : /\ one = WordsOfOne(package[k])
                           /\ before = WordsBefore(package, k - 1)
    OBVIOUS
  <2>2. /\ Len(one) \in Nat \ {0} /\ before \in Nat
        /\ WordsBefore(package, k) = before + Len(one)
        /\ before + Len(one) <= Len(WordsOf(package))
    BY <1>1, <2>1, WordsOfEach
  <2>3. WordsOf(SubSeq(package, 1, k)) \in Seq(StreamWord)
    <3>1. k \in 0 .. Len(package) /\ 0 \in 0 .. Len(package) /\ 0 <= k /\ 0 + 1 = 1
      BY <1>2
    <3>2. SubSeq(package, 0 + 1, k) \in Seq(AnyPacket)
      BY <1>1, <3>1, SubSeqAt
    <3>3. QED
      BY <3>1, <3>2, WordsOfType
  <2>4. Len(Header \o WordsOf(SubSeq(package, 1, k)))
          = Len(Header) + WordsBefore(package, k)
    BY <1>1, <2>3, ConcatProperties DEF WordsBefore
  <2>5. EndOf(k) = Writer!EndOfHeader + 4 * (Len(Header) + WordsBefore(package, k))
    BY <2>4 DEF EndOf, WordBytes
  <2>6. before + Len(one) > before /\ before + Len(one) \in Nat \ {0}
    BY <2>2
  <2>7. QED
    BY <2>1, <2>2, <2>5, <2>6
<1>5. ASSUME NEW k \in 1 .. Len(package) - 1
      PROVE  WordsBefore(package, k + 1) > WordsBefore(package, k)
  <2>1. k + 1 \in 1 .. Len(package) /\ (k + 1) - 1 = k
    BY <1>2
  <2>2. QED
    BY <1>4, <2>1
<1>6. QED
  BY <1>2, <1>3, <1>4, <1>5

LEMMA StoredUpTo ==
  ASSUME IInv, NEW length \in Nat
  PROVE  /\ StoredIn(length) \in 0 .. Len(Sent)
         /\ \A k \in 1 .. Len(Sent) : EndOf(k) <= length <=> k <= StoredIn(length)
<1>1. PICK n, ends :
        n = Len(Sent) /\ ends = [k \in 1 .. Len(package) |-> EndOf(k)]
  OBVIOUS
<1>2. /\ n \in Nat /\ DOMAIN Sent = 1 .. n
      /\ \A k \in 1 .. n : ends[k] = EndOf(k) /\ ends[k] \in Nat
      /\ \A k \in 1 .. n : k + 1 <= n => ends[k] < ends[k + 1]
  <2>1. /\ n \in Nat /\ DOMAIN Sent = 1 .. n
        /\ n <= Len(package) /\ Len(package) \in Nat
    BY <1>1, EndsInOrder
  <2>2. ASSUME NEW k \in 1 .. n
        PROVE  /\ k \in 1 .. Len(package)
               /\ ends[k] = EndOf(k) /\ ends[k] \in Nat
               /\ WordsBefore(package, k) \in Nat
               /\ ends[k] = Writer!EndOfHeader
                              + 4 * (Len(Header) + WordsBefore(package, k))
    <3>1. k \in 1 .. Len(package)
      BY <2>1
    <3>2. ends[k] = EndOf(k)
      BY <1>1, <3>1
    <3>3. /\ WordsBefore(package, k) \in Nat
          /\ Writer!EndOfHeader \in Nat /\ Len(Header) \in Nat
          /\ EndOf(k) = Writer!EndOfHeader
                          + 4 * (Len(Header) + WordsBefore(package, k))
      BY <3>1, EndsInOrder
    <3>4. QED
      BY <3>1, <3>2, <3>3
  <2>3. ASSUME NEW k \in 1 .. n, k + 1 <= n PROVE ends[k] < ends[k + 1]
    <3>1. k + 1 \in 1 .. n /\ k \in 1 .. Len(package) - 1
      BY <2>1, <2>3
    <3>2. WordsBefore(package, k + 1) > WordsBefore(package, k)
      BY <3>1, EndsInOrder
    <3>3. Writer!EndOfHeader \in Nat /\ Len(Header) \in Nat
      BY EndsInOrder
    <3>4. PICK a, b : a = WordsBefore(package, k) /\ b = WordsBefore(package, k + 1)
      OBVIOUS
    <3>5. /\ ends[k] = Writer!EndOfHeader + 4 * (Len(Header) + a)
          /\ ends[k + 1] = Writer!EndOfHeader + 4 * (Len(Header) + b)
          /\ a \in Nat /\ b \in Nat /\ b > a
      BY <2>2, <3>1, <3>2, <3>4
    <3>6. QED
      BY <3>3, <3>5
  <2>4. QED
    BY <2>1, <2>2, <2>3
<1> DEFINE UpTo(i, m) == \A k \in 1 .. i : ends[k] <= length <=> k <= m
           T == {i \in Nat : i <= n => \E m \in 0 .. i : UpTo(i, m)}
<1>3. 0 \in T
  OBVIOUS
<1>4. ASSUME NEW i \in Nat, i \in T PROVE i + 1 \in T
  <2> SUFFICES ASSUME i + 1 <= n PROVE \E m \in 0 .. i + 1 : UpTo(i + 1, m)
    OBVIOUS
  <2>1. PICK m \in 0 .. i : UpTo(i, m)
    BY <1>2, <1>4
  <2>2. ends[i + 1] \in Nat
    BY <1>2
  <2>3. CASE m = i /\ ends[i + 1] <= length
    <3>1. UpTo(i + 1, i + 1)
      BY <2>1, <2>2, <2>3
    <3>2. QED
      BY <3>1
  <2>4. CASE m = i /\ ~ ends[i + 1] <= length
    <3>1. UpTo(i + 1, i)
      BY <2>1, <2>2, <2>4
    <3>2. QED
      BY <3>1
  <2>5. CASE m < i
    <3>1. i \in 1 .. n /\ i \in 1 .. i /\ ~ i <= m
      BY <1>2, <2>5
    <3>2. ~ ends[i] <= length /\ ends[i] < ends[i + 1] /\ ends[i] \in Nat
      BY <1>2, <2>1, <3>1
    <3>3. ~ ends[i + 1] <= length
      BY <2>2, <3>2
    <3>4. UpTo(i + 1, m)
      BY <2>1, <2>5, <3>3
    <3>5. m \in 0 .. i + 1
      OBVIOUS
    <3>6. QED
      <4> HIDE DEF UpTo
      <4>1. QED
        BY <3>4, <3>5, Zenon
  <2>6. m = i \/ m < i
    OBVIOUS
  <2>7. QED
    <3> HIDE DEF UpTo
    <3>1. QED
      BY <2>3, <2>4, <2>5, <2>6, Zenon
<1>5. PICK m \in 0 .. n : UpTo(n, m)
  <2>1. Nat \subseteq T
    <3> HIDE DEF T
    <3>1. QED
      BY <1>3, <1>4, NatSetInduction
  <2>2. n \in T
    BY <1>2, <2>1
  <2>3. QED
    BY <1>2, <2>2
<1>6. {k \in DOMAIN Sent : EndOf(k) <= length} = 1 .. m
  <2>1. {k \in 1 .. n : EndOf(k) <= length} = {k \in 1 .. n : k <= m}
    BY <1>2, <1>5
  <2>2. {k \in 1 .. n : k <= m} = 1 .. m
    BY <1>2
  <2>3. QED
    BY <1>2, <2>1, <2>2
<1>7. StoredIn(length) = m
  <2>1. Cardinality(1 .. m) = m
    BY <1>2, FS_Interval
  <2>2. QED
    BY <1>6, <2>1 DEF StoredIn
<1>8. QED
  BY <1>1, <1>2, <1>5, <1>7

(* A whole word more ends at most one packet, part of a word ends none.    *)
LEMMA StoredWithWord ==
  ASSUME IInv, NEW words_put \in Nat, NEW length,
         length = Writer!EndOfHeader + 4 * words_put
  PROVE  /\ length \in Nat
         /\ \A some \in 0 .. 3 : StoredIn(length + some) = StoredIn(length)
         /\ StoredIn(length + 4) \in {StoredIn(length), StoredIn(length) + 1}
<1>1. PICK n, start, header, m :
        /\ n = Len(Sent) /\ start = Writer!EndOfHeader /\ header = Len(Header)
        /\ m = StoredIn(length)
  OBVIOUS
<1>2. n \in Nat /\ start \in Nat /\ header \in Nat /\ length \in Nat
  BY <1>1, EndsInOrder
<1>3. ASSUME NEW k \in 1 .. n
      PROVE  \E w \in Nat : EndOf(k) = start + 4 * (header + w)
                            /\ (k + 1 <= n =>
                                  \E v \in Nat : /\ v > w
                                    /\ EndOf(k + 1) = start + 4 * (header + v))
  <2>1. k \in 1 .. Len(package) /\ (k + 1 <= n => k + 1 \in 1 .. Len(package)
                                                 /\ k \in 1 .. Len(package) - 1)
    BY <1>1, EndsInOrder
  <2>2. PICK w, v : w = WordsBefore(package, k) /\ v = WordsBefore(package, k + 1)
    OBVIOUS
  <2>3. w \in Nat /\ EndOf(k) = start + 4 * (header + w)
    BY <1>1, <2>1, <2>2, EndsInOrder
  <2>4. ASSUME k + 1 <= n
        PROVE  v \in Nat /\ v > w /\ EndOf(k + 1) = start + 4 * (header + v)
    BY <1>1, <2>1, <2>2, <2>4, EndsInOrder
  <2>5. QED
    BY <2>3, <2>4
<1>4. /\ m \in 0 .. n
      /\ \A k \in 1 .. n : EndOf(k) <= length <=> k <= m
  BY <1>1, <1>2, StoredUpTo
<1>5. ASSUME NEW more \in 0 .. 4
      PROVE  /\ StoredIn(length + more) \in 0 .. n
             /\ \A k \in 1 .. n :
                  EndOf(k) <= length + more <=> k <= StoredIn(length + more)
  <2>1. length + more \in Nat
    BY <1>2
  <2>2. QED
    BY <1>1, <2>1, StoredUpTo
<1>6. ASSUME NEW some \in 0 .. 3
      PROVE  StoredIn(length + some) = StoredIn(length)
  <2>1. PICK m2 : m2 = StoredIn(length + some)
    OBVIOUS
  <2>2. /\ m2 \in 0 .. n
        /\ \A k \in 1 .. n : EndOf(k) <= length + some <=> k <= m2
    BY <1>5, <2>1
  <2>3. \A k \in 1 .. n : EndOf(k) <= length + some <=> EndOf(k) <= length
    <3> TAKE k \in 1 .. n
    <3>1. PICK w \in Nat : EndOf(k) = start + 4 * (header + w)
      BY <1>3
    <3>2. \A x, y \in Nat : start + 4 * x <= start + 4 * y + some => x <= y
      BY <1>2
    <3>3. header + w \in Nat
      BY <1>2
    <3>4. QED
      BY <1>1, <1>2, <3>1, <3>2, <3>3
  <2>4. \A k \in 1 .. n : k <= m2 <=> k <= m
    BY <1>4, <2>2, <2>3
  <2>5. m2 > 0 => m2 \in 1 .. n
    BY <1>2, <2>2
  <2>6. m > 0 => m \in 1 .. n
    BY <1>2, <1>4
  <2>7. m2 = m
    <3>1. m2 \in Nat /\ m \in Nat
      BY <1>2, <1>4, <2>2
    <3>2. ASSUME m2 < m PROVE FALSE
      <4>1. m \in 1 .. n
        BY <2>6, <3>1, <3>2
      <4>2. m <= m2
        BY <2>4, <3>1, <4>1
      <4>3. QED
        BY <3>1, <3>2, <4>2
    <3>3. ASSUME m < m2 PROVE FALSE
      <4>1. m2 \in 1 .. n
        BY <2>5, <3>1, <3>3
      <4>2. m2 <= m
        BY <2>4, <3>1, <4>1
      <4>3. QED
        BY <3>1, <3>3, <4>2
    <3>4. QED
      BY <3>1, <3>2, <3>3
  <2>8. QED
    BY <1>1, <2>1, <2>7
<1>7. StoredIn(length + 4) \in {m, m + 1}
  <2>1. PICK m2 : m2 = StoredIn(length + 4)
    OBVIOUS
  <2>2. /\ m2 \in 0 .. n
        /\ \A k \in 1 .. n : EndOf(k) <= length + 4 <=> k <= m2
    BY <1>5, <2>1
  <2>3. m <= m2
    <3>1. CASE m = 0
      BY <2>2, <3>1
    <3>2. CASE m # 0
      <4>1. m \in 1 .. n
        BY <1>2, <1>4, <3>2
      <4>2. EndOf(m) <= length
        BY <1>4, <4>1
      <4>3. PICK w \in Nat : EndOf(m) = start + 4 * (header + w)
        BY <1>3, <4>1
      <4>4. EndOf(m) <= length + 4
        BY <1>2, <4>2, <4>3
      <4>5. QED
        BY <2>2, <4>1, <4>4
    <3>3. QED
      BY <3>1, <3>2
  <2>4. ASSUME m2 > m + 1 PROVE FALSE
    <3>1. m + 1 \in 1 .. n /\ (m + 1) + 1 \in 1 .. n /\ (m + 1) + 1 <= n
      BY <1>2, <1>4, <2>2, <2>4
    <3>2. ~ EndOf(m + 1) <= length
      BY <1>4, <3>1
    <3>3. EndOf((m + 1) + 1) <= length + 4
      BY <1>4, <2>2, <2>4, <3>1
    <3>4. PICK w \in Nat, v \in Nat :
            /\ EndOf(m + 1) = start + 4 * (header + w) /\ v > w
            /\ EndOf((m + 1) + 1) = start + 4 * (header + v)
      BY <1>3, <3>1
    <3>5. start + 4 * (header + v) >= start + 4 * (header + w) + 4
      BY <1>2, <3>4
    <3>6. QED
      BY <1>2, <3>2, <3>3, <3>4, <3>5
  <2>5. m2 = m \/ m2 = m + 1
    BY <1>2, <1>4, <2>2, <2>3, <2>4
  <2>6. QED
    BY <2>1, <2>5
<1>8. QED
  BY <1>1, <1>2, <1>6, <1>7

-----------------------------------------------------------------------------
(* What is in the file, byte by byte.                                      *)

(* The whole file, with a length of zero.                                  *)
Image == File(0, Bytes(All))

Begins(s, t) ==
  /\ s \in Seq(Byte) /\ t \in Seq(Byte) /\ Len(s) <= Len(t)
  /\ \A x \in 1 .. Len(s) : s[x] = t[x]

LEMMA PlaceIn ==
  ASSUME NEW m \in Nat, NEW n \in Nat, NEW x \in 1 .. m + 4 + 4 * n
  PROVE  \/ x \in 1 .. m
         \/ \E k \in 1 .. 4 : x = m + k
         \/ \E q \in 1 .. n, k \in 1 .. 4 : x = m + 4 + 4 * (q - 1) + k
<1>1. CASE x <= m
  BY <1>1
<1>2. CASE x > m /\ x <= m + 4
  <2>1. x - m \in 1 .. 4 /\ x = m + (x - m)
    BY <1>2
  <2>2. QED
    BY <2>1
<1>3. CASE x > m + 4
  <2>1. PICK y, d, r : y = x - (m + 4) - 1 /\ d = y \div 4 /\ r = y % 4
    OBVIOUS
  <2>2. y \in Nat /\ y < 4 * n
    BY <1>3, <2>1
  <2>3. d \in Nat /\ r \in 0 .. 3 /\ y = 4 * d + r
    BY <2>1, <2>2
  <2>4. /\ d + 1 \in 1 .. n /\ r + 1 \in 1 .. 4
        /\ x = m + 4 + 4 * ((d + 1) - 1) + (r + 1)
    BY <2>1, <2>2, <2>3
  <2>5. QED
    BY <2>4
<1>4. QED
  BY <1>1, <1>2, <1>3

(* A file with the first words begins as that with all of them.            *)
LEMMA FileBegins ==
  ASSUME NEW all \in Seq(StreamWord), NEW put \in Seq(StreamWord),
         Len(put) <= Len(all), \A q \in 1 .. Len(put) : put[q] = all[q]
  PROVE  /\ Begins(File(0, Bytes(put)), File(0, Bytes(all)))
         /\ Writer!EndOfHeader \in Nat /\ Len(put) \in Nat /\ Len(all) \in Nat
         /\ Len(File(0, Bytes(put))) = Writer!EndOfHeader + 4 * Len(put)
         /\ Len(File(0, Bytes(all))) = Writer!EndOfHeader + 4 * Len(all)
<1>1. PICK s, t, m, start :
        /\ s = File(0, Bytes(put)) /\ t = File(0, Bytes(all))
        /\ m = Len(BitHeader) /\ start = Writer!EndOfHeader
  OBVIOUS
<1>z. PICK zero : zero = 0
  OBVIOUS
<1>2. /\ m \in Nat /\ start = m + 4 /\ Len(put) \in Nat
      /\ s \in Seq(Byte) /\ Len(s) = start + 4 * Len(put)
      /\ \A x \in 1 .. m : s[x] = BitHeader[x]
      /\ \A k \in 1 .. 4 : s[m + k] = <<Number(zero), k>>
      /\ \A q \in 1 .. Len(put), k \in 1 .. 4 :
           s[start + 4 * (q - 1) + k] = <<put[q], k>>
  <2>1. Holds(s, zero, put)
    BY <1>1, <1>z, FileHolds
  <2>2. QED
    BY <1>1, <2>1 DEF Holds
<1>3. /\ Len(all) \in Nat
      /\ t \in Seq(Byte) /\ Len(t) = start + 4 * Len(all)
      /\ \A x \in 1 .. m : t[x] = BitHeader[x]
      /\ \A k \in 1 .. 4 : t[m + k] = <<Number(zero), k>>
      /\ \A q \in 1 .. Len(all), k \in 1 .. 4 :
           t[start + 4 * (q - 1) + k] = <<all[q], k>>
  <2>1. Holds(t, zero, all)
    BY <1>1, <1>z, FileHolds
  <2>2. QED
    BY <1>1, <2>1 DEF Holds
<1>4. ASSUME NEW x \in 1 .. Len(s) PROVE s[x] = t[x]
  <2>1. x \in 1 .. m + 4 + 4 * Len(put)
    BY <1>2
  <2>2. CASE x \in 1 .. m
    BY <1>2, <1>3, <2>2
  <2>3. ASSUME NEW k \in 1 .. 4, x = m + k PROVE s[x] = t[x]
    <3>1. s[m + k] = <<Number(zero), k>> /\ t[m + k] = <<Number(zero), k>>
      BY <1>2, <1>3, Zenon
    <3>2. QED
      BY <2>3, <3>1
  <2>4. ASSUME NEW q \in 1 .. Len(put), NEW k \in 1 .. 4,
               x = m + 4 + 4 * (q - 1) + k
        PROVE  s[x] = t[x]
    <3>1. x = start + 4 * (q - 1) + k /\ q \in 1 .. Len(all)
      BY <1>2, <1>3, <2>4
    <3>2. s[x] = <<put[q], k>> /\ t[x] = <<all[q], k>>
      BY <1>2, <1>3, <3>1
    <3>3. QED
      BY <3>2
  <2>5. QED
    BY <1>2, <2>1, <2>2, <2>3, <2>4, PlaceIn
<1>5. Len(s) <= Len(t) /\ start \in Nat
  BY <1>2, <1>3
<1>6. Begins(s, t)
  BY <1>2, <1>3, <1>4, <1>5 DEF Begins
<1>7. QED
  BY <1>1, <1>2, <1>3, <1>5, <1>6

LEMMA HeaderNext ==
  ASSUME IInv, Whole, ~ broken, Writer!WriteHeaderWord
  PROVE  \E put \in Seq(StreamWord), word \in StreamWord :
           /\ HasPut(put) /\ Writer!Put(BytesOf(word))
           /\ Len(put) < Len(All) /\ word = All[Len(put) + 1]
           /\ \A q \in 1 .. Len(put) : put[q] = All[q]
<1>1. PICK i, put : i = itr_header /\ put = SubSeq(Header, 1, i - 1)
  OBVIOUS
<1>2. Header \in Seq(StreamWord) /\ package \in Seq(AnyPacket)
  BY PackageWords
<1>3. PICK all, rest : all = All /\ rest = WordsOf(package)
  OBVIOUS
<1>4. rest \in Seq(StreamWord)
  BY <1>2, <1>3, WordsOfType
<1>5. /\ all \in Seq(StreamWord) /\ Len(Header) \in Nat /\ Len(rest) \in Nat
      /\ Len(all) = Len(Header) + Len(rest)
      /\ \A q \in 1 .. Len(Header) : all[q] = Header[q]
  <2>1. all = Header \o rest
    BY <1>3 DEF All
  <2>2. Header \in Seq(StreamWord)
    BY <1>2
  <2>3. QED
    BY <1>4, <2>1, <2>2, ConcatAt
<1>6. i \in 1 .. Len(Header) /\ i - 1 \in 0 .. Len(Header) - 1 /\ (i - 1) + 1 = i
  BY <1>1, <1>5 DEF IInv, Writer!WriteHeaderWord, Writer!HeaderEnd
<1>7. /\ put \in Seq(StreamWord) /\ Len(put) = i - 1
      /\ \A q \in 1 .. i - 1 : put[q] = Header[q]
  <2>1. /\ 0 \in 0 .. Len(Header) /\ i - 1 \in 0 .. Len(Header) /\ 0 <= i - 1
        /\ 0 + 1 = 1 /\ (i - 1) - 0 = i - 1 /\ \A q \in 1 .. i - 1 : 0 + q = q
    BY <1>5, <1>6
  <2>2. PICK zero, last : zero = 0 /\ last = i - 1
    OBVIOUS
  <2>3. /\ SubSeq(Header, zero + 1, last) \in Seq(StreamWord)
        /\ Len(SubSeq(Header, zero + 1, last)) = last - zero
        /\ \A q \in 1 .. last - zero :
             SubSeq(Header, zero + 1, last)[q] = Header[zero + q]
    BY <1>2, <2>1, <2>2, SubSeqAt
  <2>4. QED
    BY <1>1, <2>1, <2>2, <2>3
<1>8. Header[i] \in StreamWord
  BY <1>2, <1>6, ElementOfSeq
<1>9. HasPut(put) /\ Writer!Put(BytesOf(Header[i]))
  BY <1>1, SameWords DEF Whole, PutSoFar, Writer!WriteHeaderWord
<1>10. /\ Len(put) < Len(all) /\ Header[i] = all[Len(put) + 1]
       /\ \A q \in 1 .. Len(put) : put[q] = all[q]
  <2>1. Len(put) + 1 = i /\ \A q \in 1 .. i - 1 : q \in 1 .. Len(Header)
    BY <1>5, <1>6, <1>7
  <2>2. QED
    BY <1>5, <1>6, <1>7, <2>1
<1>11. QED
  BY <1>3, <1>7, <1>8, <1>9, <1>10

LEMMA PacketNext ==
  ASSUME IInv, Whole, ~ broken, Writer!WritePacketWord
  PROVE  \E put \in Seq(StreamWord), word \in StreamWord :
           /\ HasPut(put) /\ Writer!Put(BytesOf(word))
           /\ Len(put) < Len(All) /\ word = All[Len(put) + 1]
           /\ \A q \in 1 .. Len(put) : put[q] = All[q]
<1>1. PICK itr \in packet_itr :
        Writer!Put(Writer!BytesOf(Writer!Deref(itr_packets, itr)))
  BY DEF Writer!WritePacketWord
<1>2. PICK i, n, ws : i = itr_packets /\ n = Count(itr) /\ ws = WordsOfOne(package[i])
  OBVIOUS
<1>3. /\ i \in 1 .. Len(package) /\ ws \in Seq(StreamWord)
      /\ n \in 0 .. Len(ws) - 1 /\ Writer!Deref(i, itr) = ws[n + 1]
  BY <1>2, DerefIsNext
<1>4. PICK rest, before, all, front, some, put :
        /\ rest = WordsOf(package) /\ before = WordsOf(SubSeq(package, 1, i - 1))
        /\ all = All /\ front = SubSeq(ws, 1, n)
        /\ some = before \o front /\ put = Header \o some
  OBVIOUS
<1>5. Header \in Seq(StreamWord) /\ package \in Seq(AnyPacket)
  BY PackageWords
<1>6. before \in Seq(StreamWord)
  BY <1>3, <1>4, PacketDone
<1>7. rest \in Seq(StreamWord)
  BY <1>4, <1>5, WordsOfType
<1>8. Header \in Seq(StreamWord)
  BY <1>5
<1>9. /\ all \in Seq(StreamWord) /\ Len(Header) \in Nat /\ Len(rest) \in Nat
      /\ Len(all) = Len(Header) + Len(rest)
      /\ \A q \in 1 .. Len(Header) : all[q] = Header[q]
      /\ \A q \in 1 .. Len(rest) : all[Len(Header) + q] = rest[q]
  <2>1. all = Header \o rest
    BY <1>4 DEF All
  <2>2. QED
    BY <1>7, <1>8, <2>1, ConcatAt
<1>10. /\ Len(before) \in Nat /\ Len(ws) \in Nat \ {0}
       /\ Len(before) + Len(ws) <= Len(rest)
       /\ \A k \in 1 .. Len(before) : rest[k] = before[k]
       /\ \A k \in 1 .. Len(ws) : rest[Len(before) + k] = ws[k]
  BY <1>2, <1>3, <1>4, <1>5, WordsOfEach DEF WordsBefore
<1>11. /\ front \in Seq(StreamWord) /\ Len(front) = n
       /\ \A q \in 1 .. n : front[q] = ws[q]
  <2>1. /\ 0 \in 0 .. Len(ws) /\ n \in 0 .. Len(ws) /\ 0 <= n
        /\ 0 + 1 = 1 /\ n - 0 = n /\ \A q \in 1 .. n : 0 + q = q
    BY <1>3, <1>10
  <2>2. PICK zero : zero = 0
    OBVIOUS
  <2>3. /\ SubSeq(ws, zero + 1, n) \in Seq(StreamWord)
        /\ Len(SubSeq(ws, zero + 1, n)) = n - zero
        /\ \A q \in 1 .. n - zero : SubSeq(ws, zero + 1, n)[q] = ws[zero + q]
    BY <1>3, <2>1, <2>2, SubSeqAt
  <2>4. QED
    BY <1>4, <2>1, <2>2, <2>3
<1>12. /\ some \in Seq(StreamWord) /\ Len(some) = Len(before) + n
       /\ \A q \in 1 .. Len(before) : some[q] = before[q]
       /\ \A q \in 1 .. n : some[Len(before) + q] = front[q]
  <2>1. front \in Seq(StreamWord)
    BY <1>11
  <2>2. some = before \o front
    BY <1>4
  <2>3. /\ some \in Seq(StreamWord) /\ Len(some) = Len(before) + Len(front)
        /\ \A q \in 1 .. Len(before) : some[q] = before[q]
        /\ \A q \in 1 .. Len(front) : some[Len(before) + q] = front[q]
    BY <1>6, <2>1, <2>2, ConcatAt
  <2>4. QED
    BY <1>11, <2>3
<1>13. /\ put \in Seq(StreamWord) /\ Len(put) = Len(Header) + Len(some)
       /\ \A q \in 1 .. Len(Header) : put[q] = Header[q]
       /\ \A q \in 1 .. Len(some) : put[Len(Header) + q] = some[q]
  <2>1. some \in Seq(StreamWord)
    BY <1>12
  <2>2. put = Header \o some
    BY <1>4
  <2>3. QED
    BY <1>8, <2>1, <2>2, ConcatAt
<1>14. ASSUME NEW q \in 1 .. Len(some) PROVE some[q] = rest[q] /\ q \in 1 .. Len(rest)
  <2>1. CASE q <= Len(before)
    <3>1. q \in 1 .. Len(before) /\ q \in 1 .. Len(rest)
      BY <1>3, <1>9, <1>10, <1>12, <2>1
    <3>2. QED
      BY <1>10, <1>12, <3>1
  <2>2. CASE q > Len(before)
    <3>1. PICK k : k = q - Len(before)
      OBVIOUS
    <3>2. /\ k \in 1 .. n /\ k \in 1 .. Len(ws) /\ Len(before) + k = q
          /\ q \in 1 .. Len(rest)
      BY <1>3, <1>7, <1>9, <1>10, <1>12, <2>2, <3>1
    <3>3. some[q] = front[k] /\ front[k] = ws[k]
      BY <1>11, <1>12, <3>2
    <3>4. rest[q] = ws[k]
      BY <1>10, <3>2
    <3>5. QED
      BY <3>2, <3>3, <3>4
  <2>3. QED
    BY <1>10, <2>1, <2>2
<1>15. ASSUME NEW q \in 1 .. Len(put) PROVE put[q] = all[q]
  <2>1. Len(some) \in Nat
    BY <1>3, <1>10, <1>12
  <2>2. CASE q <= Len(Header)
    BY <1>9, <1>13, <2>2
  <2>3. CASE q > Len(Header)
    <3>1. PICK k : k = q - Len(Header)
      OBVIOUS
    <3>2. k \in 1 .. Len(some) /\ Len(Header) + k = q
      BY <1>9, <1>13, <2>1, <2>3, <3>1
    <3>3. QED
      BY <1>9, <1>13, <1>14, <3>2
  <2>4. QED
    BY <1>9, <2>2, <2>3
<1>16. Len(put) < Len(all) /\ ws[n + 1] = all[Len(put) + 1]
  <2>1. /\ n + 1 \in 1 .. Len(ws) /\ Len(before) + (n + 1) \in 1 .. Len(rest)
        /\ Len(put) + 1 = Len(Header) + (Len(before) + (n + 1))
        /\ Len(put) < Len(all)
    BY <1>3, <1>9, <1>10, <1>12, <1>13
  <2>2. QED
    BY <1>9, <1>10, <2>1
<1>17. HasPut(put)
  BY <1>2, <1>4 DEF Whole, PutSoFar, PacketsSoFar, Writer!WritePacketWord
<1>18. ws[n + 1] \in StreamWord /\ Writer!Put(BytesOf(ws[n + 1]))
  <2>1. n + 1 \in 1 .. Len(ws)
    BY <1>3, <1>10
  <2>2. ws[n + 1] \in StreamWord
    BY <1>3, <2>1, ElementOfSeq
  <2>3. QED
    BY <1>1, <1>2, <1>3, <2>2, SameWords
<1>19. QED
  BY <1>4, <1>13, <1>15, <1>16, <1>17, <1>18

LEMMA BeginsOfBegins ==
  ASSUME NEW s, NEW t, NEW u, Begins(s, t), Begins(t, u)
  PROVE  Begins(s, u)
<1>1. /\ Len(s) \in Nat /\ Len(t) \in Nat /\ Len(u) \in Nat
      /\ Len(s) <= Len(t) /\ Len(t) <= Len(u)
      /\ s \in Seq(Byte) /\ u \in Seq(Byte)
  BY LenProperties DEF Begins
<1>2. ASSUME NEW x \in 1 .. Len(s) PROVE s[x] = u[x]
  <2>1. x \in 1 .. Len(t)
    BY <1>1
  <2>2. s[x] = t[x] /\ t[x] = u[x]
    BY <2>1 DEF Begins
  <2>3. QED
    BY <2>2
<1>3. Len(s) <= Len(u)
  BY <1>1
<1>4. QED
  BY <1>1, <1>2, <1>3 DEF Begins

LEMMA JoinBegins ==
  ASSUME NEW a \in Seq(Byte), NEW front \in Seq(Byte), NEW b \in Seq(Byte),
         Len(front) <= Len(b), \A q \in 1 .. Len(front) : front[q] = b[q]
  PROVE  Begins(a \o front, a \o b)
<1>1. PICK part, both : part = a \o front /\ both = a \o b
  OBVIOUS
<1>2. Len(a) \in Nat /\ Len(b) \in Nat /\ Len(front) \in Nat
  BY LenProperties
<1>3. /\ part \in Seq(Byte) /\ Len(part) = Len(a) + Len(front)
      /\ \A q \in 1 .. Len(a) + Len(front) :
           part[q] = IF q <= Len(a) THEN a[q] ELSE front[q - Len(a)]
  BY <1>1, ConcatProperties
<1>4. /\ both \in Seq(Byte) /\ Len(both) = Len(a) + Len(b)
      /\ \A q \in 1 .. Len(a) + Len(b) :
           both[q] = IF q <= Len(a) THEN a[q] ELSE b[q - Len(a)]
  BY <1>1, ConcatProperties
<1>5. ASSUME NEW x \in 1 .. Len(part) PROVE part[x] = both[x]
  <2>1. x \in 1 .. Len(a) + Len(front) /\ x \in 1 .. Len(a) + Len(b)
    BY <1>2, <1>3
  <2>2. CASE x <= Len(a)
    BY <1>3, <1>4, <2>1, <2>2
  <2>3. CASE ~ x <= Len(a)
    <3>1. PICK q : q = x - Len(a)
      OBVIOUS
    <3>2. q \in 1 .. Len(front)
      BY <1>2, <2>1, <2>3, <3>1
    <3>3. part[x] = front[q] /\ both[x] = b[q]
      BY <1>3, <1>4, <2>1, <2>3, <3>1
    <3>4. QED
      BY <3>2, <3>3
  <2>4. QED
    BY <2>2, <2>3
<1>6. Len(part) <= Len(both)
  BY <1>2, <1>3, <1>4
<1>7. QED
  BY <1>1, <1>3, <1>4, <1>5, <1>6 DEF Begins

LEMMA CutBegins ==
  ASSUME NEW a \in Seq(Byte), NEW b \in Seq(Byte), NEW n \in 0 .. Len(b) - 1
  PROVE  /\ Begins(a \o SubSeq(b, 1, n), a \o b)
         /\ Len(a \o SubSeq(b, 1, n)) = Len(a) + n
         /\ Len(a) \in Nat /\ Len(b) \in Nat
<1>1. Len(a) \in Nat /\ Len(b) \in Nat
  BY LenProperties
<1>2. PICK front, zero : zero = 0 /\ front = SubSeq(b, zero + 1, n)
  OBVIOUS
<1>3. /\ front \in Seq(Byte) /\ Len(front) = n
      /\ \A q \in 1 .. n : front[q] = b[q]
  <2>1. /\ zero \in 0 .. Len(b) /\ n \in 0 .. Len(b) /\ zero <= n
        /\ n - zero = n /\ \A q \in 1 .. n : zero + q = q
    BY <1>1, <1>2
  <2>2. /\ SubSeq(b, zero + 1, n) \in Seq(Byte)
        /\ Len(SubSeq(b, zero + 1, n)) = n - zero
        /\ \A q \in 1 .. n - zero : SubSeq(b, zero + 1, n)[q] = b[zero + q]
    BY <2>1, SubSeqAt
  <2>3. QED
    BY <1>2, <2>1, <2>2
<1>4. zero + 1 = 1 /\ front = SubSeq(b, 1, n)
  BY <1>2
<1>5. Begins(a \o front, a \o b)
  <2>1. Len(front) <= Len(b) /\ \A q \in 1 .. Len(front) : front[q] = b[q]
    BY <1>1, <1>3
  <2>2. front \in Seq(Byte)
    BY <1>3
  <2>3. QED
    BY <2>1, <2>2, JoinBegins
<1>6. Len(a \o front) = Len(a) + n
  BY <1>3, ConcatProperties
<1>7. QED
  BY <1>1, <1>4, <1>5, <1>6

(* What has got into a file that is cut is how the whole one begins.       *)
Cut == broken => Begins(written, Image) /\ Len(written) < Len(Image)

(* Each word that is put is the next of all.                               *)
LEMMA WordPut ==
  ASSUME IInv, Whole, ~ broken,
         Writer!WriteHeaderWord \/ Writer!WritePacketWord
  PROVE  \E put \in Nat :
           /\ put < Len(All) /\ Len(All) \in Nat
           /\ Len(written) = Writer!EndOfHeader + 4 * put
           /\ Begins(written', Image)
           /\ \/ ~ broken' /\ Len(written') = Len(written) + 4
              \/ broken' /\ \E some \in 0 .. 3 : Len(written') = Len(written) + some
<1>1. PICK put \in Seq(StreamWord), word \in StreamWord :
        /\ HasPut(put) /\ Writer!Put(BytesOf(word))
        /\ Len(put) < Len(All) /\ word = All[Len(put) + 1]
        /\ \A q \in 1 .. Len(put) : put[q] = All[q]
  BY HeaderNext, PacketNext
<1>2. PICK all, n, after : all = All /\ n = Len(put) /\ after = Append(put, word)
  OBVIOUS
<1>3. all \in Seq(StreamWord) /\ Len(all) \in Nat /\ n \in Nat
  BY <1>2, PackageWords, LenProperties
<1>4. /\ after \in Seq(StreamWord) /\ Len(after) = n + 1
      /\ \A q \in 1 .. n : after[q] = put[q]
      /\ after[n + 1] = word
  BY <1>2, AppendProperties
<1>5. Len(after) <= Len(all) /\ \A q \in 1 .. Len(after) : after[q] = all[q]
  <2>1. n + 1 <= Len(all) /\ \A q \in 1 .. n + 1 : q \in 1 .. n \/ q = n + 1
    BY <1>1, <1>2, <1>3
  <2>2. ASSUME NEW q \in 1 .. n + 1 PROVE after[q] = all[q]
    BY <1>1, <1>2, <1>4, <2>1
  <2>3. QED
    BY <1>4, <2>1, <2>2
<1>6. PICK bytes, s, both : /\ bytes = BytesOf(word) /\ s = written
                            /\ both = File(0, Bytes(after))
  OBVIOUS
<1>7. bytes \in Seq(Byte) /\ Len(bytes) = 4
  BY <1>6, BytesOfWord DEF WordBytes
<1>8. /\ Begins(both, Image) /\ Writer!EndOfHeader \in Nat
      /\ Len(both) = Writer!EndOfHeader + 4 * (n + 1)
  <2>1. after \in Seq(StreamWord)
    BY <1>4
  <2>2. all \in Seq(StreamWord)
    BY <1>3
  <2>3. /\ Begins(File(0, Bytes(after)), File(0, Bytes(all)))
        /\ Writer!EndOfHeader \in Nat
        /\ Len(File(0, Bytes(after))) = Writer!EndOfHeader + 4 * Len(after)
    BY <1>5, <2>1, <2>2, FileBegins
  <2>4. QED
    BY <1>2, <1>4, <1>6, <2>3 DEF Image
<1>9. s \in Seq(Byte) /\ both = s \o bytes
  <2>1. PICK old : old = Bytes(put)
    OBVIOUS
  <2>2. old \in Seq(Byte)
    BY <2>1, BytesLength
  <2>3. s = File(0, old)
    BY <1>1, <1>6, <2>1 DEF HasPut
  <2>4. Bytes(after) = old \o bytes
    BY <1>2, <1>6, <2>1, BytesAppend
  <2>5. File(0, old) \o bytes = File(0, old \o bytes) /\ File(0, old) \in Seq(Byte)
    <3>1. bytes \in Seq(Byte)
      BY <1>7
    <3>2. PICK zero : zero = 0
      OBVIOUS
    <3>3. zero \in Nat
      BY <3>2
    <3>4. /\ File(zero, old) \o bytes = File(zero, old \o bytes)
          /\ File(zero, old) \in Seq(Byte)
      BY <2>2, <3>1, <3>3, FileJoin, FileParts
    <3>5. QED
      BY <3>2, <3>4
  <2>6. QED
    BY <1>6, <2>3, <2>4, <2>5
<1>10. Len(s) = Writer!EndOfHeader + 4 * n
  <2>1. bytes \in Seq(Byte)
    BY <1>7
  <2>2. s \in Seq(Byte)
    BY <1>9
  <2>3. both = s \o bytes
    BY <1>9
  <2>4. Len(both) = Len(s) + Len(bytes) /\ Len(s) \in Nat
    BY <2>1, <2>2, <2>3, ConcatAt
  <2>5. QED
    BY <1>3, <1>7, <1>8, <2>4
<1>11. PICK t : t = written'
  OBVIOUS
<1>12. CASE ~ broken'
  <2>1. t = both
    BY <1>1, <1>6, <1>9, <1>11, <1>12 DEF Writer!Put
  <2>2. Len(t) = Len(s) + 4
    BY <1>3, <1>8, <1>10, <2>1
  <2>3. QED
    BY <1>1, <1>2, <1>3, <1>6, <1>8, <1>10, <1>11, <1>12, <2>1, <2>2
<1>13. CASE broken'
  <2>1. PICK k \in 0 .. Len(bytes) - 1 : t = s \o SubSeq(bytes, 1, k)
    BY <1>1, <1>6, <1>11, <1>13 DEF Writer!Put
  <2>2. Begins(t, both) /\ Len(t) = Len(s) + k /\ k \in 0 .. 3
    <3>1. bytes \in Seq(Byte)
      BY <1>7
    <3>2. s \in Seq(Byte)
      BY <1>9
    <3>3. both = s \o bytes
      BY <1>9
    <3>4. Begins(t, both) /\ Len(t) = Len(s) + k
      BY <2>1, <3>1, <3>2, <3>3, CutBegins
    <3>5. QED
      BY <1>7, <3>4
  <2>3. Begins(t, Image)
    <3>1. PICK image : image = Image
      OBVIOUS
    <3>2. Begins(t, both) /\ Begins(both, image)
      BY <1>8, <2>2, <3>1
    <3>3. QED
      BY <3>1, <3>2, BeginsOfBegins
  <2>4. QED
    BY <1>1, <1>2, <1>3, <1>6, <1>10, <1>11, <1>13, <2>2, <2>3
<1>14. QED
  BY <1>12, <1>13

LEMMA LengthOfImage ==
  ASSUME IInv
  PROVE  /\ Image \in Seq(Byte) /\ Len(All) \in Nat \ {0}
         /\ Writer!EndOfHeader \in Nat \ {0}
         /\ Len(Image) = Writer!EndOfHeader + 4 * Len(All)
         /\ Len(All) = Len(Header) + Len(WordsOf(package))
         /\ Len(Header) \in Nat \ {0} /\ Len(WordsOf(package)) \in Nat
<1>1. PICK all, rest, zero, m :
        /\ all = All /\ rest = WordsOf(package) /\ zero = 0 /\ m = Len(BitHeader)
  OBVIOUS
<1>2. all \in Seq(StreamWord) /\ Header \in Seq(StreamWord) /\ Header # <<>>
  BY <1>1, PackageWords
<1>3. rest \in Seq(StreamWord)
  BY <1>1, PackageWords, WordsOfType
<1>4. Holds(File(zero, Bytes(all)), zero, all)
  BY <1>1, <1>2, FileHolds
<1>5. /\ Image \in Seq(Byte) /\ m \in Nat /\ Writer!EndOfHeader = m + 4
      /\ Len(Image) = Writer!EndOfHeader + 4 * Len(all)
  BY <1>1, <1>4 DEF Holds, Image
<1>6. /\ Len(all) = Len(Header) + Len(rest) /\ Len(rest) \in Nat
      /\ Len(Header) \in Nat \ {0}
  <2>1. Len(Header) \in Nat /\ Len(Header) # 0 /\ Len(rest) \in Nat
    BY <1>2, <1>3, EmptySeq, LenProperties
  <2>2. all = Header \o rest
    BY <1>1 DEF All
  <2>3. Len(all) = Len(Header) + Len(rest)
    BY <1>2, <1>3, <2>2, ConcatProperties
  <2>4. QED
    BY <2>1, <2>3
<1>7. m + 4 \in Nat \ {0} /\ Len(Header) + Len(rest) \in Nat \ {0}
  BY <1>5, <1>6
<1>8. QED
  BY <1>1, <1>5, <1>6, <1>7

LEMMA BitHeaderPut ==
  ASSUME IInv, Whole, Writer!WriteBitHeader
  PROVE  /\ written = <<>> /\ ~ broken /\ broken' \in BOOLEAN
         /\ Begins(written', Image) /\ Len(written') \in 0 .. Writer!EndOfHeader
         /\ broken' => Len(written') < Writer!EndOfHeader
<1>1. PICK start, none : start = File(0, <<>>) /\ none = <<>>
  OBVIOUS
<1>2. /\ written = none /\ ~ broken /\ broken' \in BOOLEAN
      /\ Writer!Put(BitHeader \o BytesOf(Number(0)))
  BY <1>1, PutType, SameWords DEF IInv, Whole, Writer!WriteBitHeader
<1>3. /\ start \in Seq(Byte) /\ Begins(start, Image)
      /\ Len(start) = Writer!EndOfHeader /\ Writer!EndOfHeader \in Nat
  <2>1. PICK all : all = All
    OBVIOUS
  <2>2. all \in Seq(StreamWord)
    BY <2>1, PackageWords
  <2>3. none \in Seq(StreamWord)
    BY <1>1, EmptySeq
  <2>4. Len(none) = 0 /\ Len(all) \in Nat
    BY <1>1, <2>2, LenProperties
  <2>5. /\ Begins(File(0, Bytes(none)), File(0, Bytes(all)))
        /\ Writer!EndOfHeader \in Nat
        /\ Len(File(0, Bytes(none))) = Writer!EndOfHeader + 4 * Len(none)
    <3>1. Len(none) <= Len(all) /\ \A q \in 1 .. Len(none) : none[q] = all[q]
      BY <2>4
    <3>2. QED
      BY <2>2, <2>3, <3>1, FileBegins
  <2>6. Bytes(none) = <<>>
    BY <1>1, NoBytes
  <2>7. QED
    BY <1>1, <2>1, <2>4, <2>5, <2>6 DEF Begins, Image
<1>4. BitHeader \o BytesOf(Number(0)) = start
  <2>1. Number(0) \in StreamWord
    BY DEF StreamWord
  <2>2. BytesOf(Number(0)) \in Seq(Byte) /\ BitHeader \in Seq(Byte)
    <3>1. BytesOf(Number(0)) \in Seq(Byte)
      BY <2>1, BytesOfWord
    <3>2. <<>> \in Seq(Byte) /\ 0 \in Nat
      BY EmptySeq
    <3>3. QED
      BY <3>1, <3>2, FileParts
  <2>3. PICK front : front = BitHeader \o BytesOf(Number(0))
    OBVIOUS
  <2>4. front \in Seq(Byte)
    BY <2>2, <2>3, ConcatProperties
  <2>5. start = front \o <<>>
    BY <1>1, <2>3 DEF File
  <2>6. QED
    BY <2>3, <2>4, <2>5, ConcatEmptySeq
<1>5. PICK t : t = written'
  OBVIOUS
<1>6. none \in Seq(Byte) /\ none \o start = start /\ Len(none) = 0
  BY <1>1, <1>3, EmptySeq, ConcatEmptySeq
<1>7. CASE ~ broken'
  <2>1. t = start
    BY <1>2, <1>4, <1>5, <1>6, <1>7 DEF Writer!Put
  <2>2. QED
    BY <1>1, <1>2, <1>3, <1>5, <1>7, <2>1
<1>8. CASE broken'
  <2>1. PICK k \in 0 .. Len(start) - 1 : t = none \o SubSeq(start, 1, k)
    BY <1>2, <1>4, <1>5, <1>8 DEF Writer!Put
  <2>2. Begins(t, none \o start) /\ Len(t) = Len(none) + k
    BY <1>3, <1>6, <2>1, CutBegins
  <2>3. Begins(t, Image)
    <3>1. PICK image : image = Image
      OBVIOUS
    <3>2. Begins(t, start) /\ Begins(start, image)
      BY <1>3, <1>6, <2>2, <3>1
    <3>3. QED
      BY <3>1, <3>2, BeginsOfBegins
  <2>4. Len(t) \in 0 .. Writer!EndOfHeader /\ Len(t) < Writer!EndOfHeader
    BY <1>3, <1>6, <2>1, <2>2
  <2>5. QED
    BY <1>1, <1>2, <1>5, <2>3, <2>4
<1>9. QED
  BY <1>7, <1>8

LEMMA CutStep == IInv /\ Whole /\ Cut /\ [Next]_vars => Cut'
<1> SUFFICES ASSUME IInv, Whole, Cut, [Next]_vars, broken'
             PROVE  (Begins(written, Image) /\ Len(written) < Len(Image))'
  BY DEF Cut
<1>1. package' = package
  BY DEF Next, Write, Read, inputs, vars, writerVars, Writer!WriterNext,
         Writer!WriteBitHeader, Writer!WriteHeaderWord, Writer!WritePacketWord,
         Writer!EndOfWords, Writer!WriteLength
<1>2. PICK image, t : image = Image /\ t = written'
  OBVIOUS
<1>3. Image' = image
  BY <1>1, <1>2 DEF Image, All
<1>4. ASSUME Begins(t, image), Len(t) < Len(image)
      PROVE  (Begins(written, Image) /\ Len(written) < Len(Image))'
  BY <1>2, <1>3, <1>4
<1>5. CASE written' = written /\ broken
  BY <1>2, <1>3, <1>5 DEF Cut
<1>6. CASE Read
  BY <1>5, <1>6 DEF Read, Reader!ReaderNext, Reader!InitWithBytes, Reader!Stop,
                    Reader!Yield, Reader!PassOver
<1>7. CASE UNCHANGED vars
  BY <1>5, <1>7 DEF vars, writerVars
<1>8. CASE Writer!EndOfWords \/ Writer!WriteLength
  BY <1>5, <1>8 DEF Writer!EndOfWords, Writer!WriteLength
<1>9. /\ Len(All) \in Nat /\ Writer!EndOfHeader \in Nat
      /\ Len(image) = Writer!EndOfHeader + 4 * Len(All)
  BY <1>2, LengthOfImage
<1>10. CASE Writer!WriteBitHeader
  <2>1. Begins(t, image) /\ Len(t) \in 0 .. Writer!EndOfHeader
        /\ Len(t) < Writer!EndOfHeader
    BY <1>2, <1>10, BitHeaderPut
  <2>2. QED
    BY <1>4, <1>9, <2>1
<1>11. CASE broken /\ (Writer!WriteHeaderWord \/ Writer!WritePacketWord)
  <2>1. written' = written
    BY <1>11 DEF Writer!WriteHeaderWord, Writer!WritePacketWord, Writer!Put
  <2>2. QED
    BY <1>5, <1>11, <2>1
<1>12. CASE ~ broken /\ (Writer!WriteHeaderWord \/ Writer!WritePacketWord)
  <2>1. PICK put \in Nat, some \in 0 .. 3 :
          /\ put < Len(All) /\ Begins(t, image)
          /\ Len(written) = Writer!EndOfHeader + 4 * put
          /\ Len(t) = Len(written) + some
    BY <1>2, <1>12, WordPut
  <2>2. Len(t) < Len(image)
    BY <1>9, <2>1
  <2>3. QED
    BY <1>4, <2>1, <2>2
<1>13. QED
  BY <1>6, <1>7, <1>8, <1>10, <1>11, <1>12 DEF Next, Write, Writer!WriterNext

-----------------------------------------------------------------------------
(* The writer stores packets, one at most with a word.                     *)

LEMMA NoneStored ==
  ASSUME IInv, NEW length \in 0 .. Writer!EndOfHeader
  PROVE  StoredIn(length) = 0
<1>1. PICK start, header, n, m :
        /\ start = Writer!EndOfHeader /\ header = Len(Header)
        /\ n = Len(Sent) /\ m = StoredIn(length)
  OBVIOUS
<1>2. start \in Nat /\ header \in Nat \ {0} /\ n \in Nat /\ n <= Len(package)
      /\ Len(package) \in Nat /\ length \in Nat /\ length <= start
  BY <1>1, EndsInOrder
<1>3. m \in 0 .. n /\ \A k \in 1 .. n : EndOf(k) <= length <=> k <= m
  BY <1>1, <1>2, StoredUpTo
<1>4. ASSUME m # 0 PROVE FALSE
  <2>1. 1 \in 1 .. n /\ 1 \in 1 .. Len(package) /\ 1 <= m
    BY <1>2, <1>3, <1>4
  <2>2. EndOf(1) <= length
    BY <1>3, <2>1
  <2>3. PICK w : w = WordsBefore(package, 1)
    OBVIOUS
  <2>4. w \in Nat /\ EndOf(1) = start + 4 * (header + w)
    BY <1>1, <2>1, <2>3, EndsInOrder
  <2>5. QED
    BY <1>2, <2>2, <2>4
<1>5. QED
  BY <1>1, <1>4

LEMMA AllStored ==
  ASSUME IInv
  PROVE  StoredIn(Writer!EndOfHeader + 4 * Len(All)) = Len(Sent)
<1>1. PICK start, header, n, m, length, rest :
        /\ start = Writer!EndOfHeader /\ header = Len(Header)
        /\ n = Len(Sent) /\ length = start + 4 * Len(All)
        /\ m = StoredIn(length) /\ rest = Len(WordsOf(package))
  OBVIOUS
<1>2. /\ start \in Nat /\ header \in Nat /\ n \in Nat /\ n <= Len(package)
      /\ Len(package) \in Nat /\ rest \in Nat
      /\ length = start + 4 * (header + rest) /\ length \in Nat
  <2>1. start \in Nat /\ header \in Nat /\ n \in Nat /\ n <= Len(package)
        /\ Len(package) \in Nat
    BY <1>1, EndsInOrder
  <2>2. Len(All) = header + rest /\ rest \in Nat
    BY <1>1, LengthOfImage
  <2>3. QED
    BY <1>1, <2>1, <2>2
<1>3. m \in 0 .. n /\ \A k \in 1 .. n : EndOf(k) <= length <=> k <= m
  BY <1>1, <1>2, StoredUpTo
<1>4. ASSUME n # 0 PROVE n <= m
  <2>1. n \in 1 .. n /\ n \in 1 .. Len(package)
    BY <1>2, <1>4
  <2>2. PICK w : w = WordsBefore(package, n)
    OBVIOUS
  <2>3. w \in Nat /\ w <= rest /\ EndOf(n) = start + 4 * (header + w)
    BY <1>1, <2>1, <2>2, EndsInOrder
  <2>4. EndOf(n) <= length
    BY <1>2, <2>3
  <2>5. QED
    BY <1>3, <2>1, <2>4
<1>5. m = n
  BY <1>2, <1>3, <1>4
<1>6. QED
  BY <1>1, <1>5

(* What a step of the writer leaves alone, and how it changes the rest.    *)
LEMMA WriterVars ==
  ASSUME Write
  PROVE  /\ package' = package /\ Sent' = Sent
         /\ (SubSeq(received, 1, Smaller(Len(received), Len(Sent))))'
              = SubSeq(received, 1, Smaller(Len(received), Len(Sent)))
         /\ (reading \notin {"bytes", "packets"})'
              = (reading \notin {"bytes", "packets"})
         /\ (Cardinality({k \in DOMAIN Sent : EndOf(k) <= Len(written)}))'
              = StoredIn(Len(written'))
<1>1. package' = package /\ received' = received /\ reading' = reading
  BY DEF Write, readerVars, Writer!WriterNext, Writer!WriteBitHeader,
         Writer!WriteHeaderWord, Writer!WritePacketWord, Writer!EndOfWords,
         Writer!WriteLength
<1>2. Sent' = Sent
  BY <1>1 DEF Sent
<1>3. \A k : EndOf(k)' = EndOf(k)
  BY <1>1 DEF EndOf, Writer!EndOfHeader
<1>4. QED
  BY <1>1, <1>2, <1>3 DEF StoredIn, Smaller

LEMMA WriterStores ==
  ASSUME IInv, Whole, Write
  PROVE  [Delivery!TransferNext]_Delivery!transferVars
<1>1. PICK st, st2, n :
        /\ st = StoredIn(Len(written)) /\ st2 = StoredIn(Len(written'))
        /\ n = Len(Sent)
  OBVIOUS
<1>2. /\ Cardinality({k \in DOMAIN Sent : EndOf(k) <= Len(written)}) = st
      /\ (Cardinality({k \in DOMAIN Sent : EndOf(k) <= Len(written)}))' = st2
      /\ Sent' = Sent /\ Len(Sent) = n
      /\ (SubSeq(received, 1, Smaller(Len(received), Len(Sent))))'
           = SubSeq(received, 1, Smaller(Len(received), Len(Sent)))
      /\ (reading \notin {"bytes", "packets"})' = (reading \notin {"bytes", "packets"})
  BY <1>1, WriterVars DEF StoredIn
<1>3. ASSUME broken' = broken, (writing' = "done") = (writing = "done"), st2 = st
      PROVE  UNCHANGED Delivery!transferVars
  BY <1>2, <1>3 DEF Delivery!transferVars
<1>4. ASSUME writing # "done", writing' # "done", ~ broken, broken' = broken,
             st < n, st2 = st + 1
      PROVE  Delivery!StorePacket
  <2>1. (writing' = "done") = (writing = "done")
    BY <1>4
  <2>2. QED
    BY <1>2, <1>4, <2>1 DEF Delivery!StorePacket
<1>5. ASSUME writing # "done", writing' # "done", ~ broken, broken' = TRUE, st2 = st
      PROVE  Delivery!FailStorage
  <2>1. (writing' = "done") = (writing = "done")
    BY <1>5
  <2>2. QED
    BY <1>2, <1>5, <2>1 DEF Delivery!FailStorage
<1>6. ASSUME writing # "done", writing' = "done", broken' = broken, st2 = st,
             broken \/ st = n
      PROVE  Delivery!CloseStorage
  <2>1. (writing' = "done") = TRUE
    BY <1>6
  <2>2. QED
    BY <1>2, <1>6, <2>1 DEF Delivery!CloseStorage
<1>7. ASSUME \/ broken' = broken /\ (writing' = "done") = (writing = "done") /\ st2 = st
             \/ /\ writing # "done" /\ writing' # "done" /\ ~ broken
                /\ broken' = broken /\ st < n /\ st2 = st + 1
             \/ /\ writing # "done" /\ writing' # "done" /\ ~ broken
                /\ broken' = TRUE /\ st2 = st
             \/ /\ writing # "done" /\ writing' = "done" /\ broken' = broken
                /\ st2 = st /\ (broken \/ st = n)
      PROVE  [Delivery!TransferNext]_(Delivery!transferVars)
  BY <1>3, <1>4, <1>5, <1>6, <1>7 DEF Delivery!TransferNext
<1>8. broken \in BOOLEAN /\ broken' \in BOOLEAN
  BY WriterStep DEF IInv
<1>9. n \in Nat /\ \A length \in Nat : StoredIn(length) \in 0 .. n
  BY <1>1, StoredUpTo, EndsInOrder
<1>10. CASE Writer!WriteBitHeader
  <2>1. /\ written = <<>> /\ ~ broken
        /\ Len(written') \in 0 .. Writer!EndOfHeader
    BY <1>10, BitHeaderPut
  <2>2. Len(written) = 0 /\ 0 \in 0 .. Writer!EndOfHeader
    BY <2>1, LengthOfImage
  <2>3. st = 0
    BY <1>1, <2>2, NoneStored
  <2>4. st2 = 0
    <3>1. PICK length : length = Len(written')
      OBVIOUS
    <3>2. length \in 0 .. Writer!EndOfHeader
      BY <2>1, <3>1
    <3>3. StoredIn(length) = 0
      BY <3>2, NoneStored
    <3>4. QED
      BY <1>1, <3>1, <3>3
  <2>5. writing = "header" /\ writing' = "words"
    BY <1>10 DEF Writer!WriteBitHeader
  <2>6. broken' = broken \/ broken' = TRUE
    BY <1>8, <2>1
  <2>7. (writing' = "done") = (writing = "done")
    BY <2>5
  <2>8. QED
    BY <1>7, <2>1, <2>3, <2>4, <2>5, <2>6, <2>7
<1>11. CASE broken /\ (Writer!WriteHeaderWord \/ Writer!WritePacketWord)
  <2>1. written' = written /\ broken' = broken /\ writing' = writing
    BY <1>11 DEF Writer!WriteHeaderWord, Writer!WritePacketWord, Writer!Put
  <2>2. st2 = st
    BY <1>1, <2>1
  <2>3. QED
    BY <1>7, <2>1, <2>2
<1>12. CASE ~ broken /\ (Writer!WriteHeaderWord \/ Writer!WritePacketWord)
  <2>1. writing = "words" /\ writing' = "words"
    BY <1>12 DEF Writer!WriteHeaderWord, Writer!WritePacketWord
  <2>2. PICK length, length2 :
          /\ length = Len(written) /\ length2 = Len(written')
          /\ \E put \in Nat : length = Writer!EndOfHeader + 4 * put
          /\ \/ ~ broken' /\ length2 = length + 4
             \/ broken' /\ \E some \in 0 .. 3 : length2 = length + some
    BY <1>12, WordPut
  <2>3. /\ length \in Nat
        /\ \A some \in 0 .. 3 : StoredIn(length + some) = StoredIn(length)
        /\ StoredIn(length + 4) \in {StoredIn(length), StoredIn(length) + 1}
    BY <2>2, StoredWithWord
  <2>4. (writing' = "done") = (writing = "done")
    BY <2>1
  <2>5. CASE broken'
    <3>1. st2 = st /\ broken' = TRUE
      BY <1>1, <1>8, <2>2, <2>3, <2>5
    <3>2. QED
      BY <1>7, <1>12, <2>1, <3>1
  <2>6. CASE ~ broken'
    <3>1. broken' = broken /\ length2 = length + 4 /\ length + 4 \in Nat
      BY <1>8, <1>12, <2>2, <2>3, <2>6
    <3>2. st2 \in {st, st + 1} /\ st2 \in 0 .. n /\ st \in 0 .. n
      BY <1>1, <1>9, <2>2, <2>3, <3>1
    <3>3. st2 = st \/ (st2 = st + 1 /\ st < n)
      BY <1>9, <3>2
    <3>4. QED
      BY <1>7, <1>12, <2>1, <2>4, <3>1, <3>3
  <2>7. QED
    BY <2>5, <2>6
<1>13. CASE Writer!EndOfWords
  <2>1. written' = written /\ broken' = broken
        /\ writing = "words" /\ writing' = "length"
    BY <1>13 DEF Writer!EndOfWords
  <2>2. st2 = st /\ (writing' = "done") = (writing = "done")
    BY <1>1, <2>1
  <2>3. QED
    BY <1>7, <2>1, <2>2
<1>14. CASE Writer!WriteLength
  <2>1. writing = "length" /\ writing' = "done" /\ broken' = broken
    BY <1>14 DEF Writer!WriteLength
  <2>2. CASE broken
    <3>1. written' = written
      BY <1>14, <2>2 DEF Writer!WriteLength
    <3>2. st2 = st
      BY <1>1, <3>1
    <3>3. QED
      BY <1>7, <2>1, <2>2, <3>2
  <2>3. CASE ~ broken
    <3>1. PICK all, length : all = All /\ length = Len(Image)
      OBVIOUS
    <3>2. /\ all \in Seq(StreamWord)
          /\ length = Writer!EndOfHeader + 4 * Len(all)
      BY <3>1, PackageWords, LengthOfImage
    <3>3. StoredIn(length) = n
      BY <1>1, <3>1, <3>2, AllStored
    <3>4. Len(written) = length
      BY <2>1, <2>3, <3>1 DEF Whole, HasPut, Image
    <3>5. Len(written') = length
      <4>1. Whole'
        BY <1>14, LengthWhole
      <4>2. package' = package
        BY WriterVars
      <4>3. All' = all
        BY <3>1, <4>2 DEF All
      <4>4. PICK number, file :
              /\ number = (IF sink' = "pipe" THEN 0 ELSE Len(Bytes(all)))
              /\ file = written'
        OBVIOUS
      <4>5. number \in Nat
        BY <3>1, <4>4, PackageWords
      <4>6. file = File(number, Bytes(all))
        BY <2>1, <2>3, <4>1, <4>3, <4>4 DEF Whole
      <4>7. Holds(file, number, all)
        BY <3>2, <4>5, <4>6, FileHolds
      <4>8. Len(file) = length
        BY <3>2, <4>7 DEF Holds
      <4>9. QED
        BY <4>4, <4>8
    <3>6. st = n /\ st2 = st
      BY <1>1, <3>3, <3>4, <3>5
    <3>7. QED
      BY <1>7, <2>1, <3>6
  <2>4. QED
    BY <2>2, <2>3
<1>15. QED
  BY <1>10, <1>11, <1>12, <1>13, <1>14 DEF Write, Writer!WriterNext

-----------------------------------------------------------------------------
(* The reader finds the sync word of the header, and behind it the words   *)
(* that are whole.                                                         *)

LEMMA SameParsing ==
  /\ \A ws, before : Reader!InitWithWords(ws, before) = InitWithWords(ws, before)
  /\ \A s : Reader!SyncPositions(s) = SyncPositions(s)
  /\ \A s : Reader!BigEndianWords(s) = BigEndianWords(s)
  /\ Reader!WordBytes = 4
<1>1. \A ws, before : Reader!InitWithWords(ws, before) = InitWithWords(ws, before)
  BY DEF InitWithWords, Reader!InitWithWords, Incomplete, Reader!Incomplete,
         Result, Reader!Result, Rest, Reader!Rest, Data, Reader!Data,
         Packet, Reader!Packet, Registers, Reader!Registers
<1>2. \A s : Reader!SyncPositions(s) = SyncPositions(s)
  BY DEF SyncPositions, Reader!SyncPositions, BytesOf, Reader!BytesOf,
         Sync, Reader!Sync, Word, Reader!Word, WordBytes, Reader!WordBytes
<1>3. \A s : Reader!BigEndianWords(s) = BigEndianWords(s)
  BY DEF BigEndianWords, Reader!BigEndianWords, BytesOf, Reader!BytesOf,
         Word, Reader!Word, WordBytes, Reader!WordBytes
<1>4. QED
  BY <1>1, <1>2, <1>3 DEF Reader!WordBytes

(* What is in a file that may be read.                                     *)
LEMMA DoneBegins ==
  ASSUME IInv, Whole, Cut, writing = "done"
  PROVE  /\ \E number \in Nat : Begins(written, File(number, Bytes(All)))
         /\ Len(written) \in Nat
         /\ Len(written) <= Writer!EndOfHeader + 4 * Len(All)
         /\ Len(written) < Writer!EndOfHeader + 4 * Len(All) => broken
<1>1. PICK all, length : /\ all = All
                         /\ length = Writer!EndOfHeader + 4 * Len(All)
  OBVIOUS
<1>2. /\ all \in Seq(StreamWord) /\ Len(Image) = length /\ length \in Nat
  <2>1. /\ Len(Image) = length /\ Len(All) \in Nat /\ Writer!EndOfHeader \in Nat
    BY <1>1, LengthOfImage
  <2>2. QED
    BY <1>1, <2>1, PackageWords
<1>3. CASE broken
  <2>1. Begins(written, Image) /\ Len(written) < Len(Image)
    BY <1>3 DEF Cut
  <2>2. Begins(written, File(0, Bytes(All))) /\ 0 \in Nat
    BY <2>1 DEF Image
  <2>3. Len(written) \in Nat
    BY <2>1, LenProperties DEF Begins
  <2>4. Len(written) <= length
    BY <1>2, <2>1, <2>3
  <2>5. QED
    BY <1>1, <1>3, <2>2, <2>3, <2>4
<1>4. CASE ~ broken
  <2>1. PICK number, file :
          /\ number = (IF sink = "pipe" THEN 0 ELSE Len(Bytes(all))) /\ file = written
    OBVIOUS
  <2>2. number \in Nat
    BY <1>1, <2>1, PackageWords
  <2>3. file = File(number, Bytes(all))
    BY <1>1, <1>4, <2>1 DEF Whole
  <2>4. Holds(file, number, all)
    BY <1>2, <2>2, <2>3, FileHolds
  <2>5. Len(file) = length /\ file \in Seq(Byte)
    BY <1>1, <2>4 DEF Holds
  <2>6. Begins(file, file)
    BY <1>2, <2>5 DEF Begins
  <2>7. Len(file) <= length /\ ~ Len(file) < length
    BY <1>2, <2>5
  <2>8. QED
    BY <1>1, <1>2, <2>1, <2>2, <2>3, <2>5, <2>6, <2>7
<1>5. QED
  BY <1>3, <1>4

(* Byte by byte.                                                           *)
LEMMA SpanIsSync ==
  ASSUME NEW file \in Seq(Byte), NEW i \in Nat \ {0}, i + 3 <= Len(file)
  PROVE  SubSeq(file, i, i + WordBytes - 1) = BytesOf(Sync)
           <=> \A k \in 1 .. 4 : file[i - 1 + k] = <<Sync, k>>
<1>1. PICK m, n, span, sync :
        /\ m = i - 1 /\ n = i + 3 /\ span = SubSeq(file, m + 1, n)
        /\ sync = BytesOf(Sync)
  OBVIOUS
<1>2. Len(file) \in Nat
  BY LenProperties
<1>3. m \in 0 .. Len(file) /\ n \in 0 .. Len(file) /\ m <= n /\ n - m = 4
  BY <1>1, <1>2
<1>4. /\ span \in Seq(Byte) /\ Len(span) = 4
      /\ \A k \in 1 .. 4 : span[k] = file[m + k]
  <2>1. /\ SubSeq(file, m + 1, n) \in Seq(Byte)
        /\ Len(SubSeq(file, m + 1, n)) = n - m
        /\ \A k \in 1 .. n - m : SubSeq(file, m + 1, n)[k] = file[m + k]
    BY <1>3, SubSeqAt
  <2>2. QED
    BY <1>1, <1>3, <2>1
<1>5. sync = [k \in 1 .. 4 |-> <<Sync, k>>]
  BY <1>1 DEF BytesOf, WordBytes
<1>6. span = [k \in 1 .. 4 |-> span[k]]
  <2>1. span \in [1 .. 4 -> Byte]
    BY <1>4, LenProperties
  <2>2. QED
    BY <2>1
<1>7. span = sync <=> \A k \in 1 .. 4 : span[k] = <<Sync, k>>
  <2>1. span = sync => \A k \in 1 .. 4 : span[k] = <<Sync, k>>
    BY <1>5
  <2>2. ASSUME \A k \in 1 .. 4 : span[k] = <<Sync, k>> PROVE span = sync
    <3>1. [k \in 1 .. 4 |-> span[k]] = [k \in 1 .. 4 |-> <<Sync, k>>]
      BY <2>2
    <3>2. QED
      BY <1>5, <1>6, <3>1
  <2>3. QED
    BY <2>1, <2>2
<1>8. m + 1 = i /\ i + WordBytes - 1 = n
  BY <1>1 DEF WordBytes
<1>9. SubSeq(file, i, i + WordBytes - 1) = span
  BY <1>1, <1>8
<1>10. QED
  BY <1>1, <1>4, <1>7, <1>9

(* No sync word begins before that of the header.                          *)
LEMMA SyncNotBefore ==
  ASSUME IInv, NEW file, NEW number \in Nat,
         Begins(file, File(number, Bytes(All))), NEW i \in SyncPositions(file)
  PROVE  /\ i \in Nat \ {0} /\ i + 3 <= Len(file)
         /\ i > Writer!EndOfHeader + 4 * (Len(Header) - 1)
<1>1. PICK all, whole, m, start, header :
        /\ all = All /\ whole = File(number, Bytes(all))
        /\ m = Len(BitHeader) /\ start = Writer!EndOfHeader
        /\ header = Len(Header)
  OBVIOUS
<1>2. /\ file \in Seq(Byte) /\ Len(file) \in Nat /\ Len(file) <= Len(whole)
      /\ \A x \in 1 .. Len(file) : file[x] = whole[x]
  BY <1>1, LenProperties DEF Begins
<1>3. i \in Nat \ {0} /\ i + 3 <= Len(file)
      /\ SubSeq(file, i, i + WordBytes - 1) = BytesOf(Sync)
  <2>1. /\ i \in 1 .. Len(file) - WordBytes + 1
        /\ SubSeq(file, i, i + WordBytes - 1) = BytesOf(Sync)
    BY DEF SyncPositions
  <2>2. i \in Nat \ {0} /\ i + 3 <= Len(file)
    BY <1>2, <2>1 DEF WordBytes
  <2>3. QED
    BY <2>1, <2>2
<1>4. \A k \in 1 .. 4 : file[i - 1 + k] = <<Sync, k>>
  BY <1>2, <1>3, SpanIsSync
<1>5. /\ m \in Nat /\ start = m + 4 /\ Len(all) \in Nat
      /\ Len(whole) = start + 4 * Len(all)
      /\ \A x \in 1 .. m : whole[x] = BitHeader[x]
      /\ \A k \in 1 .. 4 : whole[m + k] = <<Number(number), k>>
      /\ \A q \in 1 .. Len(all), k \in 1 .. 4 :
           whole[start + 4 * (q - 1) + k] = <<all[q], k>>
  <2>1. all \in Seq(StreamWord)
    BY <1>1, PackageWords
  <2>2. Holds(whole, number, all)
    BY <1>1, <2>1, FileHolds
  <2>3. QED
    BY <1>1, <2>2 DEF Holds
<1>6. PICK last : last = i + 3
  OBVIOUS
<1>7. last \in 1 .. m + 4 + 4 * Len(all) /\ file[last] = <<Sync, 4>>
      /\ file[last] = whole[last]
  <2>1. last \in 1 .. Len(file) /\ i - 1 + 4 = last /\ 4 \in 1 .. 4
    BY <1>2, <1>3, <1>6
  <2>2. last \in 1 .. m + 4 + 4 * Len(all)
    BY <1>2, <1>5, <2>1
  <2>3. file[i - 1 + 4] = <<Sync, 4>>
    BY <1>4, <2>1
  <2>4. QED
    BY <1>2, <2>1, <2>2, <2>3
<1>8. ASSUME last \in 1 .. m PROVE FALSE
  <2>1. BitHeader \in Seq(Byte)
    BY <1>2, FileParts
  <2>2. ASSUME NEW k \in 1 .. 4 PROVE BitHeader[i - 1 + k] = <<Sync, k>>
    <3>1. i - 1 + k \in 1 .. m /\ i - 1 + k \in 1 .. Len(file)
      BY <1>2, <1>3, <1>5, <1>6, <1>8
    <3>2. file[i - 1 + k] = whole[i - 1 + k] /\ whole[i - 1 + k] = BitHeader[i - 1 + k]
      BY <1>2, <1>5, <3>1
    <3>3. QED
      BY <1>4, <3>2
  <2>3. i + 3 <= Len(BitHeader)
    BY <1>1, <1>6, <1>8
  <2>4. SubSeq(BitHeader, i, i + WordBytes - 1) = BytesOf(Sync)
    BY <1>3, <2>1, <2>2, <2>3, SpanIsSync
  <2>5. i \in 1 .. Len(BitHeader) - WordBytes + 1
    BY <1>1, <1>3, <1>5, <2>3 DEF WordBytes
  <2>6. i \in SyncPositions(BitHeader)
    BY <2>4, <2>5 DEF SyncPositions
  <2>7. QED
    BY <2>6, SyncAssumption
<1>9. ASSUME NEW k \in 1 .. 4, last = m + k PROVE FALSE
  <2>1. <<Sync, 4>> = <<Number(number), k>>
    BY <1>5, <1>7, <1>9
  <2>2. Sync = Number(number)
    BY <2>1
  <2>3. Sync.type = 5 /\ Number(number).type = 0
    BY DEF Sync, Number, Word
  <2>4. QED
    BY <2>2, <2>3
<1>10. ASSUME NEW q \in 1 .. Len(all), NEW k \in 1 .. 4,
              last = m + 4 + 4 * (q - 1) + k,
              ~ i > start + 4 * (header - 1)
       PROVE  FALSE
  <2>1. last = start + 4 * (q - 1) + k
    BY <1>5, <1>10
  <2>2. <<Sync, 4>> = <<all[q], k>>
    BY <1>5, <1>7, <2>1
  <2>3. k = 4 /\ all[q] = Sync
    BY <2>2
  <2>4. header \in Nat \ {0}
    BY <1>1, LengthOfImage
  <2>5. q \in 1 .. header - 1 /\ q \in 1 .. header
    BY <1>3, <1>5, <1>6, <1>10, <2>1, <2>3, <2>4
  <2>6. all[q] = Header[q]
    <3>1. PICK rest : rest = WordsOf(package)
      OBVIOUS
    <3>2. rest \in Seq(StreamWord)
      BY <3>1, PackageWords, WordsOfType
    <3>3. Header \in Seq(StreamWord)
      BY PackageWords
    <3>4. all = Header \o rest
      BY <1>1, <3>1 DEF All
    <3>5. \A x \in 1 .. Len(Header) : all[x] = Header[x]
      BY <3>2, <3>3, <3>4, ConcatAt
    <3>6. QED
      BY <1>1, <2>5, <3>5
  <2>7. QED
    BY <1>1, <2>3, <2>5, <2>6, SyncAssumption
<1>11. i > start + 4 * (header - 1)
  <2>1. \/ last \in 1 .. m
        \/ \E k \in 1 .. 4 : last = m + k
        \/ \E q \in 1 .. Len(all), k \in 1 .. 4 : last = m + 4 + 4 * (q - 1) + k
    <3>1. Len(all) \in Nat /\ m \in Nat
      BY <1>5
    <3>2. QED
      BY <1>7, <3>1, PlaceIn
  <2>2. ASSUME last \notin 1 .. m, ~ i > start + 4 * (header - 1) PROVE FALSE
    <3>1. CASE \E k \in 1 .. 4 : last = m + k
      BY <1>9, <3>1
    <3>2. CASE \E q \in 1 .. Len(all), k \in 1 .. 4 : last = m + 4 + 4 * (q - 1) + k
      BY <1>10, <2>2, <3>2
    <3>3. QED
      BY <2>1, <2>2, <3>1, <3>2
  <2>3. QED
    BY <1>8, <2>2
<1>12. QED
  BY <1>1, <1>3, <1>11

(* Where the sync word is found.                                           *)
LEMMA SyncFound ==
  ASSUME IInv, NEW file, NEW number \in Nat,
         Begins(file, File(number, Bytes(All)))
  PROVE  /\ Len(file) \in Nat
         /\ Len(file) < Writer!EndOfHeader + 4 * Len(Header) =>
              Reader!SyncPositions(file) = {}
         /\ Len(file) >= Writer!EndOfHeader + 4 * Len(Header) =>
              /\ Reader!SyncPositions(file) # {}
              /\ Reader!AfterSync(Reader!SyncPositions(file))
                   = Writer!EndOfHeader + 4 * Len(Header) + 1
<1>1. PICK all, whole, start, header, places, first :
        /\ all = All /\ whole = File(number, Bytes(all))
        /\ start = Writer!EndOfHeader /\ header = Len(Header)
        /\ places = SyncPositions(file)
        /\ first = start + 4 * (header - 1) + 1
  OBVIOUS
<1>2. /\ file \in Seq(Byte) /\ Len(file) \in Nat /\ Len(file) <= Len(whole)
      /\ \A x \in 1 .. Len(file) : file[x] = whole[x]
  BY <1>1, LenProperties DEF Begins
<1>3. /\ start \in Nat /\ header \in Nat \ {0} /\ Len(all) \in Nat
      /\ header <= Len(all)
  <2>1. /\ start \in Nat /\ header \in Nat \ {0} /\ Len(all) \in Nat
        /\ Len(all) = header + Len(WordsOf(package))
        /\ Len(WordsOf(package)) \in Nat
    BY <1>1, LengthOfImage
  <2>2. QED
    BY <2>1
<1>4. ASSUME NEW i \in places
      PROVE  i \in Nat \ {0} /\ i + 3 <= Len(file) /\ first <= i
  <2>1. i \in Nat \ {0} /\ i + 3 <= Len(file) /\ i > start + 4 * (header - 1)
    BY <1>1, SyncNotBefore
  <2>2. QED
    BY <1>1, <1>3, <2>1
<1>5. ASSUME Len(file) < start + 4 * header PROVE places = {}
  <2>1. ASSUME NEW i \in places PROVE FALSE
    <3>1. i \in Nat \ {0} /\ i + 3 <= Len(file) /\ first <= i
      BY <1>4
    <3>2. QED
      BY <1>1, <1>2, <1>3, <1>5, <3>1
  <2>2. QED
    BY <2>1
<1>6. ASSUME Len(file) >= start + 4 * header PROVE first \in places
  <2>1. first \in Nat \ {0} /\ first + 3 = start + 4 * header
        /\ first + 3 <= Len(file)
    BY <1>1, <1>2, <1>3, <1>6
  <2>2. Holds(whole, number, all)
    <3>1. all \in Seq(StreamWord)
      BY <1>1, PackageWords
    <3>2. QED
      BY <1>1, <3>1, FileHolds
  <2>3. all[header] = Sync
    <3>1. PICK rest : rest = WordsOf(package)
      OBVIOUS
    <3>2. rest \in Seq(StreamWord)
      BY <3>1, PackageWords, WordsOfType
    <3>3. Header \in Seq(StreamWord)
      BY PackageWords
    <3>4. all = Header \o rest
      BY <1>1, <3>1 DEF All
    <3>5. \A x \in 1 .. Len(Header) : all[x] = Header[x]
      BY <3>2, <3>3, <3>4, ConcatAt
    <3>6. Header[Len(Header)] = Sync
      BY HeaderAssumption DEF Last
    <3>7. QED
      BY <1>1, <1>3, <3>5, <3>6
  <2>4. ASSUME NEW k \in 1 .. 4 PROVE file[first - 1 + k] = <<Sync, k>>
    <3>1. first - 1 + k = start + 4 * (header - 1) + k
          /\ first - 1 + k \in 1 .. Len(file) /\ header \in 1 .. Len(all)
      BY <1>1, <1>2, <1>3, <2>1
    <3>2. whole[start + 4 * (header - 1) + k] = <<all[header], k>>
      BY <1>1, <2>2, <3>1 DEF Holds
    <3>3. file[first - 1 + k] = whole[first - 1 + k]
      BY <1>2, <3>1
    <3>4. QED
      BY <2>3, <3>1, <3>2, <3>3
  <2>5. SubSeq(file, first, first + WordBytes - 1) = BytesOf(Sync)
    BY <1>2, <2>1, <2>4, SpanIsSync
  <2>6. first \in 1 .. Len(file) - WordBytes + 1
    BY <1>2, <2>1 DEF WordBytes
  <2>7. QED
    BY <1>1, <2>5, <2>6 DEF SyncPositions
<1>7. ASSUME first \in places PROVE Reader!AfterSync(places) = start + 4 * header + 1
  <2>1. PICK least : least = CHOOSE i \in places : \A j \in places : i <= j
    OBVIOUS
  <2>2. \A j \in places : first <= j
    BY <1>4
  <2>3. least \in places /\ \A j \in places : least <= j
    BY <1>7, <2>1, <2>2
  <2>4. first <= least /\ least <= first /\ least \in Nat /\ first \in Nat
    BY <1>4, <1>7, <2>3
  <2>5. least = first
    BY <2>4
  <2>6. Reader!AfterSync(places) = 4 + least
    BY <2>1 DEF Reader!AfterSync, Reader!WordBytes
  <2>7. QED
    BY <1>1, <1>3, <2>5, <2>6
<1>8. Reader!SyncPositions(file) = places
  BY <1>1, SameParsing
<1>9. QED
  BY <1>1, <1>2, <1>5, <1>6, <1>7, <1>8

LEMMA SpanIsWord ==
  ASSUME NEW bytes \in Seq(Byte), NEW n \in Nat, Len(bytes) = 4 * n,
         NEW q \in 1 .. n, NEW word,
         \A k \in 1 .. 4 : bytes[4 * (q - 1) + k] = <<word, k>>
  PROVE  /\ SubSeq(bytes, 4 * (q - 1) + 1, 4 * q) = BytesOf(word)
         /\ BytesOf(word)[1][1] = word
<1>1. PICK x, y, b : /\ x = 4 * (q - 1) /\ y = 4 * q
                     /\ b = SubSeq(bytes, x + 1, y)
  OBVIOUS
<1>2. x \in 0 .. Len(bytes) /\ y \in 0 .. Len(bytes) /\ x <= y /\ y - x = 4
  BY <1>1
<1>3. /\ b \in Seq(Byte) /\ Len(b) = 4
      /\ \A k \in 1 .. 4 : b[k] = bytes[x + k]
  <2>1. /\ SubSeq(bytes, x + 1, y) \in Seq(Byte)
        /\ Len(SubSeq(bytes, x + 1, y)) = y - x
        /\ \A k \in 1 .. y - x : SubSeq(bytes, x + 1, y)[k] = bytes[x + k]
    BY <1>2, SubSeqAt
  <2>2. QED
    BY <1>1, <1>2, <2>1
<1>4. \A k \in 1 .. 4 : b[k] = <<word, k>>
  BY <1>1, <1>3
<1>5. b = BytesOf(word)
  <2>1. b \in [1 .. 4 -> Byte]
    BY <1>3, LenProperties
  <2>2. b = [k \in 1 .. 4 |-> <<word, k>>]
    BY <1>4, <2>1
  <2>3. QED
    BY <2>2 DEF BytesOf, WordBytes
<1>6. BytesOf(word)[1][1] = word
  BY DEF BytesOf, WordBytes
<1>7. QED
  BY <1>1, <1>5, <1>6

(* The words that are whole, behind it.                                    *)
Behind(file, before, bytes) ==
  /\ before = Writer!EndOfHeader + 4 * Len(Header) /\ before <= Len(file)
  /\ bytes = SubSeq(file, before + 1, Len(file))

LEMMA WordsFound ==
  ASSUME IInv, NEW file, NEW number \in Nat,
         Begins(file, File(number, Bytes(All))),
         NEW before, NEW bytes, Behind(file, before, bytes),
         NEW n \in Nat, Len(bytes) = 4 * n
  PROVE  LET found == Reader!BigEndianWords(bytes)
         IN /\ found \in Seq(StreamWord) /\ Len(found) \in Nat
            /\ Len(file) = before + 4 * Len(found)
            /\ Len(found) <= Len(WordsOf(package))
            /\ \A q \in 1 .. Len(found) : found[q] = WordsOf(package)[q]
<1>0. /\ before = Writer!EndOfHeader + 4 * Len(Header) /\ before <= Len(file)
      /\ bytes = SubSeq(file, before + 1, Len(file))
  BY DEF Behind
<1> USE <1>0
<1>1. PICK all, rest, whole, start, header, length :
        /\ all = All /\ rest = WordsOf(package) /\ whole = File(number, Bytes(all))
        /\ start = Writer!EndOfHeader /\ header = Len(Header)
        /\ length = Len(file)
  OBVIOUS
<1>2. /\ file \in Seq(Byte) /\ length \in Nat /\ length <= Len(whole)
      /\ \A x \in 1 .. length : file[x] = whole[x]
  BY <1>1, LenProperties DEF Begins
<1>3. /\ start \in Nat /\ header \in Nat \ {0} /\ Len(rest) \in Nat
      /\ before = start + 4 * header /\ before \in Nat
      /\ all \in Seq(StreamWord) /\ rest \in Seq(StreamWord)
      /\ Len(all) = header + Len(rest)
      /\ \A q \in 1 .. Len(rest) : all[header + q] = rest[q]
  <2>1. /\ start \in Nat /\ header \in Nat \ {0} /\ Len(rest) \in Nat
        /\ Len(all) = header + Len(rest)
    BY <1>1, LengthOfImage
  <2>2. rest \in Seq(StreamWord)
    BY <1>1, PackageWords, WordsOfType
  <2>3. Header \in Seq(StreamWord)
    BY PackageWords
  <2>4. all = Header \o rest
    BY <1>1 DEF All
  <2>5. \A q \in 1 .. Len(rest) : all[Len(Header) + q] = rest[q]
    BY <2>2, <2>3, <2>4, ConcatAt
  <2>6. before = start + 4 * header /\ before \in Nat
    BY <1>1, <2>1
  <2>7. QED
    BY <1>1, <2>1, <2>2, <2>5, <2>6, PackageWords
<1>b. /\ start \in Nat /\ header \in Nat /\ Len(rest) \in Nat
      /\ before = start + 4 * header /\ before \in Nat
      /\ Len(all) = header + Len(rest)
  BY <1>3
<1>4. /\ Len(whole) = start + 4 * Len(all)
      /\ \A q \in 1 .. Len(all), k \in 1 .. 4 :
           whole[start + 4 * (q - 1) + k] = <<all[q], k>>
  <2>1. Holds(whole, number, all)
    BY <1>1, <1>3, FileHolds
  <2>2. QED
    BY <1>1, <2>1 DEF Holds
<1>5. /\ bytes \in Seq(Byte) /\ Len(bytes) = length - before
      /\ \A x \in 1 .. length - before : bytes[x] = file[before + x]
  <2>1. before \in 0 .. Len(file) /\ length \in 0 .. Len(file) /\ before <= length
    BY <1>1, <1>2, <1>3
  <2>2. /\ SubSeq(file, before + 1, length) \in Seq(Byte)
        /\ Len(SubSeq(file, before + 1, length)) = length - before
        /\ \A x \in 1 .. length - before :
             SubSeq(file, before + 1, length)[x] = file[before + x]
    BY <1>2, <2>1, SubSeqAt
  <2>3. QED
    BY <1>1, <2>2
<1>6. \A m \in Nat : (4 * m) \div 4 = m
  OBVIOUS
<1>a. \A s, h, q, k \in Nat : s + 4 * h + (4 * (q - 1) + k) = s + 4 * ((h + q) - 1) + k
  OBVIOUS
<1>c. \A b, x, m \in Nat : x >= 1 /\ x <= 4 * m => b + x \in 1 .. b + 4 * m
  OBVIOUS
<1>7. /\ n \in Nat /\ Len(bytes) = 4 * n /\ n <= Len(rest)
      /\ length = before + 4 * n /\ length - before = 4 * n
  <2>1. length - before = 4 * n
    BY <1>5
  <2>2. length = before + 4 * n
    BY <1>2, <1>3, <2>1
  <2>3. length <= start + 4 * (header + Len(rest))
    BY <1>2, <1>3, <1>4
  <2>4. n <= Len(rest)
    BY <1>3, <2>2, <2>3
  <2>5. QED
    BY <2>1, <2>2, <2>4
<1>8. ASSUME NEW q \in 1 .. n
      PROVE  /\ SubSeq(bytes, WordBytes * (q - 1) + 1, WordBytes * q)
                  = BytesOf(rest[q])
             /\ BytesOf(rest[q])[1][1] = rest[q]
  <2>1. ASSUME NEW k \in 1 .. 4 PROVE bytes[4 * (q - 1) + k] = <<rest[q], k>>
    <3>1. PICK x, place :
            x = 4 * (q - 1) + k /\ place = start + 4 * ((header + q) - 1) + k
      OBVIOUS
    <3>2. q \in 1 .. Len(rest) /\ header + q \in 1 .. Len(all) /\ q \in Nat
      <4>1. n \in Nat /\ n <= Len(rest)
        BY <1>7
      <4>2. q \in Nat /\ q >= 1 /\ q <= Len(rest)
        BY <1>b, <4>1
      <4>3. QED
        BY <1>b, <4>2
    <3>3. x \in 1 .. 4 * n
      BY <1>7, <3>1
    <3>4. length - before = 4 * n
      BY <1>7
    <3>5. before + x = place /\ place \in 1 .. length
      <4>1. q \in Nat /\ k \in Nat
        BY <3>2
      <4>2. before + x = place
        <5>1. start + 4 * header + (4 * (q - 1) + k)
                = start + 4 * ((header + q) - 1) + k
          BY <1>b, <1>a, <4>1
        <5>2. QED
          BY <1>b, <3>1, <5>1, Zenon
      <4>3. before \in Nat /\ x \in Nat /\ x >= 1 /\ x <= 4 * n
        BY <1>b, <1>7, <3>3
      <4>4. before + x \in 1 .. before + 4 * n
        BY <4>3, <1>c, <1>7
      <4>5. QED
        BY <1>7, <4>2, <4>4
    <3>6. bytes[x] = file[place] /\ file[place] = whole[place]
      BY <1>2, <1>5, <3>3, <3>4, <3>5
    <3>7. whole[place] = <<all[header + q], k>> /\ all[header + q] = rest[q]
      BY <1>3, <1>4, <3>1, <3>2
    <3>8. QED
      BY <3>1, <3>6, <3>7
  <2>2. PICK word : word = rest[q]
    OBVIOUS
  <2>3. /\ SubSeq(bytes, 4 * (q - 1) + 1, 4 * q) = BytesOf(word)
        /\ BytesOf(word)[1][1] = word
    <3>1. bytes \in Seq(Byte)
      BY <1>5
    <3>2. \A k \in 1 .. 4 : bytes[4 * (q - 1) + k] = <<word, k>>
      BY <2>1, <2>2
    <3>3. QED
      BY <1>7, <3>1, <3>2, SpanIsWord
  <2>4. QED
    BY <2>2, <2>3 DEF WordBytes
<1>9. PICK found : found = BigEndianWords(bytes)
  OBVIOUS
<1>10. /\ found = [q \in 1 .. n |-> found[q]]
       /\ \A q \in 1 .. n : found[q] = rest[q]
  <2>1. found = [q \in 1 .. n |->
          LET b == SubSeq(bytes, WordBytes * (q - 1) + 1, WordBytes * q)
          IN IF b = BytesOf(b[1][1]) THEN b[1][1] ELSE Word(7, "mixed", "mixed", 0)]
    <3>1. Len(bytes) \div WordBytes = n
      BY <1>6, <1>7 DEF WordBytes
    <3>2. QED
      BY <1>9, <3>1 DEF BigEndianWords
  <2>2. ASSUME NEW q \in 1 .. n PROVE found[q] = rest[q]
    <3>1. PICK b : b = SubSeq(bytes, WordBytes * (q - 1) + 1, WordBytes * q)
      OBVIOUS
    <3>2. b = BytesOf(b[1][1]) /\ b[1][1] = rest[q]
      BY <1>8, <3>1
    <3>3. found[q] = IF b = BytesOf(b[1][1]) THEN b[1][1]
                     ELSE Word(7, "mixed", "mixed", 0)
      BY <2>1, <3>1
    <3>4. QED
      BY <3>2, <3>3
  <2>3. QED
    BY <2>1, <2>2
<1>11. found \in Seq(StreamWord) /\ Len(found) = n
  <2>0. \A q \in 1 .. n : q \in 1 .. Len(rest)
    BY <1>7, <1>b
  <2>1. \A q \in 1 .. n : rest[q] \in StreamWord
    BY <1>3, <2>0, ElementOfSeq
  <2>2. found \in [1 .. n -> StreamWord]
    BY <1>10, <2>1
  <2>3. found \in Seq(StreamWord)
    BY <1>7, <2>2, SeqDef
  <2>4. QED
    BY <1>7, <2>2, <2>3, LenProperties
<1>12. Reader!BigEndianWords(bytes) = found
  BY <1>9, SameParsing
<1>13. QED
  BY <1>1, <1>7, <1>10, <1>11, <1>12

-----------------------------------------------------------------------------
(* The next packet is parsed when its words are there, and left when not.  *)
StartsWith(left, one) == \A q \in 1 .. Len(one) : left[q] = one[q]

LEMMA FrontTaken ==
  ASSUME NEW S, NEW left \in Seq(S), NEW one \in Seq(S), NEW k \in Nat,
         Len(left) = Len(one) + k, StartsWith(left, one)
  PROVE  LET rest == SubSeq(left, Len(one) + 1, Len(left))
         IN /\ left = one \o rest /\ rest \in Seq(S) /\ Len(rest) = k
            /\ \A q \in 1 .. k : rest[q] = left[Len(one) + q]
<1>1. PICK m, n, rest : /\ m = Len(one) /\ n = Len(left)
                        /\ rest = SubSeq(left, m + 1, n)
  OBVIOUS
<1>2. m \in Nat /\ n \in Nat /\ n = m + k /\ m <= n /\ n - m = k
  BY <1>1, LenProperties
<1>3. /\ rest \in Seq(S) /\ Len(rest) = n - m
      /\ \A q \in 1 .. n - m : rest[q] = left[m + q]
  <2>1. m \in 0 .. Len(left) /\ n \in 0 .. Len(left)
    BY <1>1, <1>2
  <2>2. QED
    BY <1>1, <1>2, <2>1, SubSeqAt
<1>6. PICK both : both = one \o rest
  OBVIOUS
<1>7. rest \in Seq(S) /\ Len(rest) = k
  BY <1>2, <1>3
<1>8. /\ both \in Seq(S) /\ Len(both) = m + k
      /\ \A q \in 1 .. m : both[q] = one[q]
      /\ \A q \in 1 .. k : both[m + q] = rest[q]
  <2>0. rest \in Seq(S)
    BY <1>7
  <2>1. /\ both \in Seq(S) /\ Len(both) = Len(one) + Len(rest)
        /\ \A q \in 1 .. Len(one) : both[q] = one[q]
        /\ \A q \in 1 .. Len(rest) : both[Len(one) + q] = rest[q]
    BY <1>6, <2>0, ConcatAt
  <2>2. Len(one) = m /\ Len(rest) = k
    BY <1>1, <1>7
  <2>3. QED
    BY <2>1, <2>2
<1>9. ASSUME NEW q \in 1 .. n PROVE both[q] = left[q]
  <2>1. CASE q <= m
    BY <1>1, <1>2, <1>8, <2>1 DEF StartsWith
  <2>2. CASE ~ q <= m
    <3>1. PICK x : x = q - m
      OBVIOUS
    <3>2. x \in 1 .. k /\ m + x = q
      BY <1>2, <2>2, <3>1
    <3>3. both[q] = rest[x] /\ rest[x] = left[q]
      BY <1>2, <1>3, <1>8, <3>2
    <3>4. QED
      BY <3>3
  <2>3. QED
    BY <2>1, <2>2
<1>10. both = left
  <2>1. both \in Seq(S) /\ left \in Seq(S) /\ Len(both) = Len(left)
    BY <1>1, <1>2, <1>8
  <2>2. QED
    BY <1>1, <1>9, <2>1, SeqEqual
<1>11. QED
  BY <1>1, <1>2, <1>3, <1>6, <1>7, <1>10

LEMMA HeadOff ==
  ASSUME NEW S, NEW left \in Seq(S), Len(left) # 0
  PROVE  LET read == SubSeq(left, 2, Len(left))
         IN /\ left = <<left[1]>> \o read /\ read \in Seq(S)
            /\ Len(left) = 1 + Len(read)
<1>1. PICK first, k : first = <<left[1]>> /\ k = Len(left) - 1
  OBVIOUS
<1>2. Len(left) \in Nat \ {0} /\ left[1] \in S
  BY LenProperties, ElementOfSeq
<1>3. first \in Seq(S)
  BY <1>1, <1>2
<1>4. Len(first) = 1 /\ first[1] = left[1]
  BY <1>1
<1>5. k \in Nat /\ Len(left) = Len(first) + k
  BY <1>1, <1>2, <1>4
<1>6. StartsWith(left, first)
  BY <1>4 DEF StartsWith
<1>7. LET read == SubSeq(left, Len(first) + 1, Len(left))
      IN left = first \o read /\ read \in Seq(S) /\ Len(read) = k
  BY <1>3, <1>5, <1>6, FrontTaken
<1>8. Len(first) + 1 = 2
  BY <1>4
<1>9. QED
  BY <1>1, <1>4, <1>5, <1>7, <1>8

LEMMA FirstWord ==
  ASSUME NEW packet \in AnyPacket
  PROVE  LET one == WordsOfOne(packet)
         IN /\ one = <<PacketHeader(packet)>> \o packet.data
            /\ Len(packet.data) \in Nat /\ packet.data \in Seq(StreamWord)
            /\ PacketHeader(packet) \in StreamWord
            /\ one \in Seq(StreamWord) /\ Len(one) = 1 + Len(packet.data)
            /\ one[1] = PacketHeader(packet)
<1>1. PICK header, data, first, one :
        /\ header = PacketHeader(packet) /\ data = packet.data
        /\ first = <<header>> /\ one = WordsOfOne(packet)
  OBVIOUS
<1>2. header \in StreamWord /\ one \in Seq(StreamWord)
  BY <1>1, WordsOfOneType
<1>3. data \in Seq(StreamWord)
  <2>1. data \in Seq(AnyWord)
    BY <1>1 DEF AnyPacket
  <2>2. AnyWord \subseteq StreamWord
    BY DEF StreamWord
  <2>3. QED
    BY <2>1, <2>2, SeqMonotonic
<1>4. first \in Seq(StreamWord) /\ Len(first) = 1 /\ first[1] = header
  BY <1>1, <1>2
<1>5. one = first \o data
  BY <1>1 DEF WordsOfOne
<1>6. /\ Len(data) \in Nat /\ Len(one) = Len(first) + Len(data)
      /\ \A q \in 1 .. Len(first) : one[q] = first[q]
  <2>1. first \in Seq(StreamWord)
    BY <1>4
  <2>2. QED
    BY <1>3, <1>5, <2>1, ConcatAt
<1>7. one[1] = header
  <2>1. 1 \in 1 .. Len(first)
    BY <1>4
  <2>2. QED
    BY <1>4, <1>6, <2>1
<1>8. QED
  BY <1>1, <1>2, <1>3, <1>4, <1>5, <1>6, <1>7

LEMMA ParsesWhole ==
  ASSUME NEW packets \in Seq(AnyPacket), NEW i \in 1 .. Len(packets),
         Sound(packets, i), NEW rest \in Seq(StreamWord)
  PROVE  InitWithWords(WordsOfOne(packets[i]) \o rest,
                       IF i = 1 THEN {} ELSE {packets[i - 1]})
           = Result(rest, {packets[i]})
<1>1. packets[i] \in AnyPacket /\ i \in DOMAIN packets
  BY ElementOfSeq, LenProperties
<1>2. packets \in Seq([type : Nat, opcode : STRING, address : STRING,
                       data : Seq(StreamWord)])
  <2>1. Seq(AnyWord) \subseteq Seq(StreamWord)
    <3>1. AnyWord \subseteq StreamWord
      BY DEF StreamWord
    <3>2. QED
      BY <3>1, SeqMonotonic
  <2>2. AnyPacket \subseteq [type : Nat, opcode : STRING, address : STRING,
                             data : Seq(StreamWord)]
    BY <2>1 DEF AnyPacket
  <2>3. QED
    BY <2>2, SeqMonotonic
<1>3. PacketHeader(packets[i]) \in StreamWord
  BY <1>1, FirstWord
<1>4. InitWithWords(Stream(packets[i], rest),
                    IF i = 1 THEN {} ELSE {packets[i - 1]})
        = Result(rest, {packets[i]})
  BY <1>1, <1>2, <1>3, ParsesWhatIsWritten
<1>5. Stream(packets[i], rest) = WordsOfOne(packets[i]) \o rest
  BY DEF Stream, WordsOfOne
<1>6. QED
  BY <1>4, <1>5

LEMMA LeavesCut ==
  ASSUME NEW packets \in Seq(AnyPacket), NEW i \in 1 .. Len(packets),
         Sound(packets, i), NEW left \in Seq(StreamWord),
         Len(left) < Len(WordsOfOne(packets[i])),
         \A q \in 1 .. Len(left) : left[q] = WordsOfOne(packets[i])[q],
         NEW before
  PROVE  InitWithWords(left, before) = Result(left, {})
<1>1. PICK packet, header, data, one, n :
        /\ packet = packets[i] /\ header = PacketHeader(packet)
        /\ data = packet.data /\ one = WordsOfOne(packet) /\ n = Len(left)
  OBVIOUS
<1>2. packet \in AnyPacket /\ n \in Nat
  BY <1>1, ElementOfSeq, LenProperties
<1>3. /\ Len(data) \in Nat /\ data \in Seq(StreamWord)
      /\ header \in StreamWord
      /\ Len(one) = 1 + Len(data) /\ one[1] = header
  BY <1>1, <1>2, FirstWord
<1>4. n < 1 + Len(data)
  BY <1>1, <1>3
<1>5. CASE n = 0
  <2>1. left = <<>>
    BY <1>1, <1>5, EmptySeq
  <2>2. QED
    BY <2>1, Zenon DEF InitWithWords
<1>6. CASE n # 0
  <2>2. n \in Nat \ {0}
    BY <1>2, <1>6
  <2>3. left[1] = header
    <3>1. 1 \in 1 .. Len(left)
      BY <1>1, <2>2
    <3>2. QED
      BY <1>1, <1>3, <3>1
  <2>4. Len(left) # 0
    BY <1>1, <2>2
  <2>6. PICK read \in Seq(StreamWord) :
          left = <<left[1]>> \o read /\ Len(left) = 1 + Len(read)
    <3>1. PICK read : read = SubSeq(left, 2, Len(left))
      OBVIOUS
    <3>2. /\ left = <<left[1]>> \o read /\ read \in Seq(StreamWord)
          /\ Len(left) = 1 + Len(read)
      BY <2>4, <3>1, HeadOff
    <3>3. QED
      BY <3>2
  <2>7. Len(read) \in Nat /\ Len(read) < Len(data)
    <3>1. Len(read) \in Nat
      BY <2>6, LenProperties
    <3>2. n = 1 + Len(read)
      BY <1>1, <2>6
    <3>3. QED
      BY <1>3, <1>4, <3>1, <3>2
  <2>8. \/ packet.type = 1 /\ Len(packet.data) < TypeOneLimit
        \/ packet.type = 2 /\ Len(packet.data) < TypeTwoLimit
    <3>1. Len(data) # 0
      BY <1>3, <2>7
    <3>2. packet # Packet(0, "nop", "CRC", <<>>)
      <4>1. Packet(0, "nop", "CRC", <<>>).data = <<>> /\ Len(<<>>) = 0
        BY DEF Packet
      <4>2. QED
        BY <1>1, <3>1, <4>1
    <3>3. QED
      BY <1>1, <3>2 DEF Sound
  <2>9. InitWithWords(<<PacketHeader(packet)>> \o read, before)
          = Result(<<PacketHeader(packet)>> \o read, {})
    <3>1. packet.data \in Seq(StreamWord) /\ PacketHeader(packet) \in StreamWord
      BY <1>1, <1>3
    <3>2. Len(read) < Len(packet.data)
      BY <1>1, <2>7
    <3>3. QED
      BY <2>8, <3>1, <3>2, LeavesWhatIsCut
  <2>10. QED
    BY <1>1, <2>3, <2>6, <2>9
<1>7. QED
  BY <1>5, <1>6

(* The words left are the first of those behind the first k packets.       *)
Remains(packets, k, left) ==
  /\ left \in Seq(StreamWord)
  /\ WordsBefore(packets, k) + Len(left) <= Len(WordsOf(packets))
  /\ \A q \in 1 .. Len(left) :
       left[q] = WordsOf(packets)[WordsBefore(packets, k) + q]

LEMMA ParsesNext ==
  ASSUME NEW packets \in Seq(AnyPacket), NEW i \in 1 .. Len(packets),
         Sound(packets, i), NEW left, Remains(packets, i - 1, left)
  PROVE  LET before == IF i = 1 THEN {} ELSE {packets[i - 1]}
             parsed == InitWithWords(left, before)
             size == WordsBefore(packets, i) - WordsBefore(packets, i - 1)
             rest == SubSeq(left, size + 1, Len(left))
         IN /\ size \in Nat \ {0} /\ Len(left) \in Nat
            /\ WordsBefore(packets, i - 1) \in Nat
            /\ size <= Len(left) =>
                 /\ parsed = Result(rest, {packets[i]})
                 /\ Remains(packets, i, rest) /\ Len(rest) = Len(left) - size
            /\ size > Len(left) => parsed = Result(left, {})
<1>1. PICK one, all, start, size, rest, end, n :
        /\ one = WordsOfOne(packets[i]) /\ all = WordsOf(packets)
        /\ start = WordsBefore(packets, i - 1) /\ end = WordsBefore(packets, i)
        /\ size = end - start /\ n = Len(left)
        /\ rest = SubSeq(left, size + 1, n)
  OBVIOUS
<1>2. /\ packets[i] \in AnyPacket /\ one \in Seq(StreamWord)
      /\ Len(one) \in Nat \ {0} /\ start \in Nat /\ end = start + Len(one)
      /\ \A q \in 1 .. Len(one) : all[start + q] = one[q]
  BY <1>1, WordsOfEach
<1>3. /\ left \in Seq(StreamWord) /\ start + n <= Len(all)
      /\ \A q \in 1 .. n : left[q] = all[start + q]
  BY <1>1 DEF Remains
<1>4. n \in Nat /\ size = Len(one)
  BY <1>1, <1>2, <1>3, LenProperties
<1>5. one \in Seq(StreamWord) /\ left \in Seq(StreamWord)
  BY <1>2, <1>3
<1>6. ASSUME size <= n
      PROVE  /\ InitWithWords(left, IF i = 1 THEN {} ELSE {packets[i - 1]})
                  = Result(rest, {packets[i]})
             /\ Remains(packets, i, rest) /\ Len(rest) = n - size
  <2>1. PICK k : k = n - size
    OBVIOUS
  <2>2. k \in Nat /\ n = size + k
    BY <1>2, <1>4, <1>6, <2>1
  <2>3. Len(left) = Len(one) + k
    BY <1>1, <1>4, <2>2
  <2>4. StartsWith(left, one)
    <3>1. \A q \in 1 .. Len(one) : q \in 1 .. n
      BY <1>2, <1>4, <1>6
    <3>2. QED
      BY <1>2, <1>3, <3>1 DEF StartsWith
  <2>5. /\ left = one \o rest /\ rest \in Seq(StreamWord) /\ Len(rest) = k
        /\ \A q \in 1 .. k : rest[q] = left[Len(one) + q]
    <3>1. LET s == SubSeq(left, Len(one) + 1, Len(left))
          IN /\ left = one \o s /\ s \in Seq(StreamWord) /\ Len(s) = k
             /\ \A q \in 1 .. k : s[q] = left[Len(one) + q]
      BY <1>5, <2>2, <2>3, <2>4, FrontTaken
    <3>2. rest = SubSeq(left, Len(one) + 1, Len(left))
      BY <1>1, <1>4
    <3>3. QED
      BY <3>1, <3>2
  <2>6. InitWithWords(left, IF i = 1 THEN {} ELSE {packets[i - 1]})
          = Result(rest, {packets[i]})
    <3>1. rest \in Seq(StreamWord) /\ left = WordsOfOne(packets[i]) \o rest
      BY <1>1, <2>5
    <3>2. InitWithWords(WordsOfOne(packets[i]) \o rest,
                        IF i = 1 THEN {} ELSE {packets[i - 1]})
            = Result(rest, {packets[i]})
      BY <3>1, ParsesWhole
    <3>3. QED
      BY <3>1, <3>2
  <2>7. \A q \in 1 .. k : rest[q] = all[end + q]
    <3> SUFFICES ASSUME NEW q \in 1 .. k PROVE rest[q] = all[end + q]
      OBVIOUS
    <3>1. /\ size + q \in 1 .. n /\ start + (size + q) = end + q
      BY <1>2, <1>4, <2>2
    <3>2. rest[q] = left[size + q]
      BY <1>4, <2>5
    <3>3. QED
      BY <1>3, <3>1, <3>2
  <2>8. end + k <= Len(all)
    <3>1. start + n = end + k
      BY <1>2, <1>4, <2>2
    <3>2. QED
      BY <1>3, <3>1
  <2>9. Remains(packets, i, rest)
    BY <1>1, <2>5, <2>7, <2>8 DEF Remains
  <2>10. QED
    BY <2>1, <2>5, <2>6, <2>9
<1>7. ASSUME size > n
      PROVE  InitWithWords(left, IF i = 1 THEN {} ELSE {packets[i - 1]})
               = Result(left, {})
  <2>1. Len(left) < Len(WordsOfOne(packets[i]))
    BY <1>1, <1>2, <1>4, <1>7
  <2>2. \A q \in 1 .. Len(left) : left[q] = WordsOfOne(packets[i])[q]
    <3>1. \A q \in 1 .. n : q \in 1 .. Len(one)
      BY <1>2, <1>4, <1>7
    <3>2. QED
      BY <1>1, <1>2, <1>3, <3>1
  <2>3. QED
    BY <1>5, <2>1, <2>2, LeavesCut
<1>8. QED
  BY <1>1, <1>2, <1>4, <1>6, <1>7

(* What a step of the reader leaves alone, and what it has to be.          *)
LEMMA ReaderMoves ==
  ASSUME Read, reading \in {"bytes", "packets"},
         NEW st, st = StoredIn(Len(written)),
         NEW d, d = SubSeq(received, 1, Smaller(Len(received), Len(Sent))),
         NEW e, e = SubSeq(received', 1, Smaller(Len(received'), Len(Sent))),
         \/ reading' \in {"bytes", "packets"} /\ e = d
         \/ /\ reading' \in {"bytes", "packets"} /\ Len(d) < st
            /\ e = Append(d, Sent[Len(d) + 1])
         \/ /\ reading' \notin {"bytes", "packets"} /\ e = d
            /\ Len(d) = st \/ (broken /\ d = <<>>)
  PROVE  [Delivery!TransferNext]_(Delivery!transferVars)
<1>1. /\ package' = package /\ written' = written /\ broken' = broken
      /\ writing = "done" /\ writing' = "done"
  BY DEF Read, inputs, Reader!ReaderNext, Reader!InitWithBytes, Reader!Stop,
         Reader!Yield, Reader!PassOver
<1>2. Sent' = Sent
  BY <1>1 DEF Sent
<1>3. \A k : EndOf(k)' = EndOf(k)
  BY <1>1 DEF EndOf, Writer!EndOfHeader
<1>4. /\ Cardinality({k \in DOMAIN Sent : EndOf(k) <= Len(written)}) = st
      /\ (Cardinality({k \in DOMAIN Sent : EndOf(k) <= Len(written)}))' = st
      /\ (SubSeq(received, 1, Smaller(Len(received), Len(Sent))))' = e
  BY <1>1, <1>2, <1>3 DEF StoredIn, Smaller
<1>5. (writing' = "done") = (writing = "done")
  BY <1>1
<1>6. ASSUME reading' \in {"bytes", "packets"}
      PROVE  (reading' \notin {"bytes", "packets"})
               = (reading \notin {"bytes", "packets"})
  BY <1>6
<1>7. ASSUME reading' \in {"bytes", "packets"}, e = d
      PROVE  UNCHANGED Delivery!transferVars
  BY <1>1, <1>2, <1>4, <1>5, <1>6, <1>7 DEF Delivery!transferVars
<1>8. ASSUME reading' \in {"bytes", "packets"}, Len(d) < st,
             e = Append(d, Sent[Len(d) + 1])
      PROVE  Delivery!Deliver
  BY <1>1, <1>2, <1>4, <1>5, <1>6, <1>8 DEF Delivery!Deliver
<1>9. ASSUME reading' \notin {"bytes", "packets"}, e = d,
             Len(d) = st \/ (broken /\ d = <<>>)
      PROVE  Delivery!TellEnd
  <2>1. (reading' \notin {"bytes", "packets"}) = TRUE
    BY <1>9
  <2>2. QED
    BY <1>1, <1>2, <1>4, <1>5, <1>9, <2>1 DEF Delivery!TellEnd
<1>10. QED
  BY <1>7, <1>8, <1>9 DEF Delivery!TransferNext

(* What the reader has of the package: the packets it has yielded, and the *)
(* words behind them, or all of what has been sent.                        *)
AtPacket ==
  LET k == Len(received)
  IN /\ \A i \in 1 .. k : received[i] = package[i]
     /\ previous = IF k = 0 THEN {} ELSE {package[k]}
     /\ Remains(package, k, words)
     /\ Len(written) = Writer!EndOfHeader
          + 4 * (Len(Header) + (WordsBefore(package, k) + Len(words)))

PastAll ==
  /\ \A i \in 1 .. Len(Sent) : received[i] = package[i]
  /\ StoredIn(Len(written)) = Len(Sent)

ReadSoFar ==
  /\ reading = "bytes" => received = <<>> /\ previous = {}
  /\ writing # "done" => reading = "bytes"
  /\ reading = "packets" =>
       IF Len(received) < Len(Sent) THEN AtPacket ELSE PastAll

LEMMA FirstOf ==
  ASSUME NEW T, NEW U, NEW s \in Seq(T), NEW t \in Seq(U), NEW j \in Nat,
         j <= Len(s), j <= Len(t), \A i \in 1 .. j : s[i] = t[i]
  PROVE  SubSeq(s, 1, j) = SubSeq(t, 1, j) /\ Len(SubSeq(t, 1, j)) = j
<1>1. PICK zero, first, second :
        /\ zero = 0 /\ first = SubSeq(s, 1, j) /\ second = SubSeq(t, 1, j)
  OBVIOUS
<1>2. PICK S : S = T \cup U
  OBVIOUS
<1>3. s \in Seq(S) /\ t \in Seq(S)
  BY <1>2, SeqMonotonic
<1>4. Len(s) \in Nat /\ Len(t) \in Nat
  BY LenProperties
<1>5. /\ zero \in 0 .. Len(s) /\ j \in 0 .. Len(s) /\ zero <= j
      /\ zero \in 0 .. Len(t) /\ j \in 0 .. Len(t)
      /\ zero + 1 = 1 /\ j - zero = j /\ \A i \in 1 .. j : zero + i = i
  BY <1>1, <1>4
<1>6. /\ first \in Seq(S) /\ Len(first) = j
      /\ \A i \in 1 .. j : first[i] = s[i]
  <2>1. /\ SubSeq(s, zero + 1, j) \in Seq(S)
        /\ Len(SubSeq(s, zero + 1, j)) = j - zero
        /\ \A i \in 1 .. j - zero : SubSeq(s, zero + 1, j)[i] = s[zero + i]
    BY <1>3, <1>5, SubSeqAt
  <2>2. QED
    BY <1>1, <1>5, <2>1
<1>7. /\ second \in Seq(S) /\ Len(second) = j
      /\ \A i \in 1 .. j : second[i] = t[i]
  <2>1. /\ SubSeq(t, zero + 1, j) \in Seq(S)
        /\ Len(SubSeq(t, zero + 1, j)) = j - zero
        /\ \A i \in 1 .. j - zero : SubSeq(t, zero + 1, j)[i] = t[zero + i]
    BY <1>3, <1>5, SubSeqAt
  <2>2. QED
    BY <1>1, <1>5, <2>1
<1>8. first = second
  BY <1>6, <1>7, SeqEqual
<1>9. QED
  BY <1>1, <1>7, <1>8

LEMMA ReadTypes ==
  ASSUME IInv
  PROVE  /\ package \in Seq(AnyPacket) /\ Sent \in Seq(AnyPacket)
         /\ Len(Sent) \in Nat /\ Len(package) \in Nat
         /\ Len(Sent) <= Len(package)
         /\ \A i \in 1 .. Len(Sent) : Sent[i] = package[i] /\ Sound(package, i)
         /\ received \in Seq(Elements(received)) /\ Len(received) \in Nat
<1>1. package \in Seq(AnyPacket)
  BY PackagesAssumption DEF IInv
<1>2. /\ Len(package) \in Nat /\ Len(Sent) \in 0 .. Len(package)
      /\ Sent \in Seq(AnyPacket)
      /\ \A i \in 1 .. Len(Sent) : Sent[i] = package[i] /\ Sound(package, i)
  BY <1>1, SentIsSound DEF Sent
<1>3. received \in Seq(Elements(received))
  BY DEF IInv
<1>4. QED
  BY <1>1, <1>2, <1>3, LenProperties

LEMMA ReadSame ==
  ASSUME Read
  PROVE  /\ package' = package /\ written' = written /\ broken' = broken
         /\ writing = "done" /\ writing' = "done" /\ Sent' = Sent
         /\ StoredIn(Len(written))' = StoredIn(Len(written))
<1>1. /\ package' = package /\ written' = written /\ broken' = broken
      /\ writing = "done" /\ writing' = "done"
  BY DEF Read, inputs, Reader!ReaderNext, Reader!InitWithBytes, Reader!Stop,
         Reader!Yield, Reader!PassOver
<1>2. Sent' = Sent
  BY <1>1 DEF Sent
<1>3. \A k : EndOf(k)' = EndOf(k)
  BY <1>1 DEF EndOf, Writer!EndOfHeader
<1>4. QED
  BY <1>1, <1>2, <1>3 DEF StoredIn

LEMMA Multiples ==
  /\ \A m \in Nat : (4 * m) % 4 = 0
  /\ \A m \in Nat : m % 4 = 0 => \E n \in Nat : m = 4 * n
<1>1. ASSUME NEW m \in Nat, m % 4 = 0 PROVE \E n \in Nat : m = 4 * n
  <2>1. m \div 4 \in Nat /\ m = 4 * (m \div 4)
    BY <1>1
  <2>2. QED
    BY <2>1
<1>2. QED
  BY <1>1

LEMMA NothingBefore ==
  ASSUME NEW packets \in Seq(AnyPacket)
  PROVE  WordsBefore(packets, 0) = 0
<1>1. SubSeq(packets, 1, 0) = <<>>
  BY SubSeqEmpty
<1>2. WordsOf(SubSeq(packets, 1, 0)) = <<>> /\ Len(<<>>) = 0
  BY <1>1, NoWords, EmptySeq
<1>3. QED
  BY <1>2 DEF WordsBefore

LEMMA BytesRead ==
  ASSUME IInv, Whole, Cut, ReadSoFar, Read, reading = "bytes"
  PROVE  ReadSoFar' /\ [Delivery!TransferNext]_(Delivery!transferVars)
<1>1. Reader!InitWithBytes
  BY DEF Read, Reader!ReaderNext, Reader!Stop, Reader!Yield, Reader!PassOver
<1>2. /\ received = <<>> /\ previous = {}
      /\ received' = received /\ previous' = previous
  BY <1>1 DEF ReadSoFar, Reader!InitWithBytes
<1>3. /\ package' = package /\ written' = written /\ broken' = broken
      /\ writing = "done" /\ writing' = "done" /\ Sent' = Sent
      /\ StoredIn(Len(written))' = StoredIn(Len(written))
  BY ReadSame
<1>4. PICK start, header, all, rest, length, before :
        /\ start = Writer!EndOfHeader /\ header = Len(Header)
        /\ all = Len(All) /\ rest = Len(WordsOf(package))
        /\ length = Len(written) /\ before = start + 4 * header
  OBVIOUS
<1>5. /\ start \in Nat /\ header \in Nat /\ rest \in Nat
      /\ before \in Nat /\ all = header + rest
  BY <1>4, LengthOfImage
<1>6. PICK number \in Nat : Begins(written, File(number, Bytes(All)))
  BY <1>3, DoneBegins
<1>7. /\ length \in Nat /\ length <= start + 4 * all
      /\ length < start + 4 * all => broken
  BY <1>3, <1>4, DoneBegins
<1>8. PICK d : d = SubSeq(received, 1, Smaller(Len(received), Len(Sent)))
  OBVIOUS
<1>9. d = SubSeq(received', 1, Smaller(Len(received'), Len(Sent)))
  BY <1>2, <1>8
<1>10. d = <<>> /\ Len(received) = 0 /\ Len(Sent) \in Nat
  <2>1. Len(Sent) \in Nat
    BY ReadTypes
  <2>2. Len(received) = 0
    BY <1>2
  <2>3. Smaller(Len(received), Len(Sent)) = 0
    BY <2>1, <2>2 DEF Smaller
  <2>4. QED
    BY <1>2, <1>8, <2>1, <2>2, <2>3
<1>11. PICK positions, bytes :
         /\ positions = Reader!SyncPositions(written)
         /\ bytes = SubSeq(written, Reader!AfterSync(positions), length)
  OBVIOUS
<1>12. \/ positions = {} /\ reading' = "no sync"
       \/ positions # {} /\ Len(bytes) % 4 # 0 /\ reading' = "thrown"
       \/ /\ positions # {} /\ Len(bytes) % 4 = 0
          /\ reading' = "packets" /\ words' = Reader!BigEndianWords(bytes)
  BY <1>1, <1>4, <1>11, SameParsing DEF Reader!InitWithBytes
<1>13. ASSUME broken, reading' \in {"no sync", "thrown"}
       PROVE  ReadSoFar' /\ [Delivery!TransferNext]_(Delivery!transferVars)
  <2>1. ReadSoFar'
    BY <1>3, <1>13 DEF ReadSoFar
  <2>2. reading' \notin {"bytes", "packets"} /\ d = <<>> /\ broken
    BY <1>10, <1>13
  <2>3. QED
    BY <1>8, <1>9, <2>1, <2>2, ReaderMoves
<1>14. ASSUME length < before
       PROVE  positions = {} /\ broken
  <2>1. positions = {}
    BY <1>4, <1>6, <1>11, <1>14, SyncFound
  <2>2. length < start + 4 * all
    BY <1>4, <1>5, <1>7, <1>14
  <2>3. QED
    BY <1>7, <2>1, <2>2
<1>15. ASSUME ~ length < before
       PROVE  /\ positions # {} /\ bytes = SubSeq(written, before + 1, length)
              /\ Len(bytes) = length - before /\ before <= length
  <2>1. before <= length
    BY <1>5, <1>7, <1>15
  <2>2. positions # {} /\ Reader!AfterSync(positions) = before + 1
    BY <1>4, <1>6, <1>11, <2>1, SyncFound
  <2>3. written \in Seq(Byte)
    BY <1>6 DEF Begins
  <2>4. before \in 0 .. Len(written) /\ length \in 0 .. Len(written)
    BY <1>4, <1>5, <1>7, <2>1
  <2>5. Len(SubSeq(written, before + 1, length)) = length - before
    BY <2>1, <2>3, <2>4, SubSeqAt
  <2>6. QED
    BY <1>11, <2>1, <2>2, <2>5
<1>16. CASE positions = {}
  <2>1. length < before
    BY <1>15, <1>16
  <2>2. QED
    BY <1>12, <1>13, <1>14, <1>16, <2>1
<1>17. CASE positions # {} /\ Len(bytes) % 4 # 0
  <2>1. ~ length < before
    BY <1>14, <1>17
  <2>2. Len(bytes) = length - before
    BY <1>15, <2>1
  <2>3. length # start + 4 * all
    <3>1. ASSUME length = start + 4 * all PROVE FALSE
      <4>1. length - before = 4 * rest
        BY <1>4, <1>5, <3>1
      <4>2. (4 * rest) % 4 = 0
        BY <1>5, Multiples
      <4>3. QED
        BY <1>17, <2>2, <4>1, <4>2
    <3>2. QED
      BY <3>1
  <2>4. length < start + 4 * all
    BY <1>4, <1>5, <1>7, <2>3
  <2>5. QED
    BY <1>7, <1>12, <1>13, <1>17, <2>4
<1>18. CASE positions # {} /\ Len(bytes) % 4 = 0
  <2>1. ~ length < before
    BY <1>14, <1>18
  <2>2. /\ bytes = SubSeq(written, before + 1, length)
        /\ Len(bytes) = length - before /\ before <= length
    BY <1>15, <2>1
  <2>3. PICK n \in Nat : Len(bytes) = 4 * n
    <3>1. Len(bytes) \in Nat
      BY <1>5, <1>7, <2>2
    <3>2. QED
      BY <1>18, <3>1, Multiples
  <2>4. PICK found : found = Reader!BigEndianWords(bytes)
    OBVIOUS
  <2>5. /\ found \in Seq(StreamWord) /\ Len(found) \in Nat
        /\ Len(written) = before + 4 * Len(found)
        /\ Len(found) <= Len(WordsOf(package))
        /\ \A q \in 1 .. Len(found) : found[q] = WordsOf(package)[q]
    <3>2. Behind(written, before, bytes)
      BY <1>4, <2>2 DEF Behind
    <3>3. LET f == Reader!BigEndianWords(bytes)
          IN /\ f \in Seq(StreamWord) /\ Len(f) \in Nat
             /\ Len(written) = before + 4 * Len(f)
             /\ Len(f) <= Len(WordsOf(package))
             /\ \A q \in 1 .. Len(f) : f[q] = WordsOf(package)[q]
      BY <1>6, <2>3, <3>2, WordsFound
    <3>4. QED
      BY <2>4, <3>3
  <2>6. reading' = "packets" /\ words' = found
    BY <1>12, <1>18, <2>4
  <2>7. package \in Seq(AnyPacket)
    BY ReadTypes
  <2>8. WordsBefore(package, 0) = 0
    BY <2>7, NothingBefore
  <2>9. Remains(package, 0, found)
    <3>1. 0 + Len(found) <= Len(WordsOf(package))
      BY <2>5
    <3>2. \A q \in 1 .. Len(found) : 0 + q = q
      BY <2>5
    <3>3. QED
      BY <2>5, <2>8, <3>1, <3>2 DEF Remains
  <2>10. Len(written) = start + 4 * (header + (WordsBefore(package, 0) + Len(found)))
    <3>1. WordsBefore(package, 0) + Len(found) = Len(found)
      BY <2>5, <2>8
    <3>2. PICK m : m = Len(found)
      OBVIOUS
    <3>3. m \in Nat /\ Len(written) = before + 4 * m
      BY <2>5, <3>2
    <3>4. before + 4 * m = start + 4 * (header + m)
      BY <1>4, <1>5, <3>3
    <3>5. QED
      BY <3>1, <3>2, <3>3, <3>4
  <2>11. AtPacket'
    <3>1. Len(received') = 0 /\ previous' = {}
      BY <1>2, <1>10
    <3>2. Remains(package, 0, found)'
      BY <1>3, <2>6, <2>9
    <3>3. (Len(written) = Writer!EndOfHeader
             + 4 * (Len(Header) + (WordsBefore(package, 0) + Len(words))))'
      BY <1>3, <1>4, <2>6, <2>10 DEF Writer!EndOfHeader
    <3>4. \A i \in 1 .. 0 : FALSE
      OBVIOUS
    <3>5. QED
      BY <1>3, <2>6, <2>9, <3>1, <3>3, <3>4 DEF AtPacket
  <2>12. ASSUME Len(Sent) = 0 PROVE PastAll'
    <3>1. StoredIn(length) \in 0 .. Len(Sent)
      BY <1>7, StoredUpTo
    <3>2. StoredIn(Len(written))' = Len(Sent)'
      BY <1>3, <1>4, <2>12, <3>1
    <3>3. \A i \in 1 .. 0 : FALSE
      OBVIOUS
    <3>4. QED
      BY <1>3, <2>12, <3>2, <3>3 DEF PastAll
  <2>13. ReadSoFar'
    <3>1. ~ Len(received') < Len(Sent') => Len(Sent) = 0
      BY <1>2, <1>3, <1>10
    <3>2. QED
      BY <1>3, <2>6, <2>11, <2>12, <3>1 DEF ReadSoFar
  <2>14. QED
    BY <1>8, <1>9, <2>6, <2>13, ReaderMoves
<1>19. QED
  BY <1>16, <1>17, <1>18

(* The step of the iterator when packets that have been sent are to come.  *)
LEMMA PacketRead ==
  ASSUME IInv, ReadSoFar, Read, reading = "packets",
         Len(received) < Len(Sent)
  PROVE  ReadSoFar' /\ [Delivery!TransferNext]_(Delivery!transferVars)
<1>1. Reader!Stop \/ Reader!Yield \/ Reader!PassOver
  BY DEF Read, Reader!ReaderNext, Reader!InitWithBytes
<1>2. /\ package' = package /\ written' = written /\ broken' = broken
      /\ writing = "done" /\ writing' = "done" /\ Sent' = Sent
      /\ StoredIn(Len(written))' = StoredIn(Len(written))
  BY ReadSame
<1>3. PICK k, i, n, st, p :
        /\ k = Len(received) /\ i = k + 1 /\ n = Len(Sent)
        /\ st = StoredIn(Len(written)) /\ p = package[i]
  OBVIOUS
<1>4. /\ package \in Seq(AnyPacket) /\ Sent \in Seq(AnyPacket)
      /\ n \in Nat /\ Len(package) \in Nat /\ n <= Len(package)
      /\ \A q \in 1 .. n : Sent[q] = package[q] /\ Sound(package, q)
      /\ received \in Seq(Elements(received)) /\ k \in Nat
  BY <1>3, ReadTypes
<1>5. /\ k < n /\ i \in 1 .. n /\ i \in 1 .. Len(package) /\ i - 1 = k
      /\ (i = 1) = (k = 0) /\ Sound(package, i) /\ p = Sent[i]
  BY <1>3, <1>4
<1>6. AtPacket
  BY DEF ReadSoFar
<1>7. /\ \A q \in 1 .. k : received[q] = package[q]
      /\ previous = IF k = 0 THEN {} ELSE {package[k]}
      /\ Remains(package, k, words)
      /\ Len(written) = Writer!EndOfHeader
           + 4 * (Len(Header) + (WordsBefore(package, k) + Len(words)))
  BY <1>3, <1>6 DEF AtPacket
<1>8. PICK start, header, length, first, next, left, size, rest :
        /\ start = Writer!EndOfHeader /\ header = Len(Header)
        /\ length = Len(written)
        /\ first = WordsBefore(package, k) /\ next = WordsBefore(package, i)
        /\ left = Len(words) /\ size = next - first
        /\ rest = SubSeq(words, size + 1, left)
  OBVIOUS
<1>9. /\ size \in Nat \ {0} /\ left \in Nat /\ first \in Nat
      /\ size <= left =>
           /\ InitWithWords(words, previous) = Result(rest, {p})
           /\ Remains(package, i, rest) /\ Len(rest) = left - size
      /\ size > left => InitWithWords(words, previous) = Result(words, {})
  <2>1. Remains(package, i - 1, words)
    BY <1>5, <1>7
  <2>2. previous = IF i = 1 THEN {} ELSE {package[i - 1]}
    BY <1>5, <1>7
  <2>3. LET before == IF i = 1 THEN {} ELSE {package[i - 1]}
            parsed == InitWithWords(words, before)
            number == WordsBefore(package, i) - WordsBefore(package, i - 1)
            others == SubSeq(words, number + 1, Len(words))
        IN /\ number \in Nat \ {0} /\ Len(words) \in Nat
           /\ WordsBefore(package, i - 1) \in Nat
           /\ number <= Len(words) =>
                /\ parsed = Result(others, {package[i]})
                /\ Remains(package, i, others)
                /\ Len(others) = Len(words) - number
           /\ number > Len(words) => parsed = Result(words, {})
    BY <1>4, <1>5, <2>1, ParsesNext
  <2>4. WordsBefore(package, i - 1) = first
    BY <1>5, <1>8
  <2>5. QED
    BY <1>3, <1>8, <2>2, <2>3, <2>4
<1>10. Reader!Parsed = InitWithWords(words, previous)
  BY SameParsing DEF Reader!Parsed
<1>11. /\ start \in Nat /\ header \in Nat
       /\ EndOf(i) = start + 4 * (header + next)
       /\ length = start + 4 * (header + (first + left)) /\ length \in Nat
  <2>1. /\ start \in Nat /\ header \in Nat
        /\ EndOf(i) = start + 4 * (header + next)
    BY <1>5, <1>8, EndsInOrder
  <2>2. length = start + 4 * (header + (first + left))
    BY <1>7, <1>8
  <2>3. QED
    BY <1>9, <2>1, <2>2
<1>a. next \in Nat /\ next = first + size
  <2>1. next \in Nat
    BY <1>5, <1>8, EndsInOrder
  <2>2. QED
    BY <1>8, <1>9, <2>1
<1>b. \A s, h, f, z, l \in Nat :
        z > l => ~ s + 4 * (h + (f + z)) <= s + 4 * (h + (f + l))
  OBVIOUS
<1>c. \A s, h, f, z, l \in Nat :
        z <= l => /\ s + 4 * (h + (f + z)) <= s + 4 * (h + (f + l))
                  /\ s + 4 * (h + (f + l)) = s + 4 * (h + ((f + z) + (l - z)))
  OBVIOUS
<1>12. /\ st \in 0 .. n
       /\ \A q \in 1 .. n : EndOf(q) <= length <=> q <= st
  BY <1>3, <1>8, <1>11, StoredUpTo
<1>13. k <= st
  <2>1. CASE k = 0
    BY <1>12, <2>1
  <2>2. CASE k # 0
    <3>1. k \in 1 .. n /\ k \in 1 .. Len(package)
      BY <1>4, <1>5, <2>2
    <3>2. EndOf(k) = start + 4 * (header + first)
      BY <1>8, <3>1, EndsInOrder
    <3>3. EndOf(k) <= length
      BY <1>9, <1>11, <3>2
    <3>4. QED
      BY <1>12, <3>1, <3>3
  <2>3. QED
    BY <2>1, <2>2
<1>14. PICK d : d = SubSeq(received, 1, Smaller(Len(received), Len(Sent)))
  OBVIOUS
<1>15. d = SubSeq(Sent, 1, k) /\ Len(d) = k
  <2>1. Smaller(Len(received), Len(Sent)) = k
    BY <1>3, <1>5 DEF Smaller
  <2>2. k <= Len(received) /\ k <= Len(Sent)
    BY <1>3, <1>4, <1>5
  <2>3. \A q \in 1 .. k : received[q] = Sent[q]
    BY <1>4, <1>5, <1>7
  <2>4. SubSeq(received, 1, k) = SubSeq(Sent, 1, k) /\ Len(SubSeq(Sent, 1, k)) = k
    <3>1. k \in Nat /\ received \in Seq(Elements(received))
      BY <1>4
    <3>2. Sent \in Seq(AnyPacket)
      BY <1>4
    <3>3. QED
      BY <2>2, <2>3, <3>1, <3>2, FirstOf
  <2>5. QED
    BY <1>14, <2>1, <2>4
<1>16. CASE size > left
  <2>1. Reader!Parsed = Result(words, {})
    BY <1>9, <1>10, <1>16
  <2>2. Reader!Parsed.left = words
    BY <2>1 DEF Result
  <2>3. reading' = "end" /\ received' = received
    BY <1>1, <2>2 DEF Reader!Stop, Reader!Yield, Reader!PassOver
  <2>4. st = k
    <3>1. ~ EndOf(i) <= length
      BY <1>9, <1>11, <1>16, <1>a, <1>b
    <3>2. ~ i <= st
      BY <1>5, <1>12, <3>1
    <3>3. QED
      BY <1>3, <1>4, <1>12, <1>13, <3>2
  <2>5. ReadSoFar'
    BY <1>2, <2>3 DEF ReadSoFar
  <2>6. d = SubSeq(received', 1, Smaller(Len(received'), Len(Sent)))
    BY <1>14, <2>3
  <2>7. reading' \notin {"bytes", "packets"} /\ Len(d) = st
    BY <1>15, <2>3, <2>4
  <2>8. QED
    BY <1>3, <1>14, <2>5, <2>6, <2>7, ReaderMoves
<1>17. CASE size <= left
  <2>1. Reader!Parsed = Result(rest, {p})
    BY <1>9, <1>10, <1>17
  <2>2. Reader!Parsed.left = rest /\ Reader!Parsed.packet = {p}
    BY <2>1 DEF Result
  <2>3. Remains(package, i, rest) /\ Len(rest) = left - size
    BY <1>9, <1>17
  <2>4. rest # words
    <3>1. Len(rest) # left
      BY <1>9, <2>3
    <3>2. QED
      BY <1>8, <3>1
  <2>5. /\ reading' = "packets" /\ received' = Append(received, p)
        /\ words' = rest /\ previous' = {p}
    BY <1>1, <2>2, <2>4 DEF Reader!Stop, Reader!Yield, Reader!PassOver
  <2>6. /\ Len(received') = i
        /\ \A q \in 1 .. i : received'[q] = package[q]
    <3>1. PICK T : T = Elements(received) \cup {p}
      OBVIOUS
    <3>2. received \in Seq(T)
      BY <1>4, <3>1, SeqMonotonic
    <3>3. PICK more : more = Append(received, p)
      OBVIOUS
    <3>4. /\ Len(more) = k + 1 /\ more[k + 1] = p
          /\ \A q \in 1 .. k : more[q] = received[q]
      BY <1>3, <3>1, <3>2, <3>3, AppendProperties
    <3>5. \A q \in 1 .. i : q \in 1 .. k \/ q = k + 1
      BY <1>3, <1>4
    <3>6. QED
      BY <1>3, <1>7, <2>5, <3>3, <3>4, <3>5
  <2>7. PICK e : e = SubSeq(received', 1, Smaller(Len(received'), Len(Sent)))
    OBVIOUS
  <2>8. e = SubSeq(Sent, 1, i)
    <3>1. Smaller(Len(received'), Len(Sent)) = i
      BY <1>3, <1>4, <1>5, <2>6 DEF Smaller
    <3>2. i \in Nat /\ i <= Len(received') /\ i <= Len(Sent)
      BY <1>3, <1>4, <1>5, <2>6
    <3>3. \A q \in 1 .. i : received'[q] = Sent[q]
      BY <1>4, <1>5, <2>6
    <3>4. received' \in Seq(Elements(received'))
      <4>1. IInv'
        BY ReaderStep
      <4>2. QED
        BY <4>1 DEF IInv
    <3>5. Sent \in Seq(AnyPacket)
      BY <1>4
    <3>6. SubSeq(received', 1, i) = SubSeq(Sent, 1, i)
      BY <3>2, <3>3, <3>4, <3>5, FirstOf
    <3>7. QED
      BY <2>7, <3>1, <3>6
  <2>9. e = Append(d, Sent[Len(d) + 1])
    <3>1. k \in 0 .. Len(Sent) - 1 /\ Sent \in Seq(AnyPacket)
      BY <1>3, <1>4, <1>5
    <3>2. SubSeq(Sent, 1, k + 1) = Append(SubSeq(Sent, 1, k), Sent[k + 1])
      BY <3>1, OneMore
    <3>3. QED
      BY <1>3, <1>15, <2>8, <3>2
  <2>10. i <= st
    <3>1. EndOf(i) <= length
      BY <1>9, <1>11, <1>17, <1>a, <1>c
    <3>2. QED
      BY <1>5, <1>12, <3>1
  <2>11. reading' \in {"bytes", "packets"} /\ Len(d) < st
    BY <1>3, <1>4, <1>12, <1>15, <2>5, <2>10
  <2>12. ASSUME i < n PROVE AtPacket'
    <3>1. length = start + 4 * (header + (next + Len(rest)))
      BY <1>9, <1>11, <1>17, <1>a, <1>c, <2>3
    <3>2. (Len(written) = Writer!EndOfHeader
             + 4 * (Len(Header) + (WordsBefore(package, i) + Len(words))))'
      BY <1>2, <1>8, <2>5, <3>1 DEF Writer!EndOfHeader
    <3>3. i # 0
      BY <1>5
    <3>4. QED
      BY <1>2, <1>3, <2>3, <2>5, <2>6, <3>2, <3>3 DEF AtPacket
  <2>13. ASSUME ~ i < n PROVE PastAll'
    <3>1. i = n /\ st = n
      BY <1>4, <1>5, <1>12, <2>10, <2>13
    <3>2. QED
      BY <1>2, <1>3, <2>6, <3>1 DEF PastAll
  <2>14. ReadSoFar'
    BY <1>2, <1>3, <2>5, <2>6, <2>12, <2>13 DEF ReadSoFar
  <2>15. QED
    BY <1>3, <1>14, <2>7, <2>9, <2>11, <2>14, ReaderMoves
<1>18. size > left \/ size <= left
  BY <1>9
<1>19. QED
  BY <1>16, <1>17, <1>18

(* When all that has been sent has been delivered, a package may go on,    *)
(* and the iterator with it, behind the first packet that is not sound.    *)
LEMMA BehindRead ==
  ASSUME IInv, ReadSoFar, Read, reading = "packets",
         ~ Len(received) < Len(Sent)
  PROVE  ReadSoFar' /\ [Delivery!TransferNext]_(Delivery!transferVars)
<1>1. Reader!Stop \/ Reader!Yield \/ Reader!PassOver
  BY DEF Read, Reader!ReaderNext, Reader!InitWithBytes
<1>2. /\ package' = package /\ written' = written /\ broken' = broken
      /\ writing = "done" /\ writing' = "done" /\ Sent' = Sent
      /\ StoredIn(Len(written))' = StoredIn(Len(written))
  BY ReadSame
<1>3. PICK k, n, st, d, e :
        /\ k = Len(received) /\ n = Len(Sent) /\ st = StoredIn(Len(written))
        /\ d = SubSeq(received, 1, Smaller(Len(received), Len(Sent)))
        /\ e = SubSeq(received', 1, Smaller(Len(received'), Len(Sent)))
  OBVIOUS
<1>4. /\ Sent \in Seq(AnyPacket) /\ n \in Nat /\ k \in Nat /\ n <= k
      /\ \A q \in 1 .. n : Sent[q] = package[q]
      /\ received \in Seq(Elements(received))
  BY <1>3, ReadTypes
<1>5. st = n /\ \A q \in 1 .. n : received[q] = package[q]
  BY <1>3 DEF ReadSoFar, PastAll
<1>6. /\ received' \in Seq(Elements(received')) /\ Len(received') \in Nat
      /\ n <= Len(received') /\ \A q \in 1 .. n : received'[q] = package[q]
  <2>1. received' \in Seq(Elements(received')) /\ Len(received') \in Nat
    <3>1. IInv'
      BY ReaderStep
    <3>2. received' \in Seq(Elements(received'))
      BY <3>1 DEF IInv
    <3>3. QED
      BY <3>2, LenProperties
  <2>2. CASE received' = received
    BY <1>3, <1>4, <1>5, <2>1, <2>2
  <2>3. ASSUME NEW p, received' = Append(received, p)
        PROVE  /\ n <= Len(received')
               /\ \A q \in 1 .. n : received'[q] = package[q]
    <3>1. PICK T : T = Elements(received) \cup {p}
      OBVIOUS
    <3>2. received \in Seq(T)
      BY <1>4, <3>1, SeqMonotonic
    <3>3. PICK more : more = Append(received, p)
      OBVIOUS
    <3>4. /\ Len(more) = k + 1
          /\ \A q \in 1 .. k : more[q] = received[q]
      BY <1>3, <3>1, <3>2, <3>3, AppendProperties
    <3>5. \A q \in 1 .. n : q \in 1 .. k
      BY <1>4
    <3>6. n <= k + 1
      BY <1>4
    <3>7. QED
      BY <1>5, <2>3, <3>3, <3>4, <3>5, <3>6
  <2>4. received' = received \/ \E p : received' = Append(received, p)
    BY <1>1 DEF Reader!Stop, Reader!Yield, Reader!PassOver
  <2>5. QED
    BY <2>1, <2>2, <2>3, <2>4
<1>7. d = SubSeq(Sent, 1, n) /\ Len(d) = n
  <2>1. Smaller(Len(received), Len(Sent)) = n
    BY <1>3, <1>4 DEF Smaller
  <2>2. n \in Nat /\ n <= Len(received) /\ n <= Len(Sent)
    BY <1>3, <1>4
  <2>3. \A q \in 1 .. n : received[q] = Sent[q]
    BY <1>4, <1>5
  <2>4. received \in Seq(Elements(received))
    BY <1>4
  <2>5. Sent \in Seq(AnyPacket)
    BY <1>4
  <2>6. SubSeq(received, 1, n) = SubSeq(Sent, 1, n) /\ Len(SubSeq(Sent, 1, n)) = n
    BY <2>2, <2>3, <2>4, <2>5, FirstOf
  <2>7. QED
    BY <1>3, <2>1, <2>6
<1>8. e = SubSeq(Sent, 1, n)
  <2>1. Smaller(Len(received'), Len(Sent)) = n
    BY <1>3, <1>4, <1>6 DEF Smaller
  <2>2. n \in Nat /\ n <= Len(received') /\ n <= Len(Sent)
    BY <1>3, <1>4, <1>6
  <2>3. \A q \in 1 .. n : received'[q] = Sent[q]
    BY <1>4, <1>6
  <2>4. received' \in Seq(Elements(received'))
    BY <1>6
  <2>5. Sent \in Seq(AnyPacket)
    BY <1>4
  <2>6. SubSeq(received', 1, n) = SubSeq(Sent, 1, n)
    BY <2>2, <2>3, <2>4, <2>5, FirstOf
  <2>7. QED
    BY <1>3, <2>1, <2>6
<1>9. ReadSoFar'
  <2>1. PastAll'
    BY <1>2, <1>3, <1>5, <1>6 DEF PastAll
  <2>2. ~ Len(received') < Len(Sent')
    BY <1>2, <1>3, <1>4, <1>6
  <2>3. reading' # "bytes"
    BY <1>1 DEF Reader!Stop, Reader!Yield, Reader!PassOver
  <2>4. QED
    BY <1>2, <2>1, <2>2, <2>3 DEF ReadSoFar
<1>10. CASE reading' \in {"bytes", "packets"}
  BY <1>3, <1>7, <1>8, <1>9, <1>10, ReaderMoves
<1>11. CASE reading' \notin {"bytes", "packets"}
  BY <1>3, <1>5, <1>7, <1>8, <1>9, <1>11, ReaderMoves
<1>12. QED
  BY <1>10, <1>11

LEMMA ReaderDelivers ==
  ASSUME IInv, Whole, Cut, ReadSoFar, Read
  PROVE  ReadSoFar' /\ [Delivery!TransferNext]_(Delivery!transferVars)
<1>1. reading \in {"bytes", "packets"}
  BY DEF Read, Reader!ReaderNext, Reader!InitWithBytes, Reader!Stop,
         Reader!Yield, Reader!PassOver
<1>2. QED
  BY <1>1, BytesRead, PacketRead, BehindRead

LEMMA WriterKeeps ==
  ASSUME ReadSoFar, Write
  PROVE  ReadSoFar'
<1>1. writing # "done"
  BY DEF Write, Writer!WriterNext, Writer!WriteBitHeader,
         Writer!WriteHeaderWord, Writer!WritePacketWord, Writer!EndOfWords,
         Writer!WriteLength
<1>2. reading' = reading /\ received' = received /\ previous' = previous
  BY DEF Write, readerVars
<1>3. QED
  BY <1>1, <1>2 DEF ReadSoFar

LEMMA NothingDelivered ==
  ASSUME Init
  PROVE  Delivery!TransferInit /\ Cut /\ ReadSoFar
<1>1. /\ written = <<>> /\ broken = FALSE /\ writing = "header"
      /\ reading = "bytes" /\ received = <<>> /\ previous = {}
  BY DEF Init, Writer!WriterInit, Reader!ReaderInit
<1>2. IInv
  BY InitInvariant
<1>3. Len(written) = 0 /\ Len(received) = 0
  BY <1>1
<1>4. StoredIn(Len(written)) = 0
  <2>1. 0 \in 0 .. Writer!EndOfHeader
    BY <1>2, LengthOfImage
  <2>2. QED
    BY <1>2, <1>3, <2>1, NoneStored
<1>5. SubSeq(received, 1, Smaller(Len(received), Len(Sent))) = <<>>
  <2>1. Len(Sent) \in Nat
    BY <1>2, ReadTypes
  <2>2. Smaller(Len(received), Len(Sent)) = 0
    BY <1>3, <2>1 DEF Smaller
  <2>3. QED
    BY <1>1, <2>2
<1>6. (writing = "done") = FALSE /\ (reading \notin {"bytes", "packets"}) = FALSE
  BY <1>1
<1>7. Delivery!TransferInit
  BY <1>1, <1>4, <1>5, <1>6 DEF Delivery!TransferInit, StoredIn
<1>8. QED
  BY <1>1, <1>7 DEF Cut, ReadSoFar

(* Writing and reading implement the transfer of what is sound of the      *)
(* package, step by step, wherever the file is cut: packets are stored one *)
(* after another, and are delivered as they were, in their order, until    *)
(* the reader has got all that are stored; it gets none of them instead    *)
(* only when the stream has broken.                                        *)
THEOREM DeliversSafely ==
  Spec => Delivery!TransferInit
            /\ [][Delivery!TransferNext]_(Delivery!transferVars)
<1>1. Init => IInv /\ Whole /\ Cut /\ ReadSoFar /\ Delivery!TransferInit
  <2>1. Init => Whole
    BY DEF Init, Writer!WriterInit, Whole
  <2>2. QED
    BY <2>1, InitInvariant, NothingDelivered
<1>2. ASSUME IInv, Whole, Cut, ReadSoFar, [Next]_vars
      PROVE  /\ IInv' /\ Whole' /\ Cut' /\ ReadSoFar'
             /\ [Delivery!TransferNext]_(Delivery!transferVars)
  <2>1. IInv' /\ Whole' /\ Cut'
    BY <1>2, StepInvariant, WholeStep, CutStep
  <2>2. ASSUME Read
        PROVE  ReadSoFar' /\ [Delivery!TransferNext]_(Delivery!transferVars)
    BY <1>2, <2>2, ReaderDelivers
  <2>3. ASSUME Write
        PROVE  ReadSoFar' /\ [Delivery!TransferNext]_(Delivery!transferVars)
    BY <1>2, <2>3, WriterKeeps, WriterStores
  <2>4. ASSUME UNCHANGED vars
        PROVE  ReadSoFar' /\ [Delivery!TransferNext]_(Delivery!transferVars)
    <3>1. /\ package' = package /\ written' = written /\ broken' = broken
          /\ writing' = writing /\ reading' = reading /\ words' = words
          /\ previous' = previous /\ received' = received
      BY <2>4 DEF vars, writerVars, readerVars, inputs
    <3>2. Sent' = Sent
      BY <3>1 DEF Sent
    <3>3. \A k : EndOf(k)' = EndOf(k)
      BY <3>1 DEF EndOf, Writer!EndOfHeader
    <3>4. ReadSoFar'
      BY <1>2, <3>1, <3>2, <3>3
         DEF ReadSoFar, AtPacket, PastAll, StoredIn, Writer!EndOfHeader
    <3>5. UNCHANGED Delivery!transferVars
      BY <3>1, <3>2, <3>3 DEF Delivery!transferVars, Smaller
    <3>6. QED
      BY <3>4, <3>5
  <2>5. QED
    BY <1>2, <2>1, <2>2, <2>3, <2>4 DEF Next
<1>3. QED
  BY <1>1, <1>2, PTL DEF Spec
=============================================================================
