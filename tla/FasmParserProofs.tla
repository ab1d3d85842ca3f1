-------------------------- MODULE FasmParserProofs --------------------------
(***************************************************************************)
(* FasmParser for every text, every width of a word and every callback:    *)
(* what is accepted is whole, and no issue is forgotten.  In the second    *)
(* half, that the bits that are reported are those of the number in the    *)
(* text.  It rests on the arithmetic of powers of two, on what FoldLeft    *)
(* makes of a sequence, by induction, and with these on what the words of  *)
(* a long number are.                                                      *)
(***************************************************************************)
EXTENDS FasmParser, SequenceTheorems, FiniteSetTheorems, FunctionTheorems,
        WellFoundedInduction, TLAPS

Elements(s) == {s[i] : i \in DOMAIN s}

(* Where the parser is in the text.  The chunks of a value are those of    *)
(* its line, and they cover its range unless an error says otherwise.      *)
Position ==
  /\ content \in Contents
  /\ result \in kSuccess .. kError
  /\ at \in {"start", "feature", "chunks", "annotations", "end of line", "done"}
  /\ line_number \in Nat \ {0}
  /\ at = "start" => line_number = 1
  /\ at \notin {"start", "done"} => line_number \in DOMAIN content
  /\ at = "done" /\ result < kSkipped => line_number = Len(content) + 1
  /\ at = "chunks" =>
       /\ Len(bitset) \in Nat
       /\ chunk \in 1 .. Len(bitset)
       /\ result < kSkipped => width = RangeWidth(line) /\ ~ UnknownBase(line)

CalledBelow(limit) ==
  \A bit \in MinBit(line) .. MaxBit(line) : bit < limit => IsCalled(line_number, bit)

(* What has been called back so far, of the lines before this one and of   *)
(* this one.                                                               *)
CalledSoFar ==
  /\ calls \in Seq(Elements(calls))
  /\ \A i \in DOMAIN content : i < line_number => FeatureIsCalled(i)
  /\ at = "chunks" => CalledBelow(MinBit(line) + (chunk - 1) * WordBits)
  /\ at \in {"annotations", "end of line"} => FeatureIsCalled(line_number)

NotedSoFar ==
  /\ notes \in Seq(Nat \X Nat)
  /\ \A n \in DOMAIN notes :
       /\ notes[n][1] <= line_number
       /\ at # "end of line" => notes[n][1] < line_number
  /\ \A i \in DOMAIN content : i < line_number => AnnotationsAreCalled(i)
  /\ at = "end of line" => AnnotationsAreCalled(line_number)

IInv ==
  /\ Position
  /\ result < kSkipped => CalledSoFar /\ NotedSoFar

-----------------------------------------------------------------------------
(* The worst of some severities is one of them, and none is worse.         *)
LEMMA WorstIsWorst ==
  ASSUME NEW S, S \subseteq kSuccess .. kError, S # {}
  PROVE  Worst(S) \in S /\ \A x \in S : x <= Worst(S)
<1>1. \E x \in S : \A y \in S : x >= y
  <2> USE DEF kSuccess, kError
  <2>1. CASE 5 \in S
    BY <2>1
  <2>2. CASE 5 \notin S /\ 4 \in S
    BY <2>2
  <2>3. CASE S \cap {4, 5} = {} /\ 3 \in S
    BY <2>3
  <2>4. CASE S \cap {3, 4, 5} = {} /\ 2 \in S
    BY <2>4
  <2>5. CASE S \cap {2, 3, 4, 5} = {} /\ 1 \in S
    BY <2>5
  <2>6. CASE S \cap {1, 2, 3, 4, 5} = {}
    <3>1. \A x \in S : x = 0
      BY <2>6
    <3>2. \E x \in S : x = 0
      BY <3>1
    <3>3. QED
      BY <3>1, <3>2
  <2>7. QED
    BY <2>1, <2>2, <2>3, <2>4, <2>5, <2>6
<1>2. QED
  BY <1>1 DEF Worst, Max, kSuccess, kError

LEMMA WorstOf ==
  ASSUME NEW r \in kSuccess .. kError, NEW S, S \subseteq kSuccess .. kError
  PROVE  /\ Worst({r} \cup S) \in kSuccess .. kError
         /\ r <= Worst({r} \cup S)
         /\ \A x \in S : x <= Worst({r} \cup S)
<1>1. {r} \cup S \subseteq kSuccess .. kError /\ {r} \cup S # {}
  OBVIOUS
<1>2. QED
  BY <1>1, WorstIsWorst

LEMMA IssuesType == \A l : Issues(l) \subseteq kSuccess .. kError
<1> TAKE l
<1>1. Issues(l) \subseteq {kInfo, kNonCritical, kError}
  BY DEF Issues
<1>2. QED
  BY <1>1 DEF kSuccess, kInfo, kNonCritical, kError

LEMMA LineType ==
  ASSUME content \in Contents
  PROVE  /\ Len(content) \in Nat
         /\ DOMAIN content = 1 .. Len(content)
         /\ \A i \in DOMAIN content : IsLine(content[i])
<1>1. /\ content \in Seq(ToSet(content))
      /\ \A l \in ToSet(content) : IsLine(l)
  BY ContentsAssumption
<1>2. Len(content) \in Nat /\ DOMAIN content = 1 .. Len(content)
  BY <1>1, LenProperties
<1>3. \A i \in DOMAIN content : content[i] \in ToSet(content)
  BY DEF ToSet
<1>4. QED
  BY <1>1, <1>2, <1>3

LEMMA BitsType ==
  ASSUME NEW l, IsLine(l)
  PROVE  MinBit(l) \in Nat /\ MaxBit(l) \in Nat /\ RangeWidth(l) \in Int
<1>1. l.range # <<>> => l.range[1] \in Nat /\ l.range[Len(l.range)] \in Nat
  <2>1. l.range \in Seq(Nat)
    BY DEF IsLine
  <2>2. Len(l.range) \in Nat /\ l.range \in [1 .. Len(l.range) -> Nat]
    BY <2>1, LenProperties
  <2>3. CASE Len(l.range) = 0
    BY <2>1, <2>3, EmptySeq
  <2>4. CASE Len(l.range) # 0
    BY <2>2, <2>4
  <2>5. QED
    BY <2>3, <2>4
<1>2. \A n \in Nat : n % RangeLimit \in Nat
  BY ParserAssumption
<1>3. MinBit(l) \in Nat
  BY <1>1, <1>2 DEF MinBit, Last
<1>4. MaxBit(l) \in Nat
  BY <1>1, <1>2 DEF MaxBit
<1>5. QED
  BY <1>3, <1>4 DEF RangeWidth

-----------------------------------------------------------------------------
LEMMA FunctionIsSeq ==
  ASSUME NEW S, NEW n \in Nat, NEW s \in [1 .. n -> S]
  PROVE  s \in Seq(S) /\ Len(s) = n
<1>1. s \in UNION {[1 .. m -> S] : m \in Nat}
  BY Zenon
<1>2. s \in Seq(S)
  BY <1>1, SeqDef, Zenon
<1>3. QED
  BY <1>2, LenProperties

(* A value has at least one chunk.                                         *)
LEMMA LenOfReverse ==
  ASSUME NEW n \in Nat, NEW s, DOMAIN s = 1 .. n, s = [k \in 1 .. n |-> s[k]]
  PROVE  Len(Reverse(s)) = n
<1> DEFINE S == Elements(s)
           t == Reverse(s)
<1>1. s \in [1 .. n -> S]
  BY DEF Elements
<1>2. s \in Seq(S) /\ Len(s) = n
  BY <1>1, FunctionIsSeq
<1>3. Len(s) = n
  BY <1>2
<1>4. t = [i \in 1 .. n |-> s[(n - i) + 1]]
  BY <1>3 DEF Reverse
<1>5. t \in [1 .. n -> S]
  <2>1. \A i \in 1 .. n : (n - i) + 1 \in 1 .. n
    OBVIOUS
  <2>2. \A i \in 1 .. n : s[(n - i) + 1] \in S
    BY <1>1, <2>1
  <2> HIDE DEF S, t
  <2>3. QED
    BY <1>4, <2>2
<1>6. QED
  BY <1>5, FunctionIsSeq

LEMMA LongNumberLen ==
  ASSUME NEW digits \in Seq(Nat), NEW l2base \in {1, 4}
  PROVE  Len(LongNumberWithBase(digits, l2base)) \in Nat \ {0}
<1> DEFINE perWord == WordBits \div l2base
           words == (Len(digits) + perWord - 1) \div perWord
           Digits(k) == SubSeq(digits, perWord * (k - 1) + 1,
                               Min({perWord * k, Len(digits)}))
           s == [k \in 1 .. words |-> NumberWithBase(Digits(k), 2 ^ l2base, WordLimit)]
<1>1. CASE digits = <<>>
  <2>1. LongNumberWithBase(digits, l2base) = <<0>>
    BY <1>1 DEF LongNumberWithBase
  <2>2. QED
    BY <2>1
<1>2. CASE digits # <<>>
  <2>1. Len(digits) \in Nat \ {0}
    BY <1>2, EmptySeq, LenProperties
  <2>2. perWord \in Nat \ {0}
    BY ParserAssumption
  <2>3. words \in Nat \ {0}
    <3> HIDE DEF perWord
    <3>1. QED
      BY <2>1, <2>2
  <2>4. LongNumberWithBase(digits, l2base) = Reverse(s)
    BY <1>2 DEF LongNumberWithBase
  <2> HIDE DEF words
  <2>5. DOMAIN s = 1 .. words /\ s = [k \in 1 .. words |-> s[k]]
    OBVIOUS
  <2> HIDE DEF s
  <2>6. QED
    BY <2>3, <2>4, <2>5, LenOfReverse
<1>3. QED
  BY <1>1, <1>2

LEMMA BitsetLen == ASSUME NEW l, IsLine(l) PROVE Len(Bitset(l)) \in Nat \ {0}
<1>1. CASE l.assigned = <<>>
  BY <1>1 DEF Bitset
<1>2. CASE l.assigned # <<>>
  <2> DEFINE v == l.assigned[1]
  <2>1. v.digits \in Seq(Nat)
    <3>1. l.assigned \in Seq(AnyValue) /\ Len(l.assigned) \in Nat
      BY LenProperties DEF IsLine
    <3>2. 1 \in 1 .. Len(l.assigned)
      BY <1>2, <3>1, EmptySeq
    <3>3. v \in AnyValue
      BY <3>1, <3>2, ElementOfSeq
    <3>4. QED
      BY <3>3 DEF AnyValue
  <2> HIDE DEF v
  <2>2. \/ Bitset(l) = LongNumberWithBase(v.digits, 4)
        \/ Bitset(l) = LongNumberWithBase(v.digits, 1)
        \/ \E n : Bitset(l) = <<n>>
    BY <1>2 DEF Bitset, v
  <2>3. \A n : Len(<<n>>) = 1
    OBVIOUS
  <2>4. /\ Len(LongNumberWithBase(v.digits, 4)) \in Nat \ {0}
        /\ Len(LongNumberWithBase(v.digits, 1)) \in Nat \ {0}
    BY <2>1, LongNumberLen
  <2>5. QED
    BY <2>2, <2>3, <2>4
<1>3. QED
  BY <1>1, <1>2

-----------------------------------------------------------------------------
LEMMA AppendElements ==
  ASSUME NEW s, s \in Seq(Elements(s)), NEW e
  PROVE  /\ Append(s, e) \in Seq(Elements(Append(s, e)))
         /\ ToSet(Append(s, e)) = ToSet(s) \cup {e}
<1> DEFINE S == Elements(s) \cup {e}
           t == Append(s, e)
<1>1. s \in Seq(S)
  BY SeqMonotonic
<1>2. /\ t \in Seq(S) /\ Len(t) = Len(s) + 1
      /\ \A i \in 1 .. Len(s) : t[i] = s[i]
      /\ t[Len(s) + 1] = e
  BY <1>1, AppendProperties
<1>3. /\ Len(s) \in Nat /\ DOMAIN s = 1 .. Len(s)
      /\ t \in [1 .. Len(t) -> S] /\ DOMAIN t = 1 .. Len(t)
  BY <1>1, <1>2, LenProperties
<1>4. t \in [1 .. Len(t) -> Elements(t)]
  BY <1>3 DEF Elements
<1>5. t \in Seq(Elements(t))
  <2>1. Len(t) \in Nat
    BY <1>2, LenProperties
  <2>2. QED
    BY <1>4, <2>1, FunctionIsSeq
<1>6. ToSet(t) = ToSet(s) \cup {e}
  <2> HIDE DEF t
  <2>1. DOMAIN t = DOMAIN s \cup {Len(s) + 1}
    BY <1>2, <1>3
  <2>2. QED
    BY <1>2, <1>3, <2>1 DEF ToSet
<1>7. QED
  BY <1>5, <1>6

(* What a line has been called back for stays so.                          *)
LEMMA CallsStay ==
  ASSUME ToSet(calls) \subseteq ToSet(calls'), content' = content,
         NEW i
  PROVE  /\ \A bit : IsCalled(i, bit) => IsCalled(i, bit)'
         /\ FeatureIsCalled(i) => FeatureIsCalled(i)'
<1>1. \A bit : IsCalled(i, bit) => IsCalled(i, bit)'
  BY DEF IsCalled
<1>2. QED
  BY <1>1 DEF FeatureIsCalled

-----------------------------------------------------------------------------
LEMMA InitInvariant == Init => IInv
<1> SUFFICES ASSUME Init PROVE IInv
  OBVIOUS
<1> USE DEF kSuccess, kSkipped, kError
<1>1. Position
  BY DEF Init, Position
<1>2. <<>> \in Seq(Elements(<<>>)) /\ <<>> \in Seq(Nat \X Nat) /\ DOMAIN <<>> = {}
  OBVIOUS
<1>3. \A i \in DOMAIN content : ~ i < 1
  BY LineType DEF Init
<1>4. CalledSoFar
  BY <1>2, <1>3 DEF Init, CalledSoFar
<1>5. NotedSoFar
  BY <1>2, <1>3 DEF Init, NotedSoFar
<1>6. QED
  BY <1>1, <1>4, <1>5 DEF IInv

LEMMA SameCalls ==
  ASSUME UNCHANGED <<inputs, calls, notes>>, NEW i
  PROVE  /\ FeatureIsCalled(i)' <=> FeatureIsCalled(i)
         /\ AnnotationsAreCalled(i)' <=> AnnotationsAreCalled(i)
  BY DEF FeatureIsCalled, IsCalled, AnnotationsAreCalled, inputs

(* To the next line, when this one is done with.                           *)
LEMMA GoesOn ==
  ASSUME IInv, NextLine, line_number \in DOMAIN content,
         UNCHANGED <<inputs, calls, notes>>, result' \in kSuccess .. kError,
         result' < kSkipped => /\ result < kSkipped
                               /\ FeatureIsCalled(line_number)
                               /\ AnnotationsAreCalled(line_number)
  PROVE  IInv'
<1> USE DEF kSuccess, kSkipped, kError
<1>1. /\ Len(content) \in Nat /\ DOMAIN content = 1 .. Len(content)
      /\ content' = content /\ calls' = calls /\ notes' = notes
      /\ line_number' = line_number + 1 /\ line_number \in Nat \ {0}
      /\ at' = IF line_number = Len(content) THEN "done" ELSE "feature"
  BY LineType DEF IInv, Position, NextLine, inputs
<1>2. Position'
  <2>1. content' \in Contents
    BY <1>1 DEF IInv, Position
  <2>2. at' \in {"feature", "done"} /\ line_number' \in Nat \ {0}
    BY <1>1
  <2>3. at' = "feature" => line_number' \in DOMAIN content'
    BY <1>1
  <2>4. at' = "done" => line_number' = Len(content') + 1
    BY <1>1
  <2>5. QED
    BY <2>1, <2>2, <2>3, <2>4 DEF Position
<1>3. ASSUME result' < kSkipped PROVE CalledSoFar' /\ NotedSoFar'
  <2>1. CalledSoFar /\ NotedSoFar
    BY <1>3 DEF IInv
  <2>2. \A i \in DOMAIN content : i < line_number + 1 =>
          FeatureIsCalled(i) /\ AnnotationsAreCalled(i)
    <3> SUFFICES ASSUME NEW i \in DOMAIN content, i < line_number + 1
                 PROVE  FeatureIsCalled(i) /\ AnnotationsAreCalled(i)
      OBVIOUS
    <3>1. i < line_number \/ i = line_number
      BY <1>1
    <3>2. QED
      BY <1>3, <2>1, <3>1 DEF CalledSoFar, NotedSoFar
  <2>3. \A i : /\ FeatureIsCalled(i) => FeatureIsCalled(i)'
               /\ AnnotationsAreCalled(i) => AnnotationsAreCalled(i)'
    BY SameCalls
  <2>4. CalledSoFar'
    BY <1>1, <2>1, <2>2, <2>3 DEF CalledSoFar
  <2>5. ASSUME NEW n \in DOMAIN notes
        PROVE  notes[n][1] \in Nat /\ notes[n][1] < line_number + 1
    <3>1. notes \in Seq(Nat \X Nat) /\ n \in 1 .. Len(notes)
      BY <2>1, LenProperties DEF NotedSoFar
    <3>2. notes[n] \in Nat \X Nat
      BY <3>1, ElementOfSeq
    <3>3. notes[n][1] <= line_number
      BY <2>1 DEF NotedSoFar
    <3>4. QED
      BY <1>1, <3>2, <3>3
  <2>6. (\A n \in DOMAIN notes : notes[n][1] <= line_number)'
    BY <1>1, <2>5
  <2>7. NotedSoFar'
    <3>1. (notes \in Seq(Nat \X Nat))'
      BY <1>1, <2>1 DEF NotedSoFar
    <3>2. (\A n \in DOMAIN notes : notes[n][1] < line_number)'
      BY <1>1, <2>5
    <3>3. (\A i \in DOMAIN content : i < line_number => AnnotationsAreCalled(i))'
      BY <1>1, <2>2, <2>3
    <3>4. (at # "end of line")'
      BY <1>1
    <3>5. QED
      BY <2>6, <3>1, <3>2, <3>3, <3>4 DEF NotedSoFar
  <2>8. QED
    BY <2>4, <2>7
<1>4. QED
  BY <1>2, <1>3 DEF IInv

LEMMA NoChunks == \A x, w \in Nat : x + (1 - 1) * w = x
<1>1. \A w \in Nat : (1 - 1) * w = 0
  OBVIOUS
<1>2. QED
  BY <1>1

LEMMA NothingBelow == \A x, y \in Nat : \A z \in x .. y : ~ z < x
  OBVIOUS

(* The parser stays in a line, and calls nobody.                           *)
LEMMA StaysInLine ==
  ASSUME IInv, Position', at # "end of line",
         UNCHANGED <<inputs, calls, notes, line_number>>,
         at' = "chunks" => line_number \in DOMAIN content /\ chunk' = 1,
         result' < kSkipped =>
           /\ result < kSkipped
           /\ at' \in {"annotations", "end of line"} => FeatureIsCalled(line_number)
           /\ at' = "end of line" => AnnotationsAreCalled(line_number)
  PROVE  IInv'
<1>1. /\ content' = content /\ calls' = calls /\ notes' = notes
      /\ line_number' = line_number
  BY DEF inputs
<1> SUFFICES ASSUME result' < kSkipped PROVE CalledSoFar' /\ NotedSoFar'
  BY DEF IInv, kSkipped
<1>2. CalledSoFar /\ NotedSoFar
  BY DEF IInv
<1>3. PICK n : n = line_number
  OBVIOUS
<1>4. at' = "chunks" => (CalledBelow(MinBit(line) + (chunk - 1) * WordBits))'
  <2> SUFFICES ASSUME at' = "chunks"
               PROVE  (CalledBelow(MinBit(line) + (chunk - 1) * WordBits))'
    OBVIOUS
  <2>1. IsLine(content[n])
    BY <1>3, LineType DEF IInv, Position
  <2>2. MinBit(content[n]) \in Nat
    BY <2>1, BitsType
  <2>3. content'[line_number'] = content[n] /\ chunk' = 1
    BY <1>1, <1>3
  <2>4. MinBit(content[n]) + (1 - 1) * WordBits = MinBit(content[n])
    BY <2>2, ParserAssumption, NoChunks
  <2>5. \A bit \in MinBit(content[n]) .. MaxBit(content[n]) :
          ~ bit < MinBit(content[n])
    BY <2>1, BitsType, NothingBelow
  <2>6. QED
    BY <2>3, <2>4, <2>5 DEF CalledBelow, line
<1>5. CalledSoFar'
  <2>1. (calls \in Seq(Elements(calls)))'
    BY <1>1, <1>2 DEF CalledSoFar, Elements
  <2>2. (\A i \in DOMAIN content : i < line_number => FeatureIsCalled(i))'
    BY <1>1, <1>2, SameCalls DEF CalledSoFar
  <2>3. at' \in {"annotations", "end of line"} => FeatureIsCalled(n)'
    BY <1>3, SameCalls
  <2>4. QED
    BY <1>1, <1>3, <1>4, <2>1, <2>2, <2>3 DEF CalledSoFar
<1>6. NotedSoFar'
  <2>1. at' = "end of line" => AnnotationsAreCalled(n)'
    BY <1>3, SameCalls
  <2>2. (\A i \in DOMAIN content : i < line_number => AnnotationsAreCalled(i))'
    BY <1>1, <1>2, SameCalls DEF NotedSoFar
  <2>3. QED
    BY <1>1, <1>2, <1>3, <2>1, <2>2 DEF NotedSoFar
<1>7. QED
  BY <1>5, <1>6

LEMMA StartStep == IInv /\ Start => IInv'
<1> SUFFICES ASSUME IInv, Start PROVE IInv'
  OBVIOUS
<1> USE DEF kSuccess, kSkipped, kError
<1>1. Len(content) \in Nat /\ DOMAIN content = 1 .. Len(content)
  BY LineType DEF IInv, Position
<1>2. content # <<>> => 1 \in DOMAIN content
  <2>1. content \in Seq(ToSet(content))
    BY ContentsAssumption DEF IInv, Position
  <2>2. QED
    BY <1>1, <2>1, EmptySeq
<1>3. content = <<>> => Len(content) = 0
  OBVIOUS
<1>4. /\ at' \in {"feature", "done"} /\ line_number = 1
      /\ at' = "feature" => line_number \in DOMAIN content
      /\ result' \in kSuccess .. kError
      /\ result' < kSkipped => result < kSkipped
      /\ at' = "done" /\ result' < kSkipped => line_number = Len(content) + 1
  BY <1>1, <1>2, <1>3 DEF IInv, Position, Start
<1>5. UNCHANGED <<inputs, calls, notes, line_number>> /\ content' = content
  BY DEF Start, inputs
<1>6. Position'
  BY <1>4, <1>5 DEF IInv, Position
<1>7. QED
  BY <1>4, <1>5, <1>6, StaysInLine DEF Start

LEMMA NoFeatureStep == IInv /\ NoFeature => IInv'
<1> SUFFICES ASSUME IInv, NoFeature PROVE IInv'
  OBVIOUS
<1>1. Position'
  BY DEF IInv, Position, NoFeature, inputs
<1>2. FeatureIsCalled(line_number)
  BY DEF NoFeature, FeatureIsCalled, line
<1>3. QED
  BY <1>1, <1>2, StaysInLine DEF NoFeature, IInv

LEMMA NoAnnotationsStep == IInv /\ NoAnnotations => IInv'
<1> SUFFICES ASSUME IInv, NoAnnotations PROVE IInv'
  OBVIOUS
<1>1. Position'
  <2>1. /\ at' = "end of line" /\ line_number' = line_number /\ content' = content
        /\ line_number \in DOMAIN content
    BY DEF IInv, Position, NoAnnotations, inputs
  <2>2. result' \in {kError, result}
    BY DEF NoAnnotations
  <2>3. result \in kSuccess .. kError
    BY DEF IInv, Position
  <2>4. result' \in kSuccess .. kError
    BY <2>2, <2>3 DEF kSuccess, kError
  <2>5. QED
    BY <2>1, <2>4 DEF IInv, Position
<1>2. AnnotationsAreCalled(line_number)
  BY DEF NoAnnotations, AnnotationsAreCalled, line
<1>3. result' < kSkipped => result < kSkipped /\ FeatureIsCalled(line_number)
  <2>1. result' < kSkipped => result < kSkipped
    <3>1. result' \in {kError, result}
      BY DEF NoAnnotations
    <3>2. QED
      BY <3>1 DEF kSkipped, kError
  <2>2. QED
    BY <2>1 DEF IInv, CalledSoFar, NoAnnotations
<1>4. QED
  BY <1>1, <1>2, <1>3, StaysInLine DEF NoAnnotations

LEMMA SkipLineStep == IInv /\ SkipLine => IInv'
<1> SUFFICES ASSUME IInv, SkipLine PROVE IInv'
  OBVIOUS
<1>1. result' \in kSkipped .. kError
  <2>1. CASE result' = kError
    BY <2>1 DEF kSkipped, kError
  <2>2. CASE result' = Worst({result, kSkipped})
    <3>1. {result, kSkipped} = {result} \cup {kSkipped}
      OBVIOUS
    <3>2. {kSkipped} \subseteq kSuccess .. kError
      BY DEF kSuccess, kSkipped, kError
    <3>3. result \in kSuccess .. kError
      BY DEF IInv, Position
    <3>4. QED
      BY <2>2, <3>1, <3>2, <3>3, WorstOf DEF kSuccess, kSkipped, kError
  <2>3. QED
    BY <2>1, <2>2 DEF SkipLine
<1>2. line_number \in DOMAIN content
  BY DEF IInv, Position, SkipLine
<1>3. result' \in kSuccess .. kError /\ ~ result' < kSkipped
  BY <1>1 DEF kSuccess, kSkipped, kError
<1>4. QED
  BY <1>2, <1>3, GoesOn DEF SkipLine

LEMMA EndOfLineStep == IInv /\ EndOfLine => IInv'
<1> SUFFICES ASSUME IInv, EndOfLine PROVE IInv'
  OBVIOUS
<1>1. line_number \in DOMAIN content /\ result' \in kSuccess .. kError
  BY DEF IInv, Position, EndOfLine
<1>2. result' < kSkipped =>
        /\ result < kSkipped
        /\ FeatureIsCalled(line_number) /\ AnnotationsAreCalled(line_number)
  BY DEF IInv, CalledSoFar, NotedSoFar, EndOfLine
<1>3. QED
  BY <1>1, <1>2, GoesOn DEF EndOfLine

LEMMA ReadValueStep == IInv /\ ReadValue => IInv'
<1> SUFFICES ASSUME IInv, ReadValue PROVE IInv'
  OBVIOUS
<1>1. /\ result' \in kSuccess .. kError /\ result <= result'
      /\ \A x \in Issues(line) : x <= result'
  BY IssuesType, WorstOf DEF IInv, Position, ReadValue
<1>2. result' < kSkipped =>
        result < kSkipped /\ Width(line) = RangeWidth(line) /\ ~ UnknownBase(line)
  <2>1. Trims(line) \/ UnknownBase(line) => kError \in Issues(line)
    BY DEF Issues
  <2>2. result' < kSkipped => ~ Trims(line) /\ ~ UnknownBase(line)
    BY <1>1, <2>1 DEF kSkipped, kError
  <2>3. result' < kSkipped => result < kSkipped
    <3>1. result \in kSuccess .. kError
      BY DEF IInv, Position
    <3>2. QED
      BY <1>1, <3>1 DEF kSuccess, kSkipped, kError
  <2>4. QED
    BY <2>2, <2>3 DEF Width
<1>3. line_number \in DOMAIN content /\ IsLine(line)
  BY LineType DEF IInv, Position, ReadValue, line
<1>4. Len(bitset') \in Nat \ {0}
  BY <1>3, BitsetLen DEF ReadValue
<1>5. line' = line
  BY DEF ReadValue, line, inputs
<1>6. Position'
  <2>1. /\ at' = "chunks" /\ line_number' = line_number /\ content' = content
        /\ chunk' = 1 /\ width' = Width(line)
    BY DEF ReadValue, inputs
  <2>2. 1 \in 1 .. Len(bitset')
    BY <1>4
  <2>3. QED
    BY <1>1, <1>2, <1>3, <1>4, <1>5, <2>1, <2>2 DEF IInv, Position
<1>7. QED
  BY <1>2, <1>3, <1>6, StaysInLine DEF ReadValue

-----------------------------------------------------------------------------
(* The bits below the next chunk are below this one or in it, and the bits *)
(* of the range are below the last chunk or in it.                         *)
LEMMA NextChunk ==
  \A m, c, w \in Nat, x \in Int :
    x < m + ((c + 1) - 1) * w =>
      x < m + (c - 1) * w \/ x \in m + (c - 1) * w .. m + (c - 1) * w + w - 1
<1> TAKE m, c, w \in Nat, x \in Int
<1>1. ((c + 1) - 1) * w = (c - 1) * w + w
  OBVIOUS
<1>2. \A d, e \in Int : e = d + w /\ x < m + e => x < m + d \/ x \in m + d .. m + d + w - 1
  OBVIOUS
<1>3. (c - 1) * w \in Int /\ ((c + 1) - 1) * w \in Int
  OBVIOUS
<1>4. QED
  BY <1>1, <1>2, <1>3

LEMMA LastChunk ==
  \A m, max, c, w \in Nat, x \in Int :
    x \in m .. max =>
      \/ x < m + (c - 1) * w
      \/ x \in m + (c - 1) * w
                .. m + (c - 1) * w + ((max - m + 1) - w * (c - 1)) - 1
<1> TAKE m, max, c, w \in Nat, x \in Int
<1>1. w * (c - 1) = (c - 1) * w
  OBVIOUS
<1>2. \A d \in Int : x \in m .. max =>
        x < m + d \/ x \in m + d .. m + d + ((max - m + 1) - d) - 1
  OBVIOUS
<1>3. (c - 1) * w \in Int
  OBVIOUS
<1>4. QED
  BY <1>1, <1>2, <1>3

LEMMA ReportStep == IInv /\ Report => IInv'
<1> SUFFICES ASSUME IInv, Report PROVE IInv'
  OBVIOUS
<1>1. PICK bits \in ClampedBits(chunk), more \in Answers :
        /\ calls' = Append(calls, Call(bits))
        /\ result' = IF more THEN result ELSE Worst({result, kUserAbort})
        /\ at' = IF more /\ chunk < Len(bitset) THEN "chunks" ELSE AfterChunks
  BY DEF Report
<1>2. /\ at = "chunks" /\ chunk' = chunk + 1
      /\ content' = content /\ annotating' = annotating /\ notes' = notes
      /\ line_number' = line_number /\ width' = width /\ bitset' = bitset
  BY DEF Report, inputs
<1>3. PICK n, c : n = line_number /\ c = chunk
  OBVIOUS
<1>4. PICK l : l = content[n]
  OBVIOUS
<1>5. /\ n \in Nat /\ n \in DOMAIN content /\ IsLine(l)
      /\ c \in Nat /\ c \in 1 .. Len(bitset) /\ Len(bitset) \in Nat
      /\ line = l
  BY <1>2, <1>3, <1>4, LineType DEF IInv, Position, line
<1>6. result' \in kSuccess .. kError /\ (result' < kSkipped => more /\ result' = result)
  <2>1. result \in kSuccess .. kError
    BY DEF IInv, Position
  <2>2. CASE more
    BY <1>1, <2>1, <2>2
  <2>3. CASE ~ more
    <3>1. {result, kUserAbort} = {result} \cup {kUserAbort}
      OBVIOUS
    <3>2. {kUserAbort} \subseteq kSuccess .. kError
      BY DEF kSuccess, kUserAbort, kError
    <3>3. result' \in kSuccess .. kError /\ kUserAbort <= result'
      BY <1>1, <2>1, <2>3, <3>1, <3>2, WorstOf
    <3>4. QED
      BY <3>3 DEF kSuccess, kSkipped, kUserAbort, kError
  <2>4. QED
    BY <2>2, <2>3
<1>7. at' \in {"chunks", "annotations", "end of line"}
  BY <1>1 DEF AfterChunks
<1>8. at' = "chunks" => c < Len(bitset)
  BY <1>1, <1>3 DEF AfterChunks
<1>9. Position'
  <2>1. line' = line
    BY <1>2 DEF line
  <2>2. at' = "chunks" => chunk' \in 1 .. Len(bitset')
    BY <1>2, <1>3, <1>5, <1>8
  <2>3. result' < kSkipped => width = RangeWidth(line) /\ ~ UnknownBase(line)
    BY <1>2, <1>6 DEF IInv, Position
  <2>4. QED
    BY <1>2, <1>6, <1>7, <2>1, <2>2, <2>3 DEF IInv, Position
<1>10. ASSUME result' < kSkipped PROVE CalledSoFar' /\ NotedSoFar'
  <2>1. /\ more /\ result' = result /\ CalledSoFar /\ NotedSoFar
        /\ width = RangeWidth(l) /\ ~ UnknownBase(l)
    BY <1>2, <1>5, <1>6, <1>10 DEF IInv, Position
  <2>2. /\ (calls \in Seq(Elements(calls)))'
        /\ ToSet(calls') = ToSet(calls) \cup {Call(bits)}
    BY <1>1, <2>1, AppendElements DEF CalledSoFar
  <2>3. /\ \A i, bit : IsCalled(i, bit) => IsCalled(i, bit)'
        /\ \A i : FeatureIsCalled(i) => FeatureIsCalled(i)'
    BY <1>2, <2>2, CallsStay
  <2>4. MinBit(l) \in Nat /\ MaxBit(l) \in Nat
    BY <1>5, BitsType
  <2>5. PICK start : start = MinBit(l) + (c - 1) * WordBits
    OBVIOUS
  <2>6. PICK wide : wide = ValueWidth(c)
    BY <1>3
  <2>7. \A bit \in start .. start + wide - 1 : IsCalled(n, bit)'
    <3>1. /\ Call(bits).line = n /\ Call(bits).start_bit = start
          /\ Call(bits).width = wide
      BY <1>3, <1>5, <2>5, <2>6 DEF Call
    <3>2. PICK call \in ToSet(calls') : call.line = n /\ call.start_bit = start
                                       /\ call.width = wide
      BY <2>2, <3>1
    <3>3. QED
      BY <3>2 DEF IsCalled
  <2>8. \A bit \in MinBit(l) .. MaxBit(l) : bit < start => IsCalled(n, bit)'
    BY <1>2, <1>3, <1>5, <2>1, <2>3, <2>5 DEF CalledSoFar, CalledBelow
  <2>9. at' = "chunks" =>
          \A bit \in MinBit(l) .. MaxBit(l) :
            bit < MinBit(l) + ((c + 1) - 1) * WordBits => IsCalled(n, bit)'
    <3>1. at' = "chunks" => wide = WordBits
      BY <1>3, <1>5, <1>8, <2>6 DEF ValueWidth
    <3>2. ASSUME NEW bit \in MinBit(l) .. MaxBit(l),
                 bit < MinBit(l) + ((c + 1) - 1) * WordBits
          PROVE  bit < start \/ bit \in start .. start + WordBits - 1
      BY <1>5, <2>4, <2>5, <3>2, NextChunk, ParserAssumption
    <3>3. QED
      BY <2>7, <2>8, <3>1, <3>2
  <2>10. ~ at' = "chunks" => \A bit \in MinBit(l) .. MaxBit(l) : IsCalled(n, bit)'
    <3>1. ~ at' = "chunks" =>
            wide = (MaxBit(l) - MinBit(l) + 1) - WordBits * (c - 1)
      BY <1>1, <1>3, <1>5, <2>1, <2>6 DEF ValueWidth, RangeWidth
    <3>2. \A bit \in MinBit(l) .. MaxBit(l) :
            \/ bit < start
            \/ bit \in start
                      .. start + ((MaxBit(l) - MinBit(l) + 1) - WordBits * (c - 1)) - 1
      BY <1>5, <2>4, <2>5, LastChunk, ParserAssumption
    <3>3. QED
      BY <2>7, <2>8, <3>1, <3>2
  <2>11. CalledSoFar'
    <3>1. (\A i \in DOMAIN content : i < line_number => FeatureIsCalled(i))'
      BY <1>2, <2>1, <2>3 DEF CalledSoFar
    <3>2. at' = "chunks" => (CalledBelow(MinBit(line) + (chunk - 1) * WordBits))'
      BY <1>2, <1>3, <1>4, <2>9 DEF CalledBelow, line
    <3>3. at' \in {"annotations", "end of line"} => FeatureIsCalled(n)'
      BY <1>2, <1>4, <2>10 DEF FeatureIsCalled
    <3>4. QED
      BY <1>2, <1>3, <2>2, <3>1, <3>2, <3>3 DEF CalledSoFar
  <2>12. NotedSoFar'
    <3>1. \A i : AnnotationsAreCalled(i)' <=> AnnotationsAreCalled(i)
      BY <1>2 DEF AnnotationsAreCalled
    <3>2. at' # "end of line"
      BY <1>1, <1>5, <2>1 DEF AfterChunks
    <3>3. QED
      BY <1>2, <2>1, <3>1, <3>2 DEF NotedSoFar
  <2>13. QED
    BY <2>11, <2>12
<1>11. QED
  BY <1>9, <1>10 DEF IInv

-----------------------------------------------------------------------------
LEMMA ReadAnnotationsStep == IInv /\ ReadAnnotations => IInv'
<1> SUFFICES ASSUME IInv, ReadAnnotations PROVE IInv'
  OBVIOUS
<1> DEFINE block == line.annotations[1]
           wrong == SelectInSeq(block.list, LAMBDA a : a # "quoted")
           good == IF wrong = 0 THEN Len(block.list) ELSE wrong - 1
<1>1. /\ at = "annotations" /\ at' = "end of line"
      /\ content' = content /\ annotating' = annotating /\ calls' = calls
      /\ line_number' = line_number /\ line_number \in DOMAIN content
  BY DEF ReadAnnotations, inputs, IInv, Position
<1>2. PICK n, count : n = line_number /\ count = Len(block.list)
  OBVIOUS
<1>3. line.annotations # <<>> /\ line = content[n]
  BY <1>2 DEF ReadAnnotations, line
<1>4. IF annotating
      THEN /\ notes' = notes \o [i \in 1 .. good |-> <<line_number, i>>]
           /\ result' = IF block.list # <<>> /\ wrong = 0 /\ block.closed
                        THEN result ELSE kError
      ELSE UNCHANGED <<notes, result>>
  BY DEF ReadAnnotations
<1> HIDE DEF wrong
<1>5. result' \in {result, kError}
  BY <1>4
<1>6. result \in kSuccess .. kError
  BY DEF IInv, Position
<1>7. result' \in kSuccess .. kError /\ (result' < kSkipped => result' = result)
  BY <1>5, <1>6 DEF kSuccess, kSkipped, kError
<1>8. Position'
  BY <1>1, <1>7 DEF IInv, Position
<1>9. n \in Nat /\ count \in Nat
  <2>1. IsLine(line) /\ line_number \in Nat
    BY <1>1, LineType DEF IInv, Position, line
  <2>2. line.annotations \in Seq(AnyBlock) /\ Len(line.annotations) \in Nat
    BY <2>1, LenProperties DEF IsLine
  <2>3. 1 \in 1 .. Len(line.annotations)
    BY <1>3, <2>2, EmptySeq
  <2>4. block \in AnyBlock
    BY <2>2, <2>3, ElementOfSeq
  <2>5. block.list \in Seq(STRING)
    BY <2>4 DEF AnyBlock
  <2>6. QED
    BY <1>2, <2>1, <2>5, LenProperties
<1>10. ASSUME result' < kSkipped PROVE CalledSoFar' /\ NotedSoFar'
  <2>1. CalledSoFar /\ NotedSoFar
    BY <1>7, <1>10 DEF IInv
  <2>2. CalledSoFar'
    <3>1. \A i : FeatureIsCalled(i)' <=> FeatureIsCalled(i)
      BY <1>1 DEF FeatureIsCalled, IsCalled
    <3>2. FeatureIsCalled(n)
      BY <1>1, <1>2, <2>1 DEF CalledSoFar
    <3>3. (\A i \in DOMAIN content : i < line_number => FeatureIsCalled(i))'
      BY <1>1, <2>1, <3>1 DEF CalledSoFar
    <3>4. (calls \in Seq(Elements(calls)))'
      BY <1>1, <2>1 DEF CalledSoFar, Elements
    <3>5. QED
      BY <1>1, <1>2, <3>1, <3>2, <3>3, <3>4 DEF CalledSoFar
  <2>3. CASE ~ annotating
    <3>1. notes' = notes
      BY <1>4, <2>3
    <3>2. \A i : AnnotationsAreCalled(i)'
      BY <1>1, <2>3 DEF AnnotationsAreCalled
    <3>3. (\A m \in DOMAIN notes : notes[m][1] <= line_number)'
      BY <1>1, <2>1, <3>1 DEF NotedSoFar
    <3>4. QED
      BY <1>1, <2>1, <2>2, <3>1, <3>2, <3>3 DEF NotedSoFar
  <2>4. CASE annotating
    <3>1. ~ result' = kError
      BY <1>10, <1>7 DEF kSkipped, kError
    <3>2. wrong = 0
      BY <1>4, <2>4, <3>1
    <3>3. PICK s, t, added : /\ s = notes /\ t = notes'
                             /\ added = [k \in 1 .. count |-> <<n, k>>]
      OBVIOUS
    <3>4. t = s \o added
      BY <1>2, <1>4, <2>4, <3>2, <3>3
    <3>5. s \in Seq(Nat \X Nat)
      BY <2>1, <3>3 DEF NotedSoFar
    <3>6. /\ t \in Seq(Nat \X Nat)
          /\ Len(s) \in Nat /\ DOMAIN s = 1 .. Len(s)
          /\ Len(t) = Len(s) + count /\ DOMAIN t = 1 .. Len(s) + count
          /\ \A m \in DOMAIN s : t[m] = s[m]
          /\ \A m \in Len(s) + 1 .. Len(s) + count : t[m] = <<n, m - Len(s)>>
      <4>1. /\ added \in [1 .. count -> Nat \X Nat]
            /\ \A k \in 1 .. count : added[k] = <<n, k>>
        BY <1>9, <3>3
      <4>2. added \in Seq(Nat \X Nat) /\ Len(added) = count
        BY <1>9, <4>1, FunctionIsSeq
      <4>3. added \in Seq(Nat \X Nat)
        BY <4>2
      <4>4. /\ t \in Seq(Nat \X Nat) /\ Len(t) = Len(s) + Len(added)
            /\ \A m \in 1 .. Len(s) + Len(added) :
                 t[m] = IF m <= Len(s) THEN s[m] ELSE added[m - Len(s)]
        BY <3>4, <3>5, <4>3, ConcatProperties
      <4>5. Len(s) \in Nat /\ DOMAIN s = 1 .. Len(s) /\ DOMAIN t = 1 .. Len(t)
        BY <3>5, <4>4, LenProperties
      <4>6. \A m \in DOMAIN s : t[m] = s[m]
        BY <1>9, <4>2, <4>4, <4>5
      <4>7. \A m \in Len(s) + 1 .. Len(s) + count : t[m] = <<n, m - Len(s)>>
        <5>1. TAKE m \in Len(s) + 1 .. Len(s) + count
        <5>2. /\ m \in 1 .. Len(s) + count /\ ~ m <= Len(s)
              /\ m - Len(s) \in 1 .. count
          BY <1>9, <4>5
        <5>3. QED
          BY <4>1, <4>2, <4>4, <5>2
      <4>8. QED
        BY <4>2, <4>4, <4>5, <4>6, <4>7
    <3>7. \A m \in DOMAIN s : t[m][1] < n
      BY <1>1, <1>2, <2>1, <3>3, <3>6 DEF NotedSoFar
    <3>8. \A m \in Len(s) + 1 .. Len(s) + count : t[m][1] = n
      BY <3>6
    <3>9. \A m \in DOMAIN t : m \in DOMAIN s \/ m \in Len(s) + 1 .. Len(s) + count
      BY <1>9, <3>6
    <3>10. AnnotationsAreCalled(n)'
      <4>1. Len(s) \in 0 .. Len(t) - count
        BY <1>9, <3>6
      <4>2. ASSUME NEW m \in DOMAIN t
            PROVE  IF m \in Len(s) + 1 .. Len(s) + count THEN t[m] = <<n, m - Len(s)>>
                   ELSE t[m][1] # n
        <5>1. CASE m \in Len(s) + 1 .. Len(s) + count
          BY <3>6, <5>1
        <5>2. CASE m \notin Len(s) + 1 .. Len(s) + count
          <6>1. m \in DOMAIN s
            BY <3>9, <5>2
          <6>2. t[m][1] # n
            BY <1>9, <3>7, <6>1
          <6>3. QED
            BY <5>2, <6>2
        <5>3. QED
          BY <5>1, <5>2
      <4>3. content'[n] = line /\ Len(content'[n].annotations[1].list) = count
        BY <1>1, <1>2, <1>3
      <4>4. QED
        BY <3>3, <4>1, <4>2, <4>3 DEF AnnotationsAreCalled
    <3>11. ASSUME NEW i \in DOMAIN content, i < line_number
           PROVE  AnnotationsAreCalled(i)'
      <4> SUFFICES ASSUME content[i].annotations # <<>>
                   PROVE  AnnotationsAreCalled(i)'
        BY <1>1 DEF AnnotationsAreCalled
      <4>1. PICK own : own = Len(content[i].annotations[1].list)
        OBVIOUS
      <4>2. PICK before \in 0 .. Len(s) - own :
              \A m \in DOMAIN s :
                IF m \in before + 1 .. before + own THEN s[m] = <<i, m - before>>
                ELSE s[m][1] # i
        <5>1. AnnotationsAreCalled(i)
          BY <2>1, <3>11 DEF NotedSoFar
        <5>2. QED
          BY <2>4, <3>3, <4>1, <5>1 DEF AnnotationsAreCalled
      <4>3. own \in Int /\ i # n
        <5>1. IsLine(content[i])
          BY LineType DEF IInv, Position
        <5>2. /\ content[i].annotations \in Seq(AnyBlock)
              /\ Len(content[i].annotations) \in Nat
          BY <5>1, LenProperties DEF IsLine
        <5>3. 1 \in 1 .. Len(content[i].annotations)
          BY <5>2, EmptySeq
        <5>4. content[i].annotations[1] \in AnyBlock
          BY <5>2, <5>3, ElementOfSeq
        <5>5. content[i].annotations[1].list \in Seq(STRING)
          BY <5>4 DEF AnyBlock
        <5>6. own \in Nat
          BY <4>1, <5>5, LenProperties
        <5>7. i # n
          BY <1>2, <1>9, <3>11
        <5>8. QED
          BY <5>6, <5>7
      <4>4. before \in 0 .. Len(t) - own
        BY <1>9, <3>6, <4>2, <4>3
      <4>5. ASSUME NEW m \in DOMAIN t
            PROVE  IF m \in before + 1 .. before + own THEN t[m] = <<i, m - before>>
                   ELSE t[m][1] # i
        <5>1. CASE m \in DOMAIN s
          BY <3>6, <4>2, <5>1
        <5>2. CASE m \in Len(s) + 1 .. Len(s) + count
          <6>1. m \notin before + 1 .. before + own
            BY <3>6, <4>2, <4>3, <5>2
          <6>2. QED
            BY <3>8, <4>3, <5>2, <6>1
        <5>3. QED
          BY <3>9, <5>1, <5>2
      <4>6. own = Len(content'[i].annotations[1].list)
        BY <1>1, <4>1
      <4>7. QED
        BY <3>3, <4>4, <4>5, <4>6 DEF AnnotationsAreCalled
    <3>12. (\A m \in DOMAIN notes : notes[m][1] <= line_number)'
      <4>1. \A m \in DOMAIN t : t[m][1] <= n
        <5>1. ASSUME NEW m \in DOMAIN s PROVE t[m][1] <= n
          <6>1. t[m] \in Nat \X Nat
            BY <3>5, <3>6, ElementOfSeq
          <6>2. QED
            BY <1>9, <3>7, <6>1
        <5>2. \A m \in Len(s) + 1 .. Len(s) + count : t[m][1] <= n
          BY <1>9, <3>8
        <5>3. QED
          BY <3>9, <5>1, <5>2
      <4>2. QED
        BY <1>1, <1>2, <3>3, <4>1
    <3>13. (\A i \in DOMAIN content : i < line_number => AnnotationsAreCalled(i))'
      BY <1>1, <3>11
    <3>14. NotedSoFar'
      BY <1>1, <1>2, <3>3, <3>6, <3>10, <3>12, <3>13 DEF NotedSoFar
    <3>15. QED
      BY <2>2, <3>14
  <2>5. QED
    BY <2>3, <2>4
<1>11. QED
  BY <1>8, <1>10 DEF IInv

-----------------------------------------------------------------------------
LEMMA StepInvariant == IInv /\ [Next]_vars => IInv'
<1> SUFFICES ASSUME IInv, [Next]_vars PROVE IInv'
  OBVIOUS
<1>1. CASE UNCHANGED vars
  <2> USE <1>1 DEF vars, inputs
  <2>1. Position'
    BY DEF IInv, Position, line
  <2>2. CalledSoFar' <=> CalledSoFar
    BY DEF CalledSoFar, CalledBelow, FeatureIsCalled, IsCalled, Elements, line
  <2>3. NotedSoFar' <=> NotedSoFar
    BY DEF NotedSoFar, AnnotationsAreCalled
  <2>4. QED
    BY <2>1, <2>2, <2>3 DEF IInv
<1>2. QED
  BY <1>1, StartStep, NoFeatureStep, SkipLineStep, ReadValueStep, ReportStep,
     ReadAnnotationsStep, NoAnnotationsStep, EndOfLineStep DEF Next

THEOREM AcceptedWhole == Spec => []AcceptedIsWhole
<1>1. IInv => AcceptedIsWhole
  <2> SUFFICES ASSUME IInv, at = "done", result < kSkipped,
                      NEW i \in DOMAIN content
               PROVE  FeatureIsCalled(i) /\ AnnotationsAreCalled(i)
    BY DEF AcceptedIsWhole
  <2>1. i < line_number
    BY LineType DEF IInv, Position
  <2>2. QED
    BY <2>1 DEF IInv, CalledSoFar, NotedSoFar
<1>2. QED
  BY <1>1, InitInvariant, StepInvariant, PTL DEF Spec

THEOREM IssuesKept == Spec => SeverityKept
<1>1. IInv /\ [Next]_vars => [result' >= result]_vars
  <2> SUFFICES ASSUME IInv, Next PROVE result' >= result
    OBVIOUS
  <2>1. result \in kSuccess .. kError
    BY DEF IInv, Position
  <2>2. \A x \in kSuccess .. kError :
          result <= Worst({result, x}) /\ kError >= result /\ result >= result
    <3>1. ASSUME NEW x \in kSuccess .. kError PROVE result <= Worst({result, x})
      <4>1. {result, x} = {result} \cup {x} /\ {x} \subseteq kSuccess .. kError
        OBVIOUS
      <4>2. QED
        BY <2>1, <4>1, WorstOf
    <3>2. QED
      BY <2>1, <3>1 DEF kSuccess, kError
  <2>3. kSkipped \in kSuccess .. kError /\ kUserAbort \in kSuccess .. kError
    BY DEF kSuccess, kSkipped, kUserAbort, kError
  <2>4. result <= Worst({result} \cup Issues(line))
    BY <2>1, IssuesType, WorstOf
  <2>5. \/ result' \in {result, kError}
        \/ result' = Worst({result, kSkipped})
        \/ result' = Worst({result, kUserAbort})
        \/ result' = Worst({result} \cup Issues(line))
    BY DEF Next, Start, NoFeature, SkipLine, ReadValue, Report, ReadAnnotations,
       NoAnnotations, EndOfLine
  <2>6. result <= result'
    BY <2>1, <2>2, <2>3, <2>4, <2>5
  <2>7. QED
    BY <2>1, <2>6, StepInvariant DEF IInv, Position, kSuccess, kError
<1>2. QED
  BY <1>1, InitInvariant, StepInvariant, PTL DEF Spec, SeverityKept

-----------------------------------------------------------------------------
(* Remainders and powers of two.                                           *)

(* Division of naturals leaves less than the divisor,                      *)
LEMMA DivMod ==
  ASSUME NEW a \in Nat, NEW m \in Nat \ {0}
  PROVE  \E q, r \in Nat : r < m /\ a = q * m + r /\ a % m = r /\ a \div m = q
<1>1. a \div m \in Nat /\ a % m \in Nat /\ a % m < m
  OBVIOUS
<1>2. a = (a \div m) * m + (a % m)
  OBVIOUS
<1>3. QED
  BY <1>1, <1>2

(* and nothing else is quotient and remainder.                             *)
LEMMA DivModUnique ==
  ASSUME NEW q \in Nat, NEW r \in Nat, NEW m \in Nat \ {0}, r < m, NEW a, a = q * m + r
  PROVE  a \div m = q /\ a % m = r
  OBVIOUS

(* Multiples of the modulus do not count,                                  *)
LEMMA ModAdd ==
  ASSUME NEW q \in Nat, NEW r \in Nat, NEW m \in Nat \ {0}, NEW a, a = q * m + r
  PROVE  a % m = r % m
<1>1. PICK p, s \in Nat : s < m /\ r = p * m + s /\ r % m = s
  BY DivMod
<1>2. PICK u : u = q + p
  OBVIOUS
<1>3. u \in Nat /\ a = u * m + s
  <2>1. q * m + (p * m + s) = (q + p) * m + s
    OBVIOUS
  <2>2. QED
    BY <1>1, <1>2, <2>1
<1>4. a % m = s
  <2>1. s < m
    BY <1>1
  <2>2. QED
    BY ONLY <1>3, <2>1, m \in Nat \ {0}, s \in Nat
<1>5. QED
  BY <1>1, <1>4

(* nor does it count to have reduced by a multiple of it before,           *)
LEMMA ModMod ==
  ASSUME NEW a \in Nat, NEW m \in Nat \ {0}, NEW n \in Nat \ {0}
  PROVE  (a % (m * n)) % n = a % n
<1> DEFINE k == m * n
<1>1. k \in Nat \ {0}
  OBVIOUS
<1> HIDE DEF k
<1>2. PICK q, r \in Nat : a = q * k + r /\ r = a % k
  BY <1>1, DivMod
<1>3. PICK u : u = q * m
  OBVIOUS
<1>4. u \in Nat /\ a = u * n + r
  <2>1. q * (m * n) = (q * m) * n /\ q * m \in Nat
    OBVIOUS
  <2>2. QED
    BY <1>2, <1>3, <2>1 DEF k
<1>5. a % n = r % n
  BY <1>4, ModAdd
<1>6. QED
  BY <1>2, <1>5 DEF k

(* or to have reduced a number before a digit is appended to it.           *)
LEMMA ModStep ==
  ASSUME NEW v \in Nat, NEW b \in Nat, NEW d \in Nat, NEW m \in Nat \ {0}
  PROVE  ((v % m) * b + d) % m = (v * b + d) % m
<1>1. PICK q, r \in Nat : v = q * m + r /\ v % m = r
  BY DivMod
<1>2. PICK u, x, y : u = q * b /\ x = r * b + d /\ y = v * b + d
  OBVIOUS
<1>3. u \in Nat /\ x \in Nat /\ y = u * m + x
  <2>1. (q * m + r) * b + d = (q * b) * m + (r * b + d)
    OBVIOUS
  <2>2. QED
    BY <1>1, <1>2, <2>1
<1>4. y % m = x % m
  BY <1>3, ModAdd
<1>5. QED
  BY <1>1, <1>2, <1>4

(* What 2 ^ n is, the library says only of the number of subsets of a set: *)
(* so that powers of two are naturals,                                     *)
LEMMA PowerType == \A n \in Nat : 2 ^ n \in Nat
<1> TAKE n \in Nat
<1>1. IsFiniteSet(1 .. n) /\ Cardinality(1 .. n) = n
  BY FS_Interval
<1>2. IsFiniteSet(SUBSET (1 .. n)) /\ Cardinality(SUBSET (1 .. n)) = 2 ^ n
  BY <1>1, FS_SUBSET
<1>3. QED
  BY <1>2, FS_CardinalityType

(* and double from one to the next, comes from the subsets of 1 .. n + 1   *)
(* being those of 1 .. n, without and with n + 1.                          *)
LEMMA PowerNext == \A n \in Nat : 2 ^ (n + 1) = 2 * 2 ^ n
<1> TAKE n \in Nat
<1> DEFINE A == SUBSET (1 .. n)
           B == {s \cup {n + 1} : s \in A}
           f == [s \in A |-> s \cup {n + 1}]
<1>1. \A k \in Nat : IsFiniteSet(SUBSET (1 .. k)) /\ Cardinality(SUBSET (1 .. k)) = 2 ^ k
  <2> TAKE k \in Nat
  <2>1. IsFiniteSet(1 .. k) /\ Cardinality(1 .. k) = k
    BY FS_Interval
  <2>2. QED
    BY <2>1, FS_SUBSET
<1>2. SUBSET (1 .. n + 1) = A \cup B
  <2>1. ASSUME NEW t \in SUBSET (1 .. n + 1) PROVE t \in A \cup B
    <3>1. CASE n + 1 \in t
      <4>1. t \ {n + 1} \in A /\ t = (t \ {n + 1}) \cup {n + 1}
        BY <3>1
      <4>2. QED
        BY <4>1
    <3>2. CASE n + 1 \notin t
      BY <3>2
    <3>3. QED
      BY <3>1, <3>2
  <2>2. ASSUME NEW t \in A \cup B PROVE t \in SUBSET (1 .. n + 1)
    OBVIOUS
  <2>3. QED
    BY <2>1, <2>2
<1>3. A \cap B = {}
  OBVIOUS
<1>4. f \in Bijection(A, B)
  <2>1. \A s, t \in A : s \cup {n + 1} = t \cup {n + 1} => s = t
    OBVIOUS
  <2>2. f \in [A -> B] /\ \A t \in A : f[t] = t \cup {n + 1}
    OBVIOUS
  <2>3. \A t \in B : \E r \in A : f[r] = t
    BY <2>2
  <2> HIDE DEF f, A, B
  <2>4. f \in Injection(A, B) /\ f \in Surjection(A, B)
    BY <2>1, <2>2, <2>3 DEF Injection, Surjection, IsInjective
  <2>5. QED
    BY <2>4 DEF Bijection
<1>5. IsFiniteSet(A) /\ Cardinality(A) = 2 ^ n
  BY <1>1
<1>6. IsFiniteSet(B) /\ Cardinality(B) = 2 ^ n
  <2>1. ExistsBijection(A, B)
    BY <1>4 DEF ExistsBijection
  <2>2. QED
    BY <1>5, <2>1, FS_Bijection
<1>7. Cardinality(A \cup B) = Cardinality(A) + Cardinality(B) - Cardinality(A \cap B)
  BY <1>5, <1>6, FS_Union
<1>8. Cardinality(A \cap B) = 0
  BY <1>3, FS_EmptySet
<1>9. Cardinality(SUBSET (1 .. n + 1)) = 2 ^ (n + 1)
  BY <1>1
<1>10. 2 ^ n \in Nat
  BY PowerType
<1>11. QED
  <2> HIDE DEF A, B, f
  <2>1. PICK p, x : p = 2 ^ n /\ x = 2 ^ (n + 1)
    OBVIOUS
  <2>2. x = p + p - 0
    BY <1>2, <1>5, <1>6, <1>7, <1>8, <1>9, <2>1, Zenon
  <2>3. p \in Nat
    BY <1>10, <2>1, Zenon
  <2>4. x = 2 * p
    BY <2>2, <2>3
  <2>5. QED
    BY <2>1, <2>4, Zenon

-----------------------------------------------------------------------------
(* Induction over numbers and sequences, for the provers: what holds is    *)
(* put as a set.                                                           *)

NatLess == {ss \in Nat \X Nat : ss[1] < ss[2]}

LEMMA NatLessWellFounded == IsWellFoundedOn(NatLess, Nat)
  BY NatLessThanWellFounded DEF OpToRel, NatLess

LEMMA NatSetInduction ==
  ASSUME NEW S, 0 \in S, \A n \in Nat : n \in S => n + 1 \in S
  PROVE  Nat \subseteq S
<1> SUFFICES ASSUME Nat \ S # {} PROVE FALSE
  OBVIOUS
<1>1. PICK n \in Nat \ S : \A m \in Nat \ S : ~ (<<m, n>> \in NatLess)
  <2>1. Nat \ S \subseteq Nat
    OBVIOUS
  <2>2. QED
    BY <2>1, NatLessWellFounded, WFMin
<1>2. n # 0 /\ n - 1 \in Nat /\ n - 1 < n
  BY <1>1
<1>3. <<n - 1, n>> \in NatLess
  BY <1>2 DEF NatLess
<1>4. n - 1 \in S
  BY <1>1, <1>2, <1>3
<1>5. QED
  BY <1>1, <1>2, <1>4

(* What holds for the empty sequence and from a sequence to a longer one   *)
(* holds for all.                                                          *)
LEMMA SeqSetInduction ==
  ASSUME NEW S, NEW T, <<>> \in T,
         \A s \in Seq(S), e \in S : s \in T => Append(s, e) \in T
  PROVE  Seq(S) \subseteq T
<1> DEFINE K == {n \in Nat : \A s \in Seq(S) : Len(s) = n => s \in T}
<1>1. 0 \in K
  BY EmptySeq
<1>2. ASSUME NEW n \in Nat, n \in K
      PROVE  n + 1 \in K
  <2> SUFFICES ASSUME NEW s \in Seq(S), Len(s) = n + 1 PROVE s \in T
    OBVIOUS
  <2>1. s # <<>>
    BY EmptySeq
  <2>2. PICK front \in Seq(S), e \in S : s = Append(front, e)
    BY <2>1, SequenceEmptyOrAppend
  <2>3. Len(front) = n
    BY <2>2, AppendProperties, LenProperties
  <2>4. QED
    BY <1>2, <2>2, <2>3
<1>3. Nat \subseteq K
  <2> HIDE DEF K
  <2>1. QED
    BY <1>1, <1>2, NatSetInduction
<1>4. QED
  BY <1>3, LenProperties

-----------------------------------------------------------------------------
(* Numbers of any length, as the code reads them: digit by digit.          *)

(* One digit more; a limit of 0 is none.                                   *)
Step(v, d, base, limit) ==
  IF limit = 0 THEN v * base + d ELSE (v * base + d) % limit

(* FoldLeft of the digits s is the value at 1 .. n of a function on sets   *)
(* of positions, which takes the greatest position off a set. It is the    *)
(* one that this chooses.                                                  *)
IsFold(f, s, n, base, limit) ==
  f = [t \in SUBSET (1 .. n) |->
         IF t = {} THEN 0 ELSE Step(f[t \ {Max(t)}], s[Max(t)], base, limit)]

(* The greatest position of a set of the first n + 1 that has the last.    *)
LEMMA MaxOfPrefix ==
  ASSUME NEW n \in Nat, NEW t, t \subseteq 1 .. n + 1, n + 1 \in t
  PROVE  Max(t) = n + 1
<1>1. n + 1 \in t /\ \A y \in t : n + 1 >= y
  OBVIOUS
<1>2. Max(t) \in t /\ \A y \in t : Max(t) >= y
  BY <1>1 DEF Max
<1>3. Max(t) \in 1 .. n + 1 /\ Max(t) >= n + 1
  BY <1>1, <1>2
<1>4. \A x \in 1 .. n + 1 : x >= n + 1 => x = n + 1
  OBVIOUS
<1>5. QED
  BY <1>3, <1>4

(* There is such a function for every number of digits.                    *)
LEMMA FoldsExist ==
  ASSUME NEW s, NEW base, NEW limit, NEW n \in Nat
  PROVE  \E f : IsFold(f, s, n, base, limit)
<1> DEFINE K == {k \in Nat : \E f : IsFold(f, s, k, base, limit)}
<1>1. 0 \in K
  <2> DEFINE f == [t \in {{}} |-> 0]
  <2>1. SUBSET (1 .. 0) = {{}}
    OBVIOUS
  <2>2. f = [t \in {{}} |-> IF t = {} THEN 0
                            ELSE Step(f[t \ {Max(t)}], s[Max(t)], base, limit)]
    OBVIOUS
  <2> HIDE DEF f
  <2>3. IsFold(f, s, 0, base, limit)
    BY <2>1, <2>2 DEF IsFold
  <2>4. QED
    BY <2>3
<1>2. ASSUME NEW k \in Nat, k \in K PROVE k + 1 \in K
  <2>1. PICK f : IsFold(f, s, k, base, limit)
    BY <1>2
  <2> DEFINE g == [t \in SUBSET (1 .. k + 1) |->
                     IF k + 1 \in t
                     THEN Step(f[t \ {k + 1}], s[k + 1], base, limit) ELSE f[t]]
             Body(h, t) == IF t = {} THEN 0
                           ELSE Step(h[t \ {Max(t)}], s[Max(t)], base, limit)
  <2>2. \A t \in SUBSET (1 .. k) : f[t] = Body(f, t) /\ g[t] = f[t]
    <3>1. \A t \in SUBSET (1 .. k) : f[t] = Body(f, t)
      BY <2>1 DEF IsFold
    <3>2. \A t \in SUBSET (1 .. k) : t \in SUBSET (1 .. k + 1) /\ k + 1 \notin t
      OBVIOUS
    <3>3. QED
      BY <3>1, <3>2
  <2>3. ASSUME NEW t \in SUBSET (1 .. k + 1) PROVE g[t] = Body(g, t)
    <3>1. CASE k + 1 \in t
      <4>1. Max(t) = k + 1 /\ t # {}
        BY <3>1, MaxOfPrefix
      <4>2. t \ {k + 1} \in SUBSET (1 .. k)
        OBVIOUS
      <4>3. g[t \ {k + 1}] = f[t \ {k + 1}]
        BY <2>2, <4>2
      <4>4. g[t] = Step(f[t \ {k + 1}], s[k + 1], base, limit)
        BY <3>1
      <4> HIDE DEF g
      <4>5. QED
        BY <4>1, <4>3, <4>4
    <3>2. CASE k + 1 \notin t
      <4>1. t \in SUBSET (1 .. k)
        BY <3>2
      <4>2. g[t] = Body(f, t)
        BY <2>2, <4>1
      <4>3. t # {} => g[t \ {Max(t)}] = f[t \ {Max(t)}]
        BY <2>2, <4>1
      <4> HIDE DEF g
      <4>4. QED
        BY <4>2, <4>3
    <3>3. QED
      BY <3>1, <3>2
  <2>4. g = [t \in SUBSET (1 .. k + 1) |-> g[t]]
    OBVIOUS
  <2> HIDE DEF g
  <2>5. g = [t \in SUBSET (1 .. k + 1) |-> Body(g, t)]
    BY <2>3, <2>4
  <2>6. IsFold(g, s, k + 1, base, limit)
    BY <2>5 DEF IsFold
  <2>7. QED
    BY <2>6
<1>3. Nat \subseteq K
  <2> HIDE DEF K
  <2>1. QED
    BY <1>1, <1>2, NatSetInduction
<1>4. QED
  BY <1>3

(* What a fold makes of the first elements.                                *)
LEMMA FoldOfPrefix ==
  ASSUME NEW f, NEW s, NEW base, NEW limit, NEW n \in Nat, IsFold(f, s, n, base, limit)
  PROVE  /\ f[{}] = 0
         /\ \A k \in 0 .. n - 1 : f[1 .. k + 1] = Step(f[1 .. k], s[k + 1], base, limit)
<1> DEFINE Body(t) == IF t = {} THEN 0
                      ELSE Step(f[t \ {Max(t)}], s[Max(t)], base, limit)
<1>1. \A t \in SUBSET (1 .. n) : f[t] = Body(t)
  BY DEF IsFold
<1>2. f[{}] = 0
  BY <1>1
<1>3. ASSUME NEW k \in 0 .. n - 1
      PROVE  f[1 .. k + 1] = Step(f[1 .. k], s[k + 1], base, limit)
  <2>1. PICK t : t = 1 .. k + 1
    OBVIOUS
  <2>2. t \in SUBSET (1 .. n) /\ t # {} /\ t \ {k + 1} = 1 .. k
    BY <2>1
  <2>3. Max(t) = k + 1
    <3>1. k \in Nat /\ t \subseteq 1 .. k + 1 /\ k + 1 \in t
      BY <2>1
    <3>2. QED
      BY <3>1, MaxOfPrefix
  <2>4. QED
    BY <1>1, <2>1, <2>2, <2>3
<1>4. QED
  BY <1>2, <1>3

(* Folds of sequences that agree on the first elements agree there.        *)
LEMMA FoldsAgree ==
  ASSUME NEW f, NEW g, NEW s, NEW t, NEW base, NEW limit, NEW m \in Nat, NEW n \in Nat,
         m <= n, IsFold(f, s, m, base, limit), IsFold(g, t, n, base, limit),
         \A i \in 1 .. m : s[i] = t[i]
  PROVE  f[1 .. m] = g[1 .. m]
<1> DEFINE K == {k \in Nat : k <= m => f[1 .. k] = g[1 .. k]}
<1>1. 0 \in K
  <2>1. 1 .. 0 = {}
    OBVIOUS
  <2>2. f[{}] = 0 /\ g[{}] = 0
    BY FoldOfPrefix
  <2>3. QED
    BY <2>1, <2>2
<1>2. ASSUME NEW k \in Nat, k \in K PROVE k + 1 \in K
  <2> SUFFICES ASSUME k + 1 <= m PROVE f[1 .. k + 1] = g[1 .. k + 1]
    OBVIOUS
  <2>1. k \in 0 .. m - 1 /\ k \in 0 .. n - 1
    OBVIOUS
  <2>2. f[1 .. k + 1] = Step(f[1 .. k], s[k + 1], base, limit)
    BY <2>1, FoldOfPrefix
  <2>3. g[1 .. k + 1] = Step(g[1 .. k], t[k + 1], base, limit)
    BY <2>1, FoldOfPrefix
  <2>4. f[1 .. k] = g[1 .. k] /\ s[k + 1] = t[k + 1]
    BY <1>2, <2>1
  <2>5. QED
    BY <2>2, <2>3, <2>4
<1>3. Nat \subseteq K
  <2> HIDE DEF K
  <2>1. QED
    BY <1>1, <1>2, NatSetInduction
<1>4. QED
  BY <1>3

(* The number that digits are, as a fold,                                  *)
LEMMA NumberIsFold ==
  ASSUME NEW s \in Seq(Nat), NEW base
  PROVE  \E f : IsFold(f, s, Len(s), base, 0) /\ Number(s, base) = f[1 .. Len(s)]
<1> DEFINE f == CHOOSE g : g = [t \in SUBSET (DOMAIN s) |->
                   IF t = {} THEN 0 ELSE g[t \ {Max(t)}] * base + s[Max(t)]]
<1>1. DOMAIN s = 1 .. Len(s) /\ Len(s) \in Nat
  BY LenProperties
<1>2. \A g : IsFold(g, s, Len(s), base, 0) <=>
               g = [t \in SUBSET (DOMAIN s) |->
                      IF t = {} THEN 0 ELSE g[t \ {Max(t)}] * base + s[Max(t)]]
  BY <1>1 DEF IsFold, Step
<1>3. \E g : IsFold(g, s, Len(s), base, 0)
  BY <1>1, FoldsExist
<1>4. IsFold(f, s, Len(s), base, 0)
  BY <1>2, <1>3
<1>5. Number(s, base) = f[DOMAIN s]
  BY DEF Number, FoldLeft, MapThenFoldSet
<1>6. QED
  BY <1>1, <1>4, <1>5

(* and the number that is kept in a width.                                 *)
LEMMA NumberWithBaseIsFold ==
  ASSUME NEW s \in Seq(Nat), NEW base, NEW limit, limit # 0
  PROVE  \E f : /\ IsFold(f, s, Len(s), base, limit)
                /\ NumberWithBase(s, base, limit) = f[1 .. Len(s)]
<1> DEFINE f == CHOOSE g : g = [t \in SUBSET (DOMAIN s) |->
                   IF t = {} THEN 0
                   ELSE (g[t \ {Max(t)}] * base + s[Max(t)]) % limit]
<1>1. DOMAIN s = 1 .. Len(s) /\ Len(s) \in Nat
  BY LenProperties
<1>2. \A g : IsFold(g, s, Len(s), base, limit) <=>
               g = [t \in SUBSET (DOMAIN s) |->
                      IF t = {} THEN 0
                      ELSE (g[t \ {Max(t)}] * base + s[Max(t)]) % limit]
  BY <1>1 DEF IsFold, Step
<1>3. \E g : IsFold(g, s, Len(s), base, limit)
  BY <1>1, FoldsExist
<1>4. IsFold(f, s, Len(s), base, limit)
  BY <1>2, <1>3
<1>5. NumberWithBase(s, base, limit) = f[DOMAIN s]
  BY DEF NumberWithBase, FoldLeft, MapThenFoldSet
<1>6. QED
  BY <1>1, <1>4, <1>5

(* A digit more: the number is multiplied by the base,                     *)
LEMMA NumberAppended ==
  ASSUME NEW s \in Seq(Nat), NEW d \in Nat, NEW base
  PROVE  Number(Append(s, d), base) = Number(s, base) * base + d
<1> DEFINE t == Append(s, d)
<1>1. /\ t \in Seq(Nat) /\ Len(t) = Len(s) + 1 /\ t[Len(s) + 1] = d
      /\ \A i \in 1 .. Len(s) : s[i] = t[i]
  BY AppendProperties
<1>2. Len(s) \in Nat /\ Len(t) \in Nat /\ Len(s) <= Len(t) /\ Len(s) \in 0 .. Len(t) - 1
  BY <1>1, LenProperties
<1> HIDE DEF t
<1>3. PICK f : IsFold(f, s, Len(s), base, 0) /\ Number(s, base) = f[1 .. Len(s)]
  BY NumberIsFold
<1>4. PICK g : IsFold(g, t, Len(t), base, 0) /\ Number(t, base) = g[1 .. Len(t)]
  BY <1>1, NumberIsFold
<1>5. f[1 .. Len(s)] = g[1 .. Len(s)]
  <2>1. PICK m \in Nat, n \in Nat : m = Len(s) /\ n = Len(t)
    BY <1>2
  <2>2. /\ IsFold(f, s, m, base, 0) /\ IsFold(g, t, n, base, 0)
        /\ m <= n /\ \A i \in 1 .. m : s[i] = t[i]
    BY <1>1, <1>2, <1>3, <1>4, <2>1
  <2>3. f[1 .. m] = g[1 .. m]
    BY <2>2, FoldsAgree
  <2>4. QED
    BY <2>1, <2>3
<1>6. g[1 .. Len(s) + 1] = Step(g[1 .. Len(s)], t[Len(s) + 1], base, 0)
  BY <1>2, <1>4, FoldOfPrefix
<1>7. QED
  BY <1>1, <1>3, <1>4, <1>5, <1>6 DEF Step, t

(* and so is the one that is kept in a width.                              *)
LEMMA WrappedAppended ==
  ASSUME NEW s \in Seq(Nat), NEW d \in Nat, NEW base, NEW limit, limit # 0
  PROVE  NumberWithBase(Append(s, d), base, limit)
           = (NumberWithBase(s, base, limit) * base + d) % limit
<1> DEFINE t == Append(s, d)
<1>1. /\ t \in Seq(Nat) /\ Len(t) = Len(s) + 1 /\ t[Len(s) + 1] = d
      /\ \A i \in 1 .. Len(s) : s[i] = t[i]
  BY AppendProperties
<1>2. Len(s) \in Nat /\ Len(t) \in Nat /\ Len(s) <= Len(t) /\ Len(s) \in 0 .. Len(t) - 1
  BY <1>1, LenProperties
<1> HIDE DEF t
<1>3. PICK f : /\ IsFold(f, s, Len(s), base, limit)
               /\ NumberWithBase(s, base, limit) = f[1 .. Len(s)]
  BY NumberWithBaseIsFold
<1>4. PICK g : /\ IsFold(g, t, Len(t), base, limit)
               /\ NumberWithBase(t, base, limit) = g[1 .. Len(t)]
  BY <1>1, NumberWithBaseIsFold
<1>5. f[1 .. Len(s)] = g[1 .. Len(s)]
  <2>1. PICK m \in Nat, n \in Nat : m = Len(s) /\ n = Len(t)
    BY <1>2
  <2>2. /\ IsFold(f, s, m, base, limit) /\ IsFold(g, t, n, base, limit)
        /\ m <= n /\ \A i \in 1 .. m : s[i] = t[i]
    BY <1>1, <1>2, <1>3, <1>4, <2>1
  <2>3. f[1 .. m] = g[1 .. m]
    BY <2>2, FoldsAgree
  <2>4. QED
    BY <2>1, <2>3
<1>6. g[1 .. Len(s) + 1] = Step(g[1 .. Len(s)], t[Len(s) + 1], base, limit)
  BY <1>2, <1>4, FoldOfPrefix
<1>7. QED
  BY <1>1, <1>3, <1>4, <1>5, <1>6 DEF Step, t

(* No digits are zero.                                                     *)
LEMMA NumberOfNone ==
  ASSUME NEW base
  PROVE  /\ Number(<<>>, base) = 0
         /\ \A limit : limit # 0 => NumberWithBase(<<>>, base, limit) = 0
<1>1. <<>> \in Seq(Nat) /\ Len(<<>>) = 0 /\ 0 \in Nat /\ 1 .. 0 = {}
  OBVIOUS
<1>2. Number(<<>>, base) = 0
  <2>1. PICK f : IsFold(f, <<>>, Len(<<>>), base, 0) /\ Number(<<>>, base) = f[1 .. Len(<<>>)]
    BY <1>1, NumberIsFold
  <2>2. IsFold(f, <<>>, 0, base, 0) /\ Number(<<>>, base) = f[{}]
    BY <1>1, <2>1
  <2>3. QED
    BY <1>1, <2>2, FoldOfPrefix
<1>3. ASSUME NEW limit, limit # 0 PROVE NumberWithBase(<<>>, base, limit) = 0
  <2>1. PICK f : /\ IsFold(f, <<>>, Len(<<>>), base, limit)
                 /\ NumberWithBase(<<>>, base, limit) = f[1 .. Len(<<>>)]
    BY <1>1, <1>3, NumberWithBaseIsFold
  <2>2. IsFold(f, <<>>, 0, base, limit) /\ NumberWithBase(<<>>, base, limit) = f[{}]
    BY <1>1, <2>1
  <2>3. QED
    BY <1>1, <2>2, FoldOfPrefix
<1>4. QED
  BY <1>2, <1>3

(* A number is a natural.                                                  *)
LEMMA NumberType ==
  ASSUME NEW base \in Nat, NEW s \in Seq(Nat)
  PROVE  Number(s, base) \in Nat
<1> DEFINE T == {t \in Seq(Nat) : Number(t, base) \in Nat}
<1>1. <<>> \in T
  BY NumberOfNone
<1>2. ASSUME NEW t \in Seq(Nat), NEW d \in Nat, t \in T PROVE Append(t, d) \in T
  <2>1. Number(Append(t, d), base) = Number(t, base) * base + d
    BY NumberAppended
  <2>2. \A x \in Nat : x * base + d \in Nat
    OBVIOUS
  <2>3. Append(t, d) \in Seq(Nat)
    BY AppendProperties
  <2>4. QED
    BY <1>2, <2>1, <2>2, <2>3
<1>3. Seq(Nat) \subseteq T
  <2> HIDE DEF T
  <2>1. QED
    BY <1>1, <1>2, SeqSetInduction
<1>4. QED
  BY <1>3

(* Wrapping after each digit, as the code does, is wrapping at the end.    *)
LEMMA NumberWraps ==
  ASSUME NEW base \in Nat, NEW limit \in Nat \ {0}, NEW s \in Seq(Nat)
  PROVE  NumberWithBase(s, base, limit) = Number(s, base) % limit
<1> DEFINE T == {t \in Seq(Nat) : NumberWithBase(t, base, limit) = Number(t, base) % limit}
<1>1. <<>> \in T
  BY NumberOfNone
<1>2. ASSUME NEW t \in Seq(Nat), NEW d \in Nat, t \in T PROVE Append(t, d) \in T
  <2>1. PICK x \in Nat : x = Number(t, base)
    BY NumberType
  <2>2. Number(Append(t, d), base) = x * base + d
    BY <2>1, NumberAppended
  <2>3. NumberWithBase(Append(t, d), base, limit) = ((x % limit) * base + d) % limit
    BY <1>2, <2>1, WrappedAppended
  <2>4. ((x % limit) * base + d) % limit = (x * base + d) % limit
    BY ModStep
  <2>5. Append(t, d) \in Seq(Nat)
    BY AppendProperties
  <2>6. QED
    BY <2>2, <2>3, <2>4, <2>5
<1>3. Seq(Nat) \subseteq T
  <2> HIDE DEF T
  <2>1. QED
    BY <1>1, <1>2, SeqSetInduction
<1>4. QED
  BY <1>3

(* Powers of two are positive and double.                                  *)
LEMMA PowersOfTwo ==
  /\ 2 ^ 0 = 1 /\ 2 ^ 1 = 2 /\ 2 ^ 4 = 16
  /\ \A n \in Nat : 2 ^ n \in Nat \ {0} /\ 2 ^ (n + 1) = 2 * 2 ^ n
<1>1. 2 ^ 0 = 1 /\ 2 ^ 1 = 2 /\ 2 ^ 4 = 16
  OBVIOUS
<1> DEFINE K == {n \in Nat : 2 ^ n > 0}
<1>2. Nat \subseteq K
  <2>1. 0 \in K
    BY <1>1
  <2>2. ASSUME NEW n \in Nat, n \in K PROVE n + 1 \in K
    <3>1. PICK p, q : p = 2 ^ n /\ q = 2 ^ (n + 1)
      OBVIOUS
    <3>2. p > 0 /\ p \in Nat /\ q = 2 * p
      BY <2>2, <3>1, PowerType, PowerNext, Zenon
    <3>3. q > 0
      BY <3>2
    <3>4. n + 1 \in Nat
      OBVIOUS
    <3>5. QED
      BY <3>1, <3>3, <3>4, Zenon
  <2> HIDE DEF K
  <2>3. QED
    BY <2>1, <2>2, NatSetInduction
<1>3. \A n \in Nat : 2 ^ n > 0
  BY <1>2
<1>4. \A x : x \in Nat /\ x > 0 => x \in Nat \ {0}
  OBVIOUS
<1>5. \A n \in Nat : 2 ^ n \in Nat \ {0} /\ 2 ^ (n + 1) = 2 * 2 ^ n
  BY <1>3, <1>4, PowerType, PowerNext, Zenon
<1>6. QED
  BY <1>1, <1>5, Zenon

(* The power of a sum is the product of the powers.                        *)
LEMMA PowerOfSum ==
  ASSUME NEW m \in Nat, NEW n \in Nat
  PROVE  2 ^ (m + n) = 2 ^ m * 2 ^ n
<1> DEFINE K == {k \in Nat : 2 ^ (m + k) = 2 ^ m * 2 ^ k}
<1>1. 0 \in K
  <2>1. m + 0 = m /\ \A p \in Nat : p = p * 1
    OBVIOUS
  <2>2. 2 ^ m \in Nat
    BY PowerType
  <2>3. 2 ^ m = 2 ^ m * 2 ^ 0
    BY <2>1, <2>2, PowersOfTwo, Zenon
  <2>4. QED
    BY <2>1, <2>3, Zenon
<1>2. ASSUME NEW k \in Nat, k \in K PROVE k + 1 \in K
  <2>1. PICK p, q, r : p = 2 ^ m /\ q = 2 ^ k /\ r = 2 ^ (k + 1)
    OBVIOUS
  <2>2. p \in Nat /\ q \in Nat /\ r = 2 * q
    BY <2>1, PowersOfTwo, PowerType, Zenon
  <2>3. 2 ^ (m + k) = p * q
    BY <1>2, <2>1, Zenon
  <2>4. m + k \in Nat /\ m + (k + 1) = (m + k) + 1 /\ k + 1 \in Nat
    OBVIOUS
  <2>5. 2 ^ (m + (k + 1)) = 2 * (p * q)
    BY <2>3, <2>4, PowersOfTwo, Zenon
  <2>6. 2 * (p * q) = p * r
    BY <2>2
  <2>7. QED
    BY <2>1, <2>4, <2>5, <2>6, Zenon
<1>3. Nat \subseteq K
  <2> HIDE DEF K
  <2>1. QED
    BY <1>1, <1>2, NatSetInduction
<1>4. QED
  BY <1>3

(* The bits of one digit more.                                             *)
LEMMA PowerOfDigits ==
  ASSUME NEW b \in Nat, NEW n \in Nat
  PROVE  /\ b * n \in Nat /\ b * (n + 1) \in Nat
         /\ 2 ^ (b * (n + 1)) = 2 ^ (b * n) * 2 ^ b
         /\ 2 ^ (b * 0) = 1
<1>1. b * n \in Nat /\ b * (n + 1) \in Nat /\ b * (n + 1) = b * n + b /\ b * 0 = 0
  OBVIOUS
<1>2. 2 ^ (b * n + b) = 2 ^ (b * n) * 2 ^ b
  BY <1>1, PowerOfSum
<1>3. 2 ^ (b * (n + 1)) = 2 ^ (b * n) * 2 ^ b /\ 2 ^ (b * 0) = 1
  BY <1>1, <1>2, PowersOfTwo, Zenon
<1>4. QED
  BY <1>1, <1>3, Zenon

(* n digits of b bits make a number of at most n * b bits.                 *)
LEMMA NumberBelow ==
  ASSUME NEW b \in Nat, NEW s \in Seq(0 .. 2 ^ b - 1)
  PROVE  Number(s, 2 ^ b) < 2 ^ (b * Len(s))
<1>1. PICK B \in Nat \ {0} : B = 2 ^ b
  BY PowersOfTwo
<1> DEFINE D == 0 .. B - 1
           T == {t \in Seq(D) : Number(t, B) < 2 ^ (b * Len(t))}
<1>2. Seq(D) \subseteq Seq(Nat)
  BY SeqMonotonic
<1>3. <<>> \in T
  <2>1. Number(<<>>, B) = 0 /\ <<>> \in Seq(D)
    BY NumberOfNone
  <2>2. Len(<<>>) = 0
    OBVIOUS
  <2>3. 2 ^ (b * Len(<<>>)) = 1
    BY <2>2, PowerOfDigits, Zenon
  <2>4. QED
    BY <2>1, <2>3
<1>4. ASSUME NEW t \in Seq(D), NEW d \in D, t \in T PROVE Append(t, d) \in T
  <2>1. Number(Append(t, d), B) = Number(t, B) * B + d
    BY <1>2, NumberAppended
  <2>2. /\ Append(t, d) \in Seq(D) /\ Len(Append(t, d)) = Len(t) + 1
        /\ Len(t) \in Nat
    BY AppendProperties, LenProperties
  <2>3. PICK x, p, q : /\ x = Number(t, B) /\ p = 2 ^ (b * Len(t))
                       /\ q = 2 ^ (b * (Len(t) + 1))
    OBVIOUS
  <2>4. x \in Nat
    BY <1>2, <2>3, NumberType
  <2>5. p \in Nat /\ q = p * B
    BY <1>1, <2>2, <2>3, PowerOfDigits, PowersOfTwo, Zenon
  <2>6. x < p
    BY <1>4, <2>3, Zenon
  <2>7. x * B + d < p * B
    <3>1. p - x \in Nat \ {0} /\ p * B = x * B + (p - x) * B
      BY <2>4, <2>5, <2>6
    <3>2. (p - x) * B >= B
      <4>1. PICK k \in Nat : p - x = k + 1
        <5>1. (p - x) - 1 \in Nat /\ p - x = ((p - x) - 1) + 1
          BY <2>4, <2>5, <2>6
        <5>2. QED
          BY <5>1
      <4>2. (k + 1) * B = k * B + B /\ k * B \in Nat
        OBVIOUS
      <4>3. QED
        BY <4>1, <4>2
    <3>3. QED
      BY <2>4, <2>5, <3>1, <3>2
  <2>8. Number(Append(t, d), B) < 2 ^ (b * Len(Append(t, d)))
    BY <2>1, <2>2, <2>3, <2>5, <2>7, Zenon
  <2>9. QED
    BY <2>2, <2>8
<1>5. Seq(D) \subseteq T
  <2> HIDE DEF T
  <2>1. QED
    BY <1>3, <1>4, SeqSetInduction
<1>6. s \in Seq(D)
  BY <1>1, Zenon
<1>7. QED
  BY <1>1, <1>5, <1>6, Zenon

(* Appending to the second of two sequences appends to both.               *)
LEMMA AppendToConcat ==
  ASSUME NEW S, NEW s \in Seq(S), NEW t \in Seq(S), NEW d \in S
  PROVE  s \o Append(t, d) = Append(s \o t, d)
<1>1. /\ Append(t, d) \in Seq(S) /\ Len(Append(t, d)) = Len(t) + 1
      /\ \A i \in 1 .. Len(t) : Append(t, d)[i] = t[i]
      /\ Append(t, d)[Len(t) + 1] = d
  BY AppendProperties
<1>2. /\ s \o t \in Seq(S) /\ Len(s \o t) = Len(s) + Len(t)
      /\ \A i \in 1 .. Len(s) + Len(t) :
           (s \o t)[i] = IF i <= Len(s) THEN s[i] ELSE t[i - Len(s)]
  BY ConcatProperties
<1>3. /\ Append(s \o t, d) \in Seq(S) /\ Len(Append(s \o t, d)) = Len(s \o t) + 1
      /\ \A i \in 1 .. Len(s \o t) : Append(s \o t, d)[i] = (s \o t)[i]
      /\ Append(s \o t, d)[Len(s \o t) + 1] = d
  BY <1>2, AppendProperties
<1>4. /\ s \o Append(t, d) \in Seq(S)
      /\ Len(s \o Append(t, d)) = Len(s) + Len(Append(t, d))
      /\ \A i \in 1 .. Len(s) + Len(Append(t, d)) :
           (s \o Append(t, d))[i]
             = IF i <= Len(s) THEN s[i] ELSE Append(t, d)[i - Len(s)]
  BY <1>1, ConcatProperties
<1>5. Len(s) \in Nat /\ Len(t) \in Nat
  BY LenProperties
<1>6. Len(s \o Append(t, d)) = Len(Append(s \o t, d))
  BY <1>1, <1>2, <1>3, <1>4, <1>5
<1>7. ASSUME NEW i \in 1 .. Len(s) + Len(t) + 1
      PROVE  (s \o Append(t, d))[i] = Append(s \o t, d)[i]
  <2>1. CASE i <= Len(s)
    BY <1>1, <1>2, <1>3, <1>4, <1>5, <2>1
  <2>2. CASE i > Len(s) /\ i <= Len(s) + Len(t)
    <3>1. i - Len(s) \in 1 .. Len(t) /\ i \in 1 .. Len(s) + Len(t) /\ ~ i <= Len(s)
      BY <1>5, <2>2
    <3>2. QED
      BY <1>1, <1>2, <1>3, <1>4, <1>5, <3>1
  <2>3. CASE i = Len(s) + Len(t) + 1
    <3>1. i - Len(s) = Len(t) + 1 /\ ~ i <= Len(s)
      BY <1>5, <2>3
    <3>2. QED
      BY <1>1, <1>2, <1>3, <1>4, <1>5, <2>3, <3>1
  <2>4. QED
    BY <1>5, <2>1, <2>2, <2>3
<1>8. QED
  BY <1>1, <1>2, <1>3, <1>4, <1>5, <1>6, <1>7, SeqEqual

(* Digits followed by others: the first are worth more by the bits of the  *)
(* second.                                                                 *)
LEMMA NumberOfConcat ==
  ASSUME NEW b \in Nat, NEW s \in Seq(Nat), NEW t \in Seq(Nat)
  PROVE  Number(s \o t, 2 ^ b) = Number(s, 2 ^ b) * 2 ^ (b * Len(t)) + Number(t, 2 ^ b)
<1>1. PICK B \in Nat \ {0} : B = 2 ^ b
  BY PowersOfTwo
<1>2. PICK x \in Nat : x = Number(s, B)
  BY NumberType
<1> DEFINE T == {u \in Seq(Nat) :
                   Number(s \o u, B) = x * 2 ^ (b * Len(u)) + Number(u, B)}
<1>3. <<>> \in T
  <2>1. Number(<<>>, B) = 0 /\ <<>> \in Seq(Nat) /\ s \o <<>> = s
    BY NumberOfNone, ConcatEmptySeq
  <2>2. Len(<<>>) = 0
    OBVIOUS
  <2>3. 2 ^ (b * Len(<<>>)) = 1
    BY <2>2, PowerOfDigits, Zenon
  <2>4. x = x * 1 + 0
    OBVIOUS
  <2>5. Number(s \o <<>>, B) = x * 2 ^ (b * Len(<<>>)) + Number(<<>>, B)
    BY <1>2, <2>1, <2>3, <2>4, Zenon
  <2>6. QED
    BY <2>1, <2>5
<1>4. ASSUME NEW u \in Seq(Nat), NEW d \in Nat, u \in T PROVE Append(u, d) \in T
  <2>1. s \o u \in Seq(Nat) /\ s \o Append(u, d) = Append(s \o u, d)
    BY AppendToConcat, ConcatProperties
  <2>2. /\ Append(u, d) \in Seq(Nat) /\ Len(Append(u, d)) = Len(u) + 1
        /\ Len(u) \in Nat
    BY AppendProperties, LenProperties
  <2>3. PICK y, p, q : /\ y = Number(u, B) /\ p = 2 ^ (b * Len(u))
                       /\ q = 2 ^ (b * (Len(u) + 1))
    OBVIOUS
  <2>4. y \in Nat
    BY <2>3, NumberType
  <2>5. p \in Nat /\ q = p * B
    BY <1>1, <2>2, <2>3, PowerOfDigits, PowersOfTwo, Zenon
  <2>6. Number(s \o u, B) = x * p + y
    BY <1>4, <2>3, Zenon
  <2>7. Number(s \o Append(u, d), B) = (x * p + y) * B + d
    BY <2>1, <2>6, NumberAppended
  <2>8. Number(Append(u, d), B) = y * B + d
    BY <2>3, NumberAppended
  <2>9. (x * p + y) * B + d = x * (p * B) + (y * B + d)
    BY <2>4, <2>5
  <2>10. Number(s \o Append(u, d), B) = x * q + Number(Append(u, d), B)
    BY <2>5, <2>7, <2>8, <2>9, Zenon
  <2>11. QED
    BY <2>2, <2>3, <2>10
<1>5. Seq(Nat) \subseteq T
  <2> HIDE DEF T
  <2>1. QED
    BY <1>3, <1>4, SeqSetInduction
<1>6. QED
  BY <1>1, <1>2, <1>5, Zenon

(* Dividing twice is dividing by the product.                              *)
LEMMA DivDiv ==
  ASSUME NEW n \in Nat, NEW a \in Nat \ {0}, NEW b \in Nat \ {0}
  PROVE  (n \div a) \div b = n \div (a * b)
<1>1. PICK q, r \in Nat : r < a /\ n = q * a + r /\ n \div a = q
  BY DivMod
<1>2. PICK p, t \in Nat : t < b /\ q = p * b + t /\ q \div b = p
  BY DivMod
<1>3. PICK rest : rest = t * a + r
  OBVIOUS
<1>4. n = p * (a * b) + rest
  <2>1. (p * b + t) * a + r = p * (a * b) + (t * a + r)
    BY <1>1, <1>2
  <2>2. QED
    BY <1>1, <1>2, <1>3, <2>1
<1>5. rest \in Nat /\ rest < a * b
  <2>1. PICK u \in Nat : b = t + 1 + u
    <3>1. b - t - 1 \in Nat
      BY <1>2
    <3>2. b = t + 1 + (b - t - 1)
      BY <1>2
    <3>3. QED
      BY <3>1, <3>2
  <2>2. a * (t + 1 + u) = t * a + a + a * u /\ a * u \in Nat /\ t * a \in Nat
    BY <1>2
  <2>3. QED
    BY <1>1, <1>3, <2>1, <2>2
<1>6. a * b \in Nat \ {0}
  OBVIOUS
<1>7. n \div (a * b) = p
  BY <1>4, <1>5, <1>6, DivModUnique
<1>8. QED
  BY <1>1, <1>2, <1>7

(* Of what is left below 2 ^ w, the first w bits are those of the number   *)
(* and the others are 0;                                                   *)
LEMMA BitBelow ==
  ASSUME NEW x \in Nat, NEW w \in Nat, NEW j \in Nat
  PROVE  ((x % 2 ^ w) \div 2 ^ j) % 2 = IF j < w THEN (x \div 2 ^ j) % 2 ELSE 0
<1>1. PICK W \in Nat \ {0}, J \in Nat \ {0} : W = 2 ^ w /\ J = 2 ^ j
  BY PowersOfTwo
<1>2. PICK q, r \in Nat : r < W /\ x = q * W + r /\ x % W = r
  BY DivMod
<1>3. PICK p, t \in Nat : t < J /\ r = p * J + t /\ r \div J = p
  BY <1>1, DivMod
<1>4. CASE j < w
  <2>1. PICK d \in Nat : w = (d + 1) + j
    <3>1. w - j - 1 \in Nat /\ w = ((w - j - 1) + 1) + j
      BY <1>4
    <3>2. QED
      BY <3>1
  <2>2. PICK D \in Nat \ {0} : D = 2 ^ d
    BY PowersOfTwo
  <2>3. W = (2 * D) * J
    <3>1. 2 ^ ((d + 1) + j) = 2 ^ (d + 1) * 2 ^ j
      BY PowerOfSum
    <3>2. 2 ^ (d + 1) = 2 * 2 ^ d
      BY PowersOfTwo
    <3>3. QED
      BY <1>1, <2>1, <2>2, <3>1, <3>2, Zenon
  <2>4. PICK u \in Nat : u = q * D
    BY <2>2
  <2>5. PICK v \in Nat : v = u * 2 + p
    OBVIOUS
  <2>6. x = v * J + t
    <3>1. q * ((2 * D) * J) + (p * J + t) = ((q * D) * 2 + p) * J + t
      BY <1>1, <1>2, <1>3, <2>2
    <3>2. QED
      BY <1>2, <1>3, <2>3, <2>4, <2>5, <3>1
  <2>7. x \div J = v
    BY <1>3, <2>6, DivModUnique
  <2>8. v % 2 = p % 2
    BY <2>5, ModAdd
  <2>9. ((x % W) \div J) % 2 = (x \div J) % 2
    BY <1>2, <1>3, <2>7, <2>8
  <2>10. QED
    BY <1>1, <1>4, <2>9, Zenon
<1>5. CASE ~ j < w
  <2>1. PICK d \in Nat : j = d + w
    <3>1. j - w \in Nat /\ j = (j - w) + w
      BY <1>5
    <3>2. QED
      BY <3>1
  <2>2. PICK D \in Nat \ {0} : D = 2 ^ d
    BY PowersOfTwo
  <2>3. J = D * W
    <3>1. 2 ^ (d + w) = 2 ^ d * 2 ^ w
      BY PowerOfSum
    <3>2. QED
      BY <1>1, <2>1, <2>2, <3>1, Zenon
  <2>4. W <= J
    <3>1. PICK e \in Nat : D = e + 1
      <4>1. D - 1 \in Nat /\ D = (D - 1) + 1
        BY <2>2
      <4>2. QED
        BY <4>1
    <3>2. (e + 1) * W = e * W + W /\ e * W \in Nat
      BY <1>1
    <3>3. QED
      BY <2>3, <3>1, <3>2
  <2>5. r < J /\ r = 0 * J + r
    BY <1>1, <1>2, <2>4
  <2>6. r \div J = 0
    BY <1>1, <2>5, DivModUnique
  <2>7. ((x % W) \div J) % 2 = 0
    BY <1>2, <2>6
  <2>8. QED
    BY <1>1, <1>5, <2>7, Zenon
<1>6. QED
  BY <1>4, <1>5

(* so the bits of w bits that are cut out of a number are the bits of the  *)
(* number there.                                                           *)
LEMMA BitOfPart ==
  ASSUME NEW n \in Nat, NEW s \in Nat, NEW w \in Nat, NEW j \in Nat
  PROVE  (((n \div 2 ^ s) % 2 ^ w) \div 2 ^ j) % 2
           = IF j < w THEN (n \div 2 ^ (s + j)) % 2 ELSE 0
<1>1. PICK S \in Nat \ {0}, J \in Nat \ {0} : S = 2 ^ s /\ J = 2 ^ j
  BY PowersOfTwo
<1>2. PICK x \in Nat : x = n \div S
  OBVIOUS
<1>3. x \div J = n \div (S * J)
  BY <1>2, DivDiv
<1>4. 2 ^ (s + j) = S * J
  BY <1>1, PowerOfSum, Zenon
<1>5. ((x % 2 ^ w) \div 2 ^ j) % 2 = IF j < w THEN (x \div 2 ^ j) % 2 ELSE 0
  BY BitBelow
<1>6. (x \div 2 ^ j) % 2 = (n \div 2 ^ (s + j)) % 2
  BY <1>1, <1>3, <1>4, Zenon
<1>7. QED
  BY <1>1, <1>2, <1>5, <1>6, Zenon

-----------------------------------------------------------------------------
(* The words of a long number.                                             *)

(* The limit of a word is a multiple of the powers of two below it.        *)
LEMMA WordType ==
  /\ WordBits \in Nat \ {0} /\ WordLimit \in Nat \ {0}
  /\ \A w \in 0 .. WordBits :
       \E m \in Nat \ {0} : WordLimit = m * 2 ^ w /\ 2 ^ w \in Nat \ {0}
<1>1. WordBits \in Nat \ {0}
  BY ParserAssumption
<1>2. WordLimit \in Nat \ {0}
  BY <1>1, PowersOfTwo DEF WordLimit
<1>3. ASSUME NEW w \in 0 .. WordBits
      PROVE  \E m \in Nat \ {0} : WordLimit = m * 2 ^ w /\ 2 ^ w \in Nat \ {0}
  <2>1. WordBits - w \in Nat /\ w \in Nat /\ (WordBits - w) + w = WordBits
    BY <1>1
  <2>2. 2 ^ ((WordBits - w) + w) = 2 ^ (WordBits - w) * 2 ^ w
    BY <2>1, PowerOfSum
  <2>3. WordLimit = 2 ^ (WordBits - w) * 2 ^ w
    BY <2>1, <2>2, Zenon DEF WordLimit
  <2>4. 2 ^ (WordBits - w) \in Nat \ {0} /\ 2 ^ w \in Nat \ {0}
    BY <2>1, PowersOfTwo, Zenon
  <2>5. QED
    BY <2>3, <2>4, Zenon
<1>4. QED
  BY <1>1, <1>2, <1>3

(* Of what is kept in a word, the low bits are those of the number.        *)
LEMMA LowBits ==
  ASSUME NEW n \in Nat, NEW w \in 0 .. WordBits
  PROVE  (n % WordLimit) % 2 ^ w = n % 2 ^ w
<1>1. PICK m \in Nat \ {0}, p \in Nat \ {0} : WordLimit = m * p /\ p = 2 ^ w
  BY WordType
<1>2. (n % WordLimit) % p = n % p
  <2>1. (n % (m * p)) % p = n % p
    BY ModMod
  <2>2. QED
    BY <1>1, <2>1, Zenon
<1>3. QED
  BY <1>1, <1>2, Zenon

(* A word is a whole number of binary or hexadecimal digits.               *)
LEMMA DigitsPerWord ==
  ASSUME NEW b \in {1, 4}
  PROVE  WordBits \div b \in Nat \ {0} /\ b * (WordBits \div b) = WordBits
  BY ParserAssumption

(* The digits that LongNumberWithBase cuts off for the k-th word from the  *)
(* front.                                                                  *)
Chunk(digits, b, k) ==
  SubSeq(digits, (WordBits \div b) * (k - 1) + 1,
         Min({(WordBits \div b) * k, Len(digits)}))

(* A long number has a word for each of them, the last first.              *)
LEMMA LongNumber ==
  ASSUME NEW digits \in Seq(Nat), digits # <<>>, NEW b \in {1, 4}
  PROVE  \E words \in Nat, long \in {LongNumberWithBase(digits, b)} :
           /\ words = (Len(digits) + (WordBits \div b) - 1) \div (WordBits \div b)
           /\ Len(long) = words /\ DOMAIN long = 1 .. words
           /\ \A k \in 1 .. words :
                long[k] = NumberWithBase(Chunk(digits, b, words - k + 1), 2 ^ b, WordLimit)
<1>1. PICK p \in Nat \ {0} : p = WordBits \div b
  BY DigitsPerWord
<1>2. Len(digits) \in Nat
  BY LenProperties
<1>3. PICK words \in Nat : words = (Len(digits) + p - 1) \div p
  <2>1. \A n \in Nat : (n + p - 1) \div p \in Nat
    OBVIOUS
  <2>2. (Len(digits) + p - 1) \div p \in Nat
    BY <1>2, <2>1
  <2>3. QED
    BY <2>2
<1> DEFINE s == [k \in 1 .. words |-> NumberWithBase(Chunk(digits, b, k), 2 ^ b, WordLimit)]
<1>4. LongNumberWithBase(digits, b) = Reverse(s)
  BY <1>1, <1>3 DEF LongNumberWithBase, Chunk
<1>5. Len(s) = words
      /\ \A k \in 1 .. words : s[k] = NumberWithBase(Chunk(digits, b, k), 2 ^ b, WordLimit)
  <2>1. s \in [1 .. words -> {s[k] : k \in 1 .. words}]
    OBVIOUS
  <2>2. Len(s) = words
    BY <1>3, <2>1, FunctionIsSeq
  <2>3. QED
    BY <2>2
<1> HIDE DEF s
<1>6. Reverse(s) = [k \in 1 .. words |-> s[(words - k) + 1]]
  BY <1>5 DEF Reverse
<1>7. Len(Reverse(s)) = words
  <2>1. Reverse(s) \in [1 .. words -> {s[(words - k) + 1] : k \in 1 .. words}]
    BY <1>6
  <2>2. QED
    BY <1>3, <2>1, FunctionIsSeq
<1>8. \A k \in 1 .. words :
        Reverse(s)[k] = NumberWithBase(Chunk(digits, b, words - k + 1), 2 ^ b, WordLimit)
  <2> TAKE k \in 1 .. words
  <2>1. (words - k) + 1 \in 1 .. words
    BY <1>3
  <2>2. QED
    BY <1>5, <1>6, <2>1
<1>9. DOMAIN Reverse(s) = 1 .. words
  BY <1>6
<1>10. QED
  BY <1>1, <1>3, <1>4, <1>7, <1>8, <1>9

(* The lesser of two numbers.                                              *)
LEMMA MinOfTwo ==
  ASSUME NEW x \in Nat, NEW y \in Nat
  PROVE  /\ Min({x, y}) \in Nat /\ Min({x, y}) <= y
         /\ x <= y => Min({x, y}) = x
         /\ y <= x => Min({x, y}) = y
<1>1. \E m \in {x, y} : \A z \in {x, y} : m <= z
  <2>1. CASE x <= y
    BY <2>1
  <2>2. CASE y <= x
    BY <2>2
  <2>3. QED
    BY <2>1, <2>2
<1>2. Min({x, y}) \in {x, y} /\ \A z \in {x, y} : Min({x, y}) <= z
  BY <1>1 DEF Min
<1>3. QED
  BY <1>2

(* The digits of a word are digits of the number.                          *)
LEMMA ChunkType ==
  ASSUME NEW S, NEW digits \in Seq(S), NEW b \in {1, 4}, NEW k \in Nat \ {0}
  PROVE  Chunk(digits, b, k) \in Seq(S)
<1>1. PICK p \in Nat \ {0} : p = WordBits \div b
  BY DigitsPerWord
<1>2. PICK n \in Nat : n = Len(digits)
  BY LenProperties
<1>3. p * k \in Nat /\ p * (k - 1) \in Nat
  OBVIOUS
<1>4. Min({p * k, n}) \in Nat /\ Min({p * k, n}) <= n
  BY <1>3, MinOfTwo
<1>5. \A i \in p * (k - 1) + 1 .. Min({p * k, n}) : digits[i] \in S
  <2> TAKE i \in p * (k - 1) + 1 .. Min({p * k, n})
  <2>1. i \in 1 .. n
    BY <1>3, <1>4
  <2>2. QED
    BY <1>2, <2>1, ElementOfSeq
<1>6. PICK first \in Int, last \in Int : /\ first = p * (k - 1) + 1
                                         /\ last = Min({p * k, n})
  BY <1>3, <1>4
<1>7. SubSeq(digits, first, last) \in Seq(S)
  <2>1. \A i \in first .. last : digits[i] \in S
    BY <1>5, <1>6
  <2>2. QED
    BY <2>1, SubSeqProperties
<1>8. QED
  BY <1>1, <1>2, <1>6, <1>7 DEF Chunk

(* How many words the digits need: n if they fill n, and one if they fill  *)
(* none.                                                                   *)
LEMMA CeilingOf ==
  ASSUME NEW p \in Nat \ {0}, NEW n \in Nat \ {0}
  PROVE  /\ \A m \in Nat : m = p * n => (m + p - 1) \div p = n
         /\ \A m \in 1 .. p : (m + p - 1) \div p = 1
<1>1. ASSUME NEW m \in Nat, m = p * n PROVE (m + p - 1) \div p = n
  <2>1. p * n + p - 1 = n * p + (p - 1) /\ p - 1 \in Nat /\ p - 1 < p
    OBVIOUS
  <2>2. (n * p + (p - 1)) \div p = n
    BY <2>1, DivModUnique
  <2>3. QED
    BY <1>1, <2>1, <2>2
<1>2. ASSUME NEW m \in 1 .. p PROVE (m + p - 1) \div p = 1
  <2>1. m + p - 1 = 1 * p + (m - 1) /\ m - 1 \in Nat /\ m - 1 < p /\ 1 \in Nat
    OBVIOUS
  <2>2. (1 * p + (m - 1)) \div p = 1
    BY <2>1, DivModUnique
  <2>3. QED
    BY <2>1, <2>2
<1>3. QED
  BY <1>1, <1>2

(* Digits that have room in a word: that word is the number.               *)
LEMMA OneWord ==
  ASSUME NEW digits \in Seq(Nat), NEW b \in {1, 4}, Len(digits) <= WordBits \div b
  PROVE  LongNumberWithBase(digits, b) = <<Number(digits, 2 ^ b) % WordLimit>>
<1>1. 2 ^ b \in Nat
  BY PowersOfTwo
<1>2. CASE digits = <<>>
  <2>1. Number(digits, 2 ^ b) = 0
    BY <1>2, NumberOfNone
  <2>2. 0 % WordLimit = 0
    BY WordType
  <2>3. QED
    BY <1>2, <2>1, <2>2 DEF LongNumberWithBase
<1>3. CASE digits # <<>>
  <2>1. PICK p \in Nat \ {0} : p = WordBits \div b
    BY DigitsPerWord
  <2>2. PICK n \in 1 .. p : n = Len(digits)
    BY <1>3, <2>1, EmptySeq
  <2>3. (n + p - 1) \div p = 1
    BY CeilingOf
  <2>4. PICK long : /\ long = LongNumberWithBase(digits, b)
                    /\ DOMAIN long = 1 .. 1
                    /\ long[1] = NumberWithBase(Chunk(digits, b, 1), 2 ^ b, WordLimit)
    <3>1. PICK words \in Nat, long \in {LongNumberWithBase(digits, b)} :
            /\ words = (Len(digits) + (WordBits \div b) - 1) \div (WordBits \div b)
            /\ Len(long) = words /\ DOMAIN long = 1 .. words
            /\ \A k \in 1 .. words :
                 long[k] = NumberWithBase(Chunk(digits, b, words - k + 1), 2 ^ b, WordLimit)
      BY <1>3, LongNumber, Zenon
    <3>2. words = 1
      BY <2>1, <2>2, <2>3, <3>1
    <3>3. 1 \in 1 .. 1 /\ 1 - 1 + 1 = 1
      OBVIOUS
    <3>4. long[1] = NumberWithBase(Chunk(digits, b, 1 - 1 + 1), 2 ^ b, WordLimit)
      BY <3>1, <3>2, <3>3
    <3>5. long[1] = NumberWithBase(Chunk(digits, b, 1), 2 ^ b, WordLimit)
      BY <3>3, <3>4
    <3>6. QED
      BY <3>1, <3>2, <3>5
  <2>5. Chunk(digits, b, 1) = digits
    <3>1. p * 1 = p /\ p * (1 - 1) + 1 = 1 /\ n <= p
      BY <2>2
    <3>2. Min({p * 1, n}) = n
      BY <3>1, MinOfTwo
    <3>3. Chunk(digits, b, 1) = SubSeq(digits, 1, Len(digits))
      BY <2>1, <2>2, <3>1, <3>2 DEF Chunk
    <3>4. QED
      BY <3>3, SubSeqFull
  <2>6. NumberWithBase(digits, 2 ^ b, WordLimit) = Number(digits, 2 ^ b) % WordLimit
    BY <1>1, NumberWraps, WordType
  <2>7. long = <<Number(digits, 2 ^ b) % WordLimit>>
    <3>1. long = [i \in 1 .. 1 |-> long[i]]
      <4>1. long = Reverse([k \in 1 .. 1 |-> NumberWithBase(Chunk(digits, b, k), 2 ^ b, WordLimit)])
        BY <1>3, <2>1, <2>2, <2>3, <2>4 DEF LongNumberWithBase, Chunk
      <4>2. QED
        BY <2>4, <4>1 DEF Reverse
    <3>2. long = [i \in 1 .. 1 |-> Number(digits, 2 ^ b) % WordLimit]
      BY <2>4, <2>5, <2>6, <3>1
    <3>3. QED
      BY <3>2
  <2>8. QED
    BY <2>4, <2>7
<1>4. QED
  BY <1>2, <1>3

(* Of digits that fill whole words, each word has the bits of the number   *)
(* that belong at its place.                                               *)
AreWholeWords(b) ==
  \A words \in Nat \ {0} :
    \A digits \in Seq(0 .. 2 ^ b - 1), k \in 1 .. words, w \in 0 .. WordBits :
      Len(digits) = (WordBits \div b) * words =>
        /\ Len(LongNumberWithBase(digits, b)) = words
        /\ LongNumberWithBase(digits, b)[k] % 2 ^ w
             = (Number(digits, 2 ^ b) \div 2 ^ ((k - 1) * WordBits)) % 2 ^ w

(* So it is for binary and for hexadecimal digits.                         *)
LEMMA WholeWords == ASSUME NEW b \in {1, 4} PROVE AreWholeWords(b)
<1> SUFFICES ASSUME NEW words \in Nat \ {0},
                    NEW digits \in Seq(0 .. 2 ^ b - 1), NEW k \in 1 .. words,
                    NEW w \in 0 .. WordBits, Len(digits) = (WordBits \div b) * words
             PROVE  /\ Len(LongNumberWithBase(digits, b)) = words
                    /\ LongNumberWithBase(digits, b)[k] % 2 ^ w
                         = (Number(digits, 2 ^ b) \div 2 ^ ((k - 1) * WordBits)) % 2 ^ w
  BY Zenon DEF AreWholeWords
<1>1. PICK p \in Nat \ {0} : p = WordBits \div b /\ b * p = WordBits
  BY DigitsPerWord
<1>2. PICK B \in Nat \ {0} : B = 2 ^ b
  BY PowersOfTwo
<1>3. PICK n \in Nat \ {0} : n = Len(digits) /\ n = p * words
  BY <1>1
<1>4. digits \in Seq(0 .. B - 1) /\ digits \in Seq(Nat)
  <2>1. digits \in Seq(0 .. B - 1)
    BY <1>2, Zenon
  <2>2. 0 .. B - 1 \subseteq Nat
    OBVIOUS
  <2>3. QED
    BY <2>1, <2>2, SeqMonotonic
<1>5. digits # <<>>
  BY <1>3, EmptySeq
<1>6. (n + p - 1) \div p = words
  BY <1>3, CeilingOf
<1>7. PICK long :
        /\ long = LongNumberWithBase(digits, b) /\ Len(long) = words
        /\ \A i \in 1 .. words :
             long[i] = NumberWithBase(Chunk(digits, b, words - i + 1), 2 ^ b, WordLimit)
  <2>1. PICK count \in Nat, long \in {LongNumberWithBase(digits, b)} :
          /\ count = (Len(digits) + (WordBits \div b) - 1) \div (WordBits \div b)
          /\ Len(long) = count /\ DOMAIN long = 1 .. count
          /\ \A i \in 1 .. count :
               long[i] = NumberWithBase(Chunk(digits, b, count - i + 1), 2 ^ b, WordLimit)
    BY <1>4, <1>5, LongNumber, Zenon
  <2>2. count = words
    BY <1>1, <1>3, <1>6, <2>1
  <2>3. QED
    BY <2>1, <2>2
<1>8. PICK j \in 1 .. words : j = words - k + 1
  OBVIOUS
<1>9. PICK x, y \in Nat : x = p * (j - 1) /\ y = p * j /\ y = x + p /\ y <= n
  <2>1. p * (j - 1) \in Nat /\ p * j \in Nat /\ p * j = p * (j - 1) + p
    <3>1. PICK i \in Nat : j - 1 = i /\ j = i + 1
      OBVIOUS
    <3>2. p * i \in Nat /\ p * (i + 1) = p * i + p
      OBVIOUS
    <3>3. QED
      BY <3>1, <3>2
  <2>2. p * words = p * j + p * (k - 1) /\ p * (k - 1) \in Nat
    <3>1. PICK i \in Nat : k - 1 = i /\ words = j + i
      BY <1>8
    <3>2. p * (j + i) = p * j + p * i /\ p * i \in Nat
      OBVIOUS
    <3>3. QED
      BY <3>1, <3>2
  <2>3. QED
    BY <1>3, <2>1, <2>2
<1> DEFINE before == SubSeq(digits, 1, x)
           here == SubSeq(digits, x + 1, y)
           upto == SubSeq(digits, 1, y)
           after == SubSeq(digits, y + 1, n)
<1>10. Chunk(digits, b, j) = here
  <2>1. Min({p * j, n}) = y
    BY <1>9, MinOfTwo
  <2>2. QED
    BY <1>1, <1>3, <1>9, <2>1 DEF Chunk
<1>11. /\ before \in Seq(Nat) /\ upto \in Seq(Nat)
       /\ here \in Seq(Nat) /\ Len(here) = p
       /\ after \in Seq(0 .. B - 1) /\ Len(after) = n - y
  <2>1. \A i \in 1 .. n : digits[i] \in 0 .. B - 1 /\ digits[i] \in Nat
    <3>1. \A i \in 1 .. n : digits[i] \in 0 .. B - 1
      BY <1>3, <1>4, ElementOfSeq
    <3>2. QED
      BY <3>1
  <2>2. /\ \A i \in 1 .. x : digits[i] \in Nat
        /\ \A i \in x + 1 .. y : digits[i] \in Nat
        /\ \A i \in 1 .. y : digits[i] \in Nat
        /\ \A i \in y + 1 .. n : digits[i] \in 0 .. B - 1
    <3>1. x <= n /\ y <= n /\ x \in Nat /\ y \in Nat
      BY <1>9
    <3>2. /\ 1 .. x \subseteq 1 .. n /\ x + 1 .. y \subseteq 1 .. n
          /\ 1 .. y \subseteq 1 .. n /\ y + 1 .. n \subseteq 1 .. n
      BY <3>1
    <3>3. QED
      BY <2>1, <3>2
  <2>3. before \in Seq(Nat)
    BY <2>2, SubSeqProperties
  <2>4. upto \in Seq(Nat)
    BY <2>2, SubSeqProperties
  <2>5. here \in Seq(Nat) /\ Len(here) = IF x + 1 <= y THEN y - (x + 1) + 1 ELSE 0
    BY <2>2, SubSeqProperties
  <2>6. after \in Seq(0 .. B - 1)
        /\ Len(after) = IF y + 1 <= n THEN n - (y + 1) + 1 ELSE 0
    BY <2>2, SubSeqProperties
  <2>7. Len(here) = p
    BY <1>9, <2>5
  <2>8. Len(after) = n - y
    BY <1>9, <2>6
  <2>9. QED
    BY <2>3, <2>4, <2>5, <2>6, <2>7, <2>8
<1>12. before \o here = upto /\ upto \o after = digits
  <2>1. /\ 1 \in 1 .. Len(digits) + 1 /\ x \in 1 - 1 .. Len(digits)
        /\ y \in x .. Len(digits) /\ y \in 1 - 1 .. Len(digits) /\ n \in y .. Len(digits)
    BY <1>3, <1>9
  <2>2. before \o here = upto
    BY <1>4, <2>1, ConcatAdjacentSubSeq
  <2>3. upto \o after = SubSeq(digits, 1, n)
    BY <1>4, <2>1, ConcatAdjacentSubSeq
  <2>4. SubSeq(digits, 1, n) = digits
    BY <1>3, <1>4, SubSeqFull
  <2>5. QED
    BY <2>2, <2>3, <2>4
<1>13. after \in Seq(Nat)
  <2>1. 0 .. B - 1 \subseteq Nat
    OBVIOUS
  <2>2. QED
    BY <1>11, <2>1, SeqMonotonic
<1> HIDE DEF before, here, upto, after
<1>14. PICK low \in Nat, high \in Nat, mid \in Nat, top \in Nat :
         /\ low = Number(after, B) /\ high = Number(upto, B)
         /\ mid = Number(here, B) /\ top = Number(before, B)
  BY <1>11, <1>13, NumberType
<1>15. b * Len(after) = (k - 1) * WordBits /\ b * Len(here) = WordBits
       /\ (k - 1) * WordBits \in Nat
  <2>1. PICK i \in Nat : i = k - 1 /\ words = j + i
    BY <1>8
  <2>2. n - y = p * i
    <3>1. p * (j + i) = p * j + p * i /\ p * i \in Nat
      OBVIOUS
    <3>2. QED
      BY <1>3, <1>9, <2>1, <3>1
  <2>3. b * (p * i) = i * (b * p)
    OBVIOUS
  <2>4. b * Len(after) = i * WordBits
    BY <1>1, <1>11, <2>2, <2>3
  <2>5. i * WordBits \in Nat
    BY WordType
  <2>6. QED
    BY <1>1, <1>11, <2>1, <2>4, <2>5
<1>16. PICK shift \in Nat \ {0} : shift = 2 ^ ((k - 1) * WordBits)
  BY <1>15, PowersOfTwo
<1>17. Number(digits, B) = high * shift + low /\ low < shift
  <2>1. Number(upto \o after, B) = high * 2 ^ (b * Len(after)) + low
    <3>1. Number(upto \o after, 2 ^ b)
            = Number(upto, 2 ^ b) * 2 ^ (b * Len(after)) + Number(after, 2 ^ b)
      <4>1. b \in Nat
        OBVIOUS
      <4>2. QED
        BY <1>11, <1>13, <4>1, NumberOfConcat, Zenon
    <3>2. QED
      BY <1>2, <1>14, <3>1, Zenon
  <2>2. low < 2 ^ (b * Len(after))
    <3>1. after \in Seq(0 .. 2 ^ b - 1)
      BY <1>2, <1>11, Zenon
    <3>2. Number(after, 2 ^ b) < 2 ^ (b * Len(after))
      BY <3>1, NumberBelow
    <3>3. QED
      BY <1>2, <1>14, <3>2, Zenon
  <2>3. QED
    BY <1>12, <1>15, <1>16, <2>1, <2>2, Zenon
<1>18. Number(digits, B) \div shift = high
  BY <1>17, DivModUnique
<1>19. high = top * WordLimit + mid
  <2>1. Number(before \o here, B) = top * 2 ^ (b * Len(here)) + mid
    <3>1. Number(before \o here, 2 ^ b)
            = Number(before, 2 ^ b) * 2 ^ (b * Len(here)) + Number(here, 2 ^ b)
      <4>1. b \in Nat
        OBVIOUS
      <4>2. QED
        BY <1>11, <4>1, NumberOfConcat, Zenon
    <3>2. QED
      BY <1>2, <1>14, <3>1, Zenon
  <2>2. QED
    BY <1>12, <1>14, <1>15, <2>1, Zenon DEF WordLimit
<1>20. PICK m \in Nat \ {0}, q \in Nat \ {0} : WordLimit = m * q /\ q = 2 ^ w
  BY WordType
<1>21. high % q = mid % q
  <2>1. PICK u : u = top * m
    OBVIOUS
  <2>2. u \in Nat /\ high = u * q + mid
    <3>1. top * (m * q) = (top * m) * q /\ top * m \in Nat
      OBVIOUS
    <3>2. QED
      BY <1>19, <1>20, <2>1, <3>1
  <2>3. QED
    BY <2>2, ModAdd
<1>22. long[k] = mid % WordLimit
  <2>1. long[k] = NumberWithBase(here, B, WordLimit)
    <3>1. long[k] = NumberWithBase(here, 2 ^ b, WordLimit)
      BY <1>7, <1>8, <1>10
    <3>2. QED
      BY <1>2, <3>1, Zenon
  <2>2. QED
    BY <1>11, <1>14, <2>1, NumberWraps, WordType
<1>23. (mid % WordLimit) % q = mid % q
  BY <1>20, LowBits
<1>24. long[k] % 2 ^ w = (Number(digits, 2 ^ b) \div 2 ^ ((k - 1) * WordBits)) % 2 ^ w
  BY <1>2, <1>16, <1>18, <1>20, <1>21, <1>22, <1>23, Zenon
<1>25. QED
  BY <1>7, <1>24

-----------------------------------------------------------------------------
(* The chunks of a line.                                                   *)

(* What a line assigns, with digits of its base.                           *)
LEMMA AssignedValue ==
  ASSUME NEW l, IsLine(l), l.assigned # <<>>
  PROVE  \E v : /\ v = l.assigned[1] /\ v.base = Base(l)
                /\ v.number \in Nat /\ v.digits \in Seq(Nat)
                /\ v.digits \in Seq(0 .. Radix(v.base) - 1)
<1>1. l.assigned \in Seq(AnyValue) /\ Len(l.assigned) \in Nat
  BY LenProperties DEF IsLine
<1>2. 1 \in 1 .. Len(l.assigned)
  BY <1>1, EmptySeq
<1>3. l.assigned[1] \in AnyValue
  BY <1>1, <1>2, ElementOfSeq
<1>4. l.assigned[1] \in ToSet(l.assigned)
  BY <1>1, <1>2, LenProperties DEF ToSet
<1>5. QED
  BY <1>3, <1>4 DEF AnyValue, Base, IsLine

(* If the digits have room in a word there is one chunk, and its low bits  *)
(* are those of the number that is assigned.                               *)
LEMMA OneChunk ==
  ASSUME NEW l, IsLine(l), DigitBits(l) <= WordBits
  PROVE  \E x : /\ Bitset(l) = <<x>>
                /\ x \in 0 .. WordLimit - 1 \/ x = 1
                /\ \A w \in 0 .. WordBits : x % 2 ^ w = Assigned(l) % 2 ^ w
<1>1. ASSUME NEW n \in Nat
      PROVE  \A w \in 0 .. WordBits : (n % WordLimit) % 2 ^ w = n % 2 ^ w
  BY LowBits
<1>2. \A n \in Nat : n % WordLimit \in 0 .. WordLimit - 1
  BY WordType
<1>3. CASE Base(l) \notin {"", "h", "b", "o", "d"}
  BY <1>3 DEF Bitset, Assigned, Base
<1>4. CASE Base(l) \in {"", "h", "b", "o", "d"}
  <2>1. l.assigned # <<>>
    BY <1>4 DEF Base
  <2>2. PICK v : /\ v = l.assigned[1] /\ v.base = Base(l)
                 /\ v.number \in Nat /\ v.digits \in Seq(Nat)
                 /\ v.digits \in Seq(0 .. Radix(v.base) - 1)
    BY <2>1, AssignedValue
  <2>3. \A n \in Nat : Assigned(l) = n /\ Bitset(l) = <<n % WordLimit>> =>
          \E x : /\ Bitset(l) = <<x>>
                 /\ x \in 0 .. WordLimit - 1 \/ x = 1
                 /\ \A w \in 0 .. WordBits : x % 2 ^ w = Assigned(l) % 2 ^ w
    BY <1>1, <1>2
  <2>4. CASE Base(l) = ""
    <3>1. Assigned(l) = v.number /\ Bitset(l) = <<v.number % WordLimit>>
      BY <2>1, <2>2, <2>4 DEF Assigned, Bitset
    <3>2. QED
      BY <2>2, <2>3, <3>1
  <2>5. CASE Base(l) \in {"o", "d"}
    <3>1. PICK n \in Nat : n = Number(v.digits, Radix(v.base))
      <4>1. Radix(v.base) \in Nat
        BY DEF Radix
      <4>2. QED
        BY <2>2, <4>1, NumberType
    <3>2. NumberWithBase(v.digits, Radix(v.base), WordLimit) = n % WordLimit
      <4>1. Radix(v.base) \in Nat
        BY DEF Radix
      <4>2. QED
        BY <2>2, <3>1, <4>1, NumberWraps, WordType
    <3>3. Assigned(l) = n
      BY <2>2, <2>5, <3>1 DEF Assigned
    <3>4. Bitset(l) = <<NumberWithBase(v.digits, Radix(v.base), WordLimit)>>
      BY <2>1, <2>2, <2>5 DEF Bitset, Radix
    <3>5. QED
      BY <2>3, <3>2, <3>3, <3>4
  <2>6. ASSUME NEW b \in {1, 4}, Radix(v.base) = 2 ^ b, Base(l) \in {"h", "b"},
               Bitset(l) = LongNumberWithBase(v.digits, b),
               DigitBits(l) = b * Len(v.digits)
        PROVE  \E x : /\ Bitset(l) = <<x>>
                      /\ x \in 0 .. WordLimit - 1 \/ x = 1
                      /\ \A w \in 0 .. WordBits : x % 2 ^ w = Assigned(l) % 2 ^ w
    <3>1. PICK n \in Nat : n = Number(v.digits, Radix(v.base))
      BY <2>2, <2>6, NumberType, PowersOfTwo
    <3>2. Len(v.digits) <= WordBits \div b
      <4>1. Len(v.digits) \in Nat
        BY <2>2, LenProperties
      <4>2. PICK p \in Nat \ {0} : p = WordBits \div b /\ b * p = WordBits
        BY DigitsPerWord
      <4>3. b * Len(v.digits) <= b * p
        BY <2>6, <4>2
      <4>4. QED
        BY <4>1, <4>2, <4>3
    <3>3. LongNumberWithBase(v.digits, b) = <<n % WordLimit>>
      <4>1. LongNumberWithBase(v.digits, b) = <<Number(v.digits, 2 ^ b) % WordLimit>>
        BY <2>2, <3>2, OneWord
      <4>2. QED
        BY <2>6, <3>1, <4>1, Zenon
    <3>4. Assigned(l) = n
      BY <2>2, <2>6, <3>1 DEF Assigned
    <3>5. QED
      BY <2>3, <2>6, <3>3, <3>4
  <2>7. CASE Base(l) = "h"
    <3>1. Radix(v.base) = 2 ^ 4
      BY <2>2, <2>7, PowersOfTwo DEF Radix
    <3>2. Bitset(l) = LongNumberWithBase(v.digits, 4)
      BY <2>1, <2>2, <2>7 DEF Bitset
    <3>3. DigitBits(l) = 4 * Len(v.digits)
      BY <2>2, <2>7 DEF DigitBits
    <3>4. QED
      BY <2>6, <2>7, <3>1, <3>2, <3>3
  <2>8. CASE Base(l) = "b"
    <3>1. Radix(v.base) = 2 ^ 1
      BY <2>2, <2>8, PowersOfTwo DEF Radix
    <3>2. Bitset(l) = LongNumberWithBase(v.digits, 1)
      BY <2>1, <2>2, <2>8 DEF Bitset
    <3>3. DigitBits(l) = 1 * Len(v.digits)
      <4>1. Len(v.digits) \in Nat
        BY <2>2, LenProperties
      <4>2. QED
        BY <2>2, <2>8, <4>1 DEF DigitBits
    <3>4. QED
      BY <2>6, <2>8, <3>1, <3>2, <3>3
  <2>9. QED
    BY <1>4, <2>4, <2>5, <2>7, <2>8
<1>5. QED
  BY <1>3, <1>4

(* What a line assigns is a natural.                                       *)
LEMMA AssignedType == ASSUME NEW l, IsLine(l) PROVE Assigned(l) \in Nat
<1>1. CASE Base(l) \in {"", "h", "b", "o", "d"}
  <2>1. l.assigned # <<>>
    BY <1>1 DEF Base
  <2>2. PICK v : /\ v = l.assigned[1] /\ v.base = Base(l)
                 /\ v.number \in Nat /\ v.digits \in Seq(Nat)
    BY <2>1, AssignedValue
  <2>3. Number(v.digits, Radix(Base(l))) \in Nat
    <3>1. Radix(Base(l)) \in Nat
      BY DEF Radix
    <3>2. QED
      BY <2>2, <3>1, NumberType
  <2>4. QED
    BY <1>1, <2>2, <2>3 DEF Assigned
<1>2. CASE Base(l) \notin {"", "h", "b", "o", "d"}
  BY <1>2 DEF Assigned
<1>3. QED
  BY <1>1, <1>2

(* If they fill whole words there is a chunk for each, with the bits of    *)
(* the number at its place.                                                *)
LEMMA ManyChunks ==
  ASSUME NEW l, IsLine(l), Base(l) \in {"h", "b"}, DigitBits(l) % WordBits = 0,
         DigitBits(l) \div WordBits # 0
  PROVE  LET words == DigitBits(l) \div WordBits
         IN /\ words \in Nat \ {0} /\ Len(Bitset(l)) = words
            /\ \A k \in 1 .. words, w \in 0 .. WordBits :
                 Bitset(l)[k] % 2 ^ w
                   = (Assigned(l) \div 2 ^ ((k - 1) * WordBits)) % 2 ^ w
<1>1. l.assigned # <<>>
  BY DEF Base
<1>2. PICK v : /\ v = l.assigned[1] /\ v.base = Base(l)
               /\ v.digits \in Seq(Nat)
               /\ v.digits \in Seq(0 .. Radix(v.base) - 1)
  BY <1>1, AssignedValue
<1>3. Len(v.digits) \in Nat
  BY <1>2, LenProperties
<1>4. PICK b \in {1, 4} : /\ Radix(v.base) = 2 ^ b
                          /\ Bitset(l) = LongNumberWithBase(v.digits, b)
                          /\ DigitBits(l) = b * Len(v.digits)
                          /\ Assigned(l) = Number(v.digits, 2 ^ b)
  <2>1. CASE Base(l) = "h"
    <3>1. Radix(v.base) = 2 ^ 4
      BY <1>2, <2>1, PowersOfTwo DEF Radix
    <3>2. Bitset(l) = LongNumberWithBase(v.digits, 4)
      BY <1>1, <1>2, <2>1 DEF Bitset
    <3>3. DigitBits(l) = 4 * Len(v.digits)
      BY <1>2, <2>1 DEF DigitBits
    <3>4. Assigned(l) = Number(v.digits, Radix(v.base))
      BY <1>2, <2>1 DEF Assigned
    <3>5. QED
      BY <3>1, <3>2, <3>3, <3>4
  <2>2. CASE Base(l) = "b"
    <3>1. Radix(v.base) = 2 ^ 1
      BY <1>2, <2>2, PowersOfTwo DEF Radix
    <3>2. Bitset(l) = LongNumberWithBase(v.digits, 1)
      BY <1>1, <1>2, <2>2 DEF Bitset
    <3>3. DigitBits(l) = 1 * Len(v.digits)
      BY <1>2, <1>3, <2>2 DEF DigitBits
    <3>4. Assigned(l) = Number(v.digits, Radix(v.base))
      BY <1>2, <2>2 DEF Assigned
    <3>5. QED
      BY <3>1, <3>2, <3>3, <3>4
  <2>3. QED
    BY <2>1, <2>2
<1>5. PICK words \in Nat \ {0} : words = DigitBits(l) \div WordBits
                                 /\ DigitBits(l) = words * WordBits
  <2>1. PICK n \in Nat : n = DigitBits(l)
    BY <1>3, <1>4
  <2>2. PICK q, r \in Nat : n = q * WordBits + r /\ n % WordBits = r /\ n \div WordBits = q
    BY DivMod, WordType
  <2>3. r = 0 /\ q # 0
    BY <2>1, <2>2
  <2>4. q * WordBits + 0 = q * WordBits
    BY WordType
  <2>5. QED
    BY <2>1, <2>2, <2>3, <2>4
<1>6. Len(v.digits) = (WordBits \div b) * words
  <2>1. PICK p \in Nat \ {0} : p = WordBits \div b /\ b * p = WordBits
    BY DigitsPerWord
  <2>2. b * Len(v.digits) = words * (b * p)
    BY <1>4, <1>5, <2>1
  <2>3. words * (b * p) = b * (p * words) /\ p * words \in Nat
    OBVIOUS
  <2>4. b * Len(v.digits) = b * (p * words)
    BY <2>2, <2>3
  <2>5. \A x, y \in Nat : b * x = b * y => x = y
    OBVIOUS
  <2>6. QED
    BY <1>3, <2>1, <2>3, <2>4, <2>5
<1>7. v.digits \in Seq(0 .. 2 ^ b - 1)
  BY <1>2, <1>4, Zenon
<1>8. \A k \in 1 .. words, w \in 0 .. WordBits :
        /\ Len(LongNumberWithBase(v.digits, b)) = words
        /\ LongNumberWithBase(v.digits, b)[k] % 2 ^ w
             = (Number(v.digits, 2 ^ b) \div 2 ^ ((k - 1) * WordBits)) % 2 ^ w
  <2> TAKE k \in 1 .. words, w \in 0 .. WordBits
  <2>1. AreWholeWords(b)
    BY WholeWords
  <2>2. QED
    <3>1. PICK digits, c : digits = v.digits /\ c = b
      OBVIOUS
    <3>2. digits \in Seq(0 .. 2 ^ c - 1) /\ Len(digits) = (WordBits \div c) * words
      BY <1>6, <1>7, <3>1, Zenon
    <3>3. AreWholeWords(c) /\ k \in 1 .. words /\ w \in 0 .. WordBits
          /\ words \in Nat \ {0}
      BY <2>1, <3>1
    <3>4. /\ Len(LongNumberWithBase(digits, c)) = words
          /\ LongNumberWithBase(digits, c)[k] % 2 ^ w
               = (Number(digits, 2 ^ c) \div 2 ^ ((k - 1) * WordBits)) % 2 ^ w
      BY ONLY <3>2, <3>3, Zenon DEF AreWholeWords
    <3>5. QED
      BY <3>1, <3>4, Zenon
<1>9. Len(LongNumberWithBase(v.digits, b)) = words
  <2>1. 1 \in 1 .. words /\ 0 \in 0 .. WordBits
    BY WordType
  <2>2. QED
    BY <1>8, <2>1
<1>10. \A k \in 1 .. words, w \in 0 .. WordBits :
         Bitset(l)[k] % 2 ^ w = (Assigned(l) \div 2 ^ ((k - 1) * WordBits)) % 2 ^ w
  <2> TAKE k \in 1 .. words, w \in 0 .. WordBits
  <2>1. LongNumberWithBase(v.digits, b)[k] % 2 ^ w
          = (Number(v.digits, 2 ^ b) \div 2 ^ ((k - 1) * WordBits)) % 2 ^ w
    BY <1>8
  <2>2. QED
    BY <1>4, <2>1, Zenon
<1>11. QED
  BY <1>4, <1>5, <1>9, <1>10, Zenon

(* The bits of the range that are left for the last chunk.                 *)
LastWidth(l) == RangeWidth(l) - WordBits * (Len(Bitset(l)) - 1)

(* The chunks of a value that fits its range: their widths are of a word,  *)
(* they stay in the range, and masked to its width each has the bits of    *)
(* the number at its place.                                                *)
LEMMA ChunksOfValue ==
  ASSUME NEW l, IsLine(l), Fits(l), RangeWidth(l) >= 1,
         NEW k \in 1 .. Len(Bitset(l)),
         NEW wide, wide = IF k = Len(Bitset(l)) THEN LastWidth(l) ELSE WordBits
  PROVE  /\ Width(l) = RangeWidth(l)
         /\ wide \in 1 .. WordBits
         /\ (k - 1) * WordBits \in Nat
         /\ (k - 1) * WordBits + wide <= RangeWidth(l)
         /\ Bitset(l)[k] % 2 ^ wide
              = (Assigned(l) \div 2 ^ ((k - 1) * WordBits)) % 2 ^ wide
<1>1. RangeWidth(l) \in Nat \ {0} /\ WordBits \in Nat \ {0}
  BY BitsType, WordType
<1>2. Width(l) = RangeWidth(l)
  <2>1. ~ Trims(l)
    <3>1. CASE RangeWidth(l) <= WordBits
      <4>1. ~ RangeWidth(l) > WordBits
        BY <1>1, <3>1
      <4>2. QED
        BY <4>1, Zenon DEF Trims
    <3>2. CASE Base(l) \in {"h", "b"}
      BY <3>2 DEF Trims
    <3>3. QED
      BY <3>1, <3>2, Zenon DEF Fits
  <2>2. QED
    BY <2>1 DEF Width
<1>3. CASE RangeWidth(l) <= WordBits /\ DigitBits(l) <= WordBits
  <2>1. PICK x : /\ Bitset(l) = <<x>>
                 /\ \A w \in 0 .. WordBits : x % 2 ^ w = Assigned(l) % 2 ^ w
    BY <1>3, OneChunk
  <2>2. Len(Bitset(l)) = 1 /\ Bitset(l)[1] = x
    BY <2>1
  <2>3. k = 1 /\ wide = RangeWidth(l)
    BY <1>1, <2>2 DEF LastWidth
  <2>4. (1 - 1) * WordBits = 0
    BY <1>1
  <2>5. Assigned(l) \div 2 ^ ((k - 1) * WordBits) = Assigned(l)
    <3>1. Assigned(l) \in Nat
      BY AssignedType
    <3>2. Assigned(l) \div 1 = Assigned(l)
      BY <3>1
    <3>3. QED
      BY <2>3, <2>4, <3>2, PowersOfTwo, Zenon
  <2>6. wide \in 0 .. WordBits /\ wide \in 1 .. WordBits
    BY <1>1, <1>3, <2>3
  <2>7. Bitset(l)[k] % 2 ^ wide = Assigned(l) % 2 ^ wide
    BY <2>1, <2>2, <2>3, <2>6
  <2>8. (k - 1) * WordBits \in Nat /\ (k - 1) * WordBits + wide <= RangeWidth(l)
    BY <1>1, <2>3, <2>4
  <2>9. QED
    BY <1>2, <2>5, <2>6, <2>7, <2>8, Zenon
<1>4. CASE /\ Base(l) \in {"h", "b"}
           /\ DigitBits(l) % WordBits = 0
           /\ DigitBits(l) \div WordBits = (RangeWidth(l) + WordBits - 1) \div WordBits
  <2>1. PICK q, r \in Nat : /\ r < WordBits /\ RangeWidth(l) + WordBits - 1 = q * WordBits + r
                            /\ (RangeWidth(l) + WordBits - 1) \div WordBits = q
    <3>1. RangeWidth(l) + WordBits - 1 \in Nat
      BY <1>1
    <3>2. QED
      BY <1>1, <3>1, DivMod
  <2>2. q # 0
    <3>1. q = 0 => q * WordBits = 0
      BY <1>1
    <3>2. QED
      BY <1>1, <2>1, <3>1
  <2>3. /\ Len(Bitset(l)) = q
        /\ \A i \in 1 .. q, w \in 0 .. WordBits :
             Bitset(l)[i] % 2 ^ w = (Assigned(l) \div 2 ^ ((i - 1) * WordBits)) % 2 ^ w
    BY <1>4, <2>1, <2>2, ManyChunks
  <2>4. PICK i \in Nat : q = i + 1 /\ q - 1 = i
    BY <2>2
  <2>5. (i + 1) * WordBits = i * WordBits + WordBits /\ i * WordBits \in Nat
        /\ WordBits * i = i * WordBits
    BY <1>1
  <2>6. RangeWidth(l) - WordBits * (q - 1) \in 1 .. WordBits
    BY <1>1, <2>1, <2>4, <2>5
  <2>7. wide \in 1 .. WordBits /\ wide \in 0 .. WordBits
    BY <1>1, <2>3, <2>6 DEF LastWidth
  <2>8. (k - 1) * WordBits \in Nat /\ (k - 1) * WordBits + wide <= RangeWidth(l)
    <3>1. CASE k = q
      BY <1>1, <2>3, <2>4, <2>5, <2>6, <3>1 DEF LastWidth
    <3>2. CASE k # q
      <4>1. PICK j, m \in Nat : k - 1 = j /\ i = j + 1 + m
        <5>1. k - 1 \in Nat /\ i - (k - 1) - 1 \in Nat
          BY <2>3, <2>4, <3>2
        <5>2. QED
          BY <5>1
      <4>2. (j + 1 + m) * WordBits = j * WordBits + WordBits + m * WordBits
            /\ j * WordBits \in Nat /\ m * WordBits \in Nat
        BY <1>1
      <4>3. wide = WordBits
        BY <2>3, <3>2
      <4>4. QED
        BY <1>1, <2>4, <2>5, <2>6, <4>1, <4>2, <4>3
    <3>3. QED
      BY <3>1, <3>2
  <2>9. Bitset(l)[k] % 2 ^ wide = (Assigned(l) \div 2 ^ ((k - 1) * WordBits)) % 2 ^ wide
    BY <2>3, <2>7
  <2>10. QED
    BY <1>2, <2>7, <2>8, <2>9, Zenon
<1>5. QED
  BY <1>3, <1>4 DEF Fits

(* The chunks of any line, fitting or not, are words.                      *)
LEMMA BitsetWords ==
  ASSUME NEW l, IsLine(l)
  PROVE  /\ DOMAIN Bitset(l) = 1 .. Len(Bitset(l))
         /\ \A k \in DOMAIN Bitset(l) : Bitset(l)[k] \in 0 .. WordLimit - 1
<1>1. 1 \in 0 .. WordLimit - 1
  <2>1. 1 \in 0 .. WordBits
    BY WordType
  <2>2. PICK m \in Nat \ {0} : WordLimit = m * 2 ^ 1
    BY <2>1, WordType, Zenon
  <2>3. WordLimit = m * 2
    BY <2>2, PowersOfTwo, Zenon
  <2>4. QED
    BY <2>3
<1>2. \A n \in Nat : n % WordLimit \in 0 .. WordLimit - 1
  BY WordType
<1>3. \A x \in 0 .. WordLimit - 1 : Bitset(l) = <<x>> =>
        /\ DOMAIN Bitset(l) = 1 .. Len(Bitset(l))
        /\ \A k \in DOMAIN Bitset(l) : Bitset(l)[k] \in 0 .. WordLimit - 1
  OBVIOUS
<1>4. CASE Base(l) \notin {"", "h", "b", "o", "d"}
  <2>1. Bitset(l) = <<1>>
    BY <1>4 DEF Bitset, Base
  <2>2. QED
    BY <1>1, <1>3, <2>1
<1>5. CASE Base(l) \in {"", "h", "b", "o", "d"}
  <2>1. l.assigned # <<>>
    BY <1>5 DEF Base
  <2>2. PICK v : /\ v = l.assigned[1] /\ v.base = Base(l)
                 /\ v.number \in Nat /\ v.digits \in Seq(Nat)
    BY <2>1, AssignedValue
  <2>3. \A base \in Nat : NumberWithBase(v.digits, base, WordLimit) \in 0 .. WordLimit - 1
    <3> TAKE base \in Nat
    <3>1. PICK n \in Nat : n = Number(v.digits, base)
      BY <2>2, NumberType
    <3>2. NumberWithBase(v.digits, base, WordLimit) = n % WordLimit
      BY <2>2, <3>1, NumberWraps, WordType
    <3>3. QED
      BY <1>2, <3>2
  <2>4. CASE Base(l) = ""
    <3>1. Bitset(l) = <<v.number % WordLimit>>
      BY <2>1, <2>2, <2>4 DEF Bitset
    <3>2. QED
      BY <1>2, <1>3, <2>2, <3>1
  <2>5. CASE Base(l) \in {"o", "d"}
    <3>1. \E base \in Nat : Bitset(l) = <<NumberWithBase(v.digits, base, WordLimit)>>
      BY <2>1, <2>2, <2>5 DEF Bitset
    <3>2. QED
      BY <1>3, <2>3, <3>1
  <2>6. ASSUME NEW b \in {1, 4}, Bitset(l) = LongNumberWithBase(v.digits, b)
        PROVE  /\ DOMAIN Bitset(l) = 1 .. Len(Bitset(l))
               /\ \A k \in DOMAIN Bitset(l) : Bitset(l)[k] \in 0 .. WordLimit - 1
    <3>1. CASE v.digits = <<>>
      <4>1. Bitset(l) = <<0>> /\ 0 \in 0 .. WordLimit - 1
        BY <2>6, <3>1, WordType DEF LongNumberWithBase
      <4>2. QED
        BY <1>3, <4>1
    <3>2. CASE v.digits # <<>>
      <4>1. PICK words \in Nat, long \in {LongNumberWithBase(v.digits, b)} :
              /\ words = (Len(v.digits) + (WordBits \div b) - 1) \div (WordBits \div b)
              /\ Len(long) = words /\ DOMAIN long = 1 .. words
              /\ \A k \in 1 .. words :
                   long[k] = NumberWithBase(Chunk(v.digits, b, words - k + 1), 2 ^ b, WordLimit)
        BY <2>2, <3>2, LongNumber, Zenon
      <4>2. PICK base \in Nat : base = 2 ^ b
        BY PowersOfTwo
      <4>3. ASSUME NEW k \in 1 .. words PROVE long[k] \in 0 .. WordLimit - 1
        <5>1. PICK j \in Nat \ {0} : j = words - k + 1
          OBVIOUS
        <5>2. PICK part \in Seq(Nat) : part = Chunk(v.digits, b, j)
          BY <2>2, ChunkType
        <5>3. long[k] = NumberWithBase(part, base, WordLimit)
          BY <4>1, <4>2, <5>1, <5>2, Zenon
        <5>4. NumberWithBase(part, base, WordLimit) = Number(part, base) % WordLimit
          BY NumberWraps, WordType
        <5>5. Number(part, base) \in Nat
          BY NumberType
        <5>6. QED
          BY <1>2, <5>3, <5>4, <5>5
      <4>4. QED
        BY <2>6, <4>1, <4>3
    <3>3. QED
      BY <3>1, <3>2
  <2>7. CASE Base(l) = "h"
    <3>1. Bitset(l) = LongNumberWithBase(v.digits, 4)
      BY <2>1, <2>2, <2>7 DEF Bitset
    <3>2. QED
      BY <2>6, <3>1
  <2>8. CASE Base(l) = "b"
    <3>1. Bitset(l) = LongNumberWithBase(v.digits, 1)
      BY <2>1, <2>2, <2>8 DEF Bitset
    <3>2. QED
      BY <2>6, <3>1
  <2>9. QED
    BY <1>5, <2>4, <2>5, <2>7, <2>8
<1>6. QED
  BY <1>4, <1>5

-----------------------------------------------------------------------------
(* What has been reported.                                                 *)

(* The last call: of an earlier line while the first chunk of this one is  *)
(* to be reported, and then of the chunk before.                           *)
LastCalled ==
  IF chunk = 1 THEN \A k \in DOMAIN calls : calls[k].line < line_number
  ELSE /\ calls # <<>>
       /\ calls[Len(calls)].line = line_number
       /\ calls[Len(calls)].start_bit = MinBit(line) + (chunk - 2) * WordBits
       /\ calls[Len(calls)].width = WordBits

(* Calls are for features, and of a number that fits not of more than a    *)
(* word.                                                                   *)
IsPlaced(l, c) ==
  /\ l.feature # ""
  /\ Fits(l) => c.start_bit - MinBit(l) \in Nat /\ c.width \in 1 .. WordBits

Placed == \A k \in DOMAIN calls : IsPlaced(content[calls[k].line], calls[k])

(* With the position, what makes ReportsValue inductive: the chunks to     *)
(* report are those of the current line, whose range is in order, and the  *)
(* calls are of this line and earlier ones, the last one as above.         *)
Reported ==
  /\ line_number <= Len(content) + 1
  /\ \A k \in DOMAIN bitset : bitset[k] \in 0 .. WordLimit - 1
  /\ calls \in Seq(Elements(calls))
  /\ \A k \in DOMAIN calls :
       /\ calls[k].line \in 1 .. line_number
       /\ at \in {"start", "feature", "done"} => calls[k].line < line_number
  /\ at = "chunks" =>
       /\ line.feature # "" /\ ~ NoBracket(line) /\ ~ Inverted(line)
       /\ width = Width(line) /\ bitset = Bitset(line)
       /\ LastCalled
  /\ Placed
  /\ ReportsValue

RInv == IInv /\ Reported

LEMMA InitReported == Init => Reported
<1> SUFFICES ASSUME Init PROVE Reported
  OBVIOUS
<1>1. calls = <<>> /\ bitset = <<>> /\ line_number = 1 /\ at = "start"
  BY DEF Init
<1>2. <<>> \in Seq(Elements(<<>>)) /\ DOMAIN <<>> = {}
  OBVIOUS
<1>3. line_number <= Len(content) + 1
  BY <1>1, LineType DEF Init
<1>4. ReportsValue /\ Placed
  BY <1>1, <1>2 DEF ReportsValue, Placed
<1>5. QED
  BY <1>1, <1>2, <1>3, <1>4 DEF Reported

LEMMA SameReports ==
  ASSUME UNCHANGED <<content, calls>>, Placed, ReportsValue
  PROVE  Placed' /\ ReportsValue'
<1>1. ReportsValue'
  BY DEF ReportsValue
<1>2. Placed'
  BY DEF Placed
<1>3. QED
  BY <1>1, <1>2

(* Steps that stay in the line and report nothing,                         *)
LEMMA NotReporting ==
  ASSUME Reported, UNCHANGED <<content, line_number, calls, bitset>>, at' # "chunks",
         at \in {"start", "feature"} \/ at' \notin {"start", "feature", "done"}
  PROVE  Reported'
<1>1. Placed' /\ ReportsValue'
  BY SameReports DEF Reported
<1>2. \A k \in DOMAIN calls :
        at' \in {"start", "feature", "done"} => calls[k].line < line_number
  BY DEF Reported
<1>3. QED
  BY <1>1, <1>2 DEF Reported, Elements

LEMMA OneMore ==
  /\ \A m \in Nat : \A n \in 1 .. m : n + 1 <= m + 1
  /\ \A n \in Nat : \A c \in 1 .. n : c \in 1 .. n + 1 /\ c < n + 1
OBVIOUS

(* those that go on to the next line,                                      *)
LEMMA NextLineReported ==
  ASSUME Position, Reported, NextLine, UNCHANGED <<content, calls, bitset>>,
         at \in {"feature", "end of line"}
  PROVE  Reported'
<1>1. Placed' /\ ReportsValue'
  BY SameReports DEF Reported
<1>2. line_number \in Nat /\ line_number' = line_number + 1 /\ at' \in {"done", "feature"}
  BY DEF Position, NextLine
<1>3. line_number' <= Len(content) + 1
  <2>1. line_number \in 1 .. Len(content) /\ Len(content) \in Nat /\ content' = content
    BY LineType DEF Position
  <2>2. QED
    BY <1>2, <2>1, OneMore, Zenon
<1>4. \A k \in DOMAIN calls : calls[k].line \in 1 .. line_number' /\ calls[k].line < line_number'
  <2> TAKE k \in DOMAIN calls
  <2>1. calls[k].line \in 1 .. line_number
    BY DEF Reported
  <2>2. QED
    BY <1>2, <2>1, OneMore, Zenon
<1>5. QED
  BY <1>1, <1>2, <1>3, <1>4 DEF Reported, Elements

(* that which reads the value of the line,                                 *)
LEMMA ReadValueReported == ASSUME Position, Reported, ReadValue PROVE Reported'
<1>1. line_number \in DOMAIN content /\ IsLine(line)
  BY LineType DEF Position, ReadValue, line
<1>2. /\ at = "feature" /\ at' = "chunks" /\ chunk' = 1
      /\ width' = Width(line) /\ bitset' = Bitset(line)
      /\ line.feature # "" /\ ~ NoBracket(line) /\ ~ Inverted(line)
      /\ content' = content /\ line_number' = line_number /\ calls' = calls
      /\ line' = line
  BY DEF ReadValue, inputs, line
<1>3. Placed' /\ ReportsValue'
  BY <1>2, SameReports DEF Reported
<1>4. \A k \in DOMAIN bitset' : bitset'[k] \in 0 .. WordLimit - 1
  BY <1>1, <1>2, BitsetWords
<1>5. LastCalled'
  BY <1>2 DEF Reported, LastCalled
<1>6. QED
  BY <1>2, <1>3, <1>4, <1>5 DEF Reported, Elements

(* and that which calls back: the bits are those of the number, and the    *)
(* place is where the chunk before ended.                                  *)
LEMMA ReportReported == ASSUME Position, Reported, Report PROVE Reported'
<1>1. /\ at = "chunks" /\ content' = content /\ line_number' = line_number
      /\ bitset' = bitset /\ width' = width /\ chunk' = chunk + 1
      /\ line' = line
      /\ at' = "chunks" => chunk < Len(bitset)
      /\ at' \in {"chunks", "annotations", "end of line"}
  BY DEF Report, inputs, AfterChunks, line
<1>2. PICK bits \in ClampedBits(chunk) : calls' = Append(calls, Call(bits))
  BY DEF Report
<1>3. PICK n, c, s : n = Len(calls) /\ c = Call(bits) /\ s = calls'
  OBVIOUS
<1>4. calls \in Seq(Elements(calls))
  BY DEF Reported
<1>5. /\ n \in Nat /\ DOMAIN calls = 1 .. n /\ DOMAIN s = 1 .. n + 1
      /\ \A k \in 1 .. n : s[k] = calls[k]
      /\ s[n + 1] = c /\ Len(s) = n + 1
  <2>1. s = Append(calls, c)
    BY <1>2, <1>3
  <2>2. s \in Seq(Elements(s))
    BY <1>4, <2>1, AppendElements
  <2>3. calls \in Seq(Elements(calls) \cup {c})
    BY <1>4, SeqMonotonic
  <2>4. /\ Len(s) = Len(calls) + 1 /\ s[Len(calls) + 1] = c
        /\ \A k \in 1 .. Len(calls) : s[k] = calls[k]
    BY <2>1, <2>3, AppendProperties
  <2>5. Len(calls) \in Nat /\ DOMAIN calls = 1 .. Len(calls) /\ DOMAIN s = 1 .. Len(s)
    BY <1>4, <2>2, LenProperties
  <2>6. QED
    BY <1>3, <2>4, <2>5
<1>6. /\ c.line = line_number /\ c.start_bit = MinBit(line) + (chunk - 1) * WordBits
      /\ c.width = ValueWidth(chunk) /\ c.bits = bits
  BY <1>3 DEF Call
<1>7. PICK at_ : at_ = line_number
  OBVIOUS
<1>8. /\ at_ \in Nat \ {0} /\ at_ \in DOMAIN content /\ IsLine(line)
      /\ line = content[at_] /\ chunk \in 1 .. Len(bitset) /\ Len(bitset) \in Nat
  BY <1>1, <1>7, LineType DEF Position, line
<1>9. /\ line.feature # "" /\ Placed
      /\ ~ NoBracket(line) /\ ~ Inverted(line) /\ width = Width(line)
      /\ bitset = Bitset(line) /\ LastCalled /\ ReportsValue
  BY <1>1 DEF Reported
<1>10. MinBit(line) \in Nat /\ MaxBit(line) \in Nat /\ RangeWidth(line) \in Int
       /\ RangeWidth(line) >= 1 /\ RangeWidth(line) = MaxBit(line) - MinBit(line) + 1
  <2>1. MinBit(line) \in Nat /\ MaxBit(line) \in Nat
    BY <1>8, BitsType
  <2>2. ~ MaxBit(line) < MinBit(line)
    BY <1>9 DEF Inverted
  <2>3. QED
    BY <2>1, <2>2 DEF RangeWidth
<1>11. ASSUME Fits(line)
       PROVE  /\ ReportsBits(line, c)
              /\ c.start_bit - MinBit(line) \in Nat /\ c.width \in 1 .. WordBits
  <2>1. PICK wide : wide = ValueWidth(chunk)
    OBVIOUS
  <2>2. /\ Width(line) = RangeWidth(line)
    BY <1>8, <1>9, <1>10, <1>11, ChunksOfValue
  <2>3. wide = IF chunk = Len(Bitset(line)) THEN LastWidth(line) ELSE WordBits
    BY <1>9, <2>1, <2>2 DEF ValueWidth, LastWidth
  <2>4. chunk \in 1 .. Len(Bitset(line))
    BY <1>8, <1>9
  <2>5. PICK low : low = (chunk - 1) * WordBits
    OBVIOUS
  <2>6. /\ wide \in 1 .. WordBits /\ low \in Nat /\ low + wide <= RangeWidth(line)
        /\ Bitset(line)[chunk] % 2 ^ wide = (Assigned(line) \div 2 ^ low) % 2 ^ wide
    BY <1>8, <1>10, <1>11, <2>3, <2>4, <2>5, ChunksOfValue
  <2>7. bits = bitset[chunk] % 2 ^ wide
    BY <2>1, <2>6 DEF ClampedBits
  <2>8. c.start_bit = MinBit(line) + low /\ c.width = wide
    BY <1>6, <2>1, <2>5
  <2>9. c.start_bit - MinBit(line) = low
    BY <1>10, <2>6, <2>8
  <2>10. c.start_bit + c.width <= MaxBit(line) + 1
    BY <1>10, <2>6, <2>8, WordType
  <2>11. c.bits = (Assigned(line) \div 2 ^ low) % 2 ^ wide
    BY <1>6, <1>9, <2>6, <2>7, Zenon
  <2>12. c.bits = (Assigned(line) \div 2 ^ (c.start_bit - MinBit(line))) % 2 ^ c.width
    BY <2>8, <2>9, <2>11, Zenon
  <2>13. QED
    BY <2>6, <2>8, <2>9, <2>10, <2>12 DEF ReportsBits
<1>12. /\ c.start_bit = IF n + 1 = 1 \/ s[n].line # at_ THEN MinBit(line)
                        ELSE s[n].start_bit + s[n].width
  <2>1. CASE chunk = 1
    <3>1. \A k \in DOMAIN calls : calls[k].line < at_
      BY <1>7, <1>9, <2>1 DEF LastCalled
    <3>2. n + 1 # 1 => n \in 1 .. n /\ n \in DOMAIN calls
      BY <1>5
    <3>3. n + 1 = 1 \/ s[n].line # at_
      BY <1>5, <1>8, <3>1, <3>2
    <3>4. (1 - 1) * WordBits = 0
      BY WordType
    <3>5. c.start_bit = MinBit(line)
      BY <1>6, <1>10, <2>1, <3>4
    <3>6. QED
      BY <3>3, <3>5
  <2>2. CASE chunk # 1
    <3>1. /\ calls # <<>> /\ calls[n].line = at_
          /\ calls[n].start_bit = MinBit(line) + (chunk - 2) * WordBits
          /\ calls[n].width = WordBits
      BY <1>3, <1>7, <1>9, <2>2 DEF LastCalled
    <3>2. n # 0
      BY <1>3, <1>4, <3>1, EmptySeq
    <3>3. s[n] = calls[n] /\ n + 1 # 1
      BY <1>5, <3>2
    <3>4. PICK j \in Nat : chunk - 2 = j /\ chunk - 1 = j + 1
      BY <1>8, <2>2
    <3>5. (j + 1) * WordBits = j * WordBits + WordBits /\ j * WordBits \in Nat
          /\ WordBits \in Nat
      BY WordType
    <3>6. c.start_bit = s[n].start_bit + s[n].width
      BY <1>6, <1>10, <3>1, <3>3, <3>4, <3>5
    <3>7. QED
      BY <3>1, <3>3, <3>6
  <2>3. QED
    BY <2>1, <2>2
<1>13. ReportsValue'
  <2>1. ASSUME NEW k \in 1 .. n + 1, Fits(content[s[k].line])
        PROVE  /\ ReportsBits(content[s[k].line], s[k])
               /\ s[k].start_bit =
                    IF k = 1 \/ s[k - 1].line # s[k].line THEN MinBit(content[s[k].line])
                    ELSE s[k - 1].start_bit + s[k - 1].width
    <3>1. CASE k = n + 1
      <4>1. s[k] = c /\ k - 1 = n /\ content[s[k].line] = line /\ s[k].line = at_
        BY <1>5, <1>6, <1>7, <1>8, <3>1
      <4>2. QED
        BY <1>11, <1>12, <2>1, <3>1, <4>1
    <3>2. CASE k # n + 1
      <4>1. k \in 1 .. n /\ (k = 1 \/ k - 1 \in 1 .. n)
        BY <1>5, <3>2
      <4>2. s[k] = calls[k] /\ (k = 1 \/ s[k - 1] = calls[k - 1]) /\ k \in DOMAIN calls
        BY <1>5, <4>1
      <4>3. /\ ReportsBits(content[calls[k].line], calls[k])
            /\ calls[k].start_bit =
                 IF k = 1 \/ calls[k - 1].line # calls[k].line
                 THEN MinBit(content[calls[k].line])
                 ELSE calls[k - 1].start_bit + calls[k - 1].width
        BY <1>9, <2>1, <4>2 DEF ReportsValue
      <4>4. QED
        BY <4>2, <4>3
    <3>3. QED
      BY <3>1, <3>2
  <2>2. QED
    BY <1>1, <1>3, <1>5, <2>1, Zenon DEF ReportsValue
<1>14. Placed'
  <2>1. \A k \in 1 .. n : IsPlaced(content[s[k].line], s[k])
    BY <1>5, <1>9 DEF Placed
  <2>2. IsPlaced(content[s[n + 1].line], s[n + 1])
    BY <1>5, <1>6, <1>7, <1>8, <1>9, <1>11 DEF IsPlaced
  <2>3. \A k \in 1 .. n + 1 : k = n + 1 \/ k \in 1 .. n
    BY <1>5
  <2>4. \A k \in 1 .. n + 1 : IsPlaced(content[s[k].line], s[k])
    BY <2>1, <2>2, <2>3
  <2>5. \A k \in DOMAIN s : IsPlaced(content'[s[k].line], s[k])
    BY <1>1, <1>5, <2>4
  <2>6. QED
    BY <1>3, <2>5 DEF Placed, IsPlaced
<1>15. ASSUME at' = "chunks" PROVE LastCalled'
  <2>1. /\ ValueWidth(chunk) = WordBits
    BY <1>1, <1>8, <1>15 DEF ValueWidth
  <2>2. chunk' # 1 /\ chunk' - 2 = chunk - 1
    <3>1. \A m \in Nat : \A j \in 1 .. m : j + 1 # 1 /\ (j + 1) - 2 = j - 1
      OBVIOUS
    <3>2. QED
      BY <1>1, <1>8, <3>1, Zenon
  <2>3. calls' # <<>> /\ Len(calls') = n + 1 /\ calls'[n + 1] = c
    <3>1. n + 1 \in DOMAIN s
      BY <1>5
    <3>2. s # <<>>
      BY <3>1
    <3>3. QED
      BY <1>3, <1>5, <3>2
  <2>4. QED
    BY <1>1, <1>6, <2>1, <2>2, <2>3 DEF LastCalled
<1>16. \A k \in 1 .. n + 1 : s[k].line \in 1 .. line_number
  <2>1. \A k \in 1 .. n : s[k].line \in 1 .. line_number
    BY <1>5 DEF Reported
  <2>2. line_number \in 1 .. line_number
    BY <1>7, <1>8
  <2>3. \A k \in 1 .. n + 1 : k = n + 1 \/ k \in 1 .. n
    BY <1>5
  <2>4. QED
    BY <1>5, <1>6, <2>1, <2>2, <2>3
<1>17. (calls \in Seq(Elements(calls)))'
  BY <1>2, <1>4, AppendElements
<1>18. line_number' <= Len(content') + 1
       /\ \A k \in DOMAIN bitset' : bitset'[k] \in 0 .. WordLimit - 1
  BY <1>1 DEF Reported
<1>19. QED
  <2>1. (\A k \in DOMAIN calls :
          /\ calls[k].line \in 1 .. line_number
          /\ at \in {"start", "feature", "done"} => calls[k].line < line_number)'
    BY <1>1, <1>3, <1>5, <1>16
  <2>2. (at = "chunks" => /\ line.feature # "" /\ ~ NoBracket(line) /\ ~ Inverted(line)
                          /\ width = Width(line) /\ bitset = Bitset(line)
                          /\ LastCalled)'
    BY <1>1, <1>9, <1>15
  <2>3. QED
    BY <1>13, <1>17, <1>18, <1>14, <2>1, <2>2 DEF Reported

LEMMA StepReported == RInv /\ [Next]_vars => Reported'
<1> SUFFICES ASSUME Position, Reported, [Next]_vars PROVE Reported'
  BY DEF RInv, IInv
<1>1. CASE UNCHANGED vars
  <2> USE <1>1 DEF vars, inputs
  <2>1. Placed' /\ ReportsValue'
    BY SameReports DEF Reported
  <2>2. LastCalled' <=> LastCalled
    BY DEF LastCalled, line
  <2>3. line' = line
    BY DEF line
  <2>4. QED
    BY <2>1, <2>2, <2>3 DEF Reported, Elements
<1>2. CASE Start
  <2>1. at = "start" /\ at' \in {"done", "feature"}
        /\ UNCHANGED <<content, line_number, calls, bitset>>
    BY <1>2 DEF Start, inputs
  <2>2. QED
    BY <2>1, NotReporting
<1>3. CASE NoFeature
  <2>1. at = "feature" /\ at' = "annotations"
        /\ UNCHANGED <<content, line_number, calls, bitset>>
    BY <1>3 DEF NoFeature, inputs
  <2>2. QED
    BY <2>1, NotReporting
<1>4. CASE SkipLine
  <2>1. at = "feature" /\ NextLine /\ UNCHANGED <<content, calls, bitset>>
    BY <1>4 DEF SkipLine, inputs
  <2>2. QED
    BY <2>1, NextLineReported
<1>5. CASE ReadAnnotations \/ NoAnnotations
  <2>1. at' = "end of line" /\ UNCHANGED <<content, line_number, calls, bitset>>
    BY <1>5 DEF ReadAnnotations, NoAnnotations, inputs
  <2>2. QED
    BY <2>1, NotReporting
<1>6. CASE EndOfLine
  <2>1. at = "end of line" /\ NextLine /\ UNCHANGED <<content, calls, bitset>>
    BY <1>6 DEF EndOfLine, inputs
  <2>2. QED
    BY <2>1, NextLineReported
<1>7. QED
  BY <1>1, <1>2, <1>3, <1>4, <1>5, <1>6, ReadValueReported, ReportReported DEF Next

LEMMA TypeFollows == RInv => TypeOK
<1> SUFFICES ASSUME Position, Reported PROVE TypeOK
  BY DEF RInv, IInv
<1>1. line_number \in 1 .. Len(content) + 1
  <2>1. line_number \in Nat \ {0} /\ Len(content) \in Nat
        /\ line_number <= Len(content) + 1
    BY LineType DEF Position, Reported
  <2>2. QED
    BY <2>1
<1>2. at \in {"feature", "chunks", "annotations", "end of line"} =>
        line_number <= Len(content)
  <2>1. at \in {"feature", "chunks", "annotations", "end of line"} =>
          line_number \in 1 .. Len(content) /\ Len(content) \in Nat
    BY LineType DEF Position
  <2>2. \A m \in Nat : \A n \in 1 .. m : n <= m
    OBVIOUS
  <2>3. QED
    BY <2>1, <2>2, Zenon
<1>3. at = "chunks" => chunk \in DOMAIN bitset
  <2> SUFFICES ASSUME at = "chunks" PROVE chunk \in DOMAIN bitset
    OBVIOUS
  <2>1. IsLine(line)
    BY LineType DEF Position, line
  <2>2. bitset = Bitset(line) /\ chunk \in 1 .. Len(bitset)
    BY DEF Position, Reported
  <2>3. QED
    BY <2>1, <2>2, BitsetWords
<1>4. QED
  BY <1>1, <1>2, <1>3 DEF TypeOK, Position, Reported

(* What has been called back when a text of one line has been read.        *)
LEMMA WholeLine ==
  ASSUME IInv, Reported, at = "done", NEW l, content = <<l>>
  PROVE  /\ \A c \in ToSet(calls) : IsPlaced(l, c) /\ (Fits(l) => ReportsBits(l, c))
         /\ result < kSkipped /\ l.feature # "" =>
              \A bit \in MinBit(l) .. MaxBit(l) : \E c \in ToSet(calls) :
                bit \in c.start_bit .. c.start_bit + c.width - 1
<1>1. DOMAIN content = {1} /\ content[1] = l /\ Len(content) = 1
  OBVIOUS
<1>2. ASSUME NEW c \in ToSet(calls)
      PROVE  IsPlaced(l, c) /\ (Fits(l) => ReportsBits(l, c))
  <2>1. PICK k \in DOMAIN calls : calls[k] = c
    BY DEF ToSet
  <2>2. c.line = 1
    <3>1. c.line \in 1 .. line_number /\ c.line < line_number
      BY <2>1 DEF Reported
    <3>2. line_number \in Nat /\ line_number <= 2
      BY <1>1 DEF IInv, Position, Reported
    <3>3. \A n \in Nat : n <= 2 => \A i \in 1 .. n : i < n => i = 1
      OBVIOUS
    <3>4. QED
      BY <3>1, <3>2, <3>3, Zenon
  <2>3. Placed /\ ReportsValue
    BY DEF Reported
  <2>4. QED
    BY <1>1, <2>1, <2>2, <2>3 DEF Placed, ReportsValue
<1>3. ASSUME result < kSkipped, l.feature # "", NEW bit \in MinBit(l) .. MaxBit(l)
      PROVE  \E c \in ToSet(calls) : bit \in c.start_bit .. c.start_bit + c.width - 1
  <2>1. line_number = Len(content) + 1 /\ CalledSoFar
    BY <1>3 DEF IInv, Position
  <2>2. FeatureIsCalled(1)
    BY <1>1, <2>1 DEF CalledSoFar
  <2>3. QED
    BY <1>1, <1>3, <2>2 DEF FeatureIsCalled, IsCalled
<1>4. QED
  BY <1>2, <1>3

(* Every variable has its type: the parser is never behind the last line,  *)
(* it never reports a chunk that the value does not have, and chunks are   *)
(* words.                                                                  *)
THEOREM TypeCorrect == Spec => []TypeOK
<1>1. Init => RInv
  BY InitInvariant, InitReported DEF RInv
<1>2. RInv /\ [Next]_vars => RInv'
  BY StepInvariant, StepReported DEF RInv
<1>3. QED
  BY <1>1, <1>2, TypeFollows, PTL DEF Spec

(* Of a number that fits its range, however many words it has and for      *)
(* every width of a word, the calls of the parse callback report the bits, *)
(* each at its place, from the lowest up and without a gap.                *)
THEOREM ValueReported == Spec => []ReportsValue
<1>1. Init => RInv
  BY InitInvariant, InitReported DEF RInv
<1>2. RInv /\ [Next]_vars => RInv'
  BY StepInvariant, StepReported DEF RInv
<1>3. RInv => ReportsValue
  BY DEF RInv, Reported
<1>4. QED
  BY <1>1, <1>2, <1>3, PTL DEF Spec
=============================================================================
