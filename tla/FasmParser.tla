----------------------------- MODULE FasmParser -----------------------------
(***************************************************************************)
(* fasm::Parse (src/fpga/fasm-parser.h).  A line is a record of what the   *)
(* scanner finds in it:                                                    *)
(*   feature      the name, "" if there is none                            *)
(*   range        the numbers in brackets: none, one, or max and min       *)
(*   bracket      whether the range ends with a bracket                    *)
(*   assigned     none, or one value: its base ("" for a plain decimal     *)
(*                number), the number before the tick, the digits after it *)
(*                (a tick is never the last of a line)                     *)
(*   annotations  none, or one block: its annotations, each "quoted" or    *)
(*                what is wrong with it, and whether the block ends with } *)
(*   junk         whether there is more, which is not a comment            *)
(*                                                                         *)
(* A word of 64 bits has WordBits here.                                    *)
(***************************************************************************)
EXTENDS Integers, Sequences, SequencesExt

CONSTANTS
  WordBits,       (* bits of a chunk of a value: 64                         *)
  RangeLimit,     (* bit_range_t is below this: 2^16                        *)
  Contents,       (* what may be parsed: sequences of lines                 *)
  Answers         (* what the parse callback may return: true to go on      *)

ASSUME ParserAssumption ==
  /\ WordBits \in Nat /\ WordBits % 4 = 0 /\ WordBits > 0
  /\ RangeLimit \in Nat \ {0}
  /\ Answers \subseteq BOOLEAN

(* What the scanner can find; the features are any names.                  *)
AnyValue == [base : STRING, number : Nat, digits : Seq(Nat)]
Radix(base) == CASE base = "h" -> 16 [] base = "b" -> 2
                 [] base = "o" -> 8 [] OTHER -> 10
AnyBlock == [list : Seq(STRING), closed : BOOLEAN]

IsLine(l) ==
  /\ l.range \in Seq(Nat) /\ Len(l.range) <= 2
  /\ l.bracket \in BOOLEAN
  /\ l.assigned \in Seq(AnyValue) /\ Len(l.assigned) <= 1
  /\ \A v \in ToSet(l.assigned) : v.digits \in Seq(0 .. Radix(v.base) - 1)
  /\ l.annotations \in Seq(AnyBlock) /\ Len(l.annotations) <= 1
  /\ l.junk \in BOOLEAN

ASSUME ContentsAssumption ==
  \A lines \in Contents :
    /\ lines \in Seq(ToSet(lines))
    /\ \A l \in ToSet(lines) : IsLine(l)

VARIABLES
  content,        (* the lines                                              *)
  newline,        (* whether the last one ends with a newline               *)
  annotating,     (* whether there is an annotation callback                *)
  at,             (* what is read next                                      *)
  line_number,
  result,
  width, bitset,  (* the value of the line                                  *)
  chunk,          (* the chunk of it to report                              *)
  calls,          (* calls of the parse callback (history)                  *)
  notes           (* calls of the annotation callback (history)             *)

inputs == <<content, newline, annotating>>
vars == <<inputs, at, line_number, result, width, bitset, chunk,
          calls, notes>>

(* ParseResult, in increasing amount of severity.                          *)
kSuccess == 0
kInfo == 1
kNonCritical == 2
kSkipped == 3
kUserAbort == 4
kError == 5

Worst(severities) == Max(severities)

line == content[line_number]

-----------------------------------------------------------------------------
(* Ranges and numbers.                                                     *)

MaxBit(l) == IF l.range = <<>> THEN 0 ELSE l.range[1] % RangeLimit
MinBit(l) == IF l.range = <<>> THEN 0 ELSE Last(l.range) % RangeLimit
RangeWidth(l) == MaxBit(l) - MinBit(l) + 1

(* Digits of a number that is kept in limit's width.                       *)
NumberWithBase(digits, base, limit) ==
  FoldLeft(LAMBDA v, d : (v * base + d) % limit, 0, digits)

WordLimit == 2 ^ WordBits

(* Whole chunks are cut from the front, and then the chunks are reversed.  *)
LongNumberWithBase(digits, l2base) ==
  LET perWord == WordBits \div l2base
      words == (Len(digits) + perWord - 1) \div perWord
      Digits(k) == SubSeq(digits, perWord * (k - 1) + 1,
                          Min({perWord * k, Len(digits)}))
  IN IF digits = <<>> THEN <<0>>
     ELSE Reverse([k \in 1 .. words |->
                     NumberWithBase(Digits(k), 2 ^ l2base, WordLimit)])

(* The chunks of a value.  One bit is set if there is none, or an unknown  *)
(* base; a plain number is taken as it is.                                 *)
Bitset(l) ==
  IF l.assigned = <<>> THEN <<1>>
  ELSE LET v == l.assigned[1] IN
       CASE v.base = ""  -> <<v.number % WordLimit>>
         [] v.base = "h" -> LongNumberWithBase(v.digits, 4)
         [] v.base = "b" -> LongNumberWithBase(v.digits, 1)
         [] v.base = "o" -> <<NumberWithBase(v.digits, 8, WordLimit)>>
         [] v.base = "d" -> <<NumberWithBase(v.digits, 10, WordLimit)>>
         [] OTHER        -> <<1>>

Base(l) == IF l.assigned = <<>> THEN "none" ELSE l.assigned[1].base

UnknownBase(l) == Base(l) \notin {"none", "", "h", "b", "o", "d"}

(* Integers are at most a word wide.                                       *)
Trims(l) == Base(l) \in {"", "o", "d"} /\ RangeWidth(l) > WordBits

Width(l) == IF Trims(l) THEN WordBits ELSE RangeWidth(l)

Issues(l) ==
  {severity \in {kInfo, kNonCritical, kError} :
     \/ severity = kInfo /\ l.assigned = <<>> /\ MinBit(l) # MaxBit(l)
     \/ /\ severity = kNonCritical
        /\ Base(l) \notin {"none", ""} /\ l.assigned[1].number > RangeWidth(l)
     \/ severity = kError /\ (Trims(l) \/ UnknownBase(l))}

-----------------------------------------------------------------------------
Init ==
  /\ content \in Contents
  /\ newline \in BOOLEAN
  /\ annotating \in BOOLEAN
  /\ at = "start"
  /\ line_number = 1
  /\ result = kSuccess
  /\ width = 0 /\ bitset = <<>> /\ chunk = 1
  /\ calls = <<>> /\ notes = <<>>

(* Bug: the end of the text is noticed a line late.                        *)
NextLineLate ==
  /\ line_number' = line_number + 1
  /\ at' = IF line_number > Len(content) THEN "done" ELSE "feature"

NextLine ==
  /\ line_number' = line_number + 1
  /\ at' = IF line_number = Len(content) THEN "done" ELSE "feature"

(* Without a newline at the end nothing is parsed.                         *)
Start ==
  /\ at = "start"
  /\ \/ content = <<>> /\ at' = "done" /\ UNCHANGED result
     \/ content # <<>> /\ ~ newline /\ at' = "done" /\ result' = kError
     \/ content # <<>> /\ newline /\ at' = "feature" /\ UNCHANGED result
  /\ UNCHANGED <<inputs, line_number, width, bitset, chunk, calls, notes>>

NoFeature ==
  /\ at = "feature"
  /\ line.feature = ""
  /\ at' = "annotations"
  /\ UNCHANGED <<inputs, line_number, result, width, bitset, chunk, calls,
                 notes>>

NoBracket(l) == l.range # <<>> /\ ~ l.bracket
Inverted(l) == ~ NoBracket(l) /\ MaxBit(l) < MinBit(l)

(* Bug: the line stays the current one.                                    *)
SkipLineAgain ==
  /\ at = "feature"
  /\ line.feature # ""
  /\ \/ NoBracket(line) /\ result' = kError
     \/ Inverted(line) /\ result' = Worst({result, kSkipped})
  /\ UNCHANGED <<inputs, at, line_number, width, bitset, chunk, calls, notes>>

(* Bug: a skipped line hides an earlier error.                             *)
SkipLineForget ==
  /\ at = "feature"
  /\ line.feature # ""
  /\ \/ NoBracket(line) /\ result' = kError
     \/ Inverted(line) /\ result' = kSkipped
  /\ NextLine
  /\ UNCHANGED <<inputs, width, bitset, chunk, calls, notes>>

SkipLine ==
  /\ at = "feature"
  /\ line.feature # ""
  /\ \/ NoBracket(line) /\ result' = kError
     \/ Inverted(line) /\ result' = Worst({result, kSkipped})
  /\ NextLine
  /\ UNCHANGED <<inputs, width, bitset, chunk, calls, notes>>

ReadValue ==
  /\ at = "feature"
  /\ line.feature # "" /\ ~ NoBracket(line) /\ ~ Inverted(line)
  /\ result' = Worst({result} \cup Issues(line))
  /\ width' = Width(line)
  /\ bitset' = Bitset(line)
  /\ chunk' = 1
  /\ at' = "chunks"
  /\ UNCHANGED <<inputs, line_number, calls, notes>>

-----------------------------------------------------------------------------
(* Reporting.                                                              *)

(* Bug: the last chunk has as many bits as the others.                     *)
WholeWidth(k) == IF k = 1 THEN Min({width, WordBits}) ELSE WordBits

(* The last chunk has the bits that are left of the width, which may be    *)
(* more than a word has, or none, or less than none.                       *)
ValueWidth(k) ==
  IF k = Len(bitset) THEN width - WordBits * (Len(bitset) - 1) ELSE WordBits

(* Shifting by other amounts than a word has bits is undefined: then the   *)
(* mask is any that a shift can give.                                      *)
ClampedBits(k) ==
  {bitset[k] % 2 ^ w : w \in IF ValueWidth(k) \in 1 .. WordBits
                             THEN {ValueWidth(k)} ELSE 0 .. WordBits}

Call(bits) ==
  [line |-> line_number, start_bit |-> MinBit(line) + (chunk - 1) * WordBits,
   width |-> ValueWidth(chunk), bits |-> bits]

(* After the chunks: the rest of a line with an unknown base is skipped.   *)
AfterChunks == IF UnknownBase(line) THEN "end of line" ELSE "annotations"

(* Bug: only the first chunk is reported.                                  *)
ReportFirst ==
  /\ at = "chunks"
  /\ \E bits \in ClampedBits(chunk), more \in Answers :
       /\ calls' = Append(calls, Call(bits))
       /\ result' = IF more THEN result ELSE Worst({result, kUserAbort})
       /\ at' = AfterChunks
  /\ chunk' = chunk + 1
  /\ UNCHANGED <<inputs, line_number, width, bitset, notes>>

Report ==
  /\ at = "chunks"
  /\ \E bits \in ClampedBits(chunk), more \in Answers :
       /\ calls' = Append(calls, Call(bits))
       /\ result' = IF more THEN result ELSE Worst({result, kUserAbort})
       /\ at' = IF more /\ chunk < Len(bitset) THEN "chunks" ELSE AfterChunks
  /\ chunk' = chunk + 1
  /\ UNCHANGED <<inputs, line_number, width, bitset, notes>>

(* The annotations before the first that is wrong are called back, and one *)
(* there must be.  After a block nothing is looked at any more.            *)
ReadAnnotations ==
  /\ at = "annotations"
  /\ line.annotations # <<>>
  /\ LET block == line.annotations[1]
         wrong == SelectInSeq(block.list, LAMBDA a : a # "quoted")
         good == IF wrong = 0 THEN Len(block.list) ELSE wrong - 1
     IN IF annotating
        THEN /\ notes' = notes \o [i \in 1 .. good |-> <<line_number, i>>]
             /\ result' = IF block.list # <<>> /\ wrong = 0 /\ block.closed
                          THEN result ELSE kError
        ELSE UNCHANGED <<notes, result>>
  /\ at' = "end of line"
  /\ UNCHANGED <<inputs, line_number, width, bitset, chunk, calls>>

NoAnnotations ==
  /\ at = "annotations"
  /\ line.annotations = <<>>
  /\ result' = IF line.junk THEN kError ELSE result
  /\ at' = "end of line"
  /\ UNCHANGED <<inputs, line_number, width, bitset, chunk, calls, notes>>

EndOfLine ==
  /\ at = "end of line"
  /\ NextLine
  /\ UNCHANGED <<inputs, result, width, bitset, chunk, calls, notes>>

Next ==
  \/ Start \/ NoFeature \/ SkipLine \/ ReadValue \/ Report
  \/ ReadAnnotations \/ NoAnnotations \/ EndOfLine

(* One call that waits for nothing.                                        *)
Spec == Init /\ [][Next]_vars /\ WF_vars(Next)

-----------------------------------------------------------------------------
TypeOK ==
  /\ at \in {"start", "feature", "chunks", "annotations", "end of line", "done"}
  /\ line_number \in 1 .. Len(content) + 1
  /\ at \in {"feature", "chunks", "annotations", "end of line"} =>
       line_number <= Len(content)
  /\ result \in kSuccess .. kError
  /\ at = "chunks" => chunk \in DOMAIN bitset
  /\ \A k \in DOMAIN bitset : bitset[k] \in 0 .. WordLimit - 1

Number(digits, base) == FoldLeft(LAMBDA v, d : v * base + d, 0, digits)

(* The number that a line assigns, however many bits it has.               *)
Assigned(l) ==
  CASE Base(l) = "" -> l.assigned[1].number
    [] Base(l) \in {"h", "b", "o", "d"} ->
         Number(l.assigned[1].digits, Radix(Base(l)))
    [] OTHER -> 1

DigitBits(l) ==
  CASE Base(l) = "h" -> 4 * Len(l.assigned[1].digits)
    [] Base(l) = "b" -> Len(l.assigned[1].digits)
    [] OTHER -> 0

(* The number fits in one word and is for one, or it has as many words as  *)
(* the range, and all of them are whole.                                   *)
Fits(l) ==
  \/ RangeWidth(l) <= WordBits /\ DigitBits(l) <= WordBits
  \/ /\ Base(l) \in {"h", "b"}
     /\ DigitBits(l) % WordBits = 0
     /\ DigitBits(l) \div WordBits = (RangeWidth(l) + WordBits - 1) \div WordBits

ReportsBits(l, c) ==
  /\ c.start_bit + c.width <= MaxBit(l) + 1
  /\ c.bits = (Assigned(l) \div 2 ^ (c.start_bit - MinBit(l))) % 2 ^ c.width

(* "The feature is set the values given in bits, starting from lowest      *)
(* start_bit": what a call reports are the bits of the number that belong  *)
(* at its place in the range, and the calls of a line go up without gap.   *)
ReportsValue ==
  \A k \in DOMAIN calls :
    LET c == calls[k]
        l == content[c.line]
    IN Fits(l) =>
         /\ ReportsBits(l, c)
         /\ c.start_bit =
              IF k = 1 \/ calls[k - 1].line # c.line THEN MinBit(l)
              ELSE calls[k - 1].start_bit + calls[k - 1].width

IsCalled(i, bit) ==
  \E c \in ToSet(calls) :
    c.line = i /\ bit \in c.start_bit .. c.start_bit + c.width - 1

(* All of the range of the feature is reported.                            *)
FeatureIsCalled(i) ==
  content[i].feature # "" =>
    \A bit \in MinBit(content[i]) .. MaxBit(content[i]) : IsCalled(i, bit)

(* The annotations of the line, one after the other, and nothing else.     *)
AnnotationsAreCalled(i) ==
  annotating /\ content[i].annotations # <<>> =>
    LET count == Len(content[i].annotations[1].list) IN
    \E before \in 0 .. Len(notes) - count :
      \A n \in DOMAIN notes :
        IF n \in before + 1 .. before + count THEN notes[n] = <<i, n - before>>
        ELSE notes[n][1] # i

(* "Start to worry at kSkipped": below it nothing of the text is lost. All *)
(* features are reported, in all of their range, and so are annotations.   *)
AcceptedIsWhole ==
  at = "done" /\ result < kSkipped =>
    \A i \in DOMAIN content : FeatureIsCalled(i) /\ AnnotationsAreCalled(i)

(* "The most severe issue found is returned".                              *)
SeverityKept == [][result' >= result]_vars

(* Errors and warnings do not keep the parser in a line.                   *)
Ends == <>(at = "done")

-----------------------------------------------------------------------------
(* The comments and tests make no exception to ReportsValue: bits start    *)
(* "from lowest start_bit (lsb)", and too wide numbers are "properly       *)
(* shaved".                                                                *)
ReportsAnyValue ==
  \A k \in DOMAIN calls : ReportsBits(content[calls[k].line], calls[k])
=============================================================================
