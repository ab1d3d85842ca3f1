----------------------------- MODULE XC7Frames -----------------------------
(***************************************************************************)
(* Frames<kXC7>::AddMissingFrames (src/fpga/xilinx/frames.h): after the    *)
(* features have been turned into frames, blank frames are added for the   *)
(* rest of the part.  The loop walks the part with GetNextFrameAddress     *)
(* from address zero; one action is one iteration of the do-while.         *)
(***************************************************************************)
EXTENDS XC7Part

CONSTANTS
  Parts,          (* the parts the program may be run for                   *)
  Words,          (* contents of a frame                                    *)
  Blank,          (* the content of a value-initialised frame, all zeroes   *)
  FrameKeys       (* addresses the assembler may have written before        *)

ASSUME FramesAssumption ==
  /\ \A part \in Parts : IsPart(part)
  /\ Blank \in Words
  /\ FrameKeys \subseteq Address

VARIABLES
  part,           (* the part, fixed                                        *)
  assembled,      (* the frames as the assembler handed them in (history)   *)
  data,           (* Frames::data_, a map from addresses to contents        *)
  current         (* current_frame_address, a std::optional                 *)

vars == <<part, assembled, data, current>>

Init ==
  /\ part \in Parts
  /\ \E keys \in SUBSET FrameKeys : assembled \in [keys -> Words]
  /\ data = assembled
  /\ current = {Zero}

-----------------------------------------------------------------------------
(* data_.insert({address, {}})                                             *)
InsertBlank(frames, address) ==
  [a \in DOMAIN frames \cup {address} |->
     IF a \in DOMAIN frames THEN frames[a] ELSE Blank]

Advance(a) ==
  /\ current' = GetNextFrameAddress(part, a)
  /\ UNCHANGED <<part, assembled>>

(* The iteration finds a frame: nothing is inserted.                       *)
KeepFrame ==
  \E a \in current :
    /\ a \in DOMAIN data
    /\ UNCHANGED data
    /\ Advance(a)

(* Bug: the frame is replaced without looking for it.                      *)
ReplaceFrame ==
  \E a \in current :
    /\ data' = [b \in DOMAIN data \cup {a} |-> IF b = a THEN Blank ELSE data[b]]
    /\ Advance(a)

(* The iteration finds no frame: a blank one is inserted.                  *)
AddMissingFrame ==
  \E a \in current :
    /\ a \notin DOMAIN data
    /\ data' = InsertBlank(data, a)
    /\ Advance(a)

Next == KeepFrame \/ AddMissingFrame

(* The loop is straight-line code of one thread: it does not stop halfway. *)
Spec == Init /\ [][Next]_vars /\ WF_vars(Next)

Done == current = {}

-----------------------------------------------------------------------------
TypeOK ==
  /\ part \in Parts
  /\ DOMAIN assembled \subseteq FrameKeys
  /\ assembled \in [DOMAIN assembled -> Words]
  /\ DOMAIN data \subseteq Address
  /\ data \in [DOMAIN data -> Words]
  /\ current \subseteq Address
  /\ \A a, b \in current : a = b

(* Filling in the missing frames never loses or changes a frame the        *)
(* features wrote: the assembled design survives, whatever the part.       *)
AssembledKept ==
  \A a \in DOMAIN assembled : a \in DOMAIN data /\ data[a] = assembled[a]

(* What is added is blank, and, where every row, column and frame fits its *)
(* address field, is a frame of the part; the only exception is address    *)
(* zero, where the do-while starts without asking the part.                *)
AddedArePartFrames ==
  \A a \in DOMAIN data \ DOMAIN assembled :
    /\ data[a] = Blank
    /\ Fits(part) => a = Zero \/ IsValidFrameAddress(part, a)

(* No frame is left out: every frame of a regular part that the walk has   *)
(* already passed has been recorded, hence all of them when it ends.       *)
Swept ==
  Fits(part) /\ IsRegular(part) =>
    \A a \in Address :
      /\ IsValidFrameAddress(part, a)
      /\ \A c \in current : Less(a, c)
      => a \in DOMAIN data

(* The comment of AddMissingFrames: the frames that the part has and the   *)
(* container lacks are added.                                              *)
AddsMissingFrames ==
  Done => \A a \in Address : IsValidFrameAddress(part, a) => a \in DOMAIN data

(* The walk goes through the addresses in strictly increasing order, also  *)
(* in parts with missing rows, buses or columns, so that no address is     *)
(* visited twice: what makes the do-while end.                             *)
CursorAdvances ==
  [][Fits(part) => \A a \in current : \A b \in current' : Less(a, b)]_vars

(* The loop ends for every part whose rows and columns fit their fields.   *)
Termination == Fits(part) ~> Done
=============================================================================
