--------------------------- MODULE XC7Programming ---------------------------
(***************************************************************************)
(* From the frames of a design to a configured device: BitStream::Encode   *)
(* (src/fpga/xilinx/bitstream.h) fills in the missing frames, lays all     *)
(* frames out as the data of one packet, surrounds it with the packets of  *)
(* the programming sequence, and a device handles these packets.           *)
(*                                                                         *)
(* The steps are those of XC7Frames, then the loop over the frames of      *)
(* CreateType2ConfigurationPacketData, then CreateConfigurationPackage in  *)
(* one step, then those of XC7Device.                                      *)
(***************************************************************************)
EXTENDS XC7Part, Functions

CONSTANTS
  Parts,          (* the parts the program may be run for                   *)
  Words, Blank,   (* contents of a frame, and the one of all zeroes         *)
  FrameKeys,      (* addresses the assembler may have written               *)
  Idcode,         (* the idcode of the part the program is run for          *)
  OtherIdcode     (* the idcode of some other part                          *)

ASSUME ProgrammingAssumption ==
  /\ \A part \in Parts : IsPart(part)
  /\ Blank \in Words
  /\ FrameKeys \subseteq Address
  /\ Idcode # OtherIdcode

VARIABLES
  part,
  assembled, data, current,                           (* AddMissingFrames   *)
  stage,          (* what runs: "filling", "layout" or "device"             *)
  copied,         (* frames already laid out                                *)
  payload,        (* packet_data, as a sequence of frames                   *)
  idcode, packets,                                    (* the device         *)
  command_register, frame_address_register, mask_register, ctl1_register,
  start_new_write, current_frame_address, loaded, offset, verdict

Fill == INSTANCE XC7Frames
Device == INSTANCE XC7Device

fillVars == <<assembled, data, current>>
layoutVars == <<copied, payload>>
deviceVars ==
  <<idcode, command_register, frame_address_register, mask_register,
    ctl1_register, start_new_write, current_frame_address, loaded, offset,
    verdict>>
vars == <<part, stage, fillVars, layoutVars, packets, deviceVars>>

-----------------------------------------------------------------------------
(* The packets of CreateConfigurationPackage.  A run of no-operations is   *)
(* one packet here.                                                        *)

Nop == [opcode |-> "nop", address |-> "CRC", data |-> <<>>]

Write(register, value) ==
  [opcode |-> "write", address |-> register, data |-> <<value>>]

FrameData(frames) ==
  [opcode |-> "write", address |-> "FDRI", data |-> frames]

(* Bug: a row beyond the field.                                            *)
FinalAddressBeyond ==
  [type |-> 7, bottom |-> 0, row |-> RowLimit, column |-> 0, minor |-> 0]

(* 0x3be0000: block type 7 in the last row of the top half.                *)
FinalAddress == FrameAddress(7, 0, RowLimit - 1, 0, 0)

Initialization ==
  <<Nop, Write("TIMER", 0), Write("WBSTAR", 0), Write("CMD", "NOP"), Nop,
    Write("CMD", "RCRC"), Nop, Write("UNKNOWN", 0), Write("COR0", "options"),
    Write("COR1", 0), Write("IDCODE", Idcode), Write("CMD", "SWITCH"), Nop,
    Write("MASK", {0, 10}), Write("CTL0", {0, 8, 10}), Write("MASK", {}),
    Write("CTL1", {}), Nop, Write("FAR", Zero), Write("CMD", "WCFG"), Nop>>

Finalization ==
  <<Write("CMD", "RCRC"), Nop, Write("CMD", "GRESTORE"), Nop,
    Write("CMD", "LFRM"), Nop, Write("CMD", "START"), Nop,
    Write("FAR", FinalAddress), Write("MASK", {0, 8, 10}),
    Write("CTL0", {0, 8, 10}), Write("CMD", "RCRC"), Nop,
    Write("CMD", "DESYNC"), Nop>>

(* The frame data goes into a type 2 packet, which takes its register from *)
(* the type 1 packet without data before it.                               *)
Package(frames) ==
  Initialization \o <<FrameData(<<>>), FrameData(frames)>> \o Finalization

-----------------------------------------------------------------------------
Init ==
  /\ part \in Parts
  /\ \E keys \in SUBSET FrameKeys : assembled \in [keys -> Words]
  /\ data = assembled
  /\ current = {Zero}
  /\ stage = "filling"
  /\ copied = {}
  /\ payload = <<>>
  /\ idcode \in {Idcode, OtherIdcode}
  /\ packets = <<>>
  /\ Device!DeviceInit

FillFrames ==
  /\ stage = "filling"
  /\ Fill!Next
  /\ UNCHANGED <<stage, layoutVars, packets, deviceVars>>

BeginLayout ==
  /\ stage = "filling"
  /\ Fill!Done
  /\ stage' = "layout"
  /\ UNCHANGED <<part, fillVars, layoutVars, packets, deviceVars>>

ZeroFrames == <<Blank, Blank>>

(* Bug: the halves are not told apart.                                     *)
SeparatorInHalf(a) ==
  IF \E next \in GetNextFrameAddress(part, a) : a.type # next.type \/ a.row # next.row
  THEN ZeroFrames
  ELSE <<>>

(* Padding follows a frame when the part's next frame is in another row.   *)
Separator(a) ==
  IF \E next \in GetNextFrameAddress(part, a) : Device!RowChanges(a, next)
  THEN ZeroFrames
  ELSE <<>>

(* The next frame in the order of the map is laid out.                     *)
CopyFrame ==
  /\ stage = "layout"
  /\ \E a \in DOMAIN data \ copied :
       /\ \A b \in DOMAIN data \ copied : b = a \/ Less(a, b)
       /\ payload' = payload \o <<data[a]>> \o Separator(a)
       /\ copied' = copied \cup {a}
  /\ UNCHANGED <<part, stage, fillVars, packets, deviceVars>>

(* All frames are laid out: padding follows the last one too.              *)
CreatePackage ==
  /\ stage = "layout"
  /\ copied = DOMAIN data
  /\ stage' = "device"
  /\ payload' = payload \o ZeroFrames
  /\ packets' = Package(payload')
  /\ UNCHANGED <<part, fillVars, copied, deviceVars>>

Configure ==
  /\ stage = "device"
  /\ Device!DeviceNext
  /\ UNCHANGED <<stage, fillVars, layoutVars>>

Next == FillFrames \/ BeginLayout \/ CopyFrame \/ CreatePackage \/ Configure

(* One thread runs the encoder to its end, and a device does not stop in   *)
(* the middle of a bitstream.                                              *)
Spec == Init /\ [][Next]_vars /\ WF_vars(Next)

(* Frames that the part does not have.  The assembler takes addresses from *)
(* the tile grid and never asks the part about them.                       *)
Strays ==
  {a \in DOMAIN assembled : a # Zero /\ ~ IsValidFrameAddress(part, a)}

(* The map restricted to the addresses before the first stray frame.       *)
BeforeStrays(map) ==
  LET strays == Strays
  IN Restrict(map, {a \in DOMAIN map : \A s \in strays : Less(a, s)})

-----------------------------------------------------------------------------
TypeOK ==
  /\ stage \in {"filling", "layout", "device"}
  /\ Fill!TypeOK
  /\ copied \subseteq DOMAIN data
  /\ payload \in Seq(Words)
  /\ idcode \in {Idcode, OtherIdcode}
  /\ Device!DeviceTypeOK

(* Writer and reader agree on where every frame of the data belongs, the   *)
(* padding included: up to the first frame that the part does not have, a  *)
(* device holds at each address what the design has there.                 *)
LoadsDesign ==
  Fits(part) /\ IsRegular(part) =>
    \A a \in DOMAIN BeforeStrays(loaded) : a \in DOMAIN data /\ loaded[a] = data[a]

(* After the frame data no packet starts another write: the FAR write of   *)
(* the finalization executes CMD again, which by then is not WCFG.         *)
NoSecondWrite == start_new_write => loaded = <<>>

(* The design as a device of the part should end up with it: every frame   *)
(* of the part, blank where the features wrote nothing, and frame zero.    *)
FramesOfBus(half, r, t) ==
  UNION {{FrameAddress(t, half, r, c, m) : m \in 0 .. part[half][r][t][c] - 1}
         : c \in DOMAIN part[half][r][t]}

FramesOfHalf(half) ==
  UNION {UNION {FramesOfBus(half, r, t) : t \in DOMAIN part[half][r]}
         : r \in DOMAIN part[half]}

FullDesign ==
  [a \in DOMAIN assembled \cup {Zero} \cup FramesOfHalf(0) \cup FramesOfHalf(1) |->
     IF a \in DOMAIN assembled THEN assembled[a] ELSE Blank]

Loading == INSTANCE FrameLoading
  WITH design <- BeforeStrays(FullDesign), memory <- BeforeStrays(loaded),
       accepts <- (idcode = Idcode)

(* Filling in, laying out, packing and handling the packets loads the      *)
(* design frame by frame and to its end, or to its first frame that the    *)
(* part does not have, and loads nothing into a device of another part.    *)
(* The parts are regular.                                                  *)
LoadsFrameByFrame == Loading!LoadingSpec
=============================================================================
