----------------------------- MODULE XC7Device -----------------------------
(***************************************************************************)
(* Configuration<kXC7>::InitWithPackets (src/fpga/xilinx/configuration.h): *)
(* the configuration logic of a device, as a reader of a packet sequence.  *)
(* One action is the handling of one packet, except for FDRI, whose frames *)
(* are written one per action.                                             *)
(*                                                                         *)
(* The data of a packet is a sequence: of frames for FDRI, of at most one  *)
(* word for the other registers.  A word written to MASK, CTL0 or CTL1 is  *)
(* the set of its bits, a word written to FAR is a frame address.          *)
(***************************************************************************)
EXTENDS XC7Part

CONSTANTS
  Words,          (* contents of a frame                                    *)
  Blank           (* the frame of all zeroes                                *)

VARIABLES
  part,           (* the part the device is: its frames                     *)
  idcode,         (* and its idcode                                         *)
  packets,        (* the packets not handled yet                            *)
  command_register, frame_address_register, mask_register, ctl1_register,
  start_new_write,
  current_frame_address,
  loaded,         (* the map of the frames written                          *)
  offset,         (* frames of the FDRI packet at the head already passed,  *)
                  (* Idle when its handling has not begun                   *)
  verdict         (* what InitWithPackets has returned                      *)

deviceVars ==
  <<part, idcode, packets, command_register, frame_address_register,
    mask_register, ctl1_register, start_new_write, current_frame_address,
    loaded, offset, verdict>>

device == <<part, idcode>>
registers == <<command_register, frame_address_register, mask_register,
               ctl1_register>>
writePosition == <<start_new_write, current_frame_address>>

Idle == -1
Inhibit == 21     (* the bit of CTL1 that stops FAR from executing CMD      *)

DeviceInit ==
  /\ command_register = "NOP"
  /\ frame_address_register = Zero
  /\ mask_register = {}
  /\ ctl1_register = {}
  /\ start_new_write = FALSE
  /\ current_frame_address = Zero
  /\ loaded = <<>>
  /\ offset = Idle
  /\ verdict = "reading"

-----------------------------------------------------------------------------
packet == Head(packets)

(* The next packet writes a word to the register.                          *)
Writes(register) ==
  /\ verdict = "reading"
  /\ packets # <<>>
  /\ packet.opcode = "write"
  /\ packet.address = register
  /\ packet.data # <<>>

word == packet.data[1]

Consume == packets' = Tail(packets)

(* Packets that are not writes, writes without data and writes to the      *)
(* registers the reader does not know are passed over.                     *)
SkipPacket ==
  /\ verdict = "reading"
  /\ packets # <<>>
  /\ \/ packet.opcode # "write"
     \/ packet.address \notin {"MASK", "CTL1", "CMD", "IDCODE", "FAR", "FDRI"}
     \/ packet.address # "FDRI" /\ packet.data = <<>>
  /\ Consume
  /\ UNCHANGED <<device, registers, writePosition, loaded, offset, verdict>>

WriteMASK ==
  /\ Writes("MASK")
  /\ mask_register' = word
  /\ Consume
  /\ UNCHANGED <<device, command_register, frame_address_register,
                 ctl1_register, writePosition, loaded, offset, verdict>>

(* Bug: the mask is ignored.                                               *)
WriteCTL1Unmasked ==
  /\ Writes("CTL1")
  /\ ctl1_register' = word
  /\ Consume
  /\ UNCHANGED <<device, command_register, frame_address_register,
                 mask_register, writePosition, loaded, offset, verdict>>

WriteCTL1 ==
  /\ Writes("CTL1")
  /\ ctl1_register' = word \cap mask_register
  /\ Consume
  /\ UNCHANGED <<device, command_register, frame_address_register,
                 mask_register, writePosition, loaded, offset, verdict>>

WriteCMD ==
  /\ Writes("CMD")
  /\ command_register' = word
  /\ start_new_write' = (start_new_write \/ word = "WCFG")
  /\ Consume
  /\ UNCHANGED <<device, frame_address_register, mask_register, ctl1_register,
                 current_frame_address, loaded, offset, verdict>>

(* Another part's bitstream is refused.                                    *)
WriteIDCODE ==
  /\ Writes("IDCODE")
  /\ verdict' = IF word = idcode THEN verdict ELSE "rejected"
  /\ Consume
  /\ UNCHANGED <<device, registers, writePosition, loaded, offset>>

(* Bug: CTL1 does not inhibit anything.                                    *)
ExecutesUninhibited == command_register = "WCFG"

(* Loading FAR executes the command in CMD again, unless CTL1 inhibits it. *)
ExecutesCommand == Inhibit \notin ctl1_register /\ command_register = "WCFG"

(* Bug: loading FAR starts a write whatever the command.                   *)
WriteFARStarts ==
  /\ Writes("FAR")
  /\ frame_address_register' = word
  /\ start_new_write' = TRUE
  /\ Consume
  /\ UNCHANGED <<device, command_register, mask_register, ctl1_register,
                 current_frame_address, loaded, offset, verdict>>

WriteFAR ==
  /\ Writes("FAR")
  /\ frame_address_register' = word
  /\ start_new_write' = (start_new_write \/ ExecutesCommand)
  /\ Consume
  /\ UNCHANGED <<device, command_register, mask_register, ctl1_register,
                 current_frame_address, loaded, offset, verdict>>

-----------------------------------------------------------------------------
(* FDRI: a pending write starts at the frame address register, even if the *)
(* packet has no data.                                                     *)
BeginFDRI ==
  /\ verdict = "reading"
  /\ packets # <<>>
  /\ packet.opcode = "write" /\ packet.address = "FDRI"
  /\ offset = Idle
  /\ current_frame_address' =
       IF start_new_write THEN frame_address_register ELSE current_frame_address
  /\ start_new_write' = FALSE
  /\ offset' = 0
  /\ UNCHANGED <<device, packets, registers, loaded, verdict>>

(* The addresses lie in different rows, so padding frames lie between.     *)
RowChanges(a, b) ==
  a.type # b.type \/ a.bottom # b.bottom \/ a.row # b.row

InFDRI == offset # Idle /\ offset < Len(packet.data)

StoreFrame ==
  loaded' = [a \in DOMAIN loaded \cup {current_frame_address} |->
               IF a = current_frame_address THEN packet.data[offset + 1]
               ELSE loaded[a]]

(* One frame of the packet, with the address after it.                     *)
WriteFrame ==
  /\ InFDRI
  /\ StoreFrame
  /\ \E next \in GetNextFrameAddress(part, current_frame_address) :
       /\ offset' = IF RowChanges(current_frame_address, next)
                    THEN offset + 3 ELSE offset + 1
       /\ current_frame_address' = next
  /\ UNCHANGED <<device, packets, registers, start_new_write, verdict>>

(* Bug: the rest of the packet is written over the last frame.             *)
WriteLastFrameOn ==
  /\ InFDRI
  /\ StoreFrame
  /\ GetNextFrameAddress(part, current_frame_address) = {}
  /\ offset' = offset + 1
  /\ UNCHANGED <<device, packets, registers, writePosition, verdict>>

(* The last frame of the part: the rest of the packet is dropped.          *)
WriteLastFrame ==
  /\ InFDRI
  /\ StoreFrame
  /\ GetNextFrameAddress(part, current_frame_address) = {}
  /\ offset' = Idle
  /\ Consume
  /\ UNCHANGED <<device, registers, writePosition, verdict>>

EndFDRI ==
  /\ offset # Idle
  /\ offset >= Len(packet.data)
  /\ offset' = Idle
  /\ Consume
  /\ UNCHANGED <<device, registers, writePosition, loaded, verdict>>

(* All packets handled: the configuration is returned.                     *)
Return ==
  /\ verdict = "reading"
  /\ packets = <<>>
  /\ verdict' = "configured"
  /\ UNCHANGED <<device, packets, registers, writePosition, loaded, offset>>

DeviceNext ==
  \/ SkipPacket
  \/ WriteMASK \/ WriteCTL1 \/ WriteCMD \/ WriteIDCODE \/ WriteFAR
  \/ BeginFDRI \/ WriteFrame \/ WriteLastFrame \/ EndFDRI
  \/ Return

-----------------------------------------------------------------------------
IsFrameMap(map) == DOMAIN map \subseteq Address /\ map \in [DOMAIN map -> Words]

DeviceTypeOK ==
  /\ IsPart(part)
  /\ frame_address_register \in Address
  /\ mask_register \subseteq 0 .. 31 /\ ctl1_register \subseteq 0 .. 31
  /\ start_new_write \in BOOLEAN
  /\ current_frame_address \in Address
  /\ IsFrameMap(loaded)
  /\ offset \in Nat \cup {Idle}
  /\ verdict \in {"reading", "rejected", "configured"}
=============================================================================
