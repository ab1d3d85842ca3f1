--------------------------- MODULE PacketTransfer ---------------------------
(***************************************************************************)
(* What writing and reading a bitstream promises: packets are stored one   *)
(* after another, all of them unless the storage fails; then they are      *)
(* delivered, each as it was and in their order, and the reader is told    *)
(* that it is at the end when it has got all that are stored.  Only when   *)
(* the storage has failed may it get none of them instead.                 *)
(***************************************************************************)
EXTENDS Naturals, Sequences

VARIABLES
  sent,           (* the packets                                            *)
  stored,         (* how many of them have been stored                      *)
  failed,         (* whether the storage has failed                         *)
  closed,         (* whether no more will be stored                         *)
  delivered,      (* the packets the reader has got                         *)
  ended           (* whether it has been told that there are no more        *)

transferVars == <<sent, stored, failed, closed, delivered, ended>>

TransferInit ==
  /\ stored = 0
  /\ failed = FALSE
  /\ closed = FALSE
  /\ delivered = <<>>
  /\ ended = FALSE

StorePacket ==
  /\ ~ closed /\ ~ failed
  /\ stored < Len(sent)
  /\ stored' = stored + 1
  /\ UNCHANGED <<sent, failed, closed, delivered, ended>>

FailStorage ==
  /\ ~ closed /\ ~ failed
  /\ failed' = TRUE
  /\ UNCHANGED <<sent, stored, closed, delivered, ended>>

CloseStorage ==
  /\ ~ closed
  /\ failed \/ stored = Len(sent)
  /\ closed' = TRUE
  /\ UNCHANGED <<sent, stored, failed, delivered, ended>>

Deliver ==
  /\ closed /\ ~ ended
  /\ Len(delivered) < stored
  /\ delivered' = Append(delivered, sent[Len(delivered) + 1])
  /\ UNCHANGED <<sent, stored, failed, closed, ended>>

TellEnd ==
  /\ closed /\ ~ ended
  /\ Len(delivered) = stored \/ (failed /\ delivered = <<>>)
  /\ ended' = TRUE
  /\ UNCHANGED <<sent, stored, failed, closed, delivered>>

TransferNext ==
  StorePacket \/ FailStorage \/ CloseStorage \/ Deliver \/ TellEnd

TransferSpec ==
  /\ TransferInit /\ [][TransferNext]_transferVars
  /\ WF_transferVars(CloseStorage) /\ WF_transferVars(Deliver \/ TellEnd)
=============================================================================
