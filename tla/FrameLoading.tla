---------------------------- MODULE FrameLoading ----------------------------
(***************************************************************************)
(* What configuring a device promises: the frames of a design appear in    *)
(* the device one by one, each with its content and none twice, in the     *)
(* order of their addresses, until the device holds the design; a device   *)
(* of another part stays empty.                                            *)
(***************************************************************************)
EXTENDS XC7Part

VARIABLES
  design,         (* the frames to load, a map from addresses to contents   *)
  memory,         (* the frames the device holds                            *)
  accepts         (* the bitstream is for the part the device is            *)

loadingVars == <<design, memory, accepts>>

LoadingInit ==
  /\ memory = <<>>
  /\ accepts \in BOOLEAN

Missing == DOMAIN design \ DOMAIN memory

LoadFrame ==
  /\ accepts
  /\ LET missing == Missing IN
     \E a \in missing :
       /\ \A b \in missing : b = a \/ Less(a, b)
       /\ memory' = [b \in DOMAIN memory \cup {a} |->
                       IF b = a THEN design[a] ELSE memory[b]]
  /\ UNCHANGED <<design, accepts>>

LoadingSpec ==
  LoadingInit /\ [][LoadFrame]_loadingVars /\ (accepts ~> Missing = {})
=============================================================================
