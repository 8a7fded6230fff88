---------------------------- MODULE MCVirtioNet ----------------------------
(* Instance of VirtioNet for TLC. *)
EXTENDS VirtioNet

MCPackets == { [tag |-> "a", len |-> 1], [tag |-> "b", len |-> 2] }
=============================================================================
