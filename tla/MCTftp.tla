------------------------------- MODULE MCTftp -------------------------------
(* Instances of Tftp for TLC: sequences of files. *)
EXTENDS Tftp

OneFile == <<2>>
TwoFiles == <<1, 3>>
=============================================================================
