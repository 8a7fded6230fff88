---------------------------- MODULE FileTransfer ----------------------------
(***************************************************************************)
(* What a caller of tftp() in lib/libnet/tftp.c is promised: bytes of the  *)
(* requested file are stored in order and without gaps, and the call       *)
(* returns either success with the complete file in the buffer, or an      *)
(* error.  Calls follow one another.                                       *)
(***************************************************************************)
EXTENDS Naturals, Sequences

CONSTANT Files     \* the files loaded, in order: their sizes

VARIABLES
    call,      \* number of the call
    running,
    stored,    \* what the call has stored so far
    outcome    \* result of the last call: "none", "ok" or "error"

vars == <<call, running, stored, outcome>>

Content(k) == [i \in 1 .. Files[k] |-> <<k, i>>]

Init == call = 0 /\ running = FALSE /\ stored = <<>> /\ outcome = "none"

Begin ==
    /\ ~running /\ call < Len(Files)
    /\ call' = call + 1
    /\ running' = TRUE
    /\ stored' = <<>>
    /\ outcome' = "none"

\* Some of the next bytes are stored; the call may return at the same time.
Progress ==
    /\ running
    /\ \E n \in Len(stored) .. Files[call] : stored' = SubSeq(Content(call), 1, n)
    /\ \/ running' = TRUE /\ outcome' = "none"
       \/ running' = FALSE /\ outcome' = "error"
       \/ running' = FALSE /\ outcome' = "ok" /\ stored' = Content(call)
    /\ UNCHANGED call

Next == Begin \/ Progress

Spec == Init /\ [][Next]_vars
=============================================================================
