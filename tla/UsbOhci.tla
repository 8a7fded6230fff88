------------------------------ MODULE UsbOhci ------------------------------
(***************************************************************************)
(* The OHCI driver, lib/libusb/usb-ohci.c: one control or bulk transfer at *)
(* a time, and the interrupt endpoint of a keyboard beside it.  The        *)
(* controller moves finished descriptors to a done list, newest first, and *)
(* hands the list over through the HCCA when the driver has acknowledged   *)
(* the previous one.  The keyboard's descriptors come back in the same     *)
(* list: the driver tells them from its own by their address, which only   *)
(* excludes addresses above its own.                                       *)
(*                                                                         *)
(* ounread and olate are history variables: the reports not yet polled,    *)
(* and whether a transfer was given up with descriptors outstanding.  Those*)
(* may come back during a later transfer and count for it; the model does  *)
(* not go on from there (bound: no transfer starts once olate is set).     *)
(***************************************************************************)
EXTENDS Naturals, Sequences

CONSTANTS
    OTds,          \* the largest number of descriptors of a transfer
    ORing,         \* descriptors of the interrupt endpoint
    OBelow,        \* whether the keyboard's descriptors lie below the others
    OReports,      \* what the keyboard reports
    MaxDone,       \* bound: descriptors on the controller's done list
    None

ConstantsOK == OTds \in Nat \ {0} /\ ORing \in Nat \ {0, 1} /\ MaxDone >= OTds /\ OBelow \in BOOLEAN

VARIABLES
    opc,       \* "off", "idle", "wait" for the descriptors, "claim" them
    oxfer,     \* the transfer: [bulk, n, retired, cc, count, ret]
    oresult,   \* what the last transfer returned, and what became of it
    oqueue,    \* the controller's done list, newest first
    ohcca, owd,    \* hcca->done_head and the interrupt that announces it
    ohalted,   \* EDA_HEADP_HALTED of the control pipe and of the bulk pipe
    orecover,  \* requests that usb_msc_resetrecovery still has to send
    okb,       \* the interrupt endpoint: [open, head, tail, data]
    ounread, olate

ovars == <<opc, oxfer, oresult, oqueue, ohcca, owd, ohalted, okb, ounread, olate, orecover>>

NoXfer == [bulk |-> FALSE, n |-> 0, retired |-> 0, cc |-> 0, count |-> 0, ret |-> 1]
NoKeyboard == [open |-> FALSE, head |-> 0, tail |-> 0, data |-> [i \in 0 .. (ORing - 1) |-> None]]
KbTd == [own |-> FALSE, cc |-> 0]
Td(cc) == [own |-> TRUE, cc |-> cc]

Init ==
    /\ opc = "off"
    /\ oxfer = NoXfer /\ oresult = None
    /\ oqueue = <<>> /\ ohcca = <<>> /\ owd = FALSE
    /\ ohalted = [b \in BOOLEAN |-> FALSE]
    /\ okb = NoKeyboard
    /\ ounread = <<>> /\ olate = FALSE /\ orecover = 0

-----------------------------------------------------------------------------

\* Reset (whose failure is ignored) and start: the lists are empty.
ohci_hcd_reset == oqueue' = <<>> /\ owd' = FALSE
ohci_hcd_init == ohcca' = <<>>

ohci_init ==
    /\ opc = "off"
    /\ ohci_hcd_reset /\ ohci_hcd_init
    /\ ohalted' = [b \in BOOLEAN |-> FALSE]
    /\ opc' = "idle"
    /\ UNCHANGED <<oxfer, oresult, okb, ounread, olate, orecover>>

\* The controller is suspended before its memory is freed.
ohci_exit ==
    /\ opc = "idle" /\ orecover = 0
    /\ opc' = "off"
    /\ okb' = NoKeyboard /\ ounread' = <<>>
    /\ oqueue' = <<>> /\ ohcca' = <<>> /\ owd' = FALSE
    /\ oresult' = None /\ olate' = FALSE
    /\ UNCHANGED <<oxfer, ohalted, orecover>>

\* A control request has a set-up and a status descriptor, and one for data; a
\* bulk transfer one for each page.  They are linked into the endpoint, whose
\* halted bit ohci_fill_ed preserves.
ohci_fill_td(bulk, n) == [bulk |-> bulk, n |-> n, retired |-> 0, cc |-> 0, count |-> n, ret |-> 1]

ohci_send_ctrl(n) ==
    /\ opc = "idle" /\ ~olate /\ n \in {2, 3}
    /\ orecover > 0 => n = 2
    /\ orecover' = IF orecover > 0 THEN orecover - 1 ELSE 0
    /\ oxfer' = ohci_fill_td(FALSE, n)
    /\ opc' = "wait"
    /\ UNCHANGED <<oresult, oqueue, ohcca, owd, ohalted, okb, ounread, olate>>

ohci_transfer_bulk(n) ==
    /\ opc = "idle" /\ ~olate /\ orecover = 0
    /\ oxfer' = ohci_fill_td(TRUE, n)
    /\ opc' = "wait"
    /\ UNCHANGED <<oresult, oqueue, ohcca, owd, ohalted, okb, ounread, olate, orecover>>

\* The wait for headp = tailp ends when all descriptors are retired or in a
\* timeout, and the done list is looked at in both cases.
WaitEnds ==
    /\ opc = "wait"
    /\ opc' = "claim"
    /\ UNCHANGED <<oxfer, oresult, oqueue, ohcca, owd, ohalted, okb, ounread, olate, orecover>>

\* A variant that takes every descriptor for one of its own.
AnyTd(td) == TRUE
ohci_get_td_virt(td) == td.own \/ OBelow

\* One descriptor of the list: a foreign one ends the walk.  Errors up to 3 are
\* reported on the console only.
ClaimTd(s, td) ==
    IF s.stop \/ s.count = 0 THEN s
    ELSE IF ~ohci_get_td_virt(td) THEN [s EXCEPT !.stop = TRUE]
    ELSE [s EXCEPT !.count = @ - 1, !.ret = IF td.cc > 3 THEN 0 ELSE @]

\* What the walk over the list knows after n descriptors.
Claimed[n \in Nat] ==
    IF n = 0 THEN [count |-> oxfer.count, ret |-> oxfer.ret, stop |-> FALSE]
    ELSE ClaimTd(Claimed[n - 1], ohcca[n])

\* usb_msc_resetrecovery clears the halt of both bulk endpoints.
usb_clear_halt == 2
usb_msc_resetrecovery(stalled) ==
    orecover' = IF oxfer.bulk /\ stalled THEN usb_clear_halt ELSE orecover

\* The end of a transfer: a halted bulk endpoint is started again, and after a
\* stall the device is told.
Finish(ret, stalled) ==
    /\ opc' = "idle"
    /\ oresult' = [ret |-> ret, done |-> oxfer.retired = oxfer.n /\ oxfer.cc <= 3]
    /\ ohalted' = [ohalted EXCEPT ![TRUE] = FALSE]
    /\ oxfer' = NoXfer
    /\ usb_msc_resetrecovery(stalled)

ohci_process_done_head ==
    /\ opc = "claim" /\ owd
    /\ LET s == Claimed[Len(ohcca)]
       IN IF s.count = 0 THEN Finish(s.ret = 1, s.ret = 0) /\ olate' = (olate \/ oxfer.retired < oxfer.n)
          ELSE oxfer' = [oxfer EXCEPT !.count = s.count, !.ret = s.ret]
               /\ UNCHANGED <<opc, oresult, ohalted, olate, orecover>>
    /\ ohcca' = <<>> /\ owd' = FALSE
    /\ UNCHANGED <<oqueue, okb, ounread>>

\* No list within the timeout: the transfer has failed.
ClaimTimeout ==
    /\ opc = "claim" /\ ~owd
    /\ Finish(FALSE, FALSE)
    /\ olate' = (olate \/ oxfer.retired < oxfer.n \/ oqueue # <<>>)
    /\ UNCHANGED <<oqueue, ohcca, owd, okb, ounread>>

-----------------------------------------------------------------------------
(* The keyboard's endpoint: a ring of descriptors with a dummy at its tail. *)

ohci_get_pipe_intr ==
    /\ opc = "idle" /\ orecover = 0 /\ ~okb.open
    /\ okb' = [NoKeyboard EXCEPT !.open = TRUE, !.tail = ORing - 1]
    /\ ounread' = <<>>
    /\ UNCHANGED <<opc, oxfer, oresult, oqueue, ohcca, owd, ohalted, olate, orecover>>

ohci_put_pipe_intr ==
    /\ opc = "idle" /\ orecover = 0 /\ okb.open
    /\ okb' = NoKeyboard
    /\ ounread' = <<>>
    /\ UNCHANGED <<opc, oxfer, oresult, oqueue, ohcca, owd, ohalted, olate, orecover>>

\* The descriptor after the dummy is the oldest; it becomes the new dummy.
Oldest(tail) == (tail + 1) % ORing

\* The report is read, unless the controller is still at that descriptor.
ohci_poll_intr ==
    /\ opc = "idle" /\ orecover = 0 /\ okb.open
    /\ Oldest(okb.tail) # okb.head
    /\ okb' = [okb EXCEPT !.tail = Oldest(okb.tail)]
    /\ ounread' = IF ounread = <<>> THEN ounread ELSE Tail(ounread)
    /\ UNCHANGED <<opc, oxfer, oresult, oqueue, ohcca, owd, ohalted, olate, orecover>>

-----------------------------------------------------------------------------
(* The controller (external).                                              *)

\* A descriptor of the transfer is retired: without error, with one that the
\* driver ignores, or with a stall, which halts the endpoint.
RetireTd(cc) ==
    /\ opc \in {"wait", "claim"}
    /\ oxfer.retired < oxfer.n /\ ~ohalted[oxfer.bulk]
    /\ oxfer' = [oxfer EXCEPT !.retired = @ + 1, !.cc = cc]
    /\ ohalted' = [ohalted EXCEPT ![oxfer.bulk] = cc > 0]
    /\ oqueue' = <<Td(cc)>> \o oqueue
    /\ UNCHANGED <<opc, oresult, ohcca, owd, okb, ounread, olate, orecover>>

RetireReport(r) ==
    /\ okb.open /\ okb.head # okb.tail /\ Len(oqueue) < MaxDone
    /\ okb' = [okb EXCEPT !.data = [@ EXCEPT ![okb.head] = r], !.head = (@ + 1) % ORing]
    /\ ounread' = Append(ounread, r)
    /\ oqueue' = <<KbTd>> \o oqueue
    /\ UNCHANGED <<opc, oxfer, oresult, ohcca, owd, ohalted, olate, orecover>>

\* At the end of a frame the list goes to the HCCA, if the last was taken.
WriteBack ==
    /\ opc # "off" /\ ~owd /\ oqueue # <<>>
    /\ ohcca' = oqueue /\ owd' = TRUE /\ oqueue' = <<>>
    /\ UNCHANGED <<opc, oxfer, oresult, ohalted, okb, ounread, olate, orecover>>

Next ==
    \/ ohci_init \/ ohci_exit
    \/ \E n \in 1 .. OTds : ohci_send_ctrl(n) \/ ohci_transfer_bulk(n)
    \/ WaitEnds \/ ohci_process_done_head \/ ClaimTimeout
    \/ ohci_get_pipe_intr \/ ohci_put_pipe_intr \/ ohci_poll_intr
    \/ (\E cc \in {0, 1, 4} : RetireTd(cc))
    \/ (\E r \in OReports : RetireReport(r)) \/ WriteBack

-----------------------------------------------------------------------------

\* A transfer is reported as done only if the controller has carried out all of
\* it - as long as the keyboard's descriptors lie above and nothing of an
\* earlier transfer is outstanding (ohci_process_done_head).
ResultRight == (oresult # None /\ ~olate /\ ~OBelow) => (oresult.ret => oresult.done)

\* The reports that were not polled lie in order between the dummy descriptor
\* and the one the controller is at (ohci_poll_intr).
ReportsInOrder ==
    okb.open =>
        /\ Len(ounread) = (okb.head + ORing - okb.tail - 1) % ORing
        /\ \A k \in DOMAIN ounread : okb.data[(okb.tail + k) % ORing] = ounread[k]
=============================================================================
