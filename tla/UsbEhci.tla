------------------------------ MODULE UsbEhci ------------------------------
(***************************************************************************)
(* The EHCI driver, lib/libusb/usb-ehci.c: a transfer is a chain of        *)
(* descriptors (qTDs) behind the queue head of its pipe, which is linked   *)
(* into the asynchronous schedule for the time of the transfer and taken   *)
(* out again with a doorbell that the controller must answer before the    *)
(* descriptors may be reused.                                              *)
(*                                                                         *)
(* hresult and hstuck are history variables: what the last transfer        *)
(* returned and what had become of its descriptors, and whether the        *)
(* controller left a doorbell unanswered.                                  *)
(***************************************************************************)
EXTENDS Naturals, Sequences

CONSTANTS
    HPage,             \* size of a page
    HBuffers,          \* page pointers of a descriptor
    NUM_BULK_QTDS,
    HMaxTransfer,      \* largest transfer of the callers
    None

ConstantsOK ==
    /\ HPage \in Nat \ {0} /\ HBuffers \in Nat \ {0} /\ NUM_BULK_QTDS \in Nat \ {0}
    /\ HMaxTransfer \in Nat /\ HMaxTransfer <= NUM_BULK_QTDS * HBuffers * HPage - HPage

VARIABLES
    hpc,       \* "off", "idle", "ctrl", "bulk", "detach"
    hdata,     \* [off, size] of the data of a bulk transfer
    hqtd,      \* the descriptors: [from, len, active]
    hat,       \* the one the driver waits for
    hret,
    hmapped,   \* whether the descriptors may be accessed
    hlinked,   \* whether the queue head is in the schedule
    husing,    \* whether the controller works on the queue head
    hresult, hstuck

hvars == <<hpc, hdata, hqtd, hat, hret, hmapped, hlinked, husing, hresult, hstuck>>

Init ==
    /\ hpc = "off"
    /\ hdata = None /\ hqtd = <<>> /\ hat = 1 /\ hret = TRUE
    /\ hmapped = FALSE /\ hlinked = FALSE /\ husing = FALSE
    /\ hresult = None /\ hstuck = FALSE

-----------------------------------------------------------------------------

\* Frame list and queue heads are allocated, or all freed again.
ehci_hcd_init ==
    /\ hpc = "off"
    /\ hpc' = "idle"
    /\ UNCHANGED <<hdata, hqtd, hat, hret, hmapped, hlinked, husing, hresult, hstuck>>

\* The write of the command register resets the controller.
ehci_hcd_exit ==
    /\ hpc = "idle"
    /\ hpc' = "off"
    /\ husing' = FALSE /\ hstuck' = FALSE
    /\ hdata' = None /\ hqtd' = <<>> /\ hresult' = None
    /\ UNCHANGED <<hat, hret, hmapped, hlinked>>

\* The first page pointer may point into a page, the others are to whole pages.
\* What is left over goes to the next descriptor.
fill_qtd_buff(off, size) ==
    LET end == ((off + HPage) \div HPage) * HPage + (HBuffers - 1) * HPage
    IN IF off + size > end THEN off + size - end ELSE 0

\* What the first k descriptors of a bulk transfer leave over, and how many it
\* takes.
Left(off, size) ==
    LET rem[k \in 0 .. NUM_BULK_QTDS] ==
            IF k = 0 THEN size ELSE fill_qtd_buff(off + size - rem[k - 1], rem[k - 1])
    IN rem

QtdCount(rem) ==
    CHOOSE k \in 1 .. NUM_BULK_QTDS :
        (rem[k] = 0 \/ k = NUM_BULK_QTDS) /\ \A j \in 1 .. (k - 1) : rem[j] # 0

Qtds(off, size) ==
    LET rem == Left(off, size)
    IN [k \in 1 .. QtdCount(rem) |->
            [from |-> off + size - rem[k - 1], len |-> rem[k - 1] - rem[k], active |-> TRUE]]

Link(qtds, pc) ==
    /\ hqtd' = qtds /\ hat' = 1 /\ hret' = TRUE
    /\ hmapped' = TRUE /\ hlinked' = TRUE
    /\ hpc' = pc

ehci_send_ctrl(n) ==
    /\ hpc = "idle" /\ ~hstuck
    /\ Link([k \in 1 .. n |-> [from |-> 0, len |-> 0, active |-> TRUE]], "ctrl")
    /\ hdata' = None
    /\ UNCHANGED <<husing, hresult, hstuck>>

ehci_transfer_bulk(off, size) ==
    /\ hpc = "idle" /\ ~hstuck
    /\ Link(Qtds(off, size), "bulk")
    /\ hdata' = [off |-> off, size |-> size]
    /\ UNCHANGED <<husing, hresult, hstuck>>

\* The queue head is taken out of the schedule.
Unlink(ret) == hpc' = "detach" /\ hret' = ret /\ hlinked' = FALSE

\* The loop of ehci_send_ctrl ends when it gets to the last descriptor, the
\* status stage, without waiting for that one.
CtrlStep ==
    /\ hpc = "ctrl" /\ ~hqtd[hat].active
    /\ hat' = hat + 1
    /\ IF hat' = Len(hqtd) THEN Unlink(TRUE) ELSE UNCHANGED <<hpc, hret, hlinked>>
    /\ UNCHANGED <<hdata, hqtd, hmapped, husing, hresult, hstuck>>

CtrlTimeout ==
    /\ hpc = "ctrl"
    /\ Unlink(FALSE)
    /\ UNCHANGED <<hdata, hqtd, hat, hmapped, husing, hresult, hstuck>>

BulkMayGoOn == ~hqtd[hat].active

\* The loop of ehci_transfer_bulk looks at the outcome of a descriptor only if
\* another one follows.
BulkStep ==
    /\ hpc = "bulk"
    /\ IF hat = Len(hqtd) THEN Unlink(TRUE) /\ UNCHANGED hat
       ELSE IF BulkMayGoOn THEN hat' = hat + 1 /\ UNCHANGED <<hpc, hret, hlinked>>
       ELSE Unlink(FALSE) /\ UNCHANGED hat
    /\ UNCHANGED <<hdata, hqtd, hmapped, husing, hresult, hstuck>>

\* The doorbell: the controller answers when it has let go of the queue head.
ehci_handshake == husing' = FALSE

Complete(ret) ==
    /\ hpc' = "idle"
    /\ hmapped' = FALSE
    /\ hresult' = [ret |-> ret, left |-> {k \in DOMAIN hqtd : hqtd[k].active}, n |-> Len(hqtd)]
    /\ UNCHANGED <<hdata, hqtd, hat, hret, hlinked>>

Detached == hpc = "detach" /\ ehci_handshake /\ Complete(hret) /\ UNCHANGED hstuck

HandshakeFails ==
    /\ hpc = "detach"
    /\ Complete(FALSE)
    /\ hstuck' = husing
    /\ UNCHANGED husing

-----------------------------------------------------------------------------
(* The controller (external).                                              *)

FetchQueueHead ==
    /\ hlinked /\ ~husing
    /\ husing' = TRUE
    /\ UNCHANGED <<hpc, hdata, hqtd, hat, hret, hmapped, hlinked, hresult, hstuck>>

ExecuteQtd ==
    /\ husing /\ hmapped
    /\ \E k \in DOMAIN hqtd :
          /\ hqtd[k].active /\ \A j \in 1 .. (k - 1) : ~hqtd[j].active
          /\ hqtd' = [hqtd EXCEPT ![k].active = FALSE]
    /\ UNCHANGED <<hpc, hdata, hat, hret, hmapped, hlinked, husing, hresult, hstuck>>

Next ==
    \/ ehci_hcd_init \/ ehci_hcd_exit
    \/ \E n \in {2, 3} : ehci_send_ctrl(n)
    \/ \E off \in 0 .. (HPage - 1), size \in 1 .. HMaxTransfer : ehci_transfer_bulk(off, size)
    \/ CtrlStep \/ CtrlTimeout \/ BulkStep \/ Detached \/ HandshakeFails
    \/ FetchQueueHead \/ ExecuteQtd

-----------------------------------------------------------------------------

\* A transfer reported as done is done up to its last descriptor, on which the
\* driver does not wait (ehci_send_ctrl, ehci_transfer_bulk).
DoneButLast == (hresult # None /\ hresult.ret) => hresult.left \subseteq {hresult.n}

\* The descriptors are not freed under the controller, unless it left the
\* doorbell unanswered (ehci_handshake).
ReleasedFirst == husing => hmapped \/ hstuck

\* The descriptors of a bulk transfer cover its data once, in order, and none
\* needs more page pointers than it has (fill_qtd_buff).
BulkCovered ==
    hdata # None =>
        /\ hqtd[1].from = hdata.off
        /\ hqtd[Len(hqtd)].from + hqtd[Len(hqtd)].len = hdata.off + hdata.size
        /\ \A k \in 2 .. Len(hqtd) : hqtd[k].from = hqtd[k - 1].from + hqtd[k - 1].len
        /\ \A k \in DOMAIN hqtd :
              (hqtd[k].from + hqtd[k].len - 1) \div HPage - hqtd[k].from \div HPage < HBuffers
=============================================================================
