------------------------------ MODULE UsbXhci ------------------------------
(***************************************************************************)
(* The xHCI driver, lib/libusb/usb-xhci.c.  Every completion of the        *)
(* controller, of a command, a control or bulk transfer, a report of the   *)
(* keyboard or a port reset, arrives in one event ring, whose cycle bits   *)
(* tell the new entries from those of the lap before.  xhci_poll_event     *)
(* takes one entry; only a bulk transfer looks whether it is its own.      *)
(*                                                                         *)
(* Endpoint rings have cycle bits too, but their link TRB does not toggle  *)
(* them: a bulk TRB is cleared after use, and the keyboard's ring is in    *)
(* step during its first lap.  xqueue (the events not yet taken), xown     *)
(* (whether the last operation took its own event), xlate (an operation    *)
(* timed out), xshared (an operation took another's event), xstarted (the  *)
(* keyboard was opened) and xlap (the controller may run into the TRBs of  *)
(* the keyboard's first lap) are history.  Bounds: no transfer starts      *)
(* after one timed out, nor a request while an earlier one is outstanding. *)
(***************************************************************************)
EXTENDS Naturals, Sequences, FiniteSets

CONSTANTS
    XPorts,       \* root ports
    XSlots,       \* XHCI_CONFIG_MAX_SLOT
    XEvents,      \* TRBs in the event ring
    XTrbs,        \* TRBs in a bulk or interrupt ring before the link TRB
    None

ConstantsOK == {XPorts, XSlots} \subseteq Nat \ {0} /\ {XEvents, XTrbs} \subseteq Nat \ {0, 1}

VARIABLES
    xpc,                  \* "off", "failed", "scan" the ports, "idle", "wait" for an event
    xport,                \* the next port of xhci_port_scan
    xop,                  \* the operation that waits for an event
    xring, xdeq, xcycle,  \* the event ring, ering.deq, ering.cycle_state
    xenq, xpcs, xerdp,    \* controller: its place and cycle bit, and ERDP
    xjobs,                \* controller: commands, resets and control transfers to carry out
    xslot,                \* xhcd->slot_id
    xdevs,                \* the port of the device in each slot, or None
    xbulk, xkb, usb_kb,   \* the bulk ring, the keyboard's ring, and the flag between them
    xmem,                 \* memory the driver holds
    xqueue, xown, xlate, xshared, xstarted, xlap

xvars == <<xpc, xport, xop, xring, xdeq, xcycle, xenq, xpcs, xerdp, xjobs, xslot, xdevs,
           xbulk, xkb, usb_kb, xmem, xqueue, xown, xlate, xshared, xstarted, xlap>>
ring == <<xring, xdeq, xcycle, xenq, xpcs, xerdp, xqueue>>

NoRing == [open |-> FALSE, cycle |-> [i \in 0 .. (XTrbs - 1) |-> 0], enq |-> 0, deq |-> 0,
           at |-> 0, busy |-> FALSE]

Init ==
    /\ xpc = "off" /\ xport = 1 /\ xop = None
    /\ xring = [i \in 0 .. (XEvents - 1) |-> [cycle |-> 0, ev |-> None]]
    /\ xdeq = 0 /\ xcycle = 1 /\ xenq = 0 /\ xpcs = 1 /\ xerdp = 0
    /\ xjobs = <<>> /\ xslot = 0 /\ xdevs = [s \in 1 .. XSlots |-> None]
    /\ xbulk = NoRing /\ xkb = NoRing /\ usb_kb = FALSE
    /\ xmem = {} /\ xqueue = <<>> /\ xown = TRUE
    /\ xlate = FALSE /\ xshared = FALSE /\ xstarted = FALSE /\ xlap = FALSE

-----------------------------------------------------------------------------
(* Start and stop of the controller.                                       *)

\* A controller that stays "not ready" refuses to run; a failed stop is ignored.
xhci_hcd_set_runstop(ready) == ready
\* The reset empties the controller's state.
xhci_hcd_reset == xenq' = 0 /\ xpcs' = 1 /\ xjobs' = <<>>

xhci_init_seg == xring' = [i \in 0 .. (XEvents - 1) |-> [cycle |-> 0, ev |-> None]]
                 /\ xdeq' = 0 /\ xcycle' = 1 /\ xerdp' = 0 /\ xqueue' = <<>>

Rings == {"dcbaap", "crseg", "ering", "erst"} \X {0}

\* All or none of the rings: what was allocated before a failure is freed again.
\* (The pointers to two of them stay, and xhci_exit would free them once more:
\* bound, a failed controller is not used again.)
xhci_hcd_init ==
    /\ xpc = "off"
    /\ xhci_hcd_reset /\ xhci_init_seg
    /\ \/ xhci_hcd_set_runstop(TRUE) /\ xpc' = "scan" /\ xmem' = xmem \cup Rings
       \/ xpc' = "failed" /\ xmem' = xmem
    /\ xport' = 1 /\ xslot' = 0 /\ xdevs' = [s \in 1 .. XSlots |-> None]
    /\ UNCHANGED <<xop, xbulk, xkb, usb_kb, xown, xlate, xshared, xstarted, xlap>>

\* A device's contexts and rings are freed, in the slots the loop visits.
xhci_free_dev(slots) == {<<"slot", s>> : s \in slots}

xhci_hcd_exit ==
    /\ xpc = "idle"
    /\ xpc' = "off"
    /\ xmem' = (xmem \ Rings) \ xhci_free_dev({s \in 1 .. (XSlots - 1) : xdevs[s] # None})
    /\ xbulk' = NoRing /\ xkb' = NoRing /\ usb_kb' = usb_kb
    /\ xown' = TRUE /\ xlate' = FALSE /\ xshared' = usb_kb /\ xstarted' = FALSE /\ xlap' = FALSE
    /\ UNCHANGED <<xport, xop, ring, xjobs, xslot, xdevs>>

-----------------------------------------------------------------------------
(* The event ring.                                                         *)

\* An operation is handed to the controller and its event awaited; nothing
\* leaves the wait but an event or a timeout.
Await(op) ==
    /\ xop' = op /\ xpc' = "wait"
    /\ xjobs' = Append(xjobs, op)

\* A variant that never toggles the cycle bit at the end of the ring.
SameCycle(d, c) == c
NextCycle(d, c) == IF d = XEvents - 1 THEN 1 - c ELSE c

Ready == xring[xdeq].cycle = xcycle

\* xhci_poll_event with an event there: the entry is cleared but for its cycle
\* bit, and the controller is told.
Take ==
    /\ Ready
    /\ xring' = [xring EXCEPT ![xdeq] = [cycle |-> xcycle, ev |-> None]]
    /\ xdeq' = (xdeq + 1) % XEvents
    /\ xcycle' = NextCycle(xdeq, xcycle)
    /\ xerdp' = (xdeq + 1) % XEvents
    /\ xqueue' = IF xqueue = <<>> THEN xqueue ELSE Tail(xqueue)
    /\ UNCHANGED <<xenq, xpcs>>

Event == xring[xdeq].ev

\* A command completion carries the slot, or 0 if it failed.
xhci_handle_cmd_completion ==
    xslot' = IF Event.kind \in {"enable", "address", "config", "config ep"} THEN Event.slot ELSE xslot

Own(e) == e.kind = xop.kind /\ (e.slot = xop.slot \/ e.kind = "enable")

Slotted(s) == s \in 1 .. XSlots

\* usb3_dev_init and xhci_alloc_dev: the memory of the device is allocated, or
\* the port is given up.
xhci_alloc_dev(slot) ==
    \/ /\ Slotted(slot)
       /\ xmem' = xmem \cup xhci_free_dev({slot})
       /\ Await([kind |-> "address", slot |-> slot])
       /\ UNCHANGED <<xport, xdevs>>
    \/ xpc' = "scan" /\ xport' = xport + 1 /\ UNCHANGED <<xmem, xop, xjobs, xdevs>>

\* usb_setup_new_device, the work of UsbCore, stands here for one control
\* request.  The slot's device is recorded before, and stays if it fails.
DeviceFound == /\ xdevs' = [xdevs EXCEPT ![xop.slot] = xport]
               /\ Await([kind |-> "setup", slot |-> xop.slot])
               /\ UNCHANGED <<xport, xmem>>
SetUpDone(good) ==
    /\ xmem' = IF good THEN xmem ELSE xmem \ xhci_free_dev({xop.slot})
    /\ xpc' = "scan" /\ xport' = xport + 1
    /\ UNCHANGED <<xop, xjobs, xdevs>>

\* What each caller does when xhci_poll_event returns: slot is xhcd->slot_id
\* then, got whether there was an event.
usb3_dev_init(slot, got) ==
    CASE xop.kind = "reset"  -> Await([kind |-> "enable", slot |-> 0]) /\ UNCHANGED <<xport, xdevs, xmem>>
      [] xop.kind = "enable" -> IF slot = 0
                                THEN xpc' = "scan" /\ xport' = xport + 1 /\ UNCHANGED <<xop, xjobs, xdevs, xmem>>
                                ELSE xhci_alloc_dev(slot)
      [] xop.kind = "address" -> Await([kind |-> "config", slot |-> xop.slot]) /\ UNCHANGED <<xport, xdevs, xmem>>
      [] xop.kind = "config" -> DeviceFound
      [] xop.kind = "setup"  -> SetUpDone(got)
      [] OTHER -> xpc' = "idle" /\ UNCHANGED <<xop, xjobs, xport, xdevs, xmem>>

\* xhci_send_cmd, xhci_send_ctrl and xhci_port_scan take any event for theirs.
xhci_poll_event ==
    /\ xpc = "wait" /\ xop.kind # "bulk"
    /\ Take
    /\ xhci_handle_cmd_completion
    /\ usb3_dev_init(xslot', TRUE)
    /\ xown' = Own(Event) /\ xshared' = (xshared \/ ~Own(Event))
    /\ UNCHANGED <<xbulk, xkb, usb_kb, xlate, xstarted, xlap>>

PollTimeout ==
    /\ xpc = "wait" /\ xop.kind # "bulk"
    /\ usb3_dev_init(xslot, FALSE)
    /\ xlate' = TRUE
    /\ UNCHANGED <<ring, xslot, xbulk, xkb, usb_kb, xown, xshared, xstarted, xlap>>

ResetPort == Await([kind |-> "reset", slot |-> 0])

\* A port with a device is reset, one without is skipped.
xhci_port_scan ==
    /\ xpc = "scan" /\ xport <= XPorts
    /\ \/ ResetPort /\ UNCHANGED xport
       \/ xport' = xport + 1 /\ UNCHANGED <<xpc, xop, xjobs>>
    /\ UNCHANGED <<ring, xslot, xdevs, xbulk, xkb, usb_kb, xmem, xown, xlate, xshared, xstarted, xlap>>

xhci_hub_check_ports ==
    /\ xpc = "scan" /\ xport > XPorts
    /\ xpc' = "idle"
    /\ UNCHANGED <<xport, xop, ring, xjobs, xslot, xdevs, xbulk, xkb, usb_kb, xmem, xown, xlate, xshared, xstarted, xlap>>

xhci_send_ctrl ==
    /\ xpc = "idle" /\ ~xlate /\ xjobs = <<>> /\ \E s \in 1 .. XSlots : xdevs[s] # None
    /\ Await([kind |-> "ctrl", slot |-> 0])
    /\ UNCHANGED <<xport, ring, xslot, xdevs, xbulk, xkb, usb_kb, xmem, xown, xlate, xshared, xstarted, xlap>>

-----------------------------------------------------------------------------
(* Endpoint rings.                                                         *)

\* The TRB at enq is filled, its cycle bit inverted; enq skips the link TRB.
fill_trb_buff(r) == [r EXCEPT !.cycle[r.enq] = 1 - @]
xhci_get_trb(r) == [r EXCEPT !.enq = (r.enq + 1) % XTrbs]
xhci_get_trb_deq(r) == [r EXCEPT !.deq = (r.deq + 1) % XTrbs]
Post(r) == xhci_get_trb(fill_trb_buff(r))

\* The controller fetches the TRB it is at when the doorbell rings, and goes on
\* from one to the next as long as their cycle bits are set (external).
Doorbell(r) == [r EXCEPT !.busy = @ \/ r.cycle[r.at] = 1]
Advance(r) == LET n == (r.at + 1) % XTrbs IN [r EXCEPT !.at = n, !.busy = r.cycle[n] = 1]

\* Both endpoints are set up with a command, when they have no user.
Device(s) == Slotted(s) /\ xdevs[s] # None
xhci_configure_ep == Await([kind |-> "config ep", slot |-> 1])

xhci_init_bulk_ep ==
    /\ xpc = "idle" /\ ~xlate /\ xjobs = <<>> /\ ~xbulk.open /\ Device(1)
    /\ xbulk' = [NoRing EXCEPT !.open = TRUE]
    /\ xhci_configure_ep
    /\ UNCHANGED <<xport, ring, xslot, xdevs, xkb, usb_kb, xmem, xown, xlate, xshared, xstarted, xlap>>

xhci_get_pipe_intr ==
    /\ xpc = "idle" /\ ~xlate /\ xjobs = <<>> /\ ~xkb.open /\ Device(1)
    /\ xkb' = Post([NoRing EXCEPT !.open = TRUE])
    /\ xlap' = FALSE /\ xstarted' = TRUE
    /\ xmem' = xmem \cup {<<"reports", 0>>}
    /\ xhci_configure_ep
    /\ UNCHANGED <<xport, ring, xslot, xdevs, xbulk, usb_kb, xown, xlate, xshared>>

\* The ring is left to the controller, the buffer of the reports is not.
xhci_put_pipe ==
    /\ xpc = "idle"
    /\ \/ xbulk.open /\ xbulk' = NoRing /\ UNCHANGED <<xkb, xmem, xshared>>
       \/ xkb.open /\ xkb' = NoRing /\ xmem' = xmem \ {<<"reports", 0>>} /\ xshared' = TRUE /\ UNCHANGED xbulk
    /\ UNCHANGED <<xpc, xport, xop, ring, xjobs, xslot, xdevs, usb_kb, xown, xlate, xstarted, xlap>>

BulkEvent(i) == [kind |-> "bulk", slot |-> i]

xhci_transfer_bulk ==
    /\ xpc = "idle" /\ ~xlate /\ xbulk.open
    /\ xop' = BulkEvent(xbulk.enq) /\ xpc' = "wait"
    /\ xbulk' = Doorbell(Post(xbulk))
    /\ UNCHANGED <<xport, ring, xjobs, xslot, xdevs, xkb, usb_kb, xmem, xown, xlate, xshared, xstarted, xlap>>

OwnTrb(e) == e = xop
ClearTrb(r, i) == [r EXCEPT !.cycle[i] = 0]

\* The next event: the transfer's own, or one that is left to the keyboard.
BulkPoll ==
    /\ xpc = "wait" /\ xop.kind = "bulk"
    /\ Take
    /\ xhci_handle_cmd_completion
    /\ IF OwnTrb(Event)
       THEN /\ xbulk' = ClearTrb(xbulk, xop.slot)
            /\ xpc' = "idle" /\ xown' = (Event = xop)
            /\ UNCHANGED <<usb_kb, xlate>>
       ELSE /\ usb_kb' = TRUE
            /\ \/ UNCHANGED <<xpc, xlate>>
               \/ xpc' = "idle" /\ xlate' = TRUE
            /\ UNCHANGED <<xbulk, xown>>
    /\ UNCHANGED <<xport, xop, xjobs, xdevs, xkb, xmem, xshared, xstarted, xlap>>

BulkTimeout ==
    /\ xpc = "wait" /\ xop.kind = "bulk"
    /\ xbulk' = ClearTrb(xbulk, xop.slot)
    /\ xpc' = "idle" /\ xlate' = TRUE
    /\ UNCHANGED <<xport, xop, ring, xjobs, xslot, xdevs, xkb, usb_kb, xmem, xown, xshared, xstarted, xlap>>

\* xhci_poll_intr: an event, or one that a bulk transfer has met, stands for the
\* oldest report; its TRB is posted again.
Refill(r) == Post(xhci_get_trb_deq(r))
Wraps == xlap \/ xkb.enq = XTrbs - 1

PollSkipped ==
    /\ xpc = "idle" /\ xkb.open /\ usb_kb
    /\ usb_kb' = FALSE
    /\ xkb' = Refill(xkb) /\ xlap' = Wraps
    /\ UNCHANGED <<xpc, xport, xop, ring, xjobs, xslot, xdevs, xbulk, xmem, xown, xlate, xshared, xstarted>>

xhci_poll_intr ==
    /\ xpc = "idle" /\ xkb.open /\ ~usb_kb
    /\ LET rung == Doorbell(xkb)
       IN IF Ready
          THEN /\ Take /\ xhci_handle_cmd_completion
               /\ xkb' = Refill(rung)
               /\ xlap' = Wraps
               /\ xshared' = (xshared \/ Event.kind # "report")
          ELSE /\ xkb' = rung
               /\ UNCHANGED <<ring, xslot, xlap, xshared>>
    /\ UNCHANGED <<xpc, xport, xop, xjobs, xdevs, xbulk, usb_kb, xmem, xown, xlate, xstarted>>

-----------------------------------------------------------------------------
(* The controller (external).                                              *)

\* One entry of the ring always stays free.
EventRoom == (xenq + 1) % XEvents # xerdp
PutEvent(e) ==
    /\ EventRoom /\ xpc # "off" /\ xpc # "failed"
    /\ xring' = [xring EXCEPT ![xenq] = [cycle |-> xpcs, ev |-> e]]
    /\ xenq' = (xenq + 1) % XEvents
    /\ xpcs' = IF xenq = XEvents - 1 THEN 1 - xpcs ELSE xpcs
    /\ xqueue' = Append(xqueue, e)
    /\ UNCHANGED <<xdeq, xcycle, xerdp>>

Free == {s \in 1 .. XSlots : xdevs[s] = None}

\* A slot is given to the device, unless there is none left.
DoJob ==
    /\ xjobs # <<>>
    /\ LET j == Head(xjobs)
       IN IF j.kind = "enable"
          THEN \E s \in IF Free = {} THEN {0} ELSE {CHOOSE s \in Free : \A t \in Free : s <= t} :
                  PutEvent([j EXCEPT !.slot = s])
          ELSE PutEvent(j)
    /\ xjobs' = Tail(xjobs)
    /\ UNCHANGED <<xpc, xport, xop, xslot, xdevs, xbulk, xkb, usb_kb, xmem, xown, xlate, xshared, xstarted, xlap>>

DoBulk ==
    /\ xbulk.busy /\ PutEvent(BulkEvent(xbulk.at))
    /\ xbulk' = Advance(xbulk)
    /\ UNCHANGED <<xpc, xport, xop, xjobs, xslot, xdevs, xkb, usb_kb, xmem, xown, xlate, xshared, xstarted, xlap>>

Report ==
    /\ xkb.busy /\ PutEvent([kind |-> "report", slot |-> 0])
    /\ xkb' = Advance(xkb)
    /\ UNCHANGED <<xpc, xport, xop, xjobs, xslot, xdevs, xbulk, usb_kb, xmem, xown, xlate, xshared, xstarted, xlap>>

Next ==
    \/ xhci_hcd_init \/ xhci_hcd_exit
    \/ xhci_port_scan \/ xhci_hub_check_ports \/ xhci_poll_event \/ PollTimeout
    \/ xhci_send_ctrl \/ xhci_init_bulk_ep \/ xhci_get_pipe_intr \/ xhci_put_pipe
    \/ xhci_transfer_bulk \/ BulkPoll \/ BulkTimeout
    \/ PollSkipped \/ xhci_poll_intr
    \/ DoJob \/ DoBulk \/ Report

-----------------------------------------------------------------------------

\* The driver sees the events that the controller has posted, in order and each
\* once, over any number of laps of the ring (xhci_poll_event).
EventsInOrder ==
    xpc \notin {"off", "failed"} =>
        /\ \A k \in 0 .. (Len(xqueue) - 1) : xring[(xdeq + k) % XEvents].ev = xqueue[k + 1]
        /\ Ready <=> xqueue # <<>>

\* As long as nothing timed out, a bulk transfer ends with its own event, and
\* so does every command and control request until the keyboard's endpoint is
\* in use (xhci_transfer_bulk, xhci_send_cmd, xhci_send_ctrl).
ResultOwn ==
    ~xlate => /\ (xpc = "idle" /\ xop # None /\ xop.kind = "bulk") => xown
              /\ ~xstarted => xown

\* While a bulk transfer waits the controller works on its TRB or has finished
\* it: none is posted where the controller does not look (xhci_get_trb).
BulkReached ==
    (xpc = "wait" /\ xop.kind = "bulk" /\ ~xlate) =>
        \/ xbulk.busy /\ xbulk.at = xop.slot
        \/ \E k \in DOMAIN xqueue : xqueue[k] = xop

\* The reports that arrived, those of which a bulk transfer met the event
\* included, lie between the TRB the driver reads next and the one the
\* controller is at: no key is read twice or left behind (xhci_poll_intr).
KbInStep ==
    (xkb.open /\ ~xlate /\ ~xshared /\ ~xlap) =>
        LET unread == Cardinality({k \in DOMAIN xqueue : xqueue[k].kind = "report"})
        IN xkb.at = (xkb.deq + unread + (IF usb_kb THEN 1 ELSE 0)) % XTrbs

\* After xhci_exit only the memory of the last slot is still held, which the
\* loop over the slots leaves out (xhci_hcd_exit, xhci_alloc_dev).
MemoryReturned == xpc = "off" => xmem \subseteq xhci_free_dev({XSlots}) \cup {<<"reports", 0>>}
=============================================================================
