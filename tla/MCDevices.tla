----------------------------- MODULE MCDevices ------------------------------
(***************************************************************************)
(* PCI devices and the window they do DMA through, for TLC: the bitmap     *)
(* allocator and the DMA window built on it, the network drivers behind    *)
(* obp-tftp's read and write, and the USB stack: finding the devices and   *)
(* giving them addresses and pipes, the keyboard's characters, and the     *)
(* transfers of the three host controllers.  Each behaviour of the model   *)
(* follows one of the parts; the state of the others stays what it was,    *)
(* and they share none beyond the interfaces each module describes.        *)
(***************************************************************************)
EXTENDS DmaWindow, Sequences

CONSTANTS
    RXPROD_RING_SIZE, RXRET_RING_SIZE, TX_RING_SIZE, MAX_RX_BUF, MAX_TX_BUF, Packets, Room,
    NUM_RX_DESC, NUM_TX_DESC, ETags, MaxMaps,
    RX_QUEUE_SIZE, VTags, MaxBufs,
    RootPorts, HubPorts, UDevs, PoolSize, MaxPools,
    KeybufSize, Keys,
    OTds, ORing, OReports, MaxDone,
    HPage, HBuffers, NUM_BULK_QTDS, HMaxTransfer,
    XPorts, XSlots, XEvents, XTrbs,
    None

\* An aligned page, an unaligned buffer inside one page, one that crosses a page
\* boundary only because of its offset, and one of two whole pages; the bitmap
\* allocator alone is also asked for nothing and for parts of a block.
MCBuffers ==
    { [virt |-> 8,  size |-> 4], [virt |-> 17, size |-> 2],
      [virt |-> 22, size |-> 4], [virt |-> 32, size |-> 8] }
MCSizes == { dma_align(b.size, b.virt) : b \in MCBuffers } \cup {BlockSize, 0, 3, 9}

\* One region below the window, one that crosses its end.
MCForeign == { [addr |-> -2, size |-> 2], [addr |-> 18, size |-> 3] }

Frames == {[tag |-> 1, len |-> Room, bad |-> FALSE], [tag |-> 2, len |-> Room + 1, bad |-> FALSE]}

\* Both sizes of the return ring, and the three ways of finding out the link.
Boards == {[dev |-> "5714", phy |-> "copper", mii |-> FALSE],
           [dev |-> "5703S", phy |-> "fiber", mii |-> TRUE],
           [dev |-> "5714", phy |-> "unknown", mii |-> TRUE]}

Modifiers == {{}, {"ctrl"}}
OBelow == FALSE

VARIABLES
    part,
    bpc, bhw, bdev, brx, btx, bwire, btxq,
    epc, edev, erx, enext, etx, emaps, ewire, etxq,
    vpc, vqueue, vtoggle, vindex, vmem, vhyp, vdata, vwire, vclean,
    uhcd, ustack, usetup, udev, ubus, ulost, unextaddr, ufreelist, uend, ulink, uowner, upools,
    kcaps, klast, kbuf, kr, kw, kdue, kdown, kwrapped,
    opc, oxfer, oresult, oqueue, ohcca, owd, ohalted, okb, ounread, olate, orecover,
    hpc, hdata, hqtd, hat, hret, hmapped, hlinked, husing, hresult, hstuck,
    xpc, xport, xop, xring, xdeq, xcycle, xenq, xpcs, xerdp, xjobs, xslot, xdevs,
    xbulk, xkb, usb_kb, xmem, xqueue, xown, xlate, xshared, xstarted, xlap

bvars == <<bpc, bhw, bdev, brx, btx, bwire, btxq>>
evars == <<epc, edev, erx, enext, etx, emaps, ewire, etxq>>
vvars == <<vpc, vqueue, vtoggle, vindex, vmem, vhyp, vdata, vwire, vclean>>
uvars == <<uhcd, ustack, usetup, udev, ubus, ulost, unextaddr, ufreelist, uend, ulink, uowner, upools>>
kvars == <<kcaps, klast, kbuf, kr, kw, kdue, kdown, kwrapped>>
ovars == <<opc, oxfer, oresult, oqueue, ohcca, owd, ohalted, okb, ounread, olate, orecover>>
hvars == <<hpc, hdata, hqtd, hat, hret, hmapped, hlinked, husing, hresult, hstuck>>
xvars == <<xpc, xport, xop, xring, xdeq, xcycle, xenq, xpcs, xerdp, xjobs, xslot, xdevs,
           xbulk, xkb, usb_kb, xmem, xqueue, xown, xlate, xshared, xstarted, xlap>>

B == INSTANCE Bcm57xx
E == INSTANCE E1000
V == INSTANCE Veth

U == INSTANCE UsbCore
K == INSTANCE UsbHid
O == INSTANCE UsbOhci
H == INSTANCE UsbEhci
X == INSTANCE UsbXhci

ASSUME NicAssumption == B!ConstantsOK /\ E!ConstantsOK /\ V!ConstantsOK
ASSUME UsbAssumption ==
    U!ConstantsOK /\ K!ConstantsOK /\ O!ConstantsOK /\ H!ConstantsOK /\ X!ConstantsOK

nicvars == <<bvars, evars, vvars>>
usbvars == <<uvars, kvars, ovars, hvars, xvars>>

MCInit ==
    /\ Init
    /\ B!Init /\ E!Init /\ V!Init
    /\ U!Init /\ K!Init /\ O!Init /\ H!Init /\ X!Init
    /\ part \in {"bm", "dma", "bcm57xx", "e1k", "veth", "core", "hid", "ohci", "ehci", "xhci"}
    /\ part # "core" => uhcd = "ohci"
    /\ part # "bcm57xx" => bhw.phy = "copper"

MCNext ==
    /\ UNCHANGED part
    /\ \/ part = "bm"      /\ BmNext /\ UNCHANGED <<dmavars, nicvars, usbvars>>
       \/ part = "dma"     /\ Next   /\ UNCHANGED <<nicvars, usbvars>>
       \/ part = "bcm57xx" /\ B!Next /\ UNCHANGED <<vars, evars, vvars, usbvars>>
       \/ part = "e1k"     /\ E!Next /\ UNCHANGED <<vars, bvars, vvars, usbvars>>
       \/ part = "veth"    /\ V!Next /\ UNCHANGED <<vars, bvars, evars, usbvars>>
       \/ part = "core" /\ U!Next /\ UNCHANGED <<vars, nicvars, kvars, ovars, hvars, xvars>>
       \/ part = "hid"  /\ K!Next /\ UNCHANGED <<vars, nicvars, uvars, ovars, hvars, xvars>>
       \/ part = "ohci" /\ O!Next /\ UNCHANGED <<vars, nicvars, uvars, kvars, hvars, xvars>>
       \/ part = "ehci" /\ H!Next /\ UNCHANGED <<vars, nicvars, uvars, kvars, ovars, xvars>>
       \/ part = "xhci" /\ X!Next /\ UNCHANGED <<vars, nicvars, uvars, kvars, ovars, hvars>>

MCSpec == MCInit /\ [][MCNext]_<<part, vars, nicvars, usbvars>>

\* The frames a driver has not yet returned wait in order and unharmed, no
\* receive buffer is lost or offered twice, and the packets a driver has queued
\* and the controller has not sent are still what the callers wrote
\* (bcm_receive, e1k_receive, veth_receive, bcm_xmit, e1k_xmit).
FramesIntact ==
    /\ B!RxConserved /\ B!RxIntact /\ B!TxIntact
    /\ E!RxIntact /\ E!TxIntact
    /\ V!RxConserved /\ V!RxIntact

\* No controller touches memory while nobody has the device open, after a
\* failed open or a close, or while the memory is unmapped or freed (bcm_init,
\* bcm_term, e1k_init, e1k_term, veth_init, veth_term).
NicQuietWhenClosed == B!QuietWhenClosed /\ E!QuietWhenClosed /\ V!QuietWhenClosed

\* No two devices answer to one address, unless an answer to SET_ADDRESS was
\* missed, and no pipe is lost, free twice or in the hands of two devices
\* (usb_set_address, usb_get_pipe, usb_put_pipe).
DevicesApart == U!AddressesDistinct /\ U!PipesSound

\* A transfer that a host controller driver reports as done was done by the
\* controller (all but the last descriptor under EHCI), and it covered the
\* caller's data; and the controllers work on memory the driver has given them
\* and not taken back: no descriptor of EHCI is freed in use, no bulk TRB of
\* xHCI is posted where the controller does not look, and xhci_exit gives back
\* what it can (ohci_process_done_head, ehci_transfer_bulk, xhci_poll_event).
TransfersTrue ==
    /\ O!ResultRight
    /\ H!DoneButLast /\ H!BulkCovered /\ H!ReleasedFirst
    /\ X!ResultOwn /\ X!BulkReached /\ X!MemoryReturned

\* The keys typed reach the console in order: in the driver's key ring, in the
\* descriptors of the OHCI keyboard and in the event and interrupt rings of
\* xHCI (write_key, ohci_poll_intr, xhci_poll_intr).
KeysInOrder == K!KeysFifo /\ O!ReportsInOrder /\ X!EventsInOrder /\ X!KbInStep
=============================================================================
