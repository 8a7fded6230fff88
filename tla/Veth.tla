-------------------------------- MODULE Veth --------------------------------
(***************************************************************************)
(* The driver of the pSeries virtual Ethernet, lib/libveth/veth.c.  The    *)
(* hypervisor fills the buffers it has been given and reports each in the  *)
(* next entry of a queue in the driver's memory; an entry is new when its  *)
(* toggle bit has the value of the current lap.  Sending is one hypervisor *)
(* call that copies the packet, so it keeps no state.                      *)
(*                                                                         *)
(* The queue's memory is not cleared when it is allocated: a second open   *)
(* may get the memory of the first back, except that the heap has put the  *)
(* link of its free list into entry 0.                                     *)
(*                                                                         *)
(* vwire and vclean are history variables: the frames received and not yet *)
(* returned, and whether the memory of the queue held no old entry that    *)
(* looks new.                                                              *)
(***************************************************************************)
EXTENDS Naturals, Sequences, FiniteSets

CONSTANTS
    RX_QUEUE_SIZE,
    VTags,       \* what tells frames apart
    MaxBufs,     \* bound: buffers the hypervisor may hold at a time
    None

ConstantsOK == RX_QUEUE_SIZE \in Nat \ {0} /\ MaxBufs >= RX_QUEUE_SIZE

VARIABLES
    vpc,        \* "closed", "init", "open", "term"
    vqueue,     \* rx_queue: per entry [toggle, buf]
    vtoggle,    \* cur_rx_toggle
    vindex,     \* cur_rx_index
    vmem,       \* TRUE while queue and buffers are allocated
    vhyp,       \* the hypervisor's side: [reg, bufs, index, toggle]
    vdata,      \* contents of the buffers
    vwire, vclean

vvars == <<vpc, vqueue, vtoggle, vindex, vmem, vhyp, vdata, vwire, vclean>>

Entries == 0 .. (RX_QUEUE_SIZE - 1)
Blank == [toggle |-> FALSE, buf |-> None]
Unregistered == [reg |-> FALSE, bufs |-> <<>>, index |-> 0, toggle |-> TRUE]

Init ==
    /\ vpc = "closed"
    /\ vqueue = [i \in Entries |-> Blank]
    /\ vtoggle = TRUE
    /\ vindex = 0
    /\ vmem = FALSE
    /\ vhyp = Unregistered
    /\ vdata = [i \in Entries |-> None]
    /\ vwire = <<>>
    /\ vclean = TRUE

-----------------------------------------------------------------------------

\* veth_init up to the registration: when an allocation or the registration
\* fails, everything allocated is freed again.
libveth_open ==
    /\ vpc = "closed"
    /\ vtoggle' = TRUE
    /\ vindex' = 0
    /\ \E old \in {vqueue, [i \in Entries |-> Blank]} :
          vqueue' = [old EXCEPT ![0] = Blank]
    /\ vclean' = \A i \in Entries : ~vqueue'[i].toggle
    /\ \/ vmem' = TRUE /\ vhyp' = [Unregistered EXCEPT !.reg = TRUE] /\ vpc' = "init"
       \/ vmem' = FALSE /\ UNCHANGED <<vhyp, vpc>>
    /\ vwire' = <<>>
    /\ UNCHANGED vdata

\* The rest of veth_init: the hypervisor gets all buffers.
h_add_logical_lan_buffer(bufs) == [vhyp EXCEPT !.bufs = @ \o bufs]

veth_init ==
    /\ vpc = "init"
    /\ vhyp' = h_add_logical_lan_buffer([k \in 1 .. RX_QUEUE_SIZE |-> k - 1])
    /\ vpc' = "open"
    /\ UNCHANGED <<vqueue, vtoggle, vindex, vmem, vdata, vwire, vclean>>

NewEntry == vqueue[vindex].toggle = vtoggle

\* A variant that never turns to the next lap.
SameLap(toggle, next) == toggle
NextLap(toggle, next) == IF next = 0 THEN ~toggle ELSE toggle

\* One turn of veth_receive's loop: the frame is copied to the caller, or
\* dropped when the entry is invalid or the frame does not fit; its buffer goes
\* back to the hypervisor in any case.
veth_receive ==
    /\ vpc = "open"
    /\ NewEntry
    /\ Len(vhyp.bufs) < MaxBufs
    /\ vhyp' = h_add_logical_lan_buffer(<<vqueue[vindex].buf>>)
    /\ vindex' = (vindex + 1) % RX_QUEUE_SIZE
    /\ vtoggle' = NextLap(vtoggle, vindex')
    /\ vwire' = IF vwire = <<>> THEN vwire ELSE Tail(vwire)
    /\ UNCHANGED <<vpc, vqueue, vmem, vdata, vclean>>

\* veth_term: the hypervisor lets go of the memory before it is freed.
h_free_logical_lan == vhyp' = Unregistered /\ UNCHANGED vmem

libveth_close ==
    /\ vpc = "open"
    /\ h_free_logical_lan
    /\ vpc' = "term"
    /\ vwire' = <<>>
    /\ UNCHANGED <<vqueue, vtoggle, vindex, vdata, vclean>>

veth_term ==
    /\ vpc = "term"
    /\ vmem' = FALSE
    /\ vhyp' = Unregistered
    /\ vpc' = "closed"
    /\ UNCHANGED <<vqueue, vtoggle, vindex, vdata, vwire, vclean>>

\* The hypervisor (external): it uses a buffer, reports it, and turns its own
\* toggle at the end of the queue.
HypervisorReceives(f) ==
    /\ vhyp.reg /\ vhyp.bufs # <<>>
    /\ LET b == Head(vhyp.bufs) IN
       /\ vdata' = [vdata EXCEPT ![b] = f]
       /\ vqueue' = [vqueue EXCEPT ![vhyp.index] =
                        [toggle |-> vhyp.toggle, buf |-> b]]
       /\ vhyp' = [vhyp EXCEPT !.bufs = Tail(@), !.index = (@ + 1) % RX_QUEUE_SIZE,
                        !.toggle = IF vhyp.index = RX_QUEUE_SIZE - 1 THEN ~@ ELSE @]
    /\ vwire' = Append(vwire, f)
    /\ UNCHANGED <<vpc, vtoggle, vindex, vmem, vclean>>

Next ==
    \/ libveth_open \/ veth_init \/ veth_receive \/ libveth_close \/ veth_term
    \/ \E f \in VTags : HypervisorReceives(f)

-----------------------------------------------------------------------------

\* On clean queue memory the driver sees as new exactly the frames that it has
\* not returned, in order and unharmed.
RxIntact ==
    (vpc = "open" /\ vclean) =>
        /\ NewEntry <=> vwire # <<>>
        /\ \A k \in DOMAIN vwire : vdata[vqueue[(vindex + k - 1) % RX_QUEUE_SIZE].buf] = vwire[k]

\* On clean queue memory every buffer is either with the hypervisor or in one
\* unread entry.
RxConserved ==
    (vpc = "open" /\ vclean) =>
        LET unread == [k \in DOMAIN vwire |-> vqueue[(vindex + k - 1) % RX_QUEUE_SIZE].buf]
            held   == vhyp.bufs \o unread
        IN Len(held) = RX_QUEUE_SIZE /\ {held[k] : k \in DOMAIN held} = Entries

\* The hypervisor is registered with allocated memory only.
QuietWhenClosed == vhyp.reg => vmem
=============================================================================
