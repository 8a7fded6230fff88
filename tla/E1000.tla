------------------------------- MODULE E1000 -------------------------------
(***************************************************************************)
(* The driver of the Intel 8254x network controllers, lib/libe1k/e1k.c.    *)
(* Descriptor i of each ring always points to buffer i.  The controller    *)
(* owns the receive descriptors from its head RDH up to, not including,    *)
(* the tail RDT, and sends the descriptors from TDH up to TDT.             *)
(*                                                                         *)
(* ewire and etxq are history variables: the frames received and not yet   *)
(* returned, and the packets passed to e1k_xmit and not yet sent.          *)
(***************************************************************************)
EXTENDS Naturals, Sequences

CONSTANTS
    NUM_RX_DESC, NUM_TX_DESC,
    ETags,       \* what tells frames and packets apart
    MaxMaps,     \* bound: DMA mappings after which open is no longer called
    None

ConstantsOK == NUM_RX_DESC \in Nat \ {0, 1} /\ NUM_TX_DESC \in Nat \ {0, 1}

VARIABLES
    epc,       \* "closed", "mapped", "open", "received", "stopped"
    edev,      \* registers: [rctl, tctl, rdh, rdt, tdh, tdt]
    erx,       \* per receive descriptor: [done, data]
    enext,     \* m_rx_next_u32
    etx,       \* contents of the transmit buffers
    emaps,     \* DMA mappings of the driver's memory that exist
    ewire, etxq

evars == <<epc, edev, erx, enext, etx, emaps, ewire, etxq>>

RxDescs == 0 .. (NUM_RX_DESC - 1)
TxDescs == 0 .. (NUM_TX_DESC - 1)

Init ==
    /\ epc = "closed"
    /\ edev = [rctl |-> FALSE, tctl |-> FALSE, rdh |-> 0, rdt |-> 0, tdh |-> 0, tdt |-> 0]
    /\ erx = [i \in RxDescs |-> [done |-> FALSE, data |-> None]]
    /\ enext = 0
    /\ etx = [i \in TxDescs |-> None]
    /\ emaps = 0
    /\ ewire = <<>> /\ etxq = <<>>

-----------------------------------------------------------------------------

\* The memory is mapped for DMA before anything is known of the device.
e1k_open ==
    /\ epc = "closed" /\ emaps < MaxMaps
    /\ emaps' = emaps + 1
    /\ epc' = "mapped"
    /\ UNCHANGED <<edev, erx, enext, etx, ewire, etxq>>

\* The possible results of reading an EEPROM word: TRUE is in time.
e1k_eep_rd16 == BOOLEAN

\* The MAC address of the device tree is used if there is one; otherwise it is
\* three EEPROM words.
e1k_mac_init == {TRUE} \cup {w0 /\ w1 /\ w2 : w0, w1, w2 \in e1k_eep_rd16}

e1k_init_transmitter(dev) == [dev EXCEPT !.tdh = 0, !.tdt = 0, !.tctl = TRUE]

\* All descriptors but one are given to the controller.
e1k_init_receiver(dev) == [dev EXCEPT !.rdh = 0, !.rdt = NUM_RX_DESC - 1, !.rctl = TRUE]

\* No link within five seconds, or no MAC address: the open fails, and the
\* mapping stays.
e1k_init ==
    /\ epc = "mapped"
    /\ \E link \in BOOLEAN, mac \in e1k_mac_init :
          IF link /\ mac
          THEN /\ edev' = e1k_init_receiver(e1k_init_transmitter(edev))
               /\ erx' = [i \in RxDescs |-> [erx[i] EXCEPT !.done = FALSE]]
               /\ enext' = 0
               /\ epc' = "open"
          ELSE epc' = "closed" /\ UNCHANGED <<edev, erx, enext>>
    /\ UNCHANGED <<etx, emaps, ewire, etxq>>

\* e1k_receive up to the copy ...
e1k_receive ==
    /\ epc = "open"
    /\ enext # edev.rdh
    /\ erx[enext].done
    /\ epc' = "received"
    /\ UNCHANGED <<edev, erx, enext, etx, emaps, ewire, etxq>>

\* ... and from there: the descriptor is cleared and becomes the new tail.
e1k_receive_done ==
    /\ epc = "received"
    /\ erx' = [erx EXCEPT ![enext].done = FALSE]
    /\ edev' = [edev EXCEPT !.rdt = enext]
    /\ enext' = (enext + 1) % NUM_RX_DESC
    /\ ewire' = Tail(ewire)
    /\ epc' = "open"
    /\ UNCHANGED <<etx, emaps, etxq>>

RingFull == (edev.tdh + NUM_TX_DESC - 1) % NUM_TX_DESC = edev.tdt

e1k_xmit(p) ==
    /\ epc = "open"
    /\ ~RingFull
    /\ etx' = [etx EXCEPT ![edev.tdt] = p]
    /\ edev' = [edev EXCEPT !.tdt = (@ + 1) % NUM_TX_DESC]
    /\ etxq' = Append(etxq, p)
    /\ UNCHANGED <<epc, erx, enext, emaps, ewire>>

\* Receiver and transmitter are stopped and the controller reset, and only
\* then the mapping is removed.
StopEngines ==
    /\ epc = "open"
    /\ edev' = [rctl |-> FALSE, tctl |-> FALSE, rdh |-> 0, rdt |-> 0, tdh |-> 0, tdt |-> 0]
    /\ epc' = "stopped"
    /\ ewire' = <<>> /\ etxq' = <<>>
    /\ UNCHANGED <<erx, enext, etx, emaps>>

e1k_term ==
    /\ epc = "stopped"
    /\ emaps' = emaps - 1
    /\ epc' = "closed"
    /\ UNCHANGED <<edev, erx, enext, etx, ewire, etxq>>

-----------------------------------------------------------------------------

\* The controller (external).  It raises RDH and sets the done bit in two
\* steps the driver may look between.
CanReceive == edev.rctl /\ edev.rdh # edev.rdt
CanSend    == edev.tctl /\ edev.tdh # edev.tdt

DeviceReceives(t) ==
    /\ CanReceive
    /\ erx' = [erx EXCEPT ![edev.rdh].data = t]
    /\ edev' = [edev EXCEPT !.rdh = (@ + 1) % NUM_RX_DESC]
    /\ ewire' = Append(ewire, t)
    /\ UNCHANGED <<epc, enext, etx, emaps, etxq>>

DeviceMarksDone ==
    /\ \E k \in 1 .. Len(ewire) :
          LET i == (enext + k - 1) % NUM_RX_DESC IN
          /\ edev.rctl /\ ~erx[i].done
          /\ erx' = [erx EXCEPT ![i].done = TRUE]
    /\ UNCHANGED <<epc, edev, enext, etx, emaps, ewire, etxq>>

DeviceSends ==
    /\ CanSend
    /\ edev' = [edev EXCEPT !.tdh = (@ + 1) % NUM_TX_DESC]
    /\ etxq' = Tail(etxq)
    /\ UNCHANGED <<epc, erx, enext, etx, emaps, ewire>>

Next ==
    \/ e1k_open \/ e1k_init \/ e1k_receive \/ e1k_receive_done
    \/ \E p \in ETags : e1k_xmit(p)
    \/ StopEngines \/ e1k_term
    \/ \E t \in ETags : DeviceReceives(t)
    \/ DeviceMarksDone \/ DeviceSends

-----------------------------------------------------------------------------

\* The frames not yet returned, the one being copied included, wait in order
\* and unharmed between the driver's index and the controller's head.
RxIntact ==
    epc \in {"open", "received"} =>
        /\ Len(ewire) = (edev.rdh + NUM_RX_DESC - enext) % NUM_RX_DESC
        /\ \A k \in DOMAIN ewire : erx[(enext + k - 1) % NUM_RX_DESC].data = ewire[k]

\* The packets not yet sent are still what the callers wrote.
TxIntact ==
    epc = "open" =>
        /\ Len(etxq) = (edev.tdt + NUM_TX_DESC - edev.tdh) % NUM_TX_DESC
        /\ \A k \in DOMAIN etxq : etx[(edev.tdh + k - 1) % NUM_TX_DESC] = etxq[k]

\* The controller works only on mapped memory, and is quiet while nobody has
\* the device open.
QuietWhenClosed ==
    /\ edev.rctl \/ edev.tctl => emaps > 0
    /\ epc = "closed" => ~CanReceive /\ ~CanSend
=============================================================================
