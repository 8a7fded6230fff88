----------------------------- MODULE VirtioNet -----------------------------
(***************************************************************************)
(* The virtio network driver, lib/libvirtio/virtio-net.c, against a device *)
(* that fills receive buffers and consumes transmit chains at its own      *)
(* pace.  Addresses are numbers: receive chain i has its header at 2 * i   *)
(* and its data at 2 * i + 1; on the transmit side 0 is the static header  *)
(* and every other number a caller's packet buffer.                        *)
(*                                                                         *)
(* wire and txq are history variables: the packets the device has put into *)
(* receive buffers and the driver has not returned yet, and the buffers    *)
(* passed to virtionet_write that the device has not consumed yet.         *)
(***************************************************************************)
EXTENDS Vring

CONSTANTS
    RX_QUEUE_SIZE,   \* receive chains
    Packets,         \* [tag, len] of the frames that may arrive
    MaxLens,         \* the buffer lengths callers of virtionet_read pass
    TxBufs,          \* the packet buffers callers of virtionet_write pass
    TxLag            \* chains the device may leave unconsumed on the transmit ring

net_hdr_size == 1

\* The transmit path does not look at the used ring: it relies on the device
\* being less than half a ring behind.
ASSUME RxFits == RX_QUEUE_SIZE \in Nat \ {0} /\ 2 * RX_QUEUE_SIZE <= QSize
ASSUME TxLagAssumption == TxLag \in Nat \ {0} /\ 2 * TxLag <= QSize
ASSUME TxBufsAssumption == TxBufs \subseteq Nat \ {0}
ASSUME QSizeEven == QSize % 2 = 0

VARIABLES
    host,         \* what the device offers: [modern, iommu]
    status,       \* its status register, as the set of bits that are set
    pc,           \* "closed", "open", and the steps of virtionet_term between them
    rings,        \* TRUE while the memory of rings and buffers is allocated
    rx, tx,       \* the virtqueues
    mem,          \* contents of the receive buffers
    last_rx_idx,
    txmaps,       \* DMA mappings outstanding per transmit descriptor
    gpas,         \* transmit descriptors with a non-NULL desc_gpas entry
    got,          \* what the last virtionet_read returned
    wire, txq

vars == <<host, status, pc, rings, rx, tx, mem, last_rx_idx, txmaps, gpas, got, wire, txq>>

NoPacket == [tag |-> "none", len |-> 0]

RxAddrs == 0 .. (2 * RX_QUEUE_SIZE - 1)

Iommu == host.modern /\ host.iommu

\* The device touches rings and buffers only while DRIVER_OK is set.
DeviceActive == "DRIVER_OK" \in status

-----------------------------------------------------------------------------

\* Filling descriptors 2 * i and 2 * i + 1 of chain i.
RxDesc ==
    [id \in Ids |->
        IF id \in RxAddrs
        THEN [addr |-> id, len |-> 1, next |-> IF id % 2 = 0 THEN id + 1 ELSE -1]
        ELSE NoDesc]

\* The receive queue virtionet_init prepares: every chain is published.
RxRing ==
    [virtio_queue_init_vq(0) EXCEPT
        !.desc = RxDesc,
        !.avail = [i \in Ids |-> IF i < RX_QUEUE_SIZE THEN 2 * i ELSE 0],
        !.avail_idx = RX_QUEUE_SIZE]

Init ==
    /\ host \in { [modern |-> FALSE, iommu |-> FALSE],
                  [modern |-> TRUE, iommu |-> FALSE], [modern |-> TRUE, iommu |-> TRUE] }
    /\ status = {}
    /\ pc = "closed"
    /\ rings = FALSE
    /\ rx = virtio_queue_init_vq(0)
    /\ tx = virtio_queue_init_vq(0)
    /\ mem = [a \in RxAddrs |-> NoPacket]
    /\ last_rx_idx = 0
    /\ txmaps = [id \in Ids |-> 0]
    /\ gpas = {}
    /\ got = NoPacket
    /\ wire = <<>>
    /\ txq = <<>>

\* virtionet_open when virtionet_init gives up: the device refuses the features
\* (modern devices only) or there is no memory for the rings or the buffers.
OpenFails ==
    /\ pc = "closed"
    /\ \E bits \in {{}, {"FEATURES_OK"}} :
          /\ bits # {} => host.modern
          /\ status' = {"ACKNOWLEDGE", "DRIVER", "FAILED"} \cup bits
    /\ UNCHANGED <<host, pc, rings, rx, tx, mem, last_rx_idx, txmaps, gpas, got, wire, txq>>

\* virtionet_open: reset and acknowledge, negotiate, set up both queues and the
\* receive buffers.  desc_gpas of the transmit queue is not initialised: any of
\* its entries may look like a mapped descriptor.
Open ==
    /\ pc = "closed"
    /\ status' = {"ACKNOWLEDGE", "DRIVER", "DRIVER_OK"}
                    \cup (IF host.modern THEN {"FEATURES_OK"} ELSE {})
    /\ rx' = RxRing
    /\ tx' = virtio_queue_init_vq(0)
    /\ \E garbage \in (IF Iommu THEN {{}, Ids} ELSE {{}}) : gpas' = garbage
    /\ rings' = TRUE
    /\ last_rx_idx' = 0
    /\ pc' = "open"
    /\ UNCHANGED <<host, mem, txmaps, got, wire, txq>>

-----------------------------------------------------------------------------
(* Receiving. *)

\* The device takes the next free chain and writes a frame into its data buffer.
DeviceReceives ==
    /\ DeviceActive
    /\ HasChain(rx)
    /\ LET head == HeadChain(rx)
           data == rx.desc[rx.desc[head].next].addr
       IN  \E p \in Packets :
              /\ mem' = [mem EXCEPT ![data] = p]
              /\ rx' = Complete(rx, head, p.len + net_hdr_size)
              /\ wire' = Append(wire, p)
    /\ UNCHANGED <<host, status, pc, rings, tx, last_rx_idx, txmaps, gpas, got, txq>>

Truncate(p, maxlen) == IF p.len > maxlen THEN [p EXCEPT !.len = maxlen] ELSE p

\* Variants: the data descriptor is handed back instead of the head of its chain;
\* the driver forgets that the ring index wraps before the counter does.
RepublishData(id) == id
UsedEntryNoModulo(last) == rx.used[IF last < QSize THEN last ELSE 0]

\* Variant: the index kept in an int does not wrap like the device's.
NextIdxNoWrap(last) == last + 1

\* last_rx_idx is a uint16_t.
NextIdx(last) == (last + 1) % IdxMod

\* The chain virtionet_receive gives back, from the data descriptor's number.
RepublishedChain(id) == id - 1

\* The entry of the used ring virtionet_receive looks at.
UsedEntry(last) == rx.used[last % QSize]

\* virtionet_read with an empty used ring returns 0.
ReadNothing ==
    /\ pc = "open"
    /\ last_rx_idx = rx.used_idx
    /\ got' = NoPacket
    /\ UNCHANGED <<host, status, pc, rings, rx, tx, mem, last_rx_idx, txmaps, gpas, wire, txq>>

\* Variant: the chain is not republished.
ReadKeepsChain(maxlen) ==
    LET used == UsedEntry(last_rx_idx)
        id == (used.id + 1) % QSize
    IN  /\ got' = Truncate([mem[rx.desc[id].addr] EXCEPT !.len = used.len - net_hdr_size], maxlen)
        /\ last_rx_idx' = NextIdx(last_rx_idx)
        /\ UNCHANGED rx

\* virtionet_receive: copy the data, move on, hand the chain back to the device.
virtionet_receive(maxlen) ==
    LET used == UsedEntry(last_rx_idx)
        id == (used.id + 1) % QSize
    IN  /\ got' = Truncate([mem[rx.desc[id].addr] EXCEPT !.len = used.len - net_hdr_size], maxlen)
        /\ last_rx_idx' = NextIdx(last_rx_idx)
        /\ rx' = Publish(rx, RepublishedChain(id))

Read ==
    /\ pc = "open"
    /\ last_rx_idx # rx.used_idx
    /\ \E maxlen \in MaxLens : virtionet_receive(maxlen)
    /\ wire' = Tail(wire)
    /\ UNCHANGED <<host, status, pc, rings, tx, mem, txmaps, gpas, txq>>

-----------------------------------------------------------------------------
(* Transmitting. *)

\* virtio_free_desc for descriptor id: unmaps what the descriptor holds.
Unmap(maps, ids) ==
    [id \in Ids |-> IF id \in ids \cap gpas /\ tx.desc[id].addr # NoBuf
                    THEN maps[id] - 1 ELSE maps[id]]

\* virtio_fill_desc maps the buffer in IOMMU mode.
MapIn(maps, ids) == [id \in Ids |-> IF Iommu /\ id \in ids THEN maps[id] + 1 ELSE maps[id]]

\* The head descriptor virtionet_xmit uses.
TxId(idx) == (idx * 2) % QSize

\* virtio_free_desc for the two descriptors virtionet_xmit is about to reuse.
ReleaseOld(maps, ids) == Unmap(maps, ids)

\* virtionet_write of a packet that is not too big.
Write ==
    /\ pc = "open"
    /\ Behind(tx.seen, tx.avail_idx) < TxLag
    /\ \E buf \in TxBufs :
          LET id == TxId(tx.avail_idx)
              both == {id, id + 1}
              filled == virtio_fill_desc(virtio_fill_desc(tx, id, 0, 1, id + 1),
                                         id + 1, buf, 1, -1)
          IN  /\ txmaps' = MapIn(ReleaseOld(txmaps, both), both)
              /\ gpas' = IF Iommu THEN gpas \cup both ELSE gpas
              /\ tx' = Publish(filled, id)
              /\ txq' = Append(txq, buf)
    /\ UNCHANGED <<host, status, pc, rings, rx, mem, last_rx_idx, got, wire>>

\* The device sends the packet of the next chain.
DeviceTransmits ==
    /\ DeviceActive
    /\ HasChain(tx)
    /\ tx' = Complete(tx, HeadChain(tx), 0)
    /\ txq' = Tail(txq)
    /\ UNCHANGED <<host, status, pc, rings, rx, mem, last_rx_idx, txmaps, gpas, got, wire>>

-----------------------------------------------------------------------------
(* virtionet_close: three steps between which the device may run. *)

Quiesce ==
    /\ pc = "open"
    /\ status' = {"FAILED"}
    /\ pc' = "quiesced"
    /\ UNCHANGED <<host, rings, rx, tx, mem, last_rx_idx, txmaps, gpas, got, wire, txq>>

Reset ==
    /\ pc = "quiesced"
    /\ status' = {}
    /\ pc' = "reset"
    /\ UNCHANGED <<host, rings, rx, tx, mem, last_rx_idx, txmaps, gpas, got, wire, txq>>

\* virtio_queue_term_vq of both queues unmaps every descriptor and frees the rings.
Terminate ==
    /\ pc = "reset"
    /\ txmaps' = Unmap(txmaps, Ids)
    /\ gpas' = {}
    /\ rings' = FALSE
    /\ rx' = virtio_queue_init_vq(0)
    /\ tx' = virtio_queue_init_vq(0)
    /\ mem' = [a \in RxAddrs |-> NoPacket]
    /\ last_rx_idx' = 0
    /\ got' = NoPacket
    /\ wire' = <<>>
    /\ txq' = <<>>
    /\ pc' = "closed"
    /\ UNCHANGED <<host, status>>

Next ==
    \/ OpenFails \/ Open
    \/ DeviceReceives \/ ReadNothing \/ Read
    \/ Write \/ DeviceTransmits
    \/ Quiesce \/ Reset \/ Terminate

\* The network stack polls an open device (receive_ether in every wait loop).
Fairness == WF_vars(Read)

Spec == Init /\ [][Next]_vars /\ Fairness

-----------------------------------------------------------------------------

RxLens == {0} \cup { p.len + net_hdr_size : p \in Packets }

\* The queues, the status register and the histories have their types.
TypeOK ==
    /\ status \subseteq {"ACKNOWLEDGE", "DRIVER", "FEATURES_OK", "DRIVER_OK", "FAILED"}
    /\ pc \in {"closed", "open", "quiesced", "reset"}
    /\ rings \in BOOLEAN
    /\ rx \in Vq(RxAddrs, RxLens)
    /\ tx \in Vq(TxBufs \cup {0}, {0})
    /\ mem \in [RxAddrs -> Packets \cup {NoPacket}]
    /\ last_rx_idx \in Idx
    /\ txmaps \in [Ids -> Int]
    /\ gpas \subseteq Ids

\* The data a used entry stands for, seen the way virtionet_receive reads it.
Received(u) == mem[rx.desc[(u.id + 1) % QSize].addr]

\* Frames reach virtionet_read in order, unaltered and exactly once, across
\* wrap-arounds of both the ring and the index: the entries the driver has not
\* looked at hold exactly the frames the device delivered and nobody has read.
RxFifo ==
    rings => LET unread == UnreadUsed(rx, last_rx_idx)
             IN  /\ Len(unread) = Len(wire)
                 /\ \A k \in 1 .. Len(wire) : Received(unread[k]) = wire[k]
                                              /\ unread[k].len = wire[k].len + net_hdr_size

RxHeads == { 2 * i : i \in 0 .. (RX_QUEUE_SIZE - 1) }

\* Every receive chain is owned by exactly one side: published for the device, or
\* returned and not yet read.  None is lost and none is published twice, so the
\* device never overwrites a frame before virtionet_receive has copied it.
RxChainsConserved ==
    rings =>
        LET avail == AvailChains(rx)
            unread == UnreadUsed(rx, last_rx_idx)
            owned == avail \o [k \in 1 .. Len(unread) |-> unread[k].id]
        IN  /\ Len(owned) = RX_QUEUE_SIZE
            /\ { owned[k] : k \in 1 .. Len(owned) } = RxHeads

\* The chains waiting on the transmit ring are the buffers passed to
\* virtionet_write, in order, each behind a header of its own: a later packet
\* never takes over the descriptors of one the device has not sent.
TxChainsIntact ==
    rings =>
        LET chains == AvailChains(tx)
        IN  /\ Len(chains) = Len(txq)
            /\ \A k \in 1 .. Len(chains) :
                  LET hdr == tx.desc[chains[k]]
                  IN  hdr.addr = 0 /\ hdr.next # -1 /\ tx.desc[hdr.next].addr = txq[k]

\* In IOMMU mode every transmit descriptor holds at most one DMA mapping, a filled
\* one exactly one, and none survives virtionet_close, although desc_gpas starts
\* out as uninitialised memory.
DmaBalanced ==
    \A id \in Ids :
        txmaps[id] = IF Iommu /\ rings /\ tx.desc[id].addr # NoBuf THEN 1 ELSE 0

\* "We've got to make sure that the hosts stops all transfers since the buffers in
\* our main memory will become invalid after this module has been terminated": the
\* device is never active on memory that was given back.
NoDmaAfterFree == DeviceActive => rings

\* The driver's account of its buffers is right: every receive chain is with the
\* device or about to be given back, no chain is changed while the device sends from
\* it, every DMA mapping is released once, and none is in use when the memory goes
\* back to the heap (virtionet_receive, virtionet_xmit, virtionet_term).
NetBuffersSound ==
    TypeOK /\ RxChainsConserved /\ TxChainsIntact /\ DmaBalanced /\ NoDmaAfterFree

\* As long as the stack polls, an open device always gets a chain to receive into
\* again: reading recycles buffers, so a burst of frames cannot stall the link.
DeviceNeverStarved == (pc = "open") ~> (HasChain(rx) \/ pc # "open")
=============================================================================
