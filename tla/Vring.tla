------------------------------- MODULE Vring -------------------------------
(***************************************************************************)
(* A split virtqueue as lib/libvirtio/virtio.c lays it out: the descriptor *)
(* table, the ring of available chains the driver publishes and the ring   *)
(* of used chains the device returns.  Both indices are 16 bit counters    *)
(* that run freely (IdxMod = 2^16 in the code) and are reduced modulo the  *)
(* queue size where a ring is accessed.  A queue is a record; the drivers' *)
(* modules keep one per virtqueue.                                         *)
(*                                                                         *)
(* The device's side (seen, HeadChain, Complete) stands for the          *)
(* hypervisor and is modelled from how the drivers use it.                 *)
(***************************************************************************)
EXTENDS Integers, Sequences

CONSTANTS
    QSize,    \* number of descriptors, told by the device (virtio_get_qsize)
    IdxMod    \* number of values of a ring index

ASSUME QSizeAssumption == QSize \in Nat \ {0}
ASSUME IdxModAssumption == IdxMod \in Nat \ {0} /\ IdxMod % QSize = 0 /\ QSize < IdxMod

Ids == 0 .. (QSize - 1)
Idx == 0 .. (IdxMod - 1)

NoBuf == -1

\* A descriptor: the buffer it points to, its length and the next descriptor of
\* the chain (-1: VRING_DESC_F_NEXT is not set).
Desc(Bufs) == [addr : Bufs \cup {NoBuf}, len : Nat, next : Ids \cup {-1}]

NoDesc == [addr |-> NoBuf, len |-> 0, next |-> -1]

Vq(Bufs, Lens) ==
    [desc : [Ids -> Desc(Bufs)],
     avail : [Ids -> Int], avail_idx : Idx,
     used : [Ids -> [id : Int, len : Lens]], used_idx : Idx,
     seen : Idx]

\* virtio_queue_init_vq: the rings are cleared and both indices are 0; on the
\* device's side setting the queue address starts the queue afresh.
virtio_queue_init_vq(len) ==
    [desc |-> [i \in Ids |-> NoDesc],
     avail |-> [i \in Ids |-> 0], avail_idx |-> 0,
     used |-> [i \in Ids |-> [id |-> 0, len |-> len]], used_idx |-> 0,
     seen |-> 0]

\* virtio_fill_desc: both numbers are reduced modulo the queue size.
virtio_fill_desc(vq, id, addr, len, next) ==
    [vq EXCEPT !.desc[id % QSize] =
        [addr |-> addr, len |-> len, next |-> IF next = -1 THEN -1 ELSE next % QSize]]

\* The driver's publication of a chain: the ring entry, a barrier, the index.
Publish(vq, id) ==
    [vq EXCEPT !.avail[vq.avail_idx % QSize] = id,
               !.avail_idx = (vq.avail_idx + 1) % IdxMod]

\* The device has a chain to work on; its number; and its return to the driver.
HasChain(vq) == vq.seen # vq.avail_idx

HeadChain(vq) == vq.avail[vq.seen % QSize]

Complete(vq, id, len) ==
    [vq EXCEPT !.used[vq.used_idx % QSize] = [id |-> id, len |-> len],
               !.used_idx = (vq.used_idx + 1) % IdxMod,
               !.seen = (vq.seen + 1) % IdxMod]

\* How far one index is behind another, both counting modulo IdxMod.
Behind(from, to) == (to - from) % IdxMod

\* The chain numbers the device has not taken yet, oldest first.
AvailChains(vq) ==
    [k \in 1 .. Behind(vq.seen, vq.avail_idx) |->
        vq.avail[(vq.seen + k - 1) % QSize]]

\* The used entries the driver has not looked at, given the index it reached.
UnreadUsed(vq, last) ==
    [k \in 1 .. Behind(last, vq.used_idx) |-> vq.used[(last + k - 1) % QSize]]
=============================================================================
