----------------------------- MODULE VirtioBlk -----------------------------
(***************************************************************************)
(* The virtio block driver, lib/libvirtio/virtio-blk.c, used by the node   *)
(* board-qemu/slof/virtio-block.fs, against a device that works through    *)
(* the published chains at its own pace.  A chain is the header (static:   *)
(* one for all requests), the caller's buffer and a status byte on the     *)
(* stack of virtioblk_transfer.                                            *)
(*                                                                         *)
(* Blocks are BlkSectors sectors of 512 bytes; the device's capacity is in *)
(* sectors.  Buffers and the disk hold one value per sector.               *)
(***************************************************************************)
EXTENDS Vring, FiniteSets

CONSTANTS
    Capacity,      \* sectors of the disk
    BlkSectors,    \* sectors per block: blk_size / DEFAULT_SECTOR_SIZE
    SectorMod,     \* number of values of the 32 bit sector parameter of fill_blk_hdr
    Bufs,          \* addresses of callers' buffers
    Slots,         \* stack addresses the status byte may have
    Blocks, Cnts,  \* block numbers and counts callers ask for
    Protected,     \* blocks write-blocks refuses to touch: the partition table
    MaxPending     \* bound on the chains the device has not executed

ASSUME DiskAssumption == Capacity \in Nat \ {0} /\ BlkSectors \in Nat \ {0}
ASSUME SectorModAssumption == SectorMod \in Nat \ {0}
ASSUME AddrAssumption == Bufs \cap Slots = {} /\ 0 \notin Bufs \cup Slots
ASSUME CallsAssumption == Blocks \subseteq Nat /\ Cnts \subseteq Nat \ {0}
ASSUME ProtectedAssumption == Protected \in Nat
ASSUME PendingAssumption == MaxPending \in Nat \ {0} /\ 3 * MaxPending <= QSize

Hdr == 0                    \* address of the static blkhdr
BLK_T_IN == 0
BLK_T_OUT == 1
Unset == 255                \* status = -1

VARIABLES
    pc,              \* "down", "idle", "wait"
    vq,
    blkhdr,          \* [type, sector]
    buf, disk,       \* contents of the buffers and of the disk
    status,          \* contents of the status bytes
    req,             \* the transfer being run
    last_used_idx,
    last,            \* the transfer that returned last, with its result
    late             \* history: a transfer timed out since virtioblk_init

vars == <<pc, vq, blkhdr, buf, disk, status, req, last_used_idx, last, late>>

Sectors == 0 .. (Capacity - 1)

\* The disk starts out with a different value in every sector; a writer stores 100.
Written == 100

NoReq == [type |-> BLK_T_IN, blocknum |-> 0, cnt |-> 0, buf |-> NoBuf, slot |-> NoBuf]

Init ==
    /\ pc = "down"
    /\ vq = virtio_queue_init_vq(0)
    /\ blkhdr = [type |-> BLK_T_IN, sector |-> 0]
    /\ buf = [b \in Bufs |-> <<>>]
    /\ disk = [s \in Sectors |-> s]
    /\ status = [a \in Slots |-> Unset]
    /\ req = NoReq
    /\ last_used_idx = 0
    /\ last = [req |-> NoReq, ret |-> 0]
    /\ late = FALSE

\* virtioblk_init from the first open of the node: reset and a fresh queue.
virtioblk_init ==
    /\ pc = "down"
    /\ vq' = virtio_queue_init_vq(0)
    /\ pc' = "idle"
    /\ last' = [req |-> NoReq, ret |-> 0]
    /\ late' = FALSE
    /\ UNCHANGED <<blkhdr, buf, disk, status, req, last_used_idx>>

\* virtioblk_shutdown from the quiesce hook: the reset makes the device forget what
\* is published.
virtioblk_shutdown ==
    /\ pc = "idle"
    /\ vq' = [vq EXCEPT !.seen = vq.avail_idx]
    /\ pc' = "down"
    /\ UNCHANGED <<blkhdr, buf, disk, status, req, last_used_idx, last, late>>

\* The capacity test of virtioblk_transfer.
BeyondEnd(blocknum, cnt) == blocknum + cnt - 1 > Capacity

\* Variant: the block number is taken for a sector number.
HdrSectorUnscaled(blocknum) == blocknum % SectorMod

\* The sector fill_blk_hdr stores: its parameter is 32 bits wide.
HdrSector(blocknum) == (blocknum * BlkSectors) % SectorMod

\* The first of the three descriptors a request takes.
ChainId(avail_idx) == (avail_idx * 3) % QSize

\* The three descriptors of a request.
FillChain(id, r) ==
    virtio_fill_desc(
        virtio_fill_desc(
            virtio_fill_desc(vq, id, Hdr, 1, id + 1),
            id + 1, r.buf, r.cnt * BlkSectors, id + 2),
        id + 2, r.slot, 1, -1)

\* virtioblk_transfer up to the wait loop.
Submit(r) ==
    /\ pc = "idle"
    /\ Behind(vq.seen, vq.avail_idx) < MaxPending
    /\ ~BeyondEnd(r.blocknum, r.cnt)
    /\ last_used_idx' = vq.used_idx
    /\ status' = [status EXCEPT ![r.slot] = Unset]
    /\ blkhdr' = [type |-> r.type, sector |-> HdrSector(r.blocknum)]
    /\ vq' = Publish(FillChain(ChainId(vq.avail_idx), r), ChainId(vq.avail_idx))
    /\ req' = r
    /\ pc' = "wait"
    /\ UNCHANGED <<disk, last, late>>

Requests(type) ==
    [type : {type}, blocknum : Blocks, cnt : Cnts, buf : Bufs, slot : Slots]

SubmitRead == \E r \in Requests(BLK_T_IN) : Submit(r) /\ UNCHANGED buf

\* Variant: every block may be written.
AnyBlock(blocknum) == TRUE

\* The test of write-blocks.
Writable(blocknum) == blocknum >= Protected

\* A writer fills its buffer first.
SubmitWrite ==
    \E r \in Requests(BLK_T_OUT) :
        /\ Writable(r.blocknum)
        /\ Submit(r)
        /\ buf' = [buf EXCEPT ![r.buf] = [k \in 1 .. r.cnt * BlkSectors |-> Written]]

\* The early returns: a request beyond the end of the device, a write to a protected
\* block.
Reject ==
    /\ pc = "idle"
    /\ \E r \in Requests(BLK_T_IN) \cup Requests(BLK_T_OUT) :
          /\ \/ BeyondEnd(r.blocknum, r.cnt)
             \/ r.type = BLK_T_OUT /\ ~Writable(r.blocknum)
          /\ last' = [req |-> r, ret |-> 0]
    /\ UNCHANGED <<pc, vq, blkhdr, buf, disk, status, req, last_used_idx, late>>

\* The device executes the oldest chain: it follows the descriptors, reads the header
\* as it is now, moves the data and writes the status byte (1: error).
DeviceExecutes ==
    /\ pc # "down"
    /\ HasChain(vq)
    /\ LET head == HeadChain(vq)
           data == vq.desc[vq.desc[head].next]
           st == vq.desc[data.next].addr
           first == blkhdr.sector
           inside == first + data.len <= Capacity
       IN  /\ buf' = IF inside /\ blkhdr.type = BLK_T_IN /\ data.addr \in Bufs
                     THEN [buf EXCEPT ![data.addr] = [k \in 1 .. data.len |-> disk[first + k - 1]]]
                     ELSE buf
           /\ disk' = IF inside /\ blkhdr.type = BLK_T_OUT /\ data.addr \in Bufs
                      THEN [s \in Sectors |->
                              IF s \in first .. (first + data.len - 1) /\ s - first + 1 <= Len(buf[data.addr])
                              THEN buf[data.addr][s - first + 1] ELSE disk[s]]
                      ELSE disk
           /\ status' = IF st \in Slots
                        THEN [status EXCEPT ![st] = IF inside THEN 0 ELSE 1] ELSE status
           /\ vq' = Complete(vq, head, 0)
    /\ UNCHANGED <<pc, blkhdr, req, last_used_idx, last, late>>

\* What virtioblk_transfer returns after the wait loop.
Result == IF status[req.slot] = 0 THEN req.cnt ELSE 0

\* The used index has moved.
Finish ==
    /\ pc = "wait"
    /\ vq.used_idx # last_used_idx
    /\ last' = [req |-> req, ret |-> Result]
    /\ pc' = "idle"
    /\ UNCHANGED <<vq, blkhdr, buf, disk, status, req, last_used_idx, late>>

\* Variant: the wait loop has no time limit.
NoTimeout == pc = "none" /\ UNCHANGED vars

\* VIRTIO_TIMEOUT has passed.
Timeout ==
    /\ pc = "wait"
    /\ vq.used_idx = last_used_idx
    /\ last' = [req |-> req, ret |-> Result]
    /\ late' = TRUE
    /\ pc' = "idle"
    /\ UNCHANGED <<vq, blkhdr, buf, disk, status, req, last_used_idx>>

Next ==
    \/ virtioblk_init \/ virtioblk_shutdown
    \/ SubmitRead \/ SubmitWrite \/ Reject
    \/ DeviceExecutes
    \/ Finish \/ Timeout

\* Only the processor's own steps are fair: nothing is assumed of the device.
Fairness == WF_vars(Finish) /\ WF_vars(Timeout)

Spec == Init /\ [][Next]_vars /\ Fairness

-----------------------------------------------------------------------------

\* The queue, the header and the contents of memory have their types.
TypeOK ==
    /\ pc \in {"down", "idle", "wait"}
    /\ vq \in Vq(Bufs \cup Slots \cup {Hdr}, {0})
    /\ blkhdr.sector \in 0 .. (SectorMod - 1)
    /\ \A s \in Sectors : disk[s] \in Sectors \cup {Written}
    /\ status \in [Slots -> {0, 1, Unset}]
    /\ last_used_idx \in Idx

SectorsOf(r) == (r.blocknum * BlkSectors) .. ((r.blocknum + r.cnt) * BlkSectors - 1)

Inside(r) == SectorsOf(r) \subseteq Sectors

\* The blocks asked for are what is in the buffer.
Moved(r) ==
    /\ Inside(r)
    /\ Len(buf[r.buf]) = r.cnt * BlkSectors
    /\ \A k \in 1 .. (r.cnt * BlkSectors) :
          buf[r.buf][k] = disk[r.blocknum * BlkSectors + k - 1]

\* "@return number of blocks that have been transferred successfully": a transfer that
\* reports success moved exactly the blocks that were asked for.
TransferCorrect == (pc = "idle" /\ last.ret # 0) => Moved(last.req)

\* The same as long as the device has kept to VIRTIO_TIMEOUT since the queue was set up.
TransferCorrectInTime == (pc = "idle" /\ last.ret # 0 /\ ~late) => Moved(last.req)

\* As long as the device answers in time, a transfer of blocks that lie on the disk
\* succeeds: the status byte read is the one of this request.
InRangeSucceeds ==
    (/\ ~late /\ pc = "idle" /\ last.req # NoReq /\ Inside(last.req)
     /\ last.req.type = BLK_T_IN \/ Writable(last.req.blocknum))
        => last.ret = last.req.cnt

\* While the device answers in time, a transfer succeeds exactly if its blocks lie on
\* the disk (and may be written), and has then moved them (virtioblk_transfer).
TransfersRight == TypeOK /\ TransferCorrectInTime /\ InRangeSucceeds

\* "Do not allow writes to the partition table": no sequence of requests changes what
\* is stored there.
PartitionTableKept == \A s \in Sectors : s < Protected * BlkSectors => disk[s] = s
=============================================================================
