---------------------------- MODULE VirtioSerial ----------------------------
(***************************************************************************)
(* The virtio console: the device node board-qemu/slof/virtio-serial.fs    *)
(* (open, close, read, write and its quiesce hook) on top of the driver    *)
(* lib/libvirtio/virtio-serial.c, against a device that delivers key       *)
(* strokes and consumes output at its own pace.                            *)
(*                                                                         *)
(* Receive buffer i is descriptor i; the transmit descriptor points to the *)
(* parameter c on the stack of virtio_serial_putchar.  keys and txq are    *)
(* history variables: key strokes delivered and not yet read, characters   *)
(* passed to putchar and not yet taken by the device.                      *)
(***************************************************************************)
EXTENDS Vring

CONSTANTS
    RX_NUM_ELEMS,   \* receive buffers
    Chars,          \* characters
    MaxOpens,       \* bound on open-count
    MaxTx           \* bound on the characters a slow device may leave waiting

ASSUME RxFits == RX_NUM_ELEMS \in Nat \ {0} /\ RX_NUM_ELEMS <= QSize
ASSUME MaxOpensAssumption == MaxOpens \in Nat \ {0}
ASSUME MaxTxAssumption == MaxTx \in 1 .. QSize

VARIABLES
    open_count, initialized,
    virtiodev,      \* FALSE: the VALUE virtiodev is 0
    fault,          \* "none"; "null_dev": virtio_serial_init ran on a NULL device;
                    \* "no_queue": a queue that was never set up was read
    status,         \* the device's status register
    rings,          \* the rings and buffers are allocated
    rx, tx, mem, last_rx_idx,
    pc,             \* "idle", "putwait", "quiesced", "freed"
    last_used_idx,  \* putchar's copy of the used index
    stack,          \* the byte the transmit descriptors point to
    keys, txq,
    late            \* history: a putchar timed out since virtio_serial_init

vars == <<open_count, initialized, virtiodev, fault, status, rings, rx, tx, mem,
          last_rx_idx, pc, last_used_idx, stack, keys, txq, late>>

node == <<open_count, initialized, virtiodev, fault>>
rxvars == <<rx, mem, last_rx_idx, keys>>
txvars == <<tx, last_used_idx, stack, txq, late>>

Elems == 0 .. (RX_NUM_ELEMS - 1)
NoChar == "0"

DeviceActive == "DRIVER_OK" \in status

RxRing ==
    [virtio_queue_init_vq(0) EXCEPT
        !.desc = [id \in Ids |-> IF id \in Elems THEN [addr |-> id, len |-> 1, next |-> -1]
                                                   ELSE NoDesc],
        !.avail = [i \in Ids |-> IF i \in Elems THEN i ELSE 0],
        !.avail_idx = RX_NUM_ELEMS]

Init ==
    /\ open_count = 0
    /\ initialized = FALSE
    /\ virtiodev = TRUE
    /\ fault = "none"
    /\ status = {}
    /\ rings = FALSE
    /\ rx = virtio_queue_init_vq(0)
    /\ tx = virtio_queue_init_vq(0)
    /\ mem = [a \in Elems |-> NoChar]
    /\ last_rx_idx = 0
    /\ pc = "idle"
    /\ last_used_idx = 0
    /\ stack = NoChar
    /\ keys = <<>>
    /\ txq = <<>>
    /\ late = FALSE

-----------------------------------------------------------------------------
(* open and close of the node *)

\* virtio_serial_init: reset, negotiate, publish every receive buffer; it fails when
\* the device refuses the features or there is no memory.
virtio_serial_init(ok) ==
    /\ status' = {"ACKNOWLEDGE", "DRIVER"}
                    \cup (IF ok THEN {"FEATURES_OK", "DRIVER_OK"} ELSE {"FAILED"})
    /\ rings' = ok
    /\ rx' = IF ok THEN RxRing ELSE rx
    /\ tx' = virtio_queue_init_vq(0)
    /\ last_rx_idx' = 0
    /\ late' = FALSE
    /\ UNCHANGED <<mem, keys, last_used_idx, stack, txq>>

\* The first open runs the word init, which passes virtiodev on as it is and drops
\* the result of virtio_serial_init.
OpenFirst ==
    /\ pc = "idle"
    /\ open_count = 0
    /\ ~initialized
    /\ IF virtiodev
       THEN (\E ok \in BOOLEAN : virtio_serial_init(ok)) /\ UNCHANGED fault
       ELSE fault' = "null_dev" /\ UNCHANGED <<status, rings, rxvars, txvars>>
    /\ initialized' = TRUE
    /\ open_count' = 1
    /\ UNCHANGED <<virtiodev, pc>>

\* After a quiesce, a first open finds the node closed but still counted.
OpenAgain ==
    /\ pc = "idle"
    /\ open_count \in 1 .. (MaxOpens - 1)
    /\ open_count' = open_count + 1
    /\ UNCHANGED <<initialized, virtiodev, fault, status, rings, rxvars, txvars, pc>>

\* The word shutdown starts by quiescing the device, if it is initialized.
StartShutdown ==
    IF initialized
    THEN status' = {"FAILED"} /\ pc' = "quiesced"
    ELSE UNCHANGED <<status, pc>>

\* close shuts the device down with the last user.
Close ==
    /\ pc = "idle"
    /\ open_count > 0
    /\ open_count' = open_count - 1
    /\ IF open_count = 1 THEN StartShutdown ELSE UNCHANGED <<status, pc>>
    /\ UNCHANGED <<initialized, virtiodev, fault, rings, rxvars, txvars>>

\* quiesce executes the hook that init has registered.
Quiesce ==
    /\ pc = "idle"
    /\ initialized
    /\ StartShutdown
    /\ UNCHANGED <<node, rings, rxvars, txvars>>

\* virtio_queue_term_vq of both queues ...
StopQueues ==
    /\ pc = "quiesced"
    /\ rings' = FALSE
    /\ pc' = "freed"
    /\ UNCHANGED <<node, status, rxvars, txvars>>

\* ... the reset, and the rest of the word shutdown.
FinishShutdown ==
    /\ pc = "freed"
    /\ status' = {}
    /\ initialized' = FALSE
    /\ virtiodev' = FALSE
    /\ rx' = virtio_queue_init_vq(0)
    /\ tx' = virtio_queue_init_vq(0)
    /\ mem' = [a \in Elems |-> NoChar]
    /\ last_rx_idx' = 0
    /\ last_used_idx' = 0
    /\ stack' = NoChar
    /\ keys' = <<>>
    /\ txq' = <<>>
    /\ late' = FALSE
    /\ pc' = "idle"
    /\ UNCHANGED <<open_count, fault, rings>>

-----------------------------------------------------------------------------
(* Key strokes *)

DeviceReceives ==
    /\ DeviceActive
    /\ HasChain(rx)
    /\ HeadChain(rx) \in Elems
    /\ \E ch \in Chars :
          /\ mem' = [mem EXCEPT ![rx.desc[HeadChain(rx)].addr] = ch]
          /\ rx' = Complete(rx, HeadChain(rx), 0)
          /\ keys' = Append(keys, ch)
    /\ UNCHANGED <<node, status, rings, last_rx_idx, pc, txvars>>

\* virtio_serial_haschar
HasChar == last_rx_idx # rx.used_idx

\* Variants: the buffer is handed back one place off; the index does not wrap.
RepublishNext(id) == id % RX_NUM_ELEMS
NextIdxNoWrap(last) == last + 1

\* The buffer virtio_serial_getchar reads and hands back.
GetcharBuf(id) == id - 1

NextIdx(last) == (last + 1) % IdxMod

\* read with a key waiting: virtio_serial_getchar.  Its id is one more than the
\* buffer's number, reduced modulo the queue size, and one is subtracted again.
Getchar ==
    /\ pc = "idle"
    /\ open_count > 0 /\ virtiodev /\ rings
    /\ HasChar
    /\ LET id == (rx.used[last_rx_idx % QSize].id + 1) % QSize
       IN  rx' = Publish(rx, GetcharBuf(id))
    /\ last_rx_idx' = NextIdx(last_rx_idx)
    /\ keys' = Tail(keys)
    /\ UNCHANGED <<node, status, rings, mem, pc, txvars>>

\* read of a node whose init failed: virtio_serial_haschar follows the used pointer
\* of a queue that was never set up.
ReadUnready ==
    /\ pc = "idle"
    /\ open_count > 0 /\ virtiodev /\ ~rings
    /\ fault' = "no_queue"
    /\ UNCHANGED <<open_count, initialized, virtiodev, status, rings, rxvars, txvars, pc>>

-----------------------------------------------------------------------------
(* Output *)

\* write of one character: virtio_serial_putchar up to its wait loop.
Putchar ==
    /\ pc = "idle"
    /\ open_count > 0 /\ virtiodev /\ rings
    /\ Len(txq) < MaxTx
    /\ \E ch \in Chars :
          /\ stack' = ch
          /\ txq' = Append(txq, ch)
    /\ LET id == tx.avail_idx % QSize
       IN  tx' = Publish(virtio_fill_desc(tx, id, 0, 1, -1), id)
    /\ last_used_idx' = tx.used_idx
    /\ pc' = "putwait"
    /\ UNCHANGED <<node, status, rings, rxvars, late>>

DeviceEmits ==
    /\ DeviceActive
    /\ HasChain(tx)
    /\ tx' = Complete(tx, HeadChain(tx), 0)
    /\ txq' = Tail(txq)
    /\ UNCHANGED <<node, status, rings, rxvars, pc, last_used_idx, stack, late>>

\* Variant: putchar returns without waiting for the host.
PutNoWait ==
    /\ pc = "putwait"
    /\ pc' = "idle"
    /\ stack' = NoChar
    /\ UNCHANGED <<node, status, rings, rxvars, tx, last_used_idx, txq, late>>

\* The wait loop ends: the host consumed a descriptor.  The frame of putchar is
\* gone, and with it the byte the descriptor pointed to.
PutDone ==
    /\ pc = "putwait"
    /\ tx.used_idx # last_used_idx
    /\ pc' = "idle"
    /\ stack' = NoChar
    /\ UNCHANGED <<node, status, rings, rxvars, tx, last_used_idx, txq, late>>

\* Variant: the wait loop has no time limit.
PutNeverTimesOut == pc = "none" /\ UNCHANGED vars

\* ... or VIRTIO_TIMEOUT has passed.
PutTimeout ==
    /\ pc = "putwait"
    /\ tx.used_idx = last_used_idx
    /\ pc' = "idle"
    /\ stack' = NoChar
    /\ late' = TRUE
    /\ UNCHANGED <<node, status, rings, rxvars, tx, last_used_idx, txq>>

Next ==
    /\ fault = "none"
    /\ \/ OpenFirst \/ OpenAgain \/ Close \/ Quiesce \/ StopQueues \/ FinishShutdown
       \/ DeviceReceives \/ Getchar \/ ReadUnready
       \/ Putchar \/ DeviceEmits \/ PutDone \/ PutTimeout

\* Only the processor's own steps are fair: nothing is assumed of the device.
Fairness ==
    /\ WF_vars(PutDone)
    /\ WF_vars(PutTimeout)

Spec == Init /\ [][Next]_vars /\ Fairness

-----------------------------------------------------------------------------

\* The node's values, the queues and the histories have their types.
TypeOK ==
    /\ open_count \in 0 .. MaxOpens
    /\ initialized \in BOOLEAN /\ virtiodev \in BOOLEAN /\ rings \in BOOLEAN
    /\ fault \in {"none", "null_dev", "no_queue"}
    /\ rx \in Vq(Elems, {0}) /\ tx \in Vq({0}, {0})
    /\ mem \in [Elems -> Chars \cup {NoChar}]
    /\ last_rx_idx \in Idx /\ last_used_idx \in Idx
    /\ pc \in {"idle", "putwait", "quiesced", "freed"}

\* Key strokes reach read in order, unaltered and exactly once: the used entries not
\* looked at yet hold exactly the characters delivered and not yet returned.
KeysFifo ==
    rings => LET unread == UnreadUsed(rx, last_rx_idx)
             IN  /\ Len(unread) = Len(keys)
                 /\ \A k \in 1 .. Len(keys) : mem[unread[k].id] = keys[k]

\* What virtio_serial_getchar publishes ("Tell HV that RX queue entry is ready") is
\* always the number of a receive buffer.
PublishedEntriesValid ==
    rings => LET avail == AvailChains(rx)
             IN  \A k \in 1 .. Len(avail) : avail[k] \in Elems

\* Every receive buffer is owned once: waiting for the device or waiting for read.
RxBuffersConserved ==
    rings => LET avail == AvailChains(rx)
                 unread == UnreadUsed(rx, last_rx_idx)
                 owned == avail \o [k \in 1 .. Len(unread) |-> unread[k].id]
             IN  Len(owned) = RX_NUM_ELEMS /\ { owned[k] : k \in 1 .. Len(owned) } = Elems

\* As long as no putchar has timed out, the byte a waiting transmit descriptor points
\* to is still the character that was written: the stack frame of putchar outlives the
\* device's use of it.
TxByteAlive ==
    \A k \in 1 .. Behind(tx.seen, tx.avail_idx) :
        (DeviceActive /\ ~late) => stack = txq[k]

\* The quiesce hook and close stop the device before its rings go back to the heap
\* ("no more background transactions can be pending", virtio-serial.fs).
NoDmaAfterFree == DeviceActive => rings

\* The console's buffers are where the device and the driver expect them: receive
\* buffers are conserved, a character is not overwritten while it is sent, and the
\* rings outlive the device's use of them (virtio_serial_getchar,
\* virtio_serial_putchar, virtio_serial_shutdown).
ConsoleBuffersSound == TypeOK /\ RxBuffersConserved /\ TxByteAlive /\ NoDmaAfterFree

\* A write returns even if the device never takes the character.
WriteReturns == (pc = "putwait") ~> (pc # "putwait")
=============================================================================
