--------------------------- MODULE VirtioNetProof ---------------------------
(***************************************************************************)
(* Proofs about the virtio network driver of VirtioNet, for every queue    *)
(* size, index width, number of receive chains and set of packets: frames  *)
(* are read in order and once, and the driver's account of its receive     *)
(* chains, transmit chains and DMA mappings is right.                      *)
(***************************************************************************)
EXTENDS VirtioNet, VringProof

-----------------------------------------------------------------------------
(* The inductive invariant. *)

\* The histories are sequences of packets and of packet buffers.
HistoryOK == wire \in Seq(Packets) /\ txq \in Seq(TxBufs)

\* The rings exist from virtionet_open to virtionet_close, and the device runs only
\* while the driver is open.
LifeInv ==
    /\ rings <=> pc # "closed"
    /\ DeviceActive => pc = "open"
    /\ pc = "closed" => wire = <<>> /\ txq = <<>>

\* Every receive chain has one owner and is linked as virtionet_init filled it.
RxInv ==
    rings => /\ OwnedOnce(rx, last_rx_idx, RxHeads, RX_QUEUE_SIZE)
             /\ \A h \in RxHeads : rx.desc[h].next = h + 1 /\ rx.desc[h + 1].addr = h + 1

\* The chain on the transmit ring for counter value i starts at descriptor TxId(i),
\* and fewer than half a ring of them wait.
TxInv ==
    rings =>
        /\ Len(txq) = Behind(tx.seen, tx.avail_idx)
        /\ Len(txq) <= TxLag
        /\ \A k \in 1 .. Len(txq) :
              LET id == TxId(tx.seen + k - 1)
              IN  /\ AvailChains(tx)[k] = id
                  /\ tx.desc[id].addr = 0
                  /\ tx.desc[id].next = id + 1
                  /\ tx.desc[id + 1].addr = txq[k]

\* In IOMMU mode a filled descriptor looks mapped; without it none ever does.
GpasInv ==
    /\ ~Iommu => gpas = {}
    /\ (Iommu /\ rings) => \A id \in Ids : tx.desc[id].addr # NoBuf => id \in gpas

IndInv ==
    TypeOK /\ HistoryOK /\ LifeInv /\ RxInv /\ RxFifo /\ TxInv /\ GpasInv /\ DmaBalanced

-----------------------------------------------------------------------------
(* The descriptors of the chains. *)

\* The receive chains fit into the queue.
LEMMA HeadsFit ==
    /\ RX_QUEUE_SIZE \in Nat /\ RX_QUEUE_SIZE > 0 /\ RX_QUEUE_SIZE <= QSize
    /\ RX_QUEUE_SIZE \in Idx
    /\ RxHeads \subseteq Int
    /\ \A h \in RxHeads : /\ h \in Ids /\ h + 1 \in Ids
                          /\ h \in RxAddrs /\ h + 1 \in RxAddrs
                          /\ (h + 1) % QSize = h + 1
  <1>1. /\ RX_QUEUE_SIZE \in Nat /\ RX_QUEUE_SIZE > 0 /\ RX_QUEUE_SIZE <= QSize
        /\ RX_QUEUE_SIZE \in Idx
    BY RxFits, Sizes DEF Idx
  <1>2. ASSUME NEW h \in RxHeads
        PROVE  /\ h \in Ids /\ h + 1 \in Ids /\ h \in Int
               /\ h \in RxAddrs /\ h + 1 \in RxAddrs
               /\ (h + 1) % QSize = h + 1
    <2>1. PICK i \in 0 .. (RX_QUEUE_SIZE - 1) : h = 2 * i
      BY DEF RxHeads
    <2>2. h \in Int /\ 0 <= h /\ h + 1 < 2 * RX_QUEUE_SIZE /\ h + 1 < QSize
      BY <1>1, <2>1, RxFits, Sizes
    <2>3. (h + 1) % QSize = h + 1
      BY <2>2, Sizes
    <2> QED
      BY <1>1, <2>2, <2>3, Sizes DEF Ids, RxAddrs
  <1> QED
    BY <1>1, <1>2

\* A lap of the index leads to the same transmit descriptors.
LEMMA SlotLap ==
    ASSUME NEW x \in Int
    PROVE  TxId(x + IdxMod) = TxId(x)
  <1> DEFINE q == IdxMod \div QSize
             m == 2 * IdxMod
             z == 2 * x
             none == 0
  <1>1. q \in Int /\ IdxMod = q * QSize
    BY Sizes, DivMod
  <1>2. m \in Int /\ z \in Int /\ none \in Int /\ (x + IdxMod) * 2 = m + z /\ x * 2 = none + z
    BY Sizes
  <1>3. m % QSize = none
    <2> DEFINE p == 2 * q
    <2> HIDE DEF q
    <2>1. m = p * QSize + none
      BY <1>1, Sizes
    <2>2. p \in Int /\ none \in 0 .. (QSize - 1)
      BY <1>1, Sizes
    <2> HIDE DEF p, none, m
    <2>3. (p * QSize + none) % QSize = none
      BY <2>2, Sizes, ModUnique
    <2> QED
      BY <2>1, <2>3
  <1>4. none % QSize = none
    BY Sizes
  <1> HIDE DEF m, z, none
  <1>5. m % QSize = none % QSize
    BY <1>3, <1>4
  <1>6. (m + z) % QSize = (none + z) % QSize
    BY <1>2, <1>5, Sizes, ModShift
  <1> QED
    BY <1>2, <1>6 DEF TxId

\* Counting on from an index that wraps.
LEMMA SlotAfter ==
    ASSUME NEW a \in Idx, NEW k \in Int
    PROVE  TxId(((a + 1) % IdxMod) + k) = TxId(a + 1 + k)
  <1>1. (a + 1) % IdxMod = IF a + 1 = IdxMod THEN 0 ELSE a + 1
    BY Following
  <1>2. CASE a + 1 = IdxMod
    <2>1. a + 1 + k = k + IdxMod /\ 0 + k = k
      BY <1>2, Sizes
    <2>2. TxId(k + IdxMod) = TxId(k)
      BY SlotLap
    <2> QED
      BY <1>1, <1>2, <2>1, <2>2
  <1>3. CASE a + 1 # IdxMod
    BY <1>1, <1>3
  <1> QED
    BY <1>2, <1>3

\* The descriptors of an index are those counted from another one.
LEMMA SlotOf ==
    ASSUME NEW a \in Idx, NEW b \in Idx
    PROVE  TxId(b) = TxId(a + Behind(a, b))
  <1>1. a \in Int /\ b \in Int
    BY Sizes DEF Idx
  <1>2. Behind(a, b) = IF b >= a THEN b - a ELSE (b - a) + IdxMod
    BY BehindIs
  <1>3. CASE b >= a
    <2>1. a + Behind(a, b) = b
      BY <1>1, <1>2, <1>3
    <2> QED
      BY <2>1
  <1>4. CASE b < a
    <2>1. a + Behind(a, b) = b + IdxMod
      BY <1>1, <1>2, <1>4, Sizes
    <2> QED
      BY <1>1, <2>1, SlotLap
  <1> QED
    BY <1>1, <1>3, <1>4

\* A chain has an even head and stays inside the queue.
LEMMA SlotEven ==
    ASSUME NEW x \in Int
    PROVE  /\ TxId(x) \in Ids /\ TxId(x) + 1 \in Ids /\ TxId(x) \in Nat
           /\ TxId(x) % 2 = 0
  <1> DEFINE y == x * 2
             i == y % QSize
  <1>1. y \in Int /\ y % 2 = 0
    OBVIOUS
  <1> HIDE DEF y
  <1>2. i % 2 = y % 2
    <2> DEFINE two == 2
    <2>1. two \in Nat \ {0} /\ QSize % two = 0
      BY QSizeEven
    <2> HIDE DEF two
    <2>2. (y % QSize) % two = y % two
      BY <1>1, <2>1, Sizes, ModMod
    <2> QED
      BY <2>2 DEF two
  <1>3. i \in Ids
    BY <1>1, PositionType
  <1>4. TxId(x) = i
    BY DEF TxId, y
  <1> HIDE DEF i
  <1>5. i \in Nat /\ i < QSize /\ i + 1 # QSize
    BY <1>1, <1>2, <1>3, Sizes, QSizeEven DEF Ids
  <1> QED
    BY <1>1, <1>2, <1>3, <1>4, <1>5, Sizes DEF Ids

\* Chains less than half a ring apart share no descriptor.
LEMMA SlotsApart ==
    ASSUME NEW x \in Int, NEW y \in Int, x < y, 2 * (y - x) < QSize
    PROVE  /\ TxId(x) # TxId(y)
           /\ TxId(x) + 1 # TxId(y) /\ TxId(x) # TxId(y) + 1
           /\ TxId(x) + 1 # TxId(y) + 1
  <1> DEFINE u == x * 2
             v == y * 2
             i == TxId(x)
             j == TxId(y)
  <1>1. u \in Int /\ v \in Int /\ u < v /\ v - u < QSize
    BY Sizes
  <1>2. i = u % QSize /\ j = v % QSize
    BY DEF TxId
  <1>3. i \in Nat /\ j \in Nat /\ i % 2 = 0 /\ j % 2 = 0
    BY SlotEven
  <1> HIDE DEF u, v, i, j
  <1>4. i # j
    BY <1>1, <1>2, Sizes, ModDistinct
  <1>5. i + 1 # j /\ i # j + 1 /\ i + 1 # j + 1
    BY <1>3, <1>4
  <1> QED
    BY <1>4, <1>5 DEF i, j

-----------------------------------------------------------------------------
(* The receive queue virtionet_init prepares; what idle steps keep. *)

\* The device owns every receive chain, and every chain is linked.
LEMMA RxRingRight ==
    /\ RxRing \in Vq(RxAddrs, RxLens)
    /\ OwnedOnce(RxRing, 0, RxHeads, RX_QUEUE_SIZE)
    /\ Len(UnreadUsed(RxRing, 0)) = 0
    /\ \A h \in RxHeads : RxRing.desc[h].next = h + 1 /\ RxRing.desc[h + 1].addr = h + 1
  <1> DEFINE v == virtio_queue_init_vq(0)
             a == [i \in Ids |-> IF i < RX_QUEUE_SIZE THEN 2 * i ELSE 0]
             A == AvailChains(RxRing)
             U == UnreadUsed(RxRing, 0)
  <1>1. /\ v \in Vq(RxAddrs, RxLens) /\ v.seen = 0 /\ v.used_idx = 0
        /\ 0 \in Idx /\ Behind(0, 0) = 0
    <2>1. 0 \in RxLens
      BY DEF RxLens
    <2> QED
      BY <2>1, InitFields
  <1> HIDE DEF v
  <1>2. RxDesc \in [Ids -> Desc(RxAddrs)]
    <2> DEFINE d(id) == IF id \in RxAddrs
                        THEN [addr |-> id, len |-> 1, next |-> IF id % 2 = 0 THEN id + 1 ELSE -1]
                        ELSE NoDesc
    <2> SUFFICES ASSUME NEW id \in Ids PROVE d(id) \in Desc(RxAddrs)
      BY DEF RxDesc
    <2>1. CASE id \in RxAddrs /\ id % 2 = 0
      <3>1. id + 1 \in Ids
        BY <2>1, RxFits, Sizes, QSizeEven DEF Ids, RxAddrs
      <3> QED
        BY <2>1, <3>1 DEF Desc
    <2>2. CASE ~(id \in RxAddrs /\ id % 2 = 0)
      BY <2>2 DEF Desc, NoDesc
    <2> QED
      BY <2>1, <2>2
  <1>3. a \in [Ids -> Int]
    BY DEF Ids
  <1>4. RxRing = [v EXCEPT !.desc = RxDesc, !.avail = a, !.avail_idx = RX_QUEUE_SIZE]
    BY DEF RxRing, v
  <1>5. ASSUME NEW h \in RxHeads
        PROVE  RxDesc[h].next = h + 1 /\ RxDesc[h + 1].addr = h + 1
    <2>1. PICK i \in 0 .. (RX_QUEUE_SIZE - 1) : h = 2 * i
      BY DEF RxHeads
    <2>2. h % 2 = 0
      BY <2>1
    <2> QED
      BY <2>2, HeadsFit DEF RxDesc
  <1>6. \A i \in 0 .. (RX_QUEUE_SIZE - 1) : a[i] = 2 * i
    BY HeadsFit, Sizes DEF Ids
  <1> HIDE DEF a
  <1>7. /\ RxRing \in Vq(RxAddrs, RxLens) /\ RxRing.desc = RxDesc /\ RxRing.avail = a
        /\ RxRing.avail_idx = RX_QUEUE_SIZE /\ RxRing.used_idx = 0 /\ RxRing.seen = 0
    BY <1>1, <1>2, <1>3, <1>4, HeadsFit DEF Vq
  <1>8. Behind(0, RX_QUEUE_SIZE) = RX_QUEUE_SIZE
    BY <1>1, HeadsFit, BehindIs
  <1>9. Len(A) = RX_QUEUE_SIZE /\ \A k \in 1 .. RX_QUEUE_SIZE : A[k] = a[(0 + k - 1) % QSize]
    BY <1>1, <1>7, <1>8, HeadsFit, AvailIs
  <1>10. Len(U) = 0
    BY <1>1, <1>7, UnreadIs
  <1>11. \A k \in 1 .. RX_QUEUE_SIZE : A[k] = 2 * (k - 1) /\ k - 1 \in 0 .. (RX_QUEUE_SIZE - 1)
    <2> SUFFICES ASSUME NEW k \in 1 .. RX_QUEUE_SIZE
                 PROVE  A[k] = 2 * (k - 1) /\ k - 1 \in 0 .. (RX_QUEUE_SIZE - 1)
      OBVIOUS
    <2>1. k - 1 \in 0 .. (RX_QUEUE_SIZE - 1) /\ (0 + k - 1) = k - 1
      BY HeadsFit
    <2>2. (k - 1) % QSize = k - 1
      BY <2>1, Sizes, HeadsFit
    <2> QED
      BY <2>1, <2>2, <1>6, <1>9
  <1> HIDE DEF A, U
  <1>12. ASSUME NEW h \in RxHeads PROVE \E k \in 1 .. Len(A) : A[k] = h
    <2>1. PICK i \in 0 .. (RX_QUEUE_SIZE - 1) : h = 2 * i
      BY DEF RxHeads
    <2>2. i + 1 \in 1 .. RX_QUEUE_SIZE /\ (i + 1) - 1 = i
      BY HeadsFit
    <2> QED
      BY <2>1, <2>2, <1>9, <1>11
  <1>13. /\ Len(A) + Len(U) = RX_QUEUE_SIZE
         /\ \A j \in 1 .. Len(A), k \in 1 .. Len(A) : A[j] = A[k] => j = k
         /\ \A k \in 1 .. Len(U) : FALSE
    BY <1>9, <1>10, <1>11, HeadsFit
  <1>14. \A k \in 1 .. Len(A) : A[k] \in RxHeads
    BY <1>9, <1>11 DEF RxHeads
  <1>15. OwnedOnce(RxRing, 0, RxHeads, RX_QUEUE_SIZE)
    BY <1>12, <1>13, <1>14 DEF OwnedOnce, A, U
  <1> QED
    BY <1>5, <1>7, <1>10, <1>15 DEF U

\* A step that leaves the receive side alone keeps what is said of it.
LEMMA RxKept ==
    ASSUME RxInv, RxFifo, rings' => rings, UNCHANGED <<rx, mem, last_rx_idx, wire>>
    PROVE  RxInv' /\ RxFifo'
  <1>1. RxInv'
    BY DEF RxInv
  <1>2. RxFifo'
    BY DEF RxFifo, Received
  <1> QED
    BY <1>1, <1>2

\* A step that leaves the transmit queue alone keeps what is said of it.
LEMMA TxKept ==
    ASSUME TxInv, rings' => rings, UNCHANGED <<tx, txq>>
    PROVE  TxInv'
  BY DEF TxInv, TxId

\* A step that leaves the transmit descriptors and their mappings alone keeps what is
\* said of them.
LEMMA DmaKept ==
    ASSUME GpasInv, DmaBalanced, tx'.desc = tx.desc, UNCHANGED <<host, rings, gpas, txmaps>>
    PROVE  GpasInv' /\ DmaBalanced'
  BY DEF GpasInv, DmaBalanced, Iommu

LEMMA InitRight ==
    ASSUME Init
    PROVE  IndInv
  <1>1. /\ virtio_queue_init_vq(0) \in Vq(RxAddrs, RxLens)
        /\ virtio_queue_init_vq(0) \in Vq(TxBufs \cup {0}, {0})
        /\ 0 \in Idx
    <2>1. 0 \in RxLens /\ 0 \in {0}
      BY DEF RxLens
    <2> QED
      BY <2>1, InitFields
  <1>2. TypeOK
    <2>1. rings \in BOOLEAN
      BY DEF Init
    <2>2. mem \in [RxAddrs -> Packets \cup {NoPacket}] /\ txmaps \in [Ids -> Int]
      BY DEF Init
    <2> QED
      BY <1>1, <2>1, <2>2 DEF Init, TypeOK
  <1>3. ~rings
    BY DEF Init
  <1>4. HistoryOK /\ LifeInv /\ GpasInv
    BY <1>3 DEF Init, HistoryOK, LifeInv, GpasInv, DeviceActive
  <1>5. RxInv /\ RxFifo /\ TxInv
    BY <1>3 DEF RxInv, RxFifo, TxInv
  <1>6. DmaBalanced
    BY <1>3 DEF Init, DmaBalanced
  <1> QED
    BY <1>2, <1>4, <1>5, <1>6 DEF IndInv

-----------------------------------------------------------------------------
(* One lemma per operation. *)

\* A failed open, an empty read and the first two steps of virtionet_close move
\* neither the queues nor the mappings.
LEMMA IdleStepsRight ==
    ASSUME IndInv, OpenFails \/ ReadNothing \/ Quiesce \/ Reset
    PROVE  IndInv'
  <1> USE DEF IndInv
  <1>1. /\ UNCHANGED <<host, rings, rx, tx, mem, last_rx_idx, txmaps, gpas, wire, txq>>
        /\ \/ UNCHANGED <<status, pc>>
           \/ UNCHANGED pc /\ ~DeviceActive'
           \/ pc = "open" /\ pc' = "quiesced" /\ ~DeviceActive'
           \/ pc = "quiesced" /\ pc' = "reset" /\ ~DeviceActive'
    BY DEF OpenFails, ReadNothing, Quiesce, Reset, DeviceActive
  <1>2. TypeOK'
    <2>1. status' \subseteq {"ACKNOWLEDGE", "DRIVER", "FEATURES_OK", "DRIVER_OK", "FAILED"}
      BY DEF OpenFails, ReadNothing, Quiesce, Reset, TypeOK
    <2>2. pc' \in {"closed", "open", "quiesced", "reset"}
      BY <1>1 DEF TypeOK
    <2> QED
      BY <1>1, <2>1, <2>2 DEF TypeOK
  <1>3. HistoryOK' /\ LifeInv'
    BY <1>1 DEF HistoryOK, LifeInv, DeviceActive
  <1>4. RxInv' /\ RxFifo'
    BY <1>1, RxKept
  <1>5. TxInv'
    BY <1>1, TxKept
  <1>6. GpasInv' /\ DmaBalanced'
    BY <1>1, DmaKept
  <1> QED
    BY <1>2, <1>3, <1>4, <1>5, <1>6

\* virtionet_open publishes every receive chain; the transmit queue is empty and no
\* descriptor is mapped, whatever desc_gpas holds.
LEMMA OpenRight ==
    ASSUME IndInv, Open
    PROVE  IndInv'
  <1> USE DEF IndInv
  <1> DEFINE v == virtio_queue_init_vq(0)
  <1>1. /\ pc = "closed" /\ pc' = "open" /\ rings' = TRUE /\ ~rings
        /\ rx' = RxRing /\ tx' = v /\ last_rx_idx' = 0
        /\ UNCHANGED <<host, mem, txmaps, got, wire, txq>>
        /\ wire = <<>> /\ txq = <<>>
    BY DEF Open, LifeInv
  <1>2. /\ v \in Vq(TxBufs \cup {0}, {0}) /\ v.seen = 0 /\ v.avail_idx = 0
        /\ 0 \in Idx /\ Behind(0, 0) = 0
        /\ \A i \in Ids : v.desc[i] = NoDesc
    BY InitFields
  <1> HIDE DEF v
  <1>3. gpas' \subseteq Ids /\ (~Iommu => gpas' = {})
    BY DEF Open
  <1>4. TypeOK'
    <2>1. status' \subseteq {"ACKNOWLEDGE", "DRIVER", "FEATURES_OK", "DRIVER_OK", "FAILED"}
      BY DEF Open
    <2>2. rings' \in BOOLEAN
      BY <1>1
    <2> QED
      BY <1>1, <1>2, <1>3, <2>1, <2>2, RxRingRight DEF TypeOK
  <1>5. HistoryOK' /\ LifeInv'
    BY <1>1 DEF HistoryOK, LifeInv
  <1>6. RxInv'
    BY <1>1, RxRingRight DEF RxInv
  <1>7. RxFifo'
    BY <1>1, RxRingRight DEF RxFifo
  <1>8. TxInv'
    BY <1>1, <1>2, TxLagAssumption DEF TxInv
  <1>9. GpasInv' /\ DmaBalanced'
    <2>1. \A i \in Ids : tx'.desc[i].addr = NoBuf
      BY <1>1, <1>2 DEF NoDesc
    <2>2. \A i \in Ids : txmaps[i] = 0
      BY <1>1 DEF DmaBalanced
    <2>3. Iommu' <=> Iommu
      BY <1>1 DEF Iommu
    <2> QED
      BY <1>1, <1>3, <2>1, <2>2, <2>3 DEF GpasInv, DmaBalanced
  <1> QED
    BY <1>4, <1>5, <1>6, <1>7, <1>8, <1>9

\* virtionet_close unmaps every descriptor that was filled.
LEMMA TerminateRight ==
    ASSUME IndInv, Terminate
    PROVE  IndInv'
  <1> USE DEF IndInv
  <1>1. /\ pc = "reset" /\ pc' = "closed" /\ rings /\ rings' = FALSE
        /\ wire' = <<>> /\ txq' = <<>> /\ gpas' = {} /\ last_rx_idx' = 0
        /\ rx' = virtio_queue_init_vq(0) /\ tx' = virtio_queue_init_vq(0)
        /\ txmaps' = Unmap(txmaps, Ids) /\ UNCHANGED <<host, status>>
    BY DEF Terminate, LifeInv
  <1>2. /\ virtio_queue_init_vq(0) \in Vq(RxAddrs, RxLens)
        /\ virtio_queue_init_vq(0) \in Vq(TxBufs \cup {0}, {0})
        /\ 0 \in Idx
    <2>1. 0 \in RxLens /\ 0 \in {0}
      BY DEF RxLens
    <2> QED
      BY <2>1, InitFields
  <1>3. \A id \in Ids : txmaps'[id] = 0
    <2> SUFFICES ASSUME NEW id \in Ids PROVE txmaps'[id] = 0
      OBVIOUS
    <2>1. txmaps'[id] = IF id \in Ids \cap gpas /\ tx.desc[id].addr # NoBuf
                        THEN txmaps[id] - 1 ELSE txmaps[id]
      BY <1>1 DEF Unmap
    <2>2. txmaps[id] = IF Iommu /\ tx.desc[id].addr # NoBuf THEN 1 ELSE 0
      BY <1>1 DEF DmaBalanced
    <2>3. CASE Iommu /\ tx.desc[id].addr # NoBuf
      BY <1>1, <2>1, <2>2, <2>3 DEF GpasInv
    <2>4. CASE ~(Iommu /\ tx.desc[id].addr # NoBuf)
      BY <2>1, <2>2, <2>4 DEF GpasInv
    <2> QED
      BY <2>3, <2>4
  <1>4. TypeOK'
    <2>1. mem' \in [RxAddrs -> Packets \cup {NoPacket}]
      BY DEF Terminate
    <2>2. txmaps' \in [Ids -> Int]
      BY <1>1, <1>3 DEF Unmap
    <2>3. rings' \in BOOLEAN
      BY <1>1
    <2> QED
      BY <1>1, <1>2, <2>1, <2>2, <2>3 DEF TypeOK
  <1>5. HistoryOK' /\ LifeInv'
    BY <1>1 DEF HistoryOK, LifeInv, DeviceActive
  <1>6. RxInv' /\ RxFifo' /\ TxInv'
    BY <1>1 DEF RxInv, RxFifo, TxInv
  <1>7. GpasInv' /\ DmaBalanced'
    BY <1>1, <1>3 DEF GpasInv, DmaBalanced
  <1> QED
    BY <1>4, <1>5, <1>6, <1>7

\* A frame arrives: it is written to a data buffer no unread entry stands for.
LEMMA DeviceReceivesRight ==
    ASSUME IndInv, DeviceReceives
    PROVE  IndInv'
  <1> USE DEF IndInv
  <1> DEFINE h == HeadChain(rx)
             U == UnreadUsed(rx, last_rx_idx)
  <1>1. /\ rings /\ HasChain(rx)
        /\ rx \in Vq(RxAddrs, RxLens) /\ last_rx_idx \in Idx /\ rx.used_idx \in Idx
        /\ wire \in Seq(Packets) /\ mem \in [RxAddrs -> Packets \cup {NoPacket}]
    BY DEF DeviceReceives, LifeInv, TypeOK, HistoryOK, Vq
  <1>2. UNCHANGED <<host, status, pc, rings, tx, last_rx_idx, txmaps, gpas, got, txq>>
    BY DEF DeviceReceives
  <1>3. PICK p \in Packets :
            /\ mem' = [mem EXCEPT ![rx.desc[rx.desc[h].next].addr] = p]
            /\ rx' = Complete(rx, h, p.len + net_hdr_size)
            /\ wire' = Append(wire, p)
    BY DEF DeviceReceives
  <1> DEFINE len == p.len + net_hdr_size
             w == Complete(rx, h, len)
             V == UnreadUsed(w, last_rx_idx)
  <1>4. len \in RxLens
    BY DEF RxLens
  <1> HIDE DEF len
  <1>5. /\ OwnedOnce(rx, last_rx_idx, RxHeads, RX_QUEUE_SIZE)
        /\ \A e \in RxHeads : rx.desc[e].next = e + 1 /\ rx.desc[e + 1].addr = e + 1
    BY <1>1 DEF RxInv
  <1>6. /\ h \in RxHeads
        /\ OwnedOnce(w, last_rx_idx, RxHeads, RX_QUEUE_SIZE)
        /\ \A k \in 1 .. Len(U) : U[k].id # h
        /\ Behind(last_rx_idx, rx.used_idx) < QSize
    BY <1>1, <1>4, <1>5, HeadsFit, CompleteKeepsOwners
  <1>7. h \in Int /\ h + 1 \in RxAddrs /\ rx.desc[rx.desc[h].next].addr = h + 1
    BY <1>5, <1>6, HeadsFit
  <1> HIDE DEF h
  <1>8. /\ Len(V) = Len(U) + 1
        /\ V[Len(U) + 1] = [id |-> h, len |-> len]
        /\ \A k \in 1 .. Len(U) : V[k] = U[k]
    BY <1>1, <1>4, <1>6, <1>7, CompleteAppends
  <1>9. w \in Vq(RxAddrs, RxLens) /\ w.desc = rx.desc
    BY <1>1, <1>4, <1>7, CompleteFields
  <1>10. rx' = w
    BY <1>3 DEF len
  <1> HIDE DEF w, U, V
  <1>11. RxInv'
    BY <1>1, <1>2, <1>5, <1>6, <1>9, <1>10 DEF RxInv
  <1>12. /\ Len(U) = Len(wire)
         /\ \A k \in 1 .. Len(wire) :
               /\ U[k].id \in RxHeads
               /\ mem[U[k].id + 1] = wire[k]
               /\ U[k].len = wire[k].len + net_hdr_size
    <2>1. /\ Len(U) = Len(wire)
          /\ \A k \in 1 .. Len(wire) : /\ Received(U[k]) = wire[k]
                                       /\ U[k].len = wire[k].len + net_hdr_size
      BY <1>1 DEF RxFifo, U
    <2>2. \A k \in 1 .. Len(U) : U[k].id \in RxHeads
      BY <1>5 DEF OwnedOnce, U
    <2> QED
      BY <1>5, <2>1, <2>2, HeadsFit DEF Received
  <1>13. wire' \in Seq(Packets) /\ Len(wire') = Len(wire) + 1
         /\ wire'[Len(wire) + 1] = p /\ \A k \in 1 .. Len(wire) : wire'[k] = wire[k]
    BY <1>1, <1>3
  <1>14. ASSUME NEW k \in 1 .. Len(wire')
         PROVE  /\ mem'[rx'.desc[(V[k].id + 1) % QSize].addr] = wire'[k]
                /\ V[k].len = wire'[k].len + net_hdr_size
    <2>1. CASE k \in 1 .. Len(wire)
      <3>1. V[k] = U[k] /\ U[k].id \in RxHeads /\ U[k].id # h /\ U[k].id \in Int
        BY <2>1, <1>6, <1>8, <1>12, HeadsFit
      <3>2. mem'[U[k].id + 1] = mem[U[k].id + 1]
        BY <3>1, <1>1, <1>3, <1>7, HeadsFit
      <3>3. rx'.desc[(U[k].id + 1) % QSize].addr = U[k].id + 1
        BY <3>1, <1>5, <1>9, <1>10, HeadsFit
      <3> QED
        BY <2>1, <3>1, <3>2, <3>3, <1>12, <1>13
    <2>2. CASE k = Len(wire) + 1
      <3>1. V[k].id = h /\ V[k].len = p.len + net_hdr_size
        BY <2>2, <1>8, <1>12 DEF len
      <3>2. mem'[h + 1] = p
        BY <1>1, <1>3, <1>7
      <3>3. rx'.desc[(h + 1) % QSize].addr = h + 1
        BY <1>5, <1>6, <1>9, <1>10, HeadsFit
      <3> QED
        BY <2>2, <3>1, <3>2, <3>3, <1>13
    <2> QED
      BY <2>1, <2>2, <1>13
  <1>15. RxFifo'
    <2>1. Len(V) = Len(wire')
      BY <1>8, <1>12, <1>13
    <2>2. V = UnreadUsed(rx', last_rx_idx')
      BY <1>2, <1>10 DEF V
    <2> QED
      BY <1>14, <2>1, <2>2 DEF RxFifo, Received
  <1>16. TypeOK'
    <2>1. mem' \in [RxAddrs -> Packets \cup {NoPacket}]
      BY <1>1, <1>3, <1>7
    <2> QED
      BY <1>2, <1>9, <1>10, <2>1 DEF TypeOK
  <1>17. HistoryOK' /\ LifeInv'
    BY <1>1, <1>2, <1>13 DEF HistoryOK, LifeInv, DeviceActive
  <1>18. TxInv'
    BY <1>2, TxKept
  <1>19. GpasInv' /\ DmaBalanced'
    BY <1>2, DmaKept
  <1> QED
    BY <1>11, <1>15, <1>16, <1>17, <1>18, <1>19

\* virtionet_read: the oldest frame is returned and its chain goes back to the device.
LEMMA ReadRight ==
    ASSUME IndInv, Read
    PROVE  IndInv'
  <1> USE DEF IndInv
  <1> DEFINE e == rx.used[last_rx_idx % QSize].id
             w == Publish(rx, e)
             next == (last_rx_idx + 1) % IdxMod
             U == UnreadUsed(rx, last_rx_idx)
             V == UnreadUsed(w, next)
  <1>1. /\ rings /\ last_rx_idx # rx.used_idx /\ pc = "open"
        /\ rx \in Vq(RxAddrs, RxLens) /\ last_rx_idx \in Idx
        /\ wire \in Seq(Packets)
    BY DEF Read, LifeInv, TypeOK, HistoryOK
  <1>2. /\ UNCHANGED <<host, status, pc, rings, tx, mem, txmaps, gpas, txq>>
        /\ last_rx_idx' = next /\ wire' = Tail(wire)
        /\ rx' = Publish(rx, ((e + 1) % QSize) - 1)
    BY DEF Read, virtionet_receive, UsedEntry, NextIdx, RepublishedChain
  <1>3. /\ OwnedOnce(rx, last_rx_idx, RxHeads, RX_QUEUE_SIZE)
        /\ \A h \in RxHeads : rx.desc[h].next = h + 1 /\ rx.desc[h + 1].addr = h + 1
    BY <1>1 DEF RxInv
  <1>4. e \in RxHeads /\ OwnedOnce(w, next, RxHeads, RX_QUEUE_SIZE)
    BY <1>1, <1>3, HeadsFit, RecycleKeepsOwners
  <1>5. e \in Int
    BY <1>4, HeadsFit
  <1>6. rx' = w
    <2>1. (e + 1) % QSize = e + 1
      BY <1>4, HeadsFit
    <2> HIDE DEF e
    <2>2. ((e + 1) % QSize) - 1 = e
      BY <1>5, <2>1
    <2> QED
      BY <1>2, <2>2
  <1>7. next \in Idx
    BY <1>1, Following
  <1>8. U[1].id = e /\ Len(U) > 0 /\ Len(V) = Len(U) - 1 /\ \A k \in 1 .. Len(V) : V[k] = U[k + 1]
    <2>1. V = UnreadUsed(rx, next)
      <3> HIDE DEF e, next
      <3> QED
        BY <1>1, <1>5, PublishKeepsUnread
    <2> QED
      BY <1>1, <2>1, AdvanceDrops
  <1>9. w \in Vq(RxAddrs, RxLens) /\ w.desc = rx.desc
    <2> HIDE DEF e
    <2> QED
      BY <1>1, <1>5, PublishFields
  <1> HIDE DEF e, w, next, U, V
  <1>10. RxInv'
    BY <1>1, <1>2, <1>3, <1>4, <1>6, <1>9 DEF RxInv
  <1>11. /\ Len(U) = Len(wire)
         /\ \A k \in 1 .. Len(wire) : /\ mem[rx.desc[(U[k].id + 1) % QSize].addr] = wire[k]
                                      /\ U[k].len = wire[k].len + net_hdr_size
    BY <1>1 DEF RxFifo, Received, U
  <1>12. /\ Len(wire) > 0 /\ wire' \in Seq(Packets) /\ Len(wire') = Len(wire) - 1
         /\ \A k \in 1 .. Len(wire') : wire'[k] = wire[k + 1] /\ k + 1 \in 1 .. Len(wire)
    BY <1>1, <1>2, <1>8, <1>11
  <1>13. RxFifo'
    <2>1. Len(V) = Len(wire')
      BY <1>8, <1>11, <1>12
    <2>2. ASSUME NEW k \in 1 .. Len(wire')
          PROVE  /\ mem'[rx'.desc[(V[k].id + 1) % QSize].addr] = wire'[k]
                 /\ V[k].len = wire'[k].len + net_hdr_size
      <3>1. V[k] = U[k + 1] /\ k + 1 \in 1 .. Len(wire) /\ wire'[k] = wire[k + 1]
        BY <1>8, <1>12, <2>1
      <3> QED
        BY <1>2, <1>6, <1>9, <1>11, <3>1
    <2>3. V = UnreadUsed(rx', last_rx_idx')
      BY <1>2, <1>6 DEF V
    <2> QED
      BY <2>1, <2>2, <2>3 DEF RxFifo, Received
  <1>14. TypeOK'
    BY <1>2, <1>6, <1>7, <1>9 DEF TypeOK
  <1>15. HistoryOK' /\ LifeInv'
    BY <1>1, <1>2, <1>12 DEF HistoryOK, LifeInv, DeviceActive
  <1>16. TxInv'
    BY <1>2, TxKept
  <1>17. GpasInv' /\ DmaBalanced'
    BY <1>2, DmaKept
  <1> QED
    BY <1>10, <1>13, <1>14, <1>15, <1>16, <1>17

\* The two descriptors of a chain, filled one after the other.
LEMMA FillChain ==
    ASSUME NEW B, NEW L, NEW vq \in Vq(B, L), NEW id \in Nat, id \in Ids, id + 1 \in Ids,
           0 \in B, NEW buf \in B
    PROVE  LET g == virtio_fill_desc(virtio_fill_desc(vq, id, 0, 1, id + 1), id + 1, buf, 1, -1)
           IN  /\ g \in Vq(B, L)
               /\ g.avail = vq.avail /\ g.avail_idx = vq.avail_idx /\ g.seen = vq.seen
               /\ g.desc[id] = [addr |-> 0, len |-> 1, next |-> id + 1]
               /\ g.desc[id + 1] = [addr |-> buf, len |-> 1, next |-> -1]
               /\ \A i \in Ids : (i # id /\ i # id + 1) => g.desc[i] = vq.desc[i]
  <1> DEFINE j == id + 1
             hdr == [addr |-> 0, len |-> 1, next |-> j]
             data == [addr |-> buf, len |-> 1, next |-> -1]
             f == virtio_fill_desc(vq, id, 0, 1, j)
             g == virtio_fill_desc(f, j, buf, 1, -1)
  <1>1. j \in Int /\ j # -1 /\ j # id /\ id % QSize = id /\ j % QSize = j /\ j \in Ids
    BY Sizes DEF Ids
  <1> HIDE DEF j
  <1>2. hdr \in Desc(B) /\ data \in Desc(B)
    BY <1>1 DEF Desc
  <1>3. f = [vq EXCEPT !.desc[id] = hdr]
    BY <1>1 DEF virtio_fill_desc
  <1>4. g = [f EXCEPT !.desc[j] = data]
    BY <1>1 DEF virtio_fill_desc
  <1> HIDE DEF hdr, data, f, g
  <1>5. /\ f \in Vq(B, L) /\ f.desc[id] = hdr
        /\ f.avail = vq.avail /\ f.avail_idx = vq.avail_idx /\ f.seen = vq.seen
        /\ \A i \in Ids : i # id => f.desc[i] = vq.desc[i]
    BY <1>2, <1>3 DEF Vq
  <1>6. /\ g \in Vq(B, L) /\ g.desc[j] = data
        /\ g.avail = f.avail /\ g.avail_idx = f.avail_idx /\ g.seen = f.seen
        /\ \A i \in Ids : i # j => g.desc[i] = f.desc[i]
    BY <1>1, <1>2, <1>4, <1>5 DEF Vq
  <1>7. /\ g.avail = vq.avail /\ g.avail_idx = vq.avail_idx /\ g.seen = vq.seen
        /\ g.desc[id] = hdr
        /\ \A i \in Ids : (i # id /\ i # j) => g.desc[i] = vq.desc[i]
    BY <1>1, <1>5, <1>6
  <1> QED
    BY <1>6, <1>7 DEF g, f, hdr, data, j

\* virtionet_write: the chain takes two descriptors that no waiting chain uses, and
\* what these had mapped is released before they are mapped again.
LEMMA WriteRight ==
    ASSUME IndInv, Write
    PROVE  IndInv'
  <1> USE DEF IndInv
  <1> DEFINE B == TxBufs \cup {0}
             L == {0}
             id == TxId(tx.avail_idx)
             both == {id, id + 1}
             f == virtio_fill_desc(tx, id, 0, 1, id + 1)
             n == Len(txq)
             A == AvailChains(tx)
  <1>1. /\ rings /\ pc = "open"
        /\ tx \in Vq(B, L) /\ tx.avail_idx \in Idx /\ tx.seen \in Idx /\ tx.seen \in Int
        /\ txq \in Seq(TxBufs) /\ n \in Nat
        /\ UNCHANGED <<host, status, pc, rings, rx, mem, last_rx_idx, got, wire>>
        /\ gpas' = IF Iommu THEN gpas \cup both ELSE gpas
        /\ txmaps' = MapIn(Unmap(txmaps, both), both)
    <2>1. /\ pc = "open" /\ gpas' = IF Iommu THEN gpas \cup both ELSE gpas
          /\ txmaps' = MapIn(Unmap(txmaps, both), both)
          /\ UNCHANGED <<host, status, pc, rings, rx, mem, last_rx_idx, got, wire>>
      BY DEF Write, ReleaseOld
    <2>2. rings /\ tx \in Vq(B, L) /\ txq \in Seq(TxBufs) /\ n \in Nat
      BY <2>1 DEF LifeInv, TypeOK, HistoryOK
    <2>3. tx.avail_idx \in Idx /\ tx.seen \in Idx /\ tx.seen \in Int
      BY <2>2 DEF Vq, Idx
    <2> QED
      BY <2>1, <2>2, <2>3
  <1>2. PICK buf \in TxBufs : tx' = Publish(virtio_fill_desc(f, id + 1, buf, 1, -1), id)
                              /\ txq' = Append(txq, buf)
    BY DEF Write
  <1> DEFINE g == virtio_fill_desc(f, id + 1, buf, 1, -1)
             w == Publish(g, id)
             C == AvailChains(w)
  <1>3. /\ n = Behind(tx.seen, tx.avail_idx) /\ n < TxLag
        /\ \A k \in 1 .. n : /\ A[k] = TxId(tx.seen + k - 1)
                             /\ tx.desc[TxId(tx.seen + k - 1)].addr = 0
                             /\ tx.desc[TxId(tx.seen + k - 1)].next = TxId(tx.seen + k - 1) + 1
                             /\ tx.desc[TxId(tx.seen + k - 1) + 1].addr = txq[k]
    BY <1>1 DEF Write, TxInv
  <1>4. id = TxId(tx.seen + n)
    BY <1>1, <1>3, SlotOf
  <1> HIDE DEF id
  <1>5. id \in Ids /\ id + 1 \in Ids /\ id \in Nat /\ id \in Int /\ id + 1 \in Int /\ id # id + 1
    <2> DEFINE x == tx.seen + n
    <2>1. x \in Int /\ id = TxId(x)
      BY <1>1, <1>4
    <2> HIDE DEF x
    <2>2. id \in Ids /\ id + 1 \in Ids /\ id \in Nat
      BY <2>1, SlotEven
    <2> QED
      BY <2>2
  <1>7. /\ 0 \in B /\ 0 \in L /\ buf \in B /\ buf \in Nat /\ buf # NoBuf
    BY TxBufsAssumption DEF NoBuf
  <1> HIDE DEF B, L
  <1>10. /\ g \in Vq(B, L)
         /\ g.avail = tx.avail /\ g.avail_idx = tx.avail_idx /\ g.seen = tx.seen
         /\ g.desc[id] = [addr |-> 0, len |-> 1, next |-> id + 1]
         /\ g.desc[id + 1] = [addr |-> buf, len |-> 1, next |-> -1]
         /\ \A i \in Ids : (i # id /\ i # id + 1) => g.desc[i] = tx.desc[i]
    BY <1>1, <1>5, <1>7, FillChain
  <1> HIDE DEF g
  <1>12. /\ w \in Vq(B, L) /\ w.seen = tx.seen /\ w.avail_idx = (tx.avail_idx + 1) % IdxMod
         /\ w.desc = g.desc
    <2>1. /\ w \in Vq(B, L) /\ w.seen = g.seen /\ w.avail_idx = (g.avail_idx + 1) % IdxMod
          /\ w.desc = g.desc
      <3>1. g \in Vq(B, L) /\ id \in Int
        BY <1>5, <1>10
      <3> QED
        BY <3>1, PublishFields
    <2> QED
      BY <1>10, <2>1
  <1>13. AvailChains(g) = A
    BY <1>10 DEF AvailChains
  <1>14. Len(A) = n
    BY <1>1, <1>3, AvailIs
  <1>15. /\ Len(C) = n + 1 /\ C[n + 1] = id
         /\ \A k \in 1 .. n : C[k] = A[k]
    <2>1. Behind(g.seen, g.avail_idx) < QSize
      BY <1>1, <1>3, <1>10, TxLagAssumption, Sizes
    <2>2. LET G == AvailChains(g)
          IN  /\ Len(C) = Len(G) + 1 /\ C[Len(G) + 1] = id
              /\ \A k \in 1 .. Len(G) : C[k] = G[k]
      BY <1>5, <1>10, <2>1, PublishAppends
    <2> HIDE DEF A, C
    <2> QED
      BY <1>13, <1>14, <2>2
  <1>16. Behind(w.seen, w.avail_idx) = n + 1
    <2>1. Behind(tx.seen, tx.avail_idx) + 1 < IdxMod
      BY <1>1, <1>3, TxLagAssumption, Sizes
    <2> QED
      BY <1>1, <1>3, <1>12, <2>1, BehindLonger
  <1>17. tx' = w
    BY <1>2 DEF g
  <1>18. /\ txq' \in Seq(TxBufs) /\ Len(txq') = n + 1 /\ txq'[n + 1] = buf
         /\ \A k \in 1 .. n : txq'[k] = txq[k]
    BY <1>1, <1>2
  <1> HIDE DEF w, C, A, n
  <1>19. w.desc[id] = [addr |-> 0, len |-> 1, next |-> id + 1]
         /\ w.desc[id + 1] = [addr |-> buf, len |-> 1, next |-> -1]
         /\ \A i \in Ids : (i # id /\ i # id + 1) => w.desc[i] = tx.desc[i]
    BY <1>10, <1>12
  <1>20. ASSUME NEW k \in 1 .. Len(txq')
         PROVE  /\ C[k] = TxId(tx.seen + k - 1)
                /\ w.desc[TxId(tx.seen + k - 1)].addr = 0
                /\ w.desc[TxId(tx.seen + k - 1)].next = TxId(tx.seen + k - 1) + 1
                /\ w.desc[TxId(tx.seen + k - 1) + 1].addr = txq'[k]
    <2>1. CASE k = n + 1
      <3>1. tx.seen + k - 1 = tx.seen + n
        BY <1>1, <2>1
      <3> QED
        BY <2>1, <3>1, <1>4, <1>15, <1>18, <1>19
    <2>2. CASE k \in 1 .. n
      <3> DEFINE x == tx.seen + k - 1
                 y == tx.seen + n
      <3>1. x \in Int /\ y \in Int /\ x < y /\ 2 * (y - x) < QSize
        BY <1>1, <1>3, <2>2, TxLagAssumption, Sizes
      <3>2. C[k] = TxId(x) /\ tx.desc[TxId(x)].addr = 0 /\ tx.desc[TxId(x)].next = TxId(x) + 1
            /\ tx.desc[TxId(x) + 1].addr = txq[k] /\ txq'[k] = txq[k]
        BY <2>2, <1>3, <1>15, <1>18
      <3>3. id = TxId(y)
        BY <1>4
      <3> HIDE DEF x, y
      <3>4. TxId(x) \in Ids /\ TxId(x) + 1 \in Ids
        BY <3>1, SlotEven
      <3>5. TxId(x) # id /\ TxId(x) + 1 # id /\ TxId(x) # id + 1 /\ TxId(x) + 1 # id + 1
        BY <3>1, <3>3, SlotsApart
      <3> QED
        BY <3>2, <3>4, <3>5, <1>19 DEF x
    <2> QED
      BY <2>1, <2>2, <1>1, <1>18
  <1>21. TxInv'
    <2>1. Len(txq') = Behind(tx'.seen, tx'.avail_idx) /\ Len(txq') <= TxLag
      BY <1>1, <1>3, <1>16, <1>17, <1>18, TxLagAssumption
    <2>2. \A k \in 1 .. Len(txq') :
             /\ AvailChains(tx')[k] = TxId(tx'.seen + k - 1)
             /\ tx'.desc[TxId(tx'.seen + k - 1)].addr = 0
             /\ tx'.desc[TxId(tx'.seen + k - 1)].next = TxId(tx'.seen + k - 1) + 1
             /\ tx'.desc[TxId(tx'.seen + k - 1) + 1].addr = txq'[k]
      BY <1>12, <1>17, <1>20 DEF C
    <2> QED
      BY <2>1, <2>2 DEF TxInv, TxId
  <1>22. \A i \in Ids : txmaps'[i] =
             LET old == IF i \in both \cap gpas /\ tx.desc[i].addr # NoBuf
                        THEN txmaps[i] - 1 ELSE txmaps[i]
             IN  IF Iommu /\ i \in both THEN old + 1 ELSE old
    BY <1>1 DEF MapIn, Unmap
  <1>23. \A i \in Ids : w.desc[i].addr # NoBuf <=> (i \in both \/ tx.desc[i].addr # NoBuf)
    BY <1>5, <1>7, <1>19 DEF NoBuf
  <1>24. Iommu' <=> Iommu
    BY <1>1 DEF Iommu
  <1>25. GpasInv' /\ DmaBalanced'
    <2>1. GpasInv'
      BY <1>1, <1>17, <1>23, <1>24 DEF GpasInv
    <2>2. ASSUME NEW i \in Ids
          PROVE  txmaps'[i] = IF Iommu /\ w.desc[i].addr # NoBuf THEN 1 ELSE 0
      <3>1. txmaps[i] = IF Iommu /\ tx.desc[i].addr # NoBuf THEN 1 ELSE 0
        BY <1>1 DEF DmaBalanced
      <3>2. (Iommu /\ tx.desc[i].addr # NoBuf => i \in gpas) /\ (~Iommu => i \notin gpas)
        BY <1>1 DEF GpasInv
      <3> HIDE DEF both
      <3> QED
        BY <1>22, <1>23, <3>1, <3>2
    <2> QED
      BY <1>1, <1>17, <1>24, <2>1, <2>2 DEF DmaBalanced
  <1>26. TypeOK'
    <2>1. txmaps' \in [Ids -> Int]
      <3>1. txmaps \in [Ids -> Int]
        BY DEF TypeOK
      <3> DEFINE m == Unmap(txmaps, both)
      <3>2. m \in [Ids -> Int] /\ txmaps' = MapIn(m, both)
        BY <1>1, <3>1 DEF Unmap
      <3> HIDE DEF m
      <3> QED
        BY <3>2 DEF MapIn
    <2>2. gpas' \subseteq Ids
      BY <1>1, <1>5 DEF TypeOK
    <2> QED
      BY <1>1, <1>12, <1>17, <2>1, <2>2 DEF TypeOK, B, L
  <1>27. RxInv' /\ RxFifo'
    BY <1>1, RxKept
  <1>28. HistoryOK' /\ LifeInv'
    BY <1>1, <1>18 DEF HistoryOK, LifeInv, DeviceActive
  <1> QED
    BY <1>21, <1>25, <1>26, <1>27, <1>28

\* The device sends the packet of the oldest chain.
LEMMA DeviceTransmitsRight ==
    ASSUME IndInv, DeviceTransmits
    PROVE  IndInv'
  <1> USE DEF IndInv
  <1> DEFINE B == TxBufs \cup {0}
             L == {0}
             h == HeadChain(tx)
             w == Complete(tx, h, 0)
             A == AvailChains(tx)
             C == AvailChains(w)
             n == Len(txq)
  <1>1. /\ rings /\ pc = "open" /\ HasChain(tx) /\ tx.seen # tx.avail_idx
        /\ tx' = w /\ txq' = Tail(txq) /\ tx \in Vq(B, L)
        /\ txq \in Seq(TxBufs) /\ n \in Nat
        /\ UNCHANGED <<host, status, pc, rings, rx, mem, last_rx_idx, txmaps, gpas, got, wire>>
    BY DEF DeviceTransmits, HasChain, LifeInv, TypeOK, HistoryOK
  <1>2. tx.avail_idx \in Idx /\ tx.seen \in Idx /\ tx.used_idx \in Idx /\ tx.seen \in Int
    BY <1>1 DEF Vq, Idx
  <1>3. h \in Int
    BY <1>1, <1>2, PositionType DEF Vq, HeadChain
  <1>4. /\ n = Behind(tx.seen, tx.avail_idx) /\ n <= TxLag /\ n > 0
        /\ \A k \in 1 .. n : /\ A[k] = TxId(tx.seen + k - 1)
                             /\ tx.desc[TxId(tx.seen + k - 1)].addr = 0
                             /\ tx.desc[TxId(tx.seen + k - 1)].next = TxId(tx.seen + k - 1) + 1
                             /\ tx.desc[TxId(tx.seen + k - 1) + 1].addr = txq[k]
    <2>1. Behind(tx.seen, tx.avail_idx) \in Nat /\ Behind(tx.seen, tx.avail_idx) # 0
      BY <1>1, <1>2, BehindIs, Sizes
    <2> QED
      BY <1>1, <2>1 DEF TxInv
  <1>5. 0 \in L
    OBVIOUS
  <1> HIDE DEF h, B, L
  <1>6. /\ w \in Vq(B, L) /\ w.desc = tx.desc /\ w.seen = (tx.seen + 1) % IdxMod
        /\ w.avail_idx = tx.avail_idx
    BY <1>1, <1>3, <1>5, CompleteFields
  <1>7. Len(C) = Len(A) - 1 /\ \A k \in 1 .. Len(C) : C[k] = A[k + 1]
    BY <1>1, <1>3, <1>5, CompleteTakes
  <1>8. Len(A) = n
    BY <1>2, <1>4, AvailIs
  <1> HIDE DEF w, A, C
  <1>9. /\ txq' \in Seq(TxBufs) /\ Len(txq') = n - 1
        /\ \A k \in 1 .. (n - 1) : txq'[k] = txq[k + 1] /\ k + 1 \in 1 .. n
    BY <1>1, <1>4
  <1>10. Behind(w.seen, w.avail_idx) = n - 1
    BY <1>1, <1>2, <1>4, <1>6, BehindShorter
  <1> HIDE DEF n
  <1>11. ASSUME NEW k \in 1 .. (n - 1)
         PROVE  /\ C[k] = TxId(w.seen + k - 1)
                /\ w.desc[TxId(w.seen + k - 1)].addr = 0
                /\ w.desc[TxId(w.seen + k - 1)].next = TxId(w.seen + k - 1) + 1
                /\ w.desc[TxId(w.seen + k - 1) + 1].addr = txq'[k]
    <2>1. k \in Int /\ k - 1 \in Int /\ k + 1 \in 1 .. n /\ w.seen \in Int
      <3>1. (tx.seen + 1) % IdxMod \in Idx
        BY <1>2, Following
      <3>2. w.seen \in Int
        BY <1>6, <3>1 DEF Idx
      <3> QED
        BY <1>9, <3>2
    <2>2. w.seen + k - 1 = ((tx.seen + 1) % IdxMod) + (k - 1)
      BY <1>6, <2>1
    <2>3. tx.seen + 1 + (k - 1) = tx.seen + (k + 1) - 1
      BY <1>2, <2>1
    <2>4. TxId(((tx.seen + 1) % IdxMod) + (k - 1)) = TxId(tx.seen + 1 + (k - 1))
      BY <1>2, <2>1, SlotAfter
    <2>5. TxId(w.seen + k - 1) = TxId(tx.seen + (k + 1) - 1)
      BY <2>2, <2>3, <2>4
    <2>6. C[k] = A[k + 1]
      BY <1>7, <1>8
    <2>7. /\ A[k + 1] = TxId(tx.seen + (k + 1) - 1)
          /\ tx.desc[TxId(tx.seen + (k + 1) - 1)].addr = 0
          /\ tx.desc[TxId(tx.seen + (k + 1) - 1)].next = TxId(tx.seen + (k + 1) - 1) + 1
          /\ tx.desc[TxId(tx.seen + (k + 1) - 1) + 1].addr = txq[k + 1]
      BY <1>4, <2>1
    <2> QED
      BY <1>6, <1>9, <2>5, <2>6, <2>7
  <1>12. TxInv'
    <2>1. Len(txq') = Behind(tx'.seen, tx'.avail_idx) /\ Len(txq') <= TxLag
      BY <1>1, <1>4, <1>9, <1>10, TxLagAssumption DEF n
    <2>2. \A k \in 1 .. Len(txq') :
             /\ AvailChains(tx')[k] = TxId(tx'.seen + k - 1)
             /\ tx'.desc[TxId(tx'.seen + k - 1)].addr = 0
             /\ tx'.desc[TxId(tx'.seen + k - 1)].next = TxId(tx'.seen + k - 1) + 1
             /\ tx'.desc[TxId(tx'.seen + k - 1) + 1].addr = txq'[k]
      BY <1>1, <1>9, <1>11 DEF C
    <2> QED
      BY <2>1, <2>2 DEF TxInv, TxId
  <1>13. RxInv' /\ RxFifo'
    BY <1>1, RxKept
  <1>14. GpasInv' /\ DmaBalanced'
    BY <1>1, <1>6, DmaKept
  <1>15. TypeOK'
    BY <1>1, <1>6 DEF TypeOK, B, L
  <1>16. HistoryOK' /\ LifeInv'
    BY <1>1, <1>9 DEF HistoryOK, LifeInv, DeviceActive
  <1> QED
    BY <1>12, <1>13, <1>14, <1>15, <1>16

-----------------------------------------------------------------------------
(* The theorems. *)

\* Every behaviour of the driver and its device keeps the invariant.
LEMMA Invariance == Spec => []IndInv
  <1>1. Init => IndInv
    BY InitRight
  <1>2. IndInv /\ [Next]_vars => IndInv'
    <2> SUFFICES ASSUME IndInv, [Next]_vars PROVE IndInv'
      OBVIOUS
    <2>1. CASE UNCHANGED vars
      <3>1. UNCHANGED <<host, status, pc, rings, rx, tx, mem, last_rx_idx, txmaps, gpas, got,
                        wire, txq>>
        BY <2>1 DEF vars
      <3>2. RxInv' /\ RxFifo'
        BY <3>1, RxKept DEF IndInv
      <3>3. TxInv'
        BY <3>1, TxKept DEF IndInv
      <3>4. GpasInv' /\ DmaBalanced'
        BY <3>1, DmaKept DEF IndInv
      <3>5. TypeOK' /\ HistoryOK' /\ LifeInv'
        BY <3>1 DEF IndInv, TypeOK, HistoryOK, LifeInv, DeviceActive
      <3> QED
        BY <3>2, <3>3, <3>4, <3>5 DEF IndInv
    <2>2. CASE Next
      BY <2>2, IdleStepsRight, OpenRight, DeviceReceivesRight, ReadRight, WriteRight,
         DeviceTransmitsRight, TerminateRight DEF Next
    <2> QED
      BY <2>1, <2>2
  <1> QED
    BY <1>1, <1>2, PTL DEF Spec

\* Frames reach virtionet_read in order, unaltered and exactly once, for every queue
\* size, index width and number of receive chains (virtionet_receive).
THEOREM FramesInOrder == Spec => []RxFifo
  <1>1. IndInv => RxFifo
    BY DEF IndInv
  <1> QED
    BY <1>1, Invariance, PTL

\* The invariant gives each part of NetBuffersSound.
LEMMA BuffersFromInvariant ==
    ASSUME IndInv
    PROVE  NetBuffersSound
  <1> USE DEF IndInv
  <1>1. RxChainsConserved
    <2>1. SUFFICES ASSUME rings
                   PROVE  LET avail == AvailChains(rx)
                              unread == UnreadUsed(rx, last_rx_idx)
                              owned == avail \o [k \in 1 .. Len(unread) |-> unread[k].id]
                          IN  /\ Len(owned) = RX_QUEUE_SIZE
                              /\ { owned[k] : k \in 1 .. Len(owned) } = RxHeads
      BY DEF RxChainsConserved
    <2>2. rx.seen \in Idx /\ rx.avail_idx \in Idx /\ rx.used_idx \in Idx /\ last_rx_idx \in Idx
      BY DEF TypeOK, Vq
    <2>3. OwnedOnce(rx, last_rx_idx, RxHeads, RX_QUEUE_SIZE)
      BY <2>1 DEF RxInv
    <2> QED
      BY <2>2, <2>3, OwnersAreAll
  <1>2. TxChainsIntact
    <2> SUFFICES ASSUME rings
                 PROVE  /\ Len(AvailChains(tx)) = Len(txq)
                        /\ \A k \in 1 .. Len(AvailChains(tx)) :
                              LET hdr == tx.desc[AvailChains(tx)[k]]
                              IN  hdr.addr = 0 /\ hdr.next # -1 /\ tx.desc[hdr.next].addr = txq[k]
      BY DEF TxChainsIntact
    <2>1. tx.seen \in Idx /\ tx.avail_idx \in Idx
      BY DEF TypeOK, Vq
    <2>2. Len(AvailChains(tx)) = Len(txq)
      BY <2>1, AvailIs DEF TxInv
    <2>3. ASSUME NEW k \in 1 .. Len(txq)
          PROVE  LET hdr == tx.desc[AvailChains(tx)[k]]
                 IN  hdr.addr = 0 /\ hdr.next # -1 /\ tx.desc[hdr.next].addr = txq[k]
      <3> DEFINE id == TxId(tx.seen + k - 1)
      <3>1. tx.seen + k - 1 \in Int
        BY <2>1 DEF HistoryOK, Idx
      <3>2. id \in Nat
        BY <3>1, SlotEven
      <3>3. /\ AvailChains(tx)[k] = id /\ tx.desc[id].addr = 0
            /\ tx.desc[id].next = id + 1 /\ tx.desc[id + 1].addr = txq[k]
        BY DEF TxInv
      <3> HIDE DEF id
      <3> QED
        BY <3>2, <3>3
    <2> QED
      BY <2>2, <2>3
  <1>3. NoDmaAfterFree
    BY DEF LifeInv, NoDmaAfterFree
  <1> QED
    BY <1>1, <1>2, <1>3 DEF NetBuffersSound

\* Every receive chain is with the device or about to be given back, no chain is
\* changed while the device sends from it, every DMA mapping is released once, and none
\* is in use when the memory goes back to the heap (virtionet_receive, virtionet_xmit,
\* virtionet_term).
THEOREM NetBuffers == Spec => []NetBuffersSound
  <1>1. IndInv => NetBuffersSound
    BY BuffersFromInvariant
  <1> QED
    BY <1>1, Invariance, PTL
=============================================================================
