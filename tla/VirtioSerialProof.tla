------------------------- MODULE VirtioSerialProof -------------------------
(***************************************************************************)
(* Proofs about the virtio console of VirtioSerial, for every queue size,  *)
(* index width, number of receive buffers and set of characters: key       *)
(* strokes are read in order and once, and the driver's buffers are where  *)
(* the device expects them.                                                *)
(*                                                                         *)
(* The theorems about reading ask for a queue that is longer than the      *)
(* number of receive buffers: with RX_NUM_ELEMS = QSize the index that     *)
(* virtio_serial_getchar computes for the last buffer is -1.               *)
(***************************************************************************)
EXTENDS VirtioSerial, VringProof

-----------------------------------------------------------------------------
(* The inductive invariant. *)

\* The histories are sequences of characters.
HistoryOK == keys \in Seq(Chars) /\ txq \in Seq(Chars)

\* When the node, the device and the rings are alive.
NodeInv ==
    /\ rings => initialized
    /\ DeviceActive => rings /\ pc \in {"idle", "putwait"}
    /\ pc = "freed" => ~rings
    /\ pc = "putwait" => rings
    /\ (~rings /\ pc = "idle") => keys = <<>> /\ txq = <<>>

\* Every receive buffer has one owner, and descriptor i points to buffer i.
RxInv ==
    rings => /\ OwnedOnce(rx, last_rx_idx, Elems, RX_NUM_ELEMS)
             /\ \A id \in Elems : rx.desc[id].addr = id

\* The characters not taken by the device are the published ones.  Unless a putchar
\* timed out there is at most one, the one putchar waits for.
TxInv ==
    rings =>
        /\ Len(txq) = Behind(tx.seen, tx.avail_idx)
        /\ (~late /\ pc = "idle") => Len(txq) = 0
        /\ (~late /\ pc = "putwait") =>
              IF tx.used_idx = last_used_idx THEN Len(txq) = 1 /\ stack = txq[1]
                                             ELSE Len(txq) = 0

IndInv == TypeOK /\ HistoryOK /\ NodeInv /\ RxInv /\ TxInv /\ KeysFifo

-----------------------------------------------------------------------------

\* The receive buffers are descriptors of the queue.
LEMMA ElemsFit ==
    /\ RX_NUM_ELEMS \in Nat /\ RX_NUM_ELEMS > 0 /\ RX_NUM_ELEMS <= QSize
    /\ RX_NUM_ELEMS \in Idx
    /\ Elems \subseteq Ids /\ Elems \subseteq Int
  BY RxFits, Sizes DEF Elems, Ids, Idx

\* The queue virtio_serial_init prepares: the device owns every buffer.
LEMMA RxRingRight ==
    /\ RxRing \in Vq(Elems, {0})
    /\ OwnedOnce(RxRing, 0, Elems, RX_NUM_ELEMS)
    /\ Len(UnreadUsed(RxRing, 0)) = 0
    /\ \A id \in Elems : RxRing.desc[id].addr = id
  <1> DEFINE v == virtio_queue_init_vq(0)
             d == [id \in Ids |-> IF id \in Elems THEN [addr |-> id, len |-> 1, next |-> -1]
                                                  ELSE NoDesc]
             a == [i \in Ids |-> IF i \in Elems THEN i ELSE 0]
             A == AvailChains(RxRing)
             U == UnreadUsed(RxRing, 0)
  <1>1. /\ v \in Vq(Elems, {0}) /\ v.seen = 0 /\ v.used_idx = 0
        /\ 0 \in Idx /\ Behind(0, 0) = 0
    BY InitFields
  <1> HIDE DEF v
  <1>2. d \in [Ids -> Desc(Elems)]
    BY DEF Desc, NoDesc
  <1>3. a \in [Ids -> Int]
    BY ElemsFit
  <1>4. RxRing = [v EXCEPT !.desc = d, !.avail = a, !.avail_idx = RX_NUM_ELEMS]
    BY DEF RxRing, v
  <1>5. \A id \in Elems : d[id].addr = id
    BY ElemsFit
  <1>6. \A i \in Elems : a[i] = i
    BY ElemsFit
  <1> HIDE DEF d, a
  <1>7. /\ RxRing \in Vq(Elems, {0}) /\ RxRing.desc = d /\ RxRing.avail = a
        /\ RxRing.avail_idx = RX_NUM_ELEMS /\ RxRing.used_idx = 0 /\ RxRing.seen = 0
    BY <1>1, <1>2, <1>3, <1>4, ElemsFit DEF Vq
  <1>8. Behind(0, RX_NUM_ELEMS) = RX_NUM_ELEMS
    BY <1>1, ElemsFit, BehindIs
  <1>9. Len(A) = RX_NUM_ELEMS /\ \A k \in 1 .. RX_NUM_ELEMS : A[k] = a[(0 + k - 1) % QSize]
    BY <1>1, <1>7, <1>8, ElemsFit, AvailIs
  <1>10. Len(U) = 0
    BY <1>1, <1>7, UnreadIs
  <1>11. \A k \in 1 .. RX_NUM_ELEMS : A[k] = k - 1 /\ k - 1 \in Elems
    <2> SUFFICES ASSUME NEW k \in 1 .. RX_NUM_ELEMS PROVE A[k] = k - 1 /\ k - 1 \in Elems
      OBVIOUS
    <2>1. k - 1 \in Elems /\ (0 + k - 1) = k - 1
      BY ElemsFit DEF Elems
    <2>2. (k - 1) % QSize = k - 1
      BY <2>1, Sizes, ElemsFit DEF Elems
    <2> QED
      BY <2>1, <2>2, <1>6, <1>9
  <1> HIDE DEF A, U
  <1>12. \A e \in Elems : e + 1 \in 1 .. Len(A) /\ A[e + 1] = e
    <2> SUFFICES ASSUME NEW e \in Elems PROVE e + 1 \in 1 .. Len(A) /\ A[e + 1] = e
      OBVIOUS
    <2>1. e + 1 \in 1 .. RX_NUM_ELEMS /\ (e + 1) - 1 = e
      BY ElemsFit DEF Elems
    <2> QED
      BY <2>1, <1>9, <1>11
  <1>13. /\ Len(A) + Len(U) = RX_NUM_ELEMS
         /\ \A k \in 1 .. Len(A) : A[k] \in Elems
         /\ \A j \in 1 .. Len(A), k \in 1 .. Len(A) : A[j] = A[k] => j = k
         /\ \A k \in 1 .. Len(U) : FALSE
    BY <1>9, <1>10, <1>11, ElemsFit
  <1>14. OwnedOnce(RxRing, 0, Elems, RX_NUM_ELEMS)
    BY <1>12, <1>13 DEF OwnedOnce, A, U
  <1> QED
    BY <1>5, <1>7, <1>10, <1>14 DEF U

\* A step that leaves the receive side alone keeps what is said of it.
LEMMA RxKept ==
    ASSUME RxInv, KeysFifo, rings' => rings, UNCHANGED rxvars
    PROVE  RxInv' /\ KeysFifo'
  <1>1. UNCHANGED <<rx, mem, last_rx_idx, keys>>
    BY DEF rxvars
  <1>2. RxInv'
    <2>1. CASE ~rings'
      BY <2>1 DEF RxInv
    <2>2. CASE rings'
      BY <2>2, <1>1 DEF RxInv, Elems
    <2> QED
      BY <2>1, <2>2
  <1>3. KeysFifo'
    <2>1. CASE ~rings'
      BY <2>1 DEF KeysFifo
    <2>2. CASE rings'
      BY <2>2, <1>1 DEF KeysFifo
    <2> QED
      BY <2>1, <2>2
  <1> QED
    BY <1>2, <1>3

LEMMA InitRight ==
    ASSUME Init
    PROVE  IndInv
  <1>1. /\ virtio_queue_init_vq(0) \in Vq(Elems, {0})
        /\ virtio_queue_init_vq(0) \in Vq({0}, {0})
        /\ 0 \in Idx
    BY InitFields
  <1>2. TypeOK
    <2>1. open_count \in 0 .. MaxOpens
      BY MaxOpensAssumption DEF Init
    <2>2. initialized \in BOOLEAN /\ virtiodev \in BOOLEAN /\ rings \in BOOLEAN
      BY DEF Init
    <2>3. mem \in [Elems -> Chars \cup {NoChar}]
      BY DEF Init
    <2> QED
      BY <1>1, <2>1, <2>2, <2>3 DEF Init, TypeOK
  <1>3. HistoryOK /\ NodeInv /\ RxInv /\ TxInv /\ KeysFifo
    BY DEF Init, HistoryOK, NodeInv, RxInv, TxInv, KeysFifo, DeviceActive
  <1> QED
    BY <1>2, <1>3 DEF IndInv

-----------------------------------------------------------------------------
(* One lemma per operation. *)

LEMMA OpenFirstRight ==
    ASSUME IndInv, OpenFirst
    PROVE  IndInv'
  <1> USE DEF IndInv
  <1>1. /\ ~initialized /\ ~rings /\ pc = "idle" /\ pc' = "idle"
        /\ keys = <<>> /\ txq = <<>> /\ keys' = keys /\ txq' = txq
        /\ initialized' = TRUE /\ virtiodev' = virtiodev /\ open_count' = 1
        /\ mem' = mem /\ last_used_idx' = last_used_idx
    BY DEF OpenFirst, NodeInv, virtio_serial_init, rxvars, txvars
  <1>2. CASE ~virtiodev
    <2>1. fault' = "null_dev" /\ UNCHANGED <<status, rings, rxvars, txvars>>
      BY <1>2 DEF OpenFirst
    <2>2. TypeOK'
      <3>1. open_count' \in 0 .. MaxOpens
        BY <1>1, MaxOpensAssumption
      <3> QED
        BY <1>1, <2>1, <3>1 DEF TypeOK, rxvars, txvars
    <2>3. RxInv' /\ KeysFifo'
      BY <2>1, RxKept
    <2>4. HistoryOK' /\ NodeInv' /\ TxInv'
      BY <1>1, <2>1 DEF HistoryOK, NodeInv, TxInv, DeviceActive, txvars, rxvars
    <2> QED
      BY <2>2, <2>3, <2>4
  <1>3. CASE virtiodev
    <2>1. PICK ok \in BOOLEAN : virtio_serial_init(ok) /\ fault' = fault
      BY <1>3 DEF OpenFirst
    <2>2. /\ virtio_queue_init_vq(0) \in Vq({0}, {0})
          /\ virtio_queue_init_vq(0).seen = 0 /\ virtio_queue_init_vq(0).avail_idx = 0
          /\ 0 \in Idx /\ Behind(0, 0) = 0
      BY InitFields
    <2>3. /\ tx' = virtio_queue_init_vq(0) /\ last_rx_idx' = 0 /\ late' = FALSE
          /\ rings' = ok
      BY <2>1 DEF virtio_serial_init
    <2>4. TypeOK'
      <3>1. open_count' \in 0 .. MaxOpens
        BY <1>1, MaxOpensAssumption
      <3>2. rx' \in Vq(Elems, {0})
        BY <2>1, RxRingRight DEF virtio_serial_init, TypeOK
      <3>3. initialized' \in BOOLEAN /\ virtiodev' \in BOOLEAN /\ rings' \in BOOLEAN
        BY <1>1, <2>3 DEF TypeOK
      <3> QED
        BY <1>1, <2>1, <2>2, <2>3, <3>1, <3>2, <3>3 DEF TypeOK
    <2>5. CASE ok
      <3>1. rings' /\ rx' = RxRing /\ status' = {"ACKNOWLEDGE", "DRIVER", "FEATURES_OK", "DRIVER_OK"}
        BY <2>1, <2>5 DEF virtio_serial_init
      <3>2. RxInv'
        BY <2>3, <3>1, RxRingRight DEF RxInv
      <3>3. KeysFifo'
        BY <1>1, <2>3, <3>1, RxRingRight DEF KeysFifo
      <3>4. HistoryOK' /\ NodeInv' /\ TxInv'
        BY <1>1, <2>2, <2>3, <3>1 DEF HistoryOK, NodeInv, TxInv
      <3> QED
        BY <2>4, <3>2, <3>3, <3>4
    <2>6. CASE ~ok
      <3>1. ~rings' /\ status' = {"ACKNOWLEDGE", "DRIVER", "FAILED"}
        BY <2>1, <2>6 DEF virtio_serial_init
      <3>2. RxInv' /\ KeysFifo' /\ TxInv'
        BY <3>1 DEF RxInv, KeysFifo, TxInv
      <3>3. HistoryOK' /\ NodeInv'
        BY <1>1, <3>1 DEF HistoryOK, NodeInv, DeviceActive
      <3> QED
        BY <2>4, <3>2, <3>3
    <2> QED
      BY <2>5, <2>6
  <1> QED
    BY <1>2, <1>3

\* The steps that only count users or change what the node says of itself.
LEMMA NodeStepsRight ==
    ASSUME IndInv, OpenAgain \/ ReadUnready
    PROVE  IndInv'
  <1> USE DEF IndInv
  <1>1. UNCHANGED <<initialized, virtiodev, status, rings, rxvars, txvars, pc>>
    BY DEF OpenAgain, ReadUnready
  <1>2. TypeOK'
    <2>1. open_count' \in 0 .. MaxOpens
      BY MaxOpensAssumption DEF OpenAgain, ReadUnready, TypeOK
    <2>2. fault' \in {"none", "null_dev", "no_queue"}
      BY DEF OpenAgain, ReadUnready, TypeOK
    <2> QED
      BY <1>1, <2>1, <2>2 DEF TypeOK, rxvars, txvars
  <1>3. RxInv' /\ KeysFifo'
    BY <1>1, RxKept
  <1>4. HistoryOK' /\ NodeInv' /\ TxInv'
    BY <1>1 DEF HistoryOK, NodeInv, TxInv, DeviceActive, txvars, rxvars
  <1> QED
    BY <1>2, <1>3, <1>4

\* close and the quiesce hook: the device is stopped, the rings stay.
LEMMA StopRight ==
    ASSUME IndInv, Close \/ Quiesce
    PROVE  IndInv'
  <1> USE DEF IndInv
  <1>1. /\ UNCHANGED <<initialized, virtiodev, fault, rings, rxvars, txvars>>
        /\ pc = "idle"
        /\ \/ status' = {"FAILED"} /\ pc' = "quiesced" /\ initialized
           \/ UNCHANGED <<status, pc>>
    BY DEF Close, Quiesce, StartShutdown, node
  <1>2. TypeOK'
    <2>1. open_count' \in 0 .. MaxOpens
      BY MaxOpensAssumption DEF Close, Quiesce, TypeOK, node
    <2>2. pc' \in {"idle", "putwait", "quiesced", "freed"}
      BY <1>1
    <2> QED
      BY <1>1, <2>1, <2>2 DEF TypeOK, rxvars, txvars
  <1>3. RxInv' /\ KeysFifo'
    BY <1>1, RxKept
  <1>4. HistoryOK'
    BY <1>1 DEF HistoryOK, rxvars, txvars
  <1>5. NodeInv'
    BY <1>1 DEF NodeInv, DeviceActive, rxvars, txvars
  <1>6. TxInv'
    BY <1>1 DEF TxInv, txvars
  <1> QED
    BY <1>2, <1>3, <1>4, <1>5, <1>6

\* The rest of virtio_serial_shutdown.
LEMMA ShutdownRight ==
    ASSUME IndInv, StopQueues \/ FinishShutdown
    PROVE  IndInv'
  <1> USE DEF IndInv
  <1>1. CASE StopQueues
    <2>1. /\ UNCHANGED <<node, status, rxvars, txvars>>
          /\ rings' = FALSE /\ pc = "quiesced" /\ pc' = "freed"
      BY <1>1 DEF StopQueues
    <2>2. TypeOK'
      <3>1. rings' \in BOOLEAN
        BY <2>1
      <3> QED
        BY <2>1, <3>1 DEF TypeOK, node, rxvars, txvars
    <2>3. RxInv' /\ KeysFifo' /\ TxInv'
      BY <2>1 DEF RxInv, KeysFifo, TxInv
    <2>4. HistoryOK' /\ NodeInv'
      BY <2>1 DEF HistoryOK, NodeInv, DeviceActive, rxvars, txvars
    <2> QED
      BY <2>2, <2>3, <2>4
  <1>2. CASE FinishShutdown
    <2>1. /\ ~rings /\ rings' = rings /\ pc' = "idle" /\ status' = {}
          /\ keys' = <<>> /\ txq' = <<>>
      BY <1>2 DEF FinishShutdown, NodeInv
    <2>2. TypeOK'
      <3>1. /\ virtio_queue_init_vq(0) \in Vq(Elems, {0})
            /\ virtio_queue_init_vq(0) \in Vq({0}, {0})
            /\ 0 \in Idx
        BY InitFields
      <3>2. mem' \in [Elems -> Chars \cup {NoChar}]
        BY <1>2 DEF FinishShutdown
      <3>3. initialized' \in BOOLEAN /\ virtiodev' \in BOOLEAN /\ rings' \in BOOLEAN
        BY <1>2 DEF FinishShutdown, TypeOK
      <3> QED
        BY <1>2, <3>1, <3>2, <3>3 DEF FinishShutdown, TypeOK
    <2>3. RxInv' /\ KeysFifo' /\ TxInv'
      BY <2>1 DEF RxInv, KeysFifo, TxInv
    <2>4. HistoryOK' /\ NodeInv'
      BY <2>1 DEF HistoryOK, NodeInv, DeviceActive
    <2> QED
      BY <2>2, <2>3, <2>4
  <1> QED
    BY <1>1, <1>2

\* A key stroke arrives: it is written to a buffer no unread entry stands for.
LEMMA DeviceReceivesRight ==
    ASSUME IndInv, DeviceReceives
    PROVE  IndInv'
  <1> USE DEF IndInv
  <1> DEFINE h == HeadChain(rx)
             w == Complete(rx, h, 0)
             U == UnreadUsed(rx, last_rx_idx)
             V == UnreadUsed(w, last_rx_idx)
  <1>1. /\ rings /\ HasChain(rx) /\ h \in Elems
        /\ rx \in Vq(Elems, {0}) /\ last_rx_idx \in Idx /\ rx.used_idx \in Idx
        /\ keys \in Seq(Chars) /\ mem \in [Elems -> Chars \cup {NoChar}]
    BY DEF DeviceReceives, NodeInv, TypeOK, HistoryOK, Vq
  <1>2. UNCHANGED <<node, status, rings, last_rx_idx, pc, txvars>> /\ rx' = w
    BY DEF DeviceReceives
  <1>3. PICK ch \in Chars :
            mem' = [mem EXCEPT ![rx.desc[h].addr] = ch] /\ keys' = Append(keys, ch)
    BY DEF DeviceReceives
  <1>4. OwnedOnce(rx, last_rx_idx, Elems, RX_NUM_ELEMS) /\ rx.desc[h].addr = h
    BY <1>1 DEF RxInv
  <1>5. /\ OwnedOnce(w, last_rx_idx, Elems, RX_NUM_ELEMS)
        /\ \A k \in 1 .. Len(U) : U[k].id # h
        /\ Behind(last_rx_idx, rx.used_idx) < QSize
    BY <1>1, <1>4, ElemsFit, CompleteKeepsOwners
  <1>6. Len(U) \in Nat
    BY <1>1, UnreadIs
  <1>7. h \in Int
    BY <1>1, ElemsFit
  <1> HIDE DEF h
  <1>8. /\ Len(V) = Len(U) + 1
        /\ V[Len(U) + 1] = [id |-> h, len |-> 0]
        /\ \A k \in 1 .. Len(U) : V[k] = U[k]
    BY <1>1, <1>5, <1>7, CompleteAppends
  <1>9. w \in Vq(Elems, {0}) /\ w.desc = rx.desc
    <2> DEFINE L == {0}
    <2>1. rx \in Vq(Elems, L) /\ 0 \in L
      BY <1>1
    <2> HIDE DEF L
    <2>2. w \in Vq(Elems, L) /\ w.desc = rx.desc
      BY <1>7, <2>1, CompleteFields
    <2> QED
      BY <2>2 DEF L
  <1> HIDE DEF w, U, V
  <1>10. RxInv'
    BY <1>1, <1>2, <1>5, <1>9 DEF RxInv
  <1>11. Len(U) = Len(keys) /\ \A k \in 1 .. Len(keys) : mem[U[k].id] = keys[k] /\ U[k].id \in Elems
    BY <1>1, <1>4 DEF KeysFifo, OwnedOnce, U
  <1>12. \A k \in 1 .. Len(keys') : mem'[V[k].id] = keys'[k]
    <2> SUFFICES ASSUME NEW k \in 1 .. Len(keys') PROVE mem'[V[k].id] = keys'[k]
      OBVIOUS
    <2>1. CASE k \in 1 .. Len(keys)
      BY <2>1, <1>1, <1>3, <1>4, <1>5, <1>8, <1>11
    <2>2. CASE k = Len(keys) + 1
      BY <2>2, <1>1, <1>3, <1>4, <1>8, <1>11
    <2> QED
      BY <2>1, <2>2, <1>1, <1>3
  <1>13. KeysFifo'
    <2>1. Len(V) = Len(keys')
      BY <1>1, <1>3, <1>8, <1>11
    <2> QED
      BY <1>2, <1>12, <2>1 DEF KeysFifo, V
  <1>14. TypeOK'
    <2>1. mem' \in [Elems -> Chars \cup {NoChar}]
      BY <1>1, <1>3, <1>4
    <2> QED
      BY <1>2, <1>9, <2>1 DEF TypeOK, node, txvars
  <1>15. HistoryOK' /\ NodeInv' /\ TxInv'
    <2>1. keys' \in Seq(Chars)
      BY <1>1, <1>3
    <2> QED
      BY <1>1, <1>2, <2>1 DEF HistoryOK, NodeInv, TxInv, DeviceActive, node, txvars
  <1> QED
    BY <1>10, <1>13, <1>14, <1>15

\* read: the oldest key stroke is returned and its buffer goes back to the device.
LEMMA GetcharRight ==
    ASSUME IndInv, Getchar, RX_NUM_ELEMS < QSize
    PROVE  IndInv'
  <1> USE DEF IndInv
  <1> DEFINE e == rx.used[last_rx_idx % QSize].id
             w == Publish(rx, e)
             next == (last_rx_idx + 1) % IdxMod
             U == UnreadUsed(rx, last_rx_idx)
             V == UnreadUsed(w, next)
  <1>1. /\ rings /\ last_rx_idx # rx.used_idx
        /\ rx \in Vq(Elems, {0}) /\ last_rx_idx \in Idx
        /\ keys \in Seq(Chars)
    BY DEF Getchar, HasChar, TypeOK, HistoryOK
  <1>2. /\ UNCHANGED <<node, status, rings, mem, pc, txvars>>
        /\ last_rx_idx' = next /\ keys' = Tail(keys)
        /\ rx' = Publish(rx, ((e + 1) % QSize) - 1)
    BY DEF Getchar, NextIdx, GetcharBuf
  <1>3. OwnedOnce(rx, last_rx_idx, Elems, RX_NUM_ELEMS)
    BY <1>1 DEF RxInv
  <1>4. e \in Elems /\ OwnedOnce(w, next, Elems, RX_NUM_ELEMS)
    BY <1>1, <1>3, ElemsFit, RecycleKeepsOwners
  <1>5. rx' = w
    <2> HIDE DEF e
    <2>1. e \in Int /\ 0 <= e + 1 /\ e + 1 < QSize
      <3>1. e \in 0 .. (RX_NUM_ELEMS - 1)
        BY <1>4 DEF Elems
      <3> QED
        BY <3>1, ElemsFit, Sizes
    <2>2. (e + 1) % QSize = e + 1
      BY <2>1, Sizes
    <2> QED
      BY <1>2, <2>1, <2>2
  <1>6. next \in Idx
    BY <1>1, Following
  <1>7. U[1].id = e /\ Len(U) > 0 /\ Len(V) = Len(U) - 1 /\ \A k \in 1 .. Len(V) : V[k] = U[k + 1]
    <2>1. e \in Int
      BY <1>4, ElemsFit
    <2>2. V = UnreadUsed(rx, next)
      <3> HIDE DEF e, next
      <3> QED
        BY <1>1, <2>1, PublishKeepsUnread
    <2> QED
      BY <1>1, <2>2, AdvanceDrops
  <1>8. w \in Vq(Elems, {0}) /\ w.desc = rx.desc
    <2>1. e \in Int
      BY <1>4, ElemsFit
    <2> HIDE DEF e
    <2> QED
      BY <1>1, <2>1, PublishFields
  <1> HIDE DEF e, w, next, U, V
  <1>9. RxInv'
    BY <1>1, <1>2, <1>4, <1>5, <1>8 DEF RxInv
  <1>10. Len(U) = Len(keys) /\ \A k \in 1 .. Len(keys) : mem[U[k].id] = keys[k]
    BY <1>1 DEF KeysFifo, U
  <1>11. /\ Len(keys) > 0 /\ keys' \in Seq(Chars) /\ Len(keys') = Len(keys) - 1
         /\ \A k \in 1 .. Len(keys') : keys'[k] = keys[k + 1] /\ k + 1 \in 1 .. Len(keys)
    BY <1>1, <1>2, <1>7, <1>10
  <1>12. KeysFifo'
    <2>1. Len(V) = Len(keys')
      BY <1>7, <1>10, <1>11
    <2>2. \A k \in 1 .. Len(keys') : mem'[V[k].id] = keys'[k]
      BY <1>2, <1>7, <1>10, <1>11, <2>1
    <2> QED
      BY <1>2, <1>5, <2>1, <2>2 DEF KeysFifo, V
  <1>13. TypeOK'
    BY <1>2, <1>5, <1>6, <1>8 DEF TypeOK, node, txvars
  <1>14. HistoryOK' /\ NodeInv' /\ TxInv'
    BY <1>1, <1>2, <1>11 DEF HistoryOK, NodeInv, TxInv, DeviceActive, node, txvars
  <1> QED
    BY <1>9, <1>12, <1>13, <1>14

\* write publishes the character and starts to wait.
LEMMA PutcharRight ==
    ASSUME IndInv, Putchar
    PROVE  IndInv'
  <1> USE DEF IndInv
  <1> DEFINE id == tx.avail_idx % QSize
             f == virtio_fill_desc(tx, id, 0, 1, -1)
             w == Publish(f, id)
  <1>1. /\ rings /\ pc = "idle" /\ pc' = "putwait" /\ tx' = w
        /\ last_used_idx' = tx.used_idx
        /\ UNCHANGED <<node, status, rings, rxvars, late>>
        /\ tx \in Vq({0}, {0}) /\ txq \in Seq(Chars) /\ Len(txq) < MaxTx
    BY DEF Putchar, TypeOK, HistoryOK
  <1>2. PICK ch \in Chars : stack' = ch /\ txq' = Append(txq, ch)
    BY DEF Putchar
  <1>3. tx.avail_idx \in Idx /\ tx.seen \in Idx /\ tx.used_idx \in Idx /\ id \in Int
    BY <1>1, PositionType DEF Vq, Idx, Ids
  <1> HIDE DEF id
  <1>4. f \in Vq({0}, {0}) /\ f.avail_idx = tx.avail_idx /\ f.seen = tx.seen /\ f.used_idx = tx.used_idx
    <2> DEFINE L == {0}
    <2>1. tx \in Vq(L, L) /\ 0 \in L /\ id \in Int
      BY <1>1, <1>3
    <2> HIDE DEF L
    <2>2. f \in Vq(L, L) /\ f.avail_idx = tx.avail_idx /\ f.seen = tx.seen /\ f.used_idx = tx.used_idx
      BY <2>1, FillFields
    <2> QED
      BY <2>2 DEF L
  <1> HIDE DEF f
  <1>5. /\ w \in Vq({0}, {0}) /\ w.seen = tx.seen /\ w.used_idx = tx.used_idx
        /\ w.avail_idx = (tx.avail_idx + 1) % IdxMod
    BY <1>3, <1>4, PublishFields
  <1> HIDE DEF w
  <1>6. Len(txq) = Behind(tx.seen, tx.avail_idx) /\ (~late => Len(txq) = 0)
    BY <1>1 DEF TxInv
  <1>7. Behind(w.seen, w.avail_idx) = Len(txq) + 1
    <2>1. Behind(tx.seen, tx.avail_idx) + 1 < IdxMod
      BY <1>1, <1>6, MaxTxAssumption, Sizes
    <2> QED
      BY <1>3, <1>5, <1>6, <2>1, BehindLonger
  <1>8. txq' \in Seq(Chars) /\ Len(txq') = Len(txq) + 1 /\ (Len(txq) = 0 => txq'[1] = stack')
    BY <1>1, <1>2
  <1>9. TxInv'
    BY <1>1, <1>5, <1>6, <1>7, <1>8 DEF TxInv
  <1>10. RxInv' /\ KeysFifo'
    BY <1>1, RxKept
  <1>11. TypeOK'
    BY <1>1, <1>3, <1>5 DEF TypeOK, node, rxvars
  <1>12. HistoryOK' /\ NodeInv'
    BY <1>1, <1>8 DEF HistoryOK, NodeInv, DeviceActive, node, rxvars
  <1> QED
    BY <1>9, <1>10, <1>11, <1>12

\* The device takes the oldest character.
LEMMA DeviceEmitsRight ==
    ASSUME IndInv, DeviceEmits
    PROVE  IndInv'
  <1> USE DEF IndInv
  <1> DEFINE h == HeadChain(tx)
             w == Complete(tx, h, 0)
  <1>1. /\ rings /\ pc \in {"idle", "putwait"} /\ tx' = w /\ txq' = Tail(txq)
        /\ tx.seen # tx.avail_idx
        /\ UNCHANGED <<node, status, rings, rxvars, pc, last_used_idx, stack, late>>
        /\ tx \in Vq({0}, {0}) /\ txq \in Seq(Chars)
    BY DEF DeviceEmits, TypeOK, HistoryOK, NodeInv, HasChain
  <1>2. tx.avail_idx \in Idx /\ tx.seen \in Idx /\ tx.used_idx \in Idx
    BY <1>1 DEF Vq
  <1>3. h \in Int
    BY <1>1, <1>2, PositionType DEF Vq, Idx, HeadChain
  <1> HIDE DEF h
  <1>4. /\ w \in Vq({0}, {0}) /\ w.seen = (tx.seen + 1) % IdxMod
        /\ w.avail_idx = tx.avail_idx /\ w.used_idx = (tx.used_idx + 1) % IdxMod
    <2> DEFINE L == {0}
    <2>1. tx \in Vq(L, L) /\ 0 \in L
      BY <1>1
    <2> HIDE DEF L
    <2>2. /\ w \in Vq(L, L) /\ w.seen = (tx.seen + 1) % IdxMod
          /\ w.avail_idx = tx.avail_idx /\ w.used_idx = (tx.used_idx + 1) % IdxMod
      BY <1>3, <2>1, CompleteFields
    <2> QED
      BY <2>2 DEF L
  <1> HIDE DEF w
  <1>5. Len(txq) = Behind(tx.seen, tx.avail_idx) /\ Len(txq) > 0
    BY <1>1, <1>2, BehindIs DEF TxInv
  <1>6. txq' \in Seq(Chars) /\ Len(txq') = Len(txq) - 1
    BY <1>1, <1>5
  <1>7. Behind(w.seen, w.avail_idx) = Len(txq')
    BY <1>1, <1>2, <1>4, <1>5, <1>6, BehindShorter
  <1>8. w.used_idx # tx.used_idx
    BY <1>2, <1>4, Following, Sizes DEF Idx
  <1>9. TxInv'
    <2>1. ~late => pc = "putwait" /\ tx.used_idx = last_used_idx /\ Len(txq) = 1
      BY <1>1, <1>5 DEF TxInv
    <2> QED
      BY <1>1, <1>6, <1>7, <1>8, <2>1 DEF TxInv
  <1>10. RxInv' /\ KeysFifo'
    BY <1>1, RxKept
  <1>11. TypeOK'
    BY <1>1, <1>4 DEF TypeOK, node, rxvars
  <1>12. HistoryOK' /\ NodeInv'
    BY <1>1, <1>6 DEF HistoryOK, NodeInv, DeviceActive, node, rxvars
  <1> QED
    BY <1>9, <1>10, <1>11, <1>12

\* The wait loop ends.
LEMMA PutEndsRight ==
    ASSUME IndInv, PutDone \/ PutTimeout
    PROVE  IndInv'
  <1> USE DEF IndInv
  <1>1. /\ UNCHANGED <<node, status, rings, rxvars, tx, last_used_idx, txq>>
        /\ pc = "putwait" /\ pc' = "idle"
        /\ \/ tx.used_idx # last_used_idx /\ late' = late
           \/ late' = TRUE
    BY DEF PutDone, PutTimeout
  <1>2. RxInv' /\ KeysFifo'
    BY <1>1, RxKept
  <1>3. TypeOK'
    BY <1>1 DEF TypeOK, node, rxvars
  <1>4. HistoryOK' /\ NodeInv'
    BY <1>1 DEF HistoryOK, NodeInv, DeviceActive, node, rxvars
  <1>5. TxInv'
    BY <1>1 DEF TxInv
  <1> QED
    BY <1>2, <1>3, <1>4, <1>5

-----------------------------------------------------------------------------
(* The theorems. *)

\* Every step of the console keeps the invariant.
LEMMA StepRight ==
    ASSUME IndInv, [Next]_vars, RX_NUM_ELEMS < QSize
    PROVE  IndInv'
  <1>1. CASE UNCHANGED vars
    <2>1. UNCHANGED rxvars /\ rings' = rings
      BY <1>1 DEF vars, rxvars
    <2>2. RxInv' /\ KeysFifo'
      BY <2>1, RxKept DEF IndInv
    <2>3. TypeOK' /\ HistoryOK' /\ NodeInv' /\ TxInv'
      BY <1>1 DEF IndInv, TypeOK, HistoryOK, NodeInv, TxInv, DeviceActive, vars
    <2> QED
      BY <2>2, <2>3 DEF IndInv
  <1>2. CASE Next
    BY <1>2, OpenFirstRight, NodeStepsRight, StopRight, ShutdownRight, DeviceReceivesRight,
       GetcharRight, PutcharRight, DeviceEmitsRight, PutEndsRight DEF Next
  <1> QED
    BY <1>1, <1>2

\* On a queue that is longer than the number of receive buffers, every behaviour of
\* the console keeps the invariant.
LEMMA Invariance ==
    ASSUME RX_NUM_ELEMS < QSize
    PROVE  Spec => []IndInv
  <1>1. Init => IndInv
    BY InitRight
  <1>2. IndInv /\ [Next]_vars => IndInv'
    BY StepRight
  <1> QED
    BY <1>1, <1>2, PTL DEF Spec

\* Key strokes reach read in order, unaltered and exactly once, for every queue size,
\* index width and number of buffers smaller than the queue (virtio_serial_getchar).
THEOREM KeysInOrder ==
    ASSUME RX_NUM_ELEMS < QSize
    PROVE  Spec => []KeysFifo
  <1>1. IndInv => KeysFifo
    BY DEF IndInv
  <1> QED
    BY <1>1, Invariance, PTL

\* The invariant gives each part of ConsoleBuffersSound.
LEMMA BuffersFromInvariant ==
    ASSUME IndInv
    PROVE  ConsoleBuffersSound
  <1> USE DEF IndInv
  <1>1. RxBuffersConserved
    <2>1. SUFFICES ASSUME rings
                   PROVE  LET avail == AvailChains(rx)
                              unread == UnreadUsed(rx, last_rx_idx)
                              owned == avail \o [k \in 1 .. Len(unread) |-> unread[k].id]
                          IN  /\ Len(owned) = RX_NUM_ELEMS
                              /\ { owned[k] : k \in 1 .. Len(owned) } = Elems
      BY DEF RxBuffersConserved
    <2>2. rx.seen \in Idx /\ rx.avail_idx \in Idx /\ rx.used_idx \in Idx /\ last_rx_idx \in Idx
      BY DEF TypeOK, Vq
    <2>3. OwnedOnce(rx, last_rx_idx, Elems, RX_NUM_ELEMS)
      BY <2>1 DEF RxInv
    <2> QED
      BY <2>2, <2>3, OwnersAreAll
  <1>2. TxByteAlive
    <2> SUFFICES ASSUME NEW k \in 1 .. Behind(tx.seen, tx.avail_idx), DeviceActive, ~late
                 PROVE  stack = txq[k]
      BY DEF TxByteAlive
    <2>1. rings /\ pc \in {"idle", "putwait"} /\ Len(txq) = Behind(tx.seen, tx.avail_idx)
      BY DEF NodeInv, TxInv
    <2>2. Len(txq) = 1 /\ stack = txq[1]
      BY <2>1 DEF TxInv
    <2> QED
      BY <2>1, <2>2
  <1>3. NoDmaAfterFree
    BY DEF NodeInv, NoDmaAfterFree
  <1> QED
    BY <1>1, <1>2, <1>3 DEF ConsoleBuffersSound

\* Receive buffers are conserved, a character is not overwritten while it is sent, and
\* the rings outlive the device's use of them (virtio_serial_getchar,
\* virtio_serial_putchar, virtio_serial_shutdown).
THEOREM ConsoleBuffers ==
    ASSUME RX_NUM_ELEMS < QSize
    PROVE  Spec => []ConsoleBuffersSound
  <1>1. IndInv => ConsoleBuffersSound
    BY BuffersFromInvariant
  <1> QED
    BY <1>1, Invariance, PTL
=============================================================================
