--------------------------- MODULE VirtioBlkProof ---------------------------
(***************************************************************************)
(* Proofs about the virtio block driver of VirtioBlk, for every queue size,*)
(* index width, disk, block size, set of buffers and set of requests: a    *)
(* device that answers in time has moved exactly what a successful transfer*)
(* reports, and no sequence of requests, late answers included, changes    *)
(* the partition table.                                                    *)
(*                                                                         *)
(* Beside it, VirtioScsi: while the device answers in time, the result of  *)
(* a SCSI command says what became of it.                                  *)
(*                                                                         *)
(* The theorems about VirtioBlk ask for a disk whose blocks have sector    *)
(* numbers of 32 bits: the parameter of fill_blk_hdr has no more, and a    *)
(* larger number is cut off to one of another sector.                      *)
(***************************************************************************)
EXTENDS MCVirtioBlk, VringProof

\* Every block number that passes the capacity test has a sector number that
\* fill_blk_hdr can store.
Addressable == Capacity * BlkSectors < SectorMod

-----------------------------------------------------------------------------
(* The inductive invariant. *)

Addrs == Bufs \cup Slots \cup {Hdr}
Values == Sectors \cup {Written}
AnyRequest == Requests(BLK_T_IN) \cup Requests(BLK_T_OUT)

\* What the memory and the disk hold.
ContentsOK ==
    /\ blkhdr \in [type : {BLK_T_IN, BLK_T_OUT}, sector : 0 .. (SectorMod - 1)]
    /\ buf \in [Bufs -> Seq(Values)]
    /\ disk \in [Sectors -> Values]
    /\ late \in BOOLEAN

Pending(q) == Behind(q.seen, q.avail_idx)

\* Descriptor j of the k-th chain the device has not executed.
Place(q, k, j) == (3 * (q.seen + k) + j) % QSize

\* The chain is as virtioblk_transfer has built it.
ChainOK(q, k) ==
    /\ q.avail[(q.seen + k) % QSize] = Place(q, k, 0)
    /\ q.desc[Place(q, k, 0)].next = Place(q, k, 1)
    /\ q.desc[Place(q, k, 1)].addr \in Bufs
    /\ q.desc[Place(q, k, 1)].next = Place(q, k, 2)
    /\ q.desc[Place(q, k, 2)].addr \in Slots

\* No chain is built over one that waits for the device.
ChainsOK ==
    /\ Pending(vq) <= MaxPending
    /\ \A k \in 0 .. (Pending(vq) - 1) : ChainOK(vq, k)

\* Whichever chain the device executes, the header it reads spares the table.
HeaderSpares == blkhdr.type = BLK_T_OUT => blkhdr.sector >= Protected * BlkSectors

\* The transfer being run has passed the tests.
RequestOK ==
    pc = "wait" => /\ req \in AnyRequest
                   /\ ~BeyondEnd(req.blocknum, req.cnt)
                   /\ req.type = BLK_T_OUT => Writable(req.blocknum)

\* The transfer's chain is the only one and the device has not executed it.
Outstanding ==
    /\ Pending(vq) = 1
    /\ vq.used_idx = last_used_idx
    /\ vq.desc[Place(vq, 0, 1)].addr = req.buf
    /\ vq.desc[Place(vq, 0, 1)].len = req.cnt * BlkSectors
    /\ vq.desc[Place(vq, 0, 2)].addr = req.slot
    /\ req.type = BLK_T_OUT => buf[req.buf] = [k \in 1 .. req.cnt * BlkSectors |-> Written]

\* The device has executed it.
Executed ==
    /\ Pending(vq) = 0
    /\ Inside(req) => status[req.slot] = 0 /\ Moved(req)
    /\ ~Inside(req) => status[req.slot] # 0

\* As long as no transfer has timed out, the chain executed is the one waited for.
InTime ==
    ~late =>
        /\ pc = "idle" => Pending(vq) = 0
        /\ pc = "wait" => /\ blkhdr = [type |-> req.type, sector |-> req.blocknum * BlkSectors]
                          /\ Outstanding \/ Executed

ReportsRight == TransferCorrectInTime /\ InRangeSucceeds

IndInv ==
    /\ TypeOK /\ ContentsOK /\ ChainsOK /\ HeaderSpares /\ RequestOK
    /\ InTime /\ ReportsRight /\ PartitionTableKept

-----------------------------------------------------------------------------
(* Arithmetic of chains and blocks. *)

\* Positions that agree modulo the queue size head the same chain.
LEMMA TripleMod ==
    ASSUME NEW x \in Int, NEW y \in Int, NEW j \in Int, x % QSize = y % QSize
    PROVE  (3 * x + j) % QSize = (3 * y + j) % QSize
  <1> DEFINE u == 2 * x + j
             v == x + y + j
             w == 2 * y + j
  <1>1. u \in Int /\ v \in Int /\ w \in Int
    OBVIOUS
  <1>2. x + u = 3 * x + j /\ y + u = x + v /\ y + v = x + w /\ y + w = 3 * y + j
    OBVIOUS
  <1> HIDE DEF u, v, w
  <1>3. ASSUME NEW z \in Int PROVE (x + z) % QSize = (y + z) % QSize
    BY Sizes, ModShift, ZenonT(60)
  <1>4. /\ (x + u) % QSize = (y + u) % QSize
        /\ (x + v) % QSize = (y + v) % QSize
        /\ (x + w) % QSize = (y + w) % QSize
    BY <1>1, <1>3, Zenon
  <1> QED
    BY <1>2, <1>4

\* A chain's number lies in the table, and the next two follow it.
LEMMA ChainPlaces ==
    ASSUME NEW a \in Idx, NEW j \in {1, 2}
    PROVE  /\ ChainId(a) \in Ids
           /\ ChainId(a) % QSize = ChainId(a)
           /\ (ChainId(a) + j) % QSize = (3 * a + j) % QSize
  <1> DEFINE x == 3 * a
             id == x % QSize
  <1>1. x \in Int /\ j \in Int /\ ChainId(a) = id
    BY DEF Idx, ChainId
  <1> HIDE DEF x
  <1>2. id \in Ids /\ id \in 0 .. (QSize - 1) /\ id \in Int
    BY <1>1, PositionType DEF Ids
  <1>3. id % QSize = x % QSize
    BY <1>2, Sizes
  <1>4. id % QSize = id
    BY <1>3
  <1> HIDE DEF id
  <1>5. id % QSize = x % QSize
    BY <1>3 DEF id
  <1>6. (id + j) % QSize = (x + j) % QSize
    BY <1>1, <1>2, <1>5, Sizes, ModShift, ZenonT(60)
  <1> QED
    BY <1>1, <1>2, <1>4, <1>6 DEF x

\* Two descriptors of the chains of a table that has room for them are different.
LEMMA PlacesDiffer ==
    ASSUME NEW q, q.seen \in Idx,
           NEW k \in 0 .. (MaxPending - 1), NEW m \in 0 .. (MaxPending - 1),
           NEW i \in 0 .. 2, NEW j \in 0 .. 2, 3 * k + i < 3 * m + j
    PROVE  Place(q, k, i) # Place(q, m, j)
  <1> DEFINE x == 3 * (q.seen + k) + i
             y == 3 * (q.seen + m) + j
  <1>1. x \in Int /\ y \in Int /\ x < y /\ y - x < QSize
    BY PendingAssumption, Sizes DEF Idx
  <1> HIDE DEF x, y
  <1>2. x % QSize # y % QSize
    BY <1>1, Sizes, ModDistinct
  <1> QED
    BY <1>2 DEF Place, x, y

LEMMA PlaceType ==
    ASSUME NEW q, q.seen \in Idx, NEW k \in Int, NEW j \in Int
    PROVE  Place(q, k, j) \in Ids
  <1> DEFINE x == 3 * (q.seen + k) + j
  <1>1. x \in Int
    BY DEF Idx
  <1> HIDE DEF x
  <1>2. x % QSize \in Ids
    BY <1>1, PositionType
  <1> QED
    BY <1>2 DEF Place, x

\* How many chains wait for the device.
LEMMA PendingType ==
    ASSUME NEW q, q.seen \in Idx, q.avail_idx \in Idx
    PROVE  /\ Pending(q) \in Nat /\ Pending(q) < IdxMod
           /\ HasChain(q) <=> Pending(q) # 0
  BY BehindIs, Sizes DEF Pending, HasChain

\* The places of the chain that is published next.
LEMMA NextPlace ==
    ASSUME NEW q, q.seen \in Idx, q.avail_idx \in Idx, NEW j \in Int
    PROVE  /\ (3 * q.avail_idx + j) % QSize = Place(q, Pending(q), j)
           /\ q.avail_idx % QSize = (q.seen + Pending(q)) % QSize
  <1> DEFINE x == q.avail_idx
             y == q.seen + Pending(q)
  <1>1. x \in Int /\ y \in Int
    BY PendingType, Sizes DEF Idx
  <1>2. x % QSize = y % QSize
    BY PositionOf DEF Pending
  <1> HIDE DEF x, y
  <1>3. (3 * x + j) % QSize = (3 * y + j) % QSize
    BY <1>1, <1>2, TripleMod
  <1> QED
    BY <1>2, <1>3 DEF x, y, Place

\* After a completion the chains move up.
LEMMA PlaceMoves ==
    ASSUME NEW q, NEW w, q.seen \in Idx, w.seen = (q.seen + 1) % IdxMod,
           NEW k \in Int, NEW j \in Int
    PROVE  /\ Place(w, k, j) = Place(q, k + 1, j)
           /\ (w.seen + k) % QSize = (q.seen + (k + 1)) % QSize
  <1> DEFINE x == w.seen + k
             y == q.seen + (k + 1)
  <1>1. w.seen \in Int /\ x \in Int /\ y \in Int
    BY Following, Sizes DEF Idx
  <1>2. x % QSize = y % QSize
    <2>1. (((q.seen + 1) % IdxMod) + k) % QSize = ((q.seen + 1) + k) % QSize
      BY PositionAfter
    <2>2. (q.seen + 1) + k = q.seen + (k + 1)
      BY DEF Idx
    <2> QED
      BY <2>1, <2>2
  <1> HIDE DEF x, y
  <1>3. (3 * x + j) % QSize = (3 * y + j) % QSize
    BY <1>1, <1>2, TripleMod
  <1> QED
    BY <1>2, <1>3 DEF x, y, Place

\* Products keep the order.
LEMMA MulMono ==
    ASSUME NEW a \in Int, NEW b \in Int, NEW c \in Nat, a <= b
    PROVE  a * c <= b * c
  <1>1. (b - a) * c >= 0
    OBVIOUS
  <1>2. (b - a) * c = b * c - a * c
    OBVIOUS
  <1>3. a * c \in Int /\ b * c \in Int
    OBVIOUS
  <1> DEFINE p == a * c
             q == b * c
  <1> HIDE DEF p, q
  <1>4. q - p >= 0 /\ p \in Int /\ q \in Int
    BY <1>1, <1>2, <1>3 DEF p, q
  <1>5. p <= q
    BY <1>4
  <1> QED
    BY <1>5 DEF p, q

-----------------------------------------------------------------------------
(* What a request does to the queue. *)

\* The parts of a request.
LEMMA RequestParts ==
    ASSUME NEW r \in AnyRequest
    PROVE  /\ r.type \in {BLK_T_IN, BLK_T_OUT}
           /\ r.blocknum \in Nat /\ r.cnt \in Nat \ {0}
           /\ r.buf \in Bufs /\ r.slot \in Slots
           /\ r.buf \in Addrs /\ r.slot \in Addrs
           /\ r.cnt * BlkSectors \in Nat
           /\ r # NoReq
  <1>1. /\ r.type \in {BLK_T_IN, BLK_T_OUT} /\ r.blocknum \in Blocks /\ r.cnt \in Cnts
        /\ r.buf \in Bufs /\ r.slot \in Slots
    BY DEF AnyRequest, Requests
  <1>2. r.blocknum \in Nat /\ r.cnt \in Nat \ {0}
    BY <1>1, CallsAssumption
  <1>3. r.cnt * BlkSectors \in Nat
    BY <1>2, DiskAssumption
  <1>4. r # NoReq
    BY <1>2 DEF NoReq
  <1> QED
    BY <1>1, <1>2, <1>3, <1>4 DEF Addrs

\* The table after the three descriptors of a request are filled.
LEMMA FilledDesc ==
    ASSUME vq \in Vq(Addrs, {0}), NEW r \in AnyRequest, NEW id \in Ids,
           NEW a \in Ids, NEW b \in Ids,
           id % QSize = id, (id + 1) % QSize = a, (id + 2) % QSize = b
    PROVE  LET w == FillChain(id, r)
           IN  /\ w \in Vq(Addrs, {0})
               /\ w.avail = vq.avail /\ w.avail_idx = vq.avail_idx
               /\ w.used = vq.used /\ w.used_idx = vq.used_idx /\ w.seen = vq.seen
               /\ \A i \in Ids :
                     w.desc[i] = IF i = b THEN [addr |-> r.slot, len |-> 1, next |-> -1]
                                 ELSE IF i = a
                                 THEN [addr |-> r.buf, len |-> r.cnt * BlkSectors, next |-> b]
                                 ELSE IF i = id
                                 THEN [addr |-> Hdr, len |-> 1, next |-> a]
                                 ELSE vq.desc[i]
  <1> DEFINE L == {0}
             i1 == id + 1
             i2 == id + 2
             dh == [addr |-> Hdr, len |-> 1, next |-> a]
             db == [addr |-> r.buf, len |-> r.cnt * BlkSectors, next |-> b]
             ds == [addr |-> r.slot, len |-> 1, next |-> -1]
             x == [vq EXCEPT !.desc[id] = dh]
             y == [x EXCEPT !.desc[a] = db]
             z == [y EXCEPT !.desc[b] = ds]
  <1>1. i1 # -1 /\ i2 # -1
    BY Sizes DEF Ids
  <1>2. dh \in Desc(Addrs) /\ db \in Desc(Addrs) /\ ds \in Desc(Addrs)
    BY RequestParts DEF Desc, Addrs
  <1>3. FillChain(id, r) = z
    <2>1. id % QSize = id /\ i1 % QSize = a /\ i2 % QSize = b
      OBVIOUS
    <2> DEFINE len == r.cnt * BlkSectors
    <2>2. FillChain(id, r) =
             virtio_fill_desc(virtio_fill_desc(virtio_fill_desc(vq, id, Hdr, 1, i1),
                                               i1, r.buf, len, i2), i2, r.slot, 1, -1)
      BY DEF FillChain
    <2> HIDE DEF i1, i2, len
    <2>3. virtio_fill_desc(vq, id, Hdr, 1, i1) = x
      BY <1>1, <2>1 DEF virtio_fill_desc
    <2> HIDE DEF x
    <2>4. virtio_fill_desc(x, i1, r.buf, len, i2) = y
      BY <1>1, <2>1 DEF virtio_fill_desc, len
    <2> HIDE DEF y
    <2>5. virtio_fill_desc(y, i2, r.slot, 1, -1) = z
      BY <2>1 DEF virtio_fill_desc
    <2> QED
      BY <2>2, <2>3, <2>4, <2>5
  <1>4. vq \in Vq(Addrs, L)
    OBVIOUS
  <1> HIDE DEF L, dh, db, ds
  <1>5. /\ x \in Vq(Addrs, L)
        /\ x.avail = vq.avail /\ x.avail_idx = vq.avail_idx
        /\ x.used = vq.used /\ x.used_idx = vq.used_idx /\ x.seen = vq.seen
        /\ \A i \in Ids : x.desc[i] = IF i = id THEN dh ELSE vq.desc[i]
    BY <1>2, <1>4 DEF Vq
  <1> HIDE DEF x
  <1>6. /\ y \in Vq(Addrs, L)
        /\ y.avail = x.avail /\ y.avail_idx = x.avail_idx
        /\ y.used = x.used /\ y.used_idx = x.used_idx /\ y.seen = x.seen
        /\ \A i \in Ids : y.desc[i] = IF i = a THEN db ELSE x.desc[i]
    BY <1>2, <1>5 DEF Vq
  <1> HIDE DEF y
  <1>7. /\ z \in Vq(Addrs, L)
        /\ z.avail = y.avail /\ z.avail_idx = y.avail_idx
        /\ z.used = y.used /\ z.used_idx = y.used_idx /\ z.seen = y.seen
        /\ \A i \in Ids : z.desc[i] = IF i = b THEN ds ELSE y.desc[i]
    BY <1>2, <1>6 DEF Vq
  <1> HIDE DEF z
  <1>8. \A i \in Ids : z.desc[i] = IF i = b THEN ds ELSE IF i = a THEN db
                                   ELSE IF i = id THEN dh ELSE vq.desc[i]
    BY <1>5, <1>6, <1>7
  <1>9. /\ z \in Vq(Addrs, {0})
        /\ z.avail = vq.avail /\ z.avail_idx = vq.avail_idx
        /\ z.used = vq.used /\ z.used_idx = vq.used_idx /\ z.seen = vq.seen
    BY <1>5, <1>6, <1>7 DEF L
  <1> QED
    BY <1>3, <1>8, <1>9 DEF dh, db, ds

\* A request appends a chain of its own, made of descriptors that no waiting chain uses.
LEMMA ChainAppended ==
    ASSUME vq \in Vq(Addrs, {0}), ChainsOK, NEW r \in AnyRequest, Pending(vq) < MaxPending
    PROVE  LET w == Publish(FillChain(ChainId(vq.avail_idx), r), ChainId(vq.avail_idx))
               n == Pending(vq)
           IN  /\ w \in Vq(Addrs, {0})
               /\ w.used_idx = vq.used_idx /\ w.seen = vq.seen
               /\ Pending(w) = n + 1
               /\ \A k \in 0 .. n : ChainOK(w, k)
               /\ w.desc[Place(w, n, 1)].addr = r.buf
               /\ w.desc[Place(w, n, 1)].len = r.cnt * BlkSectors
               /\ w.desc[Place(w, n, 2)].addr = r.slot
  <1> DEFINE id == ChainId(vq.avail_idx)
             n == Pending(vq)
             f == FillChain(id, r)
             w == Publish(f, id)
             p0 == Place(vq, n, 0)
             p1 == Place(vq, n, 1)
             p2 == Place(vq, n, 2)
  <1>1. /\ vq.seen \in Idx /\ vq.avail_idx \in Idx
        /\ n \in Nat /\ n < MaxPending /\ MaxPending \in Nat /\ 3 * MaxPending <= QSize
    BY PendingType, PendingAssumption DEF Vq
  <1>2. id \in Ids /\ id % QSize = id /\ id = p0
        /\ (id + 1) % QSize = p1 /\ (id + 2) % QSize = p2
        /\ vq.avail_idx % QSize = (vq.seen + n) % QSize
    <2>1. 3 * vq.avail_idx + 0 = vq.avail_idx * 3
      BY <1>1 DEF Idx
    <2>2. id = (3 * vq.avail_idx + 0) % QSize
      BY <2>1 DEF ChainId
    <2>3. /\ (3 * vq.avail_idx + 0) % QSize = p0
          /\ (3 * vq.avail_idx + 1) % QSize = p1
          /\ (3 * vq.avail_idx + 2) % QSize = p2
          /\ vq.avail_idx % QSize = (vq.seen + n) % QSize
      BY <1>1, NextPlace
    <2>4. /\ id \in Ids /\ id % QSize = id
          /\ (id + 1) % QSize = (3 * vq.avail_idx + 1) % QSize
          /\ (id + 2) % QSize = (3 * vq.avail_idx + 2) % QSize
      BY <1>1, ChainPlaces
    <2> QED
      BY <2>2, <2>3, <2>4
  <1>3. p0 \in Ids /\ p1 \in Ids /\ p2 \in Ids
    BY <1>1, PlaceType
  <1> HIDE DEF id, n, p0, p1, p2
  <1>4. /\ f \in Vq(Addrs, {0})
        /\ f.avail = vq.avail /\ f.avail_idx = vq.avail_idx
        /\ f.used_idx = vq.used_idx /\ f.seen = vq.seen
        /\ \A i \in Ids :
              f.desc[i] = IF i = p2 THEN [addr |-> r.slot, len |-> 1, next |-> -1]
                          ELSE IF i = p1
                          THEN [addr |-> r.buf, len |-> r.cnt * BlkSectors, next |-> p2]
                          ELSE IF i = id
                          THEN [addr |-> Hdr, len |-> 1, next |-> p1]
                          ELSE vq.desc[i]
    BY <1>2, <1>3, FilledDesc
  <1> HIDE DEF f
  <1> DEFINE L == {0}
  <1>5. f \in Vq(Addrs, L) /\ id \in Int
    BY <1>2, <1>4 DEF Ids
  <1> HIDE DEF L
  <1>6. /\ w \in Vq(Addrs, L) /\ w.desc = f.desc
        /\ w.used_idx = f.used_idx /\ w.seen = f.seen
        /\ w.avail_idx = (f.avail_idx + 1) % IdxMod
        /\ \A i \in Ids : w.avail[i] = IF i = f.avail_idx % QSize THEN id ELSE f.avail[i]
    BY <1>5, PublishFields
  <1> HIDE DEF w
  <1>7. Pending(w) = n + 1
    <2>1. Behind(vq.seen, vq.avail_idx) + 1 < IdxMod
      BY <1>1, Sizes DEF n, Pending
    <2> QED
      BY <1>1, <1>4, <1>6, <2>1, BehindLonger DEF n, Pending
  <1>8. ASSUME NEW k \in Int, NEW j \in Int
        PROVE  Place(w, k, j) = Place(vq, k, j)
    BY <1>4, <1>6 DEF Place
  <1>9. p0 # p1 /\ p0 # p2 /\ p1 # p2
    <2>1. n \in 0 .. (MaxPending - 1)
      BY <1>1
    <2> QED
      BY <1>1, <2>1, PlacesDiffer DEF p0, p1, p2
  <1>10. /\ w.desc[p0].next = p1
         /\ w.desc[p1] = [addr |-> r.buf, len |-> r.cnt * BlkSectors, next |-> p2]
         /\ w.desc[p2].addr = r.slot
    BY <1>2, <1>3, <1>4, <1>6, <1>9
  <1>11. ASSUME NEW k \in 0 .. (n - 1) PROVE ChainOK(w, k)
    <2>1. ChainOK(vq, k)
      BY DEF ChainsOK, n
    <2>2. /\ k \in 0 .. (MaxPending - 1) /\ n \in 0 .. (MaxPending - 1) /\ k \in Int
          /\ \A i \in 0 .. 2, j \in 0 .. 2 : 3 * k + i < 3 * n + j
      BY <1>1
    <2>3. ASSUME NEW i \in 0 .. 2
          PROVE  /\ Place(vq, k, i) \in Ids
                 /\ w.desc[Place(vq, k, i)] = vq.desc[Place(vq, k, i)]
      <3>1. Place(vq, k, i) \in Ids
        BY <1>1, <2>2, PlaceType
      <3>2. Place(vq, k, i) # p0 /\ Place(vq, k, i) # p1 /\ Place(vq, k, i) # p2
        BY <1>1, <2>2, PlacesDiffer DEF p0, p1, p2
      <3> QED
        BY <3>1, <3>2, <1>2, <1>4, <1>6
    <2>4. w.avail[(w.seen + k) % QSize] = vq.avail[(vq.seen + k) % QSize]
      <3> DEFINE x == vq.seen + k
                 y == vq.seen + n
      <3>1. x \in Int /\ y \in Int /\ x < y /\ y - x < QSize
        BY <1>1, <2>2, Sizes DEF Idx
      <3> HIDE DEF x, y
      <3>2. x % QSize # y % QSize
        BY <3>1, Sizes, ModDistinct
      <3>3. x % QSize \in Ids
        BY <3>1, PositionType
      <3>4. w.avail[x % QSize] = vq.avail[x % QSize]
        BY <3>2, <3>3, <1>2, <1>4, <1>6 DEF y
      <3> QED
        BY <3>4, <1>4, <1>6 DEF x
    <2>5. /\ Place(w, k, 0) = Place(vq, k, 0) /\ Place(w, k, 1) = Place(vq, k, 1)
          /\ Place(w, k, 2) = Place(vq, k, 2)
      BY <1>8, <2>2
    <2>6. /\ w.desc[Place(vq, k, 0)] = vq.desc[Place(vq, k, 0)]
          /\ w.desc[Place(vq, k, 1)] = vq.desc[Place(vq, k, 1)]
          /\ w.desc[Place(vq, k, 2)] = vq.desc[Place(vq, k, 2)]
      BY <2>3
    <2> QED
      BY <2>1, <2>4, <2>5, <2>6 DEF ChainOK
  <1>12. /\ Place(w, n, 0) = p0 /\ Place(w, n, 1) = p1 /\ Place(w, n, 2) = p2
    BY <1>1, <1>8 DEF p0, p1, p2
  <1>13. ChainOK(w, n)
    <2>1. w.avail[(w.seen + n) % QSize] = p0
      <3> DEFINE x == vq.avail_idx
      <3>1. x % QSize \in Ids
        BY <1>1, PositionType DEF Idx
      <3> QED
        BY <3>1, <1>2, <1>4, <1>6
    <2>2. r.buf \in Bufs /\ r.slot \in Slots
      BY RequestParts
    <2> QED
      BY <2>1, <2>2, <1>10, <1>12 DEF ChainOK
  <1>14. \A k \in 0 .. n : ChainOK(w, k)
    <2>1. \A k \in 0 .. n : k \in 0 .. (n - 1) \/ k = n
      BY <1>1
    <2> QED
      BY <2>1, <1>11, <1>13
  <1> QED
    BY <1>4, <1>6, <1>7, <1>10, <1>12, <1>14 DEF w, f, id, n, L

\* A completion takes the oldest chain away.
LEMMA ChainTaken ==
    ASSUME vq \in Vq(Addrs, {0}), ChainsOK, HasChain(vq)
    PROVE  LET head == HeadChain(vq)
               w == Complete(vq, head, 0)
           IN  /\ head = Place(vq, 0, 0) /\ ChainOK(vq, 0)
               /\ w \in Vq(Addrs, {0})
               /\ w.used_idx = (vq.used_idx + 1) % IdxMod
               /\ Pending(w) = Pending(vq) - 1
               /\ \A k \in 0 .. (Pending(w) - 1) : ChainOK(w, k)
  <1> DEFINE head == HeadChain(vq)
             L == {0}
             len == 0
             w == Complete(vq, head, len)
             n == Pending(vq)
  <1>1. /\ vq.seen \in Idx /\ vq.avail_idx \in Idx /\ n \in Nat /\ n # 0
    BY PendingType DEF Vq
  <1>2. ChainOK(vq, 0) /\ \A k \in 0 .. (n - 1) : ChainOK(vq, k)
    BY <1>1 DEF ChainsOK
  <1>3. head = Place(vq, 0, 0)
    <2>1. vq.seen + 0 = vq.seen
      BY <1>1 DEF Idx
    <2> QED
      BY <1>2, <2>1 DEF ChainOK, HeadChain
  <1>4. head \in Int /\ vq \in Vq(Addrs, L) /\ len \in L
    BY <1>1, <1>3, PlaceType DEF Ids
  <1> HIDE DEF head, L, len, n
  <1>5. /\ w \in Vq(Addrs, L) /\ w.desc = vq.desc /\ w.avail = vq.avail
        /\ w.avail_idx = vq.avail_idx /\ w.seen = (vq.seen + 1) % IdxMod
        /\ w.used_idx = (vq.used_idx + 1) % IdxMod
    BY <1>4, CompleteFields
  <1> HIDE DEF w
  <1>6. Pending(w) = n - 1
    <2>1. vq.seen # vq.avail_idx
      BY DEF HasChain
    <2> QED
      BY <1>1, <1>5, <2>1, BehindShorter DEF Pending, n
  <1>7. ASSUME NEW k \in 0 .. (n - 2) PROVE ChainOK(w, k)
    <2>1. k \in Int /\ k + 1 \in 0 .. (n - 1)
      BY <1>1
    <2>2. ChainOK(vq, k + 1)
      BY <1>2, <2>1
    <2>3. /\ Place(w, k, 0) = Place(vq, k + 1, 0) /\ Place(w, k, 1) = Place(vq, k + 1, 1)
          /\ Place(w, k, 2) = Place(vq, k + 1, 2)
          /\ (w.seen + k) % QSize = (vq.seen + (k + 1)) % QSize
      BY <1>1, <1>5, <2>1, PlaceMoves
    <2> QED
      BY <1>5, <2>2, <2>3 DEF ChainOK
  <1>8. \A k \in 0 .. (Pending(w) - 1) : ChainOK(w, k)
    <2>1. Pending(w) - 1 = n - 2
      BY <1>1, <1>6
    <2> QED
      BY <1>7, <2>1
  <1> QED
    BY <1>2, <1>3, <1>5, <1>6, <1>8 DEF head, w, L, len, n

-----------------------------------------------------------------------------
(* What a request asks for. *)

\* The sector stored in the header is the first of the request.
LEMMA SectorStored ==
    ASSUME Addressable, NEW r \in AnyRequest, ~BeyondEnd(r.blocknum, r.cnt)
    PROVE  /\ HdrSector(r.blocknum) = r.blocknum * BlkSectors
           /\ r.blocknum * BlkSectors \in 0 .. (SectorMod - 1)
           /\ Writable(r.blocknum) => r.blocknum * BlkSectors >= Protected * BlkSectors
  <1> DEFINE b == r.blocknum
             s == b * BlkSectors
             c == Capacity * BlkSectors
             p == Protected * BlkSectors
  <1>1. b \in Nat /\ r.cnt \in Nat \ {0} /\ BlkSectors \in Nat /\ Capacity \in Nat
        /\ Protected \in Nat /\ SectorMod \in Nat \ {0}
    BY RequestParts, DiskAssumption, ProtectedAssumption, SectorModAssumption
  <1>2. b <= Capacity
    BY <1>1, DiskAssumption DEF BeyondEnd
  <1> HIDE DEF b
  <1>3. s \in Nat /\ c \in Nat /\ p \in Nat
    BY <1>1
  <1>4. s <= c
    BY <1>1, <1>2, MulMono
  <1>5. c < SectorMod
    BY DEF Addressable
  <1>6. Protected <= b => p <= s
    BY <1>1, MulMono
  <1> HIDE DEF s, c, p
  <1>7. s % SectorMod = s /\ s \in 0 .. (SectorMod - 1)
    BY <1>1, <1>3, <1>4, <1>5
  <1>8. Protected <= b => s >= p
    BY <1>3, <1>6
  <1> QED
    BY <1>1, <1>7, <1>8 DEF HdrSector, Writable, s, p, b

\* When the blocks of a request lie on the disk, in the device's terms.
LEMMA InsideIs ==
    ASSUME NEW r \in AnyRequest
    PROVE  /\ Inside(r) <=> r.blocknum * BlkSectors + r.cnt * BlkSectors <= Capacity
           /\ BeyondEnd(r.blocknum, r.cnt) => ~Inside(r)
  <1> DEFINE b == r.blocknum
             n == r.cnt
             s == b * BlkSectors
             l == n * BlkSectors
             one == 1
             t == b + n
  <1>1. /\ b \in Nat /\ n \in Nat \ {0} /\ BlkSectors \in Nat \ {0} /\ Capacity \in Nat \ {0}
        /\ one \in Int /\ t \in Nat
    BY RequestParts, DiskAssumption
  <1>2. s \in Nat /\ l \in Nat /\ t * BlkSectors = s + l
    BY <1>1
  <1>3. BlkSectors >= one /\ one * n <= BlkSectors * n /\ one * t <= BlkSectors * t
    <2>1. BlkSectors \in Int /\ n \in Nat /\ one <= BlkSectors
      BY <1>1
    <2> HIDE DEF one, n, b, t
    <2>2. one * n <= BlkSectors * n
      BY <1>1, <2>1, MulMono
    <2>3. one * t <= BlkSectors * t
      BY <1>1, <2>1, MulMono
    <2> QED
      BY <1>1, <2>1, <2>2, <2>3
  <1>4. BlkSectors * n = l /\ BlkSectors * t = s + l
    BY <1>1, <1>2
  <1>5. n <= l /\ t <= s + l
    BY <1>1, <1>3, <1>4
  <1>6. SectorsOf(r) = s .. (s + l - 1)
    <2>1. SectorsOf(r) = s .. (t * BlkSectors - 1)
      BY DEF SectorsOf
    <2> HIDE DEF s, l, t
    <2> QED
      BY <2>1, <1>2
  <1>7. BeyondEnd(r.blocknum, r.cnt) <=> t - 1 > Capacity
    BY <1>1 DEF BeyondEnd
  <1> HIDE DEF b, n, s, l, t
  <1>8. l >= 1
    BY <1>1, <1>2, <1>5
  <1>9. Inside(r) <=> s + l <= Capacity
    <2>1. ASSUME Inside(r) PROVE s + l <= Capacity
      <3>1. s + l - 1 \in s .. (s + l - 1)
        BY <1>2, <1>8
      <3>2. s + l - 1 \in Sectors
        BY <2>1, <3>1, <1>6 DEF Inside
      <3> QED
        BY <3>2, <1>1, <1>2 DEF Sectors
    <2>2. ASSUME s + l <= Capacity PROVE Inside(r)
      <3>1. s .. (s + l - 1) \subseteq 0 .. (Capacity - 1)
        BY <2>2, <1>1, <1>2
      <3> QED
        BY <3>1, <1>6 DEF Inside, Sectors
    <2> QED
      BY <2>1, <2>2
  <1>10. t - 1 > Capacity => ~(s + l <= Capacity)
    BY <1>1, <1>2, <1>5
  <1> QED
    BY <1>7, <1>9, <1>10 DEF s, l, b, n

-----------------------------------------------------------------------------
(* One lemma per operation. *)

\* The type of the queue, as the lemmas about it want it.
LEMMA QueueType ==
    ASSUME TypeOK
    PROVE  /\ vq \in Vq(Addrs, {0})
           /\ vq.seen \in Idx /\ vq.avail_idx \in Idx /\ vq.used_idx \in Idx
  BY DEF TypeOK, Addrs, Vq

\* A queue nothing waits in.
LEMMA EmptyQueue ==
    ASSUME Pending(vq)' = 0
    PROVE  ChainsOK'
  BY PendingAssumption DEF ChainsOK

LEMMA InitRight ==
    ASSUME Init
    PROVE  IndInv
  <1> DEFINE L == {0}
             z == 0
  <1>1. z \in L
    OBVIOUS
  <1> HIDE DEF L, z
  <1>2. /\ virtio_queue_init_vq(z) \in Vq(Addrs, L)
        /\ virtio_queue_init_vq(z).seen = 0 /\ virtio_queue_init_vq(z).avail_idx = 0
        /\ 0 \in Idx /\ Behind(0, 0) = 0
    BY <1>1, InitFields
  <1>3. vq \in Vq(Addrs, {0}) /\ Pending(vq) = 0 /\ last_used_idx \in Idx
    BY <1>2 DEF Init, L, z, Pending
  <1>4. 0 \in 0 .. (SectorMod - 1)
    BY SectorModAssumption
  <1>5. TypeOK
    <2>1. \A s \in Sectors : disk[s] \in Sectors \cup {Written}
      BY DEF Init
    <2>2. status \in [Slots -> {0, 1, Unset}]
      BY DEF Init
    <2> QED
      BY <1>3, <1>4, <2>1, <2>2 DEF Init, TypeOK, Addrs
  <1>6. ContentsOK
    <2>1. disk \in [Sectors -> Values]
      BY DEF Init, Values
    <2>2. buf \in [Bufs -> Seq(Values)]
      BY DEF Init
    <2>3. late \in BOOLEAN
      BY DEF Init
    <2>4. blkhdr \in [type : {BLK_T_IN, BLK_T_OUT}, sector : 0 .. (SectorMod - 1)]
      BY <1>4 DEF Init
    <2> QED
      BY <2>1, <2>2, <2>3, <2>4 DEF ContentsOK
  <1>7. ChainsOK
    BY <1>3, PendingAssumption DEF ChainsOK
  <1>8. HeaderSpares /\ RequestOK /\ InTime /\ ReportsRight
    BY DEF Init, HeaderSpares, BLK_T_IN, BLK_T_OUT, RequestOK, InTime, ReportsRight,
           TransferCorrectInTime, InRangeSucceeds
  <1>9. PartitionTableKept
    BY DEF Init, PartitionTableKept
  <1> QED
    BY <1>5, <1>6, <1>7, <1>8, <1>9 DEF IndInv

\* The first open of the node.
LEMMA OpenRight ==
    ASSUME IndInv, virtioblk_init
    PROVE  IndInv'
  <1> USE DEF IndInv
  <1> DEFINE L == {0}
             z == 0
  <1>1. z \in L
    OBVIOUS
  <1> HIDE DEF L, z
  <1>2. /\ virtio_queue_init_vq(z) \in Vq(Addrs, L)
        /\ virtio_queue_init_vq(z).seen = 0 /\ virtio_queue_init_vq(z).avail_idx = 0
        /\ 0 \in Idx /\ Behind(0, 0) = 0
    BY <1>1, InitFields
  <1>3. vq' \in Vq(Addrs, {0}) /\ Pending(vq)' = 0
    BY <1>2 DEF virtioblk_init, L, z, Pending
  <1>4. TypeOK'
    BY <1>3 DEF virtioblk_init, TypeOK, Addrs
  <1>5. ContentsOK'
    <2>1. late' \in BOOLEAN
      BY DEF virtioblk_init
    <2> QED
      BY <2>1 DEF virtioblk_init, ContentsOK
  <1>6. ChainsOK'
    BY <1>3, EmptyQueue
  <1>7. HeaderSpares' /\ PartitionTableKept'
    BY DEF virtioblk_init, HeaderSpares, PartitionTableKept
  <1>8. RequestOK' /\ InTime'
    BY <1>3 DEF virtioblk_init, RequestOK, InTime
  <1>9. ReportsRight'
    BY DEF virtioblk_init, ReportsRight, TransferCorrectInTime, InRangeSucceeds
  <1> QED
    BY <1>4, <1>5, <1>6, <1>7, <1>8, <1>9

\* The quiesce hook.
LEMMA ShutdownRight ==
    ASSUME IndInv, virtioblk_shutdown
    PROVE  IndInv'
  <1> USE DEF IndInv
  <1>1. /\ vq \in Vq(Addrs, {0})
        /\ vq.seen \in Idx /\ vq.avail_idx \in Idx /\ vq.used_idx \in Idx
    BY QueueType
  <1>2. /\ vq' \in Vq(Addrs, {0}) /\ vq'.seen = vq.avail_idx /\ vq'.avail_idx = vq.avail_idx
    BY <1>1 DEF virtioblk_shutdown, Vq
  <1>3. Pending(vq)' = 0
    BY <1>1, <1>2, BehindIs DEF Pending
  <1>4. TypeOK'
    BY <1>2 DEF virtioblk_shutdown, TypeOK, Addrs
  <1>5. ContentsOK'
    BY DEF virtioblk_shutdown, ContentsOK
  <1>6. ChainsOK'
    BY <1>3, EmptyQueue
  <1>7. HeaderSpares' /\ PartitionTableKept'
    BY DEF virtioblk_shutdown, HeaderSpares, PartitionTableKept
  <1>8. RequestOK' /\ InTime'
    BY DEF virtioblk_shutdown, RequestOK, InTime
  <1>9. ReportsRight'
    BY DEF virtioblk_shutdown, ReportsRight, TransferCorrectInTime, InRangeSucceeds
  <1> QED
    BY <1>4, <1>5, <1>6, <1>7, <1>8, <1>9

\* The early returns.
LEMMA RejectRight ==
    ASSUME IndInv, Reject
    PROVE  IndInv'
  <1> USE DEF IndInv
  <1>1. /\ UNCHANGED <<pc, vq, blkhdr, buf, disk, status, req, last_used_idx, late>>
        /\ pc = "idle"
    BY DEF Reject
  <1>2. PICK r \in AnyRequest :
           /\ \/ BeyondEnd(r.blocknum, r.cnt)
              \/ r.type = BLK_T_OUT /\ ~Writable(r.blocknum)
           /\ last' = [req |-> r, ret |-> 0]
    BY DEF Reject, AnyRequest
  <1>3. TypeOK'
    BY <1>1 DEF TypeOK
  <1>4. ContentsOK' /\ HeaderSpares' /\ PartitionTableKept'
    BY <1>1 DEF ContentsOK, HeaderSpares, PartitionTableKept
  <1>5. ChainsOK'
    BY <1>1 DEF ChainsOK
  <1>6. RequestOK' /\ InTime'
    BY <1>1 DEF RequestOK, InTime
  <1>7. TransferCorrectInTime'
    BY <1>2 DEF TransferCorrectInTime
  <1>8. InRangeSucceeds'
    <2>1. ~Inside(r) \/ (r.type # BLK_T_IN /\ ~Writable(r.blocknum))
      BY <1>2, InsideIs DEF BLK_T_IN, BLK_T_OUT
    <2> QED
      BY <1>2, <2>1 DEF InRangeSucceeds, Inside
  <1> QED
    BY <1>3, <1>4, <1>5, <1>6, <1>7, <1>8 DEF ReportsRight

\* virtioblk_transfer up to the wait loop.
LEMMA SubmitRight ==
    ASSUME Addressable, IndInv, NEW r \in AnyRequest, Submit(r),
           r.type = BLK_T_OUT => Writable(r.blocknum),
           buf' \in [Bufs -> Seq(Values)],
           r.type = BLK_T_OUT => buf'[r.buf] = [k \in 1 .. r.cnt * BlkSectors |-> Written]
    PROVE  IndInv'
  <1> USE DEF IndInv
  <1> DEFINE n == Pending(vq)
  <1>1. /\ pc = "idle" /\ pc' = "wait" /\ req' = r
        /\ last_used_idx' = vq.used_idx
        /\ ~BeyondEnd(r.blocknum, r.cnt)
        /\ blkhdr' = [type |-> r.type, sector |-> HdrSector(r.blocknum)]
        /\ UNCHANGED <<disk, last, late>>
    BY DEF Submit
  <1>2. /\ vq \in Vq(Addrs, {0}) /\ vq.used_idx \in Idx
        /\ n \in Nat /\ n < MaxPending /\ MaxPending \in Nat
    BY QueueType, PendingType, PendingAssumption DEF Submit, Pending
  <1>3. /\ vq' \in Vq(Addrs, {0}) /\ vq'.used_idx = vq.used_idx
        /\ Pending(vq)' = n + 1
        /\ \A k \in 0 .. n : ChainOK(vq', k)
        /\ vq'.desc[Place(vq', n, 1)].addr = r.buf
        /\ vq'.desc[Place(vq', n, 1)].len = r.cnt * BlkSectors
        /\ vq'.desc[Place(vq', n, 2)].addr = r.slot
    <2>1. vq' = Publish(FillChain(ChainId(vq.avail_idx), r), ChainId(vq.avail_idx))
      BY DEF Submit
    <2>2. Pending(vq)' = Pending(vq')
      BY DEF Pending
    <2> QED
      BY <1>2, <2>1, <2>2, ChainAppended
  <1>4. /\ HdrSector(r.blocknum) = r.blocknum * BlkSectors
        /\ r.blocknum * BlkSectors \in 0 .. (SectorMod - 1)
        /\ Writable(r.blocknum) => r.blocknum * BlkSectors >= Protected * BlkSectors
    BY <1>1, SectorStored
  <1>5. r.type \in {BLK_T_IN, BLK_T_OUT} /\ r.slot \in Slots
    BY RequestParts
  <1> HIDE DEF n
  <1>6. TypeOK'
    <2>1. status' \in [Slots -> {0, 1, Unset}]
      BY DEF Submit, TypeOK
    <2>2. \A s \in Sectors : disk'[s] \in Sectors \cup {Written}
      BY <1>1 DEF TypeOK
    <2>3. blkhdr'.sector \in 0 .. (SectorMod - 1)
      BY <1>1, <1>4
    <2> QED
      BY <1>1, <1>2, <1>3, <2>1, <2>2, <2>3 DEF TypeOK, Addrs
  <1>7. ContentsOK'
    BY <1>1, <1>4, <1>5 DEF ContentsOK
  <1>8. ChainsOK'
    <2>1. ASSUME NEW k \in 0 .. (Pending(vq)' - 1) PROVE ChainOK(vq', k)
      <3>1. k \in 0 .. n
        BY <1>2, <1>3
      <3> QED
        BY <1>3, <3>1
    <2>2. Pending(vq)' <= MaxPending
      BY <1>2, <1>3
    <2>3. \A k \in 0 .. (Pending(vq)' - 1) : ChainOK(vq, k)'
      BY <2>1 DEF ChainOK, Place
    <2> QED
      BY <2>2, <2>3 DEF ChainsOK
  <1>9. HeaderSpares'
    BY <1>1, <1>4 DEF HeaderSpares
  <1>10. RequestOK'
    BY <1>1 DEF RequestOK, BeyondEnd, Writable, AnyRequest, Requests
  <1>11. InTime'
    <2>1. SUFFICES ASSUME ~late PROVE Outstanding'
      BY <1>1, <1>4 DEF InTime
    <2>2. n = 0
      BY <1>1, <2>1 DEF InTime, n
    <2>3. /\ vq'.desc[Place(vq', 0, 1)].addr = r.buf
          /\ vq'.desc[Place(vq', 0, 1)].len = r.cnt * BlkSectors
          /\ vq'.desc[Place(vq', 0, 2)].addr = r.slot
          /\ Pending(vq)' = 1
      BY <1>3, <2>2
    <2>4. /\ (vq.desc[Place(vq, 0, 1)].addr = req.buf)'
          /\ (vq.desc[Place(vq, 0, 1)].len = req.cnt * BlkSectors)'
          /\ (vq.desc[Place(vq, 0, 2)].addr = req.slot)'
      BY <1>1, <2>3 DEF Place
    <2>5. (vq.used_idx = last_used_idx)'
      BY <1>1, <1>3
    <2>6. (req.type = BLK_T_OUT => buf[req.buf] = [k \in 1 .. req.cnt * BlkSectors |-> Written])'
      BY <1>1 DEF BLK_T_OUT
    <2> QED
      BY <2>3, <2>4, <2>5, <2>6 DEF Outstanding
  <1>12. ReportsRight'
    BY <1>1 DEF ReportsRight, TransferCorrectInTime, InRangeSucceeds
  <1>13. PartitionTableKept'
    BY <1>1 DEF PartitionTableKept, Sectors
  <1> QED
    BY <1>6, <1>7, <1>8, <1>9, <1>10, <1>11, <1>12, <1>13

LEMMA SubmitReadRight ==
    ASSUME Addressable, IndInv, SubmitRead
    PROVE  IndInv'
  <1>1. PICK r \in Requests(BLK_T_IN) : Submit(r) /\ UNCHANGED buf
    BY DEF SubmitRead
  <1>2. r \in AnyRequest /\ r.type # BLK_T_OUT
    BY DEF AnyRequest, Requests, BLK_T_IN, BLK_T_OUT
  <1>3. buf' \in [Bufs -> Seq(Values)]
    BY <1>1 DEF IndInv, ContentsOK
  <1> QED
    BY <1>1, <1>2, <1>3, SubmitRight

LEMMA SubmitWriteRight ==
    ASSUME Addressable, IndInv, SubmitWrite
    PROVE  IndInv'
  <1>1. PICK r \in Requests(BLK_T_OUT) :
           /\ Writable(r.blocknum)
           /\ Submit(r)
           /\ buf' = [buf EXCEPT ![r.buf] = [k \in 1 .. r.cnt * BlkSectors |-> Written]]
    BY DEF SubmitWrite
  <1>2. r \in AnyRequest
    BY DEF AnyRequest
  <1> DEFINE len == r.cnt * BlkSectors
             data == [k \in 1 .. len |-> Written]
  <1>3. len \in Nat /\ r.buf \in Bufs
    BY <1>2, RequestParts
  <1>4. buf \in [Bufs -> Seq(Values)] /\ Written \in Values
    BY DEF IndInv, ContentsOK, Values
  <1>5. buf' = [buf EXCEPT ![r.buf] = data]
    BY <1>1
  <1> HIDE DEF len
  <1>6. data \in Seq(Values)
    BY <1>3, <1>4
  <1> HIDE DEF data
  <1>7. buf' \in [Bufs -> Seq(Values)] /\ buf'[r.buf] = data
    BY <1>3, <1>4, <1>5, <1>6
  <1>8. buf'[r.buf] = [k \in 1 .. r.cnt * BlkSectors |-> Written]
    BY <1>7 DEF data, len
  <1> QED
    BY <1>1, <1>2, <1>7, <1>8, SubmitRight

\* The wait loop ends.
LEMMA ReturnRight ==
    ASSUME IndInv, Finish \/ Timeout
    PROVE  IndInv'
  <1> USE DEF IndInv
  <1>1. /\ UNCHANGED <<vq, blkhdr, buf, disk, status, req, last_used_idx>>
        /\ pc = "wait" /\ pc' = "idle" /\ late' \in BOOLEAN
        /\ last' = [req |-> req, ret |-> Result]
    BY DEF Finish, Timeout, ContentsOK
  <1>2. TypeOK'
    BY <1>1 DEF TypeOK
  <1>3. ContentsOK'
    BY <1>1 DEF ContentsOK
  <1>4. ChainsOK' /\ HeaderSpares' /\ PartitionTableKept'
    BY <1>1 DEF ChainsOK, HeaderSpares, PartitionTableKept
  <1>5. RequestOK'
    BY <1>1 DEF RequestOK
  <1>6. CASE late'
    BY <1>2, <1>3, <1>4, <1>5, <1>6 DEF InTime, ReportsRight, TransferCorrectInTime, InRangeSucceeds
  <1>7. CASE ~late'
    <2>1. ~late /\ vq.used_idx # last_used_idx
      BY <1>7 DEF Finish, Timeout
    <2>2. Executed
      BY <1>1, <2>1 DEF InTime, Outstanding
    <2>3. req \in AnyRequest
      BY <1>1 DEF RequestOK
    <2>4. InTime'
      BY <1>1, <2>2 DEF InTime, Executed
    <2>5. Inside(req) => Result = req.cnt /\ Moved(req)
      BY <2>2 DEF Executed, Result
    <2>6. ~Inside(req) => Result = 0
      BY <2>2 DEF Executed, Result
    <2>7. last'.req = req /\ last'.ret = Result
      BY <1>1
    <2>8. Moved(req) => Moved(last.req)'
      BY <1>1, <2>7 DEF Moved, Inside, SectorsOf, Sectors
    <2>9. TransferCorrectInTime'
      BY <2>5, <2>6, <2>7, <2>8 DEF TransferCorrectInTime
    <2>10. InRangeSucceeds'
      BY <2>5, <2>7 DEF InRangeSucceeds, Inside, SectorsOf, Sectors
    <2> QED
      BY <1>2, <1>3, <1>4, <1>5, <2>4, <2>9, <2>10 DEF ReportsRight
  <1> QED
    BY <1>1, <1>6, <1>7

\* The device executes a chain: the one waited for, or one that was given up.
LEMMA DeviceExecutesRight ==
    ASSUME IndInv, DeviceExecutes
    PROVE  IndInv'
  <1> USE DEF IndInv
  <1> DEFINE head == HeadChain(vq)
             data == vq.desc[vq.desc[head].next]
             st == vq.desc[data.next].addr
             len == data.len
             first == blkhdr.sector
             inside == first + len <= Capacity
             moved == [k \in 1 .. len |-> disk[first + k - 1]]
             contents == buf[data.addr]
             written == [s \in Sectors |->
                            IF s \in first .. (first + len - 1) /\ s - first + 1 <= Len(contents)
                            THEN contents[s - first + 1] ELSE disk[s]]
  <1>1. /\ pc # "down" /\ HasChain(vq)
        /\ UNCHANGED <<pc, blkhdr, req, last_used_idx, last, late>>
        /\ vq' = Complete(vq, head, 0)
        /\ buf' = IF inside /\ blkhdr.type = BLK_T_IN /\ data.addr \in Bufs
                  THEN [buf EXCEPT ![data.addr] = moved] ELSE buf
        /\ disk' = IF inside /\ blkhdr.type = BLK_T_OUT /\ data.addr \in Bufs
                   THEN written ELSE disk
        /\ status' = IF st \in Slots
                     THEN [status EXCEPT ![st] = IF inside THEN 0 ELSE 1] ELSE status
    BY DEF DeviceExecutes
  <1>2. /\ vq \in Vq(Addrs, {0})
        /\ vq.seen \in Idx /\ vq.avail_idx \in Idx /\ vq.used_idx \in Idx
    BY QueueType
  <1>3. /\ head = Place(vq, 0, 0) /\ ChainOK(vq, 0)
        /\ vq' \in Vq(Addrs, {0})
        /\ vq'.used_idx = (vq.used_idx + 1) % IdxMod
        /\ Pending(vq') = Pending(vq) - 1
        /\ \A k \in 0 .. (Pending(vq') - 1) : ChainOK(vq', k)
    BY <1>1, <1>2, ChainTaken
  <1>4. /\ data = vq.desc[Place(vq, 0, 1)] /\ st = vq.desc[Place(vq, 0, 2)].addr
        /\ data.addr \in Bufs /\ st \in Slots
    BY <1>3 DEF ChainOK
  <1>5. len \in Nat
    <2>1. Place(vq, 0, 1) \in Ids
      BY <1>2, PlaceType
    <2> QED
      BY <1>2, <1>4, <2>1 DEF Vq, Desc
  <1>6. /\ first \in Nat /\ buf \in [Bufs -> Seq(Values)] /\ disk \in [Sectors -> Values]
        /\ late \in BOOLEAN /\ Capacity \in Nat \ {0}
        /\ blkhdr \in [type : {BLK_T_IN, BLK_T_OUT}, sector : 0 .. (SectorMod - 1)]
    BY DiskAssumption, SectorModAssumption DEF ContentsOK
  <1>7. contents \in Seq(Values)
    BY <1>4, <1>6
  <1> DEFINE addr == data.addr
  <1> HIDE DEF head, data, st, len, first, contents, addr
  <1>8. inside => moved \in Seq(Values)
    <2>1. ASSUME inside, NEW k \in 1 .. len PROVE disk[first + k - 1] \in Values
      <3>1. first + k - 1 \in Sectors
        BY <2>1, <1>5, <1>6 DEF Sectors
      <3> QED
        BY <3>1, <1>6
    <2> QED
      BY <2>1, <1>5
  <1>9. written \in [Sectors -> Values]
    <2>1. ASSUME NEW s \in Sectors, s \in first .. (first + len - 1), s - first + 1 <= Len(contents)
          PROVE  contents[s - first + 1] \in Values
      <3>1. s - first + 1 \in 1 .. Len(contents)
        BY <2>1, <1>5, <1>6, <1>7
      <3> QED
        BY <3>1, <1>7
    <2> QED
      BY <2>1, <1>6
  <1>10. buf' \in [Bufs -> Seq(Values)]
    <2> HIDE DEF moved, inside
    <2> QED
      BY <1>1, <1>6, <1>8
  <1>11. disk' \in [Sectors -> Values]
    <2> HIDE DEF written, inside
    <2> QED
      BY <1>1, <1>6, <1>9
  <1>12. TypeOK'
    <2>1. status' \in [Slots -> {0, 1, Unset}]
      BY <1>1 DEF TypeOK
    <2>2. \A s \in Sectors : disk'[s] \in Sectors \cup {Written}
      BY <1>11 DEF Values
    <2> QED
      BY <1>1, <1>3, <2>1, <2>2 DEF TypeOK, Addrs
  <1>13. ContentsOK'
    BY <1>1, <1>6, <1>10, <1>11 DEF ContentsOK
  <1>14. ChainsOK'
    <2>1. Pending(vq)' = Pending(vq')
      BY DEF Pending
    <2>2. Pending(vq) \in Nat /\ Pending(vq) <= MaxPending /\ MaxPending \in Nat
      BY <1>2, PendingType, PendingAssumption DEF ChainsOK
    <2>3. Pending(vq)' <= MaxPending
      BY <1>3, <2>1, <2>2
    <2>4. \A k \in 0 .. (Pending(vq)' - 1) : ChainOK(vq, k)'
      BY <1>3, <2>1 DEF ChainOK, Place
    <2> QED
      BY <2>3, <2>4 DEF ChainsOK
  <1>15. HeaderSpares' /\ RequestOK'
    BY <1>1 DEF HeaderSpares, RequestOK
  <1>16. PartitionTableKept'
    <2> DEFINE p == Protected * BlkSectors
    <2> SUFFICES ASSUME NEW s \in Sectors, s < p PROVE disk'[s] = s
      BY DEF PartitionTableKept, Sectors
    <2>1. disk[s] = s
      BY DEF PartitionTableKept
    <2>2. p \in Nat
      BY ProtectedAssumption, DiskAssumption
    <2>3. CASE blkhdr.type = BLK_T_OUT
      <3>1. first >= p
        BY <2>3 DEF HeaderSpares, first
      <3> HIDE DEF p
      <3>2. s \notin first .. (first + len - 1)
        BY <3>1, <2>2, <1>5, <1>6, DiskAssumption DEF Sectors
      <3>3. written[s] = disk[s]
        BY <3>2
      <3> HIDE DEF written
      <3> QED
        BY <3>3, <2>1, <1>1
    <2>4. CASE blkhdr.type # BLK_T_OUT
      BY <2>4, <2>1, <1>1
    <2> QED
      BY <2>3, <2>4
  <1>17. CASE pc = "idle"
    <2>1. late
      BY <1>1, <1>2, <1>17, PendingType, Zenon DEF InTime
    <2>2. late'
      BY <2>1, <1>1
    <2>3. InTime' /\ ReportsRight'
      BY <2>2 DEF InTime, ReportsRight, TransferCorrectInTime, InRangeSucceeds
    <2> QED
      BY <2>3, <1>12, <1>13, <1>14, <1>15, <1>16
  <1>18. CASE pc = "wait"
    <2>1. ReportsRight'
      BY <1>1, <1>18 DEF ReportsRight, TransferCorrectInTime, InRangeSucceeds
    <2>2. InTime'
      <3>1. SUFFICES ASSUME ~late PROVE Executed'
        BY <1>1, <1>18 DEF InTime
      <3>2. /\ Outstanding
            /\ blkhdr = [type |-> req.type, sector |-> req.blocknum * BlkSectors]
        <4>1. Pending(vq) # 0
          BY <1>1, <1>2, PendingType
        <4> QED
          BY <3>1, <4>1, <1>18 DEF InTime, Executed
      <3>3. /\ req \in AnyRequest /\ Pending(vq)' = 0
            /\ addr = req.buf /\ len = req.cnt * BlkSectors /\ st = req.slot
            /\ req.type = BLK_T_OUT => contents = [k \in 1 .. req.cnt * BlkSectors |-> Written]
        <4>1. Pending(vq)' = Pending(vq')
          BY DEF Pending
        <4>2. Pending(vq)' = 0
          BY <4>1, <3>2, <1>3 DEF Outstanding
        <4> QED
          BY <4>2, <3>2, <1>4, <1>18 DEF Outstanding, RequestOK, addr, len, contents
      <3>4. /\ first = req.blocknum * BlkSectors /\ blkhdr.type = req.type
            /\ req.type \in {BLK_T_IN, BLK_T_OUT} /\ req.buf \in Bufs /\ req.slot \in Slots
        BY <3>2, <3>3, RequestParts DEF first
      <3>5. inside <=> Inside(req)
        BY <3>3, <3>4, InsideIs
      <3>6. status'[req.slot] = IF inside THEN 0 ELSE 1
        <4>1. status \in [Slots -> {0, 1, Unset}]
          BY DEF TypeOK
        <4> HIDE DEF inside
        <4> QED
          BY <4>1, <1>1, <1>4, <3>3, <3>4
      <3>7. inside => Moved(req)'
        <4> SUFFICES ASSUME inside PROVE Moved(req)'
          OBVIOUS
        <4>1. Inside(req)'
          BY <3>5, <1>1 DEF Inside, SectorsOf, Sectors
        <4>2. /\ Len(buf'[req.buf]) = len
              /\ \A k \in 1 .. len : buf'[req.buf][k] = disk'[first + k - 1]
          <5>1. CASE req.type = BLK_T_IN
            <6>1. disk' = disk
              BY <5>1, <3>4, <1>1 DEF BLK_T_IN, BLK_T_OUT
            <6>2. buf' = [buf EXCEPT ![req.buf] = moved]
              BY <5>1, <3>3, <3>4, <1>1, <1>4 DEF addr
            <6>3. Len(moved) = len /\ \A k \in 1 .. len : moved[k] = disk[first + k - 1]
              BY <1>5
            <6> HIDE DEF moved
            <6>4. buf'[req.buf] = moved
              BY <6>2, <3>4, <1>6
            <6> QED
              BY <6>1, <6>3, <6>4
          <5>2. CASE req.type = BLK_T_OUT
            <6>1. disk' = written /\ buf' = buf
              BY <5>2, <3>4, <1>1, <1>4 DEF BLK_T_IN, BLK_T_OUT
            <6>2. contents = buf[req.buf]
              BY <3>3 DEF contents, addr
            <6>3. contents = [k \in 1 .. len |-> Written]
              BY <5>2, <3>3
            <6>4. Len(contents) = len /\ \A k \in 1 .. len : contents[k] = Written
              BY <6>3, <1>5
            <6>5. ASSUME NEW k \in 1 .. len PROVE written[first + k - 1] = contents[k]
              <7> DEFINE s == first + k - 1
              <7>1. /\ s \in Sectors /\ s \in first .. (first + len - 1)
                    /\ s - first + 1 = k /\ k <= len
                BY <1>5, <1>6 DEF Sectors
              <7> HIDE DEF s
              <7>2. written[s] = contents[k]
                BY <7>1, <6>4
              <7> QED
                BY <7>2 DEF s
            <6> HIDE DEF written
            <6> QED
              BY <6>1, <6>2, <6>4, <6>5
          <5> QED
            BY <5>1, <5>2, <3>4
        <4>3. /\ Len(buf'[req.buf]) = req.cnt * BlkSectors
              /\ \A k \in 1 .. req.cnt * BlkSectors :
                    buf'[req.buf][k] = disk'[req.blocknum * BlkSectors + k - 1]
          BY <4>2, <3>3, <3>4
        <4> QED
          BY <4>1, <4>3, <1>1 DEF Moved
      <3>8. /\ Inside(req)' <=> inside
            /\ status'[req'.slot] = IF inside THEN 0 ELSE 1
        BY <1>1, <3>5, <3>6 DEF Inside, SectorsOf, Sectors
      <3> HIDE DEF inside
      <3> QED
        BY <3>3, <3>7, <3>8 DEF Executed
    <2> QED
      BY <2>1, <2>2, <1>12, <1>13, <1>14, <1>15, <1>16
  <1> QED
    BY <1>1, <1>17, <1>18 DEF TypeOK

-----------------------------------------------------------------------------

LEMMA Stutters ==
    ASSUME IndInv, UNCHANGED vars
    PROVE  IndInv'
  <1>1. UNCHANGED <<pc, vq, blkhdr, buf, disk, status, req, last_used_idx, last, late>>
    BY DEF vars
  <1>2. TypeOK' /\ ContentsOK' /\ ChainsOK' /\ HeaderSpares'
    BY <1>1 DEF IndInv, TypeOK, ContentsOK, ChainsOK, HeaderSpares
  <1>3. RequestOK' /\ PartitionTableKept'
    BY <1>1 DEF IndInv, RequestOK, PartitionTableKept
  <1>4. InTime'
    BY <1>1 DEF IndInv, InTime, Outstanding, Executed, Moved
  <1>5. ReportsRight'
    BY <1>1 DEF IndInv, ReportsRight, TransferCorrectInTime, InRangeSucceeds, Moved
  <1> QED
    BY <1>2, <1>3, <1>4, <1>5 DEF IndInv

LEMMA Inductive ==
    ASSUME Addressable, IndInv, [Next]_vars
    PROVE  IndInv'
  <1>1. CASE virtioblk_init
    BY <1>1, OpenRight
  <1>2. CASE virtioblk_shutdown
    BY <1>2, ShutdownRight
  <1>3. CASE SubmitRead
    BY <1>3, SubmitReadRight
  <1>4. CASE SubmitWrite
    BY <1>4, SubmitWriteRight
  <1>5. CASE Reject
    BY <1>5, RejectRight
  <1>6. CASE DeviceExecutes
    BY <1>6, DeviceExecutesRight
  <1>7. CASE Finish \/ Timeout
    BY <1>7, ReturnRight
  <1>8. CASE UNCHANGED vars
    BY <1>8, Stutters
  <1> QED
    BY <1>1, <1>2, <1>3, <1>4, <1>5, <1>6, <1>7, <1>8 DEF Next

LEMMA AlwaysInv ==
    ASSUME Addressable
    PROVE  Spec => []IndInv
  <1>1. Init => IndInv
    BY InitRight
  <1>2. IndInv /\ [Next]_vars => IndInv'
    BY Inductive
  <1> QED
    BY <1>1, <1>2, PTL DEF Spec

\* "Do not allow writes to the partition table": for every disk, block size and queue,
\* no sequence of requests, timeouts and late executions changes a sector of the blocks
\* that write-blocks protects (virtioblk_transfer, write-blocks).
THEOREM TableKept ==
    ASSUME Addressable
    PROVE  Spec => []PartitionTableKept
  <1>1. IndInv => PartitionTableKept
    BY DEF IndInv
  <1> QED
    BY <1>1, AlwaysInv, PTL

\* As long as the device answers in time, a transfer reports success exactly if its
\* blocks lie on the disk and may be written, and the blocks reported are then equal to
\* the buffer; every variable has its type (virtioblk_transfer).
THEOREM TransfersAsReported ==
    ASSUME Addressable
    PROVE  Spec => []TransfersRight
  <1>1. IndInv => TransfersRight
    BY DEF IndInv, TransfersRight, ReportsRight
  <1> QED
    BY <1>1, AlwaysInv, PTL

-----------------------------------------------------------------------------
(* The SCSI disk. *)

ScsiAddrs == {S!Req, S!Rsp, S!Buf}
ScsiLens == {0}

ScsiTypes ==
    /\ spc \in {"down", "idle", "send", "wait"}
    /\ svq \in Vq(ScsiAddrs, ScsiLens)
    /\ vs_rsp \in S!Rsps
    /\ rcmd \in ScsiCommands \cup {S!NoCommand}

\* The oldest chain has the descriptors of command c behind the request.
ScsiChained(q, c) ==
    LET second == q.desc[q.desc[HeadChain(q)].next]
    IN  /\ c.op = "read" => second.addr = S!Rsp /\ second.next # -1
        /\ c.op = "write" => second.addr = S!Buf

\* The device has not yet taken the attempt being waited for,
ScsiWaiting ==
    /\ svq.used_idx = sused /\ svq.avail_idx = (svq.seen + 1) % IdxMod
    /\ ScsiChained(svq, rcmd)

\* or it has answered: the response is its own, and data moved if it was carried out.
ScsiAnswered ==
    /\ vs_req = rcmd /\ vs_rsp \in ScsiAnswers
    /\ S!CarriedOut(vs_rsp) => /\ rcmd.op = "read" => sbuf = <<"in", rcmd.tag>>
                               /\ rcmd.op = "write" => target = <<"out", rcmd.tag>>

\* As long as no attempt has timed out, nothing is outstanding between attempts.
ScsiInTime ==
    (~slate /\ spc # "down") =>
        /\ spc # "wait" => svq.seen = svq.avail_idx
        /\ rcmd.op = "write" => sbuf = <<"out", rcmd.tag>>
        /\ spc = "wait" =>
              \/ ScsiWaiting /\ vs_req = rcmd
              \/ svq.used_idx # sused /\ svq.seen = svq.avail_idx /\ ScsiAnswered
        /\ (spc = "idle" /\ rcmd # S!NoCommand) =>
              ScsiAnswered /\ (sstat = 0 <=> S!CarriedOut(vs_rsp))

ScsiInv == ScsiTypes /\ ScsiInTime

\* The two drivers share the queue's operations.
LEMMA ScsiQueue ==
    /\ \A q, id : S!Publish(q, id) = Publish(q, id)
    /\ \A q, id, len : S!Complete(q, id, len) = Complete(q, id, len)
    /\ \A q, id, addr, len, next : S!virtio_fill_desc(q, id, addr, len, next) = virtio_fill_desc(q, id, addr, len, next)
    /\ \A q : S!HasChain(q) = HasChain(q) /\ S!HeadChain(q) = HeadChain(q)
    /\ S!virtio_queue_init_vq(0) = virtio_queue_init_vq(0)
  <1>1. /\ \A q, id : S!Publish(q, id) = Publish(q, id)
        /\ \A q, id, len : S!Complete(q, id, len) = Complete(q, id, len)
    BY DEF S!Publish, Publish, S!Complete, Complete
  <1>2. \A q, id, addr, len, next : S!virtio_fill_desc(q, id, addr, len, next) = virtio_fill_desc(q, id, addr, len, next)
    BY DEF S!virtio_fill_desc, virtio_fill_desc
  <1>3. \A q : S!HasChain(q) = HasChain(q) /\ S!HeadChain(q) = HeadChain(q)
    BY DEF S!HasChain, HasChain, S!HeadChain, HeadChain
  <1>4. S!virtio_queue_init_vq(0) = virtio_queue_init_vq(0)
    BY DEF S!virtio_queue_init_vq, virtio_queue_init_vq, S!Ids, Ids, S!NoDesc, NoDesc, S!NoBuf, NoBuf
  <1>5. QED
    BY <1>1, <1>2, <1>3, <1>4

\* What the assumption on the constants says.
LEMMA ScsiConstants ==
    /\ QSize >= 3 /\ \A c \in ScsiCommands : c.op \in {"none", "read", "write"}
    /\ \A a \in ScsiAnswers : a \in S!Rsps /\ (a.sense = "none" => a.status = 0)
    /\ S!NoCommand.op = "none"
    /\ S!Erased \in S!Rsps
  BY ScsiAssumption, Sizes DEF S!ConstantsOK, S!NoCommand, S!Erased, S!Rsps

\* One descriptor of a queue is set.
DescSet(q, w, i, d) == w = [q EXCEPT !.desc[i] = d]

LEMMA ScsiSet ==
    ASSUME NEW A, NEW L, NEW q \in Vq(A, L), NEW i \in Ids, NEW d \in Desc(A), NEW w, DescSet(q, w, i, d)
    PROVE  /\ w \in Vq(A, L) /\ w.avail = q.avail /\ w.avail_idx = q.avail_idx
           /\ w.used_idx = q.used_idx /\ w.seen = q.seen
           /\ w.desc[i] = d /\ \A j \in Ids : j # i => w.desc[j] = q.desc[j]
  BY DEF Vq, DescSet

\* A chain is published.
Published(q, w, id) == w = Publish(q, id)

LEMMA ScsiPublished ==
    ASSUME NEW A, NEW L, NEW q \in Vq(A, L), NEW id \in Ids, NEW w, Published(q, w, id)
    PROVE  /\ w \in Vq(A, L) /\ w.used_idx = q.used_idx /\ w.seen = q.seen /\ w.desc = q.desc
           /\ w.avail_idx = (q.avail_idx + 1) % IdxMod
           /\ q.seen = q.avail_idx => HeadChain(w) = id
  <1>1. id \in Int /\ w = Publish(q, id)
    BY DEF Ids, Published
  <1>2. /\ w \in Vq(A, L) /\ w.used_idx = q.used_idx /\ w.seen = q.seen /\ w.desc = q.desc
        /\ w.avail_idx = (q.avail_idx + 1) % IdxMod
        /\ \A i \in Ids : w.avail[i] = IF i = q.avail_idx % QSize THEN id ELSE q.avail[i]
    BY <1>1, PublishFields, SMTT(30)
  <1>3. q.seen % QSize \in Ids
    BY PositionType DEF Vq, Idx
  <1>4. QED
    BY <1>2, <1>3 DEF HeadChain

\* The chain of a command takes three descriptors, or two.
LEMMA ScsiChain ==
    ASSUME NEW q, NEW c, c.op \in {"none", "read", "write"}, NEW id \in Ids
    PROVE  \E d1, d2, d3 \in Desc(ScsiAddrs), a1, a2 \in Ids : \E w1, w2 :
              /\ a1 # id /\ a2 # id /\ a1 # a2
              /\ DescSet(q, w1, id, d1) /\ d1.next = a1
              /\ DescSet(w1, w2, a1, d2)
              /\ c.op = "read" => d2.addr = S!Rsp /\ d2.next # -1
              /\ c.op = "write" => d2.addr = S!Buf
              /\ \/ S!FillChain(q, id, c) = w2
                 \/ DescSet(w2, S!FillChain(q, id, c), a2, d3)
  <1> DEFINE a1 == (id + 1) % QSize
             a2 == (id + 2) % QSize
             d(a, n) == [addr |-> a, len |-> 1, next |-> n]
  <1>1. /\ id + 1 # -1 /\ id + 2 # -1 /\ id % QSize = id /\ a1 \in Ids /\ a2 \in Ids
        /\ id # a1 /\ id # a2 /\ a1 # a2 /\ a1 # -1 /\ a2 # -1
    BY ScsiConstants, Sizes DEF Ids
  <1>2. /\ \A n \in Ids \cup {-1}, a \in ScsiAddrs : d(a, n) \in Desc(ScsiAddrs)
        /\ S!Req \in ScsiAddrs /\ S!Rsp \in ScsiAddrs /\ S!Buf \in ScsiAddrs
    BY DEF Desc, ScsiAddrs
  <1>3. /\ \A p, a : virtio_fill_desc(p, id, a, 1, id + 1) = [p EXCEPT !.desc[id] = d(a, a1)]
        /\ \A p, a : virtio_fill_desc(p, id + 1, a, 1, id + 2) = [p EXCEPT !.desc[a1] = d(a, a2)]
        /\ \A p, a : virtio_fill_desc(p, id + 1, a, 1, -1) = [p EXCEPT !.desc[a1] = d(a, -1)]
        /\ \A p, a : virtio_fill_desc(p, id + 2, a, 1, -1) = [p EXCEPT !.desc[a2] = d(a, -1)]
    BY <1>1 DEF virtio_fill_desc
  <1> DEFINE w1 == [q EXCEPT !.desc[id] = d(S!Req, a1)]
             x2(a, n) == [w1 EXCEPT !.desc[a1] = d(a, n)]
             x3(p, a) == [p EXCEPT !.desc[a2] = d(a, -1)]
  <1>4. /\ c.op = "none" => S!FillChain(q, id, c) = x2(S!Rsp, -1)
        /\ c.op = "read" => S!FillChain(q, id, c) = x3(x2(S!Rsp, a2), S!Buf)
        /\ c.op = "write" => S!FillChain(q, id, c) = x3(x2(S!Buf, a2), S!Rsp)
    <2> DEFINE f == virtio_fill_desc(q, id, S!Req, 1, id + 1)
    <2>1. f = w1
      BY <1>3
    <2>2. /\ c.op = "none" => S!FillChain(q, id, c) = virtio_fill_desc(f, id + 1, S!Rsp, 1, -1)
          /\ c.op = "read" => S!FillChain(q, id, c) = virtio_fill_desc(virtio_fill_desc(f, id + 1, S!Rsp, 1, id + 2), id + 2, S!Buf, 1, -1)
          /\ c.op = "write" => S!FillChain(q, id, c) = virtio_fill_desc(virtio_fill_desc(f, id + 1, S!Buf, 1, id + 2), id + 2, S!Rsp, 1, -1)
      BY ScsiQueue DEF S!FillChain, S!Chain
    <2> HIDE DEF f, w1, a1, a2, d
    <2>3. /\ \A a : virtio_fill_desc(w1, id + 1, a, 1, -1) = x2(a, -1)
          /\ \A a : virtio_fill_desc(w1, id + 1, a, 1, id + 2) = x2(a, a2)
          /\ \A p, a : virtio_fill_desc(p, id + 2, a, 1, -1) = x3(p, a)
      BY <1>3, Zenon
    <2> HIDE DEF x2, x3
    <2>4. QED
      BY <2>1, <2>2, <2>3, Zenon
  <1> HIDE DEF a1, a2
  <1>5. DescSet(q, w1, id, d(S!Req, a1)) /\ d(S!Req, a1).next = a1 /\ d(S!Req, a1) \in Desc(ScsiAddrs)
    BY <1>1, <1>2 DEF DescSet
  <1> HIDE DEF w1
  <1>6. CASE c.op = "none"
    <2>1. DescSet(w1, x2(S!Rsp, -1), a1, d(S!Rsp, -1)) /\ d(S!Rsp, -1) \in Desc(ScsiAddrs)
      BY <1>2 DEF DescSet
    <2> HIDE DEF d, x2
    <2>2. QED
      BY <1>1, <1>4, <1>5, <1>6, <2>1
  <1>7. CASE c.op = "read"
    <2>1. /\ DescSet(w1, x2(S!Rsp, a2), a1, d(S!Rsp, a2)) /\ d(S!Rsp, a2) \in Desc(ScsiAddrs)
          /\ d(S!Rsp, a2).addr = S!Rsp /\ d(S!Rsp, a2).next # -1
      BY <1>1, <1>2 DEF DescSet
    <2>2. DescSet(x2(S!Rsp, a2), x3(x2(S!Rsp, a2), S!Buf), a2, d(S!Buf, -1)) /\ d(S!Buf, -1) \in Desc(ScsiAddrs)
      BY <1>1, <1>2 DEF DescSet
    <2> HIDE DEF d, x2, x3
    <2>3. QED
      BY <1>1, <1>4, <1>5, <1>7, <2>1, <2>2
  <1>8. CASE c.op = "write"
    <2>1. /\ DescSet(w1, x2(S!Buf, a2), a1, d(S!Buf, a2)) /\ d(S!Buf, a2) \in Desc(ScsiAddrs)
          /\ d(S!Buf, a2).addr = S!Buf
      BY <1>1, <1>2 DEF DescSet
    <2>2. DescSet(x2(S!Buf, a2), x3(x2(S!Buf, a2), S!Rsp), a2, d(S!Rsp, -1)) /\ d(S!Rsp, -1) \in Desc(ScsiAddrs)
      BY <1>1, <1>2 DEF DescSet
    <2> HIDE DEF d, x2, x3
    <2>3. QED
      BY <1>1, <1>4, <1>5, <1>8, <2>1, <2>2
  <1>9. QED
    BY <1>6, <1>7, <1>8

\* Filling the chain of a command and publishing it.
LEMMA ScsiFilled ==
    ASSUME NEW L, NEW q \in Vq(ScsiAddrs, L),
           NEW c, c.op \in {"none", "read", "write"}, NEW id \in Ids,
           NEW w, w = S!Publish(S!FillChain(q, id, c), id)
    PROVE  /\ w \in Vq(ScsiAddrs, L) /\ w.used_idx = q.used_idx /\ w.seen = q.seen
           /\ w.avail_idx = (q.avail_idx + 1) % IdxMod
           /\ q.seen = q.avail_idx => ScsiChained(w, c)
  <1>1. PICK f : f = S!FillChain(q, id, c)
    OBVIOUS
  <1> PICK d1, d2, d3 \in Desc(ScsiAddrs), a1, a2 \in Ids : \E w1, w2 :
              /\ a1 # id /\ a2 # id /\ a1 # a2
              /\ DescSet(q, w1, id, d1) /\ d1.next = a1
              /\ DescSet(w1, w2, a1, d2)
              /\ c.op = "read" => d2.addr = S!Rsp /\ d2.next # -1
              /\ c.op = "write" => d2.addr = S!Buf
              /\ f = w2 \/ DescSet(w2, f, a2, d3)
    BY <1>1, ScsiChain
  <1>2. PICK w1, w2 :
              /\ a1 # id /\ a2 # id /\ a1 # a2
              /\ DescSet(q, w1, id, d1) /\ d1.next = a1
              /\ DescSet(w1, w2, a1, d2)
              /\ c.op = "read" => d2.addr = S!Rsp /\ d2.next # -1
              /\ c.op = "write" => d2.addr = S!Buf
              /\ f = w2 \/ DescSet(w2, f, a2, d3)
    OBVIOUS
  <1>3. /\ w1 \in Vq(ScsiAddrs, L) /\ w1.avail_idx = q.avail_idx /\ w1.used_idx = q.used_idx
        /\ w1.seen = q.seen /\ w1.desc[id] = d1
    BY <1>2, ScsiSet
  <1>4. /\ w2 \in Vq(ScsiAddrs, L) /\ w2.avail_idx = q.avail_idx /\ w2.used_idx = q.used_idx
        /\ w2.seen = q.seen /\ w2.desc[id] = d1 /\ w2.desc[a1] = d2
    BY <1>2, <1>3, ScsiSet
  <1>5. /\ f \in Vq(ScsiAddrs, L) /\ f.avail_idx = q.avail_idx /\ f.used_idx = q.used_idx
        /\ f.seen = q.seen /\ f.desc[id] = d1 /\ f.desc[a1] = d2
    BY <1>2, <1>4, ScsiSet
  <1>6. Published(f, w, id)
    BY <1>1, ScsiQueue DEF Published
  <1>7. /\ w \in Vq(ScsiAddrs, L) /\ w.used_idx = f.used_idx /\ w.seen = f.seen /\ w.desc = f.desc
        /\ w.avail_idx = (f.avail_idx + 1) % IdxMod
        /\ f.seen = f.avail_idx => HeadChain(w) = id
    BY <1>5, <1>6, ScsiPublished
  <1>8. QED
    BY <1>2, <1>5, <1>7 DEF ScsiChained

\* The device gives the oldest chain back.
Completed(q, w) == w = Complete(q, HeadChain(q), 0)

LEMMA ScsiCompleted ==
    ASSUME NEW A, NEW L, 0 \in L, NEW q \in Vq(A, L), NEW w, Completed(q, w)
    PROVE  /\ w \in Vq(A, L) /\ w.avail_idx = q.avail_idx /\ w.seen = (q.seen + 1) % IdxMod
           /\ w.used_idx # q.used_idx
  <1>1. q.seen \in Idx /\ q.used_idx \in Idx /\ q.avail \in [Ids -> Int]
    BY DEF Vq
  <1>2. HeadChain(q) \in Int
    <2>1. q.seen % QSize \in Ids
      BY <1>1, PositionType DEF Idx
    <2>2. QED
      BY <1>1, <2>1 DEF HeadChain
  <1>3. /\ w \in Vq(A, L) /\ w.avail_idx = q.avail_idx /\ w.seen = (q.seen + 1) % IdxMod
        /\ w.used_idx = (q.used_idx + 1) % IdxMod
    BY <1>2, CompleteFields DEF Completed
  <1>4. (q.used_idx + 1) % IdxMod # q.used_idx
    BY <1>1, Following, Sizes DEF Idx
  <1>5. QED
    BY <1>3, <1>4

LEMMA ScsiInitially == S!Init => ScsiInv
  <1> SUFFICES ASSUME S!Init PROVE ScsiInv
    OBVIOUS
  <1>1. svq = virtio_queue_init_vq(0) /\ 0 \in ScsiLens
    BY ScsiQueue DEF S!Init, ScsiLens
  <1>2. svq \in Vq(ScsiAddrs, ScsiLens)
    BY <1>1, InitFields
  <1>3. QED
    BY <1>2, ScsiConstants DEF S!Init, ScsiInv, ScsiTypes, ScsiInTime

\* The driver is opened, shut down or called.
LEMMA ScsiOpens ==
    ASSUME ScsiInv, S!virtioscsi_init \/ S!virtioscsi_shutdown
    PROVE  ScsiInv'
  <1>1. CASE S!virtioscsi_init
    <2>1. CASE spc' = "idle" /\ svq' = S!virtio_queue_init_vq(0)
      <3>1. svq' = virtio_queue_init_vq(0) /\ 0 \in ScsiLens
        BY <2>1, ScsiQueue DEF ScsiLens
      <3>2. svq' \in Vq(ScsiAddrs, ScsiLens) /\ svq'.seen = svq'.avail_idx
        BY <3>1, InitFields
      <3>3. rcmd' = S!NoCommand /\ vs_rsp' = vs_rsp
        BY <1>1 DEF S!virtioscsi_init
      <3>4. QED
        BY <2>1, <3>2, <3>3, ScsiConstants DEF ScsiInv, ScsiTypes, ScsiInTime
    <2>2. CASE UNCHANGED <<spc, svq>>
      BY <1>1, <2>2 DEF S!virtioscsi_init, ScsiInv, ScsiTypes, ScsiInTime
    <2>3. QED
      BY <1>1, <2>1, <2>2 DEF S!virtioscsi_init
  <1>2. CASE S!virtioscsi_shutdown
    <2>1. svq' = [svq EXCEPT !.seen = svq.avail_idx] /\ spc' = "down" /\ UNCHANGED <<vs_rsp, rcmd>>
      BY <1>2 DEF S!virtioscsi_shutdown
    <2>2. svq' \in Vq(ScsiAddrs, ScsiLens)
      BY <2>1 DEF ScsiInv, ScsiTypes, Vq
    <2>3. QED
      BY <2>1, <2>2 DEF ScsiInv, ScsiTypes, ScsiInTime
  <1>3. QED
    BY <1>1, <1>2

LEMMA ScsiCalled ==
    ASSUME ScsiInv, NEW c \in ScsiCommands, S!retry_scsi_command(c)
    PROVE  ScsiInv'
  <1>1. /\ spc = "idle" /\ spc' = "send" /\ rcmd' = c /\ sbuf' = S!Fill(c)
        /\ UNCHANGED <<svq, vs_req, vs_rsp, target, sused, slate>>
    BY DEF S!retry_scsi_command
  <1>2. c.op = "write" => sbuf' = <<"out", c.tag>>
    BY <1>1 DEF S!Fill
  <1>3. QED
    BY <1>1, <1>2 DEF ScsiInv, ScsiTypes, ScsiInTime

\* An attempt is published.
LEMMA ScsiSends == ScsiInv /\ S!virtioscsi_send => ScsiInv'
  <1> SUFFICES ASSUME ScsiInv, S!virtioscsi_send PROVE ScsiInv'
    OBVIOUS
  <1>1. PICK id : id = (svq.avail_idx * 3) % QSize
    OBVIOUS
  <1>2. /\ spc = "send" /\ spc' = "wait" /\ vs_req' = rcmd /\ vs_rsp' = S!Erased /\ sused' = svq.used_idx
        /\ svq' = S!Publish(S!FillChain(svq, id, rcmd), id)
        /\ UNCHANGED <<sbuf, target, rcmd, left, sstat, slate>>
    BY <1>1 DEF S!virtioscsi_send
  <1>3. svq \in Vq(ScsiAddrs, ScsiLens) /\ rcmd.op \in {"none", "read", "write"}
    BY ScsiConstants DEF ScsiInv, ScsiTypes
  <1>4. id \in Ids
    <2>1. svq.avail_idx * 3 \in Int
      BY <1>3 DEF Vq, Idx
    <2>2. QED
      BY <1>1, <2>1, PositionType
  <1>5. PICK w : w = svq'
    OBVIOUS
  <1>6. /\ w \in Vq(ScsiAddrs, ScsiLens) /\ w.used_idx = svq.used_idx /\ w.seen = svq.seen
        /\ w.avail_idx = (svq.avail_idx + 1) % IdxMod
        /\ svq.seen = svq.avail_idx => ScsiChained(w, rcmd)
    BY <1>2, <1>3, <1>4, <1>5, ScsiFilled
  <1>7. ScsiTypes'
    BY <1>2, <1>5, <1>6, ScsiConstants DEF ScsiInv, ScsiTypes
  <1>8. ASSUME ~slate PROVE ScsiWaiting' /\ vs_req' = rcmd' /\ (rcmd.op = "write" => sbuf = <<"out", rcmd.tag>>)
    <2>1. svq.seen = svq.avail_idx /\ (rcmd.op = "write" => sbuf = <<"out", rcmd.tag>>)
      BY <1>2, <1>8 DEF ScsiInv, ScsiInTime
    <2>2. ScsiChained(svq', rcmd')
      BY <1>2, <1>5, <1>6, <2>1
    <2>3. QED
      BY <1>2, <1>5, <1>6, <2>1, <2>2 DEF ScsiWaiting
  <1>9. ScsiInTime'
    BY <1>2, <1>8 DEF ScsiInTime
  <1>10. QED
    BY <1>7, <1>9 DEF ScsiInv

\* The device carries an attempt out, or refuses.
LEMMA ScsiExecutes == ScsiInv /\ S!DeviceExecutes => ScsiInv'
  <1> SUFFICES ASSUME ScsiInv, S!DeviceExecutes PROVE ScsiInv'
    OBVIOUS
  <1> DEFINE second == svq.desc[svq.desc[HeadChain(svq)].next]
  <1>1. /\ spc # "down" /\ svq.seen # svq.avail_idx
        /\ UNCHANGED <<spc, vs_req, rcmd, left, sused, sstat, slate>>
    BY ScsiQueue DEF S!DeviceExecutes, HasChain
  <1>2. PICK a \in ScsiAnswers :
             /\ vs_rsp' = a
             /\ sbuf' = IF S!CarriedOut(a) /\ vs_req.op = "read" /\ (second.addr = S!Rsp /\ second.next # -1)
                        THEN <<"in", vs_req.tag>> ELSE sbuf
             /\ target' = IF S!CarriedOut(a) /\ vs_req.op = "write" /\ second.addr = S!Buf THEN sbuf ELSE target
             /\ svq' = Complete(svq, HeadChain(svq), 0)
    BY ScsiQueue DEF S!DeviceExecutes
  <1>3. PICK w : w = svq'
    OBVIOUS
  <1>4. /\ w \in Vq(ScsiAddrs, ScsiLens) /\ w.avail_idx = svq.avail_idx /\ w.seen = (svq.seen + 1) % IdxMod
        /\ w.used_idx # svq.used_idx
    <2>1. Completed(svq, w) /\ 0 \in ScsiLens /\ svq \in Vq(ScsiAddrs, ScsiLens)
      BY <1>2, <1>3 DEF Completed, ScsiLens, ScsiInv, ScsiTypes
    <2>2. QED
      BY <2>1, ScsiCompleted
  <1>5. ScsiTypes'
    BY <1>1, <1>2, <1>3, <1>4, ScsiConstants DEF ScsiInv, ScsiTypes
  <1>6. ASSUME ~slate
        PROVE  /\ spc = "wait" /\ svq'.used_idx # sused /\ svq'.seen = svq'.avail_idx /\ ScsiAnswered'
               /\ rcmd.op = "write" => sbuf' = <<"out", rcmd.tag>>
    <2>1. /\ spc = "wait" /\ ScsiWaiting /\ vs_req = rcmd
          /\ rcmd.op = "write" => sbuf = <<"out", rcmd.tag>>
      BY <1>1, <1>6 DEF ScsiInv, ScsiInTime
    <2>2. svq'.used_idx # sused /\ svq'.seen = svq'.avail_idx
      BY <1>3, <1>4, <2>1 DEF ScsiWaiting
    <2>3. /\ rcmd.op = "read" => second.addr = S!Rsp /\ second.next # -1
          /\ rcmd.op = "write" => second.addr = S!Buf
      BY <2>1 DEF ScsiWaiting, ScsiChained
    <2> HIDE DEF second
    <2>4. rcmd.op = "write" => sbuf' = <<"out", rcmd.tag>>
      BY <1>2, <2>1
    <2>5. S!CarriedOut(a) => /\ rcmd.op = "read" => sbuf' = <<"in", rcmd.tag>>
                             /\ rcmd.op = "write" => target' = <<"out", rcmd.tag>>
      BY <1>2, <2>1, <2>3
    <2>6. ScsiAnswered'
      BY <1>1, <1>2, <2>1, <2>5 DEF ScsiAnswered, S!CarriedOut
    <2>7. QED
      BY <2>1, <2>2, <2>4, <2>6
  <1>7. ScsiInTime'
    BY <1>1, <1>6 DEF ScsiInTime
  <1>8. QED
    BY <1>5, <1>7 DEF ScsiInv

\* The result of an attempt says whether it was carried out.
LEMMA ScsiResult ==
    ASSUME vs_rsp \in ScsiAnswers
    PROVE  (IF S!Stat = 2 /\ vs_rsp.sense = "recovered" THEN 0 ELSE S!Stat) = 0 <=> S!CarriedOut(vs_rsp)
  <1>1. /\ vs_rsp.response \in {0, 3, 5} /\ vs_rsp.status \in {0, 2, 8}
        /\ vs_rsp.sense = "none" => vs_rsp.status = 0
    BY ScsiConstants DEF S!Rsps
  <1>2. QED
    BY <1>1 DEF S!Stat, S!CarriedOut

\* An attempt ends, with an answer or without.
LEMMA ScsiReturns == ScsiInv /\ (S!Finish \/ S!Timeout) => ScsiInv'
  <1> SUFFICES ASSUME ScsiInv, S!Finish \/ S!Timeout PROVE ScsiInv'
    OBVIOUS
  <1>1. /\ spc = "wait" /\ spc' \in {"send", "idle"}
        /\ spc' = "idle" => sstat' = IF S!Stat = 2 /\ vs_rsp.sense = "recovered" THEN 0 ELSE S!Stat
        /\ UNCHANGED <<svq, vs_req, vs_rsp, sbuf, target, rcmd, sused>>
    BY DEF S!Finish, S!Timeout, S!Attempted
  <1>2. ScsiTypes'
    BY <1>1 DEF ScsiInv, ScsiTypes
  <1>3. ASSUME ~slate'
        PROVE  ~slate /\ svq.seen = svq.avail_idx /\ ScsiAnswered /\ (rcmd.op = "write" => sbuf = <<"out", rcmd.tag>>)
    <2>1. ~slate /\ svq.used_idx # sused
      BY <1>3 DEF S!Finish, S!Timeout
    <2>2. QED
      BY <1>1, <2>1 DEF ScsiInv, ScsiInTime, ScsiWaiting
  <1>4. ASSUME ~slate', spc' = "idle" PROVE ScsiAnswered' /\ (sstat' = 0 <=> S!CarriedOut(vs_rsp'))
    <2>1. ScsiAnswered
      BY <1>3, <1>4
    <2>2. ScsiAnswered'
      BY <1>1, <2>1 DEF ScsiAnswered, S!CarriedOut
    <2>3. sstat' = 0 <=> S!CarriedOut(vs_rsp)
      BY <1>1, <1>4, <2>1, ScsiResult DEF ScsiAnswered
    <2>4. QED
      BY <1>1, <2>2, <2>3
  <1>5. ScsiInTime'
    <2>1. S!CarriedOut(vs_rsp)' = S!CarriedOut(vs_rsp')
      BY DEF S!CarriedOut
    <2>2. QED
      BY <1>1, <1>3, <1>4, <2>1 DEF ScsiInTime
  <1>6. QED
    BY <1>2, <1>5 DEF ScsiInv

LEMMA ScsiStep == ScsiInv /\ [S!Next]_svars => ScsiInv'
  <1> SUFFICES ASSUME ScsiInv, [S!Next]_svars PROVE ScsiInv'
    OBVIOUS
  <1>1. CASE UNCHANGED svars
    BY <1>1 DEF svars, ScsiInv, ScsiTypes, ScsiInTime, ScsiWaiting, ScsiAnswered, S!CarriedOut
  <1>2. CASE S!Next
    BY <1>2, ScsiOpens, ScsiCalled, ScsiSends, ScsiExecutes, ScsiReturns DEF S!Next
  <1>3. QED
    BY <1>1, <1>2

\* While the device answers in time, a SCSI command returns 0 exactly if the target has
\* carried it out, on its own data: for every queue of at least three descriptors, every
\* width of the indices, every set of commands and of answers with sense data, and every
\* number of retries (virtioscsi_send, execute-scsi-command, retry-scsi-command).
THEOREM ScsiCommandsRight == DiskSpec => []ScsiRight
  <1>1. DiskInit => ScsiInv
    BY ScsiInitially DEF DiskInit
  <1>2. ScsiInv /\ [DiskNext]_<<disk_kind, vars, svars>> => ScsiInv'
    <2> SUFFICES ASSUME ScsiInv, [DiskNext]_<<disk_kind, vars, svars>> PROVE ScsiInv'
      OBVIOUS
    <2>1. [S!Next]_svars
      BY DEF DiskNext
    <2>2. QED
      BY <2>1, ScsiStep
  <1>3. ScsiInv => ScsiRight
    BY DEF ScsiInv, ScsiTypes, ScsiInTime, ScsiAnswered, ScsiRight, S!CommandsRight
  <1>4. QED
    BY <1>1, <1>2, <1>3, PTL DEF DiskSpec
=============================================================================
