----------------------------- MODULE VringProof -----------------------------
(***************************************************************************)
(* Lemmas about the split virtqueue of lib/libvirtio/virtio.c, for every   *)
(* queue size and every width of the ring indices: publishing a chain      *)
(* appends it to the chains the device has not taken, completing one moves *)
(* it from the head of these to the end of the used entries, and stepping  *)
(* the driver's own index drops the oldest used entry, also where the      *)
(* rings and the 16 bit indices wrap.                                      *)
(***************************************************************************)
EXTENDS Vring, TLAPS

-----------------------------------------------------------------------------
(* Arithmetic of the free running indices. *)

\* A remainder and its quotient determine each other.
LEMMA ModUnique ==
    ASSUME NEW b \in Nat \ {0}, NEW q \in Int, NEW r \in 0 .. (b - 1)
    PROVE  (q * b + r) % b = r
  OBVIOUS

\* The quotient and the remainder of a division.
LEMMA DivMod ==
    ASSUME NEW b \in Nat \ {0}, NEW x \in Int
    PROVE  /\ x \div b \in Int
           /\ x % b \in 0 .. (b - 1)
           /\ x = (x \div b) * b + (x % b)
  <1>1. /\ x \div b \in Int
        /\ x % b \in 0 .. (b - 1)
        /\ x = b * (x \div b) + (x % b)
    OBVIOUS
  <1> QED
    BY <1>1

\* A number less than one lap away from the range is brought back by one lap.
LEMMA ModNear ==
    ASSUME NEW b \in Nat \ {0}, NEW x \in Int, -b <= x, x < 2 * b
    PROVE  x % b = IF x < 0 THEN x + b ELSE IF x < b THEN x ELSE x - b
  <1>1. CASE x < 0
    <2>1. ((-1) * b + (x + b)) % b = x + b
      BY <1>1, ModUnique
    <2> QED
      BY <1>1, <2>1
  <1>2. CASE 0 <= x /\ x < b
    BY <1>2
  <1>3. CASE x >= b
    <2>1. (1 * b + (x - b)) % b = x - b
      BY <1>3, ModUnique
    <2> QED
      BY <1>3, <2>1
  <1> QED
    BY <1>1, <1>2, <1>3

\* Numbers that differ by less than the modulus have different remainders.
LEMMA ModDistinct ==
    ASSUME NEW b \in Nat \ {0}, NEW x \in Int, NEW y \in Int, x < y, y - x < b
    PROVE  x % b # y % b
  <1> DEFINE p == x \div b
             q == y \div b
  <1>1. /\ p \in Int /\ q \in Int
        /\ x % b \in 0 .. (b - 1) /\ y % b \in 0 .. (b - 1)
        /\ x = p * b + (x % b) /\ y = q * b + (y % b)
    BY DivMod
  <1> HIDE DEF p, q
  <1>2. SUFFICES ASSUME x % b = y % b PROVE FALSE
    OBVIOUS
  <1>3. y - x = (q - p) * b
    BY <1>1, <1>2
  <1>4. CASE q - p <= 0
    <2>1. (q - p) * b <= 0
      BY <1>1, <1>4
    <2> QED
      BY <1>3, <2>1
  <1>5. CASE q - p >= 1
    <2>1. (q - p) * b >= b
      BY <1>1, <1>5
    <2> QED
      BY <1>3, <2>1
  <1> QED
    BY <1>1, <1>4, <1>5

\* Reducing by a multiple of the modulus first changes nothing.
LEMMA ModMod ==
    ASSUME NEW b \in Nat \ {0}, NEW m \in Nat \ {0}, m % b = 0, NEW x \in Int
    PROVE  (x % m) % b = x % b
  <1> DEFINE k == m \div b
             q == x \div m
             p == (x % m) \div b
  <1>1. k \in Int /\ m = k * b
    BY DivMod
  <1>2. q \in Int /\ x % m \in Int /\ x = q * m + (x % m)
    BY DivMod
  <1>3. /\ p \in Int /\ (x % m) % b \in 0 .. (b - 1)
        /\ x % m = p * b + ((x % m) % b)
    BY <1>2, DivMod
  <1> HIDE DEF k, q, p
  <1>4. x = (q * k + p) * b + ((x % m) % b)
    <2>1. q * m = (q * k) * b
      BY <1>1, <1>2
    <2>2. (q * k) * b + p * b = (q * k + p) * b
      BY <1>1, <1>2, <1>3
    <2>3. q * m \in Int /\ (q * k) * b \in Int /\ p * b \in Int
      BY <1>1, <1>2, <1>3
    <2>4. x = (q * k) * b + (p * b + ((x % m) % b))
      BY <1>2, <1>3, <2>1
    <2> HIDE DEF k
    <2>5. x = ((q * k) * b + p * b) + ((x % m) % b)
      BY <1>3, <2>3, <2>4
    <2> QED
      BY <2>2, <2>5
  <1>5. q * k + p \in Int
    BY <1>1, <1>2, <1>3
  <1>6. ((q * k + p) * b + ((x % m) % b)) % b = (x % m) % b
    BY <1>3, <1>5, ModUnique
  <1> QED
    BY <1>4, <1>6

\* Adding a multiple of the modulus changes nothing either.
LEMMA ModShift ==
    ASSUME NEW b \in Nat \ {0}, NEW x \in Int, NEW y \in Int, NEW z \in Int, x % b = y % b
    PROVE  (x + z) % b = (y + z) % b
  <1> DEFINE p == x \div b
             q == y \div b
             s == (y + z) \div b
  <1>1. /\ p \in Int /\ q \in Int /\ s \in Int
        /\ x % b \in 0 .. (b - 1) /\ (y + z) % b \in 0 .. (b - 1)
        /\ x = p * b + (x % b) /\ y = q * b + (y % b)
        /\ y + z = s * b + ((y + z) % b)
    BY DivMod
  <1> HIDE DEF p, q, s
  <1>2. p * b \in Int /\ q * b \in Int /\ s * b \in Int
    BY <1>1
  <1>3. (p - q + s) * b = p * b - q * b + s * b
    BY <1>1
  <1>4. x + z = (p - q + s) * b + ((y + z) % b)
    BY <1>1, <1>2, <1>3
  <1>5. p - q + s \in Int
    BY <1>1
  <1>6. ((p - q + s) * b + ((y + z) % b)) % b = (y + z) % b
    BY <1>1, <1>5, ModUnique
  <1> QED
    BY <1>4, <1>6

\* The two sizes, as the code has them.
LEMMA Sizes ==
    /\ QSize \in Nat \ {0} /\ IdxMod \in Nat \ {0}
    /\ IdxMod % QSize = 0 /\ QSize < IdxMod
  BY QSizeAssumption, IdxModAssumption

\* The distance between two indices, with the wrap made explicit.
LEMMA BehindIs ==
    ASSUME NEW a \in Idx, NEW b \in Idx
    PROVE  /\ Behind(a, b) = IF b >= a THEN b - a ELSE (b - a) + IdxMod
           /\ Behind(a, b) \in 0 .. (IdxMod - 1)
           /\ Behind(a, b) = 0 <=> a = b
  <1>1. a \in Int /\ b \in Int /\ 0 <= a /\ a < IdxMod /\ 0 <= b /\ b < IdxMod
    BY Sizes DEF Idx
  <1> DEFINE x == b - a
  <1>2. x \in Int /\ -IdxMod <= x /\ x < 2 * IdxMod
    BY <1>1, Sizes
  <1> HIDE DEF x
  <1>3. x % IdxMod = IF x < 0 THEN x + IdxMod ELSE IF x < IdxMod THEN x ELSE x - IdxMod
    BY <1>2, Sizes, ModNear
  <1> QED
    BY <1>1, <1>2, <1>3, Sizes DEF Behind, x

\* The index that follows.
LEMMA Following ==
    ASSUME NEW a \in Idx
    PROVE  /\ (a + 1) % IdxMod \in Idx
           /\ (a + 1) % IdxMod = IF a + 1 = IdxMod THEN 0 ELSE a + 1
  <1>1. a \in Int /\ 0 <= a /\ a < IdxMod
    BY Sizes DEF Idx
  <1> DEFINE x == a + 1
  <1>2. x \in Int /\ -IdxMod <= x /\ x < 2 * IdxMod
    BY <1>1, Sizes
  <1> HIDE DEF x
  <1>3. x % IdxMod = IF x < 0 THEN x + IdxMod ELSE IF x < IdxMod THEN x ELSE x - IdxMod
    BY <1>2, Sizes, ModNear
  <1> QED
    BY <1>1, <1>2, <1>3, Sizes DEF Idx, x

\* Stepping the front index makes the distance one longer,
LEMMA BehindLonger ==
    ASSUME NEW a \in Idx, NEW b \in Idx, Behind(a, b) + 1 < IdxMod
    PROVE  Behind(a, (b + 1) % IdxMod) = Behind(a, b) + 1
  <1> DEFINE c == (b + 1) % IdxMod
  <1>1. c \in Idx /\ c = IF b + 1 = IdxMod THEN 0 ELSE b + 1
    BY Following
  <1>2. Behind(a, c) = IF c >= a THEN c - a ELSE (c - a) + IdxMod
    BY <1>1, BehindIs
  <1>3. Behind(a, b) = IF b >= a THEN b - a ELSE (b - a) + IdxMod
    BY BehindIs
  <1> HIDE DEF c
  <1>4. Behind(a, c) = Behind(a, b) + 1
    BY <1>1, <1>2, <1>3, Sizes DEF Idx
  <1> QED
    BY <1>4 DEF c

\* and stepping the back index makes it one shorter.
LEMMA BehindShorter ==
    ASSUME NEW a \in Idx, NEW b \in Idx, a # b
    PROVE  Behind((a + 1) % IdxMod, b) = Behind(a, b) - 1
  <1> DEFINE c == (a + 1) % IdxMod
  <1>1. c \in Idx /\ c = IF a + 1 = IdxMod THEN 0 ELSE a + 1
    BY Following
  <1>2. Behind(c, b) = IF b >= c THEN b - c ELSE (b - c) + IdxMod
    BY <1>1, BehindIs
  <1>3. Behind(a, b) = IF b >= a THEN b - a ELSE (b - a) + IdxMod
    BY BehindIs
  <1> HIDE DEF c
  <1>4. Behind(c, b) = Behind(a, b) - 1
    BY <1>1, <1>2, <1>3, Sizes DEF Idx
  <1> QED
    BY <1>4 DEF c

\* The ring position of an index is its distance from another one's.
LEMMA PositionOf ==
    ASSUME NEW a \in Idx, NEW b \in Idx
    PROVE  b % QSize = (a + Behind(a, b)) % QSize
  <1>1. a \in Int /\ b \in Int /\ 0 <= b /\ b < IdxMod
    BY Sizes DEF Idx
  <1>2. Behind(a, b) \in Int /\ Behind(a, b) = IF b >= a THEN b - a ELSE (b - a) + IdxMod
    BY BehindIs, Sizes
  <1>3. CASE b >= a
    BY <1>1, <1>2, <1>3
  <1>4. CASE b < a
    <2>1. a + Behind(a, b) = b + IdxMod
      BY <1>1, <1>2, <1>4, Sizes
    <2> DEFINE x == b + IdxMod
    <2>2. x \in Int /\ -IdxMod <= x /\ x < 2 * IdxMod /\ x >= IdxMod /\ x - IdxMod = b
      BY <1>1, Sizes
    <2> HIDE DEF x
    <2>3. x % IdxMod = IF x < 0 THEN x + IdxMod ELSE IF x < IdxMod THEN x ELSE x - IdxMod
      BY <2>2, Sizes, ModNear
    <2>4. x % IdxMod = b
      BY <2>2, <2>3, Sizes
    <2>5. (x % IdxMod) % QSize = x % QSize
      BY <2>2, Sizes, ModMod
    <2> QED
      BY <2>1, <2>4, <2>5 DEF x
  <1> QED
    BY <1>1, <1>3, <1>4

\* A position of the ring.
LEMMA PositionType ==
    ASSUME NEW x \in Int
    PROVE  x % QSize \in Ids
  BY Sizes, DivMod DEF Ids

\* The position after an index wraps is the one counted on from the index.
LEMMA PositionAfter ==
    ASSUME NEW a \in Idx, NEW k \in Int
    PROVE  (((a + 1) % IdxMod) + k) % QSize = ((a + 1) + k) % QSize
  <1>1. a + 1 \in Int /\ (a + 1) % IdxMod \in Int
    BY Sizes, Following DEF Idx
  <1>2. ((a + 1) % IdxMod) % QSize = (a + 1) % QSize
    BY <1>1, Sizes, ModMod
  <1> QED
    BY <1>1, <1>2, Sizes, ModShift

-----------------------------------------------------------------------------
(* What the operations do to the two rings, seen as sequences. *)

\* The chains waiting for the device are as many as the indices are apart.
LEMMA AvailIs ==
    ASSUME NEW vq, vq.seen \in Idx, vq.avail_idx \in Idx
    PROVE  /\ Len(AvailChains(vq)) = Behind(vq.seen, vq.avail_idx)
           /\ Len(AvailChains(vq)) \in Nat
           /\ DOMAIN AvailChains(vq) = 1 .. Len(AvailChains(vq))
           /\ \A k \in 1 .. Behind(vq.seen, vq.avail_idx) :
                 AvailChains(vq)[k] = vq.avail[(vq.seen + k - 1) % QSize]
  <1> DEFINE n == Behind(vq.seen, vq.avail_idx)
  <1>1. n \in Nat
    BY BehindIs, Sizes
  <1> HIDE DEF n
  <1>2. AvailChains(vq) = [k \in 1 .. n |-> vq.avail[(vq.seen + k - 1) % QSize]]
    BY DEF AvailChains, n
  <1> QED
    BY <1>1, <1>2 DEF n

\* So are the used entries waiting for the driver.
LEMMA UnreadIs ==
    ASSUME NEW vq, vq.used_idx \in Idx, NEW last \in Idx
    PROVE  /\ Len(UnreadUsed(vq, last)) = Behind(last, vq.used_idx)
           /\ Len(UnreadUsed(vq, last)) \in Nat
           /\ DOMAIN UnreadUsed(vq, last) = 1 .. Len(UnreadUsed(vq, last))
           /\ \A k \in 1 .. Behind(last, vq.used_idx) :
                 UnreadUsed(vq, last)[k] = vq.used[(last + k - 1) % QSize]
  <1> DEFINE m == Behind(last, vq.used_idx)
  <1>1. m \in Nat
    BY BehindIs, Sizes
  <1> HIDE DEF m
  <1>2. UnreadUsed(vq, last) = [k \in 1 .. m |-> vq.used[(last + k - 1) % QSize]]
    BY DEF UnreadUsed, m
  <1> QED
    BY <1>1, <1>2 DEF m

\* A fresh queue is empty on both sides.
LEMMA InitFields ==
    ASSUME NEW B, NEW L, NEW len \in L
    PROVE  /\ virtio_queue_init_vq(len) \in Vq(B, L)
           /\ virtio_queue_init_vq(len).seen = 0
           /\ virtio_queue_init_vq(len).avail_idx = 0
           /\ virtio_queue_init_vq(len).used_idx = 0
           /\ \A i \in Ids : virtio_queue_init_vq(len).desc[i] = NoDesc
           /\ 0 \in Idx
           /\ Behind(0, 0) = 0
  <1>1. 0 \in Idx
    BY Sizes DEF Idx
  <1>2. NoDesc \in Desc(B)
    BY DEF NoDesc, Desc
  <1>3. Behind(0, 0) = 0
    BY <1>1, BehindIs
  <1> QED
    BY <1>1, <1>2, <1>3 DEF virtio_queue_init_vq, Vq

\* Filling a descriptor leaves the rings alone.
LEMMA FillFields ==
    ASSUME NEW B, NEW L, NEW vq \in Vq(B, L), NEW id \in Int, NEW addr \in B,
           NEW len \in Nat, NEW next \in Int
    PROVE  LET w == virtio_fill_desc(vq, id, addr, len, next)
           IN  /\ w \in Vq(B, L)
               /\ w.avail = vq.avail /\ w.avail_idx = vq.avail_idx
               /\ w.used = vq.used /\ w.used_idx = vq.used_idx /\ w.seen = vq.seen
  <1> DEFINE d == [addr |-> addr, len |-> len, next |-> IF next = -1 THEN -1 ELSE next % QSize]
  <1>1. id % QSize \in Ids /\ next % QSize \in Ids
    BY PositionType
  <1>2. d \in Desc(B)
    BY <1>1 DEF Desc
  <1>3. virtio_fill_desc(vq, id, addr, len, next) = [vq EXCEPT !.desc[id % QSize] = d]
    BY DEF virtio_fill_desc
  <1> HIDE DEF d
  <1> QED
    BY <1>1, <1>2, <1>3 DEF Vq

\* Filling a descriptor changes that descriptor only.
LEMMA FillDesc ==
    ASSUME NEW B, NEW L, NEW vq \in Vq(B, L), NEW id \in Int, NEW addr, NEW len,
           NEW next \in Int, NEW i \in Ids
    PROVE  virtio_fill_desc(vq, id, addr, len, next).desc[i] =
              IF i = id % QSize
              THEN [addr |-> addr, len |-> len,
                    next |-> IF next = -1 THEN -1 ELSE next % QSize]
              ELSE vq.desc[i]
  <1>1. id % QSize \in Ids
    BY PositionType
  <1> QED
    BY <1>1 DEF Vq, virtio_fill_desc

\* The fields a publication changes.
LEMMA PublishFields ==
    ASSUME NEW B, NEW L, NEW vq \in Vq(B, L), NEW id \in Int
    PROVE  /\ Publish(vq, id) \in Vq(B, L)
           /\ Publish(vq, id).desc = vq.desc
           /\ Publish(vq, id).used = vq.used
           /\ Publish(vq, id).used_idx = vq.used_idx
           /\ Publish(vq, id).seen = vq.seen
           /\ Publish(vq, id).avail_idx = (vq.avail_idx + 1) % IdxMod
           /\ \A i \in Ids : Publish(vq, id).avail[i] =
                 IF i = vq.avail_idx % QSize THEN id ELSE vq.avail[i]
  <1>1. (vq.avail_idx + 1) % IdxMod \in Idx
    BY Following DEF Vq
  <1>2. vq.avail_idx % QSize \in Ids
    BY PositionType DEF Vq, Idx
  <1> QED
    BY <1>1, <1>2 DEF Vq, Publish

\* The fields a completion changes.
LEMMA CompleteFields ==
    ASSUME NEW B, NEW L, NEW vq \in Vq(B, L), NEW id \in Int, NEW len \in L
    PROVE  /\ Complete(vq, id, len) \in Vq(B, L)
           /\ Complete(vq, id, len).desc = vq.desc
           /\ Complete(vq, id, len).avail = vq.avail
           /\ Complete(vq, id, len).avail_idx = vq.avail_idx
           /\ Complete(vq, id, len).seen = (vq.seen + 1) % IdxMod
           /\ Complete(vq, id, len).used_idx = (vq.used_idx + 1) % IdxMod
  <1>1. (vq.used_idx + 1) % IdxMod \in Idx /\ (vq.seen + 1) % IdxMod \in Idx
    BY Following DEF Vq
  <1>2. vq.used_idx % QSize \in Ids
    BY PositionType DEF Vq, Idx
  <1> QED
    BY <1>1, <1>2 DEF Vq, Complete

\* The used entry a completion writes.
LEMMA CompleteUsed ==
    ASSUME NEW B, NEW L, NEW vq \in Vq(B, L), NEW id \in Int, NEW len \in L
    PROVE  \A i \in Ids : Complete(vq, id, len).used[i] =
                 IF i = vq.used_idx % QSize THEN [id |-> id, len |-> len] ELSE vq.used[i]
  <1>1. vq.used_idx % QSize \in Ids
    BY PositionType DEF Vq, Idx
  <1> QED
    BY <1>1 DEF Vq, Complete

\* The positions of a run of at most QSize indices are all different from the one
\* that follows the run.
LEMMA NextPositionFree ==
    ASSUME NEW a \in Idx, NEW b \in Idx, Behind(a, b) < QSize, NEW k \in 1 .. Behind(a, b)
    PROVE  /\ (a + k - 1) % QSize \in Ids
           /\ (a + k - 1) % QSize # b % QSize
  <1> DEFINE n == Behind(a, b)
             x == a + k - 1
             y == a + n
  <1>1. n \in Int /\ a \in Int /\ k \in Int
    BY BehindIs, Sizes DEF Idx
  <1> HIDE DEF n
  <1>2. x \in Int /\ y \in Int /\ x < y /\ y - x < QSize
    BY <1>1, Sizes DEF n
  <1>3. b % QSize = y % QSize
    BY PositionOf DEF n
  <1> HIDE DEF x, y
  <1>4. x % QSize # y % QSize
    BY <1>2, Sizes, ModDistinct
  <1>5. x % QSize \in Ids
    BY <1>2, PositionType
  <1> QED
    BY <1>3, <1>4, <1>5 DEF x

\* Publishing leaves the used entries alone.
LEMMA PublishKeepsUnread ==
    ASSUME NEW B, NEW L, NEW vq \in Vq(B, L), NEW id \in Int, NEW last
    PROVE  UnreadUsed(Publish(vq, id), last) = UnreadUsed(vq, last)
  <1> DEFINE w == Publish(vq, id)
  <1>1. w.used = vq.used /\ w.used_idx = vq.used_idx
    BY PublishFields
  <1> HIDE DEF w
  <1>2. UnreadUsed(w, last) = UnreadUsed(vq, last)
    BY <1>1 DEF UnreadUsed
  <1> QED
    BY <1>2 DEF w

\* Publishing appends to the chains waiting for the device.
LEMMA PublishAppends ==
    ASSUME NEW B, NEW L, NEW vq \in Vq(B, L), NEW id \in Int,
           Behind(vq.seen, vq.avail_idx) < QSize
    PROVE  LET A == AvailChains(vq)
               P == AvailChains(Publish(vq, id))
           IN  /\ Len(P) = Len(A) + 1
               /\ P[Len(A) + 1] = id
               /\ \A k \in 1 .. Len(A) : P[k] = A[k]
  <1> DEFINE w == Publish(vq, id)
             A == AvailChains(vq)
             P == AvailChains(w)
             n == Behind(vq.seen, vq.avail_idx)
  <1>1. /\ w \in Vq(B, L) /\ w.seen = vq.seen
        /\ w.used = vq.used /\ w.used_idx = vq.used_idx
        /\ w.avail_idx = (vq.avail_idx + 1) % IdxMod
        /\ \A i \in Ids : w.avail[i] = IF i = vq.avail_idx % QSize THEN id ELSE vq.avail[i]
    BY PublishFields
  <1>2. vq.seen \in Idx /\ vq.avail_idx \in Idx
    BY DEF Vq
  <1> HIDE DEF w
  <1>3. n \in Nat /\ n + 1 < IdxMod
    BY <1>2, BehindIs, Sizes
  <1>4. Behind(w.seen, w.avail_idx) = n + 1
    BY <1>1, <1>2, <1>3, BehindLonger
  <1>5. /\ Len(A) = n
        /\ \A k \in 1 .. n : A[k] = vq.avail[(vq.seen + k - 1) % QSize]
    BY <1>2, AvailIs
  <1>6. /\ Len(P) = n + 1
        /\ \A k \in 1 .. (n + 1) : P[k] = w.avail[(vq.seen + k - 1) % QSize]
    <2>1. w.seen \in Idx /\ w.avail_idx \in Idx
      BY <1>1 DEF Vq
    <2> HIDE DEF n
    <2> QED
      BY <1>1, <1>4, <2>1, AvailIs
  <1>7. P[n + 1] = id
    <2>1. vq.seen + (n + 1) - 1 = vq.seen + n
      BY <1>2, <1>3 DEF Idx
    <2>2. (vq.seen + n) % QSize = vq.avail_idx % QSize
      BY <1>2, PositionOf
    <2>3. vq.avail_idx % QSize \in Ids
      BY <1>2, PositionType DEF Idx
    <2> HIDE DEF n
    <2>4. P[n + 1] = w.avail[(vq.seen + (n + 1) - 1) % QSize]
      BY <1>3, <1>6
    <2> QED
      BY <1>1, <2>1, <2>2, <2>3, <2>4
  <1>8. ASSUME NEW k \in 1 .. n PROVE P[k] = A[k]
    <2>1. (vq.seen + k - 1) % QSize \in Ids /\ (vq.seen + k - 1) % QSize # vq.avail_idx % QSize
      BY <1>2, NextPositionFree
    <2> HIDE DEF n
    <2> QED
      BY <1>1, <1>3, <1>5, <1>6, <2>1
  <1> QED
    BY <1>5, <1>6, <1>7, <1>8 DEF w

\* Completing the oldest chain takes it off the chains waiting for the device.
LEMMA CompleteTakes ==
    ASSUME NEW B, NEW L, NEW vq \in Vq(B, L), NEW id \in Int, NEW len \in L, HasChain(vq)
    PROVE  LET A == AvailChains(vq)
               C == AvailChains(Complete(vq, id, len))
           IN  /\ Len(A) > 0 /\ A[1] = HeadChain(vq)
               /\ Len(C) = Len(A) - 1
               /\ \A k \in 1 .. Len(C) : C[k] = A[k + 1]
  <1> DEFINE w == Complete(vq, id, len)
             A == AvailChains(vq)
             C == AvailChains(w)
             n == Behind(vq.seen, vq.avail_idx)
  <1>1. /\ w \in Vq(B, L) /\ w.avail = vq.avail /\ w.avail_idx = vq.avail_idx
        /\ w.seen = (vq.seen + 1) % IdxMod
    BY CompleteFields
  <1>2. vq.seen \in Idx /\ vq.avail_idx \in Idx
    BY DEF Vq
  <1> HIDE DEF w
  <1>3. n \in Nat /\ n > 0
    BY <1>2, BehindIs, Sizes DEF HasChain
  <1>4. Behind(w.seen, w.avail_idx) = n - 1
    BY <1>1, <1>2, <1>3, BehindShorter DEF HasChain
  <1>5. /\ Len(A) = n
        /\ \A k \in 1 .. n : A[k] = vq.avail[(vq.seen + k - 1) % QSize]
    BY <1>2, AvailIs
  <1>6. /\ Len(C) = n - 1
        /\ \A k \in 1 .. (n - 1) : C[k] = vq.avail[(w.seen + k - 1) % QSize]
    <2>1. w.seen \in Idx /\ w.avail_idx \in Idx
      BY <1>1 DEF Vq
    <2> HIDE DEF n
    <2>2. /\ Len(C) = n - 1
          /\ \A k \in 1 .. (n - 1) : C[k] = w.avail[(w.seen + k - 1) % QSize]
      BY <1>4, <2>1, AvailIs
    <2> QED
      BY <1>1, <2>2
  <1>7. A[1] = HeadChain(vq)
    <2>1. vq.seen + 1 - 1 = vq.seen
      BY <1>2 DEF Idx
    <2> HIDE DEF n
    <2>2. A[1] = vq.avail[(vq.seen + 1 - 1) % QSize]
      BY <1>3, <1>5
    <2> QED
      BY <2>1, <2>2 DEF HeadChain
  <1>8. ASSUME NEW k \in 1 .. (n - 1) PROVE C[k] = A[k + 1]
    <2> HIDE DEF n
    <2>1. k \in Int /\ k + 1 \in 1 .. n /\ k - 1 \in Int
      BY <1>3
    <2>2. w.seen + k - 1 = ((vq.seen + 1) % IdxMod) + (k - 1)
      BY <1>1, <1>2, <2>1, Following DEF Idx
    <2>3. (((vq.seen + 1) % IdxMod) + (k - 1)) % QSize = ((vq.seen + 1) + (k - 1)) % QSize
      BY <1>2, <2>1, PositionAfter
    <2>4. (vq.seen + 1) + (k - 1) = vq.seen + (k + 1) - 1
      BY <1>2, <2>1 DEF Idx
    <2>5. A[k + 1] = vq.avail[(vq.seen + (k + 1) - 1) % QSize]
      BY <1>5, <2>1
    <2> QED
      BY <1>6, <2>2, <2>3, <2>4, <2>5
  <1> HIDE DEF n, A, C
  <1>9. /\ Len(A) > 0 /\ A[1] = HeadChain(vq)
        /\ Len(C) = Len(A) - 1
        /\ \A k \in 1 .. Len(C) : C[k] = A[k + 1]
    BY <1>3, <1>5, <1>6, <1>7, <1>8
  <1> QED
    BY <1>9 DEF w, A, C

\* Completing a chain appends it to the used entries the driver has not looked at.
LEMMA CompleteAppends ==
    ASSUME NEW B, NEW L, NEW vq \in Vq(B, L), NEW id \in Int, NEW len \in L,
           NEW last \in Idx, Behind(last, vq.used_idx) < QSize
    PROVE  LET U == UnreadUsed(vq, last)
               V == UnreadUsed(Complete(vq, id, len), last)
           IN  /\ Len(V) = Len(U) + 1
               /\ V[Len(U) + 1] = [id |-> id, len |-> len]
               /\ \A k \in 1 .. Len(U) : V[k] = U[k]
  <1> DEFINE w == Complete(vq, id, len)
             U == UnreadUsed(vq, last)
             V == UnreadUsed(w, last)
             m == Behind(last, vq.used_idx)
  <1>1. /\ w \in Vq(B, L) /\ w.used_idx = (vq.used_idx + 1) % IdxMod
        /\ \A i \in Ids : w.used[i] =
              IF i = vq.used_idx % QSize THEN [id |-> id, len |-> len] ELSE vq.used[i]
    BY CompleteFields, CompleteUsed
  <1>2. vq.used_idx \in Idx
    BY DEF Vq
  <1> HIDE DEF w
  <1>3. m \in Nat /\ m + 1 < IdxMod
    BY <1>2, BehindIs, Sizes
  <1>4. Behind(last, w.used_idx) = m + 1
    BY <1>1, <1>2, <1>3, BehindLonger
  <1>5. /\ Len(U) = m
        /\ \A k \in 1 .. m : U[k] = vq.used[(last + k - 1) % QSize]
    BY <1>2, UnreadIs
  <1>6. /\ Len(V) = m + 1
        /\ \A k \in 1 .. (m + 1) : V[k] = w.used[(last + k - 1) % QSize]
    <2>1. w.used_idx \in Idx
      BY <1>1 DEF Vq
    <2> HIDE DEF m
    <2> QED
      BY <1>4, <2>1, UnreadIs
  <1>7. V[m + 1] = [id |-> id, len |-> len]
    <2>1. last + (m + 1) - 1 = last + m
      BY <1>2, <1>3 DEF Idx
    <2>2. (last + m) % QSize = vq.used_idx % QSize
      BY <1>2, PositionOf
    <2>3. vq.used_idx % QSize \in Ids
      BY <1>2, PositionType DEF Idx
    <2> HIDE DEF m
    <2>4. V[m + 1] = w.used[(last + (m + 1) - 1) % QSize]
      BY <1>3, <1>6
    <2> QED
      BY <1>1, <2>1, <2>2, <2>3, <2>4
  <1>8. ASSUME NEW k \in 1 .. m PROVE V[k] = U[k]
    <2>1. (last + k - 1) % QSize \in Ids /\ (last + k - 1) % QSize # vq.used_idx % QSize
      BY <1>2, NextPositionFree
    <2> HIDE DEF m
    <2> QED
      BY <1>1, <1>3, <1>5, <1>6, <2>1
  <1> HIDE DEF m, U, V
  <1>9. /\ Len(V) = Len(U) + 1
        /\ V[Len(U) + 1] = [id |-> id, len |-> len]
        /\ \A k \in 1 .. Len(U) : V[k] = U[k]
    BY <1>3, <1>5, <1>6, <1>7, <1>8
  <1> QED
    BY <1>9 DEF w, U, V

\* Stepping the driver's index drops the oldest used entry.
LEMMA AdvanceDrops ==
    ASSUME NEW B, NEW L, NEW vq \in Vq(B, L), NEW last \in Idx, last # vq.used_idx
    PROVE  LET U == UnreadUsed(vq, last)
               V == UnreadUsed(vq, (last + 1) % IdxMod)
           IN  /\ Len(U) > 0 /\ U[1] = vq.used[last % QSize]
               /\ Len(V) = Len(U) - 1
               /\ \A k \in 1 .. Len(V) : V[k] = U[k + 1]
  <1> DEFINE next == (last + 1) % IdxMod
             U == UnreadUsed(vq, last)
             V == UnreadUsed(vq, next)
             m == Behind(last, vq.used_idx)
  <1>1. vq.used_idx \in Idx /\ next \in Idx
    BY Following DEF Vq
  <1>2. m \in Nat /\ m > 0
    BY <1>1, BehindIs, Sizes
  <1>3. Behind(next, vq.used_idx) = m - 1
    BY <1>1, BehindShorter
  <1> HIDE DEF next
  <1>4. /\ Len(U) = m
        /\ \A k \in 1 .. m : U[k] = vq.used[(last + k - 1) % QSize]
    BY <1>1, UnreadIs
  <1>5. /\ Len(V) = m - 1
        /\ \A k \in 1 .. (m - 1) : V[k] = vq.used[(next + k - 1) % QSize]
    <2> HIDE DEF m
    <2> QED
      BY <1>1, <1>3, UnreadIs
  <1>6. U[1] = vq.used[last % QSize]
    <2>1. last + 1 - 1 = last
      BY DEF Idx
    <2> HIDE DEF m
    <2>2. U[1] = vq.used[(last + 1 - 1) % QSize]
      BY <1>2, <1>4
    <2> QED
      BY <2>1, <2>2
  <1>7. ASSUME NEW k \in 1 .. (m - 1) PROVE V[k] = U[k + 1]
    <2> HIDE DEF m
    <2>1. k \in Int /\ k + 1 \in 1 .. m /\ k - 1 \in Int
      BY <1>2
    <2>2. next + k - 1 = ((last + 1) % IdxMod) + (k - 1)
      BY <1>1, <2>1 DEF Idx, next
    <2>3. (((last + 1) % IdxMod) + (k - 1)) % QSize = ((last + 1) + (k - 1)) % QSize
      BY <2>1, PositionAfter
    <2>4. (last + 1) + (k - 1) = last + (k + 1) - 1
      BY <2>1 DEF Idx
    <2>5. U[k + 1] = vq.used[(last + (k + 1) - 1) % QSize]
      BY <1>4, <2>1
    <2> QED
      BY <1>5, <2>2, <2>3, <2>4, <2>5
  <1> HIDE DEF m, U, V
  <1>8. /\ Len(U) > 0 /\ U[1] = vq.used[last % QSize]
        /\ Len(V) = Len(U) - 1
        /\ \A k \in 1 .. Len(V) : V[k] = U[k + 1]
    BY <1>2, <1>4, <1>5, <1>6, <1>7
  <1> QED
    BY <1>8 DEF U, V, next

-----------------------------------------------------------------------------
(* Ownership of the chains of a receive queue. *)

\* Each of the n chains of S is owned once: it waits for the device or its used entry
\* waits for the driver, whose index is last.
OwnedOnce(vq, last, S, n) ==
    LET A == AvailChains(vq)
        U == UnreadUsed(vq, last)
    IN  /\ Len(A) + Len(U) = n
        /\ \A k \in 1 .. Len(A) : A[k] \in S
        /\ \A k \in 1 .. Len(U) : U[k].id \in S
        /\ \A j \in 1 .. Len(A), k \in 1 .. Len(A) : A[j] = A[k] => j = k
        /\ \A j \in 1 .. Len(U), k \in 1 .. Len(U) : U[j].id = U[k].id => j = k
        /\ \A j \in 1 .. Len(A), k \in 1 .. Len(U) : A[j] # U[k].id
        /\ \A s \in S : \/ \E k \in 1 .. Len(A) : A[k] = s
                        \/ \E k \in 1 .. Len(U) : U[k].id = s

\* The device's return of a chain keeps the ownership exclusive.
LEMMA CompleteKeepsOwners ==
    ASSUME NEW B, NEW L, NEW vq \in Vq(B, L), NEW last \in Idx, NEW S \in SUBSET Int,
           NEW n \in Nat, n <= QSize, NEW len \in L,
           OwnedOnce(vq, last, S, n), HasChain(vq)
    PROVE  /\ HeadChain(vq) \in S
           /\ OwnedOnce(Complete(vq, HeadChain(vq), len), last, S, n)
           /\ \A k \in 1 .. Len(UnreadUsed(vq, last)) :
                 UnreadUsed(vq, last)[k].id # HeadChain(vq)
           /\ Behind(last, vq.used_idx) < QSize
  <1> DEFINE h == HeadChain(vq)
             w == Complete(vq, h, len)
             A == AvailChains(vq)
             C == AvailChains(w)
             U == UnreadUsed(vq, last)
             V == UnreadUsed(w, last)
  <1>1. /\ vq.seen \in Idx /\ vq.avail_idx \in Idx /\ vq.used_idx \in Idx
    BY DEF Vq
  <1>2. /\ Len(A) = Behind(vq.seen, vq.avail_idx) /\ Len(A) \in Nat
        /\ Len(U) = Behind(last, vq.used_idx) /\ Len(U) \in Nat
    BY <1>1, AvailIs, UnreadIs
  <1>3. h \in Int
    BY <1>1, PositionType DEF Vq, HeadChain, Idx
  <1>4. Len(A) > 0 /\ Len(A) + Len(U) = n
    BY <1>1, <1>2, BehindIs, Sizes DEF HasChain, OwnedOnce
  <1>5. Behind(last, vq.used_idx) < QSize
    BY <1>2, <1>4, Sizes
  <1> HIDE DEF h
  <1>6. /\ A[1] = h
        /\ Len(C) = Len(A) - 1
        /\ \A k \in 1 .. Len(C) : C[k] = A[k + 1]
        /\ Len(V) = Len(U) + 1
        /\ V[Len(U) + 1] = [id |-> h, len |-> len]
        /\ \A k \in 1 .. Len(U) : V[k] = U[k]
    <2>1. /\ A[1] = HeadChain(vq)
          /\ Len(C) = Len(A) - 1
          /\ \A k \in 1 .. Len(C) : C[k] = A[k + 1]
          /\ Len(V) = Len(U) + 1
          /\ V[Len(U) + 1] = [id |-> h, len |-> len]
          /\ \A k \in 1 .. Len(U) : V[k] = U[k]
      BY <1>3, <1>5, CompleteTakes, CompleteAppends
    <2> QED
      BY <2>1 DEF h
  <1>7. /\ \A k \in 1 .. Len(A) : A[k] \in S
        /\ \A k \in 1 .. Len(U) : U[k].id \in S
        /\ \A j \in 1 .. Len(A), k \in 1 .. Len(A) : A[j] = A[k] => j = k
        /\ \A j \in 1 .. Len(U), k \in 1 .. Len(U) : U[j].id = U[k].id => j = k
        /\ \A j \in 1 .. Len(A), k \in 1 .. Len(U) : A[j] # U[k].id
        /\ \A s \in S : \/ \E k \in 1 .. Len(A) : A[k] = s
                        \/ \E k \in 1 .. Len(U) : U[k].id = s
    BY DEF OwnedOnce
  <1> HIDE DEF w, A, C, U, V
  <1>8. h \in S /\ \A k \in 1 .. Len(U) : U[k].id # h
    BY <1>2, <1>4, <1>6, <1>7
  <1>9. Len(C) + Len(V) = n
    BY <1>2, <1>4, <1>6
  <1>10. \A k \in 1 .. Len(C) : C[k] \in S
    BY <1>2, <1>6, <1>7
  <1>11. \A k \in 1 .. Len(V) : V[k].id \in S /\ (k \in 1 .. Len(U) \/ (k = Len(U) + 1 /\ V[k].id = h))
    BY <1>2, <1>6, <1>7, <1>8
  <1>12. \A j \in 1 .. Len(C), k \in 1 .. Len(C) : C[j] = C[k] => j = k
    <2> SUFFICES ASSUME NEW j \in 1 .. Len(C), NEW k \in 1 .. Len(C), C[j] = C[k] PROVE j = k
      OBVIOUS
    <2>1. j + 1 \in 1 .. Len(A) /\ k + 1 \in 1 .. Len(A) /\ A[j + 1] = A[k + 1]
      BY <1>2, <1>6
    <2>2. j + 1 = k + 1
      BY <2>1, <1>7
    <2> QED
      BY <2>2, <1>2, <1>6
  <1>13. \A j \in 1 .. Len(V), k \in 1 .. Len(V) : V[j].id = V[k].id => j = k
    BY <1>2, <1>6, <1>7, <1>8, <1>11
  <1>14. \A j \in 1 .. Len(C), k \in 1 .. Len(V) : C[j] # V[k].id
    <2> SUFFICES ASSUME NEW j \in 1 .. Len(C), NEW k \in 1 .. Len(V) PROVE C[j] # V[k].id
      OBVIOUS
    <2>1. j + 1 \in 1 .. Len(A) /\ j + 1 # 1 /\ 1 \in 1 .. Len(A) /\ C[j] = A[j + 1]
      BY <1>2, <1>4, <1>6
    <2>2. CASE k \in 1 .. Len(U)
      BY <2>1, <2>2, <1>6, <1>7
    <2>3. CASE k = Len(U) + 1 /\ V[k].id = h
      BY <2>1, <2>3, <1>6, <1>7
    <2> QED
      BY <2>2, <2>3, <1>11
  <1>15. ASSUME NEW s \in S
         PROVE  \/ \E k \in 1 .. Len(C) : C[k] = s
                \/ \E k \in 1 .. Len(V) : V[k].id = s
    <2>1. CASE \E k \in 1 .. Len(A) : A[k] = s
      <3>1. PICK k \in 1 .. Len(A) : A[k] = s
        BY <2>1
      <3>2. CASE k = 1
        <4>1. Len(U) + 1 \in 1 .. Len(V) /\ V[Len(U) + 1].id = s
          BY <3>1, <3>2, <1>2, <1>6
        <4> QED
          BY <4>1
      <3>3. CASE k # 1
        <4>1. k - 1 \in 1 .. Len(C) /\ (k - 1) + 1 = k
          BY <3>1, <3>3, <1>2, <1>6
        <4> QED
          BY <4>1, <3>1, <1>6
      <3> QED
        BY <3>2, <3>3
    <2>2. CASE \E k \in 1 .. Len(U) : U[k].id = s
      <3>1. PICK k \in 1 .. Len(U) : U[k].id = s
        BY <2>2
      <3>2. k \in 1 .. Len(V) /\ V[k].id = s
        BY <3>1, <1>2, <1>6
      <3> QED
        BY <3>2
    <2> QED
      BY <2>1, <2>2, <1>7
  <1>16. OwnedOnce(w, last, S, n)
    BY <1>9, <1>10, <1>11, <1>12, <1>13, <1>14, <1>15 DEF OwnedOnce, C, V
  <1> QED
    BY <1>5, <1>8, <1>16 DEF h, w, U

\* The driver's reading of the oldest used entry and handing back of its chain keep
\* the ownership exclusive.
LEMMA RecycleKeepsOwners ==
    ASSUME NEW B, NEW L, NEW vq \in Vq(B, L), NEW last \in Idx, NEW S \in SUBSET Int,
           NEW n \in Nat, n <= QSize,
           OwnedOnce(vq, last, S, n), last # vq.used_idx
    PROVE  /\ vq.used[last % QSize].id \in S
           /\ OwnedOnce(Publish(vq, vq.used[last % QSize].id), (last + 1) % IdxMod, S, n)
  <1> DEFINE h == vq.used[last % QSize].id
             w == Publish(vq, h)
             next == (last + 1) % IdxMod
             A == AvailChains(vq)
             C == AvailChains(w)
             U == UnreadUsed(vq, last)
             V == UnreadUsed(w, next)
  <1>1. /\ vq.seen \in Idx /\ vq.avail_idx \in Idx /\ vq.used_idx \in Idx
        /\ last % QSize \in Ids /\ next \in Idx
    BY PositionType, Following DEF Vq, Idx
  <1>2. /\ Len(A) = Behind(vq.seen, vq.avail_idx) /\ Len(A) \in Nat
        /\ Len(U) = Behind(last, vq.used_idx) /\ Len(U) \in Nat
    BY <1>1, AvailIs, UnreadIs
  <1>3. h \in Int
    BY <1>1 DEF Vq
  <1>4. Len(U) > 0 /\ Len(A) + Len(U) = n
    BY <1>1, <1>2, BehindIs, Sizes DEF OwnedOnce
  <1>5. Behind(vq.seen, vq.avail_idx) < QSize
    BY <1>2, <1>4, Sizes
  <1> HIDE DEF h
  <1>6. /\ Len(C) = Len(A) + 1
        /\ C[Len(A) + 1] = h
        /\ \A k \in 1 .. Len(A) : C[k] = A[k]
    BY <1>3, <1>5, PublishAppends
  <1>7. /\ U[1].id = h
        /\ Len(V) = Len(U) - 1
        /\ \A k \in 1 .. Len(V) : V[k] = U[k + 1]
    <2>1. V = UnreadUsed(vq, next)
      BY <1>3, PublishKeepsUnread
    <2>2. U[1] = vq.used[last % QSize]
      BY AdvanceDrops
    <2> QED
      BY <2>1, <2>2, AdvanceDrops DEF h
  <1>8. /\ \A k \in 1 .. Len(A) : A[k] \in S
        /\ \A k \in 1 .. Len(U) : U[k].id \in S
        /\ \A j \in 1 .. Len(A), k \in 1 .. Len(A) : A[j] = A[k] => j = k
        /\ \A j \in 1 .. Len(U), k \in 1 .. Len(U) : U[j].id = U[k].id => j = k
        /\ \A j \in 1 .. Len(A), k \in 1 .. Len(U) : A[j] # U[k].id
        /\ \A s \in S : \/ \E k \in 1 .. Len(A) : A[k] = s
                        \/ \E k \in 1 .. Len(U) : U[k].id = s
    BY DEF OwnedOnce
  <1> HIDE DEF w, next, A, C, U, V
  <1>9. h \in S /\ \A k \in 1 .. Len(A) : A[k] # h
    BY <1>2, <1>4, <1>7, <1>8
  <1>10. Len(C) + Len(V) = n
    BY <1>2, <1>4, <1>6, <1>7
  <1>11. \A k \in 1 .. Len(C) : C[k] \in S /\ (k \in 1 .. Len(A) \/ (k = Len(A) + 1 /\ C[k] = h))
    BY <1>2, <1>6, <1>8, <1>9
  <1>12. \A k \in 1 .. Len(V) : V[k].id \in S /\ k + 1 \in 1 .. Len(U) /\ k + 1 # 1 /\ V[k] = U[k + 1]
    BY <1>2, <1>7, <1>8
  <1>13. \A j \in 1 .. Len(C), k \in 1 .. Len(C) : C[j] = C[k] => j = k
    BY <1>2, <1>6, <1>8, <1>9, <1>11
  <1>14. \A j \in 1 .. Len(V), k \in 1 .. Len(V) : V[j].id = V[k].id => j = k
    <2> SUFFICES ASSUME NEW j \in 1 .. Len(V), NEW k \in 1 .. Len(V), V[j].id = V[k].id
                 PROVE  j = k
      OBVIOUS
    <2>1. /\ j + 1 \in 1 .. Len(U) /\ V[j] = U[j + 1]
          /\ k + 1 \in 1 .. Len(U) /\ V[k] = U[k + 1]
      BY <1>12
    <2>2. j + 1 = k + 1
      BY <1>8, <2>1
    <2> QED
      BY <2>2, <1>2, <1>7
  <1>15. \A j \in 1 .. Len(C), k \in 1 .. Len(V) : C[j] # V[k].id
    <2> SUFFICES ASSUME NEW j \in 1 .. Len(C), NEW k \in 1 .. Len(V) PROVE C[j] # V[k].id
      OBVIOUS
    <2>1. k + 1 \in 1 .. Len(U) /\ k + 1 # 1 /\ 1 \in 1 .. Len(U) /\ V[k] = U[k + 1]
      BY <1>2, <1>4, <1>12
    <2>2. CASE j \in 1 .. Len(A)
      BY <2>1, <2>2, <1>6, <1>8
    <2>3. CASE j = Len(A) + 1 /\ C[j] = h
      BY <2>1, <2>3, <1>7, <1>8
    <2> QED
      BY <2>2, <2>3, <1>11
  <1>16. ASSUME NEW s \in S
         PROVE  \/ \E k \in 1 .. Len(C) : C[k] = s
                \/ \E k \in 1 .. Len(V) : V[k].id = s
    <2>1. CASE \E k \in 1 .. Len(U) : U[k].id = s
      <3>1. PICK k \in 1 .. Len(U) : U[k].id = s
        BY <2>1
      <3>2. CASE k = 1
        <4>1. Len(A) + 1 \in 1 .. Len(C) /\ C[Len(A) + 1] = s
          BY <3>1, <3>2, <1>2, <1>6, <1>7
        <4> QED
          BY <4>1
      <3>3. CASE k # 1
        <4>1. k - 1 \in 1 .. Len(V) /\ (k - 1) + 1 = k
          BY <3>1, <3>3, <1>2, <1>7
        <4> QED
          BY <4>1, <3>1, <1>7
      <3> QED
        BY <3>2, <3>3
    <2>2. CASE \E k \in 1 .. Len(A) : A[k] = s
      <3>1. PICK k \in 1 .. Len(A) : A[k] = s
        BY <2>2
      <3>2. k \in 1 .. Len(C) /\ C[k] = s
        BY <3>1, <1>2, <1>6
      <3> QED
        BY <3>2
    <2> QED
      BY <2>1, <2>2, <1>8
  <1>17. OwnedOnce(w, next, S, n)
    BY <1>10, <1>11, <1>12, <1>13, <1>14, <1>15, <1>16 DEF OwnedOnce, C, V
  <1> QED
    BY <1>9, <1>17 DEF h, w, next

\* Exclusive ownership, as the drivers' modules state it: the chains owned by either
\* side, one after the other, are n chains and they are all of S.
LEMMA OwnersAreAll ==
    ASSUME NEW vq, vq.seen \in Idx, vq.avail_idx \in Idx, vq.used_idx \in Idx,
           NEW last \in Idx, NEW S, NEW n, OwnedOnce(vq, last, S, n)
    PROVE  LET avail == AvailChains(vq)
               unread == UnreadUsed(vq, last)
               owned == avail \o [k \in 1 .. Len(unread) |-> unread[k].id]
           IN  Len(owned) = n /\ { owned[k] : k \in 1 .. Len(owned) } = S
  <1> DEFINE A == AvailChains(vq)
             U == UnreadUsed(vq, last)
             I == [k \in 1 .. Len(U) |-> U[k].id]
             O == A \o I
  <1>1. Len(A) \in Nat /\ Len(U) \in Nat /\ DOMAIN A = 1 .. Len(A)
    BY AvailIs, UnreadIs
  <1>2. /\ Len(A) + Len(U) = n
        /\ \A k \in 1 .. Len(A) : A[k] \in S
        /\ \A k \in 1 .. Len(U) : U[k].id \in S
        /\ \A s \in S : \/ \E k \in 1 .. Len(A) : A[k] = s
                        \/ \E k \in 1 .. Len(U) : U[k].id = s
    BY DEF OwnedOnce
  <1>3. A = [k \in 1 .. Behind(vq.seen, vq.avail_idx) |-> vq.avail[(vq.seen + k - 1) % QSize]]
    BY DEF AvailChains
  <1> HIDE DEF U
  <1>4. I \in Seq(S) /\ Len(I) = Len(U) /\ \A k \in 1 .. Len(U) : I[k] = U[k].id
    BY <1>1, <1>2
  <1>5. A \in Seq(S)
    <2>1. Behind(vq.seen, vq.avail_idx) = Len(A)
      BY AvailIs
    <2> DEFINE m == Len(A)
    <2>2. m \in Nat /\ A = [k \in 1 .. m |-> A[k]] /\ \A k \in 1 .. m : A[k] \in S
      BY <1>1, <1>2, <1>3, <2>1
    <2> HIDE DEF m, A
    <2>3. [k \in 1 .. m |-> A[k]] \in Seq(S)
      BY <2>2
    <2> QED
      BY <2>2, <2>3
  <1> HIDE DEF A, I
  <1>6. /\ Len(O) = Len(A) + Len(U)
        /\ \A k \in 1 .. Len(A) : O[k] = A[k]
        /\ \A k \in 1 .. Len(U) : O[Len(A) + k] = U[k].id
    BY <1>1, <1>4, <1>5
  <1> HIDE DEF O
  <1>7. \A k \in 1 .. Len(O) : O[k] \in S
    <2> SUFFICES ASSUME NEW k \in 1 .. Len(O) PROVE O[k] \in S
      OBVIOUS
    <2>1. CASE k \in 1 .. Len(A)
      BY <2>1, <1>2, <1>6
    <2>2. CASE k \notin 1 .. Len(A)
      <3>1. k - Len(A) \in 1 .. Len(U) /\ Len(A) + (k - Len(A)) = k
        BY <2>2, <1>1, <1>6
      <3> QED
        BY <3>1, <1>2, <1>6
    <2> QED
      BY <2>1, <2>2
  <1>8. ASSUME NEW s \in S PROVE \E k \in 1 .. Len(O) : O[k] = s
    <2>1. CASE \E k \in 1 .. Len(A) : A[k] = s
      <3>1. PICK k \in 1 .. Len(A) : A[k] = s
        BY <2>1
      <3>2. k \in 1 .. Len(O) /\ O[k] = s
        BY <3>1, <1>1, <1>6
      <3> QED
        BY <3>2
    <2>2. CASE \E k \in 1 .. Len(U) : U[k].id = s
      <3>1. PICK k \in 1 .. Len(U) : U[k].id = s
        BY <2>2
      <3>2. Len(A) + k \in 1 .. Len(O) /\ O[Len(A) + k] = s
        BY <3>1, <1>1, <1>6
      <3> QED
        BY <3>2
    <2> QED
      BY <2>1, <2>2, <1>2
  <1>9. { O[k] : k \in 1 .. Len(O) } = S
    BY <1>7, <1>8
  <1>10. Len(O) = n
    BY <1>2, <1>6
  <1> QED
    BY <1>9, <1>10 DEF O, I, A, U
=============================================================================
