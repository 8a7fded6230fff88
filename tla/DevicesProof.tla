---------------------------- MODULE DevicesProof ----------------------------
(***************************************************************************)
(* Proofs about the PCI devices as MCDevices composes them.                *)
(*                                                                         *)
(* The bitmap allocator of slof/allocator.c and the DMA window of          *)
(* board-qemu/slof/pci-phb.fs: for every window, block size and sequence   *)
(* of well-paired calls the regions of the allocator never overlap, no     *)
(* block is lost and the cached count of free blocks is exact; whatever    *)
(* the window, the page size and the buffers, translations are exact and   *)
(* none is left behind, bus address 0 is never handed out, and the bitmap  *)
(* allocator sees only well paired calls - as long as callers unmap only   *)
(* what was mapped.                                                        *)
(*                                                                         *)
(* The network drivers: whatever the sizes of the rings and the number of  *)
(* buffers, no frame is lost, harmed or out of order, no buffer is lost or *)
(* offered twice, and no controller touches memory that is not its own.    *)
(***************************************************************************)
EXTENDS MCDevices, Integers, WellFoundedInduction, FiniteSetTheorems, TLAPS

-----------------------------------------------------------------------------
(* Arithmetic of block numbers. *)

\* Dividing a multiple of the block size gives the factor back.
LEMMA DivOfMultiple ==
    ASSUME NEW k \in Int, NEW b \in Nat \ {0}
    PROVE  (k * b) \div b = k
  OBVIOUS

\* BM_NUM_BITS rounds up: the blocks cover the bytes asked for.
LEMMA NumBits ==
    ASSUME NEW n \in Nat
    PROVE  /\ BM_NUM_BITS(n) \in Nat
           /\ n <= BM_NUM_BITS(n) * BlockSize
  <1>1. BlockSize \in Nat \ {0}
    BY BlockSizeAssumption
  <1> DEFINE q == n \div BlockSize
             r == n % BlockSize
  <1>2. q \in Nat /\ r \in 0 .. (BlockSize - 1) /\ n = (BlockSize * q) + r
    BY <1>1
  <1>3. CASE r = 0
    BY <1>1, <1>2, <1>3 DEF BM_NUM_BITS
  <1>4. CASE r # 0
    BY <1>1, <1>2, <1>4 DEF BM_NUM_BITS
  <1> QED
    BY <1>3, <1>4

\* The bits tile the window exactly (SLOF_bm_allocator_init).
LEMMA TotalSize == TotalBits \in Nat /\ TotalBits * BlockSize = Size
  BY SizeAssumption, BlockSizeAssumption DEF TotalBits, BM_NUM_BITS

\* The position computed by SLOF_bm_free undoes the address of SLOF_bm_alloc.
LEMMA BitPosOfAddr ==
    ASSUME NEW i \in Int
    PROVE  /\ AddrOf(i) \in Int
           /\ BitPos(AddrOf(i)) = i
  <1>1. /\ i * BlockSize \in Int
        /\ (Start + i * BlockSize) - Start = i * BlockSize
    BY StartAssumption, BlockSizeAssumption
  <1>2. (i * BlockSize) \div BlockSize = i
    BY DivOfMultiple, BlockSizeAssumption
  <1> QED
    BY <1>1, <1>2, StartAssumption DEF BitPos, AddrOf

\* Runs of blocks inside the bitmap lie inside the window.
LEMMA RunInWindow ==
    ASSUME NEW i \in Nat, NEW size \in Nat, i + BM_NUM_BITS(size) <= TotalBits
    PROVE  InWindow(AddrOf(i), size)
  <1> DEFINE n == BM_NUM_BITS(size)
  <1>1. n \in Nat /\ size <= n * BlockSize
    BY NumBits
  <1>2. TotalBits \in Nat /\ TotalBits * BlockSize = Size
    BY TotalSize
  <1>3. BlockSize \in Nat /\ Start \in Nat
    BY BlockSizeAssumption, StartAssumption
  <1> HIDE DEF n
  <1>4. i + n <= TotalBits
    BY DEF n
  <1>5. (i + n) * BlockSize <= TotalBits * BlockSize
    BY <1>1, <1>2, <1>3, <1>4
  <1>6. (i + n) * BlockSize = i * BlockSize + n * BlockSize
    BY <1>1, <1>3
  <1>7. i * BlockSize \in Nat /\ n * BlockSize \in Nat
    BY <1>1, <1>3
  <1> QED
    BY <1>1, <1>2, <1>3, <1>5, <1>6, <1>7, SizeAssumption DEF InWindow, AddrOf

-----------------------------------------------------------------------------
(* The search. *)

\* Every nonempty set of naturals has a least element.
LEMMA NatMin ==
    ASSUME NEW S \in SUBSET Nat, S # {}
    PROVE  \E i \in S : \A j \in S : i <= j
  <1>1. \E R : /\ IsWellFoundedOn(R, Nat)
               /\ \A y, x \in Nat : y < x => <<y, x>> \in R
    <2> DEFINE R == {ss \in Nat \X Nat : ss[1] < ss[2]}
    <2>1. IsWellFoundedOn(R, Nat)
      BY NatLessThanWellFounded, Zenon DEF OpToRel
    <2>2. \A y, x \in Nat : y < x => <<y, x>> \in R
      OBVIOUS
    <2> QED
      BY <2>1, <2>2
  <1>2. PICK R : /\ IsWellFoundedOn(R, Nat)
                 /\ \A y, x \in Nat : y < x => <<y, x>> \in R
    BY <1>1
  <1>3. S \subseteq Nat
    OBVIOUS
  <1>4. IsWellFoundedOn(R, Nat)
    BY <1>2
  <1>5. PICK x \in S : \A y \in S : ~(<<y, x>> \in R)
    BY <1>3, <1>4, WFMin, Zenon
  <1>6. \A y \in S : ~(y < x)
    BY <1>2, <1>3, <1>5, Zenon
  <1> QED
    BY <1>6

\* bm_find_bits returns a run of free blocks that ends inside the bitmap.
LEMMA FindBits ==
    ASSUME NEW n \in Nat, bmw \in SUBSET Bits, Candidates(n) # {}
    PROVE  /\ bm_find_bits(n) \in Nat
           /\ bm_find_bits(n) + n <= TotalBits
           /\ Run(bm_find_bits(n), n) \subseteq bmw
  <1>1. Candidates(n) \in SUBSET Nat
    <2>1. Bits \subseteq Nat
      BY TotalSize DEF Bits
    <2> QED
      BY <2>1 DEF Candidates
  <1>2. \E i \in Candidates(n) : \A j \in Candidates(n) : i <= j
    BY <1>1, NatMin
  <1>3. bm_find_bits(n) \in Candidates(n)
    BY <1>2 DEF bm_find_bits
  <1> QED
    BY <1>1, <1>3 DEF Candidates

-----------------------------------------------------------------------------
(* Counting. *)

\* A bitmap is finite, and so is a run of it; a run of n blocks has n elements.
LEMMA CardRun ==
    ASSUME NEW i \in Int, NEW n \in Nat
    PROVE  IsFiniteSet(Run(i, n)) /\ Cardinality(Run(i, n)) = n
  <1>1. i + n - 1 \in Int
    OBVIOUS
  <1>2. /\ IsFiniteSet(i .. (i + n - 1))
        /\ Cardinality(i .. (i + n - 1)) =
              IF i > i + n - 1 THEN 0 ELSE (i + n - 1) - i + 1
    BY <1>1, FS_Interval
  <1> QED
    BY <1>2 DEF Run

LEMMA BitmapFinite ==
    ASSUME NEW S \in SUBSET Bits
    PROVE  IsFiniteSet(S) /\ Cardinality(S) \in Nat
  <1>1. IsFiniteSet(Bits)
    BY TotalSize, FS_Interval DEF Bits
  <1> QED
    BY <1>1, FS_Subset, FS_CardinalityType

\* Removing a run that is in the set, and adding one that is disjoint from it.
LEMMA CardRemoveRun ==
    ASSUME NEW S \in SUBSET Bits, NEW i \in Int, NEW n \in Nat, Run(i, n) \subseteq S
    PROVE  Cardinality(S \ Run(i, n)) = Cardinality(S) - n
  <1> DEFINE T == S \ Run(i, n)
  <1>1. T \in SUBSET Bits
    OBVIOUS
  <1>2. IsFiniteSet(T) /\ Cardinality(T) \in Nat
    BY <1>1, BitmapFinite
  <1>3. IsFiniteSet(Run(i, n)) /\ Cardinality(Run(i, n)) = n
    BY CardRun
  <1>4. T \cup Run(i, n) = S /\ T \cap Run(i, n) = {}
    OBVIOUS
  <1>5. Cardinality(T \cup Run(i, n)) =
           Cardinality(T) + Cardinality(Run(i, n)) - Cardinality(T \cap Run(i, n))
    BY <1>2, <1>3, FS_Union
  <1>6. Cardinality(S) = Cardinality(T) + n - 0
    BY <1>3, <1>4, <1>5, FS_EmptySet
  <1>7. Cardinality(T) = Cardinality(S) - n
    BY <1>2, <1>6
  <1> QED
    BY <1>7

LEMMA CardAddRun ==
    ASSUME NEW S \in SUBSET Bits, NEW i \in Int, NEW n \in Nat, Run(i, n) \cap S = {}
    PROVE  Cardinality(S \cup Run(i, n)) = Cardinality(S) + n
  <1>1. IsFiniteSet(S) /\ Cardinality(S) \in Nat
    BY BitmapFinite
  <1>2. IsFiniteSet(Run(i, n)) /\ Cardinality(Run(i, n)) = n
    BY CardRun
  <1>3. S \cap Run(i, n) = {}
    OBVIOUS
  <1>4. Cardinality(S \cup Run(i, n)) =
           Cardinality(S) + Cardinality(Run(i, n)) - Cardinality(S \cap Run(i, n))
    BY <1>1, <1>2, FS_Union
  <1> QED
    BY <1>1, <1>2, <1>3, <1>4, FS_EmptySet

-----------------------------------------------------------------------------
(* The inductive invariant. *)

LEMMA BmInitInv == BmInit => BmInv
  <1> SUFFICES ASSUME BmInit PROVE BmInv
    OBVIOUS
  <1>1. Cardinality({}) = 0
    BY FS_EmptySet
  <1> QED
    BY <1>1 DEF BmInit, BmInv, BmTypeOK, LiveNeedsHandle, LiveInUse, LiveDisjoint,
                NoLeak, FreeBlocksExact

\* SLOF_bm_allocator_init on a null handle establishes a bitmap of free blocks.
LEMMA CreateInv == BmInv /\ Create => BmInv'
  <1> SUFFICES ASSUME BmInv, ~handle,
                      NEW memory \in BOOLEAN, SLOF_bm_allocator_init(memory)
               PROVE  BmInv'
    BY DEF Create
  <1> USE DEF BmInv
  <1>1. /\ live = {} /\ bmw = {} /\ free_blocks = 0
        /\ live' = live /\ handle' = memory
    BY DEF LiveNeedsHandle, SLOF_bm_allocator_init
  <1>2. CASE memory
    <2>1. bmw' = Bits /\ free_blocks' = TotalBits
      BY <1>2 DEF SLOF_bm_allocator_init
    <2>2. Cardinality(Bits) = TotalBits
      BY TotalSize, FS_Interval DEF Bits
    <2> QED
      BY <1>1, <1>2, <2>1, <2>2, TotalSize
      DEF BmTypeOK, LiveNeedsHandle, LiveInUse, LiveDisjoint, NoLeak, FreeBlocksExact
  <1>3. CASE ~memory
    <2>1. bmw' = bmw /\ free_blocks' = free_blocks
      BY <1>3 DEF SLOF_bm_allocator_init
    <2> QED
      BY <1>1, <1>3, <2>1
      DEF BmTypeOK, LiveNeedsHandle, LiveInUse, LiveDisjoint, NoLeak, FreeBlocksExact
  <1> QED
    BY <1>2, <1>3

\* SLOF_bm_alloc takes a run of free blocks out of the bitmap.
LEMMA AllocInv == BmInv /\ Alloc => BmInv'
  <1> SUFFICES ASSUME BmInv, NEW size \in Sizes, SLOF_bm_alloc(size)
               PROVE  BmInv'
    BY DEF Alloc
  <1> USE DEF BmInv
  <1>0. CASE AllocFails(size)
    BY <1>0 DEF SLOF_bm_alloc, bmvars, BmTypeOK, LiveNeedsHandle, LiveInUse,
                LiveDisjoint, NoLeak, FreeBlocksExact, InWindow, BlocksOf
  <1>1. CASE ~AllocFails(size)
    <2> DEFINE n == BM_NUM_BITS(size)
               i == bm_find_bits(n)
               r == [addr |-> AddrOf(i), size |-> size]
    <2>1. size \in Nat /\ n \in Nat
      BY SizesAssumption, NumBits
    <2>2. handle /\ n <= free_blocks /\ Candidates(n) # {}
      BY <1>1, <2>1 DEF AllocFails, BmTypeOK
    <2>3. /\ bmw' = bmw \ Run(i, n)
          /\ free_blocks' = free_blocks - n
          /\ live' = live \cup {r}
          /\ handle' = handle
      BY <1>1 DEF SLOF_bm_alloc, AllocAddr
    <2>4. i \in Nat /\ i + n <= TotalBits /\ Run(i, n) \subseteq bmw
      BY <2>1, <2>2, FindBits DEF BmTypeOK
    <2>5. AddrOf(i) \in Int /\ BitPos(AddrOf(i)) = i
      BY <2>4, BitPosOfAddr
    <2>6. InWindow(AddrOf(i), size)
      BY <2>1, <2>4, RunInWindow
    <2>7. r.addr = AddrOf(i) /\ r.size = size /\ BlocksOf(r) = Run(i, n)
      BY <2>5 DEF BlocksOf
    <2>8. r \in Region
      BY <2>1, <2>5 DEF Region
    <2>9. \A s \in live : BlocksOf(s) \subseteq Bits \ bmw
      BY DEF LiveInUse
    <2>10. Run(i, n) \subseteq Bits
      BY <2>4 DEF BmTypeOK
    <2> HIDE DEF n, i, r
    <2>11. BmTypeOK'
      BY <2>1, <2>2, <2>3, <2>8 DEF BmTypeOK
    <2>12. LiveNeedsHandle'
      BY <2>2, <2>3 DEF LiveNeedsHandle
    <2>13. LiveInUse'
      BY <2>3, <2>5, <2>6, <2>7, <2>10 DEF LiveInUse
    <2>14. LiveDisjoint'
      BY <2>3, <2>4, <2>7, <2>9 DEF LiveDisjoint
    <2>15. NoLeak'
      BY <2>2, <2>3, <2>7, <2>10 DEF NoLeak, BmTypeOK
    <2>16. FreeBlocksExact'
      BY <2>1, <2>3, <2>4, CardRemoveRun DEF FreeBlocksExact, BmTypeOK
    <2> QED
      BY <2>11, <2>12, <2>13, <2>14, <2>15, <2>16
  <1> QED
    BY <1>0, <1>1

\* SLOF_bm_free of a region that is held puts its run back.
LEMMA FreeLiveInv == BmInv /\ FreeLive => BmInv'
  <1> SUFFICES ASSUME BmInv, NEW r \in live, SLOF_bm_free(r.addr, r.size)
               PROVE  BmInv'
    BY DEF FreeLive
  <1> USE DEF BmInv
  <1> DEFINE n == BM_NUM_BITS(r.size)
             i == BitPos(r.addr)
  <1>1. r \in Region /\ r = [addr |-> r.addr, size |-> r.size] /\ r.size \in Nat
        /\ r.addr \in Int
    BY DEF BmTypeOK, Region
  <1>2. handle /\ InWindow(r.addr, r.size)
    BY DEF LiveNeedsHandle, LiveInUse, BmTypeOK
  <1>3. /\ bmw' = bmw \cup Run(i, n)
        /\ free_blocks' = free_blocks + n
        /\ live' = live \ {r}
        /\ handle' = handle
    BY <1>1, <1>2 DEF SLOF_bm_free
  <1>4. n \in Nat /\ i \in Int
    BY <1>1, NumBits, StartAssumption, BlockSizeAssumption DEF BitPos
  <1>5. BlocksOf(r) = Run(i, n)
    BY DEF BlocksOf
  <1>6. Run(i, n) \subseteq Bits /\ Run(i, n) \cap bmw = {}
    BY <1>5 DEF LiveInUse
  <1> HIDE DEF n, i
  <1>7. BmTypeOK'
    BY <1>3, <1>4, <1>6 DEF BmTypeOK
  <1>8. LiveNeedsHandle'
    BY <1>2, <1>3 DEF LiveNeedsHandle
  <1>9. LiveInUse'
    <2> SUFFICES ASSUME NEW s \in live, s # r
                 PROVE  /\ s.addr = AddrOf(BitPos(s.addr))
                        /\ BlocksOf(s) \subseteq Bits \ bmw'
                        /\ InWindow(s.addr, s.size)
      BY <1>3 DEF LiveInUse
    <2>1. BlocksOf(s) \cap BlocksOf(r) = {}
      BY DEF LiveDisjoint
    <2> QED
      BY <1>3, <1>5, <2>1 DEF LiveInUse
  <1>10. LiveDisjoint'
    BY <1>3 DEF LiveDisjoint
  <1>11. NoLeak'
    BY <1>2, <1>3, <1>5, <1>6 DEF NoLeak
  <1>12. FreeBlocksExact'
    BY <1>3, <1>4, <1>6, CardAddRun DEF FreeBlocksExact, BmTypeOK
  <1> QED
    BY <1>7, <1>8, <1>9, <1>10, <1>11, <1>12

\* SLOF_bm_free of a range outside the window is a no-op.
LEMMA FreeForeignStutters == FreeForeign => UNCHANGED bmvars
  <1> SUFFICES ASSUME NEW r \in Foreign, SLOF_bm_free(r.addr, r.size)
               PROVE  UNCHANGED bmvars
    BY DEF FreeForeign
  <1>1. r.addr < Start \/ Start + Size < r.addr + r.size
    BY ForeignAssumption
  <1>2. r.addr \in Int /\ r.size \in Nat
    BY ForeignAssumption DEF Region
  <1>3. ~InWindow(r.addr, r.size)
    BY <1>1, <1>2, StartAssumption, SizeAssumption DEF InWindow
  <1> QED
    BY <1>3 DEF SLOF_bm_free

\* Every operation keeps the invariant.
LEMMA BmStepInv == BmInv /\ [BmNext]_bmvars => BmInv'
  <1> SUFFICES ASSUME BmInv, [BmNext]_bmvars
               PROVE  BmInv'
    OBVIOUS
  <1>1. CASE Create
    BY <1>1, CreateInv
  <1>2. CASE Alloc
    BY <1>2, AllocInv
  <1>3. CASE FreeLive
    BY <1>3, FreeLiveInv
  <1>4. CASE UNCHANGED bmvars
    BY <1>4 DEF bmvars, BmInv, BmTypeOK, LiveNeedsHandle, LiveInUse, LiveDisjoint,
                NoLeak, FreeBlocksExact, InWindow, BlocksOf
  <1>5. CASE FreeForeign
    BY <1>4, <1>5, FreeForeignStutters
  <1> QED
    BY <1>1, <1>2, <1>3, <1>4, <1>5 DEF BmNext

\* Every reachable state of the allocator satisfies the inductive invariant:
\* SLOF_bm_alloc and SLOF_bm_free keep the bitmap, the cached count and the
\* regions held consistent.
THEOREM BmInvariant == BmSpec => []BmInv
  BY BmInitInv, BmStepInv, PTL DEF BmSpec

\* Regions handed out by SLOF_bm_alloc and not yet freed never share a block.
THEOREM NoOverlap == BmSpec => []LiveDisjoint
  <1>1. BmInv => LiveDisjoint
    BY DEF BmInv
  <1> QED
    BY <1>1, BmInvariant, PTL

\* No block is ever lost: it is free or part of a region that is held.
THEOREM Conservation == BmSpec => []NoLeak
  <1>1. BmInv => NoLeak
    BY DEF BmInv
  <1> QED
    BY <1>1, BmInvariant, PTL

\* SLOF_bm_alloc refuses a request only if there is no free run that long; the
\* test of free_blocks never turns away a request the search would satisfy.
THEOREM NoFalseRefusal == BmSpec => []RefusedOnlyIfNoRun
  <1>1. BmInv => RefusedOnlyIfNoRun
    <2> SUFFICES ASSUME BmInv, handle, NEW size \in Sizes, AllocFails(size),
                        NEW i \in Bits,
                        Run(i, BM_NUM_BITS(size)) # {},
                        Run(i, BM_NUM_BITS(size)) \subseteq bmw
                 PROVE  FALSE
      BY DEF RefusedOnlyIfNoRun
    <2> DEFINE n == BM_NUM_BITS(size)
    <2>1. n \in Nat /\ i \in Nat /\ TotalBits \in Nat
      BY SizesAssumption, NumBits, TotalSize DEF Bits
    <2> HIDE DEF n
    <2>2. n >= 1 /\ i \in Run(i, n) /\ i + n - 1 \in Run(i, n)
      BY <2>1 DEF Run, n
    <2>3. bmw \in SUBSET Bits
      BY DEF BmInv, BmTypeOK
    <2>4. i \in bmw /\ i + n <= TotalBits
      BY <2>1, <2>2, <2>3 DEF n, Bits
    <2>5. i \in Candidates(n)
      BY <2>4 DEF Candidates, n
    <2>6. n <= free_blocks
      <3>1. IsFiniteSet(bmw) /\ Cardinality(bmw) \in Nat
        BY <2>3, BitmapFinite
      <3>2. Run(i, n) \in SUBSET bmw
        BY DEF n
      <3>3. Cardinality(Run(i, n)) <= Cardinality(bmw)
        BY <3>1, <3>2, FS_Subset
      <3>4. Cardinality(Run(i, n)) = n
        BY <2>1, CardRun
      <3> QED
        BY <3>3, <3>4 DEF BmInv, FreeBlocksExact
    <2>7. free_blocks \in Nat
      BY DEF BmInv, BmTypeOK
    <2> QED
      BY <2>1, <2>5, <2>6, <2>7 DEF AllocFails, n
  <1> QED
    BY <1>1, BmInvariant, PTL

-----------------------------------------------------------------------------
(* Arithmetic of pages. *)

LEMMA PageSize == tce_ps \in Nat \ {0} /\ tce_ps > 3 /\ tce_ps = BlockSize
  BY BlockSizeAssumption, PageSizeAssumption DEF tce_ps

\* The remainder of a multiple plus an offset is the offset.
LEMMA ModOfMultiple ==
    ASSUME NEW k \in Int, NEW b \in Nat \ {0}, NEW r \in 0 .. (b - 1)
    PROVE  (k * b + r) % b = r
  OBVIOUS

\* Division with remainder.
LEMMA DivMod ==
    ASSUME NEW a \in Nat, NEW b \in Nat \ {0}
    PROVE  a \div b \in Nat /\ a % b \in 0 .. (b - 1) /\ a = b * (a \div b) + (a % b)
  OBVIOUS

\* dma-trunc gives the start of the page.
LEMMA Trunc ==
    ASSUME NEW a \in Nat
    PROVE  /\ a % tce_ps \in 0 .. (tce_ps - 1)
           /\ dma_trunc(a) \in Nat
           /\ \E q \in Nat : dma_trunc(a) = q * tce_ps
           /\ dma_trunc(a) <= a
  <1> DEFINE b == tce_ps
  <1>1. b \in Nat \ {0}
    BY PageSize
  <1> HIDE DEF b
  <1>2. a \div b \in Nat /\ a % b \in 0 .. (b - 1) /\ a = b * (a \div b) + (a % b)
    BY <1>1, DivMod
  <1> DEFINE q == a \div b
             r == a % b
  <1> HIDE DEF q, r
  <1>3. q \in Nat /\ r \in Nat /\ a = b * q + r /\ b * q = q * b /\ q * b \in Nat
    BY <1>1, <1>2 DEF q, r
  <1>4. a - r = q * b /\ a - r <= a
    BY <1>3
  <1>5. dma_trunc(a) = a - r
    BY DEF dma_trunc, b, r
  <1> QED
    BY <1>2, <1>3, <1>4, <1>5 DEF b

\* dma-align gives whole pages that cover the buffer and its offset.
LEMMA Align ==
    ASSUME NEW size \in Nat \ {0}, NEW v \in Nat
    PROVE  /\ dma_align(size, v) \in Nat
           /\ BM_NUM_BITS(dma_align(size, v)) \in Nat \ {0}
           /\ size + (v % tce_ps) <= tce_ps * BM_NUM_BITS(dma_align(size, v))
  <1> DEFINE b == tce_ps
             n == size + (v % b)
             t == (n + b - 1) \div b
  <1>1. b \in Nat \ {0} /\ b = BlockSize
    BY PageSize
  <1>2. v % b \in 0 .. (b - 1)
    BY Trunc
  <1>3. n \in Nat \ {0}
    BY <1>1, <1>2
  <1>4. dma_align(size, v) = b * t
    BY DEF dma_align, PageUp
  <1> HIDE DEF b, n
  <1>5. t \in Nat /\ n + b - 1 < b * t + b /\ n <= b * t
    <2>1. n + b - 1 \in Nat
      BY <1>1, <1>3
    <2>2. t \in Nat /\ (n + b - 1) % b \in 0 .. (b - 1)
          /\ n + b - 1 = b * t + ((n + b - 1) % b)
      BY <1>1, <2>1, DivMod DEF t
    <2>3. b * t \in Nat
      BY <1>1, <2>2
    <2> HIDE DEF t
    <2> QED
      BY <1>1, <1>3, <2>1, <2>2, <2>3
  <1> HIDE DEF t
  <1>6. t # 0
    <2> SUFFICES ASSUME t = 0 PROVE FALSE
      OBVIOUS
    <2>1. b * t = 0
      BY <1>1
    <2> QED
      BY <1>3, <1>5, <2>1
  <1>7. b * t \in Nat /\ (b * t) \div b = t /\ (b * t) % b = 0
    <2>1. b * t = t * b /\ t * b = t * b + 0 /\ 0 \in 0 .. (b - 1) /\ t \in Int
      BY <1>1, <1>5
    <2>2. (t * b) \div b = t
      BY <1>1, <2>1, DivOfMultiple
    <2>3. (t * b + 0) % b = 0
      BY <1>1, <2>1, ModOfMultiple
    <2> QED
      BY <1>1, <1>5, <2>1, <2>2, <2>3
  <1>8. BM_NUM_BITS(b * t) = t
    BY <1>1, <1>5, <1>7 DEF BM_NUM_BITS
  <1> QED
    BY <1>4, <1>5, <1>6, <1>7, <1>8 DEF n, b

\* The bus address dma-map-in returns keeps the offset of the buffer, so that
\* dma-map-out computes the page and the size dma-map-in had computed.
LEMMA BusAddress ==
    ASSUME NEW i \in Nat, NEW v \in Nat
    PROVE  LET dev == AddrOf(i) + (v % tce_ps)
           IN  /\ dev \in Nat
               /\ dev % tce_ps = v % tce_ps
               /\ dma_trunc(dev) = AddrOf(i)
               /\ \A size : dma_align(size, dev) = dma_align(size, v)
  <1> DEFINE b == tce_ps
             dev == AddrOf(i) + (v % b)
             s == Start \div b
  <1>1. b \in Nat \ {0} /\ b = BlockSize
    BY PageSize
  <1>2. v % b \in 0 .. (b - 1)
    BY Trunc
  <1>3. s \in Nat /\ Start = b * s
    BY <1>1, StartAssumption, BaseAligned
  <1> HIDE DEF b, s
  <1>4. AddrOf(i) = (s + i) * b /\ (s + i) * b \in Nat /\ s + i \in Int
    BY <1>1, <1>3 DEF AddrOf
  <1>5. dev % b = v % b
    BY <1>1, <1>2, <1>4, ModOfMultiple
  <1>6. dev \in Nat
    BY <1>1, <1>2, <1>4
  <1>7. dma_trunc(dev) = AddrOf(i)
    <2>1. dma_trunc(dev) = dev - (v % b)
      BY <1>5 DEF dma_trunc, b
    <2> QED
      BY <1>1, <1>2, <1>4, <2>1
  <1>8. \A size : dma_align(size, dev) = dma_align(size, v)
    BY <1>5 DEF dma_align, b
  <1> QED
    BY <1>5, <1>6, <1>7, <1>8 DEF b

\* What is entered for a page has the permission bits and is not 0.
LEMMA Entry ==
    ASSUME NEW v \in Nat, NEW k \in Nat
    PROVE  TceEntry(v, k) \in Nat /\ TceEntry(v, k) # NoTce /\ TceEntry(v, k) % tce_ps = 3
  <1> DEFINE b == tce_ps
  <1>1. b \in Nat \ {0} /\ b > 3
    BY PageSize
  <1>2. PICK q \in Nat : dma_trunc(v) = q * tce_ps
    BY Trunc
  <1> HIDE DEF b
  <1>3. dma_trunc(v) + k * b = (q + k) * b /\ (q + k) * b \in Nat
    BY <1>1, <1>2 DEF b
  <1>4. ((q + k) * b + 3) % b = 3
    BY <1>1, ModOfMultiple
  <1>5. TceEntry(v, k) = (q + k) * b + 3
    BY <1>3 DEF TceEntry, b
  <1> QED
    BY <1>3, <1>4, <1>5 DEF NoTce, b

-----------------------------------------------------------------------------
(* Mappings and the regions behind them. *)

\* The pages of a mapping that is held are pages of the window that are not free,
\* and distinct mappings have distinct pages.
LEMMA PagesHeld ==
    ASSUME BmInv, MappedOnce, NEW m \in maps
    PROVE  /\ PagesOf(m.dev, m.size) = BlocksOf(RegionOf(m))
           /\ PagesOf(m.dev, m.size) \subseteq Bits \ bmw
           /\ \A n \in maps : n # m =>
                 PagesOf(n.dev, n.size) \cap PagesOf(m.dev, m.size) = {}
  <1>1. \A n \in maps : PagesOf(n.dev, n.size) = BlocksOf(RegionOf(n))
    BY DEF PagesOf, BlocksOf, RegionOf
  <1>2. \A n \in maps : RegionOf(n) \in live
    BY DEF MappedOnce
  <1>3. \A n \in maps : n # m => BlocksOf(RegionOf(n)) \cap BlocksOf(RegionOf(m)) = {}
    BY <1>2 DEF MappedOnce, BmInv, LiveDisjoint
  <1>4. BlocksOf(RegionOf(m)) \subseteq Bits \ bmw
    BY <1>2 DEF BmInv, LiveInUse
  <1> QED
    BY <1>1, <1>3, <1>4

\* A step that leaves mappings and translations alone keeps what is said of them.
LEMMA MapsFrame ==
    ASSUME MappedOnce, TranslationExact, NoStrayTranslation,
           maps' = maps, tce' = tce, live \subseteq live'
    PROVE  MappedOnce' /\ TranslationExact' /\ NoStrayTranslation'
  <1>1. Established' = Established
    BY DEF Established
  <1>2. MappedOnce'
    BY <1>1 DEF MappedOnce, RegionOf
  <1>3. TranslationExact'
    BY <1>1 DEF TranslationExact, PagesOf, TceEntry
  <1>4. NoStrayTranslation'
    BY <1>1 DEF NoStrayTranslation, PagesOf
  <1> QED
    BY <1>2, <1>3, <1>4

\* An allocation only adds to the regions held.
LEMMA AllocKeepsLive ==
    ASSUME NEW size, SLOF_bm_alloc(size)
    PROVE  live \subseteq live' /\ handle' = handle
  BY DEF SLOF_bm_alloc, bmvars

LEMMA DmaInitInv == Init => DmaInv
  <1> SUFFICES ASSUME Init PROVE DmaInv
    OBVIOUS
  <1>1. BmInv
    BY BmInitInv DEF Init
  <1>2. maps = {} /\ live = {} /\ pc = "idle" /\ handle = FALSE
    BY DEF Init, BmInit
  <1>3. arg \in Mapping
    BY DEF Init, Mapping
  <1>4. TypeOK
    BY <1>1, <1>2, <1>3 DEF TypeOK, BmInv, Init, NoTce
  <1>5. NoStrayTranslation
    BY DEF NoStrayTranslation, Init
  <1> QED
    BY <1>1, <1>2, <1>4, <1>5
    DEF DmaInv, CallConsistent, MappedOnce, Established, NullPageTaken, TranslationExact

-----------------------------------------------------------------------------
(* One lemma per action: the invariant is kept, and the bitmap allocator takes  *)
(* one of its own steps or none.                                                *)

LEMMA CallMapInStep == DmaInv /\ CallMapIn => DmaInv' /\ [BmNext]_bmvars
  <1> SUFFICES ASSUME DmaInv, CallMapIn PROVE DmaInv' /\ [BmNext]_bmvars
    OBVIOUS
  <1> USE DEF DmaInv
  <1>1. PICK b \in Buffers :
           arg' = [virt |-> b.virt, size |-> b.size, dev |-> 0, ok |-> FALSE]
    BY DEF CallMapIn
  <1>2. /\ bmvars' = bmvars /\ maps' = maps /\ tce' = tce /\ aborted' = aborted
        /\ pc = "idle" /\ pc' = "init" /\ op' = "in"
    BY DEF CallMapIn
  <1>3. live' = live /\ handle' = handle /\ bmw' = bmw
    BY <1>2 DEF bmvars
  <1>4. b \in [virt : Nat, size : Nat \ {0}]
    BY BuffersAssumption
  <1>5. arg' \in Mapping /\ [virt |-> arg'.virt, size |-> arg'.size] \in Buffers
    BY <1>1, <1>4 DEF Mapping
  <1>6. BmInv'
    BY <1>2, BmStepInv
  <1>7. TypeOK'
    BY <1>2, <1>5, <1>6 DEF TypeOK, BmInv
  <1>8. MappedOnce' /\ TranslationExact' /\ NoStrayTranslation'
    BY <1>2, <1>3, MapsFrame
  <1>9. CallConsistent'
    BY <1>2, <1>5 DEF CallConsistent
  <1>10. NullPageTaken'
    BY <1>2, <1>3 DEF NullPageTaken
  <1> QED
    BY <1>2, <1>6, <1>7, <1>8, <1>9, <1>10

LEMMA CallMapOutStep ==
    ASSUME ~UnmapsFailures
    PROVE  DmaInv /\ CallMapOut => DmaInv' /\ [BmNext]_bmvars
  <1> SUFFICES ASSUME DmaInv, CallMapOut PROVE DmaInv' /\ [BmNext]_bmvars
    OBVIOUS
  <1> USE DEF DmaInv
  <1>1. PICK m \in maps : m.ok /\ arg' = m
    BY DEF CallMapOut
  <1>2. /\ bmvars' = bmvars /\ maps' = maps /\ tce' = tce /\ aborted' = aborted
        /\ pc = "idle" /\ pc' = "init" /\ op' = "out"
    BY DEF CallMapOut
  <1>3. live' = live /\ handle' = handle /\ bmw' = bmw
    BY <1>2 DEF bmvars
  <1>4. arg' \in Mapping /\ arg' \in Established'
    BY <1>1, <1>2 DEF TypeOK, Established
  <1>5. BmInv'
    BY <1>2, BmStepInv
  <1>6. TypeOK'
    BY <1>2, <1>4, <1>5 DEF TypeOK, BmInv
  <1>7. MappedOnce' /\ TranslationExact' /\ NoStrayTranslation'
    BY <1>2, <1>3, MapsFrame
  <1>8. CallConsistent'
    BY <1>2, <1>4 DEF CallConsistent
  <1>9. NullPageTaken'
    BY <1>2, <1>3 DEF NullPageTaken
  <1> QED
    BY <1>2, <1>5, <1>6, <1>7, <1>8, <1>9

LEMMA WindowReadyStep == DmaInv /\ WindowReady => DmaInv' /\ [BmNext]_bmvars
  <1> SUFFICES ASSUME DmaInv, WindowReady PROVE DmaInv' /\ [BmNext]_bmvars
    OBVIOUS
  <1> USE DEF DmaInv
  <1>1. /\ bmvars' = bmvars /\ maps' = maps /\ tce' = tce /\ aborted' = aborted
        /\ pc = "init" /\ pc' = op /\ op' = op /\ arg' = arg
    BY DEF WindowReady
  <1>2. live' = live /\ handle' = handle /\ bmw' = bmw
    BY <1>1 DEF bmvars
  <1>3. BmInv'
    BY <1>1, BmStepInv
  <1>4. TypeOK'
    BY <1>1, <1>3 DEF TypeOK, BmInv
  <1>5. MappedOnce' /\ TranslationExact' /\ NoStrayTranslation'
    BY <1>1, <1>2, MapsFrame
  <1>6. CallConsistent'
    BY <1>1 DEF CallConsistent, Established
  <1>7. NullPageTaken'
    BY <1>1, <1>2 DEF NullPageTaken, TypeOK
  <1> QED
    BY <1>1, <1>3, <1>4, <1>5, <1>6, <1>7

LEMMA CreateBitmapStep == DmaInv /\ CreateBitmap => DmaInv' /\ [BmNext]_bmvars
  <1> SUFFICES ASSUME DmaInv, CreateBitmap PROVE DmaInv' /\ [BmNext]_bmvars
    OBVIOUS
  <1> USE DEF DmaInv
  <1>1. PICK memory \in BOOLEAN : SLOF_bm_allocator_init(memory)
    BY DEF CreateBitmap
  <1>2. /\ maps' = maps /\ tce' = tce /\ aborted' = aborted
        /\ pc = "init" /\ pc' = (IF Start = 0 THEN "block" ELSE op)
        /\ op' = op /\ arg' = arg /\ ~handle
    BY DEF CreateBitmap
  <1>3. BmNext
    BY <1>1, <1>2 DEF BmNext, Create
  <1>4. BmInv'
    BY <1>3, BmStepInv
  <1>5. live' = live /\ handle' = memory /\ (memory => bmw' = Bits)
    BY <1>1 DEF SLOF_bm_allocator_init
  <1>6. maps = {}
    BY <1>2 DEF BmInv, LiveNeedsHandle, MappedOnce
  <1>7. TypeOK'
    BY <1>2, <1>4 DEF TypeOK, BmInv
  <1>8. MappedOnce' /\ TranslationExact' /\ NoStrayTranslation'
    BY <1>2, <1>5, MapsFrame
  <1>9. CallConsistent'
    BY <1>2 DEF CallConsistent, Established
  <1>10. NullPageTaken'
    BY <1>2, <1>5, <1>6 DEF NullPageTaken
  <1> QED
    BY <1>3, <1>4, <1>7, <1>8, <1>9, <1>10

\* On a bitmap of free blocks the first page is the one that is taken.
LEMMA FirstPageTaken ==
    ASSUME BmInv, handle, bmw = Bits, SLOF_bm_alloc(tce_ps)
    PROVE  0 \notin bmw'
  <1>1. BM_NUM_BITS(tce_ps) = 1
    <2>1. tce_ps = 1 * BlockSize /\ BlockSize \in Nat \ {0}
      BY PageSize
    <2>2. tce_ps \div BlockSize = 1
      BY <2>1, DivOfMultiple
    <2>3. tce_ps % BlockSize = 0
      BY <2>1
    <2> QED
      BY <2>2, <2>3 DEF BM_NUM_BITS
  <1>2. TotalBits \in Nat /\ TotalBits >= 1
    BY TotalSize, SizeAssumption, BlockSizeAssumption
  <1>3. 0 \in Candidates(1)
    BY <1>2 DEF Candidates, Run, Bits
  <1>4. \A j \in Candidates(1) : j \in Nat
    BY <1>2 DEF Candidates, Bits
  <1>5. bm_find_bits(1) \in Candidates(1) /\ bm_find_bits(1) <= 0
    <2>1. \E i \in Candidates(1) : \A j \in Candidates(1) : i <= j
      BY <1>3, <1>4
    <2> QED
      BY <1>3, <2>1 DEF bm_find_bits
  <1>6. bm_find_bits(1) = 0
    BY <1>4, <1>5
  <1>7. free_blocks = TotalBits
    BY <1>2, FS_Interval DEF BmInv, FreeBlocksExact, Bits
  <1>8. ~AllocFails(tce_ps)
    BY <1>1, <1>2, <1>3, <1>7 DEF AllocFails
  <1>9. bmw' = bmw \ Run(0, 1)
    BY <1>1, <1>6, <1>8 DEF SLOF_bm_alloc
  <1> QED
    BY <1>9 DEF Run

LEMMA BlockNullPageStep == DmaInv /\ BlockNullPage => DmaInv' /\ [BmNext]_bmvars
  <1> SUFFICES ASSUME DmaInv, BlockNullPage PROVE DmaInv' /\ [BmNext]_bmvars
    OBVIOUS
  <1> USE DEF DmaInv
  <1>1. /\ maps' = maps /\ tce' = tce /\ aborted' = aborted
        /\ pc = "block" /\ pc' = op /\ op' = op /\ arg' = arg
        /\ SLOF_bm_alloc(tce_ps)
    BY DEF BlockNullPage
  <1>2. BmNext
    BY <1>1, DmaSizesAssumption DEF BmNext, Alloc
  <1>3. BmInv'
    BY <1>2, BmStepInv
  <1>4. live \subseteq live' /\ handle' = handle
    BY <1>1, AllocKeepsLive
  <1>5. TypeOK'
    BY <1>1, <1>3 DEF TypeOK, BmInv
  <1>6. MappedOnce' /\ TranslationExact' /\ NoStrayTranslation'
    BY <1>1, <1>4, MapsFrame
  <1>7. CallConsistent'
    BY <1>1 DEF CallConsistent, Established
  <1>8. NullPageTaken'
    <2> SUFFICES ASSUME Start = 0 PROVE NullPageTaken'
      BY DEF NullPageTaken
    <2>1. handle => 0 \notin bmw'
      BY <1>1, FirstPageTaken DEF NullPageTaken
    <2> QED
      BY <1>1, <1>4, <2>1 DEF NullPageTaken, TypeOK
  <1> QED
    BY <1>2, <1>3, <1>5, <1>6, <1>7, <1>8

LEMMA MapInFailsStep ==
    ASSUME ~UnmapsFailures
    PROVE  DmaInv /\ MapInFails => DmaInv' /\ [BmNext]_bmvars
  <1> SUFFICES ASSUME DmaInv, MapInFails PROVE DmaInv' /\ [BmNext]_bmvars
    OBVIOUS
  <1> USE DEF DmaInv
  <1>1. /\ bmvars' = bmvars /\ maps' = maps /\ tce' = tce /\ aborted' = aborted
        /\ pc = "in" /\ pc' = "idle" /\ op' = op /\ arg' = arg
    BY DEF MapInFails, SLOF_bm_alloc
  <1>2. live' = live /\ handle' = handle /\ bmw' = bmw
    BY <1>1 DEF bmvars
  <1>3. BmInv'
    BY <1>1, BmStepInv
  <1>4. TypeOK'
    BY <1>1, <1>3 DEF TypeOK, BmInv
  <1>5. MappedOnce' /\ TranslationExact' /\ NoStrayTranslation'
    BY <1>1, <1>2, MapsFrame
  <1>6. CallConsistent'
    BY <1>1 DEF CallConsistent
  <1>7. NullPageTaken'
    BY <1>1, <1>2 DEF NullPageTaken
  <1> QED
    BY <1>1, <1>3, <1>4, <1>5, <1>6, <1>7

LEMMA MapInStep == DmaInv /\ MapIn => DmaInv' /\ [BmNext]_bmvars
  <1> SUFFICES ASSUME DmaInv, MapIn PROVE DmaInv' /\ [BmNext]_bmvars
    OBVIOUS
  <1> USE DEF DmaInv
  <1> DEFINE size == dma_align(arg.size, arg.virt)
             n == BM_NUM_BITS(size)
             first == bm_find_bits(n)
             dev == AddrOf(first) + (arg.virt % tce_ps)
             new == [virt |-> arg.virt, size |-> arg.size, dev |-> dev, ok |-> TRUE]
  <1>1. /\ pc = "in" /\ pc' = "idle" /\ op' = op /\ arg' = arg
        /\ ~AllocFails(size) /\ SLOF_bm_alloc(size)
    BY DEF MapIn
  <1>2. arg \in Mapping /\ arg.virt \in Nat /\ arg.size \in Nat \ {0} /\ arg.dev \in Int
    BY DEF TypeOK, Mapping
  <1>3. size \in Sizes
    <2> DEFINE b == [virt |-> arg.virt, size |-> arg.size]
    <2>1. b \in Buffers /\ b.size = arg.size /\ b.virt = arg.virt
      BY <1>1 DEF CallConsistent
    <2> QED
      BY <2>1, DmaSizesAssumption
  <1>4. size \in Nat /\ n \in Nat \ {0} /\ arg.size + (arg.virt % tce_ps) <= tce_ps * n
    BY <1>2, Align
  <1>5. BmNext
    BY <1>1, <1>3 DEF BmNext, Alloc
  <1>6. BmInv'
    BY <1>5, BmStepInv
  <1>7. handle /\ Candidates(n) # {}
    BY <1>1 DEF AllocFails
  <1>8. bmw \in SUBSET Bits /\ Bits \subseteq Nat
    BY TotalSize DEF BmInv, BmTypeOK, Bits
  <1>9. first \in Nat /\ Run(first, n) \subseteq bmw
    BY <1>4, <1>7, <1>8, FindBits
  <1>10. /\ tce' = EnterPages(first, n)
         /\ maps' = maps \cup {new}
         /\ aborted' = aborted
    BY <1>8, <1>9 DEF MapIn, AllocAddr
  <1>11. /\ bmw' = bmw \ Run(first, n) /\ handle' = handle
         /\ live' = live \cup {[addr |-> AddrOf(first), size |-> size]}
    BY <1>1 DEF SLOF_bm_alloc, AllocAddr
  <1>12. /\ dev \in Nat /\ dev % tce_ps = arg.virt % tce_ps
         /\ dma_trunc(dev) = AddrOf(first)
         /\ dma_align(arg.size, dev) = size
    BY <1>2, <1>9, BusAddress
  <1>13. /\ new \in Mapping /\ new.ok /\ new.dev = dev
         /\ new.virt = arg.virt /\ new.size = arg.size
    <2> HIDE DEF dev
    <2> QED
      BY <1>2, <1>12 DEF Mapping
  <1>14. BitPos(AddrOf(first)) = first
    BY <1>9, BitPosOfAddr
  <1>15. /\ PagesOf(new.dev, new.size) = Run(first, n)
         /\ RegionOf(new) = [addr |-> AddrOf(first), size |-> size]
         /\ BlocksOf(RegionOf(new)) = Run(first, n)
    BY <1>12, <1>13, <1>14 DEF PagesOf, RegionOf, BlocksOf
  <1>16. Cardinality(Run(first, n)) = n
    BY <1>4, <1>9, CardRun
  <1>17. \A k \in Run(first, n) : k \in Bits /\ k - first \in Nat
    BY <1>4, <1>8, <1>9 DEF Run
  <1>18. first \in Run(first, n)
    BY <1>4, <1>9 DEF Run
  <1>19. tce_ps \in Nat \ {0} /\ arg.virt % tce_ps \in 0 .. (tce_ps - 1)
    BY <1>2, PageSize, Trunc
  <1> HIDE DEF size, n, first, dev, new
  <1>20. \A m \in maps : PagesOf(m.dev, m.size) \subseteq Bits \ bmw
                         /\ PagesOf(m.dev, m.size) = BlocksOf(RegionOf(m))
    BY PagesHeld
  <1>21. \A k \in Bits : tce'[k] = IF k \in Run(first, n)
                                   THEN TceEntry(arg.virt, k - first) ELSE tce[k]
    BY <1>10 DEF EnterPages
  <1>22. TypeOK'
    <2>1. tce' \in [Bits -> Nat] /\ \A k \in Bits : tce'[k] # NoTce => tce'[k] % tce_ps = 3
      BY <1>2, <1>10, <1>17, Entry DEF EnterPages, TypeOK
    <2>2. maps' \in SUBSET Mapping
      BY <1>10, <1>13 DEF TypeOK
    <2> QED
      BY <1>1, <1>6, <1>10, <2>1, <2>2 DEF TypeOK, BmInv
  <1>23. CallConsistent'
    BY <1>1 DEF CallConsistent
  <1>24. Established' = Established \cup {new} /\ Established = maps
    BY <1>10, <1>13 DEF Established, MappedOnce
  <1>25. MappedOnce'
    <2>1. \A m \in maps' : RegionOf(m) \in live'
      BY <1>10, <1>11, <1>15 DEF MappedOnce
    <2>2. \A m \in maps : RegionOf(m) # RegionOf(new)
      BY <1>9, <1>15, <1>18, <1>20
    <2>3. \A m, k \in maps' : m # k => RegionOf(m) # RegionOf(k)
      BY <1>10, <2>2 DEF MappedOnce
    <2> QED
      BY <1>10, <1>24, <2>1, <2>3 DEF MappedOnce, RegionOf
  <1>26. NullPageTaken'
    <2> SUFFICES ASSUME Start = 0
                 PROVE  0 \notin bmw' /\ \A m \in maps' : dma_trunc(m.dev) # 0
      BY <1>1 DEF NullPageTaken
    <2>1. 0 \notin bmw /\ \A m \in maps : dma_trunc(m.dev) # 0
      BY <1>1, <1>7 DEF NullPageTaken
    <2>2. first # 0
      BY <1>9, <1>18, <2>1
    <2>3. AddrOf(first) # 0
      BY <1>9, <2>2, BlockSizeAssumption DEF AddrOf
    <2> QED
      BY <1>10, <1>11, <1>12, <1>13, <2>1, <2>3
  <1>27. TranslationExact'
    <2> SUFFICES ASSUME NEW m \in Established'
                 PROVE  /\ m.dev % tce_ps = m.virt % tce_ps
                        /\ m.size <= tce_ps * Cardinality(PagesOf(m.dev, m.size))
                                     - (m.dev % tce_ps)
                        /\ \A k \in PagesOf(m.dev, m.size) : k \in Bits /\
                              tce'[k] = TceEntry(m.virt, k - BitPos(dma_trunc(m.dev)))
      BY DEF TranslationExact
    <2>1. CASE m = new
      <3>1. arg.size <= tce_ps * n - (arg.virt % tce_ps)
        BY <1>2, <1>4, <1>19
      <3>2. \A k \in Run(first, n) : k \in Bits /\ tce'[k] = TceEntry(arg.virt, k - first)
        BY <1>17, <1>21
      <3> QED
        BY <1>12, <1>13, <1>14, <1>15, <1>16, <2>1, <3>1, <3>2
    <2>2. CASE m \in maps
      <3>1. \A k \in PagesOf(m.dev, m.size) : k \in Bits /\ tce'[k] = tce[k]
        BY <1>9, <1>20, <1>21, <2>2
      <3> QED
        BY <1>24, <2>2, <3>1 DEF TranslationExact
    <2> QED
      BY <1>24, <2>1, <2>2
  <1>28. NoStrayTranslation'
    <2> SUFFICES ASSUME NEW k \in Bits, tce'[k] # NoTce
                 PROVE  \E m \in Established' : k \in PagesOf(m.dev, m.size)
      BY DEF NoStrayTranslation, NoTce
    <2>1. CASE k \in Run(first, n)
      BY <1>15, <1>24, <2>1
    <2>2. CASE k \notin Run(first, n)
      BY <1>21, <1>24, <2>2 DEF NoStrayTranslation
    <2> QED
      BY <2>1, <2>2
  <1> QED
    BY <1>5, <1>6, <1>22, <1>23, <1>25, <1>26, <1>27, <1>28

LEMMA MapOutStep == DmaInv /\ MapOut => DmaInv' /\ [BmNext]_bmvars
  <1> SUFFICES ASSUME DmaInv, MapOut PROVE DmaInv' /\ [BmNext]_bmvars
    OBVIOUS
  <1> USE DEF DmaInv
  <1> DEFINE r == RegionOf(arg)
             P == PagesOf(arg.dev, arg.size)
  <1>1. /\ pc = "out" /\ pc' = "idle" /\ op' = op /\ arg' = arg
        /\ maps' = maps \ {arg}
        /\ SLOF_bm_free(r.addr, r.size)
    BY DEF MapOut, RegionOf
  <1>2. arg \in maps /\ Established = maps
    BY <1>1 DEF CallConsistent, MappedOnce
  <1>3. r \in live /\ r = [addr |-> r.addr, size |-> r.size]
    BY <1>2 DEF MappedOnce, RegionOf
  <1>4. BmNext
    BY <1>1, <1>3 DEF BmNext, FreeLive
  <1>5. BmInv'
    BY <1>4, BmStepInv
  <1>6. /\ P = BlocksOf(r) /\ P \subseteq Bits
        /\ \A m \in maps : m # arg => PagesOf(m.dev, m.size) \cap P = {}
    BY <1>2, PagesHeld
  <1>7. /\ live' = live \ {r} /\ handle' = handle /\ bmw' = bmw \cup P
    <2>1. handle /\ InWindow(r.addr, r.size)
      BY <1>3 DEF BmInv, LiveNeedsHandle, LiveInUse, BmTypeOK
    <2> QED
      BY <1>1, <1>3, <1>6, <2>1 DEF SLOF_bm_free, BlocksOf
  <1>8. tce' = ClearPages(arg.dev, arg.size) /\ aborted' = aborted
    BY <1>6 DEF MapOut
  <1>9. \A k \in Bits : tce'[k] = IF k \in P THEN NoTce ELSE tce[k]
    BY <1>8 DEF ClearPages
  <1>10. Established' = maps \ {arg}
    BY <1>1, <1>2 DEF Established
  <1>11. TypeOK'
    <2>1. tce' \in [Bits -> Nat] /\ \A k \in Bits : tce'[k] # NoTce => tce'[k] % tce_ps = 3
      BY <1>8 DEF ClearPages, TypeOK, NoTce
    <2> QED
      BY <1>1, <1>5, <1>8, <2>1 DEF TypeOK, BmInv
  <1>12. CallConsistent'
    BY <1>1 DEF CallConsistent
  <1>13. MappedOnce'
    <2>1. \A m \in maps \ {arg} : RegionOf(m) \in live \ {r}
      BY <1>2 DEF MappedOnce
    <2> QED
      BY <1>1, <1>7, <1>10, <2>1 DEF MappedOnce, RegionOf
  <1>14. NullPageTaken'
    <2> SUFFICES ASSUME Start = 0
                 PROVE  (handle => 0 \notin bmw') /\ \A m \in maps' : dma_trunc(m.dev) # 0
      BY <1>1, <1>7 DEF NullPageTaken
    <2>1. (handle => 0 \notin bmw) /\ \A m \in maps : dma_trunc(m.dev) # 0
      BY <1>1 DEF NullPageTaken
    <2>2. 0 \notin P
      <3>1. r.addr = AddrOf(BitPos(r.addr)) /\ BlocksOf(r) \subseteq Bits
        BY <1>3 DEF BmInv, LiveInUse
      <3>2. r.addr # 0 /\ r.addr \in Int /\ r.size \in Nat
        BY <1>2, <1>3, <2>1 DEF RegionOf, BmInv, BmTypeOK, Region
      <3> DEFINE i == BitPos(r.addr)
      <3>3. i \in Int
        BY <3>2, StartAssumption, BlockSizeAssumption DEF BitPos
      <3>4. i # 0
        BY <3>1, <3>2, BlockSizeAssumption DEF AddrOf
      <3>5. BM_NUM_BITS(r.size) \in Nat
        BY <3>2, NumBits
      <3>6. P = Run(i, BM_NUM_BITS(r.size))
        BY <1>6 DEF BlocksOf
      <3> HIDE DEF i, r, P
      <3>7. 0 \in P => i < 0 /\ i \in P
        BY <3>3, <3>4, <3>5, <3>6 DEF Run
      <3>8. \A k \in P : k >= 0
        BY <1>6, TotalSize DEF Bits
      <3> QED
        BY <3>3, <3>7, <3>8
    <2> QED
      BY <1>1, <1>7, <2>1, <2>2
  <1>15. TranslationExact'
    <2> SUFFICES ASSUME NEW m \in maps, m # arg
                 PROVE  /\ m.dev % tce_ps = m.virt % tce_ps
                        /\ m.size <= tce_ps * Cardinality(PagesOf(m.dev, m.size))
                                     - (m.dev % tce_ps)
                        /\ \A k \in PagesOf(m.dev, m.size) : k \in Bits /\
                              tce'[k] = TceEntry(m.virt, k - BitPos(dma_trunc(m.dev)))
      BY <1>10 DEF TranslationExact
    <2>1. \A k \in PagesOf(m.dev, m.size) : k \in Bits /\ k \notin P
      BY <1>2, <1>6 DEF TranslationExact
    <2> QED
      BY <1>2, <1>9, <2>1 DEF TranslationExact
  <1>16. NoStrayTranslation'
    <2> SUFFICES ASSUME NEW k \in Bits, tce'[k] # NoTce
                 PROVE  \E m \in Established' : k \in PagesOf(m.dev, m.size)
      BY DEF NoStrayTranslation, NoTce
    <2>1. k \notin P /\ tce[k] # NoTce
      BY <1>9
    <2>2. PICK m \in maps : k \in PagesOf(m.dev, m.size)
      BY <1>2, <2>1 DEF NoStrayTranslation
    <2> QED
      BY <1>10, <2>1, <2>2
  <1> QED
    BY <1>4, <1>5, <1>11, <1>12, <1>13, <1>14, <1>15, <1>16

-----------------------------------------------------------------------------
(* The theorems. *)

\* Every step keeps the invariant and is a step of the bitmap allocator or none.
LEMMA DmaStep ==
    ASSUME ~UnmapsFailures
    PROVE  DmaInv /\ [Next]_vars => DmaInv' /\ [BmNext]_bmvars
  <1> SUFFICES ASSUME DmaInv, [Next]_vars PROVE DmaInv' /\ [BmNext]_bmvars
    OBVIOUS
  <1>1. CASE CallMapIn
    BY <1>1, CallMapInStep
  <1>2. CASE CallMapOut
    BY <1>2, CallMapOutStep
  <1>3. CASE WindowReady
    BY <1>3, WindowReadyStep
  <1>4. CASE CreateBitmap
    BY <1>4, CreateBitmapStep
  <1>5. CASE BlockNullPage
    BY <1>5, BlockNullPageStep
  <1>6. CASE MapInFails
    BY <1>6, MapInFailsStep
  <1>7. CASE MapIn
    BY <1>7, MapInStep
  <1>8. CASE MapOut
    BY <1>8, MapOutStep
  <1>9. CASE UNCHANGED vars
    <2>1. /\ bmvars' = bmvars /\ maps' = maps /\ tce' = tce /\ aborted' = aborted
          /\ pc' = pc /\ op' = op /\ arg' = arg
      BY <1>9 DEF vars, dmavars
    <2>2. live' = live /\ handle' = handle /\ bmw' = bmw
      BY <2>1 DEF bmvars
    <2>3. BmInv'
      BY <2>1, BmStepInv DEF DmaInv
    <2>4. TypeOK'
      BY <2>1, <2>3 DEF DmaInv, TypeOK, BmInv
    <2>5. MappedOnce' /\ TranslationExact' /\ NoStrayTranslation'
      BY <2>1, <2>2, MapsFrame DEF DmaInv
    <2>6. CallConsistent'
      BY <2>1 DEF DmaInv, CallConsistent, Established
    <2>7. NullPageTaken'
      BY <2>1, <2>2 DEF DmaInv, NullPageTaken
    <2> QED
      BY <2>1, <2>3, <2>4, <2>5, <2>6, <2>7 DEF DmaInv
  <1> QED
    BY <1>1, <1>2, <1>3, <1>4, <1>5, <1>6, <1>7, <1>8, <1>9 DEF Next

\* Every reachable state of the window satisfies the inductive invariant when
\* dma-map-out is called only on what dma-map-in mapped.
THEOREM DmaInvariant ==
    ASSUME ~UnmapsFailures
    PROVE  Spec => []DmaInv
  <1>1. DmaInv /\ [Next]_vars => DmaInv'
    BY DmaStep
  <1> QED
    BY <1>1, DmaInitInv, PTL DEF Spec

\* A device that uses the bus address of a mapping reaches the driver's buffer,
\* all of it, and a page of it only where the buffer has that page.
THEOREM TranslationsExact ==
    ASSUME ~UnmapsFailures
    PROVE  Spec => []TranslationExact
  <1>1. DmaInv => TranslationExact
    BY DEF DmaInv
  <1> QED
    BY <1>1, DmaInvariant, PTL

\* Once dma-map-out returned, the window no longer translates the buffer's pages.
THEOREM NothingLeftMapped ==
    ASSUME ~UnmapsFailures
    PROVE  Spec => []NoStrayTranslation
  <1>1. DmaInv => NoStrayTranslation
    BY DEF DmaInv
  <1> QED
    BY <1>1, DmaInvariant, PTL

\* dma-map-in never returns 0 for a mapping it made, window base 0 included.
THEOREM NeverNull ==
    ASSUME ~UnmapsFailures
    PROVE  Spec => []NullNeverMapped
  <1>1. DmaInv => NullNeverMapped
    <2> SUFFICES ASSUME DmaInv, NEW m \in maps, m.dev = 0
                 PROVE  FALSE
      BY DEF NullNeverMapped, Established
    <2>1. dma_trunc(m.dev) = 0
      <3>1. 0 \in Nat /\ dma_trunc(0) <= 0 /\ dma_trunc(0) \in Nat
        BY Trunc
      <3> QED
        BY <3>1
    <2>2. RegionOf(m) \in live /\ RegionOf(m).addr = 0
      BY <2>1 DEF DmaInv, MappedOnce, RegionOf
    <2>3. InWindow(RegionOf(m).addr, RegionOf(m).size)
      BY <2>2 DEF DmaInv, BmInv, LiveInUse
    <2>4. Start = 0
      BY <2>2, <2>3, StartAssumption DEF InWindow
    <2> QED
      BY <2>1, <2>4 DEF DmaInv, NullPageTaken
  <1> QED
    BY <1>1, DmaInvariant, PTL

\* The window implements well paired use of the bitmap allocator: what is proved
\* of BmSpec holds of the allocator behind dma-map-in and dma-map-out.
THEOREM AllocatorRefinement ==
    ASSUME ~UnmapsFailures
    PROVE  Spec => PairsAllocatorCalls
  <1>1. DmaInv /\ [Next]_vars => [BmNext]_bmvars
    BY DmaStep
  <1>2. Init => BmInit
    BY DEF Init
  <1> QED
    BY <1>1, <1>2, DmaInvariant, PTL DEF Spec, PairsAllocatorCalls, BmSpec

-----------------------------------------------------------------------------
(* Positions in a ring.                                                    *)

\* A position that may have run past the end of a ring.
Wrap(x, size) == IF x < size THEN x ELSE x - size
\* The ring f holds the queue s from position at on.
RingHolds(f, at, s, size) == \A k \in 0 .. (Len(s) - 1) : f[Wrap(at + k, size)] = s[k + 1]

\* The remainder of a position less than two laps ahead, without a division.
LEMMA WrapMod ==
    ASSUME NEW n \in Nat \ {0}, NEW x \in 0 .. (2 * n - 1)
    PROVE  x % n = Wrap(x, n) /\ Wrap(x, n) \in 0 .. (n - 1)
  BY DEF Wrap

\* The shapes in which the drivers compute positions: the next one, the k-th from
\* one, and the distance of two.
LEMMA WrapNext ==
    ASSUME NEW n \in Nat \ {0}, NEW i \in 0 .. (n - 1)
    PROVE  (i + 1) % n = Wrap(i + 1, n) /\ Wrap(i + 1, n) \in 0 .. (n - 1)
  <1>1. i + 1 \in 0 .. (2 * n - 1)
    OBVIOUS
  <1>2. QED
    BY <1>1, WrapMod

\* The k-th position from i, counted from 1.
LEMMA WrapAhead ==
    ASSUME NEW n \in Nat \ {0}, NEW i \in 0 .. (n - 1), NEW k \in 1 .. n
    PROVE  (i + k - 1) % n = Wrap(i + k - 1, n) /\ Wrap(i + k - 1, n) \in 0 .. (n - 1)
  <1>1. i + k - 1 \in 0 .. (2 * n - 1)
    OBVIOUS
  <1>2. QED
    BY <1>1, WrapMod

\* How far j is ahead of i.
LEMMA WrapDistance ==
    ASSUME NEW n \in Nat \ {0}, NEW i \in 0 .. (n - 1), NEW j \in 0 .. (n - 1)
    PROVE  (j + n - i) % n = Wrap(j + n - i, n) /\ Wrap(j + n - i, n) \in 0 .. (n - 1)
  <1>1. j + n - i \in 0 .. (2 * n - 1)
    OBVIOUS
  <1>2. QED
    BY <1>1, WrapMod

\* One further than the k-th from i, k-th from one further, and the distance to it.
LEMMA WrapThenNext ==
    ASSUME NEW n \in Nat \ {0}, NEW i \in 0 .. (n - 1), NEW k \in 0 .. (n - 1)
    PROVE  Wrap(Wrap(i + k, n) + 1, n) = Wrap(i + (k + 1), n)
  BY DEF Wrap

\* The k-th from one further than i.
LEMMA WrapFromNext ==
    ASSUME NEW n \in Nat \ {0}, NEW i \in 0 .. (n - 1), NEW k \in 0 .. (n - 1)
    PROVE  Wrap(Wrap(i + 1, n) + k, n) = Wrap(i + (k + 1), n)
  BY DEF Wrap

\* Going one further and a lap less one brings back to i.
LEMMA WrapBack ==
    ASSUME NEW n \in Nat \ {0}, NEW i \in 0 .. (n - 1)
    PROVE  Wrap(Wrap(i + 1, n) + n - 1, n) = i
  BY DEF Wrap

\* The k-th from i is k ahead of i.
LEMMA WrapDistanceTo ==
    ASSUME NEW n \in Nat \ {0}, NEW i \in 0 .. (n - 1), NEW k \in 0 .. (n - 1)
    PROVE  Wrap(Wrap(i + k, n) + n - i, n) = k
  BY DEF Wrap

\* Positions less than a lap apart are different.
LEMMA WrapInjective ==
    ASSUME NEW n \in Nat \ {0}, NEW i \in 0 .. (n - 1),
           NEW k \in 0 .. (n - 1), NEW l \in 0 .. (n - 1), Wrap(i + k, n) = Wrap(i + l, n)
    PROVE  k = l
  BY DEF Wrap

\* A position at most a lap ahead stays in the ring.
LEMMA WrapIn ==
    ASSUME NEW n \in Nat \ {0}, NEW i \in 0 .. (n - 1), NEW k \in 0 .. n
    PROVE  Wrap(i + k, n) \in 0 .. (n - 1)
  BY DEF Wrap

\* Both facts about the k-th place in the shape in which they are instantiated.
LEMMA WrapPlaces ==
    ASSUME NEW n \in Nat \ {0}, NEW i \in 0 .. (n - 1), NEW m \in 0 .. (n - 1), NEW k \in 0 .. (n - 1)
    PROVE  Wrap(i + k, n) \in 0 .. (n - 1) /\ (Wrap(i + k, n) = Wrap(i + m, n) => k = m)
  <1>1. k \in 0 .. n
    OBVIOUS
  <1>2. QED
    BY <1>1, WrapIn, WrapInjective

\* A queue laid out in a ring: appending at its end, taking from its front, and a
\* change elsewhere.
LEMMA RingAppend ==
    ASSUME NEW n \in Nat \ {0}, NEW at \in 0 .. (n - 1), NEW D, NEW f \in [0 .. (n - 1) -> D],
           NEW s \in Seq(D), NEW x \in D, Len(s) < n, RingHolds(f, at, s, n)
    PROVE  RingHolds([f EXCEPT ![Wrap(at + Len(s), n)] = x], at, Append(s, x), n)
  <1> DEFINE w == Wrap(at + Len(s), n)
             g == [f EXCEPT ![w] = x]
             t == Append(s, x)
  <1>1. Len(s) \in 0 .. (n - 1) /\ Len(t) = Len(s) + 1 /\ w \in 0 .. (n - 1)
    BY WrapIn
  <1>2. SUFFICES ASSUME NEW k \in 0 .. (Len(t) - 1) PROVE g[Wrap(at + k, n)] = t[k + 1]
    BY DEF RingHolds
  <1>3. k \in 0 .. (n - 1) /\ Wrap(at + k, n) \in 0 .. (n - 1)
    BY <1>1, WrapIn
  <1>4. CASE k = Len(s)
    BY <1>1, <1>3, <1>4
  <1>5. CASE k # Len(s)
    <2>1. k \in 0 .. (Len(s) - 1) /\ t[k + 1] = s[k + 1]
      BY <1>1, <1>5
    <2>2. Wrap(at + k, n) # w
      BY <1>1, <1>3, <1>5, WrapInjective
    <2>3. QED
      BY <1>3, <2>1, <2>2 DEF RingHolds
  <1>6. QED
    BY <1>4, <1>5

\* Taking from the front of a queue in a ring.
LEMMA RingTail ==
    ASSUME NEW n \in Nat \ {0}, NEW at \in 0 .. (n - 1), NEW D, NEW f,
           NEW s \in Seq(D), s # <<>>, Len(s) <= n, RingHolds(f, at, s, n)
    PROVE  RingHolds(f, Wrap(at + 1, n), Tail(s), n)
  <1>1. Len(s) \in 1 .. n /\ Len(Tail(s)) = Len(s) - 1
    OBVIOUS
  <1>2. SUFFICES ASSUME NEW k \in 0 .. (Len(Tail(s)) - 1)
                 PROVE  f[Wrap(Wrap(at + 1, n) + k, n)] = Tail(s)[k + 1]
    BY DEF RingHolds
  <1>3. k \in 0 .. (n - 1) /\ k + 1 \in 0 .. (Len(s) - 1) /\ Tail(s)[k + 1] = s[(k + 1) + 1]
    BY <1>1
  <1>4. f[Wrap(at + (k + 1), n)] = s[(k + 1) + 1]
    BY <1>3 DEF RingHolds
  <1>5. QED
    BY <1>3, <1>4, WrapFromNext

\* A queue in a ring depends only on the entries of the ring.
LEMMA RingSame ==
    ASSUME NEW n \in Nat \ {0}, NEW at \in 0 .. (n - 1), NEW D, NEW f, NEW g,
           NEW s \in Seq(D), Len(s) <= n, RingHolds(f, at, s, n),
           \A i \in 0 .. (n - 1) : g[i] = f[i]
    PROVE  RingHolds(g, at, s, n)
  <1>1. SUFFICES ASSUME NEW k \in 0 .. (Len(s) - 1) PROVE g[Wrap(at + k, n)] = s[k + 1]
    BY DEF RingHolds
  <1>2. Wrap(at + k, n) \in 0 .. (n - 1)
    BY WrapIn
  <1>3. QED
    BY <1>2 DEF RingHolds

\* The k-th element, as the properties write it.
LEMMA RingRead ==
    ASSUME NEW n \in Nat \ {0}, NEW at \in 0 .. (n - 1), NEW D, NEW f,
           NEW s \in Seq(D), Len(s) <= n, RingHolds(f, at, s, n)
    PROVE  \A k \in DOMAIN s : (at + k - 1) % n \in 0 .. (n - 1) /\ f[(at + k - 1) % n] = s[k]
  <1>0. DOMAIN s = 1 .. Len(s)
    OBVIOUS
  <1>1. SUFFICES ASSUME NEW k \in 1 .. Len(s)
                 PROVE  (at + k - 1) % n \in 0 .. (n - 1) /\ f[(at + k - 1) % n] = s[k]
    BY <1>0, Zenon
  <1>2. (at + k - 1) % n = Wrap(at + k - 1, n) /\ Wrap(at + k - 1, n) \in 0 .. (n - 1)
    <2>1. k \in 1 .. n
      OBVIOUS
    <2>2. QED
      BY <2>1, WrapAhead
  <1>3. k - 1 \in 0 .. (Len(s) - 1) /\ at + k - 1 = at + (k - 1) /\ (k - 1) + 1 = k
    OBVIOUS
  <1>4. f[Wrap(at + (k - 1), n)] = s[(k - 1) + 1]
    BY <1>3 DEF RingHolds
  <1>5. QED
    BY <1>2, <1>3, <1>4

\* An empty queue, and the length of one from its ends.
LEMMA RingEmpty == \A f, at, n : RingHolds(f, at, <<>>, n)
  BY DEF RingHolds

\* The distance a driver computes is the number of entries in between.
LEMMA RingLength ==
    ASSUME NEW n \in Nat \ {0}, NEW i \in 0 .. (n - 1), NEW k \in 0 .. (n - 1), NEW j,
           j = Wrap(i + k, n)
    PROVE  (j + n - i) % n = k
  <1>1. j \in 0 .. (n - 1)
    BY WrapIn
  <1>2. (j + n - i) % n = Wrap(j + n - i, n)
    BY <1>1, WrapDistance
  <1>3. QED
    BY <1>2, WrapDistanceTo

\* A set whose elements are divided between two queues.
Parted(f, g, S) ==
    /\ \A k \in DOMAIN f : f[k] \in S
    /\ \A k \in DOMAIN g : g[k] \in S
    /\ \A k, l \in DOMAIN f : f[k] = f[l] => k = l
    /\ \A k, l \in DOMAIN g : g[k] = g[l] => k = l
    /\ \A k \in DOMAIN f, l \in DOMAIN g : f[k] # g[l]
    /\ \A b \in S : (\E k \in DOMAIN f : f[k] = b) \/ (\E k \in DOMAIN g : g[k] = b)

\* Which of the two queues comes first does not matter.
LEMMA PartedSwap == ASSUME NEW f, NEW g, NEW S, Parted(f, g, S) PROVE Parted(g, f, S)
  BY DEF Parted

\* The first of one queue becomes the last of the other.
LEMMA PartedMove ==
    ASSUME NEW S, NEW n \in Nat, NEW m \in Nat, NEW f, NEW g, NEW p, NEW q,
           DOMAIN f = 0 .. n, DOMAIN g = 0 .. (m - 1), DOMAIN p = 0 .. (n - 1), DOMAIN q = 0 .. m,
           Parted(f, g, S),
           \A k \in 0 .. (n - 1) : p[k] = f[k + 1],
           \A k \in 0 .. (m - 1) : q[k] = g[k],
           q[m] = f[0]
    PROVE  Parted(p, q, S)
  <1>1. \A k \in 0 .. (n - 1) : k + 1 \in DOMAIN f /\ k + 1 # 0 /\ p[k] = f[k + 1]
    OBVIOUS
  <1>2. \A k \in DOMAIN q : (k = m /\ q[k] = f[0]) \/ (k \in DOMAIN g /\ q[k] = g[k])
    OBVIOUS
  <1>3. 0 \in DOMAIN f /\ m \in DOMAIN q
    OBVIOUS
  <1>4. (\A k \in DOMAIN p : p[k] \in S) /\ (\A k \in DOMAIN q : q[k] \in S)
    BY <1>1, <1>2, <1>3 DEF Parted
  <1>5. ASSUME NEW k \in DOMAIN p, NEW l \in DOMAIN p, p[k] = p[l] PROVE k = l
    <2>1. k + 1 \in DOMAIN f /\ l + 1 \in DOMAIN f /\ f[k + 1] = f[l + 1]
      BY <1>1, <1>5
    <2>2. k + 1 = l + 1
      BY <2>1 DEF Parted
    <2>3. QED
      BY <2>2
  <1>6. \A k, l \in DOMAIN q : q[k] = q[l] => k = l
    BY <1>2, <1>3 DEF Parted
  <1>7. \A k \in DOMAIN p, l \in DOMAIN q : p[k] # q[l]
    BY <1>1, <1>2, <1>3 DEF Parted
  <1>8. ASSUME NEW b \in S PROVE (\E k \in DOMAIN p : p[k] = b) \/ (\E k \in DOMAIN q : q[k] = b)
    <2>1. CASE \E k \in DOMAIN g : g[k] = b
      BY <2>1
    <2>2. CASE \E k \in DOMAIN f : f[k] = b
      <3>1. PICK k \in DOMAIN f : f[k] = b
        BY <2>2
      <3>2. CASE k = 0
        BY <1>3, <3>1, <3>2
      <3>3. CASE k # 0
        <4>1. k - 1 \in 0 .. (n - 1) /\ (k - 1) + 1 = k
          BY <3>3
        <4>2. QED
          BY <3>1, <4>1
      <3>4. QED
        BY <3>2, <3>3
    <2>3. QED
      BY <2>1, <2>2 DEF Parted
  <1>9. QED
    BY <1>4, <1>5, <1>6, <1>7, <1>8 DEF Parted

-----------------------------------------------------------------------------
(* The inductive invariant of E1000. *)

E1000Types ==
    /\ epc \in {"closed", "mapped", "open", "received", "stopped"}
    /\ edev \in [rctl : BOOLEAN, tctl : BOOLEAN, rdh : E!RxDescs, rdt : E!RxDescs,
                 tdh : E!TxDescs, tdt : E!TxDescs]
    /\ erx \in [E!RxDescs -> [done : BOOLEAN, data : ETags \cup {None}]]
    /\ enext \in E!RxDescs
    /\ etx \in [E!TxDescs -> ETags \cup {None}]
    /\ emaps \in Nat
    /\ ewire \in Seq(ETags) /\ etxq \in Seq(ETags)

E1000Off ==
    epc \notin {"open", "received"} =>
        ~edev.rctl /\ ~edev.tctl /\ ewire = <<>> /\ etxq = <<>>

E1000Mapped == epc # "closed" => emaps > 0

\* The tail is the descriptor before the driver's index, the head is as many
\* descriptors ahead of the index as there are frames.
E1000Rx ==
    epc \in {"open", "received"} =>
        /\ Len(ewire) < NUM_RX_DESC
        /\ edev.rdt = Wrap(enext + NUM_RX_DESC - 1, NUM_RX_DESC)
        /\ edev.rdh = Wrap(enext + Len(ewire), NUM_RX_DESC)
        /\ RingHolds([i \in E!RxDescs |-> erx[i].data], enext, ewire, NUM_RX_DESC)

E1000Tx ==
    epc \in {"open", "received"} =>
        /\ Len(etxq) < NUM_TX_DESC
        /\ edev.tdt = Wrap(edev.tdh + Len(etxq), NUM_TX_DESC)
        /\ RingHolds(etx, edev.tdh, etxq, NUM_TX_DESC)

E1000Copying == epc = "received" => ewire # <<>>

E1000Inv == E1000Types /\ E1000Off /\ E1000Mapped /\ E1000Rx /\ E1000Tx /\ E1000Copying

-----------------------------------------------------------------------------
(* The inductive invariant of Veth. *)

QueueEntries == [toggle : BOOLEAN, buf : V!Entries \cup {None}]
HypStates == [reg : BOOLEAN, bufs : Seq(V!Entries \cup {None}), index : V!Entries, toggle : BOOLEAN]

VethTypes ==
    /\ vpc \in {"closed", "init", "open", "term"}
    /\ vqueue \in [V!Entries -> QueueEntries]
    /\ vtoggle \in BOOLEAN /\ vindex \in V!Entries /\ vmem \in BOOLEAN /\ vclean \in BOOLEAN
    /\ vhyp \in HypStates
    /\ vdata \in [V!Entries -> VTags \cup {None}]
    /\ vwire \in Seq(VTags)

\* The hypervisor has the memory from the registration to the end of the driver's use.
VethRegistered ==
    /\ vpc \in {"closed", "term"} => vhyp = V!Unregistered
    /\ vpc \in {"init", "open"} => vmem
    /\ vpc = "init" => /\ vhyp = [V!Unregistered EXCEPT !.reg = TRUE]
                       /\ vindex = 0 /\ vtoggle /\ vwire = <<>>
                       /\ vclean => \A i \in V!Entries : ~vqueue[i].toggle

\* The k-th unread entry (from 0), the toggle it has when it is new, and its buffer.
VethAt(k) == Wrap(vindex + k, RX_QUEUE_SIZE)
VethLap(k) == IF vindex + k < RX_QUEUE_SIZE THEN vtoggle ELSE ~vtoggle
VethBuf(k) == vqueue[VethAt(k)].buf
VethUnread == 0 .. (Len(vwire) - 1)

VethLaps ==
    /\ Len(vwire) <= RX_QUEUE_SIZE
    /\ Len(vhyp.bufs) = RX_QUEUE_SIZE - Len(vwire)
    /\ vhyp.index = VethAt(Len(vwire))
    /\ vhyp.toggle = VethLap(Len(vwire))
    /\ \A k \in 0 .. (RX_QUEUE_SIZE - 1) :
          vqueue[VethAt(k)].toggle = (IF k \in VethUnread THEN VethLap(k) ELSE ~VethLap(k))

\* No buffer is in two places, and none is lost.
VethBuffers ==
    /\ \A i \in DOMAIN vhyp.bufs : vhyp.bufs[i] \in V!Entries
    /\ \A k \in VethUnread : VethBuf(k) \in V!Entries
    /\ \A i, j \in DOMAIN vhyp.bufs : vhyp.bufs[i] = vhyp.bufs[j] => i = j
    /\ \A k, l \in VethUnread : VethBuf(k) = VethBuf(l) => k = l
    /\ \A i \in DOMAIN vhyp.bufs, k \in VethUnread : vhyp.bufs[i] # VethBuf(k)
    /\ \A b \in V!Entries : \/ \E i \in DOMAIN vhyp.bufs : vhyp.bufs[i] = b
                            \/ \E k \in VethUnread : VethBuf(k) = b

VethFrames == \A k \in VethUnread : vdata[VethBuf(k)] = vwire[k + 1]

VethQueue == (vpc = "open" /\ vclean) => VethLaps /\ VethBuffers /\ VethFrames

VethInv == VethTypes /\ VethRegistered /\ VethQueue

-----------------------------------------------------------------------------
(* The inductive invariant of Bcm57xx. *)

BcmInit == {"lock", "boot", "buffers", "rings", "mac", "coalesce", "engines", "phy"}
BcmReady == {"mac", "coalesce", "engines", "phy"}
BcmRuns == {"open", "received", "term"}
BcmEnds == {"stop", "reset", "off"}

BcmRetRing == 0 .. (2 * RXRET_RING_SIZE - 1)
BcmProdRing == 0 .. (RXPROD_RING_SIZE - 1)
BcmSendRing == 0 .. (TX_RING_SIZE - 1)

BcmDevs == [master : BOOLEAN, engines : BOOLEAN, rings : BOOLEAN,
            rxprod : BcmProdRing, rxcons : BcmProdRing, retprod : Nat, retcons : Nat,
            txprod : BcmSendRing, txcons : BcmSendRing]
BcmTxs == [ring : [BcmSendRing -> B!TxBufs \cup {None}], buf : [B!TxBufs -> Packets \cup {None}],
           start : BcmSendRing, stop : BcmSendRing, avail : 0 .. MAX_TX_BUF]

BcmTypes ==
    /\ bpc \in {"closed"} \cup BcmInit \cup BcmRuns \cup BcmEnds
    /\ bdev \in BcmDevs /\ bdev.retprod < B!RetSize /\ bdev.retcons < B!RetSize
    /\ DOMAIN brx = {"prod", "ret", "buf"}
    /\ brx.prod \in [BcmProdRing -> B!RxBufs \cup {None}]
    /\ DOMAIN brx.ret = BcmRetRing
    /\ brx.buf \in [B!RxBufs -> Frames \cup {None}]
    /\ btx \in BcmTxs
    /\ bwire \in Seq(Frames) /\ btxq \in Seq(Packets)

\* Where the controller has nothing to do.
BcmIdle ==
    /\ bpc \in {"closed", "off"} \cup BcmInit =>
          /\ bdev.rxcons = bdev.rxprod /\ bdev.txcons = bdev.txprod
          /\ bwire = <<>> /\ btxq = <<>>
    /\ bpc \in {"buffers", "rings"} \cup BcmReady =>
          /\ bdev.rxcons = 0 /\ bdev.retprod = 0 /\ bdev.retcons = 0 /\ bdev.txcons = 0
    /\ bpc \in BcmInit => btx.start = 0
    /\ bpc \in {"stop", "reset"} => ~bdev.rings
    /\ bpc \in BcmReady =>
          /\ \A i \in B!RxBufs : brx.prod[i] = i
          /\ \A i \in B!TxBufs : btx.ring[i] = i
          /\ btx.stop = MAX_TX_BUF /\ btx.avail = MAX_TX_BUF

\* The receive side: frames in the return ring, the other buffers in the producer ring.
RetBuf(rx, dev, size, k) == rx.ret[Wrap(dev.retcons + k, size)].buf
ProdBuf(rx, dev, k) == rx.prod[Wrap(dev.rxcons + k, RXPROD_RING_SIZE)]

RxHolds(rx, dev, size, w) ==
    /\ Len(w) <= MAX_RX_BUF
    /\ dev.retprod = Wrap(dev.retcons + Len(w), size)
    /\ dev.rxprod = Wrap(dev.rxcons + (MAX_RX_BUF - Len(w)), RXPROD_RING_SIZE)
    /\ Parted([k \in 0 .. (Len(w) - 1) |-> RetBuf(rx, dev, size, k)],
              [k \in 0 .. (MAX_RX_BUF - Len(w) - 1) |-> ProdBuf(rx, dev, k)], B!RxBufs)
    /\ \A k \in 0 .. (Len(w) - 1) : rx.buf[RetBuf(rx, dev, size, k)] = w[k + 1]

\* The send side: from tx.start on, packets sent and not reclaimed, packets to send,
\* and free buffers.
SendBuf(tx, k) == tx.ring[Wrap(tx.start + k, TX_RING_SIZE)]
SentCount(tx, q) == MAX_TX_BUF - tx.avail - Len(q)

TxHolds(tx, cons, prod, q) ==
    /\ SentCount(tx, q) >= 0
    /\ cons = Wrap(tx.start + SentCount(tx, q), TX_RING_SIZE)
    /\ prod = Wrap(tx.start + (SentCount(tx, q) + Len(q)), TX_RING_SIZE)
    /\ tx.stop = Wrap(tx.start + MAX_TX_BUF, TX_RING_SIZE)
    /\ \A k \in B!TxBufs : SendBuf(tx, k) \in B!TxBufs
    /\ \A k, l \in B!TxBufs : SendBuf(tx, k) = SendBuf(tx, l) => k = l
    /\ \A k \in 0 .. (Len(q) - 1) : tx.buf[SendBuf(tx, SentCount(tx, q) + k)] = q[k + 1]

BcmRunning == bpc \in BcmRuns => /\ RxHolds(brx, bdev, B!RetSize, bwire)
                                 /\ TxHolds(btx, bdev.txcons, bdev.txprod, btxq)
BcmCopying == bpc = "received" => bwire # <<>>

BcmInv == BcmTypes /\ BcmIdle /\ BcmRunning /\ BcmCopying

-----------------------------------------------------------------------------
(* E1000. *)

\* e1k.c defines both rings longer than one descriptor.
LEMMA E1000Constants == NUM_RX_DESC \in Nat \ {0, 1} /\ NUM_TX_DESC \in Nat \ {0, 1}
  BY NicAssumption DEF E!ConstantsOK

\* The descriptors at the ends of the rings exist.
LEMMA E1000Zero ==
    0 \in E!RxDescs /\ NUM_RX_DESC - 1 \in E!RxDescs /\ 0 \in E!TxDescs
  BY E1000Constants DEF E!RxDescs, E!TxDescs

\* The closed e1000 satisfies its invariant.
LEMMA E1000Initially == E!Init => E1000Inv
  <1> SUFFICES ASSUME E!Init PROVE E1000Inv
    OBVIOUS
  <1> USE E1000Constants DEF E!Init
  <1>1. E1000Types
    BY DEF E1000Types, E!RxDescs, E!TxDescs
  <1>2. QED
    BY <1>1 DEF E1000Inv, E1000Off, E1000Mapped, E1000Rx, E1000Tx, E1000Copying

\* An open that fails, and one that starts the controller with empty rings.
LEMMA E1000Opens == E1000Inv /\ (E!e1k_open \/ E!e1k_init) => E1000Inv'
  <1> SUFFICES ASSUME E1000Inv, E!e1k_open \/ E!e1k_init PROVE E1000Inv'
    OBVIOUS
  <1> USE E1000Constants DEF E1000Inv
  <1>1. CASE E!e1k_open
    BY <1>1 DEF E!e1k_open, E1000Types, E1000Off, E1000Mapped, E1000Rx, E1000Tx, E1000Copying
  <1>2. CASE E!e1k_init /\ epc' = "open"
    <2>1. /\ edev' = [edev EXCEPT !.tdh = 0, !.tdt = 0, !.tctl = TRUE,
                                  !.rdh = 0, !.rdt = NUM_RX_DESC - 1, !.rctl = TRUE]
          /\ erx' = [i \in E!RxDescs |-> [erx[i] EXCEPT !.done = FALSE]]
          /\ enext' = 0 /\ epc = "mapped"
          /\ UNCHANGED <<etx, emaps, ewire, etxq>>
      BY <1>2 DEF E!e1k_init, E!e1k_init_receiver, E!e1k_init_transmitter, E1000Types
    <2>2. E1000Types'
      BY <1>2, <2>1, E1000Zero DEF E1000Types
    <2>3. ewire' = <<>> /\ etxq' = <<>> /\ emaps' > 0
      BY <2>1 DEF E1000Off, E1000Mapped
    <2>4. E1000Rx' /\ E1000Tx'
      BY <2>1, <2>3, RingEmpty DEF E1000Rx, E1000Tx, E1000Types, Wrap
    <2>5. QED
      BY <1>2, <2>2, <2>3, <2>4 DEF E1000Off, E1000Mapped, E1000Copying
  <1>3. CASE E!e1k_init /\ epc' # "open"
    BY <1>3 DEF E!e1k_init, E1000Types, E1000Off, E1000Mapped, E1000Rx, E1000Tx, E1000Copying
  <1>4. QED
    BY <1>1, <1>2, <1>3

\* e1k_term, before and after the engines are stopped.
LEMMA E1000Closes == E1000Inv /\ (E!StopEngines \/ E!e1k_term) => E1000Inv'
  <1> SUFFICES ASSUME E1000Inv, E!StopEngines \/ E!e1k_term PROVE E1000Inv'
    OBVIOUS
  <1> USE E1000Constants DEF E1000Inv
  <1>1. E1000Types'
    <2>1. CASE E!StopEngines
      BY <2>1, E1000Zero DEF E!StopEngines, E1000Types
    <2>2. CASE E!e1k_term
      <3>1. emaps' \in Nat
        BY <2>2 DEF E!e1k_term, E1000Types, E1000Mapped
      <3>2. QED
        BY <2>2, <3>1 DEF E!e1k_term, E1000Types
    <2>3. QED
      BY <2>1, <2>2
  <1>2. QED
    BY <1>1 DEF E!StopEngines, E!e1k_term, E1000Off, E1000Mapped, E1000Rx, E1000Tx, E1000Copying, E1000Types

\* The driver takes the oldest frame.
LEMMA E1000Receives == E1000Inv /\ (E!e1k_receive \/ E!e1k_receive_done) => E1000Inv'
  <1> SUFFICES ASSUME E1000Inv, E!e1k_receive \/ E!e1k_receive_done PROVE E1000Inv'
    OBVIOUS
  <1> USE E1000Constants DEF E1000Inv
  <1>1. CASE E!e1k_receive
    <2>1. ewire # <<>>
      BY <1>1 DEF E!e1k_receive, E1000Rx, E1000Types, E!RxDescs, Wrap
    <2>2. QED
      BY <1>1, <2>1 DEF E!e1k_receive, E1000Types, E1000Off, E1000Mapped, E1000Rx, E1000Tx, E1000Copying
  <1>2. CASE E!e1k_receive_done
    <2>1. ewire # <<>> /\ Len(ewire) \in 1 .. (NUM_RX_DESC - 1)
      BY <1>2 DEF E!e1k_receive_done, E1000Copying, E1000Rx, E1000Types
    <2>2. /\ enext \in 0 .. (NUM_RX_DESC - 1)
          /\ enext' = Wrap(enext + 1, NUM_RX_DESC)
          /\ enext' \in 0 .. (NUM_RX_DESC - 1)
      BY <1>2, WrapNext DEF E!e1k_receive_done, E1000Types, E!RxDescs
    <2>3. ewire' = Tail(ewire) /\ Len(ewire') = Len(ewire) - 1 /\ ewire' \in Seq(ETags)
      BY <1>2, <2>1 DEF E!e1k_receive_done, E1000Types
    <2>4. /\ edev' = [edev EXCEPT !.rdt = enext] /\ epc' = "open" /\ epc = "received"
          /\ erx' = [erx EXCEPT ![enext].done = FALSE]
          /\ UNCHANGED <<etx, emaps, etxq>>
      BY <1>2 DEF E!e1k_receive_done
    <2>5. E1000Types'
      BY <2>2, <2>3, <2>4 DEF E1000Types, E!RxDescs
    <2>6. [i \in E!RxDescs |-> erx'[i].data] = [i \in E!RxDescs |-> erx[i].data]
      BY <2>2, <2>4 DEF E1000Types
    <2>7. /\ edev'.rdt = Wrap(enext' + NUM_RX_DESC - 1, NUM_RX_DESC)
      BY <2>2, <2>4, WrapBack DEF E1000Types
    <2>8. edev'.rdh = Wrap(enext' + Len(ewire'), NUM_RX_DESC)
      <3>1. edev'.rdh = Wrap(enext + ((Len(ewire) - 1) + 1), NUM_RX_DESC)
        BY <2>1, <2>4 DEF E1000Rx, E1000Types
      <3>2. Len(ewire) - 1 \in 0 .. (NUM_RX_DESC - 1)
        BY <2>1
      <3>3. QED
        BY <2>2, <2>3, <3>1, <3>2, WrapFromNext
    <2>9. E1000Rx'
      <3>1. RingHolds([i \in E!RxDescs |-> erx[i].data], enext, ewire, NUM_RX_DESC)
        BY <2>4 DEF E1000Rx
      <3>2. ewire \in Seq(ETags)
        BY DEF E1000Types
      <3>3. RingHolds([i \in E!RxDescs |-> erx[i].data], enext', ewire', NUM_RX_DESC)
        BY <2>1, <2>2, <2>3, <3>1, <3>2, RingTail
      <3>4. QED
        BY <2>1, <2>3, <2>6, <2>7, <2>8, <3>3 DEF E1000Rx
    <2>10. E1000Tx'
      BY <2>4 DEF E1000Tx, E1000Types
    <2>11. QED
      BY <2>4, <2>5, <2>9, <2>10 DEF E1000Off, E1000Mapped, E1000Copying
  <1>3. QED
    BY <1>1, <1>2

\* A frame arrives: there is room, and no waiting frame is overwritten.
LEMMA E1000Arrives ==
    ASSUME E1000Inv, NEW t \in ETags, E!DeviceReceives(t)
    PROVE  E1000Inv'
  <1> USE E1000Constants DEF E1000Inv
  <1>1. /\ epc \in {"open", "received"} /\ epc' = epc
        /\ edev.rdh # edev.rdt
        /\ erx' = [erx EXCEPT ![edev.rdh].data = t]
        /\ edev' = [edev EXCEPT !.rdh = (edev.rdh + 1) % NUM_RX_DESC]
        /\ ewire' = Append(ewire, t)
        /\ UNCHANGED <<enext, etx, emaps, etxq>>
    BY DEF E!DeviceReceives, E!CanReceive, E1000Off
  <1>2. /\ enext \in 0 .. (NUM_RX_DESC - 1) /\ edev.rdh \in 0 .. (NUM_RX_DESC - 1)
        /\ edev'.rdh = Wrap(edev.rdh + 1, NUM_RX_DESC) /\ edev'.rdh \in 0 .. (NUM_RX_DESC - 1)
        /\ edev'.rdt = edev.rdt /\ edev'.tdh = edev.tdh /\ edev'.tdt = edev.tdt
    BY <1>1, WrapNext DEF E1000Types, E!RxDescs
  <1>3. /\ Len(ewire) \in Nat /\ Len(ewire') = Len(ewire) + 1
        /\ ewire \in Seq(ETags) /\ ewire' \in Seq(ETags)
    BY <1>1 DEF E1000Types
  <1>4. /\ Len(ewire) < NUM_RX_DESC
        /\ edev.rdh = Wrap(enext + Len(ewire), NUM_RX_DESC)
        /\ edev.rdt = Wrap(enext + NUM_RX_DESC - 1, NUM_RX_DESC)
        /\ RingHolds([i \in E!RxDescs |-> erx[i].data], enext, ewire, NUM_RX_DESC)
    BY <1>1 DEF E1000Rx
  <1>5. Len(ewire) + 1 < NUM_RX_DESC
    <2>1. Len(ewire) # NUM_RX_DESC - 1
      BY <1>1, <1>2, <1>4
    <2>2. QED
      BY <1>3, <1>4, <2>1
  <1>6. E1000Types'
    BY <1>1, <1>2, <1>3 DEF E1000Types, E!RxDescs
  <1>7. edev'.rdh = Wrap(enext + Len(ewire'), NUM_RX_DESC)
    BY <1>2, <1>3, <1>4, WrapThenNext
  <1>8. RingHolds([i \in E!RxDescs |-> erx'[i].data], enext, ewire', NUM_RX_DESC)
    <2> DEFINE D == ETags \cup {None}
               f == [i \in E!RxDescs |-> erx[i].data]
    <2>1. f \in [0 .. (NUM_RX_DESC - 1) -> D] /\ ewire \in Seq(D) /\ t \in D
      BY <1>3 DEF E1000Types, E!RxDescs
    <2>2. [i \in E!RxDescs |-> erx'[i].data] = [f EXCEPT ![edev.rdh] = t]
      BY <1>1, <1>2 DEF E1000Types, E!RxDescs
    <2> HIDE DEF f, D
    <2>3. RingHolds([f EXCEPT ![Wrap(enext + Len(ewire), NUM_RX_DESC)] = t], enext, Append(ewire, t), NUM_RX_DESC)
      BY <1>2, <1>4, <2>1, RingAppend DEF f
    <2>4. QED
      BY <1>1, <1>4, <2>2, <2>3
  <1>9. E1000Rx'
    BY <1>1, <1>2, <1>3, <1>4, <1>5, <1>7, <1>8 DEF E1000Rx
  <1>10. E1000Tx'
    BY <1>1, <1>2 DEF E1000Tx
  <1>11. QED
    BY <1>1, <1>3, <1>6, <1>9, <1>10 DEF E1000Off, E1000Mapped, E1000Copying

\* The adapter sets the done bit of a descriptor it has filled.
LEMMA E1000Marks ==
    ASSUME E1000Inv, E!DeviceMarksDone
    PROVE  E1000Inv'
  <1> USE E1000Constants DEF E1000Inv
  <1>1. PICK k \in 1 .. Len(ewire) :
            /\ edev.rctl
            /\ erx' = [erx EXCEPT ![(enext + k - 1) % NUM_RX_DESC].done = TRUE]
    BY DEF E!DeviceMarksDone
  <1>2. UNCHANGED <<epc, edev, enext, etx, emaps, ewire, etxq>>
    BY DEF E!DeviceMarksDone
  <1>3. /\ E1000Types'
        /\ [i \in E!RxDescs |-> erx'[i].data] = [i \in E!RxDescs |-> erx[i].data]
    BY <1>1, <1>2, ZenonT(60) DEF E1000Types
  <1>4. E1000Rx'
    BY <1>2, <1>3 DEF E1000Rx
  <1>5. QED
    BY <1>2, <1>3, <1>4 DEF E1000Tx, E1000Off, E1000Mapped, E1000Copying

\* A packet is queued behind those that wait.
LEMMA E1000Queues ==
    ASSUME E1000Inv, NEW p \in ETags, E!e1k_xmit(p)
    PROVE  E1000Inv'
  <1> USE E1000Constants DEF E1000Inv
  <1>1. /\ epc = "open" /\ epc' = epc
        /\ ~E!RingFull
        /\ etx' = [etx EXCEPT ![edev.tdt] = p]
        /\ edev' = [edev EXCEPT !.tdt = (edev.tdt + 1) % NUM_TX_DESC]
        /\ etxq' = Append(etxq, p)
        /\ UNCHANGED <<erx, enext, emaps, ewire>>
    BY DEF E!e1k_xmit
  <1>2. /\ edev.tdh \in 0 .. (NUM_TX_DESC - 1) /\ edev.tdt \in 0 .. (NUM_TX_DESC - 1)
        /\ edev'.tdt = Wrap(edev.tdt + 1, NUM_TX_DESC) /\ edev'.tdt \in 0 .. (NUM_TX_DESC - 1)
        /\ edev'.rdt = edev.rdt /\ edev'.rdh = edev.rdh /\ edev'.tdh = edev.tdh
    BY <1>1, WrapNext DEF E1000Types, E!TxDescs
  <1>3. /\ Len(etxq) \in Nat /\ Len(etxq') = Len(etxq) + 1
        /\ etxq \in Seq(ETags) /\ etxq' \in Seq(ETags)
    BY <1>1 DEF E1000Types
  <1>4. /\ Len(etxq) < NUM_TX_DESC
        /\ edev.tdt = Wrap(edev.tdh + Len(etxq), NUM_TX_DESC)
        /\ RingHolds(etx, edev.tdh, etxq, NUM_TX_DESC)
    BY <1>1 DEF E1000Tx
  <1>5. Len(etxq) + 1 < NUM_TX_DESC
    <2>1. (edev.tdh + NUM_TX_DESC - 1) % NUM_TX_DESC = Wrap(edev.tdh + NUM_TX_DESC - 1, NUM_TX_DESC)
      <3>1. NUM_TX_DESC \in 1 .. NUM_TX_DESC
        OBVIOUS
      <3>2. QED
        BY <1>2, <3>1, WrapAhead
    <2>2. Len(etxq) # NUM_TX_DESC - 1
      BY <1>1, <1>2, <1>4, <2>1 DEF E!RingFull
    <2>3. QED
      BY <1>3, <1>4, <2>2
  <1>6. E1000Types'
    BY <1>1, <1>2, <1>3 DEF E1000Types, E!TxDescs
  <1>7. edev'.tdt = Wrap(edev.tdh + Len(etxq'), NUM_TX_DESC)
    BY <1>2, <1>3, <1>4, WrapThenNext, SMTT(30)
  <1>8. RingHolds(etx', edev.tdh, etxq', NUM_TX_DESC)
    <2> DEFINE D == ETags \cup {None}
    <2>1. etx \in [0 .. (NUM_TX_DESC - 1) -> D] /\ etxq \in Seq(D) /\ p \in D
      BY <1>3 DEF E1000Types, E!TxDescs
    <2> HIDE DEF D
    <2>2. RingHolds([etx EXCEPT ![Wrap(edev.tdh + Len(etxq), NUM_TX_DESC)] = p], edev.tdh, Append(etxq, p), NUM_TX_DESC)
      BY <1>2, <1>4, <2>1, RingAppend
    <2>3. QED
      BY <1>1, <1>4, <2>2
  <1>9. E1000Tx'
    BY <1>1, <1>2, <1>3, <1>5, <1>7, <1>8 DEF E1000Tx
  <1>10. E1000Rx'
    BY <1>1, <1>2 DEF E1000Rx
  <1>11. QED
    BY <1>1, <1>6, <1>9, <1>10 DEF E1000Off, E1000Mapped, E1000Copying

\* The controller sends the oldest packet.
LEMMA E1000Sends ==
    ASSUME E1000Inv, E!DeviceSends
    PROVE  E1000Inv'
  <1> USE E1000Constants DEF E1000Inv
  <1>1. /\ epc \in {"open", "received"} /\ epc' = epc
        /\ edev.tdh # edev.tdt
        /\ edev' = [edev EXCEPT !.tdh = (edev.tdh + 1) % NUM_TX_DESC]
        /\ etxq' = Tail(etxq)
        /\ UNCHANGED <<erx, enext, etx, emaps, ewire>>
    BY DEF E!DeviceSends, E!CanSend, E1000Off
  <1>2. /\ edev.tdh \in 0 .. (NUM_TX_DESC - 1)
        /\ edev'.tdh = Wrap(edev.tdh + 1, NUM_TX_DESC) /\ edev'.tdh \in 0 .. (NUM_TX_DESC - 1)
        /\ edev'.rdt = edev.rdt /\ edev'.rdh = edev.rdh /\ edev'.tdt = edev.tdt
    BY <1>1, WrapNext DEF E1000Types, E!TxDescs
  <1>3. /\ Len(etxq) < NUM_TX_DESC /\ etxq \in Seq(ETags)
        /\ edev.tdt = Wrap(edev.tdh + Len(etxq), NUM_TX_DESC)
        /\ RingHolds(etx, edev.tdh, etxq, NUM_TX_DESC)
    BY <1>1 DEF E1000Tx, E1000Types
  <1>4. etxq # <<>> /\ Len(etxq) \in 1 .. (NUM_TX_DESC - 1)
    BY <1>1, <1>2, <1>3 DEF Wrap
  <1>5. Len(etxq') = Len(etxq) - 1 /\ etxq' \in Seq(ETags)
    BY <1>1, <1>3, <1>4
  <1>6. E1000Types'
    BY <1>1, <1>2, <1>5 DEF E1000Types, E!TxDescs
  <1>7. edev'.tdt = Wrap(edev'.tdh + Len(etxq'), NUM_TX_DESC)
    <2>1. edev'.tdt = Wrap(edev.tdh + ((Len(etxq) - 1) + 1), NUM_TX_DESC)
      BY <1>2, <1>3, <1>4
    <2>2. Len(etxq) - 1 \in 0 .. (NUM_TX_DESC - 1)
      BY <1>4
    <2>3. QED
      BY <1>2, <1>5, <2>1, <2>2, WrapFromNext
  <1>8. RingHolds(etx, edev'.tdh, etxq', NUM_TX_DESC)
    BY <1>1, <1>2, <1>3, <1>4, RingTail
  <1>9. E1000Tx'
    BY <1>1, <1>2, <1>4, <1>5, <1>7, <1>8 DEF E1000Tx
  <1>10. E1000Rx'
    BY <1>1, <1>2 DEF E1000Rx
  <1>11. QED
    BY <1>1, <1>6, <1>9, <1>10 DEF E1000Off, E1000Mapped, E1000Copying

\* Every step of driver and adapter keeps the invariant of the e1000.
LEMMA E1000Step == E1000Inv /\ [E!Next]_evars => E1000Inv'
  <1> SUFFICES ASSUME E1000Inv, [E!Next]_evars PROVE E1000Inv'
    OBVIOUS
  <1>1. CASE UNCHANGED evars
    BY <1>1 DEF evars, E1000Inv, E1000Types, E1000Off, E1000Mapped, E1000Rx, E1000Tx, E1000Copying
  <1>2. CASE E!Next
    BY <1>2, E1000Opens, E1000Closes, E1000Receives, E1000Arrives, E1000Marks, E1000Queues, E1000Sends
       DEF E!Next
  <1>3. QED
    BY <1>1, <1>2

\* What the invariant of the e1000 says of frames and of a closed adapter.
LEMMA E1000InvImplies == E1000Inv => E!RxIntact /\ E!TxIntact /\ E!QuietWhenClosed
  <1> SUFFICES ASSUME E1000Inv PROVE E!RxIntact /\ E!TxIntact /\ E!QuietWhenClosed
    OBVIOUS
  <1> USE E1000Constants DEF E1000Inv
  <1>1. E!RxIntact
    <2> SUFFICES ASSUME epc \in {"open", "received"}
                 PROVE  /\ Len(ewire) = (edev.rdh + NUM_RX_DESC - enext) % NUM_RX_DESC
                        /\ \A k \in DOMAIN ewire : erx[(enext + k - 1) % NUM_RX_DESC].data = ewire[k]
      BY DEF E!RxIntact
    <2>1. /\ enext \in 0 .. (NUM_RX_DESC - 1) /\ edev.rdh \in 0 .. (NUM_RX_DESC - 1)
          /\ Len(ewire) \in 0 .. (NUM_RX_DESC - 1) /\ ewire \in Seq(ETags)
          /\ edev.rdh = Wrap(enext + Len(ewire), NUM_RX_DESC)
          /\ RingHolds([i \in E!RxDescs |-> erx[i].data], enext, ewire, NUM_RX_DESC)
      BY DEF E1000Types, E1000Rx, E!RxDescs
    <2>2. \A k \in DOMAIN ewire : erx[(enext + k - 1) % NUM_RX_DESC].data = ewire[k]
      <3> DEFINE f == [i \in E!RxDescs |-> erx[i].data]
      <3>1. \A i \in 0 .. (NUM_RX_DESC - 1) : f[i] = erx[i].data
        BY DEF E!RxDescs
      <3> HIDE DEF f
      <3>2. \A k \in DOMAIN ewire : /\ (enext + k - 1) % NUM_RX_DESC \in 0 .. (NUM_RX_DESC - 1)
                                   /\ f[(enext + k - 1) % NUM_RX_DESC] = ewire[k]
        BY <2>1, RingRead, SMTT(30) DEF f
      <3>3. QED
        BY <3>1, <3>2
    <2>3. Len(ewire) = (edev.rdh + NUM_RX_DESC - enext) % NUM_RX_DESC
      BY <2>1, RingLength
    <2>4. QED
      BY <2>2, <2>3
  <1>2. E!TxIntact
    <2> SUFFICES ASSUME epc = "open"
                 PROVE  /\ Len(etxq) = (edev.tdt + NUM_TX_DESC - edev.tdh) % NUM_TX_DESC
                        /\ \A k \in DOMAIN etxq : etx[(edev.tdh + k - 1) % NUM_TX_DESC] = etxq[k]
      BY DEF E!TxIntact
    <2>1. /\ edev.tdt \in 0 .. (NUM_TX_DESC - 1) /\ edev.tdh \in 0 .. (NUM_TX_DESC - 1)
          /\ Len(etxq) \in 0 .. (NUM_TX_DESC - 1) /\ etxq \in Seq(ETags)
          /\ edev.tdt = Wrap(edev.tdh + Len(etxq), NUM_TX_DESC)
          /\ RingHolds(etx, edev.tdh, etxq, NUM_TX_DESC)
      BY DEF E1000Types, E1000Tx, E!TxDescs
    <2>2. \A k \in DOMAIN etxq : etx[(edev.tdh + k - 1) % NUM_TX_DESC] = etxq[k]
      BY <2>1, RingRead
    <2>3. Len(etxq) = (edev.tdt + NUM_TX_DESC - edev.tdh) % NUM_TX_DESC
      BY <2>1, RingLength
    <2>4. QED
      BY <2>2, <2>3
  <1>3. E!QuietWhenClosed
    BY DEF E!QuietWhenClosed, E1000Off, E1000Mapped, E!CanReceive, E!CanSend, E1000Types
  <1>4. QED
    BY <1>1, <1>2, <1>3

-----------------------------------------------------------------------------
(* Veth. *)

\* The receive queue has an entry.
LEMMA VethConstants == RX_QUEUE_SIZE \in Nat \ {0} /\ 0 \in V!Entries
  BY NicAssumption DEF V!ConstantsOK, V!Entries

\* The entries of the second of two sequences that are joined.
LEMMA ConcatAt ==
    ASSUME NEW S, NEW T, NEW s \in Seq(S), NEW t \in Seq(T)
    PROVE  \A k \in 1 .. Len(t) : (s \o t)[Len(s) + k] = t[k]
  <1> SUFFICES ASSUME NEW k \in 1 .. Len(t) PROVE (s \o t)[Len(s) + k] = t[k]
    OBVIOUS
  <1>1. Len(s) + k \in 1 .. (Len(s) + Len(t)) /\ Len(s) + k > Len(s) /\ (Len(s) + k) - Len(s) = k
    OBVIOUS
  <1>2. QED
    BY <1>1

\* Registering changes one field of the hypervisor's record.
LEMMA HypRecord ==
    ASSUME NEW r, NEW s, NEW i, NEW t, NEW x
    PROVE  [[reg |-> r, bufs |-> s, index |-> i, toggle |-> t] EXCEPT !.reg = x]
             = [reg |-> x, bufs |-> s, index |-> i, toggle |-> t]
  OBVIOUS

\* What giving buffers to the hypervisor leaves of its record.
LEMMA HypGiven ==
    ASSUME NEW h \in HypStates, NEW s \in Seq(V!Entries \cup {None})
    PROVE  /\ [h EXCEPT !.bufs = s] \in HypStates
           /\ [h EXCEPT !.bufs = s].bufs = s
           /\ [h EXCEPT !.bufs = s].index = h.index /\ [h EXCEPT !.bufs = s].toggle = h.toggle
  BY DEF HypStates

\* What a frame changes in the hypervisor's record.
LEMMA HypUpdate ==
    ASSUME NEW h \in HypStates, NEW s \in Seq(V!Entries \cup {None}), NEW i \in V!Entries,
           NEW t \in BOOLEAN
    PROVE  /\ [h EXCEPT !.bufs = s, !.index = i, !.toggle = t] \in HypStates
           /\ [h EXCEPT !.bufs = s, !.index = i, !.toggle = t].bufs = s
           /\ [h EXCEPT !.bufs = s, !.index = i, !.toggle = t].index = i
           /\ [h EXCEPT !.bufs = s, !.index = i, !.toggle = t].toggle = t
  BY DEF HypStates

\* The values the queue's entries and the hypervisor's state take.
LEMMA VethRecords ==
    /\ V!Blank \in QueueEntries /\ ~V!Blank.toggle
    /\ V!Unregistered \in HypStates
    /\ ~V!Unregistered.reg
    /\ [V!Unregistered EXCEPT !.reg = TRUE] = [reg |-> TRUE, bufs |-> <<>>, index |-> 0, toggle |-> TRUE]
    /\ [V!Unregistered EXCEPT !.reg = TRUE] \in HypStates
    /\ \A e \in QueueEntries : e.toggle \in BOOLEAN /\ e.buf \in V!Entries \cup {None}
    /\ \A h \in HypStates : /\ h.reg \in BOOLEAN /\ h.bufs \in Seq(V!Entries \cup {None})
                            /\ h.index \in V!Entries /\ h.toggle \in BOOLEAN
  <1>1. <<>> \in Seq(V!Entries \cup {None}) /\ 0 \in V!Entries
    BY VethConstants
  <1>2. V!Blank \in QueueEntries /\ ~V!Blank.toggle
    BY DEF V!Blank, QueueEntries
  <1>3. V!Unregistered \in HypStates /\ ~V!Unregistered.reg
    BY <1>1 DEF V!Unregistered, HypStates
  <1>4. [V!Unregistered EXCEPT !.reg = TRUE] = [reg |-> TRUE, bufs |-> <<>>, index |-> 0, toggle |-> TRUE]
    BY HypRecord, ZenonT(40) DEF V!Unregistered
  <1>5. [reg |-> TRUE, bufs |-> <<>>, index |-> 0, toggle |-> TRUE] \in HypStates
    BY <1>1 DEF HypStates
  <1>6. QED
    BY <1>2, <1>3, <1>4, <1>5 DEF QueueEntries, HypStates

\* The closed veth satisfies its invariant.
LEMMA VethInitially == V!Init => VethInv
  <1> SUFFICES ASSUME V!Init PROVE VethInv
    OBVIOUS
  <1> USE VethConstants, VethRecords
  <1>1. VethTypes
    <2>1. vqueue \in [V!Entries -> QueueEntries] /\ vhyp \in HypStates
      BY DEF V!Init
    <2>2. vwire \in Seq(VTags)
      BY DEF V!Init
    <2>3. QED
      BY <2>1, <2>2 DEF V!Init, VethTypes
  <1>2. QED
    BY <1>1 DEF V!Init, VethInv, VethRegistered, VethQueue

\* An open that fails leaves the memory unregistered; one that succeeds finds the
\* queue clean or not.
LEMMA VethOpens == VethInv /\ V!libveth_open => VethInv'
  <1> SUFFICES ASSUME VethInv, V!libveth_open PROVE VethInv'
    OBVIOUS
  <1> USE VethConstants
  <1>1. PICK old \in {vqueue, [i \in V!Entries |-> V!Blank]} : vqueue' = [old EXCEPT ![0] = V!Blank]
    BY DEF V!libveth_open
  <1>2. vqueue' \in [V!Entries -> QueueEntries]
    <2>1. old \in [V!Entries -> QueueEntries]
      BY VethRecords DEF VethInv, VethTypes
    <2>2. QED
      BY <1>1, <2>1, VethRecords
  <1>3. vhyp' \in HypStates
    BY VethRecords DEF V!libveth_open, VethInv, VethTypes
  <1>4. vclean' \in BOOLEAN
    BY DEF V!libveth_open
  <1>5. VethTypes'
    <2>1. /\ vpc' \in {"closed", "init", "open", "term"} /\ vmem' \in BOOLEAN
          /\ vtoggle' \in BOOLEAN /\ vindex' \in V!Entries
      BY DEF V!libveth_open, VethInv, VethTypes
    <2>2. vwire' \in Seq(VTags) /\ vdata' \in [V!Entries -> VTags \cup {None}]
      BY DEF V!libveth_open, VethInv, VethTypes
    <2>3. QED
      BY <1>2, <1>3, <1>4, <2>1, <2>2 DEF VethTypes
  <1>6. VethRegistered'
    BY DEF V!libveth_open, VethInv, VethTypes, VethRegistered, V!Unregistered
  <1>7. VethQueue'
    BY DEF V!libveth_open, VethQueue
  <1>8. QED
    BY <1>5, <1>6, <1>7 DEF VethInv

\* All buffers go to the hypervisor.
LEMMA VethStarts == VethInv /\ V!veth_init => VethInv'
  <1> SUFFICES ASSUME VethInv, V!veth_init PROVE VethInv'
    OBVIOUS
  <1> USE VethConstants
  <1> DEFINE all == [k \in 1 .. RX_QUEUE_SIZE |-> k - 1]
  <1>1. /\ all \in Seq(V!Entries) /\ Len(all) = RX_QUEUE_SIZE /\ DOMAIN all = 1 .. RX_QUEUE_SIZE
        /\ \A k \in 1 .. RX_QUEUE_SIZE : all[k] = k - 1
    BY DEF V!Entries
  <1> HIDE DEF all
  <1>2. /\ vpc = "init" /\ vpc' = "open"
        /\ vhyp = [reg |-> TRUE, bufs |-> <<>>, index |-> 0, toggle |-> TRUE]
        /\ vhyp' = [vhyp EXCEPT !.bufs = <<>> \o all]
        /\ vindex = 0 /\ vtoggle = TRUE /\ vwire = <<>> /\ vmem
        /\ vclean => \A i \in V!Entries : ~vqueue[i].toggle
        /\ UNCHANGED <<vqueue, vtoggle, vindex, vmem, vdata, vwire, vclean>>
    BY DEF V!veth_init, V!h_add_logical_lan_buffer, VethInv, VethTypes, VethRegistered, V!Unregistered, all
  <1>3. <<>> \o all = all
    BY <1>1
  <1>4. vhyp' = [reg |-> TRUE, bufs |-> all, index |-> 0, toggle |-> TRUE]
    BY <1>2, <1>3
  <1>5. all \in Seq(V!Entries \cup {None})
    BY <1>1
  <1>6. VethTypes'
    <2>1. vhyp' \in HypStates
      BY <1>2, <1>3, <1>5, HypGiven DEF VethInv, VethTypes
    <2>2. QED
      BY <1>2, <2>1 DEF VethInv, VethTypes
  <1>7. VethRegistered'
    BY <1>2 DEF VethRegistered
  <1>8. ASSUME vclean PROVE (VethLaps /\ VethBuffers /\ VethFrames)'
    <2>1. VethUnread' = {} /\ Len(vwire') = 0
      BY <1>2 DEF VethUnread
    <2>2. vqueue \in [V!Entries -> QueueEntries]
      BY DEF VethInv, VethTypes
    <2>3. VethLaps'
      <3>1. Len(vhyp'.bufs) = RX_QUEUE_SIZE /\ vhyp'.index = 0 /\ vhyp'.toggle = TRUE
        BY <1>1, <1>4
      <3>2. vindex' = 0 /\ vtoggle' = TRUE
        BY <1>2
      <3>3. \A k \in 0 .. (RX_QUEUE_SIZE - 1) : Wrap(0 + k, RX_QUEUE_SIZE) = k /\ 0 + k < RX_QUEUE_SIZE
        BY DEF Wrap
      <3>4. \A k \in 0 .. (RX_QUEUE_SIZE - 1) : vqueue'[k].toggle = FALSE
        BY <1>2, <1>8, <2>2, VethRecords DEF V!Entries
      <3>5. \A k \in 0 .. (RX_QUEUE_SIZE - 1) :
               vqueue'[Wrap(vindex' + k, RX_QUEUE_SIZE)].toggle
                 = (IF k \in VethUnread' THEN (IF vindex' + k < RX_QUEUE_SIZE THEN vtoggle' ELSE ~vtoggle')
                    ELSE ~(IF vindex' + k < RX_QUEUE_SIZE THEN vtoggle' ELSE ~vtoggle'))
        BY <2>1, <3>2, <3>3, <3>4
      <3>6. 0 \in 0 .. (RX_QUEUE_SIZE - 1)
        OBVIOUS
      <3>7. vhyp'.index = Wrap(vindex' + Len(vwire'), RX_QUEUE_SIZE)
        BY <2>1, <3>1, <3>2, <3>3, <3>6
      <3>8. vhyp'.toggle = (IF vindex' + Len(vwire') < RX_QUEUE_SIZE THEN vtoggle' ELSE ~vtoggle')
        <4>1. vindex' + Len(vwire') < RX_QUEUE_SIZE
          BY <2>1, <3>2
        <4>2. QED
          BY <3>1, <3>2, <4>1
      <3>9. Len(vwire') <= RX_QUEUE_SIZE /\ Len(vhyp'.bufs) = RX_QUEUE_SIZE - Len(vwire')
        BY <2>1, <3>1
      <3>10. QED
        BY <3>5, <3>7, <3>8, <3>9 DEF VethLaps, VethAt, VethLap
    <2>4. VethBuffers'
      <3>1. vhyp'.bufs = all
        BY <1>4
      <3>2. \A i \in 1 .. RX_QUEUE_SIZE : all[i] \in V!Entries
        BY <1>1 DEF V!Entries
      <3>3. \A i, j \in 1 .. RX_QUEUE_SIZE : all[i] = all[j] => i = j
        BY <1>1
      <3>4. ASSUME NEW c \in V!Entries PROVE \E i \in 1 .. RX_QUEUE_SIZE : all[i] = c
        <4>1. c + 1 \in 1 .. RX_QUEUE_SIZE /\ (c + 1) - 1 = c
          BY DEF V!Entries
        <4>2. QED
          BY <1>1, <4>1
      <3>5. QED
        BY <1>1, <2>1, <3>1, <3>2, <3>3, <3>4 DEF VethBuffers
    <2>5. VethFrames'
      BY <2>1 DEF VethFrames
    <2>6. QED
      BY <2>3, <2>4, <2>5
  <1>9. VethQueue'
    BY <1>2, <1>8 DEF VethQueue
  <1>10. QED
    BY <1>6, <1>7, <1>9 DEF VethInv

\* libveth_close and veth_term, which free the logical LAN.
LEMMA VethCloses == VethInv /\ (V!libveth_close \/ V!veth_term) => VethInv'
  <1> SUFFICES ASSUME VethInv, V!libveth_close \/ V!veth_term PROVE VethInv'
    OBVIOUS
  <1> USE VethConstants
  <1>1. vhyp' \in HypStates
    BY VethRecords DEF V!libveth_close, V!veth_term, V!h_free_logical_lan
  <1>2. VethTypes'
    BY <1>1 DEF V!libveth_close, V!veth_term, V!h_free_logical_lan, VethInv, VethTypes
  <1>3. QED
    BY <1>2 DEF V!libveth_close, V!veth_term, V!h_free_logical_lan, VethInv, VethRegistered, VethQueue

\* What is true of the positions while the queue is clean.
LEMMA VethPositions ==
    ASSUME VethInv
    PROVE  /\ vindex \in 0 .. (RX_QUEUE_SIZE - 1)
           /\ \A k \in 0 .. RX_QUEUE_SIZE : VethAt(k) \in V!Entries
           /\ \A k, l \in 0 .. (RX_QUEUE_SIZE - 1) : VethAt(k) = VethAt(l) => k = l
  <1>1. vindex \in 0 .. (RX_QUEUE_SIZE - 1)
    BY DEF VethInv, VethTypes, V!Entries
  <1>2. QED
    BY <1>1, VethConstants, WrapIn, WrapInjective DEF VethAt, V!Entries

\* The driver returns the oldest frame and the hypervisor gets its buffer back.
LEMMA VethReceives == VethInv /\ V!veth_receive => VethInv'
  <1> SUFFICES ASSUME VethInv, V!veth_receive PROVE VethInv'
    OBVIOUS
  <1> USE VethConstants
  <1> DEFINE b == vqueue[vindex].buf
  <1>1. /\ vpc = "open" /\ vpc' = "open" /\ vqueue[vindex].toggle = vtoggle
        /\ vhyp' = [vhyp EXCEPT !.bufs = vhyp.bufs \o <<b>>]
        /\ vindex' = (vindex + 1) % RX_QUEUE_SIZE
        /\ vtoggle' = (IF vindex' = 0 THEN ~vtoggle ELSE vtoggle)
        /\ vwire' = (IF vwire = <<>> THEN vwire ELSE Tail(vwire))
        /\ UNCHANGED <<vqueue, vmem, vdata, vclean>>
    BY DEF V!veth_receive, V!NewEntry, V!NextLap, V!h_add_logical_lan_buffer, VethInv, VethTypes
  <1>2. /\ vindex \in 0 .. (RX_QUEUE_SIZE - 1)
        /\ vindex' = Wrap(vindex + 1, RX_QUEUE_SIZE)
        /\ vindex' \in 0 .. (RX_QUEUE_SIZE - 1)
    BY <1>1, VethPositions, WrapNext
  <1>3. b \in V!Entries \cup {None}
    BY <1>2, VethRecords DEF VethInv, VethTypes, V!Entries
  <1>4. VethTypes'
    <2>1. vhyp.bufs \o <<b>> \in Seq(V!Entries \cup {None})
      BY <1>3, VethRecords DEF VethInv, VethTypes
    <2>2. vwire' \in Seq(VTags)
      BY <1>1 DEF VethInv, VethTypes
    <2>3. vtoggle' \in BOOLEAN
      BY <1>1 DEF VethInv, VethTypes
    <2>4. QED
      <3>1. vhyp' \in HypStates
        BY <1>1, <2>1, HypGiven DEF VethInv, VethTypes
      <3>2. QED
        BY <1>1, <1>2, <2>2, <2>3, <3>1 DEF VethInv, VethTypes, V!Entries
  <1>5. VethRegistered'
    BY <1>1 DEF VethInv, VethRegistered
  <1>6. ASSUME vclean PROVE (VethLaps /\ VethBuffers /\ VethFrames)'
    <2> DEFINE n == Len(vwire)
               m == Len(vhyp.bufs)
    <2>1. VethLaps /\ VethBuffers /\ VethFrames
      BY <1>1, <1>6 DEF VethInv, VethQueue
    <2>2. n \in 0 .. RX_QUEUE_SIZE /\ m \in Nat /\ m = RX_QUEUE_SIZE - n /\ vhyp.bufs \in Seq(V!Entries \cup {None})
      BY <2>1 DEF VethLaps, VethInv, VethTypes
    <2>3. VethAt(0) = vindex /\ VethLap(0) = vtoggle
      BY <1>2 DEF VethAt, VethLap, Wrap
    <2>4. 0 \in VethUnread
      <3>1. vqueue[VethAt(0)].toggle = (IF 0 \in VethUnread THEN VethLap(0) ELSE ~VethLap(0))
        BY <2>1 DEF VethLaps
      <3>2. vtoggle \in BOOLEAN
        BY DEF VethInv, VethTypes
      <3>3. QED
        BY <1>1, <2>3, <3>1, <3>2
    <2>5. n \in 1 .. RX_QUEUE_SIZE /\ vwire # <<>>
      BY <2>2, <2>4 DEF VethUnread
    <2>6. /\ vwire' = Tail(vwire) /\ Len(vwire') = n - 1
          /\ \A k \in 0 .. (n - 2) : vwire'[k + 1] = vwire[(k + 1) + 1]
      BY <1>1, <2>5 DEF VethInv, VethTypes
    <2>7. \A k \in 0 .. (RX_QUEUE_SIZE - 1) : VethAt(k)' = VethAt(k + 1)
      BY <1>2, WrapFromNext DEF VethAt
    <2>8. \A k \in 0 .. (RX_QUEUE_SIZE - 2) : VethLap(k)' = VethLap(k + 1)
      <3>1. vtoggle \in BOOLEAN
        BY DEF VethInv, VethTypes
      <3>2. QED
        BY <1>1, <1>2, <3>1, SMTT(30) DEF VethLap, Wrap
    <2>9. VethLap(RX_QUEUE_SIZE - 1)' = ~VethLap(0)
      BY <1>1, <1>2, <2>3 DEF VethLap, Wrap, VethInv, VethTypes
    <2>10. VethAt(RX_QUEUE_SIZE) = VethAt(0)
      BY <1>2 DEF VethAt, Wrap
    <2>11. VethUnread' = 0 .. (n - 2)
      BY <2>6 DEF VethUnread
    <2> DEFINE u == vhyp.bufs \o <<b>>
    <2>12. /\ vhyp'.bufs = u /\ vhyp'.index = vhyp.index /\ vhyp'.toggle = vhyp.toggle
           /\ Len(u) = m + 1 /\ u[m + 1] = b /\ \A i \in 1 .. m : u[i] = vhyp.bufs[i]
      BY <1>1, <2>2 DEF VethInv, VethTypes
    <2> HIDE DEF n, m, u, b
    <2>13. VethLaps'
      <3>1. Len(vwire') <= RX_QUEUE_SIZE /\ Len(vhyp'.bufs) = RX_QUEUE_SIZE - Len(vwire')
        BY <2>2, <2>5, <2>6, <2>12
      <3>2. vhyp'.index = Wrap(vindex' + Len(vwire'), RX_QUEUE_SIZE)
        <4>1. vhyp'.index = VethAt(n)
          BY <2>1, <2>12 DEF VethLaps, n
        <4>2. n - 1 \in 0 .. (RX_QUEUE_SIZE - 1) /\ (n - 1) + 1 = n
          BY <2>5
        <4>3. Wrap(Wrap(vindex + 1, RX_QUEUE_SIZE) + (n - 1), RX_QUEUE_SIZE)
                 = Wrap(vindex + ((n - 1) + 1), RX_QUEUE_SIZE)
          BY <1>2, <4>2, WrapFromNext
        <4>4. Wrap(vindex' + (n - 1), RX_QUEUE_SIZE) = VethAt(n)
          BY <1>2, <4>2, <4>3 DEF VethAt
        <4>5. QED
          BY <2>6, <4>1, <4>4
      <3>3. vhyp'.toggle = (IF vindex' + Len(vwire') < RX_QUEUE_SIZE THEN vtoggle' ELSE ~vtoggle')
        <4>1. vhyp'.toggle = (IF vindex + n < RX_QUEUE_SIZE THEN vtoggle ELSE ~vtoggle)
          BY <2>1, <2>12 DEF VethLaps, VethLap, n
        <4>2. vtoggle \in BOOLEAN
          BY DEF VethInv, VethTypes
        <4>3. CASE vindex = RX_QUEUE_SIZE - 1
          <5>1. vindex' = 0 /\ vtoggle' = ~vtoggle
            BY <1>1, <1>2, <4>3 DEF Wrap
          <5>2. vindex' + (n - 1) < RX_QUEUE_SIZE /\ ~(vindex + n < RX_QUEUE_SIZE)
            BY <2>5, <4>3, <5>1
          <5>3. QED
            BY <2>6, <4>1, <5>1, <5>2
        <4>4. CASE vindex # RX_QUEUE_SIZE - 1
          <5>1. vindex' = vindex + 1 /\ vtoggle' = vtoggle
            BY <1>1, <1>2, <4>4 DEF Wrap
          <5>2. vindex' + (n - 1) < RX_QUEUE_SIZE <=> vindex + n < RX_QUEUE_SIZE
            BY <1>2, <2>5, <5>1
          <5>3. QED
            BY <2>6, <4>1, <5>1, <5>2
        <4>5. QED
          BY <4>3, <4>4
      <3>4. ASSUME NEW k \in 0 .. (RX_QUEUE_SIZE - 1)
            PROVE  vqueue'[VethAt(k)'].toggle = (IF k \in VethUnread' THEN VethLap(k)' ELSE ~VethLap(k)')
        <4>1. CASE k \in 0 .. (RX_QUEUE_SIZE - 2)
          <5>1. k + 1 \in 0 .. (RX_QUEUE_SIZE - 1)
            BY <4>1
          <5>2. vqueue[VethAt(k + 1)].toggle = (IF k + 1 \in VethUnread THEN VethLap(k + 1) ELSE ~VethLap(k + 1))
            BY <2>1, <5>1 DEF VethLaps
          <5>3. k + 1 \in VethUnread <=> k \in VethUnread'
            BY <2>5, <2>11, <4>1 DEF VethUnread, n
          <5>4. QED
            BY <1>1, <2>7, <2>8, <4>1, <5>2, <5>3
        <4>2. CASE k = RX_QUEUE_SIZE - 1
          <5>1. k \notin VethUnread'
            BY <2>5, <2>11, <4>2
          <5>2. VethAt(k)' = vindex
            BY <2>3, <2>7, <2>10, <4>2
          <5>3. VethLap(k)' = ~vtoggle /\ vtoggle \in BOOLEAN
            BY <2>3, <2>9, <4>2 DEF VethInv, VethTypes
          <5>4. QED
            BY <1>1, <5>1, <5>2, <5>3
        <4>3. QED
          BY <4>1, <4>2
      <3>5. QED
        BY <3>1, <3>2, <3>3, <3>4 DEF VethLaps, VethAt, VethLap
    <2>14. \A k \in 0 .. (n - 2) : VethBuf(k)' = VethBuf(k + 1) /\ k + 1 \in VethUnread
      BY <1>1, <2>2, <2>7 DEF VethBuf, VethUnread, n
    <2>15. VethBuf(0) = b
      BY <2>3 DEF VethBuf, b
    <2>16. DOMAIN vhyp.bufs = 1 .. m /\ DOMAIN (vhyp'.bufs) = 1 .. (m + 1)
      BY <2>2, <2>12, <1>4 DEF m, VethTypes
    <2>17. VethBuffers'
      <3>1. ASSUME NEW i \in 1 .. (m + 1)
            PROVE  (u[i] = b /\ i = m + 1) \/ (i \in 1 .. m /\ u[i] = vhyp.bufs[i])
        <4>1. i = m + 1 \/ i \in 1 .. m
          BY <2>2
        <4>2. CASE i = m + 1
          BY <2>12, <4>2
        <4>3. CASE i \in 1 .. m
          BY <2>12, <4>3
        <4>4. QED
          BY <4>1, <4>2, <4>3
      <3>2. \A i \in DOMAIN vhyp'.bufs : vhyp'.bufs[i] \in V!Entries
        BY <2>1, <2>4, <2>12, <2>15, <2>16, <3>1 DEF VethBuffers
      <3>3. \A k \in VethUnread' : VethBuf(k)' \in V!Entries
        BY <2>1, <2>11, <2>14 DEF VethBuffers
      <3>4. \A i, j \in DOMAIN vhyp'.bufs : vhyp'.bufs[i] = vhyp'.bufs[j] => i = j
        BY <2>1, <2>4, <2>12, <2>15, <2>16, <3>1 DEF VethBuffers
      <3>5. \A k, l \in VethUnread' : VethBuf(k)' = VethBuf(l)' => k = l
        <4> SUFFICES ASSUME NEW k \in 0 .. (n - 2), NEW l \in 0 .. (n - 2), VethBuf(k + 1) = VethBuf(l + 1) PROVE k = l
          BY <2>11, <2>14
        <4>1. k + 1 = l + 1
          BY <2>1, <2>14 DEF VethBuffers
        <4>2. QED
          BY <4>1
      <3>6. \A i \in DOMAIN vhyp'.bufs, k \in VethUnread' : vhyp'.bufs[i] # VethBuf(k)'
        <4> SUFFICES ASSUME NEW i \in 1 .. (m + 1), NEW k \in 0 .. (n - 2) PROVE u[i] # VethBuf(k + 1)
          BY <2>11, <2>12, <2>14, <2>16
        <4>1. k + 1 \in VethUnread /\ k + 1 # 0
          BY <2>14
        <4>2. CASE i = m + 1
          BY <2>1, <2>4, <2>12, <2>15, <4>1, <4>2 DEF VethBuffers
        <4>3. CASE i \in 1 .. m
          BY <2>1, <2>12, <2>16, <4>1, <4>3 DEF VethBuffers
        <4>4. QED
          BY <2>2, <4>2, <4>3
      <3>7. ASSUME NEW c \in V!Entries
            PROVE  (\E i \in DOMAIN vhyp'.bufs : vhyp'.bufs[i] = c) \/ (\E k \in VethUnread' : VethBuf(k)' = c)
        <4>1. CASE \E i \in DOMAIN vhyp.bufs : vhyp.bufs[i] = c
          BY <2>2, <2>12, <2>16, <4>1
        <4>2. CASE \E k \in VethUnread : VethBuf(k) = c
          <5>1. PICK k \in VethUnread : VethBuf(k) = c
            BY <4>2
          <5>2. CASE k = 0
            BY <2>2, <2>12, <2>15, <2>16, <5>1, <5>2
          <5>3. CASE k # 0
            <6>1. k - 1 \in 0 .. (n - 2) /\ (k - 1) + 1 = k
              BY <5>1, <5>3 DEF VethUnread, n
            <6>2. QED
              BY <2>11, <2>14, <5>1, <6>1
          <5>4. QED
            BY <5>2, <5>3
        <4>3. QED
          BY <2>1, <4>1, <4>2 DEF VethBuffers
      <3>8. QED
        BY <3>2, <3>3, <3>4, <3>5, <3>6, <3>7 DEF VethBuffers
    <2>18. VethFrames'
      <3> SUFFICES ASSUME NEW k \in 0 .. (n - 2) PROVE vdata[VethBuf(k + 1)] = vwire[(k + 1) + 1]
        BY <1>1, <2>6, <2>11, <2>14 DEF VethFrames
      <3>1. QED
        BY <2>1, <2>14 DEF VethFrames
    <2>19. QED
      BY <2>13, <2>17, <2>18
  <1>7. VethQueue'
    BY <1>1, <1>6 DEF VethQueue
  <1>8. QED
    BY <1>4, <1>5, <1>7 DEF VethInv

\* A frame arrives in the first buffer the hypervisor has.
LEMMA VethArrives ==
    ASSUME VethInv, NEW f \in VTags, V!HypervisorReceives(f)
    PROVE  VethInv'
  <1> USE VethConstants
  <1> DEFINE b == Head(vhyp.bufs)
             h == vhyp.index
  <1>1. /\ vhyp.reg /\ vhyp.bufs # <<>>
        /\ vdata' = [vdata EXCEPT ![b] = f]
        /\ vqueue' = [vqueue EXCEPT ![h] = [toggle |-> vhyp.toggle, buf |-> b]]
        /\ vhyp' = [vhyp EXCEPT !.bufs = Tail(vhyp.bufs), !.index = (h + 1) % RX_QUEUE_SIZE,
                        !.toggle = IF h = RX_QUEUE_SIZE - 1 THEN ~vhyp.toggle ELSE vhyp.toggle]
        /\ vwire' = Append(vwire, f)
        /\ UNCHANGED <<vpc, vtoggle, vindex, vmem, vclean>>
    BY DEF V!HypervisorReceives, VethInv, VethTypes
  <1>2. vpc = "open"
    BY <1>1 DEF VethInv, VethTypes, VethRegistered, V!Unregistered
  <1>3. /\ h \in 0 .. (RX_QUEUE_SIZE - 1)
        /\ (h + 1) % RX_QUEUE_SIZE = Wrap(h + 1, RX_QUEUE_SIZE)
        /\ Wrap(h + 1, RX_QUEUE_SIZE) \in 0 .. (RX_QUEUE_SIZE - 1)
    BY WrapNext, VethRecords DEF VethInv, VethTypes, V!Entries
  <1>4. /\ b \in V!Entries \cup {None} /\ vhyp.bufs \in Seq(V!Entries \cup {None})
        /\ Tail(vhyp.bufs) \in Seq(V!Entries \cup {None}) /\ vhyp.toggle \in BOOLEAN
    BY <1>1, VethRecords DEF VethInv, VethTypes
  <1>5. VethTypes'
    <2>1. vdata' \in [V!Entries -> VTags \cup {None}] /\ vwire' \in Seq(VTags)
      <3>1. vdata' \in [V!Entries -> VTags \cup {None}]
        BY <1>1 DEF VethInv, VethTypes
      <3>2. vwire' \in Seq(VTags)
        BY <1>1 DEF VethInv, VethTypes
      <3>3. QED
        BY <3>1, <3>2
    <2>2. vhyp' \in HypStates /\ vqueue' \in [V!Entries -> QueueEntries]
      <3>1. (IF h = RX_QUEUE_SIZE - 1 THEN ~vhyp.toggle ELSE vhyp.toggle) \in BOOLEAN
        BY <1>4
      <3>2. vhyp' \in HypStates
        <4>1. (h + 1) % RX_QUEUE_SIZE \in V!Entries /\ vhyp \in HypStates
          BY <1>3 DEF VethInv, VethTypes, V!Entries
        <4>2. QED
          BY <1>1, <1>4, <3>1, <4>1, HypUpdate
      <3>3. [toggle |-> vhyp.toggle, buf |-> b] \in QueueEntries
        BY <1>4 DEF QueueEntries
      <3>4. QED
        BY <1>1, <3>2, <3>3 DEF VethInv, VethTypes
    <2>3. QED
      BY <1>1, <2>1, <2>2 DEF VethInv, VethTypes
  <1>6. VethRegistered'
    BY <1>1, <1>2 DEF VethInv, VethRegistered
  <1>7. ASSUME vclean PROVE (VethLaps /\ VethBuffers /\ VethFrames)'
    <2> DEFINE n == Len(vwire)
               m == Len(vhyp.bufs)
               t == Tail(vhyp.bufs)
    <2>1. VethLaps /\ VethBuffers /\ VethFrames
      BY <1>2, <1>7 DEF VethInv, VethQueue
    <2>2. /\ m \in Nat /\ m > 0 /\ n \in Nat /\ m = RX_QUEUE_SIZE - n
          /\ h = VethAt(n) /\ vhyp.toggle = VethLap(n)
      BY <1>1, <1>4, <2>1 DEF VethLaps, VethInv, VethTypes
    <2>3. n \in 0 .. (RX_QUEUE_SIZE - 1) /\ m \in 1 .. RX_QUEUE_SIZE
      BY <2>2
    <2>4. /\ vindex \in 0 .. (RX_QUEUE_SIZE - 1)
          /\ \A k \in 0 .. RX_QUEUE_SIZE : VethAt(k) \in V!Entries
          /\ \A k, l \in 0 .. (RX_QUEUE_SIZE - 1) : VethAt(k) = VethAt(l) => k = l
      BY VethPositions
    <2>5. /\ Len(vwire') = n + 1 /\ vwire'[n + 1] = f /\ \A k \in 1 .. n : vwire'[k] = vwire[k]
      BY <1>1 DEF VethInv, VethTypes
    <2>6. /\ Len(t) = m - 1 /\ DOMAIN t = 1 .. (m - 1) /\ DOMAIN vhyp.bufs = 1 .. m
          /\ \A i \in 1 .. (m - 1) : t[i] = vhyp.bufs[i + 1]
          /\ b = vhyp.bufs[1] /\ 1 \in 1 .. m
      BY <1>1, <1>4, <2>3
    <2>7. b \in V!Entries /\ (\A k \in VethUnread : VethBuf(k) # b)
      BY <2>1, <2>6 DEF VethBuffers
    <2>8. \A k \in 0 .. RX_QUEUE_SIZE : VethAt(k)' = VethAt(k) /\ VethLap(k)' = VethLap(k)
      BY <1>1 DEF VethAt, VethLap
    <2>9. \A k \in 0 .. (RX_QUEUE_SIZE - 1) :
             vqueue'[VethAt(k)] = IF k = n THEN [toggle |-> VethLap(n), buf |-> b] ELSE vqueue[VethAt(k)]
      <3> SUFFICES ASSUME NEW k \in 0 .. (RX_QUEUE_SIZE - 1)
                   PROVE  vqueue'[VethAt(k)] = IF k = n THEN [toggle |-> VethLap(n), buf |-> b]
                                               ELSE vqueue[VethAt(k)]
        OBVIOUS
      <3>1. VethAt(k) \in V!Entries /\ (VethAt(k) = h <=> k = n)
        BY <2>2, <2>3, <2>4
      <3>2. vqueue \in [V!Entries -> QueueEntries]
        BY DEF VethInv, VethTypes
      <3>3. QED
        BY <1>1, <2>2, <3>1, <3>2
    <2>10. VethUnread' = 0 .. n /\ VethUnread = 0 .. (n - 1)
      BY <2>2, <2>5 DEF VethUnread
    <2>11. vhyp'.bufs = t /\ vhyp'.index = Wrap(h + 1, RX_QUEUE_SIZE)
           /\ vhyp'.toggle = (IF h = RX_QUEUE_SIZE - 1 THEN ~vhyp.toggle ELSE vhyp.toggle)
      <3>1. (IF h = RX_QUEUE_SIZE - 1 THEN ~vhyp.toggle ELSE vhyp.toggle) \in BOOLEAN
        BY <1>4
      <3>2. (h + 1) % RX_QUEUE_SIZE \in V!Entries /\ vhyp \in HypStates
        BY <1>3 DEF VethInv, VethTypes, V!Entries
      <3> DEFINE ix == (h + 1) % RX_QUEUE_SIZE
                 tg == IF h = RX_QUEUE_SIZE - 1 THEN ~vhyp.toggle ELSE vhyp.toggle
      <3>3. vhyp' = [vhyp EXCEPT !.bufs = t, !.index = ix, !.toggle = tg]
        BY <1>1
      <3>4. ix \in V!Entries /\ tg \in BOOLEAN /\ t \in Seq(V!Entries \cup {None})
        BY <1>4, <3>1, <3>2
      <3> HIDE DEF ix, tg, t
      <3>5. vhyp'.bufs = t /\ vhyp'.index = ix /\ vhyp'.toggle = tg
        <4>1. /\ [vhyp EXCEPT !.bufs = t, !.index = ix, !.toggle = tg].bufs = t
              /\ [vhyp EXCEPT !.bufs = t, !.index = ix, !.toggle = tg].index = ix
              /\ [vhyp EXCEPT !.bufs = t, !.index = ix, !.toggle = tg].toggle = tg
          <5>1. vhyp \in HypStates
            BY <3>2
          <5>2. QED
            BY <3>4, <5>1 DEF HypStates
        <4>2. QED
          BY <3>3, <4>1
      <3>6. QED
        BY <1>3, <3>5 DEF ix, tg
    <2> HIDE DEF n, m, t, b, h
    <2>12. \A k \in 0 .. n : VethBuf(k)' = (IF k = n THEN b ELSE VethBuf(k))
      BY <2>3, <2>8, <2>9 DEF VethBuf
    <2>13. VethLaps'
      <3>1. Len(vwire') <= RX_QUEUE_SIZE /\ Len(vhyp'.bufs) = RX_QUEUE_SIZE - Len(vwire')
        <4>1. n + 1 <= RX_QUEUE_SIZE /\ m - 1 = RX_QUEUE_SIZE - (n + 1)
          BY <2>2, <2>3
        <4>2. QED
          BY <2>5, <2>6, <2>11, <4>1
      <3>2. vhyp'.index = Wrap(vindex' + Len(vwire'), RX_QUEUE_SIZE)
        <4>1. vhyp'.index = Wrap(Wrap(vindex + n, RX_QUEUE_SIZE) + 1, RX_QUEUE_SIZE)
          BY <2>2, <2>11 DEF VethAt
        <4>2. vhyp'.index = Wrap(vindex + (n + 1), RX_QUEUE_SIZE)
          BY <2>3, <2>4, <4>1, WrapThenNext
        <4>3. QED
          BY <1>1, <2>5, <4>2
      <3>3. vhyp'.toggle = (IF vindex' + Len(vwire') < RX_QUEUE_SIZE THEN vtoggle' ELSE ~vtoggle')
        <4>1. vtoggle \in BOOLEAN
          BY DEF VethInv, VethTypes
        <4>2. h = Wrap(vindex + n, RX_QUEUE_SIZE)
                /\ vhyp.toggle = (IF vindex + n < RX_QUEUE_SIZE THEN vtoggle ELSE ~vtoggle)
          BY <2>2 DEF VethAt, VethLap
        <4>3. CASE h = RX_QUEUE_SIZE - 1
          <5>1. vindex + n < RX_QUEUE_SIZE /\ ~(vindex + (n + 1) < RX_QUEUE_SIZE)
            BY <2>3, <2>4, <4>2, <4>3 DEF Wrap
          <5>2. QED
            BY <1>1, <2>5, <2>11, <4>2, <4>3, <5>1
        <4>4. CASE h # RX_QUEUE_SIZE - 1
          <5>1. vindex + n < RX_QUEUE_SIZE <=> vindex + (n + 1) < RX_QUEUE_SIZE
            BY <2>3, <2>4, <4>2, <4>4 DEF Wrap
          <5>2. QED
            BY <1>1, <2>5, <2>11, <4>2, <4>4, <5>1
        <4>5. QED
          BY <4>3, <4>4
      <3>4. ASSUME NEW k \in 0 .. (RX_QUEUE_SIZE - 1)
            PROVE  vqueue'[VethAt(k)'].toggle = (IF k \in VethUnread' THEN VethLap(k)' ELSE ~VethLap(k)')
        <4>1. vqueue[VethAt(k)].toggle = (IF k \in VethUnread THEN VethLap(k) ELSE ~VethLap(k))
          BY <2>1 DEF VethLaps
        <4>2. VethAt(k)' = VethAt(k) /\ VethLap(k)' = VethLap(k)
          BY <2>8
        <4>3. CASE k = n
          BY <2>3, <2>9, <2>10, <4>2, <4>3
        <4>4. CASE k # n
          <5>1. k \in VethUnread <=> k \in VethUnread'
            BY <2>3, <2>10, <4>4
          <5>2. QED
            BY <2>9, <4>1, <4>2, <4>4, <5>1
        <4>5. QED
          BY <4>3, <4>4
      <3>5. QED
        BY <3>1, <3>2, <3>3, <3>4 DEF VethLaps, VethAt, VethLap
    <2>14. VethBuffers'
      <3>1. \A i \in 1 .. (m - 1) : i + 1 \in 1 .. m
        BY <2>3
      <3>2. \A i \in DOMAIN vhyp'.bufs : vhyp'.bufs[i] \in V!Entries
        BY <2>1, <2>6, <2>11, <3>1 DEF VethBuffers
      <3>3. \A k \in VethUnread' : VethBuf(k)' \in V!Entries
        BY <2>1, <2>3, <2>7, <2>10, <2>12 DEF VethBuffers
      <3>4. \A i, j \in DOMAIN vhyp'.bufs : vhyp'.bufs[i] = vhyp'.bufs[j] => i = j
        <4> SUFFICES ASSUME NEW i \in 1 .. (m - 1), NEW j \in 1 .. (m - 1), t[i] = t[j] PROVE i = j
          BY <2>6, <2>11
        <4>1. i + 1 = j + 1
          BY <2>1, <2>6, <3>1, SMTT(30) DEF VethBuffers
        <4>2. QED
          BY <4>1
      <3>5. \A k, l \in VethUnread' : VethBuf(k)' = VethBuf(l)' => k = l
        <4> SUFFICES ASSUME NEW k \in 0 .. n, NEW l \in 0 .. n, VethBuf(k)' = VethBuf(l)' PROVE k = l
          BY <2>10
        <4>1. CASE k = n /\ l = n
          BY <4>1
        <4>2. CASE k = n /\ l # n
          BY <2>3, <2>7, <2>10, <2>12, <4>2
        <4>3. CASE k # n /\ l = n
          BY <2>3, <2>7, <2>10, <2>12, <4>3
        <4>4. CASE k # n /\ l # n
          <5>1. k \in VethUnread /\ l \in VethUnread /\ VethBuf(k) = VethBuf(l)
            BY <2>3, <2>10, <2>12, <4>4
          <5>2. QED
            BY <2>1, <5>1 DEF VethBuffers
        <4>5. QED
          BY <4>1, <4>2, <4>3, <4>4
      <3>6. \A i \in DOMAIN vhyp'.bufs, k \in VethUnread' : vhyp'.bufs[i] # VethBuf(k)'
        <4> SUFFICES ASSUME NEW i \in 1 .. (m - 1), NEW k \in 0 .. n PROVE vhyp.bufs[i + 1] # VethBuf(k)'
          BY <2>6, <2>10, <2>11
        <4>1. i + 1 \in 1 .. m /\ i + 1 # 1
          BY <3>1
        <4>2. CASE k = n
          BY <2>1, <2>6, <2>12, <4>1, <4>2 DEF VethBuffers
        <4>3. CASE k # n
          <5>1. k \in VethUnread
            BY <2>3, <2>10, <4>3
          <5>2. QED
            BY <2>1, <2>6, <2>12, <4>1, <4>3, <5>1 DEF VethBuffers
        <4>4. QED
          BY <4>2, <4>3
      <3>7. ASSUME NEW c \in V!Entries
            PROVE  (\E i \in DOMAIN vhyp'.bufs : vhyp'.bufs[i] = c) \/ (\E k \in VethUnread' : VethBuf(k)' = c)
        <4>1. CASE \E i \in DOMAIN vhyp.bufs : vhyp.bufs[i] = c
          <5>1. PICK i \in 1 .. m : vhyp.bufs[i] = c
            BY <2>6, <4>1
          <5>2. CASE i = 1
            <6>1. PICK k \in 0 .. n : k = n
              BY <2>3
            <6>2. k \in VethUnread' /\ VethBuf(k)' = b /\ b = c
              BY <2>6, <2>10, <2>12, <5>1, <5>2, <6>1
            <6>3. QED
              BY <6>2
          <5>3. CASE i # 1
            <6>1. i - 1 \in 1 .. (m - 1) /\ (i - 1) + 1 = i
              BY <2>3, <5>3
            <6>2. QED
              BY <2>6, <2>11, <5>1, <6>1
          <5>4. QED
            BY <5>2, <5>3
        <4>2. CASE \E k \in VethUnread : VethBuf(k) = c
          <5>1. PICK k \in VethUnread : VethBuf(k) = c
            BY <4>2
          <5>2. k \in 0 .. n /\ k # n
            BY <2>3, <2>10, <5>1
          <5>3. QED
            BY <2>10, <2>12, <5>1, <5>2
        <4>3. QED
          BY <2>1, <4>1, <4>2 DEF VethBuffers
      <3>8. QED
        BY <3>2, <3>3, <3>4, <3>5, <3>6, <3>7 DEF VethBuffers
    <2>15. VethFrames'
      <3> SUFFICES ASSUME NEW k \in 0 .. n PROVE vdata'[VethBuf(k)'] = vwire'[k + 1]
        BY <2>10 DEF VethFrames
      <3>1. vdata \in [V!Entries -> VTags \cup {None}]
        BY DEF VethInv, VethTypes
      <3>2. CASE k = n
        BY <1>1, <2>5, <2>7, <2>12, <3>1, <3>2 DEF b
      <3>3. CASE k # n
        <4>1. k \in VethUnread /\ k + 1 \in 1 .. n
          BY <2>3, <2>10, <3>3
        <4>2. VethBuf(k) \in V!Entries /\ VethBuf(k) # b /\ vdata[VethBuf(k)] = vwire[k + 1]
          BY <2>1, <2>7, <4>1 DEF VethBuffers, VethFrames
        <4>3. vdata'[VethBuf(k)] = vdata[VethBuf(k)]
          BY <1>1, <3>1, <4>2 DEF b
        <4>4. QED
          BY <2>5, <2>12, <3>3, <4>1, <4>2, <4>3
      <3>4. QED
        BY <3>2, <3>3
    <2>16. QED
      BY <2>13, <2>14, <2>15
  <1>8. VethQueue'
    BY <1>1, <1>7 DEF VethQueue
  <1>9. QED
    BY <1>5, <1>6, <1>8 DEF VethInv

\* Every step of driver and hypervisor keeps the invariant of veth.
LEMMA VethStep == VethInv /\ [V!Next]_vvars => VethInv'
  <1> SUFFICES ASSUME VethInv, [V!Next]_vvars PROVE VethInv'
    OBVIOUS
  <1>1. CASE UNCHANGED vvars
    BY <1>1 DEF vvars, VethInv, VethTypes, VethRegistered, VethQueue, VethLaps, VethBuffers, VethFrames,
                VethAt, VethLap, VethBuf, VethUnread
  <1>2. CASE V!Next
    BY <1>2, VethOpens, VethStarts, VethReceives, VethCloses, VethArrives DEF V!Next
  <1>3. QED
    BY <1>1, <1>2

\* What the invariant of veth says of frames, buffers and a closed adapter.
LEMMA VethInvImplies == VethInv => V!RxIntact /\ V!RxConserved /\ V!QuietWhenClosed
  <1> SUFFICES ASSUME VethInv PROVE V!RxIntact /\ V!RxConserved /\ V!QuietWhenClosed
    OBVIOUS
  <1> USE VethConstants
  <1>1. V!QuietWhenClosed
    BY DEF V!QuietWhenClosed, VethInv, VethTypes, VethRegistered, V!Unregistered
  <1> DEFINE n == Len(vwire)
             m == Len(vhyp.bufs)
             unread == [k \in DOMAIN vwire |-> vqueue[(vindex + k - 1) % RX_QUEUE_SIZE].buf]
             held   == vhyp.bufs \o unread
  <1>2. ASSUME vpc = "open", vclean
        PROVE  /\ V!NewEntry <=> vwire # <<>>
               /\ \A k \in DOMAIN vwire : vdata[vqueue[(vindex + k - 1) % RX_QUEUE_SIZE].buf] = vwire[k]
               /\ Len(held) = RX_QUEUE_SIZE /\ {held[k] : k \in DOMAIN held} = V!Entries
    <2>1. VethLaps /\ VethBuffers /\ VethFrames
      BY <1>2 DEF VethInv, VethQueue
    <2>2. /\ vindex \in 0 .. (RX_QUEUE_SIZE - 1) /\ vtoggle \in BOOLEAN
          /\ n \in 0 .. RX_QUEUE_SIZE /\ m \in Nat /\ m = RX_QUEUE_SIZE - n
          /\ DOMAIN vwire = 1 .. n /\ DOMAIN vhyp.bufs = 1 .. m
          /\ vhyp.bufs \in Seq(V!Entries \cup {None})
      <3>1. /\ vindex \in 0 .. (RX_QUEUE_SIZE - 1) /\ vtoggle \in BOOLEAN /\ vwire \in Seq(VTags)
            /\ vhyp.bufs \in Seq(V!Entries \cup {None})
        BY DEF VethInv, VethTypes, HypStates, V!Entries
      <3>2. n \in Nat /\ m \in Nat /\ DOMAIN vwire = 1 .. n /\ DOMAIN vhyp.bufs = 1 .. m
        BY <3>1
      <3>3. n <= RX_QUEUE_SIZE /\ m = RX_QUEUE_SIZE - n
        BY <2>1 DEF VethLaps
      <3> HIDE DEF n, m
      <3>4. n \in 0 .. RX_QUEUE_SIZE
        BY <3>2, <3>3
      <3>5. QED
        BY <3>1, <3>2, <3>3, <3>4
    <2>3. V!NewEntry <=> vwire # <<>>
      <3>1. VethAt(0) = vindex /\ VethLap(0) = vtoggle
        BY <2>2 DEF VethAt, VethLap, Wrap
      <3>2. vqueue[VethAt(0)].toggle = (IF 0 \in VethUnread THEN VethLap(0) ELSE ~VethLap(0))
        BY <2>1 DEF VethLaps
      <3>3. 0 \in VethUnread <=> vwire # <<>>
        BY <2>2 DEF VethUnread, VethInv, VethTypes
      <3>4. QED
        BY <2>2, <3>1, <3>2, <3>3 DEF V!NewEntry
    <2>4. ASSUME NEW k \in 1 .. n
          PROVE  /\ k - 1 \in VethUnread
                 /\ vqueue[(vindex + k - 1) % RX_QUEUE_SIZE].buf = VethBuf(k - 1)
      <3>1. k \in 1 .. RX_QUEUE_SIZE /\ vindex + k - 1 = vindex + (k - 1) /\ k - 1 \in VethUnread
        BY <2>2 DEF VethUnread
      <3>2. (vindex + k - 1) % RX_QUEUE_SIZE = Wrap(vindex + k - 1, RX_QUEUE_SIZE)
        BY <2>2, <3>1, WrapAhead
      <3>3. QED
        BY <3>1, <3>2 DEF VethBuf, VethAt
    <2>5. \A k \in DOMAIN vwire : vdata[vqueue[(vindex + k - 1) % RX_QUEUE_SIZE].buf] = vwire[k]
      <3> SUFFICES ASSUME NEW k \in 1 .. n PROVE vdata[VethBuf(k - 1)] = vwire[k]
        BY <2>2, <2>4
      <3>1. (k - 1) + 1 = k
        OBVIOUS
      <3>2. vdata[VethBuf(k - 1)] = vwire[(k - 1) + 1]
        BY <2>1, <2>4 DEF VethFrames
      <3>3. QED
        BY <3>1, <3>2
    <2>6. \A k \in 1 .. n : unread[k] = VethBuf(k - 1)
      BY <2>2, <2>4
    <2>7. unread \in Seq(V!Entries) /\ Len(unread) = n /\ DOMAIN unread = 1 .. n
      <3>1. \A k \in 1 .. n : VethBuf(k - 1) \in V!Entries
        BY <2>1, <2>4 DEF VethBuffers
      <3>2. \A k \in 1 .. n : unread[k] \in V!Entries
        BY <2>6, <3>1
      <3>3. unread \in [1 .. n -> V!Entries]
        BY <2>2, <3>2
      <3>4. QED
        BY <2>2, <3>3
    <2> HIDE DEF unread
    <2>8. /\ Len(held) = m + n /\ DOMAIN held = 1 .. (m + n)
          /\ \A i \in 1 .. m : held[i] = vhyp.bufs[i]
          /\ \A k \in 1 .. n : held[m + k] = unread[k]
      <3>1. held = vhyp.bufs \o unread
        OBVIOUS
      <3>2. \A k \in 1 .. n : m + k \in 1 .. (m + n)
        BY <2>2
      <3>3. DOMAIN held = 1 .. (m + n) /\ Len(held) = m + n
        BY <2>2, <2>7, <3>1
      <3>4. \A i \in 1 .. m : held[i] = vhyp.bufs[i]
        BY <2>2, <2>7, <3>1
      <3>5. \A k \in 1 .. n : held[m + k] = unread[k]
        <4>1. vhyp.bufs \in Seq(V!Entries \cup {None}) /\ unread \in Seq(V!Entries) /\ Len(unread) = n
          BY <2>2, <2>7
        <4>2. \A k \in 1 .. Len(unread) : (vhyp.bufs \o unread)[Len(vhyp.bufs) + k] = unread[k]
          BY <4>1, ConcatAt
        <4>3. QED
          BY <4>1, <4>2
      <3>6. QED
        BY <3>3, <3>4, <3>5
    <2> HIDE DEF held
    <2>9. \A i \in 1 .. (m + n) : held[i] \in V!Entries
      <3> SUFFICES ASSUME NEW i \in 1 .. (m + n) PROVE held[i] \in V!Entries
        OBVIOUS
      <3>1. CASE i \in 1 .. m
        BY <2>1, <2>2, <2>8, <3>1 DEF VethBuffers
      <3>2. CASE i \notin 1 .. m
        <4>1. i - m \in 1 .. n /\ m + (i - m) = i
          BY <2>2, <3>2
        <4>2. held[i] = unread[i - m]
          BY <2>8, <4>1
        <4>3. QED
          BY <2>7, <4>1, <4>2
      <3>3. QED
        BY <3>1, <3>2
    <2>10. ASSUME NEW c \in V!Entries PROVE \E i \in 1 .. (m + n) : held[i] = c
      <3>1. CASE \E i \in DOMAIN vhyp.bufs : vhyp.bufs[i] = c
        BY <2>2, <2>8, <3>1
      <3>2. CASE \E k \in VethUnread : VethBuf(k) = c
        <4>1. PICK k \in VethUnread : VethBuf(k) = c
          BY <3>2
        <4>2. k + 1 \in 1 .. n /\ (k + 1) - 1 = k /\ m + (k + 1) \in 1 .. (m + n)
          BY <2>2, <4>1 DEF VethUnread
        <4>3. QED
          BY <2>6, <2>8, <4>1, <4>2
      <3>3. QED
        BY <2>1, <3>1, <3>2 DEF VethBuffers
    <2>11. QED
      <3>1. Len(held) = RX_QUEUE_SIZE
        BY <2>2, <2>8
      <3>2. {held[k] : k \in DOMAIN held} = V!Entries
        BY <2>8, <2>9, <2>10
      <3>3. QED
        BY <2>3, <2>5, <3>1, <3>2
  <1>3. QED
    BY <1>1, <1>2 DEF V!RxIntact, V!RxConserved

-----------------------------------------------------------------------------
(* Bcm57xx. *)

\* bcm57xx.c defines its rings longer than the number of its buffers.
LEMMA BcmConstants ==
    /\ RXPROD_RING_SIZE \in Nat \ {0} /\ TX_RING_SIZE \in Nat \ {0} /\ RXRET_RING_SIZE \in Nat \ {0}
    /\ MAX_RX_BUF \in Nat \ {0} /\ MAX_RX_BUF < RXPROD_RING_SIZE /\ MAX_RX_BUF < RXRET_RING_SIZE
    /\ MAX_TX_BUF \in Nat \ {0} /\ MAX_TX_BUF < TX_RING_SIZE
    /\ None \notin B!RxBufs /\ None \notin B!TxBufs
    /\ B!RetSize \in Nat \ {0} /\ MAX_RX_BUF < B!RetSize /\ B!RetSize <= 2 * RXRET_RING_SIZE
  <1>1. /\ RXPROD_RING_SIZE \in Nat \ {0} /\ TX_RING_SIZE \in Nat \ {0} /\ RXRET_RING_SIZE \in Nat \ {0}
        /\ MAX_RX_BUF \in Nat \ {0} /\ MAX_RX_BUF < RXPROD_RING_SIZE /\ MAX_RX_BUF < RXRET_RING_SIZE
        /\ MAX_TX_BUF \in Nat \ {0} /\ MAX_TX_BUF < TX_RING_SIZE
    BY NicAssumption DEF B!ConstantsOK
  <1>2. None \notin B!RxBufs /\ None \notin B!TxBufs
    BY <1>1, NicAssumption DEF B!ConstantsOK, B!RxBufs, B!TxBufs
  <1>3. B!RetSize = RXRET_RING_SIZE \/ B!RetSize = 2 * RXRET_RING_SIZE
    BY DEF B!RetSize
  <1>4. QED
    BY <1>1, <1>2, <1>3

\* The frame f was written to the buffer b and its descriptor to entry r of the return ring.
Filled(rx, rx2, size, r, b, f) ==
    /\ rx2.prod = rx.prod
    /\ r \in 0 .. (size - 1) => rx2.ret[r].buf = b
    /\ \A j \in 0 .. (size - 1) : j # r => rx2.ret[j] = rx.ret[j]
    /\ b \in B!RxBufs => rx2.buf[b] = f
    /\ \A j \in B!RxBufs : j # b => rx2.buf[j] = rx.buf[j]

\* A frame arrives: the first buffer offered becomes the last one filled.
LEMMA RxArrived ==
    ASSUME NEW size \in Nat \ {0}, MAX_RX_BUF < size, NEW w \in Seq(Frames), NEW f \in Frames,
           NEW rx, NEW dev, NEW rx2, NEW dev2,
           dev.rxcons \in 0 .. (RXPROD_RING_SIZE - 1), dev.retcons \in 0 .. (size - 1),
           RxHolds(rx, dev, size, w), dev.rxcons # dev.rxprod,
           Filled(rx, rx2, size, dev.retprod, rx.prod[dev.rxcons], f),
           dev2.rxcons = Wrap(dev.rxcons + 1, RXPROD_RING_SIZE), dev2.rxprod = dev.rxprod,
           dev2.retprod = Wrap(dev.retprod + 1, size), dev2.retcons = dev.retcons
    PROVE  RxHolds(rx2, dev2, size, Append(w, f)) /\ rx.prod[dev.rxcons] \in B!RxBufs
  <1> USE BcmConstants
  <1> USE DEF Filled
  <1> PICK c \in 0 .. (RXPROD_RING_SIZE - 1) : dev.rxcons = c
    OBVIOUS
  <1> PICK r \in 0 .. (size - 1) : dev.retcons = r
    OBVIOUS
  <1> PICK b : b = rx.prod[c]
    OBVIOUS
  <1> DEFINE n == Len(w)
             m == MAX_RX_BUF - n
             x == Append(w, f)
             fill  == [k \in 0 .. (n - 1) |-> RetBuf(rx, dev, size, k)]
             offer == [k \in 0 .. (m - 1) |-> ProdBuf(rx, dev, k)]
             fill2  == [k \in 0 .. n |-> RetBuf(rx2, dev2, size, k)]
             offer2 == [k \in 0 .. (m - 2) |-> ProdBuf(rx2, dev2, k)]
  <1>1. /\ n \in Nat /\ n <= MAX_RX_BUF
        /\ dev.retprod = Wrap(r + n, size)
        /\ dev.rxprod = Wrap(c + m, RXPROD_RING_SIZE)
        /\ Parted(fill, offer, B!RxBufs)
        /\ \A k \in 0 .. (n - 1) : rx.buf[RetBuf(rx, dev, size, k)] = w[k + 1]
    BY DEF RxHolds
  <1>2. m \in Nat /\ m <= MAX_RX_BUF 
    BY <1>1, SMTT(30) DEF BcmProdRing
  <1>3. m > 0
    <2>1. Wrap(c + 0, RXPROD_RING_SIZE) = c
      BY <1>2 DEF Wrap
    <2>2. m # 0
      BY <1>1, <2>1
    <2>3. QED
      BY <1>2, <2>2
  <1>4. /\ Len(x) = n + 1 /\ x[n + 1] = f /\ \A k \in 1 .. n : x[k] = w[k]
    OBVIOUS
  <1> HIDE DEF n, m, x
  <1>5. \A k \in 0 .. (size - 1) : /\ Wrap(r + k, size) \in 0 .. (size - 1)
                                   /\ Wrap(r + k, size) = dev.retprod => k = n
    <2>1. n \in 0 .. (size - 1)
      BY <1>1
    <2>2. ASSUME NEW k \in 0 .. (size - 1)
          PROVE  Wrap(r + k, size) \in 0 .. (size - 1) /\ (Wrap(r + k, size) = Wrap(r + n, size) => k = n)
      BY <2>1, SMTT(20) DEF Wrap
    <2>3. QED
      BY <1>1, <2>2
  <1>6. \A k \in 0 .. (n - 1) : RetBuf(rx2, dev2, size, k) = RetBuf(rx, dev, size, k)
    <2> SUFFICES ASSUME NEW k \in 0 .. (n - 1)
                 PROVE  rx2.ret[Wrap(r + k, size)] = rx.ret[Wrap(r + k, size)]
      BY DEF RetBuf
    <2>1. k \in 0 .. (size - 1) /\ k # n
      BY <1>1
    <2>2. QED
      BY <1>5, <2>1
  <1>7. \A k \in 0 .. n : k = n => RetBuf(rx2, dev2, size, k) = b
    <2> SUFFICES ASSUME NEW k \in 0 .. n, k = n
                 PROVE  rx2.ret[Wrap(r + k, size)].buf = b
      BY DEF RetBuf
    <2>1. k \in 0 .. (size - 1)
      BY <1>1
    <2>2. QED
      BY <1>1, <1>5, <2>1
  <1>8. ProdBuf(rx, dev, 0) = b
    <2>1. Wrap(c + 0, RXPROD_RING_SIZE) = c
      BY <1>2 DEF Wrap
    <2>2. QED
      BY <2>1 DEF ProdBuf
  <1>9. \A k \in 0 .. (m - 2) : ProdBuf(rx2, dev2, k) = ProdBuf(rx, dev, k + 1)
    <2> SUFFICES ASSUME NEW k \in 0 .. (m - 2) PROVE ProdBuf(rx2, dev2, k) = ProdBuf(rx, dev, k + 1)
      OBVIOUS
    <2>1. k \in 0 .. (RXPROD_RING_SIZE - 1)
      BY <1>2
    <2>2. Wrap(Wrap(c + 1, RXPROD_RING_SIZE) + k, RXPROD_RING_SIZE)
             = Wrap(c + (k + 1), RXPROD_RING_SIZE)
      BY <1>2, <2>1, SMTT(20) DEF Wrap
    <2>3. QED
      BY <2>2 DEF ProdBuf
  <1>10. Parted(fill2, offer2, B!RxBufs)
    <2>1. Parted(offer, fill, B!RxBufs)
      BY <1>1, PartedSwap
    <2>2. PICK m1 \in Nat : m = m1 + 1 /\ m1 = m - 1
      BY <1>2, <1>3
    <2>3. /\ DOMAIN offer = 0 .. m1 /\ DOMAIN fill = 0 .. (n - 1)
          /\ DOMAIN offer2 = 0 .. (m1 - 1) /\ DOMAIN fill2 = 0 .. n
      BY <2>2
    <2>4. \A k \in 0 .. (m1 - 1) : offer2[k] = offer[k + 1]
      BY <1>9, <2>2
    <2>5. \A k \in 0 .. (n - 1) : fill2[k] = fill[k]
      BY <1>1, <1>6
    <2>6. fill2[n] = offer[0]
      BY <1>1, <1>7, <1>8, <2>2
    <2> HIDE DEF offer, fill, offer2, fill2
    <2>7. Parted(offer2, fill2, B!RxBufs)
      BY <1>1, <2>1, <2>2, <2>3, <2>4, <2>5, <2>6, PartedMove
    <2>8. QED
      BY <2>7, PartedSwap
  <1>11. b \in B!RxBufs /\ \A k \in 0 .. (n - 1) : RetBuf(rx, dev, size, k) \in B!RxBufs /\ RetBuf(rx, dev, size, k) # b
    <2>1. 0 \in DOMAIN offer /\ offer[0] = b
      BY <1>2, <1>3, <1>8
    <2>2. \A k \in 0 .. (n - 1) : k \in DOMAIN fill /\ fill[k] = RetBuf(rx, dev, size, k)
      OBVIOUS
    <2> HIDE DEF offer, fill
    <2>3. QED
      BY <1>1, <2>1, <2>2 DEF Parted
  <1>12. ASSUME NEW k \in 0 .. n PROVE rx2.buf[RetBuf(rx2, dev2, size, k)] = x[k + 1]
    <2>2. CASE k = n
      BY <1>4, <1>7, <1>11, <2>2
    <2>3. CASE k # n
      <3>1. k \in 0 .. (n - 1) /\ k + 1 \in 1 .. n
        BY <1>1, <2>3
      <3>2. QED
        BY <1>1, <1>4, <1>6, <1>11, <3>1
    <2>4. QED
      BY <2>2, <2>3
  <1>13. dev2.retprod = Wrap(dev2.retcons + (n + 1), size)
    <2>1. n \in 0 .. (size - 1)
      BY <1>1
    <2>2. QED
      BY <1>1, <2>1, WrapThenNext
  <1>14. dev2.rxprod = Wrap(dev2.rxcons + (m - 1), RXPROD_RING_SIZE)
    <2>1. m - 1 \in 0 .. (RXPROD_RING_SIZE - 1) /\ (m - 1) + 1 = m
      BY <1>2, <1>3
    <2>2. QED
      BY <1>1, <1>2, <2>1, WrapFromNext
  <1>15. /\ Len(x) <= MAX_RX_BUF /\ MAX_RX_BUF - Len(x) = m - 1 /\ Len(x) - 1 = n
         /\ MAX_RX_BUF - Len(x) - 1 = m - 2
    <2>1. m = MAX_RX_BUF - n
      BY DEF m
    <2>2. QED
      BY <1>1, <1>3, <1>4, <2>1, SMTT(20)
  <1>16. RxHolds(rx2, dev2, size, x)
    BY <1>4, <1>10, <1>12, <1>13, <1>14, <1>15 DEF RxHolds
  <1>17. QED
    BY <1>11, <1>16 DEF x

\* The driver is done with a frame: its buffer becomes the last one offered.
LEMMA RxReturned ==
    ASSUME NEW size \in Nat \ {0}, MAX_RX_BUF < size, NEW w \in Seq(Frames), w # <<>>,
           NEW rx, NEW dev, NEW rx2, NEW dev2,
           dev.rxcons \in 0 .. (RXPROD_RING_SIZE - 1), dev.retcons \in 0 .. (size - 1),
           rx.prod \in [BcmProdRing -> B!RxBufs \cup {None}],
           rx.buf \in [B!RxBufs -> Frames \cup {None}],
           0 .. (size - 1) \subseteq DOMAIN rx.ret,
           RxHolds(rx, dev, size, w),
           rx2.prod = [rx.prod EXCEPT ![dev.rxprod] = rx.ret[dev.retcons].buf],
           rx2.ret = [rx.ret EXCEPT ![dev.retcons] = None],
           rx2.buf = [i \in B!RxBufs |-> IF i = rx.ret[dev.retcons].buf THEN None ELSE rx.buf[i]],
           dev2.rxprod = Wrap(dev.rxprod + 1, RXPROD_RING_SIZE), dev2.rxcons = dev.rxcons,
           dev2.retcons = Wrap(dev.retcons + 1, size), dev2.retprod = dev.retprod
    PROVE  RxHolds(rx2, dev2, size, Tail(w)) /\ rx.ret[dev.retcons].buf \in B!RxBufs
  <1> USE BcmConstants
  <1> PICK c \in 0 .. (RXPROD_RING_SIZE - 1) : dev.rxcons = c
    OBVIOUS
  <1> PICK r \in 0 .. (size - 1) : dev.retcons = r
    OBVIOUS
  <1> PICK b : b = rx.ret[r].buf
    OBVIOUS
  <1> PICK v : v = None
    OBVIOUS
  <1> DEFINE n == Len(w)
             m == MAX_RX_BUF - n
             x == Tail(w)
             fill  == [k \in 0 .. (n - 1) |-> RetBuf(rx, dev, size, k)]
             offer == [k \in 0 .. (m - 1) |-> ProdBuf(rx, dev, k)]
             fill2  == [k \in 0 .. (n - 2) |-> RetBuf(rx2, dev2, size, k)]
             offer2 == [k \in 0 .. m |-> ProdBuf(rx2, dev2, k)]
  <1>1. /\ n \in Nat /\ n > 0 /\ n <= MAX_RX_BUF
        /\ dev.retprod = Wrap(r + n, size)
        /\ dev.rxprod = Wrap(c + m, RXPROD_RING_SIZE)
        /\ Parted(fill, offer, B!RxBufs)
        /\ \A k \in 0 .. (n - 1) : rx.buf[RetBuf(rx, dev, size, k)] = w[k + 1]
    BY DEF RxHolds
  <1>2. /\ m \in Nat /\ m < MAX_RX_BUF 
        /\ m \in 0 .. (RXPROD_RING_SIZE - 1)
    BY <1>1, SMTT(30) DEF BcmProdRing
  <1>3. /\ Len(x) = n - 1 /\ \A k \in 0 .. (n - 2) : x[k + 1] = w[(k + 1) + 1]
    OBVIOUS
  <1> HIDE DEF n, m, x
  <1>4. RetBuf(rx, dev, size, 0) = b
    <2>1. Wrap(r + 0, size) = r
      BY DEF Wrap
    <2>2. QED
      BY <2>1 DEF RetBuf
  <1>5. \A k \in 0 .. (n - 2) : RetBuf(rx2, dev2, size, k) = RetBuf(rx, dev, size, k + 1)
    <2> SUFFICES ASSUME NEW k \in 0 .. (n - 2) PROVE RetBuf(rx2, dev2, size, k) = RetBuf(rx, dev, size, k + 1)
      OBVIOUS
    <2>1. k \in 0 .. (size - 1) /\ k + 1 \in 0 .. (size - 1) /\ k + 1 # 0 /\ 0 \in 0 .. (size - 1)
      BY <1>1
    <2>2. Wrap(r + (k + 1), size) # r /\ Wrap(r + (k + 1), size) \in 0 .. (size - 1)
      BY <2>1, SMTT(20) DEF Wrap
    <2>3. Wrap(r + (k + 1), size) \in DOMAIN rx.ret
      BY <2>2
    <2>5. Wrap(dev2.retcons + k, size) = Wrap(r + (k + 1), size)
      <3>1. Wrap(Wrap(r + 1, size) + k, size) = Wrap(r + (k + 1), size)
        BY <2>1, WrapFromNext
      <3>2. QED
        BY <3>1
    <2>6. QED
      BY <2>2, <2>3, <2>5 DEF RetBuf
  <1>6. \A k \in 0 .. (RXPROD_RING_SIZE - 1) :
            /\ Wrap(c + k, RXPROD_RING_SIZE) \in BcmProdRing
            /\ Wrap(c + k, RXPROD_RING_SIZE) = dev.rxprod => k = m
    <2>1. ASSUME NEW k \in 0 .. (RXPROD_RING_SIZE - 1)
          PROVE  /\ Wrap(c + k, RXPROD_RING_SIZE) \in 0 .. (RXPROD_RING_SIZE - 1)
                 /\ Wrap(c + k, RXPROD_RING_SIZE) = Wrap(c + m, RXPROD_RING_SIZE) => k = m
      BY <1>2, SMTT(20) DEF Wrap
    <2>2. QED
      BY <1>1, <2>1 DEF BcmProdRing
  <1>7. \A k \in 0 .. (m - 1) : ProdBuf(rx2, dev2, k) = ProdBuf(rx, dev, k)
    <2> SUFFICES ASSUME NEW k \in 0 .. (m - 1) PROVE ProdBuf(rx2, dev2, k) = ProdBuf(rx, dev, k)
      OBVIOUS
    <2>1. k \in 0 .. (RXPROD_RING_SIZE - 1) /\ k # m
      BY <1>2
    <2>2. QED
      BY <1>6, <2>1 DEF ProdBuf
  <1>8. \A k \in 0 .. m : k = m => ProdBuf(rx2, dev2, k) = b
    <2> SUFFICES ASSUME NEW k \in 0 .. m, k = m PROVE ProdBuf(rx2, dev2, k) = b
      OBVIOUS
    <2>1. Wrap(c + k, RXPROD_RING_SIZE) = dev.rxprod /\ dev.rxprod \in BcmProdRing
      <3>1. k \in 0 .. (RXPROD_RING_SIZE - 1)
        BY <1>2
      <3>2. Wrap(c + k, RXPROD_RING_SIZE) = dev.rxprod
        BY <1>1
      <3>3. Wrap(c + k, RXPROD_RING_SIZE) \in BcmProdRing
        BY <1>6, <3>1
      <3>4. QED
        BY <3>2, <3>3
    <2>2. QED
      BY <2>1 DEF ProdBuf
  <1>9. Parted(fill2, offer2, B!RxBufs)
    <2>1. PICK n1 \in Nat : n = n1 + 1 /\ n1 = n - 1
      BY <1>1
    <2>2. /\ DOMAIN fill = 0 .. n1 /\ DOMAIN offer = 0 .. (m - 1)
          /\ DOMAIN fill2 = 0 .. (n1 - 1) /\ DOMAIN offer2 = 0 .. m
      BY <2>1
    <2>3. \A k \in 0 .. (n1 - 1) : fill2[k] = fill[k + 1]
      BY <1>5, <2>1
    <2>4. \A k \in 0 .. (m - 1) : offer2[k] = offer[k]
      BY <1>2, <1>7
    <2>5. offer2[m] = fill[0]
      BY <1>2, <1>4, <1>8, <2>1
    <2> HIDE DEF offer, fill, offer2, fill2
    <2>6. QED
      BY <1>1, <1>2, <2>1, <2>2, <2>3, <2>4, <2>5, PartedMove
  <1>10. b \in B!RxBufs /\ \A k \in 0 .. (n - 2) : RetBuf(rx, dev, size, k + 1) \in B!RxBufs /\ RetBuf(rx, dev, size, k + 1) # b
    <2>1. 0 \in DOMAIN fill /\ fill[0] = b
      BY <1>1, <1>4
    <2>2. \A k \in 0 .. (n - 2) : k + 1 \in DOMAIN fill /\ k + 1 # 0 /\ fill[k + 1] = RetBuf(rx, dev, size, k + 1)
      BY <1>1
    <2> HIDE DEF offer, fill
    <2>3. QED
      BY <1>1, <2>1, <2>2 DEF Parted
  <1>11. ASSUME NEW k \in 0 .. (n - 2) PROVE rx2.buf[RetBuf(rx2, dev2, size, k)] = x[k + 1]
    <2>1. k + 1 \in 0 .. (n - 1)
      BY <1>1
    <2>2. rx2.buf[RetBuf(rx, dev, size, k + 1)] = rx.buf[RetBuf(rx, dev, size, k + 1)]
      BY <1>10
    <2>3. QED
      BY <1>1, <1>3, <1>5, <2>1, <2>2
  <1>12. dev2.retprod = Wrap(dev2.retcons + (n - 1), size)
    <2>1. n - 1 \in 0 .. (size - 1) /\ (n - 1) + 1 = n
      BY <1>1
    <2>2. QED
      BY <1>1, <2>1, WrapFromNext
  <1>13. dev2.rxprod = Wrap(dev2.rxcons + (m + 1), RXPROD_RING_SIZE)
    BY <1>1, <1>2, WrapThenNext
  <1>14. /\ Len(x) <= MAX_RX_BUF /\ MAX_RX_BUF - Len(x) = m + 1 /\ Len(x) - 1 = n - 2
         /\ MAX_RX_BUF - Len(x) - 1 = m
    <2>1. m = MAX_RX_BUF - n
      BY DEF m
    <2>2. QED
      BY <1>1, <1>3, <2>1, SMTT(40)
  <1>15. RxHolds(rx2, dev2, size, x)
    BY <1>3, <1>9, <1>11, <1>12, <1>13, <1>14 DEF RxHolds
  <1>16. QED
    BY <1>10, <1>15 DEF x

\* Where the descriptors are after their start has moved from st by s: the first ones
\* stayed, the last s ones were copied to the end.
SendOffset(n, max, st, s, k) == (Wrap(Wrap(st + s, n) + k, n) + n - Wrap(st + max, n)) % n

\* Where a send descriptor is found after s of them went back to the free ones.
LEMMA SendMoved ==
    ASSUME NEW n \in Nat \ {0}, NEW max \in Nat \ {0}, max < n, NEW st \in 0 .. (n - 1),
           NEW s \in 0 .. max, NEW k \in 0 .. (max - 1)
    PROVE  /\ s + k < max => /\ ~(SendOffset(n, max, st, s, k) < s)
                             /\ Wrap(Wrap(st + s, n) + k, n) = Wrap(st + (s + k), n)
           /\ s + k >= max => /\ SendOffset(n, max, st, s, k) = s + k - max
                              /\ SendOffset(n, max, st, s, k) < s
                              /\ (st + SendOffset(n, max, st, s, k)) % n = Wrap(st + (s + k - max), n)
  <1> DEFINE stop == Wrap(st + max, n)
             i == Wrap(Wrap(st + s, n) + k, n)
             d == SendOffset(n, max, st, s, k)
  <1>0. stop \in 0 .. (n - 1) /\ i \in 0 .. (n - 1)
    BY DEF Wrap
  <1>1. d = Wrap(i + n - stop, n)
    BY <1>0, WrapDistance DEF SendOffset
  <1> HIDE DEF d
  <1>2. CASE s + k < max
    <2>1. ~(d < s) /\ i = Wrap(st + (s + k), n)
      BY <1>1, <1>2, SMTT(20) DEF Wrap
    <2>2. QED
      BY <1>2, <2>1 DEF d
  <1>3. CASE s + k >= max
    <2>1. d = s + k - max
      BY <1>1, <1>3, SMTT(20) DEF Wrap
    <2>2. st + d \in 0 .. (2 * n - 1)
      BY <1>3, <2>1
    <2>3. (st + d) % n = Wrap(st + d, n)
      BY <2>2, WrapMod
    <2>4. d < s
      BY <2>1
    <2>5. QED
      BY <1>3, <2>1, <2>3, <2>4 DEF d
  <1>4. QED
    BY <1>2, <1>3

\* The controller sends the oldest packet.
LEMMA TxSent ==
    ASSUME NEW tx, NEW tx2, NEW q \in Seq(Packets), NEW cons, NEW prod, NEW prod2,
           NEW st \in 0 .. (TX_RING_SIZE - 1), tx.start = st, NEW a \in 0 .. MAX_TX_BUF, tx.avail = a,
           tx.buf \in [B!TxBufs -> Packets \cup {None}],
           TxHolds(tx, cons, prod, q), cons # prod,
           tx2.ring = tx.ring, tx2.start = st, tx2.stop = tx.stop, tx2.avail = a,
           tx2.buf = [b \in B!TxBufs |-> IF b = tx.ring[cons] THEN None ELSE tx.buf[b]]
    PROVE  TxHolds(tx2, Wrap(cons + 1, TX_RING_SIZE), prod, Tail(q)) /\ q # <<>>
  <1> USE BcmConstants
  <1> DEFINE s == SentCount(tx, q)
             n == Len(q)
             x == Tail(q)
  <1>1. /\ s >= 0 /\ cons = Wrap(st + s, TX_RING_SIZE) /\ prod = Wrap(st + (s + n), TX_RING_SIZE)
        /\ tx.stop = Wrap(st + MAX_TX_BUF, TX_RING_SIZE)
        /\ \A k \in B!TxBufs : SendBuf(tx, k) \in B!TxBufs
        /\ \A k, l \in B!TxBufs : SendBuf(tx, k) = SendBuf(tx, l) => k = l
        /\ \A k \in 0 .. (n - 1) : tx.buf[SendBuf(tx, s + k)] = q[k + 1]
    BY DEF TxHolds
  <1>2. s \in Nat /\ n \in Nat /\ s = MAX_TX_BUF - a - n
    BY <1>1 DEF SentCount
  <1>3. n > 0 /\ q # <<>>
    <2>1. n # 0
      BY <1>1, <1>2
    <2>2. QED
      BY <1>2, <2>1
  <1>4. Len(x) = n - 1 /\ \A k \in 0 .. (n - 2) : x[k + 1] = q[(k + 1) + 1]
    BY <1>3
  <1>5. SentCount(tx2, x) = s + 1
    <2>1. SentCount(tx2, x) = MAX_TX_BUF - a - (n - 1)
      BY <1>4 DEF SentCount
    <2> HIDE DEF s, n, x
    <2>2. QED
      BY <1>2, <2>1
  <1> HIDE DEF s, n, x
  <1>6. \A k : SendBuf(tx2, k) = SendBuf(tx, k)
    BY DEF SendBuf
  <1>7. Wrap(cons + 1, TX_RING_SIZE) = Wrap(st + (s + 1), TX_RING_SIZE)
    <2>1. s \in 0 .. (TX_RING_SIZE - 1)
      BY <1>2
    <2>2. QED
      BY <1>1, <2>1, WrapThenNext
  <1>8. prod = Wrap(st + ((s + 1) + (n - 1)), TX_RING_SIZE)
    <2>1. (s + 1) + (n - 1) = s + n
      BY <1>2
    <2>2. QED
      BY <1>1, <2>1
  <1>9. ASSUME NEW k \in 0 .. (n - 2) PROVE tx2.buf[SendBuf(tx2, (s + 1) + k)] = x[k + 1]
    <2>1. /\ s \in B!TxBufs /\ s + (k + 1) \in B!TxBufs /\ s + (k + 1) # s /\ k + 1 \in 0 .. (n - 1)
          /\ (s + 1) + k = s + (k + 1)
      BY <1>2 DEF B!TxBufs
    <2>2. tx.ring[cons] = SendBuf(tx, s)
      BY <1>1 DEF SendBuf
    <2>3. SendBuf(tx, s + (k + 1)) \in B!TxBufs /\ SendBuf(tx, s + (k + 1)) # tx.ring[cons]
      BY <1>1, <2>1, <2>2
    <2>4. tx.buf[SendBuf(tx, s + (k + 1))] = q[(k + 1) + 1]
      BY <1>1, <2>1
    <2>5. QED
      BY <1>4, <1>6, <2>1, <2>3, <2>4
  <1>10. (n - 1) - 1 = n - 2 /\ s + 1 >= 0
    BY <1>2
  <1>11. TxHolds(tx2, Wrap(cons + 1, TX_RING_SIZE), prod, x)
    BY <1>1, <1>4, <1>5, <1>6, <1>7, <1>8, <1>9, <1>10 DEF TxHolds
  <1>12. QED
    BY <1>3, <1>11 DEF x

\* The packet p was written to the buffer of entry prod.
Queued(tx, tx2, prod, p) ==
    /\ tx2.ring = tx.ring /\ tx2.start = tx.start /\ tx2.stop = tx.stop /\ tx2.avail = tx.avail - 1
    /\ tx2.buf = [tx.buf EXCEPT ![tx.ring[prod]] = p]

\* The first c descriptors were moved to the end, which leaves cons the first.
Moved(tx, tx2, cons, c) ==
    /\ c = (cons + TX_RING_SIZE - tx.start) % TX_RING_SIZE
    /\ tx2.ring = [i \in BcmSendRing |->
                     IF (i + TX_RING_SIZE - tx.stop) % TX_RING_SIZE < c
                     THEN tx.ring[(tx.start + ((i + TX_RING_SIZE - tx.stop) % TX_RING_SIZE)) % TX_RING_SIZE]
                     ELSE tx.ring[i]]
    /\ tx2.start = cons /\ tx2.stop = (tx.stop + c) % TX_RING_SIZE /\ tx2.avail = tx.avail + c
    /\ tx2.buf = tx.buf

\* The driver queues a packet.
LEMMA TxQueued ==
    ASSUME NEW tx, NEW tx2, NEW q \in Seq(Packets), NEW p \in Packets, NEW cons, NEW prod,
           NEW st \in 0 .. (TX_RING_SIZE - 1), tx.start = st, NEW a \in 1 .. MAX_TX_BUF, tx.avail = a,
           tx.buf \in [B!TxBufs -> Packets \cup {None}],
           TxHolds(tx, cons, prod, q), Queued(tx, tx2, prod, p)
    PROVE  /\ TxHolds(tx2, cons, Wrap(prod + 1, TX_RING_SIZE), Append(q, p))
           /\ tx.ring[prod] \in B!TxBufs
  <1> USE DEF Queued
  <1> USE BcmConstants
  <1> DEFINE s == SentCount(tx, q)
             n == Len(q)
             x == Append(q, p)
  <1>1. /\ s >= 0 /\ cons = Wrap(st + s, TX_RING_SIZE) /\ prod = Wrap(st + (s + n), TX_RING_SIZE)
        /\ tx.stop = Wrap(st + MAX_TX_BUF, TX_RING_SIZE)
        /\ \A k \in B!TxBufs : SendBuf(tx, k) \in B!TxBufs
        /\ \A k, l \in B!TxBufs : SendBuf(tx, k) = SendBuf(tx, l) => k = l
        /\ \A k \in 0 .. (n - 1) : tx.buf[SendBuf(tx, s + k)] = q[k + 1]
    BY DEF TxHolds
  <1>2. s \in Nat /\ n \in Nat /\ s = MAX_TX_BUF - a - n
    BY <1>1 DEF SentCount
  <1>3. Len(x) = n + 1 /\ x[n + 1] = p /\ \A k \in 1 .. n : x[k] = q[k]
    OBVIOUS
  <1>4. SentCount(tx2, x) = s
    BY <1>2, <1>3 DEF SentCount
  <1> HIDE DEF s, n, x
  <1>5. \A k : SendBuf(tx2, k) = SendBuf(tx, k)
    BY DEF SendBuf
  <1>6. s + n \in B!TxBufs /\ tx.ring[prod] = SendBuf(tx, s + n)
    BY <1>1, <1>2 DEF B!TxBufs, SendBuf
  <1>7. Wrap(prod + 1, TX_RING_SIZE) = Wrap(st + (s + (n + 1)), TX_RING_SIZE)
    <2>1. s + n \in 0 .. (TX_RING_SIZE - 1) /\ (s + n) + 1 = s + (n + 1)
      BY <1>2
    <2>2. QED
      BY <1>1, <2>1, WrapThenNext
  <1>8. ASSUME NEW k \in 0 .. n PROVE tx2.buf[SendBuf(tx2, s + k)] = x[k + 1]
    <2>1. s + k \in B!TxBufs /\ SendBuf(tx, s + k) \in B!TxBufs
      <3>1. s + k \in B!TxBufs
        BY <1>2 DEF B!TxBufs
      <3>2. QED
        BY <1>1, <3>1
    <2>2. CASE k = n
      BY <1>3, <1>5, <1>6, <2>1, <2>2
    <2>3. CASE k # n
      <3>1. k \in 0 .. (n - 1) /\ k + 1 \in 1 .. n /\ s + k # s + n
        BY <1>2, <2>3
      <3>2. SendBuf(tx, s + k) # tx.ring[prod]
        BY <1>1, <1>6, <2>1, <3>1
      <3>3. QED
        BY <1>1, <1>3, <1>5, <2>1, <3>1, <3>2
    <2>4. QED
      BY <2>2, <2>3
  <1>9. (n + 1) - 1 = n
    BY <1>2
  <1>10. TxHolds(tx2, cons, Wrap(prod + 1, TX_RING_SIZE), x)
    BY <1>1, <1>3, <1>4, <1>5, <1>7, <1>8, <1>9 DEF TxHolds
  <1>11. QED
    BY <1>1, <1>6, <1>10 DEF x

\* The driver takes back the descriptors of what has been sent.
LEMMA TxReclaimed ==
    ASSUME NEW tx, NEW tx2, NEW q \in Seq(Packets), NEW cons, NEW prod, NEW c,
           tx.start \in 0 .. (TX_RING_SIZE - 1), tx.avail \in 0 .. MAX_TX_BUF,
           TxHolds(tx, cons, prod, q), Moved(tx, tx2, cons, c)
    PROVE  TxHolds(tx2, cons, prod, q) /\ c \in Nat /\ tx.avail + c = MAX_TX_BUF - Len(q)
  <1> PICK st \in 0 .. (TX_RING_SIZE - 1) : tx.start = st
    OBVIOUS
  <1> PICK a \in 0 .. MAX_TX_BUF : tx.avail = a
    OBVIOUS
  <1> USE DEF Moved
  <1> USE BcmConstants
  <1> DEFINE s == SentCount(tx, q)
             n == Len(q)
  <1>1. /\ s >= 0 /\ cons = Wrap(st + s, TX_RING_SIZE) /\ prod = Wrap(st + (s + n), TX_RING_SIZE)
        /\ tx.stop = Wrap(st + MAX_TX_BUF, TX_RING_SIZE)
        /\ \A k \in B!TxBufs : SendBuf(tx, k) \in B!TxBufs
        /\ \A k, l \in B!TxBufs : SendBuf(tx, k) = SendBuf(tx, l) => k = l
        /\ \A k \in 0 .. (n - 1) : tx.buf[SendBuf(tx, s + k)] = q[k + 1]
    BY DEF TxHolds
  <1>2. s \in Nat /\ n \in Nat /\ s = MAX_TX_BUF - a - n /\ s \in 0 .. MAX_TX_BUF
    BY <1>1 DEF SentCount
  <1> HIDE DEF s, n
  <1>3. c = s
    <2>1. s \in 0 .. (TX_RING_SIZE - 1)
      BY <1>2
    <2>2. QED
      BY <1>1, <2>1, RingLength
  <1>4. SentCount(tx2, q) = 0 /\ n = Len(q) /\ a + c = MAX_TX_BUF - n
    <2>1. n = Len(q)
      BY DEF n
    <2>2. a + c = MAX_TX_BUF - n
      BY <1>2, <1>3
    <2>3. QED
      BY <1>2, <2>1, <2>2 DEF SentCount
  <1>5. PICK cs \in 0 .. (TX_RING_SIZE - 1) : cs = cons
    <2>1. s \in 0 .. TX_RING_SIZE
      BY <1>2
    <2>2. QED
      BY <1>1, <2>1, WrapIn
  <1>6. PICK stop \in 0 .. (TX_RING_SIZE - 1) : stop = tx.stop
    <2>1. MAX_TX_BUF \in 0 .. TX_RING_SIZE
      OBVIOUS
    <2>2. QED
      BY <1>1, <2>1, WrapIn
  <1>7. ASSUME NEW k \in B!TxBufs
        PROVE  /\ s + k < MAX_TX_BUF => SendBuf(tx2, k) = SendBuf(tx, s + k)
               /\ s + k >= MAX_TX_BUF => SendBuf(tx2, k) = SendBuf(tx, s + k - MAX_TX_BUF)
    <2>1. k \in 0 .. (MAX_TX_BUF - 1) /\ k \in 0 .. TX_RING_SIZE
      BY DEF B!TxBufs
    <2>2. PICK i \in 0 .. (TX_RING_SIZE - 1) : i = Wrap(cs + k, TX_RING_SIZE)
      BY <2>1, WrapIn
    <2> DEFINE d == (i + TX_RING_SIZE - stop) % TX_RING_SIZE
    <2>3. /\ s + k < MAX_TX_BUF => ~(d < s) /\ i = Wrap(st + (s + k), TX_RING_SIZE)
          /\ s + k >= MAX_TX_BUF => /\ d = s + k - MAX_TX_BUF /\ d < s
                                    /\ (st + d) % TX_RING_SIZE = Wrap(st + (s + k - MAX_TX_BUF), TX_RING_SIZE)
      <3>1. i = Wrap(Wrap(st + s, TX_RING_SIZE) + k, TX_RING_SIZE)
        BY <1>1, <1>5, <2>2
      <3>2. stop = Wrap(st + MAX_TX_BUF, TX_RING_SIZE)
        BY <1>1, <1>6
      <3>3. d = SendOffset(TX_RING_SIZE, MAX_TX_BUF, st, s, k)
        BY <3>1, <3>2 DEF SendOffset
      <3> HIDE DEF d
      <3>4. /\ s + k < MAX_TX_BUF =>
                  /\ ~(SendOffset(TX_RING_SIZE, MAX_TX_BUF, st, s, k) < s)
                  /\ Wrap(Wrap(st + s, TX_RING_SIZE) + k, TX_RING_SIZE) = Wrap(st + (s + k), TX_RING_SIZE)
            /\ s + k >= MAX_TX_BUF =>
                  /\ SendOffset(TX_RING_SIZE, MAX_TX_BUF, st, s, k) = s + k - MAX_TX_BUF
                  /\ SendOffset(TX_RING_SIZE, MAX_TX_BUF, st, s, k) < s
                  /\ (st + SendOffset(TX_RING_SIZE, MAX_TX_BUF, st, s, k)) % TX_RING_SIZE
                        = Wrap(st + (s + k - MAX_TX_BUF), TX_RING_SIZE)
        BY <1>2, <2>1, SendMoved
      <3>5. QED
        BY <3>1, <3>3, <3>4
    <2>4. tx2.ring[i] = (IF d < s THEN tx.ring[(st + d) % TX_RING_SIZE] ELSE tx.ring[i])
      BY <1>3, <1>6 DEF BcmSendRing
    <2> HIDE DEF d
    <2>5. SendBuf(tx2, k) = tx2.ring[i]
      BY <1>5, <2>2 DEF SendBuf
    <2>6. QED
      BY <2>3, <2>4, <2>5 DEF SendBuf
  <1>8. ASSUME NEW k \in B!TxBufs
        PROVE  \E j \in B!TxBufs : /\ SendBuf(tx2, k) = SendBuf(tx, j)
                                   /\ j = (IF s + k < MAX_TX_BUF THEN s + k ELSE s + k - MAX_TX_BUF)
    <2>1. CASE s + k < MAX_TX_BUF
      <3>1. s + k \in B!TxBufs
        BY <1>2, <2>1, SMTT(30) DEF B!TxBufs
      <3>2. QED
        BY <1>7, <2>1, <3>1
    <2>2. CASE ~(s + k < MAX_TX_BUF)
      <3>1. s + k - MAX_TX_BUF \in B!TxBufs /\ s + k >= MAX_TX_BUF
        BY <1>2, <2>2 DEF B!TxBufs
      <3>2. QED
        BY <1>7, <2>2, <3>1
    <2>3. QED
      BY <2>1, <2>2
  <1>9. \A k \in B!TxBufs : SendBuf(tx2, k) \in B!TxBufs
    BY <1>1, <1>8
  <1>10. ASSUME NEW k \in B!TxBufs, NEW l \in B!TxBufs, SendBuf(tx2, k) = SendBuf(tx2, l) PROVE k = l
    <2>1. PICK j \in B!TxBufs : /\ SendBuf(tx2, k) = SendBuf(tx, j)
                                /\ j = (IF s + k < MAX_TX_BUF THEN s + k ELSE s + k - MAX_TX_BUF)
      BY <1>8
    <2>2. PICK h \in B!TxBufs : /\ SendBuf(tx2, l) = SendBuf(tx, h)
                                /\ h = (IF s + l < MAX_TX_BUF THEN s + l ELSE s + l - MAX_TX_BUF)
      BY <1>8
    <2>3. j = h
      BY <1>1, <1>10, <2>1, <2>2
    <2>4. QED
      BY <1>2, <2>1, <2>2, <2>3 DEF B!TxBufs
  <1>11. ASSUME NEW k \in 0 .. (n - 1) PROVE tx2.buf[SendBuf(tx2, 0 + k)] = q[k + 1]
    <2>1. k \in B!TxBufs /\ s + k < MAX_TX_BUF /\ 0 + k = k
      BY <1>2 DEF B!TxBufs
    <2>2. QED
      BY <1>1, <1>7, <2>1
  <1>12. cons = Wrap(cons + 0, TX_RING_SIZE)
    BY <1>5 DEF Wrap
  <1>13. prod = Wrap(cons + (0 + n), TX_RING_SIZE)
    BY <1>1, <1>2 DEF Wrap
  <1>14. tx2.stop = Wrap(cons + MAX_TX_BUF, TX_RING_SIZE)
    <2>1. stop + s \in 0 .. (2 * TX_RING_SIZE - 1)
      BY <1>2
    <2>2. (stop + s) % TX_RING_SIZE = Wrap(stop + s, TX_RING_SIZE)
      BY <2>1, WrapMod
    <2>3. stop = Wrap(st + MAX_TX_BUF, TX_RING_SIZE) /\ cons = Wrap(st + s, TX_RING_SIZE)
      BY <1>1, <1>6
    <2>4. Wrap(Wrap(st + MAX_TX_BUF, TX_RING_SIZE) + s, TX_RING_SIZE)
             = Wrap(Wrap(st + s, TX_RING_SIZE) + MAX_TX_BUF, TX_RING_SIZE)
      BY <1>2 DEF Wrap
    <2>5. QED
      BY <1>3, <1>6, <2>2, <2>3, <2>4
  <1>15. QED
    BY <1>3, <1>2, <1>4, <1>9, <1>10, <1>11, <1>12, <1>13, <1>14 DEF TxHolds

-----------------------------------------------------------------------------

\* A controller after reset, and what the driver and the controller change in its state.
LEMMA BcmDeadRecord ==
    ASSUME NEW no, NEW yes, NEW z
    PROVE  [[master |-> no, engines |-> no, rings |-> no, rxprod |-> z, rxcons |-> z,
             retprod |-> z, retcons |-> z, txprod |-> z, txcons |-> z] EXCEPT !.master = yes]
           = [master |-> yes, engines |-> no, rings |-> no, rxprod |-> z, rxcons |-> z,
              retprod |-> z, retcons |-> z, txprod |-> z, txcons |-> z]
  OBVIOUS

\* The adapter after a reset, with or without bus mastering.
LEMMA BcmDead ==
    ASSUME NEW d, d = B!DeadDevice \/ d = [B!DeadDevice EXCEPT !.master = TRUE]
    PROVE  /\ d \in BcmDevs
           /\ d.rxprod = 0 /\ d.rxcons = 0 /\ d.retprod = 0 /\ d.retcons = 0 /\ d.txprod = 0 /\ d.txcons = 0
  <1>1. 0 \in BcmProdRing /\ 0 \in BcmSendRing /\ 0 \in Nat
    BY BcmConstants DEF BcmProdRing, BcmSendRing
  <1>2. ASSUME NEW yes \in BOOLEAN, NEW no \in BOOLEAN,
               d = [master |-> yes, engines |-> no, rings |-> no, rxprod |-> 0, rxcons |-> 0,
                    retprod |-> 0, retcons |-> 0, txprod |-> 0, txcons |-> 0]
        PROVE  /\ d \in BcmDevs
               /\ d.rxprod = 0 /\ d.rxcons = 0 /\ d.retprod = 0 /\ d.retcons = 0 /\ d.txprod = 0 /\ d.txcons = 0
    BY <1>1, <1>2 DEF BcmDevs
  <1>3. d = [master |-> FALSE, engines |-> FALSE, rings |-> FALSE, rxprod |-> 0, rxcons |-> 0,
             retprod |-> 0, retcons |-> 0, txprod |-> 0, txcons |-> 0]
        \/ d = [master |-> TRUE, engines |-> FALSE, rings |-> FALSE, rxprod |-> 0, rxcons |-> 0,
                retprod |-> 0, retcons |-> 0, txprod |-> 0, txcons |-> 0]
    BY BcmDeadRecord, Zenon DEF B!DeadDevice
  <1>4. FALSE \in BOOLEAN /\ TRUE \in BOOLEAN
    OBVIOUS
  <1>5. QED
    BY <1>2, <1>3, <1>4, Zenon

\* The registers keep their types, whichever one is written.
LEMMA BcmUpdates ==
    ASSUME NEW d \in BcmDevs
    PROVE  /\ \A b \in BOOLEAN : /\ [d EXCEPT !.master = b] \in BcmDevs
                                 /\ [d EXCEPT !.engines = b] \in BcmDevs
                                 /\ [d EXCEPT !.rings = b] \in BcmDevs
                                 /\ [d EXCEPT !.rings = b].rings = b
           /\ \A p \in BcmProdRing, n \in Nat :
                 /\ [d EXCEPT !.rxprod = p] \in BcmDevs
                 /\ [d EXCEPT !.rxprod = p, !.retcons = n] \in BcmDevs
                 /\ [d EXCEPT !.rxcons = p, !.retprod = n] \in BcmDevs
           /\ \A t \in BcmSendRing : /\ [d EXCEPT !.txprod = t] \in BcmDevs
                                     /\ [d EXCEPT !.txcons = t] \in BcmDevs
           /\ d.rxprod \in BcmProdRing /\ d.rxcons \in BcmProdRing /\ d.retprod \in Nat /\ d.retcons \in Nat
           /\ d.txprod \in BcmSendRing /\ d.txcons \in BcmSendRing
           /\ d.rings \in BOOLEAN
  BY DEF BcmDevs

\* The closed bcm57xx satisfies its invariant.
LEMMA BcmInitially == B!Init => BcmInv
  <1> SUFFICES ASSUME B!Init PROVE BcmInv
    OBVIOUS
  <1> USE BcmConstants
  <1>1. bdev = B!DeadDevice
    BY DEF B!Init
  <1>2. /\ bdev \in BcmDevs
        /\ bdev.rxprod = 0 /\ bdev.rxcons = 0 /\ bdev.retprod = 0 /\ bdev.retcons = 0
        /\ bdev.txprod = 0 /\ bdev.txcons = 0
    BY <1>1, BcmDead
  <1>3. /\ DOMAIN brx = {"prod", "ret", "buf"} /\ brx.prod \in [BcmProdRing -> B!RxBufs \cup {None}]
        /\ DOMAIN brx.ret = BcmRetRing /\ brx.buf \in [B!RxBufs -> Frames \cup {None}]
    BY DEF B!Init, B!NoRx, BcmProdRing, BcmRetRing
  <1>4. btx \in BcmTxs
    BY DEF B!Init, B!NoTx, BcmTxs, BcmSendRing
  <1>5. bwire \in Seq(Frames) /\ btxq \in Seq(Packets) /\ bwire = <<>> /\ btxq = <<>> /\ bpc = "closed"
    BY DEF B!Init
  <1>6. BcmTypes
    BY <1>2, <1>3, <1>4, <1>5 DEF BcmTypes
  <1>7. BcmIdle
    BY <1>2, <1>5 DEF BcmIdle, BcmInit, BcmReady
  <1>8. QED
    BY <1>5, <1>6, <1>7 DEF BcmInv, BcmRunning, BcmRuns, BcmCopying

\* What the steps of bcm_init that only touch registers have in common.
LEMMA BcmRegisters ==
    ASSUME BcmInv, bpc \in BcmInit, bpc' \in BcmInit \cup {"closed"},
           UNCHANGED <<bhw, brx, btx, bwire, btxq>>, bdev' \in BcmDevs,
           bdev'.rxcons = bdev'.rxprod, bdev'.txcons = bdev'.txprod,
           bdev'.retprod < B!RetSize, bdev'.retcons < B!RetSize,
           bpc' \in {"buffers", "rings"} \cup BcmReady =>
               bdev'.rxcons = 0 /\ bdev'.retprod = 0 /\ bdev'.retcons = 0 /\ bdev'.txcons = 0,
           bpc' \in BcmReady => bpc \in BcmReady
    PROVE  BcmInv'
  <1>1. BcmTypes'
    BY DEF BcmInv, BcmTypes, B!RetSize
  <1>2. BcmIdle'
    BY DEF BcmInv, BcmIdle, BcmInit, BcmReady
  <1>3. QED
    BY <1>1, <1>2 DEF BcmInv, BcmRunning, BcmCopying, BcmInit, BcmRuns

\* The parts of bcm57xx_init that do not touch the rings.
LEMMA BcmInits ==
    ASSUME BcmInv,
           B!InitLock \/ B!InitBoot \/ B!InitBuffers \/ B!InitMac \/ B!InitCoalesce \/ B!InitEngines
    PROVE  BcmInv'
  <1> USE BcmConstants
  <1>1. bdev \in BcmDevs /\ bdev.retprod < B!RetSize /\ bdev.retcons < B!RetSize
    BY DEF BcmInv, BcmTypes
  <1>2. bpc \in BcmInit => bdev.rxcons = bdev.rxprod /\ bdev.txcons = bdev.txprod
    BY DEF BcmInv, BcmIdle
  <1>3. CASE B!InitLock
    <2>1. bpc = "lock" /\ bpc' \in {"boot", "closed"} /\ bdev' = [bdev EXCEPT !.master = TRUE]
            /\ UNCHANGED <<bhw, brx, btx, bwire, btxq>>
      BY <1>3 DEF B!InitLock, B!InitStep
    <2>2. bdev' \in BcmDevs
      BY <1>1, <2>1, BcmUpdates
    <2>3. /\ bdev'.rxcons = bdev.rxcons /\ bdev'.rxprod = bdev.rxprod /\ bdev'.txcons = bdev.txcons
          /\ bdev'.txprod = bdev.txprod /\ bdev'.retprod = bdev.retprod /\ bdev'.retcons = bdev.retcons
      BY <1>1, <2>1 DEF BcmDevs
    <2>4. QED
      BY <1>1, <1>2, <2>1, <2>2, <2>3, BcmRegisters DEF BcmInit, BcmReady
  <1>4. CASE B!InitBoot
    <2>1. bpc = "boot" /\ bpc' \in {"buffers", "closed"} /\ bdev' = [B!DeadDevice EXCEPT !.master = TRUE]
            /\ UNCHANGED <<bhw, brx, btx, bwire, btxq>>
      BY <1>4 DEF B!InitBoot, B!InitStep
    <2>2. /\ bdev' \in BcmDevs /\ bdev'.rxprod = 0 /\ bdev'.rxcons = 0 /\ bdev'.retprod = 0
          /\ bdev'.retcons = 0 /\ bdev'.txprod = 0 /\ bdev'.txcons = 0
      BY <2>1, BcmDead
    <2>3. QED
      BY <2>1, <2>2, BcmRegisters DEF BcmInit, BcmReady
  <1>5. CASE B!InitBuffers \/ B!InitMac \/ B!InitCoalesce
    <2>1. /\ \/ bpc = "buffers" /\ bpc' \in {"rings", "closed"}
             \/ bpc = "mac" /\ bpc' \in {"coalesce", "closed"}
             \/ bpc = "coalesce" /\ bpc' \in {"engines", "closed"}
          /\ bdev' = bdev /\ UNCHANGED <<bhw, brx, btx, bwire, btxq>>
      BY <1>5 DEF B!InitBuffers, B!InitMac, B!InitCoalesce, B!InitStep
    <2>2. bdev.rxcons = 0 /\ bdev.retprod = 0 /\ bdev.retcons = 0 /\ bdev.txcons = 0
      BY <2>1 DEF BcmInv, BcmIdle, BcmReady
    <2>3. QED
      BY <1>1, <1>2, <2>1, <2>2, BcmRegisters DEF BcmInit, BcmReady
  <1>6. CASE B!InitEngines
    <2>1. bpc = "engines" /\ bpc' = "phy" /\ bdev' = [bdev EXCEPT !.engines = TRUE]
            /\ UNCHANGED <<bhw, brx, btx, bwire, btxq>>
      BY <1>6 DEF B!InitEngines
    <2>2. bdev' \in BcmDevs
      BY <1>1, <2>1, BcmUpdates
    <2>3. /\ bdev'.rxcons = bdev.rxcons /\ bdev'.rxprod = bdev.rxprod /\ bdev'.txcons = bdev.txcons
          /\ bdev'.txprod = bdev.txprod /\ bdev'.retprod = bdev.retprod /\ bdev'.retcons = bdev.retcons
      BY <1>1, <2>1 DEF BcmDevs
    <2>4. bdev.rxcons = 0 /\ bdev.retprod = 0 /\ bdev.retcons = 0 /\ bdev.txcons = 0
      BY <2>1 DEF BcmInv, BcmIdle, BcmReady
    <2>5. QED
      BY <1>1, <1>2, <2>1, <2>2, <2>3, <2>4, BcmRegisters DEF BcmInit, BcmReady
  <1>7. QED
    BY <1>3, <1>4, <1>5, <1>6

\* bcm57xx_open, before bcm57xx_init begins.
LEMMA BcmOpens == BcmInv /\ B!bcm57xx_open => BcmInv'
  <1> SUFFICES ASSUME BcmInv, B!bcm57xx_open PROVE BcmInv'
    OBVIOUS
  <1> USE BcmConstants
  <1>1. /\ bpc = "closed" /\ bpc' = "lock" /\ UNCHANGED <<bhw, bdev, brx, bwire, btxq>>
        /\ btx' = [btx EXCEPT !.start = 0, !.stop = 0, !.avail = 0]
    BY DEF B!bcm57xx_open
  <1>2. btx' \in BcmTxs /\ btx'.start = 0
    <2>1. btx \in BcmTxs /\ 0 \in BcmSendRing /\ 0 \in 0 .. MAX_TX_BUF
      BY DEF BcmInv, BcmTypes, BcmSendRing
    <2>2. QED
      BY <1>1, <2>1 DEF BcmTxs
  <1>3. BcmTypes'
    BY <1>1, <1>2 DEF BcmInv, BcmTypes, BcmInit, B!RetSize
  <1>4. BcmIdle'
    BY <1>1, <1>2 DEF BcmInv, BcmIdle, BcmInit, BcmReady
  <1>5. QED
    BY <1>1, <1>3, <1>4 DEF BcmInv, BcmRunning, BcmCopying, BcmRuns

\* bcm57xx_init sets up the three rings.
LEMMA BcmRings == BcmInv /\ B!InitRings => BcmInv'
  <1> SUFFICES ASSUME BcmInv, B!InitRings PROVE BcmInv'
    OBVIOUS
  <1> USE BcmConstants
  <1>1. /\ bpc = "rings" /\ bpc' = "mac" /\ UNCHANGED <<bhw, bwire, btxq>>
        /\ brx' = B!bcm_init_rxret_ring(B!bcm_init_rxprod_ring)
        /\ btx' = B!bcm_init_tx_ring
        /\ bdev' = [B!RingRegisters(bdev) EXCEPT !.rings = TRUE]
    BY DEF B!InitRings
  <1>2. /\ DOMAIN brx' = {"prod", "ret", "buf"} /\ brx'.buf = brx.buf /\ DOMAIN brx'.ret = BcmRetRing
        /\ brx'.prod = [i \in BcmProdRing |-> IF i \in B!RxBufs THEN i ELSE None]
    <2> DEFINE ring == [i \in BcmProdRing |-> IF i \in B!RxBufs THEN i ELSE None]
               rx == [brx EXCEPT !.prod = ring]
    <2>1. /\ DOMAIN brx = {"prod", "ret", "buf"} /\ DOMAIN brx.prod = BcmProdRing /\ DOMAIN brx.ret = BcmRetRing
      BY DEF BcmInv, BcmTypes
    <2>2. rx = B!bcm_init_rxprod_ring
      BY <2>1 DEF B!bcm_init_rxprod_ring
    <2> HIDE DEF ring
    <2>3. DOMAIN rx = {"prod", "ret", "buf"} /\ rx.prod = ring /\ rx.ret = brx.ret /\ rx.buf = brx.buf
      BY <2>1
    <2>4. brx' = [rx EXCEPT !.ret = [i \in DOMAIN rx.ret |-> None]]
      BY <1>1, <2>2 DEF B!bcm_init_rxret_ring
    <2> HIDE DEF rx
    <2>5. /\ DOMAIN brx' = {"prod", "ret", "buf"} /\ brx'.buf = brx.buf /\ brx'.prod = ring
          /\ brx'.ret = [i \in DOMAIN rx.ret |-> None]
      BY <2>3, <2>4
    <2>6. QED
      BY <2>1, <2>3, <2>5 DEF ring
  <1>3. /\ btx' \in BcmTxs /\ btx'.start = 0 /\ btx'.stop = MAX_TX_BUF /\ btx'.avail = MAX_TX_BUF
        /\ \A i \in B!TxBufs : btx'.ring[i] = i
    <2> DEFINE ring == [i \in BcmSendRing |-> IF i \in B!TxBufs THEN i ELSE None]
    <2>1. btx \in BcmTxs /\ MAX_TX_BUF \in BcmSendRing /\ MAX_TX_BUF \in 0 .. MAX_TX_BUF
      BY DEF BcmInv, BcmTypes, BcmSendRing
    <2>2. DOMAIN btx.ring = BcmSendRing /\ btx.start = 0
      BY <1>1, <2>1 DEF BcmTxs, BcmInv, BcmIdle, BcmInit
    <2>3. ring \in [BcmSendRing -> B!TxBufs \cup {None}] /\ \A i \in B!TxBufs : ring[i] = i
      BY DEF B!TxBufs, BcmSendRing
    <2>4. btx' = [btx EXCEPT !.ring = ring, !.stop = MAX_TX_BUF, !.avail = MAX_TX_BUF]
      BY <1>1, <2>2 DEF B!bcm_init_tx_ring
    <2> HIDE DEF ring
    <2>5. QED
      BY <2>1, <2>2, <2>3, <2>4 DEF BcmTxs
  <1>4. /\ bdev' \in BcmDevs /\ bdev'.rxprod = 0 /\ bdev'.rxcons = 0 /\ bdev'.retprod = 0
        /\ bdev'.retcons = 0 /\ bdev'.txprod = 0 /\ bdev'.txcons = 0
    <2>1. /\ bdev \in BcmDevs /\ 0 \in BcmProdRing /\ 0 \in BcmSendRing
          /\ bdev.rxcons = 0 /\ bdev.retprod = 0 /\ bdev.txcons = 0
      BY <1>1 DEF BcmInv, BcmTypes, BcmIdle, BcmProdRing, BcmSendRing
    <2>2. bdev' = [[bdev EXCEPT !.rxprod = 0, !.retcons = 0, !.txprod = 0] EXCEPT !.rings = TRUE]
      BY <1>1 DEF B!RingRegisters
    <2>3. QED
      BY <2>1, <2>2 DEF BcmDevs
  <1>5. BcmTypes'
    <2>1. brx'.prod \in [BcmProdRing -> B!RxBufs \cup {None}]
      BY <1>2
    <2>2. QED
      BY <1>1, <1>2, <1>3, <1>4, <2>1 DEF BcmInv, BcmTypes, BcmInit, B!RetSize
  <1>6. BcmIdle'
    <2>1. \A i \in B!RxBufs : brx'.prod[i] = i
      BY <1>2 DEF B!RxBufs, BcmProdRing
    <2>2. bwire' = <<>> /\ btxq' = <<>>
      BY <1>1 DEF BcmInv, BcmIdle, BcmInit
    <2>3. QED
      BY <1>1, <1>3, <1>4, <2>1, <2>2 DEF BcmIdle
  <1>7. QED
    BY <1>1, <1>5, <1>6 DEF BcmInv, BcmRunning, BcmCopying, BcmRuns

\* With a link the driver offers all its buffers and runs.
LEMMA BcmLinks == BcmInv /\ B!InitPhy => BcmInv'
  <1> SUFFICES ASSUME BcmInv, B!InitPhy PROVE BcmInv'
    OBVIOUS
  <1> USE BcmConstants
  <1>1. /\ bpc = "phy" /\ UNCHANGED <<bhw, brx, btx, bwire, btxq>>
        /\ \/ bdev' = [bdev EXCEPT !.rxprod = MAX_RX_BUF] /\ bpc' = "open"
           \/ bpc' = "closed" /\ UNCHANGED bdev
    BY DEF B!InitPhy
  <1>2. /\ bdev \in BcmDevs /\ bdev.retprod < B!RetSize /\ bdev.retcons < B!RetSize
        /\ bdev.rxcons = 0 /\ bdev.retprod = 0 /\ bdev.retcons = 0 /\ bdev.txcons = 0
        /\ bdev.rxprod = 0 /\ bdev.txprod = 0 /\ bwire = <<>> /\ btxq = <<>>
    BY <1>1 DEF BcmInv, BcmTypes, BcmIdle, BcmInit, BcmReady
  <1>3. CASE bpc' = "closed" /\ UNCHANGED bdev
    BY <1>1, <1>2, <1>3, BcmRegisters DEF BcmInit, BcmReady
  <1>4. CASE bdev' = [bdev EXCEPT !.rxprod = MAX_RX_BUF] /\ bpc' = "open"
    <2>1. MAX_RX_BUF \in BcmProdRing
      BY DEF BcmProdRing
    <2>2. /\ bdev' \in BcmDevs /\ bdev'.rxprod = MAX_RX_BUF /\ bdev'.rxcons = 0 /\ bdev'.retprod = 0
          /\ bdev'.retcons = 0 /\ bdev'.txprod = 0 /\ bdev'.txcons = 0
      BY <1>2, <1>4, <2>1 DEF BcmDevs
    <2>3. BcmTypes'
      BY <1>1, <1>4, <2>2 DEF BcmInv, BcmTypes, BcmRuns, B!RetSize
    <2>4. BcmIdle'
      BY <1>4 DEF BcmIdle, BcmInit, BcmReady
    <2>5. /\ (\A i \in B!RxBufs : brx.prod[i] = i) /\ (\A i \in B!TxBufs : btx.ring[i] = i)
          /\ btx.stop = MAX_TX_BUF /\ btx.avail = MAX_TX_BUF /\ btx.start = 0
      BY <1>1 DEF BcmInv, BcmIdle, BcmInit, BcmReady
    <2>6. Len(bwire') = 0 /\ Len(btxq') = 0
      BY <1>1, <1>2
    <2>7. RxHolds(brx', bdev', B!RetSize', bwire')
      <3> DEFINE fill  == [k \in 0 .. (0 - 1) |-> RetBuf(brx', bdev', B!RetSize', k)]
                 offer == [k \in 0 .. (MAX_RX_BUF - 0 - 1) |-> ProdBuf(brx', bdev', k)]
      <3>1. \A k \in B!RxBufs : ProdBuf(brx', bdev', k) = k
        BY <1>1, <2>2, <2>5 DEF ProdBuf, Wrap, B!RxBufs
      <3>2. DOMAIN offer = B!RxBufs /\ DOMAIN fill = {} /\ \A k \in B!RxBufs : offer[k] = k
        BY <3>1 DEF B!RxBufs
      <3> HIDE DEF offer, fill
      <3>3. Parted(fill, offer, B!RxBufs)
        BY <3>2 DEF Parted
      <3>4. /\ bdev'.retprod = Wrap(bdev'.retcons + 0, B!RetSize')
            /\ bdev'.rxprod = Wrap(bdev'.rxcons + (MAX_RX_BUF - 0), RXPROD_RING_SIZE)
        <4>1. B!RetSize' = B!RetSize
          BY <1>1 DEF B!RetSize
        <4>2. QED
          BY <2>2, <4>1 DEF Wrap
      <3>5. QED
        BY <2>6, <3>3, <3>4 DEF RxHolds, offer, fill
    <2>8. TxHolds(btx', bdev'.txcons, bdev'.txprod, btxq')
      <3>1. SentCount(btx', btxq') = 0
        BY <1>1, <2>5, <2>6 DEF SentCount
      <3>2. \A k \in B!TxBufs : SendBuf(btx', k) = k
        BY <1>1, <2>5 DEF SendBuf, Wrap, B!TxBufs
      <3>3. /\ 0 = Wrap(0 + 0, TX_RING_SIZE) /\ 0 = Wrap(0 + (0 + 0), TX_RING_SIZE)
            /\ MAX_TX_BUF = Wrap(0 + MAX_TX_BUF, TX_RING_SIZE)
        BY DEF Wrap
      <3>4. btx'.start = 0 /\ btx'.stop = MAX_TX_BUF
        BY <1>1, <2>5
      <3>5. QED
        BY <2>2, <2>6, <3>1, <3>2, <3>3, <3>4 DEF TxHolds
    <2>9. QED
      BY <1>4, <2>3, <2>4, <2>7, <2>8 DEF BcmInv, BcmRunning, BcmCopying
  <1>5. QED
    BY <1>1, <1>3, <1>4

\* A frame waits, and the driver starts to copy it.
LEMMA BcmReceives == BcmInv /\ B!bcm_receive => BcmInv'
  <1> SUFFICES ASSUME BcmInv, B!bcm_receive PROVE BcmInv'
    OBVIOUS
  <1> USE BcmConstants
  <1>1. /\ bpc = "open" /\ UNCHANGED <<bhw, bdev, brx, btx, bwire, btxq>>
        /\ bpc' = "open" \/ (bpc' = "received" /\ bdev.retprod # bdev.retcons)
    BY DEF B!bcm_receive
  <1>2. bwire = <<>> => bdev.retprod = bdev.retcons
    <2> SUFFICES ASSUME bwire = <<>> PROVE bdev.retprod = bdev.retcons
      OBVIOUS
    <2>1. bdev.retprod = Wrap(bdev.retcons + 0, B!RetSize)
      BY <1>1 DEF BcmInv, BcmRunning, BcmRuns, RxHolds
    <2>2. bdev.retcons \in Nat /\ bdev.retcons < B!RetSize
      BY BcmUpdates DEF BcmInv, BcmTypes
    <2>3. QED
      BY <2>1, <2>2 DEF Wrap
  <1>3. BcmTypes' /\ BcmIdle'
    BY <1>1 DEF BcmInv, BcmTypes, BcmIdle, BcmRuns, BcmInit, BcmReady, B!RetSize
  <1>4. BcmRunning'
    <2>1. B!RetSize' = B!RetSize
      BY <1>1 DEF B!RetSize
    <2>2. QED
      BY <1>1, <2>1 DEF BcmInv, BcmRunning, BcmRuns
  <1>5. BcmCopying'
    BY <1>1, <1>2 DEF BcmCopying
  <1>6. QED
    BY <1>3, <1>4, <1>5 DEF BcmInv

\* The buffer of a frame goes back to the controller.
LEMMA BcmReplenishes == BcmInv /\ B!bcm_receive_done => BcmInv'
  <1> SUFFICES ASSUME BcmInv, B!bcm_receive_done PROVE BcmInv'
    OBVIOUS
  <1> USE BcmConstants
  <1> DEFINE b == brx.ret[bdev.retcons].buf
  <1>1. /\ bpc = "received" /\ bpc' = "open" /\ bwire' = Tail(bwire) /\ UNCHANGED <<bhw, btx, btxq>>
        /\ brx' = [brx EXCEPT !.prod[bdev.rxprod] = b, !.ret[bdev.retcons] = None,
                              !.buf = [i \in DOMAIN brx.buf |-> IF i = b THEN None ELSE brx.buf[i]]]
        /\ bdev' = [bdev EXCEPT !.rxprod = (bdev.rxprod + 1) % RXPROD_RING_SIZE,
                                !.retcons = (bdev.retcons + 1) % B!RetSize]
    BY DEF B!bcm_receive_done, B!Replenish, BcmInv, BcmTypes, BcmDevs
  <1>2. /\ bdev \in BcmDevs /\ DOMAIN brx = {"prod", "ret", "buf"}
        /\ brx.prod \in [BcmProdRing -> B!RxBufs \cup {None}] /\ DOMAIN brx.ret = BcmRetRing
        /\ brx.buf \in [B!RxBufs -> Frames \cup {None}] /\ bwire \in Seq(Frames) /\ bwire # <<>>
    BY <1>1 DEF BcmInv, BcmTypes, BcmCopying
  <1>3. PICK r \in 0 .. (B!RetSize - 1) : r = bdev.retcons
    <2>1. bdev.retcons \in Nat /\ bdev.retcons < B!RetSize
      BY <1>2, BcmUpdates DEF BcmInv, BcmTypes
    <2>2. QED
      BY <2>1
  <1>4. PICK c \in 0 .. (RXPROD_RING_SIZE - 1) : c = bdev.rxcons
    BY <1>2, BcmUpdates DEF BcmProdRing
  <1>5. PICK p \in 0 .. (RXPROD_RING_SIZE - 1) : p = bdev.rxprod
    BY <1>2, BcmUpdates DEF BcmProdRing
  <1>6. /\ (r + 1) % B!RetSize = Wrap(r + 1, B!RetSize) /\ Wrap(r + 1, B!RetSize) \in 0 .. (B!RetSize - 1)
        /\ (p + 1) % RXPROD_RING_SIZE = Wrap(p + 1, RXPROD_RING_SIZE)
        /\ Wrap(p + 1, RXPROD_RING_SIZE) \in BcmProdRing
    BY WrapNext DEF BcmProdRing
  <1>7. /\ bdev' \in BcmDevs /\ bdev'.rxprod = Wrap(p + 1, RXPROD_RING_SIZE)
        /\ bdev'.retcons = Wrap(r + 1, B!RetSize) /\ bdev'.rxcons = c /\ bdev'.retprod = bdev.retprod
        /\ bdev'.txcons = bdev.txcons /\ bdev'.txprod = bdev.txprod
    <2>1. bdev' = [bdev EXCEPT !.rxprod = Wrap(p + 1, RXPROD_RING_SIZE), !.retcons = Wrap(r + 1, B!RetSize)]
      BY <1>1, <1>3, <1>5, <1>6
    <2>2. Wrap(r + 1, B!RetSize) \in Nat
      BY <1>6
    <2>3. QED
      BY <1>2, <1>4, <1>6, <2>1, <2>2 DEF BcmDevs
  <1>8. /\ DOMAIN brx' = {"prod", "ret", "buf"} /\ brx'.prod = [brx.prod EXCEPT ![bdev.rxprod] = b]
        /\ brx'.ret = [brx.ret EXCEPT ![r] = None]
        /\ brx'.buf = [i \in B!RxBufs |-> IF i = b THEN None ELSE brx.buf[i]]
    BY <1>1, <1>2, <1>3
  <1>9. RxHolds(brx, bdev, B!RetSize, bwire) /\ TxHolds(btx, bdev.txcons, bdev.txprod, btxq)
    BY <1>1 DEF BcmInv, BcmRunning, BcmRuns
  <1>10. 0 .. (B!RetSize - 1) \subseteq DOMAIN brx.ret
    BY <1>2 DEF BcmRetRing
  <1>11. RxHolds(brx', bdev', B!RetSize, bwire') /\ b \in B!RxBufs
    <2> DEFINE rx2 == brx'
               dev2 == bdev'
               size == B!RetSize
    <2>1. /\ rx2.prod = [brx.prod EXCEPT ![bdev.rxprod] = brx.ret[bdev.retcons].buf]
          /\ rx2.ret = [brx.ret EXCEPT ![bdev.retcons] = None]
          /\ rx2.buf = [i \in B!RxBufs |-> IF i = brx.ret[bdev.retcons].buf THEN None ELSE brx.buf[i]]
          /\ dev2.rxprod = Wrap(bdev.rxprod + 1, RXPROD_RING_SIZE) /\ dev2.rxcons = bdev.rxcons
          /\ dev2.retcons = Wrap(bdev.retcons + 1, size) /\ dev2.retprod = bdev.retprod
      BY <1>3, <1>4, <1>5, <1>7, <1>8
    <2>2. /\ bdev.rxcons \in 0 .. (RXPROD_RING_SIZE - 1) /\ bdev.retcons \in 0 .. (size - 1)
          /\ size \in Nat \ {0} /\ MAX_RX_BUF < size /\ 0 .. (size - 1) \subseteq DOMAIN brx.ret
          /\ RxHolds(brx, bdev, size, bwire)
      BY <1>3, <1>4, <1>9, <1>10
    <2> HIDE DEF rx2, dev2, size
    <2>3. RxHolds(rx2, dev2, size, Tail(bwire)) /\ brx.ret[bdev.retcons].buf \in B!RxBufs
      BY <1>2, <2>1, <2>2, RxReturned, ZenonT(60)
    <2>4. QED
      BY <1>1, <2>3 DEF rx2, dev2, size
  <1>13. BcmTypes'
    <2>1. brx'.prod \in [BcmProdRing -> B!RxBufs \cup {None}] /\ DOMAIN brx'.ret = BcmRetRing
      <3> HIDE DEF b
      <3>1. b \in B!RxBufs \cup {None}
        BY <1>11
      <3>2. brx'.prod \in [BcmProdRing -> B!RxBufs \cup {None}]
        <4>1. brx'.prod = [brx.prod EXCEPT ![bdev.rxprod] = b]
          BY <1>8
        <4>2. QED
          BY <1>2, <3>1, <4>1
      <3>3. DOMAIN brx'.ret = BcmRetRing
        BY <1>2, <1>8
      <3>4. QED
        BY <3>2, <3>3
    <2>2. brx'.buf \in [B!RxBufs -> Frames \cup {None}]
      BY <1>2, <1>8
    <2>3. bwire' \in Seq(Frames)
      BY <1>1, <1>2
    <2>4. bdev'.retprod < B!RetSize /\ bdev'.retcons < B!RetSize /\ B!RetSize' = B!RetSize
      BY <1>1, <1>6, <1>7, SMTT(30) DEF BcmInv, BcmTypes, B!RetSize
    <2>5. bpc' \in {"closed"} \cup BcmInit \cup BcmRuns \cup BcmEnds
      BY <1>1 DEF BcmRuns
    <2>6. btx' \in BcmTxs /\ btxq' \in Seq(Packets)
      BY <1>1 DEF BcmInv, BcmTypes
    <2>7. QED
      BY <1>7, <1>8, <2>1, <2>2, <2>3, <2>4, <2>5, <2>6 DEF BcmTypes
  <1>14. BcmIdle'
    BY <1>1 DEF BcmIdle, BcmInit, BcmReady
  <1>15. BcmRunning'
    <2>1. B!RetSize' = B!RetSize
      BY <1>1 DEF B!RetSize
    <2>2. TxHolds(btx', bdev'.txcons, bdev'.txprod, btxq')
      BY <1>1, <1>7, <1>9
    <2>3. QED
      BY <1>11, <2>1, <2>2 DEF BcmRunning
  <1>16. QED
    BY <1>1, <1>13, <1>14, <1>15 DEF BcmInv, BcmCopying

\* The controller works on its rings only while the driver runs.
LEMMA BcmWorks ==
    ASSUME BcmInv, B!CanReceive \/ B!CanSend
    PROVE  bpc \in BcmRuns
  BY BcmUpdates DEF BcmInv, BcmTypes, BcmIdle, BcmEnds, B!CanReceive, B!CanSend

\* The adapter takes a receive buffer, fills it and returns it.
LEMMA BcmArrives ==
    ASSUME BcmInv, NEW f \in Frames, B!DeviceReceives(f)
    PROVE  BcmInv'
  <1> USE BcmConstants
  <1> DEFINE b == brx.prod[bdev.rxcons]
  <1>1. /\ bpc \in BcmRuns /\ bdev.rxcons # bdev.rxprod
        /\ bwire' = Append(bwire, f) /\ UNCHANGED <<bpc, bhw, btx, btxq>>
    BY BcmWorks DEF B!DeviceReceives, B!CanReceive
  <1>2. /\ bdev \in BcmDevs /\ DOMAIN brx = {"prod", "ret", "buf"}
        /\ brx.prod \in [BcmProdRing -> B!RxBufs \cup {None}] /\ DOMAIN brx.ret = BcmRetRing
        /\ brx.buf \in [B!RxBufs -> Frames \cup {None}] /\ bwire \in Seq(Frames)
    BY DEF BcmInv, BcmTypes
  <1>3. PICK r \in 0 .. (B!RetSize - 1) : r = bdev.retprod
    <2>1. bdev.retprod \in Nat /\ bdev.retprod < B!RetSize
      BY <1>2, BcmUpdates DEF BcmInv, BcmTypes
    <2>2. QED
      BY <2>1
  <1>4. PICK c \in 0 .. (RXPROD_RING_SIZE - 1) : c = bdev.rxcons
    BY <1>2, BcmUpdates DEF BcmProdRing
  <1>5. bdev.retcons \in 0 .. (B!RetSize - 1)
    <2>1. bdev.retcons \in Nat /\ bdev.retcons < B!RetSize
      BY <1>2, BcmUpdates DEF BcmInv, BcmTypes
    <2>2. QED
      BY <2>1
  <1>6. /\ (r + 1) % B!RetSize = Wrap(r + 1, B!RetSize) /\ Wrap(r + 1, B!RetSize) \in 0 .. (B!RetSize - 1)
        /\ (c + 1) % RXPROD_RING_SIZE = Wrap(c + 1, RXPROD_RING_SIZE)
        /\ Wrap(c + 1, RXPROD_RING_SIZE) \in BcmProdRing
    BY WrapNext DEF BcmProdRing
  <1>7. /\ bdev' \in BcmDevs /\ bdev'.rxcons = Wrap(c + 1, RXPROD_RING_SIZE)
        /\ bdev'.retprod = Wrap(r + 1, B!RetSize) /\ bdev'.rxprod = bdev.rxprod /\ bdev'.retcons = bdev.retcons
        /\ bdev'.txcons = bdev.txcons /\ bdev'.txprod = bdev.txprod /\ bdev'.rings = bdev.rings
    <2>1. bdev' = [bdev EXCEPT !.rxcons = Wrap(c + 1, RXPROD_RING_SIZE), !.retprod = Wrap(r + 1, B!RetSize)]
      BY <1>2, <1>3, <1>4, <1>6 DEF B!DeviceReceives, BcmDevs
    <2>2. Wrap(r + 1, B!RetSize) \in Nat
      BY <1>6
    <2>3. QED
      BY <1>2, <1>6, <2>1, <2>2 DEF BcmDevs
  <1>8. /\ DOMAIN brx' = {"prod", "ret", "buf"} /\ brx'.prod = brx.prod
        /\ brx'.ret = [brx.ret EXCEPT ![bdev.retprod] = [buf |-> b, len |-> f.len, bad |-> f.bad]]
        /\ brx'.buf = (IF b = None THEN brx.buf ELSE [brx.buf EXCEPT ![b] = f])
    <2> DEFINE new == IF b = None THEN brx.buf ELSE [brx.buf EXCEPT ![b] = f]
               bd == [buf |-> b, len |-> f.len, bad |-> f.bad]
    <2>1. brx' = [brx EXCEPT !.buf = new, !.ret[bdev.retprod] = bd]
      BY <1>2 DEF B!DeviceReceives
    <2> HIDE DEF new, bd, b
    <2>2. /\ DOMAIN brx' = {"prod", "ret", "buf"} /\ brx'.prod = brx.prod
          /\ brx'.ret = [brx.ret EXCEPT ![bdev.retprod] = bd] /\ brx'.buf = new
      BY <1>2, <2>1
    <2>3. QED
      BY <2>2 DEF new, bd
  <1>9. RxHolds(brx, bdev, B!RetSize, bwire) /\ TxHolds(btx, bdev.txcons, bdev.txprod, btxq)
    BY <1>1 DEF BcmInv, BcmRunning
  <1>10. 0 .. (B!RetSize - 1) \subseteq DOMAIN brx.ret
    BY <1>2 DEF BcmRetRing
  <1>11. RxHolds(brx', bdev', B!RetSize, bwire') /\ b \in B!RxBufs
    <2> DEFINE rx2 == brx'
               dev2 == bdev'
               size == B!RetSize
    <2>1. /\ rx2.prod = brx.prod
          /\ dev2.rxcons = Wrap(bdev.rxcons + 1, RXPROD_RING_SIZE) /\ dev2.rxprod = bdev.rxprod
          /\ dev2.retprod = Wrap(bdev.retprod + 1, size) /\ dev2.retcons = bdev.retcons
      BY <1>3, <1>4, <1>7, <1>8
    <2>5. /\ bdev.retprod \in 0 .. (size - 1) => rx2.ret[bdev.retprod].buf = brx.prod[bdev.rxcons]
          /\ \A j \in 0 .. (size - 1) : j # bdev.retprod => rx2.ret[j] = brx.ret[j]
      BY <1>8, <1>10
    <2>6. /\ brx.prod[bdev.rxcons] \in B!RxBufs => rx2.buf[brx.prod[bdev.rxcons]] = f
          /\ \A j \in B!RxBufs : j # brx.prod[bdev.rxcons] => rx2.buf[j] = brx.buf[j]
      BY <1>2, <1>8
    <2>2. /\ bdev.rxcons \in 0 .. (RXPROD_RING_SIZE - 1) /\ bdev.retcons \in 0 .. (size - 1)
          /\ size \in Nat \ {0} /\ MAX_RX_BUF < size /\ 0 .. (size - 1) \subseteq DOMAIN brx.ret
          /\ RxHolds(brx, bdev, size, bwire)
      BY <1>4, <1>5, <1>9, <1>10
    <2> HIDE DEF rx2, dev2, size
    <2>7. Filled(brx, rx2, size, bdev.retprod, brx.prod[bdev.rxcons], f)
      BY <2>1, <2>5, <2>6, Zenon DEF Filled
    <2>3. RxHolds(rx2, dev2, size, Append(bwire, f)) /\ brx.prod[bdev.rxcons] \in B!RxBufs
      BY <1>1, <1>2, <2>1, <2>2, <2>7, RxArrived, SMTT(30)
    <2>4. QED
      BY <1>1, <2>3 DEF rx2, dev2, size
  <1>12. BcmTypes'
    <2> HIDE DEF b
    <2>1. brx'.prod \in [BcmProdRing -> B!RxBufs \cup {None}] /\ DOMAIN brx'.ret = BcmRetRing
      BY <1>2, <1>8
    <2>2. brx'.buf \in [B!RxBufs -> Frames \cup {None}]
      <3>1. brx'.buf = [brx.buf EXCEPT ![b] = f]
        BY <1>8, <1>11
      <3>2. QED
        <4>1. f \in Frames \cup {None}
          OBVIOUS
        <4>2. QED
          BY <1>2, <3>1, <4>1
    <2>3. bwire' \in Seq(Frames)
      BY <1>1, <1>2
    <2>4. bdev'.retprod < B!RetSize /\ bdev'.retcons < B!RetSize /\ B!RetSize' = B!RetSize
      BY <1>1, <1>6, <1>7 DEF BcmInv, BcmTypes, B!RetSize
    <2>5. bpc' \in {"closed"} \cup BcmInit \cup BcmRuns \cup BcmEnds
      BY <1>1
    <2>6. btx' \in BcmTxs /\ btxq' \in Seq(Packets)
      BY <1>1 DEF BcmInv, BcmTypes
    <2>7. QED
      BY <1>7, <1>8, <2>1, <2>2, <2>3, <2>4, <2>5, <2>6 DEF BcmTypes
  <1>13. BcmIdle'
    BY <1>1 DEF BcmIdle, BcmInit, BcmReady, BcmRuns
  <1>14. BcmRunning'
    <2>1. B!RetSize' = B!RetSize
      BY <1>1 DEF B!RetSize
    <2>2. TxHolds(btx', bdev'.txcons, bdev'.txprod, btxq')
      BY <1>1, <1>7, <1>9
    <2>3. QED
      BY <1>11, <2>1, <2>2 DEF BcmRunning
  <1>15. BcmCopying'
    BY <1>1, <1>2 DEF BcmCopying
  <1>16. QED
    BY <1>12, <1>13, <1>14, <1>15 DEF BcmInv

\* The adapter sends a frame and advances its consumer index.
LEMMA BcmSends == BcmInv /\ B!DeviceSends => BcmInv'
  <1> SUFFICES ASSUME BcmInv, B!DeviceSends PROVE BcmInv'
    OBVIOUS
  <1> USE BcmConstants
  <1>1. /\ bpc \in BcmRuns /\ bdev.txcons # bdev.txprod
        /\ btxq' = Tail(btxq) /\ UNCHANGED <<bpc, bhw, brx, bwire>>
    BY BcmWorks DEF B!DeviceSends, B!CanSend
  <1>2. bdev \in BcmDevs /\ btx \in BcmTxs /\ btxq \in Seq(Packets)
    BY DEF BcmInv, BcmTypes
  <1>3. PICK c \in 0 .. (TX_RING_SIZE - 1) : c = bdev.txcons
    BY <1>2, BcmUpdates DEF BcmSendRing
  <1>4. (c + 1) % TX_RING_SIZE = Wrap(c + 1, TX_RING_SIZE) /\ Wrap(c + 1, TX_RING_SIZE) \in BcmSendRing
    BY WrapNext DEF BcmSendRing
  <1>5. /\ bdev' \in BcmDevs /\ bdev'.txcons = Wrap(c + 1, TX_RING_SIZE) /\ bdev'.txprod = bdev.txprod
        /\ bdev'.rxcons = bdev.rxcons /\ bdev'.rxprod = bdev.rxprod /\ bdev'.retprod = bdev.retprod
        /\ bdev'.retcons = bdev.retcons
    <2>1. bdev' = [bdev EXCEPT !.txcons = Wrap(c + 1, TX_RING_SIZE)]
      BY <1>2, <1>3, <1>4 DEF B!DeviceSends, BcmDevs
    <2>2. QED
      BY <1>2, <1>4, <2>1 DEF BcmDevs
  <1>6. /\ btx' \in BcmTxs /\ btx'.ring = btx.ring /\ btx'.start = btx.start /\ btx'.stop = btx.stop
        /\ btx'.avail = btx.avail
        /\ btx'.buf = [b \in B!TxBufs |-> IF b = btx.ring[c] THEN None ELSE btx.buf[b]]
    <2> DEFINE new == [b \in B!TxBufs |-> IF b = btx.ring[c] THEN None ELSE btx.buf[b]]
    <2>1. btx.buf \in [B!TxBufs -> Packets \cup {None}]
      BY <1>2 DEF BcmTxs
    <2>2. btx' = [btx EXCEPT !.buf = new]
      BY <1>2, <1>3, <2>1 DEF B!DeviceSends, BcmTxs
    <2>3. new \in [B!TxBufs -> Packets \cup {None}]
      BY <2>1
    <2> HIDE DEF new
    <2>4. QED
      BY <1>2, <2>2, <2>3 DEF BcmTxs, new
  <1>7. RxHolds(brx, bdev, B!RetSize, bwire) /\ TxHolds(btx, bdev.txcons, bdev.txprod, btxq)
    BY <1>1 DEF BcmInv, BcmRunning
  <1>8. TxHolds(btx', bdev'.txcons, bdev'.txprod, btxq') /\ btxq # <<>>
    <2> DEFINE tx2 == btx'
    <2>1. /\ btx.start \in 0 .. (TX_RING_SIZE - 1) /\ btx.avail \in 0 .. MAX_TX_BUF
          /\ btx.buf \in [B!TxBufs -> Packets \cup {None}]
      BY <1>2 DEF BcmTxs, BcmSendRing
    <2>2. /\ tx2.ring = btx.ring /\ tx2.start = btx.start /\ tx2.stop = btx.stop /\ tx2.avail = btx.avail
          /\ tx2.buf = [b \in B!TxBufs |-> IF b = btx.ring[c] THEN None ELSE btx.buf[b]]
      BY <1>6
    <2> HIDE DEF tx2
    <2>3. TxHolds(btx, c, bdev.txprod, btxq) /\ c # bdev.txprod
      BY <1>1, <1>3, <1>7
    <2>4. TxHolds(tx2, Wrap(c + 1, TX_RING_SIZE), bdev.txprod, Tail(btxq)) /\ btxq # <<>>
      BY <1>2, <2>1, <2>2, <2>3, TxSent
    <2>5. QED
      BY <1>1, <1>5, <2>4 DEF tx2
  <1>9. BcmTypes'
    <2>1. btxq' \in Seq(Packets)
      BY <1>1, <1>2, <1>8
    <2>2. QED
      BY <1>1, <1>5, <1>6, <2>1 DEF BcmInv, BcmTypes, B!RetSize
  <1>10. BcmIdle' /\ BcmCopying'
    BY <1>1 DEF BcmInv, BcmIdle, BcmInit, BcmReady, BcmRuns, BcmCopying
  <1>11. BcmRunning'
    <2>1. B!RetSize' = B!RetSize
      BY <1>1 DEF B!RetSize
    <2>2. RxHolds(brx', bdev', B!RetSize, bwire')
      BY <1>1, <1>5, <1>7 DEF RxHolds, RetBuf, ProdBuf
    <2>3. QED
      BY <1>8, <2>1, <2>2 DEF BcmRunning
  <1>12. QED
    BY <1>9, <1>10, <1>11 DEF BcmInv

\* What the reclaiming of the descriptors does to the send side.
LEMMA BcmReclaims ==
    ASSUME BcmInv, bpc \in BcmRuns, NEW tx, tx = B!Reclaimed
    PROVE  /\ tx \in BcmTxs /\ tx.start = bdev.txcons /\ tx.avail = MAX_TX_BUF - Len(btxq)
           /\ TxHolds(tx, bdev.txcons, bdev.txprod, btxq)
  <1> USE BcmConstants
  <1>1. bdev \in BcmDevs /\ btx \in BcmTxs /\ btxq \in Seq(Packets)
    BY DEF BcmInv, BcmTypes
  <1>2. PICK st \in 0 .. (TX_RING_SIZE - 1) : st = btx.start
    BY <1>1 DEF BcmTxs, BcmSendRing
  <1>3. PICK a \in 0 .. MAX_TX_BUF : a = btx.avail
    BY <1>1 DEF BcmTxs
  <1>4. PICK cons \in 0 .. (TX_RING_SIZE - 1) : cons = bdev.txcons
    BY <1>1, BcmUpdates DEF BcmSendRing
  <1>5. PICK stop \in 0 .. (TX_RING_SIZE - 1) : stop = btx.stop
    BY <1>1 DEF BcmTxs, BcmSendRing
  <1>6. PICK c : c = (cons + TX_RING_SIZE - st) % TX_RING_SIZE
    OBVIOUS
  <1>7. B!Consumed = c
    BY <1>2, <1>4, <1>6 DEF B!Consumed
  <1> DEFINE ring == [i \in BcmSendRing |->
                         IF (i + TX_RING_SIZE - stop) % TX_RING_SIZE < c
                         THEN btx.ring[(st + ((i + TX_RING_SIZE - stop) % TX_RING_SIZE)) % TX_RING_SIZE]
                         ELSE btx.ring[i]]
  <1>8. btx.ring \in [BcmSendRing -> B!TxBufs \cup {None}] /\ btx.buf \in [B!TxBufs -> Packets \cup {None}]
    BY <1>1 DEF BcmTxs
  <1>9. tx = [btx EXCEPT !.ring = ring, !.stop = (stop + c) % TX_RING_SIZE, !.start = cons, !.avail = a + c]
    BY <1>1, <1>2, <1>3, <1>4, <1>5, <1>7, <1>8 DEF B!Reclaimed, BcmTxs
  <1>10. ring \in [BcmSendRing -> B!TxBufs \cup {None}]
    <2>1. \A i \in BcmSendRing : (st + ((i + TX_RING_SIZE - stop) % TX_RING_SIZE)) % TX_RING_SIZE \in BcmSendRing
      BY <1>2, <1>5 DEF BcmSendRing
    <2>2. QED
      BY <1>8, <2>1
  <1>11. /\ tx.ring = ring /\ tx.stop = (stop + c) % TX_RING_SIZE /\ tx.start = cons /\ tx.avail = a + c
         /\ tx.buf = btx.buf
    BY <1>1, <1>9 DEF BcmTxs
  <1>12. TxHolds(tx, cons, bdev.txprod, btxq) /\ c \in Nat /\ a + c = MAX_TX_BUF - Len(btxq)
    <2>1. TxHolds(btx, cons, bdev.txprod, btxq)
      BY <1>4 DEF BcmInv, BcmRunning
    <2>2. Moved(btx, tx, cons, c)
      BY <1>2, <1>3, <1>5, <1>6, <1>11 DEF Moved
    <2>3. btx.start \in 0 .. (TX_RING_SIZE - 1) /\ btx.avail \in 0 .. MAX_TX_BUF
      BY <1>2, <1>3
    <2>4. TxHolds(tx, cons, bdev.txprod, btxq) /\ c \in Nat /\ btx.avail + c = MAX_TX_BUF - Len(btxq)
      BY <1>1, <2>1, <2>2, <2>3, TxReclaimed
    <2>5. QED
      BY <1>3, <2>4
  <1>13. a + c \in 0 .. MAX_TX_BUF /\ (stop + c) % TX_RING_SIZE \in BcmSendRing /\ cons \in BcmSendRing
    BY <1>1, <1>12 DEF BcmSendRing
  <1> HIDE DEF ring
  <1>14. tx \in BcmTxs
    BY <1>1, <1>9, <1>10, <1>13 DEF BcmTxs
  <1>15. QED
    BY <1>4, <1>11, <1>12, <1>14

\* A packet is written behind the others, or refused.
LEMMA BcmTransmits ==
    ASSUME BcmInv, NEW p \in Packets, B!bcm_xmit(p)
    PROVE  BcmInv'
  <1> USE BcmConstants
  <1>1. PICK tx : tx = B!Reclaimed
    OBVIOUS
  <1>2. bpc = "open" /\ bpc \in BcmRuns /\ UNCHANGED <<bpc, bhw, brx, bwire>>
    BY DEF B!bcm_xmit, BcmRuns
  <1>3. /\ tx \in BcmTxs /\ tx.start = bdev.txcons /\ tx.avail = MAX_TX_BUF - Len(btxq)
        /\ TxHolds(tx, bdev.txcons, bdev.txprod, btxq)
    BY <1>1, <1>2, BcmReclaims
  <1>4. bdev \in BcmDevs /\ btxq \in Seq(Packets)
    BY DEF BcmInv, BcmTypes
  <1>5. RxHolds(brx, bdev, B!RetSize, bwire)
    BY <1>2 DEF BcmInv, BcmRunning
  <1>6. SUFFICES /\ btx' \in BcmTxs /\ btxq' \in Seq(Packets) /\ bdev' \in BcmDevs
                 /\ bdev'.txcons = bdev.txcons
                 /\ bdev'.rxcons = bdev.rxcons /\ bdev'.rxprod = bdev.rxprod
                 /\ bdev'.retprod = bdev.retprod /\ bdev'.retcons = bdev.retcons
                 /\ TxHolds(btx', bdev'.txcons, bdev'.txprod, btxq')
    <2>1. BcmTypes'
      BY <1>2, <1>6 DEF BcmInv, BcmTypes, B!RetSize
    <2>2. BcmIdle' /\ BcmCopying'
      BY <1>2 DEF BcmInv, BcmIdle, BcmInit, BcmReady, BcmRuns, BcmCopying
    <2>3. B!RetSize' = B!RetSize
      BY <1>2 DEF B!RetSize
    <2>4. RxHolds(brx', bdev', B!RetSize, bwire')
      BY <1>2, <1>5, <1>6 DEF RxHolds, RetBuf, ProdBuf
    <2>5. QED
      BY <1>6, <2>1, <2>2, <2>3, <2>4 DEF BcmInv, BcmRunning
  <1>7. CASE B!Full(tx)
    BY <1>1, <1>3, <1>4, <1>7 DEF B!bcm_xmit
  <1>8. CASE ~B!Full(tx)
    <2>1. /\ btx' = IF tx.ring[bdev.txprod] = None THEN [tx EXCEPT !.avail = @ - 1]
                      ELSE [tx EXCEPT !.buf[tx.ring[bdev.txprod]] = p, !.avail = @ - 1]
          /\ bdev' = [bdev EXCEPT !.txprod = (@ + 1) % TX_RING_SIZE]
          /\ btxq' = Append(btxq, p)
      BY <1>1, <1>8 DEF B!bcm_xmit
    <2>2. PICK n \in 0 .. (TX_RING_SIZE - 1) : n = bdev.txprod
      BY <1>4, BcmUpdates DEF BcmSendRing
    <2>3. (n + 1) % TX_RING_SIZE = Wrap(n + 1, TX_RING_SIZE) /\ Wrap(n + 1, TX_RING_SIZE) \in BcmSendRing
      BY WrapNext DEF BcmSendRing
    <2>4. /\ bdev' \in BcmDevs /\ bdev'.txprod = Wrap(n + 1, TX_RING_SIZE)
          /\ bdev'.txcons = bdev.txcons
          /\ bdev'.rxcons = bdev.rxcons /\ bdev'.rxprod = bdev.rxprod
          /\ bdev'.retprod = bdev.retprod /\ bdev'.retcons = bdev.retcons
      <3>1. bdev' = [bdev EXCEPT !.txprod = Wrap(n + 1, TX_RING_SIZE)]
        BY <1>4, <2>1, <2>2, <2>3 DEF BcmDevs
      <3>2. QED
        BY <1>4, <2>3, <3>1 DEF BcmDevs
    <2>5. PICK a \in 1 .. MAX_TX_BUF : a = tx.avail
      BY <1>3, <1>8 DEF B!Full, BcmTxs
    <2>6. PICK st \in 0 .. (TX_RING_SIZE - 1) : st = tx.start
      BY <1>3 DEF BcmTxs, BcmSendRing
    <2>7. tx.buf \in [B!TxBufs -> Packets \cup {None}]
      BY <1>3 DEF BcmTxs
    <2> DEFINE new == [tx.buf EXCEPT ![tx.ring[n]] = p]
    <2>8. PICK tx2 : tx2 = [tx EXCEPT !.buf = new, !.avail = a - 1]
      OBVIOUS
    <2>9. /\ tx2.ring = tx.ring /\ tx2.start = st /\ tx2.stop = tx.stop /\ tx2.avail = a - 1
          /\ tx2.buf = new
      <3> HIDE DEF new
      <3>1. QED
        BY <1>3, <2>6, <2>8 DEF BcmTxs
    <2>10. TxHolds(tx2, bdev.txcons, Wrap(n + 1, TX_RING_SIZE), Append(btxq, p)) /\ tx.ring[n] \in B!TxBufs
      <3>1. TxHolds(tx, bdev.txcons, n, btxq)
        BY <1>3, <2>2
      <3>2. Queued(tx, tx2, n, p)
        BY <2>5, <2>6, <2>9 DEF Queued
      <3>3. QED
        BY <1>4, <2>5, <2>6, <2>7, <3>1, <3>2, TxQueued
    <2>11. btx' = tx2
      <3>1. tx.ring[bdev.txprod] # None
        BY <2>2, <2>10
      <3>2. btx' = [tx EXCEPT !.buf[tx.ring[n]] = p, !.avail = a - 1]
        BY <1>3, <2>1, <2>2, <2>5, <3>1 DEF BcmTxs
      <3>3. QED
        BY <1>3, <2>8, <3>2 DEF BcmTxs
    <2>12. btx' \in BcmTxs
      <3>0. p \in Packets \cup {None}
        OBVIOUS
      <3>1. a - 1 \in 0 .. MAX_TX_BUF
        OBVIOUS
      <3>4. new \in [B!TxBufs -> Packets \cup {None}]
        BY <2>7, <3>0, Zenon
      <3> HIDE DEF new
      <3>2. QED
        BY <1>3, <2>8, <2>11, <3>1, <3>4 DEF BcmTxs
    <2>13. Append(btxq, p) \in Seq(Packets)
      BY <1>4
    <2>14. TxHolds(btx', bdev'.txcons, bdev'.txprod, btxq')
      <3>1. TxHolds(tx2, bdev.txcons, Wrap(n + 1, TX_RING_SIZE), Append(btxq, p))
        BY <2>10
      <3>2. QED
        BY <2>1, <2>4, <2>11, <3>1
    <2>15. QED
      BY <2>1, <2>4, <2>12, <2>13, <2>14
  <1>9. QED
    BY <1>7, <1>8

\* The steps of the close.
LEMMA BcmCloses ==
    ASSUME BcmInv, B!bcm57xx_close \/ B!TermRings \/ B!TermStop \/ B!bcm_reset \/ B!TermOff
    PROVE  BcmInv'
  <1> USE BcmConstants
  <1>0. bdev \in BcmDevs
    BY DEF BcmInv, BcmTypes
  <1>1. CASE B!bcm57xx_close
    <2>1. bpc = "open" /\ bpc' = "term" /\ UNCHANGED <<bhw, bdev, brx, btx, bwire, btxq>>
      BY <1>1 DEF B!bcm57xx_close
    <2>2. B!RetSize' = B!RetSize
      BY <2>1 DEF B!RetSize
    <2>3. BcmTypes' /\ BcmIdle' /\ BcmCopying'
      BY <2>1, <2>2 DEF BcmInv, BcmTypes, BcmIdle, BcmCopying, BcmInit, BcmReady, BcmRuns, BcmEnds
    <2>4. BcmRunning'
      BY <2>1, <2>2 DEF BcmInv, BcmRunning, BcmRuns
    <2>5. QED
      BY <2>3, <2>4 DEF BcmInv
  <1>2. CASE B!TermRings \/ B!TermStop
    <2>1. /\ bdev' \in BcmDevs /\ bdev'.retprod = bdev.retprod /\ bdev'.retcons = bdev.retcons
          /\ ~bdev'.rings /\ bpc' \in {"stop", "reset"} /\ UNCHANGED <<bhw, brx, btx, bwire, btxq>>
      <3>1. CASE B!TermRings
        <4>1. bdev' = [bdev EXCEPT !.rings = FALSE]
          BY <3>1 DEF B!TermRings
        <4>2. bdev' \in BcmDevs /\ bdev'.rings = FALSE
          BY <1>0, <4>1, BcmUpdates, Zenon
        <4>3. bdev'.retprod = bdev.retprod /\ bdev'.retcons = bdev.retcons
          BY <1>0, <4>1 DEF BcmDevs
        <4>4. QED
          BY <3>1, <4>2, <4>3 DEF B!TermRings
      <3>2. CASE B!TermStop
        <4>1. PICK stuck \in BOOLEAN : bdev' = [bdev EXCEPT !.engines = stuck]
          BY <3>2 DEF B!TermStop
        <4>2. bdev' \in BcmDevs
          BY <1>0, <4>1, BcmUpdates, Zenon
        <4>3. bdev'.retprod = bdev.retprod /\ bdev'.retcons = bdev.retcons /\ bdev'.rings = bdev.rings
          BY <1>0, <4>1 DEF BcmDevs
        <4>4. ~bdev.rings
          BY <3>2 DEF B!TermStop, BcmInv, BcmIdle
        <4>5. QED
          BY <3>2, <4>2, <4>3, <4>4 DEF B!TermStop
      <3>3. QED
        BY <1>2, <3>1, <3>2
    <2>2. BcmTypes'
      BY <2>1 DEF BcmInv, BcmTypes, BcmEnds, B!RetSize
    <2>3. BcmIdle' /\ BcmRunning' /\ BcmCopying'
      BY <2>1 DEF BcmIdle, BcmRunning, BcmCopying, BcmInit, BcmReady, BcmRuns
    <2>4. QED
      BY <2>2, <2>3 DEF BcmInv
  <1>3. CASE B!bcm_reset \/ B!TermOff
    <2>1. /\ bpc' \in {"closed", "off"} /\ bwire' = <<>> /\ btxq' = <<>> /\ UNCHANGED <<bhw, brx, btx>>
          /\ bdev' \in BcmDevs /\ bdev'.rxcons = bdev'.rxprod /\ bdev'.txcons = bdev'.txprod
          /\ bdev'.retprod < B!RetSize /\ bdev'.retcons < B!RetSize
      <3>1. CASE B!bcm_reset
        <4>1. bdev' = [B!DeadDevice EXCEPT !.master = TRUE]
          BY <3>1 DEF B!bcm_reset
        <4>2. /\ bdev' \in BcmDevs /\ bdev'.rxprod = 0 /\ bdev'.rxcons = 0 /\ bdev'.retprod = 0
              /\ bdev'.retcons = 0 /\ bdev'.txprod = 0 /\ bdev'.txcons = 0
          BY <4>1, BcmDead
        <4>3. QED
          BY <3>1, <4>2 DEF B!bcm_reset
      <3>2. CASE B!TermOff
        <4>1. bdev' = [bdev EXCEPT !.master = FALSE]
          BY <3>2 DEF B!TermOff
        <4>2. bdev' \in BcmDevs
          BY <1>0, <4>1, BcmUpdates, Zenon
        <4>3. /\ bdev'.rxcons = bdev.rxcons /\ bdev'.rxprod = bdev.rxprod /\ bdev'.txcons = bdev.txcons
              /\ bdev'.txprod = bdev.txprod /\ bdev'.retprod = bdev.retprod /\ bdev'.retcons = bdev.retcons
          BY <1>0, <4>1 DEF BcmDevs
        <4>4. /\ bdev.rxcons = bdev.rxprod /\ bdev.txcons = bdev.txprod /\ bwire = <<>> /\ btxq = <<>>
              /\ bdev.retprod < B!RetSize /\ bdev.retcons < B!RetSize
          BY <3>2 DEF B!TermOff, BcmInv, BcmIdle, BcmTypes
        <4>5. QED
          BY <3>2, <4>2, <4>3, <4>4 DEF B!TermOff
      <3>3. QED
        BY <1>3, <3>1, <3>2
    <2>2. BcmTypes'
      BY <2>1 DEF BcmInv, BcmTypes, BcmEnds, B!RetSize
    <2>3. BcmIdle' /\ BcmRunning' /\ BcmCopying'
      BY <2>1 DEF BcmIdle, BcmRunning, BcmCopying, BcmInit, BcmReady, BcmRuns
    <2>4. QED
      BY <2>2, <2>3 DEF BcmInv
  <1>4. QED
    BY <1>1, <1>2, <1>3

\* Every step of driver and adapter keeps the invariant of the bcm57xx.
LEMMA BcmStep == BcmInv /\ [B!Next]_bvars => BcmInv'
  <1> SUFFICES ASSUME BcmInv, [B!Next]_bvars PROVE BcmInv'
    OBVIOUS
  <1>1. CASE UNCHANGED bvars
    <2>1. UNCHANGED <<bpc, bhw, bdev, brx, btx, bwire, btxq>>
      BY <1>1 DEF bvars
    <2>2. B!RetSize' = B!RetSize
      BY <2>1 DEF B!RetSize
    <2>3. BcmTypes' /\ BcmIdle' /\ BcmCopying'
      BY <2>1, <2>2 DEF BcmInv, BcmTypes, BcmIdle, BcmCopying
    <2>4. BcmRunning'
      BY <2>1, <2>2 DEF BcmInv, BcmRunning
    <2>5. QED
      BY <2>3, <2>4 DEF BcmInv
  <1>2. CASE B!Next
    BY <1>2, BcmOpens, BcmInits, BcmRings, BcmLinks, BcmReceives, BcmReplenishes, BcmTransmits,
       BcmCloses, BcmArrives, BcmSends DEF B!Next
  <1>3. QED
    BY <1>1, <1>2

\* The entries of a ring from i to the k-th ahead of it.
LEMMA SlotsRead ==
    ASSUME NEW n \in Nat \ {0}, NEW i \in 0 .. (n - 1), NEW k \in 0 .. (n - 1)
    PROVE  B!Slots(i, Wrap(i + k, n), n) = [l \in 1 .. k |-> Wrap(i + (l - 1), n)]
  <1>1. (Wrap(i + k, n) + n - i) % n = k
    BY RingLength
  <1>2. \A l \in 1 .. k : (i + l - 1) % n = Wrap(i + (l - 1), n)
    <2> SUFFICES ASSUME NEW l \in 1 .. k PROVE (i + l - 1) % n = Wrap(i + (l - 1), n)
      OBVIOUS
    <2>1. l \in 1 .. n /\ i + l - 1 = i + (l - 1)
      OBVIOUS
    <2>2. QED
      BY <2>1, WrapAhead
  <1>3. QED
    BY <1>1, <1>2 DEF B!Slots

\* g, numbered from 1.
Shifted(s, g, m) == s = [k \in 1 .. m |-> g[k - 1]]

\* The sequence has n elements and they are those of S.
Lists(s, S, n) == Len(s) = n /\ {s[k] : k \in DOMAIN s} = S

\* Two queues that share out S, one after the other.
LEMMA PartedConcat ==
    ASSUME NEW S, NEW n \in Nat, NEW m \in Nat, NEW f, NEW g,
           DOMAIN f = 0 .. (n - 1), DOMAIN g = 0 .. (m - 1), Parted(f, g, S),
           NEW s, NEW t, Shifted(s, g, m), Shifted(t, f, n)
    PROVE  Lists(s \o t, S, m + n)
  <1> DEFINE held == s \o t
  <1>1. /\ \A k \in 1 .. m : k - 1 \in DOMAIN g /\ s[k] = g[k - 1] /\ s[k] \in S
        /\ \A k \in 1 .. n : k - 1 \in DOMAIN f /\ t[k] = f[k - 1] /\ t[k] \in S
    <2>1. ASSUME NEW k \in 1 .. m PROVE k - 1 \in DOMAIN g /\ s[k] = g[k - 1]
      BY DEF Shifted
    <2>2. ASSUME NEW k \in 1 .. n PROVE k - 1 \in DOMAIN f /\ t[k] = f[k - 1]
      BY DEF Shifted
    <2>3. QED
      BY <2>1, <2>2 DEF Parted
  <1>2. s \in Seq(S) /\ t \in Seq(S) /\ Len(s) = m /\ Len(t) = n
    <2>1. s \in [1 .. m -> S] /\ t \in [1 .. n -> S]
      BY <1>1 DEF Shifted
    <2>2. QED
      BY <2>1
  <1>3. held \in Seq(S) /\ Len(held) = m + n /\ DOMAIN held = 1 .. (m + n)
    BY <1>2
  <1>4. \A k \in 1 .. m : held[k] = s[k]
    BY <1>2
  <1>5. \A k \in 1 .. n : held[m + k] = t[k]
    BY <1>2, ConcatAt
  <1> HIDE DEF held
  <1>6. ASSUME NEW b \in S PROVE \E k \in 1 .. (m + n) : held[k] = b
    <2>1. CASE \E k \in DOMAIN g : g[k] = b
      <3>1. PICK k \in 0 .. (m - 1) : g[k] = b
        BY <2>1
      <3>2. k + 1 \in 1 .. m /\ k + 1 \in 1 .. (m + n) /\ (k + 1) - 1 = k
        OBVIOUS
      <3>3. QED
        BY <1>1, <1>4, <3>1, <3>2
    <2>2. CASE \E k \in DOMAIN f : f[k] = b
      <3>1. PICK k \in 0 .. (n - 1) : f[k] = b
        BY <2>2
      <3>2. k + 1 \in 1 .. n /\ m + (k + 1) \in 1 .. (m + n) /\ (k + 1) - 1 = k
        OBVIOUS
      <3>3. QED
        BY <1>1, <1>5, <3>1, <3>2
    <2>3. QED
      BY <2>1, <2>2 DEF Parted
  <1>7. \A k \in 1 .. (m + n) : held[k] \in S
    BY <1>3
  <1>8. {held[k] : k \in DOMAIN held} = S
    BY <1>3, <1>6, <1>7
  <1>9. QED
    BY <1>3, <1>8 DEF held, Lists

\* What the invariant of the bcm57xx says of frames, buffers and a closed adapter.
LEMMA BcmInvImplies == BcmInv => B!RxConserved /\ B!RxIntact /\ B!TxIntact /\ B!QuietWhenClosed
  <1> SUFFICES ASSUME BcmInv PROVE B!RxConserved /\ B!RxIntact /\ B!TxIntact /\ B!QuietWhenClosed
    OBVIOUS
  <1> USE BcmConstants
  <1>1. B!QuietWhenClosed
    BY DEF BcmInv, BcmIdle, B!QuietWhenClosed, B!CanReceive, B!CanSend
  <1>2. ASSUME bpc \in {"open", "received"} PROVE B!RxConserved /\ B!RxIntact
    <2> DEFINE n == Len(bwire)
               m == MAX_RX_BUF - n
    <2>1. RxHolds(brx, bdev, B!RetSize, bwire) /\ bdev \in BcmDevs /\ bwire \in Seq(Frames)
      BY <1>2 DEF BcmInv, BcmRunning, BcmRuns, BcmTypes
    <2>2. PICK size \in Nat \ {0} : size = B!RetSize
      OBVIOUS
    <2>3. PICK r \in 0 .. (size - 1) : r = bdev.retcons
      <3>1. bdev.retcons \in Nat /\ bdev.retcons < B!RetSize
        BY <2>1, BcmUpdates DEF BcmInv, BcmTypes
      <3>2. QED
        BY <2>2, <3>1
    <2>4. PICK c \in 0 .. (RXPROD_RING_SIZE - 1) : c = bdev.rxcons
      BY <2>1, BcmUpdates DEF BcmProdRing
    <2>5. n \in Nat /\ n \in 0 .. (size - 1) /\ m \in Nat /\ m \in 0 .. (RXPROD_RING_SIZE - 1) /\ m + n = MAX_RX_BUF
      BY <2>1, <2>2 DEF RxHolds
    <2> DEFINE offered == B!Slots(bdev.rxcons, bdev.rxprod, RXPROD_RING_SIZE)
               filled  == B!Slots(bdev.retcons, bdev.retprod, B!RetSize)
               full    == [k \in 0 .. (n - 1) |-> RetBuf(brx, bdev, B!RetSize, k)]
               empty   == [k \in 0 .. (m - 1) |-> ProdBuf(brx, bdev, k)]
               s == [k \in DOMAIN offered |-> brx.prod[offered[k]]]
               t == [k \in DOMAIN filled |-> brx.ret[filled[k]].buf]
    <2>6. offered = [l \in 1 .. m |-> Wrap(c + (l - 1), RXPROD_RING_SIZE)]
      <3>1. bdev.rxprod = Wrap(c + m, RXPROD_RING_SIZE)
        BY <2>1, <2>4 DEF RxHolds
      <3> HIDE DEF m
      <3>2. QED
        BY <2>4, <2>5, <3>1, SlotsRead DEF offered
    <2>7. filled = [l \in 1 .. n |-> Wrap(r + (l - 1), size)]
      <3>1. bdev.retprod = Wrap(r + n, size)
        BY <2>1, <2>2, <2>3 DEF RxHolds
      <3> HIDE DEF n
      <3>2. QED
        BY <2>2, <2>3, <2>5, <3>1, SlotsRead DEF filled
    <2>8. Parted(full, empty, B!RxBufs) /\ \A k \in 0 .. (n - 1) : brx.buf[full[k]] = bwire[k + 1]
      BY <2>1 DEF RxHolds
    <2> HIDE DEF n, m, offered, filled
    <2>9. /\ DOMAIN offered = 1 .. m /\ \A k \in 1 .. m : k - 1 \in 0 .. (m - 1) /\ s[k] = empty[k - 1]
      <3>1. DOMAIN offered = 1 .. m
        BY <2>6
      <3> SUFFICES ASSUME NEW k \in 1 .. m PROVE k - 1 \in 0 .. (m - 1) /\ s[k] = empty[k - 1]
        BY <3>1
      <3>2. k - 1 \in 0 .. (m - 1)
        BY <2>5
      <3>3. offered[k] = Wrap(c + (k - 1), RXPROD_RING_SIZE)
        BY <2>6
      <3>4. QED
        BY <2>4, <3>1, <3>2, <3>3 DEF ProdBuf
    <2>10. /\ DOMAIN filled = 1 .. n /\ \A k \in 1 .. n : k - 1 \in 0 .. (n - 1) /\ t[k] = full[k - 1]
      <3>1. DOMAIN filled = 1 .. n
        BY <2>7
      <3> SUFFICES ASSUME NEW k \in 1 .. n PROVE k - 1 \in 0 .. (n - 1) /\ t[k] = full[k - 1]
        BY <3>1
      <3>2. k - 1 \in 0 .. (n - 1)
        BY <2>5
      <3>3. filled[k] = Wrap(r + (k - 1), size)
        BY <2>7
      <3>4. QED
        BY <2>2, <2>3, <3>1, <3>2, <3>3 DEF RetBuf
    <2>11. Shifted(s, empty, m) /\ Shifted(t, full, n)
      BY <2>9, <2>10 DEF Shifted
    <2>12. DOMAIN full = 0 .. (n - 1) /\ DOMAIN empty = 0 .. (m - 1) /\ DOMAIN s = 1 .. m /\ DOMAIN t = 1 .. n
      BY <2>9, <2>10
    <2>13. \A k \in 1 .. n : t[k] = brx.ret[filled[k]].buf
      BY <2>10
    <2>14. \A k \in 1 .. n : t[k] \in B!RxBufs /\ brx.buf[t[k]] = bwire[k]
      <3> HIDE DEF full, t, empty, s
      <3> SUFFICES ASSUME NEW k \in 1 .. n PROVE t[k] \in B!RxBufs /\ brx.buf[t[k]] = bwire[k]
        OBVIOUS
      <3>1. k - 1 \in 0 .. (n - 1) /\ (k - 1) + 1 = k
        BY <2>5
      <3>2. brx.buf[full[k - 1]] = bwire[(k - 1) + 1] /\ full[k - 1] \in B!RxBufs
        BY <2>8, <2>12, <3>1 DEF Parted
      <3>3. QED
        BY <2>10, <3>1, <3>2
    <2>15. Len(filled) = n
      BY <2>5, <2>7
    <2>16. B!RxIntact
      <3>1. \A k \in DOMAIN filled : brx.ret[filled[k]].buf # None /\ brx.buf[brx.ret[filled[k]].buf] = bwire[k]
        BY <2>10, <2>13, <2>14
      <3>2. Len(filled) = Len(bwire)
        BY <2>15 DEF n
      <3>3. QED
        BY <3>1, <3>2 DEF B!RxIntact, filled
    <2>17. Lists(s \o t, B!RxBufs, m + n)
      <3> HIDE DEF full, t, empty, s
      <3>1. n \in Nat /\ m \in Nat
        BY <2>5
      <3>2. DOMAIN full = 0 .. (n - 1) /\ DOMAIN empty = 0 .. (m - 1)
        BY <2>12
      <3>3. Parted(full, empty, B!RxBufs) /\ Shifted(s, empty, m) /\ Shifted(t, full, n)
        BY <2>8, <2>11
      <3>4. QED
        BY <3>1, <3>2, <3>3, PartedConcat
    <2>18. B!RxConserved
      BY <2>5, <2>17 DEF B!RxConserved, offered, filled, Lists
    <2>19. QED
      BY <2>16, <2>18
  <1>3. ASSUME bpc = "open" PROVE B!TxIntact
    <2> DEFINE n == Len(btxq)
               d == SentCount(btx, btxq)
               queued == B!Slots(bdev.txcons, bdev.txprod, TX_RING_SIZE)
    <2>1. TxHolds(btx, bdev.txcons, bdev.txprod, btxq) /\ btx \in BcmTxs /\ btxq \in Seq(Packets)
      BY <1>3 DEF BcmInv, BcmRunning, BcmRuns, BcmTypes
    <2>2. PICK st \in 0 .. (TX_RING_SIZE - 1) : st = btx.start
      BY <2>1 DEF BcmTxs, BcmSendRing
    <2>3. PICK a \in 0 .. MAX_TX_BUF : a = btx.avail
      BY <2>1 DEF BcmTxs
    <2>4. n \in Nat /\ d \in Nat /\ d + n <= MAX_TX_BUF
      BY <2>1, <2>3 DEF TxHolds, SentCount
    <2>5. PICK c \in 0 .. (TX_RING_SIZE - 1) : c = bdev.txcons
      BY DEF BcmInv, BcmTypes, BcmDevs, BcmSendRing
    <2>6. /\ c = Wrap(st + d, TX_RING_SIZE) /\ bdev.txprod = Wrap(st + (d + n), TX_RING_SIZE)
          /\ \A k \in B!TxBufs : btx.ring[Wrap(st + k, TX_RING_SIZE)] \in B!TxBufs
          /\ \A k \in 0 .. (n - 1) : btx.buf[btx.ring[Wrap(st + (d + k), TX_RING_SIZE)]] = btxq[k + 1]
      BY <2>1, <2>2, <2>5 DEF TxHolds, SendBuf
    <2> HIDE DEF d, n, queued
    <2>7. \A k \in 0 .. n : Wrap(c + k, TX_RING_SIZE) = Wrap(st + (d + k), TX_RING_SIZE)
      BY <2>4, <2>6, SMTT(20) DEF Wrap
    <2>8. queued = [l \in 1 .. n |-> Wrap(c + (l - 1), TX_RING_SIZE)]
      <3>1. bdev.txprod = Wrap(c + n, TX_RING_SIZE) /\ n \in 0 .. (TX_RING_SIZE - 1)
        BY <2>4, <2>6, <2>7
      <3>2. QED
        BY <2>5, <3>1, SlotsRead DEF queued
    <2>9. ASSUME NEW k \in 1 .. n
          PROVE  btx.ring[queued[k]] \in B!TxBufs /\ btx.buf[btx.ring[queued[k]]] = btxq[k]
      <3>1. k - 1 \in 0 .. (n - 1) /\ k - 1 \in 0 .. n /\ (k - 1) + 1 = k /\ d + (k - 1) \in B!TxBufs
        BY <2>4 DEF B!TxBufs
      <3>2. queued[k] = Wrap(st + (d + (k - 1)), TX_RING_SIZE)
        BY <2>7, <2>8, <3>1
      <3>3. QED
        BY <2>6, <3>1, <3>2
    <2>10. Len(queued) = Len(btxq) /\ DOMAIN queued = 1 .. n
      BY <2>4, <2>8 DEF n
    <2>11. QED
      BY <2>9, <2>10 DEF B!TxIntact, queued
  <1>4. QED
    BY <1>1, <1>2, <1>3 DEF B!RxConserved, B!RxIntact, B!TxIntact

NicInv == BcmInv /\ E1000Inv /\ VethInv

\* Every step of the composition is a step of each driver or leaves it alone.
LEMMA NicStep ==
    ASSUME NicInv, [MCNext]_<<part, vars, nicvars, usbvars>>
    PROVE  NicInv'
  <1>1. [B!Next]_bvars /\ [E!Next]_evars /\ [V!Next]_vvars
    <2>1. CASE UNCHANGED <<part, vars, nicvars, usbvars>>
      BY <2>1 DEF nicvars
    <2>2. CASE MCNext
      BY <2>2 DEF MCNext, nicvars
    <2>3. QED
      BY <2>1, <2>2
  <1>2. QED
    BY <1>1, BcmStep, E1000Step, VethStep DEF NicInv

\* The three invariants hold of the composition.
LEMMA NicInvariant == MCSpec => []NicInv
  <1>1. MCInit => NicInv
    BY BcmInitially, E1000Initially, VethInitially DEF MCInit, NicInv
  <1>2. NicInv /\ [MCNext]_<<part, vars, nicvars, usbvars>> => NicInv'
    BY NicStep
  <1>3. QED
    BY <1>1, <1>2, PTL DEF MCSpec

\* After e1k_term and bcm57xx_term, and after an open that failed, the controller can
\* neither receive nor send; the engines of the e1000 never run without its memory
\* mapped, and the hypervisor knows a logical LAN only while the memory libveth_init
\* allocated for it lasts. For every size of the rings.
THEOREM NicQuiet == MCSpec => []NicQuietWhenClosed
  <1>1. NicInv => NicQuietWhenClosed
    BY BcmInvImplies, E1000InvImplies, VethInvImplies DEF NicInv, NicQuietWhenClosed
  <1>2. QED
    BY <1>1, NicInvariant, PTL

\* The frames that e1k_receive, bcm57xx_receive and libveth_read have not returned yet
\* wait in order and unharmed at the positions they will look at next, the packets
\* given to e1k_xmit and bcm57xx_xmit are on the rings as the callers wrote them, and
\* every receive buffer of bcm57xx and veth is with exactly one of driver and device
\* (veth: on queue memory that was cleared, see vclean). For every size of the rings
\* and every number of buffers.
THEOREM NicFrames == MCSpec => []FramesIntact
  <1>1. NicInv => FramesIntact
    BY BcmInvImplies, E1000InvImplies, VethInvImplies DEF NicInv, FramesIntact
  <1>2. QED
    BY <1>1, NicInvariant, PTL
=============================================================================
