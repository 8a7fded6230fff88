---------------------------- MODULE BmAllocator ----------------------------
(***************************************************************************)
(* The bitmap allocator of slof/allocator.c.  It hands out ranges of a     *)
(* window [Start, Start + Size) in units of BlockSize bytes.  One bit per  *)
(* block says whether the block is free; free_blocks caches how many bits  *)
(* are set.  The callers are modelled by the regions they hold: a region   *)
(* is the address SLOF_bm_alloc returned and the size it was asked for,    *)
(* and a caller passes exactly these two back to SLOF_bm_free.             *)
(***************************************************************************)
EXTENDS Integers, FiniteSets

CONSTANTS
    Start,      \* first address of the window
    Size,       \* bytes in the window
    BlockSize,  \* bytes per block
    Sizes,      \* the sizes callers ask for
    Foreign     \* regions that were never handed out, lying outside the window

Region == [addr : Int, size : Nat]

ASSUME StartAssumption == Start \in Nat
ASSUME BlockSizeAssumption == BlockSize \in Nat \ {0}
\* The code rounds a trailing partial block up to a whole bit but refuses to free
\* it; every caller's window is a multiple of the block size.
ASSUME SizeAssumption == Size \in Nat \ {0} /\ Size % BlockSize = 0
ASSUME SizesAssumption == Sizes \subseteq Nat
ASSUME ForeignAssumption ==
    /\ Foreign \subseteq Region
    /\ \A r \in Foreign : r.addr < Start \/ Start + Size < r.addr + r.size

VARIABLES
    handle,       \* TRUE once SLOF_bm_allocator_init returned a bitmap
    bmw,          \* the positions whose bit is set: the free blocks
    free_blocks,  \* bm->free_blocks
    live          \* the regions callers hold

bmvars == <<handle, bmw, free_blocks, live>>

\* BM_NUM_BITS: blocks needed for a number of bytes, rounded up.
BM_NUM_BITS(reqsize) ==
    (reqsize \div BlockSize) + (IF reqsize % BlockSize = 0 THEN 0 ELSE 1)

TotalBits == BM_NUM_BITS(Size)

Bits == 0 .. (TotalBits - 1)

\* The n_bits positions from i on.
Run(i, n_bits) == i .. (i + n_bits - 1)

\* Variant: the inner loop tests one bit less than it should.
CandidatesShortTest(n_bits) ==
    { i \in bmw : i + n_bits <= TotalBits /\ Run(i, n_bits - 1) \subseteq bmw }

\* The positions at which the search loop of bm_find_bits can stop: the bit is
\* set, the run does not cross the end of the bitmap and all of it is free.
Candidates(n_bits) ==
    { i \in bmw : i + n_bits <= TotalBits /\ Run(i, n_bits) \subseteq bmw }

\* bm_find_bits returns the first candidate (and -1 if there is none).
bm_find_bits(n_bits) ==
    CHOOSE i \in Candidates(n_bits) : \A j \in Candidates(n_bits) : i <= j

BitPos(addr) == (addr - Start) \div BlockSize

AddrOf(bitpos) == Start + bitpos * BlockSize

\* The blocks a region stands for.
BlocksOf(r) == Run(BitPos(r.addr), BM_NUM_BITS(r.size))

-----------------------------------------------------------------------------

BmInit ==
    /\ handle = FALSE
    /\ bmw = {}
    /\ free_blocks = 0
    /\ live = {}

\* SLOF_bm_allocator_init; when alloc-mem has no room for the bitmap the caller
\* gets a null handle and may try again later.
SLOF_bm_allocator_init(memory) ==
    /\ handle' = memory
    /\ bmw' = IF memory THEN Bits ELSE bmw
    /\ free_blocks' = IF memory THEN TotalBits ELSE free_blocks
    /\ UNCHANGED live

\* The early returns of SLOF_bm_alloc.
AllocFails(size) ==
    \/ ~handle
    \/ BM_NUM_BITS(size) > free_blocks
    \/ Candidates(BM_NUM_BITS(size)) = {}

\* The address a successful SLOF_bm_alloc returns.
AllocAddr(size) == AddrOf(bm_find_bits(BM_NUM_BITS(size)))

SLOF_bm_alloc(size) ==
    LET n_bits == BM_NUM_BITS(size)
        addr == AllocAddr(size)
    IN  IF AllocFails(size)
        THEN UNCHANGED bmvars
        ELSE /\ bmw' = bmw \ Run(bm_find_bits(n_bits), n_bits)
             /\ free_blocks' = free_blocks - n_bits
             /\ live' = live \cup {[addr |-> addr, size |-> size]}
             /\ UNCHANGED handle

InWindow(addr, size) == Start <= addr /\ addr + size <= Start + Size

\* Variants: a free that forgets the counter, and one that forgets all but the first
\* bit.
FreeNoCount(addr, size) ==
    IF handle /\ InWindow(addr, size)
    THEN /\ bmw' = bmw \cup Run(BitPos(addr), BM_NUM_BITS(size))
         /\ live' = live \ {[addr |-> addr, size |-> size]}
         /\ UNCHANGED <<handle, free_blocks>>
    ELSE UNCHANGED bmvars
FreeFirstBlockOnly(addr, size) ==
    IF handle /\ InWindow(addr, size)
    THEN /\ bmw' = bmw \cup {BitPos(addr)}
         /\ free_blocks' = free_blocks + 1
         /\ live' = live \ {[addr |-> addr, size |-> size]}
         /\ UNCHANGED handle
    ELSE UNCHANGED bmvars

\* SLOF_bm_free(handle, addr, size): a range outside the window is reported and
\* ignored; otherwise the bits are set and counted without looking at them.
SLOF_bm_free(addr, size) ==
    IF handle /\ InWindow(addr, size)
    THEN /\ bmw' = bmw \cup Run(BitPos(addr), BM_NUM_BITS(size))
         /\ free_blocks' = free_blocks + BM_NUM_BITS(size)
         /\ live' = live \ {[addr |-> addr, size |-> size]}
         /\ UNCHANGED handle
    ELSE UNCHANGED bmvars

Create == ~handle /\ \E memory \in BOOLEAN : SLOF_bm_allocator_init(memory)

Alloc == \E size \in Sizes : SLOF_bm_alloc(size)

FreeLive == \E r \in live : SLOF_bm_free(r.addr, r.size)

FreeForeign == \E r \in Foreign : SLOF_bm_free(r.addr, r.size)

BmNext == Create \/ Alloc \/ FreeLive \/ FreeForeign

BmSpec == BmInit /\ [][BmNext]_bmvars

-----------------------------------------------------------------------------

\* The bitmap, its cached count and the regions held have their types.
BmTypeOK ==
    /\ handle \in BOOLEAN
    /\ bmw \in SUBSET Bits
    /\ free_blocks \in Nat
    /\ live \in SUBSET Region

\* A region that a caller holds lies inside the window, starts on a block
\* boundary and none of its blocks is marked free in the bitmap.
LiveInUse ==
    \A r \in live :
        /\ r.addr = AddrOf(BitPos(r.addr))
        /\ BlocksOf(r) \subseteq Bits \ bmw
        /\ InWindow(r.addr, r.size)

\* SLOF_bm_alloc never hands out a block twice: regions held at the same time
\* share no block, whatever the order of allocations and frees before.
LiveDisjoint ==
    \A r, s \in live : r # s => BlocksOf(r) \cap BlocksOf(s) = {}

\* Conservation: every block is free or held, so freeing everything that was
\* allocated restores the whole window, however fragmented it got.
NoLeak == handle => Bits = bmw \cup UNION { BlocksOf(r) : r \in live }

\* The cached counter SLOF_bm_alloc tests before it searches equals the number
\* of bits set; if it drifted below, allocations that fit would be refused.
FreeBlocksExact == free_blocks = Cardinality(bmw)

\* Nothing is held before the allocator exists.
LiveNeedsHandle == ~handle => live = {} /\ bmw = {} /\ free_blocks = 0

BmInv ==
    /\ BmTypeOK
    /\ LiveNeedsHandle
    /\ LiveInUse
    /\ LiveDisjoint
    /\ NoLeak
    /\ FreeBlocksExact

\* An allocation of at least one block is refused only when no run of that many
\* free blocks exists: the shortcut on free_blocks never refuses what would fit.
RefusedOnlyIfNoRun ==
    handle => \A size \in Sizes :
        AllocFails(size) =>
            ~\E i \in Bits : /\ Run(i, BM_NUM_BITS(size)) # {}
                             /\ Run(i, BM_NUM_BITS(size)) \subseteq bmw
=============================================================================
