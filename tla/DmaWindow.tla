----------------------------- MODULE DmaWindow -----------------------------
(***************************************************************************)
(* The DMA window of a QEMU PCI host bridge, board-qemu/slof/pci-phb.fs:   *)
(* dma-map-in and dma-map-out take pages of bus address space from the     *)
(* bitmap allocator (slof/allocator.c, module BmAllocator) and enter or    *)
(* clear the hypervisor's translation (TCE) of each page with hv-put-tce.  *)
(* A caller holds the mappings it made and unmaps each of them once.       *)
(*                                                                         *)
(* One Forth word runs at a time; pc follows it through the lazy creation  *)
(* of the bitmap in (init-dma-window-vars) and on to its own work.         *)
(***************************************************************************)
EXTENDS BmAllocator

CONSTANTS
    Buffers,         \* the [virt, size] pairs callers map
    UnmapsFailures   \* TRUE: a caller unmaps the 0 it got from a failed mapping,
                     \* as virtio_free_desc (lib/libvirtio/virtio.c) does

ASSUME PageSizeAssumption == BlockSize > 3
ASSUME BaseAligned == Start % BlockSize = 0
ASSUME BuffersAssumption == Buffers \subseteq [virt : Nat, size : Nat \ {0}]
ASSUME UnmapsAssumption == UnmapsFailures \in BOOLEAN

tce_ps == BlockSize

VARIABLES
    pc,       \* "idle", "init", "block", "in", "out"
    op,       \* "in" or "out": the word that was called ...
    arg,      \* ... and the mapping it works on
    maps,     \* the mappings callers hold
    tce,      \* the hypervisor's entry of each page of the window; 0: no access
    aborted   \* hv-put-tce was refused: ABORT" H_PUT_TCE failed"

dmavars == <<pc, op, arg, maps, tce, aborted>>
vars == <<bmvars, dmavars>>

NoTce == 0

Mapping == [virt : Nat, size : Nat \ {0}, dev : Int, ok : BOOLEAN]

\* tce-ps #aligned: round up to whole pages.
PageUp(n) == tce_ps * ((n + tce_ps - 1) \div tce_ps)

\* dma-align: the size extended by the offset in the first page, in whole pages.
dma_align(size, virt) == PageUp(size + (virt % tce_ps))

\* The sizes the bitmap allocator is asked for.
ASSUME DmaSizesAssumption ==
    { dma_align(b.size, b.virt) : b \in Buffers } \cup {tce_ps} \subseteq Sizes

\* Variant: the address is used as it is.
DmaTruncNothing(addr) == addr

\* dma-trunc
dma_trunc(addr) == addr - (addr % tce_ps)

\* The page numbers a mapping occupies, from what dma-map-out is given.
PagesOf(dev, size) ==
    Run(BitPos(dma_trunc(dev)), BM_NUM_BITS(dma_align(size, dev)))

\* The entry for the k-th page of a buffer: its address with read and write
\* permission (3 OR).
TceEntry(virt, k) == dma_trunc(virt) + (k * tce_ps) + 3

-----------------------------------------------------------------------------

Init ==
    /\ BmInit
    /\ pc = "idle"
    /\ op = "in"
    /\ arg = [virt |-> 0, size |-> 1, dev |-> 0, ok |-> FALSE]
    /\ maps = {}
    /\ tce = [k \in Bits |-> NoTce]
    /\ aborted = FALSE

\* A driver calls SLOF_dma_map_in on one of its buffers.
CallMapIn ==
    /\ pc = "idle"
    /\ \E b \in Buffers :
          arg' = [virt |-> b.virt, size |-> b.size, dev |-> 0, ok |-> FALSE]
    /\ op' = "in"
    /\ pc' = "init"
    /\ UNCHANGED <<bmvars, maps, tce, aborted>>

\* A driver calls SLOF_dma_map_out on a mapping it holds.
CallMapOut ==
    /\ pc = "idle"
    /\ \E m \in maps :
          /\ m.ok \/ UnmapsFailures
          /\ arg' = m
    /\ op' = "out"
    /\ pc' = "init"
    /\ UNCHANGED <<bmvars, maps, tce, aborted>>

\* (init-dma-window-vars) when the bitmap exists ...
WindowReady ==
    /\ pc = "init"
    /\ handle
    /\ pc' = op
    /\ UNCHANGED <<bmvars, op, arg, maps, tce, aborted>>

\* ... and when it does not: create it, and for a window at address 0 ...
CreateBitmap ==
    /\ pc = "init"
    /\ ~handle
    /\ \E memory \in BOOLEAN : SLOF_bm_allocator_init(memory)
    /\ pc' = IF Start = 0 THEN "block" ELSE op
    /\ UNCHANGED <<op, arg, maps, tce, aborted>>

\* Variant: page 0 stays in circulation.
LeaveNullPage ==
    /\ pc = "block"
    /\ pc' = op
    /\ UNCHANGED <<bmvars, op, arg, maps, tce, aborted>>

\* ... take page 0 out of circulation (bm-handle tce-ps bm-alloc drop).
BlockNullPage ==
    /\ pc = "block"
    /\ SLOF_bm_alloc(tce_ps)
    /\ pc' = op
    /\ UNCHANGED <<op, arg, maps, tce, aborted>>

\* dma-map-in without room: prints a message and returns 0.
MapInFails ==
    LET size == dma_align(arg.size, arg.virt)
    IN  /\ pc = "in"
        /\ AllocFails(size)
        /\ SLOF_bm_alloc(size)
        /\ maps' = IF UnmapsFailures THEN maps \cup {arg} ELSE maps
        /\ pc' = "idle"
        /\ UNCHANGED <<op, arg, tce, aborted>>

\* Variant: the loop enters the first page in every entry.
EnterFirstPage(first, n) ==
    [k \in Bits |-> IF k \in Run(first, n) THEN TceEntry(arg.virt, 0) ELSE tce[k]]

\* The ?DO loop of dma-map-in over the pages of the buffer.
EnterPages(first, n) ==
    [k \in Bits |-> IF k \in Run(first, n) THEN TceEntry(arg.virt, k - first)
                                           ELSE tce[k]]

MapIn ==
    LET size == dma_align(arg.size, arg.virt)
        n_bits == BM_NUM_BITS(size)
        first == bm_find_bits(n_bits)
        dev == AllocAddr(size) + (arg.virt % tce_ps)
    IN  /\ pc = "in"
        /\ ~AllocFails(size)
        /\ SLOF_bm_alloc(size)
        /\ IF Run(first, n_bits) \subseteq Bits
           THEN /\ tce' = EnterPages(first, n_bits)
                /\ maps' = maps \cup
                      {[virt |-> arg.virt, size |-> arg.size, dev |-> dev, ok |-> TRUE]}
                /\ UNCHANGED aborted
           ELSE /\ aborted' = TRUE
                /\ UNCHANGED <<tce, maps>>
        /\ pc' = "idle"
        /\ UNCHANGED <<op, arg>>

\* Variant: the loop clears only the pages of the unextended size.
ClearUnextended(dev, size) ==
    [k \in Bits |-> IF k \in Run(BitPos(dma_trunc(dev)), BM_NUM_BITS(size))
                    THEN NoTce ELSE tce[k]]

\* The ?DO loop of dma-map-out.
ClearPages(dev, size) ==
    [k \in Bits |-> IF k \in PagesOf(dev, size) THEN NoTce ELSE tce[k]]

\* dma-map-out: the range goes back to the allocator, then its entries are
\* cleared; a page outside the window is refused by the hypervisor.
MapOut ==
    /\ pc = "out"
    /\ SLOF_bm_free(dma_trunc(arg.dev), dma_align(arg.size, arg.dev))
    /\ maps' = maps \ {arg}
    /\ IF PagesOf(arg.dev, arg.size) \subseteq Bits
       THEN tce' = ClearPages(arg.dev, arg.size) /\ UNCHANGED aborted
       ELSE aborted' = TRUE /\ UNCHANGED tce
    /\ pc' = "idle"
    /\ UNCHANGED <<op, arg>>

Next ==
    \/ CallMapIn \/ CallMapOut
    \/ WindowReady \/ CreateBitmap \/ BlockNullPage
    \/ MapInFails \/ MapIn \/ MapOut

Spec == Init /\ [][Next]_vars

-----------------------------------------------------------------------------

\* The word being run, its argument, the mappings and the table have their types.
TypeOK ==
    /\ BmTypeOK
    /\ pc \in {"idle", "init", "block", "in", "out"}
    /\ op \in {"in", "out"}
    /\ arg \in Mapping
    /\ maps \in SUBSET Mapping
    /\ tce \in [Bits -> Nat] /\ \A k \in Bits : tce[k] # NoTce => tce[k] % tce_ps = 3
    /\ aborted \in BOOLEAN

Established == { m \in maps : m.ok }

\* While a driver holds a mapping, a device that uses its bus address reaches
\* exactly the driver's buffer: every page of it is translated to the page of the
\* buffer at the same distance, and the offset in the page is kept.
TranslationExact ==
    \A m \in Established :
        LET first == BitPos(dma_trunc(m.dev))
        IN  /\ m.dev % tce_ps = m.virt % tce_ps
            /\ m.size <= tce_ps * Cardinality(PagesOf(m.dev, m.size)) - (m.dev % tce_ps)
            /\ \A k \in PagesOf(m.dev, m.size) :
                  k \in Bits /\ tce[k] = TceEntry(m.virt, k - first)

\* The window translates nothing but the mappings held: once a buffer is
\* unmapped, no device can reach it any more.
NoStrayTranslation ==
    \A k \in Bits : tce[k] # NoTce =>
        \E m \in Established : k \in PagesOf(m.dev, m.size)

\* A successful mapping never has bus address 0, which callers cannot tell from a
\* failed one (the comment in (init-dma-window-vars): "Sometimes the window-base
\* appears as zero, that does not go well with NULL pointers.  So block this
\* address").
NullNeverMapped == \A m \in Established : m.dev # 0

-----------------------------------------------------------------------------
(* The invariant that is inductive as long as callers unmap only what was mapped. *)

\* The region of the bitmap allocator behind a mapping, as dma-map-out computes it.
RegionOf(m) == [addr |-> dma_trunc(m.dev), size |-> dma_align(m.size, m.dev)]

\* The word being run works on a mapping that is held, or on a caller's buffer.
CallConsistent ==
    /\ pc \in {"in", "out"} => op = pc
    /\ (pc # "idle" /\ op = "out") => arg \in Established
    /\ (pc # "idle" /\ op = "in") => [virt |-> arg.virt, size |-> arg.size] \in Buffers

\* A mapping has a region of its own, and dma-map-out finds it again.
MappedOnce ==
    /\ maps = Established
    /\ \A m \in maps : RegionOf(m) \in live
    /\ \A m, n \in maps : m # n => RegionOf(m) # RegionOf(n)

\* Page 0 of a window at address 0 is taken before anything is mapped.
NullPageTaken ==
    Start = 0 =>
        /\ (handle /\ pc = "block") => bmw = Bits /\ maps = {}
        /\ (handle /\ pc # "block") => 0 \notin bmw
        /\ \A m \in maps : dma_trunc(m.dev) # 0

DmaInv ==
    /\ TypeOK
    /\ BmInv
    /\ CallConsistent
    /\ MappedOnce
    /\ NullPageTaken
    /\ TranslationExact
    /\ NoStrayTranslation

\* Driven by dma-map-in and dma-map-out, the bitmap allocator sees only well
\* paired calls: what dma-map-out frees is what dma-map-in allocated.
PairsAllocatorCalls == BmSpec
=============================================================================
