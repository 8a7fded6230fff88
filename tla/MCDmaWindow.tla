---------------------------- MODULE MCDmaWindow ----------------------------
(* Instance of DmaWindow for TLC: pages of four bytes. *)
EXTENDS DmaWindow

\* An aligned page, an unaligned buffer inside one page, one that crosses a page
\* boundary only because of its offset, and one of two whole pages.
MCBuffers ==
    { [virt |-> 8,  size |-> 4], [virt |-> 17, size |-> 2],
      [virt |-> 22, size |-> 4], [virt |-> 32, size |-> 8] }

MCSizes == { dma_align(b.size, b.virt) : b \in MCBuffers } \cup {BlockSize}
=============================================================================
