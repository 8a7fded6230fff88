------------------------------ MODULE AllocMem ------------------------------
(***************************************************************************)
(* The heap of the Forth engine, slof/fs/alloc-mem.fs: one list of free    *)
(* blocks per power of two; a block is split when its list is empty, and   *)
(* blocks are never joined again.  The last block put on a list is taken   *)
(* first.                                                                  *)
(***************************************************************************)
EXTENDS Integers, Sequences, FiniteSets

CONSTANTS
    HeapStart, HeapLog,    \* the heap: 2^HeapLog bytes from HeapStart
    MinLog,                \* the smallest block: 8 bytes, MinLog = 3
    HeapLens,              \* lengths asked for
    MaxBlocks              \* bound on the blocks in use

ConstantsOK == HeapStart > 0 /\ MinLog <= HeapLog /\ \A l \in HeapLens : l > 0

VARIABLES
    heads,    \* the lists of free blocks, by the logarithm of their size
    blocks    \* history: the blocks in use, with the length asked for

amvars == <<heads, blocks>>

Logs == MinLog .. HeapLog

log2(n) == CHOOSE k \in 0 .. n : 2 ^ k >= n /\ (k = 0 \/ 2 ^ (k - 1) < n)
size_to_head(len) == IF log2(len) > MinLog THEN log2(len) ELSE MinLog

\* alloc-mem: the first block of the list, or the upper half of a block of twice
\* the size; 0 when there is none up to the largest.
alloc_mem(len) ==
    LET Take[k \in MinLog .. HeapLog + 1] ==
            IF k > HeapLog THEN [addr |-> 0, heads |-> heads]
            ELSE IF heads[k] # <<>>
            THEN [addr |-> Head(heads[k]), heads |-> [heads EXCEPT ![k] = Tail(heads[k])]]
            ELSE LET r == Take[k + 1]
                 IN  IF r.addr = 0 THEN r
                     ELSE [addr |-> r.addr + 2 ^ k, heads |-> [r.heads EXCEPT ![k] = <<r.addr>>]]
    IN  Take[IF size_to_head(len) > HeapLog THEN HeapLog + 1 ELSE size_to_head(len)]

Init ==
    /\ heads = [k \in Logs |-> IF k = HeapLog THEN <<HeapStart>> ELSE <<>>]
    /\ blocks = {}

Alloc ==
    \E len \in HeapLens :
        /\ Cardinality(blocks) < MaxBlocks
        /\ heads' = alloc_mem(len).heads
        /\ blocks' = IF alloc_mem(len).addr = 0 THEN blocks
                     ELSE blocks \cup {[addr |-> alloc_mem(len).addr, len |-> len]}

\* free-mem: the block goes on the list of its length.
free_mem ==
    \E b \in blocks :
        /\ heads' = [heads EXCEPT ![size_to_head(b.len)] = <<b.addr>> \o @]
        /\ blocks' = blocks \ {b}

Next == Alloc \/ free_mem

-----------------------------------------------------------------------------
Listed == UNION {{[addr |-> heads[k][i], log |-> k] : i \in DOMAIN heads[k]} : k \in Logs}
InUse == {[addr |-> b.addr, log |-> size_to_head(b.len)] : b \in blocks}
Bytes(b) == b.addr .. b.addr + 2 ^ b.log - 1

\* The blocks in use and those on the lists are disjoint, aligned to their size
\* within the heap and together the whole heap, after any sequence of
\* allocations and frees (alloc-mem, free-mem).
BlocksTile ==
    /\ \A b, c \in Listed \cup InUse : b = c \/ Bytes(b) \cap Bytes(c) = {}
    /\ Listed \cap InUse = {}
    /\ \A b \in Listed \cup InUse : (b.addr - HeapStart) % 2 ^ b.log = 0
    /\ UNION {Bytes(b) : b \in Listed \cup InUse} = HeapStart .. HeapStart + 2 ^ HeapLog - 1
=============================================================================
