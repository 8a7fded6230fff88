------------------------------- MODULE Malloc -------------------------------
(***************************************************************************)
(* The heap of the C library, lib/libc/stdlib: malloc.c, free.c, realloc.c *)
(* and memalign.c over sbrk (slof/sbrk.c).  The heap is a row of chunks,   *)
(* each a header of HS cells with a flag and a length, and the data.       *)
(* Chunks are taken from the end of the initialised part while there is    *)
(* room, then first fit; only when nothing fits are adjacent free chunks   *)
(* merged, and then more memory is asked for.                              *)
(*                                                                         *)
(* Memory is modelled cell by cell, so that a header written over data, or *)
(* data over a header, is seen; what is in a free chunk is forgotten.      *)
(***************************************************************************)
EXTENDS Integers, FiniteSets

CONSTANTS
    HEAP_SIZE,     \* what sbrk can give
    HS,            \* size of struct chunk
    Page,          \* granularity of the first sbrk: 0x1000
    Sizes,         \* sizes asked for
    Owners,        \* who may hold a block
    Alignments     \* powers of two given to memalign

ConstantsOK ==
    /\ HS > 0 /\ Page > 0
    /\ \A s \in Sizes : s > 0 /\ \A b \in Alignments : s + b + HS + Page <= HEAP_SIZE

VARIABLES
    mem,                          \* the cells of the heap
    actptr,                       \* sbrk's pointer
    act, heap_end,                \* malloc's; act = 0 before the first call
    ptrs,                         \* what each owner holds
    refused                       \* the size the last call refused, or 0

mavars == <<mem, actptr, act, heap_end, ptrs, refused>>

heap_start == 1
NULL == 0
Cells == heap_start .. heap_start + HEAP_SIZE - 1

\* A cell holds the first cell of a header, a further one, an owner's data, or
\* nothing yet.
Header(inuse, length) == <<"header", inuse, length>>
Data(o) == <<"data", o, 0>>
Unused == <<"-", 0, 0>>
Nothing == [ptr |-> NULL, size |-> 0, freeable |-> FALSE]

Length(m, a) == m[a][3]
Free(m, a) == m[a][1] = "header" /\ m[a][2] = 0
NextChunk(m, a) == a + HS + Length(m, a)

WriteHeader(m, a, inuse, length) ==
    [c \in Cells |-> IF c = a THEN Header(inuse, length)
                     ELSE IF c \in a + 1 .. a + HS - 1 THEN <<"header+", 0, 0>> ELSE m[c]]

Init ==
    /\ mem = [c \in Cells |-> Unused]
    /\ actptr = heap_start /\ act = 0 /\ heap_end = 0
    /\ ptrs = [o \in Owners |-> Nothing]
    /\ refused = 0

-----------------------------------------------------------------------------
(* malloc.  Its operators work on a record of the heap's variables.        *)

Heap == [mem |-> mem, actptr |-> actptr, act |-> act, heap_end |-> heap_end]

\* sbrk has this much to give.
sbrk_ok(h, increment) == h.actptr + increment <= heap_start + HEAP_SIZE

\* The first call gets a playground.
FirstRegion(h, blksize) ==
    LET initsize == ((blksize + Page) \div Page) * Page
    IN  IF h.act # 0 \/ ~sbrk_ok(h, initsize) THEN h
        ELSE [h EXCEPT !.actptr = @ + initsize, !.act = heap_start, !.heap_end = heap_start + initsize]

\* There is room behind the initialised part.
TailRoom(h, blksize) == h.act + blksize <= h.heap_end

\* The first free chunk that is large enough, or act.
FirstFit(h, size) ==
    LET Fit[a \in heap_start .. h.act] ==
            IF a >= h.act \/ (Free(h.mem, a) /\ Length(h.mem, a) >= size) THEN a
            ELSE Fit[NextChunk(h.mem, a)]
    IN  Fit[heap_start]

\* A chunk is split if the rest has room for a header and more.
SplitChunk(m, a, size) ==
    LET alt == Length(m, a)
    IN  IF alt > size + HS
        THEN WriteHeader(WriteHeader(m, a, 1, size), a + HS + size, 0, alt - size - HS)
        ELSE WriteHeader(m, a, 1, alt)

\* clean: the first chunk of a row of free ones gets the length of them all; the
\* headers within are data now.
clean(h) ==
    LET m == h.mem
        ChunkEnd[a \in heap_start .. h.act] ==     \* the end of the free row from a
            IF a < h.act /\ Free(m, a) THEN ChunkEnd[NextChunk(m, a)] ELSE a
        Merged[a \in heap_start .. h.act] ==
            IF a >= h.act THEN m
            ELSE IF Free(m, a)
            THEN [c \in Cells |-> IF c \in a + HS .. ChunkEnd[a] - 1 THEN Unused
                                  ELSE WriteHeader(Merged[ChunkEnd[a]], a, 0, ChunkEnd[a] - a - HS)[c]]
            ELSE Merged[NextChunk(m, a)]
    IN  [h EXCEPT !.mem = Merged[heap_start]]

\* One attempt: at the end of the heap or in a free chunk.
Attempt(h, size) ==
    IF TailRoom(h, size + HS)
    THEN [heap |-> [h EXCEPT !.mem = WriteHeader(h.mem, h.act, 1, size), !.act = @ + size + HS],
          ptr |-> h.act + HS]
    ELSE LET a == FirstFit(h, size)
         IN  IF a >= h.act THEN [heap |-> h, ptr |-> NULL]
             ELSE [heap |-> [h EXCEPT !.mem = SplitChunk(h.mem, a, size)], ptr |-> a + HS]

\* malloc: an attempt; one more after clean has merged something; one more after
\* sbrk has given more.
malloc(size) ==
    LET h0 == FirstRegion(Heap, size + HS)
        t0 == Attempt(h0, size)
        t1 == Attempt(clean(h0), size)
        more == [t1.heap EXCEPT !.actptr = @ + size + HS, !.heap_end = @ + size + HS]
    IN  CASE h0.act = 0 -> [heap |-> h0, ptr |-> NULL]
          [] h0.act # 0 /\ t0.ptr # NULL -> t0
          [] h0.act # 0 /\ t0.ptr = NULL /\ t1.ptr # NULL -> t1
          [] OTHER -> IF sbrk_ok(t1.heap, size + HS) THEN Attempt(more, size) ELSE t1

\* The owner writes to the cells that are new to it.
Filled(m, o, ptr, from, size) ==
    [c \in Cells |-> IF c \in ptr + from .. ptr + size - 1 THEN Data(o) ELSE m[c]]

\* The heap after a call of malloc for owner o, with memory m.
Take(h, m) ==
    /\ mem' = m
    /\ actptr' = h.actptr /\ act' = h.act /\ heap_end' = h.heap_end

Malloc(o, size) ==
    /\ ptrs[o] = Nothing
    /\ LET r == malloc(size)
       IN  IF r.ptr = NULL
           THEN Take(r.heap, r.heap.mem) /\ refused' = size /\ UNCHANGED ptrs
           ELSE /\ Take(r.heap, Filled(r.heap.mem, o, r.ptr, 0, size))
                /\ ptrs' = [ptrs EXCEPT ![o] = [ptr |-> r.ptr, size |-> size, freeable |-> TRUE]]
                /\ refused' = 0

\* The header of the chunk at p is marked free.
Freed(m, p) ==
    [c \in Cells |-> IF c = p - HS THEN Header(0, Length(m, p - HS))
                     ELSE IF c \in p .. p + Length(m, p - HS) - 1 THEN Unused ELSE m[c]]

free(o) ==
    /\ ptrs[o].freeable
    /\ mem' = Freed(mem, ptrs[o].ptr)
    /\ ptrs' = [ptrs EXCEPT ![o] = Nothing]
    /\ refused' = 0
    /\ UNCHANGED <<actptr, act, heap_end>>

\* What memcpy copies: the old chunk's whole length.
Copied(m, from, to, n) ==
    [c \in Cells |-> IF c \in to .. to + n - 1 THEN m[from + c - to] ELSE m[c]]

\* realloc: the chunk if it is long enough; otherwise a new one with a copy, and the
\* old one is freed.  On failure the old one stays.
realloc(o, size) ==
    /\ ptrs[o].freeable
    /\ LET old == ptrs[o].ptr
           length == Length(mem, old - HS)
           r == malloc(size)
           m == Copied(r.heap.mem, old, r.ptr, length)
       IN  CASE size <= length ->
                  /\ mem' = Filled(mem, o, old, ptrs[o].size, size)
                  /\ ptrs' = [ptrs EXCEPT ![o].size = size]
                  /\ refused' = 0
                  /\ UNCHANGED <<actptr, act, heap_end>>
             [] size > length /\ r.ptr = NULL ->
                  Take(r.heap, r.heap.mem) /\ refused' = size /\ UNCHANGED ptrs
             [] size > length /\ r.ptr # NULL ->
                  /\ Take(r.heap, Filled(Freed(m, old), o, r.ptr, ptrs[o].size, size))
                  /\ ptrs' = [ptrs EXCEPT ![o] = [ptr |-> r.ptr, size |-> size, freeable |-> TRUE]]
                  /\ refused' = 0

\* memalign: an address within a larger block; free would not find its header.
memalign(o, align, size) ==
    /\ ptrs[o] = Nothing
    /\ LET r == malloc(size + align)
           x == ((r.ptr + align - 1) \div align) * align
       IN  IF r.ptr = NULL
           THEN Take(r.heap, r.heap.mem) /\ refused' = size + align /\ UNCHANGED ptrs
           ELSE /\ Take(r.heap, Filled(r.heap.mem, o, x, 0, size))
                /\ ptrs' = [ptrs EXCEPT ![o] = [ptr |-> x, size |-> size, freeable |-> FALSE]]
                /\ refused' = 0

Next ==
    \E o \in Owners :
        \/ free(o)
        \/ \E size \in Sizes : Malloc(o, size) \/ realloc(o, size)
        \/ \E size \in Sizes, align \in Alignments : memalign(o, align, size)

-----------------------------------------------------------------------------
\* The starts of the chunks, as the walk through the headers finds them.
Chunks ==
    LET Walk[a \in heap_start .. act] ==
            IF a >= act THEN {} ELSE {a} \cup Walk[NextChunk(mem, a)]
    IN  IF act = 0 THEN {} ELSE Walk[heap_start]

\* The headers lead from one to the next up to the end, no header has been
\* overwritten, and what an owner wrote is still there, also where realloc moved
\* it: no block overlaps another or a header (malloc, clean, realloc).
BlocksIntact ==
    /\ \A a \in Chunks : mem[a][1] = "header" /\ NextChunk(mem, a) <= act
    /\ act # 0 => act <= heap_end /\ heap_end = actptr
    /\ \A o \in Owners :
          /\ \A c \in ptrs[o].ptr .. ptrs[o].ptr + ptrs[o].size - 1 : mem[c] = Data(o)
          /\ ptrs[o].freeable => ptrs[o].ptr - HS \in Chunks /\ ~Free(mem, ptrs[o].ptr - HS)

\* A request is refused only if neither a row of free chunks nor the end of the
\* heap nor sbrk has room for it (malloc, clean).
RefusedOnlyIfFull ==
    refused # 0 =>
        /\ \A a \in Chunks : Free(mem, a) => Length(mem, a) < refused
        /\ \A a \in Chunks : Free(mem, a) => NextChunk(mem, a) \notin {b \in Chunks : Free(mem, b)}
        /\ ~TailRoom(Heap, refused + HS)
        /\ ~sbrk_ok(Heap, refused + HS)
=============================================================================
