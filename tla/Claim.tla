------------------------------- MODULE Claim --------------------------------
(***************************************************************************)
(* Claim and release of memory, slof/fs/claim.fs: the table of available   *)
(* ranges, sorted by address and searched by halves, from which claim cuts *)
(* a range at a given address or the best fitting aligned one, and into    *)
(* which release puts a range back, joined with its neighbours.            *)
(*                                                                         *)
(* The table is the sequence of its entries up to the first empty one.     *)
(* Callers never give ranges of length 0.                                  *)
(***************************************************************************)
EXTENDS Integers, Sequences, FiniteSets

CONSTANTS
    AVAILABLE_SIZE,     \* entries of the table
    MIN_RAM_SIZE,       \* memory assumed before the memory nodes are known
    MIN_RAM_RESERVE,    \* its first pages, for the exception vectors
    Firmware,           \* <<address, length>> of the firmware's own region
    RamSize,            \* the size of the first memory node
    Lens, Aligns        \* what callers ask for

ConstantsOK ==
    /\ AVAILABLE_SIZE > 2 /\ MIN_RAM_RESERVE < Firmware[1]
    /\ Firmware[1] + Firmware[2] < MIN_RAM_SIZE /\ MIN_RAM_SIZE < RamSize
    /\ 0 \notin Lens \cup Aligns

VARIABLES
    available,
    mem_pre_released,   \* the first memory node is not released yet
    held,               \* addresses claimed by somebody
    overflow            \* release found the table full: "Dying ..."

clvars == <<available, mem_pre_released, held, overflow>>

Range(a, len) == a .. a + len - 1
Seg(a, len) == [address |-> a, size |-> len]
SegEnd(s) == s.address + s.size - 1

-----------------------------------------------------------------------------
\* (find-available): the entry that holds the range, or the place where it would
\* be inserted; a range that overlaps an entry without lying in it has neither.
find_available(av, a, len) ==
    LET e == a + len - 1
        Find[p \in 1 .. AVAILABLE_SIZE + 1, n \in 0 .. AVAILABLE_SIZE] ==
            IF n = 0 THEN [ptr |-> p, found |-> FALSE]
            ELSE LET half == n \div 2
                     mid == p + half
                 IN  CASE mid > Len(av) -> Find[p, half]
                       [] mid <= Len(av) /\ a > SegEnd(av[mid]) -> Find[mid + 1, n - half - 1]
                       [] mid <= Len(av) /\ e < av[mid].address -> Find[p, half]
                       [] OTHER -> IF a >= av[mid].address /\ e <= SegEnd(av[mid])
                                   THEN [ptr |-> mid, found |-> TRUE]
                                   ELSE [ptr |-> 0, found |-> FALSE]
    IN  Find[1, AVAILABLE_SIZE]

\* Variant: a range is never joined with the one before it.
NeverSticks(av, a, p) == FALSE

\* (stick-to-previous-available): the range begins where the entry before ends.
stick_to_previous_available(av, a, p) == p > 1 /\ SegEnd(av[p - 1]) + 1 = a

\* insert-available and the store after it: entry p and the one before it are
\* merged with the range where they touch it, otherwise the rest moves up.
insert_available(av, a, len, p) ==
    LET next == p <= Len(av) /\ av[p].address - len = a
        prev == stick_to_previous_available(av, a, p)
        from == IF prev THEN av[p - 1].address ELSE a
        to == IF next THEN SegEnd(av[p]) ELSE a + len - 1
    IN  SubSeq(av, 1, IF prev THEN p - 2 ELSE p - 1)
        \o <<Seg(from, to - from + 1)>>
        \o SubSeq(av, IF next THEN p + 1 ELSE p, Len(av))

\* release: ranges already or partly released are reported and left alone.
Released(av, a, len) ==
    LET r == find_available(av, a, len)
    IN  IF r.found \/ r.ptr = 0 THEN av ELSE insert_available(av, a, len, r.ptr)

\* drop-available: cut a range out of entry p; a head stays in the entry, a tail
\* takes its place or, behind a head, is released.
drop_available(av, a, len, p) ==
    LET head == a - av[p].address
        tail == av[p].size - head - len
    IN  IF head # 0
        THEN LET cut == [av EXCEPT ![p].size = head]
             IN  IF tail = 0 THEN cut ELSE Released(cut, a + len, tail)
        ELSE IF tail = 0 THEN SubSeq(av, 1, p - 1) \o SubSeq(av, p + 1, Len(av))
             ELSE [av EXCEPT ![p] = Seg(a + len, tail)]

pwr2roundup(v) == CHOOSE q \in {2 ^ k : k \in 0 .. v} : q >= v /\ (q = 1 \/ q \div 2 < v)

\* (claim-best-fit): of the entries that seem to fit, the one that leaves least;
\* its address rounded up, or -1.
claim_best_fit(av, len, align) ==
    LET q == pwr2roundup(align)
        residue(i) == av[i].size - len
        fit == {i \in 1 .. Len(av) : residue(i) >= 0 /\ residue(i) >= av[i].address % q}
        best == CHOOSE i \in fit : \A j \in fit : residue(i) < residue(j) \/ (residue(i) = residue(j) /\ i <= j)
    IN  IF fit = {} THEN -1 ELSE ((av[best].address + q - 1) \div q) * q

-----------------------------------------------------------------------------
\* Loading claim.fs: the assumed memory is released, the vectors and the firmware
\* are claimed.
Init ==
    LET av0 == <<Seg(0, MIN_RAM_SIZE)>>
        av1 == drop_available(av0, 0, MIN_RAM_RESERVE, find_available(av0, 0, MIN_RAM_RESERVE).ptr)
    IN  /\ available = drop_available(av1, Firmware[1], Firmware[2],
                                      find_available(av1, Firmware[1], Firmware[2]).ptr)
        /\ mem_pre_released = TRUE
        /\ held = Range(0, MIN_RAM_RESERVE) \cup Range(Firmware[1], Firmware[2])
        /\ overflow = FALSE

\* The table after an operation, unless it has become too long.
Store(av) ==
    IF Len(av) > AVAILABLE_SIZE
    THEN overflow' = TRUE /\ UNCHANGED available
    ELSE available' = av /\ UNCHANGED overflow

\* The range found is taken; otherwise claim throws and nothing has changed.
TakeRange(a, len) ==
    LET r == find_available(available, a, len)
    IN  /\ r.found
        /\ Store(drop_available(available, a, len, r.ptr))
        /\ held' = held \cup Range(a, len)
        /\ UNCHANGED mem_pre_released

\* claim with alignment 0: at the address given.
ClaimAt(a, len) == ~overflow /\ TakeRange(a, len)

\* claim with an alignment: anywhere.
ClaimAligned(len, align) ==
    /\ ~overflow
    /\ LET base == claim_best_fit(available, len, align) IN base # -1 /\ TakeRange(base, len)

\* release of claimed memory, in whole or in part, and of memory that is free
\* already or partly.
release(a, len) ==
    /\ ~overflow
    /\ Range(a, len) \subseteq held \/ \E s \in Range(a, len) : \E i \in 1 .. Len(available) :
                                           s \in Range(available[i].address, available[i].size)
    /\ ~(a = 0 /\ mem_pre_released)
    /\ Store(Released(available, a, len))
    /\ held' = IF Range(a, len) \subseteq held THEN held \ Range(a, len) ELSE held
    /\ UNCHANGED mem_pre_released

\* The release of the first memory node, of which a part was released in advance
\* ((adjust-release0)).
release_node ==
    /\ ~overflow /\ mem_pre_released
    /\ Store(Released(available, MIN_RAM_SIZE, RamSize - MIN_RAM_SIZE))
    /\ mem_pre_released' = FALSE
    /\ UNCHANGED held

Next ==
    \/ \E a \in 0 .. RamSize - 1, len \in Lens : ClaimAt(a, len)
    \/ \E len \in Lens, align \in Aligns : ClaimAligned(len, align)
    \/ \E a \in 0 .. RamSize - 1, len \in Lens : release(a, len)
    \/ release_node

-----------------------------------------------------------------------------
Known == Range(0, IF mem_pre_released THEN MIN_RAM_SIZE ELSE RamSize)

\* The table is sorted, its ranges do not even touch, and together they are the
\* memory nobody has claimed: no sequence of claims and releases loses memory,
\* hands it out twice or leaves it split (claim, release, insert-available,
\* drop-available).
AvailableExact ==
    ~overflow =>
        /\ \A i \in 1 .. Len(available) - 1 : SegEnd(available[i]) + 1 < available[i + 1].address
        /\ UNION {Range(available[i].address, available[i].size) : i \in 1 .. Len(available)} = Known \ held

\* The search by halves finds exactly the ranges that are free, so a claim at an
\* address is refused only where some of the memory is taken; an aligned claim
\* is given aligned memory, and is refused only for want of it if all free
\* ranges begin aligned ((find-available), (claim-best-fit)).
ClaimsFound ==
    ~overflow =>
        /\ \A a \in Known, len \in Lens :
              find_available(available, a, len).found <=> Range(a, len) \subseteq Known \ held
        /\ \A len \in Lens, align \in Aligns :
              LET base == claim_best_fit(available, len, align)
              IN  /\ base # -1 => base % pwr2roundup(align) = 0
                  /\ (\A i \in 1 .. Len(available) : available[i].address % pwr2roundup(align) = 0)
                        => IF base = -1 THEN \A i \in 1 .. Len(available) : available[i].size < len
                           ELSE Range(base, len) \subseteq Known \ held
=============================================================================
