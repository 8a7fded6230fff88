-------------------------------- MODULE Elf ---------------------------------
(***************************************************************************)
(* The ELF loader, lib/libelf: elf.c, elf32.c, elf64.c.  It runs on the    *)
(* image of a file in memory, converts its headers in place when they have *)
(* the other byte order, copies the segments to where Forth could claim    *)
(* memory and, in a 64 bit file loaded to an address of the caller's       *)
(* choice, applies the relocations.  The client program (snk) and the      *)
(* firmware itself are loaded from the same image again and again.         *)
(*                                                                         *)
(* The unit of addresses and sizes is the half word of HM values (65536);  *)
(* the program header table is a sequence one longer than e_phnum: the     *)
(* last element is what a reader sees in the bytes behind the table, which *)
(* are the half words `after` of the file.                                 *)
(***************************************************************************)
EXTENDS Integers, Sequences, FiniteSets, SequencesExt

CONSTANTS Files,        \* file name -> image
          LoadAddrs,    \* destination addresses callers choose
          Memory,       \* addresses of memory
          HM,           \* values of a half word
          PhSize,       \* size of a program or section header
          MaxLoads      \* bound: calls of the loader

VARIABLES epc,          \* "idle", "load", "relocate"
          efile, eto,   \* the image; destination, or -1: the addresses in the file
          esw,          \* per image: its headers were byte swapped in place
          ei,           \* program header the loop is at
          emem,         \* memory outside the image; -1: not written
          eret,         \* the latest call's result
          ecalls

evars == <<epc, efile, eto, esw, ei, emem, eret, ecalls>>

F == Files[efile]
Foreign(f) == f.ei_data = "LSB"
NoEntry == 0

Init ==
  /\ epc = "idle" /\ efile \in DOMAIN Files /\ eto = -1
  /\ esw = [f \in DOMAIN Files |-> FALSE]
  /\ ei = 1 /\ emem = [a \in Memory |-> -1] /\ ecalls = 0
  /\ eret = [type |-> 0, entry |-> NoEntry]

-----------------------------------------------------------------------------
(* The checks; a foreign header is swapped first, whatever its state was.  *)
elf_byteswap_header(name) == IF Foreign(Files[name]) THEN ~esw[name] ELSE esw[name]

elf_check_file(f, sw) ==
  IF ~f.ident THEN -1
  ELSE IF sw # Foreign(f) \/ f.e_type \notin {"EXEC", "DYN"} THEN -3
  ELSE IF f.e_machine # "PPC" THEN -4
  ELSE f.ei_class

\* The first PT_LOAD of the table and the header behind it.
elf_get_base_addr(f) ==
  LET loads == SelectSeq(f.phdrs, LAMBDA p : p.p_type = "LOAD")
  IN IF loads = << >> THEN 0 ELSE loads[1].p_paddr

Offset == IF eto = -1 THEN 0 ELSE eto - elf_get_base_addr(F)

AbiType(f, type, to) ==
  IF type = 2 /\ Foreign(f) THEN (IF f.e_flags = 2 THEN 4 ELSE 3)
  ELSE IF type = 1 /\ Foreign(f) /\ to = -1 THEN 5
  ELSE type

elf_load_file(name, to) ==
  /\ epc = "idle" /\ ecalls < MaxLoads /\ ecalls' = ecalls + 1
  /\ efile' = name /\ eto' = to /\ ei' = 1
  /\ emem' = [a \in Memory |-> -1]
  /\ esw' = [esw EXCEPT ![name] = IF Files[name].ident THEN elf_byteswap_header(name) ELSE @]
  /\ LET type == elf_check_file(Files[name], esw'[name]) IN
     /\ eret' = [type |-> type, entry |-> NoEntry]
     /\ epc' = IF type \in {1, 2} THEN "load" ELSE "idle"

-----------------------------------------------------------------------------
(* The loop over the program headers, one more than there are.             *)
\* What the half word at an offset of the image reads as: the conversion also
\* swaps the bytes behind the table.
ImageHalf(f, sw, o) == IF sw /\ o \in f.after THEN -2 ELSE f.halves[o + 1]

Segment(p) == (p.p_paddr + Offset) .. (p.p_paddr + Offset + p.p_memsz - 1)

BssKept(p) ==
  [a \in Memory |->
     LET d == a - (p.p_paddr + Offset) IN
     IF d \in 0 .. (p.p_filesz - 1) THEN ImageHalf(F, esw[efile], p.p_offset + d) ELSE emem[a]]

\* memmove, then memset of the rest
load_segment(p) ==
  [a \in Memory |->
     LET d == a - (p.p_paddr + Offset) IN
     IF d \in 0 .. (p.p_filesz - 1) THEN ImageHalf(F, esw[efile], p.p_offset + d)
     ELSE IF d \in p.p_filesz .. (p.p_memsz - 1) THEN 0 ELSE emem[a]]

\* 0 as entry is an error for elf_load_file only.
LoopEnds(entry) ==
  /\ epc' = IF eto # -1 /\ eret.type = 2 THEN "relocate" ELSE "idle"
  /\ eret' = [type |-> IF eto = -1 /\ entry = 0 THEN 0 ELSE AbiType(F, eret.type, eto),
              entry |-> entry + Offset]

elf_load_segments ==
  /\ epc = "load"
  /\ IF ei > F.phnum + 1
     THEN LoopEnds(F.e_entry) /\ UNCHANGED <<ei, emem>>
     ELSE LET p == F.phdrs[ei] IN
          IF p.p_type # "LOAD" THEN ei' = ei + 1 /\ UNCHANGED <<epc, emem, eret>>
          ELSE IF p.p_paddr # p.p_vaddr THEN LoopEnds(0) /\ UNCHANGED <<ei, emem>>
          ELSE \/ /\ emem' = load_segment(p) /\ ei' = ei + 1 /\ UNCHANGED <<epc, eret>>
               \* elf-claim-segment: the memory is in use, ABORT
               \/ /\ epc' = "idle" /\ eret' = [type |-> 0, entry |-> NoEntry]
                  /\ UNCHANGED <<ei, emem>>
  /\ UNCHANGED <<efile, eto, esw, ecalls>>

-----------------------------------------------------------------------------
(* Relocation of a 64 bit file.                                            *)
Word(n, halves) == [k \in 1 .. halves |-> (n \div HM^(halves - k)) % HM]
Put(mem, at, hs) == [a \in Memory |-> IF a - at + 1 \in DOMAIN hs THEN hs[a - at + 1] ELSE mem[a]]
Value(mem, at) == mem[at] * HM^3 + mem[at + 1] * HM^2 + mem[at + 2] * HM + mem[at + 3]

HighAdjusted(s) == ((s \div HM) + (IF s % HM >= HM \div 2 THEN 1 ELSE 0)) % HM

elf_apply_rela64(mem, r) ==
  LET at == r.r_offset + Offset
      s_a == (r.st_value + Offset + r.r_addend) % HM^4
  IN IF r.r_offset < elf_get_base_addr(F) THEN mem
     ELSE CASE r.type = "ADDR64" -> Put(mem, at, Word(s_a, 4))
            [] r.type = "ADDR32" -> Put(mem, at, Word(s_a, 2))
            [] r.type = "TOC" -> Put(mem, at, Word((Value(mem, at) + Offset) % HM^4, 4))
            [] r.type = "HIGHEST" -> Put(mem, at, <<(s_a \div HM^3) % HM>>)
            [] r.type = "HIGHER" -> Put(mem, at, <<(s_a \div HM^2) % HM>>)
            [] r.type = "HI" -> Put(mem, at, <<(s_a \div HM) % HM>>)
            [] r.type = "LO" -> Put(mem, at, <<s_a % HM>>)
            [] r.type = "LO_DS" -> Put(mem, at, <<(s_a % HM) - (s_a % 4)>>)
            [] r.type = "HA" -> Put(mem, at, <<HighAdjusted(s_a)>>)
            [] OTHER -> mem

\* The tables of sections that were loaded, in the file's order; the section
\* headers of a foreign file are not converted: nothing there is SHT_RELA.
elf_apply_all_rela64(f) == IF Foreign(f) THEN << >> ELSE SelectSeq(f.relas, LAMBDA r : r.alloc)

elf_relocate64 ==
  /\ epc = "relocate"
  /\ emem' = FoldLeft(elf_apply_rela64, emem, elf_apply_all_rela64(F))
  /\ epc' = "idle" /\ UNCHANGED <<efile, eto, esw, ei, eret, ecalls>>

Next ==
  \/ \E name \in DOMAIN Files, to \in LoadAddrs \cup {-1} :
       (to # -1 => Files[name].movable) /\ elf_load_file(name, to)
  \/ elf_load_segments \/ elf_relocate64

-----------------------------------------------------------------------------
(* The size of an image in a larger buffer.  e_ehsize is compared as it    *)
(* is, and the other fields are converted: a foreign image fails either    *)
(* before or after its headers were swapped.                               *)
RoundUp4(n) == ((n + 3) \div 4) * 4
Ends(f) == {f.phdrs[i].p_offset + f.phdrs[i].p_filesz : i \in 1 .. f.phnum}
           \cup {s.sh_offset + s.sh_size : s \in f.sections}
TableFits(f, size) ==
  f.phoff + f.phnum * PhSize <= size /\ f.shoff + Cardinality(f.sections) * PhSize <= size

elf_get_file_size(f, size) ==
  LET ends == Ends(f) \cup {0}
      elf_size == RoundUp4(CHOOSE n \in ends : \A e \in ends : e <= n)
  IN IF ~f.ident \/ Foreign(f) \/ ~TableFits(f, size) \/ elf_size > size
     THEN -1 ELSE elf_size

-----------------------------------------------------------------------------
Done == epc = "idle" /\ eret.type > 0
LoadHeaders == {p \in Range(SubSeq(F.phdrs, 1, F.phnum)) : p.p_type = "LOAD"}

Width(r) == CASE r.type \in {"ADDR64", "TOC"} -> 4 [] r.type = "ADDR32" -> 2 [] OTHER -> 1

RelocatedHalves ==
  IF eto = -1 \/ F.ei_class = 1 THEN {}
  ELSE UNION {LET at == r.r_offset + Offset IN at .. (at + Width(r) - 1) : r \in Range(F.relas)}

\* A load that reports success has put the contents of every segment of the
\* program header table, followed by zeros, where the segment belongs, and has
\* written nowhere else; the entry point moved with it.
SegmentsLoaded ==
  Done =>
    /\ \A p \in LoadHeaders : \A d \in 0 .. (p.p_memsz - 1) :
         LET a == p.p_paddr + Offset + d IN
         a \in RelocatedHalves \/ emem[a] = IF d < p.p_filesz THEN F.halves[p.p_offset + d + 1] ELSE 0
    /\ \A a \in Memory : emem[a] # -1 => \E p \in LoadHeaders : a \in Segment(p)
    /\ eret.entry = F.e_entry + Offset

Signed(h) == IF h >= HM \div 2 THEN h - HM ELSE h

\* The code and data of a moved 64 bit file, put together the way its
\* instructions do, refer to the moved address of what they mean.
ReferencesMoved ==
  (Done /\ eto # -1 /\ F.ei_class = 2) =>
    \A u \in F.uses :
      LET at == u.at + Offset
          target == (u.target + Offset) % HM^4
      IN CASE u.kind = "word" -> Value(emem, at) = target
           [] u.kind = "short" -> emem[at] * HM + emem[at + 1] = target % HM^2
           [] u.kind = "pair" -> (emem[at] * HM + Signed(emem[u.lo + Offset])) % HM^2 = target % HM^2
           [] u.kind = "quad" -> Value(emem, at) = target

\* The size found covers every segment and section of the file, and not more
\* than the buffer.
SizeCovers ==
  \A name \in DOMAIN Files : \A size \in 0 .. 40 :
    LET n == elf_get_file_size(Files[name], size) IN
    n = -1 \/ (n <= size /\ \A e \in Ends(Files[name]) : e <= n)

\* A loaded image is in memory as its file describes it, its references meet
\* their targets, and the size found for a file holds all of it.
ElfRight == SegmentsLoaded /\ ReferencesMoved /\ SizeCovers
=============================================================================
