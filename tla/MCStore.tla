------------------------------ MODULE MCStore -------------------------------
(***************************************************************************)
(* What the firmware keeps and loads, for TLC: the NVRAM with its          *)
(* partitions and variables, a file read over 9P, an ELF image placed in   *)
(* memory, and the three managers of memory.  Each behaviour of the model  *)
(* follows one of the parts.                                               *)
(***************************************************************************)
EXTENDS Integers, Sequences, TLC

CONSTANTS Stores, AnyFill, MaxOps, MaxResets

VARIABLES
    part,
    fpc, buf_size, conn, pend, rx, srv, data, loads, result,
    epc, efile, eto, esw, ei, emem, eret, ecalls,
    nv, todo, rtas, npc, known, env, torn, goal, nops, resets, cut,
    available, mem_pre_released, held, overflow, heads, blocks,
    mem, actptr, act, heap_end, ptrs, refused

pvars == <<fpc, buf_size, conn, pend, rx, srv, data, loads, result>>
lvars == <<epc, efile, eto, esw, ei, emem, eret, ecalls>>
nvvars == <<nv, todo, rtas, npc, known, env, torn, goal, nops, resets, cut>>
clvars == <<available, mem_pre_released, held, overflow>>
amvars == <<heads, blocks>>
mavars == <<mem, actptr, act, heap_end, ptrs, refused>>
memvars == <<clvars, amvars, mavars>>
storevars == <<pvars, lvars, nvvars>>

-----------------------------------------------------------------------------
(* The 9P server's files, with their sizes, and the paths asked for: more  *)
(* elements than one walk takes, empty and "." elements, missing files.    *)
Shared == (<<"a", "b", "c", "d">> :> 3) @@ (<<"a", "b", "d">> :> 2) @@ (<<"c">> :> 1)
Paths == {<<"a", "/", "b", "/", "c", "/", "d">>, <<"/", "a", "/", ".", "/", "b", "/", "/", "d">>,
          <<"c", "/">>, <<>>, <<"a", "/", "long">>, <<"a", "/", "b", "/", "x">>, <<".", "/", "a", "/", "c">>}

(* ELF images: a relocatable client program, a little-endian kernel, a     *)
(* 32-bit image of the other byte order, one whose virtual addresses       *)
(* differ, and three that must be refused.                                 *)
Phdr(t, o, a, fs, ms) ==
    [p_type |-> t, p_offset |-> o, p_paddr |-> a, p_vaddr |-> a, p_filesz |-> fs, p_memsz |-> ms]
Rela(t, at, s, a) == [type |-> t, r_offset |-> at, st_value |-> s, r_addend |-> a, alloc |-> TRUE]
Use(k, at, target) == [kind |-> k, at |-> at, target |-> target]
Client ==
    [ident |-> TRUE, ei_class |-> 2, ei_data |-> "MSB", e_type |-> "DYN", e_machine |-> "PPC",
     e_entry |-> 8, e_flags |-> 0, movable |-> TRUE, phoff |-> 1, phnum |-> 3,
     phdrs |-> <<Phdr("LOAD", 8, 8, 12, 14), Phdr("NOTE", 0, 0, 4, 4), Phdr("LOAD", 20, 24, 4, 6),
                 Phdr("NULL", 0, 0, 0, 0)>>,
     after |-> {},
     halves |-> [i \in 1..24 |-> CASE i = 23 -> 6 [] i = 24 -> 4 [] i \in 21..22 -> 0 [] OTHER -> i % 16],
     shoff |-> 24,
     sections |-> {[sh_offset |-> 8, sh_size |-> 16], [sh_offset |-> 24, sh_size |-> 5]},
     relas |-> <<Rela("HA", 8, 20, 10), Rela("LO", 9, 30, 0), Rela("HIGHEST", 10, 4660, 0),
                 Rela("HIGHER", 11, 4660, 0), Rela("HI", 12, 4660, 0), Rela("LO", 13, 4660, 0),
                 Rela("ADDR64", 14, 26, -1), Rela("ADDR32", 18, 200, 0), Rela("TOC", 24, 0, 0),
                 Rela("LO", 3, 0, 0), Rela("REL24", 8, 0, 0), [Rela("LO", 9, 1, 0) EXCEPT !.alloc = FALSE]>>,
     uses |-> {[kind |-> "pair", at |-> 8, lo |-> 9, target |-> 30], Use("quad", 10, 4660),
               Use("word", 14, 25), Use("short", 18, 200), Use("word", 24, 100)}]
Kernel == [Client EXCEPT !.ei_data = "LSB", !.e_type = "EXEC", !.e_flags = 2, !.relas = <<>>, !.uses = {}]
Images ==
    [client |-> Client,
     kernel |-> Kernel,
     boot32 |-> [Client EXCEPT !.ei_class = 1, !.ei_data = "LSB", !.e_type = "EXEC"],
     virtual |-> [Client EXCEPT !.phdrs[1].p_vaddr = 9, !.movable = FALSE],
     object |-> [Client EXCEPT !.e_type = "REL"],
     x86 |-> [Kernel EXCEPT !.e_machine = "x86"],
     script |-> [Client EXCEPT !.ident = FALSE]]

(* NVRAM names and variables are bytes.  The last set of variables fills   *)
(* the common partition to its last byte.                                  *)
NvNames ==
    [log0 |-> <<11, 12, 13>>, log1 |-> <<11, 12, 14>>, common |-> <<21, 22>>, free |-> <<31, 32>>,
     debug |-> <<41>>, user |-> <<51, 52, 53, 54>>]
Digits(n) == [i \in 1..n |-> 50]
NvVarSets ==
    {<< <<<<65, 66>>, <<48, 49, 50>>>>, <<<<67>>, <<51>>>> >>,
     << <<<<65, 66>>, <<49>>>>, <<<<67>>, <<>>>>, <<<<68>>, Digits(25)>>, <<<<69>>, <<52>>>> >>,
     << <<<<65, 66>>, Digits(19)>>, <<<<68>>, Digits(6)>>, <<<<69>>, <<52>>>> >>}
NvDebug == {<<<<71>>, <<48>>>>, <<<<71>>, <<49, 50, 51>>>>, <<<<72>>, <<52>>>>}

P == INSTANCE P9 WITH PathSet <- Paths, Files <- Shared, BufSize <- 100, MSizes <- {30, 40, 200},
                      Block <- 10, MaxElmt <- 2, MaxLoads <- 3, MaxLate <- 2
L == INSTANCE Elf WITH Files <- Images, LoadAddrs <- {8, 13, 1, 20}, Memory <- 0..47, HM <- 16,
                       PhSize <- 1, MaxLoads <- 2
N == INSTANCE Nvram WITH NVRAM_LENGTH <- 192, Log0Len <- 32, Log1Len <- 32, CommonLen <- 48,
                         Names <- NvNames, UserLens <- {20, 40}, DebugLen <- 16,
                         VarSets <- NvVarSets, DebugVars <- NvDebug
C == INSTANCE Claim WITH AVAILABLE_SIZE <- 4, MIN_RAM_SIZE <- 9, MIN_RAM_RESERVE <- 1, Firmware <- <<3, 2>>,
                         RamSize <- 12, Lens <- {1, 2, 4}, Aligns <- {1, 2, 3}
F == INSTANCE AllocMem WITH HeapStart <- 16, HeapLog <- 4, MinLog <- 1, HeapLens <- {1, 2, 3, 8, 17}, MaxBlocks <- 3
M == INSTANCE Malloc WITH HEAP_SIZE <- 15, HS <- 2, Page <- 6, Sizes <- {1, 4}, Owners <- {"a", "b", "c"},
                          Alignments <- {2}

ASSUME C!ConstantsOK /\ F!ConstantsOK /\ M!ConstantsOK

-----------------------------------------------------------------------------
Init ==
    /\ part \in Stores
    /\ P!Init /\ L!Init /\ N!Init /\ C!Init /\ F!Init /\ M!Init
    /\ part # "elf" => efile = "client"
    /\ part # "nvram" => rtas /\ nv[0] = 0

Next ==
    /\ UNCHANGED part
    /\ \/ part = "9p" /\ P!Next /\ UNCHANGED <<lvars, nvvars, memvars>>
       \/ part = "elf" /\ L!Next /\ UNCHANGED <<pvars, nvvars, memvars>>
       \/ part = "nvram" /\ N!Next /\ UNCHANGED <<pvars, lvars, memvars>>
       \/ part = "claim" /\ C!Next /\ UNCHANGED <<storevars, amvars, mavars>>
       \/ part = "forth heap" /\ F!Next /\ UNCHANGED <<storevars, clvars, mavars>>
       \/ part = "c heap" /\ M!Next /\ UNCHANGED <<storevars, clvars, amvars>>

Spec == Init /\ [][Next]_<<part, storevars, memvars>>

\* A load over 9P that reports success has put the file named by the path, and
\* nothing else, at the address given, whatever late answers the server sends
\* (virtio_9p_load, p9_walk, p9_read).
FileLoaded == P!FileLoaded

\* A loaded ELF image is in memory as the file describes it: every segment
\* copied, its bss cleared, every relocation applied so that the code refers to
\* where it was placed, and the entry point moved along (elf_load_file,
\* load_segment, elf_apply_rela64).
ElfRight == part = "elf" => L!ElfRight

\* The partitions that no operation under way may touch are found again by the
\* walk over the chain, with their length and contents, after every single
\* store: a reset at any moment leaves them (create_nvram_partition,
\* delete_nvram_partition, get_partition).
PartitionsSurvive == part = "nvram" => N!PartitionsSurvive

\* A variable reads as it was last set, also after the values before it grew or
\* shrank and while others are written; of one being added when a reset comes,
\* at most a prefix is there (nvram_add_env, nvram_set_env, nvram_get_env).
VariablesRight == part = "nvram" => N!VariablesRight

\* However claims and releases, allocations and frees are mixed, no manager of
\* memory hands out a byte twice, loses one, or writes its own records over what
\* an owner keeps there; and each refuses only what it cannot give (claim,
\* release, alloc-mem, free-mem, malloc, free, realloc).
MemorySound ==
    /\ part = "claim" => C!AvailableExact /\ C!ClaimsFound
    /\ part = "forth heap" => F!BlocksTile
    /\ part = "c heap" => M!BlocksIntact /\ M!RefusedOnlyIfFull
=============================================================================
