------------------------------- MODULE Nvram --------------------------------
(***************************************************************************)
(* The NVRAM, lib/libnvram: nvram.c keeps a chain of partitions in it,     *)
(* envvar.c strings "name=value" in a partition.  The model is byte exact: *)
(* an operation is a function on the memory that also lists the stores it  *)
(* makes, and the machine may be reset between any two of them.  The       *)
(* callers are the Forth words of envvar.fs and history.fs.                *)
(*                                                                         *)
(* Scaled down: the size of the memory, of the partitions and of the       *)
(* names.  Not scaled: headers, checksum and the 16 byte units.            *)
(***************************************************************************)
EXTENDS Integers, Sequences, FiniteSets, SequencesExt

CONSTANTS NVRAM_LENGTH,
          Log0Len, Log1Len, CommonLen,   \* partitions of reset_nvram, with header
          Names,        \* "log0", "log1", "common", "free", "debug", "user" -> bytes
          UserLens, DebugLen,            \* lengths new partitions are asked for
          VarSets,      \* what (nvupdate) writes: sequences of <<name, value>>
          DebugVars,    \* <<name, value>> given to debug-set-env
          AnyFill,      \* TRUE: also calls in states the code does not foresee
          MaxOps, MaxResets              \* bounds; see Begin

VARIABLES nv,           \* the memory
          todo,         \* stores of the running operation still to be made
          rtas,         \* built with RTAS_NVRAM: a block is erased by one call
          npc,          \* "get-nv", "debug-init", "up"
          known,        \* ghost: partitions that must be found and be intact
          env,          \* ghost: partition type -> name -> value
          torn,         \* ghost: variables the running operation writes
          goal,         \* ghost: known, env and npc after the running operation
          nops, resets, cut              \* cut: some operation was interrupted

nvvars == <<nv, todo, rtas, npc, known, env, torn, goal, nops, resets, cut>>

PARTITION_HEADER_SIZE == 16
ALIGN16(x) == ((x + 15) \div 16) * 16
CPULOG == 81
COMMON == 112
FREE == 127
DEBUG == 114
USER == 96
ANY == -1
Eq == 61                \* '='
NotFound == [addr |-> 0, len |-> -1]
NoPart == [addr |-> 0, len |-> 0]
NULL == << -1 >>        \* no such variable
STALE == << -2 >>       \* what an earlier call left in the static buffer

-----------------------------------------------------------------------------
(* Access: what lies outside reads as 0 and is not written.                *)
Inside(off) == off \in 0 .. NVRAM_LENGTH - 1

nvram_read_byte(m, off) == IF Inside(off) THEN m[off] ELSE 0

nvram_read_word(m, off) ==
  IF off \in 0 .. NVRAM_LENGTH - 2 THEN 256 * m[off] + m[off + 1] ELSE 0

\* o: an operation under way, with the memory, the stores so far, the result,
\* and whether the code met something it does not foresee.
Start(m) == [mem |-> m, log |-> << >>, ret |-> NoPart, bad |-> FALSE]

Put(m, off, bytes) ==
  IF Len(bytes) = 1 /\ Inside(off) THEN [m EXCEPT ![off] = bytes[1]] ELSE
  [a \in DOMAIN m |-> IF a >= off /\ a < off + Len(bytes) THEN bytes[a - off + 1] ELSE m[a]]

\* A store that changes nothing needs no step of its own.
nvram_store(o, off, bytes) ==
  IF \/ off < 0 \/ off + Len(bytes) > NVRAM_LENGTH
     \/ \A i \in 1 .. Len(bytes) : o.mem[off + i - 1] = bytes[i]
  THEN o
  ELSE [o EXCEPT !.mem = Put(@, off, bytes),
                 !.log = Append(@, [at |-> off, bytes |-> bytes])]

nvram_write_byte(o, off, b) == nvram_store(o, off, <<b>>)
nvram_write_word(o, off, w) == nvram_store(o, off, <<w \div 256, w % 256>>)

\* A loop that writes one byte after the other.
WriteEach(o, off, bytes) ==
  LET all == [i \in 1 .. Len(bytes) |-> [at |-> off + i - 1, bytes |-> <<bytes[i]>>]]
      stores == SelectSeq(all, LAMBDA s : Inside(s.at) /\ o.mem[s.at] # s.bytes[1])
  IN [o EXCEPT !.mem = Put(@, off, bytes), !.log = @ \o stores]

Zeros(n) == [i \in 1 .. n |-> 0]
Bytes(m, off, n) == [i \in 1 .. n |-> nvram_read_byte(m, off + i - 1)]

erase_nvram(o, off, len) ==
  IF rtas THEN nvram_store(o, off, Zeros(len)) ELSE WriteEach(o, off, Zeros(len))

-----------------------------------------------------------------------------
(* Partition headers: type, checksum, length in units of 16 bytes, name.   *)
\* The sum of the header's bytes but the checksum itself, folded to a byte.
calc_partition_header_checksum(m, off) ==
  LET b(i) == nvram_read_byte(m, off + i)
      plainsum == b(0) + b(2) + b(3) + b(4) + b(5) + b(6) + b(7) + b(8) + b(9)
                  + b(10) + b(11) + b(12) + b(13) + b(14) + b(15)
  IN ((plainsum \div 256) + (plainsum % 256)) % 256

HeaderOK(m, off) == nvram_read_byte(m, off + 1) = calc_partition_header_checksum(m, off)
get_partition_type(m, off) == nvram_read_byte(m, off)
get_partition_len(m, off) == nvram_read_word(m, off + 2)

\* The string in the twelve bytes of the name.
get_partition_name(m, off) ==
  LET bytes == Bytes(m, off + 4, 12)
      ends == {i \in 1 .. 12 : bytes[i] = 0}
  IN IF ends = {} THEN bytes ELSE SubSeq(bytes, 1, Min(ends) - 1)

RECURSIVE UsedFrom(_, _)
UsedFrom(m, walk) ==
  IF \/ walk >= NVRAM_LENGTH \/ get_partition_type(m, walk) = 0
     \/ ~HeaderOK(m, walk) \/ get_partition_len(m, walk) = 0
  THEN walk ELSE UsedFrom(m, walk + 16 * get_partition_len(m, walk))

calc_used_nvram_space(m) == UsedFrom(m, 0)

\* Headers the walk of get_partition for a type other than 0 passes.
RECURSIVE ChainFrom(_, _)
ChainFrom(m, walk) ==
  IF walk >= NVRAM_LENGTH \/ ~HeaderOK(m, walk) \/ get_partition_len(m, walk) = 0
  THEN << >>
  ELSE <<walk>> \o ChainFrom(m, walk + 16 * get_partition_len(m, walk))

PartAt(m, walk) == [addr |-> walk + PARTITION_HEADER_SIZE,
                    len |-> 16 * get_partition_len(m, walk) - PARTITION_HEADER_SIZE]

get_partition(m, type, name) ==
  LET hits == SelectSeq(ChainFrom(m, 0),
                LAMBDA w : /\ type \in {ANY, get_partition_type(m, w)}
                           /\ name \in {NULL, get_partition_name(m, w)})
  IN IF hits = << >> THEN NotFound ELSE PartAt(m, hits[1])

-----------------------------------------------------------------------------
(* Operations on partitions.                                               *)
HeaderAndData(part) == part.len + PARTITION_HEADER_SIZE

wipe_partition(o, part, header_only) ==
  erase_nvram(o, part.addr - PARTITION_HEADER_SIZE,
              IF header_only THEN PARTITION_HEADER_SIZE ELSE HeaderAndData(part))

WriteHeader(o, off, type, name, plen) ==
  LET named == WriteEach(nvram_write_word(nvram_write_byte(o, off, type),
                                          off + 2, plen \div 16), off + 4, name)
  IN nvram_write_byte(named, off + 1, calc_partition_header_checksum(named.mem, off))

\* len may be -16 when create_free_partition finds no space: plen is 0 then.
create_nvram_partition(o, type, name, len) ==
  LET plen == ALIGN16(len + PARTITION_HEADER_SIZE)
      offset == calc_used_nvram_space(o.mem)
  IN IF NVRAM_LENGTH - offset < plen THEN [o EXCEPT !.ret = NoPart]
     ELSE [WriteHeader(o, offset, type, name, plen) EXCEPT
             !.ret = [addr |-> offset + PARTITION_HEADER_SIZE, len |-> len]]

create_free_partition(o) ==
  [create_nvram_partition(o, FREE, Names["free"],
     NVRAM_LENGTH - calc_used_nvram_space(o.mem) - PARTITION_HEADER_SIZE)
   EXCEPT !.ret = o.ret]

new_nvram_partition(o, type, name, len) ==
  LET free_part == get_partition(o.mem, FREE, NULL)
      wiped == IF free_part.len \notin {0, -1} THEN wipe_partition(o, free_part, TRUE)
               ELSE o
  IN create_free_partition(create_nvram_partition(wiped, type, name, len))

\* Names of Forth are cut at twelve bytes.
new_nvram_partition_fs(o, type, name, len) ==
  new_nvram_partition(o, type, SubSeq(name, 1, Min({12, Len(name)})), len)

\* For mutation: the header of the deleted partition stays.
ShiftData(o, part) ==
  WriteEach(o, part.addr,
            Bytes(o.mem, part.addr + part.len, NVRAM_LENGTH - part.addr - part.len))

\* Moves what is above the partition down over it. A byte is read before it
\* is written, as the loop goes upwards.
ShiftDown(o, part) ==
  WriteEach(o, part.addr - PARTITION_HEADER_SIZE,
            Bytes(o.mem, part.addr + part.len, NVRAM_LENGTH - part.addr - part.len))

\* The end is erased, 32 bytes short.
delete_nvram_partition(o, part) ==
  LET gone == erase_nvram(ShiftDown(o, part), NVRAM_LENGTH - HeaderAndData(part),
                          part.len - PARTITION_HEADER_SIZE)
      free_part == get_partition(gone.mem, FREE, NULL)
  IN IF part.len \in {0, -1} THEN o
     ELSE create_free_partition(wipe_partition(gone, free_part, FALSE))

clear_nvram_partition(o, part) ==
  IF part.addr = 0 THEN o ELSE erase_nvram(o, part.addr, part.len)

init_cpulog_partition(o, cpulog) ==
  nvram_store(nvram_write_word(nvram_write_word(o, cpulog.addr, 64), cpulog.addr + 2, 0),
              cpulog.addr + 4, <<0, 0, 0, 1>>)

reset_nvram(o) ==
  LET wiped == erase_nvram(o, 0, NVRAM_LENGTH)
      log0 == create_nvram_partition(wiped, CPULOG, Names["log0"], Log0Len - 16)
      log1 == create_nvram_partition(log0, CPULOG, Names["log1"], Log1Len - 16)
      logs == init_cpulog_partition(init_cpulog_partition(log1, log0.ret), log1.ret)
  IN create_free_partition(
       create_nvram_partition(logs, COMMON, Names["common"], CommonLen - 16))

-----------------------------------------------------------------------------
(* Environment variables: strings "name=value", each ended by a zero, the  *)
(* last one by two.                                                        *)
RECURSIVE StrAt(_, _)
StrAt(m, off) ==
  LET data == nvram_read_byte(m, off)
  IN IF data = 0 THEN << >> ELSE <<data>> \o StrAt(m, off + 1)

Begins(s, name) == Len(s) >= Len(name) /\ SubSeq(s, 1, Len(name)) = name

\* The entry from off on that starts with the name; << >> if there is none.
RECURSIVE EntryFrom(_, _, _)
EntryFrom(m, off, name) ==
  LET s == StrAt(m, off)
  IN IF s = << >> \/ Begins(s, name) THEN s ELSE EntryFrom(m, off + Len(s) + 1, name)

\* Without '=' the pointer returned lies behind the end of the entry.
nvram_get_env(m, part, name) ==
  LET s == EntryFrom(m, part.addr, name)
      eqs == {i \in 1 .. Len(s) : s[i] = Eq}
  IN IF part.addr = 0 \/ s = << >> THEN NULL
     ELSE IF eqs = {} THEN STALE ELSE SubSeq(s, Min(eqs) + 1, Len(s))

\* The buffer is not ended behind an entry: what a longer one left counts.
RECURSIVE PastFrom(_, _, _, _)
PastFrom(m, off, name, temp) ==
  LET s == StrAt(m, off)
      buf == s \o SubSeq(temp, Len(s) + 1, Len(temp))
  IN IF Begins(buf, name) THEN off + Len(s) + 1
     ELSE IF s = << >> THEN -1 ELSE PastFrom(m, off + Len(s) + 1, name, buf)

get_past_env_pos(m, part, name) == PastFrom(m, part.addr, name, << >>)

\* The second of the first two zeros; an empty partition starts with one.
RECURSIVE LastFrom(_, _, _, _)
LastFrom(m, offset, end, last) ==
  LET current == nvram_read_byte(m, offset)
  IN IF offset >= end THEN -1
     ELSE IF last = 0 /\ current = 0 THEN offset
     ELSE LastFrom(m, offset + 1, end, current)

find_last_envvar(m, part) ==
  LastFrom(m, part.addr, part.addr + part.len, nvram_read_byte(m, part.addr))

\* Space left: unsigned arithmetic, so -1 counts as the byte before 0.
Freespace(part, last) == part.addr + part.len - last

\* The entry written relies on zeros behind it.
Clean(m, part, from) ==
  \A a \in from .. part.addr + part.len - 1 : nvram_read_byte(m, a) = 0

nvram_add_env(o, part, name, value) ==
  LET last == find_last_envvar(o.mem, part)
  IN IF Freespace(part, last) < Len(name) + Len(value) + 2 THEN o
     ELSE [WriteEach(o, last, name \o <<Eq>> \o value) EXCEPT
             !.bad = @ \/ last = -1 \/ ~Clean(o.mem, part, last)]

\* For mutation: the entries behind the value are not copied back.
NotMovedBack(o, part, from, value, moved, last) == WriteEach(o, from, value \o <<0>>)

\* Where the value starts, and the entries behind that are moved.
ReplaceValue(o, part, from, value, moved, last) ==
  LET bytes == value \o <<0>> \o moved
      end == from + Len(bytes)
      written == WriteEach(o, from, bytes)
  IN [WriteEach(written, end, Zeros(IF end < last THEN last - end ELSE 0)) EXCEPT
        !.bad = @ \/ end > part.addr + part.len]

nvram_set_env(o, part, name, value) ==
  LET old == nvram_get_env(o.mem, part, name)
      last == find_last_envvar(o.mem, part)
      past == get_past_env_pos(o.mem, part, name)
      eqs == {a \in 0 .. past : nvram_read_byte(o.mem, a) = Eq}
  IN IF part.addr = 0 \/ old = value THEN o
     ELSE IF old = NULL THEN nvram_add_env(o, part, name, value)
     ELSE IF last < past THEN o           \* no buffer of that size
     ELSE IF old = STALE \/ Eq \in Range(old) \/ ~Clean(o.mem, part, last)
     THEN [o EXCEPT !.bad = TRUE]
     ELSE ReplaceValue(o, part, Max(eqs) + 1, value,
                       Bytes(o.mem, past, last - past), last)

-----------------------------------------------------------------------------
(* The Forth words.                                                        *)
NvUpdate(o, vars) ==
  LET part == get_partition(o.mem, COMMON, NULL)
  IN FoldLeft(LAMBDA p, v : nvram_add_env(p, part, v[1], v[2]),
              clear_nvram_partition(o, part), vars)

Usable(part) == part.len \notin {0, -1}
MaxOf(S) == IF S = {} THEN 0 ELSE Max(S)

\* What the words promise: `known` and `env` afterwards.
EndOfKnown == MaxOf({r.addr + r.len : r \in known})
Others(type) == {e \in env : e.type # type}
Value(type, name) == nvram_get_env(nv, get_partition(nv, type, NULL), name)
Written(entries) ==
  {[type |-> e.type, name |-> e.name, value |-> e.value,
    before |-> Value(e.type, e.name)] : e \in entries}
Entry(type, v) == [type |-> type, name |-> v[1], value |-> v[2]]
Forgotten(r) == [r EXCEPT !.bytes = << >>]

WithNew(type, name, len) ==
  LET plen == ALIGN16(len + PARTITION_HEADER_SIZE)
  IN IF NVRAM_LENGTH - EndOfKnown < plen THEN known
     ELSE known \cup {[addr |-> EndOfKnown + 16, len |-> plen - 16, type |-> type,
                       name |-> name, bytes |-> << >>]}

Stored(len, vars) ==
  FoldLeft(LAMBDA s, v : LET n == Len(v[1]) + Len(v[2]) + 2
                         IN IF s.used + n > len THEN s
                            ELSE [used |-> s.used + n, set |-> s.set \cup {Entry(COMMON, v)}],
           [used |-> 0, set |-> {}], vars).set

AfterReset ==
  LET log == <<0, 64, 0, 0, 0, 0, 0, 1>>
  IN {[addr |-> 16, len |-> Log0Len - 16, type |-> CPULOG, name |-> Names["log0"],
       bytes |-> log \o Zeros(Log0Len - 24)],
      [addr |-> Log0Len + 16, len |-> Log1Len - 16, type |-> CPULOG,
       name |-> Names["log1"], bytes |-> log \o Zeros(Log1Len - 24)],
      [addr |-> Log0Len + Log1Len + 16, len |-> CommonLen - 16, type |-> COMMON,
       name |-> Names["common"], bytes |-> << >>]}

\* An operation of weight w starts: o is what it will do; k, e and t hold
\* meanwhile.
Begin(w, o, k, e, t, g) ==
  /\ nops + w <= MaxOps
  /\ AnyFill \/ ~o.bad
  /\ todo' = o.log /\ npc' = "busy" /\ nops' = nops + w
  /\ known' = k /\ env' = e /\ torn' = t /\ goal' = g
  /\ UNCHANGED <<nv, rtas, resets, cut>>

Goal(k, e, next) == [known |-> k, env |-> e, npc |-> next]

GetNv ==
  /\ npc = "get-nv"
  /\ IF Usable(get_partition(nv, COMMON, NULL))
     THEN npc' = "debug-init"
          /\ UNCHANGED <<nv, todo, rtas, known, env, torn, goal, nops, resets, cut>>
     ELSE \E vars \in VarSets :
            LET stored == Stored(CommonLen - 16, vars)
            IN Begin(1, NvUpdate(reset_nvram(Start(nv)), vars), {}, {}, Written(stored),
                     Goal(AfterReset, stored, "debug-init"))

DebugInit ==
  /\ npc = "debug-init"
  /\ LET o == new_nvram_partition_fs(Start(nv), DEBUG, Names["debug"], DebugLen)
     IN IF Usable(get_partition(nv, DEBUG, NULL))
        THEN npc' = "up"
             /\ UNCHANGED <<nv, todo, rtas, known, env, torn, goal, nops, resets, cut>>
        ELSE Begin(1, IF o.ret = NoPart THEN o ELSE clear_nvram_partition(o, o.ret),
                   known, Others(DEBUG), {},
                   Goal(WithNew(DEBUG, Names["debug"], DebugLen), Others(DEBUG), "up"))

NewPartition ==
  /\ npc = "up"
  /\ \E len \in UserLens :
       Begin(3, new_nvram_partition_fs(Start(nv), USER, Names["user"], len), known, env, {},
             Goal(WithNew(USER, Names["user"], len), env, "up"))

DeletePartition ==
  /\ npc = "up"
  /\ \E r \in known :
       LET below == {p \in known : p.addr < r.addr}
           moved == {[p EXCEPT !.addr = @ - HeaderAndData(r)] :
                       p \in (known \ below) \ {r}}
           stay == {e \in env : \E p \in below : p.type = e.type}
       IN Begin(3, delete_nvram_partition(Start(nv), r), below, stay, {},
                Goal(below \cup moved, Others(r.type), "up"))

ErasePartition ==
  /\ npc = "up"
  /\ \E r \in known :
       LET rest == (known \ {r}) \cup {Forgotten(r)}
       IN Begin(3, clear_nvram_partition(Start(nv), r), rest, Others(r.type), {},
                Goal(rest, Others(r.type), "up"))

SetVariables ==
  /\ npc = "up" /\ Usable(get_partition(nv, COMMON, NULL))
  /\ \E vars \in VarSets :
       LET part == get_partition(nv, COMMON, NULL)
           rest == {IF r.type = COMMON THEN Forgotten(r) ELSE r : r \in known}
           stored == Stored(part.len, vars)
       IN Begin(3, NvUpdate(Start(nv), vars), rest, Others(COMMON), Written(stored),
                Goal(rest, Others(COMMON) \cup stored, "up"))

DebugSetEnv ==
  /\ npc = "up" /\ Usable(get_partition(nv, DEBUG, NULL))
  /\ \E v \in DebugVars :
       LET part == get_partition(nv, DEBUG, NULL)
           rest == {IF r.type = DEBUG THEN Forgotten(r) ELSE r : r \in known}
           kept == {e \in env : e.type = DEBUG /\ e.name # v[1]}
           past(n) == get_past_env_pos(nv, part, n)
           fresh == nvram_get_env(nv, part, v[1]) = NULL
           stay == {e \in kept : fresh \/ past(e.name) < past(v[1])}
       IN Begin(2, nvram_set_env(Start(nv), part, v[1], v[2]), rest,
                Others(DEBUG) \cup stay, IF fresh THEN Written({Entry(DEBUG, v)}) ELSE {},
                Goal(rest, Others(DEBUG) \cup kept \cup {Entry(DEBUG, v)}, "up"))

WipeNvram ==
  /\ npc = "up"
  /\ Begin(3, erase_nvram(Start(nv), 0, NVRAM_LENGTH), {}, {}, {}, Goal({}, {}, "up"))

-----------------------------------------------------------------------------
StoreOne ==
  /\ todo # << >>
  /\ nv' = Put(nv, Head(todo).at, Head(todo).bytes)
  /\ todo' = Tail(todo)
  /\ UNCHANGED <<rtas, npc, known, env, torn, goal, nops, resets, cut>>

\* Contents nobody promised anything about are taken as they are found.
Learnt(r) == IF r.bytes = << >> THEN [r EXCEPT !.bytes = Bytes(nv, r.addr, r.len)] ELSE r

Return ==
  /\ npc = "busy" /\ todo = << >>
  /\ npc' = goal.npc /\ known' = {Learnt(r) : r \in goal.known}
  /\ env' = goal.env /\ torn' = {}
  /\ UNCHANGED <<nv, todo, rtas, goal, nops, resets, cut>>

\* After a reset the firmware has what it finds in front of the free space.
Found ==
  LET chain == ChainFrom(nv, 0)
      frees == {i \in 1 .. Len(chain) : get_partition_type(nv, chain[i]) = FREE}
      parts == {chain[i] : i \in {j \in 1 .. Len(chain) : \A f \in frees : j < f}}
  IN {[addr |-> PartAt(nv, w).addr, len |-> PartAt(nv, w).len,
       type |-> get_partition_type(nv, w), name |-> get_partition_name(nv, w),
       bytes |-> Bytes(nv, PartAt(nv, w).addr, PartAt(nv, w).len)] : w \in parts}

NamesOf(type) == IF type = COMMON THEN {v[1] : v \in UNION {Range(s) : s \in VarSets}}
                 ELSE {v[1] : v \in DebugVars}
Readable(type, part) ==
  {e \in {Entry(type, <<n, nvram_get_env(nv, part, n)>>) : n \in NamesOf(type)} :
     e.value \notin {NULL, STALE}}

PowerLoss ==
  /\ resets < MaxResets /\ resets' = resets + 1
  /\ cut' = (cut \/ npc = "busy")
  /\ todo' = << >> /\ npc' = "get-nv" /\ torn' = {}
  /\ known' = Found
  /\ env' = UNION {Readable(t, get_partition(nv, t, NULL)) : t \in {COMMON, DEBUG}}
  /\ UNCHANGED <<nv, rtas, goal, nops>>

Init ==
  /\ nv \in {[a \in 0 .. NVRAM_LENGTH - 1 |-> b] : b \in {0, 255}}
  /\ rtas \in BOOLEAN
  /\ nv[0] = 0 \/ rtas         \* bound: ones are only erased as a block
  /\ npc = "get-nv" /\ todo = << >>
  /\ known = {} /\ env = {} /\ torn = {} /\ goal = Goal({}, {}, "up")
  /\ nops = 0 /\ resets = 0 /\ cut = FALSE

Next ==
  \/ GetNv \/ DebugInit \/ NewPartition \/ DeletePartition \/ ErasePartition
  \/ SetVariables \/ DebugSetEnv \/ WipeNvram \/ StoreOne \/ Return \/ PowerLoss

-----------------------------------------------------------------------------
\* The partitions that no operation under way may touch are found by the walk,
\* with their length and contents, after every single store: a reset at any
\* moment leaves them. Between operations the chain fills the NVRAM.
PartitionsSurvive ==
  LET chain == Range(ChainFrom(nv, 0))
  IN /\ \A r \in known :
          /\ r.addr - 16 \in chain
          /\ PartAt(nv, r.addr - 16).len = r.len
          /\ get_partition_type(nv, r.addr - 16) = r.type
          /\ r.bytes \in {<< >>, Bytes(nv, r.addr, r.len)}
          /\ cut \/ get_partition_name(nv, r.addr - 16) = r.name
     /\ npc = "up" /\ ~cut /\ known # {} => calc_used_nvram_space(nv) = NVRAM_LENGTH

\* A variable reads as it was last set, also while others are written and when
\* that is interrupted; of one that is being added, at most a prefix is there.
VariablesRight ==
  LET part == [t \in {COMMON, DEBUG} |-> get_partition(nv, t, NULL)]
      value(t, n) == nvram_get_env(nv, part[t], n)
  IN /\ \A e \in env : value(e.type, e.name) = e.value
     /\ \A e \in torn : LET v == value(e.type, e.name)
                       IN v \in {NULL, STALE, e.before} \/ Begins(e.value, v)
     /\ npc \in {"debug-init", "up"} /\ ~cut =>
          \A t \in {r.type : r \in known} \cap {COMMON, DEBUG} : \A n \in NamesOf(t) :
            (\A e \in env : e.type # t \/ e.name # n) => value(t, n) = NULL
=============================================================================
