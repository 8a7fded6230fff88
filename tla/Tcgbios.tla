------------------------------ MODULE Tcgbios -------------------------------
(***************************************************************************)
(* The firmware's measured boot, lib/libtpm/tcgbios.c: what is loaded is   *)
(* hashed, extended into a PCR of the TPM and then written to a log of     *)
(* limited size, which the operating system later replays.  The Forth code *)
(* of board-qemu calls the functions in the order of `phase'.              *)
(*                                                                         *)
(* A command to the TPM may be answered, refused by the TPM, answered with *)
(* a message of the wrong length, or given up by the driver although the   *)
(* TPM may still execute it: `Transmit' gives all outcomes of one command, *)
(* and the functions below compose them.  The driver's part of this        *)
(* contract is module Vtpm: after one failure of the channel no command is *)
(* sent again.                                                             *)
(***************************************************************************)
EXTENDS Integers, Sequences, FiniteSets, SequencesExt

CONSTANTS Selections,   \* PCR banks a TPM may report
          LogSize,      \* size of the log area (LOG-SIZE)
          Parts,        \* GPT entries a disk may hold
          MaxParts,     \* bound: entries collected for one measurement
          MaxFaults,    \* bound: commands that go wrong
          MaxCalls      \* bound: calls of the client

VARIABLES tpm,          \* the TPM: its banks, what was extended, who may command it
          drv,          \* the driver: "ok", "failed", or "handed_over"
          tpm_state,    \* the static state of tcgbios.c
          uefi_gpt_data, \* the GPT being collected
          phase,        \* how far the boot has come
          hist          \* history: events and faults so far, events without log entry

vars == <<tpm, drv, tpm_state, uefi_gpt_data, phase, hist>>

NoSel == [entries |-> << >>, count |-> 0, tail |-> TRUE]
NoGpt == [there |-> FALSE, size |-> 0, parts |-> << >>]
Pcrs == 0 .. 7

-----------------------------------------------------------------------------
\* The known algorithms, in the order of their flags, and their digest sizes;
\* the last four have no implementation: their digest is all ones.
hash_parameters ==
  << [alg |-> "sha1", size |-> 20, hashed |-> TRUE],
     [alg |-> "sha256", size |-> 32, hashed |-> TRUE],
     [alg |-> "sha384", size |-> 48, hashed |-> TRUE],
     [alg |-> "sha512", size |-> 64, hashed |-> TRUE],
     [alg |-> "sm3_256", size |-> 32, hashed |-> FALSE],
     [alg |-> "sha3_256", size |-> 32, hashed |-> FALSE],
     [alg |-> "sha3_384", size |-> 48, hashed |-> FALSE],
     [alg |-> "sha3_512", size |-> 64, hashed |-> FALSE] >>

tpm20_find_by_hashalg(a) == SelectSeq(hash_parameters, LAMBDA h : h.alg = a)
tpm20_hashalg_to_flag(a) == {i \in DOMAIN hash_parameters : hash_parameters[i].alg = a}
tpm20_hashalg_flag_to_hashalg(i) == hash_parameters[i].alg

\* -1 for an algorithm the table does not have
tpm20_get_hash_buffersize(a) ==
  LET h == tpm20_find_by_hashalg(a) IN IF h = << >> THEN -1 ELSE h[1].size

AllOnes == <<"ff">>
tpm2_hash_data(a, data) ==
  IF tpm20_find_by_hashalg(a)[1].hashed THEN <<a, data>> ELSE <<a, AllOnes>>

\* The selections with a PCR of 0-7, of those the count covers.
Walked(sel) == SubSeq(sel.entries, 1, IF sel.count < Len(sel.entries) THEN sel.count
                                      ELSE Len(sel.entries))
UsedBanks(sel) == SelectSeq(Walked(sel), LAMBDA e : e.select = "low")

DigestSize(banks) ==
  4 + FoldLeft(LAMBDA n, e : n + 2 + tpm20_get_hash_buffersize(e.alg), 0, banks)
PadSize == 4 + FoldLeft(LAMBDA n, h : n + 2 + h.size, 0, hash_parameters)

\* The walk over the selection fails on an unknown algorithm, when the log
\* entry is too small, and when it does not end where the structure ends.
WalkOK(sel) ==
  /\ \A i \in DOMAIN UsedBanks(sel) : tpm20_get_hash_buffersize(UsedBanks(sel)[i].alg) >= 0
  /\ DigestSize(UsedBanks(sel)) <= PadSize
  /\ sel.count >= Len(sel.entries) /\ ~sel.tail

\* One digest per active bank, in the TPM's order.
tpm20_build_digest(sel, data) ==
  [i \in DOMAIN UsedBanks(sel) |-> tpm2_hash_data(UsedBanks(sel)[i].alg, data)]

-----------------------------------------------------------------------------
(* Outcomes of a call: the state it leaves and what it returns.            *)
Outcome(w, r) == [w |-> w, ret |-> r]
Here == [tpm |-> tpm, drv |-> drv, st |-> tpm_state, hist |-> hist]
Fault(w) == [w EXCEPT !.hist.faults = @ + 1]

Then(S, F(_)) == UNION {IF o.ret = 0 THEN F(o.w) ELSE {o} : o \in S}
Regardless(S, F(_)) == UNION {F(o.w) : o \in S}

ChannelUsable(w) == w.drv = "ok"

\* spapr_transmit and the tests of its caller on the answer; t is the TPM once it
\* has executed the command.
spapr_transmit(w, t) ==
  IF ~ChannelUsable(w) THEN {Outcome(w, -1)}
  ELSE {Outcome([w EXCEPT !.tpm = t], 0)}
       \cup IF w.hist.faults = MaxFaults THEN {}
            ELSE { Outcome(Fault(w), -1),                           \* error answer
                   Outcome(Fault([w EXCEPT !.tpm = t]), -1),     \* wrong length
                   Outcome(Fault([w EXCEPT !.drv = "failed"]), -1), \* lost
                   Outcome(Fault([w EXCEPT !.drv = "failed", !.tpm = t]), -1) } \* late

\* A command the TPM authorises with the empty platform password: refused once
\* the password was changed or the platform hierarchy was disabled.
Authorised(t) == ~t.auth /\ "platform" \notin t.off
platform_cmd(w, t) ==
  IF Authorised(w.tpm) THEN spapr_transmit(w, t)
  ELSE IF ~ChannelUsable(w) THEN {Outcome(w, -1)}
  ELSE {Outcome(w, -1)} \cup IF w.hist.faults = MaxFaults THEN {}
                             ELSE {Outcome(Fault([w EXCEPT !.drv = "failed"]), -1)}

tpm_simple_cmd(w) == spapr_transmit(w, w.tpm)
tpm20_stirrandom(w) == spapr_transmit(w, w.tpm)
tpm20_getrandom(w) == spapr_transmit(w, w.tpm)
tpm20_hierarchychangeauth(w) == platform_cmd(w, [w.tpm EXCEPT !.auth = TRUE])
tpm20_hierarchycontrol(w, h) == platform_cmd(w, [w.tpm EXCEPT !.off = @ \cup {h}])
tpm20_clearcontrol(w) == platform_cmd(w, w.tpm)
tpm20_clear(w) == platform_cmd(w, [w.tpm EXCEPT !.cleared = TRUE])

NotWorking(S) == {[o EXCEPT !.w.st.working = FALSE] : o \in S}

tpm_set_failure(w) ==
  NotWorking(Regardless(Regardless(tpm20_hierarchycontrol(w, "endorsement"),
                                   LAMBDA v : tpm20_hierarchycontrol(v, "owner")),
                        LAMBDA v : tpm20_hierarchycontrol(v, "platform")))

\* err_exit: a failed step is followed by tpm_set_failure.
OrFailure(S, r) ==
  UNION {IF o.ret = 0 THEN {o} ELSE {Outcome(f.w, r) : f \in tpm_set_failure(o.w)} : o \in S}

-----------------------------------------------------------------------------
(* Extending and logging.                                                  *)
Bank(d) == d[1]
ExtendEffect(t, pcr, id, digests) ==
  [t EXCEPT !.pcrs = [b \in DOMAIN @ |->
      LET D == SelectSeq(digests, LAMBDA d : Bank(d) = b) IN
      IF D = << >> THEN @[b]
      ELSE [@[b] EXCEPT ![pcr] = Append(@, [id |-> id, digest |-> D[1]])]]]

tpm20_extend(w, pcr, id, digests) ==
  spapr_transmit(w, ExtendEffect(w.tpm, pcr, id, digests))

EntrySize(digestlen, infolen) == 8 + digestlen + 4 + infolen
NoRoom(st, size) == ~st.logon \/ st.used + size > LogSize

\* 0, or TCGBIOS_LOGOVERFLOW with nothing written
tpm_log_event_long(w, entry, size) ==
  IF NoRoom(w.st, size) THEN {Outcome(w, -2)}
  ELSE {Outcome([w EXCEPT !.st.log = Append(@, entry), !.st.used = @ + size], 0)}

tpm20_get_pcrbanks(w) ==
  UNION {IF o.ret # 0 THEN {o}
         ELSE {Outcome([o.w EXCEPT !.st.sel = o.w.tpm.sel], 0)}
              \* too short an answer, or no memory
              \cup IF o.w.hist.faults = MaxFaults THEN {} ELSE {Outcome(Fault(o.w), -1)} :
         o \in spapr_transmit(w, w.tpm)}

\* The log opens with an event naming the banks and their digest sizes.
tpm20_write_EfiSpecIdEventStruct(w) ==
  IF ~WalkOK(w.st.sel) THEN {Outcome(w, -1)}
  ELSE tpm_log_event_long(w, [id |-> 0, pcr |-> 0, banks |-> UsedBanks(w.st.sel)],
                          EntrySize(20, 29 + 4 * Len(UsedBanks(w.st.sel))))

Unlogged(o, id) == IF o.ret = 0 THEN o ELSE [o EXCEPT !.w.hist.unlogged = @ \cup {id}]

LoggedFirst(w, pcr, data, infolen) ==
  LET id == w.hist.n + 1
      digests == tpm20_build_digest(w.st.sel, data)
      entry == [id |-> id, pcr |-> pcr, data |-> data, digests |-> digests]
  IN IF ~WalkOK(w.st.sel) THEN {Outcome(w, -4)} ELSE
     Then(tpm_log_event_long([w EXCEPT !.hist.n = id], entry,
                             EntrySize(DigestSize(UsedBanks(w.st.sel)), infolen)),
          LAMBDA v : {Unlogged(o, id) : o \in OrFailure(tpm20_extend(v, pcr, id, digests), -3)})

\* Digest, extend, log.  A measurement that is not logged is reported.
tpm_add_measurement_to_log(w, pcr, data, infolen) ==
  LET id == w.hist.n + 1
      v == [w EXCEPT !.hist.n = id]
      digests == tpm20_build_digest(w.st.sel, data)
      entry == [id |-> id, pcr |-> pcr, data |-> data, digests |-> digests]
  IN IF ~WalkOK(w.st.sel) THEN {Unlogged(Outcome(v, -4), id)}
     ELSE {Unlogged(o, id) :
             o \in Then(OrFailure(tpm20_extend(v, pcr, id, digests), -3),
                        LAMBDA x : tpm_log_event_long(x, entry,
                                     EntrySize(DigestSize(UsedBanks(w.st.sel)), infolen)))}

-----------------------------------------------------------------------------
(* The interface to Forth.                                                 *)
Becomes(o) ==
  /\ tpm' = o.w.tpm /\ drv' = o.w.drv /\ tpm_state' = o.w.st /\ hist' = o.w.hist

StateInit == [probed |-> FALSE, found |-> FALSE, working |-> FALSE, sel |-> NoSel,
              logon |-> FALSE, used |-> 0, log |-> << >>]
HistInit == [n |-> 0, calls |-> 0, faults |-> 0, unlogged |-> {}, seen |-> << >>, final |-> << >>]
Fresh(sel) ==
  [sel |-> sel, next |-> sel, auth |-> FALSE, off |-> {}, cleared |-> FALSE,
   pcrs |-> [b \in {sel.entries[i].alg : i \in DOMAIN sel.entries} |->
               [p \in Pcrs |-> << >>]]]

Init ==
  /\ \E sel \in Selections : tpm = Fresh(sel)
  /\ drv \in {"ok", "failed"}      \* what the first probe finds
  /\ tpm_state = StateInit /\ uefi_gpt_data = NoGpt
  /\ phase = "off" /\ hist = HistInit

probe_tpm(w) ==
  [w EXCEPT !.st.probed = TRUE, !.st.found = (w.drv = "ok"), !.st.working = (w.drv = "ok")]
tpm_is_working == tpm_state.probed /\ tpm_state.working

tpm20_startup(w) ==
  OrFailure(Then(Then(tpm_simple_cmd(w), tpm_simple_cmd), tpm20_get_pcrbanks), -1)

tpm_start ==
  /\ phase = "off"
  /\ LET w == probe_tpm(Here) IN
     \E o \in IF w.st.working THEN tpm20_startup(w) ELSE {Outcome(w, -5)} :
       Becomes(o) /\ phase' = IF o.ret = 0 THEN "started" ELSE "without"
  /\ UNCHANGED uefi_gpt_data

tpm_set_log_parameters ==
  /\ phase = "started"
  /\ \E o \in OrFailure(tpm20_write_EfiSpecIdEventStruct(
                          [Here EXCEPT !.st.logon = TRUE, !.st.used = 0, !.st.log = << >>]), -1) :
       Becomes(o)
  /\ phase' = "log" /\ UNCHANGED uefi_gpt_data

tpm_measure_scrtm ==
  /\ phase = "log"
  /\ \E o \in Then(tpm_add_measurement_to_log(Here, 0, <<"version">>, 30),
                   LAMBDA w : tpm_add_measurement_to_log(w, 0, <<"slof">>, 15)) : Becomes(o)
  /\ phase' = "ready" /\ UNCHANGED uefi_gpt_data

tpm20_prepboot(w) ==
  OrFailure(Then(Then(tpm20_stirrandom(w), tpm20_getrandom), tpm20_hierarchychangeauth), -1)

tpm_leave_firmware ==
  /\ phase = "ready"
  /\ \E o \in tpm20_prepboot(Here) : Becomes(o)
  /\ phase' = "boot" /\ UNCHANGED uefi_gpt_data

Separators(w, first, last) ==
  FoldLeft(LAMBDA S, p : Then(S, LAMBDA v : tpm_add_measurement_to_log(v, p, <<"separator">>, 4)),
           {Outcome(w, 0)}, [i \in 1 .. last - first + 1 |-> first + i - 1])

tpm_add_event_separators(w, first, last) ==
  IF ~w.st.working THEN {Outcome(w, -4)}
  ELSE IF first >= 24 \/ first > last THEN {Outcome(w, -6)}
  ELSE Separators(w, first, last)

tpm_add_action(w) == tpm_add_measurement_to_log(w, 4, <<"action">>, 28)

\* measure-hdd-mbr: the separators, then the two parts of the boot record.
tpm_measure_bcv_mbr ==
  /\ phase = "boot"
  /\ \E short \in BOOLEAN : \E o \in Regardless(tpm_add_event_separators(Here, 0, 7),
       LAMBDA w : IF ~w.st.working \/ short THEN {Outcome(w, -4)}
                  ELSE Then(Then(tpm_add_action(w),
                                 LAMBDA v : tpm_add_measurement_to_log(v, 4, <<"mbr">>, 3)),
                            LAMBDA v : tpm_add_measurement_to_log(v, 5, <<"table">>, 19))) :
       Becomes(o)
  /\ phase' = "measured" /\ UNCHANGED uefi_gpt_data

-----------------------------------------------------------------------------
(* The partition table is collected entry by entry, in memory that grows.  *)
NoMemory == NoGpt

\* header and entries are of these sizes
GptBytes(n) == 100 + 128 * n

tpm_gpt_set_lba1 ==
  /\ phase = "boot" /\ tpm_is_working
  /\ uefi_gpt_data' \in {[there |-> TRUE, size |-> GptBytes(0), parts |-> << >>], NoMemory}
  /\ hist' = [hist EXCEPT !.seen = << >>]
  /\ phase' = "gpt" /\ UNCHANGED <<tpm, drv, tpm_state>>

AppendPart(g, part) == [g EXCEPT !.parts = Append(@, part)]

GrownFor(g, part) ==
  IF GptBytes(Len(g.parts) + 1) > g.size
  THEN {[AppendPart(g, part) EXCEPT !.size = GptBytes(Len(g.parts) + 1)], NoMemory}
  ELSE {AppendPart(g, part)}

\* hist.seen is what the disk's table was seen to hold.
tpm_gpt_add_entry(part) ==
  /\ phase = "gpt" /\ Len(hist.seen) < MaxParts
  /\ hist' = [hist EXCEPT !.seen = Append(@, part)]
  /\ IF tpm_is_working /\ uefi_gpt_data.there /\ part # "zero"
     THEN uefi_gpt_data' \in GrownFor(uefi_gpt_data, part)
     ELSE UNCHANGED uefi_gpt_data
  /\ UNCHANGED <<tpm, drv, tpm_state, phase>>

\* measure-gpt: the separators, then the table; when the memory ran out the
\* count is read at address 0.
Garbage == <<"garbage">>
GptEvent(g) ==
  IF g.there THEN {<<(<<"gpt">> \o g.parts), GptBytes(Len(g.parts))>>}
  ELSE {<<Garbage, GptBytes(0)>>, <<Garbage, LogSize>>}

tpm_measure_gpt ==
  /\ phase = "gpt"
  /\ \E e \in GptEvent(uefi_gpt_data) :
       \E o \in Regardless(tpm_add_event_separators(Here, 0, 7),
         LAMBDA w : IF ~w.st.working THEN {Outcome(w, -4)}
                    ELSE tpm_add_measurement_to_log(w, 5, e[1], e[2])) : Becomes(o)
  /\ phase' = "measured" /\ UNCHANGED uefi_gpt_data

\* measure-bootloader: the file's own size, or a note that it is no ELF file.
tpm_hash_log_extend_event_buffer ==
  /\ phase \in {"boot", "measured"}
  /\ \E data \in {<<"kernel">>, <<"bad elf">>} :
       \E o \in tpm_add_measurement_to_log(Here, 4, data, 10) : Becomes(o)
  /\ phase' = "client" /\ UNCHANGED uefi_gpt_data

-----------------------------------------------------------------------------
(* The client's calls.                                                     *)
Called == [Here EXCEPT !.hist.calls = @ + 1]

tpm_2hash_ext_log ==
  /\ phase \in {"client", "handed"} /\ hist.calls < MaxCalls
  /\ \E o \in tpm_add_measurement_to_log(Called, 5, <<"client">>, 8) : Becomes(o)
  /\ UNCHANGED <<uefi_gpt_data, phase>>

\* A command of the client's own, here one that extends a PCR.
tpm_pass_through_to_tpm ==
  /\ phase \in {"client", "handed"} /\ hist.calls < MaxCalls
  /\ LET id == hist.n + 1 IN
     \E o \in spapr_transmit([Called EXCEPT !.hist.n = id, !.hist.unlogged = @ \cup {id}],
                ExtendEffect(tpm, 5, id, [i \in DOMAIN tpm.sel.entries |->
                                          <<tpm.sel.entries[i].alg, <<"raw">>>>])) :
       Becomes(o)
  /\ UNCHANGED <<uefi_gpt_data, phase>>

\* sml-handover copies the log and ends the driver's service.
tpm_driver_set_failure_reason ==
  /\ phase = "client"
  /\ drv' = IF tpm_state.found THEN "handed_over" ELSE drv
  /\ hist' = [hist EXCEPT !.final = << [log |-> tpm_state.log, pcrs |-> tpm.pcrs] >>]
  /\ phase' = "handed" /\ UNCHANGED <<tpm, tpm_state, uefi_gpt_data>>

tpm_finalize ==
  /\ phase \in {"client", "handed"}
  /\ drv' = IF drv = "ok" THEN "failed" ELSE drv
  /\ phase' = "without" /\ UNCHANGED <<tpm, tpm_state, uefi_gpt_data, hist>>

-----------------------------------------------------------------------------
(* The menu.                                                               *)
tpm20_get_suppt_pcrbanks(sel) ==
  [suppt |-> UNION {tpm20_hashalg_to_flag(sel.entries[i].alg) : i \in DOMAIN sel.entries},
   active |-> UNION {tpm20_hashalg_to_flag(sel.entries[i].alg) :
                       i \in {j \in DOMAIN sel.entries : sel.entries[j].select # "none"}}]

\* The keys 1-5 toggle the first five algorithms, if the TPM has them; an
\* empty choice cannot be activated.
tpm20_menu_change_active_pcrbanks(sel) ==
  LET b == tpm20_get_suppt_pcrbanks(sel) IN
  {c \in SUBSET b.suppt : c # {} /\ \A i \in b.suppt : i > 5 => (i \in c <=> i \in b.active)}

\* PCR_Allocate with a mask for every supported algorithm.
tpm20_set_pcrbanks(w, c) ==
  LET algs(flags) == {tpm20_hashalg_flag_to_hashalg(f) : f \in flags}
      suppt == algs(tpm20_get_suppt_pcrbanks(w.st.sel).suppt)
  IN platform_cmd(w, [w.tpm EXCEPT !.next.entries = [i \in DOMAIN @ |->
       LET alg == @[i].alg IN
       IF alg \notin suppt THEN @[i]
       ELSE [@[i] EXCEPT !.select = IF alg \in algs(c) THEN "low" ELSE "none"]]])

\* Then the TPM is shut down and the machine reset.
tpm20_activate_pcrbanks(c) ==
  \E o \in Then(tpm20_set_pcrbanks(Here, c), tpm_simple_cmd) :
    IF o.ret = 0
    THEN /\ tpm' = Fresh(o.w.tpm.next) /\ drv' = "ok" /\ tpm_state' = StateInit
         /\ uefi_gpt_data' = NoGpt /\ phase' = "off"
         /\ hist' = [HistInit EXCEPT !.faults = MaxFaults]
    ELSE Becomes(o) /\ UNCHANGED <<uefi_gpt_data, phase>>

tpm20_menu ==
  /\ phase = "ready" /\ tpm_is_working
  /\ \/ \E c \in tpm20_menu_change_active_pcrbanks(tpm_state.sel) : tpm20_activate_pcrbanks(c)
     \/ /\ \E o \in Then(tpm20_clearcontrol(Here), tpm20_clear) : Becomes(o)
        /\ UNCHANGED <<uefi_gpt_data, phase>>

Next ==
  \/ tpm_start \/ tpm_set_log_parameters \/ tpm_measure_scrtm
  \/ tpm_leave_firmware \/ tpm_measure_bcv_mbr \/ tpm_gpt_set_lba1
  \/ \E part \in Parts : tpm_gpt_add_entry(part)
  \/ tpm_measure_gpt \/ tpm_hash_log_extend_event_buffer
  \/ tpm_2hash_ext_log \/ tpm_pass_through_to_tpm \/ tpm_driver_set_failure_reason
  \/ tpm_finalize \/ tpm20_menu

-----------------------------------------------------------------------------
Logged(pcr, b) ==
  LET es == SelectSeq(tpm_state.log, LAMBDA e : e.id # 0 /\ e.pcr = pcr)
  IN [i \in DOMAIN es |-> [id |-> es[i].id,
        digest |-> SelectSeq(es[i].digests, LAMBDA d : Bank(d) = b)[1]]]
Extended(pcr, b) ==
  SelectSeq(tpm.pcrs[b][pcr], LAMBDA e : e.id \notin hist.unlogged)

\* Replaying the log gives the PCRs of every active bank: what was extended and
\* is not in the log was reported to the caller as failed (or is the client's).
LogExplainsPcrs ==
  WalkOK(tpm_state.sel) =>
    \A i \in DOMAIN UsedBanks(tpm_state.sel) : \A p \in Pcrs :
      Extended(p, UsedBanks(tpm_state.sel)[i].alg) = Logged(p, UsedBanks(tpm_state.sel)[i].alg)

\* After the log was handed over neither it nor any PCR changes.
HandedOverFinal ==
  phase = "handed" =>
    tpm_state.log = hist.final[1].log /\ tpm.pcrs = hist.final[1].pcrs

\* A partition table in the log is the one collected: all its entries in use,
\* in order, unless memory ran out.
GptMeasured ==
  phase = "measured" /\ uefi_gpt_data.there =>
    /\ uefi_gpt_data.parts = SelectSeq(hist.seen, LAMBDA p : p # "zero")
    /\ \A i \in DOMAIN tpm_state.log :
         LET e == tpm_state.log[i] IN
         e.id > 0 /\ e.data[1] = "gpt" => e.data = <<"gpt">> \o uefi_gpt_data.parts

\* A TPM the firmware gave up is left with all hierarchies disabled, if its
\* channel works, no second command failed, and the firmware still had the
\* authority.
GivenUpDisabled ==
  (/\ tpm_state.found /\ ~tpm_state.working /\ drv = "ok" /\ ~tpm.auth
   /\ hist.faults = IF WalkOK(tpm.sel) THEN 1 ELSE 0)
    => tpm.off = {"endorsement", "owner", "platform"}
=============================================================================
