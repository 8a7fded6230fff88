-------------------------------- MODULE Vtpm --------------------------------
(***************************************************************************)
(* The PAPR virtual TPM driver, lib/libtpm/tpm_drivers.c.  A command goes  *)
(* to the hypervisor through H_SEND_CRQ; its answer arrives later as an    *)
(* entry of a ring that driver and hypervisor walk independently, the      *)
(* driver clearing an entry when it sends the command the entry is for.    *)
(* Command and answer share one buffer.  Nothing in an answer names its    *)
(* command: the two are matched by position only, so one answer too late   *)
(* would shift all the following ones.                                     *)
(*                                                                         *)
(* A command is its number; ghost says which command the answer in an      *)
(* entry, and the content of the buffer, belong to.                        *)
(***************************************************************************)
EXTENDS Integers, Sequences

CONSTANTS CrqEntries,   \* entries of the ring (QUEUE_SIZE / sizeof(struct crq))
          MaxCmds,      \* bound: commands the higher layer sends
          MinSize       \* smallest buffer accepted (1024)

VARIABLES spapr_vtpm,   \* the driver's static state
          ring,         \* the memory of the queue: 0 = cleared, else a command
          buffer,       \* whose bytes the command buffer holds
          hv,           \* the hypervisor's side of the queue
          op,           \* where the driver is: what it is waiting for
          sent,         \* number of the latest command
          got           \* what the latest transmit returned

crqvars == <<spapr_vtpm, ring, buffer, hv, op, sent, got>>

ASSUME CrqAssumption == CrqEntries \in Nat \ {0, 1} /\ MaxCmds \in Nat /\ MinSize \in Nat

Nothing == 0
InitMsg == -1
SizeMsg == -2

vtpm_init ==
  [qaddr |-> FALSE, unit |-> FALSE, cur |-> 0, err |-> "none",
   initialized |-> FALSE, completed |-> FALSE, size |-> 0, resp |-> 0]

vtpm_drv_state_set(d, e) == [d EXCEPT !.err = e]

Working == spapr_vtpm.err = "none"
Unguarded == TRUE

\* Every operation starts with this test: one failure ends the use of the TPM.
vtpm_drv_error_get == Working

CrqInit ==
  /\ spapr_vtpm = vtpm_init
  /\ ring = [e \in 0 .. CrqEntries - 1 |-> Nothing]
  /\ buffer = Nothing
  /\ hv = [open |-> FALSE, next |-> 0, todo |-> << >>]
  /\ op = "idle" /\ sent = 0 /\ got = Nothing

-----------------------------------------------------------------------------
\* The entry the next answer is expected in is cleared and the counter moves.
spapr_get_crq(d) == d.cur
Cleared == [ring EXCEPT ![spapr_get_crq(spapr_vtpm)] = Nothing]

NextEntry(d) == IF d.cur + 1 = CrqEntries THEN 0 ELSE d.cur + 1

spapr_get_response_crq(d) == [d EXCEPT !.cur = NextEntry(d), !.resp = d.cur]

\* H_SEND_CRQ: the hypervisor takes the message, or refuses it.
hv_send_crq(c) ==
  hv' = [hv EXCEPT !.todo = Append(@, c)]

\* The error exit of spapr_vtpm_activate: the queue is given back.
ErrExit(d) ==
  /\ spapr_vtpm' = [d EXCEPT !.unit = FALSE]
  /\ hv' = [open |-> FALSE, next |-> 0, todo |-> << >>]
  /\ op' = "idle"

\* spapr_send_crq_and_wait up to its wait: for the set-up messages the loop
\* looks at the entry once (timeout 10, step 1000), so Wait has one step.
spapr_send_crq_and_wait(c, waiting) ==
  LET d == spapr_get_response_crq(spapr_vtpm) IN
  /\ ring' = Cleared
  /\ \/ hv.open /\ hv_send_crq(c) /\ op' = waiting /\ spapr_vtpm' = d
     \/ ErrExit(vtpm_drv_state_set(d, "crq"))

-----------------------------------------------------------------------------
\* spapr_is_vtpm_present: the queue's memory and the unit are fetched once.
spapr_vtpm_probe ==
  /\ op = "idle" /\ ~spapr_vtpm.qaddr
  /\ \E unit \in BOOLEAN : spapr_vtpm' = [spapr_vtpm EXCEPT !.qaddr = TRUE, !.unit = unit]
  /\ op' = IF spapr_vtpm'.unit THEN "activate" ELSE "idle"
  /\ UNCHANGED <<ring, buffer, hv, sent, got>>

\* Probed again: straight to the activation.
spapr_is_vtpm_present ==
  /\ op = "idle" /\ spapr_vtpm.qaddr
  /\ op' = "activate"
  /\ UNCHANGED <<spapr_vtpm, ring, buffer, hv, sent, got>>

\* H_REG_CRQ starts both walks at entry 0; then INIT, the first time.
spapr_vtpm_activate ==
  /\ op = "activate"
  /\ IF ~vtpm_drv_error_get
     THEN op' = "idle" /\ UNCHANGED <<spapr_vtpm, hv>>
     ELSE \/ /\ spapr_vtpm.unit
             /\ hv' = [open |-> TRUE, next |-> 0, todo |-> << >>]
             /\ spapr_vtpm' = [spapr_vtpm EXCEPT !.cur = 0]
             /\ op' = "registered"
          \/ /\ spapr_vtpm' = vtpm_drv_state_set(spapr_vtpm, "reg")
             /\ op' = "idle" /\ UNCHANGED hv
  /\ UNCHANGED <<ring, buffer, sent, got>>

SendInit ==
  /\ op = "registered" /\ ~spapr_vtpm.initialized
  /\ spapr_send_crq_and_wait(InitMsg, "wait_init")
  /\ UNCHANGED <<buffer, sent, got>>

InitDone ==
  /\ op = "wait_init"
  /\ IF ring[spapr_vtpm.resp] # Nothing
     THEN /\ spapr_vtpm' = [spapr_vtpm EXCEPT !.initialized = TRUE]
          /\ op' = "registered" /\ UNCHANGED hv
     ELSE ErrExit(vtpm_drv_state_set(spapr_vtpm, "timeout"))
  /\ UNCHANGED <<ring, buffer, sent, got>>

\* spapr_vtpm_get_params, asked once in the life of the firmware.
spapr_vtpm_get_params ==
  /\ op = "registered" /\ spapr_vtpm.initialized
  /\ IF spapr_vtpm.completed
     THEN op' = "idle" /\ UNCHANGED <<spapr_vtpm, ring, hv>>
     ELSE spapr_send_crq_and_wait(SizeMsg, "wait_size")
  /\ UNCHANGED <<buffer, sent, got>>

ParamsDone ==
  /\ op = "wait_size"
  /\ \/ /\ ring[spapr_vtpm.resp] # Nothing
        /\ \E size \in {MinSize - 1, MinSize} :
             \/ /\ size >= MinSize
                /\ spapr_vtpm' = [spapr_vtpm EXCEPT !.size = size, !.completed = TRUE]
                /\ op' = "idle" /\ UNCHANGED hv
             \* too small, or no memory for the buffer
             \/ ErrExit(vtpm_drv_state_set([spapr_vtpm EXCEPT !.size = size], "rtce"))
     \/ /\ ring[spapr_vtpm.resp] = Nothing
        /\ ErrExit(vtpm_drv_state_set(spapr_vtpm, "timeout"))
  /\ UNCHANGED <<ring, buffer, sent, got>>

-----------------------------------------------------------------------------
\* spapr_transmit, first half: the command is copied into the buffer and sent.
spapr_vtpm_senddata ==
  /\ op = "idle" /\ sent < MaxCmds /\ vtpm_drv_error_get
  /\ \E len \in {MinSize - 1, MinSize + 1} :
       IF len > spapr_vtpm.size
       THEN got' = Nothing /\ UNCHANGED <<spapr_vtpm, ring, buffer, hv, op, sent>>
       ELSE /\ sent' = sent + 1 /\ buffer' = sent + 1 /\ got' = Nothing
            /\ ring' = Cleared
            /\ LET d == spapr_get_response_crq(spapr_vtpm) IN
               \/ /\ hv.open /\ hv_send_crq(sent + 1)
                  /\ spapr_vtpm' = d /\ op' = "wait_cmd"
               \/ /\ spapr_vtpm' = vtpm_drv_state_set(d, "send")
                  /\ op' = "idle" /\ UNCHANGED hv

\* The wait ends with the entry filled, or after the command's duration.
spapr_vtpm_waitresponseready ==
  /\ op = "wait_cmd"
  /\ \/ ring[spapr_vtpm.resp] # Nothing /\ op' = "ready" /\ UNCHANGED spapr_vtpm
     \/ /\ ring[spapr_vtpm.resp] = Nothing
        /\ spapr_vtpm' = vtpm_drv_state_set(spapr_vtpm, "timeout") /\ op' = "idle"
  /\ UNCHANGED <<ring, buffer, hv, sent, got>>

\* The answer is copied out of the shared buffer.
spapr_vtpm_readresponse ==
  /\ op = "ready"
  /\ got' = buffer /\ op' = "idle"
  /\ UNCHANGED <<spapr_vtpm, ring, buffer, hv, sent>>

\* sml-handover sets the error by hand; quiesce gives the queue back.
spapr_vtpm_set_error ==
  /\ op = "idle" /\ spapr_vtpm' = vtpm_drv_state_set(spapr_vtpm, "handed_over")
  /\ UNCHANGED <<ring, buffer, hv, op, sent, got>>

spapr_vtpm_finalize ==
  /\ op = "idle" /\ spapr_vtpm.unit
  /\ spapr_vtpm' = [spapr_vtpm EXCEPT !.unit = FALSE]
  /\ hv' = [open |-> FALSE, next |-> 0, todo |-> << >>]
  /\ UNCHANGED <<ring, buffer, op, sent, got>>

-----------------------------------------------------------------------------
\* The hypervisor (external) answers the oldest message, whenever it likes:
\* the answer of a TPM command goes to the buffer, then the ring entry is
\* filled; an entry still in use makes it drop the answer.
Answer ==
  /\ hv.open /\ hv.todo # << >>
  /\ LET c == Head(hv.todo) IN
     /\ hv' = [hv EXCEPT !.todo = Tail(@),
                         !.next = IF ring[@] # Nothing THEN @ ELSE (@ + 1) % CrqEntries]
     /\ ring' = IF ring[hv.next] # Nothing THEN ring
                ELSE [ring EXCEPT ![hv.next] = c]
     /\ buffer' = IF c > 0 THEN c ELSE buffer
  /\ UNCHANGED <<spapr_vtpm, op, sent, got>>

CrqNext ==
  \/ spapr_vtpm_probe \/ spapr_is_vtpm_present \/ spapr_vtpm_activate
  \/ SendInit \/ InitDone \/ spapr_vtpm_get_params \/ ParamsDone
  \/ spapr_vtpm_senddata \/ spapr_vtpm_waitresponseready \/ spapr_vtpm_readresponse
  \/ spapr_vtpm_set_error \/ spapr_vtpm_finalize
  \/ Answer

CrqSpec == CrqInit /\ [][CrqNext]_crqvars

-----------------------------------------------------------------------------
\* What a transmit returned is the answer to the command it sent, although an
\* answer may come after its wait was given up, and although the ring is
\* walked from two sides and wraps.
AnswersMatched ==
  /\ got # Nothing => got = sent
  /\ op = "ready" => ring[spapr_vtpm.resp] = sent
=============================================================================
