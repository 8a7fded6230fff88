----------------------------- MODULE VirtioScsi -----------------------------
(***************************************************************************)
(* The virtio SCSI driver, lib/libvirtio/virtio-scsi.c, as the node        *)
(* board-qemu/slof/virtio-scsi.fs uses it: one request and one response    *)
(* buffer for all commands, a chain of two or three descriptors, and the   *)
(* retries of slof/fs/scsi-host-helpers.fs.  The device works through the  *)
(* published chains at its own pace and answers as it likes.               *)
(***************************************************************************)
EXTENDS Vring, FiniteSets

CONSTANTS
    Commands,      \* [op, tag]: what callers send; op is "none", "read" or "write"
    Answers,       \* the responses the device may give
    Retries,       \* #retries
    MaxPending     \* bound on the chains the device has not executed

VARIABLES
    spc,           \* "down", "idle", "send", "wait"
    svq,
    vs_req,        \* the command in the request buffer
    vs_rsp,        \* the response buffer
    sbuf,          \* the caller's data buffer
    target,        \* what the target has been given to store
    rcmd, left,    \* the command being run and the attempts it has left
    sused,         \* last_used_idx
    sstat,         \* what the last command returned
    slate          \* history: an attempt timed out since virtioscsi_init

svars == <<spc, svq, vs_req, vs_rsp, sbuf, target, rcmd, left, sused, sstat, slate>>

\* Addresses of the request, the response and the data.
Req == 1
Rsp == 2
Buf == 3

NoCommand == [op |-> "none", tag |-> 0]
Rsps == [response : {0, 3, 5}, status : {0, 2, 8}, sense : {"none", "recovered", "attention", "other"}]
Erased == [response |-> 0, status |-> 0, sense |-> "none"]
Fill(c) == IF c.op = "write" THEN <<"out", c.tag>> ELSE <<"old", 0>>

\* The host sends sense data with every status but a good one.
ConstantsOK ==
    /\ Retries \in Nat \ {0} /\ MaxPending \in Nat \ {0} /\ 3 * MaxPending <= QSize
    /\ \A c \in Commands : c.op \in {"none", "read", "write"}
    /\ Answers \subseteq Rsps /\ \A a \in Answers : a.sense = "none" => a.status = 0

Init ==
    /\ spc = "down"
    /\ svq = virtio_queue_init_vq(0)
    /\ vs_req = NoCommand /\ vs_rsp = Erased
    /\ sbuf = Fill(NoCommand) /\ target = Fill(NoCommand)
    /\ rcmd = NoCommand /\ left = 0 /\ sused = 0 /\ sstat = 0 /\ slate = FALSE

\* virtioscsi_init: the features or one of the three queues may fail.
virtioscsi_init ==
    /\ spc = "down"
    /\ \/ spc' = "idle" /\ svq' = virtio_queue_init_vq(0)
       \/ UNCHANGED <<spc, svq>>
    /\ rcmd' = NoCommand /\ sstat' = 0 /\ slate' = FALSE
    /\ UNCHANGED <<vs_req, vs_rsp, sbuf, target, left, sused>>

\* virtioscsi_shutdown from the quiesce hook: the device forgets what is published.
virtioscsi_shutdown ==
    /\ spc = "idle"
    /\ spc' = "down"
    /\ svq' = [svq EXCEPT !.seen = svq.avail_idx]
    /\ UNCHANGED <<vs_req, vs_rsp, sbuf, target, rcmd, left, sused, sstat, slate>>

\* retry-scsi-command is called.
retry_scsi_command(c) ==
    /\ spc = "idle"
    /\ spc' = "send" /\ rcmd' = c /\ left' = Retries /\ sstat' = 0
    /\ sbuf' = Fill(c)
    /\ UNCHANGED <<svq, vs_req, vs_rsp, target, sused, slate>>

\* The descriptors after the request: response, response and data in, or data out
\* and response.
Chain(c) ==
    CASE c.op = "none" -> <<Rsp>>
      [] c.op = "read" -> <<Rsp, Buf>>
      [] c.op = "write" -> <<Buf, Rsp>>

FillChain(vq, id, c) ==
    LET ch == Chain(c)
        d1 == virtio_fill_desc(vq, id, Req, 1, id + 1)
        d2 == virtio_fill_desc(d1, id + 1, ch[1], 1, IF Len(ch) = 2 THEN id + 2 ELSE -1)
    IN  IF Len(ch) = 2 THEN virtio_fill_desc(d2, id + 2, ch[2], 1, -1) ELSE d2

\* execute-scsi-command with virtioscsi_send up to the wait loop.
virtioscsi_send ==
    /\ spc = "send"
    /\ Behind(svq.seen, svq.avail_idx) < MaxPending
    /\ vs_req' = rcmd /\ vs_rsp' = Erased
    /\ sused' = svq.used_idx
    /\ LET id == (svq.avail_idx * 3) % QSize IN svq' = Publish(FillChain(svq, id, rcmd), id)
    /\ spc' = "wait"
    /\ UNCHANGED <<sbuf, target, rcmd, left, sstat, slate>>

\* A command is carried out if the answer is good or says so in its sense data.
CarriedOut(a) == a.response = 0 /\ (a.status = 0 \/ (a.status = 2 /\ a.sense = "recovered"))

\* The device takes the oldest chain: it reads the request as it is now, moves the
\* data and writes the response to where the chain says.
DeviceExecutes ==
    /\ spc # "down" /\ HasChain(svq)
    /\ \E a \in Answers :
         LET first == svq.desc[HeadChain(svq)]
             second == svq.desc[first.next]
             dataIn == second.addr = Rsp /\ second.next # -1
             dataOut == second.addr = Buf
         IN  /\ first.addr = Req
             /\ vs_rsp' = a
             /\ sbuf' = IF CarriedOut(a) /\ vs_req.op = "read" /\ dataIn THEN <<"in", vs_req.tag>> ELSE sbuf
             /\ target' = IF CarriedOut(a) /\ vs_req.op = "write" /\ dataOut THEN sbuf ELSE target
             /\ svq' = Complete(svq, HeadChain(svq), 0)
    /\ UNCHANGED <<spc, vs_req, rcmd, left, sused, sstat, slate>>

\* Variant: the virtio response is not looked at.
StatusOnly == vs_rsp.status

\* What execute-scsi-command makes of the response buffer: 8 is busy, -1 an error of
\* the hardware; a status without sense data counts as 0.
Stat ==
    CASE vs_rsp.response = 5 -> 8
      [] vs_rsp.response \notin {0, 5} -> -1
      [] vs_rsp.response = 0 -> IF vs_rsp.sense = "none" THEN 0 ELSE vs_rsp.status

\* check-retry-sense? and the busy status: try again.
Again == Stat = 8 \/ (Stat = 2 /\ vs_rsp.sense = "attention")

\* The end of an attempt in retry-scsi-command; an error that was recovered is
\* swallowed.
Attempted ==
    /\ IF Again /\ left > 1
       THEN spc' = "send" /\ left' = left - 1 /\ UNCHANGED sstat
       ELSE /\ spc' = "idle" /\ left' = 0
            /\ sstat' = IF Stat = 2 /\ vs_rsp.sense = "recovered" THEN 0 ELSE Stat
    /\ UNCHANGED <<svq, vs_req, vs_rsp, sbuf, target, rcmd, sused>>

\* The used index has moved, or VIRTIO_TIMEOUT has passed.
Finish == spc = "wait" /\ svq.used_idx # sused /\ Attempted /\ UNCHANGED slate
Timeout == spc = "wait" /\ svq.used_idx = sused /\ Attempted /\ slate' = TRUE

Next ==
    \/ virtioscsi_init \/ virtioscsi_shutdown
    \/ \E c \in Commands : retry_scsi_command(c)
    \/ virtioscsi_send
    \/ DeviceExecutes
    \/ Finish \/ Timeout

-----------------------------------------------------------------------------
\* As long as the device has kept to VIRTIO_TIMEOUT: a command that returns 0 was
\* carried out by the target on this command's data, and one that returns an
\* error was not (virtioscsi_send, execute-scsi-command, retry-scsi-command).
CommandsRight ==
    /\ vs_rsp \in Rsps
    /\ (spc = "idle" /\ ~slate /\ rcmd # NoCommand) =>
          /\ sstat = 0 <=> CarriedOut(vs_rsp)
          /\ vs_req = rcmd
          /\ (sstat = 0 /\ rcmd.op = "read") => sbuf = <<"in", rcmd.tag>>
          /\ (sstat = 0 /\ rcmd.op = "write") => target = <<"out", rcmd.tag>>
=============================================================================
