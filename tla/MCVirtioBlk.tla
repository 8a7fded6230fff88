---------------------------- MODULE MCVirtioBlk ----------------------------
(***************************************************************************)
(* The two kinds of virtio disk for TLC: VirtioBlk, extended, and          *)
(* VirtioScsi beside it, with the same queue size.  Each behaviour of the  *)
(* model follows one of them.  Constants are given in the cfg files.       *)
(***************************************************************************)
EXTENDS VirtioBlk

CONSTANTS
    Disks,                       \* the kinds of disk to follow
    ScsiCommands, ScsiAnswers,   \* what callers send, what the device may answer
    MaxRetries, ScsiPending

VARIABLES disk_kind, spc, svq, vs_req, vs_rsp, sbuf, target, rcmd, left, sused, sstat, slate

svars == <<spc, svq, vs_req, vs_rsp, sbuf, target, rcmd, left, sused, sstat, slate>>

S == INSTANCE VirtioScsi WITH
         Commands <- ScsiCommands, Answers <- ScsiAnswers, Retries <- MaxRetries,
         MaxPending <- ScsiPending

ASSUME ScsiAssumption == S!ConstantsOK

DiskInit == disk_kind \in Disks /\ Init /\ S!Init

DiskNext ==
    /\ UNCHANGED disk_kind
    /\ \/ disk_kind = "blk" /\ Next /\ UNCHANGED svars
       \/ disk_kind = "scsi" /\ S!Next /\ UNCHANGED vars

\* Only the processor's own steps are fair: nothing is assumed of the device.
DiskFairness ==
    /\ WF_vars(disk_kind = "blk" /\ Finish /\ UNCHANGED <<disk_kind, svars>>)
    /\ WF_vars(disk_kind = "blk" /\ Timeout /\ UNCHANGED <<disk_kind, svars>>)
    /\ WF_svars(disk_kind = "scsi" /\ S!Finish /\ UNCHANGED <<disk_kind, vars>>)
    /\ WF_svars(disk_kind = "scsi" /\ S!Timeout /\ UNCHANGED <<disk_kind, vars>>)

DiskSpec == DiskInit /\ [][DiskNext]_<<disk_kind, vars, svars>> /\ DiskFairness

\* While the device answers in time, a SCSI command returns 0 exactly if the target has
\* carried it out, on its own data, after at most the retries allowed (virtioscsi_send,
\* execute-scsi-command, retry-scsi-command).
ScsiRight == S!CommandsRight

\* A transfer or an attempt at a SCSI command returns even if the device never answers
\* (virtioblk_transfer, virtioscsi_send).
DisksReturn == (pc = "wait" \/ spc = "wait") ~> ~(pc = "wait" \/ spc = "wait")
-----------------------------------------------------------------------------
(* Test unit ready, two reads and a write.  Every status comes with sense  *)
(* data, as the host promises.                                             *)
Command(op, tag) == [op |-> op, tag |-> tag]
Answer(r, s, sense) == [response |-> r, status |-> s, sense |-> sense]

MCCommands == {Command("none", 1), Command("read", 1), Command("read", 2), Command("write", 1)}
MCAnswers == {Answer(0, 0, "none"), Answer(5, 0, "none"), Answer(3, 0, "none"),
              Answer(0, 2, "recovered"), Answer(0, 2, "attention"), Answer(0, 2, "other")}
=============================================================================
