------------------------------ MODULE ZbcErrno ------------------------------
(***************************************************************************)
(* Command execution and the detailed error report: zbc_sg_cmd_exec, the   *)
(* sense data it stores in the thread's zerrno (zbc_sg_set_sense), the     *)
(* REQUEST SENSE DATA EXT follow-up of the ATA driver                      *)
(* (zbc_ata_get_sense_data) and the unmet prerequisites that the zone      *)
(* activation functions add.  Threads, or processes, share one device; a   *)
(* program reads its report with zbc_errno_ext after each call.            *)
(*                                                                         *)
(* What a report says is abstracted to whose error it is: a command is     *)
(* named by its thread and its number in that thread.                      *)
(***************************************************************************)
EXTENDS ZbcErrorCodes

CONSTANTS
  Threads,    \* threads, or processes, that use the device
  Ata,        \* whether they go through the ATA driver
  MaxCalls,   \* bound: calls of each thread
  HostErrors  \* whether calls may fail before a command reaches the device

ASSUME ErrnoAssumption ==
  /\ Ata \in BOOLEAN /\ HostErrors \in BOOLEAN
  /\ MaxCalls \in Nat

\* No error: the zero fields of zerrno.
Zero == <<>>

Commands == Threads \X (1..MaxCalls)

Owner == Commands \cup {Zero}

VARIABLES
  stage,   \* per thread: "idle", or "sense" while a follow-up is due
  calls,   \* per thread: the number of calls started
  zerrno,  \* per thread: sk, asc_ascq and err_za, as the command they tell of
  result,  \* per thread: what the last call returned
  ran,     \* history, per thread: the last call completed a command
  latched  \* the device: whose error REQUEST SENSE DATA EXT would return

errnoVars == <<stage, calls, zerrno, result, ran, latched>>

Cleared == [sk |-> Zero, asc |-> Zero, za |-> Zero]

\* zbc_sg_set_sense: clear, then store what the sense buffer holds, which
\* may be nothing, a sense key only or a sense key with its codes.
zbc_sg_set_sense(sk, asc) == [Cleared EXCEPT !.sk = sk, !.asc = asc]

Me(t) == <<t, calls[t] + 1>>

Begin(t) ==
  /\ stage[t] = "idle"
  /\ calls[t] < MaxCalls
  /\ calls' = [calls EXCEPT ![t] = @ + 1]

End(t, value, completed) ==
  /\ result' = [result EXCEPT ![t] = value]
  /\ ran' = [ran EXCEPT ![t] = completed]

(***************************************************************************)
(* A call that issues one command.                                         *)
(***************************************************************************)
\* The arguments are refused or memory runs out before the command is sent.
Refuse(t) ==
  /\ HostErrors
  /\ Begin(t)
  /\ \E e \in {EINVAL, ENOMEM} : End(t, e, FALSE)
  /\ UNCHANGED <<stage, zerrno, latched>>

\* The SG_IO ioctl itself fails, before zerrno is reset.
IoctlFails(t) ==
  /\ HostErrors
  /\ Begin(t)
  /\ End(t, EIO, FALSE)
  /\ UNCHANGED <<stage, zerrno, latched>>

\* Mutant of CmdOk: a command that succeeds leaves the report alone.
CmdOkKeeps(t) ==
  /\ Begin(t)
  /\ latched' = Zero
  /\ End(t, 0, TRUE)
  /\ UNCHANGED <<stage, zerrno>>

CmdOk(t) ==
  /\ Begin(t)
  /\ zerrno' = [zerrno EXCEPT ![t] = Cleared]
  /\ latched' = Zero
  /\ End(t, 0, TRUE)
  /\ UNCHANGED stage

\* The device fails the command and the sense buffer has its sense data.
CmdFailsWithSense(t) ==
  /\ Begin(t)
  /\ zerrno' = [zerrno EXCEPT ![t] = zbc_sg_set_sense(Me(t), Me(t))]
  /\ latched' = Me(t)
  /\ End(t, EIO, TRUE)
  /\ UNCHANGED stage

\* The device fails the command, and all the host adapter hands back is a
\* sense key and the ATA status: zbc_ata_need_sense_data.
CmdFailsWithStatus(t) ==
  /\ Begin(t)
  /\ zerrno' = [zerrno EXCEPT ![t] = zbc_sg_set_sense(Me(t), Zero)]
  /\ latched' = Me(t)
  /\ End(t, EIO, TRUE)
  /\ stage' = IF Ata THEN [stage EXCEPT ![t] = "sense"] ELSE stage

\* The command fails or times out without any sense data.
CmdFailsSilently(t) ==
  /\ Begin(t)
  /\ zerrno' = [zerrno EXCEPT ![t] = zbc_sg_set_sense(Zero, Zero)]
  /\ latched' = Zero
  /\ \E e \in {EIO, ETIMEDOUT} : End(t, e, TRUE)
  /\ UNCHANGED stage

\* Mutant of NotActivated: the sense fields are not cleared.
NotActivatedKeeps(t) ==
  /\ Begin(t)
  /\ zerrno' = [zerrno EXCEPT ![t].za = Me(t)]
  /\ latched' = Zero
  /\ End(t, EIO, TRUE)
  /\ UNCHANGED stage

\* ZONE ACTIVATE succeeds as a command; its result says that prerequisites
\* are not met, which the library reports as -EIO.
NotActivated(t) ==
  /\ Begin(t)
  /\ zerrno' = [zerrno EXCEPT ![t] = [Cleared EXCEPT !.za = Me(t)]]
  /\ latched' = Zero
  /\ End(t, EIO, TRUE)
  /\ UNCHANGED stage

(***************************************************************************)
(* zbc_ata_request_sense_data_ext: a command of its own, after which the   *)
(* call returns the first command's error.                                 *)
(***************************************************************************)
FollowUpEnds(t) ==
  /\ stage[t] = "sense"
  /\ stage' = [stage EXCEPT ![t] = "idle"]
  /\ UNCHANGED <<calls, result, ran>>

\* The follow-up is not sent, or its ioctl fails: nothing is touched.
FollowUpNotSent(t) ==
  /\ HostErrors
  /\ FollowUpEnds(t)
  /\ UNCHANGED <<zerrno, latched>>

\* It succeeds without sense data, after zerrno was reset.
FollowUpEmpty(t) ==
  /\ FollowUpEnds(t)
  /\ zerrno' = [zerrno EXCEPT ![t] = Cleared]
  /\ latched' = Zero

\* It fails: whatever sense data it has itself replaces the report.
FollowUpFails(t) ==
  /\ FollowUpEnds(t)
  /\ \E own \in {Zero, <<t, calls[t]>>} :
       zerrno' = [zerrno EXCEPT ![t] = zbc_sg_set_sense(own, own)]
  /\ latched' = Zero

FollowUpOk(t) ==
  /\ FollowUpEnds(t)
  /\ zerrno' = [zerrno EXCEPT ![t] = [Cleared EXCEPT !.sk = latched,
                                                     !.asc = latched]]
  /\ latched' = Zero

ErrnoInit ==
  /\ stage = [t \in Threads |-> "idle"]
  /\ calls = [t \in Threads |-> 0]
  /\ zerrno = [t \in Threads |-> Cleared]
  /\ result = [t \in Threads |-> 0]
  /\ ran = [t \in Threads |-> FALSE]
  /\ latched = Zero

Step(t) ==
  \/ Refuse(t) \/ IoctlFails(t)
  \/ CmdOk(t) \/ CmdFailsWithSense(t) \/ CmdFailsWithStatus(t)
  \/ CmdFailsSilently(t) \/ NotActivated(t)
  \/ FollowUpNotSent(t) \/ FollowUpEmpty(t) \/ FollowUpFails(t)
  \/ FollowUpOk(t)

ErrnoNext == \E t \in Threads : Step(t)

ErrnoSpec == ErrnoInit /\ [][ErrnoNext]_errnoVars

-----------------------------------------------------------------------------
(***************************************************************************)
(* Properties.                                                             *)
(***************************************************************************)
Report == [sk : Owner, asc : Owner, za : Owner]

ErrnoTypeOK ==
  /\ stage \in [Threads -> {"idle", "sense"}]
  /\ calls \in [Threads -> 0..MaxCalls]
  /\ zerrno \in [Threads -> Report]
  /\ result \in [Threads -> Int]
  /\ ran \in [Threads -> BOOLEAN]
  /\ latched \in Owner

Parts(t) == {zerrno[t].sk, zerrno[t].asc, zerrno[t].za} \ {Zero}

\* "For successful commands, all fields are set to 0" (zbc_errno_ext): after
\* a call whose command succeeded no earlier error shows through.
SuccessClears ==
  \A t \in Threads : ran[t] /\ result[t] = 0 => Parts(t) = {}

\* A report never mixes the errors of two commands: sense key, codes and
\* activation status that are set were set by the same command.
OneCommand ==
  \A t \in Threads : \A x, y \in Parts(t) : x = y

\* "Get detailed error code of last operation": between calls, a report of
\* zbc_errno_ext tells of the thread's own last call or of nothing.
ReportOfLastCall ==
  \A t \in Threads : stage[t] = "idle" => Parts(t) \subseteq {<<t, calls[t]>>}

\* What keeps these inductive: while a follow-up is due, the call's command
\* has failed.
FollowUpDue ==
  \A t \in Threads : stage[t] = "sense" => calls[t] >= 1 /\ result[t] = EIO

ErrnoInv == ErrnoTypeOK /\ SuccessClears /\ OneCommand /\ FollowUpDue
=============================================================================
