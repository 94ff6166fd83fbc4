-------------------------- MODULE ZbcSessionProofs --------------------------
(***************************************************************************)
(* Proofs about what lasts from call to call.  About ZbcErrno, for any     *)
(* threads and any number of calls: the report of a successful call is     *)
(* clear, no report mixes commands, and with the SCSI driver a report is   *)
(* the thread's own.  About ZbcOpen, for any devices and any calls,        *)
(* whatever fails: what the process holds, which devices it takes for      *)
(* zoned and what a handle says of its device.                             *)
(***************************************************************************)
EXTENDS ZbcOpen, ZbcErrno, TLAPS

\* The fields of a report that are set.
Told(r) == {r.sk, r.asc, r.za} \ {Zero}

\* A report that tells of one command at most.
Single(r) == \A x, y \in Told(r) : x = y

\* The reports that the actions build tell of one command each.
LEMMA Reports ==
  ASSUME NEW c \in Owner
  PROVE  /\ Cleared \in Report /\ Told(Cleared) = {}
         /\ zbc_sg_set_sense(c, c) \in Report /\ Single(zbc_sg_set_sense(c, c))
         /\ zbc_sg_set_sense(c, Zero) \in Report
         /\ Single(zbc_sg_set_sense(c, Zero))
         /\ [Cleared EXCEPT !.sk = c, !.asc = c] \in Report
         /\ Single([Cleared EXCEPT !.sk = c, !.asc = c])
         /\ [Cleared EXCEPT !.za = c] \in Report
         /\ Single([Cleared EXCEPT !.za = c])
  <1>1. Zero \in Owner
    BY DEF Owner
  <1> QED
    BY <1>1 DEF Report, Cleared, zbc_sg_set_sense, Told, Single

\* A step of one thread that gives it the report r keeps the two report
\* properties, if r is clear or the call did not succeed.
LEMMA OneReport ==
  ASSUME ErrnoTypeOK, SuccessClears, OneCommand,
         NEW t \in Threads, NEW r \in Report,
         NEW value \in Int, NEW completed \in BOOLEAN,
         zerrno' = [zerrno EXCEPT ![t] = r],
         result' = [result EXCEPT ![t] = value],
         ran' = [ran EXCEPT ![t] = completed],
         Single(r),
         completed /\ value = 0 => Told(r) = {}
  PROVE  /\ zerrno' \in [Threads -> Report]
         /\ result' \in [Threads -> Int]
         /\ ran' \in [Threads -> BOOLEAN]
         /\ SuccessClears' /\ OneCommand'
  <1>1. zerrno' \in [Threads -> Report] /\ result' \in [Threads -> Int]
        /\ ran' \in [Threads -> BOOLEAN]
    BY DEF ErrnoTypeOK
  <1>2. \A u \in Threads : u /= t => /\ zerrno'[u] = zerrno[u]
                                     /\ result'[u] = result[u] /\ ran'[u] = ran[u]
    BY DEF ErrnoTypeOK
  <1>3. zerrno'[t] = r /\ result'[t] = value /\ ran'[t] = completed
    BY DEF ErrnoTypeOK
  <1>4. ASSUME NEW u \in Threads
        PROVE  /\ ran'[u] /\ result'[u] = 0 => Parts(u)' = {}
               /\ \A x, y \in Parts(u)' : x = y
    <2>1. CASE u = t
      <3>1. Parts(u)' = Told(r)
        BY <1>3, <2>1 DEF Parts, Told
      <3> QED
        BY <3>1, <1>3, <2>1 DEF Single
    <2>2. CASE u /= t
      <3>1. Parts(u)' = Parts(u)
        BY <1>2, <2>2 DEF Parts
      <3> QED
        BY <3>1, <1>2, <2>2 DEF SuccessClears, OneCommand
    <2> QED
      BY <2>1, <2>2
  <1> QED
    BY <1>1, <1>4 DEF SuccessClears, OneCommand

\* A new command has a name.
LEMMA Naming ==
  ASSUME ErrnoTypeOK, NEW t \in Threads, Begin(t)
  PROVE  /\ Me(t) \in Owner
         /\ calls' \in [Threads -> 0..MaxCalls]
         /\ calls'[t] >= 1
         /\ \A u \in Threads : u /= t => calls'[u] = calls[u]
  <1>1. calls[t] \in 0..MaxCalls /\ calls[t] < MaxCalls /\ MaxCalls \in Nat
    BY ErrnoAssumption DEF ErrnoTypeOK, Begin
  <1>2. calls[t] + 1 \in 1..MaxCalls
    BY <1>1
  <1>3. Me(t) \in Owner
    BY <1>2 DEF Me, Owner, Commands
  <1>4. calls' = [calls EXCEPT ![t] = calls[t] + 1]
    BY DEF Begin
  <1> QED
    BY <1>1, <1>2, <1>3, <1>4 DEF ErrnoTypeOK

\* The invariant holds initially.
LEMMA Initial == ErrnoInit => ErrnoInv
  <1> SUFFICES ASSUME ErrnoInit PROVE ErrnoInv
    OBVIOUS
  <1>1. Zero \in Owner /\ Cleared \in Report
    BY DEF Owner, Report, Cleared
  <1>2. ErrnoTypeOK
    BY <1>1, ErrnoAssumption DEF ErrnoInit, ErrnoTypeOK
  <1>3. \A t \in Threads : Parts(t) = {}
    BY DEF ErrnoInit, Parts, Cleared
  <1> QED
    BY <1>2, <1>3 DEF ErrnoInv, SuccessClears, OneCommand, FollowUpDue, ErrnoInit

\* A call that sends a command, or none, ends with a single report.
LEMMA CallKeeps ==
  ASSUME ErrnoInv, NEW t \in Threads, Begin(t),
         NEW r \in Report, Single(r), NEW value \in Int,
         NEW completed \in BOOLEAN,
         completed /\ value = 0 => Told(r) = {},
         zerrno' = [zerrno EXCEPT ![t] = r],
         End(t, value, completed),
         latched' \in Owner,
         \/ stage' = stage
         \/ stage' = [stage EXCEPT ![t] = "sense"] /\ value = EIO
  PROVE  ErrnoInv'
  <1>1. /\ result' = [result EXCEPT ![t] = value]
        /\ ran' = [ran EXCEPT ![t] = completed]
    BY DEF End
  <1>2. ErrnoTypeOK /\ SuccessClears /\ OneCommand /\ FollowUpDue
    BY DEF ErrnoInv
  <1>3. /\ zerrno' \in [Threads -> Report]
        /\ result' \in [Threads -> Int]
        /\ ran' \in [Threads -> BOOLEAN]
        /\ SuccessClears' /\ OneCommand'
    BY <1>1, <1>2, OneReport
  <1>4. /\ calls' \in [Threads -> 0..MaxCalls]
        /\ calls'[t] >= 1
        /\ \A u \in Threads : u /= t => calls'[u] = calls[u]
    BY <1>2, Naming
  <1>5. stage \in [Threads -> {"idle", "sense"}] /\ stage[t] = "idle"
    BY <1>2 DEF ErrnoTypeOK, Begin
  <1>6. stage' \in [Threads -> {"idle", "sense"}]
    BY <1>5
  <1>7. ASSUME NEW u \in Threads, stage'[u] = "sense"
        PROVE  calls'[u] >= 1 /\ result'[u] = EIO
    <2>0. result \in [Threads -> Int]
      BY <1>2 DEF ErrnoTypeOK
    <2>1. CASE u = t
      <3>1. stage' /= stage
        BY <1>5, <1>7, <2>1
      <3> QED
        BY <1>1, <1>4, <2>0, <2>1, <3>1
    <2>2. CASE u /= t
      <3>1. stage[u] = "sense" /\ result'[u] = result[u]
        BY <1>1, <1>5, <1>7, <2>0, <2>2
      <3> QED
        BY <1>2, <1>4, <2>2, <3>1 DEF FollowUpDue
    <2> QED
      BY <2>1, <2>2
  <1> QED
    BY <1>3, <1>4, <1>6, <1>7 DEF ErrnoInv, ErrnoTypeOK, FollowUpDue

\* The end of a follow-up leaves a single report of whichever command.
LEMMA FollowUpKeeps ==
  ASSUME ErrnoInv, NEW t \in Threads, FollowUpEnds(t),
         NEW r \in Report, Single(r),
         zerrno' = [zerrno EXCEPT ![t] = r],
         latched' \in Owner
  PROVE  ErrnoInv'
  <1>1. ErrnoTypeOK /\ SuccessClears /\ OneCommand /\ FollowUpDue
    BY DEF ErrnoInv
  <1>2. result \in [Threads -> Int] /\ ran \in [Threads -> BOOLEAN]
    BY <1>1 DEF ErrnoTypeOK
  <1>3. /\ result' = [result EXCEPT ![t] = result[t]]
        /\ ran' = [ran EXCEPT ![t] = ran[t]]
        /\ result[t] \in Int /\ ran[t] \in BOOLEAN
    BY <1>2 DEF FollowUpEnds
  <1>4. result[t] /= 0
    BY <1>1 DEF FollowUpEnds, FollowUpDue, EIO
  <1>5. /\ zerrno' \in [Threads -> Report]
        /\ SuccessClears' /\ OneCommand'
    BY <1>1, <1>3, <1>4, OneReport
  <1>6. /\ stage \in [Threads -> {"idle", "sense"}]
        /\ stage' = [stage EXCEPT ![t] = "idle"]
        /\ calls' = calls /\ result' = result /\ ran' = ran
    BY <1>1 DEF FollowUpEnds, ErrnoTypeOK
  <1>7. ErrnoTypeOK'
    BY <1>1, <1>5, <1>6 DEF ErrnoTypeOK
  <1>8. FollowUpDue'
    BY <1>1, <1>6 DEF FollowUpDue
  <1> QED
    BY <1>5, <1>7, <1>8 DEF ErrnoInv

\* Every step of a thread keeps the invariant.
LEMMA StepKeeps ==
  ASSUME ErrnoInv, NEW t \in Threads, Step(t)
  PROVE  ErrnoInv'
  <1>1. ErrnoTypeOK /\ OneCommand /\ FollowUpDue
    BY DEF ErrnoInv
  <1>2. /\ zerrno[t] \in Report /\ latched \in Owner /\ Zero \in Owner
        /\ zerrno = [zerrno EXCEPT ![t] = zerrno[t]]
    BY <1>1 DEF ErrnoTypeOK, Owner
  <1>3. Single(zerrno[t])
    BY <1>1 DEF OneCommand, Parts, Single, Told
  <1>4. Begin(t) => Me(t) \in Owner
    BY <1>1, Naming
  <1>5. stage[t] = "sense" => <<t, calls[t]>> \in Owner
    <2>1. calls[t] \in 0..MaxCalls
      BY <1>1 DEF ErrnoTypeOK
    <2>2. stage[t] = "sense" => calls[t] \in 1..MaxCalls
      BY <1>1, <2>1, ErrnoAssumption DEF FollowUpDue
    <2> QED
      BY <2>2 DEF Owner, Commands
  <1>6. CASE Refuse(t)
    <2>1. PICK e \in {EINVAL, ENOMEM} : End(t, e, FALSE)
      BY <1>6 DEF Refuse
    <2>2. e \in Int
      BY DEF EINVAL, ENOMEM
    <2>3. Begin(t) /\ stage' = stage /\ zerrno' = zerrno /\ latched' = latched
      BY <1>6 DEF Refuse
    <2> QED
      BY <1>2, <1>3, <2>1, <2>2, <2>3, CallKeeps
  <1>7. CASE IoctlFails(t)
    <2>1. EIO \in Int
      BY DEF EIO
    <2> QED
      BY <1>2, <1>3, <1>7, <2>1, CallKeeps DEF IoctlFails
  <1>8. CASE CmdOk(t)
    <2>1. Cleared \in Report /\ Told(Cleared) = {} /\ Single(Cleared)
      BY <1>2, Reports DEF Single
    <2>2. Begin(t) /\ stage' = stage /\ latched' = Zero /\ End(t, 0, TRUE)
          /\ zerrno' = [zerrno EXCEPT ![t] = Cleared]
      BY <1>8 DEF CmdOk
    <2>3. 0 \in Int /\ TRUE \in BOOLEAN /\ (TRUE /\ 0 = 0 => Told(Cleared) = {})
      BY <2>1
    <2>4. latched' \in Owner
      BY <1>2, <2>2
    <2> QED
      BY <2>1, <2>2, <2>3, <2>4, CallKeeps
  <1>9. CASE CmdFailsWithSense(t)
    <2>1. Begin(t) /\ EIO \in Int /\ EIO /= 0
      BY <1>9 DEF CmdFailsWithSense, EIO
    <2>2. /\ zbc_sg_set_sense(Me(t), Me(t)) \in Report
          /\ Single(zbc_sg_set_sense(Me(t), Me(t)))
      BY <1>4, <2>1, Reports
    <2> QED
      BY <1>4, <1>9, <2>1, <2>2, CallKeeps DEF CmdFailsWithSense
  <1>10. CASE CmdFailsWithStatus(t)
    <2>1. Begin(t) /\ EIO \in Int /\ EIO /= 0
      BY <1>10 DEF CmdFailsWithStatus, EIO
    <2>2. /\ zbc_sg_set_sense(Me(t), Zero) \in Report
          /\ Single(zbc_sg_set_sense(Me(t), Zero))
      BY <1>4, <2>1, Reports
    <2>3. stage' = stage \/ stage' = [stage EXCEPT ![t] = "sense"]
      BY <1>10 DEF CmdFailsWithStatus
    <2> QED
      BY <1>4, <1>10, <2>1, <2>2, <2>3, CallKeeps DEF CmdFailsWithStatus
  <1>11. CASE CmdFailsSilently(t)
    <2>1. PICK e \in {EIO, ETIMEDOUT} : End(t, e, TRUE)
      BY <1>11 DEF CmdFailsSilently
    <2>2. e \in Int /\ e /= 0
      BY DEF EIO, ETIMEDOUT
    <2>3. /\ zbc_sg_set_sense(Zero, Zero) \in Report
          /\ Single(zbc_sg_set_sense(Zero, Zero))
      BY <1>2, Reports
    <2> QED
      BY <1>2, <1>11, <2>1, <2>2, <2>3, CallKeeps DEF CmdFailsSilently
  <1>12. CASE NotActivated(t)
    <2>1. Begin(t) /\ EIO \in Int /\ EIO /= 0
      BY <1>12 DEF NotActivated, EIO
    <2>2. /\ [Cleared EXCEPT !.za = Me(t)] \in Report
          /\ Single([Cleared EXCEPT !.za = Me(t)])
      BY <1>4, <2>1, Reports
    <2> QED
      BY <1>2, <1>12, <2>1, <2>2, CallKeeps DEF NotActivated
  <1>13. CASE FollowUpNotSent(t)
    BY <1>2, <1>3, <1>13, FollowUpKeeps DEF FollowUpNotSent
  <1>14. CASE FollowUpEmpty(t)
    <2>1. Cleared \in Report /\ Single(Cleared)
      BY <1>2, Reports DEF Single
    <2> QED
      BY <1>2, <1>14, <2>1, FollowUpKeeps DEF FollowUpEmpty
  <1>15. CASE FollowUpFails(t)
    <2>1. PICK own \in {Zero, <<t, calls[t]>>} :
            zerrno' = [zerrno EXCEPT ![t] = zbc_sg_set_sense(own, own)]
      BY <1>15 DEF FollowUpFails
    <2>2. own \in Owner
      BY <1>2, <1>5, <1>15 DEF FollowUpFails, FollowUpEnds
    <2>3. /\ zbc_sg_set_sense(own, own) \in Report
          /\ Single(zbc_sg_set_sense(own, own))
      BY <2>2, Reports
    <2> QED
      BY <1>2, <1>15, <2>1, <2>3, FollowUpKeeps DEF FollowUpFails
  <1>16. CASE FollowUpOk(t)
    <2>1. /\ [Cleared EXCEPT !.sk = latched, !.asc = latched] \in Report
          /\ Single([Cleared EXCEPT !.sk = latched, !.asc = latched])
      BY <1>2, Reports
    <2> QED
      BY <1>2, <1>16, <2>1, FollowUpKeeps DEF FollowUpOk
  <1> QED
    BY <1>6, <1>7, <1>8, <1>9, <1>10, <1>11, <1>12, <1>13, <1>14, <1>15, <1>16
       DEF Step

\* The invariant of command execution, for any threads and calls.
THEOREM ErrnoInvariance == ErrnoSpec => []ErrnoInv
  <1>1. ErrnoInv /\ [ErrnoNext]_errnoVars => ErrnoInv'
    <2> SUFFICES ASSUME ErrnoInv, [ErrnoNext]_errnoVars PROVE ErrnoInv'
      OBVIOUS
    <2>1. CASE ErrnoNext
      BY <2>1, StepKeeps DEF ErrnoNext
    <2>2. CASE UNCHANGED errnoVars
      BY <2>2 DEF errnoVars, ErrnoInv, ErrnoTypeOK, SuccessClears, OneCommand, FollowUpDue,
                  Parts
    <2> QED
      BY <2>1, <2>2
  <1> QED
    BY Initial, <1>1, PTL DEF ErrnoSpec

\* The state of command execution keeps its type.
THEOREM ErrnoTypeCorrect == ErrnoSpec => []ErrnoTypeOK
  <1>1. ErrnoInv => ErrnoTypeOK
    BY DEF ErrnoInv
  <1> QED
    BY ErrnoInvariance, <1>1, PTL

\* After a call whose command succeeded, zbc_errno_ext shows no error, however
\* the calls of other threads and the follow-ups interleave.
THEOREM SuccessClearsHolds == ErrnoSpec => []SuccessClears
  <1>1. ErrnoInv => SuccessClears
    BY DEF ErrnoInv
  <1> QED
    BY ErrnoInvariance, <1>1, PTL

\* A report of zbc_errno_ext never mixes the errors of two commands.
THEOREM OneCommandHolds == ErrnoSpec => []OneCommand
  <1>1. ErrnoInv => OneCommand
    BY DEF ErrnoInv
  <1> QED
    BY ErrnoInvariance, <1>1, PTL

\* With the SCSI driver and without failures on the host, no follow-up is
\* ever due and every report is the thread's own.
OwnReports ==
  ~Ata /\ ~HostErrors =>
    \A t \in Threads : stage[t] = "idle" /\ Parts(t) \subseteq {<<t, calls[t]>>}

\* A call that replaces the thread's report by one of its own command keeps
\* the reports the threads' own.
LEMMA OwnReport ==
  ASSUME ErrnoTypeOK, OwnReports, ~Ata, ~HostErrors,
         NEW t \in Threads, Begin(t), NEW r \in Report,
         zerrno' = [zerrno EXCEPT ![t] = r],
         Told(r) \subseteq {Me(t)}, stage' = stage
  PROVE  OwnReports'
  <1>1. zerrno'[t] = r /\ \A u \in Threads : u /= t => zerrno'[u] = zerrno[u]
    BY DEF ErrnoTypeOK
  <1>2. calls'[t] = calls[t] + 1 /\ \A u \in Threads : u /= t => calls'[u] = calls[u]
    BY DEF ErrnoTypeOK, Begin
  <1>3. ASSUME NEW u \in Threads
        PROVE  stage'[u] = "idle" /\ Parts(u)' \subseteq {<<u, calls'[u]>>}
    <2>1. stage'[u] = "idle"
      BY DEF OwnReports
    <2>2. CASE u = t
      <3>1. Parts(u)' = Told(r)
        BY <1>1, <2>2 DEF Parts, Told
      <3> QED
        BY <1>2, <2>1, <2>2, <3>1 DEF Me
    <2>3. CASE u /= t
      <3>1. Parts(u)' = Parts(u)
        BY <1>1, <2>3 DEF Parts
      <3> QED
        BY <1>2, <2>1, <2>3, <3>1 DEF OwnReports
    <2> QED
      BY <2>2, <2>3
  <1> QED
    BY <1>3 DEF OwnReports

\* Every step keeps the reports the threads' own.
LEMMA OwnReportsStep ==
  ASSUME ErrnoInv, OwnReports, NEW t \in Threads, Step(t)
  PROVE  OwnReports'
  <1> SUFFICES ASSUME ~Ata, ~HostErrors
               PROVE  OwnReports'
    BY DEF OwnReports
  <1>1. ErrnoTypeOK /\ stage[t] = "idle"
    BY DEF ErrnoInv, OwnReports
  <1>2. ~FollowUpEnds(t)
    BY <1>1 DEF FollowUpEnds
  <1>3. Begin(t) => Me(t) \in Owner /\ Zero \in Owner
    BY <1>1, Naming DEF Owner
  <1>4. CASE CmdOk(t)
    <2>1. Begin(t) /\ Cleared \in Report /\ Told(Cleared) \subseteq {Me(t)}
      BY <1>3, <1>4, Reports DEF CmdOk
    <2> QED
      BY <1>1, <1>4, <2>1, OwnReport DEF CmdOk
  <1>5. CASE CmdFailsWithSense(t)
    <2>1. /\ Begin(t) /\ zbc_sg_set_sense(Me(t), Me(t)) \in Report
          /\ Told(zbc_sg_set_sense(Me(t), Me(t))) \subseteq {Me(t)}
      BY <1>3, <1>5, Reports DEF CmdFailsWithSense, Told, zbc_sg_set_sense, Cleared
    <2> QED
      BY <1>1, <1>5, <2>1, OwnReport DEF CmdFailsWithSense
  <1>6. CASE CmdFailsWithStatus(t)
    <2>1. /\ Begin(t) /\ zbc_sg_set_sense(Me(t), Zero) \in Report
          /\ Told(zbc_sg_set_sense(Me(t), Zero)) \subseteq {Me(t)}
      BY <1>3, <1>6, Reports DEF CmdFailsWithStatus, Told, zbc_sg_set_sense, Cleared
    <2> QED
      BY <1>1, <1>6, <2>1, OwnReport DEF CmdFailsWithStatus
  <1>7. CASE CmdFailsSilently(t)
    <2>1. /\ Begin(t) /\ zbc_sg_set_sense(Zero, Zero) \in Report
          /\ Told(zbc_sg_set_sense(Zero, Zero)) \subseteq {Me(t)}
      BY <1>3, <1>7, Reports DEF CmdFailsSilently, Told, zbc_sg_set_sense, Cleared
    <2> QED
      BY <1>1, <1>7, <2>1, OwnReport DEF CmdFailsSilently
  <1>8. CASE NotActivated(t)
    <2>1. /\ Begin(t) /\ [Cleared EXCEPT !.za = Me(t)] \in Report
          /\ Told([Cleared EXCEPT !.za = Me(t)]) \subseteq {Me(t)}
      BY <1>3, <1>8, Reports DEF NotActivated, Told, Cleared
    <2> QED
      BY <1>1, <1>8, <2>1, OwnReport DEF NotActivated
  <1> QED
    BY <1>2, <1>4, <1>5, <1>6, <1>7, <1>8
       DEF Step, Refuse, IoctlFails, FollowUpNotSent, FollowUpEmpty,
           FollowUpFails, FollowUpOk

\* What zbc_errno_ext promises holds with the SCSI driver, for any number of
\* threads on the device, as long as commands reach the device: a report
\* tells of the thread's own last call or of nothing.
THEOREM ScsiReportsHold == ErrnoSpec => [](~Ata /\ ~HostErrors => ReportOfLastCall)
  <1>1. ErrnoInit => OwnReports
    <2> SUFFICES ASSUME ErrnoInit, NEW t \in Threads
                 PROVE  stage[t] = "idle" /\ Parts(t) \subseteq {<<t, calls[t]>>}
      BY DEF OwnReports
    <2>1. zerrno[t] = Cleared /\ stage[t] = "idle"
      BY DEF ErrnoInit
    <2>2. Parts(t) = {}
      BY <2>1 DEF Parts, Cleared
    <2> QED
      BY <2>1, <2>2
  <1>2. ErrnoInv /\ OwnReports /\ [ErrnoNext]_errnoVars => OwnReports'
    <2> SUFFICES ASSUME ErrnoInv, OwnReports, [ErrnoNext]_errnoVars PROVE OwnReports'
      OBVIOUS
    <2>1. CASE ErrnoNext
      BY <2>1, OwnReportsStep DEF ErrnoNext
    <2>2. CASE UNCHANGED errnoVars
      BY <2>2 DEF errnoVars, OwnReports, Parts
    <2> QED
      BY <2>1, <2>2
  <1>3. OwnReports => (~Ata /\ ~HostErrors => ReportOfLastCall)
    BY DEF OwnReports, ReportOfLastCall
  <1> QED
    BY ErrnoInvariance, <1>1, <1>2, <1>3, PTL DEF ErrnoSpec

-----------------------------------------------------------------------------
(***************************************************************************)
(* ZbcOpen.                                                                *)
(***************************************************************************)
\* The SCSI driver is tried before the ATA driver.
LEMMA DriverFacts ==
  /\ Len(Drivers) = 2
  /\ Drivers[1] = "scsi" /\ Drivers[2] = "ata"
  BY DEF Drivers

\* The error codes that the open paths return are all different.
LEMMA Codes ==
  /\ EIO = -5 /\ ENXIO = -6 /\ ENOMEM = -12 /\ EACCES = -13 /\ ENODEV = -19
  /\ EINVAL = -22 /\ EMFILE = -24
  BY DEF EIO, ENXIO, ENOMEM, EACCES, ENODEV, EINVAL, EMFILE

\* The device is one of the profiles, and keeps to the standards.
LEMMA ProfileFacts ==
  ASSUME TypeOK
  PROVE  dev \in Profile /\ Honest(dev) /\ Visible(dev) /\ call.test \in BOOLEAN
  <1>1. dev \in Profile /\ Honest(dev) /\ Visible(dev)
    BY OpenAssumption, DeviceAssumption DEF TypeOK
  <1>2. call.test \in BOOLEAN
    BY OpenAssumption DEF TypeOK, Calls
  <1> QED BY <1>1, <1>2

\* What zbc_scsi_classify makes of a device: it accepts one that has page B6h
\* and is host managed or has a known ZONED field; a zoned device that it does
\* not accept is one that the ATA driver is to try.
LEMMA ScsiClassFacts ==
  ASSUME TypeOK
  PROVE  /\ ScsiClass \in {0, EIO, ENXIO}
         /\ ScsiClass = 0 =>
              /\ dev.pageB6
              /\ dev.type = "hm" \/ (dev.type = "std" /\ dev.zoned \in {0, 1})
         /\ ZonedDevice /\ ~call.test /\ (isata <=> dev.page89) =>
              IF ScsiClass = 0 THEN ScsiTells(dev, dev.truth)
                ELSE ScsiClass = ENXIO /\ dev.page89
  <1>1. dev.type \in {"hm", "std", "other"} /\ dev.zoned \in 0..3
        /\ dev.pageB6 \in BOOLEAN /\ dev.page89 \in BOOLEAN
    BY ProfileFacts DEF Profile
  <1>2. NotThisDriver \in {EIO, ENXIO} /\ (isata => NotThisDriver = ENXIO)
    BY DEF NotThisDriver
  <1>3. ScsiClass \in {0, EIO, ENXIO}
    BY <1>2 DEF ScsiClass
  <1>4. ASSUME ScsiClass = 0
        PROVE  /\ dev.pageB6
               /\ dev.type = "hm" \/ (dev.type = "std" /\ dev.zoned \in {0, 1})
    BY <1>1, <1>2, <1>4, Codes DEF ScsiClass
  <1>5. ASSUME ZonedDevice, ~call.test, isata <=> dev.page89
        PROVE  IF ScsiClass = 0 THEN ScsiTells(dev, dev.truth)
                 ELSE ScsiClass = ENXIO /\ dev.page89
    <2>1. \/ ScsiTells(dev, dev.truth)
          \/ /\ dev.page89 /\ ~dev.pageB6
             /\ dev.type = "std" => dev.zoned /= 3
      <3>1. Visible(dev) /\ dev.truth \in ZonedKinds
        BY <1>5, ProfileFacts DEF ZonedDevice
      <3> QED BY <3>1 DEF Visible
    <2>2. CASE ScsiTells(dev, dev.truth)
      <3>1. dev.pageB6 /\ (dev.type = "hm" \/ (dev.type = "std" /\ dev.zoned \in {0, 1}))
        BY <2>2 DEF ScsiTells
      <3>2. ScsiClass = 0
        BY <3>1, <1>5 DEF ScsiClass
      <3> QED BY <2>2, <3>2
    <2>3. CASE ~ScsiTells(dev, dev.truth)
      <3>1. dev.page89 /\ ~dev.pageB6 /\ (dev.type = "std" => dev.zoned /= 3)
        BY <2>1, <2>3
      <3>2. ScsiClass = ENXIO
        BY <3>1, <1>2, <1>5 DEF ScsiClass
      <3> QED BY <3>1, <3>2, Codes
    <2> QED BY <2>2, <2>3
  <1> QED BY <1>3, <1>4, <1>5

\* What zbc_ata_classify makes of a device: it accepts every zoned ATA device.
LEMMA AtaClassFacts ==
  ASSUME TypeOK
  PROVE  /\ AtaClass \in {0, EIO, ENXIO}
         /\ AtaClass = 0 =>
              /\ dev.ata
              /\ dev.sig = "hm" \/ (dev.sig = "std" /\ dev.azoned \in {0, 1})
         /\ ZonedDevice /\ ~call.test /\ dev.page89 => AtaClass = 0
  <1>1. dev.sig \in {"hm", "std", "other"} /\ dev.azoned \in 0..3
        /\ dev.ata \in BOOLEAN
    BY ProfileFacts DEF Profile
  <1>2. AtaClass \in {0, EIO, ENXIO}
    BY DEF AtaClass
  <1>3. ASSUME AtaClass = 0
        PROVE  /\ dev.ata
               /\ dev.sig = "hm" \/ (dev.sig = "std" /\ dev.azoned \in {0, 1})
    BY <1>1, <1>3, Codes DEF AtaClass
  <1>4. ASSUME ZonedDevice, ~call.test, dev.page89
        PROVE  AtaClass = 0
    <2>1. AtaTells(dev, dev.truth)
      BY <1>4, ProfileFacts DEF ZonedDevice, Visible
    <2>2. dev.ata /\ (dev.sig = "hm" \/ (dev.sig = "std" /\ dev.azoned \in {0, 1}))
      BY <1>4, <2>1 DEF AtaTells, ZonedDevice, ZonedKinds
    <2> QED BY <2>2, <1>4 DEF AtaClass
  <1> QED BY <1>2, <1>3, <1>4

\* The device is what the driver that accepts it makes of it.
LEMMA Recognised ==
  ASSUME OpenInv, pc = "tried", ret = 0
  PROVE  /\ drv \in 1..2 /\ ZonedDevice
         /\ zdr /= {} <=> dev.truth = "zd"
         /\ model = "ha" <=> dev.truth = "ha"
  <1>1. drv \in 1..2
    BY DriverFacts DEF OpenInv, Driving
  <1>2. ASSUME NEW kind \in ZonedKinds, DriverTells(kind) PROVE dev.truth = kind
    BY <1>2, ProfileFacts DEF DriverTells, Honest, OpenInv
  <1>3. model \in {"hm", "ha"}
        /\ IF zdr = {} THEN DriverTells(model) ELSE model = "hm" /\ DriverTells("zd")
    BY DEF OpenInv, Findings
  <1>4. CASE zdr = {}
    BY <1>1, <1>2, <1>3 DEF ZonedKinds, ZonedDevice
  <1>5. CASE zdr /= {}
    BY <1>1, <1>2, <1>3 DEF ZonedKinds, ZonedDevice
  <1> QED BY <1>4, <1>5

\* Every step of an open, a test or a close keeps the invariant.
LEMMA OpenStep ==
  ASSUME OpenInv, [Next]_vars
  PROVE  OpenInv'
<1>0. TypeOK /\ Resources /\ Driving /\ Findings /\ AttentionsPass /\ Search
      /\ HandleIsDevice
  BY DEF OpenInv
<1>1. CASE Realpath
  <2>1. TypeOK'
    BY <1>0, <1>1 DEF Realpath, Goto, TypeOK, devVars
  <2>2. Resources'
    BY <1>0, <1>1 DEF Realpath, Goto, Resources, Inside, HasFile
  <2>3. Driving'
    BY <1>0, <1>1 DEF Realpath, Goto, Driving, Inside
  <2>4. Findings'
    BY <1>1 DEF Realpath, Goto, Findings
  <2>5. AttentionsPass'
    BY <1>0, <1>1 DEF Realpath, AttentionsPass, FewAttentions
  <2>6. Search'
    BY <1>0, <1>1 DEF Realpath, Goto, Search, Driving
  <2>7. HandleIsDevice'
    BY <1>0, <1>1 DEF Realpath, HandleIsDevice, ZonedDevice
  <2> QED BY <2>1, <2>2, <2>3, <2>4, <2>5, <2>6, <2>7 DEF OpenInv
<1>2. CASE RealpathFails
  <2>1. TypeOK'
    BY <1>0, <1>2 DEF RealpathFails, Goto, TypeOK, devVars
  <2>2. Resources'
    BY <1>0, <1>2 DEF RealpathFails, Goto, Resources, Inside, HasFile
  <2>3. Driving'
    BY <1>2 DEF RealpathFails, Goto, Driving, Inside
  <2>4. Findings'
    BY <1>2 DEF RealpathFails, Goto, Findings
  <2>5. AttentionsPass'
    BY <1>2 DEF RealpathFails, AttentionsPass
  <2>6. Search'
    BY <1>2 DEF RealpathFails, Search, Undisturbed
  <2>7. HandleIsDevice'
    BY <1>0, <1>2 DEF RealpathFails, HandleIsDevice, ZonedDevice
  <2> QED BY <2>1, <2>2, <2>3, <2>4, <2>5, <2>6, <2>7 DEF OpenInv
<1>3. CASE SkipDriver
  <2>1. TypeOK'
    BY <1>0, <1>3 DEF SkipDriver, TypeOK, devVars
  <2>2. Resources'
    BY <1>0, <1>3 DEF SkipDriver, Resources, Inside, HasFile
  <2>3. Driving'
    BY <1>0, <1>3 DEF SkipDriver, Driving, Inside
  <2>4. Findings'
    BY <1>3 DEF SkipDriver, Findings
  <2>5. AttentionsPass'
    BY <1>0, <1>3 DEF SkipDriver, AttentionsPass, FewAttentions
  <2>6. Search'
    <3>1. ~AllDrivers'
      <4>1. Driver \in DriverSet
        BY <1>0, <1>3, DriverFacts DEF SkipDriver, TypeOK, Driver, DriverSet
      <4> QED BY <4>1, <1>3 DEF SkipDriver, Allowed, AllDrivers
    <3> QED BY <3>1 DEF Search, Undisturbed
  <2>7. HandleIsDevice'
    BY <1>0, <1>3 DEF SkipDriver, HandleIsDevice, ZonedDevice
  <2> QED BY <2>1, <2>2, <2>3, <2>4, <2>5, <2>6, <2>7 DEF OpenInv
<1>4. CASE OpenFile
  <2>1. TypeOK'
    <3>1. fds' \in 0..FdLimit /\ arrays' \in 0..MaxLost
      BY <1>0, <1>4, OpenAssumption DEF OpenFile, TypeOK
    <3>3. ret' \in {0, 1, EIO, ENXIO, ENOMEM, EACCES, ENODEV, EMFILE}
          /\ drv' \in 1..(Len(Drivers) + 1)
      BY <1>0, <1>4 DEF OpenFile, TypeOK, Stays
    <3> QED
      BY <1>0, <1>4, <3>1, <3>3 DEF OpenFile, Goto, TypeOK, Stays, devVars
  <2>2. Resources'
    BY <1>0, <1>4, Codes
    DEF OpenFile, Goto, TypeOK, Resources, Inside, HasFile, Stays
  <2>3. Driving'
    BY <1>0, <1>4, Codes
    DEF OpenFile, Goto, TypeOK, Driving, Allowed, Driver, Stays
  <2>4. Findings'
    BY <1>4, Codes DEF OpenFile, Goto, Findings
  <2>5. AttentionsPass'
    BY <1>0, <1>4 DEF OpenFile, AttentionsPass, FewAttentions, Stays
  <2>6. Search'
    BY <1>0, <1>4
    DEF OpenFile, Goto, Search, Undisturbed, FewAttentions, AllDrivers,
        ZonedDevice, Stays
  <2>7. HandleIsDevice'
    BY <1>0, <1>4 DEF OpenFile, HandleIsDevice, ZonedDevice, Stays
  <2> QED BY <2>1, <2>2, <2>3, <2>4, <2>5, <2>6, <2>7 DEF OpenInv
<1>5. CASE OpenFileFails
  <2>1. TypeOK'
    BY <1>0, <1>5 DEF OpenFileFails, Goto, TypeOK, Stays, devVars
  <2>2. Resources'
    BY <1>0, <1>5, Codes
    DEF OpenFileFails, Goto, Resources, Inside, HasFile, Stays
  <2>3. Driving'
    BY <1>0, <1>5, Codes
    DEF OpenFileFails, Goto, TypeOK, Driving, Allowed, Driver, Stays
  <2>4. Findings'
    BY <1>5, Codes DEF OpenFileFails, Goto, Findings
  <2>5. AttentionsPass'
    BY <1>5 DEF OpenFileFails, AttentionsPass
  <2>6. Search'
    BY <1>5 DEF OpenFileFails, Search, Undisturbed
  <2>7. HandleIsDevice'
    BY <1>0, <1>5 DEF OpenFileFails, HandleIsDevice, ZonedDevice, Stays
  <2> QED BY <2>1, <2>2, <2>3, <2>4, <2>5, <2>6, <2>7 DEF OpenInv
<1>6. CASE Stat
  <2>1. TypeOK'
    <3>1. fds' \in 0..FdLimit /\ arrays' \in 0..MaxLost
      BY <1>0, <1>6, OpenAssumption
      DEF Stat, DriverFails, TypeOK, Resources, Inside, HasFile
    <3>2. retries' \in 0..5 /\ (\E a \in Attentions \cup {0} : attention' \in 0..a)
      BY <1>0, <1>6 DEF Stat, TypeOK
    <3>3. ret' \in {0, 1, EIO, ENXIO, ENOMEM, EACCES, ENODEV, EMFILE}
          /\ drv' \in 1..(Len(Drivers) + 1)
      BY <1>0, <1>6 DEF Stat, DriverFails, TypeOK, Stays
    <3> QED
      BY <1>0, <1>6, <3>1, <3>2, <3>3
      DEF Stat, Goto, DriverFails, TypeOK, Stays, devVars
  <2>2. Resources'
    BY <1>0, <1>6, Codes
    DEF Stat, Goto, DriverFails, TypeOK, Resources, Inside, HasFile, Stays
  <2>3. Driving'
    BY <1>0, <1>6, Codes
    DEF Stat, Goto, DriverFails, Driver, Driving, Inside, Allowed, Stays
  <2>4. Findings'
    BY <1>6, Codes DEF Stat, Goto, DriverFails, Findings
  <2>5. AttentionsPass'
    BY <1>0, <1>6 DEF Stat, AttentionsPass, FewAttentions, Inside, Stays
  <2>6. Search'
    <3>1. SUFFICES ASSUME Undisturbed', ZonedDevice'
                   PROVE  pc' = "ready" /\ (drv' = 1 \/ (drv' = 2 /\ dev'.page89))
      <4>1. pc' \in {"ready", "tried"}
        BY <1>6 DEF Stat, DriverFails, Goto
      <4> QED BY <4>1 DEF Search
    <3>2. dev.node
      BY <1>0, <1>6, <3>1, ProfileFacts DEF Visible, ZonedDevice, Stat, Stays
    <3>3. Undisturbed /\ ZonedDevice
      <4>1. fault \/ FewAttentions
        BY <1>0, <1>6 DEF AttentionsPass, Inside, Stat
      <4> QED
        BY <1>6, <3>1, <4>1
        DEF Undisturbed, AllDrivers, ZonedDevice, Stat, Stays
    <3> QED
      BY <1>0, <1>6, <3>2, <3>3 DEF Search, Inside, Stat, Stays, Goto
  <2>7. HandleIsDevice'
    BY <1>0, <1>6 DEF Stat, HandleIsDevice, ZonedDevice, Stays
  <2> QED BY <2>1, <2>2, <2>3, <2>4, <2>5, <2>6, <2>7 DEF OpenInv
<1>7. CASE StatFails
  <2>1. TypeOK'
    <3>1. fds' \in 0..FdLimit /\ arrays' \in 0..MaxLost
      BY <1>0, <1>7, OpenAssumption
      DEF StatFails, TypeOK, Resources, Inside, HasFile
    <3> QED
      BY <1>0, <1>7, <3>1 DEF StatFails, Goto, TypeOK, Stays, devVars
  <2>2. Resources'
    BY <1>0, <1>7, Codes
    DEF StatFails, Goto, TypeOK, Resources, Inside, HasFile, Stays
  <2>3. Driving'
    BY <1>0, <1>7, Codes
    DEF StatFails, Goto, Driving, Inside, Allowed, Driver, Stays
  <2>4. Findings'
    BY <1>7, Codes DEF StatFails, Goto, Findings
  <2>5. AttentionsPass'
    BY <1>7 DEF StatFails, AttentionsPass
  <2>6. Search'
    BY <1>7 DEF StatFails, Search, Undisturbed
  <2>7. HandleIsDevice'
    BY <1>0, <1>7 DEF StatFails, HandleIsDevice, ZonedDevice, Stays
  <2> QED BY <2>1, <2>2, <2>3, <2>4, <2>5, <2>6, <2>7 DEF OpenInv
<1>8. CASE Ready
  <2>1. TypeOK'
    BY <1>0, <1>8 DEF Ready, Goto, TypeOK, Stays, devVars
  <2>2. Resources'
    BY <1>0, <1>8 DEF Ready, Goto, Resources, Inside, HasFile, Stays
  <2>3. Driving'
    BY <1>0, <1>8 DEF Ready, Goto, Driving, Inside, Allowed, Driver, Stays
  <2>4. Findings'
    BY <1>0, <1>8 DEF Ready, Goto, Findings, devVars
  <2>5. AttentionsPass'
    BY <1>0, <1>8 DEF Ready, AttentionsPass, FewAttentions, Inside, Stays
  <2>6. Search'
    BY <1>0, <1>8
    DEF Ready, Goto, Search, Undisturbed, FewAttentions, AllDrivers, ZonedDevice,
        Inside, Stays
  <2>7. HandleIsDevice'
    BY <1>0, <1>8 DEF Ready, HandleIsDevice, ZonedDevice, Stays
  <2> QED BY <2>1, <2>2, <2>3, <2>4, <2>5, <2>6, <2>7 DEF OpenInv
<1>9. CASE Attention
  <2>1. TypeOK'
    <3>1. fds' \in 0..FdLimit /\ arrays' \in 0..MaxLost
      BY <1>0, <1>9, OpenAssumption
      DEF Attention, DriverFails, TypeOK, Resources, Inside, HasFile
    <3>2. retries' \in 0..5 /\ (\E a \in Attentions \cup {0} : attention' \in 0..a)
      <4>1. retries' \in 0..5
        BY <1>0, <1>9 DEF Attention, TypeOK, Driving
      <4>2. PICK a \in Attentions \cup {0} : attention \in 0..a
        BY <1>0 DEF TypeOK
      <4>3. a \in Nat
        BY OpenAssumption
      <4>4. attention' \in 0..a
        BY <4>2, <4>3, <1>9 DEF Attention
      <4> QED BY <4>1, <4>4
    <3> QED
      BY <1>0, <1>9, <3>1, <3>2
      DEF Attention, Goto, DriverFails, TypeOK, Stays, devVars
  <2>2. Resources'
    BY <1>0, <1>9, Codes
    DEF Attention, Goto, DriverFails, TypeOK, Resources, Inside, HasFile, Stays
  <2>3. Driving'
    BY <1>0, <1>9, Codes
    DEF Attention, Goto, DriverFails, Driver, TypeOK, Driving, Inside, Allowed,
        Stays
  <2>4. Findings'
    BY <1>0, <1>9, Codes DEF Attention, Goto, DriverFails, Findings, devVars
  <2>5. AttentionsPass'
    BY <1>0, <1>9, DriverFacts, Codes
    DEF Attention, Goto, DriverFails, Driver, TypeOK, AttentionsPass,
        FewAttentions, Inside, Stays
  <2>6. Search'
    BY <1>0, <1>9
    DEF Attention, TypeOK, Search, Undisturbed, FewAttentions, AllDrivers,
        ZonedDevice, Inside, Stays
  <2>7. HandleIsDevice'
    BY <1>0, <1>9 DEF Attention, HandleIsDevice, ZonedDevice, Stays
  <2> QED BY <2>1, <2>2, <2>3, <2>4, <2>5, <2>6, <2>7 DEF OpenInv
<1>10. CASE CommandFails
  <2>0. PICK e \in {EIO, ENXIO, ENOMEM} : DriverFails(e)
    <3>1. CommandErrors \subseteq {EIO, ENXIO, ENOMEM}
      <4>1. CASE pc = "classify"
        BY DEF CommandErrors, NotThisDriver
      <4>2. CASE pc = "characteristics"
        BY <4>2 DEF CommandErrors
      <4>3. CASE pc \notin {"classify", "characteristics"}
        BY <4>3 DEF CommandErrors
      <4> QED BY <4>1, <4>2, <4>3
    <3>2. \E e \in CommandErrors : DriverFails(e)
      BY <1>10 DEF CommandFails
    <3> QED BY <3>1, <3>2
  <2>8. /\ pc \in {"ready", "identify", "classify", "characteristics", "capacity"}
         /\ fault' = TRUE /\ Stays
         /\ UNCHANGED <<attention, retries, devVars, arrays, domFault, noticed>>
    BY <1>10 DEF CommandFails
  <2>1. TypeOK'
    <3>1. fds' \in 0..FdLimit
      BY <1>0, <2>0, <2>8, OpenAssumption
      DEF DriverFails, TypeOK, Resources, Inside, HasFile
    <3> QED
      BY <1>0, <2>0, <2>8, <3>1 DEF DriverFails, Goto, TypeOK, Stays, devVars
  <2>2. Resources'
    BY <1>0, <2>0, <2>8, Codes
    DEF Goto, DriverFails, TypeOK, Resources, Inside, HasFile, Stays
  <2>3. Driving'
    BY <1>0, <2>0, <2>8, Codes
    DEF Goto, DriverFails, Driver, Driving, Inside, Allowed, Stays
  <2>4. Findings'
    BY <2>0, Codes DEF Goto, DriverFails, Findings
  <2>5. AttentionsPass'
    BY <2>8 DEF AttentionsPass
  <2>6. Search'
    BY <2>8 DEF Search, Undisturbed
  <2>7. HandleIsDevice'
    BY <1>0, <2>8 DEF HandleIsDevice, ZonedDevice, Stays
  <2> QED BY <2>1, <2>2, <2>3, <2>4, <2>5, <2>6, <2>7 DEF OpenInv
<1>11. CASE SoftError
  <2>1. TypeOK'
    <3>1. fds' \in 0..FdLimit /\ arrays' \in 0..MaxLost
      BY <1>0, <1>11, OpenAssumption
      DEF SoftError, DriverFails, TypeOK, Resources, Inside, HasFile
    <3>2. retries' \in 0..5 /\ (\E a \in Attentions \cup {0} : attention' \in 0..a)
      BY <1>0, <1>11 DEF SoftError, TypeOK, Driving
    <3> QED
      BY <1>0, <1>11, <3>1, <3>2
      DEF SoftError, Goto, DriverFails, TypeOK, Stays, devVars
  <2>2. Resources'
    BY <1>0, <1>11, Codes
    DEF SoftError, Goto, DriverFails, TypeOK, Resources, Inside, HasFile, Stays
  <2>3. Driving'
    BY <1>0, <1>11, Codes
    DEF SoftError, Goto, DriverFails, Driver, TypeOK, Driving, Inside, Allowed,
        Stays
  <2>4. Findings'
    BY <1>0, <1>11, Codes DEF SoftError, Goto, DriverFails, Findings, devVars
  <2>5. AttentionsPass'
    BY <1>11 DEF SoftError, AttentionsPass
  <2>6. Search'
    BY <1>11 DEF SoftError, Search, Undisturbed
  <2>7. HandleIsDevice'
    BY <1>0, <1>11 DEF SoftError, HandleIsDevice, ZonedDevice, Stays
  <2> QED BY <2>1, <2>2, <2>3, <2>4, <2>5, <2>6, <2>7 DEF OpenInv
<1>12. CASE Identify
  <2>1. TypeOK'
    BY <1>0, <1>12 DEF Identify, Goto, TypeOK, Stays
  <2>2. Resources'
    BY <1>0, <1>12 DEF Identify, Goto, Resources, Inside, HasFile, Stays
  <2>3. Driving'
    BY <1>0, <1>12 DEF Identify, Goto, Driving, Inside, Allowed, Driver, Stays
  <2>4. Findings'
    BY <1>0, <1>12 DEF Identify, Goto, Findings
  <2>5. AttentionsPass'
    BY <1>0, <1>12 DEF Identify, AttentionsPass, FewAttentions, Inside, Stays
  <2>6. Search'
    BY <1>0, <1>12, DriverFacts
    DEF Identify, Goto, Search, Undisturbed, FewAttentions, AllDrivers,
        ZonedDevice, Inside, Driver, Stays
  <2>7. HandleIsDevice'
    BY <1>0, <1>12 DEF Identify, HandleIsDevice, ZonedDevice, Stays
  <2> QED BY <2>1, <2>2, <2>3, <2>4, <2>5, <2>6, <2>7 DEF OpenInv
<1>13. CASE IdentifyFails
  <2>1. TypeOK'
    BY <1>0, <1>13 DEF IdentifyFails, Goto, TypeOK, Stays, devVars
  <2>2. Resources'
    BY <1>0, <1>13 DEF IdentifyFails, Goto, Resources, Inside, HasFile, Stays
  <2>3. Driving'
    BY <1>0, <1>13
    DEF IdentifyFails, Goto, Driving, Inside, Allowed, Driver, Stays
  <2>4. Findings'
    BY <1>0, <1>13 DEF IdentifyFails, Goto, Findings, devVars
  <2>5. AttentionsPass'
    BY <1>13 DEF IdentifyFails, AttentionsPass
  <2>6. Search'
    BY <1>13 DEF IdentifyFails, Search, Undisturbed
  <2>7. HandleIsDevice'
    BY <1>0, <1>13 DEF IdentifyFails, HandleIsDevice, ZonedDevice, Stays
  <2> QED BY <2>1, <2>2, <2>3, <2>4, <2>5, <2>6, <2>7 DEF OpenInv
<1>14. CASE Classify
  <2> DEFINE class == IF Driver = "scsi" THEN ScsiClass ELSE AtaClass
  <2>0. /\ pc = "classify" /\ drv \in 1..2 /\ (drv = 1 <=> Driver = "scsi")
        /\ drv = 2 <=> Driver = "ata"
    BY <1>0, <1>14, DriverFacts DEF Classify, Driving, Inside, Driver
  <2>8. class \in {0, EIO, ENXIO}
    BY <1>0, ScsiClassFacts, AtaClassFacts
  <2>9. IF class = 0
          THEN /\ model' = IF Driver = "scsi" THEN ScsiModel ELSE AtaModel
               /\ pc' = "characteristics" /\ UNCHANGED <<ret, fds>>
          ELSE /\ DriverFails(class) /\ UNCHANGED model
    BY <1>14 DEF Classify, Goto
  <2>10. /\ dev' = dev /\ call' = call /\ drv' = drv /\ held' = held
         /\ UNCHANGED <<attention, retries, isata, zdr, sbc, arrays, fault, domFault,
                        noticed>>
    BY <1>14 DEF Classify, Stays
  <2> HIDE DEF class
  <2>1. TypeOK'
    <3>1. fds' \in 0..FdLimit
      BY <1>0, <2>0, <2>9, OpenAssumption
      DEF DriverFails, TypeOK, Resources, Inside, HasFile
    <3>2. ret' \in {ret, EIO, ENXIO} /\ pc' \in {"characteristics", "tried"}
      BY <2>8, <2>9 DEF DriverFails, Goto
    <3>3. model' \in {"unknown", "hm", "ha", "standard"}
      BY <1>0, <2>9 DEF TypeOK, ScsiModel, AtaModel
    <3> QED
      BY <1>0, <2>10, <3>1, <3>2, <3>3 DEF TypeOK
  <2>2. Resources'
    BY <1>0, <1>14, Codes
    DEF Classify, Goto, DriverFails, TypeOK, Resources, Inside, HasFile, Stays
  <2>3. Driving'
    <3>1. Driver' = Driver /\ Allowed(Driver)' = Allowed(Driver)
      BY <2>10 DEF Driver, Allowed
    <3>2. pc' = "characteristics" \/ (pc' = "tried" /\ ret' \in {EIO, ENXIO})
      BY <2>8, <2>9 DEF DriverFails, Goto
    <3> QED
      BY <1>0, <2>0, <2>10, <3>1, <3>2, Codes DEF Driving, Inside
  <2>4. Findings'
    <3>1. CASE class = 0
      <4>1. Driver' = Driver /\ ScsiModel' = ScsiModel /\ AtaModel' = AtaModel
        BY <2>10 DEF Driver, ScsiModel, AtaModel
      <4>2. pc' = "characteristics" /\ zdr' = {}
            /\ model' = IF Driver = "scsi" THEN ScsiModel ELSE AtaModel
        BY <1>0, <2>0, <2>9, <2>10, <3>1 DEF Findings
      <4>3. CASE Driver = "scsi"
        <5>1. ScsiClass = 0
          BY <3>1, <4>3 DEF class
        <5> QED
          BY <1>0, <2>10, <4>1, <4>2, <4>3, <5>1, ScsiClassFacts DEF Findings
      <4>4. CASE Driver = "ata"
        <5>1. AtaClass = 0
          BY <3>1, <4>4 DEF class
        <5> QED
          BY <1>0, <2>10, <4>1, <4>2, <4>4, <5>1, AtaClassFacts DEF Findings
      <4> QED BY <2>0, <4>3, <4>4
    <3>2. CASE class /= 0
      <4>1. pc' = "tried" /\ ret' \in {EIO, ENXIO}
        BY <2>8, <2>9, <3>2 DEF DriverFails, Goto
      <4> QED BY <4>1, Codes DEF Findings
    <3> QED BY <3>1, <3>2
  <2>5. AttentionsPass'
    BY <1>0, <1>14 DEF Classify, AttentionsPass, FewAttentions, Inside, Stays
  <2>6. Search'
    <3>1. CASE ~Undisturbed' \/ ~ZonedDevice'
      <4>1. pc' \in {"characteristics", "tried"}
        BY <2>9 DEF DriverFails, Goto
      <4> QED BY <3>1, <4>1 DEF Search
    <3>2. CASE Undisturbed' /\ ZonedDevice'
      <4>1. Undisturbed /\ ZonedDevice /\ ~call.test
        BY <2>10, <3>2 DEF Undisturbed, AllDrivers, FewAttentions, ZonedDevice
      <4>2. drv = 1 => (isata <=> dev.page89)
        BY <1>0, <2>0, <4>1 DEF Search
      <4>3. drv = 2 => dev.page89
        BY <1>0, <2>0, <4>1 DEF Search, Inside
      <4>4. CASE drv = 1
        <5>1. class = ScsiClass
          BY <2>0, <4>4 DEF class
        <5>2. IF class = 0 THEN ScsiTells(dev, dev.truth)
                ELSE class = ENXIO /\ dev.page89
          BY <1>0, <4>1, <4>2, <4>4, <5>1, ScsiClassFacts
        <5>3. CASE class = 0
          <6>1. pc' = "characteristics"
            BY <2>9, <5>3
          <6> QED BY <2>10, <4>4, <5>2, <5>3, <6>1 DEF Search
        <5>4. CASE class /= 0
          <6>1. pc' = "tried" /\ ret' = ENXIO
            BY <2>9, <5>2, <5>4 DEF DriverFails, Goto
          <6> QED BY <2>10, <4>4, <5>2, <5>4, <6>1 DEF Search
        <5> QED BY <5>3, <5>4
      <4>5. CASE drv = 2
        <5>1. class = 0
          BY <1>0, <2>0, <4>1, <4>3, <4>5, AtaClassFacts DEF class
        <5>2. pc' = "characteristics" /\ Driver' = "ata"
          BY <2>0, <2>9, <2>10, <4>5, <5>1 DEF Driver
        <5> QED BY <2>10, <4>3, <4>5, <5>2 DEF Search
      <4> QED BY <2>0, <4>4, <4>5
    <3> QED BY <3>1, <3>2
  <2>7. HandleIsDevice'
    BY <1>0, <1>14 DEF Classify, HandleIsDevice, ZonedDevice, Stays
  <2> QED BY <2>1, <2>2, <2>3, <2>4, <2>5, <2>6, <2>7 DEF OpenInv
<1>15. CASE ScsiCharacteristics
  <2>1. TypeOK'
    <3>1. fds' \in 0..FdLimit /\ arrays' \in 0..MaxLost
      BY <1>0, <1>15, OpenAssumption
      DEF ScsiCharacteristics, DriverFails, TypeOK, Resources, Inside, HasFile
    <3>3. ret' \in {0, 1, EIO, ENXIO, ENOMEM, EACCES, ENODEV, EMFILE}
          /\ drv' \in 1..(Len(Drivers) + 1)
      BY <1>0, <1>15 DEF ScsiCharacteristics, DriverFails, TypeOK, Stays
    <3> QED
      BY <1>0, <1>15, <3>1, <3>3
      DEF ScsiCharacteristics, Goto, DriverFails, ScsiZdr, ScsiFinalModel, TypeOK,
          Stays, devVars
  <2>2. Resources'
    BY <1>0, <1>15, Codes
    DEF ScsiCharacteristics, Goto, DriverFails, TypeOK, Resources, Inside,
        HasFile, Stays
  <2>3. Driving'
    BY <1>0, <1>15, DriverFacts, Codes
    DEF ScsiCharacteristics, Goto, DriverFails, Driver, Driving, Inside, Allowed,
        Stays
  <2>0. drv = 1 /\ pc = "characteristics"
    BY <1>0, <1>15, DriverFacts
    DEF Driving, Inside, Driver, ScsiCharacteristics
  <2>4. Findings'
    <3>1. /\ model = ScsiModel /\ dev.pageB6
          /\ dev.type = "hm" \/ (dev.type = "std" /\ dev.zoned \in {0, 1})
      BY <1>0, <1>15 DEF ScsiCharacteristics, Findings
    <3>2. CASE pc' \in {"types", "capacity"}
      <4>1. ScsiFinalModel /= "standard" /\ model' = ScsiFinalModel /\ zdr' = ScsiZdr
        BY <1>15, <3>2 DEF ScsiCharacteristics, DriverFails, Goto
      <4>2. model' \in {"hm", "ha"}
        BY <3>1, <4>1 DEF ScsiFinalModel, ScsiModel
      <4>3. IF zdr' = {} THEN ScsiTells(dev, model')
              ELSE model' = "hm" /\ ScsiTells(dev, "zd")
        BY <3>1, <4>1 DEF ScsiFinalModel, ScsiModel, ScsiZdr, ScsiTells
      <4>4. dev' = dev /\ Driver' = "scsi"
        BY <1>15 DEF ScsiCharacteristics, Stays, Driver
      <4> QED
        BY <3>2, <4>2, <4>3, <4>4 DEF Findings, DriverTells
    <3>3. CASE pc' = "tried" /\ ret' = ENXIO
      BY <3>3, Codes DEF Findings
    <3>4. pc' \in {"types", "capacity"} \/ (pc' = "tried" /\ ret' = ENXIO)
      BY <1>15 DEF ScsiCharacteristics, DriverFails, Goto
    <3> QED BY <3>2, <3>3, <3>4
  <2>5. AttentionsPass'
    BY <1>0, <1>15
    DEF ScsiCharacteristics, AttentionsPass, FewAttentions, Inside, Stays
  <2>6. Search'
    <3>1. SUFFICES ASSUME Undisturbed', ZonedDevice'
                   PROVE  /\ pc' \in {"types", "capacity", "tried"} /\ drv' = 1
                          /\ pc' = "tried" => ret' = ENXIO /\ dev'.page89
      <4>1. pc' \in {"types", "capacity", "tried"}
        BY <1>15 DEF ScsiCharacteristics, DriverFails, Goto
      <4> QED BY <4>1 DEF Search
    <3>2. Undisturbed /\ ZonedDevice
      BY <1>15, <3>1
      DEF ScsiCharacteristics, Stays, Undisturbed, AllDrivers, FewAttentions,
          ZonedDevice
    <3>3. ScsiTells(dev, dev.truth)
      BY <1>0, <1>15, <3>2 DEF Search, ScsiCharacteristics
    <3>4. ScsiFinalModel /= "standard"
      BY <1>0, <1>15, <3>2, <3>3
      DEF Findings, ScsiCharacteristics, ScsiTells, ScsiModel, ScsiFinalModel,
          ZonedDevice, ZonedKinds
    <3>5. dev.domains \/ dev.page89
      BY <1>0, <3>2, ProfileFacts DEF Visible, ZonedDevice
    <3>6. dev' = dev /\ drv' = 1
      BY <1>15, <2>0 DEF ScsiCharacteristics, Stays
    <3>7. pc' = "tried" => ret' = ENXIO /\ ~dev.domains
      BY <1>15, <3>4 DEF ScsiCharacteristics, DriverFails, Goto
    <3>8. pc' \in {"types", "capacity", "tried"}
      BY <1>15 DEF ScsiCharacteristics, DriverFails, Goto
    <3> QED
      BY <3>5, <3>6, <3>7, <3>8
  <2>7. HandleIsDevice'
    BY <1>0, <1>15 DEF ScsiCharacteristics, HandleIsDevice, ZonedDevice, Stays
  <2> QED BY <2>1, <2>2, <2>3, <2>4, <2>5, <2>6, <2>7 DEF OpenInv
<1>16. CASE ZoneTypes
  <2>1. TypeOK'
    <3>1. fds' \in 0..FdLimit /\ arrays' \in 0..MaxLost
      BY <1>0, <1>16, OpenAssumption DEF ZoneTypes, TypeOK, Resources
    <3> QED
      BY <1>0, <1>16, <3>1 DEF ZoneTypes, Goto, TypeOK, Stays, devVars
  <2>2. Resources'
    BY <1>0, <1>16, OpenAssumption
    DEF ZoneTypes, Goto, TypeOK, Resources, Inside, HasFile, Stays
  <2>3. Driving'
    BY <1>0, <1>16
    DEF ZoneTypes, Goto, Driving, Inside, Allowed, Driver, Stays
  <2>4. Findings'
    BY <1>0, <1>16
    DEF ZoneTypes, Goto, Findings, DriverTells, Driver, Stays, devVars
  <2>5. AttentionsPass'
    BY <1>0, <1>16 DEF ZoneTypes, AttentionsPass, FewAttentions, Inside, Stays
  <2>6. Search'
    BY <1>0, <1>16 DEF ZoneTypes, Goto, Search, Driving, Stays
  <2>7. HandleIsDevice'
    BY <1>0, <1>16 DEF ZoneTypes, HandleIsDevice, ZonedDevice, Stays
  <2> QED BY <2>1, <2>2, <2>3, <2>4, <2>5, <2>6, <2>7 DEF OpenInv
<1>17. CASE ZoneTypesFail
  <2>1. TypeOK'
    <3>1. fds' \in 0..FdLimit /\ arrays' \in 0..MaxLost
      BY <1>0, <1>17, OpenAssumption
      DEF ZoneTypesFail, DriverFails, TypeOK, Resources, Inside, HasFile
    <3> QED
      BY <1>0, <1>17, <3>1
      DEF ZoneTypesFail, Goto, DriverFails, TypeOK, Stays, devVars
  <2>2. Resources'
    BY <1>0, <1>17, DriverFacts, Codes
    DEF ZoneTypesFail, Goto, DriverFails, Driver, TypeOK, Resources, Inside,
        HasFile, Driving, Stays
  <2>3. Driving'
    BY <1>0, <1>17, Codes
    DEF ZoneTypesFail, Goto, DriverFails, Driver, Driving, Inside, Allowed, Stays
  <2>4. Findings'
    BY <1>0, <1>17
    DEF ZoneTypesFail, Goto, DriverFails, Driver, Findings, DriverTells, Stays,
        devVars
  <2>5. AttentionsPass'
    BY <1>17 DEF ZoneTypesFail, AttentionsPass
  <2>6. Search'
    BY <1>17 DEF ZoneTypesFail, Search, Undisturbed
  <2>7. HandleIsDevice'
    BY <1>0, <1>17 DEF ZoneTypesFail, HandleIsDevice, ZonedDevice, Stays
  <2> QED BY <2>1, <2>2, <2>3, <2>4, <2>5, <2>6, <2>7 DEF OpenInv
<1>18. CASE AtaCharacteristics
  <2>0. dev.azd \in SUBSET {"domains", "realms"} /\ drv = 2
    BY <1>0, <1>18, ProfileFacts, DriverFacts
    DEF Profile, AtaCharacteristics, Driving, Inside, Driver
  <2>1. TypeOK'
    <3>1. fds' \in 0..FdLimit /\ arrays' \in 0..MaxLost
      BY <1>0, <1>18, OpenAssumption
      DEF AtaCharacteristics, DriverFails, TypeOK, Resources, Inside, HasFile
    <3>3. ret' \in {0, 1, EIO, ENXIO, ENOMEM, EACCES, ENODEV, EMFILE}
          /\ drv' \in 1..(Len(Drivers) + 1)
      BY <1>0, <1>18 DEF AtaCharacteristics, DriverFails, TypeOK, Stays
    <3> QED
      BY <1>0, <1>18, <3>1, <3>3, <2>0
      DEF AtaCharacteristics, Goto, DriverFails, TypeOK, Stays
  <2>2. Resources'
    BY <1>0, <1>18, Codes
    DEF AtaCharacteristics, Goto, DriverFails, TypeOK, Resources, Inside, HasFile,
        Stays
  <2>3. Driving'
    BY <1>0, <1>18, Codes
    DEF AtaCharacteristics, Goto, DriverFails, Driver, Driving, Inside, Allowed,
        Stays
  <2>4. Findings'
    <3>1. /\ model = AtaModel /\ dev.ata /\ zdr = {}
          /\ dev.sig = "hm" \/ (dev.sig = "std" /\ dev.azoned \in {0, 1})
      BY <1>0, <1>18 DEF AtaCharacteristics, Findings
    <3>2. CASE pc' = "capacity"
      <4>1. \/ dev.azd /= {} /\ model = "standard" /\ model' = "hm" /\ zdr' = dev.azd
            \/ dev.azd = {} /\ model /= "standard" /\ model' = model /\ zdr' = {}
        BY <1>18, <3>1, <3>2 DEF AtaCharacteristics, DriverFails, Goto
      <4>2. model' \in {"hm", "ha"}
        BY <3>1, <4>1 DEF AtaModel
      <4>3. IF zdr' = {} THEN AtaTells(dev, model')
              ELSE model' = "hm" /\ AtaTells(dev, "zd")
        BY <3>1, <4>1 DEF AtaModel, AtaTells
      <4>4. dev' = dev /\ Driver' = "ata"
        BY <1>18 DEF AtaCharacteristics, Stays, Driver
      <4> QED
        BY <3>2, <4>2, <4>3, <4>4 DEF Findings, DriverTells
    <3>3. CASE pc' = "tried" /\ ret' = ENXIO
      BY <3>3, Codes DEF Findings
    <3>4. pc' = "capacity" \/ (pc' = "tried" /\ ret' = ENXIO)
      BY <1>18 DEF AtaCharacteristics, DriverFails, Goto
    <3> QED BY <3>2, <3>3, <3>4
  <2>5. AttentionsPass'
    BY <1>0, <1>18
    DEF AtaCharacteristics, AttentionsPass, FewAttentions, Inside, Stays
  <2>6. Search'
    <3>1. SUFFICES ASSUME Undisturbed', ZonedDevice'
                   PROVE  pc' = "capacity" /\ drv' = 2 /\ dev'.page89
      <4>1. pc' \in {"capacity", "tried"}
        BY <1>18 DEF AtaCharacteristics, DriverFails, Goto
      <4> QED BY <4>1 DEF Search
    <3>2. Undisturbed /\ ZonedDevice
      BY <1>18, <3>1
      DEF AtaCharacteristics, Stays, Undisturbed, AllDrivers, FewAttentions,
          ZonedDevice
    <3>3. dev.page89
      BY <1>0, <1>18, <2>0, <3>2 DEF Search, Inside, AtaCharacteristics
    <3>4. AtaTells(dev, dev.truth)
      BY <1>0, <3>2, <3>3, ProfileFacts DEF Visible, ZonedDevice
    <3>5. model = AtaModel
      BY <1>0, <1>18 DEF Findings, AtaCharacteristics
    <3>6. dev.azd /= {} <=> model = "standard"
      <4>1. CASE dev.truth = "zd"
        BY <3>4, <3>5, <4>1 DEF AtaTells, AtaModel
      <4>2. CASE dev.truth = "hm"
        BY <3>4, <3>5, <4>2 DEF AtaTells, AtaModel
      <4>3. CASE dev.truth = "ha"
        BY <3>4, <3>5, <4>3 DEF AtaTells, AtaModel
      <4> QED BY <3>2, <4>1, <4>2, <4>3 DEF ZonedDevice, ZonedKinds
    <3> QED
      BY <1>18, <2>0, <3>3, <3>6 DEF AtaCharacteristics, Stays, Goto
  <2>7. HandleIsDevice'
    BY <1>0, <1>18 DEF AtaCharacteristics, HandleIsDevice, ZonedDevice, Stays
  <2> QED BY <2>1, <2>2, <2>3, <2>4, <2>5, <2>6, <2>7 DEF OpenInv
<1>19. CASE Capacity
  <2>1. TypeOK'
    BY <1>0, <1>19 DEF Capacity, Goto, TypeOK, Stays
  <2>2. Resources'
    BY <1>0, <1>19 DEF Capacity, Goto, Resources, Inside, HasFile, Stays
  <2>3. Driving'
    BY <1>0, <1>19, Codes
    DEF Capacity, Goto, Driving, Inside, Allowed, Driver, Stays
  <2>4. Findings'
    BY <1>0, <1>19 DEF Capacity, Goto, Findings, DriverTells, Driver, Stays
  <2>5. AttentionsPass'
    BY <1>0, <1>19 DEF Capacity, AttentionsPass, FewAttentions, Inside, Stays
  <2>6. Search'
    BY <1>19 DEF Capacity, Goto, Search, Inside
  <2>7. HandleIsDevice'
    BY <1>0, <1>19 DEF Capacity, HandleIsDevice, ZonedDevice, Stays
  <2> QED BY <2>1, <2>2, <2>3, <2>4, <2>5, <2>6, <2>7 DEF OpenInv
<1>20. CASE NextDriver
  <2>1. TypeOK'
    <3>3. ret' \in {0, 1, EIO, ENXIO, ENOMEM, EACCES, ENODEV, EMFILE}
          /\ drv' \in 1..(Len(Drivers) + 1)
      BY <1>0, <1>20 DEF NextDriver, Driving
    <3> QED
      BY <1>0, <1>20, <3>3 DEF NextDriver, Goto, TypeOK, devVars
  <2>2. Resources'
    BY <1>0, <1>20, Codes DEF NextDriver, Goto, Resources, Inside, HasFile
  <2>3. Driving'
    BY <1>20 DEF NextDriver, Goto, Driving, Inside
  <2>4. Findings'
    BY <1>20 DEF NextDriver, Goto, Findings
  <2>5. AttentionsPass'
    BY <1>0, <1>20, DriverFacts
    DEF NextDriver, Goto, AttentionsPass, FewAttentions, Inside, Driving
  <2>6. Search'
    BY <1>0, <1>20, Codes
    DEF NextDriver, Goto, Search, Undisturbed, FewAttentions, AllDrivers,
        ZonedDevice
  <2>7. HandleIsDevice'
    BY <1>0, <1>20 DEF NextDriver, HandleIsDevice, ZonedDevice
  <2> QED BY <2>1, <2>2, <2>3, <2>4, <2>5, <2>6, <2>7 DEF OpenInv
<1>21. CASE NoDriver
  <2>1. TypeOK'
    BY <1>0, <1>21 DEF NoDriver, Goto, TypeOK, Stays, devVars
  <2>2. Resources'
    BY <1>0, <1>21 DEF NoDriver, Goto, Resources, Inside, HasFile, Stays
  <2>3. Driving'
    BY <1>21 DEF NoDriver, Goto, Driving, Inside
  <2>4. Findings'
    BY <1>21 DEF NoDriver, Goto, Findings
  <2>5. AttentionsPass'
    BY <1>21 DEF NoDriver, Goto, AttentionsPass, Inside
  <2>6. Search'
    BY <1>0, <1>21, DriverFacts, Codes
    DEF NoDriver, Goto, TypeOK, Search, Undisturbed, FewAttentions, AllDrivers,
        ZonedDevice, Succeeded, Driving, Stays
  <2>7. HandleIsDevice'
    BY <1>0, <1>21 DEF NoDriver, HandleIsDevice, ZonedDevice, Stays
  <2> QED BY <2>1, <2>2, <2>3, <2>4, <2>5, <2>6, <2>7 DEF OpenInv
<1>22. CASE Accepted
  <2>0. /\ drv \in 1..2 /\ ZonedDevice
        /\ zdr /= {} <=> dev.truth = "zd"
        /\ model = "ha" <=> dev.truth = "ha"
    BY <1>22, Recognised DEF Accepted
  <2>1. TypeOK'
    <3>1. held' \in Seq(Handle)
      <4>1. CASE call.fn = "open"
        <5>1. call.allow \in SUBSET DriverSet /\ call.test \in BOOLEAN
          BY <1>0, OpenAssumption DEF TypeOK, Calls
        <5>2. Driver \in DriverSet
          BY <2>0, DriverFacts DEF DriverSet, Driver
        <5>3. model \in {"hm", "ha"} /\ sbc \in BOOLEAN
              /\ zdr \in SUBSET {"domains", "realms"}
          BY <1>0, <1>22 DEF Findings, Accepted, TypeOK
        <5>4. [drv |-> Driver, model |-> model, sbc |-> sbc, zdr |-> zdr,
               allow |-> call.allow, test |-> call.test] \in Handle
          BY <5>1, <5>2, <5>3 DEF Handle
        <5> QED
          BY <1>0, <1>22, <4>1, <5>4 DEF Accepted, TypeOK
      <4> QED
        BY <1>0, <1>22, <4>1 DEF Accepted, TypeOK
    <3>2. fds' \in 0..FdLimit
      BY <1>0, <1>22, OpenAssumption DEF Accepted, TypeOK, Resources, HasFile
    <3> QED
      BY <1>0, <1>22, <3>1, <3>2 DEF Accepted, Goto, TypeOK, devVars
  <2>2. Resources'
    BY <1>0, <1>22 DEF Accepted, Goto, TypeOK, Resources, Inside, HasFile
  <2>3. Driving'
    BY <1>0, <1>22 DEF Accepted, Goto, Driving, Allowed, Driver
  <2>4. Findings'
    BY <1>22 DEF Accepted, Goto, Findings
  <2>5. AttentionsPass'
    BY <1>0, <1>22 DEF Accepted, AttentionsPass, FewAttentions
  <2>6. Search'
    <3>1. Succeeded' /\ ZonedDevice' /\ pc' = "return"
      BY <1>22, <2>0 DEF Accepted, Succeeded, ZonedDevice, Goto
    <3> QED
      BY <3>1 DEF Search, Inside
  <2>7. HandleIsDevice'
    <3>1. CASE call.fn = "open"
      <4> DEFINE h == [drv |-> Driver, model |-> model, sbc |-> sbc, zdr |-> zdr,
                       allow |-> call.allow, test |-> call.test]
      <4>1. held \in Seq(Handle) /\ held' = Append(held, h) /\ dev' = dev
        BY <1>0, <1>22, <3>1 DEF TypeOK, Accepted
      <4>2. h.allow = {} \/ h.drv \in h.allow
        BY <1>0, <1>22 DEF Driving, Accepted, Allowed
      <4>3. h.model = model /\ h.zdr = zdr
        OBVIOUS
      <4> HIDE DEF h
      <4>4. ASSUME NEW k \in 1..Len(held')
            PROVE  /\ held'[k].allow = {} \/ held'[k].drv \in held'[k].allow
                   /\ dev.truth \in ZonedKinds
                   /\ held'[k].model = "ha" <=> dev.truth = "ha"
                   /\ held'[k].zdr /= {} <=> dev.truth = "zd"
        <5>1. CASE k = Len(held) + 1
          <6>1. held'[k] = h
            BY <4>1, <5>1
          <6> QED
            BY <6>1, <4>2, <4>3, <2>0, Zenon DEF ZonedDevice
        <5>2. CASE k \in 1..Len(held)
          <6>1. held'[k] = held[k]
            BY <4>1, <5>2
          <6> QED
            BY <6>1, <5>2, <1>0, Zenon DEF HandleIsDevice, ZonedDevice
        <5>3. k = Len(held) + 1 \/ k \in 1..Len(held)
          BY <4>1
        <5> QED BY <5>1, <5>2, <5>3
      <4> QED BY <4>1, <4>4, Zenon DEF HandleIsDevice, ZonedDevice
    <3>2. CASE call.fn /= "open"
      BY <1>0, <1>22, <3>2 DEF Accepted, HandleIsDevice, ZonedDevice
    <3> QED BY <3>1, <3>2
  <2> QED BY <2>1, <2>2, <2>3, <2>4, <2>5, <2>6, <2>7 DEF OpenInv
<1>23. CASE DomainInfoFails
  <2>1. TypeOK'
    BY <1>0, <1>23 DEF DomainInfoFails, Goto, TypeOK, Stays, devVars
  <2>2. Resources'
    BY <1>0, <1>23
    DEF DomainInfoFails, Goto, TypeOK, Resources, Inside, HasFile, Stays
  <2>3. Driving'
    BY <1>0, <1>23 DEF DomainInfoFails, Goto, Driving, Allowed, Driver, Stays
  <2>4. Findings'
    BY <1>23 DEF DomainInfoFails, Goto, Findings
  <2>5. AttentionsPass'
    BY <1>23 DEF DomainInfoFails, AttentionsPass
  <2>6. Search'
    BY <1>23 DEF DomainInfoFails, Search, Undisturbed
  <2>7. HandleIsDevice'
    BY <1>0, <1>23 DEF DomainInfoFails, HandleIsDevice, ZonedDevice, Stays
  <2> QED BY <2>1, <2>2, <2>3, <2>4, <2>5, <2>6, <2>7 DEF OpenInv
<1>24. CASE Return
  <2>1. TypeOK'
    <3>2. retries' \in 0..5 /\ (\E a \in Attentions \cup {0} : attention' \in 0..a)
      <4>1. retries' = 5 /\ attention' = 0
        BY <1>24 DEF Return
      <4> QED BY <4>1
    <3>3. ret' \in {0, 1, EIO, ENXIO, ENOMEM, EACCES, ENODEV, EMFILE}
          /\ drv' \in 1..(Len(Drivers) + 1)
      BY <1>24 DEF Return
    <3> QED
      BY <1>0, <1>24, <3>2, <3>3 DEF Return, Goto, TypeOK
  <2>2. Resources'
    BY <1>0, <1>24 DEF Return, Goto, Resources, Inside, HasFile
  <2>3. Driving'
    BY <1>24 DEF Return, Goto, Driving, Inside
  <2>4. Findings'
    BY <1>24 DEF Return, Goto, Findings
  <2>5. AttentionsPass'
    BY <1>24 DEF Return, AttentionsPass, FewAttentions
  <2>6. Search'
    BY <1>24 DEF Return, Goto, Search
  <2>7. HandleIsDevice'
    BY <1>0, <1>24 DEF Return, HandleIsDevice, ZonedDevice
  <2> QED BY <2>1, <2>2, <2>3, <2>4, <2>5, <2>6, <2>7 DEF OpenInv
<1>25. CASE Close
  <2>1. TypeOK'
    <3>2. fds' \in 0..FdLimit
      BY <1>0, <1>25, OpenAssumption DEF Close, TypeOK, Resources
    <3> QED
      BY <1>0, <1>25, <3>2 DEF Close, TypeOK, devVars
  <2>2. Resources'
    BY <1>0, <1>25 DEF Close, TypeOK, Resources, Inside, HasFile
  <2>3. Driving'
    BY <1>25 DEF Close, Driving, Inside
  <2>4. Findings'
    BY <1>25 DEF Close, Findings
  <2>5. AttentionsPass'
    BY <1>25 DEF Close, AttentionsPass, Inside
  <2>6. Search'
    BY <1>25 DEF Close, Search, Inside
  <2>7. HandleIsDevice'
    BY <1>0, <1>25 DEF Close, HandleIsDevice, ZonedDevice
  <2> QED BY <2>1, <2>2, <2>3, <2>4, <2>5, <2>6, <2>7 DEF OpenInv
<1>26. ASSUME NEW c \in Calls, Call(c) PROVE OpenInv'
  <2>1. TypeOK'
    <3>1. \E a \in Attentions \cup {0} : attention' \in 0..a
      <4>1. PICK a \in Attentions : attention' = a
        BY <1>26 DEF Call
      <4>2. a \in Nat
        BY OpenAssumption
      <4> QED BY <4>1, <4>2
    <3>2. drv' \in 1..(Len(Drivers) + 1)
      BY <1>26 DEF Call
    <3> QED
      BY <1>0, <1>26, <3>1, <3>2 DEF Call, Goto, TypeOK
  <2>2. Resources'
    BY <1>0, <1>26 DEF Call, Goto, Resources, Inside, HasFile
  <2>3. Driving'
    BY <1>26 DEF Call, Goto, Driving, Inside
  <2>4. Findings'
    BY <1>26 DEF Call, Goto, Findings
  <2>5. AttentionsPass'
    BY <1>26 DEF Call, AttentionsPass, FewAttentions
  <2>6. Search'
    BY <1>26 DEF Call, Goto, Search
  <2>7. HandleIsDevice'
    BY <1>0, <1>26 DEF Call, HandleIsDevice, ZonedDevice
  <2> QED BY <2>1, <2>2, <2>3, <2>4, <2>5, <2>6, <2>7 DEF OpenInv
<1>27. CASE UNCHANGED vars
  <2>1. TypeOK'
    BY <1>0, <1>27 DEF vars, TypeOK, devVars
  <2>2. Resources'
    BY <1>0, <1>27 DEF vars, Resources, Inside, HasFile
  <2>3. Driving'
    BY <1>0, <1>27 DEF vars, Driving, Inside, Allowed, Driver
  <2>4. Findings'
    BY <1>0, <1>27
    DEF vars, Findings, DriverTells, Driver, ScsiModel, AtaModel, devVars
  <2>5. AttentionsPass'
    BY <1>0, <1>27 DEF vars, AttentionsPass, FewAttentions, Inside
  <2>6. Search'
    BY <1>0, <1>27
    DEF vars, Search, Undisturbed, FewAttentions, AllDrivers, ZonedDevice,
        Succeeded, Inside, Driver, devVars
  <2>7. HandleIsDevice'
    BY <1>0, <1>27 DEF vars, HandleIsDevice, ZonedDevice
  <2> QED BY <2>1, <2>2, <2>3, <2>4, <2>5, <2>6, <2>7 DEF OpenInv
<1> QED
  BY <1>1, <1>2, <1>3, <1>4, <1>5, <1>6, <1>7, <1>8, <1>9, <1>10, <1>11, <1>12,
     <1>13, <1>14, <1>15, <1>16, <1>17, <1>18, <1>19, <1>20, <1>21, <1>22,
     <1>23, <1>24, <1>25, <1>26, <1>27
  DEF Next, CallStep

\* The process starts without a handle.
LEMMA OpenInitInv ==
  ASSUME Init
  PROVE  OpenInv
<1>1. TypeOK
  <2>1. \E a \in Attentions \cup {0} : attention \in 0..a
    <3>1. attention \in 0..0 /\ 0 \in Attentions \cup {0}
      BY DEF Init
    <3> QED BY <3>1
  <2>2. drv \in 1..(Len(Drivers) + 1)
    BY DEF Init
  <2>3. fds \in 0..FdLimit /\ arrays \in 0..MaxLost /\ held \in Seq(Handle)
    BY OpenAssumption DEF Init
  <2>4. /\ dev \in Profiles /\ pc = "idle" /\ call \in Calls /\ retries \in 0..5
        /\ model = "unknown" /\ zdr \in SUBSET {"domains", "realms"} /\ ret = 0
    BY DEF Init
  <2>5. /\ isata \in BOOLEAN /\ sbc \in BOOLEAN /\ fault \in BOOLEAN
        /\ domFault \in BOOLEAN /\ noticed \in BOOLEAN
    BY Zenon DEF Init
  <2> QED
    BY <2>1, <2>2, <2>3, <2>4, <2>5 DEF TypeOK
<1>2. Resources /\ Driving
  BY DEF Init, Resources, Driving, Inside, HasFile
<1>3. Findings /\ AttentionsPass /\ Search /\ HandleIsDevice
  BY DEF Init, Findings, AttentionsPass, Search, HandleIsDevice, Inside
<1> QED
  BY <1>1, <1>2, <1>3 DEF OpenInv

\* What holds at the start and is kept by every step holds always.
LEMMA OpenInvariance == Spec => []OpenInv
<1>1. Init => OpenInv
  BY OpenInitInv
<1>2. OpenInv /\ [Next]_vars => OpenInv'
  BY OpenStep
<1> QED
  BY <1>1, <1>2, PTL DEF Spec

\* What zbc_open, zbc_device_is_zoned and zbc_close hold and know of the
\* device stays of its type, whatever fails.
THEOREM OpenTypeCorrect == Spec => []TypeOK
<1>1. OpenInv => TypeOK
  BY DEF OpenInv
<1> QED
  BY <1>1, OpenInvariance, PTL

\* zbc_open and zbc_device_is_zoned, with either driver, and zbc_close leave one
\* open file for each handle and no array, whatever failed on the way, unless
\* a domain report did.
THEOREM NoLeakHolds == Spec => []NoLeak
<1>1. OpenInv => NoLeak
  BY DEF OpenInv, Resources, HasFile, Inside, NoLeak
<1> QED
  BY <1>1, OpenInvariance, PTL

\* In a call that nothing disturbs, zbc_open and zbc_device_is_zoned take a
\* device for zoned exactly if it is.
THEOREM DetectsZonedHolds == Spec => []DetectsZoned
<1>1. OpenInv => DetectsZoned
  BY DEF OpenInv, Search, Undisturbed, CleanCall, DetectsZoned
<1> QED
  BY <1>1, OpenInvariance, PTL

\* Every handle that zbc_open gave out is of the kind that the device is, by a
\* driver that the caller allowed.
THEOREM HandleIsDeviceHolds == Spec => []HandleIsDevice
<1>1. OpenInv => HandleIsDevice
  BY DEF OpenInv
<1> QED
  BY <1>1, OpenInvariance, PTL
=============================================================================
