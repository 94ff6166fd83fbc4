---------------------------- MODULE ZbcDevControl ----------------------------
(***************************************************************************)
(* Zone domain device control: zbc_zone_activation_ctl with both drivers,  *)
(* and the program zbc_dev_control.  The settings live on the device; each *)
(* program that changes them does so with several commands.  The SCSI      *)
(* driver reads a mode page, changes it and writes the whole page back,    *)
(* the ATA driver sends a SET FEATURES command for each setting.           *)
(***************************************************************************)
EXTENDS ZbcErrorCodes, Sequences, FiniteSets

CONSTANTS
  Progs,      \* the programs that use the device
  CtlProg,    \* the one that is zbc_dev_control
  Ones,       \* for each setting the value of all ones: "leave it alone"
  Devices,    \* drivers and features
  Settings,   \* initial settings of the device
  Asks        \* what the user asks of zbc_dev_control

Fields == {"fsnoz", "urswrz", "maxact"}
NoAsk  == -1

ASSUME ControlAssumption ==
  /\ CtlProg \in Progs
  /\ Ones \in [Fields -> Nat]
  /\ Settings \subseteq [Fields -> Nat]
  /\ Asks \subseteq [Fields -> Nat \cup {NoAsk}]
  /\ \A d \in Devices : d.drv \in {"scsi", "ata"} /\ d.zdr \in BOOLEAN

VARIABLES
  dev,    \* the device: driver, features, length of its mode page
  ctl,    \* on the device: the settings
  cc,     \* the control call of each program
  tool,   \* the program zbc_dev_control
  others, \* history: settings that others changed since a program last looked
  wrote   \* history: settings that a program's call has brought to the device

ctlvars == <<dev, ctl, cc, tool, others, wrote>>

\* The feature that each SET FEATURES of the ATA driver needs.
Feature == [fsnoz |-> "za_control", urswrz |-> "urswrz_set", maxact |-> "maxact_set"]

\* The features of the device that the library records when it opens it: the
\* SCSI driver sets none of these flags.
Flags == IF dev.drv = "scsi" THEN {} ELSE dev.features

\* The order in which zbc_ata_dev_control looks at the settings.
Order == <<"fsnoz", "urswrz", "maxact">>

Nothing == [f \in Fields |-> 0]
Idle == [st |-> "none", set |-> FALSE, want |-> Ones, page |-> Nothing, k |-> 1, ret |-> 0]

(***************************************************************************)
(* A control call of program p: get, or set what differs from all ones.    *)
(***************************************************************************)
CtlCall(p, want, set) ==
  /\ cc' = [cc EXCEPT ![p] =
       [st   |-> IF ~dev.zdr THEN "returned"
                 ELSE IF set /\ dev.drv = "ata" THEN "feature" ELSE "read",
        set  |-> set, want |-> want, page |-> Nothing, k |-> 1,
        ret  |-> IF dev.zdr THEN 0 ELSE ENOTSUP]]
  /\ wrote' = [wrote EXCEPT ![p] = IF set THEN {} ELSE @]

CtlReturned(p) == cc[p].st = "returned"
CtlReturn(p, value) == cc' = [cc EXCEPT ![p].st = "returned", ![p].ret = value]

Wanted(p) == {f \in Fields : cc[p].want[f] /= Ones[f]}

\* Settings that the others find changed when program p makes them new.
Changed(p, new) ==
  others' = [q \in Progs |-> IF q = p THEN {}
                             ELSE others[q] \cup {f \in Fields : new[f] /= ctl[f]}]

\* MODE SENSE, or for the ATA driver READ LOG.  A page that ends before MAX
\* ACTIVATION is accepted; the bytes beyond it are whatever was on the stack.
PageReads ==
  IF dev.drv = "scsi" /\ dev.page = "min"
  THEN {[ctl EXCEPT !["maxact"] = v] : v \in {0, Ones["maxact"]}} ELSE {ctl}

ReadPage(p) ==
  /\ cc[p].st = "read"
  /\ dev.drv = "scsi" => dev.page /= "short"
  /\ \E page \in PageReads :
       cc' = [cc EXCEPT
                ![p].st = IF cc[p].set /\ Wanted(p) /= {} THEN "select" ELSE "returned",
                ![p].page = page]
  /\ others' = [others EXCEPT ![p] = {}]
  /\ UNCHANGED <<dev, ctl, tool, wrote>>

\* The command fails, or the page is too short.
ReadFails(p) ==
  /\ cc[p].st = "read"
  /\ CtlReturn(p, EIO)
  /\ UNCHANGED <<dev, ctl, tool, others, wrote>>

\* Mutant of NewPage: the settings not asked for are sent as all ones.
NewPageOnes(p) ==
  [f \in Fields |-> IF f = "maxact" /\ dev.page = "min" THEN ctl[f] ELSE cc[p].want[f]]

\* The page that MODE SELECT leaves on the device.
NewPage(p) ==
  [f \in Fields |->
     IF f = "maxact" /\ dev.page = "min" THEN ctl[f]
     ELSE IF f \in Wanted(p) THEN cc[p].want[f] ELSE cc[p].page[f]]

SelectPage(p) ==
  /\ cc[p].st = "select"
  /\ ctl' = NewPage(p)
  /\ Changed(p, NewPage(p))
  /\ wrote' = [wrote EXCEPT ![p] = {f \in Wanted(p) : f = "maxact" => dev.page /= "min"}]
  /\ CtlReturn(p, 0)
  /\ UNCHANGED <<dev, tool>>

SelectFails(p) ==
  /\ cc[p].st = "select"
  /\ CtlReturn(p, EIO)
  /\ UNCHANGED <<dev, ctl, tool, others, wrote>>

(***************************************************************************)
(* zbc_ata_dev_control with set: one command after another.                *)
(***************************************************************************)
Due(p) == cc[p].k <= Len(Order) /\ cc[p].want[Order[cc[p].k]] /= Ones[Order[cc[p].k]]

FeatureSkip(p) ==
  /\ cc[p].st = "feature" /\ ~Due(p)
  /\ IF cc[p].k > Len(Order) THEN CtlReturn(p, 0)
     ELSE cc' = [cc EXCEPT ![p].k = @ + 1]
  /\ UNCHANGED <<dev, ctl, tool, others, wrote>>

FeatureUnsupported(p) ==
  /\ cc[p].st = "feature" /\ Due(p)
  /\ Feature[Order[cc[p].k]] \notin Flags
  /\ CtlReturn(p, ENOTSUP)
  /\ UNCHANGED <<dev, ctl, tool, others, wrote>>

\* Mutant of FeatureSet: the call returns after its first command.
FeatureSetOnce(p) ==
  LET f == Order[cc[p].k] IN
  /\ cc[p].st = "feature" /\ Due(p)
  /\ Feature[f] \in Flags
  /\ ctl' = [ctl EXCEPT ![f] = cc[p].want[f]]
  /\ Changed(p, ctl')
  /\ wrote' = [wrote EXCEPT ![p] = @ \cup {f}]
  /\ CtlReturn(p, 0)
  /\ UNCHANGED <<dev, tool>>

FeatureSet(p) ==
  LET f == Order[cc[p].k] IN
  /\ cc[p].st = "feature" /\ Due(p)
  /\ Feature[f] \in Flags
  /\ ctl' = [ctl EXCEPT ![f] = cc[p].want[f]]
  /\ Changed(p, ctl')
  /\ wrote' = [wrote EXCEPT ![p] = @ \cup {f}]
  /\ cc' = [cc EXCEPT ![p].k = @ + 1]
  /\ UNCHANGED <<dev, tool>>

FeatureFails(p) ==
  /\ cc[p].st = "feature" /\ Due(p)
  /\ Feature[Order[cc[p].k]] \in Flags
  /\ CtlReturn(p, EIO)
  /\ UNCHANGED <<dev, ctl, tool, others, wrote>>

CtlStep(p) ==
  \/ ReadPage(p) \/ ReadFails(p) \/ SelectPage(p) \/ SelectFails(p)
  \/ FeatureSkip(p) \/ FeatureUnsupported(p) \/ FeatureSet(p) \/ FeatureFails(p)

(***************************************************************************)
(* The program zbc_dev_control: get, set what was asked for, read back.    *)
(***************************************************************************)
\* What the user asked for as the program puts it into struct
\* zbc_zd_dev_control: cut to the width of the field.
Want(ask) ==
  [f \in Fields |-> IF ask[f] = NoAsk THEN Ones[f] ELSE ask[f] % (Ones[f] + 1)]

AsksNothing(ask) == \A f \in Fields : ask[f] = NoAsk

ToolExit(status) == tool' = [tool EXCEPT !.pc = "exit", !.exit = status]

ToolStart ==
  /\ tool.pc = "start"
  /\ dev.zdr
  /\ tool' = [tool EXCEPT !.pc = "get"]
  /\ CtlCall(CtlProg, Ones, FALSE)
  /\ UNCHANGED <<dev, ctl, others>>

ToolNotZdr ==
  /\ tool.pc = "start"
  /\ ~dev.zdr
  /\ ToolExit(IF AsksNothing(tool.ask) THEN 0 ELSE 1)
  /\ UNCHANGED <<dev, ctl, cc, others, wrote>>

ToolSet ==
  /\ tool.pc = "get" /\ CtlReturned(CtlProg)
  /\ cc[CtlProg].ret = 0 /\ ~AsksNothing(tool.ask)
  /\ tool' = [tool EXCEPT !.pc = "set"]
  /\ CtlCall(CtlProg, Want(tool.ask), TRUE)
  /\ UNCHANGED <<dev, ctl, others>>

ToolReadBack ==
  /\ tool.pc = "set" /\ CtlReturned(CtlProg)
  /\ cc[CtlProg].ret = 0
  /\ tool' = [tool EXCEPT !.pc = "readback"]
  /\ CtlCall(CtlProg, Ones, FALSE)
  /\ UNCHANGED <<dev, ctl, others>>

ToolEnds ==
  /\ CtlReturned(CtlProg)
  /\ \/ tool.pc \in {"get", "set", "readback"} /\ cc[CtlProg].ret /= 0
     \/ tool.pc = "get" /\ AsksNothing(tool.ask)
     \/ tool.pc = "readback"
  /\ ToolExit(IF cc[CtlProg].ret = 0 THEN 0 ELSE 1)
  /\ UNCHANGED <<dev, ctl, cc, others, wrote>>

ToolStep == ToolStart \/ ToolNotZdr \/ ToolSet \/ ToolReadBack \/ ToolEnds

CtlInit ==
  /\ dev \in Devices
  /\ ctl \in Settings
  /\ cc = [p \in Progs |-> Idle]
  /\ \E ask \in Asks : tool = [pc |-> "start", ask |-> ask, exit |-> -1]
  /\ others = [p \in Progs |-> {}]
  /\ wrote = [p \in Progs |-> {}]

(***************************************************************************)
(* Properties.                                                             *)
(***************************************************************************)
\* A program's control call changes a setting that it was not asked to
\* change only with the SCSI driver, and only to undo a change that another
\* program made after the page was read (the write of the whole page in
\* zbc_scsi_dev_control).
ForeignSettingsKept ==
  [][\A p \in Progs : cc'[p] /= cc[p] =>
       \A f \in Fields : ctl'[f] /= ctl[f] =>
         \/ f \in Wanted(p)
         \/ dev.drv = "scsi" /\ f \in others[p]]_ctlvars

\* zbc_dev_control exits with 0 only if every setting that the user asked
\* for has been brought to the device.  Left aside: values that are all
\* ones once cut to the field's width, and mode pages without the setting.
ControlHonest ==
  tool.pc = "exit" /\ tool.exit = 0 =>
    \A f \in Fields :
      tool.ask[f] = NoAsk \/ Want(tool.ask)[f] = Ones[f] \/ f \in wrote[CtlProg]
        \/ (f = "maxact" /\ dev.page = "min")

(***************************************************************************)
(* What the proofs need.                                                   *)
(***************************************************************************)
CtlTypeOK ==
  /\ dev \in Devices
  /\ ctl \in [Fields -> Nat]
  /\ cc \in [Progs -> [st : {"none", "read", "select", "feature", "returned"},
                       set : BOOLEAN, want : [Fields -> Nat], page : [Fields -> Nat],
                       k : 1..4, ret : {0, EIO, ENOTSUP}]]
  /\ tool \in [pc : {"start", "get", "set", "readback", "exit"}, ask : Asks,
               exit : {-1, 0, 1}]
  /\ others \in [Progs -> SUBSET Fields]
  /\ wrote \in [Progs -> SUBSET Fields]

\* The page that a call is going to write back has the settings of the device
\* but for those that others have changed since it was read.
PageKept ==
  \A p \in Progs :
    /\ cc[p].st \in {"read", "select"} /\ cc[p].set => dev.drv = "scsi"
    /\ cc[p].st = "select" =>
         /\ cc[p].set
         /\ \A f \in Fields \ others[p] :
              cc[p].page[f] = ctl[f] \/ (f = "maxact" /\ dev.page = "min")
    /\ cc[p].st = "feature" => cc[p].set /\ dev.drv = "ata"

\* What a call that sets has brought to the device.
Brought(p, f) == f \in wrote[p] \/ (f = "maxact" /\ dev.page = "min")

CallsMade ==
  \A p \in Progs : cc[p].set =>
    /\ cc[p].st = "feature" =>
         \A j \in 1..(cc[p].k - 1) : Order[j] \in Wanted(p) => Brought(p, Order[j])
    /\ cc[p].st = "returned" /\ cc[p].ret = 0 => \A f \in Wanted(p) : Brought(p, f)

\* The call that each step of the program waits for.
ToolCalls ==
  /\ tool.pc \in {"start", "exit"} => cc[CtlProg].st \in {"none", "returned"}
  /\ tool.pc \in {"get", "readback"} => ~cc[CtlProg].set
  /\ tool.pc = "set" => cc[CtlProg].set /\ cc[CtlProg].want = Want(tool.ask)
  /\ tool.pc = "readback" =>
       \A f \in Fields : tool.ask[f] = NoAsk \/ Want(tool.ask)[f] = Ones[f]
                           \/ Brought(CtlProg, f)

CtlInv == CtlTypeOK /\ PageKept /\ CallsMade /\ ToolCalls /\ ControlHonest
=============================================================================
