----------------------------- MODULE ZbcZoneOps -----------------------------
(***************************************************************************)
(* Zone operations: zbc_zone_group_op and the drivers' zone_op.  A group   *)
(* of zones is one command if the device takes a zone count; else the      *)
(* library reports the first zone and steps through the group with one     *)
(* command per zone, a zone length at a time.  Other initiators operate on *)
(* zones between two commands.                                             *)
(*                                                                         *)
(* A call keeps nothing for the next one, so a behaviour is one call.      *)
(***************************************************************************)
EXTENDS ZbcZoneDevice, ZbcErrorCodes

CONSTANTS
  FromSectors,   \* sectors operations are asked for
  Counts,        \* zone counts asked for
  CountSupport,  \* values of zbc_zone_count_supported
  CountMod,      \* 2^16: the command's count field
  LBlock,        \* sectors of a logical block
  UnsetLengths,  \* what an unset zone.zbz_length may hold
  OtherOps,      \* zone operations of other initiators
  TestModes      \* whether the handle has ZBC_O_DEVTEST: values tried

\* Zone lengths come from the report's logical blocks: they are whole blocks.
ASSUME OpsAssumption ==
  /\ FromSectors \subseteq Nat
  /\ Counts \subseteq Nat
  /\ CountSupport \subseteq BOOLEAN
  /\ CountMod \in Nat \ {0}
  /\ LBlock \in Nat \ {0}
  /\ UnsetLengths \subseteq Nat
  /\ OtherOps \subseteq ZoneOps
  /\ TestModes \subseteq BOOLEAN
  /\ \A z \in Zones : Length[z] % LBlock = 0

VARIABLES
  cond,       \* the condition of each zone, on the device
  call,       \* the call: operation, sector, count, ZBC_OP_ALL_ZONES
  pc,         \* "call", "command" or "done"
  sector,     \* sector of the emulation's next command
  i,          \* the emulation's loop counter
  zoneLen,    \* zone.zbz_length: what the emulation steps by
  ret,        \* the value returned
  processed,  \* history: the zones the call's commands processed, in order
  disturbed   \* history: whether another initiator stepped in

vars == <<cond, call, pc, sector, i, zoneLen, ret, processed, disturbed>>

Garbage == {0, -1, 1}

Calls ==
  [op : ZoneOps, from : FromSectors, count : Counts, all : BOOLEAN,
   counted : CountSupport, test : TestModes]

(***************************************************************************)
(* The device's side of a zone command.                                    *)
(***************************************************************************)
\* The run of n zones from zone z on.
Run(z, n) == [k \in 1..n |-> z + k - 1]

Elems(s) == {s[k] : k \in 1..Len(s)}

\* The zones that a command with the ALL bit operates on.
AllTargets(op) ==
  {z \in Zones :
     CASE op = "open"   -> cond[z] = "closed"
       [] op = "close"  -> cond[z] \in Open
       [] op = "finish" -> cond[z] \in Open \cup {"closed"}
       [] op = "reset"  -> cond[z] \notin {"notwp", "empty"}}

\* Does the command for n zones at sector s name zones the device accepts?
Serves(s, n, z) ==
  /\ Start[z] = s
  /\ z + n - 1 <= NrZones
  /\ Accepts(cond, call.op, Elems(Run(z, n)))

(***************************************************************************)
(* The drivers' zone_op: the sector becomes a logical block address, the   *)
(* count the 16 bits of the command, where 0 stands for one zone.          *)
(***************************************************************************)
CmdSector(s) == (s \div LBlock) * LBlock

\* Mutant of CmdCount: the field counts the zones after the first one.
CmdCountAfterFirst(count) == (count % CountMod) + 1

CmdCount(count) ==
  IF count % CountMod = 0 THEN 1 ELSE count % CountMod

zone_op_ok(s, count) ==
  \E z \in Zones :
    /\ Serves(CmdSector(s), CmdCount(count), z)
    /\ cond' = Applied(cond, call.op, Elems(Run(z, CmdCount(count))))
    /\ processed' = processed \o Run(z, CmdCount(count))

Return(value) == pc' = "done" /\ ret' = value

(***************************************************************************)
(* zbc_zone_group_op.                                                      *)
(***************************************************************************)
Refused ==
  ~call.test /\ ~call.all /\ call.from % LBlock /= 0

RefuseUnaligned ==
  /\ pc = "call"
  /\ Refused
  /\ Return(EINVAL)
  /\ UNCHANGED <<cond, call, sector, i, zoneLen, processed, disturbed>>

Single == call.count <= 1 \/ call.all

\* All zones: the device finds those it can operate on.
OperateAll ==
  /\ pc = "call"
  /\ call.all
  /\ Accepts(cond, call.op, AllTargets(call.op))
  /\ cond' = Applied(cond, call.op, AllTargets(call.op))
  /\ Return(0)
  /\ UNCHANGED <<call, sector, i, zoneLen, processed, disturbed>>

\* One command, for one zone or with the count.
OperateDirect ==
  /\ pc = "call"
  /\ ~Refused /\ ~call.all
  /\ Single \/ call.counted
  /\ zone_op_ok(call.from, IF Single THEN 0 ELSE call.count)
  /\ Return(0)
  /\ UNCHANGED <<call, sector, i, zoneLen, disturbed>>

\* The device refuses or fails that command.
DirectFails ==
  /\ pc = "call"
  /\ ~Refused
  /\ Single \/ call.counted
  /\ Return(EIO)
  /\ UNCHANGED <<cond, call, sector, i, zoneLen, processed, disturbed>>

\* Mutants of Emulate: the loop starts with the next zone, or before the
\* first one.
EmulateFrom(start, length) ==
  /\ zoneLen' = length
  /\ sector' = start
  /\ i' = 0
  /\ pc' = "command"
  /\ UNCHANGED <<cond, call, ret, processed, disturbed>>

EmulateFromNext(length) == EmulateFrom(call.from + length, length)

\* zbc_report_zones(dev, sector, 0, &zone, &one): beyond the capacity it
\* succeeds without a zone; in test mode its result is then unset, too.
Emulate(length) ==
  /\ zoneLen' = length
  /\ sector' = call.from
  /\ i' = 0
  /\ pc' = "command"
  /\ UNCHANGED <<cond, call, ret, processed, disturbed>>

Emulated == ~Refused /\ ~Single /\ ~call.counted

EmulateKnown ==
  /\ pc = "call"
  /\ Emulated
  /\ \E z \in Zones :
       /\ Start[z] <= CmdSector(call.from) /\ CmdSector(call.from) < End(z)
       /\ Emulate(Length[z])

EmulateUnset ==
  /\ pc = "call"
  /\ Emulated
  /\ call.from >= Capacity
  /\ \E length \in UnsetLengths : Emulate(length)

ReportFails ==
  /\ pc = "call"
  /\ Emulated
  /\ \/ call.from < Capacity /\ Return(EIO)
     \/ /\ call.test /\ call.from >= Capacity
        /\ \E g \in Garbage \ {0} : Return(g)
  /\ UNCHANGED <<cond, call, sector, i, zoneLen, processed, disturbed>>

\* Mutant of EmulateStep: the loop ends one zone too early.
EmulateStepShort ==
  /\ pc = "command"
  /\ zone_op_ok(sector, 0)
  /\ sector' = sector + zoneLen
  /\ i' = i + 1
  /\ IF i + 2 < call.count THEN UNCHANGED <<pc, ret>> ELSE Return(0)
  /\ UNCHANGED <<call, zoneLen, disturbed>>

EmulateStep ==
  /\ pc = "command"
  /\ zone_op_ok(sector, 0)
  /\ sector' = sector + zoneLen
  /\ i' = i + 1
  /\ IF i + 1 < call.count THEN UNCHANGED <<pc, ret>> ELSE Return(0)
  /\ UNCHANGED <<call, zoneLen, disturbed>>

\* Mutants of EmulateFails: the error is lost, or the command is retried.
EmulateFailsIgnored ==
  /\ pc = "command"
  /\ Return(0)
  /\ UNCHANGED <<cond, call, sector, i, zoneLen, processed, disturbed>>

EmulateFails ==
  /\ pc = "command"
  /\ Return(EIO)
  /\ UNCHANGED <<cond, call, sector, i, zoneLen, processed, disturbed>>

\* Another initiator operates on a zone between two commands.
Interfere(z, op) ==
  /\ pc /= "done"
  /\ Accepts(cond, op, {z})
  /\ After(op, cond[z]) /= cond[z]
  /\ cond' = Applied(cond, op, {z})
  /\ disturbed' = TRUE
  /\ UNCHANGED <<call, pc, sector, i, zoneLen, ret, processed>>

Init ==
  /\ cond \in [Zones -> {"notwp", "empty", "full", "closed"}]
  /\ \A z \in Zones : cond[z] = "notwp" <=> z = 1
  /\ call \in Calls
  /\ pc = "call"
  /\ sector = 0 /\ i = 0 /\ zoneLen = 0 /\ ret = 0
  /\ processed = <<>>
  /\ disturbed = FALSE

CallStep ==
  \/ RefuseUnaligned \/ OperateAll \/ OperateDirect \/ DirectFails
  \/ EmulateKnown \/ EmulateUnset \/ ReportFails
  \/ EmulateStep \/ EmulateFails

Next == CallStep \/ \E z \in Zones, op \in OtherOps : Interfere(z, op)

Spec == Init /\ [][Next]_vars

-----------------------------------------------------------------------------
(***************************************************************************)
(* Properties.                                                             *)
(***************************************************************************)
TypeOK ==
  /\ cond \in [Zones -> Conditions]
  /\ call \in Calls
  /\ pc \in {"call", "command", "done"}
  /\ sector \in Nat /\ i \in Nat /\ zoneLen \in Nat
  /\ ret \in Int
  /\ processed \in Seq(Zones)
  /\ disturbed \in BOOLEAN

\* The group asked for: count zones, or one, from the zone at the sector.
GroupSize == IF call.count = 0 THEN 1 ELSE call.count

InGroup(z) ==
  \E first \in Zones :
    Start[first] = CmdSector(call.from)
      /\ first <= z /\ z < first + GroupSize

\* The emulation steps by the length of the group's first zone: behind a
\* shorter zone (the last one does not matter) it steps over the next ones
\* and may leave the group.
Oversteps ==
  /\ ~call.counted /\ call.count > 1
  /\ \E first, z \in Zones :
       /\ Start[first] = CmdSector(call.from)
       /\ first < z /\ z < first + call.count - 1
       /\ Length[z] < Length[first]

\* "Execute an operation on one or more zones of dev starting at the sector
\* specified by sector", count being the number of zones to process: a call
\* that succeeds processed each zone of the group, in order, and no other,
\* on any layout of zones, unless the emulation oversteps.
GroupComplete ==
  pc = "done" /\ ret = 0 /\ ~call.all /\ ~Oversteps
    => \E first \in Zones :
         Start[first] = CmdSector(call.from) /\ processed = Run(first, GroupSize)

\* A call that stops half way has processed the first zones of the group
\* and none behind a gap: the caller can find out where to go on.  Again the
\* exception is an emulation that oversteps; a longer zone only ends it.
PrefixOnly ==
  ~Oversteps =>
    /\ Len(processed) <= GroupSize
    /\ \A k \in 1..Len(processed) :
         InGroup(processed[k]) /\ processed[k] = processed[1] + k - 1
    /\ processed /= <<>> => Start[processed[1]] = CmdSector(call.from)

\* Where an emulation that oversteps can get to: the zones that start a few
\* lengths of the first zone behind it.
Stepped(z) ==
  \E first \in Zones, k \in 1..(call.count - 1) :
    Start[first] = CmdSector(call.from) /\ Start[z] = Start[first] + k * Length[first]

\* On any layout, a step of the call changes the condition of a zone outside
\* the group only if the emulation oversteps, and then only of one that
\* starts fewer than count lengths of the first zone behind the sector.
OnlyGroupChanges ==
  [][CallStep => \A z \in Zones :
       cond'[z] /= cond[z] /\ ~call.all => InGroup(z) \/ (Oversteps /\ Stepped(z))]_vars

\* What zbc.h says of a zone after the operation.
Promised(op, c) ==
  /\ op = "open"   => c \in {"eopen0", "eopen"}
  /\ op = "close"  => c \notin Open
  /\ op = "finish" => c = "full"
  /\ op = "reset"  => c = "empty"

\* What zbc.h rules out: the open of a full zone, for which "an error will be
\* returned".  The library leaves this to the device, which does nothing and
\* reports success, as 02_state_machine_check/021.sh expects it to.
FullOpened(op, c) == op = "open" /\ c = "full"

Reached(op, c) == Promised(op, c) \/ FullOpened(op, c)

\* If nobody interferes and the emulation does not overstep, a successful
\* call leaves every zone of its group as the operation promises, except that
\* a full zone stays full when it is opened.
GroupEffect ==
  pc = "done" /\ ret = 0 /\ ~call.all /\ ~disturbed /\ ~Oversteps
    => \A z \in Zones : InGroup(z) => Reached(call.op, cond[z])

-----------------------------------------------------------------------------
(***************************************************************************)
(* What the proofs need.  A count is kept by the command only if it fits   *)
(* the field.                                                              *)
(***************************************************************************)
CountsFit == \A n \in Counts : n < CountMod

\* The call's commands processed a run of zones from the one asked for on.
RunSoFar ==
  /\ Len(processed) <= GroupSize
  /\ processed /= <<>> /\ ~Oversteps =>
       \E z \in Zones : /\ Start[z] = CmdSector(call.from)
                        /\ processed = Run(z, Len(processed))

\* The emulation's next command is for a sector i lengths of the first zone
\* behind the one asked for; once it got to a second one, the sector asked
\* for is the start of a zone.
Stepping ==
  /\ pc = "call" => processed = <<>>
  /\ pc = "command" =>
       /\ ~call.all /\ ~call.counted /\ call.count > 1
       /\ i < call.count /\ Len(processed) = i
       /\ sector = call.from + i * zoneLen
       /\ \/ call.from >= Capacity /\ i = 0
          \/ \E z \in Zones :
               /\ Start[z] <= CmdSector(call.from) /\ CmdSector(call.from) < End(z)
               /\ zoneLen = Length[z]
               /\ i > 0 => Start[z] = CmdSector(call.from)
       /\ i > 0 => Start[processed[i]] = CmdSector(call.from) + (i - 1) * zoneLen

\* Unless somebody else stepped in, what the commands did to zones lasts.
EffectLasts ==
  ~disturbed /\ ~call.all =>
    \A k \in 1..Len(processed) : Reached(call.op, cond[processed[k]])

\* A call that succeeded went through the whole group.
Completed ==
  CountsFit /\ pc = "done" /\ ret = 0 /\ ~call.all => Len(processed) = GroupSize

IndInv == TypeOK /\ RunSoFar /\ Stepping /\ EffectLasts /\ Completed

=============================================================================
