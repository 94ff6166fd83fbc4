--------------------------- MODULE ZbcReportZones ---------------------------
(***************************************************************************)
(* Zone reports: zbc_report_zones, which fills the caller's array with as  *)
(* many REPORT ZONES commands as it takes, and zbc_list_zones, which first *)
(* asks how many zones match, allocates an array of that size and fills    *)
(* it.  The backend drivers size the command buffer and copy descriptors   *)
(* (zbc_scsi_report_zones, zbc_ata_report_zones and their do_ functions).  *)
(* Between two commands other initiators change zone conditions.           *)
(*                                                                         *)
(* A call keeps nothing for the next one, so a behaviour is one call.      *)
(***************************************************************************)
EXTENDS ZbcZoneDevice, ZbcOrder, ZbcErrorCodes

CONSTANTS
  Filters,    \* what the reporting options select: sets of conditions
  ArraySizes, \* sizes of the caller's array, *nr_zones
  FromSectors,\* sectors reports start from
  OtherOps,   \* zone operations of other initiators
  RwSlots,    \* 64 B descriptors in zbd_max_rw_sectors
  BufUnit,    \* 64 B descriptors in zbd_report_bufsz_min, 512 B
  UIntSlots,  \* 2^32 / 64: where (*nr_zones + 1) * 64 wraps
  TestModes   \* whether the handle has ZBC_O_DEVTEST: values tried

ASSUME ReportAssumption ==
  /\ \A f \in Filters : f \subseteq Conditions
  /\ ArraySizes \subseteq Nat
  /\ FromSectors \subseteq Nat
  /\ OtherOps \subseteq ZoneOps
  /\ BufUnit \in Nat /\ BufUnit > 1
  /\ RwSlots \in Nat /\ RwSlots % BufUnit = 0
  /\ UIntSlots \in Nat \ {0}
  /\ TestModes \subseteq BOOLEAN

VARIABLES
  cond,      \* the condition of each zone, on the device
  call,      \* the call: kind, first sector, reporting options, array size
  pc,        \* "call", "fetch" or "done"
  max,       \* max_zones: size of the array being filled
  sector,    \* where the next command starts
  zones,     \* zones[0 .. nz - 1], as zone numbers
  nr,        \* *nr_zones as the caller finds it
  ret,       \* the value returned
  array,     \* zbc_list_zones: "none", "held", "freed" or "given"
  devErr,    \* whether a command of this call failed
  lasting,   \* history: the zones that matched throughout the call so far
  changed    \* history: whether a condition changed during the call

result == <<nr, ret, array>>
history == <<lasting, changed>>
vars == <<cond, call, pc, max, sector, zones, result, devErr, history>>

\* Values a return register can hold where the code never set it.
Garbage == {0, -1, 1}

Calls ==
  [kind : {"list", "count", "report"}, from : FromSectors, ro : Filters,
   size : ArraySizes, test : TestModes]

\* The zones REPORT ZONES selects from sector s on: "containing or after".
Matching(s, ro) == {z \in Zones : End(z) > s /\ cond[z] \in ro}

(***************************************************************************)
(* The drivers' report_zones: the buffer holds *nr_zones + 1 descriptors   *)
(* (one is the header) unless a command cannot carry that much, and is     *)
(* rounded up to whole 512 B units.                                        *)
(***************************************************************************)
BufSlots(n) ==
  LET asked == (n + 1) % UIntSlots
      fit   == IF RwSlots > asked THEN asked ELSE RwSlots
  IN  IF fit < BufUnit
        THEN BufUnit ELSE ((fit + BufUnit - 1) \div BufUnit) * BufUnit

\* Mutant of Copied: the size of the caller's array is forgotten.
CopiedAll(nz, n, slots) ==
  CHOOSE k \in {nz, slots} : k <= nz /\ k <= slots

\* do_report_zones: the descriptors copied out of a reply that lists nz
\* zones and carries slots descriptors beside its header.
Copied(nz, n, slots) ==
  CHOOSE k \in {nz, n, slots} : k <= nz /\ k <= n /\ k <= slots

(***************************************************************************)
(* Entry, and zbc_report_zones without an array (zbc_report_nr_zones).     *)
(***************************************************************************)
Finish(value, number, arr) ==
  /\ pc' = "done"
  /\ ret' = value
  /\ nr' = number
  /\ array' = arr

BeyondEnd == ~call.test /\ call.from >= Capacity

ReturnBeyond ==
  /\ pc = "call"
  /\ BeyondEnd
  /\ Finish(0, 0, "none")
  /\ UNCHANGED <<cond, call, max, sector, zones, devErr, history>>

StartFetch(size, arr) ==
  /\ pc' = "fetch"
  /\ max' = size
  /\ sector' = call.from
  /\ zones' = <<>>
  /\ array' = arr

\* Mutant of ZoneCount: the count stops at what one buffer holds.
ZoneCountPartial ==
  Copied(Cardinality(Matching(call.from, call.ro)), NrZones, BufSlots(0) - 1)

\* The number of matching zones in the header of the reply.
ZoneCount == Cardinality(Matching(call.from, call.ro))

CountOk ==
  /\ pc = "call"
  /\ call.kind \in {"list", "count"}
  /\ ~BeyondEnd
  /\ call.from < Capacity
  /\ LET n == ZoneCount
     IN  IF call.kind = "count" \/ n = 0
           THEN /\ Finish(0, n, "none")
                /\ UNCHANGED <<max, sector, zones>>
           ELSE /\ StartFetch(n, "held")
                /\ nr' = n
                /\ UNCHANGED ret
  /\ UNCHANGED <<cond, call, devErr, history>>

\* calloc fails.
NoMemory ==
  /\ pc = "call"
  /\ call.kind = "list"
  /\ ~BeyondEnd
  /\ call.from < Capacity
  /\ Matching(call.from, call.ro) /= {}
  /\ Finish(ENOMEM, call.size, "none")
  /\ UNCHANGED <<cond, call, max, sector, zones, devErr, history>>

\* The command fails, as it must where there is no such sector.  *nr_zones
\* is then 0 for a count; zbc_list_zones returns before it sets anything.
CountFail ==
  /\ pc = "call"
  /\ call.kind \in {"list", "count"}
  /\ ~BeyondEnd
  /\ Finish(EIO, IF call.kind = "count" THEN 0 ELSE call.size, "none")
  /\ devErr' = TRUE
  /\ UNCHANGED <<cond, call, max, sector, zones, history>>

Report ==
  /\ pc = "call"
  /\ call.kind = "report"
  /\ ~BeyondEnd
  /\ StartFetch(call.size, "none")
  /\ UNCHANGED <<cond, call, nr, ret, devErr, history>>

(***************************************************************************)
(* The loop of zbc_report_zones.  End of the function: *nr_zones is set on *)
(* success; zbc_list_zones hands the array over or frees it.               *)
(***************************************************************************)
\* Mutant of Looping: a last zone of one sector is not asked for.
LoopingShort == Len(zones) < max /\ sector < Capacity - 1

Looping == Len(zones) < max /\ sector < Capacity

\* Mutant of LeaveLoop: zbc_list_zones keeps the array after an error.
LeaveLoopLeak(value, found) ==
  /\ pc' = "done"
  /\ ret' = value
  /\ nr' = IF value = 0 THEN found ELSE call.size
  /\ array' = IF array = "held" /\ value = 0 THEN "given" ELSE array

LeaveLoop(value, found) ==
  /\ pc' = "done"
  /\ ret' = value
  /\ nr' = IF value = 0 THEN found ELSE call.size
  /\ array' = IF array = "held"
                THEN (IF value = 0 THEN "given" ELSE "freed") ELSE array

NextSector(found) ==
  IF found = <<>> THEN sector ELSE End(found[Len(found)])

\* Mutant of EndOfReport: a reply without zones does not end the loop.
EndAtCapacity(k, next) == next >= Capacity

EndOfReport(k, next) == k = 0 \/ next >= Capacity

\* One command.  Residual data may cut the reply short, but a reply that
\* lists a zone is taken to carry at least one descriptor: the code would end
\* the loop with success on a header alone.
Fetch ==
  /\ pc = "fetch"
  /\ Looping
  /\ LET set  == Matching(sector, call.ro)
         n    == max - Len(zones)
         most == Copied(Cardinality(set), n, BufSlots(n) - 1)
     IN  \E k \in 0..most :
           /\ k = 0 => most = 0
           /\ zones' = zones \o SubSeq(InOrder(set), 1, k)
           /\ IF EndOfReport(k, NextSector(zones'))
                THEN LeaveLoop(0, Len(zones')) /\ UNCHANGED sector
                ELSE /\ sector' = NextSector(zones')
                     /\ UNCHANGED <<pc, result>>
  /\ UNCHANGED <<cond, call, max, devErr, history>>

FetchFail ==
  /\ pc = "fetch"
  /\ Looping
  /\ LeaveLoop(EIO, 0)
  /\ devErr' = TRUE
  /\ UNCHANGED <<cond, call, max, sector, zones, history>>

\* The loop ends because the array is full.
ArrayFull ==
  /\ pc = "fetch"
  /\ ~Looping
  /\ zones /= <<>>
  /\ LeaveLoop(0, Len(zones))
  /\ UNCHANGED <<cond, call, max, sector, zones, devErr, history>>

\* The loop body never ran: ret is returned without ever being set.
NeverRan ==
  /\ pc = "fetch"
  /\ ~Looping
  /\ zones = <<>>
  /\ \E g \in Garbage : LeaveLoop(g, 0)
  /\ UNCHANGED <<cond, call, max, sector, zones, devErr, history>>

(***************************************************************************)
(* Another initiator operates on a zone between two commands.              *)
(***************************************************************************)
Interfere(z, op) ==
  /\ pc /= "done"
  /\ Accepts(cond, op, {z})
  /\ After(op, cond[z]) /= cond[z]
  /\ cond' = Applied(cond, op, {z})
  /\ lasting' = IF After(op, cond[z]) \in call.ro
                  THEN lasting ELSE lasting \ {z}
  /\ changed' = TRUE
  /\ UNCHANGED <<call, pc, max, sector, zones, result, devErr>>

\* Conventional zones come first; the others are empty or full.
Init ==
  /\ cond \in [Zones -> {"notwp", "empty", "full"}]
  /\ \A z \in Zones : cond[z] = "notwp" <=> z = 1
  /\ call \in Calls
  /\ pc = "call"
  /\ max = 0 /\ sector = 0 /\ zones = <<>>
  /\ nr = call.size /\ ret = 0 /\ array = "none"
  /\ devErr = FALSE
  /\ lasting = Matching(call.from, call.ro)
  /\ changed = FALSE

CallStep ==
  \/ ReturnBeyond \/ CountOk \/ CountFail \/ NoMemory \/ Report
  \/ Fetch \/ FetchFail \/ ArrayFull \/ NeverRan

Next == CallStep \/ \E z \in Zones, op \in OtherOps : Interfere(z, op)

Spec == Init /\ [][Next]_vars

\* The calling thread runs on, whatever the other initiators do; nothing
\* relies on a failing command to end the loop.
Progress ==
  ReturnBeyond \/ CountOk \/ CountFail \/ Report \/ Fetch \/ ArrayFull \/ NeverRan

FairSpec == Spec /\ WF_vars(Progress)

-----------------------------------------------------------------------------
(***************************************************************************)
(* Properties.                                                             *)
(***************************************************************************)
TypeOK ==
  /\ cond \in [Zones -> Conditions]
  /\ call \in Calls
  /\ pc \in {"call", "fetch", "done"}
  /\ max \in Nat /\ sector \in Nat /\ nr \in Nat
  /\ zones \in Seq(Zones)
  /\ ret \in Int
  /\ array \in {"none", "held", "freed", "given"}
  /\ devErr \in BOOLEAN /\ changed \in BOOLEAN
  /\ lasting \subseteq Zones

Reported == {zones[k] : k \in 1..Len(zones)}

\* The array never overflows and holds each zone once, in sector order,
\* from the one that contains the first sector on, although the chunks of
\* the loop are cut by the buffer size, by residuals and by other
\* initiators changing what matches.
ReportInOrder ==
  /\ Len(zones) <= max
  /\ \A k \in 1..Len(zones) : End(zones[k]) > call.from
  /\ \A k \in 1..(Len(zones) - 1) : zones[k] < zones[k + 1]

\* No zone is lost: unless the array is full, a successful report contains
\* every zone that matched throughout the call.
NoZoneLost ==
  pc = "done" /\ call.kind /= "count" /\ ret = 0 /\ nr < max
    => lasting \subseteq Reported

\* If no condition changed meanwhile, zbc_list_zones returns exactly the
\* matching zones: the count it allocates for is the right one.
ListExact ==
  pc = "done" /\ call.kind = "list" /\ ret = 0 /\ ~changed
    => Reported = lasting /\ nr = Cardinality(lasting)

\* An error of any command of the call reaches the caller, which then
\* neither gets an array nor leaves one allocated.
ErrorsSurface ==
  /\ devErr /\ pc = "done" => ret < 0 /\ array /= "given"
  /\ pc = "done" => array /= "held"

\* Every report ends, also while others keep changing zones.
CallReturns == (pc = "call") ~> (pc = "done")

-----------------------------------------------------------------------------
(***************************************************************************)
(* What the proofs need.                                                   *)
(***************************************************************************)
\* The loop goes on behind the last zone found; an array is held only then.
Onward ==
  /\ pc = "call" => zones = <<>> /\ max = 0 /\ array = "none"
  /\ pc = "fetch" =>
       /\ call.kind /= "count"
       /\ sector = IF zones = <<>> THEN call.from ELSE End(zones[Len(zones)])
       /\ array \in {"none", "held"}
  /\ devErr => pc = "done"

\* A zone that matched throughout is in the array or still ahead.
StillAhead ==
  /\ lasting \subseteq Matching(call.from, call.ro)
  /\ pc = "fetch" => \A z \in lasting : z \in Reported \/ End(z) > sector

\* zbc_list_zones counted the zones that it then looks for.
Counted ==
  /\ ~changed => /\ lasting = Matching(call.from, call.ro)
                 /\ Reported \subseteq lasting
  /\ pc = "fetch" /\ call.kind = "list" =>
       /\ max > 0 /\ call.from < Capacity
       /\ ~changed => max = Cardinality(lasting)

IndInv ==
  /\ TypeOK /\ ReportInOrder /\ Onward /\ StillAhead /\ Counted
  /\ NoZoneLost /\ ListExact /\ ErrorsSurface
=============================================================================
