---------------------------- MODULE ZbcActivation ----------------------------
(***************************************************************************)
(* Zone activation: zbc_zone_activate, zbc_zone_query,                     *)
(* zbc_get_nr_actv_records and zbc_zone_query_list with both drivers'      *)
(* commands, and the program zbc_zone_activate, which lists realms, sets   *)
(* the number of zones (FSNOZ) with a control call, resets zones, counts   *)
(* activation records and activates.  It runs beside the program           *)
(* zbc_dev_control (ZbcDevControl) and other initiators that write to      *)
(* zones and activate realms.                                              *)
(***************************************************************************)
EXTENDS ZbcDevControl

CONSTANTS
  ActProg,    \* the program that activates
  NrRealms,   \* realms of the device
  Lens,       \* Lens[d][r]: zones of realm r in domain d, 0 if it has none
  SeqDomain,  \* the domain whose zones are written and reset
  CdbMax,     \* the largest count the 16 byte CDB and its records hold
  Jobs,       \* what the program is asked to do
  MaxChanges  \* bound: writes and activations by others

Realms  == 1..NrRealms
Domains == DOMAIN Lens

ASSUME ActivationAssumption ==
  /\ ActProg \in Progs \ {CtlProg}
  /\ NrRealms \in Nat /\ CdbMax \in Nat /\ MaxChanges \in Nat
  /\ Lens \in [Domains -> [Realms -> Nat]] /\ SeqDomain \in Domains
  /\ \A d \in Devices : d.slots \in Nat
  /\ Jobs \subseteq
       [kind : {"tool", "lib", "list"}, dom : Nat, start : Nat, nr : Nat, recs : Nat,
        all : BOOLEAN, zone : BOOLEAN, query : BOOLEAN, list : BOOLEAN,
        cdb32 : BOOLEAN, fsnoz : BOOLEAN, reset : BOOLEAN, zsrc : BOOLEAN]
  /\ \A j \in Jobs : /\ j.kind /= "tool" => j.dom \in Domains
                     /\ j.kind = "tool" /\ ~j.zone /\ ~j.all => j.start > 0

VARIABLES
  active, \* on the device: the domain each realm is active in
  filled, \* on the device: realms with zones that are not empty
  job,    \* what the program is asked to do
  pc,     \* its next step
  cur,    \* its current realm, or first zone, and what it found out
  nr,     \* nr_actv_recs
  out,    \* records it was given: how many, and how many of those are real
  ret,    \* its last result; its exit status in the end
  did,    \* history: realms its commands have activated
  amiss,  \* history: whether another program changed FSNOZ before its command
  changes \* history: writes and activations by others

actvars == <<active, filled, job, pc, cur, nr, out, ret, did, amiss, changes>>
vars == <<ctlvars, actvars>>

Least(a, b) == IF a < b THEN a ELSE b
Supports(r, d) == d \in Domains /\ Lens[d][r] > 0

(***************************************************************************)
(* The device.  The zones of a domain are numbered through its realms.     *)
(***************************************************************************)
SumLens(d, rs) ==
  LET sum[r \in 0..NrRealms] == IF r = 0 THEN 0
        ELSE sum[r - 1] + (IF r \in rs THEN Lens[d][r] ELSE 0)
  IN  sum[NrRealms]

First(d, r) == SumLens(d, 1..(r - 1))
Zones(d, r) == First(d, r)..(First(d, r) + Lens[d][r] - 1)

\* The realms that n zones from zone start of domain d belong to, and whether
\* these zones are whole realms.
Covered(d, start, n) ==
  {r \in Realms : Zones(d, r) \cap (start..(start + n - 1)) /= {}}
Whole(d, start, n) ==
  n > 0 /\ UNION {Zones(d, r) : r \in Covered(d, start, n)} = start..(start + n - 1)

\* Another initiator writes to a zone, or activates a realm.
Write(r) ==
  /\ changes < MaxChanges /\ pc /= "exit"
  /\ active[r] = SeqDomain /\ r \notin filled
  /\ filled' = filled \cup {r}
  /\ changes' = changes + 1
  /\ UNCHANGED <<ctlvars, active, job, pc, cur, nr, out, ret, did, amiss>>

ActivateOther(r, d) ==
  /\ changes < MaxChanges /\ pc /= "exit"
  /\ Supports(r, d) /\ active[r] /= d /\ r \notin filled
  /\ active' = [active EXCEPT ![r] = d]
  /\ changes' = changes + 1
  /\ UNCHANGED <<ctlvars, filled, job, pc, cur, nr, out, ret, did, amiss>>

(***************************************************************************)
(* ZONE ACTIVATE and ZONE QUERY as the drivers send them: the zones are    *)
(* all, counted in the CDB (zsrc), or counted by FSNOZ on the device.      *)
(***************************************************************************)
CdbCount == IF job.cdb32 THEN cur.n ELSE cur.n % (CdbMax + 1)
Count    == IF cur.zsrc /\ ~job.all THEN CdbCount ELSE ctl["fsnoz"]
Targets  == IF job.all THEN {r \in Realms : Supports(r, job.dom)}
            ELSE Covered(job.dom, cur.start, Count)
Moves    == {r \in Targets : active[r] /= job.dom}
NrRecords == 2 * Cardinality(Moves)

\* The zones with unmet prerequisites, too many realms at once.
Unmet   == Moves \cap filled /= {}
TooMany == Cardinality(Moves) > ctl["maxact"]
Valid   == job.all \/ Whole(job.dom, cur.start, Count)

\* Refused by the library or the driver before the command is sent.
NotSent(given) ==
  IF ~dev.zdr THEN ENOTSUP
  ELSE IF dev.drv = "ata" /\ cur.zsrc /\ ~job.all THEN ENOTSUP
  ELSE IF dev.drv = "scsi" /\ ~job.cdb32 /\ given > CdbMax THEN EINVAL
  ELSE 0

\* The result of a command that was sent: -EIO if zones have unmet
\* prerequisites, and for an activation also if nothing was activated.
Sent(query) == IF Unmet \/ (~query /\ TooMany) THEN EIO ELSE 0

\* Mutant of Delivered: the reply's length is forgotten by both drivers.
DeliveredAll(total, given, inReply) == Least(total, given)

\* Records that the driver copies of a reply that holds inReply of total
\* records: the ATA driver does not look at the reply's length.
Delivered(total, given, inReply) ==
  IF dev.drv = "ata" THEN Least(total, given)
  ELSE Least(Least(total, given), inReply)

Exit(status) == pc' = "exit" /\ ret' = status

(***************************************************************************)
(* The program: which realms, and with how many zones.                     *)
(***************************************************************************)
\* main: zbc_list_domains, the domain of the wanted type, and the loop over
\* realms if the domain has shifting boundaries.
ByRealm == ~job.zone /\ ~job.all
OneByOne == job.dom \in dev.shifting /\ ByRealm

ListDomains ==
  /\ pc = "start" /\ job.kind = "tool"
  /\ dev.zdr /\ job.dom \in Domains
  /\ cur' = [cur EXCEPT !.realm = job.start, !.start = job.start,
                        !.n = IF OneByOne THEN 1 ELSE job.nr,
                        !.left = IF OneByOne THEN job.nr ELSE 1]
  /\ IF OneByOne /\ job.nr = 0 THEN Exit(0) ELSE pc' = "realms" /\ ret' = 0
  /\ UNCHANGED <<ctlvars, active, filled, job, nr, out, did, amiss, changes>>

ListDomainsFails ==
  /\ pc = "start" /\ job.kind = "tool"
  /\ Exit(1)
  /\ UNCHANGED <<ctlvars, active, filled, job, cur, nr, out, did, amiss, changes>>

\* The realms that one perform_activation is about.
Chunk == cur.realm..(cur.realm + (IF OneByOne THEN 1 ELSE job.nr) - 1)

\* Mutant of ResetZones: the lengths of the realms in the new domain.
ResetZonesNew(rdom) == SumLens(job.dom, Chunk)

\* The zones to reset, counted in the domain the first realm is active in.
ResetZones(rdom) == SumLens(rdom, Chunk)

\* Mutant of NrUnits: the first realm's length for each of them.
NrUnitsFirst == Lens[job.dom][cur.realm] * Cardinality(Chunk)

NrUnits == SumLens(job.dom, Chunk)

\* zbc_list_zone_realms, and what is computed from it.
FindZones ==
  /\ pc = "realms"
  /\ IF ByRealm
     THEN /\ \A r \in Chunk : r <= NrRealms
          /\ Supports(cur.realm, job.dom) /\ NrUnits > 0
          /\ cur' = [cur EXCEPT !.start = First(job.dom, cur.realm), !.n = NrUnits,
                       !.rdom = active[cur.realm],
                       !.rstart = First(active[cur.realm], cur.realm),
                       !.rn = ResetZones(active[cur.realm])]
     ELSE cur' = cur
  /\ pc' = "decide"
  /\ UNCHANGED <<ctlvars, active, filled, job, nr, out, ret, did, amiss, changes>>

\* The list fails, there are fewer realms, the first one has no zones of the
\* type, or none was asked for.  (With none asked for from the end of the list
\* on, the code looks at the realm behind the last one; the program fails in
\* any case.)
FindZonesFails ==
  /\ pc = "realms" /\ ByRealm
  /\ Exit(1)
  /\ UNCHANGED <<ctlvars, active, filled, job, cur, nr, out, did, amiss, changes>>

\* Whether the number of zones goes to the device by a control call.
UsesFsnoz ==
  ~job.all /\ ("nozsrc" \notin Flags \/ cur.fsnoz \/ (~job.cdb32 /\ cur.n > CdbMax))

\* Sets the number of zones and goes on to the reset.  opts->fsnoz keeps its
\* value for the realms that follow.
SetFsnoz ==
  /\ pc = "decide" /\ UsesFsnoz
  /\ "za_control" \in Flags
  /\ CtlCall(ActProg, [Ones EXCEPT !["fsnoz"] = cur.n], TRUE)
  /\ cur' = [cur EXCEPT !.fsnoz = TRUE]
  /\ pc' = "fsnoz"
  /\ UNCHANGED <<dev, ctl, tool, others>>
  /\ UNCHANGED <<active, filled, job, nr, out, ret, did, amiss, changes>>

FsnozUnsupported ==
  /\ pc = "decide" /\ UsesFsnoz
  /\ "za_control" \notin Flags
  /\ Exit(1)
  /\ UNCHANGED <<ctlvars, active, filled, job, cur, nr, out, did, amiss, changes>>

FsnozInCdb ==
  /\ pc = "decide" /\ ~UsesFsnoz
  /\ cur' = [cur EXCEPT !.fsnoz = FALSE, !.zsrc = TRUE]
  /\ pc' = "reset"
  /\ UNCHANGED <<ctlvars, active, filled, job, nr, out, ret, did, amiss, changes>>

FsnozSet ==
  /\ pc = "fsnoz" /\ CtlReturned(ActProg)
  /\ IF cc[ActProg].ret = 0 THEN pc' = "reset" /\ ret' = ret ELSE Exit(1)
  /\ cur' = [cur EXCEPT !.zsrc = FALSE]
  /\ UNCHANGED <<ctlvars, active, filled, job, nr, out, did, amiss, changes>>

(***************************************************************************)
(* zbc_zone_group_op(RESET) before the activation; its failure is printed  *)
(* and then forgotten.  One step here: ZbcZoneOps has the commands.        *)
(***************************************************************************)
Resets == job.reset /\ ~job.query /\ ~job.zone
ResetRange == IF job.all THEN Realms ELSE Covered(cur.rdom, cur.rstart, cur.rn)

NoReset ==
  /\ pc = "reset" /\ ~Resets
  /\ pc' = "count"
  /\ UNCHANGED <<ctlvars, active, filled, job, cur, nr, out, ret, did, amiss, changes>>

ResetOk ==
  /\ pc = "reset" /\ Resets
  /\ job.all \/ \A r \in ResetRange : active[r] = SeqDomain /\ cur.rdom = SeqDomain
  /\ filled' = filled \ ResetRange
  /\ pc' = "count"
  /\ UNCHANGED <<ctlvars, active, job, cur, nr, out, ret, did, amiss, changes>>

\* Some zones may have been reset before the one that failed.
ResetFails ==
  /\ pc = "reset" /\ Resets
  /\ \E some \in SUBSET {r \in ResetRange : active[r] = SeqDomain /\ cur.rdom = SeqDomain} :
       filled' = filled \ some
  /\ pc' = "count"
  /\ UNCHANGED <<ctlvars, active, job, cur, nr, out, ret, did, amiss, changes>>

(***************************************************************************)
(* Counting the records, and the array for them.                           *)
(***************************************************************************)
CountOk ==
  /\ pc = "count"
  /\ NotSent(0) = 0 /\ Valid /\ Sent(TRUE) = 0
  /\ nr' = NrRecords
  /\ pc' = "fetch"
  /\ UNCHANGED <<ctlvars, active, filled, job, cur, out, ret, did, amiss, changes>>

\* Refused, unmet prerequisites, a failing command, no memory.
CountFails ==
  /\ pc = "count"
  /\ \E e \in {NotSent(0), EIO, ENOMEM} \ {0} :
       Exit(IF job.kind = "tool" THEN 1 ELSE e)
  /\ UNCHANGED <<ctlvars, active, filled, job, cur, nr, out, did, amiss, changes>>

\* A program that calls the library itself: zbc_zone_query_list, or
\* zbc_zone_activate with an array of job.recs records.
CallLibrary ==
  /\ pc = "start" /\ job.kind /= "tool"
  /\ cur' = [cur EXCEPT !.start = job.start, !.n = job.nr, !.zsrc = job.zsrc]
  /\ nr' = job.recs
  /\ pc' = IF job.kind = "list" THEN "count" ELSE "fetch"
  /\ UNCHANGED <<ctlvars, active, filled, job, out, ret, did, amiss, changes>>

(***************************************************************************)
(* The query or the activation itself.                                     *)
(***************************************************************************)
Query == job.kind = "list" \/ job.query
WithRecords == job.kind /= "tool" \/ job.list

\* What follows a perform_activation: the next realm, or the end.
Mark == IF cur.fsnoz /\ "fsnoz" \in others[ActProg] THEN TRUE ELSE amiss

NextRealm == cur.left = 1

\* Mutant of Again: the loop stays at the realm.
AgainSame == cur

Again == [cur EXCEPT !.realm = @ + 1, !.left = @ - 1]

Proceed(value) ==
  IF job.kind /= "tool" \/ value /= 0
  THEN Exit(IF job.kind = "tool" /\ value /= 0 THEN 1 ELSE value) /\ UNCHANGED cur
  ELSE IF NextRealm THEN Exit(0) /\ UNCHANGED cur
  ELSE /\ pc' = "realms" /\ ret' = 0
       /\ cur' = Again

\* The command is sent and answered.  It fails if the zones are not whole
\* realms.  An error report may still bring records.
Fetch ==
  /\ pc = "fetch"
  /\ NotSent(nr) = 0 /\ Valid
  /\ LET value == Sent(Query)
         done  == ~Query /\ value = 0
     IN  /\ active' = IF done THEN [r \in Realms |-> IF r \in Targets THEN job.dom ELSE active[r]]
                      ELSE active
         /\ did' = IF done THEN did \cup Targets ELSE did
         /\ \E inReply \in 0..dev.slots, total \in {NrRecords} \cup (IF value /= 0 THEN {0} ELSE {}) :
              LET real == Least(Least(total, dev.slots), inReply) IN
              /\ nr' = IF WithRecords THEN Delivered(total, nr, inReply) ELSE total
              /\ out' = IF WithRecords
                        THEN [nr |-> nr', real |-> real, room |-> nr] ELSE out
         /\ Proceed(value)
  /\ amiss' = Mark
  /\ UNCHANGED <<ctlvars, filled, job, changes>>

\* Refused before it was sent, or the command failed.
FetchFails ==
  /\ pc = "fetch"
  /\ \E e \in {NotSent(nr), EIO} \ {0} : Proceed(e)
  /\ nr' = IF NotSent(nr) = 0 THEN 0 ELSE nr
  /\ UNCHANGED <<ctlvars, active, filled, job, out, did, amiss, changes>>

ActStep ==
  \/ ListDomains \/ ListDomainsFails \/ FindZones \/ FindZonesFails
  \/ SetFsnoz \/ FsnozUnsupported \/ FsnozInCdb \/ FsnozSet
  \/ NoReset \/ ResetOk \/ ResetFails \/ CountOk \/ CountFails
  \/ CallLibrary \/ Fetch \/ FetchFails

Init ==
  /\ CtlInit
  /\ active \in {a \in [Realms -> Domains] : \A r \in Realms : Supports(r, a[r])}
  /\ filled = {}
  /\ job \in Jobs
  /\ pc = "start"
  /\ cur = [realm |-> 1, start |-> 0, n |-> 0, left |-> 1, rdom |-> SeqDomain,
            rstart |-> 0, rn |-> 0, zsrc |-> FALSE, fsnoz |-> job.fsnoz]
  /\ nr = 0
  /\ out = [nr |-> 0, real |-> 0, room |-> 0]
  /\ ret = 0
  /\ did = {}
  /\ amiss = FALSE
  /\ changes = 0

Quiet == pc = "exit" /\ tool.pc = "exit" /\ UNCHANGED vars

Next ==
  \/ ActStep
  \/ (ToolStep \/ \E p \in Progs : CtlStep(p)) /\ UNCHANGED actvars
  \/ \E r \in Realms : Write(r) \/ \E d \in Domains : ActivateOther(r, d)
  \/ Quiet

Spec == Init /\ [][Next]_vars

\* Programs run until they exit; their commands end by a timeout at last.
FairSpec ==
  /\ Spec
  /\ WF_vars(ActStep)
  /\ WF_vars((ToolStep \/ \E p \in Progs : CtlStep(p)) /\ UNCHANGED actvars)

(***************************************************************************)
(* Properties.                                                             *)
(***************************************************************************)
\* The realms that the user, or the caller, asked to activate.
Asked ==
  IF job.all THEN {r \in Realms : Supports(r, job.dom)}
  ELSE IF job.kind /= "tool" \/ job.zone THEN Covered(job.dom, job.start, job.nr)
  ELSE {r \in job.start..(job.start + job.nr - 1) : r <= NrRealms /\ Supports(r, job.dom)}

\* Calls whose number of zones the command does not keep: FSNOZ is the
\* caller's business, and the 16 byte CDB cuts larger counts.
Uncounted == job.kind /= "tool" /\ (~job.zsrc \/ (~job.cdb32 /\ job.nr > CdbMax)) /\ ~job.all

\* Whatever other programs do between the commands of zbc_zone_activate,
\* only realms that were asked for are activated, and all of them if it
\* exits with 0; a query activates none.  The exception is real: another
\* program that sets FSNOZ between this one's control call and its
\* activation decides how many zones are activated.
ActivatesAsked ==
  \/ amiss \/ Uncounted
  \/ /\ did \subseteq (IF Query THEN {} ELSE Asked)
     /\ pc = "exit" /\ ret = 0 /\ ~Query => did = Asked

\* Resetting before an activation empties only realms that the user named,
\* although zones are counted in the domain of the first realm.  (Not all of
\* these are activated then: a realm of the range that has no zones of the
\* new type loses its data too.)
ResetConfined ==
  [][filled \ filled' \subseteq
       (IF job.all THEN Realms ELSE job.start..(job.start + job.nr - 1))]_vars

\* The records the caller reads fit its array, and with the SCSI driver all
\* of them were in the reply, even if that was cut short or if the number of
\* records grew after they had been counted.
RecordsFromReply ==
  out.nr <= out.room /\ (dev.drv = "scsi" => out.nr <= out.real)

\* Both programs come to an end, whatever fails.
ProgramsEnd == <>(pc = "exit" /\ tool.pc = "exit")

(***************************************************************************)
(* What the proofs need.                                                   *)
(***************************************************************************)
TypeOK ==
  /\ active \in [Realms -> Domains] /\ filled \subseteq Realms
  /\ job \in Jobs
  /\ pc \in {"start", "realms", "decide", "fsnoz", "reset", "count", "fetch", "exit"}
  /\ cur \in [realm : Nat, start : Nat, n : Nat, left : Nat, rdom : Domains,
              rstart : Nat, rn : Nat, zsrc : BOOLEAN, fsnoz : BOOLEAN]
  /\ nr \in Nat /\ out \in [nr : Nat, real : Nat, room : Nat] /\ ret \in Int
  /\ did \subseteq Realms /\ amiss \in BOOLEAN /\ changes \in 0..MaxChanges

\* Where the program is in the range that it was given.
Placed ==
  /\ job.kind /= "tool" => pc \in {"start", "count", "fetch", "exit"}
  /\ job.kind /= "tool" /\ pc \in {"count", "fetch"} =>
       cur.start = job.start /\ cur.n = job.nr /\ cur.zsrc = job.zsrc
  /\ job.kind = "tool" /\ pc \notin {"start", "exit"} =>
       /\ job.dom \in Domains
       /\ ~ByRealm => cur.start = job.start /\ cur.n = job.nr
       /\ ~OneByOne => cur.realm = job.start /\ cur.left = 1
       /\ OneByOne => /\ cur.realm >= job.start /\ cur.left > 0
                      /\ cur.realm + cur.left = job.start + job.nr

\* The zones that it found for the realms it is at.
Found ==
  job.kind = "tool" /\ ByRealm /\ pc \in {"decide", "fsnoz", "reset", "count", "fetch"} =>
    /\ Chunk \subseteq Realms /\ cur.realm \in Chunk /\ Supports(cur.realm, job.dom)
    /\ cur.start = First(job.dom, cur.realm) /\ cur.n = NrUnits
    /\ cur.rstart = First(cur.rdom, cur.realm) /\ cur.rn = ResetZones(cur.rdom)

IndInv == CtlInv /\ TypeOK /\ Placed /\ Found /\ RecordsFromReply

\* FSNOZ is what the program has set, unless others have changed it since.
FsnozKept == "fsnoz" \in others[ActProg] \/ ctl["fsnoz"] = cur.n

Counted ==
  /\ pc /= "fsnoz" => cc[ActProg].st \in {"none", "returned"}
  /\ pc = "fsnoz" =>
       /\ ~job.all /\ cur.fsnoz /\ cc[ActProg].st \in {"feature", "returned"}
       /\ cc[ActProg].want = [Ones EXCEPT !["fsnoz"] = cur.n]
       /\ cc[ActProg].st = "feature" /\ cc[ActProg].k > 1 => FsnozKept
       /\ cc[ActProg].st = "returned" /\ cc[ActProg].ret = 0 => FsnozKept
  /\ pc \in {"reset", "count", "fetch"} /\ job.kind = "tool" /\ ~job.all =>
       IF cur.zsrc THEN job.cdb32 \/ cur.n <= CdbMax ELSE cur.fsnoz /\ FsnozKept

\* What has been activated on the way.
Progress ==
  \/ amiss \/ Uncounted
  \/ Query /\ did = {}
  \/ /\ ~Query /\ did \subseteq Asked
     /\ pc = "exit" /\ ret = 0 => did = Asked
     /\ pc /= "exit" => did = IF job.kind = "tool" /\ OneByOne /\ pc /= "start"
                                THEN job.start..(cur.realm - 1) ELSE {}

CountInv == IndInv /\ Counted /\ Progress

\* A number of zones that the control call takes for one: all ones would tell
\* it to leave FSNOZ alone.
FitsFsnoz ==
  /\ \A j \in Jobs : j.nr < Ones["fsnoz"]
  /\ \A d \in Domains : SumLens(d, Realms) < Ones["fsnoz"]
=============================================================================
