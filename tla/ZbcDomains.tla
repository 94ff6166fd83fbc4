----------------------------- MODULE ZbcDomains -----------------------------
(***************************************************************************)
(* Zone domains and zone realms: zbc_report_domains, zbc_list_domains,     *)
(* zbc_report_realms and zbc_list_zone_realms with both drivers' report    *)
(* functions, and the two callers inside the library, the zone type scan   *)
(* of zbc_scsi_get_zbd_characteristics and zbc_get_domain_info.  A list    *)
(* takes two or more commands; between them other initiators activate      *)
(* realms in other domains, which changes what the next command reports.   *)
(*                                                                         *)
(* A call keeps nothing for the next one, so a behaviour is one call.      *)
(***************************************************************************)
EXTENDS ZbcOrder, ZbcErrorCodes

CONSTANTS
  NrDomains,    \* most domains of a device
  DomainType,   \* the zone type of each domain
  NrRealms,     \* realms of the device
  RealmDomains, \* the domains each realm can be activated in
  Devices,      \* driver, reply format and features of the device
  Est,          \* ZBC_EST_ALLOC_DOMAINS
  NrTypes,      \* ZBC_NR_ZONE_TYPES
  EarlySlots,   \* domain descriptors in 512 B, the limit before READ CAPACITY
  RealmSlots,   \* realm descriptors in zbd_max_rw_sectors: values tried
  RealmUnit,    \* descriptors, and the header, in 512 B
  Sizes,        \* sizes of the caller's array
  Froms,        \* first domains or realms of a report
  MaxChanges    \* bound: activations by others during a call

ValidTypes == {"conv", "swr", "swp", "sobr"}

ASSUME DomainsAssumption ==
  /\ NrDomains \in Nat \ {0} /\ NrRealms \in Nat
  /\ DomainType \in [1..NrDomains -> ValidTypes \cup {"unknown"}]
  /\ RealmDomains \in [1..NrRealms -> SUBSET (1..NrDomains)]
  /\ \A r \in 1..NrRealms : 1 \in RealmDomains[r]
  /\ Est \in Nat /\ NrTypes \in Nat /\ EarlySlots \in Nat
  /\ RealmSlots \subseteq Nat /\ RealmUnit \in Nat \ {0} /\ MaxChanges \in Nat
  /\ Sizes \subseteq Nat /\ Froms \subseteq Nat
  /\ Devices \subseteq
       [drv : {"scsi", "ata"}, zdr : SUBSET {"domains", "realms"},
        realms : BOOLEAN, format : {"standard", "old"},
        domains : 1..NrDomains, slots : RealmSlots]
  /\ \A d \in Devices : d.drv = "scsi" => d.realms /\ d.format = "standard"

VARIABLES
  dev,     \* the device
  active,  \* on the device: the domain each realm is active in
  call,    \* the call
  pc,      \* the command, or the allocation, that is next
  alloc,   \* descriptors that the array being filled has room for
  out,     \* the descriptors filled in, from the start of the array
  nr,      \* the number of descriptors as the caller finds it
  types,   \* what the driver knows of the domains when it reports realms
  ret,     \* the value returned
  array,   \* "none", "held", "freed", "given", or "user" for the caller's
  failed,  \* history: whether a command or allocation of this call failed
  lasting, \* history: realms that matched throughout the call so far
  changes  \* history: activations by others during the call

buffers == <<alloc, out, nr, array>>
vars == <<dev, active, call, pc, buffers, types, ret, failed, lasting, changes>>

DomainFns == {"list_domains", "report_domains", "zone_types", "domain_info"}
RealmFns  == {"list_realms", "report_realms", "nr_realms"}

Calls ==
  [fn : {"list_domains", "report_domains"}, from : Froms, size : Sizes,
   ro : {"all", "allactive", "active", "inactive"}]
    \cup [fn : {"zone_types", "domain_info"}, from : {1}, size : {0}, ro : {"all"}]
    \cup [fn : {"list_realms", "report_realms"}, from : Froms, size : Sizes,
          ro : {"all", "sobr", "swr"}]
    \cup [fn : {"nr_realms"}, from : {1}, size : {0}, ro : {"all"}]

Least(a, b) == IF a < b THEN a ELSE b

(***************************************************************************)
(* The device.                                                             *)
(***************************************************************************)
Domains == 1..dev.domains
Realms  == 1..NrRealms
ActiveIn(d) == {r \in Realms : active[r] = d}

\* REPORT ZONE DOMAINS: which domains an option selects.
DomainMatches(d, from, ro) ==
  /\ d >= from
  /\ ro = "allactive" => \A r \in Realms : d \in RealmDomains[r] => active[r] = d
  /\ ro = "active"    => ActiveIn(d) /= {}
  /\ ro = "inactive"  => ActiveIn(d) = {}

\* REPORT REALMS: which realms an option selects.
RealmMatches(r, from, ro) ==
  r >= from /\ (ro = "all" \/ DomainType[active[r]] = ro)

DomainList(from, ro) == InOrder({d \in Domains : DomainMatches(d, from, ro)})
RealmList(from, ro)  == InOrder({r \in Realms : RealmMatches(r, from, ro)})

\* Another initiator activates realm r in domain d.
Activate(r, d) ==
  /\ pc /= "done"
  /\ changes < MaxChanges
  /\ d \in RealmDomains[r] \cap Domains /\ d /= active[r]
  /\ active' = [active EXCEPT ![r] = d]
  /\ changes' = changes + 1
  /\ lasting' = {x \in lasting : x = r => DomainType[d] = call.ro \/ call.ro = "all"}
  /\ UNCHANGED <<dev, call, pc, buffers, types, ret, failed>>

(***************************************************************************)
(* The drivers' report_domains: the reply counts all matching domains, the *)
(* descriptors copied are as many as the array and the buffer hold.  The   *)
(* buffer is as large as asked for, but 512 B before READ CAPACITY.        *)
(***************************************************************************)
\* Mutant of Room: the array's size is forgotten.
RoomForAll(n) == dev.domains

Room(n) == IF call.fn = "zone_types" THEN Least(n, EarlySlots) ELSE n

Copied(list, n) == SubSeq(list, 1, Least(Len(list), Room(n)))

\* A domain of an unknown zone type among those copied.
UnknownType(list, n) ==
  \E k \in 1..Least(Len(list), Room(n)) : DomainType[list[k]] \notin ValidTypes

(***************************************************************************)
(* Ends of a call.                                                         *)
(***************************************************************************)
Return(value, arr) ==
  /\ pc' = "done"
  /\ ret' = value
  /\ array' = arr

\* Mutant of OnError: the array is not freed.
OnErrorKeeps == array

\* What an error path does with the array: the list functions free theirs;
\* the zone type scan forgets the one of its second report.
OnError ==
  IF array = "held" /\ call.fn /= "zone_types" THEN "freed" ELSE array

Stays == UNCHANGED <<dev, active, call, lasting, changes>>

(***************************************************************************)
(* Entry.                                                                  *)
(***************************************************************************)
\* The feature that a function needs of the device.
Applies ==
  CASE call.fn = "zone_types"  -> "domains" \in dev.zdr
    [] call.fn = "domain_info" -> "realms" \in dev.zdr
    [] OTHER -> dev.zdr /= {}

\* A device without domains and realms is refused before any command; for
\* the library's own scans there is nothing to do.
NotSupported ==
  /\ pc = "call"
  /\ ~Applies
  /\ Return(IF call.fn \in {"zone_types", "domain_info"} THEN 0 ELSE ENOTSUP, "none")
  /\ Stays
  /\ UNCHANGED <<alloc, out, nr, types, failed>>

NoReportRealms ==
  /\ pc = "call"
  /\ Applies /\ call.fn \in RealmFns /\ ~dev.realms
  /\ Return(ENXIO, "none")
  /\ Stays
  /\ UNCHANGED <<alloc, out, nr, types, failed>>

\* The array of the first command: ZBC_EST_ALLOC_DOMAINS entries, the
\* caller's, one entry on the stack, or none.
FirstArray ==
  CASE call.fn \in {"list_domains", "domain_info"} -> [size |-> Est, is |-> "held"]
    [] call.fn \in {"report_domains", "report_realms"} ->
         [size |-> call.size, is |-> "user"]
    [] call.fn = "zone_types" -> [size |-> 1, is |-> "none"]
    [] OTHER -> [size |-> 0, is |-> "none"]

Begin ==
  /\ pc = "call"
  /\ Applies /\ (call.fn \in RealmFns => dev.realms)
  /\ pc' = IF call.fn \in DomainFns THEN "domains"
           ELSE IF call.fn = "report_realms" THEN "realmtypes" ELSE "counttypes"
  /\ alloc' = FirstArray.size
  /\ array' = FirstArray.is
  /\ nr' = FirstArray.size
  /\ Stays
  /\ UNCHANGED <<out, types, ret, failed>>

(***************************************************************************)
(* Domains.                                                                *)
(***************************************************************************)
\* What a caller inside the library gathers from nr domains of the array.
\* Every descriptor is taken to say that its zone type is valid.
Gathered == {DomainType[out[k]] : k \in 1..Len(out)}

\* Mutants of MustRepeat: one domain more is taken to fit; the zone type scan
\* makes do with its first report.
MustRepeatLate(total) ==
  call.fn = "zone_types" \/ (call.fn /= "report_domains" /\ total > Est + 1)
MustRepeatLists(total) ==
  call.fn \notin {"report_domains", "zone_types"} /\ total > Est

\* Whether a second command is due, with an array for all domains.
MustRepeat(total) ==
  call.fn = "zone_types" \/ (call.fn /= "report_domains" /\ total > Est)

\* The first command: either the array was large enough or one of the
\* size just learnt is allocated.
FirstDomains ==
  /\ pc = "domains"
  /\ LET list == DomainList(call.from, call.ro)
     IN  /\ ~UnknownType(list, alloc)
         /\ out' = Copied(list, alloc)
         /\ nr' = Len(list)
         /\ IF MustRepeat(Len(list))
              THEN /\ pc' = "again"
                   /\ alloc' = Len(list)
                   /\ array' = "held"
                   /\ UNCHANGED ret
              ELSE /\ Return(IF call.fn = "report_domains" THEN Len(list) ELSE 0,
                             IF call.fn = "list_domains" THEN "given"
                             ELSE IF array = "held" THEN "freed" ELSE array)
                   /\ UNCHANGED alloc
  /\ Stays
  /\ UNCHANGED <<types, failed>>

\* The second command.  The number returned is again the number of all
\* matching domains, whatever the array holds.
AgainDomains ==
  /\ pc = "again"
  /\ LET list == DomainList(call.from, call.ro)
     IN  /\ ~UnknownType(list, alloc)
         /\ out' = Copied(list, alloc)
         /\ nr' = IF call.fn = "zone_types" THEN nr ELSE Len(list)
  /\ Return(0, IF call.fn = "list_domains" THEN "given" ELSE "freed")
  /\ Stays
  /\ UNCHANGED <<alloc, types, failed>>

\* A domain report fails, or it reports a domain of an unknown type.  The
\* zone type scan turns a failure of its first report into -ENXIO.
DomainsFail ==
  /\ pc \in {"domains", "again"}
  /\ \E why \in {EIO, ENOMEM, EINVAL} :
       /\ why = EINVAL =>
            UnknownType(DomainList(call.from, call.ro), alloc)
       /\ Return(IF call.fn = "zone_types" /\ pc = "domains" THEN ENXIO ELSE why,
                 OnError)
  /\ failed' = TRUE
  /\ Stays
  /\ UNCHANGED <<alloc, out, nr, types>>

\* calloc fails, for the first array or after the first report.
NoMemory ==
  /\ \/ pc = "call" /\ Applies /\ call.fn \in {"list_domains", "domain_info"}
     \/ /\ pc = "domains"
        /\ LET list == DomainList(call.from, call.ro)
           IN  ~UnknownType(list, alloc) /\ MustRepeat(Len(list))
     \/ pc = "allocrealms"
  /\ Return(ENOMEM, IF array = "held" THEN "freed" ELSE "none")
  /\ failed' = TRUE
  /\ Stays
  /\ UNCHANGED <<alloc, out, nr, types>>

(***************************************************************************)
(* Realms.  The drivers report the domains first, for the zone types of    *)
(* realms, then the realms.  A list does that twice, first to count all    *)
(* realms.                                                                 *)
(***************************************************************************)
TypesNext == IF pc = "counttypes" THEN "countrealms" ELSE "realms"

\* Mutant of KnownTypes: one domain less is asked for.
KnownTypesFew == Least(dev.domains, NrTypes - 1)

\* The domains that the driver can tell the type of.
KnownTypes == Least(dev.domains, NrTypes)

RealmTypes ==
  /\ pc \in {"counttypes", "realmtypes"}
  /\ \A k \in 1..KnownTypes : DomainType[k] \in ValidTypes
  /\ pc' = TypesNext
  /\ types' = KnownTypes
  /\ Stays
  /\ UNCHANGED <<buffers, ret, failed>>

\* The domain report fails: *nr_realms is left as it is.
RealmTypesFail ==
  /\ pc \in {"counttypes", "realmtypes"}
  /\ \E why \in {EIO, ENOMEM, EINVAL} :
       /\ why = EINVAL => \E k \in 1..KnownTypes : DomainType[k] \notin ValidTypes
       /\ Return(why, OnError)
  /\ failed' = TRUE
  /\ Stays
  /\ UNCHANGED <<alloc, out, nr, types>>

\* Mutant of CountedRealms: the count has the options of the list.
CountedByOption == Len(RealmList(1, call.ro))

CountedRealms == Len(RealmList(1, "all"))

CountRealms ==
  /\ pc = "countrealms"
  /\ nr' = CountedRealms
  /\ IF call.fn = "nr_realms"
       THEN Return(0, "none") /\ UNCHANGED alloc
       ELSE /\ pc' = "allocrealms"
            /\ alloc' = CountedRealms
            /\ UNCHANGED <<ret, array>>
  /\ Stays
  /\ UNCHANGED <<out, types, failed>>

AllocRealms ==
  /\ pc = "allocrealms"
  /\ pc' = "realmtypes"
  /\ array' = "held"
  /\ Stays
  /\ UNCHANGED <<alloc, out, nr, types, ret, failed>>

\* REPORT REALMS fails, after the domain report: *nr_realms becomes 0.
RealmsFail ==
  /\ pc \in {"countrealms", "realms"}
  /\ \E why \in {EIO, ENOMEM} :
       /\ Return(why, OnError)
       /\ nr' = IF why = ENOMEM THEN nr ELSE 0
  /\ failed' = TRUE
  /\ Stays
  /\ UNCHANGED <<alloc, out, types>>

\* The descriptor of a realm: its active domain and that domain's type,
\* "unset" if the driver has no room for the domain, and the domains that
\* it can be activated in, as far as the driver knows them.
Descriptor(r) ==
  [realm |-> r, dom |-> active[r],
   type |-> IF active[r] <= types THEN DomainType[active[r]] ELSE "unset",
   can |-> {d \in RealmDomains[r] \cap Domains : dev.format = "old" \/ d <= types}]

\* The descriptors a reply has room for: the buffer for the array, rounded
\* up to 512 B, unless a command cannot carry that much.
Slots == Least(dev.slots, (alloc \div RealmUnit) * RealmUnit + RealmUnit - 1)

\* Mutant of RealmsFilled: the size of the array is forgotten.
RealmsFilledAll(total) == Least(total, Slots)

\* (The ATA driver leaves Slots out for a device that claims the standard
\* format and replies with a descriptor length of 0; no device here does.)
RealmsFilled(total) == Least(Least(total, alloc), Slots)

\* In the standard format a reply without room for all realms has a next
\* realm locator, which the library does not support.  (The test for the
\* old format in zbc_scsi_report_realms never fires: that driver takes
\* every device with realms for one with the standard format.)
Unsupported(total) == dev.format = "standard" /\ total > Slots

ReportRealms ==
  /\ pc = "realms"
  /\ LET list  == RealmList(call.from, call.ro)
         total == Len(list)
     IN  IF Unsupported(total)
           THEN /\ Return(ENXIO, OnError)
                /\ nr' = Least(total, alloc)
                /\ UNCHANGED out
           ELSE /\ nr' = RealmsFilled(total)
                /\ out' = [k \in 1..RealmsFilled(total) |-> Descriptor(list[k])]
                /\ Return(0, IF array = "held" THEN "given" ELSE array)
  /\ Stays
  /\ UNCHANGED <<alloc, types, failed>>

(***************************************************************************)
(* The specification.                                                      *)
(***************************************************************************)
Init ==
  /\ dev \in Devices
  /\ call \in Calls
  /\ call.fn = "zone_types" => dev.drv = "scsi"
  /\ active \in [Realms -> Domains]
  /\ \A r \in Realms : active[r] \in RealmDomains[r]
  /\ pc = "call"
  /\ alloc = 0 /\ out = <<>> /\ nr = 0 /\ types = 0
  /\ ret = 0 /\ array = "none" /\ failed = FALSE
  /\ lasting = IF call.fn \in RealmFns
                 THEN {r \in Realms : RealmMatches(r, call.from, call.ro)} ELSE {}
  /\ changes = 0

CallStep ==
  \/ NotSupported \/ NoReportRealms \/ Begin
  \/ FirstDomains \/ AgainDomains \/ DomainsFail \/ NoMemory
  \/ RealmTypes \/ RealmTypesFail \/ CountRealms \/ AllocRealms
  \/ RealmsFail \/ ReportRealms

Next == CallStep \/ \E r \in Realms, d \in Domains : Activate(r, d)

Spec == Init /\ [][Next]_vars

(***************************************************************************)
(* Properties.                                                             *)
(***************************************************************************)
\* The type of the state; the driver has zone types for no more domains than
\* its descriptors of a realm have items for.
TypeOK ==
  /\ dev \in Devices
  /\ active \in [Realms -> Domains]
  /\ call \in Calls
  /\ pc \in {"call", "domains", "again", "counttypes", "countrealms",
             "allocrealms", "realmtypes", "realms", "done"}
  /\ alloc \in Nat /\ nr \in Nat /\ ret \in Int
  /\ Len(out) \in Nat
  /\ types \in 0..NrTypes
  /\ array \in {"none", "held", "freed", "given", "user"}
  /\ failed \in BOOLEAN
  /\ lasting \subseteq Realms
  /\ changes \in 0..MaxChanges

\* A call of one of these functions that ended well and sent commands.
Succeeded(fns) == pc = "done" /\ call.fn \in fns /\ ret >= 0 /\ Applies

\* No report fills more descriptors than the array holds that is there at
\* that moment, although others change how many match between allocation
\* and command; and realm reports return the number of descriptors filled.
ArrayHolds ==
  /\ Len(out) <= alloc
  /\ Succeeded({"list_realms", "report_realms"}) => nr = Len(out)

\* zbc_list_domains returns every matching domain and their number, with
\* one command or two.  (With options that depend on activation, another
\* initiator can make more domains match between the two commands, and the
\* number returned then exceeds the array: such calls are excepted.)  A
\* report into the caller's array fills what it has room for.
DomainsComplete ==
  /\ Succeeded({"list_domains"}) /\ (changes = 0 \/ call.ro = "all")
       => out = DomainList(call.from, call.ro) /\ nr = Len(out)
  /\ Succeeded({"report_domains"}) => Len(out) = Least(ret, call.size)

\* The scans of the library see the zone type of every domain, if the 512 B
\* that a command is given before READ CAPACITY hold them all.
TypesGathered ==
  Succeeded({"zone_types", "domain_info"})
    /\ (call.fn = "zone_types" => dev.domains <= EarlySlots)
    => Gathered = {DomainType[d] : d \in Domains}

\* zbc_list_zone_realms loses no realm: it contains every realm that matched
\* throughout the call.  The count of all realms that it allocates for is
\* enough whatever others activate, and a reply that is cut short is an
\* error (in the standard format).
RealmsComplete ==
  Succeeded({"list_realms"}) /\ (dev.format = "standard" \/ NrRealms <= dev.slots)
    => lasting \subseteq {out[k].realm : k \in 1..Len(out)}

\* The zone type in the descriptor of a realm is that of the domain which
\* the realm is active in, as long as that is one of the first domains,
\* although domains and realms are read by different commands.
RealmTypesRight ==
  Succeeded({"list_realms", "report_realms"})
    => \A k \in 1..Len(out) :
         out[k].dom <= NrTypes => out[k].type = DomainType[out[k].dom]

\* An error of any command or allocation reaches the caller, which is given
\* no array; none stays allocated but that of the zone type scan.
ErrorsSurface ==
  pc = "done" =>
    /\ failed => ret < 0
    /\ ret < 0 => array /= "given"
    /\ array = "held" => failed /\ call.fn = "zone_types"

(***************************************************************************)
(* What the proofs need: who is at which step, with which array.           *)
(***************************************************************************)
\* The functions that come to a step, and what becomes of their array.
Stage ==
  /\ pc = "call" => array = "none"
  /\ pc = "domains" =>
       call.fn \in DomainFns /\ alloc = FirstArray.size /\ array = FirstArray.is
  /\ pc = "again" =>
       call.fn \in {"list_domains", "zone_types", "domain_info"} /\ array = "held"
  /\ pc \in {"counttypes", "countrealms"} =>
       call.fn \in {"list_realms", "nr_realms"} /\ array = "none"
  /\ pc = "allocrealms" => call.fn = "list_realms" /\ array = "none"
  /\ pc \in {"realmtypes", "realms"} =>
       \/ call.fn = "list_realms" /\ array = "held"
       \/ call.fn = "report_realms" /\ array = "user"

\* Nothing is delivered and nothing has failed before the last command; the
\* array of a second command has the size that the first one found.
Underway ==
  /\ pc \notin {"again", "done"} => out = <<>>
  /\ pc /= "done" => ~failed
  /\ pc = "again" /\ (changes = 0 \/ call.ro = "all")
       => alloc = Len(DomainList(call.from, call.ro))
  /\ pc \in {"allocrealms", "realmtypes", "realms"} /\ call.fn = "list_realms"
       => alloc = NrRealms
  /\ pc = "realms" => types = KnownTypes

\* The realms that matched all the time match now.
StillMatch ==
  call.fn \in RealmFns => \A r \in lasting : RealmMatches(r, call.from, call.ro)

IndInv ==
  /\ TypeOK /\ Stage /\ Underway /\ StillMatch
  /\ ArrayHolds /\ DomainsComplete /\ TypesGathered
  /\ RealmsComplete /\ RealmTypesRight /\ ErrorsSurface
=============================================================================
