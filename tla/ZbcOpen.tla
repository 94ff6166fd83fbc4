------------------------------ MODULE ZbcOpen ------------------------------
(***************************************************************************)
(* Finding and opening a device: zbc_open, zbc_device_is_zoned and         *)
(* zbc_close, which try the backend drivers SCSI and ATA in this order,    *)
(* and what each driver's open does: open the file, wait until the unit is *)
(* ready, classify the device, read its characteristics and its capacity.  *)
(* A program makes these calls one after the other on one device file.     *)
(*                                                                         *)
(* The device is a profile: what it is and what of it the two command sets *)
(* show.  Any command and any allocation may fail.                         *)
(***************************************************************************)
EXTENDS ZbcErrorCodes, Sequences

CONSTANTS
  Profiles,      \* the devices tried, see Profile
  Flags,         \* the ZBC_O_DRV_ flags tried: sets of drivers
  TestModes,     \* whether calls use ZBC_O_DEVTEST: values tried
  FdLimit,       \* open files the process may have
  Attentions,    \* numbers of unit attentions pending when a call is made
  MaxLost,       \* bound: calls are made while fewer arrays were lost
  Faults         \* whether commands and allocations may fail

Drivers == <<"scsi", "ata">>

DriverSet == {"scsi", "ata"}

(***************************************************************************)
(* node: a block or character device.  truth: what the device is.  For     *)
(* SCSI commands: the peripheral device type, the ZONED field of VPD page  *)
(* B1h, whether pages 89h (an ATA device) and B6h exist, the ZBD extension *)
(* of B6h and whether REPORT ZONE DOMAINS is translated.  For ATA ones:    *)
(* whether they get through, the signature, the ZONED field and the zone   *)
(* domains and zone realms bits of the logs.  Then: unrestricted reads, reads through the  *)
(* SCSI translation, and the sense data format of unit attentions.         *)
(***************************************************************************)
Profile ==
  [node : BOOLEAN, truth : {"hm", "ha", "zd", "dm", "standard"},
   type : {"hm", "std", "other"}, zoned : 0..3, page89 : BOOLEAN,
   pageB6 : BOOLEAN, ext : 0..2, domains : BOOLEAN,
   ata : BOOLEAN, sig : {"hm", "std", "other"}, azoned : 0..3,
   azd : SUBSET {"domains", "realms"},
   uread : BOOLEAN, sat : BOOLEAN, sense : {"fixed", "descriptor"}]

ZonedKinds == {"hm", "ha", "zd"}

(***************************************************************************)
(* What the standards make a zoned device of a kind look like: to SCSI     *)
(* commands (SPC, SBC, ZBC), whether REPORT ZONE DOMAINS works or not, and *)
(* to ATA commands (ACS, ZAC).                                             *)
(***************************************************************************)
ScsiTells(p, kind) ==
  /\ p.pageB6
  /\ p.type = "hm" \/ (p.type = "std" /\ p.zoned \in {0, 1})
  /\ CASE kind = "zd" -> p.ext = 2
       [] kind = "hm" -> p.ext /= 2 /\ p.type = "hm"
       [] kind = "ha" -> /\ p.ext /= 2 /\ p.type = "std"
                         /\ p.zoned = 1 \/ p.ext = 1

AtaTells(p, kind) ==
  /\ p.ata
  /\ CASE kind = "zd" -> p.sig = "std" /\ p.azoned = 0 /\ p.azd /= {}
       [] kind = "hm" -> p.sig = "hm" /\ p.azd = {}
       [] kind = "ha" -> p.sig = "std" /\ p.azoned = 1 /\ p.azd = {}

\* Neither command set shows a zoned device that the device is not.
Honest(p) ==
  \A kind \in ZonedKinds :
    ScsiTells(p, kind) \/ AtaTells(p, kind) => p.truth = kind

\* A zoned SCSI device shows itself to SCSI commands.  A zoned ATA device
\* shows itself to ATA commands and, as SAT has it, its page 89h to SCSI
\* ones; the rest of it, REPORT ZONE DOMAINS included, may be translated, or
\* page B6h is missing (ZONED = 3 is reserved).
Visible(p) ==
  p.truth \in ZonedKinds =>
    /\ p.node
    /\ IF p.page89
         THEN /\ AtaTells(p, p.truth)
              /\ \/ ScsiTells(p, p.truth)
                 \/ ~p.pageB6 /\ (p.type = "std" => p.zoned /= 3)
         ELSE ScsiTells(p, p.truth) /\ p.domains

ASSUME DeviceAssumption == \A p \in Profiles : Honest(p) /\ Visible(p)

ASSUME OpenAssumption ==
  /\ Profiles \subseteq Profile
  /\ Flags \subseteq SUBSET DriverSet
  /\ TestModes \subseteq BOOLEAN
  /\ FdLimit \in Nat \ {0}
  /\ Attentions \subseteq Nat
  /\ MaxLost \in Nat \ {0}
  /\ Faults \in BOOLEAN

VARIABLES
  dev,        \* the device's profile
  attention,  \* unit attentions the device will still report
  pc,         \* where the call is
  call,       \* the call: function, allowed drivers, test mode
  drv,        \* index of the driver being tried
  retries,    \* zbc_sg_test_unit_ready: commands left to try
  isata,      \* ZBC_IS_ATA, of the SCSI driver
  model,      \* zbd_model
  zdr,        \* which of zone domains and zone realms zbd_flags has
  sbc,        \* ZBC_ATA_USE_SBC
  ret,        \* the value the driver, then the library, returned
  fds,        \* open files of the process
  arrays,     \* domain arrays allocated
  held,       \* handles the program got and has not closed
  fault,      \* history: something failed during this call
  domFault,   \* history: a domain report failed at some time
  noticed     \* history: an attention was met by a command of this call

devVars == <<isata, model, zdr, sbc>>
vars == <<dev, attention, pc, call, drv, retries, devVars, ret, fds, arrays,
          held, fault, domFault, noticed>>

Handle == [drv : DriverSet, model : {"hm", "ha"}, sbc : BOOLEAN,
           zdr : SUBSET {"domains", "realms"}, allow : SUBSET DriverSet,
           test : BOOLEAN]

Calls ==
  [fn : {"open"}, allow : Flags, test : TestModes]
    \cup [fn : {"is_zoned"}, allow : {DriverSet}, test : {FALSE}]

Driver == Drivers[drv]

Goto(label) == pc' = label

\* The driver's open fails with e: it frees the descriptor and closes the
\* file.  zbc_ata_open reports every device error as -ENXIO.
DriverFails(e) ==
  /\ Goto("tried")
  /\ ret' = IF Driver = "ata" THEN ENXIO ELSE e
  /\ fds' = fds - 1

Stays == UNCHANGED <<dev, call, drv, held>>

(***************************************************************************)
(* Calls.                                                                  *)
(***************************************************************************)
Call(c) ==
  /\ pc = "idle"
  /\ arrays < MaxLost
  /\ call' = c
  /\ \E a \in Attentions : attention' = a
  /\ drv' = 1
  /\ isata' = FALSE /\ model' = "unknown" /\ zdr' = {} /\ sbc' = FALSE
  /\ ret' = ENODEV
  /\ fault' = FALSE /\ noticed' = FALSE
  /\ Goto("path")
  /\ UNCHANGED <<dev, retries, fds, arrays, held, domFault>>

\* zbc_realpath.
Realpath ==
  /\ pc = "path"
  /\ Goto("probe")
  /\ UNCHANGED <<dev, attention, call, drv, retries, devVars, ret, fds, arrays,
                 held, fault, domFault, noticed>>

RealpathFails ==
  /\ pc = "path"
  /\ Faults
  /\ ret' = EACCES
  /\ fault' = TRUE
  /\ Goto("return")
  /\ UNCHANGED <<dev, attention, call, drv, retries, devVars, fds, arrays,
                 held, domFault, noticed>>

\* The loop over the drivers; an empty set of flags allows them all.
Allowed(d) == call.allow = {} \/ d \in call.allow

SkipDriver ==
  /\ pc = "probe"
  /\ drv <= Len(Drivers)
  /\ ~Allowed(Driver)
  /\ drv' = drv + 1
  /\ UNCHANGED <<dev, attention, pc, call, retries, devVars, ret, fds, arrays,
                 held, fault, domFault, noticed>>

(***************************************************************************)
(* The drivers' open functions.                                            *)
(***************************************************************************)
OpenFile ==
  /\ pc = "probe"
  /\ drv <= Len(Drivers)
  /\ Allowed(Driver)
  /\ IF fds >= FdLimit
       THEN /\ ret' = EMFILE
            /\ fault' = TRUE
            /\ Goto("tried")
            /\ UNCHANGED fds
       ELSE /\ fds' = fds + 1
            /\ Goto("stat")
            /\ UNCHANGED <<ret, fault>>
  /\ Stays
  /\ UNCHANGED <<attention, retries, devVars, arrays, domFault, noticed>>

OpenFileFails ==
  /\ pc = "probe"
  /\ Faults
  /\ drv <= Len(Drivers)
  /\ Allowed(Driver)
  /\ \E e \in {EACCES, ENXIO} : ret' = e
  /\ fault' = TRUE
  /\ Goto("tried")
  /\ Stays
  /\ UNCHANGED <<attention, retries, devVars, fds, arrays, domFault, noticed>>

\* fstat and the node type, which the ATA driver does not remap, then the
\* device descriptor.
Stat ==
  /\ pc = "stat"
  /\ IF dev.node
       THEN /\ Goto("ready")
            /\ retries' = 5
            /\ isata' = FALSE /\ model' = "unknown" /\ zdr' = {} /\ sbc' = FALSE
            /\ UNCHANGED <<ret, fds>>
       ELSE /\ DriverFails(ENXIO)
            /\ UNCHANGED <<retries, devVars>>
  /\ Stays
  /\ UNCHANGED <<attention, arrays, fault, domFault, noticed>>

\* Mutant of StatFails: the file stays open.
StatFailsOpen ==
  /\ pc = "stat"
  /\ Faults
  /\ \E e \in {EACCES, ENOMEM} : ret' = e
  /\ fault' = TRUE
  /\ Goto("tried")
  /\ Stays
  /\ UNCHANGED <<attention, retries, devVars, fds, arrays, domFault, noticed>>

StatFails ==
  /\ pc = "stat"
  /\ Faults
  /\ \E e \in {EACCES, ENOMEM} : ret' = e
  /\ fds' = fds - 1
  /\ fault' = TRUE
  /\ Goto("tried")
  /\ Stays
  /\ UNCHANGED <<attention, retries, devVars, arrays, domFault, noticed>>

\* zbc_sg_test_unit_ready.  A unit attention ends with the command that
\* reports it; the loop knows it by byte 2 of the sense data, which is the
\* sense key in the fixed format only.
Ready ==
  /\ pc = "ready"
  /\ attention = 0
  /\ Goto("identify")
  /\ Stays
  /\ UNCHANGED <<attention, retries, devVars, ret, fds, arrays, fault, domFault,
                 noticed>>

Attention ==
  /\ pc = "ready"
  /\ attention > 0
  /\ attention' = attention - 1
  /\ retries' = retries - 1
  /\ noticed' = TRUE
  /\ IF dev.sense = "fixed" /\ retries > 1
       THEN UNCHANGED <<pc, ret, fds>>
       ELSE DriverFails(EIO)
  /\ Stays
  /\ UNCHANGED <<devVars, arrays, fault, domFault>>

\* Mutant of NotThisDriver: an ATA device is not left to the ATA driver.
NotThisDevice == EIO

NotThisDriver == IF isata THEN ENXIO ELSE EIO

\* Another command of the driver's open, or TEST UNIT READY, or an
\* allocation fails; EIO stands for every error but -ENXIO.  Page lists
\* that cannot be read show no page.
CommandErrors ==
  CASE pc = "classify" -> {EIO, NotThisDriver}
    [] pc = "characteristics" -> {ENXIO, ENOMEM}
    [] OTHER -> {EIO, ENXIO}

CommandFails ==
  /\ pc \in {"ready", "identify", "classify", "characteristics", "capacity"}
  /\ Faults
  /\ fault' = TRUE
  /\ \E e \in CommandErrors : DriverFails(e)
  /\ Stays
  /\ UNCHANGED <<attention, retries, devVars, arrays, domFault, noticed>>

\* Transport errors of TEST UNIT READY that the loop retries.
SoftError ==
  /\ pc = "ready"
  /\ Faults
  /\ fault' = TRUE
  /\ retries' = retries - 1
  /\ IF retries > 1
       THEN UNCHANGED <<pc, ret, fds>>
       ELSE DriverFails(EIO)
  /\ Stays
  /\ UNCHANGED <<attention, devVars, arrays, domFault, noticed>>

(***************************************************************************)
(* zbc_scsi_classify and zbc_ata_classify: the model, or the error.  The   *)
(* SCSI driver first looks whether page 89h makes this an ATA device.      *)
(***************************************************************************)
Identify ==
  /\ pc = "identify"
  /\ isata' = (Driver = "scsi" /\ dev.page89)
  /\ Goto("classify")
  /\ Stays
  /\ UNCHANGED <<attention, retries, model, zdr, sbc, ret, fds, arrays, fault,
                 domFault, noticed>>

IdentifyFails ==
  /\ pc = "identify"
  /\ Driver = "scsi"
  /\ Faults
  /\ fault' = TRUE
  /\ Goto("classify")
  /\ Stays
  /\ UNCHANGED <<attention, retries, devVars, ret, fds, arrays, domFault, noticed>>

ScsiModel ==
  IF dev.type = "hm" THEN "hm"
    ELSE IF dev.zoned = 1 THEN "ha" ELSE "standard"

ScsiClass ==
  CASE dev.type = "other" -> ENXIO
    [] dev.type = "hm" /\ call.test /\ dev.zoned /= 0 -> NotThisDriver
    [] dev.type = "std" /\ dev.zoned = 2 -> ENXIO
    [] dev.type = "std" /\ dev.zoned = 3 -> EIO
    [] OTHER -> IF dev.pageB6 THEN 0 ELSE NotThisDriver

\* Mutant of AtaModel: the ZONED field goes before the signature.
AtaModelByField ==
  IF dev.azoned = 1 THEN "ha"
    ELSE IF dev.sig = "hm" THEN "hm" ELSE "standard"

AtaModel ==
  IF dev.sig = "hm" THEN "hm"
    ELSE IF dev.azoned = 1 THEN "ha" ELSE "standard"

AtaClass ==
  CASE ~dev.ata \/ dev.sig = "other" -> ENXIO
    [] dev.sig = "hm" /\ call.test /\ dev.azoned /= 0 -> EIO
    [] dev.sig = "std" /\ dev.azoned = 2 -> ENXIO
    [] dev.sig = "std" /\ dev.azoned = 3 -> EIO
    [] OTHER -> 0

Classify ==
  /\ pc = "classify"
  /\ LET class == IF Driver = "scsi" THEN ScsiClass ELSE AtaClass
     IN  IF class = 0
           THEN /\ model' = IF Driver = "scsi" THEN ScsiModel ELSE AtaModel
                /\ Goto("characteristics")
                /\ UNCHANGED <<ret, fds>>
           ELSE /\ DriverFails(class)
                /\ UNCHANGED model
  /\ Stays
  /\ UNCHANGED <<attention, retries, isata, zdr, sbc, arrays, fault, domFault,
                 noticed>>

(***************************************************************************)
(* zbc_scsi_get_zbd_characteristics and zbc_ata_get_zoned_device_info.     *)
(***************************************************************************)
ScsiZdr == IF dev.ext = 2 THEN {"domains", "realms"} ELSE {}

ScsiFinalModel ==
  IF dev.ext = 2 THEN "hm"
    ELSE IF model = "standard" /\ dev.ext = 1 THEN "ha" ELSE model

ScsiCharacteristics ==
  /\ pc = "characteristics"
  /\ Driver = "scsi"
  /\ IF ScsiFinalModel = "standard" \/ (ScsiZdr /= {} /\ ~dev.domains)
       THEN /\ DriverFails(ENXIO)
            /\ UNCHANGED <<devVars, arrays>>
       ELSE /\ model' = ScsiFinalModel
            /\ zdr' = ScsiZdr
            /\ Goto(IF ScsiZdr /= {} THEN "types" ELSE "capacity")
            /\ arrays' = IF ScsiZdr /= {} THEN arrays + 1 ELSE arrays
            /\ UNCHANGED <<isata, sbc, ret, fds>>
  /\ Stays
  /\ UNCHANGED <<attention, retries, fault, domFault, noticed>>

\* The second domain report, for the zone types of all domains: if it
\* fails, its array is not freed.
ZoneTypes ==
  /\ pc = "types"
  /\ Goto("capacity")
  /\ arrays' = arrays - 1
  /\ Stays
  /\ UNCHANGED <<attention, retries, devVars, ret, fds, fault, domFault, noticed>>

ZoneTypesFail ==
  /\ pc = "types"
  /\ Faults
  /\ fault' = TRUE
  /\ domFault' = TRUE
  /\ DriverFails(EIO)
  /\ Stays
  /\ UNCHANGED <<attention, retries, devVars, arrays, noticed>>

AtaCharacteristics ==
  /\ pc = "characteristics"
  /\ Driver = "ata"
  /\ IF dev.azd /= {}
       THEN IF model = "standard"
              THEN /\ model' = "hm"
                   /\ zdr' = dev.azd
                   /\ Goto("capacity")
                   /\ UNCHANGED <<ret, fds>>
              ELSE DriverFails(EINVAL) /\ UNCHANGED <<model, zdr>>
       ELSE IF model = "standard"
              THEN DriverFails(ENXIO) /\ UNCHANGED <<model, zdr>>
              ELSE Goto("capacity") /\ UNCHANGED <<model, zdr, ret, fds>>
  /\ Stays
  /\ UNCHANGED <<attention, retries, isata, sbc, arrays, fault, domFault,
                 noticed>>

(***************************************************************************)
(* zbc_ata_test_sbc_sat: read 4096 bytes through the SCSI translation.     *)
(* The vector handed to zbc_scsi_preadv has the length 4096 >> 9 where     *)
(* that function takes bytes; it returns whole sectors.                    *)
(***************************************************************************)
zbc_scsi_preadv(bytes) == bytes \div 512

SatReads == dev.sat /\ zbc_scsi_preadv(4096 \div 512) = 8

\* Capacity and command limits; then the ATA driver looks for a working
\* translation and makes sure that sense data is reported.
Capacity ==
  /\ pc = "capacity"
  /\ sbc' = ( /\ Driver = "ata"
              /\ ~call.test
              /\ zdr /= {} \/ (dev.uread /\ SatReads) )
  /\ ret' = 0
  /\ Goto("tried")
  /\ Stays
  /\ UNCHANGED <<attention, retries, isata, model, zdr, fds, arrays, fault,
                 domFault, noticed>>

(***************************************************************************)
(* Back in zbc_open and zbc_device_is_zoned.                               *)
(***************************************************************************)
\* Mutant of NextDriver: the same driver is tried again.
SameDriver ==
  /\ pc = "tried"
  /\ ret = ENXIO
  /\ Goto("probe")
  /\ UNCHANGED <<dev, attention, call, drv, retries, devVars, ret, fds, arrays,
                 held, fault, domFault, noticed>>

NextDriver ==
  /\ pc = "tried"
  /\ ret = ENXIO
  /\ drv' = drv + 1
  /\ Goto("probe")
  /\ UNCHANGED <<dev, attention, call, retries, devVars, ret, fds, arrays,
                 held, fault, domFault, noticed>>

\* zbc_device_is_zoned turns "no driver" into 0.
NoDriver ==
  /\ \/ pc = "probe" /\ drv > Len(Drivers)
     \/ pc = "tried" /\ ret \notin {0, ENXIO}
  /\ ret' = IF call.fn = "is_zoned" /\ pc = "probe" THEN 0 ELSE ret
  /\ Goto("return")
  /\ Stays
  /\ UNCHANGED <<attention, retries, devVars, fds, arrays, fault, domFault,
                 noticed>>

\* zbc_get_domain_info reports the domains of a zone realms device; then
\* zbc_open returns the handle and zbc_device_is_zoned closes it.
Accepted ==
  /\ pc = "tried"
  /\ ret = 0
  /\ IF call.fn = "open"
       THEN /\ held' = Append(held, [drv |-> Driver, model |-> model,
                               sbc |-> sbc, zdr |-> zdr, allow |-> call.allow,
                               test |-> call.test])
            /\ UNCHANGED <<ret, fds>>
       ELSE /\ ret' = 1
            /\ fds' = fds - 1
            /\ UNCHANGED held
  /\ Goto("return")
  /\ UNCHANGED <<dev, attention, call, drv, retries, devVars, arrays, fault,
                 domFault, noticed>>

\* The domain report fails: zbc_open returns the error, zbc_device_is_zoned
\* returns 0, and neither closes the device.
DomainInfoFails ==
  /\ pc = "tried"
  /\ ret = 0
  /\ "realms" \in zdr
  /\ Faults
  /\ ret' = IF call.fn = "open" THEN EIO ELSE 0
  /\ fault' = TRUE
  /\ domFault' = TRUE
  /\ Goto("return")
  /\ Stays
  /\ UNCHANGED <<attention, retries, devVars, fds, arrays, noticed>>

\* The call's own state is gone.
Return ==
  /\ pc = "return"
  /\ Goto("idle")
  /\ attention' = 0
  /\ drv' = 1 /\ retries' = 5
  /\ isata' = FALSE /\ model' = "unknown" /\ zdr' = {} /\ sbc' = FALSE
  /\ ret' = 0
  /\ fault' = FALSE /\ noticed' = FALSE
  /\ UNCHANGED <<dev, call, fds, arrays, held, domFault>>

\* zbc_close.
Close ==
  /\ pc = "idle"
  /\ held /= <<>>
  /\ held' = Tail(held)
  /\ fds' = fds - 1
  /\ UNCHANGED <<dev, attention, pc, call, drv, retries, devVars, ret, arrays,
                 fault, domFault, noticed>>

Init ==
  /\ dev \in Profiles
  /\ attention = 0
  /\ pc = "idle"
  /\ call \in Calls
  /\ drv = 1 /\ retries = 5
  /\ isata = FALSE /\ model = "unknown" /\ zdr = {} /\ sbc = FALSE
  /\ ret = 0 /\ fds = 0 /\ arrays = 0 /\ held = <<>>
  /\ fault = FALSE /\ domFault = FALSE /\ noticed = FALSE

CallStep ==
  \/ Realpath \/ RealpathFails \/ SkipDriver \/ OpenFile \/ OpenFileFails
  \/ Stat \/ StatFails \/ Ready \/ Attention \/ CommandFails \/ SoftError
  \/ Identify \/ IdentifyFails \/ Classify \/ ScsiCharacteristics \/ ZoneTypes \/ ZoneTypesFail
  \/ AtaCharacteristics \/ Capacity \/ NextDriver \/ NoDriver \/ Accepted
  \/ DomainInfoFails \/ Return

Next == CallStep \/ Close \/ \E c \in Calls : Call(c)

Spec == Init /\ [][Next]_vars

\* A call, once made, runs on; the program need not make one.
FairSpec == Spec /\ WF_vars(CallStep)

(***************************************************************************)
(* Properties.                                                             *)
(***************************************************************************)
\* The type of the library's and the program's state.
TypeOK ==
  /\ dev \in Profiles
  /\ \E a \in Attentions \cup {0} : attention \in 0..a
  /\ pc \in {"idle", "path", "probe", "stat", "ready", "identify", "classify",
             "characteristics", "types", "capacity", "tried", "return"}
  /\ call \in Calls
  /\ drv \in 1..(Len(Drivers) + 1)
  /\ retries \in 0..5
  /\ isata \in BOOLEAN
  /\ model \in {"unknown", "hm", "ha", "standard"}
  /\ zdr \in SUBSET {"domains", "realms"}
  /\ sbc \in BOOLEAN
  /\ ret \in {0, 1, EIO, ENXIO, ENOMEM, EACCES, ENODEV, EMFILE}
  /\ fds \in 0..FdLimit
  /\ arrays \in 0..MaxLost
  /\ held \in Seq(Handle)
  /\ fault \in BOOLEAN /\ domFault \in BOOLEAN /\ noticed \in BOOLEAN

ZonedDevice == dev.truth \in ZonedKinds

AllDrivers == call.allow \in {{}, DriverSet}

\* A call that met no fault, in normal mode and with all drivers allowed.
CleanCall == pc = "return" /\ ~fault /\ ~call.test /\ AllDrivers

Succeeded == ret = IF call.fn = "open" THEN 0 ELSE 1

\* Unit attentions that the retries of TEST UNIT READY should get over.
FewAttentions == ~noticed \/ (dev.sense = "fixed" /\ retries > 0)

\* Between calls the process has one open file for every handle that it
\* holds, and no domain array, whichever driver failed at whichever command:
\* every error path of the drivers' open functions releases what it took.
\* The two paths after a failed domain report are excepted, see NoLeakAtAll.
NoLeak == pc = "idle" /\ ~domFault => fds = Len(held) /\ arrays = 0

\* Trying the SCSI driver, then the ATA driver, finds out whether the device
\* is zoned: without a fault, zbc_open and zbc_device_is_zoned succeed on
\* every zoned device, however much of it the SCSI translation shows beyond
\* page 89h, and on no other one.
DetectsZoned == CleanCall /\ FewAttentions => (Succeeded <=> ZonedDevice)

\* A handle has the model and the zone domains support of the device and
\* belongs to an allowed driver, also when a driver gave up before on the
\* same device or commands failed on the way.
HandleIsDevice ==
  \A i \in 1..Len(held) :
    /\ held[i].allow = {} \/ held[i].drv \in held[i].allow
    /\ ZonedDevice
    /\ held[i].model = "ha" <=> dev.truth = "ha"
    /\ held[i].zdr /= {} <=> dev.truth = "zd"

\* Every call returns: no driver is tried for ever, TEST UNIT READY is not
\* repeated for ever.
CallReturns == (pc /= "idle") ~> (pc = "idle")

\* What zbc_open and zbc_device_is_zoned take they give back or hand over,
\* after failed domain reports too.
NoLeakAtAll == pc = "idle" => fds = Len(held) /\ arrays = 0

(***************************************************************************)
(* What makes the three invariants inductive.                              *)
(***************************************************************************)
\* The driver's open runs, with the device file open.
Inside == pc \in {"stat", "ready", "identify", "classify", "characteristics",
                  "types", "capacity"}

HasFile == Inside \/ (pc = "tried" /\ ret = 0)

\* A file for every handle and one for the driver at work, an array while
\* the zone types are reported; more only after a failed domain report.
Resources ==
  LET files == Len(held) + (IF HasFile THEN 1 ELSE 0)
      needed == IF pc = "types" THEN 1 ELSE 0
  IN  /\ fds >= files /\ arrays >= needed
      /\ ~domFault => fds = files /\ arrays = needed
      /\ Inside /\ pc /= "types" => arrays < MaxLost
      /\ pc \in {"path", "probe"} => arrays < MaxLost
      /\ pc = "tried" /\ ret = ENXIO => arrays < MaxLost

\* Which driver is at work, and what it may return.
Driving ==
  /\ Inside \/ pc = "tried" => drv \in 1..Len(Drivers) /\ Allowed(Driver)
  /\ pc = "path" => drv = 1 /\ ret = ENODEV
  /\ pc = "types" => drv = 1
  /\ pc = "probe" => ret \in {ENODEV, ENXIO}
  /\ pc = "tried" => ret \notin {1, ENODEV}
  /\ pc = "ready" => retries > 0

DriverTells(kind) ==
  IF Driver = "scsi" THEN ScsiTells(dev, kind) ELSE AtaTells(dev, kind)

\* What the driver at work has found out, once the device was classified
\* and once its characteristics were read.
Findings ==
  /\ pc \in {"ready", "identify", "classify", "characteristics"} => zdr = {}
  /\ pc = "characteristics" /\ Driver = "scsi" =>
       /\ model = ScsiModel /\ dev.pageB6
       /\ dev.type = "hm" \/ (dev.type = "std" /\ dev.zoned \in {0, 1})
  /\ pc = "characteristics" /\ Driver = "ata" =>
       /\ model = AtaModel /\ dev.ata
       /\ dev.sig = "hm" \/ (dev.sig = "std" /\ dev.azoned \in {0, 1})
  /\ pc \in {"types", "capacity"} \/ (pc = "tried" /\ ret = 0) =>
       /\ model \in {"hm", "ha"}
       /\ IF zdr = {} THEN DriverTells(model)
            ELSE model = "hm" /\ DriverTells("zd")

\* Unit attentions that TEST UNIT READY could not get over end the call.
AttentionsPass ==
  Inside \/ pc = "path" \/ (pc = "probe" /\ drv <= Len(Drivers))
         \/ (pc = "tried" /\ (ret = 0 \/ (drv = 1 /\ ret = ENXIO)))
    => fault \/ FewAttentions

Undisturbed == ~fault /\ ~call.test /\ AllDrivers /\ FewAttentions

\* In an undisturbed call a driver gives up a zoned device only to the next
\* one: the SCSI driver an ATA device, the ATA driver none.
Search ==
  Undisturbed =>
    /\ pc = "classify" /\ drv = 1 => (isata <=> dev.page89)
    /\ ZonedDevice /\ (Inside \/ pc = "probe") =>
         drv = 1 \/ (drv = 2 /\ dev.page89)
    /\ ZonedDevice /\ pc = "tried" /\ ret /= 0 =>
         drv = 1 /\ ret = ENXIO /\ dev.page89
    /\ ZonedDevice /\ pc = "characteristics" /\ Driver = "scsi" =>
         ScsiTells(dev, dev.truth)
    /\ pc = "return" => (Succeeded <=> ZonedDevice)

OpenInv ==
  TypeOK /\ Resources /\ Driving /\ Findings /\ AttentionsPass /\ Search
    /\ HandleIsDevice
=============================================================================
