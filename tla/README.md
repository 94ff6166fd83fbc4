# libzbc in TLA+

TLA+ models of libzbc, the user space library for SCSI (ZBC) and ATA (ZAC)
zoned block devices, and of its programs that do more than one library call:
TLC checks them on small instances, and TLAPS proves all their safety
properties for every instance. Paths are relative to the repository.

## The system

| Component | State | Operations | What is hard |
|---|---|---|---|
| Vector I/O (`lib/zbc.c`, `preadv`/`pwritev` of the drivers) | position in the caller's vector, sectors moved | `zbc_pread`, `zbc_pwrite`, `zbc_preadv`, `zbc_pwritev`, `zbc_map_iov` | cutting a vector of buffers at any alignment into commands under a page limit; short transfers; the end of the device |
| Zone reports | array of zones, next sector | `zbc_report_zones`, `zbc_report_nr_zones`, `zbc_list_zones` | a report takes several commands, between which conditions change |
| Zone operations | zone conditions (on the device) | `zbc_zone_operation`, `zbc_zone_group_op` and their wrappers | emulation of a group by single commands; failure half way; other initiators |
| Error reports (`lib/zbc_sg.c`, `lib/zbc.h`, `lib/zbc_ata.c`) | `zerrno`, one per thread; sense data held by the device | every command, `zbc_errno_ext` | stale reports; the ATA driver fetches sense data with a second command |
| Open, test, close | file descriptors, device structures, what was learnt of the device | `zbc_open`, `zbc_device_is_zoned`, `zbc_close` | two drivers tried in turn, some thirty commands that can each fail, unit attentions |
| Zone domains and realms | descriptor arrays; the domain each realm is active in (on the device) | `zbc_report_domains`, `zbc_list_domains`, `zbc_report_realms`, `zbc_list_zone_realms` | count, allocate, fetch while others activate realms; several sizes to respect |
| Zone activation and query | activation records | `zbc_zone_activate`, `zbc_zone_query`, `zbc_zone_query_list`, `tools/zone_activate` | the number of zones travels in the CDB or in a setting of the device; count, allocate, fetch; two CDB formats |
| Device control | settings on the device: FSNOZ, URSWRZ, MAX ACTIVATION | `zbc_zone_activation_ctl`, `tools/dev_control` | read, modify, write on a shared device; several commands of which one may fail |
| Zone I/O programs | a list of zones, an offset, a buffer, a file | `tools/write_zone`, `tools/read_zone` | they work from a list taken once, while write pointers move; calls that fail half done; signals |
| gzbc | table of devices; one command, dialog and thread per slot | open, close, refresh, zone operations, timer | a thread, a dialog's own main loop and a timer that share one slot |
| Statistics, strings, other tools, gzviewer, device tests | - | - | layout, formatting, option parsing |

The library keeps no thread of its own and no state between calls beside the
handle and `zerrno`. Concurrency comes from threads and processes that use one
device and from other initiators. Every call sends SG_IO commands
(`zbc_sg_cmd_exec`), each of which can fail, move less than asked or find the
device changed since the command before.

## Modules

| Module | Models | Variables and code |
|---|---|---|
| `ZbcRequests` | requests: vectors of buffers, in sectors, with the mode (`test`) and the driver (`native`) | `zbc_iov_count` is the sum kept in `pre` |
| `ZbcTransfer` | what a read or write call promises, abstractly | sectors move in order, each once; the result counts them or is an error |
| `ZbcVectorIO` | `zbc_do_preadv`, `zbc_do_pwritev`, `zbc_iov_convert`, `zbc_map_iov`, READ and WRITE of both drivers | `i`/`skip`: place in the vector; `out`, `nrPages`: the vector that `zbc_iov_convert` builds; `log`: history of what reached where |
| `ZbcOrder` | the order of descriptors in reports, a set as a sorted sequence | external |
| `ZbcArithmetic` | lemmas on division, induction and sorted sequences, for the proofs | - |
| `ZbcErrorCodes` | the error codes the library returns | - |
| `ZbcVectorIOProofs`, `ZbcZoneOpsProofs`, `ZbcReportZonesProofs`, `ZbcDomainsProofs`, `ZbcActivationProofs` | proofs about the modules they are named after; `ZbcActivationProofs` is about `ZbcDevControl` too | - |
| `ZbcSessionProofs` | proofs about `ZbcErrno` and `ZbcOpen`, what lasts from call to call | - |
| `ZbcToolsProofs` | proofs about the programs, `Gzbc` and `ZbcZoneIO` | - |
| `ZbcZoneDevice` | zones, conditions and transitions of the device | external: from the standard's state machine as `test/scripts/02_state_machine_check` expects it |
| `ZbcReportZones` | zone reports and lists with the drivers' buffers | `zones`, `sector`, `nr`, `array` are the code's; `lasting`, `changed` are history |
| `ZbcZoneOps` | single, counted and emulated zone operations | `cond` on the device; `processed` is history |
| `ZbcErrno` | command results, sense data and error reports of threads | `zerrno[t]` names the command that each field tells of; `latched`: the sense data the device holds |
| `ZbcOpen` | probing of drivers, classification, characteristics, TEST UNIT READY, SAT test, close | `fds`, `arrays`: what the process holds; `held`: the handles of the program |
| `ZbcDomains` | domain and realm reports, lists and scans | `active` on the device; `alloc`, `out`, `nr`, `array` are the code's; `lasting`, `changes` are history |
| `ZbcDevControl` | control calls of several programs with both drivers, and `zbc_dev_control` | `ctl`: the settings on the device; `cc[p]`: the call of program `p`, with the page it read or the SET FEATURES it is at; `tool`: the program; `others`, `wrote` are history |
| `ZbcActivation` | activation and query calls, query lists and `zbc_zone_activate`, composed with `ZbcDevControl`: both programs share the settings, and the activation sets FSNOZ by a control call | `active`, `filled` on the device; `job`: the command line; `cur`: realm, zones and units found; `nr`, `out`: records counted and delivered; `did`, `amiss`, `changes` are history |
| `ZbcZoneIO` | `zbc_write_zone` beside `zbc_read_zone` on one device | `wp` on the device; `w`, `r`: the programs with their lists, offsets and counters; `out`, `file`: what was written to zones and to the file |
| `Gzbc` | `gzbc`'s device table, commands, dialogs, command threads and timer | `dev`, `nrDevs`: `dz`; `notebook`, `pages`: what the window shows; `stack`: nested calls of `dz_cmd_exec`; `thr`: the threads |
| `MC*` | instances of these for TLC | - |

The modules that interact share the device (`ZbcZoneDevice`), are composed
(`ZbcActivation` EXTENDS `ZbcDevControl` and takes its steps beside its own) or
are joined by refinement (`ZbcVectorIO` implements `ZbcTransfer` through an
INSTANCE with a refinement mapping). A library call keeps nothing for the next
one in `ZbcVectorIO`, `ZbcReportZones`, `ZbcZoneOps` and `ZbcDomains`, so a
behaviour of those is one call, from any initial state; `ZbcErrno` and `ZbcOpen`
have sequences of calls; a behaviour of `ZbcActivation` and `ZbcZoneIO` is a run
of the two programs, one of `Gzbc` a session.

Abstractions. Data is a sector number, a zone number or the name of the command
that an error tells of. An action stands for one command with what the code
does up to the next one, because nobody else sees the process's own variables
in between; in `Gzbc`, whose threads share memory, it stands for what happens
between two points where another thread can act. CDB and reply layout, logging
and strings are left out. Definitions named as mutants above an operator are
changed forms of that operator; no specification uses them, they are there to
show that a property can fail. `TypeOK` (`ErrnoTypeOK`,
`ZoneIOTypeOK`) says what the variables hold; it is a part of the inductive
invariants. What a module has under "What the proofs need"
or "What makes the invariants inductive" are these invariants and, for some
theorems, a hypothesis; no specification uses them.

What a device is and what it shows of it are two things in `ZbcOpen`: `truth` and
the other fields of a profile. `DeviceAssumption` says how the standards tie them:
neither command set shows a zoned device that the device is not (`Honest`); a zoned
SCSI device shows itself to SCSI commands, and a zoned ATA device to ATA commands
and, through the translation, as an ATA device (page 89h), while the rest of it may
be translated or page B6h may be missing (`Visible`). Without the first, no code can tell a zoned device
from another one; without the second, there is nothing for the code to find.

## Runs

| Run | Checks | Result |
|---|---|---|
| `vectorio` | `PageBudget`, `WithinCapacity`, `FailsOnlyWithDevice`, `TransferSpec`, `CallReturns`: up to three buffers of 0, 1 or 3 sectors, starting at a page, between sectors or inside one, on a device of six sectors in blocks of two; the same with `ZBC_O_DEVTEST` and the native ATA commands, where nothing is clipped or refused for alignment and the driver refuses what is too large | pass |
| `report_zones` | `ReportInOrder`, `NoZoneLost`, `ListExact`, `ErrorsSurface`, `CallReturns` on five zones, with buffers of two or four descriptors, while others finish and reset zones | pass |
| `zone_ops` | `GroupComplete`, `PrefixOnly`, `GroupEffect`, `OnlyGroupChanges` for groups on five zones of two lengths, by one command or emulated, while others finish and reset zones | pass |
| `errno` | `SuccessClears`, `OneCommand` for two threads, ATA driver, host errors | pass |
| `errno_race` | `ReportOfLastCall` for two threads, ATA driver | violated: finding |
| `open` | `NoLeak`, `DetectsZoned`, `HandleIsDevice`, `CallReturns` over thirty kinds of devices, any command failing | pass |
| `open_leak` | `NoLeakAtAll` | violated: finding |
| `domains` | `ArrayHolds`, `DomainsComplete`, `TypesGathered`, `RealmsComplete`, `RealmTypesRight`, `ErrorsSurface` with up to five domains and three realms, two activations by others during a call | pass |
| `activation` | `ActivatesAsked`, `ControlHonest`, `RecordsFromReply`, `ForeignSettingsKept`, `ResetConfined`, `ProgramsEnd`: fourteen jobs on six devices beside `zbc_dev_control`, others writing and activating, any command failing | pass |
| `zone_io` | `WritesInOrder`, `FileInOrder`, `ReadBelowWp`, `FileIsZone`, `ToolsEnd`: nine pairs of command lines on a conventional, a sequential required and a sequential preferred zone, others writing and resetting, signals, writes that are refused or fail half done | pass |
| `zone_io_wp` | `WritesFromWp` | violated: finding |
| `gui` | `DevicesReachable`, `ThreadsInside`, `CommandEnds`: three slots, three opens, three commands, timer on | pass |

Bounds and why they are enough. `vectorio`: three buffers make a first, a middle
and a last one, the page budget of four pages is reached inside each of them,
and the capacity cuts all but the shortest requests. `report_zones`: five zones
and buffers of one or three descriptors beside the header make up to five
commands; filters by condition let others add and remove matches; `UIntSlots`
is small enough for the size computation to wrap. `zone_ops`: groups of none, two and three of
five zones of 4, 4, 2, 2 and 4 sectors, from the start of zones, from inside a
logical block, from inside a zone and behind the last one; the emulation finds
zones as long as the first, longer ones and shorter ones, ends inside a zone,
and oversteps into a zone outside the group (without its exception for that,
`OnlyGroupChanges` is violated); a zone length that was never set is 0 or that
of a zone. `errno`: three calls of each
thread make a stale report, one that replaces it and a race. `open`: the profiles
of `MCOpen` are the combinations of what the device is and what its translation
shows; `MaxLost` bounds the descriptors that leak, so that the state stays
finite. `domains`: `Est`, `NrTypes` and `EarlySlots` are 3, 3 and 2 for 6, 4
and 4, in the same order, and the number of domains goes beyond each; devices
with five domains have one of an unknown type. `MaxChanges` activations fit
between any two of the commands of a list. `activation`: realms have two zones or
one in the sequential domain and the third has none in the other, so that zones
counted in the wrong domain or realm by realm differ; the 16 byte CDB counts to
`CdbMax` = 3, and one call asks for more; the devices have mode pages that hold
all settings, too few or one short of them, and every set of SET FEATURES that
ends the sequence at another place. `zone_io`: zones of four sectors, physical
blocks of two and I/Os of one to six sectors, so that a buffer ends before, at
and behind the end of a zone, the file and the list's write pointer, counts and
offsets are whole blocks or not, and an offset lies beyond what the list gives;
one command of others is enough to make each
of the lists stale. `gui`: three slots let a third open fail with two devices
open; of three commands one can interrupt another and a third can follow.

Fairness. `CallReturns`, `ProgramsEnd`, `ToolsEnd` and `CommandEnds` are checked
under weak fairness of the steps of what is running (`FairSpec`, `ZoneIOFairSpec`):
a call runs on the caller's thread and its commands time out in SG_IO, so it is
never stopped for good, and each program and each thread of `gzbc` is scheduled
by the operating system on its own. In `Gzbc` only the main thread's own steps
and the command threads are fair; the user, the timer and signals are not.
Failing steps are not assumed to happen, and other initiators are under no
fairness.

## What the runs found

- Two threads on one ATA device can get each other's sense data (`errno_race`);
  `ScsiReportsHold` shows that this is a matter of the ATA driver.
- A failed domain report leaks the open device (`open_leak`).
- `zbc_write_zone` writes a partly written zone from its start up to the write
  pointer, and not from the write pointer on, as its usage text says
  (`zone_io_wp`).

Seen in the models, without a run of their own. The properties of the passing
runs say where these cases are excepted.

Library:

- `zbc_report_zones` with an empty array, or in test mode from the capacity on,
  returns a variable that was never set (`lib/zbc.c:654`, `694`).
- The emulation of group operations steps by the length of the first zone
  (`lib/zbc.c:777`). If a zone of the group before the last is shorter than the
  first one it leaves zones of the group out, operates on zones outside the group,
  and returns 0: with lengths 4, 2, 2, 4 and a group of the first three, the third
  command goes to the fourth zone. `Oversteps` names these calls; `GroupComplete`,
  `PrefixOnly` and `GroupEffect` except them, and `OnlyGroupChanges` says which
  foreign zones they can reach.
- Opening a full zone: `include/libzbc/zbc.h:1739` and `1766` say that an error is
  returned, `test/scripts/02_state_machine_check/021.sh` expects success and the
  zone still full. The device decides, and the library passes its answer on. The
  model's device does what the test expects; `GroupEffect` is what the header
  promises or this one case (`FullOpened`).
- A count of zones above 65535 is cut to the CDB's field, in zone operations
  and in activations with the 16 byte CDB.
- A call that fails before its command is sent leaves the error report of an
  earlier call.
- `zbc_open` fails with -EIO, not -ENXIO, on a plain SCSI disk;
  `zbc_device_is_zoned` answers 0 when a command failed on a zoned device; TEST
  UNIT READY is not repeated for unit attentions in descriptor format.
- The test read of `zbc_ata_test_sbc_sat` (`lib/zbc_ata.c:2296`) is for no block,
  so that it never selects the SCSI translation.
- `zbc_list_domains` returns more domains than its array holds if others make
  more match between its two reports; the zone type scan sees the first four
  domains only.
- The SCSI driver sets none of the flags for FSNOZ, URSWRZ, MAX ACTIVATION and
  the zone count in the CDB, although the comment at `lib/zbc_scsi.c:1706`
  speaks of all features: `zbc_zone_activate` without `-a` gives up on every
  SCSI device.
- The ATA driver refuses a zone count in the command, so that devices whose only
  way to take it is that one fail.
- A mode page that ends before MAX ACTIVATION leaves that setting as it was, and
  the call succeeds.
- `zbc_ata_zone_activate_noaux` bounds the records it reads by the array only.
- In test mode the branch for a command of no sectors in the transfer loop
  (`lib/zbc.c:1328-1339`) is never taken: the early return for an empty request
  comes before it.

Programs:

- `zbc_zone_activate` sets FSNOZ on the device for a query too; it prints and
  forgets the failure of a reset. It resets the zones of every realm of the range
  in the domain of the first one, those of realms that have no zones of the new
  type too: these lose their data and are not activated. (An earlier form of
  `ResetConfined` said otherwise; its proof failed on this case.)
- A number of zones that is all ones in the FSNOZ field is taken for "leave it
  alone" by the control call, which then succeeds without setting it.
- `zbc_dev_control -maxr 65535` is taken for "leave it alone".
- `zbc_write_zone` drops what is left of a buffer of file data at the end of each
  zone, and after a write that failed half done it does not know how far it came;
  `-nio` counts through the zones, and later zones get one I/O more; with `-loop` the second read starts at the front of
  the buffer again; a read error of the file is forgotten with `-nz` and `-s`; the
  exit status is the last positive count.
- An `-ofst` beyond what is to be read or written makes the sector count
  negative: the call is refused with -EINVAL and the program exits with 1, where
  an offset at the end is a success; with `-ofst`, `zbc_write_zone` fails that way
  on every full zone. A listed write pointer that is no multiple of the physical
  block (a sequential preferred zone) has the last write refused with -EIO.
- `zbc_read_zone` writes what write(2) leaves over to nowhere, unlinks a file
  called `-` when it wrote to stdout, and mixes messages with the data there; a
  mismatch with the pattern is printed and forgotten.
- `gzbc`: a device that opens but cannot be listed is counted down before it was
  counted, and from then on the window can say that no device is open while
  some are; the timer can start a command inside the dialog of another one on
  the same slot; every command without a message joins its thread twice
  (`gzbc.c:446`, `450`), and so does the outer of two nested calls, which POSIX
  leaves undefined (the model lets the second join return at once); an answer given before
  the dialog waits for it is lost, and the window then hangs and ignores SIGINT;
  the error of a zone operation is overwritten by the report after it; a zone
  number at or above the number of zones that the filter shows is refused; `-i`
  below 1000 is ignored.

## Proofs

`ZbcVectorIOProofs` proves, for every capacity, block and page size, limit and
set of requests, in both modes and with both drivers:

- `TypeCorrect`, `PageBudgetHolds`, `WithinCapacityHolds`,
  `FailsOnlyWithDeviceHolds`: `Spec => []` of `TypeOK` and of the invariants of
  run `vectorio`;
- `Refinement`: `Spec => TransferSpec`.

The assumptions are those of `ZbcVectorIO` on its constants (positive sizes, a
page is whole sectors, blocks divide each other, requests are well formed) and
of `ZbcRequests`. None of the invariants is inductive. The strengthening
`IndInv` adds where the loop is in the vector (the place reached corresponds to
the number of sectors moved), that the pieces converted so far are consecutive
and sum up to `taken`, that the pages counted bound the pages touched and stay
within the budget, and that what is left to do never reaches over the end.
`NextInv` proves it action by action. Division enters through a few lemmas of
`ZbcArithmetic`. `FailsOnlyWithDevice` also needs that a chunk under a budget of
two pages for each sector of a block contains a whole block.

`ZbcSessionProofs` proves about `ZbcErrno` the theorems `ErrnoTypeCorrect`,
`SuccessClearsHolds`, `OneCommandHolds` for any set of threads and any number of
calls, with the invariant `ErrnoInv`, which adds that a call whose follow-up is due
has failed; and `ScsiReportsHold`: without the ATA driver and without errors on
the host `ReportOfLastCall` holds. Its invariant `OwnReports` adds that no follow-up
is ever due.

About `ZbcOpen` it proves `OpenTypeCorrect`, `NoLeakHolds`, `DetectsZonedHolds` and
`HandleIsDeviceHolds`, for any set of devices that meet `DeviceAssumption`, any limit
of descriptors, any number of unit attentions and any sequence of opens, tests and
closes in which any command may fail. `OpenInv` adds

- which file and array the driver at work holds beside the handles (`Resources`);
- which driver it is and what it may return (`Driving`);
- what it has found out of the device so far (`Findings`), from which, with
  `Honest`, a handle is what the device is (lemma `Recognised`);
- that unit attentions beyond the retries end the call (`AttentionsPass`);
- that in an undisturbed call a zoned device is not given up, except by the SCSI
  driver to the ATA driver (`Search`), which is where `Visible` is needed (lemmas
  `ScsiClassFacts` and `AtaClassFacts`).

`OpenStep` proves it action by action and conjunct by conjunct.

`ZbcReportZonesProofs` proves `OrderTheorem`, `NoZoneLostTheorem`, `ListTheorem`
and `ErrorsTheorem`: `Spec => []` of `ReportInOrder`, `NoZoneLost`, `ListExact` and
`ErrorsSurface`, for any layout of zones, any array and buffer sizes, however
replies are cut and whatever others do. `IndInv` adds that the loop goes on
right behind the last zone found (`Onward`), that a zone which matched throughout
is in the array or still ahead (`StillAhead`), and that the array of
`zbc_list_zones` has the size of what it then looks for (`Counted`). The step
that matters is `Fetch`: a reply is a prefix of the sorted zones that match, so
appended to the array it leaves it sorted, and whatever was skipped lies ahead.
That a set of numbers has a sorted sequence, and what it contains, is
`InOrderFacts` of `ZbcArithmetic`.

`ZbcZoneOpsProofs` proves `PrefixTheorem` and `OnlyGroupTheorem` for every layout of
zones, and `CompleteTheorem` and `EffectTheorem` for every layout under the
hypothesis `CountsFit` (counts fit the command's field), which is a limit of the
code: a count above the field is cut. `MCZoneOps` meets it. That the emulation
steps by the length of the first zone is in the properties themselves
(`Oversteps`), not in a hypothesis. `IndInv` says that, without an overstep, what
was processed is a run of zones from the first one of the group (`RunSoFar`), that
the emulation's next sector lies as many lengths of the first zone behind the one
asked for as commands were sent (`Stepping`), and that what the commands did lasts
unless others step in (`EffectLasts`). The argument: a step by the length of the
first zone from the start of a zone that is not shorter leads to the next zone, if
the two are equal, or inside this one, where the device refuses the command; that
zones follow each other in the order of their numbers is shown by `SetInduction`.
`CountsFit` enters in one conjunct only, `Completed`.

`ZbcDomainsProofs` proves `ArrayTheorem`, `DomainsTheorem`, `TypesTheorem`,
`RealmsTheorem`, `RealmTypesTheorem` and `DomainErrorsTheorem`, the six
invariants of run `domains`, for any numbers of domains, realms, slots and
activations by others. `IndInv` adds which call is at which step with which
array (`Stage`), what is known before the last command (`Underway`: the array of a
second command has the size that the first one found) and that the realms which
matched all the time match now (`StillMatch`).

`ZbcActivationProofs` proves, for any set of programs, any devices, realms and
domains, and any writes, activations and control calls in between:

- `ControlTheorem` and `KeptTheorem`: `ControlHonest` and `ForeignSettingsKept`.
  The invariant `CtlInv` says of every program's call that the page it is about to
  write back has the settings of the device except those that others changed
  since it was read (`PageKept`), what a call that sets has brought to the device
  so far (`CallsMade`), and what `zbc_dev_control` waits for (`ToolCalls`). Lemma
  `InsideCall` states once what a step inside one program's call may do to the
  others'.
- `RecordsTheorem` and `ResetTheorem`: `RecordsFromReply` and `ResetConfined`. `IndInv`
  adds where `zbc_zone_activate` is in its range (`Placed`) and that the zones it
  counted are those of the realms it is at (`Found`). `CoveredRange` closes the
  argument: zones are numbered through the realms, so the zones of a run of
  realms belong to exactly these, in whichever domain they are counted.
- `ActivationTheorem`: `ActivatesAsked`, under the hypothesis `FitsFsnoz` (no number of
  zones is all ones, which the control call takes for "leave it alone";
  `MCActivation` meets it). `CountInv` adds that the number of zones reaches the
  device, or that the program can tell from `others` that somebody changed it
  (`Counted`), and what was activated on the way through the range (`Progress`).

`ZbcToolsProofs` proves about `Gzbc` the theorems `DevicesTheorem` and
`ThreadsTheorem` (`DevicesReachable`, `ThreadsInside`) for any number of slots,
opens, commands and nested calls, with or without the timer. `IndInv` adds that a
command that runs is the one of the innermost call, and that its thread is the
one that the slot names.

About `ZbcZoneIO` it proves `ZoneIOTypeCorrect`, `WritesInOrderHolds`,
`FileInOrderHolds`, `ReadBelowWpHolds` and `FileIsZoneHolds`, for any zones, any
length of them, any command lines and any number of writes and resets by others.
The properties compare each sector written with the one before it, so that the
proofs go without induction over what was written. `ZoneIOInv` adds

- where the writer is (`WriterAt`): inside its range of zones, with the list it
  took and the end that the list gives for the zone;
- that the list still holds for the zones ahead that nobody else touched, and that
  a zone filled from the start has its write pointer where the writer stopped
  (`ListHolds`);
- what a buffer that is about to be written holds, and how it follows the last
  sector written (`FileAt`): a buffer that was not written to its end ends the
  zone, because only the end of the zone cuts a write, and what was written last
  is not behind the place reached in the file;
- where the reader is and what its file holds (`ReaderAt`): the end it took from the
  list is not above the write pointer, unless the zone was reset since.

There is a lemma for each kind of step; `WriterFrame`, `ReaderFrame` and `OtherStep`
say once what the steps of one party leave to the others, and `PutStep`, for the
sectors that a write adds whether it succeeds or fails half done, looks at the old
entries, the first new one and the further new ones.

Where these proofs need induction over data, it is done with sets:
`LeastNatural` of `ZbcArithmetic` takes the least element of a set of naturals from
the well-foundedness of their order, `SetInduction` follows, and what a lemma is to
show is written as a set that contains 0 and with each number the next. The sum
over realms (`SumLens`, a recursive function) is shown to exist that way.

Only model-checked:

- all liveness: `CallReturns`, `ProgramsEnd`, `ToolsEnd`, `CommandEnds`. TLAPS does
  not do fairness.
- that devices meet `DeviceAssumption`, and the other modules' constants their
  assumptions: TLC evaluates these on the instances of the runs.
- the three findings, which are counterexamples.

## Not modelled

Capacity geometry and command size limits from sysfs are constants of the
models. Statistics, strings, the printing programs (reports, info, sense, single
zone operations), `gzviewer`, the drawing code of `gzbc` and the device tests are
layout, formatting and option parsing around single library calls, without
control worth a model. Text in replies is data: descriptor lengths, the contents
of records and the walk over sense descriptors are taken as the standards have
them.

Smaller simplifications, each noted at its definition: `ZbcVectorIO` has no counts
of 2^55 and more, for which `count << 9` (`lib/zbc.c:1298`, `1404`) wraps before it
is compared, and one error code for a failing driver; a zone report that lists a
zone carries at least one descriptor (on a header alone `lib/zbc.c:683` ends the
loop with success); domain descriptors have a valid zone type
(`lib/zbc_scsi.c:1800`); no ATA device claims the standard realm format and then
replies with a descriptor length of 0, where `lib/zbc_ata.c:926` does not bound the
realms by the reply; `zbc_zone_activate` for no realm at the end of the list, which
looks at `realms[nr_realms]` (`zbc_zone_activate.c:79`), just fails.

`PROJECT.json` lists each component, and the hazards no property covers.

## Plan

1. An abstract list ("count, allocate, fetch") that `ZbcReportZones`, `ZbcDomains`
   and `ZbcActivation` refine.
2. `ZbcGeometry`: capacity, block sizes and command limits as operators, with the
   widths of the code, whose results meet the assumptions of `ZbcVectorIO`.
