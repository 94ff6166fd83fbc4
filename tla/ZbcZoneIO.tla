----------------------------- MODULE ZbcZoneIO -----------------------------
(***************************************************************************)
(* The programs zbc_write_zone and zbc_read_zone, running at the same time *)
(* on one zoned device that other initiators write to and reset.  Both     *)
(* list the zones once and then work from that list alone: what they know  *)
(* of a write pointer is as old as the list.                               *)
(*                                                                         *)
(* A sector of a file is its number, from 1; 0 stands for the byte pattern *)
(* (zeroes, unless -p is given).  Zone offsets, lengths and I/O sizes are  *)
(* in sectors.                                                             *)
(***************************************************************************)
EXTENDS Integers, Sequences, FiniteSets, FiniteSetsExt

CONSTANTS
  ZoneType,    \* <<type of zone 0, ...>>: "conv", "swr" or "swp"
  ZoneLen,     \* sectors of a zone
  PBlock,      \* physical block in sectors; a logical block is one sector
  InitWps,     \* where the write pointers may be: functions on Zones
  Jobs,        \* pairs of command lines, see WriteJob and ReadJob
  MaxOthers    \* most commands of other initiators

Zones == 0..(Len(ZoneType) - 1)

Type(z) == ZoneType[z + 1]

Sequential(z) == Type(z) # "conv"

(***************************************************************************)
(* What the command lines ask for.  size is that of the file to write, or  *)
(* -1; nio 0 is no limit.                                                  *)
(***************************************************************************)
WriteJob == [zidx : Nat, nz : Nat, io : Nat \ {0}, nio : Nat, ofst : Nat,
             size : Nat \cup {-1}, loop : BOOLEAN, flush : BOOLEAN]
ReadJob  == [zidx : Nat, io : Nat \ {0}, nio : Nat, ofst : Nat,
             keep : BOOLEAN]

ASSUME ZoneIOAssumption ==
  /\ ZoneType \in Seq({"conv", "swr", "swp"})
  /\ ZoneLen \in Nat \ {0} /\ PBlock \in Nat \ {0} /\ MaxOthers \in Nat
  /\ InitWps \subseteq [Zones -> 0..ZoneLen]
  /\ Jobs \subseteq WriteJob \X ReadJob

VARIABLES
  wp,       \* write pointer of each zone, an offset; ZoneLen when full
  others,   \* commands of other initiators so far
  foreign,  \* zones they wrote or reset since the writer's list
  emptied,  \* zones reset since the reader's list
  w,        \* the writer
  out,      \* the sectors it wrote, in order: zone, offset, what was written
  r,        \* the reader
  file      \* the reader's file: "absent", or the zone offsets it holds

zoneIOVars == <<wp, others, foreign, emptied, w, out, r, file>>

ZoneIOInit ==
  /\ wp \in InitWps
  /\ others = 0 /\ foreign = {} /\ emptied = {}
  /\ out = <<>> /\ file = "absent"
  /\ \E j \in Jobs :
       /\ w = [job |-> j[1], pc |-> "list", list |-> <<>>, z |-> 0, ofst |-> 0,
               max |-> 0, iocount |-> 0, fpos |-> 0, buf |-> <<>>,
               abort |-> FALSE, ret |-> 0]
       /\ r = [job |-> j[2], pc |-> "list", z |-> 0, ofst |-> 0, max |-> 0,
               iocount |-> 0, got |-> 0, lossy |-> FALSE, abort |-> FALSE,
               ret |-> 0]
-----------------------------------------------------------------------------
(***************************************************************************)
(* The device, and the other initiators.  A sequential write required zone *)
(* takes a write only at its write pointer.                                *)
(***************************************************************************)
Takes(z, at) == Type(z) = "swr" => at = wp[z]

Moved(z, at, n) ==
  IF Sequential(z) /\ n > 0 THEN [wp EXCEPT ![z] = Max({wp[z], at + n})] ELSE wp

OtherWrite(z) ==
  /\ others < MaxOthers /\ Sequential(z) /\ wp[z] + PBlock <= ZoneLen
  /\ wp' = [wp EXCEPT ![z] = @ + PBlock]
  /\ others' = others + 1 /\ foreign' = foreign \cup {z}
  /\ UNCHANGED <<emptied, w, out, r, file>>

OtherReset(z) ==
  /\ others < MaxOthers /\ Sequential(z) /\ wp[z] > 0
  /\ wp' = [wp EXCEPT ![z] = 0]
  /\ others' = others + 1
  /\ foreign' = foreign \cup {z} /\ emptied' = emptied \cup {z}
  /\ UNCHANGED <<w, out, r, file>>

\* What a step of one of the two programs leaves to the other.
WOnly == UNCHANGED <<others, emptied, r, file>>
ROnly == UNCHANGED <<wp, others, foreign, w, out>>
-----------------------------------------------------------------------------
(***************************************************************************)
(* zbc_write_zone.                                                         *)
(***************************************************************************)
\* What the list of zones must allow for the job to start.
WAccepts(j) ==
  /\ j.zidx < Len(ZoneType) /\ j.zidx + j.nz <= Len(ZoneType)
  /\ Sequential(j.zidx) => j.io % PBlock = 0

WList ==
  /\ w.pc = "list"
  /\ w' = IF WAccepts(w.job)
            THEN [w EXCEPT !.pc = "zone", !.list = wp, !.z = w.job.zidx,
                           !.buf = [k \in 1..w.job.io |-> 0]]
            ELSE [w EXCEPT !.pc = "done", !.ret = 1]
  /\ foreign' = {}
  /\ UNCHANGED <<wp, out>> /\ WOnly

\* No device, no list, no memory, or no file.
WGivesUp ==
  /\ w.pc = "list"
  /\ w' = [w EXCEPT !.pc = "done", !.ret = 1]
  /\ UNCHANGED <<wp, foreign, out>> /\ WOnly

WFull(z) == Sequential(z) /\ w.list[z] = ZoneLen

\* How far into zone z the program writes.
SectorMax(z) ==
  IF ~Sequential(z) THEN ZoneLen
  ELSE IF WFull(z) THEN 0
  ELSE IF w.list[z] > 0 THEN w.list[z] ELSE ZoneLen

\* The head of the loop over the zones.
WZone ==
  /\ w.pc = "zone"
  /\ w' = IF w.abort \/ w.z = w.job.zidx + w.job.nz
            THEN [w EXCEPT !.pc = "flush"]
            ELSE [w EXCEPT !.pc = "file", !.max = SectorMax(w.z),
                           !.ofst = w.job.ofst]
  /\ UNCHANGED <<wp, foreign, out>> /\ WOnly

NextZone(s) == [s EXCEPT !.pc = "zone", !.z = @ + 1]

\* What a read of the file at pos leaves in the buffer.
Overlay(buf, pos) ==
  [k \in DOMAIN buf |-> IF pos + k <= w.job.size THEN pos + k ELSE buf[k]]

FileLeft(pos) == Min({w.job.io, w.job.size - pos})

\* Mutant: the end of the buffer keeps what it held.
ClearedNot(buf, n) == buf

Cleared(buf, n) == [k \in DOMAIN buf |-> IF k <= n THEN buf[k] ELSE 0]

\* The head of the loop over the I/Os, and the reading of the file.
WFile ==
  /\ w.pc = "file"
  /\ LET ios   == FileLeft(w.fpos)
         first == Overlay(w.buf, w.fpos)
     IN  w' = IF w.abort THEN NextZone(w)
              ELSE IF w.job.size = -1 THEN [w EXCEPT !.pc = "io"]
              ELSE IF ios < w.job.io /\ w.job.loop THEN
                \* The second read starts at the buffer again.
                IF ios + FileLeft(0) = 0
                  THEN NextZone([w EXCEPT !.fpos = 0, !.ret = 0])
                  ELSE [w EXCEPT !.pc = "io", !.fpos = FileLeft(0),
                                 !.buf = Overlay(first, 0),
                                 !.ret = 512 * FileLeft(0)]
              ELSE IF ios = 0 THEN NextZone([w EXCEPT !.ret = 0])
              ELSE [w EXCEPT !.pc = "io", !.fpos = @ + ios,
                             !.ret = 512 * ios,
                             !.buf = Cleared(first, ios)]
  /\ UNCHANGED <<wp, foreign, out>> /\ WOnly

\* A read of the file fails, the first or the one after the rewind: only the
\* loop over the I/Os ends.
WFileFails ==
  /\ w.pc = "file" /\ ~w.abort /\ w.job.size # -1
  /\ \/ w' = NextZone([w EXCEPT !.ret = 1])
     \/ /\ w.job.loop /\ FileLeft(w.fpos) < w.job.io
        /\ w' = NextZone([w EXCEPT !.ret = 1, !.fpos = 0,
                                   !.buf = Overlay(w.buf, w.fpos)])
  /\ UNCHANGED <<wp, foreign, out>> /\ WOnly

Clip(io, at, max) == IF at + io > max THEN max - at ELSE io

SectorCount == Clip(IF WFull(w.z) THEN 0 ELSE w.job.io, w.ofst, w.max)

\* Mutant: with nothing left of the zone, the loop goes on.
WZoneEndsNot ==
  /\ w.pc = "io" /\ SectorCount = 0
  /\ w' = [w EXCEPT !.pc = "file"]
  /\ UNCHANGED <<wp, foreign, out>> /\ WOnly

\* Nothing left of the zone.
WZoneEnds ==
  /\ w.pc = "io" /\ SectorCount = 0
  /\ w' = NextZone(w)
  /\ UNCHANGED <<wp, foreign, out>> /\ WOnly

\* zbc_pwrite and zbc_pwritev refuse a count that an offset beyond the end
\* made negative (-EINVAL), and what is not made of physical blocks (-EIO).
Aligned == /\ SectorCount % PBlock = 0
           /\ (w.z * ZoneLen + w.ofst) % PBlock = 0

\* The device is asked for the write, and may carry it out.
Sent == SectorCount > 0 /\ Aligned /\ Takes(w.z, w.ofst)

\* The first n sectors of the buffer reach the zone.
Put(n) ==
  /\ wp' = Moved(w.z, w.ofst, n)
  /\ out' = out \o [k \in 1..n |-> [z |-> w.z, at |-> w.ofst + k - 1,
                                    src |-> w.buf[k]]]

\* Mutant: the offset advances by the size of the buffer.
AfterWriteBuffer ==
  LET s == [w EXCEPT !.ofst = @ + w.job.io, !.iocount = @ + 1, !.ret = SectorCount]
  IN  IF w.job.nio > 0 /\ s.iocount >= w.job.nio
        THEN NextZone(s) ELSE [s EXCEPT !.pc = "file"]

AfterWrite ==
  LET s == [w EXCEPT !.ofst = @ + SectorCount, !.iocount = @ + 1,
                     !.ret = SectorCount]
  IN  IF w.job.nio > 0 /\ s.iocount >= w.job.nio
        THEN NextZone(s) ELSE [s EXCEPT !.pc = "file"]

\* The write succeeds, which it does for all sectors only.
WWrite ==
  /\ w.pc = "io" /\ Sent
  /\ Put(SectorCount) /\ w' = AfterWrite
  /\ UNCHANGED foreign /\ WOnly

\* The write is refused, or fails, perhaps with earlier commands of the same
\* call carried out: nothing says how far it came.
WWriteFails ==
  /\ w.pc = "io" /\ SectorCount # 0
  /\ \E n \in IF Sent THEN 0..SectorCount ELSE {0} : n % PBlock = 0 /\ Put(n)
  /\ w' = [w EXCEPT !.pc = "done", !.ret = 1]
  /\ UNCHANGED foreign /\ WOnly

\* Without -s, the exit status is what the last call returned.
WFlush ==
  /\ w.pc = "flush"
  /\ \E ret \in IF w.job.flush THEN {0, 1} ELSE {w.ret} :
       w' = [w EXCEPT !.pc = "done", !.ret = ret]
  /\ UNCHANGED <<wp, foreign, out>> /\ WOnly

WAbort ==
  /\ w.pc # "done" /\ ~w.abort
  /\ w' = [w EXCEPT !.abort = TRUE]
  /\ UNCHANGED <<wp, foreign, out>> /\ WOnly

WStep ==
  \/ WList \/ WGivesUp \/ WZone \/ WFile \/ WFileFails
  \/ WZoneEnds \/ WWrite \/ WWriteFails \/ WFlush
-----------------------------------------------------------------------------
(***************************************************************************)
(* zbc_read_zone.                                                          *)
(***************************************************************************)
\* Mutant: the test for a full zone is inverted.
ReadMaxFull(z) ==
  IF Type(z) = "swr" /\ wp[z] = ZoneLen THEN wp[z] ELSE ZoneLen

ReadMax(z) ==
  IF Type(z) = "swr" /\ wp[z] < ZoneLen THEN wp[z] ELSE ZoneLen

RList ==
  /\ r.pc = "list"
  /\ IF r.job.zidx < Len(ZoneType)
       THEN /\ r' = [r EXCEPT !.pc = "io", !.z = r.job.zidx,
                              !.ofst = r.job.ofst, !.max = ReadMax(r.job.zidx)]
            /\ file' = IF r.job.keep THEN <<>> ELSE file
       ELSE /\ r' = [r EXCEPT !.pc = "done", !.ret = 1]
            /\ UNCHANGED file
  /\ emptied' = {} /\ ROnly

RGivesUp ==
  /\ r.pc = "list"
  /\ r' = [r EXCEPT !.pc = "done", !.ret = 1]
  /\ UNCHANGED <<file, emptied>> /\ ROnly

ReadCount == Clip(r.job.io, r.ofst, r.max)

\* The end of the program: a file is removed unless all went well.
RExit(s, ret) ==
  /\ r' = [s EXCEPT !.pc = "done", !.ret = ret]
  /\ file' = IF ret # 0 /\ r.job.keep THEN "absent" ELSE file

REnds ==
  /\ r.pc = "io" /\ (r.abort \/ ReadCount = 0)
  /\ RExit(r, 0)
  /\ UNCHANGED emptied /\ ROnly

\* zbc_pread and zbc_preadv read all sectors or fail.
RRead ==
  /\ r.pc = "io" /\ ~r.abort /\ ReadCount > 0
  /\ r' = [r EXCEPT !.pc = "save", !.got = ReadCount]
  /\ UNCHANGED <<file, emptied>> /\ ROnly

\* A count that an offset beyond the end made negative is refused.
RReadFails ==
  /\ r.pc = "io" /\ ~r.abort /\ ReadCount # 0
  /\ RExit(r, 1)
  /\ UNCHANGED emptied /\ ROnly

\* Mutant: the offset advances by the size of the buffer.
RSaveBuffer ==
  /\ r.pc = "save"
  /\ r' = [r EXCEPT !.ofst = @ + r.job.io, !.iocount = @ + 1,
                    !.pc = IF r.job.nio > 0 /\ r.iocount + 1 >= r.job.nio
                             THEN "done" ELSE "io"]
  /\ file' = IF r.job.keep
               THEN file \o [k \in 1..r.got |-> r.ofst + k - 1] ELSE file
  /\ UNCHANGED emptied /\ ROnly

\* write(2) takes n of the sectors read; what it leaves is not written again.
RSave ==
  /\ r.pc = "save"
  /\ \E n \in IF r.job.keep THEN 0..r.got ELSE {r.got} :
       LET s == [r EXCEPT !.ofst = @ + r.got, !.iocount = @ + 1,
                          !.lossy = @ \/ n < r.got]
       IN  /\ r' = [s EXCEPT !.pc = IF r.job.nio > 0 /\ s.iocount >= r.job.nio
                                      THEN "done" ELSE "io"]
           /\ file' = IF r.job.keep
                        THEN file \o [k \in 1..n |-> r.ofst + k - 1] ELSE file
  /\ UNCHANGED emptied /\ ROnly

RSaveFails ==
  /\ r.pc = "save" /\ r.job.keep
  /\ RExit(r, 1)
  /\ UNCHANGED emptied /\ ROnly

RAbort ==
  /\ r.pc # "done" /\ ~r.abort
  /\ r' = [r EXCEPT !.abort = TRUE]
  /\ UNCHANGED <<file, emptied>> /\ ROnly

RStep == RList \/ RGivesUp \/ REnds \/ RRead \/ RReadFails \/ RSave \/ RSaveFails
-----------------------------------------------------------------------------
ZoneIONext ==
  \/ WStep \/ WAbort \/ RStep \/ RAbort
  \/ \E z \in Zones : OtherWrite(z) \/ OtherReset(z)

ZoneIOSpec == ZoneIOInit /\ [][ZoneIONext]_zoneIOVars

\* The programs are running and every call they make returns.
ZoneIOFairSpec == ZoneIOSpec /\ WF_zoneIOVars(WStep) /\ WF_zoneIOVars(RStep)
-----------------------------------------------------------------------------
Writer ==
  [job : WriteJob, pc : {"list", "zone", "file", "io", "flush", "done"},
   list : {<<>>} \cup [Zones -> 0..ZoneLen], z : Nat, ofst : Nat,
   max : 0..ZoneLen, iocount : Nat, fpos : Nat, buf : Seq(Nat),
   abort : BOOLEAN, ret : Int]

Reader ==
  [job : ReadJob, pc : {"list", "io", "save", "done"}, z : Nat,
   ofst : Nat, max : 0..ZoneLen, iocount : Nat, got : Nat,
   lossy : BOOLEAN, abort : BOOLEAN, ret : {0, 1}]

ZoneIOTypeOK ==
  /\ wp \in [Zones -> 0..ZoneLen] /\ others \in 0..MaxOthers
  /\ foreign \subseteq Zones /\ emptied \subseteq Zones
  /\ w \in Writer /\ r \in Reader
  /\ out \in Seq([z : Zones, at : Nat, src : Nat])
  /\ file = "absent" \/ file \in Seq(0..(ZoneLen - 1))
-----------------------------------------------------------------------------
\* Entry k of out is the first of its zone.
StartsZone(k) == k = 1 \/ out[k - 1].z /= out[k].z

\* The writer goes on in the zone that it wrote last.
Continues == out /= <<>> /\ out[Len(out)].z = w.z

\* A write is about to be sent to a zone that was not written or reset by
\* others since the writer's list, and the job starts at the zone's start.
OwnWrite == w.pc = "io" /\ SectorCount > 0 /\ w.job.ofst = 0 /\ w.z \notin foreign

OutInOrder ==
  \A k \in 1..Len(out) :
    /\ out[k].at = IF StartsZone(k) THEN w.job.ofst ELSE out[k - 1].at + 1
    /\ k > 1 => out[k - 1].z <= out[k].z

Counted ==
  w.pc \in {"file", "io"} =>
    w.ofst = IF Continues THEN out[Len(out)].at + 1 ELSE w.job.ofst

\* Each zbc_pwrite goes on where the last one stopped: the zones are written
\* one after the other, the sectors of a zone once each, in order, from the
\* offset asked for, and all that the program counted were written; what a
\* failing call wrote comes last.  In a sequential write required zone that
\* the list showed empty, and that no other initiator touched since, every
\* command is at the current write pointer: the device has no reason to
\* refuse one.
WritesInOrder ==
  /\ OutInOrder /\ Counted
  /\ OwnWrite /\ Type(w.z) = "swr" /\ w.list[w.z] = 0 => w.ofst = wp[w.z]

\* Without -loop, the sectors written to a zone are consecutive sectors of the
\* file, then zeroes, and those of the first zone start with the file's first.
\* A later zone goes on behind what was written before and never repeats it,
\* though it may leave some of the file out, and no zone follows the zeroes.
FileInOrder ==
  w.job.size >= 0 /\ ~w.job.loop =>
    \A k \in 1..Len(out) :
      IF StartsZone(k)
        THEN /\ out[k].z = w.job.zidx => out[k].src = 1
             /\ k > 1 => out[k - 1].src \in 1..(out[k].src - 1)
        ELSE LET prev == out[k - 1].src
             IN  out[k].src = IF prev \in 1..(w.job.size - 1) THEN prev + 1 ELSE 0

\* The reader asks for no sector of a sequential write required zone at or
\* above its write pointer, unless the zone was reset after it was listed:
\* the writer that advances it at the same time can do it no harm.
ReadBelowWp ==
  r.pc = "io" /\ ReadCount > 0 /\ Type(r.z) = "swr" /\ r.z \notin emptied =>
    r.ofst + ReadCount <= wp[r.z]

\* When the reader exits with 0, its file holds the sectors from the offset
\* asked for on, in order, each once, up to the end the list gave if it was
\* neither limited nor stopped; a file write cut short (lossy) is the one
\* way to lose any.  When it fails, also for an offset beyond that end, no
\* file is left.
FileIsZone ==
  r.pc = "done" /\ r.job.keep =>
    IF r.ret # 0 THEN file = "absent"
    ELSE ~r.lossy =>
           /\ file = [k \in 1..(r.ofst - r.job.ofst) |-> r.job.ofst + k - 1]
           /\ r.job.nio = 0 /\ ~r.abort => r.ofst = r.max

\* Both programs exit, whatever the offsets, the device and the others do.
ToolsEnd == <>(w.pc = "done") /\ <>(r.pc = "done")

\* What the usage text of zbc_write_zone says: the zone is written from its
\* write pointer.
WritesFromWp == OwnWrite /\ Sequential(w.z) => w.ofst = wp[w.z]
-----------------------------------------------------------------------------
(***************************************************************************)
(* What makes the four invariants inductive.                               *)
(***************************************************************************)
InZone == w.pc \in {"file", "io"}

\* Where the writer is.
WriterAt ==
  /\ w.pc = "list" => out = <<>> /\ w.fpos = 0
  /\ w.job.size >= 0 => w.fpos <= w.job.size
  /\ InZone \/ w.pc = "zone" =>
       /\ w.list \in [Zones -> 0..ZoneLen] /\ WAccepts(w.job)
       /\ Len(w.buf) = w.job.io
       /\ w.z \in w.job.zidx..(w.job.zidx + w.job.nz)
  /\ InZone => w.z < w.job.zidx + w.job.nz /\ w.max = SectorMax(w.z)
  /\ \A k \in 1..Len(out) : out[k].z <= w.z
  /\ w.pc = "zone" => ~Continues

\* The list stays right for the zones that the writer has not reached, and a
\* zone that it fills from the start has the write pointer where it stopped.
ListHolds ==
  /\ InZone \/ w.pc = "zone" =>
       \A z \in Zones \ foreign :
         z > w.z \/ (z = w.z /\ w.pc = "zone") => wp[z] = w.list[z]
  /\ InZone /\ w.z \notin foreign /\ w.job.ofst = 0 /\ Type(w.z) = "swr"
       /\ w.list[w.z] = 0 => wp[w.z] = w.ofst

\* What of the file was written last.
LastSrc == out[Len(out)].src

\* Where in the file the writer is: what a buffer about to be written holds,
\* and how it follows what was written last.
FileAt ==
  w.job.size >= 0 /\ ~w.job.loop =>
    /\ w.pc \in {"zone", "file"} =>
         /\ w.z = w.job.zidx /\ ~Continues => w.fpos = 0
         /\ out /= <<>> => LastSrc <= w.fpos /\ (LastSrc = 0 => w.fpos = w.job.size)
    /\ w.pc = "file" /\ Continues =>
         \/ w.ofst >= w.max \/ w.fpos = w.job.size
         \/ w.fpos > 0 /\ LastSrc = w.fpos
    /\ w.pc = "io" =>
         LET first == w.buf[1]
         IN  /\ first \in 1..w.job.size
             /\ \A k \in 1..w.job.io :
                  w.buf[k] = IF first + k - 1 <= w.job.size THEN first + k - 1 ELSE 0
             /\ w.fpos = IF first + w.job.io - 1 <= w.job.size
                           THEN first + w.job.io - 1 ELSE w.job.size
             /\ w.z = w.job.zidx /\ ~Continues => first = 1
             /\ out /= <<>> => LastSrc > 0 /\ LastSrc < first
             /\ Continues => w.ofst >= w.max \/ LastSrc = first - 1

\* Where the reader is, and what its file holds.
ReaderAt ==
  /\ r.pc = "list" => file = "absent" /\ r.ret = 0 /\ ~r.lossy
  /\ ~r.job.keep => file = "absent"
  /\ r.pc \in {"io", "save"} =>
       /\ r.z \in Zones /\ r.ret = 0 /\ r.ofst >= r.job.ofst
       /\ Type(r.z) = "swr" /\ r.z \notin emptied => r.max <= wp[r.z]
       /\ r.job.keep =>
            /\ file \in Seq(0..(ZoneLen - 1))
            /\ ~r.lossy => file = [k \in 1..(r.ofst - r.job.ofst) |-> r.job.ofst + k - 1]
  /\ r.pc = "save" => r.got > 0 /\ r.ofst + r.got <= r.max

WriterInv ==
  WriterAt /\ OutInOrder /\ Counted /\ ListHolds /\ FileAt /\ FileInOrder

ZoneIOInv == ZoneIOTypeOK /\ WriterInv /\ ReaderAt /\ FileIsZone
=============================================================================
