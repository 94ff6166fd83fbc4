---------------------------- MODULE ZbcVectorIO ----------------------------
(***************************************************************************)
(* Vector reads and writes: zbc_preadv, zbc_pwritev and the loops of       *)
(* zbc_do_preadv and zbc_do_pwritev, which cut a request into commands     *)
(* that the kernel can map (zbc_iov_convert) and send them one by one      *)
(* through the backend driver (zbc_scsi_preadv, zbc_ata_native_preadv and  *)
(* their write twins).  The two loops differ only in the alignment they    *)
(* ask of the request, so one set of actions models both.                  *)
(*                                                                         *)
(* Lengths and offsets are in 512 B sectors as in the API; the "<< 9" of   *)
(* the code only changes the unit.  A buffer address keeps its byte        *)
(* granularity, because what matters of it is where it lies in a page.     *)
(*                                                                         *)
(* A call keeps nothing for the next one, so a behaviour is one call.      *)
(***************************************************************************)
EXTENDS ZbcRequests, ZbcErrorCodes

CONSTANTS
  SectorSize,    \* bytes of a sector (512)
  PageSectors,   \* sectors of a memory page (PAGE_SIZE >> 9)
  MaxRwSectors,  \* zbd_max_rw_sectors
  CountMax,      \* SSIZE_MAX >> 9
  LBlock,        \* sectors of a logical block
  PBlock,        \* sectors of a physical block
  NativeMax      \* most sectors of a native ATA command (65536)

ASSUME SizesAssumption ==
  /\ SectorSize \in Nat \ {0}
  /\ PageSectors \in Nat \ {0}
  /\ MaxRwSectors \in Nat
  /\ CountMax \in Nat
  /\ LBlock \in Nat \ {0}
  /\ PBlock \in Nat \ {0}
  /\ PBlock % LBlock = 0
  /\ NativeMax \in Nat
  /\ Sectors \in Nat
  /\ Sectors % LBlock = 0

\* In test mode the library leaves the alignment of requests to the caller.
ASSUME RequestsAssumption ==
  \A r \in Requests :
    /\ IsRequest(r)
    /\ r.test => r.offset % LBlock = 0

VARIABLES
  req,       \* the request being served
  log,       \* what moved so far: a sequence of placements
  ret,       \* the value returned by the last call that ended
  pc,        \* "call", "convert", "exec", "complete" or "done"
  count,     \* sectors the loop still aims at: the clipped request
  offset,    \* device sector of the next command
  rwOffset,  \* rd_iov_offset, wr_iov_offset: sectors done so far
  i,         \* zbc_iov_convert: index of the caller's buffer
  skip,      \* zbc_iov_convert: offset, what is left to skip
  out,       \* zbc_iov_convert: _iov, the buffers of the command
  taken,     \* zbc_iov_convert: count, the sectors in _iov
  nrPages,   \* zbc_iov_convert: nr_pages, the pages budgeted for _iov
  span,      \* the pages _iov really touches
  drvRet,    \* what the driver's preadv or pwritev returned
  devErr     \* whether the device failed a command of this call

loopVars == <<count, offset, rwOffset>>
convVars == <<i, skip, out, taken, nrPages, span>>
vars == <<pc, req, log, ret, loopVars, convVars, drvRet, devErr>>

PageSize == PageSectors * SectorSize
MaxPages == MaxRwSectors \div PageSectors

(***************************************************************************)
(* zbc_map_iov: cut one buffer into vectors of at most iovlen sectors.     *)
(***************************************************************************)
zbc_map_iov(base, sectors, iovcnt, iovlen) ==
  IF sectors = 0 \/ iovcnt <= 0 \/ sectors > iovcnt * iovlen
    THEN <<>>
    ELSE [k \in 1..CeilDiv(sectors, iovlen) |->
            [base |-> base + (k - 1) * iovlen * SectorSize,
             len  |-> IF k * iovlen <= sectors
                        THEN iovlen ELSE sectors - (k - 1) * iovlen]]

(***************************************************************************)
(* Entry of zbc_preadv, zbc_pwritev and of their zbc_do_ functions.        *)
(***************************************************************************)
Aligned(r) ==
  LET unit == IF r.op = "read" THEN LBlock ELSE PBlock
  IN  zbc_iov_count(r) % unit = 0 /\ r.offset % unit = 0

\* The code compares count << 9, which wraps for counts of 2^55 and more;
\* counts here are below that.
BadArguments(r) ==
  \/ Len(r.iov) = 0
  \/ zbc_iov_count(r) > CountMax
  \/ r.test /\ zbc_iov_count(r) = 0

Unaligned(r) == ~r.test /\ ~Aligned(r)

NothingToMove(r) ==
  ~r.test /\ (zbc_iov_count(r) = 0 \/ r.offset >= Sectors)

EarlyReturn(value) ==
  /\ pc = "call"
  /\ ret' = value
  /\ pc' = "done"
  /\ UNCHANGED <<req, log, loopVars, convVars, drvRet, devErr>>

RefuseArguments == BadArguments(req) /\ EarlyReturn(EINVAL)

RefuseUnaligned == ~BadArguments(req) /\ Unaligned(req) /\ EarlyReturn(EIO)

ReturnNothing ==
  /\ ~BadArguments(req) /\ ~Unaligned(req) /\ NothingToMove(req)
  /\ EarlyReturn(0)

\* rd_iov_count = count - rd_iov_offset and a fresh conversion.
StartConvert(done) ==
  /\ i' = 1
  /\ skip' = done
  /\ out' = <<>>
  /\ taken' = 0
  /\ nrPages' = 0
  /\ span' = 0

Enter ==
  /\ pc = "call"
  /\ ~BadArguments(req) /\ ~Unaligned(req) /\ ~NothingToMove(req)
  /\ count' = IF ~req.test /\ req.offset + zbc_iov_count(req) > Sectors
                THEN Sectors - req.offset
                ELSE zbc_iov_count(req)
  /\ offset' = req.offset
  /\ rwOffset' = 0
  /\ StartConvert(0)
  /\ pc' = "convert"
  /\ UNCHANGED <<req, log, ret, drvRet, devErr>>

(***************************************************************************)
(* zbc_iov_convert: one action per way through an iteration of its loop.   *)
(***************************************************************************)
Converting ==
  /\ pc = "convert"
  /\ i <= Len(req.iov)
  /\ taken < count - rwOffset
  /\ nrPages < MaxPages

ConvertSkip ==
  /\ Converting
  /\ skip >= req.iov[i].len
  /\ skip' = skip - req.iov[i].len
  /\ i' = i + 1
  /\ UNCHANGED <<pc, req, log, ret, loopVars, out, taken, nrPages, span,
                 drvRet, devErr>>

\* base_offset: where _iov[j].iov_base lies in its page.
BaseOffset == (req.iov[i].base + skip * SectorSize) % PageSize

Misaligned == IF BaseOffset = 0 THEN 0 ELSE 1

\* The part of the i-th buffer that the request still wants.
Want ==
  IF req.iov[i].len - skip > count - rwOffset - taken
    THEN count - rwOffset - taken ELSE req.iov[i].len - skip

\* Mutant of NeedPages: a buffer that straddles pages gets no extra one.
NeedPagesAligned == CeilDiv(Want, PageSectors)

\* The pages that part may need: np before the budget is applied.
NeedPages == CeilDiv(Want, PageSectors) + Misaligned

OverBudget == nrPages + NeedPages > MaxPages

PiecePages == IF OverBudget THEN MaxPages - nrPages ELSE NeedPages

PieceLen ==
  IF OverBudget /\ Want > (PiecePages - Misaligned) * PageSectors
    THEN (PiecePages - Misaligned) * PageSectors ELSE Want

\* The pages that len sectors starting baseoff bytes into a page touch.
PagesSpanned(baseoff, len) ==
  IF len = 0 THEN 0 ELSE CeilDiv(baseoff + len * SectorSize, PageSize)

ConvertTake ==
  /\ Converting
  /\ skip < req.iov[i].len
  /\ out' = Append(out, [vec |-> i, off |-> skip, len |-> PieceLen,
                         pos |-> taken])
  /\ skip' = 0
  /\ taken' = taken + PieceLen
  /\ nrPages' = nrPages + PiecePages
  /\ span' = span + PagesSpanned(BaseOffset, PieceLen)
  /\ i' = i + 1
  /\ UNCHANGED <<pc, req, log, ret, loopVars, drvRet, devErr>>

ConvertEnd ==
  /\ pc = "convert"
  /\ ~Converting
  /\ pc' = "exec"
  /\ UNCHANGED <<req, log, ret, loopVars, convVars, drvRet, devErr>>

(***************************************************************************)
(* The driver's preadv or pwritev.  The command addresses whole logical    *)
(* blocks (zbc_dev_sect2lba rounds down); the device moves some of them    *)
(* and reports the rest as residual, or it fails the command, possibly     *)
(* after some blocks moved.                                                *)
(***************************************************************************)
CmdSector == (offset \div LBlock) * LBlock
CmdCount  == (taken \div LBlock) * LBlock

\* The k-th sector of the command's buffers, as a place in the caller's.
PieceOf(k) ==
  CHOOSE m \in 1..Len(out) : out[m].pos <= k /\ k < out[m].pos + out[m].len

Placed(k) ==
  LET m == PieceOf(k)
  IN  [sector |-> CmdSector + k, vec |-> out[m].vec,
       off |-> out[m].off + k - out[m].pos]

DeviceMoves(n) ==
  log' = log \o [k \in 1..n |-> Placed(k - 1)]

\* The sectors of the command exist on the device.
InRange == CmdSector + CmdCount <= Sectors

\* The native driver refuses a command its 16-bit count cannot hold.
TooLarge == req.native /\ taken > NativeMax

ExecTooLarge ==
  /\ pc = "exec"
  /\ TooLarge
  /\ drvRet' = EINVAL
  /\ pc' = "complete"
  /\ UNCHANGED <<req, log, ret, loopVars, convVars, devErr>>

ExecOk ==
  /\ pc = "exec"
  /\ ~TooLarge
  /\ InRange
  /\ \E n \in 0..CmdCount :
       /\ n % LBlock = 0
       /\ DeviceMoves(n)
       /\ drvRet' = n
       /\ devErr' = (devErr \/ (n = 0 /\ CmdCount > 0))
  /\ pc' = "complete"
  /\ UNCHANGED <<req, ret, loopVars, convVars>>

\* The command fails; whatever the driver returns stands as EIO, since the
\* loop passes it on as it is.
ExecFail ==
  /\ pc = "exec"
  /\ ~TooLarge
  /\ \E n \in 0..CmdCount :
       /\ n % LBlock = 0
       /\ CmdSector + n <= Sectors
       /\ DeviceMoves(n)
  /\ drvRet' = EIO
  /\ devErr' = TRUE
  /\ pc' = "complete"
  /\ UNCHANGED <<req, ret, loopVars, convVars>>

(***************************************************************************)
(* The rest of the loop body: account for what moved, or give up.          *)
(***************************************************************************)
\* Mutant of GiveUp: a command that moved nothing is not an error.
GiveUpZero ==
  /\ pc = "complete"
  /\ drvRet <= 0
  /\ ret' = drvRet
  /\ pc' = "done"
  /\ UNCHANGED <<req, log, loopVars, convVars, drvRet, devErr>>

GiveUp ==
  /\ pc = "complete"
  /\ drvRet <= 0
  /\ ret' = IF drvRet = 0 THEN EIO ELSE drvRet
  /\ pc' = "done"
  /\ UNCHANGED <<req, log, loopVars, convVars, drvRet, devErr>>

\* Mutants of Advance: the device position moves by what was asked, the loop
\* runs once more than needed, or it tries again after nothing moved.
AdvanceWith(guard, step) ==
  /\ pc = "complete"
  /\ guard
  /\ offset' = offset + step
  /\ rwOffset' = rwOffset + drvRet
  /\ StartConvert(rwOffset + drvRet)
  /\ pc' = "convert"
  /\ UNCHANGED <<req, log, ret, count, drvRet, devErr>>

AdvanceByAsked ==
  AdvanceWith(drvRet > 0 /\ rwOffset + drvRet < count, taken)

AdvanceTooFar ==
  AdvanceWith(drvRet > 0 /\ rwOffset + drvRet <= count, drvRet)

AdvanceOnZero ==
  AdvanceWith(drvRet >= 0 /\ rwOffset + drvRet < count, drvRet)

Advance ==
  /\ pc = "complete"
  /\ drvRet > 0
  /\ rwOffset + drvRet < count
  /\ offset' = offset + drvRet
  /\ rwOffset' = rwOffset + drvRet
  /\ StartConvert(rwOffset + drvRet)
  /\ pc' = "convert"
  /\ UNCHANGED <<req, log, ret, count, drvRet, devErr>>

Return ==
  /\ pc = "complete"
  /\ drvRet > 0
  /\ rwOffset + drvRet >= count
  /\ offset' = offset + drvRet
  /\ rwOffset' = rwOffset + drvRet
  /\ ret' = count
  /\ pc' = "done"
  /\ UNCHANGED <<req, log, count, convVars, drvRet, devErr>>

Init ==
  /\ pc = "call"
  /\ req \in Requests
  /\ log = <<>>
  /\ ret = 0
  /\ count = 0 /\ offset = 0 /\ rwOffset = 0
  /\ i = 1 /\ skip = 0 /\ out = <<>> /\ taken = 0 /\ nrPages = 0 /\ span = 0
  /\ drvRet = 0
  /\ devErr = FALSE

Next ==
  \/ RefuseArguments \/ RefuseUnaligned \/ ReturnNothing \/ Enter
  \/ ConvertSkip \/ ConvertTake \/ ConvertEnd
  \/ ExecTooLarge \/ ExecOk \/ ExecFail
  \/ GiveUp \/ Advance \/ Return

Spec == Init /\ [][Next]_vars

\* Each step of a call is taken: the loops run on the caller's thread and
\* the kernel ends every command, with its timeout at the latest.
FairSpec == Spec /\ WF_vars(Next)

-----------------------------------------------------------------------------
(***************************************************************************)
(* Properties.                                                             *)
(***************************************************************************)
Piece == [vec : Nat, off : Nat, len : Nat, pos : Nat]

TypeOK ==
  /\ pc \in {"call", "convert", "exec", "complete", "done"}
  /\ IsRequest(req)
  /\ log \in Seq(Placement)
  /\ ret \in Int
  /\ count \in Nat /\ offset \in Nat /\ rwOffset \in Nat
  /\ i \in Nat \ {0} /\ skip \in Nat /\ taken \in Nat
  /\ out \in Seq(Piece)
  /\ nrPages \in Nat /\ span \in Nat
  /\ drvRet \in Int
  /\ devErr \in BOOLEAN

\* The vector handed to the driver can be mapped by the kernel: the pages
\* its buffers really touch, wherever they start in memory, are at most the
\* pages that zbd_max_rw_sectors allows (the purpose of zbc_iov_convert).
PageBudget == pc = "exec" => span <= MaxPages /\ taken <= MaxRwSectors

\* A command never reaches beyond the capacity: after clipping, every chunk
\* of the loop lies inside the device, also after short transfers.
WithinCapacity ==
  ~req.test /\ pc = "exec" => CmdSector + CmdCount <= Sectors

\* The limit leaves room for one logical block in the worst case, a block
\* made of single sectors that each straddle two pages.
RoomForABlock == MaxPages >= 2 * LBlock /\ (req.native => MaxRwSectors <= NativeMax)

\* A well formed and aligned request fails only if the device fails or
\* moves nothing: cutting it into commands never yields a command for no
\* block at all, which the loop would report as -EIO.
FailsOnlyWithDevice ==
  /\ RoomForABlock
  /\ ~req.test
  /\ pc = "done" /\ ~BadArguments(req) /\ ~Unaligned(req)
  => (ret < 0 => devErr)

\* Every call is an abstract transfer: the sectors move in order, each once,
\* between the right places, and a result that is not an error counts them.
Transfer ==
  INSTANCE ZbcTransfer WITH phase <- IF pc = "done" THEN "done" ELSE "call"

TransferSpec == Transfer!TSpec

\* Every call returns, also when the device keeps moving less than asked.
CallReturns == (pc = "call") ~> (pc = "done")

(***************************************************************************)
(* The inductive invariant behind these properties.  The loop invariant    *)
(* ties the three counters of the outer loop together; the conversion      *)
(* invariant says that _iov is, piece after piece, the run of the caller's *)
(* sectors from rwOffset on, within the page budget, and that a budget     *)
(* that ran out left at least one sector for every two pages.              *)
(***************************************************************************)
InLoop == pc \in {"convert", "exec", "complete"}

LoopInv ==
  InLoop =>
    /\ ~BadArguments(req) /\ ~Unaligned(req) /\ ~NothingToMove(req)
    /\ count = Wanted(req)
    /\ rwOffset < count
    /\ offset = req.offset + rwOffset
    /\ offset % LBlock = 0
    /\ ~req.test => (count - rwOffset) % LBlock = 0

PieceOK(p) ==
  /\ p.vec \in 1..Len(req.iov)
  /\ p.off + p.len <= req.iov[p.vec].len
  /\ req.pre[p.vec] + p.off = rwOffset + p.pos
  /\ p.pos + p.len <= taken

Covered(k) ==
  \E m \in 1..Len(out) : out[m].pos <= k /\ k < out[m].pos + out[m].len

ConvertInv ==
  InLoop =>
    /\ i <= Len(req.iov) + 1
    /\ taken <= count - rwOffset
    /\ span <= nrPages
    /\ nrPages <= MaxPages
    /\ taken <= nrPages * PageSectors
    /\ nrPages <= 2 * taken \/ (nrPages = MaxPages /\ MaxPages <= 2 * taken + 1)
    /\ taken < count - rwOffset /\ nrPages < MaxPages
         => req.pre[i] + skip = rwOffset + taken
    /\ pc /= "convert" => taken = count - rwOffset \/ nrPages = MaxPages
    /\ \A m \in 1..Len(out) : PieceOK(out[m])
    /\ \A k \in 0..(taken - 1) : Covered(k)

LogInv ==
  /\ pc = "call" => log = <<>>
  /\ pc \in {"convert", "exec"} => Len(log) = rwOffset
  /\ pc = "complete" =>
       /\ Len(log) <= count
       /\ drvRet > 0 => Len(log) = rwOffset + drvRet /\ drvRet % LBlock = 0
       /\ RoomForABlock /\ ~req.test /\ drvRet <= 0 => devErr

IndInv ==
  TypeOK /\ req \in Requests /\ LoopInv /\ ConvertInv /\ LogInv
  /\ FailsOnlyWithDevice
=============================================================================
