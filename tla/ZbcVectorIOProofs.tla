------------------------- MODULE ZbcVectorIOProofs -------------------------
(***************************************************************************)
(* Proofs about the vector read and write path, for every device geometry, *)
(* page size, command limit and set of requests.                           *)
(***************************************************************************)
EXTENDS ZbcVectorIO, ZbcArithmetic

\* Rounding up: enough for the value, never more units than the value.
LEMMA CeilDivFacts ==
  ASSUME NEW a \in Nat, NEW b \in Nat \ {0}
  PROVE  /\ CeilDiv(a, b) \in Nat
         /\ a <= b * CeilDiv(a, b)
         /\ CeilDiv(a, b) <= a
         /\ a > 0 => CeilDiv(a, b) > 0
<1> DEFINE q == (a + b - 1) \div b
<1>1. /\ q \in Nat /\ b * q <= a + b - 1 /\ a + b - 1 < b * q + b
  BY DivFacts
<1>2. q <= a
  <2>1. a <= b * a
    OBVIOUS
  <2>2. a + b - 1 < b * a + b BY <2>1
  <2> QED BY <2>2, DivUpper
<1> QED BY <1>1, <1>2 DEF CeilDiv

\* The sectors of a request and of its buffers are naturals.
LEMMA RequestFacts ==
  ASSUME NEW r, IsRequest(r)
  PROVE  /\ Len(r.iov) \in Nat
         /\ zbc_iov_count(r) \in Nat
         /\ r.offset \in Nat
         /\ \A k \in 1..Len(r.iov) :
              /\ r.iov[k].len \in Nat /\ r.iov[k].base \in Nat
              /\ r.pre[k] \in Nat /\ r.pre[k + 1] = r.pre[k] + r.iov[k].len
<1>1. r.iov \in Seq(Vector) /\ r.pre \in [1..(Len(r.iov) + 1) -> Nat]
  BY DEF IsRequest
<1>2. Len(r.iov) \in Nat
  BY <1>1
<1>3. ASSUME NEW k \in 1..Len(r.iov)
      PROVE  /\ r.iov[k].len \in Nat /\ r.iov[k].base \in Nat
             /\ r.pre[k] \in Nat /\ r.pre[k + 1] = r.pre[k] + r.iov[k].len
  <2>1. r.iov[k] \in Vector
    BY <1>1
  <2>2. r.iov[k].len \in Nat /\ r.iov[k].base \in Nat
    BY <2>1 DEF Vector
  <2>3. r.pre[k] \in Nat
    BY <1>1, <1>2
  <2>4. r.pre[k + 1] = r.pre[k] + r.iov[k].len
    BY DEF IsRequest
  <2> QED BY <2>2, <2>3, <2>4
<1>4. zbc_iov_count(r) \in Nat
  BY <1>1, <1>2 DEF zbc_iov_count
<1>5. r.offset \in Nat
  BY DEF IsRequest
<1> QED BY <1>2, <1>3, <1>4, <1>5

\* Where a conversion is under way, its buffer exists.
LEMMA ConvertingFacts ==
  ASSUME TypeOK, Converting
  PROVE  /\ i \in 1..Len(req.iov)
         /\ req.iov[i].len \in Nat /\ req.iov[i].base \in Nat
         /\ req.pre[i] \in Nat /\ req.pre[i + 1] = req.pre[i] + req.iov[i].len
<1>1. IsRequest(req)
  BY DEF TypeOK
<1>2. Len(req.iov) \in Nat
  BY <1>1, RequestFacts
<1>3. i \in 1..Len(req.iov)
  BY <1>2 DEF TypeOK, Converting
<1> QED BY <1>1, <1>3, RequestFacts

\* The command limit in pages.
LEMMA MaxPagesFacts ==
  /\ MaxPages \in Nat
  /\ MaxPages * PageSectors <= MaxRwSectors
  BY SizesAssumption, DivFacts DEF MaxPages

\* A page holds at least a sector.
LEMMA PageSizeFacts ==
  PageSize \in Nat \ {0}
  BY SizesAssumption DEF PageSize

(***************************************************************************)
(* What one iteration of zbc_iov_convert adds: the piece is not longer     *)
(* than wanted, the pages budgeted for it cover it wherever it starts, and *)
(* only an exhausted budget makes it shorter than wanted.                  *)
(***************************************************************************)
LEMMA PieceFacts ==
  ASSUME TypeOK, req \in Requests, LoopInv, ConvertInv, Converting,
         skip < req.iov[i].len
  PROVE  /\ Misaligned \in {0, 1}
         /\ Want \in Nat /\ Want > 0
         /\ Want <= req.iov[i].len - skip
         /\ Want <= count - rwOffset - taken
         /\ Want = req.iov[i].len - skip \/ Want = count - rwOffset - taken
         /\ PiecePages \in Nat /\ PiecePages > 0
         /\ PieceLen \in Nat /\ PieceLen <= Want
         /\ PieceLen <= (PiecePages - Misaligned) * PageSectors
         /\ nrPages + PiecePages <= MaxPages
         /\ PieceLen < Want => nrPages + PiecePages = MaxPages
         /\ PieceLen = Want \/ PieceLen = (PiecePages - Misaligned) * PageSectors
         /\ PieceLen = Want => PiecePages <= Want + 1
<1> USE SizesAssumption
<1>1. /\ i \in 1..Len(req.iov) /\ taken < count - rwOffset
      /\ nrPages < MaxPages /\ nrPages \in Nat /\ MaxPages \in Nat
      /\ count \in Nat /\ rwOffset \in Nat /\ taken \in Nat /\ skip \in Nat
      /\ req.iov[i].len \in Nat
  BY ConvertingFacts, MaxPagesFacts DEF TypeOK, Converting
<1>2. Misaligned \in {0, 1}
  BY DEF Misaligned
<1>3. /\ Want \in Nat /\ Want > 0
      /\ Want <= req.iov[i].len - skip
      /\ Want <= count - rwOffset - taken
      /\ Want = req.iov[i].len - skip \/ Want = count - rwOffset - taken
  BY <1>1 DEF Want
<1>4. /\ NeedPages \in Nat /\ NeedPages > 0
      /\ Want <= PageSectors * (NeedPages - Misaligned)
      /\ NeedPages - Misaligned <= Want
  <2>1. /\ CeilDiv(Want, PageSectors) \in Nat
        /\ Want <= PageSectors * CeilDiv(Want, PageSectors)
        /\ CeilDiv(Want, PageSectors) <= Want
        /\ CeilDiv(Want, PageSectors) > 0
    BY <1>3, CeilDivFacts
  <2>2. NeedPages - Misaligned = CeilDiv(Want, PageSectors)
    BY <2>1, <1>2 DEF NeedPages
  <2>3. NeedPages \in Nat /\ NeedPages > 0
    BY <2>1, <1>2 DEF NeedPages
  <2> QED BY <2>1, <2>2, <2>3
<1>5. CASE OverBudget
  <2>1. PiecePages = MaxPages - nrPages /\ PiecePages < NeedPages
    BY <1>1, <1>4, <1>5 DEF PiecePages, OverBudget
  <2>2. PiecePages \in Nat /\ PiecePages > 0 /\ nrPages + PiecePages = MaxPages
    <3>1. ASSUME NEW a \in Nat, NEW b \in Nat, a < b
          PROVE  b - a \in Nat /\ b - a > 0 /\ a + (b - a) = b
      BY <3>1
    <3>2. nrPages \in Nat /\ MaxPages \in Nat /\ nrPages < MaxPages
      BY <1>1
    <3> HIDE DEF MaxPages
    <3> QED BY <2>1, <3>1, <3>2
  <2>3. PiecePages - Misaligned \in Nat
    BY <2>2, <1>2
  <2>4. (PiecePages - Misaligned) * PageSectors \in Nat
    BY <2>3
  <2>5. /\ PieceLen \in Nat /\ PieceLen <= Want
        /\ PieceLen <= (PiecePages - Misaligned) * PageSectors
        /\ PieceLen = Want \/ PieceLen = (PiecePages - Misaligned) * PageSectors
    BY <1>3, <1>5, <2>4 DEF PieceLen
  <2> QED BY <1>1, <1>2, <1>3, <1>4, <2>1, <2>2, <2>5
<1>6. CASE ~OverBudget
  <2>1. PiecePages = NeedPages /\ PieceLen = Want
    BY <1>6 DEF PiecePages, PieceLen
  <2>2. nrPages + PiecePages <= MaxPages
    BY <2>1, <1>1, <1>4, <1>6 DEF OverBudget
  <2> QED BY <1>1, <1>2, <1>3, <1>4, <2>1, <2>2
<1> QED BY <1>5, <1>6

\* The pages budgeted for a piece cover the pages it touches in memory.
LEMMA SpanFacts ==
  ASSUME TypeOK, req \in Requests, LoopInv, ConvertInv, Converting,
         skip < req.iov[i].len
  PROVE  /\ PagesSpanned(BaseOffset, PieceLen) \in Nat
         /\ PagesSpanned(BaseOffset, PieceLen) <= PiecePages
<1> USE SizesAssumption
<1>1. /\ Misaligned \in {0, 1} /\ PiecePages \in Nat /\ PiecePages > 0
      /\ PieceLen \in Nat /\ PieceLen <= (PiecePages - Misaligned) * PageSectors
  BY PieceFacts
<1>2. /\ BaseOffset \in Nat /\ BaseOffset < PageSize
      /\ Misaligned = 0 => BaseOffset = 0
  <2>1. req.iov[i].base + skip * SectorSize \in Nat
    <3>1. req.iov[i].base \in Nat
      BY ConvertingFacts
    <3>2. skip \in Nat /\ SectorSize \in Nat
      BY DEF TypeOK
    <3> QED BY <3>1, <3>2
  <2> QED BY <2>1, PageSizeFacts, ModFacts DEF BaseOffset, Misaligned
<1>3. CASE PieceLen = 0
  BY <1>1, <1>3 DEF PagesSpanned
<1>4. CASE PieceLen # 0
  <2> DEFINE w == PiecePages - Misaligned
             x == BaseOffset + PieceLen * SectorSize
  <2>1. w \in Nat /\ PieceLen <= w * PageSectors
    BY <1>1
  <2>2. PieceLen * SectorSize <= PageSize * w
    <3>1. w * PageSectors \in Nat
      BY <2>1
    <3>2. SectorSize * PieceLen <= SectorSize * (w * PageSectors)
      BY <2>1, <3>1, <1>1, MulMono
    <3> QED BY <3>2, <2>1, <1>1 DEF PageSize
  <2>3. x \in Nat
    BY <1>1, <1>2
  <2>4. x + PageSize - 1 \in Nat
    BY <2>3, PageSizeFacts
  <2>5. x + PageSize - 1 < PageSize * PiecePages + PageSize
    <3>1. CASE Misaligned = 0
      BY <3>1, <2>2, <1>1, <1>2, PageSizeFacts
    <3>2. CASE Misaligned = 1
      <4>1. PageSize * w = PageSize * PiecePages - PageSize
        BY <3>2, <1>1, PageSizeFacts
      <4>2. PieceLen * SectorSize \in Nat
        BY <1>1
      <4> HIDE DEF w
      <4> QED BY <4>1, <4>2, <2>2, <1>1, <1>2, PageSizeFacts
    <3> QED BY <3>1, <3>2, <1>1
  <2>6. CeilDiv(x, PageSize) <= PiecePages
    BY <2>4, <2>5, <1>1, PageSizeFacts, DivUpper DEF CeilDiv
  <2>7. CeilDiv(x, PageSize) \in Nat
    BY <2>3, PageSizeFacts, CeilDivFacts
  <2> QED BY <1>4, <2>6, <2>7 DEF PagesSpanned
<1> QED BY <1>3, <1>4

-----------------------------------------------------------------------------
(***************************************************************************)
(* The inductive invariant holds initially and each action preserves it.   *)
(***************************************************************************)
LEMMA InitInv == Init => IndInv
<1> SUFFICES ASSUME Init PROVE IndInv
  OBVIOUS
<1>1. TypeOK
  <2>1. IsRequest(req)
    BY RequestsAssumption DEF Init
  <2>2. <<>> \in Seq(Placement) /\ <<>> \in Seq(Piece)
    OBVIOUS
  <2>3. log \in Seq(Placement) /\ out \in Seq(Piece)
    BY <2>2 DEF Init
  <2>4. devErr \in BOOLEAN
    BY DEF Init
  <2>5. /\ pc \in {"call", "convert", "exec", "complete", "done"}
        /\ ret \in Int /\ drvRet \in Int
        /\ count \in Nat /\ offset \in Nat /\ rwOffset \in Nat
        /\ i \in Nat \ {0} /\ skip \in Nat /\ taken \in Nat
        /\ nrPages \in Nat /\ span \in Nat
    BY DEF Init
  <2> QED BY <2>1, <2>3, <2>4, <2>5 DEF TypeOK
<1>2. LoopInv /\ ConvertInv /\ LogInv /\ FailsOnlyWithDevice
  BY DEF Init, LoopInv, ConvertInv, LogInv, InLoop, FailsOnlyWithDevice
<1> QED BY <1>1, <1>2 DEF IndInv, Init

\* Before the loop nothing moved; the refusals leave it that way.
LEMMA EarlyInv ==
  ASSUME IndInv, RefuseArguments \/ RefuseUnaligned \/ ReturnNothing
  PROVE  IndInv'
<1> USE DEF RefuseArguments, RefuseUnaligned, ReturnNothing, EarlyReturn,
            loopVars, convVars, EIO, EINVAL
<1>0. /\ pc = "call" /\ pc' = "done" /\ ret' \in Int
      /\ UNCHANGED <<req, log, count, offset, rwOffset, i, skip, taken, out,
                     nrPages, span, drvRet, devErr>>
  OBVIOUS
<1>1. TypeOK'
  <2> HIDE DEF RefuseArguments, RefuseUnaligned, ReturnNothing
  <2>1. TypeOK
    BY DEF IndInv
  <2>2. IsRequest(req)'
    BY <2>1, <1>0 DEF TypeOK, IsRequest
  <2> QED BY <1>0, <2>1, <2>2 DEF TypeOK
<1>2. LoopInv' /\ ConvertInv' /\ LogInv'
  <2> HIDE DEF RefuseArguments, RefuseUnaligned, ReturnNothing
  <2> QED BY <1>0 DEF IndInv, LoopInv, ConvertInv, LogInv, InLoop
<1>3. FailsOnlyWithDevice'
  <2>1. req' = req
    OBVIOUS
  <2>2. BadArguments(req)' <=> BadArguments(req)
    BY <2>1 DEF BadArguments, zbc_iov_count
  <2>3. Unaligned(req)' <=> Unaligned(req)
    BY <2>1 DEF Unaligned, Aligned, zbc_iov_count
  <2>4. BadArguments(req) \/ Unaligned(req) \/ ret' = 0
    OBVIOUS
  <2> QED BY <2>2, <2>3, <2>4 DEF FailsOnlyWithDevice
<1> QED BY <1>1, <1>2, <1>3 DEF IndInv

\* Entering the loop: the request is clipped to the capacity and aligned.
LEMMA EnterInv ==
  ASSUME IndInv, Enter
  PROVE  IndInv'
<1> USE SizesAssumption DEF Enter, StartConvert
<1>0. /\ IsRequest(req) /\ req \in Requests /\ pc = "call"
      /\ zbc_iov_count(req) \in Nat /\ req.offset \in Nat
      /\ Len(req.iov) \in Nat
  BY RequestFacts DEF IndInv, TypeOK
<1>1. count' = Wanted(req) /\ count' \in Nat /\ count' > 0
  BY <1>0 DEF Wanted, NothingToMove, BadArguments
<1>2. req.offset % LBlock = 0
  <2>1. CASE req.test
    BY <2>1, <1>0, RequestsAssumption
  <2>2. CASE ~req.test
    BY <2>2, <1>0, AlignedTrans DEF Unaligned, Aligned
  <2> QED BY <2>1, <2>2
<1>3. ~req.test => count' % LBlock = 0
  <2> SUFFICES ASSUME ~req.test PROVE count' % LBlock = 0
    OBVIOUS
  <2>1. zbc_iov_count(req) % LBlock = 0
    BY <1>0, AlignedTrans DEF Unaligned, Aligned
  <2>2. req.offset < Sectors
    BY <1>0 DEF NothingToMove
  <2>3. (Sectors - req.offset) % LBlock = 0
    BY <1>0, <1>2, <2>2, AlignedFacts
  <2> QED BY <2>1, <2>3
<1>4. TypeOK'
  BY <1>0, <1>1 DEF IndInv, TypeOK
<1>5. LoopInv'
  <2>1. req' = req /\ rwOffset' = 0 /\ offset' = req.offset
    OBVIOUS
  <2>2. (~BadArguments(req) /\ ~Unaligned(req) /\ ~NothingToMove(req))'
    BY <2>1
  <2>3. count' = Wanted(req')
    BY <2>1, <1>1
  <2>4. /\ rwOffset' < count' /\ offset' = req'.offset + rwOffset'
        /\ offset' % LBlock = 0 /\ count' - rwOffset' = count'
    BY <2>1, <1>0, <1>1, <1>2
  <2> QED BY <2>2, <2>3, <2>4, <1>3 DEF LoopInv
<1>6. ConvertInv'
  <2>1. req.pre[1] = 0
    BY <1>0 DEF IsRequest
  <2> QED BY <2>1, <1>0, <1>1, MaxPagesFacts DEF ConvertInv, InLoop, MaxPages
<1>7. LogInv' /\ FailsOnlyWithDevice'
  BY <1>0 DEF IndInv, LogInv, FailsOnlyWithDevice
<1> QED BY <1>0, <1>4, <1>5, <1>6, <1>7 DEF IndInv

\* Passing over a buffer that earlier commands already served.
LEMMA SkipInv ==
  ASSUME IndInv, ConvertSkip
  PROVE  IndInv'
<1> USE DEF ConvertSkip, loopVars
<1>0. /\ Converting /\ pc = "convert" /\ pc' = "convert"
      /\ i \in 1..Len(req.iov) /\ Len(req.iov) \in Nat
      /\ req.iov[i].len \in Nat /\ skip \in Nat
      /\ req.pre[i + 1] = req.pre[i] + req.iov[i].len /\ req.pre[i] \in Nat
  BY ConvertingFacts, RequestFacts DEF IndInv, TypeOK, Converting
<1>1. TypeOK'
  <2>1. skip' \in Nat /\ i' \in Nat \ {0}
    BY <1>0
  <2> QED BY <2>1, <1>0 DEF IndInv, TypeOK
<1>2. LoopInv'
  BY <1>0 DEF IndInv, LoopInv, InLoop, Wanted, BadArguments, Unaligned,
     Aligned, NothingToMove, zbc_iov_count
<1>3. ConvertInv'
  <2>1. ConvertInv /\ InLoop
    BY <1>0 DEF IndInv, InLoop
  <2>2. i' <= Len(req'.iov) + 1
    BY <1>0
  <2>3. req'.pre[i'] + skip' = rwOffset' + taken'
    <3>1. req.pre[i] + skip = rwOffset + taken
      BY <2>1, <1>0 DEF ConvertInv, Converting
    <3>2. /\ i' = i + 1 /\ skip' = skip - req.iov[i].len
          /\ req' = req /\ rwOffset' = rwOffset /\ taken' = taken
      OBVIOUS
    <3>3. req.pre[i + 1] + (skip - req.iov[i].len) = req.pre[i] + skip
      BY <1>0
    <3> QED BY <3>1, <3>2, <3>3
  <2>4. (\A m \in 1..Len(out) : PieceOK(out[m]))'
    BY <2>1 DEF ConvertInv, PieceOK
  <2>5. (\A k \in 0..(taken - 1) : Covered(k))'
    BY <2>1 DEF ConvertInv, Covered
  <2> QED BY <1>0, <2>1, <2>2, <2>3, <2>4, <2>5 DEF ConvertInv, MaxPages
<1>4. LogInv' /\ FailsOnlyWithDevice'
  BY <1>0 DEF IndInv, LogInv, FailsOnlyWithDevice
<1> QED BY <1>1, <1>2, <1>3, <1>4 DEF IndInv

\* Taking a piece keeps _iov a run of the caller's sectors within budget.
LEMMA TakeInv ==
  ASSUME IndInv, ConvertTake
  PROVE  IndInv'
<1> USE DEF ConvertTake, loopVars
<1> DEFINE p == [vec |-> i, off |-> skip, len |-> PieceLen, pos |-> taken]
<1>0. /\ Converting /\ pc = "convert" /\ pc' = "convert" /\ InLoop
      /\ i \in 1..Len(req.iov) /\ Len(req.iov) \in Nat
      /\ req.iov[i].len \in Nat /\ skip \in Nat /\ taken \in Nat
      /\ count \in Nat /\ rwOffset \in Nat /\ nrPages \in Nat /\ span \in Nat
      /\ req.pre[i + 1] = req.pre[i] + req.iov[i].len /\ req.pre[i] \in Nat
      /\ out \in Seq(Piece) /\ Len(out) \in Nat
  BY ConvertingFacts, RequestFacts DEF IndInv, TypeOK, Converting, InLoop
<1>1. /\ Misaligned \in {0, 1}
      /\ Want \in Nat /\ Want > 0
      /\ Want <= req.iov[i].len - skip
      /\ Want <= count - rwOffset - taken
      /\ Want = req.iov[i].len - skip \/ Want = count - rwOffset - taken
      /\ PiecePages \in Nat /\ PiecePages > 0
      /\ PieceLen \in Nat /\ PieceLen <= Want
      /\ PieceLen <= (PiecePages - Misaligned) * PageSectors
      /\ nrPages + PiecePages <= MaxPages
      /\ PieceLen < Want => nrPages + PiecePages = MaxPages
      /\ PieceLen = Want \/ PieceLen = (PiecePages - Misaligned) * PageSectors
      /\ PieceLen = Want => PiecePages <= Want + 1
  BY <1>0, PieceFacts DEF IndInv
<1>2. /\ PagesSpanned(BaseOffset, PieceLen) \in Nat
      /\ PagesSpanned(BaseOffset, PieceLen) <= PiecePages
  BY <1>0, SpanFacts DEF IndInv
<1>3. p \in Piece
  BY <1>0, <1>1 DEF Piece
<1>4. /\ out' = Append(out, p) /\ Len(out') = Len(out) + 1
      /\ out' \in Seq(Piece)
      /\ out'[Len(out) + 1] = p
      /\ \A m \in 1..Len(out) : out'[m] = out[m]
  <2>1. out' = Append(out, p) /\ out \in Seq(Piece)
    BY <1>0 DEF IndInv, TypeOK
  <2> HIDE DEF ConvertTake, p
  <2> QED BY <2>1, <1>3
<1>5. taken' = taken + PieceLen /\ nrPages' = nrPages + PiecePages
      /\ span' = span + PagesSpanned(BaseOffset, PieceLen)
      /\ i' = i + 1 /\ skip' = 0
  OBVIOUS
<1>6. UNCHANGED <<pc, req, log, ret, count, offset, rwOffset, drvRet, devErr>>
  OBVIOUS
<1> HIDE DEF ConvertTake, p
<1>7. TypeOK'
  <2>1. taken' \in Nat /\ nrPages' \in Nat /\ span' \in Nat
        /\ i' \in Nat \ {0} /\ skip' \in Nat
    <3>1. /\ PieceLen \in Nat /\ PiecePages \in Nat /\ i \in Nat \ {0}
          /\ taken \in Nat /\ nrPages \in Nat /\ span \in Nat
      BY <1>0, <1>1
    <3> QED BY <3>1, <1>2, <1>5
  <2> QED BY <2>1, <1>4, <1>6 DEF IndInv, TypeOK
<1>8. LoopInv'
  BY <1>0, <1>6 DEF IndInv, LoopInv, InLoop
<1>9. ConvertInv'
  <2>1. ConvertInv
    BY DEF IndInv
  <2>2. i' <= Len(req'.iov) + 1 /\ taken' <= count' - rwOffset'
    BY <1>0, <1>1, <1>5, <1>6
  <2>3. span' <= nrPages' /\ nrPages' <= MaxPages
    BY <1>0, <1>1, <1>2, <1>5, <2>1, MaxPagesFacts DEF ConvertInv
  <2>4. taken' <= nrPages' * PageSectors
    <3>1. (PiecePages - Misaligned) * PageSectors <= PiecePages * PageSectors
      BY <1>1, SizesAssumption
    <3>2. taken <= nrPages * PageSectors
      BY <1>0, <2>1 DEF ConvertInv
    <3>3. (nrPages + PiecePages) * PageSectors
            = nrPages * PageSectors + PiecePages * PageSectors
      BY <1>0, <1>1, SizesAssumption
    <3>4. /\ nrPages * PageSectors \in Nat /\ PiecePages * PageSectors \in Nat
          /\ (PiecePages - Misaligned) * PageSectors \in Int
      BY <1>0, <1>1, SizesAssumption
    <3> QED BY <1>0, <1>1, <1>5, <3>1, <3>2, <3>3, <3>4
  <2>5. \/ nrPages' <= 2 * taken'
        \/ nrPages' = MaxPages /\ MaxPages <= 2 * taken' + 1
    <3>1. nrPages <= 2 * taken
      BY <1>0, <2>1 DEF ConvertInv, Converting
    <3>2. CASE PieceLen = Want
      BY <3>1, <3>2, <1>0, <1>1, <1>5
    <3>3. CASE PieceLen < Want
      <4>1. PieceLen = (PiecePages - Misaligned) * PageSectors
        BY <3>3, <1>1
      <4>2. PieceLen >= PiecePages - Misaligned
        BY <4>1, <1>1, SizesAssumption
      <4>3. nrPages' = MaxPages
        BY <3>3, <1>1, <1>5
      <4> QED BY <3>1, <3>3, <4>2, <4>3, <1>0, <1>1, <1>5
    <3> QED BY <3>2, <3>3, <1>1
  <2>6. taken' < count' - rwOffset' /\ nrPages' < MaxPages
          => req'.pre[i'] + skip' = rwOffset' + taken'
    <3>1. req.pre[i] + skip = rwOffset + taken
      BY <1>0, <2>1 DEF ConvertInv, Converting
    <3>2. SUFFICES ASSUME taken' < count' - rwOffset', nrPages' < MaxPages
                   PROVE  req.pre[i + 1] = rwOffset + taken'
      BY <1>5, <1>6, <1>0, <1>1
    <3>3. PieceLen = Want
      BY <3>2, <1>0, <1>1, <1>5, MaxPagesFacts
    <3>4. Want = req.iov[i].len - skip
      BY <3>2, <3>3, <1>0, <1>1, <1>5, <1>6
    <3>5. taken' = taken + (req.iov[i].len - skip)
      BY <3>3, <3>4, <1>5
    <3>6. /\ req.pre[i + 1] = req.pre[i] + req.iov[i].len
          /\ req.pre[i] \in Nat /\ req.iov[i].len \in Nat /\ skip \in Nat
          /\ taken \in Nat /\ rwOffset \in Nat
      BY <1>0
    <3> QED BY <3>1, <3>5, <3>6
  <2>7. \A m \in 1..Len(out') : PieceOK(out[m])'
    <3> SUFFICES ASSUME NEW m \in 1..Len(out') PROVE PieceOK(out[m])'
      OBVIOUS
    <3>1. CASE m \in 1..Len(out)
      <4>1. PieceOK(out[m]) /\ out[m] \in Piece
        BY <3>1, <1>0, <2>1 DEF ConvertInv
      <4>2. taken <= taken' /\ taken' \in Nat
        BY <1>0, <1>1, <1>5
      <4>3. out[m].pos \in Nat /\ out[m].len \in Nat /\ out[m].off \in Nat
        BY <4>1 DEF Piece
      <4>4. out[m].pos + out[m].len <= taken'
        <5>1. out[m].pos + out[m].len <= taken /\ taken \in Nat
          BY <4>1, <1>0 DEF PieceOK
        <5> QED BY <5>1, <4>2, <4>3
      <4>5. out'[m] = out[m]
        BY <3>1, <1>4
      <4> QED BY <4>1, <4>4, <4>5, <1>6 DEF PieceOK
    <3>2. CASE m = Len(out) + 1
      <4>1. out'[m] = p
        BY <3>2, <1>4
      <4>2. req.pre[i] + skip = rwOffset + taken
        BY <1>0, <2>1 DEF ConvertInv, Converting
      <4>3. p.vec = i /\ p.off = skip /\ p.len = PieceLen /\ p.pos = taken
        BY DEF p
      <4>4. p.vec \in 1..Len(req.iov) /\ p.off + p.len <= req.iov[p.vec].len
        <5>1. i \in 1..Len(req.iov) /\ skip \in Nat /\ req.iov[i].len \in Nat
          BY <1>0
        <5>2. /\ PieceLen \in Nat /\ Want \in Nat /\ PieceLen <= Want
              /\ Want <= req.iov[i].len - skip
          BY <1>1
        <5> QED BY <4>3, <5>1, <5>2
      <4>5. p.pos + p.len <= taken'
        BY <4>3, <1>0, <1>1, <1>5
      <4>6. req.pre[p.vec] + p.off = rwOffset + p.pos
        BY <4>2, <4>3
      <4> QED BY <4>1, <4>4, <4>5, <4>6, <1>6 DEF PieceOK
    <3> QED BY <3>1, <3>2, <1>0, <1>4
  <2>8. \A k \in 0..(taken' - 1) : Covered(k)'
    <3> SUFFICES ASSUME NEW k \in 0..(taken' - 1) PROVE Covered(k)'
      OBVIOUS
    <3>1. CASE k \in 0..(taken - 1)
      <4>1. PICK m \in 1..Len(out) :
              out[m].pos <= k /\ k < out[m].pos + out[m].len
        BY <3>1, <1>0, <2>1 DEF ConvertInv, Covered
      <4>2. m \in 1..Len(out') /\ out'[m] = out[m]
        BY <1>0, <1>4
      <4> QED BY <4>1, <4>2 DEF Covered
    <3>2. CASE k \notin 0..(taken - 1)
      <4>1. taken <= k /\ k < taken + PieceLen
        BY <3>2, <1>0, <1>1, <1>5
      <4>2. p.pos = taken /\ p.len = PieceLen
        BY DEF p
      <4>3. Len(out) + 1 \in 1..Len(out') /\ out'[Len(out) + 1] = p
        BY <1>0, <1>4
      <4> QED BY <4>1, <4>2, <4>3 DEF Covered
    <3> QED BY <3>1, <3>2
  <2>9. pc' = "convert"
    BY <1>0
  <2> QED BY <2>2, <2>3, <2>4, <2>5, <2>6, <2>7, <2>8, <2>9, <1>6 DEF ConvertInv
<1>10. LogInv' /\ FailsOnlyWithDevice'
  BY <1>0, <1>6 DEF IndInv, LogInv, FailsOnlyWithDevice
<1> QED BY <1>6, <1>7, <1>8, <1>9, <1>10 DEF IndInv

\* The conversion ends because all that was wanted is in _iov or because the
\* budget ran out, never for lack of buffers.
LEMMA EndInv ==
  ASSUME IndInv, ConvertEnd
  PROVE  IndInv'
<1> USE DEF ConvertEnd, loopVars, convVars
<1>0. /\ pc = "convert" /\ pc' = "exec" /\ InLoop /\ InLoop'
      /\ UNCHANGED <<req, log, ret, count, offset, rwOffset, i, skip, out,
                     taken, nrPages, span, drvRet, devErr>>
  BY DEF InLoop
<1>1. TypeOK'
  BY <1>0 DEF IndInv, TypeOK
<1>2. LoopInv'
  BY <1>0 DEF IndInv, LoopInv
<1>3. ConvertInv'
  <2>1. ConvertInv /\ LoopInv /\ TypeOK
    BY DEF IndInv
  <2>2. taken = count - rwOffset \/ nrPages = MaxPages
    <3>1. SUFFICES ASSUME taken < count - rwOffset, nrPages < MaxPages
                   PROVE  FALSE
      BY <1>0, <2>1, MaxPagesFacts DEF ConvertInv, TypeOK
    <3>2. IsRequest(req) /\ Len(req.iov) \in Nat /\ zbc_iov_count(req) \in Nat
      BY <2>1, RequestFacts DEF TypeOK
    <3>3. i = Len(req.iov) + 1
      BY <1>0, <2>1, <3>1, <3>2 DEF ConvertInv, TypeOK, Converting
    <3>4. zbc_iov_count(req) + skip = rwOffset + taken
      BY <1>0, <2>1, <3>1, <3>3 DEF ConvertInv, zbc_iov_count
    <3>5. count <= zbc_iov_count(req)
      <4>1. count = Wanted(req) /\ req.offset \in Nat
        BY <1>0, <2>1, <3>2 DEF LoopInv, IsRequest
      <4> QED BY <4>1, <3>2, SizesAssumption DEF Wanted
    <3> QED BY <3>1, <3>2, <3>4, <3>5, <2>1 DEF TypeOK
  <2>3. (\A m \in 1..Len(out) : PieceOK(out[m]))'
    BY <1>0, <2>1 DEF ConvertInv, PieceOK
  <2>4. (\A k \in 0..(taken - 1) : Covered(k))'
    BY <1>0, <2>1 DEF ConvertInv, Covered
  <2> QED BY <1>0, <2>1, <2>2, <2>3, <2>4 DEF ConvertInv
<1>4. LogInv' /\ FailsOnlyWithDevice'
  BY <1>0 DEF IndInv, LogInv, FailsOnlyWithDevice
<1> QED BY <1>0, <1>1, <1>2, <1>3, <1>4 DEF IndInv

-----------------------------------------------------------------------------
\* The command of a chunk: it starts at the loop's offset, never holds more
\* than _iov, and holds a block whenever the limit leaves room for one.
LEMMA CmdFacts ==
  ASSUME IndInv, pc = "exec"
  PROVE  /\ offset \in Nat /\ taken \in Nat /\ rwOffset \in Nat /\ count \in Nat
         /\ CmdSector = offset
         /\ CmdCount \in Nat /\ CmdCount <= taken
         /\ taken <= count - rwOffset
         /\ taken <= MaxRwSectors
         /\ RoomForABlock /\ ~req.test => CmdCount > 0
<1> USE SizesAssumption
<1>0. /\ InLoop /\ TypeOK /\ LoopInv /\ ConvertInv
  BY DEF IndInv, InLoop
<1>1. offset \in Nat /\ taken \in Nat /\ rwOffset \in Nat /\ count \in Nat
      /\ nrPages \in Nat
  BY <1>0 DEF TypeOK
<1>2. CmdSector = offset
  <2>1. offset % LBlock = 0
    BY <1>0 DEF LoopInv
  <2> QED BY <1>1, <2>1, AlignedFacts DEF CmdSector
<1>3. /\ CmdCount \in Nat /\ CmdCount <= taken
      /\ taken >= LBlock => CmdCount > 0
  <2>1. /\ taken \div LBlock \in Nat /\ LBlock * (taken \div LBlock) <= taken
        /\ taken < LBlock * (taken \div LBlock) + LBlock
    BY <1>1, DivFacts
  <2>2. CmdCount = LBlock * (taken \div LBlock)
    BY <2>1 DEF CmdCount
  <2> QED BY <2>1, <2>2, <1>1
<1>4. taken <= count - rwOffset /\ taken <= nrPages * PageSectors
      /\ nrPages <= MaxPages
  BY <1>0 DEF ConvertInv
<1>5. taken <= MaxRwSectors
  <2>1. PageSectors * nrPages <= PageSectors * MaxPages
    BY <1>1, <1>4, MaxPagesFacts, MulMono
  <2>2. nrPages * PageSectors = PageSectors * nrPages
        /\ MaxPages * PageSectors = PageSectors * MaxPages
        /\ PageSectors * nrPages \in Nat /\ PageSectors * MaxPages \in Nat
    BY <1>1, MaxPagesFacts
  <2> QED BY <2>1, <2>2, <1>1, <1>4, MaxPagesFacts
<1>6. ASSUME RoomForABlock, ~req.test PROVE taken >= LBlock
  <2>1. CASE taken = count - rwOffset
    <3>1. taken > 0 /\ taken % LBlock = 0
      BY <2>1, <1>0, <1>1, <1>6 DEF LoopInv
    <3>2. taken = LBlock * (taken \div LBlock) /\ taken \div LBlock \in Nat
      BY <3>1, <1>1, ModFacts, DivFacts
    <3>3. taken \div LBlock >= 1
      BY <3>1, <3>2
    <3> QED BY <3>2, <3>3, <1>1, MulMono
  <2>2. CASE nrPages = MaxPages
    <3>1. MaxPages <= 2 * taken + 1
      BY <2>2, <1>0, <1>1, MaxPagesFacts DEF ConvertInv
    <3> QED BY <3>1, <1>1, <1>6, MaxPagesFacts DEF RoomForABlock
  <2> QED BY <2>1, <2>2, <1>0 DEF ConvertInv
<1> QED BY <1>1, <1>2, <1>3, <1>4, <1>5, <1>6

\* Each sector the device moves is the next one of the request and goes to
\* or comes from its own place in the caller's buffers.
LEMMA PlacedFacts ==
  ASSUME IndInv, pc = "exec", NEW k \in 0..(taken - 1)
  PROVE  /\ Placed(k) \in Placement
         /\ IsPlacement(req, rwOffset + k + 1, Placed(k))
<1> DEFINE m == PieceOf(k)
           q == out[m]
<1>0. /\ InLoop /\ TypeOK /\ LoopInv /\ ConvertInv
  BY DEF IndInv, InLoop
<1>1. m \in 1..Len(out) /\ q.pos <= k /\ k < q.pos + q.len
  <2>1. \E n \in 1..Len(out) : out[n].pos <= k /\ k < out[n].pos + out[n].len
    BY <1>0 DEF ConvertInv, Covered
  <2> QED BY <2>1 DEF PieceOf
<1>2. PieceOK(q) /\ q \in Piece
  BY <1>0, <1>1 DEF ConvertInv, TypeOK
<1>3. /\ q.vec \in 1..Len(req.iov) /\ q.off + q.len <= req.iov[q.vec].len
      /\ req.pre[q.vec] + q.off = rwOffset + q.pos
  BY <1>2 DEF PieceOK
<1>4. q.vec \in Nat /\ q.off \in Nat /\ q.len \in Nat /\ q.pos \in Nat
  BY <1>2 DEF Piece
<1>5. /\ k \in Nat /\ rwOffset \in Nat /\ offset \in Nat /\ req.offset \in Nat
      /\ IsRequest(req)
  BY <1>0, RequestFacts DEF TypeOK
<1>6. CmdSector = offset /\ offset = req.offset + rwOffset
  BY <1>0, CmdFacts DEF LoopInv
<1>7. Placed(k) = [sector |-> CmdSector + k, vec |-> q.vec,
                   off |-> q.off + k - q.pos]
  BY DEF Placed
<1>8. req.iov[q.vec].len \in Nat /\ req.pre[q.vec] \in Nat
  BY <1>3, <1>5, RequestFacts
<1> HIDE DEF m, q
<1>9. q.off + k - q.pos \in 0..(req.iov[q.vec].len - 1)
  <2>1. ASSUME NEW o \in Nat, NEW l \in Nat, NEW p \in Nat, NEW n \in Nat,
               p <= k, k < p + l, o + l <= n
        PROVE  o + k - p \in 0..(n - 1)
    BY <1>5, <2>1
  <2> QED BY <2>1, <1>1, <1>3, <1>4, <1>8
<1>10. req.pre[q.vec] + (q.off + k - q.pos) = (rwOffset + k + 1) - 1
  <2>1. ASSUME NEW o \in Nat, NEW p \in Nat, NEW b \in Nat,
               b + o = rwOffset + p
        PROVE  b + (o + k - p) = (rwOffset + k + 1) - 1
    BY <1>5, <2>1
  <2> QED BY <2>1, <1>3, <1>4, <1>8
<1>11. CmdSector + k \in Nat /\ CmdSector + k = req.offset + (rwOffset + k + 1) - 1
  BY <1>5, <1>6
<1>12. Placed(k) \in Placement
  BY <1>4, <1>7, <1>9, <1>11, <1>8 DEF Placement
<1>13. IsPlacement(req, rwOffset + k + 1, Placed(k))
  BY <1>3, <1>7, <1>9, <1>10, <1>11 DEF IsPlacement
<1> QED BY <1>12, <1>13

\* What DeviceMoves(n) appends.
LEMMA MovesFacts ==
  ASSUME IndInv, pc = "exec", NEW n \in 0..CmdCount, DeviceMoves(n)
  PROVE  /\ log' \in Seq(Placement)
         /\ Len(log') = rwOffset + n
         /\ Len(log) = rwOffset
         /\ rwOffset + n <= count
         /\ \A k \in 1..Len(log) : log'[k] = log[k]
         /\ \A k \in (Len(log) + 1)..Len(log') : IsPlacement(req, k, log'[k])
<1> DEFINE new == [k \in 1..n |-> Placed(k - 1)]
<1>0. log' = log \o new
  BY DEF DeviceMoves
<1>1. log \in Seq(Placement) /\ Len(log) = rwOffset /\ rwOffset \in Nat
  BY DEF IndInv, TypeOK, LogInv
<1>2. n \in Nat /\ n <= taken /\ taken \in Nat /\ count \in Nat
      /\ taken <= count - rwOffset
  BY CmdFacts
<1>3. \A k \in 1..n : /\ Placed(k - 1) \in Placement
                      /\ IsPlacement(req, rwOffset + k, Placed(k - 1))
  <2> SUFFICES ASSUME NEW k \in 1..n
               PROVE  /\ Placed(k - 1) \in Placement
                      /\ IsPlacement(req, rwOffset + k, Placed(k - 1))
    OBVIOUS
  <2>1. k - 1 \in 0..(taken - 1) /\ rwOffset + (k - 1) + 1 = rwOffset + k
    BY <1>1, <1>2
  <2>2. Placed(k - 1) \in Placement
        /\ IsPlacement(req, rwOffset + (k - 1) + 1, Placed(k - 1))
    BY <2>1, PlacedFacts
  <2> QED BY <2>1, <2>2
<1>4. new \in Seq(Placement) /\ Len(new) = n
  BY <1>2, <1>3
<1>5. /\ log' \in Seq(Placement) /\ Len(log') = rwOffset + n
      /\ \A k \in 1..Len(log) : log'[k] = log[k]
      /\ \A k \in (rwOffset + 1)..(rwOffset + n) : log'[k] = new[k - rwOffset]
  <2> HIDE DEF new
  <2>1. log' \in Seq(Placement) /\ Len(log') = Len(log) + Len(new)
    <3>1. ASSUME NEW T, NEW a \in Seq(T), NEW b \in Seq(T)
          PROVE  a \o b \in Seq(T) /\ Len(a \o b) = Len(a) + Len(b)
      OBVIOUS
    <3> QED BY <1>0, <1>1, <1>4, <3>1
  <2>2. \A k \in 1..Len(log) : log'[k] = log[k]
    BY <1>0, <1>1, <1>4
  <2>3. \A k \in (Len(log) + 1)..(Len(log) + Len(new)) : log'[k] = new[k - Len(log)]
    BY <1>0, <1>1, <1>4
  <2> QED BY <1>1, <1>4, <2>1, <2>2, <2>3
<1>6. ASSUME NEW k \in (rwOffset + 1)..(rwOffset + n)
      PROVE  IsPlacement(req, k, log'[k])
  <2>1. k - rwOffset \in 1..n /\ rwOffset + (k - rwOffset) = k
    BY <1>1, <1>2
  <2>2. log'[k] = Placed((k - rwOffset) - 1)
    BY <1>5, <2>1
  <2>3. IsPlacement(req, rwOffset + (k - rwOffset), Placed((k - rwOffset) - 1))
    BY <1>3, <2>1
  <2> QED BY <2>1, <2>2, <2>3
<1> QED BY <1>1, <1>2, <1>5, <1>6

\* A step that only moves pc on within the loop keeps the loop and the
\* conversion invariant.
LEMMA StayInLoop ==
  ASSUME IndInv, pc = "exec", pc' = "complete",
         UNCHANGED <<req, count, offset, rwOffset, i, skip, out, taken,
                     nrPages, span>>
  PROVE  LoopInv' /\ ConvertInv'
<1>0. InLoop /\ LoopInv /\ ConvertInv
  BY DEF IndInv, InLoop
<1>1. LoopInv'
  BY <1>0 DEF LoopInv
<1>2. (\A m \in 1..Len(out) : PieceOK(out[m]))'
  BY <1>0 DEF ConvertInv, PieceOK
<1>3. (\A k \in 0..(taken - 1) : Covered(k))'
  BY <1>0 DEF ConvertInv, Covered
<1>4. ConvertInv'
  BY <1>0, <1>2, <1>3 DEF ConvertInv
<1> QED BY <1>1, <1>4

\* A command ends in one of three ways; only the device makes it move
\* nothing, as long as the limit leaves room for a block.
LEMMA ExecInv ==
  ASSUME IndInv, ExecTooLarge \/ ExecOk \/ ExecFail
  PROVE  IndInv'
<1> USE SizesAssumption DEF loopVars, convVars
<1>0. /\ pc = "exec" /\ pc' = "complete"
      /\ UNCHANGED <<req, ret, count, offset, rwOffset, i, skip, out, taken,
                     nrPages, span>>
  BY DEF ExecTooLarge, ExecOk, ExecFail
<1>1. LoopInv' /\ ConvertInv'
  BY <1>0, StayInLoop
<1>2. FailsOnlyWithDevice'
  BY <1>0 DEF FailsOnlyWithDevice
<1>3. /\ CmdCount \in Nat /\ taken \in Nat /\ taken <= MaxRwSectors
      /\ rwOffset \in Nat /\ count \in Nat /\ rwOffset < count
      /\ RoomForABlock /\ ~req.test => CmdCount > 0
  BY <1>0, CmdFacts DEF IndInv, LoopInv, InLoop
<1>4. TypeOK /\ log \in Seq(Placement) /\ Len(log) = rwOffset
  BY <1>0 DEF IndInv, TypeOK, LogInv
<1>5. CASE ExecTooLarge
  <2>1. drvRet' = EINVAL /\ log' = log /\ devErr' = devErr /\ TooLarge
    BY <1>5 DEF ExecTooLarge
  <2>2. TypeOK'
    BY <2>1, <1>0, <1>4 DEF TypeOK, EINVAL
  <2>3. ~RoomForABlock
    BY <2>1, <1>3 DEF RoomForABlock, TooLarge
  <2>4. LogInv'
    BY <2>1, <2>3, <1>0, <1>3, <1>4 DEF LogInv, EINVAL, RoomForABlock, MaxPages
  <2> QED BY <1>0, <1>1, <1>2, <2>2, <2>4 DEF IndInv
<1>6. CASE ExecOk
  <2>1. PICK n \in 0..CmdCount :
          /\ n % LBlock = 0 /\ DeviceMoves(n) /\ drvRet' = n
          /\ devErr' = (devErr \/ (n = 0 /\ CmdCount > 0))
    BY <1>6 DEF ExecOk
  <2>2. /\ log' \in Seq(Placement) /\ Len(log') = rwOffset + n
        /\ rwOffset + n <= count /\ n \in Nat
    BY <1>0, <1>3, <2>1, MovesFacts
  <2>3. TypeOK'
    <3>1. devErr' \in BOOLEAN
      BY <2>1
    <3>2. drvRet' \in Int
      BY <2>1, <2>2
    <3> QED BY <3>1, <3>2, <2>2, <1>0, <1>4 DEF TypeOK
  <2>4. LogInv'
    <3>1. Len(log') <= count' /\ (drvRet' > 0 => Len(log') = rwOffset' + drvRet'
                                                /\ drvRet' % LBlock = 0)
      BY <2>1, <2>2, <1>0
    <3>2. ASSUME RoomForABlock, ~req.test, drvRet' <= 0
          PROVE  devErr'
      <4>1. n = 0
        BY <3>2, <2>1, <2>2
      <4>2. CmdCount > 0
        BY <3>2, <1>3
      <4> QED BY <4>1, <4>2, <2>1, Zenon
    <3> QED BY <3>1, <3>2, <1>0 DEF LogInv, RoomForABlock, MaxPages
  <2> QED BY <1>0, <1>1, <1>2, <2>3, <2>4 DEF IndInv
<1>7. CASE ExecFail
  <2>1. PICK n \in 0..CmdCount : DeviceMoves(n)
    BY <1>7 DEF ExecFail
  <2>2. /\ log' \in Seq(Placement) /\ Len(log') = rwOffset + n
        /\ rwOffset + n <= count /\ n \in Nat
    BY <1>0, <1>3, <2>1, MovesFacts
  <2>3. drvRet' = EIO /\ devErr' = TRUE
    BY <1>7 DEF ExecFail
  <2>4. TypeOK'
    BY <2>2, <2>3, <1>0, <1>4 DEF TypeOK, EIO
  <2>5. LogInv'
    BY <2>2, <2>3, <1>0 DEF LogInv, EIO
  <2> QED BY <1>0, <1>1, <1>2, <2>4, <2>5 DEF IndInv
<1> QED BY <1>5, <1>6, <1>7

\* The loop goes on with the rest of the request, still aligned.
LEMMA AdvanceInv ==
  ASSUME IndInv, Advance
  PROVE  IndInv'
<1>0. /\ pc = "complete" /\ pc' = "convert" /\ InLoop
      /\ UNCHANGED <<req, log, ret, count, drvRet, devErr>>
      /\ TypeOK /\ LoopInv /\ LogInv
  BY DEF IndInv, InLoop, Advance
<1>1. /\ drvRet \in Nat /\ drvRet > 0 /\ drvRet % LBlock = 0
      /\ Len(log) = rwOffset + drvRet
      /\ count \in Nat /\ rwOffset \in Nat /\ offset \in Nat
      /\ rwOffset + drvRet < count /\ LBlock \in Nat \ {0}
  BY <1>0, SizesAssumption DEF TypeOK, LogInv, Advance
<1>a. /\ offset' = offset + drvRet /\ rwOffset' = rwOffset + drvRet
      /\ taken' = 0 /\ nrPages' = 0 /\ span' = 0 /\ i' = 1 /\ out' = <<>>
      /\ skip' = rwOffset'
  BY DEF Advance, StartConvert
<1>2. TypeOK'
  <2>1. offset' \in Nat /\ rwOffset' \in Nat
    BY <1>1, <1>a
  <2> QED BY <1>0, <1>a, <2>1 DEF TypeOK
<1>3. LoopInv'
  <2>1. offset' % LBlock = 0
    <3>1. offset % LBlock = 0
      BY <1>0 DEF LoopInv
    <3> QED BY <3>1, <1>1, <1>a, AlignedFacts
  <2>2. ~req.test => (count' - rwOffset') % LBlock = 0
    <3> SUFFICES ASSUME ~req.test PROVE (count' - rwOffset') % LBlock = 0
      OBVIOUS
    <3>1. (count - rwOffset) % LBlock = 0 /\ count - rwOffset \in Nat
      <4>1. (count - rwOffset) % LBlock = 0
        BY <1>0 DEF LoopInv
      <4>2. count - rwOffset \in Nat
        BY <1>1
      <4> QED BY <4>1, <4>2
    <3>2. ((count - rwOffset) - drvRet) % LBlock = 0
      <4>1. count - rwOffset >= drvRet
        BY <1>1
      <4>2. ASSUME NEW left \in Nat, left % LBlock = 0, left >= drvRet
            PROVE  (left - drvRet) % LBlock = 0
        BY <4>2, <1>1, AlignedFacts
      <4> QED BY <3>1, <4>1, <4>2
    <3>3. count' - rwOffset' = (count - rwOffset) - drvRet
      BY <1>0, <1>1, <1>a
    <3> QED BY <3>2, <3>3
  <2>3. (~BadArguments(req) /\ ~Unaligned(req) /\ ~NothingToMove(req))'
    BY <1>0 DEF LoopInv
  <2>4. count' = Wanted(req')
    BY <1>0 DEF LoopInv
  <2>5. rwOffset' < count' /\ offset' = req'.offset + rwOffset'
    <3>1. offset = req.offset + rwOffset /\ req.offset \in Nat
      BY <1>0, RequestFacts DEF LoopInv, TypeOK
    <3>2. /\ offset' = offset + drvRet /\ rwOffset' = rwOffset + drvRet
          /\ count' = count /\ req'.offset = req.offset
      BY <1>0, <1>a
    <3>3. /\ rwOffset + drvRet < count /\ drvRet \in Nat /\ rwOffset \in Nat
          /\ offset \in Nat
      BY <1>1
    <3>4. offset + drvRet = req.offset + (rwOffset + drvRet)
      BY <3>1, <3>3
    <3>5. rwOffset' < count'
      BY <3>2, <3>3
    <3>6. offset' = req'.offset + rwOffset'
      BY <3>2, <3>4
    <3> QED BY <3>5, <3>6
  <2> QED BY <1>0, <2>1, <2>2, <2>3, <2>4, <2>5 DEF LoopInv
<1>4. ConvertInv'
  <2>1. req'.pre[1] = 0 /\ Len(req'.iov) \in Nat
    BY <1>0, RequestFacts DEF TypeOK, IsRequest
  <2>2. taken' = 0 /\ nrPages' = 0 /\ span' = 0 /\ i' = 1 /\ out' = <<>>
        /\ skip' = rwOffset' /\ rwOffset' = rwOffset + drvRet /\ count' = count
    BY <1>0, <1>a
  <2>3. taken' <= count' - rwOffset'
    BY <2>2, <1>1
  <2>4. MaxPages' = MaxPages /\ MaxPages \in Nat
    BY MaxPagesFacts DEF MaxPages
  <2>5. taken' <= nrPages' * PageSectors
    BY <2>2, SizesAssumption
  <2> QED BY <2>1, <2>2, <2>3, <2>4, <2>5, <1>0, <1>1 DEF ConvertInv
<1>5. LogInv' /\ FailsOnlyWithDevice'
  BY <1>0, <1>1, <1>a DEF LogInv, FailsOnlyWithDevice
<1> QED BY <1>0, <1>2, <1>3, <1>4, <1>5 DEF IndInv

\* The two ways out of the loop.
LEMMA LeaveInv ==
  ASSUME IndInv, GiveUp \/ Return
  PROVE  IndInv'
<1> USE DEF GiveUp, Return, loopVars, convVars
<1>0. /\ pc = "complete" /\ pc' = "done" /\ InLoop /\ ~InLoop'
      /\ UNCHANGED <<req, log, count, drvRet, devErr>>
      /\ TypeOK /\ LoopInv /\ LogInv
  BY DEF IndInv, InLoop
<1>1. TypeOK'
  <2>1. ret' \in Int /\ offset' \in Nat /\ rwOffset' \in Nat
    BY <1>0 DEF TypeOK, EIO
  <2> QED BY <2>1, <1>0 DEF TypeOK
<1>2. LoopInv' /\ ConvertInv' /\ LogInv'
  BY <1>0 DEF LoopInv, ConvertInv, LogInv
<1>3. FailsOnlyWithDevice'
  <2>1. CASE GiveUp
    <3>1. RoomForABlock /\ ~req.test => devErr
      BY <2>1, <1>0 DEF LogInv
    <3> QED BY <3>1, <1>0 DEF FailsOnlyWithDevice, RoomForABlock, MaxPages
  <2>2. CASE Return
    BY <2>2, <1>0 DEF FailsOnlyWithDevice, TypeOK
  <2> QED BY <2>1, <2>2
<1> QED BY <1>0, <1>1, <1>2, <1>3 DEF IndInv

\* A stuttering step.
LEMMA StutterInv ==
  ASSUME IndInv, UNCHANGED vars
  PROVE  IndInv'
<1> USE DEF vars, loopVars, convVars
<1>1. TypeOK'
  BY DEF IndInv, TypeOK
<1>2. LoopInv' /\ LogInv' /\ FailsOnlyWithDevice'
  BY DEF IndInv, LoopInv, LogInv, FailsOnlyWithDevice, InLoop, RoomForABlock
<1>3. ConvertInv'
  <2>0. ConvertInv
    BY DEF IndInv
  <2>1. InLoop => (\A m \in 1..Len(out) : PieceOK(out[m]))'
    BY <2>0 DEF ConvertInv, PieceOK
  <2>2. InLoop => (\A k \in 0..(taken - 1) : Covered(k))'
    BY <2>0 DEF ConvertInv, Covered
  <2> QED BY <2>0, <2>1, <2>2 DEF ConvertInv, InLoop
<1> QED BY <1>1, <1>2, <1>3 DEF IndInv

\* Every step of a call keeps the inductive invariant.
LEMMA NextInv ==
  ASSUME IndInv, [Next]_vars
  PROVE  IndInv'
  BY EarlyInv, EnterInv, SkipInv, TakeInv, EndInv, ExecInv, AdvanceInv,
     LeaveInv, StutterInv DEF Next

-----------------------------------------------------------------------------
\* The inductive invariant holds throughout every call.
THEOREM Invariance == Spec => []IndInv
<1>1. IndInv /\ [Next]_vars => IndInv'
  BY NextInv
<1> QED BY InitInv, <1>1, PTL DEF Spec

\* Type correctness of the read and write path.
THEOREM TypeCorrect == Spec => []TypeOK
<1>1. IndInv => TypeOK
  BY DEF IndInv
<1> QED BY <1>1, Invariance, PTL

\* Whatever the buffers and the device geometry, the vector handed to the
\* driver touches at most the pages that the command limit allows.
THEOREM PageBudgetHolds == Spec => []PageBudget
<1>1. IndInv => PageBudget
  <2> SUFFICES ASSUME IndInv, pc = "exec"
               PROVE  span <= MaxPages /\ taken <= MaxRwSectors
    BY DEF PageBudget
  <2>1. span <= nrPages /\ nrPages <= MaxPages /\ span \in Nat /\ nrPages \in Nat
    BY DEF IndInv, ConvertInv, InLoop, TypeOK
  <2> QED BY <2>1, CmdFacts, MaxPagesFacts
<1> QED BY <1>1, Invariance, PTL

\* No command of a clipped request reaches beyond the capacity.
THEOREM WithinCapacityHolds == Spec => []WithinCapacity
<1>1. IndInv => WithinCapacity
  <2> SUFFICES ASSUME IndInv, ~req.test, pc = "exec"
               PROVE  CmdSector + CmdCount <= Sectors
    BY DEF WithinCapacity
  <2>1. /\ offset = req.offset + rwOffset /\ count = Wanted(req)
        /\ ~NothingToMove(req) /\ IsRequest(req)
    BY DEF IndInv, LoopInv, InLoop, TypeOK
  <2>2. req.offset \in Nat /\ zbc_iov_count(req) \in Nat
    BY <2>1, RequestFacts
  <2>3. req.offset + count <= Sectors
    BY <2>1, <2>2, SizesAssumption DEF Wanted, NothingToMove
  <2> QED BY <2>1, <2>2, <2>3, CmdFacts, SizesAssumption
<1> QED BY <1>1, Invariance, PTL

\* An aligned request fails only because the device did, whenever the
\* command limit leaves room for one block of scattered sectors.
THEOREM FailsOnlyWithDeviceHolds == Spec => []FailsOnlyWithDevice
<1>1. IndInv => FailsOnlyWithDevice
  BY DEF IndInv
<1> QED BY <1>1, Invariance, PTL

-----------------------------------------------------------------------------
(***************************************************************************)
(* Refinement: every step of the loops is a step of the abstract transfer  *)
(* or leaves it unchanged.                                                 *)
(***************************************************************************)
LEMMA RefineStep ==
  ASSUME IndInv, [Next]_vars
  PROVE  [Transfer!TNext]_(Transfer!tvars)
<1> DEFINE ph == IF pc = "done" THEN "done" ELSE "call"
<1> USE DEF loopVars, convVars, Transfer!tvars
<1>1. CASE RefuseArguments \/ RefuseUnaligned
  <2>1. pc = "call" /\ pc' = "done" /\ ret' \in Int /\ ret' < 0
        /\ UNCHANGED <<req, log>>
    BY <1>1 DEF RefuseArguments, RefuseUnaligned, EarlyReturn, EIO, EINVAL
  <2>2. Transfer!Fail
    BY <2>1 DEF Transfer!Fail
  <2> QED BY <2>2 DEF Transfer!TNext
<1>2. CASE ReturnNothing
  <2>1. pc = "call" /\ pc' = "done" /\ ret' = 0 /\ UNCHANGED <<req, log>>
        /\ NothingToMove(req) /\ log = <<>> /\ IsRequest(req)
    BY <1>2 DEF ReturnNothing, EarlyReturn, IndInv, LogInv, TypeOK
  <2>2. req.offset \in Nat /\ zbc_iov_count(req) \in Nat
    BY <2>1, RequestFacts
  <2>3. Wanted(req) = 0
    BY <2>1, <2>2, SizesAssumption DEF NothingToMove, Wanted
  <2>4. Transfer!Succeed
    BY <2>1, <2>3 DEF Transfer!Succeed, Transfer!Wanted, Wanted,
       Transfer!zbc_iov_count, zbc_iov_count
  <2> QED BY <2>4 DEF Transfer!TNext
<1>3. CASE Enter \/ ConvertSkip \/ ConvertTake \/ ConvertEnd \/ ExecTooLarge
           \/ Advance \/ UNCHANGED vars
  BY <1>3 DEF Enter, ConvertSkip, ConvertTake, ConvertEnd, Converting,
     ExecTooLarge, Advance, vars
<1>4. CASE ExecOk \/ ExecFail
  <2>1. PICK n \in 0..CmdCount : DeviceMoves(n)
    BY <1>4 DEF ExecOk, ExecFail
  <2>2. pc = "exec" /\ pc' = "complete" /\ UNCHANGED <<req, ret>>
    BY <1>4 DEF ExecOk, ExecFail
  <2>3. /\ log' \in Seq(Placement)
        /\ Len(log') = rwOffset + n
        /\ Len(log) = rwOffset
        /\ rwOffset + n <= count
        /\ \A k \in 1..Len(log) : log'[k] = log[k]
        /\ \A k \in (Len(log) + 1)..Len(log') : IsPlacement(req, k, log'[k])
    BY <2>1, <2>2, MovesFacts
  <2>4. n \in Nat /\ rwOffset \in Nat /\ log \in Seq(Placement)
        /\ count = Wanted(req)
    BY <2>1, <2>2, CmdFacts DEF IndInv, TypeOK, LoopInv, InLoop
  <2>5. CASE n = 0
    <3>1. log' = log
      BY <2>3, <2>4, <2>5
    <3> QED BY <3>1, <2>2
  <2>6. CASE n > 0
    <3>1. Len(log') > Len(log) /\ Len(log') <= Wanted(req)
      BY <2>3, <2>4, <2>6
    <3>2. Transfer!Move
      BY <2>2, <2>3, <3>1 DEF Transfer!Move, Transfer!Wanted, Wanted,
         Transfer!zbc_iov_count, zbc_iov_count, Transfer!IsPlacement,
         IsPlacement, Transfer!Placement, Placement
    <3> QED BY <3>2 DEF Transfer!TNext
  <2> QED BY <2>4, <2>5, <2>6
<1>5. CASE GiveUp
  <2>1. pc = "complete" /\ pc' = "done" /\ ret' \in Int /\ ret' < 0
        /\ UNCHANGED <<req, log>>
    BY <1>5 DEF GiveUp, EIO, IndInv, TypeOK
  <2>2. Transfer!Fail
    BY <2>1 DEF Transfer!Fail
  <2> QED BY <2>2 DEF Transfer!TNext
<1>6. CASE Return
  <2>1. pc = "complete" /\ pc' = "done" /\ ret' = count
        /\ UNCHANGED <<req, log>> /\ drvRet > 0 /\ rwOffset + drvRet >= count
    BY <1>6 DEF Return
  <2>2. Len(log) <= count /\ Len(log) = rwOffset + drvRet /\ count = Wanted(req)
        /\ count \in Nat /\ rwOffset \in Nat /\ drvRet \in Int
    BY <2>1 DEF IndInv, LogInv, LoopInv, InLoop, TypeOK
  <2>3. Len(log) = count
    BY <2>1, <2>2
  <2>4. Transfer!Succeed
    BY <2>1, <2>2, <2>3 DEF Transfer!Succeed, Transfer!Wanted, Wanted,
       Transfer!zbc_iov_count, zbc_iov_count
  <2> QED BY <2>4 DEF Transfer!TNext
<1> QED BY <1>1, <1>2, <1>3, <1>4, <1>5, <1>6 DEF Next

\* The chunked loops implement the abstract transfer: for every geometry,
\* command limit and request, sectors move in order, once, to their places.
THEOREM Refinement == Spec => TransferSpec
<1>1. Init => Transfer!TInit
  BY DEF Init, Transfer!TInit
<1>2. IndInv /\ [Next]_vars => [Transfer!TNext]_(Transfer!tvars)
  BY RefineStep
<1> QED BY <1>1, <1>2, Invariance, PTL DEF Spec, TransferSpec, Transfer!TSpec
=============================================================================
