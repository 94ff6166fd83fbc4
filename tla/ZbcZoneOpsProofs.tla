-------------------------- MODULE ZbcZoneOpsProofs --------------------------
(***************************************************************************)
(* Proofs about ZbcZoneOps, for any layout of zones, any group and any     *)
(* interference of other initiators.                                       *)
(***************************************************************************)
EXTENDS ZbcZoneOps, ZbcArithmetic, SequenceTheorems

\* Rounding down to a logical block, as the drivers do with a sector.
LEMMA CmdSectorFacts ==
  ASSUME NEW s \in Nat
  PROVE  /\ CmdSector(s) \in Nat /\ CmdSector(s) <= s
         /\ s < CmdSector(s) + LBlock
         /\ CmdSector(s) = LBlock * (s \div LBlock)
  BY OpsAssumption, DivFacts DEF CmdSector

\* Rounding keeps a distance that is a multiple of the block.
LEMMA CmdSectorShift ==
  ASSUME NEW s \in Nat, NEW d \in Nat, d % LBlock = 0
  PROVE  CmdSector(s + d) = CmdSector(s) + d
<1> DEFINE q == s \div LBlock
           m == d \div LBlock
<1>1. LBlock \in Nat \ {0}
  BY OpsAssumption
<1>2. q \in Nat /\ LBlock * q <= s /\ s < LBlock * q + LBlock
  BY <1>1, DivFacts
<1>3. m \in Nat /\ d = LBlock * m
  BY <1>1, Quotient
<1> HIDE DEF q, m
<1>4. LBlock * (q + m) = LBlock * q + LBlock * m
  BY <1>1, <1>2, <1>3
<1>5. (s + d) \div LBlock = q + m
  <2>1. (s + d) \div LBlock <= q + m
    BY <1>1, <1>2, <1>3, <1>4, DivUpper
  <2>2. (s + d) \div LBlock >= q + m
    <3> SUFFICES ASSUME (s + d) \div LBlock <= q + m - 1 PROVE FALSE
      BY <1>1, <1>2, <1>3, DivFacts
    <3> DEFINE e == (s + d) \div LBlock
    <3>1. e \in Nat /\ s + d < LBlock * e + LBlock
      BY <1>1, DivFacts
    <3>a. e <= q + m - 1
      OBVIOUS
    <3> HIDE DEF e
    <3>2. LBlock * (e + 1) <= LBlock * (q + m)
      BY <3>1, <3>a, <1>1, <1>2, <1>3, MulMono
    <3>3. LBlock * (e + 1) = LBlock * e + LBlock
      BY <3>1, <1>1
    <3>4. LBlock * e \in Nat /\ LBlock * q \in Nat
      BY <3>1, <1>1, <1>2
    <3>5. LBlock * e + LBlock <= LBlock * q + d
      BY <3>2, <3>3, <1>3, <1>4
    <3> QED BY <3>1, <3>4, <3>5, <1>1, <1>2
  <2>3. (s + d) \div LBlock \in Nat
    BY <1>1, DivFacts
  <2> QED BY <2>1, <2>2, <2>3, <1>2, <1>3
<1>6. CmdSector(s + d) = LBlock * (q + m) /\ CmdSector(s) = LBlock * q
  BY <1>1, <1>2, <1>3, <1>5 DEF CmdSector, q
<1> QED BY <1>3, <1>4, <1>6

\* Zones start and end at sectors, and are whole blocks.
LEMMA ZoneFacts ==
  ASSUME NEW z \in Zones
  PROVE  /\ z \in Nat \ {0} /\ z <= NrZones /\ NrZones \in Nat \ {0}
         /\ NrZones \in Zones
         /\ Start[z] \in Nat /\ Length[z] \in Nat \ {0}
         /\ End(z) = Start[z] + Length[z] /\ End(z) \in Nat
         /\ Length[z] % LBlock = 0
<1>1. z \in Nat \ {0} /\ z <= NrZones /\ NrZones \in Nat \ {0} /\ NrZones \in Zones
  BY LayoutAssumption DEF Zones
<1>2. Start[z] \in Nat /\ Length[z] \in Nat \ {0}
  BY LayoutAssumption
<1>3. Length[z] % LBlock = 0
  BY OpsAssumption
<1> QED BY <1>1, <1>2, <1>3 DEF End

\* A zone starts where the one before it ends.
LEMMA ZoneNext ==
  ASSUME NEW z \in Zones, z + 1 \in Zones
  PROVE  Start[z + 1] = End(z)
<1>1. z \in 1..(NrZones - 1)
  BY ZoneFacts DEF Zones
<1> QED BY <1>1, LayoutAssumption DEF End

\* Zones are in order and do not overlap.
LEMMA ZoneOrder ==
  ASSUME NEW y \in Zones, NEW z \in Zones, y < z
  PROVE  End(y) <= Start[z]
<1> DEFINE S == {d \in Nat : y + d + 1 \in Zones => End(y) <= Start[y + d + 1]}
<1>1. y \in Nat /\ z \in Nat /\ NrZones \in Nat /\ y >= 1 /\ End(y) \in Nat
  BY ZoneFacts
<1>2. 0 \in S
  <2>1. ASSUME y + 0 + 1 \in Zones PROVE End(y) <= Start[y + 0 + 1]
    <3>1. y + 0 + 1 = y + 1
      BY <1>1
    <3> QED BY <3>1, <2>1, <1>1, ZoneNext
  <2> QED BY <2>1
<1>3. ASSUME NEW d \in Nat, d \in S PROVE d + 1 \in S
  <2> SUFFICES ASSUME y + (d + 1) + 1 \in Zones
               PROVE  End(y) <= Start[y + (d + 1) + 1]
    BY <1>3
  <2> DEFINE x == y + d + 1
  <2>1. x \in Zones /\ x + 1 = y + (d + 1) + 1
    BY <1>1 DEF Zones
  <2>2. End(y) <= Start[x]
    BY <2>1, <1>3
  <2> HIDE DEF x
  <2>3. x + 1 \in Zones
    BY <2>1
  <2>4. /\ Start[x + 1] = Start[x] + Length[x]
        /\ Start[x] \in Nat /\ Length[x] \in Nat
    BY <2>1, <2>3, ZoneNext, ZoneFacts
  <2>5. End(y) <= Start[x + 1]
    BY <2>2, <2>4, <1>1
  <2> QED BY <2>1, <2>5
<1> HIDE DEF S
<1>4. Nat \subseteq S
  BY <1>2, <1>3, SetInduction
<1>5. z - y - 1 \in S /\ y + (z - y - 1) + 1 = z
  BY <1>1, <1>4
<1> QED BY <1>5 DEF S

\* A sector that a zone holds is the start of no other zone.
LEMMA ZoneAt ==
  ASSUME NEW y \in Zones, NEW z \in Zones,
         Start[z] <= Start[y], Start[y] < End(z)
  PROVE  y = z
<1>1. y \in Nat /\ z \in Nat
  BY ZoneFacts
<1>2. /\ Start[y] \in Nat /\ Start[z] \in Nat /\ Length[y] \in Nat \ {0}
      /\ Length[z] \in Nat /\ End(y) = Start[y] + Length[y] /\ End(z) \in Nat
  BY ZoneFacts
<1>3. ~(y < z)
  BY <1>2, ZoneOrder
<1>4. ~(z < y)
  BY <1>2, ZoneOrder
<1> QED BY <1>1, <1>3, <1>4

\* A step from the start of zone y that is not longer than y leads to the
\* next zone, or to the start of none.
LEMMA ZoneBehind ==
  ASSUME NEW y \in Zones, NEW z \in Zones, NEW n \in Nat \ {0}, n <= Length[y],
         Start[z] = Start[y] + n
  PROVE  z = y + 1
<1>1. /\ y \in Nat /\ z \in Nat /\ z <= NrZones /\ NrZones \in Nat
      /\ Start[y] \in Nat /\ Start[z] \in Nat /\ Length[y] \in Nat
      /\ Length[z] \in Nat \ {0} /\ End(z) = Start[z] + Length[z]
      /\ End(y) = Start[y] + Length[y]
  BY ZoneFacts
<1>2. ~(z < y)
  <2> SUFFICES ASSUME z < y PROVE FALSE
    OBVIOUS
  <2>1. End(z) <= Start[y]
    BY ZoneOrder
  <2> QED BY <2>1, <1>1
<1>3. z /= y
  BY <1>1
<1>4. ~(y + 1 < z)
  <2> SUFFICES ASSUME y + 1 < z PROVE FALSE
    OBVIOUS
  <2>1. y + 1 \in Zones
    BY <1>1 DEF Zones
  <2>2. End(y + 1) <= Start[z] /\ Start[y + 1] = End(y)
    BY <2>1, ZoneOrder, ZoneNext
  <2>3. Length[y + 1] \in Nat \ {0} /\ End(y + 1) = Start[y + 1] + Length[y + 1]
    BY <2>1, ZoneFacts
  <2> QED BY <2>2, <2>3, <1>1
<1> QED BY <1>1, <1>2, <1>3, <1>4

-----------------------------------------------------------------------------
(***************************************************************************)
(* What a command does.                                                    *)
(***************************************************************************)
LEMMA RunFacts ==
  ASSUME NEW z \in Zones, NEW n \in Nat, z + n - 1 <= NrZones
  PROVE  /\ Run(z, n) \in Seq(Zones) /\ Len(Run(z, n)) = n
         /\ \A k \in 1..n : Run(z, n)[k] = z + k - 1
         /\ Elems(Run(z, n)) = {y \in Zones : z <= y /\ y < z + n}
<1>1. NrZones \in Nat /\ z \in Nat /\ z >= 1
  BY LayoutAssumption DEF Zones
<1>2. \A k \in 1..n : z + k - 1 \in Zones
  BY <1>1 DEF Zones
<1>3. /\ Run(z, n) \in Seq(Zones) /\ Len(Run(z, n)) = n
      /\ \A k \in 1..n : Run(z, n)[k] = z + k - 1
  BY <1>2 DEF Run
<1>4. \A y \in Elems(Run(z, n)) : y \in Zones /\ z <= y /\ y < z + n
  BY <1>1, <1>2, <1>3 DEF Elems
<1>5. ASSUME NEW y \in Zones, z <= y, y < z + n PROVE y \in Elems(Run(z, n))
  <2>1. (y - z) + 1 \in 1..n /\ z + ((y - z) + 1) - 1 = y
    BY <1>5, <1>1 DEF Zones
  <2> QED BY <2>1, <1>3 DEF Elems
<1> QED BY <1>3, <1>4, <1>5

\* Two runs that meet are one.
LEMMA RunJoin ==
  ASSUME NEW z \in Nat, NEW n \in Nat, NEW m \in Nat
  PROVE  Run(z, n) \o Run(z + n, m) = Run(z, n + m)
<1> DEFINE a == Run(z, n)
           b == Run(z + n, m)
           c == Run(z, n + m)
<1>1. /\ a \in Seq(Int) /\ Len(a) = n /\ \A k \in 1..n : a[k] = z + k - 1
      /\ b \in Seq(Int) /\ Len(b) = m /\ \A k \in 1..m : b[k] = z + n + k - 1
      /\ c \in Seq(Int) /\ Len(c) = n + m /\ \A k \in 1..(n + m) : c[k] = z + k - 1
  BY DEF Run
<1> HIDE DEF a, b, c
<1>2. /\ a \o b \in Seq(Int) /\ Len(a \o b) = n + m
      /\ \A k \in 1..(n + m) : (a \o b)[k] = IF k <= n THEN a[k] ELSE b[k - n]
  <2>1. /\ a \o b \in Seq(Int) /\ Len(a \o b) = Len(a) + Len(b)
        /\ \A k \in 1..(Len(a) + Len(b)) :
             (a \o b)[k] = IF k <= Len(a) THEN a[k] ELSE b[k - Len(a)]
    BY <1>1, ConcatProperties
  <2> QED BY <2>1, <1>1
<1>3. ASSUME NEW k \in 1..(n + m) PROVE (a \o b)[k] = c[k]
  <2>1. CASE k <= n
    BY <2>1, <1>1, <1>2
  <2>2. CASE k > n
    <3>1. (a \o b)[k] = b[k - n] /\ k - n \in 1..m
      BY <2>2, <1>2
    <3>2. b[k - n] = z + n + (k - n) - 1
      BY <3>1, <1>1
    <3>3. z + n + (k - n) - 1 = z + k - 1
      OBVIOUS
    <3> QED BY <3>1, <3>2, <3>3, <1>1
  <2>3. k <= n \/ k > n
    OBVIOUS
  <2> QED BY <2>1, <2>2, <2>3
<1>4. a \o b = c
  BY <1>1, <1>2, <1>3, SeqEqual
<1> QED BY <1>4 DEF a, b, c

\* The standard's state machine keeps conditions and does what is asked.
LEMMA AfterFacts ==
  ASSUME NEW op \in ZoneOps, NEW c \in Conditions
  PROVE  After(op, c) \in Conditions /\ Reached(op, After(op, c))
  BY DEF ZoneOps, Conditions, After, Reached, Promised, FullOpened, Open

LEMMA CmdCountFacts ==
  ASSUME NEW n \in Nat
  PROVE  /\ CmdCount(n) \in Nat \ {0}
         /\ n = 0 => CmdCount(n) = 1
         /\ n > 0 => CmdCount(n) <= n
         /\ n > 0 /\ n < CountMod => CmdCount(n) = n
<1>1. CountMod \in Nat \ {0}
  BY OpsAssumption
<1>2. /\ n % CountMod \in Nat /\ n % CountMod < CountMod
      /\ n = CountMod * (n \div CountMod) + (n % CountMod)
      /\ n \div CountMod \in Nat
  BY <1>1, ModFacts, DivFacts
<1>3. n % CountMod <= n
  <2>1. CountMod * (n \div CountMod) \in Nat
    BY <1>1, <1>2
  <2> QED BY <1>2, <2>1
<1>4. n < CountMod => n % CountMod = n
  BY <1>1
<1> QED BY <1>2, <1>3, <1>4 DEF CmdCount

\* A command for the run of n zones from z changes these zones only, and
\* adds to the effect of the commands before it.
LEMMA CommandFacts ==
  ASSUME TypeOK, NEW z \in Zones, NEW n \in Nat, z + n - 1 <= NrZones,
         cond' = Applied(cond, call.op, Elems(Run(z, n))),
         processed' = processed \o Run(z, n)
  PROVE  /\ cond' \in [Zones -> Conditions] /\ processed' \in Seq(Zones)
         /\ Len(processed') = Len(processed) + n
         /\ \A y \in Zones : cond'[y] /= cond[y] => z <= y /\ y < z + n
         /\ (\A k \in 1..Len(processed) : Reached(call.op, cond[processed[k]]))
              => \A k \in 1..Len(processed') : Reached(call.op, cond'[processed'[k]])
<1> DEFINE S == {y \in Zones : z <= y /\ y < z + n}
<1>1. /\ cond \in [Zones -> Conditions] /\ processed \in Seq(Zones)
      /\ call.op \in ZoneOps
  BY DEF TypeOK, Calls
<1>2. /\ Run(z, n) \in Seq(Zones) /\ Len(Run(z, n)) = n
      /\ \A k \in 1..n : Run(z, n)[k] = z + k - 1 /\ Run(z, n)[k] \in S
      /\ Elems(Run(z, n)) = S
  <2>1. /\ Run(z, n) \in Seq(Zones) /\ Len(Run(z, n)) = n
        /\ \A k \in 1..n : Run(z, n)[k] = z + k - 1
        /\ Elems(Run(z, n)) = S
    BY RunFacts
  <2>2. \A k \in 1..n : Run(z, n)[k] \in S
    BY <2>1 DEF Elems
  <2> QED BY <2>1, <2>2
<1>3. \A y \in Zones : cond'[y] = IF y \in S THEN After(call.op, cond[y]) ELSE cond[y]
  BY <1>2 DEF Applied
<1>4. cond' \in [Zones -> Conditions]
  <2>1. \A y \in Zones : After(call.op, cond[y]) \in Conditions
    BY <1>1, AfterFacts
  <2> QED BY <1>1, <1>2, <2>1 DEF Applied
<1>5. /\ processed' \in Seq(Zones) /\ Len(processed') = Len(processed) + n
      /\ Len(processed) \in Nat
      /\ \A k \in 1..Len(processed) : processed'[k] = processed[k]
      /\ \A k \in 1..Len(processed') :
           k > Len(processed) => processed'[k] = Run(z, n)[k - Len(processed)]
  <2>1. Len(processed) \in Nat
    BY <1>1
  <2>2. /\ processed' \in Seq(Zones) /\ Len(processed') = Len(processed) + Len(Run(z, n))
        /\ \A k \in 1..(Len(processed) + Len(Run(z, n))) :
             processed'[k] = IF k <= Len(processed) THEN processed[k]
                             ELSE Run(z, n)[k - Len(processed)]
    BY <1>1, <1>2, ConcatProperties
  <2> QED BY <2>1, <2>2, <1>2
<1>6. ASSUME \A k \in 1..Len(processed) : Reached(call.op, cond[processed[k]]),
             NEW k \in 1..Len(processed')
      PROVE  Reached(call.op, cond'[processed'[k]])
  <2> DEFINE y == processed'[k]
  <2>1. y \in Zones
    BY <1>5
  <2>2. CASE y \in S
    BY <2>1, <2>2, <1>1, <1>3, AfterFacts
  <2>3. CASE y \notin S
    <3>1. k <= Len(processed)
      <4> SUFFICES ASSUME k > Len(processed) PROVE FALSE
        BY <1>5
      <4>1. k - Len(processed) \in 1..n
        BY <1>5
      <4> QED BY <4>1, <1>2, <1>5, <2>3
    <3>2. y = processed[k] /\ k \in 1..Len(processed)
      BY <3>1, <1>5
    <3> QED BY <3>2, <2>1, <2>3, <1>3, <1>6
  <2> QED BY <2>2, <2>3
<1> QED BY <1>3, <1>4, <1>5, <1>6

-----------------------------------------------------------------------------
(***************************************************************************)
(* The inductive invariant holds initially and each action preserves it.   *)
(***************************************************************************)
\* What the call asks for.
LEMMA CallFacts ==
  ASSUME call \in Calls
  PROVE  /\ call.from \in Nat /\ call.count \in Nat /\ call.count \in Counts
         /\ call.op \in ZoneOps
         /\ GroupSize \in Nat \ {0}
         /\ call.count > 0 => GroupSize = call.count
         /\ call.count <= 1 => GroupSize = 1
<1>1. FromSectors \subseteq Nat /\ Counts \subseteq Nat
  BY OpsAssumption
<1>2. call.from \in FromSectors /\ call.count \in Counts /\ call.op \in ZoneOps
  BY DEF Calls
<1>3. call.from \in Nat /\ call.count \in Nat
  BY <1>1, <1>2
<1>4. /\ GroupSize \in Nat \ {0}
      /\ call.count > 0 => GroupSize = call.count
      /\ call.count <= 1 => GroupSize = 1
  BY <1>3 DEF GroupSize
<1> QED BY <1>2, <1>3, <1>4

LEMMA InitInv == Init => IndInv
<1> SUFFICES ASSUME Init PROVE IndInv
  OBVIOUS
<1>1. processed = <<>> /\ Len(processed) = 0 /\ pc = "call" /\ call \in Calls
  BY DEF Init
<1>2. TypeOK
  <2>1. cond \in [Zones -> Conditions]
    BY DEF Init, Conditions
  <2>2. /\ sector = 0 /\ i = 0 /\ zoneLen = 0 /\ ret = 0 /\ disturbed = FALSE
    BY DEF Init
  <2>3. processed \in Seq(Zones)
    BY <1>1
  <2>4. sector \in Nat /\ i \in Nat /\ zoneLen \in Nat /\ ret \in Int
    BY <2>2
  <2>5. disturbed \in BOOLEAN
    BY <2>2
  <2>6. pc \in {"call", "command", "done"}
    BY <1>1
  <2> QED BY <1>1, <2>1, <2>3, <2>4, <2>5, <2>6 DEF TypeOK
<1>3. RunSoFar
  <2>1. GroupSize \in Nat
    BY <1>1, CallFacts
  <2> QED BY <2>1, <1>1 DEF RunSoFar
<1> QED BY <1>1, <1>2, <1>3 DEF IndInv, Stepping, EffectLasts, Completed

\* Steps that send no command, or one that fails, and end the call with an
\* error.
LEMMA EndInv ==
  ASSUME IndInv, pc' = "done", ret' \in Int \ {0},
         UNCHANGED <<cond, call, sector, i, zoneLen, processed, disturbed>>
  PROVE  IndInv'
<1>1. TypeOK'
  BY DEF IndInv, TypeOK
<1>2. RunSoFar' /\ EffectLasts'
  BY DEF IndInv, RunSoFar, EffectLasts, GroupSize, Oversteps
<1>3. Stepping' /\ Completed'
  BY DEF Stepping, Completed
<1> QED BY <1>1, <1>2, <1>3 DEF IndInv

\* The command for all zones: processed is not used for it.
LEMMA AllInv ==
  ASSUME IndInv, OperateAll
  PROVE  IndInv'
<1>1. cond' \in [Zones -> Conditions]
  <2>1. cond \in [Zones -> Conditions] /\ call.op \in ZoneOps
    BY CallFacts DEF IndInv, TypeOK
  <2>2. \A z \in Zones : After(call.op, cond[z]) \in Conditions
    BY <2>1, AfterFacts
  <2> QED BY <2>1, <2>2 DEF OperateAll, Applied
<1>2. /\ pc' = "done" /\ ret' = 0 /\ call.all
      /\ UNCHANGED <<call, sector, i, zoneLen, processed, disturbed>>
  BY DEF OperateAll, Return
<1>3. TypeOK'
  BY <1>1, <1>2 DEF IndInv, TypeOK
<1>4. RunSoFar'
  BY <1>2 DEF IndInv, RunSoFar, GroupSize, Oversteps
<1>5. Stepping' /\ EffectLasts' /\ Completed'
  BY <1>2 DEF Stepping, EffectLasts, Completed
<1> QED BY <1>3, <1>4, <1>5 DEF IndInv

\* One command for the group: the device takes a count, or the group is one
\* zone.
LEMMA DirectCommand ==
  ASSUME IndInv, OperateDirect
  PROVE  \E z \in Zones, n \in Nat \ {0} :
           /\ Start[z] = CmdSector(call.from) /\ z + n - 1 <= NrZones
           /\ cond' = Applied(cond, call.op, Elems(Run(z, n)))
           /\ processed' = processed \o Run(z, n)
           /\ n <= GroupSize /\ (CountsFit => n = GroupSize)
<1> DEFINE c == IF Single THEN 0 ELSE call.count
           n == CmdCount(c)
<1>1. /\ call.count \in Nat /\ call.count \in Counts /\ GroupSize \in Nat
      /\ call.count > 0 => GroupSize = call.count
      /\ call.count <= 1 => GroupSize = 1
  BY CallFacts DEF IndInv, TypeOK
<1>2. PICK z \in Zones :
         /\ Serves(CmdSector(call.from), n, z)
         /\ cond' = Applied(cond, call.op, Elems(Run(z, n)))
         /\ processed' = processed \o Run(z, n)
  BY DEF OperateDirect, zone_op_ok
<1>3. Start[z] = CmdSector(call.from) /\ z + n - 1 <= NrZones
  BY <1>2 DEF Serves
<1>4. n \in Nat \ {0} /\ n <= GroupSize /\ (CountsFit => n = GroupSize)
  <2>1. CASE Single
    <3>1. c = 0 /\ call.count <= 1
      BY <2>1 DEF Single, OperateDirect
    <3> QED BY <3>1, <1>1, CmdCountFacts
  <2>2. CASE ~Single
    <3>1. c = call.count /\ call.count > 1
      BY <2>2, <1>1 DEF Single
    <3>2. CountsFit => call.count < CountMod
      BY <1>1 DEF CountsFit
    <3> QED BY <3>1, <3>2, <1>1, CmdCountFacts
  <2> QED BY <2>1, <2>2
<1> QED BY <1>2, <1>3, <1>4

LEMMA DirectInv ==
  ASSUME IndInv, OperateDirect
  PROVE  IndInv'
<1>1. PICK z \in Zones, n \in Nat \ {0} :
         /\ Start[z] = CmdSector(call.from) /\ z + n - 1 <= NrZones
         /\ cond' = Applied(cond, call.op, Elems(Run(z, n)))
         /\ processed' = processed \o Run(z, n)
         /\ n <= GroupSize /\ (CountsFit => n = GroupSize)
  BY DirectCommand
<1>2. /\ pc = "call" /\ pc' = "done" /\ ret' = 0 /\ ~call.all
      /\ UNCHANGED <<call, sector, i, zoneLen, disturbed>>
  BY DEF OperateDirect, Return
<1>3. processed = <<>> /\ Len(processed) = 0
  BY <1>2 DEF IndInv, Stepping
<1>4. /\ cond' \in [Zones -> Conditions] /\ processed' \in Seq(Zones)
      /\ Len(processed') = n
      /\ \A k \in 1..Len(processed') : Reached(call.op, cond'[processed'[k]])
  <2>1. /\ cond' \in [Zones -> Conditions] /\ processed' \in Seq(Zones)
        /\ Len(processed') = Len(processed) + n
        /\ (\A k \in 1..Len(processed) : Reached(call.op, cond[processed[k]]))
              => \A k \in 1..Len(processed') : Reached(call.op, cond'[processed'[k]])
    BY <1>1, CommandFacts DEF IndInv
  <2> QED BY <2>1, <1>3
<1>5. processed' = Run(z, n)
  BY <1>1, <1>3, RunFacts, ConcatEmptySeq
<1>6. TypeOK'
  BY <1>2, <1>4 DEF IndInv, TypeOK
<1>7. GroupSize' = GroupSize /\ call' = call
  BY <1>2 DEF GroupSize
<1>8. RunSoFar'
  BY <1>1, <1>4, <1>5, <1>7 DEF RunSoFar, CmdSector
<1>9. Stepping' /\ EffectLasts' /\ Completed'
  BY <1>1, <1>2, <1>4, <1>7 DEF Stepping, EffectLasts, Completed, CountsFit
<1> QED BY <1>6, <1>8, <1>9 DEF IndInv

\* The emulation starts with the zone that holds the sector, or with none.
LEMMA EmulateStartInv ==
  ASSUME IndInv, EmulateKnown \/ EmulateUnset
  PROVE  IndInv'
<1>1. /\ pc = "call" /\ pc' = "command" /\ Emulated /\ sector' = call.from /\ i' = 0
      /\ UNCHANGED <<cond, call, ret, processed, disturbed>>
  BY DEF EmulateKnown, EmulateUnset, Emulate
<1>2. /\ zoneLen' \in Nat
      /\ \/ call.from >= Capacity
         \/ \E z \in Zones :
              /\ Start[z] <= CmdSector(call.from) /\ CmdSector(call.from) < End(z)
              /\ zoneLen' = Length[z]
  <2>1. CASE EmulateKnown
    <3>1. \A z \in Zones : Length[z] \in Nat
      BY LayoutAssumption
    <3> QED BY <2>1, <3>1 DEF EmulateKnown, Emulate
  <2>2. CASE EmulateUnset
    <3>1. UnsetLengths \subseteq Nat
      BY OpsAssumption
    <3> QED BY <2>2, <3>1 DEF EmulateUnset, Emulate
  <2> QED BY <2>1, <2>2
<1>3. /\ call \in Calls /\ call.from \in Nat /\ call.count \in Nat
  BY CallFacts DEF IndInv, TypeOK
<1>4. TypeOK'
  BY <1>1, <1>2, <1>3 DEF IndInv, TypeOK
<1>5. RunSoFar' /\ EffectLasts' /\ Completed'
  BY <1>1 DEF IndInv, RunSoFar, EffectLasts, Completed, GroupSize, Oversteps
<1>6. Stepping'
  <2>1. ~call.all /\ ~call.counted /\ call.count > 1
    BY <1>1, <1>3 DEF Emulated, Single
  <2>2. processed = <<>> /\ Len(processed) = 0
    BY <1>1 DEF IndInv, Stepping
  <2>3. sector' = call.from + i' * zoneLen'
    BY <1>1, <1>2, <1>3
  <2>4. CmdSector(call.from)' = CmdSector(call.from)
    BY <1>1 DEF CmdSector
  <2>5. /\ pc' /= "call" /\ call' = call /\ i' < call.count /\ Len(processed') = i'
        /\ ~(i' > 0)
    BY <1>1, <1>3, <2>1, <2>2
  <2>6. \/ call.from >= Capacity /\ i' = 0
        \/ \E z \in Zones :
             /\ Start[z] <= CmdSector(call.from) /\ CmdSector(call.from) < End(z)
             /\ zoneLen' = Length[z]
    BY <1>1, <1>2
  <2> QED BY <2>1, <2>3, <2>4, <2>5, <2>6 DEF Stepping
<1> QED BY <1>4, <1>5, <1>6 DEF IndInv

\* A command of the emulation goes to a zone i lengths of the first one
\* behind it; it is the zone behind those processed, unless the emulation
\* oversteps.
LEMMA StepCommand ==
  ASSUME IndInv, EmulateStep
  PROVE  \E first \in Zones, z \in Zones :
           /\ Start[first] = CmdSector(call.from) /\ zoneLen = Length[first]
           /\ Start[z] = Start[first] + i * Length[first]
           /\ i = 0 => z = first
           /\ ~Oversteps => z = first + i /\ (i > 0 => processed = Run(first, i))
           /\ cond' = Applied(cond, call.op, Elems(Run(z, 1)))
           /\ processed' = processed \o Run(z, 1)
<1>1. /\ call.from \in Nat /\ i \in Nat /\ zoneLen \in Nat
      /\ processed \in Seq(Zones) /\ CmdSector(call.from) \in Nat
      /\ call.count \in Nat
  BY CallFacts, CmdSectorFacts DEF IndInv, TypeOK
<1>2. /\ pc = "command" /\ Len(processed) = i /\ sector = call.from + i * zoneLen
      /\ i < call.count /\ ~call.counted /\ call.count > 1
  BY DEF EmulateStep, IndInv, Stepping
<1>3. CmdCount(0) = 1
  BY CmdCountFacts
<1>4. PICK z \in Zones :
         /\ Start[z] = CmdSector(sector)
         /\ cond' = Applied(cond, call.op, Elems(Run(z, 1)))
         /\ processed' = processed \o Run(z, 1)
  BY <1>3 DEF EmulateStep, zone_op_ok, Serves
<1>5. PICK y \in Zones :
         /\ Start[y] <= CmdSector(call.from) /\ CmdSector(call.from) < End(y)
         /\ zoneLen = Length[y]
         /\ i > 0 => Start[y] = CmdSector(call.from)
  <2> SUFFICES ASSUME call.from >= Capacity, i = 0 PROVE FALSE
    BY <1>2 DEF IndInv, Stepping
  <2>1. Start[z] = CmdSector(call.from)
    BY <1>1, <1>2, <1>4
  <2>2. /\ Start[z] \in Nat /\ Length[z] \in Nat \ {0} /\ Length[z] % LBlock = 0
        /\ End(z) = Start[z] + Length[z] /\ End(z) \in Nat /\ z \in Nat
        /\ z <= NrZones /\ NrZones \in Zones /\ NrZones \in Nat
        /\ Start[NrZones] \in Nat /\ Length[NrZones] \in Nat
        /\ Capacity = Start[NrZones] + Length[NrZones]
    BY ZoneFacts DEF Capacity
  <2>3. End(z) <= Capacity
    <3>1. CASE z = NrZones
      BY <3>1, <2>2
    <3>2. CASE z < NrZones
      <4>1. End(z) <= Start[NrZones]
        BY <3>2, <2>2, ZoneOrder
      <4> QED BY <4>1, <2>2
    <3> QED BY <3>1, <3>2, <2>2
  <2>4. Length[z] >= LBlock /\ LBlock \in Nat
    <3>1. LBlock \in Nat \ {0}
      BY OpsAssumption
    <3> QED BY <3>1, <2>2
  <2>5. call.from < CmdSector(call.from) + LBlock
    BY <1>1, CmdSectorFacts
  <2>6. /\ Start[z] + Length[z] <= call.from /\ call.from < Start[z] + LBlock
    <3>1. Capacity \in Nat /\ End(z) = Start[z] + Length[z] /\ End(z) \in Nat
      BY <2>2
    <3> QED BY <3>1, <1>1, <2>1, <2>3, <2>5
  <2>7. Start[z] \in Nat /\ Length[z] \in Nat
    BY <2>2
  <2> QED BY <1>1, <2>4, <2>6, <2>7
<1>6. zoneLen \in Nat \ {0} /\ zoneLen % LBlock = 0 /\ LBlock \in Nat \ {0}
  BY <1>5, ZoneFacts, OpsAssumption
<1>7. i * zoneLen \in Nat /\ (i * zoneLen) % LBlock = 0
  <2> DEFINE m == zoneLen \div LBlock
  <2>1. m \in Nat /\ zoneLen = LBlock * m
    BY <1>6, Quotient
  <2> HIDE DEF m
  <2>2. i * zoneLen = LBlock * (i * m) /\ i * m \in Nat
    BY <2>1, <1>1, <1>6
  <2> QED BY <2>2, <1>6, <1>1, MultipleMod
<1>8. CmdSector(sector) = CmdSector(call.from) + i * zoneLen
  BY <1>1, <1>2, <1>7, CmdSectorShift
<1>9. CASE i = 0
  <2>1. Start[z] = CmdSector(call.from) /\ z = z + i /\ i * zoneLen = 0
    <3>1. i * zoneLen = 0
      BY <1>9, <1>1
    <3>2. z \in Nat
      BY ZoneFacts
    <3> QED BY <3>1, <3>2, <1>1, <1>4, <1>8, <1>9
  <2>2. z = y
    BY <2>1, <1>5, ZoneAt
  <2>3. Start[z] = Start[z] + i * Length[z]
    BY <2>1, <2>2, <1>5, ZoneFacts
  <2>4. ~(i > 0)
    BY <1>9
  <2> QED BY <2>1, <2>2, <2>3, <2>4, <1>4, <1>5
<1>10. CASE i > 0
  <2>1. /\ Start[y] = CmdSector(call.from)
        /\ Start[z] = Start[y] + i * Length[y]
    BY <1>10, <1>4, <1>5, <1>8
  <2>2. ~(i = 0)
    BY <1>10
  <2>3. ASSUME ~Oversteps PROVE z = y + i /\ processed = Run(y, i)
    <3>1. PICK first \in Zones :
             Start[first] = CmdSector(call.from) /\ processed = Run(first, i)
      <4>1. processed /= <<>>
        BY <1>2, <1>10, <1>1, EmptySeq
      <4> QED BY <4>1, <2>3, <1>2 DEF IndInv, RunSoFar
    <3>2. first = y
      <4>1. /\ Start[first] = Start[y] /\ Start[y] \in Nat
            /\ Start[y] < End(y)
        BY <3>1, <2>1, ZoneFacts
      <4> QED BY <4>1, ZoneAt
    <3> DEFINE x == processed[i]
    <3>3. x \in Zones /\ x = y + i - 1
      <4>1. i \in 1..Len(processed)
        BY <1>1, <1>2, <1>10
      <4>2. processed[i] \in Zones
        BY <4>1, <1>1, ElementOfSeq
      <4>3. processed[i] = y + i - 1
        BY <4>1, <3>1, <3>2, <1>2 DEF Run
      <4> QED BY <4>2, <4>3
    <3> HIDE DEF x
    <3>4. /\ y \in Nat /\ Length[y] \in Nat \ {0} /\ Length[x] \in Nat
          /\ Start[y] \in Nat
      BY <3>3, ZoneFacts
    <3>5. Length[y] <= Length[x]
      <4>1. CASE i = 1
        <5>1. x = y
          BY <4>1, <3>3, <3>4
        <5> QED BY <5>1, <3>4
      <4>2. CASE i > 1
        <5>1. y < x /\ x < y + call.count - 1
          BY <4>2, <3>3, <3>4, <1>1, <1>2
        <5>2. ~(Length[x] < Length[y])
          BY <5>1, <2>1, <2>3, <1>2, <3>3 DEF Oversteps
        <5> QED BY <5>2, <3>4
      <4> QED BY <4>1, <4>2, <1>1, <1>10
    <3>6. Start[x] = Start[y] + (i - 1) * Length[y]
      BY <1>2, <1>5, <1>10, <2>1 DEF IndInv, Stepping, x
    <3>7. Start[z] = Start[x] + Length[y]
      <4>1. ASSUME NEW a \in Nat, NEW b \in Nat
            PROVE  (a - 1) * b + b = a * b /\ (a - 1) * b \in Int
        OBVIOUS
      <4>2. (i - 1) * Length[y] + Length[y] = i * Length[y]
            /\ (i - 1) * Length[y] \in Int
        BY <4>1, <3>4, <1>1
      <4> QED BY <4>2, <3>4, <3>6, <2>1
    <3>8. z = x + 1
      BY <3>3, <3>4, <3>5, <3>7, ZoneBehind
    <3> QED BY <3>1, <3>2, <3>3, <3>4, <3>8, <1>1
  <2> QED BY <2>1, <2>2, <2>3, <1>4, <1>5
<1>11. i = 0 \/ i > 0
  BY <1>1
<1> QED BY <1>9, <1>10, <1>11

LEMMA StepInv ==
  ASSUME IndInv, EmulateStep
  PROVE  IndInv'
<1>1. PICK first \in Zones, z \in Zones :
         /\ Start[first] = CmdSector(call.from) /\ zoneLen = Length[first]
         /\ Start[z] = Start[first] + i * Length[first]
         /\ ~Oversteps => z = first + i /\ (i > 0 => processed = Run(first, i))
         /\ cond' = Applied(cond, call.op, Elems(Run(z, 1)))
         /\ processed' = processed \o Run(z, 1)
  BY StepCommand
<1>2. /\ pc = "command" /\ sector' = sector + zoneLen /\ i' = i + 1
      /\ UNCHANGED <<call, zoneLen, disturbed>>
      /\ \/ i + 1 < call.count /\ pc' = "command" /\ ret' = ret
         \/ ~(i + 1 < call.count) /\ pc' = "done" /\ ret' = 0
  BY DEF EmulateStep, Return
<1>3. /\ ~call.all /\ ~call.counted /\ call.count > 1
      /\ i < call.count /\ Len(processed) = i /\ sector = call.from + i * zoneLen
  BY <1>2 DEF IndInv, Stepping
<1>4. /\ call.from \in Nat /\ call.count \in Nat /\ i \in Nat /\ sector \in Nat
      /\ zoneLen \in Nat /\ processed \in Seq(Zones) /\ GroupSize = call.count
      /\ ret \in Int
  BY <1>3, CallFacts DEF IndInv, TypeOK
<1>5. z \in Nat /\ first \in Nat /\ z + 1 - 1 <= NrZones
  BY ZoneFacts
<1>6. /\ cond' \in [Zones -> Conditions] /\ processed' \in Seq(Zones)
      /\ Len(processed') = Len(processed) + 1
      /\ (\A k \in 1..Len(processed) : Reached(call.op, cond[processed[k]]))
            => \A k \in 1..Len(processed') : Reached(call.op, cond'[processed'[k]])
  BY <1>1, <1>5, CommandFacts DEF IndInv
<1>7. ASSUME ~Oversteps PROVE processed' = Run(first, i + 1)
  <2>1. CASE i = 0
    <3>1. processed = <<>> /\ z = first
      BY <2>1, <1>1, <1>3, <1>4, <1>5, <1>7, EmptySeq
    <3>2. Run(z, 1) \in Seq(Zones)
      BY <1>5, RunFacts
    <3>3. processed' = Run(z, 1)
      BY <3>1, <3>2, <1>1, ConcatEmptySeq
    <3> QED BY <3>1, <3>3, <2>1
  <2>2. CASE i > 0
    <3>1. processed' = Run(first, i) \o Run(first + i, 1)
      BY <2>2, <1>1, <1>7
    <3>2. Run(first, i) \o Run(first + i, 1) = Run(first, i + 1)
      <4>1. first \in Nat /\ i \in Nat /\ 1 \in Nat
        BY <1>4, <1>5
      <4> QED BY <4>1, RunJoin, Zenon
    <3> QED BY <3>1, <3>2
  <2> QED BY <2>1, <2>2, <1>4
<1>8. TypeOK'
  <2>1. sector' \in Nat /\ i' \in Nat /\ zoneLen' \in Nat /\ ret' \in Int
    BY <1>2, <1>4
  <2>2. call' \in Calls /\ pc' \in {"call", "command", "done"}
    BY <1>2 DEF IndInv, TypeOK
  <2>3. disturbed' \in BOOLEAN
    BY <1>2 DEF IndInv, TypeOK
  <2> QED BY <2>1, <2>2, <2>3, <1>6 DEF TypeOK
<1>9. /\ call' = call /\ GroupSize' = GroupSize /\ Len(processed') = i + 1
      /\ CmdSector(call.from)' = CmdSector(call.from)
  BY <1>2, <1>3, <1>6 DEF GroupSize, CmdSector
<1>10. Oversteps' <=> Oversteps
  BY <1>9 DEF Oversteps, CmdSector
<1>11. RunSoFar'
  <2>1. Len(processed') <= GroupSize'
    BY <1>3, <1>4, <1>9
  <2>2. ~Oversteps' => processed' = Run(first, Len(processed'))
    BY <1>7, <1>9, <1>10
  <2> QED BY <2>1, <2>2, <1>1, <1>9 DEF RunSoFar
<1>12. Stepping'
  <2>1. CASE pc' = "done"
    BY <2>1 DEF Stepping
  <2>2. CASE pc' = "command"
    <3>1. i' < call'.count /\ Len(processed') = i'
      BY <2>2, <1>2, <1>9
    <3>2. sector' = call'.from + i' * zoneLen'
      <4>1. i * zoneLen + zoneLen = (i + 1) * zoneLen /\ i * zoneLen \in Nat
        BY <1>4
      <4> QED BY <4>1, <1>2, <1>3, <1>4
    <3>3. ~call'.all /\ ~call'.counted /\ call'.count > 1
      BY <1>3, <1>9
    <3>4. \E y \in Zones : /\ Start[y] <= CmdSector(call.from)'
                           /\ CmdSector(call.from)' < End(y)
                           /\ zoneLen' = Length[y]
                           /\ i' > 0 => Start[y] = CmdSector(call.from)'
      <4>1. Start[first] <= Start[first] /\ Start[first] < End(first)
        BY ZoneFacts
      <4> QED BY <4>1, <1>1, <1>2, <1>9
    <3>5. Start[processed'[i']] = CmdSector(call.from)' + (i' - 1) * zoneLen'
      <4>1. /\ Run(z, 1) \in Seq(Zones) /\ Len(Run(z, 1)) = 1 /\ Run(z, 1)[1] = z
        <5>1. /\ Run(z, 1) \in Seq(Zones) /\ Len(Run(z, 1)) = 1
              /\ \A k \in 1..1 : Run(z, 1)[k] = z + k - 1
          BY <1>5, RunFacts
        <5> QED BY <5>1, <1>5
      <4>2. (processed \o Run(z, 1))[i + 1] = Run(z, 1)[1]
        BY <4>1, <1>3, <1>4, ConcatProperties
      <4>3. i' = i + 1 /\ i' - 1 = i
        BY <1>2, <1>4
      <4>4. processed'[i'] = z
        BY <4>1, <4>2, <4>3, <1>1
      <4> QED BY <4>3, <4>4, <1>1, <1>2, <1>9
    <3> QED BY <2>2, <3>1, <3>2, <3>3, <3>4, <3>5 DEF Stepping
  <2> QED BY <2>1, <2>2, <1>2
<1>13. EffectLasts'
  BY <1>2, <1>6 DEF IndInv, EffectLasts
<1>14. Completed'
  <2>1. pc' = "done" => i + 1 = GroupSize
    BY <1>2, <1>3, <1>4
  <2> QED BY <2>1, <1>9 DEF Completed
<1> QED BY <1>8, <1>11, <1>12, <1>13, <1>14 DEF IndInv

\* Another initiator's operation: the effect of the commands may be lost,
\* their order is not.
LEMMA InterfereInv ==
  ASSUME IndInv, NEW z \in Zones, NEW op \in OtherOps, Interfere(z, op)
  PROVE  IndInv'
<1>1. /\ cond' = Applied(cond, op, {z}) /\ disturbed' = TRUE
      /\ UNCHANGED <<call, pc, sector, i, zoneLen, ret, processed>>
  BY DEF Interfere
<1>2. op \in ZoneOps
  BY OpsAssumption
<1>3. cond' \in [Zones -> Conditions]
  <2>1. cond \in [Zones -> Conditions]
    BY DEF IndInv, TypeOK
  <2>2. \A y \in Zones : After(op, cond[y]) \in Conditions
    BY <2>1, <1>2, AfterFacts
  <2> QED BY <2>1, <2>2, <1>1 DEF Applied
<1>4. TypeOK'
  <2>1. disturbed' \in BOOLEAN
    BY <1>1
  <2> QED BY <2>1, <1>1, <1>3 DEF IndInv, TypeOK
<1>5. RunSoFar' /\ Stepping'
  BY <1>1 DEF IndInv, RunSoFar, Stepping, GroupSize, CmdSector, Oversteps
<1>6. EffectLasts'
  BY <1>1 DEF EffectLasts
<1>7. Completed'
  BY <1>1 DEF IndInv, Completed, GroupSize
<1> QED BY <1>4, <1>5, <1>6, <1>7 DEF IndInv

LEMMA NextInv ==
  ASSUME IndInv, [Next]_vars
  PROVE  IndInv'
<1>1. CASE RefuseUnaligned
  BY <1>1, EndInv DEF RefuseUnaligned, Return, EINVAL
<1>2. CASE OperateAll
  BY <1>2, AllInv
<1>3. CASE OperateDirect
  BY <1>3, DirectInv
<1>4. CASE DirectFails
  BY <1>4, EndInv DEF DirectFails, Return, EIO
<1>5. CASE EmulateKnown \/ EmulateUnset
  BY <1>5, EmulateStartInv
<1>6. CASE ReportFails
  BY <1>6, EndInv DEF ReportFails, Return, EIO, Garbage
<1>7. CASE EmulateStep
  BY <1>7, StepInv
<1>8. CASE EmulateFails
  BY <1>8, EndInv DEF EmulateFails, Return, EIO
<1>9. CASE \E z \in Zones, op \in OtherOps : Interfere(z, op)
  BY <1>9, InterfereInv
<1>10. CASE UNCHANGED vars
  <2>1. TypeOK'
    BY <1>10 DEF vars, IndInv, TypeOK
  <2>2. RunSoFar' /\ Stepping'
    BY <1>10 DEF vars, IndInv, RunSoFar, Stepping, GroupSize, CmdSector, Oversteps
  <2>3. EffectLasts' /\ Completed'
    BY <1>10 DEF vars, IndInv, EffectLasts, Completed, GroupSize
  <2> QED BY <2>1, <2>2, <2>3 DEF IndInv
<1> QED
  BY <1>1, <1>2, <1>3, <1>4, <1>5, <1>6, <1>7, <1>8, <1>9, <1>10
     DEF Next, CallStep

-----------------------------------------------------------------------------
(***************************************************************************)
(* The theorems.                                                           *)
(***************************************************************************)
LEMMA Invariance == Spec => []IndInv
<1>1. Init => IndInv
  BY InitInv
<1>2. IndInv /\ [Next]_vars => IndInv'
  BY NextInv
<1> QED BY <1>1, <1>2, PTL DEF Spec

\* The zones of a run from the zone asked for are in the group.
LEMMA RunInGroup ==
  ASSUME call \in Calls, NEW first \in Zones, Start[first] = CmdSector(call.from),
         NEW z \in Zones, first <= z, z < first + GroupSize
  PROVE  InGroup(z)
  BY DEF InGroup

\* The zones that a call's commands processed (zbc_zone_group_op and the
\* drivers' zone_op) are the first zones of the group asked for, in order
\* and without a gap, whatever zone the call stops at, unless the emulation
\* oversteps.
THEOREM PrefixTheorem == Spec => []PrefixOnly
<1>1. IndInv => PrefixOnly
  <2> SUFFICES ASSUME IndInv, ~Oversteps PROVE PrefixOnly
    BY DEF PrefixOnly
  <2>1. /\ call \in Calls /\ GroupSize \in Nat \ {0} /\ processed \in Seq(Zones)
        /\ Len(processed) \in Nat /\ Len(processed) <= GroupSize
    BY CallFacts DEF IndInv, TypeOK, RunSoFar
  <2>2. CASE processed = <<>>
    BY <2>1, <2>2 DEF PrefixOnly
  <2>3. CASE processed /= <<>>
    <3>1. PICK first \in Zones : /\ Start[first] = CmdSector(call.from)
                                 /\ processed = Run(first, Len(processed))
      BY <2>3 DEF IndInv, RunSoFar
    <3>2. first \in Nat /\ Len(processed) > 0
      BY <2>1, <2>3, EmptySeq, LayoutAssumption DEF Zones
    <3>3. \A k \in 1..Len(processed) : processed[k] = first + k - 1
      BY <3>1, <2>1 DEF Run
    <3>4. processed[1] = first
      BY <3>2, <3>3, <2>1
    <3>5. ASSUME NEW k \in 1..Len(processed)
          PROVE  InGroup(processed[k]) /\ processed[k] = processed[1] + k - 1
      <4>1. processed[k] \in Zones /\ processed[k] = first + k - 1
        BY <2>1, <3>3
      <4>2. first <= processed[k] /\ processed[k] < first + GroupSize
        BY <4>1, <3>2, <2>1
      <4> QED BY <4>1, <4>2, <3>1, <3>4, <2>1, RunInGroup
    <3> QED BY <3>1, <3>4, <3>5, <2>1 DEF PrefixOnly
  <2> QED BY <2>2, <2>3
<1> QED BY <1>1, Invariance, PTL

\* zbc_zone_group_op that returns 0 processed exactly the zones asked for,
\* in order, as one command or emulated without overstepping, if the count
\* fits the command.
THEOREM CompleteTheorem ==
  ASSUME CountsFit
  PROVE  Spec => []GroupComplete
<1>1. IndInv => GroupComplete
  <2> SUFFICES ASSUME IndInv, pc = "done", ret = 0, ~call.all, ~Oversteps
               PROVE  \E first \in Zones :
                        /\ Start[first] = CmdSector(call.from)
                        /\ processed = Run(first, GroupSize)
    BY DEF GroupComplete
  <2>1. /\ GroupSize \in Nat \ {0} /\ Len(processed) = GroupSize
    BY CallFacts DEF IndInv, TypeOK, Completed
  <2>2. processed /= <<>>
    BY <2>1
  <2> QED BY <2>1, <2>2 DEF IndInv, RunSoFar
<1> QED BY <1>1, Invariance, PTL

\* Unless another initiator steps in or the emulation oversteps,
\* zbc_zone_group_op that returns 0 leaves every zone of the group in the
\* condition that the operation promises, or full if it was to be opened.
THEOREM EffectTheorem ==
  ASSUME CountsFit
  PROVE  Spec => []GroupEffect
<1>1. IndInv => GroupEffect
  <2> SUFFICES ASSUME IndInv, pc = "done", ret = 0, ~call.all, ~disturbed,
                      ~Oversteps, NEW z \in Zones, InGroup(z)
               PROVE  Reached(call.op, cond[z])
    BY DEF GroupEffect
  <2>1. /\ GroupSize \in Nat \ {0} /\ Len(processed) = GroupSize
    BY CallFacts DEF IndInv, TypeOK, Completed
  <2>2. PICK y \in Zones : Start[y] = CmdSector(call.from) /\ processed = Run(y, GroupSize)
    <3>1. processed /= <<>>
      BY <2>1
    <3> QED BY <3>1, <2>1 DEF IndInv, RunSoFar
  <2>3. PICK first \in Zones : /\ Start[first] = CmdSector(call.from)
                               /\ first <= z /\ z < first + GroupSize
    BY DEF InGroup
  <2>4. first = y
    <3>1. /\ Start[first] = Start[y] /\ Start[y] \in Nat /\ Length[y] \in Nat \ {0}
          /\ End(y) = Start[y] + Length[y]
      BY <2>2, <2>3, ZoneFacts
    <3> QED BY <3>1, ZoneAt
  <2>5. (z - y) + 1 \in 1..GroupSize /\ y + ((z - y) + 1) - 1 = z
    BY <2>1, <2>3, <2>4 DEF Zones
  <2>6. processed[(z - y) + 1] = z
    BY <2>2, <2>5 DEF Run
  <2>7. Reached(call.op, cond[processed[(z - y) + 1]])
    BY <2>1, <2>5 DEF IndInv, EffectLasts
  <2> QED BY <2>6, <2>7
<1> QED BY <1>1, Invariance, PTL

\* No command of zbc_zone_group_op for a group changes a zone outside of it,
\* neither by its count nor by where the emulation's steps lead, unless a zone
\* of the group before its last one is shorter than the first; then the zones
\* it may change start at multiples of the first zone's length behind it.
THEOREM OnlyGroupTheorem == Spec => OnlyGroupChanges
<1> DEFINE A == CallStep => \A z \in Zones :
                  cond'[z] /= cond[z] /\ ~call.all
                    => InGroup(z) \/ (Oversteps /\ Stepped(z))
<1>1. IndInv /\ [Next]_vars => [A]_vars
  <2> SUFFICES ASSUME IndInv, CallStep, NEW z \in Zones,
                      cond'[z] /= cond[z], ~call.all
               PROVE  InGroup(z) \/ (Oversteps /\ Stepped(z))
    OBVIOUS
  <2>1. call \in Calls /\ GroupSize \in Nat \ {0}
    BY CallFacts DEF IndInv, TypeOK
  <2>2. CASE OperateDirect
    <3>1. PICK y \in Zones, n \in Nat \ {0} :
             /\ Start[y] = CmdSector(call.from) /\ y + n - 1 <= NrZones
             /\ cond' = Applied(cond, call.op, Elems(Run(y, n)))
             /\ processed' = processed \o Run(y, n)
             /\ n <= GroupSize
      BY <2>2, DirectCommand
    <3>2. y <= z /\ z < y + n
      BY <3>1, CommandFacts DEF IndInv
    <3>3. z < y + GroupSize
      BY <3>1, <3>2, <2>1 DEF Zones
    <3> QED BY <3>1, <3>2, <3>3, <2>1, RunInGroup
  <2>3. CASE EmulateStep
    <3>1. PICK first \in Zones, y \in Zones :
             /\ Start[first] = CmdSector(call.from)
             /\ Start[y] = Start[first] + i * Length[first]
             /\ i = 0 => y = first
             /\ ~Oversteps => y = first + i
             /\ cond' = Applied(cond, call.op, Elems(Run(y, 1)))
             /\ processed' = processed \o Run(y, 1)
      BY <2>3, StepCommand
    <3>2. y + 1 - 1 <= NrZones /\ y \in Nat /\ first \in Nat /\ z \in Nat
      BY ZoneFacts
    <3>3. z = y
      <4>1. y <= z /\ z < y + 1
        BY <3>1, <3>2, CommandFacts DEF IndInv
      <4> QED BY <4>1, <3>2
    <3>4. i \in Nat /\ i < GroupSize /\ i < call.count /\ call.count \in Nat
      <4>1. i \in Nat /\ i < call.count /\ call.count > 1
        BY <2>3 DEF IndInv, TypeOK, Stepping, EmulateStep
      <4> QED BY <4>1, <2>1, CallFacts
    <3>5. CASE y = first + i
      <4>1. first <= z /\ z < first + GroupSize
        BY <3>2, <3>3, <3>4, <3>5, <2>1
      <4> QED BY <4>1, <3>1, <2>1, RunInGroup
    <3>6. CASE y /= first + i
      <4>1. Oversteps
        BY <3>1, <3>6
      <4>2. i \in 1..(call.count - 1)
        BY <3>1, <3>2, <3>4, <3>6
      <4>3. Stepped(z)
        BY <4>2, <3>1, <3>3 DEF Stepped
      <4> QED BY <4>1, <4>3
    <3> QED BY <3>5, <3>6
  <2>4. CASE cond' = cond
    BY <2>4
  <2>5. OperateDirect \/ EmulateStep \/ cond' = cond
    BY DEF CallStep, RefuseUnaligned, OperateAll, DirectFails, EmulateKnown,
           EmulateUnset, Emulate, ReportFails, EmulateFails
  <2> QED BY <2>2, <2>3, <2>4, <2>5
<1> QED BY <1>1, Invariance, PTL DEF Spec, OnlyGroupChanges

=============================================================================
