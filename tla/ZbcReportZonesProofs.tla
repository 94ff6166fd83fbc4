------------------------ MODULE ZbcReportZonesProofs ------------------------
(***************************************************************************)
(* Proofs about ZbcReportZones, for any layout of zones, any sizes of the  *)
(* array and of the buffer, and any interference of other initiators.      *)
(***************************************************************************)
EXTENDS ZbcReportZones, ZbcArithmetic, SequenceTheorems

-----------------------------------------------------------------------------
(***************************************************************************)
(* Zones follow each other.                                                *)
(***************************************************************************)
LEMMA ZoneTypes ==
  ASSUME NEW z \in Zones
  PROVE  /\ z \in Nat \ {0} /\ z <= NrZones /\ NrZones \in Nat \ {0}
         /\ NrZones \in Zones
         /\ Start[z] \in Nat /\ Length[z] \in Nat \ {0}
         /\ End(z) = Start[z] + Length[z] /\ End(z) \in Nat
         /\ Capacity \in Nat
<1>1. z \in Nat \ {0} /\ z <= NrZones /\ NrZones \in Nat \ {0} /\ NrZones \in Zones
  BY LayoutAssumption DEF Zones
<1>2. \A y \in Zones : Start[y] \in Nat /\ Length[y] \in Nat \ {0}
  BY LayoutAssumption
<1>3. \A y \in Zones : End(y) = Start[y] + Length[y] /\ End(y) \in Nat
  BY <1>2 DEF End
<1> QED BY <1>1, <1>2, <1>3 DEF Capacity

LEMMA ZoneOrder ==
  ASSUME NEW y \in Zones, NEW z \in Zones, y < z
  PROVE  End(y) <= Start[z] /\ End(y) < End(z)
<1> DEFINE S == {d \in Nat : y + d + 1 \in Zones => End(y) <= Start[y + d + 1]}
<1>1. y \in Nat /\ z \in Nat /\ NrZones \in Nat /\ y >= 1
  BY ZoneTypes
<1>2. ASSUME NEW w \in Zones, w + 1 \in Zones
      PROVE  Start[w + 1] = End(w)
  <2>1. w \in 1..(NrZones - 1)
    BY <1>2, ZoneTypes DEF Zones
  <2> QED BY <2>1, LayoutAssumption DEF End
<1>3. 0 \in S
  <2>1. ASSUME y + 0 + 1 \in Zones PROVE End(y) <= Start[y + 0 + 1]
    <3>1. y + 0 + 1 = y + 1 /\ End(y) \in Nat
      BY <1>1, ZoneTypes
    <3> QED BY <3>1, <2>1, <1>2
  <2> QED BY <2>1
<1>4. ASSUME NEW d \in Nat, d \in S PROVE d + 1 \in S
  <2> SUFFICES ASSUME y + (d + 1) + 1 \in Zones
               PROVE  End(y) <= Start[y + (d + 1) + 1]
    BY <1>4
  <2> DEFINE w == y + d + 1
  <2>1. w \in Zones /\ w + 1 = y + (d + 1) + 1
    BY <1>1 DEF Zones
  <2>2. End(y) <= Start[w]
    BY <2>1, <1>4
  <2> HIDE DEF w
  <2>3. w + 1 \in Zones
    BY <2>1
  <2>4. Start[w + 1] = End(w) /\ End(w) = Start[w] + Length[w]
        /\ Start[w] \in Nat /\ Length[w] \in Nat /\ End(y) \in Nat
    BY <2>1, <2>3, <1>2, ZoneTypes
  <2>5. End(y) <= Start[w + 1]
    BY <2>2, <2>4
  <2> QED BY <2>1, <2>5
<1> HIDE DEF S
<1>5. Nat \subseteq S
  BY <1>3, <1>4, SetInduction
<1>6. z - y - 1 \in S /\ y + (z - y - 1) + 1 = z
  BY <1>1, <1>5
<1>7. End(y) <= Start[z]
  BY <1>6 DEF S
<1> QED BY <1>7, ZoneTypes

\* Behind the end of zone y there are the zones after it, and the device
\* ends with its last zone.
LEMMA EndOrder ==
  ASSUME NEW y \in Zones, NEW z \in Zones
  PROVE  /\ y < z <=> End(y) < End(z)
         /\ End(z) <= Capacity
<1>1. y \in Nat /\ z \in Nat /\ End(y) \in Nat /\ End(z) \in Nat
  BY ZoneTypes
<1>2. y < z => End(y) < End(z)
  BY ZoneOrder
<1>3. z < y => End(z) < End(y)
  BY ZoneOrder
<1>4. End(z) <= Capacity
  <2>1. z = NrZones \/ z < NrZones
    BY ZoneTypes
  <2>2. CASE z = NrZones
    BY <2>2, <1>1 DEF Capacity
  <2>3. CASE z < NrZones
    <3>1. NrZones \in Zones /\ End(NrZones) \in Nat
      BY ZoneTypes
    <3> QED BY <2>3, <3>1, <1>1, ZoneOrder DEF Capacity
  <2> QED BY <2>1, <2>2, <2>3
<1> QED BY <1>1, <1>2, <1>3, <1>4

\* Sets of zones, which InOrderFacts puts in order.
LEMMA ZonesFinite ==
  ASSUME NEW S \in SUBSET Zones
  PROVE  IsFiniteSet(S) /\ Cardinality(S) \in Nat /\ S \in SUBSET Nat
<1>1. IsFiniteSet(Zones)
  BY LayoutAssumption, FS_Interval DEF Zones
<1>2. S \in SUBSET Nat
  BY ZoneTypes
<1> QED BY <1>1, <1>2, FS_Subset, FS_CardinalityType

-----------------------------------------------------------------------------
(***************************************************************************)
(* A command: its buffer has room for the header and for a zone, whatever  *)
(* the limits of the command and the wrap of its size.                     *)
(***************************************************************************)
LEMMA BufFacts ==
  ASSUME NEW n \in Nat
  PROVE  BufSlots(n) \in Nat /\ BufSlots(n) > 1
<1> DEFINE asked == (n + 1) % UIntSlots
           fit   == IF RwSlots > asked THEN asked ELSE RwSlots
           q     == (fit + BufUnit - 1) \div BufUnit
<1>1. /\ BufUnit \in Nat /\ BufUnit > 1 /\ RwSlots \in Nat /\ UIntSlots \in Nat \ {0}
  BY ReportAssumption
<1>2. asked \in Nat
  BY <1>1, ModFacts
<1>3. fit \in Nat
  BY <1>1, <1>2
<1>4. BufSlots(n) = IF fit < BufUnit THEN BufUnit ELSE q * BufUnit
  BY DEF BufSlots
<1>5. ASSUME fit >= BufUnit PROVE q * BufUnit \in Nat /\ q * BufUnit > 1
  <2> HIDE DEF fit
  <2> DEFINE x == fit + BufUnit - 1
  <2>1. x \in Nat /\ BufUnit \in Nat \ {0}
    BY <1>1, <1>3
  <2>2. q \in Nat /\ x < BufUnit * q + BufUnit
    BY <2>1, DivFacts
  <2> HIDE DEF q
  <2>3. q * BufUnit = BufUnit * q /\ BufUnit * q \in Nat
    BY <2>2, <1>1
  <2> QED BY <2>2, <2>3, <1>1, <1>3, <1>5
<1> HIDE DEF fit, q
<1>6. CASE fit < BufUnit
  BY <1>1, <1>4, <1>6
<1>7. CASE fit >= BufUnit
  BY <1>1, <1>3, <1>4, <1>5, <1>7
<1> QED BY <1>1, <1>3, <1>6, <1>7

LEMMA CopiedFacts ==
  ASSUME NEW a \in Nat, NEW b \in Nat, NEW c \in Nat
  PROVE  /\ Copied(a, b, c) \in Nat /\ Copied(a, b, c) \in {a, b, c}
         /\ Copied(a, b, c) <= a /\ Copied(a, b, c) <= b /\ Copied(a, b, c) <= c
<1>1. \E k \in {a, b, c} : k <= a /\ k <= b /\ k <= c
  OBVIOUS
<1>2. /\ Copied(a, b, c) \in {a, b, c}
      /\ Copied(a, b, c) <= a /\ Copied(a, b, c) <= b /\ Copied(a, b, c) <= c
  BY <1>1 DEF Copied
<1> QED BY <1>2

\* What a command adds to the array: nothing only if nothing matches, and
\* else the matching zones up to some zone.
LEMMA FetchFacts ==
  ASSUME IndInv, Fetch
  PROVE  \E k \in Nat :
           LET S == Matching(sector, call.ro) IN
           /\ k <= Cardinality(S) /\ k <= max - Len(zones) /\ (k = 0 => S = {})
           /\ zones' = zones \o SubSeq(InOrder(S), 1, k)
           /\ IF EndOfReport(k, NextSector(zones'))
                THEN LeaveLoop(0, Len(zones')) /\ UNCHANGED sector
                ELSE /\ sector' = NextSector(zones')
                     /\ UNCHANGED <<pc, result>>
<1> DEFINE S    == Matching(sector, call.ro)
           n    == max - Len(zones)
           most == Copied(Cardinality(S), n, BufSlots(n) - 1)
<1>1. max \in Nat /\ Len(zones) \in Nat /\ Len(zones) < max
  BY DEF IndInv, TypeOK, Fetch, Looping
<1>2. n \in Nat /\ n > 0
  BY <1>1
<1>3. S \in SUBSET Zones
  BY DEF Matching
<1> HIDE DEF S, n
<1>4. Cardinality(S) \in Nat /\ IsFiniteSet(S)
  BY <1>3, ZonesFinite
<1>5. BufSlots(n) - 1 \in Nat /\ BufSlots(n) - 1 > 0
  BY <1>2, BufFacts
<1>6. /\ most \in Nat /\ most \in {Cardinality(S), n, BufSlots(n) - 1}
      /\ most <= Cardinality(S) /\ most <= n
  BY <1>2, <1>4, <1>5, CopiedFacts
<1>7. PICK k \in 0..most :
         /\ k = 0 => most = 0
         /\ zones' = zones \o SubSeq(InOrder(S), 1, k)
         /\ IF EndOfReport(k, NextSector(zones'))
              THEN LeaveLoop(0, Len(zones')) /\ UNCHANGED sector
              ELSE /\ sector' = NextSector(zones')
                   /\ UNCHANGED <<pc, result>>
  BY DEF Fetch, S, n
<1> HIDE DEF most
<1>8. k \in Nat /\ k <= Cardinality(S) /\ k <= n
  BY <1>4, <1>6, <1>7, <1>2
<1>9. ASSUME k = 0 PROVE S = {}
  <2>1. most = 0
    BY <1>7, <1>9
  <2>2. Cardinality(S) = 0
    BY <2>1, <1>2, <1>5, <1>6
  <2> QED BY <2>2, <1>4, FS_EmptySet
<1> QED BY <1>7, <1>8, <1>9 DEF S, n

\* The array after it.
LEMMA AddFacts ==
  ASSUME NEW s \in Seq(Zones), NEW S \in SUBSET Zones, NEW k \in Nat,
         k <= Cardinality(S)
  PROVE  LET t == s \o SubSeq(InOrder(S), 1, k) IN
         /\ t \in Seq(Zones) /\ Len(t) = Len(s) + k /\ Len(s) \in Nat
         /\ \A j \in 1..Len(s) : t[j] = s[j]
         /\ \A j \in 1..Len(t) :
              j > Len(s) => t[j] = InOrder(S)[j - Len(s)] /\ t[j] \in S
                            /\ j - Len(s) \in 1..Cardinality(S)
<1> DEFINE o == InOrder(S)
           a == SubSeq(o, 1, k)
           t == s \o a
<1>1. o \in Seq(S) /\ Len(o) = Cardinality(S) /\ Cardinality(S) \in Nat
  BY ZonesFinite, InOrderFacts
<1> HIDE DEF o
<1>2. \A j \in 1..k : o[j] \in S
  BY <1>1
<1>3. /\ a \in Seq(Zones) /\ Len(a) = k /\ \A j \in 1..k : a[j] = o[j]
  <2>1. \A j \in 1..k : o[j] \in Zones
    BY <1>2
  <2>2. /\ a \in Seq(Zones) /\ Len(a) = (IF 1 <= k THEN k - 1 + 1 ELSE 0)
        /\ \A j \in 1..(k - 1 + 1) : a[j] = o[1 + j - 1]
    BY <2>1, SubSeqProperties
  <2> HIDE DEF a
  <2>3. Len(a) = k
    BY <2>2
  <2>4. ASSUME NEW j \in 1..k PROVE a[j] = o[j]
    <3>1. j \in 1..(k - 1 + 1) /\ 1 + j - 1 = j
      OBVIOUS
    <3> QED BY <2>2, <3>1, Zenon
  <2>5. a \in Seq(Zones)
    BY <2>2
  <2> QED BY <2>3, <2>4, <2>5
<1> HIDE DEF a
<1>4. /\ t \in Seq(Zones) /\ Len(t) = Len(s) + Len(a)
      /\ \A j \in 1..(Len(s) + Len(a)) :
           t[j] = IF j <= Len(s) THEN s[j] ELSE a[j - Len(s)]
  <2>1. a \in Seq(Zones)
    BY <1>3
  <2> QED BY <2>1, ConcatProperties
<1>5. Len(s) \in Nat
  OBVIOUS
<1> HIDE DEF t
<1>6. \A j \in 1..Len(s) : t[j] = s[j]
  BY <1>3, <1>4, <1>5
<1>7. ASSUME NEW j \in 1..Len(t), j > Len(s)
      PROVE  t[j] = o[j - Len(s)] /\ t[j] \in S /\ j - Len(s) \in 1..Cardinality(S)
  <2>1. j - Len(s) \in 1..k /\ j \in 1..(Len(s) + Len(a)) /\ ~(j <= Len(s))
    BY <1>3, <1>4, <1>5, <1>7
  <2>2. t[j] = a[j - Len(s)]
    BY <2>1, <1>4
  <2>3. j - Len(s) \in 1..Cardinality(S)
    BY <2>1, <1>1
  <2> QED BY <2>1, <2>2, <2>3, <1>2, <1>3
<1>8. /\ t \in Seq(Zones) /\ Len(t) = Len(s) + k
  BY <1>3, <1>4
<1> QED BY <1>5, <1>6, <1>7, <1>8 DEF t, a, o

\* Zones are added behind those of the array, as far as they match.
LEMMA FetchOrder ==
  ASSUME IndInv, Fetch, NEW S, S = Matching(sector, call.ro), NEW k \in Nat,
         k <= Cardinality(S), k <= max - Len(zones),
         zones' = zones \o SubSeq(InOrder(S), 1, k)
  PROVE  /\ zones' \in Seq(Zones) /\ Len(zones') = Len(zones) + k
         /\ Len(zones') <= max
         /\ \A j \in 1..Len(zones') : End(zones'[j]) > call.from
         /\ \A j \in 1..(Len(zones') - 1) : zones'[j] < zones'[j + 1]
         /\ Reported \subseteq Reported' /\ Reported' \subseteq Reported \cup S
         /\ k > 0 => \A z \in S : z \in Reported' \/ zones'[Len(zones')] < z
<1>1. /\ max \in Nat /\ zones \in Seq(Zones) /\ Len(zones) \in Nat /\ Len(zones) < max
      /\ call.from \in Nat /\ sector \in Nat
  <2>1. call.from \in Nat
    BY ReportAssumption DEF IndInv, TypeOK, Calls
  <2> QED BY <2>1 DEF IndInv, TypeOK, Fetch, Looping
<1>2. S \in SUBSET Zones /\ \A z \in S : End(z) > sector
  BY DEF Matching
<1> DEFINE n == Len(zones)
           o == InOrder(S)
<1>3. /\ zones' \in Seq(Zones) /\ Len(zones') = n + k
      /\ \A j \in 1..n : zones'[j] = zones[j]
      /\ \A j \in 1..Len(zones') :
           j > n => zones'[j] = o[j - n] /\ zones'[j] \in S /\ j - n \in 1..Cardinality(S)
  <2>1. zones \in Seq(Zones)
    BY <1>1
  <2> DEFINE t == zones \o SubSeq(InOrder(S), 1, k)
  <2>2. /\ t \in Seq(Zones) /\ Len(t) = n + k
        /\ \A j \in 1..n : t[j] = zones[j]
        /\ \A j \in 1..Len(t) :
             j > n => t[j] = o[j - n] /\ t[j] \in S /\ j - n \in 1..Cardinality(S)
    BY <2>1, <1>2, AddFacts, ZenonT(30)
  <2>3. zones' = t
    OBVIOUS
  <2> HIDE DEF t, o
  <2> QED BY <2>2, <2>3, Zenon
<1>4. /\ \A j, l \in 1..Cardinality(S) : j < l => o[j] < o[l]
      /\ \A z \in S : \E j \in 1..Cardinality(S) : o[j] = z
      /\ Cardinality(S) \in Nat
  BY <1>2, ZonesFinite, InOrderFacts
<1>5. /\ \A j \in 1..n : End(zones[j]) > call.from
      /\ \A j \in 1..(n - 1) : zones[j] < zones[j + 1]
      /\ sector = IF zones = <<>> THEN call.from ELSE End(zones[n])
  <2>1. pc = "fetch" /\ ReportInOrder /\ Onward
    BY DEF IndInv, Fetch
  <2> QED BY <2>1 DEF ReportInOrder, Onward
<1> HIDE DEF o
<1>6. Len(zones') <= max
  BY <1>1, <1>3
<1>7. sector >= call.from
  <2>1. CASE zones = <<>>
    BY <2>1, <1>1, <1>5
  <2>2. CASE zones # <<>>
    <3>1. n \in 1..n /\ zones[n] \in Zones
      BY <2>2, <1>1, EmptySeq
    <3>2. End(zones[n]) > call.from /\ End(zones[n]) \in Nat
      BY <3>1, <1>5, ZoneTypes
    <3> QED BY <2>2, <3>2, <1>1, <1>5
  <2> QED BY <2>1, <2>2
<1>8. ASSUME NEW j \in 1..Len(zones') PROVE End(zones'[j]) > call.from
  <2>1. CASE j <= n
    BY <2>1, <1>1, <1>3, <1>5
  <2>2. CASE j > n
    <3>1. zones'[j] \in S /\ zones'[j] \in Zones
      BY <2>2, <1>3, <1>2
    <3>2. End(zones'[j]) > sector /\ End(zones'[j]) \in Nat
      BY <3>1, <1>2, ZoneTypes
    <3> QED BY <3>2, <1>1, <1>7
  <2>3. j <= n \/ j > n
    BY <1>1
  <2> QED BY <2>1, <2>2, <2>3
<1>9. ASSUME NEW j \in 1..(Len(zones') - 1) PROVE zones'[j] < zones'[j + 1]
  <2>1. j \in Nat /\ j \in 1..Len(zones') /\ j + 1 \in 1..Len(zones')
    BY <1>1, <1>3
  <2>2. CASE j < n
    <3>1. j \in 1..(n - 1) /\ j \in 1..n /\ j + 1 \in 1..n
      BY <2>1, <2>2, <1>1
    <3> QED BY <3>1, <1>3, <1>5
  <2>3. CASE j = n
    <3>1. zones # <<>> /\ n \in 1..n /\ zones'[n] = zones[n] /\ zones[n] \in Zones
      BY <2>1, <2>3, <1>1, <1>3
    <3>2. zones'[j + 1] \in S
      <4>1. j + 1 > n
        BY <2>1, <2>3
      <4> QED BY <4>1, <2>1, <1>3, Zenon
    <3>3. End(zones'[j + 1]) > End(zones[n])
      BY <3>1, <3>2, <1>2, <1>5
    <3>4. End(zones'[j + 1]) \in Nat /\ End(zones[n]) \in Nat /\ zones'[j + 1] \in Zones
      BY <3>1, <3>2, <1>2, ZoneTypes
    <3>5. zones[n] < zones'[j + 1]
      BY <3>1, <3>3, <3>4, EndOrder
    <3> QED BY <3>1, <3>5, <2>3
  <2>4. CASE j > n
    <3>1. zones'[j] = o[j - n] /\ j - n \in 1..Cardinality(S)
      BY <2>1, <2>4, <1>3
    <3>2. j + 1 > n /\ j - n < j + 1 - n
      BY <2>1, <2>4, <1>1
    <3>3. zones'[j + 1] = o[j + 1 - n] /\ j + 1 - n \in 1..Cardinality(S)
      BY <2>1, <3>2, <1>3
    <3> QED BY <3>1, <3>2, <3>3, <1>4
  <2>5. j < n \/ j = n \/ j > n
    BY <2>1, <1>1
  <2> QED BY <2>2, <2>3, <2>4, <2>5
<1>10. Reported \subseteq Reported'
  <2> SUFFICES ASSUME NEW j \in 1..n PROVE zones[j] \in Reported'
    BY DEF Reported
  <2>1. j \in 1..Len(zones') /\ zones'[j] = zones[j]
    BY <1>1, <1>3
  <2> QED BY <2>1 DEF Reported
<1>11. Reported' \subseteq Reported \cup S
  <2> SUFFICES ASSUME NEW j \in 1..Len(zones') PROVE zones'[j] \in Reported \cup S
    BY DEF Reported
  <2>1. CASE j <= n
    <3>1. j \in 1..n
      BY <2>1, <1>1
    <3> QED BY <3>1, <1>3 DEF Reported
  <2>2. CASE j > n
    BY <2>2, <1>3
  <2>3. j <= n \/ j > n
    BY <1>1
  <2> QED BY <2>1, <2>2, <2>3
<1>12. ASSUME k > 0, NEW z \in S
       PROVE  z \in Reported' \/ zones'[Len(zones')] < z
  <2>1. PICK j \in 1..Cardinality(S) : o[j] = z
    BY <1>4
  <2>2. CASE j <= k
    <3>1. n + j \in 1..Len(zones') /\ n + j > n /\ (n + j) - n = j
      BY <2>2, <1>1, <1>3
    <3>2. zones'[n + j] = z
      BY <3>1, <2>1, <1>3
    <3> QED BY <3>1, <3>2 DEF Reported
  <2>3. CASE j > k
    <3>1. /\ n + k \in 1..Len(zones') /\ n + k > n /\ (n + k) - n = k
          /\ Len(zones') = n + k /\ k \in 1..Cardinality(S)
      BY <1>12, <1>1, <1>3, <1>4
    <3>2. zones'[n + k] = o[k]
      BY <3>1, <1>3
    <3>3. o[k] < o[j]
      BY <3>1, <2>3, <1>4
    <3> QED BY <3>1, <3>2, <3>3, <2>1
  <2>4. j <= k \/ j > k
    BY <1>4
  <2> QED BY <2>2, <2>3, <2>4
<1> QED BY <1>3, <1>6, <1>8, <1>9, <1>10, <1>11, <1>12

\* A sequence that ascends step by step lists each zone once.
LEMMA AscendingFacts ==
  ASSUME NEW s \in Seq(Zones), \A j \in 1..(Len(s) - 1) : s[j] < s[j + 1]
  PROVE  /\ IsFiniteSet({s[j] : j \in 1..Len(s)})
         /\ Cardinality({s[j] : j \in 1..Len(s)}) = Len(s)
<1> DEFINE n == Len(s)
           T == {s[j] : j \in 1..n}
<1>1. n \in Nat /\ \A j \in 1..n : s[j] \in Zones /\ s[j] \in Nat
  BY ZoneTypes
<1>2. ASSUME NEW j \in 1..n, NEW k \in 1..n, j < k PROVE s[j] < s[k]
  <2> DEFINE P == {d \in Nat : j + d + 1 <= n => s[j] < s[j + d + 1]}
  <2>1. 0 \in P
    <3>1. ASSUME j + 0 + 1 <= n PROVE s[j] < s[j + 0 + 1]
      <4>1. j \in 1..(n - 1) /\ j + 0 + 1 = j + 1
        BY <3>1, <1>1
      <4> QED BY <4>1
    <3> QED BY <3>1
  <2>2. ASSUME NEW d \in Nat, d \in P PROVE d + 1 \in P
    <3>1. ASSUME j + (d + 1) + 1 <= n PROVE s[j] < s[j + (d + 1) + 1]
      <4> DEFINE m == j + d + 1
      <4>1. m \in 1..(n - 1) /\ m <= n /\ m + 1 = j + (d + 1) + 1 /\ m \in 1..n
            /\ m + 1 \in 1..n
        BY <3>1, <1>1
      <4>2. s[j] < s[m]
        BY <4>1, <2>2
      <4> HIDE DEF m
      <4>3. s[m] < s[m + 1]
        BY <4>1
      <4>4. s[j] \in Nat /\ s[m] \in Nat /\ s[m + 1] \in Nat
        BY <4>1, <1>1
      <4>5. s[j] < s[m + 1]
        BY <4>2, <4>3, <4>4
      <4> QED BY <4>1, <4>5
    <3> QED BY <2>2, <3>1
  <2> HIDE DEF P
  <2>3. Nat \subseteq P
    BY <2>1, <2>2, SetInduction
  <2>4. k - j - 1 \in P /\ j + (k - j - 1) + 1 = k
    BY <2>3, <1>1, <1>2
  <2> QED BY <2>4, <1>1 DEF P
<1>3. s \in [1..n -> T] /\ \A t \in T : \E j \in 1..n : s[j] = t
  BY <1>1
<1>4. \A j, k \in 1..n : s[j] = s[k] => j = k
  <2> SUFFICES ASSUME NEW j \in 1..n, NEW k \in 1..n, s[j] = s[k] PROVE j = k
    OBVIOUS
  <2>1. s[j] \in Nat /\ s[k] \in Nat
    BY <1>1
  <2>2. ~(j < k) /\ ~(k < j)
    BY <1>2, <2>1
  <2> QED BY <2>2, <1>1
<1> HIDE DEF T
<1>5. s \in Bijection(1..n, T)
  BY <1>3, <1>4, Fun_IsBij
<1>6. ExistsBijection(1..n, T)
  BY <1>5, Fun_ExistsBij
<1>7. IsFiniteSet(1..n) /\ Cardinality(1..n) = n
  BY <1>1, IntervalSize
<1>8. IsFiniteSet(T) /\ Cardinality(T) = n
  BY <1>6, <1>7, FS_Bijection
<1> QED BY <1>8 DEF T

-----------------------------------------------------------------------------
(***************************************************************************)
(* The inductive invariant holds initially and each action preserves it.   *)
(***************************************************************************)
LEMMA CallTypes ==
  ASSUME call \in Calls
  PROVE  /\ call.from \in Nat /\ call.size \in Nat /\ call.ro \subseteq Conditions
         /\ call.kind \in {"list", "count", "report"}
<1>1. FromSectors \subseteq Nat /\ ArraySizes \subseteq Nat
      /\ \A f \in Filters : f \subseteq Conditions
  BY ReportAssumption
<1> QED BY <1>1 DEF Calls

LEMMA InitInv == Init => IndInv
<1> SUFFICES ASSUME Init PROVE IndInv
  OBVIOUS
<1>1. /\ call \in Calls /\ zones = <<>> /\ Len(zones) = 0 /\ max = 0 /\ pc = "call"
      /\ array = "none" /\ devErr = FALSE /\ changed = FALSE
      /\ lasting = Matching(call.from, call.ro)
  BY DEF Init
<1>2. TypeOK
  <2>1. cond \in [Zones -> Conditions]
    BY DEF Init, Conditions
  <2>2. max \in Nat /\ sector \in Nat /\ nr \in Nat /\ ret \in Int
    BY CallTypes DEF Init
  <2>3. zones \in Seq(Zones) /\ lasting \subseteq Zones
    BY <1>1 DEF Matching
  <2>4. devErr \in BOOLEAN /\ changed \in BOOLEAN
    BY <1>1
  <2> QED BY <1>1, <2>1, <2>2, <2>3, <2>4 DEF TypeOK
<1>3. Reported = {}
  BY <1>1 DEF Reported
<1>4. ReportInOrder
  BY <1>1 DEF ReportInOrder
<1>5. Onward /\ StillAhead
  BY <1>1 DEF Onward, StillAhead
<1>6. Counted
  BY <1>1, <1>3 DEF Counted
<1>7. NoZoneLost /\ ListExact /\ ErrorsSurface
  BY <1>1 DEF NoZoneLost, ListExact, ErrorsSurface
<1> QED BY <1>2, <1>4, <1>5, <1>6, <1>7 DEF IndInv

\* The zones found, where a step leaves them alone.
LEMMA SameZones ==
  ASSUME IndInv, UNCHANGED <<cond, call, max, zones, history>>
  PROVE  /\ ReportInOrder' /\ Reported' = Reported
         /\ (lasting \subseteq Matching(call.from, call.ro))'
         /\ ~changed' => /\ lasting' = Matching(call.from, call.ro)'
                         /\ Reported' \subseteq lasting'
<1>1. ReportInOrder /\ StillAhead /\ Counted
  BY DEF IndInv
<1>2. ReportInOrder'
  BY <1>1 DEF ReportInOrder
<1>3. Reported' = Reported
  BY DEF Reported
<1>4. Matching(call.from, call.ro)' = Matching(call.from, call.ro)
  BY DEF Matching
<1>5. changed' = changed /\ lasting' = lasting
  BY DEF history
<1> QED BY <1>1, <1>2, <1>3, <1>4, <1>5 DEF StillAhead, Counted

\* The call ends before the loop.
LEMMA EndAtCall ==
  ASSUME IndInv, pc = "call", pc' = "done", array' = "none",
         nr' \in Nat, ret' \in Int, devErr' \in BOOLEAN, devErr' => ret' < 0,
         call.kind = "list" /\ ret' = 0 /\ ~changed => lasting = {} /\ nr' = 0,
         UNCHANGED <<cond, call, max, sector, zones, history>>
  PROVE  IndInv'
<1>1. zones = <<>> /\ max = 0 /\ Reported = {}
  BY DEF IndInv, Onward, Reported
<1>2. /\ ReportInOrder' /\ Reported' = Reported
      /\ (lasting \subseteq Matching(call.from, call.ro))'
      /\ ~changed' => /\ lasting' = Matching(call.from, call.ro)'
                      /\ Reported' \subseteq lasting'
  BY SameZones
<1>3. changed' = changed /\ lasting' = lasting
  BY DEF history
<1>4. TypeOK'
  <2>1. pc' \in {"call", "fetch", "done"} /\ array' \in {"none", "held", "freed", "given"}
    OBVIOUS
  <2>2. changed' \in BOOLEAN
    BY <1>3 DEF IndInv, TypeOK
  <2> QED BY <1>3, <2>1, <2>2 DEF IndInv, TypeOK
<1>5. Onward' /\ StillAhead' /\ Counted'
  BY <1>2 DEF Onward, StillAhead, Counted
<1>6. NoZoneLost'
  <2>1. ~(nr' < max')
    BY <1>1
  <2> QED BY <2>1 DEF NoZoneLost
<1>7. ListExact'
  <2>1. Cardinality({}) = 0
    BY FS_EmptySet
  <2> QED BY <2>1, <1>1, <1>2, <1>3 DEF ListExact
<1>8. ErrorsSurface'
  BY DEF ErrorsSurface
<1> QED BY <1>2, <1>4, <1>5, <1>6, <1>7, <1>8 DEF IndInv

\* The loop starts.
LEMMA StartInv ==
  ASSUME IndInv, pc = "call", NEW size \in Nat, NEW arr \in {"none", "held"},
         StartFetch(size, arr), nr' \in Nat, call.kind # "count",
         call.kind = "list" =>
           size > 0 /\ call.from < Capacity /\ size = ZoneCount,
         UNCHANGED <<cond, call, ret, devErr, history>>
  PROVE  IndInv'
<1>1. /\ pc' = "fetch" /\ max' = size /\ sector' = call.from /\ zones' = <<>>
      /\ array' = arr
  BY DEF StartFetch
<1>2. changed' = changed /\ lasting' = lasting
  BY DEF history
<1>3. /\ zones = <<>> /\ call.from \in Nat /\ Len(zones') = 0
      /\ Reported' = {} /\ Reported = {}
  BY <1>1, CallTypes DEF IndInv, TypeOK, Onward, Reported
<1>4. Matching(call.from, call.ro)' = Matching(call.from, call.ro)
  BY DEF Matching
<1>5. lasting \subseteq Matching(call.from, call.ro)
      /\ (~changed => lasting = Matching(call.from, call.ro))
  BY DEF IndInv, StillAhead, Counted
<1>6. TypeOK'
  <2>1. changed' \in BOOLEAN /\ devErr' \in BOOLEAN
    BY <1>2 DEF IndInv, TypeOK
  <2>2. zones' \in Seq(Zones) /\ max' \in Nat /\ sector' \in Nat
    BY <1>1, <1>3
  <2>3. pc' \in {"call", "fetch", "done"} /\ array' \in {"none", "held", "freed", "given"}
    BY <1>1
  <2> QED BY <1>2, <2>1, <2>2, <2>3 DEF IndInv, TypeOK
<1>7. ReportInOrder'
  BY <1>1, <1>3 DEF ReportInOrder
<1>8. Onward'
  <2>1. ~devErr
    BY DEF IndInv, Onward
  <2> QED BY <1>1, <2>1 DEF Onward
<1>9. StillAhead'
  BY <1>1, <1>2, <1>4, <1>5 DEF StillAhead, Matching
<1>10. Counted'
  BY <1>1, <1>2, <1>3, <1>4, <1>5 DEF Counted, ZoneCount
<1>11. NoZoneLost' /\ ListExact' /\ ErrorsSurface'
  BY <1>1 DEF NoZoneLost, ListExact, ErrorsSurface
<1> QED BY <1>6, <1>7, <1>8, <1>9, <1>10, <1>11 DEF IndInv

\* The loop ends, with an error, with a full array or with every zone that
\* lasted.
LEMMA LeaveInv ==
  ASSUME IndInv, pc = "fetch", NEW value \in Int, NEW found \in Nat,
         LeaveLoop(value, found), value = 0 => found = Len(zones'),
         devErr' \in BOOLEAN, devErr' => value < 0,
         zones' \in Seq(Zones), ReportInOrder', ~changed => Reported' \subseteq lasting,
         value = 0 => Len(zones') = max \/ lasting \subseteq Reported',
         UNCHANGED <<cond, call, max, sector, history>>
  PROVE  IndInv'
<1>1. /\ pc' = "done" /\ ret' = value
      /\ nr' = (IF value = 0 THEN found ELSE call.size)
      /\ array' = (IF array = "held"
                     THEN (IF value = 0 THEN "given" ELSE "freed") ELSE array)
  BY DEF LeaveLoop
<1>2. changed' = changed /\ lasting' = lasting
  BY DEF history
<1>3. /\ call.size \in Nat /\ array \in {"none", "held"} /\ max \in Nat
      /\ lasting \in SUBSET Zones
  BY CallTypes DEF IndInv, TypeOK, Onward
<1>4. Matching(call.from, call.ro)' = Matching(call.from, call.ro)
  BY DEF Matching
<1>5. TypeOK'
  <2>1. changed' \in BOOLEAN
    BY <1>2 DEF IndInv, TypeOK
  <2>2. nr' \in Nat /\ ret' \in Int
    BY <1>1, <1>3
  <2>3. pc' \in {"call", "fetch", "done"} /\ array' \in {"none", "held", "freed", "given"}
    BY <1>1, <1>3
  <2> QED BY <1>2, <2>1, <2>2, <2>3 DEF IndInv, TypeOK
<1>6. Onward' /\ StillAhead' /\ Counted'
  BY <1>1, <1>2, <1>4 DEF IndInv, Onward, StillAhead, Counted
<1>7. NoZoneLost'
  <2> SUFFICES ASSUME value = 0, found < max PROVE lasting \subseteq Reported'
    BY <1>1, <1>2 DEF NoZoneLost
  <2>1. Len(zones') # max
    BY <1>3
  <2> QED BY <2>1
<1>8. ListExact'
  <2> SUFFICES ASSUME call.kind = "list", value = 0, ~changed
               PROVE  Reported' = lasting /\ nr' = Cardinality(lasting)
    BY <1>1, <1>2 DEF ListExact
  <2>1. IsFiniteSet(Reported') /\ Cardinality(Reported') = Len(zones')
    BY AscendingFacts DEF ReportInOrder, Reported
  <2>2. Reported' \subseteq lasting /\ max = Cardinality(lasting)
    BY DEF IndInv, Counted
  <2>3. IsFiniteSet(lasting)
    BY <1>3, ZonesFinite
  <2>4. Reported' = lasting
    <3>1. CASE lasting \subseteq Reported'
      BY <3>1, <2>2
    <3>2. CASE Len(zones') = max
      BY <3>2, <2>1, <2>2, <2>3, FS_Subset
    <3> QED BY <3>1, <3>2
  <2> QED BY <2>1, <2>4, <1>1
<1>9. ErrorsSurface'
  <2>1. devErr' => ret' < 0 /\ array' # "given"
    BY <1>1, <1>3
  <2>2. array' # "held"
    BY <1>1, <1>3
  <2> QED BY <2>1, <2>2 DEF ErrorsSurface
<1> QED BY <1>5, <1>6, <1>7, <1>8, <1>9 DEF IndInv

\* A command of the loop succeeds.
LEMMA FetchInv ==
  ASSUME IndInv, Fetch
  PROVE  IndInv'
<1> DEFINE S == Matching(sector, call.ro)
<1>1. PICK k \in Nat :
         /\ k <= Cardinality(S) /\ k <= max - Len(zones) /\ (k = 0 => S = {})
         /\ zones' = zones \o SubSeq(InOrder(S), 1, k)
         /\ IF EndOfReport(k, NextSector(zones'))
              THEN LeaveLoop(0, Len(zones')) /\ UNCHANGED sector
              ELSE /\ sector' = NextSector(zones')
                   /\ UNCHANGED <<pc, result>>
  BY FetchFacts
<1>2. /\ zones' \in Seq(Zones) /\ Len(zones') = Len(zones) + k
      /\ Len(zones') <= max
      /\ \A j \in 1..Len(zones') : End(zones'[j]) > call.from
      /\ \A j \in 1..(Len(zones') - 1) : zones'[j] < zones'[j + 1]
      /\ Reported \subseteq Reported' /\ Reported' \subseteq Reported \cup S
      /\ k > 0 => \A z \in S : z \in Reported' \/ zones'[Len(zones')] < z
  BY <1>1, FetchOrder
<1>3. /\ pc = "fetch" /\ UNCHANGED <<cond, call, max, devErr, history>>
      /\ changed' = changed /\ lasting' = lasting
  BY DEF Fetch, history
<1>4. /\ call \in Calls /\ call.from \in Nat /\ sector \in Nat /\ zones \in Seq(Zones)
      /\ Len(zones) \in Nat /\ max \in Nat /\ ~devErr
      /\ devErr \in BOOLEAN /\ changed \in BOOLEAN /\ lasting \subseteq Zones
      /\ call.kind # "count" /\ array \in {"none", "held"}
  BY <1>3, CallTypes DEF IndInv, TypeOK, Onward
<1>5. ReportInOrder'
  BY <1>2, <1>3 DEF ReportInOrder
<1>6. sector >= call.from
  <2>1. CASE zones = <<>>
    BY <2>1, <1>3, <1>4 DEF IndInv, Onward
  <2>2. CASE zones # <<>>
    <3>1. Len(zones) \in 1..Len(zones) /\ zones[Len(zones)] \in Zones
      BY <2>2, <1>4, EmptySeq
    <3>2. End(zones[Len(zones)]) > call.from /\ End(zones[Len(zones)]) \in Nat
      BY <3>1, ZoneTypes DEF IndInv, ReportInOrder
    <3> QED BY <2>2, <3>2, <1>3, <1>4 DEF IndInv, Onward
  <2> QED BY <2>1, <2>2
<1>7. ~changed => Reported' \subseteq lasting
  <2>1. ~changed => lasting = Matching(call.from, call.ro) /\ Reported \subseteq lasting
    BY DEF IndInv, Counted
  <2>2. S \subseteq Matching(call.from, call.ro)
    <3> SUFFICES ASSUME NEW z \in S PROVE z \in Matching(call.from, call.ro)
      OBVIOUS
    <3>1. z \in Zones /\ End(z) > sector /\ cond[z] \in call.ro
      BY DEF Matching
    <3>2. End(z) \in Nat
      BY <3>1, ZoneTypes
    <3> QED BY <3>1, <3>2, <1>4, <1>6 DEF Matching
  <2> QED BY <2>1, <2>2, <1>2
<1>8. \A z \in lasting : z \in Reported \/ z \in S
  <2> SUFFICES ASSUME NEW z \in lasting, z \notin Reported PROVE z \in S
    OBVIOUS
  <2>1. z \in Zones /\ cond[z] \in call.ro
    BY DEF IndInv, StillAhead, Matching
  <2>2. End(z) > sector
    BY <1>3 DEF IndInv, StillAhead
  <2> QED BY <2>1, <2>2 DEF Matching
<1> DEFINE last == zones'[Len(zones')]
<1>9. ASSUME k > 0
      PROVE  /\ zones' # <<>> /\ last \in Zones
             /\ \A z \in lasting : z \in Reported' \/ End(z) > End(last)
  <2>1. Len(zones') \in 1..Len(zones') /\ zones' # <<>>
    BY <1>2, <1>4, <1>9
  <2>2. last \in Zones
    BY <2>1, <1>2
  <2>3. ASSUME NEW z \in lasting, z \notin Reported' PROVE End(z) > End(last)
    <3>1. z \in Zones /\ z \in S
      BY <2>3, <1>2, <1>4, <1>8
    <3>2. last < z
      BY <2>3, <3>1, <1>2, <1>9
    <3>3. End(last) < End(z) /\ End(z) \in Nat /\ End(last) \in Nat
      BY <2>2, <3>1, <3>2, EndOrder, ZoneTypes
    <3> QED BY <3>3
  <2> QED BY <2>1, <2>2, <2>3
<1> HIDE DEF S
<1>10. CASE EndOfReport(k, NextSector(zones'))
  <2>1. LeaveLoop(0, Len(zones')) /\ sector' = sector
    BY <1>1, <1>10
  <2>2. lasting \subseteq Reported'
    <3>1. CASE k = 0
      BY <3>1, <1>1, <1>2, <1>8
    <3>2. CASE k > 0
      <4>1. End(last) >= Capacity
        <5>1. NextSector(zones') = End(last)
          BY <3>2, <1>9 DEF NextSector
        <5> QED BY <5>1, <3>2, <1>10 DEF EndOfReport
      <4>2. ASSUME NEW z \in lasting PROVE ~(End(z) > End(last))
        <5>1. z \in Zones
          BY <1>4
        <5>2. /\ End(z) \in Nat /\ End(last) \in Nat /\ Capacity \in Nat
              /\ End(z) <= Capacity
          BY <5>1, <3>2, <1>9, ZoneTypes, EndOrder
        <5> QED BY <5>2, <4>1
      <4> QED BY <4>2, <3>2, <1>9
    <3> QED BY <3>1, <3>2
  <2>3. Len(zones') \in Nat /\ 0 \in Int
    BY <1>2
  <2>4. devErr' \in BOOLEAN /\ ~devErr'
    BY <1>3, <1>4
  <2> QED BY <2>1, <2>2, <2>3, <2>4, <1>2, <1>3, <1>5, <1>7, LeaveInv
<1>11. CASE ~EndOfReport(k, NextSector(zones'))
  <2>1. sector' = NextSector(zones') /\ UNCHANGED <<pc, result>>
    BY <1>1, <1>11
  <2>2. k > 0
    BY <1>11 DEF EndOfReport
  <2>3. sector' = End(last) /\ zones' # <<>> /\ last \in Zones /\ End(last) \in Nat
    BY <2>1, <2>2, <1>9, ZoneTypes DEF NextSector
  <2>4. pc' = pc /\ nr' = nr /\ ret' = ret /\ array' = array
    BY <2>1 DEF result
  <2>5. TypeOK'
    <3>1. changed' \in BOOLEAN /\ devErr' \in BOOLEAN
      BY <1>3, <1>4
    <3> QED BY <3>1, <2>3, <2>4, <1>2, <1>3 DEF IndInv, TypeOK
  <2>6. Onward'
    <3>1. ~devErr' /\ pc' = "fetch"
      BY <1>3, <1>4, <2>4
    <3> QED BY <3>1, <2>3, <2>4, <1>3, <1>4 DEF Onward
  <2>7. Matching(call.from, call.ro)' = Matching(call.from, call.ro)
    BY <1>3 DEF Matching
  <2>8. StillAhead'
    <3>1. lasting' \subseteq Matching(call.from, call.ro)'
      BY <2>7, <1>3 DEF IndInv, StillAhead
    <3>2. \A z \in lasting : z \in Reported' \/ End(z) > sector'
      BY <2>2, <2>3, <1>9
    <3> QED BY <3>1, <3>2, <1>3 DEF StillAhead
  <2>9. Counted'
    BY <2>4, <2>7, <1>3, <1>7 DEF IndInv, Counted
  <2>10. NoZoneLost' /\ ListExact' /\ ErrorsSurface'
    <3>1. pc' # "done"
      BY <1>3, <2>4
    <3> QED BY <3>1 DEF NoZoneLost, ListExact, ErrorsSurface
  <2> QED BY <2>5, <2>6, <2>8, <2>9, <2>10, <1>5 DEF IndInv
<1> QED BY <1>10, <1>11

\* The loop ends without another zone: a failed command, a full array, or an
\* array or a range in which there was nothing to look for.
LEMMA LoopEndInv ==
  ASSUME IndInv, FetchFail \/ ArrayFull \/ NeverRan
  PROVE  IndInv'
<1>1. pc = "fetch" /\ UNCHANGED <<cond, call, max, sector, zones, history>>
  BY DEF FetchFail, ArrayFull, NeverRan
<1>2. /\ ReportInOrder' /\ Reported' = Reported
  BY <1>1, SameZones
<1>3. /\ zones \in Seq(Zones) /\ Len(zones) \in Nat /\ max \in Nat /\ sector \in Nat
      /\ Len(zones) <= max /\ lasting \subseteq Zones
      /\ ~changed => Reported \subseteq lasting
  BY DEF IndInv, TypeOK, ReportInOrder, Counted
<1>4. devErr \in BOOLEAN /\ ~devErr
  BY <1>1 DEF IndInv, TypeOK, Onward
<1>5. CASE FetchFail
  <2>1. LeaveLoop(EIO, 0) /\ devErr' = TRUE
    BY <1>5 DEF FetchFail
  <2>2. EIO \in Int /\ EIO < 0 /\ EIO # 0 /\ 0 \in Nat
    BY DEF EIO
  <2>3. devErr' \in BOOLEAN
    BY <2>1
  <2> QED BY <2>1, <2>2, <2>3, <1>1, <1>2, <1>3, LeaveInv
<1>6. ASSUME ~Looping PROVE Len(zones) = max \/ lasting \subseteq Reported
  <2> SUFFICES ASSUME Len(zones) # max, NEW z \in lasting PROVE z \in Reported
    OBVIOUS
  <2>1. Capacity \in Nat /\ End(z) \in Nat /\ End(z) <= Capacity
    BY <1>3, ZoneTypes, EndOrder
  <2>2. ~(End(z) > sector)
    BY <1>3, <1>6, <2>1 DEF Looping
  <2> QED BY <2>2, <1>1 DEF IndInv, StillAhead
<1>7. CASE ArrayFull
  <2>1. LeaveLoop(0, Len(zones)) /\ devErr' = devErr /\ ~Looping
    BY <1>7 DEF ArrayFull
  <2>2. 0 \in Int /\ Len(zones') = Len(zones)
    BY <1>1
  <2>3. devErr' \in BOOLEAN /\ ~devErr'
    BY <2>1, <1>4
  <2> QED BY <2>1, <2>2, <2>3, <1>1, <1>2, <1>3, <1>6, LeaveInv
<1>8. CASE NeverRan
  <2>1. PICK g \in Garbage : LeaveLoop(g, 0)
    BY <1>8 DEF NeverRan
  <2>2. devErr' = devErr /\ ~Looping /\ zones = <<>>
    BY <1>8 DEF NeverRan
  <2>3. g \in Int /\ 0 \in Nat /\ Len(zones') = 0 /\ Len(zones) = 0
    BY <2>2, <1>1 DEF Garbage
  <2>4. devErr' \in BOOLEAN /\ ~devErr'
    BY <2>2, <1>4
  <2> QED BY <2>1, <2>2, <2>3, <2>4, <1>1, <1>2, <1>3, <1>6, LeaveInv
<1> QED BY <1>5, <1>7, <1>8

LEMMA CallInv ==
  ASSUME IndInv, ReturnBeyond \/ CountOk \/ CountFail \/ NoMemory \/ Report
  PROVE  IndInv'
<1>1. pc = "call" /\ UNCHANGED <<cond, call, history>>
  BY DEF ReturnBeyond, CountOk, CountFail, NoMemory, Report
<1>2. /\ call.from \in Nat /\ call.size \in Nat
      /\ call.kind \in {"list", "count", "report"}
  BY CallTypes DEF IndInv, TypeOK
<1>3. devErr \in BOOLEAN /\ ~devErr
  BY <1>1 DEF IndInv, TypeOK, Onward
<1>4. lasting \subseteq Matching(call.from, call.ro)
  BY DEF IndInv, StillAhead
<1>5. Matching(call.from, call.ro) \in SUBSET Zones
  BY DEF Matching
<1>6. CASE ReturnBeyond
  <2>1. /\ pc' = "done" /\ ret' = 0 /\ nr' = 0 /\ array' = "none" /\ devErr' = devErr
        /\ UNCHANGED <<max, sector, zones>> /\ BeyondEnd
    BY <1>6 DEF ReturnBeyond, Finish
  <2>2. lasting = {}
    <3> SUFFICES ASSUME NEW z \in lasting PROVE FALSE
      OBVIOUS
    <3>1. z \in Zones /\ End(z) > call.from
      BY <1>4 DEF Matching
    <3>2. End(z) \in Nat /\ End(z) <= Capacity /\ Capacity \in Nat
      BY <3>1, ZoneTypes, EndOrder
    <3>3. call.from >= Capacity
      BY <2>1 DEF BeyondEnd
    <3> QED BY <3>1, <3>2, <3>3, <1>2
  <2>3. nr' \in Nat /\ ret' \in Int
    BY <2>1
  <2>4. devErr' \in BOOLEAN /\ ~devErr'
    BY <2>1, <1>3
  <2> QED BY <2>1, <2>2, <2>3, <2>4, <1>1, EndAtCall
<1>7. CASE CountOk
  <2>1. ZoneCount \in Nat /\ IsFiniteSet(Matching(call.from, call.ro))
    BY <1>5, ZonesFinite DEF ZoneCount
  <2>2. call.kind \in {"list", "count"} /\ call.from < Capacity /\ devErr' = devErr
    BY <1>7 DEF CountOk
  <2>3. CASE call.kind = "count" \/ ZoneCount = 0
    <3>1. /\ pc' = "done" /\ ret' = 0 /\ nr' = ZoneCount /\ array' = "none"
          /\ UNCHANGED <<max, sector, zones>>
      BY <1>7, <2>3 DEF CountOk, Finish
    <3>2. call.kind = "list" => lasting = {} /\ nr' = 0
      <4> SUFFICES ASSUME call.kind = "list" PROVE lasting = {} /\ nr' = 0
        OBVIOUS
      <4>1. ZoneCount = 0
        BY <2>3
      <4>2. Matching(call.from, call.ro) = {}
        BY <4>1, <2>1, FS_EmptySet DEF ZoneCount
      <4> QED BY <4>1, <4>2, <3>1, <1>4
    <3>3. nr' \in Nat /\ ret' \in Int
      BY <3>1, <2>1
    <3>4. devErr' \in BOOLEAN /\ ~devErr'
      BY <2>2, <1>3
    <3> QED BY <3>1, <3>2, <3>3, <3>4, <1>1, EndAtCall
  <2>4. CASE ~(call.kind = "count" \/ ZoneCount = 0)
    <3>1. StartFetch(ZoneCount, "held") /\ nr' = ZoneCount /\ ret' = ret
      BY <1>7, <2>4 DEF CountOk
    <3>2. ZoneCount > 0 /\ call.kind # "count"
      BY <2>1, <2>4
    <3> QED BY <3>1, <3>2, <2>1, <2>2, <1>1, StartInv
  <2> QED BY <2>3, <2>4
<1>8. CASE NoMemory
  <2>1. /\ pc' = "done" /\ ret' = ENOMEM /\ nr' = call.size /\ array' = "none"
        /\ UNCHANGED <<max, sector, zones, devErr>>
    BY <1>8 DEF NoMemory, Finish
  <2>2. nr' \in Nat /\ ret' \in Int /\ ret' # 0
    BY <2>1, <1>2 DEF ENOMEM
  <2>3. devErr' \in BOOLEAN /\ ~devErr'
    BY <2>1, <1>3
  <2> QED BY <2>1, <2>2, <2>3, <1>1, EndAtCall
<1>9. CASE CountFail
  <2>1. /\ pc' = "done" /\ ret' = EIO /\ array' = "none" /\ devErr' = TRUE
        /\ nr' = (IF call.kind = "count" THEN 0 ELSE call.size)
        /\ UNCHANGED <<max, sector, zones>>
    BY <1>9 DEF CountFail, Finish
  <2>2. nr' \in Nat /\ ret' \in Int /\ ret' # 0 /\ ret' < 0
    BY <2>1, <1>2 DEF EIO
  <2>3. devErr' \in BOOLEAN
    BY <2>1
  <2> QED BY <2>1, <2>2, <2>3, <1>1, EndAtCall
<1>10. CASE Report
  <2>1. /\ StartFetch(call.size, "none") /\ call.kind = "report"
        /\ UNCHANGED <<nr, ret, devErr>>
    BY <1>10 DEF Report
  <2>2. nr' \in Nat
    BY <2>1 DEF IndInv, TypeOK
  <2> QED BY <2>1, <2>2, <1>1, <1>2, StartInv
<1> QED BY <1>6, <1>7, <1>8, <1>9, <1>10

\* Another initiator changes a zone: it may cease to match, and the zones
\* that are left still match.
LEMMA InterfereInv ==
  ASSUME IndInv, NEW z \in Zones, NEW op \in OtherOps, Interfere(z, op)
  PROVE  IndInv'
<1>1. /\ pc # "done" /\ cond' = Applied(cond, op, {z}) /\ changed' = TRUE
      /\ lasting' = (IF After(op, cond[z]) \in call.ro THEN lasting ELSE lasting \ {z})
      /\ UNCHANGED <<call, pc, max, sector, zones, result, devErr>>
      /\ nr' = nr /\ ret' = ret /\ array' = array
  BY DEF Interfere, result
<1>2. /\ cond \in [Zones -> Conditions] /\ lasting \subseteq Zones
  BY DEF IndInv, TypeOK
<1>3. cond' \in [Zones -> Conditions]
  <2>1. op \in ZoneOps
    BY ReportAssumption
  <2>2. \A c \in Conditions : After(op, c) \in Conditions
    BY <2>1 DEF ZoneOps, Conditions, After, Open
  <2> QED BY <2>2, <1>1, <1>2 DEF Applied
<1>4. TypeOK'
  <2>1. changed' \in BOOLEAN /\ devErr' \in BOOLEAN
    BY <1>1 DEF IndInv, TypeOK
  <2>2. lasting' \subseteq Zones
    BY <1>1, <1>2
  <2> QED BY <2>1, <2>2, <1>1, <1>3 DEF IndInv, TypeOK
<1>5. ReportInOrder' /\ Reported' = Reported
  BY <1>1 DEF IndInv, ReportInOrder, Reported
<1>6. Onward'
  BY <1>1 DEF IndInv, Onward
<1>7. lasting' \subseteq Matching(call.from, call.ro)'
  <2> SUFFICES ASSUME NEW y \in lasting' PROVE y \in Matching(call.from, call.ro)'
    OBVIOUS
  <2>1. y \in lasting /\ y \in Zones
    BY <1>1, <1>2
  <2>2. End(y) > call.from /\ cond[y] \in call.ro
    BY <2>1 DEF IndInv, StillAhead, Matching
  <2>3. cond'[y] \in call.ro
    <3>1. cond'[y] = IF y = z THEN After(op, cond[y]) ELSE cond[y]
      BY <2>1, <1>1 DEF Applied
    <3> QED BY <3>1, <2>2, <1>1
  <2> QED BY <2>1, <2>2, <2>3, <1>1 DEF Matching
<1>8. StillAhead'
  <2>1. pc = "fetch" => \A y \in lasting : y \in Reported \/ End(y) > sector
    BY DEF IndInv, StillAhead
  <2>2. lasting' \subseteq lasting
    BY <1>1
  <2> QED BY <2>1, <2>2, <1>1, <1>5, <1>7 DEF StillAhead
<1>9. Counted'
  BY <1>1 DEF IndInv, Counted
<1>10. NoZoneLost' /\ ListExact' /\ ErrorsSurface'
  BY <1>1 DEF NoZoneLost, ListExact, ErrorsSurface
<1> QED BY <1>4, <1>5, <1>6, <1>8, <1>9, <1>10 DEF IndInv

LEMMA NextInv ==
  ASSUME IndInv, [Next]_vars
  PROVE  IndInv'
<1>1. CASE ReturnBeyond \/ CountOk \/ CountFail \/ NoMemory \/ Report
  BY <1>1, CallInv
<1>2. CASE Fetch
  BY <1>2, FetchInv
<1>3. CASE FetchFail \/ ArrayFull \/ NeverRan
  BY <1>3, LoopEndInv
<1>4. CASE \E z \in Zones, op \in OtherOps : Interfere(z, op)
  BY <1>4, InterfereInv
<1>5. CASE UNCHANGED vars
  <2>1. /\ UNCHANGED <<cond, call, pc, max, sector, zones, nr, ret, array, devErr>>
        /\ UNCHANGED <<lasting, changed>>
    BY <1>5 DEF vars, result, history
  <2>2. TypeOK'
    BY <2>1 DEF IndInv, TypeOK
  <2>3. ReportInOrder' /\ Reported' = Reported
    BY <2>1 DEF IndInv, ReportInOrder, Reported
  <2>4. Onward'
    BY <2>1 DEF IndInv, Onward
  <2>5. Matching(call.from, call.ro)' = Matching(call.from, call.ro)
    BY <2>1 DEF Matching
  <2>6. StillAhead' /\ Counted'
    BY <2>1, <2>3, <2>5 DEF IndInv, StillAhead, Counted
  <2>7. NoZoneLost' /\ ListExact' /\ ErrorsSurface'
    BY <2>1, <2>3 DEF IndInv, NoZoneLost, ListExact, ErrorsSurface
  <2> QED BY <2>2, <2>3, <2>4, <2>6, <2>7 DEF IndInv
<1> QED BY <1>1, <1>2, <1>3, <1>4, <1>5 DEF Next, CallStep

LEMMA Invariance == Spec => []IndInv
<1>1. Init => IndInv
  BY InitInv
<1>2. IndInv /\ [Next]_vars => IndInv'
  BY NextInv
<1> QED BY <1>1, <1>2, PTL DEF Spec

-----------------------------------------------------------------------------
(***************************************************************************)
(* The theorems.                                                           *)
(***************************************************************************)
\* zbc_report_zones never writes behind the caller's array and fills it with
\* each zone once, in sector order, whatever the size of the buffer, however
\* replies are cut and whatever other initiators do between commands.
THEOREM OrderTheorem == Spec => []ReportInOrder
<1>1. IndInv => ReportInOrder
  BY DEF IndInv
<1> QED BY <1>1, Invariance, PTL

\* A successful zbc_report_zones whose array has room left contains every
\* zone that matched all the time.
THEOREM NoZoneLostTheorem == Spec => []NoZoneLost
<1>1. IndInv => NoZoneLost
  BY DEF IndInv
<1> QED BY <1>1, Invariance, PTL

\* zbc_list_zones returns exactly the matching zones if none changed: the
\* array it allocates after its count has the right size.
THEOREM ListTheorem == Spec => []ListExact
<1>1. IndInv => ListExact
  BY DEF IndInv
<1> QED BY <1>1, Invariance, PTL

\* An error of a command of zbc_report_zones or zbc_list_zones is returned,
\* and zbc_list_zones then neither hands out nor keeps its array.
THEOREM ErrorsTheorem == Spec => []ErrorsSurface
<1>1. IndInv => ErrorsSurface
  BY DEF IndInv
<1> QED BY <1>1, Invariance, PTL

=============================================================================
