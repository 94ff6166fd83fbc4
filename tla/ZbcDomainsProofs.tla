-------------------------- MODULE ZbcDomainsProofs --------------------------
(***************************************************************************)
(* Proofs about ZbcDomains, for any domains and realms, any sizes of       *)
(* arrays and buffers and any number of activations by others.             *)
(***************************************************************************)
EXTENDS ZbcDomains, ZbcArithmetic, SequenceTheorems

-----------------------------------------------------------------------------
(***************************************************************************)
(* The device, the call and the lists that the device reports.             *)
(***************************************************************************)
LEMMA DeviceTypes ==
  ASSUME dev \in Devices
  PROVE  /\ dev.domains \in Nat \ {0} /\ dev.slots \in Nat
         /\ Domains \in SUBSET Nat /\ IsFiniteSet(Domains)
         /\ Cardinality(Domains) = dev.domains
<1>1. dev.domains \in Nat \ {0} /\ dev.slots \in Nat
  <2>1. dev \in [drv : {"scsi", "ata"}, zdr : SUBSET {"domains", "realms"},
                 realms : BOOLEAN, format : {"standard", "old"},
                 domains : 1..NrDomains, slots : RealmSlots]
    BY DomainsAssumption
  <2>2. RealmSlots \subseteq Nat /\ \A n \in 1..NrDomains : n \in Nat \ {0}
    BY DomainsAssumption
  <2>3. dev.domains \in 1..NrDomains /\ dev.slots \in RealmSlots
    BY <2>1
  <2> QED BY <2>2, <2>3
<1>2. Domains \in SUBSET Nat
  BY <1>1 DEF Domains
<1> QED BY <1>1, <1>2, IntervalSize DEF Domains

LEMMA RealmsFinite ==
  /\ NrRealms \in Nat /\ Realms \in SUBSET Nat
  /\ IsFiniteSet(Realms) /\ Cardinality(Realms) = NrRealms
<1>1. NrRealms \in Nat
  BY DomainsAssumption
<1>2. Realms \in SUBSET Nat
  BY <1>1 DEF Realms
<1> QED BY <1>1, <1>2, IntervalSize DEF Realms

LEMMA CallTypes ==
  ASSUME call \in Calls
  PROVE  /\ call.from \in Nat /\ call.size \in Nat
         /\ call.fn \in DomainFns \cup RealmFns
         /\ call.fn \in {"zone_types", "domain_info"} => call.from = 1 /\ call.ro = "all"
<1>1. Froms \subseteq Nat /\ Sizes \subseteq Nat
  BY DomainsAssumption
<1>2. CASE call \in [fn : {"list_domains", "report_domains"}, from : Froms, size : Sizes,
                     ro : {"all", "allactive", "active", "inactive"}]
  BY <1>1, <1>2 DEF DomainFns, RealmFns
<1>3. CASE call \in [fn : {"zone_types", "domain_info"}, from : {1}, size : {0},
                     ro : {"all"}]
  BY <1>3 DEF DomainFns, RealmFns
<1>4. CASE call \in [fn : {"list_realms", "report_realms"}, from : Froms, size : Sizes,
                     ro : {"all", "sobr", "swr"}]
  BY <1>1, <1>4 DEF DomainFns, RealmFns
<1>5. CASE call \in [fn : {"nr_realms"}, from : {1}, size : {0}, ro : {"all"}]
  BY <1>5 DEF DomainFns, RealmFns
<1> QED BY <1>2, <1>3, <1>4, <1>5 DEF Calls

LEMMA LeastFacts ==
  ASSUME NEW a \in Nat, NEW b \in Nat
  PROVE  /\ Least(a, b) \in Nat /\ Least(a, b) <= a /\ Least(a, b) <= b
         /\ a <= b => Least(a, b) = a
         /\ b <= a => Least(a, b) = b
BY DEF Least

\* A list of the members of a set that satisfy some condition.
LEMMA SublistFacts ==
  ASSUME NEW S \in SUBSET Nat, IsFiniteSet(S), NEW T \in SUBSET S
  PROVE  /\ InOrder(T) \in Seq(S) /\ Len(InOrder(T)) \in Nat
         /\ Len(InOrder(T)) <= Cardinality(S) /\ Cardinality(S) \in Nat
         /\ \A k \in 1..Len(InOrder(T)) : InOrder(T)[k] \in T
         /\ \A t \in T : \E k \in 1..Len(InOrder(T)) : InOrder(T)[k] = t
<1>1. /\ IsFiniteSet(T) /\ Cardinality(T) <= Cardinality(S)
      /\ Cardinality(S) \in Nat /\ Cardinality(T) \in Nat /\ T \in SUBSET Nat
  BY FS_Subset, FS_CardinalityType
<1> DEFINE s == InOrder(T)
           n == Cardinality(T)
<1>2. s \in Seq(T) /\ Len(s) = n /\ \A t \in T : \E k \in 1..n : s[k] = t
  BY <1>1, InOrderFacts
<1> HIDE DEF s
<1>3. \A k \in 1..Len(s) : s[k] \in T
  BY <1>2
<1>4. s = [k \in 1..Len(s) |-> s[k]] /\ Len(s) \in Nat
  BY <1>2
<1>5. s \in Seq(S)
  BY <1>3, <1>4
<1> QED BY <1>1, <1>2, <1>3, <1>5 DEF s

LEMMA DomainListFacts ==
  ASSUME dev \in Devices, NEW from, NEW ro
  PROVE  /\ DomainList(from, ro) \in Seq(Domains)
         /\ Len(DomainList(from, ro)) \in Nat
<1> DEFINE T == {d \in Domains : DomainMatches(d, from, ro)}
<1>1. T \in SUBSET Domains
  OBVIOUS
<1> HIDE DEF T
<1>2. InOrder(T) \in Seq(Domains) /\ Len(InOrder(T)) \in Nat
  BY <1>1, DeviceTypes, SublistFacts
<1> QED BY <1>2 DEF DomainList, T

LEMMA AllDomains ==
  ASSUME dev \in Devices
  PROVE  /\ DomainList(1, "all") \in Seq(Domains)
         /\ Len(DomainList(1, "all")) = dev.domains
         /\ \A d \in Domains : \E k \in 1..Len(DomainList(1, "all")) :
              DomainList(1, "all")[k] = d
<1>1. {d \in Domains : DomainMatches(d, 1, "all")} = Domains
  <2>1. \A d \in Domains : d >= 1
    BY DeviceTypes DEF Domains
  <2>2. \A d \in Domains : DomainMatches(d, 1, "all")
    BY <2>1 DEF DomainMatches
  <2> QED BY <2>2
<1>2. DomainList(1, "all") = InOrder(Domains)
  BY <1>1 DEF DomainList
<1>3. /\ InOrder(Domains) \in Seq(Domains)
      /\ Len(InOrder(Domains)) = Cardinality(Domains)
      /\ \A d \in Domains : \E k \in 1..Cardinality(Domains) : InOrder(Domains)[k] = d
  BY DeviceTypes, InOrderFacts
<1> QED BY <1>2, <1>3, DeviceTypes

LEMMA RealmListFacts ==
  ASSUME NEW from, NEW ro
  PROVE  /\ Len(RealmList(from, ro)) \in Nat /\ Len(RealmList(from, ro)) <= NrRealms
         /\ \A k \in 1..Len(RealmList(from, ro)) : RealmList(from, ro)[k] \in Realms
         /\ \A r \in Realms : RealmMatches(r, from, ro)
              => \E k \in 1..Len(RealmList(from, ro)) : RealmList(from, ro)[k] = r
<1> DEFINE T == {r \in Realms : RealmMatches(r, from, ro)}
<1>1. T \in SUBSET Realms
  OBVIOUS
<1>2. \A r \in Realms : RealmMatches(r, from, ro) => r \in T
  OBVIOUS
<1> HIDE DEF T
<1>3. /\ Len(InOrder(T)) \in Nat /\ Len(InOrder(T)) <= Cardinality(Realms)
      /\ \A k \in 1..Len(InOrder(T)) : InOrder(T)[k] \in T
      /\ \A t \in T : \E k \in 1..Len(InOrder(T)) : InOrder(T)[k] = t
  BY <1>1, RealmsFinite, SublistFacts
<1>4. RealmList(from, ro) = InOrder(T)
  BY DEF RealmList, T
<1> QED BY <1>1, <1>2, <1>3, <1>4, RealmsFinite

LEMMA AllRealms == CountedRealms = NrRealms
<1>1. {r \in Realms : RealmMatches(r, 1, "all")} = Realms
  <2>1. \A r \in Realms : r >= 1
    BY RealmsFinite DEF Realms
  <2>2. \A r \in Realms : RealmMatches(r, 1, "all")
    BY <2>1 DEF RealmMatches
  <2> QED BY <2>2
<1>2. RealmList(1, "all") = InOrder(Realms)
  BY <1>1 DEF RealmList
<1>3. Len(InOrder(Realms)) = Cardinality(Realms)
  BY RealmsFinite, InOrderFacts
<1> QED BY <1>2, <1>3, RealmsFinite DEF CountedRealms

\* What a domain report copies: no more than the array holds, and all if it
\* holds all.
LEMMA CopiedFacts ==
  ASSUME NEW S, NEW s \in Seq(S), NEW n \in Nat
  PROVE  /\ Room(n) \in Nat /\ Room(n) <= n
         /\ call.fn /= "zone_types" => Room(n) = n
         /\ call.fn = "zone_types" /\ n <= EarlySlots => Room(n) = n
         /\ Copied(s, n) \in Seq(S) /\ Len(s) \in Nat
         /\ Len(Copied(s, n)) = Least(Len(s), Room(n)) /\ Len(Copied(s, n)) \in Nat
         /\ Len(s) <= Room(n) => Copied(s, n) = s
<1>1. EarlySlots \in Nat /\ Len(s) \in Nat
  BY DomainsAssumption
<1>2. Room(n) \in Nat /\ Room(n) <= n
  BY <1>1, LeastFacts DEF Room
<1>3. /\ call.fn /= "zone_types" => Room(n) = n
      /\ call.fn = "zone_types" /\ n <= EarlySlots => Room(n) = n
  BY <1>1, LeastFacts DEF Room
<1> DEFINE m == Least(Len(s), Room(n))
<1>4. m \in Nat /\ m <= Len(s) /\ (Len(s) <= Room(n) => m = Len(s))
  BY <1>1, <1>2, LeastFacts
<1> HIDE DEF m
<1>5. SubSeq(s, 1, m) \in Seq(S) /\ Len(SubSeq(s, 1, m)) = m
      /\ \A k \in 1..m : SubSeq(s, 1, m)[k] = s[k]
  <2>1. 1 \in 1..(Len(s) + 1) /\ m \in 0..Len(s)
    BY <1>1, <1>4
  <2> QED BY <2>1, <1>1, <1>4
<1>6. ASSUME Len(s) <= Room(n) PROVE SubSeq(s, 1, m) = s
  BY <1>4, <1>5, <1>6, SeqEqual
<1> QED BY <1>1, <1>2, <1>3, <1>4, <1>5, <1>6 DEF Copied, m

-----------------------------------------------------------------------------
(***************************************************************************)
(* The inductive invariant: first what all steps of a call have in common. *)
(***************************************************************************)
\* A step of the call leaves the device and what it would report alone.
LEMMA SameDevice ==
  ASSUME Stays
  PROVE  /\ DomainList(call.from, call.ro)' = DomainList(call.from, call.ro)
         /\ FirstArray' = FirstArray /\ KnownTypes' = KnownTypes /\ Domains' = Domains
         /\ Applies' <=> Applies
         /\ \A r : RealmMatches(r, call.from, call.ro)' <=> RealmMatches(r, call.from, call.ro)
<1>1. dev' = dev /\ active' = active /\ call' = call
  BY DEF Stays
<1>2. Domains' = Domains /\ KnownTypes' = KnownTypes
  BY <1>1 DEF Domains, KnownTypes, Least
<1>3. \A d : DomainMatches(d, call.from, call.ro)' <=> DomainMatches(d, call.from, call.ro)
  <2> TAKE d
  <2>1. ActiveIn(d)' = ActiveIn(d)
    BY <1>1 DEF ActiveIn, Realms
  <2>2. (\A r \in Realms : d \in RealmDomains[r] => active[r] = d)'
          <=> \A r \in Realms : d \in RealmDomains[r] => active[r] = d
    BY <1>1 DEF Realms
  <2>3. call.from' = call.from /\ call.ro' = call.ro
    BY <1>1
  <2> QED BY <2>1, <2>2, <2>3 DEF DomainMatches
<1>4. {d \in Domains : DomainMatches(d, call.from, call.ro)}'
        = {d \in Domains : DomainMatches(d, call.from, call.ro)}
  BY <1>2, <1>3
<1>5. DomainList(call.from, call.ro)' = DomainList(call.from, call.ro)
  BY <1>4 DEF DomainList
<1>6. FirstArray' = FirstArray
  BY <1>1 DEF FirstArray
<1>7. Applies' <=> Applies
  BY <1>1 DEF Applies
<1>8. \A r : RealmMatches(r, call.from, call.ro)' <=> RealmMatches(r, call.from, call.ro)
  BY <1>1 DEF RealmMatches
<1> QED BY <1>2, <1>5, <1>6, <1>7, <1>8

\* The parts of the invariant that say nothing of a call that has ended.
LEMMA EndTypes ==
  ASSUME TypeOK, StillMatch, Stays, pc' = "done", ret' \in Int, nr' \in Nat,
         alloc' \in Nat, Len(out') \in Nat, types' = types, failed' \in BOOLEAN,
         array' \in {"none", "held", "freed", "given", "user"}
  PROVE  TypeOK' /\ Stage' /\ Underway' /\ StillMatch'
<1>1. /\ dev' = dev /\ active' = active /\ call' = call /\ lasting' = lasting
      /\ changes' = changes
  BY DEF Stays
<1>2. /\ dev \in Devices /\ call \in Calls /\ types \in 0..NrTypes
      /\ lasting \subseteq Realms /\ changes \in 0..MaxChanges
      /\ active \in [Realms -> Domains]
  BY DEF TypeOK
<1>3. active' \in [Realms -> Domains']
  BY <1>1, <1>2, SameDevice
<1>4. TypeOK'
  BY <1>1, <1>2, <1>3 DEF TypeOK, Realms
<1>5. Stage' /\ Underway'
  BY DEF Stage, Underway
<1>6. StillMatch'
  BY <1>1, SameDevice DEF StillMatch
<1> QED BY <1>4, <1>5, <1>6

\* Calls that end with an error.
LEMMA FailEnd ==
  ASSUME IndInv, Stays, pc' = "done", ret' \in Int, ret' < 0, nr' \in Nat,
         UNCHANGED <<alloc, out, types>>, failed' \in BOOLEAN,
         array' \in {"none", "held", "freed", "user"},
         array' = "held" => failed' /\ call.fn = "zone_types"
  PROVE  IndInv'
<1>1. /\ TypeOK /\ StillMatch /\ alloc \in Nat /\ Len(out) \in Nat /\ Len(out) <= alloc
      /\ call' = call
  BY DEF IndInv, TypeOK, ArrayHolds, Stays
<1>2. TypeOK' /\ Stage' /\ Underway' /\ StillMatch'
  BY <1>1, EndTypes
<1>3. ~(ret' >= 0)
  OBVIOUS
<1>4. \A fns : ~Succeeded(fns)'
  BY <1>3 DEF Succeeded
<1>5. ArrayHolds' /\ DomainsComplete' /\ TypesGathered' /\ RealmsComplete' /\ RealmTypesRight'
  BY <1>1, <1>4 DEF ArrayHolds, DomainsComplete, TypesGathered, RealmsComplete,
     RealmTypesRight
<1>6. ErrorsSurface'
  BY <1>1 DEF ErrorsSurface
<1> QED BY <1>2, <1>5, <1>6 DEF IndInv

\* Steps inside a call.
LEMMA GoOn ==
  ASSUME IndInv, Stays, pc /= "done", pc' /= "done", UNCHANGED <<ret, failed>>,
         pc' \in {"call", "domains", "again", "counttypes", "countrealms",
                  "allocrealms", "realmtypes", "realms", "done"},
         alloc' \in Nat, nr' \in Nat, types' \in 0..NrTypes,
         array' \in {"none", "held", "freed", "given", "user"},
         Len(out') \in Nat, Len(out') <= alloc', Stage', Underway'
  PROVE  IndInv'
<1>1. /\ dev' = dev /\ active' = active /\ call' = call /\ lasting' = lasting
      /\ changes' = changes
  BY DEF Stays
<1>2. /\ dev \in Devices /\ call \in Calls /\ ret \in Int /\ failed \in BOOLEAN
      /\ lasting \subseteq Realms /\ changes \in 0..MaxChanges
      /\ active \in [Realms -> Domains] /\ StillMatch
  BY DEF IndInv, TypeOK
<1>3. active' \in [Realms -> Domains']
  BY <1>1, <1>2, SameDevice
<1>4. TypeOK'
  BY <1>1, <1>2, <1>3 DEF TypeOK, Realms
<1>5. StillMatch'
  BY <1>1, <1>2, SameDevice DEF StillMatch
<1>6. \A fns : ~Succeeded(fns)'
  BY DEF Succeeded
<1>7. ArrayHolds' /\ DomainsComplete' /\ TypesGathered' /\ RealmsComplete' /\ RealmTypesRight'
      /\ ErrorsSurface'
  BY <1>6 DEF ArrayHolds, DomainsComplete, TypesGathered, RealmsComplete,
     RealmTypesRight, ErrorsSurface
<1> QED BY <1>4, <1>5, <1>7 DEF IndInv

LEMMA InitInv == Init => IndInv
<1> SUFFICES ASSUME Init PROVE IndInv
  OBVIOUS
<1>1. /\ dev \in Devices /\ call \in Calls /\ active \in [Realms -> Domains]
      /\ pc = "call" /\ alloc = 0 /\ out = <<>> /\ Len(out) = 0 /\ nr = 0 /\ types = 0
      /\ ret = 0 /\ array = "none" /\ failed = FALSE /\ changes = 0
      /\ lasting = IF call.fn \in RealmFns
                     THEN {r \in Realms : RealmMatches(r, call.from, call.ro)} ELSE {}
  BY DEF Init
<1>2. lasting \subseteq Realms /\ StillMatch
  BY <1>1 DEF StillMatch
<1>3. 0 \in 0..NrTypes /\ 0 \in 0..MaxChanges
  BY DomainsAssumption
<1>4. TypeOK
  <2>1. failed \in BOOLEAN /\ types \in 0..NrTypes /\ changes \in 0..MaxChanges
    BY <1>1, <1>3
  <2>2. alloc \in Nat /\ nr \in Nat /\ ret \in Int /\ Len(out) \in Nat
    BY <1>1
  <2> QED BY <1>1, <1>2, <2>1, <2>2, Zenon DEF TypeOK
<1>5. Stage /\ Underway
  BY <1>1 DEF Stage, Underway
<1>6. \A fns : ~Succeeded(fns)
  BY <1>1 DEF Succeeded
<1>7. ArrayHolds /\ DomainsComplete /\ TypesGathered /\ RealmsComplete /\ RealmTypesRight
      /\ ErrorsSurface
  BY <1>1, <1>6 DEF ArrayHolds, DomainsComplete, TypesGathered, RealmsComplete,
     RealmTypesRight, ErrorsSurface
<1> QED BY <1>2, <1>4, <1>5, <1>7 DEF IndInv

-----------------------------------------------------------------------------
(***************************************************************************)
(* Then action by action.                                                  *)
(***************************************************************************)
LEMMA FirstArrayFacts ==
  ASSUME call \in Calls
  PROVE  /\ FirstArray.size \in Nat
         /\ FirstArray.is \in {"none", "held", "user"}
         /\ call.fn \in {"list_domains", "domain_info"} =>
              FirstArray.size = Est /\ FirstArray.is = "held"
         /\ call.fn \in {"report_domains", "report_realms"} =>
              FirstArray.size = call.size /\ FirstArray.is = "user"
         /\ call.fn \in {"zone_types", "list_realms", "nr_realms"} =>
              FirstArray.is = "none"
<1>1. call.size \in Nat /\ Est \in Nat /\ call.fn \in DomainFns \cup RealmFns
  BY CallTypes, DomainsAssumption
<1>2. CASE call.fn \in {"list_domains", "domain_info"}
  <2>1. FirstArray = [size |-> Est, is |-> "held"]
    BY <1>2 DEF FirstArray
  <2> QED BY <2>1, <1>1, <1>2
<1>3. CASE call.fn \in {"report_domains", "report_realms"}
  <2>1. FirstArray = [size |-> call.size, is |-> "user"]
    BY <1>3 DEF FirstArray
  <2> QED BY <2>1, <1>1, <1>3
<1>4. CASE call.fn = "zone_types"
  <2>1. FirstArray = [size |-> 1, is |-> "none"]
    BY <1>4 DEF FirstArray
  <2> QED BY <2>1, <1>1, <1>4
<1>5. CASE call.fn \in {"list_realms", "nr_realms"}
  <2>1. FirstArray = [size |-> 0, is |-> "none"]
    BY <1>5 DEF FirstArray
  <2> QED BY <2>1, <1>1, <1>5
<1> QED BY <1>1, <1>2, <1>3, <1>4, <1>5 DEF DomainFns, RealmFns

LEMMA NotSupportedInv ==
  ASSUME IndInv, NotSupported
  PROVE  IndInv'
<1>1. /\ pc = "call" /\ Stays /\ pc' = "done" /\ array' = "none"
      /\ UNCHANGED <<alloc, out, nr, types, failed>> /\ ~Applies
      /\ ret' = IF call.fn \in {"zone_types", "domain_info"} THEN 0 ELSE ENOTSUP
  BY DEF NotSupported, Return
<1>2. /\ TypeOK /\ StillMatch /\ alloc \in Nat /\ Len(out) \in Nat /\ Len(out) <= alloc
      /\ nr \in Nat /\ failed \in BOOLEAN /\ ~failed
  BY <1>1 DEF IndInv, TypeOK, ArrayHolds, Underway
<1>3. ret' \in Int
  BY <1>1 DEF ENOTSUP
<1>4. TypeOK' /\ Stage' /\ Underway' /\ StillMatch'
  BY <1>1, <1>2, <1>3, EndTypes
<1>5. \A fns : ~Succeeded(fns)'
  BY <1>1, SameDevice DEF Succeeded
<1>6. ArrayHolds' /\ DomainsComplete' /\ TypesGathered' /\ RealmsComplete' /\ RealmTypesRight'
  BY <1>1, <1>2, <1>5 DEF ArrayHolds, DomainsComplete, TypesGathered, RealmsComplete,
     RealmTypesRight
<1>7. ErrorsSurface'
  BY <1>1, <1>2 DEF ErrorsSurface
<1> QED BY <1>4, <1>6, <1>7 DEF IndInv

LEMMA BeginInv ==
  ASSUME IndInv, Begin
  PROVE  IndInv'
<1>1. /\ pc = "call" /\ Stays /\ UNCHANGED <<out, types, ret, failed>>
      /\ pc' = IF call.fn \in DomainFns THEN "domains"
               ELSE IF call.fn = "report_realms" THEN "realmtypes" ELSE "counttypes"
      /\ alloc' = FirstArray.size /\ array' = FirstArray.is /\ nr' = FirstArray.size
  BY DEF Begin
<1>2. /\ call \in Calls /\ out = <<>> /\ ~failed /\ types \in 0..NrTypes /\ call' = call
  BY <1>1 DEF IndInv, TypeOK, Underway, Stays
<1>3. call.fn \in DomainFns \cup RealmFns
  BY <1>2, CallTypes
<1>4. FirstArray.size \in Nat /\ FirstArray.is \in {"none", "held", "user"}
  BY <1>2, FirstArrayFacts
<1>5. Stage'
  <2>1. CASE call.fn \in DomainFns
    <3>1. pc' = "domains"
      BY <1>1, <2>1
    <3> QED BY <3>1, <2>1, <1>1, <1>2, SameDevice DEF Stage
  <2>2. CASE call.fn = "report_realms"
    <3>1. pc' = "realmtypes"
      BY <1>1, <2>2 DEF DomainFns
    <3>2. array' = "user"
      BY <1>1, <1>2, <2>2, FirstArrayFacts
    <3> QED BY <3>1, <3>2, <2>2, <1>2 DEF Stage
  <2>3. CASE call.fn \in {"list_realms", "nr_realms"}
    <3>1. pc' = "counttypes"
      BY <1>1, <2>3 DEF DomainFns
    <3>2. array' = "none"
      BY <1>1, <1>2, <2>3, FirstArrayFacts
    <3> QED BY <3>1, <3>2, <2>3, <1>2 DEF Stage
  <2> QED BY <1>3, <2>1, <2>2, <2>3 DEF RealmFns
<1>6. pc' \in {"domains", "realmtypes", "counttypes"} /\ (pc' = "realmtypes" => call.fn = "report_realms")
  BY <1>1
<1>7. Underway'
  BY <1>1, <1>2, <1>6 DEF Underway
<1>8. Len(out') \in Nat /\ Len(out') <= alloc'
  BY <1>1, <1>2, <1>4
<1> QED BY <1>1, <1>2, <1>4, <1>5, <1>6, <1>7, <1>8, GoOn

\* All the ways to fail.
LEMMA FailInv ==
  ASSUME IndInv,
         NoReportRealms \/ DomainsFail \/ NoMemory \/ RealmTypesFail \/ RealmsFail
  PROVE  IndInv'
<1>1. /\ failed \in BOOLEAN /\ nr \in Nat /\ Stage /\ call \in Calls
      /\ array \in {"none", "held", "freed", "given", "user"}
      /\ pc /= "done" => ~failed
  BY DEF IndInv, TypeOK, Underway
<1>2. CASE NoReportRealms
  <2>1. /\ pc = "call" /\ Stays /\ pc' = "done" /\ ret' = ENXIO /\ array' = "none"
        /\ UNCHANGED <<alloc, out, nr, types, failed>>
    BY <1>2 DEF NoReportRealms, Return
  <2>2. ret' \in Int /\ ret' < 0
    BY <2>1 DEF ENXIO
  <2> QED BY <1>1, <2>1, <2>2, FailEnd
<1>3. ASSUME pc \in {"domains", "again", "counttypes", "realmtypes", "countrealms", "realms"}
      PROVE  /\ OnError \in {"none", "held", "freed", "user"}
             /\ OnError = "held" => call.fn = "zone_types"
  <2>1. array \in {"none", "held", "user"}
    <3>1. CASE pc = "domains"
      BY <1>1, <3>1, FirstArrayFacts DEF Stage
    <3>2. CASE pc /= "domains"
      BY <1>1, <1>3, <3>2 DEF Stage
    <3> QED BY <3>1, <3>2
  <2> QED BY <2>1 DEF OnError
<1>4. CASE DomainsFail
  <2>1. /\ pc \in {"domains", "again"} /\ Stays /\ pc' = "done" /\ array' = OnError
        /\ UNCHANGED <<alloc, out, nr, types>> /\ failed' = TRUE
        /\ ret' \in {ENXIO, EIO, ENOMEM, EINVAL}
    BY <1>4 DEF DomainsFail, Return
  <2>2. ret' \in Int /\ ret' < 0
    BY <2>1 DEF ENXIO, EIO, ENOMEM, EINVAL
  <2> QED BY <1>1, <1>3, <2>1, <2>2, FailEnd
<1>5. CASE NoMemory
  <2>1. /\ Stays /\ pc' = "done" /\ array' \in {"freed", "none"} /\ ret' = ENOMEM
        /\ UNCHANGED <<alloc, out, nr, types>> /\ failed' = TRUE
    BY <1>5 DEF NoMemory, Return
  <2>2. ret' \in Int /\ ret' < 0
    BY <2>1 DEF ENOMEM
  <2> QED BY <1>1, <2>1, <2>2, FailEnd
<1>6. CASE RealmTypesFail
  <2>1. /\ pc \in {"counttypes", "realmtypes"} /\ Stays /\ pc' = "done" /\ array' = OnError
        /\ UNCHANGED <<alloc, out, nr, types>> /\ failed' = TRUE
        /\ ret' \in {EIO, ENOMEM, EINVAL}
    BY <1>6 DEF RealmTypesFail, Return
  <2>2. ret' \in Int /\ ret' < 0
    BY <2>1 DEF EIO, ENOMEM, EINVAL
  <2> QED BY <1>1, <1>3, <2>1, <2>2, FailEnd
<1>7. CASE RealmsFail
  <2>1. /\ pc \in {"countrealms", "realms"} /\ Stays /\ pc' = "done" /\ array' = OnError
        /\ UNCHANGED <<alloc, out, types>> /\ failed' = TRUE
        /\ ret' \in {EIO, ENOMEM} /\ nr' \in {nr, 0}
    BY <1>7 DEF RealmsFail, Return
  <2>2. ret' \in Int /\ ret' < 0
    BY <2>1 DEF EIO, ENOMEM
  <2> QED BY <1>1, <1>3, <2>1, <2>2, FailEnd
<1> QED BY <1>2, <1>4, <1>5, <1>6, <1>7

\* The last domain report of a call.
LEMMA DomainsEnd ==
  ASSUME IndInv, Stays, pc /= "done", call.fn \in DomainFns, pc' = "done",
         UNCHANGED <<alloc, types, failed>>, nr' \in Nat, ret' \in Nat,
         array' \in {"given", "freed", "user"},
         out' = Copied(DomainList(call.from, call.ro), alloc),
         call.fn = "list_domains" =>
           /\ nr' = Len(DomainList(call.from, call.ro))
           /\ changes = 0 \/ call.ro = "all"
                => Len(DomainList(call.from, call.ro)) <= alloc,
         call.fn \in {"zone_types", "domain_info"} =>
           (Len(DomainList(call.from, call.ro)) = dev.domains =>
              dev.domains <= alloc /\ (call.fn = "zone_types" => alloc = dev.domains)),
         call.fn = "report_domains" =>
           ret' = Len(DomainList(call.from, call.ro)) /\ alloc = call.size
  PROVE  IndInv'
<1> DEFINE list == DomainList(call.from, call.ro)
<1>1. /\ TypeOK /\ StillMatch /\ alloc \in Nat /\ failed \in BOOLEAN /\ ~failed
      /\ dev \in Devices /\ call \in Calls
      /\ dev' = dev /\ call' = call /\ changes' = changes
  BY DEF IndInv, TypeOK, Underway, Stays
<1>2. list \in Seq(Domains) /\ Len(list) \in Nat
  BY <1>1, DomainListFacts
<1>3. list' = list /\ Domains' = Domains
  BY SameDevice
<1> HIDE DEF list
<1>4. /\ Room(alloc) \in Nat /\ Room(alloc) <= alloc
      /\ call.fn /= "zone_types" => Room(alloc) = alloc
      /\ call.fn = "zone_types" /\ alloc <= EarlySlots => Room(alloc) = alloc
      /\ Len(Copied(list, alloc)) = Least(Len(list), Room(alloc))
      /\ Len(Copied(list, alloc)) \in Nat
      /\ Len(list) <= Room(alloc) => Copied(list, alloc) = list
  BY <1>1, <1>2, CopiedFacts
<1>5. out' = Copied(list, alloc)
  BY DEF list
<1>6. Len(out') \in Nat /\ Len(out') <= alloc'
  <2>1. Least(Len(list), Room(alloc)) <= Room(alloc)
    BY <1>2, <1>4, LeastFacts
  <2> QED BY <2>1, <1>1, <1>4, <1>5
<1>7. TypeOK' /\ Stage' /\ Underway' /\ StillMatch'
  <2>1. ret' \in Int /\ alloc' \in Nat /\ types' = types /\ failed' \in BOOLEAN
    BY <1>1
  <2> QED BY <1>1, <1>6, <2>1, EndTypes
<1>8. call.fn \notin {"list_realms", "report_realms"}
  BY DEF DomainFns
<1>9. /\ ~Succeeded({"list_realms"})'
      /\ ~Succeeded({"list_realms", "report_realms"})'
  BY <1>1, <1>8 DEF Succeeded
<1>10. ArrayHolds' /\ RealmsComplete' /\ RealmTypesRight'
  BY <1>6, <1>9 DEF ArrayHolds, RealmsComplete, RealmTypesRight
<1>11. ErrorsSurface'
  BY <1>1 DEF ErrorsSurface
<1>12. DomainsComplete'
  <2>1. ASSUME call.fn = "list_domains", changes = 0 \/ call.ro = "all"
        PROVE  out' = list /\ nr' = Len(out')
    <3>1. nr' = Len(list) /\ Len(list) <= alloc
      BY <2>1 DEF list
    <3> QED BY <3>1, <2>1, <1>4, <1>5
  <2>2. ASSUME call.fn = "report_domains" PROVE Len(out') = Least(ret', call.size)
    <3>1. ret' = Len(list) /\ alloc = call.size
      BY <2>2 DEF list
    <3>2. Room(alloc) = alloc
      BY <1>4, <2>2
    <3> QED BY <3>1, <3>2, <1>4, <1>5
  <2>3. /\ Succeeded({"list_domains"})' => call.fn = "list_domains"
        /\ Succeeded({"report_domains"})' => call.fn = "report_domains"
    BY <1>1 DEF Succeeded
  <2>4. (Succeeded({"list_domains"}) /\ (changes = 0 \/ call.ro = "all"))'
           => (out = DomainList(call.from, call.ro) /\ nr = Len(out))'
    BY <2>1, <2>3, <1>1, <1>3 DEF list
  <2>5. Succeeded({"report_domains"})' => (Len(out) = Least(ret, call.size))'
    BY <2>2, <2>3, <1>1 DEF Least
  <2> QED BY <2>4, <2>5 DEF DomainsComplete
<1>13. TypesGathered'
  <2> SUFFICES ASSUME call.fn \in {"zone_types", "domain_info"},
                      call.fn = "zone_types" => dev.domains <= EarlySlots
               PROVE  Gathered' = {DomainType[d] : d \in Domains}
    BY <1>1, <1>3 DEF TypesGathered, Succeeded
  <2>1. call.from = 1 /\ call.ro = "all"
    BY <1>1, CallTypes
  <2>2. /\ Len(list) = dev.domains
        /\ \A d \in Domains : \E k \in 1..Len(list) : list[k] = d
    BY <1>1, <2>1, AllDomains DEF list
  <2>3. dev.domains <= alloc /\ (call.fn = "zone_types" => alloc = dev.domains)
    BY <2>2 DEF list
  <2>4. Len(list) <= Room(alloc)
    BY <2>2, <2>3, <1>4
  <2>5. out' = list
    BY <2>4, <1>4, <1>5
  <2>6. \A k \in 1..Len(list) : list[k] \in Domains
    BY <1>2
  <2>7. Gathered' = {DomainType[list[k]] : k \in 1..Len(list)}
    BY <2>5 DEF Gathered
  <2> QED BY <2>2, <2>6, <2>7
<1> QED BY <1>7, <1>10, <1>11, <1>12, <1>13 DEF IndInv

LEMMA FirstDomainsInv ==
  ASSUME IndInv, FirstDomains
  PROVE  IndInv'
<1> DEFINE list == DomainList(call.from, call.ro)
<1>1. /\ pc = "domains" /\ Stays /\ UNCHANGED <<types, failed>>
      /\ out' = Copied(list, alloc) /\ nr' = Len(list)
      /\ IF MustRepeat(Len(list))
           THEN pc' = "again" /\ alloc' = Len(list) /\ array' = "held" /\ UNCHANGED ret
           ELSE /\ pc' = "done"
                /\ ret' = IF call.fn = "report_domains" THEN Len(list) ELSE 0
                /\ array' = IF call.fn = "list_domains" THEN "given"
                            ELSE IF array = "held" THEN "freed" ELSE array
                /\ UNCHANGED alloc
  BY DEF FirstDomains, Return
<1>2. /\ call \in Calls /\ dev \in Devices /\ types \in 0..NrTypes /\ ~failed
      /\ alloc \in Nat /\ call.fn \in DomainFns
      /\ alloc = FirstArray.size /\ array = FirstArray.is /\ call' = call
  BY <1>1 DEF IndInv, TypeOK, Stage, Underway, Stays
<1>3. list \in Seq(Domains) /\ Len(list) \in Nat /\ list' = list
  BY <1>1, <1>2, DomainListFacts, SameDevice
<1>4. Est \in Nat
  BY DomainsAssumption
<1>5. CASE MustRepeat(Len(list))
  <2>1. pc' = "again" /\ alloc' = Len(list) /\ array' = "held" /\ UNCHANGED ret
    BY <1>1, <1>5
  <2>2. call.fn \in {"list_domains", "zone_types", "domain_info"}
    BY <1>2, <1>5 DEF MustRepeat, DomainFns
  <2>3. Stage'
    BY <2>1, <2>2, <1>2 DEF Stage
  <2>4. Underway'
    BY <2>1, <1>1, <1>2, <1>3 DEF Underway
  <2>5. Len(out') \in Nat /\ Len(out') <= alloc'
    <3> HIDE DEF list
    <3>1. /\ Room(alloc) \in Nat /\ Len(Copied(list, alloc)) \in Nat
          /\ Len(Copied(list, alloc)) = Least(Len(list), Room(alloc))
      BY <1>2, <1>3, CopiedFacts
    <3> QED BY <3>1, <2>1, <1>1, <1>3, LeastFacts
  <2>6. nr' \in Nat /\ alloc' \in Nat /\ types' \in 0..NrTypes
    BY <2>1, <1>1, <1>2, <1>3
  <2> QED BY <2>1, <2>3, <2>4, <2>5, <2>6, <1>1, GoOn
<1>6. CASE ~MustRepeat(Len(list))
  <2>1. /\ pc' = "done" /\ UNCHANGED alloc
        /\ ret' = IF call.fn = "report_domains" THEN Len(list) ELSE 0
        /\ array' = IF call.fn = "list_domains" THEN "given"
                    ELSE IF array = "held" THEN "freed" ELSE array
    BY <1>1, <1>6
  <2>2. /\ call.fn \in {"list_domains", "report_domains", "domain_info"}
        /\ call.fn /= "report_domains" => Len(list) <= Est
    BY <1>2, <1>3, <1>4, <1>6 DEF MustRepeat, DomainFns
  <2>3. /\ call.fn /= "report_domains" => alloc = Est /\ array = "held"
        /\ call.fn = "report_domains" => alloc = call.size /\ array = "user"
    BY <1>2, <2>2, FirstArrayFacts
  <2>4. array' \in {"given", "freed", "user"}
    BY <2>1, <2>2, <2>3
  <2>5. ret' \in Nat /\ nr' \in Nat
    BY <2>1, <1>1, <1>3
  <2>6. call.fn /= "report_domains" => Len(list) <= alloc
    BY <2>2, <2>3
  <2>7. call.fn = "report_domains" => ret' = Len(list) /\ alloc = call.size
    BY <2>1, <2>3
  <2>8. call.fn /= "zone_types" /\ UNCHANGED <<alloc, types, failed>>
    BY <2>1, <2>2, <1>1
  <2>9. call.fn = "list_domains" =>
           nr' = Len(list) /\ (changes = 0 \/ call.ro = "all" => Len(list) <= alloc)
    BY <2>6, <1>1
  <2>10. call.fn \in {"zone_types", "domain_info"} =>
           (Len(list) = dev.domains =>
              dev.domains <= alloc /\ (call.fn = "zone_types" => alloc = dev.domains))
    BY <2>6, <2>8
  <2> QED BY <2>1, <2>4, <2>5, <2>7, <2>8, <2>9, <2>10, <1>1, <1>2, DomainsEnd
<1> QED BY <1>5, <1>6

LEMMA AgainDomainsInv ==
  ASSUME IndInv, AgainDomains
  PROVE  IndInv'
<1> DEFINE list == DomainList(call.from, call.ro)
<1>1. /\ pc = "again" /\ Stays /\ UNCHANGED <<alloc, types, failed>>
      /\ out' = Copied(list, alloc)
      /\ nr' = IF call.fn = "zone_types" THEN nr ELSE Len(list)
      /\ pc' = "done" /\ ret' = 0
      /\ array' = IF call.fn = "list_domains" THEN "given" ELSE "freed"
  BY DEF AgainDomains, Return
<1>2. /\ call \in Calls /\ dev \in Devices /\ nr \in Nat
      /\ call.fn \in {"list_domains", "zone_types", "domain_info"}
      /\ changes = 0 \/ call.ro = "all" => alloc = Len(list)
  BY <1>1 DEF IndInv, TypeOK, Stage, Underway
<1>3. Len(list) \in Nat
  BY <1>2, DomainListFacts
<1>4. nr' \in Nat /\ ret' \in Nat /\ array' \in {"given", "freed", "user"}
  BY <1>1, <1>2, <1>3
<1>5. call.fn \in {"zone_types", "domain_info"} => call.ro = "all"
  BY <1>2, CallTypes
<1>6. call.fn \in DomainFns /\ call.fn /= "report_domains"
  BY <1>2 DEF DomainFns
<1>7. call.fn = "list_domains" =>
        nr' = Len(list) /\ (changes = 0 \/ call.ro = "all" => Len(list) <= alloc)
  BY <1>1, <1>2, <1>3
<1>8. call.fn \in {"zone_types", "domain_info"} =>
        (Len(list) = dev.domains =>
           dev.domains <= alloc /\ (call.fn = "zone_types" => alloc = dev.domains))
  BY <1>2, <1>3, <1>5
<1> QED BY <1>1, <1>4, <1>6, <1>7, <1>8, DomainsEnd

\* The steps of a realm list before its report.
LEMMA RealmStepsInv ==
  ASSUME IndInv, RealmTypes \/ CountRealms \/ AllocRealms
  PROVE  IndInv'
<1>1. /\ call \in Calls /\ dev \in Devices /\ nr \in Nat /\ alloc \in Nat
      /\ types \in 0..NrTypes /\ failed \in BOOLEAN /\ Stage /\ Underway
      /\ array \in {"none", "held", "freed", "given", "user"}
  BY DEF IndInv, TypeOK
<1>2. CountedRealms = NrRealms /\ NrRealms \in Nat
  BY AllRealms, RealmsFinite
<1>3. CASE RealmTypes
  <2>1. /\ pc \in {"counttypes", "realmtypes"} /\ Stays
        /\ pc' = IF pc = "counttypes" THEN "countrealms" ELSE "realms"
        /\ types' = KnownTypes /\ UNCHANGED <<alloc, out, nr, array, ret, failed>>
    BY <1>3 DEF RealmTypes, TypesNext, buffers
  <2>2. KnownTypes \in 0..NrTypes
    <3>1. dev.domains \in Nat /\ NrTypes \in Nat
      BY <1>1, DeviceTypes, DomainsAssumption
    <3>2. KnownTypes \in Nat /\ KnownTypes <= NrTypes
      BY <3>1, LeastFacts DEF KnownTypes
    <3> QED BY <3>1, <3>2
  <2>3. call' = call /\ KnownTypes' = KnownTypes
    BY <2>1, SameDevice DEF Stays
  <2>4. out = <<>> /\ ~failed
    BY <1>1, <2>1 DEF Underway
  <2>5. Stage'
    BY <1>1, <2>1, <2>3 DEF Stage
  <2>6. Underway'
    BY <1>1, <2>1, <2>3, <2>4 DEF Underway
  <2>7. Len(out') \in Nat /\ Len(out') <= alloc'
    BY <1>1, <2>1, <2>4
  <2> QED BY <1>1, <2>1, <2>2, <2>5, <2>6, <2>7, GoOn
<1>4. CASE AllocRealms
  <2>1. /\ pc = "allocrealms" /\ pc' = "realmtypes" /\ array' = "held" /\ Stays
        /\ UNCHANGED <<alloc, out, nr, types, ret, failed>>
    BY <1>4 DEF AllocRealms
  <2>2. call' = call /\ out = <<>> /\ ~failed /\ call.fn = "list_realms"
    BY <1>1, <2>1 DEF Stays, Underway, Stage
  <2>3. Stage'
    BY <2>1, <2>2 DEF Stage
  <2>4. Underway'
    BY <1>1, <2>1, <2>2 DEF Underway
  <2>5. Len(out') \in Nat /\ Len(out') <= alloc'
    BY <1>1, <2>1, <2>2
  <2> QED BY <1>1, <2>1, <2>3, <2>4, <2>5, GoOn
<1>5. CASE CountRealms /\ call.fn /= "nr_realms"
  <2>1. /\ pc = "countrealms" /\ pc' = "allocrealms" /\ nr' = NrRealms /\ alloc' = NrRealms
        /\ Stays /\ UNCHANGED <<out, types, ret, array, failed>>
    BY <1>2, <1>5 DEF CountRealms
  <2>2. call' = call /\ out = <<>> /\ ~failed /\ call.fn = "list_realms" /\ array = "none"
    BY <1>1, <1>5, <2>1 DEF Stays, Underway, Stage
  <2>3. Stage'
    BY <2>1, <2>2 DEF Stage
  <2>4. Underway'
    BY <1>1, <2>1, <2>2 DEF Underway
  <2>5. Len(out') \in Nat /\ Len(out') <= alloc' /\ nr' \in Nat /\ alloc' \in Nat
    BY <1>2, <2>1, <2>2
  <2> QED BY <1>1, <2>1, <2>3, <2>4, <2>5, GoOn
<1>6. CASE CountRealms /\ call.fn = "nr_realms"
  <2>1. /\ pc = "countrealms" /\ pc' = "done" /\ nr' = NrRealms /\ ret' = 0
        /\ array' = "none" /\ Stays /\ UNCHANGED <<alloc, out, types, failed>>
    BY <1>2, <1>6 DEF CountRealms, Return
  <2>2. /\ call' = call /\ out = <<>> /\ Len(out) = 0 /\ ~failed /\ TypeOK /\ StillMatch
    BY <1>1, <2>1 DEF Stays, Underway, IndInv
  <2>3. TypeOK' /\ Stage' /\ Underway' /\ StillMatch'
    <3>1. ret' \in Int /\ nr' \in Nat /\ alloc' \in Nat /\ Len(out') \in Nat
          /\ failed' \in BOOLEAN
      BY <1>1, <1>2, <2>1, <2>2
    <3> QED BY <2>1, <2>2, <3>1, EndTypes
  <2>4. /\ ~Succeeded({"list_realms"})' /\ ~Succeeded({"list_realms", "report_realms"})'
        /\ ~Succeeded({"list_domains"})' /\ ~Succeeded({"report_domains"})'
        /\ ~Succeeded({"zone_types", "domain_info"})'
    BY <1>6, <2>2 DEF Succeeded
  <2>5. Len(out') <= alloc'
    BY <1>1, <2>1, <2>2
  <2>6. ArrayHolds' /\ DomainsComplete' /\ TypesGathered' /\ RealmsComplete' /\ RealmTypesRight'
    BY <2>4, <2>5 DEF ArrayHolds, DomainsComplete, TypesGathered, RealmsComplete,
       RealmTypesRight
  <2>7. ErrorsSurface'
    BY <2>1, <2>2 DEF ErrorsSurface
  <2> QED BY <2>3, <2>6, <2>7 DEF IndInv
<1> QED BY <1>3, <1>4, <1>5, <1>6

\* The buffer for the array has room for the array.
LEMMA SlotsFacts ==
  ASSUME dev \in Devices, alloc \in Nat
  PROVE  Slots \in Nat /\ (alloc <= dev.slots => alloc <= Slots)
<1>1. RealmUnit \in Nat \ {0} /\ dev.slots \in Nat
  BY DomainsAssumption, DeviceTypes
<1> DEFINE q == alloc \div RealmUnit
<1>2. q \in Nat /\ alloc < RealmUnit * q + RealmUnit
  BY <1>1, DivFacts
<1>3. Slots = Least(dev.slots, q * RealmUnit + RealmUnit - 1)
  BY DEF Slots
<1> HIDE DEF q
<1>4. q * RealmUnit = RealmUnit * q /\ q * RealmUnit \in Nat
  BY <1>1, <1>2
<1> DEFINE m == q * RealmUnit
<1>5. m \in Nat /\ alloc < m + RealmUnit /\ Slots = Least(dev.slots, m + RealmUnit - 1)
  BY <1>2, <1>3, <1>4
<1> HIDE DEF m
<1> QED BY <1>1, <1>5 DEF Least

LEMMA ReportRealmsInv ==
  ASSUME IndInv, ReportRealms
  PROVE  IndInv'
<1> DEFINE list  == RealmList(call.from, call.ro)
           total == Len(list)
           F     == RealmsFilled(total)
<1>1. /\ pc = "realms" /\ Stays /\ UNCHANGED <<alloc, types, failed>>
      /\ IF Unsupported(total)
           THEN /\ pc' = "done" /\ ret' = ENXIO /\ array' = OnError
                /\ nr' = Least(total, alloc) /\ UNCHANGED out
           ELSE /\ nr' = F /\ out' = [k \in 1..F |-> Descriptor(list[k])]
                /\ pc' = "done" /\ ret' = 0
                /\ array' = IF array = "held" THEN "given" ELSE array
  BY DEF ReportRealms, Return
<1>2. /\ dev \in Devices /\ call \in Calls /\ active \in [Realms -> Domains]
      /\ alloc \in Nat /\ failed \in BOOLEAN /\ ~failed /\ TypeOK /\ StillMatch
      /\ types = KnownTypes /\ lasting \subseteq Realms
      /\ call.fn = "list_realms" => alloc = NrRealms
      /\ \/ call.fn = "list_realms" /\ array = "held"
         \/ call.fn = "report_realms" /\ array = "user"
      /\ dev' = dev /\ call' = call /\ lasting' = lasting
  BY <1>1 DEF IndInv, TypeOK, Stage, Underway, Stays
<1>3. /\ total \in Nat /\ total <= NrRealms /\ NrRealms \in Nat
      /\ \A k \in 1..total : list[k] \in Realms
      /\ \A r \in Realms : RealmMatches(r, call.from, call.ro)
           => \E k \in 1..total : list[k] = r
  BY RealmListFacts, RealmsFinite
<1> HIDE DEF list, total
<1>4. CASE Unsupported(total)
  <2>1. /\ pc' = "done" /\ ret' = ENXIO /\ array' = OnError
        /\ nr' = Least(total, alloc) /\ UNCHANGED out
    BY <1>1, <1>4
  <2>2. ret' \in Int /\ ret' < 0 /\ nr' \in Nat
    BY <2>1, <1>2, <1>3, LeastFacts DEF ENXIO
  <2>3. array' \in {"freed", "user"}
    BY <2>1, <1>2 DEF OnError
  <2> QED BY <1>1, <1>2, <2>1, <2>2, <2>3, FailEnd
<1>5. CASE ~Unsupported(total)
  <2>1. /\ nr' = F /\ out' = [k \in 1..F |-> Descriptor(list[k])]
        /\ pc' = "done" /\ ret' = 0
        /\ array' = IF array = "held" THEN "given" ELSE array
    BY <1>1, <1>5
  <2>2. Slots \in Nat /\ (alloc <= dev.slots => alloc <= Slots)
    BY <1>2, SlotsFacts
  <2>3. F \in Nat /\ F <= total /\ F <= alloc
        /\ (total <= alloc /\ total <= Slots => F = total)
    <3>1. Least(total, alloc) \in Nat /\ Least(total, alloc) <= total
          /\ Least(total, alloc) <= alloc /\ (total <= alloc => Least(total, alloc) = total)
      BY <1>2, <1>3, LeastFacts
    <3> DEFINE m == Least(total, alloc)
    <3> HIDE DEF m
    <3>2. F = Least(m, Slots)
      BY DEF RealmsFilled, m
    <3>3. m \in Nat /\ m <= total /\ m <= alloc /\ (total <= alloc => m = total)
      BY <3>1 DEF m
    <3>4. F \in Nat /\ F <= m /\ (m <= Slots => F = m)
      BY <3>2, <3>3, <2>2, LeastFacts
    <3> QED BY <3>3, <3>4, <1>2, <1>3
  <2> HIDE DEF F
  <2>4. Len(out') = F /\ \A k \in 1..F : out'[k] = Descriptor(list[k])
    BY <2>1, <2>3
  <2>5. TypeOK' /\ Stage' /\ Underway' /\ StillMatch'
    <3>1. ret' \in Int /\ nr' \in Nat /\ alloc' \in Nat /\ Len(out') \in Nat
          /\ failed' \in BOOLEAN /\ types' = types
      BY <1>1, <1>2, <2>1, <2>3, <2>4
    <3>2. array' \in {"given", "user"}
      BY <1>2, <2>1
    <3> QED BY <1>1, <1>2, <2>1, <3>1, <3>2, EndTypes
  <2>6. /\ ~Succeeded({"list_domains"})' /\ ~Succeeded({"report_domains"})'
        /\ ~Succeeded({"zone_types", "domain_info"})'
        /\ Succeeded({"list_realms"})' => call.fn = "list_realms"
    BY <1>2 DEF Succeeded
  <2>7. ArrayHolds'
    BY <1>1, <2>1, <2>3, <2>4 DEF ArrayHolds
  <2>8. DomainsComplete' /\ TypesGathered'
    BY <2>6 DEF DomainsComplete, TypesGathered
  <2>9. ErrorsSurface'
    BY <1>1, <1>2, <2>1 DEF ErrorsSurface
  <2>10. RealmTypesRight'
    <3>1. ASSUME NEW k \in 1..F, out'[k].dom <= NrTypes
          PROVE  out'[k].type = DomainType[out'[k].dom]
      <4> DEFINE r == list[k]
      <4>1. r \in Realms /\ active[r] \in Domains
        BY <1>2, <1>3, <2>3
      <4> HIDE DEF r
      <4>2. out'[k].dom = active[r]
            /\ out'[k].type = IF active[r] <= types THEN DomainType[active[r]] ELSE "unset"
        BY <2>4 DEF Descriptor, r
      <4>3. active[r] \in Nat /\ active[r] <= dev.domains /\ dev.domains \in Nat
            /\ NrTypes \in Nat
        BY <4>1, <1>2, DeviceTypes, DomainsAssumption DEF Domains
      <4>4. active[r] <= types
        BY <1>2, <3>1, <4>2, <4>3 DEF KnownTypes, Least
      <4> QED BY <4>2, <4>4
    <3> QED BY <3>1, <2>4 DEF RealmTypesRight
  <2>11. RealmsComplete'
    <3>1. ASSUME call.fn = "list_realms", dev.format = "standard" \/ NrRealms <= dev.slots,
                 NEW r \in lasting
          PROVE  \E k \in 1..F : out'[k].realm = r
      <4>1. alloc = NrRealms /\ total <= alloc /\ dev.slots \in Nat
        BY <1>2, <1>3, <3>1, DeviceTypes
      <4>2. total <= Slots
        <5>1. CASE dev.format = "standard"
          BY <5>1, <1>3, <1>5, <2>2 DEF Unsupported
        <5>2. CASE NrRealms <= dev.slots
          BY <5>2, <4>1, <2>2, <1>3
        <5> QED BY <3>1, <5>1, <5>2
      <4>3. F = total
        BY <4>1, <4>2, <2>3
      <4>4. RealmMatches(r, call.from, call.ro) /\ r \in Realms
        BY <1>2, <3>1 DEF StillMatch, RealmFns
      <4>5. PICK k \in 1..total : list[k] = r
        BY <4>4, <1>3
      <4>6. out'[k].realm = r
        BY <4>3, <4>5, <2>4 DEF Descriptor
      <4> QED BY <4>3, <4>5, <4>6
    <3>2. ASSUME call.fn = "list_realms", dev.format = "standard" \/ NrRealms <= dev.slots
          PROVE  lasting \subseteq {out'[k].realm : k \in 1..F}
      BY <3>1, <3>2
    <3> QED BY <3>2, <2>4, <2>6, <1>2 DEF RealmsComplete
  <2> QED BY <2>5, <2>7, <2>8, <2>9, <2>10, <2>11 DEF IndInv
<1> QED BY <1>4, <1>5

\* Others change which domains a realm is active in.
LEMMA ActivateInv ==
  ASSUME IndInv, NEW r \in Realms, NEW d \in Domains, Activate(r, d)
  PROVE  IndInv'
<1>1. /\ pc /= "done" /\ changes < MaxChanges /\ changes' = changes + 1
      /\ active' = [active EXCEPT ![r] = d]
      /\ lasting' = {x \in lasting : x = r => DomainType[d] = call.ro \/ call.ro = "all"}
      /\ dev' = dev /\ call' = call /\ pc' = pc /\ types' = types /\ ret' = ret
      /\ failed' = failed /\ alloc' = alloc /\ out' = out /\ nr' = nr /\ array' = array
  BY DEF Activate, buffers
<1>2. /\ TypeOK /\ Stage /\ Underway /\ StillMatch /\ ArrayHolds
      /\ active \in [Realms -> Domains] /\ changes \in 0..MaxChanges
      /\ lasting \subseteq Realms
  BY DEF IndInv, TypeOK
<1>3. /\ Domains' = Domains /\ FirstArray' = FirstArray /\ KnownTypes' = KnownTypes
  BY <1>1 DEF Domains, FirstArray, KnownTypes, Least
<1>4. TypeOK'
  <2>1. active' \in [Realms -> Domains']
    BY <1>1, <1>2, <1>3
  <2>2. changes' \in 0..MaxChanges
    BY <1>1, <1>2, DomainsAssumption
  <2>3. lasting' \subseteq Realms
    BY <1>1, <1>2
  <2> QED BY <1>1, <1>2, <2>1, <2>2, <2>3 DEF TypeOK, Realms
<1>5. Stage'
  BY <1>1, <1>2, <1>3 DEF Stage
<1>6. Underway'
  <2>1. changes' /= 0
    BY <1>1, <1>2
  <2>2. ASSUME call.ro = "all"
        PROVE  DomainList(call.from, call.ro)' = DomainList(call.from, call.ro)
    <3>1. {x \in Domains : DomainMatches(x, call.from, call.ro)}'
            = {x \in Domains : DomainMatches(x, call.from, call.ro)}
      <4>1. \A x : DomainMatches(x, call.from, call.ro) <=> x >= call.from
        BY <2>2 DEF DomainMatches
      <4>2. \A x : DomainMatches(x, call.from, call.ro)' <=> x >= call.from
        BY <1>1, <2>2 DEF DomainMatches
      <4> QED BY <1>3, <4>1, <4>2
    <3> QED BY <3>1 DEF DomainList
  <2> QED BY <1>1, <1>2, <1>3, <2>1, <2>2 DEF Underway
<1>7. StillMatch'
  <2> SUFFICES ASSUME call.fn \in RealmFns, NEW x \in lasting'
               PROVE  RealmMatches(x, call.from, call.ro)'
    BY <1>1 DEF StillMatch
  <2>1. x \in lasting /\ x \in Realms /\ (x = r => DomainType[d] = call.ro \/ call.ro = "all")
    BY <1>1, <1>2
  <2>2. RealmMatches(x, call.from, call.ro)
    BY <1>2, <2>1 DEF StillMatch
  <2>3. active'[x] = IF x = r THEN d ELSE active[x]
    BY <1>1, <1>2, <2>1
  <2> QED BY <1>1, <2>1, <2>2, <2>3 DEF RealmMatches
<1>8. \A fns : ~Succeeded(fns)'
  BY <1>1 DEF Succeeded
<1>9. ArrayHolds' /\ DomainsComplete' /\ TypesGathered' /\ RealmsComplete' /\ RealmTypesRight'
      /\ ErrorsSurface'
  BY <1>1, <1>2, <1>8 DEF ArrayHolds, DomainsComplete, TypesGathered, RealmsComplete,
     RealmTypesRight, ErrorsSurface
<1> QED BY <1>4, <1>5, <1>6, <1>7, <1>9 DEF IndInv

\* A step in which nothing changes.
LEMMA StutterInv ==
  ASSUME IndInv, UNCHANGED vars
  PROVE  IndInv'
<1>1. /\ dev' = dev /\ active' = active /\ call' = call /\ pc' = pc /\ types' = types
      /\ ret' = ret /\ failed' = failed /\ alloc' = alloc /\ out' = out /\ nr' = nr
      /\ array' = array /\ lasting' = lasting /\ changes' = changes
  BY DEF vars, buffers
<1>2. Stays
  BY <1>1 DEF Stays
<1>3. /\ DomainList(call.from, call.ro)' = DomainList(call.from, call.ro)
      /\ FirstArray' = FirstArray /\ KnownTypes' = KnownTypes /\ Domains' = Domains
      /\ Applies' <=> Applies
      /\ \A r : RealmMatches(r, call.from, call.ro)' <=> RealmMatches(r, call.from, call.ro)
  BY <1>2, SameDevice
<1>4. TypeOK'
  BY <1>1, <1>3 DEF IndInv, TypeOK, Realms
<1>5. Stage' /\ Underway' /\ StillMatch'
  BY <1>1, <1>3 DEF IndInv, Stage, Underway, StillMatch
<1>6. \A fns : Succeeded(fns)' <=> Succeeded(fns)
  BY <1>1, <1>3 DEF Succeeded
<1>7. ArrayHolds' /\ RealmsComplete' /\ RealmTypesRight' /\ ErrorsSurface'
  BY <1>1, <1>6 DEF IndInv, ArrayHolds, RealmsComplete, RealmTypesRight, ErrorsSurface
<1>8. DomainsComplete'
  BY <1>1, <1>3, <1>6 DEF IndInv, DomainsComplete, Least
<1>9. TypesGathered'
  BY <1>1, <1>3, <1>6 DEF IndInv, TypesGathered, Gathered
<1> QED BY <1>4, <1>5, <1>7, <1>8, <1>9 DEF IndInv

LEMMA NextInv ==
  ASSUME IndInv, [Next]_vars
  PROVE  IndInv'
<1>1. CASE CallStep
  BY <1>1, NotSupportedInv, BeginInv, FailInv, FirstDomainsInv, AgainDomainsInv,
     RealmStepsInv, ReportRealmsInv DEF CallStep
<1>2. CASE \E r \in Realms, d \in Domains : Activate(r, d)
  BY <1>2, ActivateInv
<1>3. CASE UNCHANGED vars
  BY <1>3, StutterInv
<1> QED BY <1>1, <1>2, <1>3 DEF Next

LEMMA Invariance == Spec => []IndInv
<1>1. IndInv /\ [Next]_vars => IndInv'
  BY NextInv
<1> QED BY InitInv, <1>1, PTL DEF Spec

-----------------------------------------------------------------------------
(***************************************************************************)
(* The theorems.                                                           *)
(***************************************************************************)
\* Reports stay inside the arrays that the code allocates for them, whatever
\* others activate between allocation and command.
THEOREM ArrayTheorem == Spec => []ArrayHolds
<1>1. IndInv => ArrayHolds
  BY DEF IndInv
<1> QED BY Invariance, <1>1, PTL

\* zbc_list_domains returns exactly the domains that match if it was asked for
\* all or if others activated nothing meanwhile; zbc_report_domains fills the
\* caller's array as far as it goes.
THEOREM DomainsTheorem == Spec => []DomainsComplete
<1>1. IndInv => DomainsComplete
  BY DEF IndInv
<1> QED BY Invariance, <1>1, PTL

\* The scans of zbc_scsi_get_zbd_characteristics and zbc_get_domain_info see
\* the types of all domains, the first as far as 512 bytes hold them.
THEOREM TypesTheorem == Spec => []TypesGathered
<1>1. IndInv => TypesGathered
  BY DEF IndInv
<1> QED BY Invariance, <1>1, PTL

\* zbc_list_zone_realms loses no realm that matches throughout the call.
THEOREM RealmsTheorem == Spec => []RealmsComplete
<1>1. IndInv => RealmsComplete
  BY DEF IndInv
<1> QED BY Invariance, <1>1, PTL

\* The zone type in a realm descriptor is that of the realm's domain.
THEOREM RealmTypesTheorem == Spec => []RealmTypesRight
<1>1. IndInv => RealmTypesRight
  BY DEF IndInv
<1> QED BY Invariance, <1>1, PTL

\* Errors reach the caller and arrays are freed.
THEOREM DomainErrorsTheorem == Spec => []ErrorsSurface
<1>1. IndInv => ErrorsSurface
  BY DEF IndInv
<1> QED BY Invariance, <1>1, PTL
=============================================================================
