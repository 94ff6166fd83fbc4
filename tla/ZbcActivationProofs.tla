------------------------ MODULE ZbcActivationProofs -------------------------
(***************************************************************************)
(* Proofs about ZbcDevControl and ZbcActivation, for any programs, any     *)
(* realms and domains, and any interference of other initiators.           *)
(***************************************************************************)
EXTENDS ZbcActivation, ZbcArithmetic

-----------------------------------------------------------------------------
(***************************************************************************)
(* Control calls.                                                          *)
(***************************************************************************)
CallRecords ==
  [st : {"none", "read", "select", "feature", "returned"},
   set : BOOLEAN, want : [Fields -> Nat], page : [Fields -> Nat],
   k : 1..4, ret : {0, EIO, ENOTSUP}]

LEMMA ControlTypes ==
  ASSUME CtlTypeOK, NEW p \in Progs
  PROVE  /\ cc[p] \in CallRecords /\ dev.drv \in {"scsi", "ata"} /\ dev.zdr \in BOOLEAN
         /\ ctl \in [Fields -> Nat] /\ Ones \in [Fields -> Nat]
         /\ others[p] \subseteq Fields /\ wrote[p] \subseteq Fields
         /\ Order \in [1..3 -> Fields] /\ Len(Order) = 3
         /\ \A f \in Fields : \E j \in 1..3 : Order[j] = f
<1>1. cc[p] \in CallRecords
  BY DEF CtlTypeOK, CallRecords
<1>2. dev \in Devices
  BY DEF CtlTypeOK
<1>3. dev.drv \in {"scsi", "ata"} /\ dev.zdr \in BOOLEAN /\ Ones \in [Fields -> Nat]
  BY <1>2, ControlAssumption
<1>4. ctl \in [Fields -> Nat] /\ others[p] \subseteq Fields /\ wrote[p] \subseteq Fields
  BY DEF CtlTypeOK
<1>5. Order[1] = "fsnoz" /\ Order[2] = "urswrz" /\ Order[3] = "maxact" /\ Len(Order) = 3
      /\ 1 \in 1..3 /\ 2 \in 1..3 /\ 3 \in 1..3
  BY DEF Order
<1>6. Order \in [1..3 -> Fields] /\ \A f \in Fields : \E j \in 1..3 : Order[j] = f
  <2>1. \A j \in 1..3 : j = 1 \/ j = 2 \/ j = 3
    OBVIOUS
  <2>2. \A j \in 1..3 : Order[j] \in Fields
    BY <1>5, <2>1 DEF Fields
  <2>3. Order = [j \in 1..3 |-> Order[j]]
    BY <1>5 DEF Order
  <2>4. \A f \in Fields : f = "fsnoz" \/ f = "urswrz" \/ f = "maxact"
    BY DEF Fields
  <2> QED BY <1>5, <2>2, <2>3, <2>4
<1> QED BY <1>1, <1>3, <1>4, <1>5, <1>6

LEMMA CtlInitInv == CtlInit => CtlInv
<1> SUFFICES ASSUME CtlInit PROVE CtlInv
  OBVIOUS
<1>1. PICK ask \in Asks : tool = [pc |-> "start", ask |-> ask, exit |-> -1]
  BY DEF CtlInit
<1>2. /\ dev \in Devices /\ ctl \in Settings /\ cc = [p \in Progs |-> Idle]
      /\ others = [p \in Progs |-> {}] /\ wrote = [p \in Progs |-> {}]
  BY DEF CtlInit
<1>3. /\ Ones \in [Fields -> Nat] /\ Settings \subseteq [Fields -> Nat]
      /\ CtlProg \in Progs
  BY ControlAssumption
<1>4. Idle \in CallRecords /\ Idle.st = "none" /\ Idle.set = FALSE
  <2>1. Nothing \in [Fields -> Nat]
    BY DEF Nothing
  <2> QED BY <1>3, <2>1 DEF Idle, CallRecords
<1>5. CtlTypeOK
  <2>1. cc \in [Progs -> CallRecords]
    BY <1>2, <1>4
  <2>2. tool \in [pc : {"start", "get", "set", "readback", "exit"}, ask : Asks,
                  exit : {-1, 0, 1}]
    BY <1>1
  <2>3. ctl \in [Fields -> Nat]
    BY <1>2, <1>3
  <2>4. others \in [Progs -> SUBSET Fields] /\ wrote \in [Progs -> SUBSET Fields]
    BY <1>2
  <2> QED BY <1>2, <2>1, <2>2, <2>3, <2>4 DEF CtlTypeOK, CallRecords
<1>6. \A p \in Progs : cc[p].st = "none" /\ ~cc[p].set
  BY <1>2, <1>4
<1>7. PageKept /\ CallsMade
  BY <1>6 DEF PageKept, CallsMade
<1>8. ToolCalls /\ ControlHonest
  BY <1>1, <1>3, <1>6 DEF ToolCalls, ControlHonest
<1> QED BY <1>5, <1>7, <1>8 DEF CtlInv

\* A step inside a call leaves the other programs' calls alone and tells them
\* what it changed.
LEMMA InsideCall ==
  ASSUME CtlInv, NEW p \in Progs, dev' = dev, tool' = tool, CtlTypeOK',
         \A q \in Progs \ {p} :
           /\ cc'[q] = cc[q] /\ wrote'[q] = wrote[q]
           /\ others[q] \cup {f \in Fields : ctl'[f] /= ctl[f]} \subseteq others'[q],
         cc[p].st \notin {"none", "returned"},
         cc'[p].set = cc[p].set, cc'[p].want = cc[p].want,
         cc'[p].st \in {"select", "feature", "returned"},
         cc'[p].st = "feature" => cc[p].st = "feature",
         cc'[p].st = "select" =>
           /\ cc[p].st = "read" /\ cc[p].set
           /\ \A f \in Fields :
                cc'[p].page[f] = ctl'[f] \/ (f = "maxact" /\ dev.page = "min"),
         ~cc[p].set => wrote'[p] = wrote[p],
         cc[p].set /\ cc'[p].st = "feature" =>
           \A j \in 1..(cc'[p].k - 1) : Order[j] \in Wanted(p) => Brought(p, Order[j])',
         cc[p].set /\ cc'[p].st = "returned" /\ cc'[p].ret = 0 =>
           \A f \in Wanted(p) : Brought(p, f)'
  PROVE  CtlInv'
<1>1. PageKept'
  <2> SUFFICES ASSUME NEW q \in Progs
               PROVE  /\ cc'[q].st \in {"read", "select"} /\ cc'[q].set => dev.drv = "scsi"
                      /\ cc'[q].st = "select" =>
                           /\ cc'[q].set
                           /\ \A f \in Fields \ others'[q] :
                                cc'[q].page[f] = ctl'[f] \/ (f = "maxact" /\ dev.page = "min")
                      /\ cc'[q].st = "feature" => cc'[q].set /\ dev.drv = "ata"
    BY DEF PageKept
  <2>1. CASE q = p
    BY <2>1 DEF CtlInv, PageKept
  <2>2. CASE q # p
    <3>1. /\ cc'[q] = cc[q]
          /\ \A f \in Fields \ others'[q] : f \notin others[q] /\ ctl'[f] = ctl[f]
      BY <2>2
    <3> QED BY <3>1 DEF CtlInv, PageKept
  <2> QED BY <2>1, <2>2
<1>2. \A q \in Progs : Wanted(q)' = Wanted(q)
  <2> TAKE q \in Progs
  <2>1. cc'[q].want = cc[q].want
    OBVIOUS
  <2> QED BY <2>1 DEF Wanted
<1>3. \A q \in Progs \ {p}, f \in Fields : Brought(q, f)' <=> Brought(q, f)
  BY DEF Brought
<1>4. CallsMade'
  <2> SUFFICES ASSUME NEW q \in Progs, cc'[q].set
               PROVE  /\ cc'[q].st = "feature" =>
                           \A j \in 1..(cc'[q].k - 1) :
                             Order[j] \in Wanted(q) => Brought(q, Order[j])'
                      /\ cc'[q].st = "returned" /\ cc'[q].ret = 0 =>
                           \A f \in Wanted(q) : Brought(q, f)'
    BY <1>2 DEF CallsMade
  <2>1. CASE q = p
    BY <2>1
  <2>2. CASE q # p
    <3>1. cc'[q] = cc[q] /\ Wanted(q) \subseteq Fields
      BY <2>2 DEF Wanted
    <3> QED BY <2>2, <3>1, <1>3 DEF CtlInv, CallsMade
  <2> QED BY <2>1, <2>2
<1>5. ToolCalls'
  <2>1. CtlProg \in Progs /\ ToolCalls
    BY ControlAssumption DEF CtlInv
  <2>2. tool.pc \in {"start", "exit"} => CtlProg # p
    BY <2>1 DEF ToolCalls
  <2>3. tool.pc \in {"get", "readback"} => wrote'[CtlProg] = wrote[CtlProg]
    BY <2>1 DEF ToolCalls
  <2>4. cc'[CtlProg].set = cc[CtlProg].set /\ cc'[CtlProg].want = cc[CtlProg].want
    BY <2>1
  <2>5. CtlProg # p => cc'[CtlProg] = cc[CtlProg]
    BY <2>1
  <2>6. Want(tool.ask)' = Want(tool.ask)
    BY DEF Want
  <2>7. tool.pc = "readback" => \A f \in Fields : Brought(CtlProg, f) <=> Brought(CtlProg, f)'
    BY <2>3 DEF Brought
  <2> QED BY <2>1, <2>2, <2>4, <2>5, <2>6, <2>7 DEF ToolCalls
<1>6. ControlHonest'
  <2>1. CtlProg \in Progs /\ ToolCalls /\ ControlHonest
    BY ControlAssumption DEF CtlInv
  <2>2. tool.pc = "exit" => CtlProg # p
    BY <2>1 DEF ToolCalls
  <2>3. tool.pc = "exit" => wrote'[CtlProg] = wrote[CtlProg]
    BY <2>1, <2>2
  <2>4. Want(tool.ask)' = Want(tool.ask)
    BY DEF Want
  <2> QED BY <2>1, <2>3, <2>4 DEF ControlHonest
<1> QED BY <1>1, <1>4, <1>5, <1>6 DEF CtlInv

LEMMA TypesKept ==
  ASSUME CtlTypeOK, NEW p \in Progs, NEW c \in CallRecords,
         dev' = dev, tool' = tool, cc' = [cc EXCEPT ![p] = c],
         ctl' \in [Fields -> Nat],
         others' \in [Progs -> SUBSET Fields], wrote' \in [Progs -> SUBSET Fields]
  PROVE  CtlTypeOK' /\ cc'[p] = c /\ \A q \in Progs \ {p} : cc'[q] = cc[q]
<1>1. cc \in [Progs -> CallRecords]
  BY DEF CtlTypeOK, CallRecords
<1>2. cc' \in [Progs -> CallRecords]
  BY <1>1
<1>3. CtlTypeOK'
  <2>1. cc' \in [Progs -> [st : {"none", "read", "select", "feature", "returned"},
                           set : BOOLEAN, want : [Fields -> Nat], page : [Fields -> Nat],
                           k : 1..4, ret : {0, EIO, ENOTSUP}]]
    BY <1>2 DEF CallRecords
  <2> QED BY <2>1 DEF CtlTypeOK
<1> QED BY <1>1, <1>3

\* A call returns an error, or that it had nothing to do.
LEMMA ReturnInv ==
  ASSUME CtlInv, NEW p \in Progs, NEW value \in {0, EIO, ENOTSUP},
         CtlReturn(p, value), UNCHANGED <<dev, ctl, tool, others, wrote>>,
         cc[p].st \notin {"none", "returned"},
         cc[p].set /\ value = 0 => \A f \in Wanted(p) : Brought(p, f)
  PROVE  CtlInv'
<1> DEFINE c == [cc[p] EXCEPT !.st = "returned", !.ret = value]
<1>1. CtlTypeOK /\ cc[p] \in CallRecords /\ ctl \in [Fields -> Nat]
      /\ others \in [Progs -> SUBSET Fields] /\ wrote \in [Progs -> SUBSET Fields]
  BY ControlTypes DEF CtlInv, CtlTypeOK
<1>2. c \in CallRecords /\ c.st = "returned" /\ c.ret = value /\ c.set = cc[p].set
      /\ c.want = cc[p].want
  BY <1>1 DEF CallRecords
<1>3. cc' = [cc EXCEPT ![p] = c]
  BY DEF CtlReturn
<1> HIDE DEF c
<1>4. CtlTypeOK' /\ cc'[p] = c /\ \A q \in Progs \ {p} : cc'[q] = cc[q]
  BY <1>1, <1>2, <1>3, TypesKept
<1>5. \A f : Brought(p, f)' <=> Brought(p, f)
  BY DEF Brought
<1> QED BY <1>2, <1>4, <1>5, InsideCall

LEMMA ReadPageInv ==
  ASSUME CtlInv, NEW p \in Progs, ReadPage(p)
  PROVE  CtlInv'
<1> DEFINE next == IF cc[p].set /\ Wanted(p) /= {} THEN "select" ELSE "returned"
<1>1. PICK page \in PageReads :
        cc' = [cc EXCEPT ![p].st = next, ![p].page = page]
  BY DEF ReadPage
<1>2. /\ cc[p].st = "read" /\ others' = [others EXCEPT ![p] = {}]
      /\ dev' = dev /\ ctl' = ctl /\ tool' = tool /\ wrote' = wrote
  BY DEF ReadPage
<1>3. CtlTypeOK /\ cc[p] \in CallRecords /\ ctl \in [Fields -> Nat]
      /\ others \in [Progs -> SUBSET Fields] /\ wrote \in [Progs -> SUBSET Fields]
      /\ Ones \in [Fields -> Nat]
  BY ControlTypes DEF CtlInv, CtlTypeOK
<1>4. /\ page \in [Fields -> Nat]
      /\ \A f \in Fields : page[f] = ctl[f]
                           \/ (f = "maxact" /\ dev.page = "min")
  <2>1. CASE dev.drv = "scsi" /\ dev.page = "min"
    <3>1. PICK v \in {0, Ones["maxact"]} : page = [ctl EXCEPT !["maxact"] = v]
      BY <1>1, <2>1 DEF PageReads
    <3>2. v \in Nat
      BY <1>3 DEF Fields
    <3> QED BY <3>1, <3>2, <2>1, <1>3
  <2>2. CASE ~(dev.drv = "scsi" /\ dev.page = "min")
    BY <1>1, <1>3, <2>2 DEF PageReads
  <2> QED BY <2>1, <2>2
<1> DEFINE c == [cc[p] EXCEPT !.st = next, !.page = page]
<1>5. c \in CallRecords /\ c.st = next /\ c.set = cc[p].set /\ c.want = cc[p].want
      /\ c.page = page
  BY <1>3, <1>4 DEF CallRecords
<1>6. cc' = [cc EXCEPT ![p] = c]
  BY <1>1
<1>7. next \in {"select", "returned"} /\ (next = "select" => cc[p].set)
      /\ (cc[p].set /\ next = "returned" => Wanted(p) = {})
  OBVIOUS
<1> HIDE DEF c, next
<1>8. others' \in [Progs -> SUBSET Fields] /\ \A q \in Progs \ {p} : others'[q] = others[q]
  BY <1>2, <1>3
<1>9. CtlTypeOK' /\ cc'[p] = c /\ \A q \in Progs \ {p} : cc'[q] = cc[q]
  BY <1>2, <1>3, <1>5, <1>6, <1>8, TypesKept
<1>10. \A q \in Progs \ {p} :
         /\ cc'[q] = cc[q] /\ wrote'[q] = wrote[q]
         /\ others[q] \cup {f \in Fields : ctl'[f] /= ctl[f]} \subseteq others'[q]
  BY <1>2, <1>8, <1>9
<1> QED BY <1>2, <1>4, <1>5, <1>7, <1>9, <1>10, InsideCall

LEMMA SelectPageInv ==
  ASSUME CtlInv, NEW p \in Progs, SelectPage(p)
  PROVE  CtlInv'
<1>1. /\ cc[p].st = "select" /\ ctl' = NewPage(p) /\ Changed(p, NewPage(p))
      /\ wrote' = [wrote EXCEPT ![p] = {f \in Wanted(p) : f = "maxact" => dev.page /= "min"}]
      /\ CtlReturn(p, 0) /\ dev' = dev /\ tool' = tool
  BY DEF SelectPage
<1>2. CtlTypeOK /\ cc[p] \in CallRecords /\ ctl \in [Fields -> Nat]
      /\ others \in [Progs -> SUBSET Fields] /\ wrote \in [Progs -> SUBSET Fields]
      /\ cc[p].set
  BY <1>1, ControlTypes DEF CtlInv, CtlTypeOK, PageKept
<1>3. cc[p].want \in [Fields -> Nat] /\ cc[p].page \in [Fields -> Nat]
  BY <1>2 DEF CallRecords
<1>4. ctl' \in [Fields -> Nat]
  BY <1>1, <1>2, <1>3 DEF NewPage
<1>5. others' = [q \in Progs |-> IF q = p THEN {}
                   ELSE others[q] \cup {f \in Fields : ctl'[f] /= ctl[f]}]
  BY <1>1 DEF Changed
<1>6. others' \in [Progs -> SUBSET Fields]
      /\ \A q \in Progs \ {p} : others'[q] = others[q] \cup {f \in Fields : ctl'[f] /= ctl[f]}
  BY <1>2, <1>5
<1>7. Wanted(p) \subseteq Fields
  BY DEF Wanted
<1>8. wrote' \in [Progs -> SUBSET Fields] /\ (\A q \in Progs \ {p} : wrote'[q] = wrote[q])
      /\ wrote'[p] = {f \in Wanted(p) : f = "maxact" => dev.page /= "min"}
  BY <1>1, <1>2, <1>7
<1> DEFINE c == [cc[p] EXCEPT !.st = "returned", !.ret = 0]
<1>9. c \in CallRecords /\ c.st = "returned" /\ c.set = cc[p].set /\ c.want = cc[p].want
  BY <1>2 DEF CallRecords
<1>10. cc' = [cc EXCEPT ![p] = c]
  BY <1>1 DEF CtlReturn
<1> HIDE DEF c
<1>11. CtlTypeOK' /\ cc'[p] = c /\ \A q \in Progs \ {p} : cc'[q] = cc[q]
  BY <1>1, <1>2, <1>4, <1>6, <1>8, <1>9, <1>10, TypesKept
<1>12. \A q \in Progs \ {p} :
         /\ cc'[q] = cc[q] /\ wrote'[q] = wrote[q]
         /\ others[q] \cup {f \in Fields : ctl'[f] /= ctl[f]} \subseteq others'[q]
  BY <1>6, <1>8, <1>11
<1>13. \A f \in Wanted(p) : Brought(p, f)'
  BY <1>1, <1>8 DEF Brought
<1> QED BY <1>1, <1>2, <1>9, <1>11, <1>12, <1>13, InsideCall

\* SET FEATURES commands.
LEMMA FeatureSetInv ==
  ASSUME CtlInv, NEW p \in Progs, FeatureSet(p)
  PROVE  CtlInv'
<1> DEFINE f == Order[cc[p].k]
<1>1. /\ cc[p].st = "feature" /\ Due(p) /\ ctl' = [ctl EXCEPT ![f] = cc[p].want[f]]
      /\ Changed(p, ctl') /\ wrote' = [wrote EXCEPT ![p] = @ \cup {f}]
      /\ cc' = [cc EXCEPT ![p].k = @ + 1] /\ dev' = dev /\ tool' = tool
  BY DEF FeatureSet
<1>2. CtlTypeOK /\ cc[p] \in CallRecords /\ ctl \in [Fields -> Nat]
      /\ others \in [Progs -> SUBSET Fields] /\ wrote \in [Progs -> SUBSET Fields]
      /\ cc[p].set /\ CallsMade
  BY <1>1, ControlTypes DEF CtlInv, CtlTypeOK, PageKept
<1>3. cc[p].want \in [Fields -> Nat] /\ cc[p].k \in 1..4
  BY <1>2 DEF CallRecords
<1>4. cc[p].k \in 1..3 /\ f \in Fields
  <2>1. Len(Order) = 3 /\ Order \in [1..3 -> Fields] /\ cc[p].k <= Len(Order)
    BY <1>1, <1>2, ControlTypes DEF Due
  <2>2. cc[p].k \in 1..3
    BY <2>1, <1>3
  <2> QED BY <2>1, <2>2
<1> HIDE DEF f
<1>5. ctl' \in [Fields -> Nat]
  BY <1>1, <1>2, <1>3, <1>4
<1>6. others' = [q \in Progs |-> IF q = p THEN {}
                   ELSE others[q] \cup {g \in Fields : ctl'[g] /= ctl[g]}]
  BY <1>1 DEF Changed
<1>7. others' \in [Progs -> SUBSET Fields]
      /\ \A q \in Progs \ {p} : others'[q] = others[q] \cup {g \in Fields : ctl'[g] /= ctl[g]}
  BY <1>2, <1>6
<1>8. wrote' \in [Progs -> SUBSET Fields] /\ (\A q \in Progs \ {p} : wrote'[q] = wrote[q])
      /\ wrote'[p] = wrote[p] \cup {f}
  BY <1>1, <1>2, <1>4
<1> DEFINE c == [cc[p] EXCEPT !.k = @ + 1]
<1>9. c \in CallRecords /\ c.st = "feature" /\ c.set = cc[p].set /\ c.want = cc[p].want
      /\ c.k = cc[p].k + 1
  <2>1. cc[p].k + 1 \in 1..4
    BY <1>4
  <2> QED BY <1>1, <1>2, <2>1 DEF CallRecords
<1>10. cc' = [cc EXCEPT ![p] = c]
  BY <1>1
<1> HIDE DEF c
<1>11. CtlTypeOK' /\ cc'[p] = c /\ \A q \in Progs \ {p} : cc'[q] = cc[q]
  BY <1>1, <1>2, <1>5, <1>7, <1>8, <1>9, <1>10, TypesKept
<1>12. \A q \in Progs \ {p} :
         /\ cc'[q] = cc[q] /\ wrote'[q] = wrote[q]
         /\ others[q] \cup {g \in Fields : ctl'[g] /= ctl[g]} \subseteq others'[q]
  BY <1>7, <1>8, <1>11
<1>13. ASSUME NEW j \in 1..(cc'[p].k - 1), Order[j] \in Wanted(p)
       PROVE  Brought(p, Order[j])'
  <2>1. j \in 1..(cc[p].k - 1) \/ j = cc[p].k
    BY <1>4, <1>9, <1>11
  <2>2. CASE j = cc[p].k
    BY <2>2, <1>8 DEF Brought, f
  <2>3. CASE j \in 1..(cc[p].k - 1)
    <3>1. Brought(p, Order[j])
      BY <2>3, <1>1, <1>2, <1>13 DEF CallsMade
    <3> QED BY <3>1, <1>1, <1>8 DEF Brought
  <2> QED BY <2>1, <2>2, <2>3
<1> QED BY <1>1, <1>2, <1>9, <1>11, <1>12, <1>13, InsideCall

LEMMA FeatureSkipInv ==
  ASSUME CtlInv, NEW p \in Progs, FeatureSkip(p)
  PROVE  CtlInv'
<1>1. /\ cc[p].st = "feature" /\ ~Due(p) /\ UNCHANGED <<dev, ctl, tool, others, wrote>>
      /\ IF cc[p].k > Len(Order) THEN CtlReturn(p, 0)
         ELSE cc' = [cc EXCEPT ![p].k = @ + 1]
  BY DEF FeatureSkip
<1>2. CtlTypeOK /\ cc[p] \in CallRecords /\ ctl \in [Fields -> Nat]
      /\ others \in [Progs -> SUBSET Fields] /\ wrote \in [Progs -> SUBSET Fields]
      /\ cc[p].set /\ CallsMade
  BY <1>1, ControlTypes DEF CtlInv, CtlTypeOK, PageKept
<1>3. /\ cc[p].k \in 1..4 /\ Len(Order) = 3 /\ Order \in [1..3 -> Fields]
      /\ \A f \in Fields : \E j \in 1..3 : Order[j] = f
  BY <1>2, ControlTypes DEF CallRecords
<1>4. \A j \in 1..(cc[p].k - 1) : Order[j] \in Wanted(p) => Brought(p, Order[j])
  BY <1>1, <1>2 DEF CallsMade
<1>5. CASE cc[p].k > Len(Order)
  <2>1. \A j \in 1..3 : j \in 1..(cc[p].k - 1)
    BY <1>3, <1>5
  <2>2. \A f \in Wanted(p) : Brought(p, f)
    BY <2>1, <1>3, <1>4 DEF Wanted
  <2>3. CtlReturn(p, 0)
    BY <1>1, <1>5
  <2> QED BY <2>2, <2>3, <1>1, ReturnInv
<1>6. CASE ~(cc[p].k > Len(Order))
  <2> DEFINE c == [cc[p] EXCEPT !.k = @ + 1]
  <2>1. cc[p].k \in 1..3 /\ cc[p].k + 1 \in 1..4
    BY <1>3, <1>6
  <2>2. c \in CallRecords /\ c.st = "feature" /\ c.set = cc[p].set /\ c.want = cc[p].want
        /\ c.k = cc[p].k + 1
    BY <1>1, <1>2, <2>1 DEF CallRecords
  <2>3. cc' = [cc EXCEPT ![p] = c]
    BY <1>1, <1>6
  <2> HIDE DEF c
  <2>4. CtlTypeOK' /\ cc'[p] = c /\ \A q \in Progs \ {p} : cc'[q] = cc[q]
    BY <1>1, <1>2, <2>2, <2>3, TypesKept
  <2>5. Order[cc[p].k] \notin Wanted(p)
    BY <1>1, <1>3, <2>1 DEF Due, Wanted
  <2>6. ASSUME NEW j \in 1..(cc'[p].k - 1), Order[j] \in Wanted(p)
        PROVE  Brought(p, Order[j])'
    <3>1. j \in 1..(cc[p].k - 1)
      BY <2>1, <2>2, <2>4, <2>5, <2>6
    <3> QED BY <3>1, <2>6, <1>1, <1>4 DEF Brought
  <2> QED BY <1>1, <1>2, <2>2, <2>4, <2>6, InsideCall
<1> QED BY <1>5, <1>6

LEMMA CtlStepInv ==
  ASSUME CtlInv, NEW p \in Progs, CtlStep(p)
  PROVE  CtlInv'
<1>1. CASE ReadFails(p)
  <2>1. EIO # 0 /\ EIO \in {0, EIO, ENOTSUP}
    BY DEF EIO
  <2> QED BY <1>1, <2>1, ReturnInv DEF ReadFails
<1>2. CASE SelectFails(p)
  <2>1. EIO # 0 /\ EIO \in {0, EIO, ENOTSUP}
    BY DEF EIO
  <2> QED BY <1>2, <2>1, ReturnInv DEF SelectFails
<1>3. CASE FeatureFails(p)
  <2>1. EIO # 0 /\ EIO \in {0, EIO, ENOTSUP}
    BY DEF EIO
  <2> QED BY <1>3, <2>1, ReturnInv DEF FeatureFails
<1>4. CASE FeatureUnsupported(p)
  <2>1. ENOTSUP # 0 /\ ENOTSUP \in {0, EIO, ENOTSUP}
    BY DEF ENOTSUP
  <2> QED BY <1>4, <2>1, ReturnInv DEF FeatureUnsupported
<1> QED BY <1>1, <1>2, <1>3, <1>4, ReadPageInv, SelectPageInv, FeatureSetInv, FeatureSkipInv
       DEF CtlStep

\* A program begins a call.
ToolRecords ==
  [pc : {"start", "get", "set", "readback", "exit"}, ask : Asks, exit : {-1, 0, 1}]

LEMMA CallBegins ==
  ASSUME CtlInv, NEW p \in Progs, NEW want \in [Fields -> Nat], NEW set \in BOOLEAN,
         CtlCall(p, want, set), dev' = dev, ctl' = ctl, others' = others,
         tool' \in ToolRecords
  PROVE  /\ CtlTypeOK' /\ PageKept' /\ CallsMade'
         /\ cc'[p].set = set /\ cc'[p].want = want
         /\ cc'[p].st \in {"read", "feature", "returned"} /\ cc'[p].k = 1
         /\ cc'[p].st = "returned" => cc'[p].ret /= 0
         /\ dev.drv = "ata" /\ set => cc'[p].st \in {"feature", "returned"}
         /\ \A q \in Progs \ {p} : cc'[q] = cc[q] /\ wrote'[q] = wrote[q]
         /\ ~set => wrote' = wrote
<1> DEFINE c == [st   |-> IF ~dev.zdr THEN "returned"
                          ELSE IF set /\ dev.drv = "ata" THEN "feature" ELSE "read",
                 set  |-> set, want |-> want, page |-> Nothing, k |-> 1,
                 ret  |-> IF dev.zdr THEN 0 ELSE ENOTSUP]
<1>1. CtlTypeOK /\ cc \in [Progs -> CallRecords] /\ ctl \in [Fields -> Nat]
      /\ others \in [Progs -> SUBSET Fields] /\ wrote \in [Progs -> SUBSET Fields]
      /\ dev.drv \in {"scsi", "ata"} /\ dev.zdr \in BOOLEAN /\ dev \in Devices
  BY ControlTypes DEF CtlInv, CtlTypeOK, CallRecords
<1>2. /\ cc' = [cc EXCEPT ![p] = c]
      /\ wrote' = [wrote EXCEPT ![p] = IF set THEN {} ELSE wrote[p]]
  BY DEF CtlCall
<1>3. Nothing \in [Fields -> Nat]
  BY DEF Nothing
<1>4. /\ c \in CallRecords /\ c.set = set /\ c.want = want /\ c.k = 1
      /\ c.st \in {"read", "feature", "returned"}
      /\ c.st = "returned" => ~dev.zdr /\ c.ret = ENOTSUP
      /\ c.st = "feature" => set /\ dev.drv = "ata"
      /\ c.st = "read" => ~(set /\ dev.drv = "ata")
  <2>1. c.st \in {"read", "feature", "returned"} /\ c.ret \in {0, EIO, ENOTSUP} /\ c.k \in 1..4
    OBVIOUS
  <2>2. c \in CallRecords
    BY <2>1, <1>3 DEF CallRecords
  <2> QED BY <2>1, <2>2
<1> HIDE DEF c
<1>5. ENOTSUP # 0
  BY DEF ENOTSUP
<1>6. /\ cc'[p] = c /\ \A q \in Progs \ {p} : cc'[q] = cc[q]
      /\ cc' \in [Progs -> CallRecords]
  BY <1>1, <1>2, <1>4
<1>7. /\ wrote' \in [Progs -> SUBSET Fields]
      /\ \A q \in Progs \ {p} : wrote'[q] = wrote[q]
      /\ ~set => wrote' = wrote
  BY <1>1, <1>2
<1>8. CtlTypeOK'
  BY <1>1, <1>6, <1>7 DEF CtlTypeOK, CallRecords, ToolRecords
<1>9. PageKept'
  <2> SUFFICES ASSUME NEW q \in Progs
               PROVE  /\ cc'[q].st \in {"read", "select"} /\ cc'[q].set => dev.drv = "scsi"
                      /\ cc'[q].st = "select" =>
                           /\ cc'[q].set
                           /\ \A f \in Fields \ others[q] :
                                cc'[q].page[f] = ctl[f] \/ (f = "maxact" /\ dev.page = "min")
                      /\ cc'[q].st = "feature" => cc'[q].set /\ dev.drv = "ata"
    BY DEF PageKept
  <2>1. CASE q = p
    BY <2>1, <1>1, <1>4, <1>6
  <2>2. CASE q # p
    <3>1. cc'[q] = cc[q]
      BY <2>2, <1>6
    <3> QED BY <3>1 DEF CtlInv, PageKept
  <2> QED BY <2>1, <2>2
<1>10. CallsMade'
  <2> SUFFICES ASSUME NEW q \in Progs, cc'[q].set
               PROVE  /\ cc'[q].st = "feature" =>
                           \A j \in 1..(cc'[q].k - 1) :
                             Order[j] \in Wanted(q)' => Brought(q, Order[j])'
                      /\ cc'[q].st = "returned" /\ cc'[q].ret = 0 =>
                           \A f \in Wanted(q)' : Brought(q, f)'
    BY DEF CallsMade
  <2>1. CASE q = p
    <3>1. cc'[q].k = 1 /\ ~(cc'[q].st = "returned" /\ cc'[q].ret = 0)
      BY <2>1, <1>4, <1>5, <1>6
    <3> QED BY <3>1
  <2>2. CASE q # p
    <3>1. cc'[q] = cc[q] /\ Wanted(q)' = Wanted(q)
      BY <2>2, <1>6 DEF Wanted
    <3>2. \A f : Brought(q, f)' <=> Brought(q, f)
      BY <2>2, <1>7 DEF Brought
    <3> QED BY <3>1, <3>2 DEF CtlInv, CallsMade
  <2> QED BY <2>1, <2>2
<1> QED BY <1>4, <1>5, <1>6, <1>7, <1>8, <1>9, <1>10

\* zbc_dev_control.
LEMMA WantType ==
  ASSUME NEW ask \in Asks
  PROVE  Want(ask) \in [Fields -> Nat] /\ ask \in [Fields -> Nat \cup {NoAsk}]
<1>1. Asks \subseteq [Fields -> Nat \cup {NoAsk}] /\ Ones \in [Fields -> Nat]
  BY ControlAssumption
<1>2. ASSUME NEW f \in Fields, ask[f] # NoAsk PROVE ask[f] % (Ones[f] + 1) \in Nat
  <2>1. ask[f] \in Nat /\ Ones[f] + 1 \in Nat \ {0}
    BY <1>1, <1>2
  <2> QED BY <2>1, ModFacts
<1> QED BY <1>1, <1>2 DEF Want

LEMMA ToolStepInv ==
  ASSUME CtlInv, ToolStep
  PROVE  CtlInv'
<1>1. /\ CtlProg \in Progs /\ tool \in ToolRecords /\ CtlTypeOK /\ PageKept /\ CallsMade
      /\ ToolCalls /\ ControlHonest
  BY ControlAssumption DEF CtlInv, CtlTypeOK, ToolRecords
<1>2. tool.ask \in Asks /\ tool.pc \in {"start", "get", "set", "readback", "exit"}
  BY <1>1 DEF ToolRecords
<1>3. Want(tool.ask) \in [Fields -> Nat] /\ Ones \in [Fields -> Nat]
  BY <1>2, WantType, ControlAssumption
<1>4. ASSUME NEW next \in {"get", "set", "readback"},
             NEW want \in [Fields -> Nat], NEW set \in BOOLEAN,
             tool' = [tool EXCEPT !.pc = next], CtlCall(CtlProg, want, set),
             dev' = dev, ctl' = ctl, others' = others,
             next \in {"get", "readback"} => ~set,
             next = "set" => set /\ want = Want(tool.ask),
             next = "readback" =>
               \A f \in Fields : tool.ask[f] = NoAsk \/ Want(tool.ask)[f] = Ones[f]
                                   \/ Brought(CtlProg, f)
      PROVE  CtlInv'
  <2>1. tool' \in ToolRecords /\ tool'.pc = next /\ tool'.ask = tool.ask
    BY <1>1, <1>4 DEF ToolRecords
  <2>2. /\ CtlTypeOK' /\ PageKept' /\ CallsMade'
        /\ cc'[CtlProg].set = set /\ cc'[CtlProg].want = want
        /\ ~set => wrote' = wrote
    BY <1>1, <1>4, <2>1, CallBegins
  <2>3. ControlHonest'
    BY <1>4, <2>1 DEF ControlHonest
  <2>4. Want(tool.ask)' = Want(tool.ask)
    BY <2>1 DEF Want
  <2>5. next = "readback" => \A f : Brought(CtlProg, f)' <=> Brought(CtlProg, f)
    BY <1>4, <2>2 DEF Brought
  <2>6. ToolCalls'
    BY <1>4, <2>1, <2>2, <2>4, <2>5 DEF ToolCalls
  <2> QED BY <2>2, <2>3, <2>6 DEF CtlInv
<1>5. CASE ToolStart
  BY <1>3, <1>4, <1>5 DEF ToolStart
<1>6. CASE ToolSet
  BY <1>3, <1>4, <1>6 DEF ToolSet
<1>7. CASE ToolReadBack
  <2>1. tool.pc = "set" /\ CtlReturned(CtlProg) /\ cc[CtlProg].ret = 0
    BY <1>7 DEF ToolReadBack
  <2>2. cc[CtlProg].set /\ cc[CtlProg].want = Want(tool.ask)
    BY <1>1, <2>1 DEF ToolCalls
  <2>3. \A f \in Wanted(CtlProg) : Brought(CtlProg, f)
    BY <1>1, <2>1, <2>2 DEF CallsMade, CtlReturned
  <2>4. \A f \in Fields : Want(tool.ask)[f] = Ones[f] \/ Brought(CtlProg, f)
    BY <2>2, <2>3 DEF Wanted
  <2> QED BY <1>3, <1>4, <1>7, <2>4 DEF ToolReadBack
<1>8. ASSUME NEW status \in {0, 1}, ToolExit(status),
             UNCHANGED <<dev, ctl, cc, others, wrote>>,
             cc[CtlProg].st \in {"none", "returned"},
             status = 0 =>
               \A f \in Fields : tool.ask[f] = NoAsk \/ Want(tool.ask)[f] = Ones[f]
                                   \/ Brought(CtlProg, f)
      PROVE  CtlInv'
  <2>1. tool' \in ToolRecords /\ tool'.pc = "exit" /\ tool'.ask = tool.ask
        /\ tool'.exit = status
    BY <1>1, <1>8 DEF ToolRecords, ToolExit
  <2>2. CtlTypeOK'
    BY <1>1, <1>8, <2>1 DEF CtlTypeOK, ToolRecords
  <2>3. PageKept'
    BY <1>1, <1>8 DEF PageKept
  <2>4. CallsMade'
    BY <1>1, <1>8 DEF CallsMade, Wanted, Brought
  <2>5. ToolCalls'
    BY <1>8, <2>1 DEF ToolCalls
  <2>6. Want(tool.ask)' = Want(tool.ask)
    BY <2>1 DEF Want
  <2>7. ControlHonest'
    BY <1>8, <2>1, <2>6 DEF ControlHonest, Brought
  <2> QED BY <2>2, <2>3, <2>4, <2>5, <2>7 DEF CtlInv
<1>9. CASE ToolNotZdr
  <2>1. cc[CtlProg].st \in {"none", "returned"}
    BY <1>1, <1>9 DEF ToolNotZdr, ToolCalls
  <2>2. AsksNothing(tool.ask) => \A f \in Fields : tool.ask[f] = NoAsk
    BY DEF AsksNothing
  <2> DEFINE status == IF AsksNothing(tool.ask) THEN 0 ELSE 1
  <2>3. status \in {0, 1} /\ (status = 0 => AsksNothing(tool.ask))
    OBVIOUS
  <2>4. ToolExit(status) /\ UNCHANGED <<dev, ctl, cc, others, wrote>>
    BY <1>9 DEF ToolNotZdr
  <2> HIDE DEF status
  <2> QED BY <1>8, <2>1, <2>2, <2>3, <2>4
<1>10. CASE ToolEnds
  <2>1. cc[CtlProg].st \in {"none", "returned"}
    BY <1>10 DEF ToolEnds, CtlReturned
  <2>2. AsksNothing(tool.ask) => \A f \in Fields : tool.ask[f] = NoAsk
    BY DEF AsksNothing
  <2> DEFINE status == IF cc[CtlProg].ret = 0 THEN 0 ELSE 1
  <2>3. status \in {0, 1} /\ (status = 0 => cc[CtlProg].ret = 0)
    OBVIOUS
  <2>4. ToolExit(status) /\ UNCHANGED <<dev, ctl, cc, others, wrote>>
        /\ (cc[CtlProg].ret = 0 => AsksNothing(tool.ask) \/ tool.pc = "readback")
    BY <1>10 DEF ToolEnds
  <2> HIDE DEF status
  <2>5. status = 0 =>
          \A f \in Fields : tool.ask[f] = NoAsk \/ Want(tool.ask)[f] = Ones[f]
                              \/ Brought(CtlProg, f)
    BY <1>1, <2>2, <2>3, <2>4 DEF ToolCalls
  <2> QED BY <1>8, <2>1, <2>3, <2>4, <2>5
<1> QED BY <1>5, <1>6, <1>7, <1>9, <1>10 DEF ToolStep

-----------------------------------------------------------------------------
(***************************************************************************)
(* The zones of a domain, numbered through its realms: SumLens is given by *)
(* a recursive function, which exists for any number of realms.            *)
(***************************************************************************)
ZonesIn(d, rs, r) == IF r \in rs THEN Lens[d][r] ELSE 0

IsSum(f, d, rs) ==
  f = [r \in 0..NrRealms |-> IF r = 0 THEN 0 ELSE f[r - 1] + ZonesIn(d, rs, r)]

LEMMA RealmTypes ==
  ASSUME NEW d \in Domains
  PROVE  /\ NrRealms \in Nat /\ \A r \in Realms : Lens[d][r] \in Nat
         /\ \A rs, r : r \in Realms => ZonesIn(d, rs, r) \in Nat
<1>1. NrRealms \in Nat /\ \A r \in Realms : Lens[d][r] \in Nat
  BY ActivationAssumption
<1> QED BY <1>1 DEF ZonesIn

LEMMA SumExists ==
  ASSUME NEW d \in Domains, NEW rs
  PROVE  \E f \in [0..NrRealms -> Nat] : IsSum(f, d, rs)
<1> DEFINE S == {n \in Nat : n <= NrRealms =>
                   \E f \in [0..n -> Nat] :
                     f[0] = 0 /\ \A r \in 1..n : f[r] = f[r - 1] + ZonesIn(d, rs, r)}
<1>1. NrRealms \in Nat /\ \A r \in 1..NrRealms : ZonesIn(d, rs, r) \in Nat
  BY RealmTypes DEF Realms
<1>2. 0 \in S
  <2> DEFINE f == [r \in 0..0 |-> 0]
  <2>1. f \in [0..0 -> Nat] /\ f[0] = 0 /\ \A r \in 1..0 : f[r] = f[r - 1] + ZonesIn(d, rs, r)
    OBVIOUS
  <2> HIDE DEF f
  <2> QED BY <2>1
<1>3. ASSUME NEW n \in Nat, n \in S PROVE n + 1 \in S
  <2> SUFFICES ASSUME n + 1 <= NrRealms
               PROVE  \E f \in [0..(n + 1) -> Nat] :
                        f[0] = 0 /\ \A r \in 1..(n + 1) : f[r] = f[r - 1] + ZonesIn(d, rs, r)
    OBVIOUS
  <2>1. n <= NrRealms /\ n + 1 \in 1..NrRealms
    BY <1>1
  <2>2. PICK f \in [0..n -> Nat] :
          f[0] = 0 /\ \A r \in 1..n : f[r] = f[r - 1] + ZonesIn(d, rs, r)
    BY <1>3, <2>1
  <2> DEFINE v == f[n] + ZonesIn(d, rs, n + 1)
             g == [r \in 0..(n + 1) |-> IF r = n + 1 THEN v ELSE f[r]]
  <2>3. f[n] \in Nat /\ v \in Nat
    <3>1. f[n] \in Nat /\ ZonesIn(d, rs, n + 1) \in Nat
      BY <1>1, <2>1, <2>2
    <3> QED BY <3>1
  <2> HIDE DEF v
  <2>4. /\ g \in [0..(n + 1) -> Nat] /\ g[n + 1] = v
        /\ \A r \in 0..n : g[r] = f[r]
    BY <2>2, <2>3
  <2> HIDE DEF g
  <2>5. ASSUME NEW r \in 1..(n + 1) PROVE g[r] = g[r - 1] + ZonesIn(d, rs, r)
    <3>1. CASE r = n + 1
      <4>1. r - 1 = n /\ n \in 0..n
        BY <3>1
      <4> QED BY <3>1, <4>1, <2>4 DEF v
    <3>2. CASE r # n + 1
      <4>1. r \in 1..n /\ r \in 0..n /\ r - 1 \in 0..n
        BY <3>2
      <4> QED BY <4>1, <2>2, <2>4
    <3> QED BY <3>1, <3>2
  <2>6. g[0] = 0
    BY <2>2, <2>4
  <2> QED BY <2>4, <2>5, <2>6
<1> HIDE DEF S
<1>4. NrRealms \in S
  BY <1>1, <1>2, <1>3, SetInduction
<1>5. PICK f \in [0..NrRealms -> Nat] :
        f[0] = 0 /\ \A r \in 1..NrRealms : f[r] = f[r - 1] + ZonesIn(d, rs, r)
  <2>1. NrRealms <= NrRealms
    BY <1>1
  <2> QED BY <2>1, <1>4, Zenon DEF S
<1>6. \A r \in 0..NrRealms : f[r] = IF r = 0 THEN 0 ELSE f[r - 1] + ZonesIn(d, rs, r)
  BY <1>1, <1>5
<1>7. f = [r \in 0..NrRealms |-> f[r]]
  BY <1>5
<1>8. IsSum(f, d, rs)
  BY <1>6, <1>7 DEF IsSum
<1> QED BY <1>8

\* The sum up to each realm.
LEMMA SumFacts ==
  ASSUME NEW d \in Domains, NEW rs
  PROVE  \E f : /\ SumLens(d, rs) = f[NrRealms] /\ f[0] = 0
                /\ \A r \in 0..NrRealms : f[r] \in Nat
                /\ \A r \in 1..NrRealms : f[r] = f[r - 1] + ZonesIn(d, rs, r)
<1> DEFINE f == CHOOSE g : IsSum(g, d, rs)
<1>1. SumLens(d, rs) = f[NrRealms]
  BY DEF SumLens, IsSum, ZonesIn
<1>2. IsSum(f, d, rs)
  BY SumExists
<1> HIDE DEF f
<1>3. \A r \in 0..NrRealms : f[r] = IF r = 0 THEN 0 ELSE f[r - 1] + ZonesIn(d, rs, r)
  BY <1>2 DEF IsSum
<1>4. NrRealms \in Nat /\ \A r \in 1..NrRealms : ZonesIn(d, rs, r) \in Nat
  BY RealmTypes DEF Realms
<1>5. f[0] = 0 /\ \A r \in 1..NrRealms : f[r] = f[r - 1] + ZonesIn(d, rs, r)
  BY <1>3, <1>4
<1>6. \A r \in 0..NrRealms : f[r] \in Nat
  <2> DEFINE S == {n \in Nat : n <= NrRealms => f[n] \in Nat}
  <2>1. 0 \in S
    BY <1>5
  <2>2. ASSUME NEW n \in Nat, n \in S PROVE n + 1 \in S
    <3>1. ASSUME n + 1 <= NrRealms PROVE f[n + 1] \in Nat
      <4>1. f[n] \in Nat /\ n + 1 \in 1..NrRealms /\ (n + 1) - 1 = n
        BY <1>4, <2>2, <3>1
      <4>2. f[n + 1] = f[n] + ZonesIn(d, rs, n + 1)
        BY <4>1, <1>5
      <4> QED BY <4>1, <4>2, <1>4
    <3> QED BY <3>1
  <2> HIDE DEF S
  <2>3. Nat \subseteq S
    BY <2>1, <2>2, SetInduction
  <2> QED BY <2>3, <1>4 DEF S
<1> QED BY <1>1, <1>5, <1>6

\* The zones before each realm of a domain, and those of a range of realms.
Numbered(c, d) ==
  /\ c[0] = 0 /\ \A r \in 0..NrRealms : c[r] \in Nat
  /\ \A r \in 1..NrRealms : c[r] = c[r - 1] + Lens[d][r]

LEMMA NumberedExists ==
  ASSUME NEW d \in Domains
  PROVE  \E c : Numbered(c, d) /\ SumLens(d, Realms) = c[NrRealms]
<1>1. PICK c : /\ SumLens(d, Realms) = c[NrRealms] /\ c[0] = 0
               /\ \A r \in 0..NrRealms : c[r] \in Nat
               /\ \A r \in 1..NrRealms : c[r] = c[r - 1] + ZonesIn(d, Realms, r)
  BY SumFacts
<1>2. \A r \in 1..NrRealms : ZonesIn(d, Realms, r) = Lens[d][r]
  BY DEF ZonesIn, Realms
<1>3. Numbered(c, d)
  BY <1>1, <1>2 DEF Numbered
<1> QED BY <1>1, <1>3

LEMMA NumberedGrows ==
  ASSUME NEW d \in Domains, NEW c, Numbered(c, d),
         NEW i \in 0..NrRealms, NEW j \in 0..NrRealms, i <= j
  PROVE  c[i] <= c[j]
<1> DEFINE S == {n \in Nat : i <= n /\ n <= NrRealms => c[i] <= c[n]}
<1>1. /\ NrRealms \in Nat /\ \A r \in 1..NrRealms : Lens[d][r] \in Nat
      /\ i \in Nat /\ j \in Nat /\ i <= NrRealms /\ j <= NrRealms
  BY RealmTypes DEF Realms
<1>2. /\ \A r \in 0..NrRealms : c[r] \in Nat
      /\ \A r \in 1..NrRealms : c[r] = c[r - 1] + Lens[d][r]
  BY DEF Numbered
<1>3. 0 \in S
  <2>1. i <= 0 => i = 0
    BY <1>1
  <2>2. c[0] <= c[0]
    BY <1>1, <1>2
  <2> QED BY <2>1, <2>2
<1>4. ASSUME NEW n \in Nat, n \in S PROVE n + 1 \in S
  <2> SUFFICES ASSUME i <= n + 1, n + 1 <= NrRealms PROVE c[i] <= c[n + 1]
    OBVIOUS
  <2>1. CASE i = n + 1
    <3>1. c[i] \in Nat
      BY <1>2
    <3> QED BY <2>1, <3>1
  <2>2. CASE i # n + 1
    <3>1. i <= n /\ n <= NrRealms /\ n + 1 \in 1..NrRealms /\ n \in 0..NrRealms
          /\ (n + 1) - 1 = n
      BY <1>1, <2>2
    <3>2. c[i] <= c[n] /\ c[n + 1] = c[n] + Lens[d][n + 1]
      BY <3>1, <1>2, <1>4
    <3>3. c[i] \in Nat /\ c[n] \in Nat /\ Lens[d][n + 1] \in Nat
      BY <3>1, <1>1, <1>2
    <3> QED BY <3>2, <3>3
  <2> QED BY <2>1, <2>2
<1> HIDE DEF S
<1>5. Nat \subseteq S
  BY <1>3, <1>4, SetInduction
<1>6. j \in S
  BY <1>1, <1>5
<1> QED BY <1>1, <1>6 DEF S

LEMMA RangeSum ==
  ASSUME NEW d \in Domains, NEW c, Numbered(c, d),
         NEW a \in Nat \ {0}, NEW b \in 0..NrRealms, a - 1 <= b
  PROVE  SumLens(d, a..b) = c[b] - c[a - 1]
<1>1. /\ NrRealms \in Nat /\ b \in Nat /\ b <= NrRealms /\ a - 1 \in 0..NrRealms
      /\ \A r \in 1..NrRealms : Lens[d][r] \in Nat
  BY RealmTypes DEF Realms
<1>2. PICK f : /\ SumLens(d, a..b) = f[NrRealms] /\ f[0] = 0
               /\ \A r \in 0..NrRealms : f[r] \in Nat
               /\ \A r \in 1..NrRealms : f[r] = f[r - 1] + ZonesIn(d, a..b, r)
  BY SumFacts
<1> DEFINE S == {n \in Nat : n <= NrRealms =>
                   /\ n <= a - 1 => f[n] = 0
                   /\ a - 1 <= n /\ n <= b => f[n] = c[n] - c[a - 1]
                   /\ b <= n => f[n] = c[b] - c[a - 1]}
<1>3. 0 \in S
  <2>1. c[0] - c[0] = 0 /\ c[0] = 0
    BY DEF Numbered
  <2>2. a - 1 <= 0 => a - 1 = 0
    OBVIOUS
  <2>3. b <= 0 => b = 0 /\ a - 1 = 0
    BY <1>1
  <2> QED BY <2>1, <2>2, <2>3, <1>2
<1>4. ASSUME NEW n \in Nat, n \in S PROVE n + 1 \in S
  <2> SUFFICES ASSUME n + 1 <= NrRealms
               PROVE  /\ n + 1 <= a - 1 => f[n + 1] = 0
                      /\ a - 1 <= n + 1 /\ n + 1 <= b => f[n + 1] = c[n + 1] - c[a - 1]
                      /\ b <= n + 1 => f[n + 1] = c[b] - c[a - 1]
    OBVIOUS
  <2>1. n + 1 \in 1..NrRealms /\ (n + 1) - 1 = n /\ n <= NrRealms /\ n \in 0..NrRealms
        /\ n + 1 \in 0..NrRealms
    BY <1>1
  <2>2. /\ n <= a - 1 => f[n] = 0
        /\ a - 1 <= n /\ n <= b => f[n] = c[n] - c[a - 1]
        /\ b <= n => f[n] = c[b] - c[a - 1]
    BY <1>4, <2>1
  <2>3. f[n + 1] = f[n] + ZonesIn(d, a..b, n + 1)
    BY <1>2, <2>1
  <2>4. c[n + 1] = c[n] + Lens[d][n + 1]
    BY <2>1 DEF Numbered
  <2>5. c[n + 1] \in Nat /\ c[n] \in Nat /\ c[a - 1] \in Nat /\ c[b] \in Nat
        /\ Lens[d][n + 1] \in Nat /\ f[n] \in Nat
    BY <2>1, <1>1, <1>2 DEF Numbered
  <2>6. CASE n + 1 \in a..b
    <3>1. a - 1 <= n /\ n + 1 <= b /\ ~(n + 1 <= a - 1)
      BY <2>6
    <3>2. f[n + 1] = f[n] + Lens[d][n + 1]
      BY <2>3, <2>6 DEF ZonesIn
    <3>3. f[n] = c[n] - c[a - 1]
      BY <2>2, <3>1, <1>1
    <3>4. f[n + 1] = c[n + 1] - c[a - 1]
      BY <3>2, <3>3, <2>4, <2>5
    <3>5. b <= n + 1 => b = n + 1
      BY <3>1, <1>1
    <3> QED BY <3>1, <3>4, <3>5
  <2>7. CASE n + 1 \notin a..b
    <3>1. f[n + 1] = f[n]
      <4>1. ZonesIn(d, a..b, n + 1) = 0
        BY <2>7 DEF ZonesIn
      <4> QED BY <4>1, <2>3, <2>5
    <3>2. n + 1 <= a - 1 \/ b < n + 1
      BY <2>7, <1>1
    <3>3. CASE n + 1 <= a - 1
      <4>1. n <= a - 1 /\ (a - 1 <= n + 1 => a - 1 = n + 1) /\ (b <= n + 1 => b = a - 1)
        BY <3>3, <1>1
      <4>2. f[n + 1] = 0
        BY <4>1, <3>1, <2>2
      <4>3. c[a - 1] - c[a - 1] = 0
        BY <2>5
      <4> QED BY <4>1, <4>2, <4>3
    <3>4. CASE b < n + 1
      <4>1. b <= n /\ ~(n + 1 <= b) /\ (n + 1 <= a - 1 => FALSE)
        BY <3>4, <1>1
      <4> QED BY <4>1, <3>1, <2>2
    <3> QED BY <3>2, <3>3, <3>4
  <2> QED BY <2>6, <2>7
<1> HIDE DEF S
<1>5. Nat \subseteq S
  BY <1>3, <1>4, SetInduction
<1>6. f[NrRealms] = c[b] - c[a - 1]
  <2>1. NrRealms \in S /\ NrRealms <= NrRealms /\ b <= NrRealms
    BY <1>1, <1>5
  <2> QED BY <2>1 DEF S
<1> QED BY <1>2, <1>6

LEMMA EmptySum ==
  ASSUME NEW d \in Domains
  PROVE  SumLens(d, {}) = 0
<1>1. PICK c : Numbered(c, d)
  BY NumberedExists
<1>2. 1 \in Nat \ {0} /\ 0 \in 0..NrRealms /\ 1 - 1 <= 0 /\ 1 - 1 = 0
  BY RealmTypes
<1>3. SumLens(d, 1..0) = c[0] - c[0]
  BY <1>1, <1>2, RangeSum
<1>4. 1..0 = {} /\ c[0] = 0
  BY <1>1 DEF Numbered
<1>5. 0 - 0 = 0
  OBVIOUS
<1> QED BY <1>3, <1>4, <1>5

\* The zones of a range of realms belong to those of them that have any.
LEMMA CoveredRange ==
  ASSUME NEW d \in Domains, NEW a \in Realms, NEW b \in Realms, a <= b
  PROVE  /\ Covered(d, First(d, a), SumLens(d, a..b)) = {r \in a..b : Lens[d][r] > 0}
         /\ SumLens(d, a..b) \in Nat /\ SumLens(d, a..b) <= SumLens(d, Realms)
         /\ First(d, a) \in Nat
<1>1. NrRealms \in Nat /\ (\A r \in 1..NrRealms : Lens[d][r] \in Nat) /\ Realms = 1..NrRealms
  BY RealmTypes DEF Realms
<1>2. PICK c : Numbered(c, d) /\ SumLens(d, Realms) = c[NrRealms]
  BY NumberedExists
<1>3. ASSUME NEW r \in 1..NrRealms
      PROVE  First(d, r) = c[r - 1] /\ r - 1 \in 0..NrRealms /\ r \in 0..NrRealms
             /\ c[r - 1] \in Nat /\ c[r] \in Nat /\ c[r] = c[r - 1] + Lens[d][r]
  <2>1. 1 \in Nat \ {0} /\ r - 1 \in 0..NrRealms /\ 1 - 1 <= r - 1 /\ 1 - 1 = 0
        /\ r \in 0..NrRealms
    BY <1>1
  <2>2. c[r - 1] \in Nat /\ c[r] \in Nat /\ c[r] = c[r - 1] + Lens[d][r] /\ c[0] = 0
    BY <1>2, <2>1 DEF Numbered
  <2>3. SumLens(d, 1..(r - 1)) = c[r - 1] - c[0]
    BY <1>2, <2>1, RangeSum
  <2>4. c[r - 1] - c[0] = c[r - 1]
    BY <2>2
  <2> QED BY <2>1, <2>2, <2>3, <2>4 DEF First
<1>4. a \in Nat \ {0} /\ b \in 0..NrRealms /\ a - 1 <= b /\ a \in 1..NrRealms /\ b \in 1..NrRealms
      /\ a - 1 \in 0..NrRealms
  BY <1>1
<1>5. SumLens(d, a..b) = c[b] - c[a - 1] /\ First(d, a) = c[a - 1]
      /\ c[a - 1] \in Nat /\ c[b] \in Nat /\ c[a - 1] <= c[b]
  <2>1. SumLens(d, a..b) = c[b] - c[a - 1]
    BY <1>2, <1>4, RangeSum
  <2>2. First(d, a) = c[a - 1] /\ c[a - 1] \in Nat /\ c[b] \in Nat
    BY <1>3, <1>4
  <2>3. c[a - 1] <= c[b]
    BY <1>2, <1>4, NumberedGrows
  <2> QED BY <2>1, <2>2, <2>3
<1>6. c[b] <= c[NrRealms] /\ c[NrRealms] \in Nat
  <2>1. NrRealms \in 0..NrRealms /\ b <= NrRealms
    BY <1>1, <1>4
  <2>2. c[b] <= c[NrRealms]
    BY <1>2, <1>4, <2>1, NumberedGrows
  <2> QED BY <1>2, <2>1, <2>2 DEF Numbered
<1>7. SumLens(d, a..b) \in Nat /\ SumLens(d, a..b) <= SumLens(d, Realms) /\ First(d, a) \in Nat
  BY <1>2, <1>5, <1>6
<1>8. First(d, a) + SumLens(d, a..b) - 1 = c[b] - 1
  BY <1>5
<1>9. ASSUME NEW r \in 1..NrRealms
      PROVE  Zones(d, r) \cap (c[a - 1]..(c[b] - 1)) # {} <=> r \in a..b /\ Lens[d][r] > 0
  <2>1. /\ First(d, r) = c[r - 1] /\ c[r - 1] \in Nat /\ c[r] \in Nat
        /\ c[r] = c[r - 1] + Lens[d][r] /\ Lens[d][r] \in Nat
        /\ r - 1 \in 0..NrRealms /\ r \in 0..NrRealms
    BY <1>1, <1>3
  <2>2. Zones(d, r) = c[r - 1]..(c[r] - 1)
    BY <2>1 DEF Zones
  <2>3. CASE r < a
    <3>1. c[r] <= c[a - 1]
      <4>1. r <= a - 1
        BY <1>4, <2>3
      <4> QED BY <4>1, <1>2, <1>4, <2>1, NumberedGrows
    <3>2. Zones(d, r) \cap (c[a - 1]..(c[b] - 1)) = {}
      BY <2>1, <2>2, <3>1, <1>5
    <3>3. r \notin a..b
      BY <2>3, <1>4
    <3> QED BY <3>2, <3>3
  <2>4. CASE r > b
    <3>1. c[b] <= c[r - 1]
      <4>1. b <= r - 1
        BY <1>4, <2>4
      <4> QED BY <4>1, <1>2, <1>4, <2>1, NumberedGrows
    <3>2. Zones(d, r) \cap (c[a - 1]..(c[b] - 1)) = {}
      BY <2>1, <2>2, <3>1, <1>5
    <3>3. r \notin a..b
      BY <2>4, <1>4
    <3> QED BY <3>2, <3>3
  <2>5. CASE r \in a..b
    <3>1. c[a - 1] <= c[r - 1] /\ c[r] <= c[b]
      <4>1. a - 1 <= r - 1 /\ r <= b
        BY <1>4, <2>5
      <4> QED BY <4>1, <1>2, <1>4, <2>1, NumberedGrows
    <3>2. CASE Lens[d][r] > 0
      <4>1. c[r - 1] \in Zones(d, r) /\ c[r - 1] \in c[a - 1]..(c[b] - 1)
        BY <2>1, <2>2, <3>1, <3>2, <1>5
      <4> QED BY <4>1, <3>2, <2>5
    <3>3. CASE ~(Lens[d][r] > 0)
      <4>1. c[r] = c[r - 1]
        BY <2>1, <3>3
      <4>2. Zones(d, r) = {}
        BY <2>1, <2>2, <4>1
      <4> QED BY <4>2, <3>3
    <3> QED BY <3>2, <3>3
  <2>6. r < a \/ r > b \/ r \in a..b
    BY <1>4
  <2> QED BY <2>3, <2>4, <2>5, <2>6
<1>10. Covered(d, First(d, a), SumLens(d, a..b))
         = {r \in Realms : Zones(d, r) \cap (c[a - 1]..(c[b] - 1)) # {}}
  <2>1. First(d, a)..(First(d, a) + SumLens(d, a..b) - 1) = c[a - 1]..(c[b] - 1)
    BY <1>5, <1>8
  <2>2. Covered(d, First(d, a), SumLens(d, a..b))
          = {r \in Realms : Zones(d, r)
               \cap (First(d, a)..(First(d, a) + SumLens(d, a..b) - 1)) # {}}
    BY Zenon DEF Covered
  <2> QED BY <2>1, <2>2
<1>11. {r \in Realms : Zones(d, r) \cap (c[a - 1]..(c[b] - 1)) # {}}
         = {r \in a..b : Lens[d][r] > 0}
  <2>1. \A r : r \in a..b => r \in 1..NrRealms
    BY <1>1, <1>4
  <2> QED BY <1>1, <1>9, <2>1
<1> QED BY <1>7, <1>10, <1>11

-----------------------------------------------------------------------------
(***************************************************************************)
(* The program: where it is in its range, and what it found there.         *)
(***************************************************************************)
CurRecords ==
  [realm : Nat, start : Nat, n : Nat, left : Nat, rdom : Domains,
   rstart : Nat, rn : Nat, zsrc : BOOLEAN, fsnoz : BOOLEAN]

LEMMA JobTypes ==
  ASSUME job \in Jobs
  PROVE  /\ job.kind \in {"tool", "lib", "list"} /\ job.dom \in Nat /\ job.start \in Nat
         /\ job.nr \in Nat /\ job.recs \in Nat /\ job.all \in BOOLEAN /\ job.zone \in BOOLEAN
         /\ job.query \in BOOLEAN /\ job.fsnoz \in BOOLEAN /\ job.zsrc \in BOOLEAN
         /\ job.kind /= "tool" => job.dom \in Domains
         /\ job.kind = "tool" /\ ~job.zone /\ ~job.all => job.start > 0
<1>1. /\ job.kind /= "tool" => job.dom \in Domains
      /\ job.kind = "tool" /\ ~job.zone /\ ~job.all => job.start > 0
  BY ActivationAssumption
<1>2. job \in [kind : {"tool", "lib", "list"}, dom : Nat, start : Nat, nr : Nat, recs : Nat,
               all : BOOLEAN, zone : BOOLEAN, query : BOOLEAN, list : BOOLEAN,
               cdb32 : BOOLEAN, fsnoz : BOOLEAN, reset : BOOLEAN, zsrc : BOOLEAN]
  BY ActivationAssumption
<1> QED BY <1>1, <1>2

LEMMA CurTypes ==
  ASSUME cur \in CurRecords
  PROVE  /\ cur.realm \in Nat /\ cur.start \in Nat /\ cur.n \in Nat /\ cur.left \in Nat
         /\ cur.rdom \in Domains /\ cur.rstart \in Nat /\ cur.rn \in Nat
         /\ cur.zsrc \in BOOLEAN /\ cur.fsnoz \in BOOLEAN
BY DEF CurRecords

LEMMA CtlSame ==
  ASSUME CtlInv, UNCHANGED ctlvars
  PROVE  CtlInv'
<1>1. dev' = dev /\ ctl' = ctl /\ cc' = cc /\ tool' = tool /\ others' = others /\ wrote' = wrote
  BY DEF ctlvars
<1>2. CtlTypeOK'
  BY <1>1 DEF CtlInv, CtlTypeOK
<1>3. PageKept'
  BY <1>1 DEF CtlInv, PageKept
<1>4. CallsMade'
  BY <1>1 DEF CtlInv, CallsMade, Wanted, Brought
<1>5. ToolCalls' /\ ControlHonest'
  BY <1>1 DEF CtlInv, ToolCalls, ControlHonest, Brought, Want
<1> QED BY <1>2, <1>3, <1>4, <1>5 DEF CtlInv

\* The realms that the program is at are a part of the range it was given.
LEMMA ChunkInside ==
  ASSUME TypeOK, Placed, job.kind = "tool", ByRealm, pc \notin {"start", "exit"}
  PROVE  \E b \in Int :
           /\ Chunk = cur.realm..b /\ cur.realm - 1 <= b /\ cur.realm \in Nat \ {0}
           /\ Chunk \subseteq job.start..(job.start + job.nr - 1)
           /\ OneByOne => b = cur.realm
           /\ ~OneByOne => Chunk = job.start..(job.start + job.nr - 1)
<1>1. /\ job.nr \in Nat /\ job.start \in Nat /\ job.start > 0
      /\ cur.realm \in Nat /\ cur.left \in Nat
  BY JobTypes, CurTypes DEF TypeOK, CurRecords, ByRealm
<1>2. /\ ~OneByOne => cur.realm = job.start
      /\ OneByOne => /\ cur.realm >= job.start /\ cur.left > 0
                     /\ cur.realm + cur.left = job.start + job.nr
  BY DEF Placed
<1>3. CASE OneByOne
  <2>1. Chunk = cur.realm..(cur.realm + 1 - 1)
    BY <1>3 DEF Chunk
  <2>2. cur.realm + 1 - 1 = cur.realm
    BY <1>1
  <2>3. cur.realm..cur.realm \subseteq job.start..(job.start + job.nr - 1)
    BY <1>1, <1>2, <1>3
  <2>4. cur.realm \in Int /\ cur.realm - 1 <= cur.realm /\ cur.realm \in Nat \ {0}
    BY <1>1, <1>2, <1>3
  <2> QED BY <1>3, <2>1, <2>2, <2>3, <2>4
<1>4. CASE ~OneByOne
  <2>1. Chunk = cur.realm..(cur.realm + job.nr - 1) /\ cur.realm = job.start
    BY <1>2, <1>4 DEF Chunk
  <2>2. cur.realm + job.nr - 1 \in Int /\ cur.realm - 1 <= cur.realm + job.nr - 1
        /\ cur.realm \in Nat \ {0}
    BY <1>1, <2>1
  <2> QED BY <1>4, <2>1, <2>2
<1> QED BY <1>3, <1>4

\* The zones found for the realms cover these.
LEMMA FoundCovers ==
  ASSUME TypeOK, Placed, job.kind = "tool", ByRealm, pc \notin {"start", "exit"},
         NEW d \in Domains, Chunk \subseteq Realms, Chunk # {}
  PROVE  /\ cur.realm \in Realms /\ cur.realm \in Chunk
         /\ First(d, cur.realm) \in Nat /\ SumLens(d, Chunk) \in Nat
         /\ SumLens(d, Chunk) <= SumLens(d, Realms)
         /\ Covered(d, First(d, cur.realm), SumLens(d, Chunk)) = {r \in Chunk : Lens[d][r] > 0}
<1>1. PICK b \in Int : Chunk = cur.realm..b /\ cur.realm \in Nat \ {0}
  BY ChunkInside
<1>2. cur.realm <= b /\ cur.realm \in Chunk /\ b \in Chunk
  BY <1>1
<1>3. cur.realm \in Realms /\ b \in Realms
  BY <1>2
<1> QED BY <1>1, <1>2, <1>3, CoveredRange

\* A step that stays where it is, or goes on to the next command.
LEMMA StaysPlaced ==
  ASSUME IndInv, job' = job, dev' = dev,
         cur'.realm = cur.realm, cur'.start = cur.start, cur'.n = cur.n,
         cur'.left = cur.left, cur'.rdom = cur.rdom, cur'.rstart = cur.rstart,
         cur'.rn = cur.rn,
         job.kind /= "tool" => /\ cur'.zsrc = cur.zsrc
                               /\ pc' \in {"start", "count", "fetch", "exit"}
                               /\ pc' \in {"count", "fetch"} => pc \in {"count", "fetch"},
         pc' \notin {"start", "exit"} => pc \notin {"start", "exit"},
         pc' \in {"decide", "fsnoz", "reset", "count", "fetch"} =>
           pc \in {"decide", "fsnoz", "reset", "count", "fetch"}
  PROVE  Placed' /\ Found'
<1>1. Placed /\ Found
  BY DEF IndInv
<1>2. ByRealm' = ByRealm /\ OneByOne' = OneByOne
  BY DEF ByRealm, OneByOne
<1>3. Chunk' = Chunk
  BY <1>2 DEF Chunk
<1>4. Placed'
  BY <1>1, <1>2 DEF Placed
<1>5. NrUnits' = NrUnits /\ ResetZones(cur.rdom)' = ResetZones(cur.rdom)
  BY <1>3 DEF NrUnits, ResetZones
<1>6. Found'
  BY <1>1, <1>2, <1>3, <1>5 DEF Found
<1> QED BY <1>4, <1>6

Pcs == {"start", "realms", "decide", "fsnoz", "reset", "count", "fetch", "exit"}

LEMMA SimpleStep ==
  ASSUME IndInv, CtlInv', job' = job, dev' = dev, out' = out, did' = did,
         cur' \in CurRecords,
         cur'.realm = cur.realm, cur'.start = cur.start, cur'.n = cur.n,
         cur'.left = cur.left, cur'.rdom = cur.rdom, cur'.rstart = cur.rstart,
         cur'.rn = cur.rn,
         job.kind /= "tool" => /\ cur'.zsrc = cur.zsrc
                               /\ pc' \in {"start", "count", "fetch", "exit"}
                               /\ pc' \in {"count", "fetch"} => pc \in {"count", "fetch"},
         pc' \notin {"start", "exit"} => pc \notin {"start", "exit"},
         pc' \in {"decide", "fsnoz", "reset", "count", "fetch"} =>
           pc \in {"decide", "fsnoz", "reset", "count", "fetch"},
         active' \in [Realms -> Domains], filled' \subseteq Realms, pc' \in Pcs,
         nr' \in Nat, ret' \in Int, amiss' \in BOOLEAN, changes' \in 0..MaxChanges
  PROVE  IndInv'
<1>1. Placed' /\ Found'
  BY StaysPlaced
<1>2. TypeOK'
  BY DEF IndInv, TypeOK, CurRecords, Pcs
<1>3. RecordsFromReply'
  BY DEF IndInv, RecordsFromReply
<1> QED BY <1>1, <1>2, <1>3 DEF IndInv

LEMMA IndTypes ==
  ASSUME IndInv
  PROVE  /\ active \in [Realms -> Domains] /\ filled \subseteq Realms /\ job \in Jobs
         /\ pc \in Pcs /\ cur \in CurRecords /\ nr \in Nat /\ ret \in Int
         /\ out \in [nr : Nat, real : Nat, room : Nat]
         /\ did \subseteq Realms /\ amiss \in BOOLEAN /\ changes \in 0..MaxChanges
         /\ MaxChanges \in Nat /\ CdbMax \in Nat /\ NrRealms \in Nat /\ dev.slots \in Nat
         /\ CtlInv /\ TypeOK /\ Placed /\ Found /\ RecordsFromReply
<1>1. dev \in Devices
  BY DEF IndInv, CtlInv, CtlTypeOK
<1>2. dev.slots \in Nat /\ MaxChanges \in Nat /\ CdbMax \in Nat /\ NrRealms \in Nat
  BY <1>1, ActivationAssumption
<1> QED BY <1>2 DEF IndInv, TypeOK, CurRecords, Pcs

LEMMA RecordsNatural ==
  ASSUME IndInv
  PROVE  NrRecords \in Nat /\ Targets \subseteq Realms
<1>1. Targets \subseteq Realms
  BY DEF Targets, Covered
<1>2. IsFiniteSet(Realms)
  BY IndTypes, IntervalSize DEF Realms
<1>3. Moves \subseteq Realms
  BY <1>1 DEF Moves
<1>4. IsFiniteSet(Moves)
  BY <1>2, <1>3, FS_Subset
<1>5. Cardinality(Moves) \in Nat
  BY <1>4, FS_CardinalityType
<1> QED BY <1>1, <1>5 DEF NrRecords

\* The program gives up.
LEMMA ExitInv ==
  ASSUME IndInv, NEW status \in Int, Exit(status), nr' \in Nat,
         UNCHANGED <<ctlvars, active, filled, job, cur, out, did, amiss, changes>>
  PROVE  IndInv'
<1>1. CtlInv'
  BY CtlSame DEF IndInv
<1>2. dev' = dev /\ pc' = "exit" /\ ret' \in Int /\ pc' \in Pcs
  BY DEF ctlvars, Exit, Pcs
<1> QED BY <1>1, <1>2, IndTypes, SimpleStep

LEMMA InitInv == Init => IndInv
<1> SUFFICES ASSUME Init PROVE IndInv
  OBVIOUS
<1>1. CtlInv
  BY CtlInitInv DEF Init
<1>2. /\ NrRealms \in Nat /\ MaxChanges \in Nat /\ SeqDomain \in Domains
      /\ job \in Jobs /\ job.fsnoz \in BOOLEAN
  BY ActivationAssumption, JobTypes DEF Init
<1>3. cur \in CurRecords
  BY <1>2 DEF Init, CurRecords
<1>4. TypeOK
  <2>1. active \in [Realms -> Domains] /\ filled = {} /\ pc = "start" /\ nr = 0 /\ ret = 0
        /\ did = {} /\ changes = 0
        /\ out = [nr |-> 0, real |-> 0, room |-> 0]
    BY DEF Init
  <2>2. changes \in 0..MaxChanges /\ out \in [nr : Nat, real : Nat, room : Nat]
    BY <1>2, <2>1
  <2>3. amiss \in BOOLEAN /\ filled \subseteq Realms /\ did \subseteq Realms
    BY DEF Init
  <2>4. 0 \in Nat /\ 0 \in Int
    OBVIOUS
  <2> QED BY <1>2, <1>3, <2>1, <2>2, <2>3, <2>4, Zenon DEF TypeOK, CurRecords
<1>5. pc = "start" /\ out.nr = 0 /\ out.real = 0 /\ out.room = 0
  BY DEF Init
<1>6. Placed /\ Found /\ RecordsFromReply
  BY <1>5 DEF Placed, Found, RecordsFromReply
<1> QED BY <1>1, <1>4, <1>6 DEF IndInv

\* Steps of others.
LEMMA OthersInv ==
  ASSUME IndInv,
         \/ (ToolStep \/ \E p \in Progs : CtlStep(p)) /\ UNCHANGED actvars
         \/ \E r \in Realms : Write(r) \/ \E d \in Domains : ActivateOther(r, d)
         \/ UNCHANGED vars
  PROVE  IndInv'
<1>1. CASE (ToolStep \/ \E p \in Progs : CtlStep(p)) /\ UNCHANGED actvars
  <2>1. CtlInv'
    BY <1>1, ToolStepInv, CtlStepInv DEF IndInv
  <2>2. dev' = dev
    <3>1. CASE ToolStep
      BY <3>1 DEF ToolStep, ToolStart, ToolNotZdr, ToolSet, ToolReadBack, ToolEnds
    <3>2. CASE \E p \in Progs : CtlStep(p)
      BY <3>2 DEF CtlStep, ReadPage, ReadFails, SelectPage, SelectFails, FeatureSkip,
                  FeatureUnsupported, FeatureSet, FeatureFails
    <3> QED BY <1>1, <3>1, <3>2
  <2>3. /\ active' = active /\ filled' = filled /\ job' = job /\ pc' = pc /\ cur' = cur
        /\ nr' = nr /\ out' = out /\ ret' = ret /\ did' = did /\ amiss' = amiss
        /\ changes' = changes
    BY <1>1 DEF actvars
  <2>4. job.kind /= "tool" => pc \in {"start", "count", "fetch", "exit"}
    BY DEF IndInv, Placed
  <2> QED BY <2>1, <2>2, <2>3, <2>4, IndTypes, SimpleStep
<1>2. CASE \E r \in Realms : Write(r) \/ \E d \in Domains : ActivateOther(r, d)
  <2>1. PICK r \in Realms : Write(r) \/ \E d \in Domains : ActivateOther(r, d)
    BY <1>2
  <2>2. /\ UNCHANGED ctlvars /\ job' = job /\ pc' = pc /\ cur' = cur
        /\ nr' = nr /\ out' = out /\ ret' = ret /\ did' = did /\ amiss' = amiss
        /\ changes' = changes + 1 /\ changes < MaxChanges
    BY <2>1 DEF Write, ActivateOther
  <2>3. active' \in [Realms -> Domains] /\ filled' \subseteq Realms
    <3>1. active \in [Realms -> Domains] /\ filled \subseteq Realms
      BY IndTypes
    <3> QED BY <2>1, <3>1 DEF Write, ActivateOther
  <2>4. CtlInv' /\ dev' = dev
    BY <2>2, CtlSame DEF IndInv, ctlvars
  <2>5. changes' \in 0..MaxChanges
    BY <2>2, IndTypes
  <2>6. job.kind /= "tool" => pc \in {"start", "count", "fetch", "exit"}
    BY DEF IndInv, Placed
  <2> QED BY <2>2, <2>3, <2>4, <2>5, <2>6, IndTypes, SimpleStep
<1>3. CASE UNCHANGED vars
  <2>1. /\ UNCHANGED ctlvars
        /\ active' = active /\ filled' = filled /\ job' = job /\ pc' = pc /\ cur' = cur
        /\ nr' = nr /\ out' = out /\ ret' = ret /\ did' = did /\ amiss' = amiss
        /\ changes' = changes
    BY <1>3 DEF vars, actvars
  <2>2. CtlInv' /\ dev' = dev
    BY <2>1, CtlSame DEF IndInv, ctlvars
  <2>3. job.kind /= "tool" => pc \in {"start", "count", "fetch", "exit"}
    BY DEF IndInv, Placed
  <2> QED BY <2>1, <2>2, <2>3, IndTypes, SimpleStep
<1> QED BY <1>1, <1>2, <1>3

\* The steps from FSNOZ to the count of records.
LEMMA MiddleInv ==
  ASSUME IndInv,
         SetFsnoz \/ FsnozInCdb \/ FsnozSet \/ NoReset \/ ResetOk \/ ResetFails \/ CountOk
  PROVE  IndInv'
<1>1. /\ IndInv /\ cur \in CurRecords /\ active \in [Realms -> Domains] /\ filled \subseteq Realms
      /\ nr \in Nat /\ ret \in Int /\ amiss \in BOOLEAN /\ changes \in 0..MaxChanges
      /\ job \in Jobs /\ CtlInv /\ Placed
  BY IndTypes
<1>2. job.kind /= "tool" => pc \in {"start", "count", "fetch", "exit"}
  BY <1>1 DEF Placed
<1>3. CASE SetFsnoz
  <2>1. /\ pc = "decide" /\ CtlCall(ActProg, [Ones EXCEPT !["fsnoz"] = cur.n], TRUE)
        /\ cur' = [cur EXCEPT !.fsnoz = TRUE] /\ pc' = "fsnoz"
        /\ dev' = dev /\ ctl' = ctl /\ tool' = tool /\ others' = others
        /\ UNCHANGED <<active, filled, job, nr, out, ret, did, amiss, changes>>
    BY <1>3 DEF SetFsnoz
  <2>2. CtlInv'
    <3> DEFINE want == [Ones EXCEPT !["fsnoz"] = cur.n]
    <3>1. want \in [Fields -> Nat] /\ ActProg \in Progs /\ CtlProg \in Progs \ {ActProg}
          /\ TRUE \in BOOLEAN
      BY <1>1, CurTypes, ControlAssumption, ActivationAssumption
    <3> HIDE DEF want
    <3>2. CtlCall(ActProg, want, TRUE)
      BY <2>1 DEF want
    <3>3. tool' \in ToolRecords
      BY <1>1, <2>1 DEF CtlInv, CtlTypeOK, ToolRecords
    <3>4. /\ CtlTypeOK' /\ PageKept' /\ CallsMade'
          /\ \A q \in Progs \ {ActProg} : cc'[q] = cc[q] /\ wrote'[q] = wrote[q]
      BY <1>1, <2>1, <3>1, <3>2, <3>3, CallBegins
    <3>5. cc'[CtlProg] = cc[CtlProg] /\ wrote'[CtlProg] = wrote[CtlProg]
      BY <3>1, <3>4
    <3>6. ToolCalls' /\ ControlHonest'
      BY <1>1, <2>1, <3>5 DEF CtlInv, ToolCalls, ControlHonest, Brought, Want
    <3> QED BY <3>4, <3>6 DEF CtlInv
  <2>3. /\ cur' \in CurRecords /\ cur'.realm = cur.realm /\ cur'.start = cur.start
        /\ cur'.n = cur.n /\ cur'.left = cur.left /\ cur'.rdom = cur.rdom
        /\ cur'.rstart = cur.rstart /\ cur'.rn = cur.rn
    BY <1>1, <2>1 DEF CurRecords
  <2>4. pc' \in Pcs
    BY <2>1 DEF Pcs
  <2> QED BY <1>1, <1>2, <2>1, <2>2, <2>3, <2>4, SimpleStep
<1>4. CASE ~SetFsnoz
  <2>1. CtlInv' /\ dev' = dev
    <3>1. UNCHANGED ctlvars
      BY <1>4 DEF FsnozInCdb, FsnozSet, NoReset, ResetOk, ResetFails, CountOk
    <3> QED BY <1>1, <3>1, CtlSame DEF ctlvars
  <2>2. job' = job /\ out' = out /\ did' = did /\ active' = active /\ amiss' = amiss
        /\ changes' = changes
    BY <1>4 DEF FsnozInCdb, FsnozSet, NoReset, ResetOk, ResetFails, CountOk
  <2>3. CASE FsnozInCdb
    <3>1. /\ pc = "decide" /\ cur' = [cur EXCEPT !.fsnoz = FALSE, !.zsrc = TRUE]
          /\ pc' = "reset" /\ filled' = filled /\ nr' = nr /\ ret' = ret
      BY <2>3 DEF FsnozInCdb
    <3>2. /\ cur' \in CurRecords /\ cur'.realm = cur.realm /\ cur'.start = cur.start
          /\ cur'.n = cur.n /\ cur'.left = cur.left /\ cur'.rdom = cur.rdom
          /\ cur'.rstart = cur.rstart /\ cur'.rn = cur.rn
      BY <1>1, <3>1 DEF CurRecords
    <3>3. pc' \in Pcs
      BY <3>1 DEF Pcs
    <3> QED BY <1>1, <1>2, <2>1, <2>2, <3>1, <3>2, <3>3, SimpleStep
  <2>4. CASE FsnozSet
    <3>1. /\ pc = "fsnoz" /\ cur' = [cur EXCEPT !.zsrc = FALSE]
          /\ pc' \in {"reset", "exit"} /\ filled' = filled /\ nr' = nr /\ ret' \in {ret, 1}
      BY <2>4 DEF FsnozSet, Exit
    <3>2. /\ cur' \in CurRecords /\ cur'.realm = cur.realm /\ cur'.start = cur.start
          /\ cur'.n = cur.n /\ cur'.left = cur.left /\ cur'.rdom = cur.rdom
          /\ cur'.rstart = cur.rstart /\ cur'.rn = cur.rn
      BY <1>1, <3>1 DEF CurRecords
    <3>3. pc' \in Pcs /\ ret' \in Int
      BY <1>1, <3>1 DEF Pcs
    <3> QED BY <1>1, <1>2, <2>1, <2>2, <3>1, <3>2, <3>3, SimpleStep
  <2>5. CASE NoReset \/ ResetOk \/ ResetFails
    <3>1. /\ pc = "reset" /\ cur' = cur /\ pc' = "count" /\ nr' = nr /\ ret' = ret
      BY <2>5 DEF NoReset, ResetOk, ResetFails
    <3>2. filled' \subseteq Realms
      BY <1>1, <2>5 DEF NoReset, ResetOk, ResetFails
    <3>3. pc' \in Pcs
      BY <3>1 DEF Pcs
    <3> QED BY <1>1, <1>2, <2>1, <2>2, <3>1, <3>2, <3>3, SimpleStep
  <2>6. CASE CountOk
    <3>1. /\ pc = "count" /\ cur' = cur /\ pc' = "fetch" /\ filled' = filled /\ ret' = ret
          /\ nr' = NrRecords
      BY <2>6 DEF CountOk
    <3>2. NrRecords \in Nat
      BY <1>1, RecordsNatural
    <3>3. pc' \in Pcs
      BY <3>1 DEF Pcs
    <3> QED BY <1>1, <1>2, <2>1, <2>2, <3>1, <3>2, <3>3, SimpleStep
  <2> QED BY <1>4, <2>3, <2>4, <2>5, <2>6
<1> QED BY <1>3, <1>4

LEMMA ListDomainsInv ==
  ASSUME IndInv, ListDomains
  PROVE  IndInv'
<1>1. /\ pc = "start" /\ job.kind = "tool" /\ job.dom \in Domains
      /\ cur' = [cur EXCEPT !.realm = job.start, !.start = job.start,
                            !.n = IF OneByOne THEN 1 ELSE job.nr,
                            !.left = IF OneByOne THEN job.nr ELSE 1]
      /\ pc' \in {"realms", "exit"} /\ ret' = 0 /\ (pc' = "realms" => ~(OneByOne /\ job.nr = 0))
      /\ UNCHANGED <<ctlvars, active, filled, job, nr, out, did, amiss, changes>>
  BY DEF ListDomains, Exit
<1>2. cur \in CurRecords /\ job.start \in Nat /\ job.nr \in Nat
  BY IndTypes, JobTypes
<1>3. /\ cur' \in CurRecords /\ cur'.realm = job.start /\ cur'.start = job.start
      /\ OneByOne => cur'.left = job.nr
      /\ ~OneByOne => cur'.left = 1 /\ cur'.n = job.nr
  BY <1>1, <1>2 DEF CurRecords
<1>4. CtlInv' /\ dev' = dev
  BY <1>1, CtlSame DEF IndInv, ctlvars
<1>5. ByRealm' = ByRealm /\ OneByOne' = OneByOne /\ (OneByOne => ByRealm)
  BY <1>1, <1>4 DEF ByRealm, OneByOne
<1>6. OneByOne /\ pc' = "realms" => job.nr > 0
  BY <1>1, <1>2
<1>7. job.start >= job.start
  BY <1>2
<1>8. Placed'
  BY <1>1, <1>3, <1>5, <1>6, <1>7 DEF Placed
<1>9. Found' /\ RecordsFromReply'
  BY <1>1, <1>4 DEF Found, IndInv, RecordsFromReply
<1>10. TypeOK'
  BY <1>1, <1>3 DEF IndInv, TypeOK, CurRecords
<1> QED BY <1>4, <1>8, <1>9, <1>10 DEF IndInv

LEMMA CallLibraryInv ==
  ASSUME IndInv, CallLibrary
  PROVE  IndInv'
<1>1. /\ pc = "start" /\ job.kind /= "tool"
      /\ cur' = [cur EXCEPT !.start = job.start, !.n = job.nr, !.zsrc = job.zsrc]
      /\ nr' = job.recs /\ pc' \in {"count", "fetch"}
      /\ UNCHANGED <<ctlvars, active, filled, job, out, ret, did, amiss, changes>>
  BY DEF CallLibrary
<1>2. cur \in CurRecords /\ job.start \in Nat /\ job.nr \in Nat /\ job.zsrc \in BOOLEAN
      /\ job.recs \in Nat
  BY IndTypes, JobTypes
<1>3. /\ cur' \in CurRecords /\ cur'.start = job.start /\ cur'.n = job.nr
      /\ cur'.zsrc = job.zsrc
  BY <1>1, <1>2 DEF CurRecords
<1>4. CtlInv' /\ dev' = dev
  BY <1>1, CtlSame DEF IndInv, ctlvars
<1>5. Placed' /\ Found'
  BY <1>1, <1>3 DEF Placed, Found
<1>6. RecordsFromReply'
  BY <1>1, <1>4 DEF IndInv, RecordsFromReply
<1>7. TypeOK'
  BY <1>1, <1>2, <1>3 DEF IndInv, TypeOK, CurRecords
<1> QED BY <1>4, <1>5, <1>6, <1>7 DEF IndInv

LEMMA FindZonesInv ==
  ASSUME IndInv, FindZones
  PROVE  IndInv'
<1>1. /\ pc = "realms" /\ pc' = "decide"
      /\ UNCHANGED <<ctlvars, active, filled, job, nr, out, ret, did, amiss, changes>>
  BY DEF FindZones
<1>2. /\ cur \in CurRecords /\ TypeOK /\ Placed /\ job \in Jobs
      /\ active \in [Realms -> Domains]
  BY IndTypes
<1>3. job.kind = "tool" /\ job.dom \in Domains
  BY <1>1, <1>2 DEF Placed
<1>4. CtlInv' /\ dev' = dev
  BY <1>1, CtlSame DEF IndInv, ctlvars
<1>5. ByRealm' = ByRealm /\ OneByOne' = OneByOne
  BY <1>1, <1>4 DEF ByRealm, OneByOne
<1>6. RecordsFromReply'
  BY <1>1, <1>4 DEF IndInv, RecordsFromReply
<1>7. CASE ByRealm
  <2>1. /\ \A r \in Chunk : r <= NrRealms
        /\ Supports(cur.realm, job.dom) /\ NrUnits > 0
        /\ cur' = [cur EXCEPT !.start = First(job.dom, cur.realm), !.n = NrUnits,
                       !.rdom = active[cur.realm],
                       !.rstart = First(active[cur.realm], cur.realm),
                       !.rn = ResetZones(active[cur.realm])]
    BY <1>7 DEF FindZones
  <2>2. Chunk \subseteq Realms /\ Chunk # {}
    <3>1. PICK b \in Int : Chunk = cur.realm..b /\ cur.realm \in Nat \ {0}
      BY <1>1, <1>2, <1>3, <1>7, ChunkInside
    <3>2. Chunk \subseteq Realms
      BY <2>1, <3>1, IndTypes DEF Realms
    <3>3. Chunk # {}
      <4>1. SUFFICES ASSUME Chunk = {} PROVE FALSE
        OBVIOUS
      <4>2. NrUnits = 0
        BY <4>1, <1>3, EmptySum DEF NrUnits
      <4> QED BY <2>1, <4>2
    <3> QED BY <3>2, <3>3
  <2>3. cur.realm \in Realms /\ cur.realm \in Chunk
        /\ First(job.dom, cur.realm) \in Nat /\ NrUnits \in Nat
    BY <1>1, <1>2, <1>3, <1>7, <2>2, FoundCovers DEF NrUnits
  <2> DEFINE a == active[cur.realm]
  <2>4. a \in Domains
    BY <1>2, <2>3
  <2> HIDE DEF a
  <2>5. First(a, cur.realm) \in Nat /\ ResetZones(a) \in Nat
    BY <1>1, <1>2, <1>3, <1>7, <2>2, <2>4, FoundCovers DEF ResetZones
  <2>6. cur' = [cur EXCEPT !.start = First(job.dom, cur.realm), !.n = NrUnits,
                  !.rdom = a, !.rstart = First(a, cur.realm), !.rn = ResetZones(a)]
    BY <2>1 DEF a
  <2> DEFINE u == NrUnits
             z == ResetZones(a)
             fj == First(job.dom, cur.realm)
             fa == First(a, cur.realm)
  <2>7. /\ u \in Nat /\ z \in Nat /\ fj \in Nat /\ fa \in Nat
        /\ cur' = [cur EXCEPT !.start = fj, !.n = u, !.rdom = a, !.rstart = fa, !.rn = z]
    BY <2>3, <2>5, <2>6
  <2> HIDE DEF u, z, fj, fa
  <2>8. /\ cur' \in CurRecords /\ cur'.realm = cur.realm /\ cur'.left = cur.left
        /\ cur'.start = fj /\ cur'.n = u /\ cur'.rdom = a /\ cur'.rstart = fa /\ cur'.rn = z
    BY <1>2, <2>4, <2>7 DEF CurRecords
  <2>9. Chunk' = Chunk
    BY <1>1, <1>5, <2>8 DEF Chunk
  <2>10. Placed'
    BY <1>1, <1>2, <1>3, <1>5, <1>7, <2>8 DEF Placed
  <2>11. NrUnits' = NrUnits /\ ResetZones(cur.rdom)' = ResetZones(a)
    BY <1>1, <2>8, <2>9 DEF NrUnits, ResetZones
  <2>12. Found'
    BY <1>1, <2>1, <2>2, <2>3, <2>8, <2>9, <2>11 DEF Found, u, z, fj, fa
  <2>13. TypeOK'
    BY <1>1, <2>8 DEF IndInv, TypeOK, CurRecords
  <2> QED BY <1>4, <1>6, <2>10, <2>12, <2>13 DEF IndInv
<1>8. CASE ~ByRealm
  <2>1. cur' = cur
    BY <1>8 DEF FindZones
  <2>2. Placed'
    BY <1>1, <1>2, <1>5, <2>1 DEF Placed
  <2>3. Found'
    BY <1>5, <1>8 DEF Found
  <2>4. TypeOK'
    BY <1>1, <2>1 DEF IndInv, TypeOK
  <2> QED BY <1>4, <1>6, <2>2, <2>3, <2>4 DEF IndInv
<1> QED BY <1>7, <1>8

\* What follows the command: the next realm, or the end.
LEMMA ProceedFacts ==
  ASSUME IndInv, pc = "fetch", NEW value \in Int, Proceed(value), job' = job, dev' = dev
  PROVE  /\ cur' \in CurRecords /\ pc' \in {"exit", "realms"} /\ ret' \in Int
         /\ Placed' /\ Found'
         /\ pc' = "exit" => cur' = cur
         /\ pc' = "exit" /\ ret' = 0 => value = 0 /\ (job.kind = "tool" => cur.left = 1)
         /\ pc' = "realms" => /\ job.kind = "tool" /\ value = 0 /\ OneByOne
                              /\ cur'.realm = cur.realm + 1
<1>1. cur \in CurRecords /\ cur.left \in Nat /\ cur.realm \in Nat /\ Placed /\ job \in Jobs
  BY IndTypes, CurTypes
<1>2. ByRealm' = ByRealm /\ OneByOne' = OneByOne
  BY DEF ByRealm, OneByOne
<1>3. CASE job.kind /= "tool" \/ value /= 0
  <2>1. /\ pc' = "exit" /\ cur' = cur
        /\ ret' = IF job.kind = "tool" /\ value /= 0 THEN 1 ELSE value
    BY <1>3 DEF Proceed, Exit
  <2>2. ret' \in Int /\ (ret' = 0 => value = 0 /\ job.kind /= "tool")
    BY <1>3, <2>1
  <2>3. Placed' /\ Found'
    BY <2>1 DEF Placed, Found
  <2> QED BY <1>1, <2>1, <2>2, <2>3
<1>4. CASE job.kind = "tool" /\ value = 0 /\ cur.left = 1
  <2>1. pc' = "exit" /\ cur' = cur /\ ret' = 0
    BY <1>4 DEF Proceed, Exit, NextRealm
  <2>2. Placed' /\ Found'
    BY <2>1 DEF Placed, Found
  <2> QED BY <1>1, <1>4, <2>1, <2>2
<1>5. CASE job.kind = "tool" /\ value = 0 /\ cur.left /= 1
  <2>1. pc' = "realms" /\ ret' = 0 /\ cur' = [cur EXCEPT !.realm = @ + 1, !.left = @ - 1]
    BY <1>5 DEF Proceed, NextRealm, Again
  <2>2. /\ OneByOne /\ cur.left > 0 /\ cur.realm >= job.start /\ job.dom \in Domains
        /\ cur.realm + cur.left = job.start + job.nr
        /\ (~ByRealm => cur.start = job.start /\ cur.n = job.nr)
    BY <1>1, <1>5 DEF Placed
  <2>3. cur.left - 1 \in Nat /\ cur.realm + 1 \in Nat /\ cur.left - 1 > 0
    BY <1>1, <1>5, <2>2
  <2>4. /\ cur' \in CurRecords /\ cur'.realm = cur.realm + 1 /\ cur'.left = cur.left - 1
        /\ cur'.start = cur.start /\ cur'.n = cur.n
    BY <1>1, <2>1, <2>3 DEF CurRecords
  <2>5. job.start \in Nat /\ job.nr \in Nat
    BY <1>1, JobTypes
  <2>6. cur'.realm >= job.start /\ cur'.left > 0 /\ cur'.realm + cur'.left = job.start + job.nr
    BY <1>1, <2>2, <2>3, <2>4, <2>5
  <2>7. Placed'
    BY <1>2, <1>5, <2>1, <2>2, <2>4, <2>6 DEF Placed
  <2>8. Found'
    BY <2>1 DEF Found
  <2> QED BY <1>5, <2>1, <2>2, <2>4, <2>7, <2>8
<1> QED BY <1>3, <1>4, <1>5

LEMMA FetchInv ==
  ASSUME IndInv, Fetch
  PROVE  IndInv'
<1> DEFINE value == Sent(Query)
           done  == ~Query /\ value = 0
<1>1. /\ pc = "fetch" /\ UNCHANGED <<ctlvars, filled, job, changes>> /\ amiss' = Mark
      /\ Proceed(value)
      /\ active' = IF done THEN [r \in Realms |-> IF r \in Targets THEN job.dom ELSE active[r]]
                   ELSE active
      /\ did' = IF done THEN did \cup Targets ELSE did
  BY DEF Fetch
<1>2. PICK inReply \in 0..dev.slots, total \in {NrRecords, 0} :
        /\ nr' = IF WithRecords THEN Delivered(total, nr, inReply) ELSE total
        /\ out' = IF WithRecords
                  THEN [nr |-> nr', real |-> Least(Least(total, dev.slots), inReply),
                        room |-> nr]
                  ELSE out
  BY DEF Fetch
<1>3. value \in Int
  BY DEF Sent, EIO
<1> HIDE DEF value, done
<1>4. CtlInv' /\ dev' = dev /\ job' = job /\ filled' = filled /\ changes' = changes
  BY <1>1, CtlSame DEF IndInv, ctlvars
<1>5. cur' \in CurRecords /\ pc' \in {"exit", "realms"} /\ ret' \in Int /\ Placed' /\ Found'
  BY <1>1, <1>3, <1>4, ProceedFacts
<1>6. /\ active \in [Realms -> Domains] /\ filled \subseteq Realms /\ job \in Jobs
      /\ nr \in Nat /\ did \subseteq Realms /\ amiss \in BOOLEAN /\ changes \in 0..MaxChanges
      /\ dev.slots \in Nat /\ Placed /\ out \in [nr : Nat, real : Nat, room : Nat]
      /\ RecordsFromReply
  BY IndTypes
<1>7. job.dom \in Domains
  BY <1>1, <1>6, JobTypes DEF Placed
<1>8. active' \in [Realms -> Domains] /\ did' \subseteq Realms
  <2>1. Targets \subseteq Realms
    BY RecordsNatural
  <2> QED BY <1>1, <1>6, <1>7, <2>1
<1>9. amiss' \in BOOLEAN
  BY <1>1, <1>6 DEF Mark
<1>10. total \in Nat /\ inReply \in Nat /\ inReply <= dev.slots
  BY <1>6, RecordsNatural
<1>11. nr' \in Nat /\ out' \in [nr : Nat, real : Nat, room : Nat] /\ RecordsFromReply'
  <2> DEFINE real == Least(Least(total, dev.slots), inReply)
             given == Delivered(total, nr, inReply)
  <2>1. real \in Nat /\ given \in Nat /\ given <= nr
    BY <1>6, <1>10 DEF Delivered, Least
  <2>2. dev.drv = "scsi" => given <= real
    BY <1>6, <1>10 DEF Delivered, Least
  <2>3. /\ nr' = IF WithRecords THEN given ELSE total
        /\ out' = IF WithRecords THEN [nr |-> nr', real |-> real, room |-> nr] ELSE out
    BY <1>2
  <2> HIDE DEF real, given
  <2>4. nr' \in Nat
    BY <1>10, <2>1, <2>3
  <2>5. CASE WithRecords
    <3>1. out' = [nr |-> given, real |-> real, room |-> nr]
      BY <2>3, <2>5
    <3>2. out' \in [nr : Nat, real : Nat, room : Nat]
      BY <1>6, <2>1, <3>1
    <3>3. RecordsFromReply'
      BY <1>4, <2>1, <2>2, <3>1 DEF RecordsFromReply
    <3> QED BY <2>4, <3>2, <3>3
  <2>6. CASE ~WithRecords
    BY <1>4, <1>6, <2>3, <2>4, <2>6 DEF RecordsFromReply
  <2> QED BY <2>5, <2>6
<1>12. TypeOK'
  BY <1>4, <1>5, <1>6, <1>8, <1>9, <1>11 DEF TypeOK, CurRecords
<1> QED BY <1>4, <1>5, <1>11, <1>12 DEF IndInv

LEMMA GivesUpInv ==
  ASSUME IndInv,
         ListDomainsFails \/ FindZonesFails \/ FsnozUnsupported \/ CountFails \/ FetchFails
  PROVE  IndInv' /\ pc' = "exit" /\ ret' # 0 /\ did' = did /\ job' = job /\ filled' = filled
         /\ UNCHANGED <<ctlvars, amiss, cur>>
<1>1. nr \in Nat /\ EIO \in Int \ {0} /\ EINVAL \in Int \ {0} /\ ENOTSUP \in Int \ {0}
      /\ ENOMEM \in Int \ {0}
  BY IndTypes DEF EIO, EINVAL, ENOTSUP, ENOMEM
<1>2. \A given : NotSent(given) \in Int
  BY <1>1 DEF NotSent
<1>3. CASE ListDomainsFails \/ FindZonesFails \/ FsnozUnsupported
  <2>1. /\ Exit(1) /\ nr' = nr
        /\ UNCHANGED <<ctlvars, active, filled, job, cur, out, did, amiss, changes>>
    BY <1>3 DEF ListDomainsFails, FindZonesFails, FsnozUnsupported
  <2> QED BY <1>1, <2>1, ExitInv DEF Exit
<1>4. CASE CountFails
  <2>1. PICK e \in {NotSent(0), EIO, ENOMEM} \ {0} : Exit(IF job.kind = "tool" THEN 1 ELSE e)
    BY <1>4 DEF CountFails
  <2>2. e \in Int \ {0}
    BY <1>1, <1>2, <2>1
  <2>3. PICK v \in Int \ {0} : Exit(v)
    BY <2>1, <2>2
  <2>4. nr' = nr /\ UNCHANGED <<ctlvars, active, filled, job, cur, out, did, amiss, changes>>
    BY <1>4 DEF CountFails
  <2> QED BY <1>1, <2>3, <2>4, ExitInv DEF Exit
<1>5. CASE FetchFails
  <2>1. PICK e \in {NotSent(nr), EIO} \ {0} : Proceed(e)
    BY <1>5 DEF FetchFails
  <2>2. e \in Int \ {0}
    BY <1>1, <1>2, <2>1
  <2>3. Exit(IF job.kind = "tool" THEN 1 ELSE e) /\ cur' = cur
    BY <2>1, <2>2 DEF Proceed
  <2>4. PICK v \in Int \ {0} : Exit(v)
    BY <2>2, <2>3
  <2>5. /\ nr' = IF NotSent(nr) = 0 THEN 0 ELSE nr
        /\ UNCHANGED <<ctlvars, active, filled, job, out, did, amiss, changes>>
    BY <1>5 DEF FetchFails
  <2>6. nr' \in Nat
    BY <1>1, <2>5
  <2> QED BY <2>3, <2>4, <2>5, <2>6, ExitInv DEF Exit
<1> QED BY <1>3, <1>4, <1>5

LEMMA StepInv ==
  ASSUME IndInv, [Next]_vars
  PROVE  IndInv'
<1>1. CASE ActStep
  BY <1>1, ListDomainsInv, FindZonesInv, MiddleInv, CallLibraryInv, FetchInv, GivesUpInv
     DEF ActStep
<1>2. CASE \/ (ToolStep \/ \E p \in Progs : CtlStep(p)) /\ UNCHANGED actvars
           \/ \E r \in Realms : Write(r) \/ \E d \in Domains : ActivateOther(r, d)
           \/ UNCHANGED vars
  BY <1>2, OthersInv
<1> QED BY <1>1, <1>2 DEF Next, Quiet

-----------------------------------------------------------------------------
(***************************************************************************)
(* Theorems that need no hypothesis.                                       *)
(***************************************************************************)
LEMMA Invariant == Spec => []IndInv
<1>1. Init => IndInv
  BY InitInv
<1>2. IndInv /\ [Next]_vars => IndInv'
  BY StepInv
<1> QED BY <1>1, <1>2, PTL DEF Spec

\* zbc_dev_control exits with 0 only if every setting that the user asked for
\* has been brought to the device, whatever the other programs do between its
\* control calls (zbc_dev_control.c, zbc_scsi_dev_control,
\* zbc_ata_dev_control).
THEOREM ControlTheorem == Spec => []ControlHonest
<1>1. IndInv => ControlHonest
  BY DEF IndInv, CtlInv
<1> QED BY <1>1, Invariant, PTL

\* The records that zbc_zone_activate and zbc_zone_query give to the caller
\* fit its array, and those of the SCSI driver were all in the reply.
THEOREM RecordsTheorem == Spec => []RecordsFromReply
<1>1. IndInv => RecordsFromReply
  BY DEF IndInv
<1> QED BY <1>1, Invariant, PTL

LEMMA KeptStep ==
  ASSUME IndInv, [Next]_vars, NEW p \in Progs, cc'[p] /= cc[p],
         NEW f \in Fields, ctl'[f] /= ctl[f]
  PROVE  f \in Wanted(p) \/ (dev.drv = "scsi" /\ f \in others[p])
<1>1. ctl' # ctl
  OBVIOUS
<1>2. CtlTypeOK /\ PageKept /\ cc \in [Progs -> CallRecords] /\ ctl \in [Fields -> Nat]
  BY DEF IndInv, CtlInv, CtlTypeOK, CallRecords
<1>3. PICK q \in Progs : CtlStep(q)
  <2>1. CASE ActStep
    <3>1. ctl' = ctl
      BY <2>1 DEF ActStep, ListDomains, ListDomainsFails, FindZones, FindZonesFails, SetFsnoz,
           FsnozUnsupported, FsnozInCdb, FsnozSet, NoReset, ResetOk, ResetFails, CountOk,
           CountFails, CallLibrary, Fetch, FetchFails, ctlvars
    <3> QED BY <1>1, <3>1
  <2>2. CASE ToolStep
    BY <1>1, <2>2 DEF ToolStep, ToolStart, ToolNotZdr, ToolSet, ToolReadBack, ToolEnds
  <2>3. CASE \E r \in Realms : Write(r) \/ \E d \in Domains : ActivateOther(r, d)
    BY <1>1, <2>3 DEF Write, ActivateOther, ctlvars
  <2>4. CASE UNCHANGED vars
    BY <1>1, <2>4 DEF vars, ctlvars
  <2> QED BY <2>1, <2>2, <2>3, <2>4 DEF Next, Quiet
<1>4. SelectPage(q) \/ FeatureSet(q)
  BY <1>1, <1>3 DEF CtlStep, ReadPage, ReadFails, SelectFails, FeatureSkip,
     FeatureUnsupported, FeatureFails
<1>5. q = p
  BY <1>2, <1>4 DEF SelectPage, FeatureSet, CtlReturn
<1>6. CASE SelectPage(p)
  <2>1. cc[p].st = "select" /\ ctl' = NewPage(p)
    BY <1>6 DEF SelectPage
  <2>2. ctl'[f] = IF f = "maxact" /\ dev.page = "min" THEN ctl[f]
                  ELSE IF f \in Wanted(p) THEN cc[p].want[f] ELSE cc[p].page[f]
    BY <2>1 DEF NewPage
  <2>3. /\ dev.drv = "scsi"
        /\ f \notin others[p] => cc[p].page[f] = ctl[f] \/ (f = "maxact" /\ dev.page = "min")
    BY <1>2, <2>1 DEF PageKept
  <2> QED BY <2>2, <2>3
<1>7. CASE FeatureSet(p)
  <2> DEFINE g == Order[cc[p].k]
  <2>1. Due(p) /\ ctl' = [ctl EXCEPT ![g] = cc[p].want[g]]
    BY <1>7 DEF FeatureSet
  <2>2. f = g
    BY <1>2, <2>1
  <2> QED BY <2>1, <2>2 DEF Due, Wanted
<1> QED BY <1>4, <1>5, <1>6, <1>7

\* A program's control call changes no setting but those it was asked for,
\* except that the SCSI driver's write of the whole mode page may undo what
\* another program changed after the page was read.
THEOREM KeptTheorem == Spec => ForeignSettingsKept
<1>1. IndInv /\ [Next]_vars =>
        [\A p \in Progs : cc'[p] /= cc[p] =>
           \A f \in Fields : ctl'[f] /= ctl[f] =>
             \/ f \in Wanted(p)
             \/ dev.drv = "scsi" /\ f \in others[p]]_ctlvars
  BY KeptStep
<1> QED BY <1>1, Invariant, PTL DEF Spec, ForeignSettingsKept

LEMMA ResetStep ==
  ASSUME IndInv, [Next]_vars
  PROVE  filled \ filled' \subseteq
           (IF job.all THEN Realms ELSE job.start..(job.start + job.nr - 1))
<1>1. CASE ResetOk \/ ResetFails
  <2>1. /\ pc = "reset" /\ Resets /\ filled \ filled' \subseteq ResetRange
    BY <1>1 DEF ResetOk, ResetFails
  <2>2. filled \subseteq Realms /\ TypeOK /\ Placed /\ Found /\ cur \in CurRecords
    BY IndTypes
  <2>3. CASE job.all
    BY <2>2, <2>3
  <2>4. CASE ~job.all
    <3>1. job.kind = "tool" /\ ByRealm
      BY <2>1, <2>2, <2>4 DEF Placed, Resets, ByRealm
    <3>2. /\ Chunk \subseteq Realms /\ Chunk # {}
          /\ cur.rstart = First(cur.rdom, cur.realm) /\ cur.rn = SumLens(cur.rdom, Chunk)
      BY <2>1, <2>2, <3>1 DEF Found, ResetZones
    <3>3. cur.rdom \in Domains
      BY <2>2, CurTypes
    <3>4. ResetRange \subseteq Chunk
      <4>1. Covered(cur.rdom, First(cur.rdom, cur.realm), SumLens(cur.rdom, Chunk))
              = {r \in Chunk : Lens[cur.rdom][r] > 0}
        BY <2>1, <2>2, <3>1, <3>2, <3>3, FoundCovers
      <4>2. ResetRange = Covered(cur.rdom, cur.rstart, cur.rn)
        BY <2>4 DEF ResetRange
      <4> QED BY <3>2, <4>1, <4>2
    <3>5. Chunk \subseteq job.start..(job.start + job.nr - 1)
      BY <2>1, <2>2, <3>1, ChunkInside
    <3> QED BY <2>1, <2>4, <3>4, <3>5
  <2> QED BY <2>3, <2>4
<1>2. CASE ~(ResetOk \/ ResetFails)
  <2>1. filled \subseteq filled'
    <3>1. CASE ActStep
      BY <1>2, <3>1 DEF ActStep, ListDomains, ListDomainsFails, FindZones, FindZonesFails,
           SetFsnoz, FsnozUnsupported, FsnozInCdb, FsnozSet, NoReset, CountOk,
           CountFails, CallLibrary, Fetch, FetchFails
    <3>2. CASE (ToolStep \/ \E p \in Progs : CtlStep(p)) /\ UNCHANGED actvars
      BY <3>2 DEF actvars
    <3>3. CASE \E r \in Realms : Write(r) \/ \E d \in Domains : ActivateOther(r, d)
      BY <3>3 DEF Write, ActivateOther
    <3>4. CASE UNCHANGED vars
      BY <3>4 DEF vars, actvars
    <3> QED BY <3>1, <3>2, <3>3, <3>4 DEF Next, Quiet
  <2> QED BY <2>1
<1> QED BY <1>1, <1>2

\* The reset before an activation (zbc_zone_activate.c) empties only realms of
\* the range that the user gave, in which domain soever its zones are counted
\* and whatever others activate in the meantime.
THEOREM ResetTheorem == Spec => ResetConfined
<1>1. IndInv /\ [Next]_vars =>
        [filled \ filled' \subseteq
           (IF job.all THEN Realms ELSE job.start..(job.start + job.nr - 1))]_vars
  BY ResetStep
<1> QED BY <1>1, Invariant, PTL DEF Spec, ResetConfined

-----------------------------------------------------------------------------
(***************************************************************************)
(* The number of zones on its way to the command.                          *)
(***************************************************************************)
LEMMA CountFits ==
  ASSUME FitsFsnoz, IndInv, job.kind = "tool", ~job.all,
         pc \in {"decide", "fsnoz", "reset", "count", "fetch"}
  PROVE  cur.n < Ones["fsnoz"]
<1>1. job \in Jobs /\ TypeOK /\ Placed /\ Found /\ job.dom \in Domains
  BY IndTypes DEF Placed
<1>2. CASE ByRealm
  <2>1. Chunk \subseteq Realms /\ Chunk # {} /\ cur.n = SumLens(job.dom, Chunk)
    BY <1>1, <1>2 DEF Found, NrUnits
  <2>2. SumLens(job.dom, Chunk) \in Nat /\ SumLens(job.dom, Chunk) <= SumLens(job.dom, Realms)
    BY <1>1, <1>2, <2>1, FoundCovers
  <2>3. PICK c : Numbered(c, job.dom) /\ SumLens(job.dom, Realms) = c[NrRealms]
    BY <1>1, NumberedExists
  <2>4. SumLens(job.dom, Realms) \in Nat
    <3>1. NrRealms \in 0..NrRealms
      BY IndTypes
    <3> QED BY <2>3, <3>1 DEF Numbered
  <2>5. SumLens(job.dom, Realms) < Ones["fsnoz"] /\ Ones["fsnoz"] \in Nat
    BY <1>1, ControlAssumption DEF FitsFsnoz, Fields
  <2> QED BY <2>1, <2>2, <2>4, <2>5
<1>3. CASE ~ByRealm
  BY <1>1, <1>3 DEF Placed, FitsFsnoz
<1> QED BY <1>2, <1>3

\* What others do to FSNOZ, the program can tell from others[ActProg].
LEMMA FsnozStays ==
  ASSUME FsnozKept, cur'.n = cur.n,
         others[ActProg] \cup {f \in Fields : ctl'[f] /= ctl[f]} \subseteq others'[ActProg]
  PROVE  FsnozKept'
<1>1. "fsnoz" \in Fields
  BY DEF Fields
<1> QED BY <1>1 DEF FsnozKept

\* Nothing of the program changes, but perhaps the rest of the device.
LEMMA CountedStays ==
  ASSUME Counted, job' = job, pc' = pc, cur' = cur, cc'[ActProg] = cc[ActProg],
         others[ActProg] \cup {f \in Fields : ctl'[f] /= ctl[f]} \subseteq others'[ActProg]
  PROVE  Counted'
<1>1. FsnozKept => FsnozKept'
  BY FsnozStays
<1> QED BY <1>1 DEF Counted

LEMMA OthersKeep ==
  ASSUME IndInv, NEW q \in Progs \ {ActProg}, CtlStep(q)
  PROVE  /\ cc'[ActProg] = cc[ActProg]
         /\ others[ActProg] \cup {f \in Fields : ctl'[f] /= ctl[f]} \subseteq others'[ActProg]
<1>1. /\ ActProg \in Progs /\ cc \in [Progs -> CallRecords]
      /\ others \in [Progs -> SUBSET Fields]
  BY ActivationAssumption DEF IndInv, CtlInv, CtlTypeOK, CallRecords
<1>2. CASE ReadPage(q)
  BY <1>1, <1>2 DEF ReadPage
<1>3. CASE SelectPage(q)
  <2>1. ctl' = NewPage(q) /\ Changed(q, NewPage(q)) /\ CtlReturn(q, 0)
    BY <1>3 DEF SelectPage
  <2>2. others'[ActProg] = others[ActProg] \cup {f \in Fields : ctl'[f] /= ctl[f]}
    BY <1>1, <2>1 DEF Changed
  <2> QED BY <1>1, <2>1, <2>2 DEF CtlReturn
<1>4. CASE FeatureSet(q)
  <2>1. Changed(q, ctl') /\ cc' = [cc EXCEPT ![q].k = @ + 1]
    BY <1>4 DEF FeatureSet
  <2>2. others'[ActProg] = others[ActProg] \cup {f \in Fields : ctl'[f] /= ctl[f]}
    BY <1>1, <2>1 DEF Changed
  <2> QED BY <1>1, <2>1, <2>2
<1>5. CASE ReadFails(q) \/ SelectFails(q) \/ FeatureSkip(q) \/ FeatureUnsupported(q)
           \/ FeatureFails(q)
  <2>1. ctl' = ctl /\ others' = others
    BY <1>5 DEF ReadFails, SelectFails, FeatureSkip, FeatureUnsupported, FeatureFails
  <2>2. cc'[ActProg] = cc[ActProg]
    BY <1>1, <1>5 DEF ReadFails, SelectFails, FeatureSkip, FeatureUnsupported, FeatureFails,
                      CtlReturn
  <2> QED BY <2>1, <2>2
<1> QED BY <1>2, <1>3, <1>4, <1>5 DEF CtlStep

\* The control call of the program itself.
LEMMA OwnCall ==
  ASSUME FitsFsnoz, IndInv, Counted, CtlStep(ActProg), UNCHANGED actvars
  PROVE  Counted'
<1>1. /\ job' = job /\ pc' = pc /\ cur' = cur
  BY DEF actvars
<1>2. /\ ActProg \in Progs /\ cc \in [Progs -> CallRecords] /\ cc[ActProg] \in CallRecords
      /\ others \in [Progs -> SUBSET Fields] /\ ctl \in [Fields -> Nat]
      /\ CtlTypeOK /\ Placed
  BY ActivationAssumption DEF IndInv, CtlInv, CtlTypeOK, CallRecords
<1>3. cc[ActProg].st \in {"read", "select", "feature"}
  BY DEF CtlStep, ReadPage, ReadFails, SelectPage, SelectFails, FeatureSkip,
     FeatureUnsupported, FeatureSet, FeatureFails
<1>4. pc = "fsnoz" /\ cc[ActProg].st = "feature"
  BY <1>3 DEF Counted
<1>5. /\ ~job.all /\ cur.fsnoz /\ cc[ActProg].want = [Ones EXCEPT !["fsnoz"] = cur.n]
      /\ cc[ActProg].k > 1 => FsnozKept
  BY <1>4 DEF Counted
<1>6. /\ Ones \in [Fields -> Nat] /\ Len(Order) = 3 /\ cc[ActProg].k \in 1..4
      /\ Order[1] = "fsnoz" /\ Order[2] = "urswrz" /\ Order[3] = "maxact"
      /\ "fsnoz" \in Fields /\ "urswrz" \in Fields /\ "maxact" \in Fields
  BY <1>2, ControlAssumption, ControlTypes DEF Order, Fields, CallRecords
<1>7. cc[ActProg].want["fsnoz"] = cur.n /\ cc[ActProg].want["fsnoz"] # Ones["fsnoz"]
  <2>1. cur.n < Ones["fsnoz"] /\ cur.n \in Nat
    BY <1>2, <1>4, <1>5, CountFits, IndTypes, CurTypes DEF Placed
  <2> QED BY <1>5, <1>6, <2>1
<1>8. Due(ActProg) <=> cc[ActProg].k = 1
  <2>1. CASE cc[ActProg].k = 1
    BY <1>6, <1>7, <2>1 DEF Due
  <2>2. CASE cc[ActProg].k = 2
    BY <1>5, <1>6, <2>2 DEF Due
  <2>3. CASE cc[ActProg].k = 3
    BY <1>5, <1>6, <2>3 DEF Due
  <2>4. CASE cc[ActProg].k = 4
    BY <1>6, <2>4 DEF Due
  <2>5. cc[ActProg].k = 1 \/ cc[ActProg].k = 2 \/ cc[ActProg].k = 3 \/ cc[ActProg].k = 4
    BY <1>6
  <2> QED BY <2>1, <2>2, <2>3, <2>4, <2>5
<1>9. CASE FeatureSet(ActProg)
  <2>1. Due(ActProg)
    BY <1>9 DEF FeatureSet
  <2>2. cc[ActProg].k = 1 /\ Order[cc[ActProg].k] = "fsnoz"
    BY <1>6, <1>8, <2>1
  <2>3. /\ ctl' = [ctl EXCEPT !["fsnoz"] = cc[ActProg].want["fsnoz"]]
        /\ cc' = [cc EXCEPT ![ActProg].k = @ + 1]
    BY <1>9, <2>2 DEF FeatureSet
  <2>4. ctl'["fsnoz"] = cur.n
    BY <1>2, <1>6, <1>7, <2>3
  <2>5. FsnozKept'
    BY <1>1, <2>4 DEF FsnozKept
  <2>6. cc'[ActProg].st = "feature" /\ cc'[ActProg].want = cc[ActProg].want
    BY <1>2, <1>4, <2>3 DEF CallRecords
  <2> QED BY <1>1, <1>4, <1>5, <2>5, <2>6 DEF Counted
<1>10. CASE FeatureSkip(ActProg)
  <2>1. cc[ActProg].k > 1
    BY <1>6, <1>8, <1>10 DEF FeatureSkip
  <2>2. ctl' = ctl /\ others' = others
    BY <1>10 DEF FeatureSkip
  <2>3. FsnozKept'
    BY <1>1, <1>5, <2>1, <2>2 DEF FsnozKept
  <2>4. cc'[ActProg].st \in {"feature", "returned"} /\ cc'[ActProg].want = cc[ActProg].want
    BY <1>2, <1>4, <1>10 DEF FeatureSkip, CtlReturn, CallRecords
  <2> QED BY <1>1, <1>4, <1>5, <2>3, <2>4 DEF Counted
<1>11. CASE FeatureUnsupported(ActProg) \/ FeatureFails(ActProg)
  <2>1. /\ cc'[ActProg].st = "returned" /\ cc'[ActProg].want = cc[ActProg].want
        /\ cc'[ActProg].ret # 0
    BY <1>2, <1>11 DEF FeatureUnsupported, FeatureFails, CtlReturn, CallRecords, EIO, ENOTSUP
  <2> QED BY <1>1, <1>4, <1>5, <2>1 DEF Counted
<1>12. FeatureSet(ActProg) \/ FeatureSkip(ActProg) \/ FeatureUnsupported(ActProg)
       \/ FeatureFails(ActProg)
  BY <1>4 DEF CtlStep, ReadPage, ReadFails, SelectPage, SelectFails
<1> QED BY <1>9, <1>10, <1>11, <1>12

LEMMA CountedStep ==
  ASSUME FitsFsnoz, IndInv, Counted, [Next]_vars
  PROVE  Counted'
<1>1. ActProg \in Progs /\ CtlProg \in Progs \ {ActProg} /\ cur \in CurRecords /\ Placed
      /\ CtlInv
  BY ActivationAssumption, ControlAssumption, IndTypes
<1>2. pc \in {"decide", "reset"} => job.kind = "tool"
  BY <1>1 DEF Placed
<1>3. CASE ToolStep /\ UNCHANGED actvars
  <2>1. ctl' = ctl /\ others' = others
    BY <1>3 DEF ToolStep, ToolStart, ToolNotZdr, ToolSet, ToolReadBack, ToolEnds
  <2>2. cc'[ActProg] = cc[ActProg]
    <3>1. cc \in [Progs -> CallRecords]
      BY <1>1 DEF CtlInv, CtlTypeOK, CallRecords
    <3> QED BY <1>1, <1>3, <3>1 DEF ToolStep, ToolStart, ToolNotZdr, ToolSet, ToolReadBack,
                                    ToolEnds, CtlCall
  <2>3. job' = job /\ pc' = pc /\ cur' = cur
    BY <1>3 DEF actvars
  <2> QED BY <2>1, <2>2, <2>3, CountedStays
<1>4. CASE (\E p \in Progs : CtlStep(p)) /\ UNCHANGED actvars
  <2>1. PICK p \in Progs : CtlStep(p)
    BY <1>4
  <2>2. job' = job /\ pc' = pc /\ cur' = cur
    BY <1>4 DEF actvars
  <2>3. CASE p = ActProg
    BY <1>4, <2>1, <2>3, OwnCall
  <2>4. CASE p # ActProg
    BY <2>1, <2>2, <2>4, OthersKeep, CountedStays
  <2> QED BY <2>3, <2>4
<1>5. CASE UNCHANGED vars
           \/ \E r \in Realms : Write(r) \/ \E d \in Domains : ActivateOther(r, d)
  <2>1. UNCHANGED ctlvars /\ job' = job /\ pc' = pc /\ cur' = cur
    BY <1>5 DEF vars, actvars, Write, ActivateOther
  <2>2. cc' = cc /\ ctl' = ctl /\ others' = others
    BY <2>1 DEF ctlvars
  <2> QED BY <2>1, <2>2, CountedStays
<1>6. CASE SetFsnoz
  <2> DEFINE want == [Ones EXCEPT !["fsnoz"] = cur.n]
  <2>1. /\ pc = "decide" /\ UsesFsnoz /\ "za_control" \in Flags
        /\ CtlCall(ActProg, want, TRUE) /\ cur' = [cur EXCEPT !.fsnoz = TRUE]
        /\ pc' = "fsnoz" /\ dev' = dev /\ ctl' = ctl /\ tool' = tool /\ others' = others
        /\ job' = job
    BY <1>6 DEF SetFsnoz
  <2>2. dev.drv = "ata" /\ ~job.all
    BY <1>1, <2>1, ControlTypes DEF Flags, UsesFsnoz, CtlInv
  <2>3. want \in [Fields -> Nat] /\ TRUE \in BOOLEAN
    BY <1>1, CurTypes, ControlAssumption
  <2>4. cur'.fsnoz /\ cur'.n = cur.n
    BY <1>1, <2>1 DEF CurRecords
  <2>5. [Ones EXCEPT !["fsnoz"] = cur'.n] = want
    BY <2>4
  <2> HIDE DEF want
  <2>6. tool' \in ToolRecords
    BY <1>1, <2>1 DEF CtlInv, CtlTypeOK, ToolRecords
  <2>7. /\ cc'[ActProg].want = want /\ cc'[ActProg].k = 1
        /\ cc'[ActProg].st \in {"feature", "returned"}
        /\ cc'[ActProg].st = "returned" => cc'[ActProg].ret /= 0
    BY <1>1, <2>1, <2>2, <2>3, <2>6, CallBegins
  <2>8. ~(cc'[ActProg].k > 1)
    BY <2>7
  <2> QED BY <2>1, <2>2, <2>4, <2>5, <2>7, <2>8 DEF Counted
<1>7. CASE ActStep /\ ~SetFsnoz
  <2>1. UNCHANGED ctlvars /\ job' = job
    BY <1>7 DEF ActStep, ListDomains, ListDomainsFails, FindZones, FindZonesFails,
         FsnozUnsupported, FsnozInCdb, FsnozSet, NoReset, ResetOk, ResetFails, CountOk,
         CountFails, CallLibrary, Fetch, FetchFails
  <2>2. cc' = cc /\ ctl' = ctl /\ others' = others
    BY <2>1 DEF ctlvars
  <2>3. pc # "fsnoz" => cc'[ActProg].st \in {"none", "returned"}
    BY <2>2 DEF Counted
  <2>4. CASE \/ ListDomains \/ FindZones \/ CallLibrary \/ Fetch \/ ListDomainsFails
             \/ FindZonesFails \/ FsnozUnsupported \/ CountFails \/ FetchFails
    <3>1. /\ pc # "fsnoz" /\ pc' # "fsnoz"
          /\ pc' \in {"reset", "count", "fetch"} => job.kind # "tool"
      <4>1. CASE Fetch
        <5>1. pc = "fetch" /\ pc' \in {"exit", "realms"}
          BY <4>1 DEF Fetch, Proceed, Exit
        <5> QED BY <5>1
      <4>2. CASE FetchFails
        <5>1. pc = "fetch" /\ pc' \in {"exit", "realms"}
          BY <4>2 DEF FetchFails, Proceed, Exit
        <5> QED BY <5>1
      <4>3. CASE ListDomains \/ FindZones \/ CallLibrary
        BY <4>3 DEF ListDomains, FindZones, CallLibrary, Exit
      <4>4. CASE ListDomainsFails \/ FindZonesFails \/ FsnozUnsupported \/ CountFails
        BY <4>4 DEF ListDomainsFails, FindZonesFails, FsnozUnsupported, CountFails, Exit
      <4> QED BY <2>4, <4>1, <4>2, <4>3, <4>4
    <3> QED BY <2>1, <2>3, <3>1 DEF Counted
  <2>5. CASE FsnozInCdb
    <3>1. /\ pc = "decide" /\ ~UsesFsnoz /\ pc' = "reset"
          /\ cur' = [cur EXCEPT !.fsnoz = FALSE, !.zsrc = TRUE]
      BY <2>5 DEF FsnozInCdb
    <3>2. cur'.zsrc /\ cur'.n = cur.n
      BY <1>1, <3>1 DEF CurRecords
    <3>3. ~job.all => job.cdb32 \/ ~(cur.n > CdbMax)
      BY <3>1 DEF UsesFsnoz
    <3>4. ~(cur.n > CdbMax) => cur.n <= CdbMax
      BY <1>1, CurTypes, IndTypes
    <3> QED BY <2>1, <2>3, <3>1, <3>2, <3>3, <3>4 DEF Counted
  <2>6. CASE FsnozSet
    <3>1. /\ pc = "fsnoz" /\ cc[ActProg].st = "returned" /\ pc' \in {"reset", "exit"}
          /\ pc' = "reset" => cc[ActProg].ret = 0
          /\ cur' = [cur EXCEPT !.zsrc = FALSE]
      BY <2>6 DEF FsnozSet, CtlReturned, Exit
    <3>2. ~cur'.zsrc /\ cur'.n = cur.n /\ cur'.fsnoz = cur.fsnoz
      BY <1>1, <3>1 DEF CurRecords
    <3>3. cur.fsnoz /\ (pc' = "reset" => FsnozKept)
      BY <3>1 DEF Counted
    <3>4. pc' = "reset" => FsnozKept'
      BY <2>2, <3>2, <3>3 DEF FsnozKept
    <3> QED BY <2>1, <2>2, <3>1, <3>2, <3>3, <3>4 DEF Counted
  <2>7. CASE NoReset \/ ResetOk \/ ResetFails \/ CountOk
    <3>1. pc \in {"reset", "count"} /\ pc' \in {"count", "fetch"} /\ cur' = cur
      BY <2>7 DEF NoReset, ResetOk, ResetFails, CountOk
    <3>2. FsnozKept => FsnozKept'
      BY <2>2, <3>1 DEF FsnozKept
    <3> QED BY <2>1, <2>3, <3>1, <3>2 DEF Counted
  <2> QED BY <1>7, <2>4, <2>5, <2>6, <2>7 DEF ActStep
<1> QED BY <1>3, <1>4, <1>5, <1>6, <1>7 DEF Next, Quiet

LEMMA SmallMod ==
  ASSUME NEW x \in Nat, NEW m \in Nat, x <= m
  PROVE  x % (m + 1) = x
<1>1. m + 1 \in Nat \ {0} /\ x < (m + 1) * 0 + (m + 1) /\ 0 \in Nat
  OBVIOUS
<1>2. x \div (m + 1) <= 0
  BY <1>1, DivUpper
<1>3. x \div (m + 1) = 0
  BY <1>1, <1>2, DivFacts
<1>4. x = (m + 1) * 0 + (x % (m + 1)) /\ x % (m + 1) \in Nat
  BY <1>1, <1>3, ModFacts
<1> QED BY <1>4

\* The command counts the zones that the program, or the caller, counted.
LEMMA CountRight ==
  ASSUME IndInv, Counted, pc = "fetch", ~job.all, ~Uncounted,
         ~(cur.fsnoz /\ "fsnoz" \in others[ActProg])
  PROVE  Count = cur.n
<1>1. /\ cur \in CurRecords /\ cur.n \in Nat /\ CdbMax \in Nat /\ Placed /\ job \in Jobs
  BY IndTypes, CurTypes
<1>2. job.cdb32 \/ cur.n <= CdbMax => CdbCount = cur.n
  <2>1. cur.n <= CdbMax => cur.n % (CdbMax + 1) = cur.n
    BY <1>1, SmallMod
  <2> QED BY <2>1 DEF CdbCount
<1>3. CASE job.kind = "tool"
  <2>1. IF cur.zsrc THEN job.cdb32 \/ cur.n <= CdbMax ELSE cur.fsnoz /\ FsnozKept
    BY <1>3 DEF Counted
  <2> QED BY <1>2, <2>1 DEF Count, FsnozKept
<1>4. CASE job.kind # "tool"
  <2>1. cur.n = job.nr /\ cur.zsrc = job.zsrc /\ job.nr \in Nat
    BY <1>1, <1>4, JobTypes DEF Placed
  <2>2. job.zsrc /\ (job.cdb32 \/ ~(job.nr > CdbMax))
    BY <1>4 DEF Uncounted
  <2>3. job.cdb32 \/ cur.n <= CdbMax
    BY <1>1, <2>1, <2>2
  <2> QED BY <1>2, <2>1, <2>2, <2>3 DEF Count
<1> QED BY <1>3, <1>4

\* The realms that the command is about are those asked for, or the next one.
LEMMA TargetsRight ==
  ASSUME IndInv, Counted, pc = "fetch", ~Uncounted,
         ~(cur.fsnoz /\ "fsnoz" \in others[ActProg])
  PROVE  IF job.kind = "tool" /\ OneByOne
         THEN Targets = {cur.realm} /\ cur.realm \in Asked ELSE Targets = Asked
<1>1. TypeOK /\ Placed /\ Found /\ job \in Jobs /\ job.start \in Nat /\ job.nr \in Nat
  BY IndTypes, JobTypes
<1>2. CASE job.all
  <2>1. ~OneByOne
    BY <1>2 DEF OneByOne, ByRealm
  <2> QED BY <1>2, <2>1 DEF Targets, Asked
<1>3. CASE ~job.all
  <2>1. Targets = Covered(job.dom, cur.start, cur.n)
    BY <1>3, CountRight DEF Targets
  <2>2. CASE job.kind # "tool"
    <3>1. cur.start = job.start /\ cur.n = job.nr
      BY <1>1, <2>2 DEF Placed
    <3> QED BY <1>3, <2>1, <2>2, <3>1 DEF Asked
  <2>3. CASE job.kind = "tool" /\ job.zone
    <3>1. ~ByRealm /\ ~OneByOne
      BY <2>3 DEF ByRealm, OneByOne
    <3>2. cur.start = job.start /\ cur.n = job.nr
      BY <1>1, <2>3, <3>1 DEF Placed
    <3> QED BY <1>3, <2>1, <2>3, <3>1, <3>2 DEF Asked
  <2>4. CASE job.kind = "tool" /\ ~job.zone
    <3>1. ByRealm /\ job.dom \in Domains
      BY <1>1, <1>3, <2>4 DEF ByRealm, Placed
    <3>2. /\ Chunk \subseteq Realms /\ Chunk # {} /\ cur.n = SumLens(job.dom, Chunk)
          /\ cur.start = First(job.dom, cur.realm) /\ Supports(cur.realm, job.dom)
          /\ cur.realm \in Chunk
      BY <1>1, <2>4, <3>1 DEF Found, NrUnits
    <3>3. Targets = {r \in Chunk : Lens[job.dom][r] > 0}
      BY <1>1, <2>1, <2>4, <3>1, <3>2, FoundCovers
    <3>4. Targets = {r \in Chunk : r <= NrRealms /\ Supports(r, job.dom)}
      <4>1. \A r \in Chunk : r <= NrRealms
        BY <3>2, IndTypes DEF Realms
      <4> QED BY <3>1, <3>3, <4>1 DEF Supports
    <3>5. Asked = {r \in job.start..(job.start + job.nr - 1) :
                     r <= NrRealms /\ Supports(r, job.dom)}
      BY <1>3, <2>4 DEF Asked
    <3>6. PICK b \in Int :
            /\ Chunk = cur.realm..b /\ cur.realm \in Nat
            /\ Chunk \subseteq job.start..(job.start + job.nr - 1)
            /\ OneByOne => b = cur.realm
            /\ ~OneByOne => Chunk = job.start..(job.start + job.nr - 1)
      BY <1>1, <2>4, <3>1, ChunkInside
    <3>7. CASE OneByOne
      <4>1. Chunk = {cur.realm}
        BY <3>6, <3>7
      <4>2. cur.realm \in Targets
        <5>1. cur.realm \in 1..NrRealms /\ NrRealms \in Nat
          BY <3>2, IndTypes DEF Realms
        <5>2. cur.realm <= NrRealms
          BY <5>1
        <5> QED BY <3>2, <3>4, <5>2
      <4>3. Targets = {cur.realm}
        BY <3>4, <4>1, <4>2
      <4> QED BY <2>4, <3>4, <3>5, <3>6, <3>7, <4>2, <4>3
    <3>8. CASE ~OneByOne
      BY <3>4, <3>5, <3>6, <3>8
    <3> QED BY <3>7, <3>8
  <2> QED BY <2>2, <2>3, <2>4
<1> QED BY <1>2, <1>3

\* What Progress says of a program that activates.
Done ==
  /\ did \subseteq Asked
  /\ pc = "exit" /\ ret = 0 => did = Asked
  /\ pc /= "exit" => did = IF job.kind = "tool" /\ OneByOne /\ pc /= "start"
                             THEN job.start..(cur.realm - 1) ELSE {}

LEMMA ProgressKept ==
  ASSUME Progress, job' = job, amiss => amiss', Query => did' = did,
         ~amiss' /\ ~Uncounted /\ ~Query /\ Done => Done'
  PROVE  Progress'
<1>1. (Uncounted' <=> Uncounted) /\ (Query' <=> Query)
  BY DEF Uncounted, Query
<1>2. amiss \/ Uncounted \/ (Query /\ did = {}) \/ (~Query /\ Done)
  BY DEF Progress, Done
<1>3. ~Query' /\ Done' => Progress'
  BY DEF Progress, Done
<1>4. amiss' \/ Uncounted' \/ (Query' /\ did' = {}) => Progress'
  BY DEF Progress
<1> QED BY <1>1, <1>2, <1>3, <1>4

LEMMA FetchDone ==
  ASSUME IndInv, Counted, Fetch, ~amiss', ~Uncounted, ~Query, Done
  PROVE  Done'
<1> DEFINE value == Sent(Query)
<1>1. /\ pc = "fetch" /\ UNCHANGED <<ctlvars, filled, job, changes>> /\ amiss' = Mark
      /\ Proceed(value)
      /\ did' = IF ~Query /\ value = 0 THEN did \cup Targets ELSE did
  BY DEF Fetch
<1>2. value \in Int
  BY DEF Sent, EIO
<1> HIDE DEF value
<1>3. dev' = dev /\ job' = job
  BY <1>1 DEF ctlvars
<1>4. OneByOne' = OneByOne /\ Asked' = Asked
  BY <1>3 DEF OneByOne, ByRealm, Asked
<1>5. /\ pc' \in {"exit", "realms"} /\ (pc' = "exit" => cur' = cur)
      /\ pc' = "exit" /\ ret' = 0 => value = 0 /\ (job.kind = "tool" => cur.left = 1)
      /\ pc' = "realms" => /\ job.kind = "tool" /\ value = 0 /\ OneByOne
                           /\ cur'.realm = cur.realm + 1
  BY <1>1, <1>2, <1>3, ProceedFacts
<1>6. did \subseteq Asked /\ did = IF job.kind = "tool" /\ OneByOne
                                     THEN job.start..(cur.realm - 1) ELSE {}
  BY <1>1 DEF Done
<1>7. CASE value # 0
  BY <1>1, <1>4, <1>5, <1>6, <1>7 DEF Done
<1>8. CASE value = 0
  <2>1. did' = did \cup Targets
    BY <1>1, <1>8
  <2>2. IF job.kind = "tool" /\ OneByOne
        THEN Targets = {cur.realm} /\ cur.realm \in Asked ELSE Targets = Asked
    BY <1>1, TargetsRight DEF Mark
  <2>3. CASE ~(job.kind = "tool" /\ OneByOne)
    <3>1. did' = Asked /\ pc' = "exit"
      BY <1>5, <1>6, <2>1, <2>2, <2>3
    <3> QED BY <1>4, <3>1 DEF Done
  <2>4. CASE job.kind = "tool" /\ OneByOne
    <3>1. did' = (job.start..(cur.realm - 1)) \cup {cur.realm} /\ did' \subseteq Asked
      BY <1>6, <2>1, <2>2, <2>4
    <3>2. /\ cur.realm \in Nat /\ cur.left \in Nat /\ job.start \in Nat /\ job.nr \in Nat
          /\ Placed
      BY IndTypes, CurTypes, JobTypes
    <3>3. cur.realm >= job.start /\ cur.realm + cur.left = job.start + job.nr
      BY <1>1, <2>4, <3>2 DEF Placed
    <3>4. did' = job.start..cur.realm
      BY <3>1, <3>2, <3>3
    <3>5. CASE pc' = "realms"
      <4>1. cur'.realm - 1 = cur.realm
        BY <1>5, <3>2, <3>5
      <4> QED BY <1>3, <1>4, <2>4, <3>1, <3>4, <3>5, <4>1 DEF Done
    <3>6. CASE pc' = "exit"
      <4>1. ASSUME ret' = 0 PROVE did' = Asked
        <5>1. cur.left = 1
          BY <1>5, <2>4, <3>6, <4>1
        <5>2. cur.realm = job.start + job.nr - 1
          BY <3>2, <3>3, <5>1
        <5>3. Asked \subseteq job.start..(job.start + job.nr - 1)
          BY <2>4 DEF Asked, OneByOne, ByRealm
        <5> QED BY <3>1, <3>4, <5>2, <5>3
      <4> QED BY <1>4, <3>1, <3>6, <4>1 DEF Done
    <3> QED BY <1>5, <3>5, <3>6
  <2> QED BY <2>3, <2>4
<1> QED BY <1>7, <1>8

LEMMA ProgressStep ==
  ASSUME IndInv, Counted, Progress, [Next]_vars
  PROVE  Progress'
<1>1. cur \in CurRecords /\ Placed /\ job \in Jobs /\ job.start \in Nat
  BY IndTypes, JobTypes
<1>2. ASSUME job' = job, dev' = dev, did' = did, amiss' = amiss,
             ~Query /\ Done =>
               /\ pc' = "exit" /\ ret' = 0 => did = Asked
               /\ pc' # "exit" => did = IF job.kind = "tool" /\ OneByOne /\ pc' # "start"
                                          THEN job.start..(cur'.realm - 1) ELSE {}
      PROVE  Progress'
  <2>1. Asked' = Asked /\ OneByOne' = OneByOne
    BY <1>2 DEF Asked, OneByOne, ByRealm
  <2>2. ~Query /\ Done => Done'
    BY <1>2, <2>1 DEF Done
  <2> QED BY <1>2, <2>2, ProgressKept
<1>3. CASE ListDomains
  <2>1. /\ pc = "start" /\ job.kind = "tool" /\ UNCHANGED ctlvars /\ job' = job /\ did' = did
        /\ amiss' = amiss /\ pc' \in {"realms", "exit"}
        /\ pc' = "exit" => OneByOne /\ job.nr = 0
        /\ cur' = [cur EXCEPT !.realm = job.start, !.start = job.start,
                              !.n = IF OneByOne THEN 1 ELSE job.nr,
                              !.left = IF OneByOne THEN job.nr ELSE 1]
    BY <1>3 DEF ListDomains, Exit
  <2>2. dev' = dev
    BY <2>1 DEF ctlvars
  <2>3. cur'.realm = job.start
    BY <1>1, <2>1 DEF CurRecords
  <2>4. Done => did = {}
    BY <2>1 DEF Done
  <2>5. job.start..(job.start - 1) = {}
    BY <1>1
  <2>6. pc' = "exit" => Asked = {}
    <3>1. SUFFICES ASSUME OneByOne, job.nr = 0 PROVE Asked = {}
      BY <2>1
    <3>2. Asked \subseteq job.start..(job.start + job.nr - 1)
      BY <2>1, <3>1 DEF Asked, OneByOne, ByRealm
    <3>3. job.start + job.nr - 1 = job.start - 1
      BY <1>1, <3>1
    <3> QED BY <2>5, <3>2, <3>3
  <2> QED BY <1>2, <2>1, <2>2, <2>3, <2>4, <2>5, <2>6
<1>4. CASE CallLibrary
  <2>1. /\ pc = "start" /\ job.kind # "tool" /\ UNCHANGED ctlvars /\ job' = job /\ did' = did
        /\ amiss' = amiss /\ pc' \in {"count", "fetch"}
    BY <1>4 DEF CallLibrary
  <2>2. dev' = dev
    BY <2>1 DEF ctlvars
  <2>3. Done => did = {}
    BY <2>1 DEF Done
  <2> QED BY <1>2, <2>1, <2>2, <2>3
<1>5. CASE ListDomainsFails \/ FindZonesFails \/ FsnozUnsupported \/ CountFails \/ FetchFails
  <2>1. pc' = "exit" /\ ret' # 0 /\ did' = did /\ job' = job /\ UNCHANGED ctlvars /\ amiss' = amiss
    BY <1>5, GivesUpInv
  <2>2. dev' = dev
    BY <2>1 DEF ctlvars
  <2> QED BY <1>2, <2>1, <2>2
<1>6. CASE \/ FindZones \/ SetFsnoz \/ FsnozInCdb \/ FsnozSet \/ NoReset \/ ResetOk
           \/ ResetFails \/ CountOk
  <2>1. /\ job' = job /\ did' = did /\ amiss' = amiss /\ dev' = dev
        /\ pc \notin {"start", "exit"} /\ pc' # "start" /\ (pc' = "exit" => ret' # 0)
    <3>1. CASE FindZones
      BY <3>1 DEF FindZones, ctlvars
    <3>2. CASE SetFsnoz
      BY <3>2 DEF SetFsnoz
    <3>3. CASE FsnozInCdb
      BY <3>3 DEF FsnozInCdb, ctlvars
    <3>4. CASE FsnozSet
      BY <3>4 DEF FsnozSet, Exit, ctlvars
    <3>5. CASE NoReset \/ ResetOk \/ ResetFails
      BY <3>5 DEF NoReset, ResetOk, ResetFails, ctlvars
    <3>6. CASE CountOk
      BY <3>6 DEF CountOk, ctlvars
    <3> QED BY <1>6, <3>1, <3>2, <3>3, <3>4, <3>5, <3>6
  <2>2. cur'.realm = cur.realm
    <3>1. CASE FindZones \/ SetFsnoz \/ FsnozInCdb \/ FsnozSet
      BY <1>1, <3>1 DEF FindZones, SetFsnoz, FsnozInCdb, FsnozSet, CurRecords
    <3>2. CASE NoReset \/ ResetOk \/ ResetFails \/ CountOk
      BY <3>2 DEF NoReset, ResetOk, ResetFails, CountOk
    <3> QED BY <1>6, <3>1, <3>2
  <2>3. Done => did = IF job.kind = "tool" /\ OneByOne THEN job.start..(cur.realm - 1) ELSE {}
    BY <2>1 DEF Done
  <2> QED BY <1>2, <2>1, <2>2, <2>3
<1>7. CASE Fetch
  <2>1. /\ job' = job /\ amiss' = Mark
        /\ did' = IF ~Query /\ Sent(Query) = 0 THEN did \cup Targets ELSE did
    BY <1>7 DEF Fetch
  <2>2. amiss => amiss'
    BY <2>1 DEF Mark
  <2>3. Query => did' = did
    BY <2>1
  <2>4. ~amiss' /\ ~Uncounted /\ ~Query /\ Done => Done'
    BY <1>7, FetchDone
  <2> QED BY <2>1, <2>2, <2>3, <2>4, ProgressKept
<1>8. CASE \/ (ToolStep \/ \E p \in Progs : CtlStep(p)) /\ UNCHANGED actvars
           \/ \E r \in Realms : Write(r) \/ \E d \in Domains : ActivateOther(r, d)
           \/ UNCHANGED vars
  <2>1. /\ job' = job /\ did' = did /\ amiss' = amiss /\ pc' = pc /\ ret' = ret /\ cur' = cur
    <3>1. CASE UNCHANGED actvars
      BY <3>1 DEF actvars
    <3>2. CASE \E r \in Realms : Write(r) \/ \E d \in Domains : ActivateOther(r, d)
      BY <3>2 DEF Write, ActivateOther
    <3>3. UNCHANGED vars => UNCHANGED actvars
      BY DEF vars
    <3> QED BY <1>8, <3>1, <3>2, <3>3
  <2>2. dev' = dev
    <3>1. CASE ToolStep
      BY <3>1 DEF ToolStep, ToolStart, ToolNotZdr, ToolSet, ToolReadBack, ToolEnds
    <3>2. CASE \E p \in Progs : CtlStep(p)
      BY <3>2 DEF CtlStep, ReadPage, ReadFails, SelectPage, SelectFails, FeatureSkip,
                  FeatureUnsupported, FeatureSet, FeatureFails
    <3>3. CASE \E r \in Realms : Write(r) \/ \E d \in Domains : ActivateOther(r, d)
      BY <3>3 DEF Write, ActivateOther, ctlvars
    <3>4. CASE UNCHANGED vars
      BY <3>4 DEF vars, ctlvars
    <3> QED BY <1>8, <3>1, <3>2, <3>3, <3>4
  <2>3. Done => /\ pc = "exit" /\ ret = 0 => did = Asked
                /\ pc # "exit" => did = IF job.kind = "tool" /\ OneByOne /\ pc # "start"
                                          THEN job.start..(cur.realm - 1) ELSE {}
    BY DEF Done
  <2> QED BY <1>2, <2>1, <2>2, <2>3
<1> QED BY <1>3, <1>4, <1>5, <1>6, <1>7, <1>8 DEF Next, ActStep, Quiet

LEMMA CountInit == Init => Counted /\ Progress
<1> SUFFICES ASSUME Init PROVE Counted /\ Progress
  OBVIOUS
<1>1. pc = "start" /\ did = {} /\ CtlInit
  BY DEF Init
<1>2. cc[ActProg].st = "none"
  <2>1. ActProg \in Progs /\ cc = [p \in Progs |-> Idle]
    BY <1>1, ActivationAssumption DEF CtlInit
  <2> QED BY <2>1 DEF Idle
<1>3. Counted
  BY <1>1, <1>2 DEF Counted
<1>4. Done
  BY <1>1 DEF Done
<1>5. Progress
  BY <1>1, <1>4 DEF Progress, Done
<1> QED BY <1>3, <1>5

\* Whatever other programs do between the commands of zbc_zone_activate, or of
\* a caller of the library, only realms that were asked for are activated,
\* and all of them if it exits with 0, unless another program sets FSNOZ
\* between its control call and its activation.  For numbers of zones that
\* the control call does not take for "leave FSNOZ alone".
THEOREM ActivationTheorem ==
  ASSUME FitsFsnoz
  PROVE  Spec => []ActivatesAsked
<1>1. Init => CountInv
  BY InitInv, CountInit DEF CountInv
<1>2. CountInv /\ [Next]_vars => CountInv'
  BY StepInv, CountedStep, ProgressStep DEF CountInv
<1>3. CountInv => ActivatesAsked
  BY DEF CountInv, Progress, ActivatesAsked
<1> QED BY <1>1, <1>2, <1>3, PTL DEF Spec

=============================================================================
