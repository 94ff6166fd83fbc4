--------------------------- MODULE ZbcToolsProofs ---------------------------
(***************************************************************************)
(* Proofs about the programs: Gzbc, for any number of slots, opens and     *)
(* commands, and ZbcZoneIO, for any zones, command lines and other         *)
(* initiators.                                                             *)
(***************************************************************************)
EXTENDS Gzbc, ZbcZoneIO, FiniteSetTheorems, SequenceTheorems, ZbcArithmetic

-----------------------------------------------------------------------------
(***************************************************************************)
(* The stack of calls.                                                     *)
(***************************************************************************)
LEMMA TopFacts ==
  ASSUME stack \in Seq(Frames), stack # <<>>
  PROVE  /\ Top = stack[Len(stack)] /\ Top \in Frames
         /\ Len(stack) \in Nat \ {0}
         /\ Front(stack) \in Seq(Frames) /\ Len(Front(stack)) = Len(stack) - 1
<1>1. Len(stack) \in Nat \ {0}
  BY EmptySeq
<1>2. Top = stack[Len(stack)] /\ Top \in Frames
  BY <1>1 DEF Top, Last
<1>3. Front(stack) \in Seq(Frames) /\ Len(Front(stack)) = Len(stack) - 1
  <2>1. \A k \in 1..(Len(stack) - 1) : stack[k] \in Frames
    BY <1>1
  <2>2. /\ SubSeq(stack, 1, Len(stack) - 1) \in Seq(Frames)
        /\ Len(SubSeq(stack, 1, Len(stack) - 1)) =
             IF 1 <= Len(stack) - 1 THEN (Len(stack) - 1) - 1 + 1 ELSE 0
    BY <2>1, <1>1, SubSeqProperties
  <2>3. \A n \in Nat \ {0} : (IF 1 <= n - 1 THEN (n - 1) - 1 + 1 ELSE 0) = n - 1
    OBVIOUS
  <2>4. Len(SubSeq(stack, 1, Len(stack) - 1)) = Len(stack) - 1
    BY <2>2, <2>3, <1>1, Zenon
  <2> QED BY <2>2, <2>4, Zenon DEF Front
<1> QED BY <1>1, <1>2, <1>3

\* A call that starts is the innermost one.
LEMMA PushFacts ==
  ASSUME NEW s \in Seq(Frames), NEW f \in Frames
  PROVE  /\ Append(s, f) \in Seq(Frames) /\ Append(s, f) # <<>>
         /\ Last(Append(s, f)) = f
         /\ s \o <<f>> \in Seq(Frames) /\ s \o <<f>> # <<>>
         /\ Last(s \o <<f>>) = f
<1>1. /\ Append(s, f) \in Seq(Frames) /\ Len(Append(s, f)) = Len(s) + 1
      /\ Append(s, f)[Len(s) + 1] = f /\ Len(s) \in Nat
  OBVIOUS
<1>2. s \o <<f>> = Append(s, f)
  BY AppendIsConcat
<1>3. Append(s, f) # <<>>
  BY <1>1
<1> QED BY <1>1, <1>2, <1>3 DEF Last

-----------------------------------------------------------------------------
(***************************************************************************)
(* The table of devices.                                                   *)
(***************************************************************************)
LEMMA UsedFinite ==
  /\ IsFiniteSet(Used) /\ Cardinality(Used) \in Nat
  /\ Cardinality(Used) = 0 <=> Used = {}
<1>1. IsFiniteSet(Slots)
  BY GzbcAssumption, FS_Interval DEF Slots
<1>2. Used \in SUBSET Slots
  BY DEF Used
<1>3. IsFiniteSet(Used)
  BY <1>1, <1>2, FS_Subset
<1> QED BY <1>3, FS_CardinalityType, FS_EmptySet

\* dz_open looks for the first unused slot, and there is one.
LEMMA FirstUnusedFacts ==
  ASSUME Unused # {}
  PROVE  FirstUnused \in Slots /\ ~dev[FirstUnused].open
<1>1. Unused \in SUBSET Nat
  BY GzbcAssumption DEF Unused, Slots
<1>2. \E s \in Unused : \A t \in Unused : s <= t
  BY <1>1, LeastNatural
<1>3. FirstUnused \in Unused
  BY <1>2 DEF FirstUnused
<1> QED BY <1>3 DEF Unused

\* Commands leave the table alone.
LEMMA TableKept ==
  ASSUME TableInv, UNCHANGED table, dev' \in [Slots -> Devices],
         \A s \in Slots : dev'[s].open = dev[s].open
  PROVE  TableInv'
<1>1. Used' = Used
  BY DEF Used
<1> QED BY <1>1 DEF TableInv, DevicesReachable, table

\* dz_open adds a device and its page.
LEMMA OpenTable ==
  ASSUME TableInv, Open
  PROVE  TableInv'
<1> DEFINE f == FirstUnused
<1>1. /\ Unused # {} /\ dev' = [dev EXCEPT ![f].open = TRUE]
      /\ nrDevs' = nrDevs + 1 /\ notebook' = TRUE
      /\ pages' = pages \cup {f} /\ cur' = f /\ failed' = failed
  BY DEF Open
<1>2. f \in Slots /\ ~dev[f].open
  BY <1>1, FirstUnusedFacts
<1> HIDE DEF f
<1>3. dev' \in [Slots -> Devices]
  BY <1>1, <1>2 DEF TableInv, Devices
<1>4. Used' = Used \cup {f} /\ f \notin Used
  BY <1>1, <1>2 DEF Used, TableInv, Devices
<1>5. Cardinality(Used') = Cardinality(Used) + 1
  BY <1>4, UsedFinite, FS_AddElement
<1>6. DevicesReachable'
  <2>1. nrDevs' = Cardinality(Used') - failed'
    <3>1. nrDevs = Cardinality(Used) - failed /\ failed \in Nat
      BY DEF TableInv, DevicesReachable
    <3> QED BY <3>1, <1>1, <1>5, UsedFinite
  <2>2. failed' = 0 => pages' = Used' /\ (notebook' <=> Used' # {})
    <3>1. failed = 0 => pages = Used
      BY DEF TableInv, DevicesReachable
    <3>2. Used' # {} /\ notebook'
      BY <1>1, <1>4
    <3> QED BY <3>1, <3>2, <1>1, <1>4
  <2> QED BY <2>1, <2>2 DEF DevicesReachable
<1>7. /\ nrDevs' \in Int /\ failed' \in Nat /\ pages' \subseteq Slots
      /\ cur' \in pages' \cup {0}
  BY <1>1, <1>2 DEF TableInv
<1> QED BY <1>3, <1>6, <1>7 DEF TableInv

\* dz_close and dz_if_remove_device.
LEMMA CloseTable ==
  ASSUME TableInv, NEW s \in Slots, Close(s)
  PROVE  TableInv'
<1>1. /\ dev[s].open /\ dev' = [dev EXCEPT ![s] = Free]
      /\ nrDevs' = nrDevs - 1 /\ notebook' = (notebook /\ nrDevs' # 0)
      /\ pages' = (IF notebook' THEN pages \ {s} ELSE {})
      /\ cur' \in (IF pages' = {} THEN {0} ELSE pages') /\ failed' = failed
  BY DEF Close, dz_if_remove_device
<1>2. dev' \in [Slots -> Devices]
  BY <1>1 DEF TableInv, Devices, Free
<1>3. Used' = Used \ {s} /\ s \in Used
  BY <1>1 DEF Used, TableInv, Devices, Free
<1>4. Cardinality(Used') = Cardinality(Used) - 1
  BY <1>3, UsedFinite, FS_RemoveElement
<1>5. nrDevs' = Cardinality(Used') - failed' /\ failed \in Nat
  <2>1. nrDevs = Cardinality(Used) - failed /\ failed \in Nat
    BY DEF TableInv, DevicesReachable
  <2> QED BY <2>1, <1>1, <1>4, UsedFinite
<1>6. ASSUME failed' = 0
      PROVE  pages' = Used' /\ (notebook' <=> Used' # {})
  <2>1. pages = Used /\ notebook
    BY <1>1, <1>3, <1>6 DEF TableInv, DevicesReachable
  <2>2. nrDevs' = 0 <=> Cardinality(Used') = 0
    <3>1. Cardinality(Used') \in Int
      BY <1>4, UsedFinite
    <3> QED BY <3>1, <1>5, <1>6
  <2>3. Cardinality(Used') = 0 <=> Used' = {}
    <3>1. IsFiniteSet(Used')
      BY <1>3, UsedFinite, FS_RemoveElement
    <3> QED BY <3>1, FS_EmptySet
  <2> QED BY <2>1, <2>2, <2>3, <1>1, <1>3
<1>7. /\ nrDevs' \in Int /\ failed' \in Nat /\ pages' \subseteq Slots
      /\ cur' \in pages' \cup {0}
  BY <1>1, <1>5 DEF TableInv
<1> QED BY <1>2, <1>5, <1>6, <1>7 DEF TableInv, DevicesReachable

\* dz_if_exit closes all devices, if there is a notebook.
LEMMA ExitTable ==
  ASSUME TableInv, Exit
  PROVE  TableInv'
<1>1. /\ dev' = (IF notebook THEN [s \in Slots |-> Free] ELSE dev)
      /\ nrDevs' = (IF notebook THEN nrDevs - Cardinality(Used) ELSE nrDevs)
      /\ notebook' = FALSE /\ pages' = {} /\ cur' = 0 /\ failed' = failed
  BY DEF Exit, Used
<1>2. dev' \in [Slots -> Devices]
  <2>1. Free \in Devices
    BY DEF Free, Devices
  <2> QED BY <2>1, <1>1 DEF TableInv
<1>3. nrDevs = Cardinality(Used) - failed /\ failed \in Nat
  BY DEF TableInv, DevicesReachable
<1>4. nrDevs' = Cardinality(Used') - failed' /\ (failed' = 0 => Used' = {})
  <2>1. CASE notebook
    <3>1. Used' = {} /\ Cardinality(Used') = 0
      BY <1>1, <2>1, FS_EmptySet DEF Used, Free
    <3> QED BY <3>1, <2>1, <1>1, <1>3, UsedFinite
  <2>2. CASE ~notebook
    <3>1. Used' = Used
      BY <1>1, <2>2 DEF Used
    <3> QED BY <3>1, <2>2, <1>1, <1>3 DEF TableInv, DevicesReachable
  <2> QED BY <2>1, <2>2
<1>5. nrDevs' \in Int /\ failed' \in Nat
  BY <1>1, <1>3, UsedFinite
<1> QED BY <1>1, <1>2, <1>4, <1>5 DEF TableInv, DevicesReachable

\* An open that fails, and the choice of another page.
LEMMA OtherTable ==
  ASSUME TableInv, OpenFails \/ \E s \in Slots : SetPage(s)
  PROVE  TableInv'
<1>1. CASE OpenFails
  <2>1. /\ nrDevs' = nrDevs - 1 /\ failed' = failed + 1
        /\ UNCHANGED <<dev, notebook, pages, cur>>
    BY <1>1 DEF OpenFails
  <2>2. Used' = Used
    BY <2>1 DEF Used
  <2>3. nrDevs = Cardinality(Used) - failed /\ failed \in Nat
    BY DEF TableInv, DevicesReachable
  <2>4. nrDevs' = Cardinality(Used') - failed' /\ failed' \in Nat /\ failed' # 0
        /\ nrDevs' \in Int
    BY <2>1, <2>2, <2>3, UsedFinite
  <2> QED BY <2>1, <2>4 DEF TableInv, DevicesReachable
<1>2. CASE \E s \in Slots : SetPage(s)
  <2>1. Used' = Used
    BY <1>2 DEF SetPage, Used
  <2> QED BY <2>1, <1>2 DEF SetPage, TableInv, DevicesReachable
<1> QED BY <1>1, <1>2

-----------------------------------------------------------------------------
(***************************************************************************)
(* Commands.                                                               *)
(***************************************************************************)
\* A thread that is started is the one that the slot and the new call name.
LEMMA ExecInv ==
  ASSUME IndInv, NEW s \in Slots, NEW cmd \in {"report", "op"}, NEW msg \in BOOLEAN,
         NEW by \in {"user", "timer"}, dz_cmd_exec(s, cmd, msg, by),
         UNCHANGED table, nested' \in BOOLEAN, ~nested' => Running = {}
  PROVE  IndInv'
<1> DEFINE n == Len(thr) + 1
           d == IF msg THEN n ELSE 0
<1>1. /\ dev \in [Slots -> Devices] /\ stack \in Seq(Frames) /\ thr \in Seq(Threads)
      /\ TableInv
  BY DEF IndInv, TableInv, CallInv
<1>2. n \in Nat /\ d \in Nat /\ Len(thr) \in Nat
  BY <1>1
<1>3. ASSUME NEW e \in Threads, thr' = Append(thr, e), e.slot = s,
             NEW f \in Frames, stack' = Append(stack, f), f.slot = s,
             dev' \in [Slots -> Devices],
             \A q \in Slots : dev'[q].open = dev[q].open,
             e.pc # "over" => dev'[s].thread = n /\ f.pc \in {"enter", "run", "join"}
      PROVE  IndInv'
  <2>1. /\ thr' \in Seq(Threads) /\ Len(thr') = n
        /\ \A k \in 1..Len(thr) : thr'[k] = thr[k]
        /\ thr'[n] = e
    BY <1>1, <1>3, AppendProperties
  <2>2. /\ stack' \in Seq(Frames) /\ stack' # <<>> /\ Top' = f
    BY <1>1, <1>3, PushFacts DEF Top
  <2>3. ASSUME ~nested', NEW t \in Running'
        PROVE  t = n /\ e.pc # "over"
    <3>1. t \in 1..n /\ thr'[t].pc # "over"
      BY <2>1 DEF Running
    <3>2. ASSUME t # n PROVE FALSE
      <4>1. t \in 1..Len(thr)
        BY <3>1, <3>2, <1>2
      <4>2. t \in Running
        BY <4>1, <3>1, <2>1 DEF Running
      <4> QED BY <4>2, <2>3
    <3> QED BY <3>1, <3>2, <2>1
  <2>4. OneCommand'
    BY <2>1, <2>2, <2>3, <1>3 DEF OneCommand
  <2>5. TableInv'
    BY <1>1, <1>3, TableKept
  <2> QED BY <2>1, <2>2, <2>4, <2>5 DEF IndInv, CallInv
<1> HIDE DEF n, d
<1>4. CASE /\ dev' = [dev EXCEPT ![s].cmd = cmd, ![s].dialog = d, ![s].thread = n]
           /\ thr' = Append(thr, [slot |-> s, pc |-> "start", ret |-> 0])
           /\ stack' = Append(stack, Frame(s, by, d, IF msg THEN "enter" ELSE "join"))
  <2> DEFINE e == [slot |-> s, pc |-> "start", ret |-> 0]
             f == Frame(s, by, d, IF msg THEN "enter" ELSE "join")
  <2>1. e \in Threads /\ e.slot = s
    BY DEF Threads
  <2>2. f \in Frames /\ f.slot = s /\ f.pc \in {"enter", "run", "join"}
    BY <1>2 DEF Frames, Frame
  <2>3. dev' \in [Slots -> Devices] /\ dev'[s].thread = n
    <3>1. dev[s] \in Devices
      BY <1>1
    <3>2. [dev[s] EXCEPT !.cmd = cmd, !.dialog = d, !.thread = n] \in Devices
      BY <3>1, <1>2 DEF Devices
    <3>3. dev' = [dev EXCEPT ![s] =
                    [dev[s] EXCEPT !.cmd = cmd, !.dialog = d, !.thread = n]]
      BY <1>4
    <3>4. dev' \in [Slots -> Devices]
      BY <3>2, <3>3, <1>1
    <3>5. dev'[s] = [dev[s] EXCEPT !.cmd = cmd, !.dialog = d, !.thread = n]
      BY <3>3, <1>1
    <3>6. dev'[s].thread = n
      BY <3>1, <3>5 DEF Devices
    <3> QED BY <3>4, <3>6
  <2>4. \A q \in Slots : dev'[q].open = dev[q].open
    BY <1>1, <1>4 DEF Devices
  <2> HIDE DEF e, f
  <2>5. thr' = Append(thr, e) /\ stack' = Append(stack, f)
    BY <1>4 DEF e, f
  <2> QED BY <2>1, <2>2, <2>3, <2>4, <2>5, <1>3
<1>5. CASE /\ dev' = [dev EXCEPT ![s].cmd = cmd, ![s].dialog = 0]
           /\ thr' = Append(thr, [slot |-> s, pc |-> "over", ret |-> -1])
           /\ stack' = Append(stack, Frame(s, by, 0, "err"))
  <2> DEFINE e == [slot |-> s, pc |-> "over", ret |-> -1]
             f == Frame(s, by, 0, "err")
  <2>1. e \in Threads /\ e.slot = s /\ e.pc = "over"
    BY DEF Threads
  <2>2. f \in Frames /\ f.slot = s
    BY DEF Frames, Frame
  <2>3. dev' \in [Slots -> Devices]
    BY <1>1, <1>5 DEF Devices
  <2>4. \A q \in Slots : dev'[q].open = dev[q].open
    BY <1>1, <1>5 DEF Devices
  <2> HIDE DEF e, f
  <2>5. thr' = Append(thr, e) /\ stack' = Append(stack, f)
    BY <1>5 DEF e, f
  <2> QED BY <2>1, <2>2, <2>3, <2>4, <2>5, <1>3
<1> QED BY <1>4, <1>5 DEF dz_cmd_exec, n, d

\* A command that starts, alone or inside the dialog of another one.
LEMMA StartInv ==
  ASSUME IndInv, Refresh \/ ZoneOp \/ TimerFires
  PROVE  IndInv'
<1>1. cur # 0 /\ cur \in Slots
  BY DEF IndInv, TableInv, Refresh, ZoneOp, TimerFires
<1>2. nested \in BOOLEAN /\ (~nested => OneCommand)
  BY DEF IndInv, CallInv
<1>3. CASE Refresh \/ ZoneOp
  <2>1. stack = <<>> /\ nested' = nested /\ UNCHANGED table
    BY <1>3 DEF Refresh, ZoneOp, Idle, flags
  <2>2. ~nested' => Running = {}
    BY <2>1, <1>2 DEF OneCommand
  <2>3. \E cmd \in {"report", "op"}, msg \in BOOLEAN : dz_cmd_exec(cur, cmd, msg, "user")
    BY <1>3 DEF Refresh, ZoneOp
  <2> QED BY <2>1, <2>2, <2>3, <1>1, <1>2, ExecInv
<1>4. CASE TimerFires
  <2>1. /\ nested' = (nested \/ \E k \in 1..Len(stack) : stack[k].pc = "run")
        /\ UNCHANGED table /\ dz_cmd_exec(cur, "report", TRUE, "timer")
        /\ stack # <<>> => Top.pc \in {"run", "err"}
    BY <1>4 DEF TimerFires
  <2>2. nested' \in BOOLEAN
    BY <2>1, <1>2
  <2>3. ASSUME ~nested' PROVE Running = {}
    <3>1. CASE stack = <<>>
      BY <3>1, <2>1, <2>3, <1>2 DEF OneCommand
    <3>2. CASE stack # <<>>
      <4>1. Len(stack) \in Nat \ {0} /\ Top = stack[Len(stack)]
        BY <3>2, TopFacts DEF IndInv, CallInv
      <4>2. \A m \in Nat \ {0} : m \in 1..m
        OBVIOUS
      <4>3. Len(stack) \in 1..Len(stack)
        BY <4>1, <4>2, Zenon
      <4>4. stack[Len(stack)].pc # "run"
        BY <4>3, <2>1, <2>3, Zenon
      <4>5. Top.pc = "err"
        BY <4>1, <4>4, <3>2, <2>1
      <4> QED BY <4>5, <2>1, <2>3, <1>2 DEF OneCommand
    <3> QED BY <3>1, <3>2
  <2> QED BY <2>1, <2>2, <2>3, <1>1, ExecInv
<1> QED BY <1>3, <1>4

\* A step of the innermost call that keeps its slot.
LEMMA SetTopInv ==
  ASSUME IndInv, stack # <<>>, NEW f \in Frames, stack' = Front(stack) \o <<f>>,
         f.slot = Top.slot,
         f.pc \in {"enter", "run", "join"} \/ (~nested => Running = {}),
         UNCHANGED <<table, thr, nested>>, dev' \in [Slots -> Devices],
         \A s \in Slots : dev'[s].open = dev[s].open /\ dev'[s].thread = dev[s].thread
  PROVE  IndInv'
<1>1. /\ stack \in Seq(Frames) /\ thr \in Seq(Threads) /\ nested \in BOOLEAN
      /\ TableInv /\ OneCommand
  BY DEF IndInv, CallInv
<1>2. Top \in Frames /\ Front(stack) \in Seq(Frames)
  BY <1>1, TopFacts
<1>3. stack' \in Seq(Frames) /\ stack' # <<>> /\ Top' = f
  BY <1>2, PushFacts DEF Top
<1>4. Running' = Running
  BY DEF Running
<1>5. TableInv'
  BY <1>1, TableKept
<1>6. OneCommand'
  <2> SUFFICES ASSUME ~nested, NEW t \in Running
               PROVE  /\ Top'.slot = thr[t].slot
                      /\ Top'.pc \in {"enter", "run", "join"}
                      /\ dev'[Top'.slot].thread = t
    BY <1>3, <1>4 DEF OneCommand
  <2>1. Top.slot = thr[t].slot /\ dev[Top.slot].thread = t
    BY <1>1 DEF OneCommand
  <2>2. Top.slot \in Slots
    BY <1>2 DEF Frames
  <2> QED BY <2>1, <2>2, <1>3
<1>7. thr' \in Seq(Threads) /\ nested' \in BOOLEAN
  BY <1>1
<1> QED BY <1>3, <1>5, <1>6, <1>7 DEF IndInv, CallInv

\* The innermost call ends.
LEMMA PopInv ==
  ASSUME IndInv, stack # <<>>, stack' = Front(stack), ~nested => Running = {},
         UNCHANGED <<table, thr, nested>>, dev' \in [Slots -> Devices],
         \A s \in Slots : dev'[s].open = dev[s].open
  PROVE  IndInv'
<1>1. /\ stack \in Seq(Frames) /\ thr \in Seq(Threads) /\ nested \in BOOLEAN
      /\ TableInv
  BY DEF IndInv, CallInv
<1>2. stack' \in Seq(Frames)
  BY <1>1, TopFacts
<1>3. Running' = Running
  BY DEF Running
<1>4. TableInv'
  BY <1>1, TableKept
<1>5. OneCommand'
  BY <1>3 DEF OneCommand
<1>6. thr' \in Seq(Threads) /\ nested' \in BOOLEAN
  BY <1>1
<1> QED BY <1>2, <1>4, <1>5, <1>6 DEF IndInv, CallInv

\* gtk_dialog_run begins or ends.
LEMMA DialogInv ==
  ASSUME IndInv, EnterRun \/ RunEnds \/ Escape
  PROVE  IndInv'
<1>1. /\ stack # <<>> /\ stack \in Seq(Frames) /\ dev \in [Slots -> Devices]
  BY DEF IndInv, TableInv, CallInv, EnterRun, RunEnds, Escape
<1>2. Top \in Frames
  BY <1>1, TopFacts
<1>3. UNCHANGED <<table, thr, nested, dev>>
  BY DEF EnterRun, RunEnds, Escape, MainOnly, flags
<1>4. PICK f \in Frames :
         /\ f.slot = Top.slot /\ f.pc \in {"run", "join"}
         /\ stack' = Front(stack) \o <<f>>
  <2>1. CASE EnterRun
    <3>1. /\ [Top EXCEPT !.pc = "run"] \in Frames
          /\ [Top EXCEPT !.pc = "run"].slot = Top.slot
          /\ [Top EXCEPT !.pc = "run"].pc = "run"
      BY <1>2 DEF Frames
    <3> QED BY <2>1, <3>1 DEF EnterRun, SetTop
  <2>2. CASE RunEnds
    <3>1. /\ [Top EXCEPT !.pc = "join"] \in Frames
          /\ [Top EXCEPT !.pc = "join"].slot = Top.slot
          /\ [Top EXCEPT !.pc = "join"].pc = "join"
      BY <1>2 DEF Frames
    <3> QED BY <2>2, <3>1 DEF RunEnds, SetTop
  <2>3. CASE Escape
    <3>1. /\ [Top EXCEPT !.pc = "join", !.ans = "reject"] \in Frames
          /\ [Top EXCEPT !.pc = "join", !.ans = "reject"].slot = Top.slot
          /\ [Top EXCEPT !.pc = "join", !.ans = "reject"].pc = "join"
      BY <1>2 DEF Frames
    <3> QED BY <2>3, <3>1 DEF Escape, SetTop
  <2> QED BY <2>1, <2>2, <2>3
<1> QED BY <1>1, <1>3, <1>4, SetTopInv

\* pthread_join waits for the one command that runs.
LEMMA JoinInv ==
  ASSUME IndInv, Join
  PROVE  IndInv'
<1> DEFINE s == Top.slot
<1>1. /\ stack # <<>> /\ stack \in Seq(Frames) /\ dev \in [Slots -> Devices]
      /\ OneCommand /\ thr[dev[s].thread].pc = "over"
      /\ \E ok \in BOOLEAN : Finish(s, ok)
  BY DEF IndInv, TableInv, CallInv, Join
<1>2. Top \in Frames /\ s \in Slots
  BY <1>1, TopFacts DEF Frames
<1>3. ~nested => Running = {}
  <2> SUFFICES ASSUME ~nested, NEW t \in Running PROVE FALSE
    OBVIOUS
  <2>1. dev[s].thread = t /\ thr[t].pc # "over"
    BY <1>1 DEF OneCommand, Running
  <2> QED BY <2>1, <1>1
<1>4. PICK ok \in BOOLEAN : Finish(s, ok)
  BY <1>1
<1> HIDE DEF s
<1>5. /\ UNCHANGED <<table, thr, nested>>
      /\ dev' = [dev EXCEPT ![s].dialog = 0]
      /\ \/ stack' = Front(stack)
         \/ stack' = Front(stack) \o <<[Top EXCEPT !.pc = "err"]>>
  BY <1>4 DEF Finish, SetTop, MainOnly
<1>6. /\ dev' \in [Slots -> Devices]
      /\ \A q \in Slots : dev'[q].open = dev[q].open /\ dev'[q].thread = dev[q].thread
  BY <1>1, <1>2, <1>5 DEF Devices
<1>7. CASE stack' = Front(stack)
  BY <1>1, <1>3, <1>5, <1>6, <1>7, PopInv
<1>8. CASE stack' = Front(stack) \o <<[Top EXCEPT !.pc = "err"]>>
  <2>1. [Top EXCEPT !.pc = "err"] \in Frames /\ [Top EXCEPT !.pc = "err"].slot = Top.slot
    BY <1>2 DEF Frames
  <2> QED BY <2>1, <1>1, <1>3, <1>5, <1>6, <1>8, SetTopInv
<1> QED BY <1>5, <1>7, <1>8

\* The dialog that reports an error is closed.
LEMMA CloseErrorInv ==
  ASSUME IndInv, CloseError
  PROVE  IndInv'
<1>1. /\ stack # <<>> /\ Top.pc = "err" /\ stack' = Front(stack)
      /\ UNCHANGED <<table, thr, nested, dev>>
  BY DEF CloseError, MainOnly, flags
<1>2. dev \in [Slots -> Devices] /\ OneCommand
  BY DEF IndInv, TableInv, CallInv
<1>3. ~nested => Running = {}
  BY <1>1, <1>2 DEF OneCommand
<1> QED BY <1>1, <1>2, <1>3, PopInv

\* Without a call, there is no command: the table may change.
LEMMA IdleInv ==
  ASSUME IndInv, TableInv', UNCHANGED <<stack, thr, nested>>,
         dev' = dev \/ stack = <<>>
  PROVE  IndInv'
<1>1. /\ stack \in Seq(Frames) /\ thr \in Seq(Threads) /\ nested \in BOOLEAN
      /\ OneCommand
  BY DEF IndInv, CallInv
<1>2. Running' = Running /\ Top' = Top
  BY DEF Running, Top
<1>3. OneCommand'
  BY <1>1, <1>2 DEF OneCommand
<1>4. stack' \in Seq(Frames) /\ thr' \in Seq(Threads) /\ nested' \in BOOLEAN
  BY <1>1
<1> QED BY <1>3, <1>4 DEF IndInv, CallInv

\* What a thread does to its own state and to the answers of dialogs.
LEMMA ThreadFacts ==
  ASSUME IndInv, NEW t \in 1..Len(thr), NEW e \in Threads, e.slot = thr[t].slot,
         thr[t].pc # "over", thr' = [thr EXCEPT ![t] = e],
         stack' \in Seq(Frames), Len(stack') = Len(stack),
         \A k \in 1..Len(stack) :
           stack'[k].slot = stack[k].slot /\ stack'[k].pc = stack[k].pc,
         UNCHANGED <<dev, table, nested>>
  PROVE  IndInv'
<1>1. /\ stack \in Seq(Frames) /\ thr \in Seq(Threads) /\ nested \in BOOLEAN
      /\ TableInv /\ OneCommand /\ dev \in [Slots -> Devices]
  BY DEF IndInv, CallInv, TableInv
<1>2. /\ thr' \in Seq(Threads) /\ Len(thr') = Len(thr)
      /\ \A u \in 1..Len(thr) : thr'[u] = IF u = t THEN e ELSE thr[u]
  BY <1>1
<1>3. TableInv'
  BY <1>1, TableKept
<1>4. ASSUME ~nested, NEW u \in Running'
      PROVE  /\ stack' # <<>> /\ Top'.slot = thr'[u].slot
             /\ Top'.pc \in {"enter", "run", "join"}
             /\ dev[Top'.slot].thread = u
  <2>1. u \in 1..Len(thr) /\ u \in Running /\ thr'[u].slot = thr[u].slot
    BY <1>2 DEF Running
  <2>2. /\ stack # <<>> /\ Top.slot = thr[u].slot /\ Top.pc \in {"enter", "run", "join"}
        /\ dev[Top.slot].thread = u
    BY <2>1, <1>1, <1>4 DEF OneCommand
  <2>3. Len(stack) \in Nat \ {0} /\ Top = stack[Len(stack)]
    BY <2>2, <1>1, TopFacts
  <2>4. stack' # <<>> /\ Top' = stack'[Len(stack)]
    <3>1. Len(stack') # 0
      BY <2>3
    <3> QED BY <3>1 DEF Top, Last
  <2>5. \A m \in Nat \ {0} : m \in 1..m
    OBVIOUS
  <2>6. Len(stack) \in 1..Len(stack)
    BY <2>3, <2>5, Zenon
  <2>7. Top'.slot = Top.slot /\ Top'.pc = Top.pc
    BY <2>3, <2>4, <2>6, Zenon
  <2> QED BY <2>1, <2>2, <2>4, <2>7
<1>5. OneCommand'
  BY <1>4 DEF OneCommand
<1>6. nested' \in BOOLEAN
  BY <1>1
<1> QED BY <1>2, <1>3, <1>5, <1>6 DEF IndInv, CallInv

\* The steps of the command threads.
LEMMA ThreadInv ==
  ASSUME IndInv, NEW t \in 1..MaxCmds, ThreadStep(t)
  PROVE  IndInv'
<1>1. /\ stack \in Seq(Frames) /\ thr \in Seq(Threads) /\ dev \in [Slots -> Devices]
      /\ t \in 1..Len(thr)
  BY DEF IndInv, CallInv, TableInv, ThreadStep
<1>2. thr[t] \in Threads /\ dev[thr[t].slot] \in Devices
  <2>1. thr[t] \in Threads
    BY <1>1
  <2> QED BY <2>1, <1>1 DEF Threads
<1>3. CASE Start(t) \/ Operate(t) \/ Report(t)
  <2>1. stack' = stack /\ UNCHANGED <<dev, table, nested>> /\ thr[t].pc # "over"
    BY <1>3 DEF Start, Operate, Report, ThreadOnly, flags
  <2>2. PICK e \in Threads : e.slot = thr[t].slot /\ thr' = [thr EXCEPT ![t] = e]
    <3>1. CASE Start(t)
      <4> DEFINE e == [thr[t] EXCEPT !.pc = dev[thr[t].slot].cmd]
      <4>1. e \in Threads /\ e.slot = thr[t].slot
        BY <1>2 DEF Threads, Devices
      <4>2. thr' = [thr EXCEPT ![t] = e]
        BY <3>1, <1>1 DEF Start
      <4> QED BY <4>1, <4>2
    <3>2. CASE Operate(t)
      <4> DEFINE e == [thr[t] EXCEPT !.pc = "report"]
      <4>1. e \in Threads /\ e.slot = thr[t].slot
        BY <1>2 DEF Threads
      <4>2. thr' = [thr EXCEPT ![t] = e]
        BY <3>2, <1>1 DEF Operate
      <4> QED BY <4>1, <4>2
    <3>3. CASE Report(t)
      <4>1. PICK ret \in {0, -1} :
               thr' = [thr EXCEPT ![t].pc = "answer", ![t].ret = ret]
        BY <3>3 DEF Report
      <4> DEFINE e == [thr[t] EXCEPT !.pc = "answer", !.ret = ret]
      <4>2. e \in Threads /\ e.slot = thr[t].slot
        BY <1>2 DEF Threads
      <4>3. thr' = [thr EXCEPT ![t] = e]
        BY <4>1, <1>1
      <4> QED BY <4>2, <4>3
    <3> QED BY <1>3, <3>1, <3>2, <3>3
  <2> QED BY <2>1, <2>2, <1>1, ThreadFacts
<1>4. CASE Answer(t)
  <2> DEFINE e == [thr[t] EXCEPT !.pc = "over"]
  <2>1. e \in Threads /\ e.slot = thr[t].slot
    BY <1>2 DEF Threads
  <2>2. /\ thr' = [thr EXCEPT ![t] = e] /\ thr[t].pc # "over"
        /\ UNCHANGED <<dev, table, nested>>
    BY <1>1, <1>4 DEF Answer, ThreadOnly
  <2> HIDE DEF e
  <2>3. /\ stack' \in Seq(Frames) /\ Len(stack') = Len(stack)
        /\ \A k \in 1..Len(stack) :
             stack'[k].slot = stack[k].slot /\ stack'[k].pc = stack[k].pc
    <3>1. ASSUME NEW d, NEW ans \in {"ok", "reject"}
          PROVE  /\ Answered(d, ans) \in Seq(Frames)
                 /\ Len(Answered(d, ans)) = Len(stack)
                 /\ \A k \in 1..Len(stack) :
                      /\ Answered(d, ans)[k].slot = stack[k].slot
                      /\ Answered(d, ans)[k].pc = stack[k].pc
      <4> DEFINE a(k) == IF stack[k].dlg = d /\ stack[k].pc = "run"
                              /\ stack[k].ans = "none"
                           THEN [stack[k] EXCEPT !.ans = ans] ELSE stack[k]
      <4>1. ASSUME NEW k \in 1..Len(stack)
            PROVE  a(k) \in Frames /\ a(k).slot = stack[k].slot /\ a(k).pc = stack[k].pc
        <5>1. stack[k] \in Frames
          BY <1>1
        <5> QED BY <5>1 DEF Frames
      <4>2. Answered(d, ans) = [k \in 1..Len(stack) |-> a(k)]
        BY DEF Answered
      <4> HIDE DEF a
      <4>3. Len(stack) \in Nat
        BY <1>1
      <4> QED BY <4>1, <4>2, <4>3
    <3>2. \/ stack' = stack
          \/ \E d \in {dev[thr[t].slot].dialog}, ans \in {"ok", "reject"} :
               stack' = Answered(d, ans)
      BY <1>4 DEF Answer
    <3> QED BY <3>1, <3>2, <1>1
  <2> QED BY <2>1, <2>2, <2>3, <1>1, ThreadFacts
<1> QED BY <1>3, <1>4 DEF ThreadStep

\* gzbc starts with an empty table.
LEMMA InitInv == Init => IndInv
<1> SUFFICES ASSUME Init PROVE IndInv
  OBVIOUS
<1>1. dev \in [Slots -> Devices] /\ Used = {}
  BY DEF Init, Free, Devices, Used
<1>2. TableInv
  <2>1. Cardinality(Used) = 0
    BY <1>1, FS_EmptySet
  <2> QED BY <1>1, <2>1 DEF Init, TableInv, DevicesReachable
<1>3. CallInv
  <2>1. stack \in Seq(Frames) /\ thr \in Seq(Threads) /\ Len(thr) = 0
    BY DEF Init
  <2>2. Running = {}
    BY <2>1 DEF Running
  <2>3. nested \in BOOLEAN
    BY DEF Init
  <2> QED BY <2>1, <2>2, <2>3 DEF CallInv, OneCommand
<1> QED BY <1>2, <1>3 DEF IndInv

\* Every step of gzbc keeps the invariant.
LEMMA NextInv ==
  ASSUME IndInv, [Next]_vars
  PROVE  IndInv'
<1>1. TableInv
  BY DEF IndInv
<1>2. CASE Open
  <2>1. UNCHANGED <<stack, thr, nested>> /\ stack = <<>>
    BY <1>2 DEF Open, Idle, flags
  <2> QED BY <2>1, <1>1, <1>2, OpenTable, IdleInv
<1>3. CASE \E s \in Slots : Close(s)
  <2>1. UNCHANGED <<stack, thr, nested>> /\ stack = <<>>
    BY <1>3 DEF Close, Idle, flags
  <2> QED BY <2>1, <1>1, <1>3, CloseTable, IdleInv
<1>4. CASE Exit
  <2>1. UNCHANGED <<stack, thr, nested>> /\ stack = <<>>
    BY <1>4 DEF Exit, Idle, flags
  <2> QED BY <2>1, <1>1, <1>4, ExitTable, IdleInv
<1>5. CASE OpenFails \/ \E s \in Slots : SetPage(s)
  <2>1. UNCHANGED <<stack, thr, nested, dev>>
    BY <1>5 DEF OpenFails, SetPage, flags
  <2> QED BY <2>1, <1>1, <1>5, OtherTable, IdleInv
<1>6. CASE Signal \/ CloseGhost \/ UNCHANGED vars
  <2>1. UNCHANGED <<dev, table, stack, thr, nested>>
    BY <1>6 DEF Signal, CloseGhost, vars, flags, MainOnly
  <2>2. TableInv'
    BY <2>1, <1>1, TableKept DEF TableInv
  <2> QED BY <2>1, <2>2, IdleInv
<1>7. CASE Refresh \/ ZoneOp \/ TimerFires
  BY <1>7, StartInv
<1>8. CASE EnterRun \/ RunEnds \/ Escape
  BY <1>8, DialogInv
<1>9. CASE Join
  BY <1>9, JoinInv
<1>10. CASE CloseError
  BY <1>10, CloseErrorInv
<1>11. CASE \E t \in 1..MaxCmds : ThreadStep(t)
  BY <1>11, ThreadInv
<1> QED
  BY <1>2, <1>3, <1>4, <1>5, <1>6, <1>7, <1>8, <1>9, <1>10, <1>11
     DEF Next, MainStep

\* What holds at the start and is kept by every step holds always.
LEMMA Invariance == Spec => []IndInv
<1>1. Init => IndInv
  BY InitInv
<1>2. IndInv /\ [Next]_vars => IndInv'
  BY NextInv
<1> QED BY <1>1, <1>2, PTL DEF Spec

-----------------------------------------------------------------------------
(***************************************************************************)
(* The theorems.                                                           *)
(***************************************************************************)
\* Whatever is opened and closed in whatever order, dz.nr_devs is short by the
\* failed opens and by nothing else, and without these every open device has
\* its page in the notebook (dz_open, dz_close, dz_if_remove_device).
THEOREM DevicesTheorem == Spec => []DevicesReachable
<1>1. IndInv => DevicesReachable
  BY DEF IndInv, TableInv
<1> QED BY <1>1, Invariance, PTL

\* No thread of dz_cmd_run outlives the dz_cmd_exec that started it and a
\* device has one at a time, unless the timer fires while a dialog runs.
THEOREM ThreadsTheorem == Spec => []ThreadsInside
<1>1. IndInv => ThreadsInside
  <2> SUFFICES ASSUME IndInv, ~nested
               PROVE  /\ \A t \in Running : \E k \in 1..Len(stack) :
                           /\ stack[k].slot = thr[t].slot
                           /\ stack[k].pc \in {"enter", "run", "join"}
                      /\ \A t, u \in Running : thr[t].slot = thr[u].slot => t = u
    BY DEF ThreadsInside
  <2>1. ASSUME NEW t \in Running
        PROVE  /\ stack # <<>> /\ Top.slot = thr[t].slot
               /\ Top.pc \in {"enter", "run", "join"} /\ dev[Top.slot].thread = t
    BY DEF IndInv, CallInv, OneCommand
  <2>2. ASSUME NEW t \in Running
        PROVE  \E k \in 1..Len(stack) :
                 /\ stack[k].slot = thr[t].slot
                 /\ stack[k].pc \in {"enter", "run", "join"}
    <3>1. Top = stack[Len(stack)] /\ Len(stack) \in Nat \ {0}
      BY <2>1, TopFacts DEF IndInv, CallInv
    <3>2. \A m \in Nat \ {0} : m \in 1..m
      OBVIOUS
    <3>3. Len(stack) \in 1..Len(stack)
      BY <3>1, <3>2, Zenon
    <3> QED BY <2>1, <3>1, <3>3, Zenon
  <2>3. \A t, u \in Running : t = u
    BY <2>1
  <2> QED BY <2>2, <2>3
<1> QED BY <1>1, Invariance, PTL

-----------------------------------------------------------------------------
(***************************************************************************)
(* ZbcZoneIO: arithmetic, and the reader.                                  *)
(***************************************************************************)
\* The larger of two numbers, for the write pointer after a write.
LEMMA MaxOfTwo ==
  ASSUME NEW a \in Int, NEW b \in Int
  PROVE  Max({a, b}) = IF a >= b THEN a ELSE b
  BY DEF Max

\* The smaller of two numbers, for what is left of the file.
LEMMA MinOfTwo ==
  ASSUME NEW a \in Int, NEW b \in Int
  PROVE  Min({a, b}) = IF a <= b THEN a ELSE b
  BY DEF Min

\* Two stretches of sector numbers that follow each other are one.
LEMMA Stretches ==
  ASSUME NEW a \in Nat, NEW m \in Nat, NEW n \in Nat
  PROVE  [k \in 1..m |-> a + k - 1] \o [k \in 1..n |-> a + m + k - 1]
           = [k \in 1..(m + n) |-> a + k - 1]
<1> DEFINE s == [k \in 1..m |-> a + k - 1]
           u == [k \in 1..n |-> a + m + k - 1]
<1>1. s \in Seq(Int) /\ Len(s) = m /\ u \in Seq(Int) /\ Len(u) = n
  OBVIOUS
<1>2. s \o u \in Seq(Int) /\ Len(s \o u) = m + n
  BY <1>1
<1>3. ASSUME NEW k \in 1..(m + n) PROVE (s \o u)[k] = a + k - 1
  <2>1. CASE k <= m
    BY <1>1, <2>1
  <2>2. CASE k > m
    <3>1. (s \o u)[k] = u[k - m] /\ k - m \in 1..n
      BY <1>1, <2>2
    <3> QED BY <3>1
  <2> QED BY <2>1, <2>2
<1>4. s \o u = [k \in 1..(m + n) |-> a + k - 1]
  <2>1. s \o u = [k \in 1..Len(s \o u) |-> (s \o u)[k]]
    BY <1>2
  <2> QED BY <1>2, <1>3, <2>1
<1> QED BY <1>4

\* The zones of the device are numbers, and each has one of three types.
LEMMA ZoneFacts ==
  /\ Len(ZoneType) \in Nat /\ ZoneLen \in Nat \ {0}
  /\ \A z \in Zones : z \in Nat
  /\ \A z \in Zones : Type(z) \in {"conv", "swr", "swp"}
  BY ZoneIOAssumption DEF Zones, Type

\* What the fields of the reader hold.
LEMMA ReaderTypes ==
  ASSUME ZoneIOTypeOK
  PROVE  /\ r \in Reader
         /\ r.job.zidx \in Nat /\ r.job.io \in Nat \ {0} /\ r.job.nio \in Nat
         /\ r.job.ofst \in Nat /\ r.job.keep \in BOOLEAN
         /\ r.z \in Nat /\ r.ofst \in Nat /\ r.max \in 0..ZoneLen
         /\ r.iocount \in Nat /\ r.got \in Nat /\ r.lossy \in BOOLEAN
         /\ r.abort \in BOOLEAN /\ r.ret \in {0, 1}
  BY DEF ZoneIOTypeOK, Reader, ReadJob

\* The reader's own steps.
LEMMA ReaderStep ==
  ASSUME ZoneIOInv, RStep \/ RAbort
  PROVE  /\ r' \in Reader /\ emptied' \subseteq Zones
         /\ file' = "absent" \/ file' \in Seq(0..(ZoneLen - 1))
         /\ ReaderAt' /\ FileIsZone'
<1>0. /\ ZoneIOTypeOK /\ ReaderAt /\ FileIsZone /\ r \in Reader
      /\ emptied \subseteq Zones /\ wp \in [Zones -> 0..ZoneLen]
      /\ file = "absent" \/ file \in Seq(0..(ZoneLen - 1))
  BY DEF ZoneIOInv, ZoneIOTypeOK
<1>1. CASE RList
  <2>1. CASE r.job.zidx < Len(ZoneType)
    <3>1. r' = [r EXCEPT !.pc = "io", !.z = r.job.zidx, !.ofst = r.job.ofst,
                         !.max = ReadMax(r.job.zidx)]
          /\ file' = (IF r.job.keep THEN <<>> ELSE file)
          /\ emptied' = {} /\ wp' = wp /\ r.pc = "list"
      BY <1>1, <2>1 DEF RList, ROnly
    <3>2. r.job.zidx \in Zones
      BY <2>1, <1>0, ReaderTypes, ZoneFacts DEF Zones
    <3>3. ReadMax(r.job.zidx) \in 0..ZoneLen
          /\ (Type(r.job.zidx) = "swr" => ReadMax(r.job.zidx) <= wp[r.job.zidx])
      BY <1>0, <3>2, ZoneFacts DEF ReadMax
    <3>4. /\ r' \in Reader /\ r'.pc = "io" /\ r'.z = r.job.zidx /\ r'.ofst = r.job.ofst
          /\ r'.max = ReadMax(r.job.zidx) /\ r'.job = r.job /\ r'.ret = r.ret
          /\ r'.lossy = r.lossy
      BY <1>0, <3>1, <3>3, ReaderTypes DEF Reader
    <3>5. file = "absent" /\ r.ret = 0
      BY <1>0, <3>1 DEF ReaderAt
    <3>6. r.job.keep => file' = [k \in 1..(r'.ofst - r'.job.ofst) |-> r'.job.ofst + k - 1]
      <4>1. r'.ofst - r'.job.ofst = 0
        BY <3>4, <1>0, ReaderTypes
      <4> QED BY <3>1, <4>1
    <3>7. ReaderAt'
      BY <3>1, <3>2, <3>3, <3>4, <3>5, <3>6, <1>0, ReaderTypes DEF ReaderAt, Type
    <3>8. file' = "absent" \/ file' \in Seq(0..(ZoneLen - 1))
      <4>1. <<>> \in Seq(0..(ZoneLen - 1))
        OBVIOUS
      <4>2. file' = <<>> \/ file' = "absent"
        BY <3>1, <3>5
      <4> QED BY <4>1, <4>2
    <3>9. emptied' \subseteq Zones
      BY <3>1
    <3>10. FileIsZone'
      BY <3>4 DEF FileIsZone
    <3> QED BY <3>4, <3>7, <3>8, <3>9, <3>10
  <2>2. CASE ~(r.job.zidx < Len(ZoneType))
    <3>1. r' = [r EXCEPT !.pc = "done", !.ret = 1] /\ file' = file /\ emptied' = {}
          /\ r.pc = "list"
      BY <1>1, <2>2 DEF RList
    <3>2. r' \in Reader /\ r'.pc = "done" /\ r'.ret = 1 /\ r'.job = r.job
      BY <1>0, <3>1 DEF Reader
    <3> QED BY <1>0, <3>1, <3>2 DEF ReaderAt, FileIsZone
  <2> QED BY <2>1, <2>2
<1>2. CASE RGivesUp
  <2>1. r' = [r EXCEPT !.pc = "done", !.ret = 1] /\ file' = file /\ emptied' = emptied
        /\ r.pc = "list"
    BY <1>2 DEF RGivesUp
  <2>2. r' \in Reader /\ r'.pc = "done" /\ r'.ret = 1 /\ r'.job = r.job
    BY <1>0, <2>1 DEF Reader
  <2> QED BY <1>0, <2>1, <2>2 DEF ReaderAt, FileIsZone
<1>3. CASE REnds
  <2>1. r' = [r EXCEPT !.pc = "done", !.ret = 0] /\ file' = file /\ emptied' = emptied
        /\ r.pc = "io" /\ (r.abort \/ ReadCount = 0)
    BY <1>3 DEF REnds, RExit
  <2>2. /\ r' \in Reader /\ r'.pc = "done" /\ r'.ret = 0 /\ r'.job = r.job
        /\ r'.ofst = r.ofst /\ r'.max = r.max /\ r'.abort = r.abort
        /\ r'.lossy = r.lossy
    BY <1>0, <2>1 DEF Reader
  <2>3. ~r.abort => r.ofst = r.max
    BY <1>0, <2>1, ReaderTypes, ZoneFacts DEF ReadCount, Clip
  <2> QED BY <1>0, <2>1, <2>2, <2>3 DEF ReaderAt, FileIsZone
<1>4. CASE RRead
  <2>1. r' = [r EXCEPT !.pc = "save", !.got = ReadCount] /\ ReadCount > 0
    BY <1>4 DEF RRead
  <2>2. file' = file /\ emptied' = emptied /\ wp' = wp /\ r.pc = "io"
    BY <1>4 DEF RRead, ROnly
  <2>3. ReadCount \in Nat /\ r.ofst + ReadCount <= r.max
    <3>1. r.ofst \in Int /\ r.max \in Int /\ r.job.io \in Int
      BY <1>0, ReaderTypes, ZoneFacts
    <3>2. ReadCount \in Int /\ r.ofst + ReadCount <= r.max
      BY <3>1 DEF ReadCount, Clip
    <3> QED BY <2>1, <3>2
  <2>4. /\ r' \in Reader /\ r'.pc = "save" /\ r'.got = ReadCount /\ r'.job = r.job
        /\ r'.ofst = r.ofst /\ r'.max = r.max /\ r'.z = r.z /\ r'.lossy = r.lossy
        /\ r'.ret = r.ret
    BY <1>0, <2>1, <2>3 DEF Reader
  <2> QED BY <1>0, <2>1, <2>2, <2>3, <2>4 DEF ReaderAt, FileIsZone, Type
<1>5. CASE RReadFails \/ RSaveFails
  <2>1. r' = [r EXCEPT !.pc = "done", !.ret = 1] /\ emptied' = emptied
        /\ file' = (IF r.job.keep THEN "absent" ELSE file)
    BY <1>5 DEF RReadFails, RSaveFails, RExit
  <2>2. r' \in Reader /\ r'.pc = "done" /\ r'.ret = 1 /\ r'.job = r.job
    BY <1>0, <2>1 DEF Reader
  <2> QED BY <1>0, <2>1, <2>2 DEF ReaderAt, FileIsZone
<1>6. CASE RSave
  <2>1. PICK n \in (IF r.job.keep THEN 0..r.got ELSE {r.got}) :
          LET s == [r EXCEPT !.ofst = @ + r.got, !.iocount = @ + 1,
                             !.lossy = @ \/ n < r.got]
          IN  /\ r' = [s EXCEPT !.pc = IF r.job.nio > 0 /\ s.iocount >= r.job.nio
                                         THEN "done" ELSE "io"]
              /\ file' = IF r.job.keep
                           THEN file \o [k \in 1..n |-> r.ofst + k - 1] ELSE file
    BY <1>6 DEF RSave
  <2>2. emptied' = emptied /\ wp' = wp /\ r.pc = "save"
    BY <1>6 DEF RSave, ROnly
  <2>3. n \in 0..r.got
    BY <1>0, <2>1, ReaderTypes
  <2>4. /\ r' \in Reader /\ r'.job = r.job /\ r'.ofst = r.ofst + r.got
        /\ r'.max = r.max /\ r'.z = r.z /\ r'.ret = r.ret
        /\ r'.pc \in {"io", "done"} /\ (r'.pc = "done" => r.job.nio > 0)
    <3> DEFINE lossy == r.lossy \/ n < r.got
               next == IF r.job.nio > 0 /\ r.iocount + 1 >= r.job.nio
                         THEN "done" ELSE "io"
    <3>1. r' = [r EXCEPT !.ofst = r.ofst + r.got, !.iocount = r.iocount + 1,
                         !.lossy = lossy, !.pc = next]
      BY <1>0, <2>1 DEF Reader
    <3>2. r.ofst + r.got \in Nat /\ r.iocount + 1 \in Nat /\ lossy \in BOOLEAN
          /\ next \in {"io", "done"} /\ (next = "done" => r.job.nio > 0)
      BY <1>0, ReaderTypes
    <3> HIDE DEF lossy, next
    <3> QED BY <1>0, <3>1, <3>2 DEF Reader
  <2>5. ~r'.lossy => ~r.lossy /\ n = r.got
    BY <1>0, <2>1, <2>3, ReaderTypes DEF Reader
  <2>6. /\ r.z \in Zones /\ r.ret = 0 /\ r.ofst >= r.job.ofst
        /\ Type(r.z) = "swr" /\ r.z \notin emptied => r.max <= wp[r.z]
        /\ r.got > 0 /\ r.ofst + r.got <= r.max
    BY <1>0, <2>2 DEF ReaderAt
  <2>7. CASE r.job.keep
    <3>1. file \in Seq(0..(ZoneLen - 1))
          /\ (~r.lossy => file = [k \in 1..(r.ofst - r.job.ofst) |-> r.job.ofst + k - 1])
      BY <1>0, <2>2, <2>7 DEF ReaderAt
    <3>2. [k \in 1..n |-> r.ofst + k - 1] \in Seq(0..(ZoneLen - 1))
      <4>1. ASSUME NEW k \in 1..n PROVE r.ofst + k - 1 \in 0..(ZoneLen - 1)
        <5>1. r.ofst \in Nat /\ r.got \in Nat /\ r.max \in Int /\ r.max <= ZoneLen
              /\ ZoneLen \in Nat
          BY <1>0, ReaderTypes, ZoneFacts
        <5>2. n \in Int /\ n <= r.got /\ k \in Int /\ 1 <= k /\ k <= n
          BY <2>3, <5>1
        <5> QED BY <2>6, <5>1, <5>2
      <4>2. n \in Nat
        BY <1>0, <2>3, ReaderTypes
      <4> QED BY <4>1, <4>2
    <3>3. file' = file \o [k \in 1..n |-> r.ofst + k - 1]
      BY <2>1, <2>7
    <3>4. file' \in Seq(0..(ZoneLen - 1))
      BY <3>1, <3>2, <3>3
    <3>5. ASSUME ~r'.lossy
          PROVE  file' = [k \in 1..(r'.ofst - r.job.ofst) |-> r.job.ofst + k - 1]
      <4> DEFINE m == r.ofst - r.job.ofst
      <4>1. m \in Nat /\ r.ofst = r.job.ofst + m /\ r'.ofst - r.job.ofst = m + r.got
        BY <1>0, <2>4, <2>6, ReaderTypes
      <4>2. file' = [k \in 1..m |-> r.job.ofst + k - 1]
                      \o [k \in 1..r.got |-> r.job.ofst + m + k - 1]
        BY <2>5, <3>1, <3>3, <3>5, <4>1
      <4> HIDE DEF m
      <4>3. r.job.ofst \in Nat /\ r.got \in Nat
        BY <1>0, ReaderTypes
      <4>4. file' = [k \in 1..(m + r.got) |-> r.job.ofst + k - 1]
        BY <4>1, <4>2, <4>3, Stretches
      <4> QED BY <4>1, <4>4
    <3>6. ReaderAt'
      <4>1. r'.ofst >= r.job.ofst
        BY <1>0, <2>4, <2>6, ReaderTypes
      <4> QED
        BY <2>2, <2>4, <2>6, <2>7, <3>4, <3>5, <4>1 DEF ReaderAt, Type
    <3>7. FileIsZone'
      BY <2>4, <2>6, <2>7, <3>5 DEF FileIsZone
    <3> QED BY <1>0, <2>2, <2>4, <3>4, <3>6, <3>7
  <2>8. CASE ~r.job.keep
    <3>1. file' = "absent"
      BY <1>0, <2>1, <2>8 DEF ReaderAt
    <3> QED
      BY <1>0, <2>2, <2>4, <2>6, <2>8, <3>1, ReaderTypes DEF ReaderAt, FileIsZone, Type
  <2> QED BY <2>7, <2>8
<1>7. CASE RAbort
  <2>1. r' = [r EXCEPT !.abort = TRUE] /\ file' = file /\ emptied' = emptied /\ wp' = wp
        /\ r.pc # "done"
    BY <1>7 DEF RAbort, ROnly
  <2>2. /\ r' \in Reader /\ r'.pc = r.pc /\ r'.job = r.job /\ r'.ofst = r.ofst
        /\ r'.max = r.max /\ r'.z = r.z /\ r'.ret = r.ret /\ r'.lossy = r.lossy
        /\ r'.got = r.got
    BY <1>0, <2>1 DEF Reader
  <2> QED BY <1>0, <2>1, <2>2 DEF ReaderAt, FileIsZone, Type
<1> QED BY <1>1, <1>2, <1>3, <1>4, <1>5, <1>6, <1>7 DEF RStep

-----------------------------------------------------------------------------
\* What the fields of the writer hold.
LEMMA WriterTypes ==
  ASSUME ZoneIOTypeOK
  PROVE  /\ w \in Writer
         /\ w.job.zidx \in Nat /\ w.job.nz \in Nat /\ w.job.io \in Nat \ {0}
         /\ w.job.nio \in Nat /\ w.job.ofst \in Nat /\ w.job.size \in Nat \cup {-1}
         /\ w.job.loop \in BOOLEAN /\ w.job.flush \in BOOLEAN
         /\ w.z \in Nat /\ w.ofst \in Nat /\ w.max \in 0..ZoneLen
         /\ w.iocount \in Nat /\ w.fpos \in Nat /\ w.buf \in Seq(Nat)
         /\ w.abort \in BOOLEAN /\ w.ret \in Int
  BY DEF ZoneIOTypeOK, Writer, WriteJob

\* In the loop over the zones the writer is at a zone of the device.
LEMMA AtZone ==
  ASSUME ZoneIOTypeOK, WriterAt, InZone \/ w.pc = "zone",
         w.z < w.job.zidx + w.job.nz
  PROVE  w.z \in Zones
<1>1. w.job.zidx + w.job.nz <= Len(ZoneType)
  BY DEF WriterAt, WAccepts
<1>2. w.z \in Nat /\ w.job.zidx \in Nat /\ w.job.nz \in Nat /\ Len(ZoneType) \in Nat
  BY WriterTypes, ZoneFacts
<1> QED BY <1>1, <1>2 DEF Zones

\* A step that writes nothing keeps what was written in order.
LEMMA OutKept ==
  ASSUME OutInOrder, FileInOrder, out' = out, w'.job = w.job
  PROVE  OutInOrder' /\ FileInOrder'
  BY DEF OutInOrder, FileInOrder, StartsZone

\* The program leaves the loops.
LEMMA LoopsEnd ==
  ASSUME WriterInv, out' = out, w'.job = w.job,
         w'.z = w.z, w'.fpos = w.fpos, w'.pc \in {"flush", "done"}
  PROVE  WriterInv'
<1>1. OutInOrder' /\ FileInOrder'
  BY OutKept DEF WriterInv
<1>2. WriterAt'
  BY DEF WriterInv, WriterAt, InZone
<1>3. Counted' /\ ListHolds' /\ FileAt'
  BY DEF Counted, ListHolds, FileAt, InZone
<1> QED BY <1>1, <1>2, <1>3 DEF WriterInv

\* What was written last is a sector of the file, or zeroes.
LEMMA LastSrcType ==
  ASSUME out \in Seq([z : Zones, at : Nat, src : Nat]), out /= <<>>
  PROVE  LastSrc \in Nat
<1>1. Len(out) \in 1..Len(out)
  OBVIOUS
<1>2. out[Len(out)] \in [z : Zones, at : Nat, src : Nat]
  BY <1>1, ElementOfSeq
<1> QED BY <1>2 DEF LastSrc

\* The loop over the I/Os ends, without a write, for the next zone.
LEMMA ZoneLeft ==
  ASSUME ZoneIOTypeOK, WriterInv, InZone,
         out' = out, wp' = wp, foreign' = foreign,
         w'.job = w.job, w'.list = w.list,
         Len(w'.buf) = Len(w.buf),
         w'.fpos = w.fpos \/ (w'.fpos = 0 /\ w.job.loop),
         w'.pc = "zone", w'.z = w.z + 1
  PROVE  WriterInv'
<1>1. OutInOrder' /\ FileInOrder'
  BY OutKept DEF WriterInv
<1>2. /\ w.list \in [Zones -> 0..ZoneLen] /\ WAccepts(w.job)
      /\ Len(w.buf) = w.job.io
      /\ w.z \in w.job.zidx..(w.job.zidx + w.job.nz)
      /\ w.z < w.job.zidx + w.job.nz
      /\ w.job.size >= 0 => w.fpos <= w.job.size
      /\ \A k \in 1..Len(out) : out[k].z <= w.z
  BY DEF WriterInv, WriterAt
<1>3. out \in Seq([z : Zones, at : Nat, src : Nat]) /\ w.z \in Nat
      /\ w.job.zidx \in Nat /\ w.job.nz \in Nat
  BY WriterTypes DEF ZoneIOTypeOK
<1>4. \A k \in 1..Len(out) : out[k].z \in Nat /\ out[k].z < w.z + 1
  <2> TAKE k \in 1..Len(out)
  <2>1. out[k] \in [z : Zones, at : Nat, src : Nat]
    BY <1>3, ElementOfSeq
  <2>2. out[k].z \in Zones
    BY <2>1
  <2>3. out[k].z \in Nat /\ out[k].z <= w.z
    BY <1>2, <2>2, ZoneFacts
  <2>4. w.z \in Nat
    BY <1>3
  <2> QED BY <2>3, <2>4
<1>5. ~Continues'
  <2>1. out /= <<>> => Len(out) \in 1..Len(out)
    BY <1>3
  <2> QED BY <1>3, <1>4, <2>1 DEF Continues
<1>6. WriterAt'
  <2>1. w'.z \in w'.job.zidx..(w'.job.zidx + w'.job.nz)
    BY <1>2, <1>3
  <2>2. \A k \in 1..Len(out') : out'[k].z <= w'.z
    <3> TAKE k \in 1..Len(out')
    <3>1. out[k].z \in Nat /\ out[k].z < w.z + 1 /\ w.z \in Nat
      BY <1>3, <1>4
    <3> QED BY <3>1
  <2>3. w'.job.size >= 0 => w'.fpos <= w'.job.size
    BY <1>2
  <2> QED BY <1>2, <1>5, <2>1, <2>2, <2>3 DEF WriterAt, InZone, WAccepts
<1>7. Counted'
  BY DEF Counted
<1>8. ListHolds'
  <2>1. ASSUME NEW z \in Zones \ foreign, z >= w.z + 1 PROVE wp[z] = w.list[z]
    <3>1. z > w.z
      BY <1>3, <2>1, ZoneFacts
    <3> QED BY <2>1, <3>1 DEF WriterInv, ListHolds
  <2>2. \A z \in Zones : z > w.z + 1 \/ z = w.z + 1 => z >= w.z + 1
    BY <1>3, ZoneFacts
  <2> QED BY <2>1, <2>2 DEF ListHolds, InZone
<1>9. FileAt'
  <2> SUFFICES ASSUME w.job.size >= 0, ~w.job.loop PROVE FileAt'
    BY DEF FileAt
  <2>1. w'.z /= w'.job.zidx
    BY <1>2, <1>3
  <2>2. ASSUME out /= <<>>
        PROVE  LastSrc <= w.fpos /\ (LastSrc = 0 => w.fpos = w.job.size)
    <3>1. CASE w.pc = "file"
      BY <2>2, <3>1 DEF WriterInv, FileAt
    <3>2. CASE w.pc = "io"
      <4>1. /\ w.buf[1] \in 1..w.job.size /\ LastSrc > 0 /\ LastSrc < w.buf[1]
            /\ w.fpos = IF w.buf[1] + w.job.io - 1 <= w.job.size
                          THEN w.buf[1] + w.job.io - 1 ELSE w.job.size
        BY <2>2, <3>2 DEF WriterInv, FileAt
      <4>2. w.job.io \in Nat \ {0} /\ w.job.size \in Int /\ w.fpos \in Int
        BY WriterTypes
      <4>3. w.buf[1] \in Int /\ w.buf[1] <= w.fpos
        BY <4>1, <4>2
      <4>4. LastSrc \in Int
        BY <1>3, <2>2, LastSrcType
      <4> QED BY <4>1, <4>2, <4>3, <4>4
    <3> QED BY <3>1, <3>2 DEF InZone
  <2>3. LastSrc' = LastSrc /\ w'.fpos = w.fpos
    BY DEF LastSrc
  <2> QED BY <2>1, <2>2, <2>3 DEF FileAt
<1> QED BY <1>1, <1>6, <1>7, <1>8, <1>9 DEF WriterInv

\* A step that is not the writer's own, and leaves the write pointers alone.
LEMMA WriterFrame ==
  ASSUME WriterInv, UNCHANGED <<wp, foreign, w, out>>
  PROVE  WriterInv'
<1>1. WriterAt'
  BY DEF WriterInv, WriterAt, InZone, Continues, WAccepts, SectorMax, WFull,
         Sequential, Type
<1>2. OutInOrder' /\ FileInOrder'
  BY OutKept DEF WriterInv
<1>3. Counted' /\ ListHolds'
  BY DEF WriterInv, Counted, ListHolds, Continues, InZone, Type
<1>4. FileAt'
  BY DEF WriterInv, FileAt, Continues, LastSrc
<1> QED BY <1>1, <1>2, <1>3, <1>4 DEF WriterInv

\* A step that is not the reader's own moves no write pointer back, except in
\* the zones that it adds to emptied.
LEMMA ReaderFrame ==
  ASSUME ZoneIOTypeOK, ReaderAt, FileIsZone, r' = r, file' = file,
         wp' \in [Zones -> 0..ZoneLen], emptied \subseteq emptied',
         \A z \in Zones : z \in emptied' \/ wp'[z] >= wp[z]
  PROVE  ReaderAt' /\ FileIsZone'
<1>1. FileIsZone'
  BY DEF FileIsZone
<1>2. ASSUME r.z \in Zones, Type(r.z) = "swr", r.z \notin emptied', r.max <= wp[r.z]
      PROVE  r.max <= wp'[r.z]
  <2>1. wp[r.z] \in Int /\ wp'[r.z] \in Int /\ r.max \in Int
    BY <1>2, ReaderTypes, ZoneFacts DEF ZoneIOTypeOK
  <2> QED BY <1>2, <2>1
<1>3. ReaderAt'
  <2>1. r.pc \in {"io", "save"} /\ Type(r.z) = "swr" /\ r.z \notin emptied'
          => r.max <= wp'[r.z]
    BY <1>2 DEF ReaderAt
  <2> QED BY <2>1 DEF ReaderAt, Type
<1> QED BY <1>1, <1>3

\* What the writer's steps keep besides WriterInv.
WriterTyped ==
  /\ w \in Writer /\ wp \in [Zones -> 0..ZoneLen] /\ foreign \subseteq Zones
  /\ out \in Seq([z : Zones, at : Nat, src : Nat])

\* The command of another initiator, on a zone that it adds to foreign.
LEMMA OtherStep ==
  ASSUME ZoneIOInv, NEW zn \in Zones, NEW v \in 0..ZoneLen,
         wp' = [wp EXCEPT ![zn] = v], foreign' = foreign \cup {zn},
         w' = w, out' = out
  PROVE  WriterInv' /\ WriterTyped'
<1>1. ZoneIOTypeOK /\ WriterInv
  BY DEF ZoneIOInv
<1>2. WriterTyped'
  BY <1>1 DEF WriterTyped, ZoneIOTypeOK
<1>3. WriterAt'
  BY <1>1 DEF WriterInv, WriterAt, InZone, Continues, WAccepts, SectorMax, WFull,
              Sequential, Type
<1>4. OutInOrder' /\ FileInOrder'
  BY <1>1, OutKept DEF WriterInv
<1>5. Counted'
  BY <1>1 DEF WriterInv, Counted, Continues
<1>6. ListHolds'
  <2>1. \A z \in Zones \ foreign' : z \in Zones \ foreign /\ wp'[z] = wp[z]
    BY <1>1 DEF ZoneIOTypeOK
  <2>2. InZone => w.z \in Zones
    BY <1>1, AtZone DEF WriterInv, WriterAt
  <2> QED BY <1>1, <2>1, <2>2 DEF WriterInv, ListHolds, InZone, Type
<1>7. FileAt'
  BY <1>1 DEF WriterInv, FileAt, Continues, LastSrc
<1> QED BY <1>2, <1>3, <1>4, <1>5, <1>6, <1>7 DEF WriterInv

\* The writer stops, with the status ret.
LEMMA WriterStops ==
  ASSUME WriterInv, w \in Writer, out' = out, NEW ret \in Int,
         w' = [w EXCEPT !.pc = "done", !.ret = ret]
  PROVE  WriterInv' /\ w' \in Writer
<1>1. /\ w' \in Writer /\ w'.pc = "done" /\ w'.job = w.job
      /\ w'.z = w.z /\ w'.fpos = w.fpos
  BY DEF Writer
<1> QED BY <1>1, LoopsEnd

\* The writer lists the zones, or stops for what the list says.
LEMMA WListStep ==
  ASSUME ZoneIOInv, WList
  PROVE  WriterInv' /\ WriterTyped'
<1>0. ZoneIOTypeOK /\ WriterInv
  BY DEF ZoneIOInv
<1>1. w.pc = "list" /\ out' = out /\ wp' = wp /\ foreign' = {} /\ w \in Writer
  BY <1>0 DEF WList, ZoneIOTypeOK
<1>2. CASE WAccepts(w.job)
  <2> DEFINE zeroes == [k \in 1..w.job.io |-> 0]
  <2>1. zeroes \in Seq(Nat) /\ Len(zeroes) = w.job.io
    BY <1>0, WriterTypes
  <2>2. w' = [w EXCEPT !.pc = "zone", !.list = wp, !.z = w.job.zidx, !.buf = zeroes]
    BY <1>2 DEF WList
  <2> HIDE DEF zeroes
  <2>3. /\ w' \in Writer /\ w'.pc = "zone" /\ w'.list = wp /\ w'.z = w.job.zidx
        /\ w'.buf = zeroes /\ w'.job = w.job /\ w'.fpos = w.fpos
    BY <1>0, <1>1, <2>1, <2>2, WriterTypes DEF Writer, ZoneIOTypeOK
  <2>4. out = <<>> /\ w.fpos = 0 /\ (w.job.size >= 0 => w.fpos <= w.job.size)
    BY <1>0, <1>1 DEF WriterInv, WriterAt
  <2>5. WriterTyped'
    BY <1>0, <1>1, <2>3 DEF WriterTyped, ZoneIOTypeOK
  <2>6. OutInOrder' /\ FileInOrder'
    BY <1>0, <1>1, <2>3, OutKept DEF WriterInv
  <2>7. WriterAt'
    <3>1. w.job.zidx \in w.job.zidx..(w.job.zidx + w.job.nz)
      <4>1. w.job.zidx \in Nat /\ w.job.nz \in Nat
        BY <1>0, WriterTypes
      <4> QED BY <4>1
    <3>2. wp \in [Zones -> 0..ZoneLen]
      BY <1>0 DEF ZoneIOTypeOK
    <3> QED
      BY <1>1, <1>2, <2>1, <2>3, <2>4, <3>1, <3>2
      DEF WriterAt, InZone, Continues, WAccepts, Sequential, Type
  <2>8. Counted' /\ ListHolds' /\ FileAt'
    BY <1>1, <2>3, <2>4 DEF Counted, ListHolds, FileAt, InZone
  <2> QED BY <2>5, <2>6, <2>7, <2>8 DEF WriterInv
<1>3. CASE ~WAccepts(w.job)
  <2>1. w' = [w EXCEPT !.pc = "done", !.ret = 1]
    BY <1>3 DEF WList
  <2>2. 1 \in Int
    OBVIOUS
  <2>3. WriterInv' /\ w' \in Writer
    BY <1>0, <1>1, <2>1, <2>2, WriterStops
  <2> QED BY <1>0, <1>1, <2>3 DEF WriterTyped, ZoneIOTypeOK
<1> QED BY <1>2, <1>3

\* The writer stops, or is past its loops.
LEMMA WEndStep ==
  ASSUME ZoneIOInv, WGivesUp \/ WFlush
  PROVE  WriterInv' /\ WriterTyped'
<1>0. ZoneIOTypeOK /\ WriterInv /\ w \in Writer
  BY DEF ZoneIOInv, ZoneIOTypeOK
<1>1. out' = out /\ wp' = wp /\ foreign' = foreign
  BY DEF WGivesUp, WFlush
<1>2. PICK ret \in Int : w' = [w EXCEPT !.pc = "done", !.ret = ret]
  <2>1. CASE WGivesUp
    <3>1. w' = [w EXCEPT !.pc = "done", !.ret = 1]
      BY <2>1 DEF WGivesUp
    <3>2. 1 \in Int
      OBVIOUS
    <3> QED BY <3>1, <3>2
  <2>2. CASE WFlush
    <3>1. PICK ret \in (IF w.job.flush THEN {0, 1} ELSE {w.ret}) :
            w' = [w EXCEPT !.pc = "done", !.ret = ret]
      BY <2>2 DEF WFlush
    <3>2. ret \in Int
      BY <1>0, <3>1, WriterTypes
    <3> QED BY <3>1, <3>2
  <2> QED BY <2>1, <2>2
<1>3. WriterInv' /\ w' \in Writer
  BY <1>0, <1>1, <1>2, WriterStops
<1> QED BY <1>0, <1>1, <1>3 DEF WriterTyped, ZoneIOTypeOK

\* A stop is asked for: nothing else changes.
LEMMA WAbortStep ==
  ASSUME ZoneIOInv, WAbort
  PROVE  WriterInv' /\ WriterTyped'
<1>0. ZoneIOTypeOK /\ WriterInv /\ w \in Writer
  BY DEF ZoneIOInv, ZoneIOTypeOK
<1>1. out' = out /\ wp' = wp /\ foreign' = foreign /\ w' = [w EXCEPT !.abort = TRUE]
  BY DEF WAbort
<1>2. /\ w' \in Writer /\ w'.job = w.job /\ w'.pc = w.pc /\ w'.list = w.list
      /\ w'.z = w.z /\ w'.ofst = w.ofst /\ w'.max = w.max /\ w'.fpos = w.fpos
      /\ w'.buf = w.buf
  BY <1>0, <1>1 DEF Writer
<1>3. WriterAt'
  BY <1>0, <1>1, <1>2
  DEF WriterInv, WriterAt, InZone, Continues, WAccepts, SectorMax, WFull,
      Sequential, Type
<1>4. OutInOrder' /\ FileInOrder'
  BY <1>0, <1>1, <1>2, OutKept DEF WriterInv
<1>5. Counted' /\ ListHolds'
  BY <1>0, <1>1, <1>2 DEF WriterInv, Counted, ListHolds, Continues, InZone, Type
<1>6. FileAt'
  BY <1>0, <1>1, <1>2 DEF WriterInv, FileAt, Continues, LastSrc
<1>7. WriterTyped'
  BY <1>0, <1>1, <1>2 DEF WriterTyped, ZoneIOTypeOK
<1> QED BY <1>3, <1>4, <1>5, <1>6, <1>7 DEF WriterInv

\* The head of the loop over the zones.
LEMMA WZoneStep ==
  ASSUME ZoneIOInv, WZone
  PROVE  WriterInv' /\ WriterTyped'
<1>0. ZoneIOTypeOK /\ WriterInv /\ w \in Writer
  BY DEF ZoneIOInv, ZoneIOTypeOK
<1>1. out' = out /\ wp' = wp /\ foreign' = foreign /\ w.pc = "zone"
  BY DEF WZone
<1>2. CASE w.abort \/ w.z = w.job.zidx + w.job.nz
  <2>1. w' = [w EXCEPT !.pc = "flush"]
    BY <1>2 DEF WZone
  <2>2. /\ w' \in Writer /\ w'.pc = "flush" /\ w'.job = w.job
        /\ w'.z = w.z /\ w'.fpos = w.fpos
    BY <1>0, <2>1 DEF Writer
  <2>3. WriterInv'
    BY <1>0, <1>1, <2>2, LoopsEnd
  <2> QED BY <1>0, <1>1, <2>2, <2>3 DEF WriterTyped, ZoneIOTypeOK
<1>3. CASE ~(w.abort \/ w.z = w.job.zidx + w.job.nz)
  <2>1. w' = [w EXCEPT !.pc = "file", !.max = SectorMax(w.z), !.ofst = w.job.ofst]
    BY <1>3 DEF WZone
  <2>2. /\ w.list \in [Zones -> 0..ZoneLen] /\ WAccepts(w.job)
        /\ Len(w.buf) = w.job.io /\ ~Continues
        /\ w.z \in w.job.zidx..(w.job.zidx + w.job.nz)
        /\ \A k \in 1..Len(out) : out[k].z <= w.z
        /\ w.job.size >= 0 => w.fpos <= w.job.size
    BY <1>0, <1>1 DEF WriterInv, WriterAt
  <2>3. w.z < w.job.zidx + w.job.nz
    <3>1. w.z \in Int /\ w.job.zidx \in Int /\ w.job.nz \in Int
      BY <1>0, WriterTypes
    <3> QED BY <1>3, <2>2, <3>1
  <2>4. w.z \in Zones
    BY <1>0, <1>1, <2>3, AtZone DEF WriterInv
  <2>5. SectorMax(w.z) \in 0..ZoneLen
    <3>1. w.list[w.z] \in 0..ZoneLen /\ ZoneLen \in Nat
      BY <2>2, <2>4, ZoneFacts
    <3> QED BY <3>1 DEF SectorMax
  <2>6. /\ w' \in Writer /\ w'.pc = "file" /\ w'.max = SectorMax(w.z)
        /\ w'.ofst = w.job.ofst /\ w'.job = w.job /\ w'.list = w.list /\ w'.z = w.z
        /\ w'.fpos = w.fpos /\ w'.buf = w.buf
    <3>1. w.job.ofst \in Nat
      BY <1>0, WriterTypes
    <3> QED BY <1>0, <2>1, <2>5, <3>1 DEF Writer
  <2>7. ~Continues'
    BY <1>1, <2>2, <2>6 DEF Continues
  <2>8. WriterAt'
    <3>1. SectorMax(w.z)' = SectorMax(w.z)
      BY <2>6 DEF SectorMax, WFull, Sequential, Type
    <3> QED BY <1>1, <2>2, <2>3, <2>6, <3>1 DEF WriterAt, InZone, WAccepts, Sequential, Type
  <2>9. OutInOrder' /\ FileInOrder'
    BY <1>0, <1>1, <2>6, OutKept DEF WriterInv
  <2>10. Counted'
    BY <2>6, <2>7 DEF Counted
  <2>11. ListHolds'
    <3>1. \A z \in Zones \ foreign : z > w.z \/ z = w.z => wp[z] = w.list[z]
      BY <1>0, <1>1 DEF WriterInv, ListHolds
    <3> QED BY <1>1, <2>4, <2>6, <3>1 DEF ListHolds, InZone, Type
  <2>12. FileAt'
    <3>1. LastSrc' = LastSrc
      BY <1>1 DEF LastSrc
    <3> QED BY <1>0, <1>1, <2>2, <2>6, <2>7, <3>1 DEF WriterInv, FileAt
  <2>13. WriterTyped'
    BY <1>0, <1>1, <2>6 DEF WriterTyped, ZoneIOTypeOK
  <2> QED BY <2>8, <2>9, <2>10, <2>11, <2>12, <2>13 DEF WriterInv
<1> QED BY <1>2, <1>3

\* A zone is left, with what the loop over the I/Os last set.
LEMMA NextZoneStep ==
  ASSUME ZoneIOTypeOK, WriterInv, InZone,
         out' = out, wp' = wp, foreign' = foreign,
         NEW fpos \in Nat, NEW buf \in Seq(Nat), NEW ret \in Int,
         fpos = w.fpos \/ (fpos = 0 /\ w.job.loop), Len(buf) = Len(w.buf),
         w' = NextZone([w EXCEPT !.fpos = fpos, !.buf = buf, !.ret = ret])
  PROVE  WriterInv' /\ WriterTyped'
<1>0. w \in Writer /\ w.z \in Nat
  BY WriterTypes
<1> DEFINE s == [w EXCEPT !.fpos = fpos, !.buf = buf, !.ret = ret]
<1>1. /\ s \in Writer /\ s.fpos = fpos /\ s.buf = buf /\ s.z = w.z /\ s.job = w.job
      /\ s.list = w.list
  BY <1>0 DEF Writer
<1>2. w' = [s EXCEPT !.pc = "zone", !.z = w.z + 1] /\ w.z + 1 \in Nat
  BY <1>0, <1>1 DEF NextZone
<1> HIDE DEF s
<1>3. /\ w' \in Writer /\ w'.pc = "zone" /\ w'.z = w.z + 1 /\ w'.fpos = fpos
      /\ w'.buf = buf /\ w'.job = w.job /\ w'.list = w.list
  BY <1>1, <1>2 DEF Writer
<1>4. WriterInv'
  BY <1>3, ZoneLeft
<1> QED BY <1>3, <1>4 DEF WriterTyped, ZoneIOTypeOK

\* What a read of the file leaves in the buffer, and how much it read.
LEMMA BufferFacts ==
  ASSUME NEW buf \in Seq(Nat), NEW pos \in Nat, w.job.size \in Nat
  PROVE  /\ Overlay(buf, pos) \in Seq(Nat) /\ Len(Overlay(buf, pos)) = Len(buf)
         /\ \A k \in 1..Len(buf) :
              Overlay(buf, pos)[k] = IF pos + k <= w.job.size THEN pos + k ELSE buf[k]
<1>1. Len(buf) \in Nat /\ DOMAIN buf = 1..Len(buf) /\ \A k \in 1..Len(buf) : buf[k] \in Nat
  BY ElementOfSeq
<1>2. Overlay(buf, pos) =
        [k \in 1..Len(buf) |-> IF pos + k <= w.job.size THEN pos + k ELSE buf[k]]
  BY <1>1 DEF Overlay
<1> QED BY <1>1, <1>2

\* The buffer after its end was cleared, behind n sectors.
LEMMA ClearedFacts ==
  ASSUME NEW buf \in Seq(Nat), NEW n \in Nat
  PROVE  /\ Cleared(buf, n) \in Seq(Nat) /\ Len(Cleared(buf, n)) = Len(buf)
         /\ \A k \in 1..Len(buf) : Cleared(buf, n)[k] = IF k <= n THEN buf[k] ELSE 0
<1>1. Len(buf) \in Nat /\ DOMAIN buf = 1..Len(buf) /\ \A k \in 1..Len(buf) : buf[k] \in Nat
  BY ElementOfSeq
<1>2. Cleared(buf, n) = [k \in 1..Len(buf) |-> IF k <= n THEN buf[k] ELSE 0]
  BY <1>1 DEF Cleared
<1> QED BY <1>1, <1>2

\* How much a read of the file from pos gets: the I/O size, or the rest.
LEMMA FileLeftFacts ==
  ASSUME ZoneIOTypeOK, w.job.size \in Nat, NEW pos \in Nat, pos <= w.job.size
  PROVE  /\ FileLeft(pos) \in Nat /\ FileLeft(pos) <= w.job.io
         /\ pos + FileLeft(pos) <= w.job.size
         /\ FileLeft(pos) < w.job.io => pos + FileLeft(pos) = w.job.size
<1>1. w.job.io \in Nat /\ w.job.size - pos \in Nat
  <2>1. w.job.io \in Nat
    BY WriterTypes
  <2>2. w.job.size - pos \in Nat
    OBVIOUS
  <2> QED BY <2>1, <2>2
<1>2. FileLeft(pos) = IF w.job.io <= w.job.size - pos THEN w.job.io ELSE w.job.size - pos
  BY <1>1, MinOfTwo DEF FileLeft
<1> QED BY <1>1, <1>2

\* A buffer is ready to be written: what is left to show is how it follows
\* what was written before.
LEMMA BufferReady ==
  ASSUME ZoneIOTypeOK, WriterInv, w.pc = "file",
         out' = out, wp' = wp, foreign' = foreign,
         NEW fpos \in Nat, NEW buf \in Seq(Nat), NEW ret \in Int,
         w.job.size >= 0 => fpos <= w.job.size, Len(buf) = Len(w.buf),
         w' = [w EXCEPT !.pc = "io", !.fpos = fpos, !.buf = buf, !.ret = ret],
         FileAt'
  PROVE  WriterInv' /\ WriterTyped'
<1>1. w \in Writer
  BY WriterTypes
<1>2. /\ w' \in Writer /\ w'.pc = "io" /\ w'.z = w.z /\ w'.fpos = fpos /\ w'.buf = buf
      /\ w'.job = w.job /\ w'.list = w.list /\ w'.max = w.max
      /\ w'.ofst = w.ofst
  BY <1>1 DEF Writer
<1>3. OutInOrder' /\ FileInOrder'
  BY <1>2, OutKept DEF WriterInv
<1>4. WriterAt'
  <2>1. SectorMax(w.z)' = SectorMax(w.z)
    BY <1>2 DEF SectorMax, WFull, Sequential, Type
  <2> QED
    BY <1>2, <2>1 DEF WriterInv, WriterAt, InZone, WAccepts, Sequential, Type
<1>5. Counted' /\ ListHolds'
  BY <1>2 DEF WriterInv, Counted, ListHolds, Continues, InZone, Type
<1> QED BY <1>2, <1>3, <1>4, <1>5 DEF WriterInv, WriterTyped, ZoneIOTypeOK

\* The head of the loop over the I/Os, and the reading of the file.
LEMMA WFileStep ==
  ASSUME ZoneIOInv, WFile
  PROVE  WriterInv' /\ WriterTyped'
<1>0. ZoneIOTypeOK /\ WriterInv /\ w \in Writer
  BY DEF ZoneIOInv, ZoneIOTypeOK
<1>1. out' = out /\ wp' = wp /\ foreign' = foreign /\ w.pc = "file" /\ InZone
  BY DEF WFile, InZone
<1>2. /\ w.fpos \in Nat /\ w.buf \in Seq(Nat) /\ w.ret \in Int /\ 0 \in Int /\ 0 \in Nat
      /\ w.job.size \in Nat \cup {-1} /\ w.job.io \in Nat \ {0}
  BY <1>0, WriterTypes
<1> DEFINE ios   == FileLeft(w.fpos)
           first == Overlay(w.buf, w.fpos)
<1>3. CASE w.abort
  <2>1. w' = NextZone(w)
    BY <1>3 DEF WFile
  <2>2. w = [w EXCEPT !.fpos = w.fpos, !.buf = w.buf, !.ret = w.ret]
    BY <1>0 DEF Writer
  <2>3. w' = NextZone([w EXCEPT !.fpos = w.fpos, !.buf = w.buf, !.ret = w.ret])
    BY <2>1, <2>2
  <2> QED BY <1>0, <1>1, <1>2, <2>3, NextZoneStep
<1>4. CASE ~w.abort /\ w.job.size = -1
  <2>1. w' = [w EXCEPT !.pc = "io"]
    BY <1>4 DEF WFile
  <2>2. w' = [w EXCEPT !.pc = "io", !.fpos = w.fpos, !.buf = w.buf, !.ret = w.ret]
    BY <1>0, <2>1 DEF Writer
  <2>3. w'.job = w.job
    BY <2>1, <1>0 DEF Writer
  <2>4. FileAt'
    BY <1>4, <2>3 DEF FileAt
  <2>5. w.job.size >= 0 => w.fpos <= w.job.size
    BY <1>0 DEF WriterInv, WriterAt
  <2> QED BY <1>0, <1>1, <1>2, <2>2, <2>4, <2>5, BufferReady
<1>5. CASE ~w.abort /\ w.job.size # -1
  <2>1. w.job.size \in Nat /\ w.fpos <= w.job.size
    BY <1>0, <1>2, <1>5 DEF WriterInv, WriterAt
  <2>2. /\ ios \in Nat /\ ios <= w.job.io /\ w.fpos + ios <= w.job.size
        /\ ios < w.job.io => w.fpos + ios = w.job.size
    BY <1>0, <1>2, <2>1, FileLeftFacts
  <2>3. FileLeft(0) \in Nat /\ FileLeft(0) <= w.job.size
    <3>1. 0 <= w.job.size
      BY <2>1
    <3>2. FileLeft(0) \in Nat /\ 0 + FileLeft(0) <= w.job.size
      BY <1>0, <1>2, <2>1, <3>1, FileLeftFacts
    <3> QED BY <3>2
  <2>4. /\ first \in Seq(Nat) /\ Len(first) = Len(w.buf)
        /\ \A k \in 1..Len(w.buf) :
             first[k] = IF w.fpos + k <= w.job.size THEN w.fpos + k ELSE w.buf[k]
    BY <1>2, <2>1, BufferFacts
  <2>5. w' = IF ios < w.job.io /\ w.job.loop THEN
               IF ios + FileLeft(0) = 0
                 THEN NextZone([w EXCEPT !.fpos = 0, !.ret = 0])
                 ELSE [w EXCEPT !.pc = "io", !.fpos = FileLeft(0),
                                !.buf = Overlay(first, 0),
                                !.ret = 512 * FileLeft(0)]
             ELSE IF ios = 0 THEN NextZone([w EXCEPT !.ret = 0])
             ELSE [w EXCEPT !.pc = "io", !.fpos = w.fpos + ios,
                            !.ret = 512 * ios, !.buf = Cleared(first, ios)]
    BY <1>0, <1>5 DEF WFile, Writer
  <2> HIDE DEF ios, first
  <2>6. CASE ios < w.job.io /\ w.job.loop
    <3>1. CASE ios + FileLeft(0) = 0
      <4>1. w' = NextZone([w EXCEPT !.fpos = 0, !.ret = 0])
        BY <2>5, <2>6, <3>1
      <4>2. [w EXCEPT !.fpos = 0, !.ret = 0]
              = [w EXCEPT !.fpos = 0, !.buf = w.buf, !.ret = 0]
        BY <1>0 DEF Writer
      <4>3. w' = NextZone([w EXCEPT !.fpos = 0, !.buf = w.buf, !.ret = 0])
        BY <4>1, <4>2
      <4> QED BY <1>0, <1>1, <1>2, <2>6, <4>3, NextZoneStep
    <3>2. CASE ios + FileLeft(0) # 0
      <4> DEFINE buf == Overlay(first, 0)
                 fpos == FileLeft(0)
                 ret == 512 * FileLeft(0)
      <4>1. buf \in Seq(Nat) /\ Len(buf) = Len(w.buf) /\ ret \in Int
            /\ fpos \in Nat /\ fpos <= w.job.size
        BY <1>2, <2>1, <2>3, <2>4, BufferFacts
      <4>2. w' = [w EXCEPT !.pc = "io", !.fpos = fpos, !.buf = buf, !.ret = ret]
        BY <2>5, <2>6, <3>2
      <4> HIDE DEF buf, fpos, ret
      <4>3. w'.job = w.job
        BY <1>0, <4>2 DEF Writer
      <4>4. FileAt'
        BY <2>6, <4>3 DEF FileAt
      <4> QED BY <1>0, <1>1, <4>1, <4>2, <4>4, BufferReady
    <3> QED BY <3>1, <3>2
  <2>7. CASE ~(ios < w.job.io /\ w.job.loop) /\ ios = 0
    <3>1. w' = NextZone([w EXCEPT !.ret = 0])
      BY <2>5, <2>7
    <3>2. [w EXCEPT !.ret = 0] = [w EXCEPT !.fpos = w.fpos, !.buf = w.buf, !.ret = 0]
      BY <1>0 DEF Writer
    <3>3. w' = NextZone([w EXCEPT !.fpos = w.fpos, !.buf = w.buf, !.ret = 0])
      BY <3>1, <3>2
    <3> QED BY <1>0, <1>1, <1>2, <3>3, NextZoneStep
  <2>8. CASE ~(ios < w.job.io /\ w.job.loop) /\ ios # 0
    <3> DEFINE buf == Cleared(first, ios)
               fpos == w.fpos + ios
               ret == 512 * ios
    <3>1. /\ buf \in Seq(Nat) /\ Len(buf) = Len(w.buf)
          /\ \A k \in 1..Len(w.buf) : buf[k] = IF k <= ios THEN first[k] ELSE 0
      BY <2>2, <2>4, ClearedFacts
    <3>2. ret \in Int /\ fpos \in Nat /\ fpos <= w.job.size
      BY <1>2, <2>2
    <3>4. /\ fpos = w.fpos + ios
          /\ w' = [w EXCEPT !.pc = "io", !.fpos = fpos, !.ret = ret, !.buf = buf]
      BY <2>5, <2>8
    <3> HIDE DEF buf, fpos, ret
    <3>3. w' = [w EXCEPT !.pc = "io", !.fpos = fpos, !.buf = buf, !.ret = ret]
      BY <1>0, <3>4 DEF Writer
    <3>5. /\ w'.job = w.job /\ w'.pc = "io" /\ w'.fpos = fpos /\ w'.buf = buf
          /\ w'.z = w.z /\ w'.ofst = w.ofst /\ w'.max = w.max
      BY <1>0, <3>3 DEF Writer
    <3>6. Len(w.buf) = w.job.io
      BY <1>0, <1>1 DEF WriterInv, WriterAt
    <3>7. \A k \in 1..w.job.io :
            buf[k] = IF w.fpos + k <= w.job.size THEN w.fpos + k ELSE 0
      <4> TAKE k \in 1..w.job.io
      <4>1. w.fpos \in Int /\ ios \in Int /\ w.job.size \in Int /\ k \in Int /\ w.job.io \in Int
        BY <1>2, <2>1, <2>2
      <4>2. k <= ios => w.fpos + k <= w.job.size
        BY <2>2, <4>1
      <4>3. k > ios => ~(w.fpos + k <= w.job.size)
        BY <2>2, <4>1
      <4>4. /\ buf[k] = IF k <= ios THEN first[k] ELSE 0
            /\ first[k] = IF w.fpos + k <= w.job.size THEN w.fpos + k ELSE w.buf[k]
        BY <2>4, <3>1, <3>6
      <4> QED BY <4>1, <4>2, <4>3, <4>4
    <3>8. buf[1] = w.fpos + 1 /\ w.fpos + 1 <= w.job.size
      <4>1. 1 \in 1..w.job.io /\ w.fpos + 1 <= w.job.size
        BY <1>2, <2>1, <2>2, <2>8
      <4> QED BY <3>7, <4>1
    <3>9. FileAt'
      <4> SUFFICES ASSUME w.job.size >= 0, ~w.job.loop PROVE FileAt'
        BY <3>5 DEF FileAt
      <4>1. Continues' <=> Continues
        BY <1>1, <3>5 DEF Continues
      <4>2. /\ w.z = w.job.zidx /\ ~Continues => w.fpos = 0
            /\ out /= <<>> => LastSrc <= w.fpos /\ (LastSrc = 0 => w.fpos = w.job.size)
            /\ Continues => \/ w.ofst >= w.max \/ w.fpos = w.job.size
                            \/ w.fpos > 0 /\ LastSrc = w.fpos
        BY <1>0, <1>1 DEF WriterInv, FileAt
      <4>3. w.fpos \in Int /\ w.job.size \in Int /\ w.job.io \in Int /\ ios \in Int
        BY <1>2, <2>1, <2>2
      <4>4. buf[1] \in 1..w.job.size /\ buf[1] - 1 = w.fpos
        <5>1. w.fpos \in Nat /\ w.job.size \in Int
          BY <1>2, <4>3
        <5> QED BY <3>8, <5>1
      <4>5. \A k \in 1..w.job.io :
              buf[k] = IF buf[1] + k - 1 <= w.job.size THEN buf[1] + k - 1 ELSE 0
        <5> TAKE k \in 1..w.job.io
        <5>1. buf[1] + k - 1 = w.fpos + k
          BY <3>8, <4>3
        <5> QED BY <3>7, <5>1
      <4>6. fpos = IF buf[1] + w.job.io - 1 <= w.job.size
                     THEN buf[1] + w.job.io - 1 ELSE w.job.size
        <5>1. buf[1] + w.job.io - 1 = w.fpos + w.job.io
          BY <3>8, <4>3
        <5>2. fpos = IF w.fpos + w.job.io <= w.job.size THEN w.fpos + w.job.io ELSE w.job.size
          BY <2>2, <3>4, <4>3
        <5> QED BY <5>1, <5>2
      <4>7. w.z = w.job.zidx /\ ~Continues => buf[1] = 1
        BY <3>8, <4>2
      <4>8. /\ Continues => w.ofst >= w.max \/ LastSrc = buf[1] - 1
            /\ out /= <<>> => LastSrc > 0 /\ LastSrc < buf[1]
        <5>1. w.fpos # w.job.size
          BY <3>8, <4>3
        <5>2. out /= <<>> => LastSrc \in Nat
          BY <1>0, LastSrcType DEF ZoneIOTypeOK
        <5>3. Continues => w.ofst >= w.max \/ LastSrc = buf[1] - 1
          BY <4>2, <4>4, <5>1
        <5>4. out /= <<>> => LastSrc > 0 /\ LastSrc < buf[1]
          BY <3>8, <4>2, <4>3, <5>1, <5>2
        <5> QED BY <5>3, <5>4
      <4>9. LastSrc' = LastSrc
        BY <1>1 DEF LastSrc
      <4> QED BY <1>1, <3>5, <4>1, <4>4, <4>5, <4>6, <4>7, <4>8, <4>9 DEF FileAt
    <3> QED BY <1>0, <1>1, <3>1, <3>2, <3>3, <3>9, BufferReady
  <2> QED BY <2>6, <2>7, <2>8
<1> QED BY <1>3, <1>4, <1>5

\* A read of the file fails.
LEMMA WFileFailsStep ==
  ASSUME ZoneIOInv, WFileFails
  PROVE  WriterInv' /\ WriterTyped'
<1>0. ZoneIOTypeOK /\ WriterInv /\ w \in Writer
  BY DEF ZoneIOInv, ZoneIOTypeOK
<1>1. out' = out /\ wp' = wp /\ foreign' = foreign /\ InZone /\ w.job.size # -1
  BY DEF WFileFails, InZone
<1>2. /\ w.fpos \in Nat /\ w.buf \in Seq(Nat) /\ 1 \in Int /\ 0 \in Nat
      /\ w.job.size \in Nat
  BY <1>0, <1>1, WriterTypes
<1>3. CASE w' = NextZone([w EXCEPT !.ret = 1])
  <2>1. [w EXCEPT !.ret = 1] = [w EXCEPT !.fpos = w.fpos, !.buf = w.buf, !.ret = 1]
    BY <1>0 DEF Writer
  <2>2. w' = NextZone([w EXCEPT !.fpos = w.fpos, !.buf = w.buf, !.ret = 1])
    BY <1>3, <2>1
  <2> QED BY <1>0, <1>1, <1>2, <2>2, NextZoneStep
<1>4. CASE w.job.loop /\ w' = NextZone([w EXCEPT !.ret = 1, !.fpos = 0,
                                                 !.buf = Overlay(w.buf, w.fpos)])
  <2> DEFINE buf == Overlay(w.buf, w.fpos)
  <2>1. buf \in Seq(Nat) /\ Len(buf) = Len(w.buf)
    BY <1>2, BufferFacts
  <2> HIDE DEF buf
  <2>2. [w EXCEPT !.ret = 1, !.fpos = 0, !.buf = buf]
          = [w EXCEPT !.fpos = 0, !.buf = buf, !.ret = 1]
    BY <1>0 DEF Writer
  <2>3. w' = NextZone([w EXCEPT !.fpos = 0, !.buf = buf, !.ret = 1])
    BY <1>4, <2>2 DEF buf
  <2> QED BY <1>0, <1>1, <1>2, <1>4, <2>1, <2>3, NextZoneStep
<1> QED BY <1>3, <1>4 DEF WFileFails

\* Nothing is left of the zone.
LEMMA WZoneEndsStep ==
  ASSUME ZoneIOInv, WZoneEnds
  PROVE  WriterInv' /\ WriterTyped'
<1>0. ZoneIOTypeOK /\ WriterInv /\ w \in Writer
  BY DEF ZoneIOInv, ZoneIOTypeOK
<1>1. out' = out /\ wp' = wp /\ foreign' = foreign /\ InZone
  BY DEF WZoneEnds, InZone
<1>2. w.fpos \in Nat /\ w.buf \in Seq(Nat) /\ w.ret \in Int
  BY <1>0, WriterTypes
<1>3. w = [w EXCEPT !.fpos = w.fpos, !.buf = w.buf, !.ret = w.ret]
  BY <1>0 DEF Writer
<1>4. w' = NextZone([w EXCEPT !.fpos = w.fpos, !.buf = w.buf, !.ret = w.ret])
  BY <1>3 DEF WZoneEnds
<1> QED BY <1>0, <1>1, <1>2, <1>4, NextZoneStep

\* The sectors that one write adds to out.
Written(n) ==
  [k \in 1..n |-> [z |-> w.z, at |-> w.ofst + k - 1, src |-> w.buf[k]]]

\* How out grows with a write of n sectors.
LEMMA OutGrows ==
  ASSUME ZoneIOTypeOK, w.z \in Zones, NEW n \in Nat \ {0}, n <= Len(w.buf),
         out' = out \o Written(n)
  PROVE  /\ out' \in Seq([z : Zones, at : Nat, src : Nat])
         /\ Len(out) \in Nat /\ Len(out') = Len(out) + n
         /\ \A k \in 1..Len(out) : out'[k] = out[k]
         /\ \A k \in 1..n :
              out'[Len(out) + k] = [z |-> w.z, at |-> w.ofst + k - 1, src |-> w.buf[k]]
<1> DEFINE Rec == [z : Zones, at : Nat, src : Nat]
           new == Written(n)
<1>1. out \in Seq(Rec) /\ w.ofst \in Nat /\ w.buf \in Seq(Nat)
  BY WriterTypes DEF ZoneIOTypeOK
<1>2. ASSUME NEW k \in 1..n
      PROVE  [z |-> w.z, at |-> w.ofst + k - 1, src |-> w.buf[k]] \in Rec
  <2>1. k \in 1..Len(w.buf)
    BY <1>1
  <2>2. w.buf[k] \in Nat
    BY <1>1, <2>1, ElementOfSeq
  <2>3. w.ofst + k - 1 \in Nat
    BY <1>1
  <2> QED BY <2>2, <2>3
<1>3. new \in Seq(Rec) /\ Len(new) = n
      /\ \A k \in 1..n : new[k] = [z |-> w.z, at |-> w.ofst + k - 1, src |-> w.buf[k]]
  <2> DEFINE entry(k) == [z |-> w.z, at |-> w.ofst + k - 1, src |-> w.buf[k]]
  <2>1. \A k \in 1..n : entry(k) \in Rec
    BY <1>2
  <2>2. new = [k \in 1..n |-> entry(k)]
    BY DEF Written
  <2> HIDE DEF Rec, entry, new
  <2>3. new \in Seq(Rec) /\ Len(new) = n /\ \A k \in 1..n : new[k] = entry(k)
    BY <2>1, <2>2
  <2> QED BY <2>3 DEF entry
<1> HIDE DEF new, Rec
<1>4. out' = out \o new
  BY DEF new
<1>5. out' \in Seq(Rec) /\ Len(out) \in Nat /\ Len(out') = Len(out) + n
  <2>1. Len(out) \in Nat
    BY <1>1
  <2>2. out \o new \in Seq(Rec) /\ Len(out \o new) = Len(out) + Len(new)
    BY <1>1, <1>3, ConcatProperties
  <2> QED BY <1>3, <1>4, <2>1, <2>2
<1>6. \A k \in 1..Len(out) : out'[k] = out[k]
  BY <1>1, <1>3, <1>4
<1>7. \A k \in 1..n : out'[Len(out) + k] = new[k]
  BY <1>1, <1>3, <1>4
<1> QED BY <1>3, <1>5, <1>6, <1>7 DEF Rec

\* A write of n sectors moves no write pointer back, and only that of its zone.
LEMMA MovedFacts ==
  ASSUME ZoneIOTypeOK, w.z \in Zones, NEW n \in Nat \ {0}, w.ofst + n <= ZoneLen,
         wp' = Moved(w.z, w.ofst, n)
  PROVE  /\ wp' \in [Zones -> 0..ZoneLen]
         /\ \A z \in Zones : wp'[z] >= wp[z]
         /\ \A z \in Zones : z # w.z => wp'[z] = wp[z]
         /\ Type(w.z) = "swr" /\ wp[w.z] = w.ofst => wp'[w.z] = w.ofst + n
<1>0. wp \in [Zones -> 0..ZoneLen] /\ w.ofst \in Nat /\ ZoneLen \in Nat
  BY WriterTypes, ZoneFacts DEF ZoneIOTypeOK
<1>1. /\ wp \in [Zones -> 0..ZoneLen] /\ wp[w.z] \in Nat /\ wp[w.z] <= ZoneLen
      /\ w.ofst \in Nat /\ ZoneLen \in Nat
      /\ \A z \in Zones : wp[z] \in Int
  BY <1>0
<1> DEFINE top == Max({wp[w.z], w.ofst + n})
<1>2. top = IF wp[w.z] >= w.ofst + n THEN wp[w.z] ELSE w.ofst + n
  BY <1>1, MaxOfTwo
<1>3. wp' = IF Sequential(w.z) THEN [wp EXCEPT ![w.z] = top] ELSE wp
  BY DEF Moved
<1>4. Type(w.z) = "swr" => Sequential(w.z)
  BY DEF Sequential
<1> HIDE DEF top
<1>5. top \in 0..ZoneLen /\ top >= wp[w.z] /\ (wp[w.z] = w.ofst => top = w.ofst + n)
  BY <1>1, <1>2
<1>6. \A z \in Zones : wp[z] >= wp[z]
  BY <1>1
<1> QED BY <1>1, <1>3, <1>4, <1>5, <1>6

\* How much a write asks for: no more than the I/O size and the zone's rest,
\* and less than the I/O size only at the end of what is written of the zone.
LEMMA SectorCountFacts ==
  ASSUME ZoneIOTypeOK
  PROVE  /\ SectorCount \in Int /\ SectorCount <= w.job.io
         /\ SectorCount > 0 => /\ w.ofst + SectorCount <= w.max
                               /\ SectorCount < w.job.io => w.ofst + SectorCount = w.max
<1>1. w.job.io \in Nat /\ w.ofst \in Nat /\ w.max \in Nat
  BY WriterTypes, ZoneFacts
<1>2. SectorCount = IF WFull(w.z)
                      THEN IF w.ofst + 0 > w.max THEN w.max - w.ofst ELSE 0
                      ELSE IF w.ofst + w.job.io > w.max THEN w.max - w.ofst ELSE w.job.io
  BY DEF SectorCount, Clip
<1>3. CASE WFull(w.z)
  BY <1>1, <1>2, <1>3
<1>4. CASE ~WFull(w.z)
  BY <1>1, <1>2, <1>4
<1> QED BY <1>3, <1>4

\* The writer after a write.
LEMMA AfterWriteFacts ==
  ASSUME ZoneIOTypeOK, SectorCount > 0, w' = AfterWrite
  PROVE  /\ w' \in Writer /\ w'.job = w.job /\ w'.list = w.list /\ w'.max = w.max
         /\ w'.fpos = w.fpos /\ w'.buf = w.buf
         /\ \/ w'.pc = "file" /\ w'.z = w.z /\ w'.ofst = w.ofst + SectorCount
            \/ w'.pc = "zone" /\ w'.z = w.z + 1
<1>1. PICK n \in Nat : n = SectorCount
  BY SectorCountFacts
<1> DEFINE stop == w.job.nio > 0 /\ w.iocount + 1 >= w.job.nio
           s == [w EXCEPT !.ofst = w.ofst + n, !.iocount = w.iocount + 1, !.ret = n]
<1>2. /\ w \in Writer /\ w.ofst + n \in Nat /\ w.iocount + 1 \in Nat /\ n \in Int
      /\ w.z + 1 \in Nat
  <2>1. w \in Writer /\ w.ofst \in Nat /\ w.iocount \in Nat /\ w.z \in Nat
    BY WriterTypes
  <2> QED BY <1>1, <2>1
<1>3. w' = IF stop THEN NextZone(s) ELSE [s EXCEPT !.pc = "file"]
  <2>1. s.iocount = w.iocount + 1
    BY <1>2 DEF Writer
  <2> QED BY <1>1, <1>2, <2>1 DEF AfterWrite, Writer
<1> HIDE DEF stop
<1>4. /\ s \in Writer /\ s.job = w.job /\ s.list = w.list /\ s.max = w.max
      /\ s.fpos = w.fpos /\ s.buf = w.buf /\ s.ofst = w.ofst + n /\ s.z = w.z
  BY <1>2 DEF Writer
<1> HIDE DEF s
<1>5. CASE stop
  <2>1. w' = [s EXCEPT !.pc = "zone", !.z = w.z + 1]
    BY <1>3, <1>4, <1>5 DEF NextZone
  <2> QED BY <1>2, <1>4, <2>1 DEF Writer
<1>6. CASE ~stop
  <2>1. w' = [s EXCEPT !.pc = "file"]
    BY <1>3, <1>6
  <2> QED BY <1>1, <1>4, <2>1 DEF Writer
<1> QED BY <1>5, <1>6

\* Sectors of the buffer are written, all of them and the program goes on, or
\* some and it stops: they go on where the last write stopped.
LEMMA PutStep ==
  ASSUME ZoneIOInv, w.pc = "io", SectorCount > 0, NEW n \in 1..SectorCount,
         Put(n), foreign' = foreign,
         w' \in Writer, w'.job = w.job, w'.list = w.list, w'.max = w.max,
         w'.fpos = w.fpos, w'.buf = w.buf,
         \/ w'.pc = "file" /\ w'.z = w.z /\ w'.ofst = w.ofst + n /\ n = SectorCount
         \/ w'.pc = "zone" /\ w'.z = w.z + 1
         \/ w'.pc = "done" /\ w'.z = w.z
  PROVE  /\ WriterInv' /\ WriterTyped'
         /\ \A z \in Zones : wp'[z] >= wp[z]
<1>0. ZoneIOTypeOK /\ WriterInv /\ w \in Writer
  BY DEF ZoneIOInv, ZoneIOTypeOK
<1>1. wp' = Moved(w.z, w.ofst, n) /\ out' = out \o Written(n)
  BY DEF Put, Written
<1>2. InZone
  BY DEF InZone
<1>3. /\ SectorCount \in Int /\ SectorCount <= w.job.io
      /\ w.ofst + SectorCount <= w.max
      /\ SectorCount < w.job.io => w.ofst + SectorCount = w.max
  BY <1>0, <1>2, SectorCountFacts
<1>4. /\ w.ofst \in Nat /\ w.max \in Nat /\ w.max <= ZoneLen /\ ZoneLen \in Nat
      /\ w.job.io \in Nat /\ w.z \in Nat /\ w.job.zidx \in Nat /\ w.job.nz \in Nat
      /\ w.fpos \in Nat /\ w.job.ofst \in Nat /\ w.buf \in Seq(Nat)
  BY <1>0, WriterTypes, ZoneFacts
<1>5. n \in Nat \ {0} /\ n <= SectorCount /\ n <= w.job.io /\ w.ofst + n <= w.max
      /\ w.ofst + n <= ZoneLen
  <2>1. n \in Int /\ 1 <= n /\ n <= SectorCount
    BY <1>3
  <2>2. /\ SectorCount \in Int /\ SectorCount <= w.job.io
        /\ w.ofst + SectorCount <= w.max /\ w.max <= ZoneLen
        /\ w.ofst \in Int /\ w.max \in Int /\ ZoneLen \in Int /\ w.job.io \in Int
    BY <1>3, <1>4
  <2> QED BY <2>1, <2>2
<1>6. /\ w.list \in [Zones -> 0..ZoneLen] /\ WAccepts(w.job) /\ Len(w.buf) = w.job.io
      /\ w.z \in w.job.zidx..(w.job.zidx + w.job.nz) /\ w.z < w.job.zidx + w.job.nz
      /\ w.max = SectorMax(w.z) /\ \A k \in 1..Len(out) : out[k].z <= w.z
      /\ w.job.size >= 0 => w.fpos <= w.job.size
  BY <1>0, <1>2 DEF WriterInv, WriterAt
<1>7. w.z \in Zones
  BY <1>0, <1>2, <1>6, AtZone DEF WriterInv
<1>8. /\ wp' \in [Zones -> 0..ZoneLen]
      /\ \A z \in Zones : wp'[z] >= wp[z]
      /\ \A z \in Zones : z # w.z => wp'[z] = wp[z]
      /\ Type(w.z) = "swr" /\ wp[w.z] = w.ofst => wp'[w.z] = w.ofst + n
  BY <1>0, <1>1, <1>5, <1>7, MovedFacts
<1>9. /\ w'.pc \in {"file", "zone", "done"}
      /\ w'.pc = "file" => w'.z = w.z /\ w'.ofst = w.ofst + n /\ n = SectorCount
      /\ w'.pc = "zone" => w'.z = w.z + 1
      /\ w'.z = w.z \/ w'.z = w.z + 1
  OBVIOUS
<1>a. PICK L \in Nat : L = Len(out)
  <2>1. Len(out) \in Nat
    BY <1>0, LenProperties DEF ZoneIOTypeOK
  <2> QED BY <2>1
<1> DEFINE entry(k) == [z |-> w.z, at |-> w.ofst + k - 1, src |-> w.buf[k]]
<1>10. /\ out' \in Seq([z : Zones, at : Nat, src : Nat])
       /\ L \in Nat /\ Len(out) = L /\ Len(out') = L + n
       /\ \A k \in 1..L : out'[k] = out[k]
       /\ \A k \in 1..n : out'[L + k] = entry(k)
  <2>1. n <= Len(w.buf)
    BY <1>5, <1>6
  <2> QED BY <1>0, <1>1, <1>5, <1>7, <1>a, <2>1, OutGrows
<1>11. \A k \in 1..n : /\ out'[L + k].z = w.z /\ out'[L + k].at = w.ofst + k - 1
                       /\ out'[L + k].src = w.buf[k]
  <2> TAKE k \in 1..n
  <2>1. out'[L + k] = entry(k)
    BY <1>10
  <2> QED BY <2>1
<1> HIDE DEF entry
<1>12. \A k \in 1..L : /\ out'[k] = out[k] /\ (StartsZone(k)' <=> StartsZone(k))
                       /\ k > 1 => out'[k - 1] = out[k - 1]
  <2> TAKE k \in 1..L
  <2>1. k > 1 => k - 1 \in 1..L
    BY <1>10
  <2>2. k = 1 \/ k > 1
    BY <1>10
  <2> QED BY <1>10, <2>1, <2>2 DEF StartsZone
<1>13. StartsZone(L + 1)' <=> ~Continues
  <2>1. L > 0 <=> out /= <<>>
    <3>1. out \in Seq([z : Zones, at : Nat, src : Nat])
      BY <1>0 DEF ZoneIOTypeOK
    <3> QED BY <1>10, <3>1, EmptySeq
  <2>2. out'[L + 1].z = w.z /\ L + 1 - 1 = L /\ (L > 0 => L \in 1..L)
    BY <1>5, <1>10, <1>11
  <2>3. L > 0 => out'[L] = out[L]
    BY <1>10, <2>2
  <2>4. StartsZone(L + 1)' <=> (L + 1 = 1 \/ out'[L].z /= w.z)
    BY <2>2 DEF StartsZone
  <2>5. L + 1 = 1 <=> ~(L > 0)
    BY <1>10
  <2> QED BY <1>a, <2>1, <2>3, <2>4, <2>5 DEF Continues
<1>14. \A j \in 2..n : /\ ~StartsZone(L + j)' /\ j - 1 \in 1..n /\ j \in 1..n
                       /\ L + j - 1 = L + (j - 1) /\ L + j > 1
  <2> TAKE j \in 2..n
  <2>1. /\ j - 1 \in 1..n /\ j \in 1..n /\ L + j - 1 = L + (j - 1) /\ L + j > 1
        /\ L + j # 1
    BY <1>5, <1>10
  <2>2. out'[L + j].z = w.z /\ out'[L + j - 1].z = w.z
    BY <1>11, <2>1
  <2> QED BY <2>1, <2>2 DEF StartsZone
<1>15. \A k \in 1..Len(out') : k \in 1..L \/ k = L + 1 \/ \E j \in 2..n : k = L + j
  <2> TAKE k \in 1..Len(out')
  <2>1. SUFFICES ASSUME k > L + 1 PROVE \E j \in 2..n : k = L + j
    <3>1. k \in Int /\ 1 <= k /\ L \in Nat
      BY <1>10
    <3>2. k \in 1..L \/ k = L + 1 \/ k > L + 1
      BY <3>1
    <3> QED BY <3>2
  <2>2. k \in Int /\ k <= L + n
    BY <1>10
  <2>3. k - L \in 2..n /\ k = L + (k - L)
    <3>1. n \in Int /\ L \in Int
      BY <1>5, <1>10
    <3> QED BY <2>1, <2>2, <3>1
  <2> QED BY <2>3
<1>16. out'[Len(out')].z = w.z /\ out'[Len(out')].at = w.ofst + n - 1
       /\ out'[Len(out')].src = w.buf[n] /\ out' /= <<>>
  <2>1. n \in 1..n /\ Len(out') > 0
    BY <1>5, <1>10
  <2> QED BY <1>10, <1>11, <2>1
<1>17. Continues' <=> w'.z = w.z
  BY <1>16 DEF Continues
<1>18. w'.pc = "zone" => ~Continues'
  BY <1>4, <1>9, <1>17
<1>19. L > 0 => L \in 1..L
  BY <1>10
<1>20. Continues => L > 0
  BY <1>0, <1>10 DEF Continues, ZoneIOTypeOK
<1>21. OutInOrder'
  <2> SUFFICES ASSUME NEW k \in 1..Len(out')
               PROVE  /\ out'[k].at = IF StartsZone(k)' THEN w'.job.ofst
                                        ELSE out'[k - 1].at + 1
                      /\ k > 1 => out'[k - 1].z <= out'[k].z
    BY DEF OutInOrder
  <2>1. CASE k \in 1..L
    <3>1. /\ out[k].at = IF StartsZone(k) THEN w.job.ofst ELSE out[k - 1].at + 1
          /\ k > 1 => out[k - 1].z <= out[k].z
      BY <1>0, <1>a, <2>1 DEF WriterInv, OutInOrder
    <3>2. ~StartsZone(k) => k > 1
      BY <2>1, <1>10 DEF StartsZone
    <3>3. w'.job.ofst = w.job.ofst
      BY <1>9
    <3> QED BY <1>12, <2>1, <3>1, <3>2, <3>3
  <2>2. CASE k = L + 1
    <3>1. out'[k].z = w.z /\ out'[k].at = w.ofst /\ k - 1 = L
      <4>1. 1 \in 1..n /\ w.ofst + 1 - 1 = w.ofst /\ L + 1 - 1 = L
        BY <1>4, <1>5
      <4>2. out'[L + 1].z = w.z /\ out'[L + 1].at = w.ofst + 1 - 1
        BY <1>11, <4>1
      <4> QED BY <2>2, <4>1, <4>2
    <3>2. w.ofst = IF Continues THEN out[L].at + 1 ELSE w.job.ofst
      BY <1>0, <1>2, <1>a DEF WriterInv, Counted
    <3>3. L > 0 => out'[L] = out[L] /\ out[L].z <= w.z
      BY <1>6, <1>10, <1>19
    <3>4. k > 1 => L > 0
      BY <1>10, <2>2
    <3> QED BY <1>9, <1>13, <1>20, <2>2, <3>1, <3>2, <3>3, <3>4
  <2>3. CASE \E j \in 2..n : k = L + j
    <3>1. PICK j \in 2..n : k = L + j
      BY <2>3
    <3>2. ~StartsZone(k)' /\ j - 1 \in 1..n /\ j \in 1..n /\ k - 1 = L + (j - 1)
      <4>1. /\ ~StartsZone(L + j)' /\ j - 1 \in 1..n /\ j \in 1..n
            /\ L + j - 1 = L + (j - 1)
        BY <1>14
      <4> QED BY <3>1, <4>1
    <3>3. out'[k].at = w.ofst + j - 1 /\ out'[k - 1].at = w.ofst + (j - 1) - 1
          /\ out'[k].z = w.z /\ out'[k - 1].z = w.z
      BY <1>11, <3>1, <3>2
    <3>4. w.ofst + j - 1 = w.ofst + (j - 1) - 1 + 1 /\ w.z <= w.z
      <4>1. w.ofst \in Int /\ w.z \in Int
        BY <1>4
      <4>2. j \in Int
        BY <3>1
      <4> QED BY <4>1, <4>2
    <3> QED BY <3>2, <3>3, <3>4
  <2> QED BY <1>15, <2>1, <2>2, <2>3
<1>22. Counted'
  <2>1. w.ofst + n = w.ofst + n - 1 + 1
    BY <1>4, <1>5
  <2> QED BY <1>9, <1>16, <1>17, <2>1 DEF Counted
<1>23. WriterAt'
  <2>1. \A k \in 1..Len(out') : out'[k].z <= w'.z
    <3> TAKE k \in 1..Len(out')
    <3>0. w.z <= w.z /\ 1 \in 1..n
      BY <1>4, <1>5
    <3>1. out'[k].z <= w.z
      <4>1. CASE k \in 1..L
        BY <1>6, <1>a, <1>10, <4>1
      <4>2. CASE k = L + 1
        BY <1>11, <3>0, <4>2
      <4>3. CASE \E j \in 2..n : k = L + j
        BY <1>11, <1>14, <3>0, <4>3
      <4> QED BY <1>15, <4>1, <4>2, <4>3
    <3>2. out'[k].z \in Int
      <4>1. out'[k] \in [z : Zones, at : Nat, src : Nat]
        BY <1>10, ElementOfSeq
      <4>2. out'[k].z \in Zones
        BY <4>1
      <4> QED BY <4>2, ZoneFacts
    <3>3. w'.z = w.z \/ w'.z = w.z + 1
      BY <1>9
    <3>4. w.z \in Int
      BY <1>4
    <3>5. out'[k].z <= w.z + 1
      BY <3>1, <3>2, <3>4
    <3> QED BY <3>1, <3>3, <3>5
  <2>2. w'.pc \in {"file", "zone"} => w'.z \in w'.job.zidx..(w'.job.zidx + w'.job.nz)
    <3>1. w.z \in Int /\ w.job.zidx \in Int /\ w.job.nz \in Int
      BY <1>4
    <3>2. w.z + 1 \in w.job.zidx..(w.job.zidx + w.job.nz)
      BY <1>6, <3>1
    <3> QED BY <1>6, <1>9, <3>2
  <2>3. w'.pc = "file" => w'.z < w'.job.zidx + w'.job.nz /\ w'.max = SectorMax(w.z)'
    <3>1. w'.pc = "file" => w'.z = w.z
      BY <1>9
    <3>2. w'.z = w.z => SectorMax(w.z)' = SectorMax(w.z)
      BY <1>9 DEF SectorMax, WFull, Sequential, Type
    <3> QED BY <1>6, <1>9, <3>1, <3>2
  <2>4. WAccepts(w.job)'
    BY <1>6, <1>9 DEF WAccepts, Sequential, Type
  <2> QED
    BY <1>6, <1>9, <1>18, <2>1, <2>2, <2>3, <2>4 DEF WriterAt, InZone
<1>24. ListHolds'
  <2>1. ASSUME NEW z \in Zones \ foreign, w'.pc \in {"file", "zone"},
               z > w'.z \/ (z = w'.z /\ w'.pc = "zone")
        PROVE  wp'[z] = w'.list[z]
    <3>1. z > w.z
      <4>1. z \in Nat
        BY ZoneFacts
      <4> QED BY <1>4, <1>9, <2>1, <4>1
    <3>2. z # w.z
      BY <1>4, <3>1, ZoneFacts
    <3>3. wp[z] = w.list[z]
      BY <1>0, <1>2, <3>1 DEF WriterInv, ListHolds
    <3> QED BY <1>8, <1>9, <3>2, <3>3
  <2>2. ASSUME w'.pc = "file", w.z \notin foreign, w.job.ofst = 0, Type(w.z) = "swr",
               w.list[w.z] = 0
        PROVE  wp'[w.z] = w.ofst + n
    <3>1. wp[w.z] = w.ofst
      BY <1>0, <1>2, <2>2 DEF WriterInv, ListHolds
    <3> QED BY <1>8, <2>2, <3>1
  <2>3. w'.pc = "file" => w'.z = w.z
    BY <1>9
  <2> QED BY <1>2, <1>9, <2>1, <2>2, <2>3 DEF ListHolds, InZone, Type
<1>25. WriterTyped'
  BY <1>0, <1>2, <1>8, <1>9, <1>10 DEF WriterTyped, ZoneIOTypeOK
<1>26. ASSUME w.job.size >= 0, ~w.job.loop
       PROVE  /\ w.job.size \in Nat
              /\ w.buf[1] \in 1..w.job.size
              /\ \A k \in 1..w.job.io :
                   w.buf[k] = IF w.buf[1] + k - 1 <= w.job.size
                                THEN w.buf[1] + k - 1 ELSE 0
              /\ w.fpos = IF w.buf[1] + w.job.io - 1 <= w.job.size
                            THEN w.buf[1] + w.job.io - 1 ELSE w.job.size
              /\ w.z = w.job.zidx /\ ~Continues => w.buf[1] = 1
              /\ L > 0 => out[L].src > 0 /\ out[L].src < w.buf[1]
              /\ Continues => out[L].src = w.buf[1] - 1
  <2>1. w.job.size \in Nat
    <3>1. w.job.size \in Nat \cup {-1}
      BY <1>0, WriterTypes
    <3> QED BY <1>26, <3>1
  <2>2. ~(w.ofst >= w.max)
    BY <1>2, <1>3, <1>4
  <2>3. L > 0 => out /= <<>>
    BY <1>a
  <2> QED BY <1>0, <1>a, <1>26, <2>1, <2>2, <2>3 DEF WriterInv, FileAt, LastSrc
<1>27. FileAt'
  <2> SUFFICES ASSUME w.job.size >= 0, ~w.job.loop PROVE FileAt'
    BY <1>9 DEF FileAt
  <2>0. LastSrc' = w.buf[n] /\ out' /= <<>>
    BY <1>16 DEF LastSrc
  <2>1. w.buf[n] <= w.fpos /\ (w.buf[n] = 0 => w.fpos = w.job.size)
    <3>1. n \in Nat /\ n \in 1..w.job.io /\ n <= w.job.io /\ w.job.io \in Nat
      BY <1>4, <1>5
    <3>2. w.buf[n] = IF w.buf[1] + n - 1 <= w.job.size THEN w.buf[1] + n - 1 ELSE 0
      BY <1>26, <3>1
    <3>3. w.buf[1] \in Nat /\ w.buf[1] > 0 /\ w.job.size \in Nat
      BY <1>26
    <3> QED BY <1>26, <3>1, <3>2, <3>3
  <2>3. CASE w'.pc = "zone"
    <3>1. w'.z /= w'.job.zidx
      BY <1>4, <1>6, <1>9, <2>3
    <3> QED BY <2>0, <2>1, <2>3, <3>1 DEF FileAt
  <2>2. CASE w'.pc = "file"
    <3>1. Continues'
      BY <1>9, <1>17, <2>2
    <3>2. \/ w'.ofst >= w'.max \/ w'.fpos = w'.job.size
          \/ w'.fpos > 0 /\ LastSrc' = w'.fpos
      <4>1. CASE n < w.job.io
        <5>1. w.ofst + n = w.max
          BY <1>3, <1>9, <2>2, <4>1
        <5>2. w.ofst + n >= w.max
          BY <1>4, <5>1
        <5> QED BY <1>9, <2>2, <5>2
      <4>2. CASE ~(n < w.job.io)
        <5>1. n = w.job.io /\ w.job.io \in 1..w.job.io
          BY <1>4, <1>5, <4>2
        <5>2. w.buf[n] = IF w.buf[1] + w.job.io - 1 <= w.job.size
                           THEN w.buf[1] + w.job.io - 1 ELSE 0
          BY <1>26, <5>1
        <5>3. w.buf[1] \in Nat /\ w.buf[1] > 0 /\ w.job.size \in Nat
          BY <1>26
        <5>4. w.fpos = w.job.size \/ (w.fpos > 0 /\ w.buf[n] = w.fpos)
          <6>1. w.buf[1] + w.job.io - 1 > 0
            BY <1>4, <1>5, <5>3
          <6> QED BY <1>26, <5>2, <6>1
        <5> QED BY <2>0, <5>4
      <4> QED BY <4>1, <4>2
    <3> QED BY <2>0, <2>1, <2>2, <3>1, <3>2 DEF FileAt
  <2>4. CASE w'.pc = "done"
    BY <2>4 DEF FileAt
  <2> QED BY <1>9, <2>2, <2>3, <2>4
<1>28. FileInOrder'
  <2> SUFFICES ASSUME w.job.size >= 0, ~w.job.loop, NEW k \in 1..Len(out')
               PROVE  IF StartsZone(k)'
                        THEN /\ out'[k].z = w.job.zidx => out'[k].src = 1
                             /\ k > 1 => out'[k - 1].src \in 1..(out'[k].src - 1)
                      ELSE out'[k].src = IF out'[k - 1].src \in 1..(w.job.size - 1)
                                           THEN out'[k - 1].src + 1 ELSE 0
    BY <1>9 DEF FileInOrder
  <2>0. w.buf[1] \in Nat /\ w.buf[1] > 0 /\ w.buf[1] <= w.job.size /\ w.job.size \in Nat
    BY <1>26
  <2>1. CASE k \in 1..L
    <3>1. IF StartsZone(k)
            THEN /\ out[k].z = w.job.zidx => out[k].src = 1
                 /\ k > 1 => out[k - 1].src \in 1..(out[k].src - 1)
          ELSE out[k].src = IF out[k - 1].src \in 1..(w.job.size - 1)
                              THEN out[k - 1].src + 1 ELSE 0
      BY <1>0, <1>a, <1>26, <2>1 DEF WriterInv, FileInOrder
    <3>2. ~StartsZone(k) => k > 1
      BY <2>1, <1>10 DEF StartsZone
    <3> QED BY <1>12, <2>1, <3>1, <3>2
  <2>2. CASE k = L + 1
    <3>1. out'[k].z = w.z /\ out'[k].src = w.buf[1] /\ k - 1 = L
      <4>1. 1 \in 1..n /\ L + 1 - 1 = L
        BY <1>5
      <4>2. out'[L + 1].z = w.z /\ out'[L + 1].src = w.buf[1]
        BY <1>11, <4>1
      <4> QED BY <2>2, <4>1, <4>2
    <3>2. CASE Continues
      <4>1. /\ ~StartsZone(k)' /\ out'[k - 1].src = w.buf[1] - 1
            /\ out'[k - 1].src > 0
        BY <1>10, <1>13, <1>19, <1>20, <1>26, <2>2, <3>1, <3>2
      <4>2. w.buf[1] - 1 \in 1..(w.job.size - 1) /\ w.buf[1] = w.buf[1] - 1 + 1
        BY <2>0, <4>1
      <4> QED BY <3>1, <4>1, <4>2
    <3>3. CASE ~Continues
      <4>1. StartsZone(k)' /\ (out'[k].z = w.job.zidx => out'[k].src = 1)
        BY <1>13, <1>26, <2>2, <3>1, <3>3
      <4>2. ASSUME k > 1 PROVE out'[k - 1].src \in 1..(out'[k].src - 1)
        <5>1. L > 0 /\ L \in 1..L
          BY <1>19, <2>2, <4>2
        <5>2. out'[k - 1] = out[L] /\ out[L].src > 0 /\ out[L].src < w.buf[1]
          BY <1>10, <1>26, <3>1, <5>1
        <5>3. out[L].src \in Nat
          <6>1. out[L] \in [z : Zones, at : Nat, src : Nat]
            BY <1>0, <1>a, <5>1, ElementOfSeq DEF ZoneIOTypeOK
          <6> QED BY <6>1
        <5> QED BY <2>0, <3>1, <5>2, <5>3
      <4> QED BY <4>1, <4>2
    <3> QED BY <3>2, <3>3
  <2>3. CASE \E j \in 2..n : k = L + j
    <3>1. PICK j \in 2..n : k = L + j
      BY <2>3
    <3>2. ~StartsZone(k)' /\ j - 1 \in 1..n /\ j \in 1..n /\ k - 1 = L + (j - 1)
      <4>1. /\ ~StartsZone(L + j)' /\ j - 1 \in 1..n /\ j \in 1..n
            /\ L + j - 1 = L + (j - 1)
        BY <1>14
      <4> QED BY <3>1, <4>1
    <3>3. out'[k].src = w.buf[j] /\ out'[k - 1].src = w.buf[j - 1]
      BY <1>11, <3>1, <3>2
    <3>4. j \in 1..w.job.io /\ j - 1 \in 1..w.job.io
      <4>1. n \in Nat /\ w.job.io \in Nat /\ n <= w.job.io
        BY <1>4, <1>5
      <4> QED BY <3>2, <4>1
    <3>5. /\ w.buf[j] = IF w.buf[1] + j - 1 <= w.job.size THEN w.buf[1] + j - 1 ELSE 0
          /\ w.buf[j - 1] = IF w.buf[1] + (j - 1) - 1 <= w.job.size
                              THEN w.buf[1] + (j - 1) - 1 ELSE 0
      BY <1>26, <3>4
    <3>6. w.buf[j] = IF w.buf[j - 1] \in 1..(w.job.size - 1) THEN w.buf[j - 1] + 1 ELSE 0
      <4>1. j \in Int /\ j >= 2
        BY <3>2
      <4>2. CASE w.buf[1] + j - 1 <= w.job.size
        <5>1. w.buf[j] = w.buf[1] + j - 1 /\ w.buf[j - 1] = w.buf[1] + j - 2
          BY <2>0, <3>5, <4>1, <4>2
        <5>2. w.buf[1] + j - 2 \in 1..(w.job.size - 1)
          BY <2>0, <4>1, <4>2
        <5>3. w.buf[1] + j - 1 = w.buf[1] + j - 2 + 1
          BY <2>0, <4>1
        <5> QED BY <5>1, <5>2, <5>3
      <4>3. CASE ~(w.buf[1] + j - 1 <= w.job.size)
        <5>1. w.buf[j] = 0
          BY <3>5, <4>3
        <5>2. w.buf[j - 1] = 0 \/ w.buf[j - 1] >= w.job.size
          BY <2>0, <3>5, <4>1, <4>3
        <5> QED BY <2>0, <5>1, <5>2
      <4> QED BY <4>2, <4>3
    <3> QED BY <3>2, <3>3, <3>6
  <2> QED BY <1>15, <2>1, <2>2, <2>3
<1> QED BY <1>8, <1>21, <1>22, <1>23, <1>24, <1>25, <1>27, <1>28 DEF WriterInv

\* A write that succeeds.
LEMMA WWriteStep ==
  ASSUME ZoneIOInv, WWrite
  PROVE  /\ WriterInv' /\ WriterTyped'
         /\ \A z \in Zones : wp'[z] >= wp[z]
<1>1. /\ w.pc = "io" /\ SectorCount > 0 /\ Put(SectorCount) /\ w' = AfterWrite
      /\ foreign' = foreign
  BY DEF WWrite, Sent
<1>2. ZoneIOTypeOK
  BY DEF ZoneIOInv
<1>3. PICK n \in 1..SectorCount : n = SectorCount
  <2>1. SectorCount \in Int
    BY <1>2, SectorCountFacts
  <2> QED BY <1>1, <2>1
<1>4. /\ w' \in Writer /\ w'.job = w.job /\ w'.list = w.list /\ w'.max = w.max
      /\ w'.fpos = w.fpos /\ w'.buf = w.buf
      /\ \/ w'.pc = "file" /\ w'.z = w.z /\ w'.ofst = w.ofst + n
         \/ w'.pc = "zone" /\ w'.z = w.z + 1
  BY <1>1, <1>2, <1>3, AfterWriteFacts
<1>5. Put(n)
  BY <1>1, <1>3
<1> QED BY <1>1, <1>3, <1>4, <1>5, PutStep

\* A write that fails, whatever part of it was carried out.
LEMMA WWriteFailsStep ==
  ASSUME ZoneIOInv, WWriteFails
  PROVE  /\ WriterInv' /\ WriterTyped'
         /\ \A z \in Zones : wp'[z] >= wp[z]
<1>0. ZoneIOTypeOK /\ WriterInv /\ w \in Writer /\ SectorCount \in Int
  BY SectorCountFacts DEF ZoneIOInv, ZoneIOTypeOK
<1>1. PICK n \in (IF Sent THEN 0..SectorCount ELSE {0}) : Put(n)
  BY DEF WWriteFails
<1>2. w.pc = "io" /\ w' = [w EXCEPT !.pc = "done", !.ret = 1] /\ foreign' = foreign
  BY DEF WWriteFails
<1>3. CASE n = 0
  <2>1. wp' = wp
    BY <1>1, <1>3 DEF Put, Moved
  <2>2. out' = out
    <3>1. out' = out \o [k \in 1..0 |-> [z |-> w.z, at |-> w.ofst + k - 1,
                                         src |-> w.buf[k]]]
      BY <1>1, <1>3 DEF Put
    <3>2. out' = out \o <<>>
      BY <3>1
    <3>3. out \in Seq([z : Zones, at : Nat, src : Nat])
      BY <1>0 DEF ZoneIOTypeOK
    <3> QED BY <3>2, <3>3
  <2>3. 1 \in Int
    OBVIOUS
  <2>4. WriterInv' /\ w' \in Writer
    BY <1>0, <1>2, <2>2, <2>3, WriterStops
  <2>5. \A z \in Zones : wp[z] \in Int
    BY <1>0, ZoneFacts DEF ZoneIOTypeOK
  <2>6. \A z \in Zones : wp'[z] >= wp[z]
    BY <2>1, <2>5
  <2> QED BY <1>0, <1>2, <2>1, <2>2, <2>4, <2>6 DEF WriterTyped, ZoneIOTypeOK
<1>4. CASE n # 0
  <2>1. n \in 1..SectorCount /\ SectorCount > 0
    BY <1>0, <1>1, <1>4 DEF Sent
  <2>2. /\ w' \in Writer /\ w'.job = w.job /\ w'.list = w.list /\ w'.max = w.max
        /\ w'.fpos = w.fpos /\ w'.buf = w.buf /\ w'.pc = "done" /\ w'.z = w.z
    <3>1. 1 \in Int /\ w \in Writer
      BY <1>0
    <3> QED BY <1>2, <3>1 DEF Writer
  <2> QED BY <1>1, <1>2, <2>1, <2>2, PutStep
<1> QED BY <1>3, <1>4

-----------------------------------------------------------------------------
\* The two programs start in order.
LEMMA ZoneIOInitInv == ASSUME ZoneIOInit PROVE ZoneIOInv
<1>1. PICK j \in Jobs :
        /\ w = [job |-> j[1], pc |-> "list", list |-> <<>>, z |-> 0, ofst |-> 0,
                max |-> 0, iocount |-> 0, fpos |-> 0, buf |-> <<>>,
                abort |-> FALSE, ret |-> 0]
        /\ r = [job |-> j[2], pc |-> "list", z |-> 0, ofst |-> 0, max |-> 0,
                iocount |-> 0, got |-> 0, lossy |-> FALSE, abort |-> FALSE,
                ret |-> 0]
  BY DEF ZoneIOInit
<1>2. j[1] \in WriteJob /\ j[2] \in ReadJob
  <2>1. j \in WriteJob \X ReadJob
    BY ZoneIOAssumption
  <2> QED BY <2>1
<1>3. /\ wp \in [Zones -> 0..ZoneLen] /\ others = 0 /\ foreign = {} /\ emptied = {}
      /\ out = <<>> /\ file = "absent"
  BY ZoneIOAssumption DEF ZoneIOInit
<1>4. /\ w.job = j[1] /\ w.pc = "list" /\ w.fpos = 0 /\ w.z = 0
      /\ r.job = j[2] /\ r.pc = "list" /\ r.ret = 0 /\ r.lossy = FALSE
  BY <1>1
<1>5. w \in Writer
  <2>1. 0 \in 0..ZoneLen /\ 0 \in Nat /\ 0 \in Int /\ <<>> \in Seq(Nat)
    BY ZoneFacts
  <2> QED BY <1>1, <1>2, <2>1 DEF Writer
<1>6. r \in Reader
  <2>1. 0 \in 0..ZoneLen /\ 0 \in Nat
    BY ZoneFacts
  <2> QED BY <1>1, <1>2, <2>1 DEF Reader
<1>7. ZoneIOTypeOK
  <2>1. 0 \in 0..MaxOthers
    BY ZoneIOAssumption
  <2>2. <<>> \in Seq([z : Zones, at : Nat, src : Nat])
    OBVIOUS
  <2> QED BY <1>3, <1>5, <1>6, <2>1, <2>2 DEF ZoneIOTypeOK
<1>8. Len(out) = 0 /\ 1..Len(out) = {}
  BY <1>3
<1>9. WriterAt
  <2>1. w.job.size >= 0 => w.fpos <= w.job.size
    BY <1>4, <1>7, WriterTypes
  <2> QED BY <1>3, <1>4, <1>8, <2>1 DEF WriterAt, InZone
<1>10. OutInOrder /\ FileInOrder
  BY <1>8 DEF OutInOrder, FileInOrder
<1>11. Counted /\ ListHolds /\ FileAt
  BY <1>4 DEF Counted, ListHolds, FileAt, InZone
<1>12. ReaderAt /\ FileIsZone
  BY <1>3, <1>4 DEF ReaderAt, FileIsZone
<1> QED BY <1>7, <1>9, <1>10, <1>11, <1>12 DEF ZoneIOInv, WriterInv

\* Every step keeps the invariant.
LEMMA ZoneIOStep == ASSUME ZoneIOInv, [ZoneIONext]_zoneIOVars PROVE ZoneIOInv'
<1>0. /\ ZoneIOTypeOK /\ WriterInv /\ ReaderAt /\ FileIsZone
      /\ wp \in [Zones -> 0..ZoneLen] /\ others \in 0..MaxOthers
      /\ foreign \subseteq Zones /\ emptied \subseteq Zones
      /\ w \in Writer /\ r \in Reader
      /\ out \in Seq([z : Zones, at : Nat, src : Nat])
      /\ file = "absent" \/ file \in Seq(0..(ZoneLen - 1))
  BY DEF ZoneIOInv, ZoneIOTypeOK
<1>1. \A z \in Zones : wp[z] >= wp[z]
  <2>1. \A z \in Zones : wp[z] \in Int
    BY <1>0, ZoneFacts
  <2> QED BY <2>1
<1>2. CASE WStep \/ WAbort
  <2>1. others' = others /\ emptied' = emptied /\ r' = r /\ file' = file
    BY <1>2 DEF WStep, WAbort, WList, WGivesUp, WZone, WFile, WFileFails, WZoneEnds,
                WWrite, WWriteFails, WFlush, WOnly
  <2>2. CASE WWrite \/ WWriteFails
    <3>1. WriterInv' /\ WriterTyped' /\ \A z \in Zones : wp'[z] >= wp[z]
      BY <2>2, WWriteStep, WWriteFailsStep
    <3>2. ReaderAt' /\ FileIsZone'
      BY <1>0, <2>1, <3>1, ReaderFrame DEF WriterTyped
    <3> QED BY <1>0, <2>1, <3>1, <3>2 DEF ZoneIOInv, ZoneIOTypeOK, WriterTyped
  <2>3. CASE ~(WWrite \/ WWriteFails)
    <3>1. WriterInv' /\ WriterTyped'
      BY <1>2, <2>3, WListStep, WEndStep, WZoneStep, WFileStep, WFileFailsStep,
         WZoneEndsStep, WAbortStep DEF WStep
    <3>2. wp' = wp
      BY <1>2, <2>3 DEF WStep, WAbort, WList, WGivesUp, WZone, WFile, WFileFails,
                        WZoneEnds, WFlush
    <3>3. ReaderAt' /\ FileIsZone'
      BY <1>0, <1>1, <2>1, <3>2, ReaderFrame
    <3> QED BY <1>0, <2>1, <3>1, <3>3 DEF ZoneIOInv, ZoneIOTypeOK, WriterTyped
  <2> QED BY <2>2, <2>3
<1>3. CASE RStep \/ RAbort
  <2>1. wp' = wp /\ others' = others /\ foreign' = foreign /\ w' = w /\ out' = out
    BY <1>3 DEF RStep, RAbort, RList, RGivesUp, REnds, RRead, RReadFails, RSave,
                RSaveFails, ROnly
  <2>2. WriterInv'
    BY <1>0, <2>1, WriterFrame
  <2>3. /\ r' \in Reader /\ emptied' \subseteq Zones
        /\ file' = "absent" \/ file' \in Seq(0..(ZoneLen - 1))
        /\ ReaderAt' /\ FileIsZone'
    BY <1>3, ReaderStep
  <2> QED BY <1>0, <2>1, <2>2, <2>3 DEF ZoneIOInv, ZoneIOTypeOK
<1>4. ASSUME NEW zn \in Zones, OtherWrite(zn) PROVE ZoneIOInv'
  <2>1. /\ others < MaxOthers /\ wp[zn] + PBlock <= ZoneLen
        /\ wp' = [wp EXCEPT ![zn] = wp[zn] + PBlock]
        /\ others' = others + 1 /\ foreign' = foreign \cup {zn}
        /\ emptied' = emptied /\ w' = w /\ out' = out /\ r' = r /\ file' = file
    BY <1>4 DEF OtherWrite
  <2>2. wp[zn] \in Nat /\ ZoneLen \in Nat /\ PBlock \in Nat
    BY <1>0, ZoneFacts, ZoneIOAssumption
  <2>3. wp[zn] + PBlock \in 0..ZoneLen
    BY <2>1, <2>2
  <2>4. WriterInv' /\ WriterTyped'
    BY <2>1, <2>3, OtherStep
  <2>5. \A z \in Zones : wp'[z] >= wp[z]
    <3>1. wp[zn] + PBlock >= wp[zn]
      BY <2>2
    <3> QED BY <1>0, <1>1, <2>1, <3>1
  <2>6. ReaderAt' /\ FileIsZone'
    BY <1>0, <2>1, <2>4, <2>5, ReaderFrame DEF WriterTyped
  <2>7. others' \in 0..MaxOthers
    BY <1>0, <2>1, ZoneIOAssumption
  <2> QED BY <1>0, <2>1, <2>4, <2>6, <2>7 DEF ZoneIOInv, ZoneIOTypeOK, WriterTyped
<1>5. ASSUME NEW zn \in Zones, OtherReset(zn) PROVE ZoneIOInv'
  <2>1. /\ others < MaxOthers /\ wp' = [wp EXCEPT ![zn] = 0]
        /\ others' = others + 1 /\ foreign' = foreign \cup {zn}
        /\ emptied' = emptied \cup {zn} /\ w' = w /\ out' = out /\ r' = r /\ file' = file
    BY <1>5 DEF OtherReset
  <2>2. 0 \in 0..ZoneLen
    BY ZoneFacts
  <2>3. WriterInv' /\ WriterTyped'
    BY <2>1, <2>2, OtherStep
  <2>4. \A z \in Zones : z \in emptied' \/ wp'[z] >= wp[z]
    BY <1>0, <1>1, <2>1
  <2>5. ReaderAt' /\ FileIsZone'
    BY <1>0, <2>1, <2>3, <2>4, ReaderFrame DEF WriterTyped
  <2>6. others' \in 0..MaxOthers
    BY <1>0, <2>1, ZoneIOAssumption
  <2> QED BY <1>0, <2>1, <2>3, <2>5, <2>6 DEF ZoneIOInv, ZoneIOTypeOK, WriterTyped
<1>6. CASE UNCHANGED zoneIOVars
  <2>1. /\ wp' = wp /\ others' = others /\ foreign' = foreign /\ emptied' = emptied
        /\ w' = w /\ out' = out /\ r' = r /\ file' = file
    BY <1>6 DEF zoneIOVars
  <2>2. WriterInv'
    BY <1>0, <2>1, WriterFrame
  <2>3. ReaderAt' /\ FileIsZone'
    BY <1>0, <1>1, <2>1, ReaderFrame
  <2> QED BY <1>0, <2>1, <2>2, <2>3 DEF ZoneIOInv, ZoneIOTypeOK
<1> QED BY <1>2, <1>3, <1>4, <1>5, <1>6 DEF ZoneIONext

\* What holds at the start and is kept by every step holds always.
LEMMA ZoneIOInvariance == ZoneIOSpec => []ZoneIOInv
  BY ZoneIOInitInv, ZoneIOStep, PTL DEF ZoneIOSpec

\* What the two programs and the device hold stays of its type: the write
\* pointers within their zones, all sectors written in zones of the device,
\* and the reader's file made of offsets into the zone.
THEOREM ZoneIOTypeCorrect == ZoneIOSpec => []ZoneIOTypeOK
<1>1. ZoneIOInv => ZoneIOTypeOK
  BY DEF ZoneIOInv
<1> QED BY <1>1, ZoneIOInvariance, PTL

\* zbc_write_zone goes on where the last write stopped, a write that fails
\* half done included, and where nobody interferes it writes at the write
\* pointer.
THEOREM WritesInOrderHolds == ZoneIOSpec => []WritesInOrder
<1>1. ZoneIOInv => WritesInOrder
  BY DEF ZoneIOInv, WriterInv, WritesInOrder, ListHolds, OwnWrite, InZone
<1> QED BY <1>1, ZoneIOInvariance, PTL

\* What zbc_write_zone writes of a file is the file, in order, then zeroes, and
\* no sector of the file is written twice.
THEOREM FileInOrderHolds == ZoneIOSpec => []FileInOrder
<1>1. ZoneIOInv => FileInOrder
  BY DEF ZoneIOInv, WriterInv
<1> QED BY <1>1, ZoneIOInvariance, PTL

\* zbc_read_zone never asks for what is beyond the write pointer, whatever the
\* writer and the others write in the meantime.
THEOREM ReadBelowWpHolds == ZoneIOSpec => []ReadBelowWp
<1>1. ZoneIOInv => ReadBelowWp
  <2> SUFFICES ASSUME ZoneIOInv, r.pc = "io", ReadCount > 0, Type(r.z) = "swr",
                      r.z \notin emptied
               PROVE  r.ofst + ReadCount <= wp[r.z]
    BY DEF ReadBelowWp
  <2>1. r.z \in Zones /\ r.max <= wp[r.z]
    BY DEF ZoneIOInv, ReaderAt
  <2>2. r.ofst \in Int /\ r.max \in Int /\ r.job.io \in Int /\ wp[r.z] \in Int
    BY <2>1, ReaderTypes, ZoneFacts DEF ZoneIOInv, ZoneIOTypeOK
  <2>3. ReadCount \in Int /\ r.ofst + ReadCount <= r.max
    BY <2>2 DEF ReadCount, Clip
  <2> QED BY <2>1, <2>2, <2>3
<1> QED BY <1>1, ZoneIOInvariance, PTL

\* A reader that exits with 0 leaves the sectors of the zone in its file, and
\* one that fails leaves no file.
THEOREM FileIsZoneHolds == ZoneIOSpec => []FileIsZone
<1>1. ZoneIOInv => FileIsZone
  BY DEF ZoneIOInv
<1> QED BY <1>1, ZoneIOInvariance, PTL
=============================================================================
