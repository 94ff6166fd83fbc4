-------------------------------- MODULE Gzbc --------------------------------
(***************************************************************************)
(* The graphical tool gzbc: its table of open devices, and the commands it *)
(* runs.  A command runs in a thread of its own while the main thread      *)
(* either waits for it or shows a dialog, whose main loop still serves the *)
(* refresh timer.  The device's slot holds the one command identifier, the *)
(* one dialog and the one thread that both of them use.                    *)
(*                                                                         *)
(* What is shown of zones is left out: a command is a report ("report") or *)
(* a zone operation followed by one ("op").                                *)
(***************************************************************************)
EXTENDS Integers, Sequences, SequencesExt, FiniteSets

CONSTANTS
  MaxDev,      \* DZ_MAX_DEV, the slots of the table
  Timer,       \* whether the refresh timer was asked for
  MaxOpens,    \* most attempts to open a device
  MaxCmds      \* most commands

Slots == 1..MaxDev

ASSUME GzbcAssumption ==
  /\ MaxDev \in Nat \ {0} /\ Timer \in BOOLEAN
  /\ MaxOpens \in Nat /\ MaxCmds \in Nat

VARIABLES
  dev,       \* dz.dev: open, and cmd_id, cmd_dialog, cmd_thread
  nrDevs,    \* dz.nr_devs
  notebook,  \* the notebook is there, else the frame "No device open"
  pages,     \* the slots that have a page in it
  cur,       \* the slot of the current page, or 0
  opens,     \* attempts to open so far
  failed,    \* of these, the ones whose first report failed
  stack,     \* the calls of dz_cmd_exec of the main thread, innermost last
  thr,       \* the command threads; the n-th one goes with dialog n
  ghosts,    \* dialogs left on the screen by a call that ended
  lost,      \* dialogs that were answered before they ran
  nested,    \* the timer fired while a dialog of the same device ran
  quit

table == <<nrDevs, notebook, pages, cur, opens, failed>>
flags == <<ghosts, lost, nested>>
vars  == <<dev, table, stack, thr, flags, quit>>

Free == [open |-> FALSE, cmd |-> "report", dialog |-> 0, thread |-> 0]

Init ==
  /\ dev = [s \in Slots |-> Free]
  /\ nrDevs = 0 /\ notebook = FALSE /\ pages = {} /\ cur = 0
  /\ opens = 0 /\ failed = 0
  /\ stack = <<>> /\ thr = <<>>
  /\ ghosts = {} /\ lost = {} /\ nested = FALSE /\ quit = FALSE

Top == Last(stack)

\* The main window takes input: no dialog is above it.
Idle == stack = <<>> /\ ghosts = {} /\ ~quit
-----------------------------------------------------------------------------
(***************************************************************************)
(* The table of devices.  A zbc_open that fails changes nothing.           *)
(***************************************************************************)
Unused == {s \in Slots : ~dev[s].open}

FirstUnused == CHOOSE s \in Unused : \A t \in Unused : s <= t

Open ==
  /\ Idle /\ opens < MaxOpens /\ Unused # {}
  /\ dev' = [dev EXCEPT ![FirstUnused].open = TRUE]
  /\ nrDevs' = nrDevs + 1 /\ opens' = opens + 1
  /\ notebook' = TRUE
  /\ pages' = pages \cup {FirstUnused} /\ cur' = FirstUnused
  /\ UNCHANGED <<failed, stack, thr, flags, quit>>

\* The device opens but its zones cannot be listed: dz_close gives the slot
\* back and counts down what was not counted yet.
OpenFails ==
  /\ Idle /\ opens < MaxOpens /\ Unused # {}
  /\ nrDevs' = nrDevs - 1 /\ opens' = opens + 1 /\ failed' = failed + 1
  /\ UNCHANGED <<dev, notebook, pages, cur, stack, thr, flags, quit>>

\* Mutant: the last device but one takes the notebook away.
dz_if_remove_device_early(s) ==
  /\ dev' = [dev EXCEPT ![s] = Free]
  /\ nrDevs' = nrDevs - 1
  /\ notebook' = (notebook /\ nrDevs' > 1)
  /\ pages' = IF notebook' THEN pages \ {s} ELSE {}
  /\ cur' \in IF pages' = {} THEN {0} ELSE pages'

\* The page goes; when no device is counted any more, so does the notebook.
dz_if_remove_device(s) ==
  /\ dev' = [dev EXCEPT ![s] = Free]
  /\ nrDevs' = nrDevs - 1
  /\ notebook' = (notebook /\ nrDevs' # 0)
  /\ pages' = IF notebook' THEN pages \ {s} ELSE {}
  /\ cur' \in IF pages' = {} THEN {0} ELSE pages'

\* The close button of a page, or that of the toolbar for the current one.
Close(s) ==
  /\ Idle /\ s \in pages /\ dev[s].open
  /\ dz_if_remove_device(s)
  /\ UNCHANGED <<opens, failed, stack, thr, flags, quit>>

SetPage(s) ==
  /\ Idle /\ s \in pages /\ cur' = s
  /\ UNCHANGED <<dev, nrDevs, notebook, pages, opens, failed, stack, thr, flags, quit>>

\* The exit button and the window's: without a notebook nothing is closed.
Exit ==
  /\ Idle
  /\ dev' = IF notebook THEN [s \in Slots |-> Free] ELSE dev
  /\ nrDevs' = IF notebook
                 THEN nrDevs - Cardinality({s \in Slots : dev[s].open}) ELSE nrDevs
  /\ notebook' = FALSE /\ pages' = {} /\ cur' = 0
  /\ quit' = TRUE
  /\ UNCHANGED <<opens, failed, stack, thr, flags>>

\* A signal only ends the main loop.
Signal ==
  /\ stack = <<>> /\ ~quit /\ quit' = TRUE
  /\ UNCHANGED <<dev, table, stack, thr, flags>>
-----------------------------------------------------------------------------
(***************************************************************************)
(* dz_cmd_exec, in the main thread.                                        *)
(***************************************************************************)
Frame(s, by, dlg, pc) ==
  [slot |-> s, by |-> by, dlg |-> dlg, pc |-> pc, ans |-> "none"]

dz_cmd_exec(s, cmd, msg, by) ==
  /\ Len(thr) < MaxCmds
  /\ LET n == Len(thr) + 1
         d == IF msg THEN n ELSE 0
     IN  \/ \* The thread is there, and the dialog is about to run.
            /\ dev' = [dev EXCEPT ![s].cmd = cmd, ![s].dialog = d, ![s].thread = n]
            /\ thr' = Append(thr, [slot |-> s, pc |-> "start", ret |-> 0])
            /\ stack' = Append(stack, Frame(s, by, d, IF msg THEN "enter" ELSE "join"))
         \/ \* pthread_create failed.
            /\ dev' = [dev EXCEPT ![s].cmd = cmd, ![s].dialog = 0]
            /\ thr' = Append(thr, [slot |-> s, pc |-> "over", ret |-> -1])
            /\ stack' = Append(stack, Frame(s, by, 0, "err"))

\* The refresh button and the filter, or a button for a zone operation, of
\* which only the reset has a message.
Refresh ==
  /\ Idle /\ cur # 0
  /\ dz_cmd_exec(cur, "report", TRUE, "user")
  /\ UNCHANGED <<table, flags, quit>>

ZoneOp ==
  /\ Idle /\ cur # 0
  /\ \E msg \in BOOLEAN : dz_cmd_exec(cur, "op", msg, "user")
  /\ UNCHANGED <<table, flags, quit>>

\* The timer is served by the main loop of a dialog too, but not by one that
\* it runs itself.
TimerFires ==
  /\ Timer /\ ~quit /\ notebook /\ cur # 0
  /\ stack # <<>> => Top.pc \in {"run", "err"}
  /\ \A k \in 1..Len(stack) : stack[k].by # "timer"
  /\ dz_cmd_exec(cur, "report", TRUE, "timer")
  /\ nested' = (nested \/ \E k \in 1..Len(stack) : stack[k].pc = "run")
  /\ UNCHANGED <<table, ghosts, lost, quit>>

SetTop(f) == stack' = Front(stack) \o <<f>>

MainOnly == UNCHANGED <<table, quit>>

\* gtk_dialog_run.
EnterRun ==
  /\ stack # <<>> /\ Top.pc = "enter"
  /\ SetTop([Top EXCEPT !.pc = "run"])
  /\ UNCHANGED <<dev, thr, flags>> /\ MainOnly

RunEnds ==
  /\ stack # <<>> /\ Top.pc = "run" /\ Top.ans # "none"
  /\ SetTop([Top EXCEPT !.pc = "join"])
  /\ UNCHANGED <<dev, thr, flags>> /\ MainOnly

\* The user closes the dialog, or one that nobody runs any more.
Escape ==
  /\ stack # <<>> /\ Top.pc = "run" /\ Top.ans = "none"
  /\ SetTop([Top EXCEPT !.pc = "join", !.ans = "reject"])
  /\ UNCHANGED <<dev, thr, flags>> /\ MainOnly

CloseGhost ==
  /\ stack = <<>> /\ ghosts # {}
  /\ ghosts' = {}
  /\ UNCHANGED <<dev, stack, thr, lost, nested>> /\ MainOnly

\* What is left of the call once the slot's thread was joined.
Finish(s, ok) ==
  /\ IF ok THEN stack' = Front(stack) ELSE SetTop([Top EXCEPT !.pc = "err"])
  /\ dev' = [dev EXCEPT ![s].dialog = 0]
  /\ ghosts' = IF Top.dlg \in {0, dev[s].dialog} THEN ghosts
               ELSE ghosts \cup {Top.dlg}
  /\ UNCHANGED <<thr, lost, nested>> /\ MainOnly

\* Mutant: a dialog that the user closed ends the call at once.
JoinNot ==
  /\ stack # <<>> /\ Top.pc = "join"
  /\ LET s == Top.slot
     IN  Finish(s, IF Top.dlg = 0 THEN thr[dev[s].thread].ret = 0
                   ELSE Top.ans = "ok")

\* pthread_join waits for the thread the slot names now.  A command without a
\* message joins its thread twice (gzbc.c:446, 450), and so does the outer of
\* two nested calls.  POSIX leaves that undefined; here the second join returns
\* at once, with no effect.
Join ==
  /\ stack # <<>> /\ Top.pc = "join"
  /\ LET s == Top.slot
         t == thr[dev[s].thread]
     IN  /\ t.pc = "over"
         /\ Finish(s, IF Top.dlg = 0 THEN t.ret = 0 ELSE Top.ans = "ok")

\* The message of an error is closed.
CloseError ==
  /\ stack # <<>> /\ Top.pc = "err"
  /\ stack' = Front(stack)
  /\ UNCHANGED <<dev, thr, flags>> /\ MainOnly
-----------------------------------------------------------------------------
(***************************************************************************)
(* dz_cmd_run, in a thread.                                                *)
(***************************************************************************)
ThreadOnly == UNCHANGED <<dev, table, quit>>

Start(t) ==
  /\ thr[t].pc = "start"
  /\ thr' = [thr EXCEPT ![t].pc = dev[thr[t].slot].cmd]
  /\ UNCHANGED <<stack, flags>> /\ ThreadOnly

\* The result of the operation is replaced by that of the report after it.
Operate(t) ==
  /\ thr[t].pc = "op"
  /\ thr' = [thr EXCEPT ![t].pc = "report"]
  /\ UNCHANGED <<stack, flags>> /\ ThreadOnly

Report(t) ==
  /\ thr[t].pc = "report"
  /\ \E ret \in {0, -1} :
       thr' = [thr EXCEPT ![t].pc = "answer", ![t].ret = ret]
  /\ UNCHANGED <<stack, flags>> /\ ThreadOnly

Answered(d, ans) ==
  [k \in 1..Len(stack) |->
     IF stack[k].dlg = d /\ stack[k].pc = "run" /\ stack[k].ans = "none"
       THEN [stack[k] EXCEPT !.ans = ans] ELSE stack[k]]

\* Mutant: only a success is answered.
AnswerOk(t) ==
  /\ thr[t].pc = "answer"
  /\ thr' = [thr EXCEPT ![t].pc = "over"]
  /\ stack' = IF thr[t].ret = 0 /\ dev[thr[t].slot].dialog # 0
                THEN Answered(dev[thr[t].slot].dialog, "ok") ELSE stack
  /\ UNCHANGED flags /\ ThreadOnly

\* gtk_dialog_response to the dialog the slot names now.  Before
\* gtk_dialog_run waits for it, the response is lost.
Answer(t) ==
  /\ thr[t].pc = "answer"
  /\ LET d   == dev[thr[t].slot].dialog
         ans == IF thr[t].ret = 0 THEN "ok" ELSE "reject"
     IN  /\ stack' = IF d = 0 THEN stack ELSE Answered(d, ans)
         /\ lost' = lost \cup {stack[k].dlg : k \in
                      {j \in 1..Len(stack) : d # 0 /\ stack[j].dlg = d
                                             /\ stack[j].pc = "enter"}}
  /\ thr' = [thr EXCEPT ![t].pc = "over"]
  /\ UNCHANGED <<ghosts, nested>> /\ ThreadOnly

ThreadStep(t) ==
  t \in 1..Len(thr) /\ (Start(t) \/ Operate(t) \/ Report(t) \/ Answer(t))
-----------------------------------------------------------------------------
MainStep == EnterRun \/ RunEnds \/ Join

Next ==
  \/ Open \/ OpenFails \/ Exit \/ Signal
  \/ \E s \in Slots : Close(s) \/ SetPage(s)
  \/ Refresh \/ ZoneOp \/ TimerFires
  \/ MainStep \/ Escape \/ CloseGhost \/ CloseError
  \/ \E t \in 1..MaxCmds : ThreadStep(t)

Spec == Init /\ [][Next]_vars

\* The main thread and the command threads run, and the library's calls
\* return.  Nothing is assumed of the user or of the timer.
FairSpec ==
  Spec /\ WF_vars(MainStep) /\ \A t \in 1..MaxCmds : WF_vars(ThreadStep(t))
-----------------------------------------------------------------------------
TypeOK ==
  /\ dev \in [Slots -> [open : BOOLEAN, cmd : {"report", "op"},
                        dialog : 0..MaxCmds, thread : 0..MaxCmds]]
  /\ nrDevs \in Int /\ notebook \in BOOLEAN /\ pages \subseteq Slots
  /\ cur \in pages \cup {0} /\ opens \in 0..MaxOpens /\ failed \in 0..opens
  /\ Len(stack) <= MaxCmds /\ Len(thr) <= MaxCmds
  /\ ghosts \subseteq 1..MaxCmds /\ lost \subseteq 1..MaxCmds
  /\ nested \in BOOLEAN /\ quit \in BOOLEAN
-----------------------------------------------------------------------------
Used == {s \in Slots : dev[s].open}

\* The count of devices is short by exactly the opens whose first report
\* failed.  As long as there was none, a device that is open can be reached:
\* it has a page, and "No device open" is shown only when that is so.
DevicesReachable ==
  /\ nrDevs = Cardinality(Used) - failed
  /\ failed = 0 => pages = Used /\ (notebook <=> Used # {})

Running == {t \in 1..Len(thr) : thr[t].pc # "over"}

\* No command thread outlives its dz_cmd_exec, and a device has one at a time,
\* so that none works on a slot that was closed or opened again, unless the
\* timer fired while a dialog ran.
ThreadsInside ==
  ~nested =>
    /\ \A t \in Running : \E k \in 1..Len(stack) :
         stack[k].slot = thr[t].slot /\ stack[k].pc \in {"enter", "run", "join"}
    /\ \A t, u \in Running : thr[t].slot = thr[u].slot => t = u

\* Every command comes back to the main loop or to the message of an error,
\* however its threads are scheduled, unless its dialog was answered before it
\* ran or the timer fired while a dialog ran: these two are the only ways to
\* leave the window with a dialog that has no button and that nobody answers.
CommandEnds ==
  (stack # <<>>) ~>
    \/ stack = <<>> \/ lost # {} \/ nested
    \/ \E k \in 1..Len(stack) : stack[k].pc = "err"
-----------------------------------------------------------------------------
(***************************************************************************)
(* What the proofs need.                                                   *)
(***************************************************************************)
Frames ==
  [slot : Slots, by : {"user", "timer"}, dlg : Nat,
   pc : {"enter", "run", "join", "err"}, ans : {"none", "ok", "reject"}]

Threads ==
  [slot : Slots, pc : {"start", "op", "report", "answer", "over"}, ret : {0, -1}]

Devices ==
  [open : BOOLEAN, cmd : {"report", "op"}, dialog : Nat, thread : Nat]

TableInv ==
  /\ dev \in [Slots -> Devices]
  /\ nrDevs \in Int /\ failed \in Nat /\ pages \subseteq Slots
  /\ cur \in pages \cup {0}
  /\ DevicesReachable

\* A command that runs is that of the innermost call, which goes on to join
\* it: its thread is the one that the slot names.
OneCommand ==
  ~nested =>
    \A t \in Running :
      /\ stack # <<>> /\ Top.slot = thr[t].slot
      /\ Top.pc \in {"enter", "run", "join"}
      /\ dev[Top.slot].thread = t

CallInv ==
  /\ stack \in Seq(Frames) /\ thr \in Seq(Threads)
  /\ nested \in BOOLEAN
  /\ OneCommand

IndInv == TableInv /\ CallInv
=============================================================================
