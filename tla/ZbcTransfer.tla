---------------------------- MODULE ZbcTransfer ----------------------------
(***************************************************************************)
(* What a vector read or write of libzbc promises its caller: the sectors  *)
(* asked for that lie below the capacity move between the caller's buffers *)
(* and the device one after the other, each exactly once and in order; the *)
(* call then returns how many moved, or it fails at some point and returns *)
(* a negative error.  How a request is cut into commands is not visible.   *)
(***************************************************************************)
EXTENDS ZbcRequests

VARIABLES
  phase,        \* "call" while the call runs, "done" once it returned
  req,          \* the request
  log,          \* what moved so far: a sequence of placements
  ret           \* the value returned, once phase is "done"

tvars == <<phase, req, log, ret>>

TInit ==
  /\ phase = "call"
  /\ req \in Requests
  /\ log = <<>>
  /\ ret = 0

\* Some more sectors of the request move, in order.
Move ==
  /\ phase = "call"
  /\ log' \in Seq(Placement)
  /\ Len(log') > Len(log)
  /\ Len(log') <= Wanted(req)
  /\ \A k \in 1..Len(log) : log'[k] = log[k]
  /\ \A k \in (Len(log) + 1)..Len(log') : IsPlacement(req, k, log'[k])
  /\ UNCHANGED <<phase, req, ret>>

\* The call returns: all that was wanted moved, or an error stopped it.
Succeed ==
  /\ phase = "call"
  /\ Len(log) = Wanted(req)
  /\ ret' = Len(log)
  /\ phase' = "done"
  /\ UNCHANGED <<req, log>>

Fail ==
  /\ phase = "call"
  /\ ret' \in Int
  /\ ret' < 0
  /\ phase' = "done"
  /\ UNCHANGED <<req, log>>

TNext == Move \/ Succeed \/ Fail

TSpec == TInit /\ [][TNext]_tvars
=============================================================================
