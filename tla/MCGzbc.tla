------------------------------- MODULE MCGzbc -------------------------------
(***************************************************************************)
(* Three slots, so that two devices are open when a third one fails, and   *)
(* enough commands for the timer to interrupt one and for another to       *)
(* follow.                                                                 *)
(***************************************************************************)
EXTENDS Gzbc
=============================================================================
