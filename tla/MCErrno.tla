------------------------------ MODULE MCErrno ------------------------------
(***************************************************************************)
(* Small instances of ZbcErrno.                                            *)
(***************************************************************************)
EXTENDS ZbcErrno

MCTwo == 1..2
=============================================================================
