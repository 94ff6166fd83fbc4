----------------------------- MODULE MCZoneOps -----------------------------
(***************************************************************************)
(* A small instance of ZbcZoneOps: a conventional zone and four others, a  *)
(* long, two short and a long one.  Three zones from the first long one on *)
(* make the emulation overstep; groups whose last zone differs do not, and *)
(* from a short zone across a long one it ends inside that one.            *)
(***************************************************************************)
EXTENDS ZbcZoneOps

MCStart  == <<0, 4, 8, 10, 12>>
MCLength == <<4, 4, 2, 2, 4>>
=============================================================================
