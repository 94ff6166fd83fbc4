--------------------------- MODULE MCReportZones ---------------------------
(***************************************************************************)
(* Small instances of ZbcReportZones: a conventional zone, three zones of  *)
(* two sectors and a last one that is shorter.                             *)
(***************************************************************************)
EXTENDS ZbcReportZones

MCStart  == <<0, 2, 4, 6, 8>>
MCLength == <<2, 2, 2, 2, 1>>

MCFilters == {Conditions, {"empty"}, {"full"}}
=============================================================================
