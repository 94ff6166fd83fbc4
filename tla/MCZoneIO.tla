------------------------------ MODULE MCZoneIO ------------------------------
(***************************************************************************)
(* Three zones, one of each type, and pairs of command lines for the two   *)
(* programs: jobs over one and several zones, from a file shorter or longer *)
(* than a zone, with buffers larger than one, and with limits and offsets  *)
(* that are no physical blocks, or at and beyond what the list gives.      *)
(***************************************************************************)
EXTENDS ZbcZoneIO

MCZoneType == <<"conv", "swr", "swp">>

MCInitWps == {<<0, 0, 0>>, <<0, 4, 1>>, <<0, 2, 4>>}

Wps == {[z \in Zones |-> s[z + 1]] : s \in MCInitWps}

W(zidx, nz, io, nio, ofst, size, loop, flush) ==
  [zidx |-> zidx, nz |-> nz, io |-> io, nio |-> nio, ofst |-> ofst,
   size |-> size, loop |-> loop, flush |-> flush]

R(zidx, io, nio, ofst, keep) ==
  [zidx |-> zidx, io |-> io, nio |-> nio, ofst |-> ofst, keep |-> keep]

MCJobs ==
  { <<W(1, 1, 2, 0, 0, -1, FALSE, TRUE),  R(1, 4, 0, 0, TRUE)>>,
    <<W(1, 2, 2, 0, 0, 5, FALSE, FALSE),  R(1, 3, 1, 1, TRUE)>>,
    <<W(0, 2, 2, 0, 0, 8, FALSE, FALSE),  R(2, 2, 0, 1, FALSE)>>,
    <<W(0, 2, 2, 0, 2, 3, TRUE, TRUE),    R(1, 1, 2, 2, FALSE)>>,
    <<W(2, 1, 4, 2, 0, 0, TRUE, FALSE),   R(3, 1, 0, 0, TRUE)>>,
    <<W(1, 2, 6, 1, 0, -1, FALSE, FALSE), R(0, 2, 0, 0, TRUE)>>,
    <<W(2, 1, 6, 0, 0, 7, FALSE, FALSE),  R(1, 2, 0, 5, TRUE)>>,
    <<W(0, 1, 2, 0, 1, 3, FALSE, TRUE),   R(2, 3, 0, 0, TRUE)>>,
    <<W(1, 1, 3, 0, 0, -1, FALSE, TRUE),  R(1, 2, 0, 0, FALSE)>> }
=============================================================================
