---------------------------- MODULE MCActivation ----------------------------
(***************************************************************************)
(* Three realms and two domains, devices of both drivers with mode pages   *)
(* of every length and every set of features, and jobs of the program and  *)
(* of the library calls it does not make.                                  *)
(***************************************************************************)
EXTENDS ZbcActivation

McOnes == [fsnoz |-> 15, urswrz |-> 3, maxact |-> 3]
McSettings == {[fsnoz |-> 1, urswrz |-> 0, maxact |-> 2]}

\* Domain 1 is conventional, domain 2 is written sequentially; realm 3 has
\* zones in domain 2 only.
McLens == <<<<2, 2, 0>>, <<2, 1, 1>>>>

None == [f \in Fields |-> NoAsk]
McAsks ==
  {None, [None EXCEPT !["maxact"] = 3, !["urswrz"] = 1], [None EXCEPT !["maxact"] = 1, !["fsnoz"] = 4]}

Dev(drv, feat, page, zdr, slots, shift) ==
  [drv |-> drv, features |-> feat, page |-> page, zdr |-> zdr, slots |-> slots, shifting |-> shift]
All == {"za_control", "urswrz_set", "maxact_set", "nozsrc"}

McDevices ==
  {Dev("scsi", All, "full", TRUE, 3, {}), Dev("scsi", All, "min", TRUE, 3, {}),
   Dev("scsi", All, "short", TRUE, 3, {}), Dev("ata", {}, "full", FALSE, 3, {}),
   Dev("ata", All, "full", TRUE, 3, {}), Dev("ata", {"za_control", "urswrz_set"}, "full", TRUE, 2, {2})}

Tool == [kind |-> "tool", dom |-> 2, start |-> 1, nr |-> 2, all |-> FALSE, zone |-> FALSE,
         query |-> FALSE, list |-> FALSE, cdb32 |-> FALSE, fsnoz |-> FALSE, reset |-> FALSE,
         zsrc |-> FALSE, recs |-> 0]
Lib == [Tool EXCEPT !.kind = "lib", !.zone = TRUE, !.start = 0]

McJobs ==
  {[Tool EXCEPT !.fsnoz = TRUE],
   [Tool EXCEPT !.fsnoz = TRUE, !.start = 2, !.list = TRUE], [Tool EXCEPT !.nr = 3],
   [Tool EXCEPT !.dom = 1, !.start = 2, !.nr = 1, !.reset = TRUE, !.fsnoz = TRUE],
   [Tool EXCEPT !.dom = 1, !.start = 2, !.reset = TRUE, !.fsnoz = TRUE],
   [Tool EXCEPT !.all = TRUE, !.reset = TRUE], [Tool EXCEPT !.nr = 0],
   [Tool EXCEPT !.zone = TRUE, !.start = 2, !.fsnoz = TRUE, !.list = TRUE],
   [Tool EXCEPT !.query = TRUE, !.list = TRUE, !.fsnoz = TRUE], [Tool EXCEPT !.dom = 3],
   [Lib EXCEPT !.zsrc = TRUE, !.nr = 3, !.recs = 5], [Lib EXCEPT !.zsrc = TRUE, !.nr = 4, !.cdb32 = TRUE, !.recs = 1],
   [Lib EXCEPT !.kind = "list", !.zsrc = TRUE, !.nr = 3],
   [Lib EXCEPT !.kind = "list", !.all = TRUE, !.nr = 0]}
=============================================================================
