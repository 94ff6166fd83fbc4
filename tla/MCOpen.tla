------------------------------- MODULE MCOpen -------------------------------
(***************************************************************************)
(* Small instances of ZbcOpen.  The devices: SCSI ones, ATA ones behind a  *)
(* complete translation and behind ones that hide page B6h, the zone       *)
(* domains or everything but page 89h, devices that are not zoned, and a   *)
(* regular file.                                                           *)
(***************************************************************************)
EXTENDS ZbcOpen

\* What the command sets say of a device of each kind.
Type(truth) == IF truth = "hm" THEN "hm" ELSE "std"
Zoned(truth) == CASE truth = "ha" -> 1 [] truth = "dm" -> 2 [] OTHER -> 0
Ext(truth) == IF truth = "zd" THEN 2 ELSE 0
Domains(truth) == IF truth = "zd" THEN {"domains", "realms"} ELSE {}

Base(truth) ==
  [node |-> TRUE, truth |-> truth, type |-> Type(truth), zoned |-> Zoned(truth),
   page89 |-> FALSE, pageB6 |-> truth \in {"hm", "ha", "zd"},
   ext |-> Ext(truth), domains |-> TRUE,
   ata |-> FALSE, sig |-> "other", azoned |-> 0, azd |-> {},
   uread |-> TRUE, sat |-> TRUE, sense |-> "fixed"]

\* An ATA device behind a translation that shows all of it.
Sat(truth) ==
  [Base(truth) EXCEPT !.page89 = TRUE, !.ata = TRUE, !.sig = Type(truth),
                      !.azoned = Zoned(truth), !.azd = Domains(truth)]

NoB6(p) == [p EXCEPT !.pageB6 = FALSE]
NoDomains(p) == [p EXCEPT !.domains = FALSE]
Plain(p) == [p EXCEPT !.type = "std", !.zoned = 0, !.ext = 0, !.pageB6 = FALSE]

AllKinds == {"hm", "ha", "zd", "dm", "standard"}

ZonedProfiles ==
  {Base(t) : t \in ZonedKinds} \cup {Sat(t) : t \in ZonedKinds}
    \cup {NoB6(Sat(t)) : t \in ZonedKinds} \cup {Plain(Sat(t)) : t \in ZonedKinds}
    \cup {NoDomains(Sat("zd"))}

OddProfiles ==
  { [Base("standard") EXCEPT !.node = FALSE],
    [Base("standard") EXCEPT !.type = "other"],
    [Base("standard") EXCEPT !.pageB6 = TRUE],
    [Sat("hm") EXCEPT !.zoned = 1, !.azoned = 1],
    [Base("hm") EXCEPT !.zoned = 1, !.sense = "descriptor"],
    [Base("ha") EXCEPT !.zoned = 0, !.ext = 1],
    [Sat("zd") EXCEPT !.azd = {"domains"}],
    [Plain(Sat("zd")) EXCEPT !.azd = {"domains"}],
    [Plain(Sat("standard")) EXCEPT !.zoned = 3, !.azoned = 3],
    [Plain(Sat("standard")) EXCEPT !.azoned = 3],
    [Plain(Sat("standard")) EXCEPT !.azoned = 2, !.azd = {"domains"}],
    [Plain(Sat("standard")) EXCEPT !.azoned = 1, !.azd = {"domains"}] }

MCProfiles ==
  ZonedProfiles \cup OddProfiles
    \cup {Base("dm"), Base("standard"), Sat("dm"), Sat("standard")}

MCRealms == {Base("zd")}

MCFlags == {{}, {"scsi"}, {"ata"}}
MCNoFlags == {{}}
=============================================================================
