--------------------------- MODULE ZbcZoneDevice ---------------------------
(***************************************************************************)
(* The zones of a host managed device as the library relies on them: their *)
(* layout, their conditions and how zone commands change a condition.      *)
(* This is the far side of the SG_IO interface; other initiators may       *)
(* change conditions at any time, the layout stays.                        *)
(***************************************************************************)
EXTENDS Integers, Sequences, FiniteSets

CONSTANTS
  NrZones,   \* the number of zones
  Start,     \* zbz_start: first sector of each zone
  Length,    \* zbz_length: sectors of each zone
  MaxOpen    \* most zones the device keeps explicitly open

Zones == 1..NrZones

ASSUME LayoutAssumption ==
  /\ NrZones \in Nat \ {0}
  /\ MaxOpen \in Nat
  /\ Start \in [Zones -> Nat]
  /\ Length \in [Zones -> Nat \ {0}]
  /\ Start[1] = 0
  /\ \A z \in 1..(NrZones - 1) : Start[z + 1] = Start[z] + Length[z]

End(z) == Start[z] + Length[z]

\* zbd_sectors: the sectors up to the end of the last zone.
Capacity == End(NrZones)

\* "eopen0" is an explicitly open zone that holds no data.
Conditions == {"notwp", "empty", "iopen", "eopen0", "eopen", "closed", "full"}

Open == {"iopen", "eopen0", "eopen"}

ZoneOps == {"open", "close", "finish", "reset"}

\* The condition after a zone operation on a zone in condition c, as the
\* tests of test/scripts/02_state_machine_check expect it.
After(op, c) ==
  CASE op = "open"   -> (CASE c = "full" -> "full"
                           [] c \in {"empty", "eopen0"} -> "eopen0"
                           [] OTHER -> "eopen")
    [] op = "close"  -> (CASE c = "eopen0" -> "empty"
                           [] c \in Open -> "closed"
                           [] OTHER -> c)
    [] op = "finish" -> "full"
    [] op = "reset"  -> "empty"

ExplicitlyOpen(cond) == {z \in Zones : cond[z] \in {"eopen0", "eopen"}}

\* The device accepts the operation for the zones s, taken together.
Accepts(cond, op, s) ==
  /\ \A z \in s : cond[z] /= "notwp"
  /\ op = "open" =>
       Cardinality(ExplicitlyOpen(cond) \cup {z \in s : cond[z] /= "full"})
         <= MaxOpen

Applied(cond, op, s) ==
  [z \in Zones |-> IF z \in s THEN After(op, cond[z]) ELSE cond[z]]
=============================================================================
