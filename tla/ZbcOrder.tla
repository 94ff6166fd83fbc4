------------------------------ MODULE ZbcOrder ------------------------------
(***************************************************************************)
(* The order of the descriptors in the reply to a report command: zones,   *)
(* domains and realms come by ascending number.                            *)
(***************************************************************************)
EXTENDS Integers, Sequences, FiniteSets

\* The members of a set of numbers, in order.
InOrder(set) ==
  [k \in 1..Cardinality(set) |->
     CHOOSE z \in set : Cardinality({y \in set : y <= z}) = k]
=============================================================================
