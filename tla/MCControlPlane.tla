--------------------------- MODULE MCControlPlane ---------------------------
(* Instance of ControlPlane for TLC: one organisation, which the person     *)
(* Other joins and leaves.  Behaviours are followed up to the state in      *)
(* which the rename of a dropped request has overwritten a later one: all   *)
(* promises but OwnerIsMember are void from there on.                       *)
EXTENDS ControlPlane, TLC

CONSTANTS OneOrg, Other
SomeRosters == {Emails, Emails \ {Other}}
SameOrg == [n \in NodeIds |-> OneOrg]
Symmetry == Permutations(Requests)
NotLate == ~ excused.late
=============================================================================
