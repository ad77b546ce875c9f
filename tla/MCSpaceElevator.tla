--------------------------- MODULE MCSpaceElevator ---------------------------
(* Small instances of the space elevator for TLC. *)
EXTENDS SpaceElevator, TLC

Load(q) == [largest |-> q, total |-> q]

MCLoads == {Load(1), Load(2)}
=============================================================================
