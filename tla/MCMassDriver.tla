---------------------------- MODULE MCMassDriver ----------------------------
(* Small instances of the mass drivers for TLC. *)
EXTENDS MassDriver, TLC

Item(q) == [largest |-> q, total |-> q]

\* Packets of one item.  (One whose items name a good twice would be validated
\* item by item and deducted below zero.)
MCPackets == {Item(2)}
=============================================================================
