------------------------------ MODULE MCEconomy ------------------------------
(* A small economy for TLC: a mine, a smelter and a workshop that both use its *)
(* ore, and a power plant whose output is transient.  The mine cannot be       *)
(* extended without power; infrastructure needs two goods.                     *)
EXTENDS Economy, TLC

CONSTANTS ore, metal, power, mine, smelter, plant, infra

Row(o, m, p) == (ore :> o @@ metal :> m @@ power :> p)

MCInput == (mine :> Row(0, 0, 0) @@ smelter :> Row(2, 0, 0) @@ plant :> Row(1, 1, 0))
MCOutput == (mine :> Row(2, 0, 0) @@ smelter :> Row(0, 1, 0) @@ plant :> Row(0, 0, 2))
MCBuildCost == (mine :> Row(0, 1, 1) @@ infra :> Row(1, 2, 0))
MCCapacity == Row(4, 0, 0)
MCMaxExtraction == Row(2, 0, 0)
MCRegeneration == Row(1, 0, 0)

MCPotentials == {[f \in Factories |-> 2], [f \in Factories |-> IF f = mine THEN 2 ELSE 1]}
MCWants == {Row(0, 0, 0), Row(0, 2, 1)}
MCPlans == {[b \in Builders |-> 0], [b \in Builders |-> 1]}
MCTrades == {[good |-> ore, units |-> 2], [good |-> metal, units |-> 2], [good |-> power, units |-> 1]}
=============================================================================
