--------------------------- MODULE MCAccountPlans ---------------------------
EXTENDS AccountPlans, TLC

Row(c, n, p) == [code |-> c, name |-> n, parent |-> p, wellFormed |-> TRUE]

\* The second catalogue renames the account of the first.
MCCatalogue ==
  [f \in SiiFiles |->
     IF f = "sii1" THEN {[code |-> "1", name |-> "caja"]}
     ELSE {[code |-> "1", name |-> "el banco"]}]

\* One code matches the first catalogue, and one name is contained in a name of
\* the second.
MCRows ==
  [f \in PlanFiles |->
     <<Row("1", "fondo", None), Row("2", "Banco", "1")>>]

MCNormal == [n \in Names |-> IF n = "Banco" THEN "banco" ELSE n]

MCIncludes == {<<"el banco", "banco">>} \cup {<<n, n>> : n \in Names}

Symmetry == Permutations(Importers) \cup Permutations(Requests)
=============================================================================
