-------------------------- MODULE MCAccountMappings --------------------------
(* Instances of AccountMappings for TLC.                                   *)
EXTENDS AccountMappings, TLC

Interchangeable == Permutations(Accounts) \cup Permutations(Sii) \cup Permutations(Requests)

(* No candidate, one strong candidate, or two weak ones.                   *)
AllOutcomes ==
  {{}} \cup {{[rank |-> 1, sii |-> s, status |-> "active"]} : s \in Sii}
       \cup {{[rank |-> 1, sii |-> s, status |-> "review"],
              [rank |-> 2, sii |-> t, status |-> "review"]} : s, t \in Sii}

=============================================================================
