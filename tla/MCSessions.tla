----------------------------- MODULE MCSessions -----------------------------
EXTENDS Sessions, TLC

\* The administration deactivates a user, or activates it again.
Switches == [status : {"active", "inactive"}, role : {"same"}]

Symmetry == Permutations(SessionIds) \cup Permutations(Calls) \cup Permutations(Requests)
=============================================================================
