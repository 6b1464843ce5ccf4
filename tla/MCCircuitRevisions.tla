------------------------- MODULE MCCircuitRevisions -------------------------
(***************************************************************************)
(* Two identities, A and B, and a few requests that outlive saves.         *)
(***************************************************************************)
EXTENDS CircuitRevisions, TLC

CONSTANTS A, B, C, r1, r2, r3

ThreeRequests == {r1, r2, r3}
Symmetric == Permutations(ThreeRequests)
ShortSchedule == [class \in FailureClasses |-> <<1>>]

=============================================================================
