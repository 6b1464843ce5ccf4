---------------------------- MODULE MCLiveSaves -----------------------------
(***************************************************************************)
(* Two accounts and two pools, and four documents between which saves move *)
(* accounts into a pool, out of it, shrink it and retire it, while they    *)
(* give the target of account a1 one of three identities.                  *)
(***************************************************************************)
EXTENDS LiveSaves, TLC

CONSTANTS a1, a2, p1, p2, r1, r2, A, B, C

TheAccounts == {a1, a2}
ThePools == {p1, p2}
TheRequests == {r1, r2}
TheIdentities == {A, B, C}
Class == INSTANCE FailureClass
Symmetric == Permutations(TheRequests) \cup Permutations(TheIdentities)
ShortSchedule == [class \in Class!FailureClasses |-> <<1>>]

\* Both accounts share a pool of two.
Shared ==
  [ limit |-> (p1 :> 2) @@ (p2 :> 0), pool |-> (a1 :> p1) @@ (a2 :> p1) ]
\* The pool shrinks to one.
Shrunk ==
  [ limit |-> (p1 :> 1) @@ (p2 :> 0), pool |-> (a1 :> p1) @@ (a2 :> p1) ]
\* One account is unlimited, the other moves to a pool of its own.
Moved ==
  [ limit |-> (p1 :> 0) @@ (p2 :> 1), pool |-> (a1 :> None) @@ (a2 :> p2) ]
\* The first pool and the second account are retired.
Retired ==
  [ limit |-> (p1 :> 0) @@ (p2 :> 1), pool |-> (a1 :> p2) @@ (a2 :> Absent) ]

TheDocuments == {Shared, Shrunk, Moved, Retired}

=============================================================================
