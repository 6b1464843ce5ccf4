--------------------------- MODULE LiveSavesProofs --------------------------
(***************************************************************************)
(* Proofs about a live save and its parts, for any accounts, pools,        *)
(* documents, requests and identities.                                     *)
(*                                                                         *)
(* Part 1, Admission: the counters are exact, the registry follows the     *)
(* active document, an account is admitted by the policy that is active,   *)
(* and no pool of the active document is taken above its limit.            *)
(*                                                                         *)
(* Part 2, CircuitRevisions within LiveSaves: as long as no save returns   *)
(* to an identity, a target is probed by one request at a time, and a      *)
(* restart would find the active breaker as it is.                         *)
(*                                                                         *)
(* Part 3, LiveSaves implements both.                                      *)
(***************************************************************************)
EXTENDS LiveSaves, FiniteSetTheorems, SequenceTheorems, WellFoundedInduction,
        TLAPS

-----------------------------------------------------------------------------
(* Part 1: Admission.                                                      *)

LEMMA HoldersFinite == IsFiniteSet(Holders)
BY FiniteAssumption, FS_AddElement DEF Holders

LEMMA DocumentFields ==
  ASSUME NEW d \in Documents
  PROVE  /\ d.limit \in [Pools -> Nat]
         /\ d.pool \in [Accounts -> Pools \cup {None, Absent}]
         /\ d # None
         /\ \A a \in Accounts : d.pool[a] \in Pools => d.limit[d.pool[a]] > 0
BY DocumentsAssumption, NamesAssumption DEF Document, Valid

-----------------------------------------------------------------------------
(* The invariant.                                                          *)

IInv == TypeOK /\ CountsMatchLeases /\ RegistryFollowsActive

LEMMA InitInv == Init => IInv
<1> SUFFICES ASSUME Init
             PROVE  IInv
  OBVIOUS
<1>1. First \in Documents
  BY DocumentsAssumption
<1>2. TypeOK
  BY <1>1, DocumentFields DEF Init, TypeOK
<1>3. \A a \in Accounts : LeasesOn(a) = {}
  BY NamesAssumption DEF Init, LeasesOn
<1>4. CountsMatchLeases
  BY <1>3, FS_EmptySet DEF Init, CountsMatchLeases
<1> QED
  BY <1>2, <1>4 DEF Init, IInv, RegistryFollowsActive

\* A lease more or less is one element more or less among the holders.
LEMMA OneMore ==
  ASSUME TypeOK, NEW h \in Holders, NEW a \in Accounts, lease[h] = None,
         lease' = [lease EXCEPT ![h] = a]
  PROVE  /\ \A b \in Accounts \ {a} : LeasesOn(b)' = LeasesOn(b)
         /\ Cardinality(LeasesOn(a)') = Cardinality(LeasesOn(a)) + 1
<1>1. lease \in [Holders -> Accounts \cup {None}] /\ None \notin Accounts
  BY NamesAssumption DEF TypeOK
<1>2. \A g \in Holders : lease'[g] = IF g = h THEN a ELSE lease[g]
  BY <1>1
<1>3. \A b \in Accounts \ {a} : LeasesOn(b)' = LeasesOn(b)
  BY <1>1, <1>2 DEF LeasesOn
<1>4. LeasesOn(a)' = LeasesOn(a) \cup {h} /\ h \notin LeasesOn(a)
  BY <1>1, <1>2 DEF LeasesOn
<1>5. IsFiniteSet(LeasesOn(a))
  BY HoldersFinite, FS_Subset DEF LeasesOn
<1> QED
  BY <1>3, <1>4, <1>5, FS_AddElement

LEMMA OneLess ==
  ASSUME TypeOK, NEW h \in Holders, NEW a \in Accounts, lease[h] = a,
         lease' = [lease EXCEPT ![h] = None]
  PROVE  /\ \A b \in Accounts \ {a} : LeasesOn(b)' = LeasesOn(b)
         /\ Cardinality(LeasesOn(a)) \in Nat \ {0}
         /\ LeasesOn(a)' \subseteq LeasesOn(a)
         /\ Cardinality(LeasesOn(a)') = Cardinality(LeasesOn(a)) - 1
<1>1. lease \in [Holders -> Accounts \cup {None}] /\ None \notin Accounts
  BY NamesAssumption DEF TypeOK
<1>2. \A g \in Holders : lease'[g] = IF g = h THEN None ELSE lease[g]
  BY <1>1
<1>3. \A b \in Accounts \ {a} : LeasesOn(b)' = LeasesOn(b)
  BY <1>1, <1>2 DEF LeasesOn
<1>4. LeasesOn(a)' = LeasesOn(a) \ {h} /\ h \in LeasesOn(a)
  BY <1>1, <1>2 DEF LeasesOn
<1>5. IsFiniteSet(LeasesOn(a))
  BY HoldersFinite, FS_Subset DEF LeasesOn
<1>6. Cardinality(LeasesOn(a)) \in Nat \ {0}
  BY <1>4, <1>5, FS_CardinalityType, FS_EmptySet
<1> QED
  BY <1>3, <1>4, <1>5, <1>6, FS_RemoveElement

\* Taking a lease keeps the invariant, whoever takes it and whatever pool the
\* caller's document names, as long as a registered account keeps its pool.
LEMMA AcquireInv ==
  ASSUME IInv, NEW h \in Holders, NEW a \in Accounts,
         NEW asked \in Pools \cup {None}, AcquireAccount(h, a, asked)
  PROVE  /\ limits' \in [Pools -> Nat] /\ inFlight' \in [Accounts -> Nat]
         /\ pool' \in [Accounts -> Pools \cup {None, Absent}]
         /\ lease' \in [Holders -> Accounts \cup {None}]
         /\ CountsMatchLeases'
         /\ limits' = limits
         /\ \A b \in Accounts : pool[b] # Absent => pool'[b] = pool[b]
<1> DEFINE more == inFlight[a] + 1
           new == PoolFor(a, asked)
<1>1. TypeOK /\ CountsMatchLeases
  BY DEF IInv
<1>2. /\ lease[h] = None /\ lease' = [lease EXCEPT ![h] = a]
      /\ pool' = [pool EXCEPT ![a] = new] /\ limits' = limits
      /\ inFlight' = [inFlight EXCEPT ![a] = more]
  BY DEF AcquireAccount
<1>3. more \in Nat /\ more = inFlight[a] + 1
  BY <1>1 DEF TypeOK
<1>4. new \in Pools \cup {None} /\ (pool[a] # Absent => new = pool[a])
  BY <1>1 DEF PoolFor, TypeOK
<1>5. new # Absent
  BY <1>4, NamesAssumption
<1> HIDE DEF more, new
<1>6. /\ limits' \in [Pools -> Nat] /\ inFlight' \in [Accounts -> Nat]
      /\ pool' \in [Accounts -> Pools \cup {None, Absent}]
      /\ lease' \in [Holders -> Accounts \cup {None}]
  BY <1>1, <1>2, <1>3, <1>4 DEF TypeOK
<1>7. /\ \A b \in Accounts : pool'[b] = IF b = a THEN new ELSE pool[b]
      /\ \A b \in Accounts : inFlight'[b] = IF b = a THEN more ELSE inFlight[b]
  BY <1>1, <1>2 DEF TypeOK
<1>8. /\ \A b \in Accounts \ {a} : LeasesOn(b)' = LeasesOn(b)
      /\ Cardinality(LeasesOn(a)') = Cardinality(LeasesOn(a)) + 1
  BY <1>1, <1>2, OneMore
<1>9. ASSUME NEW b \in Accounts
      PROVE  /\ inFlight'[b] = Cardinality(LeasesOn(b)')
             /\ LeasesOn(b)' # {} => pool'[b] # Absent
  <2>1. CASE b = a
    BY <2>1, <1>1, <1>3, <1>5, <1>7, <1>8 DEF CountsMatchLeases
  <2>2. CASE b # a
    BY <2>2, <1>1, <1>7, <1>8 DEF CountsMatchLeases
  <2> QED
    BY <2>1, <2>2
<1>10. CountsMatchLeases'
  BY <1>9 DEF CountsMatchLeases
<1> QED
  BY <1>2, <1>4, <1>6, <1>7, <1>10

\* Dropping one does too; the count is positive then.
LEMMA DropInv ==
  ASSUME IInv, NEW h \in Holders, DropLease(h)
  PROVE  /\ inFlight' \in [Accounts -> Nat]
         /\ lease' \in [Holders -> Accounts \cup {None}]
         /\ CountsMatchLeases'
         /\ limits' = limits /\ pool' = pool
<1>1. TypeOK /\ CountsMatchLeases
  BY DEF IInv
<1>2. PICK a \in Accounts : lease[h] = a
  BY <1>1 DEF DropLease, TypeOK
<1> DEFINE fewer == inFlight[a] - 1
<1>3. /\ lease' = [lease EXCEPT ![h] = None]
      /\ inFlight' = [inFlight EXCEPT ![a] = fewer]
      /\ limits' = limits /\ pool' = pool
  BY <1>2 DEF DropLease
<1>4. /\ \A b \in Accounts \ {a} : LeasesOn(b)' = LeasesOn(b)
      /\ Cardinality(LeasesOn(a)) \in Nat \ {0}
      /\ LeasesOn(a)' \subseteq LeasesOn(a)
      /\ Cardinality(LeasesOn(a)') = Cardinality(LeasesOn(a)) - 1
  BY <1>1, <1>2, <1>3, OneLess
<1>5. fewer \in Nat /\ fewer = Cardinality(LeasesOn(a)) - 1
  BY <1>1, <1>4 DEF CountsMatchLeases
<1> HIDE DEF fewer
<1>6. /\ inFlight' \in [Accounts -> Nat]
      /\ lease' \in [Holders -> Accounts \cup {None}]
      /\ \A b \in Accounts : inFlight'[b] = IF b = a THEN fewer ELSE inFlight[b]
  BY <1>1, <1>3, <1>5 DEF TypeOK
<1>7. ASSUME NEW b \in Accounts
      PROVE  /\ inFlight'[b] = Cardinality(LeasesOn(b)')
             /\ LeasesOn(b)' # {} => pool'[b] # Absent
  <2>1. CASE b = a
    BY <2>1, <1>1, <1>3, <1>4, <1>5, <1>6 DEF CountsMatchLeases
  <2>2. CASE b # a
    BY <2>2, <1>1, <1>3, <1>4, <1>6 DEF CountsMatchLeases
  <2> QED
    BY <2>1, <2>2
<1> QED
  BY <1>3, <1>6, <1>7 DEF CountsMatchLeases

\* While nobody takes or drops a lease, the counts stay right if no account
\* loses its registration.
LEMMA SameLeases ==
  ASSUME CountsMatchLeases, UNCHANGED <<lease, inFlight>>,
         \A a \in Accounts : pool[a] # Absent => pool'[a] # Absent
  PROVE  CountsMatchLeases'
BY DEF CountsMatchLeases, LeasesOn

\* The registry keeps following a document that stays active, if no limit
\* moves and no registered account changes its pool.
LEMMA StillFollows ==
  ASSUME RegistryFollowsActive, active' = active, limits' = limits,
         active \in Documents,
         \A b \in Accounts : pool[b] # Absent => pool'[b] = pool[b]
  PROVE  RegistryFollowsActive'
BY DocumentFields DEF RegistryFollowsActive

\* One step of the system.
LEMMA StepInv ==
  ASSUME IInv, [Next]_vars
  PROVE  IInv'
<1>1. /\ TypeOK /\ CountsMatchLeases /\ RegistryFollowsActive
      /\ active \in Documents
  BY DEF IInv, TypeOK
<1>2. ASSUME NEW r \in Requests, Arrive(r)
      PROVE  IInv'
  BY <1>1, <1>2, SameLeases, StillFollows
     DEF IInv, TypeOK, Arrive, registry
<1>3. ASSUME NEW r \in Requests, Acquire(r)
      PROVE  IInv'
  <2>1. PICK a \in Accounts :
          pinned[r].pool[a] # Absent /\ AcquireAccount(r, a, pinned[r].pool[a])
    BY <1>3 DEF Acquire
  <2>2. pinned[r] \in Documents
    BY <1>1, <1>3 DEF Acquire, TypeOK
  <2>3. pinned[r].pool[a] \in Pools \cup {None} /\ r \in Holders
    BY <2>1, <2>2, DocumentFields DEF Holders
  <2>4. UNCHANGED <<active, pinned, draft>>
    BY <1>3 DEF Acquire
  <2> QED
    BY <1>1, <2>1, <2>3, <2>4, AcquireInv, StillFollows DEF IInv, TypeOK
<1>4. ASSUME NEW r \in Requests, Release(r)
      PROVE  IInv'
  BY <1>1, <1>4, DropInv, StillFollows DEF Release, IInv, TypeOK, Holders
<1>5. ASSUME NEW r \in Requests, Finish(r)
      PROVE  IInv'
  BY <1>1, <1>5, SameLeases, StillFollows DEF Finish, IInv, TypeOK, registry
<1>6. CASE BeginSave
  BY <1>1, <1>6, SameLeases, StillFollows DEF BeginSave, IInv, TypeOK, registry
<1>7. CASE CheckAccount
  <2>1. PICK a \in Accounts :
          draft.pool[a] \in Pools /\ AcquireAccount(Saver, a, draft.pool[a])
    BY <1>7 DEF CheckAccount
  <2>2. UNCHANGED <<active, pinned, draft>> /\ Saver \in Holders
    BY <1>7 DEF CheckAccount, Holders
  <2> QED
    BY <1>1, <2>1, <2>2, AcquireInv, StillFollows DEF IInv, TypeOK
<1>8. CASE CheckDone
  BY <1>1, <1>8, DropInv, StillFollows DEF CheckDone, IInv, TypeOK, Holders
<1>9. CASE RejectSave
  BY <1>1, <1>9, SameLeases, StillFollows
  DEF RejectSave, IInv, TypeOK, registry
<1>10. CASE PublishSave
  <2>1. draft \in Documents /\ draft # None
    BY <1>1, <1>10 DEF PublishSave, TypeOK
  <2>2. /\ draft.limit \in [Pools -> Nat]
        /\ draft.pool \in [Accounts -> Pools \cup {None, Absent}]
    BY <2>1, DocumentFields
  <2>3. /\ limits' = [p \in Pools |-> IF draft.limit[p] > 0 THEN draft.limit[p] ELSE limits[p]]
        /\ pool' = [a \in Accounts |-> IF draft.pool[a] # Absent THEN draft.pool[a] ELSE pool[a]]
        /\ active' = draft /\ draft' = None /\ UNCHANGED <<inFlight, pinned, lease>>
    BY <1>10 DEF PublishSave, PublishConfig
  <2>4. TypeOK'
    BY <1>1, <2>1, <2>2, <2>3 DEF TypeOK
  <2>5. CountsMatchLeases'
    BY <1>1, <2>3, SameLeases
  <2>6. RegistryFollowsActive'
    BY <2>3 DEF RegistryFollowsActive
  <2> QED
    BY <2>4, <2>5, <2>6 DEF IInv
<1>11. CASE UNCHANGED vars
  BY <1>1, <1>11, SameLeases, StillFollows DEF vars, IInv, TypeOK
<1> QED
  BY <1>2, <1>3, <1>4, <1>5, <1>6, <1>7, <1>8, <1>9, <1>10, <1>11 DEF Next

-----------------------------------------------------------------------------
(* The theorems.                                                           *)

LEMMA AlwaysInv == Spec => []IInv
<1>1. IInv /\ [Next]_vars => IInv'
  BY StepInv
<1> QED
  BY InitInv, <1>1, PTL DEF Spec

\* Every variable keeps its type, so no in_flight is ever decremented below
\* zero.
THEOREM TypeCorrect == Spec => []TypeOK
<1>1. IInv => TypeOK
  BY DEF IInv
<1> QED
  BY AlwaysInv, <1>1, PTL

\* The counters and the leases agree, through every publication and every
\* rejected save.
THEOREM CountsExact == Spec => []CountsMatchLeases
<1>1. IInv => CountsMatchLeases
  BY DEF IInv
<1> QED
  BY AlwaysInv, <1>1, PTL

\* The registry says what the active document says, also for requests that
\* were admitted under an older one.
THEOREM RegistryFollows == Spec => []RegistryFollowsActive
<1>1. IInv => RegistryFollowsActive
  BY DEF IInv
<1> QED
  BY AlwaysInv, <1>1, PTL

-----------------------------------------------------------------------------
(* What the accounts of a pool sum up to.                                  *)

\* Of any natural numbers one is the least.
LEMMA Least ==
  ASSUME NEW S \in SUBSET Nat, S # {}
  PROVE  \E x \in S : \A y \in S : x <= y
<1> DEFINE Below == {pair \in Nat \X Nat : pair[1] < pair[2]}
<1>1. IsWellFoundedOn(Below, Nat)
  BY NatLessThanWellFounded DEF OpToRel
<1> HIDE DEF Below
<1>2. PICK x \in S : \A y \in S : ~ (<<y, x>> \in Below)
  BY <1>1, WFMin
<1>3. \A y \in S : ~ (y < x)
  BY <1>2 DEF Below
<1> QED
  BY <1>3

\* What the sum's recursion asks of the function of subsets it defines.
One(s) == CHOOSE x \in s : TRUE

StepOf(sum, fun, s) == IF s = {} THEN 0 ELSE fun[One(s)] + sum[s \ {One(s)}]

SumsOn(sum, fun, S) == sum = [s \in SUBSET S |-> StepOf(sum, fun, s)]

LEMMA SumIsChosen ==
  ASSUME NEW fun, NEW S
  PROVE  SumFunctionOnSet(fun, S) = (CHOOSE sum : SumsOn(sum, fun, S))[S]
BY DEF SumFunctionOnSet, FoldFunctionOnSet, MapThenFoldSet, SumsOn, StepOf, One

\* One function of the subsets of a finite set does what the recursion asks,
\* so whatever does it is the sum.
LEMMA SumIs ==
  ASSUME NEW fun, NEW S, IsFiniteSet(S), NEW sum, SumsOn(sum, fun, S)
  PROVE  SumFunctionOnSet(fun, S) = sum[S]
<1> DEFINE chosen == CHOOSE other : SumsOn(other, fun, S)
           Differ == {s \in SUBSET S : chosen[s] # sum[s]}
           Sizes == {Cardinality(s) : s \in Differ}
<1>1. SumsOn(chosen, fun, S)
  OBVIOUS
<1>2. SumFunctionOnSet(fun, S) = chosen[S]
  BY SumIsChosen
<1> HIDE DEF chosen
<1>3. \A s \in SUBSET S :
        chosen[s] = StepOf(chosen, fun, s) /\ sum[s] = StepOf(sum, fun, s)
  BY <1>1 DEF SumsOn
<1>4. \A s \in Differ : Cardinality(s) \in Nat
  BY FS_Subset, FS_CardinalityType
<1>5. ASSUME Differ # {}
      PROVE  FALSE
  <2>1. PICK m \in Sizes : \A n \in Sizes : m <= n
    <3>1. Sizes \in SUBSET Nat /\ Sizes # {}
      BY <1>4, <1>5
    <3> HIDE DEF Sizes
    <3> QED
      BY <3>1, Least
  <2>2. PICK s \in Differ : Cardinality(s) = m
    BY <2>1
  <2>3. s # {}
    BY <1>3, <2>2 DEF StepOf
  <2>4. One(s) \in s
    BY <2>3 DEF One
  <2>5. s \ {One(s)} \in SUBSET S /\ Cardinality(s \ {One(s)}) < m
    <3>1. IsFiniteSet(s)
      BY FS_Subset
    <3>2. Cardinality(s \ {One(s)}) = Cardinality(s) - 1
      BY <2>4, <3>1, FS_RemoveElement
    <3> QED
      BY <1>4, <2>2, <3>2
  <2>6. s \ {One(s)} \notin Differ
    BY <1>4, <2>1, <2>5
  <2>7. chosen[s \ {One(s)}] = sum[s \ {One(s)}]
    BY <2>5, <2>6
  <2>8. chosen[s] = sum[s]
    BY <1>3, <2>2, <2>3, <2>7 DEF StepOf
  <2> QED
    BY <2>2, <2>8
<1> QED
  BY <1>2, <1>5

\* The sum over a pool's accounts counts its leases.
HeldOn(s) == {h \in Holders : lease[h] \in s}

LEMMA OccupiedCounts ==
  ASSUME TypeOK, CountsMatchLeases, NEW p
  PROVE  p \in Pools => Occupied(p) = Cardinality(LeasesIn(p))
<1> DEFINE S == {a \in Accounts : pool[a] = p}
           held == [s \in SUBSET S |-> Cardinality(HeldOn(s))]
<1>1. IsFiniteSet(S)
  BY FiniteAssumption, FS_Subset
<1>2. ASSUME NEW s \in SUBSET S
      PROVE  held[s] = StepOf(held, inFlight, s)
  <2>1. CASE s = {}
    <3>1. HeldOn(s) = {}
      BY <2>1 DEF HeldOn
    <3> QED
      BY <2>1, <3>1, FS_EmptySet DEF StepOf
  <2>2. CASE s # {}
    <3> DEFINE a == One(s)
               rest == s \ {a}
    <3>1. a \in s /\ a \in Accounts
      BY <2>2 DEF One
    <3>2. inFlight[a] = Cardinality(LeasesOn(a))
      BY <3>1 DEF CountsMatchLeases
    <3>3. /\ HeldOn(s) = LeasesOn(a) \cup HeldOn(rest)
          /\ LeasesOn(a) \cap HeldOn(rest) = {}
      BY <3>1 DEF HeldOn, LeasesOn
    <3>4. IsFiniteSet(LeasesOn(a)) /\ IsFiniteSet(HeldOn(rest))
      BY HoldersFinite, FS_Subset DEF LeasesOn, HeldOn
    <3>5. Cardinality(HeldOn(s))
            = Cardinality(LeasesOn(a)) + Cardinality(HeldOn(rest))
      <4>1. Cardinality(LeasesOn(a) \cup HeldOn(rest))
              = Cardinality(LeasesOn(a)) + Cardinality(HeldOn(rest))
                  - Cardinality({})
        BY <3>3, <3>4, FS_Union
      <4>2. /\ Cardinality(LeasesOn(a)) \in Nat
            /\ Cardinality(HeldOn(rest)) \in Nat
        BY <3>4, FS_CardinalityType
      <4> QED
        BY <3>3, <4>1, <4>2, FS_EmptySet
    <3>6. /\ held[s] = Cardinality(HeldOn(s))
          /\ held[rest] = Cardinality(HeldOn(rest))
      OBVIOUS
    <3> QED
      BY <2>2, <3>2, <3>5, <3>6 DEF StepOf
  <2> QED
    BY <2>1, <2>2
<1>3. SumsOn(held, inFlight, S)
  BY <1>2 DEF SumsOn
<1>4. Occupied(p) = held[S]
  BY <1>1, <1>3, SumIs DEF Occupied
<1>5. HeldOn(S) = LeasesIn(p)
  BY NamesAssumption DEF HeldOn, LeasesIn, TypeOK
<1> QED
  BY <1>4, <1>5

LEMMA LeasesInFinite ==
  ASSUME NEW p
  PROVE  IsFiniteSet(LeasesIn(p)) /\ Cardinality(LeasesIn(p)) \in Nat
BY HoldersFinite, FS_Subset, FS_CardinalityType DEF LeasesIn

LEMMA ActivePolicy ==
  ASSUME IInv, NEW a \in Accounts, active.pool[a] # Absent
  PROVE  LET p == active.pool[a] IN
         /\ pool[a] = p /\ p \in Pools \cup {None}
         /\ p \in Pools =>
              /\ p # None /\ limits[p] = active.limit[p]
              /\ active.limit[p] > 0 /\ active.limit[p] \in Nat
<1>1. active \in Documents
  BY DEF IInv, TypeOK
<1>2. /\ active.limit \in [Pools -> Nat]
      /\ active.pool \in [Accounts -> Pools \cup {None, Absent}]
      /\ active.pool[a] \in Pools => active.limit[active.pool[a]] > 0
  BY <1>1, DocumentFields
<1>3. pool[a] = active.pool[a]
  BY DEF IInv, RegistryFollowsActive
<1> QED
  BY <1>2, <1>3, NamesAssumption DEF IInv, RegistryFollowsActive

LEMMA InvDecides == IInv => DecidesByActivePolicy
<1> SUFFICES ASSUME IInv, NEW a \in Accounts, active.pool[a] # Absent,
                    NEW asked \in Pools \cup {None}
             PROVE  LET p == active.pool[a] IN
                    CanAcquire(a, asked) <=>
                      p # None => Cardinality(LeasesIn(p)) < active.limit[p]
  BY DEF DecidesByActivePolicy
<1> DEFINE p == active.pool[a]
<1>1. pool[a] = p /\ p \in Pools \cup {None}
  BY ActivePolicy
<1>2. PoolFor(a, asked) = p
  BY <1>1 DEF PoolFor
<1>3. CASE p = None
  BY <1>2, <1>3 DEF CanAcquire
<1>4. CASE p \in Pools
  <2>1. Occupied(p) = Cardinality(LeasesIn(p))
    BY <1>4, OccupiedCounts DEF IInv
  <2>2. p # None /\ limits[p] = active.limit[p] /\ active.limit[p] > 0
    BY <1>4, ActivePolicy
  <2> QED
    BY <1>2, <2>1, <2>2 DEF CanAcquire
<1> QED
  BY <1>1, <1>3, <1>4

\* An account of the active document is admitted exactly when the pool the
\* document gives it, if any, holds fewer leases than the document's limit,
\* whatever pool the request knows of and whenever the leases were taken
\* (LocalAdmissionRegistry::acquire after publish).
THEOREM DecidesByPolicy == Spec => []DecidesByActivePolicy
BY AlwaysInv, InvDecides, PTL

NoneAbove ==
  \A h \in Holders : lease'[h] # lease[h] /\ lease'[h] # None =>
    LET p == active.pool[lease'[h]] IN
    p \in Pools =>
      Cardinality({g \in Holders :
                     lease'[g] # None /\ active.pool[lease'[g]] = p}) <= active.limit[p]

LEMMA StepWithin == IInv /\ [Next]_vars => NoneAbove
<1> SUFFICES ASSUME IInv, [Next]_vars, NEW h \in Holders,
                    lease'[h] # lease[h], lease'[h] # None,
                    active.pool[lease'[h]] \in Pools
             PROVE  Cardinality({g \in Holders : lease'[g] # None
                                   /\ active.pool[lease'[g]] = active.pool[lease'[h]]})
                      <= active.limit[active.pool[lease'[h]]]
  BY DEF NoneAbove
<1>1. lease \in [Holders -> Accounts \cup {None}] /\ Saver \in Holders
  BY DEF IInv, TypeOK, Holders
<1>2. \E a \in Accounts : \E asked : AcquireAccount(h, a, asked)
  <2>1. ASSUME NEW d \in Holders, DropLease(d)
        PROVE  FALSE
    BY <1>1, <2>1 DEF DropLease
  <2>2. ASSUME NEW g \in Holders, NEW a \in Accounts, NEW asked,
               AcquireAccount(g, a, asked)
        PROVE  \E b \in Accounts : \E other : AcquireAccount(h, b, other)
    <3>1. g = h
      BY <1>1, <2>2 DEF AcquireAccount
    <3> QED
      BY <2>2, <3>1
  <2>3. lease' # lease
    OBVIOUS
  <2>4. CASE \E r \in Requests : Acquire(r) \/ Release(r)
    BY <2>1, <2>2, <2>4 DEF Acquire, Release, Holders
  <2>5. CASE CheckAccount \/ CheckDone
    BY <1>1, <2>1, <2>2, <2>5 DEF CheckAccount, CheckDone
  <2> QED
    BY <2>3, <2>4, <2>5
    DEF Next, vars, Arrive, Finish, BeginSave, RejectSave, PublishSave
<1>3. PICK a \in Accounts : \E other : AcquireAccount(h, a, other)
  BY <1>2
<1>4. PICK asked : AcquireAccount(h, a, asked)
  BY <1>3
<1> DEFINE p == active.pool[a]
           now == {g \in Holders :
                     lease'[g] # None /\ active.pool[lease'[g]] = p}
<1>5. /\ lease'[h] = a /\ CanAcquire(a, asked)
      /\ \A g \in Holders : g # h => lease'[g] = lease[g]
  BY <1>1, <1>4 DEF AcquireAccount
<1>6. p \in Pools /\ p # Absent
  BY <1>5, NamesAssumption
<1>7. /\ pool[a] = p /\ p # None /\ limits[p] = active.limit[p]
      /\ active.limit[p] \in Nat
  BY <1>6, ActivePolicy
<1>8. Cardinality(LeasesIn(p)) < active.limit[p]
  BY <1>5, <1>6, <1>7, OccupiedCounts DEF CanAcquire, PoolFor, IInv
<1>9. now \subseteq LeasesIn(p) \cup {h}
  <2>1. ASSUME NEW g \in Holders, g # h, lease[g] # None,
               active.pool[lease[g]] = p
        PROVE  g \in LeasesIn(p)
    <3>1. lease[g] \in Accounts /\ pool[lease[g]] = p
      BY <1>1, <1>6, <2>1, ActivePolicy
    <3> QED
      BY <2>1, <3>1 DEF LeasesIn
  <2> QED
    BY <1>5, <2>1
<1>10. Cardinality(now) <= Cardinality(LeasesIn(p)) + 1
  <2>1. IsFiniteSet(LeasesIn(p)) /\ Cardinality(LeasesIn(p)) \in Nat
    BY LeasesInFinite
  <2> DEFINE more == LeasesIn(p) \cup {h}
  <2>2. IsFiniteSet(more) /\ Cardinality(more) <= Cardinality(LeasesIn(p)) + 1
    <3>1. /\ IsFiniteSet(more)
          /\ Cardinality(more) =
               IF h \in LeasesIn(p) THEN Cardinality(LeasesIn(p))
               ELSE Cardinality(LeasesIn(p)) + 1
      BY <2>1, FS_AddElement
    <3> HIDE DEF more, p
    <3> QED
      BY <2>1, <3>1
  <2> HIDE DEF now
  <2>3. Cardinality(now) <= Cardinality(more) /\ Cardinality(now) \in Nat
    BY <1>9, <2>2, FS_Subset, FS_CardinalityType
  <2>4. Cardinality(more) \in Nat
    BY <2>2, FS_CardinalityType
  <2> HIDE DEF more
  <2> QED
    BY <2>1, <2>2, <2>3, <2>4
<1>11. Cardinality(now) \in Nat
  <2>1. IsFiniteSet(now)
    BY HoldersFinite, FS_Subset
  <2> QED
    BY <2>1, FS_CardinalityType
<1>12. Cardinality(now) <= active.limit[p]
  BY <1>7, <1>8, <1>10, <1>11, LeasesInFinite
<1> QED
  BY <1>5, <1>12

\* Taking a lease never leaves the account's pool above the limit of the
\* active document, whatever was published since the other leases were taken
\* (LocalAdmissionRegistry::acquire).
THEOREM AdmitsWithinLimit == Spec => AdmittedWithinLimit
<1>1. IInv /\ [Next]_vars => [NoneAbove]_vars
  BY StepWithin
<1> QED
  BY <1>1, AlwaysInv, PTL DEF Spec, AdmittedWithinLimit, NoneAbove

-----------------------------------------------------------------------------
(* Part 2: the breakers.                                                   *)

(* The transitions of the breaker, as CircuitProofs has them: it is taken  *)
(* without requests, crashes or hints, which they do not depend on.        *)

State == INSTANCE CircuitProofs
  WITH Nothing <- None, Requests <- {}, Endless <- {}, Outcomes <- {},
       Hints <- {}, MaxCrashes <- 0, MaxClockStep <- 0,
       mem <- None, disk <- None, up <- FALSE, pc <- <<>>, permit <- <<>>,
       woken <- {}, unsaved <- FALSE, crashes <- 0

Sound == {s \in Breaker!Snapshot : Breaker!WellFormed(s)}

LEMMA StateAssumptions ==
  /\ State!NoneAssumption /\ State!DelayAssumption /\ State!ScheduleAssumption
  /\ State!EnvironmentAssumption
BY CircuitAssumption
DEF State!EnvironmentAssumption, Breaker!NoneAssumption, State!NoneAssumption, Breaker!DelayAssumption,
    State!DelayAssumption, Breaker!ScheduleAssumption,
    State!ScheduleAssumption, Breaker!FailureClasses, State!FailureClasses

LEMMA SameNames ==
  /\ State!Sound = Sound /\ State!Permits = Breaker!Permits
  /\ State!FailureClasses = Breaker!FailureClasses
  /\ \A g : Breaker!Fresh(g) = State!Fresh(g)
BY DEF State!Sound, Sound, Breaker!Snapshot, State!Snapshot,
       Breaker!WellFormed, State!WellFormed, Breaker!Modes, State!Modes,
       Breaker!Timer, State!Timer, Breaker!FailureClasses,
       State!FailureClasses, Breaker!Fresh, State!Fresh,
       Breaker!UnavailableMode, State!UnavailableMode, Breaker!Permits,
       State!Permits

LEMMA Ages ==
  ASSUME NEW s \in Sound
  PROVE  LET t == Breaker!Aged(s, 1) IN
         t \in Sound /\ t.mode = s.mode /\ t.generation = s.generation
<1>1. Breaker!Aged(s, 1) = State!Aged(s, 1)
  BY DEF Breaker!Aged, State!Aged, Breaker!AgedTimer, State!AgedTimer,
         Breaker!Greater, State!Greater
<1> QED
  BY <1>1, SameNames, StateAssumptions, State!AgedSound

LEMMA Loads ==
  ASSUME NEW s \in Sound
  PROVE  Breaker!Loaded(s) \in Sound
<1>1. Breaker!Loaded(s) = State!Loaded(s)
  BY DEF Breaker!Loaded, State!Loaded, Breaker!Released, State!Released,
         Breaker!Clamped, State!Clamped, Breaker!ClampClass, State!ClampClass,
         Breaker!Lesser, State!Lesser, Breaker!UnavailableMode,
         State!UnavailableMode, Breaker!SlowestDelay, State!SlowestDelay
<1> QED
  BY <1>1, SameNames, StateAssumptions, State!LoadedSound

LEMMA Reclaims ==
  ASSUME NEW s \in Sound
  PROVE  LET t == Breaker!Reclaimed(s, 0) IN
         /\ t \in Sound
         /\ \/ t = s
            \/ t.generation = s.generation + 1 /\ t.mode \in {"Open", "Suspended"}
<1>1. Breaker!Reclaimed(s, 0) = State!Reclaimed(s, 0)
  BY DEF Breaker!Reclaimed, State!Reclaimed, Breaker!Released, State!Released,
    Breaker!UnavailableMode, State!UnavailableMode, Breaker!Due, State!Due
<1>2. 0 \in 0 .. MaxLag
  BY StateAssumptions DEF State!DelayAssumption
<1> QED
  BY <1>1, <1>2, SameNames, StateAssumptions, State!ReclaimedSound

LEMMA HalfOpens ==
  ASSUME NEW s \in Sound, Breaker!MayProbe(s, 0)
  PROVE  LET t == Breaker!HalfOpened(s, 0) IN
         t \in Sound /\ t.mode = "HalfOpen" /\ t.generation = s.generation
<1>1. Breaker!HalfOpened(s, 0) = State!HalfOpened(s, 0)
  BY DEF Breaker!HalfOpened, State!HalfOpened
<1>2. 0 \in 0 .. MaxLag
  BY StateAssumptions DEF State!DelayAssumption
<1>3. s.mode # "Closed"
  BY DEF Breaker!MayProbe
<1> QED
  BY <1>1, <1>2, <1>3, SameNames, StateAssumptions, State!HalfOpenedSound

\* Whatever settles a permit leaves the snapshot as it is or ends its
\* generation.
Settlements(s, p) ==
  { Breaker!Succeeded(s, p), Breaker!Abandoned(s, p),
    Breaker!Failed(s, p, "ProviderTransient", None) }

LEMMA SameTripped ==
  ASSUME NEW s
  PROVE  Breaker!Tripped(s, "ProviderTransient", None)
           = State!Tripped(s, "ProviderTransient", None)
BY DEF Breaker!Tripped, State!Tripped, Breaker!UnavailableMode,
       State!UnavailableMode, Breaker!RetryDelay, State!RetryDelay,
       Breaker!HonoursHint, State!HonoursHint, Breaker!SlowestDelay,
       State!SlowestDelay, Breaker!ScheduledDelay, State!ScheduledDelay,
       Breaker!Lesser, State!Lesser

LEMMA SameAbandoned ==
  ASSUME NEW s, NEW p
  PROVE  Breaker!Abandoned(s, p) = State!Abandoned(s, p)
BY DEF Breaker!Abandoned, State!Abandoned, Breaker!TakesAbandonment,
       State!TakesAbandonment, Breaker!Released, State!Released,
       Breaker!UnavailableMode, State!UnavailableMode

LEMMA Settles ==
  ASSUME NEW s \in Sound, NEW p \in Breaker!Permits,
         NEW t \in Settlements(s, p)
  PROVE  t \in Sound /\ (t = s \/ t.generation = s.generation + 1)
<1>0. "ProviderTransient" \in State!FailureClasses /\ None \in Nat \cup {None}
  BY DEF State!FailureClasses
<1> USE SameNames, StateAssumptions
<1>1. CASE t = Breaker!Succeeded(s, p)
  <2>1. Breaker!Succeeded(s, p) = State!Succeeded(s, p)
    BY DEF Breaker!Succeeded, State!Succeeded, Breaker!TakesSuccess,
           State!TakesSuccess, Breaker!Fresh, State!Fresh
  <2> QED
    BY <1>1, <2>1, State!SucceededFacts DEF State!Moved
<1>2. CASE t = Breaker!Abandoned(s, p)
  BY <1>2, SameAbandoned, State!AbandonedFacts DEF State!Moved
<1>3. CASE t = Breaker!Failed(s, p, "ProviderTransient", None)
  <2>1. Breaker!Failed(s, p, "ProviderTransient", None)
          = State!Failed(s, p, "ProviderTransient", None)
    BY SameAbandoned, SameTripped
    DEF Breaker!Failed, State!Failed, Breaker!TakesFailure, State!TakesFailure,
        Breaker!AffectsCircuit, State!AffectsCircuit
  <2>2. s \in State!Sound /\ p \in State!Permits
    OBVIOUS
  <2>3. LET f == State!Failed(s, p, "ProviderTransient", None) IN
        f \in State!Sound /\ (f = s \/ State!Moved(s, f))
    BY <1>0, <2>2, State!FailedFacts, Zenon
  <2> QED
    BY <1>3, <2>1, <2>3 DEF State!Moved
<1> QED
  BY <1>1, <1>2, <1>3 DEF Settlements

LEMMA Trips ==
  ASSUME NEW s \in State!Sound, NEW class \in State!FailureClasses,
         NEW hint \in Nat \cup {None}
  PROVE  LET t == State!Tripped(s, class, hint) IN
         /\ t \in State!Sound
         /\ t.mode = State!UnavailableMode(class) /\ t.reason = class
         /\ t.next <= State!SlowestDelay(class)
BY StateAssumptions, State!TrippedSound

LEMMA LeftBehindSound == Breaker!LeftBehind \subseteq Sound
<1>1. State!Fresh(0) \in Sound
  BY SameNames, StateAssumptions, State!FreshSound
<1>2. State!Tripped(State!Fresh(0), "ProviderTransient", None) \in Sound
  BY <1>1, SameNames, Trips DEF State!FailureClasses
<1> QED
  BY <1>1, <1>2, SameNames, SameTripped DEF Breaker!LeftBehind

\* A record that was left behind is loaded as it is: its delay is no longer
\* than load lets it be.
LEMMA LeftBehindLoads ==
  ASSUME NEW s \in Breaker!LeftBehind
  PROVE  Breaker!Loaded(s) = s
<1> DEFINE fresh == State!Fresh(0)
           t == State!Tripped(fresh, "ProviderTransient", None)
<1>1. fresh \in State!Sound
  BY StateAssumptions, State!FreshSound
<1>2. CASE s = fresh
  BY <1>2 DEF Breaker!Loaded, State!Fresh
<1>3. CASE s = t
  <2>1. /\ t \in State!Sound
        /\ t.mode = State!UnavailableMode("ProviderTransient")
        /\ t.reason = "ProviderTransient"
        /\ t.next <= State!SlowestDelay("ProviderTransient")
    <3>1. /\ "ProviderTransient" \in State!FailureClasses
          /\ None \in Nat \cup {None}
      BY DEF State!FailureClasses
    <3> QED
      BY <1>1, <3>1, Trips, Zenon
  <2>2. t.mode = "Open" /\ t.reason # None
    BY <2>1, StateAssumptions
    DEF State!UnavailableMode, State!NoneAssumption, State!FailureClasses
  <2>3. t \in State!Snapshot
    BY <2>1 DEF State!Sound
  <2> HIDE DEF t
  <2>4. Breaker!Loaded(t) = Breaker!Clamped(t)
    BY <2>2 DEF Breaker!Loaded
  <2>5. Breaker!ClampClass(t) = "ProviderTransient"
    BY <2>1, <2>2 DEF Breaker!ClampClass
  <2>6. CASE t.next = None
    BY <1>3, <2>4, <2>6 DEF Breaker!Clamped
  <2>7. CASE t.next # None
    <3>1. Breaker!Lesser(t.next, Breaker!SlowestDelay(Breaker!ClampClass(t))) = t.next
      BY <2>1, <2>5
      DEF Breaker!Lesser, Breaker!SlowestDelay, State!SlowestDelay
    <3>2. Breaker!Clamped(t) = [t EXCEPT !.next = t.next]
      BY <2>7, <3>1 DEF Breaker!Clamped
    <3>3. [t EXCEPT !.next = t.next] = t
      BY <2>3 DEF State!Snapshot
    <3> QED
      BY <1>3, <2>4, <3>2, <3>3
  <2> QED
    BY <2>6, <2>7
<1> QED
  BY <1>2, <1>3, SameNames, SameTripped DEF Breaker!LeftBehind

-----------------------------------------------------------------------------
(* The breakers of a series of revisions.                                  *)

Held == [identity : Identities, state : Sound]

StateOf(r) == breakers[breakerOf[r]].state

\* The result of request r's probe would be taken.
Probing(r) ==
  /\ permit[r] # None /\ permit[r].probe
  /\ permit[r].generation = StateOf(r).generation

BreakerTypes ==
  /\ breakers \in Seq(Held) /\ Len(breakers) > 0
  /\ record \in [Identities -> Sound]
  /\ revised \in Held \cup {None}
  /\ breakerOf \in [Requests -> 0 .. Len(breakers)]
  /\ permit \in [Requests -> Breaker!Permits \cup {None}]

\* No identity has two breakers: a target keeps its breaker as long as its
\* identity lasts, and does not come back to one.
OneBreakerEach ==
  \A b, c \in DOMAIN breakers :
    breakers[b].identity = breakers[c].identity => b = c

\* Every breaker, also an old one, has its own record.
RecordsHold ==
  \A b \in DOMAIN breakers : record[breakers[b].identity] = breakers[b].state

\* A draft has the active breaker's identity or one nobody else writes to.
DraftIsKept ==
  revised # None =>
    \/ revised.identity = breakers[Len(breakers)].identity
    \/ /\ \A b \in DOMAIN breakers : breakers[b].identity # revised.identity
       /\ record[revised.identity] = revised.state

Standing == BreakerTypes /\ OneBreakerEach /\ RecordsHold /\ DraftIsKept

\* No permit is ahead of its breaker.
PermitsAreDated ==
  \A r \in Requests : permit[r] # None =>
    /\ breakerOf[r] \in DOMAIN breakers
    /\ permit[r].generation <= StateOf(r).generation

ProbesAreHalfOpen ==
  \A r \in Requests : Probing(r) => StateOf(r).mode = "HalfOpen"

OneProber ==
  \A r, q \in Requests :
    Probing(r) /\ Probing(q) /\ breakerOf[r] = breakerOf[q] => r = q

Permitted == PermitsAreDated /\ ProbesAreHalfOpen /\ OneProber

BreakerInv == Standing /\ Permitted

LEMMA BreakersAre ==
  ASSUME BreakerTypes
  PROVE  /\ Len(breakers) \in DOMAIN breakers /\ DOMAIN breakers = 1 .. Len(breakers)
         /\ Len(breakers) \in Nat
         /\ \A b \in DOMAIN breakers : breakers[b] \in Held
         /\ \A r \in Requests : breakerOf[r] # 0 => breakerOf[r] \in DOMAIN breakers
BY LenProperties, ElementOfSeq DEF BreakerTypes

LEMMA Generations ==
  ASSUME NEW s \in Sound
  PROVE  s.generation \in Nat
BY DEF Sound, Breaker!Snapshot

LEMMA BreakerInitInv == Breaker!Init => BreakerInv
<1> SUFFICES ASSUME Breaker!Init
             PROVE  BreakerInv
  OBVIOUS
<1>1. PICK i \in Identities :
        breakers = <<[identity |-> i, state |-> Breaker!Loaded(record[i])]>>
  BY DEF Breaker!Init
<1>2. record \in [Identities -> Sound]
  BY LeftBehindSound DEF Breaker!Init
<1> DEFINE held == [identity |-> i, state |-> Breaker!Loaded(record[i])]
<1>3. held \in Held
  BY <1>2, Loads DEF Held
<1>4. breakers \in Seq(Held) /\ Len(breakers) = 1 /\ DOMAIN breakers = {1}
  BY <1>1, <1>3
<1>5. BreakerTypes
  BY <1>2, <1>4 DEF BreakerTypes, Breaker!Init
<1>6. RecordsHold
  BY <1>1, <1>4, LeftBehindLoads DEF RecordsHold, Breaker!Init
<1>7. OneBreakerEach /\ DraftIsKept /\ Permitted
  BY <1>4
  DEF OneBreakerEach, DraftIsKept, Permitted, PermitsAreDated,
      ProbesAreHalfOpen, OneProber, Probing, Breaker!Init
<1> QED
  BY <1>5, <1>6, <1>7 DEF BreakerInv, Standing

\* A transition of one breaker and of its record.
LEMMA StoreKeeps ==
  ASSUME Standing, NEW b \in DOMAIN breakers, NEW t \in Sound,
         Breaker!Store(b, t), UNCHANGED <<revised, breakerOf>>,
         permit' \in [Requests -> Breaker!Permits \cup {None}]
  PROVE  /\ Standing'
         /\ DOMAIN breakers' = DOMAIN breakers
         /\ \A c \in DOMAIN breakers :
              breakers'[c].state = IF c = b THEN t ELSE breakers[c].state
<1> DEFINE changed == [breakers[b] EXCEPT !.state = t]
<1>1. breakers' = [breakers EXCEPT ![b] = changed]
  BY DEF Breaker!Store
<1>2. /\ changed \in Held /\ changed.state = t
      /\ changed.identity = breakers[b].identity
  BY BreakersAre DEF Standing, Held
<1>3. breakers[b].identity \in Identities
  BY BreakersAre DEF Standing, Held
<1> HIDE DEF changed
<1>4. /\ breakers' \in Seq(Held) /\ Len(breakers') = Len(breakers)
      /\ \A c \in DOMAIN breakers :
           breakers'[c] = IF c = b THEN changed ELSE breakers[c]
  BY <1>1, <1>2, BreakersAre, ExceptSeq DEF Standing, BreakerTypes
<1>5. DOMAIN breakers' = DOMAIN breakers
  BY <1>1
<1>6. \A c \in DOMAIN breakers :
        /\ breakers'[c].identity = breakers[c].identity
        /\ breakers'[c].state = IF c = b THEN t ELSE breakers[c].state
  BY <1>2, <1>4
<1>7. /\ record' \in [Identities -> Sound]
      /\ \A i \in Identities :
           record'[i] = IF i = breakers[b].identity THEN t ELSE record[i]
  BY <1>3 DEF Breaker!Store, Standing, BreakerTypes
<1>8. BreakerTypes'
  BY <1>4, <1>7 DEF Standing, BreakerTypes
<1>9. OneBreakerEach'
  BY <1>5, <1>6 DEF Standing, OneBreakerEach
<1>10. RecordsHold'
  BY <1>5, <1>6, <1>7, BreakersAre
  DEF Standing, RecordsHold, OneBreakerEach, Held
<1>11. DraftIsKept'
  <2>1. SUFFICES ASSUME revised # None
                 PROVE  DraftIsKept'
    BY DEF DraftIsKept
  <2>2. revised.identity \in Identities
    BY <2>1 DEF Standing, BreakerTypes, Held
  <2>3. Len(breakers) \in DOMAIN breakers
    BY BreakersAre DEF Standing
  <2>4. CASE revised.identity = breakers[Len(breakers)].identity
    BY <2>3, <2>4, <1>4, <1>6 DEF DraftIsKept
  <2>5. CASE /\ \A c \in DOMAIN breakers : breakers[c].identity # revised.identity
             /\ record[revised.identity] = revised.state
    BY <2>2, <2>5, <1>5, <1>6, <1>7 DEF DraftIsKept
  <2> QED
    BY <2>1, <2>4, <2>5 DEF Standing, DraftIsKept
<1> QED
  BY <1>5, <1>6, <1>8, <1>9, <1>10, <1>11 DEF Standing

LEMMA ArriveInv ==
  ASSUME BreakerInv, NEW r \in Requests, Breaker!Arrive(r)
  PROVE  BreakerInv'
<1>1. /\ Len(breakers) \in DOMAIN breakers /\ Len(breakers) \in Nat
      /\ DOMAIN breakers = 1 .. Len(breakers)
  BY BreakersAre DEF BreakerInv, Standing
<1>2. permit[r] = None /\ permit' = permit /\ breakers' = breakers
  BY <1>1 DEF BreakerInv, Permitted, PermitsAreDated, Breaker!Arrive
<1>3. breakerOf' \in [Requests -> 0 .. Len(breakers)]
      /\ \A q \in Requests : q # r => breakerOf'[q] = breakerOf[q]
  BY <1>1
  DEF BreakerInv, Standing, BreakerTypes, Breaker!Arrive, Breaker!Active
<1>4. Standing'
  BY <1>3 DEF BreakerInv, Standing, BreakerTypes, OneBreakerEach, RecordsHold,
       DraftIsKept, Breaker!Arrive
<1>5. \A q \in Requests : permit'[q] # None => q # r /\ StateOf(q)' = StateOf(q)
  BY <1>2, <1>3 DEF StateOf
<1>6. Permitted'
  BY <1>2, <1>3, <1>5
  DEF BreakerInv, Permitted, PermitsAreDated, ProbesAreHalfOpen, OneProber,
      Probing
<1> QED
  BY <1>4, <1>6 DEF BreakerInv

LEMMA DecideInv ==
  ASSUME BreakerInv, NEW r \in Requests, Breaker!Decide(r)
  PROVE  BreakerInv'
<1> DEFINE b == breakerOf[r]
           s == Breaker!Reclaimed(StateOf(r), 0)
           p(probe) == [generation |-> s.generation, probe |-> probe]
<1>1. b \in DOMAIN breakers /\ StateOf(r) \in Sound
  BY BreakersAre DEF BreakerInv, Standing, Breaker!Decide, Held, StateOf
<1>2. /\ s \in Sound
      /\ \/ s = StateOf(r)
         \/ s.generation = StateOf(r).generation + 1 /\ s.mode \in {"Open", "Suspended"}
  BY <1>1, Reclaims
<1>3. \A probe \in BOOLEAN : p(probe) \in Breaker!Permits
  BY <1>2, Generations DEF Breaker!Permits
<1>4. \A q \in Requests : permit[q] \in Breaker!Permits \cup {None}
  BY DEF BreakerInv, Standing, BreakerTypes
<1>5. revised' = revised /\ breakerOf' = breakerOf
  BY DEF Breaker!Decide
<1>6. ASSUME s.mode = "Closed", permit' = [permit EXCEPT ![r] = p(FALSE)],
             UNCHANGED <<breakers, record>>
      PROVE  BreakerInv'
  <2>1. s = StateOf(r)
    BY <1>2, <1>6
  <2>2. /\ permit' \in [Requests -> Breaker!Permits \cup {None}]
        /\ permit'[r] = p(FALSE)
        /\ \A q \in Requests : q # r => permit'[q] = permit[q]
    BY <1>3, <1>6 DEF BreakerInv, Standing, BreakerTypes
  <2>3. Standing'
    BY <1>5, <1>6, <2>2 DEF BreakerInv, Standing, BreakerTypes, OneBreakerEach,
         RecordsHold, DraftIsKept
  <2>4. \A q \in Requests : StateOf(q)' = StateOf(q)
    BY <1>5, <1>6 DEF StateOf
  <2>5. PermitsAreDated'
    BY <1>1, <1>2, <1>5, <1>6, <2>1, <2>2, <2>4, Generations
    DEF BreakerInv, Permitted, PermitsAreDated
  <2>6. \A q \in Requests : Probing(q)' => q # r /\ Probing(q)
    BY <2>2, <2>4 DEF Probing
  <2>7. ProbesAreHalfOpen' /\ OneProber'
    BY <1>5, <2>4, <2>6 DEF BreakerInv, Permitted, ProbesAreHalfOpen, OneProber
  <2> QED
    BY <2>3, <2>5, <2>7 DEF BreakerInv, Permitted
<1>7. ASSUME Breaker!MayProbe(s, 0), permit' = [permit EXCEPT ![r] = p(TRUE)],
             Breaker!Store(b, Breaker!HalfOpened(s, 0))
      PROVE  BreakerInv'
  <2> DEFINE t == Breaker!HalfOpened(s, 0)
  <2>1. t \in Sound /\ t.mode = "HalfOpen" /\ t.generation = s.generation
    BY <1>2, <1>7, HalfOpens
  <2>2. s.mode \in {"Open", "Suspended"}
    BY <1>7 DEF Breaker!MayProbe
  <2>3. /\ permit' \in [Requests -> Breaker!Permits \cup {None}]
        /\ permit'[r] = p(TRUE)
        /\ \A q \in Requests : q # r => permit'[q] = permit[q]
    BY <1>3, <1>7 DEF BreakerInv, Standing, BreakerTypes
  <2> HIDE DEF t
  <2>4. /\ Standing' /\ DOMAIN breakers' = DOMAIN breakers
        /\ \A c \in DOMAIN breakers :
             breakers'[c].state = IF c = b THEN t ELSE breakers[c].state
    BY <1>1, <1>5, <1>7, <2>1, <2>3, StoreKeeps DEF BreakerInv, t
  <2>5. \A q \in Requests : permit[q] # None =>
          StateOf(q)' = IF breakerOf[q] = b THEN t ELSE StateOf(q)
    BY <1>5, <2>4 DEF BreakerInv, Permitted, PermitsAreDated, StateOf
  <2>6. StateOf(r)' = t
    BY <1>1, <1>5, <2>4 DEF StateOf
  <2>7. StateOf(r).generation \in Nat /\ s.generation \in Nat
    BY <1>1, <1>2, Generations
  <2>8. PermitsAreDated'
    <3>1. SUFFICES ASSUME NEW q \in Requests, permit'[q] # None
                   PROVE  breakerOf'[q] \in DOMAIN breakers'
                          /\ permit'[q].generation <= StateOf(q)'.generation
      BY DEF PermitsAreDated
    <3>2. CASE q = r
      BY <1>1, <1>5, <2>1, <2>3, <2>4, <2>6, <2>7, <3>2
    <3>3. CASE q # r
      <4>1. /\ permit'[q] = permit[q] /\ permit[q] # None
            /\ permit[q].generation \in Nat
        BY <1>4, <2>3, <3>1, <3>3 DEF Breaker!Permits
      <4>2. /\ breakerOf[q] \in DOMAIN breakers
            /\ permit[q].generation <= StateOf(q).generation
        BY <4>1 DEF BreakerInv, Permitted, PermitsAreDated
      <4>3. CASE breakerOf[q] = b
        <5>1. StateOf(q) = StateOf(r) /\ StateOf(q)' = t
          BY <2>5, <4>1, <4>3 DEF StateOf
        <5> QED
          BY <1>2, <1>5, <2>1, <2>4, <2>7, <4>1, <4>2, <5>1
      <4>4. CASE breakerOf[q] # b
        BY <1>5, <2>4, <2>5, <4>1, <4>2, <4>4
      <4> QED
        BY <4>3, <4>4
    <3> QED
      BY <3>2, <3>3
  <2>9. ASSUME NEW q \in Requests, q # r, Probing(q)'
        PROVE  breakerOf[q] # b /\ Probing(q) /\ StateOf(q)' = StateOf(q)
    <3>1. /\ permit'[q] = permit[q] /\ permit[q] # None
          /\ permit[q].generation \in Nat
      BY <1>4, <2>3, <2>9 DEF Probing, Breaker!Permits
    <3>2. CASE breakerOf[q] = b
      <4>1. StateOf(q) = StateOf(r) /\ StateOf(q)' = t
        BY <2>5, <3>1, <3>2 DEF StateOf
      <4>2. permit[q].generation <= StateOf(r).generation
        BY <3>1, <4>1 DEF BreakerInv, Permitted, PermitsAreDated
      <4>3. permit[q].generation = s.generation /\ permit[q].probe
        BY <2>1, <2>9, <3>1, <4>1 DEF Probing
      <4>4. s = StateOf(r)
        BY <1>2, <2>7, <4>2, <4>3
      <4>5. Probing(q) /\ StateOf(q).mode # "HalfOpen"
        BY <2>2, <3>1, <4>1, <4>3, <4>4 DEF Probing
      <4> QED
        BY <4>5 DEF BreakerInv, Permitted, ProbesAreHalfOpen
    <3>3. CASE breakerOf[q] # b
      BY <2>5, <2>9, <3>1, <3>3 DEF Probing
    <3> QED
      BY <3>2, <3>3
  <2>10. ProbesAreHalfOpen'
    BY <2>1, <2>6, <2>9 DEF BreakerInv, Permitted, ProbesAreHalfOpen
  <2>11. OneProber'
    BY <1>5, <2>9 DEF BreakerInv, Permitted, OneProber
  <2> QED
    BY <2>4, <2>8, <2>10, <2>11 DEF BreakerInv, Permitted
<1> QED
  BY <1>6, <1>7 DEF Breaker!Decide, StateOf

LEMMA SettleInv ==
  ASSUME BreakerInv, NEW r \in Requests, Breaker!Settle(r)
  PROVE  BreakerInv'
<1> DEFINE b == breakerOf[r]
           s == StateOf(r)
<1>1. permit[r] # None /\ b \in DOMAIN breakers /\ permit[r] \in Breaker!Permits
  BY DEF BreakerInv, Permitted, PermitsAreDated, Standing, BreakerTypes,
         Breaker!Settle
<1>2. s \in Sound
  BY <1>1, BreakersAre DEF BreakerInv, Standing, Held, StateOf
<1>3. PICK t \in Settlements(s, permit[r]) :
        IF t = s THEN UNCHANGED <<breakers, record>> ELSE Breaker!Store(b, t)
  BY DEF Breaker!Settle, StateOf, Settlements
<1>4. t \in Sound /\ (t = s \/ t.generation = s.generation + 1)
  BY <1>1, <1>2, Settles
<1>5. /\ permit' \in [Requests -> Breaker!Permits \cup {None}]
      /\ permit'[r] = None /\ \A q \in Requests : q # r => permit'[q] = permit[q]
      /\ revised' = revised /\ breakerOf' = breakerOf
  BY DEF BreakerInv, Standing, BreakerTypes, Breaker!Settle
<1>6. /\ Standing' /\ DOMAIN breakers' = DOMAIN breakers
      /\ \A c \in DOMAIN breakers :
           breakers'[c].state = IF c = b THEN t ELSE breakers[c].state
  <2>1. CASE t = s
    BY <1>3, <1>5, <2>1 DEF BreakerInv, Standing, BreakerTypes, OneBreakerEach,
       RecordsHold, DraftIsKept, StateOf
  <2>2. CASE t # s
    BY <1>1, <1>3, <1>4, <1>5, <2>2, StoreKeeps DEF BreakerInv
  <2> QED
    BY <2>1, <2>2
<1>7. \A q \in Requests : permit'[q] # None =>
        /\ q # r /\ permit'[q] = permit[q] /\ permit[q].generation \in Nat
        /\ breakerOf[q] \in DOMAIN breakers
        /\ permit[q].generation <= StateOf(q).generation
        /\ StateOf(q)' = IF breakerOf[q] = b THEN t ELSE StateOf(q)
  BY <1>5, <1>6 DEF BreakerInv, Permitted, PermitsAreDated, StateOf, Standing,
     BreakerTypes, Breaker!Permits
<1>8. s.generation \in Nat
  BY <1>2, Generations
<1>9. \A q \in Requests : breakerOf[q] = b => StateOf(q) = s
  BY DEF StateOf
<1>10. PermitsAreDated'
  BY <1>4, <1>5, <1>6, <1>7, <1>8, <1>9 DEF PermitsAreDated
<1>11. \A q \in Requests : Probing(q)' => Probing(q) /\ StateOf(q)' = StateOf(q)
  BY <1>4, <1>7, <1>8, <1>9 DEF Probing
<1>12. ProbesAreHalfOpen' /\ OneProber'
  BY <1>5, <1>11 DEF BreakerInv, Permitted, ProbesAreHalfOpen, OneProber
<1> QED
  BY <1>6, <1>10, <1>12 DEF BreakerInv, Permitted

\* What a save does to the breakers and the draft concerns no permit.
LEMMA SamePermits ==
  ASSUME BreakerInv, UNCHANGED <<breakerOf, permit>>,
         DOMAIN breakers \subseteq DOMAIN breakers',
         \A b \in DOMAIN breakers :
           /\ breakers'[b].state.mode = breakers[b].state.mode
           /\ breakers'[b].state.generation = breakers[b].state.generation
  PROVE  Permitted'
<1>1. \A r \in Requests : permit[r] # None =>
        /\ breakerOf[r] \in DOMAIN breakers
        /\ permit[r].generation <= StateOf(r).generation
        /\ StateOf(r)'.mode = StateOf(r).mode
        /\ StateOf(r)'.generation = StateOf(r).generation
  BY DEF BreakerInv, Permitted, PermitsAreDated, StateOf
<1>2. PermitsAreDated'
  BY <1>1 DEF PermitsAreDated
<1>3. \A r \in Requests :
        Probing(r)' => Probing(r) /\ StateOf(r)'.mode = StateOf(r).mode
  BY <1>1 DEF Probing
<1>4. ProbesAreHalfOpen' /\ OneProber'
  BY <1>3 DEF BreakerInv, Permitted, ProbesAreHalfOpen, OneProber
<1> QED
  BY <1>2, <1>4 DEF Permitted

LEMMA ReviseInv ==
  ASSUME BreakerInv, ~Reverts, Breaker!Revise
  PROVE  BreakerInv'
<1>1. PICK i \in Identities : ~Breaker!UsedBefore(i) /\ Breaker!BreakerFor(i)
  BY DEF Breaker!Revise
<1>2. UNCHANGED <<breakers, breakerOf, permit>>
  BY DEF Breaker!Revise
<1>3. /\ DOMAIN breakers = 1 .. Len(breakers) /\ Len(breakers) \in DOMAIN breakers
      /\ Len(breakers) \in Nat
      /\ \A b \in DOMAIN breakers : breakers[b] \in Held
  BY BreakersAre DEF BreakerInv, Standing
<1>4. Standing'
  <2>1. CASE i = breakers[Len(breakers)].identity
    BY <1>1, <1>2, <1>3, <2>1
    DEF BreakerInv, Standing, BreakerTypes, OneBreakerEach, RecordsHold,
        DraftIsKept, Breaker!BreakerFor, Breaker!Active
  <2>2. CASE i # breakers[Len(breakers)].identity
    <3> DEFINE loaded == Breaker!Loaded(record[i])
    <3>1. loaded \in Sound
      BY Loads DEF BreakerInv, Standing, BreakerTypes
    <3>2. /\ revised' = [identity |-> i, state |-> loaded]
          /\ record' = [record EXCEPT ![i] = loaded]
      BY <1>1, <2>2 DEF Breaker!BreakerFor, Breaker!Active
    <3> HIDE DEF loaded
    <3>3. \A b \in DOMAIN breakers : breakers[b].identity # i
      BY <1>1, <1>3, <2>2 DEF Breaker!UsedBefore, Breaker!Active
    <3>4. BreakerTypes'
      BY <1>2, <3>1, <3>2 DEF BreakerInv, Standing, BreakerTypes, Held
    <3>5. RecordsHold'
      BY <1>2, <1>3, <3>2, <3>3
      DEF BreakerInv, Standing, BreakerTypes, RecordsHold, Held
    <3>6. DraftIsKept'
      BY <1>2, <3>2, <3>3 DEF BreakerInv, Standing, BreakerTypes, DraftIsKept
    <3>7. OneBreakerEach'
      BY <1>2 DEF BreakerInv, Standing, OneBreakerEach
    <3> QED
      BY <3>4, <3>5, <3>6, <3>7 DEF Standing
  <2> QED
    BY <2>1, <2>2
<1> QED
  BY <1>2, <1>4, SamePermits DEF BreakerInv

LEMMA PublishInv ==
  ASSUME BreakerInv, Breaker!Publish
  PROVE  BreakerInv'
<1>1. /\ DOMAIN breakers = 1 .. Len(breakers) /\ Len(breakers) \in DOMAIN breakers
      /\ Len(breakers) \in Nat
      /\ \A b \in DOMAIN breakers : breakers[b] \in Held
  BY BreakersAre DEF BreakerInv, Standing
<1>2. revised # None /\ revised' = None /\ UNCHANGED <<record, breakerOf, permit>>
  BY DEF Breaker!Publish
<1>3. CASE breakers' = breakers
  <2>1. Standing'
    BY <1>2, <1>3
    DEF BreakerInv, Standing, BreakerTypes, OneBreakerEach, RecordsHold,
        DraftIsKept
  <2> QED
    BY <1>2, <1>3, <2>1, SamePermits DEF BreakerInv
<1>4. CASE breakers' # breakers
  <2>1. /\ revised.identity # breakers[Len(breakers)].identity
        /\ breakers' = Append(breakers, revised)
    BY <1>4 DEF Breaker!Publish, Breaker!NextBreakers, Breaker!Active
  <2>2. revised \in Held
    BY <1>2 DEF BreakerInv, Standing, BreakerTypes
  <2>3. /\ breakers' \in Seq(Held) /\ Len(breakers') = Len(breakers) + 1
        /\ \A b \in DOMAIN breakers : breakers'[b] = breakers[b]
        /\ breakers'[Len(breakers) + 1] = revised
    BY <1>1, <2>1, <2>2, AppendProperties
    DEF BreakerInv, Standing, BreakerTypes
  <2>4. DOMAIN breakers' = DOMAIN breakers \cup {Len(breakers) + 1}
    BY <1>1, <2>3, LenProperties
  <2>5. /\ \A b \in DOMAIN breakers : breakers[b].identity # revised.identity
        /\ record[revised.identity] = revised.state
    BY <1>2, <2>1 DEF BreakerInv, Standing, DraftIsKept
  <2>6. BreakerTypes'
    BY <1>1, <1>2, <2>3 DEF BreakerInv, Standing, BreakerTypes
  <2>7. OneBreakerEach'
    BY <2>3, <2>4, <2>5 DEF BreakerInv, Standing, OneBreakerEach
  <2>8. RecordsHold'
    BY <1>2, <2>3, <2>4, <2>5 DEF BreakerInv, Standing, RecordsHold
  <2>9. Standing'
    BY <1>2, <2>6, <2>7, <2>8 DEF Standing, DraftIsKept
  <2>10. Permitted'
    BY <1>2, <2>3, <2>4, SamePermits
  <2> QED
    BY <2>9, <2>10 DEF BreakerInv
<1> QED
  BY <1>3, <1>4

LEMMA RejectInv ==
  ASSUME BreakerInv, Breaker!Reject
  PROVE  BreakerInv'
<1>1. Standing'
  BY DEF BreakerInv, Standing, BreakerTypes, OneBreakerEach, RecordsHold,
         DraftIsKept, Breaker!Reject
<1> QED
  BY <1>1, SamePermits DEF BreakerInv, Breaker!Reject

LEMMA TickInv ==
  ASSUME BreakerInv, Breaker!Tick
  PROVE  BreakerInv'
<1> DEFINE aged(b) == [breakers[b] EXCEPT !.state = Breaker!Aged(@, 1)]
<1>1. /\ DOMAIN breakers = 1 .. Len(breakers) /\ Len(breakers) \in DOMAIN breakers
      /\ Len(breakers) \in Nat
      /\ \A b \in DOMAIN breakers : breakers[b] \in Held
  BY BreakersAre DEF BreakerInv, Standing
<1>2. \A b \in DOMAIN breakers :
        /\ aged(b) \in Held /\ aged(b).identity = breakers[b].identity
        /\ aged(b).state = Breaker!Aged(breakers[b].state, 1)
        /\ aged(b).state.mode = breakers[b].state.mode
        /\ aged(b).state.generation = breakers[b].state.generation
  BY <1>1, Ages DEF Held
<1>3. breakers' = [b \in 1 .. Len(breakers) |-> aged(b)]
  BY <1>1 DEF Breaker!Tick
<1> HIDE DEF aged
<1>4. /\ breakers' \in Seq(Held) /\ Len(breakers') = Len(breakers)
      /\ DOMAIN breakers' = DOMAIN breakers
      /\ \A b \in DOMAIN breakers : breakers'[b] = aged(b)
  BY <1>1, <1>2, <1>3
<1>5. /\ record' \in [Identities -> Sound]
      /\ \A i \in Identities : record'[i] = Breaker!Aged(record[i], 1)
  BY Ages DEF BreakerInv, Standing, BreakerTypes, Breaker!Tick
<1>6. UNCHANGED <<breakerOf, permit>>
  BY DEF Breaker!Tick
<1>7. revised # None =>
        /\ revised' \in Held /\ revised'.identity = revised.identity
        /\ revised'.state = Breaker!Aged(revised.state, 1)
  BY Ages DEF BreakerInv, Standing, BreakerTypes, Held, Breaker!Tick
<1>8. revised = None => revised' = None
  BY DEF Breaker!Tick
<1>9. BreakerTypes'
  BY <1>4, <1>5, <1>6, <1>7, <1>8 DEF BreakerInv, Standing, BreakerTypes
<1>10. OneBreakerEach' /\ RecordsHold'
  BY <1>1, <1>2, <1>4, <1>5
  DEF BreakerInv, Standing, OneBreakerEach, RecordsHold, Held
<1>11. DraftIsKept'
  BY <1>1, <1>2, <1>4, <1>5, <1>7, <1>8
  DEF BreakerInv, Standing, BreakerTypes, DraftIsKept, Held
<1>12. Permitted'
  BY <1>2, <1>4, <1>6, SamePermits
<1> QED
  BY <1>9, <1>10, <1>11, <1>12 DEF BreakerInv, Standing

LEMMA BreakerStepInv ==
  ASSUME ~Reverts, BreakerInv, [Breaker!Next]_(Breaker!vars)
  PROVE  BreakerInv'
<1>1. CASE UNCHANGED Breaker!vars
  BY <1>1
  DEF Breaker!vars, BreakerInv, Standing, BreakerTypes, OneBreakerEach,
      RecordsHold, DraftIsKept, Permitted, PermitsAreDated, ProbesAreHalfOpen,
      OneProber, Probing, StateOf
<1>2. CASE Breaker!Next
  BY <1>2, ArriveInv, DecideInv, SettleInv, ReviseInv, PublishInv, RejectInv,
     TickInv
  DEF Breaker!Next
<1> QED
  BY <1>1, <1>2

-----------------------------------------------------------------------------
(* Part 3: the composition.                                                *)

\* A live save and the requests in flight behave to the routing document and
\* its capacity as Admission has it, and to the target's breaker as
\* CircuitRevisions has it: the composition restricts both and adds nothing.
THEOREM ImplementsBoth == SpecAll => Spec /\ Breaker!Spec
<1>1. InitAll => Init /\ Breaker!Init
  BY DEF InitAll
<1>2. [NextAll]_allVars => [Next]_vars
  BY DEF NextAll, allVars, vars, registry, Next, Begin, TakeLease, AskBreaker,
         SettlePermit, GiveUpLease, End, BeginRevision, TryAccount, TryDone,
         ForgetRevision, PublishRevision, Wait
<1>3. [NextAll]_allVars => [Breaker!Next]_(Breaker!vars)
  BY DEF NextAll, allVars, breakerVars, Breaker!vars, Breaker!Next, Begin,
         TakeLease, AskBreaker, SettlePermit, GiveUpLease, End, BeginRevision,
         TryAccount, TryDone, ForgetRevision, PublishRevision, Wait
<1> QED
  BY <1>1, <1>2, <1>3, PTL DEF SpecAll, Spec, Breaker!Spec

LEMMA AlwaysBreakerInv == ~Reverts => (SpecAll => []BreakerInv)
<1> SUFFICES ASSUME ~Reverts
             PROVE  SpecAll => []BreakerInv
  OBVIOUS
<1>1. BreakerInv /\ [Breaker!Next]_(Breaker!vars) => BreakerInv'
  BY BreakerStepInv
<1> QED
  BY <1>1, BreakerInitInv, ImplementsBoth, PTL DEF Breaker!Spec

LEMMA SameCardinality == \A S : Breaker!Cardinality(S) = Cardinality(S)
BY DEF Breaker!Cardinality, Cardinality

\* As long as no save returns to an identity the target had before, at most
\* one request at a time probes the target in an identity, whatever is saved
\* while the probe is out (CircuitBreaker::complete_*, AppState::revise).
THEOREM ProbesOneAtATime == ~Reverts => (SpecAll => []OneProbePerTarget)
<1> SUFFICES ASSUME ~Reverts
             PROVE  SpecAll => []OneProbePerTarget
  OBVIOUS
<1>1. BreakerInv => OneProbePerTarget
  <2>1. SUFFICES ASSUME BreakerInv, NEW i \in Identities
                 PROVE  Cardinality(Breaker!ProbesOf(i)) <= 1
    BY SameCardinality DEF OneProbePerTarget, Breaker!OneProbePerTarget
  <2>2. \A r \in Breaker!ProbesOf(i) :
          /\ r \in Requests /\ Probing(r) /\ breakerOf[r] \in DOMAIN breakers
          /\ breakers[breakerOf[r]].identity = i
    BY <2>1
    DEF Breaker!ProbesOf, BreakerInv, Permitted, PermitsAreDated, Probing,
        StateOf
  <2>3. \A r, q \in Breaker!ProbesOf(i) : r = q
    BY <2>1, <2>2
    DEF BreakerInv, Standing, OneBreakerEach, Permitted, OneProber
  <2>4. CASE Breaker!ProbesOf(i) = {}
    BY <2>4, FS_EmptySet
  <2>5. CASE Breaker!ProbesOf(i) # {}
    <3>1. PICK r \in Breaker!ProbesOf(i) : TRUE
      BY <2>5
    <3>2. Breaker!ProbesOf(i) = {r}
      BY <2>3, <3>1
    <3>3. Cardinality({r}) = 1
      BY FS_Singleton
    <3> QED
      BY <3>2, <3>3
  <2> QED
    BY <2>4, <2>5
<1> QED
  BY <1>1, AlwaysBreakerInv, PTL

\* Under the same condition the record in the store is the state of the
\* active breaker, so a restart at any moment goes on from it: the breakers of
\* older revisions write under the keys of other identities.
THEOREM RestartFindsTheBreaker == ~Reverts => (SpecAll => []RecordOfActive)
<1> SUFFICES ASSUME ~Reverts
             PROVE  SpecAll => []RecordOfActive
  OBVIOUS
<1>1. BreakerInv => RecordOfActive
  BY BreakersAre
  DEF BreakerInv, Standing, RecordsHold, RecordOfActive,
      Breaker!RecordOfActive, Breaker!Active
<1> QED
  BY <1>1, AlwaysBreakerInv, PTL

=============================================================================
