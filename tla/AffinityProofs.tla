--------------------------- MODULE AffinityProofs ---------------------------
(***************************************************************************)
(* What Affinity promises for any prompts, domains, limits, lifetimes and  *)
(* keys of the directory: its three maps agree (MapsAgree), a lookup finds *)
(* only what was observed (FindsWhatWasSeen), and only room makes it       *)
(* forget (ForgetsForRoom).                                                *)
(*                                                                         *)
(* The invariant adds two things to what IndexConsistent says.  The claims *)
(* the history holds are the evidence the index keeps, no more and no      *)
(* less; and a lease is listed under every prefix its evidence reaches,    *)
(* but for those where it made room.  An operation is several steps on the *)
(* index, each of them shown to leave the maps agreeing.                   *)
(***************************************************************************)
EXTENDS Affinity, FiniteSetTheorems, FunctionTheorems, SequenceTheorems,
        WellFoundedInduction, TLAPS

-----------------------------------------------------------------------------
(* The invariant.                                                          *)

Epoch == [through : Nat, expires : Nat, confidence : Confidences]

\* The evidence of a lease: some, of its path, and none that is dominated.
Evidence(id, epochs) ==
  /\ epochs \in SUBSET Epoch /\ IsFiniteSet(epochs) /\ epochs # {}
  /\ Compact(epochs) = epochs
  /\ \A e \in epochs : e.through \in 1..DeepestOrdinal(id[2])

Leases(leases) ==
  /\ leases = [id \in DOMAIN leases |-> leases[id]]
  /\ DOMAIN leases \in SUBSET LeaseIds /\ IsFiniteSet(DOMAIN leases)
  /\ \A id \in DOMAIN leases : Evidence(id, leases[id])

Reaches(leases, id, key) ==
  id \in DOMAIN leases /\ key \in Upto(id[2], MaxFrontier(leases[id]))

\* The candidates of a key: leases that reach it, each once.
Listing(leases, key, ids) ==
  /\ ids \in Seq(LeaseIds) /\ IsInjective(ids)
  /\ \A i \in DOMAIN ids : Reaches(leases, ids[i], key)

Listings(leases, prefix) ==
  \A key \in DOMAIN prefix :
    Listing(leases, key, prefix[key]) /\ Len(prefix[key]) \in 1..MaxCandidates

Order(leases) == {<<LeaseExpiry(leases[id]), id>> : id \in DOMAIN leases}

Consistent(ix) ==
  /\ ix = [leases |-> ix.leases, prefix |-> ix.prefix, expiry_order |-> ix.expiry_order]
  /\ Leases(ix.leases) /\ Listings(ix.leases, ix.prefix)
  /\ ix.expiry_order = Order(ix.leases)

\* The claims that count are the evidence of the index.
Claim(id, e) ==
  [id |-> id, through |-> e.through, expires |-> e.expires, confidence |-> e.confidence]
Claims(leases) == UNION {{Claim(id, e) : e \in leases[id]} : id \in DOMAIN leases}

\* A lease is listed wherever it reaches, but for where it made room.
Findable ==
  \A id \in DOMAIN index.leases : \A key \in Upto(id[2], MaxFrontier(index.leases[id])) :
    id \in ToSet(Candidates(index, key)) \/ <<key, id>> \in crowded

TypeOK ==
  /\ now \in Nat /\ lease_key \in HashOrders
  /\ Consistent(index)

IInv ==
  /\ TypeOK
  /\ Cardinality(DOMAIN index.leases) <= MaxLeases
  /\ seen = Claims(index.leases)
  /\ Findable

-----------------------------------------------------------------------------
(* Choosing the largest or the smallest.                                   *)

\* Of any sets of elements of a finite one, some contains no other.
LEMMA LeastSet ==
  ASSUME NEW S, IsFiniteSet(S), NEW Wrong \in SUBSET (SUBSET S), Wrong # {}
  PROVE  \E s \in Wrong : IsFiniteSet(s) /\ \A t \in SUBSET s : t # s => t \notin Wrong
<1>1. Wrong \subseteq FiniteSubsetsOf(S)
  BY FS_Subset DEF FiniteSubsetsOf
<1>2. PICK s \in Wrong : \A t \in Wrong : ~ (<<t, s>> \in StrictSubsetOrdering(S))
  BY <1>1, FS_StrictSubsetOrderingWellFounded, WFMin
<1>3. \A t \in SUBSET s : t # s => t \notin Wrong
  BY <1>2 DEF StrictSubsetOrdering
<1> QED
  BY <1>1, <1>2, <1>3 DEF FiniteSubsetsOf

\* The tuples that are compared: of one length, unless they differ at once.
Tuple(a) == \E n \in Nat \ {0} : a \in [1..n -> Int]
Tuples(S, keyed) ==
  /\ \A x \in S : Tuple(keyed[x])
  /\ \A x, y \in S : keyed[x][1] = keyed[y][1] => DOMAIN keyed[x] = DOMAIN keyed[y]

\* What a tuple's type says of its places.
LEMMA TupleFacts ==
  ASSUME NEW a, Tuple(a)
  PROVE  /\ 1 \in DOMAIN a /\ DOMAIN a \in SUBSET (Nat \ {0})
         /\ \A j \in DOMAIN a : a[j] \in Int /\ 1..j \in SUBSET DOMAIN a
BY DEF Tuple

\* Tuples are ordered: none is smaller than itself,
LEMMA SmallerIrreflexive ==
  ASSUME NEW a, Tuple(a)
  PROVE  ~Smaller(a, a)
BY TupleFacts DEF Smaller

\* and what is smaller than a smaller one is smaller.
LEMMA SmallerTransitive ==
  ASSUME NEW a, NEW b, NEW c, Tuple(a), Tuple(b), Tuple(c),
         a[1] = b[1] => DOMAIN a = DOMAIN b, b[1] = c[1] => DOMAIN b = DOMAIN c,
         Smaller(a, b), Smaller(b, c)
  PROVE  Smaller(a, c)
<1>1. PICK i \in DOMAIN a : (\A j \in 1..(i - 1) : a[j] = b[j]) /\ a[i] < b[i]
  BY DEF Smaller
<1>2. PICK k \in DOMAIN b : (\A j \in 1..(k - 1) : b[j] = c[j]) /\ b[k] < c[k]
  BY DEF Smaller
<1>3. /\ i \in Nat \ {0} /\ k \in Nat \ {0}
      /\ 1 \in DOMAIN a /\ 1 \in DOMAIN b /\ 1 \in DOMAIN c
      /\ \A j \in DOMAIN a : 1..j \in SUBSET DOMAIN a
  BY TupleFacts
<1>4. /\ \A j \in DOMAIN a : a[j] \in Int
      /\ \A j \in DOMAIN b : b[j] \in Int
      /\ \A j \in DOMAIN c : c[j] \in Int
  BY TupleFacts
<1>5. CASE i = 1 /\ k = 1
  BY <1>1, <1>2, <1>3, <1>4, <1>5 DEF Smaller
<1>6. CASE i = 1 /\ k > 1
  <2>1. b[1] = c[1] /\ a[1] < b[1]
    BY <1>1, <1>2, <1>3, <1>6
  <2> QED
    BY <1>3, <1>4, <2>1 DEF Smaller
<1>7. CASE i > 1
  <2>1. a[1] = b[1]
    BY <1>1, <1>3, <1>7
  <2>2. DOMAIN a = DOMAIN b
    BY <2>1
  <2>3. CASE k < i
    <3>1. \A j \in 1..(k - 1) : a[j] = c[j]
      BY <1>1, <1>2, <1>3, <2>3
    <3>2. k \in DOMAIN a /\ a[k] = b[k]
      BY <1>1, <1>3, <2>2, <2>3
    <3> QED
      BY <1>2, <3>1, <3>2 DEF Smaller
  <2>4. CASE k >= i
    <3>1. b[1] = c[1]
      BY <1>2, <1>3, <1>7, <2>4
    <3>2. i \in DOMAIN b /\ i \in DOMAIN c
      BY <2>2, <3>1
    <3>3. \A j \in 1..(i - 1) : a[j] = c[j]
      BY <1>1, <1>2, <1>3, <2>4
    <3>4. a[i] < c[i]
      <4>1. CASE k = i
        BY <1>1, <1>2, <1>4, <3>2, <4>1
      <4>2. CASE k > i
        <5>1. b[i] = c[i]
          BY <1>2, <1>3, <4>2
        <5> QED
          BY <1>1, <5>1
      <4> QED
        BY <1>3, <2>4, <4>1, <4>2
    <3> QED
      BY <3>3, <3>4 DEF Smaller
  <2> QED
    BY <1>3, <2>3, <2>4
<1> QED
  BY <1>3, <1>5, <1>6, <1>7

\* A finite set has a member no other is above, and one no other is below.
LEMMA Extremes ==
  ASSUME NEW S, IsFiniteSet(S), S # {}, NEW keyed, Tuples(S, keyed)
  PROVE  /\ \E x \in S : \A y \in S : ~Smaller(keyed[x], keyed[y])
         /\ \E x \in S : \A y \in S : ~Smaller(keyed[y], keyed[x])
<1> DEFINE Lower(x, y) == Smaller(keyed[x], keyed[y])
           Top(s) == \E x \in s : \A y \in s : ~Lower(x, y)
           Bottom(s) == \E x \in s : \A y \in s : ~Lower(y, x)
           Wrong == {s \in SUBSET S : s # {} /\ ~(Top(s) /\ Bottom(s))}
<1>1. \A x \in S : ~Lower(x, x)
  BY SmallerIrreflexive DEF Tuples
<1>2. ASSUME NEW x \in S, NEW y \in S, NEW z \in S, Lower(x, y), Lower(y, z)
      PROVE  Lower(x, z)
  BY <1>2, SmallerTransitive DEF Tuples
<1> HIDE DEF Lower
<1>3. ASSUME Wrong # {}
      PROVE  FALSE
  <2>1. Wrong \in SUBSET (SUBSET S)
    OBVIOUS
  <2>2. PICK s \in Wrong : \A t \in SUBSET s : t # s => t \notin Wrong
    <3> HIDE DEF Wrong
    <3> QED
      BY <1>3, <2>1, LeastSet
  <2>3. PICK x \in s : TRUE
    OBVIOUS
  <2>4. s \in SUBSET S /\ x \in S
    OBVIOUS
  <2>5. CASE s = {x}
    BY <1>1, <2>4, <2>5
  <2>6. CASE s # {x}
    <3>1. s \ {x} # {} /\ s \ {x} \in SUBSET S /\ s \ {x} # s
      BY <2>3, <2>4, <2>6
    <3>2. Top(s \ {x}) /\ Bottom(s \ {x})
      BY <2>2, <3>1
    <3>3. Top(s)
      <4>1. PICK m \in s \ {x} : \A y \in s \ {x} : ~Lower(m, y)
        BY <3>2
      <4>2. CASE Lower(m, x)
        BY <1>1, <1>2, <2>3, <2>4, <4>1, <4>2
      <4>3. CASE ~Lower(m, x)
        BY <2>4, <4>1, <4>3
      <4> QED
        BY <4>2, <4>3
    <3>4. Bottom(s)
      <4>1. PICK m \in s \ {x} : \A y \in s \ {x} : ~Lower(y, m)
        BY <3>2
      <4>2. CASE Lower(x, m)
        BY <1>1, <1>2, <2>3, <2>4, <4>1, <4>2
      <4>3. CASE ~Lower(x, m)
        BY <2>4, <4>1, <4>3
      <4> QED
        BY <4>2, <4>3
    <3> QED
      BY <3>3, <3>4
  <2> QED
    BY <2>5, <2>6
<1>4. Top(S) /\ Bottom(S)
  BY <1>3
<1> QED
  BY <1>4 DEF Lower

-----------------------------------------------------------------------------
(* The evidence of a lease.                                                *)

\* What an epoch's type says of its fields.
LEMMA EpochFacts ==
  \A e \in Epoch : /\ e.through \in Nat /\ e.expires \in Nat /\ e.confidence \in Nat
                   /\ e.confidence \in Confidences
BY OrdersAssumption DEF Epoch, Confidences

\* A lease runs until the latest of its evidence does.
LEMMA ExpiryFacts ==
  ASSUME NEW epochs \in SUBSET Epoch, IsFiniteSet(epochs), epochs # {}
  PROVE  \E e \in epochs : LeaseExpiry(epochs) = e.expires
<1> DEFINE keyed == [x \in epochs |-> <<x.expires>>]
<1>1. \A x \in epochs : Tuple(keyed[x]) /\ DOMAIN keyed[x] = 1..1
  BY EpochFacts DEF Tuple
<1>2. Tuples(epochs, keyed)
  BY <1>1 DEF Tuples
<1>3. \E x \in epochs : \A y \in epochs : ~Smaller(keyed[x], keyed[y])
  <2> HIDE DEF keyed
  <2> QED
    BY <1>2, Extremes
<1> DEFINE latest == CHOOSE x \in epochs : \A y \in epochs : ~Smaller(keyed[x], keyed[y])
<1>4. latest \in epochs
  BY <1>3
<1>5. LeaseExpiry(epochs) = latest.expires
  BY DEF LeaseExpiry, Largest
<1> QED
  BY <1>4, <1>5

\* It reaches as far as the furthest of its evidence.
LEMMA FrontierFacts ==
  ASSUME NEW epochs \in SUBSET Epoch, IsFiniteSet(epochs), epochs # {}
  PROVE  /\ \E e \in epochs : MaxFrontier(epochs) = e.through
         /\ \A e \in epochs : e.through <= MaxFrontier(epochs)
<1> DEFINE keyed == [x \in epochs |-> <<x.through>>]
<1>1. \A x \in epochs : Tuple(keyed[x]) /\ DOMAIN keyed[x] = 1..1
  BY EpochFacts DEF Tuple
<1>2. Tuples(epochs, keyed)
  BY <1>1 DEF Tuples
<1>3. \E x \in epochs : \A y \in epochs : ~Smaller(keyed[x], keyed[y])
  <2> HIDE DEF keyed
  <2> QED
    BY <1>2, Extremes
<1> DEFINE furthest == CHOOSE x \in epochs : \A y \in epochs : ~Smaller(keyed[x], keyed[y])
<1>4. furthest \in epochs /\ \A y \in epochs : ~Smaller(keyed[furthest], keyed[y])
  BY <1>3
<1>5. MaxFrontier(epochs) = furthest.through
  BY DEF MaxFrontier, Largest
<1> HIDE DEF furthest
<1>6. ASSUME NEW e \in epochs
      PROVE  e.through <= furthest.through
  <2>1. ~Smaller(<<furthest.through>>, <<e.through>>)
    BY <1>4
  <2>2. ~(furthest.through < e.through)
    BY <2>1 DEF Smaller
  <2> QED
    BY <1>4, <2>2, EpochFacts
<1> QED
  BY <1>4, <1>5, <1>6

\* The best of the warm evidence is warm.
LEMMA BestFacts ==
  ASSUME NEW epochs \in SUBSET Epoch, IsFiniteSet(epochs), NEW ordinal, NEW at,
         Warm(epochs, ordinal, at) # {}
  PROVE  BestEpoch(epochs, ordinal, at) \in Warm(epochs, ordinal, at)
<1> DEFINE warm == Warm(epochs, ordinal, at)
           keyed == [x \in warm |-> Strength(x)]
<1>1. warm \in SUBSET Epoch /\ IsFiniteSet(warm)
  BY FS_Subset DEF Warm
<1> HIDE DEF warm
<1>2. \A x \in warm : Tuple(keyed[x]) /\ DOMAIN keyed[x] = 1..3
  <2>1. \A x \in warm : keyed[x] = <<x.confidence, x.expires, x.through>>
    BY DEF Strength
  <2>2. \A x \in warm : x.confidence \in Int /\ x.expires \in Int /\ x.through \in Int
    BY <1>1, EpochFacts
  <2>3. \A x \in warm : keyed[x] \in [1..3 -> Int]
    BY <2>1, <2>2
  <2> HIDE DEF keyed
  <2>4. 3 \in Nat \ {0}
    OBVIOUS
  <2> QED
    BY <2>3, <2>4 DEF Tuple
<1>3. Tuples(warm, keyed)
  BY <1>2 DEF Tuples
<1>4. \E x \in warm : \A y \in warm : ~Smaller(keyed[x], keyed[y])
  <2>1. warm # {}
    BY DEF warm
  <2> HIDE DEF keyed
  <2> QED
    BY <1>1, <1>3, <2>1, Extremes
<1>5. (CHOOSE x \in warm : \A y \in warm : ~Smaller(keyed[x], keyed[y])) \in warm
  BY <1>4
<1> QED
  BY <1>5 DEF BestEpoch, Largest, warm

\* The evidence a claim is added to.
LEMMA EvidenceFacts ==
  ASSUME NEW id, NEW epochs, Evidence(id, epochs)
  PROVE  /\ epochs \in SUBSET Epoch /\ IsFiniteSet(epochs) /\ epochs # {}
         /\ \A c, d \in epochs : Dominates(d, c) => c = d
         /\ \A e \in epochs : e.through \in 1..DeepestOrdinal(id[2])
         /\ MaxFrontier(epochs) \in 1..DeepestOrdinal(id[2])
         /\ LeaseExpiry(epochs) \in Nat
         /\ \A e \in epochs : e.through <= MaxFrontier(epochs)
         /\ \E e \in epochs : MaxFrontier(epochs) = e.through
<1>1. /\ epochs \in SUBSET Epoch /\ IsFiniteSet(epochs) /\ epochs # {}
      /\ \A e \in epochs : e.through \in 1..DeepestOrdinal(id[2])
      /\ Compact(epochs) = epochs
  BY DEF Evidence
<1>2. \A c, d \in epochs : Dominates(d, c) => c = d
  BY <1>1 DEF Compact
<1> QED
  BY <1>1, <1>2, ExpiryFacts, FrontierFacts, EpochFacts

\* Evidence none of which dominates another is compact.
LEMMA EvidenceIs ==
  ASSUME NEW id, NEW epochs \in SUBSET Epoch, IsFiniteSet(epochs), epochs # {},
         \A c, d \in epochs : Dominates(d, c) => c = d,
         \A e \in epochs : e.through \in 1..DeepestOrdinal(id[2])
  PROVE  Evidence(id, epochs) /\ Compact(epochs) = epochs
BY DEF Evidence, Compact

\* New evidence takes the place of what it dominates.
Joined(epochs, epoch) == {e \in epochs : ~Dominates(epoch, e)} \cup {epoch}

\* Evidence nothing dominates joins what is left of the rest, which stays compact.
LEMMA JoinedFacts ==
  ASSUME NEW id, NEW epochs, Evidence(id, epochs) \/ epochs = {},
         NEW epoch \in Epoch, epoch.through \in 1..DeepestOrdinal(id[2]),
         \A e \in epochs : ~Dominates(e, epoch)
  PROVE  /\ Compact(Joined(epochs, epoch)) = Joined(epochs, epoch)
         /\ Evidence(id, Joined(epochs, epoch))
         /\ epoch.through <= MaxFrontier(Joined(epochs, epoch))
         /\ Evidence(id, epochs) => MaxFrontier(epochs) <= MaxFrontier(Joined(epochs, epoch))
         /\ \/ MaxFrontier(Joined(epochs, epoch)) = epoch.through
            \/ /\ Evidence(id, epochs)
               /\ MaxFrontier(Joined(epochs, epoch)) = MaxFrontier(epochs)
<1> DEFINE joined == Joined(epochs, epoch)
<1>1. /\ joined \in SUBSET Epoch /\ IsFiniteSet(joined) /\ joined # {}
      /\ \A e \in joined : e.through \in 1..DeepestOrdinal(id[2])
      /\ epoch \in joined
  <2>1. epochs \in SUBSET Epoch /\ IsFiniteSet(epochs)
        /\ \A e \in epochs : e.through \in 1..DeepestOrdinal(id[2])
    BY EvidenceFacts, FS_EmptySet
  <2>2. IsFiniteSet({e \in epochs : ~Dominates(epoch, e)})
    BY <2>1, FS_Subset
  <2>3. IsFiniteSet(joined)
    BY <2>2, FS_AddElement DEF Joined
  <2> QED
    BY <2>1, <2>3 DEF Joined
<1>2. \A c, d \in joined : Dominates(d, c) => c = d
  BY EvidenceFacts DEF Joined
<1>3. Evidence(id, joined) /\ Compact(joined) = joined
  <2> HIDE DEF joined
  <2> QED
    BY <1>1, <1>2, EvidenceIs
<1>4. /\ \E e \in joined : MaxFrontier(joined) = e.through
      /\ \A e \in joined : e.through <= MaxFrontier(joined)
      /\ MaxFrontier(joined) \in Nat
  BY <1>3, EvidenceFacts, EpochFacts
<1>5. ASSUME Evidence(id, epochs)
      PROVE  /\ MaxFrontier(epochs) <= MaxFrontier(joined)
             /\ \A e \in epochs : e.through <= MaxFrontier(epochs)
             /\ MaxFrontier(epochs) \in Nat
  <2>1. /\ \A e \in epochs : e.through <= MaxFrontier(epochs)
        /\ epochs \in SUBSET Epoch
    BY <1>5, EvidenceFacts
  <2>2. PICK e \in epochs : MaxFrontier(epochs) = e.through
    BY <1>5, EvidenceFacts
  <2>3. e.through \in Nat /\ epoch.through \in Nat
    BY <2>1, EpochFacts
  <2>4. CASE e \in joined
    BY <1>4, <2>1, <2>2, <2>3, <2>4
  <2>5. CASE Dominates(epoch, e)
    <3>1. e.through <= epoch.through /\ epoch.through <= MaxFrontier(joined)
      BY <1>1, <1>4, <2>3, <2>5 DEF Dominates
    <3> QED
      BY <1>4, <2>1, <2>2, <2>3, <3>1
  <2> QED
    BY <2>4, <2>5 DEF Joined
<1>6. PICK e \in joined : MaxFrontier(joined) = e.through
  BY <1>4
<1>7. e = epoch \/ e \in epochs
  BY DEF Joined
<1>8. CASE e = epoch
  BY <1>1, <1>3, <1>4, <1>5, <1>6, <1>8
<1>9. CASE e \in epochs
  <2>1. Evidence(id, epochs)
    BY <1>9
  <2>2. MaxFrontier(joined) <= MaxFrontier(epochs)
    BY <1>5, <1>6, <1>9, <2>1
  <2>3. MaxFrontier(joined) = MaxFrontier(epochs)
    BY <1>4, <1>5, <2>1, <2>2
  <2> QED
    BY <1>1, <1>3, <1>4, <1>5, <2>1, <2>3
<1> QED
  BY <1>7, <1>8, <1>9

-----------------------------------------------------------------------------
(* Lists of candidates.                                                    *)

\* A set of naturals that is not empty has a least element.
LEMMA Lowest ==
  ASSUME NEW S \in SUBSET Nat, S # {}
  PROVE  \E x \in S : \A y \in S : x <= y
<1> DEFINE Below == {pair \in Nat \X Nat : pair[1] < pair[2]}
<1>1. IsWellFoundedOn(Below, Nat)
  BY NatLessThanWellFounded DEF OpToRel
<1> HIDE DEF Below
<1>2. PICK x \in S : \A y \in S : ~ (<<y, x>> \in Below)
  BY <1>1, WFMin
<1>3. \A y \in S : ~ (y < x)
  BY <1>2 DEF Below
<1> QED
  BY <1>3

\* A list with one more member.
LEMMA AppendFacts ==
  ASSUME NEW T, NEW s \in Seq(T), NEW x \in T
  PROVE  /\ Append(s, x) \in Seq(T) /\ Len(Append(s, x)) = Len(s) + 1
         /\ ToSet(Append(s, x)) = ToSet(s) \cup {x}
         /\ IsInjective(s) /\ x \notin ToSet(s) => IsInjective(Append(s, x))
<1> DEFINE t == Append(s, x)
<1>1. /\ t \in Seq(T) /\ Len(t) = Len(s) + 1 /\ DOMAIN s = 1..Len(s)
      /\ DOMAIN t = 1..(Len(s) + 1) /\ t[Len(s) + 1] = x
      /\ \A i \in 1..Len(s) : t[i] = s[i]
      /\ Len(s) \in Nat
  OBVIOUS
<1> HIDE DEF t
<1>2. \A i \in 1..(Len(s) + 1) : i \in 1..Len(s) \/ i = Len(s) + 1
  BY <1>1
<1>3. 1..Len(s) \in SUBSET (1..(Len(s) + 1)) /\ Len(s) + 1 \in 1..(Len(s) + 1)
  BY <1>1
<1>4. ToSet(t) = ToSet(s) \cup {x}
  BY <1>1, <1>2, <1>3 DEF ToSet
<1>5. IsInjective(s) /\ x \notin ToSet(s) => IsInjective(t)
  BY <1>1, <1>2, <1>3 DEF ToSet, IsInjective
<1> QED
  BY <1>1, <1>4, <1>5 DEF t

\* A list with one member fewer.
LEMMA RemoveAtFacts ==
  ASSUME NEW T, NEW s \in Seq(T), NEW i \in DOMAIN s
  PROVE  /\ RemoveAt(s, i) \in Seq(T) /\ Len(RemoveAt(s, i)) = Len(s) - 1
         /\ ToSet(RemoveAt(s, i)) \in SUBSET ToSet(s)
         /\ IsInjective(s) => IsInjective(RemoveAt(s, i))
<1> DEFINE t == RemoveAt(s, i)
           old(k) == IF k < i THEN k ELSE k + 1
<1>1. /\ Len(s) \in Nat /\ DOMAIN s = 1..Len(s) /\ i \in 1..Len(s)
  OBVIOUS
<1>2. /\ t \in Seq(T) /\ Len(t) = Len(s) - 1 /\ DOMAIN t = 1..(Len(s) - 1)
      /\ \A k \in 1..(Len(s) - 1) : t[k] = s[old(k)]
  <2> DEFINE a == SubSeq(s, 1, i - 1)
             b == SubSeq(s, i + 1, Len(s))
  <2>1. /\ i \in Int /\ 1 \in Int /\ i - 1 \in Int /\ i + 1 \in Int /\ Len(s) \in Int
        /\ \A k \in 1..(i - 1) : s[k] \in T
        /\ \A k \in (i + 1)..Len(s) : s[k] \in T
    BY <1>1
  <2>2. /\ a \in Seq(T) /\ Len(a) = i - 1
        /\ \A k \in 1..(i - 1) : a[k] = s[k]
    <3>1. /\ SubSeq(s, 1, i - 1) \in Seq(T)
          /\ Len(SubSeq(s, 1, i - 1)) = IF 1 <= i - 1 THEN i - 1 - 1 + 1 ELSE 0
          /\ \A k \in 1..(i - 1 - 1 + 1) : SubSeq(s, 1, i - 1)[k] = s[1 + k - 1]
      BY <2>1, SubSeqProperties
    <3>2. (IF 1 <= i - 1 THEN i - 1 - 1 + 1 ELSE 0) = i - 1 /\ i - 1 - 1 + 1 = i - 1
      BY <1>1
    <3>3. \A k \in 1..(i - 1) : 1 + k - 1 = k
      BY <1>1
    <3> QED
      BY <3>1, <3>2, <3>3
  <2>3. /\ b \in Seq(T) /\ Len(b) = Len(s) - i
        /\ \A k \in 1..(Len(s) - i) : b[k] = s[i + k]
    <3>1. /\ SubSeq(s, i + 1, Len(s)) \in Seq(T)
          /\ Len(SubSeq(s, i + 1, Len(s)))
               = IF i + 1 <= Len(s) THEN Len(s) - (i + 1) + 1 ELSE 0
          /\ \A k \in 1..(Len(s) - (i + 1) + 1) :
               SubSeq(s, i + 1, Len(s))[k] = s[i + 1 + k - 1]
      BY <2>1, SubSeqProperties
    <3>2. /\ (IF i + 1 <= Len(s) THEN Len(s) - (i + 1) + 1 ELSE 0) = Len(s) - i
          /\ Len(s) - (i + 1) + 1 = Len(s) - i
      BY <1>1
    <3>3. \A k \in 1..(Len(s) - i) : i + 1 + k - 1 = i + k
      BY <1>1
    <3> QED
      BY <3>1, <3>2, <3>3
  <2> HIDE DEF a, b
  <2>4. /\ a \o b \in Seq(T) /\ Len(a \o b) = Len(a) + Len(b)
        /\ \A k \in 1..(Len(a) + Len(b)) :
             (a \o b)[k] = IF k <= Len(a) THEN a[k] ELSE b[k - Len(a)]
    BY <2>2, <2>3, ConcatProperties
  <2>5. Len(a) + Len(b) = Len(s) - 1
    BY <1>1, <2>2, <2>3
  <2>6. ASSUME NEW k \in 1..(Len(s) - 1)
        PROVE  (a \o b)[k] = s[old(k)]
    <3>1. (a \o b)[k] = IF k <= i - 1 THEN a[k] ELSE b[k - (i - 1)]
      BY <2>2, <2>4, <2>5
    <3>2. CASE k < i
      <4>1. k \in 1..(i - 1) /\ k <= i - 1
        BY <1>1, <3>2
      <4> QED
        BY <2>2, <3>1, <3>2, <4>1
    <3>3. CASE ~(k < i)
      <4>1. /\ k - (i - 1) \in 1..(Len(s) - i) /\ ~(k <= i - 1)
            /\ i + (k - (i - 1)) = k + 1
        BY <1>1, <3>3
      <4> QED
        BY <2>3, <3>1, <3>3, <4>1
    <3> QED
      BY <3>2, <3>3
  <2>7. t = a \o b
    BY DEF RemoveAt, a, b
  <2> HIDE DEF t, old
  <2>8. DOMAIN t = 1..Len(t)
    BY <2>4, <2>7
  <2> QED
    BY <2>4, <2>5, <2>6, <2>7, <2>8
<1> HIDE DEF t
<1>3. /\ \A k \in 1..(Len(s) - 1) : old(k) \in 1..Len(s)
      /\ \A k, m \in 1..(Len(s) - 1) : old(k) = old(m) => k = m
  BY <1>1
<1> HIDE DEF old
<1>4. ToSet(t) \in SUBSET ToSet(s)
  BY <1>1, <1>2, <1>3 DEF ToSet
<1>5. IsInjective(s) => IsInjective(t)
  BY <1>1, <1>2, <1>3 DEF IsInjective
<1> QED
  BY <1>2, <1>4, <1>5 DEF t

\* What Others asks of the function it defines, up to the n-th member.
OthersOn(others, ids, id, n) ==
  others = [i \in 0..n |->
              IF i = 0 THEN <<>>
              ELSE IF ids[i] = id THEN others[i - 1] ELSE Append(others[i - 1], ids[i])]

\* Others is the function its definition describes, at the list's end.
LEMMA OthersIsChosen ==
  ASSUME NEW ids, NEW id
  PROVE  Others(ids, id)
           = (CHOOSE others : OthersOn(others, ids, id, Len(ids)))[Len(ids)]
BY DEF Others, OthersOn

\* There is such a function.
LEMMA OthersExists ==
  ASSUME NEW ids, NEW id, NEW n \in Nat
  PROVE  \E others : OthersOn(others, ids, id, n)
<1> DEFINE Wrong == {k \in Nat : ~ \E others : OthersOn(others, ids, id, k)}
<1>1. ASSUME Wrong # {}
      PROVE  FALSE
  <2>1. PICK k \in Wrong : \A m \in Wrong : k <= m
    BY <1>1, Lowest
  <2>2. k # 0
    <3>1. OthersOn([i \in 0..0 |-> <<>>], ids, id, 0)
      BY DEF OthersOn
    <3> QED
      BY <3>1
  <2>3. k \in Nat /\ k - 1 \in Nat /\ k - 1 \notin Wrong
    BY <2>1, <2>2
  <2>4. PICK f : OthersOn(f, ids, id, k - 1)
    BY <2>3
  <2> DEFINE Step(g, i) ==
               IF i = 0 THEN <<>> ELSE IF ids[i] = id THEN g[i - 1] ELSE Append(g[i - 1], ids[i])
             g == [i \in 0..k |-> Step(f, i)]
  <2>5. f = [i \in 0..(k - 1) |-> Step(f, i)]
    BY <2>4 DEF OthersOn
  <2>6. \A i \in 0..k : i # 0 => i - 1 \in 0..(k - 1) /\ i - 1 \in 0..k
    BY <2>3
  <2>7. \A i \in 0..(k - 1) : i \in 0..k /\ g[i] = f[i]
    <3> HIDE DEF Step
    <3> QED
      BY <2>3, <2>5
  <2>8. \A i \in 0..k : Step(f, i) = Step(g, i)
    <3> HIDE DEF g
    <3> QED
      BY <2>6, <2>7
  <2>9. g = [i \in 0..k |-> Step(g, i)]
    <3> HIDE DEF Step
    <3> QED
      BY <2>8
  <2>10. OthersOn(g, ids, id, k)
    <3> HIDE DEF g
    <3> QED
      BY <2>9 DEF OthersOn
  <2> QED
    BY <2>1, <2>10
<1> QED
  BY <1>1

\* The others of a list are its members but one, each as often as before.
LEMMA OthersFacts ==
  ASSUME NEW T, NEW ids \in Seq(T), NEW id
  PROVE  /\ Others(ids, id) \in Seq(T) /\ Len(Others(ids, id)) <= Len(ids)
         /\ ToSet(Others(ids, id)) = ToSet(ids) \ {id}
         /\ IsInjective(ids) => IsInjective(Others(ids, id))
<1> DEFINE n == Len(ids)
           f == CHOOSE others : OthersOn(others, ids, id, n)
           first(i) == {ids[j] : j \in 1..i}
           Right(i) == /\ f[i] \in Seq(T) /\ Len(f[i]) <= i
                       /\ ToSet(f[i]) = first(i) \ {id}
                       /\ IsInjective(ids) => IsInjective(f[i])
           Wrong == {i \in 0..n : ~Right(i)}
<1>1. n \in Nat /\ DOMAIN ids = 1..n /\ \A i \in 1..n : ids[i] \in T
  OBVIOUS
<1>2. OthersOn(f, ids, id, n)
  <2> HIDE DEF n
  <2> QED
    BY <1>1, OthersExists
<1> HIDE DEF n, f
<1>3. \A i \in 0..n :
        f[i] = IF i = 0 THEN <<>>
               ELSE IF ids[i] = id THEN f[i - 1] ELSE Append(f[i - 1], ids[i])
  BY <1>2 DEF OthersOn
<1>4. ASSUME Wrong # {}
      PROVE  FALSE
  <2>1. Wrong \in SUBSET Nat
    BY <1>1
  <2>2. PICK i \in Wrong : \A m \in Wrong : i <= m
    <3> HIDE DEF Wrong
    <3> QED
      BY <1>4, <2>1, Lowest
  <2>3. i \in 0..n /\ ~Right(i)
    OBVIOUS
  <2>4. i # 0
    <3>1. ASSUME i = 0
          PROVE  Right(i)
      <4>1. f[i] = <<>> /\ first(i) = {}
        BY <1>1, <1>3, <3>1
      <4>2. <<>> \in Seq(T) /\ Len(<<>>) = 0 /\ ToSet(<<>>) = {} /\ IsInjective(<<>>)
        BY DEF ToSet, IsInjective
      <4> QED
        BY <3>1, <4>1, <4>2
    <3> QED
      BY <2>3, <3>1
  <2>5. i - 1 \in 0..n /\ i - 1 \notin Wrong /\ i \in 1..n /\ i \in Nat
    <3> HIDE DEF Wrong, Right
    <3> QED
      BY <1>1, <2>2, <2>3, <2>4
  <2>6. Right(i - 1)
    <3> HIDE DEF Right
    <3> QED
      BY <2>5
  <2>7. first(i) = first(i - 1) \cup {ids[i]}
    <3>1. 1..i = 1..(i - 1) \cup {i}
      BY <2>5
    <3> QED
      BY <3>1
  <2>8. CASE ids[i] = id
    <3>1. f[i] = f[i - 1]
      BY <1>3, <2>3, <2>4, <2>8
    <3>2. Len(f[i - 1]) \in Nat
      BY <2>6
    <3> QED
      BY <2>3, <2>5, <2>6, <2>7, <2>8, <3>1, <3>2
  <2>9. CASE ids[i] # id
    <3>1. f[i] = Append(f[i - 1], ids[i])
      BY <1>3, <2>3, <2>4, <2>9
    <3>2. /\ f[i] \in Seq(T) /\ Len(f[i]) = Len(f[i - 1]) + 1
          /\ ToSet(f[i]) = ToSet(f[i - 1]) \cup {ids[i]}
          /\ IsInjective(f[i - 1]) /\ ids[i] \notin ToSet(f[i - 1]) => IsInjective(f[i])
      BY <1>1, <2>5, <2>6, <3>1, AppendFacts
    <3>3. Len(f[i - 1]) \in Nat
      BY <2>6
    <3>4. IsInjective(ids) => ids[i] \notin first(i - 1)
      <4>1. \A j \in 1..(i - 1) : j \in 1..n /\ j # i
        BY <1>1, <2>5
      <4> QED
        BY <1>1, <2>5, <4>1 DEF IsInjective
    <3> HIDE DEF first
    <3> QED
      BY <2>3, <2>5, <2>6, <2>7, <2>9, <3>2, <3>3, <3>4
  <2> QED
    BY <2>8, <2>9
<1>5. Right(n)
  <2>1. n \in 0..n
    BY <1>1
  <2> HIDE DEF Right
  <2> QED
    BY <1>4, <2>1
<1>6. first(n) = ToSet(ids)
  BY <1>1 DEF ToSet
<1>7. Others(ids, id) = f[n]
  BY OthersIsChosen DEF n, f
<1> QED
  BY <1>5, <1>6, <1>7 DEF n

-----------------------------------------------------------------------------
(* The leases and their order of eviction.                                 *)

\* A lease is of a prompt, which is a sequence.
LEMMA PromptFacts ==
  ASSUME NEW prompt \in Prompts
  PROVE  /\ prompt \in Seq(ToSet(prompt)) /\ Len(prompt) \in Nat
         /\ DeepestOrdinal(prompt) \in Nat /\ DeepestOrdinal(prompt) <= Len(prompt)
<1>1. prompt \in Seq(ToSet(prompt))
  BY PromptsAssumption
<1>2. Len(prompt) \in Nat
  BY <1>1
<1>3. MaxCheckpoints \in Nat
  BY LimitsAssumption
<1> QED
  BY <1>1, <1>2, <1>3 DEF DeepestOrdinal

\* A lease's id is a domain and a prompt, whose path has a depth.
LEMMA IdFacts ==
  ASSUME NEW id \in LeaseIds
  PROVE  id[1] \in Domains /\ id[2] \in Prompts /\ DeepestOrdinal(id[2]) \in Nat
BY PromptFacts, LimitsAssumption

\* What reaches further reaches more prefixes.
LEMMA UptoMonotone ==
  ASSUME NEW prompt, NEW m \in Nat, NEW n \in Nat, m <= n
  PROVE  Upto(prompt, m) \in SUBSET Upto(prompt, n)
<1>1. 1..m \in SUBSET (1..n)
  OBVIOUS
<1> QED
  BY <1>1 DEF Upto

\* The maps of leases and their eviction order agree.
Settled(ix) ==
  /\ ix = [leases |-> ix.leases, prefix |-> ix.prefix, expiry_order |-> ix.expiry_order]
  /\ Leases(ix.leases) /\ ix.expiry_order = Order(ix.leases)

\* With sets one key and leaves the others.
LEMMA WithFacts ==
  ASSUME NEW f, NEW key, NEW value
  PROVE  /\ DOMAIN With(f, key, value) = DOMAIN f \cup {key}
         /\ With(f, key, value)[key] = value
         /\ \A k \in DOMAIN f : k # key => With(f, key, value)[k] = f[k]
BY DEF With

\* A lease may get any evidence of its path,
LEMMA LeasesWith ==
  ASSUME NEW leases, Leases(leases), NEW id \in LeaseIds, NEW epochs, Evidence(id, epochs)
  PROVE  Leases(With(leases, id, epochs))
<1> DEFINE new == With(leases, id, epochs)
<1>1. IsFiniteSet(DOMAIN leases \cup {id})
  BY FS_AddElement DEF Leases
<1>2. /\ new = [k \in DOMAIN new |-> new[k]]
      /\ DOMAIN new = DOMAIN leases \cup {id} /\ new[id] = epochs
      /\ \A k \in DOMAIN leases : k # id => new[k] = leases[k]
  BY DEF With
<1> HIDE DEF new
<1>3. /\ DOMAIN leases \in SUBSET LeaseIds
      /\ \A k \in DOMAIN leases : Evidence(k, leases[k])
  BY DEF Leases
<1>4. \A k \in DOMAIN new : Evidence(k, new[k])
  BY <1>2, <1>3
<1>5. DOMAIN new \in SUBSET LeaseIds /\ IsFiniteSet(DOMAIN new)
  BY <1>1, <1>2, <1>3
<1> QED
  BY <1>2, <1>4, <1>5 DEF Leases, new

\* and leases may go.
LEMMA LeasesWithout ==
  ASSUME NEW leases, Leases(leases), NEW ids
  PROVE  Leases(Without(leases, ids))
<1> DEFINE new == Without(leases, ids)
<1>1. IsFiniteSet(DOMAIN leases \ ids)
  BY FS_Difference DEF Leases
<1>2. /\ new = [k \in DOMAIN new |-> new[k]] /\ DOMAIN new = DOMAIN leases \ ids
      /\ \A k \in DOMAIN leases \ ids : new[k] = leases[k]
  BY DEF Without
<1> HIDE DEF new
<1>3. /\ DOMAIN leases \in SUBSET LeaseIds
      /\ \A k \in DOMAIN leases : Evidence(k, leases[k])
  BY DEF Leases
<1>4. \A k \in DOMAIN new : Evidence(k, new[k])
  BY <1>2, <1>3
<1>5. DOMAIN new \in SUBSET LeaseIds /\ IsFiniteSet(DOMAIN new)
  BY <1>1, <1>2, <1>3
<1> QED
  BY <1>2, <1>4, <1>5 DEF Leases, new

\* Other evidence moves the lease in the order.
LEMMA WithEpochsFacts ==
  ASSUME NEW ix, Settled(ix), NEW id \in LeaseIds, NEW epochs, Evidence(id, epochs)
  PROVE  /\ Settled(WithEpochs(ix, id, epochs))
         /\ WithEpochs(ix, id, epochs).leases = With(ix.leases, id, epochs)
         /\ WithEpochs(ix, id, epochs).prefix = ix.prefix
<1> DEFINE earlier == IF Epochs(ix, id) = {} THEN {} ELSE {<<LeaseExpiry(Epochs(ix, id)), id>>}
           leases == With(ix.leases, id, epochs)
           order == (ix.expiry_order \ earlier) \cup {<<LeaseExpiry(epochs), id>>}
<1>1. ix = [leases |-> ix.leases, prefix |-> ix.prefix, expiry_order |-> ix.expiry_order]
  BY DEF Settled
<1>2. WithEpochs(ix, id, epochs)
        = [leases |-> leases, prefix |-> ix.prefix, expiry_order |-> order]
  <2> HIDE DEF leases
  <2>1. WithEpochs(ix, id, epochs) = [ix EXCEPT !.leases = leases, !.expiry_order = order]
    BY DEF WithEpochs, leases
  <2> HIDE DEF order
  <2> QED
    BY <1>1, <2>1
<1>3. Leases(leases)
  BY LeasesWith DEF Settled
<1>4. order = Order(leases)
  <2>1. /\ DOMAIN leases = DOMAIN ix.leases \cup {id} /\ leases[id] = epochs
        /\ \A other \in DOMAIN ix.leases : other # id => leases[other] = ix.leases[other]
    BY DEF With
  <2>2. earlier = IF id \in DOMAIN ix.leases THEN {<<LeaseExpiry(ix.leases[id]), id>>} ELSE {}
    <3>1. \A other \in DOMAIN ix.leases : ix.leases[other] # {}
      BY DEF Settled, Leases, Evidence
    <3> QED
      BY <3>1 DEF Epochs
  <2> HIDE DEF earlier, leases
  <2>3. ix.expiry_order = Order(ix.leases)
    BY DEF Settled
  <2>4. ix.expiry_order \ earlier
          = {<<LeaseExpiry(ix.leases[other]), other>> : other \in DOMAIN ix.leases \ {id}}
    BY <2>2, <2>3 DEF Order
  <2>5. Order(leases)
          = {<<LeaseExpiry(ix.leases[other]), other>> : other \in DOMAIN ix.leases \ {id}}
              \cup {<<LeaseExpiry(epochs), id>>}
    BY <2>1 DEF Order
  <2> QED
    BY <2>4, <2>5
<1> HIDE DEF leases, order
<1> QED
  BY <1>2, <1>3, <1>4 DEF Settled, leases

-----------------------------------------------------------------------------
(* The lists of the prefixes.                                              *)

\* The leases listed under a prefix.
Names(prefix, key) == IF key \in DOMAIN prefix THEN ToSet(prefix[key]) ELSE {}

\* Names is what Candidates lists.
LEMMA NamesAreCandidates ==
  ASSUME NEW ix, NEW key
  PROVE  ToSet(Candidates(ix, key)) = Names(ix.prefix, key)
BY DEF Candidates, Names, ToSet

\* A list stays in order as long as what it names still reaches the prefix.
LEMMA ListingKept ==
  ASSUME NEW leases, NEW other, NEW key, NEW ids, Listing(leases, key, ids),
         \A id : Reaches(leases, id, key) => Reaches(other, id, key)
  PROVE  Listing(other, key, ids)
BY DEF Listing

\* A lease may lose its reach to some prefixes, the others keep theirs.
OthersReach(leases, other, keys, id) ==
  \A key, i : Reaches(leases, i, key) /\ (i # id \/ key \notin keys) => Reaches(other, i, key)

\* The references of a lease are gone from the lists of the keys, and no others.
TakenFrom(prefix, after, keys, id) ==
  \A key : Names(after, key) = IF key \in keys THEN Names(prefix, key) \ {id}
                               ELSE Names(prefix, key)

\* What is left of the lists when a lease is taken from some of them.
LEMMA RemoveRefsFacts ==
  ASSUME NEW leases, NEW prefix, Listings(leases, prefix), NEW keys, NEW id, NEW other,
         OthersReach(leases, other, keys, id)
  PROVE  /\ Listings(other, RemoveRefs(prefix, keys, id))
         /\ TakenFrom(prefix, RemoveRefs(prefix, keys, id), keys, id)
<1> DEFINE left(k) == IF k \in keys THEN Others(prefix[k], id) ELSE prefix[k]
           after == RemoveRefs(prefix, keys, id)
<1>1. after = [k \in {x \in DOMAIN prefix : left(x) # <<>>} |-> left(k)]
  BY DEF RemoveRefs
<1>2. ASSUME NEW key \in DOMAIN prefix
      PROVE  /\ left(key) \in Seq(LeaseIds) /\ IsInjective(left(key))
             /\ Len(left(key)) <= MaxCandidates
             /\ ToSet(left(key)) = IF key \in keys THEN ToSet(prefix[key]) \ {id}
                                   ELSE ToSet(prefix[key])
             /\ \A i \in ToSet(prefix[key]) : Reaches(leases, i, key)
             /\ \A i \in ToSet(left(key)) : Reaches(other, i, key)
  <2>1. /\ prefix[key] \in Seq(LeaseIds) /\ IsInjective(prefix[key])
        /\ Len(prefix[key]) \in 1..MaxCandidates
        /\ \A i \in ToSet(prefix[key]) : Reaches(leases, i, key)
        /\ \A i \in ToSet(prefix[key]) : i # id \/ key \notin keys => Reaches(other, i, key)
    BY DEF Listings, Listing, ToSet, OthersReach
  <2>2. MaxCandidates \in Nat
    BY LimitsAssumption
  <2>3. /\ Others(prefix[key], id) \in Seq(LeaseIds)
        /\ Len(Others(prefix[key], id)) <= Len(prefix[key])
        /\ Len(Others(prefix[key], id)) \in Nat
        /\ ToSet(Others(prefix[key], id)) = ToSet(prefix[key]) \ {id}
        /\ IsInjective(Others(prefix[key], id))
    BY <2>1, OthersFacts
  <2>4. CASE key \in keys
    BY <2>1, <2>2, <2>3, <2>4
  <2>5. CASE key \notin keys
    BY <2>1, <2>2, <2>5
  <2> QED
    BY <2>4, <2>5
<1> HIDE DEF left, after
<1>3. \A s \in Seq(LeaseIds) : /\ s # <<>> => Len(s) \in Nat \ {0}
                               /\ DOMAIN s = 1..Len(s) /\ Len(s) \in Nat
                               /\ s = <<>> => ToSet(s) = {}
  BY DEF ToSet
<1>4. ASSUME NEW key \in DOMAIN after
      PROVE  Listing(other, key, after[key]) /\ Len(after[key]) \in 1..MaxCandidates
  <2>1. key \in DOMAIN prefix /\ after[key] = left(key) /\ left(key) # <<>>
    BY <1>1
  <2>2. Len(left(key)) \in 1..MaxCandidates
    BY <1>2, <1>3, <2>1, LimitsAssumption
  <2> QED
    BY <1>2, <2>1, <2>2 DEF Listing, ToSet
<1>5. ASSUME NEW key
      PROVE  Names(after, key)
               = IF key \in keys THEN Names(prefix, key) \ {id} ELSE Names(prefix, key)
  <2>1. CASE key \notin DOMAIN prefix
    BY <1>1, <2>1 DEF Names
  <2>2. CASE key \in DOMAIN prefix /\ left(key) = <<>>
    <3>1. ToSet(left(key)) = {} /\ key \notin DOMAIN after
      BY <1>1, <1>2, <1>3, <2>2
    <3> QED
      BY <1>2, <2>2, <3>1 DEF Names
  <2>3. CASE key \in DOMAIN prefix /\ left(key) # <<>>
    BY <1>1, <1>2, <2>3 DEF Names
  <2> QED
    BY <2>1, <2>2, <2>3
<1> QED
  BY <1>4, <1>5 DEF Listings, TakenFrom, after

-----------------------------------------------------------------------------
(* Adding to a list.                                                       *)

\* A score is told apart by the place in the list.
LEMMA ScoreFacts ==
  ASSUME NEW s \in Seq(Int), NEW n \in Nat \ {0}, Len(s) = n, NEW i \in Int
  PROVE  s \o <<i>> \in [1..(n + 1) -> Int] /\ (s \o <<i>>)[1] = s[1]
<1> DEFINE t == <<i>>
<1>1. t \in Seq(Int) /\ Len(t) = 1
  OBVIOUS
<1> HIDE DEF t
<1>2. /\ s \o t \in Seq(Int) /\ Len(s \o t) = n + 1
      /\ \A k \in 1..(Len(s) + Len(t)) :
           (s \o t)[k] = IF k <= Len(s) THEN s[k] ELSE t[k - Len(s)]
  <2>1. /\ s \o t \in Seq(Int) /\ Len(s \o t) = Len(s) + Len(t)
        /\ \A k \in 1..(Len(s) + Len(t)) :
             (s \o t)[k] = IF k <= Len(s) THEN s[k] ELSE t[k - Len(s)]
    BY <1>1, ConcatProperties
  <2>2. Len(s) + Len(t) = n + 1
    BY <1>1
  <2> QED
    BY <2>1, <2>2
<1>3. s \o t \in [1..(n + 1) -> Int]
  <2> DEFINE u == s \o t
  <2>1. u \in Seq(Int) /\ Len(u) = n + 1
    BY <1>2
  <2> HIDE DEF u
  <2>2. u \in [1..Len(u) -> Int]
    BY <2>1
  <2> QED
    BY <2>1, <2>2 DEF u
<1>4. (s \o t)[1] = s[1]
  BY <1>1, <1>2
<1> QED
  BY <1>3, <1>4 DEF t

\* The scores that rank candidates are tuples of one length, unless the first
\* place tells them apart.
LEMMA NoScore ==
  ASSUME NEW i \in Int
  PROVE  <<0>> \o <<i>> \in [1..2 -> Int] /\ (<<0>> \o <<i>>)[1] = 0
<1>1. <<0>> \in Seq(Int) /\ Len(<<0>>) = 1 /\ <<0>>[1] = 0 /\ 1 \in Nat \ {0} /\ 1 + 1 = 2
  OBVIOUS
<1> QED
  BY <1>1, ScoreFacts

\* The score of a candidate that reaches the prefix now.
LEMMA FullScore ==
  ASSUME NEW c \in Int, NEW e \in Int, NEW t \in Int, NEW r \in Int, NEW i \in Int
  PROVE  /\ <<1, c, e, t, r>> \o <<i>> \in [1..6 -> Int]
         /\ (<<1, c, e, t, r>> \o <<i>>)[1] = 1
<1> DEFINE s == <<1, c, e, t, r>>
<1>1. s \in Seq(Int) /\ Len(s) = 5 /\ s[1] = 1 /\ 5 \in Nat \ {0} /\ 5 + 1 = 6
  OBVIOUS
<1> HIDE DEF s
<1>2. s \o <<i>> \in [1..6 -> Int] /\ (s \o <<i>>)[1] = 1
  BY <1>1, ScoreFacts
<1> QED
  BY <1>2 DEF s

\* One candidate is the worst.
LEMMA WorstFacts ==
  ASSUME NEW ix, Leases(ix.leases), lease_key \in [LeaseIds -> Nat], NEW key, NEW at,
         NEW ids \in Seq(LeaseIds), ids # <<>>
  PROVE  FirstWorst(ix, key, at, ids) \in DOMAIN ids
<1>1. /\ DOMAIN ids = 1..Len(ids) /\ Len(ids) \in Nat /\ DOMAIN ids # {}
      /\ \A i \in DOMAIN ids : ids[i] \in LeaseIds
      /\ \A i \in DOMAIN ids : i \in Int
  <2>1. /\ DOMAIN ids = 1..Len(ids) /\ Len(ids) \in Nat /\ Len(ids) # 0
        /\ \A i \in 1..Len(ids) : ids[i] \in LeaseIds
    OBVIOUS
  <2>2. 1..Len(ids) # {}
    BY <2>1
  <2> QED
    BY <2>1, <2>2
<1> DEFINE keyed == [i \in DOMAIN ids |-> CandidateScore(ix, key, at, ids[i]) \o <<i>>]
<1>2. IsFiniteSet(DOMAIN ids)
  <2>1. 1 \in Int /\ Len(ids) \in Int
    BY <1>1
  <2> QED
    BY <1>1, <2>1, FS_Interval
<1>3. ASSUME NEW i \in DOMAIN ids
      PROVE  \/ keyed[i] \in [1..2 -> Int] /\ keyed[i][1] = 0
             \/ keyed[i] \in [1..6 -> Int] /\ keyed[i][1] = 1
  <2> DEFINE epochs == Epochs(ix, ids[i])
             best == BestEpoch(epochs, Len(key), at)
             warm == Warm(epochs, Len(key), at)
  <2>1. keyed[i] = (IF warm = {} THEN <<0>>
                    ELSE <<1, best.confidence, best.expires, best.through, Rank(ids[i])>>)
                     \o <<i>>
    BY DEF CandidateScore
  <2>2. CASE warm = {}
    <3>1. keyed[i] = <<0>> \o <<i>>
      BY <2>1, <2>2
    <3> HIDE DEF keyed
    <3> QED
      BY <1>1, <3>1, NoScore
  <2>3. CASE warm # {}
    <3>1. epochs \in SUBSET Epoch /\ IsFiniteSet(epochs)
      BY FS_EmptySet DEF Epochs, Leases, Evidence
    <3>2. best \in Epoch
      <4> HIDE DEF epochs
      <4> QED
        BY <2>3, <3>1, BestFacts DEF Warm
    <3>3. /\ best.confidence \in Int /\ best.expires \in Int /\ best.through \in Int
          /\ Rank(ids[i]) \in Int
      BY <1>1, <3>2, EpochFacts DEF Rank
    <3>4. keyed[i] = <<1, best.confidence, best.expires, best.through, Rank(ids[i])>> \o <<i>>
      BY <2>1, <2>3
    <3> HIDE DEF best, keyed, warm
    <3> DEFINE c == best.confidence
               e == best.expires
               t == best.through
               r == Rank(ids[i])
    <3>5. c \in Int /\ e \in Int /\ t \in Int /\ r \in Int
      BY <3>3
    <3>6. keyed[i] = <<1, c, e, t, r>> \o <<i>>
      BY <3>4
    <3> HIDE DEF c, e, t, r
    <3>7. i \in Int
      BY <1>1
    <3>8. /\ <<1, c, e, t, r>> \o <<i>> \in [1..6 -> Int]
          /\ (<<1, c, e, t, r>> \o <<i>>)[1] = 1
      BY <3>5, <3>7, FullScore
    <3> QED
      BY <3>6, <3>8
  <2> QED
    BY <2>2, <2>3
<1> HIDE DEF keyed
<1>4. Tuples(DOMAIN ids, keyed)
  <2>1. 2 \in Nat \ {0} /\ 6 \in Nat \ {0}
    OBVIOUS
  <2>2. \A i \in DOMAIN ids : Tuple(keyed[i])
    BY <1>3, <2>1 DEF Tuple
  <2>3. \A i \in DOMAIN ids : \/ DOMAIN keyed[i] = 1..2 /\ keyed[i][1] = 0
                              \/ DOMAIN keyed[i] = 1..6 /\ keyed[i][1] = 1
    BY <1>3
  <2> QED
    BY <2>2, <2>3 DEF Tuples
<1>5. \E x \in DOMAIN ids : \A y \in DOMAIN ids : ~Smaller(keyed[y], keyed[x])
  BY <1>1, <1>2, <1>4, Extremes
<1>6. (CHOOSE x \in DOMAIN ids : \A y \in DOMAIN ids : ~Smaller(keyed[y], keyed[x]))
        \in DOMAIN ids
  BY <1>5
<1>7. FirstWorst(ix, key, at, ids)
        = CHOOSE x \in DOMAIN ids : \A y \in DOMAIN ids : ~Smaller(keyed[y], keyed[x])
  BY DEF FirstWorst, Smallest, keyed
<1> QED
  BY <1>6, <1>7

\* A list stays a list, within its limit, and names nobody new but the lease.
LEMMA AddPrefixRefFacts ==
  ASSUME NEW ix, Leases(ix.leases), lease_key \in [LeaseIds -> Nat], NEW key, NEW at,
         Listing(ix.leases, key, Candidates(ix, key)),
         Len(Candidates(ix, key)) <= MaxCandidates,
         NEW id \in LeaseIds, Reaches(ix.leases, id, key)
  PROVE  /\ Listing(ix.leases, key, AddPrefixRef(ix, key, id, at))
         /\ Len(AddPrefixRef(ix, key, id, at)) \in 1..MaxCandidates
<1> DEFINE old == Candidates(ix, key)
           ids == IF id \in ToSet(old) THEN old ELSE Append(old, id)
<1>1. /\ old \in Seq(LeaseIds) /\ IsInjective(old) /\ Len(old) \in Nat
      /\ \A i \in ToSet(old) : Reaches(ix.leases, i, key)
  BY DEF Listing, ToSet
<1>2. MaxCandidates \in Nat \ {0} /\ Len(old) <= MaxCandidates
  BY LimitsAssumption
<1> HIDE DEF old
<1>3. /\ ids \in Seq(LeaseIds) /\ IsInjective(ids)
      /\ ToSet(ids) = ToSet(old) \cup {id}
      /\ Len(ids) = Len(old) \/ Len(ids) = Len(old) + 1
      /\ ids # <<>>
  <2>1. CASE id \in ToSet(old)
    <3>1. old # <<>>
      BY <2>1 DEF ToSet
    <3> QED
      BY <1>1, <2>1, <3>1
  <2>2. CASE id \notin ToSet(old)
    <3>1. /\ Append(old, id) \in Seq(LeaseIds) /\ Len(Append(old, id)) = Len(old) + 1
          /\ ToSet(Append(old, id)) = ToSet(old) \cup {id}
          /\ IsInjective(Append(old, id))
      BY <1>1, <2>2, AppendFacts
    <3>2. Append(old, id) # <<>>
      BY <1>1
    <3> QED
      BY <2>2, <3>1, <3>2
  <2> QED
    BY <2>1, <2>2
<1>4. AddPrefixRef(ix, key, id, at)
        = IF Len(ids) <= MaxCandidates THEN ids
          ELSE RemoveAt(ids, FirstWorst(ix, key, at, ids))
  BY DEF AddPrefixRef, old
<1> HIDE DEF ids
<1>5. \A i \in ToSet(ids) : Reaches(ix.leases, i, key)
  BY <1>1, <1>3
<1>6. CASE Len(ids) <= MaxCandidates
  <2>1. Len(ids) \in 1..MaxCandidates
    <3>1. Len(ids) \in Nat /\ Len(ids) # 0
      BY <1>3
    <3> QED
      BY <1>2, <1>6, <3>1
  <2> QED
    BY <1>3, <1>4, <1>5, <1>6, <2>1 DEF Listing, ToSet
<1>7. CASE ~(Len(ids) <= MaxCandidates)
  <2> DEFINE worst == FirstWorst(ix, key, at, ids)
             list == RemoveAt(ids, worst)
  <2>1. worst \in DOMAIN ids
    BY <1>3, WorstFacts
  <2> HIDE DEF worst
  <2>2. /\ list \in Seq(LeaseIds) /\ Len(list) = Len(ids) - 1
        /\ ToSet(list) \in SUBSET ToSet(ids) /\ IsInjective(list)
    BY <1>3, <2>1, RemoveAtFacts
  <2>3. Len(ids) = MaxCandidates + 1
    BY <1>1, <1>2, <1>3, <1>7
  <2>4. Len(list) = MaxCandidates
    BY <1>2, <2>2, <2>3
  <2>5. AddPrefixRef(ix, key, id, at) = list
    BY <1>4, <1>7 DEF worst
  <2> HIDE DEF list
  <2>6. \A i \in DOMAIN list : Reaches(ix.leases, list[i], key)
    BY <1>5, <2>2 DEF ToSet
  <2> QED
    BY <1>2, <2>2, <2>4, <2>5, <2>6 DEF Listing
<1> QED
  BY <1>6, <1>7

-----------------------------------------------------------------------------
(* Removing a lease.                                                       *)

\* A lease reaches no further than the checkpoints of its path.
LEMMA ReachesCheckpoint ==
  ASSUME NEW leases, Leases(leases), NEW id, NEW key, Reaches(leases, id, key)
  PROVE  key \in Checkpoints(id[2])
<1>1. id \in LeaseIds /\ Evidence(id, leases[id]) /\ key \in Upto(id[2], MaxFrontier(leases[id]))
  BY DEF Reaches, Leases
<1>2. MaxFrontier(leases[id]) \in 1..DeepestOrdinal(id[2]) /\ DeepestOrdinal(id[2]) \in Nat
  BY <1>1, EvidenceFacts, IdFacts
<1>3. Upto(id[2], MaxFrontier(leases[id])) \in SUBSET Upto(id[2], DeepestOrdinal(id[2]))
  <2>1. MaxFrontier(leases[id]) \in Nat /\ MaxFrontier(leases[id]) <= DeepestOrdinal(id[2])
    BY <1>2
  <2> QED
    BY <1>2, <2>1, UptoMonotone
<1> QED
  BY <1>1, <1>3 DEF Checkpoints

\* A lease that is removed leaves the maps agreeing and every other lease listed.
LEMMA RemoveLeaseFacts ==
  ASSUME NEW ix, Consistent(ix), NEW id \in DOMAIN ix.leases
  PROVE  /\ Consistent(RemoveLease(ix, id))
         /\ RemoveLease(ix, id).leases = Without(ix.leases, {id})
         /\ \A key : Names(RemoveLease(ix, id).prefix, key) = Names(ix.prefix, key) \ {id}
<1> DEFINE leases == Without(ix.leases, {id})
           prefix == RemoveRefs(ix.prefix, Checkpoints(id[2]), id)
           order == ix.expiry_order \ {<<LeaseExpiry(ix.leases[id]), id>>}
<1>1. RemoveLease(ix, id) = [leases |-> leases, prefix |-> prefix, expiry_order |-> order]
  BY DEF RemoveLease
<1>2. /\ Leases(ix.leases) /\ Listings(ix.leases, ix.prefix)
      /\ ix.expiry_order = Order(ix.leases)
  BY DEF Consistent
<1>3. /\ DOMAIN leases = DOMAIN ix.leases \ {id}
      /\ \A k \in DOMAIN leases : leases[k] = ix.leases[k]
      /\ Leases(leases)
  <2>1. /\ DOMAIN leases = DOMAIN ix.leases \ {id}
        /\ \A k \in DOMAIN leases : leases[k] = ix.leases[k]
    BY DEF Without
  <2> QED
    BY <1>2, <2>1, LeasesWithout
<1>4. order = Order(leases)
  <2> HIDE DEF leases
  <2> QED
    BY <1>2, <1>3 DEF Order
<1>5. ASSUME NEW key, NEW i, Reaches(ix.leases, i, key), i # id \/ key \notin Checkpoints(id[2])
      PROVE  Reaches(leases, i, key)
  <2>1. i # id
    BY <1>2, <1>5, ReachesCheckpoint
  <2> HIDE DEF leases
  <2> QED
    BY <1>3, <1>5, <2>1 DEF Reaches
<1> HIDE DEF leases
<1>6. /\ Listings(leases, prefix)
      /\ \A key : Names(prefix, key)
                    = IF key \in Checkpoints(id[2]) THEN Names(ix.prefix, key) \ {id}
                      ELSE Names(ix.prefix, key)
  <2> DEFINE keys == Checkpoints(id[2])
  <2>2. OthersReach(ix.leases, leases, keys, id)
    BY <1>5 DEF OthersReach
  <2> HIDE DEF keys
  <2>3. /\ Listings(leases, RemoveRefs(ix.prefix, keys, id))
        /\ TakenFrom(ix.prefix, RemoveRefs(ix.prefix, keys, id), keys, id)
    BY <1>2, <2>2, RemoveRefsFacts
  <2> QED
    BY <2>3 DEF TakenFrom, keys
<1>7. ASSUME NEW key
      PROVE  Names(prefix, key) = Names(ix.prefix, key) \ {id}
  <2>1. id \in Names(ix.prefix, key) => key \in Checkpoints(id[2])
    BY <1>2, ReachesCheckpoint DEF Names, Listings, Listing, ToSet
  <2> QED
    BY <1>6, <2>1
<1> HIDE DEF prefix, order
<1> QED
  BY <1>1, <1>3, <1>4, <1>6, <1>7 DEF Consistent, leases

-----------------------------------------------------------------------------
(* Making room among the leases.                                           *)

\* What an operation leaves when it drops some leases, and nothing else.
Dropped(ix, after, ids) ==
  /\ after.leases = Without(ix.leases, ids)
  /\ \A key : Names(after.prefix, key) = Names(ix.prefix, key) \ ids

\* The expiry order is as finite as the leases are,
LEMMA OrderFinite ==
  ASSUME NEW leases, IsFiniteSet(DOMAIN leases)
  PROVE  IsFiniteSet(Order(leases))
<1> DEFINE f == [id \in DOMAIN leases |-> <<LeaseExpiry(leases[id]), id>>]
<1>1. /\ f \in [DOMAIN leases -> Order(leases)]
      /\ \A x \in Order(leases) : \E id \in DOMAIN leases : f[id] = x
  BY DEF Order
<1> HIDE DEF f
<1>2. f \in Surjection(DOMAIN leases, Order(leases))
  BY <1>1, Fun_IsSurj
<1> QED
  BY <1>2, FS_Surjection

\* Without a change a record of this kind is what it was.
LEMMA SameLeases ==
  ASSUME NEW leases, Leases(leases)
  PROVE  Without(leases, {}) = leases
<1>1. leases = [id \in DOMAIN leases |-> leases[id]]
  BY DEF Leases
<1>2. DOMAIN leases \ {} = DOMAIN leases
  OBVIOUS
<1> QED
  BY <1>1, <1>2 DEF Without

\* The lease that goes is one there is, so the directory keeps its limit.
LEMMA EvictFacts ==
  ASSUME NEW ix, Consistent(ix), lease_key \in [LeaseIds -> Nat],
         Cardinality(DOMAIN ix.leases) <= MaxLeases + 1
  PROVE  /\ Consistent(EvictOldest(ix))
         /\ Cardinality(DOMAIN EvictOldest(ix).leases) <= MaxLeases
         /\ \E ids \in SUBSET DOMAIN ix.leases : Dropped(ix, EvictOldest(ix), ids)
<1> DEFINE order == ix.expiry_order
           keyed == [x \in order |-> <<x[1], Rank(x[2])>>]
           oldest == CHOOSE x \in order : \A y \in order : ~Smaller(keyed[y], keyed[x])
<1>1. /\ Leases(ix.leases) /\ order = Order(ix.leases)
      /\ DOMAIN ix.leases \in SUBSET LeaseIds /\ IsFiniteSet(DOMAIN ix.leases)
      /\ \A id \in DOMAIN ix.leases : Evidence(id, ix.leases[id])
  BY DEF Consistent, Leases
<1>2. EvictOldest(ix)
        = IF Cardinality(DOMAIN ix.leases) > MaxLeases THEN RemoveLease(ix, oldest[2]) ELSE ix
  BY DEF EvictOldest, Smallest
<1>3. MaxLeases \in Nat \ {0} /\ Cardinality(DOMAIN ix.leases) \in Nat
  BY <1>1, LimitsAssumption, FS_CardinalityType
<1>4. CASE ~(Cardinality(DOMAIN ix.leases) > MaxLeases)
  <2> HIDE DEF oldest
  <2>1. EvictOldest(ix) = ix
    BY <1>2, <1>4
  <2>2. Without(ix.leases, {}) = ix.leases
    BY <1>1, SameLeases
  <2>3. Dropped(ix, ix, {}) /\ {} \in SUBSET DOMAIN ix.leases
    BY <2>2 DEF Dropped
  <2> QED
    BY <1>3, <1>4, <2>1, <2>3
<1>5. CASE Cardinality(DOMAIN ix.leases) > MaxLeases
  <2>1. DOMAIN ix.leases # {}
    BY <1>3, <1>5, FS_EmptySet
  <2>2. order # {} /\ IsFiniteSet(order)
    BY <1>1, <2>1, OrderFinite DEF Order
  <2>3. \A x \in order : /\ x[2] \in DOMAIN ix.leases
                         /\ keyed[x] \in [1..2 -> Int]
    <3>1. ASSUME NEW x \in order
          PROVE  /\ x[2] \in DOMAIN ix.leases /\ x[1] \in Int /\ Rank(x[2]) \in Int
      <4>1. PICK id \in DOMAIN ix.leases : x = <<LeaseExpiry(ix.leases[id]), id>>
        BY <1>1 DEF Order
      <4>2. LeaseExpiry(ix.leases[id]) \in Nat
        BY <1>1, EvidenceFacts
      <4>3. x[2] = id /\ x[1] = LeaseExpiry(ix.leases[id])
        BY <4>1
      <4>4. Rank(id) \in Nat
        BY <1>1 DEF Rank
      <4> QED
        BY <4>2, <4>3, <4>4
    <3>2. \A x \in order : keyed[x] = <<x[1], Rank(x[2])>>
      OBVIOUS
    <3> HIDE DEF keyed, order
    <3> QED
      BY <3>1, <3>2
  <2>4. Tuples(order, keyed)
    <3>1. 2 \in Nat \ {0}
      OBVIOUS
    <3>2. \A x \in order : keyed[x] \in [1..2 -> Int] /\ DOMAIN keyed[x] = 1..2
      BY <2>3
    <3> HIDE DEF keyed, order
    <3> QED
      BY <3>1, <3>2 DEF Tuples, Tuple
  <2>5. \E x \in order : \A y \in order : ~Smaller(keyed[y], keyed[x])
    <3> HIDE DEF keyed, order
    <3> QED
      BY <2>2, <2>4, Extremes
  <2>6. oldest \in order
    <3> HIDE DEF keyed, order
    <3> QED
      BY <2>5
  <2> DEFINE id == oldest[2]
  <2>7. id \in DOMAIN ix.leases
    <3> HIDE DEF oldest, keyed
    <3> QED
      BY <2>3, <2>6
  <2>8. EvictOldest(ix) = RemoveLease(ix, id)
    <3> HIDE DEF oldest
    <3> QED
      BY <1>2, <1>5
  <2> HIDE DEF id
  <2>9. /\ Consistent(RemoveLease(ix, id))
        /\ RemoveLease(ix, id).leases = Without(ix.leases, {id})
        /\ \A key : Names(RemoveLease(ix, id).prefix, key) = Names(ix.prefix, key) \ {id}
    BY <2>7, RemoveLeaseFacts
  <2>10. Dropped(ix, RemoveLease(ix, id), {id}) /\ {id} \in SUBSET DOMAIN ix.leases
    BY <2>7, <2>9 DEF Dropped
  <2>11. DOMAIN RemoveLease(ix, id).leases = DOMAIN ix.leases \ {id}
    BY <2>9 DEF Without
  <2>12. Cardinality(DOMAIN ix.leases \ {id}) = Cardinality(DOMAIN ix.leases) - 1
    BY <1>1, <2>7, FS_RemoveElement
  <2> QED
    BY <1>3, <2>8, <2>9, <2>10, <2>11, <2>12
<1> QED
  BY <1>4, <1>5

-----------------------------------------------------------------------------
(* Observing evidence.                                                     *)

\* The index with the new evidence, before a lease makes room.
Added(ix, id, epoch) == WithEpochs(ix, id, Joined(Epochs(ix, id), epoch))
Listed(ix, id, epoch, at) ==
  LET covered == Upto(id[2], epoch.through)
  IN  [k \in covered \cup DOMAIN ix.prefix |->
         IF k \in covered THEN AddPrefixRef(Added(ix, id, epoch), k, id, at)
         ELSE ix.prefix[k]]
Middle(ix, id, epoch, at) ==
  [leases |-> Added(ix, id, epoch).leases, prefix |-> Listed(ix, id, epoch, at),
   expiry_order |-> Added(ix, id, epoch).expiry_order]

\* What an observation is given.
Given(ix, id, epoch) ==
  /\ Consistent(ix) /\ lease_key \in [LeaseIds -> Nat]
  /\ id \in LeaseIds /\ epoch \in Epoch /\ epoch.through \in 1..DeepestOrdinal(id[2])

\* A lease has evidence exactly if it is in the map.
LEMMA EpochsFacts ==
  ASSUME NEW ix, Leases(ix.leases), NEW id
  PROVE  /\ Evidence(id, Epochs(ix, id)) \/ Epochs(ix, id) = {}
         /\ id \in DOMAIN ix.leases <=> Evidence(id, Epochs(ix, id))
BY DEF Epochs, Leases, Evidence

\* The leases after new evidence: the one it is about has it, the others are
\* as they were.
LEMMA AddedFacts ==
  ASSUME NEW ix, NEW id, NEW epoch, Given(ix, id, epoch),
         \A e \in Epochs(ix, id) : ~Dominates(e, epoch)
  PROVE  LET joined == Joined(Epochs(ix, id), epoch)
             added == Added(ix, id, epoch)
         IN  /\ Evidence(id, joined) /\ Compact(joined) = joined
             /\ Settled(added) /\ added.prefix = ix.prefix
             /\ added.leases = With(ix.leases, id, joined)
             /\ \A key : key \in Upto(id[2], epoch.through) => Reaches(added.leases, id, key)
             /\ \A i, key : Reaches(ix.leases, i, key) => Reaches(added.leases, i, key)
             /\ \A key : Reaches(added.leases, id, key) =>
                  key \in Upto(id[2], epoch.through) \/ Reaches(ix.leases, id, key)
<1> DEFINE old == Epochs(ix, id)
           joined == Joined(old, epoch)
           added == Added(ix, id, epoch)
<1>1. /\ Settled(ix) /\ Leases(ix.leases) /\ id \in LeaseIds /\ epoch \in Epoch
      /\ epoch.through \in 1..DeepestOrdinal(id[2])
  BY DEF Given, Consistent, Settled
<1>2. Evidence(id, old) \/ old = {}
  BY <1>1, EpochsFacts
<1>3. /\ Compact(joined) = joined /\ Evidence(id, joined)
      /\ epoch.through <= MaxFrontier(joined)
      /\ Evidence(id, old) => MaxFrontier(old) <= MaxFrontier(joined)
      /\ \/ MaxFrontier(joined) = epoch.through
         \/ Evidence(id, old) /\ MaxFrontier(joined) = MaxFrontier(old)
  <2> HIDE DEF old
  <2>1. \A e \in old : ~Dominates(e, epoch)
    BY DEF old
  <2> QED
    BY <1>1, <1>2, <2>1, JoinedFacts
<1> HIDE DEF joined
<1>4. /\ Settled(added) /\ added.prefix = ix.prefix
      /\ added.leases = With(ix.leases, id, joined)
  <2>1. added = WithEpochs(ix, id, joined)
    BY DEF Added, joined
  <2> HIDE DEF added
  <2> QED
    BY <1>1, <1>3, <2>1, WithEpochsFacts
<1> HIDE DEF added
<1>5. /\ id \in DOMAIN added.leases /\ added.leases[id] = joined
      /\ DOMAIN added.leases = DOMAIN ix.leases \cup {id}
      /\ \A i \in DOMAIN ix.leases : i # id => added.leases[i] = ix.leases[i]
  <2> DEFINE leases == ix.leases
             new == With(leases, id, joined)
  <2>1. /\ DOMAIN new = DOMAIN leases \cup {id} /\ new[id] = joined
        /\ \A i \in DOMAIN leases : i # id => new[i] = leases[i]
    BY DEF With
  <2>2. added.leases = new
    BY <1>4
  <2> HIDE DEF new
  <2> QED
    BY <2>1, <2>2
<1>6. /\ epoch.through \in Nat /\ MaxFrontier(joined) \in Nat
      /\ Evidence(id, old) => MaxFrontier(old) \in Nat
  <2>1. /\ MaxFrontier(joined) \in 1..DeepestOrdinal(id[2])
        /\ Evidence(id, old) => MaxFrontier(old) \in 1..DeepestOrdinal(id[2])
    BY <1>3, EvidenceFacts
  <2>2. DeepestOrdinal(id[2]) \in Nat
    BY <1>1, IdFacts
  <2> QED
    BY <1>1, <2>1, <2>2
<1>7. id \in DOMAIN ix.leases => Evidence(id, old) /\ ix.leases[id] = old
  BY <1>1, EpochsFacts DEF Epochs
<1>8. ASSUME NEW key \in Upto(id[2], epoch.through)
      PROVE  Reaches(added.leases, id, key)
  <2>1. Upto(id[2], epoch.through) \in SUBSET Upto(id[2], MaxFrontier(joined))
    BY <1>3, <1>6, UptoMonotone
  <2> QED
    BY <1>5, <2>1 DEF Reaches
<1>9. ASSUME NEW i, NEW key, Reaches(ix.leases, i, key)
      PROVE  Reaches(added.leases, i, key)
  <2>1. CASE i # id
    BY <1>5, <1>9, <2>1 DEF Reaches
  <2>2. CASE i = id
    <3>1. Evidence(id, old) /\ key \in Upto(id[2], MaxFrontier(old))
      BY <1>7, <1>9, <2>2 DEF Reaches
    <3>2. Upto(id[2], MaxFrontier(old)) \in SUBSET Upto(id[2], MaxFrontier(joined))
      BY <1>3, <1>6, <3>1, UptoMonotone
    <3> QED
      BY <1>5, <2>2, <3>1, <3>2 DEF Reaches
  <2> QED
    BY <2>1, <2>2
<1>10. ASSUME NEW key, Reaches(added.leases, id, key)
       PROVE  key \in Upto(id[2], epoch.through) \/ Reaches(ix.leases, id, key)
  <2>1. key \in Upto(id[2], MaxFrontier(joined))
    BY <1>5, <1>10 DEF Reaches
  <2>2. CASE MaxFrontier(joined) = epoch.through
    BY <2>1, <2>2
  <2>3. CASE Evidence(id, old) /\ MaxFrontier(joined) = MaxFrontier(old)
    <3>1. id \in DOMAIN ix.leases
      BY <1>1, <2>3, EpochsFacts
    <3> QED
      BY <1>7, <2>1, <2>3, <3>1 DEF Reaches
  <2> QED
    BY <1>3, <2>2, <2>3
<1> QED
  BY <1>3, <1>4, <1>8, <1>9, <1>10 DEF joined, added

\* Between the evidence and the limit the maps agree, and only the prefixes the
\* evidence reaches have changed their lists.
LEMMA ListedFacts ==
  ASSUME NEW ix, NEW id, NEW epoch, NEW at, Given(ix, id, epoch),
         \A e \in Epochs(ix, id) : ~Dominates(e, epoch)
  PROVE  /\ Consistent(Middle(ix, id, epoch, at))
         /\ \A key : key \notin Upto(id[2], epoch.through) =>
              Names(Middle(ix, id, epoch, at).prefix, key) = Names(ix.prefix, key)
<1> DEFINE added == Added(ix, id, epoch)
           leases == added.leases
           covered == Upto(id[2], epoch.through)
           listed == Listed(ix, id, epoch, at)
<1>1. /\ Settled(added) /\ added.prefix = ix.prefix
      /\ \A key : key \in covered => Reaches(leases, id, key)
      /\ \A i, key : Reaches(ix.leases, i, key) => Reaches(leases, i, key)
  BY AddedFacts
<1>2. /\ DOMAIN listed = covered \cup DOMAIN ix.prefix
      /\ \A key \in covered : listed[key] = AddPrefixRef(added, key, id, at)
      /\ \A key \in DOMAIN ix.prefix \ covered : listed[key] = ix.prefix[key]
  <2> HIDE DEF added
  <2> QED
    BY DEF Listed, added
<1>3. /\ id \in LeaseIds /\ lease_key \in [LeaseIds -> Nat] /\ Leases(leases)
      /\ Listings(ix.leases, ix.prefix)
  BY <1>1 DEF Given, Consistent, Settled
<1> HIDE DEF added, covered, listed
<1>4. ASSUME NEW key
      PROVE  /\ Listing(leases, key, Candidates(added, key))
             /\ Len(Candidates(added, key)) <= MaxCandidates
  <2>1. MaxCandidates \in Nat
    BY LimitsAssumption
  <2>2. CASE key \in DOMAIN ix.prefix
    <3>1. /\ Listing(ix.leases, key, ix.prefix[key])
          /\ Len(ix.prefix[key]) \in 1..MaxCandidates
      BY <1>3, <2>2 DEF Listings
    <3>2. Listing(leases, key, ix.prefix[key])
      BY <1>1, <3>1, ListingKept
    <3>3. Candidates(added, key) = ix.prefix[key]
      BY <1>1, <2>2 DEF Candidates
    <3>4. Len(ix.prefix[key]) <= MaxCandidates
      BY <2>1, <3>1
    <3> QED
      BY <3>2, <3>3, <3>4
  <2>3. CASE key \notin DOMAIN ix.prefix
    <3>1. Candidates(added, key) = <<>>
      BY <1>1, <2>3 DEF Candidates
    <3>2. <<>> \in Seq(LeaseIds) /\ DOMAIN <<>> = {} /\ Len(<<>>) = 0
      OBVIOUS
    <3>3. Listing(leases, key, <<>>)
      BY <3>2 DEF Listing, IsInjective
    <3> QED
      BY <2>1, <3>1, <3>2, <3>3
  <2> QED
    BY <2>2, <2>3
<1>5. ASSUME NEW key \in DOMAIN listed
      PROVE  Listing(leases, key, listed[key]) /\ Len(listed[key]) \in 1..MaxCandidates
  <2>1. CASE key \in covered
    <3>1. Listing(leases, key, Candidates(added, key))
      BY <1>4
    <3>2. Len(Candidates(added, key)) <= MaxCandidates
      BY <1>4
    <3>3. Reaches(leases, id, key)
      BY <1>1, <2>1
    <3>4. /\ Listing(leases, key, AddPrefixRef(added, key, id, at))
          /\ Len(AddPrefixRef(added, key, id, at)) \in 1..MaxCandidates
      BY <1>3, <3>1, <3>2, <3>3, AddPrefixRefFacts
    <3> QED
      BY <1>2, <2>1, <3>4
  <2>2. CASE key \notin covered
    <3>1. key \in DOMAIN ix.prefix /\ listed[key] = ix.prefix[key]
      BY <1>2, <2>2
    <3>2. /\ Listing(ix.leases, key, ix.prefix[key])
          /\ Len(ix.prefix[key]) \in 1..MaxCandidates
      BY <1>3, <3>1 DEF Listings
    <3>3. Listing(leases, key, ix.prefix[key])
      BY <1>1, <3>2, ListingKept
    <3> QED
      BY <3>1, <3>2, <3>3
  <2> QED
    BY <2>1, <2>2
<1>6. Middle(ix, id, epoch, at)
        = [leases |-> leases, prefix |-> listed, expiry_order |-> added.expiry_order]
  BY DEF Middle, listed, added
<1>7. added.expiry_order = Order(leases)
  BY <1>1 DEF Settled
<1>8. ASSUME NEW key, key \notin covered
      PROVE  Names(listed, key) = Names(ix.prefix, key)
  BY <1>2, <1>8 DEF Names
<1> HIDE DEF leases
<1>9. Listings(leases, listed)
  BY <1>5 DEF Listings, leases
<1>10. Leases(leases) /\ added.expiry_order = Order(leases)
  BY <1>3, <1>7 DEF leases
<1>11. Consistent(Middle(ix, id, epoch, at))
  BY <1>6, <1>9, <1>10 DEF Consistent, leases
<1> QED
  BY <1>6, <1>8, <1>11 DEF covered

\* An observation is nothing, if dominated, or the evidence, the lists and the
\* limit, one after the other.
LEMMA ObservedIs ==
  ASSUME NEW ix, NEW id, NEW epoch, NEW at, Given(ix, id, epoch)
  PROVE  Observed(ix, id, epoch, at)
           = IF \E e \in Epochs(ix, id) : Dominates(e, epoch) THEN ix
             ELSE EvictOldest(Middle(ix, id, epoch, at))
<1>1. CASE \E e \in Epochs(ix, id) : Dominates(e, epoch)
  BY <1>1 DEF Observed
<1>2. CASE ~ \E e \in Epochs(ix, id) : Dominates(e, epoch)
  <2> DEFINE joined == {e \in Epochs(ix, id) : ~Dominates(epoch, e)} \cup {epoch}
             added == WithEpochs(ix, id, Compact(joined))
             covered == Upto(id[2], epoch.through)
             prefix == [k \in covered \cup DOMAIN ix.prefix |->
                          IF k \in covered THEN AddPrefixRef(added, k, id, at) ELSE ix.prefix[k]]
  <2>1. Observed(ix, id, epoch, at) = EvictOldest([added EXCEPT !.prefix = prefix])
    BY <1>2 DEF Observed
  <2>2. /\ Settled(Added(ix, id, epoch))
        /\ Compact(Joined(Epochs(ix, id), epoch)) = Joined(Epochs(ix, id), epoch)
    BY <1>2, AddedFacts
  <2>3. added = Added(ix, id, epoch)
    BY <2>2 DEF Added, Joined
  <2> HIDE DEF added
  <2>4. prefix = Listed(ix, id, epoch, at)
    BY <2>3 DEF Listed
  <2> HIDE DEF prefix
  <2>5. added = [leases |-> added.leases, prefix |-> added.prefix,
                 expiry_order |-> added.expiry_order]
    BY <2>2, <2>3 DEF Settled
  <2>6. [added EXCEPT !.prefix = prefix]
          = [leases |-> added.leases, prefix |-> prefix, expiry_order |-> added.expiry_order]
    BY <2>5
  <2>7. [added EXCEPT !.prefix = prefix] = Middle(ix, id, epoch, at)
    BY <2>3, <2>4, <2>6 DEF Middle
  <2> QED
    BY <1>2, <2>1, <2>7
<1> QED
  BY <1>1, <1>2

\* Evidence joins the leases; some may be dropped, and lists change only for
\* the prefixes it covers.
LEMMA ObservedFacts ==
  ASSUME NEW ix, NEW id, NEW epoch, NEW at, Given(ix, id, epoch),
         Cardinality(DOMAIN ix.leases) <= MaxLeases,
         \A e \in Epochs(ix, id) : ~Dominates(e, epoch)
  PROVE  LET after == Observed(ix, id, epoch, at)
         IN  /\ Consistent(after) /\ Cardinality(DOMAIN after.leases) <= MaxLeases
             /\ \E ids : /\ after.leases = Without(Added(ix, id, epoch).leases, ids)
                         /\ \A key : key \notin Upto(id[2], epoch.through) =>
                              Names(after.prefix, key) = Names(ix.prefix, key) \ ids
<1> DEFINE middle == Middle(ix, id, epoch, at)
           after == Observed(ix, id, epoch, at)
<1>1. after = EvictOldest(middle)
  BY ObservedIs
<1>2. /\ Consistent(middle)
      /\ \A key : key \notin Upto(id[2], epoch.through) =>
           Names(middle.prefix, key) = Names(ix.prefix, key)
  BY ListedFacts
<1>3. middle.leases = Added(ix, id, epoch).leases
  BY DEF Middle
<1>4. DOMAIN middle.leases = DOMAIN ix.leases \cup {id}
  <2>1. Added(ix, id, epoch).leases = With(ix.leases, id, Joined(Epochs(ix, id), epoch))
    BY AddedFacts
  <2> HIDE DEF middle
  <2> QED
    BY <1>3, <2>1 DEF With
<1>5. IsFiniteSet(DOMAIN ix.leases) /\ lease_key \in [LeaseIds -> Nat]
  BY DEF Given, Consistent, Leases
<1>6. Cardinality(DOMAIN middle.leases) <= MaxLeases + 1
  <2>1. /\ Cardinality(DOMAIN ix.leases \cup {id})
             = IF id \in DOMAIN ix.leases THEN Cardinality(DOMAIN ix.leases)
               ELSE Cardinality(DOMAIN ix.leases) + 1
        /\ Cardinality(DOMAIN ix.leases) \in Nat /\ MaxLeases \in Nat
    BY <1>5, FS_AddElement, FS_CardinalityType, LimitsAssumption
  <2> HIDE DEF middle
  <2> QED
    BY <1>4, <2>1
<1> HIDE DEF middle
<1>7. /\ Consistent(EvictOldest(middle))
      /\ Cardinality(DOMAIN EvictOldest(middle).leases) <= MaxLeases
      /\ \E ids \in SUBSET DOMAIN middle.leases : Dropped(middle, EvictOldest(middle), ids)
  BY <1>2, <1>5, <1>6, EvictFacts
<1> HIDE DEF after
<1>8. PICK ids : Dropped(middle, after, ids)
  BY <1>1, <1>7
<1>9. /\ after.leases = Without(Added(ix, id, epoch).leases, ids)
      /\ \A key : key \notin Upto(id[2], epoch.through) =>
           Names(after.prefix, key) = Names(ix.prefix, key) \ ids
  BY <1>2, <1>3, <1>8 DEF Dropped
<1> QED
  BY <1>1, <1>7, <1>9 DEF after

-----------------------------------------------------------------------------
(* Expiring evidence.                                                      *)

Current(epochs, at) == {e \in epochs : e.expires > at}

\* What is left when the evidence of some leases expires.
Expired(ix, after, ids, at) ==
  /\ Consistent(after)
  /\ DOMAIN after.leases
       = {i \in DOMAIN ix.leases : i \in ids => Current(ix.leases[i], at) # {}}
  /\ \A i \in DOMAIN after.leases :
       after.leases[i] = IF i \in ids THEN Current(ix.leases[i], at) ELSE ix.leases[i]
  /\ \A key, i : Reaches(after.leases, i, key) /\ i \in Names(ix.prefix, key)
                   => i \in Names(after.prefix, key)

\* With less evidence a lease reaches no other prefixes.
LEMMA ReachShrinks ==
  ASSUME NEW leases, NEW before, Leases(leases), Leases(before),
         NEW id \in DOMAIN leases, id \in DOMAIN before, leases[id] \in SUBSET before[id],
         NEW key, Reaches(leases, id, key)
  PROVE  Reaches(before, id, key)
<1>1. /\ Evidence(id, leases[id]) /\ Evidence(id, before[id])
      /\ key \in Upto(id[2], MaxFrontier(leases[id]))
  BY DEF Leases, Reaches
<1>2. /\ MaxFrontier(leases[id]) <= MaxFrontier(before[id])
      /\ MaxFrontier(leases[id]) \in Nat /\ MaxFrontier(before[id]) \in Nat
  <2>1. PICK e \in leases[id] : MaxFrontier(leases[id]) = e.through
    BY <1>1, EvidenceFacts
  <2>2. /\ e \in before[id] /\ e.through <= MaxFrontier(before[id]) /\ e \in Epoch
    BY <1>1, <2>1, EvidenceFacts
  <2>3. PICK f \in before[id] : MaxFrontier(before[id]) = f.through
    BY <1>1, EvidenceFacts
  <2>4. f \in Epoch
    BY <1>1, <2>3, EvidenceFacts
  <2> QED
    BY <2>1, <2>2, <2>3, <2>4, EpochFacts
<1>3. Upto(id[2], MaxFrontier(leases[id])) \in SUBSET Upto(id[2], MaxFrontier(before[id]))
  BY <1>2, UptoMonotone
<1> QED
  BY <1>1, <1>3 DEF Reaches

\* Expiring one lease drops the evidence that has run out, and nothing else.
LEMMA ExpireLeaseFacts ==
  ASSUME NEW ix, Consistent(ix), NEW id \in DOMAIN ix.leases, NEW at
  PROVE  Expired(ix, ExpireLease(ix, id, at), {id}, at)
<1> DEFINE old == ix.leases[id]
           kept == Current(old, at)
           after == ExpireLease(ix, id, at)
<1>1. /\ Leases(ix.leases) /\ Listings(ix.leases, ix.prefix) /\ Settled(ix)
      /\ Evidence(id, old) /\ id \in LeaseIds
  BY DEF Consistent, Settled, Leases
<1>2. CASE kept = {}
  <2>1. after = RemoveLease(ix, id)
    <3>1. kept # old
      BY <1>1, <1>2 DEF Evidence
    <3> QED
      BY <1>2, <3>1 DEF ExpireLease, Current
  <2>2. /\ Consistent(after) /\ after.leases = Without(ix.leases, {id})
        /\ \A key : Names(after.prefix, key) = Names(ix.prefix, key) \ {id}
    <3> HIDE DEF after
    <3> QED
      BY <2>1, RemoveLeaseFacts
  <2> HIDE DEF after
  <2>3. /\ DOMAIN after.leases = DOMAIN ix.leases \ {id}
        /\ \A i \in DOMAIN after.leases : after.leases[i] = ix.leases[i]
    BY <2>2 DEF Without
  <2>4. \A key, i : Reaches(after.leases, i, key) /\ i \in Names(ix.prefix, key)
                      => i \in Names(after.prefix, key)
    BY <2>2, <2>3 DEF Reaches
  <2>5. DOMAIN after.leases
          = {i \in DOMAIN ix.leases : i \in {id} => Current(ix.leases[i], at) # {}}
    BY <1>2, <2>3
  <2>6. \A i \in DOMAIN after.leases :
          after.leases[i] = IF i \in {id} THEN Current(ix.leases[i], at) ELSE ix.leases[i]
    BY <2>3
  <2> QED
    BY <2>2, <2>4, <2>5, <2>6 DEF Expired, after
<1>3. CASE kept = old
  <2>1. after = ix
    <3>1. kept # {}
      BY <1>1, <1>3 DEF Evidence
    <3> QED
      BY <1>3, <3>1 DEF ExpireLease, Current
  <2> HIDE DEF after
  <2>2. kept # {}
    BY <1>1, <1>3 DEF Evidence
  <2>3. /\ \A i \in DOMAIN ix.leases : i \in {id} => Current(ix.leases[i], at) # {}
        /\ \A i \in DOMAIN ix.leases :
             ix.leases[i] = IF i \in {id} THEN Current(ix.leases[i], at) ELSE ix.leases[i]
    BY <1>3, <2>2
  <2> QED
    BY <2>1, <2>3 DEF Expired, after
<1>4. CASE kept # {} /\ kept # old
  <2> DEFINE beyond == Checkpoints(id[2]) \ Upto(id[2], MaxFrontier(kept))
             with == WithEpochs(ix, id, kept)
             leases == With(ix.leases, id, kept)
             prefix == RemoveRefs(ix.prefix, beyond, id)
  <2>1. Evidence(id, kept) /\ Compact(kept) = kept
    <3>1. /\ old \in SUBSET Epoch /\ IsFiniteSet(old)
          /\ \A c, d \in old : Dominates(d, c) => c = d
          /\ \A e \in old : e.through \in 1..DeepestOrdinal(id[2])
      BY <1>1, EvidenceFacts
    <3>2. kept \in SUBSET old
      BY DEF Current
    <3>3. IsFiniteSet(kept)
      BY <3>1, <3>2, FS_Subset
    <3> HIDE DEF kept
    <3> QED
      BY <1>4, <3>1, <3>2, <3>3, EvidenceIs
  <2>2. /\ Settled(with) /\ with.leases = leases /\ with.prefix = ix.prefix
    <3> HIDE DEF kept
    <3> QED
      BY <1>1, <2>1, WithEpochsFacts
  <2>3. after = [with EXCEPT !.prefix = prefix]
    <3>1. after = [with EXCEPT !.prefix = RemoveRefs(@, beyond, id)]
      BY <1>4, <2>1 DEF ExpireLease, Current
    <3> HIDE DEF with, after, beyond
    <3>2. with = [leases |-> with.leases, prefix |-> with.prefix,
                  expiry_order |-> with.expiry_order]
      BY <2>2 DEF Settled
    <3>3. [with EXCEPT !.prefix = RemoveRefs(@, beyond, id)]
            = [with EXCEPT !.prefix = RemoveRefs(with.prefix, beyond, id)]
      BY <3>2
    <3> QED
      BY <2>2, <3>1, <3>3
  <2>4. /\ DOMAIN leases = DOMAIN ix.leases /\ leases[id] = kept
        /\ \A i \in DOMAIN ix.leases : i # id => leases[i] = ix.leases[i]
    <3> HIDE DEF kept
    <3> QED
      BY DEF With
  <2> HIDE DEF with, after, prefix, leases
  <2>5. after = [leases |-> leases, prefix |-> prefix, expiry_order |-> with.expiry_order]
    BY <2>2, <2>3 DEF Settled
  <2>6. OthersReach(ix.leases, leases, beyond, id)
    <3> SUFFICES ASSUME NEW key, NEW i, Reaches(ix.leases, i, key), i # id \/ key \notin beyond
                 PROVE  Reaches(leases, i, key)
      BY DEF OthersReach
    <3>1. CASE i # id
      BY <2>4, <3>1 DEF Reaches
    <3>2. CASE i = id
      <4>1. key \in Checkpoints(id[2])
        BY <1>1, <3>2, ReachesCheckpoint
      <4>2. key \in Upto(id[2], MaxFrontier(kept))
        BY <3>2, <4>1
      <4> HIDE DEF kept
      <4> QED
        BY <2>4, <3>2, <4>2 DEF Reaches
    <3> QED
      BY <3>1, <3>2
  <2>7. /\ Listings(leases, prefix)
        /\ \A key : Names(prefix, key)
                      = IF key \in beyond THEN Names(ix.prefix, key) \ {id}
                        ELSE Names(ix.prefix, key)
    <3> HIDE DEF old, kept, beyond
    <3>1. Listings(ix.leases, ix.prefix) /\ OthersReach(ix.leases, leases, beyond, id)
      BY <1>1, <2>6
    <3>2. /\ Listings(leases, RemoveRefs(ix.prefix, beyond, id))
          /\ TakenFrom(ix.prefix, RemoveRefs(ix.prefix, beyond, id), beyond, id)
      BY <3>1, RemoveRefsFacts
    <3> QED
      BY <3>2 DEF TakenFrom, prefix
  <2>8. Consistent(after)
    BY <2>2, <2>5, <2>7 DEF Settled, Consistent
  <2>9. ASSUME NEW key, NEW i, Reaches(leases, i, key), i \in Names(ix.prefix, key)
        PROVE  i \in Names(prefix, key)
    <3>1. i = id => key \notin beyond
      <4> HIDE DEF kept
      <4> QED
        BY <2>4, <2>9 DEF Reaches
    <3> HIDE DEF beyond
    <3> QED
      BY <2>7, <2>9, <3>1
  <2>10. after.leases = leases /\ after.prefix = prefix
    BY <2>5
  <2>11. DOMAIN leases
           = {i \in DOMAIN ix.leases : i \in {id} => Current(ix.leases[i], at) # {}}
    BY <1>4, <2>4
  <2>12. \A i \in DOMAIN leases :
           leases[i] = IF i \in {id} THEN Current(ix.leases[i], at) ELSE ix.leases[i]
    BY <2>4
  <2> HIDE DEF kept, beyond
  <2> QED
    BY <2>8, <2>9, <2>10, <2>11, <2>12 DEF Expired, after
<1> QED
  BY <1>2, <1>3, <1>4

\* What the fold over the leases asks of the function of subsets it defines.
One(s) == CHOOSE x \in s : TRUE
StepOf(fold, ix, at, s) ==
  IF s = {} THEN ix ELSE ExpireLease(fold[s \ {One(s)}], One(s), at)
FoldsOn(fold, ix, at, S) == fold = [s \in SUBSET S |-> StepOf(fold, ix, at, s)]
Folded(ix, at, S) == FoldSet(LAMBDA id, x : ExpireLease(x, id, at), ix, S)

\* A fold over leases is the function its definition describes.
LEMMA FoldedIsChosen ==
  ASSUME NEW ix, NEW at, NEW S
  PROVE  Folded(ix, at, S) = (CHOOSE fold : FoldsOn(fold, ix, at, S))[S]
BY DEF Folded, FoldSet, MapThenFoldSet, FoldsOn, StepOf, One

\* One function only does so.
LEMMA FoldedIs ==
  ASSUME NEW ix, NEW at, NEW S, IsFiniteSet(S), NEW fold, FoldsOn(fold, ix, at, S)
  PROVE  Folded(ix, at, S) = fold[S]
<1> DEFINE chosen == CHOOSE other : FoldsOn(other, ix, at, S)
           Wrong == {s \in SUBSET S : chosen[s] # fold[s]}
<1>1. FoldsOn(chosen, ix, at, S)
  OBVIOUS
<1>2. Folded(ix, at, S) = chosen[S]
  BY FoldedIsChosen
<1> HIDE DEF chosen
<1>3. \A s \in SUBSET S :
        chosen[s] = StepOf(chosen, ix, at, s) /\ fold[s] = StepOf(fold, ix, at, s)
  BY <1>1 DEF FoldsOn
<1>4. ASSUME Wrong # {}
      PROVE  FALSE
  <2>1. PICK s \in Wrong : \A t \in SUBSET s : t # s => t \notin Wrong
    <3>1. Wrong \in SUBSET (SUBSET S)
      OBVIOUS
    <3> HIDE DEF Wrong
    <3> QED
      BY <3>1, <1>4, LeastSet
  <2>2. s # {}
    BY <1>3, <2>1 DEF StepOf
  <2>3. One(s) \in s
    BY <2>2 DEF One
  <2>4. chosen[s \ {One(s)}] = fold[s \ {One(s)}]
    BY <2>1, <2>3
  <2>5. chosen[s] = fold[s]
    BY <1>3, <2>1, <2>2, <2>4 DEF StepOf
  <2> QED
    BY <2>1, <2>5
<1> QED
  BY <1>2, <1>4

\* So the fold expires one of the leases after all the others.
Peeled(ix, at, s) ==
  IF s = {} THEN ix ELSE ExpireLease(Folded(ix, at, s \ {One(s)}), One(s), at)

\* Every fold over finitely many leases takes one lease after another.
LEMMA FoldedPeels ==
  ASSUME NEW ix, NEW at, NEW S, IsFiniteSet(S)
  PROVE  Folded(ix, at, S) = Peeled(ix, at, S)
<1> DEFINE Wrong == {s \in SUBSET S : Folded(ix, at, s) # Peeled(ix, at, s)}
<1>1. ASSUME Wrong # {}
      PROVE  FALSE
  <2>1. PICK s \in Wrong :
          IsFiniteSet(s) /\ \A t \in SUBSET s : t # s => t \notin Wrong
    <3>1. Wrong \in SUBSET (SUBSET S)
      OBVIOUS
    <3> HIDE DEF Wrong
    <3> QED
      BY <3>1, <1>1, LeastSet
  <2> DEFINE fold == [t \in SUBSET s |-> IF t = s THEN Peeled(ix, at, s)
                                         ELSE Folded(ix, at, t)]
  <2>2. ASSUME NEW t \in SUBSET s
        PROVE  fold[t] = StepOf(fold, ix, at, t)
    <3>1. fold[t] = Peeled(ix, at, t)
      BY <2>1
    <3>2. t # {} => One(t) \in t
      BY DEF One
    <3>3. t # {} => fold[t \ {One(t)}] = Folded(ix, at, t \ {One(t)})
      BY <3>2
    <3> QED
      BY <3>1, <3>3 DEF Peeled, StepOf
  <2>3. FoldsOn(fold, ix, at, s)
    BY <2>2 DEF FoldsOn
  <2>4. Folded(ix, at, s) = fold[s]
    BY <2>1, <2>3, FoldedIs
  <2> QED
    BY <2>1, <2>4
<1> QED
  BY <1>1

\* The evidence of all of them expires.
LEMMA FoldedFacts ==
  ASSUME NEW ix, Consistent(ix), NEW at
  PROVE  Expired(ix, Folded(ix, at, DOMAIN ix.leases), DOMAIN ix.leases, at)
<1> DEFINE S == DOMAIN ix.leases
           Wrong == {s \in SUBSET S : ~Expired(ix, Folded(ix, at, s), s, at)}
<1>1. IsFiniteSet(S)
  BY DEF Consistent, Leases
<1>2. ASSUME Wrong # {}
      PROVE  FALSE
  <2>1. PICK s \in Wrong : IsFiniteSet(s) /\ \A t \in SUBSET s : t # s => t \notin Wrong
    <3>1. Wrong \in SUBSET (SUBSET S)
      OBVIOUS
    <3> HIDE DEF Wrong, S
    <3> QED
      BY <1>1, <1>2, <3>1, LeastSet
  <2>2. Folded(ix, at, s) = Peeled(ix, at, s)
    BY <2>1, FoldedPeels
  <2>3. CASE s = {}
    <3>1. Folded(ix, at, s) = ix
      BY <2>2, <2>3 DEF Peeled
    <3>2. Expired(ix, ix, {}, at)
      BY DEF Expired
    <3> QED
      BY <2>1, <2>3, <3>1, <3>2
  <2>4. CASE s # {}
    <3> DEFINE id == One(s)
               rest == s \ {id}
               middle == Folded(ix, at, rest)
               after == Folded(ix, at, s)
    <3>1. id \in s /\ id \in S /\ s = rest \cup {id} /\ id \notin rest /\ rest \in SUBSET S
      BY <2>1, <2>4 DEF One
    <3>2. after = ExpireLease(middle, id, at)
      BY <2>2, <2>4 DEF Peeled
    <3>3. Expired(ix, middle, rest, at)
      BY <2>1, <3>1
    <3> HIDE DEF id, rest, middle, after
    <3>4. /\ Consistent(middle) /\ id \in DOMAIN middle.leases
          /\ middle.leases[id] = ix.leases[id]
      BY <3>1, <3>3 DEF Expired
    <3>5. Expired(middle, after, {id}, at)
      BY <3>2, <3>4, ExpireLeaseFacts
    <3>6. Consistent(after)
      BY <3>5 DEF Expired
    <3>7. DOMAIN after.leases = {i \in S : i \in s => Current(ix.leases[i], at) # {}}
      <4>1. /\ DOMAIN middle.leases
                 = {i \in DOMAIN ix.leases : i \in rest => Current(ix.leases[i], at) # {}}
            /\ DOMAIN after.leases
                 = {i \in DOMAIN middle.leases :
                      i \in {id} => Current(middle.leases[i], at) # {}}
        BY <3>3, <3>5 DEF Expired
      <4> QED
        BY <3>1, <3>4, <4>1
    <3>8. \A i \in DOMAIN after.leases :
            after.leases[i] = IF i \in s THEN Current(ix.leases[i], at) ELSE ix.leases[i]
      <4>1. /\ \A i \in DOMAIN middle.leases :
                 middle.leases[i]
                   = IF i \in rest THEN Current(ix.leases[i], at) ELSE ix.leases[i]
            /\ \A i \in DOMAIN after.leases :
                 after.leases[i]
                   = IF i \in {id} THEN Current(middle.leases[i], at) ELSE middle.leases[i]
            /\ DOMAIN after.leases \in SUBSET DOMAIN middle.leases
        BY <3>3, <3>5 DEF Expired
      <4> QED
        BY <3>1, <3>4, <4>1
    <3>9. ASSUME NEW key, NEW i, Reaches(after.leases, i, key), i \in Names(ix.prefix, key)
          PROVE  i \in Names(after.prefix, key)
      <4>1. Reaches(middle.leases, i, key)
        <5>1. /\ i \in DOMAIN after.leases /\ i \in DOMAIN middle.leases
              /\ Leases(middle.leases) /\ Leases(after.leases)
              /\ after.leases[i]
                   = IF i \in {id} THEN Current(middle.leases[i], at) ELSE middle.leases[i]
              /\ key \in Upto(i[2], MaxFrontier(after.leases[i]))
          BY <3>5, <3>6, <3>4, <3>9 DEF Expired, Reaches, Consistent
        <5>3. after.leases[i] \in SUBSET middle.leases[i]
          BY <5>1 DEF Current
        <5> QED
          BY <3>9, <5>1, <5>3, ReachShrinks
      <4>2. i \in Names(middle.prefix, key)
        BY <3>3, <3>9, <4>1 DEF Expired
      <4> QED
        BY <3>5, <3>9, <4>2 DEF Expired
    <3>10. Expired(ix, after, s, at)
      BY <3>6, <3>7, <3>8, <3>9 DEF Expired
    <3> QED
      BY <2>1, <3>10 DEF after
  <2> QED
    BY <2>3, <2>4
<1> QED
  BY <1>2

-----------------------------------------------------------------------------
(* The steps.                                                              *)

\* A claim is that of some lease's evidence.
LEMMA ClaimsFacts ==
  ASSUME NEW leases, NEW c
  PROVE  c \in Claims(leases) <=> \E id \in DOMAIN leases : \E e \in leases[id] : c = Claim(id, e)
BY DEF Claims

\* What a claim says, the evidence it is about says.
LEMMA ClaimSays ==
  /\ \A i, e : Claim(i, e).id = i /\ Claim(i, e).expires = e.expires
  /\ \A i, d, j, e : SaysAsMuch(Claim(i, d), Claim(j, e)) <=> i = j /\ Dominates(d, e)
BY DEF Claim, SaysAsMuch, Dominates

\* The moments a call may have read are times.
LEMMA TimesFacts ==
  ASSUME IInv, NEW at \in ReadTimes
  PROVE  at \in Nat
<1>1. now \in Nat /\ Lag \in Nat
  BY BoundsAssumption DEF IInv, TypeOK
<1> QED
  BY <1>1 DEF ReadTimes

\* The key orders the leases by numbers.
LEMMA KeyFacts ==
  ASSUME lease_key \in HashOrders
  PROVE  lease_key \in [LeaseIds -> Nat]
BY OrdersAssumption

\* The empty index agrees with itself.
LEMMA EmptyFacts ==
  /\ Consistent(EmptyIndex) /\ EmptyIndex.leases = <<>> /\ DOMAIN EmptyIndex.leases = {}
  /\ Cardinality(DOMAIN EmptyIndex.leases) <= MaxLeases
<1>1. /\ EmptyIndex.leases = <<>> /\ EmptyIndex.prefix = <<>>
      /\ EmptyIndex.expiry_order = {} /\ DOMAIN <<>> = {}
      /\ EmptyIndex = [leases |-> EmptyIndex.leases, prefix |-> EmptyIndex.prefix,
                       expiry_order |-> EmptyIndex.expiry_order]
  BY DEF EmptyIndex
<1>2. Leases(<<>>)
  <2>1. <<>> = [id \in DOMAIN <<>> |-> <<>>[id]]
    OBVIOUS
  <2> QED
    BY <1>1, <2>1, FS_EmptySet DEF Leases
<1>3. Listings(<<>>, <<>>) /\ Order(<<>>) = {}
  BY <1>1 DEF Listings, Order
<1>4. Cardinality({}) = 0 /\ MaxLeases \in Nat
  BY FS_EmptySet, LimitsAssumption
<1> QED
  BY <1>1, <1>2, <1>3, <1>4 DEF Consistent

\* What the history keeps is the evidence the index keeps.
LEMMA ObserveSeen ==
  ASSUME IInv, NEW id, NEW epoch, NEW at, Given(index, id, epoch), Observe(id, epoch, at)
  PROVE  seen' = Claims(index'.leases)
<1> DEFINE claim == Claim(id, epoch)
           old == Epochs(index, id)
<1>1. /\ index' = Observed(index, id, epoch, at) /\ seen' = Kept(WithClaim(claim))
      /\ seen = Claims(index.leases) /\ Leases(index.leases)
      /\ Cardinality(DOMAIN index.leases) <= MaxLeases
  BY DEF Observe, IInv, TypeOK, Consistent, Claim
<1>2. \A c \in seen : \E i \in DOMAIN index.leases : \E e \in index.leases[i] : c = Claim(i, e)
  BY <1>1, ClaimsFacts
<1>3. CASE \E e \in old : Dominates(e, epoch)
  <2>1. index' = index
    BY <1>1, <1>3, ObservedIs
  <2>2. PICK e \in old : Dominates(e, epoch)
    BY <1>3
  <2>3. id \in DOMAIN index.leases /\ e \in index.leases[id]
    BY <2>2 DEF Epochs
  <2>4. Claim(id, e) \in seen
    BY <1>1, <2>3, ClaimsFacts
  <2>5. SaysAsMuch(Claim(id, e), claim)
    BY <2>2, ClaimSays
  <2>6. WithClaim(claim) = seen
    BY <2>4, <2>5 DEF WithClaim
  <2>7. Kept(seen) = seen
    <3>1. \A c \in seen : c.id \in DOMAIN index'.leases
      BY <1>2, <2>1, ClaimSays
    <3> QED
      BY <3>1 DEF Kept
  <2> QED
    BY <1>1, <2>1, <2>6, <2>7
<1>4. CASE ~ \E e \in old : Dominates(e, epoch)
  <2> DEFINE leases == Added(index, id, epoch).leases
             joined == Joined(old, epoch)
  <2>1. PICK ids : index'.leases = Without(leases, ids)
    BY <1>1, <1>4, ObservedFacts
  <2>2. leases = With(index.leases, id, joined)
    BY <1>4, AddedFacts
  <2> HIDE DEF leases, joined
  <2>3. /\ DOMAIN leases = DOMAIN index.leases \cup {id} /\ leases[id] = joined
        /\ \A i \in DOMAIN index.leases : i # id => leases[i] = index.leases[i]
    BY <2>2 DEF With
  <2>4. /\ DOMAIN index'.leases = DOMAIN leases \ ids
        /\ \A i \in DOMAIN index'.leases : index'.leases[i] = leases[i]
    BY <2>1 DEF Without
  <2>5. \A e \in old : id \in DOMAIN index.leases /\ e \in index.leases[id]
    BY DEF Epochs
  <2>6. id \in DOMAIN index.leases => old = index.leases[id]
    BY DEF Epochs
  <2>7. WithClaim(claim) = {c \in seen : ~SaysAsMuch(claim, c)} \cup {claim}
    <3>1. ASSUME NEW c \in seen, SaysAsMuch(c, claim)
          PROVE  FALSE
      <4>1. PICK i \in DOMAIN index.leases : \E e \in index.leases[i] : c = Claim(i, e)
        BY <1>2
      <4>2. PICK e \in index.leases[i] : c = Claim(i, e)
        BY <4>1
      <4>3. i = id /\ Dominates(e, epoch)
        BY <3>1, <4>2, ClaimSays
      <4> QED
        BY <1>4, <2>6, <4>3
    <3> QED
      BY <3>1 DEF WithClaim
  <2> HIDE DEF claim, old
  <2>8. ASSUME NEW c \in seen'
        PROVE  c \in Claims(index'.leases)
    <3>1. c.id \in DOMAIN index'.leases /\ (c = claim \/ (c \in seen /\ ~SaysAsMuch(claim, c)))
      <4> DEFINE claims == WithClaim(claim)
      <4>1. seen' = Kept(claims)
        BY <1>1
      <4> HIDE DEF claims
      <4>4. seen' = {x \in claims : x.id \in DOMAIN index'.leases}
        BY <4>1 DEF Kept
      <4>2. c \in claims /\ c.id \in DOMAIN index'.leases
        BY <2>8, <4>4
      <4>3. c = claim \/ (c \in seen /\ ~SaysAsMuch(claim, c))
        BY <2>7, <4>2 DEF claims
      <4> QED
        BY <4>2, <4>3
    <3>2. CASE c = claim
      <4>1. c.id = id /\ epoch \in joined
        BY <3>2, ClaimSays DEF claim, joined, Joined
      <4>2. epoch \in index'.leases[id]
        BY <2>3, <2>4, <3>1, <4>1
      <4> QED
        BY <3>1, <3>2, <4>1, <4>2, ClaimsFacts DEF claim
    <3>3. CASE c \in seen /\ ~SaysAsMuch(claim, c)
      <4>1. PICK i \in DOMAIN index.leases : \E e \in index.leases[i] : c = Claim(i, e)
        BY <1>2, <3>3
      <4>2. PICK e \in index.leases[i] : c = Claim(i, e)
        BY <4>1
      <4>3. c.id = i
        BY <4>2, ClaimSays
      <4>4. e \in index'.leases[i]
        <5>1. CASE i # id
          BY <2>3, <2>4, <3>1, <4>3, <5>1
        <5>2. CASE i = id
          <6>1. ~Dominates(epoch, e)
            BY <3>3, <4>2, <5>2, ClaimSays DEF claim
          <6>2. e \in joined
            BY <2>6, <5>2, <6>1 DEF joined, Joined
          <6> QED
            BY <2>3, <2>4, <3>1, <4>3, <5>2, <6>2
        <5> QED
          BY <5>1, <5>2
      <4> QED
        BY <3>1, <4>2, <4>3, <4>4, ClaimsFacts
    <3> QED
      BY <3>1, <3>2, <3>3
  <2>9. ASSUME NEW c \in Claims(index'.leases)
        PROVE  c \in seen'
    <3>1. PICK i \in DOMAIN index'.leases : \E e \in index'.leases[i] : c = Claim(i, e)
      BY <2>9, ClaimsFacts
    <3>2. PICK e \in index'.leases[i] : c = Claim(i, e)
      BY <3>1
    <3>3. c.id \in DOMAIN index'.leases
      BY <3>1, <3>2, ClaimSays
    <3>4. CASE i # id
      <4>1. i \in DOMAIN index.leases /\ e \in index.leases[i]
        BY <2>3, <2>4, <3>1, <3>2, <3>4
      <4>2. c \in seen
        BY <1>1, <3>2, <4>1, ClaimsFacts
      <4>3. ~SaysAsMuch(claim, c)
        BY <3>2, <3>4, ClaimSays DEF claim
      <4> QED
        BY <1>1, <2>7, <3>3, <4>2, <4>3 DEF Kept
    <3>5. CASE i = id
      <4>1. e \in joined
        BY <2>3, <2>4, <3>1, <3>2, <3>5
      <4>2. CASE e = epoch
        <5>1. c = claim
          BY <3>2, <3>5, <4>2 DEF claim
        <5> QED
          BY <1>1, <2>7, <3>3, <5>1 DEF Kept
      <4>3. CASE e \in old /\ ~Dominates(epoch, e)
        <5>1. c \in seen
          BY <1>1, <2>5, <3>2, <3>5, <4>3, ClaimsFacts
        <5>2. ~SaysAsMuch(claim, c)
          BY <3>2, <3>5, <4>3, ClaimSays DEF claim
        <5> QED
          BY <1>1, <2>7, <3>3, <5>1, <5>2 DEF Kept
      <4> QED
        BY <4>1, <4>2, <4>3 DEF joined, Joined
    <3> QED
      BY <3>4, <3>5
  <2> QED
    BY <2>8, <2>9
<1> QED
  BY <1>3, <1>4

\* What an observation takes from a list is known to have made room.
LEMMA ObserveFindable ==
  ASSUME IInv, NEW id, NEW epoch, NEW at, Given(index, id, epoch), Observe(id, epoch, at)
  PROVE  Findable'
<1> DEFINE covered == Upto(id[2], epoch.through)
           relists == IF index' = index THEN {} ELSE covered \X {id}
<1>1. /\ index' = Observed(index, id, epoch, at)
      /\ crowded' = {c \in (crowded \ relists) \cup MadeRoom(index', id, covered) :
                       c[2] \in DOMAIN index'.leases}
      /\ Leases(index.leases) /\ Cardinality(DOMAIN index.leases) <= MaxLeases
      /\ Findable
  BY DEF Observe, IInv, TypeOK, Consistent
<1> HIDE DEF covered
<1>2. \A i, key : Reaches(index.leases, i, key) =>
        i \in Names(index.prefix, key) \/ <<key, i>> \in crowded
  BY <1>1, NamesAreCandidates DEF Findable, Reaches
<1>3. ASSUME NEW i, NEW key, Reaches(index'.leases, i, key)
      PROVE  i \in Names(index'.prefix, key) \/ <<key, i>> \in crowded'
  <2>1. i \in DOMAIN index'.leases
    BY <1>3 DEF Reaches
  <2>2. CASE \E e \in Epochs(index, id) : Dominates(e, epoch)
    <3>1. index' = index
      BY <1>1, <2>2, ObservedIs
    <3>2. i \in Names(index.prefix, key) \/ <<key, i>> \in crowded
      BY <1>2, <1>3, <3>1
    <3> QED
      BY <1>1, <2>1, <3>1, <3>2
  <2>3. CASE ~ \E e \in Epochs(index, id) : Dominates(e, epoch)
    <3> DEFINE leases == Added(index, id, epoch).leases
               joined == Joined(Epochs(index, id), epoch)
    <3>1. PICK ids : /\ index'.leases = Without(leases, ids)
                     /\ \A k : k \notin covered =>
                          Names(index'.prefix, k) = Names(index.prefix, k) \ ids
      BY <1>1, <2>3, ObservedFacts DEF covered
    <3>2. /\ leases = With(index.leases, id, joined)
          /\ \A k : Reaches(leases, id, k) => k \in covered \/ Reaches(index.leases, id, k)
      BY <2>3, AddedFacts DEF covered
    <3> HIDE DEF leases, joined
    <3>3. /\ DOMAIN leases = DOMAIN index.leases \cup {id}
          /\ \A j \in DOMAIN index.leases : j # id => leases[j] = index.leases[j]
          /\ DOMAIN index'.leases = DOMAIN leases \ ids
          /\ \A j \in DOMAIN index'.leases : index'.leases[j] = leases[j]
      BY <3>1, <3>2 DEF With, Without
    <3>4. /\ i \in DOMAIN leases /\ i \notin ids /\ Reaches(leases, i, key)
          /\ i \in DOMAIN index.leases \cup {id}
      BY <1>3, <2>1, <3>3 DEF Reaches
    <3>5. i # id => Reaches(index.leases, i, key)
      BY <3>3, <3>4 DEF Reaches
    <3>6. CASE key \in covered
      <4>1. i = id \/ i \in Names(index.prefix, key) \/ <<key, i>> \in crowded \ relists
        BY <1>2, <3>5
      <4>2. CASE <<key, i>> \in crowded \ relists
        BY <1>1, <2>1, <4>2
      <4>3. CASE (i = id \/ i \in Names(index.prefix, key)) /\ i \notin Names(index'.prefix, key)
        <5>1. /\ i \in ToSet(Candidates(index, key)) <=> i \in Names(index.prefix, key)
              /\ i \notin ToSet(Candidates(index', key))
          BY <4>3, NamesAreCandidates
        <5>2. <<key, i>> \in MadeRoom(index', id, covered)
          BY <3>4, <3>6, <4>3, <5>1 DEF MadeRoom
        <5> QED
          BY <1>1, <2>1, <5>2
      <4> QED
        BY <4>1, <4>2, <4>3
    <3>7. CASE key \notin covered
      <4>1. Reaches(index.leases, i, key)
        BY <3>2, <3>4, <3>5, <3>7
      <4>2. i \in Names(index.prefix, key) \/ <<key, i>> \in crowded
        BY <1>2, <4>1
      <4>3. i \in Names(index.prefix, key) => i \in Names(index'.prefix, key)
        BY <3>1, <3>4, <3>7
      <4>4. <<key, i>> \in crowded => <<key, i>> \in crowded'
        BY <1>1, <2>1, <3>7
      <4> QED
        BY <4>2, <4>3, <4>4
    <3> QED
      BY <3>6, <3>7
  <2> QED
    BY <2>2, <2>3
<1> QED
  BY <1>3, NamesAreCandidates DEF Findable, Reaches

\* observe keeps the invariant.
LEMMA ObserveInv ==
  ASSUME IInv, NEW id \in LeaseIds, NEW epoch \in Epoch, NEW at,
         epoch.through \in 1..DeepestOrdinal(id[2]), Observe(id, epoch, at)
  PROVE  IInv'
<1>1. /\ index' = Observed(index, id, epoch, at) /\ lease_key' = lease_key /\ now' = now
      /\ Consistent(index) /\ Cardinality(DOMAIN index.leases) <= MaxLeases
      /\ lease_key \in HashOrders /\ now \in Nat
  BY DEF Observe, IInv, TypeOK
<1>2. Given(index, id, epoch)
  BY <1>1, KeyFacts DEF Given
<1>3. Consistent(index') /\ Cardinality(DOMAIN index'.leases) <= MaxLeases
  <2>1. CASE \E e \in Epochs(index, id) : Dominates(e, epoch)
    <3>1. index' = index
      BY <1>1, <1>2, <2>1, ObservedIs
    <3> QED
      BY <1>1, <3>1
  <2>2. CASE ~ \E e \in Epochs(index, id) : Dominates(e, epoch)
    BY <1>1, <1>2, <2>2, ObservedFacts
  <2> QED
    BY <2>1, <2>2
<1>4. seen' = Claims(index'.leases)
  BY <1>2, ObserveSeen
<1>5. Findable'
  BY <1>2, ObserveFindable
<1> QED
  BY <1>1, <1>3, <1>4, <1>5 DEF IInv, TypeOK

\* expire keeps the invariant.
LEMMA ExpireInv ==
  ASSUME IInv, NEW at, Expire(at)
  PROVE  IInv'
<1>1. /\ Consistent(index) /\ Cardinality(DOMAIN index.leases) <= MaxLeases
      /\ lease_key \in HashOrders /\ now \in Nat
      /\ seen = Claims(index.leases) /\ Findable
      /\ Leases(index.leases) /\ IsFiniteSet(DOMAIN index.leases)
  BY DEF IInv, TypeOK, Consistent, Leases
<1>2. /\ index' = Folded(index, at, DOMAIN index.leases)
      /\ seen' = {c \in Kept(seen) : c.expires > at}
      /\ crowded' = {c \in crowded : c[2] \in DOMAIN index'.leases}
      /\ lease_key' = lease_key /\ now' = now
  BY DEF Expire, Folded
<1>3. Expired(index, index', DOMAIN index.leases, at)
  BY <1>1, <1>2, FoldedFacts
<1>4. /\ Consistent(index') /\ Leases(index'.leases)
      /\ DOMAIN index'.leases \in SUBSET DOMAIN index.leases
      /\ \A i \in DOMAIN index.leases :
           i \in DOMAIN index'.leases <=> Current(index.leases[i], at) # {}
      /\ \A i \in DOMAIN index'.leases : index'.leases[i] = Current(index.leases[i], at)
      /\ \A key, i : Reaches(index'.leases, i, key) /\ i \in Names(index.prefix, key)
                       => i \in Names(index'.prefix, key)
  BY <1>3 DEF Expired, Consistent
<1>5. Cardinality(DOMAIN index'.leases) <= MaxLeases
  <2>1. /\ Cardinality(DOMAIN index'.leases) <= Cardinality(DOMAIN index.leases)
        /\ IsFiniteSet(DOMAIN index'.leases)
    BY <1>1, <1>4, FS_Subset
  <2>2. /\ Cardinality(DOMAIN index'.leases) \in Nat /\ Cardinality(DOMAIN index.leases) \in Nat
        /\ MaxLeases \in Nat
    BY <1>1, <2>1, FS_CardinalityType, LimitsAssumption
  <2> QED
    BY <1>1, <2>1, <2>2
<1>6. seen' = Claims(index'.leases)
  <2>1. ASSUME NEW c \in seen'
        PROVE  c \in Claims(index'.leases)
    <3>1. c \in seen /\ c.id \in DOMAIN index'.leases /\ c.expires > at
      BY <1>2, <2>1 DEF Kept
    <3>2. PICK i \in DOMAIN index.leases : \E e \in index.leases[i] : c = Claim(i, e)
      BY <1>1, <3>1, ClaimsFacts
    <3>3. PICK e \in index.leases[i] : c = Claim(i, e)
      BY <3>2
    <3>4. c.id = i /\ c.expires = e.expires
      BY <3>3, ClaimSays
    <3>5. i \in DOMAIN index'.leases /\ e \in index'.leases[i]
      BY <1>4, <3>1, <3>3, <3>4 DEF Current
    <3> QED
      BY <3>3, <3>5, ClaimsFacts
  <2>2. ASSUME NEW c \in Claims(index'.leases)
        PROVE  c \in seen'
    <3>1. PICK i \in DOMAIN index'.leases : \E e \in index'.leases[i] : c = Claim(i, e)
      BY <2>2, ClaimsFacts
    <3>2. PICK e \in index'.leases[i] : c = Claim(i, e)
      BY <3>1
    <3>3. i \in DOMAIN index.leases /\ e \in index.leases[i] /\ e.expires > at
      BY <1>4, <3>1, <3>2 DEF Current
    <3>4. c.id = i /\ c.expires = e.expires
      BY <3>2, ClaimSays
    <3>5. c \in seen
      BY <1>1, <3>2, <3>3, ClaimsFacts
    <3> QED
      BY <1>2, <3>1, <3>3, <3>4, <3>5 DEF Kept
  <2> QED
    BY <2>1, <2>2
<1>7. ASSUME NEW i, NEW key, Reaches(index'.leases, i, key)
      PROVE  i \in Names(index'.prefix, key) \/ <<key, i>> \in crowded'
  <2>1. i \in DOMAIN index'.leases /\ i \in DOMAIN index.leases
    BY <1>4, <1>7 DEF Reaches
  <2>2. index'.leases[i] \in SUBSET index.leases[i]
    BY <1>4, <2>1 DEF Current
  <2>3. Reaches(index.leases, i, key)
    BY <1>1, <1>4, <1>7, <2>1, <2>2, ReachShrinks
  <2>4. i \in Names(index.prefix, key) \/ <<key, i>> \in crowded
    BY <1>1, <2>3, NamesAreCandidates DEF Findable, Reaches
  <2> QED
    BY <1>2, <1>4, <1>7, <2>1, <2>4
<1>8. Findable'
  BY <1>7, NamesAreCandidates DEF Findable, Reaches
<1> QED
  BY <1>1, <1>2, <1>4, <1>5, <1>6, <1>8 DEF IInv, TypeOK

\* The directory starts with it,
LEMMA InitInv == Init => IInv
<1> SUFFICES ASSUME Init
             PROVE  IInv
  OBVIOUS
<1>1. /\ index = EmptyIndex /\ lease_key \in HashOrders /\ now = 0
      /\ seen = {} /\ crowded = {}
  BY DEF Init
<1>2. TypeOK
  BY <1>1, EmptyFacts DEF TypeOK
<1>3. seen = Claims(index.leases) /\ Findable
  <2>1. DOMAIN index.leases = {}
    BY <1>1, EmptyFacts
  <2> QED
    BY <1>1, <2>1 DEF Claims, Findable
<1> QED
  BY <1>1, <1>2, <1>3, EmptyFacts DEF IInv

\* and starts with it again, under another key.
LEMMA RestartInv == IInv /\ Restart => IInv'
<1> SUFFICES ASSUME IInv, Restart
             PROVE  IInv'
  OBVIOUS
<1>1. /\ index' = EmptyIndex /\ lease_key' \in HashOrders /\ now' = now /\ now \in Nat
      /\ seen' = {} /\ crowded' = {}
  BY DEF Restart, IInv, TypeOK
<1>2. TypeOK'
  BY <1>1, EmptyFacts DEF TypeOK
<1>3. seen' = Claims(index'.leases) /\ Findable'
  <2>1. DOMAIN index'.leases = {}
    BY <1>1, EmptyFacts
  <2> QED
    BY <1>1, <2>1 DEF Claims, Findable
<1> QED
  BY <1>1, <1>2, <1>3, EmptyFacts DEF IInv

\* Each step keeps the invariant,
LEMMA StepInv == IInv /\ [Next]_vars => IInv'
<1> SUFFICES ASSUME IInv, [Next]_vars
             PROVE  IInv'
  OBVIOUS
<1>1. ASSUME NEW id \in LeaseIds, NEW confidence \in Confidences, NEW ttl \in Ttls,
             NEW at \in ReadTimes, NEW through \in 1..DeepestOrdinal(id[2]),
             Observe(id, [through |-> through, expires |-> at + ttl,
                          confidence |-> confidence], at)
      PROVE  IInv'
  <2> DEFINE epoch == [through |-> through, expires |-> at + ttl, confidence |-> confidence]
  <2>1. at \in Nat /\ ttl \in Nat /\ through \in Nat
    BY TimesFacts, LimitsAssumption, IdFacts
  <2>2. epoch \in Epoch /\ epoch.through \in 1..DeepestOrdinal(id[2])
    BY <2>1 DEF Epoch
  <2> HIDE DEF epoch
  <2>3. Observe(id, epoch, at)
    BY <1>1 DEF epoch
  <2> QED
    BY <2>2, <2>3, ObserveInv
<1>2. ASSUME NEW at \in ReadTimes, Expire(at)
      PROVE  IInv'
  BY <1>2, ExpireInv
<1>3. CASE Restart
  BY <1>3, RestartInv
<1>4. CASE Tick
  <2>1. now \in Nat
    BY DEF IInv, TypeOK
  <2>2. /\ now' \in Nat /\ index' = index /\ lease_key' = lease_key
        /\ seen' = seen /\ crowded' = crowded
    BY <1>4, <2>1 DEF Tick
  <2> QED
    BY <2>2 DEF IInv, TypeOK, Findable
<1>5. CASE UNCHANGED vars
  BY <1>5 DEF vars, IInv, TypeOK, Findable
<1> QED
  BY <1>1, <1>2, <1>3, <1>4, <1>5 DEF Next

\* so it always holds.
LEMMA AlwaysInv == Spec => []IInv
<1>1. IInv /\ [Next]_vars => IInv'
  BY StepInv
<1> QED
  BY InitInv, <1>1, PTL DEF Spec

-----------------------------------------------------------------------------
(* What a lookup finds.                                                    *)

\* The prefixes of a prompt, told apart by their lengths.
LEMMA PrefixLength ==
  ASSUME NEW prompt \in Prompts, NEW i \in 1..DeepestOrdinal(prompt)
  PROVE  Len(SubSeq(prompt, 1, i)) = i
<1>1. /\ prompt \in Seq(ToSet(prompt)) /\ Len(prompt) \in Nat
      /\ DeepestOrdinal(prompt) \in Nat /\ DeepestOrdinal(prompt) <= Len(prompt)
  BY PromptFacts
<1>2. /\ i \in Int /\ 1 \in Int /\ i <= Len(prompt) /\ 1 <= i
  BY <1>1
<1>3. \A k \in 1..i : prompt[k] \in ToSet(prompt)
  BY <1>1, <1>2
<1>4. Len(SubSeq(prompt, 1, i)) = IF 1 <= i THEN i - 1 + 1 ELSE 0
  <2> DEFINE T == ToSet(prompt)
  <2>1. prompt \in Seq(T) /\ \A k \in 1..i : prompt[k] \in T
    BY <1>1, <1>3
  <2> HIDE DEF T
  <2> QED
    BY <1>2, <2>1, SubSeqProperties
<1> QED
  BY <1>2, <1>4

\* Of some ordinals one is the deepest.
LEMMA Deepest ==
  ASSUME NEW n \in Nat, NEW S \in SUBSET (1..n), S # {}
  PROVE  \E i \in S : \A j \in S : j <= i
<1> DEFINE T == {k \in 0..n : n - k \in S}
<1>1. T \in SUBSET Nat /\ T # {}
  <2>1. PICK i \in S : TRUE
    OBVIOUS
  <2>2. i \in 1..n
    BY <2>1
  <2>3. PICK k \in 0..n : n - k = i
    <3>1. n - i \in 0..n /\ n - (n - i) = i
      BY <2>2
    <3> QED
      BY <3>1
  <2>4. k \in T
    BY <2>1, <2>3
  <2>5. T \in SUBSET Nat
    OBVIOUS
  <2> QED
    BY <2>4, <2>5
<1>2. PICK k \in T : \A m \in T : k <= m
  <2> HIDE DEF T
  <2> QED
    BY <1>1, Lowest
<1>3. ASSUME NEW j \in S
      PROVE  j <= n - k
  <2>1. j \in 1..n /\ n - j \in 0..n /\ n - (n - j) = j
    OBVIOUS
  <2>2. n - j \in T
    BY <2>1
  <2>3. k <= n - j
    BY <1>2, <2>2
  <2> QED
    BY <2>1, <2>3
<1> QED
  BY <1>2, <1>3

\* Where a prompt's prefixes are answered for.
Hits(prompt, eligible, at) ==
  {i \in 1..DeepestOrdinal(prompt) : Answering(eligible, SubSeq(prompt, 1, i), at) # {}}

\* Who answers has evidence as deep as the prefix, on a path that has it.
LEMMA AnsweringFacts ==
  ASSUME IInv, NEW eligible, NEW key, NEW at, NEW id \in Answering(eligible, key, at)
  PROVE  /\ id[1] \in eligible /\ id \in DOMAIN index.leases
         /\ Reaches(index.leases, id, key)
         /\ Epochs(index, id) = index.leases[id]
         /\ Warm(index.leases[id], Len(key), at) # {}
<1>1. id \in Names(index.prefix, key) /\ id[1] \in eligible
      /\ Warm(Epochs(index, id), Len(key), at) # {}
  BY NamesAreCandidates DEF Answering
<1>2. Listings(index.leases, index.prefix)
  BY DEF IInv, TypeOK, Consistent
<1>3. Reaches(index.leases, id, key)
  BY <1>1, <1>2 DEF Names, Listings, Listing, ToSet
<1> QED
  BY <1>1, <1>3 DEF Reaches, Epochs

\* A lookup answers from the deepest prefix anybody answers for, with the best
\* evidence of one who does.
LEMMA LookupFacts ==
  ASSUME IInv, NEW prompt \in Prompts, NEW eligible, NEW at,
         Hits(prompt, eligible, at) # {}
  PROVE  LET found == Lookup(prompt, eligible, at)
         IN  /\ found.ordinal \in Hits(prompt, eligible, at)
             /\ \A j \in Hits(prompt, eligible, at) : j <= found.ordinal
             /\ found.id \in Answering(eligible, SubSeq(prompt, 1, found.ordinal), at)
             /\ \E e \in Warm(index.leases[found.id], found.ordinal, at) :
                  found.expires = e.expires /\ found.confidence = e.confidence
<1> DEFINE hits == Hits(prompt, eligible, at)
           deep == CHOOSE i \in hits : \A j \in hits : j <= i
           S == Answering(eligible, SubSeq(prompt, 1, deep), at)
           best(x) == BestEpoch(index.leases[x], deep, at)
           keyed == [x \in S |-> <<best(x).confidence, best(x).expires, Rank(x)>>]
           id == CHOOSE x \in S : \A y \in S : ~Smaller(keyed[x], keyed[y])
<1>1. Lookup(prompt, eligible, at)
        = [ordinal |-> deep, id |-> id, expires |-> best(id).expires,
           confidence |-> best(id).confidence]
  BY DEF Lookup, Hits, Largest
<1>2. deep \in hits /\ \A j \in hits : j <= deep
  <2>1. DeepestOrdinal(prompt) \in Nat /\ hits \in SUBSET (1..DeepestOrdinal(prompt))
    BY PromptFacts DEF Hits
  <2> HIDE DEF hits
  <2>2. \E i \in hits : \A j \in hits : j <= i
    BY <2>1, Deepest DEF hits
  <2> QED
    BY <2>2
<1> HIDE DEF deep
<1>3. deep \in 1..DeepestOrdinal(prompt) /\ S # {}
  BY <1>2 DEF Hits
<1>4. Len(SubSeq(prompt, 1, deep)) = deep
  BY <1>3, PrefixLength
<1>5. \A x \in S : /\ x \in DOMAIN index.leases
                   /\ Warm(index.leases[x], deep, at) # {}
  <2> DEFINE key == SubSeq(prompt, 1, deep)
  <2>1. S = Answering(eligible, key, at) /\ Len(key) = deep
    BY <1>4
  <2> HIDE DEF key, S
  <2> QED
    BY <2>1, AnsweringFacts
<1>6. /\ Leases(index.leases) /\ IsFiniteSet(DOMAIN index.leases)
      /\ DOMAIN index.leases \in SUBSET LeaseIds /\ lease_key \in [LeaseIds -> Nat]
  BY KeyFacts DEF IInv, TypeOK, Consistent, Leases
<1> HIDE DEF S
<1>7. \A x \in S : best(x) \in Warm(index.leases[x], deep, at) /\ best(x) \in Epoch
  <2> SUFFICES ASSUME NEW x \in S
               PROVE  best(x) \in Warm(index.leases[x], deep, at) /\ best(x) \in Epoch
    OBVIOUS
  <2>1. index.leases[x] \in SUBSET Epoch /\ IsFiniteSet(index.leases[x])
    BY <1>5, <1>6 DEF Leases, Evidence
  <2>2. best(x) \in Warm(index.leases[x], deep, at)
    BY <1>5, <2>1, BestFacts
  <2> QED
    BY <2>1, <2>2 DEF Warm
<1>8. \A x \in S : keyed[x] \in [1..3 -> Int]
  <2> SUFFICES ASSUME NEW x \in S
               PROVE  keyed[x] \in [1..3 -> Int]
    OBVIOUS
  <2>1. best(x).confidence \in Int /\ best(x).expires \in Int
    BY <1>7, EpochFacts
  <2>2. Rank(x) \in Int
    BY <1>5, <1>6 DEF Rank
  <2>3. keyed[x] = <<best(x).confidence, best(x).expires, Rank(x)>>
    OBVIOUS
  <2> HIDE DEF keyed, best
  <2> QED
    BY <2>1, <2>2, <2>3
<1>9. id \in S
  <2>1. IsFiniteSet(S)
    <3>1. S \in SUBSET DOMAIN index.leases
      BY <1>5
    <3> QED
      BY <1>6, <3>1, FS_Subset
  <2> HIDE DEF keyed
  <2>2. Tuples(S, keyed)
    <3>1. 3 \in Nat \ {0}
      OBVIOUS
    <3>2. \A x \in S : keyed[x] \in [1..3 -> Int] /\ DOMAIN keyed[x] = 1..3
      BY <1>8
    <3> QED
      BY <3>1, <3>2 DEF Tuples, Tuple
  <2>3. \E x \in S : \A y \in S : ~Smaller(keyed[x], keyed[y])
    BY <1>3, <2>1, <2>2, Extremes
  <2> QED
    BY <2>3
<1> HIDE DEF id
<1> DEFINE e == best(id)
<1>10. e \in Warm(index.leases[id], deep, at)
  BY <1>7, <1>9
<1> HIDE DEF e
<1>11. Lookup(prompt, eligible, at)
         = [ordinal |-> deep, id |-> id, expires |-> e.expires, confidence |-> e.confidence]
  BY <1>1 DEF e
<1> HIDE DEF hits
<1>12. id \in Answering(eligible, SubSeq(prompt, 1, deep), at)
  BY <1>9 DEF S
<1> QED
  BY <1>2, <1>10, <1>11, <1>12 DEF hits

-----------------------------------------------------------------------------
(* The theorems.                                                           *)

\* Whatever is observed, expires or makes room: the leases, the lists of the
\* prefixes and the eviction order of the index say the same.
THEOREM MapsAgree == Spec => []IndexConsistent
<1>1. ASSUME IInv
      PROVE  IndexConsistent
  <2>1. /\ Leases(index.leases) /\ Listings(index.leases, index.prefix)
        /\ index.expiry_order = Order(index.leases)
        /\ Cardinality(DOMAIN index.leases) <= MaxLeases
    BY <1>1 DEF IInv, TypeOK, Consistent
  <2>2. ASSUME NEW id \in DOMAIN index.leases
        PROVE  /\ index.leases[id] # {} /\ Compact(index.leases[id]) = index.leases[id]
               /\ \A e \in index.leases[id] :
                    e.through \in 1..DeepestOrdinal(id[2]) /\ e.confidence \in Confidences
    <3>1. Evidence(id, index.leases[id])
      BY <2>1 DEF Leases
    <3> QED
      BY <3>1, EpochFacts DEF Evidence
  <2>3. ASSUME NEW key \in DOMAIN index.prefix
        PROVE  /\ Len(index.prefix[key]) \in 1..MaxCandidates
               /\ IsInjective(index.prefix[key])
               /\ \A id \in ToSet(index.prefix[key]) :
                    /\ id \in DOMAIN index.leases
                    /\ key \in Upto(id[2], MaxFrontier(index.leases[id]))
    BY <2>1 DEF Listings, Listing, Reaches, ToSet
  <2> QED
    BY <2>1, <2>2, <2>3 DEF IndexConsistent, Order
<1> QED
  BY <1>1, AlwaysInv, PTL

\* What a lookup answers was observed of a prompt with that very prefix, as
\* deep, as certain and for as long as it says.
THEOREM FindsWhatWasSeen == Spec => []NeverFabricates
<1>1. ASSUME IInv, NEW prompt \in Prompts, NEW d \in Domains, NEW at \in ReadTimes,
             Lookup(prompt, {d}, at) # NoMatch
      PROVE  LET found == Lookup(prompt, {d}, at)
             IN  \E c \in seen :
                   /\ c.id = found.id /\ c.id[1] = d
                   /\ SubSeq(prompt, 1, found.ordinal) \in Upto(c.id[2], c.through)
                   /\ c.expires = found.expires /\ c.expires > at
                   /\ c.confidence = found.confidence
  <2> DEFINE found == Lookup(prompt, {d}, at)
             id == found.id
             key == SubSeq(prompt, 1, found.ordinal)
  <2>1. Hits(prompt, {d}, at) # {}
    BY <1>1 DEF Lookup, Hits
  <2>2. /\ found.ordinal \in 1..DeepestOrdinal(prompt)
        /\ id \in Answering({d}, key, at)
        /\ \E e \in Warm(index.leases[id], found.ordinal, at) :
             found.expires = e.expires /\ found.confidence = e.confidence
    BY <1>1, <2>1, LookupFacts DEF Hits
  <2> HIDE DEF found
  <2>3. PICK e \in Warm(index.leases[id], found.ordinal, at) :
          found.expires = e.expires /\ found.confidence = e.confidence
    BY <2>2
  <2>4. /\ e \in index.leases[id] /\ e.through >= found.ordinal /\ e.expires > at
    BY <2>3 DEF Warm
  <2>5. /\ id[1] = d /\ id \in DOMAIN index.leases /\ Reaches(index.leases, id, key)
    BY <1>1, <2>2, AnsweringFacts
  <2>6. /\ Evidence(id, index.leases[id]) /\ id \in LeaseIds
        /\ seen = Claims(index.leases)
    BY <1>1, <2>5 DEF IInv, TypeOK, Consistent, Leases
  <2>7. key \in Upto(id[2], e.through)
    <3>1. /\ MaxFrontier(index.leases[id]) \in 1..DeepestOrdinal(id[2])
          /\ e.through \in 1..DeepestOrdinal(id[2])
          /\ DeepestOrdinal(id[2]) \in Nat /\ id[2] \in Prompts
      BY <2>4, <2>6, EvidenceFacts, IdFacts
    <3>2. PICK i \in 1..MaxFrontier(index.leases[id]) : key = SubSeq(id[2], 1, i)
      BY <2>5 DEF Reaches, Upto
    <3>3. i \in 1..DeepestOrdinal(id[2])
      BY <3>1
    <3>4. Len(key) = i
      BY <3>1, <3>2, <3>3, PrefixLength
    <3>5. Len(key) = found.ordinal
      BY <2>2, PrefixLength
    <3>6. i \in 1..e.through
      <4>1. i = found.ordinal
        BY <3>4, <3>5
      <4> HIDE DEF key, id
      <4> QED
        BY <2>4, <3>1, <3>3, <4>1
    <3> QED
      BY <3>2, <3>6 DEF Upto
  <2> DEFINE c == Claim(id, e)
  <2>8. c \in seen
    BY <2>4, <2>5, <2>6, ClaimsFacts
  <2>9. /\ c.id = id /\ c.through = e.through /\ c.expires = e.expires
        /\ c.confidence = e.confidence
    BY DEF Claim
  <2> HIDE DEF c
  <2> QED
    BY <2>3, <2>4, <2>5, <2>7, <2>8, <2>9 DEF found
<1>2. ASSUME IInv
      PROVE  NeverFabricates
  BY <1>1, <1>2 DEF NeverFabricates
<1> QED
  BY <1>2, AlwaysInv, PTL

\* Only room makes the directory forget: evidence that still counts, and was
\* not pushed from the list of a prefix, is found by every prompt with it.
THEOREM ForgetsForRoom == Spec => []ForgetsOnlyForRoom
<1>1. ASSUME IInv, NEW c \in seen, c.expires > now, NEW prompt \in Prompts,
             NEW key \in Upto(c.id[2], c.through) \cap Checkpoints(prompt),
             <<key, c.id>> \notin crowded
      PROVE  Lookup(prompt, {c.id[1]}, now).ordinal >= Len(key)
  <2>1. /\ seen = Claims(index.leases) /\ Leases(index.leases) /\ Findable
    BY <1>1 DEF IInv, TypeOK, Consistent
  <2>2. PICK id \in DOMAIN index.leases : \E e \in index.leases[id] : c = Claim(id, e)
    BY <2>1, ClaimsFacts
  <2>3. PICK e \in index.leases[id] : c = Claim(id, e)
    BY <2>2
  <2>4. c.id = id /\ c.through = e.through /\ c.expires = e.expires
    BY <2>3 DEF Claim
  <2>5. /\ Evidence(id, index.leases[id]) /\ id \in LeaseIds
    BY <2>1 DEF Leases
  <2>6. /\ e.through \in 1..DeepestOrdinal(id[2]) /\ e.through <= MaxFrontier(index.leases[id])
        /\ MaxFrontier(index.leases[id]) \in 1..DeepestOrdinal(id[2])
        /\ DeepestOrdinal(id[2]) \in Nat /\ id[2] \in Prompts
    BY <2>5, EvidenceFacts, IdFacts
  <2>7. PICK i \in 1..e.through : key = SubSeq(id[2], 1, i)
    BY <1>1, <2>4 DEF Upto
  <2>8. i \in 1..DeepestOrdinal(id[2]) /\ i \in 1..MaxFrontier(index.leases[id])
    BY <2>6
  <2>9. Len(key) = i
    BY <2>6, <2>7, <2>8, PrefixLength
  <2>10. PICK j \in 1..DeepestOrdinal(prompt) : key = SubSeq(prompt, 1, j)
    BY <1>1 DEF Checkpoints, Upto
  <2>11. Len(key) = j
    BY <2>10, PrefixLength
  <2>12. id \in ToSet(Candidates(index, key))
    <3>1. key \in Upto(id[2], MaxFrontier(index.leases[id]))
      BY <2>7, <2>8 DEF Upto
    <3> QED
      BY <1>1, <2>1, <2>4, <3>1 DEF Findable
  <2>13. e \in Warm(Epochs(index, id), Len(key), now)
    <3>1. e.through >= Len(key)
      BY <2>6, <2>9
    <3> QED
      BY <1>1, <2>4, <3>1 DEF Warm, Epochs
  <2>14. id \in Answering({c.id[1]}, key, now)
    BY <2>4, <2>12, <2>13 DEF Answering
  <2>15. j \in Hits(prompt, {c.id[1]}, now)
    BY <2>10, <2>14 DEF Hits
  <2>16. j <= Lookup(prompt, {c.id[1]}, now).ordinal
         /\ Lookup(prompt, {c.id[1]}, now).ordinal \in 1..DeepestOrdinal(prompt)
    BY <1>1, <2>15, LookupFacts DEF Hits
  <2>17. DeepestOrdinal(prompt) \in Nat
    BY PromptFacts
  <2> QED
    BY <2>11, <2>16, <2>17
<1>2. ASSUME IInv
      PROVE  ForgetsOnlyForRoom
  BY <1>1, <1>2 DEF ForgetsOnlyForRoom
<1> QED
  BY <1>2, AlwaysInv, PTL
=============================================================================
