--------------------------- MODULE StatsLedgerProofs ------------------------
(***************************************************************************)
(* What StatsLedger promises for every ledger, clock and history of        *)
(* restarts: while the process serves, the tables of all time and every    *)
(* window of buckets count each record of the ledger once (TotalsAreExact, *)
(* WindowsAreExact).                                                       *)
(*                                                                         *)
(* The invariant behind both says which records the tables count at every  *)
(* moment of a migration: those up to the progress cursor of the phase it  *)
(* is in, and no other. It adds both backends of a row up, because a       *)
(* record backfilled before a rename stays under the old name while the    *)
(* ledger has the new one, and it speaks of the buckets the retention has  *)
(* not pruned. What a window counts is then a matter of arithmetic: it is  *)
(* cut into ranges of minute and hour buckets, and each record that        *)
(* started in it lies in a bucket of exactly one of them                   *)
(* (RecordCountedOnce).                                                    *)
(***************************************************************************)
EXTENDS StatsLedger, FiniteSetTheorems, WellFoundedInduction, TLAPS

-----------------------------------------------------------------------------
(* Sums over finite sets, whatever order the fold takes them in.           *)

\* Of any sets of elements of a finite one, some contains no other.
LEMMA Smallest ==
  ASSUME NEW S, IsFiniteSet(S), NEW Wrong \in SUBSET (SUBSET S), Wrong # {}
  PROVE  \E s \in Wrong : IsFiniteSet(s) /\ \A t \in SUBSET s : t # s => t \notin Wrong
<1>1. Wrong \subseteq FiniteSubsetsOf(S)
  BY FS_Subset DEF FiniteSubsetsOf
<1>2. PICK s \in Wrong : \A t \in Wrong : ~ (<<t, s>> \in StrictSubsetOrdering(S))
  BY <1>1, FS_StrictSubsetOrderingWellFounded, WFMin
<1>3. \A t \in SUBSET s : t # s => t \notin Wrong
  BY <1>2 DEF StrictSubsetOrdering
<1> QED
  BY <1>1, <1>2, <1>3 DEF FiniteSubsetsOf

\* What the fold asks of the function of subsets it defines.
One(s) == CHOOSE x \in s : TRUE

StepOf(sum, fun, s) == IF s = {} THEN 0 ELSE fun[One(s)] + sum[s \ {One(s)}]

SumsOn(sum, fun, S) == sum = [s \in SUBSET S |-> StepOf(sum, fun, s)]

\* The fold is the one function on the subsets of S its equation chooses.
LEMMA SumIsChosen ==
  ASSUME NEW fun, NEW S
  PROVE  SumFunctionOnSet(fun, S) = (CHOOSE sum : SumsOn(sum, fun, S))[S]
BY DEF SumFunctionOnSet, FoldFunctionOnSet, MapThenFoldSet, SumsOn, StepOf, One

\* One function only does so.
LEMMA SumIs ==
  ASSUME NEW fun, NEW S, IsFiniteSet(S), NEW sum, SumsOn(sum, fun, S)
  PROVE  SumFunctionOnSet(fun, S) = sum[S]
<1> DEFINE chosen == CHOOSE other : SumsOn(other, fun, S)
           Wrong == {s \in SUBSET S : chosen[s] # sum[s]}
<1>1. SumsOn(chosen, fun, S)
  OBVIOUS
<1>2. SumFunctionOnSet(fun, S) = chosen[S]
  BY SumIsChosen
<1> HIDE DEF chosen
<1>3. \A s \in SUBSET S :
        chosen[s] = StepOf(chosen, fun, s) /\ sum[s] = StepOf(sum, fun, s)
  BY <1>1 DEF SumsOn
<1>4. ASSUME Wrong # {}
      PROVE  FALSE
  <2>1. PICK s \in Wrong : \A t \in SUBSET s : t # s => t \notin Wrong
    <3>1. Wrong \in SUBSET (SUBSET S)
      OBVIOUS
    <3> HIDE DEF Wrong
    <3> QED
      BY <3>1, <1>4, Smallest
  <2>2. s # {}
    BY <1>3, <2>1 DEF StepOf
  <2>3. One(s) \in s
    BY <2>2 DEF One
  <2>4. chosen[s \ {One(s)}] = sum[s \ {One(s)}]
    BY <2>1, <2>3
  <2>5. chosen[s] = sum[s]
    BY <1>3, <2>1, <2>2, <2>4 DEF StepOf
  <2> QED
    BY <2>1, <2>5
<1> QED
  BY <1>2, <1>4

\* So the sum of a set is one of its values and the sum of the others.
Peeled(fun, s) ==
  IF s = {} THEN 0 ELSE fun[One(s)] + SumFunctionOnSet(fun, s \ {One(s)})

\* A sum over a finite set is the sum over one element less and that element.
LEMMA SumPeels ==
  ASSUME NEW fun, NEW S, IsFiniteSet(S)
  PROVE  SumFunctionOnSet(fun, S) = Peeled(fun, S)
<1> DEFINE Wrong == {s \in SUBSET S : SumFunctionOnSet(fun, s) # Peeled(fun, s)}
<1>1. ASSUME Wrong # {}
      PROVE  FALSE
  <2>1. PICK s \in Wrong :
          IsFiniteSet(s) /\ \A t \in SUBSET s : t # s => t \notin Wrong
    <3>1. Wrong \in SUBSET (SUBSET S)
      OBVIOUS
    <3> HIDE DEF Wrong
    <3> QED
      BY <3>1, <1>1, Smallest
  <2> DEFINE sum == [t \in SUBSET s |-> IF t = s THEN Peeled(fun, s)
                                        ELSE SumFunctionOnSet(fun, t)]
  <2>2. ASSUME NEW t \in SUBSET s
        PROVE  sum[t] = StepOf(sum, fun, t)
    <3>1. sum[t] = Peeled(fun, t)
      BY <2>1
    <3>2. t # {} => One(t) \in t
      BY DEF One
    <3>3. t # {} => sum[t \ {One(t)}] = SumFunctionOnSet(fun, t \ {One(t)})
      BY <3>2
    <3> QED
      BY <3>1, <3>3 DEF Peeled, StepOf
  <2>3. SumsOn(sum, fun, s)
    BY <2>2 DEF SumsOn
  <2>4. SumFunctionOnSet(fun, s) = sum[s]
    BY <2>1, <2>3, SumIs
  <2> QED
    BY <2>1, <2>4
<1> QED
  BY <1>1

\* A sum of naturals over a finite set is a natural.
LEMMA SumType ==
  ASSUME NEW fun, NEW S, IsFiniteSet(S), \A x \in S : fun[x] \in Nat
  PROVE  SumFunctionOnSet(fun, S) \in Nat
<1> DEFINE Wrong == {s \in SUBSET S : SumFunctionOnSet(fun, s) \notin Nat}
<1>1. ASSUME Wrong # {}
      PROVE  FALSE
  <2>1. PICK s \in Wrong :
          IsFiniteSet(s) /\ \A t \in SUBSET s : t # s => t \notin Wrong
    <3>1. Wrong \in SUBSET (SUBSET S)
      OBVIOUS
    <3> HIDE DEF Wrong
    <3> QED
      BY <3>1, <1>1, Smallest
  <2>2. SumFunctionOnSet(fun, s) = Peeled(fun, s)
    BY <2>1, SumPeels
  <2>3. s # {} => One(s) \in s
    BY DEF One
  <2>4. s # {} => SumFunctionOnSet(fun, s \ {One(s)}) \in Nat /\ fun[One(s)] \in Nat
    BY <2>1, <2>3
  <2>5. Peeled(fun, s) \in Nat
    BY <2>4 DEF Peeled
  <2> QED
    BY <2>1, <2>2, <2>5
<1> QED
  BY <1>1

\* Any element may be taken out of a sum, not only the one the fold picks.
LEMMA SumTakes ==
  ASSUME NEW fun, NEW S, IsFiniteSet(S), \A x \in S : fun[x] \in Nat,
         NEW x \in S
  PROVE  SumFunctionOnSet(fun, S) = fun[x] + SumFunctionOnSet(fun, S \ {x})
<1> DEFINE Sum(s) == SumFunctionOnSet(fun, s)
           Wrong == {s \in SUBSET S : \E y \in s : Sum(s) # fun[y] + Sum(s \ {y})}
<1>1. ASSUME NEW s \in SUBSET S
      PROVE  IsFiniteSet(s) /\ Sum(s) \in Nat
  BY FS_Subset, SumType
<1>2. ASSUME NEW s \in SUBSET S, s # {}
      PROVE  One(s) \in s /\ Sum(s) = fun[One(s)] + Sum(s \ {One(s)})
  BY <1>1, <1>2, SumPeels DEF Peeled, One
<1> HIDE DEF Sum
<1>3. ASSUME Wrong # {}
      PROVE  FALSE
  <2>1. PICK s \in Wrong : \A t \in SUBSET s : t # s => t \notin Wrong
    <3>1. Wrong \in SUBSET (SUBSET S)
      OBVIOUS
    <3> HIDE DEF Wrong
    <3> QED
      BY <3>1, <1>3, Smallest
  <2>2. PICK y \in s : Sum(s) # fun[y] + Sum(s \ {y})
    BY <2>1
  <2> DEFINE c == One(s)
             both == s \ {c, y}
  <2>3. c \in s /\ Sum(s) = fun[c] + Sum(s \ {c})
    BY <1>2, <2>2
  <2>4. c # y
    BY <2>2, <2>3
  <2> HIDE DEF c
  <2>5. /\ s \ {c} \in SUBSET s /\ s \ {c} # s /\ y \in s \ {c}
        /\ s \ {y} \in SUBSET s /\ s \ {y} # s /\ c \in s \ {y}
        /\ (s \ {c}) \ {y} = both /\ (s \ {y}) \ {c} = both
    BY <2>2, <2>3, <2>4
  <2>6. Sum(s \ {c}) = fun[y] + Sum(both)
    <3>1. s \ {c} \in SUBSET S /\ s \ {c} \notin Wrong
      BY <2>1, <2>5
    <3>2. Sum(s \ {c}) = fun[y] + Sum((s \ {c}) \ {y})
      BY <2>5, <3>1
    <3> QED
      BY <2>5, <3>2
  <2>7. Sum(s \ {y}) = fun[c] + Sum(both)
    <3>1. s \ {y} \in SUBSET S /\ s \ {y} \notin Wrong
      BY <2>1, <2>5
    <3>2. Sum(s \ {y}) = fun[c] + Sum((s \ {y}) \ {c})
      BY <2>5, <3>1
    <3> QED
      BY <2>5, <3>2
  <2>8. fun[c] \in Nat /\ fun[y] \in Nat /\ Sum(both) \in Nat
    BY <1>1, <2>1, <2>2, <2>3
  <2> QED
    BY <2>2, <2>3, <2>6, <2>7, <2>8
<1>4. S \notin Wrong
  BY <1>3
<1> QED
  BY <1>4 DEF Sum

-----------------------------------------------------------------------------
(* Arithmetic.                                                             *)

\* Division with remainder.
LEMMA Division ==
  ASSUME NEW t \in Int, NEW u \in Nat \ {0}
  PROVE  /\ t \div u \in Int /\ t % u \in 0..(u - 1)
         /\ t = u * (t \div u) + (t % u)
  OBVIOUS

\* Multiplication by a positive number preserves order.
LEMMA MulMono ==
  ASSUME NEW u \in Nat \ {0}, NEW p \in Int, NEW q \in Int
  PROVE  p < q <=> u * p + u <= u * q
  OBVIOUS

\* A bucket begins at a multiple of its unit, at most a unit before what is
\* put into it.
LEMMA FloorBelow ==
  ASSUME NEW t \in Int, NEW u \in Nat \ {0}
  PROVE  /\ FloorTo(t, u) \in Int
         /\ FloorTo(t, u) <= t /\ t < FloorTo(t, u) + u
         /\ FloorTo(t, u) = u * (t \div u)
<1> DEFINE q == t \div u
           r == t % u
<1>1. q \in Int /\ r \in 0..(u - 1) /\ t = u * q + r
  BY Division
<1>2. u * q \in Int /\ q * u = u * q
  BY <1>1
<1>3. FloorTo(t, u) = u * q
  BY <1>2 DEF FloorTo
<1> QED
  BY <1>1, <1>2, <1>3

\* Between two multiples of the unit lies a bucket exactly when what is put
\* into it does.
LEMMA FloorBetween ==
  ASSUME NEW t \in Int, NEW u \in Nat \ {0}, NEW p \in Int
  PROVE  u * p <= t <=> u * p <= FloorTo(t, u)
<1> DEFINE q == t \div u
<1>1. q \in Int
  BY Division
<1>2. u * p \in Int /\ u * q \in Int
  BY <1>1
<1>3. FloorTo(t, u) = u * q /\ u * q <= t /\ t < u * q + u
  BY FloorBelow
<1>4. q < p <=> u * q + u <= u * p
  BY <1>1, MulMono
<1>5. p < q => u * p + u <= u * q
  BY <1>1, MulMono
<1> HIDE DEF q
<1>6. CASE q < p
  BY <1>2, <1>3, <1>4, <1>6
<1>7. CASE p <= q
  BY <1>1, <1>2, <1>3, <1>5, <1>7
<1> QED
  BY <1>1, <1>6, <1>7

Multiple(t, u) == \E p \in Int : t = u * p

\* A multiple of the unit is at or before a time if at or before its bucket.
LEMMA Aligned ==
  ASSUME NEW t \in Int, NEW u \in Nat \ {0}, NEW a \in Int, Multiple(a, u)
  PROVE  a <= t <=> a <= FloorTo(t, u)
BY FloorBetween DEF Multiple

\* The first and the last full hour of a window.
LEMMA FloorMultiple ==
  ASSUME NEW t \in Int, NEW u \in Nat \ {0}
  PROVE  Multiple(FloorTo(t, u), u) /\ Multiple(CeilTo(t, u), u)
<1> DEFINE q == t \div u
<1>1. q \in Int /\ q + 1 \in Int
  BY Division
<1>2. FloorTo(t, u) = u * q
  BY FloorBelow
<1>3. u * (q + 1) = u * q + u
  BY <1>1
<1> HIDE DEF q
<1> QED
  BY <1>1, <1>2, <1>3 DEF Multiple, CeilTo

\* Rounding up moves a time to a multiple at or after it.
LEMMA CeilAbove ==
  ASSUME NEW t \in Int, NEW u \in Nat \ {0}
  PROVE  CeilTo(t, u) \in Int /\ t <= CeilTo(t, u)
<1>1. FloorTo(t, u) \in Int /\ FloorTo(t, u) <= t /\ t < FloorTo(t, u) + u
  BY FloorBelow
<1> QED
  BY <1>1 DEF CeilTo

\* A multiple of hours is one of minutes.
LEMMA HoursAreMinutes ==
  ASSUME NEW t \in Int, Multiple(t, Hour)
  PROVE  Multiple(t, Minute)
<1>1. Minute \in Nat \ {0} /\ Hour \in Nat \ {0} /\ Hour % Minute = 0
  BY TimeAssumption
<1> DEFINE n == Hour \div Minute
<1>2. n \in Int /\ Hour = Minute * n
  BY <1>1, Division
<1>3. PICK p \in Int : t = Hour * p
  BY DEF Multiple
<1> HIDE DEF n
<1>4. n * p \in Int /\ (Minute * n) * p = Minute * (n * p)
  BY <1>1, <1>2, <1>3
<1> QED
  BY <1>2, <1>3, <1>4 DEF Multiple

-----------------------------------------------------------------------------
(* Windows.                                                                *)

\* The ranges of a window a record's buckets fall into (InRange, of the
\* bucket the record is put into at the grain of the range).
RangesOf(start, from, to) ==
  {i \in 1..3 : LET range == BucketRanges(from, to)[i]
                    bucket == FloorTo(start, Unit(range.grain))
                IN  range.from <= bucket /\ bucket < range.to}

\* bucket_ranges over buckets of whole minutes and hours: a record that
\* started in the window is counted by exactly one range, at one grain, and
\* any other by none; for every window whose ends are whole minutes, as
\* routing_window makes them.
THEOREM RecordCountedOnce ==
  ASSUME NEW from \in Int, NEW to \in Int, from <= to,
         Multiple(from, Minute), Multiple(to, Minute), NEW start \in Int
  PROVE  IF from <= start /\ start < to
         THEN \E i \in 1..3 : RangesOf(start, from, to) = {i}
         ELSE RangesOf(start, from, to) = {}
<1>1. Minute \in Nat \ {0} /\ Hour \in Nat \ {0}
  BY TimeAssumption
<1> DEFINE first == CeilTo(from, Hour)
           last == FloorTo(to, Hour)
           left == Earlier(first, to)
           right == Later(last, left)
           minute == FloorTo(start, Minute)
           hour == FloorTo(start, Hour)
<1>2. first \in Int /\ from <= first /\ last \in Int /\ last <= to
  BY <1>1, CeilAbove, FloorBelow
<1>3. left \in Int /\ right \in Int /\ minute \in Int /\ hour \in Int
  BY <1>1, <1>2, FloorBelow DEF Earlier, Later
<1>4. Multiple(first, Hour) /\ Multiple(last, Hour)
  BY <1>1, FloorMultiple
<1>5. Multiple(left, Minute) /\ Multiple(right, Minute)
  BY <1>2, <1>4, HoursAreMinutes DEF Earlier, Later
<1>6. /\ from <= start <=> from <= minute
      /\ to <= start <=> to <= minute
      /\ left <= start <=> left <= minute
      /\ right <= start <=> right <= minute
  BY <1>1, <1>3, <1>5, Aligned
<1>7. /\ first <= start <=> first <= hour
      /\ last <= start <=> last <= hour
  BY <1>1, <1>2, <1>4, Aligned
<1> DEFINE hit == RangesOf(start, from, to)
<1>8. 1 \in hit <=> from <= minute /\ minute < left
  BY DEF RangesOf, BucketRanges, Unit
<1>9. 2 \in hit <=> first <= hour /\ hour < last
  BY DEF RangesOf, BucketRanges, Unit
<1>10. 3 \in hit <=> right <= minute /\ minute < to
  BY DEF RangesOf, BucketRanges, Unit
<1>11. \A i \in hit : i = 1 \/ i = 2 \/ i = 3
  <2>1. \A i \in 1..3 : i = 1 \/ i = 2 \/ i = 3
    OBVIOUS
  <2> QED
    BY <2>1 DEF RangesOf
<1>12. /\ from <= left /\ left <= right /\ right <= to /\ left <= first
       /\ first < last => left = first /\ right = last
       /\ last <= first => right = left
  BY <1>2, <1>3 DEF Earlier, Later
<1> HIDE DEF first, last, left, right, minute, hour, hit
<1>13. /\ 1 \in hit <=> from <= start /\ start < left
       /\ 2 \in hit <=> first <= start /\ start < last
       /\ 3 \in hit <=> right <= start /\ start < to
  BY <1>2, <1>3, <1>6, <1>7, <1>8, <1>9, <1>10
<1>14. ASSUME from <= start /\ start < left PROVE hit = {1}
  <2>1. 1 \in hit /\ 2 \notin hit /\ 3 \notin hit
    BY <1>2, <1>3, <1>12, <1>13, <1>14
  <2> QED
    BY <1>11, <2>1
<1>15. ASSUME left <= start /\ start < right PROVE hit = {2}
  <2>1. 1 \notin hit /\ 2 \in hit /\ 3 \notin hit
    BY <1>2, <1>3, <1>12, <1>13, <1>15
  <2> QED
    BY <1>11, <2>1
<1>16. ASSUME right <= start /\ start < to PROVE hit = {3}
  <2>1. 1 \notin hit /\ 2 \notin hit /\ 3 \in hit
    BY <1>2, <1>3, <1>12, <1>13, <1>16
  <2> QED
    BY <1>11, <2>1
<1>17. ASSUME start < from \/ to <= start PROVE hit = {}
  <2>1. 1 \notin hit /\ 2 \notin hit /\ 3 \notin hit
    BY <1>2, <1>3, <1>12, <1>13, <1>17
  <2> QED
    BY <1>11, <2>1
<1>18. CASE from <= start /\ start < to
  <2>1. \E i \in 1..3 : hit = {i}
    BY <1>3, <1>12, <1>14, <1>15, <1>16, <1>18
  <2> QED
    BY <1>18, <2>1 DEF hit
<1>19. CASE start < from \/ to <= start
  <2>1. hit = {} /\ ~(from <= start /\ start < to)
    BY <1>17, <1>19
  <2> QED
    BY <2>1 DEF hit
<1> QED
  BY <1>18, <1>19

-----------------------------------------------------------------------------
(* Counting.                                                               *)

\* The elements of two disjoint finite sets add up.
LEMMA CountTwo ==
  ASSUME NEW A, NEW B, IsFiniteSet(A), IsFiniteSet(B), A \cap B = {}
  PROVE  /\ IsFiniteSet(A \cup B)
         /\ Cardinality(A) \in Nat /\ Cardinality(B) \in Nat
         /\ Cardinality(A \cup B) = Cardinality(A) + Cardinality(B)
<1>1. /\ IsFiniteSet(A \cup B)
      /\ Cardinality(A \cup B) = Cardinality(A) + Cardinality(B) - Cardinality({})
  BY FS_Union
<1>2. Cardinality(A) \in Nat /\ Cardinality(B) \in Nat /\ Cardinality({}) = 0
  BY FS_CardinalityType, FS_EmptySet
<1> QED
  BY <1>1, <1>2

\* The two backends, and that there are no others.
LEMMA BackendsFacts ==
  /\ IsFiniteSet(Backends) /\ Old # New
  /\ \A b \in Backends : b = Old \/ b = New
<1>1. Backends = {Old} \cup {New}
  BY DEF Backends
<1>2. IsFiniteSet({Old}) /\ IsFiniteSet({New})
  BY FS_Singleton
<1>3. IsFiniteSet(Backends)
  BY <1>1, <1>2, FS_Union
<1> QED
  BY <1>3, IdsAssumption DEF Backends

\* Buckets start at times of the model.
LEMMA MinutesFacts ==
  /\ IsFiniteSet(Minutes) /\ Minutes \subseteq Nat
<1>1. /\ IsFiniteSet(0..MaxTime) /\ Minutes \in SUBSET (0..MaxTime)
      /\ Minutes \subseteq Nat
  BY FS_Interval, TimeAssumption DEF Minutes
<1> QED
  BY <1>1, FS_Subset

\* A row of a table of buckets.
Key(g, m, b) == [grain |-> g, start |-> m, backend |-> b]

\* A row is named by its grain, its start and its backend.
LEMMA KeyIn ==
  ASSUME NEW g \in Grains, NEW m \in Minutes, NEW b \in Backends
  PROVE  /\ Key(g, m, b) \in BucketKeys
         /\ Key(g, m, b).grain = g /\ Key(g, m, b).start = m /\ Key(g, m, b).backend = b
BY DEF Key, BucketKeys

\* There are finitely many rows.
LEMMA KeysFinite == IsFiniteSet(BucketKeys)
<1> DEFINE Triples == (Grains \X Minutes) \X Backends
           key == [t \in Triples |-> Key(t[1][1], t[1][2], t[2])]
<1>1. IsFiniteSet(Grains)
  <2>1. IsFiniteSet({"minute"}) /\ IsFiniteSet({"hour"})
    BY FS_Singleton
  <2>2. Grains = {"minute"} \cup {"hour"}
    BY DEF Grains
  <2> QED
    BY <2>1, <2>2, FS_Union
<1>2. IsFiniteSet(Triples)
  BY <1>1, BackendsFacts, MinutesFacts, FS_Product
<1>3. \A t \in Triples : key[t] \in BucketKeys
  BY KeyIn
<1>4. \A k \in BucketKeys : \E t \in Triples : key[t] = k
  <2> SUFFICES ASSUME NEW k \in BucketKeys
               PROVE  \E t \in Triples : key[t] = k
    OBVIOUS
  <2> DEFINE t == <<<<k.grain, k.start>>, k.backend>>
  <2>1. t \in Triples
    BY DEF BucketKeys
  <2>2. key[t] = Key(k.grain, k.start, k.backend)
    BY <2>1
  <2>3. Key(k.grain, k.start, k.backend) = k
    BY DEF Key, BucketKeys
  <2> QED
    BY <2>1, <2>2, <2>3
<1>5. key \in [Triples -> BucketKeys]
  BY <1>3
<1> HIDE DEF Triples, key
<1>6. key \in Surjection(Triples, BucketKeys)
  BY <1>4, <1>5 DEF Surjection
<1> QED
  BY <1>2, <1>6, FS_Surjection

\* The bucket of a moment that has been.
LEMMA BucketIn ==
  ASSUME NEW time \in 0..MaxTime, NEW g \in Grains
  PROVE  /\ FloorTo(time, Unit(g)) \in Minutes /\ FloorTo(time, Unit(g)) <= time
<1>1. Minute \in Nat \ {0} /\ Hour \in Nat \ {0} /\ MaxTime \in Nat
  BY TimeAssumption
<1>2. Unit(g) \in {Minute, Hour}
  BY DEF Unit
<1> DEFINE u == Unit(g)
           m == FloorTo(time, u)
           q == time \div u
<1>3. time \in Nat /\ time \in Int /\ u \in Nat \ {0}
  BY <1>1, <1>2
<1> HIDE DEF u
<1>4. m \in Int /\ m <= time /\ m = u * q /\ Multiple(m, u)
  BY <1>3, FloorBelow, FloorMultiple
<1>5. q \in Nat
  BY <1>3
<1>6. m >= 0
  BY <1>3, <1>4, <1>5
<1>7. Multiple(m, Minute)
  BY <1>2, <1>4, HoursAreMinutes DEF u
<1>8. m % Minute = 0
  <2>1. PICK p \in Int : m = Minute * p
    BY <1>7 DEF Multiple
  <2> QED
    BY <1>1, <2>1
<1>9. m \in 0..MaxTime
  BY <1>1, <1>3, <1>4, <1>6
<1> QED
  BY <1>4, <1>8, <1>9 DEF Minutes, u

-----------------------------------------------------------------------------
(* What is added to a table.                                               *)

Entries(added) == IsFiniteSet(DOMAIN added) /\ \A i \in DOMAIN added : added[i] \in Record

\* Counting entries adds as many to the two rows of all time together.
LEMMA AddsAll ==
  ASSUME NEW table \in [Backends -> Nat], NEW added, Entries(added)
  PROVE  /\ WithAll(table, added) \in [Backends -> Nat]
         /\ WithAll(table, added)[Old] + WithAll(table, added)[New]
              = table[Old] + table[New] + Cardinality(DOMAIN added)
<1> DEFINE of(b) == {i \in DOMAIN added : added[i].backend = b}
<1>1. \A b : IsFiniteSet(of(b)) /\ Cardinality(of(b)) \in Nat
  BY FS_Subset, FS_CardinalityType DEF Entries
<1>2. /\ of(Old) \cup of(New) = DOMAIN added /\ of(Old) \cap of(New) = {}
  BY BackendsFacts DEF Entries, Record
<1>3. Cardinality(DOMAIN added) = Cardinality(of(Old)) + Cardinality(of(New))
  BY <1>1, <1>2, CountTwo
<1>4. Old \in Backends /\ New \in Backends
  BY DEF Backends
<1>5. WithAll(table, added) = [b \in Backends |-> table[b] + Cardinality(of(b))]
  BY DEF WithAll
<1> HIDE DEF of
<1> QED
  BY <1>1, <1>3, <1>4, <1>5

Both(table, g, m) == table[Key(g, m, Old)] + table[Key(g, m, New)]

\* Nothing is too late for a bucket that is younger than the retention.
LEMMA AddsToBuckets ==
  ASSUME NEW table \in [BucketKeys -> Nat], NEW added, Entries(added), now \in Int
  PROVE  /\ WithBuckets(table, added) \in [BucketKeys -> Nat]
         /\ \A g \in Grains, m \in Minutes : m >= now - Retention =>
              Both(WithBuckets(table, added), g, m)
                = Both(table, g, m)
                  + Cardinality({i \in DOMAIN added : FloorTo(added[i].start, Unit(g)) = m})
<1> DEFINE of(k) == {i \in DOMAIN added :
                       /\ Retained(added[i])
                       /\ added[i].backend = k.backend
                       /\ FloorTo(added[i].start, Unit(k.grain)) = k.start}
<1>1. \A k : IsFiniteSet(of(k)) /\ Cardinality(of(k)) \in Nat
  BY FS_Subset, FS_CardinalityType DEF Entries
<1>2. WithBuckets(table, added) = [k \in BucketKeys |-> table[k] + Cardinality(of(k))]
  BY DEF WithBuckets
<1>3. WithBuckets(table, added) \in [BucketKeys -> Nat]
  <2> HIDE DEF of
  <2> QED
    BY <1>1, <1>2
<1>4. ASSUME NEW g \in Grains, NEW m \in Minutes, m >= now - Retention
      PROVE  Both(WithBuckets(table, added), g, m)
               = Both(table, g, m)
                 + Cardinality({i \in DOMAIN added : FloorTo(added[i].start, Unit(g)) = m})
  <2> DEFINE all == {i \in DOMAIN added : FloorTo(added[i].start, Unit(g)) = m}
             old == Key(g, m, Old)
             new == Key(g, m, New)
  <2>1. /\ old \in BucketKeys /\ old.grain = g /\ old.start = m /\ old.backend = Old
        /\ new \in BucketKeys /\ new.grain = g /\ new.start = m /\ new.backend = New
    BY KeyIn DEF Backends
  <2>2. \A i \in all : Retained(added[i])
    <3> SUFFICES ASSUME NEW i \in all
                 PROVE  Retained(added[i])
      OBVIOUS
    <3>1. added[i].start \in Int
      BY DEF Entries, Record
    <3>2. Unit(g) \in Nat \ {0}
      BY TimeAssumption DEF Unit
    <3>3. m <= added[i].start /\ m \in Int
      BY <3>1, <3>2, FloorBelow
    <3> QED
      BY <1>4, <3>1, <3>3, TimeAssumption DEF Retained
  <2>3. of(old) \cup of(new) = all /\ of(old) \cap of(new) = {}
    BY <2>1, <2>2, BackendsFacts DEF Entries, Record
  <2> HIDE DEF of, all, old, new
  <2>4. Cardinality(all) = Cardinality(of(old)) + Cardinality(of(new))
    BY <1>1, <2>3, CountTwo
  <2>5. /\ WithBuckets(table, added)[old] = table[old] + Cardinality(of(old))
        /\ WithBuckets(table, added)[new] = table[new] + Cardinality(of(new))
    BY <1>2, <2>1
  <2>6. table[old] \in Nat /\ table[new] \in Nat
    BY <2>1
  <2>7. Both(WithBuckets(table, added), g, m) = Both(table, g, m) + Cardinality(all)
    BY <1>1, <2>4, <2>5, <2>6 DEF Both, old, new
  <2> QED
    BY <2>7 DEF all
<1> QED
  BY <1>3, <1>4

\* Nothing younger than the retention is pruned.
LEMMA PrunesTheOld ==
  ASSUME NEW table \in [BucketKeys -> Nat], now \in Int
  PROVE  /\ Pruned(table) \in [BucketKeys -> Nat]
         /\ \A g \in Grains, m \in Minutes : m >= now - Retention =>
              Both(Pruned(table), g, m) = Both(table, g, m)
<1>1. now - Retention \in Int /\ Minute \in Nat \ {0}
  BY TimeAssumption
<1>2. PruneCutoff \in Int /\ PruneCutoff <= now - Retention
  BY <1>1, FloorBelow DEF PruneCutoff
<1>3. Pruned(table) \in [BucketKeys -> Nat]
  BY DEF Pruned
<1>4. ASSUME NEW g \in Grains, NEW m \in Minutes, m >= now - Retention, NEW b \in Backends
      PROVE  Pruned(table)[Key(g, m, b)] = table[Key(g, m, b)]
  <2>1. m >= PruneCutoff
    BY <1>1, <1>2, <1>4, MinutesFacts
  <2> QED
    BY <2>1, KeyIn DEF Pruned
<1> QED
  BY <1>3, <1>4 DEF Both, Backends

-----------------------------------------------------------------------------
(* Batches.                                                                *)

\* A finite set of identifiers that is not empty has a greatest element,
LEMMA Greatest ==
  ASSUME NEW S \in SUBSET Nat, IsFiniteSet(S), S # {}
  PROVE  Max(S) \in S /\ \A y \in S : y <= Max(S)
<1> DEFINE Wrong == {s \in SUBSET S : s # {} /\ ~ \E x \in s : \A y \in s : x >= y}
<1>1. ASSUME Wrong # {}
      PROVE  FALSE
  <2>1. PICK s \in Wrong : \A t \in SUBSET s : t # s => t \notin Wrong
    <3>1. Wrong \in SUBSET (SUBSET S)
      OBVIOUS
    <3> HIDE DEF Wrong
    <3> QED
      BY <3>1, <1>1, Smallest
  <2>2. PICK x \in s : TRUE
    BY <2>1
  <2> DEFINE rest == s \ {x}
  <2>3. rest \in SUBSET s /\ rest # s /\ rest \notin Wrong /\ rest \in SUBSET S
    BY <2>1, <2>2
  <2>4. CASE rest = {}
    <3>1. \A y \in s : x >= y
      BY <2>2, <2>4
    <3> QED
      BY <2>1, <2>2, <3>1
  <2>5. CASE rest # {}
    <3>1. PICK z \in rest : \A y \in rest : z >= y
      BY <2>3, <2>5
    <3>2. x \in Nat /\ z \in Nat /\ z \in s
      BY <2>1, <2>2, <3>1
    <3>3. CASE x >= z
      <4>1. \A y \in s : y \in Nat /\ x >= y
        BY <2>1, <3>1, <3>2, <3>3
      <4> QED
        BY <2>1, <2>2, <4>1
    <3>4. CASE z >= x
      <4>1. \A y \in s : y \in Nat /\ z >= y
        BY <2>1, <3>1, <3>2, <3>4
      <4> QED
        BY <2>1, <3>2, <4>1
    <3> QED
      BY <3>2, <3>3, <3>4
  <2> QED
    BY <2>4, <2>5
<1>2. S \notin Wrong
  BY <1>1
<1>3. \E x \in S : \A y \in S : x >= y
  BY <1>2
<1> QED
  BY <1>3 DEF Max

\* and a set of them a least one.
LEMMA Lowest ==
  ASSUME NEW S \in SUBSET Nat, S # {}
  PROVE  \E x \in S : \A y \in S : x <= y
<1> DEFINE Below == {pair \in Nat \X Nat : pair[1] < pair[2]}
<1>1. IsWellFoundedOn(Below, Nat)
  BY NatLessThanWellFounded DEF OpToRel
<1> HIDE DEF Below
<1>2. PICK x \in S : \A y \in S : ~ (<<y, x>> \in Below)
  BY <1>1, WFMin
<1>3. \A y \in S : ~ (y < x)
  BY <1>2 DEF Below
<1> QED
  BY <1>3

Present(ledger) == {id \in DOMAIN ledger : ledger[id] # None}
Upto(ledger, cursor) == {id \in DOMAIN ledger : ledger[id] # None /\ id <= cursor}

\* A ledger holds finitely many records.
LEMMA LedgerFacts ==
  ASSUME NEW ids, IsFiniteSet(ids), NEW ledger \in [ids -> Record \cup {None}]
  PROVE  /\ IsFiniteSet(Present(ledger))
         /\ \A cursor : Upto(ledger, cursor) \subseteq Present(ledger)
         /\ \A cursor : IsFiniteSet(Upto(ledger, cursor))
         /\ \A id \in Present(ledger) : ledger[id] \in Record
<1>1. Present(ledger) \subseteq ids /\ \A id \in Present(ledger) : ledger[id] \in Record
  BY DEF Present
<1>2. \A cursor : Upto(ledger, cursor) \subseteq Present(ledger)
  BY DEF Upto, Present
<1> QED
  BY <1>1, <1>2, FS_Subset

\* A batch takes up where the cursor is and leaves nothing out on the way; one
\* that is not full is the last.
LEMMA BatchTakesNext ==
  ASSUME NEW ids \in SUBSET (Nat \ {0}), IsFiniteSet(ids),
         NEW ledger \in [ids -> Record \cup {None}], NEW cursor \in Nat,
         NEW rows, rows = ReadBatch(ledger, cursor)
  PROVE  /\ Entries(rows) /\ DOMAIN rows \subseteq Present(ledger)
         /\ \A i \in DOMAIN rows : rows[i] = ledger[i]
         /\ Upto(ledger, cursor) \cap DOMAIN rows = {}
         /\ Advanced(cursor, rows) \in ids \cup {cursor}
         /\ Upto(ledger, Advanced(cursor, rows)) = Upto(ledger, cursor) \cup DOMAIN rows
         /\ Exhausted(rows) => Present(ledger) = Upto(ledger, cursor) \cup DOMAIN rows
<1> DEFINE after == After(ledger, cursor)
           keys == BatchKeys(ledger, cursor)
           below(id) == {i \in after : i < id}
<1>1. /\ DOMAIN rows = keys /\ \A i \in keys : rows[i] = ledger[i]
  BY DEF ReadBatch, Restrict
<1>2. /\ after = {id \in ids : ledger[id] # None /\ id > cursor}
      /\ keys = {id \in after : Cardinality(below(id)) < Batch}
  BY DEF After, BatchKeys
<1>3. /\ IsFiniteSet(after) /\ IsFiniteSet(keys) /\ keys \subseteq after
      /\ after \subseteq Nat /\ after \subseteq ids /\ keys \subseteq Nat
      /\ \A id : IsFiniteSet(below(id)) /\ Cardinality(below(id)) \in Nat
  BY <1>2, FS_Subset, FS_CardinalityType
<1>4. /\ Upto(ledger, cursor) \cap keys = {}
      /\ Present(ledger) = Upto(ledger, cursor) \cup after
  <2>1. DOMAIN ledger = ids /\ \A id \in ids : id > cursor <=> ~ (id <= cursor)
    OBVIOUS
  <2> HIDE DEF after, keys
  <2>2. Upto(ledger, cursor) \cap after = {}
    BY <1>2, <2>1 DEF Upto
  <2>3. Present(ledger) = Upto(ledger, cursor) \cup after
    BY <1>2, <2>1 DEF Present, Upto
  <2> QED
    BY <1>3, <2>2, <2>3
<1>6. Entries(rows) /\ keys \subseteq Present(ledger)
  BY <1>1, <1>2, <1>3 DEF Entries, Present
<1>7. Advanced(cursor, rows) = IF keys = {} THEN cursor ELSE Max(keys)
  BY <1>1 DEF Advanced
<1>8. keys # {} => Max(keys) \in keys /\ \A y \in keys : y <= Max(keys)
  <2> HIDE DEF keys
  <2> QED
    BY <1>3, Greatest
<1>9. Advanced(cursor, rows) \in ids \cup {cursor}
  BY <1>3, <1>7, <1>8
<1>10. ASSUME NEW id \in after, NEW last \in keys, id <= last
       PROVE  id \in keys
  <2>1. id \in Nat /\ last \in Nat /\ after \subseteq Nat
    BY <1>3
  <2>2. below(id) \in SUBSET below(last)
    BY <1>10, <2>1
  <2>3. Cardinality(below(id)) <= Cardinality(below(last))
    BY <1>3, <2>2, FS_Subset
  <2>4. Cardinality(below(last)) < Batch
    BY <1>2
  <2>5. Cardinality(below(id)) \in Nat /\ Cardinality(below(last)) \in Nat /\ Batch \in Nat
    BY <1>3, BoundsAssumption
  <2> QED
    BY <1>2, <2>3, <2>4, <2>5
<1> HIDE DEF after, keys
<1>11. Upto(ledger, Advanced(cursor, rows)) = Upto(ledger, cursor) \cup keys
  <2>1. CASE keys = {}
    BY <1>7, <2>1
  <2>2. CASE keys # {}
    <3> DEFINE last == Max(keys)
    <3>1. last \in keys /\ last \in after /\ last \in Nat /\ last > cursor
      BY <1>2, <1>3, <1>8, <2>2
    <3>2. Advanced(cursor, rows) = last
      BY <1>7, <2>2
    <3>3. \A y \in keys : y <= last
      BY <1>8, <2>2
    <3> HIDE DEF last
    <3>4. ASSUME NEW id \in Upto(ledger, last)
          PROVE  id \in Upto(ledger, cursor) \cup keys
      <4>1. id \in ids /\ ledger[id] # None /\ id <= last /\ id \in Nat
        BY DEF Upto
      <4>2. CASE id <= cursor
        BY <4>1, <4>2 DEF Upto
      <4>3. CASE id > cursor
        BY <1>2, <1>10, <3>1, <4>1, <4>3
      <4> QED
        BY <4>1, <4>2, <4>3
    <3>5. Upto(ledger, cursor) \subseteq Upto(ledger, last)
      <4>1. \A id \in ids : id <= cursor => id <= last
        BY <3>1
      <4> QED
        BY <4>1 DEF Upto
    <3>6. keys \subseteq Upto(ledger, last)
      BY <1>2, <1>3, <3>3 DEF Upto
    <3> QED
      BY <3>2, <3>4, <3>5, <3>6
  <2> QED
    BY <2>1, <2>2
<1>12. ASSUME Exhausted(rows)
       PROVE  after = keys
  <2>1. Cardinality(keys) < Batch /\ Cardinality(keys) \in Nat /\ Batch \in Nat
    BY <1>1, <1>3, <1>12, FS_CardinalityType, BoundsAssumption DEF Exhausted
  <2>2. ASSUME after \ keys # {}
        PROVE  FALSE
    <3>1. PICK x \in after \ keys : \A y \in after \ keys : x <= y
      BY <1>3, <2>2, Lowest
    <3>2. below(x) \in SUBSET keys
      <4>1. \A y \in after \ keys : ~ (y < x)
        <5>1. x \in Nat /\ \A y \in after : y \in Nat
          BY <1>3, <3>1
        <5> QED
          BY <3>1, <5>1
      <4> QED
        BY <4>1
    <3>3. Cardinality(below(x)) <= Cardinality(keys)
      BY <1>3, <3>2, FS_Subset
    <3>4. Cardinality(below(x)) < Batch
      BY <1>3, <2>1, <3>3
    <3> QED
      BY <1>2, <3>1, <3>4
  <2> QED
    BY <1>3, <2>2
<1> QED
  BY <1>1, <1>4, <1>6, <1>9, <1>11, <1>12

-----------------------------------------------------------------------------
(* The invariant.                                                          *)

Tables ==
  [ requestAll : [Backends -> Nat], attemptAll : [Backends -> Nat],
    requestBucket : [BucketKeys -> Nat], attemptBucket : [BucketKeys -> Nat] ]

TypeOK ==
  /\ requests \in [RequestIds -> Record \cup {None}]
  /\ attempts \in [AttemptIds -> Record \cup {None}]
  /\ tables \in Tables /\ missing \subseteq TableNames /\ foreign \subseteq TableNames
  /\ meta \in Meta \cup {None} /\ bucketMeta \in BucketMeta \cup {None}
  /\ server \in {"down", "opened", "migrating", "serving"}
  /\ now \in 0..MaxTime

\* No record starts after it was written.
Past(time, ledger) == \A id \in Present(ledger) : ledger[id].start <= time

\* The rollups are this schema's, or there are none yet.
Current == meta # None => meta.version = "current"

OwnTypes == Current \/ server # "down" => foreign = {}

\* The attempts come after the requests, and their buckets last.
InTurn ==
  /\ meta = None => bucketMeta = None
  /\ Current /\ Progress.phase = "requests" => Progress.attemptCursor = 0

ReadyToServe ==
  server = "serving" =>
    /\ meta # None /\ meta.version = "current" /\ meta.phase = "ready"
    /\ bucketMeta # None /\ bucketMeta.ready

\* The records that are in the rollups.
DoneRequests ==
  IF Progress.phase = "requests" THEN Upto(requests, Progress.requestCursor)
  ELSE Present(requests)
DoneAttempts ==
  IF Progress.phase = "requests" THEN {}
  ELSE IF Progress.phase = "attempts" THEN Upto(attempts, Progress.attemptCursor)
  ELSE Present(attempts)
DoneBuckets ==
  IF BucketProgress.ready THEN Present(attempts)
  ELSE Upto(attempts, BucketProgress.cursor)

\* A name may be migrated while the rows are not, so it is the rows of the two
\* backends together that count the records.
AllExact(table, done) == table[Old] + table[New] = Cardinality(done)

\* Buckets younger than the retention are exact: none of them has ever been
\* pruned, and no record was too late for one.
Of(ledger, done, g, m) == {id \in done : FloorTo(ledger[id].start, Unit(g)) = m}

BucketsExact(time, table, ledger, done) ==
  \A g \in Grains, m \in Minutes : m >= time - Retention =>
    Both(table, g, m) = Cardinality(Of(ledger, done, g, m))

Exact ==
  Current =>
    /\ AllExact(tables.requestAll, DoneRequests)
    /\ AllExact(tables.attemptAll, DoneAttempts)
    /\ BucketsExact(now, tables.requestBucket, requests, DoneRequests)
    /\ BucketsExact(now, tables.attemptBucket, attempts, DoneBuckets)

IInv ==
  /\ TypeOK /\ Past(now, requests) /\ Past(now, attempts)
  /\ OwnTypes /\ InTurn /\ ReadyToServe /\ Exact

-----------------------------------------------------------------------------
(* What keeps the tables exact.                                            *)

\* Each of the records added is counted once more.
LEMMA AllFills ==
  ASSUME NEW table \in [Backends -> Nat], NEW done, IsFiniteSet(done),
         NEW added, Entries(added), done \cap DOMAIN added = {},
         AllExact(table, done)
  PROVE  AllExact(WithAll(table, added), done \cup DOMAIN added)
<1>1. WithAll(table, added)[Old] + WithAll(table, added)[New]
        = table[Old] + table[New] + Cardinality(DOMAIN added)
  BY AddsAll
<1>2. /\ Cardinality(done \cup DOMAIN added) = Cardinality(done) + Cardinality(DOMAIN added)
      /\ Cardinality(done) \in Nat /\ Cardinality(DOMAIN added) \in Nat
  BY CountTwo DEF Entries
<1> QED
  BY <1>1, <1>2 DEF AllExact

\* ... and is put into one bucket of each grain.
LEMMA BucketsFill ==
  ASSUME NEW table \in [BucketKeys -> Nat], NEW done, IsFiniteSet(done),
         NEW added, Entries(added), done \cap DOMAIN added = {}, now \in Int,
         NEW ledger, NEW other, BucketsExact(now, table, ledger, done),
         \A id \in done : other[id] = ledger[id],
         \A id \in DOMAIN added : other[id] = added[id]
  PROVE  BucketsExact(now, WithBuckets(table, added), other, done \cup DOMAIN added)
<1> SUFFICES ASSUME NEW g \in Grains, NEW m \in Minutes, m >= now - Retention
             PROVE  Both(WithBuckets(table, added), g, m)
                      = Cardinality(Of(other, done \cup DOMAIN added, g, m))
  BY DEF BucketsExact
<1> DEFINE fresh == {i \in DOMAIN added : FloorTo(added[i].start, Unit(g)) = m}
           known == Of(ledger, done, g, m)
<1>1. Both(WithBuckets(table, added), g, m) = Both(table, g, m) + Cardinality(fresh)
  BY AddsToBuckets
<1>2. Both(table, g, m) = Cardinality(known)
  BY DEF BucketsExact
<1>3. /\ IsFiniteSet(fresh) /\ IsFiniteSet(known) /\ known \cap fresh = {}
  BY FS_Subset DEF Entries, Of
<1>4. Of(other, done \cup DOMAIN added, g, m) = known \cup fresh
  BY DEF Of
<1> QED
  BY <1>1, <1>2, <1>3, <1>4, CountTwo

\* Time makes fewer buckets young, and a new name leaves the start alone.
LEMMA BucketsKeep ==
  ASSUME NEW table, NEW done, NEW time \in Int, NEW later \in Int, time <= later,
         NEW ledger, NEW other, BucketsExact(time, table, ledger, done),
         \A id \in done : other[id].start = ledger[id].start
  PROVE  BucketsExact(later, table, other, done)
<1> SUFFICES ASSUME NEW g \in Grains, NEW m \in Minutes, m >= later - Retention
             PROVE  Both(table, g, m) = Cardinality(Of(other, done, g, m))
  BY DEF BucketsExact
<1>1. m >= time - Retention
  BY MinutesFacts, TimeAssumption
<1>2. Of(other, done, g, m) = Of(ledger, done, g, m)
  BY DEF Of
<1> QED
  BY <1>1, <1>2 DEF BucketsExact

\* Pruning leaves the buckets the invariant speaks of.
LEMMA BucketsPruned ==
  ASSUME NEW table \in [BucketKeys -> Nat], NEW done, NEW ledger, now \in Int,
         BucketsExact(now, table, ledger, done)
  PROVE  BucketsExact(now, Pruned(table), ledger, done)
BY PrunesTheOld DEF BucketsExact

\* Empty tables count no record.
LEMMA EmptyFacts ==
  /\ Empty \in Tables
  /\ AllExact(Empty.requestAll, {}) /\ AllExact(Empty.attemptAll, {})
  /\ \A time, ledger : /\ BucketsExact(time, Empty.requestBucket, ledger, {})
                       /\ BucketsExact(time, Empty.attemptBucket, ledger, {})
<1>1. Empty \in Tables
  BY DEF Empty, Tables
<1>2. AllExact(Empty.requestAll, {}) /\ AllExact(Empty.attemptAll, {})
  BY FS_EmptySet DEF Empty, AllExact, Backends
<1>3. ASSUME NEW g \in Grains, NEW m \in Minutes
      PROVE  Both(Empty.requestBucket, g, m) = 0 /\ Both(Empty.attemptBucket, g, m) = 0
  BY KeyIn DEF Both, Empty, Backends
<1>4. \A ledger, g, m : Cardinality(Of(ledger, {}, g, m)) = 0
  BY FS_EmptySet DEF Of
<1> QED
  BY <1>1, <1>2, <1>3, <1>4 DEF BucketsExact

\* Two ledgers of the same records, but for the names of their backends.
SameRecords(ledger, other) ==
  /\ DOMAIN other = DOMAIN ledger
  /\ \A id \in DOMAIN ledger :
       /\ other[id] # None <=> ledger[id] # None
       /\ ledger[id] # None => other[id].start = ledger[id].start

\* Ledgers with the same records have the same records up to any cursor.
LEMMA SameFacts ==
  ASSUME NEW ledger, NEW other, SameRecords(ledger, other)
  PROVE  /\ Present(other) = Present(ledger)
         /\ \A cursor : Upto(other, cursor) = Upto(ledger, cursor)
         /\ \A id \in Present(ledger) : other[id].start = ledger[id].start
BY DEF SameRecords, Present, Upto

\* A rename moves no record in time.
LEMMA RenamedFacts ==
  ASSUME NEW ids, NEW ledger \in [ids -> Record \cup {None}]
  PROVE  /\ Renamed(ledger) \in [ids -> Record \cup {None}]
         /\ SameRecords(ledger, Renamed(ledger))
<1>1. ASSUME NEW id \in ids, ledger[id] # None
      PROVE  /\ ledger[id] \in Record
             /\ [ledger[id] EXCEPT !.backend = New] \in Record
             /\ [ledger[id] EXCEPT !.backend = New].start = ledger[id].start
  BY <1>1 DEF Record, Backends
<1>2. \A record \in Record : record # None
  BY NoneAssumption
<1>3. \A id \in ids : Renamed(ledger)[id] =
        IF ledger[id] # None /\ ledger[id].backend = Old
        THEN [ledger[id] EXCEPT !.backend = New] ELSE ledger[id]
  BY DEF Renamed
<1>4. Renamed(ledger) = [id \in ids |-> Renamed(ledger)[id]]
  BY DEF Renamed
<1>5. \A id \in ids : Renamed(ledger)[id] \in Record \cup {None}
  BY <1>1, <1>3
<1>6. \A id \in ids : /\ Renamed(ledger)[id] # None <=> ledger[id] # None
                      /\ ledger[id] # None => Renamed(ledger)[id].start = ledger[id].start
  BY <1>1, <1>2, <1>3
<1> QED
  BY <1>4, <1>5, <1>6 DEF SameRecords

-----------------------------------------------------------------------------
(* The steps that count nothing.                                           *)

\* The types of the tables, one by one.
LEMMA TablesFacts ==
  ASSUME TypeOK
  PROVE  /\ tables.requestAll \in [Backends -> Nat]
         /\ tables.attemptAll \in [Backends -> Nat]
         /\ tables.requestBucket \in [BucketKeys -> Nat]
         /\ tables.attemptBucket \in [BucketKeys -> Nat]
         /\ now \in Int /\ now \in 0..MaxTime
BY TimeAssumption DEF TypeOK, Tables

\* The counted records are finitely many records of the ledger.
LEMMA DoneFacts ==
  ASSUME TypeOK
  PROVE  /\ IsFiniteSet(Present(requests)) /\ IsFiniteSet(Present(attempts))
         /\ DoneRequests \subseteq Present(requests) /\ IsFiniteSet(DoneRequests)
         /\ DoneAttempts \subseteq Present(attempts) /\ IsFiniteSet(DoneAttempts)
         /\ DoneBuckets \subseteq Present(attempts) /\ IsFiniteSet(DoneBuckets)
<1>1. /\ IsFiniteSet(Present(requests)) /\ IsFiniteSet(Present(attempts))
      /\ \A cursor : Upto(requests, cursor) \subseteq Present(requests)
      /\ \A cursor : Upto(attempts, cursor) \subseteq Present(attempts)
  BY LedgerFacts, IdsAssumption DEF TypeOK
<1>2. /\ DoneRequests \subseteq Present(requests)
      /\ DoneAttempts \subseteq Present(attempts)
      /\ DoneBuckets \subseteq Present(attempts)
  BY <1>1 DEF DoneRequests, DoneAttempts, DoneBuckets
<1> QED
  BY <1>1, <1>2, FS_Subset

\* Neither a pruned bucket, nor the clock, nor a name that is migrated makes a
\* table wrong.
Quiet ==
  /\ SameRecords(requests, requests') /\ SameRecords(attempts, attempts')
  /\ UNCHANGED <<meta, bucketMeta>>
  /\ now' \in Int /\ now <= now'
  /\ Current =>
       /\ UNCHANGED <<tables.requestAll, tables.attemptAll>>
       /\ tables'.requestBucket \in {tables.requestBucket, Pruned(tables.requestBucket)}
       /\ tables'.attemptBucket \in {tables.attemptBucket, Pruned(tables.attemptBucket)}

\* A step that counts nothing and forgets nothing keeps the tables exact.
LEMMA QuietIsExact ==
  ASSUME TypeOK, Exact, Quiet
  PROVE  Exact'
<1> SUFFICES ASSUME Current'
             PROVE  /\ AllExact(tables.requestAll', DoneRequests')
                    /\ AllExact(tables.attemptAll', DoneAttempts')
                    /\ BucketsExact(now', tables.requestBucket', requests', DoneRequests')
                    /\ BucketsExact(now', tables.attemptBucket', attempts', DoneBuckets')
  BY DEF Exact, AllExact, BucketsExact, Of, Both, Current
<1>1. Current /\ Progress' = Progress /\ BucketProgress' = BucketProgress
  BY DEF Quiet, Current, Progress, BucketProgress
<1>2. /\ DoneRequests' = DoneRequests /\ DoneAttempts' = DoneAttempts
      /\ DoneBuckets' = DoneBuckets
  <2>1. /\ Present(requests') = Present(requests)
        /\ \A cursor : Upto(requests', cursor) = Upto(requests, cursor)
        /\ Present(attempts') = Present(attempts)
        /\ \A cursor : Upto(attempts', cursor) = Upto(attempts, cursor)
    BY SameFacts DEF Quiet
  <2> QED
    BY <1>1, <2>1 DEF DoneRequests, DoneAttempts, DoneBuckets
<1>3. /\ \A id \in DoneRequests : requests'[id].start = requests[id].start
      /\ \A id \in DoneBuckets : attempts'[id].start = attempts[id].start
  BY DoneFacts, SameFacts DEF Quiet
<1>4. /\ AllExact(tables.requestAll, DoneRequests)
      /\ AllExact(tables.attemptAll, DoneAttempts)
      /\ BucketsExact(now, tables.requestBucket, requests, DoneRequests)
      /\ BucketsExact(now, tables.attemptBucket, attempts, DoneBuckets)
  BY <1>1 DEF Exact
<1>5. now \in Int /\ now' \in Int /\ now <= now'
  BY TablesFacts DEF Quiet
<1>6. /\ BucketsExact(now, tables'.requestBucket, requests, DoneRequests)
      /\ BucketsExact(now, tables'.attemptBucket, attempts, DoneBuckets)
  BY <1>1, <1>4, <1>5, TablesFacts, BucketsPruned DEF Quiet
<1>7. /\ BucketsExact(now', tables'.requestBucket, requests', DoneRequests)
      /\ BucketsExact(now', tables'.attemptBucket, attempts', DoneBuckets)
  BY <1>3, <1>5, <1>6, BucketsKeep
<1> QED
  BY <1>1, <1>2, <1>4, <1>7 DEF Quiet

\* Records stay in the past as the clock goes on.
LEMMA PastKeeps ==
  ASSUME NEW ledger, NEW other, SameRecords(ledger, other), NEW time \in Int,
         NEW later \in Int, time <= later, Past(time, ledger),
         \A id \in Present(ledger) : ledger[id].start \in Int
  PROVE  Past(later, other)
<1>1. /\ Present(other) = Present(ledger)
      /\ \A id \in Present(ledger) : other[id].start = ledger[id].start
  BY SameFacts
<1> QED
  BY <1>1 DEF Past

\* Records start at integers.
LEMMA StartsAreTimes ==
  ASSUME TypeOK
  PROVE  /\ \A id \in Present(requests) : requests[id].start \in Int
         /\ \A id \in Present(attempts) : attempts[id].start \in Int
<1>1. \A record \in Record : record.start \in Int
  BY DEF Record
<1> QED
  BY <1>1, LedgerFacts, IdsAssumption DEF TypeOK

\* A quiet step adds no record of the future.
LEMMA QuietIsPast ==
  ASSUME IInv, Quiet
  PROVE  Past(now', requests') /\ Past(now', attempts')
<1>1. now \in Int /\ now' \in Int /\ now <= now'
  BY TablesFacts DEF IInv, Quiet
<1> QED
  BY <1>1, PastKeeps, StartsAreTimes DEF IInv, Quiet

\* Nothing but the types and the rest of the invariant is left to show.
Rest == TypeOK /\ OwnTypes /\ InTurn /\ ReadyToServe

\* A quiet step keeps the invariant where it keeps the rest.
LEMMA QuietInv ==
  ASSUME IInv, Quiet, Rest'
  PROVE  IInv'
<1>1. Exact'
  BY QuietIsExact DEF IInv
<1>2. (Past(now, requests) /\ Past(now, attempts))'
  BY QuietIsPast DEF Past, Present
<1> QED
  BY <1>1, <1>2 DEF IInv, Rest

\* A ledger left alone has the same records.
LEMMA SameAlways ==
  /\ UNCHANGED requests => SameRecords(requests, requests')
  /\ UNCHANGED attempts => SameRecords(attempts, attempts')
BY DEF SameRecords

\* Opening replaces the tables of a foreign type by empty ones (Store::open).
LEMMA OpenInv ==
  ASSUME IInv, Open
  PROVE  IInv'
<1>1. /\ tables'.requestAll =
           IF "requestAll" \in foreign THEN Empty.requestAll ELSE tables.requestAll
      /\ tables'.attemptAll =
           IF "attemptAll" \in foreign THEN Empty.attemptAll ELSE tables.attemptAll
      /\ tables'.requestBucket =
           IF "requestBucket" \in foreign THEN Empty.requestBucket ELSE tables.requestBucket
      /\ tables'.attemptBucket =
           IF "attemptBucket" \in foreign THEN Empty.attemptBucket ELSE tables.attemptBucket
      /\ tables' = [name \in TableNames |-> tables'[name]]
  BY DEF Open, TableNames
<1>2. tables' \in Tables
  BY <1>1, EmptyFacts DEF IInv, TypeOK, Tables, TableNames
<1>3. Quiet
  BY <1>1, SameAlways, TablesFacts DEF IInv, Open, Quiet, OwnTypes, ledgers
<1>4. Rest'
  BY <1>2
  DEF IInv, Open, Rest, TypeOK, OwnTypes, InTurn, ReadyToServe, Current,
      Progress, ledgers
<1> QED
  BY <1>3, <1>4, QuietInv

\* A backend is renamed in the ledger or it is not.
LEMMA MaybeRenameFacts ==
  ASSUME TypeOK, MaybeRename
  PROVE  /\ SameRecords(requests, requests') /\ SameRecords(attempts, attempts')
         /\ requests' \in [RequestIds -> Record \cup {None}]
         /\ attempts' \in [AttemptIds -> Record \cup {None}]
<1>1. CASE UNCHANGED ledgers
  BY <1>1, SameAlways DEF TypeOK, ledgers
<1>2. CASE RenameBackend
  BY <1>2, RenamedFacts DEF TypeOK, RenameBackend
<1> QED
  BY <1>1, <1>2 DEF MaybeRename

\* A migration goes on where the last one stopped.
LEMMA BeginSchemaInv ==
  ASSUME IInv, BeginSchema
  PROVE  IInv'
<1>1. Quiet
  BY MaybeRenameFacts, TablesFacts DEF IInv, BeginSchema, Quiet, derived
<1>2. Rest'
  BY MaybeRenameFacts
  DEF IInv, BeginSchema, Rest, TypeOK, OwnTypes, InTurn, ReadyToServe, Current,
      Progress, derived
<1> QED
  BY <1>1, <1>2, QuietInv

\* Pruning touches nothing but buckets.
LEMMA PruneFacts ==
  ASSUME TypeOK, PruneExpired
  PROVE  /\ tables' \in Tables /\ missing' \subseteq TableNames
         /\ UNCHANGED <<tables.requestAll, tables.attemptAll>>
         /\ tables'.requestBucket = Pruned(tables.requestBucket)
         /\ tables'.attemptBucket = Pruned(tables.attemptBucket)
BY TablesFacts, PrunesTheOld DEF TypeOK, PruneExpired, Tables

\* A process serves once everything is backfilled.
LEMMA BeginServingInv ==
  ASSUME IInv, BeginServing
  PROVE  IInv'
<1>1. Quiet
  BY SameAlways, PruneFacts, TablesFacts
  DEF IInv, BeginServing, Quiet, ledgers
<1>2. ReadyToServe'
  BY DEF BeginServing, Migrating, ReadyToServe, Progress, BucketProgress,
         NewMeta
<1>3. Rest'
  BY <1>2, PruneFacts
  DEF IInv, BeginServing, Migrating, Rest, TypeOK, OwnTypes, InTurn, Current,
      Progress, ledgers
<1> QED
  BY <1>1, <1>3, QuietInv

\* Pruning while serving.
LEMMA PruneInv ==
  ASSUME IInv, Prune
  PROVE  IInv'
<1>1. Quiet
  BY SameAlways, PruneFacts, TablesFacts DEF IInv, Prune, Quiet, ledgers
<1>2. Rest'
  BY PruneFacts
  DEF IInv, Prune, Rest, TypeOK, OwnTypes, InTurn, ReadyToServe, Current,
      Progress, ledgers
<1> QED
  BY <1>1, <1>2, QuietInv

\* A save may rename a backend while the process serves.
LEMMA LiveSaveInv ==
  ASSUME IInv, LiveSave
  PROVE  IInv'
<1>1. Quiet
  BY MaybeRenameFacts, PruneFacts, TablesFacts DEF IInv, LiveSave, Quiet
<1>2. Rest'
  BY MaybeRenameFacts, PruneFacts
  DEF IInv, LiveSave, Rest, TypeOK, OwnTypes, InTurn, ReadyToServe, Current,
      Progress
<1> QED
  BY <1>1, <1>2, QuietInv

\* A crash keeps what is on disk.
LEMMA CrashInv ==
  ASSUME IInv, Crash
  PROVE  IInv'
<1>1. Quiet
  BY SameAlways, TablesFacts DEF IInv, Crash, Quiet, ledgers, derived
<1>2. Rest'
  BY DEF IInv, Crash, Rest, TypeOK, OwnTypes, InTurn, ReadyToServe, Current,
         Progress, ledgers, derived
<1> QED
  BY <1>1, <1>2, QuietInv

\* The clock goes on: fewer buckets are within the retention.
LEMMA TickInv ==
  ASSUME IInv, Tick
  PROVE  IInv'
<1>1. now' \in 0..MaxTime /\ now <= now' /\ now' \in Int
  BY TablesFacts, TimeAssumption DEF IInv, Tick
<1>2. Quiet
  BY <1>1, SameAlways DEF Tick, Quiet, ledgers, derived
<1>3. Rest'
  BY <1>1
  DEF IInv, Tick, Rest, TypeOK, OwnTypes, InTurn, ReadyToServe, Current,
      Progress, ledgers, derived
<1> QED
  BY <1>2, <1>3, QuietInv

\* A step that changes nothing.
LEMMA StutterInv ==
  ASSUME IInv, UNCHANGED vars
  PROVE  IInv'
<1>1. Quiet
  BY SameAlways, TablesFacts DEF IInv, vars, Quiet, ledgers, derived
<1>2. Rest'
  BY DEF IInv, vars, Rest, TypeOK, OwnTypes, InTurn, ReadyToServe, Current,
         Progress, ledgers, derived
<1> QED
  BY <1>1, <1>2, QuietInv

-----------------------------------------------------------------------------
(* Starting over.                                                          *)

\* What the progress records of a migration hold.
LEMMA MetaFacts ==
  /\ \A version \in Versions : /\ NewMeta(version) \in Meta /\ NewMeta(version) # None
                               /\ NewMeta(version).version = version
                               /\ NewMeta(version).phase = "requests"
                               /\ NewMeta(version).requestCursor = 0
                               /\ NewMeta(version).attemptCursor = 0
  /\ None \notin Record /\ None \notin Meta /\ None \notin BucketMeta
  /\ TypeOK => /\ Progress \in Meta /\ (meta # None => meta \in Meta)
               /\ BucketProgress \in BucketMeta /\ (bucketMeta # None => bucketMeta \in BucketMeta)
<1>1. None \notin Record /\ None \notin Meta /\ None \notin BucketMeta
  BY NoneAssumption
<1>2. ASSUME NEW version \in Versions
      PROVE  /\ NewMeta(version) \in Meta
             /\ NewMeta(version).version = version
             /\ NewMeta(version).phase = "requests"
             /\ NewMeta(version).requestCursor = 0
             /\ NewMeta(version).attemptCursor = 0
  BY DEF NewMeta, Meta, Phases
<1>3. ASSUME TypeOK
      PROVE  /\ Progress \in Meta /\ (meta # None => meta \in Meta)
             /\ BucketProgress \in BucketMeta /\ (bucketMeta # None => bucketMeta \in BucketMeta)
  <2>1. meta \in Meta \cup {None} /\ bucketMeta \in BucketMeta \cup {None}
    BY <1>3 DEF TypeOK
  <2>2. "current" \in Versions /\ [cursor |-> 0, ready |-> FALSE] \in BucketMeta
    BY DEF Versions, BucketMeta
  <2> QED
    BY <1>2, <2>1, <2>2 DEF Progress, BucketProgress
<1> QED
  BY <1>1, <1>2, <1>3

\* Ids are positive, so a cursor at zero has passed none.
LEMMA NothingYet ==
  ASSUME NEW ids \in SUBSET (Nat \ {0}), NEW ledger, DOMAIN ledger = ids
  PROVE  Upto(ledger, 0) = {}
<1>1. \A id \in ids : ~ (id <= 0)
  OBVIOUS
<1> QED
  BY <1>1 DEF Upto

\* A fresh start counts nothing and has empty tables.
LEMMA ResetInv ==
  ASSUME IInv, NEW version \in Versions, ResetRollups(version),
         UNCHANGED <<requests, attempts, server, now>>,
         server # "serving"
  PROVE  IInv'
<1>1. /\ meta' = NewMeta(version) /\ meta' \in Meta /\ meta' # None
      /\ meta'.phase = "requests" /\ meta'.requestCursor = 0
      /\ meta'.attemptCursor = 0 /\ bucketMeta' = None
      /\ tables' = Empty /\ foreign' = {} /\ missing' = TableNames
  BY MetaFacts DEF ResetRollups
<1>2. /\ DOMAIN requests' = RequestIds /\ DOMAIN attempts' = AttemptIds
      /\ RequestIds \in SUBSET (Nat \ {0}) /\ AttemptIds \in SUBSET (Nat \ {0})
  BY IdsAssumption DEF IInv, TypeOK
<1>3. /\ Progress' = meta'
      /\ BucketProgress' = [cursor |-> 0, ready |-> FALSE]
  BY <1>1 DEF Progress, BucketProgress
<1>4. DoneRequests' = {} /\ DoneAttempts' = {} /\ DoneBuckets' = {}
  BY <1>1, <1>2, <1>3, NothingYet DEF DoneRequests, DoneAttempts, DoneBuckets
<1>5. Exact'
  BY <1>1, <1>4, EmptyFacts DEF Exact
<1>6. TypeOK'
  BY <1>1, EmptyFacts DEF IInv, TypeOK
<1>7. (OwnTypes /\ InTurn /\ ReadyToServe)'
  BY <1>1, <1>3 DEF IInv, OwnTypes, InTurn, ReadyToServe
<1>8. (Past(now, requests) /\ Past(now, attempts))'
  BY DEF IInv, Past, Present
<1> QED
  BY <1>5, <1>6, <1>7, <1>8 DEF IInv

\* A migration from another version starts over (reset_rollups).
LEMMA UpgradeInv ==
  ASSUME IInv, Upgrade
  PROVE  IInv'
<1>1. /\ "current" \in Versions /\ ResetRollups("current") /\ server # "serving"
      /\ UNCHANGED <<requests, attempts, server, now>>
  BY DEF Upgrade, ledgers, Versions
<1> QED
  BY <1>1, ResetInv

\* The downgrade tool starts the rollups of the older version over.
LEMMA DowngradeInv ==
  ASSUME IInv, Downgrade
  PROVE  IInv'
<1>1. /\ "older" \in Versions /\ ResetRollups("older") /\ server # "serving"
      /\ UNCHANGED <<requests, attempts, server, now>>
  BY DEF Downgrade, ledgers, Versions
<1> QED
  BY <1>1, ResetInv

\* An older binary leaves rollups of its own version, or finds none and leaves
\* none.
LEMMA RunOlderLedgers ==
  ASSUME IInv, RunOlder
  PROVE  /\ requests' \in [RequestIds -> Record \cup {None}]
         /\ attempts' \in [AttemptIds -> Record \cup {None}]
         /\ (Past(now, requests) /\ Past(now, attempts))'
         /\ UNCHANGED <<server, now>> /\ server = "down"
<1> DEFINE record == [start |-> now, backend |-> Old]
<1>1. record \in Record /\ record.start = now /\ now \in Nat
  <2>1. now \in Nat
    BY TimeAssumption DEF IInv, TypeOK
  <2> QED
    BY <2>1 DEF Record, Backends
<1>2. UNCHANGED <<server, now>> /\ server = "down"
  BY DEF RunOlder
<1>3. \/ \E id \in RequestIds :
           requests' = [requests EXCEPT ![id] = record] /\ UNCHANGED attempts
      \/ \E id \in AttemptIds :
           attempts' = [attempts EXCEPT ![id] = record] /\ UNCHANGED requests
      \/ UNCHANGED <<requests, attempts>>
  BY DEF RunOlder, ledgers
<1> HIDE DEF record
<1>4. /\ requests' \in [RequestIds -> Record \cup {None}]
      /\ attempts' \in [AttemptIds -> Record \cup {None}]
  BY <1>1, <1>3 DEF IInv, TypeOK
<1>5. /\ \A id \in DOMAIN requests' : requests'[id] \in {requests[id], record}
      /\ DOMAIN requests' = DOMAIN requests
      /\ \A id \in DOMAIN attempts' : attempts'[id] \in {attempts[id], record}
      /\ DOMAIN attempts' = DOMAIN attempts
  BY <1>3 DEF IInv, TypeOK
<1>6. (Past(now, requests) /\ Past(now, attempts))'
  BY <1>1, <1>2, <1>5 DEF IInv, Past, Present
<1> QED
  BY <1>2, <1>4, <1>6

\* An older binary adds to the ledgers and leaves rollups of its own.
LEMMA RunOlderInv ==
  ASSUME IInv, RunOlder
  PROVE  IInv'
<1>1. meta # None => meta.version = "older"
  BY DEF RunOlder
<1>2. CASE meta = None /\ UNCHANGED derived
  <2>1. UNCHANGED <<tables, missing, foreign, meta, bucketMeta, server, now>>
    BY <1>2 DEF RunOlder, derived
  <2>2. TypeOK'
    BY <2>1, RunOlderLedgers DEF IInv, TypeOK
  <2>3. /\ bucketMeta = None /\ Progress' = NewMeta("current") /\ Progress = NewMeta("current")
        /\ BucketProgress' = [cursor |-> 0, ready |-> FALSE]
        /\ BucketProgress = [cursor |-> 0, ready |-> FALSE]
    BY <1>2, <2>1 DEF IInv, InTurn, Progress, BucketProgress
  <2>4. /\ NewMeta("current").phase = "requests" /\ NewMeta("current").requestCursor = 0
    BY MetaFacts DEF Versions
  <2>5. /\ DOMAIN requests = RequestIds /\ DOMAIN attempts = AttemptIds
        /\ DOMAIN requests' = RequestIds /\ DOMAIN attempts' = AttemptIds
        /\ RequestIds \in SUBSET (Nat \ {0}) /\ AttemptIds \in SUBSET (Nat \ {0})
    BY <2>2, IdsAssumption DEF IInv, TypeOK
  <2>6. /\ DoneRequests = {} /\ DoneAttempts = {} /\ DoneBuckets = {}
        /\ DoneRequests' = {} /\ DoneAttempts' = {} /\ DoneBuckets' = {}
    BY <2>3, <2>4, <2>5, NothingYet DEF DoneRequests, DoneAttempts, DoneBuckets
  <2>7. Exact'
    <3>1. /\ AllExact(tables.requestAll, {}) /\ AllExact(tables.attemptAll, {})
          /\ BucketsExact(now, tables.requestBucket, requests, {})
          /\ BucketsExact(now, tables.attemptBucket, attempts, {})
      BY <1>2, <2>6 DEF IInv, Exact, Current
    <3>2. now \in Int
      BY TablesFacts DEF IInv
    <3>3. /\ BucketsExact(now, tables.requestBucket, requests', {})
          /\ BucketsExact(now, tables.attemptBucket, attempts', {})
      BY <3>1, <3>2, BucketsKeep
    <3> QED
      BY <2>1, <2>6, <3>1, <3>3 DEF Exact
  <2>8. (OwnTypes /\ InTurn /\ ReadyToServe)'
    BY <2>1, <1>2 DEF IInv, OwnTypes, InTurn, ReadyToServe, Current, Progress
  <2> QED
    BY <2>2, <2>7, <2>8, RunOlderLedgers DEF IInv
<1>3. ASSUME meta' = [NewMeta("older") EXCEPT !.phase = "ready"],
             bucketMeta' = [cursor |-> 0, ready |-> TRUE],
             tables' = [Empty EXCEPT !.requestAll[Old] = 1, !.attemptAll[Old] = 1],
             foreign' \in {{}, TableNames}, missing' = {}
      PROVE  IInv'
  <2>1. meta' \in Meta /\ meta'.version = "older" /\ meta' # None
    BY <1>3, MetaFacts DEF NewMeta, Meta, Versions, Phases
  <2>2. bucketMeta' \in BucketMeta
    BY <1>3 DEF BucketMeta
  <2>3. tables' \in Tables
    BY <1>3 DEF Empty, Tables
  <2>4. TypeOK'
    BY <1>3, <2>1, <2>2, <2>3, RunOlderLedgers DEF IInv, TypeOK
  <2>5. ~ Current'
    BY <2>1 DEF Current
  <2>6. (OwnTypes /\ InTurn /\ ReadyToServe /\ Exact)'
    BY <2>1, <2>5, RunOlderLedgers DEF OwnTypes, InTurn, ReadyToServe, Exact
  <2> QED
    BY <2>4, <2>6, RunOlderLedgers DEF IInv
<1> QED
  BY <1>2, <1>3 DEF RunOlder

-----------------------------------------------------------------------------
(* The steps that count.                                                   *)

\* A batch of requests is counted in both tables as the cursor passes it.
LEMMA BackfillRequestsInv ==
  ASSUME IInv, BackfillRequests
  PROVE  IInv'
<1> DEFINE cursor == Progress.requestCursor
           rows == ReadBatch(requests, cursor)
           reached == Advanced(cursor, rows)
<1>1. /\ Migrating("requests") /\ ApplyRequests(rows)
      /\ meta' = [Progress EXCEPT !.requestCursor = reached,
                                  !.phase = IF Exhausted(rows) THEN "attempts" ELSE @]
      /\ UNCHANGED <<requests, attempts, foreign, bucketMeta, server, now>>
  BY DEF BackfillRequests, ledgers
<1>2. /\ Progress \in Meta /\ Progress.version = "current" /\ Progress.phase = "requests"
      /\ server = "migrating" /\ cursor \in Nat /\ cursor \in RequestIds \cup {0}
      /\ Current
  BY <1>1, MetaFacts, IdsAssumption
  DEF IInv, Migrating, Meta, Current, Progress
<1>3. /\ DOMAIN requests = RequestIds /\ requests \in [RequestIds -> Record \cup {None}]
      /\ RequestIds \in SUBSET (Nat \ {0}) /\ IsFiniteSet(RequestIds)
  BY IdsAssumption DEF IInv, TypeOK
<1> HIDE DEF cursor, rows
<1>4. /\ Entries(rows) /\ DOMAIN rows \subseteq Present(requests)
      /\ \A i \in DOMAIN rows : rows[i] = requests[i]
      /\ Upto(requests, cursor) \cap DOMAIN rows = {}
      /\ reached \in RequestIds \cup {cursor}
      /\ Upto(requests, reached) = Upto(requests, cursor) \cup DOMAIN rows
      /\ Exhausted(rows) => Present(requests) = Upto(requests, cursor) \cup DOMAIN rows
  BY <1>2, <1>3, BatchTakesNext DEF rows
<1> HIDE DEF reached
<1>5. /\ meta' \in Meta /\ meta' # None /\ meta'.version = "current"
      /\ meta'.phase = (IF Exhausted(rows) THEN "attempts" ELSE "requests")
      /\ meta'.requestCursor = reached /\ meta'.attemptCursor = Progress.attemptCursor
  <2>1. meta' \in Meta
    BY <1>1, <1>2, <1>4 DEF Meta, Phases
  <2> QED
    BY <1>1, <1>2, <2>1, MetaFacts DEF Meta
<1>6. /\ DoneRequests = Upto(requests, cursor)
      /\ DoneRequests' = DoneRequests \cup DOMAIN rows
  <2>1. Progress' = meta' /\ requests' = requests
    BY <1>1, <1>5 DEF Progress
  <2>2. DoneRequests = Upto(requests, cursor)
    BY <1>2 DEF DoneRequests, cursor
  <2> QED
    BY <1>4, <1>5, <2>1, <2>2 DEF DoneRequests
<1>7. DoneAttempts' = DoneAttempts
  <2>1. Progress' = meta' /\ attempts' = attempts
    BY <1>1, <1>5 DEF Progress
  <2>2. Progress.attemptCursor = 0
    BY <1>2 DEF IInv, InTurn
  <2>3. Upto(attempts, 0) = {}
    BY NothingYet, IdsAssumption DEF IInv, TypeOK
  <2> QED
    BY <1>2, <1>5, <2>1, <2>2, <2>3 DEF DoneAttempts
<1>8. DoneBuckets' = DoneBuckets /\ BucketProgress' = BucketProgress
  BY <1>1 DEF DoneBuckets, BucketProgress
<1>9. /\ tables'.requestAll = WithAll(tables.requestAll, rows)
      /\ tables'.requestBucket = WithBuckets(tables.requestBucket, rows)
      /\ tables'.attemptAll = tables.attemptAll
      /\ tables'.attemptBucket = tables.attemptBucket
      /\ tables' = [tables EXCEPT !.requestAll = WithAll(@, rows),
                                  !.requestBucket = WithBuckets(@, rows)]
      /\ missing' \subseteq TableNames
  BY <1>1 DEF IInv, TypeOK, Tables, ApplyRequests
<1>10. now \in Int /\ now' = now
  BY <1>1, TablesFacts DEF IInv
<1>11. tables' \in Tables
  <2>1. /\ WithAll(tables.requestAll, rows) \in [Backends -> Nat]
        /\ WithBuckets(tables.requestBucket, rows) \in [BucketKeys -> Nat]
    BY <1>4, <1>10, TablesFacts, AddsAll, AddsToBuckets DEF IInv
  <2> QED
    BY <1>9, <2>1 DEF IInv, TypeOK, Tables
<1>12. /\ AllExact(tables.requestAll, DoneRequests)
       /\ AllExact(tables.attemptAll, DoneAttempts)
       /\ BucketsExact(now, tables.requestBucket, requests, DoneRequests)
       /\ BucketsExact(now, tables.attemptBucket, attempts, DoneBuckets)
       /\ IsFiniteSet(DoneRequests) /\ DoneRequests \cap DOMAIN rows = {}
  BY <1>2, <1>4, <1>6, DoneFacts DEF IInv, Exact
<1>13. AllExact(WithAll(tables.requestAll, rows), DoneRequests \cup DOMAIN rows)
  BY <1>4, <1>12, TablesFacts, AllFills DEF IInv
<1>14. BucketsExact(now, WithBuckets(tables.requestBucket, rows), requests,
                    DoneRequests \cup DOMAIN rows)
  BY <1>4, <1>10, <1>12, TablesFacts, BucketsFill DEF IInv
<1>15. Exact'
  BY <1>1, <1>6, <1>7, <1>8, <1>9, <1>12, <1>13, <1>14 DEF Exact
<1>16. TypeOK'
  BY <1>1, <1>5, <1>9, <1>11 DEF IInv, TypeOK
<1>17. (OwnTypes /\ InTurn /\ ReadyToServe)'
  <2>1. Progress' = meta'
    BY <1>5 DEF Progress
  <2>2. Progress.attemptCursor = 0
    BY <1>2 DEF IInv, InTurn
  <2> QED
    BY <1>1, <1>2, <1>5, <2>1, <2>2
    DEF IInv, OwnTypes, InTurn, ReadyToServe, Current
<1>18. (Past(now, requests) /\ Past(now, attempts))'
  BY <1>1 DEF IInv, Past, Present
<1> QED
  BY <1>15, <1>16, <1>17, <1>18 DEF IInv

\* So is a batch of attempts.
LEMMA BackfillAttemptsInv ==
  ASSUME IInv, BackfillAttempts
  PROVE  IInv'
<1> DEFINE cursor == Progress.attemptCursor
           rows == ReadBatch(attempts, cursor)
           reached == Advanced(cursor, rows)
<1>1. /\ Migrating("attempts")
      /\ tables' = [tables EXCEPT !.attemptAll = WithAll(@, rows)]
      /\ missing' \subseteq missing
      /\ meta' = [Progress EXCEPT !.attemptCursor = reached,
                                  !.phase = IF Exhausted(rows) THEN "ready" ELSE @]
      /\ UNCHANGED <<requests, attempts, foreign, bucketMeta, server, now>>
  BY DEF BackfillAttempts, ledgers
<1>2. /\ Progress \in Meta /\ Progress.version = "current" /\ Progress.phase = "attempts"
      /\ server = "migrating" /\ cursor \in Nat /\ cursor \in AttemptIds \cup {0}
      /\ Current
  BY <1>1, MetaFacts, IdsAssumption
  DEF IInv, Migrating, Meta, Current, Progress
<1>3. /\ DOMAIN attempts = AttemptIds /\ attempts \in [AttemptIds -> Record \cup {None}]
      /\ AttemptIds \in SUBSET (Nat \ {0}) /\ IsFiniteSet(AttemptIds)
  BY IdsAssumption DEF IInv, TypeOK
<1> HIDE DEF cursor, rows
<1>4. /\ Entries(rows) /\ DOMAIN rows \subseteq Present(attempts)
      /\ Upto(attempts, cursor) \cap DOMAIN rows = {}
      /\ reached \in AttemptIds \cup {cursor}
      /\ Upto(attempts, reached) = Upto(attempts, cursor) \cup DOMAIN rows
      /\ Exhausted(rows) => Present(attempts) = Upto(attempts, cursor) \cup DOMAIN rows
  BY <1>2, <1>3, BatchTakesNext DEF rows
<1> HIDE DEF reached
<1>5. /\ meta' \in Meta /\ meta' # None /\ meta'.version = "current"
      /\ meta'.phase = (IF Exhausted(rows) THEN "ready" ELSE "attempts")
      /\ meta'.attemptCursor = reached
  <2>1. meta' \in Meta
    BY <1>1, <1>2, <1>4 DEF Meta, Phases
  <2> QED
    BY <1>1, <1>2, <2>1, MetaFacts DEF Meta
<1>6. Progress' = meta' /\ BucketProgress' = BucketProgress
  BY <1>1, <1>5 DEF Progress, BucketProgress
<1>7. /\ DoneAttempts = Upto(attempts, cursor)
      /\ DoneAttempts' = DoneAttempts \cup DOMAIN rows
  <2>1. DoneAttempts = Upto(attempts, cursor)
    BY <1>2 DEF DoneAttempts, cursor
  <2> QED
    BY <1>1, <1>4, <1>5, <1>6, <2>1 DEF DoneAttempts
<1>8. DoneRequests' = DoneRequests /\ DoneBuckets' = DoneBuckets
  BY <1>1, <1>2, <1>5, <1>6 DEF DoneRequests, DoneBuckets
<1>9. /\ tables'.attemptAll = WithAll(tables.attemptAll, rows)
      /\ tables'.requestAll = tables.requestAll
      /\ tables'.requestBucket = tables.requestBucket
      /\ tables'.attemptBucket = tables.attemptBucket
  BY <1>1 DEF IInv, TypeOK, Tables
<1>10. tables' \in Tables
  <2>1. WithAll(tables.attemptAll, rows) \in [Backends -> Nat]
    BY <1>4, TablesFacts, AddsAll DEF IInv
  <2> QED
    BY <1>1, <2>1 DEF IInv, TypeOK, Tables
<1>11. /\ AllExact(tables.requestAll, DoneRequests)
       /\ AllExact(tables.attemptAll, DoneAttempts)
       /\ BucketsExact(now, tables.requestBucket, requests, DoneRequests)
       /\ BucketsExact(now, tables.attemptBucket, attempts, DoneBuckets)
       /\ IsFiniteSet(DoneAttempts) /\ DoneAttempts \cap DOMAIN rows = {}
  BY <1>2, <1>4, <1>7, DoneFacts DEF IInv, Exact
<1>12. AllExact(WithAll(tables.attemptAll, rows), DoneAttempts \cup DOMAIN rows)
  BY <1>4, <1>11, TablesFacts, AllFills DEF IInv
<1>13. Exact'
  BY <1>1, <1>7, <1>8, <1>9, <1>11, <1>12 DEF Exact
<1>14. TypeOK'
  BY <1>1, <1>5, <1>10 DEF IInv, TypeOK
<1>15. (OwnTypes /\ InTurn /\ ReadyToServe)'
  BY <1>1, <1>2, <1>5, <1>6 DEF IInv, OwnTypes, InTurn, ReadyToServe, Current
<1>16. (Past(now, requests) /\ Past(now, attempts))'
  BY <1>1 DEF IInv, Past, Present
<1> QED
  BY <1>13, <1>14, <1>15, <1>16 DEF IInv

\* So is a batch of attempts for the buckets alone.
LEMMA BackfillAttemptBucketsInv ==
  ASSUME IInv, BackfillAttemptBuckets
  PROVE  IInv'
<1> DEFINE cursor == BucketProgress.cursor
           rows == ReadBatch(attempts, cursor)
           reached == Advanced(cursor, rows)
<1>1. /\ Migrating("ready") /\ ~BucketProgress.ready
      /\ tables' = [tables EXCEPT !.attemptBucket = WithBuckets(@, rows)]
      /\ missing' \subseteq missing
      /\ bucketMeta' = [cursor |-> reached, ready |-> Exhausted(rows)]
      /\ UNCHANGED <<requests, attempts, foreign, meta, server, now>>
  BY DEF BackfillAttemptBuckets, ledgers
<1>2. /\ Progress.version = "current" /\ Progress.phase = "ready"
      /\ server = "migrating" /\ cursor \in Nat /\ cursor \in AttemptIds \cup {0}
      /\ meta # None /\ Current
  BY <1>1, MetaFacts, IdsAssumption
  DEF IInv, Migrating, BucketMeta, Current, Progress, Versions
<1>3. /\ DOMAIN attempts = AttemptIds /\ attempts \in [AttemptIds -> Record \cup {None}]
      /\ AttemptIds \in SUBSET (Nat \ {0}) /\ IsFiniteSet(AttemptIds)
  BY IdsAssumption DEF IInv, TypeOK
<1> HIDE DEF cursor, rows
<1>4. /\ Entries(rows) /\ DOMAIN rows \subseteq Present(attempts)
      /\ \A i \in DOMAIN rows : rows[i] = attempts[i]
      /\ Upto(attempts, cursor) \cap DOMAIN rows = {}
      /\ reached \in AttemptIds \cup {cursor}
      /\ Upto(attempts, reached) = Upto(attempts, cursor) \cup DOMAIN rows
      /\ Exhausted(rows) => Present(attempts) = Upto(attempts, cursor) \cup DOMAIN rows
  BY <1>2, <1>3, BatchTakesNext DEF rows
<1> HIDE DEF reached
<1>5. /\ bucketMeta' \in BucketMeta /\ bucketMeta' # None
      /\ bucketMeta'.ready = Exhausted(rows) /\ bucketMeta'.cursor = reached
  <2>1. bucketMeta' \in BucketMeta
    BY <1>1, <1>2, <1>4 DEF BucketMeta, Exhausted
  <2> QED
    BY <1>1, <2>1, MetaFacts
<1>6. Progress' = Progress /\ BucketProgress' = bucketMeta'
  BY <1>1, <1>5 DEF Progress, BucketProgress
<1>7. /\ DoneBuckets = Upto(attempts, cursor)
      /\ DoneBuckets' = DoneBuckets \cup DOMAIN rows
  <2>1. DoneBuckets = Upto(attempts, cursor)
    BY <1>1 DEF DoneBuckets, cursor
  <2> QED
    BY <1>1, <1>4, <1>5, <1>6, <2>1 DEF DoneBuckets
<1>8. DoneRequests' = DoneRequests /\ DoneAttempts' = DoneAttempts
  BY <1>1, <1>6 DEF DoneRequests, DoneAttempts
<1>9. /\ tables'.attemptBucket = WithBuckets(tables.attemptBucket, rows)
      /\ tables'.requestAll = tables.requestAll
      /\ tables'.requestBucket = tables.requestBucket
      /\ tables'.attemptAll = tables.attemptAll
  BY <1>1 DEF IInv, TypeOK, Tables
<1>10. now \in Int /\ now' = now
  BY <1>1, TablesFacts DEF IInv
<1>11. tables' \in Tables
  <2>1. WithBuckets(tables.attemptBucket, rows) \in [BucketKeys -> Nat]
    BY <1>4, <1>10, TablesFacts, AddsToBuckets DEF IInv
  <2> QED
    BY <1>1, <2>1 DEF IInv, TypeOK, Tables
<1>12. /\ AllExact(tables.requestAll, DoneRequests)
       /\ AllExact(tables.attemptAll, DoneAttempts)
       /\ BucketsExact(now, tables.requestBucket, requests, DoneRequests)
       /\ BucketsExact(now, tables.attemptBucket, attempts, DoneBuckets)
       /\ IsFiniteSet(DoneBuckets) /\ DoneBuckets \cap DOMAIN rows = {}
  BY <1>2, <1>4, <1>7, DoneFacts DEF IInv, Exact
<1>13. BucketsExact(now, WithBuckets(tables.attemptBucket, rows), attempts,
                    DoneBuckets \cup DOMAIN rows)
  BY <1>4, <1>10, <1>12, TablesFacts, BucketsFill DEF IInv
<1>14. Exact'
  BY <1>1, <1>7, <1>8, <1>9, <1>12, <1>13 DEF Exact
<1>15. TypeOK'
  BY <1>1, <1>5, <1>11 DEF IInv, TypeOK
<1>16. (OwnTypes /\ InTurn /\ ReadyToServe)'
  BY <1>1, <1>2, <1>5, <1>6 DEF IInv, OwnTypes, InTurn, ReadyToServe, Current
<1>17. (Past(now, requests) /\ Past(now, attempts))'
  BY <1>1 DEF IInv, Past, Present
<1> QED
  BY <1>14, <1>15, <1>16, <1>17 DEF IInv

\* Serving, all is counted and all that comes is.
LEMMA ServingFacts ==
  ASSUME IInv, server = "serving"
  PROVE  /\ Current /\ foreign = {}
         /\ DoneRequests = Present(requests) /\ DoneAttempts = Present(attempts)
         /\ DoneBuckets = Present(attempts)
<1>1. /\ meta # None /\ meta.version = "current" /\ meta.phase = "ready"
      /\ bucketMeta # None /\ bucketMeta.ready
  BY DEF IInv, ReadyToServe
<1>2. Progress = meta /\ BucketProgress = bucketMeta
  BY <1>1 DEF Progress, BucketProgress
<1> QED
  BY <1>1, <1>2
  DEF IInv, OwnTypes, Current, DoneRequests, DoneAttempts, DoneBuckets

\* A record written now has started by now.
LEMMA NewRecord ==
  ASSUME TypeOK, NEW record \in Records
  PROVE  record \in Record /\ record # None /\ record.start <= now
<1>1. PICK age \in Ages, backend \in Routed :
        record = [start |-> Later(now - age, 0), backend |-> backend]
  BY DEF Records
<1>2. now \in Nat /\ age \in Nat /\ backend \in Backends
  BY TimeAssumption, IdsAssumption DEF TypeOK, Backends
<1>3. Later(now - age, 0) \in Nat /\ Later(now - age, 0) <= now
  BY <1>2 DEF Later
<1>4. record \in Record /\ record.start <= now
  BY <1>1, <1>2, <1>3 DEF Record
<1> QED
  BY <1>4, MetaFacts

\* A request that is recorded is counted with it.
LEMMA RecordRequestInv ==
  ASSUME IInv, RecordRequest
  PROVE  IInv'
<1>1. PICK id \in RequestIds, record \in Records :
        /\ requests[id] = None
        /\ requests' = [requests EXCEPT ![id] = record]
        /\ ApplyRequests([i \in {id} |-> record])
  BY DEF RecordRequest
<1> DEFINE added == [i \in {id} |-> record]
<1>2. server = "serving" /\ UNCHANGED <<attempts, foreign, meta, bucketMeta, server, now>>
  BY DEF RecordRequest
<1>3. record \in Record /\ record # None /\ record.start <= now
  BY NewRecord DEF IInv
<1>4. requests \in [RequestIds -> Record \cup {None}]
  BY DEF IInv, TypeOK
<1>5. added = [i \in {id} |-> record] /\ added[id] = record
  OBVIOUS
<1> HIDE DEF added
<1>6. /\ requests' \in [RequestIds -> Record \cup {None}]
      /\ Entries(added) /\ DOMAIN added = {id}
      /\ Present(requests') = Present(requests) \cup DOMAIN added
      /\ Present(requests) \cap DOMAIN added = {}
      /\ \A i \in Present(requests) : requests'[i] = requests[i]
      /\ \A i \in DOMAIN added : requests'[i] = added[i]
  <2>1. /\ requests[id] = None /\ requests' = [requests EXCEPT ![id] = record]
        /\ id \in RequestIds
    BY <1>1
  <2>2. /\ DOMAIN requests = RequestIds /\ DOMAIN requests' = RequestIds
        /\ requests'[id] = record /\ \A i \in RequestIds : i # id => requests'[i] = requests[i]
        /\ requests' \in [RequestIds -> Record \cup {None}]
    BY <1>3, <1>4, <2>1
  <2>3. DOMAIN added = {id} /\ added[id] = record
    BY <1>5
  <2>4. Entries(added)
    BY <1>3, <2>3, FS_Singleton DEF Entries
  <2>5. id \notin Present(requests)
    BY <2>1 DEF Present
  <2>6. Present(requests') = Present(requests) \cup {id}
    BY <1>3, <2>1, <2>2 DEF Present
  <2>7. \A i \in Present(requests) : requests'[i] = requests[i]
    BY <2>2, <2>5 DEF Present
  <2> QED
    BY <2>2, <2>3, <2>4, <2>5, <2>6, <2>7
<1>7. /\ tables'.requestAll = WithAll(tables.requestAll, added)
      /\ tables'.requestBucket = WithBuckets(tables.requestBucket, added)
      /\ tables'.attemptAll = tables.attemptAll
      /\ tables'.attemptBucket = tables.attemptBucket
      /\ tables' = [tables EXCEPT !.requestAll = WithAll(@, added),
                                  !.requestBucket = WithBuckets(@, added)]
      /\ missing' \subseteq TableNames
  BY <1>1 DEF IInv, TypeOK, Tables, ApplyRequests, added
<1>8. now \in Int /\ now' = now
  BY <1>2, TablesFacts DEF IInv
<1>9. tables' \in Tables
  <2>1. /\ WithAll(tables.requestAll, added) \in [Backends -> Nat]
        /\ WithBuckets(tables.requestBucket, added) \in [BucketKeys -> Nat]
    BY <1>6, <1>8, TablesFacts, AddsAll, AddsToBuckets DEF IInv
  <2> QED
    BY <1>7, <2>1 DEF IInv, TypeOK, Tables
<1>10. TypeOK'
  BY <1>2, <1>6, <1>7, <1>9 DEF IInv, TypeOK
<1>11. (OwnTypes /\ InTurn /\ ReadyToServe)'
  BY <1>2 DEF IInv, OwnTypes, InTurn, ReadyToServe, Current, Progress
<1>12. /\ DoneRequests = Present(requests) /\ Current
       /\ DoneRequests' = Present(requests')
       /\ DoneAttempts' = DoneAttempts /\ DoneBuckets' = DoneBuckets
  <2>1. /\ Current /\ DoneRequests = Present(requests)
    BY <1>2, ServingFacts
  <2>2. Progress' = Progress /\ BucketProgress' = BucketProgress
    BY <1>2 DEF Progress, BucketProgress
  <2>3. Progress.phase = "ready"
    BY <1>2 DEF IInv, ReadyToServe, Progress
  <2> QED
    BY <1>2, <2>1, <2>2, <2>3 DEF DoneRequests, DoneAttempts, DoneBuckets
<1>13. /\ AllExact(tables.requestAll, DoneRequests)
       /\ AllExact(tables.attemptAll, DoneAttempts)
       /\ BucketsExact(now, tables.requestBucket, requests, DoneRequests)
       /\ BucketsExact(now, tables.attemptBucket, attempts, DoneBuckets)
       /\ IsFiniteSet(DoneRequests)
  BY <1>12, DoneFacts DEF IInv, Exact
<1>14. AllExact(WithAll(tables.requestAll, added), DoneRequests \cup DOMAIN added)
  BY <1>6, <1>12, <1>13, TablesFacts, AllFills DEF IInv
<1>15. BucketsExact(now, WithBuckets(tables.requestBucket, added), requests',
                    DoneRequests \cup DOMAIN added)
  BY <1>6, <1>8, <1>12, <1>13, TablesFacts, BucketsFill DEF IInv
<1>16. Exact'
  BY <1>2, <1>6, <1>7, <1>8, <1>12, <1>13, <1>14, <1>15 DEF Exact
<1>17. (Past(now, requests) /\ Past(now, attempts))'
  <2>1. Past(now, requests) /\ Past(now, attempts)
    BY DEF IInv
  <2>2. \A i \in Present(requests') : requests'[i].start <= now
    BY <1>3, <1>6, <1>5, <2>1 DEF Past
  <2> QED
    BY <1>2, <2>1, <2>2 DEF Past, Present
<1> QED
  BY <1>10, <1>11, <1>16, <1>17 DEF IInv

\* An attempt that is recorded is counted with it.
LEMMA RecordAttemptInv ==
  ASSUME IInv, RecordAttempt
  PROVE  IInv'
<1>1. PICK id \in AttemptIds, record \in Records :
        LET added == [i \in {id} |-> record] IN
        /\ attempts[id] = None
        /\ attempts' = [attempts EXCEPT ![id] = record]
        /\ tables' = [tables EXCEPT !.attemptAll = WithAll(@, added),
                                    !.attemptBucket = WithBuckets(@, added)]
        /\ missing' \subseteq missing
  BY DEF RecordAttempt
<1> DEFINE added == [i \in {id} |-> record]
<1>2. server = "serving" /\ UNCHANGED <<requests, foreign, meta, bucketMeta, server, now>>
  BY DEF RecordAttempt
<1>3. record \in Record /\ record # None /\ record.start <= now
  BY NewRecord DEF IInv
<1>4. attempts \in [AttemptIds -> Record \cup {None}]
  BY DEF IInv, TypeOK
<1>5. added = [i \in {id} |-> record] /\ added[id] = record
  OBVIOUS
<1> HIDE DEF added
<1>6. /\ attempts' \in [AttemptIds -> Record \cup {None}]
      /\ Entries(added) /\ DOMAIN added = {id}
      /\ Present(attempts') = Present(attempts) \cup DOMAIN added
      /\ Present(attempts) \cap DOMAIN added = {}
      /\ \A i \in Present(attempts) : attempts'[i] = attempts[i]
      /\ \A i \in DOMAIN added : attempts'[i] = added[i]
  <2>1. /\ attempts[id] = None /\ attempts' = [attempts EXCEPT ![id] = record]
        /\ id \in AttemptIds
    BY <1>1
  <2>2. /\ DOMAIN attempts = AttemptIds /\ DOMAIN attempts' = AttemptIds
        /\ attempts'[id] = record /\ \A i \in AttemptIds : i # id => attempts'[i] = attempts[i]
        /\ attempts' \in [AttemptIds -> Record \cup {None}]
    BY <1>3, <1>4, <2>1
  <2>3. DOMAIN added = {id} /\ added[id] = record
    BY <1>5
  <2>4. Entries(added)
    BY <1>3, <2>3, FS_Singleton DEF Entries
  <2>5. id \notin Present(attempts)
    BY <2>1 DEF Present
  <2>6. Present(attempts') = Present(attempts) \cup {id}
    BY <1>3, <2>1, <2>2 DEF Present
  <2>7. \A i \in Present(attempts) : attempts'[i] = attempts[i]
    BY <2>2, <2>5 DEF Present
  <2> QED
    BY <2>2, <2>3, <2>4, <2>5, <2>6, <2>7
<1>7. /\ tables' = [tables EXCEPT !.attemptAll = WithAll(@, added),
                                  !.attemptBucket = WithBuckets(@, added)]
      /\ missing' \subseteq TableNames
  BY <1>1 DEF IInv, TypeOK, added
<1>8. /\ tables'.attemptAll = WithAll(tables.attemptAll, added)
      /\ tables'.attemptBucket = WithBuckets(tables.attemptBucket, added)
      /\ tables'.requestAll = tables.requestAll
      /\ tables'.requestBucket = tables.requestBucket
  BY <1>7 DEF IInv, TypeOK, Tables
<1>9. now \in Int /\ now' = now
  BY <1>2, TablesFacts DEF IInv
<1>10. tables' \in Tables
  <2>1. /\ WithAll(tables.attemptAll, added) \in [Backends -> Nat]
        /\ WithBuckets(tables.attemptBucket, added) \in [BucketKeys -> Nat]
    BY <1>6, <1>9, TablesFacts, AddsAll, AddsToBuckets DEF IInv
  <2> QED
    BY <1>7, <2>1 DEF IInv, TypeOK, Tables
<1>11. TypeOK'
  BY <1>2, <1>6, <1>7, <1>10 DEF IInv, TypeOK
<1>12. (OwnTypes /\ InTurn /\ ReadyToServe)'
  BY <1>2 DEF IInv, OwnTypes, InTurn, ReadyToServe, Current, Progress
<1>13. /\ DoneAttempts = Present(attempts) /\ DoneBuckets = Present(attempts)
       /\ Current /\ DoneRequests' = DoneRequests
       /\ DoneAttempts' = Present(attempts') /\ DoneBuckets' = Present(attempts')
  <2>1. /\ Current /\ DoneAttempts = Present(attempts) /\ DoneBuckets = Present(attempts)
    BY <1>2, ServingFacts
  <2>2. Progress' = Progress /\ BucketProgress' = BucketProgress
    BY <1>2 DEF Progress, BucketProgress
  <2>3. Progress.phase = "ready" /\ BucketProgress.ready
    BY <1>2 DEF IInv, ReadyToServe, Progress, BucketProgress
  <2> QED
    BY <1>2, <2>1, <2>2, <2>3 DEF DoneRequests, DoneAttempts, DoneBuckets
<1>14. /\ AllExact(tables.requestAll, DoneRequests)
       /\ AllExact(tables.attemptAll, DoneAttempts)
       /\ BucketsExact(now, tables.requestBucket, requests, DoneRequests)
       /\ BucketsExact(now, tables.attemptBucket, attempts, DoneBuckets)
       /\ IsFiniteSet(Present(attempts))
  BY <1>13, DoneFacts DEF IInv, Exact
<1>15. AllExact(WithAll(tables.attemptAll, added), Present(attempts) \cup DOMAIN added)
  BY <1>6, <1>13, <1>14, TablesFacts, AllFills DEF IInv
<1>16. BucketsExact(now, WithBuckets(tables.attemptBucket, added), attempts',
                    Present(attempts) \cup DOMAIN added)
  BY <1>6, <1>9, <1>13, <1>14, TablesFacts, BucketsFill DEF IInv
<1>17. Exact'
  BY <1>2, <1>6, <1>8, <1>9, <1>13, <1>14, <1>15, <1>16 DEF Exact
<1>18. (Past(now, requests) /\ Past(now, attempts))'
  <2>1. Past(now, requests) /\ Past(now, attempts)
    BY DEF IInv
  <2>2. \A i \in Present(attempts') : attempts'[i].start <= now
    BY <1>3, <1>6, <1>5, <2>1 DEF Past
  <2> QED
    BY <1>2, <2>1, <2>2 DEF Past, Present
<1> QED
  BY <1>11, <1>12, <1>17, <1>18 DEF IInv

\* The invariant holds at first,
LEMMA InitInv == Init => IInv
<1> SUFFICES ASSUME Init
             PROVE  IInv
  OBVIOUS
<1>1. now \in 0..MaxTime
  BY TimeAssumption DEF Init
<1>2. TypeOK
  BY <1>1, EmptyFacts DEF Init, TypeOK
<1>3. Present(requests) = {} /\ Present(attempts) = {}
  BY DEF Init, Present
<1>4. DoneRequests = {} /\ DoneAttempts = {} /\ DoneBuckets = {}
  BY <1>2, <1>3, DoneFacts
<1>5. Exact
  BY <1>4, EmptyFacts DEF Init, Exact
<1>6. Progress.attemptCursor = 0
  BY MetaFacts DEF Init, Progress, Versions
<1>7. OwnTypes /\ InTurn /\ ReadyToServe
  BY <1>6 DEF Init, OwnTypes, InTurn, ReadyToServe
<1> QED
  BY <1>2, <1>3, <1>5, <1>7 DEF IInv, Past

\* every step keeps it,
LEMMA StepInv ==
  ASSUME IInv, [Next]_vars
  PROVE  IInv'
BY OpenInv, BeginSchemaInv, UpgradeInv, BackfillRequestsInv,
   BackfillAttemptsInv, BackfillAttemptBucketsInv, BeginServingInv,
   RecordRequestInv, RecordAttemptInv, PruneInv, LiveSaveInv, CrashInv,
   DowngradeInv, RunOlderInv, TickInv, StutterInv
DEF Next, Migrate

\* so it always holds.
LEMMA AlwaysInv == Spec => []IInv
BY InitInv, StepInv, PTL DEF Spec

-----------------------------------------------------------------------------
(* What the pages read.                                                    *)

\* The empty sum.
LEMMA SumOfNone ==
  ASSUME NEW fun
  PROVE  SumFunctionOnSet(fun, {}) = 0
BY FS_EmptySet, SumPeels DEF Peeled

\* Two elements may be taken out of a sum.
LEMMA SumOfTwo ==
  ASSUME NEW fun, NEW S, NEW x \in S, NEW y \in S, x # y, IsFiniteSet(S),
         \A z \in S : fun[z] \in Nat
  PROVE  SumFunctionOnSet(fun, S)
           = fun[x] + fun[y] + SumFunctionOnSet(fun, (S \ {x}) \ {y})
<1>1. SumFunctionOnSet(fun, S) = fun[x] + SumFunctionOnSet(fun, S \ {x})
  BY SumTakes
<1>2. IsFiniteSet(S \ {x}) /\ y \in S \ {x} /\ IsFiniteSet((S \ {x}) \ {y})
  BY FS_RemoveElement
<1>3. SumFunctionOnSet(fun, S \ {x})
        = fun[y] + SumFunctionOnSet(fun, (S \ {x}) \ {y})
  BY <1>2, SumTakes
<1>4. SumFunctionOnSet(fun, (S \ {x}) \ {y}) \in Nat
  BY <1>2, SumType
<1>5. fun[x] \in Nat /\ fun[y] \in Nat
  OBVIOUS
<1> QED
  BY <1>1, <1>3, <1>4, <1>5

\* The count of all time is that of the two backends.
LEMMA AllTimeAdds ==
  ASSUME NEW table \in [Backends -> Nat]
  PROVE  AllTime(table) = table[Old] + table[New]
<1>1. DOMAIN table = Backends /\ \A b \in Backends : table[b] \in Nat
  OBVIOUS
<1>2. Old \in Backends /\ New \in Backends /\ (Backends \ {Old}) \ {New} = {}
  BY DEF Backends
<1>3. SumFunctionOnSet(table, Backends) = table[Old] + table[New] + 0
  BY <1>1, <1>2, BackendsFacts, SumOfTwo, SumOfNone
<1>4. table[Old] \in Nat /\ table[New] \in Nat
  BY <1>1, <1>2
<1> QED
  BY <1>1, <1>3, <1>4 DEF AllTime, SumFunction

\* The migration's progress says which records are counted, so however often
\* it was interrupted, and whatever an older binary had left, the all-time
\* rollups count each record of the ledger that it has come to once
\* (backfill_requests_batch, backfill_attempts_batch, apply_*_rollup).
THEOREM TotalsAreExact == Spec => []TotalsExact
<1>1. ASSUME IInv
      PROVE  TotalsExact
  <2> SUFFICES ASSUME meta # None, meta.version = "current"
               PROVE  /\ AllTime(tables.requestAll) = Cardinality(CountedRequests)
                      /\ AllTime(tables.attemptAll) = Cardinality(CountedAttempts)
    BY DEF TotalsExact
  <2>1. Current /\ Progress = meta /\ meta.phase \in Phases
    BY <1>1, MetaFacts DEF IInv, Current, Progress, Meta
  <2>2. DOMAIN requests = RequestIds /\ DOMAIN attempts = AttemptIds
    BY <1>1 DEF IInv, TypeOK
  <2>3. CountedRequests = DoneRequests
    BY <2>1, <2>2 DEF CountedRequests, DoneRequests, Present, Upto
  <2>4. CountedAttempts = DoneAttempts
    <3>1. CASE meta.phase = "requests"
      BY <2>1, <2>2, <3>1 DEF CountedAttempts, DoneAttempts
    <3>2. CASE meta.phase = "attempts"
      BY <2>1, <2>2, <3>2 DEF CountedAttempts, DoneAttempts, Upto
    <3>3. CASE meta.phase = "ready"
      BY <2>1, <2>2, <3>3 DEF CountedAttempts, DoneAttempts, Present
    <3> QED
      BY <2>1, <3>1, <3>2, <3>3 DEF Phases
  <2>5. /\ AllTime(tables.requestAll) = tables.requestAll[Old] + tables.requestAll[New]
        /\ AllTime(tables.attemptAll) = tables.attemptAll[Old] + tables.attemptAll[New]
    BY <1>1, TablesFacts, AllTimeAdds DEF IInv
  <2> QED
    BY <1>1, <2>1, <2>3, <2>4, <2>5 DEF IInv, Exact, AllExact
<1> QED
  BY <1>1, AlwaysInv, PTL

\* The rows of some buckets of one grain.
KeysOf(g, M) == {k \in BucketKeys : k.grain = g /\ k.start \in M}

\* The records they are for.
In(ledger, done, g, M) == {id \in done : FloorTo(ledger[id].start, Unit(g)) \in M}

\* The rows of a grain over some minutes count the records in their buckets.
LEMMA RowsCount ==
  ASSUME NEW table \in [BucketKeys -> Nat], NEW ledger, NEW done, IsFiniteSet(done),
         NEW time, BucketsExact(time, table, ledger, done), NEW g \in Grains,
         NEW M \in SUBSET Minutes, \A m \in M : m >= time - Retention
  PROVE  SumFunctionOnSet(table, KeysOf(g, M)) = Cardinality(In(ledger, done, g, M))
<1> DEFINE Sum(S) == SumFunctionOnSet(table, KeysOf(g, S))
           Count(S) == Cardinality(In(ledger, done, g, S))
           Wrong == {S \in SUBSET M : Sum(S) # Count(S)}
<1>1. IsFiniteSet(M)
  BY MinutesFacts, FS_Subset
<1>2. ASSUME Wrong # {}
      PROVE  FALSE
  <2>1. PICK S \in Wrong : \A T \in SUBSET S : T # S => T \notin Wrong
    <3>1. Wrong \in SUBSET (SUBSET M)
      OBVIOUS
    <3> HIDE DEF Wrong
    <3> QED
      BY <1>1, <1>2, <3>1, Smallest
  <2>2. CASE S = {}
    <3>1. KeysOf(g, S) = {} /\ In(ledger, done, g, S) = {}
      BY <2>2 DEF KeysOf, In
    <3>2. Sum(S) = Count(S)
      BY <3>1, SumOfNone, FS_EmptySet
    <3> QED
      BY <2>1, <3>2
  <2>3. CASE S # {}
    <3>1. PICK m \in S : TRUE
      BY <2>3
    <3>2. m \in Minutes /\ m >= time - Retention
      BY <2>1, <3>1
    <3> DEFINE rest == S \ {m}
               old == Key(g, m, Old)
               new == Key(g, m, New)
    <3>3. rest \in SUBSET S /\ rest # S /\ rest \in SUBSET M
      BY <2>1, <3>1
    <3>4. Sum(rest) = Count(rest)
      <4>1. rest \notin Wrong
        BY <2>1, <3>3
      <4> QED
        BY <3>3, <4>1
    <3>5. /\ old \in KeysOf(g, S) /\ new \in KeysOf(g, S) /\ old # new
          /\ (KeysOf(g, S) \ {old}) \ {new} = KeysOf(g, rest)
      <4>1. /\ old \in BucketKeys /\ old.grain = g /\ old.start = m /\ old.backend = Old
            /\ new \in BucketKeys /\ new.grain = g /\ new.start = m /\ new.backend = New
        BY <3>2, KeyIn DEF Backends
      <4>2. \A k \in BucketKeys : k.grain = g /\ k.start = m => k = old \/ k = new
        BY BackendsFacts DEF BucketKeys, Key
      <4> HIDE DEF old, new
      <4> QED
        BY <3>1, <4>1, <4>2, BackendsFacts DEF KeysOf
    <3>6. IsFiniteSet(KeysOf(g, S)) /\ \A k \in KeysOf(g, S) : table[k] \in Nat
      BY KeysFinite, FS_Subset DEF KeysOf
    <3>7. Sum(S) = Both(table, g, m) + Sum(rest)
      <4> HIDE DEF old, new
      <4>1. SumFunctionOnSet(table, KeysOf(g, S))
              = table[old] + table[new]
                + SumFunctionOnSet(table, (KeysOf(g, S) \ {old}) \ {new})
        BY <3>5, <3>6, SumOfTwo
      <4> QED
        BY <3>5, <4>1 DEF Both, old, new
    <3>8. Both(table, g, m) = Cardinality(Of(ledger, done, g, m))
      BY <3>2 DEF BucketsExact
    <3>9. Count(S) = Cardinality(Of(ledger, done, g, m)) + Count(rest)
      <4>1. /\ In(ledger, done, g, S)
                 = Of(ledger, done, g, m) \cup In(ledger, done, g, rest)
            /\ Of(ledger, done, g, m) \cap In(ledger, done, g, rest) = {}
        BY <3>1 DEF In, Of
      <4>2. /\ IsFiniteSet(Of(ledger, done, g, m))
            /\ IsFiniteSet(In(ledger, done, g, rest))
        BY FS_Subset DEF In, Of
      <4> QED
        BY <4>1, <4>2, CountTwo
    <3>10. Sum(S) = Count(S)
      BY <3>4, <3>7, <3>8, <3>9
    <3> QED
      BY <2>1, <3>10
  <2> QED
    BY <2>2, <2>3
<1>3. M \notin Wrong
  BY <1>2
<1> QED
  BY <1>3

\* A range of a window counts the records whose buckets lie in it.
LEMMA RangeCounts ==
  ASSUME NEW table \in [BucketKeys -> Nat], NEW ledger, NEW done, IsFiniteSet(done),
         NEW time, BucketsExact(time, table, ledger, done),
         NEW range, range.grain \in Grains,
         \A m \in Minutes : range.from <= m => m >= time - Retention,
         \A id \in done : ledger[id].start \in 0..MaxTime
  PROVE  RangeCount(table, range)
           = Cardinality({id \in done :
               LET bucket == FloorTo(ledger[id].start, Unit(range.grain))
               IN  range.from <= bucket /\ bucket < range.to})
<1> DEFINE M == {m \in Minutes : range.from <= m /\ m < range.to}
<1>1. {k \in BucketKeys : InRange(k, range)} = KeysOf(range.grain, M)
  BY DEF InRange, KeysOf, BucketKeys
<1>2. \A id \in done : FloorTo(ledger[id].start, Unit(range.grain)) \in Minutes
  BY BucketIn
<1>3. In(ledger, done, range.grain, M)
        = {id \in done :
             LET bucket == FloorTo(ledger[id].start, Unit(range.grain))
             IN  range.from <= bucket /\ bucket < range.to}
  BY <1>2 DEF In
<1>4. M \in SUBSET Minutes /\ \A m \in M : m >= time - Retention
  OBVIOUS
<1> HIDE DEF M
<1>5. SumFunctionOnSet(table, KeysOf(range.grain, M))
        = Cardinality(In(ledger, done, range.grain, M))
  BY <1>4, RowsCount
<1> QED
  BY <1>1, <1>3, <1>5 DEF RangeCount

\* The ranges of a window begin within it.
LEMMA RangesBegin ==
  ASSUME NEW from \in Int, NEW to \in Int, from <= to, NEW i \in 1..3
  PROVE  /\ BucketRanges(from, to)[i].grain \in Grains
         /\ BucketRanges(from, to)[i].from \in Int
         /\ from <= BucketRanges(from, to)[i].from
<1> DEFINE first == CeilTo(from, Hour)
           last == FloorTo(to, Hour)
           left == Earlier(first, to)
<1>1. Hour \in Nat \ {0}
  BY TimeAssumption
<1>2. first \in Int /\ from <= first /\ last \in Int
  BY <1>1, CeilAbove, FloorBelow
<1>3. left \in Int /\ from <= left
  BY <1>2 DEF Earlier
<1>4. Later(last, left) \in Int /\ from <= Later(last, left)
  BY <1>2, <1>3 DEF Later
<1>5. /\ BucketRanges(from, to)[1].grain = "minute"
      /\ BucketRanges(from, to)[1].from = from
      /\ BucketRanges(from, to)[2].grain = "hour"
      /\ BucketRanges(from, to)[2].from = first
      /\ BucketRanges(from, to)[3].grain = "minute"
      /\ BucketRanges(from, to)[3].from = Later(last, left)
  BY DEF BucketRanges
<1> HIDE DEF first, last, left
<1>6. i = 1 \/ i = 2 \/ i = 3
  OBVIOUS
<1> QED
  BY <1>2, <1>4, <1>5, <1>6 DEF Grains

\* A window within the retention counts the records that started in it.
LEMMA WindowCounts ==
  ASSUME NEW table \in [BucketKeys -> Nat], NEW ledger, NEW done, IsFiniteSet(done),
         now \in Int, BucketsExact(now, table, ledger, done),
         \A id \in done : ledger[id].start \in 0..MaxTime,
         NEW from \in Int, NEW to \in Int, from <= to, from >= now - Retention,
         Multiple(from, Minute), Multiple(to, Minute)
  PROVE  WindowCount(table, from, to)
           = Cardinality({id \in done : from <= ledger[id].start /\ ledger[id].start < to})
<1> DEFINE ranges == BucketRanges(from, to)
           counts == [i \in DOMAIN ranges |-> RangeCount(table, ranges[i])]
           C(i) == {id \in done : i \in RangesOf(ledger[id].start, from, to)}
<1>1. DOMAIN ranges = 1..3
  BY DEF BucketRanges
<1>2. ASSUME NEW i \in 1..3
      PROVE  counts[i] = Cardinality(C(i))
  <2>1. /\ ranges[i].grain \in Grains
        /\ \A m \in Minutes : ranges[i].from <= m => m >= now - Retention
    <3>1. /\ ranges[i].grain \in Grains /\ ranges[i].from \in Int /\ from <= ranges[i].from
      BY RangesBegin
    <3>2. now - Retention \in Int
      BY TimeAssumption
    <3> HIDE DEF ranges
    <3> QED
      BY <3>1, <3>2, MinutesFacts
  <2>2. C(i) = {id \in done :
           LET bucket == FloorTo(ledger[id].start, Unit(ranges[i].grain))
           IN  ranges[i].from <= bucket /\ bucket < ranges[i].to}
    BY DEF RangesOf
  <2> HIDE DEF ranges, C
  <2>3. RangeCount(table, ranges[i]) = Cardinality(C(i))
    BY <2>1, <2>2, RangeCounts
  <2> QED
    BY <1>1, <2>3
<1>3. \A i : IsFiniteSet(C(i)) /\ Cardinality(C(i)) \in Nat
  BY FS_Subset, FS_CardinalityType
<1>4. WindowCount(table, from, to) = counts[1] + counts[2] + counts[3]
  <2>1. /\ 1 \in 1..3 /\ 2 \in 1..3 /\ 3 \in 1..3 /\ ((1..3) \ {1}) \ {2} = {3}
        /\ IsFiniteSet(1..3) /\ IsFiniteSet({3})
    <3>1. IsFiniteSet(1..3)
      <4>1. 1 \in Int /\ 3 \in Int
        OBVIOUS
      <4> QED
        BY <4>1, FS_Interval
    <3>2. IsFiniteSet({3})
      BY FS_Singleton
    <3>3. /\ 1 \in 1..3 /\ 2 \in 1..3 /\ 3 \in 1..3
          /\ ((1..3) \ {1}) \ {2} = {3}
      OBVIOUS
    <3> QED
      BY <3>1, <3>2, <3>3
  <2>2. \A i \in 1..3 : counts[i] \in Nat
    BY <1>2, <1>3
  <2>3. WindowCount(table, from, to) = SumFunctionOnSet(counts, 1..3)
    BY <1>1 DEF WindowCount, SumFunction
  <2> HIDE DEF counts
  <2>4. SumFunctionOnSet(counts, 1..3)
          = counts[1] + counts[2] + SumFunctionOnSet(counts, {3})
    BY <2>1, <2>2, SumOfTwo
  <2>5. SumFunctionOnSet(counts, {3}) = counts[3] + SumFunctionOnSet(counts, {3} \ {3})
    BY <2>1, <2>2, SumTakes
  <2>6. {3} \ {3} = {}
    OBVIOUS
  <2>7. SumFunctionOnSet(counts, {3} \ {3}) = 0
    BY <2>6, SumOfNone
  <2>8. counts[1] \in Nat /\ counts[2] \in Nat /\ counts[3] \in Nat
    BY <2>1, <2>2
  <2>9. SumFunctionOnSet(counts, {3}) = counts[3]
    BY <2>5, <2>7, <2>8
  <2> QED
    BY <2>3, <2>4, <2>9
<1>5. ASSUME NEW id \in done
      PROVE  IF from <= ledger[id].start /\ ledger[id].start < to
             THEN \E i \in 1..3 : RangesOf(ledger[id].start, from, to) = {i}
             ELSE RangesOf(ledger[id].start, from, to) = {}
  BY RecordCountedOnce
<1>6. /\ C(1) \cap C(2) = {} /\ (C(1) \cup C(2)) \cap C(3) = {}
      /\ (C(1) \cup C(2)) \cup C(3)
           = {id \in done : from <= ledger[id].start /\ ledger[id].start < to}
  <2>1. \A id \in done : \A i, j : id \in C(i) /\ id \in C(j) => i = j
    BY <1>5
  <2>2. \A i, id : id \in C(i) =>
          id \in done /\ from <= ledger[id].start /\ ledger[id].start < to
    BY <1>5
  <2>3. \A id \in done : from <= ledger[id].start /\ ledger[id].start < to =>
          id \in C(1) \/ id \in C(2) \/ id \in C(3)
    <3>1. \A i \in 1..3 : i = 1 \/ i = 2 \/ i = 3
      OBVIOUS
    <3> QED
      BY <1>5, <3>1
  <2>4. \A i : C(i) \subseteq done
    OBVIOUS
  <2> HIDE DEF C
  <2> QED
    BY <2>1, <2>2, <2>3, <2>4
<1> HIDE DEF C, counts
<1>7. /\ Cardinality(C(1) \cup C(2)) = Cardinality(C(1)) + Cardinality(C(2))
      /\ IsFiniteSet(C(1) \cup C(2))
  BY <1>3, <1>6, CountTwo
<1>8. Cardinality((C(1) \cup C(2)) \cup C(3))
        = Cardinality(C(1) \cup C(2)) + Cardinality(C(3))
  BY <1>3, <1>6, <1>7, CountTwo
<1>9. counts[1] = Cardinality(C(1)) /\ counts[2] = Cardinality(C(2))
      /\ counts[3] = Cardinality(C(3))
  BY <1>2
<1> QED
  BY <1>4, <1>6, <1>7, <1>8, <1>9

\* While the process serves, every window a page can ask for counts the
\* records of the ledger that started in it once each, whatever was pruned,
\* came late, was renamed or was migrated before (routing_rollup,
\* overview_rollup_window, require_stats_ready).
THEOREM WindowsAreExact == Spec => []WindowsExact
<1>1. ASSUME IInv
      PROVE  WindowsExact
  <2> SUFFICES ASSUME server = "serving"
               PROVE  /\ meta \in Meta /\ meta.version = "current" /\ meta.phase = "ready"
                      /\ bucketMeta \in BucketMeta /\ bucketMeta.ready /\ foreign = {}
                      /\ \A window \in Windows :
                           LET to == FloorTo(now, Minute)
                               from == to - window
                           IN
                           /\ WindowCount(tables.requestBucket, from, to)
                                = Cardinality(StartedIn(requests, from, to))
                           /\ WindowCount(tables.attemptBucket, from, to)
                                = Cardinality(StartedIn(attempts, from, to))
    BY DEF WindowsExact
  <2>1. /\ meta \in Meta /\ meta.version = "current" /\ meta.phase = "ready"
        /\ bucketMeta \in BucketMeta /\ bucketMeta.ready /\ foreign = {}
    BY <1>1, MetaFacts, ServingFacts DEF IInv, ReadyToServe
  <2>2. ASSUME NEW window \in Windows
        PROVE  LET to == FloorTo(now, Minute)
                   from == to - window
               IN
               /\ WindowCount(tables.requestBucket, from, to)
                    = Cardinality(StartedIn(requests, from, to))
               /\ WindowCount(tables.attemptBucket, from, to)
                    = Cardinality(StartedIn(attempts, from, to))
    <3> DEFINE to == FloorTo(now, Minute)
               from == to - window
    <3>1. /\ Minute \in Nat \ {0} /\ Retention \in Nat /\ MaxTime \in Nat
          /\ window \in Nat /\ window % Minute = 0 /\ window + Minute <= Retention + 1
      BY TimeAssumption
    <3>2. now \in Int /\ now \in 0..MaxTime
      BY <1>1, TablesFacts DEF IInv
    <3>3. /\ to \in Int /\ now < to + Minute /\ Multiple(to, Minute)
      BY <3>1, <3>2, FloorBelow, FloorMultiple
    <3>4. Multiple(from, Minute)
      <4> DEFINE q == window \div Minute
      <4>1. q \in Int /\ window = Minute * q
        BY <3>1, Division
      <4>2. PICK p \in Int : to = Minute * p
        BY <3>3 DEF Multiple
      <4> HIDE DEF to, q
      <4>3. p - q \in Int /\ Minute * (p - q) = Minute * p - Minute * q
        BY <3>1, <4>1, <4>2
      <4> QED
        BY <4>1, <4>2, <4>3 DEF Multiple
    <3> HIDE DEF to
    <3>5. from \in Int /\ from <= to /\ from >= now - Retention
      BY <3>1, <3>2, <3>3
    <3> HIDE DEF from
    <3>6. /\ BucketsExact(now, tables.requestBucket, requests, Present(requests))
          /\ BucketsExact(now, tables.attemptBucket, attempts, Present(attempts))
      BY <1>1, ServingFacts DEF IInv, Exact
    <3>7. /\ \A id \in Present(requests) : requests[id].start \in 0..MaxTime
          /\ \A id \in Present(attempts) : attempts[id].start \in 0..MaxTime
      <4>1. /\ \A id \in Present(requests) : requests[id].start \in Nat
            /\ \A id \in Present(attempts) : attempts[id].start \in Nat
        <5>1. \A record \in Record : record.start \in Nat
          BY DEF Record
        <5> QED
          BY <1>1, <5>1, LedgerFacts, IdsAssumption DEF IInv, TypeOK
      <4> QED
        BY <1>1, <3>1, <3>2, <4>1 DEF IInv, Past
    <3>8. /\ IsFiniteSet(Present(requests)) /\ IsFiniteSet(Present(attempts))
          /\ tables.requestBucket \in [BucketKeys -> Nat]
          /\ tables.attemptBucket \in [BucketKeys -> Nat]
      BY <1>1, DoneFacts, TablesFacts DEF IInv
    <3>9. WindowCount(tables.requestBucket, from, to)
            = Cardinality(StartedIn(requests, from, to))
      <4>1. StartedIn(requests, from, to)
              = {id \in Present(requests) :
                   from <= requests[id].start /\ requests[id].start < to}
        BY DEF StartedIn, Present
      <4> QED
        BY <3>2, <3>3, <3>4, <3>5, <3>6, <3>7, <3>8, <4>1, WindowCounts
    <3>10. WindowCount(tables.attemptBucket, from, to)
             = Cardinality(StartedIn(attempts, from, to))
      <4>1. StartedIn(attempts, from, to)
              = {id \in Present(attempts) :
                   from <= attempts[id].start /\ attempts[id].start < to}
        BY DEF StartedIn, Present
      <4> QED
        BY <3>2, <3>3, <3>4, <3>5, <3>6, <3>7, <3>8, <4>1, WindowCounts
    <3> QED
      BY <3>9, <3>10 DEF from, to
  <2> QED
    BY <2>1, <2>2
<1> QED
  BY <1>1, AlwaysInv, PTL

=============================================================================
