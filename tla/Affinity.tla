------------------------------ MODULE Affinity ------------------------------
(***************************************************************************)
(* The prompt-prefix directory (affinity.rs): which cache domain was last  *)
(* seen with which prefix of a prompt warm, and until when.  Requests      *)
(* observe a finished answer and look a new prompt up; a background task   *)
(* removes what has expired; capacity evicts the rest.  Each operation     *)
(* holds the lock of the whole index, but reads the clock before it.       *)
(*                                                                         *)
(* A prompt is its sequence of checkpoint-sized blocks, and the keyed hash *)
(* of a checkpoint the prefix it stands for: equal fingerprints are taken  *)
(* to mean equal prefixes.  What else a hash decides, the order of the     *)
(* lease ids, is drawn when the directory is made.  Token counts and       *)
(* versions ride along unread and are left out.                            *)
(*                                                                         *)
(* A definition whose name starts with M_ is a mutant of the one after it. *)
(***************************************************************************)
EXTENDS Integers, FiniteSets, SequencesExt

CONSTANTS
  Prompts,                   \* bound: what clients ask, sequences of blocks
  Domains,                   \* CacheDomain: a target in one generation
  LeaseIds,                  \* bound: which of them meet, <<domain, prompt>>
  HashOrders,                \* bound: orders of the lease ids a random key may give
  MaxCheckpoints,            \* max_checkpoints_per_path
  MaxCandidates,             \* max_candidates_per_prefix
  MaxLeases,                 \* max_leases
  Ttls,                      \* how long an answer is evidence (success_ttl_ms)
  SuccessfulRequest, ProviderReported,  \* EvidenceConfidence, the weaker first
  Lag,                       \* how late the lock may come after reading the clock
  MaxTime                    \* bound on the clock

Confidences == {SuccessfulRequest, ProviderReported}

ASSUME PromptsAssumption == \A prompt \in Prompts : prompt \in Seq(ToSet(prompt))
ASSUME LimitsAssumption ==
  /\ MaxCheckpoints \in Nat \ {0} /\ MaxCandidates \in Nat \ {0} /\ MaxLeases \in Nat \ {0}
  /\ Ttls \subseteq Nat \ {0} /\ LeaseIds \subseteq Domains \X Prompts
ASSUME OrdersAssumption ==
  /\ SuccessfulRequest \in Nat /\ ProviderReported \in Nat
  /\ SuccessfulRequest < ProviderReported
  /\ HashOrders # {}
  /\ \A order \in HashOrders : order \in [LeaseIds -> Nat] /\ IsInjective(order)
ASSUME BoundsAssumption ==
  Lag \in Nat /\ MaxTime \in Nat

VARIABLES
  index,      \* IndexState: leases, prefix and expiry_order
  lease_key,  \* the order the directory's key gives to the ids
  now,        \* the clock
  seen,       \* history: the evidence given for the leases that are still kept
  crowded     \* history: <<key, id>> where a candidate had to make room

vars == <<index, lease_key, now, seen, crowded>>

(***************************************************************************)
(* Paths, epochs and their order.                                          *)
(***************************************************************************)
\* The checkpoints of a prompt are its prefixes, as many as a path may have.
DeepestOrdinal(prompt) ==
  IF Len(prompt) < MaxCheckpoints THEN Len(prompt) ELSE MaxCheckpoints
Upto(prompt, ordinal) == {SubSeq(prompt, 1, i) : i \in 1..ordinal}
Checkpoints(prompt) == Upto(prompt, DeepestOrdinal(prompt))

M_DominatesByExpiry(left, right) == left.expires >= right.expires
Dominates(left, right) ==
  left.through >= right.through /\ left.expires >= right.expires

Compact(epochs) ==
  {candidate \in epochs : ~\E other \in epochs \ {candidate} : Dominates(other, candidate)}

\* The lexicographic order of the tuples the code compares, and the member of a
\* set whose tuple is the largest or the smallest.
Smaller(a, b) ==
  \E i \in DOMAIN a : (\A j \in 1..(i - 1) : a[j] = b[j]) /\ a[i] < b[i]
Largest(S, key(_)) ==
  LET keyed == [x \in S |-> key(x)]
  IN  CHOOSE x \in S : \A y \in S : ~Smaller(keyed[x], keyed[y])
Smallest(S, key(_)) ==
  LET keyed == [x \in S |-> key(x)]
  IN  CHOOSE x \in S : \A y \in S : ~Smaller(keyed[y], keyed[x])

Rank(id) == lease_key[id]

Strength(epoch) == <<epoch.confidence, epoch.expires, epoch.through>>

M_WarmPastFrontier(epochs, ordinal, at) == {e \in epochs : e.expires > at}
Warm(epochs, ordinal, at) ==
  {e \in epochs : e.through >= ordinal /\ e.expires > at}
BestEpoch(epochs, ordinal, at) == Largest(Warm(epochs, ordinal, at), Strength)

LeaseExpiry(epochs) == LET e == Largest(epochs, LAMBDA x : <<x.expires>>) IN e.expires
MaxFrontier(epochs) == LET e == Largest(epochs, LAMBDA x : <<x.through>>) IN e.through

(***************************************************************************)
(* The index.                                                              *)
(***************************************************************************)
EmptyIndex == [leases |-> <<>>, prefix |-> <<>>, expiry_order |-> {}]

Epochs(ix, id) == IF id \in DOMAIN ix.leases THEN ix.leases[id] ELSE {}
Candidates(ix, key) == IF key \in DOMAIN ix.prefix THEN ix.prefix[key] ELSE <<>>
Without(f, keys) == [k \in DOMAIN f \ keys |-> f[k]]
With(f, key, value) ==
  [k \in DOMAIN f \cup {key} |-> IF k = key THEN value ELSE f[k]]

\* The others of a list, in their order.
Others(ids, id) ==
  LET others[i \in 0..Len(ids)] ==
        IF i = 0 THEN <<>>
        ELSE IF ids[i] = id THEN others[i - 1] ELSE Append(others[i - 1], ids[i])
  IN  others[Len(ids)]

\* The references of id at the keys are dropped, and with the last one the key.
RemoveRefs(prefix, keys, id) ==
  LET Left(k) == IF k \in keys THEN Others(prefix[k], id) ELSE prefix[k]
  IN  [k \in {x \in DOMAIN prefix : Left(x) # <<>>} |-> Left(k)]

RemoveLease(ix, id) ==
  [leases       |-> Without(ix.leases, {id}),
   prefix       |-> RemoveRefs(ix.prefix, Checkpoints(id[2]), id),
   expiry_order |-> ix.expiry_order \ {<<LeaseExpiry(ix.leases[id]), id>>}]

\* Which candidate makes room: one without warm evidence, the first of them in
\* the list, or else the weakest.
CandidateScore(ix, key, at, id) ==
  LET epochs == Epochs(ix, id)
      best   == BestEpoch(epochs, Len(key), at)
  IN  IF Warm(epochs, Len(key), at) = {} THEN <<0>>
      ELSE <<1, best.confidence, best.expires, best.through, Rank(id)>>
FirstWorst(ix, key, at, ids) ==
  Smallest(DOMAIN ids, LAMBDA i : CandidateScore(ix, key, at, ids[i]) \o <<i>>)

\* The candidates of a key once id is one of them.
AddPrefixRef(ix, key, id, at) ==
  LET old == Candidates(ix, key)
      ids == IF id \in ToSet(old) THEN old ELSE Append(old, id)
  IN  IF Len(ids) <= MaxCandidates THEN ids
      ELSE RemoveAt(ids, FirstWorst(ix, key, at, ids))

\* At most one lease is over the limit: the one that was just added.
EvictOldest(ix) ==
  LET oldest == Smallest(ix.expiry_order, LAMBDA x : <<x[1], Rank(x[2])>>)
  IN  IF Cardinality(DOMAIN ix.leases) > MaxLeases THEN RemoveLease(ix, oldest[2]) ELSE ix

\* The index with other epochs for a lease, which moves in the eviction order.
M_WithEpochsNotMoved(ix, id, epochs) ==
  [ix EXCEPT
     !.leases = With(@, id, epochs),
     !.expiry_order = @ \cup {<<LeaseExpiry(epochs), id>>}]
WithEpochs(ix, id, epochs) ==
  LET earlier == IF Epochs(ix, id) = {} THEN {} ELSE {<<LeaseExpiry(Epochs(ix, id)), id>>}
  IN  [ix EXCEPT
         !.leases = With(@, id, epochs),
         !.expiry_order = (@ \ earlier) \cup {<<LeaseExpiry(epochs), id>>}]

(***************************************************************************)
(* PrefixIndex.observe                                                     *)
(***************************************************************************)
\* Evidence is refused for a frontier outside the path and for a past expiry.
Acceptable(id, epoch, at) ==
  epoch.through \in 1..DeepestOrdinal(id[2]) /\ epoch.expires > at

Observed(ix, id, epoch, at) ==
  LET added   == WithEpochs(ix, id,
                   Compact({e \in Epochs(ix, id) : ~Dominates(epoch, e)} \cup {epoch}))
      covered == Upto(id[2], epoch.through)
      prefix  == [k \in covered \cup DOMAIN ix.prefix |->
                    IF k \in covered THEN AddPrefixRef(added, k, id, at) ELSE ix.prefix[k]]
  IN  IF \E e \in Epochs(ix, id) : Dominates(e, epoch) THEN ix
      ELSE EvictOldest([added EXCEPT !.prefix = prefix])

\* The times an operation may act on: it read the clock before it got the lock.
ReadTimes == {t \in (now - Lag)..now : t >= 0}

\* History: a claim counts until its lease goes, it is removed as expired, or
\* another claim on the lease says as much.
SaysAsMuch(c, d) == c.id = d.id /\ c.through >= d.through /\ c.expires >= d.expires
WithClaim(claim) ==
  IF \E c \in seen : SaysAsMuch(c, claim) THEN seen
  ELSE {c \in seen : ~SaysAsMuch(claim, c)} \cup {claim}
Kept(claims) == {c \in claims : c.id \in DOMAIN index'.leases}

\* History: the candidates of the covered keys that are not listed any more.
MadeRoom(ix, id, covered) ==
  {x \in covered \X (DOMAIN index.leases \cup {id}) :
     /\ x[2] = id \/ x[2] \in ToSet(Candidates(index, x[1]))
     /\ x[2] \notin ToSet(Candidates(ix, x[1]))}

Observe(id, epoch, at) ==
  LET covered == Upto(id[2], epoch.through)
      relists == IF index' = index THEN {} ELSE covered \X {id}
      claim   == [id |-> id, through |-> epoch.through, expires |-> epoch.expires,
                  confidence |-> epoch.confidence]
  IN  /\ Acceptable(id, epoch, at)
      /\ index' = Observed(index, id, epoch, at)
      /\ seen' = Kept(WithClaim(claim))
      /\ crowded' = {c \in (crowded \ relists) \cup MadeRoom(index', id, covered) :
                       c[2] \in DOMAIN index'.leases}
      /\ UNCHANGED <<lease_key, now>>

(***************************************************************************)
(* PrefixIndex.lookup                                                      *)
(***************************************************************************)
NoMatch == [ordinal |-> 0]

\* The leases that answer for a key, in the domains a request may use.
Answering(eligible, key, at) ==
  {id \in ToSet(Candidates(index, key)) :
     id[1] \in eligible /\ Warm(Epochs(index, id), Len(key), at) # {}}

Lookup(prompt, eligible, at) ==
  LET Key(i) == SubSeq(prompt, 1, i)
      hits == {i \in 1..DeepestOrdinal(prompt) : Answering(eligible, Key(i), at) # {}}
      deep == CHOOSE i \in hits : \A j \in hits : j <= i
      Best(id) == BestEpoch(index.leases[id], deep, at)
      id   == Largest(Answering(eligible, Key(deep), at),
                      LAMBDA x : <<Best(x).confidence, Best(x).expires, Rank(x)>>)
  IN  IF hits = {} THEN NoMatch
      ELSE [ordinal |-> deep, id |-> id, expires |-> Best(id).expires,
            confidence |-> Best(id).confidence]

(***************************************************************************)
(* PrefixIndex.expire                                                      *)
(***************************************************************************)
ExpireLease(ix, id, at) ==
  LET kept   == {e \in ix.leases[id] : e.expires > at}
      after  == Compact(kept)
      beyond == Checkpoints(id[2]) \ Upto(id[2], MaxFrontier(after))
  IN  CASE kept = {} -> RemoveLease(ix, id)
        [] kept = ix.leases[id] -> ix
        [] OTHER -> [WithEpochs(ix, id, after) EXCEPT !.prefix = RemoveRefs(@, beyond, id)]

Expire(at) ==
  /\ index' = FoldSet(LAMBDA id, ix : ExpireLease(ix, id, at), index, DOMAIN index.leases)
  /\ seen' = {c \in Kept(seen) : c.expires > at}
  /\ crowded' = {c \in crowded : c[2] \in DOMAIN index'.leases}
  /\ UNCHANGED <<lease_key, now>>

(***************************************************************************)
(* The process.                                                            *)
(***************************************************************************)
Init ==
  /\ index = EmptyIndex /\ lease_key \in HashOrders
  /\ now = 0 /\ seen = {} /\ crowded = {}

\* A new directory starts empty, under a new key: the process started again, or
\* a revision changed the limits.
Restart ==
  /\ index' = EmptyIndex /\ lease_key' \in HashOrders
  /\ seen' = {} /\ crowded' = {}
  /\ UNCHANGED now

Tick ==
  /\ now < MaxTime
  /\ now' = now + 1
  /\ UNCHANGED <<index, lease_key, seen, crowded>>

\* Any frontier may be observed; the gateway itself reports whole paths.
Next ==
  \/ \E id \in LeaseIds, confidence \in Confidences, ttl \in Ttls, at \in ReadTimes :
       \E through \in 1..DeepestOrdinal(id[2]) :
         Observe(id, [through |-> through, expires |-> at + ttl, confidence |-> confidence], at)
  \/ \E at \in ReadTimes : Expire(at)
  \/ Restart
  \/ Tick

Spec == Init /\ [][Next]_vars

(***************************************************************************)
(* Properties                                                              *)
(***************************************************************************)
\* The three maps of the index describe the same leases.  The eviction order
\* holds every lease exactly once, at its latest expiry; no lease keeps
\* dominated evidence; every candidate of a key is a kept lease whose path has
\* that key and whose frontier reaches it; no list is empty or longer than its
\* limit, and there are no more leases than allowed.
IndexConsistent ==
  /\ Cardinality(DOMAIN index.leases) <= MaxLeases
  /\ index.expiry_order = {<<LeaseExpiry(index.leases[id]), id>> : id \in DOMAIN index.leases}
  /\ \A id \in DOMAIN index.leases :
       /\ index.leases[id] # {} /\ Compact(index.leases[id]) = index.leases[id]
       /\ \A e \in index.leases[id] :
            e.through \in 1..DeepestOrdinal(id[2]) /\ e.confidence \in Confidences
  /\ \A key \in DOMAIN index.prefix :
       /\ Len(index.prefix[key]) \in 1..MaxCandidates /\ IsInjective(index.prefix[key])
       /\ \A id \in ToSet(index.prefix[key]) :
            /\ id \in DOMAIN index.leases
            /\ key \in Upto(id[2], MaxFrontier(index.leases[id]))

\* A lookup never fabricates coverage: whatever it answers, at any time it may
\* act on, was observed for the same domain, on a prompt with that very prefix,
\* to at least that depth, with that confidence, and lasts exactly as long.
NeverFabricates ==
  \A prompt \in Prompts, d \in Domains, at \in ReadTimes :
    LET found == Lookup(prompt, {d}, at)
    IN  found # NoMatch =>
          \E c \in seen :
            /\ c.id = found.id /\ c.id[1] = d
            /\ SubSeq(prompt, 1, found.ordinal) \in Upto(c.id[2], c.through)
            /\ c.expires = found.expires /\ c.expires > at
            /\ c.confidence = found.confidence

\* Only room makes the directory forget: evidence that has not expired, of a
\* lease that was not evicted, is found by every prompt that shares a prefix with
\* it, at least as deep as the deepest shared checkpoint it did not lose to
\* the limit on candidates.
ForgetsOnlyForRoom ==
  \A c \in seen : c.expires > now =>
    \A prompt \in Prompts :
      \A key \in Upto(c.id[2], c.through) \cap Checkpoints(prompt) :
        <<key, c.id>> \notin crowded => Lookup(prompt, {c.id[1]}, now).ordinal >= Len(key)
=============================================================================
