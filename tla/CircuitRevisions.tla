-------------------------- MODULE CircuitRevisions --------------------------
(***************************************************************************)
(* One route target through a series of live saves (AppState::new, given   *)
(* the previous state).  A save that leaves the target's execution         *)
(* identity alone (target_identity: endpoint, key, protocols) hands its    *)
(* CircuitBreaker on; one that changes it loads another breaker from the   *)
(* record of the new identity.  Requests keep the breaker of the revision  *)
(* they arrived under.                                                     *)
(*                                                                         *)
(* Each request is given one permit, which bounds the generations.         *)
(* Records are always written; what a failed write does is Circuit's       *)
(* subject, as are waiting and restarts.                                   *)
(*                                                                         *)
(* A definition whose name starts with M_ is a mutant of the one after it. *)
(***************************************************************************)
EXTENDS CircuitState, FiniteSets, SequencesExt

CONSTANTS
  Identities,  \* the execution identities the target's configuration can give it
  Requests,
  MaxSaves,    \* bound on the saves of a behaviour
  Reverts      \* whether a save may return to an identity used before

VARIABLES
  breakers,  \* the CircuitBreakers created, in order; the last one is active
  record,    \* what the store holds under each identity's key
  draft,     \* the breaker of the revision being saved, before it is published
  saves,
  pinned,    \* the breaker of the revision a request arrived under; 0 before
  permit,    \* its CircuitPermit
  over       \* the requests that have settled theirs

vars == <<breakers, record, draft, saves, pinned, permit, over>>

Breaker == [identity : Identities, state : Snapshot]

TypeOK ==
  /\ breakers \in Seq(Breaker) /\ breakers # <<>>
  /\ \A i \in DOMAIN breakers : WellFormed(breakers[i].state)
  /\ record \in [Identities -> Snapshot]
  /\ draft \in Breaker \cup {None}
  /\ saves \in Nat
  /\ pinned \in [Requests -> 0..Len(breakers)]
  /\ permit \in [Requests -> Permits \cup {None}]
  /\ over \subseteq Requests

Active == Len(breakers)

\* What earlier runs of the program may have left under a key: nothing, or the
\* record of one failure.
LeftBehind == {Fresh(0), Tripped(Fresh(0), "ProviderTransient", None)}

Init ==
  /\ record \in [Identities -> LeftBehind]
  /\ \E i \in Identities :
       breakers = <<[identity |-> i, state |-> Loaded(record[i])]>>
  /\ draft = None /\ saves = 0
  /\ pinned = [r \in Requests |-> 0]
  /\ permit = [r \in Requests |-> None]
  /\ over = {}

-----------------------------------------------------------------------------
\* The breaker and the record under its key change together.
Store(b, s) ==
  /\ breakers' = [breakers EXCEPT ![b].state = s]
  /\ record' = [record EXCEPT ![breakers[b].identity] = s]

Arrive(r) ==
  /\ pinned[r] = 0
  /\ pinned' = [pinned EXCEPT ![r] = Active]
  /\ UNCHANGED <<breakers, record, draft, saves, permit, over>>

\* CircuitBreaker::decide, when it gives a permit.
Decide(r) ==
  LET b == pinned[r]
      s == Reclaimed(breakers[b].state, 0)
  IN
  /\ b # 0 /\ permit[r] = None /\ r \notin over
  /\ \/ s.mode = "Closed"
        /\ permit' = [permit EXCEPT ![r] = [generation |-> s.generation, probe |-> FALSE]]
        /\ UNCHANGED <<breakers, record>>
     \/ MayProbe(s, 0)
        /\ permit' = [permit EXCEPT ![r] = [generation |-> s.generation, probe |-> TRUE]]
        /\ Store(b, HalfOpened(s, 0))
  /\ UNCHANGED <<draft, saves, pinned, over>>

\* success, failure, or the abandonment of a dropped permit.
Settle(r) ==
  /\ permit[r] # None
  /\ LET b == pinned[r]
         s == breakers[b].state
     IN  \E next \in { Succeeded(s, permit[r]), Abandoned(s, permit[r]),
                       Failed(s, permit[r], "ProviderTransient", None) } :
           IF next = s THEN UNCHANGED <<breakers, record>> ELSE Store(b, next)
  /\ permit' = [permit EXCEPT ![r] = None]
  /\ over' = over \cup {r}
  /\ UNCHANGED <<draft, saves, pinned>>

\* The breaker a revision gives the target in identity i: the active one if
\* its identity is the same, or one loaded from the record of i.
M_AlwaysLoads(i) ==
  /\ draft' = [identity |-> i, state |-> Loaded(record[i])]
  /\ record' = [record EXCEPT ![i] = Loaded(@)]

BreakerFor(i) ==
  IF i = breakers[Active].identity
  THEN draft' = breakers[Active] /\ UNCHANGED record
  ELSE /\ draft' = [identity |-> i, state |-> Loaded(record[i])]
       /\ record' = [record EXCEPT ![i] = Loaded(@)]

UsedBefore(i) == \E b \in 1..(Active - 1) : breakers[b].identity = i

\* AppState::revise, before the accounts are checked upstream.
Revise ==
  /\ draft = None /\ saves < MaxSaves
  /\ \E i \in Identities : (Reverts \/ ~UsedBefore(i)) /\ BreakerFor(i)
  /\ saves' = saves + 1
  /\ UNCHANGED <<breakers, pinned, permit, over>>

\* The revision becomes the active one.
M_AlwaysNew == breakers' = Append(breakers, draft)

NextBreakers ==
  breakers' = IF draft.identity = breakers[Active].identity THEN breakers
              ELSE Append(breakers, draft)

Publish ==
  /\ draft # None
  /\ NextBreakers
  /\ draft' = None
  /\ UNCHANGED <<record, saves, pinned, permit, over>>

\* A check fails and the revision is forgotten, not what loading it wrote.
Reject ==
  /\ draft # None
  /\ draft' = None
  /\ UNCHANGED <<breakers, record, saves, pinned, permit, over>>

Tick ==
  /\ breakers' = [b \in DOMAIN breakers |->
                    [breakers[b] EXCEPT !.state = Aged(@, 1)]]
  /\ record' = [i \in Identities |-> Aged(record[i], 1)]
  /\ draft' = IF draft = None THEN None ELSE [draft EXCEPT !.state = Aged(@, 1)]
  /\ UNCHANGED <<saves, pinned, permit, over>>

Next ==
  \/ \E r \in Requests : Arrive(r) \/ Decide(r) \/ Settle(r)
  \/ Revise \/ Publish \/ Reject \/ Tick

Spec == Init /\ [][Next]_vars

-----------------------------------------------------------------------------
(* Properties.                                                             *)

\* The requests that are probing identity i now: their result would be taken.
ProbesOf(i) ==
  {r \in Requests :
     /\ permit[r] # None /\ permit[r].probe
     /\ LET b == breakers[pinned[r]] IN
          /\ b.identity = i /\ b.state.mode = "HalfOpen"
          /\ b.state.generation = permit[r].generation}

\* "An open or suspended target admits one half-open probe": whatever is
\* saved while requests of older revisions are in flight, at most one of them
\* probes the same target in the same identity.
OneProbePerTarget == \A i \in Identities : Cardinality(ProbesOf(i)) <= 1

\* A restart now would find the active breaker as it is: no request of an
\* older revision has overwritten its record, and no save has handed it to
\* another identity's.
RecordOfActive ==
  record[breakers[Active].identity] = breakers[Active].state

=============================================================================
