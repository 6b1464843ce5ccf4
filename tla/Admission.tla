----------------------------- MODULE Admission ------------------------------
(***************************************************************************)
(* Local capacity (admission.rs) together with what uses it: requests that *)
(* keep the routing document they were admitted under (workspace.rs,       *)
(* dispatch), and the save that checks changed accounts and then publishes *)
(* another document (Workspace::commit).                                   *)
(*                                                                         *)
(* A document gives each pool a limit, 0 when it does not list the pool    *)
(* (a listed limit is positive), and each account its pool: None for an    *)
(* account without one, Absent for an account it does not list.            *)
(*                                                                         *)
(* A definition whose name starts with M_ is a mutant of the one after it. *)
(***************************************************************************)
EXTENDS Naturals, FiniteSets, Functions

CONSTANTS
  Accounts,   \* account_key(backend, credential)
  Pools,
  Requests,
  Saver,      \* the one save that runs at a time (Workspace.saving)
  Documents,  \* the valid routing documents
  First,      \* the one the process starts with
  None, Absent

Document ==
  [limit : [Pools -> Nat], pool : [Accounts -> Pools \cup {None, Absent}]]

\* Config::validate: an account's pool is one the document lists.
Valid(d) == \A a \in Accounts : d.pool[a] \in Pools => d.limit[d.pool[a]] > 0

ASSUME NamesAssumption ==
  /\ None # Absent /\ {None, Absent} \cap (Pools \cup Accounts) = {}
  /\ Saver \notin Requests
  /\ None \notin Documents
ASSUME FiniteAssumption == IsFiniteSet(Requests) /\ IsFiniteSet(Accounts)
ASSUME DocumentsAssumption ==
  First \in Documents /\ \A d \in Documents : d \in Document /\ Valid(d)

VARIABLES
  limits,    \* Counters.limits; 0 for a pool never published
  pool,      \* Counters.accounts, the pool; Absent for one never registered
  inFlight,  \* Counters.accounts, in_flight
  active,    \* Workspace.active
  pinned,    \* the document each request was admitted under
  lease,     \* the account whose Lease each holder owns
  draft      \* the document being saved

registry == <<limits, pool, inFlight>>
vars == <<limits, pool, inFlight, active, pinned, lease, draft>>

Holders == Requests \cup {Saver}

\* Types; that in_flight stays a natural number is the absence of underflow.
TypeOK ==
  /\ limits \in [Pools -> Nat]
  /\ pool \in [Accounts -> Pools \cup {None, Absent}]
  /\ inFlight \in [Accounts -> Nat]
  /\ active \in Documents
  /\ pinned \in [Requests -> Documents \cup {None}]
  /\ lease \in [Holders -> Accounts \cup {None}]
  /\ draft \in Documents \cup {None}

\* AppState::new publishes the first document.
Init ==
  /\ limits = First.limit /\ pool = First.pool
  /\ inFlight = [a \in Accounts |-> 0]
  /\ active = First
  /\ pinned = [r \in Requests |-> None]
  /\ lease = [h \in Holders |-> None]
  /\ draft = None

-----------------------------------------------------------------------------
(* The counters.                                                           *)

Occupied(p) == SumFunctionOnSet(inFlight, {a \in Accounts : pool[a] = p})

\* A registered account is held to its published pool, whatever pool the
\* caller's own document names.
M_CallersPool(a, asked) == asked
PoolFor(a, asked) == IF pool[a] = Absent THEN asked ELSE pool[a]

M_OneTooMany(a, asked) ==
  LET p == PoolFor(a, asked) IN
  p # None => limits[p] > 0 /\ Occupied(p) <= limits[p]

CanAcquire(a, asked) ==
  LET p == PoolFor(a, asked) IN
  p # None => limits[p] > 0 /\ Occupied(p) < limits[p]

\* acquire_account, when it gives a lease.  A refusal changes nothing.
AcquireAccount(h, a, asked) ==
  /\ lease[h] = None
  /\ CanAcquire(a, asked)
  /\ pool' = [pool EXCEPT ![a] = PoolFor(a, asked)]
  /\ inFlight' = [inFlight EXCEPT ![a] = @ + 1]
  /\ lease' = [lease EXCEPT ![h] = a]
  /\ UNCHANGED limits

\* Lease::drop.
DropLease(h) ==
  /\ lease[h] # None
  /\ inFlight' = [inFlight EXCEPT ![lease[h]] = @ - 1]
  /\ lease' = [lease EXCEPT ![h] = None]
  /\ UNCHANGED <<limits, pool>>

\* publish_config: a listed pool gets its limit, a listed account its pool;
\* what is no longer listed stays as it was, and no count changes.
M_PublishResets(d) ==
  /\ limits' = [p \in Pools |-> IF d.limit[p] > 0 THEN d.limit[p] ELSE limits[p]]
  /\ pool' = [a \in Accounts |-> IF d.pool[a] # Absent THEN d.pool[a] ELSE pool[a]]
  /\ inFlight' = [a \in Accounts |-> IF d.pool[a] = pool[a] THEN inFlight[a] ELSE 0]

PublishConfig(d) ==
  /\ limits' = [p \in Pools |-> IF d.limit[p] > 0 THEN d.limit[p] ELSE limits[p]]
  /\ pool' = [a \in Accounts |-> IF d.pool[a] # Absent THEN d.pool[a] ELSE pool[a]]
  /\ UNCHANGED inFlight

-----------------------------------------------------------------------------
(* Requests.                                                               *)

\* dispatch: a request keeps the revision that is active when it arrives.
Arrive(r) ==
  /\ pinned[r] = None
  /\ pinned' = [pinned EXCEPT ![r] = active]
  /\ UNCHANGED <<registry, active, lease, draft>>

\* The route loop tries a target of the pinned document.
Acquire(r) ==
  /\ pinned[r] # None
  /\ \E a \in Accounts :
       /\ pinned[r].pool[a] # Absent
       /\ AcquireAccount(r, a, pinned[r].pool[a])
  /\ UNCHANGED <<active, pinned, draft>>

\* The attempt failed, the answer or the stream ended, or the client left.
Release(r) ==
  /\ DropLease(r)
  /\ UNCHANGED <<active, pinned, draft>>

Finish(r) ==
  /\ pinned[r] # None /\ lease[r] = None
  /\ pinned' = [pinned EXCEPT ![r] = None]
  /\ UNCHANGED <<registry, active, lease, draft>>

-----------------------------------------------------------------------------
(* The save.                                                               *)

BeginSave ==
  /\ draft = None
  /\ draft' \in Documents
  /\ UNCHANGED <<registry, active, pinned, lease>>

\* A new or changed binding is tried out upstream under a lease, when the
\* draft puts its account in a pool that has a limit already.
CheckAccount ==
  /\ draft # None
  /\ \E a \in Accounts :
       /\ draft.pool[a] \in Pools /\ limits[draft.pool[a]] > 0
       /\ AcquireAccount(Saver, a, draft.pool[a])
  /\ UNCHANGED <<active, pinned, draft>>

CheckDone ==
  /\ DropLease(Saver)
  /\ UNCHANGED <<active, pinned, draft>>

\* A check failed, an account was busy, the file could not be written, or the
\* editor went away.
RejectSave ==
  /\ draft # None /\ lease[Saver] = None
  /\ draft' = None
  /\ UNCHANGED <<registry, active, pinned, lease>>

\* The file is written, the registry updated and the revision swapped under
\* the write lock.
PublishSave ==
  /\ draft # None /\ lease[Saver] = None
  /\ PublishConfig(draft)
  /\ active' = draft /\ draft' = None
  /\ UNCHANGED <<pinned, lease>>

Next ==
  \/ \E r \in Requests : Arrive(r) \/ Acquire(r) \/ Release(r) \/ Finish(r)
  \/ BeginSave \/ CheckAccount \/ CheckDone \/ RejectSave \/ PublishSave

Spec == Init /\ [][Next]_vars

-----------------------------------------------------------------------------
(* Properties.                                                             *)

LeasesOn(a) == {h \in Holders : lease[h] = a}

\* No publication, rejected save or abandoned request makes the counters
\* forget or invent a lease: `in_flight -= 1` never underflows, and a leased
\* account is still registered when the lease is dropped.
CountsMatchLeases ==
  \A a \in Accounts :
    /\ inFlight[a] = Cardinality(LeasesOn(a))
    /\ LeasesOn(a) # {} => pool[a] # Absent

\* What the registry holds for the pools and accounts of the active document
\* is what the document says, whatever was published before it and whatever
\* an unfinished save has tried out.
RegistryFollowsActive ==
  /\ \A p \in Pools : active.limit[p] > 0 => limits[p] = active.limit[p]
  /\ \A a \in Accounts : active.pool[a] # Absent => pool[a] = active.pool[a]

\* The leases that count against a pool now, whenever they were taken.
LeasesIn(p) == {h \in Holders : lease[h] # None /\ pool[lease[h]] = p}

\* "Assigning or renaming a pool immediately includes existing requests": an
\* account of the active document is admitted by that document's pool and
\* limit, also for a request that still routes by an older one.
DecidesByActivePolicy ==
  \A a \in Accounts : active.pool[a] # Absent =>
    LET p == active.pool[a] IN
    \A asked \in Pools \cup {None} :
      CanAcquire(a, asked) <=>
        p # None => Cardinality(LeasesIn(p)) < active.limit[p]

\* Taking a lease never leaves a pool of the active document above its limit,
\* even if a save has just shrunk the pool or moved busy accounts into it.
AdmittedWithinLimit ==
  [][\A h \in Holders : lease'[h] # lease[h] /\ lease'[h] # None =>
       LET p == active.pool[lease'[h]] IN
       p \in Pools =>
         Cardinality({g \in Holders : lease'[g] # None /\ active.pool[lease'[g]] = p})
           <= active.limit[p]]_vars

=============================================================================
