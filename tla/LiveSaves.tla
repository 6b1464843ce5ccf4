------------------------------ MODULE LiveSaves -------------------------------
(***************************************************************************)
(* A live save from end to end: the routing document with its local        *)
(* capacity (Admission) and the circuit breaker of one route target        *)
(* (CircuitRevisions) change together, under requests that keep both from  *)
(* the revision they arrived under.  The target spends the account         *)
(* Watched.  A draft gives the target's breaker before its accounts are    *)
(* checked (AppState::revise, then Workspace::commit), and is published or *)
(* forgotten with it.                                                      *)
(***************************************************************************)
EXTENDS Admission, Sequences

CONSTANTS
  Watched,    \* the account of the target whose breaker is followed
  Identities, MaxSaves, Reverts,            \* as in CircuitRevisions
  Schedule, AbandonDelay, ProbeLease, MaxLag  \* as in CircuitState

ASSUME RevisionsAssumption ==
  /\ None \notin Identities \cup Requests
  /\ MaxSaves \in Nat /\ Reverts \in BOOLEAN

\* The target is in every document: one that left and came back would load
\* its breaker again, which Reverts stands for.
ASSUME WatchedAssumption ==
  Watched \in Accounts /\ \A d \in Documents : d.pool[Watched] # Absent

VARIABLES
  breakers, record, saves, permit, over,  \* as in CircuitRevisions
  revised,                                \* its draft
  breakerOf                               \* its pinned

Breaker == INSTANCE CircuitRevisions WITH draft <- revised, pinned <- breakerOf

\* As in CircuitState.
ASSUME CircuitAssumption ==
  Breaker!NoneAssumption /\ Breaker!DelayAssumption /\ Breaker!ScheduleAssumption

breakerVars == <<breakers, record, saves, permit, over, revised, breakerOf>>
allVars == <<vars, breakerVars>>

InitAll == Init /\ Breaker!Init

-----------------------------------------------------------------------------
\* dispatch takes one revision: its document and its targets.
Begin(r) == Arrive(r) /\ Breaker!Arrive(r)

\* The route loop takes the lease first, ...
TakeLease(r) == r \notin over /\ Acquire(r) /\ UNCHANGED breakerVars

\* ... then asks the breaker, ...
AskBreaker(r) == lease[r] = Watched /\ Breaker!Decide(r) /\ UNCHANGED vars

SettlePermit(r) == Breaker!Settle(r) /\ UNCHANGED vars

\* ... and gives the lease back when nothing is out any more: the breaker
\* refused, or the permit is settled.
GiveUpLease(r) == permit[r] = None /\ Release(r) /\ UNCHANGED breakerVars

End(r) == permit[r] = None /\ Finish(r) /\ UNCHANGED breakerVars

\* AppState::revise builds the revision, breaker included, and only then are
\* its changed accounts tried out.
BeginRevision == BeginSave /\ Breaker!Revise
TryAccount == CheckAccount /\ UNCHANGED breakerVars
TryDone == CheckDone /\ UNCHANGED breakerVars
ForgetRevision == RejectSave /\ Breaker!Reject
PublishRevision == PublishSave /\ Breaker!Publish

Wait == Breaker!Tick /\ UNCHANGED vars

NextAll ==
  \/ \E r \in Requests :
       \/ Begin(r) \/ TakeLease(r) \/ AskBreaker(r) \/ SettlePermit(r)
       \/ GiveUpLease(r) \/ End(r)
  \/ BeginRevision \/ TryAccount \/ TryDone \/ ForgetRevision \/ PublishRevision
  \/ Wait

SpecAll == InitAll /\ [][NextAll]_allVars

-----------------------------------------------------------------------------
(* Properties; those of Admission are checked here too.                    *)

\* See CircuitRevisions: of all requests of all revisions, at most one probes
\* the target in an identity.
OneProbePerTarget == Breaker!OneProbePerTarget

\* See CircuitRevisions: a restart now would find the active breaker as it is.
RecordOfActive == Breaker!RecordOfActive

=============================================================================
