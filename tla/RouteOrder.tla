----------------------------- MODULE RouteOrder -----------------------------
(***************************************************************************)
(* The order in which a request tries the targets of its model             *)
(* (route_candidates, app.rs): the layers in the order of the schedule     *)
(* that holds, the targets of a layer at random, and in an affinity layer  *)
(* of several targets those first whose warm prompt the request repeats    *)
(* the most of.                                                            *)
(***************************************************************************)
EXTENDS Configuration

\* resolve_served_model: the model that goes by the name and is exposed
\* through the protocol, None when there is none.
AcceptsName(model, name) == model.name = name \/ name \in Members(model.aliases)

ResolveModel(document, name, protocol) ==
  LET named == {i \in DOMAIN document.models :
                  AcceptsName(document.models[i], name)}
      first == CHOOSE i \in named : \A j \in named : i <= j
  IN IF named = {} THEN None
     ELSE IF protocol \notin Members(document.models[first].protocols) THEN None
     ELSE document.models[first]

\* RandomSelector::order: any order of n things.
Orders(n) == {order \in [1 .. n -> 1 .. n] : Distinct(order)}

\* PrefixFingerprinter::fingerprint: a prompt has a checkpoint wherever another
\* interval of it is full, up to their limit, and if that is not yet reached one
\* at its own end.  A prompt is its elements, each as long as any other; two that
\* differ do so from their first byte.
Checkpoints(affinity, length) ==
  {n \in 1 .. length :
     LET whole == n \div affinity.checkpoint_bytes
     IN \/ n % affinity.checkpoint_bytes = 0 /\ whole <= affinity.max_checkpoints_per_path
        \/ n = length /\ whole < affinity.max_checkpoints_per_path}

\* PrefixIndex::lookup: how much of the prompt repeats what the target last
\* answered, up to the deepest checkpoint of the one that is one of the other.
Shared(affinity, prompt, warm) ==
  {n \in Checkpoints(affinity, Len(prompt)) \cap Checkpoints(affinity, Len(warm)) :
     \A k \in 1 .. n : prompt[k] = warm[k]}
Matched(affinity, prompt, warm) ==
  LET shared == Shared(affinity, prompt, warm)
  IN IF shared = {} THEN 0 ELSE CHOOSE n \in shared : \A m \in shared : m <= n

ByAffinity(layer) == layer.strategy = "prompt-prefix-affinity" /\ Len(layer.targets) > 1

\* The orders a layer's targets may come in.  The sort by what they match is
\* stable, so that equals stay in a random order.
LayerOrders(layer, matched) ==
  {order \in Orders(Len(layer.targets)) :
     ByAffinity(layer) =>
       \A j, k \in DOMAIN order :
          j < k => matched[order[j]] >= matched[order[k]]}

\* A layer's targets in one of its orders.
InLayer(layer, order) == [k \in DOMAIN order |-> layer.targets[order[k]]]

=============================================================================
