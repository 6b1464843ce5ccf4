----------------------------- MODULE MCAffinity -----------------------------
(***************************************************************************)
(* Two prompts that share their first block, one longer than a path may    *)
(* have checkpoints, the other asked in two domains: one lease fewer than  *)
(* that, and one candidate fewer for the key they share.                   *)
(***************************************************************************)
EXTENDS Affinity

CONSTANTS a, b, c, d1, d2

MCPrompts == {<<a, b>>, <<a, c, b>>}
MCDomains == {d1, d2}
MCLeaseIds == {<<d1, <<a, b>>>>, <<d1, <<a, c, b>>>>, <<d2, <<a, b>>>>}
\* Two keys of the directory: one order of the lease ids, and its reverse.
MCHashOrders ==
  LET first == <<d1, <<a, b>>>> :> 1 @@ <<d2, <<a, b>>>> :> 2 @@ <<d1, <<a, c, b>>>> :> 3
  IN  {first, [id \in MCLeaseIds |-> 4 - first[id]]}
=============================================================================
