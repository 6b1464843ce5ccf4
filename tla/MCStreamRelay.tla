--------------------------- MODULE MCStreamRelay ----------------------------
(***************************************************************************)
(* Every pair of protocols.  A Chat chunk may hold a thought, text and     *)
(* parts of two calls at once, so that a few chunks say a lot; events of   *)
(* the other protocols say one thing each, and may be more.                *)
(***************************************************************************)
EXTENDS StreamRelay, TLC

AllPairs == Protocols \X Protocols
NativeResponses == {<<"responses", "responses">>}

Short == ("chat" :> 3) @@ ("responses" :> 8) @@ ("anthropic" :> 8)

=============================================================================
