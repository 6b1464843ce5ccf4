----------------------------- MODULE MCWorkspace ----------------------------
(***************************************************************************)
(* Two documents, two editors, and a file that may be of version 3.        *)
(***************************************************************************)
EXTENDS Workspace

CONSTANTS d1, d2, e1, e2

AnyFile == {[doc |-> d1, form |-> f] : f \in Forms}
LegacyFile == {[doc |-> d1, form |-> "legacy"]}

=============================================================================
