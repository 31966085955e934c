----------------------------- MODULE MCNodePush -----------------------------
(* Which edits follow which in the runs of NodePush.                         *)
EXTENDS NodePush

AnyEdit == {e \in Specs \X Specs : e[1] # e[2]}
\* No edit restores an earlier spec.
NeverReverts == {e \in Specs \X Specs : e[1] < e[2]}
=============================================================================
