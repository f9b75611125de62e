---------------------------- MODULE MCDescendants ----------------------------
(***************************************************************************)
(* Model-checks DescendantsSearch on every graph over a small node set,    *)
(* self-loops and cycles included, from every start node.                  *)
(***************************************************************************)
EXTENDS DescendantsSearch

=============================================================================
