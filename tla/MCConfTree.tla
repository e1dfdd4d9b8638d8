----------------------------- MODULE MCConfTree -----------------------------
(* ConfTree with two levels of names. *)
EXTENDS ConfTree, TLC

MCPaths == {<<"a">>, <<"a", "b">>, <<"b">>}

MCSymmetry == Permutations(Nodes) \cup Permutations(Values)
=============================================================================
