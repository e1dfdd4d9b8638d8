---------------------------- MODULE MCYamlLoader ----------------------------
(* YamlLoader on small files. *)
EXTENDS YamlLoader, TLC

MCPlain == {<<"a">>, <<"a", "0">>}      \* set before the file is loaded
MCScalars == {"a", "b_c"}
MCMangle(s) == IF s = "b_c" THEN "b-c" ELSE s
MCIndex(n) == ToString(n)
MCSymmetry == Permutations(Nodes)
=============================================================================
