--------------------------- MODULE MCSecurityStore ---------------------------
(* Instances of SecurityStore for TLC: the paths clients name.             *)
EXTENDS SecurityStore, TLC

\* A directory and two files, one of them in it.
Mixed == {<<"d">>, <<"d", "f">>, <<"g">>}

MixedDirs == {<<"d">>}

Default == [p \in Parts |-> CHOOSE v \in Values : \A w \in Values : v =< w]

Symmetry == Permutations(Ids) \cup Permutations(Threads)
=============================================================================
