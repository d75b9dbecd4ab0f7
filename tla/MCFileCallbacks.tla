---------------------------- MODULE MCFileCallbacks ----------------------------
(***************************************************************************)
(* The callbacks for TLC: threads and handles are alike, and so are the    *)
(* opens but for those of the cached file.                                 *)
(***************************************************************************)
EXTENDS FileCallbacks, TLC

Symmetry == Permutations(Threads) \cup Permutations(Handles)
            \cup Permutations(Cached) \cup Permutations(Opens \ Cached)
=============================================================================
