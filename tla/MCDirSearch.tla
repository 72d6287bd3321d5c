---------------------------- MODULE MCDirSearch ----------------------------
(* Instances of DirSearch for TLC. *)
EXTENDS DirSearch, TLC

MCPaths == {"/", "/data"}
MCDir ==
    [p \in MCPaths |-> IF p = "/" THEN <<"y", "x">> ELSE <<"x", "y", "z">>]
MCPatterns == {"x*", "x"}
MCMatches == [p \in MCPatterns |-> {"x"}]
Symmetry == Permutations(Dtas) \cup Permutations(Drives)
=============================================================================
