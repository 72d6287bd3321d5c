----------------------------- MODULE MCFileOps ------------------------------
(***************************************************************************)
(* Two TNFS drives and one SD drive with a folder d and a file a; on the   *)
(* TNFS drives there is a file in d.  The folder may be written with dots, *)
(* the file in another case.                                               *)
(***************************************************************************)
EXTENDS FileOps, TLC

CONSTANTS n1, n2    \* the TNFS drives

MCNames == {"d", "a"}
MCDots == {"dots"}
MCKept == {"case"}
MCTnfs == {n1, n2}
MCSymmetry == Permutations(MCTnfs)
MCSd == {"S"}
MCGiven == {Plain(p) : p \in {Root, <<"d">>, <<"a">>}}
               \cup {[to |-> <<"d">>, as |-> MCDots], [to |-> <<"a">>, as |-> MCKept]}

MCTree == [s \in Drives |-> [p \in Paths |->
               IF p \in {Root, <<"d">>} THEN "dir"
               ELSE IF p = <<"a">> \/ (p = <<"d", "a">> /\ s \in MCTnfs) THEN "file"
               ELSE "none"]]
============================================================================
