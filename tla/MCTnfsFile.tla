----------------------------- MODULE MCTnfsFile -----------------------------
(***************************************************************************)
(* Finite instances of TnfsFile: a file of three chunks, two contents of a *)
(* chunk, calls of up to two chunks, one retry.                            *)
(***************************************************************************)
EXTENDS TnfsFile
=============================================================================
