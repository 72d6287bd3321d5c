---------------------------- MODULE MCOpenFiles -----------------------------
(***************************************************************************)
(* A finite instance of OpenFiles: SETTINGS, one SD drive, two TNFS        *)
(* drives.  Two drives and two handles are enough for two files of one     *)
(* server and for the same handle number on two servers.  Nothing tells    *)
(* the two drives apart.                                                   *)
(***************************************************************************)
EXTENDS OpenFiles, TLC

MCSymmetry == Permutations(TnfsDrives)
=============================================================================
