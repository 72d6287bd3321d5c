---------------------------- MODULE MCFsListing ----------------------------
(***************************************************************************)
(* Three operations on one drive, a counter of three values, one retry:    *)
(* six requests at most, so the counter wraps and late answers of earlier  *)
(* operations meet numbers that are in use again.                          *)
(***************************************************************************)
EXTENDS FsListing, TLC

MCSlots == {"c"}
MCServer == [s \in MCSlots |-> "nas"]
MCServers == {"nas", "lan"}
MCSids == {1, 2}
MCCmds == {"READ"}
============================================================================
