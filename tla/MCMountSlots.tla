---------------------------- MODULE MCMountSlots ----------------------------
(***************************************************************************)
(* Finite instances of MountSlots: two servers known by name and one by    *)
(* its dotted quad; two drives; two floppy sources.                        *)
(***************************************************************************)
EXTENDS MountSlots, TLC

CONSTANTS nas, lan, pc

MCHosts == {nas, lan, pc}
MCNames == {nas, lan}
MCAddresses == 1..3
MCAddressOf == [h \in MCHosts |->
                  CASE h = nas -> {1} [] h = lan -> {2} [] h = pc -> {3}]

Drive(h, port, path) == [host |-> h, port |-> port, path |-> path]
Games == Drive(nas, 1, "/games")
Tools == Drive(nas, 1, "/tools")
Other == Drive(nas, 2, "/tools")
Home == Drive(pc, 1, "/")
Root == Drive(nas, 1, "/")
Floppies == Drive(lan, 1, "/")

MCConfigs == {Games, Tools, Other, Home, Root, Floppies}
MCSources == {Root, Floppies}

Table(d0, d1) == (0 :> d0) @@ (1 :> d1)

\* Two ports of one server; a TNFS drive and SETTINGS.
MCTables == {Table(Games, Other), Table(Home, Local)}

\* Two directories of one server.
SharedTables == {Table(Games, Tools)}

\* A server to be looked up, and one that needs no lookup.
ResolvableTables == {Table(Games, Home)}
=============================================================================
