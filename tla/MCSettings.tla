----------------------------- MODULE MCSettings ------------------------------
(***************************************************************************)
(* Finite instances of Settings: two slots, four letters, a sector that    *)
(* was never written or holds a list of this version or the one before it, *)
(* valid or with a letter used twice, indices that wrap around, records of *)
(* every kind.                                                             *)
(***************************************************************************)
EXTENDS Settings

MCSystem(net, rtc) == [net |-> net, rtc |-> rtc]

Old(used, letter, kind) == [used |-> used, letter |-> letter, kind |-> kind]
Version2(second) ==
    [version |-> 2,
     list |-> [settings |-> "S",
               slots |-> [i \in Slots |->
                            IF i = 0 THEN Old(TRUE, "P", "sd")
                            ELSE Old(TRUE, second, "udp")]]]
Version3 ==
    Image([settings |-> "C",
           slots |-> [i \in Slots |->
                        IF i = 0 THEN Record("enabled", "P", "tcp")
                        ELSE Record("enabled", "N", "sd")]])

MCDriveImages == {Unreadable, Version2("N"), Version2("P"), Version3}
MCSystemImages == {None, MCSystem("n1", "r1")}
MCDefaultSystem == MCSystem("n0", "r0")
MCLegacySystem == MCSystem("n1", "r0")
MCEdits ==
    {Record("enabled", "N", "sd"), Record("disabled", "P", "udp"),
     Record("enabled", "S", "tcp"), Record("enabled", "A", "sd"),
     Record("empty", "P", "sd")}
=============================================================================
