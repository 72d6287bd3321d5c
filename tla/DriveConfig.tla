---------------------------- MODULE DriveConfig ------------------------------
(***************************************************************************)
(* The drive list (src/romemul/sidetnfs_config.c) as data: which lists are *)
(* valid, what a boot makes of the bytes in flash, and the table of        *)
(* runtime drives that sidetnfs_runtime_drives_init (gemdrvemul.c) builds  *)
(* from a list.  Host, port, paths and nickname are one field each record  *)
(* has or lacks; the count of configured slots is recomputed by the code   *)
(* wherever it changes and is left out.                                    *)
(***************************************************************************)
EXTENDS Integers, Sequences, FiniteSets

CONSTANTS
    None,
    MaxDrives,       \* SIDETNFS_MAX_DRIVES
    Letters,         \* the letters a drive may have: C to Z
    DefaultLetter,   \* the letter of the default drive: N
    DefaultSettings, \* SIDETNFS_DEFAULT_CONFIG_DRIVE_LETTER: S
    LegacyLetter     \* PARAM_GEMDRIVE_DRIVE of the old store: C

ASSUME DriveConfigAssumption ==
    /\ MaxDrives \in Nat \ {0}
    /\ {DefaultLetter, DefaultSettings, LegacyLetter} \subseteq Letters
    /\ DefaultLetter # DefaultSettings
    /\ None \notin Letters

Slots == 0 .. MaxDrives - 1

\* "tcp" is a TNFS drive with the transport this firmware cannot use yet.
DriveKinds == {"udp", "tcp", "sd"}

\* Used: DISABLED or ENABLED.
Empty == [state |-> "empty", letter |-> None, kind |-> None]
Record(state, letter, kind) ==
    [state |-> state, letter |-> letter, kind |-> kind]
UsedRecords == [state : {"disabled", "enabled"}, letter : Letters, kind : DriveKinds]
Lists == [settings : Letters, slots : [Slots -> UsedRecords \cup {Empty}]]

DefaultDrive == Record("enabled", DefaultLetter, "udp")
Defaults ==
    [settings |-> DefaultSettings,
     slots |-> [i \in Slots |-> IF i = 0 THEN DefaultDrive ELSE Empty]]

Configured(c) == {i \in Slots : c.slots[i].state # "empty"}
Enabled(c) == {i \in Slots : c.slots[i].state = "enabled"}

\* A letter from C to Z, and every field that the type needs.
ValidRecord(r) == r.letter \in Letters /\ r.kind \in DriveKinds

ValidStructure(c) ==
    /\ c.settings \in Letters
    /\ \A i \in Configured(c) :
         /\ ValidRecord(c.slots[i])
         /\ c.slots[i].letter # c.settings
         /\ \A j \in Configured(c) \ {i} : c.slots[j].letter # c.slots[i].letter

----------------------------------------------------------------------------
(* What is in the sector                                                   *)

\* No magic number, an unknown version or a wrong checksum: erased, torn, or
\* never written.
Unreadable == [version |-> 0, list |-> None]
Image(c) == [version |-> 3, list |-> c]

\* Version 2 had a flag "used" where version 3 has the state.
Migrated(old) ==
    [settings |-> old.settings,
     slots |-> [i \in Slots |->
                  IF old.slots[i].used
                  THEN Record("enabled", old.slots[i].letter, old.slots[i].kind)
                  ELSE Empty]]

OldLists ==
    [settings : Letters,
     slots : [Slots -> [used : BOOLEAN, letter : Letters \cup {None},
                        kind : DriveKinds \cup {None}]]]
Images == {Unreadable} \cup [version : {3}, list : Lists] \cup [version : {2}, list : OldLists]

\* Mutant: a migrated list is taken without a look at its structure.
LoadsAnyMigration(image) ==
    IF image.version = 2 THEN Migrated(image.list)
    ELSE IF image.version = 3 /\ ValidStructure(image.list) THEN image.list
    ELSE Defaults

\* sidetnfs_config_init: all of it or none of it.
LoadDrives(image) ==
    LET candidate == IF image.version = 2 THEN Migrated(image.list) ELSE image.list IN
      IF image.version \in {2, 3} /\ ValidStructure(candidate)
      THEN candidate
      ELSE Defaults

----------------------------------------------------------------------------
(* The runtime drives                                                      *)

\* The active server is the first usable TNFS drive ...
Usable(c) == {i \in Enabled(c) : c.slots[i].kind = "udp"}
First(S) == CHOOSE i \in S : \A j \in S : i <= j

\* ... and gives the boot letter; without one the old store does.
BootLetter(c) ==
    IF Usable(c) # {} THEN c.slots[First(Usable(c))].letter ELSE LegacyLetter

SettingsDrive(c) == [letter |-> c.settings, backend |-> "settings"]
Drive(r) == [letter |-> r.letter,
             backend |-> IF r.kind = "sd" THEN "sd" ELSE "tnfs"]

WithBootLetter(c) == {i \in Enabled(c) : c.slots[i].letter = BootLetter(c)}

\* Runtime slot 0: the boot drive, if the boot letter is anybody's.
Head0(c) ==
    IF BootLetter(c) = c.settings THEN <<SettingsDrive(c)>>
    ELSE IF WithBootLetter(c) # {} THEN <<Drive(c.slots[First(WithBootLetter(c))])>>
    ELSE <<>>

\* Mutant: the boot drive is one of the others, too.
OthersAll(c) == Enabled(c)

\* Then the other enabled slots in their order ...
Others(c) ==
    IF BootLetter(c) = c.settings \/ WithBootLetter(c) = {} THEN Enabled(c)
    ELSE Enabled(c) \ {First(WithBootLetter(c))}

\* ... up to, but not including, the last runtime slot.
Room(c) == MaxDrives - Len(Head0(c))
Rank(i, S) == Cardinality({j \in S : j <= i})
Published(c) == {i \in Others(c) : Rank(i, Others(c)) <= Room(c)}

Tail0(c) ==
    [k \in 1 .. Cardinality(Published(c)) |->
       Drive(c.slots[CHOOSE i \in Published(c) : Rank(i, Published(c)) = k])]

\* The SETTINGS disk comes last unless it came first.
Table(c) ==
    Head0(c) \o Tail0(c)
      \o (IF BootLetter(c) = c.settings THEN <<>> ELSE <<SettingsDrive(c)>>)
=============================================================================
