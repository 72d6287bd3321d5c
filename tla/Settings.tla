------------------------------ MODULE Settings -------------------------------
(***************************************************************************)
(* The two settings sectors of the firmware and their way to what is in    *)
(* force: the drive list (src/romemul/sidetnfs_config.c) and the system    *)
(* settings (sidetnfs_system_config.c, with the pages network and clock of *)
(* sidetnfs_netconfig.c and sidetnfs_rtcconfig.c), the boot and the SELECT *)
(* button (main.c), the commands of SIDETNFS.PRG, the PING of an Atari     *)
(* reset that adopts a saved list (gemdrvemul.c), and the status of the SD *)
(* drives (sidetnfs_sd_service.c).                                         *)
(*                                                                         *)
(* Flash survives a loss of power, RAM does not.  A save erases the sector,*)
(* programs it and reads it back, and the power may fail, or the flash go  *)
(* wrong, in between; meanwhile no command is served.                      *)
(***************************************************************************)
EXTENDS DriveConfig

CONSTANTS
    Networks, Clocks,     \* the values of the two pages of system settings
    DefaultSystem,        \* SIDETNFS_SYSTEM_DEFAULT_SETTINGS
    LegacySystem,         \* what the old store holds, None if never written
    DriveImages,          \* what the sector of the drive list holds at first
    SystemImages,         \* and that of the system settings
    Indices, IndexModulus,\* 32 bits on the wire, 8 in the firmware
    Edits,                \* the records SET_DRIVE is called with
    MaxEvents             \* bound: commands, resets and losses of power

SystemPages == {"net", "rtc"}
PageValues(page) == IF page = "net" THEN Networks ELSE Clocks
Systems ==
    {s \in [SystemPages -> Networks \cup Clocks] :
       \A page \in SystemPages : s[page] \in PageValues(page)}

ASSUME SettingsAssumption ==
    /\ DefaultSystem \in Systems
    /\ LegacySystem \in Systems \cup {None}
    /\ None \notin Systems \cup Networks \cup Clocks
    /\ None \notin {"drives", "factory", "net", "rtc", "ok", "failed"}
    /\ None \notin Lists
    /\ DriveImages \subseteq Images /\ SystemImages \subseteq Systems \cup {None}
    /\ IndexModulus \in Nat \ {0} /\ Indices \subseteq Nat
    /\ \A r \in Edits : r = Record(r.state, r.letter, r.kind)
    /\ MaxEvents \in Nat

VARIABLES
    driveSector,    \* the flash sector of the drive list
    sysSector,      \* the flash sector of the system settings
    ram,            \* g_config: the list being edited; None while off
    pending,        \* g_config_pending: a saved list waits for a reset
    running,        \* the list the published drive table was built from
    sd,             \* s_slots: the status of the SD drive of a runtime slot
    sys,            \* g_settings
    bootSys,        \* the copy the network and the clock were started with
    staged,         \* the staging copies of the two pages, or None
    pinged,         \* hd_folder_ready
    op,             \* what the firmware is doing, and for which page
    lastSave,       \* how the last save of either sector ended
    events

vars == <<driveSector, sysSector, ram, pending, running, sd, sys, bootSys,
          staged, pinged, op, lastSave, events>>
flash == <<driveSector, sysSector>>
system == <<sys, bootSys, staged>>
drives == <<ram, pending, running, sd>>

Off == [phase |-> "off", page |-> None]
Select == [phase |-> "select", page |-> None]
Idle == [phase |-> "idle", page |-> None]
Halted == [phase |-> "halted", page |-> None]
Saving(phase, page) == [phase |-> phase, page |-> page]

DrivePages == {"drives", "factory"}
Answers == {None, "ok", "failed"}

NoStage == [page \in SystemPages |-> None]
NoSave == [sector \in {"drives", "system"} |-> None]
RuntimeSlots == 1 .. MaxDrives + 1
NoSd == [k \in RuntimeSlots |-> "none"]

SystemFallback == IF LegacySystem # None THEN LegacySystem ELSE DefaultSystem
LoadSystem(sector) == IF sector = None THEN SystemFallback ELSE sector

Init ==
    /\ driveSector \in DriveImages
    /\ sysSector \in SystemImages
    /\ ram = None /\ pending = FALSE /\ running = None /\ sd = NoSd
    /\ sys = None /\ bootSys = None /\ staged = NoStage
    /\ pinged = FALSE
    /\ op = Off
    /\ lastSave = NoSave
    /\ events = 0

Event == events < MaxEvents /\ events' = events + 1

----------------------------------------------------------------------------
(* Boot                                                                    *)

\* The system settings are read before the SELECT button is looked at.
PowerOn ==
    /\ op = Off
    /\ sys' = LoadSystem(sysSector)
    /\ op' = Select
    /\ UNCHANGED <<flash, drives, bootSys, staged, pinged, lastSave, events>>

IsSd(table, k) == k \in DOMAIN table /\ table[k].backend = "sd"

\* The card and each directory are looked at once in a boot.
Checked(table, found) ==
    [k \in RuntimeSlots |->
       IF ~IsSd(table, k) THEN "none" ELSE IF k \in found THEN "ready" ELSE "bad"]

\* SELECT is up, or comes up early: the list is read and published.
Boot ==
    /\ op = Select
    /\ ram' = LoadDrives(driveSector)
    /\ running' = ram'
    /\ \E found \in {{}, RuntimeSlots} : sd' = Checked(Table(ram'), found)
    /\ bootSys' = sys
    /\ op' = Idle
    /\ UNCHANGED <<flash, pending, sys, staged, pinged, lastSave, events>>

\* SELECT is held for ten seconds.
FactoryReset ==
    /\ op = Select
    /\ Event
    /\ ram' = Defaults
    /\ op' = Saving("erase", "factory")
    /\ UNCHANGED <<flash, pending, running, sd, system, pinged, lastSave>>

\* The power fails, or the firmware restarts itself: only flash is left.
Lost ==
    /\ ram' = None /\ pending' = FALSE /\ running' = None /\ sd' = NoSd
    /\ sys' = None /\ bootSys' = None /\ staged' = NoStage
    /\ pinged' = FALSE
    /\ op' = Off
    /\ lastSave' = NoSave

PowerLoss == op # Off /\ Event /\ Lost /\ UNCHANGED flash

----------------------------------------------------------------------------
(* The drive list                                                          *)

\* The index is cut to 8 bits before it is compared.
Index(i) == i % IndexModulus

Free(letter, i) ==
    /\ letter # ram.settings
    /\ \A j \in Configured(ram) \ {i} : ram.slots[j].letter # letter

\* A refused command changes nothing.  A record with state EMPTY clears.
SetDrive(i, r) ==
    /\ op = Idle /\ Event
    /\ Index(i) \in Slots
    /\ \/ r.state = "empty" /\ ram' = [ram EXCEPT !.slots[Index(i)] = Empty]
       \/ /\ r.state \in {"disabled", "enabled"}
          /\ ValidRecord(r)
          /\ Free(r.letter, Index(i))
          /\ ram' = [ram EXCEPT !.slots[Index(i)] = r]
    /\ UNCHANGED <<flash, pending, running, sd, system, pinged, op, lastSave>>

\* Mutant: the state is cleared and the rest of the record stays.
DeleteDriveLazily(i) ==
    /\ op = Idle /\ Event
    /\ Index(i) \in Configured(ram)
    /\ ram' = [ram EXCEPT !.slots[Index(i)].state = "empty"]
    /\ UNCHANGED <<flash, pending, running, sd, system, pinged, op, lastSave>>

DeleteDrive(i) ==
    /\ op = Idle /\ Event
    /\ Index(i) \in Configured(ram)
    /\ ram' = [ram EXCEPT !.slots[Index(i)] = Empty]
    /\ UNCHANGED <<flash, pending, running, sd, system, pinged, op, lastSave>>

SetConfigDrive(letter) ==
    /\ op = Idle /\ Event
    /\ letter \in Letters
    /\ \A j \in Configured(ram) : ram.slots[j].letter # letter
    /\ ram' = [ram EXCEPT !.settings = letter]
    /\ UNCHANGED <<flash, pending, running, sd, system, pinged, op, lastSave>>

SaveConfig ==
    /\ op = Idle /\ Event
    /\ ValidStructure(ram)
    /\ op' = Saving("erase", "drives")
    /\ UNCHANGED <<flash, drives, system, pinged, lastSave>>

\* The first PING after a boot finds nothing to adopt or leaves it; a later
\* one, with a saved list waiting, reads the sector again and publishes.
FirstPing ==
    /\ op = Idle /\ ~pinged
    /\ pinged' = TRUE
    /\ UNCHANGED <<flash, drives, system, op, lastSave, events>>

\* An SD drive is registered, and nobody looks at the card again.
Registered(table) ==
    [k \in RuntimeSlots |-> IF IsSd(table, k) THEN "unchecked" ELSE sd[k]]

\* Mutant: the list in RAM is published as it is.
AdoptRam ==
    /\ op = Idle /\ pinged /\ pending
    /\ running' = ram
    /\ sd' = Registered(Table(ram))
    /\ pending' = FALSE
    /\ UNCHANGED <<flash, ram, system, pinged, op, lastSave, events>>

Adopt ==
    /\ op = Idle /\ pinged /\ pending
    /\ ram' = LoadDrives(driveSector)
    /\ running' = ram'
    /\ sd' = Registered(Table(ram'))
    /\ pending' = FALSE
    /\ UNCHANGED <<flash, system, pinged, op, lastSave, events>>

----------------------------------------------------------------------------
(* The pages of the system settings                                        *)

\* A page that is not valid leaves the staging copy alone.
Stage(page, value) ==
    /\ op = Idle /\ Event
    /\ staged' = [staged EXCEPT ![page] = value]
    /\ UNCHANGED <<flash, drives, sys, bootSys, pinged, op, lastSave>>

\* Mutant: the settings are built anew around the page.
SavePageAlone(page) ==
    /\ op = Idle /\ Event
    /\ staged[page] # None
    /\ sys' = [DefaultSystem EXCEPT ![page] = staged[page]]
    /\ op' = Saving("erase", page)
    /\ UNCHANGED <<flash, drives, bootSys, staged, pinged, lastSave>>

\* RAM changes before flash does, and keeps the change if flash fails.
SavePage(page) ==
    /\ op = Idle /\ Event
    /\ staged[page] # None
    /\ sys' = [sys EXCEPT ![page] = staged[page]]
    /\ op' = Saving("erase", page)
    /\ UNCHANGED <<flash, drives, bootSys, staged, pinged, lastSave>>

----------------------------------------------------------------------------
(* Erase, program, read back; flash that is worn out does not program      *)

EraseDrives ==
    /\ op.phase = "erase" /\ op.page \in DrivePages
    /\ op' = [op EXCEPT !.phase = "program"]
    /\ driveSector' = Unreadable
    /\ UNCHANGED <<sysSector, drives, system, pinged, lastSave, events>>

ProgramDrives ==
    /\ op.phase = "program" /\ op.page \in DrivePages
    /\ op' = [op EXCEPT !.phase = "verify"]
    /\ driveSector' \in {Image(ram), Unreadable}
    /\ UNCHANGED <<sysSector, drives, system, pinged, lastSave, events>>

\* Magic number, version and checksum; not the list itself.
Intact(image) == image.version = 3

\* Mutant: success is reported before the sector is read back.
VerifyDrivesNever ==
    /\ op = Saving("verify", "drives")
    /\ lastSave' = [lastSave EXCEPT !["drives"] = "ok"]
    /\ pending' = TRUE
    /\ op' = Idle
    /\ UNCHANGED <<flash, ram, running, sd, system, pinged, events>>

VerifyDrives ==
    /\ op = Saving("verify", "drives")
    /\ lastSave' = [lastSave EXCEPT !["drives"] = IF Intact(driveSector) THEN "ok" ELSE "failed"]
    /\ pending' = (pending \/ Intact(driveSector))
    /\ op' = Idle
    /\ UNCHANGED <<flash, ram, running, sd, system, pinged, events>>

\* A factory reset restarts the firmware or, failing, stops it.
VerifyFactory ==
    /\ op = Saving("verify", "factory")
    /\ IF Intact(driveSector)
       THEN Lost
       ELSE /\ lastSave' = [lastSave EXCEPT !["drives"] = "failed"]
            /\ op' = Halted
            /\ UNCHANGED <<drives, system, pinged>>
    /\ UNCHANGED <<flash, events>>

EraseSystem ==
    /\ op.phase = "erase" /\ op.page \in SystemPages
    /\ op' = [op EXCEPT !.phase = "program"]
    /\ sysSector' = None
    /\ UNCHANGED <<driveSector, drives, system, pinged, lastSave, events>>

ProgramSystem ==
    /\ op.phase = "program" /\ op.page \in SystemPages
    /\ op' = [op EXCEPT !.phase = "verify"]
    /\ sysSector' \in {sys, None}
    /\ UNCHANGED <<driveSector, drives, system, pinged, lastSave, events>>

\* Mutant: success is reported before the sector is read back.
VerifySystemNever ==
    /\ op.phase = "verify" /\ op.page \in SystemPages
    /\ op' = Idle
    /\ lastSave' = [lastSave EXCEPT !["system"] = "ok"]
    /\ UNCHANGED <<flash, drives, system, pinged, events>>

VerifySystem ==
    /\ op.phase = "verify" /\ op.page \in SystemPages
    /\ op' = Idle
    /\ IF sysSector # None
       THEN /\ sys' = sysSector
            /\ lastSave' = [lastSave EXCEPT !["system"] = "ok"]
       ELSE /\ lastSave' = [lastSave EXCEPT !["system"] = "failed"]
            /\ UNCHANGED sys
    /\ UNCHANGED <<flash, drives, bootSys, staged, pinged, events>>

----------------------------------------------------------------------------
\* GET_DRIVE and its like only read; a command that is refused is a stutter.
DriveCommand ==
    \/ \E i \in Indices : DeleteDrive(i) \/ \E r \in Edits : SetDrive(i, r)
    \/ \E letter \in Letters : SetConfigDrive(letter)
    \/ SaveConfig

SystemCommand ==
    \/ \E value \in Networks : Stage("net", value)
    \/ \E value \in Clocks : Stage("rtc", value)
    \/ \E page \in SystemPages : SavePage(page)

Command == DriveCommand \/ SystemCommand

Next ==
    \/ PowerOn \/ Boot \/ FactoryReset \/ PowerLoss
    \/ Command \/ FirstPing \/ Adopt
    \/ EraseDrives \/ ProgramDrives \/ VerifyDrives \/ VerifyFactory
    \/ EraseSystem \/ ProgramSystem \/ VerifySystem

Spec == Init /\ [][Next]_vars

----------------------------------------------------------------------------
(* What the two sectors promise                                            *)

DriveStore == INSTANCE FlashStore WITH
    Values <- Lists, Fallback <- Defaults,
    stored <- LoadDrives(driveSector),
    writing <- IF op.page \in DrivePages THEN ram ELSE None,
    answer <- lastSave["drives"]

SystemStore == INSTANCE FlashStore WITH
    Values <- Systems, Fallback <- SystemFallback,
    stored <- LoadSystem(sysSector),
    writing <- IF op.page \in SystemPages THEN sys ELSE None,
    running <- bootSys,
    answer <- lastSave["system"]

\* Whatever is edited, saved, reset or lost, the drives that are published
\* are those of a list a boot or a reset read from flash; flash never holds
\* half a list; and "ok" means that the next boot finds what was saved
\* (sidetnfs_config_save, sidetnfs_config_init).
DriveStorePromise == DriveStore!Spec

\* The same for the network and the clock
\* (sidetnfs_system_config_save, sidetnfs_system_config_init).
SystemStorePromise == SystemStore!Spec

\* Both sectors keep the promise of the abstract store, whenever power is lost.
StoresKeepPromise == DriveStorePromise /\ SystemStorePromise

(* Properties                                                              *)

Phases == {"off", "select", "idle", "halted", "erase", "program", "verify"}

\* The types of the variables (g_config and its records, g_settings).
TypeOK ==
    /\ driveSector \in Images
    /\ sysSector \in Systems \cup {None}
    /\ ram \in Lists \cup {None} /\ running \in Lists \cup {None}
    /\ pending \in BOOLEAN /\ pinged \in BOOLEAN
    /\ sd \in [RuntimeSlots -> {"none", "unchecked", "ready", "bad"}]
    /\ sys \in Systems \cup {None} /\ bootSys \in Systems \cup {None}
    /\ staged \in [SystemPages -> Networks \cup Clocks \cup {None}]
    /\ op \in [phase : Phases, page : DrivePages \cup SystemPages \cup {None}]
    /\ lastSave \in [{"drives", "system"} -> Answers]
    /\ events \in 0 .. MaxEvents

\* No edit, no migration and no mix of an old and a new list gives one
\* letter to two drives, and the SETTINGS disk is always published, once:
\* the table is trusted by the ROM without another check
\* (sidetnfs_runtime_drives_init).
LettersDistinct ==
    running # None =>
      LET table == Table(running)
          slots == 1 .. Len(table) IN
        /\ \A j, k \in slots : table[j].letter = table[k].letter => j = k
        /\ \E k \in slots : table[k] = SettingsDrive(running)

\* With nothing waiting for a reset, what is published is what a boot would
\* publish, unless a save went wrong; with something waiting, the next reset
\* or boot will publish it, and edits that were not saved are not published
\* (sidetnfs_config_is_pending, "Never cleared on a path that skipped
\* adoption").
PublishedIsSaved ==
    op = Idle /\ ~pending /\ lastSave["drives"] # "failed" =>
      running = LoadDrives(driveSector)

\* Two pages share a sector, a copy in RAM and one checksum.  After any mix
\* of stagings and saves of which the last did not fail, RAM and flash agree
\* on both, and a page that was never staged is the one of the boot: "this
\* SAVE only ever touches the RTC fields" (sidetnfs_rtcconfig_save,
\* sidetnfs_netconfig_save).
OtherPageKept ==
    op = Idle /\ lastSave["system"] # "failed" =>
      \A page \in SystemPages :
        LET stored == LoadSystem(sysSector) IN
          /\ stored[page] = sys[page]
          /\ sys[page] # bootSys[page] => staged[page] # None

\* What the ROM trusts without looking again: the drive table it was given is
\* sound, it is the saved one, and a save of one page spared the other.
TablesAreSaved == LettersDistinct /\ PublishedIsSaved /\ OtherPageKept
=============================================================================
