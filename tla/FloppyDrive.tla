---------------------------- MODULE FloppyDrive -----------------------------
(***************************************************************************)
(* The floppy emulation: src/romemul/sidetnfs_floppy_emul.c, its commands  *)
(* in src/romemul/gemdrvemul.c (SESSION_START, MEDIA_CHANGE_ACK, the       *)
(* upload of the favourites), what SELECT does while it is installed, and  *)
(* the hooks of the Atari as far as the commands show them.  READ_SECTOR   *)
(* only reads: ReadSectorOf is what it answers.                            *)
(*                                                                         *)
(* SELECT works while the Atari runs: the Atari reads the published fields *)
(* between two steps of a switch, but its commands wait for the end of it. *)
(***************************************************************************)
EXTENDS FloppySlot

CONSTANTS
    Favourites, \* SIDETNFS_FLOPPY_FAVORITES_MAX_COUNT
    Offsets,    \* offsets into the packed strings at which texts begin
    Chunks,     \* uploads of texts: functions on some of the offsets
    Tables,     \* uploads of the table: entries [sd, src, path], used, active
    Paths,      \* paths that programs ask for
    NotABoot,   \* the fields of a boot sector read from one that is none
    SafeReboot  \* safe_config_reboot

ASSUME DriveAssumption ==
    /\ Favourites \in Nat \ {0}
    /\ Offsets \subseteq Nat
    /\ SafeReboot \in BOOLEAN

VARIABLES
    drive,     \* s_state
    switching, \* the switch that is being published, or none (a set)
    rom,       \* GEMDRVEMUL_FLOPPY_SESSION_*, s_install_floppy and the active index
    table,     \* GEMDRVEMUL_FLOPPY_FAVORITES_TABLE
    strings,   \* ..._STRINGS
    used,      \* ..._STRINGS_USED
    button,    \* SELECT, and the variables of floppy_select_poll
    atari,     \* how far its hooks are, and the parameters it works with (external)
    blind      \* history: the latest boot sector published was read wrong or not at all

driveVars == <<drive, switching, rom, table, strings, used, button, atari, blind>>

FavouriteSlots == 0..(Favourites - 1)
Words == 0..65535

NoGeometry == [sides |-> 0, spt |-> 0, tracks |-> 0, total |-> 0]
Closed == [image |-> Nothing, number |-> Nothing, geom |-> NoGeometry]
NoBpb == [recsize |-> 0, clsiz |-> 0, clsizb |-> 0, rdlen |-> 0, fsiz |-> 0, fatrec |-> 0,
          datrec |-> 0, numcl |-> 0, bflags |-> 0]
\* A path in ROM3, with its bytes in the order of the Atari or of the Pico.
Text(path, order) == [path |-> path, order |-> order]
NoText == Text(Nothing, "atari")

\* What of a boot sector counts; one of 0 bytes a sector, by which the C code would
\* divide, is left out.
IsBoot(b) ==
    /\ {b.bps, b.total, b.spt, b.sides, b.spc, b.res, b.fats, b.entries, b.spf} \subseteq Words
    /\ b.bps # 0

ASSUME DisksAssumption ==
    /\ IsBoot(NotABoot)
    /\ \A image \in Images : IsBoot(Disks[image]) /\ Disks[image].bytes \in Nat

\* The servers that favourites name are among Hosts.
ASSUME TablesAssumption ==
    \A t \in Tables :
        /\ t.used \in Nat
        /\ t.active \in FavouriteSlots \cup {Nothing}
        /\ \A i \in FavouriteSlots, chunk \in Chunks :
               (t.entries[i] # Nothing /\ ~t.entries[i].sd /\ t.entries[i].src \in DOMAIN chunk) =>
                   chunk[t.entries[i].src] \in Hosts

ImagePaths == {image.path : image \in Images}
Geometries == [sides : Nat, spt : Nat, tracks : Nat, total : Nat]
Bpbs == [recsize : Words, clsiz : Words, clsizb : Words, rdlen : Words, fsiz : Words,
         fatrec : Words, datrec : Words, numcl : Words, bflags : Words]

DriveTypeOK ==
    /\ \/ drive = Closed
       \/ drive \in [image : Images, number : Numbers \cup {Nothing}, geom : Geometries]
    /\ \A w \in switching : w.index \in FavouriteSlots
    /\ rom \in [floppy : BOOLEAN,
                path : [path : ImagePaths \cup {Nothing}, order : {"atari", "pico"}],
                geom : Geometries, bpb : Bpbs, index : FavouriteSlots \cup {Nothing},
                changed : BOOLEAN]
    /\ used \in Nat
    /\ button \in [down : BOOLEAN, prev : BOOLEAN, long : BOOLEAN]
    /\ atari \in [at : {"idle", "seen", "acked"}, known : Bpbs]
    /\ blind \in BOOLEAN

DriveInit ==
    /\ drive = Closed
    /\ switching = {}
    /\ rom = [floppy |-> FALSE, path |-> NoText, geom |-> NoGeometry,
              bpb |-> NoBpb, index |-> Nothing, changed |-> FALSE]
    /\ table = [i \in FavouriteSlots |-> Nothing]
    /\ strings = [o \in Offsets |-> Nothing]
    /\ used = 0
    /\ button = [down |-> FALSE, prev |-> FALSE, long |-> FALSE]
    /\ atari = [at |-> "idle", known |-> NoBpb]
    /\ blind = FALSE

-----------------------------------------------------------------------------
(* Boot sectors. *)

\* sidetnfs_floppy_emul_validate_geometry, of the size and what the boot sector says.
Acceptable(bytes, b) ==
    LET track == b.sides * b.spt
        sectors == bytes \div 512
    IN  /\ bytes # 0 /\ bytes % 512 = 0
        /\ b.bps = 512
        /\ b.sides \in {1, 2} /\ b.spt \in 9..11
        /\ sectors % track = 0
        /\ sectors \div track \in 80..85
        /\ b.total = sectors

Geometry(bytes, b) ==
    [sides |-> b.sides, spt |-> b.spt, tracks |-> (bytes \div 512) \div (b.sides * b.spt),
     total |-> bytes \div 512]

\* Mutant: no width.
WordOfAnyWidth(n) == n

\* publish_floppy_bpb, in 16 bits as the C code has it.
Word(n) == n % 65536

Bpb(b, total) ==
    LET rdlen == Word((b.entries * 32 + (b.bps - 1)) \div b.bps)
        datrec == Word(b.res + b.fats * b.spf + rdlen)
        numcl == IF b.spc # 0 /\ total > datrec THEN Word((total - datrec) \div b.spc) ELSE 0
    IN  [recsize |-> b.bps, clsiz |-> b.spc, clsizb |-> Word(b.bps * b.spc), rdlen |-> rdlen,
         fsiz |-> b.spf,
         fatrec |-> Word(b.res + (IF b.fats > 0 THEN (b.fats - 1) * b.spf ELSE 0)),
         datrec |-> datrec, numcl |-> numcl,
         bflags |-> (IF numcl > 4084 THEN 1 ELSE 0) + (IF b.fats < 2 THEN 2 ELSE 0)]

-----------------------------------------------------------------------------
(* Images. *)

Sector(image, lba) == [image |-> image, lba |-> lba]
Boot(sector) == IF sector.lba = 0 THEN Disks[sector.image] ELSE NotABoot

\* SEEK and READ; a READ sent again after a lost answer reads on.
ReadSectorOf(s, d, lba) ==
    LET on == IF d.image.src = Card THEN d.image
              ELSE IF s.mounted THEN s.files[d.number] ELSE Nothing
        at(k) == IF on # Nothing /\ (k + 1) * 512 <= Disks[on].bytes
                 THEN Outcome(s, TRUE, Sector(on, k), 0)
                 ELSE Outcome(s, FALSE, Nothing, 0)
        lost == Outcome(s, FALSE, Nothing, 1)
    IN  {at(lba), lost} \cup (IF d.image.src = Card THEN {} ELSE Then(lost, {at(lba + 1)}))

\* close_state: CLOSE in whatever session the slot has.
CloseImage(s, d) == IF d.number = Nothing THEN {Unchanged(s)} ELSE CloseFile(s, d.number)

\* Mutant: an image that is refused stays open.
ValidateOnly(s, d) ==
    LET bytes == Disks[d.image].bytes
        accepted(r) == r.ok /\ Acceptable(bytes, Boot(r.got))
    IN  UNION {IF accepted(r)
               THEN {[r EXCEPT !.got = [d EXCEPT !.geom = Geometry(bytes, Boot(r.got))]]}
               ELSE Failing({r}) : r \in ReadSectorOf(s, d, 0)}

\* The second half of open_into, with d open: its size, its boot sector.
Validate(s, d) ==
    LET bytes == Disks[d.image].bytes
        accepted(r) == r.ok /\ Acceptable(bytes, Boot(r.got))
    IN  UNION {IF accepted(r)
               THEN {[r EXCEPT !.got = [d EXCEPT !.geom = Geometry(bytes, Boot(r.got))]]}
               ELSE Failing(Then(r, CloseImage(r.slot, d))) : r \in ReadSectorOf(s, d, 0)}

Opened(image, n) == [image |-> image, number |-> n, geom |-> NoGeometry]

OpenOnServer(s, src, path) ==
    UNION {UNION {IF o.ok
                  THEN Then(o, Validate(o.slot, Opened([src |-> src, path |-> path], o.got)))
                  ELSE {o} :
                      o \in IF m.ok THEN Then(m, OpenFile(m.slot, path)) ELSE {m}} :
                          m \in Mount(s, src)}

\* The card may be missing.
OpenOnCard(s, path) ==
    LET image == [src |-> Card, path |-> path] IN
    {Outcome(s, FALSE, Nothing, 0)} \cup
        (IF image \in Images THEN Validate(s, Opened(image, Nothing)) ELSE {})

\* open_into: got is the drive with the image.  Failures leave nothing open.
OpenImage(s, src, path) == IF src = Card THEN OpenOnCard(s, path) ELSE OpenOnServer(s, src, path)

\* publish_floppy_bpb leaves the fields as they are when it cannot read.
PublishBpb(r, d) ==
    IF r.ok THEN Bpb(Boot(r.got), d.geom.total) ELSE rom.bpb

ReadBlind(r, d) == ~r.ok \/ r.got # Sector(d.image, 0)

-----------------------------------------------------------------------------
(* The favourites. *)

\* Text at an offset, within what was committed.
Has(o) == o \in Offsets /\ o < used /\ strings[o] # Nothing

\* floppy_favorites_get_entry, for the path alone and for all of it.
HasPath(i) == table[i] # Nothing /\ Has(table[i].path)
IsWhole(i) == HasPath(i) /\ (table[i].sd \/ Has(table[i].src))

SourceOf(i) == IF table[i].sd THEN Card ELSE strings[table[i].src]
PathOf(i) == strings[table[i].path]

\* The first favourite with the path, from whatever source.
ActiveIndex(path) ==
    LET is == {i \in FavouriteSlots : HasPath(i) /\ PathOf(i) = path} IN
    IF is = {} THEN Nothing ELSE CHOOSE i \in is : \A j \in is : i <= j

\* floppy_favorites_find_next: the next one after the active one, or Nothing.
NextIndex ==
    LET at(step) == IF rom.index = Nothing THEN step - 1 ELSE (rom.index + step) % Favourites
        steps == {k \in 1..Favourites : at(k) # rom.index /\ HasPath(at(k))}
    IN  IF steps = {} THEN Nothing
        ELSE at(CHOOSE k \in steps : \A l \in steps : k <= l)

\* FAVORITES_WRITE_CHUNK writes in place: the table may still point there.  A
\* chunk that does not fit changes nothing; WRITE_CHECK only reads.
WriteChunk(chunk) ==
    /\ strings' = [o \in Offsets |-> IF o \in DOMAIN chunk THEN chunk[o] ELSE strings[o]]
    /\ UNCHANGED <<slot, events, faults, drive, switching, rom, table, used, button, atari, blind>>

Committable(t) ==
    \A i \in FavouriteSlots :
        t.entries[i] # Nothing =>
            /\ t.entries[i].path < t.used
            /\ t.entries[i].sd \/ t.entries[i].src < t.used

\* FAVORITES_COMMIT
Commit(t) ==
    /\ Committable(t)
    /\ table' = t.entries
    /\ used' = t.used
    /\ rom' = [rom EXCEPT !.index = t.active]
    /\ UNCHANGED <<slot, events, faults, drive, switching, strings, button, atari, blind>>

-----------------------------------------------------------------------------
(* The session. *)

\* SESSION_START: the old image is closed whatever comes of the new one.  The
\* policy for GEMDRIVE, published with the one for the floppy, changes nothing here.
SessionStart(src, path) ==
    /\ Event
    /\ \E c \in CloseImage(slot, drive) :
       \E o \in Then(c, OpenImage(c.slot, src, path)) :
       IF o.ok
       THEN \E p \in Then(o, ReadSectorOf(o.slot, o.got, 0)) :
            /\ Exchange(p)
            /\ drive' = o.got
            /\ rom' = [floppy |-> TRUE, path |-> Text(path, "atari"),
                       geom |-> o.got.geom, bpb |-> PublishBpb(p, o.got),
                       index |-> ActiveIndex(path), changed |-> TRUE]
            /\ blind' = ReadBlind(p, o.got)
       ELSE /\ Exchange(o)
            /\ drive' = Closed
            /\ rom' = [rom EXCEPT !.floppy = TRUE, !.path = NoText,
                                  !.geom = NoGeometry, !.index = Nothing]
            /\ UNCHANGED blind
    /\ UNCHANGED <<switching, table, strings, used, button, atari>>

\* SESSION_START without a floppy.
SessionWithout ==
    /\ Event
    /\ \E c \in CloseImage(slot, drive) : Exchange(c)
    /\ drive' = Closed
    /\ rom' = [rom EXCEPT !.floppy = FALSE, !.path = NoText,
                          !.geom = NoGeometry, !.index = Nothing]
    /\ UNCHANGED <<switching, table, strings, used, button, atari, blind>>

-----------------------------------------------------------------------------
(* SELECT. *)

Press ==
    /\ ~button.down
    /\ Event
    /\ button' = [button EXCEPT !.down = TRUE]
    /\ UNCHANGED <<slot, faults, drive, switching, rom, table, strings, used, atari, blind>>

Release ==
    /\ button.down
    /\ button' = [button EXCEPT !.down = FALSE]
    /\ UNCHANGED <<slot, events, faults, drive, switching, rom, table, strings, used, atari, blind>>

\* floppy_select_poll finds SELECT pressed.
PollPressed ==
    /\ rom.floppy
    /\ button.down /\ ~button.prev
    /\ button' = [button EXCEPT !.prev = TRUE, !.long = FALSE]
    /\ UNCHANGED <<slot, events, faults, drive, switching, rom, table, strings, used, atari, blind>>

\* It is held for SIDETNFS_FLOPPY_SELECT_LONGPRESS_MS: floppy_select_trigger_exit.
PollHeld ==
    /\ rom.floppy
    /\ button.down /\ button.prev /\ ~button.long
    /\ button' = [button EXCEPT !.long = TRUE]
    /\ \E c \in CloseImage(slot, drive) : Exchange(c)
    /\ drive' = Closed
    /\ rom' = [rom EXCEPT !.floppy = FALSE, !.index = Nothing]
    /\ UNCHANGED <<events, switching, table, strings, used, atari, blind>>

\* Mutant: the geometry stays that of the old image.
CommitsAlone(o) ==
    /\ \E c \in Then(o, CloseImage(o.slot, drive)) : Exchange(c)
    /\ drive' = o.got
    /\ switching' = {[index |-> NextIndex, path |-> PathOf(NextIndex)]}
    /\ UNCHANGED rom

\* sidetnfs_floppy_emul_commit_candidate
Commits(o) ==
    /\ \E c \in Then(o, CloseImage(o.slot, drive)) : Exchange(c)
    /\ drive' = o.got
    /\ rom' = [rom EXCEPT !.geom = o.got.geom]
    /\ switching' = {[index |-> NextIndex, path |-> PathOf(NextIndex)]}

\* Short press, released: the next favourite, if it can be opened.
PollReleased ==
    /\ rom.floppy
    /\ ~button.down /\ button.prev
    /\ button' = [button EXCEPT !.prev = FALSE, !.long = FALSE]
    /\ IF ~button.long /\ NextIndex # Nothing /\ IsWhole(NextIndex)
       THEN \E o \in OpenImage(slot, SourceOf(NextIndex), PathOf(NextIndex)) :
                IF o.ok THEN Commits(o)
                ELSE Exchange(o) /\ UNCHANGED <<drive, rom, switching>>
       ELSE UNCHANGED <<slot, faults, drive, rom, switching>>
    /\ UNCHANGED <<events, table, strings, used, atari, blind>>

\* Mutant: the Atari is not told.
PublishSwitchSilently ==
    /\ \E w \in switching : \E p \in ReadSectorOf(slot, drive, 0) :
           /\ Exchange(p)
           /\ rom' = [rom EXCEPT !.bpb = PublishBpb(p, drive),
                                 !.path = Text(w.path, "pico"),
                                 !.index = w.index]
           /\ blind' = ReadBlind(p, drive)
    /\ switching' = {}
    /\ UNCHANGED <<events, drive, table, strings, used, button, atari>>

\* The second half of a switch, which does not change the order of the path's bytes;
\* MEDIA_CHANGED is the last field to be set.
PublishSwitch ==
    /\ \E w \in switching : \E p \in ReadSectorOf(slot, drive, 0) :
           /\ Exchange(p)
           /\ rom' = [rom EXCEPT !.bpb = PublishBpb(p, drive),
                                 !.path = Text(w.path, "pico"),
                                 !.index = w.index, !.changed = TRUE]
           /\ blind' = ReadBlind(p, drive)
    /\ switching' = {}
    /\ UNCHANGED <<events, drive, table, strings, used, button, atari>>

-----------------------------------------------------------------------------
(* The hooks of the Atari. *)

AtariStep(from, to) == atari.at = from /\ atari' = [atari EXCEPT !.at = to]

\* Mediach finds MEDIA_CHANGED and says so; it reads the field, without a command.
Mediach ==
    /\ rom.floppy
    /\ rom.changed
    /\ AtariStep("idle", "seen")
    /\ UNCHANGED <<slot, events, faults, drive, switching, rom, table, strings, used,
                   button, blind>>

MediaChangeAck ==
    /\ rom' = [rom EXCEPT !.changed = FALSE]
    /\ AtariStep("seen", "acked")
    /\ UNCHANGED <<slot, events, faults, drive, switching, table, strings, used,
                   button, blind>>

\* Getbpb reads the fields.
Getbpb ==
    /\ atari.at = "acked"
    /\ atari' = [at |-> "idle", known |-> rom.bpb]
    /\ UNCHANGED <<slot, events, faults, drive, switching, rom, table, strings, used,
                   button, blind>>

DriveCommand ==
    \/ \E chunk \in Chunks : WriteChunk(chunk)
    \/ \E t \in Tables : Commit(t)
    \/ \E src \in Sources, path \in Paths : SessionStart(src, path)
    \/ SessionWithout
    \/ MediaChangeAck

Poll == PollPressed \/ PollHeld \/ PollReleased

Outside == Press \/ Release \/ Mediach \/ Getbpb
============================================================================
