------------------------------- MODULE Floppy -------------------------------
(***************************************************************************)
(* The browser and the floppy emulation together, as the main loop of      *)
(* src/romemul/gemdrvemul.c runs them: a command or a look at SELECT at a  *)
(* time, on the one slot they share.  What the Atari reads without a       *)
(* command it reads at any time, between the two halves of a switch too; a *)
(* GET_PAGE that runs touches nothing of that, so there its steps are      *)
(* taken before or after.                                                  *)
(***************************************************************************)
EXTENDS FloppyBrowse, FloppyDrive

floppyVars == <<slot, events, faults, browseVars, driveVars>>

FloppyInit ==
    /\ SlotInit
    /\ BrowseInit
    /\ DriveInit

MainLoopIdle == call.at = "none" /\ switching = {}

\* Outside the floppy emulation, SELECT restarts the firmware at once.
SelectReboots ==
    /\ MainLoopIdle
    /\ ~rom.floppy /\ button.down /\ ~SafeReboot
    /\ slot' = Fresh(Nothing)
    /\ browse' = [open |-> FALSE, sd |-> FALSE, root |-> Root, cwd |-> Root, gen |-> 0]
    /\ told' = <<>>
    /\ walk' = [NewWalk(0, 0) EXCEPT !.active = FALSE]
    /\ cache' = NoCache
    /\ call' = NotRunning
    /\ upset' = FALSE
    /\ answer' = NoAnswer
    /\ drive' = Closed
    /\ rom' = [floppy |-> FALSE, path |-> NoText, geom |-> NoGeometry,
               bpb |-> NoBpb, index |-> Nothing, changed |-> FALSE]
    /\ table' = [i \in FavouriteSlots |-> Nothing]
    /\ strings' = [o \in Offsets |-> Nothing]
    /\ used' = 0
    /\ button' = [button EXCEPT !.prev = FALSE, !.long = FALSE]
    /\ blind' = FALSE
    /\ UNCHANGED <<events, faults, switching, atari>>

FloppyNext ==
    \/ MainLoopIdle /\ BrowseCommand /\ UNCHANGED driveVars
    \/ BrowseStep /\ UNCHANGED driveVars
    \/ MainLoopIdle /\ (DriveCommand \/ Poll) /\ UNCHANGED browseVars
    \/ PublishSwitch /\ UNCHANGED browseVars
    \/ call.at = "none" /\ Outside /\ UNCHANGED browseVars
    \/ SelectReboots

FloppySpec == FloppyInit /\ [][FloppyNext]_floppyVars

FloppyTypeOK == SlotTypeOK /\ BrowseTypeOK /\ DriveTypeOK

-----------------------------------------------------------------------------
(* Properties. *)

Listed(t) == LET es == Listing[t.src][t.dir] IN
    OfKinds(es, {"dir"}) \o OfKinds(es, {"file"})

\* A page that GET_PAGE answers with OK or END_OF_DIRECTORY has exactly the entries
\* that come at its place when the directory of its generation is listed folders
\* first, and has_next says whether any follow: over any number of calls, batches
\* and handles that are used again, as long as no batch went to nobody and the
\* session of the walk is the browser's.
PagesAreExact ==
    (answer.status \in {"ok", "end"} /\ ~upset) =>
        LET all == Listed(told[answer.gen])
            first == answer.page * PageEntries
        IN  /\ walk.region = SubSeq(all, first + 1, Lesser(first + PageEntries, Len(all)))
            /\ walk.more = (Len(all) > first + PageEntries)
            /\ (answer.status = "end") = (first >= Len(all))

\* What is open in the session is the image in the drive and the directory of the
\* walk, unless a lost datagram left more: an image that fails validation, one that
\* is replaced and a walk that is given up are closed.  So READ_SECTOR, which reads
\* by the number, never reads another image than the one in the drive.
NothingStaysOpen ==
    ~slot.strays =>
        /\ \A n \in Numbers : slot.files[n] # Nothing =>
               drive.number = n /\ drive.image = slot.files[n]
        /\ \A n \in Numbers : slot.dirs[n] # Nothing =>
               walk.open /\ walk.number = n

\* Between switches, the fields that the Atari reads are those of the image in the
\* drive: its path (in whichever order of bytes), its geometry and, unless the boot
\* sector could not be read the second time, its parameters.
PublishedIsActive ==
    (drive # Closed /\ switching = {}) =>
        /\ rom.path.path = drive.image.path
        /\ rom.geom = drive.geom
        /\ blind \/ rom.bpb = Bpb(Disks[drive.image], drive.geom.total)

\* Unless MEDIA_CHANGED tells it otherwise, the Atari works with the parameters of
\* the image in the drive, whenever a switch falls between Mediach, its
\* acknowledgement and Getbpb.
AtariKnowsTheDisk ==
    (drive # Closed /\ switching = {} /\ ~rom.changed /\ atari.at = "idle" /\ ~blind) =>
        atari.known = Bpb(Disks[drive.image], drive.geom.total)

\* What is published, and what the Atari took over from it, is the image in the
\* drive (publish_floppy_session, floppy_switch_image).
AtariSeesTheDrive == PublishedIsActive /\ AtariKnowsTheDisk
============================================================================
