----------------------------- MODULE OpenFiles ------------------------------
(***************************************************************************)
(* The open files of src/romemul/gemdrvemul.c: the list of descriptors     *)
(* behind Fopen, Fcreate, Fclose and Fdelete, what each descriptor stands  *)
(* for (a TNFS handle, a FatFS file, a buffer in flash), and what an Atari *)
(* reset does to them.                                                     *)
(*                                                                         *)
(* A descriptor is released by delete_file_by_fdesc, whose loop steps to   *)
(* the next descriptor only in the branch that has already found the one   *)
(* to delete: unless that one is the head of the list it never ends.       *)
(* Fdelete closes a file that is open, whichever program holds it.         *)
(* Calls that end in an error before anything was opened change nothing    *)
(* and are left out.                                                       *)
(***************************************************************************)
EXTENDS Integers, Sequences, FiniteSets

CONSTANTS
    FirstFd,     \* FIRST_FILE_DESCRIPTOR
    NoFd,        \* (uint16_t)INT_MAX: no memory to look for a free number
    Settings,    \* the drive with the SETTINGS disk, among:
    SdDrives,    \* the SD drives that are READY,
    TnfsDrives,  \* the TNFS drives
    Handles,     \* file handles a TNFS server has, per session
    Attempts,    \* times an OPEN is sent: 1 + fopen_retries_left
    MaxOpen,     \* descriptors memory is there for
    MaxResets    \* Atari resets (bound of the model)

Drives == {Settings} \cup SdDrives \cup TnfsDrives

ASSUME NumbersAssumption ==
    /\ FirstFd \in Nat
    /\ NoFd \in Nat
    /\ Attempts \in Nat \ {0}
    /\ MaxOpen \in Nat
    /\ MaxResets \in Nat

ASSUME DrivesAssumption ==
    /\ SdDrives \cap TnfsDrives = {}
    /\ Settings \notin SdDrives \cup TnfsDrives

ASSUME HandlesAssumption == IsFiniteSet(Handles)

VARIABLES
    files,   \* fdescriptors; the head of the list is the last element
    server,  \* server[s]: the handles open in slot s's session (external)
    fatfs,   \* FatFS files open (external)
    live,    \* the TNFS drives with a session
    pending, \* sidetnfs_config_is_pending
    held,    \* the numbers the Atari's programs hold (external)
    taken,   \* those of them whose file Fdelete has closed
    hung,    \* delete_file_by_fdesc does not return
    resets

vars == <<files, server, fatfs, live, pending, held, taken, hung, resets>>

Local == [kind |-> "local"]
Sd == [kind |-> "sd"]
Tnfs(s, h) == [kind |-> "tnfs", slot |-> s, handle |-> h]
Backings == {Local, Sd} \cup {Tnfs(s, h) : s \in TnfsDrives, h \in Handles}

Descriptor == [fd : Nat, backing : Backings]

Fds == {files[i].fd : i \in DOMAIN files}
TnfsFiles == {i \in DOMAIN files : files[i].backing.kind = "tnfs"}
SdFiles == {i \in DOMAIN files : files[i].backing = Sd}

\* get_file_by_fdesc: the one with that number that is nearest the head.
Found(i, fd) ==
    /\ files[i].fd = fd
    /\ \A j \in DOMAIN files : files[j].fd = fd => j <= i

----------------------------------------------------------------------------
\* Mutant: a successor that is in use counts as a gap.
GapsInUse(used) == {w + 1 : w \in used \cup {FirstFd}}

\* get_first_available_fd: the numbers in use and FirstFd, sorted; the first
\* one without its successor (the last one has none) gives the answer.
Gaps(used) == {w + 1 : w \in used \cup {FirstFd}} \ used

FirstAvailable(used) ==
    IF used = {} THEN FirstFd
    ELSE CHOOSE v \in Gaps(used) : \A u \in Gaps(used) : v <= u

\* What get_first_available_fd returns: NoFd when it finds no memory, which it
\* needs unless the list is empty.
NewNumbers == {FirstAvailable(Fds)} \cup (IF files = <<>> THEN {} ELSE {NoFd})

\* At most MaxOpen descriptors can be allocated.
CanAllocate == Len(files) < MaxOpen

\* add_file and its siblings, and the answer to the Atari.
Add(backing) ==
    \E fd \in NewNumbers :
      /\ files' = Append(files, [fd |-> fd, backing |-> backing])
      /\ held' = held \cup {fd}

Init ==
    /\ files = <<>>
    /\ server = [s \in TnfsDrives |-> {}]
    /\ fatfs = 0
    /\ live \in SUBSET TnfsDrives
    /\ pending = FALSE
    /\ held = {} /\ taken = {}
    /\ hung = FALSE
    /\ resets = 0

----------------------------------------------------------------------------
(* Fopen and Fcreate                                                       *)

\* A file of the SETTINGS disk, or NET_ERR.TXT of a drive without a session.
OpenLocal(s) ==
    /\ s = Settings \/ s \in TnfsDrives \ live
    /\ CanAllocate
    /\ Add(Local)
    /\ UNCHANGED <<server, fatfs, live, pending, taken, hung, resets>>

\* Mutant: without memory for the descriptor the FatFS file stays open.
OpenSdLeaks(s) ==
    /\ s \in SdDrives
    /\ fatfs' = fatfs + 1
    /\ IF CanAllocate THEN Add(Sd) ELSE UNCHANGED <<files, held>>
    /\ UNCHANGED <<server, live, pending, taken, hung, resets>>

\* f_open, and f_close again when there is no memory for the descriptor.
OpenSd(s) ==
    /\ s \in SdDrives
    /\ IF CanAllocate
       THEN Add(Sd) /\ fatfs' = fatfs + 1
       ELSE UNCHANGED <<files, held, fatfs>>
    /\ UNCHANGED <<server, live, pending, taken, hung, resets>>

\* Every attempt whose request arrives opens a handle, and the firmware only
\* learns the one whose answer arrives.  Without an answer, and without
\* memory for the descriptor (when the handle it learnt is closed again, if
\* that CLOSE arrives), what was opened stays open on the server.
OpenTnfs(s) ==
    /\ s \in live
    /\ \E opened \in SUBSET (Handles \ server[s]) :
         /\ Cardinality(opened) <= Attempts
         /\ server' = [server EXCEPT ![s] = @ \cup opened]
         /\ \/ CanAllocate /\ \E h \in opened : Add(Tnfs(s, h))
            \/ UNCHANGED <<files, held>>
    /\ UNCHANGED <<fatfs, live, pending, taken, hung, resets>>

Fopen(s) == OpenLocal(s) \/ OpenSd(s) \/ OpenTnfs(s)

Fcreate(s) == OpenSd(s) \/ OpenTnfs(s)

----------------------------------------------------------------------------
(* Fclose and Fdelete                                                      *)

\* sidetnfs_tnfs_file_close: gives up when no answer comes.
CloseOnServer(s, h) ==
    \E closed \in SUBSET {h} : server' = [server EXCEPT ![s] = @ \ closed]

\* What the descriptor stands for is closed where it is open.
ReleaseFile(backing) ==
    CASE backing.kind = "local" -> UNCHANGED <<server, fatfs>>
      [] backing.kind = "sd" -> fatfs' = fatfs - 1 /\ UNCHANGED server
      [] backing.kind = "tnfs" ->
           /\ CloseOnServer(backing.slot, backing.handle)
           /\ UNCHANGED fatfs

\* Mutant: the head goes, whichever descriptor was asked for.
DeleteHead(i) ==
    /\ files' = SubSeq(files, 1, Len(files) - 1)
    /\ UNCHANGED hung

\* delete_file_by_fdesc
Delete(i) ==
    IF i = Len(files)
    THEN files' = SubSeq(files, 1, Len(files) - 1) /\ UNCHANGED hung
    ELSE hung' = TRUE /\ UNCHANGED files

\* Two programs can hold NoFd, and a number that Fdelete took from one and an
\* open gave to another: what one closes the other still holds (external).
Forget(fd) ==
    /\ held' \in {held \ {fd}} \cup {h \in {held} : fd \in taken \cup {NoFd}}
    /\ taken' = taken \cap held'

\* EIHNDL for a number that is not in use.
Fclose(fd) ==
    /\ \/ \E i \in DOMAIN files :
            /\ Found(i, fd)
            /\ ReleaseFile(files[i].backing)
            /\ Delete(i)
            /\ IF hung' THEN UNCHANGED <<held, taken>> ELSE Forget(fd)
       \/ /\ fd \notin Fds
          /\ Forget(fd)
          /\ UNCHANGED <<files, server, fatfs, hung>>
    /\ UNCHANGED <<live, pending, resets>>

\* The programs that held one of these numbers are not told.
Takes(fds) == taken' = taken \cup (held \cap fds)

FdeleteOne(i) ==
    /\ ReleaseFile(files[i].backing)
    /\ Delete(i)
    /\ Takes({files[i].fd})

\* An SD file of the same path comes after the TNFS file, if that returned.
FdeleteBoth(i, j) ==
    /\ i = Len(files)
    /\ CloseOnServer(files[i].backing.slot, files[i].backing.handle)
    /\ fatfs' = fatfs - 1
    /\ IF j = Len(files) - 1
       THEN files' = SubSeq(files, 1, Len(files) - 2) /\ UNCHANGED hung
       ELSE files' = SubSeq(files, 1, Len(files) - 1) /\ hung' = TRUE
    /\ Takes({files[i].fd, files[j].fd})

\* The path of a call can be that of any descriptor, the drive is not compared;
\* SD files are looked for on an SD drive only.  The removal itself is a matter
\* of FileOps.
Fdelete(s) ==
    /\ \/ s # Settings /\ \E i \in TnfsFiles : FdeleteOne(i)
       \/ s \in SdDrives /\ \E j \in SdFiles : FdeleteOne(j)
       \/ s \in SdDrives /\ \E i \in TnfsFiles, j \in SdFiles : FdeleteBoth(i, j)
    /\ UNCHANGED <<held, live, pending, resets>>

----------------------------------------------------------------------------
(* SAVE_CONFIG and the PING that follows an Atari reset                    *)

SaveConfig ==
    /\ ~pending
    /\ pending' = TRUE
    /\ UNCHANGED <<files, server, fatfs, live, held, taken, hung, resets>>

\* Mutant: f_close for every descriptor, whatever its backend.
CloseAllWithFatFs ==
    /\ UNCHANGED server
    /\ fatfs' = fatfs - Len(files)
    /\ files' = <<>>

\* close_all_files; then delete_all_files, which always deletes the head.
CloseAll ==
    /\ \E closed \in SUBSET {files[i].backing : i \in DOMAIN files} :
         server' = [s \in TnfsDrives |->
                      {h \in server[s] : Tnfs(s, h) \notin closed}]
    /\ fatfs' = fatfs - Cardinality(SdFiles)
    /\ files' = <<>>

\* Mutant: the descriptors survive a change of configuration.
PingKeepsFiles ==
    /\ resets < MaxResets
    /\ resets' = resets + 1
    /\ held' = {} /\ taken' = {}
    /\ pending' = FALSE
    /\ live' = IF pending THEN {} ELSE live
    /\ UNCHANGED <<files, server, fatfs, hung>>

\* Without a saved configuration the descriptors stay in the list, though no
\* program holds them any more.  With one, the sessions go as well.
Ping ==
    /\ resets < MaxResets
    /\ resets' = resets + 1
    /\ held' = {} /\ taken' = {}
    /\ pending' = FALSE
    /\ IF pending
       THEN CloseAll /\ live' = {}
       ELSE UNCHANGED <<files, server, fatfs, live>>
    /\ UNCHANGED hung

----------------------------------------------------------------------------
Next ==
    /\ ~hung
    /\ \/ \E s \in Drives : Fopen(s) \/ Fcreate(s)
       \/ \E fd \in held : Fclose(fd)
       \/ \E s \in Drives : Fdelete(s)
       \/ SaveConfig
       \/ Ping

Spec == Init /\ [][Next]_vars

----------------------------------------------------------------------------
(* Properties                                                              *)

\* Every variable has its type.
TypeOK ==
    /\ files \in Seq(Descriptor)
    /\ server \in [TnfsDrives -> SUBSET Handles]
    /\ fatfs \in Nat
    /\ live \subseteq TnfsDrives
    /\ pending \in BOOLEAN
    /\ held \subseteq Nat /\ taken \subseteq held
    /\ hung \in BOOLEAN
    /\ resets \in 0..MaxResets

\* No two open files share a GEMDOS handle, whatever was opened, closed and
\* left behind by a reset before, unless there was no memory to look for a free
\* one (get_first_available_fd).
UniqueDescriptors ==
    \A i, j \in DOMAIN files :
      files[i].fd = files[j].fd /\ files[i].fd # NoFd => i = j

\* A TNFS descriptor is the only one with its handle, the handle is open on
\* the server, and its session is the drive's present one: no descriptor
\* outlives the session it was opened in (the PING branch of the dispatch).
HandlesAreOpen ==
    /\ \A i \in DOMAIN files :
         LET b == files[i].backing IN
           b.kind = "tnfs" /\ ~hung => b.slot \in live /\ b.handle \in server[b.slot]
    /\ \A i, j \in DOMAIN files :
         files[i].backing = files[j].backing /\ files[i].backing.kind = "tnfs"
           => i = j

\* Every FatFS file that is open has a descriptor to close it by, so SD files
\* do not leak when memory runs out or at a reset.
SdFilesAreTracked == ~hung => fatfs = Cardinality(SdFiles)

\* What a program holds is an open file until it closes it, its file is deleted
\* or the Atari is reset: no other program's Fclose, and no failing call, takes
\* it away.  NoFd is excepted, and so is a number Fdelete took from a program,
\* which may close what has it now (7700, 7727 of gemdrvemul.c).
HeldFilesAreOpen == held \ (taken \cup {NoFd}) \subseteq Fds

\* Every open file is accounted for on all three sides: the server's handles,
\* the files FatFS has open, and the descriptors programs hold (open_file_append,
\* close_file_by_descriptor, the PING branch of the dispatch).
FilesAreAccountedFor == HandlesAreOpen /\ SdFilesAreTracked /\ HeldFilesAreOpen

(* A property the comments of the code state and the code does not have    *)

\* "Always release the local descriptor ... cleanup must never hang or leak"
\* (gemdrvemul.c:2727): every Fclose returns.
CleanupNeverHangs == ~hung
============================================================================
