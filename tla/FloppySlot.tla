----------------------------- MODULE FloppySlot -----------------------------
(***************************************************************************)
(* The runtime slot SIDETNFS_PROBE_FLOPPY_SLOT_BASE, which the browser for *)
(* floppy images and the floppy emulation share, and the session it has    *)
(* with a TNFS server.  Each of the two mounts the server it needs, and    *)
(* takes the slot away from the other when that is a different one.        *)
(*                                                                         *)
(* Handlers run to completion, so the exchanges with the server are        *)
(* operators: the set of the outcomes they may have, each with the slot    *)
(* after it.  The server, which is not code of this repository, gives out  *)
(* any number that is free: "small server-assigned integers that get       *)
(* reused after a close".  "lost" counts the exchanges of which a datagram  *)
(* was lost.                                                               *)
(***************************************************************************)
EXTENDS Naturals, Sequences

CONSTANTS
    Hosts,     \* host and port of the TNFS servers
    Numbers,   \* the numbers servers give to open files and directories
    Listing,   \* what is in the directories of each server and of the SD card
    Disks,     \* each image there is, with the facts that count about it
    Nothing,   \* not open, not there, not known
    MaxDepth,  \* names in the longest path that raw_opendir accepts
    MaxEvents, \* commands and presses of SELECT (bound of the model)
    MaxFaults  \* exchanges that lose a datagram (bound of the model)

Card == "SD"
Sources == Hosts \cup {Card}

\* An image: the source it is on and its complete path.
Images == DOMAIN Disks
Dirs == UNION {DOMAIN Listing[s] : s \in Sources}

ASSUME SourcesAssumption ==
    /\ Card \notin Hosts
    /\ Nothing \notin Hosts /\ Nothing \notin Images /\ Nothing \notin Numbers
    /\ Nothing \notin [dir : Dirs, pos : Nat]
ASSUME BoundsAssumption == MaxDepth \in Nat /\ MaxEvents \in Nat /\ MaxFaults \in Nat

VARIABLES
    slot,    \* s_slot_contexts[9], and what is open in its session (external)
    events,
    faults

\* "strays": history, something was opened or left open unheard in this session;
\* "taken": history, the slot was given to another server since BROWSE_OPEN.
Fresh(host) == [host |-> host, mounted |-> FALSE,
                files |-> [n \in Numbers |-> Nothing],
                dirs |-> [n \in Numbers |-> Nothing],
                strays |-> FALSE, taken |-> TRUE]

Positions == {Nothing} \cup [dir : Dirs, pos : Nat]

Slots == [host : Hosts \cup {Nothing}, mounted : BOOLEAN,
          files : [Numbers -> Images \cup {Nothing}],
          dirs : [Numbers -> Positions],
          strays : BOOLEAN, taken : BOOLEAN]

SlotTypeOK ==
    /\ slot \in Slots
    /\ events \in 0..MaxEvents
    /\ faults \in 0..MaxFaults

SlotInit ==
    /\ slot = Fresh(Nothing)
    /\ events = 0
    /\ faults = 0

Event == events < MaxEvents /\ events' = events + 1

-----------------------------------------------------------------------------
(* Outcomes of exchanges. *)

\* "got" is the number the server gave, or what was read.
Outcome(s, ok, got, lost) == [slot |-> s, ok |-> ok, got |-> got, lost |-> lost]

Unchanged(s) == Outcome(s, TRUE, Nothing, 0)

\* Outcomes of exchanges that follow others, which had outcome o.
Then(o, outs) == {[p EXCEPT !.lost = @ + o.lost] : p \in outs}

Failing(outs) == {[o EXCEPT !.ok = FALSE] : o \in outs}

Exchange(o) ==
    /\ faults + o.lost <= MaxFaults
    /\ faults' = faults + o.lost
    /\ slot' = o.slot

Free(table) == {n \in Numbers : table[n] = Nothing}

\* The slot is given to the server unless it has it already, and MOUNT is sent
\* unless the session is there.
Mount(s, host) ==
    LET t == IF s.host = host THEN s ELSE Fresh(host) IN
    {Outcome([t EXCEPT !.mounted = TRUE], TRUE, Nothing, 0)} \cup
        (IF t.mounted THEN {} ELSE {Outcome(t, FALSE, Nothing, 1)})

\* raw_opendir: OPENDIRX, once.
OpenDir(s, dir) ==
    LET there == s.mounted /\ dir \in DOMAIN Listing[s.host]
        opened(n) == [s EXCEPT !.dirs[n] = [dir |-> dir, pos |-> 0]]
    IN  IF Len(dir) > MaxDepth \/ ~there \/ Free(s.dirs) = {}
        THEN {Outcome(s, FALSE, Nothing, 0)}
        ELSE {Outcome(opened(n), TRUE, n, 0) : n \in Free(s.dirs)} \cup
             {Outcome([opened(n) EXCEPT !.strays = TRUE], FALSE, Nothing, 1) : n \in Free(s.dirs)}

\* raw_closedir: CLOSEDIR, once, and whatever comes of it.
CloseDir(s, n) ==
    {Outcome([s EXCEPT !.dirs[n] = Nothing], TRUE, Nothing, 0),
     Outcome([s EXCEPT !.strays = @ \/ s.dirs[n] # Nothing], TRUE, Nothing, 1)}

\* file_open: OPEN, again when no answer comes.
OpenFile(s, path) ==
    LET image == [src |-> s.host, path |-> path]
        opened(n) == [s EXCEPT !.files[n] = image]
        unheard(t, n) == [t EXCEPT !.files[n] = image, !.strays = TRUE]
    IN  IF ~s.mounted \/ image \notin Images \/ Free(s.files) = {}
        THEN {Outcome(s, FALSE, Nothing, 0)}
        ELSE {Outcome(opened(n), TRUE, n, 0) : n \in Free(s.files)} \cup
             {Outcome(unheard(s, n), FALSE, Nothing, 1) : n \in Free(s.files)} \cup
             UNION {{Outcome(unheard(opened(n), m), TRUE, n, 1) : m \in Free(s.files) \ {n}} :
                        n \in Free(s.files)}

\* file_close: CLOSE in the session the slot has now, whichever that is.
CloseFile(s, n) ==
    {Outcome([s EXCEPT !.files[n] = Nothing], TRUE, Nothing, 0),
     Outcome([s EXCEPT !.strays = @ \/ s.files[n] # Nothing], TRUE, Nothing, 1)}
============================================================================
