----------------------------- MODULE DirSearch -----------------------------
(***************************************************************************)
(* Fsfirst, Fsnext, Ddelete, the release of a DTA and the PING that adopts *)
(* a saved configuration (src/romemul/gemdrvemul.c), over the five places  *)
(* that remember searches by DTA address:                                  *)
(*   settings  the SETTINGS disk   (sidetnfs_config_drive_backend.c)       *)
(*   fatfs     a readable SD card  (gemdrvemul.c, a hash table)            *)
(*   fake      NET_ERR.TXT on a TNFS drive without session                 *)
(*             (sidetnfs_probe.c)                                          *)
(*   sderror   SD_ERROR.TXT on an SD drive (sidetnfs_sd_service.c)         *)
(*   TNFS      module TnfsDta                                              *)
(* Fsfirst writes the one its drive needs.  Fsnext is told the DTA only    *)
(* and asks them in the order above.                                       *)
(***************************************************************************)
EXTENDS TnfsDta

CONSTANTS
    Root,       \* the root directory
    LocalSlots, \* searches each of the three small tables holds: 4
    MaxEvents   \* bound on the Atari's calls and what is lost or refused,
                \* together

ASSUME CallsAssumption ==
    /\ LocalSlots \in Nat \ {0}
    /\ MaxEvents \in Nat

VARIABLES
    local, \* local[k]: the DTA in each slot of table k; None if not active
    fatfs, \* the DTAs with a node in the FatFS table
    events \* calls made and round trips gone wrong so far

vars == <<dtaVars, local, fatfs, events>>

Kinds == {"settings", "fake", "sderror"}
LocalIndices == 0 .. LocalSlots - 1

Init ==
    /\ DtaInit
    /\ local = [k \in Kinds |-> [i \in LocalIndices |-> None]]
    /\ fatfs = {}
    /\ events = 0

\* The command loop takes the next command when the last one is answered.
Event == events < MaxEvents /\ events' = events + 1
Call == op = Idle /\ Event

NoTnfs == UNCHANGED dtaVars

----------------------------------------------------------------------------
(* The three small tables                                                  *)

InLocal(k, d) == \E i \in LocalIndices : local[k][i] = d
FreeLocal(k) == {i \in LocalIndices : local[k][i] = None}
LocalWithout(k, d) ==
    [i \in LocalIndices |-> IF local[k][i] = d THEN None ELSE local[k][i]]

\* find_slot and alloc_slot of each: a full SETTINGS table refuses, the
\* others give up their first slot.
LocalSlot(k, d) ==
    IF InLocal(k, d) THEN Min({i \in LocalIndices : local[k][i] = d})
    ELSE IF FreeLocal(k) # {} THEN Min(FreeLocal(k))
    ELSE 0

\* How many entries match is left open: a first match keeps the slot.
LocalStart(k, d) ==
    LET i == LocalSlot(k, d) IN
      \/ local' = [local EXCEPT ![k][i] = d]
      \/ local' = [local EXCEPT ![k][i] = None]

----------------------------------------------------------------------------
(* Fsfirst                                                                 *)

FsfirstSettings(d) ==
    /\ Call
    /\ \/ (InLocal("settings", d) \/ FreeLocal("settings") # {})
          /\ LocalStart("settings", d)
       \/ UNCHANGED local       \* the table is full, or not the root
    /\ NoTnfs
    /\ UNCHANGED fatfs

FsfirstTnfs(d, s, p, pat) ==
    /\ Call
    /\ s \in live
    /\ op' = [phase |-> "open", dta |-> d, drive |-> s, path |-> p,
              pattern |-> pat]
    /\ retries' = Retries
    /\ UNCHANGED <<live, searches, touches, rounds, dirs, history, local, fatfs>>

\* On a TNFS drive without session: NET_ERR.TXT.
FsfirstNetErr(d) ==
    /\ Call
    /\ live # Drives
    /\ LocalStart("fake", d)
    /\ NoTnfs
    /\ UNCHANGED fatfs

FsfirstSdError(d) ==
    /\ Call
    /\ LocalStart("sderror", d)
    /\ NoTnfs
    /\ UNCHANGED fatfs

\* A match; no match; a path that cannot be built.
FsfirstFatFs(d) ==
    /\ Call
    /\ fatfs' \in {fatfs \cup {d}, fatfs \ {d}, fatfs}
    /\ NoTnfs
    /\ UNCHANGED local

----------------------------------------------------------------------------
(* Fsnext                                                                  *)

InTnfs(d) == Registered(d) # {}

FsnextSettings(d) ==
    /\ Call
    /\ InLocal("settings", d)
    /\ \/ local' = [local EXCEPT !["settings"] = LocalWithout("settings", d)]
       \/ UNCHANGED local
    /\ NoTnfs
    /\ UNCHANGED fatfs

FsnextFatFs(d) ==
    /\ Call
    /\ ~InLocal("settings", d) /\ d \in fatfs
    /\ fatfs' \in {fatfs, fatfs \ {d}}
    /\ NoTnfs
    /\ UNCHANGED local

\* No further entry: every table but the first two forgets the DTA.
Exhausted(d) ==
    /\ local' = [k \in Kinds |-> IF k = "settings" THEN local[k]
                                 ELSE LocalWithout(k, d)]
    /\ IF InTnfs(d)
       THEN Release(Lookup(d)) /\ UNCHANGED <<live, searches, touches, dirs, history>>
       ELSE NoTnfs

\* The virtual file was the only entry; or there is no search at all.
FsnextVirtual(d) ==
    /\ Call
    /\ ~InLocal("settings", d) /\ d \notin fatfs
    /\ InLocal("fake", d) \/ InLocal("sderror", d) \/ ~InTnfs(d)
    /\ Exhausted(d)
    /\ UNCHANGED fatfs

FsnextIsTnfs(d) ==
    /\ Call
    /\ \A k \in Kinds : ~InLocal(k, d)
    /\ d \notin fatfs /\ InTnfs(d)
    /\ UNCHANGED <<local, fatfs>>

FsnextTnfs(d) ==
    /\ FsnextIsTnfs(d)
    /\ LET i == Lookup(d) IN
         /\ searches' = [searches EXCEPT ![i].touched = touches + 1]
         /\ IF searches[i].eof THEN Release(i) ELSE BeginRead(i, FALSE)
    /\ touches' = touches + 1
    /\ UNCHANGED <<live, dirs, history>>

----------------------------------------------------------------------------
(* The other calls                                                         *)

\* GEMDRVEMUL_DTA_RELEASE_CALL
DtaRelease(d) ==
    /\ Call
    /\ local' = [k \in Kinds |-> LocalWithout(k, d)]
    /\ fatfs' = fatfs \ {d}
    /\ IF InTnfs(d)
       THEN Release(Lookup(d)) /\ UNCHANGED <<live, searches, touches, dirs, history>>
       ELSE NoTnfs

\* GEMDRVEMUL_DDELETE_CALL on a TNFS drive; the root is refused at once.
Ddelete(s, p) ==
    /\ Call
    /\ p # Root
    /\ SweepFrom(s, p, 0, TRUE)
    /\ UNCHANGED <<live, searches, touches, dirs, history, local, fatfs>>

\* GEMDRVEMUL_PING with a saved configuration: SD_ERROR.TXT searches stay.
Ping ==
    /\ Call
    /\ local' = [local EXCEPT !["settings"] = [i \in LocalIndices |-> None],
                              !["fake"] = [i \in LocalIndices |-> None]]
    /\ fatfs' = {}
    /\ FlushFrom(0)
    /\ UNCHANGED <<live, searches, rounds, touches, dirs, history>>

\* A mount is answered (module MountSlots).
SessionUp(s) ==
    /\ op = Idle
    /\ s \notin live
    /\ live' = live \cup {s}
    /\ UNCHANGED <<searches, touches, op, retries, rounds, dirs, history, local,
                   fatfs, events>>

Next ==
    \/ \E d \in Dtas :
         \/ FsfirstSettings(d) \/ FsfirstNetErr(d) \/ FsfirstSdError(d)
         \/ FsfirstFatFs(d)
         \/ \E s \in Drives, p \in Paths, pat \in Patterns :
              FsfirstTnfs(d, s, p, pat)
         \/ FsnextSettings(d) \/ FsnextFatFs(d) \/ FsnextVirtual(d)
         \/ FsnextTnfs(d)
         \/ DtaRelease(d)
    \/ \E s \in Drives, p \in Paths : Ddelete(s, p)
    \/ Ping
    \/ \E s \in Drives : SessionUp(s)
    \/ Smooth /\ UNCHANGED <<local, fatfs, events>>
    \/ Faulty /\ Event /\ UNCHANGED <<local, fatfs>>

Spec == Init /\ [][Next]_vars

----------------------------------------------------------------------------
(* Properties                                                              *)

\* Types of the variables of TnfsDta and of this module.
TypeOK ==
    /\ live \subseteq Drives
    /\ searches \in [Slots -> Search \cup {None}]
    /\ touches \in Nat
    /\ op \in Operations
    /\ retries \in 0 .. Retries
    /\ rounds \in 0 .. MaxRounds - 1
    /\ dirs \in [Drives -> [Handles -> OpenDir \cup {None}]]
    /\ given \in [Dtas -> SUBSET UNION {Positions(p) : p \in Paths}]
    /\ upset \subseteq Dtas
    /\ orphans \subseteq Drives \X Handles
    /\ drift \in BOOLEAN
    /\ local \in [Kinds -> [LocalIndices -> Dtas \cup {None}]]
    /\ fatfs \subseteq Dtas
    /\ events \in 0 .. MaxEvents

\* The searches that are not just being closed.
Settled ==
    Active \ (IF op.phase \in {"replace", "release", "flush"} THEN {op.at} ELSE {})

\* A DTA has at most one search in the TNFS registry, although slots are
\* freed and given away in any order, and no search survives its session.  As
\* long as no unanswered CLOSEDIR of Ddelete was executed, every search has a
\* handle of its own, and it is open on the search's directory.
SearchesHaveHandles ==
    /\ \A i, j \in Active : searches[i].dta = searches[j].dta => i = j
    /\ \A i \in Active : searches[i].drive \in live
    /\ ~drift =>
      \A i \in Settled :
        LET x == searches[i] IN
          /\ dirs[x.drive][x.handle] # None
          /\ dirs[x.drive][x.handle].path = x.path
          /\ \A j \in Settled \ {i} :
               <<searches[j].drive, searches[j].handle>> # <<x.drive, x.handle>>

\* Between two calls the handles open on the servers are those of the
\* searches and those whose OPENDIRX or CLOSEDIR never got through; and a
\* search without wildcards is not among them: programs use it to ask whether
\* a file exists and never come back.
NoHandleLeaks ==
    op = Idle =>
      /\ \A i \in Active : searches[i].pattern \notin Exact
      /\ ~drift =>
           {sh \in Drives \X Handles : dirs[sh[1]][sh[2]] # None}
             = {<<searches[i].drive, searches[i].handle>> : i \in Active}
               \cup orphans

\* Handles and searches correspond, in both directions (tnfs_dta_start,
\* tnfs_dta_find_next_match, tnfs_dta_release).
HandlesMatchSearches == SearchesHaveHandles /\ NoHandleLeaks

\* The Atari has been handed every matching entry that the server has
\* delivered, none twice (the position grows) and none at the end forgotten;
\* unless a READDIRX of the search went unanswered.
DeliversEveryMatch ==
    ~drift =>
      \A i \in Settled \cup (IF op.phase = "release" THEN {op.at} ELSE {}) :
        LET x == searches[i]
            open == dirs[x.drive][x.handle] IN
          open # None /\ x.dta \notin upset =>
            /\ given[x.dta] = {k \in 1 .. open.pos :
                                 Dir[open.path][k] \in Matches[x.pattern]}
            /\ x.eof => open.pos = Len(Dir[open.path])

\* When RMDIR goes out, no search is left on the directory and no handle
\* that the firmware knows of.
RmdirOnlyWhenClosed ==
    op.phase = "rmdir" =>
      /\ \A i \in Active : ~(searches[i].drive = op.drive
                             /\ searches[i].path = op.path)
      /\ ~drift =>
           \A h \in Handles :
             dirs[op.drive][h] # None /\ <<op.drive, h>> \notin orphans =>
               dirs[op.drive][h].path # op.path

\* A call spares the searches it has no reason to end.  Fsfirst gives up one of
\* another DTA only when no slot is free, and then the one that was used least
\* recently; Ddelete leaves those of other drives and directories alone.
SparesOtherSearches ==
    [][/\ (op.phase = "open" /\ op'.phase = "replace"
              /\ searches[op'.at].dta # op.dta) =>
             \A i \in Slots :
               /\ searches[i] # None
               /\ searches[op'.at].touched <= searches[i].touched
       /\ op.phase = "sweep" =>
             \A i \in Active :
               (searches[i].drive # op.drive \/ searches[i].path # op.path)
                 => searches'[i] = searches[i]]_vars

\* A call ends the searches it has to end, all of them and no other
\* (alloc of a registry slot, sidetnfs_tnfs_close_searches_for_path).
EndsItsOwnSearches == []RmdirOnlyWhenClosed /\ SparesOtherSearches

\* The requests the running call may still send, the present one included.
Tries == Retries + 1
Reading == MaxRounds * Tries + Tries
RequestsLeft ==
    LET later == SearchSlots - 1 - op.at IN
      CASE op.phase = "idle" -> 0
        [] op.phase = "open" -> retries + 1 + Tries + Reading
        [] op.phase = "replace" -> retries + 1 + Reading
        [] op.phase = "read" ->
             retries + 1 + (MaxRounds - 1 - rounds) * Tries + Tries
        [] op.phase = "release" -> retries + 1
        [] op.phase = "flush" -> retries + 1 + later * Tries + 1
        [] op.phase = "remount" -> 1
        [] op.phase = "sweep" -> 1 + later + Tries
        [] op.phase = "rmdir" -> retries + 1

\* Every round trip, and every one that goes wrong, brings the answer to the
\* Atari nearer: no call waits longer than RequestsLeft requests.
EveryStepComesCloser == [][op # Idle => RequestsLeft' < RequestsLeft]_vars

=============================================================================
