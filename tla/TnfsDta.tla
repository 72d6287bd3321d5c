------------------------------- MODULE TnfsDta -------------------------------
(***************************************************************************)
(* Directory searches on TNFS drives: the DTA registry of                  *)
(* src/romemul/sidetnfs_probe.c (s_tnfs_dta_searches).                     *)
(*                                                                         *)
(* Fsfirst opens the directory on the server (OPENDIRX), registers the     *)
(* search under the Atari's DTA address and reads entries one by one       *)
(* (READDIRX) until one matches; Fsnext reads on.  The registry has a few  *)
(* slots: a new search replaces the one with its DTA, or takes a free      *)
(* slot, or evicts the search used least recently.  Every directory handle *)
(* is to be closed again (CLOSEDIR).  Ddelete first closes the searches    *)
(* that have its directory open.  A request without an answer is sent      *)
(* again, CLOSEDIR in Ddelete excepted.                                    *)
(*                                                                         *)
(* Each action is one round trip or one step without any; module DirSearch *)
(* has the GEMDOS calls that start them.  FsListing shows that an answer   *)
(* that is taken is the answer to that very request.                       *)
(***************************************************************************)
EXTENDS Integers, Sequences, FiniteSets

CONSTANTS
    Dtas,        \* addresses of DTAs on the Atari
    Drives,      \* the TNFS drives
    Paths,       \* directories; every drive has them
    Dir,         \* Dir[p]: the entries of directory p, in the server's order
    Patterns,    \* what Fsfirst searches for: name pattern and attributes
    Matches,     \* Matches[p]: the entries pattern p matches
    Exact,       \* the patterns without wildcards
    Handles,     \* directory handles a server has, per session: numbers
    SearchSlots, \* SIDETNFS_TNFS_DTA_SLOTS: 8
    Retries,     \* closedir_retries_left and its like: 2
    MaxRounds,   \* SIDETNFS_TNFS_DTA_MAX_ROUNDS: 512
    None         \* nothing there

ASSUME NumbersAssumption ==
    /\ SearchSlots \in Nat \ {0}
    /\ Retries \in Nat
    /\ MaxRounds \in Nat \ {0}

ASSUME HandlesAssumption == Handles \subseteq Nat /\ None \notin Handles

ASSUME PatternsAssumption ==
    /\ Exact \subseteq Patterns
    /\ \A p \in Paths : Len(Dir[p]) \in Nat

VARIABLES
    live,     \* the drives with a session
    searches, \* s_tnfs_dta_searches; None while a slot is not active
    touches,  \* s_tnfs_dta_touch_counter
    op,       \* where the running operation is
    retries,  \* retries left to its present request
    rounds,   \* READDIRX rounds done by the running call
    dirs,     \* dirs[s][h]: the directory handle h is open on (external)
    given,    \* given[d]: entries the search of d has handed to the Atari, by
              \* position (history)
    upset,    \* the searches, by DTA, a READDIRX of which went without answer
              \* (history)
    orphans,  \* handles left open when their exchange failed (history)
    drift     \* a CLOSEDIR of Ddelete was executed, not answered (history)

dtaVars == <<live, searches, touches, op, retries, rounds, dirs, given, upset,
             orphans, drift>>
history == <<given, upset, orphans, drift>>

Slots == 0 .. SearchSlots - 1
Positions(p) == 1 .. Len(Dir[p])

Search == [dta : Dtas, drive : Drives, path : Paths, pattern : Patterns,
           handle : Handles, eof : BOOLEAN, touched : Nat]

OpenDir == UNION {[path : {p}, pos : 0 .. Len(Dir[p])] : p \in Paths}

ASSUME NoneAssumption == None \notin Search /\ None \notin OpenDir

Idle == [phase |-> "idle"]
Operations ==
    {Idle, [phase |-> "remount"]}
    \cup [phase : {"open"}, dta : Dtas, drive : Drives, path : Paths,
          pattern : Patterns]
    \cup [phase : {"replace"}, dta : Dtas, drive : Drives, path : Paths,
          pattern : Patterns, handle : Handles, at : Slots]
    \cup [phase : {"read"}, at : Slots, first : BOOLEAN]
    \cup [phase : {"release", "flush"}, at : Slots]
    \cup [phase : {"sweep"}, at : Slots, drive : Drives, path : Paths,
          ok : BOOLEAN]
    \cup [phase : {"rmdir"}, drive : Drives, path : Paths]

Min(S) == CHOOSE i \in S : \A j \in S : i <= j

DtaInit ==
    /\ live = {}
    /\ searches = [i \in Slots |-> None]
    /\ touches = 0
    /\ op = Idle /\ retries = 0 /\ rounds = 0
    /\ dirs = [s \in Drives |-> [h \in Handles |-> None]]
    /\ given = [d \in Dtas |-> {}]
    /\ upset = {} /\ orphans = {} /\ drift = FALSE

----------------------------------------------------------------------------
(* The registry                                                            *)

Active == {i \in Slots : searches[i] # None}

\* lookupTnfsDTA
Registered(d) == {i \in Active : searches[i].dta = d}
Lookup(d) == Min(Registered(d))

\* The slot touched least recently; the lowest one on a tie.
Oldest ==
    Min({i \in Active :
           \A j \in Active : searches[i].touched <= searches[j].touched})

\* Mutant: a full registry always gives up its first slot.
SlotForFirst(d) ==
    IF Registered(d) # {} THEN Lookup(d)
    ELSE IF Active # Slots THEN Min(Slots \ Active)
    ELSE 0

\* insertTnfsDTA with alloc_tnfs_dta_slot
SlotFor(d) ==
    IF Registered(d) # {} THEN Lookup(d)
    ELSE IF Active # Slots THEN Min(Slots \ Active)
    ELSE Oldest

\* tnfs_dta_find_next_match of the search in slot i begins.
BeginRead(i, first) ==
    /\ op' = [phase |-> "read", at |-> i, first |-> first]
    /\ retries' = Retries
    /\ rounds' = 0

\* The end of insertTnfsDTA; the reading that follows touches it once more.
Install(i, new, handle) ==
    /\ searches' = [searches EXCEPT ![i] =
                      [dta |-> new.dta, drive |-> new.drive,
                       path |-> new.path, pattern |-> new.pattern,
                       handle |-> handle, eof |-> FALSE,
                       touched |-> touches + 2]]
    /\ touches' = touches + 2
    /\ LET old == IF searches[i] = None THEN {} ELSE {searches[i].dta} IN
         /\ given' = [d \in Dtas |-> IF d \in old \cup {new.dta} THEN {}
                                    ELSE given[d]]
         /\ upset' = upset \ (old \cup {new.dta})
    /\ BeginRead(i, TRUE)

Return == op' = Idle /\ retries' = 0 /\ rounds' = 0

\* The search in slot i is no longer registered.
Drop(i) ==
    /\ searches' = [searches EXCEPT ![i] = None]
    /\ given' = [given EXCEPT ![searches[i].dta] = {}]
    /\ upset' = upset \ {searches[i].dta}

Release(i) ==
    /\ op' = [phase |-> "release", at |-> i]
    /\ retries' = Retries
    /\ rounds' = 0

----------------------------------------------------------------------------
(* OPENDIRX: sidetnfs_tnfs_dta_start                                       *)

\* The server's part: its lowest free handle (external).
Free(s) == {h \in Handles : dirs[s][h] = None}
Opened(s, p) ==
    /\ Free(s) # {}
    /\ dirs' = [dirs EXCEPT ![s][Min(Free(s))] = [path |-> p, pos |-> 0]]

\* Mutant: the handle of the search that is replaced stays open.
OpenAnsweredLeaks ==
    /\ op.phase = "open"
    /\ Opened(op.drive, op.path)
    /\ Install(SlotFor(op.dta), op, Min(Free(op.drive)))
    /\ UNCHANGED <<live, orphans, drift>>

OpenAnswered ==
    /\ op.phase = "open"
    /\ Opened(op.drive, op.path)
    /\ LET i == SlotFor(op.dta)
           h == Min(Free(op.drive)) IN
         IF searches[i] = None
         THEN Install(i, op, h)
         ELSE /\ op' = [phase |-> "replace", dta |-> op.dta,
                        drive |-> op.drive, path |-> op.path,
                        pattern |-> op.pattern, handle |-> h, at |-> i]
              /\ retries' = Retries
              /\ UNCHANGED <<searches, touches, rounds, given, upset>>
    /\ UNCHANGED <<live, orphans, drift>>

\* The server has no such directory, or the request cannot be sent.
OpenFails ==
    /\ op.phase = "open"
    /\ Return
    /\ UNCHANGED <<live, searches, touches, dirs, history>>

\* If the request was executed its handle is known to nobody.
OpenTimeout ==
    /\ op.phase = "open"
    /\ \/ /\ Opened(op.drive, op.path)
          /\ orphans' = orphans \cup {<<op.drive, Min(Free(op.drive))>>}
       \/ UNCHANGED <<dirs, orphans>>
    /\ IF retries > 0
       THEN retries' = retries - 1 /\ UNCHANGED <<op, rounds>>
       ELSE Return
    /\ UNCHANGED <<live, searches, touches, given, upset, drift>>

----------------------------------------------------------------------------
(* READDIRX: tnfs_dta_find_next_match                                      *)

\* Mutant: one round more than MaxRounds.
ReadOnOneMore(eof) ==
    IF eof \/ rounds = MaxRounds
    THEN Release(op.at)
    ELSE rounds' = rounds + 1 /\ retries' = Retries /\ UNCHANGED op

\* Neither a match nor the end: another round, unless this was the last.
ReadOn(eof) ==
    IF eof \/ rounds + 1 = MaxRounds
    THEN Release(op.at)
    ELSE rounds' = rounds + 1 /\ retries' = Retries /\ UNCHANGED op

\* Of a search without wildcards there is nothing more to expect.
Found ==
    IF op.first /\ searches[op.at].pattern \in Exact
    THEN Release(op.at)
    ELSE Return

\* Mutant: the answer that says there is no more is not looked at.
ReadEntryEofFirst(last) ==
    /\ op.phase = "read"
    /\ LET x == searches[op.at]
           open == dirs[x.drive][x.handle] IN
         /\ open # None
         /\ open.pos < Len(Dir[open.path])
         /\ last => open.pos + 1 = Len(Dir[open.path])
         /\ dirs' = [dirs EXCEPT ![x.drive][x.handle].pos = @ + 1]
         /\ searches' = [searches EXCEPT ![op.at].eof = last]
         /\ IF Dir[open.path][open.pos + 1] \in Matches[x.pattern] /\ ~last
            THEN /\ given' = [given EXCEPT ![x.dta] = @ \cup {open.pos + 1}]
                 /\ Found
            ELSE UNCHANGED given /\ ReadOn(last)
    /\ UNCHANGED <<live, touches, upset, orphans, drift>>

\* last: the answer that brings the last entry may say that it is the last.
ReadEntry(last) ==
    /\ op.phase = "read"
    /\ LET x == searches[op.at]
           open == dirs[x.drive][x.handle] IN
         /\ open # None
         /\ open.pos < Len(Dir[open.path])
         /\ last => open.pos + 1 = Len(Dir[open.path])
         /\ dirs' = [dirs EXCEPT ![x.drive][x.handle].pos = @ + 1]
         /\ searches' = [searches EXCEPT ![op.at].eof = last]
         /\ IF Dir[open.path][open.pos + 1] \in Matches[x.pattern]
            THEN /\ given' = [given EXCEPT ![x.dta] = @ \cup {open.pos + 1}]
                 /\ Found
            ELSE UNCHANGED given /\ ReadOn(last)
    /\ UNCHANGED <<live, touches, upset, orphans, drift>>

\* Mutant: an empty answer ends the round, not the search.
ReadEndGoesOn ==
    /\ op.phase = "read"
    /\ LET x == searches[op.at]
           open == dirs[x.drive][x.handle] IN
         /\ open # None
         /\ open.pos = Len(Dir[open.path])
    /\ retries' = Retries
    /\ UNCHANGED <<live, searches, op, rounds, touches, dirs, history>>

ReadEnd ==
    /\ op.phase = "read"
    /\ LET x == searches[op.at]
           open == dirs[x.drive][x.handle] IN
         /\ open # None
         /\ open.pos = Len(Dir[open.path])
    /\ searches' = [searches EXCEPT ![op.at].eof = TRUE]
    /\ Release(op.at)
    /\ UNCHANGED <<live, touches, dirs, history>>

\* The server does not know the handle, or the request cannot be sent.
ReadFails ==
    /\ op.phase = "read"
    /\ Release(op.at)
    /\ UNCHANGED <<live, searches, touches, dirs, history>>

\* If the request was executed the entry is lost.
ReadTimeout ==
    /\ op.phase = "read"
    /\ LET x == searches[op.at]
           open == dirs[x.drive][x.handle] IN
         /\ \/ /\ open # None
               /\ open.pos < Len(Dir[open.path])
               /\ dirs' = [dirs EXCEPT ![x.drive][x.handle].pos = @ + 1]
            \/ UNCHANGED dirs
         /\ upset' = upset \cup {x.dta}
    /\ IF retries > 0
       THEN retries' = retries - 1 /\ UNCHANGED <<op, rounds>>
       ELSE Release(op.at)
    /\ UNCHANGED <<live, searches, touches, given, orphans, drift>>

----------------------------------------------------------------------------
(* CLOSEDIR: tnfs_dta_closedir and what its callers do afterwards, which   *)
(* is the same whether it succeeded or not                                 *)

Closing == op.phase \in {"replace", "release", "flush"}
Closed == LET x == searches[op.at] IN [dirs EXCEPT ![x.drive][x.handle] = None]

\* releaseTnfsDTA for each active slot; then the sessions go.
FlushFrom(i) ==
    LET left == {j \in Active : j >= i} IN
      IF left = {} THEN op' = [phase |-> "remount"] /\ retries' = 0
      ELSE op' = [phase |-> "flush", at |-> Min(left)] /\ retries' = Retries

\* Mutant: the search stays registered.
ProceedKeeps ==
    CASE op.phase = "replace" -> Install(op.at, op, op.handle)
      [] op.phase = "release" ->
           Return /\ UNCHANGED <<searches, given, upset, touches>>
      [] op.phase = "flush" ->
           /\ FlushFrom(op.at + 1)
           /\ UNCHANGED <<searches, given, upset, rounds, touches>>

Proceed ==
    CASE op.phase = "replace" -> Install(op.at, op, op.handle)
      [] op.phase = "release" -> Drop(op.at) /\ Return /\ UNCHANGED touches
      [] op.phase = "flush" ->
           Drop(op.at) /\ FlushFrom(op.at + 1) /\ UNCHANGED <<rounds, touches>>

CloseAnswered ==
    /\ Closing
    /\ dirs' = Closed
    /\ Proceed
    /\ UNCHANGED <<live, orphans, drift>>

\* The handle the firmware forgets may still be open.
CloseGivesUp(after) ==
    /\ dirs' = after
    /\ orphans' = LET x == searches[op.at] IN
                    IF after[x.drive][x.handle] = None THEN orphans
                    ELSE orphans \cup {<<x.drive, x.handle>>}
    /\ Proceed
    /\ UNCHANGED <<live, drift>>

\* Mutant: a CLOSEDIR is sent until it is answered.
CloseTimeoutForever ==
    /\ Closing
    /\ \E after \in {dirs, Closed} : dirs' = after
    /\ UNCHANGED <<live, searches, touches, op, retries, rounds, history>>

CloseTimeout ==
    /\ Closing
    /\ \E after \in {dirs, Closed} :
         IF retries > 0
         THEN /\ dirs' = after
              /\ retries' = retries - 1
              /\ UNCHANGED <<live, searches, touches, op, rounds, history>>
         ELSE CloseGivesUp(after)

CloseNotSent == Closing /\ CloseGivesUp(dirs)

----------------------------------------------------------------------------
(* sidetnfs_tnfs_dta_close_by_path and sidetnfs_tnfs_directory_delete      *)

\* Mutant: only the first search is looked at.
InTheWayFirst(s, p) ==
    {i \in {0} \cap Active : searches[i].drive = s /\ searches[i].path = p}

InTheWay(s, p) ==
    {i \in Active : searches[i].drive = s /\ searches[i].path = p}

\* RMDIR is sent only when every close was confirmed.
SweepFrom(s, p, i, ok) ==
    LET left == {j \in InTheWay(s, p) : j >= i} IN
      CASE left # {} -> /\ op' = [phase |-> "sweep", at |-> Min(left),
                                  drive |-> s, path |-> p, ok |-> ok]
                        /\ UNCHANGED <<retries, rounds>>
        [] left = {} /\ ok -> /\ op' = [phase |-> "rmdir", drive |-> s,
                                        path |-> p]
                              /\ retries' = Retries
                              /\ UNCHANGED rounds
        [] left = {} /\ ~ok -> Return

Sweep(ok) == SweepFrom(op.drive, op.path, op.at + 1, op.ok /\ ok)

SweepConfirmed ==
    /\ op.phase = "sweep"
    /\ LET x == searches[op.at] IN dirs[x.drive][x.handle] # None
    /\ dirs' = Closed
    /\ Drop(op.at)
    /\ Sweep(TRUE)
    /\ UNCHANGED <<live, touches, orphans, drift>>

\* The server refuses, or the request cannot be sent: the search stays.
SweepFails ==
    /\ op.phase = "sweep"
    /\ Sweep(FALSE)
    /\ UNCHANGED <<live, searches, touches, dirs, history>>

SweepTimeout ==
    /\ op.phase = "sweep"
    /\ Sweep(FALSE)
    /\ \E after \in {dirs, Closed} :
         /\ dirs' = after
         /\ drift' = (drift \/ after # dirs)
    /\ UNCHANGED <<live, searches, touches, given, upset, orphans>>

RmdirTimeout ==
    /\ op.phase = "rmdir" /\ retries > 0
    /\ retries' = retries - 1
    /\ UNCHANGED <<live, searches, touches, op, rounds, dirs, history>>

RmdirDone ==
    /\ op.phase = "rmdir"
    /\ Return
    /\ UNCHANGED <<live, searches, touches, dirs, history>>

----------------------------------------------------------------------------
\* The rest of sidetnfs_probe_reinit_active_server and the rebuilding of the
\* slots: sessions and all that belongs to them are gone.
Remount ==
    /\ op.phase = "remount"
    /\ live' = {}
    /\ dirs' = [s \in Drives |-> [h \in Handles |-> None]]
    /\ orphans' = {} /\ drift' = FALSE
    /\ Return
    /\ UNCHANGED <<searches, touches, given, upset>>

\* The steps in which nothing goes wrong, and the others.
Smooth ==
    \/ OpenAnswered
    \/ \E last \in BOOLEAN : ReadEntry(last)
    \/ ReadEnd
    \/ CloseAnswered
    \/ SweepConfirmed
    \/ RmdirDone
    \/ Remount

Faulty ==
    \/ OpenFails \/ OpenTimeout
    \/ ReadFails \/ ReadTimeout
    \/ CloseNotSent \/ CloseTimeout
    \/ SweepFails \/ SweepTimeout
    \/ RmdirTimeout
=============================================================================
