--------------------------- MODULE DirSearchProofs ---------------------------
(***************************************************************************)
(* What DirSearch guarantees for any directories, patterns, drives, slots  *)
(* and numbers of retries: searches and directory handles correspond, no   *)
(* search forgets an entry, and no call goes on for ever.                  *)
(*                                                                         *)
(* The invariant accounts for every handle of every server one by one: it  *)
(* is closed, or it belongs to exactly one of: a search, the OPENDIRX that *)
(* is about to replace a search, the handles nobody knows any more.  Each  *)
(* action moves at most one handle from one owner to another.              *)
(***************************************************************************)
EXTENDS DirSearch, WellFoundedInduction, TLAPS

USE NumbersAssumption, HandlesAssumption, PatternsAssumption, CallsAssumption, NoneAssumption

----------------------------------------------------------------------------
(* Least elements                                                          *)

\* A set of naturals that is not empty has a least element.
LEMMA LeastNatural ==
  ASSUME NEW T \in SUBSET Nat, T # {}
  PROVE  \E x \in T : \A y \in T : x <= y
<1>1. \E R : /\ IsWellFoundedOn(R, Nat)
             /\ \A x, y \in Nat : y < x => <<y, x>> \in R
  <2>1. IsWellFoundedOn(OpToRel(<, Nat), Nat)
    BY NatLessThanWellFounded
  <2>2. \A x, y \in Nat : y < x => <<y, x>> \in OpToRel(<, Nat)
    BY DEF OpToRel
  <2> QED
    BY <2>1, <2>2, Zenon
<1>2. PICK R : /\ IsWellFoundedOn(R, Nat)
               /\ \A x, y \in Nat : y < x => <<y, x>> \in R
  BY <1>1
<1>3. PICK x \in T : \A y \in T : ~ (<<y, x>> \in R)
  BY <1>2, WFMin
<1>4. \A y \in T : x <= y
  <2> SUFFICES ASSUME NEW y \in T
               PROVE  x <= y
    OBVIOUS
  <2>1. ~ (y < x)
    BY <1>2, <1>3
  <2> QED
    BY <2>1
<1> QED
  BY <1>4

LEMMA MinIs ==
  ASSUME NEW T \in SUBSET Nat, T # {}
  PROVE  Min(T) \in T /\ \A y \in T : Min(T) <= y
  BY LeastNatural, Zenon DEF Min

----------------------------------------------------------------------------
(* Types                                                                   *)

\* What is open on a server, and how it moves on.
LEMMA OpenDirIs ==
  /\ \A p \in Paths : [path |-> p, pos |-> 0] \in OpenDir
  /\ \A r \in OpenDir : r.path \in Paths /\ r.pos \in 0 .. Len(Dir[r.path])
  /\ \A r \in OpenDir : r.pos < Len(Dir[r.path]) =>
       /\ [r EXCEPT !.pos = r.pos + 1] \in OpenDir
       /\ [r EXCEPT !.pos = r.pos + 1].path = r.path
       /\ [r EXCEPT !.pos = r.pos + 1].pos = r.pos + 1
       /\ r.pos + 1 \in Positions(r.path)
<1>1. ASSUME NEW p \in Paths
      PROVE  [path |-> p, pos |-> 0] \in OpenDir
  <2>1. [path |-> p, pos |-> 0] \in [path : {p}, pos : 0 .. Len(Dir[p])]
    OBVIOUS
  <2> QED
    BY <2>1 DEF OpenDir
<1>2. ASSUME NEW r \in OpenDir
      PROVE  /\ r.path \in Paths /\ r.pos \in 0 .. Len(Dir[r.path])
             /\ r \in [path : {r.path}, pos : 0 .. Len(Dir[r.path])]
  <2>1. PICK p \in Paths : r \in [path : {p}, pos : 0 .. Len(Dir[p])]
    BY DEF OpenDir
  <2> QED
    BY <2>1
<1>3. ASSUME NEW r \in OpenDir, r.pos < Len(Dir[r.path])
      PROVE  /\ [r EXCEPT !.pos = r.pos + 1] \in OpenDir
             /\ [r EXCEPT !.pos = r.pos + 1].path = r.path
             /\ [r EXCEPT !.pos = r.pos + 1].pos = r.pos + 1
             /\ r.pos + 1 \in Positions(r.path)
  <2>1. /\ r.path \in Paths /\ r.pos \in 0 .. Len(Dir[r.path])
        /\ r \in [path : {r.path}, pos : 0 .. Len(Dir[r.path])]
    BY <1>2
  <2>2. [r EXCEPT !.pos = r.pos + 1] \in [path : {r.path}, pos : 0 .. Len(Dir[r.path])]
    BY <1>3, <2>1
  <2>3. [r EXCEPT !.pos = r.pos + 1] \in OpenDir
    BY <2>1, <2>2 DEF OpenDir
  <2> QED
    BY <1>3, <2>1, <2>3 DEF Positions
<1> QED
  BY <1>1, <1>2, <1>3

\* The fields the phases have.
LEMMA OpIs ==
  ASSUME NEW o \in Operations
  PROVE  /\ o.phase = "idle" <=> o = Idle
         /\ o.phase \in {"idle", "remount", "open", "replace", "read", "release", "flush",
                         "sweep", "rmdir"}
         /\ o.phase \in {"replace", "read", "release", "flush", "sweep"} => o.at \in Slots
         /\ o.phase \in {"open", "replace", "sweep", "rmdir"} =>
              o.drive \in Drives /\ o.path \in Paths
         /\ o.phase \in {"open", "replace"} => o.dta \in Dtas /\ o.pattern \in Patterns
         /\ o.phase = "replace" => o.handle \in Handles
         /\ o.phase = "read" => o.first \in BOOLEAN
         /\ o.phase = "sweep" => o.ok \in BOOLEAN
  BY DEF Operations, Idle

LEMMA NewOps ==
  /\ Idle \in Operations /\ Idle.phase = "idle"
  /\ [phase |-> "remount"] \in Operations
  /\ \A i \in Slots : /\ [phase |-> "release", at |-> i] \in Operations
                      /\ [phase |-> "flush", at |-> i] \in Operations
  /\ \A i \in Slots, f \in BOOLEAN : [phase |-> "read", at |-> i, first |-> f] \in Operations
  /\ \A s \in Drives, p \in Paths : [phase |-> "rmdir", drive |-> s, path |-> p] \in Operations
  BY DEF Operations, Idle

LEMMA NewOps2 ==
  /\ \A i \in Slots, s \in Drives, p \in Paths, b \in BOOLEAN :
       [phase |-> "sweep", at |-> i, drive |-> s, path |-> p, ok |-> b] \in Operations
  /\ \A d \in Dtas, s \in Drives, p \in Paths, n \in Patterns :
       [phase |-> "open", dta |-> d, drive |-> s, path |-> p, pattern |-> n] \in Operations
  /\ \A d \in Dtas, s \in Drives, p \in Paths, n \in Patterns, h \in Handles, i \in Slots :
       [phase |-> "replace", dta |-> d, drive |-> s, path |-> p, pattern |-> n,
        handle |-> h, at |-> i] \in Operations
  BY DEF Operations

\* A search that is there has its fields.
LEMMA SearchIs ==
  ASSUME TypeOK, NEW i \in Active
  PROVE  /\ i \in Slots /\ searches[i] \in Search
         /\ searches[i].dta \in Dtas /\ searches[i].drive \in Drives
         /\ searches[i].path \in Paths /\ searches[i].pattern \in Patterns
         /\ searches[i].handle \in Handles /\ searches[i].touched \in Nat
         /\ searches[i].eof \in BOOLEAN
  BY DEF TypeOK, Active, Search

\* One handle changes.
LEMMA DirsSet ==
  ASSUME TypeOK, NEW a \in Drives, NEW b \in Handles, NEW v \in OpenDir \cup {None}
  PROVE  /\ [dirs EXCEPT ![a][b] = v] \in [Drives -> [Handles -> OpenDir \cup {None}]]
         /\ \A s \in Drives, h \in Handles :
              [dirs EXCEPT ![a][b] = v][s][h] = IF s = a /\ h = b THEN v ELSE dirs[s][h]
  BY DEF TypeOK

\* The server's lowest free handle.
LEMMA FreeIs ==
  ASSUME TypeOK, NEW s \in Drives, Free(s) # {}
  PROVE  Min(Free(s)) \in Handles /\ dirs[s][Min(Free(s))] = None
<1>1. Free(s) \in SUBSET Nat
  BY DEF Free
<1> QED
  BY <1>1, MinIs DEF Free

LEMMA SlotsAreNat == Slots \subseteq Nat /\ Active \subseteq Slots
  BY DEF Slots, Active

\* The search used least recently, when no slot is free.
LEMMA OldestIs ==
  ASSUME TypeOK, Active = Slots
  PROVE  Oldest \in Slots /\ \A j \in Active : searches[Oldest].touched <= searches[j].touched
<1> DEFINE T == {searches[i].touched : i \in Active}
           O == {i \in Active : \A j \in Active : searches[i].touched <= searches[j].touched}
<1>1. 0 \in Active
  BY DEF Slots
<1>2. T \in SUBSET Nat /\ T # {}
  BY <1>1, SearchIs
<1>3. PICK t \in T : \A y \in T : t <= y
  BY <1>2, LeastNatural
<1>4. O # {} /\ O \in SUBSET Nat
  <2>1. PICK i \in Active : t = searches[i].touched
    BY <1>3
  <2>2. \A j \in Active : searches[i].touched <= searches[j].touched
    BY <1>3, <2>1
  <2> QED
    BY <2>2, SlotsAreNat
<1>5. Min(O) \in O
  BY <1>4, MinIs
<1>6. Oldest = Min(O)
  BY DEF Oldest
<1> QED
  BY <1>5, <1>6, SlotsAreNat

\* The slot a new search gets: its own, a free one, or one in use.
LEMMA SlotForIs ==
  ASSUME TypeOK, NEW d \in Dtas
  PROVE  /\ Registered(d) # {} => Lookup(d) \in Registered(d)
         /\ SlotFor(d) \in Slots
         /\ searches[SlotFor(d)] # None /\ searches[SlotFor(d)].dta # d => Registered(d) = {}
         /\ searches[SlotFor(d)] = None => Registered(d) = {}
<1>1. Registered(d) \in SUBSET Nat /\ (Slots \ Active) \in SUBSET Nat
  BY SlotsAreNat DEF Registered
<1>2. Registered(d) # {} => Lookup(d) \in Registered(d)
  BY <1>1, MinIs DEF Lookup
<1>3. CASE Registered(d) # {}
  BY <1>2, <1>3 DEF SlotFor, Registered, Active
<1>4. CASE Registered(d) = {} /\ Active # Slots
  <2>1. Slots \ Active # {}
    BY <1>4, SlotsAreNat
  <2>2. Min(Slots \ Active) \in Slots
    BY <1>1, <2>1, MinIs
  <2> QED
    BY <1>4, <2>2 DEF SlotFor
<1>5. CASE Registered(d) = {} /\ Active = Slots
  BY <1>5, OldestIs DEF SlotFor
<1> QED
  BY <1>2, <1>3, <1>4, <1>5, SlotsAreNat

\* Only a full registry gives up the search of another DTA, the oldest one.
LEMMA EvictsOldest ==
  ASSUME TypeOK, NEW d \in Dtas, searches[SlotFor(d)] # None, searches[SlotFor(d)].dta # d
  PROVE  Active = Slots /\ \A j \in Active : searches[SlotFor(d)].touched <= searches[j].touched
<1>1. Registered(d) = {}
  BY SlotForIs
<1>2. Active = Slots
  <2> SUFFICES ASSUME Active # Slots
               PROVE  FALSE
    OBVIOUS
  <2>1. (Slots \ Active) \in SUBSET Nat /\ Slots \ Active # {}
    BY SlotsAreNat
  <2>2. SlotFor(d) \in Slots \ Active
    <3>1. Min(Slots \ Active) \in Slots \ Active
      BY <2>1, MinIs
    <3> QED
      BY <1>1, <3>1 DEF SlotFor
  <2> QED
    BY <2>2 DEF Active
<1>3. SlotFor(d) = Oldest
  BY <1>1, <1>2 DEF SlotFor
<1> QED
  BY <1>2, <1>3, OldestIs

----------------------------------------------------------------------------
(* The invariant                                                           *)

\* What the running operation stands for.
OpInv ==
    /\ op.phase \in {"replace", "read", "release", "flush", "sweep"} => op.at \in Active
    /\ op.phase \in {"open", "replace"} => op.drive \in live
    /\ op.phase = "replace" => searches[op.at].dta = op.dta \/ Registered(op.dta) = {}
    /\ op.phase = "flush" => \A i \in Active : op.at <= i
    /\ op.phase = "remount" => Active = {}
    /\ op.phase = "sweep" =>
           /\ op.at \in InTheWay(op.drive, op.path)
           /\ op.ok => \A i \in InTheWay(op.drive, op.path) : op.at <= i
    /\ op.phase = "rmdir" => InTheWay(op.drive, op.path) = {}

\* The registry; a search without wildcards is there only while it is read.
RegistryInv ==
    /\ \A i, j \in Active : searches[i].dta = searches[j].dta => i = j
    /\ \A i \in Active :
         /\ searches[i].drive \in live
         /\ searches[i].pattern \in Exact =>
                \/ op.phase = "release" /\ op.at = i
                \/ op.phase = "read" /\ op.at = i /\ op.first

\* The owners of handle h of drive s: a search, the OPENDIRX, nobody.
Owns(i, s, h) == searches[i].drive = s /\ searches[i].handle = h
New(s, h) == op.phase = "replace" /\ op.drive = s /\ op.handle = h
Orphan(s, h) == <<s, h>> \in orphans
OnPath(s, h, p) == dirs[s][h] # None /\ dirs[s][h].path = p

HandleInv(s, h) ==
    /\ \A i, j \in Active : Owns(i, s, h) /\ Owns(j, s, h) => i = j
    /\ \A i \in Active : Owns(i, s, h) => ~Orphan(s, h) /\ ~New(s, h)
    /\ New(s, h) => ~Orphan(s, h) /\ OnPath(s, h, op.path) /\ dirs[s][h].pos = 0
    /\ \A i \in Settled : Owns(i, s, h) => OnPath(s, h, searches[i].path)
    /\ Orphan(s, h) => dirs[s][h] # None
    /\ dirs[s][h] # None =>
           Orphan(s, h) \/ New(s, h) \/ \E i \in Active : Owns(i, s, h)

HandlesInv == ~drift => \A s \in Drives, h \in Handles : HandleInv(s, h)

IInv == TypeOK /\ OpInv /\ RegistryInv /\ HandlesInv

----------------------------------------------------------------------------
(* What the parts of the actions do                                        *)

\* The types of the history and of the registry, on their own.
Positioned == SUBSET UNION {Positions(p) : p \in Paths}
Registry == [Slots -> Search \cup {None}]

LEMMA DropIs ==
  ASSUME TypeOK, NEW i \in Active, Drop(i)
  PROVE  /\ searches' \in Registry /\ given' \in [Dtas -> Positioned] /\ upset' \subseteq Dtas
         /\ Active' = Active \ {i}
         /\ \A j \in Active \ {i} : searches'[j] = searches[j]
<1>1. i \in Slots /\ searches[i].dta \in Dtas
  BY SearchIs
<1>2. searches' = [searches EXCEPT ![i] = None]
  BY DEF Drop
<1>3. searches' \in Registry
  BY <1>1, <1>2 DEF TypeOK, Registry
<1>4. Active' = Active \ {i} /\ \A j \in Active \ {i} : searches'[j] = searches[j]
  BY <1>1, <1>2 DEF Active, TypeOK
<1>5. given' \in [Dtas -> Positioned] /\ upset' \subseteq Dtas
  BY <1>1 DEF Drop, TypeOK, Positioned
<1> QED
  BY <1>3, <1>4, <1>5

\* The search that takes slot i.
Entry(o, h) ==
    [dta |-> o.dta, drive |-> o.drive, path |-> o.path, pattern |-> o.pattern,
     handle |-> h, eof |-> FALSE, touched |-> touches + 2]

LEMMA InstallIs ==
  ASSUME TypeOK, NEW i \in Slots, NEW h \in Handles,
         op.phase \in {"open", "replace"}, Install(i, op, h)
  PROVE  /\ searches' \in Registry /\ given' \in [Dtas -> Positioned] /\ upset' \subseteq Dtas
         /\ touches' \in Nat
         /\ Active' = Active \cup {i} /\ searches'[i] = Entry(op, h)
         /\ \A j \in Active \ {i} : searches'[j] = searches[j]
         /\ op' = [phase |-> "read", at |-> i, first |-> TRUE]
         /\ retries' = Retries /\ rounds' = 0
<1>1. op \in Operations
  BY DEF TypeOK
<1>2. op.dta \in Dtas /\ op.drive \in Drives /\ op.path \in Paths /\ op.pattern \in Patterns
  BY <1>1, OpIs
<1>3. Entry(op, h) \in Search /\ touches + 2 \in Nat
  BY <1>2 DEF Entry, Search, TypeOK
<1>4. searches' = [searches EXCEPT ![i] = Entry(op, h)]
  BY DEF Install, Entry
<1>5. searches' \in Registry
  BY <1>3, <1>4 DEF TypeOK, Registry
<1>6. /\ Active' = Active \cup {i} /\ searches'[i] = Entry(op, h)
      /\ \A j \in Active \ {i} : searches'[j] = searches[j]
  BY <1>3, <1>4 DEF Active, TypeOK
<1>7. given' \in [Dtas -> Positioned] /\ upset' \subseteq Dtas
  BY DEF Install, TypeOK, Positioned
<1> QED
  BY <1>3, <1>5, <1>6, <1>7 DEF Install, BeginRead

\* The slots from i on that a flush or a sweep still has to visit.
LEMMA LeftIs ==
  ASSUME NEW A \in SUBSET Slots, NEW i \in Nat, NEW left,
         \A j : j \in left <=> j \in A /\ j >= i
  PROVE  left # {} => /\ Min(left) \in A /\ Min(left) >= i
                      /\ \A j \in left : Min(left) <= j
<1>1. left \in SUBSET Nat
  BY SlotsAreNat
<1>2. left # {} => Min(left) \in left /\ \A j \in left : Min(left) <= j
  BY <1>1, MinIs
<1> QED
  BY <1>2

LEMMA FlushFromIs ==
  ASSUME TypeOK, NEW i \in Nat, FlushFrom(i)
  PROVE  /\ op' \in Operations /\ retries' \in 0 .. Retries
         /\ \/ op'.phase = "remount" /\ \A j \in Active : ~(j >= i)
            \/ /\ op'.phase = "flush" /\ op'.at \in Active /\ op'.at >= i
               /\ \A j \in Active : j >= i => op'.at <= j
<1> DEFINE left == {j \in Active : j >= i}
<1>1. left # {} => /\ Min(left) \in Active /\ Min(left) >= i
                   /\ \A j \in left : Min(left) <= j
  <2>1. (\A j : j \in left <=> j \in Active /\ j >= i) /\ Active \in SUBSET Slots
    BY SlotsAreNat
  <2> HIDE DEF left
  <2> QED
    BY <2>1, LeftIs
<1>2. CASE left = {}
  BY <1>2, NewOps DEF FlushFrom
<1>3. CASE left # {}
  <2>1. op' = [phase |-> "flush", at |-> Min(left)] /\ retries' = Retries
    BY <1>3 DEF FlushFrom
  <2> HIDE DEF left
  <2>2. op' \in Operations
    BY <1>1, <1>3, <2>1, NewOps, SlotsAreNat
  <2>3. \A j \in Active : j >= i => Min(left) <= j
    BY <1>1, <1>3 DEF left
  <2> QED
    BY <1>1, <1>3, <2>1, <2>2, <2>3
<1> QED
  BY <1>2, <1>3

LEMMA SweepFromIs ==
  ASSUME TypeOK, NEW s \in Drives, NEW p \in Paths, NEW i \in Nat, NEW ok \in BOOLEAN,
         SweepFrom(s, p, i, ok)
  PROVE  /\ op' \in Operations /\ retries' \in 0 .. Retries /\ rounds' \in 0 .. MaxRounds - 1
         /\ \/ op' = Idle
            \/ /\ op'.phase = "rmdir" /\ op'.drive = s /\ op'.path = p /\ ok
               /\ retries' = Retries /\ \A j \in InTheWay(s, p) : ~(j >= i)
            \/ /\ op'.phase = "sweep" /\ op'.drive = s /\ op'.path = p /\ op'.ok = ok
               /\ op'.at \in InTheWay(s, p) /\ op'.at >= i
               /\ \A j \in InTheWay(s, p) : j >= i => op'.at <= j
<1> DEFINE left == {j \in InTheWay(s, p) : j >= i}
<1>1. InTheWay(s, p) \subseteq Slots
  BY SlotsAreNat DEF InTheWay
<1>2. left # {} => /\ Min(left) \in InTheWay(s, p) /\ Min(left) >= i
                   /\ \A j \in left : Min(left) <= j
  <2>1. left \in SUBSET Nat
    BY <1>1, SlotsAreNat
  <2> HIDE DEF left
  <2>2. left # {} => Min(left) \in left /\ \A j \in left : Min(left) <= j
    BY <2>1, MinIs
  <2> QED
    BY <2>2 DEF left
<1>3. retries \in 0 .. Retries /\ rounds \in 0 .. MaxRounds - 1
  BY DEF TypeOK
<1>4. CASE left = {} /\ ok
  <2>1. op' = [phase |-> "rmdir", drive |-> s, path |-> p] /\ retries' = Retries /\ rounds' = rounds
    BY <1>4 DEF SweepFrom
  <2> QED
    BY <1>3, <1>4, <2>1, NewOps
<1>5. CASE left = {} /\ ~ok
  <2>1. op' = Idle /\ retries' = 0 /\ rounds' = 0
    BY <1>5 DEF SweepFrom, Return
  <2> QED
    BY <2>1, NewOps
<1>6. CASE left # {}
  <2>1. /\ op' = [phase |-> "sweep", at |-> Min(left), drive |-> s, path |-> p, ok |-> ok]
        /\ retries' = retries /\ rounds' = rounds
    BY <1>6 DEF SweepFrom
  <2> HIDE DEF left
  <2>2. op' \in Operations
    BY <1>1, <1>2, <1>6, <2>1, NewOps2
  <2>3. \A j \in InTheWay(s, p) : j >= i => Min(left) <= j
    BY <1>2, <1>6 DEF left
  <2> QED
    BY <1>2, <1>3, <1>6, <2>1, <2>2, <2>3
<1> QED
  BY <1>4, <1>5, <1>6

----------------------------------------------------------------------------
(* Steps that leave searches and handles where they are                    *)

Kept ==
    /\ Active' = Active
    /\ \A i \in Active :
         /\ searches'[i].dta = searches[i].dta
         /\ searches'[i].drive = searches[i].drive
         /\ searches'[i].path = searches[i].path
         /\ searches'[i].pattern = searches[i].pattern
         /\ searches'[i].handle = searches[i].handle

SamePlaces ==
    \A s \in Drives, h \in Handles :
        /\ (dirs'[s][h] = None) <=> (dirs[s][h] = None)
        /\ dirs[s][h] # None => dirs'[s][h].path = dirs[s][h].path

LEMMA NothingMoves ==
  /\ UNCHANGED searches => Kept
  /\ UNCHANGED dirs => SamePlaces
  BY DEF Kept, SamePlaces, Active

\* A field of one search changes.
LEMMA FieldSet ==
  ASSUME TypeOK, NEW i \in Active, NEW u \in Search,
         searches' = [searches EXCEPT ![i] = u],
         u.dta = searches[i].dta, u.drive = searches[i].drive, u.path = searches[i].path,
         u.pattern = searches[i].pattern, u.handle = searches[i].handle
  PROVE  searches' \in Registry /\ Kept
<1>1. i \in Slots /\ u # None
  BY SearchIs
<1>2. searches' \in Registry
  BY <1>1 DEF TypeOK, Registry
<1>3. \A j \in Slots : searches'[j] = IF j = i THEN u ELSE searches[j]
  BY <1>1 DEF TypeOK
<1> QED
  BY <1>1, <1>2, <1>3 DEF Kept, Active

LEMMA EofSet ==
  ASSUME TypeOK, NEW i \in Active, NEW b \in BOOLEAN,
         searches' = [searches EXCEPT ![i].eof = b]
  PROVE  searches' \in Registry /\ Kept
<1> DEFINE u == [searches[i] EXCEPT !.eof = b]
<1>1. searches[i] \in Search /\ i \in Slots
  BY SearchIs
<1>2. /\ u \in Search
      /\ u.dta = searches[i].dta /\ u.drive = searches[i].drive /\ u.path = searches[i].path
      /\ u.pattern = searches[i].pattern /\ u.handle = searches[i].handle
  BY <1>1 DEF Search
<1>3. searches' = [searches EXCEPT ![i] = u]
  BY <1>1 DEF TypeOK
<1> HIDE DEF u
<1> QED
  BY <1>2, <1>3, FieldSet

LEMMA TouchedSet ==
  ASSUME TypeOK, NEW i \in Active, NEW n \in Nat,
         searches' = [searches EXCEPT ![i].touched = n]
  PROVE  searches' \in Registry /\ Kept
<1> DEFINE u == [searches[i] EXCEPT !.touched = n]
<1>1. searches[i] \in Search /\ i \in Slots
  BY SearchIs
<1>2. /\ u \in Search
      /\ u.dta = searches[i].dta /\ u.drive = searches[i].drive /\ u.path = searches[i].path
      /\ u.pattern = searches[i].pattern /\ u.handle = searches[i].handle
  BY <1>1 DEF Search
<1>3. searches' = [searches EXCEPT ![i] = u]
  BY <1>1 DEF TypeOK
<1> HIDE DEF u
<1> QED
  BY <1>2, <1>3, FieldSet

\* The server moves on in an open directory.
Advanced(a, b) == [dirs EXCEPT ![a][b].pos = @ + 1]

LEMMA PosMoves ==
  ASSUME TypeOK, NEW a \in Drives, NEW b \in Handles,
         dirs[a][b] # None, dirs[a][b].pos < Len(Dir[dirs[a][b].path]),
         dirs' = Advanced(a, b)
  PROVE  /\ dirs' \in [Drives -> [Handles -> OpenDir \cup {None}]] /\ SamePlaces
         /\ dirs'[a][b].pos = dirs[a][b].pos + 1 /\ dirs[a][b].pos \in Nat
         /\ dirs[a][b].pos + 1 \in Positions(dirs[a][b].path) /\ dirs[a][b].path \in Paths
         /\ \A s \in Drives, h \in Handles : ~(s = a /\ h = b) => dirs'[s][h] = dirs[s][h]
<1> DEFINE r == dirs[a][b]
           u == [r EXCEPT !.pos = r.pos + 1]
<1>1. r \in OpenDir
  BY DEF TypeOK
<1>2. /\ u \in OpenDir /\ u.path = r.path /\ u.pos = r.pos + 1
      /\ r.pos + 1 \in Positions(r.path) /\ r.path \in Paths /\ r.pos \in Nat
  BY <1>1, OpenDirIs
<1>3. dirs' = [dirs EXCEPT ![a][b] = u]
  BY DEF TypeOK, Advanced
<1> HIDE DEF u
<1>4. /\ dirs' \in [Drives -> [Handles -> OpenDir \cup {None}]]
      /\ \A s \in Drives, h \in Handles :
           dirs'[s][h] = IF s = a /\ h = b THEN u ELSE dirs[s][h]
  <2>1. dirs \in [Drives -> [Handles -> OpenDir \cup {None}]]
    BY DEF TypeOK
  <2>2. dirs' = [dirs EXCEPT ![a] = [dirs[a] EXCEPT ![b] = u]]
    BY <1>3
  <2>3. [dirs[a] EXCEPT ![b] = u] \in [Handles -> OpenDir \cup {None}]
    BY <1>2, <2>1
  <2>4. dirs' \in [Drives -> [Handles -> OpenDir \cup {None}]]
    BY <2>1, <2>2, <2>3
  <2>5. \A s \in Drives : dirs'[s] = IF s = a THEN [dirs[a] EXCEPT ![b] = u] ELSE dirs[s]
    BY <2>1, <2>2
  <2>6. \A h \in Handles : [dirs[a] EXCEPT ![b] = u][h] = IF h = b THEN u ELSE dirs[a][h]
    BY <2>1
  <2> QED
    BY <2>4, <2>5, <2>6
<1>5. dirs'[a][b] = u /\ u # None
  BY <1>2, <1>4
<1>6. SamePlaces
  BY <1>2, <1>4, <1>5 DEF SamePlaces
<1> QED
  BY <1>2, <1>4, <1>5, <1>6

LEMMA HandlesKept ==
  ASSUME TypeOK, HandlesInv, Kept, SamePlaces, UNCHANGED <<orphans, drift>>,
         op.phase # "replace", op'.phase # "replace",
         \A i \in Active : i \in Settled' => i \in Settled
  PROVE  HandlesInv'
<1> SUFFICES ASSUME ~drift, NEW s \in Drives, NEW h \in Handles
             PROVE  HandleInv(s, h)'
  BY DEF HandlesInv
<1>1. HandleInv(s, h)
  BY DEF HandlesInv
<1>2. \A i \in Active : Owns(i, s, h)' <=> Owns(i, s, h)
  BY DEF Kept, Owns
<1>3. \A i \in Settled' : i \in Active
  BY DEF Settled, Kept
<1> QED
  BY <1>1, <1>2, <1>3 DEF HandleInv, Kept, SamePlaces, New, Orphan, OnPath

\* What keeps searches and drives alive keeps the registry in order.
LEMMA RegistryKept ==
  ASSUME RegistryInv, Kept, live \subseteq live',
         \A i \in Active : searches[i].pattern \in Exact =>
             \/ op'.phase = "release" /\ op'.at = i
             \/ op'.phase = "read" /\ op'.at = i /\ op'.first
  PROVE  RegistryInv'
<1>1. Active' = Active
  BY DEF Kept
<1>2. \A i, j \in Active : searches'[i].dta = searches'[j].dta => i = j
  BY DEF Kept, RegistryInv
<1>3. \A i \in Active : searches'[i].drive \in live'
  BY DEF Kept, RegistryInv
<1>4. \A i \in Active : searches'[i].pattern = searches[i].pattern
  BY DEF Kept
<1> QED
  BY <1>1, <1>2, <1>3, <1>4 DEF RegistryInv

----------------------------------------------------------------------------
(* Reading                                                                 *)

\* How a round of reading leaves the operation.
Reads ==
    /\ op' \in Operations /\ retries' \in 0 .. Retries /\ rounds' \in 0 .. MaxRounds - 1
    /\ \/ op'.phase = "release" /\ op'.at = op.at
       \/ op' = op
       \/ op' = Idle /\ ~(op.first /\ searches[op.at].pattern \in Exact)

LEMMA ReadIs ==
  ASSUME TypeOK, op.phase = "read"
  PROVE  /\ Release(op.at) => Reads
         /\ Found => Reads
         /\ \A eof \in BOOLEAN : ReadOn(eof) => Reads
<1>1. op \in Operations /\ op.at \in Slots
  BY OpIs DEF TypeOK
<1>2. rounds \in 0 .. MaxRounds - 1
  BY DEF TypeOK
<1>3. Release(op.at) => Reads
  <2> SUFFICES ASSUME Release(op.at)
               PROVE  Reads
    OBVIOUS
  <2>1. op' = [phase |-> "release", at |-> op.at] /\ retries' = Retries /\ rounds' = 0
    BY DEF Release
  <2>2. op' \in Operations
    BY <1>1, <2>1, NewOps
  <2> QED
    BY <2>1, <2>2 DEF Reads
<1>4. Return /\ ~(op.first /\ searches[op.at].pattern \in Exact) => Reads
  BY NewOps DEF Return, Reads
<1>5. Found => Reads
  BY <1>3, <1>4 DEF Found
<1>6. ASSUME NEW eof \in BOOLEAN, ReadOn(eof)
      PROVE  Reads
  BY <1>1, <1>2, <1>3, <1>6 DEF ReadOn, Reads
<1> QED
  BY <1>3, <1>5, <1>6

LEMMA ReadKeeps ==
  ASSUME IInv, op.phase = "read", Reads, Kept, SamePlaces, UNCHANGED <<live, orphans, drift>>
  PROVE  OpInv' /\ RegistryInv' /\ HandlesInv'
<1> USE DEF IInv
<1>1. op.at \in Active /\ Active' = Active /\ op' \in Operations
  BY DEF OpInv, Kept, Reads
<1>2. op'.phase \in {"release", "read", "idle"} /\ (op'.phase # "idle" => op'.at = op.at)
  BY <1>1, NewOps DEF Reads
<1>3. OpInv'
  BY <1>1, <1>2 DEF OpInv
<1>4. RegistryInv'
  <2>1. ASSUME NEW i \in Active, searches[i].pattern \in Exact
        PROVE  \/ op'.phase = "release" /\ op'.at = i
               \/ op'.phase = "read" /\ op'.at = i /\ op'.first
    BY <2>1 DEF RegistryInv, Reads
  <2> QED
    BY <2>1, RegistryKept
<1>5. HandlesInv'
  BY <1>1, <1>2, HandlesKept DEF Settled
<1> QED
  BY <1>3, <1>4, <1>5

DtaTypeOK ==
    /\ live \subseteq Drives
    /\ searches \in Registry
    /\ touches \in Nat
    /\ op \in Operations
    /\ retries \in 0 .. Retries
    /\ rounds \in 0 .. MaxRounds - 1
    /\ dirs \in [Drives -> [Handles -> OpenDir \cup {None}]]
    /\ given \in [Dtas -> Positioned]
    /\ upset \subseteq Dtas
    /\ orphans \subseteq Drives \X Handles
    /\ drift \in BOOLEAN

LocalTypeOK ==
    /\ local \in [Kinds -> [LocalIndices -> Dtas \cup {None}]]
    /\ fatfs \subseteq Dtas
    /\ events \in 0 .. MaxEvents

LEMMA TypesApart == TypeOK <=> DtaTypeOK /\ LocalTypeOK
  BY DEF TypeOK, DtaTypeOK, LocalTypeOK, Registry, Positioned

\* All that a step has to preserve of module TnfsDta.
DtaInv == DtaTypeOK /\ OpInv /\ RegistryInv /\ HandlesInv

LEMMA ReadEntryStep ==
  ASSUME IInv, NEW last \in BOOLEAN, ReadEntry(last)
  PROVE  DtaInv'
<1> USE DEF IInv
<1>1. op.phase = "read" /\ op.at \in Active /\ DtaTypeOK
  BY TypesApart DEF ReadEntry, OpInv
<1> DEFINE x == searches[op.at]
           a == x.drive
           b == x.handle
           o == dirs[a][b]
<1>2. x \in Search /\ a \in Drives /\ b \in Handles /\ x.dta \in Dtas
  BY <1>1, SearchIs
<1>3. o # None /\ o.pos < Len(Dir[o.path]) /\ dirs' = Advanced(a, b)
  BY DEF ReadEntry, Advanced
<1>4. /\ dirs' \in [Drives -> [Handles -> OpenDir \cup {None}]] /\ SamePlaces
      /\ o.pos + 1 \in Positions(o.path) /\ o.path \in Paths
  BY <1>2, <1>3, PosMoves
<1>5. searches' \in Registry /\ Kept
  <2>1. searches' = [searches EXCEPT ![op.at].eof = last]
    BY DEF ReadEntry
  <2> QED
    BY <1>1, <2>1, EofSet
<1>6. given' \in [Dtas -> Positioned]
  <2>1. o.pos + 1 \in UNION {Positions(p) : p \in Paths}
    BY <1>4
  <2>2. given' = given \/ given' = [given EXCEPT ![x.dta] = @ \cup {o.pos + 1}]
    BY DEF ReadEntry
  <2> HIDE DEF o, x
  <2> QED
    BY <1>1, <1>2, <2>1, <2>2 DEF DtaTypeOK, Positioned
<1>7. Reads
  <2>1. Found \/ ReadOn(last)
    BY DEF ReadEntry
  <2> QED
    BY <1>1, <2>1, ReadIs
<1>8. UNCHANGED <<live, touches, upset, orphans, drift>>
  BY DEF ReadEntry
<1>9. DtaTypeOK'
  BY <1>1, <1>4, <1>5, <1>6, <1>7, <1>8 DEF DtaTypeOK, Reads
<1> QED
  BY <1>1, <1>4, <1>5, <1>7, <1>8, <1>9, ReadKeeps DEF DtaInv

LEMMA ReadEndsStep ==
  ASSUME IInv, ReadEnd \/ ReadFails
  PROVE  DtaInv'
<1> USE DEF IInv
<1>1. op.phase = "read" /\ op.at \in Active /\ DtaTypeOK
  BY TypesApart DEF ReadEnd, ReadFails, OpInv
<1>2. Reads /\ UNCHANGED <<live, touches, dirs, history>>
  BY <1>1, ReadIs DEF ReadEnd, ReadFails
<1>3. searches' \in Registry /\ Kept
  <2>1. searches' = [searches EXCEPT ![op.at].eof = TRUE] \/ searches' = searches
    BY DEF ReadEnd, ReadFails
  <2> QED
    BY <1>1, <2>1, EofSet, NothingMoves DEF DtaTypeOK
<1>4. DtaTypeOK'
  BY <1>1, <1>2, <1>3 DEF DtaTypeOK, Reads, history
<1> QED
  BY <1>1, <1>2, <1>3, <1>4, NothingMoves, ReadKeeps DEF DtaInv, history

LEMMA ReadTimeoutStep ==
  ASSUME IInv, ReadTimeout
  PROVE  DtaInv'
<1> USE DEF IInv
<1>1. op.phase = "read" /\ op.at \in Active /\ DtaTypeOK
  BY TypesApart DEF ReadTimeout, OpInv
<1> DEFINE x == searches[op.at]
           a == x.drive
           b == x.handle
<1>2. x \in Search /\ a \in Drives /\ b \in Handles /\ x.dta \in Dtas
  BY <1>1, SearchIs
<1>3. dirs' \in [Drives -> [Handles -> OpenDir \cup {None}]] /\ SamePlaces
  <2>1. CASE UNCHANGED dirs
    BY <1>1, <2>1, NothingMoves DEF DtaTypeOK
  <2>2. CASE ~UNCHANGED dirs
    <3>1. /\ dirs[a][b] # None /\ dirs[a][b].pos < Len(Dir[dirs[a][b].path])
          /\ dirs' = Advanced(a, b)
      BY <2>2 DEF ReadTimeout, Advanced
    <3> QED
      BY <1>2, <3>1, PosMoves
  <2> QED
    BY <2>1, <2>2
<1>4. UNCHANGED <<live, searches, touches, given, orphans, drift>> /\ upset' = upset \cup {x.dta}
  BY DEF ReadTimeout
<1>5. Reads
  <2>1. CASE retries > 0
    <3>1. op' = op /\ rounds' = rounds /\ retries' = retries - 1
      BY <2>1 DEF ReadTimeout
    <3> QED
      BY <1>1, <2>1, <3>1 DEF Reads, DtaTypeOK
  <2>2. CASE ~(retries > 0)
    BY <1>1, <2>2, ReadIs DEF ReadTimeout
  <2> QED
    BY <2>1, <2>2
<1>6. DtaTypeOK'
  BY <1>1, <1>2, <1>3, <1>4, <1>5 DEF DtaTypeOK, Reads
<1> QED
  BY <1>1, <1>3, <1>4, <1>5, <1>6, NothingMoves, ReadKeeps DEF DtaInv

----------------------------------------------------------------------------
(* Opening and registering                                                 *)

\* Of the handles the search in slot i gets n, and the others keep theirs.
HandedOver(i, n) ==
    \A s \in Drives, h \in Handles :
        /\ s = op.drive /\ h = n =>
               /\ dirs'[s][h] # None /\ dirs'[s][h].path = op.path
               /\ ~Orphan(s, h)'
               /\ \A j \in Active \ {i} : ~Owns(j, s, h)
        /\ ~(s = op.drive /\ h = n) =>
               /\ Orphan(s, h)' => dirs'[s][h] # None
               /\ dirs'[s][h] # None =>
                      Orphan(s, h)' \/ \E j \in Active \ {i} : Owns(j, s, h)
               /\ \A j \in Active \ {i} : Owns(j, s, h) =>
                      /\ ~Orphan(s, h)'
                      /\ dirs'[s][h] # None /\ dirs'[s][h].path = searches[j].path

LEMMA InstallStep ==
  ASSUME IInv, NEW i \in Slots, NEW n \in Handles,
         op.phase \in {"open", "replace"}, Install(i, op, n),
         dirs' \in [Drives -> [Handles -> OpenDir \cup {None}]],
         orphans' \subseteq Drives \X Handles, UNCHANGED <<live, drift>>,
         \A j \in Active \ {i} : searches[j].dta # op.dta,
         ~drift => HandedOver(i, n)
  PROVE  DtaInv'
<1> USE DEF IInv
<1>1. /\ searches' \in Registry /\ given' \in [Dtas -> Positioned] /\ upset' \subseteq Dtas
      /\ touches' \in Nat
      /\ Active' = Active \cup {i} /\ searches'[i] = Entry(op, n)
      /\ \A j \in Active \ {i} : searches'[j] = searches[j]
      /\ op' = [phase |-> "read", at |-> i, first |-> TRUE]
      /\ retries' = Retries /\ rounds' = 0
  BY InstallIs
<1>2. op' \in Operations /\ op'.phase = "read" /\ op'.at = i /\ op'.first = TRUE
  BY <1>1, NewOps
<1>3. /\ searches'[i].dta = op.dta /\ searches'[i].drive = op.drive /\ searches'[i].path = op.path
      /\ searches'[i].handle = n
  BY <1>1 DEF Entry
<1>4. DtaTypeOK'
  BY <1>1, <1>2, TypesApart DEF DtaTypeOK
<1>5. OpInv'
  BY <1>1, <1>2 DEF OpInv
<1>6. RegistryInv'
  <2>1. \A j \in Active : searches[j].drive \in live /\ searches[j].pattern \notin Exact
    BY DEF RegistryInv
  <2>2. op.drive \in live
    BY DEF OpInv
  <2>3. \A j, l \in Active' : searches'[j].dta = searches'[l].dta => j = l
    BY <1>1, <1>3 DEF RegistryInv
  <2>4. \A j \in Active' : searches'[j].drive \in live'
    BY <1>1, <1>3, <2>1, <2>2
  <2>5. \A j \in Active' : searches'[j].pattern \in Exact => j = i
    BY <1>1, <2>1
  <2> QED
    BY <1>2, <2>3, <2>4, <2>5 DEF RegistryInv
<1>7. ASSUME ~drift, NEW s \in Drives, NEW h \in Handles
      PROVE  HandleInv(s, h)'
  <2>1. ~New(s, h)' /\ Settled' = Active'
    BY <1>2 DEF New, Settled
  <2>2. HandleInv(s, h)
    BY <1>7 DEF HandlesInv
  <2>3. \A j \in Active \ {i} : Owns(j, s, h)' <=> Owns(j, s, h)
    BY <1>1 DEF Owns
  <2>4. Owns(i, s, h)' <=> s = op.drive /\ h = n
    BY <1>3 DEF Owns
  <2>5. CASE s = op.drive /\ h = n
    <3>1. /\ dirs'[s][h] # None /\ dirs'[s][h].path = op.path /\ ~Orphan(s, h)'
          /\ \A j \in Active \ {i} : ~Owns(j, s, h)
      BY <1>7, <2>5 DEF HandedOver
    <3>2. \A j \in Active' : Owns(j, s, h)' => j = i
      BY <1>1, <2>3, <3>1
    <3>3. dirs'[s][h] # None /\ dirs'[s][h].path = searches'[i].path
      BY <1>3, <3>1
    <3>4. Owns(i, s, h)' /\ i \in Active'
      BY <1>1, <2>4, <2>5
    <3> QED
      BY <2>1, <3>1, <3>2, <3>3, <3>4 DEF HandleInv, OnPath
  <2>6. CASE ~(s = op.drive /\ h = n)
    <3>1. /\ Orphan(s, h)' => dirs'[s][h] # None
          /\ dirs'[s][h] # None => Orphan(s, h)' \/ \E j \in Active \ {i} : Owns(j, s, h)
          /\ \A j \in Active \ {i} : Owns(j, s, h) =>
               ~Orphan(s, h)' /\ dirs'[s][h] # None /\ dirs'[s][h].path = searches[j].path
      BY <1>7, <2>6 DEF HandedOver
    <3>2. \A j, l \in Active : Owns(j, s, h) /\ Owns(l, s, h) => j = l
      BY <2>2 DEF HandleInv
    <3> QED
      BY <1>1, <2>1, <2>3, <2>4, <2>6, <3>1, <3>2 DEF HandleInv, OnPath
  <2> QED
    BY <2>5, <2>6
<1>8. HandlesInv'
  BY <1>7 DEF HandlesInv
<1> QED
  BY <1>4, <1>5, <1>6, <1>8 DEF DtaInv

\* The handle OPENDIRX gives was nobody's.
LEMMA OpenedIs ==
  ASSUME IInv, op.phase = "open", Opened(op.drive, op.path), NEW n, n = Min(Free(op.drive))
  PROVE  /\ n \in Handles /\ op.drive \in Drives /\ op.path \in Paths /\ op.dta \in Dtas
         /\ op.pattern \in Patterns /\ Settled = Active
         /\ dirs' \in [Drives -> [Handles -> OpenDir \cup {None}]]
         /\ dirs'[op.drive][n] # None /\ dirs'[op.drive][n].path = op.path
         /\ dirs'[op.drive][n].pos = 0
         /\ \A s \in Drives, h \in Handles :
              ~(s = op.drive /\ h = n) => dirs'[s][h] = dirs[s][h]
         /\ ~drift => ~Orphan(op.drive, n) /\ \A j \in Active : ~Owns(j, op.drive, n)
<1> USE DEF IInv
<1>1. /\ op.drive \in Drives /\ op.path \in Paths /\ op.dta \in Dtas /\ op.pattern \in Patterns
      /\ Settled = Active
  BY OpIs DEF TypeOK, Settled
<1>2. n \in Handles /\ dirs[op.drive][n] = None
  BY <1>1, FreeIs DEF Opened
<1> DEFINE r == [path |-> op.path, pos |-> 0]
<1>3. r \in OpenDir /\ r # None /\ r.path = op.path /\ r.pos = 0
  BY <1>1, OpenDirIs
<1>4. dirs' = [dirs EXCEPT ![op.drive][n] = r]
  BY DEF Opened
<1> HIDE DEF r
<1>5. /\ dirs' \in [Drives -> [Handles -> OpenDir \cup {None}]]
      /\ \A s \in Drives, h \in Handles :
           dirs'[s][h] = IF s = op.drive /\ h = n THEN r ELSE dirs[s][h]
  BY <1>1, <1>2, <1>3, <1>4, DirsSet
<1>6. ~drift => ~Orphan(op.drive, n) /\ \A j \in Active : ~Owns(j, op.drive, n)
  BY <1>1, <1>2 DEF HandlesInv, HandleInv, OnPath
<1> QED
  BY <1>1, <1>2, <1>3, <1>5, <1>6

LEMMA OpenAnsweredStep ==
  ASSUME IInv, OpenAnswered
  PROVE  DtaInv'
<1> USE DEF IInv
<1> DEFINE i == SlotFor(op.dta)
           n == Min(Free(op.drive))
<1>1. op.phase = "open" /\ Opened(op.drive, op.path) /\ UNCHANGED <<live, orphans, drift>>
  BY DEF OpenAnswered
<1>2. /\ n \in Handles /\ op.drive \in Drives /\ op.path \in Paths /\ op.dta \in Dtas
      /\ op.pattern \in Patterns /\ Settled = Active
      /\ dirs' \in [Drives -> [Handles -> OpenDir \cup {None}]]
      /\ dirs'[op.drive][n] # None /\ dirs'[op.drive][n].path = op.path
      /\ dirs'[op.drive][n].pos = 0
      /\ \A s \in Drives, h \in Handles : ~(s = op.drive /\ h = n) => dirs'[s][h] = dirs[s][h]
      /\ ~drift => ~Orphan(op.drive, n) /\ \A j \in Active : ~Owns(j, op.drive, n)
  BY <1>1, OpenedIs
<1>3. /\ i \in Slots
      /\ searches[i] # None /\ searches[i].dta # op.dta => Registered(op.dta) = {}
      /\ searches[i] = None => Registered(op.dta) = {}
  BY <1>2, SlotForIs
<1>4. \A s \in Drives, h \in Handles : Orphan(s, h)' <=> Orphan(s, h)
  BY <1>1 DEF Orphan
<1>5. DtaTypeOK
  BY TypesApart
<1>6. CASE searches[i] = None
  <2>1. Install(i, op, n)
    BY <1>6 DEF OpenAnswered
  <2>2. Active \ {i} = Active /\ \A j \in Active : searches[j].dta # op.dta
    BY <1>3, <1>6 DEF Active, Registered
  <2>3. ASSUME ~drift, NEW s \in Drives, NEW h \in Handles, ~(s = op.drive /\ h = n)
        PROVE  /\ Orphan(s, h)' => dirs'[s][h] # None
               /\ dirs'[s][h] # None => Orphan(s, h)' \/ \E j \in Active : Owns(j, s, h)
               /\ \A j \in Active : Owns(j, s, h) =>
                    ~Orphan(s, h)' /\ dirs'[s][h] # None /\ dirs'[s][h].path = searches[j].path
    <3>1. HandleInv(s, h) /\ ~New(s, h) /\ dirs'[s][h] = dirs[s][h]
      BY <1>1, <1>2, <2>3 DEF HandlesInv, New
    <3> QED
      BY <1>2, <1>4, <3>1 DEF HandleInv, OnPath
  <2> HIDE DEF i, n
  <2>4. ~drift => HandedOver(i, n)
    <3> SUFFICES ASSUME ~drift, NEW s \in Drives, NEW h \in Handles
                 PROVE  HandedOver(i, n)!(s, h)
      BY DEF HandedOver
    <3>1. CASE s = op.drive /\ h = n
      BY <1>2, <1>4, <2>2, <3>1
    <3>2. CASE ~(s = op.drive /\ h = n)
      BY <2>2, <2>3, <3>2
    <3> QED
      BY <3>1, <3>2
  <2>5. orphans' \subseteq Drives \X Handles
    BY <1>1, <1>5 DEF DtaTypeOK
  <2> QED
    BY <1>1, <1>2, <1>3, <2>1, <2>2, <2>4, <2>5, InstallStep
<1>7. CASE searches[i] # None
  <2>1. /\ op' = [phase |-> "replace", dta |-> op.dta, drive |-> op.drive, path |-> op.path,
                  pattern |-> op.pattern, handle |-> n, at |-> i]
        /\ retries' = Retries /\ UNCHANGED <<searches, touches, rounds, given, upset>>
    BY <1>7 DEF OpenAnswered
  <2> HIDE DEF i, n
  <2>2. /\ op' \in Operations /\ op'.phase = "replace" /\ op'.at = i /\ op'.dta = op.dta
        /\ op'.drive = op.drive /\ op'.path = op.path /\ op'.handle = n
    BY <1>2, <1>3, <2>1, NewOps2
  <2>3. Active' = Active /\ i \in Active
    BY <1>3, <1>7, <2>1 DEF Active
  <2>4. DtaTypeOK'
    BY <1>1, <1>2, <1>5, <2>1, <2>2 DEF DtaTypeOK
  <2>5. OpInv'
    <3>1. Registered(op.dta)' = Registered(op.dta)
      BY <2>1, <2>3 DEF Registered
    <3>2. op.drive \in live
      BY <1>1 DEF OpInv
    <3> QED
      BY <1>1, <1>3, <1>7, <2>1, <2>2, <2>3, <3>1, <3>2 DEF OpInv, Registered
  <2>6. RegistryInv'
    BY <1>1, <2>1, <2>3 DEF RegistryInv
  <2>7. ASSUME ~drift, NEW s \in Drives, NEW h \in Handles
        PROVE  HandleInv(s, h)'
    <3>1. HandleInv(s, h) /\ ~New(s, h)
      BY <1>1, <2>7 DEF HandlesInv, New
    <3>2. New(s, h)' <=> s = op.drive /\ h = n
      BY <2>2 DEF New
    <3>3. /\ \A j \in Active : Owns(j, s, h)' <=> Owns(j, s, h)
          /\ \A j \in Settled' : j \in Active
      BY <2>1, <2>3 DEF Owns, Settled
    <3>4. CASE s = op.drive /\ h = n
      BY <1>2, <1>4, <2>1, <2>2, <2>3, <2>7, <3>1, <3>2, <3>3, <3>4 DEF HandleInv, OnPath
    <3>5. CASE ~(s = op.drive /\ h = n)
      BY <1>2, <1>4, <2>1, <2>3, <3>1, <3>2, <3>3, <3>5 DEF HandleInv, OnPath
    <3> QED
      BY <3>4, <3>5
  <2> QED
    BY <1>1, <2>4, <2>5, <2>6, <2>7 DEF DtaInv, HandlesInv
<1> QED
  BY <1>6, <1>7

LEMMA OpenEndsStep ==
  ASSUME IInv, OpenFails \/ OpenTimeout
  PROVE  DtaInv'
<1> USE DEF IInv
<1>1. /\ op.phase = "open" /\ DtaTypeOK
      /\ UNCHANGED <<live, searches, touches, given, upset, drift>>
  BY TypesApart DEF OpenFails, OpenTimeout, history
<1>2. /\ op' \in Operations /\ retries' \in 0 .. Retries /\ rounds' \in 0 .. MaxRounds - 1
      /\ op' = op \/ op' = Idle
  <2>1. CASE Return
    BY <2>1, NewOps DEF Return
  <2>2. CASE retries > 0 /\ retries' = retries - 1 /\ UNCHANGED <<op, rounds>>
    BY <1>1, <2>2 DEF DtaTypeOK
  <2> QED
    BY <2>1, <2>2 DEF OpenFails, OpenTimeout
<1>3. op'.phase \in {"open", "idle"} /\ Active' = Active
  BY <1>1, <1>2, NewOps DEF Active
<1>4. OpInv' /\ RegistryInv'
  <2>1. RegistryInv'
    BY <1>1, <1>3 DEF RegistryInv
  <2>2. \/ op'.phase = "idle"
        \/ op'.phase = "open" /\ op'.drive \in live'
    BY <1>1, <1>2, NewOps DEF OpInv
  <2>3. OpInv'
    BY <2>2 DEF OpInv
  <2> QED
    BY <2>1, <2>3
<1>5. CASE UNCHANGED <<dirs, orphans>>
  <2>1. HandlesInv'
    BY <1>1, <1>3, <1>5, NothingMoves, HandlesKept DEF Settled
  <2> QED
    BY <1>1, <1>2, <1>4, <1>5, <2>1 DEF DtaInv, DtaTypeOK
<1>6. CASE ~UNCHANGED <<dirs, orphans>>
  <2> DEFINE n == Min(Free(op.drive))
  <2>1. Opened(op.drive, op.path) /\ orphans' = orphans \cup {<<op.drive, n>>}
    BY <1>6 DEF OpenFails, OpenTimeout, history
  <2>2. /\ n \in Handles /\ op.drive \in Drives /\ Settled = Active
        /\ dirs' \in [Drives -> [Handles -> OpenDir \cup {None}]]
        /\ dirs'[op.drive][n] # None
        /\ \A s \in Drives, h \in Handles : ~(s = op.drive /\ h = n) => dirs'[s][h] = dirs[s][h]
        /\ ~drift => ~Orphan(op.drive, n) /\ \A j \in Active : ~Owns(j, op.drive, n)
    BY <1>1, <2>1, OpenedIs
  <2> HIDE DEF n
  <2>3. \A s \in Drives, h \in Handles : Orphan(s, h)' <=> Orphan(s, h) \/ (s = op.drive /\ h = n)
    BY <2>1 DEF Orphan
  <2>4. DtaTypeOK'
    BY <1>1, <1>2, <2>1, <2>2 DEF DtaTypeOK
  <2>5. ASSUME ~drift, NEW s \in Drives, NEW h \in Handles
        PROVE  HandleInv(s, h)'
    <3>1. HandleInv(s, h) /\ ~New(s, h) /\ ~New(s, h)'
      BY <1>1, <1>3, <2>5 DEF HandlesInv, New
    <3>2. /\ \A j \in Active : Owns(j, s, h)' <=> Owns(j, s, h)
          /\ Settled' = Active
      BY <1>1, <1>3 DEF Owns, Settled
    <3>3. CASE s = op.drive /\ h = n
      BY <1>1, <1>3, <2>2, <2>3, <2>5, <3>1, <3>2, <3>3 DEF HandleInv, OnPath
    <3>4. CASE ~(s = op.drive /\ h = n)
      BY <1>1, <1>3, <2>2, <2>3, <3>1, <3>2, <3>4 DEF HandleInv, OnPath
    <3> QED
      BY <3>3, <3>4
  <2> QED
    BY <1>1, <1>4, <2>4, <2>5 DEF DtaInv, HandlesInv
<1> QED
  BY <1>5, <1>6

----------------------------------------------------------------------------
(* Closing                                                                 *)

\* The running operation closes the handle of the search at op.at, or not.
At(s, h) == Owns(op.at, s, h)

LEMMA ClosedIs ==
  ASSUME TypeOK, op.at \in Active
  PROVE  /\ Closed \in [Drives -> [Handles -> OpenDir \cup {None}]]
         /\ \A s \in Drives, h \in Handles :
              Closed[s][h] = IF At(s, h) THEN None ELSE dirs[s][h]
<1> DEFINE a == searches[op.at].drive
           b == searches[op.at].handle
<1>1. a \in Drives /\ b \in Handles
  BY SearchIs
<1>3. Closed = [dirs EXCEPT ![a][b] = None]
  BY DEF Closed
<1>4. /\ Closed \in [Drives -> [Handles -> OpenDir \cup {None}]]
      /\ \A s \in Drives, h \in Handles :
           Closed[s][h] = IF s = a /\ h = b THEN None ELSE dirs[s][h]
  BY <1>1, <1>3, DirsSet
<1>5. \A s, h : At(s, h) <=> s = a /\ h = b
  BY DEF At, Owns
<1> HIDE DEF a, b
<1> QED
  BY <1>4, <1>5

\* A handle that is given up is closed, or nobody's from now on.
GivenUp ==
    /\ dirs' \in [Drives -> [Handles -> OpenDir \cup {None}]]
    /\ orphans' \subseteq Drives \X Handles
    /\ UNCHANGED <<live, drift>>
    /\ ~drift =>
         \A s \in Drives, h \in Handles :
           /\ ~At(s, h) => dirs'[s][h] = dirs[s][h] /\ (Orphan(s, h)' <=> Orphan(s, h))
           /\ At(s, h) => (Orphan(s, h)' <=> dirs'[s][h] # None)

LEMMA GivesUp ==
  ASSUME IInv, op.at \in Active, CloseAnswered \/ CloseGivesUp(dirs) \/ CloseGivesUp(Closed)
  PROVE  GivenUp /\ Proceed
<1> USE DEF IInv
<1> DEFINE a == searches[op.at].drive
           b == searches[op.at].handle
<1>1. a \in Drives /\ b \in Handles
  BY SearchIs
<1>2. \A s, h : At(s, h) <=> s = a /\ h = b
  BY DEF At, Owns
<1>3. \/ dirs' = Closed /\ UNCHANGED orphans
      \/ /\ dirs' \in {dirs, Closed}
         /\ orphans' = IF dirs'[a][b] = None THEN orphans ELSE orphans \cup {<<a, b>>}
  BY DEF CloseAnswered, CloseGivesUp
<1>4. UNCHANGED <<live, drift>> /\ Proceed
  BY DEF CloseAnswered, CloseGivesUp
<1>5. dirs' \in {dirs, Closed}
  BY <1>3
<1>6. /\ dirs' \in [Drives -> [Handles -> OpenDir \cup {None}]]
      /\ \A s \in Drives, h \in Handles : ~At(s, h) => dirs'[s][h] = dirs[s][h]
      /\ dirs' = Closed => dirs'[a][b] = None
  <2>1. CASE dirs' = Closed
    BY <1>1, <1>2, <2>1, ClosedIs
  <2>2. CASE dirs' = dirs /\ dirs # Closed
    BY <2>2 DEF TypeOK
  <2> QED
    BY <1>5, <2>1, <2>2
<1>7. orphans' = IF dirs'[a][b] = None THEN orphans ELSE orphans \cup {<<a, b>>}
  BY <1>3, <1>6
<1>8. orphans' \subseteq Drives \X Handles
  BY <1>1, <1>7 DEF TypeOK
<1>9. ASSUME ~drift, NEW s \in Drives, NEW h \in Handles
      PROVE  /\ ~At(s, h) => (Orphan(s, h)' <=> Orphan(s, h))
             /\ At(s, h) => (Orphan(s, h)' <=> dirs'[s][h] # None)
  <2>1. At(s, h) => ~Orphan(s, h)
    BY <1>9 DEF HandlesInv, HandleInv, At
  <2> HIDE DEF a, b
  <2>2. Orphan(s, h)' <=> Orphan(s, h) \/ (dirs'[a][b] # None /\ s = a /\ h = b)
    BY <1>7 DEF Orphan
  <2> QED
    BY <1>2, <2>1, <2>2
<1> QED
  BY <1>4, <1>6, <1>8, <1>9 DEF GivenUp

\* A search whose handle is given up goes, or makes room for the new one.
LEMMA DropsStep ==
  ASSUME IInv, op.at \in Active, op.phase # "replace", GivenUp, Drop(op.at),
         op' \in Operations, retries' \in 0 .. Retries, rounds' \in 0 .. MaxRounds - 1,
         touches' = touches,
         op'.phase # "replace", OpInv',
         \A i \in Active : searches[i].pattern \in Exact => i = op.at,
         \A i \in Active \ {op.at} : i \in Settled
  PROVE  DtaInv'
<1> USE DEF IInv
<1>1. /\ searches' \in Registry /\ given' \in [Dtas -> Positioned] /\ upset' \subseteq Dtas
      /\ Active' = Active \ {op.at}
      /\ \A j \in Active \ {op.at} : searches'[j] = searches[j]
  BY DropIs
<1>2. DtaTypeOK'
  BY <1>1, TypesApart DEF DtaTypeOK, GivenUp
<1>3. RegistryInv'
  <2>1. live' = live
    BY DEF GivenUp
  <2>2. \A i \in Active' : searches'[i].pattern \notin Exact /\ searches'[i].drive \in live
    BY <1>1 DEF RegistryInv
  <2>3. \A i, j \in Active' : searches'[i].dta = searches'[j].dta => i = j
    BY <1>1 DEF RegistryInv
  <2> QED
    BY <2>1, <2>2, <2>3 DEF RegistryInv
<1>4. ASSUME ~drift, NEW s \in Drives, NEW h \in Handles
      PROVE  HandleInv(s, h)'
  <2>1. HandleInv(s, h) /\ ~New(s, h) /\ ~New(s, h)'
    BY <1>4 DEF HandlesInv, New
  <2>2. /\ \A j \in Active' : j \in Active /\ j # op.at /\ (Owns(j, s, h)' <=> Owns(j, s, h))
        /\ \A j \in Active' : searches'[j].path = searches[j].path /\ j \in Settled
        /\ Settled' \subseteq Active'
    BY <1>1 DEF Owns, Settled
  <2>3. CASE At(s, h)
    <3>1. Orphan(s, h)' <=> dirs'[s][h] # None
      BY <1>4, <2>3 DEF GivenUp
    <3>2. \A j \in Active' : ~Owns(j, s, h)'
      BY <2>1, <2>2, <2>3 DEF HandleInv, At
    <3> QED
      BY <2>1, <2>2, <3>1, <3>2 DEF HandleInv
  <2>4. CASE ~At(s, h)
    <3>1. dirs'[s][h] = dirs[s][h] /\ (Orphan(s, h)' <=> Orphan(s, h))
      BY <1>4, <2>4 DEF GivenUp
    <3>2. dirs[s][h] # None => Orphan(s, h) \/ \E j \in Active' : Owns(j, s, h)'
      BY <1>1, <2>1, <2>2, <2>4 DEF HandleInv, At
    <3> QED
      BY <2>1, <2>2, <3>1, <3>2 DEF HandleInv, OnPath
  <2> QED
    BY <2>3, <2>4
<1>5. HandlesInv'
  BY <1>4 DEF HandlesInv, GivenUp
<1> QED
  BY <1>2, <1>3, <1>5 DEF DtaInv

LEMMA ProceedStep ==
  ASSUME IInv, Closing, GivenUp, Proceed
  PROVE  DtaInv'
<1> USE DEF IInv
<1>1. op.at \in Active /\ op.at \in Nat /\ DtaTypeOK
  BY SlotsAreNat, TypesApart DEF Closing, OpInv
<1>2. CASE op.phase = "replace"
  <2>1. /\ Install(op.at, op, op.handle) /\ op.handle \in Handles /\ op.at \in Slots
        /\ op.drive \in Drives /\ op.path \in Paths
    BY <1>2, OpIs DEF Proceed, TypeOK
  <2>2. \A j \in Active \ {op.at} : searches[j].dta # op.dta
    BY <1>1, <1>2 DEF OpInv, RegistryInv, Registered
  <2>3. ~drift => HandedOver(op.at, op.handle)
    <3> SUFFICES ASSUME ~drift, NEW s \in Drives, NEW h \in Handles
                 PROVE  HandedOver(op.at, op.handle)!(s, h)
      BY DEF HandedOver
    <3>1. HandleInv(s, h) /\ (New(s, h) <=> s = op.drive /\ h = op.handle)
      BY <1>2 DEF HandlesInv, New
    <3>2. \A j \in Active \ {op.at} : j \in Settled
      BY DEF Settled
    <3>3. CASE s = op.drive /\ h = op.handle
      <4>1. ~At(s, h) /\ \A j \in Active : ~Owns(j, s, h)
        BY <1>1, <3>1, <3>3 DEF HandleInv, At
      <4>2. dirs'[s][h] = dirs[s][h] /\ (Orphan(s, h)' <=> Orphan(s, h))
        BY <4>1 DEF GivenUp
      <4> QED
        BY <3>1, <3>3, <4>1, <4>2 DEF HandleInv, OnPath
    <3>4. CASE ~(s = op.drive /\ h = op.handle)
      <4>1. CASE At(s, h)
        <5>1. Orphan(s, h)' <=> dirs'[s][h] # None
          BY <4>1 DEF GivenUp
        <5>2. \A j \in Active \ {op.at} : ~Owns(j, s, h)
          BY <1>1, <3>1, <4>1 DEF HandleInv, At
        <5> QED
          BY <3>4, <5>1, <5>2
      <4>2. CASE ~At(s, h)
        <5>1. dirs'[s][h] = dirs[s][h] /\ (Orphan(s, h)' <=> Orphan(s, h))
          BY <4>2 DEF GivenUp
        <5>2. dirs[s][h] # None => Orphan(s, h) \/ \E j \in Active \ {op.at} : Owns(j, s, h)
          BY <3>1, <3>4, <4>2 DEF HandleInv, At
        <5> QED
          BY <3>1, <3>2, <3>4, <5>1, <5>2 DEF HandleInv, OnPath
      <4> QED
        BY <4>1, <4>2
    <3> QED
      BY <3>3, <3>4
  <2> QED
    BY <1>2, <2>1, <2>2, <2>3, InstallStep DEF GivenUp
<1>3. CASE op.phase = "release"
  <2>1. Drop(op.at) /\ Return /\ touches' = touches
    BY <1>3 DEF Proceed
  <2>2. op' \in Operations /\ op'.phase = "idle" /\ retries' \in 0 .. Retries /\ rounds' \in 0 .. MaxRounds - 1
    BY <2>1, NewOps DEF Return
  <2>3. OpInv'
    BY <2>2 DEF OpInv
  <2>4. \A i \in Active : searches[i].pattern \in Exact => i = op.at
    BY <1>3 DEF RegistryInv
  <2>5. \A i \in Active \ {op.at} : i \in Settled
    BY DEF Settled
  <2> QED
    BY <1>1, <1>3, <2>1, <2>2, <2>3, <2>4, <2>5, DropsStep
<1>4. CASE op.phase = "flush"
  <2>1. Drop(op.at) /\ FlushFrom(op.at + 1) /\ UNCHANGED <<rounds, touches>>
    BY <1>4 DEF Proceed
  <2>2. /\ op' \in Operations /\ retries' \in 0 .. Retries
        /\ \/ op'.phase = "remount" /\ \A j \in Active : ~(j >= op.at + 1)
           \/ /\ op'.phase = "flush" /\ op'.at \in Active /\ op'.at >= op.at + 1
              /\ \A j \in Active : j >= op.at + 1 => op'.at <= j
    BY <1>1, <2>1, FlushFromIs
  <2>3. Active' = Active \ {op.at}
    BY <1>1, <2>1, DropIs
  <2>4. \A j \in Active' : j \in Nat /\ j >= op.at + 1
    BY <1>1, <1>4, <2>3, SlotsAreNat DEF OpInv
  <2>5. \/ op'.phase = "remount" /\ Active' = {}
        \/ op'.phase = "flush" /\ op'.at \in Active' /\ \A j \in Active' : op'.at <= j
    <3>1. CASE op'.phase = "remount" /\ \A j \in Active : ~(j >= op.at + 1)
      BY <2>3, <2>4, <3>1
    <3>2. CASE /\ op'.phase = "flush" /\ op'.at \in Active /\ op'.at >= op.at + 1
               /\ \A j \in Active : j >= op.at + 1 => op'.at <= j
      <4>1. op'.at # op.at
        BY <1>1, <3>2, SlotsAreNat
      <4> QED
        BY <2>3, <2>4, <3>2, <4>1
    <3> QED
      BY <2>2, <3>1, <3>2
  <2>6. OpInv'
    BY <2>5 DEF OpInv
  <2>7. \A i \in Active : searches[i].pattern \in Exact => i = op.at
    BY <1>4 DEF RegistryInv
  <2>8. \A i \in Active \ {op.at} : i \in Settled
    BY DEF Settled
  <2>9. rounds' \in 0 .. MaxRounds - 1
    BY <1>1, <2>1 DEF DtaTypeOK
  <2> QED
    BY <1>1, <1>4, <2>1, <2>2, <2>5, <2>6, <2>7, <2>8, <2>9, DropsStep
<1> QED
  BY <1>2, <1>3, <1>4 DEF Closing

LEMMA CloseStep ==
  ASSUME IInv, CloseAnswered \/ CloseNotSent \/ CloseTimeout
  PROVE  DtaInv'
<1> USE DEF IInv
<1>1. Closing /\ op.at \in Active /\ DtaTypeOK
  BY TypesApart DEF CloseAnswered, CloseNotSent, CloseTimeout, Closing, OpInv
<1>2. CASE CloseAnswered \/ CloseGivesUp(dirs) \/ CloseGivesUp(Closed)
  BY <1>1, <1>2, GivesUp, ProceedStep
<1>3. CASE ~(CloseAnswered \/ CloseGivesUp(dirs) \/ CloseGivesUp(Closed))
  <2>1. /\ retries > 0 /\ dirs' \in {dirs, Closed} /\ retries' = retries - 1
        /\ UNCHANGED <<live, searches, touches, op, rounds, history>>
    BY <1>3 DEF CloseNotSent, CloseTimeout
  <2>2. /\ dirs' \in [Drives -> [Handles -> OpenDir \cup {None}]]
        /\ \A s \in Drives, h \in Handles :
             /\ ~At(s, h) => dirs'[s][h] = dirs[s][h]
             /\ dirs'[s][h] # None => dirs'[s][h] = dirs[s][h]
    <3>1. CASE dirs' = dirs
      BY <1>1, <3>1 DEF DtaTypeOK
    <3>2. CASE dirs' = Closed
      BY <1>1, <3>2, ClosedIs
    <3> QED
      BY <2>1, <3>1, <3>2
  <2>3. DtaTypeOK'
    BY <1>1, <2>1, <2>2 DEF DtaTypeOK, history
  <2>4. Active' = Active
    BY <2>1 DEF Active
  <2>5. OpInv'
    BY <1>1, <2>1, <2>4 DEF OpInv, Registered, InTheWay
  <2>6. RegistryInv'
    BY <2>1, <2>4 DEF RegistryInv
  <2>7. ASSUME ~drift, NEW s \in Drives, NEW h \in Handles
        PROVE  HandleInv(s, h)'
    <3>1. HandleInv(s, h) /\ (New(s, h)' <=> New(s, h)) /\ (Orphan(s, h)' <=> Orphan(s, h))
      BY <2>1, <2>7 DEF HandlesInv, New, Orphan, history
    <3>2. /\ \A j \in Active : Owns(j, s, h)' <=> Owns(j, s, h)
          /\ Settled' = Settled /\ Settled \subseteq Active \ {op.at}
      BY <1>1, <2>1, <2>4 DEF Owns, Settled, Closing
    <3>3. CASE At(s, h)
      <4>1. \A j \in Active : Owns(j, s, h) => j = op.at
        BY <1>1, <3>1, <3>3 DEF HandleInv, At
      <4>2. ~Orphan(s, h) /\ ~New(s, h)
        BY <1>1, <3>1, <3>3 DEF HandleInv, At
      <4> QED
        BY <1>1, <2>2, <2>4, <3>1, <3>2, <3>3, <4>1, <4>2 DEF HandleInv, At
    <3>4. CASE ~At(s, h)
      BY <2>1, <2>2, <2>4, <3>1, <3>2, <3>4 DEF HandleInv, OnPath
    <3> QED
      BY <3>3, <3>4
  <2>8. HandlesInv'
    BY <2>1, <2>7 DEF HandlesInv, history
  <2> QED
    BY <2>3, <2>5, <2>6, <2>8 DEF DtaInv
<1> QED
  BY <1>2, <1>3

----------------------------------------------------------------------------
(* Ddelete                                                                 *)

LEMMA SweepStep ==
  ASSUME IInv, SweepConfirmed \/ SweepFails \/ SweepTimeout
  PROVE  DtaInv'
<1> USE DEF IInv
<1>1. /\ op.phase = "sweep" /\ op.at \in Active /\ op.at \in Nat /\ DtaTypeOK
      /\ op.drive \in Drives /\ op.path \in Paths /\ op.ok \in BOOLEAN
      /\ op.at \in InTheWay(op.drive, op.path)
  BY SlotsAreNat, TypesApart, OpIs
     DEF SweepConfirmed, SweepFails, SweepTimeout, OpInv, TypeOK
<1> DEFINE way == InTheWay(op.drive, op.path)
<1>2. PICK ok \in BOOLEAN : /\ SweepFrom(op.drive, op.path, op.at + 1, ok)
                            /\ ok => op.ok /\ SweepConfirmed
  <2>1. (op.ok /\ FALSE) \in BOOLEAN /\ (op.ok /\ TRUE) \in BOOLEAN
    BY <1>1
  <2>2. CASE SweepConfirmed
    <3>1. SweepFrom(op.drive, op.path, op.at + 1, op.ok /\ TRUE)
      BY <2>2 DEF SweepConfirmed, Sweep
    <3> QED
      BY <2>1, <2>2, <3>1, Zenon
  <2>3. CASE SweepFails \/ SweepTimeout
    <3>1. SweepFrom(op.drive, op.path, op.at + 1, op.ok /\ FALSE)
      BY <2>3 DEF SweepFails, SweepTimeout, Sweep
    <3> QED
      BY <2>1, <3>1, Zenon
  <2> QED
    BY <2>2, <2>3
<1>3. /\ op' \in Operations /\ retries' \in 0 .. Retries /\ rounds' \in 0 .. MaxRounds - 1
      /\ \/ op' = Idle
         \/ /\ op'.phase = "rmdir" /\ op'.drive = op.drive /\ op'.path = op.path /\ ok
            /\ \A j \in way : ~(j >= op.at + 1)
         \/ /\ op'.phase = "sweep" /\ op'.drive = op.drive /\ op'.path = op.path /\ op'.ok = ok
            /\ op'.at \in way /\ op'.at >= op.at + 1
            /\ \A j \in way : j >= op.at + 1 => op'.at <= j
  BY <1>1, <1>2, SweepFromIs
<1>4. op'.phase \in {"idle", "rmdir", "sweep"}
  BY <1>3, NewOps
<1>5. way \subseteq Active /\ \A i \in Active : searches[i].pattern \notin Exact
  BY <1>1 DEF InTheWay, RegistryInv
<1>6. CASE SweepConfirmed
  <2>1. dirs' = Closed /\ Drop(op.at) /\ UNCHANGED <<live, touches, orphans, drift>>
    BY <1>6 DEF SweepConfirmed
  <2>2. GivenUp
    <3>1. /\ dirs' \in [Drives -> [Handles -> OpenDir \cup {None}]]
          /\ \A s \in Drives, h \in Handles :
               dirs'[s][h] = IF At(s, h) THEN None ELSE dirs[s][h]
      BY <1>1, <2>1, ClosedIs
    <3>2. ~drift => \A s \in Drives, h \in Handles : At(s, h) => ~Orphan(s, h)
      BY <1>1 DEF HandlesInv, HandleInv, At
    <3>3. \A s, h : Orphan(s, h)' <=> Orphan(s, h)
      BY <2>1 DEF Orphan
    <3> QED
      BY <1>1, <2>1, <3>1, <3>2, <3>3 DEF GivenUp, DtaTypeOK
  <2>3. Active' = Active \ {op.at} /\ \A j \in Active \ {op.at} : searches'[j] = searches[j]
    BY <1>1, <2>1, DropIs
  <2>4. \A s \in Drives, p \in Paths : InTheWay(s, p)' = InTheWay(s, p) \ {op.at}
    BY <2>3 DEF InTheWay
  <2>5. \A j \in way : j \in Nat
    BY <1>5, SlotsAreNat
  <2>6. op.ok => \A j \in way : op.at <= j
    BY <1>1 DEF OpInv
  <2> HIDE DEF way
  <2>7. \A j \in way \ {op.at} : op.ok => j >= op.at + 1
    BY <1>1, <2>5, <2>6
  <2>8. \/ op'.phase = "idle"
        \/ /\ op'.phase = "rmdir" /\ op'.drive = op.drive /\ op'.path = op.path
           /\ way \ {op.at} = {}
        \/ /\ op'.phase = "sweep" /\ op'.drive = op.drive /\ op'.path = op.path
           /\ op'.at \in way \ {op.at}
           /\ op'.ok => \A j \in way \ {op.at} : op'.at <= j
    <3>1. ok => op.ok
      BY <1>2
    <3>2. ASSUME op'.phase = "sweep"
          PROVE  op'.at # op.at
      BY <1>1, <1>3, <2>5, <3>2, NewOps
    <3> QED
      BY <1>3, <1>4, <2>7, <3>1, <3>2, NewOps
  <2>9. op'.phase \in {"rmdir", "sweep"} => InTheWay(op.drive, op.path)' = way \ {op.at}
    <3>1. \A s \in Drives, p \in Paths : s = op.drive /\ p = op.path =>
             InTheWay(s, p)' = way \ {op.at}
      BY <2>4 DEF way
    <3>2. \A s \in Drives, p \in Paths : s = op'.drive /\ p = op'.path =>
             InTheWay(s, p)' = InTheWay(op.drive, op.path)'
      BY DEF InTheWay
    <3> QED
      BY <1>1, <2>8, <3>1, <3>2
  <2>10. OpInv'
    <3>1. way \ {op.at} \subseteq Active'
      BY <1>5, <2>3
    <3> QED
      BY <2>8, <2>9, <3>1 DEF OpInv
  <2>11. \A i \in Active \ {op.at} : i \in Settled
    BY DEF Settled
  <2> QED
    BY <1>1, <1>3, <1>4, <1>5, <2>1, <2>2, <2>10, <2>11, DropsStep
<1>7. CASE SweepFails \/ SweepTimeout
  <2>1. ~ok /\ UNCHANGED <<live, searches, touches, given, upset, orphans>>
    <3>1. UNCHANGED <<live, searches, touches, given, upset, orphans>>
      BY <1>7 DEF SweepFails, SweepTimeout, history
    <3>2. ASSUME SweepConfirmed
          PROVE  FALSE
      <4>1. searches' = [searches EXCEPT ![op.at] = None] /\ op.at \in Slots
        BY <1>1, <3>2, SlotsAreNat DEF SweepConfirmed, Drop
      <4>2. searches'[op.at] = None
        BY <1>1, <4>1 DEF DtaTypeOK, Registry
      <4> QED
        BY <1>1, <3>1, <4>2 DEF Active
    <3> QED
      BY <1>2, <3>1, <3>2
  <2>2. Active' = Active /\ \A s \in Drives, p \in Paths : InTheWay(s, p)' = InTheWay(s, p)
    BY <2>1 DEF Active, InTheWay
  <2>3. \/ op'.phase = "idle"
        \/ /\ op'.phase = "sweep" /\ op'.drive = op.drive /\ op'.path = op.path
           /\ op'.at \in way /\ ~op'.ok
    BY <1>3, <2>1, NewOps
  <2>4. OpInv'
    BY <1>1, <1>5, <2>2, <2>3 DEF OpInv
  <2>5. RegistryInv'
    BY <1>4, <1>5, <2>1, <2>2 DEF RegistryInv
  <2>6. dirs' \in {dirs, Closed} /\ drift' \in BOOLEAN /\ (~drift' => ~drift /\ dirs' = dirs)
    <3>1. CASE SweepFails
      BY <1>1, <3>1 DEF SweepFails, history, DtaTypeOK
    <3>2. CASE SweepTimeout
      BY <1>1, <3>2 DEF SweepTimeout, DtaTypeOK
    <3> QED
      BY <1>7, <3>1, <3>2
  <2>7. DtaTypeOK'
    BY <1>1, <1>3, <2>1, <2>6, ClosedIs DEF DtaTypeOK
  <2>8. HandlesInv'
    <3>1. CASE drift'
      BY <3>1 DEF HandlesInv
    <3>2. CASE ~drift'
      <4>1. ~drift /\ dirs' = dirs
        BY <2>6, <3>2
      <4>2. UNCHANGED drift
        BY <1>1, <2>6, <3>2, <4>1 DEF DtaTypeOK
      <4>3. Kept /\ SamePlaces
        BY <2>1, <4>1, NothingMoves
      <4>4. \A i \in Active : i \in Settled
        BY <1>1 DEF Settled
      <4> QED
        BY <1>1, <1>4, <2>1, <4>2, <4>3, <4>4, HandlesKept
    <3> QED
      BY <3>1, <3>2
  <2> QED
    BY <2>4, <2>5, <2>7, <2>8 DEF DtaInv
<1> QED
  BY <1>6, <1>7

LEMMA RmdirStep ==
  ASSUME IInv, RmdirTimeout \/ RmdirDone
  PROVE  DtaInv'
<1> USE DEF IInv
<1>1. /\ op.phase = "rmdir" /\ DtaTypeOK
      /\ UNCHANGED <<live, searches, touches, dirs, given, upset, orphans, drift>>
  BY TypesApart DEF RmdirTimeout, RmdirDone, history
<1>2. /\ op' = op \/ op' = Idle
      /\ op' \in Operations /\ retries' \in 0 .. Retries /\ rounds' \in 0 .. MaxRounds - 1
  <2>1. CASE RmdirTimeout
    BY <1>1, <2>1 DEF RmdirTimeout, DtaTypeOK
  <2>2. CASE RmdirDone
    BY <2>2, NewOps DEF RmdirDone, Return
  <2> QED
    BY <2>1, <2>2
<1>3. op'.phase \in {"rmdir", "idle"} /\ (op'.phase = "rmdir" => op' = op)
  BY <1>1, <1>2, NewOps
<1>4. Active' = Active /\ \A s \in Drives, p \in Paths : InTheWay(s, p)' = InTheWay(s, p)
  BY <1>1 DEF Active, InTheWay
<1>5. OpInv'
  BY <1>1, <1>3, <1>4, OpIs DEF OpInv, DtaTypeOK
<1>6. RegistryInv'
  BY <1>1, <1>3, <1>4 DEF RegistryInv
<1>7. HandlesInv'
  BY <1>1, <1>3, <1>4, NothingMoves, HandlesKept DEF Settled
<1> QED
  BY <1>1, <1>2, <1>5, <1>6, <1>7 DEF DtaInv, DtaTypeOK

LEMMA RemountStep ==
  ASSUME IInv, Remount
  PROVE  DtaInv'
<1> USE DEF IInv
<1>1. /\ op.phase = "remount" /\ DtaTypeOK /\ live' = {} /\ orphans' = {} /\ drift' = FALSE
      /\ dirs' = [s \in Drives |-> [h \in Handles |-> None]]
      /\ op' = Idle /\ retries' = 0 /\ rounds' = 0
      /\ UNCHANGED <<searches, touches, given, upset>>
  BY TypesApart DEF Remount, Return
<1>2. Active' = {} /\ op'.phase = "idle" /\ op' \in Operations
  BY <1>1, NewOps DEF OpInv, Active
<1>3. DtaTypeOK'
  <2>1. dirs' \in [Drives -> [Handles -> OpenDir \cup {None}]]
    BY <1>1
  <2>2. retries' \in 0 .. Retries /\ rounds' \in 0 .. MaxRounds - 1
    BY <1>1
  <2>3. /\ live' \subseteq Drives /\ orphans' \subseteq Drives \X Handles
        /\ drift' \in BOOLEAN
    BY <1>1
  <2>4. /\ searches' \in Registry /\ touches' \in Nat
        /\ given' \in [Dtas -> Positioned] /\ upset' \subseteq Dtas
    BY <1>1 DEF DtaTypeOK, Registry, Positioned, Search, Slots, Positions
  <2> QED
    BY <1>2, <2>1, <2>2, <2>3, <2>4 DEF DtaTypeOK
<1>4. OpInv' /\ RegistryInv'
  BY <1>2 DEF OpInv, RegistryInv
<1>5. HandlesInv'
  <2> SUFFICES ASSUME NEW s \in Drives, NEW h \in Handles
               PROVE  HandleInv(s, h)'
    BY DEF HandlesInv
  <2>1. dirs'[s][h] = None /\ ~Orphan(s, h)' /\ ~New(s, h)' /\ Settled' = {}
    BY <1>1, <1>2 DEF Orphan, New, Settled
  <2> QED
    BY <1>2, <2>1 DEF HandleInv
<1> QED
  BY <1>3, <1>4, <1>5 DEF DtaInv

----------------------------------------------------------------------------
(* The calls                                                               *)

\* A call that starts when nothing runs moves no search and no handle itself.
LEMMA StartStep ==
  ASSUME IInv, op = Idle, Kept, searches' \in Registry, touches' \in Nat,
         live \subseteq live', live' \subseteq Drives, UNCHANGED <<dirs, history>>,
         op' \in Operations, retries' \in 0 .. Retries, rounds' \in 0 .. MaxRounds - 1,
         op'.phase # "replace", OpInv'
  PROVE  DtaInv'
<1> USE DEF IInv
<1>1. op.phase = "idle" /\ DtaTypeOK
  BY NewOps, TypesApart
<1>2. DtaTypeOK'
  BY <1>1 DEF DtaTypeOK, history
<1>3. \A i \in Active : i \in Settled /\ searches[i].pattern \notin Exact
  BY <1>1 DEF Settled, RegistryInv
<1>4. RegistryInv'
  BY <1>3, RegistryKept
<1>5. HandlesInv'
  BY <1>1, <1>3, NothingMoves, HandlesKept DEF history
<1> QED
  BY <1>2, <1>4, <1>5 DEF DtaInv

LEMMA OtherTablesStep ==
  ASSUME IInv, UNCHANGED dtaVars
  PROVE  DtaInv'
  BY TypesApart DEF IInv, DtaInv, dtaVars, DtaTypeOK, OpInv, RegistryInv, HandlesInv, HandleInv,
     Active, Registered, InTheWay, Settled, Owns, New, Orphan, OnPath, Registry, Positioned

LEMMA ReleaseStep ==
  ASSUME IInv, op = Idle, NEW d \in Dtas, InTnfs(d), Release(Lookup(d)),
         UNCHANGED <<live, searches, touches, dirs, history>>
  PROVE  DtaInv'
<1> USE DEF IInv
<1>1. Lookup(d) \in Active
  BY SlotForIs DEF InTnfs, Registered
<1>2. /\ op' = [phase |-> "release", at |-> Lookup(d)] /\ retries' = Retries /\ rounds' = 0
      /\ op' \in Operations
  BY <1>1, NewOps, SlotsAreNat DEF Release
<1>3. OpInv'
  BY <1>1, <1>2 DEF OpInv, Active
<1> QED
  BY <1>2, <1>3, NothingMoves, StartStep, TypesApart DEF DtaTypeOK

LEMMA FsfirstStep ==
  ASSUME IInv, NEW d \in Dtas, NEW s \in Drives, NEW p \in Paths, NEW n \in Patterns,
         FsfirstTnfs(d, s, p, n)
  PROVE  DtaInv'
<1> USE DEF IInv
<1>1. /\ op = Idle /\ s \in live /\ retries' = Retries
      /\ op' = [phase |-> "open", dta |-> d, drive |-> s, path |-> p, pattern |-> n]
      /\ UNCHANGED <<live, searches, touches, rounds, dirs, history>>
  BY DEF FsfirstTnfs, Call
<1>2. op' \in Operations
  BY <1>1, NewOps2
<1>3. OpInv'
  BY <1>1 DEF OpInv
<1> QED
  BY <1>1, <1>2, <1>3, NothingMoves, StartStep, TypesApart DEF DtaTypeOK

LEMMA FsnextStep ==
  ASSUME IInv, NEW d \in Dtas, FsnextTnfs(d)
  PROVE  DtaInv'
<1> USE DEF IInv
<1> DEFINE i == Lookup(d)
<1>1. /\ op = Idle /\ InTnfs(d) /\ touches' = touches + 1
      /\ UNCHANGED <<live, dirs, history>>
  BY DEF FsnextTnfs, FsnextIsTnfs, Call
<1>2. i \in Active /\ i \in Slots
  BY <1>1, SlotForIs, SlotsAreNat DEF InTnfs, Registered
<1>3. touches' \in Nat /\ searches' = [searches EXCEPT ![i].touched = touches + 1]
  BY <1>1 DEF FsnextTnfs, TypeOK
<1>4. searches' \in Registry /\ Kept
  BY <1>1, <1>2, <1>3, TouchedSet
<1>5. /\ op' \in {[phase |-> "release", at |-> i], [phase |-> "read", at |-> i, first |-> FALSE]}
      /\ retries' = Retries /\ rounds' = 0
  BY DEF FsnextTnfs, Release, BeginRead
<1> HIDE DEF i
<1>6. op' \in Operations /\ op'.phase \in {"release", "read"} /\ op'.at = i
  <2>1. CASE op' = [phase |-> "release", at |-> i]
    BY <1>2, <2>1, NewOps
  <2>2. CASE op' = [phase |-> "read", at |-> i, first |-> FALSE]
    BY <1>2, <2>2, NewOps
  <2> QED
    BY <1>5, <2>1, <2>2
<1>7. OpInv'
  BY <1>2, <1>4, <1>6 DEF OpInv, Kept
<1> QED
  BY <1>1, <1>3, <1>4, <1>5, <1>6, <1>7, StartStep, TypesApart DEF DtaTypeOK

LEMMA DdeleteStep ==
  ASSUME IInv, NEW s \in Drives, NEW p \in Paths, Ddelete(s, p)
  PROVE  DtaInv'
<1> USE DEF IInv
<1>1. op = Idle /\ SweepFrom(s, p, 0, TRUE) /\ UNCHANGED <<live, searches, touches, dirs, history>>
  BY DEF Ddelete, Call
<1>2. /\ op' \in Operations /\ retries' \in 0 .. Retries /\ rounds' \in 0 .. MaxRounds - 1
      /\ \/ op' = Idle
         \/ /\ op'.phase = "rmdir" /\ op'.drive = s /\ op'.path = p
            /\ \A j \in InTheWay(s, p) : ~(j >= 0)
         \/ /\ op'.phase = "sweep" /\ op'.drive = s /\ op'.path = p
            /\ op'.at \in InTheWay(s, p)
            /\ \A j \in InTheWay(s, p) : j >= 0 => op'.at <= j
  BY <1>1, SweepFromIs
<1>3. \A j \in InTheWay(s, p) : j >= 0 /\ j \in Active
  BY SlotsAreNat DEF InTheWay
<1>4. /\ op'.phase \in {"idle", "rmdir", "sweep"}
      /\ op'.phase # "idle" => op'.drive = s /\ op'.path = p
      /\ op'.phase = "rmdir" => InTheWay(s, p) = {}
      /\ op'.phase = "sweep" =>
           op'.at \in InTheWay(s, p) /\ \A j \in InTheWay(s, p) : op'.at <= j
  BY <1>2, <1>3, NewOps
<1>5. Active' = Active /\ InTheWay(s, p)' = InTheWay(s, p)
  BY <1>1 DEF Active, InTheWay
<1>6. OpInv'
  BY <1>3, <1>4, <1>5 DEF OpInv
<1> QED
  BY <1>1, <1>2, <1>4, <1>6, NothingMoves, StartStep, TypesApart DEF DtaTypeOK

LEMMA PingStep ==
  ASSUME IInv, Ping
  PROVE  DtaInv'
<1> USE DEF IInv
<1>1. op = Idle /\ FlushFrom(0) /\ UNCHANGED <<live, searches, rounds, touches, dirs, history>>
  BY DEF Ping, Call
<1>2. /\ op' \in Operations /\ retries' \in 0 .. Retries
      /\ \/ op'.phase = "remount" /\ \A j \in Active : ~(j >= 0)
         \/ /\ op'.phase = "flush" /\ op'.at \in Active
            /\ \A j \in Active : j >= 0 => op'.at <= j
  BY <1>1, FlushFromIs
<1>3. \A j \in Active : j >= 0
  BY SlotsAreNat
<1>4. Active' = Active
  BY <1>1 DEF Active
<1>5. OpInv'
  BY <1>2, <1>3, <1>4 DEF OpInv
<1> QED
  BY <1>1, <1>2, <1>5, NothingMoves, StartStep, TypesApart DEF DtaTypeOK

LEMMA SessionUpStep ==
  ASSUME IInv, NEW s \in Drives, SessionUp(s)
  PROVE  DtaInv'
<1> USE DEF IInv
<1>1. /\ op = Idle /\ live' = live \cup {s}
      /\ UNCHANGED <<searches, touches, op, retries, rounds, dirs, history>>
  BY DEF SessionUp
<1>2. DtaTypeOK /\ op'.phase = "idle"
  BY <1>1, NewOps, TypesApart
<1>3. OpInv'
  BY <1>2 DEF OpInv
<1> QED
  BY <1>1, <1>2, <1>3, NothingMoves, StartStep DEF DtaTypeOK

----------------------------------------------------------------------------
(* The small tables                                                        *)

LEMMA LocalSet ==
  ASSUME LocalTypeOK, NEW k \in Kinds, NEW d \in Dtas
  PROVE  /\ LocalWithout(k, d) \in [LocalIndices -> Dtas \cup {None}]
         /\ LocalStart(k, d) => local' \in [Kinds -> [LocalIndices -> Dtas \cup {None}]]
<1>1. LocalWithout(k, d) \in [LocalIndices -> Dtas \cup {None}]
  BY DEF LocalTypeOK, LocalWithout
<1>2. ASSUME NEW i, NEW v \in Dtas \cup {None}
      PROVE  [local EXCEPT ![k][i] = v] \in [Kinds -> [LocalIndices -> Dtas \cup {None}]]
  BY <1>2 DEF LocalTypeOK
<1>3. ASSUME LocalStart(k, d)
      PROVE  local' \in [Kinds -> [LocalIndices -> Dtas \cup {None}]]
  <2>1. \E i, v : v \in Dtas \cup {None} /\ local' = [local EXCEPT ![k][i] = v]
    BY <1>3 DEF LocalStart
  <2>2. PICK i, v : v \in Dtas \cup {None} /\ local' = [local EXCEPT ![k][i] = v]
    BY <2>1
  <2> QED
    BY <1>2, <2>2, Zenon
<1> QED
  BY <1>1, <1>3

LEMMA LocalStep ==
  ASSUME IInv, [Next]_vars
  PROVE  LocalTypeOK'
<1> USE DEF IInv
<1>1. LocalTypeOK
  BY TypesApart
<1>2. events' \in 0 .. MaxEvents
  <2>1. events' = events \/ (events < MaxEvents /\ events' = events + 1)
    BY DEF Next, vars, Call, Event, FsfirstSettings, FsfirstNetErr, FsfirstSdError, FsfirstFatFs,
       FsfirstTnfs, FsnextSettings, FsnextFatFs, FsnextVirtual, FsnextTnfs, FsnextIsTnfs,
       DtaRelease, Ddelete, Ping, SessionUp
  <2> QED
    BY <1>1, <2>1 DEF LocalTypeOK
<1>3. fatfs' \subseteq Dtas
  <2>1. fatfs' = fatfs \/ fatfs' = {} \/ \E d \in Dtas : fatfs' \in {fatfs \cup {d}, fatfs \ {d}}
    BY DEF Next, vars, FsfirstSettings, FsfirstNetErr, FsfirstSdError, FsfirstFatFs,
       FsfirstTnfs, FsnextSettings, FsnextFatFs, FsnextVirtual, FsnextTnfs, FsnextIsTnfs,
       DtaRelease, Ddelete, Ping, SessionUp
  <2> QED
    BY <1>1, <2>1 DEF LocalTypeOK
<1>4. local' \in [Kinds -> [LocalIndices -> Dtas \cup {None}]]
  <2>1. \/ local' = local
        \/ \E k \in Kinds, d \in Dtas : LocalStart(k, d)
        \/ \E d \in Dtas :
             \/ local' = [local EXCEPT !["settings"] = LocalWithout("settings", d)]
             \/ local' = [k \in Kinds |-> IF k = "settings" THEN local[k] ELSE LocalWithout(k, d)]
             \/ local' = [k \in Kinds |-> LocalWithout(k, d)]
        \/ local' = [local EXCEPT !["settings"] = [i \in LocalIndices |-> None],
                                  !["fake"] = [i \in LocalIndices |-> None]]
    BY DEF Next, vars, FsfirstSettings, FsfirstNetErr, FsfirstSdError, FsfirstFatFs,
       FsfirstTnfs, FsnextSettings, FsnextFatFs, FsnextVirtual, FsnextTnfs, FsnextIsTnfs,
       DtaRelease, Ddelete, Ping, SessionUp, Exhausted, Kinds
  <2>2. \A k \in Kinds, d \in Dtas :
          /\ LocalWithout(k, d) \in [LocalIndices -> Dtas \cup {None}]
          /\ LocalStart(k, d) => local' \in [Kinds -> [LocalIndices -> Dtas \cup {None}]]
    BY <1>1, LocalSet
  <2>3. local \in [Kinds -> [LocalIndices -> Dtas \cup {None}]] /\ "settings" \in Kinds
    BY <1>1 DEF LocalTypeOK, Kinds
  <2>4. [i \in LocalIndices |-> None] \in [LocalIndices -> Dtas \cup {None}]
    OBVIOUS
  <2> QED
    BY <2>1, <2>2, <2>3, <2>4
<1> QED
  BY <1>2, <1>3, <1>4 DEF LocalTypeOK

----------------------------------------------------------------------------
(* The theorems                                                            *)

LEMMA InvInit == Init => IInv
<1> SUFFICES ASSUME Init
             PROVE  IInv
  OBVIOUS
<1>1. /\ Active = {} /\ op = Idle /\ op.phase = "idle" /\ op \in Operations
      /\ drift = FALSE /\ orphans = {}
      /\ dirs = [s \in Drives |-> [h \in Handles |-> None]]
  BY NewOps DEF Init, DtaInit, Active
<1>2. TypeOK
  <2>1. DtaTypeOK
    <3>1. dirs \in [Drives -> [Handles -> OpenDir \cup {None}]]
      BY <1>1
    <3>2. searches \in Registry /\ given \in [Dtas -> Positioned]
      BY DEF Init, DtaInit, Registry, Positioned
    <3>3. /\ live = {} /\ touches = 0 /\ retries = 0 /\ rounds = 0 /\ upset = {}
      BY DEF Init, DtaInit
    <3>4. /\ touches \in Nat /\ retries \in 0 .. Retries /\ rounds \in 0 .. MaxRounds - 1
          /\ live \subseteq Drives /\ upset \subseteq Dtas
      BY <3>3
    <3>5. orphans \subseteq Drives \X Handles /\ drift \in BOOLEAN
      BY <1>1
    <3> QED
      BY <1>1, <3>1, <3>2, <3>4, <3>5 DEF DtaTypeOK
  <2>2. LocalTypeOK
    BY DEF Init, LocalTypeOK
  <2> QED
    BY <2>1, <2>2, TypesApart
<1>3. OpInv /\ RegistryInv
  BY <1>1 DEF OpInv, RegistryInv
<1>4. HandlesInv
  <2> SUFFICES ASSUME NEW s \in Drives, NEW h \in Handles
               PROVE  HandleInv(s, h)
    BY DEF HandlesInv
  <2>1. dirs[s][h] = None /\ ~Orphan(s, h) /\ ~New(s, h) /\ Settled = {}
    BY <1>1 DEF Orphan, New, Settled
  <2> QED
    BY <1>1, <2>1 DEF HandleInv
<1> QED
  BY <1>2, <1>3, <1>4 DEF IInv

LEMMA InvStep ==
  ASSUME IInv, [Next]_vars
  PROVE  IInv'
<1>1. DtaInv'
  <2>1. ASSUME NEW d \in Dtas,
               \/ FsfirstSettings(d) \/ FsfirstNetErr(d) \/ FsfirstSdError(d)
               \/ FsfirstFatFs(d) \/ FsnextSettings(d) \/ FsnextFatFs(d)
        PROVE  DtaInv'
    BY <2>1, OtherTablesStep
       DEF FsfirstSettings, FsfirstNetErr, FsfirstSdError, FsfirstFatFs, FsnextSettings,
           FsnextFatFs, NoTnfs
  <2>2. ASSUME NEW d \in Dtas, FsnextVirtual(d) \/ DtaRelease(d)
        PROVE  DtaInv'
    <3>1. /\ op = Idle
          /\ \/ /\ InTnfs(d) /\ Release(Lookup(d))
                /\ UNCHANGED <<live, searches, touches, dirs, history>>
             \/ UNCHANGED dtaVars
      BY <2>2 DEF FsnextVirtual, DtaRelease, Exhausted, Call, NoTnfs
    <3> QED
      BY <3>1, OtherTablesStep, ReleaseStep
  <2>3. ASSUME NEW d \in Dtas, NEW s \in Drives, NEW p \in Paths, NEW n \in Patterns,
               FsfirstTnfs(d, s, p, n)
        PROVE  DtaInv'
    BY <2>3, FsfirstStep
  <2>4. ASSUME NEW d \in Dtas, FsnextTnfs(d)
        PROVE  DtaInv'
    BY <2>4, FsnextStep
  <2>5. ASSUME NEW s \in Drives, NEW p \in Paths, Ddelete(s, p)
        PROVE  DtaInv'
    BY <2>5, DdeleteStep
  <2>6. CASE Ping
    BY <2>6, PingStep
  <2>7. ASSUME NEW s \in Drives, SessionUp(s)
        PROVE  DtaInv'
    BY <2>7, SessionUpStep
  <2>8. CASE Smooth
    BY <2>8, OpenAnsweredStep, ReadEntryStep, ReadEndsStep, CloseStep, SweepStep, RmdirStep,
       RemountStep DEF Smooth
  <2>9. CASE Faulty
    BY <2>9, OpenEndsStep, ReadEndsStep, ReadTimeoutStep, CloseStep, SweepStep, RmdirStep
       DEF Faulty
  <2>10. CASE UNCHANGED vars
    BY <2>10, OtherTablesStep DEF vars
  <2> QED
    BY <2>1, <2>2, <2>3, <2>4, <2>5, <2>6, <2>7, <2>8, <2>9, <2>10 DEF Next
<1>2. LocalTypeOK'
  BY LocalStep
<1>3. TypeOK'
  BY <1>1, <1>2 DEF DtaInv, DtaTypeOK, LocalTypeOK, TypeOK, Registry, Positioned
<1> QED
  BY <1>1, <1>3 DEF DtaInv, IInv

\* Every reachable state satisfies the inductive invariant: each handle of
\* each server is accounted for (the handlers of src/romemul/gemdrvemul.c and
\* the registry of src/romemul/sidetnfs_probe.c).
THEOREM HandlesInvariant == Spec => []IInv
  BY InvInit, InvStep, PTL DEF Spec

\* The registry, the running operation and the servers' handles have their
\* types for any constants: no slot, handle or directory outside the tables
\* is ever used (tnfs_dta_start, insertTnfsDTA).
THEOREM SearchTypeCorrect == Spec => []TypeOK
<1>1. IInv => TypeOK
  BY DEF IInv
<1> QED
  BY <1>1, HandlesInvariant, PTL

LEMMA InvHasHandles ==
  ASSUME IInv
  PROVE  SearchesHaveHandles
<1> USE DEF IInv
<1>1. /\ \A i, j \in Active : searches[i].dta = searches[j].dta => i = j
      /\ \A i \in Active : searches[i].drive \in live
  BY DEF RegistryInv
<1>2. ASSUME ~drift, NEW i \in Settled
      PROVE  /\ dirs[searches[i].drive][searches[i].handle] # None
             /\ dirs[searches[i].drive][searches[i].handle].path = searches[i].path
             /\ \A j \in Settled \ {i} :
                  <<searches[j].drive, searches[j].handle>>
                    # <<searches[i].drive, searches[i].handle>>
  <2>1. Settled \subseteq Active
    BY DEF Settled
  <2> DEFINE s == searches[i].drive
             h == searches[i].handle
  <2>2. s \in Drives /\ h \in Handles /\ i \in Active
    BY <2>1, SearchIs
  <2>3. Owns(i, s, h)
    BY DEF Owns
  <2>4. HandleInv(s, h)
    BY <1>2, <2>2 DEF HandlesInv
  <2>5. OnPath(s, h, searches[i].path)
    BY <2>3, <2>4 DEF HandleInv
  <2>6. ASSUME NEW j \in Settled \ {i}
        PROVE  ~(searches[j].drive = s /\ searches[j].handle = h)
    BY <2>1, <2>2, <2>3, <2>4 DEF HandleInv, Owns
  <2> QED
    BY <2>5, <2>6 DEF OnPath
<1> QED
  BY <1>1, <1>2 DEF SearchesHaveHandles

LEMMA InvLeaksNothing ==
  ASSUME IInv
  PROVE  NoHandleLeaks
<1> USE DEF IInv
<1> SUFFICES ASSUME op = Idle
             PROVE  /\ \A i \in Active : searches[i].pattern \notin Exact
                    /\ ~drift =>
                         {sh \in Drives \X Handles : dirs[sh[1]][sh[2]] # None}
                           = {<<searches[i].drive, searches[i].handle>> : i \in Active}
                             \cup orphans
  BY DEF NoHandleLeaks
<1>1. op.phase = "idle"
  BY NewOps
<1>2. \A i \in Active : searches[i].pattern \notin Exact
  BY <1>1 DEF RegistryInv
<1>3. ASSUME ~drift, NEW s \in Drives, NEW h \in Handles
      PROVE  dirs[s][h] # None <=> Orphan(s, h) \/ \E i \in Active : Owns(i, s, h)
  BY <1>1, <1>3 DEF HandlesInv, HandleInv, New, Settled, OnPath
<1>4. ASSUME ~drift
      PROVE  {sh \in Drives \X Handles : dirs[sh[1]][sh[2]] # None}
               = {<<searches[i].drive, searches[i].handle>> : i \in Active} \cup orphans
  <2>1. ASSUME NEW sh \in Drives \X Handles
        PROVE  dirs[sh[1]][sh[2]] # None <=>
                 sh \in orphans \/ \E i \in Active : sh = <<searches[i].drive, searches[i].handle>>
    <3>1. sh[1] \in Drives /\ sh[2] \in Handles /\ sh = <<sh[1], sh[2]>>
      BY <2>1
    <3>2. dirs[sh[1]][sh[2]] # None <=>
            Orphan(sh[1], sh[2]) \/ \E i \in Active : Owns(i, sh[1], sh[2])
      BY <1>3, <1>4, <3>1
    <3> QED
      BY <3>1, <3>2 DEF Orphan, Owns
  <2>2. orphans \subseteq Drives \X Handles
    BY DEF TypeOK
  <2>3. \A i \in Active : <<searches[i].drive, searches[i].handle>> \in Drives \X Handles
    BY SearchIs
  <2> QED
    BY <2>1, <2>2, <2>3
<1> QED
  BY <1>2, <1>4

\* Searches and directory handles correspond in both directions, for any
\* number of drives, slots, handles and retries: no search without an open
\* handle of its own, and between two calls no open handle without a search,
\* unless its exchange failed (tnfs_dta_start, tnfs_dta_find_next_match,
\* tnfs_dta_release, sidetnfs_tnfs_dta_close_by_path).
THEOREM HandlesCorrect == Spec => []HandlesMatchSearches
<1>1. IInv => HandlesMatchSearches
  BY InvHasHandles, InvLeaksNothing DEF HandlesMatchSearches
<1> QED
  BY <1>1, HandlesInvariant, PTL

LEMMA InvRmdir ==
  ASSUME IInv
  PROVE  RmdirOnlyWhenClosed
<1> USE DEF IInv
<1> SUFFICES ASSUME op.phase = "rmdir"
             PROVE  /\ \A i \in Active : ~(searches[i].drive = op.drive
                                           /\ searches[i].path = op.path)
                    /\ ~drift => \A h \in Handles :
                         dirs[op.drive][h] # None /\ <<op.drive, h>> \notin orphans =>
                           dirs[op.drive][h].path # op.path
  BY DEF RmdirOnlyWhenClosed
<1>1. \A i \in Active : ~(searches[i].drive = op.drive /\ searches[i].path = op.path)
  BY DEF OpInv, InTheWay
<1>2. op.drive \in Drives
  BY OpIs DEF TypeOK
<1>3. ASSUME ~drift, NEW h \in Handles, dirs[op.drive][h] # None, ~Orphan(op.drive, h)
      PROVE  dirs[op.drive][h].path # op.path
  <2>1. HandleInv(op.drive, h) /\ ~New(op.drive, h) /\ Settled = Active
    BY <1>2, <1>3 DEF HandlesInv, New, Settled
  <2>2. PICK i \in Active : Owns(i, op.drive, h)
    BY <1>3, <2>1 DEF HandleInv
  <2>3. dirs[op.drive][h].path = searches[i].path
    BY <2>1, <2>2 DEF HandleInv, OnPath
  <2> QED
    BY <1>1, <2>2, <2>3 DEF Owns
<1> QED
  BY <1>1, <1>3 DEF Orphan

\* The step conditions of SparesOtherSearches.
SparesWhenOpening ==
    (op.phase = "open" /\ op'.phase = "replace" /\ searches[op'.at].dta # op.dta) =>
        \A i \in Slots :
            /\ searches[i] # None
            /\ searches[op'.at].touched <= searches[i].touched
SparesWhenSweeping ==
    op.phase = "sweep" =>
        \A i \in Active :
            (searches[i].drive # op.drive \/ searches[i].path # op.path)
                => searches'[i] = searches[i]

\* What runs is not disturbed by a call.
LEMMA OnlyItself ==
  ASSUME IInv, Next, op.phase # "idle"
  PROVE  Smooth \/ Faulty
<1>1. op # Idle
  BY NewOps
<1> QED
  BY <1>1 DEF Next, Call, FsfirstSettings, FsfirstNetErr, FsfirstSdError, FsfirstFatFs,
     FsfirstTnfs, FsnextSettings, FsnextFatFs, FsnextVirtual, FsnextTnfs, FsnextIsTnfs,
     DtaRelease, Ddelete, Ping, SessionUp

LEMMA SparesOpening ==
  ASSUME IInv, Next
  PROVE  SparesWhenOpening
<1> USE DEF IInv
<1> SUFFICES ASSUME op.phase = "open", op'.phase = "replace", searches[op'.at].dta # op.dta
             PROVE  \A i \in Slots : /\ searches[i] # None
                                     /\ searches[op'.at].touched <= searches[i].touched
  BY DEF SparesWhenOpening
<1>1. Smooth \/ Faulty
  BY OnlyItself
<1>2. OpenAnswered \/ OpenFails \/ OpenTimeout
  BY <1>1 DEF Smooth, Faulty, ReadEntry, ReadEnd, CloseAnswered, SweepConfirmed, RmdirDone,
     Remount, ReadFails, ReadTimeout, CloseNotSent, CloseTimeout, SweepFails, SweepTimeout,
     RmdirTimeout, Closing
<1>3. OpenAnswered
  <2>1. OpenFails \/ OpenTimeout => op' = op \/ op' = Idle
    BY DEF OpenFails, OpenTimeout, Return
  <2> QED
    BY <1>2, <2>1, NewOps
<1> DEFINE i == SlotFor(op.dta)
<1>4. searches[i] # None /\ op'.at = i
  <2>1. CASE searches[i] = None
    BY <1>3, <2>1 DEF OpenAnswered, Install, BeginRead
  <2>2. CASE searches[i] # None
    BY <1>3, <2>2 DEF OpenAnswered
  <2> QED
    BY <2>1, <2>2
<1>5. op.dta \in Dtas
  BY OpIs DEF TypeOK
<1>6. Active = Slots /\ \A j \in Active : searches[i].touched <= searches[j].touched
  BY <1>4, <1>5, EvictsOldest
<1> QED
  BY <1>4, <1>6 DEF Active

LEMMA SparesSweeping ==
  ASSUME IInv, Next
  PROVE  SparesWhenSweeping
<1> USE DEF IInv
<1> SUFFICES ASSUME op.phase = "sweep", NEW i \in Active,
                    searches[i].drive # op.drive \/ searches[i].path # op.path
             PROVE  searches'[i] = searches[i]
  BY DEF SparesWhenSweeping
<1>1. Smooth \/ Faulty
  BY OnlyItself
<1>2. SweepConfirmed \/ SweepFails \/ SweepTimeout
  BY <1>1 DEF Smooth, Faulty, OpenAnswered, OpenFails, OpenTimeout, ReadEntry, ReadEnd,
     CloseAnswered, RmdirDone, Remount, ReadFails, ReadTimeout, CloseNotSent, CloseTimeout,
     RmdirTimeout, Closing
<1>3. op.at \in InTheWay(op.drive, op.path)
  BY DEF OpInv
<1>4. i # op.at /\ op.at \in Active
  BY <1>3 DEF InTheWay
<1>5. CASE SweepConfirmed
  BY <1>4, <1>5, DropIs DEF SweepConfirmed
<1>6. CASE SweepFails \/ SweepTimeout
  BY <1>6 DEF SweepFails, SweepTimeout
<1> QED
  BY <1>2, <1>5, <1>6

\* A call ends the searches it has to end and no other, for any constants:
\* RMDIR goes out when the directory has none left, Fsfirst gives up the least
\* recently used search of a full registry only, and Ddelete spares other
\* directories (alloc_tnfs_dta_slot, sidetnfs_tnfs_dta_close_by_path).
THEOREM EndsItsOwnCorrect == Spec => EndsItsOwnSearches
<1>1. IInv => RmdirOnlyWhenClosed
  BY InvRmdir
<1>2. IInv /\ [Next]_vars =>
        [/\ (op.phase = "open" /\ op'.phase = "replace"
               /\ searches[op'.at].dta # op.dta) =>
              \A i \in Slots :
                /\ searches[i] # None
                /\ searches[op'.at].touched <= searches[i].touched
         /\ op.phase = "sweep" =>
              \A i \in Active :
                (searches[i].drive # op.drive \/ searches[i].path # op.path)
                  => searches'[i] = searches[i]]_vars
  BY SparesOpening, SparesSweeping DEF SparesWhenOpening, SparesWhenSweeping
<1> QED
  BY <1>1, <1>2, HandlesInvariant, PTL DEF EndsItsOwnSearches, SparesOtherSearches, Spec

----------------------------------------------------------------------------
(* What a search delivers                                                  *)

\* The searches DeliversEveryMatch speaks of, and what it says of one.
Watched == Settled \cup (IF op.phase = "release" THEN {op.at} ELSE {})
HandleOf(i) == dirs[searches[i].drive][searches[i].handle]
Matched(r, n) == {k \in 1 .. r.pos : Dir[r.path][k] \in Matches[n]}
Delivered(i) ==
    HandleOf(i) # None /\ searches[i].dta \notin upset =>
        /\ given[searches[i].dta] = Matched(HandleOf(i), searches[i].pattern)
        /\ searches[i].eof => HandleOf(i).pos = Len(Dir[HandleOf(i).path])

LEMMA DeliversIs ==
  /\ DeliversEveryMatch <=> (~drift => \A i \in Watched : Delivered(i))
  /\ DeliversEveryMatch' <=> (~drift' => \A i \in Watched' : Delivered(i)')
<1>1. DeliversEveryMatch <=> (~drift => \A i \in Watched : Delivered(i))
  BY DEF DeliversEveryMatch, Watched, Delivered, HandleOf, Matched
<1>2. DeliversEveryMatch' <=> (~drift' => \A i \in Watched' : Delivered(i)')
  BY DEF DeliversEveryMatch, Watched, Delivered, HandleOf, Matched
<1> QED
  BY <1>1, <1>2

LEMMA WatchedIs ==
  ASSUME IInv
  PROVE  /\ Watched \subseteq Active
         /\ op.phase \notin {"replace", "flush"} => Watched = Active
         /\ op.phase \in {"replace", "flush"} => Watched = Active \ {op.at}
  BY DEF Watched, Settled, IInv, OpInv

LEMMA WatchedNext ==
  ASSUME DtaInv'
  PROVE  Watched' \subseteq Active'
  BY DEF Watched, Settled, DtaInv, OpInv

\* A step that leaves the search, its entries and its place in the directory
\* alone, or closes its handle, or disturbs it, leaves what it says of it true.
Untouched(i) ==
    /\ searches'[i].dta = searches[i].dta
    /\ searches'[i].drive = searches[i].drive
    /\ searches'[i].handle = searches[i].handle
    /\ searches'[i].pattern = searches[i].pattern
    /\ searches'[i].eof = searches[i].eof
    /\ HandleOf(i)' = HandleOf(i) \/ HandleOf(i)' = None
    /\ given'[searches[i].dta] = given[searches[i].dta]
    /\ searches[i].dta \in upset => searches[i].dta \in upset'

LEMMA DeliveredKept ==
  ASSUME NEW i, Delivered(i), Untouched(i)
  PROVE  Delivered(i)'
  BY DEF Delivered, Untouched, Matched

LEMMA DeliveredNext ==
  ASSUME NEW i, NEW r, NEW d, NEW n, HandleOf(i)' = r,
         searches'[i].dta = d, searches'[i].pattern = n,
         d \notin upset' =>
             /\ given'[d] = Matched(r, n)
             /\ searches'[i].eof => r.pos = Len(Dir[r.path])
  PROVE  Delivered(i)'
  BY DEF Delivered, Matched

LEMMA DeliversKept ==
  ASSUME DeliversEveryMatch,
         ~drift' => ~drift /\ \A i \in Watched' : i \in Watched /\ Untouched(i)
  PROVE  DeliversEveryMatch'
  BY DeliveredKept, DeliversIs

\* Steps that touch no search, no handle and no entry.
LEMMA NothingDelivered ==
  ASSUME DeliversEveryMatch, UNCHANGED <<searches, dirs, given, upset, drift>>, Watched' \subseteq Watched
  PROVE  DeliversEveryMatch'
<1>1. \A i : Untouched(i)
  BY DEF Untouched, HandleOf
<1> QED
  BY <1>1, DeliversKept

\* Two searches have different handles and different DTAs.
LEMMA OwnHandles ==
  ASSUME IInv, ~drift, NEW i \in Active, NEW j \in Active, i # j
  PROVE  /\ searches[i].dta # searches[j].dta
         /\ ~ (searches[i].drive = searches[j].drive /\ searches[i].handle = searches[j].handle)
<1>1. searches[i].drive \in Drives /\ searches[i].handle \in Handles
  BY SearchIs DEF IInv
<1>2. HandleInv(searches[i].drive, searches[i].handle)
  BY <1>1 DEF IInv, HandlesInv
<1>3. ~ (searches[i].drive = searches[j].drive /\ searches[i].handle = searches[j].handle)
  BY <1>2 DEF HandleInv, Owns
<1> QED
  BY <1>3 DEF IInv, RegistryInv

\* A handle that is not the one of the search at op.at.
LEMMA OthersApart ==
  ASSUME IInv, ~drift, op.at \in Active, NEW j \in Active, j # op.at
  PROVE  /\ searches[j].dta # searches[op.at].dta
         /\ searches[j].drive \in Drives /\ searches[j].handle \in Handles
         /\ ~At(searches[j].drive, searches[j].handle)
<1>1. searches[j].drive \in Drives /\ searches[j].handle \in Handles
  BY SearchIs DEF IInv
<1> QED
  BY <1>1, OwnHandles DEF At, Owns

LEMMA ReadEntryDelivers ==
  ASSUME IInv, DeliversEveryMatch, NEW last \in BOOLEAN, ReadEntry(last)
  PROVE  DeliversEveryMatch'
<1> USE DEF IInv
<1>1. /\ op.phase = "read" /\ op.at \in Active /\ op.at \in Slots /\ DtaTypeOK
      /\ Watched = Active
  BY TypesApart, WatchedIs, SlotsAreNat DEF ReadEntry, OpInv
<1> DEFINE x == searches[op.at]
           a == x.drive
           b == x.handle
           o == dirs[a][b]
           g == given[x.dta]
<1>2. x \in Search /\ a \in Drives /\ b \in Handles /\ x.dta \in Dtas
  BY <1>1, SearchIs
<1>3. /\ o # None /\ o.pos < Len(Dir[o.path]) /\ dirs' = Advanced(a, b)
      /\ last => o.pos + 1 = Len(Dir[o.path])
      /\ UNCHANGED <<upset, drift>>
  BY DEF ReadEntry, Advanced
<1>4. /\ dirs'[a][b].pos = o.pos + 1 /\ o.pos \in Nat
      /\ dirs'[a][b].path = o.path /\ dirs'[a][b] # None
      /\ \A s \in Drives, h \in Handles : ~(s = a /\ h = b) => dirs'[s][h] = dirs[s][h]
  <2>1. dirs[a][b] # None /\ dirs[a][b].pos < Len(Dir[dirs[a][b].path])
    BY <1>3
  <2>2. dirs' = Advanced(a, b)
    BY <1>3
  <2>3. a \in Drives /\ b \in Handles /\ TypeOK
    BY <1>2
  <2> HIDE DEF a, b, x
  <2>4. /\ SamePlaces
        /\ dirs'[a][b].pos = dirs[a][b].pos + 1 /\ dirs[a][b].pos \in Nat
        /\ \A s \in Drives, h \in Handles : ~(s = a /\ h = b) => dirs'[s][h] = dirs[s][h]
    BY <2>1, <2>2, <2>3, PosMoves
  <2>5. dirs'[a][b].path = dirs[a][b].path /\ dirs'[a][b] # None
    BY <2>1, <2>3, <2>4 DEF SamePlaces
  <2> QED
    BY <2>4, <2>5
<1>5. /\ searches' = [searches EXCEPT ![op.at].eof = last]
      /\ \/ /\ Dir[o.path][o.pos + 1] \in Matches[x.pattern]
            /\ given' = [given EXCEPT ![x.dta] = @ \cup {o.pos + 1}]
         \/ /\ Dir[o.path][o.pos + 1] \notin Matches[x.pattern]
            /\ given' = given
  BY DEF ReadEntry
<1>6. /\ searches'[op.at] = [x EXCEPT !.eof = last]
      /\ \A j \in Active : j # op.at => searches'[j] = searches[j]
  BY <1>1, <1>5 DEF DtaTypeOK, Registry, Active
<1>7. /\ searches'[op.at].dta = x.dta /\ searches'[op.at].drive = a /\ searches'[op.at].handle = b
      /\ searches'[op.at].pattern = x.pattern /\ searches'[op.at].eof = last
  BY <1>2, <1>6 DEF Search
<1>8. /\ given'[x.dta] = IF Dir[o.path][o.pos + 1] \in Matches[x.pattern]
                          THEN g \cup {o.pos + 1} ELSE g
      /\ \A d \in Dtas : d # x.dta => given'[d] = given[d]
  BY <1>1, <1>2, <1>5 DEF DtaTypeOK
<1>9. Active' = Active
  BY <1>1, <1>5, EofSet DEF Kept
<1>10. Watched' \subseteq Active
  BY <1>9, ReadEntryStep, WatchedNext
<1> SUFFICES ASSUME ~drift, NEW j \in Active
             PROVE  Delivered(j)'
  BY <1>3, <1>10, DeliversIs
<1>11. CASE j = op.at
  <2> DEFINE r == dirs'[a][b]
  <2>1. HandleOf(j)' = r
    BY <1>7, <1>11 DEF HandleOf
  <2>2. x.dta \notin upset => g = Matched(o, x.pattern)
    BY <1>1, <1>3, DeliversIs DEF Delivered, HandleOf
  <2>3. last => r.pos = Len(Dir[r.path])
    BY <1>3, <1>4
  <2>4. Matched(r, x.pattern) = IF Dir[o.path][o.pos + 1] \in Matches[x.pattern]
                                THEN Matched(o, x.pattern) \cup {o.pos + 1}
                                ELSE Matched(o, x.pattern)
    <3>1. r.pos = o.pos + 1 /\ r.path = o.path /\ o.pos \in Nat
      BY <1>4
    <3> HIDE DEF o, x, r
    <3> QED
      BY <3>1 DEF Matched
  <2>5. x.dta \notin upset' => given'[x.dta] = Matched(r, x.pattern)
    BY <1>3, <1>8, <2>2, <2>4
  <2> HIDE DEF r, x
  <2> QED
    BY <1>7, <1>11, <2>1, <2>3, <2>5, DeliveredNext
<1>12. CASE j # op.at
  <2>1. /\ searches[j].dta # x.dta /\ searches[j].dta \in Dtas
        /\ searches[j].drive \in Drives /\ searches[j].handle \in Handles
        /\ ~(searches[j].drive = a /\ searches[j].handle = b)
    BY <1>1, <1>12, OthersApart, SearchIs DEF At, Owns
  <2>2. searches'[j] = searches[j] /\ given'[searches[j].dta] = given[searches[j].dta]
    BY <1>6, <1>8, <1>12, <2>1
  <2>3. HandleOf(j)' = HandleOf(j)
    <3>1. HandleOf(j)' = dirs'[searches[j].drive][searches[j].handle]
      BY <2>2 DEF HandleOf
    <3>2. dirs'[searches[j].drive][searches[j].handle] = dirs[searches[j].drive][searches[j].handle]
      BY <1>4, <2>1
    <3> QED
      BY <3>1, <3>2 DEF HandleOf
  <2>4. Untouched(j)
    BY <1>3, <2>2, <2>3 DEF Untouched
  <2> QED
    BY <1>1, <2>4, DeliveredKept, DeliversIs
<1> QED
  BY <1>11, <1>12

LEMMA ReadEndDelivers ==
  ASSUME IInv, DeliversEveryMatch, ReadEnd \/ ReadFails
  PROVE  DeliversEveryMatch'
<1> USE DEF IInv
<1> DEFINE x == searches[op.at]
           o == HandleOf(op.at)
<1>1. /\ op.phase = "read" /\ op.at \in Active /\ op.at \in Slots /\ DtaTypeOK
      /\ Watched = Active /\ UNCHANGED <<live, touches, dirs, given, upset, drift>>
  BY TypesApart, WatchedIs, SlotsAreNat DEF ReadEnd, ReadFails, OpInv, history
<1>2. searches' = [searches EXCEPT ![op.at].eof = TRUE] \/ UNCHANGED searches
  BY DEF ReadEnd, ReadFails
<1>3. Watched' \subseteq Active
  <2>1. Active' = Active
    BY <1>1, <1>2, EofSet, NothingMoves DEF Kept
  <2> QED
    BY <2>1, ReadEndsStep, WatchedNext
<1>4. CASE UNCHANGED searches
  BY <1>1, <1>3, <1>4, NothingDelivered
<1>5. CASE ~UNCHANGED searches
  <2>1. /\ o.pos = Len(Dir[o.path]) /\ searches' = [searches EXCEPT ![op.at].eof = TRUE]
    BY <1>5 DEF ReadEnd, ReadFails, HandleOf
  <2>2. /\ searches'[op.at] = [x EXCEPT !.eof = TRUE]
        /\ \A j \in Active : j # op.at => searches'[j] = searches[j]
    BY <1>1, <2>1 DEF DtaTypeOK, Registry, Active
  <2>3. /\ searches'[op.at].dta = x.dta /\ searches'[op.at].drive = x.drive
        /\ searches'[op.at].handle = x.handle /\ searches'[op.at].pattern = x.pattern
    BY <1>1, <2>2, SearchIs DEF Search
  <2> SUFFICES ASSUME ~drift, NEW j \in Active
               PROVE  Delivered(j)'
    BY <1>1, <1>3, DeliversIs
  <2>4. CASE j # op.at
    <3>1. Untouched(j)
      BY <1>1, <2>2, <2>4 DEF Untouched, HandleOf
    <3> QED
      BY <1>1, <3>1, DeliveredKept, DeliversIs
  <2>5. CASE j = op.at
    <3>1. HandleOf(j)' = o
      BY <1>1, <2>3, <2>5 DEF HandleOf
    <3>2. o # None
      BY <1>5 DEF ReadEnd, ReadFails, HandleOf
    <3>3. x.dta \notin upset => given[x.dta] = Matched(o, x.pattern)
      BY <1>1, <3>2, DeliversIs DEF Delivered
    <3> HIDE DEF x, o
    <3> QED
      BY <1>1, <2>1, <2>3, <2>5, <3>1, <3>3, DeliveredNext
  <2> QED
    BY <2>4, <2>5
<1> QED
  BY <1>4, <1>5

LEMMA ReadTimeoutDelivers ==
  ASSUME IInv, DeliversEveryMatch, ReadTimeout
  PROVE  DeliversEveryMatch'
<1> USE DEF IInv
<1> DEFINE x == searches[op.at]
<1>1. /\ op.phase = "read" /\ op.at \in Active /\ Watched = Active
      /\ UNCHANGED <<live, searches, touches, given, drift>> /\ upset' = upset \cup {x.dta}
  BY WatchedIs DEF ReadTimeout, OpInv
<1>2. Watched' \subseteq Active
  <2>1. Active' = Active
    BY <1>1 DEF Active
  <2> QED
    BY <2>1, ReadTimeoutStep, WatchedNext
<1> SUFFICES ASSUME ~drift, NEW j \in Active
             PROVE  Delivered(j)'
  BY <1>1, <1>2, DeliversIs
<1>3. CASE j = op.at
  <2>1. searches'[j].dta \in upset'
    BY <1>1, <1>3
  <2> QED
    BY <2>1 DEF Delivered
<1>4. CASE j # op.at
  <2>1. /\ searches[j].drive \in Drives /\ searches[j].handle \in Handles
        /\ ~At(searches[j].drive, searches[j].handle)
    BY <1>1, <1>4, OthersApart
  <2>2. x.drive \in Drives /\ x.handle \in Handles
    BY <1>1, SearchIs
  <2>3. dirs'[searches[j].drive][searches[j].handle] = dirs[searches[j].drive][searches[j].handle]
    <3>1. CASE UNCHANGED dirs
      BY <3>1
    <3>2. CASE ~UNCHANGED dirs
      <4>1. /\ dirs[x.drive][x.handle] # None
            /\ dirs[x.drive][x.handle].pos < Len(Dir[dirs[x.drive][x.handle].path])
            /\ dirs' = Advanced(x.drive, x.handle)
        BY <3>2 DEF ReadTimeout, Advanced
      <4>2. \A s \in Drives, h \in Handles :
               ~(s = x.drive /\ h = x.handle) => dirs'[s][h] = dirs[s][h]
        <5> DEFINE a == x.drive
                   b == x.handle
        <5>1. /\ dirs[a][b] # None /\ dirs[a][b].pos < Len(Dir[dirs[a][b].path])
              /\ dirs' = Advanced(a, b) /\ a \in Drives /\ b \in Handles
          BY <2>2, <4>1
        <5> HIDE DEF a, b
        <5>2. \A s \in Drives, h \in Handles : ~(s = a /\ h = b) => dirs'[s][h] = dirs[s][h]
          BY <5>1, PosMoves
        <5> QED
          BY <5>2 DEF a, b
      <4> QED
        BY <2>1, <4>2 DEF At, Owns
    <3> QED
      BY <3>1, <3>2
  <2>4. Untouched(j)
    BY <1>1, <2>3 DEF Untouched, HandleOf
  <2> QED
    BY <1>1, <2>4, DeliveredKept, DeliversIs
<1> QED
  BY <1>3, <1>4

\* A new search has delivered nothing, at the beginning of its directory.
LEMMA InstallDelivers ==
  ASSUME IInv, DeliversEveryMatch, NEW i \in Slots, NEW n \in Handles,
         op.phase \in {"open", "replace"}, Install(i, op, n), drift' = drift,
         \A j \in Active \ {i} : j \in Watched /\ searches[j].dta # op.dta,
         ~drift => /\ dirs'[op.drive][n].pos = 0
                   /\ \A j \in Active \ {i} : dirs'[searches[j].drive][searches[j].handle] = HandleOf(j),
         DtaInv'
  PROVE  DeliversEveryMatch'
<1> USE DEF IInv
<1>1. /\ Active' = Active \cup {i} /\ searches'[i] = Entry(op, n)
      /\ \A j \in Active \ {i} : searches'[j] = searches[j]
  BY InstallIs
<1>2. /\ searches'[i].dta = op.dta /\ searches'[i].drive = op.drive /\ searches'[i].pattern = op.pattern
      /\ searches'[i].handle = n /\ searches'[i].eof = FALSE
  BY <1>1 DEF Entry
<1> DEFINE old == IF searches[i] = None THEN {} ELSE {searches[i].dta}
<1>3. /\ given' = [d \in Dtas |-> IF d \in old \cup {op.dta} THEN {} ELSE given[d]]
      /\ upset' = upset \ (old \cup {op.dta})
  BY DEF Install
<1> SUFFICES ASSUME ~drift, NEW j \in Active \cup {i}
             PROVE  Delivered(j)'
  BY <1>1, WatchedNext, DeliversIs
<1>4. CASE j = i
  <2>1. op.dta \in Dtas
    BY OpIs DEF TypeOK
  <2>2. given'[op.dta] = {}
    BY <1>3, <2>1
  <2>3. HandleOf(j)' = dirs'[op.drive][n]
    BY <1>2, <1>4 DEF HandleOf
  <2>4. Matched(dirs'[op.drive][n], op.pattern) = {}
    BY DEF Matched
  <2> QED
    BY <1>2, <1>4, <2>2, <2>3, <2>4, DeliveredNext
<1>5. CASE j # i
  <2>1. j \in Active \ {i} /\ searches'[j] = searches[j] /\ searches[j].dta \in Dtas
    BY <1>1, <1>5, SearchIs
  <2>2. searches[j].dta \notin old \cup {op.dta}
    <3>1. searches[i] # None => i \in Active
      BY DEF Active
    <3> QED
      BY <2>1, <3>1 DEF RegistryInv
  <2>3. /\ given'[searches[j].dta] = given[searches[j].dta]
        /\ searches[j].dta \in upset => searches[j].dta \in upset'
    BY <1>3, <2>1, <2>2
  <2>4. HandleOf(j)' = HandleOf(j)
    <3>1. HandleOf(j)' = dirs'[searches[j].drive][searches[j].handle]
      BY <2>1 DEF HandleOf
    <3> QED
      BY <2>1, <3>1
  <2>5. Untouched(j)
    BY <2>1, <2>3, <2>4 DEF Untouched
  <2> QED
    BY <2>1, <2>5, DeliveredKept, DeliversIs
<1> QED
  BY <1>4, <1>5

LEMMA OpenDelivers ==
  ASSUME IInv, DeliversEveryMatch, OpenAnswered \/ OpenFails \/ OpenTimeout
  PROVE  DeliversEveryMatch'
<1> USE DEF IInv
<1>1. /\ op.phase = "open" /\ Watched = Active /\ UNCHANGED <<live, drift>> /\ DtaInv'
  BY WatchedIs, OpenAnsweredStep, OpenEndsStep DEF OpenAnswered, OpenFails, OpenTimeout, history
<1>2. UNCHANGED dirs \/ Opened(op.drive, op.path)
  BY DEF OpenAnswered, OpenFails, OpenTimeout
<1>3. ASSUME ~drift, NEW j \in Active
      PROVE  dirs'[searches[j].drive][searches[j].handle] = HandleOf(j)
  <2>1. CASE UNCHANGED dirs
    BY <2>1 DEF HandleOf
  <2>2. CASE Opened(op.drive, op.path)
    <3>1. searches[j].drive \in Drives /\ searches[j].handle \in Handles
      BY SearchIs
    <3>2. /\ \A s \in Drives, h \in Handles :
               ~(s = op.drive /\ h = Min(Free(op.drive))) => dirs'[s][h] = dirs[s][h]
          /\ ~Owns(j, op.drive, Min(Free(op.drive)))
      BY <1>1, <1>3, <2>2, OpenedIs
    <3> QED
      BY <3>1, <3>2 DEF HandleOf, Owns
  <2> QED
    BY <1>2, <2>1, <2>2
<1>4. CASE UNCHANGED <<searches, given, upset>>
  <2>1. Active' = Active
    BY <1>4 DEF Active
  <2>2. ~drift => \A j \in Active : Untouched(j)
    BY <1>3, <1>4 DEF Untouched, HandleOf
  <2> QED
    BY <1>1, <2>1, <2>2, WatchedNext, DeliversKept
<1>5. CASE ~UNCHANGED <<searches, given, upset>>
  <2> DEFINE i == SlotFor(op.dta)
             n == Min(Free(op.drive))
  <2>1. /\ searches[i] = None /\ Install(i, op, n) /\ Opened(op.drive, op.path)
    BY <1>5 DEF OpenAnswered, OpenFails, OpenTimeout, history
  <2>2. n \in Handles /\ op.dta \in Dtas /\ dirs'[op.drive][n].pos = 0
    BY <1>1, <2>1, OpenedIs
  <2>3. i \in Slots /\ Registered(op.dta) = {}
    BY <2>1, <2>2, SlotForIs
  <2>4. Active \ {i} = Active /\ \A j \in Active : searches[j].dta # op.dta
    BY <2>1, <2>3 DEF Active, Registered
  <2> HIDE DEF i, n
  <2> QED
    BY <1>1, <1>3, <2>1, <2>2, <2>3, <2>4, InstallDelivers
<1> QED
  BY <1>4, <1>5

\* A search that goes takes its entries along; the others have their own.
LEMMA DropDelivers ==
  ASSUME IInv, DeliversEveryMatch, op.at \in Active, Drop(op.at), drift' = drift,
         Active \ {op.at} \subseteq Watched,
         ~drift => \A s \in Drives, h \in Handles : ~At(s, h) => dirs'[s][h] = dirs[s][h],
         DtaInv'
  PROVE  DeliversEveryMatch'
<1> USE DEF IInv
<1> DEFINE x == searches[op.at]
<1>1. /\ Active' = Active \ {op.at}
      /\ \A j \in Active \ {op.at} : searches'[j] = searches[j]
  BY DropIs
<1>2. given' = [given EXCEPT ![x.dta] = {}] /\ upset' = upset \ {x.dta}
  BY DEF Drop
<1>3. ASSUME ~drift, NEW j \in Active \ {op.at}
      PROVE  Untouched(j)
  <2>1. /\ searches[j].dta # x.dta /\ searches[j].drive \in Drives
        /\ searches[j].handle \in Handles /\ ~At(searches[j].drive, searches[j].handle)
    BY <1>3, OthersApart
  <2>2. searches'[j] = searches[j]
    BY <1>1
  <2>3. HandleOf(j)' = HandleOf(j)
    BY <1>3, <2>1, <2>2 DEF HandleOf
  <2>4. given'[searches[j].dta] = given[searches[j].dta]
    <3>1. searches[j].dta \in Dtas /\ given \in [Dtas -> Positioned]
      BY SearchIs DEF TypeOK, Positioned
    <3> QED
      BY <1>2, <2>1, <3>1
  <2>5. searches[j].dta \in upset => searches[j].dta \in upset'
    BY <1>2, <2>1
  <2> QED
    BY <2>2, <2>3, <2>4, <2>5 DEF Untouched
<1>4. \A j \in Watched' : j \in Active \ {op.at}
  BY <1>1, WatchedNext
<1> QED
  BY <1>3, <1>4, DeliversKept

LEMMA CloseDelivers ==
  ASSUME IInv, DeliversEveryMatch, CloseAnswered \/ CloseNotSent \/ CloseTimeout
  PROVE  DeliversEveryMatch'
<1> USE DEF IInv
<1>1. Closing /\ op.at \in Active /\ op.at \in Slots /\ DtaInv'
  BY CloseStep, SlotsAreNat DEF CloseAnswered, CloseNotSent, CloseTimeout, Closing, OpInv
<1>2. Active \ {op.at} \subseteq Watched
  BY WatchedIs
<1>3. CASE CloseAnswered \/ CloseGivesUp(dirs) \/ CloseGivesUp(Closed)
  <2>1. GivenUp /\ Proceed
    BY <1>1, <1>3, GivesUp
  <2>2. /\ drift' = drift
        /\ ~drift => \A s \in Drives, h \in Handles : ~At(s, h) => dirs'[s][h] = dirs[s][h]
    BY <2>1 DEF GivenUp
  <2>3. CASE op.phase = "replace"
    <3>1. /\ Install(op.at, op, op.handle) /\ op.handle \in Handles /\ op.drive \in Drives
      BY <2>1, <2>3, OpIs DEF Proceed, TypeOK
    <3>2. \A j \in Active \ {op.at} : searches[j].dta # op.dta
      BY <1>1, <2>3 DEF OpInv, RegistryInv, Registered
    <3>3. ASSUME ~drift
          PROVE  dirs'[op.drive][op.handle].pos = 0
      <4>1. HandleInv(op.drive, op.handle) /\ New(op.drive, op.handle)
        BY <2>3, <3>1, <3>3 DEF HandlesInv, New
      <4>2. ~At(op.drive, op.handle) /\ dirs[op.drive][op.handle].pos = 0
        BY <1>1, <4>1 DEF HandleInv, At
      <4> QED
        BY <2>2, <3>1, <3>3, <4>2
    <3>4. ASSUME ~drift, NEW j \in Active \ {op.at}
          PROVE  dirs'[searches[j].drive][searches[j].handle] = HandleOf(j)
      BY <1>1, <2>2, <3>4, OthersApart DEF HandleOf
    <3> QED
      BY <1>1, <1>2, <2>2, <2>3, <3>1, <3>2, <3>3, <3>4, InstallDelivers
  <2>4. CASE op.phase \in {"release", "flush"}
    <3>1. Drop(op.at)
      BY <2>1, <2>4 DEF Proceed
    <3> QED
      BY <1>1, <1>2, <2>2, <3>1, DropDelivers
  <2> QED
    BY <1>1, <2>3, <2>4 DEF Closing
<1>4. CASE ~(CloseAnswered \/ CloseGivesUp(dirs) \/ CloseGivesUp(Closed))
  <2>1. dirs' \in {dirs, Closed} /\ UNCHANGED <<searches, op, given, upset, drift>>
    BY <1>4 DEF CloseNotSent, CloseTimeout, history
  <2>2. Watched' = Watched
    BY <2>1 DEF Watched, Settled, Active
  <2>3. ASSUME NEW j \in Active
        PROVE  Untouched(j)
    <3>1. searches[j].drive \in Drives /\ searches[j].handle \in Handles
      BY SearchIs
    <3>2. HandleOf(j)' = HandleOf(j) \/ HandleOf(j)' = None
      BY <1>1, <2>1, <3>1, ClosedIs DEF HandleOf
    <3> QED
      BY <2>1, <3>2 DEF Untouched
  <2> QED
    BY <2>1, <2>2, <2>3, WatchedIs, DeliversKept
<1> QED
  BY <1>3, <1>4

LEMMA SweepDelivers ==
  ASSUME IInv, DeliversEveryMatch, SweepConfirmed \/ SweepFails \/ SweepTimeout
  PROVE  DeliversEveryMatch'
<1> USE DEF IInv
<1>1. /\ op.phase = "sweep" /\ op.at \in Active /\ DtaInv' /\ Watched = Active
  BY SweepStep, WatchedIs DEF SweepConfirmed, SweepFails, SweepTimeout, OpInv
<1>2. CASE SweepConfirmed
  <2>1. dirs' = Closed /\ Drop(op.at) /\ drift' = drift
    BY <1>2 DEF SweepConfirmed
  <2>2. \A s \in Drives, h \in Handles : ~At(s, h) => dirs'[s][h] = dirs[s][h]
    BY <1>1, <2>1, ClosedIs
  <2> QED
    BY <1>1, <2>1, <2>2, DropDelivers
<1>3. CASE SweepFails \/ SweepTimeout
  <2>1. /\ UNCHANGED <<searches, given, upset>>
        /\ drift' = drift \/ drift' = (drift \/ dirs' # dirs)
        /\ UNCHANGED dirs \/ drift' = (drift \/ dirs' # dirs)
    BY <1>3 DEF SweepFails, SweepTimeout, history
  <2>2. ~drift' => ~drift /\ UNCHANGED dirs
    BY <2>1
  <2>3. Watched' \subseteq Watched
    BY <1>1, <2>1, WatchedNext DEF Active
  <2>4. UNCHANGED dirs => \A j : Untouched(j)
    BY <2>1 DEF Untouched, HandleOf
  <2> QED
    BY <2>2, <2>3, <2>4, DeliversKept
<1> QED
  BY <1>2, <1>3

\* A call that only starts: at most the search is touched.
LEMMA StartDelivers ==
  ASSUME IInv, DeliversEveryMatch, op = Idle, Kept, UNCHANGED <<dirs, history>>,
         \A i \in Active : searches'[i].eof = searches[i].eof, DtaInv'
  PROVE  DeliversEveryMatch'
<1> USE DEF IInv
<1>1. Watched = Active /\ Active' = Active
  BY NewOps, WatchedIs DEF Kept
<1>2. \A i \in Active : Untouched(i)
  BY DEF Untouched, HandleOf, Kept, history
<1> QED
  BY <1>1, <1>2, WatchedNext, DeliversKept DEF history

LEMMA DeliversStep ==
  ASSUME IInv, DeliversEveryMatch, [Next]_vars
  PROVE  DeliversEveryMatch'
<1> USE DEF IInv
<1>1. DtaInv'
  BY InvStep, TypesApart DEF DtaInv, DtaTypeOK, TypeOK, Registry, Positioned
<1>2. CASE UNCHANGED dtaVars
  BY <1>2, NothingDelivered DEF dtaVars, Watched, Settled, Active
<1>3. CASE op = Idle /\ UNCHANGED <<searches, dirs, history>>
  BY <1>1, <1>3, NothingMoves, StartDelivers
<1>4. ASSUME NEW d \in Dtas, FsnextTnfs(d)
      PROVE  DeliversEveryMatch'
  <2> DEFINE i == Lookup(d)
  <2>1. /\ op = Idle /\ InTnfs(d) /\ touches' = touches + 1 /\ UNCHANGED <<dirs, history>>
        /\ searches' = [searches EXCEPT ![i].touched = touches + 1]
    BY <1>4 DEF FsnextTnfs, FsnextIsTnfs, Call
  <2>2. i \in Active /\ i \in Slots
    BY <2>1, SlotForIs, SlotsAreNat DEF InTnfs, Registered
  <2>3. touches + 1 \in Nat
    BY DEF TypeOK
  <2> HIDE DEF i
  <2>4. Kept
    BY <2>1, <2>2, <2>3, TouchedSet
  <2>5. \A j \in Active : searches'[j].eof = searches[j].eof
    <3>1. \A j \in Slots : searches'[j] = IF j = i THEN [searches[i] EXCEPT !.touched = touches + 1]
                                          ELSE searches[j]
      BY <2>1, <2>2 DEF TypeOK
    <3>2. searches[i] \in Search
      BY <2>2, SearchIs
    <3>3. [searches[i] EXCEPT !.touched = touches + 1].eof = searches[i].eof
      BY <3>2 DEF Search
    <3> QED
      BY <3>1, <3>3, SlotsAreNat
  <2> QED
    BY <1>1, <2>1, <2>4, <2>5, StartDelivers
<1>5. CASE RmdirTimeout \/ RmdirDone
  <2>1. op.phase = "rmdir" /\ UNCHANGED <<searches, dirs, given, upset, drift>>
    BY <1>5 DEF RmdirTimeout, RmdirDone, history
  <2>2. Watched' \subseteq Watched
    BY <1>1, <2>1, WatchedIs, WatchedNext DEF Active
  <2> QED
    BY <2>1, <2>2, NothingDelivered
<1>6. CASE Remount
  <2>1. Active' = {}
    BY <1>6 DEF Remount, OpInv, Active
  <2> QED
    BY <1>1, <2>1, WatchedNext, DeliversIs
<1>7. CASE Smooth \/ Faulty
  BY <1>5, <1>6, <1>7, OpenDelivers, ReadEntryDelivers, ReadEndDelivers, ReadTimeoutDelivers,
     CloseDelivers, SweepDelivers DEF Smooth, Faulty
<1>8. ASSUME NEW d \in Dtas,
             \/ FsfirstSettings(d) \/ FsfirstNetErr(d) \/ FsfirstSdError(d)
             \/ FsfirstFatFs(d) \/ FsnextSettings(d) \/ FsnextFatFs(d)
      PROVE  DeliversEveryMatch'
  BY <1>2, <1>8
     DEF FsfirstSettings, FsfirstNetErr, FsfirstSdError, FsfirstFatFs, FsnextSettings,
         FsnextFatFs, NoTnfs
<1>9. ASSUME NEW d \in Dtas, FsnextVirtual(d) \/ DtaRelease(d)
      PROVE  DeliversEveryMatch'
  BY <1>2, <1>3, <1>9 DEF FsnextVirtual, DtaRelease, Exhausted, Call, NoTnfs
<1>10. ASSUME NEW d \in Dtas, NEW s \in Drives, NEW p \in Paths, NEW n \in Patterns,
              FsfirstTnfs(d, s, p, n)
       PROVE  DeliversEveryMatch'
  BY <1>3, <1>10 DEF FsfirstTnfs, Call
<1>11. ASSUME NEW s \in Drives, NEW p \in Paths, Ddelete(s, p)
       PROVE  DeliversEveryMatch'
  BY <1>3, <1>11 DEF Ddelete, Call
<1>12. CASE Ping
  BY <1>3, <1>12 DEF Ping, Call
<1>13. ASSUME NEW s \in Drives, SessionUp(s)
       PROVE  DeliversEveryMatch'
  BY <1>3, <1>13 DEF SessionUp
<1>14. CASE UNCHANGED vars
  BY <1>2, <1>14 DEF vars
<1> QED
  BY <1>4, <1>7, <1>8, <1>9, <1>10, <1>11, <1>12, <1>13, <1>14 DEF Next

\* However many searches run, are replaced, evicted, flushed or lost, each one
\* hands the Atari every matching entry that its server has delivered, none
\* twice and none forgotten at the end; unless one of its READDIRX went
\* unanswered (tnfs_dta_find_next_match, alloc_tnfs_dta_slot).
THEOREM DeliveriesCorrect == Spec => []DeliversEveryMatch
<1>1. Init => DeliversEveryMatch
  <2>1. Init => Watched = {}
    BY NewOps DEF Init, DtaInit, Watched, Settled, Active
  <2> QED
    BY <2>1, DeliversIs
<1>2. IInv /\ DeliversEveryMatch /\ [Next]_vars => DeliversEveryMatch'
  BY DeliversStep
<1> QED
  BY <1>1, <1>2, HandlesInvariant, PTL DEF Spec

----------------------------------------------------------------------------
(* How long a call waits                                                   *)

LEMMA TriesAdd ==
  /\ Tries \in Nat /\ Tries = Retries + 1 /\ Tries >= 1
  /\ \A n \in Nat : n * Tries \in Nat /\ (n + 1) * Tries = n * Tries + Tries
  /\ \A m, n \in Nat : m <= n => m * Tries <= n * Tries
<1>1. Tries \in Nat /\ Tries = Retries + 1 /\ Tries >= 1
  BY NumbersAssumption DEF Tries
<1> DEFINE t == Tries
<1> HIDE DEF t
<1>2. t \in Nat
  BY <1>1 DEF t
<1>3. \A n \in Nat : n * t \in Nat /\ (n + 1) * t = n * t + t
  BY <1>2
<1>4. ASSUME NEW m \in Nat, NEW n \in Nat, m <= n
      PROVE  m * t <= n * t
  <2>1. PICK k \in Nat : n = m + k
    <3>1. n - m \in Nat /\ n = m + (n - m)
      BY <1>4
    <3> QED
      BY <3>1
  <2>2. (m + k) * t = m * t + k * t
    BY <1>2
  <2>3. m * t \in Nat /\ k * t \in Nat
    BY <1>3
  <2> QED
    BY <2>1, <2>2, <2>3
<1> QED
  BY <1>1, <1>3, <1>4 DEF t

\* The bound of each phase, before and after a step.
LEMMA LeftNow ==
  /\ op.phase = "open" => RequestsLeft = retries + 1 + Tries + Reading
  /\ op.phase = "replace" => RequestsLeft = retries + 1 + Reading
  /\ op.phase = "read" =>
       RequestsLeft = retries + 1 + (MaxRounds - 1 - rounds) * Tries + Tries
  /\ op.phase = "release" => RequestsLeft = retries + 1
  /\ op.phase = "flush" =>
       RequestsLeft = retries + 1 + (SearchSlots - 1 - op.at) * Tries + 1
  /\ op.phase = "remount" => RequestsLeft = 1
  /\ op.phase = "sweep" => RequestsLeft = 1 + (SearchSlots - 1 - op.at) + Tries
  /\ op.phase = "rmdir" => RequestsLeft = retries + 1
  BY DEF RequestsLeft

LEMMA LeftNext ==
  /\ op'.phase = "idle" => RequestsLeft' = 0
  /\ op'.phase = "open" => RequestsLeft' = retries' + 1 + Tries + Reading
  /\ op'.phase = "replace" => RequestsLeft' = retries' + 1 + Reading
  /\ op'.phase = "read" =>
       RequestsLeft' = retries' + 1 + (MaxRounds - 1 - rounds') * Tries + Tries
  /\ op'.phase = "release" => RequestsLeft' = retries' + 1
  /\ op'.phase = "flush" =>
       RequestsLeft' = retries' + 1 + (SearchSlots - 1 - op'.at) * Tries + 1
  /\ op'.phase = "remount" => RequestsLeft' = 1
  /\ op'.phase = "sweep" => RequestsLeft' = 1 + (SearchSlots - 1 - op'.at) + Tries
  /\ op'.phase = "rmdir" => RequestsLeft' = retries' + 1
<1> HIDE DEF Tries, Reading
<1>1. Tries' = Tries /\ Reading' = Reading
  BY DEF Tries, Reading
<1> QED
  BY <1>1 DEF RequestsLeft

\* While a call runs there is a bound, at least one; a request sent again
\* has used up one of them.
LEMMA LeftIsPositive ==
  ASSUME IInv, op # Idle
  PROVE  /\ RequestsLeft \in Nat /\ RequestsLeft >= 1
         /\ UNCHANGED <<op, rounds>> /\ retries' = retries - 1
                /\ op.phase \notin {"sweep", "remount"} => RequestsLeft' < RequestsLeft
         /\ op'.phase = "idle" => RequestsLeft' < RequestsLeft
<1> USE DEF IInv
<1>1. op \in Operations /\ retries \in Nat /\ rounds \in 0 .. MaxRounds - 1
  BY NumbersAssumption DEF TypeOK
<1>2. /\ op.phase \in {"remount", "open", "replace", "read", "release", "flush", "sweep", "rmdir"}
      /\ op.phase \in {"flush", "sweep"} => op.at \in 0 .. SearchSlots - 1
  BY <1>1, OpIs DEF Slots
<1>3. MaxRounds \in Nat \ {0} /\ SearchSlots \in Nat \ {0}
  BY NumbersAssumption
<1>4. Tries \in Nat /\ MaxRounds * Tries \in Nat /\ Reading \in Nat
  BY <1>3, TriesAdd DEF Reading
<1>5. /\ (MaxRounds - 1 - rounds) * Tries \in Nat
      /\ op.phase \in {"flush", "sweep"} =>
           SearchSlots - 1 - op.at \in Nat /\ (SearchSlots - 1 - op.at) * Tries \in Nat
  <2>1. MaxRounds - 1 - rounds \in Nat
    BY <1>1, <1>3
  <2>2. op.phase \in {"flush", "sweep"} => SearchSlots - 1 - op.at \in Nat
    BY <1>2, <1>3
  <2> QED
    BY <2>1, <2>2, TriesAdd
<1> HIDE DEF Tries, Reading
<1>6. RequestsLeft \in Nat /\ RequestsLeft >= 1
  BY <1>1, <1>2, <1>4, <1>5, LeftNow
<1>7. ASSUME UNCHANGED <<op, rounds>>, retries' = retries - 1,
             op.phase \notin {"sweep", "remount"}
      PROVE  RequestsLeft' < RequestsLeft
  BY <1>1, <1>2, <1>4, <1>5, <1>7, LeftNow, LeftNext
<1>8. op'.phase = "idle" => RequestsLeft' < RequestsLeft
  BY <1>6, LeftNext
<1> QED
  BY <1>6, <1>7, <1>8

LEMMA ReadComesCloser ==
  ASSUME IInv, op.phase = "read",
         \/ op' = [phase |-> "release", at |-> op.at] /\ retries' = Retries
         \/ /\ rounds + 1 # MaxRounds /\ rounds' = rounds + 1
            /\ retries' = Retries /\ op' = op
  PROVE  RequestsLeft' < RequestsLeft
<1> USE DEF IInv
<1>1. retries \in Nat /\ rounds \in 0 .. MaxRounds - 1 /\ MaxRounds \in Nat \ {0}
  BY NumbersAssumption DEF TypeOK
<1>2. RequestsLeft = retries + 1 + (MaxRounds - 1 - rounds) * Tries + Tries
  BY LeftNow
<1>3. Tries = Retries + 1 /\ Tries \in Nat /\ Retries \in Nat
  BY TriesAdd, NumbersAssumption
<1> HIDE DEF Tries
<1>4. CASE op' = [phase |-> "release", at |-> op.at] /\ retries' = Retries
  <2>1. RequestsLeft' = Tries
    BY <1>3, <1>4, LeftNext
  <2>2. MaxRounds - 1 - rounds \in Nat
    BY <1>1
  <2>3. (MaxRounds - 1 - rounds) * Tries \in Nat
    BY <2>2, TriesAdd
  <2> QED
    BY <1>1, <1>2, <1>3, <2>1, <2>3
<1>5. CASE /\ rounds + 1 # MaxRounds /\ rounds' = rounds + 1
           /\ retries' = Retries /\ op' = op
  <2> DEFINE n == MaxRounds - 1 - rounds'
           q == n * Tries
  <2>1. n \in Nat /\ n + 1 = MaxRounds - 1 - rounds
    BY <1>1, <1>5
  <2>2. RequestsLeft' = Tries + q + Tries
    BY <1>3, <1>5, LeftNext
  <2> HIDE DEF n
  <2>3. (n + 1) * Tries = q + Tries /\ q \in Nat
    BY <2>1, TriesAdd
  <2>4. (MaxRounds - 1 - rounds) * Tries = q + Tries
    BY <2>1, <2>3
  <2>5. RequestsLeft = retries + 1 + (q + Tries) + Tries
    BY <1>2, <2>4
  <2>6. q \in Nat /\ retries \in Nat /\ Tries \in Nat
    BY <1>1, <1>3, <2>3
  <2>7. \A a, b, t \in Nat : t + b + t < a + 1 + (b + t) + t
    OBVIOUS
  <2> HIDE DEF q
  <2>8. Tries + q + Tries < retries + 1 + (q + Tries) + Tries
    BY <2>6, <2>7
  <2> QED
    BY <2>2, <2>5, <2>8, Zenon
<1> QED
  BY <1>4, <1>5

\* The reading that follows an installed search fits into Reading.
LEMMA InstallComesCloser ==
  ASSUME IInv, op.phase \in {"open", "replace"}, op'.phase = "read", retries' = Retries,
         rounds' = 0
  PROVE  RequestsLeft' < RequestsLeft
<1> USE DEF IInv
<1>1. retries \in Nat /\ MaxRounds \in Nat \ {0} /\ Tries \in Nat /\ Retries \in Nat
  BY NumbersAssumption, TriesAdd DEF TypeOK
<1>2. RequestsLeft' = Retries + 1 + (MaxRounds - 1) * Tries + Tries
  <2>1. MaxRounds - 1 - rounds' = MaxRounds - 1
    BY <1>1
  <2> QED
    BY <2>1, LeftNext
<1>3. (MaxRounds - 1) * Tries + Tries = MaxRounds * Tries /\ MaxRounds * Tries \in Nat
  <2>1. MaxRounds - 1 \in Nat /\ (MaxRounds - 1) + 1 = MaxRounds
    BY <1>1
  <2> QED
    BY <1>1, <2>1, TriesAdd
<1>4. Reading = MaxRounds * Tries + Tries
  BY DEF Reading
<1>5. RequestsLeft \in {retries + 1 + Tries + Reading, retries + 1 + Reading}
  BY LeftNow
<1> HIDE DEF Tries, Reading
<1>6. RequestsLeft' = Reading /\ Reading \in Nat
  <2>1. Tries = Retries + 1
    BY TriesAdd
  <2>2. (MaxRounds - 1) * Tries \in Nat
    BY <1>1, TriesAdd
  <2> QED
    BY <1>1, <1>2, <1>3, <1>4, <2>1, <2>2
<1> QED
  BY <1>1, <1>5, <1>6

LEMMA SlotsComeCloser ==
  ASSUME IInv, op.phase \in {"flush", "sweep"},
         \/ /\ op.phase = "flush" /\ op'.phase = "flush" /\ retries' = Retries
            /\ op'.at \in Slots /\ op'.at > op.at
         \/ op.phase = "flush" /\ op'.phase = "remount"
         \/ op.phase = "sweep" /\ op'.phase = "sweep" /\ op'.at \in Slots /\ op'.at > op.at
         \/ op.phase = "sweep" /\ op'.phase = "rmdir" /\ retries' = Retries
  PROVE  RequestsLeft' < RequestsLeft
<1> USE DEF IInv
<1>1. retries \in Nat /\ SearchSlots \in Nat \ {0} /\ Retries \in Nat /\ op.at \in 0 .. SearchSlots - 1
  BY NumbersAssumption, OpIs DEF TypeOK, Slots
<1> DEFINE m == SearchSlots - 1 - op.at
           n == SearchSlots - 1 - op'.at
<1>2. m \in Nat
  BY <1>1
<1>3. m * Tries \in Nat /\ Tries \in Nat /\ Tries = Retries + 1
  BY <1>2, TriesAdd
<1>4. /\ op.phase = "flush" => RequestsLeft = retries + 1 + m * Tries + 1
      /\ op.phase = "sweep" => RequestsLeft = 1 + m + Tries
      /\ op'.phase = "flush" => RequestsLeft' = retries' + 1 + n * Tries + 1
      /\ op'.phase = "sweep" => RequestsLeft' = 1 + n + Tries
      /\ op'.phase = "remount" => RequestsLeft' = 1
      /\ op'.phase = "rmdir" => RequestsLeft' = retries' + 1
  BY LeftNow, LeftNext
<1>5. op'.at \in Slots /\ op'.at > op.at => n \in Nat /\ n + 1 <= m
  BY <1>1 DEF Slots
<1> HIDE DEF m, n, Tries
<1>6. n \in Nat /\ n + 1 <= m => n * Tries + Tries <= m * Tries /\ n * Tries \in Nat
  <2>1. ASSUME n \in Nat, n + 1 <= m
        PROVE  (n + 1) * Tries <= m * Tries /\ (n + 1) * Tries = n * Tries + Tries
    BY <1>2, <2>1, TriesAdd
  <2> QED
    BY <2>1, TriesAdd
<1> QED
  BY <1>1, <1>2, <1>3, <1>4, <1>5, <1>6

LEMMA ComesCloser ==
  ASSUME IInv, Next, op # Idle
  PROVE  RequestsLeft' < RequestsLeft
<1> USE DEF IInv
<1>1. Smooth \/ Faulty
  BY DEF Next, Call, FsfirstSettings, FsfirstNetErr, FsfirstSdError, FsfirstFatFs, FsfirstTnfs,
     FsnextSettings, FsnextFatFs, FsnextVirtual, FsnextTnfs, FsnextIsTnfs, DtaRelease,
     Ddelete, Ping, SessionUp
<1>2. CASE OpenAnswered \/ OpenFails \/ OpenTimeout
  <2>1. op.phase = "open"
    BY <1>2 DEF OpenAnswered, OpenFails, OpenTimeout
  <2>2. \/ op' = Idle
        \/ retries' = retries - 1 /\ UNCHANGED <<op, rounds>>
        \/ op'.phase = "read" /\ retries' = Retries /\ rounds' = 0
        \/ op'.phase = "replace" /\ retries' = Retries
    BY <1>2 DEF OpenAnswered, OpenFails, OpenTimeout, Return, Install, BeginRead
  <2>3. CASE op'.phase = "replace" /\ retries' = Retries
    <3>1. RequestsLeft = retries + 1 + Tries + Reading /\ RequestsLeft' = Retries + 1 + Reading
      BY <2>1, <2>3, LeftNow, LeftNext
    <3>2. /\ retries \in Nat /\ Retries \in Nat /\ Tries \in Nat /\ Tries = Retries + 1
          /\ MaxRounds * Tries \in Nat
      BY NumbersAssumption, TriesAdd DEF TypeOK
    <3> HIDE DEF Tries
    <3>3. Reading \in Nat
      BY <3>2 DEF Reading
    <3> HIDE DEF Reading
    <3> QED
      BY <3>1, <3>2, <3>3
  <2> QED
    BY <2>1, <2>2, <2>3, NewOps, LeftIsPositive, InstallComesCloser
<1>3. CASE (\E last \in BOOLEAN : ReadEntry(last)) \/ ReadEnd \/ ReadFails \/ ReadTimeout
  <2>1. op.phase = "read"
    BY <1>3 DEF ReadEntry, ReadEnd, ReadFails, ReadTimeout
  <2>2. \/ op' = Idle
        \/ retries' = retries - 1 /\ UNCHANGED <<op, rounds>>
        \/ op' = [phase |-> "release", at |-> op.at] /\ retries' = Retries
        \/ /\ rounds + 1 # MaxRounds /\ rounds' = rounds + 1
           /\ retries' = Retries /\ op' = op
    BY <1>3 DEF ReadEntry, ReadEnd, ReadFails, ReadTimeout, ReadOn, Found, Release, Return
  <2> QED
    BY <2>1, <2>2, NewOps, LeftIsPositive, ReadComesCloser
<1>4. CASE CloseAnswered \/ CloseNotSent \/ CloseTimeout
  <2>1. Closing /\ op.at \in Slots /\ op.at \in Nat
    BY <1>4, SlotsAreNat DEF CloseAnswered, CloseNotSent, CloseTimeout, Closing, OpInv
  <2>2. Proceed \/ (retries' = retries - 1 /\ UNCHANGED <<op, rounds>>)
    BY <1>4 DEF CloseAnswered, CloseNotSent, CloseTimeout, CloseGivesUp
  <2>3. CASE Proceed
    <3>1. CASE op.phase = "replace"
      <4>1. op'.phase = "read" /\ retries' = Retries /\ rounds' = 0
        BY <2>3, <3>1 DEF Proceed, Install, BeginRead
      <4> QED
        BY <3>1, <4>1, InstallComesCloser
    <3>2. CASE op.phase = "release"
      <4>1. op' = Idle
        BY <2>3, <3>2 DEF Proceed, Return
      <4> QED
        BY <4>1, NewOps, LeftIsPositive
    <3>3. CASE op.phase = "flush"
      <4>1. FlushFrom(op.at + 1)
        BY <2>3, <3>3 DEF Proceed
      <4>2. \/ op'.phase = "remount"
            \/ /\ op'.phase = "flush" /\ op'.at \in Active /\ op'.at >= op.at + 1
               /\ retries' = Retries
        <5>1. \/ op'.phase = "remount"
              \/ op'.phase = "flush" /\ op'.at \in Active /\ op'.at >= op.at + 1
          BY <2>1, <4>1, FlushFromIs
        <5>2. op'.phase = "flush" => retries' = Retries
          BY <4>1 DEF FlushFrom
        <5> QED
          BY <5>1, <5>2
      <4>3. op'.at \in Active /\ op'.at >= op.at + 1 => op'.at \in Slots /\ op'.at > op.at
        <5>1. op'.at \in Slots /\ op'.at >= op.at + 1 => op'.at > op.at
          BY <2>1 DEF Slots
        <5> QED
          BY <5>1, SlotsAreNat
      <4> QED
        BY <3>3, <4>2, <4>3, SlotsComeCloser
    <3> QED
      BY <2>1, <3>1, <3>2, <3>3 DEF Closing
  <2> QED
    BY <2>1, <2>2, <2>3, LeftIsPositive DEF Closing
<1>5. CASE SweepConfirmed \/ SweepFails \/ SweepTimeout
  <2>1. /\ op.phase = "sweep" /\ op.at \in Nat /\ op.at \in Slots
        /\ op.drive \in Drives /\ op.path \in Paths /\ op.ok \in BOOLEAN
    BY <1>5, OpIs, SlotsAreNat DEF SweepConfirmed, SweepFails, SweepTimeout, TypeOK
  <2>2. \E ok \in BOOLEAN : SweepFrom(op.drive, op.path, op.at + 1, ok)
    <3>1. (op.ok /\ TRUE) \in BOOLEAN /\ (op.ok /\ FALSE) \in BOOLEAN
      BY <2>1
    <3>2. \/ SweepFrom(op.drive, op.path, op.at + 1, op.ok /\ TRUE)
          \/ SweepFrom(op.drive, op.path, op.at + 1, op.ok /\ FALSE)
      BY <1>5 DEF SweepConfirmed, SweepFails, SweepTimeout, Sweep
    <3> QED
      BY <3>1, <3>2, Zenon
  <2>3. PICK ok \in BOOLEAN : SweepFrom(op.drive, op.path, op.at + 1, ok)
    BY <2>2
  <2>4. \/ op' = Idle
        \/ op'.phase = "rmdir" /\ retries' = Retries
        \/ /\ op'.phase = "sweep" /\ op'.at \in InTheWay(op.drive, op.path)
           /\ op'.at >= op.at + 1
    BY <2>1, <2>3, SweepFromIs
  <2>5. InTheWay(op.drive, op.path) \subseteq Slots
    BY SlotsAreNat DEF InTheWay
  <2>6. op'.at \in Slots /\ op'.at >= op.at + 1 => op'.at > op.at
    BY <2>1, SlotsAreNat DEF Slots
  <2> QED
    BY <2>1, <2>4, <2>5, <2>6, NewOps, LeftIsPositive, SlotsComeCloser
<1>6. CASE RmdirDone \/ RmdirTimeout
  <2>1. /\ op.phase = "rmdir"
        /\ op' = Idle \/ (retries' = retries - 1 /\ UNCHANGED <<op, rounds>>)
    BY <1>6 DEF RmdirDone, RmdirTimeout, Return
  <2> QED
    BY <2>1, NewOps, LeftIsPositive
<1>7. CASE Remount
  <2>1. op' = Idle
    BY <1>7 DEF Remount, Return
  <2> QED
    BY <2>1, NewOps, LeftIsPositive
<1> QED
  BY <1>1, <1>2, <1>3, <1>4, <1>5, <1>6, <1>7 DEF Smooth, Faulty

\* No call on a TNFS drive keeps the Atari waiting for ever, for any numbers of
\* slots, rounds and retries: every round trip, answered or not, uses up one of
\* the requests it may still send (the retry and round counters of
\* tnfs_dta_find_next_match, tnfs_dta_closedir and their callers).
THEOREM CallsComeCloser == Spec => EveryStepComesCloser
<1>1. IInv /\ [Next]_vars => [op # Idle => RequestsLeft' < RequestsLeft]_vars
  BY ComesCloser
<1> QED
  BY <1>1, HandlesInvariant, PTL DEF Spec, EveryStepComesCloser
=============================================================================
