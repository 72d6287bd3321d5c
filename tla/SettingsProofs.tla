--------------------------- MODULE SettingsProofs ----------------------------
(***************************************************************************)
(* What Settings guarantees for any number of drives, any letters, any     *)
(* pages and any number of commands, resets and losses of power: that it   *)
(* implements FlashStore, once for each sector, and the invariants of the  *)
(* runs.  First what the operators on drive lists return, then the         *)
(* invariant, then the two refinements.                                    *)
(***************************************************************************)
EXTENDS Settings, FiniteSetTheorems, SequenceTheorems, TLAPS

ValidLists == {c \in Lists : ValidStructure(c)}

----------------------------------------------------------------------------
(* Drive lists                                                             *)

\* The default list is a valid one.
LEMMA DefaultsValid == Defaults \in ValidLists
<1> DEFINE c == Defaults
<1>1. DefaultDrive \in UsedRecords
  BY DriveConfigAssumption DEF DefaultDrive, Record, UsedRecords, DriveKinds
<1>2. c.slots \in [Slots -> UsedRecords \cup {Empty}]
  BY <1>1 DEF Defaults
<1>3. c \in Lists
  BY <1>2, DriveConfigAssumption DEF Defaults, Lists
<1>4. Configured(c) \subseteq {0}
  BY DEF Configured, Defaults, Empty
<1>5. \A i \in Configured(c) : c.slots[i] = DefaultDrive
  BY <1>4 DEF Configured, Defaults
<1>6. ValidRecord(DefaultDrive) /\ DefaultDrive.letter # c.settings
  BY DriveConfigAssumption
     DEF ValidRecord, DefaultDrive, Record, DriveKinds, Defaults
<1>7. c.settings \in Letters
  BY DriveConfigAssumption DEF Defaults
<1> QED
  BY <1>3, <1>4, <1>5, <1>6, <1>7 DEF ValidLists, ValidStructure

\* A list of version 2 becomes a list, if it is valid.
LEMMA MigratedValid ==
  ASSUME NEW old \in OldLists, ValidStructure(Migrated(old))
  PROVE  Migrated(old) \in ValidLists
<1> DEFINE c == Migrated(old)
<1>1. c = [settings |-> c.settings, slots |-> c.slots] /\ c.settings \in Letters
  BY DEF Migrated, OldLists
<1>2. ASSUME NEW i \in Slots
      PROVE  c.slots[i] \in UsedRecords \cup {Empty}
  <2>1. CASE old.slots[i].used
    <3>1. c.slots[i] = Record("enabled", old.slots[i].letter, old.slots[i].kind)
      BY <2>1 DEF Migrated
    <3>2. i \in Configured(c)
      BY <3>1 DEF Configured, Record
    <3>3. ValidRecord(c.slots[i])
      BY <3>2 DEF ValidStructure
    <3> QED
      BY <3>1, <3>3 DEF ValidRecord, Record, UsedRecords
  <2>2. CASE ~old.slots[i].used
    BY <2>2 DEF Migrated
  <2> QED
    BY <2>1, <2>2
<1>3. c.slots \in [Slots -> UsedRecords \cup {Empty}]
  BY <1>2 DEF Migrated
<1> QED
  BY <1>1, <1>3 DEF Lists, ValidLists

\* Whatever the sector holds, a boot makes a valid list of it.
LEMMA LoadsValid ==
  ASSUME NEW image \in Images
  PROVE  LoadDrives(image) \in ValidLists
<1>1. CASE image = Unreadable
  BY <1>1, DefaultsValid DEF LoadDrives, Unreadable
<1>2. CASE image \in [version : {3}, list : Lists]
  BY <1>2, DefaultsValid DEF LoadDrives, ValidLists
<1>3. CASE image \in [version : {2}, list : OldLists]
  BY <1>3, DefaultsValid, MigratedValid DEF LoadDrives
<1> QED
  BY <1>1, <1>2, <1>3 DEF Images

\* What is written is what is read, and an erased sector gives the defaults.
LEMMA LoadsWhatIsWritten ==
  /\ Unreadable \in Images /\ LoadDrives(Unreadable) = Defaults
  /\ Unreadable.version = 0
  /\ \A c \in ValidLists :
       /\ Image(c) \in Images /\ LoadDrives(Image(c)) = c
       /\ Image(c).version = 3
  BY DEF Images, LoadDrives, Unreadable, Image, ValidLists

LEMMA SystemLoads ==
  /\ SystemFallback \in Systems /\ LoadSystem(None) = SystemFallback
  /\ \A s \in Systems : s # None /\ LoadSystem(s) = s
  BY SettingsAssumption DEF SystemFallback, LoadSystem

\* A page put into the system settings leaves the other one alone.
LEMMA PageSet ==
  ASSUME NEW s \in Systems, NEW page \in SystemPages, NEW v \in PageValues(page)
  PROVE  /\ [s EXCEPT ![page] = v] \in Systems
         /\ \A q \in SystemPages \ {page} : [s EXCEPT ![page] = v][q] = s[q]
  BY DEF Systems, SystemPages, PageValues

----------------------------------------------------------------------------
(* The table of runtime drives                                             *)

\* Rank numbers the members of a set of slots without a gap.
LEMMA RankNumbers ==
  ASSUME NEW S \in SUBSET Slots
  PROVE  /\ IsFiniteSet(S) /\ Cardinality(S) \in Nat
         /\ \A i, j \in S : Rank(i, S) = Rank(j, S) => i = j
         /\ \A k \in 1 .. Cardinality(S) : \E i \in S : Rank(i, S) = k
<1>1. IsFiniteSet(S) /\ S \subseteq Int
  <2>1. MaxDrives \in Nat
    BY DriveConfigAssumption
  <2>2. IsFiniteSet(Slots) /\ Slots \subseteq Int
    BY <2>1, FS_Interval DEF Slots
  <2> QED
    BY <2>2, FS_Subset
<1>2. Cardinality(S) \in Nat
  BY <1>1, FS_CardinalityType
<1> DEFINE Upto(i) == {j \in S : j <= i}
<1>3. ASSUME NEW i \in S
      PROVE  /\ IsFiniteSet(Upto(i))
             /\ Cardinality(Upto(i)) \in 1 .. Cardinality(S)
  <2>1. Upto(i) \in SUBSET S /\ i \in Upto(i)
    BY <1>1
  <2>2. IsFiniteSet(Upto(i)) /\ Cardinality(Upto(i)) <= Cardinality(S)
    BY <1>1, <2>1, FS_Subset
  <2>3. Cardinality(Upto(i)) \in Nat /\ Cardinality(Upto(i)) # 0
    BY <2>1, <2>2, FS_CardinalityType, FS_EmptySet
  <2> QED
    BY <1>2, <2>2, <2>3
<1>4. ASSUME NEW i \in S, NEW j \in S, i < j
      PROVE  Cardinality(Upto(i)) < Cardinality(Upto(j))
  <2>0. i \in Int /\ j \in Int
    BY <1>1
  <2>5. \A x \in Upto(i) : x \in Upto(j) \ {j}
    BY <1>1, <1>4, <2>0
  <2>6. IsFiniteSet(Upto(j))
    BY <1>3
  <2>1. j \in Upto(j) /\ Upto(i) \in SUBSET (Upto(j) \ {j})
    <3>1. j \in Upto(j)
      BY <2>0
    <3>2. Upto(i) \subseteq Upto(j) \ {j}
      BY <2>5, Zenon
    <3> QED
      BY <3>1, <3>2
  <2>2. /\ IsFiniteSet(Upto(j) \ {j})
        /\ Cardinality(Upto(j) \ {j}) = Cardinality(Upto(j)) - 1
    BY <2>6, <2>1, FS_RemoveElement
  <2>3. Cardinality(Upto(i)) <= Cardinality(Upto(j)) - 1
    BY <2>1, <2>2, FS_Subset
  <2>4. Cardinality(Upto(i)) \in Nat /\ Cardinality(Upto(j)) \in Nat
    BY <1>2, <1>3
  <2> QED
    BY <2>3, <2>4
<1>5. \A i, j \in S : Rank(i, S) = Rank(j, S) => i = j
  <2> SUFFICES ASSUME NEW i \in S, NEW j \in S, Cardinality(Upto(i)) = Cardinality(Upto(j))
               PROVE  i = j
    BY DEF Rank
  <2>1. ~(i < j) /\ ~(j < i)
    BY <1>2, <1>3, <1>4
  <2> QED
    BY <1>1, <2>1
<1>6. \A k \in 1 .. Cardinality(S) : \E i \in S : Rank(i, S) = k
  <2> DEFINE f == [i \in S |-> Rank(i, S)]
  <2>1. f \in [S -> 1 .. Cardinality(S)]
    BY <1>3 DEF Rank
  <2>2. f \in Injection(S, 1 .. Cardinality(S))
    BY <1>5, <2>1 DEF Injection, IsInjective
  <2>3. /\ IsFiniteSet(1 .. Cardinality(S))
        /\ Cardinality(1 .. Cardinality(S)) = Cardinality(S)
    BY <1>2, FS_Interval
  <2>4. f \in Surjection(S, 1 .. Cardinality(S))
    BY <2>2, <2>3, FS_Injection
  <2> QED
    BY <2>4 DEF Surjection
<1> QED
  BY <1>1, <1>2, <1>5, <1>6

\* What the table of a valid list is made of: the boot drive, then each of
\* the other drives in a place of its own, then the SETTINGS disk.
LEMMA TableParts ==
  ASSUME NEW c \in ValidLists
  PROVE  /\ Head0(c) \in {<<>>, <<SettingsDrive(c)>>}
              \cup {<<Drive(c.slots[i])>> : i \in Enabled(c) \ Others(c)}
         /\ Head0(c) = <<SettingsDrive(c)>> <=> BootLetter(c) = c.settings
         /\ Others(c) \subseteq Enabled(c)
<1>1. Enabled(c) \subseteq Slots /\ MaxDrives \in Nat
  BY DriveConfigAssumption DEF Enabled
<1>2. \A i \in Enabled(c) : c.slots[i].letter # c.settings
  BY DEF Enabled, Configured, ValidLists, ValidStructure
<1>3. CASE BootLetter(c) = c.settings
  BY <1>3 DEF Head0, Others
<1>4. CASE BootLetter(c) # c.settings /\ WithBootLetter(c) = {}
  BY <1>4 DEF Head0, Others, SettingsDrive
<1>5. CASE BootLetter(c) # c.settings /\ WithBootLetter(c) # {}
  <2> DEFINE b == First(WithBootLetter(c))
  <2>1. \A i, j \in WithBootLetter(c) : i = j
    BY DEF WithBootLetter, Enabled, Configured, ValidLists, ValidStructure
  <2>2. WithBootLetter(c) \subseteq Int
    BY <1>1 DEF WithBootLetter, Slots
  <2>3. b \in WithBootLetter(c)
    BY <1>5, <2>1, <2>2 DEF First
  <2>4. b \in Enabled(c) /\ Head0(c) = <<Drive(c.slots[b])>> /\ Others(c) = Enabled(c) \ {b}
    BY <1>5, <2>3 DEF Head0, Others, WithBootLetter
  <2>5. Drive(c.slots[b]).letter # SettingsDrive(c).letter
    BY <1>2, <2>4 DEF Drive, SettingsDrive
  <2> QED
    BY <1>5, <2>4, <2>5
<1> QED
  BY <1>3, <1>4, <1>5

\* The drives after the boot drive, each in a place of its own.
LEMMA TailParts ==
  ASSUME NEW c \in ValidLists
  PROVE  /\ Cardinality(Published(c)) \in Nat
         /\ Len(Tail0(c)) = Cardinality(Published(c))
         /\ Tail0(c) \in Seq({Drive(c.slots[i]) : i \in Others(c)})
         /\ \A j, k \in 1 .. Len(Tail0(c)) : Tail0(c)[j].letter = Tail0(c)[k].letter => j = k
<1> DEFINE P == Published(c)
           place(k) == CHOOSE i \in P : Rank(i, P) = k
<1>1. P \in SUBSET Slots /\ P \subseteq Others(c) /\ P \subseteq Enabled(c)
  BY TableParts DEF Published, Enabled
<1>2. /\ Cardinality(P) \in Nat
      /\ \A k \in 1 .. Cardinality(P) : \E i \in P : Rank(i, P) = k
  BY <1>1, RankNumbers
<1>3. \A k \in 1 .. Cardinality(P) : place(k) \in P /\ Rank(place(k), P) = k
  BY <1>2
<1>4. Tail0(c) = [k \in 1 .. Cardinality(P) |-> Drive(c.slots[place(k)])]
  BY DEF Tail0
<1> HIDE DEF place, P
<1>5. Tail0(c) \in [1 .. Cardinality(P) -> {Drive(c.slots[i]) : i \in Others(c)}]
  BY <1>1, <1>3, <1>4
<1>6. /\ Tail0(c) \in Seq({Drive(c.slots[i]) : i \in Others(c)})
      /\ Len(Tail0(c)) = Cardinality(P)
  BY <1>2, <1>5, LenProperties
<1>7. ASSUME NEW j \in 1 .. Cardinality(P), NEW k \in 1 .. Cardinality(P),
             Tail0(c)[j].letter = Tail0(c)[k].letter
      PROVE  j = k
  <2>1. c.slots[place(j)].letter = c.slots[place(k)].letter
    BY <1>4, <1>7 DEF Drive
  <2>2. place(j) \in Configured(c) /\ place(k) \in Configured(c)
    BY <1>1, <1>3 DEF Enabled, Configured
  <2>3. place(j) = place(k)
    BY <2>1, <2>2 DEF ValidLists, ValidStructure
  <2> QED
    BY <1>3, <2>3
<1> QED
  BY <1>2, <1>6, <1>7 DEF P

\* The statement of LettersDistinct about one list.
Distinct(c) ==
    LET table == Table(c)
        slots == 1 .. Len(table) IN
      /\ \A j, k \in slots : table[j].letter = table[k].letter => j = k
      /\ \E k \in slots : table[k] = SettingsDrive(c)

\* A valid list gives each letter to one drive, SETTINGS among them.
LEMMA TableDistinct ==
  ASSUME NEW c \in ValidLists
  PROVE  Distinct(c)
<1> DEFINE H == Head0(c)
           T == Tail0(c)
           E == IF BootLetter(c) = c.settings THEN <<>> ELSE <<SettingsDrive(c)>>
           All == {Drive(c.slots[i]) : i \in Enabled(c)} \cup {SettingsDrive(c)}
           Rest == {Drive(c.slots[i]) : i \in Others(c)}
<1>1. \A i, j \in Enabled(c) : c.slots[i].letter = c.slots[j].letter => i = j
  BY DEF Enabled, Configured, ValidLists, ValidStructure
<1>2. \A i \in Enabled(c) : c.slots[i].letter # c.settings
  BY DEF Enabled, Configured, ValidLists, ValidStructure
<1>0. /\ \A i \in Enabled(c) : <<Drive(c.slots[i])>> \in Seq(All)
      /\ <<SettingsDrive(c)>> \in Seq(All) /\ <<>> \in Seq(All)
      /\ \A x : Len(<<x>>) = 1
  <2>1. SettingsDrive(c) \in All /\ \A i \in Enabled(c) : Drive(c.slots[i]) \in All
    OBVIOUS
  <2> HIDE DEF All
  <2> QED
    BY <2>1, EmptySeq
<1>3. H \in Seq(All) /\ Len(H) \in {0, 1}
  <2>1. CASE H = <<>>
    BY <1>0, <2>1
  <2>2. CASE H = <<SettingsDrive(c)>>
    BY <1>0, <2>2
  <2>3. CASE \E i \in Enabled(c) : H = <<Drive(c.slots[i])>>
    BY <1>0, <2>3
  <2> QED
    BY <2>1, <2>2, <2>3, TableParts
<1>4. T \in Seq(All) /\ T \in Seq(Rest) /\ Len(T) \in Nat
  <2>1. T \in Seq(Rest) /\ Len(T) \in Nat
    BY TailParts
  <2>2. Rest \subseteq All
    BY TableParts
  <2> HIDE DEF Rest, All, T
  <2> QED
    BY <2>1, <2>2
<1>5. E \in Seq(All) /\ Len(E) \in {0, 1}
  BY <1>0
<1>6. H \o T \in Seq(All) /\ Len(H \o T) = Len(H) + Len(T)
  BY <1>3, <1>4, ConcatProperties
<1>7. Table(c) = (H \o T) \o E
  BY DEF Table
<1>8. /\ Len(Table(c)) = Len(H) + Len(T) + Len(E)
      /\ \A k \in 1 .. Len(Table(c)) :
           \/ k \in 1 .. Len(H) /\ Table(c)[k] = H[k]
           \/ k - Len(H) \in 1 .. Len(T) /\ Table(c)[k] = T[k - Len(H)]
           \/ k - Len(H) - Len(T) \in 1 .. Len(E) /\ Table(c)[k] = E[k - Len(H) - Len(T)]
  BY <1>3, <1>4, <1>5, <1>6, <1>7, ConcatProperties
<1>9. \A k \in 1 .. Len(T) : T[k] \in Rest
  <2> HIDE DEF Rest, T
  <2> QED
    BY <1>4
<1>10. \A k \in 1 .. Len(T) : T[k].letter # c.settings
  BY <1>2, <1>9, TableParts DEF Drive
<1>11. \A k \in 1 .. Len(H), j \in 1 .. Len(T) : H[k].letter # T[j].letter
  BY <1>1, <1>2, <1>3, <1>9, TableParts DEF Drive, SettingsDrive
<1>12. \A k \in 1 .. Len(H), j \in 1 .. Len(E) : H[k].letter # E[j].letter
  BY <1>2, <1>3, <1>5, TableParts DEF Drive, SettingsDrive
<1>13. \A k \in 1 .. Len(E) : E[k] = SettingsDrive(c)
  OBVIOUS
<1>14. \A j, k \in 1 .. Len(T) : T[j].letter = T[k].letter => j = k
  BY TailParts
<1>15. Len(E) = 0 => Len(H) = 1 /\ H[1] = SettingsDrive(c)
  BY TableParts
<1> HIDE DEF H, T, E, All, Rest
<1>16. SettingsDrive(c).letter = c.settings
  BY DEF SettingsDrive
<1>17. \A j, k \in 1 .. Len(Table(c)) : Table(c)[j].letter = Table(c)[k].letter => j = k
  <2> DEFINE tb == Table(c)
             InH(k) == k \in 1 .. Len(H) /\ tb[k] = H[k]
             InT(k) == k - Len(H) \in 1 .. Len(T) /\ tb[k] = T[k - Len(H)]
             InE(k) == k - Len(H) - Len(T) \in 1 .. Len(E) /\ tb[k] = E[k - Len(H) - Len(T)]
             Same(j, k) == tb[j].letter = tb[k].letter
  <2>1. \A k \in 1 .. Len(tb) : k \in Int /\ (InH(k) \/ InT(k) \/ InE(k))
    BY <1>8
  <2>2. \A j, k : InH(j) /\ InH(k) => j = k
    BY <1>3
  <2>3. \A j, k : InH(j) /\ InT(k) => ~Same(j, k) /\ ~Same(k, j)
    BY <1>11
  <2>4. \A j, k : InH(j) /\ InE(k) => ~Same(j, k) /\ ~Same(k, j)
    BY <1>12
  <2>5. \A j, k \in Int : InT(j) /\ InT(k) /\ Same(j, k) => j = k
    <3> SUFFICES ASSUME NEW j \in Int, NEW k \in Int, InT(j), InT(k), Same(j, k)
                 PROVE  j = k
      OBVIOUS
    <3>1. j - Len(H) = k - Len(H)
      BY <1>14
    <3> QED
      BY <1>3, <3>1
  <2>6. \A j, k : InT(j) /\ InE(k) => ~Same(j, k) /\ ~Same(k, j)
    BY <1>10, <1>13, <1>16
  <2>7. \A j, k \in Int : InE(j) /\ InE(k) => j = k
    BY <1>3, <1>4, <1>5
  <2> HIDE DEF InH, InT, InE, Same, tb
  <2>8. \A j, k \in 1 .. Len(tb) : Same(j, k) => j = k
    BY <2>1, <2>2, <2>3, <2>4, <2>5, <2>6, <2>7
  <2> QED
    BY <2>8 DEF Same, tb
<1>18. \E k \in 1 .. Len(Table(c)) : Table(c)[k] = SettingsDrive(c)
  <2>1. CASE Len(E) = 0
    <3>1. Len(H) = 1 /\ H[1] = SettingsDrive(c)
      BY <1>15, <2>1
    <3>3. Len(Table(c)) = 1 + Len(T)
      BY <1>3, <1>4, <1>8, <2>1, <3>1
    <3>4. 1 \in 1 .. Len(Table(c))
      BY <1>4, <3>3
    <3>2. Table(c)[1] = H[1]
      BY <1>3, <1>4, <1>5, <1>8, <3>1, <3>4
    <3> QED
      BY <3>1, <3>2, <3>4
  <2>2. CASE Len(E) = 1
    <3> DEFINE n == Len(Table(c))
    <3>1. n \in 1 .. n /\ n - Len(H) - Len(T) = 1 /\ n - Len(H) = Len(T) + 1 /\ n > Len(H)
      BY <1>3, <1>4, <1>8, <2>2
    <3>2. Table(c)[n] = E[1]
      BY <1>3, <1>4, <1>8, <3>1
    <3> QED
      BY <1>13, <2>2, <3>1, <3>2
  <2> QED
    BY <1>5, <2>1, <2>2 DEF E
<1> QED
  BY <1>17, <1>18 DEF Distinct

----------------------------------------------------------------------------
(* The invariant                                                           *)

OpInv ==
    \/ op \in {Off, Select, Idle, Halted}
    \/ op \in [phase : {"erase", "program", "verify"}, page : DrivePages \cup SystemPages]

\* Commands are served, or one of them is saving.
Serving == op = Idle \/ op.page \in {"drives"} \cup SystemPages

\* What is edited has the shape of a list, what is saved and what is
\* published is valid, and a save leaves the list or nothing in the sector.
DriveInv ==
    /\ Serving => ram \in Lists /\ running \in ValidLists
    /\ ~Serving => running = None /\ pending = FALSE
    /\ op.page \in DrivePages => ram \in ValidLists
    /\ op.page \in DrivePages /\ op.phase = "program" => driveSector = Unreadable
    /\ op.page \in DrivePages /\ op.phase = "verify" => driveSector \in {Unreadable, Image(ram)}

PublishedInv ==
    Serving /\ op.page # "drives" /\ ~pending /\ lastSave["drives"] # "failed" =>
      running = LoadDrives(driveSector)

\* The same for the system settings; a page differs from the one of the boot
\* only if it was staged.
SystemInv ==
    /\ op = Select => sys = LoadSystem(sysSector)
    /\ Serving => sys \in Systems /\ bootSys \in Systems
    /\ ~Serving => bootSys = None
    /\ \A page \in SystemPages : staged[page] \in PageValues(page) \cup {None}
    /\ op.page \in SystemPages /\ op.phase = "program" => sysSector = None
    /\ op.page \in SystemPages /\ op.phase = "verify" => sysSector \in {None, sys}
    /\ op.page \in SystemPages => staged[op.page] # None

PagesInv ==
    /\ Serving => \A page \in SystemPages : sys[page] # bootSys[page] => staged[page] # None
    /\ Serving /\ op.page \notin SystemPages /\ lastSave["system"] # "failed" =>
         sys = LoadSystem(sysSector)

IInv == TypeOK /\ OpInv /\ DriveInv /\ PublishedInv /\ SystemInv /\ PagesInv

LEMMA InitInv == Init => IInv
<1> SUFFICES ASSUME Init PROVE IInv
  OBVIOUS
<1> USE DEF Init, Off, NoStage, NoSave, NoSd
<1>1. TypeOK
  <2>1. sd \in [RuntimeSlots -> {"none", "unchecked", "ready", "bad"}]
    OBVIOUS
  <2>2. staged \in [SystemPages -> Networks \cup Clocks \cup {None}]
    OBVIOUS
  <2>3. op \in [phase : Phases, page : DrivePages \cup SystemPages \cup {None}]
    BY DEF Phases
  <2>4. lastSave \in [{"drives", "system"} -> Answers]
    BY DEF Answers
  <2>5. driveSector \in Images /\ sysSector \in Systems \cup {None}
    BY SettingsAssumption
  <2>6. events \in 0 .. MaxEvents
    BY SettingsAssumption
  <2> QED
    BY <2>1, <2>2, <2>3, <2>4, <2>5, <2>6 DEF TypeOK
<1>2. OpInv /\ DriveInv /\ PublishedInv /\ SystemInv /\ PagesInv
  BY SettingsAssumption
     DEF OpInv, DriveInv, PublishedInv, SystemInv, PagesInv, Serving, Select, Idle,
         DrivePages, SystemPages
<1> QED
  BY <1>1, <1>2 DEF IInv

\* Where the firmware may be, and that it serves or does not.
LEMMA Where ==
  ASSUME OpInv
  PROVE  /\ op.phase = "idle" => op = Idle
         /\ op \in {Off, Select, Halted} => ~Serving /\ op.page = None
         /\ op = Idle => Serving /\ op.page = None
         /\ op.page = "factory" => ~Serving
         /\ op.page # None => op = [phase |-> op.phase, page |-> op.page]
  BY SettingsAssumption DEF OpInv, Serving, Off, Select, Idle, Halted, DrivePages, SystemPages

\* No step breaks the types.
LEMMA TypeStep == IInv /\ [Next]_vars => TypeOK'
<1> SUFFICES ASSUME IInv, [Next]_vars PROVE TypeOK'
  OBVIOUS
<1> USE DEF flash, system, drives, Event
<1>1. TypeOK /\ OpInv
  BY DEF IInv
<1>2. ASSUME Lost, UNCHANGED <<flash, events>> \/ (UNCHANGED flash /\ Event)
      PROVE  TypeOK'
  <2> USE DEF Lost, NoSd, NoStage, NoSave, Off
  <2>1. sd' \in [RuntimeSlots -> {"none", "unchecked", "ready", "bad"}]
    BY <1>2
  <2>2. staged' \in [SystemPages -> Networks \cup Clocks \cup {None}]
    BY <1>2
  <2>3. op' \in [phase : Phases, page : DrivePages \cup SystemPages \cup {None}]
    BY <1>2 DEF Phases
  <2>4. lastSave' \in [{"drives", "system"} -> Answers]
    BY <1>2 DEF Answers
  <2>5. driveSector' \in Images /\ sysSector' \in Systems \cup {None} /\ events' \in 0 .. MaxEvents
    BY <1>1, <1>2, SettingsAssumption DEF TypeOK
  <2> QED
    BY <1>2, <2>1, <2>2, <2>3, <2>4, <2>5 DEF TypeOK
<1>3. CASE PowerOn
  BY <1>1, <1>3, SystemLoads DEF TypeOK, PowerOn, Select, Phases, LoadSystem
<1>4. CASE Boot
  BY <1>1, <1>4, LoadsValid DEF TypeOK, Boot, Checked, Idle, Phases, ValidLists
<1>5. CASE FactoryReset
  BY <1>1, <1>5, DefaultsValid, SettingsAssumption
     DEF TypeOK, FactoryReset, Saving, Phases, DrivePages, ValidLists
<1>6. CASE PowerLoss
  BY <1>2, <1>6 DEF PowerLoss
<1>7. ASSUME NEW i \in Indices, DeleteDrive(i) PROVE TypeOK'
  BY <1>1, <1>7, SettingsAssumption DEF TypeOK, DeleteDrive, Lists, IInv, DriveInv, Serving
<1>8. ASSUME NEW i \in Indices, NEW r \in Edits, SetDrive(i, r) PROVE TypeOK'
  BY <1>1, <1>8, SettingsAssumption
     DEF TypeOK, SetDrive, Lists, IInv, DriveInv, Serving, Record, UsedRecords, ValidRecord
<1>9. ASSUME NEW letter \in Letters, SetConfigDrive(letter) PROVE TypeOK'
  BY <1>1, <1>9, SettingsAssumption DEF TypeOK, SetConfigDrive, Lists, IInv, DriveInv, Serving
<1>10. CASE SaveConfig
  BY <1>1, <1>10, SettingsAssumption DEF TypeOK, SaveConfig, Saving, Phases, DrivePages
<1>11. ASSUME NEW page \in SystemPages, NEW value \in PageValues(page), Stage(page, value)
       PROVE  TypeOK'
  BY <1>1, <1>11, SettingsAssumption DEF TypeOK, Stage, PageValues
<1>12. ASSUME NEW page \in SystemPages, SavePage(page) PROVE TypeOK'
  <2>1. sys \in Systems /\ staged[page] \in PageValues(page)
    BY <1>12 DEF SavePage, IInv, SystemInv, Serving
  <2>2. sys' \in Systems
    BY <1>12, <2>1, PageSet DEF SavePage
  <2>3. op' \in [phase : Phases, page : DrivePages \cup SystemPages \cup {None}]
    BY <1>12 DEF SavePage, Saving, Phases
  <2> QED
    BY <1>1, <1>12, <2>2, <2>3, SettingsAssumption DEF TypeOK, SavePage
<1>13. CASE FirstPing
  BY <1>1, <1>13 DEF TypeOK, FirstPing
<1>14. CASE Adopt
  BY <1>1, <1>14, LoadsValid DEF TypeOK, Adopt, Registered, ValidLists
<1>15. CASE EraseDrives
  BY <1>1, <1>15, LoadsWhatIsWritten DEF TypeOK, EraseDrives, Phases
<1>16. CASE ProgramDrives
  BY <1>1, <1>16, LoadsWhatIsWritten DEF TypeOK, ProgramDrives, Phases, IInv, DriveInv
<1>17. CASE VerifyDrives
  BY <1>1, <1>17 DEF TypeOK, VerifyDrives, Idle, Phases, Answers
<1>18. CASE VerifyFactory
  BY <1>1, <1>2, <1>18 DEF TypeOK, VerifyFactory, Halted, Phases, Answers
<1>19. CASE EraseSystem
  BY <1>1, <1>19 DEF TypeOK, EraseSystem, Phases
<1>20. CASE ProgramSystem
  BY <1>1, <1>20 DEF TypeOK, ProgramSystem, Phases
<1>21. CASE VerifySystem
  BY <1>1, <1>21 DEF TypeOK, VerifySystem, Idle, Phases, Answers
<1>22. CASE UNCHANGED vars
  BY <1>1, <1>22 DEF TypeOK, vars
<1> QED
  BY <1>3, <1>4, <1>5, <1>6, <1>7, <1>8, <1>9, <1>10, <1>11, <1>12, <1>13, <1>14, <1>15,
     <1>16, <1>17, <1>18, <1>19, <1>20, <1>21, <1>22
     DEF Next, Command, DriveCommand, SystemCommand, SystemPages, PageValues

\* No step breaks what is said of the drive list.
LEMMA DriveStep == IInv /\ [Next]_vars => OpInv' /\ DriveInv' /\ PublishedInv'
<1> DEFINE Goal == OpInv /\ DriveInv /\ PublishedInv
<1> SUFFICES ASSUME IInv, [Next]_vars PROVE Goal'
  OBVIOUS
<1> USE SettingsAssumption
    DEF flash, system, drives, Event, OpInv, DriveInv, PublishedInv, Serving,
        Off, Select, Idle, Halted, Saving, DrivePages, SystemPages
<1>1. TypeOK /\ OpInv /\ DriveInv /\ PublishedInv
  BY DEF IInv
<1>2. ASSUME Lost PROVE Goal'
  BY <1>2 DEF Lost
<1>3. CASE PowerOn
  BY <1>1, <1>3 DEF PowerOn
<1>4. CASE Boot
  BY <1>1, <1>4, LoadsValid DEF Boot, TypeOK, ValidLists
<1>5. CASE FactoryReset
  BY <1>1, <1>5, DefaultsValid DEF FactoryReset
<1>6. CASE PowerLoss
  BY <1>2, <1>6 DEF PowerLoss
<1>7. ASSUME NEW i \in Indices, DeleteDrive(i) PROVE Goal'
  BY <1>1, <1>7 DEF DeleteDrive, Lists
<1>8. ASSUME NEW i \in Indices, NEW r \in Edits, SetDrive(i, r) PROVE Goal'
  BY <1>1, <1>8 DEF SetDrive, Lists, Record, UsedRecords, ValidRecord
<1>9. ASSUME NEW letter \in Letters, SetConfigDrive(letter) PROVE Goal'
  BY <1>1, <1>9 DEF SetConfigDrive, Lists
<1>10. CASE SaveConfig
  BY <1>1, <1>10 DEF SaveConfig, ValidLists
<1>11. ASSUME NEW page \in SystemPages, NEW value, Stage(page, value) PROVE Goal'
  BY <1>1, <1>11 DEF Stage
<1>12. ASSUME NEW page \in SystemPages, SavePage(page) PROVE Goal'
  BY <1>1, <1>12 DEF SavePage
<1>13. CASE FirstPing
  BY <1>1, <1>13 DEF FirstPing
<1>14. CASE Adopt
  BY <1>1, <1>14, LoadsValid DEF Adopt, TypeOK, ValidLists
<1>15. CASE EraseDrives
  BY <1>1, <1>15 DEF EraseDrives
<1>16. CASE ProgramDrives
  BY <1>1, <1>16 DEF ProgramDrives
<1>17. CASE VerifyDrives
  BY <1>1, <1>17 DEF VerifyDrives, TypeOK, ValidLists
<1>18. CASE VerifyFactory
  <2>1. CASE Lost
    BY <1>2, <2>1
  <2>2. CASE op' = Halted /\ UNCHANGED drives
    <3>1. ~Serving /\ ~Serving' /\ op'.page = None
      BY <1>18, <2>2 DEF VerifyFactory
    <3> QED
      BY <1>1, <2>2, <3>1
  <2> QED
    BY <1>18, <2>1, <2>2 DEF VerifyFactory
<1>19. CASE EraseSystem
  BY <1>1, <1>19 DEF EraseSystem
<1>20. CASE ProgramSystem
  BY <1>1, <1>20 DEF ProgramSystem
<1>21. CASE VerifySystem
  BY <1>1, <1>21 DEF VerifySystem, TypeOK
<1>22. CASE UNCHANGED vars
  BY <1>1, <1>22 DEF vars
<1> QED
  BY <1>3, <1>4, <1>5, <1>6, <1>7, <1>8, <1>9, <1>10, <1>11, <1>12, <1>13, <1>14, <1>15,
     <1>16, <1>17, <1>18, <1>19, <1>20, <1>21, <1>22
     DEF Next, Command, DriveCommand, SystemCommand

\* Nor what is said of the system settings.
LEMMA SystemStep == IInv /\ [Next]_vars => SystemInv' /\ PagesInv'
<1> DEFINE Goal == SystemInv /\ PagesInv
<1> SUFFICES ASSUME IInv, [Next]_vars PROVE Goal'
  OBVIOUS
<1> USE SettingsAssumption, SystemLoads
    DEF flash, system, drives, Event, OpInv, SystemInv, PagesInv, Serving,
        Off, Select, Idle, Halted, Saving, DrivePages, SystemPages
<1>1. TypeOK /\ OpInv /\ SystemInv /\ PagesInv
  BY DEF IInv
<1>2. ASSUME Lost PROVE Goal'
  BY <1>2 DEF Lost, NoStage
<1>3. CASE PowerOn
  BY <1>1, <1>3 DEF PowerOn
<1>4. CASE Boot
  BY <1>1, <1>4 DEF Boot, TypeOK, LoadSystem
<1>5. CASE FactoryReset
  BY <1>1, <1>5 DEF FactoryReset
<1>6. CASE PowerLoss
  BY <1>2, <1>6 DEF PowerLoss
<1>7. ASSUME NEW i \in Indices, DeleteDrive(i) PROVE Goal'
  BY <1>1, <1>7 DEF DeleteDrive
<1>8. ASSUME NEW i \in Indices, NEW r \in Edits, SetDrive(i, r) PROVE Goal'
  BY <1>1, <1>8 DEF SetDrive
<1>9. ASSUME NEW letter \in Letters, SetConfigDrive(letter) PROVE Goal'
  BY <1>1, <1>9 DEF SetConfigDrive
<1>10. CASE SaveConfig
  BY <1>1, <1>10 DEF SaveConfig
<1>11. ASSUME NEW page \in SystemPages, NEW value \in PageValues(page), Stage(page, value)
       PROVE  Goal'
  BY <1>1, <1>11 DEF Stage, TypeOK, PageValues
<1>12. ASSUME NEW page \in SystemPages, SavePage(page) PROVE Goal'
  <2>1. sys \in Systems /\ bootSys \in Systems /\ staged[page] \in PageValues(page)
    BY <1>1, <1>12 DEF SavePage
  <2> DEFINE new == [sys EXCEPT ![page] = staged[page]]
  <2>3. new \in Systems /\ \A q \in SystemPages \ {page} : new[q] = sys[q]
    BY <2>1, PageSet
  <2>4. sys' = new
    BY <1>12 DEF SavePage
  <2>2. sys' \in Systems /\ \A q \in SystemPages \ {page} : sys'[q] = sys[q]
    BY <2>3, <2>4
  <2> QED
    BY <1>1, <1>12, <2>1, <2>2 DEF SavePage
<1>13. CASE FirstPing
  BY <1>1, <1>13 DEF FirstPing
<1>14. CASE Adopt
  BY <1>1, <1>14 DEF Adopt
<1>15. CASE EraseDrives
  BY <1>1, <1>15 DEF EraseDrives
<1>16. CASE ProgramDrives
  BY <1>1, <1>16 DEF ProgramDrives
<1>17. CASE VerifyDrives
  BY <1>1, <1>17 DEF VerifyDrives, TypeOK
<1>18. CASE VerifyFactory
  BY <1>1, <1>2, <1>18 DEF VerifyFactory
<1>19. CASE EraseSystem
  BY <1>1, <1>19 DEF EraseSystem
<1>20. CASE ProgramSystem
  BY <1>1, <1>20 DEF ProgramSystem
<1>21. CASE VerifySystem
  BY <1>1, <1>21 DEF VerifySystem, TypeOK
<1>22. CASE UNCHANGED vars
  BY <1>1, <1>22 DEF vars
<1> QED
  BY <1>3, <1>4, <1>5, <1>6, <1>7, <1>8, <1>9, <1>10, <1>11, <1>12, <1>13, <1>14, <1>15,
     <1>16, <1>17, <1>18, <1>19, <1>20, <1>21, <1>22
     DEF Next, Command, DriveCommand, SystemCommand, PageValues

\* The invariant holds throughout.
THEOREM SettingsInvariant == Spec => []IInv
<1>1. Init => IInv
  BY InitInv
<1>2. IInv /\ [Next]_vars => IInv'
  BY TypeStep, DriveStep, SystemStep DEF IInv
<1> QED
  BY <1>1, <1>2, PTL DEF Spec

\* The records, pages and statuses keep their types (g_config, g_settings).
THEOREM SettingsTypeCorrect == Spec => []TypeOK
<1>1. IInv => TypeOK
  BY DEF IInv
<1> QED
  BY <1>1, SettingsInvariant, PTL

\* With any number of drives, no letter is published twice and SETTINGS is
\* always there (sidetnfs_runtime_drives_init).
THEOREM SettingsLetters == Spec => []LettersDistinct
<1>1. IInv => LettersDistinct
  <2> SUFFICES ASSUME IInv, running # None PROVE Distinct(running)
    BY DEF LettersDistinct, Distinct
  <2>1. running \in ValidLists
    BY DEF IInv, DriveInv
  <2> QED
    BY <2>1, TableDistinct
<1> QED
  BY <1>1, SettingsInvariant, PTL

\* With nothing pending, what is published is what is saved
\* (sidetnfs_config_is_pending and the PING that adopts).
THEOREM SettingsPublished == Spec => []PublishedIsSaved
<1>1. IInv => PublishedIsSaved
  BY SettingsAssumption DEF IInv, PublishedInv, PublishedIsSaved, Serving, Idle
<1> QED
  BY <1>1, SettingsInvariant, PTL

\* A save of one page of the system settings keeps the other
\* (sidetnfs_netconfig_save, sidetnfs_rtcconfig_save).
THEOREM SettingsPages == Spec => []OtherPageKept
<1>1. IInv => OtherPageKept
  BY SettingsAssumption DEF IInv, PagesInv, OtherPageKept, Serving, Idle, SystemPages
<1> QED
  BY <1>1, SettingsInvariant, PTL

\* The table is sound, the saved one, and no page was lost.
THEOREM SettingsTables == Spec => []TablesAreSaved
<1>1. LettersDistinct /\ PublishedIsSaved /\ OtherPageKept => TablesAreSaved
  BY DEF TablesAreSaved
<1> QED
  BY <1>1, SettingsLetters, SettingsPublished, SettingsPages, PTL

----------------------------------------------------------------------------
(* The two refinements                                                     *)

LEMMA DriveStoreInit == Init => DriveStore!Init
  BY LoadsValid, SettingsAssumption
     DEF Init, DriveStore!Init, Off, NoSave, ValidLists, DrivePages

\* Every step of Settings is a step of the store of the drive list, or none.
LEMMA DriveStoreStep ==
  IInv /\ IInv' /\ [Next]_vars => [DriveStore!Next]_(DriveStore!storeVars)
<1> DEFINE Goal == [DriveStore!Next]_(DriveStore!storeVars)
<1> SUFFICES ASSUME IInv, IInv', [Next]_vars PROVE Goal
  OBVIOUS
<1> USE SettingsAssumption
    DEF flash, system, drives, Event, Serving,
        Off, Select, Idle, Halted, Saving, DrivePages, SystemPages
<1>1. TypeOK /\ OpInv /\ DriveInv
  BY DEF IInv
<1>2. ASSUME Lost, UNCHANGED flash PROVE Goal
  BY <1>2 DEF Lost, NoSave, DriveStore!Next, DriveStore!Stop
<1>3. CASE PowerOn
  BY <1>3 DEF PowerOn, DriveStore!storeVars
<1>4. CASE Boot
  BY <1>4 DEF Boot, DriveStore!Next, DriveStore!Load
<1>5. CASE FactoryReset
  BY <1>5, DefaultsValid DEF FactoryReset, ValidLists, DriveStore!Next, DriveStore!Begin
<1>6. CASE PowerLoss
  BY <1>2, <1>6 DEF PowerLoss
<1>7. ASSUME NEW i \in Indices, DeleteDrive(i) PROVE Goal
  BY <1>7 DEF DeleteDrive, DriveStore!storeVars
<1>8. ASSUME NEW i \in Indices, NEW r \in Edits, SetDrive(i, r) PROVE Goal
  BY <1>8 DEF SetDrive, DriveStore!storeVars
<1>9. ASSUME NEW letter \in Letters, SetConfigDrive(letter) PROVE Goal
  BY <1>9 DEF SetConfigDrive, DriveStore!storeVars
<1>10. CASE SaveConfig
  BY <1>1, <1>10 DEF SaveConfig, DriveInv, DriveStore!Next, DriveStore!Begin
<1>11. ASSUME NEW page \in SystemPages, NEW value, Stage(page, value) PROVE Goal
  BY <1>11 DEF Stage, DriveStore!storeVars
<1>12. ASSUME NEW page \in SystemPages, SavePage(page) PROVE Goal
  BY <1>12 DEF SavePage, DriveStore!storeVars
<1>13. CASE FirstPing
  BY <1>13 DEF FirstPing, DriveStore!storeVars
<1>14. CASE Adopt
  BY <1>14 DEF Adopt, DriveStore!Next, DriveStore!Load
<1>15. CASE EraseDrives
  BY <1>1, <1>15, LoadsWhatIsWritten
     DEF EraseDrives, DriveInv, ValidLists, DriveStore!Next, DriveStore!Write
<1>16. CASE ProgramDrives
  BY <1>1, <1>16, LoadsWhatIsWritten
     DEF ProgramDrives, DriveInv, ValidLists, DriveStore!Next, DriveStore!Write
<1>17. CASE VerifyDrives
  BY <1>1, <1>17, LoadsWhatIsWritten
     DEF VerifyDrives, Intact, TypeOK, DriveInv, ValidLists, DriveStore!Next, DriveStore!End
<1>18. CASE VerifyFactory
  BY <1>1, <1>2, <1>18
     DEF VerifyFactory, TypeOK, DriveInv, ValidLists, DriveStore!Next, DriveStore!End
<1>19. CASE EraseSystem
  BY <1>19 DEF EraseSystem, DriveStore!storeVars
<1>20. CASE ProgramSystem
  BY <1>20 DEF ProgramSystem, DriveStore!storeVars
<1>21. CASE VerifySystem
  BY <1>1, <1>21 DEF VerifySystem, TypeOK, DriveStore!storeVars
<1>22. CASE UNCHANGED vars
  BY <1>22 DEF vars, DriveStore!storeVars
<1> QED
  BY <1>3, <1>4, <1>5, <1>6, <1>7, <1>8, <1>9, <1>10, <1>11, <1>12, <1>13, <1>14, <1>15,
     <1>16, <1>17, <1>18, <1>19, <1>20, <1>21, <1>22
     DEF Next, Command, DriveCommand, SystemCommand

\* Whatever is edited, saved, reset or lost, the drive list keeps the promise
\* of a store (sidetnfs_config_save, sidetnfs_config_init).
THEOREM DriveListIsStore == Spec => DriveStorePromise
<1> QED
  BY DriveStoreInit, DriveStoreStep, SettingsInvariant, PTL
     DEF Spec, DriveStorePromise, DriveStore!Spec

LEMMA SystemStoreInit == Init => SystemStore!Init
  BY SystemLoads, SettingsAssumption
     DEF Init, SystemStore!Init, Off, NoSave, SystemPages, LoadSystem

\* Every step of Settings is a step of the store of the system settings, or none.
LEMMA SystemStoreStep ==
  IInv /\ IInv' /\ [Next]_vars => [SystemStore!Next]_(SystemStore!storeVars)
<1> DEFINE Goal == [SystemStore!Next]_(SystemStore!storeVars)
<1> SUFFICES ASSUME IInv, IInv', [Next]_vars PROVE Goal
  OBVIOUS
<1> USE SettingsAssumption, SystemLoads
    DEF flash, system, drives, Event, Serving,
        Off, Select, Idle, Halted, Saving, DrivePages, SystemPages
<1>1. TypeOK /\ OpInv /\ SystemInv
  BY DEF IInv
<1>2. ASSUME Lost, UNCHANGED flash PROVE Goal
  BY <1>2 DEF Lost, NoSave, SystemStore!Next, SystemStore!Stop
<1>3. CASE PowerOn
  BY <1>3 DEF PowerOn, SystemStore!storeVars
<1>4. CASE Boot
  BY <1>1, <1>4 DEF Boot, SystemInv, SystemStore!Next, SystemStore!Load
<1>5. CASE FactoryReset
  BY <1>5 DEF FactoryReset, SystemStore!storeVars
<1>6. CASE PowerLoss
  BY <1>2, <1>6 DEF PowerLoss
<1>7. ASSUME NEW i \in Indices, DeleteDrive(i) PROVE Goal
  BY <1>7 DEF DeleteDrive, SystemStore!storeVars
<1>8. ASSUME NEW i \in Indices, NEW r \in Edits, SetDrive(i, r) PROVE Goal
  BY <1>8 DEF SetDrive, SystemStore!storeVars
<1>9. ASSUME NEW letter \in Letters, SetConfigDrive(letter) PROVE Goal
  BY <1>9 DEF SetConfigDrive, SystemStore!storeVars
<1>10. CASE SaveConfig
  BY <1>10 DEF SaveConfig, SystemStore!storeVars
<1>11. ASSUME NEW page \in SystemPages, NEW value, Stage(page, value) PROVE Goal
  BY <1>11 DEF Stage, SystemStore!storeVars
<1>12. ASSUME NEW page \in SystemPages, SavePage(page) PROVE Goal
  <2>1. sys' \in Systems
    BY <1>12 DEF SavePage, IInv, SystemInv
  <2> QED
    BY <1>12, <2>1 DEF SavePage, SystemStore!Next, SystemStore!Begin
<1>13. CASE FirstPing
  BY <1>13 DEF FirstPing, SystemStore!storeVars
<1>14. CASE Adopt
  BY <1>14 DEF Adopt, SystemStore!storeVars
<1>15. CASE EraseDrives
  BY <1>15 DEF EraseDrives, SystemStore!storeVars
<1>16. CASE ProgramDrives
  BY <1>16 DEF ProgramDrives, SystemStore!storeVars
<1>17. CASE VerifyDrives
  BY <1>1, <1>17 DEF VerifyDrives, TypeOK, SystemStore!storeVars
<1>18. CASE VerifyFactory
  <2>1. CASE Lost
    BY <1>2, <1>18, <2>1 DEF VerifyFactory
  <2>2. CASE op' = Halted /\ UNCHANGED <<flash, system>> /\ lastSave'["system"] = lastSave["system"]
    BY <1>18, <2>2 DEF VerifyFactory, SystemStore!storeVars
  <2> QED
    BY <1>1, <1>18, <2>1, <2>2 DEF VerifyFactory, TypeOK
<1>19. CASE EraseSystem
  BY <1>1, <1>19 DEF EraseSystem, SystemInv, SystemStore!Next, SystemStore!Write
<1>20. CASE ProgramSystem
  BY <1>1, <1>20 DEF ProgramSystem, SystemInv, SystemStore!Next, SystemStore!Write
<1>21. CASE VerifySystem
  BY <1>1, <1>21 DEF VerifySystem, TypeOK, SystemInv, SystemStore!Next, SystemStore!End
<1>22. CASE UNCHANGED vars
  BY <1>22 DEF vars, SystemStore!storeVars
<1> QED
  BY <1>3, <1>4, <1>5, <1>6, <1>7, <1>8, <1>9, <1>10, <1>11, <1>12, <1>13, <1>14, <1>15,
     <1>16, <1>17, <1>18, <1>19, <1>20, <1>21, <1>22
     DEF Next, Command, DriveCommand, SystemCommand

\* So do the system settings
\* (sidetnfs_system_config_save, sidetnfs_system_config_init).
THEOREM SystemSettingsAreStore == Spec => SystemStorePromise
<1> QED
  BY SystemStoreInit, SystemStoreStep, SettingsInvariant, PTL
     DEF Spec, SystemStorePromise, SystemStore!Spec

\* Both sectors implement the store.
THEOREM StoresCorrect == Spec => StoresKeepPromise
  BY DriveListIsStore, SystemSettingsAreStore DEF StoresKeepPromise
=============================================================================
