--------------------------- MODULE HandlesProofs ----------------------------
(***************************************************************************)
(* What is open, for any number of drives, handles, servers and steps: the *)
(* open files of GEMDOS (OpenFiles) and the image and the directory of the *)
(* floppy slot (Floppy).                                                   *)
(*                                                                         *)
(* The heart of the first part is get_first_available_fd: the numbers in   *)
(* use are finitely many, so there is a gap above them, so there is a      *)
(* first one, and no gap is in use.  The rest follows the list of          *)
(* descriptors through Append, the removal of its last elements, and its   *)
(* clearing.                                                               *)
(*                                                                         *)
(* The second part follows what may be open through the exchanges of a     *)
(* handler, outcome by outcome: Holds(s, F, D) says that the session of s  *)
(* has no more open than the images F and the directories D.               *)
(*                                                                         *)
(* What the Atari sees of the drive follows: what is published, and what   *)
(* it took over from that, is the image in the drive.                      *)
(*                                                                         *)
(* The third part is about the pages of the browser.  It begins with       *)
(* induction over sequences, done with the least natural at which a fact   *)
(* fails, because what a page shows is a fold over the entries of the      *)
(* directory.  WalkExact says how far a walk has come in its directory,    *)
(* and what it has made of the part it has passed; PageInv carries that to *)
(* the page that is answered.                                              *)
(***************************************************************************)
EXTENDS OpenFiles, Floppy, SequenceTheorems, FiniteSetTheorems,
        WellFoundedInduction, TLAPS

----------------------------------------------------------------------------
(* The open files of GEMDOS                                                *)

\* A set of naturals that is not empty has a least element.
LEMMA LeastNatural ==
  ASSUME NEW T \in SUBSET Nat, T # {}
  PROVE  \E x \in T : \A y \in T : x <= y
<1>1. \E R : /\ IsWellFoundedOn(R, Nat)
             /\ \A x, y \in Nat : y < x => <<y, x>> \in R
  <2>1. IsWellFoundedOn(OpToRel(<, Nat), Nat)
    BY NatLessThanWellFounded
  <2>2. \A x, y \in Nat : y < x => <<y, x>> \in OpToRel(<, Nat)
    BY DEF OpToRel
  <2> QED
    BY <2>1, <2>2, Zenon
<1>2. PICK R : /\ IsWellFoundedOn(R, Nat)
               /\ \A x, y \in Nat : y < x => <<y, x>> \in R
  BY <1>1
<1>3. PICK x \in T : \A y \in T : ~ (<<y, x>> \in R)
  BY <1>2, WFMin
<1>4. \A y \in T : x <= y
  <2> SUFFICES ASSUME NEW y \in T
               PROVE  x <= y
    OBVIOUS
  <2>1. ~ (y < x)
    BY <1>2, <1>3
  <2> QED
    BY <2>1
<1> QED
  BY <1>4

\* A finite set of naturals leaves a number above FirstFd out.
LEMMA SomeNumberIsFree ==
  ASSUME NEW numbers \in SUBSET Nat, IsFiniteSet(numbers)
  PROVE  \E n \in Nat : n > FirstFd /\ n \notin numbers
<1> SUFFICES ASSUME \A n \in Nat : n > FirstFd => n \in numbers
             PROVE  FALSE
  OBVIOUS
<1> DEFINE k == Cardinality(numbers)
<1> DEFINE I == (FirstFd + 1) .. (FirstFd + 1 + k)
<1>1. k \in Nat /\ FirstFd \in Nat
  BY FS_CardinalityType, NumbersAssumption
<1>2. Cardinality(I) = k + 1
  <2>1. FirstFd + 1 \in Int /\ FirstFd + 1 + k \in Int
    BY <1>1
  <2>2. Cardinality(I) = IF FirstFd + 1 > FirstFd + 1 + k THEN 0
                         ELSE (FirstFd + 1 + k) - (FirstFd + 1) + 1
    BY <2>1, FS_Interval
  <2> QED
    BY <1>1, <2>2
<1>3. I \subseteq numbers
  BY <1>1
<1>4. Cardinality(I) <= k
  BY <1>3, FS_Subset
<1> QED
  BY <1>1, <1>2, <1>4

\* There is a gap: take the least number above FirstFd that is not in use.
LEMMA SomeGap ==
  ASSUME NEW numbers \in SUBSET Nat, IsFiniteSet(numbers)
  PROVE  Gaps(numbers) # {}
<1> DEFINE Gap == {n \in Nat : n > FirstFd /\ n \notin numbers}
<1>1. Gap # {} /\ Gap \in SUBSET Nat
  BY SomeNumberIsFree
<1>2. PICK x \in Gap : \A y \in Gap : x <= y
  BY <1>1, LeastNatural
<1>3. x - 1 \in numbers \cup {FirstFd}
  BY <1>2, NumbersAssumption
<1>4. x \in {w + 1 : w \in numbers \cup {FirstFd}}
  <2>1. x = (x - 1) + 1
    BY <1>2
  <2> QED
    BY <1>3, <2>1
<1> QED
  BY <1>2, <1>4 DEF Gaps

\* The number the next file gets is a natural number that is not in use.
LEMMA FirstAvailableIsFree ==
  ASSUME NEW numbers \in SUBSET Nat, IsFiniteSet(numbers)
  PROVE  FirstAvailable(numbers) \in Nat /\ FirstAvailable(numbers) \notin numbers
<1>1. CASE numbers = {}
  BY <1>1, NumbersAssumption DEF FirstAvailable
<1>2. CASE numbers # {}
  <2>1. Gaps(numbers) \in SUBSET Nat
    <3>1. \A w \in numbers \cup {FirstFd} : w + 1 \in Nat
      BY NumbersAssumption
    <3> QED
      BY <3>1 DEF Gaps
  <2>2. \E v \in Gaps(numbers) : \A u \in Gaps(numbers) : v <= u
    BY <2>1, SomeGap, LeastNatural
  <2>3. FirstAvailable(numbers) \in Gaps(numbers)
    BY <1>2, <2>2, Zenon DEF FirstAvailable
  <2> QED
    BY <2>1, <2>3 DEF Gaps
<1> QED
  BY <1>1, <1>2

----------------------------------------------------------------------------
(* The list of descriptors                                                 *)

\* The properties are inductive together: an open needs the numbers in use
\* and the handles open on the server, a close the list and the SD files.
IInv ==
    /\ TypeOK
    /\ UniqueDescriptors
    /\ HandlesAreOpen
    /\ SdFilesAreTracked
    /\ HeldFilesAreOpen

\* The indices of the list are the numbers up to its length.
LEMMA Indices ==
  ASSUME TypeOK
  PROVE  /\ Len(files) \in Nat
         /\ DOMAIN files = 1..Len(files)
         /\ \A i \in 1..Len(files) :
              /\ files[i] \in Descriptor
              /\ files[i].fd \in Nat
              /\ files[i].backing \in Backings
<1>1. files \in Seq(Descriptor)
  BY DEF TypeOK
<1>2. Len(files) \in Nat /\ DOMAIN files = 1..Len(files)
  BY <1>1, LenProperties
<1>3. \A i \in 1..Len(files) : files[i] \in Descriptor
  BY <1>1, <1>2, ElementOfSeq
<1> QED
  BY <1>2, <1>3 DEF Descriptor

\* The numbers in use are finitely many naturals.
LEMMA FdsFinite ==
  ASSUME TypeOK
  PROVE  Fds \in SUBSET Nat /\ IsFiniteSet(Fds)
<1>1. IsFiniteSet(1..Len(files))
  BY Indices, FS_Interval
<1>2. IsFiniteSet({files[i].fd : i \in 1..Len(files)})
  <2> DEFINE f == [i \in 1..Len(files) |-> files[i].fd]
  <2> DEFINE T == {files[i].fd : i \in 1..Len(files)}
  <2>1. f \in Surjection(1..Len(files), T)
    BY DEF Surjection
  <2> QED
    BY <1>1, <2>1, FS_Surjection
<1> QED
  BY <1>2, Indices DEF Fds

\* The SD files are finitely many.
LEMMA SdFilesFinite ==
  ASSUME TypeOK
  PROVE  /\ IsFiniteSet(SdFiles)
         /\ Cardinality(SdFiles) \in Nat
<1>1. IsFiniteSet(1..Len(files))
  BY Indices, FS_Interval
<1>2. SdFiles \subseteq 1..Len(files)
  BY Indices DEF SdFiles
<1> QED
  BY <1>1, <1>2, FS_Subset, FS_CardinalityType

\* The number of a new descriptor is not in use, or it is NoFd.
LEMMA NumbersAreFree ==
  ASSUME TypeOK, NEW fd \in NewNumbers
  PROVE  fd \in Nat /\ (fd \notin Fds \/ fd = NoFd)
<1>1. FirstAvailable(Fds) \in Nat /\ FirstAvailable(Fds) \notin Fds
  BY FdsFinite, FirstAvailableIsFree
<1>2. fd = FirstAvailable(Fds) \/ fd = NoFd
  BY Zenon DEF NewNumbers
<1> QED
  BY <1>1, <1>2, NumbersAssumption

\* What Append makes of the list: Grown is the list with one more descriptor.
Grown(fd, b) ==
  /\ files' \in Seq(Descriptor)
  /\ DOMAIN files' = 1..(Len(files) + 1)
  /\ \A i \in 1..Len(files) : files'[i] = files[i]
  /\ files'[Len(files) + 1].fd = fd
  /\ files'[Len(files) + 1].backing = b
  /\ fd \in Nat /\ (fd \notin Fds \/ fd = NoFd)
  /\ held' = held \cup {fd}

LEMMA AddGrows ==
  ASSUME TypeOK, NEW b \in Backings, Add(b)
  PROVE  \E fd \in Nat : Grown(fd, b)
<1>1. PICK fd \in NewNumbers : /\ files' = Append(files, [fd |-> fd, backing |-> b])
                            /\ held' = held \cup {fd}
  BY DEF Add
<1> DEFINE d == [fd |-> fd, backing |-> b]
<1>2. fd \in Nat /\ (fd \notin Fds \/ fd = NoFd)
  BY NumbersAreFree
<1>3. d \in Descriptor /\ files \in Seq(Descriptor)
  BY <1>2 DEF Descriptor, TypeOK
<1>4. files' \in Seq(Descriptor) /\ Len(files') = Len(files) + 1
  BY <1>1, <1>3, AppendProperties
<1>5. DOMAIN files' = 1..(Len(files) + 1)
  BY <1>4, LenProperties
<1>6. files'[Len(files) + 1] = d /\ \A i \in 1..Len(files) : files'[i] = files[i]
  BY <1>1, <1>3, AppendProperties
<1>7. Grown(fd, b)
  BY <1>1, <1>2, <1>4, <1>5, <1>6 DEF Grown
<1> QED
  BY <1>2, <1>7

\* The list keeps its first m descriptors.
CutTo(m) ==
  /\ files' \in Seq(Descriptor)
  /\ DOMAIN files' = 1..m
  /\ \A i \in 1..m : files'[i] = files[i]

\* So it does when the head goes, or the two that are next to it.
LEMMA CutKeeps ==
  ASSUME TypeOK, NEW m \in 0..Len(files), files' = SubSeq(files, 1, m)
  PROVE  CutTo(m)
<1>1. Len(files) \in Nat /\ m \in Nat
  BY Indices
<1>2. \A i \in 1..m : files[i] \in Descriptor
  BY <1>1, Indices
<1>3. 1 \in Int /\ m \in Int
  BY <1>1
<1>4. /\ SubSeq(files, 1, m) \in Seq(Descriptor)
      /\ Len(SubSeq(files, 1, m)) = IF 1 <= m THEN m - 1 + 1 ELSE 0
      /\ \A i \in 1..(m - 1 + 1) : SubSeq(files, 1, m)[i] = files[1 + i - 1]
  BY <1>2, <1>3, SubSeqProperties
<1>5. Len(files') = m
  <2>1. Len(files') = IF 1 <= m THEN m - 1 + 1 ELSE 0
    BY <1>4, Zenon
  <2> QED
    BY <1>1, <2>1
<1>6. ASSUME NEW i \in 1..m
      PROVE  files'[i] = files[i]
  <2>1. i \in 1..(m - 1 + 1) /\ 1 + i - 1 = i
    BY <1>1
  <2>2. SubSeq(files, 1, m)[i] = files[1 + i - 1]
    BY <1>4, <2>1
  <2>3. SubSeq(files, 1, m)[i] = files[i]
    BY <2>1, <2>2, Zenon
  <2> QED
    BY <2>3
<1>7. DOMAIN files' = 1..m
  BY <1>4, <1>5, LenProperties
<1> QED
  BY <1>4, <1>6, <1>7 DEF CutTo

\* And when it is left alone.
LEMMA SameKeeps ==
  ASSUME TypeOK, UNCHANGED files
  PROVE  CutTo(Len(files))
  BY Indices DEF CutTo, TypeOK

----------------------------------------------------------------------------
(* Opening                                                                 *)

\* A new descriptor has a number of its own, and what was held stays open.
LEMMA AddKeepsFds ==
  ASSUME IInv, NEW b \in Backings, Add(b), taken' = taken
  PROVE  /\ UniqueDescriptors'
         /\ HeldFilesAreOpen'
         /\ held' \subseteq Nat /\ taken' \subseteq held'
<1>0. TypeOK /\ UniqueDescriptors /\ HeldFilesAreOpen
  BY DEF IInv
<1>7. PICK fd \in Nat : Grown(fd, b)
  BY <1>0, AddGrows
<1> DEFINE n == Len(files)
<1>1. n \in Nat /\ DOMAIN files = 1..n
  BY <1>0, Indices
<1>2. /\ DOMAIN files' = 1..(n + 1)
      /\ \A i \in 1..n : files'[i] = files[i]
      /\ files'[n + 1].fd = fd
      /\ fd \in Nat /\ (fd \notin Fds \/ fd = NoFd)
      /\ held' = held \cup {fd}
  BY <1>7 DEF Grown
<1>3. \A i \in 1..n : files'[i].fd \in Fds
  BY <1>1, <1>2 DEF Fds
<1>4. UniqueDescriptors'
  <2> SUFFICES ASSUME NEW i \in 1..(n + 1), NEW j \in 1..(n + 1),
                      files'[i].fd = files'[j].fd, files'[i].fd # NoFd
               PROVE  i = j
    BY <1>2 DEF UniqueDescriptors
  <2>1. CASE i \in 1..n /\ j \in 1..n
    BY <2>1, <1>0, <1>1, <1>2 DEF UniqueDescriptors
  <2>2. CASE i = n + 1 /\ j \in 1..n
    BY <2>2, <1>2, <1>3
  <2>3. CASE i \in 1..n /\ j = n + 1
    BY <2>3, <1>2, <1>3
  <2> QED
    BY <1>1, <2>1, <2>2, <2>3
<1>5. HeldFilesAreOpen'
  <2>1. Fds' = {files'[i].fd : i \in 1..(n + 1)}
    BY <1>2 DEF Fds
  <2>2. Fds \subseteq Fds'
    BY <1>1, <1>2, <2>1 DEF Fds
  <2>3. fd \in Fds'
    <3>1. n + 1 \in 1..(n + 1)
      BY <1>1
    <3> QED
      BY <1>2, <2>1, <3>1
  <2> QED
    BY <1>0, <1>2, <2>2, <2>3 DEF HeldFilesAreOpen
<1>6. held' \subseteq Nat /\ taken' \subseteq held'
  BY <1>0, <1>2 DEF TypeOK
<1> QED
  BY <1>4, <1>5, <1>6

\* The count of SD files follows the new descriptor's backend.
LEMMA AddCounts ==
  ASSUME TypeOK, NEW b \in Backings, Add(b)
  PROVE  Cardinality(SdFiles)' =
           IF b = Sd THEN Cardinality(SdFiles) + 1 ELSE Cardinality(SdFiles)
<1> DEFINE n == Len(files)
<1>1. n \in Nat /\ DOMAIN files = 1..n
  BY Indices
<1>2. /\ DOMAIN files' = 1..(n + 1)
      /\ \A i \in 1..n : files'[i] = files[i]
      /\ files'[n + 1].backing = b
  BY AddGrows DEF Grown
<1>3. SdFiles' = IF b = Sd THEN SdFiles \cup {n + 1} ELSE SdFiles
  BY <1>1, <1>2 DEF SdFiles
<1>4. n + 1 \notin SdFiles
  BY <1>1 DEF SdFiles
<1>5. IsFiniteSet(SdFiles)
  BY SdFilesFinite
<1>6. Cardinality(SdFiles \cup {n + 1}) = Cardinality(SdFiles) + 1
  BY <1>4, <1>5, FS_AddElement
<1> QED
  BY <1>3, <1>6

\* What the kinds of backing are.
LEMMA Kinds ==
  ASSUME NEW b \in Backings
  PROVE  /\ b.kind \in {"local", "sd", "tnfs"}
         /\ b.kind = "sd" <=> b = Sd
         /\ b.kind = "tnfs" =>
              b.slot \in TnfsDrives /\ b.handle \in Handles /\ b = Tnfs(b.slot, b.handle)
<1>1. CASE b = Local \/ b = Sd
  BY <1>1 DEF Local, Sd
<1>2. CASE \E s \in TnfsDrives, h \in Handles : b = Tnfs(s, h)
  BY <1>2 DEF Sd, Tnfs
<1> QED
  BY <1>1, <1>2 DEF Backings

\* Local, Sd and the handles of the TNFS drives are backings.
LEMMA SomeBackings ==
  /\ Local \in Backings /\ Local.kind = "local" /\ Local # Sd
  /\ Sd \in Backings /\ Sd.kind = "sd"
  /\ \A s \in TnfsDrives, h \in Handles :
       /\ Tnfs(s, h) \in Backings /\ Tnfs(s, h).kind = "tnfs" /\ Tnfs(s, h) # Sd
       /\ Tnfs(s, h).slot = s /\ Tnfs(s, h).handle = h
<1>1. Local.kind = "local" /\ Sd.kind = "sd"
  BY DEF Local, Sd
<1>2. Local # Sd
  BY <1>1
<1>3. Local \in Backings /\ Sd \in Backings
  BY DEF Backings
<1>4. ASSUME NEW s \in TnfsDrives, NEW h \in Handles
      PROVE  /\ Tnfs(s, h) \in Backings /\ Tnfs(s, h).kind = "tnfs"
             /\ Tnfs(s, h) # Sd
             /\ Tnfs(s, h).slot = s /\ Tnfs(s, h).handle = h
  <2>1. Tnfs(s, h) \in Backings
    BY DEF Backings
  <2>2. Tnfs(s, h).kind = "tnfs" /\ Tnfs(s, h).slot = s /\ Tnfs(s, h).handle = h
    BY DEF Tnfs
  <2>3. Tnfs(s, h) # Sd
    BY <1>1, <2>2
  <2> QED
    BY <2>1, <2>2, <2>3
<1> QED
  BY <1>1, <1>2, <1>3, <1>4

\* A handle that was not open before belongs to the new descriptor alone.
LEMMA AddKeepsHandles ==
  ASSUME IInv, ~hung, NEW b \in Backings, Add(b), live' = live,
         \A s \in TnfsDrives : server[s] \subseteq server'[s],
         b.kind = "tnfs" => /\ b.slot \in live
                            /\ b.handle \in server'[b.slot] \ server[b.slot]
  PROVE  HandlesAreOpen'
<1>0. TypeOK /\ HandlesAreOpen
  BY DEF IInv
<1> DEFINE n == Len(files)
<1>1. n \in Nat /\ DOMAIN files = 1..n
  BY <1>0, Indices
<1>2. /\ DOMAIN files' = 1..(n + 1)
      /\ \A i \in 1..n : files'[i] = files[i]
      /\ files'[n + 1].backing = b
  BY <1>0, AddGrows DEF Grown
<1>3. \A i \in 1..n : files[i].backing \in Backings
  BY <1>0, Indices
<1>4. \A i \in 1..n : files[i].backing.kind = "tnfs" =>
        /\ files[i].backing.slot \in live
        /\ files[i].backing.handle \in server[files[i].backing.slot]
  BY <1>0, <1>1 DEF HandlesAreOpen
<1>5. ASSUME NEW i \in 1..(n + 1), files'[i].backing.kind = "tnfs"
      PROVE  /\ files'[i].backing.slot \in live'
             /\ files'[i].backing.handle \in server'[files'[i].backing.slot]
  <2>1. CASE i \in 1..n
    BY <2>1, <1>2, <1>3, <1>4, <1>5, Kinds
  <2>2. CASE i = n + 1
    BY <2>2, <1>2, <1>5
  <2> QED
    BY <1>1, <2>1, <2>2
<1>6. ASSUME NEW i \in 1..n, files[i].backing = b, b.kind = "tnfs"
      PROVE  FALSE
  BY <1>4, <1>6
<1>7. ASSUME NEW i \in 1..(n + 1), NEW j \in 1..(n + 1),
             files'[i].backing = files'[j].backing, files'[i].backing.kind = "tnfs"
      PROVE  i = j
  <2>1. CASE i \in 1..n /\ j \in 1..n
    BY <2>1, <1>0, <1>1, <1>2, <1>7 DEF HandlesAreOpen
  <2>2. CASE i = n + 1 /\ j \in 1..n
    BY <2>2, <1>2, <1>6, <1>7
  <2>3. CASE i \in 1..n /\ j = n + 1
    BY <2>3, <1>2, <1>6, <1>7
  <2> QED
    BY <1>1, <2>1, <2>2, <2>3
<1> QED
  BY <1>2, <1>5, <1>7 DEF HandlesAreOpen

\* Opening on the SETTINGS disk preserves the invariant.
LEMMA OpenLocalStep ==
  ASSUME IInv, ~hung, NEW s \in Drives, OpenLocal(s)
  PROVE  IInv'
<1>0. TypeOK /\ SdFilesAreTracked
  BY DEF IInv
<1>1. /\ Add(Local) /\ Local \in Backings /\ Local.kind = "local" /\ Local # Sd
      /\ UNCHANGED <<server, fatfs, live, pending, taken, hung, resets>>
  BY SomeBackings DEF OpenLocal
<1>2. UniqueDescriptors' /\ HeldFilesAreOpen' /\ held' \subseteq Nat /\ taken' \subseteq held'
  BY <1>1, AddKeepsFds
<1>3. HandlesAreOpen'
  BY <1>1, AddKeepsHandles
<1>4. TypeOK'
  BY <1>0, <1>1, <1>2, AddGrows DEF Grown, TypeOK
<1>5. SdFilesAreTracked'
  <2>1. Cardinality(SdFiles)' = Cardinality(SdFiles)
    BY <1>0, <1>1, AddCounts
  <2> QED
    BY <1>0, <1>1, <2>1 DEF SdFilesAreTracked
<1> QED
  BY <1>2, <1>3, <1>4, <1>5 DEF IInv

\* A step that leaves the list alone and closes no handle preserves it.
LEMMA KeepsList ==
  ASSUME IInv, UNCHANGED <<files, fatfs, live, hung>>,
         \/ held' = held /\ taken' = taken
         \/ held' \subseteq held /\ taken' = taken \cap held',
         resets' \in 0..MaxResets, pending' \in BOOLEAN,
         server' \in [TnfsDrives -> SUBSET Handles],
         \A s \in TnfsDrives : server[s] \subseteq server'[s]
  PROVE  IInv'
<1>0. TypeOK /\ UniqueDescriptors /\ HandlesAreOpen /\ SdFilesAreTracked
      /\ HeldFilesAreOpen
  BY DEF IInv
<1>1. TypeOK'
  BY <1>0 DEF TypeOK
<1>2. UniqueDescriptors' /\ HeldFilesAreOpen'
  <2>1. held' \ (taken' \cup {NoFd}) \subseteq held \ (taken \cup {NoFd})
    BY Zenon
  <2> QED
    BY <1>0, <2>1 DEF UniqueDescriptors, HeldFilesAreOpen, Fds
<1>3. SdFilesAreTracked'
  <2>1. SdFiles' = SdFiles
    BY DEF SdFiles
  <2> QED
    BY <1>0, <2>1 DEF SdFilesAreTracked
<1>4. HandlesAreOpen'
  <2>1. ASSUME NEW i \in DOMAIN files, files[i].backing.kind = "tnfs", ~hung
        PROVE  /\ files[i].backing.slot \in live
               /\ files[i].backing.handle \in server'[files[i].backing.slot]
    <3>1. files[i].backing \in Backings
      BY <1>0, Indices
    <3>2. files[i].backing.slot \in TnfsDrives
      BY <2>1, <3>1, Kinds
    <3> QED
      BY <1>0, <2>1, <3>2 DEF HandlesAreOpen
  <2> QED
    BY <1>0, <2>1 DEF HandlesAreOpen
<1> QED
  BY <1>1, <1>2, <1>3, <1>4 DEF IInv

\* Opening on an SD drive preserves the invariant.
LEMMA OpenSdStep ==
  ASSUME IInv, ~hung, NEW s \in Drives, OpenSd(s)
  PROVE  IInv'
<1>0. TypeOK /\ SdFilesAreTracked
  BY DEF IInv
<1>1. CASE CanAllocate
  <2>1. /\ Add(Sd) /\ Sd \in Backings /\ Sd.kind = "sd" /\ fatfs' = fatfs + 1
        /\ UNCHANGED <<server, live, pending, taken, hung, resets>>
    BY <1>1, SomeBackings DEF OpenSd
  <2>2. UniqueDescriptors' /\ HeldFilesAreOpen' /\ held' \subseteq Nat /\ taken' \subseteq held'
    BY <2>1, AddKeepsFds
  <2>3. HandlesAreOpen'
    BY <2>1, AddKeepsHandles
  <2>4. TypeOK'
    BY <1>0, <2>1, <2>2, AddGrows DEF Grown, TypeOK
  <2>5. SdFilesAreTracked'
    <3>1. Cardinality(SdFiles)' = Cardinality(SdFiles) + 1
      BY <1>0, <2>1, AddCounts
    <3> QED
      BY <1>0, <2>1, <3>1 DEF SdFilesAreTracked
  <2> QED
    BY <2>2, <2>3, <2>4, <2>5 DEF IInv
<1>2. CASE ~CanAllocate
  <2>1. UNCHANGED <<files, held, fatfs, server, live, pending, taken, hung, resets>>
    BY <1>2 DEF OpenSd
  <2> QED
    BY <1>0, <2>1, KeepsList DEF TypeOK
<1> QED
  BY <1>1, <1>2

\* Opening on a TNFS drive preserves the invariant, whatever is lost.
LEMMA OpenTnfsStep ==
  ASSUME IInv, ~hung, NEW s \in Drives, OpenTnfs(s)
  PROVE  IInv'
<1>0. TypeOK /\ SdFilesAreTracked
  BY DEF IInv
<1>1. PICK opened \in SUBSET (Handles \ server[s]) :
        /\ server' = [server EXCEPT ![s] = @ \cup opened]
        /\ \/ \E h \in opened : Add(Tnfs(s, h))
           \/ UNCHANGED <<files, held>>
  BY DEF OpenTnfs
<1>2. s \in live /\ s \in TnfsDrives
      /\ UNCHANGED <<fatfs, live, pending, taken, hung, resets>>
  BY <1>0 DEF OpenTnfs, TypeOK
<1>3. server' \in [TnfsDrives -> SUBSET Handles]
  BY <1>0, <1>1, <1>2 DEF TypeOK
<1>4. /\ server'[s] = server[s] \cup opened
      /\ \A t \in TnfsDrives : server[t] \subseteq server'[t]
  BY <1>0, <1>1, <1>2 DEF TypeOK
<1>5. CASE UNCHANGED <<files, held>>
  BY <1>0, <1>2, <1>3, <1>4, <1>5, KeepsList DEF TypeOK
<1>6. ASSUME NEW h \in opened, Add(Tnfs(s, h))
      PROVE  IInv'
  <2> DEFINE b == Tnfs(s, h)
  <2>1. /\ b \in Backings /\ b.kind = "tnfs" /\ b # Sd
        /\ b.slot = s /\ b.handle = h
    BY <1>2, SomeBackings
  <2>2. h \in server'[s] \ server[s]
    BY <1>4
  <2>3. UniqueDescriptors' /\ HeldFilesAreOpen' /\ held' \subseteq Nat /\ taken' \subseteq held'
    BY <1>2, <1>6, <2>1, AddKeepsFds
  <2>4. HandlesAreOpen'
    BY <1>2, <1>4, <1>6, <2>1, <2>2, AddKeepsHandles
  <2>5. TypeOK'
    <3>1. files' \in Seq(Descriptor)
      BY <1>0, <1>6, <2>1, AddGrows DEF Grown
    <3> QED
      BY <1>0, <1>2, <1>3, <2>3, <3>1 DEF TypeOK
  <2>6. SdFilesAreTracked'
    <3>1. Cardinality(SdFiles)' = Cardinality(SdFiles)
      BY <1>0, <1>6, <2>1, AddCounts
    <3> QED
      BY <1>0, <1>2, <3>1 DEF SdFilesAreTracked
  <2> QED
    BY <2>3, <2>4, <2>5, <2>6 DEF IInv
<1> QED
  BY <1>1, <1>5, <1>6

----------------------------------------------------------------------------
(* Closing                                                                 *)

\* The numbers of what is left of the list are those of its descriptors.
LEMMA KeptFds ==
  ASSUME TypeOK, NEW m \in 0..Len(files), CutTo(m)
  PROVE  /\ \A i \in 1..m : i \in DOMAIN files /\ files'[i] = files[i]
         /\ \A fd \in Fds : \/ fd \in Fds'
                            \/ \E k \in (m + 1)..Len(files) : files[k].fd = fd
<1>1. Len(files) \in Nat /\ DOMAIN files = 1..Len(files) /\ m \in Nat
  BY Indices
<1>2. \A i \in 1..m : i \in DOMAIN files /\ files'[i] = files[i]
  BY <1>1 DEF CutTo
<1>3. ASSUME NEW fd \in Fds
      PROVE  fd \in Fds' \/ \E k \in (m + 1)..Len(files) : files[k].fd = fd
  <2>1. PICK k \in 1..Len(files) : files[k].fd = fd
    BY <1>1 DEF Fds
  <2>2. CASE k \in 1..m
    BY <1>2, <2>1, <2>2 DEF CutTo, Fds
  <2>3. CASE k \in (m + 1)..Len(files)
    BY <2>1, <2>3
  <2> QED
    BY <1>1, <2>2, <2>3
<1> QED
  BY <1>2, <1>3

\* A shorter list has unique numbers, and what is held and still claimed is in
\* it unless it is the number of a descriptor that went.
LEMMA ShorterKeepsFds ==
  ASSUME IInv, NEW m \in 0..Len(files), CutTo(m),
         held' \ (taken' \cup {NoFd}) \subseteq held \ (taken \cup {NoFd}),
         \A k \in (m + 1)..Len(files) :
           files[k].fd \notin held' \ (taken' \cup {NoFd})
  PROVE  UniqueDescriptors' /\ HeldFilesAreOpen'
<1>0. TypeOK /\ UniqueDescriptors /\ HeldFilesAreOpen
  BY DEF IInv
<1>1. UniqueDescriptors'
  BY <1>0, KeptFds DEF UniqueDescriptors, CutTo
<1>2. HeldFilesAreOpen'
  <2> SUFFICES ASSUME NEW fd \in held' \ (taken' \cup {NoFd})
               PROVE  fd \in Fds'
    BY DEF HeldFilesAreOpen
  <2>1. fd \in Fds
    BY <1>0 DEF HeldFilesAreOpen
  <2> QED
    BY <1>0, <2>1, KeptFds
<1> QED
  BY <1>1, <1>2

\* The SD files of a shorter list.
LEMMA ShorterCounts ==
  ASSUME TypeOK, NEW m \in 0..Len(files), CutTo(m)
  PROVE  SdFiles' = {i \in SdFiles : i <= m}
<1>1. Len(files) \in Nat /\ DOMAIN files = 1..Len(files) /\ m \in Nat
  BY Indices
<1>2. \A i \in 1..m : i \in DOMAIN files /\ files'[i] = files[i]
  BY KeptFds
<1> QED
  BY <1>1, <1>2 DEF SdFiles, CutTo

\* A CLOSE takes away no handle that another descriptor stands for.
LEMMA ShorterKeepsHandles ==
  ASSUME IInv, ~hung, NEW m \in 0..Len(files), CutTo(m), live' = live,
         server' \in [TnfsDrives -> SUBSET Handles],
         ~hung' => \A s \in TnfsDrives : \A h \in server[s] \ server'[s] :
                     \E k \in (m + 1)..Len(files) : files[k].backing = Tnfs(s, h)
  PROVE  HandlesAreOpen'
<1>0. TypeOK /\ HandlesAreOpen
  BY DEF IInv
<1>1. Len(files) \in Nat /\ DOMAIN files = 1..Len(files) /\ m \in Nat
  BY <1>0, Indices
<1>2. \A i \in 1..m : i \in DOMAIN files /\ files'[i] = files[i]
  BY <1>0, KeptFds
<1>3. ASSUME NEW j \in 1..m, files[j].backing.kind = "tnfs", ~hung'
      PROVE  /\ files[j].backing.slot \in live
             /\ files[j].backing.handle \in server'[files[j].backing.slot]
  <2> DEFINE b == files[j].backing
  <2>1. b \in Backings
    BY <1>0, <1>1, <1>2, Indices
  <2>2. b.slot \in TnfsDrives /\ b = Tnfs(b.slot, b.handle)
    BY <1>3, <2>1, Kinds
  <2>3. b.slot \in live /\ b.handle \in server[b.slot]
    BY <1>0, <1>2, <1>3 DEF HandlesAreOpen
  <2>4. \A k \in (m + 1)..Len(files) : files[k].backing # b
    <3> SUFFICES ASSUME NEW k \in (m + 1)..Len(files), files[k].backing = b
                 PROVE  FALSE
      OBVIOUS
    <3>1. k \in DOMAIN files /\ k # j
      BY <1>1
    <3> QED
      BY <1>0, <1>2, <1>3, <3>1 DEF HandlesAreOpen
  <2> QED
    BY <1>3, <2>2, <2>3, <2>4
<1>4. ASSUME NEW j \in 1..m, NEW k \in 1..m,
             files[j].backing = files[k].backing, files[j].backing.kind = "tnfs"
      PROVE  j = k
  BY <1>0, <1>2, <1>4 DEF HandlesAreOpen
<1> QED
  BY <1>2, <1>3, <1>4 DEF HandlesAreOpen, CutTo

\* What is released is closed where it is open, and nothing else is.
LEMMA Releases ==
  ASSUME TypeOK, NEW b \in Backings, ReleaseFile(b)
  PROVE  /\ fatfs' = IF b = Sd THEN fatfs - 1 ELSE fatfs
         /\ server' \in [TnfsDrives -> SUBSET Handles]
         /\ \A s \in TnfsDrives : \A h \in server[s] \ server'[s] : b = Tnfs(s, h)
<1>1. CASE b.kind = "local"
  <2>1. UNCHANGED <<server, fatfs>> /\ b # Sd
    BY <1>1, Kinds DEF ReleaseFile
  <2> QED
    BY <2>1 DEF TypeOK
<1>2. CASE b.kind = "sd"
  <2>1. fatfs' = fatfs - 1 /\ UNCHANGED server /\ b = Sd
    BY <1>2, Kinds DEF ReleaseFile
  <2> QED
    BY <2>1 DEF TypeOK
<1>3. CASE b.kind = "tnfs"
  <2>1. CloseOnServer(b.slot, b.handle) /\ UNCHANGED fatfs
    BY <1>3 DEF ReleaseFile
  <2>2. b # Sd /\ b.slot \in TnfsDrives /\ b = Tnfs(b.slot, b.handle)
    BY <1>3, Kinds
  <2>3. PICK closed \in SUBSET {b.handle} :
          server' = [server EXCEPT ![b.slot] = @ \ closed]
    BY <2>1 DEF CloseOnServer
  <2>4. server' \in [TnfsDrives -> SUBSET Handles]
    BY <2>2, <2>3 DEF TypeOK
  <2>5. \A s \in TnfsDrives : \A h \in server[s] \ server'[s] :
          s = b.slot /\ h = b.handle
    BY <2>2, <2>3 DEF TypeOK
  <2> QED
    BY <2>1, <2>2, <2>4, <2>5
<1> QED
  BY <1>1, <1>2, <1>3, Kinds

\* Releasing a descriptor and deleting it preserves the invariant when what is
\* held and still claimed does not have its number.
LEMMA DeleteStep ==
  ASSUME IInv, ~hung, NEW i \in DOMAIN files, ReleaseFile(files[i].backing), Delete(i),
         UNCHANGED <<live, pending, resets>>,
         held' \subseteq held, taken' \subseteq held',
         held' \ (taken' \cup {NoFd}) \subseteq held \ (taken \cup {NoFd}),
         ~hung' => files[i].fd \notin held' \ (taken' \cup {NoFd})
  PROVE  IInv'
<1>0. TypeOK /\ SdFilesAreTracked
  BY DEF IInv
<1> DEFINE n == Len(files)
<1> DEFINE b == files[i].backing
<1>1. n \in Nat /\ DOMAIN files = 1..n /\ n # 0 /\ b \in Backings /\ i \in 1..n
  BY <1>0, Indices
<1>2. PICK m \in {n - 1, n} :
        /\ CutTo(m)
        /\ IF i = n THEN m = n - 1 /\ hung' = hung ELSE m = n /\ hung' = TRUE
  <2>1. CASE i = n
    <3>1. files' = SubSeq(files, 1, n - 1) /\ hung' = hung
      BY <2>1 DEF Delete
    <3>2. n - 1 \in 0..n
      BY <1>1
    <3>3. CutTo(n - 1)
      BY <1>0, <3>1, <3>2, CutKeeps
    <3> QED
      BY <2>1, <3>1, <3>3
  <2>2. CASE i # n
    <3>1. UNCHANGED files /\ hung' = TRUE
      BY <2>2 DEF Delete
    <3> QED
      BY <1>0, <2>2, <3>1, SameKeeps
  <2> QED
    BY <2>1, <2>2
<1>3. m \in 0..n /\ (m + 1)..n = IF i = n THEN {n} ELSE {}
  <2>1. m = IF i = n THEN n - 1 ELSE n
    BY <1>2
  <2>2. n - 1 \in 0..n /\ n \in 0..n /\ (n - 1 + 1)..n = {n} /\ (n + 1)..n = {}
    <3>1. n \in Nat /\ n # 0
      BY <1>1
    <3> HIDE DEF n
    <3> QED
      BY <3>1
  <2> HIDE DEF n
  <2> QED
    BY <2>1, <2>2
<1>4. /\ fatfs' = IF b = Sd THEN fatfs - 1 ELSE fatfs
      /\ server' \in [TnfsDrives -> SUBSET Handles]
      /\ \A s \in TnfsDrives : \A h \in server[s] \ server'[s] : b = Tnfs(s, h)
  BY <1>0, <1>1, Releases
<1>5. UniqueDescriptors' /\ HeldFilesAreOpen'
  <2>1. \A k \in (m + 1)..n : files[k].fd \notin held' \ (taken' \cup {NoFd})
    BY <1>2, <1>3
  <2> QED
    BY <1>2, <1>3, <2>1, ShorterKeepsFds
<1>6. HandlesAreOpen'
  <2>1. ~hung' => \A s \in TnfsDrives : \A h \in server[s] \ server'[s] :
                    \E k \in (m + 1)..n : files[k].backing = Tnfs(s, h)
    BY <1>2, <1>3, <1>4
  <2> QED
    BY <1>2, <1>3, <1>4, <2>1, ShorterKeepsHandles
<1>7. fatfs' \in Nat
  <2>1. fatfs = Cardinality(SdFiles) /\ fatfs \in Nat
    BY <1>0 DEF SdFilesAreTracked, TypeOK
  <2>2. CASE b = Sd
    <3>1. i \in SdFiles
      BY <1>1, <2>2 DEF SdFiles
    <3>2. Cardinality(SdFiles) # 0
      BY <1>0, <3>1, SdFilesFinite, FS_EmptySet
    <3> QED
      BY <1>4, <2>1, <2>2, <3>2
  <2>3. CASE b # Sd
    BY <1>4, <2>1, <2>3
  <2> QED
    BY <2>2, <2>3
<1>8. SdFilesAreTracked'
  <2> SUFFICES ASSUME ~hung'
               PROVE  fatfs' = Cardinality(SdFiles')
    BY DEF SdFilesAreTracked
  <2>1. i = n /\ m = n - 1
    BY <1>2
  <2>2. SdFiles' = SdFiles \ {n}
    <3>1. SdFiles' = {k \in SdFiles : k <= m}
      BY <1>0, <1>2, <1>3, ShorterCounts
    <3>2. \A k \in SdFiles : k \in 1..n
      BY <1>1 DEF SdFiles
    <3>3. \A k \in 1..n : k <= m <=> k # n
      <4>1. n \in Nat /\ m = n - 1
        BY <1>1, <2>1
      <4> HIDE DEF n
      <4> QED
        BY <4>1
    <3> QED
      BY <3>1, <3>2, <3>3
  <2>3. n \in SdFiles <=> b = Sd
    BY <1>1, <2>1 DEF SdFiles
  <2>4. Cardinality(SdFiles \ {n}) =
          IF n \in SdFiles THEN Cardinality(SdFiles) - 1 ELSE Cardinality(SdFiles)
    BY <1>0, SdFilesFinite, FS_RemoveElement
  <2>5. fatfs = Cardinality(SdFiles)
    BY <1>0 DEF SdFilesAreTracked
  <2> QED
    BY <1>4, <2>2, <2>3, <2>4, <2>5
<1>9. TypeOK'
  <2>1. files' \in Seq(Descriptor) /\ hung' \in BOOLEAN
    BY <1>0, <1>2 DEF CutTo, TypeOK
  <2>2. held' \subseteq Nat
    BY <1>0 DEF TypeOK
  <2> QED
    BY <1>0, <1>4, <1>7, <2>1, <2>2 DEF TypeOK
<1> QED
  BY <1>5, <1>6, <1>8, <1>9 DEF IInv

\* Whoever gives a number up, no more is held and claimed than before, and the
\* number is not.
LEMMA Forgets ==
  ASSUME TypeOK, NEW fd, Forget(fd)
  PROVE  /\ held' \subseteq held /\ taken' = taken \cap held'
         /\ held' \ (taken' \cup {NoFd}) \subseteq held \ (taken \cup {NoFd})
         /\ fd \notin held' \ (taken' \cup {NoFd})
<1>1. taken' = taken \cap held'
  BY DEF Forget
<1>2. \/ held' = held \ {fd}
      \/ held' = held /\ fd \in taken \cup {NoFd}
  BY Zenon DEF Forget
<1> QED
  BY <1>1, <1>2, Zenon

\* Closing a file, or a number that has none, preserves the invariant.
LEMMA FcloseStep ==
  ASSUME IInv, ~hung, NEW fd \in held, Fclose(fd)
  PROVE  IInv'
<1>0. TypeOK
  BY DEF IInv
<1>1. ASSUME NEW i \in DOMAIN files, Found(i, fd), ReleaseFile(files[i].backing),
             Delete(i), IF hung' THEN UNCHANGED <<held, taken>> ELSE Forget(fd)
      PROVE  IInv'
  <2>1. UNCHANGED <<live, pending, resets>> /\ files[i].fd = fd
    BY <1>1 DEF Fclose, Found
  <2>2. CASE hung'
    <3>1. held' = held /\ taken' = taken /\ taken \subseteq held
      BY <1>0, <1>1, <2>2 DEF TypeOK
    <3> QED
      BY <1>1, <2>1, <2>2, <3>1, DeleteStep
  <2>3. CASE ~hung'
    <3>1. Forget(fd)
      BY <1>1, <2>3
    <3>2. /\ held' \subseteq held /\ taken' \subseteq held'
          /\ held' \ (taken' \cup {NoFd}) \subseteq held \ (taken \cup {NoFd})
          /\ fd \notin held' \ (taken' \cup {NoFd})
      BY <1>0, <3>1, Forgets
    <3> QED
      BY <1>1, <2>1, <3>2, DeleteStep
  <2> QED
    BY <2>2, <2>3
<1>2. CASE Forget(fd) /\ UNCHANGED <<files, server, fatfs, hung>>
  <2>1. held' \subseteq held /\ taken' = taken \cap held'
    BY <1>0, <1>2, Forgets
  <2>2. UNCHANGED <<live, pending, resets>>
    BY DEF Fclose
  <2> QED
    BY <1>0, <1>2, <2>1, <2>2, KeepsList DEF TypeOK
<1> QED
  BY <1>1, <1>2 DEF Fclose

\* What Fdelete takes is not claimed to be open any more.
LEMMA TakesIt ==
  ASSUME TypeOK, NEW fds, Takes(fds), held' = held
  PROVE  /\ held' \subseteq held /\ taken' \subseteq held'
         /\ held' \ (taken' \cup {NoFd}) \subseteq held \ (taken \cup {NoFd})
         /\ \A fd \in fds : fd \notin held' \ (taken' \cup {NoFd})
<1>1. taken' = taken \cup (held \cap fds) /\ taken \subseteq held
  BY DEF Takes, TypeOK
<1> QED
  BY <1>1, Zenon

\* Deleting a file that is open preserves the invariant.
LEMMA FdeleteOneStep ==
  ASSUME IInv, ~hung, NEW i \in DOMAIN files, FdeleteOne(i),
         UNCHANGED <<held, live, pending, resets>>
  PROVE  IInv'
<1>0. TypeOK
  BY DEF IInv
<1>1. /\ held' \subseteq held /\ taken' \subseteq held'
      /\ held' \ (taken' \cup {NoFd}) \subseteq held \ (taken \cup {NoFd})
      /\ files[i].fd \notin held' \ (taken' \cup {NoFd})
  BY <1>0, TakesIt DEF FdeleteOne
<1> QED
  BY <1>1, DeleteStep DEF FdeleteOne

\* So does deleting when a TNFS file and an SD file have the path.
LEMMA FdeleteBothStep ==
  ASSUME IInv, ~hung, NEW i \in TnfsFiles, NEW j \in SdFiles, FdeleteBoth(i, j),
         UNCHANGED <<held, live, pending, resets>>
  PROVE  IInv'
<1>0. TypeOK /\ SdFilesAreTracked
  BY DEF IInv
<1> DEFINE n == Len(files)
<1> DEFINE b == files[i].backing
<1>1. /\ n \in Nat /\ DOMAIN files = 1..n /\ i = n
      /\ i \in 1..n /\ j \in 1..n /\ b \in Backings /\ b.kind = "tnfs"
      /\ files[j].backing = Sd
  BY <1>0, Indices DEF TnfsFiles, SdFiles, FdeleteBoth
<1>2. b # Sd /\ Sd.kind = "sd" /\ j # n
  BY <1>1, Kinds, SomeBackings
<1>3. PICK m \in {n - 2, n - 1} :
        /\ CutTo(m)
        /\ IF j = n - 1 THEN m = n - 2 /\ hung' = hung ELSE m = n - 1 /\ hung' = TRUE
  <2>1. n - 1 \in 0..n /\ n - 2 \in 0..n
    BY <1>1, <1>2
  <2>2. CASE j = n - 1
    <3>1. files' = SubSeq(files, 1, n - 2) /\ hung' = hung
      BY <2>2 DEF FdeleteBoth
    <3>2. CutTo(n - 2)
      BY <1>0, <2>1, <3>1, CutKeeps
    <3> QED
      BY <2>2, <3>1, <3>2
  <2>3. CASE j # n - 1
    <3>1. files' = SubSeq(files, 1, n - 1) /\ hung' = TRUE
      BY <2>3 DEF FdeleteBoth
    <3>2. CutTo(n - 1)
      BY <1>0, <2>1, <3>1, CutKeeps
    <3> QED
      BY <2>3, <3>1, <3>2
  <2> QED
    BY <2>2, <2>3
<1>4. m \in 0..n /\ n \in (m + 1)..n /\ \A k \in (m + 1)..n : k = i \/ k = j
  <2>1. /\ n \in Nat /\ i = n /\ j \in 1..n /\ j # n
        /\ m = IF j = n - 1 THEN n - 2 ELSE n - 1
    BY <1>1, <1>2, <1>3
  <2> HIDE DEF n
  <2> QED
    BY <2>1
<1>5. /\ server' \in [TnfsDrives -> SUBSET Handles]
      /\ \A s \in TnfsDrives : \A h \in server[s] \ server'[s] : b = Tnfs(s, h)
  <2>1. b.slot \in TnfsDrives /\ b = Tnfs(b.slot, b.handle)
    BY <1>1, Kinds
  <2>2. PICK closed \in SUBSET {b.handle} :
          server' = [server EXCEPT ![b.slot] = @ \ closed]
    BY DEF FdeleteBoth, CloseOnServer
  <2>3. server' \in [TnfsDrives -> SUBSET Handles]
    BY <1>0, <2>1, <2>2 DEF TypeOK
  <2>4. \A s \in TnfsDrives : \A h \in server[s] \ server'[s] :
          s = b.slot /\ h = b.handle
    BY <1>0, <2>1, <2>2 DEF TypeOK
  <2> QED
    BY <2>1, <2>3, <2>4
<1>6. /\ held' \subseteq held /\ taken' \subseteq held'
      /\ held' \ (taken' \cup {NoFd}) \subseteq held \ (taken \cup {NoFd})
      /\ files[i].fd \notin held' \ (taken' \cup {NoFd})
      /\ files[j].fd \notin held' \ (taken' \cup {NoFd})
  BY <1>0, TakesIt DEF FdeleteBoth
<1>7. UniqueDescriptors' /\ HeldFilesAreOpen'
  <2>1. \A k \in (m + 1)..n : files[k].fd \notin held' \ (taken' \cup {NoFd})
    BY <1>4, <1>6
  <2> QED
    BY <1>3, <1>4, <1>6, <2>1, ShorterKeepsFds
<1>8. HandlesAreOpen'
  <2>1. \A s \in TnfsDrives : \A h \in server[s] \ server'[s] :
          \E k \in (m + 1)..n : files[k].backing = Tnfs(s, h)
    BY <1>1, <1>4, <1>5
  <2> QED
    BY <1>3, <1>4, <1>5, <2>1, ShorterKeepsHandles
<1>9. fatfs' \in Nat /\ fatfs' = fatfs - 1 /\ fatfs = Cardinality(SdFiles)
  <2>1. fatfs = Cardinality(SdFiles) /\ fatfs \in Nat
    BY <1>0 DEF SdFilesAreTracked, TypeOK
  <2>2. Cardinality(SdFiles) # 0
    BY <1>0, SdFilesFinite, FS_EmptySet
  <2> QED
    BY <2>1, <2>2 DEF FdeleteBoth
<1>10. SdFilesAreTracked'
  <2> SUFFICES ASSUME ~hung'
               PROVE  fatfs' = Cardinality(SdFiles')
    BY DEF SdFilesAreTracked
  <2>1. j = n - 1 /\ m = n - 2
    BY <1>3
  <2>2. SdFiles' = SdFiles \ {j}
    <3>1. SdFiles' = {k \in SdFiles : k <= m}
      BY <1>0, <1>3, <1>4, ShorterCounts
    <3>2. \A k \in SdFiles : k \in 1..n /\ k # n
      BY <1>1, <1>2 DEF SdFiles
    <3>3. \A k \in 1..n : k # n => (k <= m <=> k # j)
      <4>1. n \in Nat /\ m = n - 2 /\ j = n - 1
        BY <1>1, <2>1
      <4> HIDE DEF n
      <4> QED
        BY <4>1
    <3> QED
      BY <3>1, <3>2, <3>3
  <2>3. Cardinality(SdFiles \ {j}) = Cardinality(SdFiles) - 1
    BY <1>0, SdFilesFinite, FS_RemoveElement
  <2> QED
    BY <1>9, <2>2, <2>3
<1>11. TypeOK'
  <2>1. files' \in Seq(Descriptor) /\ hung' \in BOOLEAN
    BY <1>0, <1>3 DEF CutTo, TypeOK
  <2>2. held' \subseteq Nat
    BY <1>0, <1>6 DEF TypeOK
  <2> QED
    BY <1>0, <1>5, <1>6, <1>9, <2>1, <2>2 DEF TypeOK
<1> QED
  BY <1>7, <1>8, <1>10, <1>11 DEF IInv

\* Fdelete preserves the invariant.
LEMMA FdeleteStep ==
  ASSUME IInv, ~hung, NEW s \in Drives, Fdelete(s)
  PROVE  IInv'
<1>1. UNCHANGED <<held, live, pending, resets>>
  BY DEF Fdelete
<1>2. \/ \E i \in DOMAIN files : FdeleteOne(i)
      \/ \E i \in TnfsFiles, j \in SdFiles : FdeleteBoth(i, j)
  BY DEF Fdelete, TnfsFiles, SdFiles
<1> QED
  BY <1>1, <1>2, FdeleteOneStep, FdeleteBothStep

----------------------------------------------------------------------------
(* The Atari's reset, and the theorems                                     *)

\* SAVE_CONFIG preserves the invariant.
LEMMA SaveConfigStep ==
  ASSUME IInv, SaveConfig
  PROVE  IInv'
<1>1. TypeOK
  BY DEF IInv
<1> QED
  BY <1>1, KeepsList DEF SaveConfig, TypeOK

\* An empty list needs no handle and counts no SD file.
LEMMA PingStep ==
  ASSUME IInv, ~hung, Ping
  PROVE  IInv'
<1>0. TypeOK /\ SdFilesAreTracked
  BY DEF IInv
<1>1. /\ held' = {} /\ taken' = {} /\ pending' = FALSE /\ hung' = hung
      /\ resets' \in 0..MaxResets
  <2>1. resets \in 0..MaxResets /\ resets < MaxResets /\ resets' = resets + 1
    BY <1>0 DEF Ping, TypeOK
  <2> QED
    BY <2>1, NumbersAssumption DEF Ping
<1>2. CASE ~pending
  <2>1. UNCHANGED <<files, server, fatfs, live>>
    BY <1>2 DEF Ping
  <2> QED
    BY <1>0, <1>1, <2>1, KeepsList DEF TypeOK
<1>3. CASE pending
  <2>1. CloseAll /\ live' = {}
    BY <1>3 DEF Ping
  <2>2. files' = <<>> /\ fatfs' = fatfs - Cardinality(SdFiles)
    BY <2>1 DEF CloseAll
  <2>3. files' \in Seq(Descriptor) /\ DOMAIN files' = {}
    BY <2>2, EmptySeq
  <2>4. server' \in [TnfsDrives -> SUBSET Handles]
    <3>1. PICK closed : server' = [s \in TnfsDrives |->
                                     {h \in server[s] : Tnfs(s, h) \notin closed}]
      BY <2>1 DEF CloseAll
    <3> QED
      BY <1>0, <3>1 DEF TypeOK
  <2>5. fatfs' = 0
    BY <1>0, <2>2 DEF SdFilesAreTracked, TypeOK
  <2>6. TypeOK'
    BY <1>0, <1>1, <2>1, <2>3, <2>4, <2>5 DEF TypeOK
  <2>7. UniqueDescriptors' /\ HandlesAreOpen'
    BY <2>3 DEF UniqueDescriptors, HandlesAreOpen
  <2>8. HeldFilesAreOpen'
    BY <1>1 DEF HeldFilesAreOpen
  <2>9. SdFilesAreTracked'
    <3>1. SdFiles' = {}
      BY <2>3 DEF SdFiles
    <3> QED
      BY <2>5, <3>1, FS_EmptySet DEF SdFilesAreTracked
  <2> QED
    BY <2>6, <2>7, <2>8, <2>9 DEF IInv
<1> QED
  BY <1>2, <1>3

\* Nothing is open at first.
THEOREM InitIInv == Init => IInv
<1> SUFFICES ASSUME Init
             PROVE  IInv
  OBVIOUS
<1>1. files \in Seq(Descriptor) /\ DOMAIN files = {}
  BY EmptySeq DEF Init
<1>2. TypeOK
  <2>1. server \in [TnfsDrives -> SUBSET Handles]
    BY DEF Init
  <2>2. fatfs \in Nat /\ resets \in 0..MaxResets
    BY NumbersAssumption DEF Init
  <2>3. live \subseteq TnfsDrives /\ pending \in BOOLEAN /\ held \subseteq Nat
        /\ taken \subseteq held /\ hung \in BOOLEAN
    BY DEF Init
  <2> QED
    BY <1>1, <2>1, <2>2, <2>3 DEF TypeOK
<1>3. UniqueDescriptors /\ HandlesAreOpen
  BY <1>1 DEF UniqueDescriptors, HandlesAreOpen
<1>4. HeldFilesAreOpen
  BY DEF Init, HeldFilesAreOpen
<1>5. SdFilesAreTracked
  <2>1. SdFiles = {}
    BY <1>1 DEF SdFiles
  <2> QED
    BY <2>1, FS_EmptySet DEF Init, SdFilesAreTracked
<1> QED
  BY <1>2, <1>3, <1>4, <1>5 DEF IInv

\* Every step preserves the invariant.
THEOREM StepIInv == IInv /\ [Next]_vars => IInv'
<1> SUFFICES ASSUME IInv, [Next]_vars
             PROVE  IInv'
  OBVIOUS
<1>1. CASE UNCHANGED vars
  <2>1. TypeOK
    BY DEF IInv
  <2> QED
    BY <1>1, <2>1, KeepsList DEF vars, TypeOK
<1>2. ASSUME Next, NEW s \in Drives, Fopen(s) \/ Fcreate(s)
      PROVE  IInv'
  BY <1>2, OpenLocalStep, OpenSdStep, OpenTnfsStep DEF Next, Fopen, Fcreate
<1>3. ASSUME Next, NEW fd \in held, Fclose(fd)
      PROVE  IInv'
  BY <1>3, FcloseStep DEF Next
<1>6. ASSUME Next, NEW s \in Drives, Fdelete(s)
      PROVE  IInv'
  BY <1>6, FdeleteStep DEF Next
<1>4. CASE SaveConfig
  BY <1>4, SaveConfigStep
<1>5. CASE Next /\ Ping
  BY <1>5, PingStep DEF Next
<1> QED
  BY <1>1, <1>2, <1>3, <1>4, <1>5, <1>6 DEF Next

\* The invariant holds in every state, so its parts do.
THEOREM InvariantIInv == Spec => []IInv
<1>1. Init => IInv
  BY InitIInv
<1>2. IInv /\ [Next]_vars => IInv'
  BY StepIInv
<1> QED
  BY <1>1, <1>2, PTL DEF Spec

\* Every variable of the open files has its type.
THEOREM TypeCorrect == Spec => []TypeOK
<1>1. IInv => TypeOK
  BY DEF IInv
<1> QED
  BY <1>1, InvariantIInv, PTL

\* No two open files share a GEMDOS handle, except the one that is given out
\* for want of memory (get_first_available_fd).
THEOREM UniqueCorrect == Spec => []UniqueDescriptors
<1>1. IInv => UniqueDescriptors
  BY DEF IInv
<1> QED
  BY <1>1, InvariantIInv, PTL

\* Every TNFS descriptor has a handle of its own, open in a live session.
THEOREM HandlesCorrect == Spec => []HandlesAreOpen
<1>1. IInv => HandlesAreOpen
  BY DEF IInv
<1> QED
  BY <1>1, InvariantIInv, PTL

\* Every open FatFS file has a descriptor to close it by.
THEOREM SdFilesCorrect == Spec => []SdFilesAreTracked
<1>1. IInv => SdFilesAreTracked
  BY DEF IInv
<1> QED
  BY <1>1, InvariantIInv, PTL

\* What a program holds stays open until it is closed, its file is deleted or
\* the Atari is reset, except under a number two programs may hold.
THEOREM HeldCorrect == Spec => []HeldFilesAreOpen
<1>1. IInv => HeldFilesAreOpen
  BY DEF IInv
<1> QED
  BY <1>1, InvariantIInv, PTL

\* The three together: every open file is accounted for on all sides.
THEOREM AccountsCorrect == Spec => []FilesAreAccountedFor
<1>1. IInv => FilesAreAccountedFor
  BY DEF IInv, FilesAreAccountedFor
<1> QED
  BY <1>1, InvariantIInv, PTL

----------------------------------------------------------------------------
(* The exchanges of the floppy slot                                        *)

\* What of the type of a slot the proofs need.
SlotShape(s) ==
    /\ {"host", "mounted", "files", "dirs", "strays", "taken"} \subseteq DOMAIN s
    /\ DOMAIN s.files = Numbers /\ DOMAIN s.dirs = Numbers

(***************************************************************************)
(* Only the images F, pairs of number and image, and the directories D, by *)
(* number, are open in the session of s, unless something strays in it.    *)
(***************************************************************************)
OpenOnly(s, F, D) ==
    ~s.strays =>
        /\ \A n \in Numbers : s.files[n] # Nothing => <<n, s.files[n]>> \in F
        /\ \A n \in Numbers : s.dirs[n] # Nothing => n \in D

Holds(s, F, D) == SlotShape(s) /\ OpenOnly(s, F, D)

\* What may be open may be open among more.
LEMMA HoldsMore ==
  ASSUME NEW s, NEW F, NEW D, NEW G, NEW E, Holds(s, F, D), F \subseteq G, D \subseteq E
  PROVE  Holds(s, G, E)
BY DEF Holds, OpenOnly

\* The pairs of other numbers.
Without(F, n) == {f \in F : f[1] # n}

LEMMA FreshHolds ==
  ASSUME NEW host, NEW F, NEW D
  PROVE  Holds(Fresh(host), F, D)
BY DEF Holds, OpenOnly, SlotShape, Fresh

\* Closing a number takes it away, whatever becomes of the CLOSE.
LEMMA CloseFileHolds ==
  ASSUME NEW s, NEW F, NEW D, Holds(s, F, D), NEW n, NEW o \in CloseFile(s, n)
  PROVE  Holds(o.slot, Without(F, n), D)
<1>1. CASE o = Outcome([s EXCEPT !.files[n] = Nothing], TRUE, Nothing, 0)
  <2> DEFINE t == [s EXCEPT !.files[n] = Nothing]
  <2>1. o.slot = t
    BY <1>1 DEF Outcome
  <2>2. SlotShape(t) /\ t.strays = s.strays /\ t.dirs = s.dirs
    BY DEF Holds, SlotShape
  <2>3. \A m \in Numbers : t.files[m] = IF m = n THEN Nothing ELSE s.files[m]
    BY DEF Holds, SlotShape
  <2> HIDE DEF t
  <2>4. OpenOnly(t, Without(F, n), D)
    BY <2>2, <2>3 DEF Holds, OpenOnly, Without
  <2> QED
    BY <2>1, <2>2, <2>4 DEF Holds
<1>2. CASE o = Outcome([s EXCEPT !.strays = @ \/ s.files[n] # Nothing], TRUE, Nothing, 1)
  <2> DEFINE t == [s EXCEPT !.strays = @ \/ s.files[n] # Nothing]
  <2>1. o.slot = t
    BY <1>2 DEF Outcome
  <2>2. SlotShape(t) /\ t.files = s.files /\ t.dirs = s.dirs
    BY DEF Holds, SlotShape
  <2>3. t.strays = (s.strays \/ s.files[n] # Nothing)
    BY DEF Holds, SlotShape
  <2> HIDE DEF t
  <2>4. OpenOnly(t, Without(F, n), D)
    BY <2>2, <2>3 DEF Holds, OpenOnly, Without
  <2> QED
    BY <2>1, <2>2, <2>4 DEF Holds
<1> QED
  BY <1>1, <1>2 DEF CloseFile

LEMMA CloseDirHolds ==
  ASSUME NEW s, NEW F, NEW D, Holds(s, F, D), NEW n, NEW o \in CloseDir(s, n)
  PROVE  Holds(o.slot, F, D \ {n}) /\ o.ok
<1>1. CASE o = Outcome([s EXCEPT !.dirs[n] = Nothing], TRUE, Nothing, 0)
  <2> DEFINE t == [s EXCEPT !.dirs[n] = Nothing]
  <2>1. o.slot = t /\ o.ok
    BY <1>1 DEF Outcome
  <2>2. SlotShape(t) /\ t.strays = s.strays /\ t.files = s.files
    BY DEF Holds, SlotShape
  <2>3. \A m \in Numbers : t.dirs[m] = IF m = n THEN Nothing ELSE s.dirs[m]
    BY DEF Holds, SlotShape
  <2> HIDE DEF t
  <2>4. OpenOnly(t, F, D \ {n})
    BY <2>2, <2>3 DEF Holds, OpenOnly
  <2> QED
    BY <2>1, <2>2, <2>4 DEF Holds
<1>2. CASE o = Outcome([s EXCEPT !.strays = @ \/ s.dirs[n] # Nothing], TRUE, Nothing, 1)
  <2> DEFINE t == [s EXCEPT !.strays = @ \/ s.dirs[n] # Nothing]
  <2>1. o.slot = t /\ o.ok
    BY <1>2 DEF Outcome
  <2>2. SlotShape(t) /\ t.files = s.files /\ t.dirs = s.dirs
    BY DEF Holds, SlotShape
  <2>3. t.strays = (s.strays \/ s.dirs[n] # Nothing)
    BY DEF Holds, SlotShape
  <2> HIDE DEF t
  <2>4. OpenOnly(t, F, D \ {n})
    BY <2>2, <2>3 DEF Holds, OpenOnly
  <2> QED
    BY <2>1, <2>2, <2>4 DEF Holds
<1> QED
  BY <1>1, <1>2 DEF CloseDir

\* What a datagram that was lost leaves open strays.
LEMMA StrayHolds ==
  ASSUME NEW s, NEW F, NEW D, NEW G, NEW E, Holds(s, F, D)
  PROVE  Holds([s EXCEPT !.strays = TRUE], G, E)
<1> DEFINE t == [s EXCEPT !.strays = TRUE]
<1>1. SlotShape(t) /\ t.strays
  BY DEF Holds, SlotShape
<1> HIDE DEF t
<1>2. Holds(t, G, E)
  BY <1>1 DEF Holds, OpenOnly
<1> QED
  BY <1>2 DEF t

LEMMA OpenDirHolds ==
  ASSUME NEW s, NEW F, NEW D, Holds(s, F, D), NEW dir, NEW o \in OpenDir(s, dir)
  PROVE  Holds(o.slot, F, IF o.ok THEN D \cup {o.got} ELSE D)
<1> DEFINE opened(n) == [s EXCEPT !.dirs[n] = [dir |-> dir, pos |-> 0]]
<1>1. ASSUME NEW n \in Numbers
      PROVE  Holds(opened(n), F, D \cup {n})
  <2> DEFINE t == opened(n)
  <2>1. SlotShape(t) /\ t.strays = s.strays /\ t.files = s.files
    BY DEF Holds, SlotShape
  <2>2. \A m \in Numbers : m # n => t.dirs[m] = s.dirs[m]
    BY DEF Holds, SlotShape
  <2> HIDE DEF t
  <2>3. OpenOnly(t, F, D \cup {n})
    BY <2>1, <2>2 DEF Holds, OpenOnly
  <2>4. Holds(t, F, D \cup {n})
    BY <2>1, <2>3 DEF Holds
  <2> QED
    BY <2>4 DEF t
<1>2. CASE o = Outcome(s, FALSE, Nothing, 0)
  BY <1>2 DEF Outcome
<1> HIDE DEF opened
<1>3. ASSUME NEW n \in Numbers, o = Outcome(opened(n), TRUE, n, 0)
      PROVE  Holds(o.slot, F, IF o.ok THEN D \cup {o.got} ELSE D)
  BY <1>1, <1>3 DEF Outcome
<1>4. ASSUME NEW n \in Numbers, o = Outcome([opened(n) EXCEPT !.strays = TRUE], FALSE, Nothing, 1)
      PROVE  Holds(o.slot, F, IF o.ok THEN D \cup {o.got} ELSE D)
  <2>1. Holds([opened(n) EXCEPT !.strays = TRUE], F, D)
    BY <1>1, StrayHolds
  <2> QED
    BY <1>4, <2>1 DEF Outcome
<1>5. \/ o = Outcome(s, FALSE, Nothing, 0)
      \/ \E n \in Numbers : o = Outcome(opened(n), TRUE, n, 0)
      \/ \E n \in Numbers : o = Outcome([opened(n) EXCEPT !.strays = TRUE], FALSE, Nothing, 1)
  BY DEF OpenDir, Free, opened
<1> QED
  BY <1>2, <1>3, <1>4, <1>5

OutcomeShape(o) == {"slot", "ok", "got", "lost"} \subseteq DOMAIN o

LEMMA OutcomeHasShape ==
  ASSUME NEW s, NEW ok, NEW got, NEW lost
  PROVE  OutcomeShape(Outcome(s, ok, got, lost))
BY DEF OutcomeShape, Outcome

LEMMA OpenFileHolds ==
  ASSUME NEW s, NEW F, NEW D, Holds(s, F, D), NEW path, NEW o \in OpenFile(s, path)
  PROVE  /\ OutcomeShape(o)
         /\ Holds(o.slot, IF o.ok THEN F \cup {<<o.got, [src |-> s.host, path |-> path]>>} ELSE F, D)
<1> DEFINE image == [src |-> s.host, path |-> path]
           opened(n) == [s EXCEPT !.files[n] = image]
           unheard(t, n) == [t EXCEPT !.files[n] = image, !.strays = TRUE]
<1>1. ASSUME NEW n \in Numbers
      PROVE  Holds(opened(n), F \cup {<<n, image>>}, D)
  <2> DEFINE t == opened(n)
  <2>1. SlotShape(t) /\ t.strays = s.strays /\ t.dirs = s.dirs
    BY DEF Holds, SlotShape
  <2>2. \A m \in Numbers : t.files[m] = IF m = n THEN image ELSE s.files[m]
    BY DEF Holds, SlotShape
  <2> HIDE DEF t, image
  <2>3. OpenOnly(t, F \cup {<<n, image>>}, D)
    BY <2>1, <2>2 DEF Holds, OpenOnly
  <2>4. Holds(t, F \cup {<<n, image>>}, D)
    BY <2>1, <2>3 DEF Holds
  <2> QED
    BY <2>4 DEF t, image
<1>2. ASSUME NEW t, SlotShape(t), NEW n, NEW G, NEW E
      PROVE  Holds(unheard(t, n), G, E)
  <2> DEFINE u == unheard(t, n)
  <2>1. SlotShape(u) /\ u.strays
    BY <1>2 DEF SlotShape
  <2> HIDE DEF u
  <2>2. Holds(u, G, E)
    BY <2>1 DEF Holds, OpenOnly
  <2> QED
    BY <2>2 DEF u
<1>3. CASE o = Outcome(s, FALSE, Nothing, 0)
  BY <1>3, OutcomeHasShape DEF Outcome
<1>4. \/ o = Outcome(s, FALSE, Nothing, 0)
      \/ \E n \in Numbers : o = Outcome(opened(n), TRUE, n, 0)
      \/ \E n \in Numbers : o = Outcome(unheard(s, n), FALSE, Nothing, 1)
      \/ \E n \in Numbers : \E m \in Numbers : o = Outcome(unheard(opened(n), m), TRUE, n, 1)
  <2>1. CASE ~s.mounted \/ image \notin Images \/ Free(s.files) = {}
    BY <2>1 DEF OpenFile
  <2>2. CASE ~(~s.mounted \/ image \notin Images \/ Free(s.files) = {})
    <3>1. \/ o \in {Outcome(opened(n), TRUE, n, 0) : n \in Free(s.files)}
          \/ o \in {Outcome(unheard(s, n), FALSE, Nothing, 1) : n \in Free(s.files)}
          \/ o \in UNION {{Outcome(unheard(opened(n), m), TRUE, n, 1) : m \in Free(s.files) \ {n}} :
                              n \in Free(s.files)}
      BY <2>2 DEF OpenFile
    <3>2. Free(s.files) \subseteq Numbers
      BY DEF Free
    <3> HIDE DEF opened, unheard
    <3>3. o \in UNION {{Outcome(unheard(opened(n), m), TRUE, n, 1) : m \in Free(s.files) \ {n}} :
                           n \in Free(s.files)}
          => \E n \in Free(s.files) : \E m \in Free(s.files) \ {n} :
                 o = Outcome(unheard(opened(n), m), TRUE, n, 1)
      BY Zenon
    <3> QED
      BY <3>1, <3>2, <3>3
  <2> QED
    BY <2>1, <2>2
<1> HIDE DEF opened, unheard, image
<1>5. ASSUME NEW n \in Numbers, o = Outcome(opened(n), TRUE, n, 0)
      PROVE  Holds(o.slot, IF o.ok THEN F \cup {<<o.got, image>>} ELSE F, D)
  BY <1>1, <1>5 DEF Outcome
<1>6. ASSUME NEW n \in Numbers, o = Outcome(unheard(s, n), FALSE, Nothing, 1)
      PROVE  Holds(o.slot, IF o.ok THEN F \cup {<<o.got, image>>} ELSE F, D)
  BY <1>2, <1>6 DEF Outcome, Holds
<1>7. ASSUME NEW n \in Numbers, NEW m \in Numbers, o = Outcome(unheard(opened(n), m), TRUE, n, 1)
      PROVE  Holds(o.slot, IF o.ok THEN F \cup {<<o.got, image>>} ELSE F, D)
  <2>1. SlotShape(opened(n))
    BY <1>1 DEF Holds
  <2>2. Holds(unheard(opened(n), m), F \cup {<<n, image>>}, D)
    BY <1>2, <2>1
  <2> QED
    BY <1>7, <2>2 DEF Outcome
<1> QED
  <2>1. OutcomeShape(o)
    BY <1>4, OutcomeHasShape
  <2> QED
    BY <1>3, <1>4, <1>5, <1>6, <1>7, <2>1 DEF image

\* A server mounted is the one asked for.
LEMMA MountHolds ==
  ASSUME NEW s, NEW F, NEW D, Holds(s, F, D), NEW host, NEW o \in Mount(s, host)
  PROVE  Holds(o.slot, F, D) /\ (o.ok => o.slot.host = host)
<1> DEFINE t == IF s.host = host THEN s ELSE Fresh(host)
           u == [t EXCEPT !.mounted = TRUE]
<1>1. Holds(t, F, D) /\ t.host = host
  BY FreshHolds DEF Fresh
<1>2. o = Outcome(u, TRUE, Nothing, 0) \/ o = Outcome(t, FALSE, Nothing, 1)
  BY DEF Mount
<1> HIDE DEF t
<1>3. SlotShape(u) /\ u.host = host /\ u.files = t.files /\ u.dirs = t.dirs /\ u.strays = t.strays
  BY <1>1 DEF Holds, SlotShape
<1> HIDE DEF u
<1>4. Holds(u, F, D)
  BY <1>1, <1>3 DEF Holds, OpenOnly
<1> QED
  BY <1>1, <1>2, <1>3, <1>4 DEF Outcome

LEMMA OutcomeShapes ==
  /\ \A s, ok, got, lost : OutcomeShape(Outcome(s, ok, got, lost))
  /\ \A s, n : \A o \in CloseFile(s, n) : OutcomeShape(o)
  /\ \A s, n : \A o \in CloseDir(s, n) : OutcomeShape(o)
  /\ \A s, dir : \A o \in OpenDir(s, dir) : OutcomeShape(o)
  /\ \A s, host : \A o \in Mount(s, host) : OutcomeShape(o)
<1>1. \A s, ok, got, lost : OutcomeShape(Outcome(s, ok, got, lost))
  BY DEF OutcomeShape, Outcome
<1>2. ASSUME NEW s, NEW n, NEW o \in CloseFile(s, n)
      PROVE  OutcomeShape(o)
  <2>1. \E t, ok, got, lost : o = Outcome(t, ok, got, lost)
    BY DEF CloseFile
  <2> QED
    BY <1>1, <2>1
<1>3. ASSUME NEW s, NEW n, NEW o \in CloseDir(s, n)
      PROVE  OutcomeShape(o)
  <2>1. \E t, ok, got, lost : o = Outcome(t, ok, got, lost)
    BY DEF CloseDir
  <2> QED
    BY <1>1, <2>1
<1>4. ASSUME NEW s, NEW dir, NEW o \in OpenDir(s, dir)
      PROVE  OutcomeShape(o)
  <2>1. \E t, ok, got, lost : o = Outcome(t, ok, got, lost)
    BY DEF OpenDir
  <2> QED
    BY <1>1, <2>1
<1>5. ASSUME NEW s, NEW host, NEW o \in Mount(s, host)
      PROVE  OutcomeShape(o)
  <2>1. \E t, ok, got, lost : o = Outcome(t, ok, got, lost)
    BY DEF Mount
  <2> QED
    BY <1>1, <2>1
<1> QED
  BY <1>1, <1>2, <1>3, <1>4, <1>5

\* Outcomes that follow others are the same but for what was lost.
LEMMA ThenSame ==
  ASSUME NEW o, NEW outs, \A q \in outs : OutcomeShape(q), NEW p \in Then(o, outs)
  PROVE  /\ OutcomeShape(p)
         /\ \E q \in outs : p.slot = q.slot /\ p.ok = q.ok /\ p.got = q.got
<1>1. PICK q \in outs : p = [q EXCEPT !.lost = @ + o.lost]
  BY DEF Then
<1> QED
  BY <1>1 DEF OutcomeShape

LEMMA FailingSame ==
  ASSUME NEW outs, \A q \in outs : OutcomeShape(q), NEW p \in Failing(outs)
  PROVE  /\ OutcomeShape(p) /\ p.ok = FALSE
         /\ \E q \in outs : p.slot = q.slot /\ p.got = q.got
<1>1. PICK q \in outs : p = [q EXCEPT !.ok = FALSE]
  BY DEF Failing
<1> QED
  BY <1>1 DEF OutcomeShape

----------------------------------------------------------------------------
(* Opening and closing an image                                            *)

\* Reading changes nothing in the slot.
LEMMA ReadSame ==
  ASSUME NEW s, NEW d, NEW lba, NEW r \in ReadSectorOf(s, d, lba)
  PROVE  OutcomeShape(r) /\ r.slot = s
<1> DEFINE on == IF d.image.src = Card THEN d.image
                 ELSE IF s.mounted THEN s.files[d.number] ELSE Nothing
           at(k) == IF on # Nothing /\ (k + 1) * 512 <= Disks[on].bytes
                    THEN Outcome(s, TRUE, Sector(on, k), 0)
                    ELSE Outcome(s, FALSE, Nothing, 0)
           lost == Outcome(s, FALSE, Nothing, 1)
<1>1. \A k : OutcomeShape(at(k)) /\ at(k).slot = s
  BY OutcomeShapes DEF Outcome
<1>2. OutcomeShape(lost) /\ lost.slot = s
  BY OutcomeShapes DEF Outcome
<1>3. r \in {at(lba), lost} \/ r \in Then(lost, {at(lba + 1)})
  BY DEF ReadSectorOf
<1> HIDE DEF on, at, lost
<1> QED
  BY <1>1, <1>2, <1>3, ThenSame

\* An image of the session, by its number.
Entry(d) == <<d.number, d.image>>

LEMMA CloseImageHolds ==
  ASSUME NEW s, NEW F, NEW D, Holds(s, F, D), NEW d, NEW o \in CloseImage(s, d)
  PROVE  OutcomeShape(o) /\ Holds(o.slot, Without(F, d.number), D)
<1>1. CASE d.number = Nothing
  <2>1. o = Unchanged(s)
    BY <1>1 DEF CloseImage
  <2>2. OutcomeShape(o) /\ o.slot = s
    BY <2>1, OutcomeShapes DEF Unchanged, Outcome
  <2>3. Nothing \notin Numbers
    BY SourcesAssumption
  <2>4. Holds(s, Without(F, Nothing), D)
    BY <2>3 DEF Holds, OpenOnly, Without
  <2> QED
    BY <1>1, <2>2, <2>4
<1>2. CASE d.number # Nothing
  <2>1. o \in CloseFile(s, d.number)
    BY <1>2 DEF CloseImage
  <2> QED
    BY <2>1, CloseFileHolds, OutcomeShapes
<1> QED
  BY <1>1, <1>2

\* What the drive is made of when it has an image, and none when it does not.
OpensOnly(o, F, D, src, path) ==
    /\ OutcomeShape(o)
    /\ o.ok => /\ Holds(o.slot, F \cup {Entry(o.got)}, D)
               /\ o.got.image = [src |-> src, path |-> path]
    /\ ~o.ok => Holds(o.slot, F, D)

(***************************************************************************)
(* An image that fails validation is closed again.                         *)
(***************************************************************************)
LEMMA ValidateHolds ==
  ASSUME NEW s, NEW F, NEW D, NEW src, NEW path, NEW n,
         LET d == Opened([src |-> src, path |-> path], n) IN
             Holds(s, F \cup {Entry(d)}, D),
         NEW o \in Validate(s, Opened([src |-> src, path |-> path], n))
  PROVE  OpensOnly(o, F, D, src, path)
<1> DEFINE image == [src |-> src, path |-> path]
           d == Opened(image, n)
           bytes == Disks[d.image].bytes
           accepted(r) == r.ok /\ Acceptable(bytes, Boot(r.got))
           drv(r) == [d EXCEPT !.geom = Geometry(bytes, Boot(r.got))]
<1>1. d.image = image /\ d.number = n
  BY DEF Opened
<1>2. PICK r \in ReadSectorOf(s, d, 0) :
          o \in IF accepted(r) THEN {[r EXCEPT !.got = drv(r)]}
                ELSE Failing(Then(r, CloseImage(r.slot, d)))
  BY Zenon DEF Validate
<1>3. OutcomeShape(r) /\ r.slot = s
  BY ReadSame
<1>4. CASE accepted(r)
  <2>1. o = [r EXCEPT !.got = drv(r)]
    BY <1>2, <1>4
  <2>2. OutcomeShape(o) /\ o.slot = s /\ o.ok /\ o.got = drv(r)
    <3> HIDE DEF drv
    <3> QED
      BY <1>3, <1>4, <2>1 DEF OutcomeShape
  <2>3. drv(r).image = image /\ drv(r).number = n
    BY DEF Opened
  <2>4. Entry(o.got) = Entry(d)
    BY <1>1, <2>2, <2>3 DEF Entry
  <2>5. Holds(o.slot, F \cup {Entry(o.got)}, D)
    BY <2>2, <2>4
  <2> QED
    BY <2>2, <2>3, <2>5 DEF OpensOnly
<1>5. CASE ~accepted(r)
  <2>1. o \in Failing(Then(r, CloseImage(s, d)))
    BY <1>2, <1>3, <1>5
  <2>2. ASSUME NEW c \in CloseImage(s, d)
        PROVE  OutcomeShape(c) /\ Holds(c.slot, Without(F \cup {Entry(d)}, d.number), D)
    <3> DEFINE G == F \cup {Entry(d)}
    <3>1. Holds(s, G, D)
      OBVIOUS
    <3> HIDE DEF d, G
    <3>2. OutcomeShape(c) /\ Holds(c.slot, Without(G, d.number), D)
      BY <3>1, CloseImageHolds
    <3> QED
      BY <3>2 DEF G
  <2>3. ASSUME NEW c \in Then(r, CloseImage(s, d))
        PROVE  OutcomeShape(c) /\ Holds(c.slot, Without(F \cup {Entry(d)}, d.number), D)
    <3> DEFINE left == Without(F \cup {Entry(d)}, d.number)
               closed == CloseImage(s, d)
    <3>1. \A x \in closed : OutcomeShape(x) /\ Holds(x.slot, left, D)
      BY <2>2
    <3>2. c \in Then(r, closed)
      OBVIOUS
    <3> HIDE DEF left, closed, d
    <3>3. OutcomeShape(c) /\ Holds(c.slot, left, D)
      BY <3>1, <3>2, ThenSame
    <3> QED
      BY <3>3 DEF left
  <2>4. OutcomeShape(o) /\ ~o.ok /\ Holds(o.slot, Without(F \cup {Entry(d)}, d.number), D)
    BY <2>1, <2>3, FailingSame
  <2>5. Without(F \cup {Entry(d)}, d.number) \subseteq F
    BY DEF Entry, Without
  <2>6. Holds(o.slot, F, D)
    BY <2>4, <2>5, HoldsMore
  <2> QED
    BY <2>4, <2>6 DEF OpensOnly
<1> QED
  BY <1>4, <1>5

(***************************************************************************)
(* open_into: whether it succeeds or fails, at most the image that is in   *)
(* the new drive is open beside what was.                                  *)
(***************************************************************************)
LEMMA OpenImageHolds ==
  ASSUME NEW s, NEW F, NEW D, Holds(s, F, D), NEW src, NEW path,
         NEW o \in OpenImage(s, src, path)
  PROVE  OpensOnly(o, F, D, src, path)
<1> DEFINE image == [src |-> src, path |-> path]
<1>1. ASSUME NEW outs, NEW p, NEW q \in Then(p, outs), \A x \in outs : OpensOnly(x, F, D, src, path)
      PROVE  OpensOnly(q, F, D, src, path)
  <2>1. \A x \in outs : OutcomeShape(x)
    BY <1>1 DEF OpensOnly
  <2>2. OutcomeShape(q) /\ \E x \in outs : q.slot = x.slot /\ q.ok = x.ok /\ q.got = x.got
    BY <2>1, ThenSame, <1>1
  <2> QED
    BY <1>1, <2>2 DEF OpensOnly
<1>2. CASE src = Card
  <2>1. o = Outcome(s, FALSE, Nothing, 0) \/ o \in Validate(s, Opened(image, Nothing))
    BY <1>2 DEF OpenImage, OpenOnCard
  <2>2. CASE o = Outcome(s, FALSE, Nothing, 0)
    BY <2>2, OutcomeShapes DEF OpensOnly, Outcome
  <2>3. Holds(s, F \cup {Entry(Opened(image, Nothing))}, D)
    BY HoldsMore
  <2>4. CASE o \in Validate(s, Opened(image, Nothing))
    BY <2>3, <2>4, ValidateHolds
  <2> QED
    BY <2>1, <2>2, <2>4
<1>3. CASE src # Card
  <2>1. PICK m \in Mount(s, src) :
            o \in UNION {IF x.ok
                         THEN Then(x, Validate(x.slot, Opened(image, x.got)))
                         ELSE {x} : x \in IF m.ok THEN Then(m, OpenFile(m.slot, path)) ELSE {m}}
    BY <1>3, Zenon DEF OpenImage, OpenOnServer
  <2>2. Holds(m.slot, F, D) /\ (m.ok => m.slot.host = src) /\ OutcomeShape(m)
    BY MountHolds, OutcomeShapes
  <2>3. PICK x \in IF m.ok THEN Then(m, OpenFile(m.slot, path)) ELSE {m} :
            o \in IF x.ok THEN Then(x, Validate(x.slot, Opened(image, x.got))) ELSE {x}
    BY <2>1, Zenon
  <2>4. CASE ~m.ok
    <3>1. o = m
      BY <2>3, <2>4
    <3> QED
      BY <2>2, <2>4, <3>1 DEF OpensOnly
  <2>5. CASE m.ok
    <3>1. \A y \in OpenFile(m.slot, path) :
              OutcomeShape(y)
              /\ Holds(y.slot, IF y.ok THEN F \cup {<<y.got, [src |-> m.slot.host, path |-> path]>>}
                               ELSE F, D)
      BY <2>2, OpenFileHolds, OutcomeShapes
    <3>2. x \in Then(m, OpenFile(m.slot, path))
      BY <2>3, <2>5
    <3>3. OutcomeShape(x) /\ Holds(x.slot, IF x.ok THEN F \cup {<<x.got, image>>} ELSE F, D)
      <4>0. \A y \in OpenFile(m.slot, path) : OutcomeShape(y)
        BY <3>1
      <4>1. \E y \in OpenFile(m.slot, path) : x.slot = y.slot /\ x.ok = y.ok /\ x.got = y.got
        BY <4>0, <3>2, ThenSame
      <4>2. OutcomeShape(x)
        BY <4>0, <3>2, ThenSame
      <4>3. [src |-> m.slot.host, path |-> path] = image
        BY <2>2, <2>5
      <4> QED
        BY <3>1, <4>1, <4>2, <4>3
    <3>4. CASE ~x.ok
      <4>1. o = x
        BY <2>3, <3>4
      <4> QED
        BY <3>3, <3>4, <4>1 DEF OpensOnly
    <3>5. CASE x.ok
      <4>1. Entry(Opened(image, x.got)) = <<x.got, image>>
        BY DEF Entry, Opened
      <4>2. Holds(x.slot, F \cup {Entry(Opened(image, x.got))}, D)
        BY <3>3, <3>5, <4>1
      <4>3. \A y \in Validate(x.slot, Opened(image, x.got)) : OpensOnly(y, F, D, src, path)
        BY <4>2, ValidateHolds
      <4>4. o \in Then(x, Validate(x.slot, Opened(image, x.got)))
        BY <2>3, <3>5
      <4> QED
        BY <1>1, <4>3, <4>4
    <3> QED
      BY <3>4, <3>5
  <2> QED
    BY <2>4, <2>5
<1> QED
  BY <1>2, <1>3

----------------------------------------------------------------------------
(* The steps of the browser                                                *)

WalkDirs == IF walk.open THEN {walk.number} ELSE {}

\* A walk has a directory open only while it is active, and on a server; a
\* GET_PAGE that runs has such a walk.
WalkInv ==
    /\ {"active", "open", "number"} \subseteq DOMAIN walk
    /\ "sd" \in DOMAIN browse /\ "at" \in DOMAIN call
    /\ walk.open => walk.active /\ ~browse.sd
    /\ call.at # "none" => walk.active /\ ~browse.sd

\* Only the drive's image and the walk's directory are open.
SessionInv == Holds(slot, {Entry(drive)}, WalkDirs)

OpenInv == WalkInv /\ SessionInv

LEMMA ProbeHolds ==
  ASSUME NEW s, NEW F, NEW D, Holds(s, F, D), NEW dir, NEW p \in Probe(s, dir)
  PROVE  OutcomeShape(p) /\ Holds(p.slot, F, D)
<1>1. PICK o \in OpenDir(s, dir) : p \in IF o.ok THEN CloseDir(o.slot, o.got) ELSE {o}
  BY Zenon DEF Probe
<1>2. OutcomeShape(o) /\ Holds(o.slot, F, IF o.ok THEN D \cup {o.got} ELSE D)
  BY OpenDirHolds, OutcomeShapes
<1>3. CASE ~o.ok
  BY <1>1, <1>2, <1>3
<1>4. CASE o.ok
  <2> DEFINE E == D \cup {o.got}
  <2>1. p \in CloseDir(o.slot, o.got) /\ Holds(o.slot, F, E)
    BY <1>1, <1>2, <1>4
  <2>2. E \ {o.got} \subseteq D
    OBVIOUS
  <2> HIDE DEF E
  <2>3. OutcomeShape(p) /\ Holds(p.slot, F, E \ {o.got})
    BY <2>1, CloseDirHolds, OutcomeShapes
  <2> QED
    BY <2>2, <2>3, HoldsMore
<1> QED
  BY <1>3, <1>4

\* The number of the walk is closed, or was not open.
LEMMA WalkClosed ==
  ASSUME NEW s, NEW F, Holds(s, F, WalkDirs), NEW c \in CloseDir(s, walk.number)
  PROVE  OutcomeShape(c) /\ Holds(c.slot, F, {})
<1>1. OutcomeShape(c) /\ Holds(c.slot, F, WalkDirs \ {walk.number})
  BY CloseDirHolds, OutcomeShapes
<1>2. WalkDirs \ {walk.number} \subseteq {}
  BY DEF WalkDirs
<1> QED
  BY <1>1, <1>2, HoldsMore

LEMMA AbandonHolds ==
  ASSUME WalkInv, NEW o, OutcomeShape(o), NEW F, Holds(o.slot, F, WalkDirs),
         NEW a \in Abandoning(o)
  PROVE  OutcomeShape(a) /\ Holds(a.slot, F, {})
<1>1. CASE walk.active /\ walk.open /\ ~browse.sd
  <2>1. a \in Then(o, CloseDir(o.slot, walk.number))
    BY <1>1 DEF Abandoning
  <2>2. \A c \in CloseDir(o.slot, walk.number) : OutcomeShape(c)
    BY OutcomeShapes
  <2>3. \A c \in CloseDir(o.slot, walk.number) : Holds(c.slot, F, {})
    BY WalkClosed
  <2> QED
    BY <2>1, <2>2, <2>3, ThenSame
<1>2. CASE ~(walk.active /\ walk.open /\ ~browse.sd)
  <2>1. a = o
    BY <1>2 DEF Abandoning
  <2>2. ~walk.open
    BY <1>2 DEF WalkInv
  <2>3. WalkDirs = {}
    BY <2>2 DEF WalkDirs
  <2> QED
    BY <2>1, <2>3
<1> QED
  BY <1>1, <1>2

\* A step of the browser after which no directory is open.
LEMMA NoWalk ==
  ASSUME Holds(slot', {Entry(drive)}, {}), drive' = drive
  PROVE  SessionInv'
<1>1. {} \subseteq WalkDirs'
  OBVIOUS
<1>2. Holds(slot', {Entry(drive')}, WalkDirs')
  BY <1>1, HoldsMore
<1> QED
  BY <1>2 DEF SessionInv

LEMMA AbandonedShape ==
  ASSUME WalkInv
  PROVE  /\ {"active", "open", "number"} \subseteq DOMAIN Abandoned
         /\ ~Abandoned.open
BY DEF WalkInv, Abandoned

LEMMA DoneShape ==
  ASSUME NEW w, {"active", "open", "number"} \subseteq DOMAIN w
  PROVE  /\ {"active", "open", "number"} \subseteq DOMAIN Done(w)
         /\ ~Done(w).open
BY DEF Done

\* BROWSE_OPEN, CHANGE_DIR and the beginning of GET_PAGE.
LEMMA BrowseCommandKeeps ==
  ASSUME OpenInv, BrowseCommand, drive' = drive
  PROVE  OpenInv'
<1> USE DEF OpenInv
<1>0. OutcomeShape(Unchanged(slot)) /\ Unchanged(slot).slot = slot
  BY OutcomeHasShape DEF Unchanged, Outcome
<1>1. \A a \in Abandoning(Unchanged(slot)) : OutcomeShape(a) /\ Holds(a.slot, {Entry(drive)}, {})
  BY <1>0, AbandonHolds DEF SessionInv
<1>2. ASSUME NEW src \in Hosts, NEW start, BrowseOpenTnfs(src, start), call.at = "none"
      PROVE  OpenInv'
  <2>1. PICK a \in Abandoning(Unchanged(slot)) :
        \E m \in Then(a, Mount(a.slot, src)) :
        \E p \in IF m.ok THEN Then(m, Probe(m.slot, start)) ELSE {m} :
        \E r \in IF m.ok /\ ~p.ok /\ start # Root THEN Then(p, Probe(p.slot, Root)) ELSE {p} :
            /\ Exchange([r EXCEPT !.slot.taken = ~r.ok /\ @])
            /\ \/ \E b, s : Generation(b, s) /\ "sd" \in DOMAIN b
               \/ UNCHANGED browse
    <3>1. "sd" \in DOMAIN [browse EXCEPT !.open = TRUE, !.sd = FALSE, !.root = Root, !.cwd = Root]
          /\ "sd" \in DOMAIN [browse EXCEPT !.open = TRUE, !.sd = FALSE, !.root = Root, !.cwd = start]
      BY DEF WalkInv
    <3> QED
      BY <1>2, <3>1, ZenonT(60) DEF BrowseOpenTnfs
  <2>2. PICK m \in Then(a, Mount(a.slot, src)) :
        \E p \in IF m.ok THEN Then(m, Probe(m.slot, start)) ELSE {m} :
        \E r \in IF m.ok /\ ~p.ok /\ start # Root THEN Then(p, Probe(p.slot, Root)) ELSE {p} :
            /\ Exchange([r EXCEPT !.slot.taken = ~r.ok /\ @])
            /\ \/ \E b, s : Generation(b, s) /\ "sd" \in DOMAIN b
               \/ UNCHANGED browse
    BY <2>1
  <2>3. OutcomeShape(m) /\ Holds(m.slot, {Entry(drive)}, {})
    <3>1. \A x \in Mount(a.slot, src) : OutcomeShape(x) /\ Holds(x.slot, {Entry(drive)}, {})
      BY <1>1, MountHolds, OutcomeShapes
    <3> QED
      BY <3>1, ThenSame
  <2>4. ASSUME NEW o, OutcomeShape(o), Holds(o.slot, {Entry(drive)}, {}), NEW dir,
               NEW q \in Then(o, Probe(o.slot, dir))
        PROVE  OutcomeShape(q) /\ Holds(q.slot, {Entry(drive)}, {})
    <3>1. \A x \in Probe(o.slot, dir) : OutcomeShape(x) /\ Holds(x.slot, {Entry(drive)}, {})
      BY <2>4, ProbeHolds
    <3> QED
      BY <2>4, <3>1, ThenSame
  <2>5. PICK p \in IF m.ok THEN Then(m, Probe(m.slot, start)) ELSE {m} :
        \E r \in IF m.ok /\ ~p.ok /\ start # Root THEN Then(p, Probe(p.slot, Root)) ELSE {p} :
            /\ Exchange([r EXCEPT !.slot.taken = ~r.ok /\ @])
            /\ \/ \E b, s : Generation(b, s) /\ "sd" \in DOMAIN b
               \/ UNCHANGED browse
    BY <2>2
  <2>6. OutcomeShape(p) /\ Holds(p.slot, {Entry(drive)}, {})
    BY <2>3, <2>4, <2>5
  <2>7. PICK r \in IF m.ok /\ ~p.ok /\ start # Root THEN Then(p, Probe(p.slot, Root)) ELSE {p} :
            /\ Exchange([r EXCEPT !.slot.taken = ~r.ok /\ @])
            /\ \/ \E b, s : Generation(b, s) /\ "sd" \in DOMAIN b
               \/ UNCHANGED browse
    BY <2>5
  <2>8. OutcomeShape(r) /\ Holds(r.slot, {Entry(drive)}, {})
    BY <2>4, <2>6, <2>7
  <2>9. Holds(slot', {Entry(drive)}, {})
    <3>1. slot' = [r EXCEPT !.slot.taken = ~r.ok /\ @].slot
      BY <2>7 DEF Exchange
    <3>2. SlotShape(slot') /\ slot'.files = r.slot.files /\ slot'.dirs = r.slot.dirs
          /\ slot'.strays = r.slot.strays
      BY <2>8, <3>1 DEF OutcomeShape, Holds, SlotShape
    <3> QED
      BY <2>8, <3>2 DEF Holds, OpenOnly
  <2>10. "sd" \in DOMAIN browse'
    BY <2>7 DEF Generation, WalkInv
  <2>11. walk' = Abandoned /\ call' = call
    BY <1>2 DEF BrowseOpenTnfs
  <2>12. WalkInv'
    BY <1>2, <2>10, <2>11, AbandonedShape DEF WalkInv
  <2> QED
    BY <2>9, <2>12, NoWalk
<1>3. ASSUME NEW start, BrowseOpenSd(start), call.at = "none"
      PROVE  OpenInv'
  <2>1. Holds(slot', {Entry(drive)}, {})
    BY <1>1, <1>3 DEF BrowseOpenSd, Exchange
  <2>2. "sd" \in DOMAIN browse'
    BY <1>3 DEF BrowseOpenSd, Generation, WalkInv
  <2>3. walk' = Abandoned /\ call' = call
    BY <1>3 DEF BrowseOpenSd
  <2>4. WalkInv'
    BY <1>3, <2>2, <2>3, AbandonedShape DEF WalkInv
  <2> QED
    BY <2>1, <2>4, NoWalk
<1>4. ASSUME NEW cwd, ChangeDir(cwd), call.at = "none"
      PROVE  OpenInv'
  <2>1. PICK p \in IF ~browse.sd THEN Probe(slot, cwd) ELSE {Unchanged(slot)} :
        \E a \in IF p.ok THEN Abandoning(p) ELSE {p} :
            /\ Exchange(a)
            /\ IF p.ok /\ (browse.sd => CardDir(browse.root \o cwd))
               THEN Moved(cwd) ELSE UNCHANGED <<browse, told, walk>>
    BY <1>4 DEF ChangeDir
  <2>2. OutcomeShape(p) /\ Holds(p.slot, {Entry(drive)}, WalkDirs)
    BY <1>0, <2>1, ProbeHolds DEF SessionInv
  <2>3. PICK a \in IF p.ok THEN Abandoning(p) ELSE {p} :
            /\ Exchange(a)
            /\ IF p.ok /\ (browse.sd => CardDir(browse.root \o cwd))
               THEN Moved(cwd) ELSE UNCHANGED <<browse, told, walk>>
    BY <2>1
  <2>4. slot' = a.slot /\ call' = call
    BY <1>4, <2>3 DEF Exchange, ChangeDir
  <2>5. p.ok => Holds(slot', {Entry(drive)}, {})
    BY <2>2, <2>3, <2>4, AbandonHolds
  <2>6. CASE p.ok /\ Moved(cwd)
    <3>1. walk' = Abandoned /\ "sd" \in DOMAIN browse'
      BY <2>6 DEF Moved, Generation, WalkInv
    <3>2. WalkInv'
      BY <1>4, <2>4, <3>1, AbandonedShape DEF WalkInv
    <3> QED
      BY <2>5, <2>6, <3>2, NoWalk
  <2>7. CASE UNCHANGED <<browse, told, walk>>
    <3>1. WalkInv'
      BY <2>4, <2>7 DEF WalkInv
    <3>2. CASE p.ok
      BY <2>5, <3>1, <3>2, NoWalk
    <3>3. CASE ~p.ok
      <4>1. slot' = p.slot
        BY <2>3, <2>4, <3>3
      <4> QED
        BY <2>2, <2>7, <3>1, <4>1 DEF SessionInv, WalkDirs
    <3> QED
      BY <3>2, <3>3
  <2> QED
    BY <2>3, <2>6, <2>7
<1>5. ASSUME NEW g, GetPageRefused(g)
      PROVE  OpenInv'
  BY <1>5 DEF GetPageRefused, WalkInv, SessionInv, WalkDirs
<1>6. ASSUME NEW g, NEW k, GetPageSd(g, k), call.at = "none"
      PROVE  OpenInv'
  <2>1. Holds(slot', {Entry(drive)}, {})
    BY <1>1, <1>6 DEF GetPageSd, Exchange
  <2>2. /\ UNCHANGED <<browse, call>>
        /\ \/ \E x, y : walk' = [Done(NewWalk(g, k)) EXCEPT !.region = x, !.more = y]
           \/ walk' = Done(NewWalk(g, k))
    BY <1>6, Zenon DEF GetPageSd
  <2>3. {"active", "open", "number"} \subseteq DOMAIN walk' /\ ~walk'.open
    BY <2>2 DEF Done, NewWalk
  <2>4. WalkInv'
    BY <1>6, <2>2, <2>3 DEF WalkInv
  <2> QED
    BY <2>1, <2>4, NoWalk
<1>7. ASSUME NEW g, NEW k, GetPageTnfs(g, k)
      PROVE  OpenInv'
  <2>1. browse' = browse /\ ~browse.sd /\ "at" \in DOMAIN call'
    BY <1>7 DEF GetPageTnfs, NotRunning
  <2>2. CASE Resumes(g, k)
    <3>1. UNCHANGED <<walk, slot>> /\ walk.active
      BY <1>7, <2>2 DEF GetPageTnfs, Resumes
    <3> QED
      BY <2>1, <3>1 DEF WalkInv, SessionInv, WalkDirs
  <2>3. CASE ~Resumes(g, k)
    <3>1. Holds(slot', {Entry(drive)}, {}) /\ walk' = NewWalk(g, k)
      BY <1>1, <1>7, <2>3 DEF GetPageTnfs, Exchange
    <3>2. {"active", "open", "number"} \subseteq DOMAIN walk' /\ ~walk'.open /\ walk'.active
      BY <3>1 DEF NewWalk
    <3>3. WalkInv'
      BY <2>1, <3>2 DEF WalkInv
    <3> QED
      BY <3>1, <3>3, NoWalk
  <2> QED
    BY <2>2, <2>3
<1> QED
  BY <1>2, <1>3, <1>4, <1>5, <1>6, <1>7 DEF BrowseCommand

\* A GET_PAGE that fails closes the directory of the walk.
LEMMA FailKeeps ==
  ASSUME WalkInv, NEW o, OutcomeShape(o), Holds(o.slot, {Entry(drive)}, WalkDirs),
         Fail(o, walk), browse' = browse, drive' = drive
  PROVE  OpenInv'
<1>1. PICK c \in IF walk.open THEN Then(o, CloseDir(o.slot, walk.number)) ELSE {o} : Exchange(c)
  BY Zenon DEF Fail
<1>2. Holds(c.slot, {Entry(drive)}, {})
  <2>1. CASE walk.open
    <3>1. \A x \in CloseDir(o.slot, walk.number) :
              OutcomeShape(x) /\ Holds(x.slot, {Entry(drive)}, {})
      BY WalkClosed
    <3> QED
      BY <1>1, <2>1, <3>1, ThenSame
  <2>2. CASE ~walk.open
    BY <1>1, <2>2 DEF WalkDirs
  <2> QED
    BY <2>1, <2>2
<1>3. Holds(slot', {Entry(drive)}, {})
  BY <1>1, <1>2 DEF Exchange
<1>4. {"active", "open", "number"} \subseteq DOMAIN walk' /\ ~walk'.open
  BY DoneShape DEF WalkInv, Fail
<1>5. "at" \in DOMAIN call' /\ call'.at = "none"
  BY DEF Fail, NotRunning
<1>6. WalkInv'
  BY <1>4, <1>5 DEF WalkInv
<1> QED
  BY <1>3, <1>6, NoWalk DEF OpenInv

\* An entry changes neither the directory of the walk nor whether it goes on.
LEMMA TakeSame ==
  ASSUME NEW w, NEW e
  PROVE  /\ DOMAIN Take(w, e) = DOMAIN w
         /\ Take(w, e).open = w.open /\ Take(w, e).number = w.number
         /\ Take(w, e).active = w.active
BY DEF Take

\* A batch opens nothing.
LEMMA AdvancedHolds ==
  ASSUME NEW F, NEW D, Holds(slot, F, D), slot.dirs[walk.number] # Nothing
  PROVE  Holds(Advanced(walk.number), F, D)
<1> DEFINE n == walk.number
           t == Advanced(n)
<1>1. SlotShape(t) /\ t.strays = slot.strays /\ t.files = slot.files
  BY DEF Holds, SlotShape, Advanced
<1>2. \A m \in Numbers : m # n => t.dirs[m] = slot.dirs[m]
  BY DEF Holds, SlotShape, Advanced
<1> HIDE DEF t
<1>3. OpenOnly(t, F, D)
  BY <1>1, <1>2 DEF Holds, OpenOnly
<1>4. Holds(t, F, D)
  BY <1>1, <1>3 DEF Holds
<1> QED
  BY <1>4 DEF t

\* A step of a GET_PAGE that runs.
LEMMA BrowseStepKeeps ==
  ASSUME OpenInv, BrowseStep, drive' = drive
  PROVE  OpenInv'
<1> USE DEF OpenInv
<1>1. CASE Pause
  BY <1>1 DEF Pause, WalkInv, SessionInv, WalkDirs, NotRunning
<1>2. CASE OpenForWalk
  <2>1. /\ ~walk.open /\ walk.active /\ ~browse.sd /\ browse' = browse
        /\ call.at # "none"
    BY <1>2 DEF OpenForWalk, WalkInv
  <2>2. PICK o \in OpenDir(slot, browse.cwd) :
            IF o.ok
            THEN /\ Exchange(o)
                 /\ walk' = [walk EXCEPT !.open = TRUE, !.number = o.got]
                 /\ cache' = NoCache
                 /\ call' = [call EXCEPT !.at = "first"]
                 /\ UNCHANGED answer
            ELSE Fail(o, walk) /\ UNCHANGED cache
    BY <1>2, Zenon DEF OpenForWalk
  <2>3. OutcomeShape(o) /\ Holds(o.slot, {Entry(drive)}, IF o.ok THEN WalkDirs \cup {o.got} ELSE WalkDirs)
    BY OpenDirHolds, OutcomeShapes DEF SessionInv
  <2>4. CASE ~o.ok
    BY <2>1, <2>2, <2>3, <2>4, FailKeeps
  <2>5. CASE o.ok
    <3>1. /\ slot' = o.slot /\ "at" \in DOMAIN call'
          /\ {"active", "open", "number"} \subseteq DOMAIN walk'
          /\ walk'.open = TRUE /\ walk'.number = o.got /\ walk'.active
      BY <2>1, <2>2, <2>5 DEF Exchange, WalkInv
    <3>2. WalkInv'
      BY <2>1, <3>1 DEF WalkInv
    <3>3. WalkDirs = {} /\ WalkDirs' = {o.got}
      BY <2>1, <3>1 DEF WalkDirs
    <3>4. Holds(slot', {Entry(drive)}, WalkDirs')
      BY <2>3, <2>5, <3>1, <3>3
    <3> QED
      BY <3>2, <3>4 DEF SessionInv
  <2> QED
    BY <2>4, <2>5
<1>3. CASE Read
  <2>1. call.at # "none" /\ "at" \in DOMAIN call' /\ UNCHANGED <<slot, browse, walk>>
    BY <1>3 DEF Read
  <2> QED
    BY <2>1 DEF WalkInv, SessionInv, WalkDirs
<1>4. CASE Serve
  <2> DEFINE w == Take(walk, Head(cache.left))
  <2>1. /\ DOMAIN w = DOMAIN walk /\ w.open = walk.open /\ w.number = walk.number
        /\ w.active = walk.active
    BY TakeSame
  <2>2. call.at # "none" /\ browse' = browse /\ walk.active /\ ~browse.sd
    BY <1>4 DEF Serve, WalkInv
  <2>3. \/ /\ \E c \in CloseDir(slot, w.number) : Exchange(c)
           /\ walk' = Done(w)
           /\ call' = NotRunning
        \/ /\ walk' = w
           /\ call' = [NotRunning EXCEPT !.at = "head"]
           /\ slot' = slot
    BY <1>4 DEF Serve
  <2> HIDE DEF w
  <2>4. CASE /\ \E c \in CloseDir(slot, w.number) : Exchange(c)
             /\ walk' = Done(w)
             /\ call' = NotRunning
    <3>1. Holds(slot', {Entry(drive)}, {})
      BY <2>1, <2>4, WalkClosed DEF Exchange, SessionInv
    <3>2. {"active", "open", "number"} \subseteq DOMAIN walk' /\ ~walk'.open
      BY <2>1, <2>4, DoneShape DEF WalkInv
    <3>3. WalkInv'
      BY <2>2, <2>4, <3>2 DEF WalkInv, NotRunning
    <3> QED
      BY <3>1, <3>3, NoWalk
  <2>5. CASE walk' = w /\ call' = [NotRunning EXCEPT !.at = "head"] /\ slot' = slot
    <3>1. WalkInv'
      BY <2>1, <2>2, <2>5 DEF WalkInv, NotRunning
    <3> QED
      BY <2>1, <2>5, <3>1 DEF SessionInv, WalkDirs
  <2> QED
    BY <2>3, <2>4, <2>5
<1>5. CASE EndOfDirectory
  <2>1. call.at # "none" /\ browse' = browse /\ walk.active /\ ~browse.sd
    BY <1>5 DEF EndOfDirectory, WalkInv
  <2>2. Holds(slot', {Entry(drive)}, {})
    BY <1>5, WalkClosed DEF EndOfDirectory, Exchange, SessionInv
  <2>3. \/ walk' = Done(walk) /\ call' = NotRunning
        \/ walk' = FilesPhase(walk) /\ call' = [NotRunning EXCEPT !.at = "head"]
    BY <1>5 DEF EndOfDirectory
  <2>4. "at" \in DOMAIN call' /\ (call'.at # "none" => walk' = FilesPhase(walk))
    BY <2>3 DEF NotRunning
  <2>5. /\ {"active", "open", "number"} \subseteq DOMAIN FilesPhase(walk)
        /\ ~FilesPhase(walk).open /\ FilesPhase(walk).active
    BY <2>1 DEF WalkInv, FilesPhase
  <2>6. {"active", "open", "number"} \subseteq DOMAIN walk' /\ ~walk'.open
    BY <2>3, <2>5, DoneShape DEF WalkInv
  <2>7. WalkInv'
    BY <2>1, <2>4, <2>5, <2>6 DEF WalkInv
  <2> QED
    BY <2>2, <2>7, NoWalk
<1>6. CASE Fetch
  <2>1. /\ call.at # "none" /\ UNCHANGED <<browse, walk>> /\ slot' = Advanced(walk.number)
        /\ slot.dirs[walk.number] # Nothing /\ call' = [call EXCEPT !.rounds = @ - 1]
    BY <1>6 DEF Fetch, Fetching
  <2>2. Holds(slot', {Entry(drive)}, WalkDirs)
    BY <2>1, AdvancedHolds DEF SessionInv
  <2> QED
    BY <2>1, <2>2 DEF WalkInv, SessionInv, WalkDirs
<1>7. CASE FetchRefused
  <2> DEFINE o == Outcome(slot, FALSE, Nothing, 0)
  <2>1. Fail(o, walk) /\ browse' = browse
    BY <1>7 DEF FetchRefused
  <2>2. OutcomeShape(o) /\ o.slot = slot
    BY OutcomeShapes DEF Outcome
  <2> HIDE DEF o
  <2> QED
    BY <2>1, <2>2, FailKeeps DEF SessionInv
<1>8. CASE FetchLost
  <2>1. call.at # "none" /\ browse' = browse
    BY <1>8 DEF FetchLost, Fetching
  <2>2. PICK heard \in BOOLEAN :
           LET s == IF heard /\ slot.dirs[walk.number] # Nothing
                    THEN Advanced(walk.number) ELSE slot
               o == Outcome(s, FALSE, Nothing, 1)
           IN  /\ IF call.retries > 0
                  THEN /\ Exchange(o)
                       /\ call' = [call EXCEPT !.rounds = @ - 1, !.retries = @ - 1]
                       /\ UNCHANGED <<walk, answer>>
                  ELSE Fail(o, walk)
               /\ upset' = (upset \/ heard)
    BY <1>8, Zenon DEF FetchLost
  <2> DEFINE s == IF heard /\ slot.dirs[walk.number] # Nothing
                  THEN Advanced(walk.number) ELSE slot
             o == Outcome(s, FALSE, Nothing, 1)
  <2>3. Holds(s, {Entry(drive)}, WalkDirs)
    BY AdvancedHolds DEF SessionInv
  <2>4. OutcomeShape(o) /\ o.slot = s
    BY OutcomeShapes DEF Outcome
  <2>5. \/ /\ Exchange(o)
           /\ call' = [call EXCEPT !.rounds = @ - 1, !.retries = @ - 1]
           /\ walk' = walk
        \/ Fail(o, walk)
    BY <2>2
  <2> HIDE DEF s, o
  <2>6. CASE /\ Exchange(o)
             /\ call' = [call EXCEPT !.rounds = @ - 1, !.retries = @ - 1]
             /\ walk' = walk
    BY <2>1, <2>3, <2>4, <2>6 DEF Exchange, WalkInv, SessionInv, WalkDirs
  <2>7. CASE Fail(o, walk)
    BY <2>1, <2>3, <2>4, <2>7, FailKeeps
  <2> QED
    BY <2>5, <2>6, <2>7
<1> QED
  BY <1>1, <1>2, <1>3, <1>4, <1>5, <1>6, <1>7, <1>8 DEF BrowseStep

----------------------------------------------------------------------------
(* The steps of the drive                                                  *)

LEMMA ThenOpens ==
  ASSUME NEW outs, NEW F, NEW D, NEW src, NEW path,
         \A x \in outs : OpensOnly(x, F, D, src, path), NEW p, NEW q \in Then(p, outs)
  PROVE  OpensOnly(q, F, D, src, path)
<1>1. \A x \in outs : OutcomeShape(x)
  BY DEF OpensOnly
<1>2. OutcomeShape(q) /\ \E x \in outs : q.slot = x.slot /\ q.ok = x.ok /\ q.got = x.got
  BY <1>1, ThenSame
<1> QED
  BY <1>2 DEF OpensOnly

\* A step of the drive leaves the walk alone.
LEMMA DriveKeeps ==
  ASSUME WalkInv, UNCHANGED browseVars, Holds(slot', {Entry(drive')}, WalkDirs)
  PROVE  OpenInv'
BY DEF OpenInv, WalkInv, SessionInv, WalkDirs, browseVars

\* Without its image, the drive has nothing open in the session.
LEMMA DriveClosedHolds ==
  ASSUME SessionInv, NEW c \in CloseImage(slot, drive)
  PROVE  OutcomeShape(c) /\ Holds(c.slot, {}, WalkDirs)
<1>1. OutcomeShape(c) /\ Holds(c.slot, Without({Entry(drive)}, drive.number), WalkDirs)
  BY CloseImageHolds DEF SessionInv
<1>2. Without({Entry(drive)}, drive.number) \subseteq {}
  BY DEF Without, Entry
<1> QED
  BY <1>1, <1>2, HoldsMore

LEMMA SessionStartKeeps ==
  ASSUME OpenInv, NEW src, NEW path, SessionStart(src, path), UNCHANGED browseVars
  PROVE  OpenInv'
<1>1. PICK c \in CloseImage(slot, drive) :
       \E o \in Then(c, OpenImage(c.slot, src, path)) :
       IF o.ok
       THEN \E p \in Then(o, ReadSectorOf(o.slot, o.got, 0)) :
            Exchange(p) /\ drive' = o.got
       ELSE Exchange(o) /\ drive' = Closed
  BY Zenon DEF SessionStart
<1>2. PICK o \in Then(c, OpenImage(c.slot, src, path)) :
       IF o.ok
       THEN \E p \in Then(o, ReadSectorOf(o.slot, o.got, 0)) :
            Exchange(p) /\ drive' = o.got
       ELSE Exchange(o) /\ drive' = Closed
  BY <1>1, Zenon
<1>3. Holds(c.slot, {}, WalkDirs)
  BY DriveClosedHolds DEF OpenInv
<1>4. \A x \in OpenImage(c.slot, src, path) : OpensOnly(x, {}, WalkDirs, src, path)
  BY <1>3, OpenImageHolds
<1>5. OpensOnly(o, {}, WalkDirs, src, path)
  BY <1>2, <1>4, ThenOpens
<1>6. CASE o.ok
  <2>1. PICK p \in Then(o, ReadSectorOf(o.slot, o.got, 0)) : Exchange(p) /\ drive' = o.got
    BY <1>2, <1>6
  <2>2. \A r \in ReadSectorOf(o.slot, o.got, 0) : OutcomeShape(r) /\ r.slot = o.slot
    BY ReadSame
  <2>3. p.slot = o.slot
    BY <2>1, <2>2, ThenSame
  <2>4. slot' = o.slot
    BY <2>1, <2>3 DEF Exchange
  <2>5. Holds(o.slot, {} \cup {Entry(o.got)}, WalkDirs)
    BY <1>5, <1>6 DEF OpensOnly
  <2>6. Holds(slot', {Entry(drive')}, WalkDirs)
    BY <2>1, <2>4, <2>5, HoldsMore
  <2> QED
    BY <2>6, DriveKeeps DEF OpenInv
<1>7. CASE ~o.ok
  <2>1. slot' = o.slot /\ drive' = Closed
    BY <1>2, <1>7 DEF Exchange
  <2>2. Holds(o.slot, {}, WalkDirs)
    BY <1>5, <1>7 DEF OpensOnly
  <2>3. Holds(slot', {Entry(drive')}, WalkDirs)
    BY <2>1, <2>2, HoldsMore
  <2> QED
    BY <2>3, DriveKeeps DEF OpenInv
<1> QED
  BY <1>6, <1>7

\* The drive is closed.
LEMMA ClosingKeeps ==
  ASSUME OpenInv, \E c \in CloseImage(slot, drive) : Exchange(c), drive' = Closed,
         UNCHANGED browseVars
  PROVE  OpenInv'
<1>1. PICK c \in CloseImage(slot, drive) : Exchange(c)
  OBVIOUS
<1>2. slot' = c.slot /\ Holds(c.slot, {}, WalkDirs)
  BY <1>1, DriveClosedHolds DEF Exchange, OpenInv
<1>3. Holds(slot', {Entry(drive')}, WalkDirs)
  BY <1>2, HoldsMore
<1> QED
  BY <1>3, DriveKeeps DEF OpenInv

\* The first half of a switch: the new image is opened before the old one is closed.
LEMMA PollReleasedKeeps ==
  ASSUME OpenInv, PollReleased, UNCHANGED browseVars
  PROVE  OpenInv'
<1> DEFINE src == SourceOf(NextIndex)
           path == PathOf(NextIndex)
<1>1. CASE UNCHANGED <<slot, drive>>
  BY <1>1, DriveKeeps DEF OpenInv, SessionInv
<1>2. CASE \E o \in OpenImage(slot, src, path) :
              IF o.ok THEN Commits(o) ELSE Exchange(o) /\ UNCHANGED drive
  <2> HIDE DEF src, path
  <2>1. PICK o \in OpenImage(slot, src, path) :
            IF o.ok THEN Commits(o) ELSE Exchange(o) /\ UNCHANGED drive
    BY <1>2
  <2>2. OpensOnly(o, {Entry(drive)}, WalkDirs, src, path)
    BY OpenImageHolds DEF OpenInv, SessionInv
  <2>3. CASE ~o.ok
    <3>1. Holds(slot', {Entry(drive')}, WalkDirs)
      BY <2>1, <2>2, <2>3 DEF OpensOnly, Exchange
    <3> QED
      BY <3>1, DriveKeeps DEF OpenInv
  <2>4. CASE o.ok
    <3> DEFINE both == {Entry(drive)} \cup {Entry(o.got)}
    <3>1. PICK c \in Then(o, CloseImage(o.slot, drive)) : Exchange(c) /\ drive' = o.got
      BY <2>1, <2>4 DEF Commits
    <3>2. Holds(o.slot, both, WalkDirs)
      BY <2>2, <2>4 DEF OpensOnly
    <3>3. Without(both, drive.number) \subseteq {Entry(o.got)}
      BY DEF Without, Entry
    <3> HIDE DEF both
    <3>4. \A x \in CloseImage(o.slot, drive) :
              OutcomeShape(x) /\ Holds(x.slot, Without(both, drive.number), WalkDirs)
      BY <3>2, CloseImageHolds
    <3>5. Holds(c.slot, Without(both, drive.number), WalkDirs)
      BY <3>1, <3>4, ThenSame
    <3>6. Holds(c.slot, {Entry(o.got)}, WalkDirs)
      BY <3>3, <3>5, HoldsMore
    <3>7. Holds(slot', {Entry(drive')}, WalkDirs)
      BY <3>1, <3>6 DEF Exchange
    <3> QED
      BY <3>7, DriveKeeps DEF OpenInv
  <2> QED
    BY <2>3, <2>4
<1> QED
  BY <1>1, <1>2 DEF PollReleased

LEMMA PublishKeeps ==
  ASSUME OpenInv, PublishSwitch, UNCHANGED browseVars
  PROVE  OpenInv'
<1>1. PICK p \in ReadSectorOf(slot, drive, 0) : Exchange(p) /\ drive' = drive
  BY DEF PublishSwitch
<1>2. slot' = slot
  BY <1>1, ReadSame DEF Exchange
<1> QED
  BY <1>1, <1>2, DriveKeeps DEF OpenInv, SessionInv

LEMMA OpenInvInit == FloppyInit => OpenInv
<1> SUFFICES ASSUME FloppyInit
             PROVE  OpenInv
  OBVIOUS
<1>1. Holds(slot, {Entry(drive)}, WalkDirs)
  BY FreshHolds DEF FloppyInit, SlotInit
<1>2. WalkInv
  BY DEF FloppyInit, BrowseInit, WalkInv, NewWalk, NotRunning
<1> QED
  BY <1>1, <1>2 DEF OpenInv, SessionInv

LEMMA OpenInvStep ==
  ASSUME OpenInv, [FloppyNext]_floppyVars
  PROVE  OpenInv'
<1>1. CASE UNCHANGED floppyVars
  BY <1>1, DriveKeeps DEF floppyVars, driveVars, OpenInv, SessionInv
<1>2. CASE BrowseCommand /\ UNCHANGED driveVars
  BY <1>2, BrowseCommandKeeps DEF driveVars
<1>3. CASE BrowseStep /\ UNCHANGED driveVars
  BY <1>3, BrowseStepKeeps DEF driveVars
<1>4. CASE (DriveCommand \/ Poll) /\ UNCHANGED browseVars
  <2>1. CASE \E src \in Sources, path \in Paths : SessionStart(src, path)
    BY <1>4, <2>1, SessionStartKeeps
  <2>2. CASE SessionWithout
    BY <1>4, <2>2, ClosingKeeps DEF SessionWithout
  <2>3. CASE PollHeld
    BY <1>4, <2>3, ClosingKeeps DEF PollHeld
  <2>4. CASE PollReleased
    BY <1>4, <2>4, PollReleasedKeeps
  <2>5. CASE UNCHANGED <<slot, drive>>
    BY <1>4, <2>5, DriveKeeps DEF OpenInv, SessionInv
  <2>6. CASE (\E chunk \in Chunks : WriteChunk(chunk)) \/ (\E t \in Tables : Commit(t))
             \/ MediaChangeAck \/ PollPressed
    <3>1. UNCHANGED <<slot, drive>>
      BY <2>6 DEF WriteChunk, Commit, MediaChangeAck, PollPressed
    <3> QED
      BY <2>5, <3>1
  <2> QED
    BY <1>4, <2>1, <2>2, <2>3, <2>4, <2>6 DEF DriveCommand, Poll
<1>5. CASE PublishSwitch /\ UNCHANGED browseVars
  BY <1>5, PublishKeeps
<1>6. CASE Outside /\ UNCHANGED browseVars
  <2>1. UNCHANGED <<slot, drive>>
    BY <1>6 DEF Outside, Press, Release, Mediach, Getbpb
  <2> QED
    BY <1>6, <2>1, DriveKeeps DEF OpenInv, SessionInv
<1>7. CASE SelectReboots
  <2>1. Holds(slot', {Entry(drive')}, WalkDirs')
    BY <1>7, FreshHolds DEF SelectReboots
  <2>2. WalkInv'
    BY <1>7 DEF SelectReboots, WalkInv, NewWalk, NotRunning
  <2> QED
    BY <2>1, <2>2 DEF OpenInv, SessionInv
<1> QED
  BY <1>1, <1>2, <1>3, <1>4, <1>5, <1>6, <1>7 DEF FloppyNext

LEMMA OpenInvImplies == OpenInv => NothingStaysOpen
BY DEF OpenInv, SessionInv, Holds, OpenOnly, Entry, WalkDirs, NothingStaysOpen

\* What is open in the session of the floppy slot is the image in the drive and the
\* directory of the walk, unless a lost datagram left more: whatever the order of
\* BROWSE_OPEN, CHANGE_DIR, GET_PAGE, SESSION_START and presses of SELECT, which share
\* the slot and take it from each other (close_state, abandon_walk, open_into,
\* commit_candidate).
THEOREM OpenCorrect == FloppySpec => []NothingStaysOpen
<1>1. FloppySpec => []OpenInv
  BY OpenInvInit, OpenInvStep, PTL DEF FloppySpec
<1> QED
  BY <1>1, OpenInvImplies, PTL

----------------------------------------------------------------------------
(* What the Atari sees                                                     *)

\* What of the types of the two records the proofs need.
RomShape == {"path", "geom", "bpb", "changed"} \subseteq DOMAIN rom
AtariShape == {"at", "known"} \subseteq DOMAIN atari

\* Between the halves of a switch the new geometry and image are in place, and
\* the path that is going to be published is the image's.
SwitchInv ==
    \A w \in switching : w.path = drive.image.path /\ rom.geom = drive.geom

SeenInv == RomShape /\ AtariShape /\ SwitchInv /\ PublishedIsActive /\ AtariKnowsTheDisk

\* What a boot sector that was read right publishes.
LEMMA PublishedBpb ==
  ASSUME NEW p, NEW d, ~ReadBlind(p, d)
  PROVE  PublishBpb(p, d) = Bpb(Disks[d.image], d.geom.total)
<1>1. p.ok /\ p.got = Sector(d.image, 0)
  BY DEF ReadBlind
<1>2. Boot(p.got) = Disks[d.image]
  BY <1>1 DEF Boot, Sector
<1> QED
  BY <1>1, <1>2 DEF PublishBpb

LEMMA SeenInvInit == FloppyInit => SeenInv
<1> SUFFICES ASSUME FloppyInit
             PROVE  SeenInv
  OBVIOUS
<1>1. drive = Closed /\ switching = {}
  BY DEF FloppyInit, DriveInit
<1>2. RomShape /\ AtariShape
  BY DEF FloppyInit, DriveInit, RomShape, AtariShape
<1> QED
  BY <1>1, <1>2 DEF SeenInv, SwitchInv, PublishedIsActive, AtariKnowsTheDisk

\* Nothing is published of a drive that is closed.
LEMMA ClosedSeen ==
  ASSUME RomShape', AtariShape', drive' = Closed, switching' = {}
  PROVE  SeenInv'
BY DEF SeenInv, SwitchInv, PublishedIsActive, AtariKnowsTheDisk

\* Steps that touch neither the image nor what is published of it.
LEMMA SameSeen ==
  ASSUME SeenInv, UNCHANGED <<drive, switching, blind, atari>>, RomShape',
         rom'.path = rom.path, rom'.geom = rom.geom, rom'.bpb = rom.bpb,
         rom'.changed = rom.changed
  PROVE  SeenInv'
BY DEF SeenInv, SwitchInv, PublishedIsActive, AtariKnowsTheDisk, RomShape, AtariShape

LEMMA SessionStartSeen ==
  ASSUME OpenInv, SeenInv, switching = {}, NEW src, NEW path, SessionStart(src, path)
  PROVE  SeenInv'
<1>1. /\ switching' = {} /\ atari' = atari
      /\ \E c \in CloseImage(slot, drive) :
         \E o \in Then(c, OpenImage(c.slot, src, path)) :
         IF o.ok
         THEN \E p \in Then(o, ReadSectorOf(o.slot, o.got, 0)) :
              /\ drive' = o.got
              /\ rom' = [floppy |-> TRUE, path |-> Text(path, "atari"),
                         geom |-> o.got.geom, bpb |-> PublishBpb(p, o.got),
                         index |-> ActiveIndex(path), changed |-> TRUE]
              /\ blind' = ReadBlind(p, o.got)
         ELSE /\ drive' = Closed
              /\ rom' = [rom EXCEPT !.floppy = TRUE, !.path = NoText,
                                    !.geom = NoGeometry, !.index = Nothing]
  BY Zenon DEF SessionStart
<1>2. PICK c \in CloseImage(slot, drive) :
         \E o \in Then(c, OpenImage(c.slot, src, path)) :
         IF o.ok
         THEN \E p \in Then(o, ReadSectorOf(o.slot, o.got, 0)) :
              /\ drive' = o.got
              /\ rom' = [floppy |-> TRUE, path |-> Text(path, "atari"),
                         geom |-> o.got.geom, bpb |-> PublishBpb(p, o.got),
                         index |-> ActiveIndex(path), changed |-> TRUE]
              /\ blind' = ReadBlind(p, o.got)
         ELSE /\ drive' = Closed
              /\ rom' = [rom EXCEPT !.floppy = TRUE, !.path = NoText,
                                    !.geom = NoGeometry, !.index = Nothing]
  BY <1>1, Zenon
<1>3. PICK o \in Then(c, OpenImage(c.slot, src, path)) :
         IF o.ok
         THEN \E p \in Then(o, ReadSectorOf(o.slot, o.got, 0)) :
              /\ drive' = o.got
              /\ rom' = [floppy |-> TRUE, path |-> Text(path, "atari"),
                         geom |-> o.got.geom, bpb |-> PublishBpb(p, o.got),
                         index |-> ActiveIndex(path), changed |-> TRUE]
              /\ blind' = ReadBlind(p, o.got)
         ELSE /\ drive' = Closed
              /\ rom' = [rom EXCEPT !.floppy = TRUE, !.path = NoText,
                                    !.geom = NoGeometry, !.index = Nothing]
  BY <1>2, Zenon
<1>4. CASE o.ok
  <2>1. OpensOnly(o, {}, WalkDirs, src, path)
    <3>1. Holds(c.slot, {}, WalkDirs)
      BY DriveClosedHolds DEF OpenInv
    <3>2. \A x \in OpenImage(c.slot, src, path) : OpensOnly(x, {}, WalkDirs, src, path)
      BY <3>1, OpenImageHolds
    <3> QED
      BY <1>3, <3>2, ThenOpens
  <2>2. o.got.image.path = path
    BY <1>4, <2>1 DEF OpensOnly
  <2>3. PICK p \in Then(o, ReadSectorOf(o.slot, o.got, 0)) :
              /\ drive' = o.got
              /\ rom' = [floppy |-> TRUE, path |-> Text(path, "atari"),
                         geom |-> o.got.geom, bpb |-> PublishBpb(p, o.got),
                         index |-> ActiveIndex(path), changed |-> TRUE]
              /\ blind' = ReadBlind(p, o.got)
    BY <1>3, <1>4
  <2>4. /\ RomShape' /\ rom'.changed = TRUE /\ rom'.path.path = path
        /\ rom'.geom = o.got.geom /\ rom'.bpb = PublishBpb(p, o.got)
    BY <2>3 DEF RomShape, Text
  <2>5. PublishedIsActive'
    BY <2>2, <2>3, <2>4, PublishedBpb DEF PublishedIsActive
  <2>6. AtariKnowsTheDisk'
    BY <2>4 DEF AtariKnowsTheDisk
  <2>7. SwitchInv'
    BY <1>1 DEF SwitchInv
  <2> QED
    BY <1>1, <2>4, <2>5, <2>6, <2>7 DEF SeenInv, AtariShape
<1>5. CASE ~o.ok
  <2>1. drive' = Closed /\ RomShape'
    BY <1>3, <1>5 DEF SeenInv, RomShape
  <2>2. AtariShape'
    BY <1>1 DEF SeenInv, AtariShape
  <2> QED
    BY <1>1, <2>1, <2>2, ClosedSeen
<1> QED
  BY <1>4, <1>5

LEMMA PollReleasedSeen ==
  ASSUME OpenInv, SeenInv, switching = {}, PollReleased
  PROVE  SeenInv'
<1> DEFINE src == SourceOf(NextIndex)
           path == PathOf(NextIndex)
<1>1. atari' = atari /\ blind' = blind
  BY DEF PollReleased
<1>2. CASE UNCHANGED <<drive, rom, switching>>
  BY <1>1, <1>2, SameSeen DEF SeenInv, RomShape
<1>3. CASE \E o \in OpenImage(slot, src, path) : o.ok /\ Commits(o)
  <2>1. PICK o \in OpenImage(slot, src, path) : o.ok /\ Commits(o)
    BY <1>3
  <2>2. OpensOnly(o, {Entry(drive)}, WalkDirs, src, path)
    BY OpenImageHolds DEF OpenInv, SessionInv
  <2>3. o.got.image.path = path
    BY <2>1, <2>2 DEF OpensOnly
  <2>4. /\ drive' = o.got /\ rom' = [rom EXCEPT !.geom = o.got.geom]
        /\ switching' = {[index |-> NextIndex, path |-> path]}
    BY <2>1 DEF Commits
  <2> HIDE DEF path
  <2>5. RomShape' /\ rom'.geom = drive'.geom
    BY <2>4 DEF SeenInv, RomShape
  <2>6. SwitchInv' /\ switching' # {}
    BY <2>3, <2>4, <2>5 DEF SwitchInv
  <2> QED
    BY <1>1, <2>5, <2>6 DEF SeenInv, AtariShape, PublishedIsActive, AtariKnowsTheDisk
<1> QED
  BY <1>2, <1>3 DEF PollReleased

\* The second half of a switch.
LEMMA PublishSeen ==
  ASSUME SeenInv, PublishSwitch
  PROVE  SeenInv'
<1>1. PICK w \in switching : \E p \in ReadSectorOf(slot, drive, 0) :
           /\ rom' = [rom EXCEPT !.bpb = PublishBpb(p, drive),
                                 !.path = Text(w.path, "pico"),
                                 !.index = w.index, !.changed = TRUE]
           /\ blind' = ReadBlind(p, drive)
  BY Zenon DEF PublishSwitch
<1>2. PICK p \in ReadSectorOf(slot, drive, 0) :
           /\ rom' = [rom EXCEPT !.bpb = PublishBpb(p, drive),
                                 !.path = Text(w.path, "pico"),
                                 !.index = w.index, !.changed = TRUE]
           /\ blind' = ReadBlind(p, drive)
  BY <1>1, Zenon
<1>3. drive' = drive /\ switching' = {} /\ atari' = atari
  BY DEF PublishSwitch
<1>4. /\ RomShape' /\ rom'.changed = TRUE /\ rom'.path.path = w.path
      /\ rom'.geom = rom.geom /\ rom'.bpb = PublishBpb(p, drive)
  BY <1>2 DEF SeenInv, RomShape, Text
<1>5. PublishedIsActive'
  BY <1>2, <1>3, <1>4, PublishedBpb DEF SeenInv, SwitchInv, PublishedIsActive
<1>6. AtariKnowsTheDisk' /\ SwitchInv'
  BY <1>3, <1>4 DEF AtariKnowsTheDisk, SwitchInv
<1> QED
  BY <1>3, <1>4, <1>5, <1>6 DEF SeenInv, AtariShape

LEMMA SeenInvStep ==
  ASSUME OpenInv, SeenInv, [FloppyNext]_floppyVars
  PROVE  SeenInv'
<1>1. CASE UNCHANGED driveVars
  BY <1>1, SameSeen DEF driveVars, SeenInv, RomShape
<1>2. CASE UNCHANGED floppyVars
  BY <1>1, <1>2 DEF floppyVars, driveVars
<1>3. CASE MainLoopIdle /\ (DriveCommand \/ Poll)
  <2>0. switching = {}
    BY <1>3 DEF MainLoopIdle
  <2>1. CASE \E src \in Sources, path \in Paths : SessionStart(src, path)
    BY <2>0, <2>1, SessionStartSeen
  <2>2. CASE PollReleased
    BY <2>0, <2>2, PollReleasedSeen
  <2>3. CASE SessionWithout \/ PollHeld
    <3>1. drive' = Closed /\ switching' = {} /\ AtariShape'
      BY <2>0, <2>3 DEF SessionWithout, PollHeld, SeenInv, AtariShape
    <3>2. RomShape'
      BY <2>3 DEF SessionWithout, PollHeld, SeenInv, RomShape
    <3> QED
      BY <3>1, <3>2, ClosedSeen
  <2>4. CASE (\E chunk \in Chunks : WriteChunk(chunk)) \/ PollPressed
    <3>1. UNCHANGED <<drive, switching, rom, blind, atari>>
      BY <2>4 DEF WriteChunk, PollPressed
    <3> QED
      BY <3>1, SameSeen DEF SeenInv, RomShape
  <2>5. CASE \E t \in Tables : Commit(t)
    <3>1. PICK t \in Tables : Commit(t)
      BY <2>5
    <3>2. /\ RomShape' /\ rom'.path = rom.path /\ rom'.geom = rom.geom
          /\ rom'.bpb = rom.bpb /\ rom'.changed = rom.changed
      BY <3>1 DEF Commit, SeenInv, RomShape
    <3>3. UNCHANGED <<drive, switching, blind, atari>>
      BY <3>1 DEF Commit
    <3> QED
      BY <3>2, <3>3, SameSeen
  <2>6. CASE MediaChangeAck
    <3>1. /\ RomShape' /\ rom'.path = rom.path /\ rom'.geom = rom.geom /\ rom'.bpb = rom.bpb
      BY <2>6 DEF MediaChangeAck, SeenInv, RomShape
    <3>2. AtariShape' /\ atari'.at = "acked"
      BY <2>6 DEF MediaChangeAck, AtariStep, SeenInv, AtariShape
    <3>3. UNCHANGED <<drive, switching, blind>>
      BY <2>6 DEF MediaChangeAck
    <3> QED
      BY <3>1, <3>2, <3>3 DEF SeenInv, SwitchInv, PublishedIsActive, AtariKnowsTheDisk
  <2> QED
    BY <1>3, <2>1, <2>2, <2>3, <2>4, <2>5, <2>6 DEF DriveCommand, Poll
<1>4. CASE PublishSwitch
  BY <1>4, PublishSeen
<1>5. CASE Outside
  <2>1. CASE Press \/ Release
    <3>1. UNCHANGED <<drive, switching, rom, blind, atari>>
      BY <2>1 DEF Press, Release
    <3> QED
      BY <3>1, SameSeen DEF SeenInv, RomShape
  <2>2. CASE Mediach
    <3>1. AtariShape' /\ atari'.at = "seen"
      BY <2>2 DEF Mediach, AtariStep, SeenInv, AtariShape
    <3>2. UNCHANGED <<drive, switching, rom, blind>>
      BY <2>2 DEF Mediach
    <3> QED
      BY <3>1, <3>2 DEF SeenInv, RomShape, SwitchInv, PublishedIsActive, AtariKnowsTheDisk
  <2>3. CASE Getbpb
    <3>1. AtariShape' /\ atari'.known = rom.bpb
      BY <2>3 DEF Getbpb, AtariShape
    <3>2. UNCHANGED <<drive, switching, rom, blind>>
      BY <2>3 DEF Getbpb
    <3> QED
      BY <3>1, <3>2 DEF SeenInv, RomShape, SwitchInv, PublishedIsActive, AtariKnowsTheDisk
  <2> QED
    BY <1>5, <2>1, <2>2, <2>3 DEF Outside
<1>6. CASE SelectReboots
  <2>1. drive' = Closed /\ switching' = {} /\ RomShape'
    BY <1>6 DEF SelectReboots, MainLoopIdle, RomShape
  <2>2. AtariShape'
    BY <1>6 DEF SelectReboots, SeenInv, AtariShape
  <2> QED
    BY <2>1, <2>2, ClosedSeen
<1> QED
  BY <1>1, <1>2, <1>3, <1>4, <1>5, <1>6 DEF FloppyNext

\* Between switches the fields the Atari reads are those of the image in the drive,
\* and the Atari works with them unless MEDIA_CHANGED is set: wherever a switch falls
\* between Mediach, its acknowledgement and Getbpb (publish_floppy_session,
\* floppy_switch_image, commit_candidate).
THEOREM SeenCorrect == FloppySpec => []AtariSeesTheDrive
<1>1. OpenInv /\ SeenInv /\ [FloppyNext]_floppyVars => (OpenInv /\ SeenInv)'
  BY OpenInvStep, SeenInvStep
<1>2. FloppySpec => [](OpenInv /\ SeenInv)
  BY <1>1, OpenInvInit, SeenInvInit, PTL DEF FloppySpec
<1>3. SeenInv => AtariSeesTheDrive
  BY DEF SeenInv, AtariSeesTheDrive
<1> QED
  BY <1>2, <1>3, PTL

----------------------------------------------------------------------------
(* Induction, and recursion along a sequence                                *)

\* A set of naturals with 0 and with the successors of its members has all of them.
LEMMA AllNaturals ==
  ASSUME NEW B, 0 \in B, \A n \in Nat : n \in B => n + 1 \in B
  PROVE  Nat \subseteq B
<1> DEFINE T == Nat \ B
<1>1. SUFFICES ASSUME T # {}
               PROVE  FALSE
  OBVIOUS
<1>2. PICK x \in T : \A y \in T : x <= y
  BY <1>1, LeastNatural
<1>3. x # 0 /\ x \in Nat
  OBVIOUS
<1>4. x - 1 \in Nat /\ x - 1 \notin T
  BY <1>2, <1>3
<1>5. x - 1 \in B
  BY <1>4
<1> QED
  BY <1>3, <1>4, <1>5

\* A set of sequences with the empty one and with what comes of its members by
\* Append has all of them.
LEMMA AllSequences ==
  ASSUME NEW E, NEW B, <<>> \in B,
         \A t \in Seq(E), e \in E : t \in B => Append(t, e) \in B
  PROVE  Seq(E) \subseteq B
<1> DEFINE N == {n \in Nat : \A t \in Seq(E) : Len(t) = n => t \in B}
<1>1. 0 \in N
  BY EmptySeq
<1>2. ASSUME NEW n \in Nat, n \in N
      PROVE  n + 1 \in N
  <2> SUFFICES ASSUME NEW t \in Seq(E), Len(t) = n + 1
               PROVE  t \in B
    OBVIOUS
  <2>1. t # <<>>
    BY EmptySeq
  <2> DEFINE front == SubSeq(t, 1, Len(t) - 1)
  <2>2. PICK s \in Seq(E), e \in E : t = Append(s, e)
    <3>1. \E s \in Seq(E), e \in E : t = Append(s, e)
      BY <2>1, SequenceEmptyOrAppend
    <3> QED
      BY <3>1
  <2>3. Len(s) = n
    BY <2>2, AppendProperties
  <2>4. s \in B
    BY <1>2, <2>3
  <2> QED
    BY <2>2, <2>4
<1>3. Nat \subseteq N
  <2> HIDE DEF N
  <2> QED
    BY <1>1, <1>2, AllNaturals
<1> QED
  BY <1>3, LenProperties

(***************************************************************************)
(* Recursion along a sequence: a step taken once for each of its elements. *)
(***************************************************************************)
Along(f, step, w, es) ==
    /\ f[0] = w
    /\ \A n \in 1..Len(es) : f[n] = step[f[n - 1]][es[n]]

\* The first n steps.
Runs(f, S, step, w, es, n) ==
    /\ f \in [0..n -> S]
    /\ f[0] = w
    /\ \A m \in 1..n : f[m] = step[f[m - 1]][es[m]]

LEMMA Recursion ==
  ASSUME NEW S, NEW E, NEW step \in [S -> [E -> S]], NEW w \in S, NEW es \in Seq(E)
  PROVE  \E f \in [0..Len(es) -> S] : Along(f, step, w, es)
<1> DEFINE N == {n \in Nat : n <= Len(es) => \E f : Runs(f, S, step, w, es, n)}
<1>0. Len(es) \in Nat
  BY LenProperties
<1>1. 0 \in N
  <2>1. Runs([m \in 0..0 |-> w], S, step, w, es, 0)
    BY DEF Runs
  <2> QED
    BY <2>1
<1>2. ASSUME NEW n \in Nat, n \in N
      PROVE  n + 1 \in N
  <2> SUFFICES ASSUME n + 1 <= Len(es)
               PROVE  \E f : Runs(f, S, step, w, es, n + 1)
    OBVIOUS
  <2>1. PICK f : Runs(f, S, step, w, es, n)
    BY <1>0, <1>2
  <2>2. es[n + 1] \in E /\ f[n] \in S
    BY <1>0, <2>1, ElementOfSeq DEF Runs
  <2> DEFINE next == step[f[n]][es[n + 1]]
             g == [m \in 0..(n + 1) |-> IF m = n + 1 THEN next ELSE f[m]]
  <2>3. next \in S
    BY <2>2
  <2> HIDE DEF next
  <2>4. g \in [0..(n + 1) -> S] /\ g[0] = w
    BY <2>1, <2>3 DEF Runs
  <2>5. ASSUME NEW m \in 1..(n + 1)
        PROVE  g[m] = step[g[m - 1]][es[m]]
    <3>1. CASE m = n + 1
      <4>1. g[m] = next /\ g[m - 1] = f[n]
        BY <3>1
      <4> HIDE DEF g
      <4> QED
        BY <3>1, <4>1 DEF next
    <3>2. CASE m # n + 1
      <4>1. m \in 1..n /\ g[m] = f[m] /\ g[m - 1] = f[m - 1]
        BY <3>2
      <4> HIDE DEF g
      <4> QED
        BY <2>1, <4>1 DEF Runs
    <3> QED
      BY <3>1, <3>2
  <2>6. Runs(g, S, step, w, es, n + 1)
    BY <2>4, <2>5 DEF Runs
  <2> QED
    BY <2>6
<1>3. Nat \subseteq N
  <2> HIDE DEF N
  <2> QED
    BY <1>1, <1>2, AllNaturals
<1>4. \E f : Runs(f, S, step, w, es, Len(es))
  BY <1>0, <1>3
<1> QED
  BY <1>4 DEF Along, Runs

\* There is one such function, and one element more is one step more.
LEMMA AlongAppend ==
  ASSUME NEW s, NEW longer, NEW step, NEW w, NEW f, NEW h,
         Len(s) \in Nat, Len(longer) = Len(s) + 1, \A n \in 1..Len(s) : longer[n] = s[n],
         Along(f, step, w, s), Along(h, step, w, longer)
  PROVE  h[Len(longer)] = step[f[Len(s)]][longer[Len(longer)]]
<1> DEFINE N == {n \in Nat : n <= Len(s) => h[n] = f[n]}
<1>1. 0 \in N
  BY DEF Along
<1>2. ASSUME NEW n \in Nat, n \in N
      PROVE  n + 1 \in N
  <2> SUFFICES ASSUME n + 1 <= Len(s)
               PROVE  h[n + 1] = f[n + 1]
    OBVIOUS
  <2>1. h[n] = f[n] /\ n + 1 \in 1..Len(s) /\ n + 1 \in 1..Len(longer)
    BY <1>2
  <2>2. h[n + 1] = step[h[(n + 1) - 1]][longer[n + 1]]
    BY <2>1 DEF Along
  <2>3. f[n + 1] = step[f[(n + 1) - 1]][s[n + 1]]
    BY <2>1 DEF Along
  <2>4. (n + 1) - 1 = n /\ longer[n + 1] = s[n + 1]
    BY <2>1
  <2> QED
    BY <2>1, <2>2, <2>3, <2>4
<1>3. Nat \subseteq N
  <2> HIDE DEF N
  <2> QED
    BY <1>1, <1>2, AllNaturals
<1>4. h[Len(s)] = f[Len(s)]
  BY <1>3
<1>5. h[Len(s) + 1] = step[h[(Len(s) + 1) - 1]][longer[Len(s) + 1]]
  BY DEF Along
<1>6. (Len(s) + 1) - 1 = Len(s)
  OBVIOUS
<1> QED
  BY <1>4, <1>5, <1>6

----------------------------------------------------------------------------
(* The entries of some kinds                                               *)

Keeping(E, kinds) ==
    [s \in Seq(E) |-> [e \in E |-> IF e.kind \in kinds THEN Append(s, e) ELSE s]]

LEMMA OfKindsAlong ==
  ASSUME NEW E, NEW es \in Seq(E), NEW kinds
  PROVE  \E f \in [0..Len(es) -> Seq(E)] :
             Along(f, Keeping(E, kinds), <<>>, es) /\ OfKinds(es, kinds) = f[Len(es)]
<1>0. Len(es) \in Nat /\ <<>> \in Seq(E)
  BY LenProperties, EmptySeq
<1>1. Keeping(E, kinds) \in [Seq(E) -> [E -> Seq(E)]]
  BY AppendProperties DEF Keeping
<1>2. PICK f \in [0..Len(es) -> Seq(E)] : Along(f, Keeping(E, kinds), <<>>, es)
  BY <1>0, <1>1, Recursion
<1> DEFINE of == CHOOSE g : g = [n \in 0..Len(es) |->
                     IF n = 0 THEN <<>>
                     ELSE IF es[n].kind \in kinds THEN Append(g[n - 1], es[n]) ELSE g[n - 1]]
<1>3. ASSUME NEW n \in 1..Len(es)
      PROVE  f[n] = IF es[n].kind \in kinds THEN Append(f[n - 1], es[n]) ELSE f[n - 1]
  <2>1. f[n - 1] \in Seq(E) /\ es[n] \in E
    BY <1>0, <1>2, ElementOfSeq, SMTT(30)
  <2>2. f[n] = Keeping(E, kinds)[f[n - 1]][es[n]]
    BY <1>2 DEF Along
  <2> QED
    BY <2>1, <2>2 DEF Keeping
<1>4. f = [n \in 0..Len(es) |->
              IF n = 0 THEN <<>>
              ELSE IF es[n].kind \in kinds THEN Append(f[n - 1], es[n]) ELSE f[n - 1]]
  <2> DEFINE body(n) == IF n = 0 THEN <<>>
                        ELSE IF es[n].kind \in kinds THEN Append(f[n - 1], es[n]) ELSE f[n - 1]
  <2>1. ASSUME NEW n \in 0..Len(es)
        PROVE  f[n] = body(n)
    <3>1. f[0] = <<>>
      BY <1>2 DEF Along
    <3>2. CASE n = 0
      BY <3>1, <3>2
    <3>3. CASE n # 0
      <4>1. n \in 1..Len(es)
        BY <1>0, <3>3
      <4> QED
        BY <1>3, <3>3, <4>1
    <3> QED
      BY <3>2, <3>3
  <2> HIDE DEF body
  <2>2. f = [n \in 0..Len(es) |-> body(n)]
    BY <1>2, <2>1
  <2> QED
    BY <2>2 DEF body
<1>5. of = [n \in 0..Len(es) |->
               IF n = 0 THEN <<>>
               ELSE IF es[n].kind \in kinds THEN Append(of[n - 1], es[n]) ELSE of[n - 1]]
  BY <1>4, Zenon
<1>6. OfKinds(es, kinds) = of[Len(es)]
  BY Zenon DEF OfKinds
<1> HIDE DEF of
<1> DEFINE N == {n \in Nat : n <= Len(es) => of[n] = f[n]}
<1>7. 0 \in N
  BY <1>0, <1>2, <1>5 DEF Along
<1>8. ASSUME NEW n \in Nat, n \in N
      PROVE  n + 1 \in N
  <2> SUFFICES ASSUME n + 1 <= Len(es)
               PROVE  of[n + 1] = f[n + 1]
    OBVIOUS
  <2>1. of[n] = f[n] /\ n + 1 \in 1..Len(es) /\ (n + 1) - 1 = n
    BY <1>0, <1>8
  <2>2. of[n + 1] = IF es[n + 1].kind \in kinds THEN Append(of[n], es[n + 1]) ELSE of[n]
    <3>1. n + 1 \in 0..Len(es) /\ n + 1 # 0
      BY <1>0, <2>1
    <3>2. of[n + 1] = IF n + 1 = 0 THEN <<>>
                      ELSE IF es[n + 1].kind \in kinds THEN Append(of[(n + 1) - 1], es[n + 1])
                      ELSE of[(n + 1) - 1]
      BY <1>5, <3>1, Zenon
    <3> QED
      BY <2>1, <3>1, <3>2
  <2> QED
    BY <1>3, <2>1, <2>2
<1>9. Nat \subseteq N
  <2> HIDE DEF N
  <2> QED
    BY <1>7, <1>8, AllNaturals
<1> QED
  BY <1>0, <1>2, <1>6, <1>9

\* What the definition of OfKinds comes to, from the end of a sequence.
LEMMA OfKindsOfNone ==
  ASSUME NEW kinds
  PROVE  OfKinds(<<>>, kinds) = <<>>
<1>1. PICK f : Along(f, Keeping({}, kinds), <<>>, <<>>) /\ OfKinds(<<>>, kinds) = f[Len(<<>>)]
  BY OfKindsAlong, EmptySeq, ZenonT(60)
<1> QED
  BY <1>1, EmptySeq DEF Along

LEMMA OfKindsAppend ==
  ASSUME NEW s \in Seq(Entries), NEW e \in Entries, NEW kinds
  PROVE  OfKinds(Append(s, e), kinds) =
             IF e.kind \in kinds THEN Append(OfKinds(s, kinds), e) ELSE OfKinds(s, kinds)
<1>1. PICK f \in [0..Len(s) -> Seq(Entries)] :
               Along(f, Keeping(Entries, kinds), <<>>, s) /\ OfKinds(s, kinds) = f[Len(s)]
  BY OfKindsAlong
<1>2. Append(s, e) \in Seq(Entries)
  BY AppendProperties
<1>3. PICK h : /\ Along(h, Keeping(Entries, kinds), <<>>, Append(s, e))
               /\ OfKinds(Append(s, e), kinds) = h[Len(Append(s, e))]
  BY <1>2, OfKindsAlong
<1>4. OfKinds(Append(s, e), kinds) = Keeping(Entries, kinds)[OfKinds(s, kinds)][e]
  <2>1. h[Len(Append(s, e))] = Keeping(Entries, kinds)[f[Len(s)]][e]
    <3> DEFINE longer == Append(s, e)
    <3>1. /\ Len(s) \in Nat /\ Len(longer) = Len(s) + 1 /\ longer[Len(longer)] = e
          /\ \A n \in 1..Len(s) : longer[n] = s[n]
      BY LenProperties, AppendProperties
    <3>2. Along(h, Keeping(Entries, kinds), <<>>, longer)
      BY <1>3
    <3> HIDE DEF longer
    <3>3. h[Len(longer)] = Keeping(Entries, kinds)[f[Len(s)]][longer[Len(longer)]]
      BY <1>1, <3>1, <3>2, AlongAppend
    <3> QED
      BY <3>1, <3>3 DEF longer
  <2> QED
    BY <1>1, <1>3, <2>1
<1>5. OfKinds(s, kinds) \in Seq(Entries)
  BY <1>1, LenProperties
<1> QED
  BY <1>4, <1>5 DEF Keeping

LEMMA OfKindsType ==
  ASSUME NEW s \in Seq(Entries), NEW kinds
  PROVE  OfKinds(s, kinds) \in Seq(Entries)
BY OfKindsAlong, LenProperties

LEMMA OfKindsConcat ==
  ASSUME NEW s \in Seq(Entries), NEW t \in Seq(Entries), NEW kinds
  PROVE  OfKinds(s \o t, kinds) = OfKinds(s, kinds) \o OfKinds(t, kinds)
<1> DEFINE B == {u \in Seq(Entries) : OfKinds(s \o u, kinds) = OfKinds(s, kinds) \o OfKinds(u, kinds)}
<1>1. <<>> \in B
  <2>1. s \o <<>> = s
    BY ConcatEmptySeq
  <2>2. OfKinds(s, kinds) \o <<>> = OfKinds(s, kinds)
    BY OfKindsType, ConcatEmptySeq
  <2> QED
    BY <2>1, <2>2, OfKindsOfNone, EmptySeq
<1>2. ASSUME NEW u \in Seq(Entries), NEW e \in Entries, u \in B
      PROVE  Append(u, e) \in B
  <2>1. Append(u, e) \in Seq(Entries) /\ s \o u \in Seq(Entries)
    BY AppendProperties, ConcatProperties
  <2>2. s \o Append(u, e) = Append(s \o u, e)
    OBVIOUS
  <2>3. OfKinds(Append(s \o u, e), kinds) =
            IF e.kind \in kinds THEN Append(OfKinds(s \o u, kinds), e) ELSE OfKinds(s \o u, kinds)
    BY <2>1, OfKindsAppend
  <2>4. OfKinds(Append(u, e), kinds) =
            IF e.kind \in kinds THEN Append(OfKinds(u, kinds), e) ELSE OfKinds(u, kinds)
    BY OfKindsAppend
  <2> DEFINE a == OfKinds(s, kinds)
             b == OfKinds(u, kinds)
  <2>5. a \in Seq(Entries) /\ b \in Seq(Entries) /\ OfKinds(s \o u, kinds) = a \o b
    BY <1>2, OfKindsType
  <2> HIDE DEF a, b
  <2>6. a \o Append(b, e) = Append(a \o b, e)
    BY <2>5
  <2>7. OfKinds(s \o Append(u, e), kinds) = a \o OfKinds(Append(u, e), kinds)
    BY <2>2, <2>3, <2>4, <2>5, <2>6 DEF a, b
  <2> QED
    BY <2>1, <2>7 DEF a
<1>3. Seq(Entries) \subseteq B
  <2> HIDE DEF B
  <2> QED
    BY <1>1, <1>2, AllSequences
<1> QED
  BY <1>3

\* Entries of some kinds among those of more kinds.
LEMMA OfKindsTwice ==
  ASSUME NEW s \in Seq(Entries), NEW more, NEW kinds \in SUBSET more
  PROVE  OfKinds(OfKinds(s, more), kinds) = OfKinds(s, kinds)
<1> DEFINE B == {u \in Seq(Entries) : OfKinds(OfKinds(u, more), kinds) = OfKinds(u, kinds)}
<1>1. <<>> \in B
  BY OfKindsOfNone, EmptySeq
<1>2. ASSUME NEW u \in Seq(Entries), NEW e \in Entries, u \in B
      PROVE  Append(u, e) \in B
  <2>1. Append(u, e) \in Seq(Entries) /\ OfKinds(u, more) \in Seq(Entries)
    BY AppendProperties, OfKindsType
  <2>2. OfKinds(Append(u, e), more) =
            IF e.kind \in more THEN Append(OfKinds(u, more), e) ELSE OfKinds(u, more)
    BY OfKindsAppend
  <2>3. OfKinds(Append(u, e), kinds) =
            IF e.kind \in kinds THEN Append(OfKinds(u, kinds), e) ELSE OfKinds(u, kinds)
    BY OfKindsAppend
  <2>4. OfKinds(Append(OfKinds(u, more), e), kinds) =
            IF e.kind \in kinds THEN Append(OfKinds(OfKinds(u, more), kinds), e)
            ELSE OfKinds(OfKinds(u, more), kinds)
    BY <2>1, OfKindsAppend
  <2>5. OfKinds(OfKinds(u, more), kinds) = OfKinds(u, kinds)
    BY <1>2
  <2> QED
    BY <2>1, <2>2, <2>3, <2>4, <2>5
<1>3. Seq(Entries) \subseteq B
  <2> HIDE DEF B
  <2> QED
    BY <1>1, <1>2, AllSequences
<1> QED
  BY <1>3

----------------------------------------------------------------------------
(* The types of what exchanges have for outcomes                           *)

\* Directories are open only in a session with a server, and it has them.
SlotSound(s) ==
    /\ s \in Slots
    /\ s.mounted => s.host \in Hosts
    /\ \A n \in Numbers : s.dirs[n] # Nothing =>
           s.mounted /\ s.dirs[n].dir \in DOMAIN Listing[s.host]

\* The browser finds the slot as it left it, unless it was taken.
Apart(s, t) == t.taken \/ (~s.taken /\ t.host = s.host /\ t.dirs = s.dirs)

\* The directories that were open still are where they were.
OpenStays(s, t) ==
    /\ t.host = s.host /\ t.taken = s.taken
    /\ \A n \in Numbers : s.dirs[n] # Nothing => t.dirs[n] = s.dirs[n]

Sound(o) == OutcomeShape(o) /\ SlotSound(o.slot) /\ o.lost \in Nat /\ o.ok \in BOOLEAN

LEMMA OutcomeSound ==
  ASSUME NEW s, SlotSound(s), NEW got, NEW lost \in Nat
  PROVE  Sound(Outcome(s, TRUE, got, lost)) /\ Sound(Outcome(s, FALSE, got, lost))
BY DEF Sound, Outcome, OutcomeShape

LEMMA ApartAgain ==
  ASSUME NEW s, NEW t, NEW u, Apart(s, t), Apart(t, u)
  PROVE  Apart(s, u)
BY DEF Apart

LEMMA ApartSame ==
  ASSUME NEW s, SlotSound(s)
  PROVE  Apart(s, s)
BY DEF Apart, SlotSound, Slots

LEMMA ThenSound ==
  ASSUME NEW o, NEW outs, o.lost \in Nat, \A q \in outs : Sound(q), NEW p \in Then(o, outs)
  PROVE  /\ Sound(p)
         /\ \E q \in outs : p.slot = q.slot /\ p.ok = q.ok /\ p.got = q.got
<1>1. PICK q \in outs : p = [q EXCEPT !.lost = @ + o.lost]
  BY DEF Then
<1>2. OutcomeShape(q) /\ q.lost \in Nat
  BY DEF Sound
<1>3. OutcomeShape(p) /\ p.slot = q.slot /\ p.ok = q.ok /\ p.got = q.got /\ p.lost = q.lost + o.lost
  BY <1>1, <1>2 DEF OutcomeShape
<1>4. p.lost \in Nat
  BY <1>2, <1>3
<1> QED
  BY <1>3, <1>4 DEF Sound

LEMMA FailingSound ==
  ASSUME NEW outs, \A q \in outs : Sound(q), NEW p \in Failing(outs)
  PROVE  Sound(p) /\ p.ok = FALSE /\ \E q \in outs : p.slot = q.slot
<1>1. PICK q \in outs : p = [q EXCEPT !.ok = FALSE]
  BY DEF Failing
<1>2. OutcomeShape(p) /\ p.ok = FALSE /\ p.slot = q.slot /\ p.lost = q.lost
  BY <1>1 DEF OutcomeShape, Sound
<1> QED
  BY <1>2 DEF Sound

LEMMA FreshSound ==
  ASSUME NEW host \in Hosts \cup {Nothing}
  PROVE  SlotSound(Fresh(host)) /\ Fresh(host).taken /\ Fresh(host).host = host
BY DEF SlotSound, Slots, Positions, Fresh

LEMMA CloseFileSound ==
  ASSUME NEW s, SlotSound(s), NEW n, NEW o \in CloseFile(s, n)
  PROVE  Sound(o) /\ Apart(s, o.slot)
<1>1. CASE o = Outcome([s EXCEPT !.files[n] = Nothing], TRUE, Nothing, 0)
  <2> DEFINE t == [s EXCEPT !.files[n] = Nothing]
  <2>1. t \in Slots
    BY DEF SlotSound, Slots
  <2>2. t.host = s.host /\ t.mounted = s.mounted /\ t.dirs = s.dirs /\ t.taken = s.taken
    BY DEF SlotSound, Slots
  <2> HIDE DEF t
  <2>3. SlotSound(t) /\ Apart(s, t)
    BY <2>1, <2>2 DEF SlotSound, Slots, Apart
  <2>4. Sound(o) /\ o.slot = t
    BY <1>1, <2>3, OutcomeSound DEF Outcome, t
  <2> QED
    BY <2>3, <2>4
<1>2. CASE o = Outcome([s EXCEPT !.strays = @ \/ s.files[n] # Nothing], TRUE, Nothing, 1)
  <2> DEFINE t == [s EXCEPT !.strays = @ \/ s.files[n] # Nothing]
  <2>1. t \in Slots
    BY DEF SlotSound, Slots
  <2>2. t.host = s.host /\ t.mounted = s.mounted /\ t.dirs = s.dirs /\ t.taken = s.taken
    BY DEF SlotSound, Slots
  <2> HIDE DEF t
  <2>3. SlotSound(t) /\ Apart(s, t)
    BY <2>1, <2>2 DEF SlotSound, Slots, Apart
  <2>4. Sound(o) /\ o.slot = t
    BY <1>2, <2>3, OutcomeSound DEF Outcome, t
  <2> QED
    BY <2>3, <2>4
<1> QED
  BY <1>1, <1>2 DEF CloseFile

LEMMA CloseDirSound ==
  ASSUME NEW s, SlotSound(s), NEW n, NEW o \in CloseDir(s, n)
  PROVE  Sound(o) /\ o.ok /\ o.slot.host = s.host /\ o.slot.taken = s.taken
<1>1. CASE o = Outcome([s EXCEPT !.dirs[n] = Nothing], TRUE, Nothing, 0)
  <2> DEFINE t == [s EXCEPT !.dirs[n] = Nothing]
  <2>1. t \in Slots
    BY DEF SlotSound, Slots, Positions
  <2>2. /\ t.host = s.host /\ t.mounted = s.mounted /\ t.taken = s.taken
        /\ \A m \in Numbers : t.dirs[m] = Nothing \/ t.dirs[m] = s.dirs[m]
    BY DEF SlotSound, Slots
  <2> HIDE DEF t
  <2>3. SlotSound(t)
    BY <2>1, <2>2 DEF SlotSound
  <2>4. Sound(o) /\ o.slot = t /\ o.ok
    BY <1>1, <2>3, OutcomeSound DEF Outcome, t
  <2> QED
    BY <2>2, <2>4
<1>2. CASE o = Outcome([s EXCEPT !.strays = @ \/ s.dirs[n] # Nothing], TRUE, Nothing, 1)
  <2> DEFINE t == [s EXCEPT !.strays = @ \/ s.dirs[n] # Nothing]
  <2>1. t \in Slots
    BY DEF SlotSound, Slots
  <2>2. t.host = s.host /\ t.mounted = s.mounted /\ t.taken = s.taken /\ t.dirs = s.dirs
    BY DEF SlotSound, Slots
  <2> HIDE DEF t
  <2>3. SlotSound(t)
    BY <2>1, <2>2 DEF SlotSound
  <2>4. Sound(o) /\ o.slot = t /\ o.ok
    BY <1>2, <2>3, OutcomeSound DEF Outcome, t
  <2> QED
    BY <2>2, <2>4
<1> QED
  BY <1>1, <1>2 DEF CloseDir

\* OPENDIRX leaves what is open where it is, and what it opens is at its start.
LEMMA OpenDirSound ==
  ASSUME NEW s, SlotSound(s), NEW dir, NEW o \in OpenDir(s, dir)
  PROVE  /\ Sound(o) /\ OpenStays(s, o.slot)
         /\ o.ok => /\ o.got \in Numbers
                    /\ o.slot.dirs[o.got] = [dir |-> dir, pos |-> 0]
                    /\ s.host \in Hosts /\ dir \in DOMAIN Listing[s.host]
<1> DEFINE opened(n) == [s EXCEPT !.dirs[n] = [dir |-> dir, pos |-> 0]]
           strayed(n) == [opened(n) EXCEPT !.strays = TRUE]
<1>1. CASE o = Outcome(s, FALSE, Nothing, 0)
  BY <1>1, OutcomeSound DEF Outcome, OpenStays
<1>2. ASSUME NEW n \in Free(s.dirs), s.mounted, dir \in DOMAIN Listing[s.host]
      PROVE  /\ SlotSound(opened(n)) /\ SlotSound(strayed(n))
             /\ OpenStays(s, opened(n)) /\ OpenStays(s, strayed(n))
             /\ opened(n).dirs[n] = [dir |-> dir, pos |-> 0]
             /\ n \in Numbers /\ s.host \in Hosts
  <2>1. n \in Numbers /\ s.dirs[n] = Nothing /\ s.host \in Hosts /\ dir \in Dirs
    BY <1>2 DEF Free, SlotSound, Dirs, Sources
  <2>2. [dir |-> dir, pos |-> 0] \in Positions
    BY <2>1 DEF Positions
  <2> DEFINE t == opened(n)
             u == strayed(n)
             at == [dir |-> dir, pos |-> 0]
  <2>3. at.dir = dir
    OBVIOUS
  <2> HIDE DEF at
  <2>4. t \in Slots
    BY <2>2 DEF SlotSound, Slots, at
  <2>5. /\ t.host = s.host /\ t.mounted = s.mounted /\ t.taken = s.taken
        /\ \A m \in Numbers : t.dirs[m] = IF m = n THEN at ELSE s.dirs[m]
    BY DEF SlotSound, Slots, at
  <2> HIDE DEF t
  <2>6. SlotSound(t) /\ OpenStays(s, t)
    BY <1>2, <2>1, <2>3, <2>4, <2>5 DEF SlotSound, OpenStays
  <2>7. u \in Slots /\ u.host = t.host /\ u.mounted = t.mounted /\ u.taken = t.taken
        /\ u.dirs = t.dirs
    <3>1. u = [t EXCEPT !.strays = TRUE]
      BY DEF t
    <3> HIDE DEF u
    <3> QED
      BY <2>4, <3>1 DEF Slots
  <2> HIDE DEF u
  <2>8. SlotSound(u) /\ OpenStays(s, u)
    BY <2>6, <2>7 DEF SlotSound, OpenStays
  <2> QED
    BY <2>1, <2>5, <2>6, <2>8 DEF t, u, at
<1> HIDE DEF opened, strayed
<1>3. ASSUME NEW n \in Free(s.dirs), s.mounted, dir \in DOMAIN Listing[s.host],
             o = Outcome(opened(n), TRUE, n, 0)
      PROVE  /\ Sound(o) /\ OpenStays(s, o.slot)
             /\ o.ok => /\ o.got \in Numbers
                        /\ o.slot.dirs[o.got] = [dir |-> dir, pos |-> 0]
                        /\ s.host \in Hosts /\ dir \in DOMAIN Listing[s.host]
  BY <1>2, <1>3, OutcomeSound DEF Outcome
<1>4. ASSUME NEW n \in Free(s.dirs), s.mounted, dir \in DOMAIN Listing[s.host],
             o = Outcome(strayed(n), FALSE, Nothing, 1)
      PROVE  Sound(o) /\ OpenStays(s, o.slot) /\ ~o.ok
  BY <1>2, <1>4, OutcomeSound DEF Outcome
<1>5. \/ o = Outcome(s, FALSE, Nothing, 0)
      \/ /\ s.mounted /\ dir \in DOMAIN Listing[s.host]
         /\ \/ \E n \in Free(s.dirs) : o = Outcome(opened(n), TRUE, n, 0)
            \/ \E n \in Free(s.dirs) : o = Outcome(strayed(n), FALSE, Nothing, 1)
  BY DEF OpenDir, opened, strayed
<1> QED
  BY <1>1, <1>3, <1>4, <1>5

LEMMA MountSound ==
  ASSUME NEW s, SlotSound(s), NEW host \in Hosts, NEW o \in Mount(s, host)
  PROVE  /\ Sound(o) /\ Apart(s, o.slot)
         /\ o.ok => o.slot.host = host /\ o.slot.mounted
<1> DEFINE t == IF s.host = host THEN s ELSE Fresh(host)
           u == [t EXCEPT !.mounted = TRUE]
<1>1. SlotSound(t) /\ t.host = host /\ Apart(s, t)
  BY FreshSound, ApartSame DEF Apart
<1>2. o = Outcome(u, TRUE, Nothing, 0) \/ o = Outcome(t, FALSE, Nothing, 1)
  BY DEF Mount
<1> HIDE DEF t
<1>3. u \in Slots /\ u.host = host /\ u.mounted /\ u.dirs = t.dirs /\ u.taken = t.taken
  BY <1>1 DEF SlotSound, Slots
<1> HIDE DEF u
<1>4. SlotSound(u) /\ Apart(s, u)
  BY <1>1, <1>3 DEF SlotSound, Apart
<1>5. CASE o = Outcome(u, TRUE, Nothing, 0)
  BY <1>3, <1>4, <1>5, OutcomeSound DEF Outcome
<1>6. CASE o = Outcome(t, FALSE, Nothing, 1)
  BY <1>1, <1>6, OutcomeSound DEF Outcome
<1> QED
  BY <1>2, <1>5, <1>6

LEMMA OpenFileSound ==
  ASSUME NEW s, SlotSound(s), NEW path, NEW o \in OpenFile(s, path)
  PROVE  /\ Sound(o) /\ Apart(s, o.slot)
         /\ o.ok => o.got \in Numbers /\ [src |-> s.host, path |-> path] \in Images
<1> DEFINE image == [src |-> s.host, path |-> path]
           opened(n) == [s EXCEPT !.files[n] = image]
           unheard(t, n) == [t EXCEPT !.files[n] = image, !.strays = TRUE]
<1>1. CASE o = Outcome(s, FALSE, Nothing, 0)
  BY <1>1, OutcomeSound, ApartSame DEF Outcome
<1>2. ASSUME NEW t, SlotSound(t), NEW n, image \in Images
      PROVE  /\ SlotSound([t EXCEPT !.files[n] = image]) /\ Apart(t, [t EXCEPT !.files[n] = image])
             /\ SlotSound(unheard(t, n)) /\ Apart(t, unheard(t, n))
  <2> HIDE DEF image
  <2> DEFINE u == [t EXCEPT !.files[n] = image]
             v == [t EXCEPT !.files[n] = image, !.strays = TRUE]
  <2>1. /\ u \in Slots
        /\ u.host = t.host /\ u.mounted = t.mounted /\ u.dirs = t.dirs /\ u.taken = t.taken
    BY <1>2 DEF SlotSound, Slots
  <2>2. /\ v \in Slots
        /\ v.host = t.host /\ v.mounted = t.mounted /\ v.dirs = t.dirs /\ v.taken = t.taken
    BY <1>2 DEF SlotSound, Slots
  <2> HIDE DEF u, v
  <2>3. SlotSound(u) /\ Apart(t, u)
    BY <1>2, <2>1 DEF SlotSound, Apart, Slots
  <2>4. SlotSound(v) /\ Apart(t, v)
    BY <1>2, <2>2 DEF SlotSound, Apart, Slots
  <2> QED
    BY <2>3, <2>4 DEF u, v
<1>3. \/ o = Outcome(s, FALSE, Nothing, 0)
      \/ /\ image \in Images
         /\ \/ \E n \in Numbers : o = Outcome(opened(n), TRUE, n, 0)
            \/ \E n \in Numbers : o = Outcome(unheard(s, n), FALSE, Nothing, 1)
            \/ \E n \in Numbers : \E m \in Numbers :
                   o = Outcome(unheard(opened(n), m), TRUE, n, 1)
  <2>1. CASE ~s.mounted \/ image \notin Images \/ Free(s.files) = {}
    BY <2>1 DEF OpenFile
  <2>2. CASE ~(~s.mounted \/ image \notin Images \/ Free(s.files) = {})
    <3>1. \/ o \in {Outcome(opened(n), TRUE, n, 0) : n \in Free(s.files)}
          \/ o \in {Outcome(unheard(s, n), FALSE, Nothing, 1) : n \in Free(s.files)}
          \/ o \in UNION {{Outcome(unheard(opened(n), m), TRUE, n, 1) : m \in Free(s.files) \ {n}} :
                              n \in Free(s.files)}
      BY <2>2 DEF OpenFile
    <3>2. Free(s.files) \subseteq Numbers
      BY DEF Free
    <3> HIDE DEF opened, unheard
    <3>3. o \in UNION {{Outcome(unheard(opened(n), m), TRUE, n, 1) : m \in Free(s.files) \ {n}} :
                           n \in Free(s.files)}
          => \E n \in Free(s.files) : \E m \in Free(s.files) \ {n} :
                 o = Outcome(unheard(opened(n), m), TRUE, n, 1)
      BY Zenon
    <3> QED
      BY <2>2, <3>1, <3>2, <3>3
  <2> QED
    BY <2>1, <2>2
<1>4. ASSUME image \in Images, NEW n \in Numbers
      PROVE  /\ SlotSound(opened(n)) /\ Apart(s, opened(n))
             /\ SlotSound(unheard(s, n)) /\ Apart(s, unheard(s, n))
             /\ \A m \in Numbers : /\ SlotSound(unheard(opened(n), m))
                                   /\ Apart(s, unheard(opened(n), m))
  <2>1. SlotSound(opened(n)) /\ Apart(s, opened(n))
    BY <1>2, <1>4
  <2>2. SlotSound(unheard(s, n)) /\ Apart(s, unheard(s, n))
    BY <1>2, <1>4
  <2> HIDE DEF opened, unheard, image
  <2>3. ASSUME NEW m \in Numbers
        PROVE  SlotSound(unheard(opened(n), m)) /\ Apart(opened(n), unheard(opened(n), m))
    BY <1>2, <1>4, <2>1
  <2> QED
    BY <2>1, <2>2, <2>3, ApartAgain
<1> HIDE DEF opened, unheard
<1>5. ASSUME image \in Images, NEW n \in Numbers, o = Outcome(opened(n), TRUE, n, 0)
      PROVE  Sound(o) /\ Apart(s, o.slot) /\ o.got \in Numbers
  BY <1>4, <1>5, OutcomeSound DEF Outcome
<1>6. ASSUME image \in Images, NEW n \in Numbers, o = Outcome(unheard(s, n), FALSE, Nothing, 1)
      PROVE  Sound(o) /\ Apart(s, o.slot) /\ ~o.ok
  BY <1>4, <1>6, OutcomeSound DEF Outcome
<1>7. ASSUME image \in Images, NEW n \in Numbers, NEW m \in Numbers,
             o = Outcome(unheard(opened(n), m), TRUE, n, 1)
      PROVE  Sound(o) /\ Apart(s, o.slot) /\ o.got \in Numbers
  BY <1>4, <1>7, OutcomeSound DEF Outcome
<1> QED
  BY <1>1, <1>3, <1>5, <1>6, <1>7

----------------------------------------------------------------------------
(* The types of what opening an image gives                                 *)

\* An image that is open, in the session or on the card.
ImageDrive(d) ==
    /\ d \in [image : Images, number : Numbers \cup {Nothing}, geom : Geometries]
    /\ d.image.src # Card => d.number \in Numbers

LEMMA ReadSound ==
  ASSUME NEW s, SlotSound(s), NEW d, ImageDrive(d), NEW lba, NEW r \in ReadSectorOf(s, d, lba)
  PROVE  Sound(r) /\ r.slot = s /\ (r.ok => IsBoot(Boot(r.got)))
<1> DEFINE on == IF d.image.src = Card THEN d.image
                 ELSE IF s.mounted THEN s.files[d.number] ELSE Nothing
           at(k) == IF on # Nothing /\ (k + 1) * 512 <= Disks[on].bytes
                    THEN Outcome(s, TRUE, Sector(on, k), 0)
                    ELSE Outcome(s, FALSE, Nothing, 0)
           lost == Outcome(s, FALSE, Nothing, 1)
           good(o) == Sound(o) /\ o.slot = s /\ (o.ok => IsBoot(Boot(o.got)))
<1>1. on \in Images \cup {Nothing}
  BY DEF ImageDrive, SlotSound, Slots
<1>2. good(lost) /\ good(Outcome(s, FALSE, Nothing, 0))
  BY OutcomeSound DEF Outcome
<1>3. ASSUME NEW k
      PROVE  good(at(k))
  <2>1. CASE at(k) = Outcome(s, FALSE, Nothing, 0)
    <3> HIDE DEF at
    <3> QED
      BY <1>2, <2>1
  <2>2. CASE on # Nothing /\ at(k) = Outcome(s, TRUE, Sector(on, k), 0)
    <3> HIDE DEF on
    <3>1. Boot(Sector(on, k)) = Disks[on] \/ Boot(Sector(on, k)) = NotABoot
      BY DEF Boot, Sector
    <3>2. IsBoot(Boot(Sector(on, k)))
      BY <1>1, <2>2, <3>1, DisksAssumption
    <3> DEFINE o == at(k)
    <3>3. o.got = Sector(on, k) /\ o.slot = s /\ Sound(o)
      BY <2>2, OutcomeSound DEF Outcome
    <3> HIDE DEF o
    <3>4. good(o)
      BY <3>2, <3>3
    <3> QED
      BY <3>4 DEF o
  <2>3. at(k) = Outcome(s, FALSE, Nothing, 0)
        \/ (on # Nothing /\ at(k) = Outcome(s, TRUE, Sector(on, k), 0))
    OBVIOUS
  <2> QED
    BY <2>1, <2>2, <2>3
<1>4. r \in {at(lba), lost} \/ r \in Then(lost, {at(lba + 1)})
  BY DEF ReadSectorOf
<1>5. lost.lost \in Nat
  BY DEF Outcome
<1> HIDE DEF on, at, lost
<1>6. CASE r \in {at(lba), lost}
  BY <1>2, <1>3, <1>6
<1>7. CASE r \in Then(lost, {at(lba + 1)})
  <2>1. \A q \in {at(lba + 1)} : Sound(q)
    BY <1>3
  <2>2. Sound(r) /\ \E q \in {at(lba + 1)} : r.slot = q.slot /\ r.ok = q.ok /\ r.got = q.got
    BY <1>5, <1>7, <2>1, ThenSound
  <2> QED
    BY <1>3, <2>2
<1> QED
  BY <1>4, <1>6, <1>7

LEMMA CloseImageSound ==
  ASSUME NEW s, SlotSound(s), NEW d, NEW o \in CloseImage(s, d)
  PROVE  Sound(o) /\ Apart(s, o.slot)
<1>1. CASE d.number = Nothing
  <2>1. o = Outcome(s, TRUE, Nothing, 0)
    BY <1>1 DEF CloseImage, Unchanged
  <2> QED
    BY <2>1, OutcomeSound, ApartSame DEF Outcome
<1>2. CASE d.number # Nothing
  BY <1>2, CloseFileSound DEF CloseImage
<1> QED
  BY <1>1, <1>2

\* The geometry of a boot sector that is accepted.
LEMMA GeometryType ==
  ASSUME NEW bytes \in Nat, NEW b, IsBoot(b), Acceptable(bytes, b)
  PROVE  Geometry(bytes, b) \in Geometries
<1>1. b.sides \in {1, 2} /\ b.spt \in 9..11
  BY DEF Acceptable
<1> DEFINE track == b.sides * b.spt
           sectors == bytes \div 512
<1>2. track \in Nat \ {0}
  BY <1>1
<1>3. sectors \in Nat
  OBVIOUS
<1> HIDE DEF track, sectors
<1>4. sectors \div track \in Nat
  BY <1>2, <1>3
<1> QED
  BY <1>1, <1>3, <1>4 DEF Geometry, Geometries, track, sectors

\* What an exchange with the drive gives: the image asked for, or none.
Opens(o, s, src, path) ==
    /\ Sound(o) /\ Apart(s, o.slot)
    /\ o.ok => ImageDrive(o.got) /\ o.got.image = [src |-> src, path |-> path]

LEMMA ThenOpensSound ==
  ASSUME NEW s, NEW t, NEW src, NEW path, NEW outs, NEW p, p.lost \in Nat, Apart(s, t),
         \A x \in outs : Opens(x, t, src, path), NEW q \in Then(p, outs)
  PROVE  Opens(q, s, src, path)
<1>1. \A x \in outs : Sound(x)
  BY DEF Opens
<1>2. Sound(q) /\ \E x \in outs : q.slot = x.slot /\ q.ok = x.ok /\ q.got = x.got
  BY <1>1, ThenSound
<1> QED
  BY <1>2, ApartAgain DEF Opens

LEMMA ValidateSound ==
  ASSUME NEW s, SlotSound(s), NEW src, NEW path, NEW n,
         ImageDrive(Opened([src |-> src, path |-> path], n)),
         NEW o \in Validate(s, Opened([src |-> src, path |-> path], n))
  PROVE  Opens(o, s, src, path)
<1> DEFINE image == [src |-> src, path |-> path]
           d == Opened(image, n)
           bytes == Disks[d.image].bytes
           accepted(r) == r.ok /\ Acceptable(bytes, Boot(r.got))
           drv(r) == [d EXCEPT !.geom = Geometry(bytes, Boot(r.got))]
<1>1. d.image = image /\ d.number = n /\ image \in Images
  BY DEF Opened, ImageDrive
<1>2. PICK r \in ReadSectorOf(s, d, 0) :
          o \in IF accepted(r) THEN {[r EXCEPT !.got = drv(r)]}
                ELSE Failing(Then(r, CloseImage(r.slot, d)))
  BY Zenon DEF Validate
<1>3. Sound(r) /\ r.slot = s /\ (r.ok => IsBoot(Boot(r.got)))
  BY ReadSound
<1>4. CASE accepted(r)
  <2>1. o = [r EXCEPT !.got = drv(r)]
    BY <1>2, <1>4
  <2>2. Sound(o) /\ o.slot = s /\ o.got = drv(r)
    <3> HIDE DEF drv
    <3> QED
      BY <1>3, <1>4, <2>1 DEF OutcomeShape, Sound
  <2>3. drv(r).image = image
    BY DEF Opened
  <2>4. ImageDrive(drv(r))
    <3>1. bytes \in Nat
      BY <1>1, DisksAssumption
    <3>2. Geometry(bytes, Boot(r.got)) \in Geometries
      <4> HIDE DEF bytes
      <4> QED
        BY <1>3, <1>4, <3>1, GeometryType
    <3>3. d \in [image : Images, number : Numbers \cup {Nothing}, geom : Geometries]
          /\ (d.image.src # Card => d.number \in Numbers)
      BY DEF ImageDrive
    <3> HIDE DEF d, bytes
    <3>4. drv(r) \in [image : Images, number : Numbers \cup {Nothing}, geom : Geometries]
          /\ drv(r).image = d.image /\ drv(r).number = d.number
      BY <3>2, <3>3
    <3> HIDE DEF drv
    <3> QED
      BY <3>3, <3>4 DEF ImageDrive
  <2> QED
    BY <2>2, <2>3, <2>4, ApartSame DEF Opens
<1>5. CASE ~accepted(r)
  <2>1. o \in Failing(Then(r, CloseImage(s, d)))
    BY <1>2, <1>3, <1>5
  <2>2. \A c \in CloseImage(s, d) : Sound(c) /\ Apart(s, c.slot)
    BY CloseImageSound
  <2> HIDE DEF d
  <2>3. \A c \in Then(r, CloseImage(s, d)) : Sound(c) /\ Apart(s, c.slot)
    <3>1. r.lost \in Nat
      BY <1>3 DEF Sound
    <3> QED
      BY <2>2, <3>1, ThenSound
  <2>4. Sound(o) /\ ~o.ok /\ Apart(s, o.slot)
    BY <2>1, <2>3, FailingSound
  <2> QED
    BY <2>4 DEF Opens
<1> QED
  BY <1>4, <1>5

LEMMA OpenImageSound ==
  ASSUME NEW s, SlotSound(s), NEW src \in Sources, NEW path, NEW o \in OpenImage(s, src, path)
  PROVE  Opens(o, s, src, path)
<1> DEFINE image == [src |-> src, path |-> path]
<1>0. NoGeometry \in Geometries
  BY DEF NoGeometry, Geometries
<1>1. CASE src = Card
  <2>1. \/ o = Outcome(s, FALSE, Nothing, 0)
        \/ image \in Images /\ o \in Validate(s, Opened(image, Nothing))
    BY <1>1 DEF OpenImage, OpenOnCard
  <2>2. CASE o = Outcome(s, FALSE, Nothing, 0)
    BY <2>2, OutcomeSound, ApartSame DEF Opens, Outcome
  <2>3. CASE image \in Images /\ o \in Validate(s, Opened(image, Nothing))
    <3>1. ImageDrive(Opened(image, Nothing))
      BY <1>0, <1>1, <2>3 DEF ImageDrive, Opened
    <3> QED
      BY <2>3, <3>1, ValidateSound
  <2> QED
    BY <2>1, <2>2, <2>3
<1>2. CASE src # Card
  <2>0. src \in Hosts
    BY <1>2 DEF Sources
  <2>1. PICK m \in Mount(s, src) :
            o \in UNION {IF x.ok
                         THEN Then(x, Validate(x.slot, Opened(image, x.got)))
                         ELSE {x} : x \in IF m.ok THEN Then(m, OpenFile(m.slot, path)) ELSE {m}}
    BY <1>2, Zenon DEF OpenImage, OpenOnServer
  <2>2. Sound(m) /\ Apart(s, m.slot) /\ (m.ok => m.slot.host = src)
    BY <2>0, MountSound
  <2>3. PICK x \in IF m.ok THEN Then(m, OpenFile(m.slot, path)) ELSE {m} :
            o \in IF x.ok THEN Then(x, Validate(x.slot, Opened(image, x.got))) ELSE {x}
    BY <2>1, Zenon
  <2>4. CASE ~m.ok
    <3>1. o = m
      BY <2>3, <2>4
    <3> QED
      BY <2>2, <2>4, <3>1 DEF Opens
  <2>5. CASE m.ok
    <3>1. /\ Sound(x) /\ Apart(s, x.slot)
          /\ x.ok => x.got \in Numbers /\ image \in Images
      <4>1. \A y \in OpenFile(m.slot, path) :
                /\ Sound(y) /\ Apart(m.slot, y.slot)
                /\ y.ok => y.got \in Numbers /\ [src |-> m.slot.host, path |-> path] \in Images
        BY <2>2, OpenFileSound DEF Sound
      <4>2. x \in Then(m, OpenFile(m.slot, path)) /\ m.lost \in Nat
        BY <2>2, <2>3, <2>5 DEF Sound
      <4>3. Sound(x) /\ \E y \in OpenFile(m.slot, path) :
                x.slot = y.slot /\ x.ok = y.ok /\ x.got = y.got
        BY <4>1, <4>2, ThenSound
      <4> QED
        BY <2>2, <2>5, <4>1, <4>3, ApartAgain
    <3>2. CASE ~x.ok
      <4>1. o = x
        BY <2>3, <3>2
      <4> QED
        BY <3>1, <3>2, <4>1 DEF Opens
    <3>3. CASE x.ok
      <4>1. ImageDrive(Opened(image, x.got))
        BY <1>0, <3>1, <3>3 DEF ImageDrive, Opened
      <4>2. \A y \in Validate(x.slot, Opened(image, x.got)) : Opens(y, x.slot, src, path)
        BY <3>1, <4>1, ValidateSound DEF Sound
      <4>3. o \in Then(x, Validate(x.slot, Opened(image, x.got))) /\ x.lost \in Nat
        BY <2>3, <3>1, <3>3 DEF Sound
      <4> QED
        BY <3>1, <4>2, <4>3, ThenOpensSound
    <3> QED
      BY <3>2, <3>3
  <2> QED
    BY <2>4, <2>5
<1> QED
  BY <1>1, <1>2

LEMMA WordsOf == Words = {n \in Nat : n < 65536}
<1> DEFINE top == 65535
<1>1. Words = 0..top
  BY DEF Words
<1>2. top \in Nat /\ top + 1 = 65536
  OBVIOUS
<1> HIDE DEF top
<1>3. 0..top = {n \in Nat : n < top + 1}
  BY <1>2
<1> QED
  BY <1>1, <1>2, <1>3

LEMMA WordType ==
  ASSUME NEW n \in Int
  PROVE  Word(n) \in Words
BY WordsOf DEF Word

LEMMA BpbType ==
  ASSUME NEW b, IsBoot(b), NEW total \in Nat
  PROVE  Bpb(b, total) \in Bpbs
<1>1. /\ {b.bps, b.total, b.spt, b.sides, b.spc, b.res, b.fats, b.entries, b.spf} \subseteq Words
      /\ b.bps # 0
  BY DEF IsBoot
<1>2. /\ b.bps \in Nat \ {0} /\ b.spc \in Nat /\ b.res \in Nat /\ b.fats \in Nat
      /\ b.entries \in Nat /\ b.spf \in Nat
  BY <1>1, WordsOf
<1> DEFINE rdlen == Word((b.entries * 32 + (b.bps - 1)) \div b.bps)
           datrec == Word(b.res + b.fats * b.spf + rdlen)
           numcl == IF b.spc # 0 /\ total > datrec THEN Word((total - datrec) \div b.spc) ELSE 0
           fatrec == Word(b.res + (IF b.fats > 0 THEN (b.fats - 1) * b.spf ELSE 0))
           clsizb == Word(b.bps * b.spc)
           bflags == (IF numcl > 4084 THEN 1 ELSE 0) + (IF b.fats < 2 THEN 2 ELSE 0)
<1>3. rdlen \in Words
  <2>1. (b.entries * 32 + (b.bps - 1)) \div b.bps \in Int
    BY <1>2
  <2> QED
    BY <2>1, WordType
<1>4. datrec \in Words
  <2> HIDE DEF rdlen
  <2>1. b.fats * b.spf \in Int /\ rdlen \in Int
    BY <1>2, <1>3, WordsOf
  <2>2. b.res + b.fats * b.spf + rdlen \in Int
    BY <1>2, <2>1
  <2> QED
    BY <2>2, WordType
<1>5. numcl \in Words
  <2> HIDE DEF datrec
  <2>1. datrec \in Int
    BY <1>4, WordsOf
  <2>2. b.spc # 0 => (total - datrec) \div b.spc \in Int
    BY <1>2, <2>1
  <2> QED
    BY <2>2, WordType, WordsOf
<1>6. fatrec \in Words
  <2>1. (b.fats - 1) * b.spf \in Int
    BY <1>2
  <2>2. b.res + (IF b.fats > 0 THEN (b.fats - 1) * b.spf ELSE 0) \in Int
    BY <1>2, <2>1
  <2> QED
    BY <2>2, WordType
<1>7. clsizb \in Words
  <2>1. b.bps * b.spc \in Int
    BY <1>2
  <2> QED
    BY <2>1, WordType
<1>8. bflags \in Words
  <2> HIDE DEF numcl
  <2> QED
    BY <1>2, <1>5, WordsOf
<1>9. Bpb(b, total) = [recsize |-> b.bps, clsiz |-> b.spc, clsizb |-> clsizb, rdlen |-> rdlen,
                       fsiz |-> b.spf, fatrec |-> fatrec, datrec |-> datrec, numcl |-> numcl,
                       bflags |-> bflags]
  BY DEF Bpb
<1> HIDE DEF rdlen, datrec, numcl, fatrec, clsizb, bflags
<1> QED
  BY <1>1, <1>3, <1>4, <1>5, <1>6, <1>7, <1>8, <1>9 DEF Bpbs

----------------------------------------------------------------------------
(* What a walk makes of entries                                            *)

LEMMA TakeType ==
  ASSUME NEW w \in Walks, NEW e \in Entries
  PROVE  Take(w, e) \in Walks
<1>1. CASE Take(w, e) = w
  BY <1>1
<1>2. CASE Take(w, e) = [w EXCEPT !.matched = @ + 1]
  <2>1. [w EXCEPT !.matched = @ + 1] \in Walks
    BY DEF Walks
  <2> QED
    BY <1>2, <2>1
<1>3. CASE Take(w, e) = [w EXCEPT !.region = Append(@, e), !.matched = @ + 1]
  <2>1. Append(w.region, e) \in Seq(Entries) /\ w.matched + 1 \in Nat
    BY AppendProperties DEF Walks
  <2>2. [w EXCEPT !.region = Append(@, e), !.matched = @ + 1] \in Walks
    BY <2>1 DEF Walks
  <2> QED
    BY <1>3, <2>2
<1>4. CASE Take(w, e) = [w EXCEPT !.more = TRUE]
  <2>1. [w EXCEPT !.more = TRUE] \in Walks
    BY DEF Walks
  <2> QED
    BY <1>4, <2>1
<1> QED
  BY <1>1, <1>2, <1>3, <1>4 DEF Take

LEMMA WalkTypes ==
  /\ \A g \in Nat, k \in Nat : NewWalk(g, k) \in Walks
  /\ \A w \in Walks : FilesPhase(w) \in Walks /\ Done(w) \in Walks
<1>1. ASSUME NEW g \in Nat, NEW k \in Nat
      PROVE  NewWalk(g, k) \in Walks
  BY EmptySeq DEF NewWalk, Walks
<1>2. ASSUME NEW w \in Walks
      PROVE  FilesPhase(w) \in Walks
  BY DEF FilesPhase, Walks
<1>3. ASSUME NEW w \in Walks
      PROVE  Done(w) \in Walks
  BY DEF Done, Walks
<1> QED
  BY <1>1, <1>2, <1>3

Taking == [w \in Walks |-> [e \in Entries |-> Take(w, e)]]

LEMMA TakeAllAlong ==
  ASSUME NEW w \in Walks, NEW es \in Seq(Entries)
  PROVE  \E f \in [0..Len(es) -> Walks] : Along(f, Taking, w, es) /\ TakeAll(w, es) = f[Len(es)]
<1>0. Len(es) \in Nat
  BY LenProperties
<1>1. Taking \in [Walks -> [Entries -> Walks]]
  BY TakeType DEF Taking
<1>2. PICK f \in [0..Len(es) -> Walks] : Along(f, Taking, w, es)
  BY <1>1, Recursion
<1> DEFINE after == CHOOSE g : g = [n \in 0..Len(es) |->
                        IF n = 0 THEN w ELSE Take(g[n - 1], es[n])]
<1>3. ASSUME NEW n \in 1..Len(es)
      PROVE  f[n] = Take(f[n - 1], es[n])
  <2>1. f[n - 1] \in Walks /\ es[n] \in Entries
    BY <1>0, <1>2, ElementOfSeq
  <2>2. f[n] = Taking[f[n - 1]][es[n]]
    BY <1>2 DEF Along
  <2> QED
    BY <2>1, <2>2 DEF Taking
<1>4. f = [n \in 0..Len(es) |-> IF n = 0 THEN w ELSE Take(f[n - 1], es[n])]
  <2> DEFINE body(n) == IF n = 0 THEN w ELSE Take(f[n - 1], es[n])
  <2>1. ASSUME NEW n \in 0..Len(es)
        PROVE  f[n] = body(n)
    <3>1. f[0] = w
      BY <1>2 DEF Along
    <3>2. CASE n = 0
      BY <3>1, <3>2
    <3>3. CASE n # 0
      <4>1. n \in 1..Len(es)
        BY <1>0, <3>3
      <4> QED
        BY <1>3, <3>3, <4>1
    <3> QED
      BY <3>2, <3>3
  <2> HIDE DEF body
  <2>2. f = [n \in 0..Len(es) |-> body(n)]
    BY <1>2, <2>1
  <2> QED
    BY <2>2 DEF body
<1>5. after = [n \in 0..Len(es) |-> IF n = 0 THEN w ELSE Take(after[n - 1], es[n])]
  BY <1>4, Zenon
<1>6. TakeAll(w, es) = after[Len(es)]
  BY Zenon DEF TakeAll
<1> HIDE DEF after
<1> DEFINE N == {n \in Nat : n <= Len(es) => after[n] = f[n]}
<1>7. 0 \in N
  BY <1>0, <1>2, <1>5 DEF Along
<1>8. ASSUME NEW n \in Nat, n \in N
      PROVE  n + 1 \in N
  <2> SUFFICES ASSUME n + 1 <= Len(es)
               PROVE  after[n + 1] = f[n + 1]
    OBVIOUS
  <2>1. after[n] = f[n] /\ n + 1 \in 1..Len(es) /\ (n + 1) - 1 = n
    BY <1>0, <1>8
  <2>2. after[n + 1] = Take(after[n], es[n + 1])
    <3>1. n + 1 \in 0..Len(es) /\ n + 1 # 0
      BY <1>0, <2>1
    <3>2. after[n + 1] = IF n + 1 = 0 THEN w ELSE Take(after[(n + 1) - 1], es[n + 1])
      BY <1>5, <3>1, Zenon
    <3> QED
      BY <2>1, <3>1, <3>2
  <2> QED
    BY <1>3, <2>1, <2>2
<1>9. Nat \subseteq N
  <2> HIDE DEF N
  <2> QED
    BY <1>7, <1>8, AllNaturals
<1> QED
  BY <1>0, <1>2, <1>6, <1>9

LEMMA TakeAllOfNone ==
  ASSUME NEW w \in Walks
  PROVE  TakeAll(w, <<>>) = w
<1>1. PICK f : Along(f, Taking, w, <<>>) /\ TakeAll(w, <<>>) = f[Len(<<>>)]
  BY TakeAllAlong, EmptySeq
<1> QED
  BY <1>1, EmptySeq DEF Along

LEMMA TakeAllType ==
  ASSUME NEW w \in Walks, NEW es \in Seq(Entries)
  PROVE  TakeAll(w, es) \in Walks
BY TakeAllAlong, LenProperties

LEMMA TakeAllAppend ==
  ASSUME NEW w \in Walks, NEW s \in Seq(Entries), NEW e \in Entries
  PROVE  TakeAll(w, Append(s, e)) = Take(TakeAll(w, s), e)
<1>1. PICK f \in [0..Len(s) -> Walks] : Along(f, Taking, w, s) /\ TakeAll(w, s) = f[Len(s)]
  BY TakeAllAlong
<1>2. Append(s, e) \in Seq(Entries)
  BY AppendProperties
<1>3. PICK h : Along(h, Taking, w, Append(s, e)) /\ TakeAll(w, Append(s, e)) = h[Len(Append(s, e))]
  BY <1>2, TakeAllAlong
<1>4. TakeAll(w, Append(s, e)) = Taking[TakeAll(w, s)][e]
  <2> DEFINE longer == Append(s, e)
  <2>1. /\ Len(s) \in Nat /\ Len(longer) = Len(s) + 1 /\ longer[Len(longer)] = e
        /\ \A n \in 1..Len(s) : longer[n] = s[n]
    BY LenProperties, AppendProperties
  <2>2. Along(h, Taking, w, longer)
    BY <1>3
  <2> HIDE DEF longer
  <2>3. h[Len(longer)] = Taking[f[Len(s)]][longer[Len(longer)]]
    BY <1>1, <2>1, <2>2, AlongAppend
  <2> QED
    BY <1>1, <1>3, <2>1, <2>3 DEF longer
<1> QED
  BY <1>4, TakeAllType DEF Taking

\* Only entries of the kinds.
LEMMA OfKindsAmong ==
  ASSUME NEW kinds
  PROVE  \A s \in Seq(Entries) : OfKinds(s, kinds) \in Seq({e \in Entries : e.kind \in kinds})
<1> DEFINE R == {e \in Entries : e.kind \in kinds}
           B == {u \in Seq(Entries) : OfKinds(u, kinds) \in Seq(R)}
<1>1. <<>> \in B
  BY OfKindsOfNone, EmptySeq
<1>2. ASSUME NEW u \in Seq(Entries), NEW e \in Entries, u \in B
      PROVE  Append(u, e) \in B
  <2>1. Append(u, e) \in Seq(Entries)
    BY AppendProperties
  <2>2. OfKinds(Append(u, e), kinds) =
            IF e.kind \in kinds THEN Append(OfKinds(u, kinds), e) ELSE OfKinds(u, kinds)
    BY OfKindsAppend
  <2>3. e.kind \in kinds => e \in R
    OBVIOUS
  <2> HIDE DEF R
  <2>4. OfKinds(u, kinds) \in Seq(R)
    BY <1>2
  <2>5. e.kind \in kinds => Append(OfKinds(u, kinds), e) \in Seq(R)
    BY <2>3, <2>4, AppendProperties
  <2> QED
    BY <2>1, <2>2, <2>4, <2>5
<1>3. Seq(Entries) \subseteq B
  <2> HIDE DEF B
  <2> QED
    BY <1>1, <1>2, AllSequences
<1> QED
  BY <1>3

----------------------------------------------------------------------------
(* What is in the page region of a walk                                    *)

\* The region has what comes at the place of the page among the entries A that the
\* walk counted.
Filled(w, A) ==
    LET first == w.page * PageEntries IN
    /\ w.region = SubSeq(A, first + 1, Lesser(first + PageEntries, Len(A)))
    /\ w.more = (Len(A) > first + PageEntries)
    /\ w.matched + w.total = Lesser(Len(A), first + PageEntries)

\* What a walk has counted of the directory L when it has read t of it this time.
Counted(w, L, t) ==
    IF w.files THEN OfKinds(L, {"dir"}) \o OfKinds(t, {"file"}) ELSE OfKinds(t, {"dir"})

Before(w, L) == IF w.files THEN Len(OfKinds(L, {"dir"})) ELSE 0

Exact(w, L, t) == Filled(w, Counted(w, L, t)) /\ w.total = Before(w, L)

\* A part of a sequence that becomes longer.
LEMMA SubSeqOfAppend ==
  ASSUME NEW E, NEW A \in Seq(E), NEW e \in E, NEW m \in Nat \ {0}, NEW n \in Nat, n <= Len(A)
  PROVE  SubSeq(Append(A, e), m, n) = SubSeq(A, m, n)
<1> DEFINE B == Append(A, e)
<1>1. B \in Seq(E) /\ Len(B) = Len(A) + 1 /\ \A i \in 1..Len(A) : B[i] = A[i]
  BY AppendProperties
<1> HIDE DEF B
<1>2. \A i \in m..n : i \in 1..Len(A)
  BY LenProperties
<1>3. \A i \in m..n : B[i] = A[i] /\ B[i] \in E /\ A[i] \in E
  BY <1>1, <1>2, ElementOfSeq
<1> QED
  BY <1>1, <1>3 DEF B

LEMMA SubSeqOfConcat ==
  ASSUME NEW E, NEW A \in Seq(E), NEW X \in Seq(E), NEW m \in Nat \ {0}, NEW n \in Nat, n <= Len(A)
  PROVE  SubSeq(A \o X, m, n) = SubSeq(A, m, n)
<1> DEFINE B == A \o X
<1>1. Len(A) \in Nat /\ Len(X) \in Nat
  BY LenProperties
<1>2. B \in Seq(E) /\ \A i \in 1..Len(A) : B[i] = A[i]
  BY <1>1, ConcatProperties
<1> HIDE DEF B
<1>3. \A i \in m..n : i \in 1..Len(A)
  BY <1>1
<1>4. \A i \in m..n : B[i] = A[i] /\ B[i] \in E /\ A[i] \in E
  BY <1>2, <1>3, ElementOfSeq
<1> QED
  BY <1>2, <1>4 DEF B

LEMMA LesserType ==
  ASSUME NEW a \in Nat, NEW b \in Nat
  PROVE  /\ Lesser(a, b) \in Nat /\ Lesser(a, b) <= a /\ Lesser(a, b) <= b
         /\ Lesser(a, b) = a \/ Lesser(a, b) = b
BY DEF Lesser

LEMMA FirstType ==
  ASSUME NEW w \in Walks
  PROVE  w.page * PageEntries \in Nat /\ PageEntries \in Nat \ {0}
<1>1. w.page \in Nat /\ PageEntries \in Nat \ {0}
  BY BrowseAssumption DEF Walks
<1> QED
  BY <1>1

\* An entry that the walk counts.
LEMMA TakeFills ==
  ASSUME NEW w \in Walks, NEW e \in Entries, NEW A \in Seq(Entries), Filled(w, A), ~w.more,
         (e.kind = "dir") # w.files, ~w.files => w.total = 0
  PROVE  Filled(Take(w, e), Append(A, e))
<1> DEFINE first == w.page * PageEntries
           B == Append(A, e)
<1>1. first \in Nat /\ PageEntries \in Nat \ {0} /\ Len(A) \in Nat
      /\ w.matched \in Nat /\ w.total \in Nat /\ w.files \in BOOLEAN
  BY FirstType, LenProperties DEF Walks
<1>2. B \in Seq(Entries) /\ Len(B) = Len(A) + 1 /\ B[Len(A) + 1] = e
  BY AppendProperties
<1>3. ToSkip(w) = IF ~w.files THEN first ELSE IF first > w.total THEN first - w.total ELSE 0
  BY DEF ToSkip
<1> HIDE DEF first, B
<1>4. /\ w.region = SubSeq(A, first + 1, Len(A)) /\ Len(A) <= first + PageEntries
      /\ w.matched + w.total = Len(A)
  <2>1. /\ w.region = SubSeq(A, first + 1, Lesser(first + PageEntries, Len(A)))
        /\ w.more = (Len(A) > first + PageEntries)
        /\ w.matched + w.total = Lesser(Len(A), first + PageEntries)
    BY DEF Filled, first
  <2>2. ~(Len(A) > first + PageEntries)
    BY <2>1
  <2>3. Lesser(first + PageEntries, Len(A)) = Len(A) /\ Lesser(Len(A), first + PageEntries) = Len(A)
    BY <1>1, <2>2 DEF Lesser
  <2> QED
    BY <1>1, <2>1, <2>2, <2>3, SMTT(30)
<1>5. (w.matched < ToSkip(w)) = (Len(A) < first)
  BY <1>1, <1>3, <1>4
<1> DEFINE v == Take(w, e)
<1>0. v \in Walks
  BY TakeType
<1> HIDE DEF v
<1>6. ASSUME v.page = w.page, v.total = w.total, v.matched = w.matched + 1, ~v.more,
             Len(A) < first + PageEntries, v.region = SubSeq(B, first + 1, Len(A) + 1)
      PROVE  Filled(v, B)
  <2>1. /\ Lesser(first + PageEntries, Len(B)) = Len(A) + 1
        /\ Lesser(Len(B), first + PageEntries) = Len(A) + 1
        /\ ~(Len(B) > first + PageEntries)
    BY <1>1, <1>2, <1>6 DEF Lesser
  <2>2. v.matched + v.total = Len(A) + 1
    BY <1>1, <1>4, <1>6
  <2>3. v.page * PageEntries = first
    BY <1>6 DEF first
  <2>4. v.more = (Len(B) > first + PageEntries)
    BY <1>0, <1>6, <2>1 DEF Walks
  <2> QED
    BY <1>6, <2>1, <2>2, <2>3, <2>4 DEF Filled
<1>7. CASE Len(A) < first
  <2>1. v = [w EXCEPT !.matched = @ + 1]
    BY <1>5, <1>7 DEF Take, v
  <2>2. v.page = w.page /\ v.total = w.total /\ v.matched = w.matched + 1 /\ ~v.more
        /\ v.region = w.region
    BY <2>1 DEF Walks
  <2>3. SubSeq(A, first + 1, Len(A)) = <<>> /\ SubSeq(B, first + 1, Len(A) + 1) = <<>>
    BY <1>1, <1>7, SubSeqEmpty
  <2>4. Len(A) < first + PageEntries
    BY <1>1, <1>7
  <2>5. v.region = SubSeq(B, first + 1, Len(A) + 1)
    BY <1>4, <2>2, <2>3
  <2>6. v.page = w.page /\ v.total = w.total /\ v.matched = w.matched + 1 /\ ~v.more
    BY <2>2
  <2> QED
    BY <1>6, <2>4, <2>5, <2>6 DEF B, v
<1>8. Len(A) >= first => Len(w.region) = Len(A) - first
  <2>1. \A i \in (first + 1)..Len(A) : A[i] \in Entries
    BY <1>1, ElementOfSeq
  <2> QED
    BY <1>1, <1>4, <2>1, SubSeqProperties
<1>9. CASE Len(A) >= first /\ Len(A) < first + PageEntries
  <2>1. Len(w.region) < PageEntries
    BY <1>1, <1>8, <1>9
  <2>2. v = [w EXCEPT !.region = Append(@, e), !.matched = @ + 1]
    BY <1>1, <1>5, <1>9, <2>1 DEF Take, v
  <2>3. v.page = w.page /\ v.total = w.total /\ v.matched = w.matched + 1 /\ ~v.more
        /\ v.region = Append(w.region, e)
    BY <2>2 DEF Walks
  <2>4. SubSeq(B, first + 1, Len(A) + 1) = Append(w.region, e)
    <3>1. first + 1 \in 1..Len(B) /\ Len(A) + 1 \in (first + 1)..Len(B)
      BY <1>1, <1>2, <1>9
    <3>2. SubSeq(B, first + 1, Len(A) + 1) =
              SubSeq(B, first + 1, (Len(A) + 1) - 1) \o <<B[Len(A) + 1]>>
      BY <1>2, <3>1, SubSeqRecursiveSecond
    <3>3. SubSeq(B, first + 1, Len(A)) = SubSeq(A, first + 1, Len(A))
      BY <1>1, SubSeqOfAppend DEF B
    <3>4. (Len(A) + 1) - 1 = Len(A)
      BY <1>1
    <3>5. w.region \in Seq(Entries)
      BY DEF Walks
    <3> QED
      BY <1>2, <1>4, <3>2, <3>3, <3>4, <3>5, AppendIsConcat, ZenonT(60)
  <2>5. v.region = SubSeq(B, first + 1, Len(A) + 1)
    BY <2>3, <2>4
  <2> QED
    BY <1>6, <1>9, <2>3, <2>5 DEF B, v
<1>10. CASE Len(A) = first + PageEntries
  <2>1. ~(Len(w.region) < PageEntries)
    BY <1>1, <1>8, <1>10
  <2>2. v = [w EXCEPT !.more = TRUE]
    BY <1>1, <1>5, <1>10, <2>1 DEF Take, v
  <2>3. v.page = w.page /\ v.total = w.total /\ v.matched = w.matched /\ v.more = TRUE
        /\ v.region = w.region
    BY <2>2 DEF Walks
  <2>4. SubSeq(B, first + 1, Len(A)) = SubSeq(A, first + 1, Len(A))
    BY <1>1, SubSeqOfAppend DEF B
  <2>5. /\ Lesser(first + PageEntries, Len(B)) = Len(A)
        /\ Lesser(Len(B), first + PageEntries) = Len(A)
        /\ Len(B) > first + PageEntries
    BY <1>1, <1>2, <1>10 DEF Lesser
  <2>6. v.page * PageEntries = first
    BY <2>3 DEF first
  <2>7. v.region = SubSeq(B, first + 1, Len(A)) /\ v.matched + v.total = Len(A)
    BY <1>4, <2>3, <2>4
  <2>8. v.more = (Len(B) > first + PageEntries)
    BY <1>0, <2>3, <2>5 DEF Walks
  <2> QED
    BY <2>5, <2>6, <2>7, <2>8 DEF Filled, B, v
<1> QED
  BY <1>1, <1>4, <1>7, <1>9, <1>10

\* Once the page is full, whatever follows changes nothing.
LEMMA FullStays ==
  ASSUME NEW w \in Walks, NEW A \in Seq(Entries), NEW X \in Seq(Entries), Filled(w, A), w.more
  PROVE  Filled(w, A \o X)
<1> DEFINE first == w.page * PageEntries
           B == A \o X
<1>1. first \in Nat /\ PageEntries \in Nat \ {0} /\ Len(A) \in Nat /\ Len(X) \in Nat
  BY FirstType, LenProperties
<1>2. Len(B) = Len(A) + Len(X)
  BY ConcatProperties
<1>3. /\ w.region = SubSeq(A, first + 1, Lesser(first + PageEntries, Len(A)))
      /\ Len(A) > first + PageEntries
      /\ w.matched + w.total = Lesser(Len(A), first + PageEntries)
  BY DEF Filled
<1> HIDE DEF first
<1>4. SubSeq(B, first + 1, first + PageEntries) = SubSeq(A, first + 1, first + PageEntries)
  BY <1>1, <1>3, SubSeqOfConcat
<1> HIDE DEF B
<1>5. /\ Lesser(first + PageEntries, Len(A)) = first + PageEntries
      /\ Lesser(first + PageEntries, Len(B)) = first + PageEntries
      /\ Lesser(Len(A), first + PageEntries) = first + PageEntries
      /\ Lesser(Len(B), first + PageEntries) = first + PageEntries
      /\ Len(B) > first + PageEntries
  BY <1>1, <1>2, <1>3 DEF Lesser
<1>6. Filled(w, B)
  BY <1>3, <1>4, <1>5 DEF Filled, first
<1> QED
  BY <1>6 DEF B

\* What is no "." or "..".
RealEntries == {e \in Entries : e.kind # "dot"}

LEMMA CountedType ==
  ASSUME NEW w, NEW L \in Seq(Entries), NEW t \in Seq(Entries)
  PROVE  Counted(w, L, t) \in Seq(Entries) /\ Before(w, L) \in Nat
<1>1. /\ OfKinds(L, {"dir"}) \in Seq(Entries) /\ OfKinds(t, {"file"}) \in Seq(Entries)
      /\ OfKinds(t, {"dir"}) \in Seq(Entries)
  BY OfKindsType
<1> QED
  BY <1>1, ConcatProperties, LenProperties DEF Counted, Before

\* An entry leaves the request the walk works on as it is.
LEMMA TakeLeaves ==
  ASSUME NEW w \in Walks, NEW e
  PROVE  /\ Take(w, e).page = w.page /\ Take(w, e).gen = w.gen /\ Take(w, e).files = w.files
         /\ Take(w, e).total = w.total
BY DEF Take, Walks

\* One entry more that the walk has read.
LEMMA TakeExact ==
  ASSUME NEW w \in Walks, NEW L \in Seq(Entries), NEW t \in Seq(Entries), NEW e \in RealEntries,
         Exact(w, L, t)
  PROVE  Exact(Take(w, e), L, Append(t, e))
<1> DEFINE v == Take(w, e)
           D == OfKinds(L, {"dir"})
           A == Counted(w, L, t)
           B == Counted(w, L, Append(t, e))
<1>1. e \in Entries /\ e.kind \in {"dir", "file"} /\ w.files \in BOOLEAN
  BY DEF RealEntries, Entries, Walks
<1>2. v.files = w.files /\ v.total = w.total /\ Before(v, L) = Before(w, L)
      /\ Counted(v, L, Append(t, e)) = B
  BY TakeLeaves DEF Before, Counted
<1>3. A \in Seq(Entries) /\ Filled(w, A) /\ w.total = Before(w, L) /\ D \in Seq(Entries)
  BY CountedType, OfKindsType DEF Exact
<1>4. B = IF (e.kind = "dir") # w.files THEN Append(A, e) ELSE A
  <2>1. /\ OfKinds(Append(t, e), {"dir"}) =
               IF e.kind = "dir" THEN Append(OfKinds(t, {"dir"}), e) ELSE OfKinds(t, {"dir"})
        /\ OfKinds(Append(t, e), {"file"}) =
               IF e.kind = "file" THEN Append(OfKinds(t, {"file"}), e) ELSE OfKinds(t, {"file"})
    BY <1>1, OfKindsAppend
  <2> DEFINE F == OfKinds(t, {"file"})
             G == OfKinds(t, {"dir"})
  <2>2. F \in Seq(Entries) /\ G \in Seq(Entries)
    BY OfKindsType
  <2>3. A = IF w.files THEN D \o F ELSE G
    BY DEF Counted
  <2>4. B = IF w.files THEN D \o (IF e.kind = "file" THEN Append(F, e) ELSE F)
            ELSE IF e.kind = "dir" THEN Append(G, e) ELSE G
    BY <2>1 DEF Counted
  <2> HIDE DEF A, B, D, F, G
  <2>5. D \o Append(F, e) = Append(D \o F, e)
    BY <1>1, <1>3, <2>2
  <2> QED
    BY <1>1, <2>3, <2>4, <2>5
<1> HIDE DEF A, B
<1>5. CASE (e.kind = "dir") = w.files
  <2>1. v = w /\ B = A
    BY <1>4, <1>5 DEF Take
  <2> QED
    BY <1>2, <1>3, <2>1 DEF Exact
<1>6. CASE (e.kind = "dir") # w.files /\ w.more
  <2>1. v = w /\ B = A \o <<e>>
    BY <1>1, <1>3, <1>4, <1>6, AppendIsConcat DEF Take
  <2>2. <<e>> \in Seq(Entries)
    BY <1>1
  <2>3. Filled(w, B)
    BY <1>3, <1>6, <2>1, <2>2, FullStays
  <2> QED
    BY <1>2, <1>3, <2>1, <2>3 DEF Exact
<1>7. CASE (e.kind = "dir") # w.files /\ ~w.more
  <2>1. ~w.files => w.total = 0
    BY <1>3 DEF Before
  <2>2. Filled(v, Append(A, e))
    BY <1>1, <1>3, <1>7, <2>1, TakeFills
  <2> QED
    BY <1>2, <1>3, <1>4, <1>7, <2>2 DEF Exact
<1> QED
  BY <1>5, <1>6, <1>7

LEMMA TakeAllExact ==
  ASSUME NEW w \in Walks, NEW L \in Seq(Entries), Exact(w, L, <<>>)
  PROVE  \A s \in Seq(RealEntries) :
             LET v == TakeAll(w, s) IN
             /\ v \in Walks /\ Exact(v, L, s)
             /\ v.page = w.page /\ v.gen = w.gen /\ v.files = w.files
<1> DEFINE good(v, s) == /\ v \in Walks /\ Exact(v, L, s)
                         /\ v.page = w.page /\ v.gen = w.gen /\ v.files = w.files
           B == {s \in Seq(RealEntries) : good(TakeAll(w, s), s)}
<1>0. RealEntries \subseteq Entries
  BY DEF RealEntries
<1>1. <<>> \in B
  <2>1. TakeAll(w, <<>>) = w
    BY TakeAllOfNone
  <2>2. <<>> \in Seq(RealEntries)
    BY EmptySeq
  <2> QED
    BY <2>1, <2>2
<1>2. ASSUME NEW s \in Seq(RealEntries), NEW e \in RealEntries, s \in B
      PROVE  Append(s, e) \in B
  <2>1. s \in Seq(Entries) /\ e \in Entries /\ Append(s, e) \in Seq(RealEntries)
    BY <1>0, SeqMonotonic, AppendProperties
  <2>2. TakeAll(w, Append(s, e)) = Take(TakeAll(w, s), e)
    BY <2>1, TakeAllAppend
  <2> DEFINE v == TakeAll(w, s)
  <2>3. good(v, s)
    BY <1>2
  <2> HIDE DEF v
  <2>4. good(Take(v, e), Append(s, e))
    BY <2>1, <2>3, TakeExact, TakeType, TakeLeaves
  <2> HIDE DEF good
  <2> QED
    BY <2>1, <2>2, <2>4 DEF v
<1>3. Seq(RealEntries) \subseteq B
  <2> HIDE DEF B
  <2> QED
    BY <1>1, <1>2, AllSequences
<1> QED
  BY <1>3

LEMMA NewWalkExact ==
  ASSUME NEW g \in Nat, NEW k \in Nat, NEW L
  PROVE  Exact(NewWalk(g, k), L, <<>>)
<1> DEFINE w == NewWalk(g, k)
           first == w.page * PageEntries
<1>1. /\ w.files = FALSE /\ w.total = 0 /\ w.matched = 0 /\ w.region = <<>> /\ w.more = FALSE
      /\ w \in Walks
  BY WalkTypes DEF NewWalk
<1>2. Counted(w, L, <<>>) = <<>> /\ Before(w, L) = 0
  BY <1>1, OfKindsOfNone DEF Counted, Before
<1>3. first \in Nat /\ PageEntries \in Nat \ {0}
  BY <1>1, FirstType
<1>7. w.page * PageEntries = first
  OBVIOUS
<1> HIDE DEF w, first
<1>4. Len(<<>>) = 0 /\ SubSeq(<<>>, first + 1, 0) = <<>>
  BY <1>3, SubSeqEmpty, EmptySeq
<1>5. /\ Lesser(first + PageEntries, 0) = 0 /\ Lesser(0, first + PageEntries) = 0
      /\ ~(0 > first + PageEntries)
  BY <1>3 DEF Lesser
<1>6. Filled(w, <<>>)
  <2> DEFINE none == <<>>
  <2>1. Len(none) = 0 /\ SubSeq(none, first + 1, 0) = none /\ w.region = none
    BY <1>1, <1>4
  <2> HIDE DEF none
  <2>2. w.more = (Len(none) > first + PageEntries)
    <3>1. ~(Len(none) > first + PageEntries)
      BY <1>5, <2>1
    <3> QED
      BY <1>1, <3>1 DEF Walks
  <2>4. w.matched + w.total = 0
    BY <1>1
  <2>3. Filled(w, none)
    BY <1>5, <1>7, <2>1, <2>2, <2>4 DEF Filled
  <2> QED
    BY <2>3 DEF none
<1> QED
  BY <1>1, <1>2, <1>6 DEF Exact, w

\* The folders are through, and the files begin.
LEMMA FilesPhaseExact ==
  ASSUME NEW w \in Walks, NEW L \in Seq(Entries), NEW t \in Seq(Entries), Exact(w, L, t),
         ~w.files, ~w.more, OfKinds(t, {"dir"}) = OfKinds(L, {"dir"})
  PROVE  Exact(FilesPhase(w), L, <<>>)
<1> DEFINE v == FilesPhase(w)
           D == OfKinds(L, {"dir"})
           first == w.page * PageEntries
<1>1. v.files = TRUE /\ v.total = w.matched /\ v.matched = 0 /\ v.region = w.region
      /\ v.more = w.more /\ v.page = w.page
  BY DEF FilesPhase, Walks
<1>2. D \in Seq(Entries) /\ Len(D) \in Nat
  BY OfKindsType, LenProperties
<1>3. Counted(w, L, t) = D /\ Before(w, L) = 0
  BY DEF Counted, Before
<1>4. Counted(v, L, <<>>) = D /\ Before(v, L) = Len(D)
  BY <1>1, <1>2, OfKindsOfNone, ConcatEmptySeq DEF Counted, Before
<1>5. first \in Nat /\ PageEntries \in Nat \ {0} /\ w.matched \in Nat
  BY FirstType DEF Walks
<1> HIDE DEF v, D
<1>6. /\ w.region = SubSeq(D, first + 1, Lesser(first + PageEntries, Len(D)))
      /\ w.more = (Len(D) > first + PageEntries)
      /\ w.matched + w.total = Lesser(Len(D), first + PageEntries)
      /\ w.total = 0
  BY <1>3 DEF Exact, Filled
<1>7. v.page * PageEntries = first
  BY <1>1
<1> HIDE DEF first
<1>8. Lesser(Len(D), first + PageEntries) = Len(D)
  <2>1. ~(Len(D) > first + PageEntries)
    BY <1>6
  <2> QED
    BY <1>2, <1>5, <2>1 DEF Lesser
<1>9. w.matched = Len(D) /\ v.matched + v.total = Len(D)
  BY <1>1, <1>2, <1>5, <1>6, <1>8
<1>10. Filled(v, D)
  BY <1>1, <1>6, <1>7, <1>8, <1>9 DEF Filled
<1> QED
  BY <1>1, <1>4, <1>9, <1>10 DEF Exact, v

\* The entries that the page of a walk has, and what GET_PAGE answers with it.
IsPage(w, all) ==
    LET first == w.page * PageEntries IN
    /\ w.region = SubSeq(all, first + 1, Lesser(first + PageEntries, Len(all)))
    /\ w.more = (Len(all) > first + PageEntries)
    /\ (Page(w).status = "end") = (first >= Len(all))

LEMMA FilledIsPage ==
  ASSUME NEW w \in Walks, NEW all \in Seq(Entries), Filled(w, all)
  PROVE  IsPage(w, all)
<1> DEFINE first == w.page * PageEntries
<1>1. first \in Nat /\ PageEntries \in Nat \ {0} /\ Len(all) \in Nat
  BY FirstType, LenProperties
<1>2. /\ w.region = SubSeq(all, first + 1, Lesser(first + PageEntries, Len(all)))
      /\ w.more = (Len(all) > first + PageEntries)
  BY DEF Filled
<1> HIDE DEF first
<1>3. (Page(w).status = "end") = (w.region = <<>> /\ ~w.more)
  BY DEF Page, Answer
<1>4. ASSUME first < Len(all)
      PROVE  w.region # <<>>
  <2> DEFINE n == Lesser(first + PageEntries, Len(all))
  <2>1. n \in Nat /\ n <= Len(all) /\ first + 1 <= n
    BY <1>1, <1>4 DEF Lesser
  <2> HIDE DEF n
  <2>2. \A i \in (first + 1)..n : all[i] \in Entries
    BY <1>1, <2>1, ElementOfSeq
  <2>3. Len(SubSeq(all, first + 1, n)) = n - (first + 1) + 1
    BY <1>1, <2>1, <2>2, SubSeqProperties
  <2>4. Len(SubSeq(all, first + 1, n)) # 0
    BY <1>1, <2>1, <2>3
  <2> QED
    BY <1>2, <2>4, EmptySeq DEF n
<1>5. ASSUME first >= Len(all)
      PROVE  w.region = <<>> /\ ~w.more
  <2>1. Lesser(first + PageEntries, Len(all)) = Len(all) /\ ~(Len(all) > first + PageEntries)
    BY <1>1, <1>5 DEF Lesser
  <2>2. SubSeq(all, first + 1, Len(all)) = <<>>
    BY <1>1, <1>5, SubSeqEmpty
  <2> QED
    BY <1>2, <2>1, <2>2
<1>6. (Page(w).status = "end") = (first >= Len(all))
  <2>1. CASE first >= Len(all)
    BY <1>3, <1>5, <2>1
  <2>2. CASE ~(first >= Len(all))
    <3>1. w.region # <<>>
      BY <1>1, <1>4, <2>2
    <3> QED
      BY <1>3, <2>2, <3>1
  <2> QED
    BY <2>1, <2>2
<1> QED
  BY <1>2, <1>6 DEF IsPage, first

----------------------------------------------------------------------------
(* How far a walk has come in its directory                                *)

LEMMA Associative ==
  ASSUME NEW a \in Seq(Entries), NEW b \in Seq(Entries), NEW c \in Seq(Entries)
  PROVE  (a \o b) \o c = a \o (b \o c)
BY ConcatAssociative

\* A directory in two parts.
LEMMA PartsOfDirectory ==
  ASSUME NEW L \in Seq(Entries), NEW pos \in 0..Len(L), NEW kinds
  PROVE  LET done == SubSeq(L, 1, pos)
             ahead == SubSeq(L, pos + 1, Len(L))
         IN  /\ done \in Seq(Entries) /\ ahead \in Seq(Entries)
             /\ OfKinds(L, kinds) = OfKinds(done, kinds) \o OfKinds(ahead, kinds)
<1> DEFINE done == SubSeq(L, 1, pos)
           ahead == SubSeq(L, pos + 1, Len(L))
<1>0. Len(L) \in Nat /\ \A i \in 1..Len(L) : L[i] \in Entries
  BY LenProperties, ElementOfSeq
<1>1. done \in Seq(Entries) /\ ahead \in Seq(Entries)
  <2>1. \A i \in 1..pos : L[i] \in Entries
    BY <1>0
  <2>2. \A i \in (pos + 1)..Len(L) : L[i] \in Entries
    BY <1>0
  <2> QED
    BY <1>0, <2>1, <2>2, SubSeqProperties
<1>2. L = done \o ahead
  <2>1. 1 \in 1..(Len(L) + 1) /\ pos \in (1 - 1)..Len(L) /\ Len(L) \in pos..Len(L)
    BY <1>0
  <2>2. done \o ahead = SubSeq(L, 1, Len(L))
    BY <2>1, ConcatAdjacentSubSeq
  <2> QED
    BY <2>2, SubSeqFull
<1> HIDE DEF done, ahead
<1>3. OfKinds(done \o ahead, kinds) = OfKinds(done, kinds) \o OfKinds(ahead, kinds)
  BY <1>1, OfKindsConcat
<1> QED
  BY <1>1, <1>2, <1>3 DEF done, ahead

\* The entries of d are the first ones of D.
Begins(d, D) == \E X \in Seq(Entries) : D = d \o X

LEMMA BeginsConcat ==
  ASSUME NEW d \in Seq(Entries), NEW X \in Seq(Entries), NEW F \in Seq(Entries)
  PROVE  Begins(d, (d \o X) \o F)
<1>1. (d \o X) \o F = d \o (X \o F)
  BY Associative
<1>2. X \o F \in Seq(Entries)
  BY ConcatProperties
<1> QED
  BY <1>1, <1>2 DEF Begins

LEMMA BeginsMore ==
  ASSUME NEW d \in Seq(Entries), NEW D \in Seq(Entries), NEW F \in Seq(Entries), Begins(d, D)
  PROVE  Begins(d, D \o F)
<1>1. PICK X \in Seq(Entries) : D = d \o X
  BY DEF Begins
<1>2. Begins(d, (d \o X) \o F)
  BY BeginsConcat
<1> QED
  BY <1>1, <1>2

LEMMA BeginsAfter ==
  ASSUME NEW f \in Seq(Entries), NEW D \in Seq(Entries), NEW F \in Seq(Entries), Begins(f, F)
  PROVE  Begins(D \o f, D \o F)
<1>1. PICK X \in Seq(Entries) : F = f \o X
  BY DEF Begins
<1>2. (D \o f) \o X = D \o (f \o X)
  BY Associative
<1> QED
  BY <1>1, <1>2 DEF Begins

LEMMA PartOfDirectory ==
  ASSUME NEW L \in Seq(Entries), NEW pos \in 0..Len(L), NEW t \in Seq(Entries),
         NEW rest \in Seq(Entries), t \o rest = Real(SubSeq(L, 1, pos)),
         NEW kinds \in SUBSET {"dir", "file"}
  PROVE  /\ Begins(OfKinds(t, kinds), OfKinds(L, kinds))
         /\ (rest = <<>> /\ pos = Len(L)) => OfKinds(t, kinds) = OfKinds(L, kinds)
<1> DEFINE done == SubSeq(L, 1, pos)
           ahead == SubSeq(L, pos + 1, Len(L))
<1>1. /\ done \in Seq(Entries) /\ ahead \in Seq(Entries)
      /\ OfKinds(L, kinds) = OfKinds(done, kinds) \o OfKinds(ahead, kinds)
  BY PartsOfDirectory
<1>3. pos = Len(L) => done = L
  BY SubSeqFull
<1> HIDE DEF done, ahead
<1>4. OfKinds(done, kinds) = OfKinds(t, kinds) \o OfKinds(rest, kinds)
  <2> DEFINE more == {"dir", "file"}
  <2>0. kinds \in SUBSET more
    OBVIOUS
  <2> HIDE DEF more
  <2>3. OfKinds(OfKinds(done, more), kinds) = OfKinds(done, kinds)
    BY <1>1, <2>0, OfKindsTwice
  <2>1. OfKinds(Real(done), kinds) = OfKinds(done, kinds)
    BY <2>3 DEF Real, more
  <2>2. OfKinds(t \o rest, kinds) = OfKinds(t, kinds) \o OfKinds(rest, kinds)
    BY OfKindsConcat
  <2> QED
    BY <2>1, <2>2 DEF done
<1> DEFINE a == OfKinds(t, kinds)
           b == OfKinds(rest, kinds)
           c == OfKinds(ahead, kinds)
<1>6. a \in Seq(Entries) /\ b \in Seq(Entries) /\ c \in Seq(Entries)
  BY <1>1, OfKindsType
<1>7. rest = <<>> => b = <<>>
  BY OfKindsOfNone
<1> HIDE DEF a, b, c
<1>8. (a \o b) \o c = a \o (b \o c) /\ b \o c \in Seq(Entries)
  <2>1. b \o c \in Seq(Entries)
    BY <1>6, ConcatProperties
  <2>2. (a \o b) \o c = a \o (b \o c)
    BY <1>6, Associative, ZenonT(30)
  <2> QED
    BY <2>1, <2>2
<1>9. OfKinds(L, kinds) = a \o (b \o c)
  BY <1>1, <1>4, <1>8 DEF a, b, c
<1>10. ASSUME rest = <<>>, pos = Len(L)
       PROVE  a = OfKinds(L, kinds)
  <2>1. OfKinds(done, kinds) = a
    BY <1>4, <1>6, <1>7, <1>10, ConcatEmptySeq DEF a, b
  <2> QED
    BY <1>3, <1>10, <2>1
<1> QED
  BY <1>8, <1>9, <1>10 DEF a, Begins

\* The next batch, where the server has it from.
LEMMA NextBatch ==
  ASSUME NEW L \in Seq(Entries), NEW pos \in 0..Len(L)
  PROVE  LET R == SubSeq(L, pos + 1, Len(L))
             n == Lesser(Batch, Len(R))
         IN  /\ Len(R) = Len(L) - pos /\ n \in Nat /\ pos + n \in 0..Len(L)
             /\ Real(SubSeq(R, 1, n)) \in Seq(RealEntries)
             /\ Real(SubSeq(L, 1, pos)) \o Real(SubSeq(R, 1, n)) = Real(SubSeq(L, 1, pos + n))
             /\ (R = <<>> \/ Len(R) <= Batch) => pos + n = Len(L)
<1> DEFINE R == SubSeq(L, pos + 1, Len(L))
           n == Lesser(Batch, Len(R))
<1>0. Len(L) \in Nat /\ Batch \in Nat \ {0} /\ \A i \in 1..Len(L) : L[i] \in Entries
  BY LenProperties, ElementOfSeq, BrowseAssumption
<1>1. R \in Seq(Entries) /\ Len(R) = Len(L) - pos
  <2>1. \A i \in (pos + 1)..Len(L) : L[i] \in Entries
    BY <1>0
  <2> QED
    BY <1>0, <2>1, SubSeqProperties
<1>2. R = <<>> => Len(R) = 0
  BY EmptySeq
<1>3. SubSeq(R, 1, n) = SubSeq(L, pos + 1, pos + n) /\ n \in Nat /\ n <= Len(R)
  <2>1. n \in Nat /\ n <= Len(R)
    <3> HIDE DEF R
    <3>1. Len(R) \in Nat /\ Batch \in Nat
      BY <1>0, <1>1, LenProperties
    <3> QED
      BY <3>1, LesserType
  <2>2. CASE n = 0
    <3>1. SubSeq(R, 1, 0) = <<>> /\ SubSeq(L, pos + 1, pos) = <<>>
      BY SubSeqEmpty
    <3> QED
      BY <2>1, <2>2, <3>1
  <2>3. CASE n # 0
    <3> HIDE DEF n
    <3>1. pos + 1 \in 1..Len(L) /\ Len(L) \in 1..Len(L)
      BY <1>0, <1>1, <2>1, <2>3
    <3>2. 1 \in 1..(Len(L) - (pos + 1) + 1) /\ n \in 1..(Len(L) - (pos + 1) + 1)
      BY <1>0, <1>1, <2>1, <2>3
    <3>3. SubSeq(SubSeq(L, pos + 1, Len(L)), 1, n) = SubSeq(L, pos + 1 + 1 - 1, pos + 1 + n - 1)
      BY <3>1, <3>2, SubSeqOfSubSeq
    <3>4. pos + 1 + 1 - 1 = pos + 1 /\ pos + 1 + n - 1 = pos + n
      BY <2>1
    <3> QED
      BY <2>1, <3>3, <3>4
  <2> QED
    BY <2>1, <2>2, <2>3
<1>4. (R = <<>> \/ Len(R) <= Batch) => n = Len(R)
  <2> HIDE DEF R
  <2> QED
    BY <1>0, <1>1, <1>2, <1>3 DEF Lesser
<1> HIDE DEF n, R
<1>5. pos + n \in 0..Len(L)
  BY <1>0, <1>1, <1>3
<1>6. SubSeq(L, 1, pos) \o SubSeq(L, pos + 1, pos + n) = SubSeq(L, 1, pos + n)
  <2>1. 1 \in 1..(Len(L) + 1) /\ pos \in (1 - 1)..Len(L) /\ pos + n \in pos..Len(L)
    BY <1>0, <1>3, <1>5
  <2> QED
    BY <2>1, ConcatAdjacentSubSeq
<1>7. SubSeq(L, 1, pos) \in Seq(Entries) /\ SubSeq(R, 1, n) \in Seq(Entries)
  <2>1. \A i \in 1..pos : L[i] \in Entries
    BY <1>0
  <2>2. \A i \in (pos + 1)..(pos + n) : L[i] \in Entries
    BY <1>0, <1>5, <1>3
  <2>3. SubSeq(L, 1, pos) \in Seq(Entries)
    BY <1>0, <2>1, SubSeqProperties
  <2>4. SubSeq(L, pos + 1, pos + n) \in Seq(Entries)
    BY <1>0, <1>3, <2>2, SubSeqProperties
  <2> QED
    BY <1>3, <2>3, <2>4
<1>8. Real(SubSeq(L, 1, pos)) \o Real(SubSeq(R, 1, n)) = Real(SubSeq(L, 1, pos + n))
  <2> DEFINE done == SubSeq(L, 1, pos)
             batch == SubSeq(R, 1, n)
  <2>1. done \in Seq(Entries) /\ batch \in Seq(Entries)
    BY <1>7
  <2>2. done \o batch = SubSeq(L, 1, pos + n)
    BY <1>3, <1>6
  <2> HIDE DEF done, batch
  <2>3. OfKinds(done \o batch, {"dir", "file"}) =
            OfKinds(done, {"dir", "file"}) \o OfKinds(batch, {"dir", "file"})
    BY <2>1, OfKindsConcat
  <2> QED
    BY <2>2, <2>3 DEF Real, done, batch
<1>9. Real(SubSeq(R, 1, n)) \in Seq(RealEntries)
  <2>1. {e \in Entries : e.kind \in {"dir", "file"}} = RealEntries
    BY DEF Entries, RealEntries
  <2> QED
    BY <1>7, <2>1, OfKindsAmong DEF Real
<1>10. (R = <<>> \/ Len(R) <= Batch) => pos + n = Len(L)
  BY <1>0, <1>1, <1>3, <1>4
<1> QED
  BY <1>1, <1>3, <1>5, <1>8, <1>9, <1>10 DEF n, R

----------------------------------------------------------------------------
(* Favourites                                                              *)

LEMMA LeastOfAll ==
  ASSUME NEW T \in SUBSET Nat, T # {}
  PROVE  (CHOOSE i \in T : \A j \in T : i <= j) \in T
<1>1. \E x \in T : \A y \in T : x <= y
  BY LeastNatural
<1> QED
  BY <1>1, Zenon

LEMMA ActiveIndexType ==
  ASSUME NEW path
  PROVE  ActiveIndex(path) \in FavouriteSlots \cup {Nothing}
<1> DEFINE is == {i \in FavouriteSlots : HasPath(i) /\ PathOf(i) = path}
<1>1. is \in SUBSET Nat /\ is \subseteq FavouriteSlots
  BY DriveAssumption DEF FavouriteSlots
<1>2. is # {} => (CHOOSE i \in is : \A j \in is : i <= j) \in is
  <2> HIDE DEF is
  <2> QED
    BY <1>1, LeastOfAll
<1> QED
  BY <1>1, <1>2 DEF ActiveIndex

LEMMA NextIndexType ==
  ASSUME rom.index \in FavouriteSlots \cup {Nothing}
  PROVE  NextIndex \in FavouriteSlots \cup {Nothing}
<1> DEFINE at(step) == IF rom.index = Nothing THEN step - 1 ELSE (rom.index + step) % Favourites
           steps == {k \in 1..Favourites : at(k) # rom.index /\ HasPath(at(k))}
           least == CHOOSE k \in steps : \A l \in steps : k <= l
<1>1. steps \in SUBSET Nat /\ steps \subseteq 1..Favourites
  BY DriveAssumption
<1>2. steps # {} => least \in steps
  <2> HIDE DEF steps
  <2> QED
    BY <1>1, LeastOfAll
<1>3. ASSUME NEW k \in 1..Favourites
      PROVE  at(k) \in FavouriteSlots
  <2>0. Favourites \in Nat \ {0}
    BY DriveAssumption
  <2>1. CASE rom.index = Nothing
    BY <2>0, <2>1 DEF FavouriteSlots
  <2>2. CASE rom.index # Nothing
    <3>1. rom.index \in Int
      BY <2>0, <2>2 DEF FavouriteSlots
    <3>2. rom.index + k \in Int
      BY <3>1
    <3>3. (rom.index + k) % Favourites \in 0..(Favourites - 1)
      BY <2>0, <3>2
    <3> QED
      BY <2>2, <3>3 DEF FavouriteSlots
  <2> QED
    BY <2>1, <2>2
<1>4. NextIndex = IF steps = {} THEN Nothing ELSE at(least)
  BY Zenon DEF NextIndex
<1> HIDE DEF steps, least, at
<1> QED
  BY <1>1, <1>2, <1>3, <1>4

\* What was uploaded, and what was committed of it.
Uploaded ==
    /\ \A o \in Offsets : strings[o] # Nothing =>
           \E chunk \in Chunks : o \in DOMAIN chunk /\ strings[o] = chunk[o]
    /\ \A i \in FavouriteSlots : table[i] # Nothing => \E t \in Tables : table[i] = t.entries[i]

LEMMA SourceOfType ==
  ASSUME Uploaded, NEW i \in FavouriteSlots, IsWhole(i)
  PROVE  SourceOf(i) \in Sources
<1>1. table[i] # Nothing /\ (table[i].sd \/ Has(table[i].src))
  BY DEF IsWhole, HasPath
<1>2. PICK t \in Tables : table[i] = t.entries[i]
  BY <1>1 DEF Uploaded
<1>3. CASE table[i].sd
  BY <1>3 DEF SourceOf, Sources
<1>4. CASE ~table[i].sd
  <2>1. table[i].src \in Offsets /\ strings[table[i].src] # Nothing
    BY <1>1, <1>4 DEF Has
  <2>2. PICK chunk \in Chunks : table[i].src \in DOMAIN chunk /\ strings[table[i].src] = chunk[table[i].src]
    BY <2>1 DEF Uploaded
  <2>3. chunk[table[i].src] \in Hosts
    BY <1>1, <1>2, <1>4, <2>2, TablesAssumption
  <2> QED
    BY <1>4, <2>2, <2>3 DEF SourceOf, Sources
<1> QED
  BY <1>3, <1>4

----------------------------------------------------------------------------
(* What holds of the slot and the browser                                  *)

\* The directory that is browsed is the one the latest generation was told of.
OpenGeneration ==
    /\ browse.gen \in 1..Len(told)
    /\ browse.gen = Len(told)
    /\ told[browse.gen].dir = browse.root \o browse.cwd
    /\ IF browse.sd
       THEN told[browse.gen].src = Card /\ told[browse.gen].dir \in DOMAIN Listing[Card]
       ELSE told[browse.gen].src \in Hosts /\ browse.root = Root

BrowseSound ==
    /\ browse.open => OpenGeneration
    /\ cache.left \in Seq(RealEntries)
    /\ walk.open => walk.number \in Numbers
    /\ call.at = "read" => walk.open
    /\ walk.active => browse.open /\ ~browse.sd /\ walk.gen = browse.gen
    /\ call.at # "none" => answer.status = "none"
    /\ answer.status \in {"ok", "end"} => answer.gen \in 1..Len(told)

\* Until the slot is taken, its server is the one that is browsed.
OurServer == (~slot.taken /\ browse.open /\ ~browse.sd) => slot.host = told[browse.gen].src

\* raw_readdir works on the batch of its own directory.
OurCache == call.at = "read" => cache.valid /\ cache.number = walk.number

\* What the cache has left for the walk.
Left == IF cache.valid /\ cache.number = walk.number THEN cache.left ELSE <<>>

\* The walk has read t of the directory L, and the server goes on after what is
\* left in the cache.
Position(g, L, t) ==
    IF walk.open
    THEN \E pos \in 0..Len(L) :
             /\ t \o Left = Real(SubSeq(L, 1, pos))
             /\ (cache.valid /\ cache.number = walk.number /\ cache.eof) => pos = Len(L)
             /\ ~slot.taken => slot.dirs[walk.number] = [dir |-> g.dir, pos |-> pos]
    ELSE t = <<>>

\* The page region of a walk is exact as far as the walk has come.
WalkExact ==
    (walk.active /\ ~upset) =>
        LET g == told[walk.gen]
            L == Listing[g.src][g.dir]
        IN  /\ ~walk.more
            /\ walk.open \/ walk.files => g.dir \in DOMAIN Listing[g.src]
            /\ \E t \in Seq(Entries) : Exact(walk, L, t) /\ Position(g, L, t)

BrowseTypes == SlotTypeOK /\ SlotSound(slot) /\ BrowseTypeOK /\ BrowseSound
PageInv == OurServer /\ OurCache /\ WalkExact /\ PagesAreExact
BrowseInv == BrowseTypes /\ PageInv

----------------------------------------------------------------------------
(* Exchanges                                                               *)

LEMMA ExchangeType ==
  ASSUME SlotTypeOK, NEW o, Sound(o), Exchange(o)
  PROVE  slot' = o.slot /\ SlotSound(slot') /\ slot' \in Slots /\ faults' \in 0..MaxFaults
<1>1. faults \in Nat /\ MaxFaults \in Nat
  BY BoundsAssumption DEF SlotTypeOK
<1>2. o.lost \in Nat /\ faults + o.lost <= MaxFaults /\ faults' = faults + o.lost
  BY DEF Sound, Exchange
<1>3. slot' = o.slot /\ SlotSound(slot')
  BY DEF Sound, Exchange
<1> QED
  BY <1>1, <1>2, <1>3 DEF SlotSound

LEMMA EventType ==
  ASSUME SlotTypeOK, Event
  PROVE  events' \in 0..MaxEvents
BY BoundsAssumption DEF SlotTypeOK, Event

\* What exchanges about directories leave of the slot.
Keeps(s, o) == Sound(o) /\ o.slot.host = s.host /\ o.slot.taken = s.taken

LEMMA UnchangedKeeps ==
  ASSUME NEW s, SlotSound(s)
  PROVE  Keeps(s, Unchanged(s)) /\ Unchanged(s).ok
BY OutcomeSound DEF Keeps, Unchanged, Outcome

LEMMA ProbeSound ==
  ASSUME NEW s, SlotSound(s), NEW dir, NEW p \in Probe(s, dir)
  PROVE  /\ Keeps(s, p)
         /\ p.ok => s.host \in Hosts /\ dir \in DOMAIN Listing[s.host]
         /\ ~p.ok => OpenStays(s, p.slot)
<1>1. PICK o \in OpenDir(s, dir) : p \in IF o.ok THEN CloseDir(o.slot, o.got) ELSE {o}
  BY Zenon DEF Probe
<1>2. /\ Sound(o) /\ OpenStays(s, o.slot)
      /\ o.ok => s.host \in Hosts /\ dir \in DOMAIN Listing[s.host]
  BY OpenDirSound
<1>3. CASE ~o.ok
  <2>1. p = o
    BY <1>1, <1>3
  <2> QED
    BY <1>2, <1>3, <2>1 DEF Keeps, OpenStays
<1>4. CASE o.ok
  <2>1. p \in CloseDir(o.slot, o.got) /\ SlotSound(o.slot)
    BY <1>1, <1>2, <1>4 DEF Sound
  <2>2. Sound(p) /\ p.ok /\ p.slot.host = o.slot.host /\ p.slot.taken = o.slot.taken
    BY <2>1, CloseDirSound
  <2> QED
    BY <1>2, <1>4, <2>2 DEF Keeps, OpenStays
<1> QED
  BY <1>3, <1>4

LEMMA AbandonSound ==
  ASSUME NEW s, NEW o, Keeps(s, o), NEW a \in Abandoning(o)
  PROVE  Keeps(s, a) /\ (o.ok => a.ok)
<1>1. CASE a = o
  BY <1>1
<1>2. CASE a \in Then(o, CloseDir(o.slot, walk.number))
  <2>1. SlotSound(o.slot) /\ o.lost \in Nat
    BY DEF Keeps, Sound
  <2>2. \A c \in CloseDir(o.slot, walk.number) :
            Sound(c) /\ c.ok /\ c.slot.host = o.slot.host /\ c.slot.taken = o.slot.taken
    BY <2>1, CloseDirSound
  <2>3. /\ Sound(a)
        /\ \E c \in CloseDir(o.slot, walk.number) : a.slot = c.slot /\ a.ok = c.ok /\ a.got = c.got
    BY <1>2, <2>1, <2>2, ThenSound
  <2> QED
    BY <2>2, <2>3 DEF Keeps
<1> QED
  BY <1>1, <1>2 DEF Abandoning

\* An outcome after another.
LEMMA ThenKeeps ==
  ASSUME NEW s, NEW o, o.lost \in Nat, NEW outs, \A q \in outs : Keeps(s, q), NEW p \in Then(o, outs)
  PROVE  Keeps(s, p) /\ \E q \in outs : p.slot = q.slot /\ p.ok = q.ok /\ p.got = q.got
<1>1. \A q \in outs : Sound(q)
  BY DEF Keeps
<1>2. Sound(p) /\ \E q \in outs : p.slot = q.slot /\ p.ok = q.ok /\ p.got = q.got
  BY <1>1, ThenSound
<1> QED
  BY <1>2 DEF Keeps

----------------------------------------------------------------------------
(* BROWSE_OPEN and CHANGE_DIR keep the invariant                           *)

Browses == [open : BOOLEAN, sd : BOOLEAN, root : Seq(Names), cwd : Seq(Names), gen : Nat]
Tellings == Seq([src : Sources, dir : Seq(Names)])

\* What is told goes on.
Extends ==
    /\ browse' \in Browses /\ told' \in Tellings
    /\ \A i \in 1..Len(told) : i \in 1..Len(told') /\ told'[i] = told[i]
    /\ browse'.open => OpenGeneration'

LEMMA GenerationExtends ==
  ASSUME BrowseTypes, NEW b \in Browses, NEW src \in Sources, Generation(b, src),
         IF b.sd THEN src = Card /\ b.root \o b.cwd \in DOMAIN Listing[Card]
                 ELSE src \in Hosts /\ b.root = Root
  PROVE  Extends /\ told'[browse'.gen].src = src /\ browse'.sd = b.sd
<1> DEFINE t == [src |-> src, dir |-> b.root \o b.cwd]
           n == Len(told) + 1
<1>1. told \in Tellings /\ Len(told) \in Nat /\ n \in Nat
  <2>1. told \in Tellings
    BY DEF BrowseTypes, BrowseTypeOK, Tellings
  <2> QED
    BY <2>1, LenProperties DEF Tellings
<1>2. t \in [src : Sources, dir : Seq(Names)]
  BY ConcatProperties DEF Browses
<1>3. browse' = [b EXCEPT !.gen = n] /\ told' = Append(told, t)
  BY DEF Generation
<1>4. /\ browse' \in Browses /\ browse'.gen = n /\ browse'.root = b.root /\ browse'.cwd = b.cwd
      /\ browse'.sd = b.sd
  BY <1>1, <1>3 DEF Browses
<1> HIDE DEF t
<1>5. /\ told' \in Tellings /\ Len(told') = Len(told) + 1
      /\ \A i \in 1..Len(told) : told'[i] = told[i]
      /\ told'[Len(told) + 1] = t
  BY <1>1, <1>2, <1>3, AppendProperties DEF Tellings
<1>6. \A i \in 1..Len(told) : i \in 1..Len(told')
  BY <1>1, <1>5
<1>7. n \in 1..Len(told') /\ n = Len(told')
  BY <1>1, <1>5
<1>8. told'[n] = t
  BY <1>5
<1> HIDE DEF n
<1>9. OpenGeneration'
  <2>1. told'[browse'.gen].dir = browse'.root \o browse'.cwd /\ told'[browse'.gen].src = src
    <3>1. t.dir = b.root \o b.cwd /\ t.src = src
      BY DEF t
    <3>2. told'[browse'.gen] = t
      BY <1>4, <1>8
    <3>3. browse'.root \o browse'.cwd = b.root \o b.cwd
      BY <1>4
    <3> QED
      BY <3>1, <3>2, <3>3
  <2>2. IF browse'.sd
        THEN src = Card /\ browse'.root \o browse'.cwd \in DOMAIN Listing[Card]
        ELSE src \in Hosts /\ browse'.root = Root
    BY <1>4
  <2>3. browse'.gen \in 1..Len(told') /\ browse'.gen = Len(told')
    BY <1>4, <1>7
  <2> QED
    BY <2>1, <2>2, <2>3 DEF OpenGeneration
<1> QED
  BY <1>4, <1>5, <1>6, <1>8, <1>9 DEF Extends, t

LEMMA SameExtends ==
  ASSUME BrowseTypes, UNCHANGED <<browse, told>>
  PROVE  Extends
BY DEF Extends, BrowseTypes, BrowseTypeOK, BrowseSound, Browses, Tellings, OpenGeneration

\* A page that was answered stays what it is.
LEMMA AnswerStays ==
  ASSUME BrowseTypes, PagesAreExact, Extends, UNCHANGED <<upset, answer>>,
         walk'.region = walk.region, walk'.more = walk.more
  PROVE  PagesAreExact'
<1>1. CASE ~(answer.status \in {"ok", "end"} /\ ~upset)
  BY <1>1 DEF PagesAreExact
<1>2. CASE answer.status \in {"ok", "end"} /\ ~upset
  <2>1. answer.gen \in 1..Len(told)
    BY <1>2 DEF BrowseTypes, BrowseSound
  <2>2. told'[answer.gen] = told[answer.gen]
    BY <2>1 DEF Extends
  <2> QED
    BY <1>2, <2>2 DEF PagesAreExact
<1> QED
  BY <1>1, <1>2

\* The walk is given up, and what is browsed may be another directory.
LEMMA GivesUp ==
  ASSUME BrowseInv, call.at = "none", SlotTypeOK', SlotSound(slot'), Extends, OurServer',
         UNCHANGED <<call, upset, answer>>, walk' = Abandoned, cache' \in {cache, NoCache}
  PROVE  BrowseInv'
<1> USE DEF BrowseInv, BrowseTypes, PageInv
<1>1. /\ walk' \in Walks /\ ~walk'.active /\ ~walk'.open
      /\ walk'.region = walk.region /\ walk'.more = walk.more
  BY DEF BrowseTypeOK, Walks, Abandoned
<1>2. cache' \in [valid : BOOLEAN, number : Numbers \cup {0}, left : Seq(Entries), eof : BOOLEAN]
      /\ cache'.left \in Seq(RealEntries)
  <2>1. CASE cache' = cache
    BY <2>1 DEF BrowseTypeOK, BrowseSound
  <2>2. CASE cache' = NoCache
    BY <2>2, EmptySeq DEF NoCache
  <2> QED
    BY <2>1, <2>2
<1>3. BrowseTypeOK'
  BY <1>1, <1>2 DEF BrowseTypeOK, Extends, Browses, Tellings
<1>4. BrowseSound'
  <2>1. answer'.status \in {"ok", "end"} => answer'.gen \in 1..Len(told')
    BY DEF BrowseSound, Extends
  <2> QED
    BY <1>1, <1>2, <2>1 DEF BrowseSound, Extends
<1>5. OurCache' /\ WalkExact'
  BY <1>1 DEF OurCache, WalkExact
<1>6. PagesAreExact'
  BY <1>1, AnswerStays
<1> QED
  BY <1>3, <1>4, <1>5, <1>6

\* What the server of the slot is after exchanges.
LEMMA ServerStays ==
  ASSUME OurServer, UNCHANGED <<browse, told>>,
         slot'.taken \/ (~slot.taken /\ slot'.host = slot.host)
  PROVE  OurServer'
BY DEF OurServer

LEMMA BrowseOpenSdSound ==
  ASSUME BrowseInv, call.at = "none", NEW start, BrowseOpenSd(start)
  PROVE  BrowseInv'
<1>1. PICK a \in Abandoning(Unchanged(slot)) : Exchange(a)
  BY DEF BrowseOpenSd
<1>2. Keeps(slot, a)
  BY <1>1, UnchangedKeeps, AbandonSound DEF BrowseInv, BrowseTypes
<1>3. slot' = a.slot /\ SlotSound(slot') /\ SlotTypeOK'
  BY <1>1, <1>2, ExchangeType, EventType DEF Keeps, BrowseInv, BrowseTypes, SlotTypeOK, BrowseOpenSd
<1>4. slot'.host = slot.host /\ slot'.taken = slot.taken
  BY <1>2, <1>3 DEF Keeps
<1>5. UNCHANGED <<cache, call, upset, answer>> /\ walk' = Abandoned
  BY DEF BrowseOpenSd
<1>6. CASE UNCHANGED <<browse, told>>
  <2>1. OurServer'
    BY <1>4, <1>6, ServerStays DEF BrowseInv, PageInv, SlotSound, Slots, BrowseTypes, OurServer
  <2>2. Extends
    BY <1>6, SameExtends DEF BrowseInv
  <2> QED
    BY <1>3, <1>5, <2>1, <2>2, GivesUp
<1>7. CASE /\ CardDir(start)
           /\ Generation([browse EXCEPT !.open = TRUE, !.sd = TRUE, !.root = start,
                                        !.cwd = Root], Card)
  <2> DEFINE b == [browse EXCEPT !.open = TRUE, !.sd = TRUE, !.root = start, !.cwd = Root]
  <2>1. start \in DOMAIN Listing[Card] /\ start \in Seq(Names) /\ Card \in Sources
    BY <1>7, ListingAssumption DEF CardDir, Sources
  <2>2. /\ b \in Browses /\ b.root = start /\ b.cwd = <<>> /\ b.sd = TRUE
    BY <2>1, EmptySeq DEF BrowseInv, BrowseTypes, BrowseTypeOK, Browses, Root
  <2>3. b.root \o b.cwd = start
    BY <2>1, <2>2, ConcatEmptySeq
  <2>4. Generation(b, Card)
    BY <1>7
  <2> HIDE DEF b
  <2>5. Extends /\ browse'.sd
    BY <2>1, <2>2, <2>3, <2>4, GenerationExtends DEF BrowseInv
  <2>6. OurServer'
    BY <2>5 DEF OurServer
  <2> QED
    BY <1>3, <1>5, <2>5, <2>6, GivesUp
<1> QED
  BY <1>6, <1>7 DEF BrowseOpenSd

LEMMA WantedType ==
  ASSUME BrowseTypeOK, NEW cwd \in Wanted
  PROVE  cwd \in Seq(Names)
<1> DEFINE n == IF browse.cwd = Root THEN 0 ELSE Len(browse.cwd) - 1
<1>1. browse.cwd \in Seq(Names)
  BY DEF BrowseTypeOK
<1>2. Len(browse.cwd) \in Nat /\ \A i \in 1..Len(browse.cwd) : browse.cwd[i] \in Names
  BY <1>1, LenProperties, ElementOfSeq
<1>3. SubSeq(browse.cwd, 1, n) \in Seq(Names)
  <2>1. n \in Int /\ \A i \in 1..n : browse.cwd[i] \in Names
    BY <1>2
  <2> QED
    BY <2>1, SubSeqProperties
<1>4. \A name \in Names \ {".", ".."} : Append(browse.cwd, name) \in Seq(Names)
  BY <1>1, AppendProperties
<1> QED
  BY <1>3, <1>4 DEF Wanted

\* Whoever has the slot now: its server is the one of s unless it was taken.
Guest(s, o) == Sound(o) /\ (o.slot.taken \/ (~s.taken /\ o.slot.host = s.host))

LEMMA ThenProbe ==
  ASSUME NEW s, NEW o, Guest(s, o), NEW dir, NEW p \in Then(o, Probe(o.slot, dir))
  PROVE  /\ Guest(s, p) /\ p.slot.host = o.slot.host
         /\ p.ok => o.slot.host \in Hosts /\ dir \in DOMAIN Listing[o.slot.host]
<1>1. SlotSound(o.slot) /\ o.lost \in Nat
  BY DEF Guest, Sound
<1>2. \A q \in Probe(o.slot, dir) :
          /\ Keeps(o.slot, q)
          /\ q.ok => o.slot.host \in Hosts /\ dir \in DOMAIN Listing[o.slot.host]
  BY <1>1, ProbeSound
<1>3. /\ Keeps(o.slot, p)
      /\ \E q \in Probe(o.slot, dir) : p.slot = q.slot /\ p.ok = q.ok /\ p.got = q.got
  BY <1>1, <1>2, ThenKeeps
<1> QED
  BY <1>2, <1>3 DEF Guest, Keeps

LEMMA BrowseOpenTnfsSound ==
  ASSUME BrowseInv, call.at = "none", NEW src \in Hosts, NEW start, BrowseOpenTnfs(src, start)
  PROVE  BrowseInv'
<1> DEFINE b(p) == [browse EXCEPT !.open = TRUE, !.sd = FALSE, !.root = Root,
                                  !.cwd = IF p.ok THEN start ELSE Root]
           out(r) == [r EXCEPT !.slot.taken = ~r.ok /\ @]
           then(r, p) == IF r.ok THEN Generation(b(p), src) /\ cache' = NoCache
                         ELSE UNCHANGED <<browse, told, cache>>
           second(m, p) == IF m.ok /\ ~p.ok /\ start # Root THEN Then(p, Probe(p.slot, Root)) ELSE {p}
           first(m) == IF m.ok THEN Then(m, Probe(m.slot, start)) ELSE {m}
<1>1. PICK a \in Abandoning(Unchanged(slot)) :
        \E m \in Then(a, Mount(a.slot, src)) : \E p \in first(m) : \E r \in second(m, p) :
            Exchange(out(r)) /\ then(r, p)
  BY Zenon DEF BrowseOpenTnfs
<1> HIDE DEF second, first, then
<1>2. PICK m \in Then(a, Mount(a.slot, src)) : \E p \in first(m) : \E r \in second(m, p) :
            Exchange(out(r)) /\ then(r, p)
  BY <1>1, Zenon
<1>3. PICK p \in first(m) : \E r \in second(m, p) : Exchange(out(r)) /\ then(r, p)
  BY <1>2, Zenon
<1>4. PICK r \in second(m, p) : Exchange(out(r)) /\ then(r, p)
  BY <1>3, Zenon
<1>5. Keeps(slot, a)
  BY <1>1, UnchangedKeeps, AbandonSound DEF BrowseInv, BrowseTypes
<1>6. Guest(slot, m) /\ (m.ok => m.slot.host = src)
  <2>1. SlotSound(a.slot) /\ a.lost \in Nat
    BY <1>5 DEF Keeps, Sound
  <2>2. \A q \in Mount(a.slot, src) :
            Sound(q) /\ Apart(a.slot, q.slot) /\ (q.ok => q.slot.host = src)
    BY <2>1, MountSound
  <2>3. /\ Sound(m)
        /\ \E q \in Mount(a.slot, src) : m.slot = q.slot /\ m.ok = q.ok /\ m.got = q.got
    BY <1>2, <2>1, <2>2, ThenSound
  <2> QED
    BY <1>5, <2>2, <2>3 DEF Guest, Keeps, Apart
<1>7. /\ Guest(slot, p)
      /\ p.ok => m.ok
      /\ m.ok => p.slot.host = src /\ (p.ok => start \in DOMAIN Listing[src])
  <2>1. CASE m.ok
    <3>1. p \in Then(m, Probe(m.slot, start))
      BY <1>3, <2>1 DEF first
    <3> QED
      BY <1>6, <2>1, <3>1, ThenProbe
  <2>2. CASE ~m.ok
    BY <1>3, <1>6, <2>2 DEF first
  <2> QED
    BY <2>1, <2>2
<1>8. Guest(slot, r) /\ (r.ok => r.slot.host = src)
  <2>1. CASE r = p
    BY <1>7, <2>1
  <2>2. CASE m.ok /\ r \in Then(p, Probe(p.slot, Root))
    BY <1>7, <2>2, ThenProbe
  <2> QED
    BY <1>4, <2>1, <2>2 DEF second
<1>9. /\ Sound(out(r)) /\ out(r).slot.host = r.slot.host
      /\ out(r).slot.taken = (~r.ok /\ r.slot.taken)
  <2>1. r.slot \in Slots /\ OutcomeShape(r) /\ SlotSound(r.slot)
    BY <1>8 DEF Guest, Sound, SlotSound
  <2>2. out(r).slot = [r.slot EXCEPT !.taken = ~r.ok /\ @] /\ OutcomeShape(out(r))
        /\ out(r).lost = r.lost /\ out(r).ok = r.ok
    BY <2>1 DEF OutcomeShape
  <2> DEFINE t == [r.slot EXCEPT !.taken = ~r.ok /\ @]
  <2>3. /\ t \in Slots /\ t.host = r.slot.host /\ t.mounted = r.slot.mounted
        /\ t.dirs = r.slot.dirs /\ t.taken = (~r.ok /\ r.slot.taken)
    BY <2>1, <1>8 DEF Slots, Guest, Sound
  <2>4. SlotSound(t)
    BY <2>1, <2>3 DEF SlotSound
  <2> HIDE DEF t
  <2> QED
    BY <1>8, <2>2, <2>3, <2>4 DEF Sound, t, Guest
<1>10. /\ slot' = out(r).slot /\ SlotSound(slot') /\ SlotTypeOK'
  BY <1>4, <1>9, ExchangeType, EventType DEF BrowseInv, BrowseTypes, SlotTypeOK, BrowseOpenTnfs
<1>11. UNCHANGED <<call, upset, answer>> /\ walk' = Abandoned
  BY DEF BrowseOpenTnfs
<1> HIDE DEF out
<1>12. CASE ~r.ok
  <2>1. UNCHANGED <<browse, told, cache>>
    BY <1>4, <1>12 DEF then
  <2>2. slot'.taken \/ (~slot.taken /\ slot'.host = slot.host)
    BY <1>8, <1>9, <1>10, <1>12 DEF Guest
  <2>3. OurServer' /\ Extends
    BY <2>1, <2>2, ServerStays, SameExtends DEF BrowseInv, PageInv
  <2> QED
    BY <1>10, <1>11, <2>1, <2>3, GivesUp
<1>13. CASE r.ok
  <2>1. Generation(b(p), src) /\ cache' = NoCache
    BY <1>4, <1>13 DEF then
  <2>2. src \in Sources /\ (IF p.ok THEN start ELSE Root) \in Seq(Names)
    BY <1>7, ListingAssumption, EmptySeq DEF Sources, Root
  <2>3. b(p) \in Browses /\ b(p).sd = FALSE /\ b(p).root = Root
    BY <2>2, EmptySeq DEF BrowseInv, BrowseTypes, BrowseTypeOK, Browses, Root
  <2> HIDE DEF b
  <2>4. Extends /\ told'[browse'.gen].src = src
    BY <2>1, <2>2, <2>3, GenerationExtends DEF BrowseInv
  <2>5. slot'.host = src
    BY <1>8, <1>9, <1>10, <1>13
  <2>6. OurServer'
    BY <2>4, <2>5 DEF OurServer
  <2> QED
    BY <1>10, <1>11, <2>1, <2>4, <2>6, GivesUp
<1> QED
  BY <1>12, <1>13

\* The walk goes on when neither it nor its directory changed.
LEMMA WalkStays ==
  ASSUME BrowseInv, SlotTypeOK', SlotSound(slot'), UNCHANGED browseVars,
         slot'.taken \/ (~slot.taken /\ slot'.host = slot.host),
         (walk.open /\ ~slot'.taken /\ slot.dirs[walk.number] # Nothing) =>
             slot'.dirs[walk.number] = slot.dirs[walk.number]
  PROVE  BrowseInv'
<1> USE DEF BrowseInv, BrowseTypes, PageInv, browseVars
<1>1. BrowseTypeOK' /\ BrowseSound' /\ OurCache' /\ PagesAreExact'
  BY SMTT(30) DEF BrowseTypeOK, BrowseSound, OpenGeneration, OurCache, PagesAreExact
<1>2. OurServer'
  BY ServerStays
<1>3. WalkExact'
  <2> SUFFICES ASSUME walk.active, ~upset
               PROVE  WalkExact'
    BY DEF WalkExact
  <2> DEFINE g == told[walk.gen]
             L == Listing[g.src][g.dir]
  <2>1. /\ ~walk.more
        /\ walk.open \/ walk.files => g.dir \in DOMAIN Listing[g.src]
        /\ \E t \in Seq(Entries) : Exact(walk, L, t) /\ Position(g, L, t)
    BY DEF WalkExact
  <2>2. PICK t \in Seq(Entries) : Exact(walk, L, t) /\ Position(g, L, t)
    BY <2>1
  <2>3. walk.open => g \in [src : Sources, dir : Seq(Names)] /\ g.dir \in Dirs
    <3>1. walk.gen \in 1..Len(told) /\ told \in Seq([src : Sources, dir : Seq(Names)])
      BY DEF BrowseSound, OpenGeneration, BrowseTypeOK
    <3>2. g \in [src : Sources, dir : Seq(Names)]
      BY <3>1, ElementOfSeq
    <3> QED
      BY <2>1, <3>2 DEF Dirs
  <2> HIDE DEF g, L
  <2>4. Position(g, L, t)'
    <3>1. CASE ~walk.open
      BY <2>2, <3>1 DEF Position
    <3>2. CASE walk.open
      <4>1. PICK pos \in 0..Len(L) :
               /\ t \o Left = Real(SubSeq(L, 1, pos))
               /\ (cache.valid /\ cache.number = walk.number /\ cache.eof) => pos = Len(L)
               /\ ~slot.taken => slot.dirs[walk.number] = [dir |-> g.dir, pos |-> pos]
        BY <2>2, <3>2 DEF Position
      <4>2. Left' = Left
        BY DEF Left
      <4>3. ASSUME ~slot'.taken
            PROVE  slot'.dirs[walk.number] = [dir |-> g.dir, pos |-> pos]
        <5>1. [dir |-> g.dir, pos |-> pos] \in [dir : Dirs, pos : Nat]
          BY <2>3, <3>2
        <5>2. slot.dirs[walk.number] = [dir |-> g.dir, pos |-> pos]
          BY <4>1, <4>3
        <5>3. slot.dirs[walk.number] # Nothing
          BY <5>1, <5>2, SourcesAssumption
        <5> QED
          BY <3>2, <4>3, <5>2, <5>3
      <4> QED
        BY <3>2, <4>1, <4>2, <4>3 DEF Position, g, L
    <3> QED
      BY <3>1, <3>2
  <2> QED
    BY <2>1, <2>2, <2>4 DEF WalkExact, g, L
<1> QED
  BY <1>1, <1>2, <1>3

LEMMA ChangeDirSound ==
  ASSUME BrowseInv, WalkInv, call.at = "none", NEW cwd \in Wanted, ChangeDir(cwd)
  PROVE  BrowseInv'
<1> DEFINE after(p) == IF p.ok /\ (browse.sd => CardDir(browse.root \o cwd))
                       THEN Moved(cwd) ELSE UNCHANGED <<browse, told, walk>>
<1>0. /\ BrowseTypes /\ OurServer /\ BrowseTypeOK /\ SlotTypeOK /\ SlotSound(slot)
      /\ OpenGeneration /\ cwd \in Seq(Names)
  BY WantedType DEF BrowseInv, BrowseTypes, PageInv, BrowseSound, ChangeDir
<1>1. PICK p \in IF ~browse.sd THEN Probe(slot, cwd) ELSE {Unchanged(slot)} :
        /\ \E a \in IF p.ok THEN Abandoning(p) ELSE {p} : Exchange(a) /\ after(p)
        /\ cache' = IF p.ok /\ ~browse.sd THEN NoCache ELSE cache
  BY Zenon DEF ChangeDir
<1>2. PICK a \in IF p.ok THEN Abandoning(p) ELSE {p} : Exchange(a) /\ after(p)
  BY <1>1
<1>3. /\ Keeps(slot, p)
      /\ ~browse.sd /\ ~p.ok => OpenStays(slot, p.slot)
      /\ browse.sd => p = Unchanged(slot) /\ p.ok
  BY <1>0, <1>1, ProbeSound, UnchangedKeeps
<1>4. Keeps(slot, a)
  BY <1>2, <1>3, AbandonSound
<1>5. slot' = a.slot /\ SlotSound(slot') /\ SlotTypeOK'
  BY <1>0, <1>2, <1>4, ExchangeType, EventType DEF Keeps, SlotTypeOK, ChangeDir
<1>6. slot'.host = slot.host /\ slot'.taken = slot.taken
  BY <1>4, <1>5 DEF Keeps
<1>7. UNCHANGED <<call, upset, answer>>
  BY DEF ChangeDir
<1>8. CASE ~p.ok
  <2>1. UNCHANGED <<browse, told, walk, cache>> /\ a = p /\ ~browse.sd
    BY <1>1, <1>2, <1>3, <1>8
  <2>2. OpenStays(slot, slot')
    BY <1>3, <1>5, <1>8, <2>1
  <2>3. walk.open => walk.number \in Numbers
    BY <1>0 DEF BrowseTypes, BrowseSound
  <2>4. slot'.taken \/ (~slot.taken /\ slot'.host = slot.host)
    BY <1>0, <1>6 DEF SlotSound, Slots
  <2>5. UNCHANGED browseVars
    BY <1>7, <2>1 DEF browseVars
  <2> QED
    BY <1>5, <2>2, <2>3, <2>4, <2>5, WalkStays DEF OpenStays
<1>9. CASE p.ok /\ ~(browse.sd => CardDir(browse.root \o cwd))
  <2>1. UNCHANGED <<browse, told, walk>> /\ cache' = cache /\ p = Unchanged(slot)
    BY <1>1, <1>2, <1>3, <1>9
  <2>2. a = p
    BY <1>2, <1>9, <2>1 DEF Abandoning
  <2>3. slot' = slot
    BY <1>5, <2>1, <2>2 DEF Unchanged, Outcome
  <2>4. UNCHANGED browseVars
    BY <1>7, <2>1 DEF browseVars
  <2>5. slot'.taken \/ (~slot.taken /\ slot'.host = slot.host)
    BY <1>0, <1>6 DEF SlotSound, Slots
  <2> QED
    BY <1>5, <2>3, <2>4, <2>5, WalkStays
<1>10. CASE p.ok /\ (browse.sd => CardDir(browse.root \o cwd))
  <2> DEFINE b == [browse EXCEPT !.cwd = cwd]
             src == IF browse.sd THEN Card ELSE told[browse.gen].src
  <2>1. Generation(b, src) /\ walk' = Abandoned
    BY <1>2, <1>10 DEF Moved
  <2>2. /\ b \in Browses /\ b.cwd = cwd /\ b.root = browse.root /\ b.sd = browse.sd
    BY <1>0 DEF BrowseTypeOK, Browses
  <2>3. src \in Sources
    BY <1>0 DEF OpenGeneration, Sources
  <2>4. IF b.sd THEN src = Card /\ b.root \o b.cwd \in DOMAIN Listing[Card]
                ELSE src \in Hosts /\ b.root = Root
    BY <1>0, <1>10, <2>2 DEF OpenGeneration, CardDir
  <2>5. src = told[browse.gen].src
    BY <1>0 DEF OpenGeneration
  <2> HIDE DEF b, src
  <2>6. Extends /\ told'[browse'.gen].src = src /\ browse'.sd = browse.sd
    BY <1>0, <2>1, <2>2, <2>3, <2>4, GenerationExtends
  <2>7. OurServer'
    BY <1>0, <1>6, <2>5, <2>6 DEF OurServer, ChangeDir
  <2>8. cache' \in {cache, NoCache}
    BY <1>1
  <2> QED
    BY <1>5, <1>7, <2>1, <2>6, <2>7, <2>8, GivesUp
<1> QED
  BY <1>8, <1>9, <1>10

LEMMA GetPageRefusedSound ==
  ASSUME BrowseInv, call.at = "none", NEW g, GetPageRefused(g)
  PROVE  BrowseInv'
<1> USE DEF BrowseInv, BrowseTypes, PageInv
<1>1. UNCHANGED <<slot, faults, browse, told, walk, cache, call, upset>>
  BY DEF GetPageRefused
<1>2. SlotTypeOK' /\ SlotSound(slot')
  BY <1>1, EventType DEF GetPageRefused, SlotTypeOK
<1>3. /\ answer' \in [status : {"stale", "not_open"}, gen : Nat, page : Nat]
  BY DEF GetPageRefused, NoAnswer, Answer
<1>4. BrowseTypeOK'
  BY <1>1, <1>3 DEF BrowseTypeOK
<1>5. BrowseSound'
  BY <1>1, <1>3 DEF BrowseSound, OpenGeneration
<1>6. OurServer' /\ OurCache' /\ WalkExact'
  BY <1>1 DEF OurServer, OurCache, WalkExact, Position, Left
<1>7. PagesAreExact'
  BY <1>3 DEF PagesAreExact
<1> QED
  BY <1>2, <1>4, <1>5, <1>6, <1>7

LEMMA PauseSound ==
  ASSUME BrowseInv, WalkInv, Pause
  PROVE  BrowseInv'
<1> USE DEF BrowseInv, BrowseTypes, PageInv
<1>1. UNCHANGED <<slot, events, faults, browse, told, walk, cache, upset>>
  BY DEF Pause
<1>2. SlotTypeOK' /\ SlotSound(slot')
  BY <1>1 DEF SlotTypeOK
<1>3. /\ answer'.status = "again" /\ call' = NotRunning
      /\ answer' \in [status : {"again"}, gen : Nat, page : Nat]
  BY DEF Pause, Answer, BrowseTypeOK, Walks
<1>4. BrowseTypeOK'
  BY <1>1, <1>3, BrowseAssumption DEF BrowseTypeOK, NotRunning
<1>5. BrowseSound'
  BY <1>1, <1>3 DEF BrowseSound, OpenGeneration, NotRunning
<1>6. OurServer' /\ OurCache' /\ WalkExact'
  BY <1>1, <1>3 DEF OurServer, OurCache, WalkExact, Position, Left, NotRunning
<1>7. PagesAreExact'
  BY <1>3 DEF PagesAreExact
<1> QED
  BY <1>2, <1>4, <1>5, <1>6, <1>7

\* A GET_PAGE that ends, well or not, when what it answers is right.
LEMMA Answers ==
  ASSUME BrowseInv, NEW w \in Walks, SlotTypeOK', SlotSound(slot'),
         slot'.host = slot.host, slot'.taken = slot.taken,
         UNCHANGED <<browse, told>>, walk' = Done(w), call'.at = "none",
         call' \in [at : {"none", "first", "head", "read"}, rounds : 0..SkipRounds,
                    retries : 0..DirRetries],
         cache' \in [valid : BOOLEAN, number : Numbers \cup {0}, left : Seq(Entries), eof : BOOLEAN],
         cache'.left \in Seq(RealEntries), upset' \in BOOLEAN,
         NEW status \in {"ok", "end", "error"}, answer' = Answer(status, w.gen, w.page),
         status # "error" => w.gen \in 1..Len(told), PagesAreExact'
  PROVE  BrowseInv'
<1> USE DEF BrowseInv, BrowseTypes, PageInv
<1>1. walk' \in Walks /\ ~walk'.active /\ ~walk'.open
  BY DEF Done, Walks
<1>2. /\ answer' \in [status : {"ok", "end", "error"}, gen : Nat, page : Nat]
      /\ answer'.status = status /\ answer'.gen = w.gen
  BY DEF Answer, Walks
<1>4. BrowseTypeOK'
  BY <1>1, <1>2 DEF BrowseTypeOK
<1>5. BrowseSound'
  BY <1>1, <1>2 DEF BrowseSound, OpenGeneration
<1>6. OurServer' /\ OurCache' /\ WalkExact'
  BY <1>1 DEF OurServer, OurCache, WalkExact
<1> QED
  BY <1>4, <1>5, <1>6

LEMMA Ends ==
  ASSUME BrowseInv, NEW w \in Walks, SlotTypeOK', SlotSound(slot'),
         slot'.host = slot.host, slot'.taken = slot.taken,
         UNCHANGED <<browse, told>>, walk' = Done(w), call' = NotRunning,
         cache' \in [valid : BOOLEAN, number : Numbers \cup {0}, left : Seq(Entries), eof : BOOLEAN],
         cache'.left \in Seq(RealEntries), upset' \in BOOLEAN,
         NEW status \in {"ok", "end", "error"}, answer' = Answer(status, w.gen, w.page),
         status # "error" => w.gen \in 1..Len(told), PagesAreExact'
  PROVE  BrowseInv'
<1>1. /\ call'.at = "none"
      /\ call' \in [at : {"none", "first", "head", "read"}, rounds : 0..SkipRounds,
                    retries : 0..DirRetries]
  BY BrowseAssumption DEF NotRunning
<1> QED
  BY <1>1, Answers

LEMMA FailSound ==
  ASSUME BrowseInv, NEW o, Keeps(slot, o), Fail(o, walk), UNCHANGED <<events, browse, told, cache>>,
         upset' \in BOOLEAN
  PROVE  BrowseInv'
<1>0. BrowseTypes /\ walk \in Walks /\ SlotTypeOK /\ SlotSound(slot)
  BY DEF BrowseInv, BrowseTypes, BrowseTypeOK
<1>1. PICK c \in IF walk.open THEN Then(o, CloseDir(o.slot, walk.number)) ELSE {o} : Exchange(c)
  BY Zenon DEF Fail
<1>2. Keeps(slot, c)
  <2>1. CASE walk.open
    <3>1. SlotSound(o.slot) /\ o.lost \in Nat
      BY DEF Keeps, Sound
    <3>2. \A x \in CloseDir(o.slot, walk.number) : Keeps(slot, x)
      BY <3>1, CloseDirSound DEF Keeps
    <3> QED
      BY <1>1, <2>1, <3>1, <3>2, ThenKeeps
  <2>2. CASE ~walk.open
    BY <1>1, <2>2
  <2> QED
    BY <2>1, <2>2
<1>3. /\ SlotTypeOK' /\ SlotSound(slot')
      /\ slot'.host = slot.host /\ slot'.taken = slot.taken
  BY <1>0, <1>1, <1>2, ExchangeType DEF Keeps, SlotTypeOK
<1>4. walk' = Done(walk) /\ call' = NotRunning /\ answer' = Answer("error", walk.gen, walk.page)
  BY DEF Fail
<1>5. PagesAreExact'
  BY <1>4 DEF PagesAreExact, Answer
<1>6. /\ cache' \in [valid : BOOLEAN, number : Numbers \cup {0}, left : Seq(Entries), eof : BOOLEAN]
      /\ cache'.left \in Seq(RealEntries)
  BY <1>0 DEF BrowseInv, BrowseTypes, BrowseTypeOK, BrowseSound
<1>7. \E status \in {"ok", "end", "error"} :
          answer' = Answer(status, walk.gen, walk.page) /\ status = "error"
  BY <1>4
<1> QED
  BY <1>0, <1>3, <1>4, <1>5, <1>6, <1>7, Ends

----------------------------------------------------------------------------
(* Pages that are complete                                                 *)

LEMMA PageAnswered ==
  ASSUME NEW w \in Walks, IsPage(w, Listed(told[w.gen])), told' = told, answer' = Page(w),
         walk'.region = w.region, walk'.more = w.more
  PROVE  PagesAreExact'
<1>1. answer'.gen = w.gen /\ answer'.page = w.page /\ answer'.status = Page(w).status
  BY DEF Page, Answer
<1>2. Listed(told'[w.gen]) = Listed(told[w.gen])
  OBVIOUS
<1> QED
  BY <1>1, <1>2 DEF PagesAreExact, IsPage

\* The page is full and an entry more is there: what follows in the directory does
\* not change the page.
LEMMA FullIsPage ==
  ASSUME NEW w \in Walks, NEW L \in Seq(Entries), NEW pos \in 0..Len(L), NEW t \in Seq(Entries),
         NEW rest \in Seq(Entries), t \o rest = Real(SubSeq(L, 1, pos)), Exact(w, L, t), w.more
  PROVE  IsPage(w, OfKinds(L, {"dir"}) \o OfKinds(L, {"file"}))
<1> DEFINE D == OfKinds(L, {"dir"})
           F == OfKinds(L, {"file"})
           d == OfKinds(t, {"dir"})
           f == OfKinds(t, {"file"})
<1>1. D \in Seq(Entries) /\ F \in Seq(Entries) /\ d \in Seq(Entries) /\ f \in Seq(Entries)
  BY OfKindsType
<1>2. Begins(d, D) /\ Begins(f, F)
  <2>1. ASSUME NEW kinds \in SUBSET {"dir", "file"}
        PROVE  Begins(OfKinds(t, kinds), OfKinds(L, kinds))
    BY PartOfDirectory, ZenonT(30)
  <2> QED
    BY <2>1
<1>3. Filled(w, Counted(w, L, t)) /\ Counted(w, L, t) \in Seq(Entries)
  BY CountedType DEF Exact
<1>4. Counted(w, L, t) = IF w.files THEN D \o f ELSE d
  BY DEF Counted
<1> HIDE DEF D, F, d, f
<1>5. Begins(Counted(w, L, t), D \o F)
  BY <1>1, <1>2, <1>4, BeginsMore, BeginsAfter
<1>6. D \o F \in Seq(Entries)
  BY <1>1, ConcatProperties
<1>7. Filled(w, D \o F)
  BY <1>3, <1>5, FullStays DEF Begins
<1> QED
  BY <1>6, <1>7, FilledIsPage DEF D, F

\* The directory of a walk.
LEMMA WalkDirectory ==
  ASSUME BrowseTypes, walk.active
  PROVE  LET g == told[walk.gen] IN
         /\ walk.gen \in 1..Len(told) /\ walk.gen = browse.gen /\ browse.open /\ ~browse.sd
         /\ g.src \in Hosts /\ g.src \in Sources /\ g.dir = browse.cwd
         /\ g.dir \in DOMAIN Listing[g.src] =>
                g.dir \in Dirs /\ Listing[g.src][g.dir] \in Seq(Entries)
<1> DEFINE g == told[walk.gen]
<1>1. walk.gen = browse.gen /\ browse.open /\ ~browse.sd /\ OpenGeneration
  BY DEF BrowseTypes, BrowseSound
<1>2. walk.gen \in 1..Len(told) /\ g.src \in Hosts /\ g.dir = <<>> \o browse.cwd
  BY <1>1 DEF OpenGeneration, Root
<1>3. browse.cwd \in Seq(Names)
  BY DEF BrowseTypes, BrowseTypeOK
<1>4. g.dir = browse.cwd
  BY <1>2, <1>3, ConcatEmptySeq
<1>5. g.src \in Sources
  BY <1>2 DEF Sources
<1> HIDE DEF g
<1>6. g.dir \in DOMAIN Listing[g.src] =>
          g.dir \in Dirs /\ Listing[g.src][g.dir] \in Seq(Entries)
  BY <1>5, ListingAssumption DEF Dirs
<1> QED
  BY <1>1, <1>2, <1>4, <1>5, <1>6 DEF g

\* Where an open walk is.
LEMMA OpenWalk ==
  ASSUME BrowseTypes, WalkExact, walk.active, walk.open, ~upset
  PROVE  LET g == told[walk.gen]
             L == Listing[g.src][g.dir]
         IN  /\ ~walk.more /\ g.dir \in DOMAIN Listing[g.src] /\ L \in Seq(Entries)
             /\ \E t \in Seq(Entries), pos \in 0..Len(L) :
                    /\ Exact(walk, L, t)
                    /\ t \o Left = Real(SubSeq(L, 1, pos))
                    /\ (cache.valid /\ cache.number = walk.number /\ cache.eof) => pos = Len(L)
                    /\ ~slot.taken => slot.dirs[walk.number] = [dir |-> g.dir, pos |-> pos]
<1> DEFINE g == told[walk.gen]
           L == Listing[g.src][g.dir]
<1>1. /\ ~walk.more /\ g.dir \in DOMAIN Listing[g.src]
      /\ \E t \in Seq(Entries) : Exact(walk, L, t) /\ Position(g, L, t)
  BY DEF WalkExact
<1>2. L \in Seq(Entries)
  BY <1>1, WalkDirectory
<1> HIDE DEF g, L
<1>3. \E t \in Seq(Entries), pos \in 0..Len(L) :
                    /\ Exact(walk, L, t)
                    /\ t \o Left = Real(SubSeq(L, 1, pos))
                    /\ (cache.valid /\ cache.number = walk.number /\ cache.eof) => pos = Len(L)
                    /\ ~slot.taken => slot.dirs[walk.number] = [dir |-> g.dir, pos |-> pos]
  BY <1>1 DEF Position
<1> QED
  BY <1>1, <1>2, <1>3 DEF g, L

----------------------------------------------------------------------------
(* The steps of GET_PAGE keep the invariant                                *)

Calls == [at : {"none", "first", "head", "read"}, rounds : 0..SkipRounds, retries : 0..DirRetries]
Caches == [valid : BOOLEAN, number : Numbers \cup {0}, left : Seq(Entries), eof : BOOLEAN]

\* What a GET_PAGE that runs finds.
LEMMA Running ==
  ASSUME BrowseInv, WalkInv, call.at # "none"
  PROVE  /\ BrowseTypes /\ SlotTypeOK /\ SlotSound(slot) /\ BrowseTypeOK /\ BrowseSound
         /\ OurServer /\ OurCache /\ WalkExact
         /\ walk.active /\ browse.open /\ ~browse.sd /\ walk \in Walks
         /\ cache \in Caches /\ call \in Calls /\ upset \in BOOLEAN /\ answer.status = "none"
BY DEF BrowseInv, BrowseTypes, PageInv, WalkInv, BrowseSound, BrowseTypeOK, Calls, Caches

\* A step after which the GET_PAGE goes on.
LEMMA GoesOn ==
  ASSUME BrowseTypes, OurServer, answer.status = "none", walk.active,
         SlotTypeOK', SlotSound(slot'), slot'.host = slot.host, slot'.taken = slot.taken,
         UNCHANGED <<browse, told, answer>>, walk' \in Walks, walk'.gen = walk.gen,
         walk'.open => walk'.number \in Numbers,
         cache' \in Caches, cache'.left \in Seq(RealEntries), call' \in Calls, upset' \in BOOLEAN,
         call'.at = "read" => walk'.open /\ cache'.valid /\ cache'.number = walk'.number,
         WalkExact'
  PROVE  BrowseInv'
<1> USE DEF BrowseTypes
<1>1. BrowseTypeOK'
  BY DEF BrowseTypeOK, Calls, Caches
<1>2. BrowseSound'
  BY DEF BrowseSound, OpenGeneration
<1>3. OurServer' /\ OurCache' /\ PagesAreExact'
  BY DEF OurServer, OurCache, PagesAreExact
<1> QED
  BY <1>1, <1>2, <1>3 DEF BrowseInv, PageInv

LEMMA OpenForWalkSound ==
  ASSUME BrowseInv, WalkInv, OpenForWalk
  PROVE  BrowseInv'
<1>1. PICK o \in OpenDir(slot, browse.cwd) :
           IF o.ok
           THEN /\ Exchange(o)
                /\ walk' = [walk EXCEPT !.open = TRUE, !.number = o.got]
                /\ cache' = NoCache
                /\ call' = [call EXCEPT !.at = "first"]
                /\ UNCHANGED answer
           ELSE Fail(o, walk) /\ UNCHANGED cache
  BY Zenon DEF OpenForWalk
<1>2. /\ call.at # "none" /\ ~walk.open /\ UNCHANGED <<events, browse, told>>
      /\ upset' = (upset \/ slot.taken)
  BY DEF OpenForWalk
<1>3. /\ BrowseTypes /\ SlotTypeOK /\ SlotSound(slot) /\ OurServer /\ WalkExact
      /\ walk.active /\ walk \in Walks /\ call \in Calls /\ upset \in BOOLEAN
      /\ answer.status = "none"
  BY <1>2, Running
<1>4. /\ Sound(o) /\ OpenStays(slot, o.slot)
      /\ o.ok => /\ o.got \in Numbers
                 /\ o.slot.dirs[o.got] = [dir |-> browse.cwd, pos |-> 0]
                 /\ slot.host \in Hosts /\ browse.cwd \in DOMAIN Listing[slot.host]
  BY <1>3, OpenDirSound
<1>5. Keeps(slot, o) /\ upset' \in BOOLEAN
  BY <1>2, <1>3, <1>4 DEF Keeps, OpenStays, SlotSound, Slots
<1>6. CASE ~o.ok
  BY <1>1, <1>2, <1>5, <1>6, FailSound
<1>7. CASE o.ok
  <2>1. /\ slot' = o.slot /\ SlotSound(slot') /\ SlotTypeOK'
        /\ slot'.host = slot.host /\ slot'.taken = slot.taken
    BY <1>1, <1>2, <1>3, <1>5, <1>7, ExchangeType DEF Keeps, SlotTypeOK
  <2>2. /\ walk' \in Walks /\ walk'.gen = walk.gen /\ walk'.open /\ walk'.number = o.got
        /\ walk'.active = walk.active /\ walk'.files = walk.files /\ walk'.more = walk.more
        /\ walk'.page = walk.page /\ walk'.region = walk.region /\ walk'.total = walk.total
        /\ walk'.matched = walk.matched
    BY <1>1, <1>3, <1>4, <1>7 DEF Walks
  <2>3. cache' \in Caches /\ cache'.left \in Seq(RealEntries) /\ ~cache'.valid
    <3>1. cache' = [valid |-> FALSE, number |-> 0, left |-> <<>>, eof |-> FALSE]
      BY <1>1, <1>7 DEF NoCache
    <3>2. <<>> \in Seq(Entries) /\ <<>> \in Seq(RealEntries)
      BY EmptySeq
    <3> QED
      BY <3>1, <3>2 DEF Caches
  <2>4. call' \in Calls /\ call'.at = "first"
    BY <1>1, <1>3, <1>7 DEF Calls
  <2>5. ASSUME ~upset'
        PROVE  LET g == told[walk.gen]
                   L == Listing[g.src][g.dir]
               IN  /\ ~walk'.more /\ g.dir \in DOMAIN Listing[g.src]
                   /\ <<>> \in Seq(Entries) /\ Exact(walk', L, <<>>) /\ Position(g, L, <<>>)'
    <3> DEFINE g == told[walk.gen]
               L == Listing[g.src][g.dir]
    <3>1. ~upset /\ ~slot.taken
      BY <1>2, <2>5
    <3>2. slot.host = g.src /\ g.dir = browse.cwd
      BY <1>3, <3>1, WalkDirectory DEF OurServer
    <3>3. g.dir \in DOMAIN Listing[g.src] /\ L \in Seq(Entries)
      BY <1>3, <1>4, <1>7, <3>2, WalkDirectory
    <3>4. ~walk.more /\ Exact(walk, L, <<>>)
      BY <1>2, <1>3, <3>1, Zenon DEF WalkExact, Position
    <3>5. told' = told /\ walk'.gen = walk.gen
      BY <1>2, <2>2
    <3> HIDE DEF g, L
    <3>6. Exact(walk', L, <<>>)
      BY <2>2, <3>4 DEF Exact, Filled, Counted, Before
    <3>7. Position(g, L, <<>>)'
      <4>1. Left' = <<>>
        BY <2>3 DEF Left
      <4>2. /\ Len(L) \in Nat /\ 0 \in 0..Len(L)
            /\ SubSeq(L, 1, 0) = <<>>
        BY <3>3, LenProperties, SubSeqEmpty
      <4>3. Real(<<>>) = <<>> /\ <<>> \o <<>> = <<>>
        BY OfKindsOfNone, EmptySeq, ConcatEmptySeq DEF Real
      <4>4. slot'.dirs[walk'.number] = [dir |-> g.dir, pos |-> 0]
        BY <1>4, <1>7, <2>1, <2>2, <3>2
      <4>5. L' = L /\ g' = g
        BY <3>5 DEF g, L
      <4> QED
        BY <2>2, <2>3, <4>1, <4>2, <4>3, <4>4, <4>5 DEF Position
    <3> QED
      BY <2>2, <3>3, <3>4, <3>6, <3>7, EmptySeq DEF g, L
  <2>6. WalkExact'
    BY <1>2, <2>2, <2>5 DEF WalkExact
  <2>7. UNCHANGED <<browse, told, answer>>
    BY <1>1, <1>2, <1>7
  <2> QED
    BY <1>3, <1>4, <1>5, <1>7, <2>1, <2>2, <2>3, <2>4, <2>6, <2>7, GoesOn
<1> QED
  BY <1>6, <1>7

LEMMA ReadingSound ==
  ASSUME BrowseInv, WalkInv, Read
  PROVE  BrowseInv'
<1>1. /\ call.at # "none" /\ walk.open
      /\ call' = [at |-> "read", rounds |-> SkipRounds, retries |-> DirRetries]
      /\ cache' = IF cache.valid /\ cache.number = walk.number THEN cache
                  ELSE [NoCache EXCEPT !.valid = TRUE, !.number = walk.number]
      /\ UNCHANGED <<slot, events, faults, browse, told, walk, upset, answer>>
  BY DEF Read
<1>2. /\ BrowseTypes /\ SlotTypeOK /\ SlotSound(slot) /\ OurServer /\ WalkExact
      /\ walk.active /\ walk \in Walks /\ cache \in Caches /\ upset \in BOOLEAN
      /\ answer.status = "none" /\ BrowseSound
  BY <1>1, Running
<1>3. call' \in Calls
  BY <1>1, BrowseAssumption DEF Calls
<1>4. walk.number \in Numbers
  BY <1>1, <1>2 DEF BrowseSound
<1>5. CASE cache.valid /\ cache.number = walk.number
  <2>1. cache' = cache
    BY <1>1, <1>5
  <2>2. WalkExact'
    BY <1>1, <1>2, <2>1 DEF WalkExact, Position, Left
  <2>3. cache' \in Caches /\ cache'.left \in Seq(RealEntries)
    BY <1>2, <2>1 DEF BrowseSound
  <2> QED
    BY <1>1, <1>2, <1>3, <1>4, <1>5, <2>1, <2>2, <2>3, GoesOn DEF SlotTypeOK
<1>6. CASE ~(cache.valid /\ cache.number = walk.number)
  <2>1. cache' = [valid |-> TRUE, number |-> walk.number, left |-> <<>>, eof |-> FALSE]
    BY <1>1, <1>6 DEF NoCache
  <2>2. cache' \in Caches /\ cache'.left \in Seq(RealEntries)
    BY <1>4, <2>1, EmptySeq DEF Caches
  <2>3. Left' = Left
    <3>1. Left = <<>>
      BY <1>6 DEF Left
    <3>2. cache'.left = <<>>
      BY <2>1
    <3>3. Left' = <<>>
      BY <3>2 DEF Left
    <3> QED
      BY <3>1, <3>3
  <2>4. ~cache'.eof
    BY <2>1
  <2>5. WalkExact'
    BY <1>1, <1>2, <1>6, <2>3, <2>4 DEF WalkExact, Position
  <2> QED
    BY <1>1, <1>2, <1>3, <1>4, <2>1, <2>2, <2>5, GoesOn DEF SlotTypeOK
<1> QED
  BY <1>5, <1>6

LEMMA CacheSound ==
  ASSUME BrowseInv
  PROVE  cache \in Caches /\ cache.left \in Seq(RealEntries) /\ cache.left \in Seq(Entries)
BY DEF BrowseInv, BrowseTypes, BrowseTypeOK, BrowseSound, Caches

\* The directory of a walk, as the page is made of it.
LEMMA ListedDirectory ==
  ASSUME NEW t
  PROVE  Listed(t) = OfKinds(Listing[t.src][t.dir], {"dir"})
                         \o OfKinds(Listing[t.src][t.dir], {"file"})
BY DEF Listed

LEMMA ServeSound ==
  ASSUME BrowseInv, WalkInv, Serve
  PROVE  BrowseInv'
<1> DEFINE e == Head(cache.left)
           w == Take(walk, e)
<1>1. /\ call.at = "read" /\ call.at # "none" /\ cache.left # <<>>
      /\ cache' = [cache EXCEPT !.left = Tail(@)]
      /\ UNCHANGED <<events, browse, told, upset>>
  BY DEF Serve
<1>2. \/ /\ w.more
         /\ \E c \in CloseDir(slot, w.number) : Exchange(c)
         /\ walk' = Done(w) /\ call' = NotRunning /\ answer' = Page(w)
      \/ /\ ~w.more
         /\ walk' = w /\ call' = [NotRunning EXCEPT !.at = "head"]
         /\ UNCHANGED <<slot, faults, answer>>
  BY DEF Serve
<1>3. /\ BrowseTypes /\ SlotTypeOK /\ SlotSound(slot) /\ OurServer /\ WalkExact
      /\ walk.active /\ walk \in Walks /\ cache \in Caches /\ upset \in BOOLEAN
      /\ answer.status = "none" /\ BrowseSound /\ OurCache
  BY <1>1, Running
<1>4. /\ walk.open /\ walk.number \in Numbers /\ cache.valid /\ cache.number = walk.number
      /\ cache.left \in Seq(RealEntries)
  BY <1>1, <1>3 DEF BrowseSound, OurCache
<1>5. /\ e \in RealEntries /\ e \in Entries /\ Tail(cache.left) \in Seq(RealEntries)
      /\ Tail(cache.left) \in Seq(Entries) /\ cache.left = <<e>> \o Tail(cache.left)
  <2>1. e \in RealEntries /\ Tail(cache.left) \in Seq(RealEntries)
        /\ cache.left = <<e>> \o Tail(cache.left)
    BY <1>1, <1>4, HeadTailProperties, ConcatProperties
  <2>2. RealEntries \subseteq Entries
    BY DEF RealEntries
  <2> QED
    BY <2>1, <2>2, SeqMonotonic
<1>6. /\ w \in Walks /\ w.open = walk.open /\ w.number = walk.number /\ w.active = walk.active
      /\ w.page = walk.page /\ w.gen = walk.gen
  BY <1>3, <1>5, TakeType, TakeSame, TakeLeaves, ZenonT(60)
<1>7. /\ cache' \in Caches /\ cache'.left = Tail(cache.left)
      /\ cache'.valid = cache.valid /\ cache'.number = cache.number /\ cache'.eof = cache.eof
  BY <1>1, <1>3, <1>5 DEF Caches
<1>8. ~upset =>
          LET g == told[walk.gen]
              L == Listing[g.src][g.dir]
          IN  /\ ~walk.more /\ g.dir \in DOMAIN Listing[g.src] /\ L \in Seq(Entries)
              /\ \E t \in Seq(Entries), pos \in 0..Len(L) :
                    /\ Exact(w, L, t)
                    /\ t \o Tail(cache.left) = Real(SubSeq(L, 1, pos))
                    /\ cache.eof => pos = Len(L)
                    /\ ~slot.taken => slot.dirs[walk.number] = [dir |-> g.dir, pos |-> pos]
  <2> SUFFICES ASSUME ~upset
               PROVE  LET g == told[walk.gen]
                          L == Listing[g.src][g.dir]
                      IN  /\ ~walk.more /\ g.dir \in DOMAIN Listing[g.src] /\ L \in Seq(Entries)
                          /\ \E t \in Seq(Entries), pos \in 0..Len(L) :
                                /\ Exact(w, L, t)
                                /\ t \o Tail(cache.left) = Real(SubSeq(L, 1, pos))
                                /\ cache.eof => pos = Len(L)
                                /\ ~slot.taken =>
                                       slot.dirs[walk.number] = [dir |-> g.dir, pos |-> pos]
    OBVIOUS
  <2> DEFINE g == told[walk.gen]
             L == Listing[g.src][g.dir]
  <2>1. /\ ~walk.more /\ g.dir \in DOMAIN Listing[g.src] /\ L \in Seq(Entries)
        /\ \E t \in Seq(Entries), pos \in 0..Len(L) :
               /\ Exact(walk, L, t)
               /\ t \o Left = Real(SubSeq(L, 1, pos))
               /\ (cache.valid /\ cache.number = walk.number /\ cache.eof) => pos = Len(L)
               /\ ~slot.taken => slot.dirs[walk.number] = [dir |-> g.dir, pos |-> pos]
    BY <1>3, <1>4, OpenWalk
  <2> HIDE DEF g, L, e, w
  <2>2. PICK t \in Seq(Entries), pos \in 0..Len(L) :
               /\ Exact(walk, L, t)
               /\ t \o Left = Real(SubSeq(L, 1, pos))
               /\ (cache.valid /\ cache.number = walk.number /\ cache.eof) => pos = Len(L)
               /\ ~slot.taken => slot.dirs[walk.number] = [dir |-> g.dir, pos |-> pos]
    BY <2>1
  <2>3. Left = cache.left
    BY <1>4 DEF Left
  <2>4. Exact(w, L, Append(t, e)) /\ Append(t, e) \in Seq(Entries)
    BY <1>3, <1>5, <2>1, <2>2, TakeExact, AppendProperties DEF w
  <2>5. Append(t, e) \o Tail(cache.left) = t \o cache.left
    <3>1. <<e>> \in Seq(Entries)
      BY <1>5
    <3>2. Append(t, e) = t \o <<e>>
      BY <1>5, AppendIsConcat
    <3>3. (t \o <<e>>) \o Tail(cache.left) = t \o (<<e>> \o Tail(cache.left))
      BY <1>5, <3>1, Associative
    <3> QED
      BY <1>5, <3>2, <3>3
  <2>6. Append(t, e) \o Tail(cache.left) = Real(SubSeq(L, 1, pos))
    BY <2>2, <2>3, <2>5
  <2>7. cache.eof => pos = Len(L)
    BY <1>4, <2>2
  <2>8. \E u \in Seq(Entries), q \in 0..Len(L) :
               /\ Exact(w, L, u)
               /\ u \o Tail(cache.left) = Real(SubSeq(L, 1, q))
               /\ cache.eof => q = Len(L)
               /\ ~slot.taken => slot.dirs[walk.number] = [dir |-> g.dir, pos |-> q]
    BY <2>2, <2>4, <2>6, <2>7
  <2> QED
    BY <2>1, <2>8 DEF g, L, w
<1> HIDE DEF w, e
<1>9. CASE /\ w.more
           /\ \E c \in CloseDir(slot, w.number) : Exchange(c)
           /\ walk' = Done(w) /\ call' = NotRunning /\ answer' = Page(w)
  <2>1. PICK c \in CloseDir(slot, w.number) : Exchange(c)
    BY <1>9
  <2>2. Sound(c) /\ c.slot.host = slot.host /\ c.slot.taken = slot.taken
    BY <1>3, <2>1, CloseDirSound
  <2>3. /\ SlotTypeOK' /\ SlotSound(slot')
        /\ slot'.host = slot.host /\ slot'.taken = slot.taken
    BY <1>1, <1>3, <2>1, <2>2, ExchangeType DEF SlotTypeOK
  <2>4. w.gen \in 1..Len(told)
    BY <1>3, <1>6, WalkDirectory
  <2>5. walk'.region = w.region /\ walk'.more = w.more
    BY <1>6, <1>9 DEF Done, Walks
  <2>6. PagesAreExact'
    <3>1. CASE upset
      BY <1>1, <3>1 DEF PagesAreExact
    <3>2. CASE ~upset
      <4> DEFINE g == told[walk.gen]
                 L == Listing[g.src][g.dir]
      <4>1. /\ L \in Seq(Entries)
            /\ \E t \in Seq(Entries), pos \in 0..Len(L) :
                  Exact(w, L, t) /\ t \o Tail(cache.left) = Real(SubSeq(L, 1, pos))
        BY <1>8, <3>2, Zenon
      <4> HIDE DEF L
      <4>2. PICK t \in Seq(Entries), pos \in 0..Len(L) :
                  Exact(w, L, t) /\ t \o Tail(cache.left) = Real(SubSeq(L, 1, pos))
        BY <4>1
      <4>3. IsPage(w, OfKinds(L, {"dir"}) \o OfKinds(L, {"file"}))
        BY <1>5, <1>6, <1>9, <4>1, <4>2, FullIsPage
      <4>4. IsPage(w, Listed(told[w.gen]))
        BY <1>6, <4>3, ListedDirectory DEF L
      <4> QED
        BY <1>1, <1>6, <1>9, <2>5, <4>4, PageAnswered
    <3> QED
      BY <3>1, <3>2
  <2>7. \E status \in {"ok", "end", "error"} : answer' = Answer(status, w.gen, w.page)
    BY <1>9 DEF Page
  <2>8. cache'.left \in Seq(RealEntries)
    BY <1>5, <1>7
  <2> QED
    BY <1>1, <1>3, <1>6, <1>7, <1>9, <2>3, <2>4, <2>6, <2>7, <2>8, Ends DEF Caches
<1>10. CASE /\ ~w.more
            /\ walk' = w /\ call' = [NotRunning EXCEPT !.at = "head"]
            /\ UNCHANGED <<slot, faults, answer>>
  <2>1. call' \in Calls /\ call'.at = "head"
    BY <1>10, BrowseAssumption DEF NotRunning, Calls
  <2>2. SlotTypeOK' /\ SlotSound(slot')
    BY <1>1, <1>3, <1>10 DEF SlotTypeOK
  <2>3. WalkExact'
    <3> SUFFICES ASSUME ~upset
                 PROVE  WalkExact'
      BY <1>1 DEF WalkExact
    <3> DEFINE g == told[walk.gen]
               L == Listing[g.src][g.dir]
    <3>1. /\ g.dir \in DOMAIN Listing[g.src]
          /\ \E t \in Seq(Entries), pos \in 0..Len(L) :
                    /\ Exact(w, L, t)
                    /\ t \o Tail(cache.left) = Real(SubSeq(L, 1, pos))
                    /\ cache.eof => pos = Len(L)
                    /\ ~slot.taken => slot.dirs[walk.number] = [dir |-> g.dir, pos |-> pos]
      BY <1>8
    <3>2. Left' = Tail(cache.left)
      BY <1>4, <1>6, <1>7, <1>10 DEF Left
    <3>3. g' = g /\ L' = L
      BY <1>1, <1>6, <1>10
    <3> HIDE DEF g, L
    <3>4. PICK t \in Seq(Entries), pos \in 0..Len(L) :
                    /\ Exact(w, L, t)
                    /\ t \o Tail(cache.left) = Real(SubSeq(L, 1, pos))
                    /\ cache.eof => pos = Len(L)
                    /\ ~slot.taken => slot.dirs[walk.number] = [dir |-> g.dir, pos |-> pos]
      BY <3>1
    <3>5. Position(g, L, t)'
      BY <1>4, <1>6, <1>7, <1>10, <3>2, <3>3, <3>4 DEF Position
    <3>6. Exact(walk, L, t)'
      BY <1>10, <3>3, <3>4
    <3>7. walk'.gen = walk.gen /\ ~walk'.more
      BY <1>6, <1>10
    <3> QED
      BY <1>1, <3>1, <3>3, <3>5, <3>6, <3>7, Zenon DEF WalkExact, g, L
  <2>4. cache'.left \in Seq(RealEntries)
    BY <1>5, <1>7
  <2> QED
    BY <1>1, <1>3, <1>4, <1>6, <1>7, <1>10, <2>1, <2>2, <2>3, <2>4, GoesOn
<1> QED
  BY <1>2, <1>9, <1>10

\* An open walk that has read all of its directory.
LEMMA AllRead ==
  ASSUME NEW L \in Seq(Entries), NEW t \in Seq(Entries), NEW pos \in 0..Len(L),
         t \o <<>> = Real(SubSeq(L, 1, pos)), pos = Len(L)
  PROVE  /\ OfKinds(t, {"dir"}) = OfKinds(L, {"dir"})
         /\ OfKinds(t, {"file"}) = OfKinds(L, {"file"})
<1> DEFINE none == <<>>
<1>1. none \in Seq(Entries)
  BY EmptySeq
<1>2. t \o none = Real(SubSeq(L, 1, pos))
  OBVIOUS
<1> HIDE DEF none
<1>3. ASSUME NEW kinds \in SUBSET {"dir", "file"}
      PROVE  (none = <<>> /\ pos = Len(L)) => OfKinds(t, kinds) = OfKinds(L, kinds)
  BY <1>1, <1>2, PartOfDirectory, ZenonT(30)
<1> QED
  BY <1>3 DEF none

LEMMA EndOfDirectorySound ==
  ASSUME BrowseInv, WalkInv, EndOfDirectory
  PROVE  BrowseInv'
<1>1. /\ call.at = "read" /\ call.at # "none"
      /\ call.rounds = 0 \/ (cache.left = <<>> /\ cache.eof)
      /\ UNCHANGED <<events, browse, told, cache>>
      /\ upset' = (upset \/ call.rounds = 0)
  BY DEF EndOfDirectory
<1>2. \/ /\ walk.files /\ walk' = Done(walk) /\ call' = NotRunning /\ answer' = Page(walk)
      \/ /\ ~walk.files /\ walk' = FilesPhase(walk)
         /\ call' = [NotRunning EXCEPT !.at = "head"] /\ UNCHANGED answer
  BY DEF EndOfDirectory
<1>3. /\ BrowseTypes /\ SlotTypeOK /\ SlotSound(slot) /\ OurServer /\ WalkExact
      /\ walk.active /\ walk \in Walks /\ cache \in Caches /\ upset \in BOOLEAN
      /\ answer.status = "none" /\ BrowseSound /\ OurCache
  BY <1>1, Running
<1>4. /\ walk.open /\ walk.number \in Numbers /\ cache.valid /\ cache.number = walk.number
      /\ cache.left \in Seq(RealEntries) /\ walk.gen \in 1..Len(told)
  BY <1>1, <1>3, WalkDirectory DEF BrowseSound, OurCache
<1>5. PICK c \in CloseDir(slot, walk.number) : Exchange(c)
  BY DEF EndOfDirectory
<1>6. Sound(c) /\ c.slot.host = slot.host /\ c.slot.taken = slot.taken
  BY <1>3, CloseDirSound
<1>7. /\ SlotTypeOK' /\ SlotSound(slot')
      /\ slot'.host = slot.host /\ slot'.taken = slot.taken
  BY <1>1, <1>3, <1>5, <1>6, ExchangeType DEF SlotTypeOK
<1>8. cache' \in Caches /\ cache'.left \in Seq(RealEntries) /\ upset' \in BOOLEAN
  BY <1>1, <1>3, <1>4
<1>9. ASSUME ~upset'
      PROVE  LET g == told[walk.gen]
                 L == Listing[g.src][g.dir]
             IN  /\ ~walk.more /\ g.dir \in DOMAIN Listing[g.src] /\ L \in Seq(Entries)
                 /\ \E t \in Seq(Entries) :
                        /\ Exact(walk, L, t)
                        /\ OfKinds(t, {"dir"}) = OfKinds(L, {"dir"})
                        /\ OfKinds(t, {"file"}) = OfKinds(L, {"file"})
  <2> DEFINE g == told[walk.gen]
             L == Listing[g.src][g.dir]
  <2>0. ~upset /\ cache.left = <<>> /\ cache.eof
    BY <1>1, <1>9
  <2>1. /\ ~walk.more /\ g.dir \in DOMAIN Listing[g.src] /\ L \in Seq(Entries)
        /\ \E t \in Seq(Entries), pos \in 0..Len(L) :
               /\ Exact(walk, L, t)
               /\ t \o Left = Real(SubSeq(L, 1, pos))
               /\ (cache.valid /\ cache.number = walk.number /\ cache.eof) => pos = Len(L)
    BY <1>3, <1>4, <2>0, OpenWalk, Zenon
  <2> HIDE DEF g, L
  <2>2. PICK t \in Seq(Entries), pos \in 0..Len(L) :
               /\ Exact(walk, L, t)
               /\ t \o Left = Real(SubSeq(L, 1, pos))
               /\ (cache.valid /\ cache.number = walk.number /\ cache.eof) => pos = Len(L)
    BY <2>1
  <2>3. t \o <<>> = Real(SubSeq(L, 1, pos)) /\ pos = Len(L)
    BY <1>4, <2>0, <2>2 DEF Left
  <2>4. /\ OfKinds(t, {"dir"}) = OfKinds(L, {"dir"})
        /\ OfKinds(t, {"file"}) = OfKinds(L, {"file"})
    BY <2>1, <2>2, <2>3, AllRead
  <2> QED
    BY <2>1, <2>2, <2>4 DEF g, L
<1>10. CASE walk.files /\ walk' = Done(walk) /\ call' = NotRunning /\ answer' = Page(walk)
  <2>1. walk'.region = walk.region /\ walk'.more = walk.more
    BY <1>3, <1>10 DEF Done, Walks
  <2>2. PagesAreExact'
    <3>1. CASE upset'
      BY <3>1 DEF PagesAreExact
    <3>2. CASE ~upset'
      <4> DEFINE g == told[walk.gen]
                 L == Listing[g.src][g.dir]
      <4>1. /\ L \in Seq(Entries)
            /\ \E t \in Seq(Entries) : Exact(walk, L, t) /\ OfKinds(t, {"file"}) = OfKinds(L, {"file"})
        BY <1>9, <3>2
      <4> HIDE DEF L
      <4>2. PICK t \in Seq(Entries) : Exact(walk, L, t) /\ OfKinds(t, {"file"}) = OfKinds(L, {"file"})
        BY <4>1
      <4> DEFINE all == OfKinds(L, {"dir"}) \o OfKinds(L, {"file"})
      <4>3. Filled(walk, all) /\ all \in Seq(Entries)
        <5>1. Filled(walk, Counted(walk, L, t)) /\ Counted(walk, L, t) \in Seq(Entries)
          BY <4>1, <4>2, CountedType DEF Exact
        <5>2. Counted(walk, L, t) = all
          BY <1>10, <4>2 DEF Counted
        <5> QED
          BY <5>1, <5>2
      <4> HIDE DEF all
      <4>4. IsPage(walk, all)
        BY <1>3, <4>3, FilledIsPage
      <4>5. IsPage(walk, Listed(told[walk.gen]))
        BY <4>4, ListedDirectory DEF L, all
      <4> QED
        BY <1>1, <1>3, <1>10, <2>1, <4>5, PageAnswered
    <3> QED
      BY <3>1, <3>2
  <2>3. \E status \in {"ok", "end", "error"} : answer' = Answer(status, walk.gen, walk.page)
    BY <1>10 DEF Page
  <2> QED
    BY <1>1, <1>3, <1>4, <1>7, <1>8, <1>10, <2>2, <2>3, Ends DEF Caches
<1>11. CASE /\ ~walk.files /\ walk' = FilesPhase(walk)
            /\ call' = [NotRunning EXCEPT !.at = "head"] /\ UNCHANGED answer
  <2>1. call' \in Calls /\ call'.at = "head"
    BY <1>11, BrowseAssumption DEF NotRunning, Calls
  <2>2. /\ walk' \in Walks /\ walk'.gen = walk.gen /\ ~walk'.open /\ walk'.active = walk.active
        /\ walk'.more = walk.more
    BY <1>3, <1>11, WalkTypes DEF FilesPhase, Walks
  <2>3. WalkExact'
    <3> SUFFICES ASSUME ~upset'
                 PROVE  WalkExact'
      BY DEF WalkExact
    <3> DEFINE g == told[walk.gen]
               L == Listing[g.src][g.dir]
               none == <<>>
    <3>1. /\ ~walk.more /\ g.dir \in DOMAIN Listing[g.src] /\ L \in Seq(Entries)
          /\ \E t \in Seq(Entries) : Exact(walk, L, t) /\ OfKinds(t, {"dir"}) = OfKinds(L, {"dir"})
      BY <1>9
    <3>2. g' = g /\ L' = L
      BY <1>1, <2>2
    <3>3. none \in Seq(Entries)
      BY EmptySeq
    <3> HIDE DEF g, L
    <3>4. Exact(walk', L, none)
      BY <1>3, <1>11, <3>1, FilesPhaseExact
    <3>5. Position(g, L, none)'
      BY <2>2 DEF Position
    <3>6. ~walk'.more
      BY <2>2, <3>1
    <3>7. Exact(walk, L, none)'
      BY <3>2, <3>4
    <3> HIDE DEF none
    <3>8. \E t \in Seq(Entries) : Exact(walk, L, t)' /\ Position(g, L, t)'
      BY <3>3, <3>5, <3>7
    <3> QED
      BY <1>1, <2>2, <3>1, <3>2, <3>6, <3>8, Zenon DEF WalkExact, g, L
  <2> QED
    BY <1>1, <1>3, <1>7, <1>8, <1>11, <2>1, <2>2, <2>3, GoesOn
<1> QED
  BY <1>2, <1>10, <1>11

\* A batch of whatever directory the number is of.
LEMMA AdvancedSound ==
  ASSUME SlotSound(slot), NEW n \in Numbers, slot.dirs[n] # Nothing
  PROVE  LET k == Lesser(Batch, Len(Rest(n))) IN
         /\ SlotSound(Advanced(n)) /\ Advanced(n).host = slot.host
         /\ Advanced(n).taken = slot.taken
         /\ Advanced(n).dirs[n] = [dir |-> slot.dirs[n].dir, pos |-> slot.dirs[n].pos + k]
         /\ Real(SubSeq(Rest(n), 1, k)) \in Seq(RealEntries)
<1> DEFINE at == slot.dirs[n]
           L == Listing[slot.host][at.dir]
           R == SubSeq(L, at.pos + 1, Len(L))
           k == Lesser(Batch, Len(R))
           next == [dir |-> at.dir, pos |-> at.pos + k]
<1>1. /\ at \in [dir : Dirs, pos : Nat] /\ slot.mounted /\ slot.host \in Hosts
      /\ at.dir \in DOMAIN Listing[slot.host]
  BY DEF SlotSound, Slots, Positions
<1>2. L \in Seq(Entries)
  BY <1>1, ListingAssumption DEF Sources
<1>3. R = Rest(n)
  BY DEF Rest
<1> HIDE DEF L
<1>4. R \in Seq(Entries)
  <2>1. Len(L) \in Nat /\ \A i \in 1..Len(L) : L[i] \in Entries
    BY <1>2, LenProperties, ElementOfSeq
  <2>2. at.pos \in Nat
    BY <1>1
  <2>3. \A i \in (at.pos + 1)..Len(L) : L[i] \in Entries
    BY <2>1, <2>2
  <2> QED
    BY <2>1, <2>2, <2>3, SubSeqProperties
<1> HIDE DEF R
<1>5. k \in Nat /\ k <= Len(R)
  BY <1>4, LenProperties, BrowseAssumption, LesserType
<1>6. Real(SubSeq(R, 1, k)) \in Seq(RealEntries)
  <2>1. \A i \in 1..k : R[i] \in Entries
    BY <1>4, <1>5, LenProperties, ElementOfSeq
  <2>2. SubSeq(R, 1, k) \in Seq(Entries)
    BY <1>5, <2>1, SubSeqProperties
  <2>3. {x \in Entries : x.kind \in {"dir", "file"}} = RealEntries
    BY DEF Entries, RealEntries
  <2> QED
    BY <2>2, <2>3, OfKindsAmong DEF Real
<1> HIDE DEF k
<1>7. next \in [dir : Dirs, pos : Nat] /\ next \in Positions
  BY <1>1, <1>5 DEF Positions
<1>8. Advanced(n) = [slot EXCEPT !.dirs[n] = next]
  BY <1>1, <1>3 DEF Advanced, SlotSound, Slots, k
<1> DEFINE t == [slot EXCEPT !.dirs[n] = next]
<1>9. next.dir = at.dir /\ slot \in Slots
  BY DEF SlotSound
<1> HIDE DEF next
<1>10. /\ t \in Slots /\ t.host = slot.host /\ t.mounted = slot.mounted /\ t.taken = slot.taken
       /\ \A m \in Numbers : t.dirs[m] = IF m = n THEN next ELSE slot.dirs[m]
  BY <1>7, <1>9 DEF Slots
<1> HIDE DEF t
<1>11. SlotSound(t)
  BY <1>1, <1>9, <1>10 DEF SlotSound
<1> QED
  BY <1>3, <1>6, <1>8, <1>10, <1>11 DEF t, k, next

LEMMA FetchSound ==
  ASSUME BrowseInv, WalkInv, Fetch
  PROVE  BrowseInv'
<1> DEFINE n == walk.number
           k == Lesser(Batch, Len(Rest(n)))
<1>1. /\ call.at = "read" /\ call.at # "none" /\ call.rounds > 0 /\ cache.left = <<>>
      /\ slot.dirs[n] # Nothing /\ slot' = Advanced(n)
      /\ call' = [call EXCEPT !.rounds = @ - 1]
      /\ upset' = (upset \/ slot.taken)
      /\ UNCHANGED <<events, faults, browse, told, walk, answer>>
  BY DEF Fetch, Fetching
<1>2. PICK eof \in {Rest(n) = <<>>, Len(Rest(n)) <= Batch} :
           cache' = [cache EXCEPT !.left = Real(SubSeq(Rest(n), 1, k)), !.eof = eof]
  BY Zenon DEF Fetch
<1>3. /\ BrowseTypes /\ SlotTypeOK /\ SlotSound(slot) /\ OurServer /\ WalkExact
      /\ walk.active /\ walk \in Walks /\ cache \in Caches /\ call \in Calls /\ upset \in BOOLEAN
      /\ answer.status = "none" /\ BrowseSound /\ OurCache
  BY <1>1, Running
<1>4. walk.open /\ n \in Numbers /\ cache.valid /\ cache.number = n
  BY <1>1, <1>3 DEF BrowseSound, OurCache
<1>5. /\ SlotSound(slot') /\ slot'.host = slot.host /\ slot'.taken = slot.taken
      /\ slot'.dirs[n] = [dir |-> slot.dirs[n].dir, pos |-> slot.dirs[n].pos + k]
      /\ Real(SubSeq(Rest(n), 1, k)) \in Seq(RealEntries)
  BY <1>1, <1>3, <1>4, AdvancedSound
<1>6. SlotTypeOK'
  BY <1>1, <1>3, <1>5 DEF SlotTypeOK, SlotSound
<1>7. /\ cache' \in Caches /\ cache'.left = Real(SubSeq(Rest(n), 1, k)) /\ cache'.eof = eof
      /\ cache'.valid /\ cache'.number = n /\ cache'.left \in Seq(RealEntries)
  <2> DEFINE batch == Real(SubSeq(Rest(n), 1, k))
  <2>1. batch \in Seq(RealEntries) /\ batch \in Seq(Entries)
    <3>1. RealEntries \subseteq Entries
      BY DEF RealEntries
    <3> QED
      BY <1>5, <3>1, SeqMonotonic
  <2>2. eof \in BOOLEAN
    <3>1. eof = (Rest(n) = <<>>) \/ eof = (Len(Rest(n)) <= Batch)
      BY <1>2, Zenon
    <3> DEFINE r == Rest(n)
               none == r = <<>>
               few == Len(r) <= Batch
    <3>2. none \in BOOLEAN /\ few \in BOOLEAN
      OBVIOUS
    <3>3. eof = none \/ eof = few
      BY <3>1
    <3> HIDE DEF none, few
    <3> QED
      BY <3>2, <3>3
  <2> HIDE DEF batch
  <2>3. cache' = [cache EXCEPT !.left = batch, !.eof = eof]
    BY <1>2 DEF batch
  <2>4. /\ cache' \in Caches /\ cache'.left = batch /\ cache'.eof = eof
        /\ cache'.valid = cache.valid /\ cache'.number = cache.number
    BY <1>3, <2>1, <2>2, <2>3 DEF Caches
  <2> QED
    BY <1>4, <2>1, <2>4 DEF batch
<1>8. call' \in Calls /\ call'.at = "read"
  <2>1. call.rounds \in 0..SkipRounds /\ SkipRounds \in Nat
    BY <1>3, BrowseAssumption DEF Calls
  <2>2. call.rounds - 1 \in 0..SkipRounds
    BY <1>1, <2>1
  <2> QED
    BY <1>1, <1>3, <2>2 DEF Calls
<1>9. WalkExact'
  <2> SUFFICES ASSUME ~upset'
               PROVE  WalkExact'
    BY DEF WalkExact
  <2> DEFINE g == told[walk.gen]
             L == Listing[g.src][g.dir]
  <2>1. ~upset /\ ~slot.taken
    BY <1>1
  <2>2. slot.host = g.src
    BY <1>3, <2>1, WalkDirectory DEF OurServer
  <2>3. /\ ~walk.more /\ g.dir \in DOMAIN Listing[g.src] /\ L \in Seq(Entries)
        /\ \E t \in Seq(Entries), pos \in 0..Len(L) :
               /\ Exact(walk, L, t)
               /\ t \o Left = Real(SubSeq(L, 1, pos))
               /\ (cache.valid /\ cache.number = walk.number /\ cache.eof) => pos = Len(L)
               /\ ~slot.taken => slot.dirs[walk.number] = [dir |-> g.dir, pos |-> pos]
    BY <1>3, <1>4, <2>1, OpenWalk
  <2>4. PICK t \in Seq(Entries), pos \in 0..Len(L) :
               /\ Exact(walk, L, t)
               /\ t \o Left = Real(SubSeq(L, 1, pos))
               /\ slot.dirs[n] = [dir |-> g.dir, pos |-> pos]
    BY <2>1, <2>3
  <2>5. Rest(n) = SubSeq(L, pos + 1, Len(L))
    <3> DEFINE at == [dir |-> g.dir, pos |-> pos]
    <3>1. at.dir = g.dir /\ at.pos = pos
      OBVIOUS
    <3>2. slot.dirs[n] = at
      BY <2>4
    <3> HIDE DEF at
    <3>3. slot.dirs[n].dir = g.dir /\ slot.dirs[n].pos = pos
      BY <3>1, <3>2
    <3> QED
      BY <2>2, <3>3 DEF Rest
  <2>6. g' = g /\ L' = L
    BY <1>1
  <2> HIDE DEF L
  <2>7. /\ pos + k \in 0..Len(L)
        /\ Real(SubSeq(L, 1, pos)) \o Real(SubSeq(Rest(n), 1, k)) = Real(SubSeq(L, 1, pos + k))
        /\ (Rest(n) = <<>> \/ Len(Rest(n)) <= Batch) => pos + k = Len(L)
    <3> DEFINE R == SubSeq(L, pos + 1, Len(L))
               m == Lesser(Batch, Len(R))
    <3>1. L \in Seq(Entries) /\ pos \in 0..Len(L)
      BY <2>3, <2>4
    <3>2. /\ pos + m \in 0..Len(L)
          /\ Real(SubSeq(L, 1, pos)) \o Real(SubSeq(R, 1, m)) = Real(SubSeq(L, 1, pos + m))
          /\ (R = <<>> \/ Len(R) <= Batch) => pos + m = Len(L)
      BY <3>1, NextBatch
    <3>3. R = Rest(n)
      BY <2>5
    <3> HIDE DEF R
    <3>4. m = k
      BY <3>3
    <3> HIDE DEF m, k
    <3> QED
      BY <3>2, <3>3, <3>4
  <2>8. t = Real(SubSeq(L, 1, pos))
    <3>1. Left = <<>>
      BY <1>1 DEF Left
    <3> QED
      BY <2>4, <3>1, ConcatEmptySeq
  <2> HIDE DEF g, k
  <2>9. Left' = Real(SubSeq(Rest(n), 1, k))
    BY <1>1, <1>7 DEF Left
  <2>10. t \o Left' = Real(SubSeq(L, 1, pos + k))
    BY <2>7, <2>8, <2>9
  <2>11. eof => pos + k = Len(L)
    BY <1>2, <2>7
  <2>12. slot'.dirs[n] = [dir |-> g.dir, pos |-> pos + k]
    BY <1>5, <2>4
  <2>13. Position(g, L, t)'
    <3>1. pos + k \in 0..Len(L')
      BY <2>6, <2>7
    <3> QED
      BY <1>1, <1>4, <1>7, <2>6, <2>10, <2>11, <2>12, <3>1 DEF Position
  <2>14. Exact(walk, L, t)'
    BY <1>1, <2>4, <2>6
  <2>15. \E u \in Seq(Entries) : Exact(walk, L, u)' /\ Position(g, L, u)'
    BY <2>4, <2>13, <2>14
  <2> QED
    BY <1>1, <2>3, <2>6, <2>15, Zenon DEF WalkExact, g, L
<1>10. upset' \in BOOLEAN
  BY <1>1, <1>3 DEF SlotSound, Slots
<1> QED
  BY <1>1, <1>3, <1>4, <1>5, <1>6, <1>7, <1>8, <1>9, <1>10, GoesOn

LEMMA FetchRefusedSound ==
  ASSUME BrowseInv, WalkInv, FetchRefused
  PROVE  BrowseInv'
<1> DEFINE o == Outcome(slot, FALSE, Nothing, 0)
<1>1. call.at # "none" /\ Fail(o, walk) /\ UNCHANGED <<events, browse, told, cache, upset>>
  BY DEF FetchRefused, Fetching
<1>2. SlotSound(slot) /\ upset \in BOOLEAN
  BY <1>1, Running
<1>3. Keeps(slot, o)
  BY <1>2, OutcomeSound DEF Keeps, Outcome
<1> HIDE DEF o
<1> QED
  BY <1>1, <1>2, <1>3, FailSound

LEMMA FetchLostSound ==
  ASSUME BrowseInv, WalkInv, FetchLost
  PROVE  BrowseInv'
<1>1. call.at = "read" /\ call.at # "none" /\ call.rounds > 0 /\ UNCHANGED <<events, browse, told, cache>>
  BY DEF FetchLost, Fetching
<1>2. PICK heard \in BOOLEAN :
           LET s == IF heard /\ slot.dirs[walk.number] # Nothing
                    THEN Advanced(walk.number) ELSE slot
               o == Outcome(s, FALSE, Nothing, 1)
           IN  /\ IF call.retries > 0
                  THEN /\ Exchange(o)
                       /\ call' = [call EXCEPT !.rounds = @ - 1, !.retries = @ - 1]
                       /\ UNCHANGED <<walk, answer>>
                  ELSE Fail(o, walk)
               /\ upset' = (upset \/ heard)
  BY Zenon DEF FetchLost
<1> DEFINE s == IF heard /\ slot.dirs[walk.number] # Nothing
                THEN Advanced(walk.number) ELSE slot
           o == Outcome(s, FALSE, Nothing, 1)
<1>3. \/ /\ call.retries > 0 /\ Exchange(o)
         /\ call' = [call EXCEPT !.rounds = @ - 1, !.retries = @ - 1]
         /\ UNCHANGED <<walk, answer>>
      \/ Fail(o, walk)
  BY <1>2
<1>4. upset' = (upset \/ heard)
  BY <1>2
<1>5. /\ BrowseTypes /\ SlotTypeOK /\ SlotSound(slot) /\ OurServer /\ WalkExact
      /\ walk.active /\ walk \in Walks /\ cache \in Caches /\ call \in Calls /\ upset \in BOOLEAN
      /\ answer.status = "none" /\ BrowseSound /\ OurCache
  BY <1>1, Running
<1>6. /\ walk.open /\ walk.number \in Numbers /\ cache.valid /\ cache.number = walk.number
      /\ cache.left \in Seq(RealEntries)
  BY <1>1, <1>5 DEF BrowseSound, OurCache
<1>7. SlotSound(s) /\ s.host = slot.host /\ s.taken = slot.taken /\ (~heard => s = slot)
  BY <1>5, <1>6, AdvancedSound
<1> HIDE DEF s
<1>8. Keeps(slot, o) /\ o.slot = s
  BY <1>7, OutcomeSound DEF Keeps, Outcome
<1> HIDE DEF o
<1>9. upset' \in BOOLEAN
  BY <1>4, <1>5
<1>10. CASE Fail(o, walk)
  BY <1>1, <1>8, <1>9, <1>10, FailSound
<1>11. CASE /\ call.retries > 0 /\ Exchange(o)
            /\ call' = [call EXCEPT !.rounds = @ - 1, !.retries = @ - 1]
            /\ UNCHANGED <<walk, answer>>
  <2>1. /\ slot' = s /\ SlotTypeOK' /\ SlotSound(slot')
        /\ slot'.host = slot.host /\ slot'.taken = slot.taken
    BY <1>1, <1>5, <1>7, <1>8, <1>11, ExchangeType DEF Keeps, SlotTypeOK
  <2>2. call' \in Calls /\ call'.at = "read"
    <3>1. /\ call.rounds \in 0..SkipRounds /\ SkipRounds \in Nat
          /\ call.retries \in 0..DirRetries /\ DirRetries \in Nat
      BY <1>5, BrowseAssumption DEF Calls
    <3>2. call.rounds - 1 \in 0..SkipRounds /\ call.retries - 1 \in 0..DirRetries
      BY <1>1, <1>11, <3>1
    <3> QED
      BY <1>5, <1>11, <1>1, <3>2 DEF Calls
  <2>3. WalkExact'
    <3>1. CASE upset'
      BY <3>1 DEF WalkExact
    <3>2. CASE ~upset'
      <4>1. slot' = slot /\ upset' = upset
        BY <1>4, <1>5, <1>7, <1>9, <2>1, <3>2
      <4> QED
        BY <1>1, <1>5, <1>11, <4>1 DEF WalkExact, Position, Left
    <3> QED
      BY <3>1, <3>2
  <2> QED
    BY <1>1, <1>5, <1>6, <1>9, <1>11, <2>1, <2>2, <2>3, GoesOn
<1> QED
  BY <1>3, <1>10, <1>11

LEMMA BrowseStepSound ==
  ASSUME BrowseInv, WalkInv, BrowseStep
  PROVE  BrowseInv'
BY PauseSound, OpenForWalkSound, ReadingSound, ServeSound, EndOfDirectorySound, FetchSound,
   FetchRefusedSound, FetchLostSound DEF BrowseStep

----------------------------------------------------------------------------
(* The commands of the browser keep the invariant                          *)

\* A page of the card: the folders and then the files, in one go.
LEMMA CardPage ==
  ASSUME NEW g \in Nat, NEW k \in Nat, NEW es \in Seq(RealEntries)
  PROVE  LET dirs == TakeAll(NewWalk(g, k), es)
             w == IF dirs.more THEN dirs ELSE TakeAll(FilesPhase(dirs), es)
         IN  /\ w \in Walks /\ w.gen = g /\ w.page = k
             /\ IsPage(w, OfKinds(es, {"dir"}) \o OfKinds(es, {"file"}))
<1> DEFINE D == OfKinds(es, {"dir"})
           F == OfKinds(es, {"file"})
           n == NewWalk(g, k)
           dirs == TakeAll(n, es)
           later == FilesPhase(dirs)
           all == TakeAll(later, es)
<1>1. es \in Seq(Entries)
  <2>1. RealEntries \subseteq Entries
    BY DEF RealEntries
  <2> QED
    BY <2>1, SeqMonotonic
<1>2. D \in Seq(Entries) /\ F \in Seq(Entries) /\ D \o F \in Seq(Entries)
  BY <1>1, OfKindsType, ConcatProperties
<1>3. n \in Walks /\ Exact(n, es, <<>>) /\ n.gen = g /\ n.page = k /\ ~n.files
  BY WalkTypes, NewWalkExact DEF NewWalk
<1> HIDE DEF n
<1>4. /\ dirs \in Walks /\ Exact(dirs, es, es)
      /\ dirs.page = k /\ dirs.gen = g /\ ~dirs.files
  BY <1>1, <1>3, TakeAllExact
<1> HIDE DEF dirs
<1>5. CASE dirs.more
  <2>1. Filled(dirs, D)
    BY <1>4 DEF Exact, Counted
  <2> HIDE DEF D, F
  <2>2. Filled(dirs, D \o F)
    BY <1>2, <1>4, <1>5, <2>1, FullStays
  <2>3. IsPage(dirs, D \o F)
    BY <1>2, <1>4, <2>2, FilledIsPage
  <2> QED
    BY <1>4, <1>5, <2>3 DEF D, F, dirs, n
<1>6. CASE ~dirs.more
  <2>1. later \in Walks /\ Exact(later, es, <<>>)
    BY <1>1, <1>4, <1>6, WalkTypes, FilesPhaseExact
  <2>2. later.page = k /\ later.gen = g /\ later.files = TRUE
    BY <1>4 DEF FilesPhase, Walks
  <2> HIDE DEF later
  <2>3. /\ all \in Walks /\ Exact(all, es, es)
        /\ all.page = k /\ all.gen = g /\ all.files
    BY <1>1, <2>1, <2>2, TakeAllExact
  <2> HIDE DEF all
  <2>4. Filled(all, D \o F)
    BY <2>3 DEF Exact, Counted
  <2> HIDE DEF D, F
  <2>5. IsPage(all, D \o F)
    BY <1>2, <2>3, <2>4, FilledIsPage
  <2> QED
    BY <1>6, <2>3, <2>5 DEF D, F, all, later, dirs, n
<1> QED
  BY <1>5, <1>6

\* The walk before is given up for another page.
LEMMA GivenUp ==
  ASSUME BrowseTypes, NEW a \in Abandoning(Unchanged(slot)), Exchange(a), Event
  PROVE  SlotTypeOK' /\ SlotSound(slot') /\ slot'.host = slot.host /\ slot'.taken = slot.taken
<1>1. Keeps(slot, a)
  BY UnchangedKeeps, AbandonSound DEF BrowseTypes
<1> QED
  BY <1>1, ExchangeType, EventType DEF Keeps, BrowseTypes, SlotTypeOK

LEMMA GetPageSdSound ==
  ASSUME BrowseInv, call.at = "none", NEW g, NEW k \in 0..MaxPage, GetPageSd(g, k)
  PROVE  BrowseInv'
<1> DEFINE dir == browse.root \o browse.cwd
           L == Listing[Card][dir]
           es == Real(L)
           dirs == TakeAll(NewWalk(g, k), es)
           w == IF dirs.more THEN dirs ELSE TakeAll(FilesPhase(dirs), es)
           v == [NewWalk(g, k) EXCEPT !.region = w.region, !.more = w.more]
<1>1. /\ Event /\ browse.open /\ browse.sd /\ g = browse.gen
      /\ \E a \in Abandoning(Unchanged(slot)) : Exchange(a)
      /\ \/ /\ walk' = [Done(NewWalk(g, k)) EXCEPT !.region = w.region, !.more = w.more]
            /\ answer' = Page(w)
         \/ walk' = Done(NewWalk(g, k)) /\ answer' = Answer("error", g, k)
      /\ upset' = FALSE
      /\ UNCHANGED <<browse, told, cache, call>>
  BY Zenon DEF GetPageSd
<1>2. BrowseTypes /\ OpenGeneration /\ BrowseTypeOK
  BY <1>1 DEF BrowseInv, BrowseTypes, BrowseSound
<1>3. SlotTypeOK' /\ SlotSound(slot') /\ slot'.host = slot.host /\ slot'.taken = slot.taken
  BY <1>1, <1>2, GivenUp
<1>4. /\ g \in 1..Len(told) /\ g \in Nat /\ k \in Nat
      /\ told[g].src = Card /\ told[g].dir = dir /\ dir \in DOMAIN Listing[Card]
  BY <1>1, <1>2, BrowseAssumption DEF OpenGeneration
<1>5. L \in Seq(Entries)
  BY <1>4, ListingAssumption DEF Sources
<1>6. Listed(told[g]) = OfKinds(L, {"dir"}) \o OfKinds(L, {"file"})
  BY <1>4 DEF Listed
<1> HIDE DEF dir, L
<1>7. es \in Seq(RealEntries)
  <2>1. {e \in Entries : e.kind \in {"dir", "file"}} = RealEntries
    BY DEF Entries, RealEntries
  <2> QED
    BY <1>5, <2>1, OfKindsAmong DEF Real
<1>8. OfKinds(es, {"dir"}) = OfKinds(L, {"dir"}) /\ OfKinds(es, {"file"}) = OfKinds(L, {"file"})
  BY <1>5, OfKindsTwice DEF Real
<1> HIDE DEF es
<1>9. w \in Walks /\ w.gen = g /\ w.page = k /\ IsPage(w, Listed(told[g]))
  BY <1>4, <1>6, <1>7, <1>8, CardPage
<1> HIDE DEF w
<1>10. NewWalk(g, k) \in Walks /\ NewWalk(g, k).gen = g /\ NewWalk(g, k).page = k
  BY <1>4, WalkTypes DEF NewWalk
<1>11. /\ cache' \in [valid : BOOLEAN, number : Numbers \cup {0}, left : Seq(Entries), eof : BOOLEAN]
       /\ cache'.left \in Seq(RealEntries) /\ upset' \in BOOLEAN /\ call'.at = "none"
       /\ call' \in [at : {"none", "first", "head", "read"}, rounds : 0..SkipRounds,
                     retries : 0..DirRetries]
  BY <1>1, <1>2 DEF BrowseTypes, BrowseTypeOK, BrowseSound
<1>12. CASE walk' = Done(NewWalk(g, k)) /\ answer' = Answer("error", g, k)
  <2>1. PagesAreExact'
    BY <1>12 DEF PagesAreExact, Answer
  <2> DEFINE n == NewWalk(g, k)
  <2>2. /\ n \in Walks /\ walk' = Done(n)
        /\ \E status \in {"ok", "end", "error"} :
               answer' = Answer(status, n.gen, n.page) /\ status = "error"
    BY <1>10, <1>12
  <2> HIDE DEF n
  <2> QED
    BY <1>1, <1>3, <1>11, <2>1, <2>2, Answers
<1>13. CASE /\ walk' = [Done(NewWalk(g, k)) EXCEPT !.region = w.region, !.more = w.more]
            /\ answer' = Page(w)
  <2>1. w.region \in Seq(Entries) /\ w.more \in BOOLEAN
    BY <1>9 DEF Walks
  <2>2. v \in Walks /\ v.gen = g /\ v.page = k /\ v.region = w.region /\ v.more = w.more
    BY <1>10, <2>1 DEF Walks
  <2>3. walk' = Done(v)
    BY <1>10, <1>13, <2>1 DEF Done, Walks
  <2>4. PagesAreExact'
    <3>1. walk'.region = w.region /\ walk'.more = w.more
      BY <2>2, <2>3 DEF Done, Walks
    <3> QED
      BY <1>1, <1>9, <1>13, <3>1, PageAnswered
  <2> HIDE DEF v
  <2>5. \E status \in {"ok", "end", "error"} :
            answer' = Answer(status, v.gen, v.page) /\ v.gen \in 1..Len(told)
    BY <1>4, <1>9, <1>13, <2>2 DEF Page
  <2> QED
    BY <1>1, <1>3, <1>11, <2>2, <2>3, <2>4, <2>5, Answers
<1> QED
  BY <1>1, <1>12, <1>13

LEMMA GetPageTnfsSound ==
  ASSUME BrowseInv, WalkInv, call.at = "none", NEW g, NEW k \in 0..MaxPage, GetPageTnfs(g, k)
  PROVE  BrowseInv'
<1>1. /\ browse.open /\ ~browse.sd /\ g = browse.gen
      /\ \/ Resumes(g, k) /\ UNCHANGED <<walk, upset, slot, faults, events>>
         \/ /\ Event
            /\ \E a \in Abandoning(Unchanged(slot)) : Exchange(a)
            /\ walk' = NewWalk(g, k)
            /\ upset' = FALSE
      /\ call' = [NotRunning EXCEPT !.at = "first"]
      /\ answer' = NoAnswer
      /\ UNCHANGED <<browse, told, cache>>
  BY DEF GetPageTnfs
<1>2. BrowseTypes /\ OpenGeneration /\ BrowseTypeOK /\ BrowseSound
      /\ OurServer /\ WalkExact /\ SlotTypeOK /\ SlotSound(slot)
  BY <1>1 DEF BrowseInv, PageInv, BrowseTypes, BrowseSound
<1>3. g \in 1..Len(told) /\ g \in Nat /\ k \in Nat
  BY <1>1, <1>2, BrowseAssumption DEF OpenGeneration
<1>4. call' \in Calls /\ call'.at = "first" /\ NoAnswer.status = "none"
      /\ NoAnswer \in [status : {"none"}, gen : Nat, page : Nat]
  BY <1>1, BrowseAssumption DEF Calls, NotRunning, NoAnswer, Answer
<1>5. /\ SlotTypeOK' /\ SlotSound(slot') /\ OurServer'
      /\ walk' \in Walks /\ walk'.gen = browse.gen /\ upset' \in BOOLEAN
      /\ walk'.open => walk'.number \in Numbers
      /\ WalkExact'
  <2>1. CASE Resumes(g, k) /\ UNCHANGED <<walk, upset, slot, faults, events>>
    <3>1. WalkExact'
      BY <1>1, <1>2, <2>1 DEF WalkExact, Position, Left
    <3> QED
      BY <1>1, <1>2, <2>1, <3>1 DEF SlotTypeOK, BrowseTypeOK, BrowseSound, OurServer, Resumes
  <2>2. CASE /\ Event
             /\ \E a \in Abandoning(Unchanged(slot)) : Exchange(a)
             /\ walk' = NewWalk(g, k)
             /\ upset' = FALSE
    <3>1. SlotTypeOK' /\ SlotSound(slot') /\ slot'.host = slot.host /\ slot'.taken = slot.taken
      BY <1>2, <2>2, GivenUp
    <3>2. /\ walk' \in Walks /\ walk'.gen = g /\ walk'.open = FALSE /\ walk'.files = FALSE
          /\ walk'.more = FALSE
      BY <1>3, <2>2, WalkTypes DEF NewWalk
    <3>3. OurServer'
      BY <1>1, <1>2, <3>1 DEF OurServer
    <3>4. WalkExact'
      <4> DEFINE d == told[walk.gen]
                 L == Listing[d.src][d.dir]
      <4>1. Exact(walk, L, <<>>)'
        BY <1>3, <2>2, NewWalkExact
      <4>2. Position(d, L, <<>>)'
        BY <3>2 DEF Position
      <4> HIDE DEF L, d
      <4>3. \E t \in Seq(Entries) : Exact(walk, L, t)' /\ Position(d, L, t)'
        BY <4>1, <4>2, EmptySeq
      <4> QED
        BY <3>2, <4>3, Zenon DEF WalkExact, L, d
    <3> QED
      BY <1>1, <2>2, <3>1, <3>2, <3>3, <3>4
  <2> QED
    BY <1>1, <2>1, <2>2
<1>6. BrowseTypeOK'
  BY <1>1, <1>2, <1>4, <1>5 DEF BrowseTypeOK, Calls
<1>7. BrowseSound'
  BY <1>1, <1>2, <1>4, <1>5 DEF BrowseSound, OpenGeneration
<1>8. OurCache' /\ PagesAreExact'
  BY <1>1, <1>4 DEF OurCache, PagesAreExact
<1> QED
  BY <1>5, <1>6, <1>7, <1>8 DEF BrowseInv, BrowseTypes, PageInv

LEMMA BrowseCommandSound ==
  ASSUME BrowseInv, WalkInv, BrowseCommand
  PROVE  BrowseInv'
<1>1. call.at = "none"
  BY DEF BrowseCommand
<1>2. CASE \E start \in Starts :
               (\E src \in Hosts : BrowseOpenTnfs(src, start)) \/ BrowseOpenSd(start)
  BY <1>1, <1>2, BrowseOpenTnfsSound, BrowseOpenSdSound
<1>3. CASE \E cwd \in Wanted : ChangeDir(cwd)
  BY <1>1, <1>3, ChangeDirSound
<1>4. CASE \E g \in {browse.gen, 0} :
               \/ GetPageRefused(g)
               \/ \E k \in 0..MaxPage : GetPageSd(g, k) \/ GetPageTnfs(g, k)
  BY <1>1, <1>4, GetPageRefusedSound, GetPageSdSound, GetPageTnfsSound
<1> DEFINE open == \E start \in Starts :
                       (\E src \in Hosts : BrowseOpenTnfs(src, start)) \/ BrowseOpenSd(start)
           move == \E cwd \in Wanted : ChangeDir(cwd)
           page == \E g \in {browse.gen, 0} :
                       \/ GetPageRefused(g)
                       \/ \E k \in 0..MaxPage : GetPageSd(g, k) \/ GetPageTnfs(g, k)
<1>5. open \/ move \/ page
  BY Zenon DEF BrowseCommand
<1> HIDE DEF open, move, page
<1>6. open => BrowseInv'
  BY <1>2 DEF open
<1>7. move => BrowseInv'
  BY <1>3 DEF move
<1>8. page => BrowseInv'
  BY <1>4 DEF page
<1> QED
  BY <1>5, <1>6, <1>7, <1>8

----------------------------------------------------------------------------
(* The drive                                                               *)

\* A switch that is being published has an image in the drive.
DriveSound ==
    /\ drive = Closed \/ ImageDrive(drive)
    /\ switching # {} => drive # Closed
    /\ Uploaded

DriveInv == DriveTypeOK /\ DriveSound
FloppyInv == BrowseInv /\ DriveInv

Roms == [floppy : BOOLEAN,
         path : [path : ImagePaths \cup {Nothing}, order : {"atari", "pico"}],
         geom : Geometries, bpb : Bpbs, index : FavouriteSlots \cup {Nothing}, changed : BOOLEAN]

LEMMA RomFields ==
  ASSUME NEW r \in Roms
  PROVE  /\ r.floppy \in BOOLEAN /\ r.changed \in BOOLEAN /\ r.geom \in Geometries /\ r.bpb \in Bpbs
         /\ r.index \in FavouriteSlots \cup {Nothing}
         /\ r.path \in [path : ImagePaths \cup {Nothing}, order : {"atari", "pico"}]
BY DEF Roms

LEMMA NoneTypes ==
  /\ NoGeometry \in Geometries /\ NoBpb \in Bpbs
  /\ NoText \in [path : ImagePaths \cup {Nothing}, order : {"atari", "pico"}]
<1>1. 0 \in Words
  BY WordsOf
<1> QED
  BY <1>1 DEF NoGeometry, Geometries, NoBpb, Bpbs, NoText, Text

LEMMA ImageOpen ==
  ASSUME NEW d, ImageDrive(d)
  PROVE  /\ d # Closed /\ d.image \in Images /\ d.image.path \in ImagePaths
         /\ d.geom \in Geometries /\ d.geom.total \in Nat
         /\ d \in [image : Images, number : Numbers \cup {Nothing}, geom : Geometries]
<1>1. /\ d \in [image : Images, number : Numbers \cup {Nothing}, geom : Geometries]
      /\ d.image \in Images /\ d.geom \in Geometries
  BY DEF ImageDrive
<1>2. d # Closed
  BY <1>1, SourcesAssumption DEF Closed
<1> QED
  BY <1>1, <1>2 DEF ImagePaths, Geometries

LEMMA PublishBpbType ==
  ASSUME DriveTypeOK, NEW p, p.ok => IsBoot(Boot(p.got)), NEW d, ImageDrive(d)
  PROVE  PublishBpb(p, d) \in Bpbs
<1>1. rom.bpb \in Bpbs
  <2>1. rom \in Roms
    BY DEF DriveTypeOK, Roms
  <2> QED
    BY <2>1, RomFields
<1>2. d.geom.total \in Nat
  BY ImageOpen
<1>3. p.ok => Bpb(Boot(p.got), d.geom.total) \in Bpbs
  BY <1>2, BpbType
<1> QED
  BY <1>1, <1>3 DEF PublishBpb

\* What the browser has is left as it is by exchanges of the drive.
LEMMA DriveExchange ==
  ASSUME BrowseInv, NEW o, Sound(o), Apart(slot, o.slot), Exchange(o), UNCHANGED browseVars,
         events' \in 0..MaxEvents
  PROVE  BrowseInv'
<1>1. /\ SlotTypeOK /\ SlotSound(slot)
  BY DEF BrowseInv, BrowseTypes
<1>2. slot' = o.slot /\ SlotTypeOK' /\ SlotSound(slot')
  BY <1>1, ExchangeType DEF SlotTypeOK
<1>3. slot'.taken \/ (~slot.taken /\ slot'.host = slot.host /\ slot'.dirs = slot.dirs)
  BY <1>2 DEF Apart
<1> QED
  BY <1>2, <1>3, WalkStays

LEMMA SlotStays ==
  ASSUME BrowseInv, UNCHANGED <<slot, faults>>, UNCHANGED browseVars, events' \in 0..MaxEvents
  PROVE  BrowseInv'
<1>1. SlotTypeOK' /\ SlotSound(slot')
  BY DEF BrowseInv, BrowseTypes, SlotTypeOK
<1>2. slot.taken \in BOOLEAN
  BY DEF BrowseInv, BrowseTypes, SlotSound, Slots
<1> QED
  BY <1>1, <1>2, WalkStays

LEMMA EventsType ==
  ASSUME BrowseInv, Event \/ events' = events
  PROVE  events' \in 0..MaxEvents
BY EventType DEF BrowseInv, BrowseTypes, SlotTypeOK

LEMMA SessionStartSound ==
  ASSUME BrowseInv, DriveInv, switching = {}, NEW src \in Sources, NEW path,
         SessionStart(src, path), UNCHANGED browseVars
  PROVE  BrowseInv' /\ DriveInv'
<1> DEFINE started(o, p) ==
             /\ Exchange(p)
             /\ drive' = o.got
             /\ rom' = [floppy |-> TRUE, path |-> Text(path, "atari"),
                        geom |-> o.got.geom, bpb |-> PublishBpb(p, o.got),
                        index |-> ActiveIndex(path), changed |-> TRUE]
             /\ blind' = ReadBlind(p, o.got)
           empty(o) ==
             /\ Exchange(o)
             /\ drive' = Closed
             /\ rom' = [rom EXCEPT !.floppy = TRUE, !.path = NoText,
                                   !.geom = NoGeometry, !.index = Nothing]
             /\ UNCHANGED blind
<1>1. /\ Event /\ UNCHANGED <<switching, table, strings, used, button, atari>>
      /\ \E c \in CloseImage(slot, drive) :
         \E o \in Then(c, OpenImage(c.slot, src, path)) :
            IF o.ok THEN \E p \in Then(o, ReadSectorOf(o.slot, o.got, 0)) : started(o, p)
                    ELSE empty(o)
  BY DEF SessionStart
<1> HIDE DEF started, empty
<1>2. PICK c \in CloseImage(slot, drive) :
         \E o \in Then(c, OpenImage(c.slot, src, path)) :
            IF o.ok THEN \E p \in Then(o, ReadSectorOf(o.slot, o.got, 0)) : started(o, p)
                    ELSE empty(o)
  BY <1>1
<1>3. PICK o \in Then(c, OpenImage(c.slot, src, path)) :
            IF o.ok THEN \E p \in Then(o, ReadSectorOf(o.slot, o.got, 0)) : started(o, p)
                    ELSE empty(o)
  BY <1>2
<1>4. SlotSound(slot) /\ DriveTypeOK /\ DriveSound /\ Uploaded
  BY DEF BrowseInv, BrowseTypes, DriveInv, DriveSound
<1>5. SlotSound(c.slot) /\ c.lost \in Nat /\ Apart(slot, c.slot)
  BY <1>2, <1>4, CloseImageSound DEF Sound
<1>6. Opens(o, slot, src, path)
  <2>1. \A x \in OpenImage(c.slot, src, path) : Opens(x, c.slot, src, path)
    BY <1>5, OpenImageSound
  <2> QED
    BY <1>3, <1>5, <2>1, ThenOpensSound
<1>7. /\ Sound(o) /\ Apart(slot, o.slot) /\ SlotSound(o.slot) /\ o.lost \in Nat
      /\ o.ok => ImageDrive(o.got) /\ o.got.image.path = path
  BY <1>6 DEF Opens, Sound
<1>8. events' \in 0..MaxEvents
  BY <1>1, EventsType
<1>9. Uploaded'
  BY <1>1, <1>4 DEF Uploaded
<1>10. rom \in Roms
  BY <1>4 DEF DriveTypeOK, Roms
<1>11. CASE o.ok
  <2>1. PICK p \in Then(o, ReadSectorOf(o.slot, o.got, 0)) : started(o, p)
    BY <1>3, <1>11
  <2>2. \A r \in ReadSectorOf(o.slot, o.got, 0) :
            Sound(r) /\ r.slot = o.slot /\ (r.ok => IsBoot(Boot(r.got)))
    BY <1>7, <1>11, ReadSound
  <2>3. Sound(p) /\ p.slot = o.slot /\ (p.ok => IsBoot(Boot(p.got)))
    <3>1. \A r \in ReadSectorOf(o.slot, o.got, 0) : Sound(r)
      BY <2>2
    <3>2. /\ Sound(p)
          /\ \E r \in ReadSectorOf(o.slot, o.got, 0) : p.slot = r.slot /\ p.ok = r.ok /\ p.got = r.got
      BY <1>7, <2>1, <3>1, ThenSound
    <3> QED
      BY <2>2, <3>2
  <2>4. Exchange(p) /\ drive' = o.got /\ blind' = ReadBlind(p, o.got)
        /\ rom' = [floppy |-> TRUE, path |-> Text(path, "atari"),
                   geom |-> o.got.geom, bpb |-> PublishBpb(p, o.got),
                   index |-> ActiveIndex(path), changed |-> TRUE]
    BY <2>1 DEF started
  <2>5. BrowseInv'
    BY <1>7, <1>8, <2>3, <2>4, DriveExchange
  <2>6. PublishBpb(p, o.got) \in Bpbs
    BY <1>4, <1>7, <1>11, <2>3, PublishBpbType
  <2>7. /\ o.got.geom \in Geometries /\ path \in ImagePaths
        /\ o.got \in [image : Images, number : Numbers \cup {Nothing}, geom : Geometries]
    BY <1>7, <1>11, ImageOpen
  <2>8. rom' \in Roms
    BY <2>4, <2>6, <2>7, ActiveIndexType DEF Roms, Text
  <2>9. blind' \in BOOLEAN
    BY <2>4 DEF ReadBlind
  <2>10. DriveTypeOK'
    BY <1>1, <1>4, <2>4, <2>7, <2>8, <2>9 DEF DriveTypeOK, Roms
  <2> QED
    BY <1>1, <1>7, <1>9, <1>11, <2>4, <2>5, <2>10 DEF DriveInv, DriveSound
<1>12. CASE ~o.ok
  <2>1. /\ Exchange(o) /\ drive' = Closed /\ blind' = blind
        /\ rom' = [rom EXCEPT !.floppy = TRUE, !.path = NoText,
                              !.geom = NoGeometry, !.index = Nothing]
    BY <1>3, <1>12 DEF empty
  <2>2. rom' \in Roms
    BY <1>10, <2>1, NoneTypes DEF Roms
  <2>3. BrowseInv'
    BY <1>7, <1>8, <2>1, DriveExchange
  <2>4. DriveTypeOK'
    BY <1>1, <1>4, <2>1, <2>2 DEF DriveTypeOK, Roms
  <2> QED
    BY <1>1, <1>9, <2>1, <2>3, <2>4 DEF DriveInv, DriveSound
<1> QED
  BY <1>11, <1>12

\* Without a floppy, at SELECT held, and at a command that finds nothing.
LEMMA DriveCloses ==
  ASSUME BrowseInv, DriveInv, switching' = {}, UNCHANGED browseVars, events' \in 0..MaxEvents,
         \E c \in CloseImage(slot, drive) : Exchange(c),
         drive' = Closed, rom' \in Roms, button' \in [down : BOOLEAN, prev : BOOLEAN, long : BOOLEAN],
         UNCHANGED <<table, strings, used, atari, blind>>
  PROVE  BrowseInv' /\ DriveInv'
<1>1. PICK c \in CloseImage(slot, drive) : Exchange(c)
  OBVIOUS
<1>2. Sound(c) /\ Apart(slot, c.slot)
  BY <1>1, CloseImageSound DEF BrowseInv, BrowseTypes
<1>3. BrowseInv'
  BY <1>1, <1>2, DriveExchange
<1>4. DriveTypeOK'
  BY DEF DriveInv, DriveTypeOK, Roms
<1> QED
  BY <1>3, <1>4 DEF DriveInv, DriveSound, Uploaded

LEMMA PollReleasedSound ==
  ASSUME BrowseInv, DriveInv, switching = {}, PollReleased, UNCHANGED browseVars
  PROVE  BrowseInv' /\ DriveInv'
<1> DEFINE next == [index |-> NextIndex, path |-> PathOf(NextIndex)]
<1>1. /\ button' = [button EXCEPT !.prev = FALSE, !.long = FALSE]
      /\ UNCHANGED <<events, table, strings, used, atari, blind>>
      /\ \/ UNCHANGED <<slot, faults, drive, rom, switching>>
         \/ /\ NextIndex # Nothing /\ IsWhole(NextIndex)
            /\ \E o \in OpenImage(slot, SourceOf(NextIndex), PathOf(NextIndex)) :
                   \/ o.ok /\ Commits(o)
                   \/ ~o.ok /\ Exchange(o) /\ UNCHANGED <<drive, rom, switching>>
  BY DEF PollReleased
<1>2. SlotSound(slot) /\ DriveTypeOK /\ DriveSound /\ Uploaded
  BY DEF BrowseInv, BrowseTypes, DriveInv, DriveSound
<1>3. events' \in 0..MaxEvents
  BY <1>1, EventsType
<1>4. button' \in [down : BOOLEAN, prev : BOOLEAN, long : BOOLEAN]
  BY <1>1, <1>2 DEF DriveTypeOK
<1>5. Uploaded'
  BY <1>1, <1>2 DEF Uploaded
<1>6. CASE UNCHANGED <<slot, faults, drive, rom, switching>>
  <2>1. BrowseInv'
    BY <1>3, <1>6, SlotStays
  <2>2. DriveTypeOK'
    BY <1>1, <1>2, <1>4, <1>6 DEF DriveTypeOK
  <2> QED
    BY <1>2, <1>5, <1>6, <2>1, <2>2 DEF DriveInv, DriveSound
<1>7. CASE /\ NextIndex # Nothing /\ IsWhole(NextIndex)
           /\ \E o \in OpenImage(slot, SourceOf(NextIndex), PathOf(NextIndex)) :
                  \/ o.ok /\ Commits(o)
                  \/ ~o.ok /\ Exchange(o) /\ UNCHANGED <<drive, rom, switching>>
  <2>1. PICK o \in OpenImage(slot, SourceOf(NextIndex), PathOf(NextIndex)) :
                  \/ o.ok /\ Commits(o)
                  \/ ~o.ok /\ Exchange(o) /\ UNCHANGED <<drive, rom, switching>>
    BY <1>7
  <2>2. rom \in Roms
    BY <1>2 DEF DriveTypeOK, Roms
  <2>3. NextIndex \in FavouriteSlots
    BY <1>7, <2>2, NextIndexType, RomFields
  <2>4. SourceOf(NextIndex) \in Sources
    BY <1>2, <1>7, <2>3, SourceOfType
  <2>5. Opens(o, slot, SourceOf(NextIndex), PathOf(NextIndex))
    BY <1>2, <2>1, <2>4, OpenImageSound
  <2>6. /\ Sound(o) /\ Apart(slot, o.slot) /\ SlotSound(o.slot) /\ o.lost \in Nat
        /\ o.ok => ImageDrive(o.got)
    BY <2>5 DEF Opens, Sound
  <2>7. CASE ~o.ok /\ Exchange(o) /\ UNCHANGED <<drive, rom, switching>>
    <3>1. BrowseInv'
      BY <1>1, <1>3, <2>6, <2>7, DriveExchange
    <3>2. DriveTypeOK'
      BY <1>1, <1>2, <1>4, <2>7 DEF DriveTypeOK
    <3> QED
      BY <1>2, <1>5, <2>7, <3>1, <3>2 DEF DriveInv, DriveSound
  <2>8. CASE o.ok /\ Commits(o)
    <3>1. /\ drive' = o.got
          /\ rom' = [rom EXCEPT !.geom = o.got.geom]
          /\ switching' = {next}
      BY <2>8 DEF Commits
    <3>2. PICK c \in Then(o, CloseImage(o.slot, drive)) : Exchange(c)
      BY <2>8 DEF Commits
    <3>3. Sound(c) /\ Apart(slot, c.slot)
      <4>1. \A x \in CloseImage(o.slot, drive) : Sound(x) /\ Apart(o.slot, x.slot)
        BY <2>6, CloseImageSound
      <4>2. Sound(c) /\ \E x \in CloseImage(o.slot, drive) : c.slot = x.slot
        BY <2>6, <3>2, <4>1, ThenSound
      <4> QED
        BY <2>6, <4>1, <4>2, ApartAgain
    <3>4. BrowseInv'
      BY <1>1, <1>3, <3>2, <3>3, DriveExchange
    <3>5. /\ ImageDrive(o.got) /\ o.got.geom \in Geometries /\ o.got # Closed
          /\ o.got \in [image : Images, number : Numbers \cup {Nothing}, geom : Geometries]
      BY <2>6, <2>8, ImageOpen
    <3>6. rom' \in Roms
      BY <2>2, <3>1, <3>5 DEF Roms
    <3>7. \A x \in switching' : x.index \in FavouriteSlots
      BY <2>3, <3>1
    <3>8. DriveTypeOK'
      BY <1>1, <1>2, <1>4, <3>1, <3>5, <3>6, <3>7 DEF DriveTypeOK, Roms
    <3> QED
      BY <1>5, <3>1, <3>4, <3>5, <3>8 DEF DriveInv, DriveSound
  <2> QED
    BY <2>1, <2>7, <2>8
<1> QED
  BY <1>1, <1>6, <1>7

LEMMA PublishSwitchSound ==
  ASSUME BrowseInv, DriveInv, SwitchInv, PublishSwitch, UNCHANGED browseVars
  PROVE  BrowseInv' /\ DriveInv'
<1>1. PICK w \in switching : \E p \in ReadSectorOf(slot, drive, 0) :
           /\ Exchange(p)
           /\ rom' = [rom EXCEPT !.bpb = PublishBpb(p, drive),
                                 !.path = Text(w.path, "pico"),
                                 !.index = w.index, !.changed = TRUE]
           /\ blind' = ReadBlind(p, drive)
  BY Zenon DEF PublishSwitch
<1>2. PICK p \in ReadSectorOf(slot, drive, 0) :
           /\ Exchange(p)
           /\ rom' = [rom EXCEPT !.bpb = PublishBpb(p, drive),
                                 !.path = Text(w.path, "pico"),
                                 !.index = w.index, !.changed = TRUE]
           /\ blind' = ReadBlind(p, drive)
  BY <1>1, Zenon
<1>3. switching' = {} /\ UNCHANGED <<events, drive, table, strings, used, button, atari>>
  BY DEF PublishSwitch
<1>4. /\ SlotSound(slot) /\ DriveTypeOK /\ ImageDrive(drive) /\ Uploaded
      /\ w.index \in FavouriteSlots /\ w.path = drive.image.path
  BY <1>1 DEF BrowseInv, BrowseTypes, DriveInv, DriveSound, DriveTypeOK, SwitchInv
<1>5. Sound(p) /\ p.slot = slot /\ (p.ok => IsBoot(Boot(p.got)))
  BY <1>2, <1>4, ReadSound
<1>6. events' \in 0..MaxEvents
  BY <1>3, EventsType
<1>7. BrowseInv'
  <2>1. Apart(slot, p.slot)
    BY <1>4, <1>5, ApartSame
  <2> QED
    BY <1>2, <1>5, <1>6, <2>1, DriveExchange
<1>8. PublishBpb(p, drive) \in Bpbs /\ w.path \in ImagePaths
  BY <1>4, <1>5, PublishBpbType, ImageOpen
<1>9. rom' \in Roms
  <2>1. rom \in Roms
    BY <1>4 DEF DriveTypeOK, Roms
  <2>2. Text(w.path, "pico") \in [path : ImagePaths \cup {Nothing}, order : {"atari", "pico"}]
    BY <1>8 DEF Text
  <2> HIDE DEF Text
  <2> QED
    BY <1>2, <1>4, <1>8, <2>1, <2>2 DEF Roms
<1>10. blind' \in BOOLEAN
  BY <1>2 DEF ReadBlind
<1>11. DriveTypeOK'
  BY <1>3, <1>4, <1>9, <1>10 DEF DriveTypeOK, Roms
<1> QED
  BY <1>3, <1>4, <1>7, <1>11 DEF DriveInv, DriveSound, Uploaded

LEMMA DriveCommandSound ==
  ASSUME BrowseInv, DriveInv, switching = {}, DriveCommand \/ Poll, UNCHANGED browseVars
  PROVE  BrowseInv' /\ DriveInv'
<1>1. /\ DriveTypeOK /\ DriveSound /\ Uploaded /\ rom \in Roms
  BY DEF DriveInv, DriveSound, DriveTypeOK, Roms
<1>2. CASE \E chunk \in Chunks : WriteChunk(chunk)
  <2>1. PICK chunk \in Chunks : WriteChunk(chunk)
    BY <1>2
  <2>2. /\ strings' = [o \in Offsets |-> IF o \in DOMAIN chunk THEN chunk[o] ELSE strings[o]]
        /\ UNCHANGED <<slot, events, faults, drive, switching, rom, table, used, button, atari, blind>>
    BY <2>1 DEF WriteChunk
  <2>3. BrowseInv'
    BY <2>2, EventsType, SlotStays
  <2>4. Uploaded'
    BY <1>1, <2>2 DEF Uploaded
  <2>5. DriveTypeOK'
    BY <1>1, <2>2 DEF DriveTypeOK
  <2> QED
    BY <1>1, <2>2, <2>3, <2>4, <2>5 DEF DriveInv, DriveSound
<1>3. CASE \E t \in Tables : Commit(t)
  <2>1. PICK t \in Tables : Commit(t)
    BY <1>3
  <2>2. /\ table' = t.entries /\ used' = t.used /\ rom' = [rom EXCEPT !.index = t.active]
        /\ UNCHANGED <<slot, events, faults, drive, switching, strings, button, atari, blind>>
    BY <2>1 DEF Commit
  <2>3. BrowseInv'
    BY <2>2, EventsType, SlotStays
  <2>4. Uploaded'
    BY <1>1, <2>2 DEF Uploaded
  <2>5. used' \in Nat /\ t.active \in FavouriteSlots \cup {Nothing}
    BY <2>2, TablesAssumption
  <2>6. rom' \in Roms
    BY <1>1, <2>2, <2>5 DEF Roms
  <2>7. DriveTypeOK'
    BY <1>1, <2>2, <2>5, <2>6 DEF DriveTypeOK, Roms
  <2> QED
    BY <1>1, <2>2, <2>3, <2>4, <2>7 DEF DriveInv, DriveSound
<1>4. CASE \E src \in Sources, path \in Paths : SessionStart(src, path)
  BY <1>4, SessionStartSound
<1>5. CASE SessionWithout
  <2>1. rom' \in Roms
    BY <1>1, <1>5, NoneTypes DEF SessionWithout, Roms
  <2>2. button' \in [down : BOOLEAN, prev : BOOLEAN, long : BOOLEAN]
    BY <1>1, <1>5 DEF SessionWithout, DriveTypeOK
  <2> QED
    BY <1>5, <2>1, <2>2, EventsType, DriveCloses DEF SessionWithout
<1>6. CASE MediaChangeAck
  <2>1. UNCHANGED <<slot, events, faults, drive, switching, table, strings, used, button, blind>>
    BY <1>6 DEF MediaChangeAck
  <2>2. BrowseInv'
    BY <2>1, EventsType, SlotStays
  <2>3. rom' \in Roms
    BY <1>1, <1>6 DEF MediaChangeAck, Roms
  <2>4. atari' \in [at : {"idle", "seen", "acked"}, known : Bpbs]
    BY <1>1, <1>6 DEF MediaChangeAck, AtariStep, DriveTypeOK
  <2>5. DriveTypeOK'
    BY <1>1, <2>1, <2>3, <2>4 DEF DriveTypeOK, Roms
  <2> QED
    BY <1>1, <2>1, <2>2, <2>5 DEF DriveInv, DriveSound, Uploaded
<1>7. CASE PollPressed
  <2>1. /\ button' = [button EXCEPT !.prev = TRUE, !.long = FALSE]
        /\ UNCHANGED <<slot, events, faults, drive, switching, rom, table, strings, used, atari, blind>>
    BY <1>7 DEF PollPressed
  <2>2. BrowseInv'
    BY <2>1, EventsType, SlotStays
  <2>3. DriveTypeOK'
    BY <1>1, <2>1 DEF DriveTypeOK
  <2> QED
    BY <1>1, <2>1, <2>2, <2>3 DEF DriveInv, DriveSound, Uploaded
<1>8. CASE PollHeld
  <2>1. rom' \in Roms
    BY <1>1, <1>8 DEF PollHeld, Roms
  <2>2. button' \in [down : BOOLEAN, prev : BOOLEAN, long : BOOLEAN]
    BY <1>1, <1>8 DEF PollHeld, DriveTypeOK
  <2> QED
    BY <1>8, <2>1, <2>2, EventsType, DriveCloses DEF PollHeld
<1>9. CASE PollReleased
  BY <1>9, PollReleasedSound
<1> QED
  BY <1>2, <1>3, <1>4, <1>5, <1>6, <1>7, <1>8, <1>9 DEF DriveCommand, Poll

LEMMA OutsideSound ==
  ASSUME BrowseInv, DriveInv, Outside, UNCHANGED browseVars
  PROVE  BrowseInv' /\ DriveInv'
<1>1. DriveTypeOK /\ DriveSound /\ rom.bpb \in Bpbs
  <2>1. DriveTypeOK /\ DriveSound /\ rom \in Roms
    BY DEF DriveInv, DriveTypeOK, Roms
  <2> QED
    BY <2>1, RomFields
<1>2. UNCHANGED <<slot, faults, drive, switching, rom, table, strings, used, blind>>
  BY DEF Outside, Press, Release, Mediach, Getbpb
<1>3. Event \/ events' = events
  BY DEF Outside, Press, Release, Mediach, Getbpb
<1>4. BrowseInv'
  BY <1>2, <1>3, EventsType, SlotStays
<1>5. button' \in [down : BOOLEAN, prev : BOOLEAN, long : BOOLEAN]
  BY <1>1 DEF Outside, Press, Release, Mediach, Getbpb, DriveTypeOK
<1>6. atari' \in [at : {"idle", "seen", "acked"}, known : Bpbs]
  BY <1>1 DEF Outside, Press, Release, Mediach, Getbpb, DriveTypeOK, AtariStep
<1>7. DriveTypeOK'
  BY <1>1, <1>2, <1>5, <1>6 DEF DriveTypeOK
<1> QED
  BY <1>1, <1>2, <1>4, <1>7 DEF DriveInv, DriveSound, Uploaded

----------------------------------------------------------------------------
(* The browser and the drive together                                      *)

\* As after a restart of the firmware.
Started ==
    BrowseInit /\ slot = Fresh(Nothing) /\ events \in 0..MaxEvents /\ faults \in 0..MaxFaults

LEMMA BrowseStarts == Started => BrowseInv
<1> SUFFICES ASSUME Started
             PROVE  BrowseInv
  OBVIOUS
<1> USE DEF Started
<1>1. SlotTypeOK /\ SlotSound(slot)
  BY FreshSound DEF SlotTypeOK, SlotSound
<1>2. /\ walk \in Walks /\ ~walk.active /\ ~walk.open
  <2> DEFINE w == NewWalk(0, 0)
  <2>1. w \in Walks /\ ~w.open
    BY WalkTypes DEF NewWalk
  <2>2. walk = [w EXCEPT !.active = FALSE]
    BY DEF BrowseInit
  <2> HIDE DEF w
  <2> QED
    BY <2>1, <2>2 DEF Walks
<1>3. /\ <<>> \in Seq(Names) /\ <<>> \in Seq(Entries) /\ <<>> \in Seq(RealEntries)
      /\ <<>> \in Seq([src : Sources, dir : Seq(Names)])
  BY EmptySeq
<1>4. cache \in [valid : BOOLEAN, number : Numbers \cup {0}, left : Seq(Entries), eof : BOOLEAN]
      /\ cache.left = <<>>
  <2>1. cache = [valid |-> FALSE, number |-> 0, left |-> <<>>, eof |-> FALSE]
    BY DEF BrowseInit, NoCache
  <2> QED
    BY <1>3, <2>1
<1>5. browse \in [open : BOOLEAN, sd : BOOLEAN, root : Seq(Names), cwd : Seq(Names), gen : Nat]
      /\ ~browse.open
  <2>1. browse = [open |-> FALSE, sd |-> FALSE, root |-> <<>>, cwd |-> <<>>, gen |-> 0]
    BY DEF BrowseInit, Root
  <2> QED
    BY <1>3, <2>1
<1>6. /\ call \in [at : {"none", "first", "head", "read"}, rounds : 0..SkipRounds,
                   retries : 0..DirRetries]
      /\ call.at = "none"
  BY BrowseAssumption DEF BrowseInit, NotRunning
<1>7. /\ answer \in [status : {"none", "ok", "end", "again", "not_open", "stale", "error"},
                     gen : Nat, page : Nat]
      /\ answer.status = "none"
  BY DEF BrowseInit, NoAnswer, Answer
<1>8. told = <<>> /\ upset = FALSE
  BY DEF BrowseInit
<1>9. BrowseTypeOK
  <2>1. told \in Seq([src : Sources, dir : Seq(Names)])
    BY <1>3, <1>8
  <2> QED
    BY <1>2, <1>4, <1>5, <1>6, <1>7, <1>8, <2>1 DEF BrowseTypeOK
<1>10. BrowseSound
  <2>1. cache.left \in Seq(RealEntries)
    BY <1>3, <1>4
  <2> QED
    BY <1>2, <1>5, <1>6, <1>7, <2>1 DEF BrowseSound
<1>11. OurServer /\ OurCache /\ WalkExact /\ PagesAreExact
  BY <1>2, <1>5, <1>6, <1>7 DEF OurServer, OurCache, WalkExact, PagesAreExact
<1> QED
  BY <1>1, <1>9, <1>10, <1>11 DEF BrowseInv, BrowseTypes, PageInv

LEMMA FloppyInvInit == FloppyInit => FloppyInv
<1> SUFFICES ASSUME FloppyInit
             PROVE  FloppyInv
  OBVIOUS
<1>1. BrowseInv
  BY BrowseStarts, BoundsAssumption DEF FloppyInit, SlotInit, Started
<1>2. rom \in Roms
  BY NoneTypes DEF FloppyInit, DriveInit, Roms
<1>3. atari \in [at : {"idle", "seen", "acked"}, known : Bpbs]
  BY NoneTypes DEF FloppyInit, DriveInit
<1>4. DriveTypeOK
  BY <1>2, <1>3 DEF FloppyInit, DriveInit, DriveTypeOK, Roms
<1>5. DriveSound
  BY DEF FloppyInit, DriveInit, DriveSound, Uploaded
<1> QED
  BY <1>1, <1>4, <1>5 DEF FloppyInv, DriveInv

LEMMA SelectRebootsSound ==
  ASSUME FloppyInv, SelectReboots
  PROVE  FloppyInv'
<1>1. DriveTypeOK /\ SlotTypeOK
  BY DEF FloppyInv, DriveInv, BrowseInv, BrowseTypes
<1>2. BrowseInit' /\ slot' = Fresh(Nothing) /\ UNCHANGED <<events, faults>>
  BY DEF SelectReboots, BrowseInit
<1>3. events' \in 0..MaxEvents /\ faults' \in 0..MaxFaults
  BY <1>1, <1>2 DEF SlotTypeOK
<1>4. BrowseInv'
  <2>1. Started'
    BY <1>2, <1>3 DEF Started
  <2> QED
    BY <2>1, BrowseStarts, PTL
<1>5. switching = {} /\ UNCHANGED <<switching, atari>> /\ drive' = Closed /\ used' = 0 /\ blind' = FALSE
  BY DEF SelectReboots, MainLoopIdle
<1>6. rom' \in Roms
  BY NoneTypes DEF SelectReboots, Roms
<1>7. button' \in [down : BOOLEAN, prev : BOOLEAN, long : BOOLEAN]
  BY <1>1 DEF SelectReboots, DriveTypeOK
<1>8. DriveTypeOK'
  BY <1>1, <1>5, <1>6, <1>7 DEF DriveTypeOK, Roms
<1>9. Uploaded'
  BY DEF SelectReboots, Uploaded
<1> QED
  BY <1>4, <1>5, <1>8, <1>9 DEF FloppyInv, DriveInv, DriveSound

LEMMA FloppyInvStep ==
  ASSUME OpenInv, SeenInv, FloppyInv, [FloppyNext]_floppyVars
  PROVE  FloppyInv'
<1>1. BrowseInv /\ DriveInv /\ WalkInv /\ SwitchInv
  BY DEF FloppyInv, OpenInv, SeenInv
<1>2. ASSUME UNCHANGED driveVars
      PROVE  DriveInv'
  BY <1>1, <1>2 DEF driveVars, DriveInv, DriveTypeOK, DriveSound, Uploaded
<1>3. CASE UNCHANGED floppyVars
  <2>1. UNCHANGED <<slot, events, faults>> /\ UNCHANGED browseVars /\ UNCHANGED driveVars
    BY <1>3 DEF floppyVars
  <2> QED
    BY <1>1, <1>2, <2>1, EventsType, SlotStays DEF FloppyInv
<1>4. CASE MainLoopIdle /\ BrowseCommand /\ UNCHANGED driveVars
  BY <1>1, <1>2, <1>4, BrowseCommandSound DEF FloppyInv
<1>5. CASE BrowseStep /\ UNCHANGED driveVars
  BY <1>1, <1>2, <1>5, BrowseStepSound DEF FloppyInv
<1>6. CASE MainLoopIdle /\ (DriveCommand \/ Poll) /\ UNCHANGED browseVars
  BY <1>1, <1>6, DriveCommandSound DEF FloppyInv, MainLoopIdle
<1>7. CASE PublishSwitch /\ UNCHANGED browseVars
  BY <1>1, <1>7, PublishSwitchSound DEF FloppyInv
<1>8. CASE Outside /\ UNCHANGED browseVars
  BY <1>1, <1>8, OutsideSound DEF FloppyInv
<1>9. CASE SelectReboots
  BY <1>9, SelectRebootsSound
<1> QED
  BY <1>3, <1>4, <1>5, <1>6, <1>7, <1>8, <1>9 DEF FloppyNext

LEMMA FloppyInvariant == FloppySpec => []FloppyInv
<1>1. OpenInv /\ SeenInv /\ FloppyInv /\ [FloppyNext]_floppyVars => (OpenInv /\ SeenInv /\ FloppyInv)'
  BY OpenInvStep, SeenInvStep, FloppyInvStep
<1>2. FloppySpec => [](OpenInv /\ SeenInv /\ FloppyInv)
  BY <1>1, OpenInvInit, SeenInvInit, FloppyInvInit, PTL DEF FloppySpec
<1> QED
  BY <1>2, PTL

\* The slot, the browser and the drive are always of their types: in particular the
\* fields published for the Atari fit the 16 bits they have (publish_floppy_bpb), the
\* numbers are those a server gave, and the rounds and retries of a GET_PAGE never run
\* below zero.
THEOREM FloppyTypeCorrect == FloppySpec => []FloppyTypeOK
<1>1. FloppyInv => FloppyTypeOK
  BY DEF FloppyInv, BrowseInv, BrowseTypes, DriveInv, FloppyTypeOK
<1> QED
  BY <1>1, FloppyInvariant, PTL

\* A page that GET_PAGE answers with OK or END_OF_DIRECTORY has exactly the entries
\* that come at its place when the directory of its generation is listed folders
\* first: for directories of any length, pages and batches of any size, any number of
\* calls and servers, whatever was lost on the way (sidetnfs_floppy_browse_get_page,
\* sidetnfs_tnfs_raw_readdir).
THEOREM PagesCorrect == FloppySpec => []PagesAreExact
<1>1. FloppyInv => PagesAreExact
  BY DEF FloppyInv, BrowseInv, PageInv
<1> QED
  BY <1>1, FloppyInvariant, PTL
=============================================================================
