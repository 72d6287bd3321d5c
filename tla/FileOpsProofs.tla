---------------------------- MODULE FileOpsProofs ----------------------------
(***************************************************************************)
(* What FileOps guarantees for any drives, trees, programs and numbers of  *)
(* retries: its types, that it implements OneEffect, that current          *)
(* directories exist and that descriptors name their files.  The trees'    *)
(* part comes first: what a request changes cannot be changed by it again. *)
(***************************************************************************)
EXTENDS FileOps, SequenceTheorems, TLAPS

----------------------------------------------------------------------------
(* Paths and trees                                                         *)

\* A path is a sequence of names, and every path lies under itself.
LEMMA PathIsSeq ==
  ASSUME NEW p \in Paths
  PROVE  /\ p \in Seq(Names)
         /\ Len(p) \in 0..MaxDepth
         /\ Under(p, p)
<1>1. PICK k \in 0..MaxDepth : p \in [1..k -> Names]
  BY DEF Paths
<1>2. k \in Nat
  BY <1>1, DepthAssumption
<1>3. p \in Seq(Names) /\ Len(p) = k
  BY <1>1, <1>2
<1>4. SubSeq(p, 1, Len(p)) = p
  BY <1>3
<1> QED
  BY <1>1, <1>3, <1>4 DEF Under

LEMMA RootIsPath == Root \in Paths
<1>1. Root \in [1..0 -> Names]
  BY DEF Root
<1> QED
  BY <1>1, DepthAssumption DEF Paths

\* What is above a path is a path; above the root is the root.
LEMMA ParentIsPath ==
  ASSUME NEW p \in Paths
  PROVE  Parent(p) \in Paths
<1>0. Parent(Root) = Root
  BY DEF Parent, Root
<1>8. SUFFICES ASSUME p # Root PROVE Parent(p) \in Paths
  BY <1>0, RootIsPath
<1>1. PICK k \in 0..MaxDepth : p \in [1..k -> Names]
  BY DEF Paths
<1>2. k \in Nat /\ p \in Seq(Names) /\ Len(p) = k
  BY <1>1, DepthAssumption
<1>3. k # 0
  BY <1>1, <1>2, <1>8 DEF Root
<1> DEFINE q == SubSeq(p, 1, k - 1)
<1>6. q \in Seq(Names) /\ Len(q) = k - 1
  <2>1. \A i \in 1..(k - 1) : p[i] \in Names
    BY <1>1, <1>2
  <2> QED
    BY <1>2, <1>3, <2>1, SubSeqProperties
<1>7. q \in [1..Len(q) -> Names]
  BY <1>6, LenProperties
<1>4. Parent(p) \in [1..(k - 1) -> Names]
  <2>1. Parent(p) = q
    BY <1>2 DEF Parent
  <2> HIDE DEF q
  <2> QED
    BY <2>1, <1>6, <1>7
<1>5. k - 1 \in 0..MaxDepth
  BY <1>1, <1>3, DepthAssumption
<1> QED
  BY <1>4, <1>5 DEF Paths

(***************************************************************************)
(* Written paths.                                                          *)
(***************************************************************************)
LEMMA PlainType ==
  ASSUME NEW p \in Paths
  PROVE  Plain(p) \in Written /\ Plain(p).to = p
BY DEF Written, Plain

LEMMA WrittenType ==
  ASSUME NEW w \in Written
  PROVE  /\ w.to \in Paths /\ w.as \in SUBSET (Dots \cup Kept)
         /\ w = [to |-> w.to, as |-> w.as]
BY DEF Written

\* Made normal, a path leads where it did, and the root is written in one way.
LEMMA NormalType ==
  ASSUME NEW w \in Written
  PROVE  /\ Normal(w) \in Written /\ Normal(w).to = w.to
         /\ w.to = Root => Normal(w) = Plain(Root)
<1>1. w.to \in Paths /\ w.as \in SUBSET (Dots \cup Kept) /\ w = [to |-> w.to, as |-> w.as]
  BY WrittenType
<1>2. Normal(w) = [to |-> w.to, as |-> IF w.to = Root THEN {} ELSE w.as \cap Kept]
  BY <1>1 DEF Normal
<1>3. (IF w.to = Root THEN {} ELSE w.as \cap Kept) \in SUBSET (Dots \cup Kept)
  OBVIOUS
<1> QED
  BY <1>1, <1>2, <1>3 DEF Written, Plain

LEMMA AboveType ==
  ASSUME NEW w \in Written
  PROVE  /\ Above(w) \in Written /\ Above(w).to = Parent(w.to)
         /\ Parent(w.to) = Root => Above(w) = Plain(Root)
<1> DEFINE v == [w EXCEPT !.to = Parent(w.to)]
<1>1. Parent(w.to) \in Paths
  BY WrittenType, ParentIsPath
<1>2. v \in Written /\ v.to = Parent(w.to) /\ Above(w) = Normal(v)
  BY <1>1 DEF Written, Above
<1> HIDE DEF v
<1> QED
  BY <1>2, NormalType

\* The paths of a request.
LEMMA CallPaths ==
  ASSUME NEW c \in Calls
  PROVE  /\ c.path \in Paths /\ c.to \in Paths /\ c.slot \in Drives
         /\ From(c) \in Written /\ From(c).to = c.path
         /\ To(c) \in Written /\ To(c).to = c.to
BY DEF Calls, From, To, Written

LEMMA RequestPaths ==
  ASSUME NEW s, NEW p \in Written, NEW q \in Written, NEW kind
  PROVE  LET c == Request(kind, s, p, q)
         IN  /\ c.kind = kind /\ c.slot = s /\ c.path = p.to /\ c.to = q.to
             /\ From(c) = p /\ To(c) = q
BY WrittenType DEF Request, From, To

\* A change leaves a tree a tree.
LEMMA DoneIsTree ==
  ASSUME NEW t \in Trees, NEW c \in Calls
  PROVE  Done(t, c) \in Trees
<1>1. c.path \in Paths /\ c.to \in Paths
  BY DEF Calls
<1>2. Renamed(t, c.path, c.to) \in Trees
  BY DEF Renamed, Trees
<1>3. \A v \in {"none", "file", "dir"} : [t EXCEPT ![c.path] = v] \in Trees
  BY <1>1 DEF Trees
<1> QED
  BY <1>2, <1>3 DEF Done

(***************************************************************************)
(* Why sending a request again is harmless: once a path is removed, renamed*)
(* or made, the same request finds it as it must not be.  (Fcreate, which  *)
(* would create its file again, is not among them.)                        *)
(***************************************************************************)
LEMMA NotTwice ==
  ASSUME NEW t \in Trees, NEW c \in Calls, c.kind # "create", CanDo(t, c)
  PROVE  ~CanDo(Done(t, c), c)
<1>1. c.path \in Paths /\ c.to \in Paths /\ t \in [Paths -> {"none", "file", "dir"}]
  BY DEF Calls, Trees
<1>2. CASE c.kind = "rename"
  <2>1. CanRename(t, c.path, c.to) /\ Done(t, c) = Renamed(t, c.path, c.to)
    BY <1>2 DEF CanDo, Done
  <2>2. Under(c.path, c.path) /\ ~Under(c.path, c.to)
    BY <1>1, <2>1, PathIsSeq DEF CanRename
  <2>3. Renamed(t, c.path, c.to)[c.path] = "none"
    BY <1>1, <2>2 DEF Renamed
  <2> QED
    BY <1>2, <2>1, <2>3 DEF CanDo, CanRename
<1>3. CASE c.kind = "mkdir"
  <2>1. Done(t, c)[c.path] = "dir"
    BY <1>1, <1>3 DEF Done
  <2> QED
    BY <1>3, <2>1 DEF CanDo
<1>4. CASE c.kind \in {"unlink", "rmdir"}
  <2>1. Done(t, c)[c.path] = "none"
    BY <1>1, <1>4 DEF Done
  <2> QED
    BY <1>4, <2>1 DEF CanDo, EmptyFolder
<1> QED
  BY <1>2, <1>3, <1>4 DEF CanDo

----------------------------------------------------------------------------
(* Descriptors                                                             *)

\* A descriptor whose file moved, or whose path was set right, is one still.
LEMMA DescriptorMoves ==
  ASSUME NEW d \in Descriptor,
         NEW x \in {Gone} \cup Seq(Names)
  PROVE  [d EXCEPT !.on = x] \in Descriptor
BY DEF Descriptor

LEMMA KeyType ==
  ASSUME NEW s \in Drives, NEW w \in Written
  PROVE  /\ Key(s, w) \in Keys
         /\ Key(s, w).to = Place(s, w.to)
         /\ s \in TnfsDrives => Key(s, w) = w
<1>1. w.to \in Paths /\ w.as \in SUBSET (Dots \cup Kept) /\ w = [to |-> w.to, as |-> w.as]
  BY WrittenType
<1>2. CASE s \in SdDrives
  <2>1. s \notin TnfsDrives
    BY <1>2, DrivesAssumption
  <2>2. Normal(w).as \in SUBSET (Dots \cup Kept)
    BY NormalType, WrittenType
  <2>3. Key(s, w) = [to |-> <<s>> \o w.to, as |-> Normal(w).as]
    BY <1>2 DEF Key, Place
  <2>4. <<s>> \o w.to \in UNION {{<<d>> \o q : q \in Paths} : d \in SdDrives}
    <3>1. <<s>> \o w.to \in {<<s>> \o q : q \in Paths}
      BY <1>1
    <3> QED
      BY <1>2, <3>1
  <2>5. Key(s, w) \in Keys
    <3> DEFINE U == UNION {{<<d>> \o q : q \in Paths} : d \in SdDrives}
               x == <<s>> \o w.to
    <3>1. x \in Paths \cup U
      BY <2>4
    <3>2. Keys = [to : Paths \cup U, as : SUBSET (Dots \cup Kept)]
      BY DEF Keys
    <3> HIDE DEF U, x
    <3>3. [to |-> x, as |-> Normal(w).as] \in Keys
      BY <2>2, <3>1, <3>2
    <3> QED
      BY <2>3, <3>3 DEF x
  <2>6. Key(s, w).to = Place(s, w.to)
    BY DEF Key
  <2> QED
    BY <2>1, <2>5, <2>6
<1>3. CASE s \notin SdDrives
  <2>1. Key(s, w) = [to |-> w.to, as |-> w.as] /\ Place(s, w.to) = w.to
    BY <1>3 DEF Key, Place
  <2>2. Key(s, w) \in Keys
    BY <1>1, <2>1 DEF Keys
  <2> QED
    BY <1>1, <2>1, <2>2
<1> QED
  BY <1>2, <1>3

LEMMA NewType ==
  ASSUME NEW s \in Drives, NEW w \in Written
  PROVE  New(s, w) \in Descriptor
<1>1. Key(s, w) \in Keys /\ (s \in TnfsDrives => Key(s, w) \in Written)
  BY KeyType
<1>2. w.to \in Seq(Names)
  BY WrittenType, PathIsSeq
<1> QED
  BY <1>1, <1>2 DEF New, Descriptor

LEMMA MovedType ==
  ASSUME NEW x \in Seq(Names), NEW p \in Seq(Names), NEW q \in Seq(Names)
  PROVE  Moved(x, p, q) \in Seq(Names)
<1>1. SubSeq(x, Len(p) + 1, Len(x)) \in Seq(Names)
  <2>1. Len(p) + 1 \in Int /\ Len(x) \in Int
    OBVIOUS
  <2>2. \A i \in (Len(p) + 1)..Len(x) : x[i] \in Names
    BY <2>1
  <2> QED
    BY <2>1, <2>2, SubSeqProperties
<1> QED
  BY <1>1, ConcatProperties DEF Moved

LEMMA FollowType ==
  ASSUME NEW fs \in Seq(Descriptor), NEW c \in Calls
  PROVE  Follow(fs, c) \in Seq(Descriptor)
<1>1. c.path \in Seq(Names) /\ c.to \in Seq(Names)
  BY PathIsSeq DEF Calls
<1>2. ASSUME NEW i \in DOMAIN fs
      PROVE  Follow(fs, c)[i] \in Descriptor
  <2> DEFINE f == fs[i]
  <2>1. f \in Descriptor /\ f.on \in {Gone} \cup Seq(Names)
    BY DEF Descriptor
  <2>2. f.on # Gone => Moved(f.on, c.path, c.to) \in Seq(Names)
    BY <1>1, <2>1, MovedType
  <2>3. f.on # Gone => [f EXCEPT !.on = Moved(f.on, c.path, c.to)] \in Descriptor
    BY <2>1, <2>2, DescriptorMoves
  <2>4. [f EXCEPT !.on = Gone] \in Descriptor
    BY <2>1, DescriptorMoves
  <2> QED
    BY <2>1, <2>3, <2>4 DEF Follow
<1>3. DOMAIN Follow(fs, c) = 1..Len(fs) /\ Len(fs) \in Nat
  BY DEF Follow
<1>4. Follow(fs, c) = [i \in DOMAIN fs |-> Follow(fs, c)[i]]
  BY DEF Follow
<1>5. Follow(fs, c) \in [1..Len(fs) -> Descriptor]
  BY <1>2, <1>3, <1>4
<1> QED
  BY <1>3, <1>5, SeqDef

LEMMA ClosingType ==
  ASSUME NEW fs \in Seq(Descriptor), NEW k, NEW drives
  PROVE  Closing(fs, k, drives) \in Seq(Descriptor)
<1>1. fs # <<>> => SubSeq(fs, 1, Len(fs) - 1) \in Seq(Descriptor)
  <2>1. Len(fs) - 1 \in Int /\ \A i \in 1..(Len(fs) - 1) : fs[i] \in Descriptor
    OBVIOUS
  <2> QED
    BY <2>1, SubSeqProperties
<1>2. Finds(fs, k, drives) => fs # <<>>
  BY DEF Finds, Named
<1> QED
  BY <1>1, <1>2 DEF Closing

\* A path set right is one that a descriptor of this kind of drive may have.
LEMMA RenamingType ==
  ASSUME NEW fs \in Seq(Descriptor), NEW from, NEW to \in Keys,
         NEW drives \in SUBSET Drives,
         drives \cap TnfsDrives # {} => to \in Written
  PROVE  Renaming(fs, from, to, drives) \in Seq(Descriptor)
<1> DEFINE i == Found(fs, from)
<1>1. CASE ~(Finds(fs, from, drives) /\ i \in 1..Len(fs))
  <2>1. Renaming(fs, from, to, drives) = fs
    BY <1>1 DEF Renaming
  <2> QED
    BY <2>1
<1>2. CASE Finds(fs, from, drives) /\ i \in 1..Len(fs)
  <2> DEFINE d == [fs[i] EXCEPT !.fpath = to]
  <2>1. fs[i] \in Descriptor /\ fs[i].slot \in drives
    BY <1>2 DEF Finds
  <2>2. d \in Descriptor
    BY <2>1 DEF Descriptor
  <2>3. Renaming(fs, from, to, drives) = [fs EXCEPT ![i] = d]
    BY <1>2 DEF Renaming
  <2> QED
    BY <1>2, <2>2, <2>3, ExceptSeq
<1> QED
  BY <1>1, <1>2

----------------------------------------------------------------------------
(* Types                                                                   *)

(***************************************************************************)
(* What makes a second effect impossible: once the call in progress has    *)
(* taken effect and nothing late has happened, the tree no longer allows   *)
(* it.  Only creating a file could be done twice, and is never in progress.*)
(***************************************************************************)
CallInv ==
    /\ call.kind # "create"
    /\ performed => Changes(call)
    /\ performed /\ late = NoCall => ~CanDo(tree[call.slot], call)

IInv == TypeOK /\ CallInv

LEMMA InitInv == Init => IInv
<1> SUFFICES ASSUME Init PROVE IInv
  OBVIOUS
<1>1. TypeOK
  <2>1. cwd \in [Drives -> Written]
    BY RootIsPath, PlainType DEF Init
  <2>2. files \in Seq(Descriptor)
    BY EmptySeq DEF Init
  <2>3. retries \in 0..Retries
    BY NumbersAssumption DEF Init
  <2> QED
    BY <2>1, <2>2, <2>3, TreeAssumption DEF Init, TypeOK, Ended, Results
<1>2. CallInv
  BY DEF Init, CallInv, NoCall, Request, Changing
<1> QED
  BY <1>1, <1>2 DEF IInv

\* What is requested is a request, and none of them is NoCall.
LEMMA RequestType ==
  ASSUME NEW s \in Drives, NEW p \in Written, NEW q \in Written,
         NEW kind \in Changing \cup {"chdir", "stat"}
  PROVE  Request(kind, s, p, q) \in Calls
<1>1. /\ p.to \in Paths /\ p.as \in SUBSET (Dots \cup Kept)
      /\ q.to \in Paths /\ q.as \in SUBSET (Dots \cup Kept)
  BY WrittenType
<1> QED
  BY <1>1 DEF Request, Calls

LEMMA ResolvedType ==
  ASSUME NEW s
  PROVE  Resolved(s) \subseteq Written
BY DEF Resolved

LEMMA CallsAreCalls == NoCall \notin Calls
<1>1. NoCall.kind = "none"
  BY DEF NoCall, Request
<1>2. \A c \in Calls : c.kind # "none"
  BY DEF Calls, Changing
<1> QED
  BY <1>1, <1>2

LEMMA SendType ==
  ASSUME NEW c \in Calls, Send(c), TypeOK
  PROVE  /\ call' \in Calls \cup {NoCall}
         /\ retries' \in 0..Retries
         /\ last' \in [call : Calls \cup {NoCall}, result : Results]
         /\ sent' \in BOOLEAN /\ performed' \in BOOLEAN
<1>1. Ended(NoCall, "ok") \in [call : Calls \cup {NoCall}, result : Results]
  BY DEF Ended, Results
<1>2. Retries \in 0..Retries
  BY NumbersAssumption
<1> QED
  BY <1>1, <1>2 DEF Send

LEMMA EndType ==
  ASSUME NEW c \in Calls, NEW r \in Results, End(c, r)
  PROVE  /\ call' \in Calls \cup {NoCall}
         /\ retries' \in 0..Retries
         /\ last' \in [call : Calls \cup {NoCall}, result : Results]
         /\ sent' \in BOOLEAN /\ performed' \in BOOLEAN
<1>1. Ended(c, r) \in [call : Calls \cup {NoCall}, result : Results]
  BY DEF Ended
<1>2. 0 \in 0..Retries
  BY NumbersAssumption
<1> QED
  BY <1>1, <1>2 DEF End

LEMMA SetCwdType ==
  ASSUME NEW c \in Calls, NEW r, SetCwd(c, r), TypeOK
  PROVE  cwd' \in [Drives -> Written] /\ astray' \subseteq Drives
<1>1. c.slot \in Drives /\ Normal(From(c)) \in Written /\ Above(From(c)) \in Written
  BY CallPaths, NormalType, AboveType
<1>2. cwd \in [Drives -> Written] /\ astray \subseteq Drives
  BY DEF TypeOK
<1>3. cwd' \in [Drives -> Written]
  <2>1. cwd' \in {cwd, [cwd EXCEPT ![c.slot] = Normal(From(c))],
                  [cwd EXCEPT ![c.slot] = Above(From(c))]}
    BY DEF SetCwd
  <2> QED
    BY <2>1, <1>1, <1>2
<1>4. astray' \subseteq Drives
  <2>1. astray' \in {astray, astray \ {c.slot}, astray \cup {c.slot}}
    BY DEF SetCwd
  <2> QED
    BY <2>1, <1>1, <1>2
<1> QED
  BY <1>3, <1>4

LEMMA TakeType ==
  ASSUME NEW c \in Calls, Take(c), TypeOK
  PROVE  tree' \in [Drives -> Trees]
<1>1. c.slot \in Drives /\ tree[c.slot] \in Trees
  BY DEF Calls, TypeOK
<1>2. Done(tree[c.slot], c) \in Trees
  BY <1>1, DoneIsTree
<1> QED
  BY <1>1, <1>2 DEF Take, TypeOK

LEMMA SdDoesType ==
  ASSUME NEW c \in Calls, NEW fs \in Seq(Descriptor), SdDoes(fs, c), TypeOK
  PROVE  /\ tree' \in [Drives -> Trees]
         /\ cwd' \in [Drives -> Written]
         /\ files' \in Seq(Descriptor)
         /\ call' \in Calls \cup {NoCall}
         /\ retries' \in 0..Retries
         /\ last' \in [call : Calls \cup {NoCall}, result : Results]
         /\ sent' \in BOOLEAN /\ performed' \in BOOLEAN
         /\ astray' \subseteq Drives
<1>1. CASE /\ SdAllows(fs, c)
           /\ IF Changes(c) THEN Take(c) ELSE UNCHANGED tree
           /\ files' = IF c.kind = "rename"
                       THEN Renaming(Follow(fs, c), Key(c.slot, From(c)), Key(c.slot, To(c)),
                                     SdDrives)
                       ELSE Follow(fs, c)
           /\ SetCwd(c, "ok")
           /\ End(c, "ok")
  <2>1. tree' \in [Drives -> Trees]
    BY <1>1, TakeType DEF TypeOK
  <2>2. files' \in Seq(Descriptor)
    <3>1. Follow(fs, c) \in Seq(Descriptor)
      BY FollowType
    <3>2. Key(c.slot, To(c)) \in Keys
      BY CallPaths, KeyType
    <3>3. SdDrives \cap TnfsDrives = {} /\ SdDrives \in SUBSET Drives
      BY DrivesAssumption DEF Drives
    <3>4. Renaming(Follow(fs, c), Key(c.slot, From(c)), Key(c.slot, To(c)), SdDrives)
              \in Seq(Descriptor)
      BY <3>1, <3>2, <3>3, RenamingType
    <3> QED
      BY <1>1, <3>1, <3>4
  <2>3. cwd' \in [Drives -> Written] /\ astray' \subseteq Drives
    BY <1>1, SetCwdType
  <2> QED
    BY <1>1, <2>1, <2>2, <2>3, EndType DEF Results
<1>2. CASE /\ files' = fs
           /\ UNCHANGED <<tree, cwd, astray>>
           /\ \E r \in {"refused", "error"} : End(c, r)
  <2>1. PICK r \in Results : End(c, r)
    BY <1>2 DEF Results
  <2> QED
    BY <1>2, <2>1, EndType DEF TypeOK
<1> QED
  BY <1>1, <1>2 DEF SdDoes

\* Every step keeps the types: first the calls up to their request ...
LEMMA CallsType ==
  ASSUME TypeOK,
         \/ TurnedDown
         \/ \E s \in Drives : \E p \in Resolved(s) : Fopen(s, p) \/ Fcreate(s, p)
         \/ Fclose
         \/ OnTnfs
  PROVE  TypeOK'
<1>1. CASE TurnedDown
  <2>1. PICK s \in Drives, kind \in Changing \ {"create"}, r \in {"refused", "error"} :
            End(Request(kind, s, Plain(Root), Plain(Root)), r)
    BY <1>1 DEF TurnedDown
  <2>2. Request(kind, s, Plain(Root), Plain(Root)) \in Calls
    BY RootIsPath, PlainType, RequestType
  <2> QED
    BY <1>1, <2>1, <2>2, EndType DEF TurnedDown, TypeOK, Event, Results
<1>2. ASSUME NEW s \in Drives, NEW p \in Written, Fopen(s, p)
      PROVE  TypeOK'
  <2>1. files' \in Seq(Descriptor)
    BY <1>2, NewType, AppendProperties DEF Fopen, TypeOK
  <2> QED
    BY <1>2, <2>1 DEF Fopen, TypeOK, Event, callVars
<1>3. ASSUME NEW s \in Drives, NEW p \in Written, Fcreate(s, p)
      PROVE  TypeOK'
  <2> DEFINE c == Request("create", s, p, p)
  <2>1. c \in Calls /\ c.slot = s
    BY RequestType DEF Changing, Request
  <2>2. files' \in Seq(Descriptor)
    BY <1>3, NewType, AppendProperties DEF Fcreate, TypeOK
  <2>3. Take(c)
    BY <1>3, <2>1 DEF Fcreate, Take
  <2>4. tree' \in [Drives -> Trees]
    BY <2>1, <2>3, TakeType
  <2>5. End(c, "ok") /\ "ok" \in Results
    BY <1>3 DEF Fcreate, Results
  <2> HIDE DEF c
  <2> QED
    BY <1>3, <2>1, <2>2, <2>4, <2>5, EndType DEF Fcreate, TypeOK, Event
<1>4. CASE Fclose
  <2>1. files' \in Seq(Descriptor)
    <3>1. Len(files) - 1 \in Int /\ \A i \in 1..(Len(files) - 1) : files[i] \in Descriptor
      BY DEF TypeOK
    <3> QED
      BY <1>4, <3>1, SubSeqProperties DEF Fclose
  <2> QED
    BY <1>4, <2>1 DEF Fclose, TypeOK, Event, callVars, treeVars
<1>5. ASSUME NEW s \in TnfsDrives, NEW p \in Written, NEW q \in Written,
             \/ Look(s, p, "chdir") \/ Look(s, p, "stat")
             \/ Dcreate(s, p) \/ Ddelete(s, p) \/ Fdelete(s, p) \/ Frename(s, p, q)
      PROVE  TypeOK'
  <2>1. s \in Drives
    BY DEF Drives
  <2>2. ASSUME NEW c \in Calls, Send(c), Event,
               UNCHANGED <<treeVars, cwd, files, hung, astray>>, clash' \in BOOLEAN
        PROVE  TypeOK'
    BY <2>2, SendType DEF TypeOK, Event, treeVars
  <2>3. clash \in BOOLEAN
    BY DEF TypeOK
  <2>4. CASE Look(s, p, "chdir")
    BY <2>1, <2>2, <2>3, <2>4, RequestType DEF Look
  <2>5. CASE Look(s, p, "stat")
    BY <2>1, <2>2, <2>3, <2>5, RequestType DEF Look
  <2>6. CASE Dcreate(s, p)
    BY <2>1, <2>2, <2>3, <2>6, RequestType DEF Dcreate, Changing
  <2>7. CASE Ddelete(s, p)
    BY <2>1, <2>2, <2>3, <2>7, RequestType DEF Ddelete, Changing
  <2>8. CASE Frename(s, p, q)
    <3>1. clash' \in BOOLEAN
      BY <2>3, <2>8 DEF Frename
    <3> QED
      BY <2>1, <2>2, <2>8, <3>1, RequestType DEF Frename, Changing
  <2>9. CASE Fdelete(s, p)
    <3> DEFINE c == Request("unlink", s, p, p)
    <3>1. c \in Calls
      BY <2>1, RequestType DEF Changing
    <3>2. files' \in Seq(Descriptor)
      BY <2>9, ClosingType DEF Fdelete, TypeOK
    <3>3. clash' \in BOOLEAN /\ hung' \in BOOLEAN
      BY <2>3, <2>9 DEF Fdelete, Hangs
    <3>4. CASE UNCHANGED callVars
      BY <2>9, <3>2, <3>3, <3>4 DEF Fdelete, TypeOK, Event, callVars, treeVars
    <3>5. CASE Send(c)
      <4> HIDE DEF c
      <4> QED
        BY <2>9, <3>1, <3>2, <3>3, <3>5, SendType DEF Fdelete, TypeOK, Event, treeVars
    <3> QED
      BY <2>9, <3>4, <3>5 DEF Fdelete
  <2> QED
    BY <1>5, <2>4, <2>5, <2>6, <2>7, <2>8, <2>9
<1>6. CASE OnTnfs
  <2>1. PICK s \in TnfsDrives :
            \/ \E p \in Resolved(s) : \/ Dsetpath(s, p) \/ Fattrib(s, p)
                                      \/ Dcreate(s, p) \/ Ddelete(s, p) \/ Fdelete(s, p)
                                      \/ \E q \in Resolved(s) : Frename(s, p, q)
            \/ Fdatime(s)
    BY <1>6 DEF OnTnfs
  <2>2. Resolved(s) \subseteq Written
    BY ResolvedType
  <2>3. \A i \in DOMAIN files : files[i].slot = s => files[i].fpath \in Written
    BY DEF TypeOK, Descriptor
  <2> QED
    BY <1>5, <2>1, <2>2, <2>3 DEF Dsetpath, Fattrib, Fdatime
<1> QED
  BY <1>1, <1>2, <1>3, <1>4, <1>6, ResolvedType

\* ... then what becomes of the request ...
LEMMA RoundTripType ==
  ASSUME TypeOK, RoundTrip
  PROVE  TypeOK'
<1> DEFINE c == call
<1>1. c # NoCall => c \in Calls
  BY DEF TypeOK
<1>2. "ok" \in Results /\ "refused" \in Results /\ "error" \in Results
  BY DEF Results
<1>3. CASE Answered
  <2>1. c \in Calls
    BY <1>1, <1>3 DEF Answered
  <2>2. tree' \in [Drives -> Trees]
    <3>1. CASE Take(c)
      BY <2>1, <3>1, TakeType
    <3>2. CASE UNCHANGED tree
      BY <3>2 DEF TypeOK
    <3> QED
      BY <1>3, <3>1, <3>2 DEF Answered
  <2>3. files' \in Seq(Descriptor)
    <3>1. Follow(files, c) \in Seq(Descriptor)
      BY <2>1, FollowType DEF TypeOK
    <3>2. To(c) \in Written /\ To(c) \in Keys /\ TnfsDrives \in SUBSET Drives
      BY <2>1, CallPaths DEF Written, Keys, Drives
    <3>3. Renaming(Follow(files, c), From(c), To(c), TnfsDrives) \in Seq(Descriptor)
      BY <3>1, <3>2, RenamingType
    <3> QED
      BY <1>3, <3>1, <3>3 DEF Answered
  <2>4. SetCwd(c, "ok") /\ End(c, "ok")
    BY <1>3 DEF Answered
  <2>6. cwd' \in [Drives -> Written] /\ astray' \subseteq Drives
    BY <2>1, <2>4, SetCwdType
  <2> HIDE DEF c
  <2> QED
    BY <1>2, <1>3, <2>1, <2>2, <2>3, <2>4, <2>6, EndType DEF Answered, TypeOK
<1>4. CASE Declined
  <2>1. c \in Calls
    BY <1>1, <1>4 DEF Declined
  <2>2. PICK r \in {"refused", "error"} : End(c, r) /\ SetCwd(c, r)
    BY <1>4 DEF Declined
  <2>3. cwd' \in [Drives -> Written] /\ astray' \subseteq Drives
    BY <2>1, <2>2, SetCwdType
  <2> HIDE DEF c
  <2> QED
    BY <1>2, <1>4, <2>1, <2>2, <2>3, EndType DEF Declined, TypeOK, treeVars
<1>5. ASSUME NEW r \in Calls, tree' = [tree EXCEPT ![r.slot] = Done(@, r)],
             files' = Follow(files, r),
             astray' = IF Carries(r) THEN astray \cup {r.slot} ELSE astray
      PROVE  /\ tree' \in [Drives -> Trees]
             /\ files' \in Seq(Descriptor)
             /\ astray' \subseteq Drives
  <2>1. tree' \in [Drives -> Trees]
    BY <1>5, TakeType DEF Take
  <2>2. files' \in Seq(Descriptor)
    BY <1>5, FollowType DEF TypeOK
  <2>3. astray' \subseteq Drives
    BY <1>5 DEF TypeOK, Calls
  <2> QED
    BY <2>1, <2>2, <2>3
<1>6. CASE Unheard
  <2>1. c \in Calls
    BY <1>1, <1>6 DEF Unheard, NoCall, Request, Changes, Changing
  <2>2. /\ tree' \in [Drives -> Trees]
        /\ files' \in Seq(Descriptor)
        /\ astray' \subseteq Drives
    BY <1>5, <1>6, <2>1 DEF Unheard, Take
  <2>3. /\ sent' \in BOOLEAN /\ performed' \in BOOLEAN /\ upset' \in BOOLEAN
        /\ events' \in Nat
        /\ UNCHANGED <<cwd, call, retries, last, hung, delayed, late, clash>>
    <3>1. events \in Nat
      BY DEF TypeOK
    <3>2. events' \in Nat
      BY <1>6, <3>1 DEF Unheard, Event
    <3> QED
      BY <1>6, <3>2 DEF Unheard
  <2> QED
    BY <2>2, <2>3 DEF TypeOK
<1>7. CASE HeldBack
  <2>1. c \in Calls
    BY <1>1, <1>7, CallsAreCalls DEF HeldBack, NoCall, Request, Changing
  <2>2. delayed' \subseteq {x \in Calls : x.kind \in Changing}
    BY <1>7, <2>1 DEF HeldBack, TypeOK
  <2>3. /\ sent' \in BOOLEAN /\ events' \in Nat
        /\ UNCHANGED <<tree, cwd, files, call, retries, last, hung, performed, late, upset,
                       clash, astray>>
    <3>1. events \in Nat
      BY DEF TypeOK
    <3>2. events' \in Nat
      BY <1>7, <3>1 DEF HeldBack, Event
    <3> QED
      BY <1>7, <3>2 DEF HeldBack
  <2> QED
    BY <2>2, <2>3 DEF TypeOK
<1>8. CASE TimedOut
  <2>1. c \in Calls
    BY <1>1, <1>8 DEF TimedOut
  <2>2. CASE retries > 0
    <3>1. retries - 1 \in 0..Retries
      BY <2>2, NumbersAssumption DEF TypeOK
    <3> QED
      BY <1>8, <2>2, <3>1 DEF TimedOut, TypeOK, treeVars
  <2>3. CASE ~(retries > 0)
    <3>1. End(c, "error") /\ SetCwd(c, "error")
      BY <1>8, <2>3 DEF TimedOut
    <3>2. cwd' \in [Drives -> Written] /\ astray' \subseteq Drives
      BY <2>1, <3>1, SetCwdType
    <3> HIDE DEF c
    <3> QED
      BY <1>2, <1>8, <2>1, <3>1, <3>2, EndType DEF TimedOut, TypeOK, treeVars
  <2> QED
    BY <2>2, <2>3
<1>9. ASSUME NEW r \in delayed, Arrives(r)
      PROVE  TypeOK'
  <2>1. r \in Calls
    BY DEF TypeOK
  <2>2. /\ tree' \in [Drives -> Trees]
        /\ files' \in Seq(Descriptor)
        /\ astray' \subseteq Drives
    BY <1>5, <1>9, <2>1 DEF Arrives, Take
  <2>3. delayed' \subseteq {x \in Calls : x.kind \in Changing}
    BY <1>9 DEF Arrives, TypeOK
  <2> QED
    BY <1>9, <2>1, <2>2, <2>3 DEF Arrives, TypeOK, callVars
<1> QED
  BY <1>3, <1>4, <1>6, <1>7, <1>8, <1>9 DEF RoundTrip

\* ... then the calls on an SD drive.
LEMMA OnSdType ==
  ASSUME TypeOK, OnSd
  PROVE  TypeOK'
<1>1. PICK s \in SdDrives : \E p \in Resolved(s) :
          \/ \E kind \in {"mkdir", "rmdir"} : SdCall(Request(kind, s, p, p))
          \/ \E q \in Resolved(s) : SdCall(Request("rename", s, p, q))
          \/ SdFdelete(s, p)
          \/ SdDsetpath(s, p)
  BY DEF OnSd
<1>2. s \in Drives /\ Resolved(s) \subseteq Written
  BY ResolvedType DEF Drives
<1>7. PICK p \in Written :
          \/ \E kind \in {"mkdir", "rmdir"} : SdCall(Request(kind, s, p, p))
          \/ \E q \in Resolved(s) : SdCall(Request("rename", s, p, q))
          \/ SdFdelete(s, p)
          \/ SdDsetpath(s, p)
  BY <1>1, <1>2
<1>3. ASSUME NEW c \in Calls, SdCall(c)
      PROVE  TypeOK'
  <2>1. SdDoes(files, c) /\ files \in Seq(Descriptor)
    BY <1>3 DEF SdCall, TypeOK
  <2>2. clash' \in BOOLEAN
    BY <1>3 DEF SdCall, TypeOK
  <2> QED
    BY <1>3, <2>1, <2>2, SdDoesType DEF SdCall, TypeOK, Event
<1>4. ASSUME NEW kind \in {"mkdir", "rmdir", "rename"}, NEW q \in Written,
             SdCall(Request(kind, s, p, q))
      PROVE  TypeOK'
  <2>1. Request(kind, s, p, q) \in Calls
    BY <1>2, RequestType DEF Changing
  <2> QED
    BY <1>3, <1>4, <2>1
<1>5. CASE SdFdelete(s, p)
  <2> DEFINE c == Request("unlink", s, p, p)
             others == Closing(files, p, TnfsDrives)
             own == Closing(others, Key(s, p), SdDrives)
  <2>1. c \in Calls /\ c.slot \in SdDrives
    BY <1>2, RequestType DEF Changing, Request
  <2>2. others \in Seq(Descriptor)
    BY ClosingType DEF TypeOK
  <2>3. own \in Seq(Descriptor)
    BY <2>2, ClosingType
  <2>4. hung' \in BOOLEAN /\ clash' \in BOOLEAN
    BY <1>5 DEF SdFdelete, TypeOK, Hangs
  <2>5. CASE files' = others /\ UNCHANGED <<tree, cwd, callVars, astray>>
    BY <1>5, <2>2, <2>4, <2>5 DEF SdFdelete, TypeOK, Event, callVars
  <2>6. CASE SdDoes(own, c)
    <3> HIDE DEF c, own
    <3> QED
      BY <1>5, <2>1, <2>3, <2>4, <2>6, SdDoesType DEF SdFdelete, TypeOK, Event
  <2> QED
    BY <1>5, <2>5, <2>6 DEF SdFdelete
<1>6. CASE SdDsetpath(s, p)
  <2> DEFINE c == Request("chdir", s, p, p)
  <2>1. c \in Calls /\ c.kind = "chdir"
    BY <1>2, RequestType DEF Request
  <2>2. PICK r \in Results : End(c, r) /\ SetCwd(c, r)
    BY <1>6 DEF SdDsetpath, Results
  <2>3. cwd' \in [Drives -> Written] /\ astray' \subseteq Drives
    BY <2>1, <2>2, SetCwdType
  <2> HIDE DEF c
  <2> QED
    BY <1>6, <2>1, <2>2, <2>3, EndType DEF SdDsetpath, TypeOK, Event, treeVars
<1> QED
  BY <1>7, <1>2, <1>4, <1>5, <1>6

LEMMA TypeStep ==
  ASSUME TypeOK, [Next]_vars
  PROVE  TypeOK'
<1>1. CASE Next
  BY <1>1, CallsType, RoundTripType, OnSdType DEF Next
<1>2. CASE UNCHANGED vars
  BY <1>2 DEF vars, TypeOK
<1> QED
  BY <1>1, <1>2

(***************************************************************************)
(* THEOREM (TypeOK of the runs).  Every variable keeps its type.           *)
(***************************************************************************)
THEOREM TypeCorrect == Spec => []TypeOK
<1>1. Init => TypeOK
  BY InitInv DEF IInv
<1>2. TypeOK /\ [Next]_vars => TypeOK'
  BY TypeStep
<1> QED
  BY <1>1, <1>2, PTL DEF Spec

----------------------------------------------------------------------------
(* The abstract specification: the same operators, and its steps           *)

LEMMA SamePaths ==
  /\ Promise!Paths = Paths
  /\ Promise!Root = Root
  /\ Promise!Trees = Trees
  /\ Promise!Changing = Changing
  /\ Promise!Calls = Calls
  /\ Promise!NoCall = NoCall
  /\ Promise!Results = Results
  /\ \A c, r : Promise!Ended(c, r) = Ended(c, r)
  /\ \A c : Promise!Changes(c) <=> Changes(c)
<1>1. Promise!Paths = Paths /\ Promise!Root = Root /\ Promise!Changing = Changing
  BY DEF Promise!Paths, Paths, Promise!Root, Root, Promise!Changing, Changing
<1>2. Promise!Trees = Trees
  BY <1>1 DEF Promise!Trees, Trees
<1>3. Promise!Calls = Calls
  BY <1>1 DEF Promise!Calls, Calls
<1>4. Promise!NoCall = NoCall
  BY <1>1 DEF Promise!NoCall, NoCall, Promise!Request, Request, Promise!Plain, Plain
<1>5. Promise!Results = Results
  BY DEF Promise!Results, Results
<1>6. \A c, r : Promise!Ended(c, r) = Ended(c, r)
  BY DEF Promise!Ended, Ended
<1>7. \A c : Promise!Changes(c) <=> Changes(c)
  BY <1>1 DEF Promise!Changes, Changes
<1> QED
  BY <1>1, <1>2, <1>3, <1>4, <1>5, <1>6, <1>7

LEMMA SameEffects ==
  ASSUME NEW t, NEW c
  PROVE  /\ Promise!CanDo(t, c) <=> CanDo(t, c)
         /\ Promise!Done(t, c) = Done(t, c)
<1>1. \A p, q : Promise!Under(p, q) <=> Under(p, q)
  BY DEF Promise!Under, Under
<1>2. \A p, q, r : Promise!Moved(p, q, r) = Moved(p, q, r)
  BY DEF Promise!Moved, Moved
<1>3. \A p : Promise!CanHold(t, p) <=> CanHold(t, p)
  BY SamePaths DEF Promise!CanHold, CanHold, Promise!Parent, Parent
<1>4. \A p : Promise!Below(t, p) = Below(t, p)
  BY <1>1, SamePaths DEF Promise!Below, Below
<1>5. \A p, q : Promise!CanRename(t, p, q) <=> CanRename(t, p, q)
  BY <1>1, <1>2, <1>3, <1>4, SamePaths DEF Promise!CanRename, CanRename
<1>6. \A p, q : Promise!Renamed(t, p, q) = Renamed(t, p, q)
  BY <1>1, <1>2, SamePaths DEF Promise!Renamed, Renamed
<1>7. \A p : Promise!EmptyFolder(t, p) <=> EmptyFolder(t, p)
  BY <1>4 DEF Promise!EmptyFolder, EmptyFolder
<1>8. Promise!CanDo(t, c) <=> CanDo(t, c)
  BY <1>3, <1>5, <1>7, SamePaths DEF Promise!CanDo, CanDo
<1>9. Promise!Done(t, c) = Done(t, c)
  BY <1>6 DEF Promise!Done, Done
<1> QED
  BY <1>8, <1>9

\* A call begins.
LEMMA BeginStep ==
  ASSUME NEW c \in Calls, c.kind # "create", call = NoCall, Send(c), UNCHANGED <<tree, late>>
  PROVE  CallInv' /\ Promise!OeNext
<1>1. CallInv'
  BY CallsAreCalls DEF CallInv, Send
<1>2. Promise!OeBegin(call')
  BY SamePaths DEF Promise!OeBegin, Send
<1> QED
  BY <1>1, <1>2 DEF Promise!OeNext

\* A call ends well, in the step that takes effect.
LEMMA SuccessStep ==
  ASSUME NEW c \in Calls, call \in {NoCall, c}, late # NoCall \/ ~performed,
         IF Changes(c) THEN CanDo(tree[c.slot], c) /\ Take(c) ELSE UNCHANGED tree,
         End(c, "ok"), UNCHANGED late
  PROVE  CallInv' /\ Promise!OeNext
<1>1. CallInv'
  BY DEF CallInv, End, NoCall, Request
<1>2. last'.call = c
  BY DEF End, Ended
<1>3. Promise!Succeed(c)
  BY SamePaths, SameEffects DEF Promise!Succeed, Promise!Effect, Take, End
<1> QED
  BY <1>1, <1>2, <1>3 DEF Promise!OeNext

\* A call ends badly, and nothing changes.
LEMMA FailureStep ==
  ASSUME NEW c \in Calls, call \in {NoCall, c},
         NEW r \in {"refused", "error"}, End(c, r), UNCHANGED <<tree, late>>
  PROVE  CallInv' /\ Promise!OeNext
<1>1. CallInv'
  BY DEF CallInv, End, NoCall, Request
<1>2. last'.call = c
  BY DEF End, Ended
<1>3. Promise!Fail(c)
  <2>1. r \in Results \ {"ok"}
    BY DEF Results
  <2> QED
    BY <2>1, SamePaths DEF Promise!Fail, End
<1> QED
  BY <1>1, <1>2, <1>3 DEF Promise!OeNext

\* Every step keeps CallInv and is one of the abstract specification.
LEMMA CallsRefine ==
  ASSUME TypeOK, CallInv,
         \/ TurnedDown
         \/ \E s \in Drives : \E p \in Resolved(s) : Fopen(s, p) \/ Fcreate(s, p)
         \/ Fclose
         \/ OnTnfs
  PROVE  CallInv' /\ [Promise!OeNext]_(Promise!oeVars)
<1>0. ASSUME UNCHANGED <<tree, call, performed, last, late>>
      PROVE  CallInv' /\ UNCHANGED Promise!oeVars
  BY <1>0 DEF CallInv, Promise!oeVars
<1>1. CASE TurnedDown
  <2>1. PICK s \in Drives, kind \in Changing \ {"create"}, r \in {"refused", "error"} :
            End(Request(kind, s, Plain(Root), Plain(Root)), r)
    BY <1>1 DEF TurnedDown
  <2>2. Request(kind, s, Plain(Root), Plain(Root)) \in Calls
    BY RootIsPath, PlainType, RequestType
  <2> QED
    BY <1>1, <2>1, <2>2, FailureStep DEF TurnedDown, Idle
<1>2. ASSUME NEW s \in Drives, NEW p \in Written, Fopen(s, p)
      PROVE  CallInv' /\ UNCHANGED Promise!oeVars
  BY <1>0, <1>2 DEF Fopen, callVars
<1>3. ASSUME NEW s \in Drives, NEW p \in Written, Fcreate(s, p)
      PROVE  CallInv' /\ Promise!OeNext
  <2> DEFINE c == Request("create", s, p, p)
  <2>1. c \in Calls /\ c.slot = s /\ Changes(c)
    BY RequestType DEF Changing, Changes, Request
  <2>2. call = NoCall /\ ~performed
    BY <1>3, CallsAreCalls DEF Fcreate, Idle, CallInv, NoCall, Request, Changes, Changing
  <2>3. CanDo(tree[c.slot], c) /\ Take(c) /\ End(c, "ok") /\ UNCHANGED late
    BY <1>3, <2>1 DEF Fcreate, Take
  <2> HIDE DEF c
  <2> QED
    BY <2>1, <2>2, <2>3, SuccessStep
<1>4. CASE Fclose
  BY <1>0, <1>4 DEF Fclose, callVars, treeVars
<1>5. ASSUME NEW s \in TnfsDrives, NEW p \in Written, NEW q \in Written,
             \/ Look(s, p, "chdir") \/ Look(s, p, "stat")
             \/ Dcreate(s, p) \/ Ddelete(s, p) \/ Fdelete(s, p) \/ Frename(s, p, q)
      PROVE  CallInv' /\ [Promise!OeNext]_(Promise!oeVars)
  <2>1. s \in Drives
    BY DEF Drives
  <2>2. ASSUME NEW kind \in (Changing \ {"create"}) \cup {"chdir", "stat"}, NEW r \in Written,
               Idle, Send(Request(kind, s, p, r)), UNCHANGED treeVars
        PROVE  CallInv' /\ Promise!OeNext
    <3>1. Request(kind, s, p, r) \in Calls /\ Request(kind, s, p, r).kind # "create"
      BY <2>1, RequestType DEF Request
    <3> QED
      BY <2>2, <3>1, BeginStep DEF Idle, treeVars
  <2>3. CASE Look(s, p, "chdir") \/ Look(s, p, "stat")
    BY <2>2, <2>3 DEF Look
  <2>4. CASE Dcreate(s, p)
    BY <2>2, <2>4 DEF Dcreate, Changing
  <2>5. CASE Ddelete(s, p)
    BY <2>2, <2>5 DEF Ddelete, Changing
  <2>6. CASE Frename(s, p, q)
    BY <2>2, <2>6 DEF Frename, Changing
  <2>7. CASE Fdelete(s, p)
    <3>1. CASE UNCHANGED callVars
      BY <1>0, <2>7, <3>1 DEF Fdelete, callVars, treeVars
    <3>2. CASE Send(Request("unlink", s, p, p))
      BY <2>2, <2>7, <3>2 DEF Fdelete, Changing
    <3> QED
      BY <2>7, <3>1, <3>2 DEF Fdelete
  <2> QED
    BY <1>5, <2>3, <2>4, <2>5, <2>6, <2>7
<1>6. CASE OnTnfs
  <2>1. PICK s \in TnfsDrives :
            \/ \E p \in Resolved(s) : \/ Dsetpath(s, p) \/ Fattrib(s, p)
                                      \/ Dcreate(s, p) \/ Ddelete(s, p) \/ Fdelete(s, p)
                                      \/ \E q \in Resolved(s) : Frename(s, p, q)
            \/ Fdatime(s)
    BY <1>6 DEF OnTnfs
  <2>2. Resolved(s) \subseteq Written
    BY ResolvedType
  <2>3. \A i \in DOMAIN files : files[i].slot = s => files[i].fpath \in Written
    BY DEF TypeOK, Descriptor
  <2> QED
    BY <1>5, <2>1, <2>2, <2>3 DEF Dsetpath, Fattrib, Fdatime
<1> QED
  BY <1>1, <1>2, <1>3, <1>4, <1>6, ResolvedType

LEMMA RoundTripRefines ==
  ASSUME TypeOK, CallInv, RoundTrip
  PROVE  CallInv' /\ [Promise!OeNext]_(Promise!oeVars)
<1>0. ASSUME UNCHANGED <<tree, call, performed, last, late>>
      PROVE  CallInv' /\ UNCHANGED Promise!oeVars
  BY <1>0 DEF CallInv, Promise!oeVars
<1>1. call # NoCall => call \in Calls
  BY DEF TypeOK
<1>2. CASE Answered
  <2>1. call \in Calls
    BY <1>1, <1>2 DEF Answered
  <2>2. IF Changes(call) THEN CanDo(tree[call.slot], call) /\ Take(call)
        ELSE UNCHANGED tree
    BY <1>2 DEF Answered
  <2>3. late # NoCall \/ ~performed
    BY <2>2 DEF CallInv
  <2>4. End(call, "ok") /\ UNCHANGED late
    BY <1>2 DEF Answered
  <2> QED
    BY <2>1, <2>2, <2>3, <2>4, SuccessStep
<1>3. CASE Declined
  <2>1. call \in Calls
    BY <1>1, <1>3 DEF Declined
  <2>2. PICK r \in {"refused", "error"} : End(call, r)
    BY <1>3 DEF Declined
  <2>3. UNCHANGED <<tree, late>>
    BY <1>3 DEF Declined, treeVars
  <2> QED
    BY <2>1, <2>2, <2>3, FailureStep
<1>4. CASE Unheard
  <2>1. call # NoCall /\ Changes(call)
    BY <1>4 DEF Unheard, NoCall, Request, Changes, Changing
  <2>2. call \in Calls /\ call.kind # "create"
    BY <1>1, <2>1 DEF CallInv
  <2>3. CanDo(tree[call.slot], call) /\ Take(call) /\ performed' = TRUE
    BY <1>4 DEF Unheard
  <2>4. UNCHANGED <<call, last, late>>
    BY <1>4 DEF Unheard
  <2>5. late # NoCall \/ ~performed
    BY <2>3 DEF CallInv
  <2>6. tree'[call.slot] = Done(tree[call.slot], call) /\ tree[call.slot] \in Trees
    <3>1. call.slot \in Drives /\ tree \in [Drives -> Trees]
      BY <2>2 DEF TypeOK, Calls
    <3> QED
      BY <2>3, <3>1 DEF Take
  <2>7. ~CanDo(tree'[call.slot], call)
    BY <2>2, <2>3, <2>6, NotTwice
  <2>8. CallInv'
    BY <2>1, <2>2, <2>4, <2>7 DEF CallInv
  <2>9. Promise!Perform
    BY <2>1, <2>3, <2>4, <2>5, SamePaths, SameEffects
    DEF Promise!Perform, Promise!Effect, Take
  <2> QED
    BY <2>8, <2>9 DEF Promise!OeNext
<1>5. CASE HeldBack
  BY <1>0, <1>5 DEF HeldBack
<1>6. CASE TimedOut
  <2>1. call \in Calls
    BY <1>1, <1>6 DEF TimedOut
  <2>2. CASE retries > 0
    BY <1>0, <1>6, <2>2 DEF TimedOut, treeVars
  <2>3. CASE ~(retries > 0)
    BY <1>6, <2>1, <2>3, FailureStep DEF TimedOut, treeVars
  <2> QED
    BY <2>2, <2>3
<1>7. ASSUME NEW c \in delayed, Arrives(c)
      PROVE  CallInv' /\ Promise!OeNext
  <2>1. c \in Calls
    BY DEF TypeOK
  <2>2. late' = c /\ UNCHANGED <<call, performed, last>>
    BY <1>7 DEF Arrives, callVars
  <2>3. CallInv'
    BY <2>1, <2>2, CallsAreCalls DEF CallInv
  <2>4. Promise!Late(late')
    BY <1>7, <2>1, <2>2, SamePaths, SameEffects DEF Promise!Late, Promise!Effect, Arrives, Take
  <2> QED
    BY <2>3, <2>4 DEF Promise!OeNext
<1> QED
  BY <1>2, <1>3, <1>4, <1>5, <1>6, <1>7 DEF RoundTrip

LEMMA SdDoesRefines ==
  ASSUME CallInv, NEW c \in Calls, NEW fs, call = NoCall, SdDoes(fs, c), UNCHANGED late
  PROVE  CallInv' /\ Promise!OeNext
<1>1. ~performed
  BY DEF CallInv, NoCall, Request, Changes, Changing
<1>2. CASE /\ SdAllows(fs, c) /\ End(c, "ok")
           /\ IF Changes(c) THEN Take(c) ELSE UNCHANGED tree
  <2>1. Changes(c) => CanDo(tree[c.slot], c)
    BY <1>2 DEF SdAllows
  <2> QED
    BY <1>1, <1>2, <2>1, SuccessStep
<1>3. CASE /\ UNCHANGED tree
           /\ \E r \in {"refused", "error"} : End(c, r)
  BY <1>3, FailureStep
<1> QED
  BY <1>2, <1>3 DEF SdDoes

LEMMA OnSdRefines ==
  ASSUME TypeOK, CallInv, OnSd
  PROVE  CallInv' /\ [Promise!OeNext]_(Promise!oeVars)
<1>1. PICK s \in SdDrives : \E p \in Resolved(s) :
          \/ \E kind \in {"mkdir", "rmdir"} : SdCall(Request(kind, s, p, p))
          \/ \E q \in Resolved(s) : SdCall(Request("rename", s, p, q))
          \/ SdFdelete(s, p)
          \/ SdDsetpath(s, p)
  BY DEF OnSd
<1>2. s \in Drives /\ Resolved(s) \subseteq Written
  BY ResolvedType DEF Drives
<1>3. PICK p \in Written :
          \/ \E kind \in {"mkdir", "rmdir"} : SdCall(Request(kind, s, p, p))
          \/ \E q \in Resolved(s) : SdCall(Request("rename", s, p, q))
          \/ SdFdelete(s, p)
          \/ SdDsetpath(s, p)
  BY <1>1, <1>2
<1>4. ASSUME NEW kind \in {"mkdir", "rmdir", "rename"}, NEW q \in Written,
             SdCall(Request(kind, s, p, q))
      PROVE  CallInv' /\ Promise!OeNext
  <2> DEFINE c == Request(kind, s, p, q)
  <2>1. c \in Calls /\ c.kind \in Changing
    BY <1>2, RequestType DEF Changing, Request
  <2>2. SdDoes(files, c) /\ call = NoCall /\ UNCHANGED late
    BY <1>4 DEF SdCall, Idle
  <2> HIDE DEF c
  <2> QED
    BY <2>1, <2>2, SdDoesRefines
<1>5. CASE SdFdelete(s, p)
  <2> DEFINE c == Request("unlink", s, p, p)
             own == Closing(Closing(files, p, TnfsDrives), Key(s, p), SdDrives)
  <2>1. c \in Calls /\ c.kind \in Changing
    BY <1>2, RequestType DEF Changing, Request
  <2>2. call = NoCall /\ UNCHANGED late
    BY <1>5 DEF SdFdelete, Idle
  <2>3. CASE UNCHANGED <<tree, callVars>>
    BY <2>2, <2>3 DEF CallInv, Promise!oeVars, callVars
  <2>4. CASE SdDoes(own, c)
    <3> HIDE DEF c, own
    <3> QED
      BY <2>1, <2>2, <2>4, SdDoesRefines
  <2> QED
    BY <1>5, <2>3, <2>4 DEF SdFdelete
<1>6. CASE SdDsetpath(s, p)
  <2> DEFINE c == Request("chdir", s, p, p)
  <2>1. c \in Calls /\ c.kind \notin Changing
    BY <1>2, RequestType DEF Changing, Request
  <2>2. call = NoCall /\ UNCHANGED <<tree, late>>
    BY <1>6 DEF SdDsetpath, Idle, treeVars
  <2>3. ~performed /\ ~Changes(c)
    BY <2>1, <2>2 DEF CallInv, NoCall, Request, Changes, Changing
  <2>4. PICK r \in {"ok", "refused"} : End(c, r)
    BY <1>6 DEF SdDsetpath
  <2> HIDE DEF c
  <2> QED
    BY <2>1, <2>2, <2>3, <2>4, SuccessStep, FailureStep
<1> QED
  BY <1>2, <1>3, <1>4, <1>5, <1>6

LEMMA RefinesStep ==
  ASSUME IInv, [Next]_vars
  PROVE  IInv' /\ [Promise!OeNext]_(Promise!oeVars)
<1>1. TypeOK'
  BY TypeStep DEF IInv
<1>2. CASE Next
  BY <1>1, <1>2, CallsRefine, RoundTripRefines, OnSdRefines DEF Next, IInv
<1>3. CASE UNCHANGED vars
  BY <1>1, <1>3 DEF vars, IInv, CallInv, Promise!oeVars
<1> QED
  BY <1>2, <1>3

(***************************************************************************)
(* THEOREM (TakesEffectOnce of run fileops).  The handlers with their      *)
(* retries implement OneEffect: a call takes effect at most once, success  *)
(* is reported only with the effect, and only a request that the network   *)
(* held back escapes.                                                      *)
(***************************************************************************)
THEOREM OnceForAll == Spec => TakesEffectOnce
<1>1. Init => IInv /\ Promise!OeInit
  <2>1. Init => Promise!OeInit
    BY TreeAssumption, SamePaths DEF Init, Promise!OeInit
  <2> QED
    BY <2>1, InitInv
<1>2. IInv /\ [Next]_vars => IInv' /\ [Promise!OeNext]_(Promise!oeVars)
  BY RefinesStep
<1> QED
  BY <1>1, <1>2, PTL DEF Spec, TakesEffectOnce, Promise!OeSpec


----------------------------------------------------------------------------
(* What lies under what                                                    *)

LEMMA PathChar ==
  ASSUME NEW p
  PROVE  p \in Paths <=> p \in Seq(Names) /\ Len(p) <= MaxDepth
<1>1. ASSUME p \in Seq(Names), Len(p) <= MaxDepth
      PROVE  p \in Paths
  <2>1. Len(p) \in 0..MaxDepth /\ p \in [1..Len(p) -> Names]
    BY <1>1, LenProperties, DepthAssumption
  <2> QED
    BY <2>1 DEF Paths
<1>2. p \in Paths => p \in Seq(Names) /\ Len(p) <= MaxDepth
  BY PathIsSeq, DepthAssumption
<1> QED
  BY <1>1, <1>2

\* Name by name: q is a beginning of p.
LEMMA UnderChar ==
  ASSUME NEW p \in Seq(Names), NEW q \in Seq(Names)
  PROVE  Under(p, q) <=> Len(q) <= Len(p) /\ \A i \in 1..Len(q) : p[i] = q[i]
<1> SUFFICES ASSUME Len(q) <= Len(p)
             PROVE  SubSeq(p, 1, Len(q)) = q <=> \A i \in 1..Len(q) : p[i] = q[i]
  BY DEF Under
<1> DEFINE b == SubSeq(p, 1, Len(q))
<1>1. Len(p) \in Nat /\ Len(q) \in Nat
  OBVIOUS
<1>2. b \in Seq(Names) /\ Len(b) = Len(q) /\ \A i \in 1..Len(q) : b[i] = p[i]
  <2>1. \A i \in 1..Len(q) : p[i] \in Names
    BY <1>1
  <2> QED
    BY <1>1, <2>1, SubSeqProperties
<1> HIDE DEF b
<1>3. b = q <=> \A i \in 1..Len(q) : b[i] = q[i]
  BY <1>2, SeqEqual
<1> QED
  BY <1>2, <1>3 DEF b

LEMMA UnderTransitive ==
  ASSUME NEW x \in Seq(Names), NEW y \in Seq(Names), NEW z \in Seq(Names),
         Under(x, y), Under(y, z)
  PROVE  Under(x, z)
<1>1. Len(x) \in Nat /\ Len(y) \in Nat /\ Len(z) \in Nat
  OBVIOUS
<1>2. Len(y) <= Len(x) /\ \A i \in 1..Len(y) : x[i] = y[i]
  BY UnderChar
<1>3. Len(z) <= Len(y) /\ \A i \in 1..Len(z) : y[i] = z[i]
  BY UnderChar
<1>4. Len(z) <= Len(x) /\ \A i \in 1..Len(z) : x[i] = z[i]
  BY <1>1, <1>2, <1>3
<1> QED
  BY <1>4, UnderChar

\* Two folders above the same path: one is above the other.
LEMMA UnderLinear ==
  ASSUME NEW x \in Seq(Names), NEW y \in Seq(Names), NEW z \in Seq(Names),
         Under(x, y), Under(x, z)
  PROVE  Under(y, z) \/ Under(z, y)
<1>1. Len(x) \in Nat /\ Len(y) \in Nat /\ Len(z) \in Nat
  OBVIOUS
<1>2. Len(y) <= Len(x) /\ \A i \in 1..Len(y) : x[i] = y[i]
  BY UnderChar
<1>3. Len(z) <= Len(x) /\ \A i \in 1..Len(z) : x[i] = z[i]
  BY UnderChar
<1>4. CASE Len(z) <= Len(y)
  <2>1. \A i \in 1..Len(z) : y[i] = z[i]
    BY <1>1, <1>2, <1>3, <1>4
  <2> QED
    BY <1>4, <2>1, UnderChar
<1>5. CASE ~(Len(z) <= Len(y))
  <2>1. \A i \in 1..Len(y) : z[i] = y[i]
    BY <1>1, <1>2, <1>3, <1>5
  <2> QED
    BY <1>1, <1>5, <2>1, UnderChar
<1> QED
  BY <1>4, <1>5

LEMMA UnderAntisymmetric ==
  ASSUME NEW x \in Seq(Names), NEW y \in Seq(Names), Under(x, y), Under(y, x)
  PROVE  x = y
<1>1. Len(x) \in Nat /\ Len(y) \in Nat
  OBVIOUS
<1>2. Len(x) = Len(y) /\ \A i \in 1..Len(y) : x[i] = y[i]
  BY <1>1, UnderChar
<1> QED
  BY <1>2, SeqEqual

\* A path is under its parent, and so is all that is above it.
LEMMA ParentAbove ==
  ASSUME NEW p \in Paths, p # Root
  PROVE  /\ Parent(p) \in Paths /\ Parent(p) # p /\ Under(p, Parent(p))
         /\ \A q \in Paths : Under(p, q) /\ q # p => Under(Parent(p), q)
<1>1. p \in Seq(Names) /\ Len(p) \in Nat /\ Len(p) # 0
  BY PathIsSeq, EmptySeq DEF Root
<1>2. Parent(p) \in Paths /\ Parent(p) \in Seq(Names)
  BY ParentIsPath, PathIsSeq
<1>3. Len(Parent(p)) = Len(p) - 1 /\ \A i \in 1..(Len(p) - 1) : Parent(p)[i] = p[i]
  <2>1. \A i \in 1..(Len(p) - 1) : p[i] \in Names
    BY <1>1
  <2> QED
    <3>1. Parent(p) = SubSeq(p, 1, Len(p) - 1)
      BY DEF Parent
    <3>2. Len(p) - 1 \in Nat /\ Len(p) - 1 + 1 - 1 = Len(p) - 1
      BY <1>1
    <3>3. Len(SubSeq(p, 1, Len(p) - 1)) = Len(p) - 1
      BY <1>1, <2>1, <3>2, SubSeqProperties
    <3>4. \A i \in 1..(Len(p) - 1) : SubSeq(p, 1, Len(p) - 1)[i] = p[i]
      BY <1>1, <2>1, <3>2, SubSeqProperties
    <3> QED
      BY <3>1, <3>3, <3>4
<1>4. Parent(p) # p
  BY <1>1, <1>3
<1>5. Under(p, Parent(p))
  BY <1>1, <1>2, <1>3, UnderChar
<1>6. ASSUME NEW q \in Paths, Under(p, q), q # p
      PROVE  Under(Parent(p), q)
  <2>1. q \in Seq(Names) /\ Len(q) \in Nat
    BY PathIsSeq
  <2>2. Len(q) <= Len(p) /\ \A i \in 1..Len(q) : p[i] = q[i]
    BY <1>1, <1>6, <2>1, UnderChar
  <2>3. Len(q) # Len(p)
    BY <1>1, <1>6, <2>1, <2>2, SeqEqual
  <2>4. Len(q) <= Len(Parent(p)) /\ \A i \in 1..Len(q) : Parent(p)[i] = q[i]
    BY <1>1, <1>3, <2>1, <2>2, <2>3
  <2> QED
    BY <1>2, <2>1, <2>4, UnderChar
<1> QED
  BY <1>2, <1>4, <1>5, <1>6

\* y is x with r in the place of the beginning q.
IsMoved(y, x, q, r) ==
    /\ y \in Seq(Names)
    /\ Len(y) = Len(r) + (Len(x) - Len(q))
    /\ \A i \in 1..Len(r) : y[i] = r[i]
    /\ \A i \in 1..(Len(x) - Len(q)) : y[Len(r) + i] = x[Len(q) + i]

LEMMA MovedChar ==
  ASSUME NEW x \in Seq(Names), NEW q \in Seq(Names), NEW r \in Seq(Names), Under(x, q)
  PROVE  IsMoved(Moved(x, q, r), x, q, r)
<1> DEFINE b == SubSeq(x, Len(q) + 1, Len(x))
<1>1. Len(x) \in Nat /\ Len(q) \in Nat /\ Len(r) \in Nat /\ Len(q) <= Len(x)
  BY DEF Under
<1>2. /\ b \in Seq(Names) /\ Len(b) = Len(x) - Len(q)
      /\ \A i \in 1..(Len(x) - Len(q)) : b[i] = x[Len(q) + i]
  <2>1. \A i \in (Len(q) + 1)..Len(x) : x[i] \in Names
    BY <1>1
  <2>2. b \in Seq(Names)
    BY <1>1, <2>1, SubSeqProperties
  <2>3. Len(b) = Len(x) - Len(q)
    BY <1>1, <2>1, SubSeqProperties
  <2>4. \A i \in 1..(Len(x) - Len(q)) : b[i] = x[Len(q) + 1 + i - 1]
    BY <1>1, <2>1, SubSeqProperties
  <2>5. \A i \in 1..(Len(x) - Len(q)) : Len(q) + 1 + i - 1 = Len(q) + i
    BY <1>1
  <2> QED
    BY <2>2, <2>3, <2>4, <2>5
<1>3. Moved(x, q, r) = r \o b
  BY DEF Moved
<1> HIDE DEF b
<1>4. /\ r \o b \in Seq(Names) /\ Len(r \o b) = Len(r) + Len(b)
      /\ \A i \in 1..(Len(r) + Len(b)) :
             (r \o b)[i] = IF i <= Len(r) THEN r[i] ELSE b[i - Len(r)]
  BY <1>2, ConcatProperties
<1>5. \A i \in 1..Len(r) : (r \o b)[i] = r[i]
  BY <1>1, <1>2, <1>4
<1>6. \A i \in 1..(Len(x) - Len(q)) : (r \o b)[Len(r) + i] = b[i]
  BY <1>1, <1>2, <1>4
<1> QED
  BY <1>1, <1>2, <1>3, <1>4, <1>5, <1>6 DEF IsMoved

\* What a rename moves lies as before, one with the other.
LEMMA MovedUnder ==
  ASSUME NEW x \in Paths, NEW y \in Paths, NEW q \in Paths, NEW r \in Paths,
         Under(x, y), x # y, Under(y, q), Moved(x, q, r) \in Paths
  PROVE  /\ Moved(y, q, r) \in Paths
         /\ Under(Moved(x, q, r), Moved(y, q, r))
         /\ Moved(x, q, r) # Moved(y, q, r)
<1>1. /\ x \in Seq(Names) /\ y \in Seq(Names) /\ q \in Seq(Names) /\ r \in Seq(Names)
      /\ Len(x) \in Nat /\ Len(y) \in Nat /\ Len(q) \in Nat /\ Len(r) \in Nat
  BY PathIsSeq
<1>2. Len(y) <= Len(x) /\ \A i \in 1..Len(y) : x[i] = y[i]
  BY <1>1, UnderChar
<1>3. Len(y) # Len(x)
  BY <1>1, <1>2, SeqEqual
<1>4. Len(q) <= Len(y) /\ Under(x, q)
  BY <1>1, UnderTransitive DEF Under
<1> DEFINE X == Moved(x, q, r)
           Y == Moved(y, q, r)
<1>5. IsMoved(X, x, q, r)
  BY <1>1, <1>4, MovedChar
<1>6. IsMoved(Y, y, q, r)
  BY <1>1, MovedChar
<1>7. Len(X) <= MaxDepth
  BY PathChar
<1> HIDE DEF X, Y
<1>8. Len(Y) <= Len(X) /\ Len(Y) # Len(X)
  BY <1>1, <1>2, <1>3, <1>4, <1>5, <1>6 DEF IsMoved
<1>9. ASSUME NEW i \in 1..Len(Y) PROVE X[i] = Y[i]
  <2>1. CASE i <= Len(r)
    BY <1>1, <1>5, <1>6, <2>1 DEF IsMoved
  <2>2. CASE ~(i <= Len(r))
    <3> DEFINE j == i - Len(r)
    <3>1. j \in 1..(Len(y) - Len(q)) /\ i = Len(r) + j
      BY <1>1, <1>6, <2>2 DEF IsMoved
    <3>2. j \in 1..(Len(x) - Len(q)) /\ Len(q) + j \in 1..Len(y)
      BY <1>1, <1>2, <1>4, <3>1
    <3> HIDE DEF j
    <3> QED
      BY <1>2, <1>5, <1>6, <3>1, <3>2 DEF IsMoved
  <2> QED
    BY <2>1, <2>2
<1>10. Y \in Paths
  <2>1. Len(Y) \in Nat /\ Len(X) \in Nat
    BY <1>5, <1>6 DEF IsMoved
  <2>2. Len(Y) <= MaxDepth
    BY <1>7, <1>8, <2>1, DepthAssumption
  <2> QED
    BY <1>6, <2>2, PathChar DEF IsMoved
<1>11. Under(X, Y)
  BY <1>5, <1>6, <1>8, <1>9, UnderChar DEF IsMoved
<1> QED
  BY <1>8, <1>10, <1>11 DEF X, Y

----------------------------------------------------------------------------
(* What a change leaves of a tree                                          *)

LEMMA TreeChar ==
  ASSUME NEW t
  PROVE  IsTree(t) <=> \A p, x \in Paths :
                           Under(x, p) /\ x # p /\ t[x] # "none" => t[p] = "dir"
<1>1. \A p \in Paths : Below(t, p) # {} <=>
                           \E x \in Paths : x # p /\ Under(x, p) /\ t[x] # "none"
  BY DEF Below
<1> QED
  BY <1>1 DEF IsTree

\* One path is put where there is a folder for it, or taken where nothing is below it.
LEMMA SetOneTree ==
  ASSUME NEW t \in Trees, IsTree(t), NEW a \in Paths,
         NEW v \in {"none", "file", "dir"},
         IF v = "none" THEN Below(t, a) = {} ELSE t[a] # "dir" /\ CanHold(t, a)
  PROVE  IsTree([t EXCEPT ![a] = v])
<1> DEFINE u == [t EXCEPT ![a] = v]
<1>1. \A x \in Paths : u[x] = IF x = a THEN v ELSE t[x]
  BY DEF Trees
<1> HIDE DEF u
<1>3. ASSUME NEW p \in Paths, NEW x \in Paths, Under(x, p), x # p, u[x] # "none"
      PROVE  u[p] = "dir"
  <2>1. CASE x = a
    <3>1. v # "none" /\ u[p] = t[p] /\ t[Parent(a)] = "dir"
      BY <1>1, <1>3, <2>1 DEF CanHold
    <3>2. Parent(a) \in Paths /\ Under(Parent(a), p)
      BY <1>3, <2>1, <3>1, ParentAbove DEF CanHold
    <3>3. t[p] = "dir"
      BY <3>1, <3>2, TreeChar
    <3> QED
      BY <3>1, <3>3
  <2>2. CASE x # a
    <3>1. t[x] # "none"
      BY <1>1, <1>3, <2>2
    <3>2. t[p] = "dir"
      BY <1>3, <3>1, TreeChar
    <3>3. p # a
      <4>1. p = a => Below(t, a) # {} /\ t[a] = "dir"
        BY <1>3, <3>1, <3>2 DEF Below
      <4> QED
        BY <4>1
    <3> QED
      BY <1>1, <3>2, <3>3
  <2> QED
    BY <2>1, <2>2
<1>4. IsTree(u)
  BY <1>3, TreeChar
<1> QED
  BY <1>4 DEF u

LEMMA RenamedTree ==
  ASSUME NEW t \in Trees, IsTree(t), NEW a \in Paths, NEW b \in Paths, CanRename(t, a, b)
  PROVE  IsTree(Renamed(t, a, b))
<1> DEFINE u == Renamed(t, a, b)
<1>1. \A x \in Paths : u[x] = IF Under(x, b)
                              THEN LET y == Moved(x, b, a) IN IF y \in Paths THEN t[y] ELSE "none"
                              ELSE IF Under(x, a) THEN "none" ELSE t[x]
  BY DEF Renamed
<1> HIDE DEF u
<1>2. b # Root /\ t[Parent(b)] = "dir" /\ a # Root /\ ~Under(b, a)
  BY DEF CanRename, CanHold
<1>3. \A x \in Paths : x \in Seq(Names)
  BY PathIsSeq
<1>5. ASSUME NEW p \in Paths, NEW x \in Paths, Under(x, p), x # p, u[x] # "none"
      PROVE  u[p] = "dir"
  <2>1. CASE Under(x, b)
    <3> DEFINE y == Moved(x, b, a)
    <3>1. y \in Paths /\ t[y] # "none"
      BY <1>1, <1>5, <2>1
    <3> HIDE DEF y
    <3>2. CASE Under(p, b)
      <4> DEFINE z == Moved(p, b, a)
      <4>1. z \in Paths /\ Under(y, z) /\ y # z
        BY <1>5, <3>1, <3>2, MovedUnder DEF y
      <4>2. u[p] = t[z]
        BY <1>1, <3>2, <4>1
      <4> HIDE DEF z
      <4>3. t[z] = "dir"
        BY <3>1, <4>1, TreeChar
      <4> QED
        BY <4>2, <4>3
    <3>3. CASE ~Under(p, b)
      <4>1. Under(b, p)
        BY <1>3, <1>5, <2>1, <3>3, UnderLinear
      <4>2. b # p
        BY <3>3, PathIsSeq
      <4>3. Parent(b) \in Paths /\ Under(Parent(b), p)
        BY <1>2, <4>1, <4>2, ParentAbove
      <4>4. t[p] = "dir"
        BY <1>2, <4>3, TreeChar
      <4>5. ~Under(p, a)
        BY <1>2, <1>3, <4>1, UnderTransitive
      <4> QED
        BY <1>1, <3>3, <4>4, <4>5
    <3> QED
      BY <3>2, <3>3
  <2>2. CASE ~Under(x, b)
    <3>1. ~Under(x, a) /\ t[x] # "none"
      BY <1>1, <1>5, <2>2
    <3>2. t[p] = "dir"
      BY <1>5, <3>1, TreeChar
    <3>3. ~Under(p, b) /\ ~Under(p, a)
      BY <1>3, <1>5, <2>2, <3>1, UnderTransitive
    <3> QED
      BY <1>1, <3>2, <3>3
  <2> QED
    BY <2>1, <2>2
<1>6. IsTree(u)
  BY <1>5, TreeChar
<1> QED
  BY <1>6 DEF u

(***************************************************************************)
(* A change leaves a tree: nothing is ever without the folders above it.   *)
(***************************************************************************)
LEMMA DoneKeepsTree ==
  ASSUME NEW t \in Trees, NEW c \in Calls, IsTree(t), CanDo(t, c)
  PROVE  IsTree(Done(t, c))
<1>1. c.path \in Paths /\ c.to \in Paths
  BY DEF Calls
<1>2. CASE c.kind = "create"
  <2>1. t[c.path] # "dir" /\ CanHold(t, c.path)
    BY <1>2 DEF CanDo
  <2>2. IsTree([t EXCEPT ![c.path] = "file"])
    BY <1>1, <2>1, SetOneTree DEF CanHold
  <2> QED
    BY <1>2, <2>2 DEF Done
<1>3. CASE c.kind = "mkdir"
  <2>1. t[c.path] # "dir" /\ CanHold(t, c.path)
    BY <1>3 DEF CanDo
  <2>2. IsTree([t EXCEPT ![c.path] = "dir"])
    BY <1>1, <2>1, SetOneTree DEF CanHold
  <2> QED
    BY <1>3, <2>2 DEF Done
<1>4. CASE c.kind \in {"unlink", "rmdir"}
  <2>1. Below(t, c.path) = {}
    BY <1>1, <1>4 DEF CanDo, EmptyFolder, IsTree
  <2>2. IsTree([t EXCEPT ![c.path] = "none"])
    BY <1>1, <2>1, SetOneTree
  <2> QED
    BY <1>4, <2>2 DEF Done
<1>5. CASE c.kind = "rename"
  <2>1. CanRename(t, c.path, c.to)
    BY <1>5 DEF CanDo
  <2> QED
    BY <1>1, <1>5, <2>1, RenamedTree DEF Done
<1> QED
  BY <1>2, <1>3, <1>4, <1>5 DEF CanDo

\* A folder stays one, but for those that are renamed or removed.
LEMMA DoneKeepsFolder ==
  ASSUME NEW t \in Trees, NEW c \in Calls, IsTree(t), CanDo(t, c),
         NEW w \in Paths, t[w] = "dir",
         ~(c.kind \in {"rename", "rmdir", "unlink"} /\ Under(w, c.path))
  PROVE  Done(t, c)[w] = "dir"
<1>1. c.path \in Paths /\ c.to \in Paths
  BY DEF Calls
<1>2. CASE c.kind = "rename"
  <2>1. CanRename(t, c.path, c.to) /\ Done(t, c) = Renamed(t, c.path, c.to)
    BY <1>2 DEF CanDo, Done
  <2>2. t[c.to] # "dir"
    BY <2>1 DEF CanRename
  <2>3. ~Under(w, c.to)
    BY <1>1, <2>2, TreeChar
  <2> QED
    BY <1>2, <2>1, <2>3 DEF Renamed
<1>3. CASE c.kind # "rename"
  <2>1. c.kind # "mkdir" => w # c.path
    BY <1>3, PathIsSeq DEF CanDo
  <2> QED
    BY <1>1, <1>3, <2>1 DEF Done, Trees
<1> QED
  BY <1>2, <1>3

----------------------------------------------------------------------------
(* The current directories                                                 *)

\* The drives are trees: no folder goes while something is in it, which is why
\* the parent of a current directory that Ddelete removes is there to leave to.
TreeInv == \A s \in Drives : IsTree(tree[s])

\* The root is written in one way only, and Ddelete of it, so written, is denied.
PlaceInv ==
    /\ \A s \in Drives : cwd[s].to = Root => cwd[s] = Plain(Root)
    /\ call.kind = "rmdir" => From(call) # Plain(Root)

DirInv == TreeInv /\ PlaceInv /\ CwdExists

LEMMA TakeTree ==
  ASSUME TypeOK, TreeInv, NEW c \in Calls, CanDo(tree[c.slot], c), Take(c)
  PROVE  /\ TreeInv'
         /\ \A s \in Drives \ {c.slot} : tree'[s] = tree[s]
         /\ tree'[c.slot] = Done(tree[c.slot], c)
<1>1. c.slot \in Drives /\ tree \in [Drives -> Trees]
  BY DEF Calls, TypeOK
<1>2. /\ \A s \in Drives \ {c.slot} : tree'[s] = tree[s]
      /\ tree'[c.slot] = Done(tree[c.slot], c)
  BY <1>1 DEF Take
<1>3. IsTree(Done(tree[c.slot], c))
  BY <1>1, DoneKeepsTree DEF TreeInv
<1> QED
  BY <1>1, <1>2, <1>3 DEF TreeInv

\* A step that leaves drives and current directories alone, and may start a call.
LEMMA SameDirs ==
  ASSUME DirInv, UNCHANGED <<tree, cwd, astray>>,
         call'.kind = "rmdir" => From(call') # Plain(Root)
  PROVE  DirInv'
BY DEF DirInv, TreeInv, PlaceInv, CwdExists

\* A change that the current directories do not follow.
LEMMA UntoldKeepsDirs ==
  ASSUME TypeOK, DirInv, NEW c \in Calls, CanDo(tree[c.slot], c), Take(c), cwd' = cwd,
         Changes(c), astray' = IF Carries(c) THEN astray \cup {c.slot} ELSE astray,
         call' \in {NoCall, call}
  PROVE  DirInv'
<1>1. /\ TreeInv'
      /\ \A s \in Drives \ {c.slot} : tree'[s] = tree[s]
      /\ tree'[c.slot] = Done(tree[c.slot], c)
  BY TakeTree DEF DirInv
<1>2. /\ c.slot \in Drives /\ tree[c.slot] \in Trees /\ IsTree(tree[c.slot])
      /\ \A s \in Drives : cwd[s].to \in Paths
  BY WrittenType DEF Calls, TypeOK, DirInv, TreeInv
<1>3. ASSUME NEW s \in Drives \ astray' PROVE tree'[s][cwd'[s].to] = "dir"
  <2>1. s \in Drives \ astray /\ tree[s][cwd[s].to] = "dir"
    BY DEF DirInv, CwdExists
  <2>2. CASE s # c.slot
    BY <1>1, <2>1, <2>2
  <2>3. CASE s = c.slot
    <3>1. ~Carries(c)
      BY <2>3
    <3> QED
      BY <1>1, <1>2, <2>1, <2>3, <3>1, DoneKeepsFolder DEF Carries
  <2> QED
    BY <2>2, <2>3
<1>4. PlaceInv'
  BY DEF DirInv, PlaceInv, NoCall, Request
<1> QED
  BY <1>1, <1>3, <1>4 DEF DirInv, CwdExists

\* A call that ends well, and what Dsetpath and Ddelete make of it.
LEMMA ToldKeepsDirs ==
  ASSUME TypeOK, DirInv, NEW c \in Calls, SetCwd(c, "ok"), End(c, "ok"),
         c.kind = "rmdir" => From(c) # Plain(Root),
         IF Changes(c) THEN CanDo(tree[c.slot], c) /\ Take(c)
         ELSE Sees(c) /\ UNCHANGED tree
  PROVE  DirInv'
<1>1. /\ c.slot \in Drives /\ tree[c.slot] \in Trees /\ cwd \in [Drives -> Written]
      /\ c.path \in Paths /\ From(c) \in Written /\ From(c).to = c.path
  BY CallPaths DEF TypeOK
<1>2. call' = NoCall /\ NoCall.kind = "none"
  BY DEF End, NoCall, Request
<1>3. CASE c.kind = "chdir"
  <2>1. UNCHANGED tree /\ tree[c.slot][c.path] = "dir"
    BY <1>3 DEF Changes, Changing, Sees
  <2>2. cwd' = [cwd EXCEPT ![c.slot] = Normal(From(c))] /\ astray' = astray \ {c.slot}
    BY <1>3 DEF SetCwd
  <2>3. Normal(From(c)).to = c.path /\ (c.path = Root => Normal(From(c)) = Plain(Root))
    BY <1>1, NormalType
  <2> QED
    BY <1>1, <1>2, <2>1, <2>2, <2>3 DEF DirInv, TreeInv, PlaceInv, CwdExists
<1>4. CASE c.kind # "chdir" /\ ~Changes(c)
  <2>1. UNCHANGED <<tree, cwd, astray>>
    BY <1>4 DEF Changes, Changing, SetCwd, Carries, Noticed
  <2> QED
    BY <1>2, <2>1, SameDirs
<1>5. CASE Noticed(c)
  <2>1. /\ CanDo(tree[c.slot], c) /\ Take(c) /\ c.kind = "rmdir"
        /\ cwd' = [cwd EXCEPT ![c.slot] = Above(From(c))]
        /\ astray' = astray
    BY <1>5 DEF Changes, Changing, SetCwd, Noticed
  <2>2. /\ TreeInv'
        /\ \A s \in Drives \ {c.slot} : tree'[s] = tree[s]
        /\ tree'[c.slot] = Done(tree[c.slot], c)
    BY <2>1, TakeTree DEF DirInv
  <2>3. cwd[c.slot] = From(c) /\ c.path # Root
    BY <1>1, <1>5, <2>1 DEF Noticed, DirInv, PlaceInv
  <2>4. Parent(c.path) \in Paths /\ Parent(c.path) # c.path /\ Under(c.path, Parent(c.path))
    BY <1>1, <2>3, ParentAbove
  <2>5. /\ Above(From(c)).to = Parent(c.path)
        /\ Parent(c.path) = Root => Above(From(c)) = Plain(Root)
    BY <1>1, AboveType
  <2>6. ~Under(Parent(c.path), c.path)
    BY <1>1, <2>4, PathIsSeq, UnderAntisymmetric
  <2>7. ASSUME NEW s \in Drives \ astray' PROVE tree'[s][cwd'[s].to] = "dir"
    <3>1. tree[s][cwd[s].to] = "dir"
      BY <2>1 DEF DirInv, CwdExists
    <3>2. CASE s # c.slot
      BY <1>1, <2>1, <2>2, <3>1, <3>2
    <3>3. CASE s = c.slot
      <4>1. tree[c.slot][Parent(c.path)] = "dir" /\ IsTree(tree[c.slot])
        <5>1. tree[c.slot][c.path] = "dir"
          BY <1>1, <2>3, <3>1, <3>3
        <5> QED
          BY <1>1, <2>4, <5>1, TreeChar DEF DirInv, TreeInv
      <4>2. Done(tree[c.slot], c)[Parent(c.path)] = "dir"
        BY <1>1, <2>1, <2>4, <2>6, <4>1, DoneKeepsFolder
      <4> QED
        BY <1>1, <2>1, <2>2, <2>5, <3>3, <4>2
    <3> QED
      BY <3>2, <3>3
  <2>8. PlaceInv'
    BY <1>1, <1>2, <2>1, <2>5 DEF DirInv, PlaceInv
  <2> QED
    BY <2>2, <2>7, <2>8 DEF DirInv, CwdExists
<1>6. CASE Changes(c) /\ ~Noticed(c)
  <2>1. c.kind # "chdir"
    BY <1>6 DEF Changes, Changing
  <2>2. cwd' = cwd /\ astray' = IF Carries(c) THEN astray \cup {c.slot} ELSE astray
    BY <1>6, <2>1 DEF SetCwd
  <2> QED
    BY <1>2, <1>6, <2>2, UntoldKeepsDirs
<1> QED
  BY <1>3, <1>4, <1>5, <1>6

\* A call that does not end well: Dsetpath's path is taken unseen.
LEMMA FailureKeepsDirs ==
  ASSUME TypeOK, DirInv, NEW c \in Calls, NEW r \in {"refused", "error"}, SetCwd(c, r),
         End(c, r), UNCHANGED tree
  PROVE  DirInv'
<1>1. c.slot \in Drives /\ cwd \in [Drives -> Written] /\ From(c) \in Written
  BY CallPaths DEF TypeOK
<1>2. call' = NoCall /\ NoCall.kind = "none"
  BY DEF End, NoCall, Request
<1>3. CASE c.kind = "chdir"
  <2>1. cwd' = [cwd EXCEPT ![c.slot] = Normal(From(c))] /\ astray' = astray \cup {c.slot}
    BY <1>3 DEF SetCwd
  <2>2. Normal(From(c)).to = Root => Normal(From(c)) = Plain(Root)
    BY <1>1, NormalType
  <2> QED
    BY <1>1, <1>2, <2>1, <2>2 DEF DirInv, TreeInv, PlaceInv, CwdExists
<1>4. CASE c.kind # "chdir"
  <2>1. UNCHANGED <<cwd, astray>>
    BY <1>4 DEF SetCwd
  <2> QED
    BY <1>2, <2>1, SameDirs
<1> QED
  BY <1>3, <1>4

LEMMA SdDoesKeepsDirs ==
  ASSUME TypeOK, DirInv, NEW c \in Calls, NEW fs, SdDoes(fs, c),
         c.kind = "rmdir" => From(c) # Plain(Root)
  PROVE  DirInv'
<1>1. CASE /\ SdAllows(fs, c) /\ SetCwd(c, "ok") /\ End(c, "ok")
           /\ IF Changes(c) THEN Take(c) ELSE UNCHANGED tree
  BY <1>1, ToldKeepsDirs DEF SdAllows
<1>2. CASE UNCHANGED <<tree, cwd, astray>> /\ call' = NoCall
  BY <1>2, SameDirs DEF NoCall, Request
<1> QED
  BY <1>1, <1>2 DEF SdDoes, End

LEMMA DirStep ==
  ASSUME TypeOK, DirInv, [Next]_vars
  PROVE  DirInv'
<1>0. ASSUME UNCHANGED <<tree, cwd, astray>>, call' \in {NoCall, call} PROVE DirInv'
  BY <1>0, SameDirs DEF DirInv, PlaceInv, NoCall, Request
<1>1. call # NoCall => call \in Calls
  BY DEF TypeOK
<1>2. CASE TurnedDown \/ Fclose \/ \E s \in Drives : \E p \in Resolved(s) : Fopen(s, p)
  BY <1>0, <1>2 DEF TurnedDown, Fclose, Fopen, End, callVars, treeVars
<1>3. ASSUME NEW s \in Drives, NEW p \in Written, Fcreate(s, p)
      PROVE  DirInv'
  <2> DEFINE c == Request("create", s, p, p)
  <2>1. c \in Calls /\ c.slot = s /\ c.kind = "create" /\ Changes(c)
    BY RequestType DEF Changing, Changes, Request
  <2>2. CanDo(tree[c.slot], c) /\ Take(c) /\ UNCHANGED <<cwd, astray>> /\ call' = NoCall
    BY <1>3, <2>1 DEF Fcreate, Take, End
  <2>3. ~Carries(c)
    BY <2>1 DEF Carries
  <2> HIDE DEF c
  <2> QED
    BY <2>1, <2>2, <2>3, UntoldKeepsDirs
<1>4. CASE OnTnfs
  <2>1. ASSUME NEW s, NEW p, NEW q, NEW kind \in {"chdir", "stat", "mkdir", "unlink", "rename"},
               call' = Request(kind, s, p, q), UNCHANGED <<tree, cwd, astray>>
        PROVE  DirInv'
    <3>1. call'.kind # "rmdir"
      BY <2>1 DEF Request
    <3> QED
      BY <2>1, <3>1, SameDirs
  <2>2. ASSUME NEW s \in TnfsDrives, NEW p \in Written, Ddelete(s, p)
        PROVE  DirInv'
    <3>1. call' = Request("rmdir", s, p, p) /\ UNCHANGED <<tree, cwd, astray>>
          /\ p # Plain(Root)
      BY <2>2 DEF Ddelete, Send, treeVars
    <3> QED
      BY <3>1, RequestPaths, SameDirs
  <2>3. ASSUME NEW s, NEW p, Look(s, p, "chdir") \/ Look(s, p, "stat") \/ Dcreate(s, p)
        PROVE  DirInv'
    BY <2>1, <2>3 DEF Look, Dcreate, Send, treeVars
  <2>4. ASSUME NEW s, NEW p, Fdelete(s, p)
        PROVE  DirInv'
    BY <1>0, <2>1, <2>4 DEF Fdelete, Send, callVars, treeVars
  <2>5. ASSUME NEW s, NEW p, NEW q, Frename(s, p, q)
        PROVE  DirInv'
    BY <2>1, <2>5 DEF Frename, Send, treeVars
  <2> QED
    BY <1>4, <2>2, <2>3, <2>4, <2>5, ResolvedType DEF OnTnfs, Dsetpath, Fattrib, Fdatime
<1>5. CASE Answered
  <2>1. call \in Calls
    BY <1>1, <1>5 DEF Answered
  <2> QED
    BY <1>5, <2>1, ToldKeepsDirs DEF Answered, DirInv, PlaceInv
<1>6. CASE Declined
  <2>1. call \in Calls
    BY <1>1, <1>6 DEF Declined
  <2> QED
    BY <1>6, <2>1, FailureKeepsDirs DEF Declined, treeVars
<1>7. CASE Unheard
  <2>1. call \in Calls
    BY <1>1, <1>7 DEF Unheard, NoCall, Request, Changes, Changing
  <2> QED
    BY <1>7, <2>1, UntoldKeepsDirs DEF Unheard
<1>8. CASE HeldBack
  BY <1>0, <1>8 DEF HeldBack
<1>9. CASE TimedOut
  <2>1. call \in Calls
    BY <1>1, <1>9 DEF TimedOut
  <2> QED
    BY <1>0, <1>9, <2>1, FailureKeepsDirs DEF TimedOut, treeVars
<1>10. ASSUME NEW c \in delayed, Arrives(c)
       PROVE  DirInv'
  <2>1. c \in Calls /\ c.kind \in Changing
    BY DEF TypeOK
  <2>2. CanDo(tree[c.slot], c) /\ Take(c) /\ UNCHANGED <<cwd, call>>
        /\ astray' = IF Carries(c) THEN astray \cup {c.slot} ELSE astray
    BY <1>10 DEF Arrives, callVars
  <2>3. Changes(c)
    <3>1. c.kind = "rename" => CanRename(tree[c.slot], c.path, c.to)
      BY <2>2 DEF CanDo
    <3>2. Under(c.path, c.path)
      BY <2>1, CallPaths, PathIsSeq
    <3> QED
      BY <2>1, <3>1, <3>2 DEF Changes, CanRename
  <2> QED
    BY <2>1, <2>2, <2>3, UntoldKeepsDirs
<1>11. CASE OnSd
  <2>1. PICK s \in SdDrives : \E p \in Resolved(s) :
            \/ \E kind \in {"mkdir", "rmdir"} : SdCall(Request(kind, s, p, p))
            \/ \E q \in Resolved(s) : SdCall(Request("rename", s, p, q))
            \/ SdFdelete(s, p)
            \/ SdDsetpath(s, p)
    BY <1>11 DEF OnSd
  <2>2. s \in Drives /\ Resolved(s) \subseteq Written
    BY ResolvedType DEF Drives
  <2>6. PICK p \in Written :
            \/ \E kind \in {"mkdir", "rmdir"} : SdCall(Request(kind, s, p, p))
            \/ \E q \in Resolved(s) : SdCall(Request("rename", s, p, q))
            \/ SdFdelete(s, p)
            \/ SdDsetpath(s, p)
    BY <2>1, <2>2
  <2>3. ASSUME NEW kind \in {"mkdir", "rmdir", "rename"}, NEW q \in Written,
               SdCall(Request(kind, s, p, q))
        PROVE  DirInv'
    <3> DEFINE c == Request(kind, s, p, q)
    <3>1. c \in Calls
      BY <2>2, RequestType DEF Changing
    <3>2. SdDoes(files, c) /\ (c.kind = "rmdir" => From(c) # Plain(Root))
      BY <2>3 DEF SdCall
    <3> HIDE DEF c
    <3> QED
      BY <3>1, <3>2, SdDoesKeepsDirs
  <2>4. CASE SdFdelete(s, p)
    <3> DEFINE c == Request("unlink", s, p, p)
               own == Closing(Closing(files, p, TnfsDrives), Key(s, p), SdDrives)
    <3>1. c \in Calls /\ c.kind = "unlink"
      BY <2>2, RequestType DEF Changing, Request
    <3>2. UNCHANGED <<tree, cwd, astray, call>> \/ SdDoes(own, c)
      BY <2>4 DEF SdFdelete, callVars
    <3> HIDE DEF c, own
    <3> QED
      BY <1>0, <3>1, <3>2, SdDoesKeepsDirs
  <2>5. CASE SdDsetpath(s, p)
    <3> DEFINE c == Request("chdir", s, p, p)
               r == IF Sees(c) THEN "ok" ELSE "refused"
    <3>1. c \in Calls /\ ~Changes(c) /\ c.kind # "rmdir"
      BY <2>2, RequestType DEF Changing, Changes, Request
    <3>2. SetCwd(c, r) /\ End(c, r) /\ UNCHANGED tree
      BY <2>5 DEF SdDsetpath, treeVars
    <3> HIDE DEF c
    <3> QED
      BY <3>1, <3>2, ToldKeepsDirs, FailureKeepsDirs
  <2> QED
    BY <2>2, <2>3, <2>4, <2>5, <2>6
<1>12. CASE UNCHANGED vars
  BY <1>0, <1>12 DEF vars
<1> QED
  BY <1>2, <1>3, <1>4, <1>5, <1>6, <1>7, <1>8, <1>9, <1>10, <1>11, <1>12, ResolvedType
  DEF Next, RoundTrip

(***************************************************************************)
(* THEOREM (CwdExists of run fileops).  A drive's current directory is a   *)
(* folder of it, unless Dsetpath took it without its being found, or its   *)
(* folder was renamed, or removed without the firmware noticing (a request *)
(* given up, Ddelete with another way to write the path, Fdelete on the    *)
(* card): a Ddelete that it notices leaves to the parent, which is there.  *)
(***************************************************************************)
THEOREM CwdCorrect == Spec => []CwdExists
<1>1. Init => TypeOK /\ DirInv
  <2>1. Init => TypeOK
    BY InitInv DEF IInv
  <2>2. Init => DirInv
    <3>1. ASSUME Init PROVE PlaceInv /\ CwdExists /\ TreeInv
      BY <3>1, TreeAssumption
      DEF Init, TreeInv, PlaceInv, CwdExists, NoCall, Request, Plain
    <3> QED
      BY <3>1 DEF DirInv
  <2> QED
    BY <2>1, <2>2
<1>2. TypeOK /\ DirInv /\ [Next]_vars => (TypeOK /\ DirInv)'
  BY TypeStep, DirStep
<1>3. DirInv => CwdExists
  BY DEF DirInv
<1> QED
  BY <1>1, <1>2, <1>3, PTL DEF Spec


----------------------------------------------------------------------------
(* The paths in the descriptors                                            *)

\* Every descriptor's path is, in some way to write it, that of the file it has open.
NamesTrue(fs) ==
    \A i \in DOMAIN fs : fs[i].on # Gone /\ fs[i].fpath.to = Place(fs[i].slot, fs[i].on)

Quiet == ~clash /\ ~upset

Opened(fs, s, p) == \E i \in DOMAIN fs : fs[i].slot = s /\ fs[i].on = p

(***************************************************************************)
(* Why a name is right: a call that will change one waits only after       *)
(* Fdelete has closed the file, or with one descriptor, and its own, to set*)
(* right.  Only calls on TNFS drives wait.                                 *)
(***************************************************************************)
WaitInv ==
    /\ call.kind = "unlink" => ~Opened(files, call.slot, call.path)
    /\ call.kind = "rename" => ~Ambiguous(files, call)

NameInv ==
    /\ call # NoCall => call.slot \in TnfsDrives
    /\ Quiet => NamesTrue(files) /\ WaitInv

\* A place is that of one path of a drive.
LEMMA PlaceOfOne ==
  ASSUME NEW s, NEW p \in Seq(Names), NEW q \in Seq(Names), Place(s, p) = Place(s, q)
  PROVE  p = q
<1>1. CASE s \notin SdDrives
  BY <1>1 DEF Place
<1>2. CASE s \in SdDrives
  <2>1. <<s>> \o p = <<s>> \o q
    BY <1>2 DEF Place
  <2>2. <<s>> \in Seq({s} \cup Names) /\ p \in Seq({s} \cup Names) /\ q \in Seq({s} \cup Names)
        /\ Len(<<s>>) = 1 /\ Len(p) \in Nat /\ Len(q) \in Nat
    OBVIOUS
  <2>3. /\ Len(<<s>> \o p) = 1 + Len(p) /\ Len(<<s>> \o q) = 1 + Len(q)
        /\ \A i \in 1..(1 + Len(p)) : (<<s>> \o p)[i] = IF i <= 1 THEN s ELSE p[i - 1]
        /\ \A i \in 1..(1 + Len(q)) : (<<s>> \o q)[i] = IF i <= 1 THEN s ELSE q[i - 1]
    BY <2>2, ConcatProperties
  <2>4. Len(p) = Len(q)
    BY <2>1, <2>2, <2>3
  <2>5. ASSUME NEW i \in 1..Len(p) PROVE p[i] = q[i]
    <3>1. i + 1 \in 1..(1 + Len(p)) /\ i + 1 \in 1..(1 + Len(q)) /\ ~(i + 1 <= 1) /\ i + 1 - 1 = i
      BY <2>2, <2>4
    <3>2. (<<s>> \o p)[i + 1] = p[i] /\ (<<s>> \o q)[i + 1] = q[i]
      BY <2>3, <3>1
    <3> QED
      BY <2>1, <3>2
  <2> QED
    BY <2>4, <2>5, SeqEqual
<1> QED
  BY <1>1, <1>2

\* Found by its own path: a descriptor of that drive has the file open.
LEMMA NamedIsOpen ==
  ASSUME NEW fs \in Seq(Descriptor), NamesTrue(fs), NEW s \in Drives, NEW w \in Written,
         NEW i \in Named(fs, Key(s, w)), fs[i].slot = s
  PROVE  fs[i].on = w.to
<1>1. i \in DOMAIN fs /\ fs[i] \in Descriptor
  BY DEF Named
<1>2. fs[i].on \in Seq(Names) /\ w.to \in Seq(Names)
  BY <1>1, WrittenType, PathIsSeq DEF NamesTrue, Descriptor
<1>3. Place(s, fs[i].on) = Place(s, w.to)
  BY <1>1, KeyType DEF NamesTrue, Named
<1> QED
  BY <1>2, <1>3, PlaceOfOne

LEMMA WithoutHead ==
  ASSUME NEW fs \in Seq(Descriptor), fs # <<>>
  PROVE  /\ DOMAIN SubSeq(fs, 1, Len(fs) - 1) = 1..(Len(fs) - 1)
         /\ \A i \in 1..(Len(fs) - 1) : SubSeq(fs, 1, Len(fs) - 1)[i] = fs[i]
<1>1. Len(fs) \in Nat /\ Len(fs) # 0
  BY EmptySeq
<1>2. Len(fs) - 1 \in Nat /\ Len(fs) - 1 + 1 - 1 = Len(fs) - 1
  BY <1>1
<1>3. \A i \in 1..(Len(fs) - 1) : fs[i] \in Descriptor
  BY <1>1
<1> DEFINE b == SubSeq(fs, 1, Len(fs) - 1)
<1>4. b \in Seq(Descriptor) /\ Len(b) = Len(fs) - 1
  BY <1>1, <1>2, <1>3, SubSeqProperties
<1>5. \A i \in 1..(Len(fs) - 1) : b[i] = fs[i]
  BY <1>1, <1>2, <1>3, SubSeqProperties
<1> HIDE DEF b
<1>6. DOMAIN b = 1..(Len(fs) - 1)
  BY <1>4
<1> QED
  BY <1>5, <1>6 DEF b

\* The list grows at its head and loses its head.
LEMMA HeadComesOrGoes ==
  ASSUME NEW fs \in Seq(Descriptor), NamesTrue(fs)
  PROVE  /\ \A s \in Drives, p \in Written : NamesTrue(Append(fs, New(s, p)))
         /\ fs # <<>> => NamesTrue(SubSeq(fs, 1, Len(fs) - 1))
         /\ \A k, drives : NamesTrue(Closing(fs, k, drives))
<1>1. ASSUME NEW s \in Drives, NEW p \in Written PROVE NamesTrue(Append(fs, New(s, p)))
  <2> DEFINE d == New(s, p)
  <2>1. d.on # Gone /\ d.fpath.to = Place(d.slot, d.on)
    BY GoneAssumption, WrittenType, KeyType DEF New
  <2>2. /\ Len(Append(fs, d)) = Len(fs) + 1 /\ Len(fs) \in Nat
        /\ DOMAIN Append(fs, d) = 1..(Len(fs) + 1) /\ DOMAIN fs = 1..Len(fs)
        /\ \A i \in 1..Len(fs) : Append(fs, d)[i] = fs[i]
        /\ Append(fs, d)[Len(fs) + 1] = d
    BY NewType, AppendProperties
  <2> HIDE DEF d
  <2>3. ASSUME NEW i \in 1..(Len(fs) + 1)
        PROVE  Append(fs, d)[i].on # Gone
               /\ Append(fs, d)[i].fpath.to = Place(Append(fs, d)[i].slot, Append(fs, d)[i].on)
    <3>1. i \in 1..Len(fs) \/ i = Len(fs) + 1
      BY <2>2
    <3>2. Append(fs, d)[i] = d \/ (i \in DOMAIN fs /\ Append(fs, d)[i] = fs[i])
      BY <2>2, <3>1
    <3> QED
      BY <2>1, <3>2 DEF NamesTrue
  <2>4. NamesTrue(Append(fs, d))
    BY <2>2, <2>3 DEF NamesTrue
  <2> QED
    BY <2>4 DEF d
<1>2. ASSUME fs # <<>> PROVE NamesTrue(SubSeq(fs, 1, Len(fs) - 1))
  <2> DEFINE b == SubSeq(fs, 1, Len(fs) - 1)
  <2>1. Len(fs) \in Nat /\ Len(fs) # 0
    BY <1>2, EmptySeq
  <2>2. DOMAIN b = 1..(Len(fs) - 1) /\ \A i \in 1..(Len(fs) - 1) : b[i] = fs[i]
    BY <1>2, WithoutHead
  <2> HIDE DEF b
  <2>3. NamesTrue(b)
    BY <2>1, <2>2 DEF NamesTrue
  <2> QED
    BY <2>3 DEF b
<1>3. \A k, drives : Finds(fs, k, drives) => fs # <<>>
  BY DEF Finds, Named
<1> QED
  BY <1>1, <1>2, <1>3 DEF Closing

LEMMA FoundIsTheOne ==
  ASSUME NEW fs \in Seq(Descriptor), NEW k, NEW i \in Named(fs, k),
         \A j \in Named(fs, k) : j = i
  PROVE  Found(fs, k) = i
<1>1. i \in Nat
  BY DEF Named
<1>2. \E j \in Named(fs, k) : \A l \in Named(fs, k) : l <= j
  BY <1>1
<1>3. Found(fs, k) \in Named(fs, k)
  BY <1>2 DEF Found
<1> QED
  BY <1>3

\* Fdelete that goes on has closed the file, if it had it by the path it was given.
LEMMA ClosedFirst ==
  ASSUME NEW fs \in Seq(Descriptor), NEW c \in Calls, c.kind = "unlink",
         ~Ambiguous(fs, c), NEW drives, c.slot \in drives,
         ~Hangs(fs, Key(c.slot, From(c)), drives)
  PROVE  ~Opened(Closing(fs, Key(c.slot, From(c)), drives), c.slot, c.path)
<1> DEFINE k == Key(c.slot, From(c))
           own == Closing(fs, k, drives)
<1>1. \A i, j \in Named(fs, k) : i = j /\ fs[i].slot = c.slot
  BY DEF Ambiguous
<1>2. \A i \in DOMAIN fs : fs[i].slot = c.slot /\ fs[i].on = c.path => i \in Named(fs, k)
  BY DEF Ambiguous
<1> HIDE DEF k
<1>3. CASE ~Finds(fs, k, drives)
  <2>1. own = fs
    BY <1>3 DEF Closing
  <2>2. ASSUME NEW i \in DOMAIN fs, fs[i].slot = c.slot, fs[i].on = c.path PROVE FALSE
    <3>1. i \in Named(fs, k)
      BY <1>2, <2>2
    <3>2. Found(fs, k) = i
      BY <1>1, <3>1, FoundIsTheOne
    <3> QED
      BY <1>3, <2>2, <3>1, <3>2 DEF Finds
  <2> QED
    BY <2>1, <2>2 DEF Opened, k
<1>4. CASE Finds(fs, k, drives)
  <2>1. Found(fs, k) = Len(fs) /\ own = SubSeq(fs, 1, Len(fs) - 1) /\ fs # <<>>
    BY <1>4 DEF Closing, Hangs, Finds, Named, k
  <2>2. Len(fs) \in Nat /\ Len(fs) # 0
    BY <2>1, EmptySeq
  <2>3. DOMAIN own = 1..(Len(fs) - 1) /\ \A i \in 1..(Len(fs) - 1) : own[i] = fs[i]
    BY <2>1, WithoutHead
  <2> HIDE DEF own
  <2>4. ASSUME NEW i \in DOMAIN own, own[i].slot = c.slot, own[i].on = c.path PROVE FALSE
    <3>1. i \in DOMAIN fs /\ fs[i].slot = c.slot /\ fs[i].on = c.path /\ i # Len(fs)
      BY <2>2, <2>3, <2>4
    <3>2. i \in Named(fs, k)
      BY <1>2, <3>1
    <3>3. Found(fs, k) = i
      BY <1>1, <3>2, FoundIsTheOne
    <3> QED
      BY <2>1, <3>1, <3>3
  <2>5. ~Opened(own, c.slot, c.path)
    BY <2>4 DEF Opened
  <2> QED
    BY <2>5 DEF own, k
<1> QED
  BY <1>3, <1>4

\* Nothing that is open is concerned.
LEMMA NothingFollows ==
  ASSUME NEW fs \in Seq(Descriptor), NEW c,
         c.kind # "rename", c.kind = "unlink" => ~Opened(fs, c.slot, c.path)
  PROVE  Follow(fs, c) = fs
<1>1. \A i \in DOMAIN fs : Follow(fs, c)[i] = fs[i]
  BY DEF Follow, Opened
<1>2. DOMAIN Follow(fs, c) = 1..Len(fs) /\ Len(fs) \in Nat /\ DOMAIN fs = 1..Len(fs)
  BY DEF Follow
<1>3. Follow(fs, c) = [i \in DOMAIN fs |-> Follow(fs, c)[i]] /\ fs = [i \in DOMAIN fs |-> fs[i]]
  BY <1>2 DEF Follow
<1> QED
  BY <1>1, <1>3

(***************************************************************************)
(* Frename sets right the one path there is to set right.                  *)
(***************************************************************************)
LEMMA RenamedIsNamed ==
  ASSUME NEW fs \in Seq(Descriptor), NamesTrue(fs), NEW c \in Calls, c.kind = "rename",
         ~Ambiguous(fs, c), NEW drives, c.slot \in drives
  PROVE  NamesTrue(Renaming(Follow(fs, c), Key(c.slot, From(c)), Key(c.slot, To(c)), drives))
<1> DEFINE k == Key(c.slot, From(c))
           l == Key(c.slot, To(c))
           gs == Follow(fs, c)
<1>1. /\ c.slot \in Drives /\ c.path \in Paths /\ c.to \in Paths
      /\ From(c) \in Written /\ From(c).to = c.path
      /\ l \in Keys /\ l.to = Place(c.slot, c.to)
  BY CallPaths, KeyType
<1>2. \A i, j \in Named(fs, k) : i = j /\ fs[i].slot = c.slot
  BY DEF Ambiguous
<1>3. \A i \in DOMAIN fs : fs[i].slot = c.slot /\ fs[i].on # c.path =>
                               ~Under(fs[i].on, c.path) /\ fs[i].on # c.to
  BY DEF Ambiguous, NamesTrue
<1>4. Moved(c.path, c.path, c.to) = c.to
  <2>1. c.path \in Seq(Names) /\ c.to \in Seq(Names)
    BY <1>1, PathIsSeq
  <2>2. SubSeq(c.path, Len(c.path) + 1, Len(c.path)) = <<>>
    BY <2>1
  <2> QED
    BY <2>1, <2>2, ConcatEmptySeq DEF Moved
<1>5. DOMAIN gs = DOMAIN fs
  BY DEF Follow
<1>6. ASSUME NEW i \in DOMAIN fs
      PROVE  gs[i] = IF fs[i].slot = c.slot /\ fs[i].on = c.path
                     THEN [fs[i] EXCEPT !.on = c.to] ELSE fs[i]
  <2>1. CASE fs[i].slot = c.slot /\ fs[i].on = c.path
    <3>1. Under(fs[i].on, c.path) /\ fs[i].on # Gone
      BY <1>1, <2>1, PathIsSeq, GoneAssumption
    <3> QED
      BY <1>4, <2>1, <3>1 DEF Follow
  <2>2. CASE ~(fs[i].slot = c.slot /\ fs[i].on = c.path)
    BY <1>3, <2>2 DEF Follow
  <2> QED
    BY <2>1, <2>2
<1>7. ASSUME NEW i \in DOMAIN fs
      PROVE  /\ gs[i].slot = fs[i].slot /\ gs[i].fpath = fs[i].fpath
             /\ gs[i].on = IF i \in Named(fs, k) THEN c.to ELSE fs[i].on
             /\ i \in Named(fs, k) <=> fs[i].slot = c.slot /\ fs[i].on = c.path
  <2>1. fs[i] \in [slot : Drives, fpath : Keys, on : {Gone} \cup Seq(Names)]
    BY DEF Descriptor
  <2>2. i \in Named(fs, k) <=> fs[i].slot = c.slot /\ fs[i].on = c.path
    <3>1. i \in Named(fs, k) => fs[i].slot = c.slot /\ fs[i].on = c.path
      BY <1>1, <1>2, NamedIsOpen
    <3>2. fs[i].slot = c.slot /\ fs[i].on = c.path => i \in Named(fs, k)
      BY DEF Ambiguous
    <3> QED
      BY <3>1, <3>2
  <2> QED
    BY <1>6, <2>1, <2>2
<1>8. Named(gs, k) = Named(fs, k)
  BY <1>5, <1>7 DEF Named
<1> HIDE DEF gs, l
<1>9. CASE Named(fs, k) = {}
  <2>1. Renaming(gs, k, l, drives) = gs
    BY <1>8, <1>9 DEF Renaming, Finds
  <2>2. NamesTrue(gs)
    BY <1>5, <1>7, <1>9 DEF NamesTrue
  <2> QED
    BY <2>1, <2>2 DEF gs, l
<1>10. ASSUME NEW i \in Named(fs, k)
       PROVE  NamesTrue(Renaming(gs, k, l, drives))
  <2>1. Found(gs, k) = i
    <3>1. Found(fs, k) = i
      BY <1>2, FoundIsTheOne
    <3> QED
      BY <3>1, <1>8 DEF Found
  <2>2. i \in DOMAIN fs /\ gs[i].slot = c.slot
    BY <1>7 DEF Named
  <2>3. Finds(gs, k, drives)
    BY <1>8, <2>1, <2>2 DEF Finds
  <2> DEFINE hs == [gs EXCEPT ![i].fpath = l]
  <2>4. Renaming(gs, k, l, drives) = hs
    BY <2>1, <2>3 DEF Renaming
  <2>5. DOMAIN hs = DOMAIN fs
    BY <1>5
  <2>6. gs[i] \in [slot : Drives, fpath : Keys, on : {Gone} \cup Seq(Names)]
    <3>1. gs \in Seq(Descriptor)
      BY FollowType DEF gs
    <3> QED
      BY <1>5, <2>2, <3>1 DEF Descriptor
  <2>7. ASSUME NEW j \in DOMAIN fs
        PROVE  hs[j].on # Gone /\ hs[j].fpath.to = Place(hs[j].slot, hs[j].on)
    <3>1. CASE j = i
      <4>1. hs[i].slot = c.slot /\ hs[i].on = c.to /\ hs[i].fpath = l
        BY <1>5, <1>7, <2>2, <2>6
      <4> QED
        BY <1>1, <3>1, <4>1, GoneAssumption
    <3>2. CASE j # i
      <4>1. hs[j] = gs[j] /\ j \notin Named(fs, k)
        BY <1>2, <1>5, <3>2
      <4>2. gs[j].slot = fs[j].slot /\ gs[j].fpath = fs[j].fpath /\ gs[j].on = fs[j].on
        BY <1>7, <4>1
      <4> QED
        BY <4>1, <4>2 DEF NamesTrue
    <3> QED
      BY <3>1, <3>2
  <2> HIDE DEF hs
  <2>8. NamesTrue(hs)
    BY <2>5, <2>7 DEF NamesTrue
  <2> QED
    BY <2>4, <2>8
<1> QED
  BY <1>9, <1>10 DEF gs, l

\* A step after which no call waits.
LEMMA NoWait ==
  ASSUME call' = NoCall, Quiet' => NamesTrue(files')
  PROVE  NameInv'
<1>1. NoCall.kind = "none"
  BY DEF NoCall, Request
<1> QED
  BY <1>1 DEF NameInv, WaitInv

\* A step that does nothing to the descriptors, and ends the call or lets it wait.
LEMMA SameNames ==
  ASSUME NameInv, files' = files, call' \in {NoCall, call}, Quiet' => Quiet
  PROVE  NameInv'
<1>1. CASE call' = NoCall
  BY <1>1, NoWait DEF NameInv
<1>2. CASE call' = call
  BY <1>2 DEF NameInv, WaitInv
<1> QED
  BY <1>1, <1>2

\* What an SD drive does to the descriptors.
LEMMA SdDoesNames ==
  ASSUME NEW c \in Calls, NEW fs \in Seq(Descriptor), NamesTrue(fs), c.slot \in SdDrives,
         SdDoes(fs, c), c.kind = "rename" => ~Ambiguous(fs, c)
  PROVE  NamesTrue(files')
<1>1. CASE files' = fs
  BY <1>1
<1>2. CASE /\ SdAllows(fs, c)
           /\ files' = IF c.kind = "rename"
                       THEN Renaming(Follow(fs, c), Key(c.slot, From(c)), Key(c.slot, To(c)), SdDrives)
                       ELSE Follow(fs, c)
  <2>1. CASE c.kind = "rename"
    BY <1>2, <2>1, RenamedIsNamed
  <2>2. CASE c.kind # "rename"
    <3>1. c.kind = "unlink" => ~Opened(fs, c.slot, c.path)
      BY <1>2 DEF SdAllows, Locked, Opened
    <3> QED
      BY <1>2, <2>2, <3>1, NothingFollows
  <2> QED
    BY <2>1, <2>2
<1> QED
  BY <1>1, <1>2 DEF SdDoes

\* The calls up to their request ...
LEMMA CallsNames ==
  ASSUME TypeOK, NameInv,
         \/ TurnedDown
         \/ \E s \in Drives : \E p \in Resolved(s) : Fopen(s, p) \/ Fcreate(s, p)
         \/ Fclose
         \/ OnTnfs
  PROVE  NameInv'
<1>0. files \in Seq(Descriptor) /\ NoCall.kind = "none"
  BY DEF TypeOK, NoCall, Request
<1>1. CASE TurnedDown
  BY <1>1, SameNames DEF TurnedDown, End, Quiet
<1>2. ASSUME NEW s \in Drives, NEW p \in Written, Fopen(s, p) \/ Fcreate(s, p)
      PROVE  NameInv'
  <2>1. files' = Append(files, New(s, p)) /\ call' = NoCall /\ (Quiet' => Quiet)
    BY <1>2 DEF Fopen, Fcreate, End, Idle, callVars, Quiet
  <2>2. Quiet => NamesTrue(files')
    BY <1>0, <2>1, HeadComesOrGoes DEF NameInv
  <2> QED
    BY <2>1, <2>2, NoWait
<1>3. CASE Fclose
  <2>1. /\ files # <<>> /\ files' = SubSeq(files, 1, Len(files) - 1)
        /\ call' = NoCall /\ (Quiet' => Quiet)
    BY <1>3 DEF Fclose, Idle, callVars, treeVars, Quiet
  <2>2. Quiet => NamesTrue(files')
    BY <1>0, <2>1, HeadComesOrGoes DEF NameInv
  <2> QED
    BY <2>1, <2>2, NoWait
<1>4. ASSUME NEW s \in TnfsDrives, NEW p \in Written, NEW q \in Written,
             \/ Look(s, p, "chdir") \/ Look(s, p, "stat")
             \/ Dcreate(s, p) \/ Ddelete(s, p) \/ Fdelete(s, p) \/ Frename(s, p, q)
      PROVE  NameInv'
  <2>0. s \in Drives /\ s \notin SdDrives /\ Key(s, p) = p
    BY DrivesAssumption, KeyType DEF Drives
  <2>1. CASE Look(s, p, "chdir") \/ Look(s, p, "stat") \/ Dcreate(s, p) \/ Ddelete(s, p)
    <3>1. PICK kind \in {"chdir", "stat", "mkdir", "rmdir"} : call' = Request(kind, s, p, p)
      BY <2>1 DEF Look, Dcreate, Ddelete, Send
    <3>2. call'.kind \notin {"unlink", "rename"} /\ call'.slot = s
      BY <3>1 DEF Request
    <3>3. files' = files /\ (Quiet' => Quiet)
      BY <2>1 DEF Look, Dcreate, Ddelete, treeVars, Quiet
    <3> QED
      BY <3>2, <3>3 DEF NameInv, WaitInv
  <2>2. CASE Frename(s, p, q)
    <3> DEFINE c == Request("rename", s, p, q)
    <3>1. call' = c /\ files' = files /\ (Quiet' => Quiet /\ ~Ambiguous(files, c))
      BY <2>2 DEF Frename, Send, treeVars, Quiet
    <3>2. c.kind = "rename" /\ c.slot = s
      BY DEF Request
    <3> HIDE DEF c
    <3> QED
      BY <3>1, <3>2 DEF NameInv, WaitInv
  <2>3. CASE Fdelete(s, p)
    <3> DEFINE c == Request("unlink", s, p, p)
    <3>1. /\ files' = Closing(files, Key(s, p), TnfsDrives)
          /\ hung' = Hangs(files, Key(s, p), TnfsDrives)
          /\ IF hung' THEN call' = call ELSE call' = c
          /\ call = NoCall
          /\ Quiet' => Quiet /\ ~Ambiguous(files, c)
      BY <2>0, <2>3 DEF Fdelete, Send, Idle, callVars, treeVars, Quiet
    <3>2. c.kind = "unlink" /\ c.slot = s
      BY DEF Request
    <3>6. c \in Calls /\ From(c) = p
      BY <2>0, RequestType, RequestPaths DEF Changing
    <3> HIDE DEF c
    <3>3. Quiet' => NamesTrue(files')
      BY <1>0, <3>1, HeadComesOrGoes DEF NameInv
    <3>4. CASE call' = NoCall
      BY <3>3, <3>4, NoWait
    <3>5. CASE ~hung'
      <4>1. ASSUME Quiet' PROVE ~Opened(files', c.slot, c.path)
        <5>1. ~Ambiguous(files, c) /\ ~Hangs(files, Key(s, p), TnfsDrives)
          BY <3>1, <3>5, <4>1
        <5> QED
          BY <1>0, <3>1, <3>2, <3>6, <5>1, ClosedFirst
      <4> QED
        BY <3>1, <3>2, <3>3, <3>5, <4>1 DEF NameInv, WaitInv
    <3> QED
      BY <3>1, <3>4, <3>5
  <2> QED
    BY <1>4, <2>1, <2>2, <2>3
<1>5. CASE OnTnfs
  <2>1. PICK s \in TnfsDrives :
            \/ \E p \in Resolved(s) : \/ Dsetpath(s, p) \/ Fattrib(s, p)
                                      \/ Dcreate(s, p) \/ Ddelete(s, p) \/ Fdelete(s, p)
                                      \/ \E q \in Resolved(s) : Frename(s, p, q)
            \/ Fdatime(s)
    BY <1>5 DEF OnTnfs
  <2>2. Resolved(s) \subseteq Written
    BY ResolvedType
  <2>3. \A i \in DOMAIN files : files[i].slot = s => files[i].fpath \in Written
    BY DEF TypeOK, Descriptor
  <2> QED
    BY <1>4, <2>1, <2>2, <2>3 DEF Dsetpath, Fattrib, Fdatime
<1> QED
  BY <1>1, <1>2, <1>3, <1>5, ResolvedType

\* ... then the round trip ...
LEMMA RoundTripNames ==
  ASSUME TypeOK, NameInv, CallInv, RoundTrip
  PROVE  NameInv'
<1>0. files \in Seq(Descriptor)
  BY DEF TypeOK
<1>1. CASE Answered
  <2>1. call \in Calls /\ call.slot \in TnfsDrives /\ call' = NoCall /\ (Quiet' => Quiet)
    BY <1>1 DEF Answered, TypeOK, End, NameInv, Quiet
  <2>2. Key(call.slot, From(call)) = From(call) /\ Key(call.slot, To(call)) = To(call)
    BY <2>1, CallPaths, KeyType
  <2>3. ASSUME Quiet PROVE NamesTrue(files')
    <3>1. NamesTrue(files) /\ WaitInv
      BY <2>3 DEF NameInv
    <3>2. CASE call.kind = "rename"
      BY <1>0, <1>1, <2>1, <2>2, <3>1, <3>2, RenamedIsNamed DEF Answered, WaitInv
    <3>3. CASE call.kind # "rename"
      BY <1>0, <1>1, <3>1, <3>3, NothingFollows DEF Answered, WaitInv
    <3> QED
      BY <3>2, <3>3
  <2> QED
    BY <2>1, <2>3, NoWait
<1>2. CASE Declined
  BY <1>2, SameNames DEF Declined, End, Quiet, treeVars
<1>3. CASE Unheard
  <2>1. ~Quiet' /\ call' = call
    BY <1>3 DEF Unheard, Quiet
  <2> QED
    BY <2>1 DEF NameInv
<1>4. CASE HeldBack
  BY <1>4, SameNames DEF HeldBack, Quiet
<1>5. CASE TimedOut
  <2>1. files' = files /\ call' \in {NoCall, call} /\ (Quiet' => Quiet)
    BY <1>5 DEF TimedOut, End, Quiet, treeVars
  <2> QED
    BY <2>1, SameNames
<1>6. ASSUME NEW c \in delayed, Arrives(c)
      PROVE  NameInv'
  <2>1. ~Quiet' /\ call' = call
    BY <1>6 DEF Arrives, Quiet, callVars
  <2> QED
    BY <2>1 DEF NameInv
<1> QED
  BY <1>1, <1>2, <1>3, <1>4, <1>5, <1>6 DEF RoundTrip

\* ... and the SD drives.
LEMMA OnSdNames ==
  ASSUME TypeOK, NameInv, OnSd
  PROVE  NameInv'
<1>0. files \in Seq(Descriptor)
  BY DEF TypeOK
<1>1. PICK s \in SdDrives : \E p \in Resolved(s) :
          \/ \E kind \in {"mkdir", "rmdir"} : SdCall(Request(kind, s, p, p))
          \/ \E q \in Resolved(s) : SdCall(Request("rename", s, p, q))
          \/ SdFdelete(s, p)
          \/ SdDsetpath(s, p)
  BY DEF OnSd
<1>2. s \in Drives /\ Resolved(s) \subseteq Written
  BY ResolvedType DEF Drives
<1>3. PICK p \in Written :
          \/ \E kind \in {"mkdir", "rmdir"} : SdCall(Request(kind, s, p, p))
          \/ \E q \in Resolved(s) : SdCall(Request("rename", s, p, q))
          \/ SdFdelete(s, p)
          \/ SdDsetpath(s, p)
  BY <1>1, <1>2
<1>4. ASSUME NEW kind \in {"mkdir", "rmdir", "rename"}, NEW q \in Written,
             SdCall(Request(kind, s, p, q))
      PROVE  NameInv'
  <2> DEFINE c == Request(kind, s, p, q)
  <2>1. c \in Calls /\ c.kind \in Changing /\ c.slot \in SdDrives
    BY <1>2, RequestType DEF Changing, Request
  <2>2. /\ SdDoes(files, c)
        /\ Quiet' => Quiet /\ (c.kind = "rename" => ~Ambiguous(files, c))
    BY <1>4 DEF SdCall, Quiet
  <2> HIDE DEF c
  <2>3. call' = NoCall
    BY <2>2 DEF SdDoes, End
  <2>4. Quiet' => NamesTrue(files')
    BY <1>0, <2>1, <2>2, SdDoesNames DEF NameInv
  <2> QED
    BY <2>3, <2>4, NoWait
<1>5. CASE SdFdelete(s, p)
  <2> DEFINE c == Request("unlink", s, p, p)
             others == Closing(files, p, TnfsDrives)
             own == Closing(others, Key(s, p), SdDrives)
  <2>1. c \in Calls /\ c.kind = "unlink" /\ c.slot \in SdDrives /\ "unlink" \in Changing
    BY <1>2, RequestType DEF Changing, Request
  <2>2. (Quiet' => Quiet) /\ call = NoCall
    BY <1>5 DEF SdFdelete, Quiet, Idle
  <2>3. others \in Seq(Descriptor) /\ own \in Seq(Descriptor)
    BY <1>0, ClosingType
  <2>4. Quiet => NamesTrue(others) /\ NamesTrue(own)
    BY <1>0, <2>3, HeadComesOrGoes DEF NameInv
  <2>5. CASE files' = others /\ UNCHANGED callVars
    BY <2>2, <2>4, <2>5, NoWait DEF callVars
  <2>6. CASE SdDoes(own, c)
    <3> HIDE DEF c, own
    <3>1. call' = NoCall
      BY <2>6 DEF SdDoes, End
    <3>2. Quiet' => NamesTrue(files')
      BY <2>1, <2>2, <2>3, <2>4, <2>6, SdDoesNames
    <3> QED
      BY <3>1, <3>2, NoWait
  <2> QED
    BY <1>5, <2>5, <2>6 DEF SdFdelete
<1>6. CASE SdDsetpath(s, p)
  BY <1>6, SameNames DEF SdDsetpath, End, Quiet, treeVars
<1> QED
  BY <1>2, <1>3, <1>4, <1>5, <1>6

LEMMA NameStep ==
  ASSUME IInv, NameInv, [Next]_vars
  PROVE  NameInv'
<1>1. CASE Next
  BY <1>1, CallsNames, RoundTripNames, OnSdNames DEF Next, IInv
<1>2. CASE UNCHANGED vars
  BY <1>2, SameNames DEF vars, Quiet
<1> QED
  BY <1>1, <1>2

(***************************************************************************)
(* THEOREM (FpathNamesFile of run fileops).  The path in a descriptor      *)
(* names the file it has open, however calls and answers follow on each    *)
(* other, as long as no change of a name concerned several descriptors,    *)
(* files below it or a file opened by another way to write its path, nor   *)
(* went untold.                                                            *)
(***************************************************************************)
THEOREM NamesCorrect == Spec => []FpathNamesFile
<1>1. Init => IInv /\ NameInv
  <2>1. Init => NameInv
    BY EmptySeq DEF Init, NameInv, NamesTrue, WaitInv, NoCall, Request
  <2> QED
    BY <2>1, InitInv
<1>2. IInv /\ NameInv /\ [Next]_vars => (IInv /\ NameInv)'
  BY RefinesStep, NameStep
<1>3. NameInv => FpathNamesFile
  BY DEF NameInv, Quiet, NamesTrue, FpathNamesFile
<1> QED
  BY <1>1, <1>2, <1>3, PTL DEF Spec
============================================================================
