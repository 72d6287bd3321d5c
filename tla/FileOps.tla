------------------------------ MODULE FileOps -------------------------------
(***************************************************************************)
(* The calls of src/romemul/gemdrvemul.c that take a path and change a     *)
(* drive: Dsetpath, Dcreate, Ddelete, Fdelete, Frename, with what they do  *)
(* to the current directories and to the list of open descriptors; Fdatime *)
(* and Fattrib, which look; and as much of Fopen, Fcreate and Fclose as    *)
(* puts descriptors there (module OpenFiles has the whole).                *)
(*                                                                         *)
(* On a TNFS drive a call is a request that is sent again when no answer   *)
(* comes; on an SD drive FatFS does it at once.  The searches that Ddelete *)
(* closes first are in module DirSearch.                                   *)
(***************************************************************************)
EXTENDS DriveTree, FiniteSets

CONSTANTS
    TnfsDrives,  \* runtime slots with a TNFS drive and a session
    InitialTree, \* what is on the drives at first
    Given,       \* the paths programs write, absolute or relative
    Retries,     \* unlink_retries_left and its like
    MaxOpen,     \* descriptors (bound of the model)
    MaxEvents,   \* calls and lost exchanges (bound of the model)
    MaxDelayed   \* requests held back by the network (bound of the model)

\* SdDrives: runtime slots with an SD drive that is READY
Drives == TnfsDrives \cup SdDrives

ASSUME DrivesAssumption == TnfsDrives \cap SdDrives = {}
ASSUME GivenAssumption == Given \subseteq Written
ASSUME TreeAssumption ==
    /\ InitialTree \in [Drives -> Trees]
    /\ \A s \in Drives : IsTree(InitialTree[s]) /\ InitialTree[s][Root] = "dir"
ASSUME NumbersAssumption ==
    Retries \in Nat /\ MaxOpen \in Nat /\ MaxEvents \in Nat /\ MaxDelayed \in Nat

VARIABLES
    tree,       \* the files and folders of each drive (external)
    cwd,        \* dpath_string_table
    files,      \* fdescriptors; the head of the list is the last element
    call,       \* the call that waits for an answer, or NoCall
    retries,    \* its retries left
    sent,       \* its last request may still be answered (external)
    last,       \* the call that has just ended and its result
    hung,       \* delete_file_by_fdesc does not return
    delayed,    \* requests the network holds back (external)
    performed,  \* history: the call in progress has taken effect
    late,       \* history: the latest delayed request executed, or NoCall
    upset,      \* history: a change was made that the firmware was not told of
    clash,      \* history: a name was changed that is not one descriptor's own
    astray,     \* history: drives whose current directory was not checked, was moved, or
                \* was removed and not noticed
    events

treeVars == <<tree, delayed, late, upset>>
callVars == <<call, retries, sent, performed, last>>
vars == <<tree, cwd, files, call, retries, sent, last, hung, delayed, performed, late,
          upset, clash, astray, events>>

NoCall == Request("none", "none", Plain(Root), Plain(Root))
Calls == [kind : Changing \cup {"chdir", "stat"}, slot : Drives,
          path : Paths, as : SUBSET (Dots \cup Kept), to : Paths, toAs : SUBSET (Dots \cup Kept)]
Results == {"ok", "refused", "error"}
Ended(c, r) == [call |-> c, result |-> r]

\* fpath: the path as written on a TNFS drive; "0:", sd_path and the path made
\* normal on an SD drive.
Place(s, p) == IF s \in SdDrives THEN <<s>> \o p ELSE p
Key(s, w) == [to |-> Place(s, w.to), as |-> IF s \in SdDrives THEN Normal(w).as ELSE w.as]
Keys == [to : Paths \cup UNION {{<<s>> \o p : p \in Paths} : s \in SdDrives},
         as : SUBSET (Dots \cup Kept)]

\* "on" is history: where the file is that this descriptor has open.
Descriptor ==
    {d \in [slot : Drives, fpath : Keys, on : {Gone} \cup Seq(Names)] :
        d.slot \in TnfsDrives => d.fpath \in Written}
New(s, p) == [slot |-> s, fpath |-> Key(s, p), on |-> p.to]

TypeOK ==
    /\ tree \in [Drives -> Trees]
    /\ cwd \in [Drives -> Written]
    /\ files \in Seq(Descriptor)
    /\ call \in Calls \cup {NoCall}
    /\ retries \in 0..Retries
    /\ last \in [call : Calls \cup {NoCall}, result : Results]
    /\ delayed \subseteq {c \in Calls : c.kind \in Changing}
    /\ late \in Calls \cup {NoCall}
    /\ astray \subseteq Drives
    /\ events \in Nat
    /\ {hung, sent, performed, upset, clash} \subseteq BOOLEAN

Init ==
    /\ tree = InitialTree
    /\ cwd = [s \in Drives |-> Plain(Root)]
    /\ files = <<>>
    /\ call = NoCall
    /\ retries = 0
    /\ sent = FALSE
    /\ last = Ended(NoCall, "ok")
    /\ hung = FALSE
    /\ delayed = {}
    /\ performed = FALSE
    /\ late = NoCall
    /\ upset = FALSE
    /\ clash = FALSE
    /\ astray = {}
    /\ events = 0

-----------------------------------------------------------------------------
(* The list of descriptors. *)

Named(fs, k) == {i \in DOMAIN fs : fs[i].fpath = k}

\* get_file_by_fpath: the first from the head with this path, on any drive.
Found(fs, k) == CHOOSE i \in Named(fs, k) : \A j \in Named(fs, k) : j <= i

Finds(fs, k, drives) == Named(fs, k) # {} /\ fs[Found(fs, k)].slot \in drives

\* delete_file_by_fdesc returns only for the head of the list.
Hangs(fs, k, drives) == Finds(fs, k, drives) /\ Found(fs, k) # Len(fs)

\* "If it's open, close it first".
Closing(fs, k, drives) ==
    IF Finds(fs, k, drives) /\ ~Hangs(fs, k, drives)
    THEN SubSeq(fs, 1, Len(fs) - 1) ELSE fs

\* The handle follows its file, whatever happens to the name.
Follow(fs, c) ==
    [i \in DOMAIN fs |->
        LET f == fs[i] IN
        IF f.slot # c.slot \/ f.on = Gone THEN f
        ELSE IF c.kind = "rename" /\ Under(f.on, c.path)
             THEN [f EXCEPT !.on = Moved(f.on, c.path, c.to)]
        ELSE IF c.kind = "rename" /\ f.on = c.to THEN [f EXCEPT !.on = Gone]
        ELSE IF c.kind = "unlink" /\ f.on = c.path THEN [f EXCEPT !.on = Gone]
        ELSE f]

\* Mutant: a rename leaves the open file's path as it was.
RenamingNothing(fs, from, to, drives) == fs

\* Frename: the path of the first descriptor with the old one is set right.
Renaming(fs, from, to, drives) ==
    IF Finds(fs, from, drives) THEN [fs EXCEPT ![Found(fs, from)].fpath = to] ELSE fs

\* A change of c.path that concerns more, or other, than one own descriptor, or
\* one that has the file open by another way to write it.
Ambiguous(fs, c) ==
    \/ \E i, j \in Named(fs, Key(c.slot, From(c))) : i # j \/ fs[i].slot # c.slot
    \/ \E i \in DOMAIN fs \ Named(fs, Key(c.slot, From(c))) :
           fs[i].slot = c.slot /\ fs[i].on = c.path
    \/ /\ c.kind = "rename"
       /\ \E i \in DOMAIN fs : /\ fs[i].slot = c.slot
                               /\ fs[i].on # Gone
                               /\ fs[i].on # c.path
                               /\ Under(fs[i].on, c.path) \/ fs[i].on = c.to

-----------------------------------------------------------------------------
(* What the calls have in common. *)

Idle == call = NoCall /\ ~hung

Event == events < MaxEvents /\ events' = events + 1

\* get_tnfs_relative_pathname_for_slot: absolute, or after the current directory;
\* how it is written stays.
Joined(w, g) == [to |-> w.to \o g.to, as |-> w.as \cup g.as]
Resolved(s) == {p \in Given \cup {Joined(cwd[s], g) : g \in Given \ {Plain(Root)}} : p \in Written}

Send(c) ==
    /\ call' = c
    /\ retries' = Retries
    /\ sent' = TRUE
    /\ performed' = FALSE
    /\ last' = Ended(NoCall, "ok")

End(c, r) ==
    /\ call' = NoCall
    /\ retries' = 0
    /\ sent' = FALSE
    /\ performed' = FALSE
    /\ last' = Ended(c, r)

\* The current directory is c.path or below it.
Carries(c) == /\ Changes(c) /\ c.kind \in {"rename", "rmdir", "unlink"}
              /\ Under(cwd[c.slot].to, c.path)

\* Ddelete of the current directory, written as it is.
Noticed(c) == c.kind = "rmdir" /\ cwd[c.slot] = From(c)

\* tnfs_ddelete_parent_path
Above(w) == Normal([w EXCEPT !.to = Parent(@)])

\* Mutant: Ddelete leaves the current directory alone.
SetCwdKeeps(c, r) ==
    /\ cwd' = IF c.kind = "chdir" THEN [cwd EXCEPT ![c.slot] = Normal(From(c))] ELSE cwd
    /\ astray' = IF c.kind = "chdir"
                 THEN IF r = "ok" THEN astray \ {c.slot} ELSE astray \cup {c.slot}
                 ELSE IF r = "ok" /\ Carries(c) /\ ~Noticed(c) THEN astray \cup {c.slot}
                 ELSE astray

\* Dsetpath takes the new path, made normal, even when it does not exist; Ddelete
\* of the current directory makes its parent current.
SetCwd(c, r) ==
    /\ cwd' = IF c.kind = "chdir" THEN [cwd EXCEPT ![c.slot] = Normal(From(c))]
              ELSE IF r = "ok" /\ Noticed(c) THEN [cwd EXCEPT ![c.slot] = Above(From(c))]
              ELSE cwd
    /\ astray' = IF c.kind = "chdir"
                 THEN IF r = "ok" THEN astray \ {c.slot} ELSE astray \cup {c.slot}
                 ELSE IF r = "ok" /\ Carries(c) /\ ~Noticed(c) THEN astray \cup {c.slot}
                 ELSE astray

\* A call that is turned down before anything is done: a slot that is none, the
\* SETTINGS drive, another drive's letter before the path, Frename across
\* drives, Ddelete of a root, or a search in it that could not be closed.
TurnedDown ==
    /\ Idle
    /\ Event
    /\ \E s \in Drives, kind \in Changing \ {"create"}, r \in {"refused", "error"} :
           End(Request(kind, s, Plain(Root), Plain(Root)), r)    \* whatever the path
    /\ UNCHANGED <<tree, cwd, files, hung, delayed, late, upset, clash, astray>>

-----------------------------------------------------------------------------
(* Descriptors come and go: see module OpenFiles. *)

Fopen(s, p) ==
    /\ Idle
    /\ Event
    /\ Len(files) < MaxOpen
    /\ tree[s][p.to] = "file"
    /\ files' = Append(files, New(s, p))
    /\ UNCHANGED <<tree, cwd, callVars, hung, delayed, late, upset, clash, astray>>

Locked(fs, s, p) == s \in SdDrives /\ \E i \in DOMAIN fs : fs[i].slot = s /\ fs[i].on = p

Fcreate(s, p) ==
    LET c == Request("create", s, p, p) IN
    /\ Idle
    /\ Event
    /\ Len(files) < MaxOpen
    /\ CanDo(tree[s], c)
    /\ ~Locked(files, s, p.to)
    /\ tree' = [tree EXCEPT ![s] = Done(@, c)]
    /\ files' = Append(files, New(s, p))
    /\ End(c, "ok")
    /\ UNCHANGED <<cwd, hung, delayed, late, upset, clash, astray>>

\* Of the newest descriptor; for the others see OpenFiles.
Fclose ==
    /\ Idle
    /\ Event
    /\ files # <<>>
    /\ files' = SubSeq(files, 1, Len(files) - 1)
    /\ UNCHANGED <<treeVars, cwd, callVars, hung, clash, astray>>

-----------------------------------------------------------------------------
(* Calls on a TNFS drive: up to the request. *)

Look(s, p, kind) ==
    /\ Idle
    /\ Event
    /\ Send(Request(kind, s, p, p))
    /\ UNCHANGED <<treeVars, cwd, files, hung, clash, astray>>

\* It opens the directory, to see whether it is one.
Dsetpath(s, p) == Look(s, p, "chdir")

\* Neither can set anything on a server.  Fdatime asks by the descriptor's path.
Fattrib(s, p) == Look(s, p, "stat")
Fdatime(s) == \E i \in DOMAIN files : files[i].slot = s /\ Look(s, files[i].fpath, "stat")

Dcreate(s, p) ==
    /\ Idle
    /\ Event
    /\ Send(Request("mkdir", s, p, p))
    /\ UNCHANGED <<treeVars, cwd, files, hung, clash, astray>>

Ddelete(s, p) ==
    /\ Idle
    /\ Event
    /\ p # Plain(Root)
    /\ Send(Request("rmdir", s, p, p))
    /\ UNCHANGED <<treeVars, cwd, files, hung, clash, astray>>

Fdelete(s, p) ==
    LET c == Request("unlink", s, p, p) IN
    /\ Idle
    /\ Event
    /\ hung' = Hangs(files, p, TnfsDrives)
    /\ files' = Closing(files, p, TnfsDrives)
    /\ clash' = (clash \/ Ambiguous(files, c))
    /\ IF hung' THEN UNCHANGED callVars ELSE Send(c)
    /\ UNCHANGED <<treeVars, cwd, astray>>

Frename(s, p, q) ==
    LET c == Request("rename", s, p, q) IN
    /\ Idle
    /\ Event
    /\ Send(c)
    /\ clash' = (clash \/ Ambiguous(files, c))
    /\ UNCHANGED <<treeVars, cwd, files, hung, astray>>

OnTnfs ==
    \E s \in TnfsDrives :
        \/ \E p \in Resolved(s) : \/ Dsetpath(s, p) \/ Fattrib(s, p)
                                  \/ Dcreate(s, p) \/ Ddelete(s, p) \/ Fdelete(s, p)
                                  \/ \E q \in Resolved(s) : Frename(s, p, q)
        \/ Fdatime(s)

-----------------------------------------------------------------------------
(* The round trip. *)

Sees(c) == IF c.kind = "chdir" THEN tree[c.slot][c.path] = "dir"
             ELSE tree[c.slot][c.path] # "none"

Take(c) == tree' = [tree EXCEPT ![c.slot] = Done(@, c)]

\* The server does it and the answer arrives.
Answered ==
    LET c == call IN
    /\ c # NoCall
    /\ sent
    /\ IF Changes(c) THEN CanDo(tree[c.slot], c) /\ Take(c)
       ELSE Sees(c) /\ UNCHANGED tree
    /\ files' = IF c.kind = "rename"
                THEN Renaming(Follow(files, c), From(c), To(c), TnfsDrives)
                ELSE Follow(files, c)
    /\ SetCwd(c, "ok")
    /\ End(c, "ok")
    /\ UNCHANGED <<hung, delayed, late, upset, clash, events>>

\* Mutant: a file or folder that is not there counts as removed.
DeclinedAsDone ==
    LET c == call IN
    /\ c # NoCall
    /\ sent
    /\ c.kind \in Changing \/ ~Sees(c)
    /\ \E r \in {"refused", "error"} :
           LET told == IF c.kind \in {"unlink", "rmdir"} /\ ~Sees(c) THEN "ok" ELSE r
           IN  End(c, told) /\ SetCwd(c, told)
    /\ UNCHANGED <<treeVars, files, hung, clash, events>>

\* The server declines, with a code that has a GEMDOS counterpart or not.
Declined ==
    LET c == call IN
    /\ c # NoCall
    /\ sent
    /\ c.kind \in Changing \/ ~Sees(c)
    /\ \E r \in {"refused", "error"} : End(c, r) /\ SetCwd(c, r)
    /\ UNCHANGED <<treeVars, files, hung, clash, events>>

\* The server does it and the answer is lost.
Unheard ==
    LET c == call IN
    /\ Changes(c)
    /\ sent
    /\ Event
    /\ CanDo(tree[c.slot], c)
    /\ Take(c)
    /\ files' = Follow(files, c)
    /\ sent' = FALSE
    /\ performed' = TRUE
    /\ upset' = TRUE
    /\ astray' = IF Carries(c) THEN astray \cup {c.slot} ELSE astray
    /\ UNCHANGED <<cwd, call, retries, last, hung, delayed, late, clash>>

\* The network holds the request back.
HeldBack ==
    /\ call.kind \in Changing
    /\ sent
    /\ Event
    /\ Cardinality(delayed) < MaxDelayed
    /\ delayed' = delayed \cup {call}
    /\ sent' = FALSE
    /\ UNCHANGED <<tree, cwd, files, call, retries, last, hung, performed, late, upset,
                   clash, astray>>

\* Mutant: one retry more than there are.
TimedOutLate ==
    /\ call # NoCall
    /\ IF retries >= 0
       THEN /\ retries' = retries - 1
            /\ sent' = TRUE
            /\ UNCHANGED <<cwd, call, last, performed, astray>>
       ELSE End(call, "error") /\ SetCwd(call, "error")
    /\ UNCHANGED <<treeVars, files, hung, clash, events>>

\* The end of fslisting_wait_for without an answer: once more, or the end.
TimedOut ==
    /\ call # NoCall
    /\ IF retries > 0
       THEN /\ retries' = retries - 1
            /\ sent' = TRUE
            /\ UNCHANGED <<cwd, call, last, performed, astray>>
       ELSE End(call, "error") /\ SetCwd(call, "error")
    /\ UNCHANGED <<treeVars, files, hung, clash, events>>

\* A request held back arrives, whatever has happened since.
Arrives(c) ==
    /\ c \in delayed
    /\ delayed' = delayed \ {c}
    /\ CanDo(tree[c.slot], c)
    /\ Take(c)
    /\ files' = Follow(files, c)
    /\ late' = c
    /\ upset' = TRUE
    /\ astray' = IF Carries(c) THEN astray \cup {c.slot} ELSE astray
    /\ UNCHANGED <<cwd, callVars, hung, clash, events>>

RoundTrip ==
    Answered \/ Declined \/ Unheard \/ HeldBack \/ TimedOut \/ \E c \in delayed : Arrives(c)

-----------------------------------------------------------------------------
(* Calls on an SD drive. *)

\* What FatFS answers: a file that is open can be neither removed nor renamed
\* (FF_FS_LOCK), and f_rename replaces no file.
SdAllows(fs, c) ==
    /\ IF Changes(c) THEN CanDo(tree[c.slot], c) ELSE Sees(c)
    /\ c.kind \in {"unlink", "rmdir", "rename"} => ~Locked(fs, c.slot, c.path)
    /\ c.kind = "rename" /\ Changes(c) => tree[c.slot][c.to] = "none"

SdDoes(fs, c) ==
    \/ /\ SdAllows(fs, c)
       /\ IF Changes(c) THEN Take(c) ELSE UNCHANGED tree
       /\ files' = IF c.kind = "rename"
                   THEN Renaming(Follow(fs, c), Key(c.slot, From(c)), Key(c.slot, To(c)), SdDrives)
                   ELSE Follow(fs, c)
       /\ SetCwd(c, "ok")
       /\ End(c, "ok")
    \/ /\ files' = fs
       /\ UNCHANGED <<tree, cwd, astray>>
       /\ \E r \in {"refused", "error"} : End(c, r)

\* Dcreate, Ddelete and Frename.
SdCall(c) ==
    /\ Idle
    /\ Event
    /\ c.kind = "rmdir" => From(c) # Plain(Root)
    /\ SdDoes(files, c)
    /\ clash' = (clash \/ (c.kind = "rename" /\ Ambiguous(files, c)))
    /\ UNCHANGED <<hung, delayed, late, upset>>

\* Fdelete looks for the path among the TNFS files first.
SdFdelete(s, p) ==
    LET c == Request("unlink", s, p, p)
        others == Closing(files, p, TnfsDrives)
        own == Closing(others, Key(s, p), SdDrives)
    IN  /\ Idle
        /\ Event
        /\ hung' = (Hangs(files, p, TnfsDrives) \/ Hangs(others, Key(s, p), SdDrives))
        /\ clash' = (clash \/ Ambiguous(files, c) \/ Named(files, p) # {})
        /\ IF hung' THEN files' = others /\ UNCHANGED <<tree, cwd, callVars, astray>>
           ELSE SdDoes(own, c)
        /\ UNCHANGED <<delayed, late, upset>>

SdDsetpath(s, p) ==
    LET c == Request("chdir", s, p, p)
        r == IF Sees(c) THEN "ok" ELSE "refused"
    IN  /\ Idle
        /\ Event
        /\ End(c, r)
        /\ SetCwd(c, r)
        /\ UNCHANGED <<treeVars, files, hung, clash>>

OnSd ==
    \E s \in SdDrives : \E p \in Resolved(s) :
        \/ \E kind \in {"mkdir", "rmdir"} : SdCall(Request(kind, s, p, p))
        \/ \E q \in Resolved(s) : SdCall(Request("rename", s, p, q))
        \/ SdFdelete(s, p)
        \/ SdDsetpath(s, p)

Next ==
    \/ TurnedDown
    \/ \E s \in Drives : \E p \in Resolved(s) : Fopen(s, p) \/ Fcreate(s, p)
    \/ Fclose
    \/ OnTnfs
    \/ RoundTrip
    \/ OnSd

Spec == Init /\ [][Next]_vars

-----------------------------------------------------------------------------
(* Properties. *)

(***************************************************************************)
(* Whatever is lost, sent again or held back: the effect of UNLINK,        *)
(* RENAME, MKDIR or RMDIR takes place at most once per call although the   *)
(* firmware sends it up to three times, and success is reported only with  *)
(* it ("a create can never be reported as successful unless the server     *)
(* actually performed it", gemdrvemul.c:6569-6571).                        *)
(***************************************************************************)
Promise == INSTANCE OneEffect
TakesEffectOnce == Promise!OeSpec

(***************************************************************************)
(* The path in a descriptor, by which Fdatime asks, Frename and Fdelete    *)
(* find it, names the file that is open: Frename corrects it, Fdelete      *)
(* closes the file first.  Not when the change concerned several           *)
(* descriptors, files below it, or a file opened by another way to write   *)
(* its path ("clash"), or the firmware was not told of it ("upset").       *)
(***************************************************************************)
FpathNamesFile ==
    ~clash /\ ~upset =>
        \A i \in DOMAIN files : /\ files[i].on # Gone
                                /\ files[i].fpath.to = Place(files[i].slot, files[i].on)

(***************************************************************************)
(* A drive's current directory exists, unless it was set without being     *)
(* found, its folder renamed, or removed without the firmware noticing: by *)
(* a request it gave up, by Ddelete with another way to write its path, or *)
(* on the card by Fdelete.  Ddelete of the current directory leaves to the *)
(* parent, which is there.                                                 *)
(***************************************************************************)
CwdExists == \A s \in Drives \ astray : tree[s][cwd[s].to] = "dir"
============================================================================
