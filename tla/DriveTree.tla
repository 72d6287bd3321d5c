----------------------------- MODULE DriveTree ------------------------------
(***************************************************************************)
(* The tree of files and folders of one drive, and what the calls that     *)
(* change it do: TNFS UNLINK, RENAME, MKDIR, RMDIR on a server, f_unlink,  *)
(* f_rename, f_mkdir on the card.  Neither is code of this repository; the *)
(* firmware relies on the server "refusing a directory" and on it checking *)
(* emptiness "atomically".                                                 *)
(*                                                                         *)
(* A path is the sequence of its names; paths deeper than MaxDepth do not  *)
(* fit MAX_FOLDER_LENGTH and are refused.  There is more than one way to   *)
(* write it, and the firmware compares what is written.                    *)
(***************************************************************************)
EXTENDS Naturals, Sequences

CONSTANTS
    Names,    \* names of files and folders
    MaxDepth, \* names in the longest path
    Gone,     \* the path of a file that has none any more
    Dots,     \* ways to write a path that normalize_gemdos_path undoes: ".", "..", "/" at its end
    Kept,     \* ways to write it that it keeps: letters in another case
    SdDrives  \* drives on the card

ASSUME DepthAssumption == MaxDepth \in Nat

Paths == UNION {[1..k -> Names] : k \in 0..MaxDepth}
Root == <<>>

ASSUME GoneAssumption == Gone \notin Paths

Trees == [Paths -> {"none", "file", "dir"}]

Parent(p) == SubSeq(p, 1, Len(p) - 1)

\* A path as it is written.
Written == [to : Paths, as : SUBSET (Dots \cup Kept)]
Plain(p) == [to |-> p, as |-> {}]
Normal(w) == [w EXCEPT !.as = IF w.to = Root THEN {} ELSE @ \cap Kept]

\* Path p is q or lies below it.
Under(p, q) == /\ Len(q) <= Len(p)
               /\ SubSeq(p, 1, Len(q)) = q

\* Where p is once q has become r.
Moved(p, q, r) == r \o SubSeq(p, Len(q) + 1, Len(p))

Below(t, p) == {q \in Paths : q # p /\ Under(q, p) /\ t[q] # "none"}

\* Only folders hold something.
IsTree(t) == \A p \in Paths : Below(t, p) # {} => t[p] = "dir"

CanHold(t, p) == p # Root /\ t[Parent(p)] = "dir"

(***************************************************************************)
(* A request: what it does and to which path of which drive; "to" is the   *)
(* new name in a rename and the path itself otherwise.  Both as written.   *)
(***************************************************************************)
Request(kind, s, p, q) ==
    [kind |-> kind, slot |-> s, path |-> p.to, as |-> p.as, to |-> q.to, toAs |-> q.as]

From(c) == [to |-> c.path, as |-> c.as]
To(c) == [to |-> c.to, as |-> c.toAs]

Changing == {"create", "unlink", "rename", "mkdir", "rmdir"}

\* A name written another way is the same name.
Changes(c) == c.kind \in Changing /\ ~(c.kind = "rename" /\ c.path = c.to)

CanRename(t, p, q) ==
    /\ p # Root
    /\ t[p] # "none"
    /\ CanHold(t, q)
    /\ ~Under(q, p) /\ ~Under(p, q)
    /\ \A x \in Below(t, p) : Moved(x, p, q) \in Paths
    /\ t[q] = "none" \/ (t[p] = "file" /\ t[q] = "file")

EmptyFolder(t, p) == t[p] = "dir" /\ Below(t, p) = {}

\* Whether tree t lets c happen.  Permissions may forbid it all the same.  On
\* the card one f_unlink removes files and folders, the drive's own too.
CanDo(t, c) ==
    \/ c.kind = "create" /\ t[c.path] # "dir" /\ CanHold(t, c.path)
    \/ c.kind = "unlink" /\ t[c.path] = "file"
    \/ c.kind = "mkdir" /\ t[c.path] = "none" /\ CanHold(t, c.path)
    \/ c.kind = "rmdir" /\ c.path # Root /\ EmptyFolder(t, c.path)
    \/ /\ c.slot \in SdDrives /\ c.kind \in {"unlink", "rmdir"}
       /\ t[c.path] = "file" \/ EmptyFolder(t, c.path)
    \/ c.kind = "rename" /\ CanRename(t, c.path, c.to)

Renamed(t, p, q) ==
    [x \in Paths |->
        IF Under(x, q)
        THEN LET y == Moved(x, q, p) IN IF y \in Paths THEN t[y] ELSE "none"
        ELSE IF Under(x, p) THEN "none" ELSE t[x]]

\* The tree after c.
Done(t, c) ==
    CASE c.kind = "create" -> [t EXCEPT ![c.path] = "file"]
      [] c.kind = "mkdir" -> [t EXCEPT ![c.path] = "dir"]
      [] c.kind = "rename" -> Renamed(t, c.path, c.to)
      [] OTHER -> [t EXCEPT ![c.path] = "none"]
============================================================================
