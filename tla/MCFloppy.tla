------------------------------ MODULE MCFloppy ------------------------------
(***************************************************************************)
(* Two servers and a card.  The first server's root has a folder and two   *)
(* files; pages have two entries and batches too.  Three images can  *)
(* be mounted: one single-sided with one FAT, two double-sided; a fourth   *)
(* has a boot sector that does not fit its size.                           *)
(***************************************************************************)
EXTENDS Floppy, TLC

Dir(n) == [name |-> n, kind |-> "dir"]
File(n) == [name |-> n, kind |-> "file"]
Dot(n) == [name |-> n, kind |-> "dot"]

MCHosts == {"A", "B"}
MCNumbers == {1, 2}
MCListing ==
    "A" :> (<<>> :> <<Dot("."), File("x"), Dir("d"), File("y")>> @@ <<"d">> :> <<Dot("."), Dot(".."), File("x")>>)
    @@ "B" :> (<<>> :> <<File("y")>>)
    @@ "SD" :> (<<>> :> <<File("y")>> @@ <<"d">> :> <<File("x"), Dir("d"), File("y")>>)

Single == [bytes |-> 368640, bps |-> 512, total |-> 720, spt |-> 9, sides |-> 1, spc |-> 2,
           res |-> 1, fats |-> 1, entries |-> 64, spf |-> 3]
Double == [Single EXCEPT !.bytes = 737280, !.total = 1440, !.sides = 2, !.fats = 2,
                         !.entries = 112, !.spf = 5]
Broken == [Double EXCEPT !.total = 1439]

On(s, p) == [src |-> s, path |-> p]
MCDisks == On("A", "x") :> Single @@ On("A", "y") :> Broken
           @@ On("B", "y") :> Double @@ On("SD", "y") :> Double
MCNotABoot == [bps |-> 65529, total |-> 0, spt |-> 0, sides |-> 0, spc |-> 255, res |-> 0,
               fats |-> 0, entries |-> 0, spf |-> 0]

MCStarts == {<<>>, <<"d">>}
MCPaths == {"x", "y"}

\* The texts A, B, x and y; favourites: A's x, its y, which is no image, B's y and
\* the card's.
MCOffsets == 0..3
MCChunks == {[o \in 0..3 |-> <<"A", "B", "x", "y">>[o + 1]]}
OnServer(src, path) == [sd |-> FALSE, src |-> src, path |-> path]
MCTables == {[entries |-> (0 :> OnServer(0, 2) @@ 1 :> OnServer(0, 3) @@ 2 :> OnServer(1, 3)
                           @@ 3 :> [sd |-> TRUE, src |-> 0, path |-> 3]),
              used |-> 4, active |-> 0]}
============================================================================
