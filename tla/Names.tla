------------------------------- MODULE Names -------------------------------
(***************************************************************************)
(* Names, paths, patterns and times of one drive: how Dsetpath and Fsfirst *)
(* turn what the Atari writes into a path and a pattern, which entries of  *)
(* the server or the card are listed, and what the listing, Fdatime and    *)
(* the clock say of a time.  A text is a sequence of characters, a path a  *)
(* sequence of texts.  Separators, doubled slashes and the prefix of the   *)
(* drive's own letter are gone from a path; a buffer of MAX_FOLDER_LENGTH  *)
(* bytes is one of MaxParts components.  A letter or a colon elsewhere in  *)
(* a path is left out.                                                     *)
(***************************************************************************)
EXTENDS Dates, Sequences, FiniteSets, SequencesExt

CONSTANTS BaseLen,     \* the 8 of an 8.3 name
          ExtLen,      \* its 3
          UpperOf,     \* the upper-case letter of each lower-case one
          Illegal,     \* characters no name on the server may have
          Unlisted,    \* characters filter_fname() drops
          MaxParts,    \* components that fit MAX_FOLDER_LENGTH
          Paths,       \* paths of Dsetpath: [rooted, parts]
          Specs,       \* searches of Fsfirst: [rooted, parts, attribs]
          Entries,     \* what a server lists: [name, flags, mtime]
          CardEntries, \* what the card lists: [name, attribs]
          Times,       \* times of files and of the clock
          Offsets,     \* configured UTC offsets, in seconds
          MaxCalls     \* bound on the calls of the Atari but Fsnext

VARIABLES backend,  \* of the drive: "tnfs", "sd" or "settings"
          cwd,      \* dpath_string_table[] of the drive
          search,   \* the search of the DTA, or NoSearch
          entry,    \* the entry the search looks at
          pc,       \* "idle", or "match" inside wildcard_match_upper()
          p, s,     \* positions in the pattern and in the name
          star,     \* star_p and star_s, or NoStar
          told,     \* what the Atari was told last
          before,   \* times of the line listed before it in the same search
          calls     \* the calls made so far

vars == <<backend, cwd, search, entry, pc, p, s, star, told, before, calls>>

Nothing  == [kind |-> "nothing"]
NoSearch == [kind |-> "none"]
NoStar   == [p |-> 0, s |-> 0]
Dot      == <<".">>
DotDot   == <<".", ".">>

Upper(c) == IF c \in DOMAIN UpperOf THEN UpperOf[c] ELSE c

Cut(t, n) == SubSeq(t, 1, IF Len(t) > n THEN n ELSE Len(t))

Init ==
  /\ backend \in {"tnfs", "sd", "settings"}
  /\ cwd = <<>> /\ search = NoSearch /\ entry = Nothing
  /\ pc = "idle" /\ p = 0 /\ s = 0 /\ star = NoStar
  /\ told = Nothing /\ before = Nothing /\ calls = 0

(* The Atari calls when its last call has returned. *)
Call == pc = "idle" /\ calls < MaxCalls /\ calls' = calls + 1

-----------------------------------------------------------------------------
(* Paths. *)

\* Mutant: strcat() instead of snprintf().
WholeUncut(r) == IF r.rooted THEN Cut(r.parts, MaxParts) ELSE cwd \o r.parts

(* The concatenation with the current directory; snprintf() silently cuts  *)
(* what does not fit.                                                      *)
Whole(r) == IF r.rooted THEN Cut(r.parts, MaxParts) ELSE Cut(cwd \o r.parts, MaxParts)

(* normalize_gemdos_path(): "." is dropped, ".." takes the last component. *)
Canonical(parts) ==
  LET Step(done, c) == IF c \in {<<>>, Dot} THEN done
                       ELSE IF c = DotDot THEN Front(done)
                       ELSE Append(done, c)
  IN  FoldLeft(Step, <<>>, parts)

(* A failed Dsetpath changes the current directory all the same, except on *)
(* the settings drive, which has a root only.                              *)
Dsetpath(r) ==
  LET path == Canonical(Whole(r))
  IN  /\ Call
      /\ cwd' = IF backend # "settings" \/ path = <<>> THEN path ELSE cwd
      /\ UNCHANGED <<backend, search, entry, pc, p, s, star, told, before>>

(* Without a field for an error, a drive that is none of the firmware's    *)
(* has an empty path, like a root.                                         *)
Dgetpath ==
  /\ Call
  /\ \E path \in {cwd, <<>>} : told' = [kind |-> "path", path |-> path]
  /\ entry' = Nothing /\ before' = Nothing
  /\ UNCHANGED <<backend, cwd, search, pc, p, s, star>>

-----------------------------------------------------------------------------
(* Searches. *)

(* seach_path_2_st() and, again, normalize_gemdos_pattern(). *)
StripDotStar(t) ==
  IF Len(t) >= 2 /\ t[Len(t)] = "*" /\ t[Len(t) - 1] = "." THEN SubSeq(t, 1, Len(t) - 2)
  ELSE t

(* remove_trailing_spaces() *)
WithoutSpaces(t) == SubSeq(t, 1, Max({0} \cup {i \in DOMAIN t : t[i] # " "}))

LastPart(parts) == IF parts = <<>> THEN <<>> ELSE Last(parts)

Pattern(q) == WithoutSpaces(StripDotStar(LastPart(q.path)))

(* What the matcher compares with: 12 characters, without another ".*". *)
Normal(t) == StripDotStar(Cut(t, BaseLen + 1 + ExtLen))

(* Every search but one for the label also wants plain files. *)
Widened(attribs) == IF "label" \in attribs THEN attribs ELSE attribs \cup {"arch"}

Fsfirst(r) ==
  LET whole == Whole(r)
  IN  /\ Call
      /\ search' = [kind |-> backend, whole |-> whole, path |-> Canonical(whole),
                    asked |-> r.attribs, attribs |-> Widened(r.attribs)]
      /\ entry' = Nothing /\ told' = Nothing /\ before' = Nothing
      /\ UNCHANGED <<backend, cwd, pc, p, s, star>>

-----------------------------------------------------------------------------
(* The entries of a server. *)

(* sidetnfs_is_supported_83_name() *)
Supported83(name) ==
  LET dots == {i \in DOMAIN name : name[i] = "."}
      base == IF dots = {} THEN Len(name) ELSE Max(dots) - 1
  IN  /\ name # <<>> /\ name[1] # "."
      /\ \A i \in DOMAIN name : name[i] \notin Illegal \cup DOMAIN UpperOf
      /\ Cardinality(dots) <= 1
      /\ base \in 1..BaseLen
      /\ dots # {} => (Len(name) - base - 1) \in 1..ExtLen

(* sidetnfs_normalize_dir_entry() *)
Normalizes(e) == "special" \notin e.flags /\ Supported83(e.name)

Attributes(e) == e.flags \cap {"folder", "hidden"}

(* sidetnfs_gemdos_attr_match() *)
AttrMatch(attr, wanted) == (IF attr = {} THEN {"arch"} ELSE attr) \cap wanted # {}

(* The line populate_dta_from_sidetnfs_entry() writes into the DTA. *)
Line(e) == [kind |-> "line", name |-> e.name, attr |-> Attributes(e),
            mtime |-> e.mtime, words |-> ListingDate(e.mtime)]

Ended(passed) ==
  /\ pc' = "idle" /\ p' = 0 /\ s' = 0 /\ star' = NoStar
  /\ told' = IF passed THEN Line(entry) ELSE [kind |-> "passed"]

(* The next entry of the batch: unsupported ones are passed over. *)
Entry(e) ==
  /\ pc = "idle" /\ search.kind = "tnfs" /\ backend = "tnfs"
  /\ entry' = e
  /\ before' = IF told.kind = "line" THEN [mtime |-> told.mtime, words |-> told.words] ELSE before
  /\ IF Normalizes(e)
       THEN pc' = "match" /\ p' = 1 /\ s' = 1 /\ told' = Nothing
       ELSE told' = [kind |-> "passed"] /\ UNCHANGED <<pc, p, s>>
  /\ UNCHANGED <<backend, cwd, search, star, calls>>

(* wildcard_match_upper(), one turn of its loop at a time. *)
Wild == Normal(Pattern(search))

WildAt(i) == IF i <= Len(Wild) THEN Wild[i] ELSE ""

Same == WildAt(p) = "?" \/ Upper(WildAt(p)) = Upper(entry.name[s])

InName == pc = "match" /\ s <= Len(entry.name)

Matching == UNCHANGED <<backend, cwd, search, entry, before, calls>>

Advance ==
  /\ InName /\ Same
  /\ p' = p + 1 /\ s' = s + 1
  /\ Matching /\ UNCHANGED <<pc, star, told>>

Star ==
  /\ InName /\ ~Same /\ WildAt(p) = "*"
  /\ star' = [p |-> p, s |-> s] /\ p' = p + 1
  /\ Matching /\ UNCHANGED <<pc, s, told>>

\* Mutant: the name is not rewound to behind the star.
BacktrackOnward ==
  /\ InName /\ ~Same /\ WildAt(p) # "*" /\ star # NoStar
  /\ star' = [star EXCEPT !.s = @ + 1]
  /\ p' = star.p + 1 /\ s' = s + 1
  /\ Matching /\ UNCHANGED <<pc, told>>

Backtrack ==
  /\ InName /\ ~Same /\ WildAt(p) # "*" /\ star # NoStar
  /\ star' = [star EXCEPT !.s = @ + 1]
  /\ p' = star.p + 1 /\ s' = star.s + 1
  /\ Matching /\ UNCHANGED <<pc, told>>

Mismatch ==
  /\ InName /\ ~Same /\ WildAt(p) # "*" /\ star = NoStar
  /\ Ended(FALSE) /\ Matching

SkipStars ==
  /\ pc = "match" /\ ~InName /\ WildAt(p) = "*"
  /\ p' = p + 1
  /\ Matching /\ UNCHANGED <<pc, s, star, told>>

Decide ==
  /\ pc = "match" /\ ~InName /\ WildAt(p) # "*"
  /\ Ended(p > Len(Wild) /\ AttrMatch(Attributes(entry), search.attribs))
  /\ Matching

-----------------------------------------------------------------------------
(* The entries of the card. *)

(* attribs_fat2st() *)
FatToSt == [rdo |-> "readonly", hid |-> "hidden", sys |-> "system", dir |-> "folder",
            arc |-> "arch"]

Fat2St(fat) == {FatToSt[a] : a \in fat}

(* filter_fname() and upper_fname(): one more than the 12 characters. *)
Filtered(name) ==
  LET kept == Cut(SelectSeq(name, LAMBDA c : c \notin Unlisted), BaseLen + ExtLen + 2)
  IN  [i \in DOMAIN kept |-> Upper(kept[i])]

(* shorten_fname(): the last dot that is not the first character divides   *)
(* the name, a long base ends in "~1", other characters become "_".        *)
Shortened(name) ==
  LET dots == {i \in DOMAIN name : name[i] = "."}
      dot  == IF dots \subseteq {1} THEN Len(name) + 1 ELSE Max(dots)
      Clean(t) == [i \in DOMAIN t |-> IF t[i] \in Illegal THEN "_" ELSE t[i]]
      Plain(t) == [i \in DOMAIN t |-> IF t[i] = "." THEN "_" ELSE t[i]]
      stem == Clean(Plain(SubSeq(name, 1, dot - 1)))
      ext  == Clean(Cut(SubSeq(name, dot + 1, Len(name)), ExtLen))
      base == IF Len(stem) > BaseLen THEN SubSeq(stem, 1, BaseLen - 2) \o <<"~", "1">> ELSE stem
  IN  IF ext = <<>> THEN base ELSE base \o <<".">> \o ext

CardName(name) == Shortened(Filtered(name))

(* f_findfirst() or f_findnext() gives an entry that FatFs matched with    *)
(* the pattern; one of the wrong kind or of a dotted name is passed over.  *)
CardEntry(e) ==
  LET attr == Fat2St(e.attribs)
  IN  /\ pc = "idle" /\ search.kind = "sd" /\ backend = "sd"
      /\ entry' = e
      /\ told' = IF attr \cap search.attribs # {} /\ e.name[1] # "."
                   THEN [kind |-> "cardline", name |-> CardName(e.name), attr |-> attr]
                   ELSE [kind |-> "passed"]
      /\ UNCHANGED <<backend, cwd, search, pc, p, s, star, before, calls>>

-----------------------------------------------------------------------------
(* Times. *)

(* Fdatime asks for the time of a file of the server. *)
Fdatime(t, offset) ==
  /\ Call /\ backend = "tnfs"
  /\ told' = [kind |-> "datetime", mtime |-> t, offset |-> offset,
              words |-> FileDate(t, offset)]
  /\ entry' = Nothing /\ before' = Nothing
  /\ UNCHANGED <<backend, cwd, search, pc, p, s, star>>

(* The clock packet, at boot and when the XBIOS vector is saved; the clock *)
(* was set from the answer of the time server and the offset, in 32 bits.  *)
SetClock(t, offset, y2k_patch) ==
  /\ Call
  /\ LET local == ShiftedWord(t, offset)
     IN  told' = [kind |-> "clock", local |-> local, patched |-> y2k_patch,
                  packet |-> Clock(local, y2k_patch)]
  /\ entry' = Nothing /\ before' = Nothing
  /\ UNCHANGED <<backend, cwd, search, pc, p, s, star>>

Search ==
  \/ \E r \in Specs : Fsfirst(r)
  \/ \E e \in Entries : Entry(e)
  \/ \E e \in CardEntries : CardEntry(e)

Match == Advance \/ Star \/ Backtrack \/ Mismatch \/ SkipStars \/ Decide

Next ==
  \/ \E r \in Paths : Dsetpath(r)
  \/ Dgetpath
  \/ Search
  \/ Match
  \/ \E t \in Times, offset \in Offsets : Fdatime(t, offset)
  \/ \E t \in Times, offset \in Offsets, patch \in BOOLEAN : SetClock(t, offset, patch)

Spec == Init /\ [][Next]_vars

-----------------------------------------------------------------------------
(* Properties. *)

(* Types; the current directory always fits its buffer, whatever was       *)
(* appended to it (dpath_string_table[]), and the matcher never reads      *)
(* beyond the end of the pattern or the name (wildcard_match_upper()).     *)
TypeOK ==
  /\ backend \in {"tnfs", "sd", "settings"}
  /\ Len(cwd) <= MaxParts
  /\ pc \in {"idle", "match"}
  /\ pc = "match" => p \in 1..(Len(Wild) + 1) /\ s \in 1..(Len(entry.name) + 1)
  /\ star # NoStar => pc = "match" /\ star.p \in 1..(p - 1) /\ star.s \in 1..s

(* What stays of a path: the names that no later ".." takes back. *)
Stays(parts) ==
  {i \in DOMAIN parts :
     /\ parts[i] \notin {<<>>, Dot, DotDot}
     /\ \A j \in (i + 1)..Len(parts) :
          Cardinality({k \in (i + 1)..j : parts[k] = DotDot})
            <= Cardinality({k \in (i + 1)..j : parts[k] \notin {<<>>, Dot, DotDot}})}

SearchIsCanonical ==
  search # NoSearch =>
    LET stays == Stays(search.whole)
    IN  /\ Len(search.path) = Cardinality(stays)
        /\ \A i \in stays :
             search.path[Cardinality({j \in stays : j <= i})] = search.whole[i]

CwdIsCanonical == \A i \in DOMAIN cwd : cwd[i] \notin {<<>>, Dot, DotDot}

Legal(t) == \A i \in DOMAIN t : t[i] \notin {"."} \cup Illegal \cup DOMAIN UpperOf

Is83(name) ==
  \/ Len(name) \in 1..BaseLen /\ Legal(name)
  \/ \E d \in DOMAIN name :
       /\ name[d] = "." /\ d - 1 \in 1..BaseLen /\ Len(name) - d \in 1..ExtLen
       /\ Legal(SubSeq(name, 1, d - 1)) /\ Legal(SubSeq(name, d + 1, Len(name)))

(* pat stands for name: a run of the name for every "*", any character for *)
(* every "?", the same letter for every other.                             *)
Glob(pat, name) ==
  \E at \in [1..(Len(pat) + 1) -> 1..(Len(name) + 1)] :
    /\ at[1] = 1 /\ at[Len(pat) + 1] = Len(name) + 1
    /\ \A k \in DOMAIN pat :
         IF pat[k] = "*" THEN at[k] <= at[k + 1]
         ELSE /\ at[k + 1] = at[k] + 1
              /\ pat[k] = "?" \/ Upper(pat[k]) = Upper(name[at[k]])

(* The Atari asked for the entry: plain files always, unless for a label.  *)
Asked(attr, asked) ==
  IF attr = {} THEN "label" \notin asked \/ "arch" \in asked ELSE attr \cap asked # {}

LinesAreWanted ==
  (told.kind \in {"line", "passed"} /\ backend = "tnfs") =>
    (told.kind = "line" <=> /\ "special" \notin entry.flags
                            /\ Is83(entry.name)
                            /\ Glob(Normal(Pattern(search)), entry.name)
                            /\ Asked(Attributes(entry), search.asked))

CardLinesFit == told.kind = "cardline" => told.name = <<>> \/ Is83(told.name)

(* Search results: the path that is searched is what the written one means *)
(* with "." and ".." resolved (normalize_gemdos_path()), an entry of a     *)
(* server is listed exactly when it has an 8.3 name, the pattern stands    *)
(* for it and it is of a wanted kind (the loop of wildcard_match_upper()   *)
(* and the filters around it), and a card's line has an 8.3 name or none.  *)
ListedExactly == SearchIsCanonical /\ CwdIsCanonical /\ LinesAreWanted /\ CardLinesFit

NotLater(a, b) == a.day < b.day \/ (a.day = b.day /\ a.sec <= b.sec)

WordsNotLater(a, b) == a.date < b.date \/ (a.date = b.date /\ a.time <= b.time)

DatesKeepOrder ==
  (told.kind = "line" /\ before # Nothing /\ NotLater(before.mtime, told.mtime)) =>
    WordsNotLater(before.words, told.words)

DatesAgree ==
  (told.kind = "datetime" /\ told.offset = 0 /\ Calendar(told.mtime).year >= 1980) =>
    told.words = ListingDate(told.mtime)

FromBcd(b) == (10 * (b \div 16)) + (b % 16)

ClockIsRight ==
  told.kind = "clock" =>
    LET c    == Calendar(told.local)
        year == IF told.patched THEN (c.year + 70) % 100 ELSE c.year % 100
    IN  c.year < 2090 =>
          /\ FromBcd(told.packet.year) = year
          /\ \A f \in DOMAIN told.packet :
               told.packet[f] % 16 <= 9 /\ told.packet[f] \div 16 <= 9
          /\ FromBcd(told.packet.minute) = c.minute


============================================================================
