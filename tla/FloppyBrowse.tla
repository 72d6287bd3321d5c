---------------------------- MODULE FloppyBrowse ----------------------------
(***************************************************************************)
(* src/romemul/sidetnfs_floppy_browse.c: the browser for floppy images,    *)
(* with the directory exchanges of src/romemul/sidetnfs_probe.c it uses.   *)
(*                                                                         *)
(* A page is a part of one sequence: the directory's folders and then its  *)
(* files.  On a TNFS server the directory is read from its start for every *)
(* page, once for the folders and once for the files; a call that takes    *)
(* too long is put off, and the program asks again for the same page.      *)
(***************************************************************************)
EXTENDS FloppySlot

CONSTANTS
    PageEntries, \* FLOPPY_BROWSE_PAGE_ENTRIES
    Batch,       \* SIDETNFS_FLOPPY_BROWSE_READDIRX_BATCH
    SkipRounds,  \* SIDETNFS_TNFS_RAW_READDIR_SKIP_ROUNDS
    DirRetries,  \* SIDETNFS_FLOPPY_BROWSE_READDIRX_NETWORK_RETRIES
    Starts,      \* start directories programs ask for
    MaxPage      \* last page they ask for (bound of the model)

ASSUME BrowseAssumption ==
    /\ {PageEntries, Batch, SkipRounds} \subseteq Nat \ {0}
    /\ {DirRetries, MaxPage} \subseteq Nat

VARIABLES
    browse, \* s_browse without its walk
    told,   \* history: source and directory of every generation
    walk,   \* the walk of s_browse, and the page region it fills
    cache,  \* s_raw_readdir_cache
    call,   \* the GET_PAGE that is running; it may stop for now at "head" only
    upset,  \* history: entries of this walk went to nobody, or its session is gone
    answer  \* to the latest GET_PAGE

browseVars == <<browse, told, walk, cache, call, upset, answer>>

Root == <<>>
Names == UNION {UNION {{Listing[s][d][i].name : i \in DOMAIN Listing[s][d]} :
                           d \in DOMAIN Listing[s]} : s \in Sources}
Entries == [name : Names, kind : {"dir", "file", "dot"}]

ASSUME ListingAssumption ==
    \A s \in Sources :
        /\ DOMAIN Listing[s] \subseteq Seq(Names)
        /\ \A dir \in DOMAIN Listing[s] : Listing[s][dir] \in Seq(Entries)

NoCache == [valid |-> FALSE, number |-> 0, left |-> <<>>, eof |-> FALSE]
NotRunning == [at |-> "none", rounds |-> 0, retries |-> 0]
Answer(status, g, k) == [status |-> status, gen |-> g, page |-> k]
NoAnswer == Answer("none", 0, 0)

NewWalk(g, k) ==
    [active |-> TRUE, open |-> FALSE, number |-> 0, gen |-> g, page |-> k, files |-> FALSE,
     total |-> 0, matched |-> 0, region |-> <<>>, more |-> FALSE]

Walks == [active : BOOLEAN, open : BOOLEAN, number : Numbers \cup {0}, gen : Nat,
          page : Nat, files : BOOLEAN, total : Nat, matched : Nat,
          region : Seq(Entries), more : BOOLEAN]

BrowseTypeOK ==
    /\ browse \in [open : BOOLEAN, sd : BOOLEAN, root : Seq(Names), cwd : Seq(Names), gen : Nat]
    /\ told \in Seq([src : Sources, dir : Seq(Names)])
    /\ walk \in Walks
    /\ cache \in [valid : BOOLEAN, number : Numbers \cup {0}, left : Seq(Entries), eof : BOOLEAN]
    /\ call \in [at : {"none", "first", "head", "read"}, rounds : 0..SkipRounds,
                 retries : 0..DirRetries]
    /\ upset \in BOOLEAN
    /\ answer \in [status : {"none", "ok", "end", "again", "not_open", "stale", "error"},
                   gen : Nat, page : Nat]

BrowseInit ==
    /\ browse = [open |-> FALSE, sd |-> FALSE, root |-> Root, cwd |-> Root, gen |-> 0]
    /\ told = <<>>
    /\ walk = [NewWalk(0, 0) EXCEPT !.active = FALSE]
    /\ cache = NoCache
    /\ call = NotRunning
    /\ upset = FALSE
    /\ answer = NoAnswer

\* abandon_walk, on the slot after outcome o.
Abandoning(o) ==
    IF walk.active /\ walk.open /\ ~browse.sd THEN Then(o, CloseDir(o.slot, walk.number)) ELSE {o}

Abandoned == [walk EXCEPT !.active = FALSE, !.open = FALSE]

\* A directory is opened to see whether it can be.
Probe(s, dir) ==
    UNION {IF o.ok THEN CloseDir(o.slot, o.got) ELSE {o} : o \in OpenDir(s, dir)}

\* f_stat finds no root directory.
CardDir(dir) == dir # Root /\ dir \in DOMAIN Listing[Card]

\* What the caller is told of a new generation.
Generation(b, src) ==
    /\ browse' = [b EXCEPT !.gen = Len(told) + 1]
    /\ told' = Append(told, [src |-> src, dir |-> b.root \o b.cwd])

-----------------------------------------------------------------------------
(* BROWSE_OPEN and CHANGE_DIR. *)

\* A start directory that cannot be opened gives way to the root.
BrowseOpenTnfs(src, start) ==
    /\ Event
    /\ \E a \in Abandoning(Unchanged(slot)) :
       \E m \in Then(a, Mount(a.slot, src)) :
       \E p \in IF m.ok THEN Then(m, Probe(m.slot, start)) ELSE {m} :
       \E r \in IF m.ok /\ ~p.ok /\ start # Root THEN Then(p, Probe(p.slot, Root)) ELSE {p} :
           /\ Exchange([r EXCEPT !.slot.taken = ~r.ok /\ @])
           /\ IF r.ok
              THEN /\ Generation([browse EXCEPT !.open = TRUE, !.sd = FALSE, !.root = Root,
                                                !.cwd = IF p.ok THEN start ELSE Root], src)
                   /\ cache' = NoCache
              ELSE UNCHANGED <<browse, told, cache>>
    /\ walk' = Abandoned
    /\ UNCHANGED <<call, upset, answer>>

\* The start directory is also the root of what is browsed.  The card may be
\* missing.
BrowseOpenSd(start) ==
    /\ Event
    /\ \E a \in Abandoning(Unchanged(slot)) : Exchange(a)
    /\ \/ /\ CardDir(start)
          /\ Generation([browse EXCEPT !.open = TRUE, !.sd = TRUE, !.root = start,
                                       !.cwd = Root], Card)
       \/ UNCHANGED <<browse, told>>
    /\ walk' = Abandoned
    /\ UNCHANGED <<cache, call, upset, answer>>

\* Names that no page has are refused, and so is a generation gone by.
Wanted == {SubSeq(browse.cwd, 1, IF browse.cwd = Root THEN 0 ELSE Len(browse.cwd) - 1)}
              \cup {Append(browse.cwd, n) : n \in Names \ {".", ".."}}

Moved(cwd) ==
    /\ Generation([browse EXCEPT !.cwd = cwd], IF browse.sd THEN Card ELSE told[browse.gen].src)
    /\ walk' = Abandoned

ChangeDir(cwd) ==
    /\ Event
    /\ browse.open
    /\ cwd \in Wanted
    /\ \E p \in IF ~browse.sd THEN Probe(slot, cwd) ELSE {Unchanged(slot)} :
       \E a \in IF p.ok THEN Abandoning(p) ELSE {p} :
           /\ Exchange(a)
           /\ IF p.ok /\ (browse.sd => CardDir(browse.root \o cwd))
              THEN Moved(cwd) ELSE UNCHANGED <<browse, told, walk>>
           /\ cache' = IF p.ok /\ ~browse.sd THEN NoCache ELSE cache
    /\ UNCHANGED <<call, upset, answer>>

-----------------------------------------------------------------------------
(* What a walk makes of the entries of the directory, one by one. *)

\* What comes before the page, of the kind that is counted now.
ToSkip(w) ==
    LET before == w.page * PageEntries IN
    IF ~w.files THEN before ELSE IF before > w.total THEN before - w.total ELSE 0

Take(w, e) ==
    IF w.more \/ (e.kind = "dir") = w.files THEN w
    ELSE IF w.matched < ToSkip(w) THEN [w EXCEPT !.matched = @ + 1]
    ELSE IF Len(w.region) < PageEntries
         THEN [w EXCEPT !.region = Append(@, e), !.matched = @ + 1]
    ELSE [w EXCEPT !.more = TRUE]

\* The entries es one after the other.
TakeAll(w, es) ==
    LET after[n \in 0..Len(es)] == IF n = 0 THEN w ELSE Take(after[n - 1], es[n])
    IN  after[Len(es)]

FilesPhase(w) ==
    [w EXCEPT !.open = FALSE, !.files = TRUE, !.total = w.matched, !.matched = 0]

Page(w) == Answer(IF w.region = <<>> /\ ~w.more THEN "end" ELSE "ok", w.gen, w.page)

Done(w) == [w EXCEPT !.active = FALSE, !.open = FALSE]

\* The entries of some kinds, in their order.
OfKinds(es, kinds) ==
    LET of[n \in 0..Len(es)] ==
            IF n = 0 THEN <<>>
            ELSE IF es[n].kind \in kinds THEN Append(of[n - 1], es[n]) ELSE of[n - 1]
    IN  of[Len(es)]

Real(es) == OfKinds(es, {"dir", "file"})

-----------------------------------------------------------------------------
(* GET_PAGE. *)

Resumes(g, k) == walk.active /\ walk.gen = g /\ walk.page = k

\* Without BROWSE_OPEN, or for a generation that is not the latest.
GetPageRefused(g) ==
    /\ Event
    /\ ~browse.open \/ g # browse.gen
    /\ answer' = [NoAnswer EXCEPT !.status = IF browse.open THEN "stale" ELSE "not_open"]
    /\ UNCHANGED <<slot, faults, browse, told, walk, cache, call, upset>>

\* The card is read at once, folders first, unless it is missing.
GetPageSd(g, k) ==
    LET es == Real(Listing[Card][browse.root \o browse.cwd])
        dirs == TakeAll(NewWalk(g, k), es)
        w == IF dirs.more THEN dirs ELSE TakeAll(FilesPhase(dirs), es)
    IN
    /\ Event
    /\ browse.open /\ browse.sd
    /\ g = browse.gen
    /\ \E a \in Abandoning(Unchanged(slot)) : Exchange(a)
    /\ \/ /\ walk' = [Done(NewWalk(g, k)) EXCEPT !.region = w.region, !.more = w.more]
          /\ answer' = Page(w)
       \/ walk' = Done(NewWalk(g, k)) /\ answer' = Answer("error", g, k)
    /\ upset' = FALSE
    /\ UNCHANGED <<browse, told, cache, call>>

\* A request for the page of the walk goes on with it.
GetPageTnfs(g, k) ==
    /\ browse.open /\ ~browse.sd
    /\ g = browse.gen
    /\ IF Resumes(g, k)
       THEN UNCHANGED <<walk, upset, slot, faults, events>>
       ELSE /\ Event
            /\ \E a \in Abandoning(Unchanged(slot)) : Exchange(a)
            /\ walk' = NewWalk(g, k)
            /\ upset' = FALSE
    /\ call' = [NotRunning EXCEPT !.at = "first"]
    /\ answer' = NoAnswer
    /\ UNCHANGED <<browse, told, cache>>

\* FLOPPY_BROWSE_TNFS_CALL_TIME_BUDGET_US have passed.
Pause ==
    /\ call.at = "head"
    /\ call' = NotRunning
    /\ answer' = Answer("again", walk.gen, walk.page)
    /\ UNCHANGED <<slot, events, faults, browse, told, walk, cache, upset>>

Fail(s, w) ==   \* s: the outcome of the exchange that failed
    /\ walk' = Done(w)
    /\ call' = NotRunning
    /\ answer' = Answer("error", w.gen, w.page)
    /\ \E c \in IF w.open THEN Then(s, CloseDir(s.slot, w.number)) ELSE {s} : Exchange(c)

\* Mutant: the cache is kept.
OpenForWalkKeepsCache ==
    /\ call.at \in {"first", "head"}
    /\ ~walk.open
    /\ \E o \in OpenDir(slot, browse.cwd) :
           IF o.ok
           THEN /\ Exchange(o)
                /\ walk' = [walk EXCEPT !.open = TRUE, !.number = o.got]
                /\ call' = [call EXCEPT !.at = "first"]
                /\ UNCHANGED answer
           ELSE Fail(o, walk)
    /\ upset' = (upset \/ slot.taken)
    /\ UNCHANGED <<events, browse, told, cache>>

\* raw_opendir forgets what it had of another directory.
OpenForWalk ==
    /\ call.at \in {"first", "head"}
    /\ ~walk.open
    /\ \E o \in OpenDir(slot, browse.cwd) :
           IF o.ok
           THEN /\ Exchange(o)
                /\ walk' = [walk EXCEPT !.open = TRUE, !.number = o.got]
                /\ cache' = NoCache
                /\ call' = [call EXCEPT !.at = "first"]
                /\ UNCHANGED answer
           ELSE Fail(o, walk) /\ UNCHANGED cache
    /\ upset' = (upset \/ slot.taken)
    /\ UNCHANGED <<events, browse, told>>

\* raw_readdir begins.
Read ==
    /\ call.at \in {"first", "head"}
    /\ walk.open
    /\ call' = [at |-> "read", rounds |-> SkipRounds, retries |-> DirRetries]
    /\ cache' = IF cache.valid /\ cache.number = walk.number THEN cache
                ELSE [NoCache EXCEPT !.valid = TRUE, !.number = walk.number]
    /\ UNCHANGED <<slot, events, faults, browse, told, walk, upset, answer>>

\* An entry of the latest batch.
Serve ==
    LET w == Take(walk, Head(cache.left)) IN
    /\ call.at = "read" /\ call.rounds > 0
    /\ cache.left # <<>>
    /\ cache' = [cache EXCEPT !.left = Tail(@)]
    /\ IF w.more
       THEN /\ \E c \in CloseDir(slot, w.number) : Exchange(c)
            /\ walk' = Done(w)
            /\ call' = NotRunning
            /\ answer' = Page(w)
       ELSE /\ walk' = w
            /\ call' = [NotRunning EXCEPT !.at = "head"]
            /\ UNCHANGED <<slot, faults, answer>>
    /\ UNCHANGED <<events, browse, told, upset>>

\* The end of the directory; no rounds left count as one.
EndOfDirectory ==
    /\ call.at = "read"
    /\ call.rounds = 0 \/ (cache.left = <<>> /\ cache.eof)
    /\ \E c \in CloseDir(slot, walk.number) : Exchange(c)
    /\ IF walk.files
       THEN /\ walk' = Done(walk)
            /\ call' = NotRunning
            /\ answer' = Page(walk)
       ELSE /\ walk' = FilesPhase(walk)
            /\ call' = [NotRunning EXCEPT !.at = "head"]
            /\ UNCHANGED answer
    /\ upset' = (upset \/ call.rounds = 0)
    /\ UNCHANGED <<events, browse, told, cache>>

\* What the server has left of the directory, and after the next batch.
Rest(n) == LET at == slot.dirs[n] IN
           SubSeq(Listing[slot.host][at.dir], at.pos + 1, Len(Listing[slot.host][at.dir]))
Lesser(a, b) == IF a < b THEN a ELSE b
Advanced(n) == [slot EXCEPT !.dirs[n].pos = @ + Lesser(Batch, Len(Rest(n)))]

Fetching == call.at = "read" /\ call.rounds > 0 /\ cache.left = <<>> /\ ~cache.eof

\* The last batch may say that it is the last.
Fetch ==
    LET n == walk.number IN
    /\ Fetching
    /\ slot.dirs[n] # Nothing
    /\ slot' = Advanced(n)
    /\ \E eof \in {Rest(n) = <<>>, Len(Rest(n)) <= Batch} :
           cache' = [cache EXCEPT !.left = Real(SubSeq(Rest(n), 1, Lesser(Batch, Len(Rest(n))))),
                                  !.eof = eof]
    /\ call' = [call EXCEPT !.rounds = @ - 1]
    /\ upset' = (upset \/ slot.taken)
    /\ UNCHANGED <<events, faults, browse, told, walk, answer>>

\* The number means nothing to the server.
FetchRefused ==
    /\ Fetching
    /\ slot.dirs[walk.number] = Nothing
    /\ Fail(Outcome(slot, FALSE, Nothing, 0), walk)
    /\ UNCHANGED <<events, browse, told, cache, upset>>

\* No answer: either the request was lost, or the batch went to nobody.
FetchLost ==
    /\ Fetching
    /\ \E heard \in BOOLEAN :
           LET s == IF heard /\ slot.dirs[walk.number] # Nothing
                    THEN Advanced(walk.number) ELSE slot
               o == Outcome(s, FALSE, Nothing, 1)
           IN  /\ IF call.retries > 0
                  THEN /\ Exchange(o)
                       /\ call' = [call EXCEPT !.rounds = @ - 1, !.retries = @ - 1]
                       /\ UNCHANGED <<walk, answer>>
                  ELSE Fail(o, walk)
               /\ upset' = (upset \/ heard)
    /\ UNCHANGED <<events, browse, told, cache>>

BrowseCommand ==
    /\ call.at = "none"
    /\ \/ \E start \in Starts : \/ \E src \in Hosts : BrowseOpenTnfs(src, start)
                                \/ BrowseOpenSd(start)
       \/ \E cwd \in Wanted : ChangeDir(cwd)
       \/ \E g \in {browse.gen, 0} : \/ GetPageRefused(g)
                                      \/ \E k \in 0..MaxPage : GetPageSd(g, k) \/ GetPageTnfs(g, k)

BrowseStep == Pause \/ OpenForWalk \/ Read \/ Serve \/ EndOfDirectory
                \/ Fetch \/ FetchRefused \/ FetchLost
============================================================================
