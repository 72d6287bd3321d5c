------------------------------ MODULE TnfsFile ------------------------------
(***************************************************************************)
(* Reading, writing and seeking an open TNFS file: READ_BUFF_CALL,         *)
(* WRITE_BUFF_CALL, WRITE_BUFF_CHECK and FSEEK_CALL of gemdrvemul.c over   *)
(* sidetnfs_tnfs_file_read, _write and _seek of sidetnfs_probe.c.          *)
(*                                                                         *)
(* The descriptor has an offset; the server has a cursor, which READ and   *)
(* WRITE advance.  A read relies on the two being equal; a write moves the *)
(* cursor to the offset first, and the offset follows when the Atari has   *)
(* checked the block.  A request without an answer is sent again, though   *)
(* the server may have executed it, and the network may deliver it later   *)
(* still: in the middle of another call, or between two.                   *)
(*                                                                         *)
(* The unit of data is the chunk of one request.  FsListing shows that an  *)
(* answer that is taken is the answer to that very request.                *)
(***************************************************************************)
EXTENDS Integers, Sequences, FiniteSets

CONSTANTS
    Size,       \* length of the file; a write beyond it finds the disk full
    Values,     \* what a chunk can hold
    Retries,    \* read_network_retries_left and its like: 2
    MaxChunks,  \* chunks the Atari asks for in one call
    MaxCalls,   \* calls of the Atari (bound of the model)
    MaxHeld     \* requests the network holds back (bound of the model)

ASSUME NumbersAssumption ==
    /\ Size \in Nat
    /\ Retries \in Nat
    /\ MaxChunks \in Nat \ {0}
    /\ MaxCalls \in Nat
    /\ MaxHeld \in Nat

VARIABLES
    content, \* the file (external)
    cursor,  \* the server's position in it (external)
    offset,  \* file->offset
    op,      \* the operation under way; "aim" is the SEEK before a WRITE
    target,  \* the position an FSEEK asks for
    data,    \* the chunks of a write
    todo,    \* remaining: chunks of the call not transferred yet
    got,     \* the chunks of a read
    retries, \* retries left to the present request
    written, \* chunks of the last write the Atari has not confirmed
    held,    \* requests that timed out and may reach the server yet (external)
    upset,   \* since the last answered SEEK a request went without an answer
             \* or was executed after its time
    late,    \* since then one was executed after its time
    calls

request == <<op, target, data>>
vars == <<content, cursor, offset, request, todo, got, retries, written, held,
          upset, late, calls>>

Positions == 0 .. Size - 1
Blocks == UNION {[1..n -> Values] : n \in 1..MaxChunks}

Init ==
    /\ content \in [Positions -> Values]
    /\ cursor = 0 /\ offset = 0
    /\ op = "idle" /\ target = 0 /\ data = <<>>
    /\ todo = 0 /\ got = <<>> /\ retries = 0
    /\ written = 0
    /\ held = {} /\ upset = FALSE /\ late = FALSE
    /\ calls = 0

Call(kind) ==
    /\ op = "idle" /\ calls < MaxCalls
    /\ op' = kind
    /\ calls' = calls + 1
    /\ retries' = Retries

----------------------------------------------------------------------------
(* The calls of the Atari                                                  *)

\* A block that was written and never confirmed leaves the cursor ahead.
Read(n) ==
    /\ Call("read")
    /\ todo' = n /\ got' = <<>>
    /\ upset' = (upset \/ written > 0)
    /\ written' = 0
    /\ UNCHANGED <<content, cursor, offset, target, data, held, late>>

\* Mutant: no SEEK; the write goes on from wherever the cursor is.
WriteWithoutSeek(block) ==
    /\ Call("write")
    /\ data' = block
    /\ todo' = Len(block)
    /\ upset' = (upset \/ written > 0)
    /\ written' = 0
    /\ UNCHANGED <<content, cursor, offset, target, got, held, late>>

\* Also when the Atari sends a block again whose checksum did not match.
Write(block) ==
    /\ Call("aim")
    /\ data' = block
    /\ todo' = Len(block)
    /\ upset' = (upset \/ written > 0)
    /\ written' = 0
    /\ UNCHANGED <<content, cursor, offset, target, got, held, late>>

\* SEEK_SET, SEEK_CUR and SEEK_END, by where they lead.
Seek(position) ==
    /\ Call("seek")
    /\ target' = position
    /\ upset' = (upset \/ written > 0)
    /\ written' = 0
    /\ UNCHANGED <<content, cursor, offset, data, todo, got, held, late>>

\* WRITE_BUFF_CHECK
Confirm ==
    /\ op = "idle" /\ written > 0
    /\ offset' = offset + written
    /\ written' = 0
    /\ UNCHANGED <<content, cursor, request, todo, got, retries, held, upset,
                   late, calls>>

----------------------------------------------------------------------------
(* What one request does on the server (external)                          *)

\* How many chunks a READ or a WRITE transfers: none at the end of the file.
Transferred == IF cursor < Size THEN 1 ELSE 0

\* Mutant: every round sends the first chunk.
ChunkFirst == data[1]

\* data + total: the chunk of the block that is sent next.
Chunk == data[Len(data) - todo + 1]

\* The request of the operation under way, and what any request can be.
Request ==
    CASE op = "read" -> [does |-> "read"]
      [] op = "write" -> [does |-> "write", chunk |-> Chunk]
      [] op = "aim" -> [does |-> "seek", to |-> offset]
      [] op = "seek" -> [does |-> "seek", to |-> target]

Requests == [does : {"read"}] \cup [does : {"write"}, chunk : Values]
                \cup [does : {"seek"}, to : Nat]

Execute(r) ==
    /\ cursor' = IF r.does = "seek" THEN r.to ELSE cursor + Transferred
    /\ content' = IF r.does = "write" /\ cursor < Size
                  THEN [content EXCEPT ![cursor] = r.chunk]
                  ELSE content

----------------------------------------------------------------------------
(* The round trips                                                         *)

Finish == op' = "idle" /\ UNCHANGED retries
NextRound == UNCHANGED op /\ retries' = Retries

\* Mutant: the offset moves in every round.
ReadAnsweredMovesEarly ==
    /\ op = "read"
    /\ Execute(Request)
    /\ got' = IF Transferred = 1 THEN Append(got, content[cursor]) ELSE got
    /\ todo' = todo - Transferred
    /\ offset' = offset + Transferred
    /\ IF todo' = 0 \/ Transferred = 0 THEN Finish ELSE NextRound
    /\ UNCHANGED <<target, data, written, held, upset, late, calls>>

\* sidetnfs_tnfs_file_read: until all is there or the file ends; only then
\* does the offset move.
ReadAnswered ==
    /\ op = "read"
    /\ Execute(Request)
    /\ got' = IF Transferred = 1 THEN Append(got, content[cursor]) ELSE got
    /\ todo' = todo - Transferred
    /\ IF todo' = 0 \/ Transferred = 0
       THEN Finish /\ offset' = offset + Len(got')
       ELSE NextRound /\ UNCHANGED offset
    /\ UNCHANGED <<target, data, written, held, upset, late, calls>>

\* sidetnfs_tnfs_file_write: until all is sent or the server takes less.
WriteAnswered ==
    /\ op = "write"
    /\ Execute(Request)
    /\ todo' = todo - Transferred
    /\ IF todo' = 0 \/ Transferred = 0
       THEN Finish /\ written' = Len(data) - todo'
       ELSE NextRound /\ UNCHANGED written
    /\ UNCHANGED <<offset, target, data, got, held, upset, late, calls>>

\* sidetnfs_tnfs_file_seek in WRITE_BUFF_CALL
AimAnswered ==
    /\ op = "aim"
    /\ Execute(Request)
    /\ op' = "write" /\ retries' = Retries
    /\ upset' = FALSE /\ late' = FALSE
    /\ UNCHANGED <<offset, target, data, todo, got, written, held, calls>>

\* Mutant: the descriptor is not told of the new position.
SeekAnsweredKeepsOffset ==
    /\ op = "seek"
    /\ Execute(Request)
    /\ Finish
    /\ upset' = FALSE /\ late' = FALSE
    /\ UNCHANGED <<offset, target, data, todo, got, written, held, calls>>

\* sidetnfs_tnfs_file_seek in FSEEK_CALL
SeekAnswered ==
    /\ op = "seek"
    /\ Execute(Request)
    /\ Finish
    /\ offset' = target
    /\ upset' = FALSE /\ late' = FALSE
    /\ UNCHANGED <<target, data, todo, got, written, held, calls>>

\* The network may keep the request for later (external).
HoldBack ==
    held' \in {held} \cup {h \in {held \cup {Request}} : Cardinality(h) <= MaxHeld}

\* Mutant: one retry too many.
TimeoutOffByOne ==
    /\ op # "idle"
    /\ Execute(Request) \/ UNCHANGED <<content, cursor>>
    /\ HoldBack
    /\ upset' = TRUE
    /\ IF retries >= 0
       THEN retries' = retries - 1 /\ UNCHANGED op
       ELSE Finish
    /\ UNCHANGED <<offset, target, data, todo, got, written, late, calls>>

\* No answer in time: the request or its answer was lost, or the request is
\* still on its way.
Timeout ==
    /\ op # "idle"
    /\ Execute(Request) \/ UNCHANGED <<content, cursor>>
    /\ HoldBack
    /\ upset' = TRUE
    /\ IF retries > 0
       THEN retries' = retries - 1 /\ UNCHANGED op
       ELSE Finish
    /\ UNCHANGED <<offset, target, data, todo, got, written, late, calls>>

\* The server executes a request whose time is over, whatever the call under
\* way; its answer is for nobody.  Sent several times, it may come again.
Arrives(r) ==
    /\ Execute(r)
    /\ held' \in {held, held \ {r}}
    /\ upset' = TRUE /\ late' = TRUE
    /\ UNCHANGED <<offset, request, todo, got, retries, written, calls>>

\* The request cannot be sent, or the server refuses it: the call fails and
\* what earlier rounds transferred is forgotten.
Fail ==
    /\ op # "idle"
    /\ Finish
    /\ upset' = TRUE
    /\ UNCHANGED <<content, cursor, offset, target, data, todo, got, written,
                   held, late, calls>>

RoundTrip == ReadAnswered \/ WriteAnswered \/ AimAnswered \/ SeekAnswered
                 \/ Timeout \/ Fail

Next ==
    \/ \E n \in 1..MaxChunks : Read(n)
    \/ \E block \in Blocks : Write(block)
    \/ \E position \in 0..Size : Seek(position)
    \/ Confirm
    \/ RoundTrip
    \/ \E r \in held : Arrives(r)

Spec == Init /\ [][Next]_vars

----------------------------------------------------------------------------
(* Properties                                                              *)

\* Every variable has its type.
TypeOK ==
    /\ content \in [Positions -> Values]
    /\ cursor \in Nat /\ offset \in Nat
    /\ op \in {"idle", "read", "aim", "write", "seek"}
    /\ target \in 0..Size
    /\ data \in Blocks \cup {<<>>}
    /\ todo \in 0..MaxChunks
    /\ got \in Blocks \cup {<<>>}
    /\ retries \in 0..Retries
    /\ written \in 0..MaxChunks
    /\ held \in SUBSET Requests
    /\ upset \in BOOLEAN /\ late \in BOOLEAN
    /\ calls \in 0..MaxCalls

\* Between calls the server's cursor is where the descriptor says, counting
\* the block the Atari has still to confirm, unless after the last answered
\* SEEK a request went without an answer or was executed after its time: an
\* answered SEEK repairs everything (FSEEK_CALL, the SEEK in WRITE_BUFF_CALL).
InSyncUnlessUpset ==
    op = "idle" /\ ~upset => cursor = offset + written

\* A read that finishes undisturbed returns the file from the offset on, as
\* much as was asked for or as there is ("matching the SD/FatFS route's
\* f_read() contract", sidetnfs_tnfs_file_read).
ReadsFromOffset ==
    [][ReadAnswered /\ op' = "idle" /\ ~upset =>
         /\ \A i \in 1..Len(got') : got'[i] = content[offset + i - 1]
         /\ todo' = 0 \/ offset' >= Size]_vars

\* A write that finishes undisturbed has put the block at the offset
\* (sidetnfs_tnfs_file_write).
WritesAtOffset ==
    [][WriteAnswered /\ op' = "idle" /\ ~upset =>
         /\ \A i \in 1..written' : content'[offset + i - 1] = data[i]
         /\ written' = Len(data) \/ offset + written' >= Size]_vars

\* Nothing changes what is before the descriptor's offset, whatever is lost
\* and however often the Atari sends a block again: "a retry ... correctly
\* overwrites the same spot" (gemdrvemul.c, WRITE_BUFF_CALL).  Only a request
\* executed after its time, later than the last answered SEEK, breaks this.
NothingBeforeOffset ==
    [][~late' => \A p \in Positions : p < offset => content'[p] = content[p]]_vars

\* The three promises a program's file data depends on: undisturbed reads are
\* of the offset, undisturbed writes go to it, and what is lost costs nothing
\* before it (Fread, Fwrite).
TransfersAreExact == ReadsFromOffset /\ WritesAtOffset /\ NothingBeforeOffset
=============================================================================
