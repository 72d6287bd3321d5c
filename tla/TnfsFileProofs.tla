--------------------------- MODULE TnfsFileProofs ---------------------------
(***************************************************************************)
(* What TnfsFile guarantees for every length of the file, any number of    *)
(* chunks per call and any number of retries and calls.                    *)
(*                                                                         *)
(* The invariant follows a call through its rounds: how far the cursor is  *)
(* from the offset while chunks are transferred, and what has been read or *)
(* written so far.  All of that holds until something goes without an      *)
(* answer or is executed after its time; that a write starts at the offset *)
(* or after it holds until the latter.                                     *)
(***************************************************************************)
EXTENDS TnfsFile, SequenceTheorems, TLAPS

\* How many chunks are still to be transferred in the call under way.
TodoInv ==
    /\ op = "read" => Len(got) + todo <= MaxChunks /\ todo >= 1
    /\ op \in {"aim", "write"} =>
         data \in Blocks /\ todo >= 1 /\ todo <= Len(data)
    /\ op = "aim" => todo = Len(data)
    /\ op # "idle" => written = 0

\* What one answered SEEK establishes and a lost answer or a late request
\* destroys.
InSync ==
    /\ op = "idle" => cursor = offset + written
    /\ op = "read" =>
         /\ cursor = offset + Len(got)
         /\ \A i \in 1..Len(got) : got[i] = content[offset + i - 1]
    /\ op = "write" =>
         /\ cursor = offset + (Len(data) - todo)
         /\ \A i \in 1..(Len(data) - todo) : content[offset + i - 1] = data[i]

\* A write whose requests came in their time is at the offset or after it.
WriteInv == op = "write" /\ ~late => cursor >= offset

IInv ==
    /\ TypeOK
    /\ TodoInv
    /\ WriteInv
    /\ ~upset => InSync

----------------------------------------------------------------------------
\* A block is a sequence of at least one and at most MaxChunks chunks.
LEMMA BlockIsSeq ==
  \A b \in Blocks : b \in Seq(Values) /\ Len(b) \in 1..MaxChunks
  BY NumbersAssumption DEF Blocks

\* What was read so far is the empty sequence or a block.
LEMMA GotIsSeq ==
  \A s \in Blocks \cup {<<>>} : s \in Seq(Values) /\ Len(s) \in 0..MaxChunks
<1> SUFFICES ASSUME NEW s \in Blocks \cup {<<>>}
             PROVE  s \in Seq(Values) /\ Len(s) \in 0..MaxChunks
  OBVIOUS
<1>1. CASE s \in Blocks
  BY <1>1, BlockIsSeq, NumbersAssumption
<1>2. CASE s = <<>>
  <2>1. <<>> \in Seq(Values) /\ Len(<<>>) = 0
    BY EmptySeq
  <2>2. 0 \in 0..MaxChunks
    BY NumbersAssumption
  <2> QED
    BY <1>2, <2>1, <2>2, Zenon
<1> QED
  BY <1>1, <1>2

\* One more chunk keeps a sequence within MaxChunks.
LEMMA AppendIsBlock ==
  \A s \in Blocks \cup {<<>>}, v \in Values :
    Len(s) + 1 <= MaxChunks => Append(s, v) \in Blocks
<1> SUFFICES ASSUME NEW s \in Blocks \cup {<<>>}, NEW v \in Values,
                    Len(s) + 1 <= MaxChunks
             PROVE  Append(s, v) \in Blocks
  OBVIOUS
<1>1. s \in Seq(Values) /\ Len(s) \in 0..MaxChunks
  BY GotIsSeq
<1>2. Append(s, v) \in [1..(Len(s) + 1) -> Values]
  <2>1. Append(s, v) \in Seq(Values) /\ Len(Append(s, v)) = Len(s) + 1
    BY <1>1, AppendProperties
  <2> QED
    BY <2>1, LenProperties
<1>3. Len(s) + 1 \in 1..MaxChunks
  BY <1>1, NumbersAssumption
<1> QED
  BY <1>2, <1>3 DEF Blocks

\* A request transfers one chunk or none.
LEMMA TransferredRange ==
  /\ Transferred \in {0, 1}
  /\ Transferred = 1 <=> cursor < Size
  BY DEF Transferred

\* The request of each operation.
LEMMA RequestIs ==
  /\ op = "read" => Request = [does |-> "read"]
  /\ op = "write" => Request = [does |-> "write", chunk |-> Chunk]
  /\ op = "aim" => Request = [does |-> "seek", to |-> offset]
  /\ op = "seek" => Request = [does |-> "seek", to |-> target]
  BY DEF Request

\* READ moves the cursor and leaves the file alone.
LEMMA ExecuteRead ==
  op = "read" /\ Execute(Request) =>
    cursor' = cursor + Transferred /\ content' = content
  BY RequestIs DEF Execute

\* WRITE puts the next chunk of the block where the cursor is.
LEMMA ExecuteWrite ==
  op = "write" /\ Execute(Request) =>
    /\ cursor' = cursor + Transferred
    /\ content' = IF cursor < Size THEN [content EXCEPT ![cursor] = Chunk]
                  ELSE content
<1> SUFFICES ASSUME op = "write", Execute(Request)
             PROVE  /\ cursor' = cursor + Transferred
                    /\ content' = IF cursor < Size
                                  THEN [content EXCEPT ![cursor] = Chunk]
                                  ELSE content
  OBVIOUS
<1>1. Request.does = "write" /\ Request.chunk = Chunk
  BY RequestIs
<1> QED
  BY <1>1 DEF Execute

\* SEEK moves the cursor to where it is told.
LEMMA ExecuteSeek ==
  /\ op = "aim" /\ Execute(Request) => cursor' = offset /\ content' = content
  /\ op = "seek" /\ Execute(Request) => cursor' = target /\ content' = content
  BY RequestIs DEF Execute

\* What the call under way sends is a request.
LEMMA RequestType ==
  TypeOK /\ TodoInv /\ op # "idle" => Request \in Requests
<1> SUFFICES ASSUME TypeOK, TodoInv, op # "idle"
             PROVE  Request \in Requests
  OBVIOUS
<1>1. CASE op = "read"
  BY <1>1 DEF Request, Requests
<1>2. CASE op = "aim"
  BY <1>2 DEF Request, Requests, TypeOK
<1>3. CASE op = "seek"
  <2>1. target \in Nat
    BY NumbersAssumption DEF TypeOK
  <2> QED
    BY <1>3, <2>1 DEF Request, Requests
<1>4. CASE op = "write"
  <2>1. data \in Seq(Values) /\ Len(data) - todo + 1 \in 1..Len(data)
    BY <1>4, BlockIsSeq DEF TodoInv, TypeOK
  <2>2. Chunk \in Values
    BY <2>1 DEF Chunk
  <2> QED
    BY <1>4, <2>2 DEF Request, Requests
<1> QED
  BY <1>1, <1>2, <1>3, <1>4 DEF TypeOK

\* Whatever a request does, and whenever, the file keeps its type and the
\* cursor too.
LEMMA ExecuteType ==
  ASSUME TypeOK, NEW r \in Requests, Execute(r)
  PROVE  content' \in [Positions -> Values] /\ cursor' \in Nat
<1>1. cursor' \in Nat
  BY TransferredRange DEF Execute, Requests, TypeOK
<1>2. r.does = "write" => r.chunk \in Values
  BY DEF Requests
<1>3. content' \in [Positions -> Values]
  BY <1>2 DEF Execute, TypeOK
<1> QED
  BY <1>1, <1>3

----------------------------------------------------------------------------
\* Nothing was transferred yet: the invariant holds.
THEOREM InitIInv == Init => IInv
<1> SUFFICES ASSUME Init
             PROVE  IInv
  OBVIOUS
<1>1. TypeOK
  <2>1. data \in Blocks \cup {<<>>} /\ got \in Blocks \cup {<<>>}
    BY Zenon DEF Init
  <2>2. /\ cursor \in Nat /\ offset \in Nat /\ target \in 0..Size
        /\ todo \in 0..MaxChunks /\ retries \in 0..Retries
        /\ written \in 0..MaxChunks /\ calls \in 0..MaxCalls
    BY NumbersAssumption DEF Init
  <2>3. content \in [Positions -> Values] /\ held \in SUBSET Requests
        /\ upset \in BOOLEAN /\ late \in BOOLEAN
        /\ op \in {"idle", "read", "aim", "write", "seek"}
    BY DEF Init
  <2> QED
    BY <2>1, <2>2, <2>3, Zenon DEF TypeOK
<1>2. TodoInv /\ WriteInv /\ InSync
  BY DEF Init, TodoInv, WriteInv, InSync
<1> QED
  BY <1>1, <1>2 DEF IInv

\* Starting a call, and confirming a block, keep the invariant.
LEMMA CallIInv ==
  ASSUME IInv,
         \/ \E n \in 1..MaxChunks : Read(n)
         \/ \E block \in Blocks : Write(block)
         \/ \E position \in 0..Size : Seek(position)
         \/ Confirm
  PROVE  IInv'
<1> USE NumbersAssumption
<1>1. ASSUME NEW n \in 1..MaxChunks, Read(n)
      PROVE  IInv'
  <2>1. Len(got') = 0 /\ got' = <<>>
    BY <1>1, EmptySeq DEF Read
  <2>2. TypeOK'
    BY <1>1 DEF Read, Call, IInv, TypeOK, request
  <2>3. TodoInv' /\ WriteInv'
    BY <1>1, <2>1 DEF Read, Call, TodoInv, WriteInv
  <2>4. ~upset' => InSync'
    <3> SUFFICES ASSUME ~upset'
                 PROVE  InSync'
      OBVIOUS
    <3>1. ~upset /\ ~(written > 0)
      BY <1>1, Zenon DEF Read
    <3>2. op = "idle" /\ op' = "read" /\ cursor' = cursor /\ offset' = offset
      BY <1>1 DEF Read, Call
    <3>3. cursor = offset /\ offset \in Nat
      BY <3>1, <3>2 DEF IInv, TypeOK, InSync
    <3> QED
      BY <2>1, <3>2, <3>3 DEF InSync
  <2> QED
    BY <2>2, <2>3, <2>4 DEF IInv
<1>2. ASSUME NEW block \in Blocks, Write(block)
      PROVE  IInv'
  <2>1. Len(block) \in 1..MaxChunks
    BY BlockIsSeq
  <2>2. TypeOK'
    BY <1>2, <2>1 DEF Write, Call, IInv, TypeOK
  <2>3. TodoInv' /\ WriteInv'
    BY <1>2, <2>1 DEF Write, Call, TodoInv, WriteInv
  <2>4. InSync'
    BY <1>2 DEF Write, Call, InSync
  <2> QED
    BY <2>2, <2>3, <2>4 DEF IInv
<1>3. ASSUME NEW position \in 0..Size, Seek(position)
      PROVE  IInv'
  <2>1. TypeOK'
    BY <1>3 DEF Seek, Call, IInv, TypeOK
  <2>2. TodoInv' /\ WriteInv' /\ InSync'
    BY <1>3 DEF Seek, Call, TodoInv, WriteInv, InSync
  <2> QED
    BY <2>1, <2>2 DEF IInv
<1>4. ASSUME Confirm
      PROVE  IInv'
  <2>1. TypeOK'
    BY <1>4 DEF Confirm, IInv, TypeOK, request
  <2>2. TodoInv' /\ WriteInv' /\ (~upset' => InSync')
    BY <1>4 DEF Confirm, IInv, TypeOK, TodoInv, WriteInv, InSync, request
  <2> QED
    BY <2>1, <2>2 DEF IInv
<1> QED
  BY <1>1, <1>2, <1>3, <1>4

\* What an answered READ does: one more chunk in the buffer, or none at the
\* end of the file; the chunks read so far are those of the file.
LEMMA ReadStep ==
  ASSUME IInv, ReadAnswered
  PROVE  /\ op = "read" /\ content' = content /\ cursor' \in Nat /\ offset \in Nat
         /\ got' \in Blocks \cup {<<>>} /\ Len(got') \in 0..MaxChunks
         /\ todo' \in 0..MaxChunks /\ Len(got') + todo' <= MaxChunks
         /\ \/ op' = "idle" /\ offset' = offset + Len(got')
               /\ (todo' = 0 \/ cursor >= Size)
            \/ op' = "read" /\ offset' = offset /\ todo' >= 1
         /\ ~upset => /\ cursor' = offset + Len(got')
                      /\ cursor' >= cursor
                      /\ \A i \in 1..Len(got') :
                           got'[i] = content[offset + i - 1]
<1> USE NumbersAssumption
<1>1. /\ op = "read" /\ cursor' = cursor + Transferred /\ content' = content
      /\ Transferred \in {0, 1} /\ (Transferred = 1 <=> cursor < Size)
      /\ cursor \in Nat /\ offset \in Nat /\ todo \in 0..MaxChunks
      /\ todo' = todo - Transferred /\ written' = 0
      /\ got \in Blocks \cup {<<>>} /\ todo >= 1 /\ Len(got) + todo <= MaxChunks
  BY ExecuteRead, TransferredRange DEF ReadAnswered, IInv, TypeOK, TodoInv
<1>2. got \in Seq(Values) /\ Len(got) \in 0..MaxChunks
  BY <1>1, GotIsSeq
<1>3. /\ got' \in Blocks \cup {<<>>}
      /\ Len(got') = Len(got) + Transferred
      /\ \A i \in 1..Len(got) : got'[i] = got[i]
      /\ Transferred = 1 => got'[Len(got) + 1] = content[cursor]
  <2>1. CASE Transferred = 1
    <3>1. cursor \in Positions
      BY <1>1, <2>1 DEF Positions
    <3>2. content[cursor] \in Values
      BY <3>1 DEF IInv, TypeOK
    <3>3. got' = Append(got, content[cursor])
      BY <2>1 DEF ReadAnswered
    <3>4. got' \in Blocks
      BY <1>1, <2>1, <3>2, <3>3, AppendIsBlock, <1>2
    <3> QED
      BY <1>2, <2>1, <3>2, <3>3, <3>4, AppendProperties
  <2>2. CASE Transferred = 0
    BY <1>1, <1>2, <2>2 DEF ReadAnswered
  <2> QED
    BY <1>1, <2>1, <2>2
<1>4. \/ op' = "idle" /\ offset' = offset + Len(got')
         /\ (todo' = 0 \/ cursor >= Size)
      \/ op' = "read" /\ offset' = offset /\ todo' >= 1
  BY <1>1 DEF ReadAnswered, Finish, NextRound
<1>5. ASSUME ~upset
      PROVE  /\ cursor' = offset + Len(got')
             /\ \A i \in 1..Len(got') : got'[i] = content[offset + i - 1]
  <2>2. /\ cursor = offset + Len(got)
        /\ \A i \in 1..Len(got) : got[i] = content[offset + i - 1]
    BY <1>1, <1>5 DEF IInv, InSync
  <2>3. cursor' = offset + Len(got')
    BY <1>1, <1>2, <1>3, <2>2
  <2>4. \A i \in 1..Len(got') : got'[i] = content[offset + i - 1]
    <3> SUFFICES ASSUME NEW i \in 1..Len(got')
                 PROVE  got'[i] = content[offset + i - 1]
      OBVIOUS
    <3>1. CASE i \in 1..Len(got)
      BY <1>3, <2>2, <3>1
    <3>2. CASE i = Len(got) + 1 /\ Transferred = 1
      <4>1. offset + i - 1 = cursor
        BY <1>1, <1>2, <2>2, <3>2
      <4> QED
        BY <1>3, <3>2, <4>1
    <3> QED
      BY <1>1, <1>2, <1>3, <3>1, <3>2
  <2> QED
    BY <2>3, <2>4
<1>6. /\ cursor' \in Nat /\ cursor' >= cursor /\ Len(got') \in 0..MaxChunks
      /\ todo' \in 0..MaxChunks /\ Len(got') + todo' <= MaxChunks
  BY <1>1, <1>2, <1>3
<1> QED
  BY <1>1, <1>3, <1>4, <1>5, <1>6

\* A READ that is answered keeps the invariant.
LEMMA ReadIInv == IInv /\ ReadAnswered => IInv'
<1> SUFFICES ASSUME IInv, ReadAnswered
             PROVE  IInv'
  OBVIOUS
<1> USE NumbersAssumption
<1>1. written' = 0 /\ written = 0
  BY ReadStep DEF ReadAnswered, IInv, TodoInv
<1>2. retries' \in 0..Retries
  BY DEF ReadAnswered, Finish, NextRound, IInv, TypeOK
<1>3. TypeOK'
  BY ReadStep, <1>1, <1>2 DEF ReadAnswered, IInv, TypeOK
<1>4. TodoInv' /\ WriteInv'
  BY ReadStep, <1>1 DEF TodoInv, WriteInv
<1>5. ASSUME ~upset'
      PROVE  InSync'
  <2>1. ~upset
    BY <1>5, Zenon DEF ReadAnswered
  <2> QED
    BY <2>1, <1>1, ReadStep DEF InSync
<1> QED
  BY <1>3, <1>4, <1>5 DEF IInv

\* What an answered WRITE does: one more chunk of the block is in the file,
\* or none when the disk is full; those sent so far are from the offset on.
LEMMA WriteStep ==
  ASSUME IInv, WriteAnswered
  PROVE  /\ op = "write" /\ content' \in [Positions -> Values] /\ cursor' \in Nat
         /\ offset' = offset /\ offset \in Nat /\ late' = late
         /\ ~late => cursor' >= offset
         /\ data' = data /\ data \in Blocks /\ Len(data) \in 1..MaxChunks
         /\ todo' \in 0..Len(data)
         /\ \/ op' = "idle" /\ written' = Len(data) - todo'
               /\ (todo' = 0 \/ cursor >= Size)
            \/ op' = "write" /\ written' = written /\ todo' >= 1
         /\ ~upset => /\ cursor' = offset + (Len(data) - todo')
                      /\ cursor' >= cursor
                      /\ \A i \in 1..(Len(data) - todo') :
                           content'[offset + i - 1] = data[i]
<1> USE NumbersAssumption
<1>1. /\ op = "write" /\ cursor' = cursor + Transferred
      /\ Transferred \in {0, 1} /\ (Transferred = 1 <=> cursor < Size)
      /\ content' = IF cursor < Size THEN [content EXCEPT ![cursor] = Chunk]
                    ELSE content
      /\ cursor \in Nat /\ offset \in Nat /\ (~late => cursor >= offset)
      /\ data \in Blocks /\ data' = data /\ offset' = offset /\ late' = late
      /\ todo' = todo - Transferred /\ todo >= 1 /\ todo <= Len(data)
  BY ExecuteWrite, TransferredRange DEF WriteAnswered, IInv, TypeOK, TodoInv, WriteInv
<1>2. Len(data) \in 1..MaxChunks /\ todo \in 1..MaxChunks
  BY <1>1, BlockIsSeq DEF IInv, TypeOK
<1>3. content' \in [Positions -> Values] /\ cursor' \in Nat
  BY <1>1, RequestType, ExecuteType DEF WriteAnswered, IInv
<1>4. \/ op' = "idle" /\ written' = Len(data) - todo'
         /\ (todo' = 0 \/ cursor >= Size)
      \/ op' = "write" /\ written' = written /\ todo' >= 1
  BY <1>1, <1>2 DEF WriteAnswered, Finish, NextRound
<1>5. ASSUME ~upset
      PROVE  /\ cursor' = offset + (Len(data) - todo')
             /\ \A i \in 1..(Len(data) - todo') :
                  content'[offset + i - 1] = data[i]
  <2>2. /\ cursor = offset + (Len(data) - todo)
        /\ \A i \in 1..(Len(data) - todo) : content[offset + i - 1] = data[i]
    BY <1>1, <1>5 DEF IInv, InSync
  <2>3. cursor' = offset + (Len(data) - todo')
    BY <1>1, <1>2, <2>2
  <2>4. \A i \in 1..(Len(data) - todo') : content'[offset + i - 1] = data[i]
    <3> SUFFICES ASSUME NEW i \in 1..(Len(data) - todo')
                 PROVE  content'[offset + i - 1] = data[i]
      OBVIOUS
    <3>1. CASE i \in 1..(Len(data) - todo)
      <4>1. offset + i - 1 < cursor
        BY <1>1, <1>2, <2>2, <3>1
      <4>2. content'[offset + i - 1] = content[offset + i - 1]
        BY <1>1, <4>1 DEF IInv, TypeOK
      <4> QED
        BY <2>2, <3>1, <4>2
    <3>2. CASE i = Len(data) - todo + 1 /\ Transferred = 1
      <4>1. offset + i - 1 = cursor /\ cursor \in Positions
        BY <1>1, <1>2, <2>2, <3>2 DEF Positions
      <4>2. content'[cursor] = Chunk
        BY <1>1, <3>2, <4>1 DEF IInv, TypeOK
      <4> QED
        BY <3>2, <4>1, <4>2 DEF Chunk
    <3> QED
      BY <1>1, <1>2, <3>1, <3>2
  <2> QED
    BY <2>3, <2>4
<1>6. cursor' >= cursor /\ (~late => cursor' >= offset) /\ todo' \in 0..Len(data)
  BY <1>1, <1>2
<1> QED
  BY <1>1, <1>2, <1>3, <1>4, <1>5, <1>6

\* A WRITE that is answered keeps the invariant.
LEMMA WriteIInv == IInv /\ WriteAnswered => IInv'
<1> SUFFICES ASSUME IInv, WriteAnswered
             PROVE  IInv'
  OBVIOUS
<1> USE NumbersAssumption
<1>1. todo' \in 0..MaxChunks /\ written' \in 0..MaxChunks
  BY WriteStep DEF IInv, TypeOK
<1>2. retries' \in 0..Retries
  BY DEF WriteAnswered, Finish, NextRound, IInv, TypeOK
<1>3. TypeOK'
  BY WriteStep, <1>1, <1>2 DEF WriteAnswered, IInv, TypeOK
<1>4. TodoInv' /\ WriteInv'
  BY WriteStep DEF IInv, TodoInv, WriteInv
<1>5. ASSUME ~upset'
      PROVE  InSync'
  <2>1. ~upset
    BY <1>5, Zenon DEF WriteAnswered
  <2> QED
    BY <2>1, WriteStep DEF InSync
<1> QED
  BY <1>3, <1>4, <1>5 DEF IInv

\* An answered SEEK, a timeout, a late request and a failure keep the invariant.
LEMMA OtherIInv == IInv /\ (AimAnswered \/ SeekAnswered \/ Timeout \/ Fail
                           \/ \E r \in held : Arrives(r)) => IInv'
<1> USE NumbersAssumption
<1>1. ASSUME IInv, AimAnswered
      PROVE  IInv'
  <2>1. op = "aim" /\ cursor' = offset /\ content' = content /\ op' = "write"
    BY <1>1, ExecuteSeek DEF AimAnswered
  <2>2. data \in Blocks /\ todo = Len(data) /\ todo >= 1 /\ Len(data) \in 1..MaxChunks
    BY <1>1, <2>1, BlockIsSeq DEF IInv, TodoInv
  <2>3. TypeOK'
    <3>1. /\ content' \in [Positions -> Values] /\ cursor' \in Nat
          /\ offset' \in Nat /\ retries' \in 0..Retries
          /\ op' \in {"idle", "read", "aim", "write", "seek"}
      BY <1>1, <2>1 DEF AimAnswered, IInv, TypeOK
    <3>2. UNCHANGED <<target, data, todo, got, written, held, calls>>
      BY <1>1 DEF AimAnswered
    <3>3. upset' \in BOOLEAN /\ late' \in BOOLEAN
      BY <1>1, Zenon DEF AimAnswered
    <3> QED
      BY <1>1, <3>1, <3>2, <3>3 DEF IInv, TypeOK, request
  <2>4. TodoInv'
    BY <1>1, <2>1, <2>2 DEF AimAnswered, IInv, TodoInv
  <2>5. WriteInv' /\ InSync'
    BY <1>1, <2>1, <2>2 DEF AimAnswered, IInv, TypeOK, WriteInv, InSync
  <2> QED
    BY <2>3, <2>4, <2>5 DEF IInv
<1>2. ASSUME IInv, SeekAnswered
      PROVE  IInv'
  <2>1. /\ op = "seek" /\ cursor' = target /\ content' = content /\ op' = "idle"
        /\ offset' = target /\ written' = written /\ written = 0
    BY <1>2, ExecuteSeek DEF SeekAnswered, Finish, IInv, TodoInv
  <2>2. TypeOK'
    <3>1. /\ content' \in [Positions -> Values] /\ cursor' \in Nat
          /\ offset' \in Nat /\ retries' \in 0..Retries
          /\ op' \in {"idle", "read", "aim", "write", "seek"}
      BY <1>2, <2>1 DEF SeekAnswered, Finish, IInv, TypeOK
    <3>2. UNCHANGED <<target, data, todo, got, written, held, calls>>
      BY <1>2 DEF SeekAnswered
    <3>3. upset' \in BOOLEAN /\ late' \in BOOLEAN
      BY <1>2, Zenon DEF SeekAnswered
    <3> QED
      BY <1>2, <3>1, <3>2, <3>3 DEF IInv, TypeOK, request
  <2>3. TodoInv' /\ WriteInv' /\ InSync'
    BY <1>2, <2>1 DEF IInv, TypeOK, TodoInv, WriteInv, InSync
  <2> QED
    BY <2>2, <2>3 DEF IInv
<1>3. ASSUME IInv, Timeout
      PROVE  IInv'
  <2>1. content' \in [Positions -> Values] /\ cursor' \in Nat
    <3>1. CASE Execute(Request)
      BY <1>3, <3>1, RequestType, ExecuteType DEF Timeout, IInv
    <3>2. CASE UNCHANGED <<content, cursor>>
      BY <3>2, <1>3 DEF IInv, TypeOK
    <3> QED
      BY <1>3, <3>1, <3>2, Zenon DEF Timeout
  <2>2. retries' \in 0..Retries /\ op' \in {"idle", op}
    BY <1>3 DEF Timeout, Finish, IInv, TypeOK
  <2>3. held' \in SUBSET Requests
    <3>1. Request \in Requests /\ held \in SUBSET Requests
      BY <1>3, RequestType DEF Timeout, IInv, TypeOK
    <3>2. held' = held \/ held' = held \cup {Request}
      BY <1>3, Zenon DEF Timeout, HoldBack
    <3> QED
      BY <3>1, <3>2, Zenon
  <2>7. TypeOK'
    <3>1. UNCHANGED <<offset, target, data, todo, got, written, late, calls>>
      BY <1>3 DEF Timeout
    <3>2. op' \in {"idle", "read", "aim", "write", "seek"}
      BY <1>3, <2>2 DEF IInv, TypeOK
    <3>3. upset' \in BOOLEAN
      BY <1>3, Zenon DEF Timeout
    <3> QED
      BY <1>3, <2>1, <2>2, <2>3, <3>1, <3>2, <3>3 DEF IInv, TypeOK
  <2>4. TodoInv'
    BY <1>3, <2>2 DEF Timeout, IInv, TodoInv
  <2>5. WriteInv'
    <3>1. op = "write" /\ ~late => cursor' >= offset
      <4>1. CASE op = "write" /\ Execute(Request)
        BY <1>3, <4>1, ExecuteWrite, TransferredRange DEF IInv, TypeOK, WriteInv
      <4>2. CASE cursor' = cursor
        BY <1>3, <4>2 DEF IInv, WriteInv
      <4> QED
        BY <1>3, <4>1, <4>2 DEF Timeout
    <3> QED
      BY <1>3, <2>2, <3>1 DEF Timeout, WriteInv
  <2>6. upset'
    BY <1>3, Zenon DEF Timeout
  <2> QED
    BY <2>4, <2>5, <2>6, <2>7 DEF IInv
<1>4. ASSUME IInv, Fail
      PROVE  IInv'
  <2>1. TypeOK' /\ TodoInv' /\ WriteInv'
    BY <1>4 DEF Fail, Finish, IInv, TypeOK, TodoInv, WriteInv
  <2>2. upset'
    BY <1>4, Zenon DEF Fail
  <2> QED
    BY <2>1, <2>2 DEF IInv
<1>5. ASSUME IInv, NEW r \in held, Arrives(r)
      PROVE  IInv'
  <2>1. r \in Requests
    BY <1>5 DEF IInv, TypeOK
  <2>2. content' \in [Positions -> Values] /\ cursor' \in Nat
    BY <1>5, <2>1, ExecuteType DEF Arrives, IInv
  <2>3. upset' /\ late' /\ held' \in SUBSET Requests
    BY <1>5, Zenon DEF Arrives, IInv, TypeOK
  <2>4. UNCHANGED <<offset, op, target, data, todo, got, retries, written, calls>>
    BY <1>5 DEF Arrives, request
  <2>5. TypeOK'
    <3>1. upset' \in BOOLEAN /\ late' \in BOOLEAN
      BY <1>5, Zenon DEF Arrives
    <3> QED
      BY <1>5, <2>2, <2>3, <2>4, <3>1 DEF IInv, TypeOK
  <2>6. TodoInv'
    BY <1>5, <2>4 DEF IInv, TodoInv
  <2>7. WriteInv'
    BY <2>3 DEF WriteInv
  <2> QED
    BY <2>3, <2>5, <2>6, <2>7, Zenon DEF IInv
<1> QED
  BY <1>1, <1>2, <1>3, <1>4, <1>5

----------------------------------------------------------------------------
\* Every step keeps the invariant.
THEOREM StepIInv == IInv /\ [Next]_vars => IInv'
<1> SUFFICES ASSUME IInv, [Next]_vars
             PROVE  IInv'
  OBVIOUS
<1>1. CASE Next
  BY <1>1, CallIInv, ReadIInv, WriteIInv, OtherIInv DEF Next, RoundTrip
<1>2. CASE UNCHANGED vars
  BY <1>2 DEF vars, request, IInv, TypeOK, TodoInv, WriteInv, InSync
<1> QED
  BY <1>1, <1>2

\* In every reachable state the call under way has transferred what it should.
THEOREM InvariantIInv == Spec => []IInv
  BY InitIInv, StepIInv, PTL DEF Spec

\* Every reachable state is well typed.
THEOREM TypeCorrect == Spec => []TypeOK
  BY InvariantIInv, PTL DEF IInv

\* Between calls, and as long as every request since the last answered SEEK
\* was answered, the descriptor knows where the server's cursor is.
THEOREM InSyncCorrect == Spec => []InSyncUnlessUpset
<1>1. IInv => InSyncUnlessUpset
  BY DEF IInv, InSync, InSyncUnlessUpset
<1> QED
  BY <1>1, InvariantIInv, PTL

\* Such a read returns the file from the offset on, in the order it is there,
\* and ends short only at the end of the file.
THEOREM ReadsCorrect == Spec => ReadsFromOffset
<1>1. ASSUME IInv, ReadAnswered, op' = "idle", ~upset
      PROVE  /\ \A i \in 1..Len(got') : got'[i] = content[offset + i - 1]
             /\ todo' = 0 \/ offset' >= Size
  <2>1. offset' = cursor' /\ cursor' >= cursor /\ cursor \in Nat
    BY <1>1, ReadStep DEF IInv, TypeOK
  <2> QED
    BY <1>1, <2>1, ReadStep, NumbersAssumption
<1>2. IInv => [ReadAnswered /\ op' = "idle" /\ ~upset =>
                 /\ \A i \in 1..Len(got') : got'[i] = content[offset + i - 1]
                 /\ todo' = 0 \/ offset' >= Size]_vars
  BY <1>1
<1> QED
  BY <1>2, InvariantIInv, PTL DEF ReadsFromOffset

\* Such a write has put the block at the offset, and is short only when the
\* disk is full.
THEOREM WritesCorrect == Spec => WritesAtOffset
<1>1. ASSUME IInv, WriteAnswered, op' = "idle", ~upset
      PROVE  /\ \A i \in 1..written' : content'[offset + i - 1] = data[i]
             /\ written' = Len(data) \/ offset + written' >= Size
  <2>1. written' = Len(data) - todo' /\ cursor' = offset + written'
    BY <1>1, WriteStep
  <2>2. todo' = 0 \/ cursor' >= Size
    BY <1>1, WriteStep, NumbersAssumption DEF IInv, TypeOK
  <2>3. \A i \in 1..written' : content'[offset + i - 1] = data[i]
    BY <1>1, <2>1, WriteStep
  <2>4. written' = Len(data) \/ offset + written' >= Size
    BY <1>1, <2>1, <2>2, WriteStep
  <2> QED
    BY <2>3, <2>4
<1>2. IInv => [WriteAnswered /\ op' = "idle" /\ ~upset =>
                 /\ \A i \in 1..written' : content'[offset + i - 1] = data[i]
                 /\ written' = Len(data) \/ offset + written' >= Size]_vars
  BY <1>1
<1> QED
  BY <1>2, InvariantIInv, PTL DEF WritesAtOffset

\* Only a WRITE changes the file, at the cursor, which during a write is never
\* before the offset as long as no request comes late: whatever is lost and
\* repeated, what lies before stays.
THEOREM NothingBeforeOffsetCorrect == Spec => NothingBeforeOffset
<1>1. ASSUME IInv, Next, ~late', NEW p \in Positions, p < offset
      PROVE  content'[p] = content[p]
  <2>1. CASE op = "write" /\ Execute(Request) /\ ~late
    <3>1. cursor \in Nat /\ offset \in Nat /\ cursor >= offset /\ p # cursor
      BY <1>1, <2>1, NumbersAssumption DEF IInv, TypeOK, WriteInv, Positions
    <3> QED
      BY <1>1, <2>1, <3>1, ExecuteWrite DEF IInv, TypeOK
  <2>2. CASE op \in {"read", "aim", "seek"} /\ Execute(Request)
    BY <1>1, <2>2, ExecuteRead, ExecuteSeek
  <2>3. \/ content' = content
        \/ op \in {"read", "aim", "seek"} /\ Execute(Request)
        \/ op = "write" /\ Execute(Request) /\ ~late
    <3>1. CASE ReadAnswered \/ AimAnswered \/ SeekAnswered
      BY <3>1 DEF ReadAnswered, AimAnswered, SeekAnswered
    <3>2. CASE WriteAnswered \/ Timeout
      BY <1>1, <3>2 DEF WriteAnswered, Timeout, IInv, TypeOK
    <3>3. CASE \E r \in held : Arrives(r)
      BY <1>1, <3>3, Zenon DEF Arrives
    <3> QED
      BY <1>1, <3>1, <3>2, <3>3 DEF Next, RoundTrip, Read, Write, Seek, Confirm, Fail
  <2> QED
    BY <2>1, <2>2, <2>3
<1>2. IInv /\ [Next]_vars =>
        [~late' => \A p \in Positions : p < offset => content'[p] = content[p]]_vars
  BY <1>1
<1> QED
  BY <1>2, InvariantIInv, PTL DEF Spec, NothingBeforeOffset

\* The three together: what Fread and Fwrite promise.
THEOREM TransfersCorrect == Spec => TransfersAreExact
  BY ReadsCorrect, WritesCorrect, NothingBeforeOffsetCorrect DEF TransfersAreExact
=============================================================================
