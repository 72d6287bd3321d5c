-------------------------- MODULE FsListingProofs --------------------------
(***************************************************************************)
(* What FsListing guarantees for any number of operations, slots, sessions *)
(* and retries, any wait length and any width of the sequence counter.     *)
(*                                                                         *)
(* The counter wraps, so a number alone names no request.  What makes the  *)
(* correlation sound is that every datagram still around was sent less     *)
(* than SeqMod requests ago: Numbered relates its number to its age, and   *)
(* two datagrams of the same number and such ages are of the same age.     *)
(***************************************************************************)
EXTENDS FsListing, TLAPS

\* The sequence number of the request sent k requests ago.
Back(k) == IF seq - k >= 0 THEN seq - k ELSE seq - k + SeqMod

Age(m) == issued - m.id

\* A datagram of this channel that is still around: it is younger than
\* Lifetime and carries the number that was current when it was sent.
Numbered(m) ==
    /\ m.id \in 1..issued
    /\ Age(m) < Lifetime
    /\ m.seq = Back(Age(m) + 1)
    /\ call[m.op] # "none"
    /\ (pc = "wait" /\ m.id = issued) => m.op = cur.op

NumberedInv == \A m \in reqs \cup resps : Numbered(m)

\* What the receive buffer holds during a wait came through the callback.
BufferInv ==
    (pc = "wait" /\ resp # NoDatagram) =>
        resp \in Datagram /\ Numbered(resp) /\ execs[resp.op] >= 1

AnsweredInv == \A m \in resps : execs[m.op] >= 1

WaitInv ==
    /\ waiting = (pc = "wait")
    /\ waiting => expected = Envelope(cur)

CallerInv ==
    /\ \A o \in Ops : call[o] = "busy" => pc # "idle" /\ o = cur.op
    /\ pc # "idle" => call[cur.op] = "busy"

IInv ==
    /\ TypeOK
    /\ NumberedInv
    /\ BufferInv
    /\ AnsweredInv
    /\ WaitInv
    /\ CallerInv

----------------------------------------------------------------------------
\* The uint8_t counter stays in its range.
LEMMA NextSeqRange == seq \in 0..SeqMod - 1 => NextSeq \in 0..SeqMod - 1
  BY NumbersAssumption DEF NextSeq

\* The first sequence number, 2, is in range also of a narrower counter.
LEMMA InitialSeq == 2 % SeqMod \in 0..SeqMod - 1
  BY NumbersAssumption

\* Two numbers of ages below SeqMod are equal only for equal ages.
LEMMA BackInjective ==
  ASSUME seq \in 0..SeqMod - 1,
         NEW j \in 1..SeqMod, NEW k \in 1..SeqMod,
         Back(j) = Back(k)
  PROVE  j = k
  BY NumbersAssumption DEF Back

\* The request just sent has the number before the counter.
LEMMA BackOne == seq \in 0..SeqMod - 1 => Back(1) = ExpectedSeq
  BY NumbersAssumption DEF Back, ExpectedSeq

\* What is still around after a send was around before it.
LEMMA FreshMember ==
  \A S, m : m \in Fresh(S) <=> m \in S /\ (issued + 1) - m.id < Lifetime
  BY Zenon DEF Fresh

\* Sending a request adds no old datagram.
LEMMA FreshSubset == \A S : Fresh(S) \subseteq S
  BY FreshMember

----------------------------------------------------------------------------
\* Nothing has been sent at boot: the invariant holds.
THEOREM InitIInv == Init => IInv
  <1>. SUFFICES ASSUME Init PROVE IInv
    OBVIOUS
  <1>1. TypeOK
    <2>1. seq \in 0..SeqMod - 1
      BY InitialSeq DEF Init
    <2>2. retries \in 0..Retries /\ polls \in 0..MaxPolls /\ issued \in Nat
      BY NumbersAssumption DEF Init
    <2>3. /\ call \in [Ops -> {"none", "busy", "ok", "error"}]
          /\ execs \in [Ops -> Nat]
      BY DEF Init
    <2>. QED
      BY <2>1, <2>2, <2>3 DEF Init, TypeOK
  <1>2. NumberedInv /\ AnsweredInv /\ BufferInv /\ WaitInv /\ CallerInv
    BY DEF Init, NumberedInv, AnsweredInv, BufferInv, WaitInv, CallerInv
  <1>. QED
    BY <1>1, <1>2 DEF IInv

\* The type invariant is preserved by every step.
LEMMA StepTypeOK == TypeOK /\ [Next]_vars => TypeOK'
  <1>. SUFFICES ASSUME TypeOK, [Next]_vars PROVE TypeOK'
    OBVIOUS
  <1>. USE NumbersAssumption DEF TypeOK, Ops
  <1>1. ASSUME NEW o \in Ops, NEW s \in Slots, NEW c \in Cmds, Start(o, s, c)
        PROVE  TypeOK'
    BY <1>1, SlotsAssumption DEF Start, Context
  <1>2. CASE SendRefused
    BY <1>2 DEF SendRefused, Return, Context
  <1>3. CASE SendOutOfMemory
    <2>1. seq' \in 0..SeqMod - 1
      BY <1>3, NextSeqRange DEF SendOutOfMemory
    <2>2. reqs' \subseteq Datagram /\ resps' \subseteq Datagram
      BY <1>3, FreshSubset DEF SendOutOfMemory
    <2>3. cur.op \in Ops /\ call' \in [Ops -> {"none", "busy", "ok", "error"}]
      BY <1>3 DEF SendOutOfMemory, Return, Context
    <2>4. issued' \in Nat
      BY <1>3 DEF SendOutOfMemory
    <2>. QED
      BY <1>3, <2>1, <2>2, <2>3, <2>4 DEF SendOutOfMemory, Return
  <1>4. CASE Send
    <2>1. seq' \in 0..SeqMod - 1
      BY <1>4, NextSeqRange DEF Send
    <2>2. reqs' \subseteq Datagram /\ resps' \subseteq Datagram
      BY <1>4, FreshSubset DEF Send, Context, Datagram
    <2>. QED
      BY <1>4, <2>1, <2>2 DEF Send
  <1>5. CASE Accept
    BY <1>5 DEF Accept, Return, Context
  <1>6. CASE PollAgain
    BY <1>6 DEF PollAgain
  <1>7. CASE Retry
    <2>1. retries' \in 0..Retries
      BY <1>7 DEF Retry
    <2>. QED
      BY <1>7, <2>1 DEF Retry
  <1>8. CASE Abandon
    BY <1>8 DEF Abandon, Return, Context
  <1>9. ASSUME NEW m \in reqs, Serve(m) \/ LoseRequest(m)
        PROVE  TypeOK'
    <2>1. reqs' \subseteq Datagram /\ resps' \subseteq Datagram
      BY <1>9 DEF Serve, LoseRequest
    <2>2. m.op \in Ops
      BY <1>9 DEF Datagram
    <2>3. execs' = execs \/ execs' = [execs EXCEPT ![m.op] = @ + 1]
      BY <1>9 DEF Serve, LoseRequest
    <2>4. execs' \in [Ops -> Nat]
      BY <2>2, <2>3
    <2>. QED
      BY <1>9, <2>1, <2>4 DEF Serve, LoseRequest, firmware
  <1>10. ASSUME NEW m \in resps, NEW keep \in BOOLEAN,
                LoseResponse(m) \/ Receive(m, keep)
         PROVE  TypeOK'
    BY <1>10 DEF LoseResponse, Receive, Callback, firmware
  <1>11. ASSUME NEW m \in Foreign, ReceiveForeign(m)
         PROVE  TypeOK'
    BY <1>11 DEF ReceiveForeign, Callback, firmware
  <1>12. ASSUME NEW s \in Slots, NEW x \in Sids, Remount(s, x)
         PROVE  TypeOK'
    BY <1>12 DEF Remount, firmware
  <1>13. CASE UNCHANGED vars
    BY <1>13 DEF vars
  <1>. QED
    BY <1>1, <1>2, <1>3, <1>4, <1>5, <1>6, <1>7, <1>8, <1>9, <1>10, <1>11,
       <1>12, <1>13 DEF Next, Operation, Network

----------------------------------------------------------------------------
\* A step that sends nothing leaves the numbering of a datagram alone.
LEMMA QuietNumbered ==
  ASSUME NEW m, Numbered(m),
         UNCHANGED <<issued, seq>>,
         call'[m.op] # "none",
         pc' = "wait" => pc = "wait" /\ cur' = cur
  PROVE  Numbered(m)'
  BY DEF Numbered, Age, Back

\* A step that uses a number makes every datagram that stays one step older.
LEMMA ShiftNumbered ==
  ASSUME TypeOK, NEW m \in Datagram, Numbered(m),
         seq' = NextSeq, issued' = issued + 1,
         (issued + 1) - m.id < Lifetime,
         call'[m.op] # "none"
  PROVE  Numbered(m)'
  <1>1. /\ issued \in Nat /\ m.id \in 1..issued
        /\ Age(m) \in Nat /\ Age(m)' = Age(m) + 1
    BY DEF TypeOK, Numbered, Age
  <1>2. Age(m) + 1 \in 1..SeqMod - 1
    BY <1>1, NumbersAssumption, LifetimeAssumption DEF Age
  <1>3. Back(Age(m) + 1) = (Back(Age(m) + 1))'
    BY <1>1, <1>2, NumbersAssumption DEF TypeOK, Back, NextSeq, Age
  <1>. QED
    BY <1>1, <1>3, LifetimeAssumption DEF Numbered, Age

\* The caller's view and the wait flag follow the program counter.
LEMMA StepCaller ==
  ASSUME IInv, [Next]_vars
  PROVE  WaitInv' /\ CallerInv'
  <1>. USE DEF IInv, TypeOK, WaitInv, CallerInv
  <1>0. pc # "idle" => cur.op \in Ops
    BY DEF Context
  <1>1. ASSUME NEW o \in Ops, NEW s \in Slots, NEW c \in Cmds, Start(o, s, c)
        PROVE  WaitInv' /\ CallerInv'
    BY <1>1 DEF Start
  <1>2. CASE SendRefused
    BY <1>0, <1>2 DEF SendRefused, Return
  <1>3. CASE SendOutOfMemory
    BY <1>0, <1>3 DEF SendOutOfMemory, Return
  <1>4. CASE Send
    BY <1>0, <1>4 DEF Send, Envelope
  <1>5. CASE Accept
    BY <1>0, <1>5 DEF Accept, Return
  <1>6. CASE PollAgain
    BY <1>6 DEF PollAgain, Envelope
  <1>7. CASE Retry
    BY <1>7 DEF Retry
  <1>8. CASE Abandon
    BY <1>0, <1>8 DEF Abandon, Return
  <1>9. CASE Network
    BY <1>9 DEF Network, Serve, LoseRequest, LoseResponse, Receive,
                ReceiveForeign, firmware, Envelope
  <1>10. ASSUME NEW s \in Slots, NEW x \in Sids, Remount(s, x)
         PROVE  WaitInv' /\ CallerInv'
    BY <1>10 DEF Remount, firmware
  <1>11. CASE UNCHANGED vars
    BY <1>11 DEF vars, Envelope
  <1>. QED
    BY <1>1, <1>2, <1>3, <1>4, <1>5, <1>6, <1>7, <1>8, <1>9, <1>10, <1>11
       DEF Next, Operation

\* Every datagram on its way stays numbered, and an answered operation was
\* executed.
LEMMA StepNumbered ==
  ASSUME IInv, [Next]_vars
  PROVE  NumberedInv' /\ AnsweredInv'
  <1>. USE DEF IInv
  <1>0. \A m \in reqs \cup resps : m \in Datagram /\ m.op \in Ops /\ Numbered(m)
    BY DEF TypeOK, NumberedInv, Datagram
  <1>a. pc # "idle" => cur.op \in Ops
    BY DEF TypeOK, Context
  <1>1. ASSUME NEW o \in Ops, NEW s \in Slots, NEW c \in Cmds, Start(o, s, c)
        PROVE  NumberedInv' /\ AnsweredInv'
    <2>1. \A m \in reqs \cup resps : call'[m.op] # "none"
      BY <1>0, <1>1 DEF Start, TypeOK, Numbered
    <2>2. \A m \in reqs \cup resps : Numbered(m)'
      BY <1>0, <1>1, <2>1, QuietNumbered DEF Start
    <2>. QED
      BY <1>1, <2>2 DEF Start, NumberedInv, AnsweredInv
  <1>2. CASE SendRefused \/ Accept \/ Abandon
    <2>1. \A m \in reqs \cup resps : call'[m.op] # "none"
      BY <1>0, <1>a, <1>2
      DEF SendRefused, Accept, Abandon, Return, TypeOK, Numbered
    <2>2. \A m \in reqs \cup resps : Numbered(m)'
      BY <1>0, <1>2, <2>1, QuietNumbered
      DEF SendRefused, Accept, Abandon, Return
    <2>. QED
      BY <1>2, <2>2
      DEF SendRefused, Accept, Abandon, Return, NumberedInv, AnsweredInv
  <1>3. CASE SendOutOfMemory
    <2>1. \A m \in reqs \cup resps : call'[m.op] # "none"
      BY <1>0, <1>a, <1>3 DEF SendOutOfMemory, Return, TypeOK, Numbered
    <2>2. ASSUME NEW m \in Fresh(reqs) \cup Fresh(resps)
          PROVE  Numbered(m)'
      <3>1. m \in reqs \cup resps /\ (issued + 1) - m.id < Lifetime
        BY <2>2, FreshMember
      <3>2. seq' = NextSeq /\ issued' = issued + 1 /\ call'[m.op] # "none"
        BY <1>3, <2>1, <3>1 DEF SendOutOfMemory
      <3>. QED
        BY <1>0, <3>1, <3>2, ShiftNumbered
    <2>. QED
      BY <1>3, <2>2, FreshSubset
      DEF SendOutOfMemory, Return, NumberedInv, AnsweredInv
  <1>4. CASE Send
    <2>1. ASSUME NEW m \in Fresh(reqs) \cup Fresh(resps)
          PROVE  Numbered(m)'
      <3>1. m \in reqs \cup resps /\ (issued + 1) - m.id < Lifetime
        BY <2>1, FreshMember
      <3>2. seq' = NextSeq /\ issued' = issued + 1 /\ call'[m.op] # "none"
        BY <1>0, <1>4, <3>1 DEF Send, Numbered
      <3>. QED
        BY <1>0, <3>1, <3>2, ShiftNumbered
    <2>2. ASSUME NEW q, q.id = issued + 1, q.op = cur.op, q.seq = seq
          PROVE  Numbered(q)'
      <3>1. /\ issued' = issued + 1 /\ q.id \in 1..issued' /\ Age(q)' = 0
            /\ call'[q.op] # "none" /\ q.op = cur'.op
        BY <1>a, <1>4, <2>2 DEF Send, TypeOK, Age, CallerInv
      <3>2. q.seq = Back(Age(q) + 1)'
        BY <1>4, <2>2, <3>1, NumbersAssumption DEF Send, TypeOK, Back, NextSeq
      <3>. QED
        BY <3>1, <3>2, NumbersAssumption DEF Numbered
    <2>3. \A m \in reqs' :
            \/ m \in Fresh(reqs)
            \/ m.id = issued + 1 /\ m.op = cur.op /\ m.seq = seq
      BY <1>4 DEF Send
    <2>4. NumberedInv'
      BY <1>4, <2>1, <2>2, <2>3 DEF Send, NumberedInv
    <2>. QED
      BY <1>4, <2>4, FreshSubset DEF Send, AnsweredInv
  <1>5. CASE PollAgain \/ Retry
    BY <1>0, <1>5, QuietNumbered
    DEF PollAgain, Retry, NumberedInv, AnsweredInv, Numbered
  <1>6. ASSUME NEW m \in reqs, Serve(m)
        PROVE  NumberedInv' /\ AnsweredInv'
    <2>1. NumberedInv'
      BY <1>0, <1>6, QuietNumbered DEF Serve, firmware, NumberedInv, Numbered
    <2>2. \A o \in Ops : execs'[o] >= execs[o] /\ execs'[m.op] >= 1
      BY <1>0, <1>6 DEF Serve, TypeOK
    <2>3. AnsweredInv'
      BY <1>0, <1>6, <2>2 DEF Serve, AnsweredInv, TypeOK
    <2>. QED
      BY <2>1, <2>3
  <1>7. ASSUME NEW m, LoseRequest(m) \/ LoseResponse(m)
        PROVE  NumberedInv' /\ AnsweredInv'
    BY <1>0, <1>7, QuietNumbered
    DEF LoseRequest, LoseResponse, firmware, NumberedInv, AnsweredInv, Numbered
  <1>8. ASSUME NEW m, NEW keep, Receive(m, keep) \/ ReceiveForeign(m)
        PROVE  NumberedInv' /\ AnsweredInv'
    BY <1>0, <1>8, QuietNumbered
    DEF Receive, ReceiveForeign, firmware, NumberedInv, AnsweredInv, Numbered
  <1>9. ASSUME NEW s \in Slots, NEW x \in Sids, Remount(s, x)
        PROVE  NumberedInv' /\ AnsweredInv'
    BY <1>0, <1>9, QuietNumbered
    DEF Remount, firmware, NumberedInv, AnsweredInv, Numbered
  <1>10. CASE UNCHANGED vars
    BY <1>0, <1>10, QuietNumbered DEF vars, NumberedInv, AnsweredInv, Numbered
  <1>. QED
    BY <1>1, <1>2, <1>3, <1>4, <1>5, <1>6, <1>7, <1>8, <1>9, <1>10
       DEF Next, Operation, Network

\* What a wait buffers came through the callback's test, so it is a numbered
\* datagram of the session the wait is for.
LEMMA StepBuffer ==
  ASSUME IInv, [Next]_vars
  PROVE  BufferInv'
  <1>. USE DEF IInv
  <1>1. ASSUME pc' = "wait", UNCHANGED <<pc, cur, resp, issued, seq, call>>,
               \A o \in Ops : execs'[o] >= execs[o]
        PROVE  BufferInv'
    <2>1. CASE resp = NoDatagram
      BY <1>1, <2>1 DEF BufferInv
    <2>2. CASE resp # NoDatagram
      <3>1. resp \in Datagram /\ Numbered(resp) /\ execs[resp.op] >= 1
        BY <1>1, <2>2 DEF BufferInv
      <3>2. resp.op \in Ops /\ call[resp.op] # "none"
        BY <3>1 DEF Datagram, Numbered
      <3>3. Numbered(resp)'
        BY <1>1, <3>1, <3>2 DEF Numbered, Age, Back
      <3>4. execs'[resp.op] >= 1
        BY <1>1, <3>1, <3>2, StepTypeOK DEF TypeOK
      <3>. QED
        BY <1>1, <3>1, <3>3, <3>4 DEF BufferInv
    <2>. QED
      BY <2>1, <2>2
  <1>2. CASE resp' = NoDatagram \/ pc' # "wait"
    BY <1>2 DEF BufferInv
  <1>3. CASE Operation
    BY <1>2, <1>3
    DEF Operation, SendRefused, SendOutOfMemory, Send, Accept, PollAgain,
        Retry, Abandon, Return
  <1>4. ASSUME NEW m \in reqs, Serve(m), pc' = "wait"
        PROVE  BufferInv'
    <2>1. m.op \in Ops
      BY DEF TypeOK, Datagram
    <2>2. \A o \in Ops : execs'[o] >= execs[o]
      BY <1>4, <2>1 DEF Serve, TypeOK
    <2>. QED
      BY <1>1, <1>4, <2>2 DEF Serve, firmware
  <1>5. ASSUME NEW m, LoseRequest(m) \/ LoseResponse(m), pc' = "wait"
        PROVE  BufferInv'
    BY <1>1, <1>5 DEF LoseRequest, LoseResponse, firmware, TypeOK
  <1>6. ASSUME NEW m \in resps, NEW keep, Receive(m, keep), pc' = "wait"
        PROVE  BufferInv'
    <2>1. CASE UNCHANGED resp
      BY <1>1, <1>6, <2>1 DEF Receive, firmware, TypeOK
    <2>2. CASE resp' = m
      <3>1. m \in Datagram /\ Numbered(m) /\ execs[m.op] >= 1
        BY DEF TypeOK, NumberedInv, AnsweredInv
      <3>2. Numbered(m)'
        BY <1>6, <3>1, QuietNumbered DEF Receive, firmware, Numbered
      <3>. QED
        BY <1>6, <2>2, <3>1, <3>2 DEF Receive, BufferInv, Numbered
    <2>. QED
      BY <1>6, <2>1, <2>2 DEF Receive, Callback
  <1>7. ASSUME NEW m, ReceiveForeign(m), pc' = "wait"
        PROVE  BufferInv'
    <2>1. UNCHANGED resp
      BY <1>7 DEF ReceiveForeign, Callback, Keeps, WaitInv, firmware
    <2>. QED
      BY <1>1, <1>7, <2>1 DEF ReceiveForeign, firmware, TypeOK
  <1>8. ASSUME NEW o, NEW s, NEW c, NEW x, Start(o, s, c) \/ Remount(s, x)
        PROVE  BufferInv'
    BY <1>2, <1>8 DEF Start, Remount, firmware
  <1>9. CASE UNCHANGED vars /\ pc' = "wait"
    BY <1>1, <1>9 DEF vars, TypeOK
  <1>. QED
    BY <1>2, <1>3, <1>4, <1>5, <1>6, <1>7, <1>8, <1>9 DEF Next, Network

----------------------------------------------------------------------------
\* Every step of the firmware and of the network preserves the invariant.
THEOREM StepIInv == IInv /\ [Next]_vars => IInv'
  BY StepTypeOK, StepCaller, StepNumbered, StepBuffer DEF IInv

\* In every reachable state the datagrams that are around are numbered by
\* their age.
THEOREM InvariantIInv == Spec => []IInv
  BY InitIInv, StepIInv, PTL DEF Spec

\* Every reachable state is well typed.
THEOREM TypeCorrect == Spec => []TypeOK
  BY InvariantIInv, PTL DEF IInv

\* The invariant makes the correlation sound: of the datagrams still around,
\* only the outstanding request's own answer carries its number.
LEMMA AcceptsOwnStep == IInv => AcceptsOwnAnswer
  <1>. SUFFICES ASSUME IInv, pc = "wait", Matches(resp)
                PROVE  resp.id = issued
    BY DEF AcceptsOwnAnswer
  <1>1. resp \in Datagram /\ Numbered(resp) /\ issued \in Nat
    BY DEF IInv, BufferInv, Matches, TypeOK
  <1>2. Age(resp) + 1 \in 1..SeqMod
    BY <1>1, NumbersAssumption, LifetimeAssumption DEF Numbered, Age
  <1>3. Back(Age(resp) + 1) = Back(1)
    BY <1>1, BackOne DEF IInv, TypeOK, Matches, Numbered
  <1>4. Age(resp) + 1 = 1
    BY <1>2, <1>3, BackInjective, NumbersAssumption DEF IInv, TypeOK
  <1>. QED
    BY <1>1, <1>4 DEF Age, Numbered

\* A wait only ever accepts the answer to its own request: for every width
\* of the counter that outlasts the datagrams, however many operations,
\* retries and remounts there are, and whatever strays arrive.
THEOREM AcceptsOwn == Spec => []AcceptsOwnAnswer
  BY AcceptsOwnStep, InvariantIInv, PTL

----------------------------------------------------------------------------
\* The channel implements what AtLeastOnce promises its callers: in every
\* behaviour, with any number of lost, late, duplicated and foreign
\* datagrams, an operation that reports success was executed by the server.
THEOREM ImplementsPromise == Spec => AtLeastOncePromise
  <1>1. Init => Promise!AloInit
    BY DEF Init, Promise!AloInit
  <1>2. ASSUME IInv, [Next]_vars
        PROVE  [Promise!AloNext]_(Promise!aloVars)
    <2>. USE <1>2 DEF IInv, Promise!aloVars
    <2>0. pc # "idle" => cur.op \in Ops /\ call[cur.op] = "busy"
      BY DEF TypeOK, Context, CallerInv
    <2>1. ASSUME NEW o \in Ops, NEW s \in Slots, NEW c \in Cmds,
                 Start(o, s, c)
          PROVE  Promise!Begin(o)
      BY <2>1 DEF Start, Promise!Begin, CallerInv, TypeOK
    <2>2. CASE SendRefused \/ SendOutOfMemory \/ Abandon
      <3>1. Promise!GiveUp(cur.op)
        BY <2>0, <2>2
        DEF SendRefused, SendOutOfMemory, Abandon, Return, Promise!GiveUp
      <3>. QED
        BY <2>0, <2>2, <3>1
        DEF Promise!AloNext, SendRefused, SendOutOfMemory, Abandon
    <2>3. CASE Accept
      <3>1. resp.id = issued /\ Numbered(resp) /\ execs[resp.op] >= 1
        BY <2>3, AcceptsOwnStep DEF Accept, BufferInv, Matches, AcceptsOwnAnswer
      <3>2. Promise!Succeed(cur.op)
        BY <2>0, <2>3, <3>1 DEF Accept, Return, Numbered, Promise!Succeed
      <3>. QED
        BY <2>0, <2>3, <3>2 DEF Promise!AloNext, Accept
    <2>4. CASE Send \/ PollAgain \/ Retry
      BY <2>4 DEF Send, PollAgain, Retry
    <2>5. ASSUME NEW m \in reqs, Serve(m)
          PROVE  Promise!Execute(m.op) /\ m.op \in Ops
      BY <2>5 DEF Serve, NumberedInv, Numbered, TypeOK, Datagram,
                  Promise!Execute
    <2>6. ASSUME NEW m, NEW keep,
                 \/ LoseRequest(m) \/ LoseResponse(m)
                 \/ Receive(m, keep) \/ ReceiveForeign(m)
          PROVE  UNCHANGED <<call, execs>>
      BY <2>6 DEF LoseRequest, LoseResponse, Receive, ReceiveForeign
    <2>7. ASSUME NEW s, NEW x, Remount(s, x)
          PROVE  UNCHANGED <<call, execs>>
      BY <2>7 DEF Remount
    <2>8. CASE UNCHANGED vars
      BY <2>8 DEF vars
    <2>. QED
      BY <2>1, <2>2, <2>3, <2>4, <2>5, <2>6, <2>7, <2>8
      DEF Next, Operation, Network, Promise!AloNext
  <1>. QED
    BY <1>1, <1>2, InvariantIInv, PTL DEF Spec, AtLeastOncePromise, Promise!AloSpec

============================================================================
