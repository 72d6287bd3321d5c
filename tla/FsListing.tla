----------------------------- MODULE FsListing -----------------------------
(***************************************************************************)
(* The fs-listing channel of src/romemul/sidetnfs_probe.c: the one UDP     *)
(* round trip that every TNFS directory and file operation is made of.     *)
(*                                                                         *)
(* An operation copies its drive slot's session context, then sends a      *)
(* request under the next 8-bit sequence number and polls lwIP a bounded   *)
(* number of times for the answer with that command and number.  After a   *)
(* timeout it sends the request again, under a new number.  The receive    *)
(* callback keeps at most one datagram, and only while a wait is running   *)
(* and the datagram comes from the server and session being waited for.    *)
(*                                                                         *)
(* The network (external) loses, delays, reorders and duplicates           *)
(* datagrams; a datagram may also arrive after its operation gave up.      *)
(*                                                                         *)
(* One operation here is one round trip with its retries: a multi-round    *)
(* READ is several of them over the same copied context.                   *)
(***************************************************************************)
EXTENDS Naturals, FiniteSets

CONSTANTS
    MaxOps,     \* operations the firmware starts (bound of the model)
    Slots,      \* runtime drive slots
    Server,     \* Server[s]: the address and port slot s talks to
    Servers,    \* every address a datagram may come from
    Sids,       \* TNFS session ids
    Cmds,       \* TNFS command codes
    SeqMod,     \* number of sequence values: 256
    Retries,    \* retries after the first attempt: 2
    MaxPolls,   \* polls in one wait: SIDETNFS_FS_WAIT_MAX_ITER
    Lifetime    \* a datagram is gone once this many requests were sent since

ASSUME SlotsAssumption == Server \in [Slots -> Servers]
ASSUME NumbersAssumption ==
    /\ MaxOps \in Nat
    /\ SeqMod \in Nat \ {0}
    /\ Retries \in Nat
    /\ MaxPolls \in Nat \ {0}
    /\ Lifetime \in Nat \ {0}

\* A numeric sequence counter never distinguishes datagrams further apart
\* than its range: the correlation below is claimed for networks that do not
\* hold a datagram of one session that long.
ASSUME LifetimeAssumption == Lifetime <= SeqMod

VARIABLES
    pc,         \* "idle", "send" or "wait": where the firmware is
    cur,        \* the operation being run, with its copied context
    sid,        \* sid[s]: session id in the slot table
    seq,        \* s_readdirx_seq
    retries,    \* retries left to the running operation
    polls,      \* polls left to the running wait
    waiting,    \* s_fslisting_waiting
    expected,   \* s_fslisting_expected_addr/_port/_sid
    resp,       \* s_fslisting_resp; NoDatagram while response_ready is false
    reqs,       \* requests on their way to a server
    resps,      \* responses on their way back
    issued,     \* sequence numbers used so far, never wrapping (history)
    call,       \* call[o]: "none", "busy", "ok" or "error" (history)
    execs       \* execs[o]: executions of o by its server (history)

vars == <<pc, cur, sid, seq, retries, polls, waiting, expected, resp, reqs,
          resps, issued, call, execs>>

firmware == <<pc, cur, seq, retries, polls, waiting, expected>>

----------------------------------------------------------------------------
(* Types.  A datagram carries session, sequence number and command; its    *)
(* server is the IP source or destination.  id and op are history: which   *)
(* request it is or answers.                                               *)

\* Operations are numbered in the order they start.
Ops == 1..MaxOps

Context == [op : Ops, cmd : Cmds, server : Servers, sid : Sids]

Datagram ==
    [id : Nat, op : Ops, seq : 0..SeqMod - 1, cmd : Cmds,
     server : Servers, sid : Sids]

\* Datagrams of unrelated senders, or of a session that has since been
\* replaced, however old: id 0 is no request of this channel.
Foreign ==
    [id : {0}, op : {0}, seq : 0..SeqMod - 1, cmd : Cmds,
     server : Servers, sid : Sids]

NoContext == [op |-> 0]
NoDatagram == [id |-> "none"]

Envelope(m) == <<m.server, m.sid>>

----------------------------------------------------------------------------
Init ==
    /\ pc = "idle"
    /\ cur = NoContext
    /\ sid \in [Slots -> Sids]
    /\ seq = 2 % SeqMod
    /\ retries = 0
    /\ polls = 0
    /\ waiting = FALSE
    /\ expected = <<>>
    /\ resp = NoDatagram
    /\ reqs = {}
    /\ resps = {}
    /\ issued = 0
    /\ call = [o \in Ops |-> "none"]
    /\ execs = [o \in Ops |-> 0]

\* Mutant: the counter is wider than the byte it is sent in.
NextSeqUnbounded == seq + 1

\* uint8_t post-increment
NextSeq == IF seq + 1 = SeqMod THEN 0 ELSE seq + 1

\* Datagrams that are still around after one more request was sent.
Fresh(S) == {m \in S : (issued + 1) - m.id < Lifetime}

\* The operation returns to its caller.
Return(answer) ==
    /\ pc' = "idle"
    /\ cur' = NoContext
    /\ waiting' = FALSE
    /\ call' = [call EXCEPT ![cur.op] = answer]

----------------------------------------------------------------------------
(* The operation                                                           *)

\* tnfs_open_with_flags and its siblings: copy the slot's context once, then
\* use the copy for every attempt.
Start(o, s, c) ==
    /\ pc = "idle"
    /\ call[o] = "none"
    /\ \A p \in 1..o - 1 : call[p] # "none"
    /\ pc' = "send"
    /\ cur' = [op |-> o, cmd |-> c, server |-> Server[s], sid |-> sid[s]]
    /\ retries' = Retries
    /\ call' = [call EXCEPT ![o] = "busy"]
    /\ UNCHANGED <<sid, seq, polls, waiting, expected, resp, reqs,
                   resps, issued, execs>>

\* fslisting_send_*: no PCB or no address, before a number is used.
SendRefused ==
    /\ pc = "send"
    /\ Return("error")
    /\ UNCHANGED <<sid, seq, retries, polls, expected, resp, reqs,
                   resps, issued, execs>>

\* fslisting_send_*: no pbuf, after the number was used and the buffer reset.
SendOutOfMemory ==
    /\ pc = "send"
    /\ seq' = NextSeq
    /\ issued' = issued + 1
    /\ resp' = NoDatagram
    /\ reqs' = Fresh(reqs)
    /\ resps' = Fresh(resps)
    /\ Return("error")
    /\ UNCHANGED <<sid, retries, polls, expected, execs>>

\* fslisting_send_*, then the opening of fslisting_wait_for: nothing polls
\* lwIP between the two.
Send ==
    /\ pc = "send"
    /\ seq' = NextSeq
    /\ issued' = issued + 1
    /\ resp' = NoDatagram
    /\ reqs' = Fresh(reqs) \cup
               {[id |-> issued + 1, op |-> cur.op, seq |-> seq,
                 cmd |-> cur.cmd, server |-> cur.server, sid |-> cur.sid]}
    /\ resps' = Fresh(resps)
    /\ expected' = Envelope(cur)
    /\ waiting' = TRUE
    /\ polls' = MaxPolls
    /\ pc' = "wait"
    /\ UNCHANGED <<cur, sid, retries, call, execs>>

\* The number the outstanding request carries (the out_seq of its sender).
ExpectedSeq == IF seq = 0 THEN SeqMod - 1 ELSE seq - 1

\* Mutant: the sequence number is not compared.
MatchesCommandOnly(m) == m # NoDatagram /\ m.cmd = cur.cmd

Matches(m) ==
    /\ m # NoDatagram
    /\ m.cmd = cur.cmd
    /\ m.seq = ExpectedSeq

\* fslisting_wait_for: the answer is there.
Accept ==
    /\ pc = "wait" /\ polls > 0
    /\ Matches(resp)
    /\ resp' = NoDatagram
    /\ Return("ok")
    /\ UNCHANGED <<sid, seq, retries, polls, expected, reqs, resps,
                   issued, execs>>

\* Mutant: a stray does not count as a poll.
PollAgainStraysAreFree ==
    /\ pc = "wait" /\ polls > 0
    /\ ~Matches(resp)
    /\ resp' = NoDatagram
    /\ polls' = IF resp = NoDatagram THEN polls - 1 ELSE polls
    /\ UNCHANGED <<pc, cur, sid, seq, retries, waiting, expected, reqs,
                   resps, issued, call, execs>>

\* fslisting_wait_for: nothing there, or a stray that is dropped; sleep and
\* poll again.
PollAgain ==
    /\ pc = "wait" /\ polls > 0
    /\ ~Matches(resp)
    /\ resp' = NoDatagram
    /\ polls' = polls - 1
    /\ UNCHANGED <<pc, cur, sid, seq, retries, waiting, expected, reqs,
                   resps, issued, call, execs>>

\* fslisting_wait_for timed out and the operation sends again.
Retry ==
    /\ pc = "wait" /\ polls = 0
    /\ retries > 0
    /\ retries' = retries - 1
    /\ waiting' = FALSE
    /\ pc' = "send"
    /\ UNCHANGED <<cur, sid, seq, polls, expected, resp, reqs, resps,
                   issued, call, execs>>

\* fslisting_wait_for timed out and the retries are used up.
Abandon ==
    /\ pc = "wait" /\ polls = 0
    /\ retries = 0
    /\ Return("error")
    /\ UNCHANGED <<sid, seq, retries, polls, expected, resp, reqs,
                   resps, issued, execs>>

----------------------------------------------------------------------------
(* lwIP: callbacks only run while the firmware polls, that is in the main  *)
(* loop and inside a wait.                                                 *)

Polling == pc = "idle" \/ (pc = "wait" /\ polls > 0)

\* Mutant: address, port and session are not compared.
KeepsAnySource(m) == waiting

\* The test tnfs_fslisting_recv_callback makes before it keeps a datagram.
Keeps(m) == waiting /\ Envelope(m) = expected

\* tnfs_fslisting_recv_callback: a later datagram replaces an earlier one.
Callback(m) ==
    IF Keeps(m)
    THEN resp' = m
    ELSE UNCHANGED resp

\* keep: the network delivers a second copy later.
Receive(m, keep) ==
    /\ Polling
    /\ m \in resps
    /\ Callback(m)
    /\ resps' = IF keep THEN resps ELSE resps \ {m}
    /\ UNCHANGED <<firmware, sid, reqs, issued, call, execs>>

\* A datagram of another sender, or of another session, however old.
ReceiveForeign(m) ==
    /\ Polling
    /\ pc = "wait" => Envelope(m) # Envelope(cur)
    /\ Callback(m)
    /\ UNCHANGED <<firmware, sid, reqs, resps, issued, call, execs>>

----------------------------------------------------------------------------
(* Server and network (external) and the mounting of slots                 *)

\* The server executes a request and answers, echoing session and sequence.
Serve(m) ==
    /\ m \in reqs
    /\ reqs' = reqs \ {m}
    /\ resps' = resps \cup {m}
    /\ execs' = [execs EXCEPT ![m.op] = @ + 1]
    /\ UNCHANGED <<firmware, sid, resp, issued, call>>

LoseRequest(m) ==
    /\ m \in reqs
    /\ reqs' = reqs \ {m}
    /\ UNCHANGED <<firmware, sid, resp, resps, issued, call, execs>>

LoseResponse(m) ==
    /\ m \in resps
    /\ resps' = resps \ {m}
    /\ UNCHANGED <<firmware, sid, resp, reqs, issued, call, execs>>

\* A slot is mounted again between two operations and gets another session.
Remount(s, x) ==
    /\ pc = "idle"
    /\ sid[s] # x
    /\ sid' = [sid EXCEPT ![s] = x]
    /\ UNCHANGED <<firmware, resp, reqs, resps, issued, call, execs>>

----------------------------------------------------------------------------
Operation ==
    \/ SendRefused
    \/ SendOutOfMemory
    \/ Send
    \/ Accept
    \/ PollAgain
    \/ Retry
    \/ Abandon

Network ==
    \/ \E m \in reqs : Serve(m) \/ LoseRequest(m)
    \/ \E m \in resps : LoseResponse(m) \/ (\E keep \in BOOLEAN : Receive(m, keep))
    \/ \E m \in Foreign : ReceiveForeign(m)

Next ==
    \/ \E o \in Ops, s \in Slots, c \in Cmds : Start(o, s, c)
    \/ Operation
    \/ Network
    \/ \E s \in Slots, x \in Sids : Remount(s, x)

Spec == Init /\ [][Next]_vars

\* The firmware's own loop runs on; nothing is asked of the network.
FairSpec == Spec /\ WF_vars(Operation)

----------------------------------------------------------------------------
(* Properties                                                              *)

\* Every variable has its type.
TypeOK ==
    /\ pc \in {"idle", "send", "wait"}
    /\ pc = "idle" => cur = NoContext
    /\ pc # "idle" => cur \in Context
    /\ sid \in [Slots -> Sids]
    /\ seq \in 0..SeqMod - 1
    /\ retries \in 0..Retries
    /\ polls \in 0..MaxPolls
    /\ waiting \in BOOLEAN
    /\ resp \in Datagram \cup Foreign \cup {NoDatagram}
    /\ reqs \subseteq Datagram
    /\ resps \subseteq Datagram
    /\ issued \in Nat
    /\ call \in [Ops -> {"none", "busy", "ok", "error"}]
    /\ execs \in [Ops -> Nat]

\* The datagram a wait is about to accept answers the very request it is
\* waiting for: not an earlier attempt, not another operation that used the
\* same number before the counter wrapped, not another server or session
\* (the root cause described above s_fslisting_waiting).
AcceptsOwnAnswer ==
    (pc = "wait" /\ Matches(resp)) => resp.id = issued

\* What the caller may rely on, see module AtLeastOnce: no operation reports
\* success unless the server executed that very operation, and one operation
\* runs at a time.
Promise == INSTANCE AtLeastOnce

AtLeastOncePromise == Promise!AloSpec

\* Every operation returns to the GEMDOS dispatch loop, even when every
\* datagram is lost or strays keep arriving: the Atari is never left waiting.
EveryOperationReturns ==
    \A o \in Ops : call[o] = "busy" ~> call[o] \in {"ok", "error"}
============================================================================
