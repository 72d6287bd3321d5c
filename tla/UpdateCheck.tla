----------------------------- MODULE UpdateCheck ------------------------------
(***************************************************************************)
(* src/romemul/sidetnfs_update_check.c: one HTTP request for the number of *)
(* the latest release, in the main loop.  Its context is on the stack; the *)
(* callbacks of lwIP write to it.  They run when the network is polled,    *)
(* which is in the two wait loops here and in the main loop.               *)
(*                                                                         *)
(* A version is the digits of its last number; an answer is as many units  *)
(* of headers as "head" says and then the digits.                          *)
(***************************************************************************)
EXTENDS Naturals, Sequences

CONSTANTS
    Installed, \* RELEASE_VERSION
    BufSize,   \* SIDETNFS_UPDATE_RESP_BUF_SIZE, in units
    Replies,   \* what the web server can answer (external)
    MaxAsked   \* DNS callbacks outstanding (bound of the model)

Digits == 0..9
Versions == Seq(Digits)

ASSUME InstalledAssumption == Installed \in Versions
ASSUME SizesAssumption == BufSize \in Nat /\ MaxAsked \in Nat
ASSUME RepliesAssumption == Replies \subseteq [head : Nat, body : Versions, digits : BOOLEAN]

VARIABLES
    checking, \* where the check waits
    ctx,      \* sidetnfs_update_ctx_t
    pcb,      \* "dead": lwIP has freed it, the check still has the pointer
    asked,    \* DNS callbacks still to come (external)
    reply,    \* what the server answers this time (external)
    arrived,  \* units of it that have arrived (external)
    verdict,  \* UPDATE_STATUS, UPDATE_LATEST_VERSION
    cut       \* history: the server or the buffer cut the answer short

checkVars == <<checking, ctx, pcb, asked, reply, arrived, verdict, cut>>

Ctx == [dns_done : BOOLEAN, dns_ok : BOOLEAN, request_sent : BOOLEAN,
        closed : BOOLEAN, error : BOOLEAN, resp_len : 0..BufSize]
Empty == [dns_done |-> FALSE, dns_ok |-> FALSE, request_sent |-> FALSE,
          closed |-> FALSE, error |-> FALSE, resp_len |-> 0]

Verdict(s, v) == [status |-> s, version |-> v]
Failed == Verdict("error", <<>>)

CheckTypeOK ==
    /\ checking \in {"idle", "dns", "http"}
    /\ ctx \in Ctx
    /\ pcb \in {"none", "alive", "dead"}
    /\ asked \in 0..MaxAsked
    /\ reply \in Replies
    /\ arrived \in Nat
    /\ verdict.status \in {"none", "error", "up_to_date", "available"}
    /\ verdict.version \in Versions
    /\ cut \in BOOLEAN

CheckInit ==
    /\ checking = "idle"
    /\ ctx = Empty
    /\ pcb = "none"
    /\ asked = 0
    /\ reply = CHOOSE r \in Replies : TRUE    \* not used before the first check
    /\ arrived = 0
    /\ verdict = Verdict("none", <<>>)
    /\ cut = FALSE

Length(r) == r.head + Len(r.body)

\* update_is_newer: as numbers, "v1.0.10" after "v1.0.9".
Number(v) == IF Len(v) = 1 THEN v[1] ELSE (10 * v[1]) + v[2]
Newer(r, v) == r.digits /\ Number(v) > Number(Installed)

\* What the buffer holds: the end of the headers, then as much as there is.
Judged(r, n) ==
    IF n <= r.head THEN Failed
    ELSE LET v == SubSeq(r.body, 1, n - r.head)
         IN  Verdict(IF Newer(r, v) THEN "available" ELSE "up_to_date", v)

Return(v, c) ==
    /\ checking' = "idle"
    /\ pcb' = "none"
    /\ verdict' = v
    /\ cut' = c

\* altcp_tcp_new_ip_type and altcp_connect.
Connect ==
    \/ /\ checking' = "http"
       /\ pcb' = "alive"
       /\ UNCHANGED <<verdict, cut>>
    \/ Return(Failed, FALSE)

\* SIDETNFS_CHECK_UPDATE, up to the first wait.
CheckUpdate(linked) ==
    /\ checking = "idle"
    /\ arrived' = 0
    /\ reply' \in Replies
    /\ \/ linked                     \* the name is in lwIP's cache
          /\ Connect
          /\ ctx' = [Empty EXCEPT !.dns_done = TRUE, !.dns_ok = TRUE]
          /\ UNCHANGED asked
       \/ linked
          /\ asked < MaxAsked
          /\ asked' = asked + 1
          /\ checking' = "dns"
          /\ ctx' = Empty
          /\ UNCHANGED <<pcb, verdict, cut>>
       \/ Return(Failed, FALSE)      \* not connected, or the query was refused
          /\ ctx' = Empty
          /\ UNCHANGED asked

\* update_dns_found_cb.  It may come late: then its context is that of another
\* check, if one is running, or no context any more.
DnsFound ==
    /\ asked > 0
    /\ asked' = asked - 1
    /\ ctx' \in IF checking = "idle" THEN {ctx}
                ELSE {[ctx EXCEPT !.dns_done = TRUE],
                      [ctx EXCEPT !.dns_done = TRUE, !.dns_ok = TRUE]}
    /\ UNCHANGED <<checking, pcb, reply, arrived, verdict, cut>>

\* The wait for it ends, with an address, without one, or at the deadline.
DnsEnds ==
    /\ checking = "dns"
    /\ IF ctx.dns_ok THEN Connect ELSE Return(Failed, FALSE)
    /\ UNCHANGED <<ctx, asked, reply, arrived>>

\* update_connected_cb
Connected ==
    /\ checking = "http"
    /\ pcb = "alive"
    /\ ~ctx.request_sent /\ ~ctx.closed
    /\ ctx' \in {[ctx EXCEPT !.request_sent = TRUE],
                 [ctx EXCEPT !.error = TRUE, !.closed = TRUE]}
    /\ UNCHANGED <<checking, pcb, asked, reply, arrived, verdict, cut>>

\* update_recv_cb: what does not fit is dropped.
Receive ==
    /\ checking = "http"
    /\ pcb = "alive"
    /\ ctx.request_sent /\ ~ctx.closed
    /\ arrived < Length(reply)
    /\ arrived' = arrived + 1
    /\ ctx' = [ctx EXCEPT !.resp_len = IF @ < BufSize - 1 THEN @ + 1 ELSE @]
    /\ UNCHANGED <<checking, pcb, asked, reply, verdict, cut>>

\* update_recv_cb without data, or with an error: the peer closed.
PeerCloses ==
    /\ checking = "http"
    /\ pcb = "alive"
    /\ ~ctx.closed
    /\ ctx' = [ctx EXCEPT !.closed = TRUE]
    /\ UNCHANGED <<checking, pcb, asked, reply, arrived, verdict, cut>>

\* update_err_cb: "lwIP has already freed the pcb by the time this fires".
ConnectionLost ==
    /\ checking = "http"
    /\ pcb = "alive"
    /\ pcb' = "dead"
    /\ ctx' = [ctx EXCEPT !.closed = TRUE, !.error = TRUE]
    /\ UNCHANGED <<checking, asked, reply, arrived, verdict, cut>>

Usable == ~ctx.error /\ ctx.request_sent /\ ctx.resp_len > 0

\* Mutant: at the deadline it makes do with what there is.
HttpEndsAnyhow ==
    /\ checking = "http"
    /\ Return(IF Usable THEN Judged(reply, ctx.resp_len) ELSE Failed,
              ctx.closed /\ ctx.resp_len # Length(reply))
    /\ UNCHANGED <<ctx, asked, reply, arrived>>

\* The wait for the answer ends: closed, or at the deadline.
HttpEnds ==
    /\ checking = "http"
    /\ Return(IF ctx.closed /\ Usable THEN Judged(reply, ctx.resp_len) ELSE Failed,
              ctx.closed /\ ctx.resp_len # Length(reply))
    /\ UNCHANGED <<ctx, asked, reply, arrived>>

Callback == DnsFound \/ Connected \/ Receive \/ PeerCloses \/ ConnectionLost
CheckEnds == DnsEnds \/ HttpEnds
============================================================================
