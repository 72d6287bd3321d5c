----------------------------- MODULE DeviceProofs -----------------------------
(***************************************************************************)
(* What the firmware itself guarantees below the drives, from power-on to  *)
(* the main loop (Boot) and from a word read in ROM3 to the token that     *)
(* answers a command (Transport); the two share no state.                  *)
(*                                                                         *)
(* Boot, for any number of attempts, resets and queries and for any        *)
(* answers of the web server: whether the stack is up and what the Atari   *)
(* is told hold by one invariant; the types, and that a verdict is about   *)
(* the whole answer, hold by themselves.                                   *)
(*                                                                         *)
(* Transport, for any commands and parameters, any size of the buffer and  *)
(* any number of transmissions, pauses, stray reads and resets: one        *)
(* invariant follows a transmission word by word through the parser, the   *)
(* main loop and back.                                                     *)
(***************************************************************************)
EXTENDS Boot, Transport, SequenceTheorems, TLAPS

\* The flags that let the network be polled are set only while the driver is up,
\* and a link is there only on a driver that is up; main finds none that is.
StackInv ==
    /\ initialized \/ network_ok => stack
    /\ at \in {"ntp", "publish", "mount"} => stack
    /\ joining \/ link # "down" => stack
    /\ at = "main" => ~stack

BootInv ==
    /\ initialized \in BOOLEAN /\ stack \in BOOLEAN /\ joining \in BOOLEAN
    /\ network_ok \in BOOLEAN /\ mounted \in BOOLEAN
    /\ clock \in BOOLEAN /\ rtc_status \in BOOLEAN
    /\ PollsAreGuarded
    /\ StatusTellsTheNetwork
    /\ StackInv

USE DEF Quiet

----------------------------------------------------------------------------
(* The network and what is told of it                                      *)

LEMMA BootInitInv == BootInit => BootInv
  BY DEF BootInit, BootInv, PollsAreGuarded, StatusTellsTheNetwork, StackInv, Booting

\* Every step before the main loop, in it, and the reset that starts over.
LEMMA BootStepInv == BootInv /\ [BootNext]_bootVars => BootInv'
<1> SUFFICES ASSUME BootInv, [BootNext]_bootVars
             PROVE  BootInv'
  OBVIOUS
<1> USE DEF BootInv, PollsAreGuarded, StatusTellsTheNetwork, StackInv, Booting, Terminated
<1>1. CASE Main
  <2>1. PICK works \in BOOLEAN : WifiInit(works) /\ at' = IF works THEN "start" ELSE "dead"
    BY <1>1 DEF Main
  <2>2. UNCHANGED <<joining, link, tellVars, ntpVars, down_polls>> /\ at = "main"
    BY <1>1 DEF Main
  <2>3. CASE works = TRUE
    BY <2>1, <2>2, <2>3 DEF WifiInit, tellVars, ntpVars
  <2>4. CASE works = FALSE
    BY <2>1, <2>2, <2>4 DEF WifiInit, tellVars, ntpVars
  <2> QED
    BY <2>3, <2>4
<1>2. CASE Start
  BY <1>2 DEF Start, Offline, Terminate, InitWithSettings, WifiInit, tellVars, ntpVars
<1>3. CASE WifiGivesUp
  BY <1>3 DEF WifiGivesUp, Offline, Terminate, ntpVars
<1>4. CASE WifiTimeout
  BY <1>4 DEF WifiTimeout, InitWithSettings, WifiInit, tellVars, ntpVars
<1>5. CASE WifiReady
  BY <1>5 DEF WifiReady, wifiVars, tellVars
<1>6. CASE LinkChanges
  BY <1>6 DEF LinkChanges, tellVars, ntpVars
<1>7. CASE NtpSend \/ NtpResolve \/ NtpRetry \/ HostFound
  <2>1. UNCHANGED <<at, wifiVars, tellVars, clock, down_polls>>
    BY <1>7 DEF NtpSend, NtpResolve, NtpRetry, HostFound
  <2> QED
    BY <2>1 DEF wifiVars, tellVars
<1>8. CASE NtpAnswer
  <2>1. UNCHANGED <<at, wifiVars, tellVars, down_polls>> /\ (clock' = clock \/ clock' = TRUE)
    BY <1>8 DEF NtpAnswer
  <2>2. CASE clock' = clock
    BY <2>1, <2>2 DEF wifiVars, tellVars
  <2>3. CASE clock' = TRUE
    BY <2>1, <2>3 DEF wifiVars, tellVars
  <2> QED
    BY <2>1, <2>2, <2>3
<1>9. CASE NtpEnds
  BY <1>9 DEF NtpEnds, wifiVars, ntpVars
<1>10. CASE Publish
  BY <1>10 DEF Publish, wifiVars, ntpVars
<1>11. CASE MountEnds
  BY <1>11 DEF MountEnds, wifiVars, ntpVars
<1>12. CASE SelectReset
  BY <1>12 DEF SelectReset
<1>13. CASE Poll
  BY <1>13 DEF Poll, PollsFrom, wifiVars, tellVars, ntpVars
<1>14. CASE FloppyMount
  <2>1. UNCHANGED <<wifiVars, tellVars, ntpVars>> /\ at = "loop"
    BY <1>14 DEF FloppyMount
  <2>2. \/ UNCHANGED <<at, down_polls>>
        \/ ~stack /\ down_polls' = down_polls \cup {"floppy"} /\ at' \in {at, "hung"}
    BY <1>14 DEF FloppyMount, PollsFrom
  <2> QED
    BY <2>1, <2>2 DEF wifiVars, tellVars, ntpVars
<1>15. CASE Check \/ Checking \/ UNCHANGED bootVars
  <2>1. UNCHANGED <<at, wifiVars, tellVars, ntpVars, down_polls>>
    BY <1>15 DEF Check, Checking, bootVars
  <2> QED
    BY <2>1 DEF wifiVars, tellVars, ntpVars
<1> QED
  BY <1>1, <1>2, <1>3, <1>4, <1>5, <1>6, <1>7, <1>8, <1>9, <1>10, <1>11, <1>12, <1>13, <1>14,
     <1>15
     DEF BootNext, WifiWait, NtpWait, Opening

\* The driver, the link and what the Atari is told stay in step from power-on
\* to the main loop and over a reset (main.c, init_gemdrvemul).
THEOREM BootInvariant == BootSpec => []BootInv
<1> QED
  BY BootInitInv, BootStepInv, PTL DEF BootSpec

\* The waits, the mounting, the update check and the main loop poll lwIP only while
\* the driver is up (network_safe_poll, sidetnfs_network_ok; gemdrvemul.c:4331-4334).
THEOREM PolledCorrect == BootSpec => []PollsAreGuarded
<1>1. BootInv => PollsAreGuarded
  BY DEF BootInv
<1> QED
  BY <1>1, BootInvariant, PTL

\* The Atari is told what is the case (GEMDRVEMUL_NETWORK_STATUS, RTC_STATUS).
THEOREM StatusCorrect == BootSpec => []StatusTellsTheNetwork
<1>1. BootInv => StatusTellsTheNetwork
  BY DEF BootInv
<1> QED
  BY <1>1, BootInvariant, PTL

----------------------------------------------------------------------------
(* The verdict on the release                                              *)

\* Of an answer that is all there, everything is judged.
LEMMA WholeIsJudged ==
  ASSUME NEW r \in Replies
  PROVE  LET v == Judged(r, Length(r)) IN
           v = Failed \/ v = Verdict(IF Newer(r, r.body) THEN "available" ELSE "up_to_date", r.body)
<1>1. r.head \in Nat /\ r.body \in Seq(Digits)
  BY RepliesAssumption DEF Versions
<1>2. Length(r) - r.head = Len(r.body)
  BY <1>1 DEF Length
<1>3. SubSeq(r.body, 1, Len(r.body)) = r.body
  BY <1>1
<1> QED
  BY <1>2, <1>3 DEF Judged

\* Only the end of a check gives a verdict, and the answer does not change after it.
LEMMA VerdictStep ==
  ASSUME reply \in Replies, VerdictIsOfWholeAnswer, [BootNext]_bootVars
  PROVE  reply' \in Replies /\ VerdictIsOfWholeAnswer'
<1> USE DEF VerdictIsOfWholeAnswer
<1>1. CASE UNCHANGED checkVars
  BY <1>1 DEF checkVars
<1>2. CASE SelectReset
  BY <1>2 DEF SelectReset, Verdict
<1>3. CASE Check
  BY <1>3 DEF Check, CheckUpdate, Connect, Return, Failed, Verdict
<1>4. CASE Checking
  <2>1. CASE Callback
    BY <1>4, <2>1 DEF Callback, DnsFound, Connected, Receive, PeerCloses, ConnectionLost
  <2>2. CASE DnsEnds
    BY <2>2 DEF DnsEnds, Connect, Return, Failed, Verdict
  <2>3. CASE HttpEnds
    <3>1. reply' = reply /\ checking' = "idle"
      BY <2>3 DEF HttpEnds, Return
    <3>2. CASE ctx.closed /\ Usable /\ ctx.resp_len = Length(reply)
      <4>1. verdict' = Judged(reply, Length(reply))
        BY <2>3, <3>2 DEF HttpEnds, Return
      <4> QED
        BY <4>1, <3>1, WholeIsJudged DEF Verdict, Failed, Newer
    <3>3. CASE ctx.closed /\ Usable /\ ctx.resp_len # Length(reply)
      BY <2>3, <3>1, <3>3 DEF HttpEnds, Return
    <3>4. CASE ~(ctx.closed /\ Usable)
      BY <2>3, <3>1, <3>4 DEF HttpEnds, Return, Failed, Verdict
    <3> QED
      BY <3>2, <3>3, <3>4
  <2> QED
    BY <1>4, <2>1, <2>2, <2>3 DEF Checking, CheckEnds
<1> QED
  BY <1>1, <1>2, <1>3, <1>4
     DEF BootNext, WifiWait, NtpWait, Main, Start, WifiGivesUp, WifiTimeout, WifiReady, LinkChanges,
         NtpSend, NtpResolve, NtpRetry, HostFound, NtpAnswer, NtpEnds, Opening, Publish, MountEnds,
         Poll, FloppyMount, bootVars

\* No verdict is about half an answer, unless it was cut short
\* (sidetnfs_update_check_run, update_is_newer).
THEOREM VerdictCorrect == Replies # {} /\ BootSpec => []VerdictIsOfWholeAnswer
<1>1. ASSUME Replies # {}, BootInit
      PROVE  reply \in Replies /\ VerdictIsOfWholeAnswer
  BY <1>1 DEF BootInit, CheckInit, Verdict, VerdictIsOfWholeAnswer
<1>2. (reply \in Replies /\ VerdictIsOfWholeAnswer) /\ [BootNext]_bootVars
        => (reply \in Replies /\ VerdictIsOfWholeAnswer)'
  BY VerdictStep
<1>3. Replies # {} /\ BootInit => reply \in Replies /\ VerdictIsOfWholeAnswer
  BY <1>1
<1> QED
  BY <1>2, <1>3, PTL DEF BootSpec

----------------------------------------------------------------------------
(* Types                                                                   *)

\* BootTypeOK without the variables of UpdateCheck.
OwnTypeOK ==
    /\ at \in {"main", "start", "wifi", "ntp", "publish", "mount", "loop", "dead", "hung"}
    /\ down_polls \subseteq {"wait", "mount", "check", "loop", "floppy"}
    /\ {wanted, initialized, stack, joining, network_ok, mounted, resolving, onWire,
        clock, rtc_status} \subseteq BOOLEAN
    /\ link \in Links
    /\ attempt \in 0..Attempts
    /\ status \in {"busy", "failed", "ready"}
    /\ ntp \in [query_done : BOOLEAN, server_found : BOOLEAN, error : BOOLEAN, sent : BOOLEAN]
    /\ resets \in 0..MaxResets
    /\ events \in 0..MaxEvents

LEMMA VerdictTypes ==
  /\ \A s, v : Verdict(s, v).status = s /\ Verdict(s, v).version = v
  /\ <<>> \in Versions
  /\ Failed.status = "error" /\ Failed.version \in Versions
  BY DEF Verdict, Failed, Versions

LEMMA JudgedType ==
  ASSUME NEW r \in Replies, NEW n \in 0..Length(r)
  PROVE  /\ Judged(r, n).status \in {"error", "up_to_date", "available"}
         /\ Judged(r, n).version \in Versions
<1>1. r.head \in Nat /\ r.body \in Seq(Digits) /\ Len(r.body) \in Nat
  BY RepliesAssumption DEF Versions
<1>2. CASE n <= r.head
  BY <1>2, VerdictTypes DEF Judged
<1>3. CASE ~(n <= r.head)
  <2> DEFINE v == SubSeq(r.body, 1, n - r.head)
  <2>1. v \in Versions
    BY <1>1, <1>3 DEF Length, Versions
  <2>2. Judged(r, n) = Verdict(IF Newer(r, v) THEN "available" ELSE "up_to_date", v)
    BY <1>3 DEF Judged
  <2> HIDE DEF v
  <2> QED
    BY <2>1, <2>2, VerdictTypes
<1> QED
  BY <1>2, <1>3

\* The buffer holds no more than has arrived, and no more than there is.
ArrivedInv == ctx.resp_len <= arrived /\ arrived <= Length(reply)
TypeInv == OwnTypeOK /\ CheckTypeOK /\ ArrivedInv

LEMMA LengthIsNat ==
  ASSUME NEW r \in Replies
  PROVE  Length(r) \in Nat
  BY RepliesAssumption DEF Length, Versions

LEMMA EmptyIs == Empty \in Ctx /\ Empty.resp_len = 0
  BY SizesAssumption DEF Empty, Ctx

LEMMA TypeInit == Replies # {} /\ BootInit => TypeInv
<1> SUFFICES ASSUME Replies # {}, BootInit
             PROVE  TypeInv
  OBVIOUS
<1>1. reply \in Replies
  BY DEF BootInit, CheckInit
<1>2. OwnTypeOK
  <2>1. /\ attempt = 0 /\ resets = 0 /\ events = 0 /\ at = "main" /\ link = "down"
        /\ status = "busy" /\ ntp = Quiet /\ down_polls = {}
        /\ {wanted, initialized, stack, joining, network_ok, mounted, resolving, onWire,
            clock, rtc_status} \subseteq BOOLEAN
    BY DEF BootInit
  <2> QED
    BY <2>1, CountsAssumption DEF OwnTypeOK, Links, Quiet
<1>3. CheckTypeOK
  <2>1. /\ checking = "idle" /\ ctx = Empty /\ pcb = "none" /\ asked = 0 /\ arrived = 0
        /\ verdict.status = "none" /\ verdict.version = <<>> /\ cut = FALSE
    BY VerdictTypes DEF BootInit, CheckInit
  <2>2. <<>> \in Versions /\ 0 \in 0..MaxAsked
    BY VerdictTypes, SizesAssumption
  <2> QED
    BY <1>1, <2>1, <2>2, EmptyIs DEF CheckTypeOK
<1>4. ArrivedInv
  BY <1>1, LengthIsNat, EmptyIs DEF BootInit, CheckInit, ArrivedInv
<1> QED
  BY <1>2, <1>3, <1>4 DEF TypeInv

\* Before the main loop, and the network around it.
LEMMA OwnTypeStep ==
  ASSUME OwnTypeOK, [BootNext]_bootVars
  PROVE  OwnTypeOK'
<1> USE CountsAssumption DEF OwnTypeOK
<1>1. CASE Main
  BY <1>1 DEF Main, WifiInit, tellVars, ntpVars
<1>2. CASE Start
  <2>1. CASE wanted
    <3>1. at' = "wifi" /\ attempt' = 1 /\ link' = "down"
          /\ UNCHANGED <<wanted, tellVars, ntpVars, resets, events, down_polls>>
      BY <1>2, <2>1 DEF Start, InitWithSettings
    <3>2. {initialized', stack', joining'} \subseteq BOOLEAN
      BY <1>2, <2>1 DEF Start, InitWithSettings, WifiInit
    <3> QED
      BY <3>1, <3>2 DEF tellVars, ntpVars, Links
  <2>2. CASE ~wanted
    BY <1>2, <2>2 DEF Start, Offline, Terminate, Terminated, ntpVars, Links
  <2> QED
    BY <2>1, <2>2
<1>3. CASE WifiGivesUp
  BY <1>3 DEF WifiGivesUp, Offline, Terminate, Terminated, ntpVars, Links
<1>4. CASE WifiTimeout
  <2>1. attempt < Attempts /\ attempt' = attempt + 1 /\ link' = "down"
        /\ UNCHANGED <<at, wanted, tellVars, ntpVars, resets, events, down_polls>>
    BY <1>4 DEF WifiTimeout, InitWithSettings
  <2>2. {initialized', stack', joining'} \subseteq BOOLEAN
    BY <1>4 DEF WifiTimeout, InitWithSettings, WifiInit
  <2> QED
    BY <2>1, <2>2 DEF tellVars, ntpVars, Links
<1>5. CASE WifiReady
  BY <1>5 DEF WifiReady, wifiVars, tellVars
<1>6. CASE LinkChanges
  BY <1>6 DEF LinkChanges, tellVars, ntpVars
<1>7. CASE NtpSend \/ NtpResolve \/ NtpRetry \/ HostFound
  <2>1. /\ UNCHANGED <<at, wifiVars, tellVars, clock, resets, down_polls>>
        /\ events' = events \/ (events < MaxEvents /\ events' = events + 1)
    BY <1>7 DEF NtpSend, NtpResolve, NtpRetry, HostFound
  <2>3. resolving' \in BOOLEAN
    BY <1>7 DEF NtpSend, NtpResolve, NtpRetry, HostFound
  <2>4. onWire' \in BOOLEAN
    BY <1>7 DEF NtpSend, NtpResolve, NtpRetry, HostFound
  <2>2. ntp' \in [query_done : BOOLEAN, server_found : BOOLEAN, error : BOOLEAN, sent : BOOLEAN]
    BY <1>7 DEF NtpSend, NtpResolve, NtpRetry, HostFound
  <2> QED
    BY <2>1, <2>2, <2>3, <2>4 DEF wifiVars, tellVars
<1>8. CASE NtpAnswer
  BY <1>8 DEF NtpAnswer, wifiVars, tellVars
<1>9. CASE NtpEnds \/ Opening
  <2>1. /\ at' \in {"publish", "mount", "loop"} /\ status' \in {status, "ready"}
        /\ UNCHANGED <<wifiVars, ntpVars, resets, events, down_polls>>
    BY <1>9 DEF NtpEnds, Opening, Publish, MountEnds
  <2>2. network_ok' \in BOOLEAN /\ mounted' \in BOOLEAN /\ rtc_status' \in BOOLEAN
    BY <1>9 DEF NtpEnds, Opening, Publish, MountEnds
  <2> QED
    BY <2>1, <2>2 DEF wifiVars, ntpVars
<1>10. CASE SelectReset
  <2>1. /\ {wanted', initialized', stack', joining', network_ok', mounted', resolving', onWire',
            clock', rtc_status'} \subseteq BOOLEAN
        /\ at' = "main" /\ link' = "down" /\ attempt' = 0 /\ status' = "busy" /\ ntp' = Quiet
        /\ resets < MaxResets /\ resets' = resets + 1 /\ UNCHANGED <<events, down_polls>>
    BY <1>10 DEF SelectReset
  <2> QED
    BY <2>1 DEF Links
<1>11. CASE Check \/ Checking \/ UNCHANGED bootVars
  <2>1. /\ UNCHANGED <<at, wifiVars, tellVars, ntpVars, resets, down_polls>>
        /\ events' = events \/ (events < MaxEvents /\ events' = events + 1)
    BY <1>11 DEF Check, Checking, bootVars
  <2> QED
    BY <2>1 DEF wifiVars, tellVars, ntpVars
<1>12. CASE Poll \/ FloppyMount
  <2>1. /\ UNCHANGED <<wifiVars, tellVars, ntpVars, resets>>
        /\ events' = events \/ (events < MaxEvents /\ events' = events + 1)
    BY <1>12 DEF Poll, FloppyMount
  <2>2. at' \in {at, "hung"} /\ down_polls' \subseteq {"wait", "mount", "check", "loop", "floppy"}
    BY <1>12 DEF Poll, FloppyMount, PollsFrom
  <2> QED
    BY <2>1, <2>2 DEF wifiVars, tellVars, ntpVars
<1> QED
  BY <1>1, <1>2, <1>3, <1>4, <1>5, <1>6, <1>7, <1>8, <1>9, <1>10, <1>11, <1>12
     DEF BootNext, WifiWait, NtpWait

\* The update check.
LEMMA CheckTypeStep ==
  ASSUME CheckTypeOK, ArrivedInv, [BootNext]_bootVars
  PROVE  CheckTypeOK' /\ ArrivedInv'
<1> USE DEF CheckTypeOK, ArrivedInv
<1>1. /\ BufSize \in Nat /\ MaxAsked \in Nat /\ arrived \in Nat /\ ctx.resp_len \in 0..BufSize
      /\ Length(reply) \in Nat
  BY SizesAssumption, LengthIsNat DEF Ctx
<1>2. CASE UNCHANGED checkVars
  BY <1>2 DEF checkVars
<1>3. CASE SelectReset
  <2>1. /\ checking' = "idle" /\ ctx' = Empty /\ pcb' = "none" /\ asked' = 0 /\ arrived' = 0
        /\ verdict'.status = "none" /\ verdict'.version = <<>> /\ cut' = FALSE
        /\ reply' = reply
    BY <1>3, VerdictTypes DEF SelectReset
  <2>2. <<>> \in Versions /\ 0 \in 0..MaxAsked
    BY <1>1, VerdictTypes
  <2>3. Length(reply)' \in Nat /\ reply' \in Replies
    BY <1>1, <2>1
  <2>4. ctx' \in Ctx /\ ctx'.resp_len = 0
    BY <2>1, EmptyIs
  <2>5. verdict'.version \in Versions
    BY <2>1, <2>2, Zenon
  <2>6. ArrivedInv'
    BY <2>1, <2>3, <2>4
  <2>7. asked' \in 0..MaxAsked /\ arrived' \in Nat
    BY <2>1, <2>2
  <2> QED
    BY <2>1, <2>3, <2>4, <2>5, <2>6, <2>7
<1>4. CASE Check
  <2>1. /\ arrived' = 0 /\ reply' \in Replies
        /\ asked' = asked \/ (asked < MaxAsked /\ asked' = asked + 1)
    BY <1>4 DEF Check, CheckUpdate
  <2>4. asked' \in 0..MaxAsked
    BY <1>1, <2>1
  <2>5. ctx' = Empty \/ ctx' = [Empty EXCEPT !.dns_done = TRUE, !.dns_ok = TRUE]
    BY <1>4 DEF Check, CheckUpdate
  <2>3. ctx' \in Ctx /\ ctx'.resp_len = 0
    BY <1>1, <2>5, EmptyIs DEF Ctx
  <2>2. /\ checking' \in {"idle", "dns", "http"} /\ pcb' \in {"none", "alive", "dead"}
        /\ verdict' \in {verdict, Failed} /\ cut' \in BOOLEAN
    BY <1>4 DEF Check, CheckUpdate, Connect, Return
  <2> QED
    BY <2>1, <2>2, <2>3, <2>4, VerdictTypes, LengthIsNat
<1>5. CASE Callback
  <2>1. /\ UNCHANGED <<checking, reply, verdict, cut>> /\ pcb' \in {"none", "alive", "dead"}
        /\ asked' \in 0..MaxAsked
    BY <1>1, <1>5 DEF Callback, DnsFound, Connected, Receive, PeerCloses, ConnectionLost
  <2>2. CASE Receive
    <3>1. /\ arrived < Length(reply) /\ arrived' = arrived + 1
          /\ ctx' = [ctx EXCEPT !.resp_len = IF @ < BufSize - 1 THEN @ + 1 ELSE @]
      BY <2>2 DEF Receive
    <3>2. ctx' \in Ctx /\ ctx'.resp_len <= ctx.resp_len + 1
      BY <1>1, <3>1 DEF Ctx
    <3> QED
      BY <1>1, <2>1, <3>1, <3>2 DEF Ctx
  <2>3. CASE ~Receive
    <3>1. arrived' = arrived /\ ctx' \in Ctx /\ ctx'.resp_len = ctx.resp_len
      BY <1>5, <2>3 DEF Callback, DnsFound, Connected, PeerCloses, ConnectionLost, Ctx
    <3> QED
      BY <2>1, <3>1
  <2> QED
    BY <2>2, <2>3
<1>6. CASE DnsEnds
  BY <1>6, VerdictTypes DEF DnsEnds, Connect, Return
<1>7. CASE HttpEnds
  <2>1. ctx.resp_len \in 0..Length(reply)
    BY <1>1
  <2>2. /\ UNCHANGED <<ctx, asked, reply, arrived>> /\ checking' = "idle" /\ pcb' = "none"
        /\ verdict' \in {Judged(reply, ctx.resp_len), Failed} /\ cut' \in BOOLEAN
    BY <1>7 DEF HttpEnds, Return, Ctx
  <2> QED
    BY <2>1, <2>2, JudgedType, VerdictTypes
<1> QED
  BY <1>2, <1>3, <1>4, <1>5, <1>6, <1>7
     DEF BootNext, WifiWait, NtpWait, Main, Start, WifiGivesUp, WifiTimeout, WifiReady, LinkChanges,
         NtpSend, NtpResolve, NtpRetry, HostFound, NtpAnswer, NtpEnds, Opening, Publish, MountEnds,
         Poll, FloppyMount, bootVars, Checking, CheckEnds

\* The program is in one of its states, no counter passes its bound, and what
\* is published of a release is a version (init_gemdrvemul, update check).
THEOREM BootTypeCorrect == Replies # {} /\ BootSpec => []BootTypeOK
<1>1. TypeInv /\ [BootNext]_bootVars => TypeInv'
  BY OwnTypeStep, CheckTypeStep DEF TypeInv
<1>2. TypeInv => BootTypeOK
  BY DEF TypeInv, OwnTypeOK, BootTypeOK
<1> QED
  BY <1>1, <1>2, TypeInit, PTL DEF BootSpec

-----------------------------------------------------------------------------
(* The transport of commands                                               *)

\* No token is there before its transmission, and a word that is a token is
\* of that transmission.
Known(w) ==
    /\ w.of <= sent
    /\ \A n \in Transmissions : w.v = Token(n) => w.of = n

TokensInv ==
    /\ \A i \in 1..Len(line) : Known(line[i])
    /\ Known(command_id)
    /\ \A i \in 1..MaxWords : Known(payload[i])
    /\ \A n \in Transmissions : n > sent => random_token # Token(n) /\ shown # Token(n)

\* What is waited for is the latest; without a stray word or a pause since the
\* last silence nothing is left in the parser.
AskedInv ==
    /\ awaited.of # 0 => awaited.of = sent
    /\ awaited.of = 0 => line = <<>> /\ ~awaited.clean
    /\ line # <<>> => awaited.clean = ~dirty
    /\ line = <<>> /\ ~dirty => At = "header"

\* The next words: a token after two bytes a word, from the size on.
TokenNext(k) ==
    /\ Len(line) \in {k, k + 1}
    /\ line[k].v = Token(sent)

SizeNext(k) ==
    /\ TokenNext(k + 1)
    /\ line[k].v = 2 * (Len(line) - k)

\* A transmission that nothing disturbed, while it is under way.
LineInv ==
    line # <<>> /\ awaited.clean =>
        /\ \A i \in 1..Len(line) : line[i].of = sent
        /\ random_token # Token(sent)
        /\ shown # Token(sent)
        /\ At = "header" => SizeNext(3) /\ line[1].v = Header /\ line[2].v \in Commands
        /\ At = "command" => SizeNext(2) /\ line[1].v \in Commands
        /\ At \in {"size", "payload"} => command_id.of = sent /\ command_id.v \in Commands
        /\ At = "size" => SizeNext(1)
        /\ At = "payload" =>
               /\ payload_size = bytes_read + 2 * Len(line)
               /\ \/ bytes_read = 0 /\ TokenNext(1)
                  \/ /\ bytes_read = 2 /\ Len(line) = 1
                     /\ payload[1] = [v |-> Token(sent), of |-> sent]

LoopInv ==
    /\ pc # "loop" => active # None
    /\ pc = "answered" => shown = random_token

\* The same when it has been read.
ReadInv ==
    awaited.clean /\ line = <<>> =>
        /\ last = {sent}
        /\ dropped => random_token # Token(sent) /\ shown # Token(sent)
        /\ ~dropped =>
               /\ random_token = Token(sent)
               /\ job.of \cup From(payload, job.words) = {sent}
               /\ active # None \/ shown = Token(sent)
               /\ pc = "run" \/ shown = Token(sent) => used = {sent}

AnsweredInv == answer.of # 0 => answer.by = {answer.of}

TransportInv ==
    /\ TypeOK
    /\ TokensInv
    /\ AskedInv
    /\ LineInv
    /\ LoopInv
    /\ ReadInv
    /\ AnsweredInv

-----------------------------------------------------------------------------
(* The words of a transmission, and the buffer                              *)

LEMMA TokensDiffer == \A m, n \in Transmissions : Token(m) = Token(n) => m = n
  BY DEF Transmissions, Token

\* What is sent for one command.
IsTransmission(s, n) ==
    /\ s \in Seq(Words)
    /\ Len(s) \in {4, 5}
    /\ \A i \in 1..Len(s) : s[i].of = n
    /\ s[1].v = Header
    /\ s[2].v \in Commands
    /\ s[3].v = 2 * (Len(s) - 3)
    /\ s[4].v = Token(n)
    /\ Len(s) = 5 => s[5].v \in Params

LEMMA WordsOfOne ==
  ASSUME NEW n \in Transmissions, NEW v \in Values
  PROVE  [v |-> v, of |-> n] \in Words
BY DEF Words, Transmissions

LEMMA WithoutParam ==
  ASSUME NEW n \in Transmissions, NEW c \in Commands, NEW s,
         s = <<[v |-> Header, of |-> n], [v |-> c, of |-> n], [v |-> 2, of |-> n],
               [v |-> Token(n), of |-> n]>>
  PROVE  IsTransmission(s, n)
<1>1. Header \in Values /\ c \in Values /\ 2 \in Values /\ Token(n) \in Values
  BY DEF Values
<1>2. /\ [v |-> Header, of |-> n] \in Words
      /\ [v |-> c, of |-> n] \in Words
      /\ [v |-> 2, of |-> n] \in Words
      /\ [v |-> Token(n), of |-> n] \in Words
  BY <1>1, WordsOfOne
<1>3. s \in Seq(Words) /\ Len(s) = 4
  BY <1>2
<1> QED
  BY <1>3 DEF IsTransmission

LEMMA WithParam ==
  ASSUME NEW n \in Transmissions, NEW c \in Commands, NEW v \in Params, NEW s,
         s = <<[v |-> Header, of |-> n], [v |-> c, of |-> n], [v |-> 4, of |-> n],
               [v |-> Token(n), of |-> n], [v |-> v, of |-> n]>>
  PROVE  IsTransmission(s, n)
<1>1. Header \in Values /\ c \in Values /\ 4 \in Values /\ Token(n) \in Values /\ v \in Values
  BY DEF Values
<1>2. /\ [v |-> Header, of |-> n] \in Words
      /\ [v |-> c, of |-> n] \in Words
      /\ [v |-> 4, of |-> n] \in Words
      /\ [v |-> Token(n), of |-> n] \in Words
      /\ [v |-> v, of |-> n] \in Words
  BY <1>1, WordsOfOne
<1>3. s \in Seq(Words) /\ Len(s) = 5
  BY <1>2
<1> QED
  BY <1>3 DEF IsTransmission

LEMMA SequenceWords ==
  ASSUME NEW n \in Transmissions, NEW c \in Commands,
         NEW p \in {<<>>} \cup {<<v>> : v \in Params}
  PROVE  IsTransmission(Sequence(n, c, p), n)
<1>1. ASSUME p = <<>> PROVE IsTransmission(Sequence(n, c, p), n)
  <2>1. Sequence(n, c, <<>>) =
            <<[v |-> Header, of |-> n], [v |-> c, of |-> n], [v |-> 2, of |-> n],
              [v |-> Token(n), of |-> n]>>
    BY DEF Sequence
  <2>2. IsTransmission(Sequence(n, c, <<>>), n)
    BY <2>1, WithoutParam, Zenon
  <2> QED
    BY <1>1, <2>2, Zenon
<1>2. ASSUME NEW v \in Params, p = <<v>> PROVE IsTransmission(Sequence(n, c, p), n)
  <2>1. Sequence(n, c, <<v>>) =
            <<[v |-> Header, of |-> n], [v |-> c, of |-> n], [v |-> 4, of |-> n],
              [v |-> Token(n), of |-> n], [v |-> v, of |-> n]>>
    BY DEF Sequence
  <2>2. IsTransmission(Sequence(n, c, <<v>>), n)
    BY <2>1, WithParam, Zenon
  <2> QED
    BY <1>2, <2>2, Zenon
<1> QED
  BY <1>1, <1>2, Zenon

LEMMA RestOfLine ==
  ASSUME NEW s \in Seq(Words), s # <<>>
  PROVE  /\ Len(s) \in Nat \ {0}
         /\ Head(s) = s[1] /\ s[1] \in Words
         /\ Tail(s) \in Seq(Words)
         /\ Len(Tail(s)) = Len(s) - 1
         /\ \A i \in 1..(Len(s) - 1) : Tail(s)[i] = s[i + 1]
         /\ Tail(s) = <<>> <=> Len(s) = 1
<1>1. Len(s) \in Nat \ {0} /\ s[1] \in Words
  BY EmptySeq
<1>2. Tail(s) \in Seq(Words) /\ Len(Tail(s)) = Len(s) - 1
  BY HeadTailProperties
<1>3. \A i \in 1..(Len(s) - 1) : Tail(s)[i] = s[i + 1]
  BY <1>2
<1>4. Tail(s) = <<>> <=> Len(Tail(s)) = 0
  BY <1>2, EmptySeq
<1> QED
  BY <1>1, <1>2, <1>3, <1>4

LEMMA StoredWords ==
  ASSUME TypeOK, NEW w \in Words
  PROVE  /\ Stored(w) \in [1..MaxWords -> Words]
         /\ \A i \in 1..MaxWords : Stored(w)[i] \in {payload[i], w}
         /\ bytes_read = 0 => Stored(w)[1] = w
         /\ bytes_read = 2 => Stored(w)[1] = payload[1] /\ Stored(w)[2] = w
<1>1. bytes_read \div 2 \in Nat /\ MaxWords \in Nat /\ MaxWords > 1
  BY ConstantsAssumption DEF TypeOK
<1>2. payload \in [1..MaxWords -> Words]
  BY DEF TypeOK
<1> QED
  BY <1>1, <1>2 DEF Stored

LEMMA GrownTypes ==
  ASSUME bytes_read \in Nat
  PROVE  /\ Grown \in Nat
         /\ bytes_read \in {0, 2} => Grown = bytes_read + 2
<1>1. Limit \in Nat /\ Limit > 4
  BY ConstantsAssumption
<1>2. Grown \in Nat
  BY <1>1 DEF Grown
<1>3. bytes_read = 0 => Grown = 2
  BY <1>1 DEF Grown
<1>4. bytes_read = 2 => Grown = 4
  BY <1>1 DEF Grown
<1> QED
  BY <1>2, <1>3, <1>4

\* The words of at most n transmissions.
LEMMA FromWords ==
  ASSUME NEW b \in [1..MaxWords -> Words], NEW n \in Nat
  PROVE  From(b, n) \in SUBSET (0..MaxSent)
  BY ConstantsAssumption DEF From, Words

-----------------------------------------------------------------------------
(* The parser: types and tokens                                             *)

\* A command with b in the buffer has been handed over, or dropped.
ProcessedBy(b) ==
    /\ step' = "header" /\ expired' = TRUE
    /\ command_id' = NoWord /\ payload_size' = 0 /\ bytes_read' = 0
    /\ payload' = b
    /\ active' \in Values \cup {0, None}
    /\ random_token' \in {random_token, b[1].v}
    /\ random_token' \in Values \cup {0}
    /\ job' \in [of : SUBSET (0..MaxSent), words : Nat]
    /\ last' \in SUBSET (0..MaxSent)
    /\ dropped' \in BOOLEAN

LEMMA ProcessTypes ==
  ASSUME TypeOK, NEW b \in [1..MaxWords -> Words], NEW n \in Nat,
         Process(command_id, b, n)
  PROVE  ProcessedBy(b)
<1>1. command_id.of \in 0..MaxSent /\ command_id.v \in Values \cup {0}
  BY DEF TypeOK, Words
<1>2. b[1] \in Words /\ b[1].v \in Values \cup {0}
  BY ConstantsAssumption DEF Words
<1>3. last' \in SUBSET (0..MaxSent)
  BY <1>1, FromWords DEF Process, Handle
<1>4. [of |-> {command_id.of}, words |-> n] \in [of : SUBSET (0..MaxSent), words : Nat]
  BY <1>1
<1> QED
  BY <1>1, <1>2, <1>3, <1>4 DEF Process, Handle, TypeOK, ProcessedBy

ParserTypes ==
    /\ step \in Steps
    /\ command_id \in Words
    /\ payload_size \in Values \cup {0}
    /\ bytes_read \in Nat /\ (bytes_read = 0 \/ bytes_read < payload_size)
    /\ payload \in [1..MaxWords -> Words]
    /\ active \in Values \cup {0, None}
    /\ random_token \in Values \cup {0}
    /\ job \in [of : SUBSET (0..MaxSent), words : Nat]
    /\ last \in SUBSET (0..MaxSent)
    /\ dropped \in BOOLEAN
    /\ expired \in BOOLEAN
    /\ overrun \in BOOLEAN

LEMMA ValuesAreNumbers == Values \subseteq Nat
<1>1. \A n \in Transmissions : Token(n) \in Nat
  BY ConstantsAssumption DEF Transmissions, Token
<1>2. Header \in Nat /\ Commands \subseteq Nat /\ Params \subseteq Nat
  BY ConstantsAssumption
<1> SUFFICES ASSUME NEW v \in Values PROVE v \in Nat
  OBVIOUS
<1>3. CASE v \in {Token(n) : n \in Transmissions}
  BY <1>1, <1>3
<1>4. CASE v \in {Header} \cup Commands \cup Params \cup {2, 4}
  BY <1>2, <1>4
<1> QED
  BY <1>3, <1>4 DEF Values

LEMMA ParseTypes ==
  ASSUME TypeOK, NEW w \in Words, Parse(w)
  PROVE  ParserTypes'
<1> USE DEF ParserTypes, ProcessedBy
<1>10. overrun' \in BOOLEAN
  BY DEF Parse, TypeOK, Beyond
<1>0. /\ ParserTypes
      /\ w.v \in Values \cup {0} /\ w.v \in Nat
      /\ payload_size \in Nat
      /\ NoWord \in Words
  <2>1. ParserTypes
    BY DEF TypeOK
  <2>2. w.v \in Values \cup {0}
    BY DEF Words
  <2>3. NoWord \in Words
    BY ConstantsAssumption DEF NoWord, Words
  <2>4. \A v \in Values \cup {0} : v \in Nat
    BY ValuesAreNumbers
  <2> QED
    BY <2>1, <2>2, <2>3, <2>4
<1>1. CASE DetectHeader(w)
  BY <1>0, <1>1, <1>10 DEF DetectHeader, NoCommand, Steps
<1>2. CASE ReadCommand(w)
  BY <1>0, <1>2, <1>10 DEF ReadCommand, NoCommand, Steps
<1>3. CASE ReadPayloadSize(w)
  BY <1>0, <1>3, <1>10 DEF ReadPayloadSize, NoCommand, Steps
<1>4. CASE ReadNoPayload(w)
  <2>1. Process(command_id, payload, 0)
    BY <1>4 DEF ReadNoPayload
  <2>2. ProcessedBy(payload)
    BY <1>0, <2>1, ProcessTypes
  <2> QED
    BY <1>0, <1>10, <2>2 DEF Steps
<1>5. CASE ReadPayload(w)
  <2>1. Stored(w) \in [1..MaxWords -> Words]
    BY StoredWords
  <2>2. CASE Grown >= payload_size
    <3>1. Process(command_id, Stored(w), Grown \div 2)
      BY <1>5, <2>2 DEF ReadPayload
    <3>2. Grown \div 2 \in Nat
      BY <1>0, GrownTypes
    <3>3. ProcessedBy(Stored(w))
      BY <2>1, <3>1, <3>2, ProcessTypes
    <3> QED
      BY <1>0, <1>10, <2>1, <3>3 DEF Steps
  <2>3. CASE ~(Grown >= payload_size)
    <3>1. /\ payload' = Stored(w)
          /\ bytes_read' = Grown
          /\ UNCHANGED <<step, command_id, payload_size, expired>>
          /\ NoCommand
      BY <1>5, <2>3 DEF ReadPayload, ReadOn
    <3> QED
      BY <1>0, <1>10, <2>1, <2>3, <3>1, GrownTypes DEF NoCommand
  <2> QED
    BY <2>2, <2>3
<1> QED
  BY <1>1, <1>2, <1>3, <1>4, <1>5 DEF Parse

\* A token that is yet to be sent does not come out of the parser.
LEMMA ParseTokens ==
  ASSUME TypeOK, TokensInv, NEW w \in Words, Known(w), Parse(w), sent' = sent
  PROVE  /\ Known(command_id)'
         /\ \A i \in 1..MaxWords : Known(payload[i])'
         /\ \A n \in Transmissions : n > sent => random_token' # Token(n)
<1> DEFINE Fresh(v) == \A n \in Transmissions : n > sent => v # Token(n)
<1>0. /\ command_id \in Words /\ payload \in [1..MaxWords -> Words] /\ sent \in Nat
      /\ MaxWords \in Nat \ {0}
      /\ Known(command_id) /\ Fresh(random_token)
      /\ \A i \in 1..MaxWords : Known(payload[i])
  BY ConstantsAssumption DEF TypeOK, TokensInv
<1>1. Known(NoWord)
  BY <1>0 DEF Known, NoWord, Token, Transmissions
<1>2. \A x \in Words : Known(x) => Fresh(x.v)
  BY <1>0 DEF Known, Words, Transmissions
<1>3. \A x \in Words : Known(x) => Known(x)'
  BY DEF Known
<1>4. ASSUME NEW b \in [1..MaxWords -> Words], \A i \in 1..MaxWords : Known(b[i]),
             NEW n \in Nat, Process(command_id, b, n)
      PROVE  /\ Known(command_id)'
             /\ \A i \in 1..MaxWords : Known(payload[i])'
             /\ Fresh(random_token')
  <2>1. command_id' = NoWord /\ payload' = b /\ random_token' \in {random_token, b[1].v}
    BY <1>4, ProcessTypes DEF ProcessedBy
  <2>2. Fresh(b[1].v)
    BY <1>0, <1>2, <1>4
  <2>3. Known(command_id)'
    BY <1>1, <2>1 DEF Known
  <2>4. \A i \in 1..MaxWords : Known(payload[i])'
    BY <1>4, <2>1 DEF Known
  <2> QED
    BY <1>0, <2>1, <2>2, <2>3, <2>4
<1>5. CASE UNCHANGED <<payload, random_token>> /\ command_id' \in {command_id, w}
  BY <1>0, <1>5 DEF Known
<1>6. CASE ReadNoPayload(w)
  BY <1>0, <1>4, <1>6 DEF ReadNoPayload
<1>7. CASE ReadPayload(w)
  <2>1. /\ Stored(w) \in [1..MaxWords -> Words]
        /\ \A i \in 1..MaxWords : Known(Stored(w)[i])
    BY <1>0, StoredWords
  <2>2. CASE Grown >= payload_size
    <3>1. Process(command_id, Stored(w), Grown \div 2)
      BY <1>7, <2>2 DEF ReadPayload
    <3>2. Grown \div 2 \in Nat
      BY GrownTypes DEF TypeOK
    <3> QED
      BY <1>4, <2>1, <3>1, <3>2
  <2>3. CASE ~(Grown >= payload_size)
    <3>1. payload' = Stored(w) /\ UNCHANGED <<command_id, random_token>>
      BY <1>7, <2>3 DEF ReadPayload, ReadOn, NoCommand
    <3> QED
      BY <1>0, <2>1, <3>1 DEF Known
  <2> QED
    BY <2>2, <2>3
<1> QED
  BY <1>5, <1>6, <1>7
     DEF Parse, DetectHeader, ReadCommand, ReadPayloadSize, NoCommand

-----------------------------------------------------------------------------
(* A transmission that nothing disturbs, word by word                       *)

LEMMA CleanAwaited ==
  ASSUME TransportInv, awaited.clean
  PROVE  awaited.of = sent /\ sent \in Transmissions
BY DEF TransportInv, TypeOK, AskedInv, Transmissions

\* Its last word: taken unless a command is active, and whole.
LEMMA TakenWhole ==
  ASSUME TransportInv, awaited.clean, random_token # Token(sent), shown # Token(sent),
         NEW b, NEW n, Process(command_id, b, n),
         command_id.of = sent, command_id.v \in Commands,
         b[1].v = Token(sent), From(b, n) = {sent},
         UNCHANGED <<awaited, sent, shown, pc, used>>
  PROVE  ReadInv'
<1>1. awaited.clean = TRUE /\ pc \in {"loop", "run", "answered"}
  BY DEF TransportInv, TypeOK
<1>2. last' = {sent} /\ payload' = b
  BY DEF Process, Handle
<1>3. CASE active = None
  <2>1. /\ active' # None /\ random_token' = Token(sent) /\ dropped' = FALSE
        /\ job' = [of |-> {sent}, words |-> n]
    BY <1>3, ConstantsAssumption DEF Process, Handle, Values
  <2>2. job'.of \cup From(payload', job'.words) = {sent}
    BY <1>2, <2>1
  <2>3. pc = "loop"
    BY <1>1, <1>3 DEF TransportInv, LoopInv
  <2> QED
    BY <1>2, <2>1, <2>2, <2>3 DEF ReadInv, From
<1>4. CASE active # None
  BY <1>2, <1>4 DEF Process, Handle, ReadInv
<1> QED
  BY <1>3, <1>4

LEMMA NextWord ==
  ASSUME TransportInv, SendWord, awaited.clean
  PROVE  /\ LineInv'
         /\ ReadInv'
         /\ line' = <<>> => At' = "header"
<1> DEFINE w == Head(line)
<1>1. /\ line # <<>> /\ line' = Tail(line) /\ Parse(w)
      /\ UNCHANGED <<awaited, sent, faults, answer, shown, pc, used, dirty>>
  BY DEF SendWord
<1>2. line \in Seq(Words) /\ sent \in Nat /\ MaxWords \in Nat /\ MaxWords > 1 /\ bytes_read \in Nat
  BY ConstantsAssumption DEF TransportInv, TypeOK
<1>3. /\ Len(line) \in Nat \ {0}
      /\ w = line[1] /\ w \in Words
      /\ line' \in Seq(Words)
      /\ Len(line') = Len(line) - 1
      /\ \A i \in 1..(Len(line) - 1) : line'[i] = line[i + 1]
      /\ line' = <<>> <=> Len(line) = 1
  BY <1>1, <1>2, RestOfLine
<1>4. /\ \A i \in 1..Len(line) : line[i].of = sent
      /\ random_token # Token(sent)
      /\ shown # Token(sent)
  BY <1>1 DEF TransportInv, LineInv
<1>5. \A i \in 1..Len(line') : line'[i].of = sent
  BY <1>3, <1>4
<1>6. awaited'.clean /\ awaited' = awaited
  BY <1>1
<1> HIDE DEF w
<1>7. CASE At = "header"
  <2>1. SizeNext(3) /\ w.v = Header /\ line[2].v \in Commands
    BY <1>1, <1>3, <1>7 DEF TransportInv, LineInv
  <2>2. DetectHeader(w)
    BY <1>1, <1>7 DEF Parse, ReadCommand, ReadPayloadSize, ReadNoPayload, ReadPayload
  <2>3. At' = "command" /\ UNCHANGED random_token
    BY <2>1, <2>2 DEF DetectHeader, At, NoCommand
  <2>4. Len(line') \in {3, 4}
    BY <1>3, <2>1 DEF SizeNext, TokenNext
  <2>5. line'[1] = line[2] /\ line'[2] = line[3] /\ line'[3] = line[4]
    BY <1>3, <2>4
  <2>6. SizeNext(2)' /\ line'[1].v \in Commands
    BY <1>1, <1>3, <2>1, <2>4, <2>5 DEF SizeNext, TokenNext
  <2>7. line' # <<>>
    BY <1>3, <2>4
  <2> QED
    BY <1>1, <1>4, <1>5, <2>3, <2>6, <2>7 DEF LineInv, ReadInv
<1>8. CASE At = "command"
  <2>1. SizeNext(2) /\ w.v \in Commands
    BY <1>1, <1>3, <1>8 DEF TransportInv, LineInv
  <2>2. ReadCommand(w)
    BY <1>1, <1>8 DEF Parse, DetectHeader, ReadPayloadSize, ReadNoPayload, ReadPayload
  <2>3. At' = "size" /\ command_id' = w /\ UNCHANGED random_token
    BY <1>8, <2>2 DEF ReadCommand, At, NoCommand
  <2>4. Len(line') \in {2, 3}
    BY <1>3, <2>1 DEF SizeNext, TokenNext
  <2>5. line'[1] = line[2] /\ line'[2] = line[3]
    BY <1>3, <2>4
  <2>6. SizeNext(1)'
    BY <1>1, <1>3, <2>1, <2>4, <2>5 DEF SizeNext, TokenNext
  <2>7. line' # <<>> /\ w.of = sent
    BY <1>3, <1>4, <2>4
  <2> QED
    BY <1>1, <1>4, <1>5, <2>1, <2>3, <2>6, <2>7 DEF LineInv, ReadInv
<1>9. CASE At = "size"
  <2>1. SizeNext(1) /\ command_id.of = sent /\ command_id.v \in Commands
    BY <1>1, <1>9 DEF TransportInv, LineInv
  <2>2. Len(line) \in {2, 3} /\ w.v = 2 * (Len(line) - 1) /\ line[2].v = Token(sent)
    BY <1>3, <2>1 DEF SizeNext, TokenNext
  <2>3. ReadPayloadSize(w)
    BY <1>1, <1>9, <2>2 DEF Parse, DetectHeader, ReadCommand, ReadNoPayload, ReadPayload
  <2>4. /\ At' = "payload" /\ payload_size' = w.v /\ bytes_read' = 0
        /\ UNCHANGED <<command_id, random_token>>
    BY <1>9, <2>3 DEF ReadPayloadSize, At, NoCommand
  <2>5. Len(line') \in {1, 2} /\ line'[1] = line[2]
    BY <1>3, <2>2
  <2>6. TokenNext(1)' /\ payload_size' = bytes_read' + 2 * Len(line')
    BY <1>1, <1>3, <2>2, <2>4, <2>5 DEF TokenNext
  <2>7. line' # <<>>
    BY <1>3, <2>5
  <2> QED
    BY <1>1, <1>4, <1>5, <2>1, <2>4, <2>6, <2>7 DEF LineInv, ReadInv
<1>10. CASE At = "payload"
  <2>1. /\ command_id.of = sent /\ command_id.v \in Commands
        /\ payload_size = bytes_read + 2 * Len(line)
        /\ \/ bytes_read = 0 /\ TokenNext(1)
           \/ /\ bytes_read = 2 /\ Len(line) = 1
              /\ payload[1] = [v |-> Token(sent), of |-> sent]
    BY <1>1, <1>10 DEF TransportInv, LineInv
  <2>2. ReadPayload(w)
    BY <1>1, <1>10 DEF Parse, DetectHeader, ReadCommand, ReadPayloadSize, ReadNoPayload
  <2>3. /\ Stored(w) \in [1..MaxWords -> Words]
        /\ bytes_read = 0 => Stored(w)[1] = w
        /\ bytes_read = 2 => Stored(w)[1] = payload[1] /\ Stored(w)[2] = w
    BY <1>3, StoredWords DEF TransportInv
  <2>4. w.of = sent /\ (bytes_read = 0 => w.v = Token(sent))
    BY <1>3, <1>4, <2>1 DEF TokenNext
  <2>5. Stored(w)[1].v = Token(sent) /\ Stored(w)[1].of = sent
    BY <2>1, <2>3, <2>4
  <2>6. CASE Len(line) = 1
    <3>1. /\ bytes_read \in {0, 2} /\ Grown >= payload_size
          /\ Grown \div 2 = (IF bytes_read = 0 THEN 1 ELSE 2)
      BY <1>2, <2>1, <2>6, GrownTypes
    <3>2. Process(command_id, Stored(w), Grown \div 2)
      BY <2>2, <3>1 DEF ReadPayload
    <3>4. From(Stored(w), Grown \div 2) = {sent}
      <4>1. CASE bytes_read = 0
        <5>1. From(Stored(w), Grown \div 2) = {Stored(w)[i].of : i \in 1..1}
          BY <1>2, <3>1, <4>1 DEF From
        <5> QED
          BY <2>5, <5>1
      <4>2. CASE bytes_read = 2
        <5>1. From(Stored(w), Grown \div 2) = {Stored(w)[i].of : i \in 1..2}
          BY <1>2, <3>1, <4>2 DEF From
        <5> QED
          BY <2>3, <2>4, <2>5, <4>2, <5>1
      <4> QED
        BY <3>1, <4>1, <4>2
    <3>5. ReadInv'
      BY <1>1, <1>4, <2>1, <2>5, <3>2, <3>4, TakenWhole
    <3>6. At' = "header"
      BY <3>2 DEF Process, At
    <3> QED
      BY <1>3, <2>6, <3>5, <3>6 DEF LineInv
  <2>7. CASE Len(line) # 1
    <3>1. bytes_read = 0 /\ Len(line) = 2 /\ payload_size = 4
      BY <1>3, <2>1, <2>7 DEF TokenNext
    <3>2. /\ payload' = Stored(w) /\ bytes_read' = 2
          /\ UNCHANGED <<step, command_id, payload_size, expired, random_token>>
      BY <1>2, <2>2, <3>1, GrownTypes DEF ReadPayload, ReadOn, NoCommand
    <3>3. At' = "payload" /\ payload'[1] = [v |-> Token(sent), of |-> sent]
      <4>1. w = [v |-> w.v, of |-> w.of]
        BY <1>3 DEF Words
      <4> QED
        BY <1>10, <2>3, <2>4, <3>1, <3>2, <4>1 DEF At
    <3>4. Len(line') = 1 /\ line' # <<>>
      BY <1>3, <3>1
    <3>5. payload_size' = bytes_read' + 2 * Len(line')
      BY <3>1, <3>2, <3>4
    <3>6. /\ command_id'.of = sent' /\ command_id'.v \in Commands
          /\ random_token' # Token(sent') /\ shown' # Token(sent')
          /\ \A i \in 1..Len(line') : line'[i].of = sent'
          /\ bytes_read' = 2 /\ payload'[1] = [v |-> Token(sent'), of |-> sent']
      BY <1>1, <1>4, <1>5, <2>1, <3>2, <3>3
    <3> QED
      BY <3>3, <3>4, <3>5, <3>6 DEF LineInv, ReadInv
  <2> QED
    BY <2>6, <2>7
<1> QED
  BY <1>7, <1>8, <1>9, <1>10 DEF At, TransportInv, TypeOK, Steps

-----------------------------------------------------------------------------
(* Every step                                                               *)

LEMMA TransportInitInv == Init => TransportInv
<1> SUFFICES ASSUME Init PROVE TransportInv
  OBVIOUS
<1>1. NoWord \in Words
  BY ConstantsAssumption DEF NoWord, Words
<1>2. TypeOK
  <2>1. payload \in [1..MaxWords -> Words]
    BY <1>1 DEF Init
  <2>2. /\ job \in [of : SUBSET (0..MaxSent), words : Nat]
        /\ awaited \in [of : 0..MaxSent, clean : BOOLEAN]
        /\ answer.of \in 0..MaxSent /\ answer.by = {}
    BY ConstantsAssumption DEF Init, NoJob, Nothing, NoAnswer
  <2>3. line \in Seq(Words)
    BY DEF Init
  <2>4. {expired, dirty, dropped, overrun} \subseteq BOOLEAN
    BY DEF Init
  <2>5. {used, last, answer.by} \subseteq SUBSET (0..MaxSent)
    BY <2>2 DEF Init
  <2> QED
    BY <1>1, <2>1, <2>2, <2>3, <2>4, <2>5, ConstantsAssumption DEF TypeOK, Init, Steps
<1>3. TokensInv
  <2>1. Known(NoWord)
    BY DEF Init, Known, NoWord, Token, Transmissions
  <2> QED
    BY <2>1 DEF Init, TokensInv, Token, Transmissions
<1> QED
  BY <1>2, <1>3
     DEF Init, TransportInv, AskedInv, LineInv, LoopInv, ReadInv, AnsweredInv, At, Nothing,
         NoAnswer

\* A word of the line reaches the parser.
LEMMA SendWordInv == TransportInv /\ SendWord => TransportInv'
<1> SUFFICES ASSUME TransportInv, SendWord PROVE TransportInv'
  OBVIOUS
<1> DEFINE w == Head(line)
<1>1. /\ line # <<>> /\ line' = Tail(line) /\ Parse(w)
      /\ UNCHANGED <<awaited, sent, faults, answer, shown, pc, used, dirty>>
  BY DEF SendWord
<1>2. TypeOK /\ TokensInv /\ line \in Seq(Words)
  BY DEF TransportInv, TypeOK
<1>3. /\ Len(line) \in Nat \ {0}
      /\ w = line[1] /\ w \in Words
      /\ line' \in Seq(Words)
      /\ Len(line') = Len(line) - 1
      /\ \A i \in 1..(Len(line) - 1) : line'[i] = line[i + 1]
  BY <1>1, <1>2, RestOfLine
<1> HIDE DEF w
<1>4. TypeOK'
  BY <1>1, <1>2, <1>3, ParseTypes DEF ParserTypes, TypeOK
<1>5. TokensInv'
  <2>1. Known(w)
    BY <1>2, <1>3 DEF TokensInv
  <2>2. /\ Known(command_id)'
        /\ \A i \in 1..MaxWords : Known(payload[i])'
        /\ \A n \in Transmissions : n > sent => random_token' # Token(n)
    BY <1>1, <1>2, <1>3, <2>1, ParseTokens
  <2>3. \A i \in 1..Len(line') : Known(line'[i])
    BY <1>2, <1>3 DEF TokensInv
  <2>4. \A i \in 1..Len(line') : Known(line[i])'
    BY <1>1, <2>3 DEF Known
  <2>5. \A n \in Transmissions : n > sent => shown' # Token(n)
    BY <1>1, <1>2 DEF TokensInv
  <2> QED
    BY <1>1, <2>2, <2>4, <2>5 DEF TokensInv
<1>6. awaited.of # 0 /\ (awaited.clean = ~dirty)
  BY <1>1 DEF TransportInv, AskedInv
<1>7. LoopInv'
  <2>1. active # None => UNCHANGED <<active, random_token>>
    BY <1>1 DEF Parse, DetectHeader, ReadCommand, ReadPayloadSize, ReadNoPayload, ReadPayload, ReadOn,
                NoCommand, Process, Handle
  <2> QED
    BY <1>1, <2>1 DEF TransportInv, LoopInv
<1>8. CASE awaited.clean
  BY <1>1, <1>4, <1>5, <1>6, <1>7, <1>8, NextWord DEF TransportInv, AskedInv, AnsweredInv
<1>9. CASE ~awaited.clean
  <2>1. AskedInv'
    BY <1>1, <1>6, <1>9 DEF TransportInv, AskedInv
  <2>2. LineInv' /\ ReadInv' /\ AnsweredInv'
    BY <1>1, <1>9 DEF TransportInv, LineInv, ReadInv, AnsweredInv
  <2> QED
    BY <1>4, <1>5, <1>7, <2>1, <2>2 DEF TransportInv
<1> QED
  BY <1>8, <1>9

LEMMA OnlyClean ==
  ASSUME NEW a \in [of : 0..MaxSent, clean : BOOLEAN]
  PROVE  /\ [a EXCEPT !.clean = FALSE] \in [of : 0..MaxSent, clean : BOOLEAN]
         /\ [a EXCEPT !.clean = FALSE].of = a.of
         /\ [a EXCEPT !.clean = FALSE].clean = FALSE
OBVIOUS

\* A word that belongs to nothing reaches it.
LEMMA StrayReadInv == TransportInv /\ StrayRead => TransportInv'
<1> SUFFICES ASSUME TransportInv, StrayRead PROVE TransportInv'
  OBVIOUS
<1>0. PICK v \in {Header, 0} \cup Commands : Parse([v |-> v, of |-> 0])
  BY DEF StrayRead
<1> DEFINE w == [v |-> v, of |-> 0]
<1>1. /\ line = <<>> /\ faults < MaxFaults /\ faults' = faults + 1 /\ Parse(w)
      /\ dirty' = TRUE /\ awaited' = [awaited EXCEPT !.clean = FALSE]
      /\ UNCHANGED <<line, sent, answer, shown, pc, used>>
  BY <1>0 DEF StrayRead, Fault
<1>2. TypeOK /\ TokensInv
  BY DEF TransportInv
<1>3. w \in Words /\ Known(w)
  <2>1. \A n \in Transmissions : v # Token(n)
    BY ConstantsAssumption DEF Token, Transmissions
  <2>2. w \in Words
    BY ConstantsAssumption DEF Words, Values
  <2> QED
    BY <1>2, <2>1, <2>2 DEF Known, TypeOK
<1> HIDE DEF w
<1>4. /\ awaited' \in [of : 0..MaxSent, clean : BOOLEAN]
      /\ awaited'.of = awaited.of /\ awaited'.clean = FALSE
  <2>1. awaited \in [of : 0..MaxSent, clean : BOOLEAN]
    BY <1>2 DEF TypeOK
  <2>2. awaited' = [awaited EXCEPT !.clean = FALSE]
    BY <1>1, <2>1
  <2> QED
    BY <2>1, <2>2, OnlyClean
<1>5. TypeOK'
  <2>1. ParserTypes'
    BY <1>1, <1>2, <1>3, ParseTypes
  <2>2. faults' \in 0..MaxFaults /\ dirty' \in BOOLEAN
    BY <1>1, <1>2, ConstantsAssumption DEF TypeOK
  <2> QED
    BY <1>1, <1>2, <1>4, <2>1, <2>2 DEF ParserTypes, TypeOK
<1>6. TokensInv'
  <2>1. /\ Known(command_id)'
        /\ \A i \in 1..MaxWords : Known(payload[i])'
        /\ \A n \in Transmissions : n > sent => random_token' # Token(n)
    BY <1>1, <1>2, <1>3, ParseTokens
  <2> QED
    BY <1>1, <1>2, <2>1 DEF TokensInv
<1>7. LoopInv'
  <2>1. active # None => UNCHANGED <<active, random_token>>
    BY <1>1 DEF Parse, DetectHeader, ReadCommand, ReadPayloadSize, ReadNoPayload, ReadPayload, ReadOn,
                NoCommand, Process, Handle
  <2> QED
    BY <1>1, <2>1 DEF TransportInv, LoopInv
<1>8. AskedInv' /\ LineInv' /\ ReadInv' /\ AnsweredInv'
  BY <1>1, <1>4 DEF TransportInv, AskedInv, LineInv, ReadInv, AnsweredInv
<1> QED
  BY <1>5, <1>6, <1>7, <1>8 DEF TransportInv

\* The main loop takes the active command, answers it and is free again.
LEMMA LoopStepInv == TransportInv /\ (Run \/ Answer \/ Finish) => TransportInv'
<1> SUFFICES ASSUME TransportInv, Run \/ Answer \/ Finish PROVE TransportInv'
  OBVIOUS
<1>1. UNCHANGED <<parserVars, atariVars, random_token, job, dirty, last, dropped, overrun>>
  BY DEF Run, Answer, Finish
<1>2. /\ job.words \in Nat /\ job.of \in SUBSET (0..MaxSent) /\ payload \in [1..MaxWords -> Words]
      /\ used \in SUBSET (0..MaxSent)
  BY DEF TransportInv, TypeOK
<1>3. job.of \cup From(payload, job.words) \in SUBSET (0..MaxSent)
  BY <1>2, FromWords
<1>4. /\ active' \in {active, None} /\ shown' \in {shown, random_token}
      /\ pc' \in {"loop", "run", "answered"} /\ used' \in SUBSET (0..MaxSent)
  BY <1>2, <1>3 DEF Run, Answer, Finish
<1>5. TypeOK'
  BY <1>1, <1>4 DEF TransportInv, TypeOK, parserVars, atariVars
<1>6. TokensInv' /\ AskedInv' /\ AnsweredInv'
  BY <1>1, <1>4 DEF TransportInv, TokensInv, AskedInv, AnsweredInv, Known, At, parserVars, atariVars
<1>7. LineInv'
  BY <1>1, <1>4 DEF TransportInv, LineInv, SizeNext, TokenNext, At, parserVars, atariVars
<1>8. LoopInv' /\ ReadInv'
  <2>1. From(payload, job.words)' = From(payload, job.words)
    BY <1>1 DEF From, parserVars
  <2> HIDE DEF From
  <2>2. CASE Run
    BY <1>1, <2>1, <2>2 DEF Run, TransportInv, LoopInv, ReadInv, parserVars, atariVars
  <2>3. CASE Answer
    BY <1>1, <2>1, <2>3 DEF Answer, TransportInv, LoopInv, ReadInv, parserVars, atariVars
  <2>4. CASE Finish
    BY <1>1, <2>1, <2>4 DEF Finish, TransportInv, LoopInv, ReadInv, parserVars, atariVars
  <2> QED
    BY <2>2, <2>3, <2>4
<1> QED
  BY <1>5, <1>6, <1>7, <1>8 DEF TransportInv

\* Time passes, between transmissions or within one; a reset ends one.
LEMMA TimeInv == TransportInv /\ (Silence \/ Pause \/ Reset) => TransportInv'
<1> SUFFICES ASSUME TransportInv, Silence \/ Pause \/ Reset PROVE TransportInv'
  OBVIOUS
<1>1. /\ UNCHANGED <<step, command_id, payload_size, bytes_read, payload, picoVars, sent,
                     answer, last, dropped, overrun>>
      /\ expired' = TRUE
  BY DEF Silence, Pause, Reset, atariVars
<1>2. TypeOK' /\ LoopInv' /\ AnsweredInv'
  <2>1. /\ line \in Seq(Words) /\ awaited \in [of : 0..MaxSent, clean : BOOLEAN]
        /\ faults \in 0..MaxFaults
    BY DEF TransportInv, TypeOK
  <2>2. /\ line' = line \/ line' = <<>>
        /\ awaited' \in {awaited, Nothing, [awaited EXCEPT !.clean = FALSE]}
    BY DEF Silence, Pause, Reset, atariVars
  <2>3. line' \in Seq(Words) /\ awaited' \in [of : 0..MaxSent, clean : BOOLEAN]
    <3>1. Nothing \in [of : 0..MaxSent, clean : BOOLEAN]
      BY ConstantsAssumption DEF Nothing
    <3>2. [awaited EXCEPT !.clean = FALSE] \in [of : 0..MaxSent, clean : BOOLEAN]
      BY <2>1, OnlyClean
    <3>3. line' \in Seq(Words)
      BY <2>1, <2>2, EmptySeq
    <3> QED
      BY <2>1, <2>2, <3>1, <3>2, <3>3
  <2>4. faults' \in 0..MaxFaults
    BY <2>1, ConstantsAssumption DEF Silence, Pause, Reset, Fault, atariVars
  <2>5. dirty' \in BOOLEAN
    BY DEF Silence, Pause, Reset
  <2> QED
    BY <1>1, <2>3, <2>4, <2>5 DEF TransportInv, TypeOK, LoopInv, AnsweredInv, picoVars
<1>3. TokensInv'
  <2>1. line' \in {line, <<>>}
    BY DEF Silence, Pause, Reset, atariVars
  <2> QED
    BY <1>1, <2>1 DEF TransportInv, TokensInv, Known, picoVars
<1>4. CASE Silence
  <2>1. UNCHANGED <<line, awaited>> /\ line = <<>> /\ dirty' = FALSE
    BY <1>4 DEF Silence, atariVars
  <2>2. ReadInv'
    BY <1>1, <2>1 DEF TransportInv, ReadInv, picoVars, From
  <2>3. AskedInv' /\ LineInv'
    BY <1>1, <2>1 DEF TransportInv, AskedInv, LineInv, At
  <2> QED
    BY <1>2, <1>3, <2>2, <2>3 DEF TransportInv
<1>5. CASE Pause
  <2>1. /\ line # <<>> /\ line' = line /\ dirty' = TRUE
        /\ awaited'.clean = FALSE /\ awaited'.of = awaited.of
    BY <1>5 DEF Pause, TransportInv, TypeOK
  <2>2. AskedInv' /\ LineInv' /\ ReadInv'
    <3>1. awaited.of # 0 /\ awaited.of = sent
      BY <2>1 DEF TransportInv, AskedInv
    <3> QED
      BY <1>1, <2>1, <3>1 DEF AskedInv, LineInv, ReadInv
  <2> QED
    BY <1>2, <1>3, <2>2 DEF TransportInv
<1>6. CASE Reset
  BY <1>1, <1>2, <1>3, <1>6 DEF Reset, TransportInv, AskedInv, LineInv, ReadInv, Nothing, At
<1> QED
  BY <1>4, <1>5, <1>6

\* The Atari begins to send the next transmission.
LEMMA AskedLine == Ask /\ sent' \in Transmissions => IsTransmission(line', sent')
  BY SequenceWords DEF Ask

LEMMA AskInv == TransportInv /\ Ask => TransportInv'
<1> SUFFICES ASSUME TransportInv, Ask PROVE TransportInv'
  OBVIOUS
<1>2. /\ line = <<>> /\ awaited = Nothing
      /\ sent < MaxSent /\ sent' = sent + 1
      /\ awaited' = [of |-> sent', clean |-> ~dirty]
      /\ UNCHANGED <<faults, answer, parserVars, picoVars, dirty, last, dropped, overrun>>
  BY DEF Ask
<1>3. sent \in Nat /\ sent' \in Nat /\ MaxSent \in Nat /\ sent' \in Transmissions /\ dirty \in BOOLEAN
  BY <1>2, ConstantsAssumption DEF TransportInv, TypeOK, Transmissions
<1>4. /\ line' \in Seq(Words)
      /\ Len(line') \in {4, 5}
      /\ \A i \in 1..Len(line') : line'[i].of = sent'
      /\ line'[1].v = Header /\ line'[2].v \in Commands
      /\ line'[3].v = 2 * (Len(line') - 3) /\ line'[4].v = Token(sent')
      /\ Len(line') = 5 => line'[5].v \in Params
  BY <1>3, AskedLine DEF IsTransmission
<1>5. line' # <<>>
  BY <1>4
<1>6. TypeOK'
  <2>1. sent' \in 0..MaxSent /\ awaited' \in [of : 0..MaxSent, clean : BOOLEAN]
    BY <1>2, <1>3 DEF Transmissions
  <2>2. TypeOK /\ line' \in Seq(Words)
    BY <1>4 DEF TransportInv
  <2> QED
    BY <1>2, <2>1, <2>2 DEF TypeOK, parserVars, picoVars
<1>7. TokensInv'
  <2>1. \A i \in 1..Len(line') : Known(line[i])'
    <3> SUFFICES ASSUME NEW i \in 1..Len(line') PROVE Known(line[i])'
      OBVIOUS
    <3>1. \A v \in {Header, 2, 4} \cup Commands \cup Params, m \in Transmissions : v # Token(m)
      <4>1. \A m \in Transmissions : Token(m) # 2 /\ Token(m) # 4
        BY ConstantsAssumption DEF Token, Transmissions
      <4>2. \A m \in Transmissions : Token(m) \notin {Header} \cup Commands \cup Params
        BY ConstantsAssumption
      <4> QED
        BY <4>1, <4>2
    <3>2. i \in {1, 2, 3, 4, 5} /\ (i = 5 => Len(line') = 5)
      BY <1>4
    <3>3. line'[i].of = sent'
      BY <1>4
    <3>4. CASE i = 4
      <4>1. line'[i].v = Token(sent')
        BY <1>4, <3>4
      <4>2. \A m \in Transmissions : Token(sent') = Token(m) => sent' = m
        BY <1>3, TokensDiffer
      <4> QED
        BY <1>3, <3>3, <4>1, <4>2 DEF Known
    <3>5. CASE i # 4
      <4>1. line'[i].v \in {Header, 2, 4} \cup Commands \cup Params
        BY <1>4, <3>2, <3>5
      <4> QED
        <5>1. \A m \in Transmissions : line'[i].v # Token(m)
          BY <3>1, <4>1, Zenon
        <5> QED
          BY <1>3, <3>3, <5>1 DEF Known
    <3> QED
      BY <3>4, <3>5
  <2>2. \A x \in Words : Known(x) => Known(x)'
    BY <1>2, <1>3 DEF Known, Words
  <2>3. Known(command_id)' /\ \A i \in 1..MaxWords : Known(payload[i])'
    BY <1>2, <1>3 DEF TransportInv, TypeOK, TokensInv, Known, Words, parserVars
  <2>4. \A n \in Transmissions : n > sent' => random_token' # Token(n) /\ shown' # Token(n)
    BY <1>2, <1>3 DEF TransportInv, TokensInv, picoVars, Transmissions
  <2> QED
    BY <2>1, <2>3, <2>4 DEF TokensInv
<1>8. AskedInv'
  BY <1>2, <1>3, <1>5 DEF AskedInv, Nothing, Transmissions
<1>9. LineInv'
  <2> SUFFICES ASSUME awaited'.clean PROVE LineInv'
    BY DEF LineInv
  <2>1. At' = "header"
    BY <1>2 DEF TransportInv, AskedInv, At, parserVars
  <2>2. random_token' # Token(sent') /\ shown' # Token(sent')
    BY <1>2, <1>3 DEF TransportInv, TokensInv, picoVars
  <2>4. SizeNext(3)' /\ line'[1].v = Header /\ line'[2].v \in Commands
    BY <1>4 DEF SizeNext, TokenNext
  <2> QED
    BY <1>4, <2>1, <2>2, <2>4 DEF LineInv
<1>10. LoopInv' /\ ReadInv' /\ AnsweredInv'
  BY <1>2, <1>5 DEF TransportInv, LoopInv, ReadInv, AnsweredInv, picoVars
<1> QED
  BY <1>6, <1>7, <1>8, <1>9, <1>10 DEF TransportInv

\* It sees its token, or no longer waits for it.
LEMMA EndOfWaitInv == TransportInv /\ (SeeToken \/ GiveUp) => TransportInv'
<1> SUFFICES ASSUME TransportInv, SeeToken \/ GiveUp PROVE TransportInv'
  OBVIOUS
<1>1. /\ line = <<>> /\ awaited' = Nothing
      /\ UNCHANGED <<line, sent, parserVars, picoVars, dirty, last, dropped, overrun>>
  BY DEF SeeToken, GiveUp
<1>2. /\ faults' \in 0..MaxFaults
      /\ answer'.of \in 0..MaxSent /\ answer'.by \in SUBSET (0..MaxSent)
  <2>1. /\ awaited.of \in 0..MaxSent /\ used \in SUBSET (0..MaxSent)
        /\ answer.of \in 0..MaxSent /\ answer.by \in SUBSET (0..MaxSent)
        /\ faults \in 0..MaxFaults /\ MaxFaults \in Nat /\ MaxSent \in Nat
    BY ConstantsAssumption DEF TransportInv, TypeOK
  <2>2. CASE SeeToken
    BY <2>1, <2>2 DEF SeeToken
  <2>3. CASE GiveUp
    BY <2>1, <2>3 DEF GiveUp, Fault
  <2> QED
    BY <2>2, <2>3
<1>3. TypeOK'
  BY <1>1, <1>2, ConstantsAssumption DEF TransportInv, TypeOK, parserVars, picoVars, Nothing
<1>4. TokensInv' /\ AskedInv' /\ LineInv' /\ LoopInv' /\ ReadInv'
  BY <1>1 DEF TransportInv, TokensInv, AskedInv, LineInv, LoopInv, ReadInv, Known, At, Nothing,
              parserVars, picoVars
<1>5. AnsweredInv'
  <2>1. CASE SeeToken /\ awaited.clean
    <3>1. awaited.of = sent /\ shown = Token(sent)
      BY <2>1, CleanAwaited DEF SeeToken
    <3>2. used = {sent}
      BY <1>1, <2>1, <3>1 DEF TransportInv, ReadInv, TypeOK
    <3> QED
      BY <2>1, <3>1, <3>2 DEF SeeToken, AnsweredInv
  <2>2. CASE SeeToken /\ ~awaited.clean
    BY <2>2 DEF SeeToken, AnsweredInv
  <2>3. CASE GiveUp
    BY <2>3 DEF GiveUp, TransportInv, AnsweredInv
  <2> QED
    BY <2>1, <2>2, <2>3
<1> QED
  BY <1>3, <1>4, <1>5 DEF TransportInv

LEMMA TransportStepInv == TransportInv /\ [Next]_vars => TransportInv'
<1> SUFFICES ASSUME TransportInv, [Next]_vars PROVE TransportInv'
  OBVIOUS
<1>1. CASE UNCHANGED vars
  <2>1. TypeOK'
    BY <1>1 DEF vars, parserVars, picoVars, atariVars, TransportInv, TypeOK
  <2>2. TokensInv' /\ AskedInv'
    BY <1>1 DEF vars, parserVars, picoVars, atariVars, TransportInv, TokensInv, AskedInv, Known, At
  <2>3. LineInv'
    BY <1>1 DEF vars, parserVars, picoVars, atariVars, TransportInv, LineInv, At, SizeNext, TokenNext
  <2>4. LoopInv' /\ ReadInv' /\ AnsweredInv'
    BY <1>1 DEF vars, parserVars, picoVars, atariVars, TransportInv, LoopInv, ReadInv, From,
                AnsweredInv
  <2> QED
    BY <2>1, <2>2, <2>3, <2>4 DEF TransportInv
<1> QED
  BY <1>1, SendWordInv, StrayReadInv, LoopStepInv, TimeInv, AskInv, EndOfWaitInv DEF Next

THEOREM TransportInvariant == Spec => []TransportInv
  BY TransportInitInv, TransportStepInv, PTL DEF Spec

\* Type correctness, of the 16-bit counters too.  It says nothing of the bounds
\* of the buffer, which the parser does not look at.
THEOREM TransportTypeCorrect == Spec => []TypeOK
  BY TransportInvariant, PTL DEF TransportInv

\* A transmission that begins after a silence is shorter than the buffer; a word
\* goes beyond it only among stray words or after a pause (tprotocol.c:49-52, 111).
THEOREM OverrunCorrect == Spec => OverrunIsADisturbance
<1>1. TransportInv /\ [Next]_vars => [~overrun /\ overrun' => dirty]_vars
  <2> SUFFICES ASSUME TransportInv, Next, ~overrun, overrun', ~dirty PROVE FALSE
    BY DEF vars, TransportInv, TypeOK
  <2>1. SendWord \/ StrayRead
    BY DEF Next, Silence, Pause, Run, Answer, Finish, Ask, SeeToken, GiveUp, Reset
  <2>2. Beyond
    BY <2>1 DEF SendWord, StrayRead, Parse
  <2>3. At = "payload" /\ bytes_read \div 2 >= MaxWords
    BY <2>2 DEF Beyond
  <2>4. line # <<>> /\ awaited.clean
    BY <2>3 DEF TransportInv, AskedInv
  <2>5. bytes_read \in {0, 2}
    BY <2>3, <2>4 DEF TransportInv, LineInv
  <2> QED
    BY <2>3, <2>5, ConstantsAssumption
<1> QED
  BY <1>1, TransportInvariant, PTL DEF Spec, OverrunIsADisturbance

\* The token that ends an undisturbed wait is written by a handler that has
\* read the words of that transmission and no others (write_random_token).
THEOREM AnswerCorrect == Spec => []AnswerIsOfTheCommand
<1>1. TransportInv => AnswerIsOfTheCommand
  BY DEF TransportInv, AnsweredInv, AnswerIsOfTheCommand
<1> QED
  BY <1>1, TransportInvariant, PTL

\* What was sent undisturbed is parsed whole, and answered unless a command
\* was active (tprotocol.c, handle_protocol_command).
THEOREM NothingLostCorrect == Spec => []NothingIsLost
<1>1. TransportInv => NothingIsLost
  <2> SUFFICES ASSUME TransportInv, awaited.clean, line = <<>>
               PROVE  NothingIsLost
    BY DEF NothingIsLost
  <2>1. awaited.of = sent
    BY CleanAwaited
  <2> QED
    BY <2>1 DEF TransportInv, ReadInv, NothingIsLost, TypeOK
<1> QED
  BY <1>1, TransportInvariant, PTL

\* An undisturbed transmission arrives, and none takes the parser beyond its
\* buffer (parse_protocol).
THEOREM ArriveCorrect == Spec => TransmissionsArrive
<1>1. NothingIsLost' /\ [~overrun /\ overrun' => dirty]_vars
        => [NothingIsLost' /\ (~overrun /\ overrun' => dirty)]_vars
  OBVIOUS
<1> QED
  BY <1>1, NothingLostCorrect, OverrunCorrect, PTL DEF OverrunIsADisturbance, TransmissionsArrive
===============================================================================
