-------------------------------- MODULE Boot ---------------------------------
(***************************************************************************)
(* From power-on to the main loop: main, the WiFi and NTP waits of         *)
(* init_gemdrvemul in src/romemul/gemdrvemul.c, network.c and rtcemul.c,   *)
(* then the commands of the main loop that poll lwIP with a session or     *)
(* without: the update check (module UpdateCheck) and the mounts of the    *)
(* floppy.                                                                 *)
(*                                                                         *)
(* The callbacks of lwIP run when it is polled: in the waits, in mounting  *)
(* the drives and in the main loop.  The driver, the link, DNS and the NTP *)
(* server are external: each of their calls may fail.  Deadlines may pass  *)
(* at any time.                                                            *)
(***************************************************************************)
EXTENDS UpdateCheck

CONSTANTS
    Attempts,  \* SIDETNFS_WIFI_MAX_CONNECT_ATTEMPTS
    MaxResets, \* presses of SELECT (bound of the model)
    MaxEvents  \* queries of the NTP server's name, update checks and mounts of the floppy
               \* (bound of the model)

ASSUME CountsAssumption ==
    /\ Attempts \in Nat \ {0}
    /\ MaxResets \in Nat
    /\ MaxEvents \in Nat

VARIABLES
    at,          \* where the program is
    wanted,      \* gemdrive_rtc_enabled and an SSID
    initialized, \* cyw43_initialized
    stack,       \* the driver and lwIP are set up (external)
    joining,     \* the SSID has been asked for (external)
    link,        \* cyw43_tcpip_link_status (external)
    attempt,
    network_ok,  \* sidetnfs_network_ok
    status,      \* GEMDRVEMUL_NETWORK_STATUS
    mounted,     \* sidetnfs_probe_mount_runtime_slots has run
    ntp,         \* the flags of the NTP wait
    resolving,   \* the callback of its DNS query is still to come (external)
    onWire,      \* its datagram, or the answer, is under way (external)
    clock,       \* rtc_time has a year
    rtc_status,  \* GEMDRVEMUL_RTC_STATUS
    down_polls,  \* history: where lwIP was polled while the driver was down
    resets,
    events

wifiVars == <<wanted, initialized, stack, joining, link, attempt>>
tellVars == <<network_ok, status, mounted, rtc_status>>
ntpVars == <<ntp, resolving, onWire, clock>>
bootVars == <<at, wifiVars, tellVars, ntpVars, checkVars, resets, events, down_polls>>

Links == {"down", "joined", "up", "failed"}
Quiet == [query_done |-> FALSE, server_found |-> FALSE, error |-> FALSE, sent |-> FALSE]

BootTypeOK ==
    /\ CheckTypeOK
    /\ at \in {"main", "start", "wifi", "ntp", "publish", "mount", "loop", "dead", "hung"}
    /\ down_polls \subseteq {"wait", "mount", "check", "loop", "floppy"}
    /\ {wanted, initialized, stack, joining, network_ok, mounted, resolving, onWire,
        clock, rtc_status} \subseteq BOOLEAN
    /\ link \in Links
    /\ attempt \in 0..Attempts
    /\ status \in {"busy", "failed", "ready"}
    /\ ntp \in [query_done : BOOLEAN, server_found : BOOLEAN, error : BOOLEAN, sent : BOOLEAN]
    /\ resets \in 0..MaxResets
    /\ events \in 0..MaxEvents

BootInit ==
    /\ at = "main"
    /\ initialized = FALSE
    /\ stack = FALSE
    /\ joining = FALSE
    /\ link = "down"
    /\ attempt = 0
    /\ network_ok = FALSE
    /\ status = "busy"
    /\ mounted = FALSE
    /\ ntp = Quiet
    /\ resolving = FALSE
    /\ onWire = FALSE
    /\ clock = FALSE
    /\ rtc_status = FALSE
    /\ CheckInit
    /\ wanted \in BOOLEAN
    /\ down_polls = {}
    /\ resets = 0
    /\ events = 0

-----------------------------------------------------------------------------
(* network.c *)

\* network_wifi_init_with_country_code: the flag is set, and cleared again
\* when the driver does not start.
WifiInit(works) ==
    /\ initialized' = works
    /\ stack' = works

\* Mutant: the driver is taken down and the flag stays.
TerminatedDriverOnly == initialized

\* network_terminate: the flag, and the driver.
Terminated == FALSE

Terminate ==
    /\ initialized' = Terminated
    /\ stack' = FALSE
    /\ joining' = FALSE
    /\ link' = "down"

(***************************************************************************)
(* network_init_with_settings after the flag (flag) and the driver (up):   *)
(* with the flag set the driver is not started; the result is not looked   *)
(* at.  Without its MAC address the driver is taken down again; without a  *)
(* driver there is none.                                                   *)
(***************************************************************************)
InitWithSettings(flag, up) ==
    /\ \E works \in IF flag THEN {up} ELSE BOOLEAN, mac, join \in BOOLEAN :
           /\ initialized' = ((flag \/ works) /\ mac)
           /\ stack' = (works /\ mac)
           /\ joining' = (works /\ mac /\ join)
    /\ link' = "down"

\* The link comes and goes; an SSID nobody asked for is not joined.
LinkChanges ==
    /\ stack
    /\ joining
    /\ link' \in Links \ {link}
    /\ UNCHANGED <<at, wanted, initialized, stack, joining, attempt, tellVars, ntpVars,
                   checkVars, resets, events, down_polls>>

-----------------------------------------------------------------------------
(* main, and the network part of init_gemdrvemul *)

\* The one initialisation of the driver; main returns when it fails.
Main ==
    /\ at = "main"
    /\ \E works \in BOOLEAN :
           /\ WifiInit(works)
           /\ at' = IF works THEN "start" ELSE "dead"
    /\ UNCHANGED <<wanted, joining, link, attempt, tellVars, ntpVars, checkVars, resets, events, down_polls>>

Offline ==
    /\ Terminate
    /\ status' = "failed"
    /\ at' = "loop"
    /\ UNCHANGED <<network_ok, mounted, rtc_status, attempt>>

\* SSID and clock are configured, or there is no network at all.
Start ==
    /\ at = "start"
    /\ IF wanted
       THEN /\ at' = "wifi"
            /\ attempt' = 1
            /\ InitWithSettings(initialized, stack)
            /\ UNCHANGED tellVars
       ELSE Offline
    /\ UNCHANGED <<wanted, ntpVars, checkVars, resets, events, down_polls>>

\* The last attempt has timed out, or CANCEL arrives during any of them.
WifiGivesUp ==
    /\ at = "wifi"
    /\ Offline
    /\ UNCHANGED <<wanted, ntpVars, checkVars, resets, events, down_polls>>

\* Mutant: one attempt too many.
WifiTimeoutOnceMore ==
    /\ at = "wifi"
    /\ attempt <= Attempts
    /\ attempt' = attempt + 1
    /\ InitWithSettings(Terminated, FALSE)
    /\ UNCHANGED <<at, wanted, tellVars, ntpVars, checkVars, resets, events, down_polls>>

\* Mutant: the attempts are not counted.
WifiTimeoutForever ==
    /\ at = "wifi"
    /\ attempt < Attempts
    /\ InitWithSettings(Terminated, FALSE)
    /\ UNCHANGED <<at, wanted, attempt, tellVars, ntpVars, checkVars, resets, events, down_polls>>

\* An attempt has timed out: disconnect and once more.
WifiTimeout ==
    /\ at = "wifi"
    /\ attempt < Attempts
    /\ attempt' = attempt + 1
    /\ InitWithSettings(Terminated, FALSE)
    /\ UNCHANGED <<at, wanted, tellVars, ntpVars, checkVars, resets, events, down_polls>>

\* CYW43_LINK_UP, then ntp_init.
WifiReady ==
    /\ at = "wifi"
    /\ link = "up"
    /\ at' = "ntp"
    /\ ntp' = Quiet
    /\ UNCHANGED <<wifiVars, tellVars, resolving, onWire, clock, checkVars, resets, events, down_polls>>

-----------------------------------------------------------------------------
(* The NTP wait *)

\* The request is sent, once for each resolution that found the server.
NtpSend ==
    /\ at = "ntp"
    /\ ~clock
    /\ ntp.server_found /\ ntp.query_done /\ ~ntp.sent
    /\ ntp' = [ntp EXCEPT !.server_found = FALSE, !.sent = TRUE]
    /\ onWire' \in {onWire, TRUE}
    /\ UNCHANGED <<at, wifiVars, tellVars, resolving, clock, checkVars, resets, events, down_polls>>

\* dns_gethostbyname: cached or numeric, in progress, or refused.
NtpResolve ==
    /\ at = "ntp"
    /\ ~clock
    /\ ~ntp.query_done
    /\ events < MaxEvents
    /\ events' = events + 1
    /\ \E cached \in BOOLEAN :
           /\ ntp' = [Quiet EXCEPT !.query_done = TRUE, !.server_found = cached]
           /\ resolving' \in IF cached THEN {resolving} ELSE BOOLEAN
    /\ UNCHANGED <<at, wifiVars, tellVars, onWire, clock, checkVars, resets, down_polls>>

\* host_found_callback reported an error: the name is asked for again.
NtpRetry ==
    /\ at = "ntp"
    /\ ~clock
    /\ ntp.error
    /\ ntp' = [ntp EXCEPT !.query_done = FALSE, !.error = FALSE, !.server_found = FALSE]
    /\ UNCHANGED <<at, wifiVars, tellVars, resolving, onWire, clock, checkVars, resets, events, down_polls>>

\* Where lwIP is polled.
Polled == stack /\ at \in {"wifi", "ntp", "mount", "loop"}

\* host_found_callback, in the wait or after it.
HostFound ==
    /\ resolving
    /\ Polled
    /\ resolving' = FALSE
    /\ ntp' \in {[ntp EXCEPT !.server_found = TRUE], [ntp EXCEPT !.error = TRUE]}
    /\ UNCHANGED <<at, wifiVars, tellVars, onWire, clock, checkVars, resets, events, down_polls>>

\* ntp_recv_callback, in the wait or after it: an answer that passes, or not.
NtpAnswer ==
    /\ onWire
    /\ Polled
    /\ onWire' = FALSE
    /\ clock' \in {clock, TRUE}
    /\ UNCHANGED <<at, wifiVars, tellVars, ntp, resolving, checkVars, resets, events, down_polls>>

\* The year is set, the deadline has passed, or CANCEL arrives.
NtpEnds ==
    /\ at = "ntp"
    /\ at' = "publish"
    /\ rtc_status' = clock
    /\ UNCHANGED <<wifiVars, network_ok, status, mounted, ntpVars, checkVars, resets, events,
                   down_polls>>

\* Mutant: without the time there is no network, as it used to be.
PublishWithTimeOnly ==
    /\ at = "publish"
    /\ at' = "mount"
    /\ status' = IF clock THEN "ready" ELSE "failed"
    /\ network_ok' = TRUE
    /\ UNCHANGED <<wifiVars, mounted, rtc_status, ntpVars, checkVars, resets, events, down_polls>>

\* From here on the Atari goes on.
Publish ==
    /\ at = "publish"
    /\ at' = "mount"
    /\ status' = "ready"
    /\ network_ok' = TRUE
    /\ UNCHANGED <<wifiVars, mounted, rtc_status, ntpVars, checkVars, resets, events, down_polls>>

\* sidetnfs_probe_mount_runtime_slots: every wait of it is bounded.
MountEnds ==
    /\ at = "mount"
    /\ at' = "loop"
    /\ mounted' = TRUE
    /\ UNCHANGED <<wifiVars, network_ok, status, rtc_status, ntpVars, checkVars, resets, events,
                   down_polls>>

-----------------------------------------------------------------------------
(* Polling *)

\* What polling a driver that is down does is not known; it may never return.
PollsFrom(place) ==
    IF stack THEN UNCHANGED <<at, down_polls>>
    ELSE /\ down_polls' = down_polls \cup {place}
         /\ at' \in {at, "hung"}

\* The waits poll while cyw43_initialized, the main loop while
\* sidetnfs_network_ok, mounting always.
Poll ==
    /\ \/ at \in {"wifi", "ntp"} /\ initialized /\ PollsFrom("wait")
       \/ at = "mount" /\ PollsFrom("mount")
       \/ at = "loop" /\ checking # "idle" /\ initialized /\ PollsFrom("check")
       \/ at = "loop" /\ checking = "idle" /\ network_ok /\ PollsFrom("loop")
    /\ UNCHANGED <<wifiVars, tellVars, ntpVars, checkVars, resets, events>>

\* FLOPPY_BROWSE_OPEN, a favourite or a session that opens: the server is mounted,
\* and polled for, whether or not there is a network, unless it is mounted already
\* or has no address.
FloppyMount ==
    /\ at = "loop" /\ checking = "idle"
    /\ events < MaxEvents
    /\ events' = events + 1
    /\ UNCHANGED <<at, down_polls>> \/ PollsFrom("floppy")
    /\ UNCHANGED <<wifiVars, tellVars, ntpVars, checkVars, resets>>

-----------------------------------------------------------------------------

\* SELECT, where safe_config_reboot is off: all of it from the beginning.
SelectReset ==
    /\ at \in {"wifi", "ntp", "loop"} /\ checking = "idle"
    /\ resets < MaxResets
    /\ resets' = resets + 1
    /\ at' = "main"
    /\ initialized' = FALSE
    /\ stack' = FALSE
    /\ joining' = FALSE
    /\ link' = "down"
    /\ attempt' = 0
    /\ network_ok' = FALSE
    /\ status' = "busy"
    /\ mounted' = FALSE
    /\ ntp' = Quiet
    /\ resolving' = FALSE
    /\ onWire' = FALSE
    /\ clock' = FALSE
    /\ rtc_status' = FALSE
    /\ checking' = "idle"
    /\ ctx' = Empty
    /\ pcb' = "none"
    /\ asked' = 0
    /\ arrived' = 0
    /\ verdict' = Verdict("none", <<>>)
    /\ cut' = FALSE
    /\ wanted' \in BOOLEAN
    /\ UNCHANGED <<reply, events, down_polls>>

\* The command SIDETNFS_CHECK_UPDATE of the main loop.
Check ==
    /\ at = "loop"
    /\ events < MaxEvents
    /\ events' = events + 1
    /\ CheckUpdate(link = "up")
    /\ UNCHANGED <<at, wifiVars, tellVars, ntpVars, resets, down_polls>>

Checking ==
    /\ stack
    /\ Callback \/ CheckEnds
    /\ UNCHANGED <<at, wifiVars, tellVars, ntpVars, resets, events, down_polls>>

WifiWait == WifiGivesUp \/ WifiTimeout \/ WifiReady
NtpWait == NtpSend \/ NtpResolve \/ NtpRetry \/ NtpEnds
Opening == Publish \/ MountEnds

BootNext ==
    \/ Main \/ Start
    \/ WifiWait \/ LinkChanges
    \/ NtpWait \/ HostFound \/ NtpAnswer
    \/ Opening
    \/ SelectReset
    \/ Poll
    \/ Check \/ Checking \/ FloppyMount

\* The program runs on, and so does the time its deadlines are set by.
BootSpec == BootInit /\ [][BootNext]_bootVars
FairBoot ==
    /\ BootSpec
    /\ WF_bootVars(Main) /\ WF_bootVars(Start)
    /\ WF_bootVars(WifiGivesUp \/ WifiTimeout)
    /\ WF_bootVars(NtpEnds) /\ WF_bootVars(Publish) /\ WF_bootVars(MountEnds)
    /\ WF_bootVars(Checking /\ CheckEnds)

-----------------------------------------------------------------------------
(* Properties. *)

(***************************************************************************)
(* Whatever fails on the way, the waits, the mounting of the drives, the   *)
(* update check and the main loop poll lwIP only while the driver is up:   *)
(* "polling a torn-down network stack there previously caused a hang"      *)
(* (gemdrvemul.c:4331-4334).  A mount of the floppy does not ask, although *)
(* the flag is said to guard "every later call that touches cyw43/lwIP in  *)
(* the main loop" (4332-4333).                                             *)
(***************************************************************************)
PollsAreGuarded == down_polls \subseteq {"floppy"}

Booting == {"main", "start", "wifi", "ntp", "publish"}

(***************************************************************************)
(* The Atari waits while NETWORK_STATUS is busy.  It is until all that is  *)
(* left is to mount the drives; then it says what is the case, and the     *)
(* main loop runs with the drives mounted exactly when there is a network, *)
(* whatever became of the time: "an NTP failure must never affect          *)
(* WiFi/TNFS" (gemdrvemul.c:4645-4649).  The time is published only when   *)
(* it was set.                                                             *)
(***************************************************************************)
StatusTellsTheNetwork ==
    /\ status = "busy" <=> at \in Booting \cup {"dead"}
    /\ network_ok <=> status = "ready"
    /\ mounted <=> network_ok /\ at # "mount"
    /\ at \in {"loop", "mount"} /\ stack => network_ok
    /\ rtc_status => clock /\ (network_ok \/ at = "publish")

(***************************************************************************)
(* However the link, DNS and the servers behave, booting ends in the main  *)
(* loop unless the driver cannot be started, and an update check ends.     *)
(***************************************************************************)
WaitsEnd ==
    /\ at \in Booting \cup {"mount"} ~> at \in {"loop", "dead"}
    /\ checking # "idle" ~> checking = "idle"

(***************************************************************************)
(* A verdict other than "error" is about the whole answer of the server,   *)
(* compared as numbers, unless the server or the buffer cut it short:      *)
(* "never partially, silently successful on a timeout"                     *)
(* (sidetnfs_update_check.c:296-298).  A page that is no version is no     *)
(* update.                                                                 *)
(***************************************************************************)
VerdictIsOfWholeAnswer ==
    checking = "idle" /\ ~cut /\ verdict.status \in {"up_to_date", "available"} =>
        /\ verdict.version = reply.body
        /\ (verdict.status = "available") =
               (reply.digits /\ Number(reply.body) > Number(Installed))
============================================================================
