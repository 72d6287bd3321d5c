----------------------------- MODULE MountSlots -----------------------------
(***************************************************************************)
(* How the runtime slots of src/romemul/sidetnfs_probe.c get their TNFS    *)
(* sessions.                                                               *)
(*                                                                         *)
(* Slots 0..LastDrive are the GEMDOS drives; the slot after them is the    *)
(* one FLOPPY.PRG shares.  At boot every TNFS drive is visited in slot     *)
(* order: its host is resolved (one lwIP lookup, bounded wait), a MOUNT is *)
(* sent over the one MOUNT socket, and a bounded wait follows.  The floppy *)
(* slot is mounted the same way on demand.  A saved configuration is       *)
(* adopted at the first PING after it: the slot table is rebuilt and only  *)
(* slot 0's MOUNT is sent, without waiting.                                *)
(*                                                                         *)
(* MOUNT replies carry no usable sequence number: a reply goes to the one  *)
(* pending slot if it comes from that slot's address and port.  lwIP runs  *)
(* its callbacks only while the firmware polls: in the main loop and in    *)
(* the two bounded waits.  WiFi is up; without it none of this runs.       *)
(***************************************************************************)
EXTENDS Integers, FiniteSets

CONSTANTS
    LastDrive,   \* last GEMDOS drive slot (8 in the firmware)
    Configs,     \* TNFS/UDP drive configurations: [host, port, path]
    Local,       \* a drive without TNFS/UDP: SD card or SETTINGS
    None,        \* nothing there: an unpopulated slot, or no saved table
    Tables,      \* drive tables a configuration can publish
    Names,       \* hosts that need a DNS lookup; others are literals
    Addresses,   \* IPv4 addresses, 0 excluded
    AddressOf,   \* AddressOf[h]: the addresses host h has
    Sources,     \* the connections FLOPPY.PRG can browse, always at path "/"
    MemoryRunsOut, \* whether lwIP can refuse a socket or a buffer
    MaxTicks,    \* DNS wait: SIDETNFS_RESOLVE_TIMEOUT_MS / _STEP_MS
    MaxPolls,    \* MOUNT wait: SIDETNFS_FS_WAIT_MAX_ITER
    MaxReinits,  \* configurations adopted after boot (bound of the model)
    MaxBrowses   \* floppy sources opened (bound of the model)

Drives == 0..LastDrive
FloppySlot == LastDrive + 1
Slots == 0..FloppySlot
Hosts == {c.host : c \in Configs}
Ports == {c.port : c \in Configs}
Paths == {c.path : c \in Configs}

ASSUME NumbersAssumption ==
    /\ LastDrive \in Nat
    /\ MaxTicks \in Nat \ {0}
    /\ MaxPolls \in Nat \ {0}
    /\ MaxReinits \in Nat
    /\ MaxBrowses \in Nat
    /\ MemoryRunsOut \in BOOLEAN

ASSUME ConfigAssumption ==
    /\ Configs \subseteq [host : Hosts, port : Ports, path : Paths]
    /\ None \notin Configs /\ Local \notin Configs /\ None # Local
    /\ None \notin Tables
    /\ Sources \subseteq Configs

ASSUME AddressAssumption ==
    /\ Addresses \subseteq Nat \ {0}
    /\ AddressOf \in [Hosts -> SUBSET Addresses]
    /\ \A h \in Hosts \ Names : \E a \in Addresses : AddressOf[h] = {a}

\* Slot 0 is the active server, the first TNFS drive there is, and SETTINGS
\* if there is none (sidetnfs_probe_load_active_server,
\* sidetnfs_runtime_drives_init).
ASSUME TablesAssumption ==
    /\ Tables \subseteq [Drives -> Configs \cup {Local, None}]
    /\ \A t \in Tables :
         /\ t[0] # None
         /\ (\E s \in Drives : t[s] \in Configs) => t[0] \in Configs

VARIABLES
    \* s_slot_contexts, a field or a group of fields per variable
    cfg,        \* host, port, mount_path and backend; None when not valid
    resolve,    \* the lookup: state, address and request id
    mount,      \* the session: pending, received, established, expected
    unresolvable, \* host_unresolvable
    \* the rest of the firmware
    table,      \* g_runtime_drives
    saved,      \* the saved table not adopted yet, or None (g_config_pending)
    pendingSlot, \* s_mount_pending_slot
    pcb,        \* s_mount_pcb # NULL
    dnsId,      \* s_next_dns_request_id
    caller,     \* "boot" (all drives) or "floppy" (one slot)
    step,       \* where that procedure is; "idle": the main loop
    at,         \* the slot it is at
    polls,      \* polls left to the bounded wait it is in
    \* the network (external) and history
    lookups,    \* lwIP lookups without an answer
    reqs,       \* MOUNT requests on their way
    resps,      \* MOUNT replies on their way
    sent,       \* MOUNT requests sent so far (history)
    mountOf,    \* mountOf[s]: the request whose reply slot s adopted (history)
    reinits, browses

context == <<cfg, resolve, mount, unresolvable>>
control == <<caller, step, at, polls>>
adoption == <<table, saved, reinits>>
net == <<reqs, resps, sent>>

vars == <<context, table, saved, pendingSlot, pcb, dnsId, control, lookups,
          net, mountOf, reinits, browses>>

----------------------------------------------------------------------------
Unresolved == [state |-> "idle", addr |-> 0, id |-> 0]
Unmounted == [pending |-> FALSE, received |-> FALSE, established |-> FALSE,
              expected |-> 0]
NoRequest == [id |-> 0]

ResolveStates == [state : {"idle", "pending", "done", "failed"},
                  addr : Addresses \cup {0}, id : Nat]
MountStates == [pending : BOOLEAN, received : BOOLEAN, established : BOOLEAN,
                expected : Addresses \cup {0}]
Request == [id : Nat \ {0}, slot : Slots, addr : Addresses, port : Ports,
            path : Paths]
Lookup == [id : Nat, host : Hosts]

\* The slots mount_runtime_slots and mount_slot do not skip.
IsTnfs(s) == cfg[s] \in Configs

----------------------------------------------------------------------------
\* sidetnfs_runtime_drives_init at boot has populated the contexts; the
\* mounting of the drives starts.
Init ==
    /\ table \in Tables
    /\ cfg = [s \in Slots |-> IF s \in Drives THEN table[s] ELSE None]
    /\ resolve = [s \in Slots |-> Unresolved]
    /\ mount = [s \in Slots |-> Unmounted]
    /\ unresolvable = [s \in Slots |-> FALSE]
    /\ saved = None
    /\ pendingSlot = -1
    /\ pcb = FALSE
    /\ dnsId = 1
    /\ caller = "boot" /\ step = "pick" /\ at = 0 /\ polls = 0
    /\ lookups = {} /\ reqs = {} /\ resps = {}
    /\ sent = 0
    /\ mountOf = [s \in Slots |-> NoRequest]
    /\ reinits = 0
    /\ browses = 0

\* Mutant: the floppy slot's turn goes on with the slot after it.
EndTurnGoesOn == step' = "pick" /\ at' = at + 1

\* The turn of the slot ends: the next drive, or back to the floppy caller.
EndTurn ==
    IF caller = "boot"
    THEN step' = "pick" /\ at' = at + 1
    ELSE step' = "idle" /\ UNCHANGED at

----------------------------------------------------------------------------
(* sidetnfs_probe_mount_runtime_slots: the loop over the drives            *)

Visit ==
    /\ step = "pick" /\ at \in Drives /\ IsTnfs(at)
    /\ step' = "resolve"
    /\ UNCHANGED <<context, adoption, pendingSlot, pcb, dnsId, caller, at,
                   polls, lookups, net, mountOf, browses>>

SkipDrive ==
    /\ step = "pick" /\ at \in Drives /\ ~IsTnfs(at)
    /\ at' = at + 1
    /\ UNCHANGED <<context, adoption, pendingSlot, pcb, dnsId, caller, step,
                   polls, lookups, net, mountOf, browses>>

BootDone ==
    /\ step = "pick" /\ at \notin Drives
    /\ step' = "idle" /\ at' = 0
    /\ UNCHANGED <<context, adoption, pendingSlot, pcb, dnsId, caller, polls,
                   lookups, net, mountOf, browses>>

----------------------------------------------------------------------------
(* ensure_slot_address                                                     *)

AlreadyResolved ==
    /\ step = "resolve" /\ resolve[at].state = "done"
    /\ step' = "send"
    /\ UNCHANGED <<context, adoption, pendingSlot, pcb, dnsId, caller, at,
                   polls, lookups, net, mountOf, browses>>

\* A dotted quad completes its own lookup on the spot.
ResolveLiteral ==
    /\ step = "resolve" /\ resolve[at].state # "done"
    /\ cfg[at].host \notin Names
    /\ \E a \in AddressOf[cfg[at].host] :
         resolve' = [resolve EXCEPT ![at] =
                       [state |-> "done", addr |-> a, id |-> dnsId]]
    /\ dnsId' = dnsId + 1
    /\ unresolvable' = [unresolvable EXCEPT ![at] = FALSE]
    /\ step' = "send"
    /\ UNCHANGED <<cfg, mount, adoption, pendingSlot, pcb, caller, at, polls,
                   lookups, net, mountOf, browses>>

\* dns_gethostbyname answers from its cache, refuses, or starts a lookup.
StartLookup ==
    /\ step = "resolve" /\ resolve[at].state # "done"
    /\ cfg[at].host \in Names
    /\ dnsId' = dnsId + 1
    /\ step' = "lookup"
    /\ polls' = MaxTicks
    /\ \/ /\ \E a \in AddressOf[cfg[at].host] :
               resolve' = [resolve EXCEPT ![at] =
                             [state |-> "done", addr |-> a, id |-> dnsId]]
          /\ UNCHANGED lookups
       \/ /\ resolve' = [resolve EXCEPT ![at] =
                           [state |-> "failed", addr |-> 0, id |-> dnsId]]
          /\ UNCHANGED lookups
       \/ /\ resolve' = [resolve EXCEPT ![at] =
                           [state |-> "pending", addr |-> 0, id |-> dnsId]]
          /\ lookups' = lookups \cup {[id |-> dnsId, host |-> cfg[at].host]}
    /\ UNCHANGED <<cfg, mount, unresolvable, adoption, pendingSlot, pcb, caller,
                   at, net, mountOf, browses>>

\* Mutant: the elapsed time is not accumulated.
TickWithoutTime ==
    /\ step = "lookup" /\ resolve[at].state = "pending"
    /\ UNCHANGED vars

\* sidetnfs_resolve_tick: the wait fails the lookup when its time is up.
Tick ==
    /\ step = "lookup" /\ resolve[at].state = "pending"
    /\ polls' = polls - 1
    /\ resolve' = IF polls = 1
                  THEN [resolve EXCEPT ![at].state = "failed"]
                  ELSE resolve
    /\ UNCHANGED <<cfg, mount, unresolvable, adoption, pendingSlot, pcb, dnsId,
                   caller, step, at, lookups, net, mountOf, browses>>

LookupSucceeded ==
    /\ step = "lookup" /\ resolve[at].state = "done"
    /\ unresolvable' = [unresolvable EXCEPT ![at] = FALSE]
    /\ step' = "send"
    /\ UNCHANGED <<cfg, resolve, mount, adoption, pendingSlot, pcb, dnsId,
                   caller, at, polls, lookups, net, mountOf, browses>>

\* The slot gets no MOUNT this time; the caller goes on.
LookupFailed ==
    /\ step = "lookup" /\ resolve[at].state = "failed"
    /\ unresolvable' = [unresolvable EXCEPT ![at] = TRUE]
    /\ EndTurn
    /\ UNCHANGED <<cfg, resolve, mount, adoption, pendingSlot, pcb, dnsId,
                   caller, polls, lookups, net, mountOf, browses>>
----------------------------------------------------------------------------
(* sidetnfs_send_mount_probe (slot 0), send_slot_mount_request (the rest)  *)

\* slot_server_ip: the resolved address, else the host read as a literal.
ServerIp(s) ==
    IF resolve[s].state = "done" THEN {resolve[s].addr}
    ELSE IF IsTnfs(s) /\ cfg[s].host \notin Names THEN AddressOf[cfg[s].host]
    ELSE {}

Mount(s, a, port, path) ==
    [id |-> sent + 1, slot |-> s, addr |-> a, port |-> port, path |-> path]

MarkPending(s) ==
    [mount EXCEPT ![s].pending = TRUE, ![s].received = FALSE]

\* A probe goes out on a new socket: what was under way on the old one can no
\* longer reach the firmware.
ProbeOnNewSocket(a, port, path) ==
    /\ pcb' = TRUE
    /\ pendingSlot' = 0
    /\ reqs' = {Mount(0, a, port, path)}
    /\ resps' = {}
    /\ sent' = sent + 1

NoSocket ==
    /\ MemoryRunsOut
    /\ pcb' = FALSE
    /\ reqs' = {} /\ resps' = {}
    /\ UNCHANGED <<pendingSlot, sent>>

SendProbe ==
    /\ step = "send" /\ at = 0
    /\ step' = "wait"
    /\ polls' = MaxPolls
    /\ \E a \in ServerIp(0) :
         \/ /\ ProbeOnNewSocket(a, cfg[0].port, cfg[0].path)
            /\ mount' = [MarkPending(0) EXCEPT ![0].expected = a]
         \/ /\ NoSocket
            /\ UNCHANGED mount
    /\ UNCHANGED <<cfg, resolve, unresolvable, adoption, dnsId, caller, at,
                   lookups, mountOf, browses>>

SendRequest ==
    /\ step = "send" /\ at # 0
    /\ step' = "wait"
    /\ polls' = MaxPolls
    /\ \E a \in ServerIp(at) :
         \/ /\ pcb
            /\ pendingSlot' = at
            /\ reqs' = reqs \cup {Mount(at, a, cfg[at].port, cfg[at].path)}
            /\ sent' = sent + 1
            /\ mount' = [MarkPending(at) EXCEPT ![at].expected = a]
         \/ /\ MemoryRunsOut \/ ~pcb
            /\ mount' = MarkPending(at)
            /\ UNCHANGED <<pendingSlot, reqs, sent>>
    /\ UNCHANGED <<cfg, resolve, unresolvable, adoption, pcb, dnsId, caller, at,
                   lookups, resps, mountOf, browses>>

----------------------------------------------------------------------------
(* wait_for_mount_response and the end of the slot's turn                  *)

WaitAgain ==
    /\ step = "wait" /\ polls > 0 /\ ~mount[at].received
    /\ polls' = polls - 1
    /\ UNCHANGED <<context, adoption, pendingSlot, pcb, dnsId, caller, step, at,
                   lookups, net, mountOf, browses>>

WaitEnd ==
    /\ step = "wait"
    /\ polls = 0 \/ mount[at].received
    /\ pendingSlot' = IF pendingSlot = at THEN -1 ELSE pendingSlot
    /\ EndTurn
    /\ UNCHANGED <<context, adoption, pcb, dnsId, caller, polls, lookups, net,
                   mountOf, browses>>

----------------------------------------------------------------------------
(* lwIP's callbacks, which run inside cyw43_arch_poll                      *)

Polling == step \in {"idle", "lookup"} \/ (step = "wait" /\ polls > 0)

\* Mutant: any lookup's answer is taken.
AwaitsAny(s, l) == resolve[s].state = "pending"

\* The one slot still waiting for exactly this lookup; ids are unique.
Awaits(s, l) == resolve[s].state = "pending" /\ resolve[s].id = l.id

\* slot_dns_found_callback: an address of the host, or no answer to be had.
DnsAnswer(l) ==
    /\ Polling
    /\ lookups' = lookups \ {l}
    /\ \E answer \in {[state |-> "done", addr |-> a] : a \in AddressOf[l.host]}
                     \cup {[state |-> "failed", addr |-> 0]} :
         resolve' = [s \in Slots |->
                       IF Awaits(s, l)
                       THEN [state |-> answer.state, addr |-> answer.addr,
                             id |-> resolve[s].id]
                       ELSE resolve[s]]
    /\ UNCHANGED <<cfg, mount, unresolvable, adoption, pendingSlot, pcb, dnsId,
                   control, net, mountOf, browses>>

\* Mutant: the reply's port is not compared.
AdoptsAnyPort(m) ==
    /\ pendingSlot # -1
    /\ IsTnfs(pendingSlot)
    /\ m.req.addr = mount[pendingSlot].expected

\* tnfs_recv_callback: the reply comes from where the pending slot expects it.
Adopts(m) ==
    /\ pendingSlot # -1
    /\ IsTnfs(pendingSlot)
    /\ m.req.addr = mount[pendingSlot].expected
    /\ m.req.port = cfg[pendingSlot].port

Receive(m) ==
    /\ Polling
    /\ resps' = resps \ {m}
    /\ \/ /\ Adopts(m)
          /\ mount' = [mount EXCEPT ![pendingSlot] =
                         [pending |-> FALSE, received |-> TRUE,
                          established |-> m.ok, expected |-> @.expected]]
          /\ mountOf' = [mountOf EXCEPT ![pendingSlot] = m.req]
          /\ pendingSlot' = -1
       \/ /\ ~Adopts(m)
          /\ UNCHANGED <<mount, mountOf, pendingSlot>>
    /\ UNCHANGED <<cfg, resolve, unresolvable, adoption, pcb, dnsId, control,
                   lookups, reqs, sent, browses>>

----------------------------------------------------------------------------
(* The servers and the network (external)                                  *)

Serve(r) ==
    /\ reqs' = reqs \ {r}
    /\ \E ok \in BOOLEAN : resps' = resps \cup {[req |-> r, ok |-> ok]}
    /\ UNCHANGED <<context, adoption, pendingSlot, pcb, dnsId, control, lookups,
                   sent, mountOf, browses>>

LoseRequest(r) ==
    /\ reqs' = reqs \ {r}
    /\ UNCHANGED <<context, adoption, pendingSlot, pcb, dnsId, control, lookups,
                   resps, sent, mountOf, browses>>

LoseResponse(m) ==
    /\ resps' = resps \ {m}
    /\ UNCHANGED <<context, adoption, pendingSlot, pcb, dnsId, control, lookups,
                   reqs, sent, mountOf, browses>>

----------------------------------------------------------------------------
(* A new configuration                                                     *)

\* sidetnfs_config_save
SaveConfig(t) ==
    /\ step = "idle" /\ reinits < MaxReinits
    /\ saved' = t
    /\ UNCHANGED <<context, table, reinits, pendingSlot, pcb, dnsId, control,
                   lookups, net, mountOf, browses>>

\* sidetnfs_probe_set_slot_context for the slots of S
Populate(S) ==
    /\ resolve' = [s \in Slots |-> IF s \in S THEN Unresolved ELSE resolve[s]]
    /\ mount' = [s \in Slots |-> IF s \in S THEN Unmounted ELSE mount[s]]
    /\ unresolvable' = [s \in Slots |-> s \notin S /\ unresolvable[s]]
    /\ mountOf' = [s \in Slots |-> IF s \in S THEN NoRequest ELSE mountOf[s]]

\* GEMDRVEMUL_PING with a saved configuration: the probe goes to the address
\* slot 0 had, at the new server's port and path, and then the contexts of
\* the new table replace those of the old one.
Ping ==
    /\ step = "idle" /\ saved # None
    /\ IF saved[0] \in Configs /\ ServerIp(0) # {}
       THEN \E a \in ServerIp(0) :
              \/ ProbeOnNewSocket(a, saved[0].port, saved[0].path)
              \/ NoSocket
       ELSE UNCHANGED <<pcb, pendingSlot, net>>
    /\ table' = saved
    /\ saved' = None
    /\ reinits' = reinits + 1
    /\ LET populated == {s \in Drives : saved[s] # None} IN
         /\ cfg' = [s \in Slots |-> IF s \in populated THEN saved[s] ELSE cfg[s]]
         /\ Populate(populated)
    /\ UNCHANGED <<dnsId, control, lookups, browses>>

\* sidetnfs_floppy_browse_open and open_into of the emulator: repopulates
\* the shared slot for another server; a mounted slot is used as it is.
BrowseOpen(c) ==
    /\ step = "idle" /\ browses < MaxBrowses
    /\ browses' = browses + 1
    /\ \/ /\ cfg[FloppySlot] # c
          /\ cfg' = [cfg EXCEPT ![FloppySlot] = c]
          /\ Populate({FloppySlot})
       \/ /\ cfg[FloppySlot] = c /\ ~mount[FloppySlot].established
          /\ UNCHANGED <<context, mountOf>>
    /\ caller' = "floppy" /\ step' = "resolve" /\ at' = FloppySlot
    /\ UNCHANGED <<adoption, pendingSlot, pcb, dnsId, polls, lookups, net>>

\* sidetnfs_probe_classify_slot_error, WiFi being up.
ErrorCategory(s) ==
    IF cfg[s] = None THEN "no session"
    ELSE IF mount[s].established THEN "none"
    ELSE IF unresolvable[s] THEN "dns failed"
    ELSE IF ~mount[s].received THEN "server unreachable"
    ELSE "mount failed"

----------------------------------------------------------------------------
Operation ==
    \/ Visit \/ SkipDrive \/ BootDone
    \/ AlreadyResolved \/ ResolveLiteral \/ StartLookup
    \/ Tick \/ LookupSucceeded \/ LookupFailed
    \/ SendProbe \/ SendRequest \/ WaitAgain \/ WaitEnd

Network ==
    \/ \E l \in lookups : DnsAnswer(l)
    \/ \E m \in resps : Receive(m) \/ LoseResponse(m)
    \/ \E r \in reqs : Serve(r) \/ LoseRequest(r)

Atari ==
    \/ \E t \in Tables : SaveConfig(t)
    \/ Ping
    \/ \E c \in Sources : BrowseOpen(c)

Next == Operation \/ Network \/ Atari

Spec == Init /\ [][Next]_vars

\* The firmware is one loop that never yields to anything but its interrupts.
FairSpec == Spec /\ WF_vars(Operation)

----------------------------------------------------------------------------
(* Properties                                                              *)

\* Every variable has its type (the contexts, the control state, the network).
TypeOK ==
    /\ cfg \in [Slots -> Configs \cup {Local, None}]
    /\ resolve \in [Slots -> ResolveStates]
    /\ mount \in [Slots -> MountStates]
    /\ unresolvable \in [Slots -> BOOLEAN]
    /\ table \in Tables
    /\ saved \in Tables \cup {None}
    /\ pendingSlot \in Slots \cup {-1}
    /\ pcb \in BOOLEAN
    /\ dnsId \in Nat
    /\ caller \in {"boot", "floppy"}
    /\ step \in {"pick", "resolve", "lookup", "send", "wait", "idle"}
    /\ at \in Slots
    /\ polls \in 0..MaxTicks \cup 0..MaxPolls
    /\ lookups \subseteq Lookup
    /\ reqs \subseteq Request
    /\ resps \subseteq [req : Request, ok : BOOLEAN]
    /\ sent \in Nat
    /\ mountOf \in [Slots -> Request \cup {NoRequest}]
    /\ reinits \in Nat /\ browses \in Nat

\* A slot is only ever contacted at an address of its own host: an answer to
\* a lookup that timed out, or that a slot made for a host it no longer has,
\* is never applied (sidetnfs_resolve_accepts, slot_dns_found_callback).  A
\* slot that has one is not reported as "DNS FAILED" for an earlier lookup.
ResolvedForHost ==
    \A s \in Slots :
        resolve[s].state = "done" =>
            /\ IsTnfs(s) /\ resolve[s].addr \in AddressOf[cfg[s].host]
            /\ step = "idle" => ErrorCategory(s) # "dns failed"

\* A slot's session was granted by the server the slot is configured for,
\* whatever replies were late, lost, or for another slot (tnfs_recv_callback).
SessionFromOwnServer ==
    \A s \in Slots :
        mount[s].established =>
            /\ IsTnfs(s)
            /\ mountOf[s] # NoRequest
            /\ mountOf[s].addr \in AddressOf[cfg[s].host]
            /\ mountOf[s].port = cfg[s].port

\* Whatever is late, no slot ever talks to the server of another host.
SlotsHaveOwnServers == ResolvedForHost /\ SessionFromOwnServer

\* Mounting the drives, and opening a floppy source, always comes to an end,
\* whatever DNS and the servers do ("never blocks longer than ... bound").
MountingReturns == step # "idle" ~> step = "idle"
============================================================================
