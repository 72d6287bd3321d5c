--------------------------- MODULE MountSlotsProofs ---------------------------
(***************************************************************************)
(* What MountSlots guarantees for any number of drives, any configurations *)
(* and any addresses of the hosts: no slot ever talks to the server of     *)
(* another host.  The invariant says of everything that can be late why it *)
(* cannot be mistaken: a lookup belongs to the slot whose request has its  *)
(* number, and only the slot that is waiting takes its answer; what a slot *)
(* expects a MOUNT reply from is an address of its own host, or nothing.   *)
(***************************************************************************)
EXTENDS MountSlots, TLAPS

USE NumbersAssumption, ConfigAssumption, AddressAssumption, TablesAssumption

\* The slot of the turn is one to be mounted; the boot only sees drives.
TurnInv ==
    /\ step \in {"resolve", "lookup", "send", "wait"} =>
           IsTnfs(at) /\ (caller = "boot" => at \in Drives)
    /\ step = "pick" => caller = "boot"

\* Numbers are not used twice, and a lookup that is waited for is of the host.
LookupInv ==
    /\ \A l \in lookups : l.id < dnsId
    /\ \A s \in Slots :
         /\ resolve[s].id < dnsId
         /\ resolve[s].state = "pending" => step = "lookup" /\ at = s /\ polls # 0
         /\ \A l \in lookups : Awaits(s, l) => l.host = cfg[s].host

\* Addresses are of the slot's own host.
AddressInv ==
    \A s \in Slots :
        /\ resolve[s].state = "done" =>
               IsTnfs(s) /\ resolve[s].addr \in AddressOf[cfg[s].host]
        /\ mount[s].expected # 0 =>
               IsTnfs(s) /\ mount[s].expected \in AddressOf[cfg[s].host]

\* An old failure is forgotten in the turn that resolves the host.
ReportInv ==
    \A s \in Slots :
        resolve[s].state = "done" /\ unresolvable[s] => step = "lookup" /\ at = s

IInv ==
    /\ TypeOK
    /\ TurnInv
    /\ LookupInv
    /\ AddressInv
    /\ ReportInv
    /\ SessionFromOwnServer

----------------------------------------------------------------------------
(* Facts about configurations                                              *)

LEMMA ConfigTypes ==
  ASSUME NEW c \in Configs
  PROVE  /\ c.host \in Hosts /\ c.port \in Ports /\ c.path \in Paths
         /\ AddressOf[c.host] \subseteq Addresses
         /\ c # None
  BY DEF Hosts, Ports, Paths

LEMMA SlotTypes ==
  /\ Drives \subseteq Slots /\ 0 \in Drives /\ FloppySlot \in Slots /\ FloppySlot # 0
  /\ \A d \in Drives : d + 1 \in Slots /\ d # FloppySlot
  /\ Slots \subseteq Nat
  BY DEF Drives, Slots, FloppySlot

\* A saved table has a slot 0 and nothing but configurations.
LEMMA TableTypes ==
  ASSUME NEW t \in Tables
  PROVE  /\ t \in [Drives -> Configs \cup {Local, None}]
         /\ t[0] # None /\ t # None
  OBVIOUS

\* The address a MOUNT goes to is one of the slot's own host.
LEMMA ServerIpIsOwn ==
  ASSUME TypeOK, AddressInv, NEW s \in Slots, NEW a \in ServerIp(s)
  PROVE  IsTnfs(s) /\ a \in AddressOf[cfg[s].host] /\ a \in Addresses
<1>1. IsTnfs(s) /\ a \in AddressOf[cfg[s].host]
  BY DEF ServerIp, AddressInv
<1> QED
  BY <1>1, ConfigTypes DEF IsTnfs

----------------------------------------------------------------------------

LEMMA InitInv == Init => IInv
<1> SUFFICES ASSUME Init
             PROVE  IInv
  OBVIOUS
<1> USE SlotTypes DEF Init
<1>1. TypeOK
  <2>1. table \in Tables /\ table \in [Drives -> Configs \cup {Local, None}]
    BY TableTypes
  <2>2. cfg \in [Slots -> Configs \cup {Local, None}]
    BY <2>1
  <2>3. resolve \in [Slots -> ResolveStates] /\ mount \in [Slots -> MountStates]
    BY DEF Unresolved, Unmounted, ResolveStates, MountStates
  <2>4. 0 \in Slots /\ polls \in 0..MaxTicks
    OBVIOUS
  <2> QED
    BY <2>1, <2>2, <2>3, <2>4 DEF TypeOK
<1>2. TurnInv /\ ReportInv /\ AddressInv /\ SessionFromOwnServer
  BY DEF TurnInv, ReportInv, AddressInv, SessionFromOwnServer, Unresolved, Unmounted
<1>3. LookupInv
  BY DEF LookupInv, Awaits, Unresolved
<1> QED
  BY <1>1, <1>2, <1>3 DEF IInv

----------------------------------------------------------------------------
(* Types                                                                   *)

\* A request to one of the addresses of a host.
LEMMA RequestType ==
  ASSUME TypeOK, NEW s \in Slots, NEW a \in Addresses, NEW c \in Configs
  PROVE  Mount(s, a, c.port, c.path) \in Request /\ sent + 1 \in Nat
  BY ConfigTypes DEF Mount, Request, TypeOK

\* Sending leaves established sessions and the other slots' addresses alone.
LEMMA FieldSet ==
  ASSUME NEW f \in [Slots -> MountStates], NEW s \in Slots,
         NEW u \in MountStates, u.established = f[s].established
  PROVE  /\ [f EXCEPT ![s] = u] \in [Slots -> MountStates]
         /\ \A x \in Slots : [f EXCEPT ![s] = u][x].established = f[x].established
         /\ \A x \in Slots : [f EXCEPT ![s] = u][x].expected
                               = IF x = s THEN u.expected ELSE f[x].expected
  OBVIOUS

LEMMA MarkPendingIs ==
  ASSUME TypeOK, NEW s \in Slots, NEW n, n = MarkPending(s)
  PROVE  /\ n \in [Slots -> MountStates]
         /\ \A x \in Slots : n[x].established = mount[x].established
         /\ \A x \in Slots : n[x].expected = mount[x].expected
<1> DEFINE u == [mount[s] EXCEPT !.pending = TRUE, !.received = FALSE]
<1>1. mount \in [Slots -> MountStates] /\ mount[s] \in MountStates
  BY DEF TypeOK
<1>2. u \in MountStates /\ u.established = mount[s].established /\ u.expected = mount[s].expected
  BY <1>1 DEF MountStates
<1>3. n = [mount EXCEPT ![s] = u]
  BY <1>1 DEF MarkPending
<1> HIDE DEF u
<1> QED
  BY <1>1, <1>2, <1>3, FieldSet

LEMMA ExpectIs ==
  ASSUME NEW f \in [Slots -> MountStates], NEW s \in Slots, NEW a \in Addresses,
         NEW n, n = [f EXCEPT ![s].expected = a]
  PROVE  /\ n \in [Slots -> MountStates]
         /\ \A x \in Slots : n[x].established = f[x].established
         /\ \A x \in Slots : n[x].expected = IF x = s THEN a ELSE f[x].expected
<1> DEFINE u == [f[s] EXCEPT !.expected = a]
<1>1. u \in MountStates /\ u.established = f[s].established /\ u.expected = a
  BY DEF MountStates
<1>2. n = [f EXCEPT ![s] = u]
  OBVIOUS
<1> HIDE DEF u
<1> QED
  BY <1>1, <1>2, FieldSet

LEMMA EndTurnType ==
  ASSUME TypeOK, TurnInv, EndTurn, step \in {"lookup", "wait"}
  PROVE  at' \in Slots /\ step' \in {"pick", "idle"} /\ (step' = "pick" => caller = "boot")
  BY SlotTypes DEF EndTurn, TypeOK, TurnInv

LEMMA TypeStep == IInv /\ [Next]_vars => TypeOK'
<1> SUFFICES ASSUME IInv, [Next]_vars
             PROVE  TypeOK'
  OBVIOUS
<1> USE SlotTypes DEF IInv, TypeOK, context, control, adoption, net
<1>1. CASE Visit \/ AlreadyResolved \/ LookupSucceeded \/ BootDone
  BY <1>1 DEF Visit, AlreadyResolved, LookupSucceeded, BootDone
<1>2. CASE SkipDrive
  BY <1>2 DEF SkipDrive
<1>3. CASE ResolveLiteral
  BY <1>3, ConfigTypes DEF ResolveLiteral, ResolveStates, TurnInv, IsTnfs
<1>4. CASE StartLookup
  <2>1. cfg[at] \in Configs /\ step' = "lookup" /\ polls' = MaxTicks /\ dnsId' = dnsId + 1
    BY <1>4 DEF StartLookup, TurnInv, IsTnfs
  <2>2. resolve' \in [Slots -> ResolveStates]
    BY <1>4, <2>1, ConfigTypes DEF StartLookup, ResolveStates
  <2>3. lookups' \subseteq Lookup
    BY <1>4, <2>1, ConfigTypes DEF StartLookup, Lookup
  <2> QED
    BY <1>4, <2>1, <2>2, <2>3 DEF StartLookup
<1>5. CASE Tick
  <2>1. polls' \in 0..MaxTicks \cup 0..MaxPolls
    <3>1. polls # 0
      BY <1>5 DEF Tick, LookupInv
    <3>2. polls' = polls - 1
      BY <1>5 DEF Tick
    <3> QED
      BY <3>1, <3>2
  <2>2. resolve' \in [Slots -> ResolveStates]
    <3>1. resolve[at] \in ResolveStates
      OBVIOUS
    <3>2. [resolve[at] EXCEPT !.state = "failed"] \in ResolveStates
      BY <3>1 DEF ResolveStates
    <3>3. \/ resolve' = resolve
          \/ resolve' = [resolve EXCEPT ![at] = [resolve[at] EXCEPT !.state = "failed"]]
      BY <1>5 DEF Tick
    <3> QED
      BY <3>2, <3>3
  <2> QED
    BY <1>5, <2>1, <2>2 DEF Tick
<1>6. CASE LookupFailed
  <2>1. EndTurn /\ step = "lookup"
    BY <1>6 DEF LookupFailed
  <2> QED
    BY <1>6, <2>1, EndTurnType DEF LookupFailed
<1>7. CASE WaitEnd
  <2>1. EndTurn /\ step = "wait"
    BY <1>7 DEF WaitEnd
  <2> QED
    BY <1>7, <2>1, EndTurnType DEF WaitEnd
<1>8. CASE WaitAgain
  BY <1>8 DEF WaitAgain
<1>9. CASE SendProbe
  <2>1. PICK a \in ServerIp(0) :
          \/ /\ ProbeOnNewSocket(a, cfg[0].port, cfg[0].path)
             /\ mount' = [MarkPending(0) EXCEPT ![0].expected = a]
          \/ /\ NoSocket
             /\ UNCHANGED mount
    BY <1>9 DEF SendProbe
  <2>2. cfg[0] \in Configs /\ a \in Addresses
    BY ServerIpIsOwn DEF IsTnfs
  <2>3. Mount(0, a, cfg[0].port, cfg[0].path) \in Request /\ sent + 1 \in Nat
    BY <2>2, RequestType
  <2>4. mount' \in [Slots -> MountStates]
    <3>1. MarkPending(0) \in [Slots -> MountStates]
      BY MarkPendingIs
    <3>2. [MarkPending(0) EXCEPT ![0].expected = a] \in [Slots -> MountStates]
      BY <2>2, <3>1, ExpectIs
    <3> QED
      BY <2>1, <3>2
  <2>5. /\ reqs' \subseteq Request /\ resps' \subseteq [req : Request, ok : BOOLEAN]
        /\ sent' \in Nat /\ pcb' \in BOOLEAN /\ pendingSlot' \in Slots \cup {-1}
    BY <2>1, <2>3 DEF ProbeOnNewSocket, NoSocket
  <2> QED
    BY <1>9, <2>4, <2>5 DEF SendProbe
<1>10. CASE SendRequest
  <2>1. PICK a \in ServerIp(at) :
          \/ /\ pcb
             /\ pendingSlot' = at
             /\ reqs' = reqs \cup {Mount(at, a, cfg[at].port, cfg[at].path)}
             /\ sent' = sent + 1
             /\ mount' = [MarkPending(at) EXCEPT ![at].expected = a]
          \/ /\ MemoryRunsOut \/ ~pcb
             /\ mount' = MarkPending(at)
             /\ UNCHANGED <<pendingSlot, reqs, sent>>
    BY <1>10 DEF SendRequest
  <2>2. cfg[at] \in Configs /\ a \in Addresses
    BY ServerIpIsOwn DEF IsTnfs
  <2>3. Mount(at, a, cfg[at].port, cfg[at].path) \in Request /\ sent + 1 \in Nat
    BY <2>2, RequestType
  <2>4. mount' \in [Slots -> MountStates]
    <3>1. MarkPending(at) \in [Slots -> MountStates]
      BY MarkPendingIs
    <3>2. [MarkPending(at) EXCEPT ![at].expected = a] \in [Slots -> MountStates]
      BY <2>2, <3>1, ExpectIs
    <3> QED
      BY <2>1, <3>1, <3>2
  <2> QED
    BY <1>10, <2>1, <2>3, <2>4 DEF SendRequest
<1>11. ASSUME NEW l \in lookups, DnsAnswer(l)
       PROVE  TypeOK'
  <2>1. l.host \in Hosts /\ AddressOf[l.host] \subseteq Addresses
    BY DEF Lookup
  <2>2. PICK answer \in {[state |-> "done", addr |-> a] : a \in AddressOf[l.host]}
                        \cup {[state |-> "failed", addr |-> 0]} :
          resolve' = [s \in Slots |->
                        IF Awaits(s, l)
                        THEN [state |-> answer.state, addr |-> answer.addr,
                              id |-> resolve[s].id]
                        ELSE resolve[s]]
    BY <1>11 DEF DnsAnswer
  <2>3. answer.state \in {"done", "failed"} /\ answer.addr \in Addresses \cup {0}
    BY <2>1, <2>2
  <2>4. resolve' \in [Slots -> ResolveStates]
    BY <2>2, <2>3 DEF ResolveStates
  <2> QED
    BY <1>11, <2>4 DEF DnsAnswer
<1>12. ASSUME NEW m \in resps, Receive(m)
       PROVE  TypeOK'
  <2>1. m.req \in Request /\ m.ok \in BOOLEAN
    OBVIOUS
  <2>2. CASE Adopts(m)
    <3>1. pendingSlot \in Slots
      BY <2>2 DEF Adopts
    <3>2. mount' = [mount EXCEPT ![pendingSlot] =
                      [pending |-> FALSE, received |-> TRUE,
                       established |-> m.ok, expected |-> @.expected]]
          /\ mountOf' = [mountOf EXCEPT ![pendingSlot] = m.req] /\ pendingSlot' = -1
      BY <1>12, <2>2 DEF Receive
    <3>3. mount' \in [Slots -> MountStates]
      BY <2>1, <3>1, <3>2 DEF MountStates
    <3>4. mountOf' \in [Slots -> Request \cup {NoRequest}]
      BY <2>1, <3>1, <3>2
    <3> QED
      BY <1>12, <3>2, <3>3, <3>4 DEF Receive
  <2>3. CASE ~Adopts(m)
    BY <1>12, <2>3 DEF Receive
  <2> QED
    BY <2>2, <2>3
<1>13. ASSUME NEW r \in reqs, Serve(r)
       PROVE  TypeOK'
  BY <1>13 DEF Serve
<1>14. CASE \/ \E r \in reqs : LoseRequest(r)
            \/ \E m \in resps : LoseResponse(m)
            \/ \E t \in Tables : SaveConfig(t)
            \/ UNCHANGED vars
  BY <1>14 DEF LoseRequest, LoseResponse, SaveConfig, vars
<1>15. CASE Ping
  <2>1. saved \in Tables /\ saved[0] # None
    BY <1>15, TableTypes DEF Ping
  <2>2. /\ reqs' \subseteq Request /\ resps' \subseteq [req : Request, ok : BOOLEAN]
        /\ sent' \in Nat /\ pcb' \in BOOLEAN /\ pendingSlot' \in Slots \cup {-1}
    <3>1. CASE saved[0] \in Configs /\ ServerIp(0) # {}
      <4>1. PICK a \in ServerIp(0) :
              ProbeOnNewSocket(a, saved[0].port, saved[0].path) \/ NoSocket
        BY <1>15, <3>1 DEF Ping
      <4>2. a \in Addresses
        BY ServerIpIsOwn
      <4>3. Mount(0, a, saved[0].port, saved[0].path) \in Request /\ sent + 1 \in Nat
        BY <3>1, <4>2, RequestType
      <4> QED
        BY <4>1, <4>3 DEF ProbeOnNewSocket, NoSocket
    <3>2. CASE ~(saved[0] \in Configs /\ ServerIp(0) # {})
      BY <1>15, <3>2 DEF Ping
    <3> QED
      BY <3>1, <3>2
  <2>3. cfg' \in [Slots -> Configs \cup {Local, None}]
    BY <1>15, <2>1, TableTypes DEF Ping
  <2>4. /\ resolve' \in [Slots -> ResolveStates] /\ mount' \in [Slots -> MountStates]
        /\ unresolvable' \in [Slots -> BOOLEAN]
        /\ mountOf' \in [Slots -> Request \cup {NoRequest}]
    BY <1>15 DEF Ping, Populate, Unresolved, Unmounted, ResolveStates, MountStates
  <2> QED
    BY <1>15, <2>1, <2>2, <2>3, <2>4 DEF Ping
<1>16. ASSUME NEW c \in Sources, BrowseOpen(c)
       PROVE  TypeOK'
  <2>1. cfg' \in [Slots -> Configs \cup {Local, None}]
    BY <1>16 DEF BrowseOpen
  <2>2. /\ resolve' \in [Slots -> ResolveStates] /\ mount' \in [Slots -> MountStates]
        /\ unresolvable' \in [Slots -> BOOLEAN]
        /\ mountOf' \in [Slots -> Request \cup {NoRequest}]
    <3>1. CASE Populate({FloppySlot})
      BY <3>1 DEF Populate, Unresolved, Unmounted, ResolveStates, MountStates
    <3>2. CASE UNCHANGED <<context, mountOf>>
      BY <3>2
    <3> QED
      BY <1>16, <3>1, <3>2 DEF BrowseOpen
  <2> QED
    BY <1>16, <2>1, <2>2 DEF BrowseOpen
<1> QED
  BY <1>1, <1>2, <1>3, <1>4, <1>5, <1>6, <1>7, <1>8, <1>9, <1>10, <1>11, <1>12, <1>13,
     <1>14, <1>15, <1>16 DEF Next, Operation, Network, Atari

----------------------------------------------------------------------------
(* The turn                                                                *)

LEMMA TurnStep == IInv /\ [Next]_vars => TurnInv'
<1> SUFFICES ASSUME IInv, [Next]_vars
             PROVE  TurnInv'
  OBVIOUS
<1> USE SlotTypes DEF IInv, TurnInv, IsTnfs, context, control
<1>1. CASE Visit \/ SkipDrive \/ BootDone
  BY <1>1 DEF Visit, SkipDrive, BootDone
<1>2. CASE AlreadyResolved \/ ResolveLiteral \/ StartLookup \/ Tick \/ LookupSucceeded
  BY <1>2 DEF AlreadyResolved, ResolveLiteral, StartLookup, Tick, LookupSucceeded
<1>3. CASE SendProbe \/ SendRequest \/ WaitAgain
  BY <1>3 DEF SendProbe, SendRequest, WaitAgain
<1>4. CASE LookupFailed \/ WaitEnd
  <2>1. EndTurn /\ step \in {"lookup", "wait"} /\ UNCHANGED <<cfg, caller>>
    BY <1>4 DEF LookupFailed, WaitEnd
  <2> QED
    BY <2>1, EndTurnType
<1>5. CASE Network \/ (\E t \in Tables : SaveConfig(t)) \/ UNCHANGED vars
  BY <1>5 DEF Network, DnsAnswer, Receive, LoseResponse, Serve, LoseRequest, SaveConfig, vars
<1>6. CASE Ping
  BY <1>6 DEF Ping
<1>7. ASSUME NEW c \in Sources, BrowseOpen(c)
      PROVE  TurnInv'
  <2>1. cfg'[FloppySlot] = c
    BY <1>7 DEF BrowseOpen, TypeOK
  <2> QED
    BY <1>7, <2>1 DEF BrowseOpen
<1> QED
  BY <1>1, <1>2, <1>3, <1>4, <1>5, <1>6, <1>7 DEF Next, Operation, Atari

----------------------------------------------------------------------------
(* What a new configuration does to the slots                              *)

\* The slots of S lose what they had, the others keep their configuration.
Renewed(S) ==
    /\ Populate(S)
    /\ cfg' \in [Slots -> Configs \cup {Local, None}]
    /\ \A s \in Slots \ S : cfg'[s] = cfg[s]

LEMMA RenewedIs ==
  ASSUME NEW S \in SUBSET Slots, Renewed(S), NEW s \in Slots
  PROVE  resolve'[s] = Unresolved \/ (resolve'[s] = resolve[s] /\ cfg'[s] = cfg[s])
<1>1. resolve' = [x \in Slots |-> IF x \in S THEN Unresolved ELSE resolve[x]]
  BY DEF Renewed, Populate
<1>2. CASE s \in S
  <2>1. resolve'[s] = Unresolved
    BY <1>1, <1>2
  <2> QED
    BY <2>1
<1>3. CASE s \notin S
  BY <1>1, <1>3 DEF Renewed
<1> QED
  BY <1>2, <1>3

LEMMA PingRenews ==
  ASSUME TypeOK, Ping
  PROVE  /\ Renewed({s \in Drives : saved[s] # None}) /\ 0 \in {s \in Drives : saved[s] # None}
         /\ step = "idle" /\ UNCHANGED <<step, dnsId, lookups>>
<1>1. saved \in Tables /\ saved \in [Drives -> Configs \cup {Local, None}] /\ saved[0] # None
  BY TableTypes DEF Ping, TypeOK
<1>2. cfg' = [s \in Slots |-> IF s \in {d \in Drives : saved[d] # None} THEN saved[s] ELSE cfg[s]]
  BY DEF Ping
<1> QED
  BY <1>1, <1>2, SlotTypes DEF Ping, Renewed, TypeOK, control

LEMMA BrowseRenews ==
  ASSUME TypeOK, NEW c \in Sources, BrowseOpen(c)
  PROVE  /\ Renewed({FloppySlot}) \/ UNCHANGED <<context, mountOf>>
         /\ step = "idle" /\ step' = "resolve" /\ UNCHANGED <<dnsId, lookups, pendingSlot>>
  BY SlotTypes DEF BrowseOpen, Renewed, TypeOK, adoption

----------------------------------------------------------------------------
(* Lookups                                                                 *)

LEMMA LookupStep == IInv /\ [Next]_vars => LookupInv'
<1> SUFFICES ASSUME IInv, [Next]_vars
             PROVE  LookupInv'
  OBVIOUS
<1> USE SlotTypes DEF IInv, LookupInv, Awaits, context, control
<1>1. dnsId \in Nat /\ at \in Slots /\ resolve \in [Slots -> ResolveStates]
  BY DEF TypeOK
<1> DEFINE Same == UNCHANGED <<cfg, resolve, dnsId, lookups>>
           Fewer == lookups' \subseteq lookups
           Silent == \A s \in Slots : resolve[s].state # "pending"
<1>2. ASSUME Same, Silent
      PROVE  LookupInv'
  BY <1>2
<1>3. CASE Visit \/ SkipDrive \/ BootDone \/ AlreadyResolved \/ SendProbe \/ SendRequest
           \/ WaitAgain \/ WaitEnd
  <2>1. step # "lookup"
    BY <1>3 DEF Visit, SkipDrive, BootDone, AlreadyResolved, SendProbe, SendRequest,
                WaitAgain, WaitEnd
  <2>2. Same
    BY <1>3 DEF Visit, SkipDrive, BootDone, AlreadyResolved, SendProbe, SendRequest,
                WaitAgain, WaitEnd
  <2> QED
    BY <1>2, <2>1, <2>2
<1>4. CASE LookupSucceeded \/ LookupFailed
  <2>1. Same /\ resolve[at].state # "pending"
    BY <1>4 DEF LookupSucceeded, LookupFailed
  <2> QED
    BY <1>2, <2>1
<1>5. CASE ResolveLiteral
  <2>1. PICK a : resolve' = [resolve EXCEPT ![at] = [state |-> "done", addr |-> a, id |-> dnsId]]
    BY <1>5 DEF ResolveLiteral
  <2>2. dnsId' = dnsId + 1 /\ UNCHANGED <<cfg, lookups>> /\ step # "lookup"
    BY <1>5 DEF ResolveLiteral
  <2> QED
    BY <1>1, <2>1, <2>2 DEF ResolveStates, TypeOK, Lookup
<1>6. CASE StartLookup
  <2> DEFINE N(q, a) == [state |-> q, addr |-> a, id |-> dnsId]
  <2>1. /\ dnsId' = dnsId + 1 /\ step' = "lookup" /\ polls' = MaxTicks /\ UNCHANGED <<cfg, at>>
        /\ step = "resolve"
    BY <1>6 DEF StartLookup
  <2>2. PICK q, a :
          /\ resolve' = [resolve EXCEPT ![at] = N(q, a)]
          /\ \/ q # "pending" /\ UNCHANGED lookups
             \/ lookups' = lookups \cup {[id |-> dnsId, host |-> cfg[at].host]}
    BY <1>6 DEF StartLookup
  <2>3. \A l \in lookups' : l.id < dnsId'
    BY <1>1, <2>1, <2>2 DEF TypeOK, Lookup
  <2>4. ASSUME NEW s \in Slots
        PROVE  /\ resolve'[s].id < dnsId'
               /\ resolve'[s].state = "pending" => s = at
               /\ \A l \in lookups' :
                     resolve'[s].state = "pending" /\ resolve'[s].id = l.id => l.host = cfg[s].host
    <3>1. CASE s = at
      BY <1>1, <2>1, <2>2, <3>1 DEF TypeOK, Lookup
    <3>2. CASE s # at
      <4>1. resolve'[s] = resolve[s] /\ resolve[s].id < dnsId /\ resolve[s].state # "pending"
        BY <1>1, <2>1, <2>2, <3>2
      <4> QED
        BY <1>1, <2>1, <4>1 DEF ResolveStates
    <3> QED
      BY <3>1, <3>2
  <2> QED
    BY <2>1, <2>3, <2>4
<1>7. CASE Tick
  <2>1. \A s \in Slots : /\ resolve'[s].id = resolve[s].id
                         /\ resolve'[s].state = "pending" => resolve[s].state = "pending"
    BY <1>1, <1>7 DEF Tick, ResolveStates
  <2>2. resolve'[at].state = "pending" => polls' # 0
    <3>1. CASE polls = 1
      BY <1>1, <1>7, <3>1 DEF Tick, ResolveStates
    <3>2. CASE polls # 1
      BY <1>7, <3>2 DEF Tick, TypeOK
    <3> QED
      BY <3>1, <3>2
  <2> QED
    BY <1>7, <2>1, <2>2 DEF Tick
<1>8. ASSUME NEW l \in lookups, DnsAnswer(l)
      PROVE  LookupInv'
  <2>1. \A s \in Slots : /\ resolve'[s].id = resolve[s].id
                         /\ resolve'[s].state = "pending" => resolve[s].state = "pending"
    BY <1>1, <1>8 DEF DnsAnswer
  <2> QED
    BY <1>8, <2>1 DEF DnsAnswer
<1>9. CASE \/ \E m \in resps : Receive(m) \/ LoseResponse(m)
           \/ \E r \in reqs : Serve(r) \/ LoseRequest(r)
           \/ \E t \in Tables : SaveConfig(t)
           \/ UNCHANGED vars
  BY <1>9 DEF Receive, LoseResponse, Serve, LoseRequest, SaveConfig, vars
<1>10. ASSUME NEW S \in SUBSET Slots, Renewed(S), step = "idle", UNCHANGED <<dnsId, lookups>>
       PROVE  LookupInv'
  <2>1. \A s \in Slots : resolve'[s] = Unresolved \/ (resolve'[s] = resolve[s] /\ cfg'[s] = cfg[s])
    BY <1>10, RenewedIs
  <2>2. \A s \in Slots : resolve[s].id \in Nat /\ resolve[s].id < dnsId
    BY <1>1 DEF ResolveStates
  <2>3. \A s \in Slots : resolve'[s].state # "pending" /\ resolve'[s].id < dnsId
    BY <1>10, <1>1, <2>1, <2>2 DEF Unresolved
  <2> QED
    BY <1>10, <2>3
<1>11. CASE Ping
  <2>1. PICK S \in SUBSET Slots : Renewed(S)
    BY <1>11, PingRenews
  <2>2. step = "idle" /\ UNCHANGED <<step, dnsId, lookups>>
    BY <1>11, PingRenews
  <2> QED
    BY <1>10, <2>1, <2>2
<1>12. ASSUME NEW c \in Sources, BrowseOpen(c)
       PROVE  LookupInv'
  <2>1. step = "idle" /\ UNCHANGED <<dnsId, lookups>>
    BY <1>12, BrowseRenews
  <2>2. CASE Renewed({FloppySlot})
    BY <1>10, <2>1, <2>2
  <2>3. CASE UNCHANGED <<context, mountOf>>
    BY <2>1, <2>3
  <2> QED
    BY <1>12, <2>2, <2>3, BrowseRenews
<1> QED
  BY <1>3, <1>4, <1>5, <1>6, <1>7, <1>8, <1>9, <1>11, <1>12 DEF Next, Operation, Network, Atari

----------------------------------------------------------------------------
(* Addresses and sessions                                                  *)

\* What a MOUNT that is sent does to the slots.
LEMMA SendIs ==
  ASSUME TypeOK, AddressInv, SendProbe \/ SendRequest, NEW s \in Slots
  PROVE  /\ mount'[s].established = mount[s].established
         /\ \/ mount'[s].expected = mount[s].expected
            \/ IsTnfs(s) /\ mount'[s].expected \in AddressOf[cfg[s].host]
<1> USE SlotTypes
<1>1. CASE SendProbe
  <2>1. PICK a \in ServerIp(0) :
          mount' = [MarkPending(0) EXCEPT ![0].expected = a] \/ UNCHANGED mount
    BY <1>1 DEF SendProbe
  <2>2. IsTnfs(0) /\ a \in AddressOf[cfg[0].host] /\ a \in Addresses
    BY ServerIpIsOwn
  <2>3. CASE mount' = [MarkPending(0) EXCEPT ![0].expected = a]
    BY <2>2, <2>3, MarkPendingIs, ExpectIs
  <2> QED
    BY <2>1, <2>3
<1>2. CASE SendRequest
  <2>1. PICK a \in ServerIp(at) :
          mount' = [MarkPending(at) EXCEPT ![at].expected = a] \/ mount' = MarkPending(at)
    BY <1>2 DEF SendRequest
  <2>2. at \in Slots
    BY DEF TypeOK
  <2>3. IsTnfs(at) /\ a \in AddressOf[cfg[at].host] /\ a \in Addresses
    BY <2>2, ServerIpIsOwn
  <2>4. CASE mount' = [MarkPending(at) EXCEPT ![at].expected = a]
    BY <2>2, <2>3, <2>4, MarkPendingIs, ExpectIs
  <2>5. CASE mount' = MarkPending(at)
    BY <2>2, <2>5, MarkPendingIs
  <2> QED
    BY <2>1, <2>4, <2>5
<1> QED
  BY <1>1, <1>2

LEMMA AddressStep == IInv /\ [Next]_vars => AddressInv'
<1> SUFFICES ASSUME IInv, [Next]_vars
             PROVE  AddressInv'
  OBVIOUS
<1> USE SlotTypes DEF IInv, AddressInv, IsTnfs, context, control
<1>1. /\ at \in Slots /\ resolve \in [Slots -> ResolveStates] /\ mount \in [Slots -> MountStates]
  BY DEF TypeOK
<1>2. CASE UNCHANGED <<cfg, resolve, mount>>
  BY <1>2
<1>3. CASE ResolveLiteral \/ StartLookup
  <2>1. IsTnfs(at) /\ UNCHANGED <<cfg, mount>>
    BY <1>3 DEF ResolveLiteral, StartLookup, TurnInv
  <2>2. \/ \E a \in AddressOf[cfg[at].host] :
              resolve' = [resolve EXCEPT ![at] = [state |-> "done", addr |-> a, id |-> dnsId]]
        \/ \E q \in {"failed", "pending"} :
              resolve' = [resolve EXCEPT ![at] = [state |-> q, addr |-> 0, id |-> dnsId]]
    BY <1>3 DEF ResolveLiteral, StartLookup
  <2>3. PICK q, a :
          /\ resolve' = [resolve EXCEPT ![at] = [state |-> q, addr |-> a, id |-> dnsId]]
          /\ q = "done" => a \in AddressOf[cfg[at].host]
    BY <2>2
  <2>4. \A s \in Slots \ {at} : resolve'[s] = resolve[s]
    BY <1>1, <2>3
  <2>5. resolve'[at].state = q /\ resolve'[at].addr = a
    BY <1>1, <2>3
  <2> QED
    BY <1>1, <2>1, <2>3, <2>4, <2>5
<1>4. CASE Tick
  BY <1>1, <1>4 DEF Tick, ResolveStates
<1>5. CASE SendProbe \/ SendRequest
  <2>1. UNCHANGED <<cfg, resolve>>
    BY <1>5 DEF SendProbe, SendRequest
  <2> QED
    BY <1>5, <2>1, SendIs
<1>6. ASSUME NEW l \in lookups, DnsAnswer(l)
      PROVE  AddressInv'
  <2>1. PICK answer \in {[state |-> "done", addr |-> a] : a \in AddressOf[l.host]}
                        \cup {[state |-> "failed", addr |-> 0]} :
          resolve' = [s \in Slots |->
                        IF Awaits(s, l)
                        THEN [state |-> answer.state, addr |-> answer.addr,
                              id |-> resolve[s].id]
                        ELSE resolve[s]]
    BY <1>6 DEF DnsAnswer
  <2>2. answer.state = "done" => answer.addr \in AddressOf[l.host]
    OBVIOUS
  <2>3. ASSUME NEW s \in Slots, resolve'[s].state = "done"
        PROVE  IsTnfs(s) /\ resolve'[s].addr \in AddressOf[cfg[s].host]
    <3>1. CASE Awaits(s, l)
      <4>1. l.host = cfg[s].host /\ at = s /\ step = "lookup"
        BY <3>1 DEF LookupInv, Awaits
      <4> QED
        BY <2>1, <2>2, <2>3, <3>1, <4>1 DEF TurnInv
    <3>2. CASE ~Awaits(s, l)
      BY <2>1, <2>3, <3>2
    <3> QED
      BY <3>1, <3>2
  <2> QED
    BY <1>6, <2>3 DEF DnsAnswer
<1>7. ASSUME NEW m \in resps, Receive(m)
      PROVE  AddressInv'
  <2>1. \A s \in Slots : mount'[s].expected = mount[s].expected
    BY <1>1, <1>7 DEF Receive, MountStates
  <2> QED
    BY <1>7, <2>1 DEF Receive
<1>8. ASSUME NEW S \in SUBSET Slots, Renewed(S)
      PROVE  AddressInv'
  BY <1>8 DEF Renewed, Populate, Unresolved, Unmounted
<1>9. CASE Ping
  <2>1. PICK S \in SUBSET Slots : Renewed(S)
    BY <1>9, PingRenews
  <2> QED
    BY <1>8, <2>1
<1>10. ASSUME NEW c \in Sources, BrowseOpen(c)
       PROVE  AddressInv'
  BY <1>2, <1>8, <1>10, BrowseRenews
<1>11. CASE \/ Visit \/ SkipDrive \/ BootDone \/ AlreadyResolved
            \/ LookupSucceeded \/ LookupFailed \/ WaitAgain \/ WaitEnd
            \/ \E m \in resps : LoseResponse(m)
            \/ \E r \in reqs : Serve(r) \/ LoseRequest(r)
            \/ \E t \in Tables : SaveConfig(t)
            \/ UNCHANGED vars
  <2>1. UNCHANGED <<cfg, resolve, mount>>
    BY <1>11 DEF Visit, SkipDrive, BootDone, AlreadyResolved, LookupSucceeded, LookupFailed,
                 WaitAgain, WaitEnd, LoseResponse, Serve, LoseRequest, SaveConfig, vars
  <2> QED
    BY <1>2, <2>1
<1> QED
  BY <1>3, <1>4, <1>5, <1>6, <1>7, <1>9, <1>10, <1>11 DEF Next, Operation, Network, Atari

LEMMA ReportStep == IInv /\ [Next]_vars => ReportInv'
<1> SUFFICES ASSUME IInv, [Next]_vars
             PROVE  ReportInv'
  OBVIOUS
<1> USE SlotTypes DEF IInv, ReportInv, context, control
<1>1. /\ at \in Slots /\ resolve \in [Slots -> ResolveStates]
      /\ unresolvable \in [Slots -> BOOLEAN]
  BY DEF TypeOK
<1>2. CASE ResolveLiteral
  <2>1. PICK a : resolve' = [resolve EXCEPT ![at] = [state |-> "done", addr |-> a, id |-> dnsId]]
    BY <1>2 DEF ResolveLiteral
  <2>2. unresolvable' = [unresolvable EXCEPT ![at] = FALSE] /\ step = "resolve"
    BY <1>2 DEF ResolveLiteral
  <2> QED
    BY <1>1, <2>1, <2>2
<1>3. CASE StartLookup
  <2>1. \A s \in Slots \ {at} : resolve'[s] = resolve[s]
    BY <1>1, <1>3 DEF StartLookup
  <2>2. step = "resolve" /\ step' = "lookup" /\ at' = at /\ unresolvable' = unresolvable
    BY <1>3 DEF StartLookup
  <2> QED
    BY <1>1, <2>1, <2>2
<1>4. CASE Tick
  BY <1>1, <1>4 DEF Tick, ResolveStates
<1>5. CASE LookupSucceeded \/ LookupFailed
  <2>1. \/ unresolvable' = [unresolvable EXCEPT ![at] = FALSE]
        \/ resolve[at].state = "failed" /\ unresolvable' = [unresolvable EXCEPT ![at] = TRUE]
    BY <1>5 DEF LookupSucceeded, LookupFailed
  <2>2. resolve' = resolve
    BY <1>5 DEF LookupSucceeded, LookupFailed
  <2> QED
    BY <1>1, <2>1, <2>2
<1>6. ASSUME NEW l \in lookups, DnsAnswer(l)
      PROVE  ReportInv'
  <2>1. \A s \in Slots : resolve'[s] = resolve[s] \/ resolve[s].state = "pending"
    BY <1>1, <1>6 DEF DnsAnswer, Awaits
  <2>2. UNCHANGED <<unresolvable, step, at>>
    BY <1>6 DEF DnsAnswer
  <2> QED
    BY <2>1, <2>2 DEF LookupInv
<1>7. ASSUME NEW S \in SUBSET Slots, Renewed(S), step = "idle"
      PROVE  ReportInv'
  BY <1>7 DEF Renewed, Populate, Unresolved
<1>8. CASE Ping
  <2>1. PICK S \in SUBSET Slots : Renewed(S)
    BY <1>8, PingRenews DEF TypeOK
  <2> QED
    BY <1>7, <1>8, <2>1, PingRenews
<1>9. ASSUME NEW c \in Sources, BrowseOpen(c)
      PROVE  ReportInv'
  <2>1. CASE Renewed({FloppySlot})
    BY <1>7, <1>9, <2>1, BrowseRenews
  <2>2. CASE UNCHANGED <<context, mountOf>>
    BY <1>9, <2>2, BrowseRenews
  <2> QED
    BY <1>9, <2>1, <2>2, BrowseRenews
<1>10. CASE \/ Visit \/ SkipDrive \/ BootDone \/ AlreadyResolved
            \/ SendProbe \/ SendRequest \/ WaitAgain \/ WaitEnd
  <2>1. step # "lookup" /\ UNCHANGED <<resolve, unresolvable>>
    BY <1>10 DEF Visit, SkipDrive, BootDone, AlreadyResolved, SendProbe, SendRequest,
                 WaitAgain, WaitEnd
  <2> QED
    BY <2>1
<1>11. CASE \/ \E m \in resps : Receive(m) \/ LoseResponse(m)
            \/ \E r \in reqs : Serve(r) \/ LoseRequest(r)
            \/ \E t \in Tables : SaveConfig(t)
            \/ UNCHANGED vars
  BY <1>11 DEF Receive, LoseResponse, Serve, LoseRequest, SaveConfig, vars
<1> QED
  BY <1>2, <1>3, <1>4, <1>5, <1>6, <1>8, <1>9, <1>10, <1>11
     DEF Next, Operation, Network, Atari

LEMMA SessionStep == IInv /\ [Next]_vars => SessionFromOwnServer'
<1> SUFFICES ASSUME IInv, [Next]_vars
             PROVE  SessionFromOwnServer'
  OBVIOUS
<1> USE SlotTypes DEF IInv, SessionFromOwnServer, IsTnfs, context, control
<1>1. mount \in [Slots -> MountStates] /\ mountOf \in [Slots -> Request \cup {NoRequest}]
  BY DEF TypeOK
<1>2. CASE SendProbe \/ SendRequest
  <2>1. UNCHANGED <<cfg, mountOf>>
    BY <1>2 DEF SendProbe, SendRequest
  <2> QED
    BY <1>2, <2>1, SendIs
<1>3. ASSUME NEW m \in resps, Receive(m)
      PROVE  SessionFromOwnServer'
  <2>1. m.req \in Request
    BY DEF TypeOK
  <2>2. m.req # NoRequest /\ m.req.addr # 0
    BY <2>1 DEF Request, NoRequest
  <2>3. CASE Adopts(m)
    <3>1. pendingSlot \in Slots
      BY <2>3 DEF Adopts, TypeOK
    <3>2. /\ mountOf' = [mountOf EXCEPT ![pendingSlot] = m.req]
          /\ \A s \in Slots \ {pendingSlot} : mount'[s] = mount[s]
          /\ cfg' = cfg
      BY <1>1, <1>3, <2>3 DEF Receive
    <3>3. /\ cfg[pendingSlot] \in Configs /\ m.req.port = cfg[pendingSlot].port
          /\ m.req.addr \in AddressOf[cfg[pendingSlot].host]
      BY <2>2, <2>3, <3>1 DEF Adopts, AddressInv
    <3> QED
      BY <1>1, <2>2, <3>1, <3>2, <3>3
  <2>4. CASE ~Adopts(m)
    BY <1>3, <2>4 DEF Receive
  <2> QED
    BY <2>3, <2>4
<1>4. ASSUME NEW S \in SUBSET Slots, Renewed(S)
      PROVE  SessionFromOwnServer'
  BY <1>4 DEF Renewed, Populate, Unmounted
<1>5. CASE Ping
  <2>1. PICK S \in SUBSET Slots : Renewed(S)
    BY <1>5, PingRenews
  <2> QED
    BY <1>4, <2>1
<1>6. CASE UNCHANGED <<cfg, mount, mountOf>>
  BY <1>6
<1>7. ASSUME NEW c \in Sources, BrowseOpen(c)
      PROVE  SessionFromOwnServer'
  BY <1>4, <1>6, <1>7, BrowseRenews
<1>8. CASE \/ Visit \/ SkipDrive \/ BootDone \/ AlreadyResolved
           \/ ResolveLiteral \/ StartLookup \/ Tick \/ LookupSucceeded \/ LookupFailed
           \/ WaitAgain \/ WaitEnd
           \/ \E l \in lookups : DnsAnswer(l)
           \/ \E m \in resps : LoseResponse(m)
           \/ \E r \in reqs : Serve(r) \/ LoseRequest(r)
           \/ \E t \in Tables : SaveConfig(t)
           \/ UNCHANGED vars
  <2>1. UNCHANGED <<cfg, mount, mountOf>>
    BY <1>8 DEF Visit, SkipDrive, BootDone, AlreadyResolved, ResolveLiteral, StartLookup, Tick,
                LookupSucceeded, LookupFailed, WaitAgain, WaitEnd, DnsAnswer, LoseResponse,
                Serve, LoseRequest, SaveConfig, vars
  <2> QED
    BY <1>6, <2>1
<1> QED
  BY <1>2, <1>3, <1>5, <1>7, <1>8 DEF Next, Operation, Network, Atari

----------------------------------------------------------------------------
(* The theorems                                                            *)

THEOREM MountingInvariant == Spec => []IInv
<1>1. IInv /\ [Next]_vars => IInv'
  BY TypeStep, TurnStep, LookupStep, AddressStep, ReportStep, SessionStep DEF IInv
<1> QED
  BY InitInv, <1>1, PTL DEF Spec

\* The slot contexts, the turn and what is on the network keep their types
\* (s_slot_contexts, sidetnfs_mount_slot_ctx_t).
THEOREM SlotsTypeCorrect == Spec => []TypeOK
<1>1. IInv => TypeOK
  BY DEF IInv
<1> QED
  BY <1>1, MountingInvariant, PTL

\* A late answer of DNS or of a server never reaches a slot it is not for, and
\* a slot that has an address is not reported as "DNS FAILED"
\* (slot_dns_found_callback, tnfs_recv_callback).
THEOREM OwnServersCorrect == Spec => []SlotsHaveOwnServers
<1>1. ASSUME IInv
      PROVE  SlotsHaveOwnServers
  <2>1. ResolvedForHost
    BY <1>1 DEF IInv, ResolvedForHost, AddressInv, ReportInv, ErrorCategory
  <2> QED
    BY <1>1, <2>1 DEF IInv, SlotsHaveOwnServers
<1>2. IInv => SlotsHaveOwnServers
  BY <1>1
<1> QED
  BY <1>2, MountingInvariant, PTL
=============================================================================
