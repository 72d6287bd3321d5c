---------------------------- MODULE AtLeastOnce ----------------------------
(***************************************************************************)
(* What one TNFS operation promises its caller, whatever the datagrams do. *)
(*                                                                         *)
(* The firmware runs one operation at a time.  The caller begins it and    *)
(* gets one answer.  Between, before or after that answer the server may   *)
(* execute the operation any number of times.  An "ok" answer means that   *)
(* it has executed it at least once; an "error" answer says nothing: it    *)
(* may have been executed, or may still be.                                *)
(***************************************************************************)
EXTENDS Naturals

CONSTANT Ops    \* the operations the firmware ever starts

VARIABLES
    call,       \* call[o]: what the caller of operation o knows
    execs       \* execs[o]: how often the server has executed it

aloVars == <<call, execs>>

CallState == {"none", "busy", "ok", "error"}

AloTypeOK ==
    /\ call \in [Ops -> CallState]
    /\ execs \in [Ops -> Nat]

AloInit ==
    /\ call = [o \in Ops |-> "none"]
    /\ execs = [o \in Ops |-> 0]

Begin(o) ==
    /\ \A p \in Ops : call[p] # "busy"
    /\ call[o] = "none"
    /\ call' = [call EXCEPT ![o] = "busy"]
    /\ UNCHANGED execs

\* A request still under way may be executed after its caller gave up.
Execute(o) ==
    /\ call[o] # "none"
    /\ execs' = [execs EXCEPT ![o] = @ + 1]
    /\ UNCHANGED call

Succeed(o) ==
    /\ call[o] = "busy"
    /\ execs[o] >= 1
    /\ call' = [call EXCEPT ![o] = "ok"]
    /\ UNCHANGED execs

GiveUp(o) ==
    /\ call[o] = "busy"
    /\ call' = [call EXCEPT ![o] = "error"]
    /\ UNCHANGED execs

AloNext ==
    \E o \in Ops : Begin(o) \/ Execute(o) \/ Succeed(o) \/ GiveUp(o)

AloSpec == AloInit /\ [][AloNext]_aloVars
============================================================================
