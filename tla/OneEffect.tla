----------------------------- MODULE OneEffect ------------------------------
(***************************************************************************)
(* What a call that changes a drive promises, whatever becomes of the      *)
(* datagrams and however often it is sent again: its effect takes place at *)
(* most once, and the call reports success only in the very step in which  *)
(* it does.  A failure reported says nothing: the effect may have taken    *)
(* place and its answer been lost.                                         *)
(*                                                                         *)
(* One thing escapes the promise: a request that the network held back     *)
(* until its call had given up or gone on.  It is a step of its own here,  *)
(* and once it has happened a call may take effect again.                  *)
(***************************************************************************)
EXTENDS DriveTree

CONSTANT Drives

VARIABLES
    tree,       \* the tree of each drive
    call,       \* the call in progress, or NoCall
    performed,  \* its effect has taken place
    last,       \* the call that has just ended and its result
    late        \* the latest request executed after its call had moved on

oeVars == <<tree, call, performed, last, late>>

NoCall == Request("none", "none", Plain(Root), Plain(Root))
Calls == [kind : Changing \cup {"chdir", "stat"}, slot : Drives,
          path : Paths, as : SUBSET (Dots \cup Kept), to : Paths, toAs : SUBSET (Dots \cup Kept)]
Results == {"ok", "refused", "error"}
Ended(c, r) == [call |-> c, result |-> r]

OeInit ==
    /\ tree \in [Drives -> Trees]
    /\ call = NoCall
    /\ performed = FALSE
    /\ last = Ended(NoCall, "ok")
    /\ late = NoCall

Effect(c) == /\ CanDo(tree[c.slot], c)
             /\ tree' = [tree EXCEPT ![c.slot] = Done(@, c)]

OeBegin(c) ==
    /\ c \in Calls
    /\ call = NoCall
    /\ call' = c
    /\ performed' = FALSE
    /\ last' = Ended(NoCall, "ok")
    /\ UNCHANGED <<tree, late>>

\* The effect, with an answer that does not come.
Perform ==
    /\ call # NoCall
    /\ late # NoCall \/ ~performed
    /\ Effect(call)
    /\ performed' = TRUE
    /\ UNCHANGED <<call, last, late>>

\* The effect and its answer.  A call that needs no network is one step.
Succeed(c) ==
    /\ c \in Calls
    /\ call \in {NoCall, c}
    /\ late # NoCall \/ ~performed
    /\ IF Changes(c) THEN Effect(c) ELSE UNCHANGED tree
    /\ call' = NoCall
    /\ performed' = FALSE
    /\ last' = Ended(c, "ok")
    /\ UNCHANGED late

Fail(c) ==
    /\ c \in Calls
    /\ call \in {NoCall, c}
    /\ call' = NoCall
    /\ performed' = FALSE
    /\ \E r \in Results \ {"ok"} : last' = Ended(c, r)
    /\ UNCHANGED <<tree, late>>

Late(c) ==
    /\ c \in Calls
    /\ Effect(c)
    /\ late' = c
    /\ UNCHANGED <<call, performed, last>>

\* Which request a step is about is seen in the state it leads to.
OeNext == \/ Perform
          \/ OeBegin(call')
          \/ Succeed(last'.call)
          \/ Fail(last'.call)
          \/ Late(late')

OeSpec == OeInit /\ [][OeNext]_oeVars
============================================================================
