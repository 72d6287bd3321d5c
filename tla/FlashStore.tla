----------------------------- MODULE FlashStore ------------------------------
(***************************************************************************)
(* What a settings page that lives in one flash sector promises: the value *)
(* a boot would load changes only while a save is in progress, and then    *)
(* only to the value being saved or to the fallback; a save is answered    *)
(* with "ok" only when that value is what a boot would load; and the       *)
(* firmware runs with nothing but a value it loaded.  Edits that were      *)
(* never saved cannot become visible, whatever crashes.                    *)
(***************************************************************************)
CONSTANTS
    Values,   \* the values of the page
    Fallback, \* the one loaded when the sector cannot be read
    None      \* no value

VARIABLES
    stored,   \* the value a boot would load
    writing,  \* the value being saved, or None
    running,  \* the value the firmware runs with; None while it is off
    answer    \* how the last save ended

storeVars == <<stored, writing, running, answer>>

Init ==
    /\ stored \in Values
    /\ writing = None
    /\ running = None
    /\ answer = None

Begin ==
    /\ writing = None
    /\ writing' \in Values
    /\ UNCHANGED <<stored, running, answer>>

\* The sector is erased; it is programmed.
Write ==
    /\ writing # None
    /\ stored' \in {Fallback, writing}
    /\ UNCHANGED <<writing, running, answer>>

End ==
    /\ writing # None
    /\ writing' = None
    /\ \/ answer' = "ok" /\ stored = writing
       \/ answer' = "failed"
    /\ UNCHANGED <<stored, running>>

Load ==
    /\ writing = None
    /\ running' = stored
    /\ UNCHANGED <<stored, writing, answer>>

Stop ==
    /\ writing' = None
    /\ running' = None
    /\ answer' = None
    /\ UNCHANGED stored

Next == Begin \/ Write \/ End \/ Load \/ Stop

Spec == Init /\ [][Next]_storeVars
=============================================================================
