------------------------------- MODULE MCBoot --------------------------------
(***************************************************************************)
(* Version 9 is installed.  The server answers with the same, with 10,     *)
(* which is newer as a number only, with headers that leave no room for    *)
(* both digits, or with a page that is no version.                         *)
(***************************************************************************)
EXTENDS Boot

InstalledValue == <<9>>
RepliesValue ==
    {[head |-> 1, body |-> <<9>>, digits |-> TRUE],
     [head |-> 1, body |-> <<1, 0>>, digits |-> TRUE],
     [head |-> 2, body |-> <<1, 0>>, digits |-> TRUE],
     [head |-> 1, body |-> <<9, 9>>, digits |-> FALSE]}
=============================================================================
