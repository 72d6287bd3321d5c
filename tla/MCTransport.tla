----------------------------- MODULE MCTransport ------------------------------
(* Transport for TLC: a parameter may look like a header, and a command like a size
   that the counter of 16 bits never reaches. *)
EXTENDS Transport

MCHeader == 8
MCCommands == {1, 9}
MCParams == {MCHeader, 1}
MCNone == 99
============================================================================
