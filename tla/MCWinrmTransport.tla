--------------------------- MODULE MCWinrmTransport ---------------------------
(* A small instance of WinrmTransport: two commands.                       *)
EXTENDS WinrmTransport

MCCommands == {1, 2}
=============================================================================
