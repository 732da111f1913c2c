---------------------------- MODULE MCSocketSharing ----------------------------
(***************************************************************************)
(* The instance of SocketSharing that TLC checks.                          *)
(***************************************************************************)
EXTENDS SocketSharing

CONSTANTS read, write, c1, c2

MCSocket == {read}
MCReplying == {read}
MCClient == {c1, c2}
MCEarly == {c1}
=============================================================================
