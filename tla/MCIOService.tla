---------------------------- MODULE MCIOService ----------------------------
(* Two services that read from their own sockets.                          *)
EXTENDS IOService, TLC

CONSTANTS s1, s2, f1, f2, f3

\* s1 reads from two sockets in turn.
UsesTwo == (s1 :> {f1, f2}) @@ (s2 :> {f3})
=============================================================================
