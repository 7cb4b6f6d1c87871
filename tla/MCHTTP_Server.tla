---------------------------- MODULE MCHTTP_Server -----------------------------
(***************************************************************************)
(* Instances of HTTP_Server for TLC.                                       *)
(***************************************************************************)
EXTENDS HTTP_Server

CONSTANTS s1, s2

\* Two connections: one can wait while the other has the thread.
TwoClients == {s1, s2}

OneClient == {s1}
===============================================================================
