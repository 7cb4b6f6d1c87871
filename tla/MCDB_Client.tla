----------------------------- MODULE MCDB_Client ------------------------------
(***************************************************************************)
(* Instances of DB_Client for TLC.                                         *)
(***************************************************************************)
EXTENDS DB_Client

\* Two downloads of a page that share a word and disagree about its count.
TwoVersions == {<<1, 2>>, <<2, 0>>}
===============================================================================
