----------------------------- MODULE MCpqxx_work ------------------------------
(***************************************************************************)
(* Instances of pqxx_work for TLC.                                         *)
(***************************************************************************)
EXTENDS pqxx_work

\* One client calls once, the others can be started again and call twice.
OnceOrTwice == [c \in Client |-> IF c = CHOOSE d \in Client : TRUE THEN 1 ELSE 2]

\* A page with two words, so that the loop of addLink goes round.
TwoWords == {<<1, 2>>}
===============================================================================
