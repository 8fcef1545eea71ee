------------------------------ MODULE MCConsole ------------------------------
(* Two payouts, one deposit, two applications and two businesses: what is  *)
(* drawn for one can meet what is pressed for the other.  Three rows of a  *)
(* list, one to a page, at three instants: a walk of three pages, with and *)
(* without ties, from one table or merged from two.                        *)
EXTENDS Console, TLC

Symmetry == Permutations(Offramps)
=============================================================================
