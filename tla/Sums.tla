-------------------------------- MODULE Sums --------------------------------
(***************************************************************************)
(* Summation over a finite set: the quantity on a book side, the cash that *)
(* a set of holds locks.  CommonLemmas proves how a sum follows when one   *)
(* of its terms changes.                                                   *)
(***************************************************************************)
EXTENDS Integers, FiniteSetsExt

SumOver(f, S) == MapThenSumSet(LAMBDA x : f[x], S)
=============================================================================
