------------------------------- MODULE MCTurn -------------------------------
(***************************************************************************)
(* Turn on a small instance: a turn that may go round the tools, and one   *)
(* that runs before it, beside it or after it.                             *)
(***************************************************************************)
EXTENDS Turn, TLC

CONSTANTS first, second

AsksOf == [t \in Turns |-> IF t = first THEN <<2, 0>> ELSE <<0>>]

Interchangeable == Permutations(Tools)
=============================================================================
