----------------------------- MODULE MCThreads -----------------------------
(***************************************************************************)
(* Threads on a small instance.                                            *)
(***************************************************************************)
EXTENDS Threads, TLC

\* Requests differ by what they ask only, and customers by what they own.
Interchangeable == Permutations(Requests) \cup Permutations(Customers)
=============================================================================
