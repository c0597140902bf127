------------------------------- MODULE MCPage -------------------------------
(***************************************************************************)
(* Page on a small instance: two sessions, of two customers, two requests  *)
(* in flight.                                                              *)
(***************************************************************************)
EXTENDS Page

TwoCustomers == <<"ana", "bia">>
=============================================================================
