---------------------------- MODULE MCFillLedger ----------------------------
(* FillLedger for TLC.  Daemons, orders, fill ids and account scopes are    *)
(* interchangeable, and no property checked with this symmetry is a         *)
(* liveness property.                                                       *)
EXTENDS FillLedger, TLC

Interchangeable ==
  Permutations(Procs) \cup Permutations(Orders) \cup Permutations(FillIds)
    \cup Permutations(Scopes)
=============================================================================
