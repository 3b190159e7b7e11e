------------------------- MODULE MCDurableExecution -------------------------
(* DurableExecution for TLC.  Processes and orders are interchangeable: no  *)
(* definition of the specification tells one from another, and none of the  *)
(* properties checked with this symmetry is a liveness property.            *)
EXTENDS DurableExecution, FiniteSets, TLC

Interchangeable == Permutations(Procs) \cup Permutations(Orders)

\* Bound: a takeover with one order, or several orders with the daemon that
\* took the lease first, its restarts included; not both at once.
OneOrderOrOneTenure ==
  tenure <= 1 \/ Cardinality({o \in Orders : orders[o] # NoRow \/ \E p \in Procs : cur[p] = o}) <= 1

BoundedSpec == Init /\ [][Next /\ OneOrderOrOneTenure']_vars
=============================================================================
