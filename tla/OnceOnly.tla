------------------------------ MODULE OnceOnly ------------------------------
(***************************************************************************)
(* What durable execution promises about an order, without processes,      *)
(* leases or messages: STORAGE_RECOVERY's "never convert an uncertain first*)
(* submission into blind duplicate exposure".                              *)
(*                                                                         *)
(* The exposure of an order is none, then coming (a request is out), then  *)
(* live, then closed, and never goes back; it starts only when the book    *)
(* already shows an order being worked, and the book shows the order as    *)
(* closed only once the exposure is closed for good.                       *)
(***************************************************************************)
CONSTANT Orders

VARIABLES
  book,      \* what the durable record says of the order
  exposure   \* what the order is, or may become, at the venue

onceVars == <<book, exposure>>

Books == {"none", "intent", "working", "closed"}

OnceInit ==
  /\ book = [o \in Orders |-> "none"]
  /\ exposure = [o \in Orders |-> "none"]

Record(o) ==
  /\ book[o] = "none"
  /\ book' = [book EXCEPT ![o] = "intent"]
  /\ UNCHANGED exposure

Request(o) ==
  /\ book[o] = "intent"
  /\ book' = [book EXCEPT ![o] = "working"]
  /\ UNCHANGED exposure

\* The one submission: sent, or refused before it is sent.
Send(o) ==
  /\ book[o] = "working"
  /\ exposure[o] = "none"
  /\ \E e \in {"coming", "closed"} : exposure' = [exposure EXCEPT ![o] = e]
  /\ UNCHANGED book

\* The request arrives, is rejected or is lost; a live order ends.
Settle(o) ==
  /\ \/ exposure[o] = "coming" /\ \E e \in {"live", "closed"} :
                                      exposure' = [exposure EXCEPT ![o] = e]
     \/ exposure[o] = "live" /\ exposure' = [exposure EXCEPT ![o] = "closed"]
  /\ UNCHANGED book

\* The record is brought up to date.  It may be reopened by a reader of
\* older evidence, which is harmless: the exposure stays closed.
Update(o) ==
  /\ book[o] \in {"working", "closed"}
  /\ \/ book' = [book EXCEPT ![o] = "working"]
     \/ exposure[o] = "closed" /\ book' = [book EXCEPT ![o] = "closed"]
  /\ UNCHANGED exposure

OnceNext ==
  \E o \in Orders : Record(o) \/ Request(o) \/ Send(o) \/ Settle(o) \/ Update(o)

OnceSpec == OnceInit /\ [][OnceNext]_onceVars
=============================================================================
