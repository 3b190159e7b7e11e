------------------------------ MODULE MCVenues -------------------------------
(* The edges to the venues for TLC: the execution adapters, the connections *)
(* per IBKR instrument, and the private stream and the trade history of     *)
(* Binance.  They share no state, so a behaviour picks one of the four and  *)
(* the others keep still.                                                   *)
EXTENDS VenueAdapters, IbkrInstruments, UserStream, TradeHistory

VARIABLE part

venuesVars == <<part, vaVars, iiVars, usVars, thVars>>

AdapterPart == part = "adapter" /\ UNCHANGED <<part, iiVars, usVars, thVars>>
ConnectionPart == part = "connections" /\ UNCHANGED <<part, vaVars, usVars, thVars>>
StreamPart == part = "stream" /\ UNCHANGED <<part, vaVars, iiVars, thVars>>
HistoryPart == part = "history" /\ UNCHANGED <<part, vaVars, iiVars, usVars>>

VenuesInit ==
  /\ part \in {"adapter", "connections", "stream", "history"}
  /\ VAInit /\ (part # "adapter" => venue = "BN")
  /\ IIInit /\ (part # "connections" => dynamicMode /\ accountWide /\ universe = Symbols)
  /\ USInit /\ THInit

VenuesNext ==
  \/ AdapterPart /\ VANext
  \/ ConnectionPart /\ IINext
  \/ StreamPart /\ USNext
  \/ HistoryPart /\ THNext

VenuesSpec == VenuesInit /\ [][VenuesNext]_venuesVars

\* No read hides a fill: an adopted snapshot has every fill of its order, and stored
\* evidence is one cut of the account.
ReadsHideNoFill == AdoptedHidesNoFill /\ EvidenceIsOneCut
=============================================================================
