------------------------------ MODULE MCControl ------------------------------
(* What lets a daemon add exposure, for TLC: the lease of the process, the  *)
(* admission state of its event loop and the feed tasks behind it.  The     *)
(* three share no state, so a behaviour picks one of them and the others    *)
(* keep still.                                                              *)
EXTENDS RuntimeLease, EntryGate, LiveFeeds

VARIABLE part

controlVars == <<part, leaseVars, vars, lfVars>>

LeasePart == part = "lease" /\ UNCHANGED <<part, vars, lfVars>>
GatePart == part = "gate" /\ UNCHANGED <<part, leaseVars, lfVars>>
FeedPart == part = "feeds" /\ UNCHANGED <<part, leaseVars, vars>>

ControlInit ==
  /\ part \in {"lease", "gate", "feeds"}
  /\ LeaseInit /\ Init /\ LFInit
  /\ part # "gate" => liveMode /\ dynamic /\ ~hold /\ subscribed = Feeds /\ ~started
                      /\ ~gates["OwnershipReconciled"] /\ ~gates["UnknownStateClear"]
  /\ part # "feeds" => wanted = FeedIds

ControlNext ==
  \/ LeasePart /\ LeaseNext
  \/ GatePart /\ Next
  \/ FeedPart /\ LFNext

\* The fairness of FairLeaseSpec, FairSpec and LFSpec, each in its own part.
ControlSpec ==
  /\ ControlInit /\ [][ControlNext]_controlVars
  /\ \A p \in Procs :
       /\ WF_leaseVars(LeasePart /\ RenewLease(p))
       /\ WF_leaseVars(LeasePart /\ ObserveLost(p))
  /\ WF_vars(GatePart /\ \E quiet \in SUBSET Feeds : HealthTick(quiet))
  /\ WF_lfVars(FeedPart /\ serving /\ RestartFailed)
  /\ WF_lfVars(FeedPart /\ serving /\ RefreshStaleness)
  /\ \A f \in FeedIds :
       /\ WF_lfVars(FeedPart /\ serving /\ Observe(f))
       /\ WF_lfVars(FeedPart /\ Age(f))
=============================================================================
