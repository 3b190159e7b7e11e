---------------------------- MODULE RuntimeLease ----------------------------
(***************************************************************************)
(* The runtime lease of pg-store: one row of runtime_leases per lease key, *)
(* acquired, asserted, renewed and released by the daemon processes that   *)
(* share the key, and the heartbeat task each serving daemon runs beside   *)
(* its event loop.                                                         *)
(*                                                                         *)
(* A process is named by its holder_id (PG_INSTANCE_ID), so two running    *)
(* processes never share one; a process that crashes and restarts keeps    *)
(* its name.  Time is the database's now(): the row carries the ticks left *)
(* before lease_expires_at.                                                *)
(***************************************************************************)
EXTENDS Naturals

CONSTANTS
  Procs,       \* daemon instances, by holder_id
  NoHolder,    \* the holder of an absent row
  Ttl,         \* ticks from a renewal to the expiry of the lease
  MaxTenure,   \* bound on the number of changes of ownership explored
  MayRelease   \* FALSE: every daemon is killed before it reaches release_lease

ASSUME LeaseAssumption ==
  /\ NoHolder \notin Procs
  /\ Ttl \in Nat \ {0}
  /\ MaxTenure \in Nat
  /\ MayRelease \in BOOLEAN

VARIABLES
  lease,    \* the row: its holder, its fencing token and the ticks left
  mode,     \* where each process is in its life
  tok,      \* fencing_token of the RuntimeLease value each process holds
  beat,     \* LeaseHealth published by each process's heartbeat task
  tenure,   \* history: number of times the lease changed hands
  mine      \* history: the tenure in which each process acquired the lease

leaseVars == <<lease, mode, tok, beat, tenure, mine>>

Modes == {"down", "starting", "serving", "stopping"}
Health == {"none", "Healthy", "Lost", "Stopped"}

\* No row for the lease key: a token of a stored row is at least 1.
NoLease == [holder |-> NoHolder, token |-> 0, left |-> 0]

Up(p) == mode[p] # "down"

\* The condition assert_lease evaluates, also the WHERE clause of renew_lease.
Valid(p) ==
  /\ lease.holder = p
  /\ lease.token = tok[p]
  /\ lease.left > 0

LeaseTypeOK ==
  /\ lease \in [holder : Procs \cup {NoHolder}, token : Nat, left : 0..Ttl]
  /\ mode \in [Procs -> Modes]
  /\ tok \in [Procs -> Nat]
  /\ beat \in [Procs -> Health]
  /\ tenure \in Nat
  /\ mine \in [Procs -> Nat]

LeaseInit ==
  /\ lease = NoLease
  /\ mode = [p \in Procs |-> "down"]
  /\ tok = [p \in Procs |-> 0]
  /\ beat = [p \in Procs |-> "none"]
  /\ tenure = 0
  /\ mine = [p \in Procs |-> 0]

-----------------------------------------------------------------------------
(* acquire_lease: INSERT ... ON CONFLICT DO UPDATE, one statement.         *)

\* Mutant: a takeover keeps the stored token.
AcquiredTokenNotBumped(p) == IF lease = NoLease THEN 1 ELSE lease.token

\* Mutant: a holder that restarts is given the first token again.
AcquiredTokenOfNewRow(p) ==
  IF lease = NoLease \/ lease.holder = p THEN 1 ELSE lease.token + 1

\* The token the statement returns: 1 for a new row, the stored one for the
\* holder itself, the stored one plus 1 for a different holder.
AcquiredToken(p) ==
  IF lease = NoLease THEN 1
  ELSE IF lease.holder = p THEN lease.token
  ELSE lease.token + 1

\* A row blocks everyone but its own holder until it has expired.
Acquirable(p) == lease = NoLease \/ lease.left = 0 \/ lease.holder = p

AcquireLease(p) ==
  /\ mode[p] = "down"
  /\ Acquirable(p)
  /\ lease' = [holder |-> p, token |-> AcquiredToken(p), left |-> Ttl]
  /\ tok' = [tok EXCEPT ![p] = AcquiredToken(p)]
  /\ mode' = [mode EXCEPT ![p] = "starting"]
  /\ lease.holder = p \/ tenure < MaxTenure
  /\ tenure' = IF lease.holder = p THEN tenure ELSE tenure + 1
  /\ mine' = [mine EXCEPT ![p] = tenure']
  /\ UNCHANGED beat

\* The startup of the daemon runs recovery and reconciliation before it
\* spawns the heartbeat: until then nothing renews the lease.
SpawnHeartbeat(p) ==
  /\ mode[p] = "starting"
  /\ mode' = [mode EXCEPT ![p] = "serving"]
  /\ beat' = [beat EXCEPT ![p] = "Healthy"]
  /\ UNCHANGED <<lease, tok, tenure, mine>>

\* Mutant: the heartbeat retries a failed renewal instead of ending.
RenewLeaseRetries(p) ==
  /\ beat[p] = "Healthy"
  /\ IF Valid(p) THEN lease' = [lease EXCEPT !.left = Ttl] ELSE UNCHANGED lease
  /\ UNCHANGED <<mode, tok, beat, tenure, mine>>

\* renew_lease from the heartbeat's interval: it moves the expiry only while
\* the lease is still valid; any other outcome ends the task with Lost.
RenewLease(p) ==
  /\ beat[p] = "Healthy"
  /\ IF Valid(p)
       THEN /\ lease' = [lease EXCEPT !.left = Ttl]
            /\ UNCHANGED beat
       ELSE /\ beat' = [beat EXCEPT ![p] = "Lost"]
            /\ UNCHANGED lease
  /\ UNCHANGED <<mode, tok, tenure, mine>>

\* A renewal that fails for any other reason (the database is unreachable)
\* also ends the heartbeat, although the row may still be valid.
RenewError(p) ==
  /\ beat[p] = "Healthy"
  /\ beat' = [beat EXCEPT ![p] = "Lost"]
  /\ UNCHANGED <<lease, mode, tok, tenure, mine>>

\* The event loop sees the heartbeat's Lost and breaks.
ObserveLost(p) ==
  /\ mode[p] = "serving"
  /\ beat[p] = "Lost"
  /\ mode' = [mode EXCEPT ![p] = "stopping"]
  /\ UNCHANGED <<lease, tok, beat, tenure, mine>>

\* The event loop breaks for another reason: ctrl_c, or no event senders left.
Shutdown(p) ==
  /\ mode[p] = "serving"
  /\ mode' = [mode EXCEPT ![p] = "stopping"]
  /\ UNCHANGED <<lease, tok, beat, tenure, mine>>

\* LeaseHeartbeatHandle::stop signals the task and waits for it.
StopHeartbeat(p) ==
  /\ mode[p] = "stopping"
  /\ beat[p] \in {"Healthy", "Lost"}
  /\ beat' = [beat EXCEPT ![p] = "Stopped"]
  /\ UNCHANGED <<lease, mode, tok, tenure, mine>>

\* release_lease deletes the row whether or not it has expired; with another
\* holder or token in it nothing is deleted and the error is only logged.
DeletedRow(p) ==
  IF lease.holder = p /\ lease.token = tok[p] THEN NoLease ELSE lease

ReleaseLease(p) ==
  /\ MayRelease
  /\ mode[p] = "stopping"
  /\ beat[p] = "Stopped"
  /\ lease' = DeletedRow(p)
  /\ mode' = [mode EXCEPT ![p] = "down"]
  /\ tok' = [tok EXCEPT ![p] = 0]
  /\ beat' = [beat EXCEPT ![p] = "none"]
  /\ mine' = [mine EXCEPT ![p] = 0]
  /\ UNCHANGED tenure

\* The process dies, or its startup returns an error: nothing is released.
Crash(p) ==
  /\ Up(p)
  /\ mode' = [mode EXCEPT ![p] = "down"]
  /\ tok' = [tok EXCEPT ![p] = 0]
  /\ beat' = [beat EXCEPT ![p] = "none"]
  /\ mine' = [mine EXCEPT ![p] = 0]
  /\ UNCHANGED <<lease, tenure>>

\* now() advances towards lease_expires_at.
TimePasses ==
  /\ lease.left > 0
  /\ lease' = [lease EXCEPT !.left = @ - 1]
  /\ UNCHANGED <<mode, tok, beat, tenure, mine>>

-----------------------------------------------------------------------------
LeaseNext ==
  \/ \E p \in Procs :
       \/ AcquireLease(p)
       \/ SpawnHeartbeat(p)
       \/ RenewLease(p)
       \/ RenewError(p)
       \/ ObserveLost(p)
       \/ Shutdown(p)
       \/ StopHeartbeat(p)
       \/ ReleaseLease(p)
       \/ Crash(p)
  \/ TimePasses

LeaseSpec == LeaseInit /\ [][LeaseNext]_leaseVars

(* The heartbeat is a tokio task with an interval and the event loop is a  *)
(* select! over the health channel: while the process runs, both are       *)
(* scheduled.  Nothing is assumed of crashes, operators or the database.   *)
FairLeaseSpec ==
  /\ LeaseSpec
  /\ \A p \in Procs :
       /\ WF_leaseVars(RenewLease(p))
       /\ WF_leaseVars(ObserveLost(p))

-----------------------------------------------------------------------------
(* Properties.                                                             *)

\* A process that lost the lease never finds it valid again without going
\* through acquire_lease: neither its own late renewal nor the releases and
\* takeovers of others revive it (assert_lease, renew_lease).
LostForGood ==
  [][\A p \in Procs : Up(p) /\ ~Valid(p) /\ Up(p)' => ~Valid(p)']_leaseVars

\* Fencing: of two running processes, the one whose tenure is later holds
\* the greater token, so comparing tokens is comparing tenures.
FencingOrder ==
  \A p, q \in Procs :
    Up(p) /\ Up(q) /\ mine[p] < mine[q] => tok[p] < tok[q]

\* A serving daemon whose lease is gone stops serving: the next heartbeat
\* reports Lost and the event loop breaks on it.
LostLeaseStops ==
  \A p \in Procs : (mode[p] = "serving" /\ ~Valid(p)) ~> mode[p] # "serving"
=============================================================================
