---------------------------- MODULE ReplicaAlerts ----------------------------
(***************************************************************************)
(* Replicas of an application that share a storage and deduplicate their   *)
(* alerts (alert_dedupe_window_s): before an alert is sent, its replica    *)
(* claims the probe's new status with claim_alert.  For one probe; each    *)
(* replica's pipeline up to its queue is reduced to the alerts it queues.  *)
(*                                                                         *)
(* The claim is one Lua script in Redis, hence one step.  The call may     *)
(* fail or time out, having taken effect or not, and the replica then      *)
(* sends anyway.  A claim lapses after the window.                         *)
(***************************************************************************)
EXTENDS Naturals, Sequences

CONSTANTS
    Replica,
    Status,
    Healthy,    \* the status taken before the first result
    MaxChanges, \* bound: changes of the probe's status
    NoClaim,    \* no claim is held for the probe
    NoAlert     \* a replica sends no alert

ASSUME StatusAssumption == Healthy \in Status /\ NoClaim \notin Status
ASSUME ChangesAssumption == MaxChanges \in Nat

VARIABLES
    truth,     \* the status a check of the probe has now (environment)
    changes,   \* how often it has changed
    seen,      \* _alerted_states of each replica
    pending,   \* _alert_queue of each replica, the alert being claimed first
    sending,   \* the alert each replica is dispatching
    claim,     \* the value of the key P:alert-claim:<probe>
    lastSent,  \* ghost: the status of the last alert sent by any replica
    sender,    \* ghost: the replica that sent it
    times,     \* ghost: how often the alert of each change was sent, up to 2
    orderly,   \* ghost: every change so far found the one before it dealt with
    failed,    \* ghost: some claim failed
    restarted  \* ghost: some replica restarted

replicaVars == <<truth, changes, seen, pending, sending, claim, lastSent, sender, times,
          orderly, failed, restarted>>

probeVars == <<truth, changes>>
sentVars  == <<lastSent, sender, times>>
pastVars  == <<orderly, failed, restarted>>

Alert == [new : Status, change : 0 .. MaxChanges]
ASSUME AlertAssumption == NoAlert \notin Alert

ReplicaTypeOK ==
    /\ truth \in Status
    /\ changes \in 0 .. MaxChanges
    /\ seen \in [Replica -> Status]
    /\ pending \in [Replica -> Seq(Alert)]
    /\ sending \in [Replica -> Alert \cup {NoAlert}]
    /\ claim \in Status \cup {NoClaim}
    /\ lastSent \in Status
    /\ sender \in Replica
    /\ times \in [0 .. MaxChanges -> 0 .. 2]
    /\ orderly \in BOOLEAN
    /\ failed \in BOOLEAN
    /\ restarted \in BOOLEAN

ReplicaInit ==
    /\ truth = Healthy
    /\ changes = 0
    /\ seen = [r \in Replica |-> Healthy]
    /\ pending = [r \in Replica |-> << >>]
    /\ sending = [r \in Replica |-> NoAlert]
    /\ claim = NoClaim
    /\ lastSent = Healthy
    /\ sender \in Replica
    /\ times = [k \in 0 .. MaxChanges |-> 0]
    /\ orderly = TRUE
    /\ failed = FALSE
    /\ restarted = FALSE

\* Every replica has noticed the current status and decided on its alerts.
Settled == \A r \in Replica : seen[r] = truth /\ pending[r] = << >>

-----------------------------------------------------------------------------

Change(s) ==
    /\ s # truth
    /\ changes < MaxChanges
    /\ truth' = s
    /\ changes' = changes + 1
    /\ orderly' = (orderly /\ Settled)
    /\ UNCHANGED <<seen, pending, sending, claim, sentVars, failed, restarted>>

\* A check of the replica ends; its alert is queued (_send_to_alerters).
Notice(r) ==
    /\ seen[r] # truth
    /\ seen' = [seen EXCEPT ![r] = truth]
    /\ pending' = [pending EXCEPT ![r] = Append(@, [new |-> truth, change |-> changes])]
    /\ UNCHANGED <<probeVars, sending, claim, sentVars, pastVars>>

\* _alert_loop has taken the first alert and awaits its claim.
Claiming(r) == sending[r] = NoAlert /\ pending[r] # << >>

Taken(r) == pending' = [pending EXCEPT ![r] = Tail(@)]

\* The alert goes to _dispatch_alert.
Send(r) ==
    LET alert == Head(pending[r]) IN
    /\ Taken(r)
    /\ sending' = [sending EXCEPT ![r] = alert]
    /\ lastSent' = alert.new
    /\ sender' = r
    /\ times' = [times EXCEPT ![alert.change] = IF @ = 2 THEN 2 ELSE @ + 1]

\* claim_alert: refused only if the key holds this very status.
AlwaysRefuses(s) == claim # NoClaim  \* fault: a claim on the probe alone (SET NX)
NeverRefuses(s)  == FALSE            \* fault: the value is not compared
Refuses(s)       == claim = s

Stored(s)   == s

ClaimWins(r) ==
    /\ Claiming(r)
    /\ ~Refuses(Head(pending[r]).new)
    /\ claim' = Stored(Head(pending[r]).new)
    /\ Send(r)
    /\ UNCHANGED <<probeVars, seen, pastVars>>

ClaimRefused(r) ==
    /\ Claiming(r)
    /\ Refuses(Head(pending[r]).new)
    /\ Taken(r)
    /\ UNCHANGED <<probeVars, seen, sending, claim, sentVars, pastVars>>

\* An error or a timeout, the script having run or not: send anyway.
ClaimFails(r) ==
    /\ Claiming(r)
    /\ claim' \in {claim, Stored(Head(pending[r]).new)}
    /\ Send(r)
    /\ failed' = TRUE
    /\ UNCHANGED <<probeVars, seen, orderly, restarted>>

Dispatched(r) ==
    /\ sending[r] # NoAlert
    /\ sending' = [sending EXCEPT ![r] = NoAlert]
    /\ UNCHANGED <<probeVars, seen, pending, claim, sentVars, pastVars>>

\* The window ends.
Lapse ==
    /\ claim # NoClaim
    /\ claim' = NoClaim
    /\ orderly' = (orderly /\ Settled)
    /\ UNCHANGED <<probeVars, seen, pending, sending, sentVars, failed, restarted>>

\* A replica stops at any point and starts anew: what it knew is lost.
Restart(r) ==
    /\ seen' = [seen EXCEPT ![r] = Healthy]
    /\ pending' = [pending EXCEPT ![r] = << >>]
    /\ sending' = [sending EXCEPT ![r] = NoAlert]
    /\ restarted' = TRUE
    /\ orderly' = (orderly /\ truth \in {Healthy, claim})
    /\ UNCHANGED <<probeVars, claim, sentVars, failed>>

ReplicaNext ==
    \/ \E s \in Status : Change(s)
    \/ \E r \in Replica :
         \/ Notice(r)
         \/ ClaimWins(r) \/ ClaimRefused(r) \/ ClaimFails(r) \/ Dispatched(r)
         \/ Restart(r)
    \/ Lapse

ReplicaSpec == ReplicaInit /\ [][ReplicaNext]_replicaVars

-----------------------------------------------------------------------------
(* Properties.                                                             *)

\* "One replica sends each change" (_claim_alert): as long as replicas notice
\* changes within the window, and before the next one, no alert is sent twice,
\* by whichever replicas and through restarts of them.
SentOnce ==
    orderly /\ ~failed => \A k \in 0 .. MaxChanges : times[k] <= 1

\* Deduplication hides no change in the end: once every replica has dealt with
\* what it saw, in whatever order and at whatever lag, the last alert sent was
\* of the status that is true -- as long as the storage answers every claim.
FinalIsSent == Settled /\ ~failed /\ ~restarted => lastSent = truth

\* "A probe that fails, recovers and fails again inside the window alerts each
\* time" (DOCS.md): the same whether claims fail or not.
RefailureIsSent == Settled /\ ~restarted => lastSent = truth
=============================================================================
