----------------------------- MODULE ProbeStorage -----------------------------
(***************************************************************************)
(* What a storage backend promises the registry: the latest result of each *)
(* probe, a rolling history of each probe and a log of alerts.  A read     *)
(* shows the newest entries within the bounds on count and age, oldest     *)
(* first, and nothing a forget() removed.                                  *)
(*                                                                         *)
(* An entry may be up to MaxLag ticks old when it is written: its age is   *)
(* counted from when the check was made, for a backend that keeps that.    *)
(***************************************************************************)
EXTENDS Retention

CONSTANTS Name, MaxResults, MaxAlerts, ResultTtl, AlertTtl, MaxLag

VARIABLES
    latest,   \* what get_latest shows of each probe, at most one entry
    history,  \* what get_history shows of each probe
    alerts    \* what get_alerts shows

vars == <<latest, history, alerts>>

Top(ttl) == IF ttl > MaxLag THEN ttl + 1 ELSE MaxLag + 1

Kept(c, count, ttl) == Newest(Within(c, ttl), count)

Init ==
    /\ latest = [n \in Name |-> << >>]
    /\ history = [n \in Name |-> << >>]
    /\ alerts = << >>

SetLatest(n, age) ==
    /\ latest' = [latest EXCEPT ![n] = Kept(<<age>>, 1, ResultTtl)]
    /\ UNCHANGED <<history, alerts>>

AppendHistory(n, age) ==
    /\ history' = [history EXCEPT ![n] = Kept(Insert(@, age), MaxResults, ResultTtl)]
    /\ UNCHANGED <<latest, alerts>>

AppendAlert(age) ==
    /\ alerts' = Kept(Insert(alerts, age), MaxAlerts, AlertTtl)
    /\ UNCHANGED <<latest, history>>

Forget(names) ==
    /\ latest' = [n \in Name |-> IF n \in names THEN << >> ELSE latest[n]]
    /\ history' = [n \in Name |-> IF n \in names THEN << >> ELSE history[n]]
    /\ UNCHANGED alerts

Tick ==
    LET Later(c, ttl) == Within(Aged(c, Top(ttl)), ttl)
    IN  /\ latest' = [n \in Name |-> Later(latest[n], ResultTtl)]
        /\ history' = [n \in Name |-> Later(history[n], ResultTtl)]
        /\ alerts' = Later(alerts, AlertTtl)

Next ==
    \/ \E n \in Name, age \in 0 .. MaxLag : SetLatest(n, age) \/ AppendHistory(n, age)
    \/ \E age \in 0 .. MaxLag : AppendAlert(age)
    \/ \E names \in (SUBSET Name) \ {{}} : Forget(names)
    \/ Tick

Spec == Init /\ [][Next]_vars
==============================================================================
