----------------------------- MODULE RedisStorage -----------------------------
(***************************************************************************)
(* RedisProbeStorage.  A call takes its `now`, waits for a connection slot *)
(* and then runs as one MULTI/EXEC.  wait is the time between: what the    *)
(* transaction scores and prunes by `now` is that much behind.  Entries of *)
(* the sorted sets are scored by when the check was made, age ticks before *)
(* the transaction.                                                        *)
(*                                                                         *)
(* Left out: other versions' entries, clock differences between replicas,  *)
(* clear_latest, which nothing calls, configure, which is called before    *)
(* the first write; claim_alert is in ReplicaAlerts.                       *)
(***************************************************************************)
EXTENDS Retention

CONSTANTS
    Name, MaxResults, MaxAlerts, ResultTtl, AlertTtl,
    MaxLag,   \* bound: the age of an entry when it is written
    Margin,   \* _EXPIRY_MARGIN_MS
    Forever   \* a key without expiry

VARIABLES
    latestKey,   \* P:latest:<name>
    historyKey,  \* P:history:<name>
    alertsKey,   \* P:alerts
    index,       \* P:names: the age of each name's score, at most one entry
    indexLeft    \* its expiry

vars == <<latestKey, historyKey, alertsKey, index, indexLeft>>

\* Ages are told apart until the pruning of any call drops them.
Top(ttl) == ttl + MaxLag + 1

Left == 0 .. ResultTtl + AlertTtl + Margin \cup {Forever}

\* A key with its expiry; Redis deletes a key that expires or becomes empty.
Key(count, ttl) == [ages : Collections(count, Top(ttl)), left : Left]
Gone == [ages |-> << >>, left |-> 0]

TypeOK ==
    /\ latestKey \in [Name -> Key(1, ResultTtl)]
    /\ historyKey \in [Name -> Key(MaxResults, ResultTtl)]
    /\ alertsKey \in Key(MaxAlerts, AlertTtl)
    /\ index \in [Name -> Collections(1, Top(ResultTtl))]
    /\ indexLeft \in Left

Init ==
    /\ latestKey = [n \in Name |-> Gone]
    /\ historyKey = [n \in Name |-> Gone]
    /\ alertsKey = Gone
    /\ index = [n \in Name |-> << >>]
    /\ indexLeft = 0

\* zremrangebyscore of a call whose `now` is wait ticks behind.
Pruned(c, ttl, wait) == IF ttl = 0 THEN c ELSE Within(c, ttl + wait)

\* pexpire, or persist when nothing expires by age
Expiry(ttl) == IF ttl = 0 THEN Forever ELSE ttl + Margin

\* Mutant: a name keeps the score of its first write.
FirstIndex(n, wait) ==
    /\ index' = [m \in Name |->
           IF m = n /\ index[m] = << >> THEN <<wait>> ELSE Pruned(index[m], ResultTtl, wait)]
    /\ indexLeft' = Expiry(ResultTtl)

\* _index: queued in the transaction of every write of a result.
Index(n, wait) ==
    /\ index' = [m \in Name |-> IF m = n THEN <<wait>> ELSE Pruned(index[m], ResultTtl, wait)]
    /\ indexLeft' = Expiry(ResultTtl)

SetLatest(n, age, wait) ==
    /\ latestKey' = [latestKey EXCEPT ![n] =
           [ages |-> <<age>>, left |-> IF ResultTtl = 0 THEN Forever ELSE ResultTtl]]
    /\ Index(n, wait)
    /\ UNCHANGED <<historyKey, alertsKey>>

\* Mutant: the expiry is set once, when the key is created.
UnrefreshedAdded(key, age, count, ttl, wait) ==
    [ages |-> Newest(Pruned(Insert(key.ages, age), ttl, wait), count),
     left |-> IF key = Gone THEN Expiry(ttl) ELSE key.left]

\* zadd, zremrangebyscore, zremrangebyrank, pexpire.
Added(key, age, count, ttl, wait) ==
    [ages |-> Newest(Pruned(Insert(key.ages, age), ttl, wait), count), left |-> Expiry(ttl)]

AppendHistory(n, age, wait) ==
    /\ historyKey' = [historyKey EXCEPT ![n] = Added(@, age, MaxResults, ResultTtl, wait)]
    /\ Index(n, wait)
    /\ UNCHANGED <<latestKey, alertsKey>>

\* Prunes by the time its transaction is queued in, after the wait.
AppendAlert(age) ==
    /\ alertsKey' = Added(alertsKey, age, MaxAlerts, AlertTtl, 0)
    /\ UNCHANGED <<latestKey, historyKey, index, indexLeft>>

Forget(names) ==
    /\ latestKey' = [n \in Name |-> IF n \in names THEN Gone ELSE latestKey[n]]
    /\ historyKey' = [n \in Name |-> IF n \in names THEN Gone ELSE historyKey[n]]
    /\ index' = [n \in Name |-> IF n \in names THEN << >> ELSE index[n]]
    /\ indexLeft' = IF \A n \in Name : index'[n] = << >> THEN 0 ELSE indexLeft
    /\ UNCHANGED alertsKey

\* Redis: a key is gone once its expiry has passed.
Later(key, ttl) ==
    IF key.left = 0 THEN Gone
    ELSE [ages |-> Aged(key.ages, Top(ttl)),
          left |-> IF key.left = Forever THEN Forever ELSE key.left - 1]

Tick ==
    /\ latestKey' = [n \in Name |-> Later(latestKey[n], ResultTtl)]
    /\ historyKey' = [n \in Name |-> Later(historyKey[n], ResultTtl)]
    /\ alertsKey' = Later(alertsKey, AlertTtl)
    /\ index' = [n \in Name |-> Later([ages |-> index[n], left |-> indexLeft], ResultTtl).ages]
    /\ indexLeft' = Later([ages |-> << >>, left |-> indexLeft], ResultTtl).left

\* What the reads return (zrevrangebyscore with a cutoff and a count; _fresh).
ShownLatest  == [n \in Name |-> Within(latestKey[n].ages, ResultTtl)]
ShownHistory == [n \in Name |-> Newest(Within(historyKey[n].ages, ResultTtl), MaxResults)]
ShownAlerts  == Newest(Within(alertsKey.ages, AlertTtl), MaxAlerts)

\* _names: the probes get_all_latest and a get_history of all show.
Listed == {n \in Name : Within(index[n], ResultTtl) # << >>}
==============================================================================
