------------------------------ MODULE Retention ------------------------------
(***************************************************************************)
(* Collections with bounds on count and age.  A collection is the sequence *)
(* of its entries, oldest first; an entry is its age in ticks.  Payloads   *)
(* are left out: no bound reads them, and every entry is stored apart from *)
(* its equals (a deque, or a sorted set whose members carry a tag).        *)
(*                                                                         *)
(* A time-to-live of 0 means that nothing expires.                         *)
(***************************************************************************)
EXTENDS Naturals, Sequences, FiniteSets

\* The entry joins those of its age as the newest: ties keep their order.
Insert(c, age) ==
    LET older == Cardinality({i \in DOMAIN c : c[i] >= age})
    IN  SubSeq(c, 1, older) \o <<age>> \o SubSeq(c, older + 1, Len(c))

Newest(c, count) ==
    IF Len(c) <= count THEN c ELSE SubSeq(c, Len(c) - count + 1, Len(c))

\* The collection is ordered: as many of its newest entries as have not expired.
Within(c, ttl) ==
    IF ttl = 0 THEN c ELSE Newest(c, Cardinality({i \in DOMAIN c : c[i] <= ttl}))

\* One tick later.  Ages are told apart up to top.
Aged(c, top) == [i \in DOMAIN c |-> IF c[i] < top THEN c[i] + 1 ELSE top]

Ordered(c) == \A i \in DOMAIN c, j \in DOMAIN c : i < j => c[i] >= c[j]

\* Every collection of at most count entries of ages up to top.
Collections(count, top) ==
    {c \in UNION {[1 .. k -> 0 .. top] : k \in 0 .. count} : Ordered(c)}
==============================================================================
