----------------------------- MODULE MCEndpoints -----------------------------
(***************************************************************************)
(* Endpoints with a probe that declares a tag and one that reports a tag   *)
(* of its own; the second may not be registered when a request names it.   *)
(***************************************************************************)
EXTENDS Endpoints, TLC

CONSTANTS a, b, z, t, o

Tags == {t, o}
DeclaredTags == a :> {t} @@ b :> {}
TagsOfTheirOwn == a :> {{}} @@ b :> {{o}}

QueryOf(endpoint, probes, tags) ==
    [endpoint |-> endpoint, probes |-> probes, tags |-> tags]

Queries ==
    {QueryOf("ready", {}, {}), QueryOf("ready", {a, b}, {}), QueryOf("ready", {}, {t}),
     QueryOf("status", {}, {o}), QueryOf("stream", {}, {z})}
=============================================================================
