--------------------------- MODULE MCRouteMonitor ---------------------------
(***************************************************************************)
(* RouteMonitor on a small application: two routes of its own, and a       *)
(* sub-application mounted under two prefixes, with a router of two routes.*)
(* The router's first route has the name of one of the application's own.  *)
(***************************************************************************)
EXTENDS RouteMonitor, TLC

CONSTANTS app, inc, v1, v2, r1, r2, r3, w, h, u,
          list, read, write, custom

Tree ==
    app :> <<r1, w, v1, v2, h>> @@ v1 :> <<inc>> @@ v2 :> <<inc>> @@ inc :> <<r2, r3>>

TreePrefixes == app :> << >> @@ v1 :> <<v1>> @@ v2 :> <<v2>> @@ inc :> <<inc>>

\* r1 and r2 are declared with handlers of one name.
Names == r1 :> list @@ r2 :> list @@ r3 :> read @@ w :> write @@ h :> read

\* The user's name_fn is one-to-one, but careless about r3.
CustomNames == [r \in Route |-> IF r = r3 THEN BadName ELSE <<custom, r>>]

\* Each route has a handler function of its own.
Functions == [r \in Route |-> r]

\* @probe.watch is on w's handler; its probe happens to be called like r1.
UserNames == u :> list

\* What a request for each route looks like; names are qualified with it.
At(r, path) == [route |-> r, path |-> path]
Paths == {At(r1, << >>), At(w, << >>), At(h, << >>)}
              \cup {At(r, <<v, inc>>) : r \in {r2, r3}, v \in {v1, v2}}
Qualifications == [c \in Paths |-> <<Names[c.route], c>>]

\* No filter, and an exclude_paths that leaves only what the second mount serves.
Everything == DOMAIN Qualifications
SecondOnly == {c \in Everything : c.path # << >> /\ Head(c.path) = v2}

Filters == {Everything, SecondOnly}
=============================================================================
