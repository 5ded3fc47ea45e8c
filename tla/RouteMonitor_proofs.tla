------------------------- MODULE RouteMonitor_proofs -------------------------
(***************************************************************************)
(* Theorems about monitoring: which probes there are for the routes of an  *)
(* application, what their handlers and names are, and what is served.     *)
(*                                                                         *)
(* The tree of routers and the loop of _monitor_routes are recursive       *)
(* functions and folds.  That such a function exists follows from the      *)
(* depth of the tree and the length of the fold (SequenceOps_proofs); what *)
(* every round of the loop keeps, the call keeps.                          *)
(***************************************************************************)
EXTENDS RouteMonitor, SequenceOps_proofs

-----------------------------------------------------------------------------
(* The walk over the tree.                                                 *)

\* What the definition of FlattenSeq chooses.
Flattened(ss, g) ==
    g = [i \in 1 .. Len(ss) |-> IF i = 1 THEN ss[i] ELSE g[i - 1] \o ss[i]]

LEMMA FlattenIs ==
    \A ss : FlattenSeq(ss) = IF Len(ss) = 0 THEN ss ELSE (CHOOSE g : Flattened(ss, g))[Len(ss)]
BY DEF FlattenSeq, Flattened

LEMMA FlattenedExists ==
    ASSUME NEW T, NEW ss \in Seq(Seq(T)), Len(ss) # 0
    PROVE  \E g : Flattened(ss, g)
<1> DEFINE n == Len(ss) - 1
           F == [i \in 1 .. n |-> [u \in Seq(T) |-> u \o ss[i + 1]]]
<1>1. Len(ss) \in Nat /\ n \in Nat /\ Len(ss) = n + 1
  OBVIOUS
<1>2. \A i \in 1 .. Len(ss) : ss[i] \in Seq(T)
  OBVIOUS
<1> HIDE DEF n
<1>3. \A i \in 1 .. n : ss[i + 1] \in Seq(T)
  BY <1>1, <1>2
<1>4. \A i \in 1 .. n, u \in Seq(T) : u \o ss[i + 1] \in Seq(T)
  BY <1>3, ConcatProperties
<1>5. F \in [1 .. n -> [Seq(T) -> Seq(T)]]
  BY <1>4
<1>6. \A i \in 1 .. n, u \in Seq(T) : F[i][u] = u \o ss[i + 1]
  OBVIOUS
<1> HIDE DEF F
<1>7. PICK f \in [0 .. n -> Seq(T)] : Iterated(f, n, ss[1], F)
  <2> DEFINE D == Seq(T)
             d == ss[1]
  <2>1. d \in D /\ F \in [1 .. n -> [D -> D]]
    BY <1>1, <1>2, <1>5
  <2> HIDE DEF D, d
  <2>2. \E f \in [0 .. n -> D] : Iterated(f, n, d, F)
    BY <1>1, <2>1, Iterates
  <2> QED BY <2>2 DEF D, d
<1>8. \A i \in 1 .. n : f[i - 1] \in Seq(T) /\ f[i] = f[i - 1] \o ss[i + 1]
  <2> TAKE i \in 1 .. n
  <2>1. i - 1 \in 0 .. n
    BY <1>1
  <2>2. f[i - 1] \in Seq(T)
    BY <2>1
  <2> QED BY <1>6, <1>7, <2>2 DEF Iterated
<1> DEFINE g == [i \in 1 .. Len(ss) |-> f[i - 1]]
<1>9. ASSUME NEW i \in 1 .. Len(ss) PROVE g[i] = IF i = 1 THEN ss[i] ELSE g[i - 1] \o ss[i]
  <2>1. CASE i = 1
    BY <1>7, <2>1 DEF Iterated
  <2>2. CASE i # 1
    <3>1. i - 1 \in 1 .. n /\ i - 1 \in 1 .. Len(ss) /\ (i - 1) + 1 = i
      BY <1>1, <2>2
    <3>2. g[i - 1] = f[(i - 1) - 1]
      BY <3>1
    <3>3. f[i - 1] = f[(i - 1) - 1] \o ss[i]
      BY <1>8, <3>1
    <3> QED BY <2>2, <3>2, <3>3
  <2> QED BY <2>1, <2>2
<1>10. g = [i \in 1 .. Len(ss) |-> IF i = 1 THEN ss[i] ELSE g[i - 1] \o ss[i]]
  <2> DEFINE h == [i \in 1 .. Len(ss) |-> IF i = 1 THEN ss[i] ELSE g[i - 1] \o ss[i]]
  <2>1. \A i \in 1 .. Len(ss) : g[i] = h[i]
    BY <1>9
  <2>2. DOMAIN g = 1 .. Len(ss) /\ DOMAIN h = 1 .. Len(ss)
    OBVIOUS
  <2> QED BY <2>1
<1> QED BY <1>10 DEF Flattened

LEMMA FlattenType ==
    ASSUME NEW T, NEW ss \in Seq(Seq(T))
    PROVE  FlattenSeq(ss) \in Seq(T)
<1>1. CASE Len(ss) = 0
  <2>1. ss = << >>
    BY <1>1, EmptySeq
  <2>2. FlattenSeq(ss) = ss
    BY <1>1, FlattenIs
  <2>3. << >> \in Seq(T)
    OBVIOUS
  <2> QED BY <2>1, <2>2, <2>3
<1>2. CASE Len(ss) # 0
  <2>1. PICK g : Flattened(ss, g) /\ FlattenSeq(ss) = g[Len(ss)]
    BY <1>2, FlattenedExists, FlattenIs
  <2>2. \A i \in 1 .. Len(ss) : g[i] = IF i = 1 THEN ss[i] ELSE g[i - 1] \o ss[i]
    BY <2>1 DEF Flattened
  <2> DEFINE n == Len(ss) - 1
             P == {i \in 0 .. n : g[i + 1] \in Seq(T)}
  <2>3. Len(ss) \in Nat /\ n \in Nat /\ Len(ss) = n + 1 /\ \A i \in 1 .. Len(ss) : ss[i] \in Seq(T)
    BY <1>2
  <2> HIDE DEF n
  <2>4. 0 \in P
    BY <2>2, <2>3
  <2>5. ASSUME NEW i \in 1 .. n, i - 1 \in P PROVE i \in P
    <3>1. i + 1 \in 1 .. Len(ss) /\ i + 1 # 1 /\ (i + 1) - 1 = i /\ (i - 1) + 1 = i /\ i \in 0 .. n
      BY <2>3
    <3>2. g[i] \in Seq(T)
      BY <2>5, <3>1
    <3>3. g[i + 1] = g[i] \o ss[i + 1]
      BY <2>2, <3>1
    <3>4. ss[i + 1] \in Seq(T)
      BY <2>3, <3>1
    <3>5. g[i + 1] \in Seq(T)
      BY <3>2, <3>3, <3>4, ConcatProperties
    <3> QED BY <3>1, <3>5
  <2> HIDE DEF P
  <2>6. \A i \in 1 .. n : i - 1 \in P => i \in P
    BY <2>5
  <2>7. \A i \in 0 .. n : i \in P
    BY <2>3, <2>4, <2>6, Upto, Zenon
  <2>8. n \in P
    BY <2>3, <2>7
  <2> QED BY <2>1, <2>3, <2>8 DEF P
<1> QED BY <1>1, <1>2

\* The candidates of a container, given those of the containers in it.
OfChild(W, child) ==
    IF child \in Route THEN <<RouteCandidate(child)>>
    ELSE [j \in DOMAIN W[child] |-> Under(child, W[child][j])]
OfChildren(W, c) == [i \in DOMAIN Children[c] |-> OfChild(W, Children[c][i])]
WalkStep(W, c) == FlattenSeq(OfChildren(W, c))

Walked(W) == W = [c \in Container |-> WalkStep(W, c)]

LEMMA WalkIs == Walk = CHOOSE W : Walked(W)
BY DEF Walk, Walked, WalkStep, OfChildren, OfChild

LEMMA ChildrenType ==
    \A c \in Container : /\ Children[c] \in Seq(Route \cup Container)
                         /\ DOMAIN Children[c] = 1 .. Len(Children[c])
                         /\ Len(Children[c]) \in Nat
                         /\ \A i \in DOMAIN Children[c] : Children[c][i] \in Route \cup Container
<1> SUFFICES ASSUME NEW c \in Container
             PROVE  /\ Children[c] \in Seq(Route \cup Container)
                    /\ DOMAIN Children[c] = 1 .. Len(Children[c])
                    /\ Len(Children[c]) \in Nat
                    /\ \A i \in DOMAIN Children[c] : Children[c][i] \in Route \cup Container
  OBVIOUS
<1>1. Children[c] \in Seq(Route \cup Container)
  BY TreeAssumption
<1> QED BY <1>1

LEMMA UnderType ==
    ASSUME NEW k \in Container, NEW d \in Candidate
    PROVE  Under(k, d) \in Candidate
<1>1. Prefix[k] \in Seq(Segment) /\ d.path \in Seq(Segment) /\ d.route \in Route
  BY TreeAssumption DEF Candidate
<1>2. Prefix[k] \o d.path \in Seq(Segment)
  BY <1>1, ConcatProperties
<1> QED BY <1>1, <1>2 DEF Under, Candidate

LEMMA OfChildType ==
    ASSUME NEW W, NEW k \in Route \cup Container,
           k \in Container => W[k] \in Seq(Candidate)
    PROVE  OfChild(W, k) \in Seq(Candidate)
<1>1. CASE k \in Route
  <2>1. << >> \in Seq(Segment)
    OBVIOUS
  <2>2. RouteCandidate(k) \in Candidate
    BY <1>1, <2>1 DEF RouteCandidate, Candidate
  <2> QED BY <1>1, <2>2 DEF OfChild
<1>2. CASE k \notin Route
  <2>1. k \in Container /\ W[k] \in Seq(Candidate)
    BY <1>2
  <2> DEFINE w == W[k]
  <2>2. w \in Seq(Candidate)
    BY <2>1
  <2>3. OfChild(W, k) = [j \in DOMAIN w |-> Under(k, w[j])]
    BY <1>2 DEF OfChild
  <2> HIDE DEF w
  <2>4. DOMAIN w = 1 .. Len(w) /\ Len(w) \in Nat /\ \A j \in 1 .. Len(w) : w[j] \in Candidate
    BY <2>2
  <2>5. \A j \in 1 .. Len(w) : Under(k, w[j]) \in Candidate
    BY <2>1, <2>4, UnderType
  <2> QED BY <2>3, <2>4, <2>5
<1> QED BY <1>1, <1>2

LEMMA WalkStepType ==
    ASSUME NEW W, NEW c \in Container,
           \A i \in DOMAIN Children[c] :
              Children[c][i] \in Container => W[Children[c][i]] \in Seq(Candidate)
    PROVE  WalkStep(W, c) \in Seq(Candidate)
<1> DEFINE n == Len(Children[c])
           ss == OfChildren(W, c)
<1>1. n \in Nat /\ DOMAIN Children[c] = 1 .. n
  BY ChildrenType
<1>2. \A i \in DOMAIN Children[c] : OfChild(W, Children[c][i]) \in Seq(Candidate)
  <2> TAKE i \in DOMAIN Children[c]
  <2>1. Children[c][i] \in Route \cup Container
    BY ChildrenType
  <2> QED BY <2>1, OfChildType
<1>3. ss \in [1 .. n -> Seq(Candidate)]
  BY <1>1, <1>2 DEF OfChildren
<1> HIDE DEF ss, n
<1>4. ss \in Seq(Seq(Candidate))
  BY <1>1, <1>3
<1>5. FlattenSeq(ss) \in Seq(Candidate)
  BY <1>4, FlattenType
<1> QED BY <1>5 DEF WalkStep, ss

LEMMA WalkStepAgrees ==
    ASSUME NEW W, NEW V, NEW c \in Container,
           \A i \in DOMAIN Children[c] :
              Children[c][i] \in Container => W[Children[c][i]] = V[Children[c][i]]
    PROVE  WalkStep(W, c) = WalkStep(V, c)
<1>1. \A i \in DOMAIN Children[c] : OfChild(W, Children[c][i]) = OfChild(V, Children[c][i])
  <2> TAKE i \in DOMAIN Children[c]
  <2>1. Children[c][i] \in Route \cup Container
    BY ChildrenType
  <2> QED BY <2>1 DEF OfChild
<1>2. OfChildren(W, c) = OfChildren(V, c)
  BY <1>1 DEF OfChildren
<1> QED BY <1>2 DEF WalkStep

\* What no container can exceed: it holds only containers of less depth.
Depth(depth) ==
    /\ depth \in [Container -> Nat]
    /\ \E n \in Nat : \A c \in Container : depth[c] < n
    /\ \A c \in Container : \A i \in DOMAIN Children[c] :
          Children[c][i] \in Container => depth[Children[c][i]] < depth[c]

LEMMA DepthExists == \E depth : Depth(depth)
<1>1. PICK depth \in [Container -> 0 .. Cardinality(Container)] :
          \A c \in Container : \A i \in DOMAIN Children[c] :
             Children[c][i] \in Container => depth[Children[c][i]] < depth[c]
  BY TreeAssumption
<1> DEFINE n == Cardinality(Container) + 1
<1>2. Cardinality(Container) \in Nat
  BY TreeAssumption, FS_CardinalityType
<1>3. n \in Nat /\ \A c \in Container : depth[c] < n /\ depth[c] \in Nat
  BY <1>1, <1>2
<1>4. depth \in [Container -> Nat]
  BY <1>1, <1>3
<1> QED BY <1>1, <1>3, <1>4 DEF Depth

LEMMA WalkExists == \E W : Walked(W)
<1>1. PICK depth : Depth(depth)
  BY DepthExists
<1>2. PICK n \in Nat : \A c \in Container : depth[c] < n
  BY <1>1 DEF Depth
<1> DEFINE D == [Container -> Seq(Candidate)]
           F == [i \in 1 .. n |-> [W \in D |-> [c \in Container |-> WalkStep(W, c)]]]
           d == [c \in Container |-> << >>]
<1>3. \A W \in D : [c \in Container |-> WalkStep(W, c)] \in D
  <2> TAKE W \in D
  <2>1. \A c \in Container : WalkStep(W, c) \in Seq(Candidate)
    BY WalkStepType
  <2> QED BY <2>1
<1>4. d \in D
  OBVIOUS
<1>5. F \in [1 .. n -> [D -> D]]
  BY <1>3
<1>6. \A i \in 1 .. n, W \in D : F[i][W] = [c \in Container |-> WalkStep(W, c)]
  OBVIOUS
<1>7. \A W \in D, c \in Container : W[c] \in Seq(Candidate)
  OBVIOUS
<1> HIDE DEF D, F, d
<1>8. PICK f \in [0 .. n -> D] : Iterated(f, n, d, F)
  BY <1>4, <1>5, Iterates
<1>9. \A i \in 1 .. n : i - 1 \in 0 .. n /\ f[i] = [c \in Container |-> WalkStep(f[i - 1], c)]
  <2> TAKE i \in 1 .. n
  <2>1. i - 1 \in 0 .. n
    OBVIOUS
  <2>2. f[i - 1] \in D
    BY <2>1
  <2> QED BY <1>6, <1>8, <2>1, <2>2 DEF Iterated
<1> DEFINE P == {i \in 0 .. n : \A c \in Container : depth[c] < i => f[i][c] = WalkStep(f[i], c)}
<1>10. 0 \in P
  BY <1>1 DEF Depth
<1>11. ASSUME NEW i \in 1 .. n, i - 1 \in P PROVE i \in P
  <2>1. \A k \in Container : depth[k] < i - 1 => f[i][k] = f[i - 1][k]
    BY <1>9, <1>11
  <2>2. ASSUME NEW c \in Container, depth[c] < i
        PROVE  f[i][c] = WalkStep(f[i], c)
    <3>1. \A j \in DOMAIN Children[c] :
             Children[c][j] \in Container => f[i][Children[c][j]] = f[i - 1][Children[c][j]]
      <4> SUFFICES ASSUME NEW j \in DOMAIN Children[c], Children[c][j] \in Container
                   PROVE  f[i][Children[c][j]] = f[i - 1][Children[c][j]]
        OBVIOUS
      <4> DEFINE k == Children[c][j]
      <4>1. k \in Container /\ depth[k] < depth[c] /\ depth[k] \in Nat /\ depth[c] \in Nat
        BY <1>1 DEF Depth
      <4> HIDE DEF k
      <4>2. depth[k] < i - 1
        BY <2>2, <4>1
      <4>3. f[i][k] = f[i - 1][k]
        BY <2>1, <4>1, <4>2
      <4> QED BY <4>3 DEF k
    <3>2. WalkStep(f[i], c) = WalkStep(f[i - 1], c)
      BY <3>1, WalkStepAgrees
    <3> QED BY <1>9, <3>2
  <2>3. i \in 0 .. n
    OBVIOUS
  <2> QED BY <2>2, <2>3
<1> HIDE DEF P
<1>12. \A i \in 1 .. n : i - 1 \in P => i \in P
  BY <1>11
<1>13. \A i \in 0 .. n : i \in P
  BY <1>2, <1>10, <1>12, Upto, Zenon
<1>14. n \in P /\ n \in 0 .. n
  BY <1>13
<1>15. \A c \in Container : f[n][c] = WalkStep(f[n], c)
  BY <1>2, <1>14 DEF P
<1>16. f[n] = [c \in Container |-> WalkStep(f[n], c)]
  <2>1. f[n] \in [Container -> Seq(Candidate)]
    BY <1>14 DEF D
  <2> DEFINE h == [c \in Container |-> WalkStep(f[n], c)]
             g == f[n]
  <2>2. DOMAIN g = Container /\ DOMAIN h = Container /\ \A c \in Container : g[c] = h[c]
    BY <1>15, <2>1
  <2>3. g = [c \in Container |-> g[c]] /\ h = [c \in Container |-> h[c]]
    BY <2>1
  <2> QED BY <2>2, <2>3
<1> QED BY <1>16 DEF Walked

\* _iter_app_routes yields candidates, whatever the tree.
LEMMA WalkType == \A c \in Container : Walk[c] \in Seq(Candidate)
<1>1. Walked(Walk)
  BY WalkIs, WalkExists
<1>2. \A c \in Container : Walk[c] = WalkStep(Walk, c)
  BY <1>1 DEF Walked
<1>3. PICK depth : Depth(depth)
  BY DepthExists
<1> DEFINE T == {depth[c] : c \in {k \in Container : Walk[k] \notin Seq(Candidate)}}
<1>4. ASSUME T # {} PROVE FALSE
  <2>1. T \in SUBSET Nat
    BY <1>3 DEF Depth
  <2>2. PICK x \in T : \A y \in T : x <= y
    <3> HIDE DEF T
    <3> QED BY <1>4, <2>1, NatLeast
  <2>3. PICK c \in Container : Walk[c] \notin Seq(Candidate) /\ depth[c] = x
    OBVIOUS
  <2>4. \A i \in DOMAIN Children[c] :
           Children[c][i] \in Container => Walk[Children[c][i]] \in Seq(Candidate)
    <3> SUFFICES ASSUME NEW i \in DOMAIN Children[c], Children[c][i] \in Container
                 PROVE  Walk[Children[c][i]] \in Seq(Candidate)
      OBVIOUS
    <3> DEFINE k == Children[c][i]
    <3>1. k \in Container /\ depth[k] < x /\ depth[k] \in Nat /\ x \in Nat
      BY <1>3, <2>3 DEF Depth
    <3> HIDE DEF k
    <3>2. Walk[k] \notin Seq(Candidate) => depth[k] \in T
      BY <3>1
    <3> HIDE DEF T
    <3>3. Walk[k] \in Seq(Candidate)
      BY <2>2, <3>1, <3>2
    <3> QED BY <3>3 DEF k
  <2> QED BY <1>2, <2>3, <2>4, WalkStepType
<1> QED BY <1>4

LEMMA InTreeType == \A c \in Container : InTree(c) \subseteq Route
<1> SUFFICES ASSUME NEW c \in Container, NEW i \in DOMAIN Walk[c]
             PROVE  Walk[c][i].route \in Route
  BY DEF InTree
<1>1. Walk[c] \in Seq(Candidate)
  BY WalkType
<1>2. Walk[c][i] \in Candidate
  BY <1>1
<1> QED BY <1>2 DEF Candidate

LEMMA OfRoutesType ==
    ASSUME NEW s \in Seq(Candidate), NEW R
    PROVE  OfRoutes(s, R) \in Seq(Candidate)
BY WithoutItems DEF OfRoutes

LEMMA CandidatesType ==
    /\ AppCandidates \in Seq(Candidate)
    /\ \A router \in Router : RouterCandidates(router) \in Seq(Candidate)
<1>1. \A s \in Seq(Candidate) : Attached(s) \in Seq(Candidate)
  BY OfRoutesType DEF Attached
<1>2. AppCandidates \in Seq(Candidate)
  BY <1>1, WalkType, TreeAssumption DEF AppCandidates
<1>3. ASSUME NEW router \in Router PROVE RouterCandidates(router) \in Seq(Candidate)
  <2>1. Attached(Walk[router]) \in Seq(Candidate)
    BY <1>1, WalkType, TreeAssumption
  <2>2. Served(router) \in Seq(Candidate)
    BY <1>2, OfRoutesType DEF Served
  <2> DEFINE R == Route \ Serving({Function[c.route] : c \in Range(Served(router))})
             u == OfRoutes(Attached(Walk[router]), R)
  <2>3. u \in Seq(Candidate)
    BY <2>1, OfRoutesType
  <2>4. RouterCandidates(router) = Served(router) \o u
    BY DEF RouterCandidates
  <2> HIDE DEF u
  <2> QED BY <2>2, <2>3, <2>4, ConcatProperties
<1> QED BY <1>2, <1>3

-----------------------------------------------------------------------------
(* Serving what was installed last.                                        *)

\* What is not reached from the application serves no request, so its cache
\* stays empty; caches that are reached are emptied by every call that returns.
CacheInv ==
    /\ DOMAIN cache = Included
    /\ \A c \in Included : c \notin Reached[Application] => cache[c] = Unbuilt
    /\ ServedAsMonitored

LEMMA ResetType ==
    \A s : DOMAIN cache = Included => DOMAIN ResetCaches(s) = Included
BY DEF ResetCaches

LEMMA MonitorKeepsCaches ==
    ASSUME CacheInv, NEW candidates, NEW o, MonitorRoutes(candidates, o)
    PROVE  CacheInv'
<1> DEFINE s == MonitorAll(candidates, o)
<1>1. cache' = ResetCaches(s) /\ aborted' = (s.stop = "raised")
  BY DEF MonitorRoutes
<1> HIDE DEF s
<1>2. DOMAIN cache' = Included
  BY <1>1, ResetType DEF CacheInv
<1>3. CASE s.stop = "raised"
  <2>1. cache' = cache /\ aborted'
    BY <1>1, <1>3 DEF ResetCaches
  <2> QED BY <2>1 DEF CacheInv, ServedAsMonitored
<1>4. CASE s.stop # "raised"
  <2>1. cache' = [c \in Included |-> IF c \in Reached[Application] THEN Unbuilt ELSE cache[c]]
    BY <1>1, <1>4 DEF ResetCaches
  <2>2. \A c \in Included : cache'[c] = Unbuilt
    BY <2>1 DEF CacheInv
  <2> QED BY <1>2, <2>2 DEF CacheInv, ServedAsMonitored
<1> QED BY <1>3, <1>4

LEMMA ServeKeepsCaches ==
    ASSUME CacheInv, NEW k \in Included, Serve(k)
    PROVE  CacheInv'
<1>1. cache' = [cache EXCEPT ![k] = [r \in InTree(k) |-> handler[r]]]
      /\ handler' = handler /\ aborted' = aborted /\ k \in Reached[Application]
  BY DEF Serve
<1>2. DOMAIN cache' = Included
      /\ \A c \in Included : c # k => cache'[c] = cache[c]
  BY <1>1 DEF CacheInv
<1>3. cache'[k] = [r \in InTree(k) |-> handler[r]]
  BY <1>1 DEF CacheInv
<1>4. \A r \in InTree(k) : cache'[k][r] = handler'[r]
  BY <1>1, <1>3
<1>5. \A c \in Included : c \notin Reached[Application] => cache'[c] = Unbuilt
  BY <1>1, <1>2 DEF CacheInv
<1>6. ServedAsMonitored'
  <2>1. CASE aborted
    BY <1>1, <2>1 DEF ServedAsMonitored
  <2>2. CASE ~aborted
    <3> SUFFICES ASSUME NEW c \in Included, cache'[c] # Unbuilt, NEW r \in InTree(c)
                 PROVE  cache'[c][r] = handler'[r]
      BY DEF ServedAsMonitored
    <3> QED BY <1>1, <1>2, <1>4, <2>2 DEF ServedAsMonitored, CacheInv
  <2> QED BY <2>1, <2>2
<1> QED BY <1>2, <1>5, <1>6 DEF CacheInv

LEMMA AttachKeepsCaches ==
    ASSUME CacheInv, NEW t \in LateRoute, Attach(t)
    PROVE  CacheInv'
<1>1. cache' = [c \in Included |-> IF t \in InTree(c) THEN Unbuilt ELSE cache[c]]
      /\ handler' = handler /\ aborted' = aborted
  BY DEF Attach
<1>2. DOMAIN cache' = Included
      /\ \A c \in Included : cache'[c] = Unbuilt \/ cache'[c] = cache[c]
  BY <1>1
<1> QED BY <1>1, <1>2 DEF CacheInv, ServedAsMonitored

\* Routers serve the handlers installed last: whatever the routes, routers and
\* filters, no cache holds an endpoint that was replaced, unless the last
\* monitoring call raised before it emptied the caches.
THEOREM ServedIsInstalled == Spec => []ServedAsMonitored
<1>1. Init => CacheInv
  BY DEF Init, CacheInv, ServedAsMonitored
<1>2. CacheInv /\ [Next]_vars => CacheInv'
  <2> SUFFICES ASSUME CacheInv, [Next]_vars PROVE CacheInv'
    OBVIOUS
  <2>1. CASE UNCHANGED <<cache, handler, aborted>>
    BY <2>1 DEF CacheInv, ServedAsMonitored
  <2>2. ASSUME NEW p \in UserProbe, Add(p) \/ GroupAdd(p) PROVE CacheInv'
    BY <2>1, <2>2 DEF Add, GroupAdd
  <2>3. CASE Include
    BY <2>1, <2>3 DEF Include
  <2>4. CASE DiscoverRoutes
    BY <2>4, MonitorKeepsCaches DEF DiscoverRoutes
  <2>5. ASSUME NEW router \in Router, WatchRouter(router) PROVE CacheInv'
    BY <2>5, MonitorKeepsCaches DEF WatchRouter
  <2>6. CASE UNCHANGED vars
    BY <2>1, <2>6 DEF vars
  <2> QED BY <2>2, <2>3, <2>4, <2>5, <2>6, AttachKeepsCaches, ServeKeepsCaches DEF Next
<1>3. CacheInv => ServedAsMonitored
  BY DEF CacheInv
<1> QED BY <1>1, <1>2, <1>3, PTL DEF Spec

-----------------------------------------------------------------------------
(* The loop of _monitor_routes.                                            *)

\* What the definition of MonitorAll chooses.
Folded(candidates, o, g) ==
    g = [i \in 0 .. Len(candidates) |->
            IF i = 0 THEN Before ELSE MonitorOne(g[i - 1], candidates[i], o)]

LEMMA FoldIs ==
    \A candidates, o :
        MonitorAll(candidates, o) = (CHOOSE g : Folded(candidates, o, g))[Len(candidates)]
BY DEF MonitorAll, Folded

\* What holds before the loop and is kept by each of its rounds holds after it.
LEMMA FoldIn ==
    ASSUME NEW D, Before \in D, NEW candidates \in Seq(Candidate), NEW o,
           \A s \in D : \A c \in Candidate : MonitorOne(s, c, o) \in D
    PROVE  MonitorAll(candidates, o) \in D
<1> DEFINE n == Len(candidates)
           F == [i \in 1 .. n |-> [s \in D |-> MonitorOne(s, candidates[i], o)]]
           d == Before
<1>1. n \in Nat /\ \A i \in 1 .. n : candidates[i] \in Candidate
  OBVIOUS
<1> HIDE DEF n
<1>2. F \in [1 .. n -> [D -> D]]
  BY <1>1
<1>3. \A i \in 1 .. n, s \in D : F[i][s] = MonitorOne(s, candidates[i], o)
  OBVIOUS
<1>4. d \in D
  OBVIOUS
<1> HIDE DEF F, d
<1>5. PICK f \in [0 .. n -> D] : Iterated(f, n, d, F)
  BY <1>1, <1>2, <1>4, Iterates
<1>6. \A i \in 1 .. n : f[i] = MonitorOne(f[i - 1], candidates[i], o)
  <2> TAKE i \in 1 .. n
  <2>1. i - 1 \in 0 .. n
    BY <1>1
  <2>2. f[i - 1] \in D
    BY <2>1
  <2> QED BY <1>3, <1>5, <2>2 DEF Iterated
<1>7. f[0] = Before
  BY <1>5 DEF Iterated, d
<1> DEFINE h == [i \in 0 .. n |-> IF i = 0 THEN Before ELSE MonitorOne(f[i - 1], candidates[i], o)]
<1>8. f = h
  <2>1. \A i \in 0 .. n : f[i] = h[i]
    <3> TAKE i \in 0 .. n
    <3>1. i = 0 \/ i \in 1 .. n
      BY <1>1
    <3> QED BY <1>6, <1>7, <3>1
  <2> QED BY <2>1
<1>9. Folded(candidates, o, f)
  BY <1>8 DEF Folded, n
<1>10. PICK g : Folded(candidates, o, g) /\ MonitorAll(candidates, o) = g[n]
  BY <1>9, FoldIs DEF n
<1>11. /\ g[0] = Before
       /\ \A i \in 1 .. n : g[i] = MonitorOne(g[i - 1], candidates[i], o)
  <2>1. \A i \in 0 .. n :
           g[i] = IF i = 0 THEN Before ELSE MonitorOne(g[i - 1], candidates[i], o)
    BY <1>10 DEF Folded, n
  <2>2. 0 \in 0 .. n /\ \A i \in 1 .. n : i \in 0 .. n /\ i # 0
    BY <1>1
  <2> QED BY <2>1, <2>2
<1> DEFINE P == {i \in 0 .. n : g[i] \in D}
<1>12. 0 \in P
  BY <1>1, <1>11
<1>13. \A i \in 1 .. n : i - 1 \in P => i \in P
  <2> TAKE i \in 1 .. n
  <2>1. i \in 0 .. n /\ candidates[i] \in Candidate
    BY <1>1
  <2> QED BY <1>11, <2>1
<1> HIDE DEF P
<1>14. \A i \in 0 .. n : i \in P
  BY <1>1, <1>12, <1>13, Upto, Zenon
<1>15. n \in P
  BY <1>1, <1>14
<1> QED BY <1>10, <1>15 DEF P

\* The names a route's automatic probe can have.
Others(r) == {Qualified[c] : c \in {d \in DOMAIN Qualified : d.route = r}}
Custom == Range(CustomName)

\* What is said of the state between the calls, and within one, too: h and m are
\* the handlers and markers, reg the registered probes, grp those of the group.
Feeding(m) == {r \in Route : m[r] \in {"router", "discover"}}
Autos(reg, grp) == (reg \cap AutoProbe) \cup grp

\* One automatic probe wraps each monitored route, from the outside.
Wrapped(h, m) ==
    \A r \in Route : /\ r \in Feeding(m) => 1 \in DOMAIN h[r]
                     /\ \A i \in DOMAIN h[r] : h[r][i] \in AutoProbe <=> i = 1 /\ r \in Feeding(m)

\* Each has a probe of its own, and each automatic probe has a route.
Fed(reg, grp, h, m, old) ==
    /\ \A r, t \in Feeding(m) : h[r][1] = h[t][1] => r = t
    /\ \A r \in Feeding(m) : h[r][1] \in reg \cup grp \cup old
    /\ \A r \in Feeding(m) : m[r] = "discover" => h[r][1] \in reg
    /\ \A p \in reg \cap AutoProbe : \E r \in Feeding(m) : h[r][1] = p
    /\ \A p \in grp : p \in AutoProbe /\ \E r \in Feeding(m) : m[r] = "router" /\ h[r][1] = p

\* What the automatic probes are called.
Called(h, m) ==
    \A r \in Feeding(m) : h[r][1].name \in {RouteName[r]} \cup Others(r) \cup Custom
Apart(reg, grp) ==
    \A p, q \in Autos(reg, grp) : p.name = q.name /\ p.name \notin Custom => p = q
Known(reg, grp, taken) ==
    \A p \in Autos(reg, grp) : p.name \notin Custom => p.name \in taken

\* Neither call touches a handler with a marker of these.
Spared(h, m) ==
    \A r \in Route : marker[r] \in {"manual", "router"} =>
                        h[r] = handler[r] /\ m[r] = marker[r]

Call == [registered : SUBSET Probe, handler : [Route -> Seq(Probe)], marker : [Route -> Marker],
         taken : SUBSET {Name(p) : p \in Probe}, seen : SUBSET Route, group : SUBSET AutoProbe,
         stop : {"no", "raised", "bound"}]

Sound(s) ==
    /\ Wrapped(s.handler, s.marker)
    /\ Fed(s.registered, s.group, s.handler, s.marker, lost)
    /\ Called(s.handler, s.marker)
    /\ Apart(s.registered, s.group)
    /\ Known(s.registered, s.group, s.taken)
    /\ Spared(s.handler, s.marker)

AnyOptions ==
    Options("discover", BOOLEAN, {FALSE}) \cup Options("router", {TRUE}, BOOLEAN)

LEMMA OptionFacts ==
    \A o \in AnyOptions : /\ o.mark \in {"router", "discover"}
                          /\ o.group \in BOOLEAN /\ o.named \in BOOLEAN
                          /\ o.group => o.mark = "router"
                          /\ o.passing \in Selections
BY DEF AnyOptions, Options

LEMMA NameFacts ==
    /\ \A r \in Route : RouteName[r] \in Range(RouteName)
    /\ \A r \in Route : CustomName[r] \in Custom
    /\ \A c \in DOMAIN Qualified : Qualified[c] \in Range(Qualified) /\ Qualified[c] \in Others(c.route)
    /\ \A p \in AutoProbe : Name(p) = p.name /\ p \in Probe
BY RouteAssumption, ProbeAssumption DEF Range, Custom, Others, Name, Probe

\* A round's new probe is no probe that anything refers to.
LEMMA FreshIs ==
    ASSUME NEW s, NEW name \in AutoName, Unused(s, name) # {}
    PROVE  /\ Fresh(s, name) \in AutoProbe
           /\ Fresh(s, name).name = name
           /\ Fresh(s, name) \notin InUse(s)
<1>1. Fresh(s, name) \in Unused(s, name)
  BY DEF Fresh
<1> QED BY <1>1 DEF Unused, AutoProbe

LEMMA NewNameIs ==
    ASSUME NEW s, NEW c \in Candidate, NEW o \in AnyOptions, Considered(s, c, o),
           NewName(s, c, o) # BadName
    PROVE  /\ NewName(s, c, o) \in AutoName
           /\ NewName(s, c, o) \in {RouteName[c.route]} \cup Others(c.route) \cup Custom
           /\ o.named \in BOOLEAN
<1>1. c.route \in Route /\ c \in DOMAIN Qualified /\ o.named \in BOOLEAN
  BY OptionFacts, RouteAssumption DEF Candidate, Considered
<1>2. NewName(s, c, o) \in {RouteName[c.route], Qualified[c], CustomName[c.route]}
  BY <1>1 DEF NewName, DefaultName
<1> QED BY <1>1, <1>2, NameFacts DEF AutoName, Custom

\* The probe replaces the wrapper, around what was below it.
LEMMA Rewrap ==
    ASSUME NEW s \in Call, Wrapped(s.handler, s.marker), NEW r \in Route, NEW p \in AutoProbe
    PROVE  LET h == <<p>> \o Original(s, r)
           IN /\ h \in Seq(Probe) /\ 1 \in DOMAIN h /\ h[1] = p
              /\ \A i \in DOMAIN h : h[i] \in AutoProbe <=> i = 1
<1> DEFINE u == s.handler[r]
           w == Original(s, r)
           h == <<p>> \o w
<1>1. u \in Seq(Probe) /\ s.marker[r] \in Marker
  BY DEF Call
<1>2. w \in Seq(Probe) /\ \A i \in DOMAIN w : w[i] \notin AutoProbe
  <2>1. CASE r \in Feeding(s.marker)
    <3>1. w = Tail(u) /\ 1 \in DOMAIN u
          /\ \A i \in DOMAIN u : u[i] \in AutoProbe => i = 1
      BY <2>1 DEF Feeding, Original, Wrapped
    <3> HIDE DEF u, w
    <3>2. u # << >>
      BY <3>1
    <3>3. w \in Seq(Probe) /\ Len(w) = Len(u) - 1 /\ \A i \in 1 .. Len(w) : w[i] = u[i + 1]
      BY <1>1, <3>1, <3>2, HeadTailProperties
    <3>4. \A i \in 1 .. Len(w) : i + 1 \in 1 .. Len(u) /\ i + 1 # 1
      BY <1>1, <3>3
    <3>5. DOMAIN w = 1 .. Len(w) /\ DOMAIN u = 1 .. Len(u)
      BY <1>1, <3>3
    <3> QED BY <3>1, <3>3, <3>4, <3>5
  <2>2. CASE r \notin Feeding(s.marker)
    <3>1. w = u /\ \A i \in DOMAIN u : u[i] \notin AutoProbe
      BY <2>2 DEF Feeding, Original, Wrapped
    <3> QED BY <1>1, <3>1
  <2> QED BY <2>1, <2>2
<1> HIDE DEF w
<1>3. p \in Probe /\ <<p>> \in Seq(Probe) /\ Len(<<p>>) = 1 /\ <<p>>[1] = p
  BY NameFacts
<1>4. h \in Seq(Probe) /\ Len(h) = 1 + Len(w)
      /\ \A i \in 1 .. Len(h) : h[i] = IF i <= 1 THEN <<p>>[i] ELSE w[i - 1]
  BY <1>2, <1>3, ConcatProperties
<1> HIDE DEF h
<1>5. DOMAIN h = 1 .. Len(h) /\ DOMAIN w = 1 .. Len(w) /\ Len(w) \in Nat
  BY <1>2, <1>4
<1>6. 1 \in DOMAIN h /\ h[1] = p
  BY <1>3, <1>4, <1>5
<1>7. \A i \in DOMAIN h : i # 1 => h[i] \notin AutoProbe
  <2> SUFFICES ASSUME NEW i \in DOMAIN h, i # 1 PROVE h[i] \notin AutoProbe
    OBVIOUS
  <2>1. i - 1 \in DOMAIN w /\ ~(i <= 1) /\ i \in 1 .. Len(h)
    BY <1>4, <1>5
  <2>2. h[i] = w[i - 1]
    BY <1>4, <2>1
  <2> QED BY <1>2, <2>1, <2>2
<1> QED BY <1>4, <1>6, <1>7 DEF h, w

\* What a round that installs the probe p on r leaves: u is the state before, v after.
Installed(u, v, r, o, p) ==
    /\ r \in Route /\ p \in AutoProbe /\ p \notin InUse(u)
    /\ u.marker[r] \in {"none", "discover"}
    /\ v.handler \in [Route -> Seq(Probe)] /\ v.marker \in [Route -> Marker]
    /\ 1 \in DOMAIN v.handler[r] /\ v.handler[r][1] = p
    /\ \A i \in DOMAIN v.handler[r] : v.handler[r][i] \in AutoProbe <=> i = 1
    /\ v.marker[r] = o.mark
    /\ \A t \in Route : t # r => v.handler[t] = u.handler[t] /\ v.marker[t] = u.marker[t]
    /\ v.registered = (u.registered \ Replaced(u, r)) \cup (IF o.group THEN {} ELSE {p})
    /\ v.group = u.group \cup (IF o.group THEN {p} ELSE {})
    /\ v.taken = (u.taken \ {q.name : q \in Replaced(u, r)}) \cup {p.name}
    /\ v \in Call

\* A round does nothing to the probes, or it installs one.
Idle(u, v) ==
    /\ v.registered = u.registered /\ v.handler = u.handler /\ v.marker = u.marker
    /\ v.taken = u.taken /\ v.group = u.group
    /\ v \in Call

LEMMA InstallIs ==
    ASSUME NEW s \in Call, Sound(s), NEW r \in Route, NEW o \in AnyOptions, NEW p \in AutoProbe,
           p \notin InUse(s), s.marker[r] \in {"none", "discover"}
    PROVE  Installed(s, Install(s, r, o, p), r, o, p)
<1> DEFINE v == Install(s, r, o, p)
           h == <<p>> \o Original(s, r)
<1>1. /\ h \in Seq(Probe) /\ 1 \in DOMAIN h /\ h[1] = p
      /\ \A i \in DOMAIN h : h[i] \in AutoProbe <=> i = 1
  BY Rewrap DEF Sound
<1>2. /\ s.registered \in SUBSET Probe /\ s.handler \in [Route -> Seq(Probe)]
      /\ s.marker \in [Route -> Marker] /\ s.taken \in SUBSET {Name(q) : q \in Probe}
      /\ s.seen \in SUBSET Route /\ s.group \in SUBSET AutoProbe
  BY DEF Call
<1>3. /\ v.registered = DropReplaced(s, r) \cup (IF o.group THEN {} ELSE {p})
      /\ v.handler = [s.handler EXCEPT ![r] = h]
      /\ v.marker = [s.marker EXCEPT ![r] = o.mark]
      /\ v.taken = Taken(s, r, p)
      /\ v.seen = s.seen \cup {r}
      /\ v.group = s.group \cup (IF o.group THEN {p} ELSE {})
      /\ v.stop = "no"
      /\ v = [registered |-> v.registered, handler |-> v.handler, marker |-> v.marker,
              taken |-> v.taken, seen |-> v.seen, group |-> v.group, stop |-> v.stop]
  BY DEF Install
<1> HIDE DEF v, h
<1>4. o.mark \in Marker /\ p \in Probe /\ Name(p) = p.name
  BY OptionFacts, NameFacts DEF Marker
<1>5. v.handler \in [Route -> Seq(Probe)] /\ v.marker \in [Route -> Marker]
  BY <1>1, <1>2, <1>3, <1>4
<1>6. /\ v.handler[r] = h /\ v.marker[r] = o.mark
      /\ \A t \in Route : t # r => v.handler[t] = s.handler[t] /\ v.marker[t] = s.marker[t]
  BY <1>2, <1>3
<1>7. v.registered = (s.registered \ Replaced(s, r)) \cup (IF o.group THEN {} ELSE {p})
      /\ v.registered \in SUBSET Probe
  BY <1>2, <1>3, <1>4 DEF DropReplaced
<1>8. v.taken = (s.taken \ {q.name : q \in Replaced(s, r)}) \cup {p.name}
      /\ v.taken \in SUBSET {Name(q) : q \in Probe}
  <2>1. p.name \in {Name(q) : q \in Probe}
    BY <1>4
  <2> QED BY <1>2, <1>3, <2>1 DEF Taken
<1>9. v.group \in SUBSET AutoProbe /\ v.seen \in SUBSET Route
  BY <1>2, <1>3
<1>10. v \in Call
  BY <1>3, <1>5, <1>7, <1>8, <1>9 DEF Call
<1> QED BY <1>1, <1>3, <1>5, <1>6, <1>7, <1>8, <1>10 DEF Installed, v

LEMMA MonitorOneIs ==
    ASSUME NEW s \in Call, Sound(s), NEW c \in Candidate, NEW o \in AnyOptions
    PROVE  \/ Idle(s, MonitorOne(s, c, o))
           \/ \E p \in AutoProbe :
                 /\ Considered(s, c, o)
                 /\ NewName(s, c, o) # BadName /\ p.name = NewName(s, c, o)
                 /\ Installed(s, MonitorOne(s, c, o), c.route, o, p)
<1> DEFINE v == MonitorOne(s, c, o)
           r == c.route
           name == NewName(s, c, o)
           p == Fresh(s, name)
<1>1. r \in Route /\ s.seen \in SUBSET Route
  BY DEF Candidate, Call
<1>2. CASE s.stop # "no" \/ ~Considered(s, c, o)
  BY <1>2 DEF MonitorOne, Idle
<1>3. CASE ~(s.stop # "no" \/ ~Considered(s, c, o)) /\ ~Available(s, r, o)
  <2>1. v = [s EXCEPT !.seen = @ \cup {r}]
    BY <1>3 DEF MonitorOne
  <2>2. s.seen \cup {r} \in SUBSET Route
    BY <1>1
  <2> QED BY <2>1, <2>2 DEF Idle, Call
<1>4. CASE /\ ~(s.stop # "no" \/ ~Considered(s, c, o)) /\ Available(s, r, o)
           /\ (name = BadName \/ Unused(s, name) = {})
  <2>1. v = [s EXCEPT !.stop = "raised"] \/ v = [s EXCEPT !.stop = "bound"]
    BY <1>4 DEF MonitorOne
  <2> QED BY <2>1 DEF Idle, Call
<1>5. CASE /\ ~(s.stop # "no" \/ ~Considered(s, c, o)) /\ Available(s, r, o)
           /\ ~(name = BadName \/ Unused(s, name) = {})
  <2>1. v = Install(s, r, o, p)
    BY <1>5 DEF MonitorOne
  <2>2. name \in AutoName
    BY <1>5, NewNameIs
  <2>3. p \in AutoProbe /\ p.name = name /\ p \notin InUse(s)
    <3> HIDE DEF name
    <3> QED BY <1>5, <2>2, FreshIs
  <2>4. s.marker[r] \in {"none", "discover"}
    BY <1>5 DEF Available
  <2> HIDE DEF p, v
  <2>5. Installed(s, v, r, o, p)
    BY <1>1, <2>1, <2>3, <2>4, InstallIs
  <2> QED BY <1>5, <2>3, <2>5 DEF v
<1> QED BY <1>2, <1>3, <1>4, <1>5

LEMMA IdleKeeps ==
    ASSUME NEW u \in Call, Sound(u), NEW v, Idle(u, v)
    PROVE  Sound(v)
BY DEF Sound, Idle

\* The one probe that is replaced, and why no other route is touched by that.
LEMMA ReplacedIs ==
    ASSUME NEW u \in Call, Sound(u), NEW r \in Route, u.marker[r] \in {"none", "discover"}
    PROVE  /\ \A q \in Replaced(u, r) : q = u.handler[r][1] /\ r \in Feeding(u.marker)
           /\ r \in Feeding(u.marker) => Replaced(u, r) = {u.handler[r][1]}
           /\ \A t \in Feeding(u.marker) : t # r => u.handler[t][1] \notin Replaced(u, r)
           /\ Replaced(u, r) \cap u.group = {}
<1>1. r \in Feeding(u.marker) <=> u.marker[r] = "discover"
  BY DEF Feeding
<1>2. \A q \in Replaced(u, r) : q = u.handler[r][1] /\ r \in Feeding(u.marker)
  BY <1>1 DEF Replaced, Replaceable
<1>3. r \in Feeding(u.marker) => Replaced(u, r) = {u.handler[r][1]}
  BY <1>1 DEF Replaced, Replaceable
<1>4. \A t \in Feeding(u.marker) : t # r => u.handler[t][1] \notin Replaced(u, r)
  BY <1>2 DEF Sound, Fed
<1>5. ASSUME NEW q \in Replaced(u, r), q \in u.group PROVE FALSE
  <2>1. PICK t \in Feeding(u.marker) : u.marker[t] = "router" /\ u.handler[t][1] = q
    BY <1>5 DEF Sound, Fed
  <2>2. t = r
    BY <1>4, <1>5, <2>1
  <2> QED BY <1>1, <1>2, <1>5, <2>1, <2>2
<1> QED BY <1>2, <1>3, <1>4, <1>5

\* The new probe is none of those that are there.
LEMMA NewIsNew ==
    ASSUME NEW u \in Call, Sound(u), NEW p \in AutoProbe, p \notin InUse(u)
    PROVE  /\ p \notin u.registered /\ p \notin u.group /\ p \notin lost
           /\ \A t \in Feeding(u.marker) : u.handler[t][1] # p
<1>1. p \notin u.registered /\ p \notin u.group /\ p \notin lost
      /\ \A t \in Route : p \notin Range(u.handler[t])
  BY DEF InUse
<1>2. \A t \in Feeding(u.marker) : t \in Route /\ 1 \in DOMAIN u.handler[t]
  BY DEF Sound, Wrapped, Feeding
<1> QED BY <1>1, <1>2 DEF Range

LEMMA FeedingGrows ==
    ASSUME NEW u \in Call, NEW v, NEW r, NEW o \in AnyOptions, NEW p, Installed(u, v, r, o, p)
    PROVE  /\ r \in Route /\ r \in Feeding(v.marker)
           /\ \A t \in Route : t # r => (t \in Feeding(v.marker) <=> t \in Feeding(u.marker))
           /\ Feeding(v.marker) \subseteq Route /\ Feeding(u.marker) \subseteq Route
BY OptionFacts DEF Feeding, Installed

LEMMA InstallWraps ==
    ASSUME NEW u \in Call, Sound(u), NEW v, NEW r, NEW o \in AnyOptions, NEW p,
           Installed(u, v, r, o, p)
    PROVE  Wrapped(v.handler, v.marker)
<1> SUFFICES ASSUME NEW t \in Route
             PROVE  /\ t \in Feeding(v.marker) => 1 \in DOMAIN v.handler[t]
                    /\ \A i \in DOMAIN v.handler[t] :
                          v.handler[t][i] \in AutoProbe <=> i = 1 /\ t \in Feeding(v.marker)
  BY DEF Wrapped
<1>0. r \in Feeding(v.marker)
      /\ \A x \in Route : x # r => (x \in Feeding(v.marker) <=> x \in Feeding(u.marker))
  BY FeedingGrows
<1>1. CASE t = r
  BY <1>0, <1>1 DEF Installed
<1>2. CASE t # r
  <2>1. v.handler[t] = u.handler[t] /\ (t \in Feeding(v.marker) <=> t \in Feeding(u.marker))
    BY <1>0, <1>2 DEF Installed
  <2> QED BY <2>1 DEF Sound, Wrapped
<1> QED BY <1>1, <1>2

LEMMA InstallFeeds ==
    ASSUME NEW u \in Call, Sound(u), NEW v, NEW r, NEW o \in AnyOptions, NEW p,
           Installed(u, v, r, o, p)
    PROVE  Fed(v.registered, v.group, v.handler, v.marker, lost)
<1> DEFINE old == Feeding(u.marker)
           new == Feeding(v.marker)
<1>1. /\ r \in Route /\ r \in new /\ old \subseteq Route /\ new \subseteq Route
      /\ \A t \in Route : t # r => (t \in new <=> t \in old)
  BY FeedingGrows
<1>2. /\ p \notin u.registered /\ p \notin u.group /\ p \notin lost
      /\ \A t \in old : u.handler[t][1] # p
      /\ p \in AutoProbe
  BY NewIsNew DEF Installed
<1>3. /\ \A q \in Replaced(u, r) : q = u.handler[r][1] /\ r \in old
      /\ r \in old => Replaced(u, r) = {u.handler[r][1]}
      /\ \A t \in old : t # r => u.handler[t][1] \notin Replaced(u, r)
  BY ReplacedIs DEF Installed
<1>4. /\ v.handler[r][1] = p /\ v.marker[r] = o.mark
      /\ \A t \in Route : t # r => v.handler[t] = u.handler[t] /\ v.marker[t] = u.marker[t]
      /\ v.registered = (u.registered \ Replaced(u, r)) \cup (IF o.group THEN {} ELSE {p})
      /\ v.group = u.group \cup (IF o.group THEN {p} ELSE {})
      /\ o.group \in BOOLEAN /\ (o.group => o.mark = "router")
      /\ u.marker[r] \in {"none", "discover"}
  BY OptionFacts DEF Installed
<1>5. Fed(u.registered, u.group, u.handler, u.marker, lost)
  BY DEF Sound
<1> HIDE DEF old, new
<1>6. \A t, x \in new : v.handler[t][1] = v.handler[x][1] => t = x
  BY <1>1, <1>2, <1>4, <1>5 DEF Fed, old
<1>7. ASSUME NEW t \in new PROVE v.handler[t][1] \in v.registered \cup v.group \cup lost
  <2>1. CASE t = r
    BY <1>4, <2>1
  <2>2. CASE t # r
    <3>1. t \in old /\ v.handler[t] = u.handler[t] /\ u.handler[t][1] \notin Replaced(u, r)
      BY <1>1, <1>3, <1>4, <1>7, <2>2
    <3>2. u.handler[t][1] \in u.registered \cup u.group \cup lost
      BY <1>5, <3>1 DEF Fed, old
    <3> QED BY <1>4, <3>1, <3>2
  <2> QED BY <2>1, <2>2
<1>8. ASSUME NEW t \in new, v.marker[t] = "discover" PROVE v.handler[t][1] \in v.registered
  <2>1. CASE t = r
    BY <1>4, <1>8, <2>1
  <2>2. CASE t # r
    <3>1. t \in old /\ v.handler[t] = u.handler[t] /\ u.handler[t][1] \notin Replaced(u, r)
          /\ u.marker[t] = "discover"
      BY <1>1, <1>3, <1>4, <1>8, <2>2
    <3>2. u.handler[t][1] \in u.registered
      BY <1>5, <3>1 DEF Fed, old
    <3> QED BY <1>4, <3>1, <3>2
  <2> QED BY <2>1, <2>2
<1>9. ASSUME NEW q \in v.registered \cap AutoProbe PROVE \E t \in new : v.handler[t][1] = q
  <2>1. CASE q = p
    BY <1>1, <1>4, <2>1
  <2>2. CASE q # p
    <3>1. q \in u.registered \cap AutoProbe /\ q \notin Replaced(u, r)
      BY <1>4, <1>9, <2>2
    <3>2. PICK t \in old : u.handler[t][1] = q
      BY <1>5, <3>1 DEF Fed, old
    <3>3. t # r
      BY <1>3, <3>1, <3>2
    <3> QED BY <1>1, <1>4, <3>2, <3>3
  <2> QED BY <2>1, <2>2
<1>10. ASSUME NEW q \in v.group
       PROVE  q \in AutoProbe /\ \E t \in new : v.marker[t] = "router" /\ v.handler[t][1] = q
  <2>1. CASE q \notin u.group
    <3>1. q = p /\ o.mark = "router"
      BY <1>4, <1>10, <2>1
    <3> QED BY <1>1, <1>2, <1>4, <3>1
  <2>2. CASE q \in u.group
    <3>1. PICK t \in old : u.marker[t] = "router" /\ u.handler[t][1] = q
      BY <1>5, <2>2 DEF Fed, old
    <3>2. q \in AutoProbe
      BY <1>5, <2>2 DEF Fed
    <3>3. t # r
      BY <1>4, <3>1
    <3> QED BY <1>1, <1>4, <3>1, <3>2, <3>3
  <2> QED BY <2>1, <2>2
<1> QED BY <1>6, <1>7, <1>8, <1>9, <1>10 DEF Fed, new

\* A name with a colon is its route's, so only the probe that is replaced can have it.
LEMMA OthersApart ==
    \A r, t \in Route : \A x \in Others(r) :
        /\ x # RouteName[t]
        /\ x \in Others(t) => r = t
<1> SUFFICES ASSUME NEW r \in Route, NEW t \in Route, NEW x \in Others(r)
             PROVE  x # RouteName[t] /\ (x \in Others(t) => r = t)
  OBVIOUS
<1>1. PICK c \in DOMAIN Qualified : c.route = r /\ x = Qualified[c]
  BY DEF Others
<1>2. x # RouteName[t]
  BY <1>1, QualifiedAssumption
<1>3. ASSUME x \in Others(t) PROVE r = t
  <2>1. PICK d \in DOMAIN Qualified : d.route = t /\ x = Qualified[d]
    BY <1>3 DEF Others
  <2> QED BY <1>1, <2>1, QualifiedAssumption
<1> QED BY <1>2, <1>3

\* The name a round finds is that of no probe that stays, unless name_fn gave it.
LEMMA NameIsFree ==
    ASSUME NEW u \in Call, Sound(u), NEW c \in Candidate, NEW o \in AnyOptions,
           Considered(u, c, o), u.marker[c.route] \in {"none", "discover"},
           NewName(u, c, o) # BadName, NewName(u, c, o) \notin Custom,
           NEW x \in Autos(u.registered, u.group), x.name = NewName(u, c, o)
    PROVE  x \in Replaced(u, c.route)
<1> DEFINE r == c.route
           plain == RouteName[r]
           name == NewName(u, c, o)
<1>1. r \in Route /\ c \in DOMAIN Qualified
  BY RouteAssumption, OptionFacts DEF Candidate, Considered
<1>2. ~o.named /\ name = DefaultName(u, c)
  BY <1>1, NameFacts DEF NewName
<1>3. PICK t \in Feeding(u.marker) : u.handler[t][1] = x
  BY DEF Sound, Fed, Autos
<1>4. t \in Route /\ x.name \in {RouteName[t]} \cup Others(t) \cup Custom
  BY <1>3 DEF Sound, Called, Feeding
<1>5. /\ r \in Feeding(u.marker) => Replaced(u, r) = {u.handler[r][1]}
      /\ \A q \in Replaced(u, r) : q = u.handler[r][1] /\ r \in Feeding(u.marker)
  BY <1>1, ReplacedIs
<1>6. Known(u.registered, u.group, u.taken) /\ Apart(u.registered, u.group)
  BY DEF Sound
<1>7. CASE plain \in u.taken /\ \A q \in Replaced(u, r) : q.name # plain
  <2>1. name = Qualified[c]
    BY <1>2, <1>7 DEF DefaultName
  <2>2. name \in Others(r)
    BY <1>1, <2>1, NameFacts
  <2>3. t = r
    BY <1>1, <1>4, <2>2, OthersApart
  <2> QED BY <1>3, <1>5, <2>3
<1>8. CASE plain \notin u.taken
  <2>1. name = plain
    BY <1>2, <1>8 DEF DefaultName
  <2>2. x.name \in u.taken
    BY <1>6 DEF Known
  <2> QED BY <1>8, <2>1, <2>2
<1>9. CASE \E q \in Replaced(u, r) : q.name = plain
  <2>1. name = plain
    BY <1>2, <1>9 DEF DefaultName
  <2>2. PICK q \in Replaced(u, r) : q.name = plain
    BY <1>9
  <2>3. q = u.handler[r][1] /\ u.marker[r] = "discover" /\ q \in AutoProbe
    <3>1. q = u.handler[r][1] /\ r \in Feeding(u.marker)
      BY <1>5
    <3>2. u.handler[r][1] \in AutoProbe
      BY <1>1, <3>1 DEF Sound, Wrapped
    <3>3. u.marker[r] = "discover"
      BY <3>1 DEF Feeding
    <3> QED BY <3>1, <3>2, <3>3
  <2>4. q \in Autos(u.registered, u.group)
    <3>1. r \in Feeding(u.marker)
      BY <1>1, <2>3 DEF Feeding
    <3>2. q \in u.registered
      BY <2>3, <3>1 DEF Sound, Fed
    <3> QED BY <2>3, <3>2 DEF Autos
  <2>5. x = q
    BY <1>6, <2>1, <2>2, <2>4 DEF Apart
  <2> QED BY <2>2, <2>5
<1> QED BY <1>7, <1>8, <1>9

LEMMA InstallNames ==
    ASSUME NEW u \in Call, Sound(u), NEW v, NEW c \in Candidate, NEW o \in AnyOptions,
           NEW p \in AutoProbe, Considered(u, c, o),
           NewName(u, c, o) # BadName, p.name = NewName(u, c, o),
           Installed(u, v, c.route, o, p)
    PROVE  /\ Called(v.handler, v.marker)
           /\ Apart(v.registered, v.group)
           /\ Known(v.registered, v.group, v.taken)
<1> DEFINE r == c.route
           R == Replaced(u, r)
<1>1. /\ r \in Route
      /\ \A t \in Route : t # r => (t \in Feeding(v.marker) <=> t \in Feeding(u.marker))
      /\ Feeding(v.marker) \subseteq Route
  BY FeedingGrows
<1>2. /\ v.handler[r][1] = p
      /\ \A t \in Route : t # r => v.handler[t] = u.handler[t]
      /\ v.registered = (u.registered \ R) \cup (IF o.group THEN {} ELSE {p})
      /\ v.group = u.group \cup (IF o.group THEN {p} ELSE {})
      /\ v.taken = (u.taken \ {q.name : q \in R}) \cup {p.name}
      /\ u.marker[r] \in {"none", "discover"}
  BY DEF Installed
<1>3. R \cap u.group = {} /\ \A q \in R : q \in u.registered \cap AutoProbe
  <2>1. R \cap u.group = {}
    BY <1>1, <1>2, ReplacedIs
  <2>2. ASSUME NEW q \in R PROVE q \in u.registered \cap AutoProbe
    <3>1. q = u.handler[r][1] /\ r \in Feeding(u.marker)
      BY <1>1, <1>2, <2>2, ReplacedIs
    <3>2. u.marker[r] = "discover"
      BY <1>2, <3>1 DEF Feeding
    <3>3. q \in u.registered
      BY <3>1, <3>2 DEF Sound, Fed
    <3>4. q \in AutoProbe
      BY <1>1, <3>1 DEF Sound, Wrapped
    <3> QED BY <3>3, <3>4
  <2> QED BY <2>1, <2>2
<1>4. Autos(v.registered, v.group) = (Autos(u.registered, u.group) \ R) \cup {p}
  BY <1>2, <1>3 DEF Autos
<1>5. \A x \in Autos(u.registered, u.group) \ R : x.name = p.name => p.name \in Custom
  BY <1>2, NameIsFree
<1>6. Called(v.handler, v.marker)
  <2>1. p.name \in {RouteName[r]} \cup Others(r) \cup Custom
    BY NewNameIs
  <2>2. ASSUME NEW t \in Feeding(v.marker)
        PROVE  v.handler[t][1].name \in {RouteName[t]} \cup Others(t) \cup Custom
    <3>1. CASE t = r
      BY <1>2, <2>1, <3>1
    <3>2. CASE t # r
      <4>1. t \in Feeding(u.marker) /\ v.handler[t] = u.handler[t]
        BY <1>1, <1>2, <2>2, <3>2
      <4> QED BY <4>1 DEF Sound, Called
    <3> QED BY <3>1, <3>2
  <2> QED BY <2>2 DEF Called
<1>7. Apart(v.registered, v.group)
  <2> SUFFICES ASSUME NEW x \in Autos(v.registered, v.group), NEW y \in Autos(v.registered, v.group),
                      x.name = y.name, x.name \notin Custom
               PROVE  x = y
    BY DEF Apart
  <2>1. CASE x = p \/ y = p
    BY <1>4, <1>5, <2>1
  <2>2. CASE x # p /\ y # p
    <3>1. x \in Autos(u.registered, u.group) /\ y \in Autos(u.registered, u.group)
      BY <1>4, <2>2
    <3> QED BY <3>1 DEF Sound, Apart
  <2> QED BY <2>1, <2>2
<1>8. Known(v.registered, v.group, v.taken)
  <2> SUFFICES ASSUME NEW x \in Autos(v.registered, v.group), x.name \notin Custom
               PROVE  x.name \in v.taken
    BY DEF Known
  <2>1. CASE x = p
    BY <1>2, <2>1
  <2>2. CASE x # p
    <3>1. x \in Autos(u.registered, u.group) /\ x \notin R
      BY <1>4, <2>2
    <3>2. x.name \in u.taken
      BY <3>1 DEF Sound, Known
    <3>3. ASSUME NEW q \in R, q.name = x.name PROVE FALSE
      <4>1. q \in Autos(u.registered, u.group)
        BY <1>3 DEF Autos
      <4>2. q = x
        BY <3>1, <3>3, <4>1 DEF Sound, Apart
      <4> QED BY <3>1, <4>2
    <3> QED BY <1>2, <3>2, <3>3
  <2> QED BY <2>1, <2>2
<1> QED BY <1>6, <1>7, <1>8

LEMMA MonitorOneKeeps ==
    ASSUME NEW s \in Call, Sound(s), NEW c \in Candidate, NEW o \in AnyOptions
    PROVE  MonitorOne(s, c, o) \in Call /\ Sound(MonitorOne(s, c, o))
<1> DEFINE v == MonitorOne(s, c, o)
<1>1. CASE Idle(s, v)
  <2>1. v \in Call
    BY <1>1 DEF Idle
  <2> HIDE DEF v
  <2>2. Sound(v)
    BY <1>1, IdleKeeps
  <2> QED BY <2>1, <2>2 DEF v
<1>2. ASSUME NEW p \in AutoProbe, Considered(s, c, o),
             NewName(s, c, o) # BadName, p.name = NewName(s, c, o),
             Installed(s, v, c.route, o, p)
      PROVE  v \in Call /\ Sound(v)
  <2> HIDE DEF v
  <2>1. v \in Call
    BY <1>2 DEF Installed
  <2>2. Wrapped(v.handler, v.marker)
    BY <1>2, InstallWraps
  <2>3. Fed(v.registered, v.group, v.handler, v.marker, lost)
    BY <1>2, InstallFeeds
  <2>4. /\ Called(v.handler, v.marker) /\ Apart(v.registered, v.group)
        /\ Known(v.registered, v.group, v.taken)
    BY <1>2, InstallNames
  <2>5. Spared(v.handler, v.marker)
    <3> SUFFICES ASSUME NEW t \in Route, marker[t] \in {"manual", "router"}
                 PROVE  v.handler[t] = handler[t] /\ v.marker[t] = marker[t]
      BY DEF Spared
    <3>1. s.handler[t] = handler[t] /\ s.marker[t] = marker[t]
      BY DEF Sound, Spared
    <3> QED BY <1>2, <3>1 DEF Installed
  <2> QED BY <2>1, <2>2, <2>3, <2>4, <2>5 DEF Sound
<1> QED BY <1>1, <1>2, MonitorOneIs

-----------------------------------------------------------------------------
(* The calls, and what holds between them.                                 *)

Between ==
    /\ Wrapped(handler, marker)
    /\ Fed(registered, {}, handler, marker, lost)
    /\ Called(handler, marker)
    /\ Apart(registered, {})

Inv == TypeOK /\ DOMAIN cache = Included /\ Between

LEMMA BeforeIs ==
    ASSUME TypeOK, Between
    PROVE  Before \in Call /\ Sound(Before)
<1>1. /\ registered \in SUBSET Probe /\ handler \in [Route -> Seq(Probe)]
      /\ marker \in [Route -> Marker]
  BY DEF TypeOK
<1>2. {Name(p) : p \in registered} \in SUBSET {Name(p) : p \in Probe}
  BY <1>1
<1>3. Before \in Call
  BY <1>1, <1>2 DEF Before, Call
<1>4. Known(registered, {}, {Name(p) : p \in registered})
  <2>1. \A p \in Autos(registered, {}) : p \in registered /\ Name(p) = p.name
    BY NameFacts DEF Autos
  <2> QED BY <2>1 DEF Known
<1>5. Spared(handler, marker)
  BY DEF Spared
<1> QED BY <1>3, <1>4, <1>5 DEF Before, Between, Sound

LEMMA MonitorAllIs ==
    ASSUME TypeOK, Between, NEW candidates \in Seq(Candidate), NEW o \in AnyOptions
    PROVE  MonitorAll(candidates, o) \in Call /\ Sound(MonitorAll(candidates, o))
<1> DEFINE D == {s \in Call : Sound(s)}
<1>1. Before \in D
  BY BeforeIs
<1>2. \A s \in D : \A c \in Candidate : MonitorOne(s, c, o) \in D
  BY MonitorOneKeeps
<1> HIDE DEF D
<1>3. MonitorAll(candidates, o) \in D
  BY <1>1, <1>2, FoldIn
<1> QED BY <1>3 DEF D

\* At the end of a call its group is included, or lost.
LEMMA MonitorKeeps ==
    ASSUME Inv, NEW candidates \in Seq(Candidate), NEW o \in AnyOptions,
           MonitorRoutes(candidates, o)
    PROVE  Inv' /\ Spared(handler', marker')
<1> DEFINE s == MonitorAll(candidates, o)
<1>1. s \in Call /\ Sound(s)
  BY MonitorAllIs DEF Inv
<1>2. /\ registered' = WithGroup(s) /\ handler' = s.handler /\ marker' = s.marker
      /\ cache' = ResetCaches(s) /\ aborted' = (s.stop = "raised")
      /\ lost' = (IF s.stop = "raised" THEN lost \cup s.group ELSE lost)
      /\ grouped' = grouped /\ attached' = attached
  BY DEF MonitorRoutes
<1> HIDE DEF s
<1>3. /\ registered' = s.registered \cup (IF s.stop = "raised" THEN {} ELSE s.group)
      /\ s.registered \subseteq Probe /\ s.group \subseteq AutoProbe /\ s.group \subseteq Probe
      /\ handler' \in [Route -> Seq(Probe)] /\ marker' \in [Route -> Marker]
  BY <1>1, <1>2 DEF WithGroup, Call, Probe
<1>4. DOMAIN cache' = Included /\ \A c \in Included : cache'[c] = Unbuilt \/ cache'[c] = cache[c]
  BY <1>2 DEF ResetCaches, Inv
<1>5. TypeOK'
  <2>1. registered' \subseteq Probe /\ lost' \subseteq AutoProbe /\ aborted' \in BOOLEAN
    BY <1>2, <1>3 DEF Inv, TypeOK
  <2>2. grouped' \subseteq UserProbe /\ attached' \subseteq Route
    BY <1>2 DEF Inv, TypeOK
  <2>3. \A c \in Included : cache'[c] = Unbuilt \/ cache'[c] \in [InTree(c) -> Seq(Probe)]
    BY <1>4 DEF Inv, TypeOK
  <2> QED BY <1>3, <2>1, <2>2, <2>3 DEF TypeOK
<1>6. Wrapped(handler', marker') /\ Called(handler', marker') /\ Spared(handler', marker')
  BY <1>1, <1>2 DEF Sound
<1>7. Autos(registered', {}) \subseteq Autos(s.registered, s.group)
  BY <1>3 DEF Autos
<1>8. Apart(registered', {})
  BY <1>1, <1>7 DEF Sound, Apart
<1>9. Fed(registered', {}, handler', marker', lost')
  <2>1. Fed(s.registered, s.group, handler', marker', lost)
    BY <1>1, <1>2 DEF Sound
  <2> USE DEF Fed
  <2>2. \A r, t \in Feeding(marker') : handler'[r][1] = handler'[t][1] => r = t
    BY <2>1
  <2>3. \A r \in Feeding(marker') : handler'[r][1] \in registered' \cup lost'
    BY <1>2, <1>3, <2>1
  <2>4. \A r \in Feeding(marker') : marker'[r] = "discover" => handler'[r][1] \in registered'
    BY <1>3, <2>1
  <2>5. \A p \in registered' \cap AutoProbe : \E r \in Feeding(marker') : handler'[r][1] = p
    BY <1>3, <2>1
  <2> QED BY <2>2, <2>3, <2>4, <2>5
<1> QED BY <1>4, <1>5, <1>6, <1>8, <1>9 DEF Inv, Between

\* The program's own probes are none of the automatic ones.
LEMMA RegisterKeeps ==
    ASSUME Inv, NEW S \in SUBSET UserProbe, registered' = registered \cup S,
           UNCHANGED <<handler, marker, attached, cache, aborted, lost>>,
           grouped' \subseteq UserProbe
    PROVE  Inv'
<1>1. registered' \cap AutoProbe = registered \cap AutoProbe /\ registered' \subseteq Probe
  BY ProbeAssumption DEF Probe, Inv, TypeOK
<1>2. TypeOK' /\ DOMAIN cache' = Included
  BY <1>1 DEF Inv, TypeOK
<1>3. Autos(registered', {}) = Autos(registered, {})
  BY <1>1 DEF Autos
<1>4. Fed(registered', {}, handler', marker', lost')
  BY <1>1 DEF Fed, Inv, Between
<1>5. Wrapped(handler', marker') /\ Called(handler', marker') /\ Apart(registered', {})
  BY <1>3 DEF Inv, Between, Apart
<1> QED BY <1>2, <1>4, <1>5 DEF Inv, Between

LEMMA AttachKeeps ==
    ASSUME Inv, NEW t \in LateRoute, Attach(t)
    PROVE  Inv'
<1>1. /\ attached' \subseteq Route
      /\ UNCHANGED <<registered, grouped, handler, marker, aborted, lost>>
      /\ cache' = [c \in Included |-> IF t \in InTree(c) THEN Unbuilt ELSE cache[c]]
  BY RouteAssumption DEF Attach, Inv, TypeOK
<1>2. DOMAIN cache' = Included /\ \A c \in Included : cache'[c] = Unbuilt \/ cache'[c] = cache[c]
  BY <1>1
<1>3. \A c \in Included : cache'[c] = Unbuilt \/ cache'[c] \in [InTree(c) -> Seq(Probe)]
  BY <1>2 DEF Inv, TypeOK
<1>4. TypeOK'
  BY <1>1, <1>3 DEF Inv, TypeOK
<1>5. Between'
  BY <1>1 DEF Inv, Between
<1> QED BY <1>2, <1>4, <1>5 DEF Inv

LEMMA ServeKeeps ==
    ASSUME Inv, NEW k \in Included, Serve(k)
    PROVE  Inv'
<1>1. /\ UNCHANGED <<registered, grouped, handler, marker, attached, aborted, lost>>
      /\ cache' = [cache EXCEPT ![k] = [r \in InTree(k) |-> handler[r]]]
  BY DEF Serve
<1>2. /\ DOMAIN cache' = Included
      /\ cache'[k] = [r \in InTree(k) |-> handler[r]]
      /\ \A c \in Included : c # k => cache'[c] = cache[c]
  BY <1>1 DEF Inv
<1>3. InTree(k) \subseteq Route
  BY InTreeType, TreeAssumption
<1>4. cache'[k] \in [InTree(k) -> Seq(Probe)]
  <2>1. \A r \in InTree(k) : handler[r] \in Seq(Probe)
    BY <1>3 DEF Inv, TypeOK
  <2> QED BY <1>2, <2>1
<1>5. \A c \in Included : cache'[c] = Unbuilt \/ cache'[c] \in [InTree(c) -> Seq(Probe)]
  BY <1>2, <1>4 DEF Inv, TypeOK
<1>6. TypeOK'
  BY <1>1, <1>5 DEF Inv, TypeOK
<1>7. Between'
  BY <1>1 DEF Inv, Between
<1> QED BY <1>2, <1>6, <1>7 DEF Inv

LEMMA InitInv == Init => Inv
<1> SUFFICES ASSUME Init PROVE Inv
  OBVIOUS
<1>1. /\ registered = {} /\ grouped = {} /\ lost = {} /\ aborted = FALSE
      /\ handler = [r \in Route |-> IF r \in ManualRoute THEN <<ManualProbe>> ELSE << >>]
      /\ marker = [r \in Route |-> IF r \in ManualRoute THEN "manual" ELSE "none"]
      /\ attached = Route \ LateRoute
      /\ cache = [c \in Included |-> Unbuilt]
  BY DEF Init
<1>2. <<ManualProbe>> \in Seq(Probe) /\ << >> \in Seq(Probe) /\ ManualProbe \notin AutoProbe
  BY ProbeAssumption DEF Probe
<1>3. TypeOK /\ DOMAIN cache = Included
  <2>1. handler \in [Route -> Seq(Probe)] /\ marker \in [Route -> Marker]
    BY <1>1, <1>2 DEF Marker
  <2>2. \A c \in Included : cache[c] = Unbuilt
    BY <1>1
  <2> QED BY <1>1, <2>1, <2>2 DEF TypeOK
<1>4. Feeding(marker) = {}
  BY <1>1 DEF Feeding
<1>5. Wrapped(handler, marker)
  BY <1>1, <1>2, <1>4 DEF Wrapped
<1>6. Autos(registered, {}) = {}
  BY <1>1 DEF Autos
<1>7. Fed(registered, {}, handler, marker, lost)
  BY <1>1, <1>4 DEF Fed
<1>8. Called(handler, marker) /\ Apart(registered, {})
  BY <1>4, <1>6 DEF Called, Apart
<1> QED BY <1>3, <1>5, <1>7, <1>8 DEF Inv, Between

LEMMA NextInv ==
    ASSUME Inv, [Next]_vars
    PROVE  Inv' /\ Spared(handler', marker')
<1>1. ASSUME UNCHANGED <<handler, marker>> PROVE Spared(handler', marker')
  BY <1>1 DEF Spared
<1>2. ASSUME NEW p \in UserProbe, Add(p) PROVE Inv' /\ Spared(handler', marker')
  <2>1. {p} \in SUBSET UserProbe /\ grouped' \subseteq UserProbe
    BY <1>2 DEF Add, Inv, TypeOK
  <2> QED BY <1>1, <1>2, <2>1, RegisterKeeps DEF Add
<1>3. ASSUME NEW p \in UserProbe, GroupAdd(p) PROVE Inv' /\ Spared(handler', marker')
  <2>1. /\ {} \in SUBSET UserProbe /\ grouped' \subseteq UserProbe
        /\ registered' = registered \cup {}
    BY <1>3 DEF GroupAdd, Inv, TypeOK
  <2> QED BY <1>1, <1>3, <2>1, RegisterKeeps DEF GroupAdd
<1>4. CASE Include
  <2>1. PICK S \in SUBSET {p \in grouped : Accepted(p)} : registered' = registered \cup S
    BY <1>4 DEF Include
  <2>2. S \in SUBSET UserProbe /\ grouped' \subseteq UserProbe
    BY <1>4, <2>1 DEF Include, Inv, TypeOK
  <2> QED BY <1>1, <1>4, <2>1, <2>2, RegisterKeeps DEF Include
<1>5. CASE DiscoverRoutes
  <2>1. PICK o \in Options("discover", BOOLEAN, {FALSE}) : MonitorRoutes(AppCandidates, o)
    BY <1>5 DEF DiscoverRoutes
  <2>2. o \in AnyOptions
    BY DEF AnyOptions
  <2> QED BY <2>1, <2>2, CandidatesType, MonitorKeeps
<1>6. ASSUME NEW router \in Router, WatchRouter(router) PROVE Inv' /\ Spared(handler', marker')
  <2>1. PICK o \in Options("router", {TRUE}, BOOLEAN) : MonitorRoutes(RouterCandidates(router), o)
    BY <1>6 DEF WatchRouter
  <2>2. o \in AnyOptions
    BY DEF AnyOptions
  <2>3. RouterCandidates(router) \in Seq(Candidate)
    BY CandidatesType
  <2> QED BY <2>1, <2>2, <2>3, MonitorKeeps
<1>7. ASSUME NEW t \in LateRoute, Attach(t) PROVE Inv' /\ Spared(handler', marker')
  BY <1>1, <1>7, AttachKeeps DEF Attach
<1>8. ASSUME NEW k \in Included, Serve(k) PROVE Inv' /\ Spared(handler', marker')
  BY <1>1, <1>8, ServeKeeps DEF Serve
<1>9. CASE UNCHANGED vars
  BY <1>1, <1>9 DEF vars, Inv, TypeOK, Between
<1> QED BY <1>2, <1>3, <1>4, <1>5, <1>6, <1>7, <1>8, <1>9 DEF Next

LEMMA Invariance == Spec => []Inv
<1>1. Inv /\ [Next]_vars => Inv'
  BY NextInv
<1> QED BY <1>1, InitInv, PTL DEF Spec

\* The registered probes, the handlers' wrappers and what the caches serve have
\* their types, whatever the tree of the application, the filters and the names.
THEOREM RouteTypes == Spec => []TypeOK
<1>1. Inv => TypeOK
  BY DEF Inv
<1> QED BY <1>1, Invariance, PTL

\* Neither call touches a handler with @probe.watch or one that watch_router has
\* taken over, however the calls follow one another.
THEOREM PriorityIsKept == Spec => PriorityHolds
<1> DEFINE A == \A r \in Route : marker[r] \in {"manual", "router"} => handler'[r] = handler[r]
<1>1. Inv /\ [Next]_vars => [A]_vars
  BY NextInv DEF Spared
<1> QED BY <1>1, Invariance, PTL DEF Spec, PriorityHolds

\* No two registered probes that are called after handlers have the same name:
\* what two routes record is never reported, stored or alerted on as one.
THEOREM NamesTellHandlersApart == Spec => []HandlersHaveOwnNames
<1>1. Inv => HandlersHaveOwnNames
  BY DEF Inv, Between, Apart, Autos, Custom, HandlersHaveOwnNames
<1> QED BY <1>1, Invariance, PTL

\* Every automatic probe that is registered wraps the handler of one route and of
\* no other, no handler is wrapped by two, and the probe of a monitored route is
\* registered unless the call that made it raised.
THEOREM ProbesFollowRoutes == Spec => []ProbesMatchRoutes
<1>1. ASSUME Inv PROVE ProbesMatchRoutes
  <2>1. Wrapped(handler, marker) /\ Fed(registered, {}, handler, marker, lost)
        /\ Feeding(marker) = Monitored /\ handler \in [Route -> Seq(Probe)]
    BY <1>1 DEF Inv, TypeOK, Between, Feeding, Monitored
  <2>2. ASSUME NEW p \in registered \cap AutoProbe
        PROVE  Cardinality({r \in Route : p \in Range(handler[r])}) = 1
    <3>1. PICK t \in Feeding(marker) : handler[t][1] = p
      BY <2>1 DEF Fed
    <3>2. t \in Route /\ 1 \in DOMAIN handler[t]
      BY <2>1, <3>1 DEF Feeding, Wrapped
    <3>3. ASSUME NEW r \in Route, p \in Range(handler[r]) PROVE r = t
      <4>1. PICK i \in DOMAIN handler[r] : handler[r][i] = p
        BY <3>3 DEF Range
      <4>2. i = 1 /\ r \in Feeding(marker)
        BY <2>1, <4>1 DEF Wrapped
      <4> QED BY <2>1, <3>1, <4>1, <4>2 DEF Fed
    <3>4. {r \in Route : p \in Range(handler[r])} = {t}
      BY <3>1, <3>2, <3>3 DEF Range
    <3> QED BY <3>4, FS_Singleton
  <2>3. ASSUME NEW r \in Route
        PROVE  Cardinality({i \in DOMAIN handler[r] : handler[r][i] \in AutoProbe}) <= 1
    <3> DEFINE S == {i \in DOMAIN handler[r] : handler[r][i] \in AutoProbe}
    <3>1. S = {} \/ S = {1}
      BY <2>1 DEF Wrapped
    <3> HIDE DEF S
    <3>2. Cardinality(S) = 0 \/ Cardinality(S) = 1
      BY <3>1, FS_EmptySet, FS_Singleton
    <3> QED BY <3>2 DEF S
  <2>4. \A r \in Monitored : handler[r][1] \in registered \cup lost
    BY <2>1 DEF Fed
  <2> QED BY <2>2, <2>3, <2>4 DEF ProbesMatchRoutes
<1>2. Inv => ProbesMatchRoutes
  BY <1>1
<1> QED BY <1>2, Invariance, PTL

-----------------------------------------------------------------------------
(* Names that a refresh keeps.                                             *)

\* name_fn gives no handler's name.
CustomApart == Custom \cap Range(RouteName) = {}

Names(reg, grp) == {Name(p) : p \in reg \cup grp}

\* A route that is told apart by its methods and path leaves its handler's name to
\* another probe -- or to a route that had it until name_fn renamed its probe.
Told(reg, grp, h, m) ==
    \A r \in Feeding(m) : h[r][1].name \in Others(r) =>
        \/ RouteName[r] \in Names(reg, grp)
        \/ \E t \in Feeding(m) : RouteName[t] = RouteName[r] /\ h[t][1].name \in Custom

Telling(s) ==
    /\ s.taken \subseteq Names(s.registered, s.group)
    /\ lost = {} => Told(s.registered, s.group, s.handler, s.marker)

\* What a round installs, in terms of names.
LEMMA InstallFrees ==
    ASSUME NEW u \in Call, Sound(u), NEW v, NEW c \in Candidate, NEW o \in AnyOptions,
           NEW p \in AutoProbe, Considered(u, c, o),
           NewName(u, c, o) # BadName, p.name = NewName(u, c, o),
           Installed(u, v, c.route, o, p)
    PROVE  /\ c.route \in Route /\ c \in DOMAIN Qualified
           /\ p \in v.registered \cup v.group /\ Name(p) = p.name
           /\ \A x \in u.registered \cup u.group :
                 x \in Replaced(u, c.route) \/ x \in v.registered \cup v.group
           /\ \A q \in Replaced(u, c.route) :
                 /\ Name(q) = q.name
                 /\ q.name \in {RouteName[c.route]} \cup Others(c.route) \cup Custom
           /\ o.named => p.name \in Custom
           /\ ~o.named => p.name = DefaultName(u, c)
<1> DEFINE r == c.route
<1>1. r \in Route /\ c \in DOMAIN Qualified /\ o.group \in BOOLEAN /\ o.named \in BOOLEAN
  BY RouteAssumption, OptionFacts DEF Candidate, Considered
<1>2. /\ v.registered = (u.registered \ Replaced(u, r)) \cup (IF o.group THEN {} ELSE {p})
      /\ v.group = u.group \cup (IF o.group THEN {p} ELSE {})
      /\ u.marker[r] \in {"none", "discover"}
  BY DEF Installed
<1>3. ASSUME NEW q \in Replaced(u, r)
      PROVE  Name(q) = q.name /\ q.name \in {RouteName[r]} \cup Others(r) \cup Custom
  <2>1. q = u.handler[r][1] /\ r \in Feeding(u.marker)
    BY <1>1, <1>2, <1>3, ReplacedIs
  <2>2. q \in AutoProbe
    BY <1>1, <2>1 DEF Sound, Wrapped
  <2>3. q.name \in {RouteName[r]} \cup Others(r) \cup Custom
    BY <2>1 DEF Sound, Called
  <2> QED BY <2>2, <2>3, NameFacts
<1>4. o.named => p.name \in Custom
  BY <1>1, NameFacts DEF NewName
<1>5. ~o.named => p.name = DefaultName(u, c)
  BY DEF NewName
<1>6. Name(p) = p.name
  BY NameFacts
<1>7. /\ p \in v.registered \cup v.group
      /\ \A x \in u.registered \cup u.group :
            x \in Replaced(u, r) \/ x \in v.registered \cup v.group
  BY <1>1, <1>2
<1> QED BY <1>1, <1>3, <1>4, <1>5, <1>6, <1>7

LEMMA InstallTells ==
    ASSUME CustomApart, NEW u \in Call, Sound(u), NEW v, NEW c \in Candidate,
           NEW o \in AnyOptions, NEW p \in AutoProbe, Considered(u, c, o),
           NewName(u, c, o) # BadName, p.name = NewName(u, c, o),
           Installed(u, v, c.route, o, p), Telling(u)
    PROVE  Telling(v)
<1> DEFINE r == c.route
           plain == RouteName[r]
           R == Replaced(u, r)
           U == Names(u.registered, u.group)
           V == Names(v.registered, v.group)
<1>1. /\ r \in Route /\ c \in DOMAIN Qualified
      /\ p \in v.registered \cup v.group /\ Name(p) = p.name
      /\ \A x \in u.registered \cup u.group : x \in R \/ x \in v.registered \cup v.group
      /\ \A q \in R : /\ Name(q) = q.name
                      /\ q.name \in {plain} \cup Others(r) \cup Custom
      /\ o.named => p.name \in Custom
      /\ ~o.named => p.name = DefaultName(u, c)
  BY InstallFrees
<1>2. /\ v.handler[r][1] = p /\ r \in Feeding(v.marker)
      /\ v.taken = (u.taken \ {q.name : q \in R}) \cup {p.name}
      /\ \A t \in Route : t # r => v.handler[t] = u.handler[t]
                                   /\ (t \in Feeding(v.marker) <=> t \in Feeding(u.marker))
      /\ Feeding(v.marker) \subseteq Route /\ Feeding(u.marker) \subseteq Route
  <2>1. /\ r \in Feeding(v.marker)
        /\ \A t \in Route : t # r => (t \in Feeding(v.marker) <=> t \in Feeding(u.marker))
        /\ Feeding(v.marker) \subseteq Route /\ Feeding(u.marker) \subseteq Route
    BY FeedingGrows
  <2> QED BY <2>1 DEF Installed
<1>3. /\ p.name \in V
      /\ \A n \in U : n \in V \/ \E q \in R : q.name = n
      /\ u.taken \subseteq U
  <2>1. p.name \in V
    BY <1>1 DEF Names
  <2>2. ASSUME NEW n \in U PROVE n \in V \/ \E q \in R : q.name = n
    <3>1. PICK x \in u.registered \cup u.group : Name(x) = n
      BY DEF Names
    <3> QED BY <1>1, <3>1 DEF Names
  <2> QED BY <2>1, <2>2 DEF Telling
<1> HIDE DEF R, U, V
<1>4. v.taken \subseteq V
  BY <1>2, <1>3
\* The route's own name is taken, or name_fn has named its probe.
<1>5. plain \in V \/ p.name \in Custom
  <2> SUFFICES ASSUME ~o.named PROVE plain \in V
    BY <1>1, OptionFacts
  <2>1. CASE plain \in u.taken /\ \A q \in R : q.name # plain
    BY <1>3, <2>1
  <2>2. CASE ~(plain \in u.taken /\ \A q \in R : q.name # plain)
    <3>1. p.name = plain
      BY <1>1, <2>2 DEF DefaultName, R
    <3> QED BY <1>3, <3>1
  <2> QED BY <2>1, <2>2
\* Another handler's name is left free only where that is so.
<1>6. ASSUME NEW x \in Route, RouteName[x] \in U
      PROVE  RouteName[x] \in V \/ (plain = RouteName[x] /\ p.name \in Custom)
  <2> SUFFICES ASSUME RouteName[x] \notin V
               PROVE  plain = RouteName[x] /\ p.name \in Custom
    OBVIOUS
  <2>1. PICK q \in R : q.name = RouteName[x]
    BY <1>3, <1>6
  <2>2. q.name \notin Custom /\ q.name \notin Others(r)
    BY <1>1, <1>6, <2>1, NameFacts, OthersApart DEF CustomApart
  <2>3. q.name = plain
    BY <1>1, <2>1, <2>2
  <2> QED BY <1>5, <2>1, <2>3
<1>7. ASSUME lost = {} PROVE Told(v.registered, v.group, v.handler, v.marker)
  <2> SUFFICES ASSUME NEW x \in Feeding(v.marker), v.handler[x][1].name \in Others(x)
               PROVE  \/ RouteName[x] \in V
                      \/ \E t \in Feeding(v.marker) :
                            RouteName[t] = RouteName[x] /\ v.handler[t][1].name \in Custom
    BY DEF Told, V
  <2>1. CASE x = r
    BY <1>2, <1>5, <2>1
  <2>2. CASE x # r
    <3>1. x \in Feeding(u.marker) /\ u.handler[x][1].name \in Others(x) /\ x \in Route
      BY <1>2, <2>2
    <3>2. CASE RouteName[x] \in U
      BY <1>2, <1>6, <3>1, <3>2
    <3>3. ASSUME NEW t \in Feeding(u.marker),
                 RouteName[t] = RouteName[x], u.handler[t][1].name \in Custom
          PROVE  \/ RouteName[x] \in V
                 \/ \E y \in Feeding(v.marker) :
                       RouteName[y] = RouteName[x] /\ v.handler[y][1].name \in Custom
      BY <1>2, <1>5, <3>3
    <3>4. Told(u.registered, u.group, u.handler, u.marker)
      BY <1>7 DEF Telling
    <3> QED BY <3>1, <3>2, <3>3, <3>4 DEF Told, U
  <2> QED BY <2>1, <2>2
<1> QED BY <1>4, <1>7 DEF Telling, V

LEMMA MonitorOneTells ==
    ASSUME CustomApart, NEW s \in Call, Sound(s), Telling(s),
           NEW c \in Candidate, NEW o \in AnyOptions
    PROVE  Telling(MonitorOne(s, c, o))
<1> DEFINE v == MonitorOne(s, c, o)
<1>1. CASE Idle(s, v)
  BY <1>1 DEF Idle, Telling
<1>2. ASSUME NEW p \in AutoProbe, Considered(s, c, o),
             NewName(s, c, o) # BadName, p.name = NewName(s, c, o),
             Installed(s, v, c.route, o, p)
      PROVE  Telling(v)
  <2> HIDE DEF v
  <2> QED BY <1>2, InstallTells
<1> QED BY <1>1, <1>2, MonitorOneIs

BetweenNames == lost = {} => Told(registered, {}, handler, marker)

LEMMA MonitorTells ==
    ASSUME CustomApart, Inv, BetweenNames, NEW candidates \in Seq(Candidate),
           NEW o \in AnyOptions, MonitorRoutes(candidates, o)
    PROVE  BetweenNames'
<1> DEFINE D == {s \in Call : Sound(s) /\ Telling(s)}
           s == MonitorAll(candidates, o)
<1>1. Before \in D
  <2>1. Telling(Before)
    BY DEF Telling, Before, Names, BetweenNames
  <2> QED BY <2>1, BeforeIs DEF Inv
<1>2. \A u \in D : \A c \in Candidate : MonitorOne(u, c, o) \in D
  BY MonitorOneKeeps, MonitorOneTells
<1> HIDE DEF D
<1>3. s \in D
  BY <1>1, <1>2, FoldIn
<1>4. Telling(s)
  BY <1>3 DEF D
<1>5. /\ registered' = WithGroup(s) /\ handler' = s.handler /\ marker' = s.marker
      /\ lost' = (IF s.stop = "raised" THEN lost \cup s.group ELSE lost)
  BY DEF MonitorRoutes
<1> HIDE DEF s
<1>6. ASSUME lost' = {} PROVE Told(registered', {}, handler', marker')
  <2>1. lost = {} /\ registered' \cup {} = s.registered \cup s.group
    BY <1>5, <1>6 DEF WithGroup
  <2>2. Told(s.registered, s.group, handler', marker')
    BY <1>4, <1>5, <2>1 DEF Telling
  <2>3. Names(registered', {}) = Names(s.registered, s.group)
    BY <2>1 DEF Names
  <2> QED BY <2>2, <2>3 DEF Told
<1> QED BY <1>6 DEF BetweenNames

LEMMA OthersTell ==
    ASSUME BetweenNames, registered \subseteq registered', UNCHANGED <<handler, marker, lost>>
    PROVE  BetweenNames'
<1>1. Names(registered, {}) \subseteq Names(registered', {})
  BY DEF Names
<1>2. ASSUME lost' = {} PROVE Told(registered', {}, handler', marker')
  <2>1. Told(registered, {}, handler', marker')
    BY <1>2 DEF BetweenNames
  <2> QED BY <1>1, <2>1 DEF Told
<1> QED BY <1>2 DEF BetweenNames

LEMMA NextTells ==
    ASSUME CustomApart, Inv, BetweenNames, [Next]_vars
    PROVE  BetweenNames'
<1>1. CASE registered \subseteq registered' /\ UNCHANGED <<handler, marker, lost>>
  BY <1>1, OthersTell
<1>2. ASSUME NEW p \in UserProbe, Add(p) \/ GroupAdd(p) PROVE BetweenNames'
  BY <1>1, <1>2 DEF Add, GroupAdd
<1>3. CASE Include
  BY <1>1, <1>3 DEF Include
<1>4. CASE DiscoverRoutes
  <2>1. PICK o \in Options("discover", BOOLEAN, {FALSE}) : MonitorRoutes(AppCandidates, o)
    BY <1>4 DEF DiscoverRoutes
  <2>2. o \in AnyOptions
    BY DEF AnyOptions
  <2> QED BY <2>1, <2>2, CandidatesType, MonitorTells
<1>5. ASSUME NEW router \in Router, WatchRouter(router) PROVE BetweenNames'
  <2>1. PICK o \in Options("router", {TRUE}, BOOLEAN) : MonitorRoutes(RouterCandidates(router), o)
    BY <1>5 DEF WatchRouter
  <2>2. o \in AnyOptions
    BY DEF AnyOptions
  <2>3. RouterCandidates(router) \in Seq(Candidate)
    BY CandidatesType
  <2> QED BY <2>1, <2>2, <2>3, MonitorTells
<1>6. ASSUME NEW t \in LateRoute, Attach(t) PROVE BetweenNames'
  BY <1>1, <1>6 DEF Attach
<1>7. ASSUME NEW k \in Included, Serve(k) PROVE BetweenNames'
  BY <1>1, <1>7 DEF Serve
<1>8. CASE UNCHANGED vars
  BY <1>1, <1>8 DEF vars
<1> QED BY <1>2, <1>3, <1>4, <1>5, <1>6, <1>7, <1>8 DEF Next

\* What discover_routes keeps of the names when no name is given by name_fn: those
\* of the handlers stay, those with methods and path have such a name again.
Same(s) ==
    \A r \in Route : marker[r] = "discover" =>
        /\ s.marker[r] = "discover"
        /\ handler[r][1].name = RouteName[r] => s.handler[r][1].name = RouteName[r]
        /\ handler[r][1].name \in Others(r) =>
              s.handler[r][1].name \in Others(r) /\ RouteName[r] \in s.taken

LEMMA InstallSame ==
    ASSUME CustomApart, NEW u \in Call, Sound(u), NEW v, NEW c \in Candidate,
           NEW o \in AnyOptions, NEW p \in AutoProbe, Considered(u, c, o),
           NewName(u, c, o) # BadName, p.name = NewName(u, c, o),
           Installed(u, v, c.route, o, p), Same(u), ~o.named, o.mark = "discover"
    PROVE  Same(v)
<1> DEFINE r == c.route
           plain == RouteName[r]
           R == Replaced(u, r)
<1>1. /\ r \in Route /\ c \in DOMAIN Qualified
      /\ \A q \in R : q.name \in {plain} \cup Others(r) \cup Custom
      /\ p.name = DefaultName(u, c)
  BY InstallFrees
<1>2. /\ v.handler[r][1] = p /\ v.marker[r] = "discover"
      /\ v.taken = (u.taken \ {q.name : q \in R}) \cup {p.name}
      /\ \A t \in Route : t # r => v.handler[t] = u.handler[t] /\ v.marker[t] = u.marker[t]
  BY DEF Installed
<1>3. u.marker[r] = "discover" => R = {u.handler[r][1]}
  BY DEF Replaced, Replaceable
<1> HIDE DEF R
<1>4. ASSUME NEW x \in Route, RouteName[x] \in u.taken PROVE RouteName[x] \in v.taken
  <2> SUFFICES ASSUME NEW q \in R, q.name = RouteName[x] PROVE RouteName[x] = p.name
    BY <1>2, <1>4
  <2>1. q.name \notin Custom /\ q.name \notin Others(r)
    BY <1>1, <1>4, NameFacts, OthersApart DEF CustomApart
  <2>2. q.name = plain
    BY <1>1, <2>1
  <2> QED BY <1>1, <2>2 DEF DefaultName, R
<1> SUFFICES ASSUME NEW x \in Route, marker[x] = "discover"
             PROVE  /\ v.marker[x] = "discover"
                    /\ handler[x][1].name = RouteName[x] => v.handler[x][1].name = RouteName[x]
                    /\ handler[x][1].name \in Others(x) =>
                          v.handler[x][1].name \in Others(x) /\ RouteName[x] \in v.taken
  BY DEF Same
<1>5. /\ u.marker[x] = "discover"
      /\ handler[x][1].name = RouteName[x] => u.handler[x][1].name = RouteName[x]
      /\ handler[x][1].name \in Others(x) =>
            u.handler[x][1].name \in Others(x) /\ RouteName[x] \in u.taken
  BY DEF Same
<1>6. CASE x # r
  BY <1>2, <1>4, <1>5, <1>6
<1>7. CASE x = r
  <2>1. R = {u.handler[r][1]}
    BY <1>3, <1>5, <1>7
  <2>2. ASSUME handler[x][1].name = RouteName[x] PROVE v.handler[x][1].name = RouteName[x]
    <3>1. \E q \in R : q.name = plain
      BY <1>5, <1>7, <2>1, <2>2
    <3>2. p.name = plain
      BY <1>1, <3>1 DEF DefaultName, R
    <3> QED BY <1>2, <1>7, <3>2
  <2>3. ASSUME handler[x][1].name \in Others(x)
        PROVE  v.handler[x][1].name \in Others(x) /\ RouteName[x] \in v.taken
    <3>1. u.handler[r][1].name \in Others(r) /\ plain \in u.taken
      BY <1>5, <1>7, <2>3
    <3>2. \A q \in R : q.name # plain
      BY <1>1, <2>1, <3>1, OthersApart
    <3>3. p.name = Qualified[c]
      BY <1>1, <3>1, <3>2 DEF DefaultName, R
    <3>4. Qualified[c] \in Others(r)
      BY <1>1, NameFacts
    <3> QED BY <1>2, <1>4, <1>7, <3>1, <3>3, <3>4
  <2> QED BY <1>2, <1>7, <2>2, <2>3
<1> QED BY <1>6, <1>7

\* Refreshing what discover_routes discovered keeps the names, whatever the
\* filters: results, history and alerts go on under them.  The hypothesis is that
\* name_fn, where it was used before, gave no probe the name of a handler.
THEOREM RefreshKeepsRouteNames ==
    ASSUME CustomApart
    PROVE  Spec => []RefreshKeepsNames
<1>1. Init => BetweenNames
  BY DEF Init, BetweenNames, Told, Feeding
<1>2. Inv /\ BetweenNames /\ [Next]_vars => BetweenNames'
  BY NextTells
<1>3. Inv /\ BetweenNames => RefreshKeepsNames
  <2> SUFFICES ASSUME Inv, BetweenNames, lost = {},
                      \A r \in Monitored : handler[r][1].name \notin Range(CustomName),
                      NEW selection \in Selections,
                      NEW r \in {t \in Route : marker[t] = "discover"}
               PROVE  LET old == handler[r][1].name
                          new == Discovered(selection, TRUE).handler[r][1].name
                      IN new = old \/ {old, new} \subseteq Others(r)
    BY DEF RefreshKeepsNames, Others
  <2> DEFINE o == [mark |-> "discover", refresh |-> TRUE, passing |-> selection,
                   named |-> FALSE, group |-> FALSE]
             s == MonitorAll(AppCandidates, o)
             D == {u \in Call : Sound(u) /\ Same(u)}
  <2>1. o \in AnyOptions /\ ~o.named /\ o.mark = "discover"
    BY DEF AnyOptions, Options
  <2>2. s = Discovered(selection, TRUE)
    BY DEF Discovered
  <2>3. Same(Before)
    <3> SUFFICES ASSUME NEW x \in Route, marker[x] = "discover", handler[x][1].name \in Others(x)
                 PROVE  RouteName[x] \in {Name(p) : p \in registered}
      BY DEF Same, Before
    <3>1. x \in Feeding(marker) /\ Feeding(marker) = Monitored
      BY DEF Feeding, Monitored
    <3>2. RouteName[x] \in Names(registered, {})
      BY <3>1 DEF BetweenNames, Told, Custom
    <3> QED BY <3>2 DEF Names
  <2>4. Before \in D
    BY <2>3, BeforeIs DEF Inv
  <2> HIDE DEF o
  <2>5. ASSUME NEW u \in D, NEW c \in Candidate PROVE MonitorOne(u, c, o) \in D
    <3> DEFINE v == MonitorOne(u, c, o)
    <3>1. u \in Call /\ Sound(u) /\ Same(u) /\ v \in Call /\ Sound(v)
      BY <2>1, MonitorOneKeeps
    <3>2. CASE Idle(u, v)
      BY <3>1, <3>2 DEF Idle, Same
    <3>3. ASSUME NEW p \in AutoProbe, Considered(u, c, o),
                 NewName(u, c, o) # BadName, p.name = NewName(u, c, o),
                 Installed(u, v, c.route, o, p)
          PROVE  Same(v)
      <4> HIDE DEF v, D
      <4> QED BY <2>1, <3>1, <3>3, InstallSame
    <3> QED BY <2>1, <3>1, <3>2, <3>3, MonitorOneIs
  <2> HIDE DEF D
  <2>6. s \in D
    BY <2>4, <2>5, CandidatesType, FoldIn
  <2>7. Same(s)
    BY <2>6 DEF D
  <2>8. handler[r][1].name \in {RouteName[r]} \cup Others(r) /\ r \in Route /\ marker[r] = "discover"
    <3>1. r \in Feeding(marker) /\ r \in Monitored
      BY DEF Feeding, Monitored
    <3> QED BY <3>1 DEF Inv, Between, Called, Custom
  <2> HIDE DEF s
  <2> QED BY <2>2, <2>7, <2>8 DEF Same
<1> QED BY <1>1, <1>2, <1>3, Invariance, PTL DEF Spec
=============================================================================
