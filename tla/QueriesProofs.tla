--------------------------- MODULE QueriesProofs ---------------------------
(***************************************************************************)
(* What the order of definitions is and is not, what it means for a place  *)
(* to contain a position, and that a call for the definition finds what    *)
(* was written there, in every project that is laid out as texts are.      *)
(***************************************************************************)
EXTENDS Queries, NaturalOrder

(* contains() tells whether a position lies between start and end, both       *)
(* included, though it compares columns on the first and last line only       *)
(* (ast.vala:175-188).                                                        *)
THEOREM ContainsIsInterval ==
    ASSUME NEW F, NEW r \in Refs(F), NEW pos \in Positions
    PROVE  RefContains(r, r.file, pos) <=> Covers(r, pos)
  BY SMT DEF Refs, Positions, RefContains, Covers, AtOrBefore

(* Among definitions that are not below the cursor the comparator is a strict *)
(* weak order: of two at most one is preferred, and neither preference nor    *)
(* indifference gets lost along a chain (server.vala:177-199).                *)
THEOREM ComparatorOrders ==
    ASSUME NEW F, NEW file \in F, NEW line \in Nat,
           NEW a \in Refs(F), NEW b \in Refs(F), NEW c \in Refs(F),
           ~Below(a, file, line), ~Below(b, file, line), ~Below(c, file, line)
    PROVE  /\ Compare(a, b, file, line) < 0 <=> Compare(b, a, file, line) > 0
           /\ Compare(a, b, file, line) < 0 /\ Compare(b, c, file, line) < 0
                => Compare(a, c, file, line) < 0
           /\ Compare(a, b, file, line) = 0 /\ Compare(b, c, file, line) = 0
                => Compare(a, c, file, line) = 0
  BY SMT DEF Refs, Below, Compare

(* With a definition below the cursor it is no order: each of the two comes   *)
(* after the other, so that the sort leaves them as they were found.          *)
THEOREM ComparatorConfused ==
    ASSUME NEW file, NEW line, NEW a, NEW b, Below(b, file, line)
    PROVE  Compare(a, b, file, line) = 1 /\ Compare(b, a, file, line) = 1
  BY DEF Compare
-----------------------------------------------------------------------------
(* The searches of the call handlers, for any question and any parts. *)

(* The first result is null if all are; else it is one of them.               *)
LEMMA FirstOfAll ==
    ASSUME NEW n \in Nat, NEW results, DOMAIN results = 1 .. n
    PROVE  IF \A k \in 1 .. n : results[k] = Nothing THEN FirstFound(results) = Nothing
           ELSE FirstFound(results) # Nothing /\ \E k \in 1 .. n : FirstFound(results) = results[k]
<1> DEFINE found == {r \in {<<k, results[k]>> : k \in DOMAIN results} : r[2] # Nothing}
           first == CHOOSE r \in found : \A s \in found : r[1] <= s[1]
<1>1. FirstFound(results) = IF found = {} THEN Nothing ELSE first[2]
  BY DEF FirstFound
<1>2. \A r \in found : r[2] # Nothing /\ \E k \in 1 .. n : r = <<k, results[k]>>
  OBVIOUS
<1>3. ASSUME NEW k \in 1 .. n, results[k] # Nothing PROVE <<k, results[k]>> \in found
  BY <1>3
<1>4. CASE \A k \in 1 .. n : results[k] = Nothing
  BY <1>1, <1>2, <1>4
<1>5. CASE ~(\A k \in 1 .. n : results[k] = Nothing)
  <2> DEFINE places == {k \in 1 .. n : results[k] # Nothing}
  <2>1. places \in SUBSET Nat /\ places # {}
    BY <1>5
  <2>2. PICK k \in places : \A j \in places : k <= j
    <3> HIDE DEF places
    <3>1. QED
      BY <2>1, LeastNatural
  <2>3. <<k, results[k]>> \in found
    BY <2>2
  <2>4. \A s \in found : k <= s[1]
    <3>1. ASSUME NEW s \in found PROVE k <= s[1]
      <4>1. PICK j \in 1 .. n : s = <<j, results[j]>>
        BY <1>2
      <4>2. j \in places
        BY <1>2, <4>1
      <4>3. QED
        BY <2>2, <4>1, <4>2
    <3>2. QED
      BY <3>1
  <2>5. first \in found
    <3> DEFINE r0 == <<k, results[k]>>
    <3>1. r0 \in found /\ \A s \in found : r0[1] <= s[1]
      BY <2>3, <2>4
    <3> HIDE DEF r0, found
    <3>2. QED
      BY <3>1
  <2> HIDE DEF found, first
  <2>6. PICK j \in 1 .. n : first = <<j, results[j]>>
    BY <1>2, <2>5
  <2>7. first[2] = results[j] /\ first[2] # Nothing /\ found # {}
    BY <1>2, <2>5, <2>6
  <2>8. QED
    BY <1>1, <1>5, <2>7
<1>6. QED
  BY <1>4, <1>5

(* A search asks every node and goes on to parts that are less deep.          *)
Searches(own, parts, depth) ==
    /\ depth \in [Node -> Nat] /\ DOMAIN own = Node
    /\ parts \in [Node -> Seq(Node)]
    /\ \A n \in Node : \A k \in DOMAIN parts[n] : depth[parts[n][k]] < depth[n]

(* found is what a search finds from each node. *)
Finds(found, own, parts) ==
    \A n \in Node :
        found[n] = IF own[n] # Nothing THEN own[n] ELSE FirstFound(Each(found, parts[n]))

LEMMA EachLocal ==
    ASSUME NEW f, NEW h, NEW w, \A k \in DOMAIN w : f[w[k]] = h[w[k]]
    PROVE  Each(f, w) = Each(h, w)
  BY DEF Each

LEMMA SearchFinds ==
    ASSUME NEW own, NEW parts, NEW depth, Searches(own, parts, depth)
    PROVE  Finds(Search(own, parts), own, parts)
<1> DEFINE V == {Nothing} \union {own[n] : n \in Node}
           value(n, f) == IF own[n] # Nothing THEN own[n] ELSE FirstFound(Each(f, parts[n]))
           g == [n \in Node |-> [f \in [Node -> V] |-> value(n, f)]]
<1>1. /\ depth \in [Node -> Nat] /\ DOMAIN own = Node /\ parts \in [Node -> Seq(Node)]
      /\ \A n \in Node : \A k \in DOMAIN parts[n] : depth[parts[n][k]] < depth[n]
  BY DEF Searches
<1>2. ASSUME NEW n \in Node PROVE parts[n] \in Seq(Node) /\ \A k \in DOMAIN parts[n] : parts[n][k] \in Node
  BY <1>1
<1>3. ASSUME NEW n \in Node, NEW f \in [Node -> V] PROVE value(n, f) \in V
  <2> DEFINE w == parts[n]
             results == Each(f, w)
  <2>1. w \in Seq(Node) /\ \A k \in DOMAIN w : w[k] \in Node
    BY <1>2
  <2> HIDE DEF V, w
  <2>2. /\ DOMAIN results = 1 .. Len(w) /\ Len(w) \in Nat
        /\ \A k \in 1 .. Len(w) : results[k] \in V
    BY <2>1 DEF Each
  <2> HIDE DEF results
  <2>3. FirstFound(results) = Nothing \/ \E k \in 1 .. Len(w) : FirstFound(results) = results[k]
    BY <2>2, FirstOfAll
  <2>4. FirstFound(results) \in V
    BY <2>2, <2>3 DEF V
  <2>5. QED
    BY <2>4 DEF V, results, w
<1>4. V # {}
  OBVIOUS
<1>5. g \in [Node -> [[Node -> V] -> V]]
  <2> HIDE DEF V, value
  <2>1. \A n \in Node : [f \in [Node -> V] |-> value(n, f)] \in [[Node -> V] -> V]
    BY <1>3
  <2>2. QED
    BY <2>1
<1>6. \A n \in Node : \A f \in [Node -> V] : g[n][f] = value(n, f)
  <2> HIDE DEF V, value
  <2>1. QED
    OBVIOUS
<1>7. ASSUME NEW n \in Node, NEW f \in [Node -> V], NEW h \in [Node -> V],
             \A u \in Node : depth[u] < depth[n] => f[u] = h[u]
      PROVE  value(n, f) = value(n, h)
  <2>1. \A k \in DOMAIN parts[n] : f[parts[n][k]] = h[parts[n][k]]
    BY <1>1, <1>2, <1>7
  <2>2. Each(f, parts[n]) = Each(h, parts[n])
    BY <2>1, EachLocal
  <2>3. QED
    BY <2>2
<1> HIDE DEF V, g, value
<1>8. Local(Node, V, depth, g)
  <2>1. \A n \in Node : \A f, h \in [Node -> V] :
            (\A u \in Node : depth[u] < depth[n] => f[u] = h[u]) => g[n][f] = g[n][h]
    BY <1>6, <1>7
  <2>2. QED
    BY <1>1, <1>5, <2>1 DEF Local
<1>9. PICK f0 \in [Node -> V] : \A n \in Node : f0[n] = g[n][f0]
  BY <1>4, <1>8, RecursionByDepth
<1> DEFINE Is(f) == f = [n \in Node |-> IF own[n] # Nothing THEN own[n]
                                        ELSE FirstFound(Each(f, parts[n]))]
           found == CHOOSE f : Is(f)
<1>10. Is(f0)
  <2>1. \A n \in Node : f0[n] = value(n, f0)
    BY <1>6, <1>9
  <2>2. f0 = [n \in Node |-> value(n, f0)]
    BY <2>1
  <2>3. QED
    BY <2>2 DEF value
<1>11. Is(found)
  <2> HIDE DEF Is
  <2>1. QED
    BY <1>10
<1>12. Search(own, parts) = found
  BY DEF Search
<1> HIDE DEF found
<1>13. Finds(found, own, parts)
  <2> DEFINE e(n) == IF own[n] # Nothing THEN own[n] ELSE FirstFound(Each(found, parts[n]))
  <2>1. found = [n \in Node |-> e(n)]
    BY <1>11
  <2> HIDE DEF e
  <2>2. \A n \in Node : found[n] = e(n)
    BY <2>1, Zenon
  <2>3. QED
    BY <2>2, Zenon DEF e, Finds
<1>14. QED
  BY <1>12, <1>13

(* What is found from a node, a node of it answers; and nothing is missed     *)
(* that a node itself or one of the parts gone on to answers.                 *)
LEMMA FoundBelow ==
    ASSUME NEW own, NEW parts, NEW depth, Searches(own, parts, depth),
           NEW found, Finds(found, own, parts),
           \A n \in Node : n \in Nodes[n],
           \A n \in Node : \A k \in DOMAIN parts[n] : Nodes[parts[n][k]] \subseteq Nodes[n]
    PROVE  \A n \in Node : found[n] # Nothing => \E m \in Nodes[n] : own[m] = found[n]
<1> DEFINE S == {n \in Node : found[n] # Nothing => \E m \in Nodes[n] : own[m] = found[n]}
<1>1. /\ depth \in [Node -> Nat] /\ parts \in [Node -> Seq(Node)]
      /\ \A n \in Node : \A k \in DOMAIN parts[n] : depth[parts[n][k]] < depth[n]
  BY DEF Searches
<1>2. ASSUME NEW n \in Node, \A u \in Node : depth[u] < depth[n] => u \in S PROVE n \in S
  <2>1. SUFFICES ASSUME found[n] # Nothing PROVE \E m \in Nodes[n] : own[m] = found[n]
    OBVIOUS
  <2>2. CASE own[n] # Nothing
    BY <2>2 DEF Finds
  <2>3. CASE own[n] = Nothing
    <3> DEFINE w == parts[n]
               results == Each(found, w)
    <3>1. found[n] = FirstFound(results)
      BY <2>3 DEF Finds
    <3>2. w \in Seq(Node) /\ DOMAIN w = 1 .. Len(w) /\ Len(w) \in Nat
      BY <1>1
    <3>3. DOMAIN results = 1 .. Len(w) /\ \A k \in 1 .. Len(w) : results[k] = found[w[k]]
      BY <3>2 DEF Each
    <3> HIDE DEF results
    <3>4. PICK k \in 1 .. Len(w) : found[n] = results[k]
      BY <2>1, <3>1, <3>2, <3>3, FirstOfAll, SMTT(20)
    <3>5. w[k] \in Node /\ depth[w[k]] < depth[n] /\ Nodes[w[k]] \subseteq Nodes[n]
      BY <1>1, <3>2
    <3>6. found[w[k]] = found[n]
      BY <3>3, <3>4
    <3>7. w[k] \in S
      BY <1>2, <3>5
    <3>8. QED
      BY <2>1, <3>5, <3>6, <3>7
  <2>4. QED
    BY <2>2, <2>3
<1>3. Node \subseteq S
  <2> HIDE DEF S
  <2>1. QED
    BY <1>1, <1>2, InductionByDepth
<1>4. QED
  BY <1>3

LEMMA NothingMissed ==
    ASSUME NEW own, NEW parts, NEW depth, Searches(own, parts, depth),
           NEW found, Finds(found, own, parts), NEW n \in Node,
           own[n] # Nothing \/ \E k \in DOMAIN parts[n] : found[parts[n][k]] # Nothing
    PROVE  found[n] # Nothing
<1>1. CASE own[n] # Nothing
  BY <1>1 DEF Finds
<1>2. CASE own[n] = Nothing
  <2> DEFINE w == parts[n]
             results == Each(found, w)
  <2>1. found[n] = FirstFound(results)
    BY <1>2 DEF Finds
  <2>2. w \in Seq(Node) /\ DOMAIN w = 1 .. Len(w) /\ Len(w) \in Nat
    BY DEF Searches
  <2>3. DOMAIN results = 1 .. Len(w) /\ \A k \in 1 .. Len(w) : results[k] = found[w[k]]
    BY <2>2 DEF Each
  <2>4. \E k \in 1 .. Len(w) : results[k] # Nothing
    BY <1>2, <2>2, <2>3
  <2> HIDE DEF results
  <2>5. QED
    BY <2>1, <2>2, <2>3, <2>4, FirstOfAll
<1>3. QED
  BY <1>1, <1>2

(* What is found along a sequence of nodes.                                   *)
LEMMA FirstOfEach ==
    ASSUME NEW w \in Seq(Node), NEW found
    PROVE  LET r == FirstFound(Each(found, w))
           IN /\ r # Nothing => \E k \in DOMAIN w : r = found[w[k]]
              /\ r = Nothing => \A k \in DOMAIN w : found[w[k]] = Nothing
<1> DEFINE results == Each(found, w)
<1>1. DOMAIN w = 1 .. Len(w) /\ Len(w) \in Nat
  OBVIOUS
<1>2. DOMAIN results = 1 .. Len(w) /\ \A k \in 1 .. Len(w) : results[k] = found[w[k]]
  BY <1>1 DEF Each
<1> HIDE DEF results
<1>3. IF \A k \in 1 .. Len(w) : results[k] = Nothing THEN FirstFound(results) = Nothing
      ELSE FirstFound(results) # Nothing /\ \E k \in 1 .. Len(w) : FirstFound(results) = results[k]
  BY <1>1, <1>2, FirstOfAll
<1>4. QED
  BY <1>1, <1>2, <1>3 DEF results
-----------------------------------------------------------------------------
(* The nodes of a text. *)

LEMMA PartsType ==
    ASSUME NEW n \in Node
    PROVE  /\ n.parts \in Seq(Node) /\ DOMAIN n.parts = 1 .. Len(n.parts) /\ Len(n.parts) \in Nat
           /\ \A k \in DOMAIN n.parts : n.parts[k] \in Node
<1>1. n.parts \in Seq(Node)
  BY NodeAssumption
<1>2. QED
  BY <1>1

LEMMA NodesUnfold ==
    ASSUME NEW depth, Deepens(depth)
    PROVE  /\ \A n \in Node : Nodes[n] = {n} \union UNION {Nodes[n.parts[k]] : k \in DOMAIN n.parts}
           /\ \A n \in Node : Nodes[n] \in SUBSET Node
<1> DEFINE V == SUBSET Node
           value(n, f) == {n} \union UNION {f[n.parts[k]] : k \in DOMAIN n.parts}
           g == [n \in Node |-> [f \in [Node -> V] |-> value(n, f)]]
<1>1. /\ depth \in [Node -> Nat]
      /\ \A n \in Node : \A k \in DOMAIN n.parts : depth[n.parts[k]] < depth[n]
  BY DEF Deepens
<1>2. ASSUME NEW n \in Node, NEW f \in [Node -> V] PROVE value(n, f) \in V
  <2>1. \A k \in DOMAIN n.parts : f[n.parts[k]] \in V
    BY PartsType
  <2>2. QED
    BY <2>1
<1>3. V # {}
  OBVIOUS
<1>4. g \in [Node -> [[Node -> V] -> V]]
  <2> HIDE DEF V, value
  <2>1. \A n \in Node : [f \in [Node -> V] |-> value(n, f)] \in [[Node -> V] -> V]
    BY <1>2
  <2>2. QED
    BY <2>1
<1>5. \A n \in Node : \A f \in [Node -> V] : g[n][f] = value(n, f)
  <2> HIDE DEF V, value
  <2>1. QED
    OBVIOUS
<1>6. ASSUME NEW n \in Node, NEW f \in [Node -> V], NEW h \in [Node -> V],
             \A u \in Node : depth[u] < depth[n] => f[u] = h[u]
      PROVE  value(n, f) = value(n, h)
  <2>1. \A k \in DOMAIN n.parts : f[n.parts[k]] = h[n.parts[k]]
    BY <1>1, <1>6, PartsType
  <2>2. {f[n.parts[k]] : k \in DOMAIN n.parts} = {h[n.parts[k]] : k \in DOMAIN n.parts}
    BY <2>1
  <2>3. QED
    BY <2>2
<1> HIDE DEF V, g, value
<1>7. Local(Node, V, depth, g)
  <2>1. \A n \in Node : \A f, h \in [Node -> V] :
            (\A u \in Node : depth[u] < depth[n] => f[u] = h[u]) => g[n][f] = g[n][h]
    BY <1>5, <1>6
  <2>2. QED
    BY <1>1, <1>4, <2>1 DEF Local
<1>8. PICK f0 \in [Node -> V] : \A n \in Node : f0[n] = g[n][f0]
  BY <1>3, <1>7, RecursionByDepth
<1> DEFINE Is(f) == f = [n \in Node |-> {n} \union UNION {f[n.parts[k]] : k \in DOMAIN n.parts}]
           nodes == CHOOSE f : Is(f)
<1>9. Is(f0)
  <2>1. \A n \in Node : f0[n] = value(n, f0)
    BY <1>5, <1>8
  <2>2. f0 = [n \in Node |-> value(n, f0)]
    BY <2>1
  <2>3. QED
    BY <2>2 DEF value
<1>10. Is(nodes)
  <2> HIDE DEF Is
  <2>1. QED
    BY <1>9
<1>11. Nodes = nodes
  BY DEF Nodes
<1> HIDE DEF nodes
<1>12. \A n \in Node : nodes[n] = value(n, nodes)
  <2>1. nodes = [n \in Node |-> value(n, nodes)]
    BY <1>10 DEF value
  <2>2. QED
    BY <2>1, Zenon
<1> DEFINE S == {n \in Node : nodes[n] \in SUBSET Node}
<1>13. ASSUME NEW n \in Node, \A u \in Node : depth[u] < depth[n] => u \in S PROVE n \in S
  <2>1. \A k \in DOMAIN n.parts : nodes[n.parts[k]] \in SUBSET Node
    BY <1>1, <1>13, PartsType
  <2>2. value(n, nodes) \in SUBSET Node
    BY <2>1 DEF value
  <2>3. QED
    BY <1>12, <2>2
<1>14. Node \subseteq S
  <2> HIDE DEF S
  <2>1. QED
    BY <1>1, <1>13, InductionByDepth
<1>15. QED
  BY <1>11, <1>12, <1>14 DEF value

(* A node is among its nodes, and so are those of its parts, all the way.     *)
LEMMA NodesDown ==
    ASSUME NEW depth, Deepens(depth)
    PROVE  /\ \A n \in Node : n \in Nodes[n] /\ Nodes[n] \subseteq Node
           /\ \A n \in Node : \A k \in DOMAIN n.parts : Nodes[n.parts[k]] \subseteq Nodes[n]
           /\ \A n \in Node : \A m \in Nodes[n] :
                 m = n \/ \E k \in DOMAIN n.parts : m \in Nodes[n.parts[k]]
           /\ \A n \in Node : \A m \in Nodes[n] : Nodes[m] \subseteq Nodes[n]
<1>1. \A n \in Node : Nodes[n] = {n} \union UNION {Nodes[n.parts[k]] : k \in DOMAIN n.parts}
  BY NodesUnfold
<1>2. \A n \in Node : n \in Nodes[n] /\ Nodes[n] \subseteq Node
  BY <1>1, NodesUnfold
<1>3. \A n \in Node : \A k \in DOMAIN n.parts : Nodes[n.parts[k]] \subseteq Nodes[n]
  BY <1>1
<1>4. \A n \in Node : \A m \in Nodes[n] :
            m = n \/ \E k \in DOMAIN n.parts : m \in Nodes[n.parts[k]]
  BY <1>1
<1> DEFINE S == {n \in Node : \A m \in Nodes[n] : Nodes[m] \subseteq Nodes[n]}
<1>5. depth \in [Node -> Nat]
  BY DEF Deepens
<1>6. ASSUME NEW n \in Node, \A u \in Node : depth[u] < depth[n] => u \in S PROVE n \in S
  <2>1. SUFFICES ASSUME NEW m \in Nodes[n] PROVE Nodes[m] \subseteq Nodes[n]
    OBVIOUS
  <2>2. CASE m = n
    BY <2>2
  <2>3. ASSUME NEW k \in DOMAIN n.parts, m \in Nodes[n.parts[k]] PROVE Nodes[m] \subseteq Nodes[n]
    <3>1. n.parts[k] \in Node /\ depth[n.parts[k]] < depth[n]
      BY PartsType DEF Deepens
    <3>2. n.parts[k] \in S
      BY <1>6, <3>1
    <3>3. QED
      BY <1>3, <2>3, <3>2
  <2>4. QED
    BY <1>4, <2>2, <2>3
<1>7. Node \subseteq S
  <2> HIDE DEF S
  <2>1. QED
    BY <1>5, <1>6, InductionByDepth
<1>8. QED
  BY <1>2, <1>3, <1>4, <1>7
-----------------------------------------------------------------------------
(* What the parse keeps. *)

(* The elements of a sequence of sequences of at most one element.            *)
Picks(ss, n, keep, item, V) ==
    /\ n \in Nat /\ ss = [k \in 1 .. n |-> ss[k]]
    /\ \A k \in 1 .. n : IF k \in keep THEN item[k] \in V /\ ss[k] = <<item[k]>> ELSE ss[k] = <<>>

LEMMA PickedElements ==
    ASSUME NEW V, NEW n, NEW ss, NEW keep, NEW item, Picks(ss, n, keep, item, V)
    PROVE  /\ FlattenSeq(ss) \in Seq(V)
           /\ \A x : x \in ToSet(FlattenSeq(ss)) <=> \E k \in 1 .. n : k \in keep /\ x = item[k]
<1>0. /\ n \in Nat /\ ss = [k \in 1 .. n |-> ss[k]]
      /\ \A k \in 1 .. n : k \in keep => item[k] \in V /\ ss[k] = <<item[k]>>
      /\ \A k \in 1 .. n : k \notin keep => ss[k] = <<>>
  BY DEF Picks
<1>1. ASSUME NEW k \in 1 .. n PROVE ss[k] \in Seq(V)
  <2>1. CASE k \in keep
    <3>1. item[k] \in V /\ ss[k] = <<item[k]>>
      BY <1>0, <2>1
    <3>2. \A v \in V : <<v>> \in Seq(V)
      OBVIOUS
    <3>3. QED
      BY <3>1, <3>2
  <2>2. CASE k \notin keep
    <3>1. ss[k] = <<>>
      BY <1>0, <2>2, Zenon
    <3>2. <<>> \in Seq(V)
      OBVIOUS
    <3>3. QED
      BY <3>1, <3>2, Zenon
  <2>3. QED
    BY <2>1, <2>2
<1>2. ss \in Seq(Seq(V)) /\ Len(ss) = n
  <2>1. [k \in 1 .. n |-> ss[k]] \in Seq(Seq(V))
    BY <1>0, <1>1
  <2>2. ss \in Seq(Seq(V))
    BY <1>0, <2>1, Zenon
  <2>3. DOMAIN ss = 1 .. n
    BY <1>0
  <2>4. QED
    BY <1>0, <2>2, <2>3
<1>3. ASSUME NEW k \in 1 .. n, NEW x
      PROVE  x \in ToSet(ss[k]) <=> k \in keep /\ x = item[k]
  <2>1. CASE k \in keep
    <3>1. ss[k] = <<item[k]>>
      BY <1>0, <2>1
    <3>2. ToSet(<<item[k]>>) = {item[k]}
      BY DEF ToSet
    <3>3. QED
      BY <2>1, <3>1, <3>2
  <2>2. CASE k \notin keep
    <3>1. ss[k] = <<>>
      BY <1>0, <2>2
    <3>2. ToSet(<<>>) = {}
      BY DEF ToSet
    <3>3. QED
      BY <2>2, <3>1, <3>2
  <2>3. QED
    BY <2>1, <2>2
<1>4. \A x : x \in ToSet(FlattenSeq(ss)) <=> \E k \in 1 .. n : x \in ToSet(ss[k])
  BY <1>2, ElementsFlatten
<1>5. FlattenSeq(ss) \in Seq(V)
  BY <1>2, FlattenType
<1>6. QED
  BY <1>3, <1>4, <1>5, Zenon

LEMMA PickedInjective ==
    ASSUME NEW V, NEW n, NEW ss, NEW keep, NEW item, Picks(ss, n, keep, item, V),
           \A i, j \in 1 .. n : i # j /\ i \in keep /\ j \in keep => item[i] # item[j]
    PROVE  IsInjective(FlattenSeq(ss))
<1>1. /\ n \in Nat /\ ss = [k \in 1 .. n |-> ss[k]]
      /\ \A k \in 1 .. n : k \in keep => item[k] \in V /\ ss[k] = <<item[k]>>
      /\ \A k \in 1 .. n : k \notin keep => ss[k] = <<>>
  BY DEF Picks
<1>2. ToSet(<<>>) = {} /\ \A x : ToSet(<<x>>) = {x}
  BY DEF ToSet
<1>3. ss \in Seq(Seq(V)) /\ Len(ss) = n
  <2>1. ASSUME NEW k \in 1 .. n PROVE ss[k] \in Seq(V)
    <3>1. <<>> \in Seq(V) /\ \A v \in V : <<v>> \in Seq(V)
      OBVIOUS
    <3>2. QED
      BY <1>1, <3>1, Zenon
  <2>2. [k \in 1 .. n |-> ss[k]] \in Seq(Seq(V))
    BY <1>1, <2>1
  <2>3. ss \in Seq(Seq(V))
    BY <1>1, <2>2, Zenon
  <2>4. DOMAIN ss = 1 .. n
    BY <1>1
  <2>5. QED
    BY <1>1, <2>3, <2>4
<1>4. ASSUME NEW k \in 1 .. n PROVE IsInjective(ss[k])
  <2>1. IsInjective(<<>>) /\ IsInjective(<<item[k]>>)
    BY DEF IsInjective
  <2>2. QED
    BY <1>1, <2>1, Zenon
<1>5. ASSUME NEW k \in 1 .. n, NEW x \in ToSet(ss[k]) PROVE k \in keep /\ x = item[k]
  <2>1. k \in keep
    BY <1>1, <1>2, <1>5
  <2>2. ToSet(ss[k]) = {item[k]}
    BY <1>1, <1>2, <2>1, Zenon
  <2>3. QED
    BY <2>1, <2>2
<1>6. Dissimilar(ss, n)
  <2>1. ASSUME NEW i \in 1 .. n, NEW j \in 1 .. n, i # j, NEW x \in ToSet(ss[i]) PROVE x \notin ToSet(ss[j])
    BY <1>5, <2>1
  <2>2. QED
    BY <1>4, <2>1 DEF Dissimilar
<1>7. QED
  BY <1>3, <1>6, InjectiveFlatten

LEMMA ConditionsKept ==
    ASSUME NEW n \in Node, \A m \in Node : Shaped(m)
    PROVE  /\ Conditions(n) \in Seq(Node)
           /\ \A x : x \in ToSet(Conditions(n)) <=>
                 \E k \in DOMAIN n.parts : IsKept(n, k) /\ x = n.parts[k].parts[1]
           /\ (\A i, j \in DOMAIN n.parts : i # j /\ IsKept(n, i) /\ IsKept(n, j) =>
                  n.parts[i].parts[1] # n.parts[j].parts[1]) => IsInjective(Conditions(n))
<1> DEFINE ss == [k \in DOMAIN n.parts |-> IF IsKept(n, k) THEN <<n.parts[k].parts[1]>> ELSE <<>>]
           keep == {k \in DOMAIN n.parts : IsKept(n, k)}
           item == [k \in DOMAIN n.parts |-> n.parts[k].parts[1]]
           l == Len(n.parts)
<1>1. DOMAIN n.parts = 1 .. l /\ l \in Nat /\ \A k \in 1 .. l : n.parts[k] \in Node
  BY PartsType
<1>2. ASSUME NEW k \in 1 .. l, IsKept(n, k) PROVE n.parts[k].parts[1] \in Node
  <2> DEFINE c == n.parts[k]
  <2>1. c \in Node /\ c.type = "condition"
    BY <1>1, <1>2 DEF IsKept
  <2> HIDE DEF c
  <2>2. Len(c.parts) = 1
    BY <2>1 DEF Shaped
  <2>3. c.parts[1] \in Node
    BY <2>1, <2>2, PartsType
  <2>4. QED
    BY <2>3 DEF c
<1>3. DOMAIN ss = 1 .. l /\ ss = [k \in 1 .. l |-> ss[k]]
  BY <1>1
<1>4. Picks(ss, l, keep, item, Node)
  BY <1>1, <1>2, <1>3 DEF Picks
<1>5. /\ \A k \in 1 .. l : k \in keep <=> IsKept(n, k)
      /\ \A k \in 1 .. l : item[k] = n.parts[k].parts[1]
  BY <1>1
<1>6. Conditions(n) = FlattenSeq(ss)
  BY DEF Conditions
<1> HIDE DEF ss, keep, item
<1>7. /\ FlattenSeq(ss) \in Seq(Node)
      /\ \A x : x \in ToSet(FlattenSeq(ss)) <=> \E k \in 1 .. l : k \in keep /\ x = item[k]
  BY <1>4, PickedElements
<1>8. (\A i, j \in 1 .. l : i # j /\ i \in keep /\ j \in keep => item[i] # item[j]) =>
          IsInjective(FlattenSeq(ss))
  BY <1>4, PickedInjective
<1>9. QED
  BY <1>1, <1>5, <1>6, <1>7, <1>8

LEMMA BlocksKept ==
    ASSUME NEW n \in Node
    PROVE  /\ Blocks(n) \in Seq(Node)
           /\ \A x : x \in ToSet(Blocks(n)) <=>
                 \E k \in DOMAIN n.parts : ~InSelection(n.parts[k]) /\ x = n.parts[k]
           /\ (\A i, j \in DOMAIN n.parts : i # j /\ ~InSelection(n.parts[i]) /\ ~InSelection(n.parts[j]) =>
                  n.parts[i] # n.parts[j]) => IsInjective(Blocks(n))
<1> DEFINE ss == [k \in DOMAIN n.parts |->
                    IF n.parts[k].type \in {"token", "condition"} THEN <<>> ELSE <<n.parts[k]>>]
           keep == {k \in DOMAIN n.parts : ~InSelection(n.parts[k])}
           item == [k \in DOMAIN n.parts |-> n.parts[k]]
           l == Len(n.parts)
<1>1. DOMAIN n.parts = 1 .. l /\ l \in Nat /\ \A k \in 1 .. l : n.parts[k] \in Node
  BY PartsType
<1>3. DOMAIN ss = 1 .. l /\ ss = [k \in 1 .. l |-> ss[k]]
  BY <1>1
<1>4. Picks(ss, l, keep, item, Node)
  BY <1>1, <1>3 DEF InSelection, Picks
<1>5. /\ \A k \in 1 .. l : k \in keep <=> ~InSelection(n.parts[k])
      /\ \A k \in 1 .. l : item[k] = n.parts[k]
  BY <1>1
<1>6. Blocks(n) = FlattenSeq(ss)
  BY DEF Blocks
<1> HIDE DEF ss, keep, item
<1>7. /\ FlattenSeq(ss) \in Seq(Node)
      /\ \A x : x \in ToSet(FlattenSeq(ss)) <=> \E k \in 1 .. l : k \in keep /\ x = item[k]
  BY <1>4, PickedElements
<1>8. (\A i, j \in 1 .. l : i # j /\ i \in keep /\ j \in keep => item[i] # item[j]) =>
          IsInjective(FlattenSeq(ss))
  BY <1>4, PickedInjective
<1>9. QED
  BY <1>1, <1>5, <1>6, <1>7, <1>8

(* The searches go on to nodes of the text only, each less deep than where    *)
(* they come from.                                                            *)
GoesDown(n, w, depth) ==
    /\ w \in Seq(Node)
    /\ \A k \in DOMAIN w : depth[w[k]] < depth[n] /\ Nodes[w[k]] \subseteq Nodes[n]

LEMMA ElementsGoDown ==
    ASSUME NEW n, NEW depth, NEW w \in Seq(Node),
           \A x \in ToSet(w) : depth[x] < depth[n] /\ Nodes[x] \subseteq Nodes[n]
    PROVE  GoesDown(n, w, depth)
<1>1. \A k \in DOMAIN w : w[k] \in ToSet(w)
  BY DEF ToSet
<1>2. QED
  BY <1>1 DEF GoesDown

LEMMA ParsedGoesDown ==
    ASSUME NEW depth, Deepens(depth), \A m \in Node : Shaped(m), NEW n \in Node
    PROVE  GoesDown(n, Parsed(n), depth) /\ GoesDown(n, n.parts, depth)
<1>1. ASSUME NEW m \in Node, NEW k \in DOMAIN m.parts
      PROVE  /\ m.parts[k] \in Node /\ depth[m.parts[k]] < depth[m]
             /\ Nodes[m.parts[k]] \subseteq Nodes[m]
             /\ depth[m] \in Nat
  BY NodesDown, PartsType DEF Deepens
<1>2. GoesDown(n, n.parts, depth)
  BY <1>1, PartsType DEF GoesDown
<1>3. CASE n.type = "if"
  <2>1. Conditions(n) \in Seq(Node) /\ Blocks(n) \in Seq(Node)
    BY ConditionsKept, BlocksKept
  <2>2. ASSUME NEW x \in ToSet(Conditions(n)) PROVE depth[x] < depth[n] /\ Nodes[x] \subseteq Nodes[n]
    <3>1. PICK k \in DOMAIN n.parts : IsKept(n, k) /\ x = n.parts[k].parts[1]
      BY ConditionsKept
    <3> DEFINE c == n.parts[k]
    <3>2. c \in Node /\ depth[c] < depth[n] /\ Nodes[c] \subseteq Nodes[n] /\ depth[n] \in Nat
      BY <1>1
    <3>3. c.type = "condition"
      BY <3>1 DEF IsKept
    <3>4. x = c.parts[1]
      BY <3>1
    <3> HIDE DEF c
    <3>5. 1 \in DOMAIN c.parts
      BY <3>2, <3>3, PartsType DEF Shaped
    <3>6. depth[x] < depth[c] /\ Nodes[x] \subseteq Nodes[c] /\ depth[c] \in Nat /\ depth[x] \in Nat
      BY <1>1, <3>2, <3>4, <3>5 DEF Deepens
    <3>7. QED
      BY <3>2, <3>6
  <2>3. ASSUME NEW x \in ToSet(Blocks(n)) PROVE depth[x] < depth[n] /\ Nodes[x] \subseteq Nodes[n]
    BY <1>1, BlocksKept
  <2>4. /\ Conditions(n) \o Blocks(n) \in Seq(Node)
        /\ ToSet(Conditions(n) \o Blocks(n)) = ToSet(Conditions(n)) \union ToSet(Blocks(n))
    BY <2>1, ElementsConcat, ConcatProperties
  <2>5. Parsed(n) = Conditions(n) \o Blocks(n)
    BY <1>3 DEF Parsed
  <2>6. QED
    BY <1>2, <2>2, <2>3, <2>4, <2>5, ElementsGoDown
<1>4. CASE n.type # "if"
  BY <1>2, <1>4 DEF Parsed
<1>5. QED
  BY <1>3, <1>4

LEMMA ReverseGoesDown ==
    ASSUME NEW n, NEW depth, NEW w \in Seq(Node), GoesDown(n, w, depth)
    PROVE  GoesDown(n, Reverse(w), depth)
<1> DEFINE l == Len(w)
           r == [i \in 1 .. l |-> w[(l - i) + 1]]
<1>1. l \in Nat /\ DOMAIN w = 1 .. l
  OBVIOUS
<1>2. \A k \in 1 .. l : w[k] \in Node /\ depth[w[k]] < depth[n] /\ Nodes[w[k]] \subseteq Nodes[n]
  BY <1>1 DEF GoesDown
<1>3. Reverse(w) = r
  BY DEF Reverse
<1> HIDE DEF l
<1>4. \A i \in 1 .. l : (l - i) + 1 \in 1 .. l
  BY <1>1
<1>5. r \in Seq(Node) /\ DOMAIN r = 1 .. l
  BY <1>1, <1>2, <1>4
<1>6. \A i \in 1 .. l : depth[r[i]] < depth[n] /\ Nodes[r[i]] \subseteq Nodes[n]
  BY <1>2, <1>4
<1> HIDE DEF r
<1>7. QED
  BY <1>3, <1>5, <1>6 DEF GoesDown

LEMMA NowhereGoesDown == \A n, depth : GoesDown(n, <<>>, depth)
  BY DEF GoesDown

(* Parts into which every node goes down can be searched.                     *)
LEMMA DownSearches ==
    ASSUME NEW own, NEW parts, NEW depth, Deepens(depth), DOMAIN own = Node,
           DOMAIN parts = Node, parts = [n \in Node |-> parts[n]],
           \A n \in Node : GoesDown(n, parts[n], depth)
    PROVE  /\ Searches(own, parts, depth)
           /\ \A n \in Node : \A k \in DOMAIN parts[n] : Nodes[parts[n][k]] \subseteq Nodes[n]
<1>1. \A n \in Node : parts[n] \in Seq(Node)
  BY DEF GoesDown
<1>2. parts \in [Node -> Seq(Node)]
  BY <1>1
<1>3. QED
  BY <1>2 DEF GoesDown, Searches, Deepens
-----------------------------------------------------------------------------
(* findIdentifier and the search for a call of subdir(). *)

Names(file, pos) == [n \in Node |-> NameAt(n, file, pos)]
Insides(file, pos) == [n \in Node |-> Within(n, file, pos)]

LEMMA IdentifierFinds ==
    ASSUME NEW depth, Deepens(depth), \A m \in Node : Shaped(m), NEW file, NEW pos
    PROVE  /\ Searches(Names(file, pos), Insides(file, pos), depth)
           /\ Finds(FindIdentifier(file, pos), Names(file, pos), Insides(file, pos))
           /\ \A n \in Node : FindIdentifier(file, pos)[n] # Nothing =>
                 \E m \in Nodes[n] : NameAt(m, file, pos) = FindIdentifier(file, pos)[n]
<1> DEFINE own == Names(file, pos)
           parts == Insides(file, pos)
<1>1. DOMAIN own = Node /\ DOMAIN parts = Node /\ parts = [n \in Node |-> parts[n]]
      /\ (\A n \in Node : own[n] = NameAt(n, file, pos) /\ parts[n] = Within(n, file, pos))
  BY DEF Names, Insides
<1>2. FindIdentifier(file, pos) = Search(own, parts)
  BY DEF FindIdentifier, Names, Insides
<1>3. ASSUME NEW n \in Node PROVE GoesDown(n, Within(n, file, pos), depth)
  <2>1. /\ GoesDown(n, <<>>, depth) /\ GoesDown(n, Parsed(n), depth)
        /\ GoesDown(n, Reverse(n.parts), depth)
    BY NowhereGoesDown, ParsedGoesDown, ReverseGoesDown, PartsType
  <2>2. Within(n, file, pos) \in {<<>>, Parsed(n), Reverse(n.parts)}
    BY DEF Within
  <2>3. QED
    BY <2>1, <2>2
<1> HIDE DEF own, parts
<1>4. \A n \in Node : GoesDown(n, parts[n], depth)
  BY <1>1, <1>3
<1>5. Searches(own, parts, depth)
      /\ \A n \in Node : \A k \in DOMAIN parts[n] : Nodes[parts[n][k]] \subseteq Nodes[n]
  BY <1>1, <1>4, DownSearches
<1>6. Finds(Search(own, parts), own, parts)
  BY <1>5, SearchFinds
<1> DEFINE found == Search(own, parts)
<1>7. \A n \in Node : n \in Nodes[n] /\ Nodes[n] \subseteq Node
  BY NodesDown
<1> HIDE DEF found
<1>8. \A n \in Node : found[n] # Nothing => \E m \in Nodes[n] : own[m] = found[n]
  BY <1>5, <1>6, <1>7, FoundBelow DEF found
<1>9. ASSUME NEW n \in Node, found[n] # Nothing
      PROVE  \E m \in Nodes[n] : NameAt(m, file, pos) = found[n]
  <2>1. PICK m \in Nodes[n] : own[m] = found[n]
    BY <1>8, <1>9
  <2>2. m \in Node
    BY <1>7
  <2>3. QED
    BY <1>1, <2>1, <2>2
<1>10. QED
  BY <1>2, <1>5, <1>6, <1>9 DEF found, own, parts

CallsAt(file, pos) == [n \in Node |-> CallAt(n, file, pos)]
Nests == [n \in Node |-> Nested(n)]

LEMMA SubdirFinds ==
    ASSUME NEW depth, Deepens(depth), \A m \in Node : Shaped(m), NEW file, NEW pos
    PROVE  /\ \A n \in Node : CallAt(n, file, pos) # Nothing => SubdirCall(file, pos)[n] # Nothing
           /\ \A n \in Node : SubdirCall(file, pos)[n] # Nothing =>
                 \E m \in Nodes[n] : CallAt(m, file, pos) = SubdirCall(file, pos)[n]
<1> DEFINE own == CallsAt(file, pos)
           parts == Nests
<1>1. DOMAIN own = Node /\ DOMAIN parts = Node /\ parts = [n \in Node |-> parts[n]]
      /\ (\A n \in Node : own[n] = CallAt(n, file, pos) /\ parts[n] = Nested(n))
  BY DEF CallsAt, Nests
<1>2. SubdirCall(file, pos) = Search(own, parts)
  BY DEF SubdirCall, CallsAt, Nests
<1>3. ASSUME NEW n \in Node PROVE GoesDown(n, Nested(n), depth)
  BY NowhereGoesDown, ParsedGoesDown DEF Nested
<1> HIDE DEF own, parts
<1>4. \A n \in Node : GoesDown(n, parts[n], depth)
  BY <1>1, <1>3
<1>5. Searches(own, parts, depth)
      /\ \A n \in Node : \A k \in DOMAIN parts[n] : Nodes[parts[n][k]] \subseteq Nodes[n]
  BY <1>1, <1>4, DownSearches
<1>6. Finds(Search(own, parts), own, parts)
  BY <1>5, SearchFinds
<1> DEFINE found == Search(own, parts)
<1>7. \A n \in Node : n \in Nodes[n] /\ Nodes[n] \subseteq Node
  BY NodesDown
<1> HIDE DEF found
<1>8. \A n \in Node : found[n] # Nothing => \E m \in Nodes[n] : own[m] = found[n]
  BY <1>5, <1>6, <1>7, FoundBelow DEF found
<1>9. ASSUME NEW n \in Node, found[n] # Nothing
      PROVE  \E m \in Nodes[n] : CallAt(m, file, pos) = found[n]
  <2>1. PICK m \in Nodes[n] : own[m] = found[n]
    BY <1>8, <1>9
  <2>2. m \in Node
    BY <1>7
  <2>3. QED
    BY <1>1, <2>1, <2>2
<1>10. ASSUME NEW n \in Node, CallAt(n, file, pos) # Nothing PROVE found[n] # Nothing
  <2>1. own[n] # Nothing
    BY <1>1, <1>10
  <2>2. QED
    BY <1>5, <1>6, <2>1, NothingMissed DEF found
<1>11. QED
  BY <1>2, <1>9, <1>10 DEF found

(* Whatever is below a node is below a part that the parse keeps, unless it   *)
(* is in the condition of an elif.                                            *)
LEMMA ParsedKeeps ==
    ASSUME NEW depth, Deepens(depth), \A m \in Node : Shaped(m),
           NEW n \in Node, ~InSelection(n), NEW x \in Nodes[n], x # n, ~InSelection(x),
           \A k \in Elifs(n) : x \notin Nodes[n.parts[k]]
    PROVE  \E y \in ToSet(Parsed(n)) : ~InSelection(y) /\ x \in Nodes[y]
<1>1. PICK k \in DOMAIN n.parts : x \in Nodes[n.parts[k]]
  BY NodesDown
<1> DEFINE c == n.parts[k]
<1>2. c \in Node /\ c \in ToSet(n.parts) /\ x \in Nodes[c] /\ c = n.parts[k]
  BY <1>1, PartsType DEF ToSet
<1>3. InSelection(c) => n.type = "if"
  BY DEF Shaped
<1> HIDE DEF c
<1>4. CASE n.type # "if"
  BY <1>2, <1>3, <1>4 DEF Parsed
<1>5. CASE n.type = "if"
  <2>1. /\ Conditions(n) \in Seq(Node) /\ Blocks(n) \in Seq(Node)
        /\ ToSet(Conditions(n) \o Blocks(n)) = ToSet(Conditions(n)) \union ToSet(Blocks(n))
    BY ConditionsKept, BlocksKept, ElementsConcat
  <2>2. ToSet(Parsed(n)) = ToSet(Conditions(n)) \union ToSet(Blocks(n))
    BY <1>5, <2>1 DEF Parsed
  <2>3. CASE ~InSelection(c)
    <3>1. c \in ToSet(Blocks(n))
      BY <1>2, <2>3, BlocksKept
    <3>2. QED
      BY <1>2, <2>2, <2>3, <3>1
  <2>4. CASE c.type = "token"
    <3>1. DOMAIN c.parts = {}
      BY <1>2, <2>4 DEF Shaped
    <3>2. x = c
      BY <1>2, <3>1, NodesDown
    <3>3. QED
      BY <2>4, <3>2 DEF InSelection
  <2>5. CASE c.type = "condition"
    <3>1. /\ DOMAIN n.parts = 1 .. Len(n.parts) /\ Len(n.parts) \in Nat /\ Len(n.parts) >= 2
          /\ IsToken(n.parts[1], "if") /\ n.parts[2].type = "condition"
      BY <1>5, PartsType DEF Shaped
    <3>2. k \notin Elifs(n)
      BY <1>1
    <3>3. ~(k > 2)
      BY <1>2, <1>5, <2>5, <3>2 DEF Elifs
    <3>4. k # 1
      BY <1>2, <2>5, <3>1 DEF IsToken
    <3>5. k = 2
      BY <3>1, <3>3, <3>4
    <3>6. IsKept(n, 2)
      BY <3>1 DEF IsKept
    <3>7. 2 \in DOMAIN n.parts /\ Len(c.parts) = 1
      BY <1>2, <2>5, <3>1 DEF Shaped
    <3> DEFINE y == c.parts[1]
    <3>8. y \in ToSet(Conditions(n))
      BY <1>2, <3>5, <3>6, <3>7, ConditionsKept
    <3>9. x # c
      BY <2>5 DEF InSelection
    <3>10. PICK j \in DOMAIN c.parts : x \in Nodes[c.parts[j]]
      BY <1>2, <3>9, NodesDown
    <3>11. j = 1
      BY <1>2, <3>7, PartsType
    <3>12. ~InSelection(y)
      BY <1>2, <2>5, <3>10, <3>11 DEF Shaped
    <3>13. QED
      BY <2>2, <3>8, <3>10, <3>11, <3>12
  <2>6. QED
    BY <2>3, <2>4, <2>5 DEF InSelection
<1>6. QED
  BY <1>4, <1>5

LEMMA ReverseElements ==
    ASSUME NEW w \in Seq(Node)
    PROVE  ToSet(w) \subseteq ToSet(Reverse(w))
<1> DEFINE l == Len(w)
           r == [i \in 1 .. l |-> w[(l - i) + 1]]
<1>1. l \in Nat /\ DOMAIN w = 1 .. l
  OBVIOUS
<1>2. Reverse(w) = r
  BY DEF Reverse
<1>3. ASSUME NEW x \in ToSet(w) PROVE x \in ToSet(r)
  <2>1. PICK k \in 1 .. l : x = w[k]
    BY <1>1 DEF ToSet
  <2>2. (l - k) + 1 \in 1 .. l /\ (l - ((l - k) + 1)) + 1 = k
    BY <1>1
  <2> HIDE DEF l
  <2>3. r[(l - k) + 1] = x
    BY <2>1, <2>2
  <2>4. DOMAIN r = 1 .. l
    OBVIOUS
  <2> HIDE DEF r
  <2>5. QED
    BY <2>2, <2>3, <2>4 DEF ToSet
<1>4. QED
  BY <1>2, <1>3

(* A variable at the position that the parse has kept is found from every     *)
(* node around it.                                                            *)
LEMMA IdentifierNotMissed ==
    ASSUME NEW depth, Deepens(depth), \A m \in Node : Shaped(m),
           NEW f, NEW pos \in Cursors, NEW nodes \in SUBSET Node, Placed(f, nodes),
           \A n \in nodes : Nodes[n] \subseteq nodes,
           NEW x \in nodes, x.type = "id", Covers(x.ref, pos),
           \A n \in nodes : \A k \in Elifs(n) : x \notin Nodes[n.parts[k]]
    PROVE  \A n \in nodes : ~InSelection(n) /\ x \in Nodes[n] =>
              FindIdentifier(f, pos)[n] # Nothing
<1> DEFINE found == FindIdentifier(f, pos)
           S == {n \in Node : n \in nodes /\ ~InSelection(n) /\ x \in Nodes[n] => found[n] # Nothing}
<1>1. depth \in [Node -> Nat]
  BY DEF Deepens
<1>2. /\ Searches(Names(f, pos), Insides(f, pos), depth)
      /\ Finds(found, Names(f, pos), Insides(f, pos))
  BY IdentifierFinds
<1>3. ~InSelection(x)
  BY DEF InSelection
<1> HIDE DEF found
<1>4. ASSUME NEW n \in Node, \A u \in Node : depth[u] < depth[n] => u \in S PROVE n \in S
  <2>1. SUFFICES ASSUME n \in nodes, ~InSelection(n), x \in Nodes[n] PROVE found[n] # Nothing
    OBVIOUS
  <2>2. n.ref \in Refs({f}) /\ Covers(n.ref, pos)
    BY <1>3, <2>1 DEF Placed
  <2>3. RefContains(n.ref, f, pos)
    <3>1. pos \in Positions
      BY QueriesAssumption
    <3>2. n.ref.file = f
      BY <2>2 DEF Refs
    <3>3. QED
      BY <2>2, <3>1, <3>2, ContainsIsInterval
  <2>4. IsHere(n, f, pos)
    BY <2>3 DEF IsHere
  <2>5. Names(f, pos)[n] = NameAt(n, f, pos) /\ Insides(f, pos)[n] = Within(n, f, pos)
    BY DEF Names, Insides
  <2>6. CASE x = n
    <3>1. n.name # Nothing
      BY <2>6 DEF Shaped, IsName
    <3>2. NameAt(n, f, pos) # Nothing
      BY <2>4, <2>6, <3>1 DEF NameAt
    <3>3. QED
      BY <1>2, <2>5, <3>2, NothingMissed
  <2>7. CASE x # n
    <3>1. PICK y \in ToSet(Parsed(n)) : ~InSelection(y) /\ x \in Nodes[y]
      BY <1>3, <2>1, <2>7, ParsedKeeps
    <3>2. n.type \notin {"id", "string", "token", "condition"}
      <4>1. DOMAIN n.parts # {}
        BY <2>1, <2>7, NodesDown
      <4>2. n.type \notin {"id", "string", "token"}
        BY <4>1 DEF Shaped
      <4>3. QED
        BY <2>1, <4>2 DEF InSelection
    <3>3. Within(n, f, pos) = IF n.type = "binary" THEN Reverse(n.parts) ELSE Parsed(n)
      BY <2>4, <3>2 DEF Within
    <3>4. y \in ToSet(Within(n, f, pos))
      <4>1. CASE n.type = "binary"
        BY <3>1, <3>3, <4>1, ReverseElements, PartsType DEF Parsed
      <4>2. CASE n.type # "binary"
        BY <3>1, <3>3, <4>2
      <4>3. QED
        BY <4>1, <4>2
    <3> DEFINE w == Insides(f, pos)[n]
    <3>5. PICK k \in DOMAIN w : y = w[k]
      BY <2>5, <3>4 DEF ToSet
    <3>6. y \in Node /\ depth[y] < depth[n] /\ Nodes[y] \subseteq Nodes[n]
      <4>1. GoesDown(n, Parsed(n), depth)
        BY ParsedGoesDown
      <4>2. QED
        BY <3>1, <4>1 DEF GoesDown, ToSet
    <3>7. y \in nodes
      BY <2>1, <3>6, NodesDown
    <3>8. found[y] # Nothing
      BY <1>4, <3>1, <3>6, <3>7
    <3>9. QED
      BY <1>2, <3>5, <3>8, NothingMissed
  <2>8. QED
    BY <2>6, <2>7
<1>5. Node \subseteq S
  <2> HIDE DEF S
  <2>1. QED
    BY <1>1, <1>4, InductionByDepth
<1>6. QED
  BY <1>5 DEF found
-----------------------------------------------------------------------------
(* The merged file. *)

(* What a statement of f becomes, when h is what the files become.            *)
Piece(f, h, s) ==
    IF IsSubdir(s) THEN Append(h[Targets[f][s.parts[1].name]], s) ELSE <<s>>

Pieces(f, h) == [k \in DOMAIN text[f] |-> Piece(f, h, text[f][k])]

LEMMA TextType ==
    ASSUME text \in Texts, NEW f \in File
    PROVE  /\ text[f] \in Seq(Node) /\ DOMAIN text[f] = 1 .. Len(text[f]) /\ Len(text[f]) \in Nat
           /\ \A k \in DOMAIN text[f] : text[f][k] \in Node /\ text[f][k] \in ToSet(text[f])
<1>1. text[f] \in Seq(Node)
  BY QueriesAssumption
<1>2. QED
  BY <1>1 DEF ToSet

LEMMA PiecesType ==
    ASSUME NEW rank, Includes(rank), text \in Texts, NEW f \in File, NEW h \in [File -> Seq(Node)]
    PROVE  /\ Pieces(f, h) \in Seq(Seq(Node)) /\ Len(Pieces(f, h)) = Len(text[f])
           /\ \A k \in DOMAIN text[f] : Pieces(f, h)[k] = Piece(f, h, text[f][k])
<1>1. ASSUME NEW k \in DOMAIN text[f] PROVE Piece(f, h, text[f][k]) \in Seq(Node)
  <2> DEFINE s == text[f][k]
  <2>1. s \in Node /\ s \in ToSet(text[f])
    BY TextType
  <2> HIDE DEF s
  <2>2. CASE IsSubdir(s)
    <3>1. Targets[f][s.parts[1].name] \in File
      BY <2>1, <2>2 DEF Includes
    <3>2. h[Targets[f][s.parts[1].name]] \in Seq(Node)
      BY <3>1
    <3>3. Append(h[Targets[f][s.parts[1].name]], s) \in Seq(Node)
      BY <2>1, <3>2
    <3>4. QED
      BY <2>2, <3>3 DEF Piece, s
  <2>3. CASE ~IsSubdir(s)
    <3>1. <<s>> \in Seq(Node)
      BY <2>1
    <3>2. QED
      BY <2>3, <3>1 DEF Piece, s
  <2>4. QED
    BY <2>2, <2>3
<1>2. DOMAIN text[f] = 1 .. Len(text[f]) /\ Len(text[f]) \in Nat
  BY TextType
<1>3. \A k \in DOMAIN text[f] : Pieces(f, h)[k] = Piece(f, h, text[f][k])
  BY DEF Pieces
<1> DEFINE p == Pieces(f, h)
           l == Len(text[f])
<1>4. p = [k \in 1 .. l |-> p[k]] /\ DOMAIN p = 1 .. l
  BY <1>2 DEF Pieces
<1>5. \A k \in 1 .. l : p[k] \in Seq(Node)
  BY <1>1, <1>2, <1>3
<1> HIDE DEF p, l
<1>6. [k \in 1 .. l |-> p[k]] \in Seq(Seq(Node))
  BY <1>2, <1>5 DEF l
<1>7. p \in Seq(Seq(Node))
  BY <1>4, <1>6, Zenon
<1>8. Len(p) = l
  BY <1>2, <1>4, <1>7 DEF l
<1>9. QED
  BY <1>3, <1>7, <1>8 DEF p, l

LEMMA PiecesLocal ==
    ASSUME NEW f, NEW g, NEW h,
           \A k \in DOMAIN text[f] : IsSubdir(text[f][k]) =>
              g[Targets[f][text[f][k].parts[1].name]] = h[Targets[f][text[f][k].parts[1].name]]
    PROVE  Pieces(f, g) = Pieces(f, h)
<1>1. \A k \in DOMAIN text[f] : Piece(f, g, text[f][k]) = Piece(f, h, text[f][k])
  BY DEF Piece
<1>2. QED
  BY <1>1 DEF Pieces

LEMMA MergedUnfolds ==
    ASSUME NEW rank, Includes(rank), text \in Texts
    PROVE  /\ Merged \in [File -> Seq(Node)]
           /\ \A f \in File : Merged[f] = FlattenSeq(Pieces(f, Merged))
<1> DEFINE V == Seq(Node)
           value(f, h) == FlattenSeq(Pieces(f, h))
           g == [f \in File |-> [h \in [File -> V] |-> value(f, h)]]
<1>1. ASSUME NEW f \in File, NEW h \in [File -> V] PROVE value(f, h) \in V
  BY PiecesType, FlattenType
<1>2. V # {}
  <2>1. <<>> \in V
    OBVIOUS
  <2>2. QED
    BY <2>1
<1>3. g \in [File -> [[File -> V] -> V]]
  <2> HIDE DEF V, value
  <2>1. \A f \in File : [h \in [File -> V] |-> value(f, h)] \in [[File -> V] -> V]
    BY <1>1
  <2>2. QED
    BY <2>1
<1>4. \A f \in File : \A h \in [File -> V] : g[f][h] = value(f, h)
  <2> HIDE DEF V, value
  <2>1. QED
    OBVIOUS
<1>5. ASSUME NEW f \in File, NEW h \in [File -> V], NEW i \in [File -> V],
             \A u \in File : rank[u] < rank[f] => h[u] = i[u]
      PROVE  value(f, h) = value(f, i)
  <2>1. ASSUME NEW k \in DOMAIN text[f], IsSubdir(text[f][k])
        PROVE  h[Targets[f][text[f][k].parts[1].name]] = i[Targets[f][text[f][k].parts[1].name]]
    <3>1. /\ Targets[f][text[f][k].parts[1].name] \in File
          /\ rank[Targets[f][text[f][k].parts[1].name]] < rank[f]
      BY <2>1, TextType DEF Includes
    <3>2. QED
      BY <1>5, <3>1
  <2>2. Pieces(f, h) = Pieces(f, i)
    BY <2>1, PiecesLocal
  <2>3. QED
    BY <2>2
<1> HIDE DEF V, g, value
<1>6. Local(File, V, rank, g)
  <2>1. \A f \in File : \A h, i \in [File -> V] :
            (\A u \in File : rank[u] < rank[f] => h[u] = i[u]) => g[f][h] = g[f][i]
    BY <1>4, <1>5
  <2>2. rank \in [File -> Nat]
    BY DEF Includes
  <2>3. QED
    BY <1>3, <2>1, <2>2 DEF Local
<1>7. PICK f0 \in [File -> V] : \A f \in File : f0[f] = g[f][f0]
  BY <1>2, <1>6, RecursionByDepth
<1> DEFINE Is(m) == m = [f \in File |-> FlattenSeq([k \in DOMAIN text[f] |->
                          LET s == text[f][k]
                          IN IF IsSubdir(s) THEN Append(m[Targets[f][s.parts[1].name]], s)
                             ELSE <<s>>])]
           merged == CHOOSE m : Is(m)
<1>8. ASSUME NEW m PROVE Is(m) <=> m = [f \in File |-> value(f, m)]
  BY DEF value, Pieces, Piece
<1>9. Merged = merged
  BY DEF Merged
<1> HIDE DEF Is
<1>10. f0 = [f \in File |-> value(f, f0)]
  <2>1. \A f \in File : f0[f] = value(f, f0)
    BY <1>4, <1>7
  <2>2. QED
    BY <2>1
<1>11. Is(merged)
  BY <1>8, <1>10
<1> HIDE DEF merged
<1>12. merged = [f \in File |-> value(f, merged)]
  BY <1>8, <1>11
<1>13. \A f \in File : merged[f] = value(f, merged)
  BY <1>12, Zenon
<1> DEFINE S == {f \in File : merged[f] \in V}
<1>14. ASSUME NEW f \in File, \A u \in File : rank[u] < rank[f] => u \in S PROVE f \in S
  <2> DEFINE h == [u \in File |-> IF u \in S THEN merged[u] ELSE <<>>]
  <2>1. h \in [File -> V]
    BY DEF V
  <2>2. \A u \in File : rank[u] < rank[f] => h[u] = merged[u]
    BY <1>14
  <2> HIDE DEF h, S
  <2>3. ASSUME NEW k \in DOMAIN text[f], IsSubdir(text[f][k])
        PROVE  merged[Targets[f][text[f][k].parts[1].name]] = h[Targets[f][text[f][k].parts[1].name]]
    <3>1. /\ Targets[f][text[f][k].parts[1].name] \in File
          /\ rank[Targets[f][text[f][k].parts[1].name]] < rank[f]
      BY <2>3, TextType DEF Includes
    <3>2. QED
      BY <2>2, <3>1
  <2>4. Pieces(f, merged) = Pieces(f, h)
    BY <2>3, PiecesLocal
  <2>5. merged[f] = value(f, h)
    BY <1>13, <2>4 DEF value
  <2>6. QED
    BY <1>1, <2>1, <2>5 DEF S
<1>15. File \subseteq S
  <2> HIDE DEF S
  <2>1. rank \in [File -> Nat]
    BY DEF Includes
  <2>2. QED
    BY <1>14, <2>1, InductionByDepth
<1>16. merged \in [File -> V]
  <2>1. \A f \in File : merged[f] \in V
    BY <1>15
  <2>2. merged = [f \in File |-> merged[f]]
    BY <1>12
  <2>3. QED
    BY <2>1, <2>2
<1>17. QED
  BY <1>9, <1>13, <1>16 DEF V, value

(* It consists of the statements of the file and of the merged files that     *)
(* they include.                                                              *)
LEMMA MergedElements ==
    ASSUME NEW rank, Includes(rank), text \in Texts, NEW f \in File, NEW x
    PROVE  x \in ToSet(Merged[f]) <=>
              \E k \in DOMAIN text[f] :
                 \/ x = text[f][k]
                 \/ /\ IsSubdir(text[f][k])
                    /\ x \in ToSet(Merged[Targets[f][text[f][k].parts[1].name]])
<1> DEFINE p == Pieces(f, Merged)
           inner(s) == Merged[Targets[f][s.parts[1].name]]
<1>1. Merged \in [File -> Seq(Node)] /\ Merged[f] = FlattenSeq(p)
  BY MergedUnfolds
<1>2. /\ p \in Seq(Seq(Node)) /\ Len(p) = Len(text[f])
      /\ \A k \in DOMAIN text[f] : p[k] = Piece(f, Merged, text[f][k])
  BY <1>1, PiecesType
<1>3. DOMAIN text[f] = 1 .. Len(text[f])
  BY TextType
<1> HIDE DEF p
<1>4. x \in ToSet(FlattenSeq(p)) <=> \E k \in DOMAIN text[f] : x \in ToSet(p[k])
  BY <1>2, <1>3, ElementsFlatten
<1>5. ASSUME NEW k \in DOMAIN text[f]
      PROVE  x \in ToSet(p[k]) <=>
                x = text[f][k] \/ (IsSubdir(text[f][k]) /\ x \in ToSet(inner(text[f][k])))
  <2> DEFINE s == text[f][k]
  <2>1. s \in Node /\ s \in ToSet(text[f]) /\ p[k] = Piece(f, Merged, s)
    BY <1>2, TextType
  <2> HIDE DEF s
  <2>2. <<s>> \in Seq(Node) /\ ToSet(<<s>>) = {s}
    BY <2>1 DEF ToSet
  <2>3. CASE IsSubdir(s)
    <3>1. Targets[f][s.parts[1].name] \in File
      BY <2>1, <2>3 DEF Includes
    <3> DEFINE m == inner(s)
    <3>2. m \in Seq(Node)
      BY <1>1, <3>1
    <3>3. p[k] = Append(m, s)
      BY <2>1, <2>3 DEF Piece
    <3> HIDE DEF m
    <3>4. Append(m, s) = m \o <<s>>
      BY <2>1, <3>2, AppendIsConcat
    <3>5. ToSet(m \o <<s>>) = ToSet(m) \union ToSet(<<s>>)
      BY <2>2, <3>2, ElementsConcat, ZenonT(30)
    <3>6. x \in ToSet(p[k]) <=> x = s \/ x \in ToSet(m)
      BY <2>2, <3>3, <3>4, <3>5
    <3>7. QED
      BY <2>3, <3>6 DEF m, s
  <2>4. CASE ~IsSubdir(s)
    <3>1. p[k] = <<s>>
      BY <2>1, <2>4 DEF Piece
    <3>2. QED
      BY <2>2, <2>4, <3>1 DEF s
  <2>5. QED
    BY <2>3, <2>4
<1>6. QED
  BY <1>1, <1>4, <1>5

LEMMA MergedOwn ==
    ASSUME NEW rank, Includes(rank), text \in Texts, NEW f \in File
    PROVE  ToSet(text[f]) \subseteq ToSet(Merged[f])
<1>1. ASSUME NEW x \in ToSet(text[f]) PROVE x \in ToSet(Merged[f])
  <2>1. PICK k \in DOMAIN text[f] : x = text[f][k]
    BY DEF ToSet
  <2>2. QED
    BY <2>1, MergedElements
<1>2. QED
  BY <1>1

(* What the layout says of a file of the project. *)
LEMMA FileLaidOut ==
    ASSUME NEW depth, NEW rank, Layout(depth, rank), text \in Texts, NEW f \in File
    PROVE  /\ Deepens(depth) /\ Includes(rank) /\ \A n \in Node : Shaped(n)
           /\ Placed(f, Written(f)) /\ Apart(text[f])
           /\ Written(f) \in SUBSET Node /\ \A n \in Written(f) : Nodes[n] \subseteq Written(f)
           /\ \A s \in ToSet(text[f]) : s \in Node /\ s \in Nodes[s] /\ Nodes[s] \subseteq Written(f)
           /\ \A n \in Written(f) : \E s \in ToSet(text[f]) : n \in Nodes[s]
<1>1. Deepens(depth) /\ Includes(rank) /\ \A n \in Node : Shaped(n)
  BY DEF Layout
<1>2. Placed(f, Written(f)) /\ Apart(text[f])
  <2> DEFINE p == <<f, text[f]>>
  <2>1. p \in {<<g, t[g]>> : g \in File, t \in Texts} /\ p[1] = f /\ p[2] = text[f]
    OBVIOUS
  <2> HIDE DEF p
  <2>2. Placed(p[1], AllOf(p[2])) /\ Apart(p[2])
    BY <2>1 DEF Layout
  <2>3. QED
    BY <2>1, <2>2 DEF Written
<1>3. Written(f) = UNION {Nodes[text[f][k]] : k \in DOMAIN text[f]}
  BY DEF Written, AllOf
<1>4. \A n \in Node : n \in Nodes[n] /\ Nodes[n] \subseteq Node /\ \A m \in Nodes[n] : Nodes[m] \subseteq Nodes[n]
  BY <1>1, NodesDown
<1>5. \A k \in DOMAIN text[f] : text[f][k] \in Node /\ Nodes[text[f][k]] \subseteq Written(f)
  BY <1>3, TextType
<1>6. ASSUME NEW n \in Written(f) PROVE n \in Node /\ Nodes[n] \subseteq Written(f)
  <2>1. PICK k \in DOMAIN text[f] : n \in Nodes[text[f][k]]
    BY <1>3
  <2>2. QED
    BY <1>4, <1>5, <2>1
<1>7. \A s \in ToSet(text[f]) : \E k \in DOMAIN text[f] : s = text[f][k]
  BY DEF ToSet
<1>8. \A n \in Written(f) : \E s \in ToSet(text[f]) : n \in Nodes[s]
  BY <1>3, TextType
<1>9. QED
  BY <1>1, <1>2, <1>4, <1>5, <1>6, <1>7, <1>8

(* A place is where a search finds it when it is of the file and covers the   *)
(* position.                                                                  *)
LEMMA PlaceFound ==
    ASSUME NEW f, NEW g, NEW r \in Refs({g}), NEW pos \in Cursors
    PROVE  RefContains(r, f, pos) <=> f = g /\ Covers(r, pos)
<1>1. pos \in Positions /\ r.file = g
  BY QueriesAssumption DEF Refs
<1>2. RefContains(r, g, pos) <=> Covers(r, pos)
  BY <1>1, ContainsIsInterval
<1>3. RefContains(r, f, pos) => f = g
  BY <1>1 DEF RefContains
<1>4. QED
  BY <1>2, <1>3

(* A statement of a merged file stands in some file.                          *)
LEMMA MergedFrom ==
    ASSUME NEW depth, NEW rank, Layout(depth, rank), text \in Texts
    PROVE  \A f \in File : \A x \in ToSet(Merged[f]) : \E g \in File : x \in ToSet(text[g])
<1> DEFINE S == {f \in File : \A x \in ToSet(Merged[f]) : \E g \in File : x \in ToSet(text[g])}
<1>1. Includes(rank) /\ rank \in [File -> Nat]
  BY DEF Layout, Includes
<1>2. ASSUME NEW f \in File, \A u \in File : rank[u] < rank[f] => u \in S PROVE f \in S
  <2>1. SUFFICES ASSUME NEW x \in ToSet(Merged[f]) PROVE \E g \in File : x \in ToSet(text[g])
    OBVIOUS
  <2>2. PICK k \in DOMAIN text[f] :
              \/ x = text[f][k]
              \/ /\ IsSubdir(text[f][k])
                 /\ x \in ToSet(Merged[Targets[f][text[f][k].parts[1].name]])
    BY <1>1, MergedElements
  <2>3. CASE x = text[f][k]
    BY <2>3, TextType
  <2>4. CASE IsSubdir(text[f][k]) /\ x \in ToSet(Merged[Targets[f][text[f][k].parts[1].name]])
    <3> DEFINE target == Targets[f][text[f][k].parts[1].name]
    <3>1. target \in File /\ rank[target] < rank[f]
      BY <1>1, <2>4, TextType DEF Includes
    <3>2. target \in S
      BY <1>2, <3>1
    <3>3. QED
      BY <2>4, <3>2
  <2>5. QED
    BY <2>2, <2>3, <2>4
<1>3. File \subseteq S
  <2> HIDE DEF S
  <2>1. QED
    BY <1>1, <1>2, InductionByDepth
<1>4. QED
  BY <1>3

(* With a call of subdir() the statements of the file it leads to are merged. *)
LEMMA MergedFollows ==
    ASSUME NEW depth, NEW rank, Layout(depth, rank), text \in Texts
    PROVE  \A f \in File : \A s \in ToSet(Merged[f]) : IsSubdir(s) =>
              ToSet(text[Targets[s.ref.file][s.parts[1].name]]) \subseteq ToSet(Merged[f])
<1> DEFINE Followed(f, s) ==
             ToSet(text[Targets[s.ref.file][s.parts[1].name]]) \subseteq ToSet(Merged[f])
           S == {f \in File : \A s \in ToSet(Merged[f]) : IsSubdir(s) => Followed(f, s)}
<1>1. Includes(rank) /\ rank \in [File -> Nat]
  BY DEF Layout, Includes
<1>2. ASSUME NEW f \in File PROVE ToSet(text[f]) \subseteq ToSet(Merged[f])
  BY <1>1, MergedOwn
<1>3. ASSUME NEW f \in File, \A u \in File : rank[u] < rank[f] => u \in S PROVE f \in S
  <2>1. SUFFICES ASSUME NEW s \in ToSet(Merged[f]), IsSubdir(s) PROVE Followed(f, s)
    OBVIOUS
  <2>2. ASSUME NEW k \in DOMAIN text[f], IsSubdir(text[f][k])
        PROVE  LET target == Targets[f][text[f][k].parts[1].name]
               IN target \in File /\ rank[target] < rank[f] /\ ToSet(Merged[target]) \subseteq ToSet(Merged[f])
    <3> DEFINE target == Targets[f][text[f][k].parts[1].name]
    <3>1. target \in File /\ rank[target] < rank[f]
      BY <1>1, <2>2, TextType DEF Includes
    <3>2. \A x \in ToSet(Merged[target]) : x \in ToSet(Merged[f])
      BY <1>1, <2>2, MergedElements
    <3>3. QED
      BY <3>1, <3>2
  <2>3. PICK k \in DOMAIN text[f] :
              \/ s = text[f][k]
              \/ /\ IsSubdir(text[f][k])
                 /\ s \in ToSet(Merged[Targets[f][text[f][k].parts[1].name]])
    BY <1>1, MergedElements
  <2> DEFINE target == Targets[f][text[f][k].parts[1].name]
  <2>4. CASE s = text[f][k]
    <3>1. target \in File /\ ToSet(Merged[target]) \subseteq ToSet(Merged[f])
      BY <2>1, <2>2, <2>4
    <3>2. s.ref.file = f
      <4>1. s \in Written(f) /\ ~InSelection(s) /\ Placed(f, Written(f))
        <5>1. s \in ToSet(text[f])
          BY <2>4, TextType
        <5>2. QED
          BY <5>1, FileLaidOut DEF Apart
      <4>2. QED
        BY <4>1 DEF Placed, Refs
    <3>3. Targets[s.ref.file][s.parts[1].name] = target
      BY <2>4, <3>2
    <3> HIDE DEF target
    <3>4. ToSet(text[target]) \subseteq ToSet(Merged[target])
      BY <1>2, <3>1
    <3>5. QED
      BY <3>1, <3>3, <3>4
  <2>5. CASE IsSubdir(text[f][k]) /\ s \in ToSet(Merged[target])
    <3>1. target \in File /\ rank[target] < rank[f] /\ ToSet(Merged[target]) \subseteq ToSet(Merged[f])
      BY <2>2, <2>5
    <3> HIDE DEF target
    <3>2. target \in S
      BY <1>3, <3>1
    <3>3. Followed(target, s)
      BY <2>1, <2>5, <3>2
    <3>4. QED
      BY <3>1, <3>3
  <2>6. QED
    BY <2>3, <2>4, <2>5
<1>4. File \subseteq S
  <2> HIDE DEF S
  <2>1. QED
    BY <1>1, <1>3, InductionByDepth
<1>5. QED
  BY <1>4

(* The merged file of the root has the statements of all files of the tree.   *)
LEMMA TreeMerged ==
    ASSUME NEW depth, NEW rank, Layout(depth, rank), text \in Texts, NEW f \in InTree
    PROVE  f \in File /\ ToSet(text[f]) \subseteq ToSet(Merged[Root])
<1> DEFINE S == {g \in File : ToSet(text[g]) \subseteq ToSet(Merged[Root])}
<1>1. Includes(rank) /\ Root \in File
  BY QueriesAssumption DEF Layout
<1>2. Root \in S
  BY <1>1, MergedOwn
<1>3. ASSUME NEW g \in S, NEW n \in Written(g), IsSubdir(n)
      PROVE  Targets[g][n.parts[1].name] \in S
  <2>1. n \in ToSet(text[g]) /\ ~InSelection(n) /\ Placed(g, Written(g))
    <3>1. g \in File
      OBVIOUS
    <3>2. Apart(text[g]) /\ Placed(g, Written(g))
      BY <3>1, FileLaidOut
    <3>3. n \in AllOf(text[g])
      BY DEF Written
    <3>4. QED
      BY <1>3, <3>2, <3>3 DEF Apart
  <2>2. n.ref.file = g
    BY <1>3, <2>1 DEF Placed, Refs
  <2>3. n \in ToSet(Merged[Root])
    BY <2>1
  <2>4. ToSet(text[Targets[g][n.parts[1].name]]) \subseteq ToSet(Merged[Root])
    BY <1>1, <1>3, <2>2, <2>3, MergedFollows
  <2>5. Targets[g][n.parts[1].name] \in File
    BY <1>1, <1>3, <2>1 DEF Includes
  <2>6. QED
    BY <2>4, <2>5
<1>4. f \in File /\ (Root \in S /\ (\A g \in S : \A n \in Written(g) :
                          IsSubdir(n) => Targets[g][n.parts[1].name] \in S) => f \in S)
  BY DEF InTree
<1>5. f \in S
  <2> HIDE DEF S
  <2>1. QED
    BY <1>2, <1>3, <1>4
<1>6. QED
  BY <1>4, <1>5
-----------------------------------------------------------------------------
(* What a call for the definition finds. *)

NameFound(file, pos) == FirstFound(Each(FindIdentifier(file, pos), Merged[Root]))
CallFound(file, pos) == FirstFound(Each(SubdirCall(file, pos), Merged[Root]))

LEMMA RootMerged ==
    ASSUME NEW depth, NEW rank, Layout(depth, rank), text \in Texts
    PROVE  /\ Merged[Root] \in Seq(Node)
           /\ \A k \in DOMAIN Merged[Root] : \E g \in File : Merged[Root][k] \in ToSet(text[g])
<1>1. Root \in File /\ Includes(rank)
  BY QueriesAssumption DEF Layout
<1>2. Merged[Root] \in Seq(Node)
  BY <1>1, MergedUnfolds
<1>3. \A k \in DOMAIN Merged[Root] : Merged[Root][k] \in ToSet(Merged[Root])
  BY DEF ToSet
<1>4. \A x \in ToSet(Merged[Root]) : \E g \in File : x \in ToSet(text[g])
  BY <1>1, MergedFrom
<1>5. QED
  BY <1>2, <1>3, <1>4

(* A name that is found is written in the file, where the cursor is.          *)
LEMMA NameIsThere ==
    ASSUME NEW depth, NEW rank, Layout(depth, rank), text \in Texts,
           NEW file \in File, NEW pos \in Cursors, NameFound(file, pos) # Nothing
    PROVE  \E n \in NamesAt(file, pos) : NameFound(file, pos) = n.name
<1> DEFINE found == FindIdentifier(file, pos)
           w == Merged[Root]
           name == NameFound(file, pos)
<1>1. w \in Seq(Node) /\ \A k \in DOMAIN w : \E g \in File : w[k] \in ToSet(text[g])
  BY RootMerged
<1>2. name = FirstFound(Each(found, w))
  BY DEF NameFound
<1>3. \A n \in Node : found[n] # Nothing => \E m \in Nodes[n] : NameAt(m, file, pos) = found[n]
  BY IdentifierFinds DEF Layout
<1> HIDE DEF found, w, name
<1>4. name # Nothing
  BY DEF name
<1>5. PICK k \in DOMAIN w : name = found[w[k]]
  BY <1>1, <1>2, <1>4, FirstOfEach
<1>6. PICK g \in File : w[k] \in ToSet(text[g])
  BY <1>1
<1>7. /\ w[k] \in Node /\ Nodes[w[k]] \subseteq Written(g) /\ Placed(g, Written(g))
  BY <1>6, FileLaidOut
<1>8. PICK m \in Nodes[w[k]] : NameAt(m, file, pos) = name
  BY <1>3, <1>4, <1>5, <1>7
<1>9. m \in Written(g)
  BY <1>7
<1>10. /\ IsName(m) /\ m.name = name /\ RefContains(Place(m), file, pos)
  BY <1>4, <1>8 DEF NameAt, IsHere, IsName, Place
<1>11. m.ref \in Refs({g}) /\ m.nameRef \in Refs({g})
  BY <1>7, <1>9, <1>10 DEF Placed, IsName, InSelection
<1>12. Place(m) \in Refs({g})
  BY <1>11 DEF Place
<1>13. file = g /\ Covers(Place(m), pos)
  BY <1>10, <1>12, PlaceFound
<1>14. QED
  BY <1>9, <1>10, <1>13 DEF NamesAt, name

(* A variable is found, if the parse has kept it, and nothing else.           *)
LEMMA VariableFound ==
    ASSUME NEW depth, NEW rank, Layout(depth, rank), text \in Texts,
           NEW file \in InTree, NEW pos \in Cursors,
           NEW n \in Identifiers(file) \ Dropped(file), Covers(n.ref, pos)
    PROVE  NameFound(file, pos) = n.name
<1> DEFINE found == FindIdentifier(file, pos)
           w == Merged[Root]
<1>1. file \in File /\ ToSet(text[file]) \subseteq ToSet(w)
  BY TreeMerged
<1>2. w \in Seq(Node)
  BY RootMerged
<1>3. NameFound(file, pos) = FirstFound(Each(found, w))
  BY DEF NameFound
<1>4. n \in Written(file) /\ n.type = "id"
  BY DEF Identifiers
<1>5. /\ Deepens(depth) /\ (\A m \in Node : Shaped(m))
      /\ Placed(file, Written(file)) /\ Apart(text[file])
      /\ Written(file) \in SUBSET Node /\ \A m \in Written(file) : Nodes[m] \subseteq Written(file)
  BY <1>1, FileLaidOut
<1>6. PICK s \in ToSet(text[file]) : n \in Nodes[s]
  BY <1>1, <1>4, FileLaidOut
<1>7. s \in Written(file) /\ ~InSelection(s)
  BY <1>1, <1>5, <1>6, FileLaidOut DEF Apart
<1>8. \A m \in Written(file) : \A k \in Elifs(m) : n \notin Nodes[m.parts[k]]
  BY DEF Dropped
<1>9. found[s] # Nothing
  BY <1>4, <1>5, <1>6, <1>7, <1>8, IdentifierNotMissed
<1>10. PICK k \in DOMAIN w : s = w[k]
  BY <1>1, <1>6 DEF ToSet
<1> HIDE DEF found, w
<1>11. NameFound(file, pos) # Nothing
  BY <1>2, <1>3, <1>9, <1>10, FirstOfEach
<1>12. PICK m \in NamesAt(file, pos) : NameFound(file, pos) = m.name
  BY <1>1, <1>11, NameIsThere
<1>13. n \in NamesAt(file, pos)
  BY <1>4 DEF NamesAt, IsName, Place
<1>14. m = n
  <2> DEFINE here == {i \in AllOf(text[file]) : IsName(i) /\ Covers(Place(i), pos)}
  <2>1. m \in here /\ n \in here
    BY <1>12, <1>13 DEF NamesAt, Written
  <2>2. \A i, j \in here : i = j
    BY <1>5 DEF Apart
  <2> HIDE DEF here
  <2>3. QED
    BY <2>1, <2>2
<1>15. QED
  BY <1>12, <1>14

(* A call of subdir() is found, with the file it stands in.                   *)
LEMMA SubdirFound ==
    ASSUME NEW depth, NEW rank, Layout(depth, rank), text \in Texts,
           NEW file \in InTree, NEW pos \in Cursors,
           NEW n \in Written(file), IsSubdir(n), Covers(n.ref, pos)
    PROVE  CallFound(file, pos) # Nothing /\ CallFound(file, pos) = <<file, n.parts[1].name>>
<1> DEFINE found == SubdirCall(file, pos)
           w == Merged[Root]
           call0 == CallFound(file, pos)
<1>1. file \in File /\ ToSet(text[file]) \subseteq ToSet(w)
  BY TreeMerged
<1>2. w \in Seq(Node) /\ \A k \in DOMAIN w : \E g \in File : w[k] \in ToSet(text[g])
  BY RootMerged
<1>3. call0 = FirstFound(Each(found, w))
  BY DEF CallFound
<1>4. /\ \A m \in Node : CallAt(m, file, pos) # Nothing => found[m] # Nothing
      /\ \A m \in Node : found[m] # Nothing => \E i \in Nodes[m] : CallAt(i, file, pos) = found[m]
  BY SubdirFinds DEF Layout
<1>5. Placed(file, Written(file)) /\ Apart(text[file]) /\ Written(file) \in SUBSET Node
  BY <1>1, FileLaidOut
<1>6. n \in Node /\ n \in ToSet(text[file]) /\ ~InSelection(n)
  BY <1>5 DEF Apart, Written
<1>7. n.ref \in Refs({file})
  BY <1>5, <1>6 DEF Placed
<1>8. RefContains(n.ref, file, pos) /\ n.ref.file = file
  BY <1>7, PlaceFound DEF Refs
<1>9. n.parts[1] \in Node
  BY <1>6, PartsType DEF IsSubdir
<1>10. CallAt(n, file, pos) # Nothing
  <2>1. CallAt(n, file, pos) = <<file, n.parts[1].name>>
    BY <1>8 DEF CallAt
  <2>2. QED
    BY <1>1, <1>9, <2>1, QueriesAssumption
<1>11. PICK j \in DOMAIN w : n = w[j]
  BY <1>1, <1>6 DEF ToSet
<1> HIDE DEF found, w, call0
<1>12. call0 # Nothing
  BY <1>2, <1>3, <1>4, <1>6, <1>10, <1>11, FirstOfEach
<1>13. PICK k \in DOMAIN w : call0 = found[w[k]]
  BY <1>2, <1>3, <1>12, FirstOfEach
<1>14. PICK g \in File : w[k] \in ToSet(text[g])
  BY <1>2
<1>15. w[k] \in Node /\ Nodes[w[k]] \subseteq Written(g) /\ Placed(g, Written(g))
  BY <1>14, FileLaidOut
<1>16. PICK m \in Nodes[w[k]] : CallAt(m, file, pos) = call0
  BY <1>4, <1>12, <1>13, <1>15
<1>17. IsSubdir(m) /\ RefContains(m.ref, file, pos) /\ call0 = <<m.ref.file, m.parts[1].name>>
  BY <1>12, <1>16 DEF CallAt
<1>18. m \in Written(g) /\ m.ref \in Refs({g})
  BY <1>15, <1>17 DEF Placed, IsSubdir, InSelection
<1>19. file = g /\ Covers(m.ref, pos)
  BY <1>17, <1>18, PlaceFound
<1>20. m = n
  <2> DEFINE here == {i \in AllOf(text[file]) : IsSubdir(i) /\ Covers(i.ref, pos)}
  <2>1. m \in here /\ n \in here
    BY <1>17, <1>18, <1>19 DEF Written
  <2>2. \A a, b \in here : a = b
    BY <1>5 DEF Apart
  <2> HIDE DEF here
  <2>3. QED
    BY <2>1, <2>2
<1>21. QED
  BY <1>8, <1>12, <1>17, <1>20 DEF call0
-----------------------------------------------------------------------------
(* The searches for all that the nodes have. *)

Collects(own, parts, depth, V) ==
    /\ depth \in [Node -> Nat] /\ own \in [Node -> Seq(V)] /\ parts \in [Node -> Seq(Node)]
    /\ \A n \in Node : \A k \in DOMAIN parts[n] : depth[parts[n][k]] < depth[n]

(* all is what such a search has from each node. *)
Gathers(all, own, parts, V) ==
    /\ all \in [Node -> Seq(V)]
    /\ \A n \in Node : all[n] = FlattenSeq(Each(all, parts[n])) \o own[n]

LEMMA EachType ==
    ASSUME NEW V, NEW all \in [Node -> Seq(V)], NEW w \in Seq(Node)
    PROVE  /\ Each(all, w) \in Seq(Seq(V)) /\ Len(Each(all, w)) = Len(w)
           /\ \A k \in 1 .. Len(w) : Each(all, w)[k] = all[w[k]]
<1> DEFINE l == Len(w)
           e == Each(all, w)
<1>1. l \in Nat /\ DOMAIN w = 1 .. l /\ \A k \in 1 .. l : w[k] \in Node
  OBVIOUS
<1>2. e = [k \in 1 .. l |-> all[w[k]]]
  BY <1>1 DEF Each
<1> HIDE DEF l, e
<1>3. \A k \in 1 .. l : all[w[k]] \in Seq(V)
  BY <1>1
<1>4. e \in Seq(Seq(V))
  BY <1>1, <1>2, <1>3
<1>5. DOMAIN e = 1 .. l /\ \A k \in 1 .. l : e[k] = all[w[k]]
  BY <1>2
<1>6. Len(e) = l
  BY <1>1, <1>4, <1>5
<1>7. QED
  BY <1>4, <1>5, <1>6 DEF l, e

LEMMA CollectGathers ==
    ASSUME NEW V, NEW own, NEW parts, NEW depth, Collects(own, parts, depth, V)
    PROVE  Gathers(Collect(own, parts), own, parts, V)
<1> DEFINE W == Seq(V)
           value(n, f) == FlattenSeq(Each(f, parts[n])) \o own[n]
           g == [n \in Node |-> [f \in [Node -> W] |-> value(n, f)]]
<1>1. /\ depth \in [Node -> Nat] /\ own \in [Node -> Seq(V)] /\ parts \in [Node -> Seq(Node)]
      /\ \A n \in Node : \A k \in DOMAIN parts[n] : depth[parts[n][k]] < depth[n]
  BY DEF Collects
<1>2. ASSUME NEW n \in Node
      PROVE  own[n] \in Seq(V) /\ parts[n] \in Seq(Node) /\ \A k \in DOMAIN parts[n] : parts[n][k] \in Node
  BY <1>1
<1>3. ASSUME NEW n \in Node, NEW f \in [Node -> W] PROVE value(n, f) \in W
  <2>1. Each(f, parts[n]) \in Seq(Seq(V))
    BY <1>2, EachType
  <2>2. FlattenSeq(Each(f, parts[n])) \in Seq(V)
    BY <2>1, FlattenType
  <2>3. QED
    BY <1>2, <2>2, ConcatProperties
<1>4. W # {}
  <2>1. <<>> \in W
    OBVIOUS
  <2>2. QED
    BY <2>1
<1>5. g \in [Node -> [[Node -> W] -> W]]
  <2> HIDE DEF W, value
  <2>1. \A n \in Node : [f \in [Node -> W] |-> value(n, f)] \in [[Node -> W] -> W]
    BY <1>3
  <2>2. QED
    BY <2>1
<1>6. \A n \in Node : \A f \in [Node -> W] : g[n][f] = value(n, f)
  <2> HIDE DEF W, value
  <2>1. QED
    OBVIOUS
<1>7. ASSUME NEW n \in Node, NEW f, NEW h, \A u \in Node : depth[u] < depth[n] => f[u] = h[u]
      PROVE  value(n, f) = value(n, h)
  <2>1. \A k \in DOMAIN parts[n] : f[parts[n][k]] = h[parts[n][k]]
    BY <1>1, <1>2, <1>7
  <2>2. Each(f, parts[n]) = Each(h, parts[n])
    BY <2>1, EachLocal
  <2>3. QED
    BY <2>2, Zenon
<1> HIDE DEF W, g, value
<1>8. Local(Node, W, depth, g)
  <2>1. \A n \in Node : \A f, h \in [Node -> W] :
            (\A u \in Node : depth[u] < depth[n] => f[u] = h[u]) => g[n][f] = g[n][h]
    BY <1>6, <1>7
  <2>2. QED
    BY <1>1, <1>5, <2>1 DEF Local
<1>9. PICK f0 \in [Node -> W] : \A n \in Node : f0[n] = g[n][f0]
  BY <1>4, <1>8, RecursionByDepth
<1> DEFINE Is(f) == f = [n \in Node |-> FlattenSeq(Each(f, parts[n])) \o own[n]]
           all == CHOOSE f : Is(f)
<1>10. ASSUME NEW f PROVE Is(f) <=> f = [n \in Node |-> value(n, f)]
  BY DEF value
<1>11. Collect(own, parts) = all
  BY DEF Collect
<1> HIDE DEF Is
<1>12. f0 = [n \in Node |-> value(n, f0)]
  <2>1. \A n \in Node : f0[n] = value(n, f0)
    BY <1>6, <1>9
  <2>2. QED
    BY <2>1
<1>13. Is(all)
  BY <1>10, <1>12
<1> HIDE DEF all
<1>14. all = [n \in Node |-> value(n, all)]
  BY <1>10, <1>13
<1>15. \A n \in Node : all[n] = value(n, all)
  BY <1>14, Zenon
<1> DEFINE S == {n \in Node : all[n] = f0[n]}
<1>16. ASSUME NEW n \in Node, \A u \in Node : depth[u] < depth[n] => u \in S PROVE n \in S
  <2>1. \A u \in Node : depth[u] < depth[n] => all[u] = f0[u]
    BY <1>16
  <2> HIDE DEF S
  <2>2. value(n, all) = value(n, f0)
    BY <1>7, <2>1
  <2>3. all[n] = f0[n]
    BY <1>6, <1>9, <1>15, <2>2
  <2>4. QED
    BY <2>3 DEF S
<1>17. Node \subseteq S
  <2> HIDE DEF S
  <2>1. QED
    BY <1>1, <1>16, InductionByDepth
<1>18. all \in [Node -> W]
  <2>1. \A n \in Node : all[n] \in W
    BY <1>9, <1>17
  <2>2. all = [n \in Node |-> all[n]]
    BY <1>14
  <2>3. QED
    BY <2>1, <2>2
<1>19. QED
  BY <1>11, <1>15, <1>18 DEF Gathers, W, value

(* The elements of what is had along a sequence of nodes, and from a node.    *)
LEMMA EachElements ==
    ASSUME NEW V, NEW all \in [Node -> Seq(V)], NEW w \in Seq(Node)
    PROVE  /\ FlattenSeq(Each(all, w)) \in Seq(V)
           /\ \A x : x \in ToSet(FlattenSeq(Each(all, w))) <=> \E y \in ToSet(w) : x \in ToSet(all[y])
<1> DEFINE e == Each(all, w)
           l == Len(w)
<1>1. e \in Seq(Seq(V)) /\ Len(e) = l /\ \A k \in 1 .. l : e[k] = all[w[k]]
  BY EachType
<1>2. DOMAIN w = 1 .. l
  OBVIOUS
<1> HIDE DEF e, l
<1>3. \A x : x \in ToSet(FlattenSeq(e)) <=> \E k \in 1 .. l : x \in ToSet(e[k])
  BY <1>1, ElementsFlatten
<1>4. FlattenSeq(e) \in Seq(V)
  BY <1>1, FlattenType
<1>5. ASSUME NEW x PROVE (\E k \in 1 .. l : x \in ToSet(e[k])) <=> \E y \in ToSet(w) : x \in ToSet(all[y])
  <2>1. \A k \in 1 .. l : w[k] \in ToSet(w)
    BY <1>2 DEF ToSet
  <2>2. \A y \in ToSet(w) : \E k \in 1 .. l : y = w[k]
    BY <1>2 DEF ToSet
  <2>3. \A k \in 1 .. l : e[k] = all[w[k]]
    BY <1>1
  <2>4. ASSUME NEW k \in 1 .. l, x \in ToSet(e[k]) PROVE \E y \in ToSet(w) : x \in ToSet(all[y])
    BY <2>1, <2>3, <2>4, Zenon
  <2>5. ASSUME NEW y \in ToSet(w), x \in ToSet(all[y]) PROVE \E k \in 1 .. l : x \in ToSet(e[k])
    <3>1. PICK k \in 1 .. l : y = w[k]
      BY <2>2, <2>5
    <3>2. e[k] = all[y]
      BY <2>3, <3>1
    <3>3. QED
      BY <2>5, <3>1, <3>2
  <2>6. QED
    BY <2>4, <2>5
<1>6. QED
  BY <1>3, <1>4, <1>5, Zenon DEF e

LEMMA GatheredElements ==
    ASSUME NEW V, NEW own, NEW parts, NEW depth, Collects(own, parts, depth, V),
           NEW all, Gathers(all, own, parts, V)
    PROVE  \A n \in Node : \A x : x \in ToSet(all[n]) <=>
              x \in ToSet(own[n]) \/ \E y \in ToSet(parts[n]) : x \in ToSet(all[y])
<1>1. ASSUME NEW n \in Node, NEW x
      PROVE  x \in ToSet(all[n]) <=> x \in ToSet(own[n]) \/ \E y \in ToSet(parts[n]) : x \in ToSet(all[y])
  <2> DEFINE below == FlattenSeq(Each(all, parts[n]))
  <2>1. parts[n] \in Seq(Node) /\ own[n] \in Seq(V) /\ all \in [Node -> Seq(V)]
    BY DEF Collects, Gathers
  <2>2. below \in Seq(V) /\ (x \in ToSet(below) <=> \E y \in ToSet(parts[n]) : x \in ToSet(all[y]))
    BY <2>1, EachElements
  <2>3. all[n] = below \o own[n]
    BY DEF Gathers
  <2> HIDE DEF below
  <2>4. ToSet(below \o own[n]) = ToSet(below) \union ToSet(own[n])
    BY <2>1, <2>2, ElementsConcat
  <2>5. QED
    BY <2>2, <2>3, <2>4
<1>2. QED
  BY <1>1

(* What is had from a node, a node of it has.                                 *)
LEMMA GatheredBelow ==
    ASSUME NEW V, NEW own, NEW parts, NEW depth, Collects(own, parts, depth, V),
           NEW all, Gathers(all, own, parts, V),
           \A n \in Node : n \in Nodes[n],
           \A n \in Node : \A y \in ToSet(parts[n]) : Nodes[y] \subseteq Nodes[n]
    PROVE  \A n \in Node : \A x \in ToSet(all[n]) : \E m \in Nodes[n] : x \in ToSet(own[m])
<1> DEFINE S == {n \in Node : \A x \in ToSet(all[n]) : \E m \in Nodes[n] : x \in ToSet(own[m])}
<1>1. depth \in [Node -> Nat]
  BY DEF Collects
<1>2. ASSUME NEW n \in Node, \A u \in Node : depth[u] < depth[n] => u \in S PROVE n \in S
  <2>1. SUFFICES ASSUME NEW x \in ToSet(all[n]) PROVE \E m \in Nodes[n] : x \in ToSet(own[m])
    OBVIOUS
  <2>2. CASE x \in ToSet(own[n])
    BY <2>2
  <2>3. ASSUME NEW y \in ToSet(parts[n]), x \in ToSet(all[y]) PROVE \E m \in Nodes[n] : x \in ToSet(own[m])
    <3>1. y \in Node /\ depth[y] < depth[n]
      BY DEF Collects, ToSet
    <3>2. y \in S
      BY <1>2, <3>1
    <3>3. QED
      BY <2>3, <3>2
  <2>4. QED
    BY <2>2, <2>3, GatheredElements
<1>3. Node \subseteq S
  <2> HIDE DEF S
  <2>1. QED
    BY <1>1, <1>2, InductionByDepth
<1>4. QED
  BY <1>3
-----------------------------------------------------------------------------
(* The symbols of a file. *)

(* What comes of a part that is no token: of a condition, its expression.     *)
Origin(n, k) ==
    IF n.parts[k].type = "condition" THEN n.parts[k].parts[1] ELSE n.parts[k]

LEMMA OriginBelow ==
    ASSUME NEW depth, Deepens(depth), \A m \in Node : Shaped(m),
           NEW n \in Node, NEW k \in DOMAIN n.parts, n.parts[k].type # "token"
    PROVE  /\ Origin(n, k) \in Node /\ ~InSelection(Origin(n, k))
           /\ depth[Origin(n, k)] < depth[n]
           /\ Nodes[Origin(n, k)] \subseteq Nodes[n.parts[k]]
           /\ Nodes[n.parts[k]] \subseteq Nodes[n]
<1> DEFINE c == n.parts[k]
<1>1. c \in Node /\ depth[c] < depth[n] /\ Nodes[c] \subseteq Nodes[n] /\ depth[n] \in Nat /\ depth[c] \in Nat
  BY PartsType, NodesDown DEF Deepens
<1>2. c = n.parts[k] /\ c.type # "token"
  OBVIOUS
<1> HIDE DEF c
<1>3. CASE c.type = "condition"
  <2>1. 1 \in DOMAIN c.parts /\ c.parts[1] \in Node
    BY <1>1, <1>3, PartsType DEF Shaped
  <2>2. depth[c.parts[1]] < depth[c] /\ Nodes[c.parts[1]] \subseteq Nodes[c] /\ depth[c.parts[1]] \in Nat
    BY <1>1, <2>1, NodesDown DEF Deepens
  <2>3. ~InSelection(c.parts[1])
    BY <1>1, <1>3, <2>1 DEF Shaped
  <2>4. Origin(n, k) = c.parts[1]
    BY <1>2, <1>3 DEF Origin
  <2>5. QED
    BY <1>1, <1>2, <2>1, <2>2, <2>3, <2>4
<1>4. CASE c.type # "condition"
  BY <1>1, <1>2, <1>4 DEF Origin, InSelection
<1>5. QED
  BY <1>3, <1>4

(* Nodes below different parts are different, and have different places.      *)
LEMMA ScatteredNodes ==
    ASSUME NEW w, Scattered(w), NEW i \in DOMAIN w, NEW j \in DOMAIN w, i # j,
           NEW m \in Nodes[w[i]], NEW n \in Nodes[w[j]], ~InSelection(m), ~InSelection(n)
    PROVE  m # n /\ Place(m) # Place(n)
  BY DEF Scattered

LEMMA OriginsDiffer ==
    ASSUME NEW depth, Deepens(depth), \A m \in Node : Shaped(m), NEW n \in Node, Scattered(n.parts)
    PROVE  \A i, j \in DOMAIN n.parts :
              i # j /\ n.parts[i].type # "token" /\ n.parts[j].type # "token" => Origin(n, i) # Origin(n, j)
<1>1. ASSUME NEW i \in DOMAIN n.parts, NEW j \in DOMAIN n.parts, i # j,
             n.parts[i].type # "token", n.parts[j].type # "token"
      PROVE  Origin(n, i) # Origin(n, j)
  <2>1. /\ Origin(n, i) \in Nodes[n.parts[i]] /\ Origin(n, j) \in Nodes[n.parts[j]]
        /\ ~InSelection(Origin(n, i)) /\ ~InSelection(Origin(n, j))
    BY <1>1, OriginBelow, NodesDown
  <2>2. QED
    BY <1>1, <2>1, ScatteredNodes
<1>2. QED
  BY <1>1

LEMMA ListedParts ==
    ASSUME NEW depth, Deepens(depth), \A m \in Node : Shaped(m), NEW n \in Node, Scattered(n.parts)
    PROVE  /\ Listed(n) \in Seq(Node) /\ IsInjective(Listed(n))
           /\ \A y \in ToSet(Listed(n)) :
                 \E k \in DOMAIN n.parts : n.parts[k].type # "token" /\ y = Origin(n, k)
<1> DEFINE Comes(y) == \E k \in DOMAIN n.parts : n.parts[k].type # "token" /\ y = Origin(n, k)
           w == n.parts
<1>1. w \in Seq(Node) /\ DOMAIN w = 1 .. Len(w) /\ Len(w) \in Nat /\ \A k \in DOMAIN w : w[k] \in Node
  BY PartsType
<1>2. ASSUME n.type # "if" PROVE \A k \in DOMAIN w : w[k].type \notin {"token", "condition"} /\ w[k] = Origin(n, k)
  BY <1>2 DEF Shaped, InSelection, Origin
<1>3. \A i, j \in DOMAIN w : i # j /\ w[i].type # "token" /\ w[j].type # "token" => Origin(n, i) # Origin(n, j)
  BY OriginsDiffer
<1>4. ASSUME n.type # "if" PROVE (\A i, j \in DOMAIN w : i # j => w[i] # w[j]) /\ \A k \in DOMAIN w : Comes(w[k])
  BY <1>2, <1>3, <1>4
<1>5. CASE n.type = "if"
  <2> DEFINE b == Blocks(n)
             c == Conditions(n)
  <2>1. b \in Seq(Node) /\ c \in Seq(Node)
    BY BlocksKept, ConditionsKept
  <2>2. ASSUME NEW y \in ToSet(b)
        PROVE  \E k \in DOMAIN w : w[k].type \notin {"token", "condition"} /\ y = Origin(n, k)
    BY <2>2, BlocksKept DEF InSelection, Origin
  <2>3. ASSUME NEW y \in ToSet(c)
        PROVE  \E k \in DOMAIN w : w[k].type = "condition" /\ y = Origin(n, k)
    BY <2>3, ConditionsKept DEF IsKept, Origin
  <2>4. IsInjective(b)
    <3>1. \A i, j \in DOMAIN w : i # j /\ ~InSelection(w[i]) /\ ~InSelection(w[j]) => w[i] # w[j]
      BY <1>3 DEF Origin, InSelection
    <3>2. QED
      BY <3>1, BlocksKept
  <2>5. IsInjective(c)
    <3>1. \A i, j \in DOMAIN w : i # j /\ IsKept(n, i) /\ IsKept(n, j) => w[i].parts[1] # w[j].parts[1]
      BY <1>3 DEF Origin, IsKept
    <3>2. QED
      BY <3>1, ConditionsKept
  <2>6. Listed(n) = b \o c
    BY <1>5 DEF Listed
  <2> HIDE DEF b, c
  <2>7. \A x \in ToSet(b) : x \notin ToSet(c)
    <3>1. SUFFICES ASSUME NEW x \in ToSet(b), x \in ToSet(c) PROVE FALSE
      OBVIOUS
    <3>2. PICK i \in DOMAIN w : w[i].type \notin {"token", "condition"} /\ x = Origin(n, i)
      BY <2>2
    <3>3. PICK j \in DOMAIN w : w[j].type = "condition" /\ x = Origin(n, j)
      BY <2>3, <3>1
    <3>4. i # j /\ w[i].type # "token" /\ w[j].type # "token"
      BY <3>2, <3>3
    <3>5. QED
      BY <1>3, <3>2, <3>3, <3>4
  <2>8. b \o c \in Seq(Node) /\ IsInjective(b \o c) /\ ToSet(b \o c) = ToSet(b) \union ToSet(c)
    BY <2>1, <2>4, <2>5, <2>7, InjectiveConcat, ElementsConcat, ConcatProperties
  <2>9. \A y \in ToSet(b) \union ToSet(c) : Comes(y)
    BY <2>2, <2>3
  <2>10. QED
    BY <2>6, <2>8, <2>9
<1>6. CASE n.type = "method"
  <2>1. Listed(n) = <<w[1]>>
    BY <1>6 DEF Listed
  <2>2. 1 \in DOMAIN w
    BY <1>1, <1>6 DEF Shaped
  <2>3. w[1] \in Node /\ Comes(w[1])
    BY <1>1, <1>4, <1>6, <2>2
  <2> HIDE DEF w, Comes
  <2>4. <<w[1]>> \in Seq(Node) /\ IsInjective(<<w[1]>>) /\ ToSet(<<w[1]>>) = {w[1]}
    BY <2>3 DEF IsInjective, ToSet
  <2>5. QED
    BY <2>1, <2>3, <2>4 DEF w, Comes
<1>7. ASSUME n.type # "if"
      PROVE  w \in Seq(Node) /\ IsInjective(w) /\ \A y \in ToSet(w) : Comes(y)
  BY <1>1, <1>4, <1>7 DEF IsInjective, ToSet
<1>8. CASE n.type = "assign" /\ n.name # "="
  <2>1. Listed(n) = Tail(w)
    BY <1>8 DEF Listed
  <2>2. w # <<>>
    BY <1>8 DEF Shaped
  <2>3. /\ Tail(w) \in Seq(Node) /\ Len(Tail(w)) = Len(w) - 1
        /\ \A i \in 1 .. Len(w) - 1 : Tail(w)[i] = w[i + 1]
    BY <1>1, <2>2
  <2> DEFINE t == Tail(w)
  <2>4. DOMAIN t = 1 .. Len(w) - 1
    BY <1>1, <2>3
  <2>5. n.type # "if"
    BY <1>8
  <2>6. (\A i, j \in DOMAIN w : i # j => w[i] # w[j]) /\ \A k \in DOMAIN w : Comes(w[k])
    BY <1>4, <2>5
  <2> HIDE DEF w, Comes, t
  <2>7. \A i \in DOMAIN t : i + 1 \in DOMAIN w /\ t[i] = w[i + 1] /\ i \in Nat
    BY <1>1, <2>3, <2>4 DEF t
  <2>8. IsInjective(t)
    <3>1. ASSUME NEW i \in DOMAIN t, NEW j \in DOMAIN t, t[i] = t[j] PROVE i = j
      <4>1. i + 1 = j + 1
        BY <2>6, <2>7, <3>1
      <4>2. QED
        BY <2>7, <4>1
    <3>2. QED
      BY <3>1 DEF IsInjective
  <2>9. \A y \in ToSet(t) : Comes(y)
    BY <2>6, <2>7 DEF ToSet
  <2>10. QED
    BY <2>1, <2>3, <2>8, <2>9 DEF t, w, Comes
<1>9. CASE n.type \in {"foreach", "binary"} \/ (n.type = "assign" /\ n.name = "=")
  <2>1. Listed(n) = w
    BY <1>9 DEF Listed
  <2>2. n.type # "if"
    BY <1>9
  <2>3. QED
    BY <1>7, <2>1, <2>2
<1>10. CASE n.type \notin {"if", "method", "assign", "foreach", "binary"}
  <2>1. Listed(n) = <<>>
    BY <1>10 DEF Listed
  <2>2. <<>> \in Seq(Node) /\ IsInjective(<<>>) /\ ToSet(<<>>) = {}
    BY DEF IsInjective, ToSet
  <2>3. QED
    BY <2>1, <2>2
<1>11. QED
  BY <1>5, <1>6, <1>8, <1>9, <1>10

SymbolsOwn(file) == [n \in Node |-> SymbolOf(n, file)]
Lists == [n \in Node |-> Listed(n)]
SymbolsIn(file) == UNION {ToSet(SymbolOf(n, file)) : n \in Node}

LEMMA SymbolOfNode ==
    ASSUME NEW n, NEW file
    PROVE  /\ SymbolOf(n, file) = <<>> \/ \E x : SymbolOf(n, file) = <<x>>
           /\ IsInjective(SymbolOf(n, file))
           /\ \A x \in ToSet(SymbolOf(n, file)) :
                 /\ n.ref.file = file /\ ~InSelection(n) /\ n.type \in {"id", "string", "call", "method"}
                 /\ x.ref = Place(n) /\ x.name = IF n.type = "id" THEN n.name ELSE Nothing
<1> DEFINE x1 == [name |-> n.name, ref |-> n.ref]
           x2 == [name |-> Nothing, ref |-> n.nameRef]
           x3 == [name |-> Nothing, ref |-> n.ref]
<1>1. CASE SymbolOf(n, file) = <<>>
  <2>1. ToSet(<<>>) = {} /\ IsInjective(<<>>)
    BY DEF ToSet, IsInjective
  <2>2. QED
    BY <1>1, <2>1, Zenon
<1>2. CASE SymbolOf(n, file) = <<x1>> /\ n.type = "id" /\ n.ref.file = file
  <2>1. ToSet(<<x1>>) = {x1} /\ IsInjective(<<x1>>)
    BY DEF ToSet, IsInjective
  <2>2. x1.ref = Place(n) /\ x1.name = n.name /\ ~InSelection(n)
    BY <1>2 DEF Place, InSelection
  <2> HIDE DEF x1
  <2>3. QED
    BY <1>2, <2>1, <2>2
<1>3. CASE SymbolOf(n, file) = <<x2>> /\ n.type \in {"call", "method"} /\ n.ref.file = file
  <2>1. ToSet(<<x2>>) = {x2} /\ IsInjective(<<x2>>)
    BY DEF ToSet, IsInjective
  <2>2. x2.ref = Place(n) /\ x2.name = Nothing /\ ~InSelection(n) /\ n.type # "id"
    BY <1>3 DEF Place, InSelection
  <2> HIDE DEF x2
  <2>3. QED
    BY <1>3, <2>1, <2>2
<1>4. CASE SymbolOf(n, file) = <<x3>> /\ n.type = "string" /\ n.ref.file = file
  <2>1. ToSet(<<x3>>) = {x3} /\ IsInjective(<<x3>>)
    BY DEF ToSet, IsInjective
  <2>2. x3.ref = Place(n) /\ x3.name = Nothing /\ ~InSelection(n) /\ n.type # "id"
    BY <1>4 DEF Place, InSelection
  <2> HIDE DEF x3
  <2>3. QED
    BY <1>4, <2>1, <2>2
<1>5. \/ SymbolOf(n, file) = <<>>
      \/ SymbolOf(n, file) = <<x1>> /\ n.type = "id" /\ n.ref.file = file
      \/ SymbolOf(n, file) = <<x2>> /\ n.type \in {"call", "method"} /\ n.ref.file = file
      \/ SymbolOf(n, file) = <<x3>> /\ n.type = "string" /\ n.ref.file = file
  BY DEF SymbolOf, Symbol
<1>6. QED
  BY <1>1, <1>2, <1>3, <1>4, <1>5

LEMMA SymbolsGather ==
    ASSUME NEW depth, Deepens(depth), \A m \in Node : Shaped(m), NEW file
    PROVE  /\ Collects(SymbolsOwn(file), Lists, depth, SymbolsIn(file))
           /\ Gathers(DocumentSymbols(file), SymbolsOwn(file), Lists, SymbolsIn(file))
           /\ \A n \in Node : \A x \in ToSet(DocumentSymbols(file)[n]) :
                 \E m \in Nodes[n] : x \in ToSet(SymbolOf(m, file))
           /\ \A n \in Node : \A x : x \in ToSet(DocumentSymbols(file)[n]) <=>
                 x \in ToSet(SymbolOf(n, file)) \/ \E y \in ToSet(Listed(n)) : x \in ToSet(DocumentSymbols(file)[y])
<1> DEFINE own == SymbolsOwn(file)
           parts == Lists
           V == SymbolsIn(file)
           all == DocumentSymbols(file)
<1>1. all = Collect(own, parts)
  BY DEF DocumentSymbols, SymbolsOwn, Lists
<1>2. /\ own = [n \in Node |-> own[n]] /\ parts = [n \in Node |-> parts[n]]
      /\ \A n \in Node : own[n] = SymbolOf(n, file) /\ parts[n] = Listed(n)
  BY DEF SymbolsOwn, Lists
<1>3. ASSUME NEW n \in Node PROVE SymbolOf(n, file) \in Seq(V)
  <2>1. CASE SymbolOf(n, file) = <<>>
    <3>1. <<>> \in Seq(V)
      OBVIOUS
    <3>2. QED
      BY <2>1, <3>1, Zenon
  <2>2. ASSUME NEW x, SymbolOf(n, file) = <<x>> PROVE SymbolOf(n, file) \in Seq(V)
    <3>1. x \in ToSet(SymbolOf(n, file))
      <4>1. ToSet(<<x>>) = {x}
        BY DEF ToSet
      <4>2. QED
        BY <2>2, <4>1
    <3>2. x \in V
      BY <3>1 DEF SymbolsIn
    <3> HIDE DEF V
    <3>3. <<x>> \in Seq(V)
      BY <3>2
    <3>4. QED
      BY <2>2, <3>3, Zenon
  <2>3. QED
    BY <2>1, <2>2, SymbolOfNode
<1>4. ASSUME NEW n \in Node
      PROVE  /\ Listed(n) \in Seq(Node)
             /\ \A y \in ToSet(Listed(n)) : depth[y] < depth[n] /\ Nodes[y] \subseteq Nodes[n]
  <2>1. Scattered(n.parts)
    BY DEF Shaped
  <2>2. /\ Listed(n) \in Seq(Node)
        /\ \A y \in ToSet(Listed(n)) : \E k \in DOMAIN n.parts : n.parts[k].type # "token" /\ y = Origin(n, k)
    BY <2>1, ListedParts
  <2>3. QED
    BY <2>2, OriginBelow
<1> HIDE DEF own, parts, V, all
<1>5. Collects(own, parts, depth, V)
  <2>1. [n \in Node |-> own[n]] \in [Node -> Seq(V)]
    BY <1>2, <1>3
  <2>2. [n \in Node |-> parts[n]] \in [Node -> Seq(Node)]
    BY <1>2, <1>4
  <2>3. own \in [Node -> Seq(V)] /\ parts \in [Node -> Seq(Node)]
    BY <1>2, <2>1, <2>2, Zenon
  <2>4. \A n \in Node : \A k \in DOMAIN parts[n] : parts[n][k] \in ToSet(Listed(n))
    BY <1>2 DEF ToSet
  <2>5. \A n \in Node : \A k \in DOMAIN parts[n] : depth[parts[n][k]] < depth[n]
    BY <1>4, <2>4
  <2>6. QED
    BY <2>3, <2>5 DEF Collects, Deepens
<1>6. Gathers(all, own, parts, V)
  BY <1>1, <1>5, CollectGathers
<1>7. \A n \in Node : n \in Nodes[n] /\ Nodes[n] \subseteq Node
  BY NodesDown
<1>8. \A n \in Node : \A y \in ToSet(parts[n]) : Nodes[y] \subseteq Nodes[n]
  BY <1>2, <1>4
<1>9. \A n \in Node : \A x \in ToSet(all[n]) : \E m \in Nodes[n] : x \in ToSet(own[m])
  BY <1>5, <1>6, <1>7, <1>8, GatheredBelow
<1>10. \A n \in Node : \A x \in ToSet(all[n]) : \E m \in Nodes[n] : x \in ToSet(SymbolOf(m, file))
  BY <1>2, <1>7, <1>9
<1>11. \A n \in Node : \A x : x \in ToSet(all[n]) <=>
              x \in ToSet(own[n]) \/ \E y \in ToSet(parts[n]) : x \in ToSet(all[y])
  BY <1>5, <1>6, GatheredElements
<1>12. \A n \in Node : \A x : x \in ToSet(all[n]) <=>
              x \in ToSet(SymbolOf(n, file)) \/ \E y \in ToSet(Listed(n)) : x \in ToSet(all[y])
  BY <1>2, <1>11
<1>13. QED
  BY <1>5, <1>6, <1>10, <1>12 DEF own, parts, V, all

(* Nodes of different parts, or of different elements of a sequence of nodes, *)
(* have no symbol in common.                                                  *)
LEMMA SymbolsApart ==
    ASSUME NEW depth, Deepens(depth), \A m \in Node : Shaped(m), NEW file,
           NEW w, Scattered(w), NEW i \in DOMAIN w, NEW j \in DOMAIN w, i # j,
           NEW y \in Node, NEW z \in Node,
           Nodes[y] \subseteq Nodes[w[i]], Nodes[z] \subseteq Nodes[w[j]],
           NEW x \in ToSet(DocumentSymbols(file)[y])
    PROVE  x \notin ToSet(DocumentSymbols(file)[z])
<1> SUFFICES ASSUME x \in ToSet(DocumentSymbols(file)[z]) PROVE FALSE
  OBVIOUS
<1>1. PICK m \in Nodes[y] : x \in ToSet(SymbolOf(m, file))
  BY SymbolsGather
<1>2. PICK n \in Nodes[z] : x \in ToSet(SymbolOf(n, file))
  BY SymbolsGather
<1>3. x.ref = Place(m) /\ x.ref = Place(n) /\ ~InSelection(m) /\ ~InSelection(n)
  BY <1>1, <1>2, SymbolOfNode
<1>4. m \in Nodes[w[i]] /\ n \in Nodes[w[j]]
  OBVIOUS
<1>5. Place(m) # Place(n)
  BY <1>3, <1>4, ScatteredNodes
<1>6. QED
  BY <1>3, <1>5

(* No node has a symbol twice. *)
LEMMA SymbolsInjective ==
    ASSUME NEW depth, Deepens(depth), \A m \in Node : Shaped(m), NEW file
    PROVE  \A n \in Node : IsInjective(DocumentSymbols(file)[n])
<1> DEFINE all == DocumentSymbols(file)
           V == SymbolsIn(file)
           S == {n \in Node : IsInjective(all[n])}
<1>1. depth \in [Node -> Nat]
  BY DEF Deepens
<1>2. /\ Gathers(all, SymbolsOwn(file), Lists, V)
      /\ Collects(SymbolsOwn(file), Lists, depth, V)
  BY SymbolsGather
<1>3. /\ all \in [Node -> Seq(V)]
      /\ \A n \in Node : SymbolOf(n, file) \in Seq(V) /\ all[n] = FlattenSeq(Each(all, Listed(n))) \o SymbolOf(n, file)
  BY <1>2 DEF Gathers, Collects, SymbolsOwn, Lists
<1> HIDE DEF all, V
<1>4. ASSUME NEW n \in Node, \A u \in Node : depth[u] < depth[n] => u \in S PROVE n \in S
  <2> DEFINE w == Listed(n)
             e == Each(all, w)
             own == SymbolOf(n, file)
  <2>1. Scattered(n.parts)
    BY DEF Shaped
  <2>2. /\ w \in Seq(Node) /\ IsInjective(w)
        /\ \A y \in ToSet(w) : \E k \in DOMAIN n.parts : n.parts[k].type # "token" /\ y = Origin(n, k)
    BY <2>1, ListedParts
  <2>3. e \in Seq(Seq(V)) /\ Len(e) = Len(w) /\ \A k \in 1 .. Len(w) : e[k] = all[w[k]]
    BY <1>3, <2>2, EachType, ZenonT(30)
  <2>4. DOMAIN w = 1 .. Len(w) /\ \A k \in 1 .. Len(w) : w[k] \in Node /\ w[k] \in ToSet(w)
    BY <2>2 DEF ToSet
  <2>5. all[n] = FlattenSeq(e) \o own
    BY <1>3
  <2>6. own \in Seq(V) /\ IsInjective(own)
    BY <1>3, SymbolOfNode
  <2>7. /\ FlattenSeq(e) \in Seq(V)
        /\ \A x : x \in ToSet(FlattenSeq(e)) <=> \E y \in ToSet(w) : x \in ToSet(all[y])
    BY <1>3, <2>2, EachElements
  <2> HIDE DEF w, e, own
  <2>8. ASSUME NEW k \in 1 .. Len(w) PROVE IsInjective(e[k])
    <3>1. depth[w[k]] < depth[n]
      BY <2>2, <2>4, OriginBelow
    <3>2. w[k] \in S
      BY <1>4, <2>4, <3>1
    <3>3. QED
      BY <2>3, <3>2
  <2>9. ASSUME NEW i \in 1 .. Len(w), NEW j \in 1 .. Len(w), i # j, NEW x \in ToSet(e[i])
        PROVE  x \notin ToSet(e[j])
    <3>1. w[i] # w[j]
      BY <2>2, <2>4, <2>9 DEF IsInjective
    <3>2. PICK k \in DOMAIN n.parts : n.parts[k].type # "token" /\ w[i] = Origin(n, k)
      BY <2>2, <2>4
    <3>3. PICK l \in DOMAIN n.parts : n.parts[l].type # "token" /\ w[j] = Origin(n, l)
      BY <2>2, <2>4
    <3>4. k # l
      BY <3>1, <3>2, <3>3
    <3>5. Nodes[w[i]] \subseteq Nodes[n.parts[k]] /\ Nodes[w[j]] \subseteq Nodes[n.parts[l]]
      BY <3>2, <3>3, OriginBelow
    <3>6. x \in ToSet(all[w[i]]) /\ e[j] = all[w[j]]
      BY <2>3, <2>9
    <3>7. x \notin ToSet(all[w[j]])
      BY <2>1, <2>4, <3>4, <3>5, <3>6, SymbolsApart DEF all
    <3>8. QED
      BY <3>6, <3>7
  <2>10. IsInjective(FlattenSeq(e))
    <3>1. Dissimilar(e, Len(e))
      BY <2>3, <2>8, <2>9 DEF Dissimilar
    <3>2. QED
      BY <2>3, <3>1, InjectiveFlatten
  <2>11. ASSUME NEW x \in ToSet(FlattenSeq(e)), x \in ToSet(own) PROVE FALSE
    <3>1. PICK y \in ToSet(w) : x \in ToSet(all[y])
      BY <2>7
    <3>2. n.type \in {"id", "string", "call", "method"} /\ x.ref = Place(n)
      BY <2>11, SymbolOfNode DEF own
    <3>3. n.type = "method"
      <4>1. n.type \in {"id", "string", "call"} => w = <<>>
        BY DEF w, Listed
      <4>2. ToSet(<<>>) = {}
        BY DEF ToSet
      <4>3. QED
        BY <3>1, <3>2, <4>1, <4>2
    <3>4. PICK k \in DOMAIN n.parts : n.parts[k].type # "token" /\ y = Origin(n, k)
      BY <2>2, <3>1
    <3>5. y \in Node /\ Nodes[y] \subseteq Nodes[n.parts[k]]
      BY <3>4, OriginBelow
    <3>6. PICK m \in Nodes[y] : x \in ToSet(SymbolOf(m, file))
      BY <3>1, <3>5, SymbolsGather DEF all
    <3>7. x.ref = Place(m)
      BY <3>6, SymbolOfNode
    <3>8. Place(m) # Place(n)
      BY <3>3, <3>5, <3>6 DEF Shaped
    <3>9. QED
      BY <3>2, <3>7, <3>8
  <2>12. IsInjective(all[n])
    BY <2>5, <2>6, <2>7, <2>10, <2>11, InjectiveConcat
  <2>13. QED
    BY <2>12
<1>5. Node \subseteq S
  <2> HIDE DEF S
  <2>1. QED
    BY <1>1, <1>4, InductionByDepth
<1>6. QED
  BY <1>5 DEF all
-----------------------------------------------------------------------------
(* No statement is merged twice. *)

(* The file that a call of subdir() leads to.                                 *)
Leads(s) == Targets[s.ref.file][s.parts[1].name]

(* The merged file of a has the statements of h, or one of its calls leads to it. *)
Under(h, a) == h = a \/ \E c \in ToSet(Merged[a]) : IsSubdir(c) /\ Leads(c) = h

LEMMA StatementPlaced ==
    ASSUME NEW depth, NEW rank, Layout(depth, rank), text \in Texts,
           NEW f \in File, NEW s \in ToSet(text[f])
    PROVE  /\ s \in Node /\ s.ref.file = f /\ ~InSelection(s)
           /\ IsSubdir(s) => /\ Leads(s) = Targets[f][s.parts[1].name]
                             /\ Leads(s) \in File /\ rank[Leads(s)] < rank[f]
                             /\ rank[f] \in Nat /\ rank[Leads(s)] \in Nat
<1>1. s \in Written(f) /\ ~InSelection(s) /\ s \in Node /\ Placed(f, Written(f)) /\ Includes(rank)
  BY FileLaidOut DEF Apart
<1>2. s.ref.file = f
  BY <1>1 DEF Placed, Refs
<1>3. ASSUME IsSubdir(s)
      PROVE  /\ Targets[f][s.parts[1].name] \in File /\ rank[Targets[f][s.parts[1].name]] < rank[f]
             /\ rank \in [File -> Nat]
  BY <1>1, <1>3 DEF Includes
<1>4. QED
  BY <1>1, <1>2, <1>3 DEF Leads

(* The statements of a merged file are those of files that are not above it.  *)
LEMMA MergedBelow ==
    ASSUME NEW depth, NEW rank, Layout(depth, rank), text \in Texts
    PROVE  \A f \in File : \A x \in ToSet(Merged[f]) :
              /\ x.ref.file \in File /\ x \in ToSet(text[x.ref.file])
              /\ rank[x.ref.file] <= rank[f] /\ Under(x.ref.file, f)
<1> DEFINE Is(f, x) == /\ x.ref.file \in File /\ x \in ToSet(text[x.ref.file])
                       /\ rank[x.ref.file] <= rank[f] /\ Under(x.ref.file, f)
           S == {f \in File : \A x \in ToSet(Merged[f]) : Is(f, x)}
<1>1. Includes(rank) /\ rank \in [File -> Nat]
  BY DEF Layout, Includes
<1>2. ASSUME NEW f \in File, \A u \in File : rank[u] < rank[f] => u \in S PROVE f \in S
  <2>1. SUFFICES ASSUME NEW x \in ToSet(Merged[f]) PROVE Is(f, x)
    OBVIOUS
  <2>2. PICK k \in DOMAIN text[f] :
              \/ x = text[f][k]
              \/ /\ IsSubdir(text[f][k])
                 /\ x \in ToSet(Merged[Targets[f][text[f][k].parts[1].name]])
    BY <1>1, MergedElements
  <2> DEFINE s == text[f][k]
             g == Leads(s)
  <2>3. s \in ToSet(text[f]) /\ s.ref.file = f
    BY TextType, StatementPlaced
  <2>4. rank[f] \in Nat
    BY <1>1
  <2>5. CASE x = s
    BY <2>3, <2>4, <2>5 DEF Under
  <2>6. CASE IsSubdir(s) /\ x \in ToSet(Merged[Targets[f][s.parts[1].name]])
    <3>1. g \in File /\ rank[g] < rank[f] /\ rank[g] \in Nat /\ x \in ToSet(Merged[g])
      BY <2>3, <2>6, StatementPlaced
    <3>2. g \in S
      BY <1>2, <3>1
    <3>3. Is(g, x)
      BY <3>1, <3>2
    <3>4. s \in ToSet(Merged[f]) /\ \A y \in ToSet(Merged[g]) : y \in ToSet(Merged[f])
      <4>1. Targets[f][s.parts[1].name] = g
        BY <2>3, <2>6, StatementPlaced
      <4>2. \A y : y \in ToSet(Merged[f]) <=>
                    \E j \in DOMAIN text[f] : \/ y = text[f][j]
                                              \/ /\ IsSubdir(text[f][j])
                                                 /\ y \in ToSet(Merged[Targets[f][text[f][j].parts[1].name]])
        BY <1>1, MergedElements
      <4>3. QED
        BY <2>6, <4>1, <4>2
    <3> DEFINE h == x.ref.file
    <3>5. Under(h, g)
      BY <3>3
    <3>6. rank[h] \in Nat /\ rank[h] <= rank[g]
      BY <1>1, <3>3
    <3> HIDE DEF g, s, h
    <3>7. Under(h, f)
      <4>1. CASE h = g
        BY <2>6, <3>4, <4>1 DEF Under, g
      <4>2. CASE \E c \in ToSet(Merged[g]) : IsSubdir(c) /\ Leads(c) = h
        BY <3>4, <4>2 DEF Under
      <4>3. QED
        BY <3>5, <4>1, <4>2 DEF Under
    <3>8. rank[h] <= rank[f]
      BY <2>4, <3>1, <3>6
    <3>9. QED
      BY <3>3, <3>7, <3>8 DEF h
  <2>7. QED
    BY <2>2, <2>5, <2>6
<1>3. File \subseteq S
  <2> HIDE DEF S
  <2>1. QED
    BY <1>1, <1>2, InductionByDepth
<1>4. QED
  BY <1>3

(* What a call of subdir() leads to, no other call does.                      *)
LEMMA CalledOnce ==
    ASSUME NEW depth, NEW rank, Layout(depth, rank), text \in Texts,
           NEW f \in File, NEW g \in File, NEW s \in ToSet(text[f]), NEW r \in ToSet(text[g]),
           IsSubdir(s), IsSubdir(r), Leads(s) = Leads(r)
    PROVE  s = r
<1>1. Leads(s) = Targets[f][s.parts[1].name] /\ Leads(r) = Targets[g][r.parts[1].name]
  BY StatementPlaced
<1>2. IncludesOnce
  BY DEF Layout
<1>3. QED
  BY <1>1, <1>2 DEF IncludesOnce

(* Of two merged files with a file in common one is in the other.             *)
LEMMA UnderOne ==
    ASSUME NEW depth, NEW rank, Layout(depth, rank), text \in Texts,
           NEW a \in File, NEW b \in File
    PROVE  \A h \in File : Under(h, a) /\ Under(h, b) => Under(a, b) \/ Under(b, a)
<1> DEFINE T == {h \in File : Under(h, a)}
           d == [h \in T |-> rank[a] - rank[h]]
           S == {h \in T : Under(h, b) => Under(a, b) \/ Under(b, a)}
<1>1. rank \in [File -> Nat]
  BY DEF Layout, Includes
<1>2. ASSUME NEW h \in T, h # a
      PROVE  \E c \in ToSet(Merged[a]) : /\ IsSubdir(c) /\ Leads(c) = h
                                         /\ c.ref.file \in T /\ c \in ToSet(text[c.ref.file])
                                         /\ rank[h] < rank[c.ref.file] /\ rank[c.ref.file] <= rank[a]
  <2>1. PICK c \in ToSet(Merged[a]) : IsSubdir(c) /\ Leads(c) = h
    BY <1>2 DEF Under
  <2>2. /\ c.ref.file \in File /\ c \in ToSet(text[c.ref.file])
        /\ rank[c.ref.file] <= rank[a] /\ Under(c.ref.file, a)
    BY MergedBelow
  <2>3. rank[h] < rank[c.ref.file]
    BY <2>1, <2>2, StatementPlaced
  <2>4. QED
    BY <2>1, <2>2, <2>3
<1>3. d \in [T -> Nat]
  <2>1. ASSUME NEW h \in T PROVE rank[a] - rank[h] \in Nat
    <3>1. rank[h] \in Nat /\ rank[a] \in Nat
      BY <1>1
    <3>2. CASE h = a
      BY <3>1, <3>2
    <3>3. CASE h # a
      <4>1. PICK c \in ToSet(Merged[a]) : /\ c.ref.file \in T
                 /\ rank[h] < rank[c.ref.file] /\ rank[c.ref.file] <= rank[a]
        BY <1>2, <3>3
      <4>2. rank[c.ref.file] \in Nat
        BY <1>1, <4>1
      <4>3. QED
        BY <3>1, <4>1, <4>2
    <3>4. QED
      BY <3>2, <3>3
  <2> HIDE DEF T
  <2>2. QED
    BY <2>1
<1>4. ASSUME NEW h \in T, \A u \in T : d[u] < d[h] => u \in S PROVE h \in S
  <2>1. SUFFICES ASSUME Under(h, b) PROVE Under(a, b) \/ Under(b, a)
    OBVIOUS
  <2>2. CASE h = a
    BY <2>1, <2>2
  <2>3. CASE h = b
    BY <2>3
  <2>4. CASE h # a /\ h # b
    <3>1. PICK c \in ToSet(Merged[a]) : /\ IsSubdir(c) /\ Leads(c) = h
                                        /\ c.ref.file \in T /\ c \in ToSet(text[c.ref.file])
                                        /\ rank[h] < rank[c.ref.file] /\ rank[c.ref.file] <= rank[a]
      BY <1>2, <2>4
    <3>2. PICK e \in ToSet(Merged[b]) : IsSubdir(e) /\ Leads(e) = h
      BY <2>1, <2>4 DEF Under
    <3>3. e.ref.file \in File /\ e \in ToSet(text[e.ref.file]) /\ Under(e.ref.file, b)
      BY MergedBelow
    <3>4. e = c
      BY <3>1, <3>2, <3>3, CalledOnce
    <3> DEFINE u == c.ref.file
    <3>5. d[u] < d[h]
      <4>1. d[u] = rank[a] - rank[u] /\ d[h] = rank[a] - rank[h]
        BY <3>1
      <4>2. rank[u] \in Nat /\ rank[h] \in Nat /\ rank[a] \in Nat /\ rank[h] < rank[u]
        BY <1>1, <3>1
      <4> HIDE DEF u, d
      <4>3. QED
        BY <4>1, <4>2
    <3>6. u \in S
      BY <1>4, <3>1, <3>5
    <3>7. QED
      BY <3>3, <3>4, <3>6
  <2>5. QED
    BY <2>2, <2>3, <2>4
<1>5. T \subseteq S
  <2> HIDE DEF S, T, d
  <2>1. QED
    BY <1>3, <1>4, InductionByDepth
<1>6. QED
  BY <1>5

(* What two calls of one file merge has nothing in common, nor the file itself. *)
LEMMA CallsApart ==
    ASSUME NEW depth, NEW rank, Layout(depth, rank), text \in Texts,
           NEW f \in File, NEW s \in ToSet(text[f]), IsSubdir(s)
    PROVE  /\ \A x \in ToSet(Merged[Leads(s)]) : x \notin ToSet(text[f])
           /\ \A r \in ToSet(text[f]) : IsSubdir(r) /\ r # s =>
                 \A x \in ToSet(Merged[Leads(s)]) : x \notin ToSet(Merged[Leads(r)])
<1>1. rank \in [File -> Nat]
  BY DEF Layout, Includes
<1>2. ASSUME NEW r \in ToSet(text[f]), IsSubdir(r), NEW x \in ToSet(Merged[Leads(r)])
      PROVE  x.ref.file # f /\ Leads(r) \in File
  <2>1. Leads(r) \in File /\ rank[Leads(r)] < rank[f]
    BY <1>2, StatementPlaced
  <2>2. x.ref.file \in File /\ rank[x.ref.file] <= rank[Leads(r)]
    BY <1>2, <2>1, MergedBelow
  <2>3. rank[Leads(r)] \in Nat /\ rank[f] \in Nat /\ rank[x.ref.file] \in Nat
    BY <1>1, <2>1, <2>2
  <2>4. x.ref.file # f
    BY <2>1, <2>2, <2>3
  <2>5. QED
    BY <2>1, <2>4
<1>3. ASSUME NEW x \in ToSet(Merged[Leads(s)]) PROVE x \notin ToSet(text[f])
  BY <1>2, <1>3, StatementPlaced
<1>4. ASSUME NEW r \in ToSet(text[f]), IsSubdir(r), NEW q \in ToSet(text[f]), IsSubdir(q), r # q
      PROVE  ~Under(Leads(r), Leads(q))
  <2>1. SUFFICES ASSUME Under(Leads(r), Leads(q)) PROVE FALSE
    OBVIOUS
  <2>2. CASE Leads(r) = Leads(q)
    BY <1>4, <2>2, CalledOnce
  <2>3. ASSUME NEW c \in ToSet(Merged[Leads(q)]), IsSubdir(c), Leads(c) = Leads(r) PROVE FALSE
    <3>1. Leads(q) \in File /\ c.ref.file # f
      BY <1>2, <1>4, <2>3, StatementPlaced
    <3>2. c.ref.file \in File /\ c \in ToSet(text[c.ref.file])
      BY <2>3, <3>1, MergedBelow
    <3>3. c = r
      BY <1>4, <2>3, <3>2, CalledOnce
    <3>4. QED
      BY <3>1, <3>3, StatementPlaced
  <2>4. QED
    BY <2>1, <2>2, <2>3 DEF Under
<1>5. ASSUME NEW r \in ToSet(text[f]), IsSubdir(r), r # s,
             NEW x \in ToSet(Merged[Leads(s)]), x \in ToSet(Merged[Leads(r)])
      PROVE  FALSE
  <2>1. Leads(s) \in File /\ Leads(r) \in File
    BY <1>5, StatementPlaced
  <2>2. x.ref.file \in File /\ Under(x.ref.file, Leads(s)) /\ Under(x.ref.file, Leads(r))
    BY <1>5, <2>1, MergedBelow
  <2>3. Under(Leads(s), Leads(r)) \/ Under(Leads(r), Leads(s))
    BY <2>1, <2>2, UnderOne
  <2>4. QED
    BY <1>4, <1>5, <2>3
<1>6. QED
  BY <1>3, <1>5

(* The statements of a file differ.                                           *)
LEMMA StatementsDiffer ==
    ASSUME NEW depth, NEW rank, Layout(depth, rank), text \in Texts, NEW f \in File
    PROVE  IsInjective(text[f])
<1>1. ASSUME NEW i \in DOMAIN text[f], NEW j \in DOMAIN text[f], text[f][i] = text[f][j]
      PROVE  i = j
  <2> DEFINE w == text[f]
  <2>1. SUFFICES ASSUME i # j PROVE FALSE
    OBVIOUS
  <2>2. Scattered(w)
    BY FileLaidOut DEF Apart
  <2>3. w[i] \in ToSet(w) /\ w[j] \in ToSet(w)
    BY TextType
  <2>4. w[i] \in Nodes[w[i]] /\ w[j] \in Nodes[w[j]] /\ ~InSelection(w[i]) /\ ~InSelection(w[j])
    BY <2>3, FileLaidOut, StatementPlaced
  <2> HIDE DEF w
  <2>5. i \in DOMAIN w /\ j \in DOMAIN w /\ w[i] = w[j]
    BY <1>1 DEF w
  <2>6. QED
    BY <2>1, <2>2, <2>4, <2>5, ScatteredNodes
<1>2. QED
  BY <1>1 DEF IsInjective

LEMMA MergedInjective ==
    ASSUME NEW depth, NEW rank, Layout(depth, rank), text \in Texts
    PROVE  \A f \in File : IsInjective(Merged[f])
<1> DEFINE S == {f \in File : IsInjective(Merged[f])}
<1>1. Includes(rank) /\ rank \in [File -> Nat]
  BY DEF Layout, Includes
<1>2. ASSUME NEW f \in File, \A u \in File : rank[u] < rank[f] => u \in S PROVE f \in S
  <2> DEFINE p == Pieces(f, Merged)
             l == Len(text[f])
  <2>1. Merged \in [File -> Seq(Node)] /\ Merged[f] = FlattenSeq(p)
    BY <1>1, MergedUnfolds
  <2>2. /\ p \in Seq(Seq(Node)) /\ Len(p) = l
        /\ \A k \in DOMAIN text[f] : p[k] = Piece(f, Merged, text[f][k])
    BY <1>1, <2>1, PiecesType
  <2>3. DOMAIN text[f] = 1 .. l
    BY TextType
  <2> HIDE DEF p, l
  <2>4. ASSUME NEW s \in ToSet(text[f])
        PROVE  /\ IsInjective(Piece(f, Merged, s))
               /\ \A x \in ToSet(Piece(f, Merged, s)) :
                     x = s \/ (IsSubdir(s) /\ x \in ToSet(Merged[Leads(s)]))
    <3>1. s \in Node
      BY StatementPlaced
    <3>2. <<s>> \in Seq(Node) /\ ToSet(<<s>>) = {s} /\ IsInjective(<<s>>)
      BY <3>1 DEF ToSet, IsInjective
    <3>3. CASE IsSubdir(s)
      <4> DEFINE m == Merged[Leads(s)]
      <4>1. Leads(s) \in File /\ rank[Leads(s)] < rank[f] /\ Leads(s) = Targets[f][s.parts[1].name]
        BY <3>3, StatementPlaced
      <4>2. m \in Seq(Node) /\ IsInjective(m)
        BY <1>2, <2>1, <4>1
      <4>3. s \notin ToSet(m)
        BY <3>3, CallsApart
      <4>4. Piece(f, Merged, s) = Append(m, s)
        BY <3>3, <4>1 DEF Piece
      <4> HIDE DEF m
      <4>5. Append(m, s) = m \o <<s>>
        BY <3>1, <4>2, AppendIsConcat
      <4>6. ToSet(m \o <<s>>) = ToSet(m) \union ToSet(<<s>>)
        BY <3>2, <4>2, ElementsConcat, ZenonT(30)
      <4>7. \A x \in ToSet(m) : x \notin ToSet(<<s>>)
        BY <3>2, <4>3
      <4>8. IsInjective(m \o <<s>>)
        BY <3>2, <4>2, <4>7, InjectiveConcat
      <4>9. IsInjective(Piece(f, Merged, s))
        BY <4>4, <4>5, <4>8, Zenon
      <4>10. ToSet(Piece(f, Merged, s)) = ToSet(m) \union {s}
        BY <3>2, <4>4, <4>5, <4>6, Zenon
      <4>11. QED
        BY <3>3, <4>9, <4>10 DEF m
    <3>4. CASE ~IsSubdir(s)
      <4>1. Piece(f, Merged, s) = <<s>>
        BY <3>4 DEF Piece
      <4>2. QED
        BY <3>2, <4>1
    <3>5. QED
      BY <3>3, <3>4
  <2>5. ASSUME NEW k \in 1 .. l PROVE text[f][k] \in ToSet(text[f]) /\ p[k] = Piece(f, Merged, text[f][k])
    BY <2>2, <2>3, TextType
  <2>6. ASSUME NEW i \in 1 .. l, NEW j \in 1 .. l, i # j, NEW x \in ToSet(p[i]), x \in ToSet(p[j])
        PROVE  FALSE
    <3> DEFINE s == text[f][i]
               r == text[f][j]
    <3>1. s # r
      BY <2>3, <2>6, StatementsDiffer DEF IsInjective
    <3>2. s \in ToSet(text[f]) /\ r \in ToSet(text[f])
      BY <2>5
    <3>3. x = s \/ (IsSubdir(s) /\ x \in ToSet(Merged[Leads(s)]))
      BY <2>4, <2>5, <2>6
    <3>4. x = r \/ (IsSubdir(r) /\ x \in ToSet(Merged[Leads(r)]))
      BY <2>4, <2>5, <2>6
    <3> HIDE DEF s, r
    <3>5. QED
      BY <3>1, <3>2, <3>3, <3>4, CallsApart
  <2>7. Dissimilar(p, l)
    BY <2>4, <2>5, <2>6 DEF Dissimilar
  <2>8. IsInjective(FlattenSeq(p))
    BY <2>2, <2>7, InjectiveFlatten
  <2>9. QED
    BY <2>1, <2>8
<1>3. File \subseteq S
  <2> HIDE DEF S
  <2>1. QED
    BY <1>1, <1>2, InductionByDepth
<1>4. QED
  BY <1>3

(* The symbols of a file, as they are had from the merged file. *)
SymbolsFound(file) == FlattenSeq(Each(DocumentSymbols(file), Merged[Root]))

(* A statement gives only symbols of the file it stands in.                   *)
LEMMA SymbolsFrom ==
    ASSUME NEW depth, NEW rank, Layout(depth, rank), text \in Texts, NEW file,
           NEW g \in File, NEW s \in ToSet(text[g]), NEW x \in ToSet(DocumentSymbols(file)[s])
    PROVE  /\ g = file
           /\ \E m \in Written(g) : /\ m.ref.file = file /\ x.ref = Place(m)
                                    /\ x.name = IF m.type = "id" THEN m.name ELSE Nothing
<1>1. /\ Deepens(depth) /\ (\A n \in Node : Shaped(n)) /\ Placed(g, Written(g))
      /\ s \in Node /\ Nodes[s] \subseteq Written(g)
  BY FileLaidOut
<1>2. PICK m \in Nodes[s] : x \in ToSet(SymbolOf(m, file))
  BY <1>1, SymbolsGather
<1>3. /\ m.ref.file = file /\ ~InSelection(m) /\ x.ref = Place(m)
      /\ x.name = IF m.type = "id" THEN m.name ELSE Nothing
  BY <1>2, SymbolOfNode
<1>4. m.ref.file = g
  BY <1>1, <1>3 DEF Placed, Refs
<1>5. QED
  BY <1>1, <1>3, <1>4

LEMMA SymbolsFoundType ==
    ASSUME NEW depth, NEW rank, Layout(depth, rank), text \in Texts, NEW file
    PROVE  /\ SymbolsFound(file) \in Seq(SymbolsIn(file))
           /\ \A x : x \in ToSet(SymbolsFound(file)) <=>
                 \E s \in ToSet(Merged[Root]) : x \in ToSet(DocumentSymbols(file)[s])
<1>1. Deepens(depth) /\ \A n \in Node : Shaped(n)
  BY DEF Layout
<1>2. DocumentSymbols(file) \in [Node -> Seq(SymbolsIn(file))]
  BY <1>1, SymbolsGather DEF Gathers
<1>3. Merged[Root] \in Seq(Node)
  BY RootMerged
<1>4. QED
  BY <1>2, <1>3, EachElements DEF SymbolsFound

LEMMA SymbolsOnce ==
    ASSUME NEW depth, NEW rank, Layout(depth, rank), text \in Texts, NEW file
    PROVE  IsInjective(SymbolsFound(file))
<1> DEFINE all == DocumentSymbols(file)
           V == SymbolsIn(file)
           w == Merged[Root]
           e == Each(all, w)
<1>1. Deepens(depth) /\ (\A n \in Node : Shaped(n)) /\ Root \in File
  BY QueriesAssumption DEF Layout
<1>2. all \in [Node -> Seq(V)] /\ \A n \in Node : IsInjective(all[n])
  BY <1>1, SymbolsGather, SymbolsInjective DEF Gathers
<1>3. w \in Seq(Node) /\ \A k \in DOMAIN w : w[k] \in Node /\ \E g \in File : w[k] \in ToSet(text[g])
  BY RootMerged
<1>4. \A i, j \in DOMAIN w : w[i] = w[j] => i = j
  BY <1>1, MergedInjective DEF IsInjective
<1>5. SymbolsFound(file) = FlattenSeq(e)
  BY DEF SymbolsFound
<1> HIDE DEF all, V, w
<1>6. e \in Seq(Seq(V)) /\ Len(e) = Len(w) /\ \A k \in 1 .. Len(w) : e[k] = all[w[k]]
  BY <1>2, <1>3, EachType
<1>7. DOMAIN w = 1 .. Len(w)
  BY <1>3
<1> HIDE DEF e
<1>8. ASSUME NEW i \in DOMAIN w, NEW j \in DOMAIN w, i # j,
             NEW x \in ToSet(all[w[i]]), x \in ToSet(all[w[j]])
      PROVE  FALSE
  <2>1. PICK g \in File : w[i] \in ToSet(text[g])
    BY <1>3
  <2>2. PICK h \in File : w[j] \in ToSet(text[h])
    BY <1>3
  <2>3. g = file /\ h = file
    BY <1>8, <2>1, <2>2, SymbolsFrom DEF all
  <2> DEFINE t == text[file]
  <2>4. PICK p \in DOMAIN t : w[i] = t[p]
    BY <2>1, <2>3 DEF ToSet
  <2>5. PICK q \in DOMAIN t : w[j] = t[q]
    BY <2>2, <2>3 DEF ToSet
  <2>6. p # q
    BY <1>4, <1>8, <2>4, <2>5
  <2>7. Scattered(t)
    BY <2>1, <2>3, FileLaidOut DEF Apart
  <2> HIDE DEF t
  <2>8. Nodes[w[i]] \subseteq Nodes[t[p]] /\ Nodes[w[j]] \subseteq Nodes[t[q]]
    BY <2>4, <2>5
  <2>9. w[i] \in Node /\ w[j] \in Node
    BY <1>3
  <2>10. x \in ToSet(DocumentSymbols(file)[w[i]]) /\ x \in ToSet(DocumentSymbols(file)[w[j]])
    BY <1>8 DEF all
  <2>11. QED
    BY <1>1, <2>6, <2>7, <2>8, <2>9, <2>10, SymbolsApart
<1>9. Dissimilar(e, Len(w))
  <2>1. ASSUME NEW k \in 1 .. Len(w) PROVE e[k] = all[w[k]] /\ IsInjective(e[k]) /\ k \in DOMAIN w
    BY <1>2, <1>3, <1>6, <1>7
  <2>2. ASSUME NEW i \in 1 .. Len(w), NEW j \in 1 .. Len(w), i # j, NEW x \in ToSet(e[i])
        PROVE  x \notin ToSet(e[j])
    BY <1>8, <2>1, <2>2
  <2>3. QED
    BY <2>1, <2>2 DEF Dissimilar
<1>10. IsInjective(FlattenSeq(e))
  BY <1>6, <1>9, InjectiveFlatten
<1>11. QED
  BY <1>5, <1>10

(* The nodes of statements lie in selections and loops, whose parts are listed. *)
IsStatement(n) == n.type \in {"if", "foreach", "assign"}

LEMMA StatementsAbove ==
    ASSUME NEW depth, Deepens(depth), \A m \in Node : Shaped(m)
    PROVE  \A n \in Node : \A m \in Nodes[n] : IsStatement(m) /\ m # n => n.type \in {"if", "foreach"}
<1> DEFINE S == {n \in Node : \A m \in Nodes[n] : IsStatement(m) /\ m # n => n.type \in {"if", "foreach"}}
<1>1. depth \in [Node -> Nat]
  BY DEF Deepens
<1>2. ASSUME NEW n \in Node, \A u \in Node : depth[u] < depth[n] => u \in S PROVE n \in S
  <2>1. SUFFICES ASSUME NEW m \in Nodes[n], IsStatement(m), m # n PROVE n.type \in {"if", "foreach"}
    OBVIOUS
  <2>2. PICK k \in DOMAIN n.parts : m \in Nodes[n.parts[k]]
    BY <2>1, NodesDown
  <2>3. n.parts[k] \in Node /\ depth[n.parts[k]] < depth[n]
    BY PartsType DEF Deepens
  <2>4. n.parts[k] \in S
    BY <1>2, <2>3
  <2>5. IsStatement(n.parts[k])
    BY <2>1, <2>2, <2>4 DEF IsStatement
  <2>6. QED
    BY <2>5 DEF Shaped, IsStatement
<1>3. Node \subseteq S
  <2> HIDE DEF S
  <2>1. QED
    BY <1>1, <1>2, InductionByDepth
<1>4. QED
  BY <1>3

LEMMA StatementsListed ==
    ASSUME NEW depth, Deepens(depth), \A m \in Node : Shaped(m), NEW file
    PROVE  \A n \in Node : \A m \in Nodes[n] : IsStatement(m) =>
              ToSet(DocumentSymbols(file)[m]) \subseteq ToSet(DocumentSymbols(file)[n])
<1> DEFINE all == DocumentSymbols(file)
           S == {n \in Node : \A m \in Nodes[n] : IsStatement(m) => ToSet(all[m]) \subseteq ToSet(all[n])}
<1>1. depth \in [Node -> Nat]
  BY DEF Deepens
<1>2. \A n \in Node : \A y \in ToSet(Listed(n)) : \A x \in ToSet(all[y]) : x \in ToSet(all[n])
  BY SymbolsGather
<1> HIDE DEF all
<1>3. ASSUME NEW n \in Node, \A u \in Node : depth[u] < depth[n] => u \in S PROVE n \in S
  <2>1. SUFFICES ASSUME NEW m \in Nodes[n], IsStatement(m), m # n PROVE ToSet(all[m]) \subseteq ToSet(all[n])
    OBVIOUS
  <2>2. PICK k \in DOMAIN n.parts : m \in Nodes[n.parts[k]]
    BY <2>1, NodesDown
  <2> DEFINE c == n.parts[k]
  <2>3. c \in Node /\ depth[c] < depth[n]
    BY PartsType DEF Deepens
  <2>4. c \in S
    BY <1>3, <2>3
  <2>5. IsStatement(c)
    BY <2>1, <2>2, <2>3, StatementsAbove DEF IsStatement
  <2>6. n.type \in {"if", "foreach"}
    BY <2>1, StatementsAbove
  <2>7. c \in ToSet(Listed(n))
    <3>1. CASE n.type = "foreach"
      <4>1. Listed(n) = n.parts
        BY <3>1 DEF Listed
      <4>2. QED
        BY <4>1 DEF ToSet
    <3>2. CASE n.type = "if"
      <4>1. Listed(n) = Blocks(n) \o Conditions(n)
        BY <3>2 DEF Listed
      <4>2. ~InSelection(c)
        BY <2>5 DEF IsStatement, InSelection
      <4>3. c \in ToSet(Blocks(n)) /\ Blocks(n) \in Seq(Node)
        BY <4>2, BlocksKept
      <4>4. Conditions(n) \in Seq(Node)
        BY ConditionsKept
      <4> DEFINE v == Blocks(n)
                 w == Conditions(n)
      <4>5. v \in Seq(Node) /\ w \in Seq(Node) /\ c \in ToSet(v)
        BY <4>3, <4>4
      <4> HIDE DEF v, w, c
      <4>6. ToSet(v \o w) = ToSet(v) \union ToSet(w)
        BY <4>5, ElementsConcat
      <4>7. c \in ToSet(v \o w)
        BY <4>5, <4>6
      <4>8. QED
        BY <4>1, <4>7, Zenon DEF v, w
    <3>3. QED
      BY <2>6, <3>1, <3>2
  <2>8. ToSet(all[m]) \subseteq ToSet(all[c])
    BY <2>1, <2>2, <2>4
  <2>9. QED
    BY <1>2, <2>7, <2>8
<1>4. Node \subseteq S
  <2> HIDE DEF S
  <2>1. QED
    BY <1>1, <1>3, InductionByDepth
<1>5. QED
  BY <1>4 DEF all

(* A definition gives its variable as a symbol.                               *)
LEMMA DefinitionListed ==
    ASSUME NEW depth, NEW rank, Layout(depth, rank), text \in Texts, NEW file \in InTree,
           NEW x, NEW d \in DefinedIn(file, x)
    PROVE  [name |-> x, ref |-> d] \in ToSet(SymbolsFound(file))
<1> DEFINE all == DocumentSymbols(file)
           symbol == [name |-> x, ref |-> d]
<1>1. PICK n \in Written(file) : /\ n.type = "foreach" \/ (n.type = "assign" /\ n.name = "=")
                                 /\ n.parts[1].type = "id" /\ n.parts[1].name = x
                                 /\ d = n.parts[1].ref
  BY DEF DefinedIn
<1>2. file \in File /\ ToSet(text[file]) \subseteq ToSet(Merged[Root])
  BY TreeMerged
<1>3. /\ Deepens(depth) /\ (\A m \in Node : Shaped(m)) /\ Placed(file, Written(file))
      /\ n \in Node /\ Nodes[n] \subseteq Written(file)
  BY <1>2, FileLaidOut
<1>4. PICK s \in ToSet(text[file]) : n \in Nodes[s]
  BY <1>2, FileLaidOut
<1>5. s \in Node
  BY <1>2, FileLaidOut
<1> DEFINE i == n.parts[1]
<1>6. 1 \in DOMAIN n.parts /\ i \in Node
  BY <1>1, <1>3, PartsType DEF Shaped
<1>7. i \in Written(file) /\ ~InSelection(i)
  BY <1>1, <1>3, <1>6, NodesDown DEF InSelection
<1>8. i.ref.file = file
  BY <1>3, <1>7 DEF Placed, Refs
<1>9. SymbolOf(i, file) = <<symbol>>
  BY <1>1, <1>8 DEF SymbolOf, Symbol
<1>10. symbol \in ToSet(SymbolOf(i, file))
  <2>1. ToSet(<<symbol>>) = {symbol}
    BY DEF ToSet
  <2>2. QED
    BY <1>9, <2>1
<1>11. i \in ToSet(Listed(n))
  <2>1. Listed(n) = n.parts
    BY <1>1 DEF Listed
  <2>2. QED
    BY <1>6, <2>1 DEF ToSet
<1> HIDE DEF symbol, i, all
<1>12. symbol \in ToSet(all[n])
  <2>1. symbol \in ToSet(all[i])
    BY <1>3, <1>6, <1>10, SymbolsGather DEF all
  <2>2. QED
    BY <1>3, <1>11, <2>1, SymbolsGather DEF all
<1>13. ToSet(all[n]) \subseteq ToSet(all[s])
  BY <1>1, <1>3, <1>4, <1>5, StatementsListed DEF all, IsStatement
<1>14. s \in ToSet(Merged[Root])
  BY <1>2
<1>15. symbol \in ToSet(SymbolsFound(file))
  BY <1>12, <1>13, <1>14, SymbolsFoundType DEF all
<1>16. QED
  BY <1>15 DEF symbol

(* A symbol with a name is a variable that is written in the file.            *)
LEMMA SymbolWritten ==
    ASSUME NEW depth, NEW rank, Layout(depth, rank), text \in Texts, NEW file,
           NEW x \in ToSet(SymbolsFound(file)), x.name # Nothing
    PROVE  \E n \in Identifiers(file) : n.name = x.name /\ n.ref = x.ref
<1>1. PICK s \in ToSet(Merged[Root]) : x \in ToSet(DocumentSymbols(file)[s])
  BY SymbolsFoundType
<1>2. PICK g \in File : s \in ToSet(text[g])
  BY MergedFrom, QueriesAssumption
<1>3. PICK m \in Written(g) : /\ m.ref.file = file /\ x.ref = Place(m)
                              /\ x.name = IF m.type = "id" THEN m.name ELSE Nothing
  BY <1>1, <1>2, SymbolsFrom
<1>4. g = file
  BY <1>1, <1>2, SymbolsFrom
<1>5. m.type = "id"
  BY <1>3
<1>6. QED
  BY <1>3, <1>4, <1>5 DEF Identifiers, Place
-----------------------------------------------------------------------------
(* The invariant: an answer is what the searches find in the merged file, and *)
(* the place it leads to was there when it was given.                         *)

Jumped(found) ==
    found # Nothing =>
        LET target == Targets[found[1]][found[2]]
        IN reply.at = TopOf(target) \/ (reply.at = Nothing /\ target \notin onDisk)

DefinitionAnswered ==
    call.method = "definition" =>
        /\ call.file \in File /\ call.position \in Cursors
        /\ reply.name = NameFound(call.file, call.position)
        /\ reply.name = Nothing => Jumped(CallFound(call.file, call.position))

SymbolsAnswered ==
    call.method = "documentSymbol" => call.file \in File /\ reply = SymbolsFound(call.file)

Answered ==
    /\ text \in Texts
    /\ ast = Nothing \/ ast = Merged[Root]
    /\ DefinitionAnswered
    /\ SymbolsAnswered

LEMMA InitAnswered == Init => Answered
  BY DEF Init, Answered, DefinitionAnswered, SymbolsAnswered, NoCall

LEMMA FoundKept ==
    ASSUME text' = text
    PROVE  /\ (Merged[Root])' = Merged[Root]
           /\ \A file, pos : (NameFound(file, pos))' = NameFound(file, pos)
           /\ \A file, pos : (CallFound(file, pos))' = CallFound(file, pos)
           /\ \A file : (SymbolsFound(file))' = SymbolsFound(file)
<1>1. Merged' = Merged
  BY DEF Merged
<1>2. QED
  BY <1>1 DEF NameFound, CallFound, SymbolsFound

LEMMA StepAnswered == Answered /\ [Next]_vars => Answered'
<1> SUFFICES ASSUME Answered, [Next]_vars PROVE Answered'
  OBVIOUS
<1> USE DEF Answered
<1>1. ASSUME text' = text, ast' = ast, call' = call, reply' = reply, onDisk' \subseteq onDisk
      PROVE  Answered'
  <2>1. DefinitionAnswered'
    <3> DEFINE m == Merged[Root]
    <3>1. SUFFICES ASSUME call.method = "definition" PROVE DefinitionAnswered'
      BY <1>1 DEF DefinitionAnswered
    <3>2. /\ call.file \in File /\ call.position \in Cursors
          /\ reply.name = NameFound(call.file, call.position)
          /\ reply.name = Nothing => Jumped(CallFound(call.file, call.position))
      BY <3>1 DEF DefinitionAnswered
    <3>3. /\ (NameFound(call.file, call.position))' = NameFound(call.file, call.position)
          /\ (CallFound(call.file, call.position))' = CallFound(call.file, call.position)
      BY <1>1, FoundKept
    <3>4. reply.name = Nothing => (Jumped(CallFound(call.file, call.position)))'
      BY <1>1, <3>2, <3>3 DEF Jumped
    <3>5. QED
      BY <1>1, <3>2, <3>3, <3>4 DEF DefinitionAnswered
  <2>2. SymbolsAnswered'
    <3>1. (SymbolsFound(call.file))' = SymbolsFound(call.file)
      BY <1>1, FoundKept
    <3>2. QED
      BY <1>1, <3>1 DEF SymbolsAnswered
  <2>3. QED
    BY <1>1, <2>1, <2>2, FoundKept
<1>2. ASSUME text' = text, ast' = ast, call'.method # "definition", SymbolsAnswered' PROVE Answered'
  BY <1>2, FoundKept DEF DefinitionAnswered
<1>3. CASE LoadTree
  <2>1. text' = text /\ ast' = Merged[Root] /\ call' = call /\ reply' = reply /\ onDisk' = onDisk
    BY <1>3 DEF LoadTree
  <2>2. (Merged[Root])' = Merged[Root]
    BY <2>1, FoundKept
  <2>3. DefinitionAnswered'
    <3>1. CASE call.method = "definition"
      <4>1. /\ call.file \in File /\ call.position \in Cursors
            /\ reply.name = NameFound(call.file, call.position)
            /\ reply.name = Nothing => Jumped(CallFound(call.file, call.position))
        BY <3>1 DEF DefinitionAnswered
      <4>2. /\ (NameFound(call.file, call.position))' = NameFound(call.file, call.position)
            /\ (CallFound(call.file, call.position))' = CallFound(call.file, call.position)
        BY <2>1, FoundKept
      <4>3. reply.name = Nothing => (Jumped(CallFound(call.file, call.position)))'
        BY <2>1, <4>1, <4>2 DEF Jumped
      <4>4. QED
        BY <2>1, <4>1, <4>2, <4>3 DEF DefinitionAnswered
    <3>2. CASE call.method # "definition"
      BY <2>1, <3>2 DEF DefinitionAnswered
    <3>3. QED
      BY <3>1, <3>2
  <2>4. SymbolsAnswered'
    <3>1. (SymbolsFound(call.file))' = SymbolsFound(call.file)
      BY <2>1, FoundKept
    <3>2. QED
      BY <2>1, <3>1 DEF SymbolsAnswered
  <2>5. QED
    BY <2>1, <2>2, <2>3, <2>4
<1>4. CASE ReadReply
  BY <1>2, <1>4 DEF ReadReply, NoCall, SymbolsAnswered
<1>5. CASE FileVanishes
  BY <1>1, <1>5 DEF FileVanishes
<1>6. ASSUME NEW f \in File, NEW pos \in Cursors, Definition(f, pos) PROVE Answered'
  <2>1. /\ call'.method = "definition" /\ call'.file = f /\ call'.position = pos
        /\ reply' = AnswerDefinition(f, pos)
        /\ text' = text /\ ast' = ast /\ onDisk' = onDisk /\ ast = Merged[Root]
    BY <1>6 DEF Definition, Waiting
  <2> DEFINE name == NameFound(f, pos)
             found == CallFound(f, pos)
             target == Targets[found[1]][found[2]]
  <2>2. reply'.name = name /\ (name = Nothing => reply'.at = JumpToSubdir(f, pos))
    BY <2>1 DEF AnswerDefinition, NameFound
  <2>3. JumpToSubdir(f, pos) =
            IF found # Nothing /\ target \in onDisk THEN TopOf(target) ELSE Nothing
    BY <2>1 DEF JumpToSubdir, CallFound
  <2>4. name' = name /\ found' = found
    BY <2>1, FoundKept
  <2>5. (NameFound(call.file, call.position))' = name /\ (CallFound(call.file, call.position))' = found
    BY <2>1, <2>4
  <2> HIDE DEF name, found
  <2>6. reply'.name = Nothing => (Jumped(CallFound(call.file, call.position)))'
    BY <2>1, <2>2, <2>3, <2>5 DEF Jumped
  <2>7. DefinitionAnswered'
    BY <2>1, <2>2, <2>5, <2>6 DEF DefinitionAnswered
  <2>8. SymbolsAnswered'
    BY <2>1 DEF SymbolsAnswered
  <2>9. QED
    BY <2>1, <2>7, <2>8, FoundKept
<1>7. ASSUME NEW f \in File, DocumentSymbol(f) PROVE Answered'
  <2>1. /\ call'.method = "documentSymbol" /\ call'.file = f /\ text' = text /\ ast' = ast
        /\ reply' = SymbolsFound(f)
    BY <1>7 DEF DocumentSymbol, NoCall, Waiting, SymbolsFound
  <2>2. (SymbolsFound(call.file))' = SymbolsFound(f)
    <3>1. (SymbolsFound(f))' = SymbolsFound(f)
      BY <2>1, FoundKept
    <3>2. QED
      BY <2>1, <3>1
  <2>3. SymbolsAnswered'
    BY <2>1, <2>2 DEF SymbolsAnswered
  <2>4. QED
    BY <1>2, <2>1, <2>3
<1>8. CASE UNCHANGED vars
  BY <1>1, <1>8 DEF vars
<1>9. QED
  BY <1>3, <1>4, <1>5, <1>6, <1>7, <1>8 DEF Next

LEMMA AlwaysAnswered == Spec => []Answered
<1>1. Init => Answered
  BY InitAnswered
<1>2. Answered /\ [Next]_vars => Answered'
  BY StepAnswered
<1>3. QED
  BY <1>1, <1>2, PTL DEF Spec

(* In every project that is laid out as texts are, whatever its files and     *)
(* however deep its statements, a click on a variable is taken for that       *)
(* variable, and a click on no name for none: the searches of ast.vala go     *)
(* through all that is parsed and merged (server.vala:150-172).               *)
THEOREM VariablesRecognised ==
    ASSUME NEW CONSTANT depth, NEW CONSTANT rank, Layout(depth, rank)
    PROVE  Spec => []VariableRecognised
<1>1. Answered => VariableRecognised
  <2> SUFFICES ASSUME Answered, Asked("definition")
               PROVE  /\ \A n \in Clicked : reply.name = n.name
                      /\ \/ reply.name = Nothing
                         \/ \E n \in NamesAt(call.file, call.position) : reply.name = n.name
    BY DEF VariableRecognised
  <2>1. /\ text \in Texts /\ call.file \in File /\ call.file \in InTree /\ call.position \in Cursors
        /\ reply.name = NameFound(call.file, call.position)
    BY DEF Answered, DefinitionAnswered, Asked
  <2>2. ASSUME NEW n \in Clicked PROVE reply.name = n.name
    <3>1. n \in Identifiers(call.file) \ Dropped(call.file) /\ Covers(n.ref, call.position)
      BY DEF Clicked
    <3>2. QED
      BY <2>1, <3>1, VariableFound
  <2>3. reply.name # Nothing => \E n \in NamesAt(call.file, call.position) : reply.name = n.name
    BY <2>1, NameIsThere
  <2>4. QED
    BY <2>2, <2>3
<1>2. QED
  BY <1>1, AlwaysAnswered, PTL

(* So is a click into a call of subdir(): it leads to the file that this call *)
(* includes, seen from the file it stands in, or nowhere, once that file has  *)
(* gone (server.vala:203-232).                                                *)
THEOREM SubdirsFollowed ==
    ASSUME NEW CONSTANT depth, NEW CONSTANT rank, Layout(depth, rank)
    PROVE  Spec => []SubdirFollowed
<1>1. Answered => SubdirFollowed
  <2> SUFFICES ASSUME Answered, Asked("definition"), NEW n \in Written(call.file),
                      IsSubdir(n), Covers(n.ref, call.position),
                      NamesAt(call.file, call.position) = {}
               PROVE  LET target == Targets[call.file][n.parts[1].name]
                      IN reply.at = TopOf(target) \/ (reply.at = Nothing /\ target \notin onDisk)
    BY DEF SubdirFollowed
  <2>1. /\ text \in Texts /\ call.file \in File /\ call.file \in InTree /\ call.position \in Cursors
        /\ reply.name = NameFound(call.file, call.position)
        /\ reply.name = Nothing => Jumped(CallFound(call.file, call.position))
    BY DEF Answered, DefinitionAnswered, Asked
  <2>2. reply.name = Nothing
    BY <2>1, NameIsThere
  <2>3. /\ CallFound(call.file, call.position) # Nothing
        /\ CallFound(call.file, call.position) = <<call.file, n.parts[1].name>>
    BY <2>1, SubdirFound
  <2>4. QED
    BY <2>1, <2>2, <2>3 DEF Jumped
<1>2. QED
  BY <1>1, AlwaysAnswered, PTL

(* The symbols of a file are the variables that stand in it, its definitions  *)
(* among them, and none is listed twice, although all files of the project    *)
(* are one tree when they are asked for (server.vala:219-232).                *)
THEOREM SymbolsListed ==
    ASSUME NEW CONSTANT depth, NEW CONSTANT rank, Layout(depth, rank)
    PROVE  Spec => []SymbolsOfFile
<1>1. Answered => SymbolsOfFile
  <2> SUFFICES ASSUME Answered, Asked("documentSymbol")
               PROVE  /\ \A k \in DOMAIN reply :
                            reply[k].name = Nothing \/ \E n \in Identifiers(call.file) :
                                                          n.name = reply[k].name /\ n.ref = reply[k].ref
                      /\ \A x \in Name : \A d \in DefinedIn(call.file, x) :
                            [name |-> x, ref |-> d] \in ToSet(reply)
                      /\ IsInjective(reply)
    BY DEF SymbolsOfFile
  <2>1. text \in Texts /\ call.file \in InTree /\ reply = SymbolsFound(call.file)
    BY DEF Answered, SymbolsAnswered, Asked
  <2>2. ASSUME NEW k \in DOMAIN reply, reply[k].name # Nothing
        PROVE  \E n \in Identifiers(call.file) : n.name = reply[k].name /\ n.ref = reply[k].ref
    <3>1. reply[k] \in ToSet(SymbolsFound(call.file))
      BY <2>1 DEF ToSet
    <3>2. QED
      BY <2>1, <2>2, <3>1, SymbolWritten
  <2>3. \A x : \A d \in DefinedIn(call.file, x) : [name |-> x, ref |-> d] \in ToSet(reply)
    BY <2>1, DefinitionListed
  <2>4. IsInjective(reply)
    BY <2>1, SymbolsOnce
  <2>5. QED
    BY <2>2, <2>3, <2>4
<1>2. QED
  BY <1>1, AlwaysAnswered, PTL
=============================================================================
