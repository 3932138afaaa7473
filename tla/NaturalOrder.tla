--------------------------- MODULE NaturalOrder -----------------------------
(***************************************************************************)
(* Least and greatest elements of sets of naturals, induction, recursive   *)
(* functions: what the proofs take from the library's well-founded orders; *)
(* and what the elements of a flattened sequence are.                      *)
(***************************************************************************)
EXTENDS Integers, SequencesExt, SequenceTheorems, WellFoundedInduction, TLAPS

LessThan == {ss \in Nat \X Nat : ss[1] < ss[2]}

(* There is no infinite descent in the naturals. *)
LEMMA LessThanWF == IsWellFoundedOn(LessThan, Nat)
<1>1. LessThan = OpToRel(<, Nat)
  BY DEF LessThan, OpToRel
<1>2. QED
  BY <1>1, NatLessThanWellFounded, Zenon

(* A set of naturals has a least element. *)
LEMMA LeastNatural ==
    ASSUME NEW T \in SUBSET Nat, T # {}
    PROVE  \E x \in T : \A y \in T : x <= y
<1>1. PICK x \in T : \A y \in T : <<y, x>> \notin LessThan
  BY LessThanWF, WFMin
<1>2. \A y \in T : y < x => <<y, x>> \in LessThan
  BY DEF LessThan
<1>3. \A y \in T : ~(y < x)
  BY <1>1, <1>2
<1>4. QED
  BY <1>3

(* A set of positions of a sequence has a last element. *)
LEMMA LastPosition ==
    ASSUME NEW n \in Nat, NEW S \in SUBSET (1 .. n), S # {}
    PROVE  \E i \in S : \A j \in S : j <= i
<1> DEFINE T == {n - i : i \in S}
<1>1. T \in SUBSET Nat /\ T # {}
  <2>1. \A i \in S : i \in 1 .. n /\ n - i \in Nat
    OBVIOUS
  <2>2. QED
    BY <2>1
<1>2. PICK x \in T : \A y \in T : x <= y
  BY <1>1, LeastNatural
<1>3. PICK i \in S : x = n - i
  OBVIOUS
<1>4. \A j \in S : n - i <= n - j
  BY <1>2, <1>3
<1>5. QED
  BY <1>3, <1>4

(* Induction, for a set of naturals. *)
LEMMA InductionOnNaturals ==
    ASSUME NEW S, 0 \in S, \A n \in Nat : n \in S => n + 1 \in S
    PROVE  \A n \in Nat : n \in S
<1> SUFFICES ASSUME NEW n \in Nat, n \notin S PROVE FALSE
  OBVIOUS
<1> DEFINE T == {m \in Nat : m \notin S}
<1>1. PICK x \in T : \A y \in T : x <= y
  BY LeastNatural
<1>2. x \in Nat /\ x # 0
  OBVIOUS
<1>3. x - 1 \in Nat /\ x - 1 \notin T
  BY <1>1, <1>2
<1>4. QED
  BY <1>2, <1>3

(* Induction over the elements of a set that have a depth.                    *)
LEMMA InductionByDepth ==
    ASSUME NEW T, NEW depth \in [T -> Nat], NEW S,
           \A t \in T : (\A u \in T : depth[u] < depth[t] => u \in S) => t \in S
    PROVE  T \subseteq S
<1> SUFFICES ASSUME NEW t0 \in T, t0 \notin S PROVE FALSE
  OBVIOUS
<1> DEFINE Depths == {depth[t] : t \in {u \in T : u \notin S}}
<1>1. Depths \in SUBSET Nat /\ Depths # {}
  OBVIOUS
<1>2. PICK d \in Depths : \A e \in Depths : d <= e
  BY <1>1, LeastNatural
<1>3. PICK t \in T : t \notin S /\ depth[t] = d
  OBVIOUS
<1>4. ASSUME NEW u \in T, depth[u] < depth[t], u \notin S
      PROVE  FALSE
  <2>1. depth[u] \in Depths
    BY <1>4
  <2>2. depth[u] \in Nat /\ depth[t] \in Nat /\ d <= depth[u]
    BY <1>2, <2>1
  <2>3. QED
    BY <1>3, <1>4, <2>2
<1>5. QED
  BY <1>3, <1>4

(* Going from t to next[t] one comes to where one stops.                      *)
Descends(T, Stop, next, n, depth) ==
    /\ n \in Nat /\ depth \in [T -> 0 .. n]
    /\ Stop \in SUBSET T /\ next \in [T -> T]
    /\ \A t \in T \ Stop : depth[next[t]] < depth[t]

(* f is base where one stops and, elsewhere, what g makes of f a step further.*)
Solves(f, T, Stop, base, next, g) ==
    f = [t \in T |-> IF t \in Stop THEN base[t] ELSE g[<<t, f[next[t]]>>]]

(* Such a function exists.                                                    *)
LEMMA RecursionDown ==
    ASSUME NEW T, NEW V, NEW Stop, NEW base \in [T -> V], NEW next,
           NEW g \in [T \X V -> V], NEW n, NEW depth, Descends(T, Stop, next, n, depth)
    PROVE  \E f \in [T -> V] : Solves(f, T, Stop, base, next, g)
<1> USE DEF Descends, Solves
<1> DEFINE Value(f, t) == IF t \in Stop THEN base[t] ELSE g[<<t, f[next[t]]>>]
           Upto(f, k) == \A t \in T : depth[t] < k => f[t] = Value(f, t)
           S == {k \in Nat : \E f \in [T -> V] : Upto(f, k)}
<1>1. 0 \in S
  <2>1. Upto(base, 0)
    OBVIOUS
  <2>2. QED
    BY <2>1
<1>2. ASSUME NEW k \in Nat, k \in S
      PROVE  k + 1 \in S
  <2>1. PICK f \in [T -> V] : Upto(f, k)
    BY <1>2
  <2> DEFINE h == [t \in T |-> Value(f, t)]
  <2>2. h \in [T -> V]
    <3>1. \A t \in T : Value(f, t) \in V
      OBVIOUS
    <3>2. QED
      BY <3>1
  <2>3. \A t \in T : depth[t] < k => h[t] = f[t]
    BY <2>1
  <2>4. ASSUME NEW t \in T, depth[t] < k + 1
        PROVE  h[t] = Value(h, t)
    <3>1. CASE t \in Stop
      BY <3>1
    <3>2. CASE t \notin Stop
      <4>1. next[t] \in T /\ depth[next[t]] < depth[t]
        BY <3>2
      <4>2. depth[next[t]] < k
        BY <2>4, <4>1
      <4>3. h[next[t]] = f[next[t]]
        BY <2>3, <4>1, <4>2
      <4>4. QED
        BY <3>2, <4>3
    <3>3. QED
      BY <3>1, <3>2
  <2>5. Upto(h, k + 1)
    BY <2>4
  <2> HIDE DEF h
  <2>6. QED
    BY <2>2, <2>5
<1>3. n + 1 \in S
  <2>1. \A k \in Nat : k \in S => k + 1 \in S
    BY <1>2
  <2> HIDE DEF S
  <2>2. \A k \in Nat : k \in S
    BY <1>1, <2>1, InductionOnNaturals
  <2>3. QED
    BY <2>2
<1>4. PICK f \in [T -> V] : Upto(f, n + 1)
  BY <1>3
<1>5. \A t \in T : f[t] = Value(f, t)
  BY <1>4
<1>6. f = [t \in T |-> Value(f, t)]
  BY <1>5
<1>7. QED
  BY <1>6

(* g[t] makes a value of a function, but looks only at elements less deep.    *)
Local(T, V, depth, g) ==
    /\ depth \in [T -> Nat] /\ g \in [T -> [[T -> V] -> V]]
    /\ \A t \in T : \A f, h \in [T -> V] :
          (\A u \in T : depth[u] < depth[t] => f[u] = h[u]) => g[t][f] = g[t][h]

(* Then a function exists whose values g makes of the function itself.        *)
LEMMA RecursionByDepth ==
    ASSUME NEW T, NEW V, V # {}, NEW depth, NEW g, Local(T, V, depth, g)
    PROVE  \E f \in [T -> V] : \A t \in T : f[t] = g[t][f]
<1> DEFINE Upto(f, k) == \A t \in T : depth[t] < k => f[t] = g[t][f]
           S == {k \in Nat : \E f \in [T -> V] : Upto(f, k)}
<1>1. /\ depth \in [T -> Nat] /\ \A t \in T : \A f \in [T -> V] : g[t][f] \in V
      /\ \A t \in T : \A f, h \in [T -> V] :
            (\A u \in T : depth[u] < depth[t] => f[u] = h[u]) => g[t][f] = g[t][h]
  BY DEF Local
<1>2. 0 \in S
  <2>1. PICK v \in V : TRUE
    OBVIOUS
  <2>2. [t \in T |-> v] \in [T -> V]
    OBVIOUS
  <2>3. Upto([t \in T |-> v], 0)
    BY <1>1
  <2>4. QED
    BY <2>2, <2>3
<1>3. ASSUME NEW k \in Nat, k \in S PROVE k + 1 \in S
  <2>1. PICK f \in [T -> V] : Upto(f, k)
    BY <1>3
  <2> DEFINE h == [t \in T |-> g[t][f]]
  <2>2. h \in [T -> V]
    BY <1>1
  <2>3. \A t \in T : h[t] = g[t][f]
    OBVIOUS
  <2> HIDE DEF h
  <2>4. ASSUME NEW t \in T, depth[t] < k + 1 PROVE h[t] = g[t][h]
    <3>1. \A u \in T : depth[u] < depth[t] => depth[u] < k
      BY <1>1, <2>4
    <3>2. \A u \in T : depth[u] < depth[t] => f[u] = h[u]
      BY <2>1, <2>3, <3>1
    <3>3. g[t][f] = g[t][h]
      BY <1>1, <2>2, <3>2
    <3>4. QED
      BY <2>3, <3>3
  <2>5. Upto(h, k + 1)
    BY <2>4
  <2>6. k + 1 \in Nat
    OBVIOUS
  <2> HIDE DEF Upto
  <2>7. QED
    BY <2>2, <2>5, <2>6
<1>4. \A k \in Nat : k \in S
  <2> HIDE DEF S
  <2>1. QED
    BY <1>2, <1>3, InductionOnNaturals
<1>5. ASSUME NEW k \in Nat, NEW m \in Nat, NEW f \in [T -> V], NEW h \in [T -> V],
             Upto(f, k), Upto(h, m)
      PROVE  \A t \in T : depth[t] < k /\ depth[t] < m => f[t] = h[t]
  <2> DEFINE A == {t \in T : depth[t] < k /\ depth[t] < m => f[t] = h[t]}
  <2>1. ASSUME NEW t \in T, \A u \in T : depth[u] < depth[t] => u \in A PROVE t \in A
    <3>1. SUFFICES ASSUME depth[t] < k, depth[t] < m PROVE f[t] = h[t]
      OBVIOUS
    <3>2. \A u \in T : depth[u] < depth[t] => depth[u] < k /\ depth[u] < m
      BY <1>1, <3>1
    <3>3. \A u \in T : depth[u] < depth[t] => f[u] = h[u]
      BY <2>1, <3>2
    <3>4. g[t][f] = g[t][h]
      BY <1>1, <3>3
    <3>5. f[t] = g[t][f] /\ h[t] = g[t][h]
      BY <1>5, <3>1
    <3>6. QED
      BY <3>4, <3>5
  <2>2. T \subseteq A
    <3> HIDE DEF A
    <3>1. QED
      BY <1>1, <2>1, InductionByDepth
  <2>3. QED
    BY <2>2
<1> DEFINE F(k) == CHOOSE f \in [T -> V] : Upto(f, k)
           f0 == [t \in T |-> F(depth[t] + 1)[t]]
<1>6. ASSUME NEW k \in Nat PROVE F(k) \in [T -> V] /\ Upto(F(k), k)
  <2>1. \E f \in [T -> V] : Upto(f, k)
    BY <1>4
  <2> HIDE DEF Upto
  <2>2. QED
    BY <2>1
<1>7. \A t \in T : depth[t] \in Nat /\ depth[t] + 1 \in Nat
  BY <1>1
<1> HIDE DEF F
<1>8. \A t \in T : f0[t] = F(depth[t] + 1)[t]
  OBVIOUS
<1>9. f0 \in [T -> V]
  <2>1. \A t \in T : F(depth[t] + 1)[t] \in V
    BY <1>6, <1>7
  <2>2. QED
    BY <2>1
<1> HIDE DEF f0
<1>10. ASSUME NEW t \in T PROVE f0[t] = g[t][f0]
  <2> DEFINE h == F(depth[t] + 1)
  <2>1. h \in [T -> V] /\ Upto(h, depth[t] + 1)
    BY <1>6, <1>7
  <2>2. ASSUME NEW u \in T, depth[u] < depth[t] PROVE f0[u] = h[u]
    <3>1. F(depth[u] + 1) \in [T -> V] /\ Upto(F(depth[u] + 1), depth[u] + 1)
      BY <1>6, <1>7
    <3>2. depth[u] < depth[u] + 1 /\ depth[u] < depth[t] + 1
      BY <1>7, <2>2
    <3> HIDE DEF Upto, h
    <3>3. F(depth[u] + 1)[u] = h[u]
      BY <1>5, <1>7, <2>1, <3>1, <3>2
    <3>4. QED
      BY <1>8, <3>3
  <2>3. g[t][f0] = g[t][h]
    <3> HIDE DEF h
    <3>1. QED
      BY <1>1, <1>9, <2>1, <2>2
  <2>4. h[t] = g[t][h]
    <3>1. depth[t] < depth[t] + 1
      BY <1>7
    <3> HIDE DEF h
    <3>2. QED
      BY <2>1, <3>1
  <2>5. f0[t] = h[t]
    BY <1>8
  <2>6. QED
    BY <2>3, <2>4, <2>5
<1>11. QED
  BY <1>9, <1>10
-----------------------------------------------------------------------------
(* Flattening sequences. *)

(* f[i] is what the first i sequences of ss come to. *)
Flatten(f, ss) == f = [i \in 1 .. Len(ss) |-> IF i = 1 THEN ss[i] ELSE f[i - 1] \o ss[i]]

Flattens(f, ss, V) == f \in [1 .. Len(ss) -> Seq(V)] /\ Flatten(f, ss)

LEMMA FlattenStep ==
    ASSUME NEW ss, NEW f, Flatten(f, ss)
    PROVE  /\ DOMAIN f = 1 .. Len(ss)
           /\ \A i \in 1 .. Len(ss) : f[i] = IF i = 1 THEN ss[i] ELSE f[i - 1] \o ss[i]
<1> DEFINE e(i) == IF i = 1 THEN ss[i] ELSE f[i - 1] \o ss[i]
<1>1. f = [i \in 1 .. Len(ss) |-> e(i)]
  BY DEF Flatten
<1> HIDE DEF e
<1>2. DOMAIN f = 1 .. Len(ss) /\ \A i \in 1 .. Len(ss) : f[i] = e(i)
  BY <1>1, Zenon
<1>3. QED
  BY <1>2, Zenon DEF e

(* There is one. *)
LEMMA FlattenExists ==
    ASSUME NEW V, NEW ss \in Seq(Seq(V))
    PROVE  \E f : Flattens(f, ss, V)
<1> DEFINE T == 1 .. Len(ss)
           base == [i \in T |-> ss[i]]
           next == [i \in T |-> IF i = 1 THEN 1 ELSE i - 1]
           g == [x \in T \X Seq(V) |-> x[2] \o ss[x[1]]]
           depth == [i \in T |-> i]
           n == Len(ss)
           Stop == {1} \cap T
<1>1. base \in [T -> Seq(V)]
  OBVIOUS
<1>2. g \in [T \X Seq(V) -> Seq(V)]
  <2>1. \A x \in T \X Seq(V) : x[2] \in Seq(V) /\ ss[x[1]] \in Seq(V)
    OBVIOUS
  <2>2. \A x \in T \X Seq(V) : x[2] \o ss[x[1]] \in Seq(V)
    BY <2>1, ConcatProperties
  <2>3. QED
    BY <2>2
<1>3. Descends(T, Stop, next, n, depth)
  BY DEF Descends
<1>4. PICK f \in [T -> Seq(V)] : Solves(f, T, Stop, base, next, g)
  BY <1>1, <1>2, <1>3, RecursionDown
<1>5. \A i \in T : f[i] = IF i = 1 THEN ss[i] ELSE f[i - 1] \o ss[i]
  <2>1. SUFFICES ASSUME NEW i \in T PROVE f[i] = IF i = 1 THEN ss[i] ELSE f[i - 1] \o ss[i]
    OBVIOUS
  <2>2. f[i] = IF i \in Stop THEN base[i] ELSE g[<<i, f[next[i]]>>]
    <3> HIDE DEF T, base, next, g, Stop
    <3>1. QED
      BY <1>4 DEF Solves
  <2>3. CASE i = 1
    BY <2>2, <2>3
  <2>4. CASE i # 1
    <3>1. i - 1 \in T
      BY <2>1, <2>4
    <3>4. f[i - 1] \in Seq(V) /\ next[i] = i - 1 /\ i \notin Stop
      <4> HIDE DEF T
      <4>1. QED
        BY <2>1, <2>4, <3>1
    <3>2. g[<<i, f[i - 1]>>] = f[i - 1] \o ss[i]
      BY <2>1, <3>4
    <3>3. QED
      BY <2>2, <2>4, <3>2, <3>4
  <2>5. QED
    BY <2>3, <2>4
<1>6. f = [i \in T |-> IF i = 1 THEN ss[i] ELSE f[i - 1] \o ss[i]]
  <2> DEFINE e(i) == IF i = 1 THEN ss[i] ELSE f[i - 1] \o ss[i]
  <2>1. \A i \in T : f[i] = e(i)
    BY <1>5
  <2> HIDE DEF e, T
  <2>2. f = [i \in T |-> e(i)]
    BY <2>1
  <2>3. QED
    BY <2>2 DEF e
<1>7. QED
  BY <1>6 DEF Flattens, Flatten

(* There is only one. *)
LEMMA FlattenUnique ==
    ASSUME NEW V, NEW ss \in Seq(Seq(V)), NEW f, Flattens(f, ss, V),
           NEW h, Flatten(h, ss)
    PROVE  h = f
<1> DEFINE T == 1 .. Len(ss)
           S == {m \in Nat : m \in T => h[m] = f[m]}
<1>1. 0 \in S
  OBVIOUS
<1>2. \A i \in T : h[i] = IF i = 1 THEN ss[i] ELSE h[i - 1] \o ss[i]
  BY FlattenStep
<1>3. \A i \in T : f[i] = IF i = 1 THEN ss[i] ELSE f[i - 1] \o ss[i]
  BY FlattenStep DEF Flattens
<1>4. ASSUME NEW m \in Nat, m \in S PROVE m + 1 \in S
  <2>1. SUFFICES ASSUME NEW i \in T, i = m + 1 PROVE h[i] = f[i]
    OBVIOUS
  <2>2. i = 1 \/ h[i - 1] = f[i - 1]
    BY <1>4, <2>1
  <2>3. QED
    BY <1>2, <1>3, <2>2, Zenon
<1>5. \A m \in Nat : m \in S
  <2> HIDE DEF S
  <2>1. QED
    BY <1>1, <1>4, InductionOnNaturals
<1>6. \A i \in T : i \in Nat
  OBVIOUS
<1>7. \A i \in T : h[i] = f[i]
  BY <1>5, <1>6
<1>8. h = [i \in T |-> h[i]] /\ f = [i \in T |-> f[i]]
  BY DEF Flattens, Flatten
<1> HIDE DEF T
<1>9. QED
  BY <1>7, <1>8

LEMMA FlattenLast ==
    ASSUME NEW V, NEW ss \in Seq(Seq(V)), ss # <<>>, NEW f, Flattens(f, ss, V)
    PROVE  FlattenSeq(ss) = f[Len(ss)]
<1> DEFINE F == CHOOSE h : Flatten(h, ss)
<1>1. Flatten(F, ss)
  BY DEF Flattens
<1>2. FlattenSeq(ss) = F[Len(ss)]
  BY DEF FlattenSeq, Flatten
<1> HIDE DEF F
<1>3. F = f
  BY <1>1, FlattenUnique
<1>4. QED
  BY <1>2, <1>3

(* Flattening one sequence more. *)
LEMMA FlattenAppend ==
    ASSUME NEW V, NEW ss \in Seq(Seq(V)), NEW x \in Seq(V)
    PROVE  FlattenSeq(Append(ss, x)) = FlattenSeq(ss) \o x
<1> DEFINE n == Len(ss)
           tt == Append(ss, x)
<1>1. PICK f : Flattens(f, ss, V)
  BY FlattenExists
<1>2. PICK h : Flattens(h, tt, V)
  <2>1. tt \in Seq(Seq(V))
    OBVIOUS
  <2> HIDE DEF tt
  <2>2. QED
    BY <2>1, FlattenExists
<1>3. /\ n \in Nat /\ tt \in Seq(Seq(V)) /\ tt # <<>> /\ Len(tt) = n + 1
      /\ tt[n + 1] = x /\ \A i \in 1 .. n : tt[i] = ss[i]
  BY AppendProperties
<1> HIDE DEF tt
<1>4. /\ DOMAIN h = 1 .. n + 1
      /\ \A i \in 1 .. n + 1 : h[i] = IF i = 1 THEN tt[i] ELSE h[i - 1] \o tt[i]
  <2>1. /\ DOMAIN h = 1 .. Len(tt)
        /\ \A i \in 1 .. Len(tt) : h[i] = IF i = 1 THEN tt[i] ELSE h[i - 1] \o tt[i]
    BY <1>2, FlattenStep DEF Flattens
  <2>2. Len(tt) = n + 1
    BY <1>3
  <2> HIDE DEF n
  <2>3. QED
    BY <2>1, <2>2, Zenon
<1>5. FlattenSeq(tt) = h[n + 1]
  BY <1>2, <1>3, FlattenLast
<1>6. CASE ss = <<>>
  <2>1. FlattenSeq(ss) = <<>>
    BY <1>6 DEF FlattenSeq
  <2>2. n = 0
    BY <1>6
  <2>3. h[n + 1] = x
    BY <1>3, <1>4, <2>2
  <2>4. QED
    BY <1>5, <2>1, <2>3, ConcatEmptySeq DEF tt
<1>7. CASE ss # <<>>
  <2> DEFINE k == [i \in 1 .. n |-> h[i]]
             e(i) == IF i = 1 THEN ss[i] ELSE k[i - 1] \o ss[i]
  <2>1. n \in 1 .. n
    BY <1>7
  <2>2. ASSUME NEW i \in 1 .. n PROVE k[i] = e(i)
    <3>1. i \in 1 .. n + 1 /\ tt[i] = ss[i] /\ k[i] = h[i]
      BY <1>3
    <3>2. i # 1 => i - 1 \in 1 .. n
      OBVIOUS
    <3>3. i # 1 => k[i - 1] = h[i - 1]
      BY <3>2
    <3>4. QED
      BY <1>4, <3>1, <3>3, Zenon
  <2>3. k = [i \in 1 .. n |-> k[i]]
    OBVIOUS
  <2> HIDE DEF e
  <2>4. k = [i \in 1 .. n |-> e(i)]
    <3> HIDE DEF k, n
    <3>1. QED
      BY <2>2, <2>3
  <2>5. Flatten(k, ss)
    BY <2>4 DEF e, Flatten
  <2>6. k[n] = h[n]
    BY <2>1
  <2> HIDE DEF k
  <2>7. k = f
    BY <1>1, <2>5, FlattenUnique
  <2>8. FlattenSeq(ss) = f[n]
    BY <1>1, <1>7, FlattenLast
  <2>9. h[n + 1] = h[n] \o x
    <3> DEFINE m == n + 1
    <3>1. m \in 1 .. n + 1 /\ m # 1 /\ m - 1 = n /\ tt[m] = x
      BY <1>3, <2>1
    <3> HIDE DEF m, n
    <3>2. h[m] = h[m - 1] \o tt[m]
      BY <1>4, <3>1, Zenon
    <3>3. h[m] = h[n] \o x
      BY <3>1, <3>2, Zenon
    <3>4. QED
      BY <3>3 DEF m
  <2>10. QED
    BY <1>5, <2>6, <2>7, <2>8, <2>9 DEF tt
<1>8. QED
  BY <1>6, <1>7

LEMMA FlattenType ==
    ASSUME NEW V, NEW ss \in Seq(Seq(V))
    PROVE  FlattenSeq(ss) \in Seq(V) /\ FlattenSeq(<<>>) = <<>>
<1>1. CASE ss = <<>>
  BY <1>1 DEF FlattenSeq
<1>2. CASE ss # <<>>
  <2>1. PICK f : Flattens(f, ss, V)
    BY FlattenExists
  <2>2. f[Len(ss)] \in Seq(V)
    <3>1. Len(ss) \in 1 .. Len(ss)
      BY <1>2
    <3>2. f \in [1 .. Len(ss) -> Seq(V)]
      BY <2>1 DEF Flattens
    <3>3. QED
      BY <3>1, <3>2, Zenon
  <2>3. QED
    BY <1>2, <2>1, <2>2, FlattenLast, ZenonT(40) DEF FlattenSeq
<1>3. QED
  BY <1>1, <1>2

(* Flattening two sequences of sequences. *)
LEMMA FlattenConcat ==
    ASSUME NEW V, NEW ss \in Seq(Seq(V)), NEW tt \in Seq(Seq(V))
    PROVE  FlattenSeq(ss \o tt) = FlattenSeq(ss) \o FlattenSeq(tt)
<1> DEFINE P(t) == FlattenSeq(ss \o t) = FlattenSeq(ss) \o FlattenSeq(t)
           S == {m \in Nat : \A t \in Seq(Seq(V)) : Len(t) = m => P(t)}
<1>1. 0 \in S
  <2>1. SUFFICES ASSUME NEW t \in Seq(Seq(V)), Len(t) = 0 PROVE P(t)
    OBVIOUS
  <2>2. t = <<>>
    BY <2>1
  <2>3. ss \o <<>> = ss /\ FlattenSeq(ss) \o <<>> = FlattenSeq(ss)
    BY FlattenType, ConcatEmptySeq
  <2>4. QED
    BY <2>2, <2>3, FlattenType
<1>2. ASSUME NEW m \in Nat, m \in S PROVE m + 1 \in S
  <2>1. SUFFICES ASSUME NEW t \in Seq(Seq(V)), Len(t) = m + 1 PROVE P(t)
    OBVIOUS
  <2>2. PICK u \in Seq(Seq(V)), x \in Seq(V) : t = Append(u, x)
    <3>1. t # <<>>
      BY <2>1
    <3>2. QED
      BY <3>1, SequenceEmptyOrAppend
  <2>3. P(u)
    <3>1. Len(u) = m
      BY <2>1, <2>2
    <3>2. QED
      BY <1>2, <3>1
  <2>4. ss \o t = Append(ss \o u, x)
    <3>1. ss \o t \in Seq(Seq(V)) /\ ss \o u \in Seq(Seq(V))
      BY ConcatProperties
    <3>2. t = u \o <<x>> /\ Append(ss \o u, x) = (ss \o u) \o <<x>>
      BY <2>2, <3>1, AppendIsConcat
    <3>3. <<x>> \in Seq(Seq(V))
      OBVIOUS
    <3>4. QED
      BY <3>2, <3>3, ConcatAssociative
  <2>5. FlattenSeq(ss \o t) = FlattenSeq(ss \o u) \o x
    <3>1. ss \o u \in Seq(Seq(V))
      BY ConcatProperties
    <3>2. QED
      BY <2>4, <3>1, FlattenAppend
  <2>6. FlattenSeq(t) = FlattenSeq(u) \o x
    BY <2>2, FlattenAppend
  <2>7. QED
    <3>1. FlattenSeq(ss) \in Seq(V) /\ FlattenSeq(u) \in Seq(V)
      BY FlattenType
    <3>2. (FlattenSeq(ss) \o FlattenSeq(u)) \o x = FlattenSeq(ss) \o (FlattenSeq(u) \o x)
      BY <3>1, ConcatAssociative, SMTT(30)
    <3>3. QED
      BY <2>3, <2>5, <2>6, <3>2
<1>3. \A m \in Nat : m \in S
  <2> HIDE DEF S
  <2>1. QED
    BY <1>1, <1>2, InductionOnNaturals
<1>4. Len(tt) \in Nat
  OBVIOUS
<1>5. QED
  BY <1>3, <1>4

LEMMA ElementsOf ==
    ASSUME NEW V, NEW w \in Seq(V)
    PROVE  \A x : x \in ToSet(w) <=> \E k \in 1 .. Len(w) : x = w[k]
  BY DEF ToSet

LEMMA ElementsConcat ==
    ASSUME NEW V, NEW v \in Seq(V), NEW w \in Seq(V)
    PROVE  ToSet(v \o w) = ToSet(v) \union ToSet(w)
<1>1. v \o w \in Seq(V) /\ Len(v \o w) = Len(v) + Len(w)
  BY ConcatProperties
<1>2. \A i \in 1 .. Len(v) + Len(w) : (v \o w)[i] = IF i <= Len(v) THEN v[i] ELSE w[i - Len(v)]
  BY ConcatProperties
<1>3. Len(v) \in Nat /\ Len(w) \in Nat
  OBVIOUS
<1> DEFINE c == v \o w
<1>4. c \in Seq(V) /\ Len(c) = Len(v) + Len(w)
      /\ \A i \in 1 .. Len(v) + Len(w) : c[i] = IF i <= Len(v) THEN v[i] ELSE w[i - Len(v)]
  BY <1>1, <1>2
<1> HIDE DEF c
<1>5. ASSUME NEW x \in ToSet(c) PROVE x \in ToSet(v) \union ToSet(w)
  <2>1. PICK k \in 1 .. Len(c) : x = c[k]
    BY <1>4, ElementsOf
  <2>2. CASE k <= Len(v)
    <3>1. k \in 1 .. Len(v) /\ x = v[k]
      BY <1>3, <1>4, <2>1, <2>2
    <3>2. QED
      BY <3>1, ElementsOf
  <2>3. CASE ~(k <= Len(v))
    <3>1. k - Len(v) \in 1 .. Len(w) /\ x = w[k - Len(v)]
      BY <1>3, <1>4, <2>1, <2>3
    <3>2. QED
      BY <3>1, ElementsOf
  <2>4. QED
    BY <2>2, <2>3
<1>6. ASSUME NEW x \in ToSet(v) PROVE x \in ToSet(c)
  <2>1. PICK k \in 1 .. Len(v) : x = v[k]
    BY ElementsOf
  <2>2. k \in 1 .. Len(c) /\ x = c[k]
    BY <1>3, <1>4, <2>1
  <2>3. QED
    BY <1>4, <2>2, ElementsOf
<1>7. ASSUME NEW x \in ToSet(w) PROVE x \in ToSet(c)
  <2>1. PICK k \in 1 .. Len(w) : x = w[k]
    BY ElementsOf
  <2>2. /\ Len(v) + k \in 1 .. Len(c) /\ Len(v) + k - Len(v) = k /\ ~(Len(v) + k <= Len(v))
    BY <1>3, <1>4, <2>1
  <2>3. x = c[Len(v) + k]
    BY <1>4, <2>1, <2>2
  <2>4. QED
    BY <1>4, <2>2, <2>3, ElementsOf
<1>8. QED
  BY <1>5, <1>6, <1>7 DEF c

(* The elements of a flattened sequence are those of the sequences in it.     *)
LEMMA ElementsFlatten ==
    ASSUME NEW V, NEW ss \in Seq(Seq(V))
    PROVE  \A x : x \in ToSet(FlattenSeq(ss)) <=> \E k \in 1 .. Len(ss) : x \in ToSet(ss[k])
<1> DEFINE P(t) == \A x : x \in ToSet(FlattenSeq(t)) <=> \E k \in 1 .. Len(t) : x \in ToSet(t[k])
           S == {m \in Nat : \A t \in Seq(Seq(V)) : Len(t) = m => P(t)}
<1>1. 0 \in S
  <2>1. SUFFICES ASSUME NEW t \in Seq(Seq(V)), Len(t) = 0 PROVE P(t)
    OBVIOUS
  <2>2. t = <<>>
    BY <2>1
  <2>3. FlattenSeq(t) = <<>>
    BY <2>2, FlattenType
  <2>4. ToSet(<<>>) = {}
    BY DEF ToSet
  <2>5. QED
    BY <2>1, <2>3, <2>4
<1>2. ASSUME NEW m \in Nat, m \in S PROVE m + 1 \in S
  <2>1. SUFFICES ASSUME NEW t \in Seq(Seq(V)), Len(t) = m + 1 PROVE P(t)
    OBVIOUS
  <2>2. PICK u \in Seq(Seq(V)), y \in Seq(V) : t = Append(u, y)
    <3>1. t # <<>>
      BY <2>1
    <3>2. QED
      BY <3>1, SequenceEmptyOrAppend
  <2>3. /\ Len(u) = m /\ t[m + 1] = y /\ \A i \in 1 .. m : t[i] = u[i]
    BY <2>1, <2>2
  <2>4. P(u)
    BY <1>2, <2>3
  <2>5. FlattenSeq(t) = FlattenSeq(u) \o y /\ FlattenSeq(u) \in Seq(V)
    BY <2>2, FlattenAppend, FlattenType
  <2>6. ToSet(FlattenSeq(t)) = ToSet(FlattenSeq(u)) \union ToSet(y)
    BY <2>5, ElementsConcat
  <2>7. ASSUME NEW x PROVE x \in ToSet(FlattenSeq(t)) <=> \E k \in 1 .. Len(t) : x \in ToSet(t[k])
    <3>1. x \in ToSet(FlattenSeq(t)) <=> (\E k \in 1 .. m : x \in ToSet(u[k])) \/ x \in ToSet(y)
      BY <2>3, <2>4, <2>6
    <3>2. (\E k \in 1 .. m : x \in ToSet(u[k])) <=> (\E k \in 1 .. m : x \in ToSet(t[k]))
      BY <2>3
    <3>3. 1 .. Len(t) = (1 .. m) \union {m + 1}
      BY <2>1
    <3>4. QED
      BY <2>3, <3>1, <3>2, <3>3
  <2>8. QED
    BY <2>7
<1>3. \A m \in Nat : m \in S
  <2> HIDE DEF S
  <2>1. QED
    BY <1>1, <1>2, InductionOnNaturals
<1>4. Len(ss) \in Nat
  OBVIOUS
<1>5. QED
  BY <1>3, <1>4

(* Sequences without repetitions one after the other.                         *)
LEMMA InjectiveConcat ==
    ASSUME NEW V, NEW v \in Seq(V), NEW w \in Seq(V), IsInjective(v), IsInjective(w),
           \A x \in ToSet(v) : x \notin ToSet(w)
    PROVE  IsInjective(v \o w)
<1> DEFINE c == v \o w
           l == Len(v)
           m == Len(w)
<1>1. /\ c \in Seq(V) /\ Len(c) = l + m /\ l \in Nat /\ m \in Nat
      /\ \A i \in 1 .. l + m : c[i] = IF i <= l THEN v[i] ELSE w[i - l]
  BY ConcatProperties
<1>2. DOMAIN v = 1 .. l /\ DOMAIN w = 1 .. m
  OBVIOUS
<1>3. /\ \A i, j \in 1 .. l : v[i] = v[j] => i = j
      /\ \A i, j \in 1 .. m : w[i] = w[j] => i = j
      /\ \A i \in 1 .. l, j \in 1 .. m : v[i] # w[j]
  BY <1>2 DEF IsInjective, ToSet
<1> HIDE DEF c, l, m
<1>4. DOMAIN c = 1 .. l + m
  BY <1>1
<1>5. ASSUME NEW i \in 1 .. l + m, NEW j \in 1 .. l + m, c[i] = c[j] PROVE i = j
  <2>1. CASE i <= l /\ j <= l
    BY <1>1, <1>3, <1>5, <2>1
  <2>2. CASE i <= l /\ ~(j <= l)
    <3>1. i \in 1 .. l /\ j - l \in 1 .. m /\ c[i] = v[i] /\ c[j] = w[j - l]
      BY <1>1, <2>2
    <3>2. QED
      BY <1>3, <1>5, <3>1
  <2>3. CASE ~(i <= l) /\ j <= l
    <3>1. j \in 1 .. l /\ i - l \in 1 .. m /\ c[j] = v[j] /\ c[i] = w[i - l]
      BY <1>1, <2>3
    <3>2. QED
      BY <1>3, <1>5, <3>1
  <2>4. CASE ~(i <= l) /\ ~(j <= l)
    <3>1. j - l \in 1 .. m /\ i - l \in 1 .. m /\ c[j] = w[j - l] /\ c[i] = w[i - l]
      BY <1>1, <2>4
    <3>2. i - l = j - l
      BY <1>3, <1>5, <3>1
    <3>3. QED
      BY <1>1, <3>2
  <2>5. QED
    BY <2>1, <2>2, <2>3, <2>4
<1>6. QED
  BY <1>4, <1>5 DEF IsInjective, c

(* Flattened sequences without repetitions, in themselves or in each other.   *)
Dissimilar(ss, n) ==
    /\ \A k \in 1 .. n : IsInjective(ss[k])
    /\ \A i, j \in 1 .. n : i # j => \A x \in ToSet(ss[i]) : x \notin ToSet(ss[j])

LEMMA InjectiveFlatten ==
    ASSUME NEW V, NEW ss \in Seq(Seq(V)), Dissimilar(ss, Len(ss))
    PROVE  IsInjective(FlattenSeq(ss))
<1> DEFINE S == {m \in Nat : \A t \in Seq(Seq(V)) :
                   Len(t) = m /\ Dissimilar(t, m) => IsInjective(FlattenSeq(t))}
<1>1. 0 \in S
  <2>1. SUFFICES ASSUME NEW t \in Seq(Seq(V)), Len(t) = 0 PROVE IsInjective(FlattenSeq(t))
    OBVIOUS
  <2>2. t = <<>>
    BY <2>1
  <2>3. FlattenSeq(t) = <<>>
    BY <2>2, FlattenType
  <2>4. QED
    BY <2>3 DEF IsInjective
<1>2. ASSUME NEW m \in Nat, m \in S PROVE m + 1 \in S
  <2>1. SUFFICES ASSUME NEW t \in Seq(Seq(V)), Len(t) = m + 1, Dissimilar(t, m + 1)
                 PROVE  IsInjective(FlattenSeq(t))
    OBVIOUS
  <2>2. PICK u \in Seq(Seq(V)), y \in Seq(V) : t = Append(u, y)
    <3>1. t # <<>>
      BY <2>1
    <3>2. QED
      BY <3>1, SequenceEmptyOrAppend
  <2>3. /\ Len(u) = m /\ t[m + 1] = y /\ \A i \in 1 .. m : t[i] = u[i]
    BY <2>1, <2>2
  <2>4. /\ \A i \in 1 .. m : i \in 1 .. m + 1 /\ i # m + 1
        /\ m + 1 \in 1 .. m + 1
    OBVIOUS
  <2>5. Dissimilar(u, m)
    BY <2>1, <2>3, <2>4 DEF Dissimilar
  <2>6. IsInjective(y) /\ \A i \in 1 .. m : \A x \in ToSet(u[i]) : x \notin ToSet(y)
    BY <2>1, <2>3, <2>4 DEF Dissimilar
  <2>7. FlattenSeq(t) = FlattenSeq(u) \o y /\ FlattenSeq(u) \in Seq(V)
    BY <2>2, FlattenAppend, FlattenType
  <2>8. \A x \in ToSet(FlattenSeq(u)) : x \notin ToSet(y)
    BY <2>3, <2>6, ElementsFlatten
  <2>9. IsInjective(FlattenSeq(u))
    BY <1>2, <2>3, <2>5
  <2>10. QED
    BY <2>6, <2>7, <2>8, <2>9, InjectiveConcat
<1>3. \A m \in Nat : m \in S
  <2> HIDE DEF S
  <2>1. QED
    BY <1>1, <1>2, InductionOnNaturals
<1>4. Len(ss) \in Nat
  OBVIOUS
<1>5. QED
  BY <1>3, <1>4
=============================================================================
