----------------------------- MODULE MergeProofs ----------------------------
(***************************************************************************)
(* Theorem about Merge and MergeCorrect, for every project that merge()    *)
(* comes to no tree twice in: the merged file is the program in order.     *)
(*                                                                         *)
(* What keeps the lists apart that the loops of merge() extend are their   *)
(* names: all that a statement leads to is below it, and what is below one *)
(* statement of a list is not below another.                               *)
(***************************************************************************)
EXTENDS MergeCorrect, SymbolTreeProofs

(* The merged lists.  Which lists a statement of a list leads to: those in    *)
(* its blocks, and all those of the trees that are found by one of its names. *)
Extends(u, v) == Len(u) >= Len(v) /\ \A i \in 1 .. Len(v) : u[i] = v[i]

Inside(l, k) == {m \in Places : m.path = l.path /\ Extends(m.at, Append(l.at, k))}
Away(names, l, s) == {m \in Places : \E a \in names[s] : Extends(m.path, Append(l.path, a))}
Below(names, l, k) == Inside(l, k) \union Away(names, l, l.text[k])

(* And those that a list does, itself among them. *)
Area(names, l) ==
    {m \in Places : m.path = l.path /\ Extends(m.at, l.at)}
    \union UNION {Away(names, l, l.text[k]) : k \in DOMAIN l.text}

LEMMA PlaceFields ==
    ASSUME NEW l \in Places
    PROVE  /\ l.path \in Seq(Arg) /\ l.dir \in Dir /\ l.at \in Seq(Nat) /\ l.text \in Seq(Stmt)
           /\ Len(l.path) \in Nat /\ Len(l.at) \in Nat /\ Len(l.text) \in Nat
           /\ DOMAIN l.text = 1 .. Len(l.text)
           /\ \A k \in DOMAIN l.text : l.text[k] \in Stmt
<1>1. l.path \in Seq(Arg) /\ l.dir \in Dir /\ l.at \in Seq(Nat) /\ l.text \in Seq(Stmt)
  BY DEF Places
<1>2. QED
  BY <1>1

LEMMA ExtendsAppend ==
    ASSUME NEW T, NEW u \in Seq(T), NEW v \in Seq(T), NEW x \in T
    PROVE  Extends(u, Append(v, x)) <=>
              Extends(u, v) /\ Len(u) > Len(v) /\ u[Len(v) + 1] = x
<1> DEFINE w == Append(v, x)
<1>1. Len(w) = Len(v) + 1 /\ w[Len(v) + 1] = x /\ \A i \in 1 .. Len(v) : w[i] = v[i]
  OBVIOUS
<1>2. Len(u) \in Nat /\ Len(v) \in Nat
  OBVIOUS
<1> HIDE DEF w
<1>3. ASSUME Extends(u, w) PROVE Extends(u, v) /\ Len(u) > Len(v) /\ u[Len(v) + 1] = x
  <2>1. Len(u) >= Len(v) + 1 /\ \A i \in 1 .. Len(v) + 1 : u[i] = w[i]
    BY <1>1, <1>3 DEF Extends
  <2>2. QED
    BY <1>1, <1>2, <2>1 DEF Extends
<1>4. ASSUME Extends(u, v), Len(u) > Len(v), u[Len(v) + 1] = x PROVE Extends(u, w)
  <2>1. \A i \in 1 .. Len(v) + 1 : i = Len(v) + 1 \/ i \in 1 .. Len(v)
    BY <1>2
  <2>2. \A i \in 1 .. Len(w) : u[i] = w[i]
    BY <1>1, <1>4, <2>1 DEF Extends
  <2>3. QED
    BY <1>1, <1>2, <1>4, <2>2 DEF Extends
<1>5. QED
  BY <1>3, <1>4 DEF w

LEMMA AppendNotEmpty ==
    ASSUME NEW T, NEW v \in Seq(T), NEW x
    PROVE  Append(v, x) # <<>>
<1>1. Len(Append(v, x)) = Len(v) + 1 /\ Len(v) \in Nat
  OBVIOUS
<1>2. Len(<<>>) = 0
  OBVIOUS
<1>3. QED
  BY <1>1, <1>2

LEMMA ExtendsSelf == ASSUME NEW T, NEW v \in Seq(T) PROVE Extends(v, v)
  BY DEF Extends

(* The k-th statement of a list leads to lists of other names.                *)
LEMMA BelowIs ==
    ASSUME NEW names, NEW l \in Places, NEW k \in DOMAIN l.text,
           names[l.text[k]] \subseteq Arg, NEW m \in Below(names, l, k)
    PROVE  /\ m \in Places /\ m # l
           /\ m.path = l.path => Extends(m.at, l.at) /\ Len(m.at) > Len(l.at) /\ m.at[Len(l.at) + 1] = k
           /\ m.path # l.path => /\ Extends(m.path, l.path) /\ Len(m.path) > Len(l.path)
                                 /\ m.path[Len(l.path) + 1] \in names[l.text[k]]
           /\ m.path # l.path => m \in Away(names, l, l.text[k])
<1>1. m \in Places
  BY DEF Below, Inside, Away
<1>2. l.path \in Seq(Arg) /\ l.at \in Seq(Nat) /\ m.path \in Seq(Arg) /\ m.at \in Seq(Nat) /\ k \in Nat
      /\ Len(l.path) \in Nat /\ Len(l.at) \in Nat
  BY <1>1, PlaceFields
<1>3. CASE m \in Inside(l, k)
  <2>1. m.path = l.path /\ Extends(m.at, Append(l.at, k))
    BY <1>3 DEF Inside
  <2>2. Extends(m.at, l.at) /\ Len(m.at) > Len(l.at) /\ m.at[Len(l.at) + 1] = k
    BY <1>2, <2>1, ExtendsAppend, SMTT(30)
  <2>3. m # l
    <3>1. Len(m.at) # Len(l.at)
      BY <1>2, <2>2
    <3>2. QED
      BY <3>1, Zenon
  <2>4. QED
    BY <1>1, <2>1, <2>2, <2>3
<1>4. CASE m \in Away(names, l, l.text[k])
  <2>1. PICK a \in names[l.text[k]] : Extends(m.path, Append(l.path, a))
    BY <1>4 DEF Away
  <2>2. a \in Arg
    BY <2>1
  <2>3. Extends(m.path, l.path) /\ Len(m.path) > Len(l.path) /\ m.path[Len(l.path) + 1] = a
    BY <1>2, <2>1, <2>2, ExtendsAppend
  <2>4. m.path # l.path
    BY <1>2, <2>3
  <2>5. QED
    BY <1>1, <1>4, <2>1, <2>3, <2>4
<1>5. QED
  BY <1>3, <1>4 DEF Below

(* Different statements lead to different lists. *)
LEMMA BelowApart ==
    ASSUME NEW names, NEW l \in Places, Apart(names, l.text),
           \A k \in DOMAIN l.text : names[l.text[k]] \subseteq Arg,
           NEW j \in DOMAIN l.text, NEW k \in DOMAIN l.text, j # k
    PROVE  Below(names, l, j) \cap Below(names, l, k) = {}
<1>1. SUFFICES ASSUME NEW m \in Below(names, l, j), m \in Below(names, l, k) PROVE FALSE
  OBVIOUS
<1>2. CASE m.path = l.path
  BY <1>1, <1>2, BelowIs
<1>3. CASE m.path # l.path
  <2>1. m.path[Len(l.path) + 1] \in names[l.text[j]] \cap names[l.text[k]]
    BY <1>1, <1>3, BelowIs
  <2>2. QED
    BY <2>1 DEF Apart
<1>4. QED
  BY <1>2, <1>3

(* They are in the area of the list. *)
LEMMA BelowInArea ==
    ASSUME NEW names, NEW l \in Places, NEW k \in DOMAIN l.text, names[l.text[k]] \subseteq Arg
    PROVE  Below(names, l, k) \subseteq Area(names, l) /\ l \in Area(names, l)
<1>1. ASSUME NEW m \in Below(names, l, k) PROVE m \in Area(names, l)
  <2>1. CASE m.path = l.path
    BY <1>1, <2>1, BelowIs DEF Area
  <2>2. CASE m.path # l.path
    <3>1. m \in Away(names, l, l.text[k])
      BY <1>1, <2>2, BelowIs
    <3>2. QED
      BY <3>1 DEF Area
  <2>3. QED
    BY <2>1, <2>2
<1>2. Extends(l.at, l.at)
  BY PlaceFields, ExtendsSelf
<1>3. QED
  BY <1>1, <1>2 DEF Area

LEMMA ListInArea == ASSUME NEW names, NEW l \in Places PROVE l \in Area(names, l)
<1>1. Extends(l.at, l.at)
  BY PlaceFields, ExtendsSelf
<1>2. QED
  BY <1>1 DEF Area

(* The projects of which no file has two calls with the same name. *)
Tidy(n, rank, depth, names) == Tame(n, rank, depth) /\ \A p \in Programs : Once(names, p)

LEMMA NamesOf ==
    ASSUME NEW names, NEW p, Once(names, p)
    PROVE  /\ \A s \in Stmt : names[s] \subseteq Arg
           /\ \A l \in Places : \A k \in DOMAIN l.text : names[l.text[k]] \subseteq Arg
<1>1. \A s \in Stmt : names[s] \subseteq Arg
  BY DEF Once
<1>2. QED
  BY <1>1, PlaceFields

FileOf(p, path, d) == [path |-> path, dir |-> d, at |-> <<>>, text |-> p[d]]
InnerOf(p, l, k)   == FileOf(p, Append(l.path, l.text[k].arg), Resolve[l.dir][l.text[k].arg])

(* The lists that merge() goes into for the k-th statement of list l. *)
Parts(p, l, k) ==
    {m \in {Block(Nth(l, k))} : l.text[k].kind = "if"}
    \union {m \in {InnerOf(p, l, k)} : Includes(l, k)}

LEMMA PartIs ==
    ASSUME NEW p, NEW l, NEW k, NEW m \in Parts(p, l, k)
    PROVE  \/ l.text[k].kind = "if" /\ m = Block(Nth(l, k))
           \/ l.text[k].kind = "subdir" /\ Includes(l, k) /\ m = InnerOf(p, l, k)
  BY DEF Parts, Includes

LEMMA BlockPlace ==
    ASSUME NEW l \in Places, NEW k \in DOMAIN l.text
    PROVE  /\ Block(Nth(l, k)) \in Places /\ Block(Nth(l, k)).path = l.path
           /\ Block(Nth(l, k)).dir = l.dir
           /\ Block(Nth(l, k)).at = Append(l.at, k) /\ Block(Nth(l, k)).text = l.text[k].body
<1> DEFINE m == Block(Nth(l, k))
<1>1. m = [path |-> l.path, dir |-> l.dir, at |-> Append(l.at, k), text |-> l.text[k].body]
  BY DEF Block, Nth
<1>2. l.path \in Seq(Arg) /\ l.dir \in Dir /\ l.at \in Seq(Nat) /\ k \in Nat /\ l.text[k] \in Stmt
  BY PlaceFields
<1>3. Append(l.at, k) \in Seq(Nat) /\ l.text[k].body \in Seq(Stmt)
  BY <1>2, StmtAssumption
<1> HIDE DEF m
<1>4. m \in Places
  BY <1>1, <1>2, <1>3 DEF Places
<1>5. QED
  BY <1>1, <1>4 DEF m

LEMMA InnerPlace ==
    ASSUME NEW p \in Programs, NEW l \in Places, NEW k \in DOMAIN l.text, Includes(l, k)
    PROVE  LET a == l.text[k].arg
               m == InnerOf(p, l, k)
           IN /\ m \in Places /\ m.path = Append(l.path, a) /\ m.dir = Resolve[l.dir][a]
              /\ m.at = <<>> /\ m.text = p[m.dir] /\ m.dir \in Exists /\ m.dir \in Dir /\ a \in Arg
<1> DEFINE a == l.text[k].arg
           m == InnerOf(p, l, k)
           d == Resolve[l.dir][a]
<1>1. d \in Exists /\ d \in Dir
  BY DirAssumption DEF Includes
<1>2. a \in Arg
  BY PlaceFields, StmtAssumption
<1>3. p[d] \in Seq(Stmt)
  BY <1>1, ProgramAssumption
<1>4. Append(l.path, a) \in Seq(Arg)
  BY <1>2, PlaceFields
<1>5. m = [path |-> Append(l.path, a), dir |-> d, at |-> <<>>, text |-> p[d]]
  BY DEF InnerOf, FileOf
<1> HIDE DEF m, d
<1>6. m \in Places
  BY <1>1, <1>3, <1>4, <1>5 DEF Places
<1>7. QED
  BY <1>1, <1>2, <1>5, <1>6, SMTT(30) DEF m, d

(* Such a list leads only to lists below the statement. *)
LEMMA AreaOfPart ==
    ASSUME NEW names, NEW p \in Programs, Once(names, p),
           NEW l \in Places, NEW k \in DOMAIN l.text, NEW m \in Parts(p, l, k)
    PROVE  m \in Places /\ Area(names, m) \subseteq Below(names, l, k)
<1>1. k \in Nat /\ l.text[k] \in Stmt /\ l.path \in Seq(Arg) /\ l.at \in Seq(Nat)
  BY PlaceFields
<1>2. CASE l.text[k].kind = "if" /\ m = Block(Nth(l, k))
  <2>1. m \in Places /\ m.path = l.path /\ m.at = Append(l.at, k) /\ m.text = l.text[k].body
    BY <1>2, BlockPlace
  <2>2. ASSUME NEW u \in Area(names, m) PROVE u \in Below(names, l, k)
    <3>1. CASE u \in Places /\ u.path = m.path /\ Extends(u.at, m.at)
      BY <2>1, <3>1 DEF Below, Inside
    <3>2. CASE \E i \in DOMAIN m.text : u \in Away(names, m, m.text[i])
      <4>1. PICK i \in DOMAIN m.text : u \in Away(names, m, m.text[i])
        BY <3>2
      <4>2. names[m.text[i]] \subseteq names[l.text[k]]
        BY <1>1, <1>2, <2>1, <4>1 DEF Once
      <4>3. u \in Away(names, l, l.text[k])
        BY <2>1, <4>1, <4>2 DEF Away
      <4>4. QED
        BY <4>3 DEF Below
    <3>3. QED
      BY <2>2, <3>1, <3>2 DEF Area
  <2>3. QED
    BY <2>1, <2>2
<1>3. CASE l.text[k].kind = "subdir" /\ Includes(l, k) /\ m = InnerOf(p, l, k)
  <2> DEFINE a == l.text[k].arg
  <2>1. m \in Places /\ m.path = Append(l.path, a) /\ a \in Arg
    BY <1>3, InnerPlace
  <2>2. a \in names[l.text[k]]
    BY <1>1, <1>3 DEF Once, Includes
  <2> HIDE DEF a
  <2>3. ASSUME NEW u \in Area(names, m) PROVE u \in Below(names, l, k)
    <3>1. u \in Places
      BY <2>3 DEF Area, Away
    <3>2. CASE u.path = m.path
      <4>1. Extends(u.path, Append(l.path, a))
        <5>1. u.path \in Seq(Arg) /\ u.path = Append(l.path, a)
          BY <2>1, <3>1, <3>2, PlaceFields
        <5>2. QED
          BY <5>1, ExtendsSelf
      <4>2. QED
        BY <2>2, <3>1, <4>1 DEF Below, Away
    <3>3. CASE \E i \in DOMAIN m.text : u \in Away(names, m, m.text[i])
      <4>1. PICK i \in DOMAIN m.text : u \in Away(names, m, m.text[i])
        BY <3>3
      <4>2. PICK b \in names[m.text[i]] : Extends(u.path, Append(m.path, b))
        BY <4>1 DEF Away
      <4>3. b \in Arg
        BY <2>1, <4>1, <4>2, NamesOf
      <4>4. u.path \in Seq(Arg) /\ m.path \in Seq(Arg)
        BY <2>1, <3>1, PlaceFields
      <4>5. Extends(u.path, Append(l.path, a))
        <5>1. Extends(u.path, m.path)
          BY <4>2, <4>3, <4>4, ExtendsAppend
        <5>2. QED
          BY <2>1, <5>1
      <4>6. QED
        BY <2>2, <3>1, <4>5 DEF Below, Away
    <3>4. QED
      BY <2>3, <3>2, <3>3 DEF Area
  <2>4. QED
    BY <2>1, <2>3
<1>4. QED
  BY <1>2, <1>3, PartIs

(* What a list has when its first j statements are passed: what these have    *)
(* been made of, and the others as parsed.                                    *)
Members == [path : Seq(Arg), dir : Dir, at : Seq(Nat), text : Stmt]

Listing(ls, l)  == IF l \in DOMAIN ls THEN ls[l] ELSE [k \in DOMAIN l.text |-> Nth(l, k)]
Extended(ls)    == DOMAIN ls \subseteq Places /\ \A l \in DOMAIN ls : ls[l] \in Seq(Members)

Piece(p, ls, l, k) ==
    IF Includes(l, k) THEN Listing(ls, InnerOf(p, l, k)) \o <<Nth(l, k)>> ELSE <<Nth(l, k)>>
Pieces(p, ls, l, j) == [k \in 1 .. j |-> Piece(p, ls, l, k)]
Made(p, ls, l, j)   == FlattenSeq(Pieces(p, ls, l, j))
Left(l, j)          == [k \in 1 .. Len(l.text) - j |-> Nth(l, j + k)]

LEMMA NthType ==
    ASSUME NEW l \in Places, NEW k \in DOMAIN l.text
    PROVE  Nth(l, k) \in Members /\ <<Nth(l, k)>> \in Seq(Members)
<1>1. l.path \in Seq(Arg) /\ l.dir \in Dir /\ Append(l.at, k) \in Seq(Nat) /\ l.text[k] \in Stmt
  <2>1. l.at \in Seq(Nat) /\ k \in Nat
    BY PlaceFields
  <2>2. QED
    BY <2>1, PlaceFields
<1>2. Nth(l, k) \in Members
  BY <1>1 DEF Nth, Members
<1>3. QED
  BY <1>2

LEMMA LeftType ==
    ASSUME NEW l \in Places, NEW j \in 0 .. Len(l.text)
    PROVE  Left(l, j) \in Seq(Members) /\ Len(Left(l, j)) = Len(l.text) - j
<1>1. Len(l.text) - j \in Nat /\ \A k \in 1 .. Len(l.text) - j : j + k \in DOMAIN l.text
  BY PlaceFields
<1>2. \A k \in 1 .. Len(l.text) - j : Nth(l, j + k) \in Members
  BY <1>1, NthType
<1>3. QED
  BY <1>1, <1>2 DEF Left

LEMMA ListingType ==
    ASSUME NEW ls, Extended(ls), NEW l \in Places
    PROVE  /\ Listing(ls, l) \in Seq(Members)
           /\ l \notin DOMAIN ls => Listing(ls, l) = Left(l, 0)
<1>1. Len(l.text) \in Nat /\ DOMAIN l.text = 1 .. Len(l.text)
  BY PlaceFields
<1>2. [k \in DOMAIN l.text |-> Nth(l, k)] = Left(l, 0)
  <2>1. 1 .. Len(l.text) - 0 = DOMAIN l.text /\ \A k \in DOMAIN l.text : 0 + k = k
    BY <1>1
  <2>2. QED
    BY <2>1, Zenon DEF Left
<1>3. Left(l, 0) \in Seq(Members)
  BY <1>1, LeftType
<1>4. QED
  BY <1>2, <1>3 DEF Listing, Extended

LEMMA PieceType ==
    ASSUME NEW p \in Programs, NEW ls, Extended(ls), NEW l \in Places, NEW k \in DOMAIN l.text
    PROVE  Piece(p, ls, l, k) \in Seq(Members)
<1>1. CASE Includes(l, k)
  <2>1. InnerOf(p, l, k) \in Places
    BY <1>1, InnerPlace
  <2>2. Listing(ls, InnerOf(p, l, k)) \in Seq(Members) /\ <<Nth(l, k)>> \in Seq(Members)
    BY <2>1, ListingType, NthType
  <2>3. QED
    BY <1>1, <2>2 DEF Piece
<1>2. CASE ~Includes(l, k)
  BY <1>2, NthType DEF Piece
<1>3. QED
  BY <1>1, <1>2

LEMMA MadeNext ==
    ASSUME NEW p \in Programs, NEW ls, Extended(ls), NEW l \in Places, NEW j \in 0 .. Len(l.text)
    PROVE  /\ Pieces(p, ls, l, j) \in Seq(Seq(Members)) /\ Len(Pieces(p, ls, l, j)) = j
           /\ Made(p, ls, l, j) \in Seq(Members)
           /\ Made(p, ls, l, 0) = <<>>
           /\ j + 1 \in DOMAIN l.text =>
                 Made(p, ls, l, j + 1) = Made(p, ls, l, j) \o Piece(p, ls, l, j + 1)
<1>1. DOMAIN l.text = 1 .. Len(l.text) /\ Len(l.text) \in Nat
  BY PlaceFields
<1>2. \A k \in 1 .. j : k \in DOMAIN l.text
  BY <1>1
<1>3. \A k \in 1 .. j : Piece(p, ls, l, k) \in Seq(Members)
  BY <1>2, PieceType
<1> DEFINE ss == Pieces(p, ls, l, j)
<1>4. ss \in Seq(Seq(Members)) /\ Len(ss) = j /\ \A k \in 1 .. j : ss[k] = Piece(p, ls, l, k)
  BY <1>3 DEF Pieces
<1>5. Made(p, ls, l, j) \in Seq(Members)
  BY <1>4, FlattenType DEF Made
<1>6. Made(p, ls, l, 0) = <<>>
  <2>1. Pieces(p, ls, l, 0) = <<>>
    BY DEF Pieces
  <2>2. QED
    BY <1>4, <2>1, FlattenType DEF Made
<1>7. ASSUME j + 1 \in DOMAIN l.text
      PROVE  Made(p, ls, l, j + 1) = Made(p, ls, l, j) \o Piece(p, ls, l, j + 1)
  <2> DEFINE x == Piece(p, ls, l, j + 1)
             tt == Pieces(p, ls, l, j + 1)
  <2>1. x \in Seq(Members)
    BY <1>7, PieceType
  <2>2. tt = Append(ss, x)
    <3>1. \A k \in 1 .. j + 1 : k \in 1 .. j \/ k = j + 1
      OBVIOUS
    <3>2. tt = [k \in 1 .. j + 1 |-> Piece(p, ls, l, k)]
      BY DEF Pieces
    <3> HIDE DEF tt, ss
    <3>3. Append(ss, x) = [k \in 1 .. j + 1 |-> IF k = j + 1 THEN x ELSE ss[k]]
      BY <1>4
    <3>4. \A k \in 1 .. j + 1 : Piece(p, ls, l, k) = IF k = j + 1 THEN x ELSE ss[k]
      BY <1>4, <3>1
    <3>5. QED
      BY <3>2, <3>3, <3>4
  <2> HIDE DEF x, ss, tt
  <2>3. FlattenSeq(tt) = FlattenSeq(ss) \o x
    BY <1>4, <2>1, <2>2, FlattenAppend
  <2>4. QED
    BY <2>3 DEF x, ss, tt, Made
<1>8. QED
  BY <1>4, <1>5, <1>6, <1>7

(* Sequences one after the other. *)
Sequences2(V, a, b)    == a \in Seq(V) /\ b \in Seq(V)
Sequences3(V, a, b, c) == a \in Seq(V) /\ b \in Seq(V) /\ c \in Seq(V)

LEMMA TwoConcat ==
    ASSUME NEW V, NEW a, NEW b, Sequences2(V, a, b)
    PROVE  /\ a \o b \in Seq(V) /\ Len(a) \in Nat /\ Len(b) \in Nat /\ Len(a \o b) = Len(a) + Len(b)
           /\ \A k \in 1 .. Len(a) : (a \o b)[k] = a[k]
           /\ \A k \in 1 .. Len(b) : (a \o b)[Len(a) + k] = b[k]
           /\ SubSeq(a \o b, 1, Len(a)) = a
           /\ SubSeq(a \o b, Len(a) + 1, Len(a \o b)) = b
  BY DEF Sequences2

LEMMA ThreeConcat ==
    ASSUME NEW V, NEW a, NEW b, NEW c, Sequences3(V, a, b, c)
    PROVE  (a \o b) \o c = a \o (b \o c)
  BY DEF Sequences3

LEMMA FirstAndOthers ==
    ASSUME NEW V, NEW a \in Seq(V), NEW x \in V, NEW b \in Seq(V), Len(a) = Len(b) + 1,
           a[1] = x, \A k \in 1 .. Len(b) : a[k + 1] = b[k]
    PROVE  a = <<x>> \o b
<1>1. <<x>> \in Seq(V) /\ Len(<<x>>) = 1 /\ <<x>>[1] = x
  OBVIOUS
<1> DEFINE c == <<x>> \o b
<1>2. c \in Seq(V) /\ Len(c) = Len(b) + 1 /\ c[1] = x /\ \A k \in 1 .. Len(b) : c[1 + k] = b[k]
  BY <1>1
<1> HIDE DEF c
<1>3. ASSUME NEW k \in 1 .. Len(b) + 1 PROVE a[k] = c[k]
  <2>1. k = 1 \/ (k - 1 \in 1 .. Len(b) /\ (k - 1) + 1 = k /\ 1 + (k - 1) = k)
    OBVIOUS
  <2>2. QED
    BY <1>2, <2>1
<1>4. a = c
  BY <1>2, <1>3
<1>5. QED
  BY <1>4 DEF c

LEMMA LeftNext ==
    ASSUME NEW l \in Places, NEW j \in Nat, j + 1 \in DOMAIN l.text
    PROVE  Left(l, j) = <<Nth(l, j + 1)>> \o Left(l, j + 1)
<1>1. Len(l.text) \in Nat /\ j + 1 <= Len(l.text) /\ j \in 0 .. Len(l.text) /\ j + 1 \in 0 .. Len(l.text)
  BY PlaceFields
<1> DEFINE n == Len(l.text)
           a == Left(l, j)
           b == Left(l, j + 1)
           x == Nth(l, j + 1)
<1>2. a \in Seq(Members) /\ b \in Seq(Members) /\ Len(a) = n - j /\ Len(b) = n - (j + 1) /\ x \in Members
  BY <1>1, LeftType, NthType
<1>3. \A k \in 1 .. n - j : a[k] = Nth(l, j + k)
  BY DEF Left
<1>4. \A k \in 1 .. n - (j + 1) : b[k] = Nth(l, (j + 1) + k)
  BY DEF Left
<1>5. a[1] = x
  BY <1>1, <1>3
<1>6. \A k \in 1 .. n - (j + 1) : k + 1 \in 1 .. n - j /\ (j + 1) + k = j + (k + 1)
  BY <1>1
<1> HIDE DEF n, a, b, x
<1>7. \A k \in 1 .. Len(b) : a[k + 1] = b[k]
  BY <1>2, <1>3, <1>4, <1>6
<1>8. Len(a) = Len(b) + 1
  BY <1>1, <1>2 DEF n
<1>9. a = <<x>> \o b
  BY <1>2, <1>5, <1>7, <1>8, FirstAndOthers
<1>10. QED
  BY <1>9 DEF a, b, x

(* Where the loop is that has passed j statements of the list. *)
Passed(p, ls, l, j, i) ==
    /\ j \in 0 .. Len(l.text)
    /\ Listing(ls, l) = Made(p, ls, l, j) \o Left(l, j)
    /\ i = Len(Made(p, ls, l, j)) + 1

LEMMA PassedAt ==
    ASSUME NEW p \in Programs, NEW ls, Extended(ls), NEW l \in Places, NEW j, NEW i, Passed(p, ls, l, j, i)
    PROVE  /\ i \in Nat /\ i > 0
           /\ i <= Len(Listing(ls, l)) => j + 1 \in DOMAIN l.text /\ Listing(ls, l)[i] = Nth(l, j + 1)
           /\ i > Len(Listing(ls, l)) => j = Len(l.text) /\ Listing(ls, l) = Made(p, ls, l, j)
           /\ SubSeq(Listing(ls, l), 1, i - 1) = Made(p, ls, l, j)
           /\ SubSeq(Listing(ls, l), i, Len(Listing(ls, l))) = Left(l, j)
<1> DEFINE a == Made(p, ls, l, j)
           b == Left(l, j)
           c == Listing(ls, l)
<1>1. Len(l.text) \in Nat /\ DOMAIN l.text = 1 .. Len(l.text) /\ j \in 0 .. Len(l.text)
  BY PlaceFields DEF Passed
<1>2. a \in Seq(Members) /\ b \in Seq(Members) /\ Len(b) = Len(l.text) - j
  BY <1>1, MadeNext, LeftType
<1>3. c = a \o b /\ i = Len(a) + 1
  BY DEF Passed
<1>4. \A k \in 1 .. Len(l.text) - j : b[k] = Nth(l, j + k)
  BY DEF Left
<1> HIDE DEF a, b, c
<1>5. Len(c) = Len(a) + Len(b) /\ Len(a) \in Nat /\ Len(b) \in Nat
  BY <1>2, <1>3
<1>6. ASSUME i <= Len(c) PROVE j + 1 \in DOMAIN l.text /\ c[i] = Nth(l, j + 1)
  <2>1. Len(b) >= 1
    BY <1>3, <1>5, <1>6
  <2>2. j + 1 \in DOMAIN l.text /\ 1 \in 1 .. Len(l.text) - j
    BY <1>1, <1>2, <2>1
  <2>3. c[i] = b[1]
    BY <1>2, <1>3, <1>5, <2>1
  <2>4. QED
    BY <1>4, <2>2, <2>3
<1>7. ASSUME i > Len(c) PROVE j = Len(l.text) /\ c = a
  <2>1. Len(b) = 0
    BY <1>3, <1>5, <1>7
  <2>2. j = Len(l.text)
    BY <1>1, <1>2, <2>1
  <2>3. b = <<>>
    BY <1>2, <2>1
  <2>4. QED
    BY <1>2, <1>3, <2>2, <2>3
<1>8. SubSeq(c, 1, i - 1) = a /\ SubSeq(c, i, Len(c)) = b
  <2>1. i - 1 = Len(a)
    BY <1>3, <1>5
  <2>2. QED
    BY <1>2, <1>3, <2>1, TwoConcat DEF Sequences2
<1>9. i \in Nat /\ i > 0
  BY <1>3, <1>5
<1>10. QED
  BY <1>6, <1>7, <1>8, <1>9, Zenon DEF a, b, c

(* The loop of a list that is as parsed begins. *)
LEMMA PassedNone ==
    ASSUME NEW p \in Programs, NEW ls, Extended(ls), NEW l \in Places, l \notin DOMAIN ls
    PROVE  Passed(p, ls, l, 0, 1)
<1>1. 0 \in 0 .. Len(l.text)
  BY PlaceFields
<1>2. Made(p, ls, l, 0) = <<>> /\ Left(l, 0) \in Seq(Members)
  BY <1>1, MadeNext, LeftType
<1>3. Listing(ls, l) = Left(l, 0)
  BY ListingType
<1>4. QED
  BY <1>1, <1>2, <1>3 DEF Passed

(* It goes on to the next statement. *)
LEMMA PassedNext ==
    ASSUME NEW p \in Programs, NEW ls, Extended(ls), NEW l \in Places, NEW j, NEW i, Passed(p, ls, l, j, i),
           i <= Len(Listing(ls, l)), ~Includes(l, j + 1)
    PROVE  Passed(p, ls, l, j + 1, i + 1)
<1>1. j \in 0 .. Len(l.text) /\ j + 1 \in DOMAIN l.text
  BY PassedAt DEF Passed
<1>2. j + 1 \in 0 .. Len(l.text)
  BY <1>1, PlaceFields
<1> DEFINE a == Made(p, ls, l, j)
           x == <<Nth(l, j + 1)>>
           b == Left(l, j + 1)
<1>3. a \in Seq(Members) /\ x \in Seq(Members) /\ b \in Seq(Members) /\ Len(x) = 1
  BY <1>1, <1>2, MadeNext, NthType, LeftType
<1>4. Left(l, j) = x \o b
  BY <1>1, LeftNext
<1>10. Listing(ls, l) = a \o (x \o b) /\ i = Len(a) + 1
  BY <1>4, Zenon DEF Passed
<1>5. Made(p, ls, l, j + 1) = a \o x
  BY <1>1, MadeNext DEF Piece
<1> HIDE DEF a, x, b
<1>11. Sequences3(Members, a, x, b) /\ Sequences2(Members, a, x)
  BY <1>3 DEF Sequences2, Sequences3
<1>6. a \o (x \o b) = (a \o x) \o b
  BY <1>11, ThreeConcat
<1>7. Len(a \o x) = Len(a) + 1
  <2>1. Len(a \o x) = Len(a) + Len(x)
    BY <1>11, TwoConcat
  <2>2. QED
    BY <1>3, <2>1
<1>8. Listing(ls, l) = Made(p, ls, l, j + 1) \o b /\ i + 1 = Len(Made(p, ls, l, j + 1)) + 1
  BY <1>5, <1>6, <1>7, <1>10
<1>9. QED
  BY <1>2, <1>8 DEF Passed, b

(* The statements of an included file come before the call. *)
LEMMA PassedInner ==
    ASSUME NEW p \in Programs, NEW ls, Extended(ls), NEW l \in Places, NEW j, NEW i, Passed(p, ls, l, j, i),
           j + 1 \in DOMAIN l.text, Includes(l, j + 1), NEW new, new = Listing(ls, InnerOf(p, l, j + 1))
    PROVE  /\ Inserted(Listing(ls, l), i, new) = Made(p, ls, l, j + 1) \o Left(l, j + 1)
           /\ i + (Len(new) + 1) = Len(Made(p, ls, l, j + 1)) + 1
           /\ j + 1 \in 0 .. Len(l.text)
<1>1. j \in 0 .. Len(l.text) /\ j + 1 \in 0 .. Len(l.text)
  BY PlaceFields DEF Passed
<1> DEFINE a == Made(p, ls, l, j)
           x == <<Nth(l, j + 1)>>
           b == Left(l, j + 1)
<1>2. new \in Seq(Members)
  BY InnerPlace, ListingType
<1>3. a \in Seq(Members) /\ x \in Seq(Members) /\ b \in Seq(Members) /\ Len(x) = 1
  BY <1>1, MadeNext, NthType, LeftType
<1>4. Left(l, j) = x \o b
  BY <1>1, LeftNext
<1>10. i = Len(a) + 1
  BY DEF Passed
<1>5. Made(p, ls, l, j + 1) = a \o (new \o x)
  BY <1>1, MadeNext DEF Piece
<1>6. Inserted(Listing(ls, l), i, new) = (a \o new) \o (x \o b)
  <2>1. SubSeq(Listing(ls, l), 1, i - 1) = a
    BY PassedAt
  <2>2. SubSeq(Listing(ls, l), i, Len(Listing(ls, l))) = Left(l, j)
    BY PassedAt
  <2>3. QED
    BY <1>4, <2>1, <2>2, Zenon DEF Inserted
<1> HIDE DEF a, x, b
<1>7. (a \o new) \o (x \o b) = (a \o (new \o x)) \o b
  <2>1. Sequences2(Members, a, new) /\ Sequences3(Members, a, new, x)
    BY <1>2, <1>3 DEF Sequences2, Sequences3
  <2>5. a \o new \in Seq(Members)
    BY <2>1, TwoConcat
  <2>6. Sequences3(Members, a \o new, x, b)
    BY <1>3, <2>5, Zenon DEF Sequences3
  <2>2. (a \o new) \o (x \o b) = ((a \o new) \o x) \o b
    BY <2>6, ThreeConcat
  <2>3. (a \o new) \o x = a \o (new \o x)
    BY <2>1, ThreeConcat
  <2>4. QED
    BY <2>2, <2>3
<1>8. Len(a \o (new \o x)) = Len(a) + (Len(new) + 1) /\ Len(a) \in Nat /\ Len(new) \in Nat
  <2>1. Sequences2(Members, new, x)
    BY <1>2, <1>3 DEF Sequences2
  <2>2. new \o x \in Seq(Members) /\ Len(new \o x) = Len(new) + Len(x) /\ Len(new) \in Nat
    BY <2>1, TwoConcat
  <2>3. Sequences2(Members, a, new \o x)
    BY <1>3, <2>2, Zenon DEF Sequences2
  <2>4. Len(a \o (new \o x)) = Len(a) + Len(new \o x) /\ Len(a) \in Nat
    BY <2>3, TwoConcat
  <2>5. QED
    BY <1>3, <2>2, <2>4
<1>9. i + (Len(new) + 1) = Len(Made(p, ls, l, j + 1)) + 1
  <2>1. Len(Made(p, ls, l, j + 1)) = Len(a) + (Len(new) + 1) /\ Len(a) \in Nat /\ Len(new) \in Nat
    BY <1>5, <1>8
  <2>2. QED
    BY <1>10, <2>1
<1>11. QED
  BY <1>1, <1>5, <1>6, <1>7, <1>9, Zenon DEF b

(* Changing one list. *)
Changed(ls, u, x) ==
    /\ Extended(ls) /\ Extended(u)
    /\ DOMAIN ls \subseteq DOMAIN u /\ DOMAIN u \subseteq DOMAIN ls \union {x}
    /\ \A m \in DOMAIN ls : m # x => u[m] = ls[m]

LEMMA ListingUnmoved ==
    ASSUME NEW ls, NEW u, NEW x, Changed(ls, u, x), NEW m, m # x
    PROVE  Listing(u, m) = Listing(ls, m)
  BY DEF Changed, Listing

LEMMA InnerIsPart ==
    ASSUME NEW p, NEW l, NEW k, Includes(l, k)
    PROVE  InnerOf(p, l, k) \in Parts(p, l, k)
  BY DEF Parts

(* The list of a part is below the statement. *)
LEMMA PartBelow ==
    ASSUME NEW names, NEW p \in Programs, Once(names, p),
           NEW l \in Places, NEW k \in DOMAIN l.text, NEW m \in Parts(p, l, k)
    PROVE  m \in Below(names, l, k) /\ m # l
<1>1. m \in Area(names, m) /\ Area(names, m) \subseteq Below(names, l, k)
  BY AreaOfPart, ListInArea
<1>2. names[l.text[k]] \subseteq Arg
  BY NamesOf
<1>3. QED
  BY <1>1, <1>2, BelowIs

LEMMA MadeUnmoved ==
    ASSUME NEW names, NEW p \in Programs, Once(names, p), NEW ls, NEW u, NEW x, Changed(ls, u, x),
           NEW l \in Places, NEW j \in 0 .. Len(l.text), \A k \in 1 .. j : x \notin Below(names, l, k)
    PROVE  Made(p, u, l, j) = Made(p, ls, l, j)
<1>1. ASSUME NEW k \in 1 .. j PROVE Piece(p, u, l, k) = Piece(p, ls, l, k)
  <2>1. k \in DOMAIN l.text
    BY PlaceFields
  <2>2. CASE Includes(l, k)
    <3>1. InnerOf(p, l, k) # x
      BY <2>1, <2>2, InnerIsPart, PartBelow
    <3>2. Listing(u, InnerOf(p, l, k)) = Listing(ls, InnerOf(p, l, k))
      BY <3>1, ListingUnmoved
    <3>3. QED
      BY <3>2 DEF Piece
  <2>3. CASE ~Includes(l, k)
    BY <2>3 DEF Piece
  <2>4. QED
    BY <2>2, <2>3
<1>2. Pieces(p, u, l, j) = Pieces(p, ls, l, j)
  BY <1>1 DEF Pieces
<1>3. QED
  BY <1>2 DEF Made

(* The statement is passed: the lists it leads to are among S, whose merging  *)
(* is over, and those in a loop are as parsed.                                *)
Handled(p, ls, S, l, k) ==
    /\ Parts(p, l, k) \subseteq S
    /\ l.text[k].kind = "foreach" => Inside(l, k) \cap DOMAIN ls = {}

LEMMA HandledUnmoved ==
    ASSUME NEW names, NEW p, NEW ls, NEW u, NEW x, Changed(ls, u, x), NEW S, NEW l, NEW k,
           Handled(p, ls, S, l, k), x \notin Below(names, l, k)
    PROVE  Handled(p, u, S, l, k)
  BY DEF Handled, Changed, Below

LEMMA HandledMore ==
    ASSUME NEW p, NEW ls, NEW S, NEW z, NEW l, NEW k, Handled(p, ls, S, l, k)
    PROVE  Handled(p, ls, S \union {z}, l, k)
  BY DEF Handled

(* The list is of the project. *)
Calls(w) == ToSet(Gather(Opened, w))
Sound(names, p, l) ==
    l \in Places /\ Apart(names, l.text) /\ Calls(l.text) \subseteq Calls(p[l.dir])

Over(names, p, ls, S, m) ==
    /\ Sound(names, p, m)
    /\ Listing(ls, m) = Made(p, ls, m, Len(m.text))
    /\ \A k \in DOMAIN m.text : Handled(p, ls, S, m, k)
Complete(names, p, ls, S) == \A m \in S : Over(names, p, ls, S, m)

LEMMA CompleteUnmoved ==
    ASSUME NEW names, NEW p \in Programs, Once(names, p), NEW ls, NEW u, NEW x, Changed(ls, u, x),
           NEW S, Complete(names, p, ls, S), \A m \in S : x \notin Area(names, m)
    PROVE  Complete(names, p, u, S)
<1>1. SUFFICES ASSUME NEW m \in S PROVE Over(names, p, u, S, m)
  BY DEF Complete
<1>2. Over(names, p, ls, S, m) /\ m \in Places
  BY DEF Complete, Over, Sound
<1>3. \A k \in DOMAIN m.text : x \notin Below(names, m, k)
  BY <1>2, NamesOf, BelowInArea
<1>4. m # x
  BY <1>2, ListInArea
<1>5. \A k \in DOMAIN m.text : Handled(p, u, S, m, k)
  BY <1>2, <1>3, HandledUnmoved DEF Over
<1>6. Listing(u, m) = Listing(ls, m)
  BY <1>4, ListingUnmoved
<1>7. Len(m.text) \in 0 .. Len(m.text) /\ DOMAIN m.text = 1 .. Len(m.text)
  BY <1>2, PlaceFields
<1>8. Made(p, u, m, Len(m.text)) = Made(p, ls, m, Len(m.text))
  BY <1>2, <1>3, <1>7, MadeUnmoved
<1>9. QED
  BY <1>2, <1>5, <1>6, <1>8 DEF Over

(* merge() has not been at the lists that the statement leads to. *)
Fresh(names, ls, S, l, k) ==
    /\ Below(names, l, k) \cap DOMAIN ls = {}
    /\ \A m \in S : Area(names, m) \cap Below(names, l, k) = {}

LEMMA FreshUnmoved ==
    ASSUME NEW names, NEW ls, NEW u, NEW x, Changed(ls, u, x), NEW S, NEW l, NEW k,
           Fresh(names, ls, S, l, k), x \notin Below(names, l, k)
    PROVE  Fresh(names, u, S, l, k)
  BY DEF Fresh, Changed

LEMMA FreshMore ==
    ASSUME NEW names, NEW ls, NEW S, NEW z, NEW l, NEW k, Fresh(names, ls, S, l, k),
           Area(names, z) \cap Below(names, l, k) = {}
    PROVE  Fresh(names, ls, S \union {z}, l, k)
  BY DEF Fresh

(* Loop f has passed j statements. *)
OnWay(names, p, ls, S, f, j) ==
    /\ Sound(names, p, f.list) /\ f.tree = TreesOf(p)[f.list.dir]
    /\ j \in 0 .. Len(f.list.text)
    /\ \A k \in 1 .. j : Handled(p, ls, S, f.list, k)
    /\ \A m \in S : f.list \notin Area(names, m)
    /\ \A k \in DOMAIN f.list.text : k > j + 1 => Fresh(names, ls, S, f.list, k)

(* The loops t that are under way; each but the innermost is at a statement   *)
(* that leads to the next.                                                    *)
Under(names, p, ls, t, n, S, q) ==
    /\ Frames(t, n) /\ Extended(ls) /\ DOMAIN q = 1 .. n
    /\ DOMAIN ls \subseteq S \union {t[j].list : j \in 1 .. n}
    /\ Complete(names, p, ls, S)
    /\ \A j \in 1 .. n : OnWay(names, p, ls, S, t[j], q[j])
    /\ \A j \in 1 .. n - 1 : /\ Passed(p, ls, t[j].list, q[j], t[j].i)
                             /\ q[j] + 1 \in DOMAIN t[j].list.text
                             /\ t[j + 1].list \in Parts(p, t[j].list, q[j] + 1)
    /\ \A i, j \in 1 .. n : j < i => Area(names, t[i].list) \subseteq Below(names, t[j].list, q[j] + 1)
    /\ t[1].list = FileOf(p, <<>>, Top)

Running(names, p, ls, t, n, S, q) ==
    /\ Under(names, p, ls, t, n, S, q)
    /\ Passed(p, ls, t[n].list, q[n], t[n].i)
    /\ q[n] + 1 \in DOMAIN t[n].list.text => Fresh(names, ls, S, t[n].list, q[n] + 1)

(* The innermost list is extended. *)
LEMMA UnderChange ==
    ASSUME NEW names, NEW p \in Programs, Once(names, p), NEW ls, NEW t, NEW n, NEW S, NEW q,
           Under(names, p, ls, t, n, S, q), NEW u, Changed(ls, u, t[n].list)
    PROVE  Under(names, p, u, t, n, S, q)
<1> DEFINE x == t[n].list
<1>1. n \in Nat /\ n \in 1 .. n /\ \A j \in 1 .. n - 1 : j \in 1 .. n /\ j < n
  BY DEF Under, Frames
<1>2. \A j \in 1 .. n : OnWay(names, p, ls, S, t[j], q[j]) /\ t[j].list \in Places
  BY DEF Under, OnWay, Sound
<1>3. ASSUME NEW j \in 1 .. n, NEW k \in DOMAIN t[j].list.text, k # q[j] + 1
      PROVE  x \notin Below(names, t[j].list, k)
  <2>1. names[t[j].list.text[k]] \subseteq Arg
    BY <1>2, NamesOf
  <2>2. CASE j = n
    BY <1>2, <2>1, <2>2, BelowIs
  <2>3. CASE j # n
    <3>1. j \in 1 .. n - 1 /\ j < n
      BY <1>1, <2>3
    <3>2. x \in Below(names, t[j].list, q[j] + 1) /\ q[j] + 1 \in DOMAIN t[j].list.text
      BY <1>1, <1>2, <3>1, ListInArea DEF Under
    <3>3. Below(names, t[j].list, k) \cap Below(names, t[j].list, q[j] + 1) = {}
      BY <1>2, <1>3, <3>2, NamesOf, BelowApart DEF OnWay, Sound
    <3>4. QED
      BY <3>2, <3>3
  <2>4. QED
    BY <2>2, <2>3
<1>4. ASSUME NEW j \in 1 .. n, NEW k \in 1 .. q[j] PROVE x \notin Below(names, t[j].list, k)
  <2>1. q[j] \in 0 .. Len(t[j].list.text)
    BY <1>2 DEF OnWay
  <2>2. k \in DOMAIN t[j].list.text /\ k # q[j] + 1
    BY <1>2, <2>1, PlaceFields
  <2>3. QED
    BY <1>3, <2>2
<1>5. ASSUME NEW j \in 1 .. n PROVE OnWay(names, p, u, S, t[j], q[j])
  <2>1. OnWay(names, p, ls, S, t[j], q[j])
    BY <1>2
  <2>2. \A k \in 1 .. q[j] : Handled(p, u, S, t[j].list, k)
    BY <1>4, <2>1, HandledUnmoved DEF OnWay
  <2>3. \A k \in DOMAIN t[j].list.text : k > q[j] + 1 => Fresh(names, u, S, t[j].list, k)
    <3>1. SUFFICES ASSUME NEW k \in DOMAIN t[j].list.text, k > q[j] + 1
                   PROVE  Fresh(names, u, S, t[j].list, k)
      OBVIOUS
    <3>2. k # q[j] + 1
      BY <1>2, <2>1, <3>1, PlaceFields DEF OnWay
    <3>3. QED
      BY <1>3, <2>1, <3>1, <3>2, FreshUnmoved DEF OnWay
  <2>4. QED
    BY <2>1, <2>2, <2>3 DEF OnWay
<1>6. ASSUME NEW j \in 1 .. n - 1 PROVE Passed(p, u, t[j].list, q[j], t[j].i)
  <2>1. j \in 1 .. n /\ Passed(p, ls, t[j].list, q[j], t[j].i) /\ q[j] \in 0 .. Len(t[j].list.text)
    BY <1>1, <1>2 DEF Under, OnWay
  <2>2. Made(p, u, t[j].list, q[j]) = Made(p, ls, t[j].list, q[j])
    BY <1>2, <1>4, <2>1, MadeUnmoved
  <2>3. t[j].list # x
    <3>1. x \in Below(names, t[j].list, q[j] + 1) /\ q[j] + 1 \in DOMAIN t[j].list.text
      BY <1>1, <1>2, ListInArea DEF Under
    <3>2. QED
      BY <1>2, <2>1, <3>1, NamesOf, BelowIs
  <2>4. Listing(u, t[j].list) = Listing(ls, t[j].list)
    BY <2>3, ListingUnmoved
  <2>5. QED
    BY <2>1, <2>2, <2>4 DEF Passed
<1>7. Complete(names, p, u, S)
  BY <1>1, <1>2, CompleteUnmoved DEF Under, OnWay
<1>8. Extended(u) /\ DOMAIN u \subseteq S \union {t[j].list : j \in 1 .. n}
  BY <1>1 DEF Under, Changed
<1>9. QED
  BY <1>5, <1>6, <1>7, <1>8 DEF Under

(* The statements that are called by a list: those that its statements open to. *)
LEMMA CallsOf ==
    ASSUME NEW n, NEW rank, NEW depth, Tame(n, rank, depth), NEW w \in Seq(Stmt)
    PROVE  /\ \A k \in DOMAIN w : w[k].kind \in {"foreach", "if"} => Calls(w[k].body) \subseteq Calls(w)
           /\ \A k \in DOMAIN w : w[k].kind \notin {"foreach", "if"} => w[k] \in Calls(w)
<1>1. Gathers(Opened, Stmt, Stmt) /\ \A s \in Stmt : Opened[s] = Opening(Opened, s)
  BY OpenedUnfolds
<1> DEFINE ss == Image(Opened, w)
<1>2. ss \in Seq(Seq(Stmt)) /\ Len(ss) = Len(w)
  BY <1>1, ImageType
<1>3. \A k \in DOMAIN w : ss[k] = Opened[w[k]] /\ k \in 1 .. Len(ss) /\ w[k] \in Stmt
  BY <1>2 DEF Image
<1> HIDE DEF ss
<1>4. \A x : x \in ToSet(FlattenSeq(ss)) <=> \E k \in 1 .. Len(ss) : x \in ToSet(ss[k])
  BY <1>2, ElementsFlatten
<1>5. Calls(w) = ToSet(FlattenSeq(ss))
  BY GatherIs DEF Calls, ss
<1>6. ASSUME NEW k \in DOMAIN w PROVE ToSet(Opened[w[k]]) \subseteq Calls(w)
  BY <1>3, <1>4, <1>5
<1>7. ASSUME NEW k \in DOMAIN w, w[k].kind \in {"foreach", "if"} PROVE Calls(w[k].body) \subseteq Calls(w)
  <2>1. Opened[w[k]] = Gather(Opened, w[k].body)
    BY <1>1, <1>3, <1>7 DEF Opening
  <2>2. QED
    BY <1>6, <2>1 DEF Calls
<1>8. ASSUME NEW k \in DOMAIN w, w[k].kind \notin {"foreach", "if"} PROVE w[k] \in Calls(w)
  <2>1. Opened[w[k]] = <<w[k]>>
    BY <1>1, <1>3, <1>8 DEF Opening
  <2>2. w[k] \in ToSet(<<w[k]>>)
    BY DEF ToSet
  <2>3. QED
    BY <1>6, <2>1, <2>2
<1>9. QED
  BY <1>7, <1>8

LEMMA PartSound ==
    ASSUME NEW n, NEW rank, NEW depth, Tame(n, rank, depth), NEW names, NEW p \in Programs, Once(names, p),
           NEW l, Sound(names, p, l), NEW k \in DOMAIN l.text, NEW m \in Parts(p, l, k)
    PROVE  Sound(names, p, m)
<1>1. l \in Places /\ l.text \in Seq(Stmt) /\ l.text[k] \in Stmt /\ l.dir \in Dir
  BY PlaceFields DEF Sound
<1>2. CASE l.text[k].kind = "if" /\ m = Block(Nth(l, k))
  <2>1. m \in Places /\ m.dir = l.dir /\ m.text = l.text[k].body
    BY <1>1, <1>2, BlockPlace
  <2>2. Apart(names, m.text)
    BY <1>1, <1>2, <2>1 DEF Once
  <2>3. Calls(m.text) \subseteq Calls(l.text)
    BY <1>1, <1>2, <2>1, CallsOf
  <2>4. QED
    BY <2>1, <2>2, <2>3 DEF Sound
<1>3. CASE Includes(l, k) /\ m = InnerOf(p, l, k)
  <2>1. m \in Places /\ m.text = p[m.dir] /\ m.dir \in Dir
    BY <1>1, <1>3, InnerPlace
  <2>2. Apart(names, m.text)
    BY <2>1 DEF Once
  <2>3. QED
    BY <2>1, <2>2 DEF Sound
<1>4. QED
  BY <1>2, <1>3, PartIs

(* Every tree among the data v of directory d stands behind the Subdir of the *)
(* name that leads to it.                                                     *)
Behind(p, d, v, k) ==
    \E a \in Arg : /\ Resolve[d][a] \in Exists /\ k - 1 \in 1 .. Len(v)
                   /\ v[k - 1] = Subdir(a) /\ v[k] = Tree(TreesOf(p)[Resolve[d][a]])
Coupled(p, d, v) == \A k \in 1 .. Len(v) : v[k].type = "tree" => Behind(p, d, v, k)

Has(p, d, v, a) == \E k \in 2 .. Len(v) : v[k - 1] = Subdir(a) /\ v[k] = Tree(TreesOf(p)[Resolve[d][a]])

LEMMA CoupledConcat ==
    ASSUME NEW V, NEW v, NEW w, Sequences2(V, v, w), NEW p, NEW d, Coupled(p, d, v), Coupled(p, d, w)
    PROVE  /\ Coupled(p, d, v \o w)
           /\ \A a : Has(p, d, v, a) \/ Has(p, d, w, a) => Has(p, d, v \o w, a)
<1> DEFINE c == v \o w
<1>1. /\ Len(v) \in Nat /\ Len(w) \in Nat /\ Len(c) = Len(v) + Len(w)
      /\ \A k \in 1 .. Len(v) : c[k] = v[k]
      /\ \A k \in 1 .. Len(w) : c[Len(v) + k] = w[k]
  BY TwoConcat
<1> HIDE DEF c
<1>2. ASSUME NEW k \in 1 .. Len(c), c[k].type = "tree" PROVE Behind(p, d, c, k)
  <2>1. CASE k \in 1 .. Len(v)
    <3>1. Behind(p, d, v, k)
      BY <1>1, <1>2, <2>1 DEF Coupled
    <3>2. PICK a \in Arg : /\ Resolve[d][a] \in Exists /\ k - 1 \in 1 .. Len(v)
                           /\ v[k - 1] = Subdir(a) /\ v[k] = Tree(TreesOf(p)[Resolve[d][a]])
      BY <3>1 DEF Behind
    <3>3. c[k - 1] = v[k - 1] /\ c[k] = v[k] /\ k - 1 \in 1 .. Len(c)
      <4>1. k - 1 \in 1 .. Len(v)
        BY <3>2
      <4>2. c[k - 1] = v[k - 1] /\ c[k] = v[k]
        BY <1>1, <2>1, <4>1, Zenon
      <4>3. k - 1 \in 1 .. Len(c)
        BY <1>1, <4>1
      <4>4. QED
        BY <4>2, <4>3
    <3>4. QED
      BY <3>2, <3>3 DEF Behind
  <2>2. CASE k \notin 1 .. Len(v)
    <3> DEFINE j == k - Len(v)
    <3>1. j \in 1 .. Len(w) /\ Len(v) + j = k
      BY <1>1, <2>2
    <3>2. Behind(p, d, w, j)
      BY <1>1, <1>2, <3>1 DEF Coupled
    <3>3. PICK a \in Arg : /\ Resolve[d][a] \in Exists /\ j - 1 \in 1 .. Len(w)
                           /\ w[j - 1] = Subdir(a) /\ w[j] = Tree(TreesOf(p)[Resolve[d][a]])
      BY <3>2 DEF Behind
    <3>4. Len(v) + (j - 1) = k - 1 /\ k - 1 \in 1 .. Len(c)
      BY <1>1, <3>1, <3>3
    <3> HIDE DEF j
    <3>5. c[k - 1] = w[j - 1] /\ c[k] = w[j]
      BY <1>1, <3>1, <3>3, <3>4
    <3>6. QED
      BY <3>3, <3>4, <3>5 DEF Behind
  <2>3. QED
    BY <2>1, <2>2
<1>3. ASSUME NEW a, Has(p, d, v, a) PROVE Has(p, d, c, a)
  <2>1. PICK k \in 2 .. Len(v) : v[k - 1] = Subdir(a) /\ v[k] = Tree(TreesOf(p)[Resolve[d][a]])
    BY <1>3 DEF Has
  <2>2. k \in 2 .. Len(c) /\ k \in 1 .. Len(v) /\ k - 1 \in 1 .. Len(v)
    BY <1>1
  <2>3. QED
    BY <1>1, <2>1, <2>2 DEF Has
<1>4. ASSUME NEW a, Has(p, d, w, a) PROVE Has(p, d, c, a)
  <2>1. PICK k \in 2 .. Len(w) : w[k - 1] = Subdir(a) /\ w[k] = Tree(TreesOf(p)[Resolve[d][a]])
    BY <1>4 DEF Has
  <2> DEFINE i == Len(v) + k
  <2>2. i \in 2 .. Len(c) /\ k \in 1 .. Len(w) /\ k - 1 \in 1 .. Len(w) /\ Len(v) + (k - 1) = i - 1
    BY <1>1
  <2>3. c[i] = w[k] /\ c[i - 1] = w[k - 1]
    BY <1>1, <2>2
  <2> HIDE DEF i
  <2>4. QED
    BY <2>1, <2>2, <2>3 DEF Has
<1>5. QED
  BY <1>2, <1>3, <1>4 DEF Coupled, c

(* It is so of what each statement adds, and of what all of them do. *)
LEMMA CoupledOne ==
    ASSUME NEW p, NEW d \in Dir, NEW s \in Stmt
    PROVE  /\ Coupled(p, d, DatasIn(p, d)[s])
           /\ s.kind = "subdir" /\ Resolve[d][s.arg] \in Exists => Has(p, d, DatasIn(p, d)[s], s.arg)
<1> DEFINE t == TreesOf(p)[Resolve[d][s.arg]]
           v == DatasIn(p, d)[s]
<1>1. v = DataOf(s, d, t)
  BY DEF DatasIn, Datas
<1>2. s.arg \in Arg
  BY StmtAssumption
<1>3. CASE s.kind = "subdir" /\ Resolve[d][s.arg] \in Exists
  <2>1. v = <<Subdir(s.arg), Tree(t)>>
    BY <1>1, <1>3 DEF DataOf
  <2>2. Subdir(s.arg).type = "subdir"
    BY DEF Subdir
  <2> HIDE DEF t, v
  <2>3. Len(v) = 2 /\ v[1] = Subdir(s.arg) /\ v[2] = Tree(t)
    BY <2>1
  <2>4. ASSUME NEW k \in 1 .. Len(v), v[k].type = "tree" PROVE Behind(p, d, v, k)
    <3>1. k = 2
      BY <2>2, <2>3, <2>4
    <3>2. QED
      BY <1>2, <1>3, <2>3, <3>1 DEF Behind, t
  <2>5. Has(p, d, v, s.arg)
    BY <2>3 DEF Has, t
  <2>6. QED
    BY <2>4, <2>5 DEF Coupled, v
<1>4. CASE ~(s.kind = "subdir" /\ Resolve[d][s.arg] \in Exists)
  <2>1. v = <<Symbol(s.arg, d)>> \/ v = <<Subdir(s.arg)>> \/ v = <<>>
    BY <1>1, <1>4 DEF DataOf
  <2>2. Symbol(s.arg, d).type # "tree" /\ Subdir(s.arg).type # "tree"
    BY DEF Symbol, Subdir
  <2> HIDE DEF v
  <2>3. \A k \in 1 .. Len(v) : v[k].type # "tree"
    BY <2>1, <2>2
  <2>4. QED
    BY <1>4, <2>3 DEF Coupled, v
<1>5. QED
  BY <1>3, <1>4

LEMMA CoupledAll ==
    ASSUME NEW p, NEW d \in Dir, NEW V, Gathers(DatasIn(p, d), Stmt, V)
    PROVE  \A w \in Seq(Stmt) :
              /\ Coupled(p, d, Gather(DatasIn(p, d), w))
              /\ \A s \in ToSet(w) : s.kind = "subdir" /\ Resolve[d][s.arg] \in Exists =>
                    Has(p, d, Gather(DatasIn(p, d), w), s.arg)
<1> DEFINE g == DatasIn(p, d)
           Call(s) == s.kind = "subdir" /\ Resolve[d][s.arg] \in Exists
           P(w) == /\ Coupled(p, d, Gather(g, w))
                   /\ \A s \in ToSet(w) : Call(s) => Has(p, d, Gather(g, w), s.arg)
           S == {m \in Nat : \A w \in Seq(Stmt) : Len(w) = m => P(w)}
<1>1. 0 \in S
  <2>1. SUFFICES ASSUME NEW w \in Seq(Stmt), Len(w) = 0 PROVE P(w)
    OBVIOUS
  <2>2. w = <<>>
    BY <2>1
  <2>3. Gather(g, w) = <<>>
    BY <2>2, GatherEmpty
  <2>4. ToSet(w) = {}
    BY <2>2 DEF ToSet
  <2>5. Coupled(p, d, <<>>)
    BY DEF Coupled
  <2>6. QED
    BY <2>3, <2>4, <2>5
<1>2. ASSUME NEW m \in Nat, m \in S PROVE m + 1 \in S
  <2>1. SUFFICES ASSUME NEW w \in Seq(Stmt), Len(w) = m + 1 PROVE P(w)
    OBVIOUS
  <2>2. PICK u \in Seq(Stmt), s \in Stmt : w = Append(u, s)
    <3>1. w # <<>>
      BY <2>1
    <3>2. QED
      BY <3>1, SequenceEmptyOrAppend
  <2>3. Len(u) = m /\ w = u \o <<s>> /\ <<s>> \in Seq(Stmt)
    BY <2>1, <2>2
  <2>4. P(u)
    BY <1>2, <2>3
  <2> HIDE DEF S
  <2>5. Gather(g, w) = Gather(g, u) \o g[s] /\ Gather(g, u) \in Seq(V) /\ g[s] \in Seq(V)
    <3>1. Gathers(g, Stmt, V)
      OBVIOUS
    <3> DEFINE one == <<s>>
    <3>4. one \in Seq(Stmt) /\ w = u \o one
      BY <2>3
    <3> HIDE DEF g, one
    <3>5. Gather(g, u \o one) = Gather(g, u) \o Gather(g, one)
      BY <3>1, <3>4, GatherConcat
    <3>2. Gather(g, w) = Gather(g, u) \o Gather(g, <<s>>)
      BY <3>4, <3>5, Zenon DEF one
    <3>3. Gather(g, <<s>>) = g[s] /\ Gather(g, u) \in Seq(V)
      BY <3>1, GatherOne, GatherType
    <3>6. QED
      BY <3>1, <3>2, <3>3 DEF Gathers
  <2>6. Coupled(p, d, g[s]) /\ (Call(s) => Has(p, d, g[s], s.arg))
    BY CoupledOne
  <2>7. ToSet(w) = ToSet(u) \union ToSet(<<s>>) /\ ToSet(<<s>>) = {s}
    <3>1. ToSet(<<s>>) = {s}
      BY DEF ToSet
    <3> DEFINE one == <<s>>
    <3>2. one \in Seq(Stmt) /\ w = u \o one
      BY <2>3
    <3> HIDE DEF one
    <3>3. ToSet(u \o one) = ToSet(u) \union ToSet(one)
      BY <3>2, ElementsConcat
    <3>4. QED
      BY <3>1, <3>2, <3>3, Zenon DEF one
  <2>8. /\ Coupled(p, d, Gather(g, u) \o g[s])
        /\ \A a : Has(p, d, Gather(g, u), a) \/ Has(p, d, g[s], a) => Has(p, d, Gather(g, u) \o g[s], a)
    <3>1. Sequences2(V, Gather(g, u), g[s])
      BY <2>5 DEF Sequences2
    <3>2. QED
      BY <2>4, <2>6, <3>1, CoupledConcat
  <2> HIDE DEF g, Call
  <2>9. QED
    BY <2>4, <2>5, <2>6, <2>7, <2>8
<1>3. \A m \in Nat : m \in S
  <2> HIDE DEF S
  <2>1. QED
    BY <1>1, <1>2, InductionOnNaturals
<1>4. \A w \in Seq(Stmt) : Len(w) \in Nat
  OBVIOUS
<1>5. QED
  BY <1>3, <1>4

(* What merge() finds next to the Subdirs of a name: the tree that the name   *)
(* leads to, if a call with it was collected.                                 *)
Finds(p, d, tree) ==
    /\ tree.dir = d
    /\ \A a : Included(tree, a) \subseteq Nat
    /\ \A a, k : k \in Included(tree, a) =>
          /\ a \in Arg /\ Resolve[d][a] \in Exists
          /\ tree.datas[k].tree = TreesOf(p)[Resolve[d][a]]
    /\ \A s \in Calls(p[d]) :
          s.kind = "subdir" /\ Resolve[d][s.arg] \in Exists => Included(tree, s.arg) # {}

LEMMA IncludedIs ==
    ASSUME NEW n, NEW rank, NEW depth, Tame(n, rank, depth), NEW p \in Programs, NEW d \in Dir,
           NEW tree, tree = TreesOf(p)[d]
    PROVE  Finds(p, d, tree)
<1> DEFINE v == Gather(DatasIn(p, d), Gather(Opened, p[d]))
           w == Gather(Opened, p[d])
<1>1. tree = Building(TreesOf(p), p, d)
  BY TreesUnfold
<1>2. tree.dir = d /\ tree.datas = v
  BY <1>1 DEF Building, DatasIn
<1>3. Gathers(Opened, Stmt, Stmt) /\ Gathers(DatasIn(p, d), Stmt, Values(p))
  BY DatasAdd DEF Adds
<1>4. w \in Seq(Stmt)
  <2>1. p[d] \in Seq(Stmt)
    BY ProgramAssumption
  <2>2. QED
    BY <1>3, <2>1, GatherType
<1>5. /\ Coupled(p, d, v)
      /\ \A s \in ToSet(w) : s.kind = "subdir" /\ Resolve[d][s.arg] \in Exists => Has(p, d, v, s.arg)
  BY <1>3, <1>4, CoupledAll
<1>6. Len(v) \in Nat
  BY <1>3, <1>4, GatherType
<1> HIDE DEF v, w
<1>7. ASSUME NEW a, NEW k, k \in Included(tree, a)
      PROVE  /\ a \in Arg /\ Resolve[d][a] \in Exists
             /\ tree.datas[k].tree = TreesOf(p)[Resolve[d][a]]
  <2>1. k \in 2 .. Len(v) /\ v[k].type = "tree" /\ v[k - 1].name = a
    BY <1>2, <1>7 DEF Included
  <2>2. k \in 1 .. Len(v)
    BY <1>6, <2>1
  <2>3. Behind(p, d, v, k)
    BY <1>5, <2>1, <2>2 DEF Coupled
  <2>4. PICK b \in Arg : /\ Resolve[d][b] \in Exists
                         /\ v[k - 1] = Subdir(b) /\ v[k] = Tree(TreesOf(p)[Resolve[d][b]])
    BY <2>3 DEF Behind
  <2>5. a = b
    BY <2>1, <2>4 DEF Subdir
  <2>6. v[k].tree = TreesOf(p)[Resolve[d][a]]
    BY <2>4, <2>5 DEF Tree
  <2>7. QED
    BY <1>2, <2>4, <2>5, <2>6
<1>8. ASSUME NEW s \in Calls(p[d]), s.kind = "subdir", Resolve[d][s.arg] \in Exists
      PROVE  Included(tree, s.arg) # {}
  <2>1. Has(p, d, v, s.arg)
    BY <1>5, <1>8 DEF Calls, w
  <2>2. PICK k \in 2 .. Len(v) : v[k - 1] = Subdir(s.arg) /\ v[k] = Tree(TreesOf(p)[Resolve[d][s.arg]])
    BY <2>1 DEF Has
  <2>3. k \in Included(tree, s.arg)
    BY <1>2, <2>2 DEF Included, Subdir, Tree
  <2>4. QED
    BY <2>3
<1>9. \A a : Included(tree, a) \subseteq Nat
  BY <1>2, <1>6 DEF Included
<1>10. QED
  BY <1>2, <1>7, <1>8, <1>9 DEF Finds

LEMMA UnderFacts ==
    ASSUME NEW names, NEW p, NEW ls, NEW t, NEW n, NEW S, NEW q, Under(names, p, ls, t, n, S, q)
    PROVE  /\ n \in Nat \ {0} /\ n \in 1 .. n /\ Extended(ls) /\ Complete(names, p, ls, S)
           /\ \A j \in 1 .. n - 1 : j \in 1 .. n /\ j < n
           /\ \A j \in 1 .. n : /\ OnWay(names, p, ls, S, t[j], q[j])
                                /\ Sound(names, p, t[j].list) /\ t[j].list \in Places
                                /\ q[j] \in 0 .. Len(t[j].list.text) /\ q[j] \in Nat
<1>1. n \in Nat \ {0} /\ n \in 1 .. n /\ Extended(ls) /\ Complete(names, p, ls, S)
      /\ \A j \in 1 .. n - 1 : j \in 1 .. n /\ j < n
  BY DEF Under, Frames
<1>2. ASSUME NEW j \in 1 .. n
      PROVE  /\ OnWay(names, p, ls, S, t[j], q[j]) /\ Sound(names, p, t[j].list)
             /\ t[j].list \in Places /\ q[j] \in 0 .. Len(t[j].list.text) /\ q[j] \in Nat
  <2>1. OnWay(names, p, ls, S, t[j], q[j])
    BY DEF Under
  <2>2. Sound(names, p, t[j].list) /\ t[j].list \in Places /\ q[j] \in 0 .. Len(t[j].list.text)
    BY <2>1 DEF OnWay, Sound
  <2>3. Len(t[j].list.text) \in Nat
    BY <2>2, PlaceFields
  <2>4. q[j] \in Nat
    BY <2>2, <2>3
  <2>5. QED
    BY <2>1, <2>2, <2>4
<1>3. QED
  BY <1>1, <1>2

(* A loop over a list that the statement leads to begins. *)
LEMMA PushRuns ==
    ASSUME NEW high, NEW rank, NEW depth, Tame(high, rank, depth),
           NEW names, NEW p \in Programs, Once(names, p), NEW ls, NEW t, NEW n, NEW S, NEW q,
           Running(names, p, ls, t, n, S, q), q[n] + 1 \in DOMAIN t[n].list.text,
           NEW m \in Parts(p, t[n].list, q[n] + 1),
           NEW e, e.list = m, e.i = 1, e.tree = TreesOf(p)[m.dir],
           NEW u, Frames(u, n + 1), \A k \in 1 .. n : u[k] = t[k], u[n + 1] = e
    PROVE  \E r : Running(names, p, ls, u, n + 1, S, r)
<1> DEFINE r == [k \in 1 .. n + 1 |-> IF k = n + 1 THEN 0 ELSE q[k]]
           l == t[n].list
           c == q[n] + 1
<1>1. Under(names, p, ls, t, n, S, q) /\ Passed(p, ls, l, q[n], t[n].i) /\ Fresh(names, ls, S, l, c)
  BY DEF Running
<1>2. /\ n \in Nat \ {0} /\ n \in 1 .. n /\ Extended(ls) /\ Complete(names, p, ls, S)
      /\ \A j \in 1 .. n : /\ OnWay(names, p, ls, S, t[j], q[j])
                           /\ Sound(names, p, t[j].list) /\ t[j].list \in Places
  BY <1>1, UnderFacts
<1>3. r[n + 1] = 0 /\ DOMAIN r = 1 .. n + 1 /\ \A k \in 1 .. n : r[k] = q[k]
  BY <1>2
<1>4. c \in DOMAIN l.text /\ l \in Places /\ names[l.text[c]] \subseteq Arg
  BY <1>2, NamesOf
<1>5. Sound(names, p, m) /\ m \in Places
  BY <1>2, <1>4, PartSound, AreaOfPart
<1>6. Area(names, m) \subseteq Below(names, l, c) /\ m \in Below(names, l, c)
  BY <1>4, AreaOfPart, PartBelow
<1>7. \A k \in DOMAIN m.text : Below(names, m, k) \subseteq Below(names, l, c)
  BY <1>5, <1>6, NamesOf, BelowInArea
<1> HIDE DEF r, c
<1>8. ASSUME NEW k \in DOMAIN m.text PROVE Fresh(names, ls, S, m, k)
  BY <1>1, <1>7 DEF Fresh
<1>9. OnWay(names, p, ls, S, e, 0)
  <2>1. 0 \in 0 .. Len(m.text) /\ 1 .. 0 = {}
    BY <1>5, PlaceFields
  <2>2. \A z \in S : m \notin Area(names, z)
    BY <1>1, <1>6 DEF Fresh
  <2>3. QED
    BY <1>5, <1>8, <2>1, <2>2 DEF OnWay
<1>10. \A j \in 1 .. n + 1 : j \in 1 .. n \/ j = n + 1
  BY <1>2
<1>11. \A j \in 1 .. n + 1 : OnWay(names, p, ls, S, u[j], r[j])
  BY <1>2, <1>3, <1>9, <1>10
<1>12. ASSUME NEW j \in 1 .. (n + 1) - 1
       PROVE  /\ Passed(p, ls, u[j].list, r[j], u[j].i)
              /\ r[j] + 1 \in DOMAIN u[j].list.text
              /\ u[j + 1].list \in Parts(p, u[j].list, r[j] + 1)
  <2>1. j \in 1 .. n /\ u[j] = t[j] /\ r[j] = q[j]
    BY <1>2, <1>3
  <2>2. CASE j = n
    BY <1>1, <2>1, <2>2 DEF c
  <2>3. CASE j # n
    <3>1. j \in 1 .. n - 1 /\ j + 1 \in 1 .. n
      BY <1>2, <2>1, <2>3
    <3>2. u[j + 1] = t[j + 1]
      BY <3>1
    <3>3. QED
      BY <1>1, <2>1, <3>1, <3>2 DEF Under
  <2>4. QED
    BY <2>2, <2>3
<1>13. ASSUME NEW i \in 1 .. n + 1, NEW j \in 1 .. n + 1, j < i
       PROVE  Area(names, u[i].list) \subseteq Below(names, u[j].list, r[j] + 1)
  <2>1. j \in 1 .. n /\ u[j] = t[j] /\ r[j] = q[j]
    BY <1>2, <1>3, <1>13
  <2>2. CASE i # n + 1
    <3>1. i \in 1 .. n
      BY <1>2, <2>2
    <3>2. QED
      BY <1>1, <1>13, <2>1, <3>1 DEF Under
  <2>3. CASE i = n + 1 /\ j = n
    BY <1>6, <2>1, <2>3 DEF c
  <2>4. CASE i = n + 1 /\ j # n
    <3>1. j < n
      BY <1>2, <2>1, <2>4
    <3>2. Area(names, l) \subseteq Below(names, t[j].list, q[j] + 1)
      BY <1>1, <1>2, <2>1, <3>1 DEF Under
    <3>3. Below(names, l, c) \subseteq Area(names, l)
      BY <1>4, BelowInArea
    <3>4. QED
      BY <1>6, <2>1, <2>4, <3>2, <3>3
  <2>5. QED
    BY <2>2, <2>3, <2>4
<1>14. DOMAIN ls \subseteq S \union {u[j].list : j \in 1 .. n + 1}
  <2>1. DOMAIN ls \subseteq S \union {t[j].list : j \in 1 .. n}
    BY <1>1 DEF Under
  <2>2. \A j \in 1 .. n : j \in 1 .. n + 1 /\ t[j].list = u[j].list
    BY <1>2
  <2>3. QED
    BY <2>1, <2>2
<1>15. u[1].list = FileOf(p, <<>>, Top)
  <2>1. 1 \in 1 .. n
    BY <1>2
  <2>2. QED
    BY <1>1, <2>1 DEF Under
<1>16. Under(names, p, ls, u, n + 1, S, r)
  BY <1>2, <1>3, <1>11, <1>12, <1>13, <1>14, <1>15 DEF Under
<1>17. Passed(p, ls, m, 0, 1)
  <2>1. m \notin DOMAIN ls
    BY <1>1, <1>6 DEF Fresh
  <2>2. QED
    BY <1>2, <1>5, <2>1, PassedNone
<1>18. Running(names, p, ls, u, n + 1, S, r)
  BY <1>3, <1>8, <1>16, <1>17 DEF Running
<1>19. QED
  BY <1>18

(* The innermost loop goes on to the next statement. *)
LEMMA AdvanceRuns ==
    ASSUME NEW names, NEW p, NEW ls, NEW t, NEW n, NEW S, NEW q, Under(names, p, ls, t, n, S, q),
           q[n] + 1 \in DOMAIN t[n].list.text, Handled(p, ls, S, t[n].list, q[n] + 1),
           NEW i, Passed(p, ls, t[n].list, q[n] + 1, i),
           NEW u, Frames(u, n), \A k \in 1 .. n - 1 : u[k] = t[k],
           u[n].tree = t[n].tree, u[n].list = t[n].list, u[n].i = i
    PROVE  \E r : Running(names, p, ls, u, n, S, r)
<1> DEFINE r == [k \in 1 .. n |-> IF k = n THEN q[n] + 1 ELSE q[k]]
           l == t[n].list
           c == q[n] + 1
<1>1. /\ n \in Nat \ {0} /\ n \in 1 .. n /\ Extended(ls) /\ Complete(names, p, ls, S)
      /\ \A j \in 1 .. n : /\ OnWay(names, p, ls, S, t[j], q[j])
                           /\ Sound(names, p, t[j].list) /\ t[j].list \in Places /\ q[j] \in Nat
  BY UnderFacts
<1>2. r[n] = c /\ DOMAIN r = 1 .. n /\ \A k \in 1 .. n - 1 : r[k] = q[k]
  BY <1>1
<1>3. c \in 0 .. Len(l.text) /\ c \in Nat
  BY <1>1 DEF Passed
<1>4. \A k \in 1 .. n : k = n \/ (k \in 1 .. n - 1 /\ k < n /\ u[k] = t[k])
  BY <1>1
<1>5. \A k \in 1 .. n : u[k].list = t[k].list
  BY <1>4
<1>6. OnWay(names, p, ls, S, u[n], c)
  <2>1. OnWay(names, p, ls, S, t[n], q[n]) /\ q[n] \in Nat
    BY <1>1
  <2>2. \A k \in 1 .. c : k = c \/ k \in 1 .. q[n]
    BY <2>1
  <2>3. \A k \in DOMAIN l.text : k > c + 1 => k > q[n] + 1
    BY <1>1, <2>1, PlaceFields
  <2> HIDE DEF r
  <2>4. \A k \in 1 .. c : Handled(p, ls, S, l, k)
    BY <2>1, <2>2 DEF OnWay
  <2>5. \A k \in DOMAIN l.text : k > c + 1 => Fresh(names, ls, S, l, k)
    BY <2>1, <2>3 DEF OnWay
  <2> HIDE DEF c
  <2>6. QED
    BY <1>3, <1>5, <2>1, <2>4, <2>5 DEF OnWay
<1> HIDE DEF r
<1>7. \A j \in 1 .. n : OnWay(names, p, ls, S, u[j], r[j])
  BY <1>1, <1>2, <1>4, <1>6 DEF c
<1>8. ASSUME NEW j \in 1 .. n - 1
      PROVE  /\ Passed(p, ls, u[j].list, r[j], u[j].i)
             /\ r[j] + 1 \in DOMAIN u[j].list.text
             /\ u[j + 1].list \in Parts(p, u[j].list, r[j] + 1)
  <2>1. j + 1 \in 1 .. n /\ u[j] = t[j] /\ r[j] = q[j]
    BY <1>1, <1>2
  <2>2. u[j + 1].list = t[j + 1].list
    BY <1>5, <2>1
  <2>3. QED
    BY <2>1, <2>2 DEF Under
<1>9. ASSUME NEW k \in 1 .. n, NEW j \in 1 .. n, j < k
      PROVE  Area(names, u[k].list) \subseteq Below(names, u[j].list, r[j] + 1)
  <2>1. j \in 1 .. n - 1 /\ u[j] = t[j] /\ r[j] = q[j] /\ u[k].list = t[k].list
    BY <1>1, <1>2, <1>5, <1>9
  <2>2. QED
    BY <1>9, <2>1 DEF Under
<1>10. DOMAIN ls \subseteq S \union {u[j].list : j \in 1 .. n}
  <2>1. DOMAIN ls \subseteq S \union {t[j].list : j \in 1 .. n}
    BY DEF Under
  <2>2. QED
    BY <1>5, <2>1
<1>11. u[1].list = FileOf(p, <<>>, Top)
  <2>1. 1 \in 1 .. n
    BY <1>1
  <2>2. QED
    BY <1>5, <2>1 DEF Under
<1>12. Under(names, p, ls, u, n, S, r)
  BY <1>1, <1>2, <1>7, <1>8, <1>9, <1>10, <1>11 DEF Under
<1>13. ASSUME c + 1 \in DOMAIN l.text PROVE Fresh(names, ls, S, l, c + 1)
  <2>1. OnWay(names, p, ls, S, t[n], q[n]) /\ q[n] \in Nat /\ c + 1 > q[n] + 1
    BY <1>1
  <2>2. QED
    BY <1>13, <2>1 DEF OnWay
<1>14. Running(names, p, ls, u, n, S, r)
  BY <1>2, <1>5, <1>12, <1>13 DEF Running
<1>15. QED
  BY <1>14

(* The innermost loop is at the end of its list. *)
Others(t, u, n) == Frames(u, n - 1) /\ \A k \in 1 .. n - 1 : u[k] = t[k]

LEMMA EndedOver ==
    ASSUME NEW names, NEW p \in Programs, NEW ls, NEW t, NEW n, NEW S, NEW q,
           Running(names, p, ls, t, n, S, q), t[n].i > Len(Listing(ls, t[n].list))
    PROVE  /\ Complete(names, p, ls, S \union {t[n].list})
           /\ Under(names, p, ls, t, n, S, q)
<1> DEFINE l == t[n].list
           T == S \union {l}
<1>1. Under(names, p, ls, t, n, S, q) /\ Passed(p, ls, l, q[n], t[n].i)
  BY DEF Running
<1>2. /\ n \in 1 .. n /\ Extended(ls) /\ Complete(names, p, ls, S)
      /\ OnWay(names, p, ls, S, t[n], q[n])
      /\ Sound(names, p, l) /\ l \in Places
  BY <1>1, UnderFacts
<1>3. q[n] = Len(l.text) /\ Listing(ls, l) = Made(p, ls, l, q[n])
  BY <1>1, <1>2, PassedAt
<1>4. DOMAIN l.text = 1 .. Len(l.text)
  BY <1>2, PlaceFields
<1>5. \A k \in DOMAIN l.text : Handled(p, ls, S, l, k)
  BY <1>2, <1>3, <1>4 DEF OnWay
<1>6. Over(names, p, ls, T, l)
  BY <1>2, <1>3, <1>5, HandledMore DEF Over
<1>7. \A m \in S : Over(names, p, ls, T, m)
  BY <1>2, HandledMore DEF Over, Complete
<1>8. QED
  BY <1>1, <1>6, <1>7 DEF Complete

LEMMA DropUnder ==
    ASSUME NEW names, NEW p \in Programs, Once(names, p), NEW ls, NEW t, NEW n, NEW S, NEW q,
           Running(names, p, ls, t, n, S, q), t[n].i > Len(Listing(ls, t[n].list)), n > 1,
           NEW u, Others(t, u, n), NEW T, T = S \union {t[n].list}
    PROVE  \E r :
              /\ Under(names, p, ls, u, n - 1, T, r)
              /\ Passed(p, ls, u[n - 1].list, r[n - 1], u[n - 1].i)
              /\ r[n - 1] + 1 \in DOMAIN u[n - 1].list.text
              /\ t[n].list \in Parts(p, u[n - 1].list, r[n - 1] + 1)
              /\ Handled(p, ls, T, u[n - 1].list, r[n - 1] + 1)
<1> DEFINE r == [k \in 1 .. n - 1 |-> q[k]]
           l == t[n].list
<1>1. Under(names, p, ls, t, n, S, q) /\ Complete(names, p, ls, T)
  BY EndedOver
<1>2. /\ n \in Nat \ {0} /\ n \in 1 .. n /\ Extended(ls)
      /\ \A j \in 1 .. n - 1 : j \in 1 .. n /\ j < n
      /\ \A j \in 1 .. n : /\ OnWay(names, p, ls, S, t[j], q[j])
                           /\ Sound(names, p, t[j].list) /\ t[j].list \in Places /\ q[j] \in Nat
  BY <1>1, UnderFacts
<1>3. DOMAIN r = 1 .. n - 1 /\ \A k \in 1 .. n - 1 : r[k] = q[k] /\ u[k] = t[k]
  BY DEF Others
<1>4. n - 1 \in Nat \ {0} /\ n - 1 \in 1 .. n - 1 /\ (n - 1) + 1 = n /\ 1 \in 1 .. n - 1
  BY <1>2
<1> HIDE DEF r
<1>5. ASSUME NEW j \in 1 .. n - 1
      PROVE  /\ Passed(p, ls, t[j].list, q[j], t[j].i)
             /\ q[j] + 1 \in DOMAIN t[j].list.text
             /\ t[j + 1].list \in Parts(p, t[j].list, q[j] + 1)
  BY <1>1 DEF Under
<1>6. ASSUME NEW j \in 1 .. n - 1 PROVE Area(names, l) \subseteq Below(names, t[j].list, q[j] + 1)
  BY <1>1, <1>2 DEF Under
<1>7. ASSUME NEW j \in 1 .. n - 1 PROVE OnWay(names, p, ls, T, u[j], r[j])
  <2>1. u[j] = t[j] /\ r[j] = q[j] /\ OnWay(names, p, ls, S, t[j], q[j])
    BY <1>2, <1>3
  <2>2. \A k \in 1 .. q[j] : Handled(p, ls, T, t[j].list, k)
    BY <2>1, HandledMore DEF OnWay
  <2>3. t[j].list \notin Area(names, l)
    <3>1. t[j].list \notin Below(names, t[j].list, q[j] + 1)
      BY <1>2, <1>5, NamesOf, BelowIs
    <3>2. QED
      BY <1>6, <3>1
  <2>4. ASSUME NEW k \in DOMAIN t[j].list.text, k > q[j] + 1 PROVE Fresh(names, ls, T, t[j].list, k)
    <3>1. k # q[j] + 1
      BY <1>2, <2>4, PlaceFields
    <3>2. Below(names, t[j].list, q[j] + 1) \cap Below(names, t[j].list, k) = {}
      BY <1>2, <1>5, <3>1, NamesOf, BelowApart DEF Sound
    <3>3. Area(names, l) \cap Below(names, t[j].list, k) = {}
      BY <1>6, <3>2
    <3>4. Fresh(names, ls, S, t[j].list, k)
      BY <2>1, <2>4 DEF OnWay
    <3>5. QED
      BY <3>3, <3>4, FreshMore
  <2>5. QED
    BY <2>1, <2>2, <2>3, <2>4 DEF OnWay
<1>8. ASSUME NEW j \in 1 .. (n - 1) - 1
      PROVE  /\ Passed(p, ls, u[j].list, r[j], u[j].i)
             /\ r[j] + 1 \in DOMAIN u[j].list.text
             /\ u[j + 1].list \in Parts(p, u[j].list, r[j] + 1)
  <2>1. j \in 1 .. n - 1 /\ j + 1 \in 1 .. n - 1
    BY <1>2
  <2>2. u[j + 1] = t[j + 1] /\ u[j] = t[j] /\ r[j] = q[j]
    BY <1>3, <2>1
  <2>3. QED
    BY <1>5, <2>1, <2>2
<1>9. ASSUME NEW k \in 1 .. n - 1, NEW j \in 1 .. n - 1, j < k
      PROVE  Area(names, u[k].list) \subseteq Below(names, u[j].list, r[j] + 1)
  BY <1>1, <1>2, <1>3, <1>9 DEF Under
<1>10. DOMAIN ls \subseteq T \union {u[j].list : j \in 1 .. n - 1}
  <2>1. DOMAIN ls \subseteq S \union {t[j].list : j \in 1 .. n}
    BY <1>1 DEF Under
  <2>2. \A j \in 1 .. n : j = n \/ (j \in 1 .. n - 1 /\ u[j] = t[j])
    BY <1>2, <1>3
  <2>3. QED
    BY <2>1, <2>2
<1>11. u[1].list = FileOf(p, <<>>, Top)
  BY <1>1, <1>3, <1>4 DEF Under
<1>12. Frames(u, n - 1)
  BY DEF Others
<1>13. Under(names, p, ls, u, n - 1, T, r)
  BY <1>1, <1>2, <1>3, <1>7, <1>8, <1>9, <1>10, <1>11, <1>12 DEF Under
<1>14. /\ Passed(p, ls, u[n - 1].list, r[n - 1], u[n - 1].i)
       /\ r[n - 1] + 1 \in DOMAIN u[n - 1].list.text
       /\ l \in Parts(p, u[n - 1].list, r[n - 1] + 1)
  BY <1>3, <1>4, <1>5
<1>15. Handled(p, ls, T, u[n - 1].list, r[n - 1] + 1)
  <2> DEFINE o == u[n - 1].list
             c == r[n - 1] + 1
  <2>1. l \in Parts(p, o, c)
    BY <1>14
  <2>2. Parts(p, o, c) = {l} /\ o.text[c].kind # "foreach"
    <3> HIDE DEF l, o, c
    <3>1. CASE o.text[c].kind = "if"
      <4>1. ~Includes(o, c)
        BY <3>1 DEF Includes
      <4>2. QED
        BY <2>1, <3>1, <4>1 DEF Parts
    <3>2. CASE o.text[c].kind # "if"
      <4>1. Includes(o, c) /\ o.text[c].kind = "subdir"
        BY <2>1, <3>2 DEF Parts, Includes
      <4>2. QED
        BY <2>1, <3>2, <4>1 DEF Parts
    <3>3. QED
      BY <3>1, <3>2
  <2> HIDE DEF o, c, l
  <2>3. QED
    BY <2>2 DEF Handled, o, c, l
<1>16. QED
  BY <1>13, <1>14, <1>15

(* The sequence of the loops. *)
LEMMA LoopPush ==
    ASSUME NEW t, NEW n, Frames(t, n), NEW e
    PROVE  /\ Frames(Append(t, e), n + 1) /\ Len(Append(t, e)) = n + 1 /\ Append(t, e)[n + 1] = e
           /\ \A k \in 1 .. n : Append(t, e)[k] = t[k]
<1>1. PICK V : t \in Seq(V)
  BY DEF Frames
<1>2. n \in Nat \ {0} /\ Len(t) = n
  BY DEF Frames
<1> DEFINE W == V \union {e}
           u == Append(t, e)
<1>3. t \in Seq(W) /\ e \in W
  BY <1>1
<1> HIDE DEF W
<1>4. u \in Seq(W) /\ Len(u) = n + 1 /\ u[n + 1] = e /\ \A k \in 1 .. n : u[k] = t[k]
  BY <1>2, <1>3
<1> HIDE DEF u
<1>5. DOMAIN u = 1 .. n + 1
  BY <1>4
<1>6. QED
  BY <1>2, <1>4, <1>5 DEF Frames, u

LEMMA LoopStep ==
    ASSUME NEW t, NEW n, Frames(t, n), NEW d
    PROVE  /\ Frames(Step(d, t), n) /\ Len(Step(d, t)) = n
           /\ \A k \in 1 .. n - 1 : Step(d, t)[k] = t[k]
           /\ Step(d, t)[n].tree = t[n].tree /\ Step(d, t)[n].list = t[n].list
           /\ Step(d, t)[n].i = t[n].i + d
<1>1. PICK V : t \in Seq(V)
  BY DEF Frames
<1>2. n \in Nat \ {0} /\ Len(t) = n /\ DOMAIN t = 1 .. n
  BY DEF Frames
<1> DEFINE e == Advanced(t[n], d)
           W == V \union {e}
           u == Step(d, t)
<1>3. u = [k \in 1 .. n |-> IF k = n THEN e ELSE t[k]]
  BY <1>2 DEF Step
<1>4. \A k \in 1 .. n : (IF k = n THEN e ELSE t[k]) \in W
  BY <1>1, <1>2
<1>5. e.tree = t[n].tree /\ e.list = t[n].list /\ e.i = t[n].i + d
  BY DEF Advanced
<1> HIDE DEF W, e, u
<1>6. u \in Seq(W) /\ DOMAIN u = 1 .. n /\ Len(u) = n
  BY <1>2, <1>3, <1>4
<1>7. u[n] = e /\ \A k \in 1 .. n - 1 : u[k] = t[k]
  BY <1>2, <1>3
<1>8. QED
  BY <1>2, <1>5, <1>6, <1>7 DEF Frames, u

LEMMA LoopFront ==
    ASSUME NEW t, NEW n, Frames(t, n), n > 1
    PROVE  Others(t, Front(t), n)
<1>1. PICK V : t \in Seq(V)
  BY DEF Frames
<1>2. n \in Nat \ {0} /\ Len(t) = n
  BY DEF Frames
<1> DEFINE u == Front(t)
<1>3. u = SubSeq(t, 1, n - 1)
  BY <1>2 DEF Front
<1>4. u \in Seq(V) /\ Len(u) = n - 1 /\ \A k \in 1 .. n - 1 : u[k] = t[k]
  BY <1>1, <1>2, <1>3
<1> HIDE DEF u
<1>5. DOMAIN u = 1 .. n - 1 /\ n - 1 \in Nat \ {0}
  BY <1>2, <1>4
<1>6. QED
  BY <1>4, <1>5 DEF Others, Frames, u

(* The statement that the innermost loop is at, and the trees for it. *)
LEMMA LoopElement ==
    ASSUME NEW high, NEW rank, NEW depth, Tame(high, rank, depth),
           NEW names, program \in Programs, Once(names, program), NEW S, NEW q,
           Running(names, program, lists, loops, Len(loops), S, q), Loop.i <= Len(List(Loop.list))
    PROVE  LET l == Loop.list
               c == q[Len(loops)] + 1
           IN /\ l = loops[Len(loops)].list /\ Loop = loops[Len(loops)]
              /\ c \in DOMAIN l.text /\ Element = Nth(l, c) /\ Element.text = l.text[c]
              /\ IncludedBy(Element) # {} <=> Includes(l, c)
              /\ IncludedBy(Element) # {} =>
                    /\ First(IncludedBy(Element)) \in IncludedBy(Element)
                    /\ Loop.tree.datas[First(IncludedBy(Element))].tree
                           = TreesOf(program)[Resolve[l.dir][l.text[c].arg]]
<1> DEFINE n == Len(loops)
           l == Loop.list
           c == q[n] + 1
           s == l.text[c]
           B == IncludedBy(Element)
<1>1. Loop = loops[n]
  BY DEF Loop, Last
<1>2. Under(names, program, lists, loops, n, S, q) /\ Passed(program, lists, l, q[n], Loop.i)
  BY <1>1 DEF Running
<1>3. n \in 1 .. n /\ Extended(lists) /\ OnWay(names, program, lists, S, Loop, q[n])
      /\ Sound(names, program, l) /\ l \in Places /\ q[n] \in Nat
  BY <1>1, <1>2, UnderFacts
<1>4. List(l) = Listing(lists, l)
  BY DEF List, Listing
<1>5. c \in DOMAIN l.text /\ Element = Nth(l, c)
  BY <1>2, <1>3, <1>4, PassedAt DEF Element
<1>6. Element.text = s
  BY <1>5 DEF Nth
<1>7. s \in Stmt /\ l.dir \in Dir /\ Loop.tree = TreesOf(program)[l.dir]
  BY <1>3, <1>5, PlaceFields DEF OnWay
<1>8. Finds(program, l.dir, Loop.tree)
  BY <1>7, IncludedIs
<1>9. B = IF s.kind = "subdir" /\ s.arg \in Literal THEN Included(Loop.tree, s.arg) ELSE {}
  BY <1>6 DEF IncludedBy
<1>10. s.kind = "subdir" => s \in Calls(program[l.dir])
  <2>1. l.text \in Seq(Stmt)
    BY <1>3, PlaceFields
  <2>2. s.kind = "subdir" => s \in Calls(l.text)
    BY <1>5, <2>1, CallsOf
  <2>3. QED
    BY <1>3, <2>2 DEF Sound
<1>11. Includes(l, c) <=> s.kind = "subdir" /\ s.arg \in Literal /\ Resolve[l.dir][s.arg] \in Exists
  BY DEF Includes
<1> HIDE DEF B, s, l
<1>12. B # {} <=> Includes(l, c)
  BY <1>8, <1>9, <1>10, <1>11 DEF Finds
<1>13. B \in SUBSET Nat
  BY <1>8, <1>9 DEF Finds
<1>14. ASSUME B # {} PROVE First(B) \in B
  <2>1. \E k \in B : \A j \in B : k <= j
    BY <1>13, <1>14, LeastNatural
  <2>2. QED
    BY <2>1 DEF First
<1>15. ASSUME B # {}
       PROVE  Loop.tree.datas[First(B)].tree = TreesOf(program)[Resolve[l.dir][s.arg]]
  BY <1>8, <1>9, <1>14, <1>15 DEF Finds
<1>16. QED
  BY <1>1, <1>5, <1>6, <1>12, <1>14, <1>15 DEF B, s, l

(* The loops t are under way. *)
Runs(names, p, ls, t) == \E S, q : Running(names, p, ls, t, Len(t), S, q)

LEMMA StartRuns ==
    ASSUME NEW high, NEW rank, NEW depth, Tame(high, rank, depth),
           NEW names, program \in Programs, Once(names, program),
           lists = <<>>, result = TreesOf(program)[Top], StartMerge
    PROVE  Runs(names, program, lists', loops')
<1> DEFINE f == FileLoop(<<>>, result)
           m == FileOf(program, <<>>, Top)
           t == <<f>>
           q == [k \in 1 .. 1 |-> 0]
<1>1. Top \in Dir /\ program[Top] \in Seq(Stmt)
  BY DirAssumption, ProgramAssumption
<1>2. result.dir = Top
  <2>1. Finds(program, Top, result)
    BY <1>1, IncludedIs
  <2>2. QED
    BY <2>1 DEF Finds
<1>3. f.list = m /\ f.tree = TreesOf(program)[m.dir] /\ f.i = 1
  BY <1>2 DEF FileLoop, LoopOver, File, FileOf
<1>4. m.dir = Top /\ m.text = program[Top] /\ m \in Places
  <2>1. <<>> \in Seq(Arg) /\ <<>> \in Seq(Nat)
    OBVIOUS
  <2>2. QED
    BY <1>1, <2>1 DEF FileOf, Places
<1>5. Sound(names, program, m)
  BY <1>1, <1>4 DEF Sound, Once
<1>6. Frames(t, 1) /\ Len(t) = 1 /\ t[1] = f
  <2> DEFINE W == {f}
  <2>1. t \in Seq(W) /\ Len(t) = 1 /\ DOMAIN t = 1 .. 1 /\ t[1] = f
    OBVIOUS
  <2> HIDE DEF t, W
  <2>2. QED
    BY <2>1 DEF Frames
<1> HIDE DEF f, m, t
<1>7. DOMAIN lists = {} /\ Extended(lists)
  BY DEF Extended
<1>8. \A k : Fresh(names, lists, {}, m, k)
  BY <1>7 DEF Fresh
<1>9. q[1] = 0 /\ DOMAIN q = 1 .. 1 /\ 0 \in 0 .. Len(m.text) /\ 1 .. 0 = {}
  BY <1>4, PlaceFields
<1> HIDE DEF q
<1>10. OnWay(names, program, lists, {}, f, 0)
  BY <1>3, <1>5, <1>8, <1>9 DEF OnWay
<1>11. Passed(program, lists, m, 0, 1)
  BY <1>4, <1>7, PassedNone
<1>12. \A k \in 1 .. 1 : k = 1
  OBVIOUS
<1>13. Complete(names, program, lists, {})
  BY DEF Complete
<1>14. 1 .. 1 - 1 = {} /\ \A i, j \in 1 .. 1 : ~(j < i)
  OBVIOUS
<1>15. Under(names, program, lists, t, 1, {}, q)
  BY <1>3, <1>6, <1>7, <1>9, <1>10, <1>12, <1>13, <1>14 DEF Under, m
<1>16. Running(names, program, lists, t, 1, {}, q)
  BY <1>3, <1>6, <1>8, <1>9, <1>11, <1>15 DEF Running
<1>17. lists' = lists /\ loops' = t
  BY DEF StartMerge, t, f
<1>18. QED
  BY <1>6, <1>16, <1>17 DEF Runs

(* The steps of the loops. *)
Steps(high, rank, depth, names, S, q) ==
    /\ Tame(high, rank, depth) /\ program \in Programs /\ Once(names, program)
    /\ Running(names, program, lists, loops, Len(loops), S, q)

LEMMA AtStatement ==
    ASSUME NEW high, NEW rank, NEW depth, NEW names, NEW S, NEW q, Steps(high, rank, depth, names, S, q)
    PROVE  LET n == Len(loops) IN
           /\ Under(names, program, lists, loops, n, S, q) /\ Frames(loops, n) /\ n \in Nat \ {0}
           /\ Loop = loops[n] /\ Loop.list \in Places /\ Loop.tree = TreesOf(program)[Loop.list.dir]
           /\ Passed(program, lists, Loop.list, q[n], Loop.i) /\ Extended(lists)
           /\ List(Loop.list) = Listing(lists, Loop.list)
           /\ q[n] + 1 \in DOMAIN Loop.list.text => Fresh(names, lists, S, Loop.list, q[n] + 1)
<1> DEFINE n == Len(loops)
<1>1. Loop = loops[n]
  BY DEF Loop, Last
<1>2. /\ Under(names, program, lists, loops, n, S, q) /\ Passed(program, lists, Loop.list, q[n], Loop.i)
      /\ q[n] + 1 \in DOMAIN Loop.list.text => Fresh(names, lists, S, Loop.list, q[n] + 1)
  BY <1>1 DEF Steps, Running
<1>3. n \in Nat \ {0} /\ n \in 1 .. n /\ Extended(lists) /\ Loop.list \in Places
      /\ OnWay(names, program, lists, S, Loop, q[n])
  BY <1>1, <1>2, UnderFacts
<1>4. Frames(loops, n)
  BY <1>2 DEF Under
<1>5. List(Loop.list) = Listing(lists, Loop.list)
  BY DEF List, Listing
<1>6. QED
  BY <1>1, <1>2, <1>3, <1>4, <1>5 DEF OnWay

LEMMA SelectionRuns ==
    ASSUME NEW high, NEW rank, NEW depth, NEW names, NEW S, NEW q, Steps(high, rank, depth, names, S, q),
           MergeSelection
    PROVE  Runs(names, program, lists', loops')
<1> DEFINE n == Len(loops)
           l == Loop.list
           c == q[n] + 1
           m == Block(Nth(l, c))
           e == LoopOver(Loop.tree, Block(Element))
           u == Append(loops, e)
<1>1. /\ Running(names, program, lists, loops, n, S, q) /\ Frames(loops, n)
      /\ l = loops[n].list /\ l \in Places /\ Loop.tree = TreesOf(program)[l.dir]
  BY AtStatement DEF Steps
<1>2. c \in DOMAIN l.text /\ Element = Nth(l, c) /\ l.text[c].kind = "if"
  BY LoopElement DEF Steps, MergeSelection, AtElement
<1>3. m \in Parts(program, l, c)
  BY <1>2 DEF Parts
<1>4. m.dir = l.dir
  BY <1>1, <1>2, BlockPlace
<1>5. e.list = m /\ e.i = 1 /\ e.tree = TreesOf(program)[m.dir]
  BY <1>1, <1>2, <1>4 DEF LoopOver
<1> HIDE DEF e, m, l, c
<1>6. Frames(u, n + 1) /\ Len(u) = n + 1 /\ u[n + 1] = e /\ \A k \in 1 .. n : u[k] = loops[k]
  BY <1>1, LoopPush
<1> HIDE DEF u, n
<1>7. \E r : Running(names, program, lists, u, n + 1, S, r)
  BY <1>1, <1>2, <1>3, <1>5, <1>6, PushRuns DEF Steps, c
<1>8. lists' = lists /\ loops' = u
  BY DEF MergeSelection, AtElement, u, e
<1>9. QED
  BY <1>6, <1>7, <1>8 DEF Runs

LEMMA SubdirRuns ==
    ASSUME NEW high, NEW rank, NEW depth, NEW names, NEW S, NEW q, Steps(high, rank, depth, names, S, q),
           MergeSubdir
    PROVE  Runs(names, program, lists', loops')
<1> DEFINE n == Len(loops)
           l == Loop.list
           c == q[n] + 1
           a == l.text[c].arg
           d == Resolve[l.dir][a]
           m == InnerOf(program, l, c)
           tree == Loop.tree.datas[First(IncludedBy(Element))].tree
           e == FileLoop(Append(Loop.list.path, Element.text.arg), tree)
           u == Append(loops, e)
<1>1. /\ Running(names, program, lists, loops, n, S, q) /\ Frames(loops, n)
      /\ l = loops[n].list /\ l \in Places
  BY AtStatement DEF Steps
<1>2. /\ c \in DOMAIN l.text /\ Element.text = l.text[c] /\ Includes(l, c)
      /\ tree = TreesOf(program)[d]
  BY LoopElement DEF Steps, MergeSubdir, AtElement
<1>3. m \in Parts(program, l, c)
  BY <1>2, InnerIsPart
<1>4. d \in Dir /\ m.dir = d
  BY <1>1, <1>2, InnerPlace DEF Steps
<1>5. tree.dir = d
  <2> HIDE DEF d, tree
  <2>1. Finds(program, d, tree)
    BY <1>2, <1>4, IncludedIs DEF Steps
  <2>2. QED
    BY <2>1 DEF Finds
<1>6. e.list = m /\ e.i = 1 /\ e.tree = TreesOf(program)[m.dir]
  <2>1. File(Append(l.path, a), d) = m
    BY DEF File, InnerOf, FileOf
  <2>2. e = LoopOver(tree, File(Append(l.path, a), d))
    BY <1>2, <1>5 DEF FileLoop
  <2> HIDE DEF e, tree, d, m
  <2>3. QED
    BY <1>2, <1>4, <2>1, <2>2 DEF LoopOver
<1> HIDE DEF e, m, l, c, tree
<1>7. Frames(u, n + 1) /\ Len(u) = n + 1 /\ u[n + 1] = e /\ \A k \in 1 .. n : u[k] = loops[k]
  BY <1>1, LoopPush
<1> HIDE DEF u, n
<1>8. \E r : Running(names, program, lists, u, n + 1, S, r)
  BY <1>1, <1>2, <1>3, <1>6, <1>7, PushRuns DEF Steps, c
<1>9. lists' = lists /\ loops' = u
  BY DEF MergeSubdir, AtElement, u, e, tree
<1>10. QED
  BY <1>7, <1>8, <1>9 DEF Runs

LEMMA PassRuns ==
    ASSUME NEW high, NEW rank, NEW depth, NEW names, NEW S, NEW q, Steps(high, rank, depth, names, S, q),
           PassStatement
    PROVE  Runs(names, program, lists', loops')
<1> DEFINE n == Len(loops)
           l == Loop.list
           c == q[n] + 1
           u == Step(1, loops)
<1>1. /\ Under(names, program, lists, loops, n, S, q) /\ Frames(loops, n) /\ Extended(lists)
      /\ l = loops[n].list /\ l \in Places /\ Loop = loops[n]
      /\ Passed(program, lists, l, q[n], Loop.i) /\ List(l) = Listing(lists, l)
      /\ c \in DOMAIN l.text => Fresh(names, lists, S, l, c)
  BY AtStatement
<1>2. c \in DOMAIN l.text /\ l.text[c].kind # "if" /\ ~Includes(l, c)
  BY LoopElement DEF Steps, PassStatement, AtElement
<1>3. Loop.i <= Len(Listing(lists, l))
  BY <1>1 DEF PassStatement, AtElement
<1>4. Handled(program, lists, S, l, c)
  <2>1. Parts(program, l, c) = {}
    BY <1>2 DEF Parts
  <2>2. Inside(l, c) \cap DOMAIN lists = {}
    BY <1>1, <1>2 DEF Fresh, Below
  <2>3. QED
    BY <2>1, <2>2 DEF Handled
<1> HIDE DEF l
<1>5. Passed(program, lists, l, c, Loop.i + 1)
  BY <1>1, <1>2, <1>3, PassedNext DEF Steps
<1>6. /\ Frames(u, n) /\ Len(u) = n /\ \A k \in 1 .. n - 1 : u[k] = loops[k]
      /\ u[n].tree = loops[n].tree /\ u[n].list = loops[n].list /\ u[n].i = Loop.i + 1
  BY <1>1, LoopStep
<1> HIDE DEF u, n
<1>7. \E r : Running(names, program, lists, u, n, S, r)
  BY <1>1, <1>2, <1>4, <1>5, <1>6, AdvanceRuns
<1>8. lists' = lists /\ loops' = u
  BY DEF PassStatement, AtElement, u
<1>9. QED
  BY <1>6, <1>7, <1>8 DEF Runs

(* The loop around one that is at its end. *)
LEMMA AtEnding ==
    ASSUME NEW high, NEW rank, NEW depth, NEW names, NEW S, NEW q, Steps(high, rank, depth, names, S, q),
           AtEnd, Len(loops) > 1
    PROVE  LET n == Len(loops)
               o == loops[n - 1]
               T == S \union {Loop.list}
               t == Front(loops)
           IN \E r :
              /\ Under(names, program, lists, t, n - 1, T, r)
              /\ Frames(t, n - 1) /\ Len(t) = n - 1 /\ t[n - 1] = o /\ n - 1 \in 1 .. n - 1
              /\ Extended(lists) /\ o.list \in Places /\ r[n - 1] \in 0 .. Len(o.list.text)
              /\ Passed(program, lists, o.list, r[n - 1], o.i)
              /\ r[n - 1] + 1 \in DOMAIN o.list.text
              /\ Loop.list \in Parts(program, o.list, r[n - 1] + 1)
              /\ Handled(program, lists, T, o.list, r[n - 1] + 1)
              /\ o.i <= Len(Listing(lists, o.list))
<1> DEFINE n == Len(loops)
           o == loops[n - 1]
           T == S \union {Loop.list}
           t == Front(loops)
<1>1. /\ Running(names, program, lists, loops, n, S, q) /\ Frames(loops, n) /\ n \in Nat \ {0}
      /\ Loop = loops[n] /\ List(Loop.list) = Listing(lists, Loop.list)
  BY AtStatement DEF Steps
<1>2. Loop.i > Len(Listing(lists, Loop.list))
  BY <1>1 DEF AtEnd
<1>3. Others(loops, t, n)
  BY <1>1, LoopFront
<1>4. t[n - 1] = o /\ Frames(t, n - 1) /\ Len(t) = n - 1 /\ n - 1 \in 1 .. n - 1
  BY <1>1, <1>3 DEF Others, Frames
<1>5. PICK r :
      /\ Under(names, program, lists, t, n - 1, T, r)
      /\ Passed(program, lists, t[n - 1].list, r[n - 1], t[n - 1].i)
      /\ r[n - 1] + 1 \in DOMAIN t[n - 1].list.text
      /\ Loop.list \in Parts(program, t[n - 1].list, r[n - 1] + 1)
      /\ Handled(program, lists, T, t[n - 1].list, r[n - 1] + 1)
  <2>1. program \in Programs /\ Once(names, program) /\ n > 1
    BY DEF Steps
  <2>2. Loop.list = loops[n].list /\ loops[n].i > Len(Listing(lists, loops[n].list))
    BY <1>1, <1>2
  <2>3. T = S \union {loops[n].list}
    BY <2>2
  <2> HIDE DEF t, T
  <2>4. QED
    BY <1>1, <1>3, <2>1, <2>2, <2>3, DropUnder
<1> HIDE DEF t, o, T
<1>6. Extended(lists) /\ o.list \in Places /\ r[n - 1] \in 0 .. Len(o.list.text)
  BY <1>4, <1>5, UnderFacts
<1>7. o.i <= Len(Listing(lists, o.list))
  <2>1. Passed(program, lists, o.list, r[n - 1], o.i) /\ r[n - 1] + 1 \in DOMAIN o.list.text
    BY <1>4, <1>5
  <2>2. o.i \in Nat /\ (o.i > Len(Listing(lists, o.list)) => r[n - 1] = Len(o.list.text))
    BY <1>6, <2>1, PassedAt DEF Steps
  <2>3. r[n - 1] # Len(o.list.text)
    BY <1>6, <2>1, PlaceFields
  <2>4. Len(Listing(lists, o.list)) \in Nat
    <3>1. Listing(lists, o.list) \in Seq(Members)
      BY <1>6, ListingType
    <3>2. QED
      BY <3>1
  <2>5. QED
    BY <2>2, <2>3, <2>4
<1>8. QED
  BY <1>4, <1>5, <1>6, <1>7 DEF t, o, T

LEMMA BlockRuns ==
    ASSUME NEW high, NEW rank, NEW depth, NEW names, NEW S, NEW q, Steps(high, rank, depth, names, S, q),
           FinishBlock, Len(loops) > 1
    PROVE  Runs(names, program, lists', loops')
<1> DEFINE n == Len(loops)
           o == loops[n - 1]
           T == S \union {Loop.list}
           t == Front(loops)
           u == Step(1, t)
<1>1. PICK r :
         /\ Under(names, program, lists, t, n - 1, T, r)
         /\ Frames(t, n - 1) /\ Len(t) = n - 1 /\ t[n - 1] = o
         /\ Extended(lists) /\ o.list \in Places
         /\ Passed(program, lists, o.list, r[n - 1], o.i)
         /\ r[n - 1] + 1 \in DOMAIN o.list.text
         /\ Loop.list \in Parts(program, o.list, r[n - 1] + 1)
         /\ Handled(program, lists, T, o.list, r[n - 1] + 1)
         /\ o.i <= Len(Listing(lists, o.list))
  BY AtEnding DEF FinishBlock
<1> DEFINE c == r[n - 1] + 1
<1> HIDE DEF T, t, o
<1>2. ~Includes(o.list, c)
  <2>1. Loop.list.at # <<>>
    BY DEF FinishBlock
  <2>5. InnerOf(program, o.list, c).at = <<>>
    BY DEF InnerOf, FileOf
  <2>2. Loop.list # InnerOf(program, o.list, c)
    BY <2>1, <2>5
  <2>3. o.list.text[c].kind = "if"
    BY <1>1, <2>2, PartIs
  <2>4. QED
    BY <2>3 DEF Includes
<1>3. Passed(program, lists, o.list, c, o.i + 1)
  BY <1>1, <1>2, PassedNext DEF Steps
<1>4. /\ Frames(u, n - 1) /\ Len(u) = n - 1 /\ \A k \in 1 .. (n - 1) - 1 : u[k] = t[k]
      /\ u[n - 1].tree = o.tree /\ u[n - 1].list = o.list /\ u[n - 1].i = o.i + 1
  BY <1>1, LoopStep
<1> HIDE DEF u, n
<1>5. \E z : Running(names, program, lists, u, n - 1, T, z)
  BY <1>1, <1>3, <1>4, AdvanceRuns
<1>6. lists' = lists /\ loops' = u
  BY DEF FinishBlock, u, t
<1>7. QED
  BY <1>4, <1>5, <1>6 DEF Runs

LEMMA FinishRuns ==
    ASSUME NEW high, NEW rank, NEW depth, NEW names, NEW S, NEW q, Steps(high, rank, depth, names, S, q),
           FinishSubdir
    PROVE  Runs(names, program, lists', loops')
<1> DEFINE n == Len(loops)
           o == loops[n - 1]
           x == o.list
           T == S \union {Loop.list}
           t == Front(loops)
           new == List(Loop.list)
           all == Inserted(List(Outer.list), Outer.i, new)
           u == Step(Len(new) + 1, t)
           ls == [l \in DOMAIN lists \union {x} |-> IF l = x THEN all ELSE lists[l]]
<1>1. PICK r :
         /\ Under(names, program, lists, t, n - 1, T, r)
         /\ Frames(t, n - 1) /\ Len(t) = n - 1 /\ t[n - 1] = o /\ n - 1 \in 1 .. n - 1
         /\ Extended(lists) /\ x \in Places /\ r[n - 1] \in 0 .. Len(x.text)
         /\ Passed(program, lists, x, r[n - 1], o.i)
         /\ r[n - 1] + 1 \in DOMAIN x.text
         /\ Loop.list \in Parts(program, x, r[n - 1] + 1)
         /\ Handled(program, lists, T, x, r[n - 1] + 1)
         /\ o.i <= Len(Listing(lists, x))
  BY AtEnding DEF FinishSubdir
<1> DEFINE c == r[n - 1] + 1
<1>2. Outer = o /\ List(x) = Listing(lists, x)
  BY DEF Outer, List, Listing
<1>3. Includes(x, c) /\ Loop.list = InnerOf(program, x, c)
  <2>1. Loop.list.at = <<>>
    BY DEF FinishSubdir
  <2>2. Loop.list # Block(Nth(x, c))
    <3>1. Block(Nth(x, c)).at = Append(x.at, c) /\ x.at \in Seq(Nat)
      BY <1>1, BlockPlace, PlaceFields
    <3>2. Append(x.at, c) # <<>>
      BY <3>1, AppendNotEmpty, Zenon
    <3>3. QED
      BY <2>1, <3>1, <3>2
  <2>3. QED
    BY <1>1, <2>2, PartIs
<1>4. new = Listing(lists, InnerOf(program, x, c))
  BY <1>3 DEF List, Listing
<1>5. all = Inserted(Listing(lists, x), o.i, new)
  BY <1>2
<1> HIDE DEF T, t, x, o, new, all, u
<1>6. /\ all = Made(program, lists, x, c) \o Left(x, c)
      /\ o.i + (Len(new) + 1) = Len(Made(program, lists, x, c)) + 1
      /\ c \in 0 .. Len(x.text)
  <2> DEFINE j == r[n - 1]
  <2>1. /\ program \in Programs /\ Extended(lists) /\ x \in Places /\ Passed(program, lists, x, j, o.i)
        /\ j + 1 \in DOMAIN x.text /\ Includes(x, j + 1)
        /\ new = Listing(lists, InnerOf(program, x, j + 1))
    BY <1>1, <1>3, <1>4 DEF Steps
  <2>2. c = j + 1
    OBVIOUS
  <2> HIDE DEF j, c
  <2>4. Inserted(Listing(lists, x), o.i, new) = Made(program, lists, x, j + 1) \o Left(x, j + 1)
    BY <2>1, PassedInner
  <2>5. o.i + (Len(new) + 1) = Len(Made(program, lists, x, j + 1)) + 1 /\ j + 1 \in 0 .. Len(x.text)
    BY <2>1, PassedInner
  <2>6. QED
    BY <1>5, <2>2, <2>4, <2>5
<1>7. all \in Seq(Members)
  <2>1. Made(program, lists, x, c) \in Seq(Members) /\ Left(x, c) \in Seq(Members)
    BY <1>1, <1>6, MadeNext, LeftType DEF Steps
  <2>2. Sequences2(Members, Made(program, lists, x, c), Left(x, c))
    BY <2>1 DEF Sequences2
  <2>3. QED
    BY <1>6, <2>2, TwoConcat
<1>8. /\ DOMAIN ls = DOMAIN lists \union {x} /\ ls[x] = all
      /\ \A m \in DOMAIN lists : m # x => ls[m] = lists[m]
  OBVIOUS
<1> HIDE DEF ls
<1>9. Changed(lists, ls, x)
  <2>1. Extended(ls)
    BY <1>1, <1>7, <1>8 DEF Extended
  <2>2. QED
    BY <1>1, <1>8, <2>1 DEF Changed
<1>10. Under(names, program, ls, t, n - 1, T, r)
  <2>1. x = t[n - 1].list
    BY <1>1 DEF x
  <2>2. QED
    BY <1>1, <1>9, <2>1, UnderChange DEF Steps
<1>11. \A k \in DOMAIN x.text : x \notin Below(names, x, k)
  BY <1>1, NamesOf, BelowIs DEF Steps
<1>12. Handled(program, ls, T, x, c)
  BY <1>1, <1>9, <1>11, HandledUnmoved
<1>13. Passed(program, ls, x, c, o.i + (Len(new) + 1))
  <2>1. \A k \in 1 .. c : k \in DOMAIN x.text
    BY <1>1, <1>6, PlaceFields, SMTT(30)
  <2>2. Made(program, ls, x, c) = Made(program, lists, x, c)
    BY <1>1, <1>6, <1>9, <1>11, <2>1, MadeUnmoved DEF Steps
  <2>3. Listing(ls, x) = all
    BY <1>8 DEF Listing
  <2> HIDE DEF c
  <2>4. QED
    BY <1>6, <2>2, <2>3 DEF Passed
<1>14. /\ Frames(u, n - 1) /\ Len(u) = n - 1 /\ \A k \in 1 .. (n - 1) - 1 : u[k] = t[k]
       /\ u[n - 1].tree = o.tree /\ u[n - 1].list = x /\ u[n - 1].i = o.i + (Len(new) + 1)
  BY <1>1, LoopStep DEF u, x
<1> HIDE DEF n
<1>15. \E z : Running(names, program, ls, u, n - 1, T, z)
  <2>1. x = t[n - 1].list
    BY <1>1 DEF x
  <2>2. QED
    BY <1>1, <1>10, <1>12, <1>13, <1>14, <2>1, AdvanceRuns, ZenonT(40)
<1>16. lists' = ls /\ loops' = u
  BY <1>2 DEF FinishSubdir, u, t, new, ls, all, x
<1>17. QED
  BY <1>14, <1>15, <1>16 DEF Runs

(* What is merged is done. *)
Ended(names, p, ls) ==
    /\ Extended(ls)
    /\ \E S : Complete(names, p, ls, S) /\ FileOf(p, <<>>, Top) \in S /\ DOMAIN ls \subseteq S

LEMMA EndsMerge ==
    ASSUME NEW high, NEW rank, NEW depth, NEW names, NEW S, NEW q, Steps(high, rank, depth, names, S, q),
           AtEnd, Len(loops) = 1
    PROVE  Ended(names, program, lists)
<1>1. /\ Under(names, program, lists, loops, 1, S, q) /\ Loop = loops[1] /\ Extended(lists)
      /\ List(Loop.list) = Listing(lists, Loop.list)
      /\ Running(names, program, lists, loops, 1, S, q)
  BY AtStatement DEF Steps
<1>2. Complete(names, program, lists, S \union {Loop.list})
  <2>1. loops[1].i > Len(Listing(lists, loops[1].list))
    BY <1>1 DEF AtEnd
  <2>2. QED
    BY <1>1, <2>1, EndedOver DEF Steps
<1>3. DOMAIN lists \subseteq S \union {loops[j].list : j \in 1 .. 1} /\ loops[1].list = FileOf(program, <<>>, Top)
  BY <1>1 DEF Under
<1>4. DOMAIN lists \subseteq S \union {Loop.list}
  BY <1>1, <1>3
<1>5. QED
  BY <1>1, <1>2, <1>3, <1>4 DEF Ended

(* A block is in another list. *)
LEMMA BlockInner ==
    ASSUME NEW high, NEW rank, NEW depth, NEW names, NEW S, NEW q, Steps(high, rank, depth, names, S, q),
           FinishBlock
    PROVE  Len(loops) > 1
<1>1. /\ Under(names, program, lists, loops, Len(loops), S, q)
      /\ Loop = loops[Len(loops)] /\ Len(loops) \in Nat \ {0}
  BY AtStatement
<1>2. loops[1].list.at = <<>>
  BY <1>1 DEF Under, FileOf
<1>3. QED
  BY <1>1, <1>2 DEF FinishBlock
-----------------------------------------------------------------------------
(* What the merged lists unfold to. *)

(* A function that is determined by its values for elements less deep is the  *)
(* one that RecursionByDepth gives.                                           *)
LEMMA DeterminedByDepth ==
    ASSUME NEW T, NEW V, V # {}, NEW depth, NEW g, Local(T, V, depth, g),
           NEW F, DOMAIN F = T, F = [t \in T |-> F[t]],
           \A t \in T : \A h \in [T -> V] :
              (\A u \in T : depth[u] < depth[t] => F[u] = h[u]) => F[t] = g[t][h]
    PROVE  F \in [T -> V]
<1>1. PICK f \in [T -> V] : \A t \in T : f[t] = g[t][f]
  BY RecursionByDepth
<1> DEFINE S == {t \in T : F[t] = f[t]}
<1>2. depth \in [T -> Nat]
  BY DEF Local
<1>3. \A t \in T : (\A u \in T : depth[u] < depth[t] => u \in S) => t \in S
  BY <1>1
<1>4. T \subseteq S
  <2> HIDE DEF S
  <2>1. QED
    BY <1>2, <1>3, InductionByDepth
<1>5. \A t \in T : F[t] = f[t] /\ f[t] \in V
  BY <1>4
<1>6. QED
  BY <1>5

(* Gathering along a flattened sequence. *)
LEMMA GatherFlatten ==
    ASSUME NEW V, NEW T, NEW g, Gathers(g, T, V), NEW ss \in Seq(Seq(T))
    PROVE  /\ Gather(g, FlattenSeq(ss)) = FlattenSeq([k \in DOMAIN ss |-> Gather(g, ss[k])])
           /\ [k \in DOMAIN ss |-> Gather(g, ss[k])] \in Seq(Seq(V))
<1> DEFINE Im(t) == [k \in DOMAIN t |-> Gather(g, t[k])]
           P(t) == Gather(g, FlattenSeq(t)) = FlattenSeq(Im(t))
           S == {m \in Nat : \A t \in Seq(Seq(T)) : Len(t) = m => P(t)}
<1>1. ASSUME NEW t \in Seq(Seq(T))
      PROVE  Im(t) \in Seq(Seq(V)) /\ Len(Im(t)) = Len(t) /\ \A k \in 1 .. Len(t) : Im(t)[k] = Gather(g, t[k])
  <2>1. \A k \in 1 .. Len(t) : Gather(g, t[k]) \in Seq(V)
    <3>1. ASSUME NEW k \in 1 .. Len(t) PROVE Gather(g, t[k]) \in Seq(V)
      <4>1. t[k] \in Seq(T)
        OBVIOUS
      <4>2. QED
        BY <4>1, GatherType
    <3>2. QED
      BY <3>1
  <2>2. DOMAIN t = 1 .. Len(t) /\ Len(t) \in Nat
    OBVIOUS
  <2>3. Im(t) = [k \in 1 .. Len(t) |-> Gather(g, t[k])]
    BY <2>2
  <2>4. QED
    BY <2>1, <2>2, <2>3
<1>2. 0 \in S
  <2>1. SUFFICES ASSUME NEW t \in Seq(Seq(T)), Len(t) = 0 PROVE P(t)
    OBVIOUS
  <2>2. t = <<>> /\ Im(t) = <<>>
    BY <2>1
  <2>3. FlattenSeq(<<>>) = <<>>
    <3>1. <<>> \in Seq(Seq(T))
      OBVIOUS
    <3>2. QED
      BY <3>1, FlattenType
  <2>4. QED
    BY <2>2, <2>3, GatherEmpty
<1>3. ASSUME NEW m \in Nat, m \in S PROVE m + 1 \in S
  <2>1. SUFFICES ASSUME NEW t \in Seq(Seq(T)), Len(t) = m + 1 PROVE P(t)
    OBVIOUS
  <2>2. PICK u \in Seq(Seq(T)), x \in Seq(T) : t = Append(u, x)
    <3>1. t # <<>>
      BY <2>1
    <3>2. QED
      BY <3>1, SequenceEmptyOrAppend
  <2>3. Len(u) = m /\ t[m + 1] = x /\ \A k \in 1 .. m : t[k] = u[k]
    BY <2>1, <2>2
  <2>4. P(u)
    BY <1>3, <2>3
  <2>5. FlattenSeq(t) = FlattenSeq(u) \o x /\ FlattenSeq(u) \in Seq(T)
    BY <2>2, FlattenAppend, FlattenType
  <2>6. Gather(g, FlattenSeq(t)) = Gather(g, FlattenSeq(u)) \o Gather(g, x)
    BY <2>5, GatherConcat
  <2>7. Im(t) = Append(Im(u), Gather(g, x))
    <3>1. /\ Im(t) \in Seq(Seq(V)) /\ Len(Im(t)) = m + 1 /\ \A k \in 1 .. m + 1 : Im(t)[k] = Gather(g, t[k])
          /\ Im(u) \in Seq(Seq(V)) /\ Len(Im(u)) = m /\ \A k \in 1 .. m : Im(u)[k] = Gather(g, u[k])
      BY <1>1, <2>1, <2>3
    <3> DEFINE a == Im(t)
               b == Im(u)
               y == Gather(g, x)
    <3>2. y \in Seq(V)
      BY GatherType
    <3>3. a \in Seq(Seq(V)) /\ Len(a) = m + 1 /\ b \in Seq(Seq(V)) /\ Len(b) = m
          /\ a[m + 1] = y /\ \A k \in 1 .. m : a[k] = b[k]
      BY <2>3, <3>1
    <3> HIDE DEF a, b, y
    <3>4. \A k \in 1 .. m + 1 : k = m + 1 \/ k \in 1 .. m
      OBVIOUS
    <3> DEFINE e == Append(b, y)
    <3>5. Len(e) = m + 1 /\ e \in Seq(Seq(V)) /\ e[m + 1] = y /\ \A k \in 1 .. m : e[k] = b[k]
      BY <3>2, <3>3
    <3> HIDE DEF e
    <3>6. \A k \in 1 .. m + 1 : a[k] = e[k]
      BY <3>3, <3>4, <3>5
    <3>7. a = e
      BY <3>3, <3>5, <3>6
    <3>8. QED
      BY <3>7 DEF a, b, e, y
  <2>8. FlattenSeq(Im(t)) = FlattenSeq(Im(u)) \o Gather(g, x)
    <3>1. Im(u) \in Seq(Seq(V)) /\ Gather(g, x) \in Seq(V)
      BY <1>1, GatherType
    <3> DEFINE b == Im(u)
               y == Gather(g, x)
    <3>2. b \in Seq(Seq(V)) /\ y \in Seq(V) /\ Im(t) = Append(b, y)
      BY <2>7, <3>1
    <3> HIDE DEF b, y
    <3>3. FlattenSeq(Append(b, y)) = FlattenSeq(b) \o y
      BY <3>2, FlattenAppend
    <3>4. QED
      BY <3>2, <3>3 DEF b, y
  <2> HIDE DEF Im
  <2>9. QED
    BY <2>4, <2>6, <2>8
<1>4. \A m \in Nat : m \in S
  <2> HIDE DEF S
  <2>1. QED
    BY <1>2, <1>3, InductionOnNaturals
<1>5. Len(ss) \in Nat
  OBVIOUS
<1>6. P(ss)
  BY <1>4, <1>5
<1>7. QED
  BY <1>1, <1>6

Spots == [dir : Dir, at : Seq(Nat)]

LEMMA MemberIs ==
    ASSUME NEW e \in Members
    PROVE  /\ Spot(e) \in Spots /\ <<Spot(e)>> \in Seq(Spots)
           /\ Block(e) \in Places /\ Block(e).text = e.text.body /\ Block(e).dir = e.dir
<1>1. e.path \in Seq(Arg) /\ e.dir \in Dir /\ e.at \in Seq(Nat) /\ e.text \in Stmt
  BY DEF Members
<1>2. e.text.body \in Seq(Stmt)
  BY <1>1, StmtAssumption
<1>3. Block(e) = [path |-> e.path, dir |-> e.dir, at |-> e.at, text |-> e.text.body]
  BY DEF Block
<1>4. Block(e) \in Places /\ Block(e).text = e.text.body /\ Block(e).dir = e.dir
  BY <1>1, <1>2, <1>3 DEF Places
<1>5. Spot(e) \in Spots
  BY <1>1 DEF Spot, Spots
<1>6. QED
  BY <1>4, <1>5

(* The blocks of a list and the lists of the directories that it includes are *)
(* less deep than the list.                                                   *)
Deepness(rank, mu) ==
    /\ mu \in [Places -> Nat]
    /\ \A l \in Places : \A k \in DOMAIN l.text : mu[Block(Nth(l, k))] < mu[l]
    /\ \A l \in Places, m \in Places : rank[m.dir] > rank[l.dir] => mu[m] < mu[l]

LEMMA Weights ==
    ASSUME NEW c \in Nat, NEW x \in Nat, NEW y \in Nat, x < y, NEW b \in Nat, b < c, NEW d \in Nat
    PROVE  x * c + b < y * c + d /\ x * c + b \in Nat
<1> DEFINE z == y - (x + 1)
<1>1. z \in Nat /\ y = x + 1 + z
  OBVIOUS
<1> HIDE DEF z
<1>2. (x + 1 + z) * c = x * c + c + z * c
  BY <1>1
<1>3. z * c \in Nat /\ x * c \in Nat
  BY <1>1
<1>4. y * c = x * c + c + z * c
  BY <1>1, <1>2
<1> DEFINE zc == z * c
           xc == x * c
           yc == y * c
<1>5. yc = xc + c + zc /\ zc \in Nat /\ xc \in Nat
  BY <1>3, <1>4
<1> HIDE DEF zc, xc, yc
<1>6. xc + b < yc + d /\ xc + b \in Nat
  BY <1>5
<1>7. QED
  BY <1>6 DEF xc, yc

LEMMA DeepnessExists ==
    ASSUME NEW n, NEW rank, NEW depth, Tame(n, rank, depth)
    PROVE  \E mu : Deepness(rank, mu)
<1>1. /\ n \in Nat /\ rank \in [Dir -> Nat] /\ \A d \in Dir : rank[d] <= n
      /\ depth \in [Stmt -> Nat] /\ \A s \in Stmt : depth[s] <= n
      /\ \A s \in Stmt : \A i \in DOMAIN s.body : depth[s.body[i]] < depth[s]
  BY DEF Tame, Down, Nesting
<1> DEFINE B(l) == {v \in 0 .. n + 1 : \A k \in DOMAIN l.text : depth[l.text[k]] < v}
           b == [l \in Places |-> CHOOSE v \in B(l) : \A w \in B(l) : v <= w]
<1>2. ASSUME NEW l \in Places PROVE b[l] \in B(l) /\ (\A w \in B(l) : b[l] <= w)
  <2>1. n + 1 \in B(l)
    <3>1. \A k \in DOMAIN l.text : l.text[k] \in Stmt
      BY PlaceFields
    <3>2. \A s \in Stmt : depth[s] < n + 1
      BY <1>1
    <3>3. n + 1 \in 0 .. n + 1
      BY <1>1
    <3>4. QED
      BY <3>1, <3>2, <3>3
  <2>2. B(l) \in SUBSET Nat /\ B(l) # {}
    BY <1>1, <2>1
  <2> HIDE DEF B
  <2>3. \E v \in B(l) : \A w \in B(l) : v <= w
    BY <2>2, LeastNatural
  <2>4. QED
    BY <2>3
<1> HIDE DEF b
<1>3. ASSUME NEW l \in Places PROVE b[l] \in 0 .. n + 1
  BY <1>2
<1>4. ASSUME NEW l \in Places, NEW k \in DOMAIN l.text PROVE b[Block(Nth(l, k))] < b[l]
  <2> DEFINE m == Block(Nth(l, k))
             s == l.text[k]
  <2>1. m \in Places /\ m.text = s.body /\ s \in Stmt
    BY BlockPlace, PlaceFields
  <2> HIDE DEF m
  <2>2. depth[s] < b[l] /\ b[l] \in 0 .. n + 1
    BY <1>2
  <2>3. depth[s] \in 0 .. n + 1
    BY <1>1, <2>1
  <2>4. depth[s] \in B(m)
    BY <1>1, <2>1, <2>3
  <2>5. b[m] <= depth[s] /\ b[m] \in 0 .. n + 1
    BY <1>2, <1>3, <2>1, <2>4
  <2>6. b[m] < b[l]
    <3> HIDE DEF s
    <3>1. QED
      BY <1>1, <2>2, <2>3, <2>5
  <2>7. QED
    BY <2>6 DEF m
<1> HIDE DEF B
<1> DEFINE c == n + 2
           mu == [l \in Places |-> (n - rank[l.dir]) * c + b[l]]
<1>5. \A l \in Places : l.dir \in Dir /\ n - rank[l.dir] \in Nat /\ b[l] \in Nat /\ b[l] < c
  <2>1. ASSUME NEW l \in Places PROVE l.dir \in Dir /\ n - rank[l.dir] \in Nat /\ b[l] \in Nat /\ b[l] < c
    <3>1. l.dir \in Dir /\ b[l] \in 0 .. n + 1
      BY <1>3, PlaceFields
    <3>2. rank[l.dir] \in Nat /\ rank[l.dir] <= n
      BY <1>1, <3>1
    <3>3. QED
      BY <1>1, <3>1, <3>2
  <2>2. QED
    BY <2>1
<1>6. \A l \in Places : mu[l] = (n - rank[l.dir]) * c + b[l]
  OBVIOUS
<1>7. ASSUME NEW l \in Places PROVE (n - rank[l.dir]) * c \in Nat /\ mu[l] \in Nat
  <2> DEFINE x == n - rank[l.dir]
  <2>1. x \in Nat /\ c \in Nat /\ b[l] \in Nat
    BY <1>1, <1>5
  <2> HIDE DEF x, c
  <2>2. x * c \in Nat
    BY <2>1
  <2>3. QED
    BY <1>6, <2>1, <2>2 DEF x
<1>8. mu \in [Places -> Nat]
  BY <1>7
<1> HIDE DEF mu
<1>9. ASSUME NEW l \in Places, NEW k \in DOMAIN l.text PROVE mu[Block(Nth(l, k))] < mu[l]
  <2> DEFINE m == Block(Nth(l, k))
             x == (n - rank[l.dir]) * c
  <2>1. m \in Places /\ m.dir = l.dir
    BY BlockPlace
  <2>2. mu[m] = x + b[m] /\ mu[l] = x + b[l] /\ x \in Nat
    BY <1>6, <1>7, <2>1
  <2>3. b[m] < b[l] /\ b[m] \in Nat /\ b[l] \in Nat
    BY <1>4, <1>5, <2>1
  <2> HIDE DEF m, x
  <2>4. mu[m] < mu[l]
    BY <2>2, <2>3
  <2>5. QED
    BY <2>4 DEF m
<1>10. ASSUME NEW l \in Places, NEW m \in Places, rank[m.dir] > rank[l.dir] PROVE mu[m] < mu[l]
  <2> DEFINE x == n - rank[m.dir]
             y == n - rank[l.dir]
  <2>1. x < y
    BY <1>1, <1>5, <1>10
  <2>2. x \in Nat /\ y \in Nat /\ b[m] \in Nat /\ b[l] \in Nat /\ b[m] < c /\ c \in Nat
    BY <1>1, <1>5
  <2>3. mu[m] = x * c + b[m] /\ mu[l] = y * c + b[l]
    BY <1>6
  <2> HIDE DEF x, y, c
  <2>4. x * c + b[m] < y * c + b[l]
    BY <2>1, <2>2, Weights
  <2>5. QED
    BY <2>3, <2>4
<1>11. QED
  BY <1>8, <1>9, <1>10 DEF Deepness

(* What includes a directory is deeper than what the directory's file holds.  *)
LEMMA InnerLess ==
    ASSUME NEW n, NEW rank, NEW depth, Tame(n, rank, depth), NEW mu, Deepness(rank, mu),
           NEW p \in Programs, NEW l \in Places, NEW k \in DOMAIN l.text, Includes(l, k)
    PROVE  InnerOf(p, l, k) \in Places /\ mu[InnerOf(p, l, k)] < mu[l]
<1>1. InnerOf(p, l, k) \in Places /\ InnerOf(p, l, k).dir = Resolve[l.dir][l.text[k].arg]
  BY InnerPlace
<1>2. l.text[k] \in Stmt /\ l.dir \in Dir
  BY PlaceFields
<1>3. rank[Resolve[l.dir][l.text[k].arg]] > rank[l.dir]
  BY <1>2 DEF Includes, Tame, Down
<1>4. QED
  BY <1>1, <1>3 DEF Deepness

(* So are the blocks of the statements that come to be in a merged list. *)
Merged(names, S) ==
    /\ program \in Programs /\ Once(names, program) /\ Extended(lists)
    /\ Complete(names, program, lists, S) /\ DOMAIN lists \subseteq S

LEMMA MergedFacts ==
    ASSUME NEW names, NEW S, Merged(names, S), NEW l \in Places
    PROVE  /\ Listing(lists, l) \in Seq(Members)
           /\ l \notin DOMAIN lists => Listing(lists, l) = Left(l, 0)
           /\ l \in S => /\ Listing(lists, l) = FlattenSeq(Pieces(program, lists, l, Len(l.text)))
                         /\ \A k \in DOMAIN l.text : Handled(program, lists, S, l, k)
           /\ Pieces(program, lists, l, Len(l.text)) \in Seq(Seq(Members))
           /\ Len(Pieces(program, lists, l, Len(l.text))) = Len(l.text)
           /\ \A k \in DOMAIN l.text : Pieces(program, lists, l, Len(l.text))[k] = Piece(program, lists, l, k)
<1>1. Extended(lists) /\ program \in Programs
  BY DEF Merged
<1>2. Len(l.text) \in 0 .. Len(l.text) /\ DOMAIN l.text = 1 .. Len(l.text)
  BY PlaceFields
<1>3. l \in S => Over(names, program, lists, S, l)
  BY DEF Merged, Complete
<1>4. l \in S => /\ Listing(lists, l) = FlattenSeq(Pieces(program, lists, l, Len(l.text)))
                 /\ \A k \in DOMAIN l.text : Handled(program, lists, S, l, k)
  BY <1>3 DEF Over, Made
<1>5. /\ Pieces(program, lists, l, Len(l.text)) \in Seq(Seq(Members))
      /\ Len(Pieces(program, lists, l, Len(l.text))) = Len(l.text)
  BY <1>1, <1>2, MadeNext
<1>6. \A k \in DOMAIN l.text : Pieces(program, lists, l, Len(l.text))[k] = Piece(program, lists, l, k)
  BY <1>2 DEF Pieces
<1>7. QED
  BY <1>1, <1>4, <1>5, <1>6, ListingType

LEMMA BlocksLess ==
    ASSUME NEW n, NEW rank, NEW depth, Tame(n, rank, depth), NEW mu, Deepness(rank, mu),
           NEW names, NEW S, Merged(names, S)
    PROVE  \A l \in Places : \A e \in ToSet(Listing(lists, l)) : mu[Block(e)] < mu[l]
<1> DEFINE T == {l \in Places : \A e \in ToSet(Listing(lists, l)) : mu[Block(e)] < mu[l]}
<1>1. mu \in [Places -> Nat] /\ program \in Programs
  BY DEF Deepness, Merged
<1>2. ASSUME NEW l \in Places, \A m \in Places : mu[m] < mu[l] => m \in T PROVE l \in T
  <2>1. SUFFICES ASSUME NEW e \in ToSet(Listing(lists, l)) PROVE mu[Block(e)] < mu[l]
    OBVIOUS
  <2>2. CASE l \in S
    <3> DEFINE ss == Pieces(program, lists, l, Len(l.text))
    <3>1. /\ Listing(lists, l) = FlattenSeq(ss) /\ ss \in Seq(Seq(Members)) /\ Len(ss) = Len(l.text)
          /\ \A k \in DOMAIN l.text : ss[k] = Piece(program, lists, l, k)
      BY <2>2, MergedFacts
    <3>2. DOMAIN l.text = 1 .. Len(ss)
      BY <3>1, PlaceFields
    <3> HIDE DEF ss
    <3>3. PICK k \in DOMAIN l.text : e \in ToSet(Piece(program, lists, l, k))
      BY <2>1, <3>1, <3>2, ElementsFlatten
    <3>4. e = Nth(l, k) \/ (Includes(l, k) /\ e \in ToSet(Listing(lists, InnerOf(program, l, k))))
      <4> DEFINE x == <<Nth(l, k)>>
                 w == Listing(lists, InnerOf(program, l, k))
      <4>1. ToSet(x) = {Nth(l, k)}
        BY DEF ToSet
      <4>2. CASE Includes(l, k)
        <5>1. InnerOf(program, l, k) \in Places
          BY <1>1, <4>2, InnerPlace
        <5>2. w \in Seq(Members) /\ x \in Seq(Members)
          BY <5>1, MergedFacts, NthType
        <5>3. Piece(program, lists, l, k) = w \o x
          BY <4>2 DEF Piece
        <5> HIDE DEF x, w
        <5>4. ToSet(w \o x) = ToSet(w) \union ToSet(x)
          BY <5>2, ElementsConcat
        <5>5. QED
          BY <3>3, <4>1, <4>2, <5>3, <5>4 DEF w
      <4>3. CASE ~Includes(l, k)
        BY <3>3, <4>1, <4>3 DEF Piece
      <4>4. QED
        BY <4>2, <4>3
    <3>5. CASE e = Nth(l, k)
      BY <3>5 DEF Deepness
    <3>6. CASE Includes(l, k) /\ e \in ToSet(Listing(lists, InnerOf(program, l, k)))
      <4> DEFINE m == InnerOf(program, l, k)
      <4>1. m \in Places /\ mu[m] < mu[l]
        BY <1>1, <3>6, InnerLess
      <4>2. mu[Block(e)] < mu[m]
        BY <1>2, <3>6, <4>1
      <4>3. e \in Members
        <5>1. Listing(lists, m) \in Seq(Members)
          BY <4>1, MergedFacts
        <5>2. QED
          BY <3>6, <5>1, ElementsOf
      <4>4. Block(e) \in Places
        BY <4>3, MemberIs
      <4> HIDE DEF m
      <4>5. QED
        BY <1>1, <4>1, <4>2, <4>4
    <3>7. QED
      BY <3>4, <3>5, <3>6
  <2>3. CASE l \notin S
    <3>1. Listing(lists, l) = [k \in DOMAIN l.text |-> Nth(l, k)]
      BY <2>3 DEF Merged, Listing
    <3>2. PICK k \in DOMAIN l.text : e = Nth(l, k)
      BY <2>1, <3>1 DEF ToSet
    <3>3. QED
      BY <3>2 DEF Deepness
  <2>4. QED
    BY <2>2, <2>3
<1>3. Places \subseteq T
  <2> HIDE DEF T
  <2>1. QED
    BY <1>1, <1>2, InductionByDepth
<1>4. QED
  BY <1>3

(* What the statements of a list come to when f are the lists in their blocks.*)
Shown(f)        == [e \in Members |-> <<Spot(e)>> \o f[Block(e)]]
UnfoldOf(f, l)  ==
    FlattenSeq([k \in DOMAIN List(l) |-> <<Spot(List(l)[k])>> \o f[Block(List(l)[k])]])
WrittenOf(f, l) ==
    FlattenSeq([k \in DOMAIN l.text |-> <<Spot(Nth(l, k))>> \o f[Block(Nth(l, k))]])
OrderOf(f, l)   ==
    FlattenSeq([k \in DOMAIN l.text |->
        IF Includes(l, k) THEN f[Inner(l, k)] \o <<Spot(Nth(l, k))>>
        ELSE <<Spot(Nth(l, k))>> \o
             (IF l.text[k].kind = "foreach" THEN InLoop ELSE f)[Block(Nth(l, k))]])

LEMMA ShownGathers ==
    ASSUME NEW f \in [Places -> Seq(Spots)]
    PROVE  Gathers(Shown(f), Members, Spots) /\ \A e \in Members : Shown(f)[e] = <<Spot(e)>> \o f[Block(e)]
<1>1. ASSUME NEW e \in Members PROVE <<Spot(e)>> \o f[Block(e)] \in Seq(Spots)
  <2>1. <<Spot(e)>> \in Seq(Spots) /\ f[Block(e)] \in Seq(Spots)
    BY MemberIs
  <2>2. Sequences2(Spots, <<Spot(e)>>, f[Block(e)])
    BY <2>1 DEF Sequences2
  <2>3. QED
    BY <2>2, TwoConcat
<1>2. QED
  BY <1>1 DEF Gathers, Shown

(* The functions in which the claim is stated exist and are as they read. *)
LEMMA UnfoldOfIs ==
    ASSUME NEW names, NEW S, Merged(names, S), NEW l \in Places, NEW f \in [Places -> Seq(Spots)]
    PROVE  UnfoldOf(f, l) = Gather(Shown(f), Listing(lists, l)) /\ UnfoldOf(f, l) \in Seq(Spots)
<1> DEFINE w == Listing(lists, l)
<1>1. List(l) = w /\ w \in Seq(Members)
  BY MergedFacts DEF List, Listing
<1>2. Gathers(Shown(f), Members, Spots) /\ \A e \in Members : Shown(f)[e] = <<Spot(e)>> \o f[Block(e)]
  BY ShownGathers
<1> HIDE DEF w
<1>3. \A k \in DOMAIN w : Shown(f)[w[k]] = <<Spot(w[k])>> \o f[Block(w[k])]
  BY <1>1, <1>2
<1>4. UnfoldOf(f, l) = FlattenSeq([k \in DOMAIN w |-> <<Spot(w[k])>> \o f[Block(w[k])]])
  BY <1>1 DEF UnfoldOf
<1>5. [k \in DOMAIN w |-> <<Spot(w[k])>> \o f[Block(w[k])]] = Image(Shown(f), w)
  BY <1>3 DEF Image
<1>6. UnfoldOf(f, l) = Gather(Shown(f), w)
  BY <1>4, <1>5, GatherIs
<1>7. Gather(Shown(f), w) \in Seq(Spots)
  BY <1>1, <1>2, GatherType
<1>8. QED
  BY <1>6, <1>7 DEF w

LEMMA UnfoldOfLocal ==
    ASSUME NEW names, NEW S, Merged(names, S), NEW mu,
           \A m \in Places : \A e \in ToSet(Listing(lists, m)) : mu[Block(e)] < mu[m],
           NEW l \in Places, NEW f, NEW h, \A m \in Places : mu[m] < mu[l] => f[m] = h[m]
    PROVE  UnfoldOf(f, l) = UnfoldOf(h, l)
<1>1. List(l) = Listing(lists, l) /\ List(l) \in Seq(Members)
  BY MergedFacts DEF List, Listing
<1>2. ASSUME NEW k \in DOMAIN List(l) PROVE f[Block(List(l)[k])] = h[Block(List(l)[k])]
  <2>1. List(l)[k] \in ToSet(Listing(lists, l)) /\ List(l)[k] \in Members
    BY <1>1 DEF ToSet
  <2>2. Block(List(l)[k]) \in Places
    BY <2>1, MemberIs
  <2>3. QED
    BY <2>1, <2>2
<1>3. [k \in DOMAIN List(l) |-> <<Spot(List(l)[k])>> \o f[Block(List(l)[k])]]
      = [k \in DOMAIN List(l) |-> <<Spot(List(l)[k])>> \o h[Block(List(l)[k])]]
  BY <1>2
<1>4. QED
  BY <1>3 DEF UnfoldOf

LEMMA UnfoldedIs ==
    ASSUME NEW n, NEW rank, NEW depth, Tame(n, rank, depth), NEW names, NEW S, Merged(names, S)
    PROVE  /\ Unfolded \in [Places -> Seq(Spots)]
           /\ \A l \in Places : Unfolded[l] = Gather(Shown(Unfolded), Listing(lists, l))
<1> DEFINE V == Seq(Spots)
           Is(f) == f = [l \in Places |-> UnfoldOf(f, l)]
           g == [l \in Places |-> [f \in [Places -> V] |-> UnfoldOf(f, l)]]
<1>1. PICK mu : Deepness(rank, mu)
  BY DeepnessExists
<1>2. /\ mu \in [Places -> Nat]
      /\ \A m \in Places : \A e \in ToSet(Listing(lists, m)) : mu[Block(e)] < mu[m]
  BY <1>1, BlocksLess DEF Deepness
<1>3. \A l \in Places : \A f \in [Places -> V] : UnfoldOf(f, l) \in V /\ g[l][f] = UnfoldOf(f, l)
  BY UnfoldOfIs
<1>4. g \in [Places -> [[Places -> V] -> V]]
  BY <1>3
<1> HIDE DEF g
<1>5. \A l \in Places : \A f, h : (\A m \in Places : mu[m] < mu[l] => f[m] = h[m]) =>
                                    UnfoldOf(f, l) = UnfoldOf(h, l)
  BY <1>2, UnfoldOfLocal
<1>6. Local(Places, V, mu, g)
  <2>1. ASSUME NEW l \in Places, NEW f \in [Places -> V], NEW h \in [Places -> V],
               \A m \in Places : mu[m] < mu[l] => f[m] = h[m]
        PROVE  g[l][f] = g[l][h]
    <3>1. UnfoldOf(f, l) = UnfoldOf(h, l)
      BY <1>5, <2>1
    <3>2. QED
      BY <1>3, <3>1
  <2> HIDE DEF V
  <2>2. QED
    BY <1>2, <1>4, <2>1 DEF Local
<1>7. V # {}
  <2>1. <<>> \in V
    OBVIOUS
  <2>2. QED
    BY <2>1
<1> HIDE DEF V
<1>8. \E f : Is(f)
  <2>1. PICK f \in [Places -> V] : \A l \in Places : f[l] = g[l][f]
    BY <1>6, <1>7, RecursionByDepth
  <2>2. \A l \in Places : f[l] = UnfoldOf(f, l)
    BY <1>3, <2>1
  <2>3. f = [l \in Places |-> UnfoldOf(f, l)]
    BY <2>1, <2>2
  <2>4. QED
    BY <2>3
<1>9. Is(Unfolded)
  <2>1. Unfolded = CHOOSE f : Is(f)
    BY DEF Unfolded, UnfoldOf
  <2> HIDE DEF Is
  <2>2. QED
    BY <1>8, <2>1
<1> DEFINE F == Unfolded
<1> HIDE DEF F
<1>10. F = [l \in Places |-> UnfoldOf(F, l)]
  BY <1>9 DEF F
<1>11. DOMAIN F = Places /\ F = [l \in Places |-> F[l]] /\ \A l \in Places : F[l] = UnfoldOf(F, l)
  BY <1>10
<1>12. \A l \in Places : \A h \in [Places -> V] :
          (\A m \in Places : mu[m] < mu[l] => F[m] = h[m]) => F[l] = g[l][h]
  BY <1>3, <1>5, <1>11
<1>13. F \in [Places -> V]
  BY <1>6, <1>7, <1>11, <1>12, DeterminedByDepth
<1>14. \A l \in Places : F[l] = Gather(Shown(F), Listing(lists, l))
  BY <1>11, <1>13, UnfoldOfIs DEF V
<1>15. QED
  BY <1>13, <1>14 DEF F, V

(* Sequences of sequences, by their elements. *)
LEMMA SequenceOf ==
    ASSUME NEW V, NEW m \in Nat, NEW w, DOMAIN w = 1 .. m, w = [k \in 1 .. m |-> w[k]],
           \A k \in 1 .. m : w[k] \in V
    PROVE  w \in Seq(V) /\ Len(w) = m
<1> DEFINE v == [k \in 1 .. m |-> w[k]]
<1>1. v \in Seq(V) /\ Len(v) = m
  OBVIOUS
<1> HIDE DEF v
<1>2. w = v
  BY DEF v
<1>3. QED
  BY <1>1, <1>2

LEMMA WrittenOfIs ==
    ASSUME NEW l \in Places, NEW f \in [Places -> Seq(Spots)]
    PROVE  WrittenOf(f, l) \in Seq(Spots)
<1> DEFINE X(k) == <<Spot(Nth(l, k))>> \o f[Block(Nth(l, k))]
           w == [k \in DOMAIN l.text |-> X(k)]
<1>1. DOMAIN l.text = 1 .. Len(l.text) /\ Len(l.text) \in Nat
  BY PlaceFields
<1>2. ASSUME NEW k \in DOMAIN l.text PROVE X(k) \in Seq(Spots)
  <2>1. Nth(l, k) \in Members
    BY NthType
  <2>2. Gathers(Shown(f), Members, Spots) /\ Shown(f)[Nth(l, k)] = X(k)
    BY <2>1, ShownGathers
  <2>3. QED
    BY <2>1, <2>2 DEF Gathers
<1>3. w \in Seq(Seq(Spots))
  <2>1. DOMAIN w = 1 .. Len(l.text) /\ w = [k \in 1 .. Len(l.text) |-> w[k]]
        /\ \A k \in 1 .. Len(l.text) : w[k] \in Seq(Spots)
    BY <1>1, <1>2
  <2> HIDE DEF w
  <2>2. QED
    BY <1>1, <2>1, SequenceOf
<1>4. FlattenSeq(w) \in Seq(Spots)
  <2> HIDE DEF w
  <2>1. QED
    BY <1>3, FlattenType
<1>5. QED
  BY <1>4 DEF WrittenOf

LEMMA InLoopIs ==
    ASSUME NEW n, NEW rank, NEW depth, Tame(n, rank, depth)
    PROVE  InLoop \in [Places -> Seq(Spots)] /\ \A l \in Places : InLoop[l] = WrittenOf(InLoop, l)
<1> DEFINE V == Seq(Spots)
           Is(f) == f = [l \in Places |-> WrittenOf(f, l)]
           g == [l \in Places |-> [f \in [Places -> V] |-> WrittenOf(f, l)]]
<1>1. PICK mu : Deepness(rank, mu)
  BY DeepnessExists
<1>2. mu \in [Places -> Nat]
  BY <1>1 DEF Deepness
<1>3. \A l \in Places : \A f \in [Places -> V] : WrittenOf(f, l) \in V /\ g[l][f] = WrittenOf(f, l)
  BY WrittenOfIs
<1>4. g \in [Places -> [[Places -> V] -> V]]
  BY <1>3
<1> HIDE DEF g
<1>5. ASSUME NEW l \in Places, NEW f, NEW h, \A m \in Places : mu[m] < mu[l] => f[m] = h[m]
      PROVE  WrittenOf(f, l) = WrittenOf(h, l)
  <2>1. ASSUME NEW k \in DOMAIN l.text PROVE f[Block(Nth(l, k))] = h[Block(Nth(l, k))]
    <3>1. Block(Nth(l, k)) \in Places /\ mu[Block(Nth(l, k))] < mu[l]
      BY <1>1, BlockPlace DEF Deepness
    <3>2. QED
      BY <1>5, <3>1
  <2>2. [k \in DOMAIN l.text |-> <<Spot(Nth(l, k))>> \o f[Block(Nth(l, k))]]
        = [k \in DOMAIN l.text |-> <<Spot(Nth(l, k))>> \o h[Block(Nth(l, k))]]
    BY <2>1
  <2>3. QED
    BY <2>2 DEF WrittenOf
<1>6. Local(Places, V, mu, g)
  <2>1. ASSUME NEW l \in Places, NEW f \in [Places -> V], NEW h \in [Places -> V],
               \A m \in Places : mu[m] < mu[l] => f[m] = h[m]
        PROVE  g[l][f] = g[l][h]
    <3>1. WrittenOf(f, l) = WrittenOf(h, l)
      BY <1>5, <2>1
    <3>2. QED
      BY <1>3, <3>1
  <2> HIDE DEF V
  <2>2. QED
    BY <1>2, <1>4, <2>1 DEF Local
<1>7. V # {}
  <2>1. <<>> \in V
    OBVIOUS
  <2>2. QED
    BY <2>1
<1> HIDE DEF V
<1>8. \E f : Is(f)
  <2>1. PICK f \in [Places -> V] : \A l \in Places : f[l] = g[l][f]
    BY <1>6, <1>7, RecursionByDepth
  <2>2. \A l \in Places : f[l] = WrittenOf(f, l)
    BY <1>3, <2>1
  <2>3. f = [l \in Places |-> WrittenOf(f, l)]
    BY <2>1, <2>2
  <2>4. QED
    BY <2>3
<1> DEFINE F == InLoop
<1>9. Is(F)
  <2>1. F = CHOOSE f : Is(f)
    BY DEF InLoop, WrittenOf
  <2> HIDE DEF Is, F
  <2>2. QED
    BY <1>8, <2>1
<1> HIDE DEF F
<1>10. F = [l \in Places |-> WrittenOf(F, l)]
  BY <1>9
<1>11. DOMAIN F = Places /\ F = [l \in Places |-> F[l]] /\ \A l \in Places : F[l] = WrittenOf(F, l)
  BY <1>10
<1>12. \A l \in Places : \A h \in [Places -> V] :
          (\A m \in Places : mu[m] < mu[l] => F[m] = h[m]) => F[l] = g[l][h]
  BY <1>3, <1>5, <1>11
<1>13. F \in [Places -> V]
  BY <1>6, <1>7, <1>11, <1>12, DeterminedByDepth
<1>14. QED
  BY <1>11, <1>13 DEF F, V

LEMMA OrderOfIs ==
    ASSUME NEW n, NEW rank, NEW depth, Tame(n, rank, depth), program \in Programs,
           NEW l \in Places, NEW f \in [Places -> Seq(Spots)]
    PROVE  OrderOf(f, l) \in Seq(Spots)
<1> DEFINE X(k) == IF Includes(l, k) THEN f[Inner(l, k)] \o <<Spot(Nth(l, k))>>
                   ELSE <<Spot(Nth(l, k))>> \o
                        (IF l.text[k].kind = "foreach" THEN InLoop ELSE f)[Block(Nth(l, k))]
           w == [k \in DOMAIN l.text |-> X(k)]
<1>1. DOMAIN l.text = 1 .. Len(l.text) /\ Len(l.text) \in Nat
  BY PlaceFields
<1>2. ASSUME NEW k \in DOMAIN l.text PROVE X(k) \in Seq(Spots)
  <2>1. <<Spot(Nth(l, k))>> \in Seq(Spots) /\ Block(Nth(l, k)) \in Places
    BY NthType, MemberIs
  <2>2. f[Block(Nth(l, k))] \in Seq(Spots) /\ InLoop[Block(Nth(l, k))] \in Seq(Spots)
    BY <2>1, InLoopIs
  <2>3. CASE Includes(l, k)
    <3>1. Inner(l, k) = InnerOf(program, l, k)
      BY DEF Inner, File, InnerOf, FileOf
    <3>2. Inner(l, k) \in Places
      BY <2>3, <3>1, InnerPlace
    <3>3. f[Inner(l, k)] \in Seq(Spots)
      BY <3>2
    <3>4. Sequences2(Spots, f[Inner(l, k)], <<Spot(Nth(l, k))>>)
      BY <2>1, <3>3 DEF Sequences2
    <3>5. QED
      BY <2>3, <3>4, TwoConcat
  <2>4. CASE ~Includes(l, k)
    <3> DEFINE b == (IF l.text[k].kind = "foreach" THEN InLoop ELSE f)[Block(Nth(l, k))]
    <3>1. b \in Seq(Spots)
      BY <2>2
    <3> HIDE DEF b
    <3>2. Sequences2(Spots, <<Spot(Nth(l, k))>>, b)
      BY <2>1, <3>1 DEF Sequences2
    <3>3. X(k) = <<Spot(Nth(l, k))>> \o b
      BY <2>4 DEF b
    <3> DEFINE x == <<Spot(Nth(l, k))>>
    <3> HIDE DEF X, x
    <3>4. x \o b \in Seq(Spots)
      BY <3>2, TwoConcat DEF x
    <3>5. QED
      BY <3>3, <3>4, Zenon DEF x
  <2>5. QED
    BY <2>3, <2>4
<1> HIDE DEF X
<1>3. w \in Seq(Seq(Spots))
  <2>1. DOMAIN w = 1 .. Len(l.text) /\ w = [k \in 1 .. Len(l.text) |-> w[k]]
        /\ \A k \in 1 .. Len(l.text) : w[k] \in Seq(Spots)
    BY <1>1, <1>2
  <2> HIDE DEF w
  <2>2. QED
    BY <1>1, <2>1, SequenceOf
<1>4. FlattenSeq(w) \in Seq(Spots)
  <2> HIDE DEF w
  <2>1. QED
    BY <1>3, FlattenType
<1>5. QED
  BY <1>4 DEF OrderOf, X

LEMMA InOrderIs ==
    ASSUME NEW n, NEW rank, NEW depth, Tame(n, rank, depth), program \in Programs
    PROVE  InOrder \in [Places -> Seq(Spots)] /\ \A l \in Places : InOrder[l] = OrderOf(InOrder, l)
<1> DEFINE V == Seq(Spots)
           Is(f) == f = [l \in Places |-> OrderOf(f, l)]
           g == [l \in Places |-> [f \in [Places -> V] |-> OrderOf(f, l)]]
<1>1. PICK mu : Deepness(rank, mu)
  BY DeepnessExists
<1>2. mu \in [Places -> Nat]
  BY <1>1 DEF Deepness
<1>3. \A l \in Places : \A f \in [Places -> V] : OrderOf(f, l) \in V /\ g[l][f] = OrderOf(f, l)
  BY OrderOfIs
<1>4. g \in [Places -> [[Places -> V] -> V]]
  BY <1>3
<1> HIDE DEF g
<1>5. ASSUME NEW l \in Places, NEW f, NEW h, \A m \in Places : mu[m] < mu[l] => f[m] = h[m]
      PROVE  OrderOf(f, l) = OrderOf(h, l)
  <2>1. ASSUME NEW k \in DOMAIN l.text PROVE f[Block(Nth(l, k))] = h[Block(Nth(l, k))]
    <3>1. Block(Nth(l, k)) \in Places /\ mu[Block(Nth(l, k))] < mu[l]
      BY <1>1, BlockPlace DEF Deepness
    <3>2. QED
      BY <1>5, <3>1
  <2>2. ASSUME NEW k \in DOMAIN l.text, Includes(l, k) PROVE f[Inner(l, k)] = h[Inner(l, k)]
    <3>1. Inner(l, k) = InnerOf(program, l, k)
      BY DEF Inner, File, InnerOf, FileOf
    <3>2. Inner(l, k) \in Places /\ mu[Inner(l, k)] < mu[l]
      BY <1>1, <2>2, <3>1, InnerLess
    <3>3. QED
      BY <1>5, <3>2
  <2> DEFINE X(z, k) == IF Includes(l, k) THEN z[Inner(l, k)] \o <<Spot(Nth(l, k))>>
                        ELSE <<Spot(Nth(l, k))>> \o
                             (IF l.text[k].kind = "foreach" THEN InLoop ELSE z)[Block(Nth(l, k))]
  <2>3. \A k \in DOMAIN l.text : X(f, k) = X(h, k)
    BY <2>1, <2>2
  <2>4. OrderOf(f, l) = FlattenSeq([k \in DOMAIN l.text |-> X(f, k)])
    BY DEF OrderOf
  <2>5. OrderOf(h, l) = FlattenSeq([k \in DOMAIN l.text |-> X(h, k)])
    BY DEF OrderOf
  <2> HIDE DEF X
  <2>6. [k \in DOMAIN l.text |-> X(f, k)] = [k \in DOMAIN l.text |-> X(h, k)]
    BY <2>3
  <2>7. QED
    BY <2>4, <2>5, <2>6
<1>6. Local(Places, V, mu, g)
  <2>1. ASSUME NEW l \in Places, NEW f \in [Places -> V], NEW h \in [Places -> V],
               \A m \in Places : mu[m] < mu[l] => f[m] = h[m]
        PROVE  g[l][f] = g[l][h]
    <3>1. OrderOf(f, l) = OrderOf(h, l)
      BY <1>5, <2>1
    <3>2. QED
      BY <1>3, <3>1
  <2> HIDE DEF V
  <2>2. QED
    BY <1>2, <1>4, <2>1 DEF Local
<1>7. V # {}
  <2>1. <<>> \in V
    OBVIOUS
  <2>2. QED
    BY <2>1
<1> HIDE DEF V
<1>8. \E f : Is(f)
  <2>1. PICK f \in [Places -> V] : \A l \in Places : f[l] = g[l][f]
    BY <1>6, <1>7, RecursionByDepth
  <2>2. \A l \in Places : f[l] = OrderOf(f, l)
    BY <1>3, <2>1
  <2>3. f = [l \in Places |-> OrderOf(f, l)]
    BY <2>1, <2>2
  <2>4. QED
    BY <2>3
<1> DEFINE F == InOrder
<1>9. Is(F)
  <2>1. F = CHOOSE f : Is(f)
    BY DEF InOrder, OrderOf
  <2> HIDE DEF Is, F
  <2>2. QED
    BY <1>8, <2>1
<1> HIDE DEF F
<1>10. F = [l \in Places |-> OrderOf(F, l)]
  BY <1>9
<1>11. DOMAIN F = Places /\ F = [l \in Places |-> F[l]] /\ \A l \in Places : F[l] = OrderOf(F, l)
  BY <1>10
<1>12. \A l \in Places : \A h \in [Places -> V] :
          (\A m \in Places : mu[m] < mu[l] => F[m] = h[m]) => F[l] = g[l][h]
  BY <1>3, <1>5, <1>11
<1>13. F \in [Places -> V]
  BY <1>6, <1>7, <1>11, <1>12, DeterminedByDepth
<1>14. QED
  BY <1>11, <1>13 DEF F, V

(* The list and the lists of the blocks in it. *)
Own(l) == {m \in Places : m.path = l.path /\ Extends(m.at, l.at)}

LEMMA OwnBlocks ==
    ASSUME NEW l \in Places
    PROVE  /\ l \in Own(l)
           /\ \A k \in DOMAIN l.text : /\ Own(Block(Nth(l, k))) = Inside(l, k)
                                       /\ Own(Block(Nth(l, k))) \subseteq Own(l)
<1>1. l \in Own(l)
  BY PlaceFields, ExtendsSelf DEF Own
<1>2. ASSUME NEW k \in DOMAIN l.text
      PROVE  Own(Block(Nth(l, k))) = Inside(l, k) /\ Inside(l, k) \subseteq Own(l)
  <2>1. Block(Nth(l, k)).path = l.path /\ Block(Nth(l, k)).at = Append(l.at, k)
    BY BlockPlace
  <2>2. Own(Block(Nth(l, k))) = Inside(l, k)
    BY <2>1 DEF Own, Inside
  <2>3. ASSUME NEW m \in Inside(l, k) PROVE m \in Own(l)
    <3>1. m \in Places /\ m.path = l.path /\ Extends(m.at, Append(l.at, k))
      BY DEF Inside
    <3>2. m.at \in Seq(Nat) /\ l.at \in Seq(Nat) /\ k \in Nat
      BY <3>1, PlaceFields
    <3>3. Extends(m.at, l.at)
      BY <3>1, <3>2, ExtendsAppend
    <3>4. QED
      BY <3>1, <3>3 DEF Own
  <2>4. QED
    BY <2>2, <2>3
<1>3. QED
  BY <1>1, <1>2

(* An empty list stays empty. *)
LEMMA EmptyStays ==
    ASSUME NEW n, NEW rank, NEW depth, Tame(n, rank, depth), NEW names, NEW S, Merged(names, S),
           NEW l \in Places, l.text = <<>>
    PROVE  Unfolded[l] = <<>> /\ InOrder[l] = <<>>
<1>1. program \in Programs
  BY DEF Merged
<1>2. Listing(lists, l) = <<>>
  <2> DEFINE ss == Pieces(program, lists, l, Len(l.text))
  <2>1. /\ ss \in Seq(Seq(Members)) /\ Len(ss) = Len(l.text) /\ Len(l.text) = 0
        /\ l \in S => Listing(lists, l) = FlattenSeq(ss)
        /\ l \notin DOMAIN lists => Listing(lists, l) = Left(l, 0)
    BY MergedFacts
  <2> HIDE DEF ss
  <2>2. ss = <<>> /\ ss \in Seq(Seq(Members))
    BY <2>1
  <2>3. FlattenSeq(ss) = <<>>
    BY <2>2, FlattenType
  <2>4. Left(l, 0) = <<>>
    <3>1. 0 \in 0 .. Len(l.text)
      BY <2>1
    <3>2. Left(l, 0) \in Seq(Members) /\ Len(Left(l, 0)) = 0
      BY <2>1, <3>1, LeftType
    <3>3. QED
      BY <3>2
  <2>5. l \in S \/ l \notin DOMAIN lists
    BY DEF Merged
  <2>6. QED
    BY <2>1, <2>3, <2>4, <2>5
<1>3. Unfolded[l] = <<>>
  BY <1>2, UnfoldedIs, GatherEmpty
<1>4. OrderOf(InOrder, l) = <<>>
  <2> DEFINE X(k) == IF Includes(l, k) THEN InOrder[Inner(l, k)] \o <<Spot(Nth(l, k))>>
                     ELSE <<Spot(Nth(l, k))>> \o
                          (IF l.text[k].kind = "foreach" THEN InLoop ELSE InOrder)[Block(Nth(l, k))]
  <2>1. OrderOf(InOrder, l) = FlattenSeq([k \in DOMAIN l.text |-> X(k)])
    BY DEF OrderOf
  <2> HIDE DEF X
  <2>2. [k \in DOMAIN l.text |-> X(k)] = <<>>
    OBVIOUS
  <2>3. FlattenSeq(<<>>) = <<>>
    <3>1. <<>> \in Seq(Seq(Members))
      OBVIOUS
    <3>2. QED
      BY <3>1, FlattenType
  <2>4. QED
    BY <2>1, <2>2, <2>3
<1>5. QED
  BY <1>1, <1>3, <1>4, InOrderIs

(* The merged lists are in order, those in loops as parsed. *)
LEMMA MergedAsClaimed ==
    ASSUME NEW n, NEW rank, NEW depth, Tame(n, rank, depth), NEW names, NEW S, Merged(names, S)
    PROVE  \A l \in S : Unfolded[l] = InOrder[l]
<1> DEFINE Claim(l) == /\ l \in S => Unfolded[l] = InOrder[l]
                       /\ Own(l) \cap DOMAIN lists = {} => Unfolded[l] = InLoop[l]
           T == {l \in Places : Claim(l)}
<1>1. program \in Programs
  BY DEF Merged
<1>2. PICK mu : Deepness(rank, mu)
  BY DeepnessExists
<1>3. /\ Unfolded \in [Places -> Seq(Spots)]
      /\ \A l \in Places : Unfolded[l] = Gather(Shown(Unfolded), Listing(lists, l))
  BY UnfoldedIs
<1>4. InOrder \in [Places -> Seq(Spots)] /\ \A l \in Places : InOrder[l] = OrderOf(InOrder, l)
  BY <1>1, InOrderIs
<1>5. \A l \in Places : InLoop[l] = WrittenOf(InLoop, l)
  BY InLoopIs
<1> DEFINE U == Unfolded
           O == InOrder
           I == InLoop
           g == Shown(U)
<1>6. Gathers(g, Members, Spots) /\ \A e \in Members : g[e] = <<Spot(e)>> \o U[Block(e)]
  BY <1>3, ShownGathers
<1>7. ASSUME NEW l \in Places, \A m \in Places : mu[m] < mu[l] => m \in T, l \in S
      PROVE  U[l] = O[l]
  <2> DEFINE ss == Pieces(program, lists, l, Len(l.text))
             X(k) == IF Includes(l, k) THEN O[Inner(l, k)] \o <<Spot(Nth(l, k))>>
                     ELSE <<Spot(Nth(l, k))>> \o
                          (IF l.text[k].kind = "foreach" THEN I ELSE O)[Block(Nth(l, k))]
  <2>1. /\ Listing(lists, l) = FlattenSeq(ss) /\ ss \in Seq(Seq(Members)) /\ Len(ss) = Len(l.text)
        /\ \A k \in DOMAIN l.text : /\ Handled(program, lists, S, l, k)
                                    /\ ss[k] = Piece(program, lists, l, k)
    BY <1>7, MergedFacts
  <2>2. DOMAIN ss = DOMAIN l.text
    BY <2>1, PlaceFields
  <2> HIDE DEF ss, g, U, O, I
  <2>3. U[l] = FlattenSeq([k \in DOMAIN ss |-> Gather(g, ss[k])])
    <3>1. U[l] = Gather(g, FlattenSeq(ss))
      BY <1>3, <2>1 DEF U, g
    <3>2. QED
      BY <1>6, <2>1, <3>1, GatherFlatten
  <2>4. O[l] = FlattenSeq([k \in DOMAIN l.text |-> X(k)])
    BY <1>4 DEF OrderOf, O, I
  <2>5. ASSUME NEW k \in DOMAIN l.text PROVE Gather(g, ss[k]) = X(k)
    <3> DEFINE e == Nth(l, k)
               b == Block(e)
               x == <<Spot(e)>>
    <3>1. e \in Members /\ <<e>> \in Seq(Members) /\ x \in Seq(Spots) /\ b \in Places
          /\ b.text = l.text[k].body /\ l.text[k] \in Stmt
      BY NthType, MemberIs, BlockPlace, PlaceFields
    <3>2. Gather(g, <<e>>) = x \o U[b]
      <4> HIDE DEF e, b
      <4>1. Gather(g, <<e>>) = g[e]
        BY <1>6, <3>1, GatherOne
      <4>2. g[e] = <<Spot(e)>> \o U[Block(e)]
        BY <1>6, <3>1
      <4>3. QED
        BY <4>1, <4>2 DEF b
    <3>3. mu[b] < mu[l]
      BY <1>2 DEF Deepness
    <3>4. Claim(b)
      BY <1>7, <3>1, <3>3
    <3>5. l.text[k].kind \notin {"foreach", "if"} => U[b] = <<>> /\ O[b] = <<>>
      <4>1. l.text[k].kind \notin {"foreach", "if"} => b.text = <<>>
        BY <3>1, StmtAssumption
      <4> HIDE DEF b
      <4>2. QED
        BY <3>1, <4>1, EmptyStays DEF U, O
    <3>6. CASE Includes(l, k)
      <4> DEFINE m == InnerOf(program, l, k)
      <4>1. m \in Places /\ mu[m] < mu[l] /\ Inner(l, k) = m
        <5>1. Inner(l, k) = m
          BY DEF Inner, File, InnerOf, FileOf
        <5>2. QED
          BY <1>1, <1>2, <3>6, <5>1, InnerLess
      <4>2. m \in S
        BY <2>1, <3>6, InnerIsPart DEF Handled
      <4>3. U[m] = O[m]
        BY <1>7, <4>1, <4>2 DEF U, O
      <4>4. U[b] = <<>>
        BY <3>5, <3>6 DEF Includes
      <4> DEFINE w == Listing(lists, m)
                 y == <<e>>
      <4>5. ss[k] = w \o y
        BY <2>1, <3>6 DEF Piece
      <4>6. w \in Seq(Members) /\ y \in Seq(Members)
        BY <3>1, <4>1, MergedFacts
      <4> HIDE DEF m, w, y, e, b, X, x
      <4>7. Gather(g, w \o y) = Gather(g, w) \o Gather(g, y)
        BY <1>6, <4>6, GatherConcat
      <4>8. Gather(g, w) = U[m]
        BY <1>3, <4>1 DEF U, g, w
      <4>9. Gather(g, y) = x
        <5>1. x \o <<>> = x
          BY <3>1, ConcatEmptySeq
        <5>2. QED
          BY <3>2, <4>4, <5>1 DEF y
      <4>10. X(k) = O[m] \o x
        BY <3>6, <4>1 DEF X, x, e
      <4>11. QED
        BY <4>3, <4>5, <4>7, <4>8, <4>9, <4>10
    <3>7. CASE ~Includes(l, k)
      <4> DEFINE z == (IF l.text[k].kind = "foreach" THEN I ELSE O)[b]
      <4>1. ss[k] = <<e>>
        BY <2>1, <3>7 DEF Piece
      <4>2. X(k) = x \o z
        BY <3>7
      <4>3. U[b] = z
        <5>1. CASE l.text[k].kind = "if"
          <6>1. b \in S
            BY <2>1, <5>1 DEF Handled, Parts
          <6>2. QED
            BY <3>4, <5>1, <6>1 DEF U, O
        <5>2. CASE l.text[k].kind = "foreach"
          <6>1. Own(b) \cap DOMAIN lists = {}
            BY <2>1, <5>2, OwnBlocks DEF Handled
          <6>2. QED
            BY <3>4, <5>2, <6>1 DEF U, I
        <5>3. CASE l.text[k].kind \notin {"foreach", "if"}
          BY <3>5, <5>3
        <5>4. QED
          BY <5>1, <5>2, <5>3
      <4> HIDE DEF e, b, x, z, X
      <4>4. QED
        BY <3>2, <4>1, <4>2, <4>3
    <3>8. QED
      BY <3>6, <3>7
  <2> HIDE DEF X
  <2>6. [k \in DOMAIN ss |-> Gather(g, ss[k])] = [k \in DOMAIN l.text |-> X(k)]
    BY <2>2, <2>5
  <2>7. QED
    BY <2>3, <2>4, <2>6
<1>8. ASSUME NEW l \in Places, \A m \in Places : mu[m] < mu[l] => m \in T, Own(l) \cap DOMAIN lists = {}
      PROVE  U[l] = I[l]
  <2>1. l \notin DOMAIN lists
    BY <1>8, OwnBlocks
  <2>2. List(l) = [k \in DOMAIN l.text |-> Nth(l, k)]
    BY <2>1 DEF List
  <2>3. DOMAIN List(l) = DOMAIN l.text /\ \A k \in DOMAIN l.text : List(l)[k] = Nth(l, k)
    BY <2>2
  <2> HIDE DEF U, I
  <2>4. U[l] = UnfoldOf(U, l)
    BY <1>3, UnfoldOfIs DEF U
  <2>5. ASSUME NEW k \in DOMAIN l.text PROVE U[Block(Nth(l, k))] = I[Block(Nth(l, k))]
    <3>1. Block(Nth(l, k)) \in Places /\ mu[Block(Nth(l, k))] < mu[l]
      BY <1>2, BlockPlace DEF Deepness
    <3>2. Own(Block(Nth(l, k))) \cap DOMAIN lists = {}
      BY <1>8, OwnBlocks
    <3>3. Claim(Block(Nth(l, k)))
      BY <1>8, <3>1
    <3>4. QED
      BY <3>2, <3>3 DEF U, I
  <2>6. [k \in DOMAIN List(l) |-> <<Spot(List(l)[k])>> \o U[Block(List(l)[k])]]
        = [k \in DOMAIN l.text |-> <<Spot(Nth(l, k))>> \o I[Block(Nth(l, k))]]
    BY <2>3, <2>5
  <2>7. UnfoldOf(U, l) = WrittenOf(I, l)
    BY <2>6 DEF UnfoldOf, WrittenOf
  <2>8. I[l] = WrittenOf(I, l)
    BY <1>5 DEF I
  <2>9. QED
    BY <2>4, <2>7, <2>8
<1>9. \A l \in Places : (\A m \in Places : mu[m] < mu[l] => m \in T) => l \in T
  BY <1>7, <1>8
<1>10. Places \subseteq T
  <2>1. mu \in [Places -> Nat]
    BY <1>2 DEF Deepness
  <2> HIDE DEF T
  <2>2. QED
    BY <1>9, <2>1, InductionByDepth
<1>11. S \subseteq Places
  BY DEF Merged, Complete, Over, Sound
<1>12. QED
  BY <1>10, <1>11

(* merge() waits for build(), and is then under way or done. *)
MergeInv(names) ==
    /\ program \in Programs
    /\ merging \in {"waiting", "running", "done"}
    /\ merging # "waiting" => status = "done"
    /\ merging = "waiting" => lists = <<>>
    /\ merging = "running" => Runs(names, program, lists, loops)
    /\ merging = "done" => Ended(names, program, lists)

LEMMA MergeStarts == ASSUME NEW names, MergeInit PROVE MergeInv(names)
  BY DEF MergeInit, Init, MergeInv

LEMMA BuildStep == ASSUME Next PROVE status = "building" /\ program' = program
  BY DEF Next, AnalyseAssignment, AnalyseOther, AnalyseForeach, AnalyseSelection, SkipSubdir,
         MissingSubdir, EnterSubdir, StackOverflow, NullNodeCrash, Return, Analyse

LEMMA MergeGoesOn ==
    ASSUME NEW n, NEW rank, NEW depth, NEW names, Tidy(n, rank, depth, names),
           MergeInv(names), merging = "running", MergeStep, UNCHANGED vars
    PROVE  MergeInv(names)'
<1>1. PICK S, q : Running(names, program, lists, loops, Len(loops), S, q)
  BY DEF MergeInv, Runs
<1>2. Steps(n, rank, depth, names, S, q)
  BY <1>1 DEF Tidy, MergeInv, Steps
<1>3. program' = program /\ status' = status /\ status = "done" /\ program \in Programs
  BY DEF MergeInv, vars
<1>4. ASSUME Runs(names, program, lists', loops'), merging' = "running" PROVE MergeInv(names)'
  BY <1>3, <1>4 DEF MergeInv
<1>5. CASE MergeSubdir
  BY <1>2, <1>4, <1>5, SubdirRuns DEF MergeSubdir, AtElement
<1>6. CASE MergeSelection
  BY <1>2, <1>4, <1>6, SelectionRuns DEF MergeSelection, AtElement
<1>7. CASE PassStatement
  BY <1>2, <1>4, <1>7, PassRuns DEF PassStatement, AtElement
<1>8. CASE FinishBlock
  BY <1>2, <1>4, <1>8, BlockInner, BlockRuns DEF FinishBlock, AtEnd
<1>9. CASE FinishSubdir
  BY <1>2, <1>4, <1>9, FinishRuns DEF FinishSubdir, AtEnd
<1>10. CASE FinishMerge
  <2>1. Ended(names, program, lists) /\ lists' = lists /\ merging' = "done"
    BY <1>2, <1>10, EndsMerge DEF FinishMerge
  <2>2. QED
    BY <1>3, <2>1 DEF MergeInv
<1>11. CASE StartMerge
  BY <1>11 DEF StartMerge
<1>12. QED
  BY <1>5, <1>6, <1>7, <1>8, <1>9, <1>10, <1>11 DEF MergeStep

LEMMA MergeStays ==
    ASSUME NEW n, NEW rank, NEW depth, NEW names, Tidy(n, rank, depth, names),
           MergeInv(names), TreeComplete, [MergeNext]_<<vars, mergeVars>>
    PROVE  MergeInv(names)'
<1>1. CASE UNCHANGED <<vars, mergeVars>>
  BY <1>1 DEF MergeInv, vars, mergeVars
<1>2. CASE Next /\ UNCHANGED mergeVars
  <2>1. status = "building" /\ program' = program
    BY <1>2, BuildStep
  <2>2. merging = "waiting" /\ merging' = merging /\ lists' = lists
    BY <1>2, <2>1 DEF MergeInv, mergeVars
  <2>3. QED
    BY <2>1, <2>2 DEF MergeInv
<1>3. CASE MergeStep /\ UNCHANGED vars
  <2>1. CASE merging = "running"
    BY <1>3, <2>1, MergeGoesOn
  <2>2. CASE merging # "running"
    <3>1. StartMerge
      BY <1>3, <2>2 DEF MergeStep, MergeSubdir, MergeSelection, PassStatement, AtElement,
                        FinishMerge, FinishBlock, FinishSubdir, AtEnd
    <3>2. status = "done" /\ merging = "waiting" /\ merging' = "running" /\ lists = <<>>
      BY <3>1 DEF StartMerge, MergeInv
    <3>3. result = TreesOf(program)[Top] /\ program \in Programs /\ program' = program /\ status' = status
      BY <1>3, <3>2 DEF TreeComplete, MergeInv, vars
    <3>4. Runs(names, program, lists', loops')
      BY <3>1, <3>2, <3>3, StartRuns DEF Tidy
    <3>5. QED
      BY <3>2, <3>3, <3>4 DEF MergeInv
  <2>3. QED
    BY <2>1, <2>2
<1>4. QED
  BY <1>1, <1>2, <1>3 DEF MergeNext

LEMMA MergedIsInOrder ==
    ASSUME NEW n, NEW rank, NEW depth, NEW names, Tidy(n, rank, depth, names), MergeInv(names)
    PROVE  MergedInOrder
<1>1. SUFFICES ASSUME merging = "done" PROVE Unfolded[File(<<>>, Top)] = InOrder[File(<<>>, Top)]
  BY DEF MergedInOrder
<1>2. PICK S : /\ Complete(names, program, lists, S) /\ FileOf(program, <<>>, Top) \in S
               /\ DOMAIN lists \subseteq S
  BY <1>1 DEF MergeInv, Ended
<1>3. Merged(names, S)
  BY <1>1, <1>2 DEF Merged, MergeInv, Ended, Tidy
<1>4. File(<<>>, Top) = FileOf(program, <<>>, Top)
  BY DEF File, FileOf
<1>5. QED
  BY <1>2, <1>3, <1>4, MergedAsClaimed DEF Tidy

(* load_tree analyses the program: the merged file holds every statement of   *)
(* the project once for every time its file is included, in the order in      *)
(* which Meson runs them (symbol_tree.vala:39-80).  It is so for every        *)
(* project whose subdir() calls lead strictly down and are told apart by      *)
(* their names in each file; run `twice` shows what merge() makes of others.  *)
THEOREM MergeInOrder ==
    ASSUME NEW n, NEW rank, NEW depth, NEW names, Tidy(n, rank, depth, names)
    PROVE  MergeSpec => []MergedInOrder
<1>1. MergeInit => MergeInv(names)
  BY MergeStarts
<1>2. MergeInv(names) /\ TreeComplete /\ [MergeNext]_<<vars, mergeVars>> => MergeInv(names)'
  BY MergeStays
<1>3. MergeInv(names) => MergedInOrder
  BY MergedIsInOrder
<1>4. MergeInit => Init
  BY DEF MergeInit
<1>5. [MergeNext]_<<vars, mergeVars>> => [Next]_vars
  BY DEF MergeNext, vars, mergeVars
<1>6. Spec => []TreeComplete
  BY BuildComplete DEF Tidy
<1>7. QED
  BY <1>1, <1>2, <1>3, <1>4, <1>5, <1>6, PTL DEF MergeSpec, Spec
=============================================================================
