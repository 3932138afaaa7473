--------------------------- MODULE DocStoreProofs ---------------------------
(***************************************************************************)
(* Theorems about module DocStore: what the server decodes is what the     *)
(* build encoded, no count wraps and no assertion fails, and every text    *)
(* ends up at its class or method.                                         *)
(***************************************************************************)
EXTENDS DocStore, NaturalOrder, FiniteSetTheorems

-----------------------------------------------------------------------------
(***************************************************************************)
(* Sums over the rest of a sequence.                                       *)
(***************************************************************************)
LEMMA SumUnfolds ==
    ASSUME NEW s \in Seq(Nat)
    PROVE  /\ \A p \in 1 .. Len(s) + 1 : SumFrom(s, p) \in Nat
           /\ \A p \in 1 .. Len(s) : SumFrom(s, p) = s[p] + SumFrom(s, p + 1)
           /\ SumFrom(s, Len(s) + 1) = 0
<1> DEFINE T == 1 .. Len(s) + 1
           Equation(f) == f = [i \in T |-> IF i > Len(s) THEN 0 ELSE s[i] + f[i + 1]]
           Sum == CHOOSE f : Equation(f)
<1>1. \E f : Equation(f)
  <2> DEFINE base == [i \in T |-> 0]
             next == [i \in T |-> IF i > Len(s) THEN i ELSE i + 1]
             g == [tn \in T \X Nat |-> IF tn[1] > Len(s) THEN 0 ELSE s[tn[1]] + tn[2]]
             depth == [i \in T |-> Len(s) + 1 - i]
             Stop == {Len(s) + 1}
  <2>1. /\ Stop \in SUBSET T /\ base \in [T -> Nat] /\ next \in [T -> T]
        /\ Len(s) + 1 \in Nat /\ depth \in [T -> 0 .. Len(s) + 1]
    OBVIOUS
  <2>2. g \in [T \X Nat -> Nat]
    <3>1. \A tn \in T \X Nat : tn[1] <= Len(s) => s[tn[1]] \in Nat
      OBVIOUS
    <3>2. QED
      BY <3>1
  <2>3. \A i \in T \ Stop : depth[next[i]] < depth[i]
    OBVIOUS
  <2>4. \A i \in T \ Stop : next[i] = i + 1
    OBVIOUS
  <2>5. \A i \in T, m \in Nat : i \notin Stop => g[<<i, m>>] = s[i] + m
    OBVIOUS
  <2>6. \A i \in T : base[i] = 0 /\ (i \in Stop <=> i > Len(s))
    OBVIOUS
  <2> HIDE DEF base, next, g, depth, Stop
  <2>7. PICK f \in [T -> Nat] : Solves(f, T, Stop, base, next, g)
    <3> DEFINE n == Len(s) + 1
    <3>1. Descends(T, Stop, next, n, depth)
      BY <2>1, <2>3 DEF Descends
    <3> HIDE DEF T, n
    <3>2. QED
      BY <2>1, <2>2, <3>1, RecursionDown
  <2>8. \A i \in T : f[i] = IF i > Len(s) THEN 0 ELSE s[i] + f[i + 1]
    <3>1. ASSUME NEW i \in T, i \in Stop
          PROVE  f[i] = 0 /\ i > Len(s)
      BY <2>6, <2>7, <3>1 DEF Solves
    <3>2. ASSUME NEW i \in T, i \notin Stop
          PROVE  f[i] = s[i] + f[i + 1] /\ ~(i > Len(s))
      <4>1. ~(i > Len(s)) /\ i + 1 \in T /\ next[i] = i + 1
        BY <2>4, <2>6, <3>2
      <4>2. f[i + 1] \in Nat /\ f[i] = g[<<i, f[i + 1]>>]
        BY <2>7, <3>2, <4>1 DEF Solves
      <4>3. QED
        BY <2>5, <3>2, <4>1, <4>2
    <3>3. QED
      BY <3>1, <3>2
  <2>9. Equation(f)
    BY <2>7, <2>8 DEF Solves
  <2>10. QED
    BY <2>9
<1>2. \A p : SumFrom(s, p) = Sum[p]
  BY DEF SumFrom
<1>3. Equation(Sum)
  <2> HIDE DEF Equation
  <2>1. QED
    BY <1>1
<1> HIDE DEF Sum
<1>4. \A p \in T : Sum[p] = IF p > Len(s) THEN 0 ELSE s[p] + Sum[p + 1]
  BY <1>3
<1>5. \A p \in 1 .. Len(s) : Sum[p] = s[p] + Sum[p + 1]
  BY <1>4
<1>6. Sum[Len(s) + 1] = 0
  BY <1>4
<1>7. \A p \in T : Sum[p] \in Nat
  <2> DEFINE S == {m \in Nat : m <= Len(s) => Sum[Len(s) + 1 - m] \in Nat}
  <2>1. 0 \in S
    BY <1>6
  <2>2. ASSUME NEW m \in Nat, m \in S PROVE m + 1 \in S
    <3>1. SUFFICES ASSUME m + 1 <= Len(s) PROVE Sum[Len(s) - m] \in Nat
      OBVIOUS
    <3>2. Sum[Len(s) - m] = s[Len(s) - m] + Sum[Len(s) + 1 - m]
      BY <1>5, <3>1
    <3>3. s[Len(s) - m] \in Nat /\ Sum[Len(s) + 1 - m] \in Nat
      BY <2>2, <3>1
    <3>4. QED
      BY <3>2, <3>3
  <2>3. \A m \in Nat : m \in S
    <3> HIDE DEF S
    <3>1. QED
      BY <2>1, <2>2, InductionOnNaturals
  <2>4. ASSUME NEW p \in T PROVE Sum[p] \in Nat
    <3>1. Len(s) + 1 - p \in S
      BY <2>3
    <3>2. QED
      BY <3>1
  <2>5. QED
    BY <2>4
<1>8. QED
  BY <1>2, <1>5, <1>6, <1>7

-----------------------------------------------------------------------------
(***************************************************************************)
(* The cells of a section.                                                 *)
(***************************************************************************)
Sectionlike == [name : Names, owner : Class \union {None}, docs : Names]

Value == BOOLEAN \union {"0x55", "0xAA"} \union Nat \union Names

CellSet ==
    {c \in [type : {"byte", "uint16", "uint32", "bytes"}, v : Value] :
       c.type = "bytes" => c.v \in Names}

(* How many cells a section has.                                              *)
Width(s) == IF s.owner = None THEN 5 ELSE 7

LEMMA SeqGrows ==
    ASSUME NEW A, NEW B, A \subseteq B
    PROVE  Seq(A) \subseteq Seq(B)
OBVIOUS

LEMMA SectionTypes ==
    ASSUME NEW k \in {"classes", "methods"}
    PROVE  Files[k] \subseteq Seq(Sectionlike)
<1>1. ClassSection \subseteq Sectionlike /\ MethodSection \subseteq Sectionlike
  BY FilesAssumption DEF ClassSection, MethodSection, Sectionlike
<1>2. Seq(ClassSection) \subseteq Seq(Sectionlike) /\ Seq(MethodSection) \subseteq Seq(Sectionlike)
  <2> HIDE DEF Sectionlike
  <2>1. QED
    BY <1>1, SeqGrows, Zenon
<1>3. QED
  BY <1>2, FilesAssumption

LEMMA CellType ==
    /\ \A b \in BOOLEAN \union {"0x55", "0xAA"} : Cell("byte", b) \in CellSet
    /\ \A n \in Nat : Cell("uint16", n) \in CellSet /\ Cell("uint32", n) \in CellSet
    /\ \A n \in Names : Cell("bytes", n) \in CellSet
BY DEF Cell, CellSet, Value

LEMMA TupleTypes ==
    ASSUME NEW S, NEW a \in S, NEW b \in S, NEW c \in S, NEW d \in S, NEW e \in S,
           NEW f \in S, NEW g \in S
    PROVE  /\ <<a, b, c, d, e>> \in Seq(S) /\ Len(<<a, b, c, d, e>>) = 5
           /\ <<a, b, c, d, e, f, g>> \in Seq(S) /\ Len(<<a, b, c, d, e, f, g>>) = 7
OBVIOUS

LEMMA RecordType ==
    ASSUME NEW s \in Sectionlike
    PROVE  Record(s) \in Seq(CellSet) /\ Len(Record(s)) = Width(s)
<1>1. s.name \in Names /\ s.docs \in Names /\ (s.owner # None => s.owner \in Names)
  BY FilesAssumption DEF Sectionlike
<1>2. \A n \in Names : Size(n) \in CellSet /\ Bytes(n) \in CellSet
  BY CellType, FilesAssumption DEF Size, Bytes
<1>3. Cell("byte", FALSE) \in CellSet /\ Cell("byte", TRUE) \in CellSet
  BY CellType
<1>4. CASE s.owner = None
  BY <1>1, <1>2, <1>3, <1>4, TupleTypes DEF Record, Width
<1>5. CASE s.owner # None
  BY <1>1, <1>2, <1>3, <1>5, TupleTypes DEF Record, Width
<1>6. QED
  BY <1>4, <1>5

-----------------------------------------------------------------------------
(***************************************************************************)
(* A blob: after three cells of its own, the cells of n sections, which    *)
(* begin at the cells st.                                                  *)
(***************************************************************************)
LaidOut(cells, sections, n, st) ==
    /\ st \in [1 .. n + 1 -> Nat] /\ st[1] = 4 /\ st[n + 1] = Len(cells) + 1
    /\ \A j \in 1 .. n + 1 : 4 <= st[j] /\ st[j] <= Len(cells) + 1
    /\ \A j \in 1 .. n :
          /\ st[j + 1] = st[j] + Width(sections[j])
          /\ \A i \in 1 .. Width(sections[j]) :
                cells[st[j] + i - 1] = Record(sections[j])[i]

Written(cells, sections, n) ==
    /\ cells \in Seq(CellSet)
    /\ cells[1] = Cell("byte", "0x55") /\ cells[2] = Cell("byte", "0xAA")
    /\ cells[3].type = "uint16"
    /\ \E st : LaidOut(cells, sections, n, st)

LEMMA HeaderWritten ==
    ASSUME NEW sections \in Seq(Sectionlike)
    PROVE  Written(Header(sections), sections, 0)
<1> DEFINE cells == Header(sections)
           st == [j \in 1 .. 1 |-> 4]
           a == Cell("byte", "0x55")
           b == Cell("byte", "0xAA")
           c == Cell("uint16", (Len(sections) + 1) % 65536)
<1>1. a \in CellSet /\ b \in CellSet /\ c \in CellSet /\ c.type = "uint16"
  <2>1. \A n \in Nat : n % 65536 \in Nat
    OBVIOUS
  <2>2. Len(sections) + 1 \in Nat
    OBVIOUS
  <2> DEFINE m == (Len(sections) + 1) % 65536
  <2>3. m \in Nat
    BY <2>1, <2>2
  <2> HIDE DEF m
  <2>4. a \in CellSet /\ b \in CellSet /\ Cell("uint16", m) \in CellSet
    BY <2>3, CellType
  <2>5. c.type = "uint16"
    BY DEF Cell
  <2>6. QED
    BY <2>4, <2>5 DEF m
<1>2. cells = <<a, b, c>>
  BY DEF Header
<1> HIDE DEF a, b, c, cells
<1>3. /\ cells \in Seq(CellSet) /\ Len(cells) = 3
      /\ cells[1] = a /\ cells[2] = b /\ cells[3] = c
  BY <1>1, <1>2
<1>4. LaidOut(cells, sections, 0, st)
  BY <1>3 DEF LaidOut
<1>5. QED
  BY <1>1, <1>3, <1>4 DEF Written, a, b, cells

LEMMA Concatenation ==
    ASSUME NEW S, NEW x \in Seq(S), NEW y \in Seq(S)
    PROVE  /\ x \o y \in Seq(S) /\ Len(x \o y) = Len(x) + Len(y)
           /\ \A i \in 1 .. Len(x) : (x \o y)[i] = x[i]
           /\ \A i \in 1 .. Len(y) : (x \o y)[Len(x) + i] = y[i]
OBVIOUS

LEMMA RecordWritten ==
    ASSUME NEW sections \in Seq(Sectionlike), NEW n \in Nat, n < Len(sections), NEW cells,
           Written(cells, sections, n)
    PROVE  Written(cells \o Record(sections[n + 1]), sections, n + 1)
<1> DEFINE s == sections[n + 1]
           r == Record(s)
           new == cells \o r
           L == Len(cells)
           w == Width(s)
<1>1. PICK st : LaidOut(cells, sections, n, st)
  BY DEF Written
<1>2. s \in Sectionlike
  OBVIOUS
<1>3. r \in Seq(CellSet) /\ Len(r) = w /\ w \in Nat
  BY <1>2, RecordType DEF Width
<1>4. /\ cells \in Seq(CellSet) /\ L \in Nat /\ L >= 3
  BY <1>1 DEF Written, LaidOut
<1>5. /\ new \in Seq(CellSet) /\ Len(new) = L + w
      /\ \A i \in 1 .. L : new[i] = cells[i]
      /\ \A i \in 1 .. w : new[L + i] = r[i]
  <2>1. /\ new \in Seq(CellSet) /\ Len(new) = L + Len(r)
        /\ \A i \in 1 .. L : new[i] = cells[i]
        /\ \A i \in 1 .. Len(r) : new[L + i] = r[i]
    <3>1. r \in Seq(CellSet)
      BY <1>3
    <3> HIDE DEF r
    <3>2. QED
      BY <1>4, <3>1, Concatenation
  <2> HIDE DEF new
  <2>2. QED
    BY <1>3, <2>1
<1> DEFINE more == [j \in 1 .. n + 2 |-> IF j = n + 2 THEN L + w + 1 ELSE st[j]]
<1>6. LaidOut(new, sections, n + 1, more)
  <2>a. /\ st \in [1 .. n + 1 -> Nat] /\ st[1] = 4 /\ st[n + 1] = L + 1
        /\ \A j \in 1 .. n + 1 : 4 <= st[j] /\ st[j] <= L + 1
        /\ \A j \in 1 .. n :
              /\ st[j + 1] = st[j] + Width(sections[j])
              /\ \A i \in 1 .. Width(sections[j]) :
                    cells[st[j] + i - 1] = Record(sections[j])[i]
    BY <1>1 DEF LaidOut
  <2> HIDE DEF new, r, L, w
  <2>b. /\ \A j \in 1 .. n + 1 : more[j] = st[j]
        /\ more[n + 2] = L + w + 1
        /\ more \in [1 .. n + 2 -> Nat]
    BY <1>3, <1>4, <2>a
  <2> HIDE DEF more
  <2>1. more \in [1 .. n + 2 -> Nat] /\ more[1] = 4 /\ more[n + 2] = Len(new) + 1
    BY <1>3, <1>4, <1>5, <2>a, <2>b
  <2>2. \A j \in 1 .. n + 1 : more[j] = st[j] /\ st[j] \in Nat /\ 4 <= st[j] /\ st[j] <= L + 1
    BY <2>a, <2>b
  <2>3. ASSUME NEW j \in 1 .. n + 2
        PROVE  4 <= more[j] /\ more[j] <= Len(new) + 1
    <3>1. CASE j \in 1 .. n + 1
      <4>1. more[j] \in Nat /\ 4 <= more[j] /\ more[j] <= L + 1
        BY <2>2, <3>1
      <4>2. Len(new) + 1 = L + w + 1
        BY <1>5
      <4>3. QED
        BY <1>3, <1>4, <4>1, <4>2
    <3>2. CASE j = n + 2
      <4>1. more[j] = L + w + 1 /\ Len(new) + 1 = L + w + 1
        BY <1>5, <2>b, <3>2
      <4>2. 4 <= L + w + 1 /\ L + w + 1 <= L + w + 1
        BY <1>3, <1>4
      <4>3. QED
        BY <4>1, <4>2
    <3>3. QED
      BY <3>1, <3>2
  <2>4. ASSUME NEW j \in 1 .. n
        PROVE  /\ more[j + 1] = more[j] + Width(sections[j])
               /\ \A i \in 1 .. Width(sections[j]) :
                     new[more[j] + i - 1] = Record(sections[j])[i]
    <3>1. more[j] = st[j] /\ more[j + 1] = st[j + 1] /\ st[j] \in Nat /\ st[j + 1] <= L + 1 /\ 4 <= st[j]
      BY <2>2
    <3>2. st[j + 1] = st[j] + Width(sections[j]) /\ Width(sections[j]) \in Nat
      BY <2>a DEF Width
    <3>3. ASSUME NEW i \in 1 .. Width(sections[j])
          PROVE  new[st[j] + i - 1] = Record(sections[j])[i]
      <4>1. st[j] + i - 1 \in 1 .. L
        BY <1>4, <3>1, <3>2, SMTT(30)
      <4>2. QED
        BY <1>5, <2>a, <4>1
    <3>4. QED
      BY <3>1, <3>2, <3>3
  <2>5. /\ more[n + 2] = more[n + 1] + w
        /\ \A i \in 1 .. w : new[more[n + 1] + i - 1] = r[i]
    <3>1. more[n + 1] = L + 1
      BY <2>a, <2>b
    <3>2. \A i \in 1 .. w : L + 1 + i - 1 = L + i
      BY <1>3, <1>4
    <3>3. QED
      BY <1>3, <1>4, <1>5, <2>b, <3>1, <3>2
  <2>6. QED
    <3>1. ASSUME NEW j \in 1 .. n + 1
          PROVE  /\ more[j + 1] = more[j] + Width(sections[j])
                 /\ \A i \in 1 .. Width(sections[j]) :
                       new[more[j] + i - 1] = Record(sections[j])[i]
      <4>1. CASE j \in 1 .. n
        BY <2>4, <4>1
      <4>2. CASE j = n + 1
        BY <2>5, <4>2 DEF r, w
      <4>3. QED
        BY <4>1, <4>2
    <3>2. n + 1 + 1 = n + 2
      OBVIOUS
    <3>3. QED
      BY <2>1, <2>3, <3>1, <3>2 DEF LaidOut
<1>7. QED
  BY <1>4, <1>5, <1>6 DEF Written

-----------------------------------------------------------------------------
(***************************************************************************)
(* The bytes of a blob.                                                    *)
(***************************************************************************)
LEMMA CellSize ==
    ASSUME NEW c \in CellSet
    PROVE  SizeOf(c) \in Nat
<1>1. c.type \in {"byte", "uint16", "uint32", "bytes"}
  BY DEF CellSet
<1>2. c.type = "bytes" => Length[c.v] \in Nat
  BY FilesAssumption DEF CellSet
<1>3. QED
  BY <1>1, <1>2 DEF SizeOf

LEMMA SizeUnfolds ==
    ASSUME NEW cells \in Seq(CellSet)
    PROVE  /\ \A p \in 1 .. Len(cells) + 1 : SizeFrom(cells, p) \in Nat
           /\ \A p \in 1 .. Len(cells) :
                 SizeFrom(cells, p) = SizeOf(cells[p]) + SizeFrom(cells, p + 1)
           /\ SizeFrom(cells, Len(cells) + 1) = 0
<1> DEFINE sizes == [i \in DOMAIN cells |-> SizeOf(cells[i])]
<1>1. \A i \in 1 .. Len(cells) : SizeOf(cells[i]) \in Nat
  BY CellSize
<1>2. /\ sizes \in Seq(Nat) /\ Len(sizes) = Len(cells)
      /\ \A i \in 1 .. Len(cells) : sizes[i] = SizeOf(cells[i])
  BY <1>1
<1>3. \A p : SizeFrom(cells, p) = SumFrom(sizes, p)
  BY DEF SizeFrom
<1> HIDE DEF sizes
<1>4. QED
  BY <1>2, <1>3, SumUnfolds

LEMMA SectionSizeType ==
    ASSUME NEW sections \in Seq(Sectionlike)
    PROVE  /\ SectionSizes(sections) \in Seq(Nat)
           /\ Len(SectionSizes(sections)) = Len(sections)
           /\ \A j \in 1 .. Len(sections) :
                 /\ SectionSizes(sections)[j] = SectionSize(sections[j])
                 /\ SectionSize(sections[j]) \in Nat /\ SectionSize(sections[j]) > 0
<1>1. ASSUME NEW s \in Sectionlike
      PROVE  SectionSize(s) \in Nat /\ SectionSize(s) > 0
  <2>1. /\ Length[s.name] \in Nat /\ Length[s.docs] \in Nat
        /\ s.owner # None => Length[s.owner] \in Nat
    BY FilesAssumption DEF Sectionlike
  <2> DEFINE a == Length[s.name]
             b == Length[s.docs]
             c == IF s.owner = None THEN 0 ELSE 4 + Length[s.owner]
  <2>2. a \in Nat /\ b \in Nat /\ c \in Nat
    BY <2>1
  <2>3. SectionSize(s) = 1 + (4 + a) + c + (4 + b)
    BY DEF SectionSize
  <2> HIDE DEF a, b, c
  <2>4. QED
    BY <2>2, <2>3
<1>2. \A j \in 1 .. Len(sections) : sections[j] \in Sectionlike
  OBVIOUS
<1>3. QED
  BY <1>1, <1>2 DEF SectionSizes

LEMMA RecordCells ==
    ASSUME NEW s
    PROVE  /\ s.owner = None =>
                 /\ Record(s)[1] = Cell("byte", FALSE)
                 /\ Record(s)[2] = Size(s.name) /\ Record(s)[3] = Bytes(s.name)
                 /\ Record(s)[4] = Size(s.docs) /\ Record(s)[5] = Bytes(s.docs)
           /\ s.owner # None =>
                 /\ Record(s)[1] = Cell("byte", TRUE)
                 /\ Record(s)[2] = Size(s.name) /\ Record(s)[3] = Bytes(s.name)
                 /\ Record(s)[4] = Size(s.owner) /\ Record(s)[5] = Bytes(s.owner)
                 /\ Record(s)[6] = Size(s.docs) /\ Record(s)[7] = Bytes(s.docs)
BY DEF Record

LEMMA RecordSizes ==
    ASSUME NEW s
    PROVE  /\ s.owner = None =>
                 /\ SizeOf(Record(s)[1]) = 1
                 /\ SizeOf(Record(s)[2]) = 4 /\ SizeOf(Record(s)[3]) = Length[s.name]
                 /\ SizeOf(Record(s)[4]) = 4 /\ SizeOf(Record(s)[5]) = Length[s.docs]
           /\ s.owner # None =>
                 /\ SizeOf(Record(s)[1]) = 1
                 /\ SizeOf(Record(s)[2]) = 4 /\ SizeOf(Record(s)[3]) = Length[s.name]
                 /\ SizeOf(Record(s)[4]) = 4 /\ SizeOf(Record(s)[5]) = Length[s.owner]
                 /\ SizeOf(Record(s)[6]) = 4 /\ SizeOf(Record(s)[7]) = Length[s.docs]
<1>1. SizeOf(Cell("byte", FALSE)) = 1 /\ SizeOf(Cell("byte", TRUE)) = 1
  BY DEF SizeOf, Cell
<1>2. ASSUME NEW v
      PROVE  SizeOf(Size(v)) = 4 /\ SizeOf(Bytes(v)) = Length[v]
  BY DEF SizeOf, Size, Bytes, Cell
<1>3. CASE s.owner = None
  <2> DEFINE r == Record(s)
  <2>1. /\ r[1] = Cell("byte", FALSE) /\ r[2] = Size(s.name) /\ r[3] = Bytes(s.name)
        /\ r[4] = Size(s.docs) /\ r[5] = Bytes(s.docs)
    BY <1>3, RecordCells
  <2> HIDE DEF r
  <2>2. QED
    BY <1>1, <1>2, <1>3, <2>1 DEF r
<1>4. CASE s.owner # None
  <2> DEFINE r == Record(s)
  <2>1. /\ r[1] = Cell("byte", TRUE) /\ r[2] = Size(s.name) /\ r[3] = Bytes(s.name)
        /\ r[4] = Size(s.owner) /\ r[5] = Bytes(s.owner)
        /\ r[6] = Size(s.docs) /\ r[7] = Bytes(s.docs)
    BY <1>4, RecordCells
  <2> HIDE DEF r
  <2>2. QED
    BY <1>1, <1>2, <1>4, <2>1 DEF r
<1>5. QED
  BY <1>3, <1>4

(* f counts down by the steps g.                                              *)
StepsDown(f, g, w) ==
    \A i \in 1 .. w : f[i - 1] = g[i] + f[i] /\ f[i] \in Nat /\ g[i] \in Nat

LEMMA FiveSteps ==
    ASSUME NEW f, NEW g, NEW w \in Nat, 5 <= w, StepsDown(f, g, w)
    PROVE  f[0] = g[1] + g[2] + g[3] + g[4] + g[5] + f[5] /\ f[5] \in Nat
<1>1. ASSUME NEW i \in 1 .. 5 PROVE f[i - 1] = g[i] + f[i] /\ f[i] \in Nat /\ g[i] \in Nat
  BY DEF StepsDown
<1>2. /\ f[0] = g[1] + f[1] /\ f[1] \in Nat /\ g[1] \in Nat
      /\ f[1] = g[2] + f[2] /\ f[2] \in Nat /\ g[2] \in Nat
      /\ f[2] = g[3] + f[3] /\ f[3] \in Nat /\ g[3] \in Nat
      /\ f[3] = g[4] + f[4] /\ f[4] \in Nat /\ g[4] \in Nat
      /\ f[4] = g[5] + f[5] /\ f[5] \in Nat /\ g[5] \in Nat
  BY <1>1
<1>3. QED
  BY <1>2

LEMMA SevenSteps ==
    ASSUME NEW f, NEW g, NEW w \in Nat, 7 <= w, StepsDown(f, g, w)
    PROVE  /\ f[0] = g[1] + g[2] + g[3] + g[4] + g[5] + g[6] + g[7] + f[7]
           /\ f[7] \in Nat
<1>1. f[0] = g[1] + g[2] + g[3] + g[4] + g[5] + f[5] /\ f[5] \in Nat
  BY FiveSteps
<1>2. ASSUME NEW i \in 1 .. 7 PROVE f[i - 1] = g[i] + f[i] /\ f[i] \in Nat /\ g[i] \in Nat
  BY DEF StepsDown
<1>3. /\ f[5] = g[6] + f[6] /\ f[6] = g[7] + f[7] /\ f[6] \in Nat /\ f[7] \in Nat
      /\ g[1] \in Nat /\ g[2] \in Nat /\ g[3] \in Nat /\ g[4] \in Nat
      /\ g[5] \in Nat /\ g[6] \in Nat /\ g[7] \in Nat
  BY <1>2
<1>4. QED
  BY <1>1, <1>3

LEMMA SizeOfSection ==
    ASSUME NEW sections \in Seq(Sectionlike), NEW cells \in Seq(CellSet),
           NEW n \in Nat, n <= Len(sections), NEW st, LaidOut(cells, sections, n, st),
           NEW j \in 1 .. n
    PROVE  /\ SizeFrom(cells, st[j]) = SectionSize(sections[j]) + SizeFrom(cells, st[j + 1])
           /\ SizeFrom(cells, st[j + 1]) \in Nat
<1> DEFINE s == sections[j]
           p == st[j]
           w == Width(s)
<1>1. s \in Sectionlike
  OBVIOUS
<1>2. /\ p \in Nat /\ 4 <= p /\ st[j + 1] = p + w /\ p + w <= Len(cells) + 1
      /\ \A i \in 1 .. w : cells[p + i - 1] = Record(s)[i]
  BY DEF LaidOut
<1>3. /\ Length[s.name] \in Nat /\ Length[s.docs] \in Nat
      /\ s.owner # None => Length[s.owner] \in Nat
  BY <1>1, FilesAssumption DEF Sectionlike
<1> HIDE DEF s, p
<1>4. ASSUME NEW i \in 1 .. w, w \in Nat
      PROVE  /\ SizeFrom(cells, p + i - 1) = SizeOf(Record(s)[i]) + SizeFrom(cells, p + i)
             /\ SizeFrom(cells, p + i) \in Nat
  <2>1. p + i - 1 \in 1 .. Len(cells) /\ p + i - 1 + 1 = p + i
    BY <1>2, <1>4
  <2>2. p + i \in 1 .. Len(cells) + 1
    BY <1>2, <1>4
  <2>3. QED
    BY <1>2, <2>1, <2>2, SizeUnfolds
<1> DEFINE f == [i \in 0 .. w |-> SizeFrom(cells, p + i)]
           g == [i \in 1 .. w |-> SizeOf(Record(s)[i])]
<1>5. w \in {5, 7}
  BY DEF Width
<1>6. StepsDown(f, g, w) /\ f[w] \in Nat
  <2>1. ASSUME NEW i \in 1 .. w
        PROVE  f[i - 1] = g[i] + f[i] /\ f[i] \in Nat /\ g[i] \in Nat
    <3>1. i \in 0 .. w /\ i - 1 \in 0 .. w /\ w \in Nat
      BY <1>5
    <3>2. p + (i - 1) = p + i - 1
      BY <1>2
    <3>3. /\ f[i] = SizeFrom(cells, p + i) /\ f[i - 1] = SizeFrom(cells, p + i - 1)
          /\ g[i] = SizeOf(Record(s)[i])
      BY <3>1, <3>2
    <3>4. Record(s)[i] \in CellSet
      BY <1>1, RecordType DEF s
    <3>5. g[i] \in Nat
      BY <3>3, <3>4, CellSize
    <3> HIDE DEF f, g, w
    <3>6. QED
      BY <1>4, <3>1, <3>3, <3>5
  <2>2. w \in 1 .. w
    BY <1>5
  <2> HIDE DEF f, g, w
  <2>3. QED
    BY <2>1, <2>2 DEF StepsDown
<1>7. f[0] = SizeFrom(cells, p) /\ f[w] = SizeFrom(cells, st[j + 1])
  BY <1>2, <1>5
<1> HIDE DEF f
<1>9. CASE s.owner = None
  <2>1. w = 5
    BY <1>9 DEF Width
  <2>2. /\ g[1] = 1 /\ g[2] = 4 /\ g[3] = Length[s.name] /\ g[4] = 4 /\ g[5] = Length[s.docs]
    BY <1>9, <2>1, RecordSizes
  <2>3. SectionSize(s) = 1 + (4 + Length[s.name]) + (4 + Length[s.docs])
    BY <1>3, <1>9 DEF SectionSize
  <2> HIDE DEF g
  <2>4. f[0] = SectionSize(s) + f[w]
    <3> DEFINE a == Length[s.name]
               b == Length[s.docs]
    <3>1. a \in Nat /\ b \in Nat /\ f[w] \in Nat
      BY <1>3, <1>6
    <3>2. f[0] = 1 + 4 + a + 4 + b + f[w]
      BY <1>6, <2>1, <2>2, FiveSteps
    <3>3. \A k, l, m \in Nat : 1 + 4 + k + 4 + l + m = 1 + (4 + k) + (4 + l) + m
      OBVIOUS
    <3>4. SectionSize(s) = 1 + (4 + a) + (4 + b)
      BY <2>3
    <3> HIDE DEF a, b, w
    <3>5. QED
      BY <3>1, <3>2, <3>3, <3>4
  <2>5. QED
    BY <1>6, <1>7, <2>4 DEF s, p
<1>10. CASE s.owner # None
  <2>1. w = 7
    BY <1>10 DEF Width
  <2>2. /\ g[1] = 1 /\ g[2] = 4 /\ g[3] = Length[s.name] /\ g[4] = 4 /\ g[5] = Length[s.owner]
        /\ g[6] = 4 /\ g[7] = Length[s.docs]
    BY <1>10, <2>1, RecordSizes
  <2>3. SectionSize(s) = 1 + (4 + Length[s.name]) + (4 + Length[s.owner]) + (4 + Length[s.docs])
    BY <1>3, <1>10 DEF SectionSize
  <2> HIDE DEF g
  <2>4. f[0] = SectionSize(s) + f[w]
    <3> DEFINE a == Length[s.name]
               b == Length[s.docs]
               c == Length[s.owner]
    <3>1. a \in Nat /\ b \in Nat /\ c \in Nat /\ f[w] \in Nat
      BY <1>3, <1>6, <1>10
    <3>2. f[0] = 1 + 4 + a + 4 + c + 4 + b + f[w]
      BY <1>6, <2>1, <2>2, SevenSteps
    <3>3. \A k, l, m, n1 \in Nat :
             1 + 4 + k + 4 + l + 4 + m + n1 = 1 + (4 + k) + (4 + l) + (4 + m) + n1
      OBVIOUS
    <3>4. SectionSize(s) = 1 + (4 + a) + (4 + c) + (4 + b)
      BY <2>3
    <3> HIDE DEF a, b, c, w
    <3>5. QED
      BY <3>1, <3>2, <3>3, <3>4
  <2>5. QED
    BY <1>6, <1>7, <2>4 DEF s, p
<1>11. QED
  BY <1>9, <1>10

(* From the beginning of a section to the end of the blob there are as many   *)
(* bytes as in this section and those after it.                               *)
LEMMA SizeOfRest ==
    ASSUME NEW sections \in Seq(Sectionlike), NEW cells \in Seq(CellSet), NEW st,
           LaidOut(cells, sections, Len(sections), st)
    PROVE  \A j \in 1 .. Len(sections) + 1 :
              SizeFrom(cells, st[j]) = SumFrom(SectionSizes(sections), j)
<1> DEFINE n == Len(sections)
           Rest(j) == SizeFrom(cells, st[j])
           Sum(j) == SumFrom(SectionSizes(sections), j)
           S == {m \in Nat : m <= n => Rest(n + 1 - m) = Sum(n + 1 - m)}
<1>1. n \in Nat
  OBVIOUS
<1>2. Rest(n + 1) = 0
  BY SizeUnfolds DEF LaidOut
<1>3. Sum(n + 1) = 0
  BY SectionSizeType, SumUnfolds
<1>4. \A j \in 1 .. n : Rest(j) = SectionSize(sections[j]) + Rest(j + 1)
  BY <1>1, SizeOfSection
<1>5. \A j \in 1 .. n : Sum(j) = SectionSize(sections[j]) + Sum(j + 1)
  BY SectionSizeType, SumUnfolds
<1> HIDE DEF Rest, Sum
<1>6. 0 \in S
  BY <1>1, <1>2, <1>3
<1>7. ASSUME NEW m \in Nat, m \in S PROVE m + 1 \in S
  <2>1. SUFFICES ASSUME m + 1 <= n PROVE Rest(n - m) = Sum(n - m)
    BY <1>1
  <2>2. n - m \in 1 .. n /\ n - m + 1 = n + 1 - m
    BY <1>1, <2>1
  <2>3. Rest(n + 1 - m) = Sum(n + 1 - m)
    BY <1>1, <1>7, <2>1
  <2>4. QED
    BY <1>4, <1>5, <2>2, <2>3
<1>8. \A m \in Nat : m \in S
  <2> HIDE DEF S
  <2>1. QED
    BY <1>6, <1>7, InductionOnNaturals
<1>9. ASSUME NEW j \in 1 .. n + 1 PROVE Rest(j) = Sum(j)
  <2>1. n + 1 - j \in Nat /\ n + 1 - j <= n /\ n + 1 - (n + 1 - j) = j
    BY <1>1
  <2>2. QED
    BY <1>8, <2>1
<1>10. QED
  BY <1>9 DEF Rest, Sum

LEMMA SizeOfBlob ==
    ASSUME NEW sections, NEW n \in Nat, NEW cells, Written(cells, sections, n)
    PROVE  SizeFrom(cells, 1) = 4 + SizeFrom(cells, 4) /\ SizeFrom(cells, 4) \in Nat
<1>1. cells \in Seq(CellSet) /\ Len(cells) >= 3
  BY DEF Written, LaidOut
<1>2. /\ SizeOf(cells[1]) = 1 /\ SizeOf(cells[2]) = 1 /\ SizeOf(cells[3]) = 2
  BY DEF Written, SizeOf, Cell
<1>3. /\ SizeFrom(cells, 1) = SizeOf(cells[1]) + SizeFrom(cells, 2)
      /\ SizeFrom(cells, 2) = SizeOf(cells[2]) + SizeFrom(cells, 3)
      /\ SizeFrom(cells, 3) = SizeOf(cells[3]) + SizeFrom(cells, 4)
      /\ SizeFrom(cells, 4) \in Nat
  BY <1>1, SizeUnfolds
<1>4. QED
  BY <1>2, <1>3

(* Below Word nothing wraps. *)
LEMMA MinusExact ==
    ASSUME NEW n \in Nat, n < Word, NEW m \in Nat, m <= n
    PROVE  Minus(n, m) = n - m /\ n - m \in Nat /\ n - m < Word
BY WordAssumption DEF Minus

-----------------------------------------------------------------------------
(***************************************************************************)
(* The decoder at the beginning of a section reads that section.           *)
(***************************************************************************)
LEMMA StringRead ==
    ASSUME NEW v \in Names, NEW p \in Nat, NEW n \in Nat, n < Word, 4 + Length[v] <= n,
           p + 1 <= Len(data[kind]), data[kind][p] = Size(v), data[kind][p + 1] = Bytes(v)
    PROVE  /\ IsString(p)
           /\ StringAt(p, n) = [v |-> v, len |-> Length[v], before |-> n - 4,
                                left |-> n - 4 - Length[v], next |-> p + 2]
           /\ n - 4 \in Nat /\ n - 4 - Length[v] \in Nat /\ n - 4 - Length[v] < Word
<1>1. Length[v] \in Nat
  BY FilesAssumption
<1>2. Minus(n, 4) = n - 4 /\ n - 4 \in Nat /\ n - 4 < Word
  BY <1>1, MinusExact
<1>3. /\ Minus(n - 4, Length[v]) = n - 4 - Length[v]
      /\ n - 4 - Length[v] \in Nat /\ n - 4 - Length[v] < Word
  <2> DEFINE m == n - 4
  <2>1. m \in Nat /\ m < Word /\ Length[v] <= m
    BY <1>1, <1>2
  <2> HIDE DEF m
  <2>2. Minus(m, Length[v]) = m - Length[v] /\ m - Length[v] \in Nat /\ m - Length[v] < Word
    BY <1>1, <2>1, MinusExact
  <2>3. QED
    BY <2>2 DEF m
<1>4. /\ data[kind][p].type = "uint32" /\ data[kind][p].v = Length[v]
      /\ data[kind][p + 1].type = "bytes" /\ data[kind][p + 1].v = v
  BY DEF Size, Bytes, Cell
<1>5. IsString(p)
  BY <1>4 DEF IsString
<1>6. QED
  BY <1>2, <1>3, <1>4, <1>5 DEF StringAt

(* The cells of section s begin at p.                                         *)
SectionAt(cells, p, s) ==
    /\ p \in Nat /\ Len(cells) \in Nat /\ p + Width(s) <= Len(cells) + 1
    /\ \A i \in 1 .. Width(s) : cells[p + i - 1] = Record(s)[i]

LEMMA CellsAt ==
    ASSUME NEW s, NEW cells, NEW p, SectionAt(cells, p, s)
    PROVE  /\ p \in Nat
           /\ s.owner = None =>
                 /\ cells[p] = Cell("byte", FALSE)
                 /\ cells[p + 1] = Size(s.name) /\ cells[p + 2] = Bytes(s.name)
                 /\ cells[p + 3] = Size(s.docs) /\ cells[p + 4] = Bytes(s.docs)
                 /\ p + 4 <= Len(cells)
           /\ s.owner # None =>
                 /\ cells[p] = Cell("byte", TRUE)
                 /\ cells[p + 1] = Size(s.name) /\ cells[p + 2] = Bytes(s.name)
                 /\ cells[p + 3] = Size(s.owner) /\ cells[p + 4] = Bytes(s.owner)
                 /\ cells[p + 5] = Size(s.docs) /\ cells[p + 6] = Bytes(s.docs)
                 /\ p + 6 <= Len(cells)
<1>1. p \in Nat /\ Len(cells) \in Nat /\ p + 1 - 1 = p
  BY DEF SectionAt
<1>2. ASSUME NEW i \in 1 .. Width(s) PROVE cells[p + i - 1] = Record(s)[i]
  BY DEF SectionAt
<1>3. \A k \in 1 .. 6 : p + (k + 1) - 1 = p + k
  BY <1>1
<1>4. CASE s.owner = None
  <2>1. Width(s) = 5
    BY <1>4 DEF Width
  <2>2. /\ cells[p] = Record(s)[1]
        /\ cells[p + 1] = Record(s)[2] /\ cells[p + 2] = Record(s)[3]
        /\ cells[p + 3] = Record(s)[4] /\ cells[p + 4] = Record(s)[5]
    BY <1>1, <1>2, <1>3, <2>1
  <2>3. p + 4 <= Len(cells)
    BY <1>1, <2>1 DEF SectionAt
  <2>4. QED
    BY <1>1, <1>4, <2>2, <2>3, RecordCells
<1>5. CASE s.owner # None
  <2>1. Width(s) = 7
    BY <1>5 DEF Width
  <2>2. /\ cells[p] = Record(s)[1]
        /\ cells[p + 1] = Record(s)[2] /\ cells[p + 2] = Record(s)[3]
        /\ cells[p + 3] = Record(s)[4] /\ cells[p + 4] = Record(s)[5]
        /\ cells[p + 5] = Record(s)[6] /\ cells[p + 6] = Record(s)[7]
    BY <1>1, <1>2, <1>3, <2>1
  <2>4. p + 6 <= Len(cells)
    BY <1>1, <2>1 DEF SectionAt
  <2>5. QED
    BY <1>1, <1>5, <2>2, <2>4, RecordCells
<1>6. QED
  BY <1>4, <1>5

LEMMA SectionRead ==
    ASSUME NEW s \in Sectionlike, SectionAt(data[kind], pos, s), NEW rest \in Nat,
           left = SectionSize(s) + rest, left < Word
    PROVE  Decoded = [record |-> s, next |-> pos + Width(s), left |-> rest, ok |-> TRUE]
<1> DEFINE a == Length[s.name]
           b == Length[s.docs]
           c == Length[s.owner]
           cells == data[kind]
           n1 == left - 1
           n2 == n1 - 4 - a
<1>1. /\ s.name \in Names /\ s.docs \in Names
      /\ s.owner # None => s.owner \in Names
      /\ s = [name |-> s.name, owner |-> s.owner, docs |-> s.docs]
  BY FilesAssumption DEF Sectionlike
<1>2. a \in Nat /\ b \in Nat /\ (s.owner # None => c \in Nat)
  BY <1>1, FilesAssumption
<1>3. pos \in Nat /\ Len(cells) \in Nat
  BY DEF SectionAt
<1>4. CASE s.owner = None
  <2>0. Width(s) = 5
    BY <1>4 DEF Width
  <2>7. /\ cells[pos] = Cell("byte", FALSE)
        /\ cells[pos + 1] = Size(s.name) /\ cells[pos + 2] = Bytes(s.name)
        /\ cells[pos + 3] = Size(s.docs) /\ cells[pos + 4] = Bytes(s.docs)
        /\ pos + 4 <= Len(cells)
    <3>1. SectionAt(cells, pos, s)
      OBVIOUS
    <3> HIDE DEF cells
    <3>2. QED
      BY <1>4, <3>1, CellsAt
  <2>1. left = 1 + (4 + a) + (4 + b) + rest
    BY <1>2, <1>4 DEF SectionSize
  <2> HIDE DEF a, b
  <2>2. FlagRead(left) = n1 /\ n1 \in Nat /\ n1 < Word /\ n1 = (4 + a) + (4 + b) + rest
    <3>1. left \in Nat /\ 1 <= left /\ left - 1 = (4 + a) + (4 + b) + rest
      BY <1>2, <2>1
    <3>2. QED
      BY <3>1, MinusExact DEF FlagRead
  <2> HIDE DEF n1
  <2>4. 4 + a <= n1 /\ a < n1 - 4 /\ n2 = 4 + b + rest
    BY <1>2, <2>2
  <2>5. /\ IsString(pos + 1)
        /\ StringAt(pos + 1, n1) = [v |-> s.name, len |-> a, before |-> n1 - 4,
                                    left |-> n2, next |-> pos + 3]
        /\ n2 \in Nat /\ n2 < Word
    <3> DEFINE p == pos + 1
    <3>1. /\ p \in Nat /\ p + 1 <= Len(cells) /\ p + 2 = pos + 3
          /\ cells[p] = Size(s.name) /\ cells[p + 1] = Bytes(s.name)
      <4>1. p \in Nat /\ p + 1 = pos + 2 /\ p + 2 = pos + 3 /\ p + 1 <= Len(cells)
        BY <1>3, <2>7
      <4>2. QED
        BY <2>7, <4>1
    <3> HIDE DEF p
    <3>2. /\ IsString(p)
          /\ StringAt(p, n1) = [v |-> s.name, len |-> a, before |-> n1 - 4,
                                left |-> n1 - 4 - a, next |-> p + 2]
          /\ n1 - 4 - a \in Nat /\ n1 - 4 - a < Word
      BY <1>1, <2>2, <2>4, <3>1, StringRead DEF a
    <3>3. QED
      BY <3>1, <3>2 DEF p
  <2> HIDE DEF n2
  <2>6. /\ IsString(pos + 3)
        /\ StringAt(pos + 3, n2) = [v |-> s.docs, len |-> b, before |-> n2 - 4,
                                    left |-> rest, next |-> pos + 5]
        /\ b <= n2 - 4
    <3> DEFINE p == pos + 3
    <3>1. /\ p \in Nat /\ p + 1 <= Len(cells) /\ p + 2 = pos + 5
          /\ cells[p] = Size(s.docs) /\ cells[p + 1] = Bytes(s.docs)
      <4>1. p \in Nat /\ p + 1 = pos + 4 /\ p + 2 = pos + 5 /\ p + 1 <= Len(cells)
        BY <1>3, <2>7
      <4>2. QED
        BY <2>7, <4>1
    <3>2. 4 + b <= n2 /\ b <= n2 - 4 /\ n2 - 4 - b = rest
      BY <1>2, <2>4
    <3> HIDE DEF p
    <3>3. /\ IsString(p)
          /\ StringAt(p, n2) = [v |-> s.docs, len |-> b, before |-> n2 - 4,
                                left |-> n2 - 4 - b, next |-> p + 2]
      BY <1>1, <2>5, <3>1, <3>2, StringRead DEF b
    <3>4. QED
      BY <3>1, <3>2, <3>3 DEF p
  <2>8. /\ cells[pos].type = "byte" /\ cells[pos].v = FALSE /\ pos <= Len(cells)
    BY <1>3, <2>7 DEF Cell
  <2> DEFINE name == StringAt(pos + 1, FlagRead(left))
             body == StringAt(name.next, name.left)
  <2>9. name.v = s.name /\ name.len = a /\ name.before = n1 - 4 /\ name.left = n2 /\ name.next = pos + 3
    BY <2>2, <2>5
  <2>10. body.v = s.docs /\ body.len = b /\ body.before = n2 - 4 /\ body.left = rest /\ body.next = pos + 5
    BY <2>6, <2>9
  <2> HIDE DEF name, body
  <2>11. NameFits(name.len, name.before) /\ TextFits(body.len, body.before)
    BY <2>4, <2>6, <2>9, <2>10 DEF NameFits, TextFits
  <2>12. Decoded = [record |-> [name |-> name.v, owner |-> None, docs |-> body.v],
                    next |-> body.next, left |-> body.left, ok |-> TRUE]
    BY <2>5, <2>6, <2>8, <2>9, <2>11 DEF Decoded, name, body
  <2>13. QED
    BY <1>1, <1>4, <2>0, <2>9, <2>10, <2>12
<1>5. CASE s.owner # None
  <2>1. Width(s) = 7
    BY <1>5 DEF Width
  <2>2. /\ cells[pos] = Cell("byte", TRUE)
        /\ cells[pos + 1] = Size(s.name) /\ cells[pos + 2] = Bytes(s.name)
        /\ cells[pos + 3] = Size(s.owner) /\ cells[pos + 4] = Bytes(s.owner)
        /\ cells[pos + 5] = Size(s.docs) /\ cells[pos + 6] = Bytes(s.docs)
        /\ pos + 6 <= Len(cells)
    <3>1. SectionAt(cells, pos, s)
      OBVIOUS
    <3> HIDE DEF cells
    <3>2. QED
      BY <1>5, <3>1, CellsAt
  <2>3. pos + 6 <= Len(cells)
    BY <2>2, Zenon
  <2>4. left = 1 + (4 + a) + (4 + c) + (4 + b) + rest
    BY <1>2, <1>5 DEF SectionSize
  <2>5. c \in Nat /\ s.owner \in Names
    BY <1>1, <1>2, <1>5
  <2> HIDE DEF a, b, c
  <2>6. FlagRead(left) = n1 /\ n1 \in Nat /\ n1 < Word /\ n1 = (4 + a) + (4 + c) + (4 + b) + rest
    <3>1. left \in Nat /\ 1 <= left /\ left - 1 = (4 + a) + (4 + c) + (4 + b) + rest
      BY <1>2, <2>4, <2>5
    <3>2. QED
      BY <3>1, MinusExact DEF FlagRead
  <2> HIDE DEF n1
  <2> DEFINE n3 == n2 - 4 - c
  <2>7. /\ 4 + a <= n1 /\ a < n1 - 4 /\ n2 = (4 + c) + (4 + b) + rest
        /\ 4 + c <= n2 /\ c < n2 - 4 /\ n3 = 4 + b + rest
    BY <1>2, <2>6, <2>5
  <2>8. /\ IsString(pos + 1)
        /\ StringAt(pos + 1, n1) = [v |-> s.name, len |-> a, before |-> n1 - 4,
                                    left |-> n2, next |-> pos + 3]
        /\ n2 \in Nat /\ n2 < Word
    <3> DEFINE p == pos + 1
    <3>1. /\ p \in Nat /\ p + 1 <= Len(cells) /\ p + 2 = pos + 3
          /\ cells[p] = Size(s.name) /\ cells[p + 1] = Bytes(s.name)
      <4>1. p \in Nat /\ p + 1 = pos + 2 /\ p + 2 = pos + 3 /\ p + 1 <= Len(cells)
        BY <1>3, <2>3
      <4>2. QED
        BY <2>2, <4>1
    <3> HIDE DEF p
    <3>2. /\ IsString(p)
          /\ StringAt(p, n1) = [v |-> s.name, len |-> a, before |-> n1 - 4,
                                left |-> n1 - 4 - a, next |-> p + 2]
          /\ n1 - 4 - a \in Nat /\ n1 - 4 - a < Word
      <4>1. 4 + a <= n1
        BY <2>7
      <4>2. QED
        BY <1>1, <2>6, <3>1, <4>1, StringRead DEF a
    <3>3. QED
      BY <3>1, <3>2 DEF p
  <2> HIDE DEF n2
  <2>9. /\ IsString(pos + 3)
        /\ StringAt(pos + 3, n2) = [v |-> s.owner, len |-> c, before |-> n2 - 4,
                                    left |-> n3, next |-> pos + 5]
        /\ n3 \in Nat /\ n3 < Word
    <3> DEFINE p == pos + 3
    <3>1. /\ p \in Nat /\ p + 1 <= Len(cells) /\ p + 2 = pos + 5
          /\ cells[p] = Size(s.owner) /\ cells[p + 1] = Bytes(s.owner)
      <4>1. p \in Nat /\ p + 1 = pos + 4 /\ p + 2 = pos + 5 /\ p + 1 <= Len(cells)
        BY <1>3, <2>3
      <4>2. QED
        BY <2>2, <4>1
    <3> HIDE DEF p
    <3>2. /\ IsString(p)
          /\ StringAt(p, n2) = [v |-> s.owner, len |-> c, before |-> n2 - 4,
                                left |-> n2 - 4 - c, next |-> p + 2]
          /\ n2 - 4 - c \in Nat /\ n2 - 4 - c < Word
      <4>1. 4 + c <= n2
        BY <2>7
      <4>2. QED
        BY <2>5, <2>8, <3>1, <4>1, StringRead, SMTT(30) DEF c
    <3>3. QED
      BY <3>1, <3>2 DEF p
  <2> HIDE DEF n3
  <2>10. /\ IsString(pos + 5)
        /\ StringAt(pos + 5, n3) = [v |-> s.docs, len |-> b, before |-> n3 - 4,
                                    left |-> rest, next |-> pos + 7]
        /\ b <= n3 - 4
    <3> DEFINE p == pos + 5
    <3>1. /\ p \in Nat /\ p + 1 <= Len(cells) /\ p + 2 = pos + 7
          /\ cells[p] = Size(s.docs) /\ cells[p + 1] = Bytes(s.docs)
      <4>1. p \in Nat /\ p + 1 = pos + 6 /\ p + 2 = pos + 7 /\ p + 1 <= Len(cells)
        BY <1>3, <2>3
      <4>2. QED
        BY <2>2, <4>1
    <3>2. 4 + b <= n3 /\ b <= n3 - 4 /\ n3 - 4 - b = rest
      BY <1>2, <2>7
    <3> HIDE DEF p
    <3>3. /\ IsString(p)
          /\ StringAt(p, n3) = [v |-> s.docs, len |-> b, before |-> n3 - 4,
                                left |-> n3 - 4 - b, next |-> p + 2]
      BY <1>1, <2>9, <3>1, <3>2, StringRead DEF b
    <3>4. QED
      BY <3>1, <3>2, <3>3 DEF p
  <2>11. /\ cells[pos].type = "byte" /\ cells[pos].v = TRUE /\ pos <= Len(cells)
    BY <1>3, <2>2 DEF Cell
  <2> DEFINE name == StringAt(pos + 1, FlagRead(left))
             owner == StringAt(name.next, name.left)
             body == StringAt(owner.next, owner.left)
  <2>12. name.v = s.name /\ name.len = a /\ name.before = n1 - 4 /\ name.left = n2 /\ name.next = pos + 3
    BY <2>6, <2>8
  <2>13. owner.v = s.owner /\ owner.len = c /\ owner.before = n2 - 4 /\ owner.left = n3 /\ owner.next = pos + 5
    BY <2>12, <2>9
  <2>14. body.v = s.docs /\ body.len = b /\ body.before = n3 - 4 /\ body.left = rest /\ body.next = pos + 7
    BY <2>10, <2>13
  <2> HIDE DEF name, owner, body
  <2>15. /\ NameFits(name.len, name.before) /\ NameFits(owner.len, owner.before)
         /\ TextFits(body.len, body.before)
    BY <2>7, <2>10, <2>12, <2>13, <2>14 DEF NameFits, TextFits
  <2>16. Decoded = [record |-> [name |-> name.v, owner |-> owner.v, docs |-> body.v],
                    next |-> body.next, left |-> body.left, ok |-> TRUE]
    BY <2>8, <2>10, <2>11, <2>12, <2>13, <2>15, <2>9 DEF Decoded, name, owner, body
  <2>17. QED
    BY <1>1, <2>1, <2>12, <2>13, <2>16, <2>14
<1>6. QED
  BY <1>4, <1>5

-----------------------------------------------------------------------------
(***************************************************************************)
(* Encoding and decoding.                                                  *)
(***************************************************************************)
Kinds == {"classes", "methods"}

(* The blob of kind k is complete.                                            *)
Complete(k) == Written(data[k], source[k], Len(source[k]))

(* Before the section pos, the sections before it have been encoded.          *)
Encoded ==
    /\ pos <= Len(source[kind]) + 1
    /\ pos > 0 => Written(data[kind], source[kind], pos - 1)
    /\ kind = "methods" => Complete("classes")

(* The decoder stands at the beginning of the section after those it has read.*)
DecodedTo(st) ==
    LET n == Len(records)
    IN  /\ LaidOut(data[kind], source[kind], Len(source[kind]), st)
        /\ n <= Len(source[kind]) /\ records \in Seq(Sectionlike)
        /\ \A j \in 1 .. n : records[j] = source[kind][j]
        /\ pos = st[n + 1]
        /\ left = SumFrom(SectionSizes(source[kind]), n + 1) /\ left < Word

CodecInv ==
    /\ phase \in {"encode", "decode", "assign", "done"} /\ kind \in Kinds /\ pos \in Nat
    /\ \A k \in Kinds : source[k] \in Files[k]
    /\ DOMAIN data = Kinds
    /\ phase = "encode" => Encoded
    /\ phase # "encode" => \A k \in Kinds : Complete(k)
    /\ phase = "decode" /\ pos > 0 => \E st : DecodedTo(st)
    /\ phase \in {"assign", "done"} => records = source[kind]
    /\ ~failed

LEMMA SourceTypes ==
    ASSUME \A k \in Kinds : source[k] \in Files[k]
    PROVE  \A k \in Kinds : source[k] \in Seq(Sectionlike) /\ Len(source[k]) \in Nat
<1>1. \A k \in Kinds : source[k] \in Seq(Sectionlike)
  BY SectionTypes DEF Kinds
<1>2. \A q \in Seq(Sectionlike) : Len(q) \in Nat
  OBVIOUS
<1>3. QED
  BY <1>1, <1>2

LEMMA InitCodec == Init => CodecInv
<1> SUFFICES ASSUME Init PROVE CodecInv
  OBVIOUS
<1>1. \A k \in Kinds : source[k] \in Files[k]
  BY DEF Init, Kinds
<1>2. Len(source["classes"]) \in Nat
  BY <1>1, SourceTypes DEF Kinds
<1>3. Encoded
  BY <1>2 DEF Init, Encoded
<1>4. QED
  BY <1>1, <1>3 DEF Init, CodecInv, Kinds

LEMMA EncodeCodec ==
    ASSUME CodecInv, Encode
    PROVE  CodecInv'
<1> USE DEF CodecInv, Encode
<1>1. /\ phase = "encode" /\ kind \in Kinds /\ pos \in Nat /\ Encoded
      /\ source[kind] \in Seq(Sectionlike) /\ Len(source[kind]) \in Nat
  BY SourceTypes
<1> DEFINE n == Len(source[kind])
<1>2. CASE pos <= n
  <2>1. Written(data'[kind], source[kind], pos)
    <3>1. CASE pos = 0
      BY <1>1, <1>2, <3>1, HeaderWritten
    <3>2. CASE pos > 0
      <4> DEFINE m == pos - 1
      <4>1. m \in Nat /\ m < n /\ m + 1 = pos
        BY <1>1, <1>2, <3>2
      <4>2. Written(data[kind], source[kind], m)
        BY <1>1, <3>2 DEF Encoded
      <4> HIDE DEF m
      <4>3. Written(data[kind] \o Record(source[kind][m + 1]), source[kind], m + 1)
        BY <1>1, <4>1, <4>2, RecordWritten
      <4>4. data'[kind] = data[kind] \o Record(source[kind][m + 1])
        BY <1>1, <1>2, <3>2, <4>1
      <4>5. QED
        BY <4>1, <4>3, <4>4
    <3>3. QED
      BY <1>1, <3>1, <3>2
  <2>2. kind = "methods" => Complete("classes")'
    BY <1>1, <1>2 DEF Encoded, Complete, Kinds
  <2>3. pos + 1 \in Nat /\ pos + 1 <= n + 1 /\ pos + 1 > 0 /\ pos + 1 - 1 = pos
    BY <1>1, <1>2
  <2>4. pos' = pos + 1 /\ kind' = kind /\ phase' = phase /\ source' = source
    BY <1>1, <1>2
  <2>5. Encoded'
    BY <2>1, <2>2, <2>3, <2>4 DEF Encoded
  <2>6. QED
    BY <1>1, <1>2, <2>3, <2>4, <2>5
<1>3. CASE ~(pos <= n)
  <2>1. pos = n + 1 /\ pos - 1 = n /\ pos > 0
    BY <1>1, <1>3 DEF Encoded
  <2>2. Complete(kind)
    BY <1>1, <2>1 DEF Encoded, Complete
  <2>3. pos' = 0 /\ source' = source /\ data' = data /\ failed' = failed
    BY <1>1, <1>3
  <2>4. CASE kind = "classes"
    <3>1. kind' = "methods" /\ phase' = "encode"
      BY <1>1, <1>3, <2>4
    <3>2. Encoded'
      <4>1. Len(source["methods"]) \in Nat
        BY SourceTypes DEF Kinds
      <4>2. Complete("classes")'
        BY <2>2, <2>3, <2>4 DEF Complete
      <4>3. QED
        BY <2>3, <3>1, <4>1, <4>2 DEF Encoded
    <3>3. QED
      BY <2>3, <3>1, <3>2 DEF Kinds
  <2>5. CASE kind # "classes"
    <3>1. kind = "methods" /\ kind' = "classes" /\ phase' = "decode"
      BY <1>1, <1>3, <2>5 DEF Kinds
    <3>2. \A k \in Kinds : Complete(k)'
      BY <1>1, <2>2, <2>3, <3>1 DEF Complete, Encoded, Kinds
    <3>3. QED
      BY <2>3, <3>1, <3>2 DEF Kinds
  <2>6. QED
    BY <2>4, <2>5
<1>4. QED
  BY <1>2, <1>3

(* A step that leaves the files and the blobs alone, once they are complete.  *)
LEMMA CompleteKept ==
    ASSUME CodecInv, phase # "encode", UNCHANGED <<source, data>>
    PROVE  /\ \A k \in Kinds : Complete(k)'
           /\ \A k \in Kinds : source'[k] \in Files[k]
           /\ DOMAIN data' = Kinds
BY DEF CodecInv, Complete

LEMMA OpenCodec ==
    ASSUME CodecInv, Open
    PROVE  CodecInv'
<1> DEFINE sections == source[kind]
           cells == data[kind]
           n == Len(sections)
           sum == SumFrom(SectionSizes(sections), 1)
<1>1. /\ phase = "decode" /\ kind \in Kinds /\ Complete(kind) /\ sections \in Files[kind]
      /\ sections \in Seq(Sectionlike) /\ n \in Nat
  BY SourceTypes DEF CodecInv, Open
<1>2. /\ cells \in Seq(CellSet) /\ cells[1].v = "0x55" /\ cells[2].v = "0xAA"
  BY <1>1 DEF Complete, Written, Cell
<1>3. PICK st : LaidOut(cells, sections, n, st)
  BY <1>1 DEF Complete, Written
<1>4. SizeFrom(cells, 1) = 4 + SizeFrom(cells, 4)
  BY <1>1, SizeOfBlob DEF Complete
<1>5. SizeFrom(cells, 4) = sum
  <2>1. st[1] = 4 /\ 1 \in 1 .. n + 1
    BY <1>1, <1>3 DEF LaidOut
  <2>2. QED
    BY <1>1, <1>2, <1>3, <2>1, SizeOfRest
<1>6. sum \in Nat /\ 4 + sum < Word
  <2>1. 1 \in 1 .. n + 1
    BY <1>1
  <2>2. sum \in Nat
    BY <1>1, <2>1, SectionSizeType, SumUnfolds
  <2>3. QED
    BY <1>1, <2>2, WordAssumption DEF Kinds
<1> HIDE DEF sum
<1>7. Minus(Minus(4 + sum, 2), 2) = sum
  <2>1. Minus(4 + sum, 2) = sum + 2
    <3> DEFINE m == 4 + sum
    <3>1. m \in Nat /\ m < Word /\ 2 <= m /\ m - 2 = sum + 2
      BY <1>6
    <3> HIDE DEF m
    <3>2. QED
      BY <3>1, MinusExact DEF m
  <2> DEFINE m == sum + 2
  <2>2. m \in Nat /\ m < Word /\ 2 <= m /\ m - 2 = sum
    BY <1>6, WordAssumption
  <2> HIDE DEF m
  <2>3. Minus(m, 2) = sum
    BY <2>2, MinusExact
  <2>4. QED
    BY <2>1, <2>3 DEF m
<1>8. /\ pos' = 4 /\ left' = sum /\ records' = << >> /\ ~failed'
      /\ UNCHANGED <<phase, kind, source, data>>
  BY <1>2, <1>4, <1>5, <1>7 DEF Open, CodecInv
<1>9. DecodedTo(st)'
  <2>1. Len(<< >>) = 0 /\ << >> \in Seq(Sectionlike) /\ 0 + 1 = 1
    OBVIOUS
  <2>2. st[1] = 4
    BY <1>3 DEF LaidOut
  <2>3. sum < Word
    BY <1>6, WordAssumption
  <2>4. QED
    BY <1>1, <1>3, <1>8, <2>1, <2>2, <2>3 DEF DecodedTo, sum
<1>10. QED
  <2>1. 4 \in Nat
    OBVIOUS
  <2>2. QED
    BY <1>1, <1>8, <1>9, <2>1, CompleteKept DEF CodecInv

(* While there are bytes left there is a section left, and the decoder reads  *)
(* it.                                                                        *)
LEMMA DecodeCodec ==
    ASSUME CodecInv, Decode
    PROVE  CodecInv'
<1> DEFINE sections == source[kind]
           cells == data[kind]
           n == Len(sections)
           m == Len(records)
           s == sections[m + 1]
           rest == SumFrom(SectionSizes(sections), m + 2)
<1>1. /\ phase = "decode" /\ kind \in Kinds /\ Complete(kind) /\ pos \in Nat /\ pos > 0
      /\ sections \in Seq(Sectionlike) /\ n \in Nat /\ left # 0
  BY SourceTypes DEF CodecInv, Decode
<1>2. cells \in Seq(CellSet) /\ Len(cells) \in Nat
  BY <1>1 DEF Complete, Written
<1>3. PICK st : DecodedTo(st)
  BY <1>1 DEF CodecInv
<1>4. /\ LaidOut(cells, sections, n, st) /\ records \in Seq(Sectionlike) /\ m \in Nat /\ m <= n
      /\ \A j \in 1 .. m : records[j] = sections[j]
      /\ pos = st[m + 1] /\ left = SumFrom(SectionSizes(sections), m + 1) /\ left < Word
  BY <1>3 DEF DecodedTo
<1>5. /\ SectionSizes(sections) \in Seq(Nat) /\ Len(SectionSizes(sections)) = n
      /\ \A j \in 1 .. n : SectionSizes(sections)[j] = SectionSize(sections[j])
  BY <1>1, SectionSizeType
<1>6. m < n
  <2>1. SumFrom(SectionSizes(sections), n + 1) = 0
    BY <1>5, SumUnfolds
  <2>2. m # n
    BY <1>1, <1>4, <2>1
  <2>3. QED
    BY <1>1, <1>4, <2>2
<1>7. /\ m + 1 \in 1 .. n /\ m + 1 + 1 = m + 2 /\ m + 2 \in 1 .. n + 1
      /\ m + 1 \in 1 .. n + 1
  BY <1>1, <1>4, <1>6
<1>8. s \in Sectionlike
  BY <1>1, <1>7
<1>9. left = SectionSize(s) + rest /\ rest \in Nat /\ SectionSize(s) \in Nat
  <2>1. SumFrom(SectionSizes(sections), m + 2) \in Nat
    BY <1>5, <1>7, SumUnfolds
  <2>2. SumFrom(SectionSizes(sections), m + 1)
           = SectionSizes(sections)[m + 1] + SumFrom(SectionSizes(sections), m + 2)
    BY <1>5, <1>7, SumUnfolds
  <2>3. SectionSizes(sections)[m + 1] = SectionSize(s) /\ SectionSize(s) \in Nat
    BY <1>1, <1>7, SectionSizeType
  <2>4. QED
    BY <1>4, <2>1, <2>2, <2>3
<1>10. st[m + 2] = pos + Width(s) /\ SectionAt(cells, pos, s)
  <2>1. /\ st[m + 1 + 1] = st[m + 1] + Width(s)
        /\ \A i \in 1 .. Width(s) : cells[st[m + 1] + i - 1] = Record(s)[i]
    BY <1>4, <1>7 DEF LaidOut
  <2>2. st[m + 2] <= Len(cells) + 1
    BY <1>4, <1>7 DEF LaidOut
  <2>3. QED
    BY <1>1, <1>2, <1>4, <1>7, <2>1, <2>2 DEF SectionAt
<1> HIDE DEF rest, s
<1>11. Decoded = [record |-> s, next |-> pos + Width(s), left |-> rest, ok |-> TRUE]
  BY <1>4, <1>8, <1>9, <1>10, SectionRead
<1>12. /\ records' = Append(records, s) /\ pos' = st[m + 2] /\ left' = rest
       /\ ~failed' /\ UNCHANGED <<phase, kind, source, data, docs>>
  BY <1>10, <1>11 DEF Decode
<1>13. /\ Append(records, s) \in Seq(Sectionlike) /\ Len(Append(records, s)) = m + 1
       /\ \A j \in 1 .. m : Append(records, s)[j] = records[j]
       /\ Append(records, s)[m + 1] = s
  BY <1>4, <1>8
<1>14. DecodedTo(st)'
  <2>1. \A j \in 1 .. m + 1 : Append(records, s)[j] = sections[j]
    <3>1. ASSUME NEW j \in 1 .. m + 1 PROVE j \in 1 .. m \/ j = m + 1
      BY <1>4
    <3>2. QED
      BY <1>4, <1>13, <3>1 DEF s
  <2>2. rest < Word
    BY <1>4, <1>9, WordAssumption
  <2>3. m + 1 <= n
    BY <1>7
  <2> DEFINE more == Append(records, s)
  <2>4. /\ more \in Seq(Sectionlike) /\ Len(more) = m + 1
        /\ \A j \in 1 .. Len(more) : more[j] = sections[j]
    BY <1>13, <2>1
  <2> HIDE DEF more
  <2>5. records' = more
    BY <1>12 DEF more
  <2>6. rest = SumFrom(SectionSizes(sections), Len(more) + 1) /\ st[m + 2] = st[Len(more) + 1]
    BY <1>7, <2>4 DEF rest
  <2> HIDE DEF m
  <2>7. QED
    BY <1>4, <1>12, <2>2, <2>3, <2>4, <2>5, <2>6 DEF DecodedTo
<1>15. pos' \in Nat
  BY <1>1, <1>10, <1>12 DEF Width
<1>16. QED
  BY <1>1, <1>12, <1>14, <1>15, CompleteKept DEF CodecInv

(* When no byte is left the decoder has read every section.                   *)
LEMMA CloseCodec ==
    ASSUME CodecInv, Close
    PROVE  CodecInv'
<1> DEFINE sections == source[kind]
           n == Len(sections)
           m == Len(records)
<1>1. /\ phase = "decode" /\ kind \in Kinds /\ pos > 0 /\ left = 0
      /\ sections \in Seq(Sectionlike) /\ n \in Nat
  BY SourceTypes DEF CodecInv, Close
<1>2. PICK st : DecodedTo(st)
  BY <1>1 DEF CodecInv
<1>3. /\ records \in Seq(Sectionlike) /\ m \in Nat /\ m <= n
      /\ \A j \in 1 .. m : records[j] = sections[j]
      /\ left = SumFrom(SectionSizes(sections), m + 1)
  BY <1>2 DEF DecodedTo
<1>4. m = n
  <2>1. SUFFICES ASSUME m < n PROVE FALSE
    BY <1>1, <1>3
  <2>2. m + 1 \in 1 .. n /\ m + 1 + 1 \in 1 .. n + 1
    BY <1>1, <1>3, <2>1
  <2>3. /\ SumFrom(SectionSizes(sections), m + 1)
             = SectionSizes(sections)[m + 1] + SumFrom(SectionSizes(sections), m + 1 + 1)
        /\ SumFrom(SectionSizes(sections), m + 1 + 1) \in Nat
    BY <1>1, <2>2, SectionSizeType, SumUnfolds
  <2>4. SectionSizes(sections)[m + 1] \in Nat /\ SectionSizes(sections)[m + 1] > 0
    BY <1>1, <2>2, SectionSizeType
  <2>5. QED
    BY <1>1, <1>3, <2>3, <2>4
<1>5. records = sections
  <2> HIDE DEF sections
  <2>1. QED
    BY <1>1, <1>3, <1>4
<1>6. /\ phase' = "assign" /\ pos' = 1 /\ ~failed'
      /\ UNCHANGED <<kind, source, data, left, records, docs>>
  BY DEF Close
<1>7. QED
  BY <1>1, <1>5, <1>6, CompleteKept DEF CodecInv

-----------------------------------------------------------------------------
(***************************************************************************)
(* The walks along super types.                                            *)
(***************************************************************************)
Ranks == Class \union {None}

(* The super types form no cycle.                                             *)
Ranked(n, rank) ==
    /\ n \in Nat /\ rank \in [Ranks -> 0 .. n]
    /\ \A c \in Class : Super[c] \in Ranks /\ rank[Super[c]] < rank[c]

LEMMA SuperRanked == \E n, rank : Ranked(n, rank)
<1> DEFINE size == Cardinality(Class)
<1>1. size \in Nat
  BY SuperAssumption, FS_CardinalityType
<1>2. PICK depth \in [Class -> 0 .. size] :
         \A c \in Class : Super[c] # None => depth[Super[c]] < depth[c]
  BY SuperAssumption
<1> HIDE DEF size
<1> DEFINE rank == [t \in Ranks |-> IF t = None THEN 0 ELSE depth[t] + 1]
<1>3. \A c \in Class : /\ c # None /\ depth[c] \in 0 .. size /\ Super[c] \in Ranks
                       /\ c \in Ranks /\ rank[c] = depth[c] + 1
  BY SuperAssumption DEF Ranks
<1>4. rank[None] = 0 /\ None \in Ranks
  BY DEF Ranks
<1>5. rank \in [Ranks -> 0 .. size + 1]
  <2>1. ASSUME NEW t \in Ranks PROVE (IF t = None THEN 0 ELSE depth[t] + 1) \in 0 .. size + 1
    <3>1. CASE t = None
      BY <1>1, <3>1
    <3>2. CASE t # None
      <4>1. depth[t] \in 0 .. size
        BY <1>3, <3>2 DEF Ranks
      <4>2. QED
        BY <1>1, <3>2, <4>1
    <3>3. QED
      BY <3>1, <3>2
  <2>2. QED
    BY <2>1
<1> HIDE DEF rank
<1>6. ASSUME NEW c \in Class PROVE rank[Super[c]] < rank[c]
  <2>1. CASE Super[c] = None
    BY <1>1, <1>3, <1>4, <2>1
  <2>2. CASE Super[c] # None
    <3>1. Super[c] \in Class
      BY <1>3, <2>2 DEF Ranks
    <3>2. /\ depth[Super[c]] < depth[c] /\ rank[Super[c]] = depth[Super[c]] + 1
          /\ rank[c] = depth[c] + 1 /\ depth[c] \in 0 .. size /\ depth[Super[c]] \in 0 .. size
      BY <1>2, <1>3, <2>2, <3>1
    <3>3. QED
      BY <1>1, <3>2
  <2>3. QED
    BY <2>1, <2>2
<1>7. Ranked(size + 1, rank)
  BY <1>1, <1>3, <1>5, <1>6 DEF Ranked
<1>8. QED
  BY <1>7

(* A method is looked for in the type itself first.                           *)
LEMMA OwnMethodFound ==
    ASSUME NEW c \in Class, NEW name \in Methods[c]
    PROVE  find_method_safe(c, name) = c
<1> DEFINE Equation(f) ==
             f = [t \in Ranks |->
                    IF t = None THEN None ELSE IF name \in Methods[t] THEN t ELSE f[Super[t]]]
           Find == CHOOSE f : Equation(f)
<1>1. \E f : Equation(f)
  <2>1. PICK n, rank : Ranked(n, rank)
    BY SuperRanked
  <2> DEFINE Stop == {t \in Ranks : t = None \/ name \in Methods[t]}
             base == [t \in Ranks |-> t]
             next == [t \in Ranks |-> IF t = None THEN None ELSE Super[t]]
             g == [tv \in Ranks \X Ranks |-> tv[2]]
  <2>2. Stop \in SUBSET Ranks /\ base \in [Ranks -> Ranks] /\ g \in [Ranks \X Ranks -> Ranks]
    OBVIOUS
  <2>3. next \in [Ranks -> Ranks]
    BY <2>1 DEF Ranked, Ranks
  <2>4. \A t \in Ranks \ Stop : next[t] = Super[t] /\ t \in Class
    BY DEF Ranks
  <2>5. \A t \in Ranks, v \in Ranks : g[<<t, v>>] = v
    OBVIOUS
  <2>6. \A t \in Ranks : base[t] = t /\ (t \in Stop <=> t = None \/ name \in Methods[t])
    OBVIOUS
  <2> HIDE DEF Stop, base, next, g
  <2>7. Descends(Ranks, Stop, next, n, rank)
    BY <2>1, <2>2, <2>3, <2>4 DEF Descends, Ranked
  <2>8. PICK f \in [Ranks -> Ranks] : Solves(f, Ranks, Stop, base, next, g)
    BY <2>2, <2>7, RecursionDown
  <2>9. \A t \in Ranks : f[t] = IF t = None THEN None
                                ELSE IF name \in Methods[t] THEN t ELSE f[Super[t]]
    <3>1. \A t \in Ranks : f[t] = IF t \in Stop THEN base[t] ELSE g[<<t, f[next[t]]>>]
      BY <2>8 DEF Solves
    <3>2. ASSUME NEW t \in Ranks, t \notin Stop PROVE f[t] = f[Super[t]]
      <4>1. next[t] = Super[t] /\ Super[t] \in Ranks
        BY <2>1, <2>4, <3>2 DEF Ranked
      <4>2. f[t] = g[<<t, f[Super[t]]>>]
        BY <3>1, <3>2, <4>1
      <4>3. f[Super[t]] \in Ranks
        BY <2>8, <4>1
      <4>4. QED
        BY <2>5, <4>2, <4>3
    <3>3. QED
      BY <2>6, <3>1, <3>2
  <2>10. f = [t \in Ranks |-> f[t]]
    BY <2>8
  <2>11. QED
    BY <2>9, <2>10
<1>2. Equation(Find)
  <2> HIDE DEF Equation
  <2>1. QED
    BY <1>1
<1>3. find_method_safe(c, name) = Find[c]
  BY DEF find_method_safe, Ranks
<1> HIDE DEF Find
<1>4. c # None /\ c \in Ranks
  BY SuperAssumption DEF Ranks
<1>5. QED
  BY <1>2, <1>3, <1>4

(* The classes from c on, each followed by its super class.                   *)
Chain(e, c) ==
    /\ e \in Seq(Class)
    /\ Len(e) > 0 => e[1] = c
    /\ \A i \in 2 .. Len(e) : e[i] = Super[e[i - 1]]

LEMMA EmptyChain == \A c : Chain(<< >>, c)
<1>1. Len(<< >>) = 0 /\ << >> \in Seq(Class)
  OBVIOUS
<1>2. \A i \in 2 .. 0 : FALSE
  OBVIOUS
<1>3. QED
  BY <1>1, <1>2 DEF Chain

LEMMA LongerChain ==
    ASSUME NEW c \in Class, NEW d, d = Super[c], NEW y, Chain(y, d)
    PROVE  Chain(<<c>> \o y, c)
<1> DEFINE x == <<c>>
           e == x \o y
<1>1. x \in Seq(Class) /\ Len(x) = 1 /\ x[1] = c
  OBVIOUS
<1>2. y \in Seq(Class) /\ Len(y) \in Nat
  BY DEF Chain
<1> HIDE DEF x
<1>3. /\ e \in Seq(Class) /\ Len(e) = Len(x) + Len(y)
      /\ \A i \in 1 .. Len(x) : e[i] = x[i]
      /\ \A i \in 1 .. Len(y) : e[Len(x) + i] = y[i]
  BY <1>1, <1>2, Concatenation, SMTT(30)
<1> HIDE DEF e
<1>4. /\ Len(e) = 1 + Len(y) /\ e[1] = c
      /\ \A i \in 1 .. Len(y) : e[1 + i] = y[i]
  BY <1>1, <1>3
<1>5. ASSUME NEW i \in 2 .. Len(e) PROVE e[i] = Super[e[i - 1]]
  <2> DEFINE j == i - 1
  <2>1. j \in 1 .. Len(y) /\ i = 1 + j
    BY <1>2, <1>4
  <2> HIDE DEF j
  <2>2. e[i] = y[j]
    BY <1>4, <2>1
  <2>3. CASE j = 1
    <3>1. y[1] = d
      BY <1>2, <2>1 DEF Chain
    <3>2. i - 1 = 1
      BY <2>1, <2>3
    <3>3. QED
      BY <1>4, <2>2, <2>3, <3>1, <3>2
  <2>4. CASE j # 1
    <3>1. j \in 2 .. Len(y) /\ j - 1 \in 1 .. Len(y) /\ i - 1 = 1 + (j - 1)
      BY <1>2, <2>1, <2>4
    <3>2. y[j] = Super[y[j - 1]]
      BY <3>1 DEF Chain
    <3>3. e[i - 1] = y[j - 1]
      BY <1>4, <3>1
    <3>4. QED
      BY <2>2, <3>2, <3>3
  <2>5. QED
    BY <2>3, <2>4
<1>6. QED
  BY <1>3, <1>4, <1>5 DEF Chain, e, x

(* When the classes are decoded, a key of hierarchy has its super class.      *)
LEMMA HierarchyIsSuper ==
    ASSUME records \in Seq(ClassSection), NEW c \in DOMAIN hierarchy
    PROVE  c \in Class /\ hierarchy[c] = Super[c] /\ Super[c] \in Class
<1>1. PICK j \in DOMAIN records : records[j].name = c /\ records[j].owner # None
  BY DEF hierarchy
<1>2. \A i \in DOMAIN records : /\ records[i].name \in Class
                                /\ records[i].owner \in Class \union {None}
                                /\ records[i].owner = Super[records[i].name]
  BY DEF ClassSection
<1> DEFINE k == CHOOSE i \in DOMAIN records : records[i].name = c
<1>3. k \in DOMAIN records /\ records[k].name = c
  BY <1>1
<1>4. hierarchy[c] = records[k].owner
  BY <1>1 DEF hierarchy
<1> HIDE DEF k
<1>5. QED
  BY <1>1, <1>2, <1>3, <1>4

LEMMA ExtendsChain ==
    ASSUME records \in Seq(ClassSection), NEW p \in Ranks
    PROVE  Chain(Extends(p), p)
<1> DEFINE H == DOMAIN hierarchy
           Equation(f) ==
             f = [t \in Ranks |-> IF t \in H THEN <<t>> \o f[hierarchy[t]] ELSE << >>]
           Up == CHOOSE f : Equation(f)
<1>1. PICK n, rank : Ranked(n, rank)
  BY SuperRanked
<1>2. \A t \in H : t \in Class /\ t \in Ranks /\ hierarchy[t] = Super[t] /\ Super[t] \in Ranks
  BY HierarchyIsSuper DEF Ranks
<1>3. Extends(p) = Up[p]
  BY DEF Extends, Ranks
<1> HIDE DEF H
<1>4. \E f : Equation(f)
  <2> DEFINE Stop == Ranks \ H
             base == [t \in Ranks |-> << >>]
             next == [t \in Ranks |-> IF t \in H THEN hierarchy[t] ELSE t]
             x(t) == IF t \in H THEN <<t>> ELSE << >>
             g == [tv \in Ranks \X Seq(Class) |-> x(tv[1]) \o tv[2]]
  <2>1. Stop \in SUBSET Ranks /\ base \in [Ranks -> Seq(Class)]
    OBVIOUS
  <2>2. next \in [Ranks -> Ranks]
    BY <1>2
  <2>3. g \in [Ranks \X Seq(Class) -> Seq(Class)]
    <3>1. \A t \in Ranks : x(t) \in Seq(Class)
      BY <1>2
    <3> HIDE DEF x
    <3>2. \A t \in Ranks, v \in Seq(Class) : x(t) \o v \in Seq(Class)
      BY <3>1
    <3>3. QED
      BY <3>2
  <2>4. \A t \in Ranks \ Stop : next[t] = hierarchy[t] /\ t \in H
    OBVIOUS
  <2>5. \A t \in Ranks, v \in Seq(Class) : t \in H => g[<<t, v>>] = <<t>> \o v
    OBVIOUS
  <2>6. \A t \in Ranks : base[t] = << >> /\ (t \in Stop <=> t \notin H)
    OBVIOUS
  <2> HIDE DEF Stop, base, next, g
  <2>7. Descends(Ranks, Stop, next, n, rank)
    BY <1>1, <1>2, <2>1, <2>2, <2>4 DEF Descends, Ranked
  <2>8. PICK f \in [Ranks -> Seq(Class)] : Solves(f, Ranks, Stop, base, next, g)
    BY <2>1, <2>3, <2>7, RecursionDown
  <2>9. \A t \in Ranks : f[t] = IF t \in H THEN <<t>> \o f[hierarchy[t]] ELSE << >>
    <3>1. \A t \in Ranks : f[t] = IF t \in Stop THEN base[t] ELSE g[<<t, f[next[t]]>>]
      BY <2>8 DEF Solves
    <3>2. ASSUME NEW t \in Ranks, t \in H PROVE f[t] = <<t>> \o f[hierarchy[t]]
      <4>1. next[t] = hierarchy[t] /\ hierarchy[t] \in Ranks /\ t \notin Stop
        BY <1>2, <2>4, <2>6, <3>2
      <4>2. f[t] = g[<<t, f[hierarchy[t]]>>]
        BY <3>1, <4>1
      <4>3. f[hierarchy[t]] \in Seq(Class)
        BY <2>8, <4>1
      <4>4. QED
        BY <2>5, <3>2, <4>2, <4>3
    <3>3. ASSUME NEW t \in Ranks, t \notin H PROVE f[t] = << >>
      BY <2>6, <3>1, <3>3
    <3>4. QED
      BY <3>2, <3>3
  <2>10. f = [t \in Ranks |-> f[t]]
    BY <2>8
  <2>11. QED
    BY <2>9, <2>10
<1>5. Equation(Up)
  <2> HIDE DEF Equation
  <2>1. QED
    BY <1>4
<1> HIDE DEF Up
<1>6. \A t \in Ranks : Up[t] = IF t \in H THEN <<t>> \o Up[hierarchy[t]] ELSE << >>
  BY <1>5
<1> DEFINE S == {t \in Ranks : Chain(Up[t], t)}
<1>7. ASSUME NEW t \in Ranks, \A u \in Ranks : rank[u] < rank[t] => u \in S
      PROVE  t \in S
  <2>1. CASE t \in H
    <3>1. t \in Class /\ hierarchy[t] = Super[t] /\ Super[t] \in Ranks /\ rank[Super[t]] < rank[t]
      BY <1>1, <1>2, <2>1 DEF Ranked
    <3>2. Chain(Up[Super[t]], Super[t])
      BY <1>7, <3>1
    <3>3. Up[t] = <<t>> \o Up[Super[t]]
      BY <1>6, <2>1, <3>1
    <3>4. QED
      BY <3>1, <3>2, <3>3, LongerChain
  <2>2. CASE t \notin H
    BY <1>6, <2>2, EmptyChain
  <2>3. QED
    BY <2>1, <2>2
<1>8. rank \in [Ranks -> Nat]
  BY <1>1 DEF Ranked
<1>9. Ranks \subseteq S
  <2> HIDE DEF S
  <2>1. QED
    BY <1>7, <1>8, InductionByDepth
<1>10. QED
  BY <1>3, <1>9

-----------------------------------------------------------------------------
(***************************************************************************)
(* The texts that are assigned.                                            *)
(***************************************************************************)
(* What a class has in front of its text: its proper ancestors.               *)
Heading(e, c) == \A i \in DOMAIN e : e[i] = Super[IF i = 1 THEN c ELSE e[i - 1]]

(* doc is what the sections at the positions J give, if there are any.        *)
Given(doc, k, J) ==
    \/ doc = Undocumented /\ J = {}
    \/ \E j \in J : doc.text = source[k][j].docs

OfClass(c, n) == {j \in 1 .. n : source["classes"][j].name = c}
OfMethod(c, m, n) ==
    {j \in 1 .. n : source["methods"][j].owner = c /\ source["methods"][j].name = m}

(* The first n sections of a file have been assigned, and no other.           *)
ClassesGiven(n) ==
    \A c \in Class :
        Given(docs[<<c, None>>], "classes", OfClass(c, n)) /\ Heading(docs[<<c, None>>].extends, c)
MethodsGiven(n) ==
    \A c \in Class : \A m \in Methods[c] :
        Given(docs[<<c, m>>], "methods", OfMethod(c, m, n))

Restoring ==
    /\ DOMAIN docs = Documented
    /\ phase = "assign" => pos > 0 /\ pos <= Len(source[kind]) + 1
    /\ phase \in {"encode", "decode"} => MethodsGiven(0)
    /\ phase \in {"decode", "assign"} /\ kind = "methods" => ClassesGiven(Len(source["classes"]))
    /\ phase = "encode" \/ (phase = "decode" /\ kind = "classes") => ClassesGiven(0)
    /\ phase = "assign" /\ kind = "classes" => ClassesGiven(pos - 1) /\ MethodsGiven(0)
    /\ phase = "assign" /\ kind = "methods" => MethodsGiven(pos - 1)
    /\ phase = "done" => /\ ClassesGiven(Len(source["classes"]))
                         /\ MethodsGiven(Len(source["methods"]))

DocInv == CodecInv /\ Restoring

LEMMA HeadingOfNone == \A c : Heading(Undocumented.extends, c)
BY DEF Heading, Undocumented

LEMMA DocumentedPairs ==
    /\ \A c \in Class : <<c, None>> \in Documented
    /\ \A c \in Class : \A m \in Methods[c] : <<c, m>> \in Documented /\ m # None
<1>1. \A c \in Class : \A m \in Methods[c] : m \in UNION {Methods[b] : b \in Class} /\ m # None
  BY FilesAssumption
<1>2. QED
  BY <1>1 DEF Documented

LEMMA InitRestoring == Init => Restoring
<1> SUFFICES ASSUME Init PROVE Restoring
  OBVIOUS
<1>1. \A d \in Documented : docs[d] = Undocumented
  BY DEF Init
<1>2. \A c, m : OfClass(c, 0) = {} /\ OfMethod(c, m, 0) = {}
  BY DEF OfClass, OfMethod
<1>3. ClassesGiven(0)
  BY <1>1, <1>2, HeadingOfNone, DocumentedPairs DEF ClassesGiven, Given
<1>4. MethodsGiven(0)
  BY <1>1, <1>2, DocumentedPairs DEF MethodsGiven, Given
<1>5. QED
  BY <1>3, <1>4 DEF Init, Restoring

LEMMA GivenKept ==
    ASSUME UNCHANGED <<docs, source>>, NEW n
    PROVE  ClassesGiven(n)' = ClassesGiven(n) /\ MethodsGiven(n)' = MethodsGiven(n)
BY DEF ClassesGiven, MethodsGiven, Given, OfClass, OfMethod

(* Up to the assignment nothing is assigned.                                  *)
LEMMA CodecRestoring ==
    ASSUME DocInv, Encode \/ Open \/ Decode \/ Close
    PROVE  Restoring'
<1>1. UNCHANGED <<docs, source>>
  BY DEF Encode, Open, Decode, Close
<1>2. \A n : ClassesGiven(n)' = ClassesGiven(n) /\ MethodsGiven(n)' = MethodsGiven(n)
  BY <1>1, GivenKept
<1>3. Len(source[kind]) \in Nat
  BY SourceTypes DEF DocInv, CodecInv
<1>4. CASE Encode
  <2>1. phase = "encode" /\ (phase' = "encode" \/ (phase' = "decode" /\ kind' = "classes"))
    BY <1>4 DEF Encode
  <2>2. ClassesGiven(0) /\ MethodsGiven(0) /\ DOMAIN docs = Documented
    BY <2>1 DEF DocInv, Restoring
  <2>3. QED
    BY <1>1, <1>2, <2>1, <2>2 DEF Restoring
<1>5. CASE Open \/ Decode
  <2>1. phase' = phase /\ kind' = kind /\ phase = "decode"
    BY <1>5 DEF Open, Decode
  <2>2. QED
    BY <1>1, <1>2, <2>1 DEF DocInv, Restoring
<1>6. CASE Close
  <2>1. phase' = "assign" /\ kind' = kind /\ phase = "decode" /\ pos' = 1 /\ kind \in Kinds
    BY <1>6 DEF Close, DocInv, CodecInv
  <2>2. 1 - 1 = 0 /\ 1 > 0 /\ 1 <= Len(source[kind]) + 1
    BY <1>3
  <2>3. QED
    BY <1>1, <1>2, <2>1, <2>2 DEF DocInv, Restoring, Kinds
<1>7. QED
  BY <1>4, <1>5, <1>6

LEMMA AssignClassStep ==
    ASSUME DocInv, phase = "assign", kind = "classes", pos <= Len(records),
           AssignClass(records[pos]), pos' = pos + 1,
           UNCHANGED <<phase, kind, source, data, left, records>>
    PROVE  DocInv'
<1> DEFINE r == records[pos]
<1>1. /\ records = source["classes"] /\ records \in Seq(ClassSection)
      /\ pos \in Nat /\ pos > 0 /\ Len(records) \in Nat
  <2>1. records = source["classes"] /\ records \in Seq(ClassSection)
    BY FilesAssumption DEF DocInv, CodecInv, Kinds
  <2>2. pos \in Nat /\ pos > 0
    BY DEF DocInv, CodecInv, Restoring
  <2>3. QED
    BY <2>1, <2>2
<1>2. PICK n \in Nat : n = pos - 1
  BY <1>1
<1>3. /\ pos = n + 1 /\ pos' - 1 = n + 1 /\ pos' <= Len(records) + 1 /\ pos' > 0 /\ pos' \in Nat
       /\ n + 1 \in 1 .. n + 1
  BY <1>1, <1>2
<1>4. /\ r \in ClassSection /\ r.name \in Class /\ r.owner \in Ranks
      /\ r.owner = Super[r.name]
  <2>1. r \in ClassSection
    BY <1>1
  <2>2. QED
    BY <2>1 DEF ClassSection, Ranks
<1>5. Chain(Extends(r.owner), r.owner)
  BY <1>1, <1>4, ExtendsChain
<1> DEFINE e == Extends(r.owner)
           doc == [extends |-> e, text |-> r.docs]
           key == <<r.name, None>>
<1>6. Heading(e, r.name)
  <2> HIDE DEF e
  <2>1. Chain(e, Super[r.name])
    BY <1>4, <1>5 DEF e
  <2>2. ASSUME NEW i \in DOMAIN e PROVE e[i] = Super[IF i = 1 THEN r.name ELSE e[i - 1]]
    <3>1. i \in 1 .. Len(e) /\ Len(e) \in Nat
      BY <2>1 DEF Chain
    <3>2. CASE i = 1
      BY <2>1, <3>1, <3>2 DEF Chain
    <3>3. CASE i # 1
      <4>1. i \in 2 .. Len(e)
        BY <3>1, <3>3
      <4>2. QED
        BY <2>1, <3>3, <4>1 DEF Chain
    <3>4. QED
      BY <3>2, <3>3
  <2>3. QED
    BY <2>2 DEF Heading
<1>7. ~failed' /\ docs' = [docs EXCEPT ![key] = doc]
  BY <1>4 DEF AssignClass
<1>8. /\ DOMAIN docs' = Documented /\ docs'[key] = doc
      /\ \A d \in Documented : d # key => docs'[d] = docs[d]
  <2>1. DOMAIN docs = Documented /\ key \in Documented
    BY <1>4, DocumentedPairs DEF DocInv, Restoring
  <2> HIDE DEF key, doc
  <2>2. QED
    BY <1>7, <2>1
<1>9. doc.extends = e /\ doc.text = r.docs
  OBVIOUS
<1> HIDE DEF e, doc
<1>10. ClassesGiven(n + 1)'
  <2>1. ASSUME NEW c \in Class
        PROVE  (/\ Given(docs[<<c, None>>], "classes", OfClass(c, n + 1))
                /\ Heading(docs[<<c, None>>].extends, c))'
    <3>0. /\ source' = source /\ OfClass(c, n + 1)' = OfClass(c, n + 1)
          /\ <<c, None>> \in Documented
      BY DocumentedPairs DEF OfClass
    <3>1. ClassesGiven(n)
      BY <1>2 DEF DocInv, Restoring
    <3>2. CASE c = r.name
      <4>1. n + 1 \in OfClass(c, n + 1)
        BY <1>1, <1>3, <3>2 DEF OfClass
      <4>2. docs'[<<c, None>>].extends = e /\ docs'[<<c, None>>].text = source["classes"][n + 1].docs
        BY <1>1, <1>3, <1>8, <1>9, <3>2
      <4>3. QED
        BY <1>6, <3>0, <3>2, <4>1, <4>2 DEF Given, Heading
    <3>3. CASE c # r.name
      <4>1. docs'[<<c, None>>] = docs[<<c, None>>]
        BY <1>8, <3>3, DocumentedPairs
      <4>2. OfClass(c, n + 1) = OfClass(c, n)
        <5>1. ASSUME NEW j \in 1 .. n + 1 PROVE j \in 1 .. n \/ j = n + 1
          OBVIOUS
        <5>2. 1 .. n \subseteq 1 .. n + 1
          OBVIOUS
        <5>3. source["classes"][n + 1].name # c
          BY <1>1, <1>3, <3>3
        <5>4. QED
          BY <5>1, <5>2, <5>3 DEF OfClass
      <4>3. QED
        <5>1. /\ Given(docs[<<c, None>>], "classes", OfClass(c, n))
              /\ Heading(docs[<<c, None>>].extends, c)
          BY <3>1 DEF ClassesGiven
        <5>2. QED
          BY <3>0, <4>1, <4>2, <5>1 DEF Given, Heading
    <3>4. QED
      BY <3>2, <3>3
  <2>2. QED
    BY <2>1 DEF ClassesGiven
<1>11. MethodsGiven(0)'
  <2>1. MethodsGiven(0)
    BY DEF DocInv, Restoring
  <2>2. ASSUME NEW c \in Class, NEW m \in Methods[c]
        PROVE  Given(docs[<<c, m>>], "methods", OfMethod(c, m, 0))'
    <3>1. Given(docs[<<c, m>>], "methods", OfMethod(c, m, 0))
      BY <2>1 DEF MethodsGiven
    <3>2. docs'[<<c, m>>] = docs[<<c, m>>]
      BY <1>8, DocumentedPairs
    <3>3. source' = source /\ OfMethod(c, m, 0)' = OfMethod(c, m, 0)
      BY DEF OfMethod
    <3>4. QED
      BY <3>1, <3>2, <3>3 DEF Given
  <2>3. QED
    BY <2>2 DEF MethodsGiven
<1>12. Restoring'
  BY <1>1, <1>8, <1>10, <1>11, <1>3 DEF Restoring
<1>13. CodecInv'
  BY <1>1, <1>7, <1>3, CompleteKept DEF DocInv, CodecInv
<1>14. QED
  BY <1>12, <1>13 DEF DocInv

(* A method whose type registers it is found there, and not in a super type.  *)
LEMMA AssignMethodStep ==
    ASSUME DocInv, phase = "assign", kind = "methods", pos <= Len(records),
           AssignMethod(records[pos]), pos' = pos + 1,
           UNCHANGED <<phase, kind, source, data, left, records>>
    PROVE  DocInv'
<1> DEFINE r == records[pos]
<1>1. /\ records = source["methods"] /\ records \in Seq(MethodSection)
      /\ pos \in Nat /\ pos > 0 /\ Len(records) \in Nat
  <2>1. records = source["methods"] /\ records \in Seq(MethodSection)
    BY FilesAssumption DEF DocInv, CodecInv, Kinds
  <2>2. pos \in Nat /\ pos > 0
    BY DEF DocInv, CodecInv, Restoring
  <2>3. QED
    BY <2>1, <2>2
<1>2. PICK n \in Nat : n = pos - 1
  BY <1>1
<1>3. /\ pos = n + 1 /\ pos' - 1 = n + 1 /\ pos' <= Len(records) + 1 /\ pos' > 0 /\ pos' \in Nat
      /\ n + 1 \in 1 .. n + 1
  BY <1>1, <1>2
<1>4. /\ r \in MethodSection /\ r.owner \in Class \union {None}
      /\ r.owner # None => r.owner \in Class /\ r.name \in Methods[r.owner]
  <2>1. r \in MethodSection
    BY <1>1
  <2>2. QED
    BY <2>1 DEF MethodSection
<1> DEFINE doc == [extends |-> << >>, text |-> r.docs]
           key == <<r.owner, r.name>>
<1>5. /\ ~failed'
      /\ r.owner = None => docs' = docs
      /\ r.owner # None => docs' = [docs EXCEPT ![key] = doc]
  <2>1. CASE r.owner = None
    <3>1. r.owner \notin Class
      BY <2>1, SuperAssumption
    <3>2. QED
      BY <2>1, <3>1 DEF AssignMethod
  <2>2. CASE r.owner # None
    <3>1. find_method_safe(r.owner, r.name) = r.owner
      BY <1>4, <2>2, OwnMethodFound
    <3>2. QED
      BY <1>4, <2>2, <3>1 DEF AssignMethod
  <2>3. QED
    BY <2>1, <2>2
<1>6. DOMAIN docs = Documented /\ (r.owner # None => key \in Documented /\ r.name # None)
  BY <1>4, DocumentedPairs DEF DocInv, Restoring
<1>7. /\ DOMAIN docs' = Documented
      /\ r.owner # None => docs'[key] = doc
      /\ \A d \in Documented : (r.owner = None \/ d # key) => docs'[d] = docs[d]
  <2> HIDE DEF key, doc
  <2>1. QED
    BY <1>5, <1>6
<1>8. doc.text = r.docs
  OBVIOUS
<1> HIDE DEF doc
<1>9. MethodsGiven(n + 1)'
  <2>1. ASSUME NEW c \in Class, NEW m \in Methods[c]
        PROVE  Given(docs[<<c, m>>], "methods", OfMethod(c, m, n + 1))'
    <3>1. source' = source /\ OfMethod(c, m, n + 1)' = OfMethod(c, m, n + 1)
      BY DEF OfMethod
    <3>2. MethodsGiven(n)
      BY <1>2 DEF DocInv, Restoring
    <3>3. c # None
      BY SuperAssumption
    <3>4. CASE r.owner = c /\ r.name = m
      <4>1. n + 1 \in OfMethod(c, m, n + 1)
        BY <1>1, <1>3, <3>4 DEF OfMethod
      <4>2. docs'[<<c, m>>].text = source["methods"][n + 1].docs
        BY <1>1, <1>3, <1>7, <1>8, <3>3, <3>4
      <4>3. QED
        BY <3>1, <4>1, <4>2 DEF Given
    <3>5. CASE ~(r.owner = c /\ r.name = m)
      <4>1. docs'[<<c, m>>] = docs[<<c, m>>]
        BY <1>7, <3>5, DocumentedPairs
      <4>2. OfMethod(c, m, n + 1) = OfMethod(c, m, n)
        <5>1. ASSUME NEW j \in 1 .. n + 1 PROVE j \in 1 .. n \/ j = n + 1
          OBVIOUS
        <5>2. 1 .. n \subseteq 1 .. n + 1
          OBVIOUS
        <5>3. ~(source["methods"][n + 1].owner = c /\ source["methods"][n + 1].name = m)
          BY <1>1, <1>3, <3>5
        <5>4. QED
          BY <5>1, <5>2, <5>3 DEF OfMethod
      <4>3. Given(docs[<<c, m>>], "methods", OfMethod(c, m, n))
        BY <3>2 DEF MethodsGiven
      <4>4. QED
        BY <3>1, <4>1, <4>2, <4>3 DEF Given
    <3>6. QED
      BY <3>4, <3>5
  <2>2. QED
    BY <2>1 DEF MethodsGiven
<1>10. ClassesGiven(Len(source["classes"]))'
  <2>1. ClassesGiven(Len(source["classes"]))
    BY DEF DocInv, Restoring
  <2>2. PICK N : N = Len(source["classes"])
    OBVIOUS
  <2>3. ASSUME NEW c \in Class
        PROVE  (/\ Given(docs[<<c, None>>], "classes", OfClass(c, N))
                /\ Heading(docs[<<c, None>>].extends, c))'
    <3>1. /\ Given(docs[<<c, None>>], "classes", OfClass(c, N))
          /\ Heading(docs[<<c, None>>].extends, c)
      BY <2>1, <2>2 DEF ClassesGiven
    <3>2. docs'[<<c, None>>] = docs[<<c, None>>]
      <4>1. <<c, None>> \in Documented /\ (r.owner = None \/ <<c, None>> # key)
        BY <1>6, DocumentedPairs
      <4> HIDE DEF key
      <4>2. QED
        BY <1>7, <4>1
    <3>3. source' = source /\ OfClass(c, N)' = OfClass(c, N)
      BY DEF OfClass
    <3>4. QED
      BY <3>1, <3>2, <3>3 DEF Given, Heading
  <2>4. QED
    BY <2>2, <2>3 DEF ClassesGiven
<1>11. Restoring'
  BY <1>1, <1>3, <1>7, <1>9, <1>10 DEF Restoring
<1>12. CodecInv'
  BY <1>1, <1>3, <1>5, CompleteKept DEF DocInv, CodecInv
<1>13. QED
  BY <1>11, <1>12 DEF DocInv

(* The last section of a file has been assigned.                              *)
LEMMA AssignedAll ==
    ASSUME DocInv, Assign, ~(pos <= Len(records))
    PROVE  DocInv'
<1>1. /\ phase = "assign" /\ records = source[kind] /\ kind \in Kinds /\ pos \in Nat
      /\ Len(source[kind]) \in Nat /\ pos > 0 /\ pos <= Len(source[kind]) + 1
  BY SourceTypes DEF Assign, DocInv, CodecInv, Restoring
<1>2. pos - 1 = Len(source[kind])
  BY <1>1
<1>3. /\ pos' = 0 /\ UNCHANGED <<source, data, left, records, docs, failed>>
      /\ kind = "classes" => kind' = "methods" /\ phase' = "decode"
      /\ kind # "classes" => kind' = kind /\ phase' = "done"
  BY DEF Assign
<1>4. CodecInv'
  <2>1. 0 \in Nat /\ ~(0 > 0)
    OBVIOUS
  <2>2. QED
    BY <1>1, <1>3, <2>1, CompleteKept DEF DocInv, CodecInv, Kinds
<1>5. \A n : ClassesGiven(n)' = ClassesGiven(n) /\ MethodsGiven(n)' = MethodsGiven(n)
  BY <1>3, GivenKept
<1>6. CASE kind = "classes"
  <2>1. ClassesGiven(Len(source["classes"])) /\ MethodsGiven(0) /\ DOMAIN docs = Documented
    BY <1>1, <1>2, <1>6 DEF DocInv, Restoring
  <2>2. PICK N : N = Len(source["classes"])
    OBVIOUS
  <2>3. ClassesGiven(N)' /\ MethodsGiven(0)' /\ N = Len(source'["classes"])
    BY <1>3, <1>5, <2>1, <2>2
  <2>4. Restoring'
    BY <1>3, <1>6, <2>1, <2>3 DEF Restoring
  <2>5. QED
    BY <1>4, <2>4 DEF DocInv
<1>7. CASE kind # "classes"
  <2>1. kind = "methods"
    BY <1>1, <1>7 DEF Kinds
  <2>2. /\ ClassesGiven(Len(source["classes"])) /\ MethodsGiven(Len(source["methods"]))
        /\ DOMAIN docs = Documented
    BY <1>1, <1>2, <2>1 DEF DocInv, Restoring
  <2>3. PICK N : N = Len(source["classes"])
    OBVIOUS
  <2>4. PICK M : M = Len(source["methods"])
    OBVIOUS
  <2>5. /\ ClassesGiven(N)' /\ MethodsGiven(M)'
        /\ N = Len(source'["classes"]) /\ M = Len(source'["methods"])
    BY <1>3, <1>5, <2>2, <2>3, <2>4
  <2>6. Restoring'
    BY <1>3, <2>1, <2>2, <2>5 DEF Restoring
  <2>7. QED
    BY <1>4, <2>6 DEF DocInv
<1>8. QED
  BY <1>6, <1>7

LEMMA AssignStep ==
    ASSUME DocInv, Assign
    PROVE  DocInv'
<1>1. CASE pos <= Len(records) /\ kind = "classes"
  BY <1>1, AssignClassStep DEF Assign
<1>2. CASE pos <= Len(records) /\ kind # "classes"
  <2>1. kind = "methods"
    BY <1>2 DEF DocInv, CodecInv, Kinds
  <2>2. QED
    BY <1>2, <2>1, AssignMethodStep DEF Assign
<1>3. QED
  BY <1>1, <1>2, AssignedAll

-----------------------------------------------------------------------------
LEMMA StepDocInv ==
    ASSUME DocInv, [Next]_vars
    PROVE  DocInv'
<1>1. CASE Encode \/ Open \/ Decode \/ Close
  <2>1. CodecInv'
    BY <1>1, EncodeCodec, OpenCodec, DecodeCodec, CloseCodec DEF DocInv
  <2>2. QED
    BY <1>1, <2>1, CodecRestoring DEF DocInv
<1>2. CASE Assign
  BY <1>2, AssignStep
<1>3. CASE UNCHANGED vars
  <2>1. UNCHANGED <<phase, kind, source, data, pos, left, records, docs, failed>>
    BY <1>3 DEF vars
  <2>2. CodecInv'
    BY <2>1 DEF DocInv, CodecInv, Encoded, Complete, DecodedTo
  <2>3. \A n : ClassesGiven(n)' = ClassesGiven(n) /\ MethodsGiven(n)' = MethodsGiven(n)
    BY <2>1, GivenKept
  <2>4. QED
    BY <2>1, <2>2, <2>3 DEF DocInv, Restoring
<1>4. QED
  BY <1>1, <1>2, <1>3 DEF Next

(* The invariant of the whole program, from the encoders to the last text.    *)
THEOREM DocsInvariant == Spec => []DocInv
<1>1. Init => DocInv
  BY InitCodec, InitRestoring DEF DocInv
<1>2. DocInv /\ [Next]_vars => DocInv'
  BY StepDocInv
<1>3. QED
  BY <1>1, <1>2, PTL DEF Spec

(* DocPopulator's unsigned bytes_left never wraps: it is what the cells not   *)
(* yet read take.                                                             *)
THEOREM LeftIsExact == Spec => []LeftExact
<1>1. ASSUME DocInv PROVE LeftExact
  <2>1. SUFFICES ASSUME phase = "decode", pos > 0 PROVE left = SizeFrom(data[kind], pos)
    BY DEF LeftExact
  <2> DEFINE sections == source[kind]
             cells == data[kind]
             n == Len(records)
  <2>2. /\ kind \in Kinds /\ Complete(kind)
        /\ sections \in Seq(Sectionlike) /\ Len(sections) \in Nat
    BY <1>1, <2>1, SourceTypes DEF DocInv, CodecInv
  <2>3. PICK st : DecodedTo(st)
    BY <1>1, <2>1 DEF DocInv, CodecInv
  <2>4. /\ LaidOut(cells, sections, Len(sections), st) /\ n \in Nat /\ n <= Len(sections)
        /\ pos = st[n + 1] /\ left = SumFrom(SectionSizes(sections), n + 1)
    BY <2>3 DEF DecodedTo
  <2>5. cells \in Seq(CellSet)
    BY <2>2 DEF Complete, Written
  <2>6. n + 1 \in 1 .. Len(sections) + 1
    BY <2>2, <2>4
  <2> HIDE DEF n
  <2>7. QED
    BY <2>2, <2>4, <2>5, <2>6, SizeOfRest
<1>2. QED
  BY <1>1, DocsInvariant, PTL

(* What populate_docs and load_methods assign are the sections the encoders   *)
(* were given, in their order, and no assertion of theirs fails.              *)
THEOREM DecodedIsEncoded == Spec => []RoundTrip
<1>1. DocInv => RoundTrip
  BY DEF DocInv, CodecInv, RoundTrip
<1>2. QED
  BY <1>1, DocsInvariant, PTL

(* The text of every section ends at its own class or method, a class under   *)
(* its proper ancestors, and nothing is assigned to any other.                *)
THEOREM DocsRestored == Spec => []Restored
<1>1. ASSUME DocInv PROVE Restored
  <2>1. SUFFICES ASSUME phase = "done" PROVE Restored
    BY DEF Restored
  <2> DEFINE N == Len(source["classes"])
             M == Len(source["methods"])
  <2>2. ClassesGiven(N) /\ MethodsGiven(M)
    BY <1>1, <2>1 DEF DocInv, Restoring
  <2>3. DOMAIN source["classes"] = 1 .. N /\ DOMAIN source["methods"] = 1 .. M
    <3>1. source["classes"] \in Seq(Sectionlike) /\ source["methods"] \in Seq(Sectionlike)
      BY <1>1, SourceTypes DEF DocInv, CodecInv, Kinds
    <3>2. QED
      BY <3>1
  <2> HIDE DEF N, M
  <2>4. ASSUME NEW c \in Class
        PROVE  LET own == {s \in Sections("classes") : s.name = c}
                   doc == docs[<<c, None>>]
               IN  IF own = {} THEN doc = Undocumented
                   ELSE /\ doc.text \in {s.docs : s \in own}
                        /\ \A i \in DOMAIN doc.extends :
                             doc.extends[i] = Super[IF i = 1 THEN c ELSE doc.extends[i - 1]]
    <3> DEFINE own == {s \in Sections("classes") : s.name = c}
               doc == docs[<<c, None>>]
    <3>1. Given(doc, "classes", OfClass(c, N)) /\ Heading(doc.extends, c)
      BY <2>2 DEF ClassesGiven
    <3>2. own = {source["classes"][j] : j \in OfClass(c, N)}
      BY <2>3 DEF Sections, ToSet, OfClass
    <3>3. own = {} <=> OfClass(c, N) = {}
      BY <3>2
    <3> HIDE DEF own, doc
    <3>4. CASE own = {}
      BY <3>1, <3>3, <3>4 DEF Given, own, doc
    <3>5. CASE own # {}
      <4>1. PICK j \in OfClass(c, N) : doc.text = source["classes"][j].docs
        BY <3>1, <3>3, <3>5 DEF Given
      <4>2. doc.text \in {s.docs : s \in own}
        BY <3>2, <4>1
      <4>3. QED
        BY <3>1, <3>5, <4>2 DEF Heading, own, doc
    <3>6. QED
      BY <3>4, <3>5
  <2>5. ASSUME NEW c \in Class, NEW m \in Methods[c]
        PROVE  LET own == {s \in Sections("methods") : s.owner = c /\ s.name = m}
               IN  IF own = {} THEN docs[<<c, m>>] = Undocumented
                   ELSE docs[<<c, m>>].text \in {s.docs : s \in own}
    <3> DEFINE own == {s \in Sections("methods") : s.owner = c /\ s.name = m}
               doc == docs[<<c, m>>]
    <3>1. Given(doc, "methods", OfMethod(c, m, M))
      BY <2>2 DEF MethodsGiven
    <3>2. own = {source["methods"][j] : j \in OfMethod(c, m, M)}
      BY <2>3 DEF Sections, ToSet, OfMethod
    <3>3. own = {} <=> OfMethod(c, m, M) = {}
      BY <3>2
    <3> HIDE DEF own, doc
    <3>4. CASE own = {}
      BY <3>1, <3>3, <3>4 DEF Given, own, doc
    <3>5. CASE own # {}
      <4>1. PICK j \in OfMethod(c, m, M) : doc.text = source["methods"][j].docs
        BY <3>1, <3>3, <3>5 DEF Given
      <4>2. doc.text \in {s.docs : s \in own}
        BY <3>2, <4>1
      <4>3. QED
        BY <3>5, <4>2 DEF own, doc
    <3>6. QED
      BY <3>4, <3>5
  <2>6. QED
    BY <2>1, <2>4, <2>5 DEF Restored
<1>2. QED
  BY <1>1, DocsInvariant, PTL
=============================================================================
