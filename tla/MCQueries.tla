----------------------------- MODULE MCQueries -----------------------------
(* Small build definitions of two variables, laid out in lines and columns.   *)
(* The file top includes sub by subdir('a'), sub includes leaf by subdir('a').*)
EXTENDS Queries

CONSTANTS top, sub, leaf

MCFile == {top, sub, leaf}
MCTargets == [f \in MCFile |-> [s \in {"a"} |-> IF f = top THEN sub ELSE leaf]]
MCCursors == {[line |-> l, character |-> c] : l \in 0 .. 7, c \in {0, 1, 2, 4, 5, 6, 8, 12}}

Make(type, name, ref, nameRef, parts) ==
    [type |-> type, name |-> name, ref |-> ref, nameRef |-> nameRef, parts |-> parts]
At(f, l, c, d) == Ref(f, l, c, l, d)
Plain(type, name, ref, parts) == Make(type, name, ref, ref, parts)
Id(f, l, c, x) == Plain("id", x, At(f, l, c, c + 1), <<>>)

(* x = y and x += y *)
Set(f, l, x, value, end) == Plain("assign", "=", At(f, l, 0, end), <<Id(f, l, 0, x), value>>)
Assign(f, l, x, y) == Set(f, l, x, Id(f, l, 4, y), 5)
Add(f, l, x, y)  == Plain("assign", "+=", At(f, l, 0, 6), <<Id(f, l, 0, x), Id(f, l, 5, y)>>)
(* x = y + x and x = [y, x] *)
Sum(f, l, x, y)  == Set(f, l, x, Plain("binary", "+", At(f, l, 4, 9), <<Id(f, l, 4, y), Id(f, l, 8, x)>>), 9)
List(f, l, x, y) == Set(f, l, x, Plain("array", "", At(f, l, 4, 10), <<Id(f, l, 5, y), Id(f, l, 8, x)>>), 10)
(* x = 'a' *)
Text(f, l, x) == Set(f, l, x, Plain("string", "a", At(f, l, 4, 7), <<>>), 7)
(* f(x), and y.x(x) *)
Call(f, l, x) == Make("call", "f", At(f, l, 0, 4), At(f, l, 0, 1), <<Id(f, l, 2, x)>>)
Method(f, l, y, x) == Make("method", x, At(f, l, 0, 6), At(f, l, 2, 3), <<Id(f, l, 0, y), Id(f, l, 4, x)>>)
(* x = f(k:, and on the next line y) *)
Long(f, l, x, y) ==
    Plain("assign", "=", Ref(f, l, 0, l + 1, 2),
          <<Id(f, l, 0, x), Make("call", "f", Ref(f, l, 4, l + 1, 2), At(f, l, 4, 5),
              <<Plain("keyword", "k", Ref(f, l, 6, l + 1, 1), <<Id(f, l + 1, 0, y)>>)>>)>>)
(* subdir('a') *)
Subdir(f, l) == Make("call", "subdir", At(f, l, 0, 11), At(f, l, 0, 6),
                     <<Plain("string", "a", At(f, l, 7, 10), <<>>)>>)
(* foreach x : y ... endforeach *)
Foreach(f, l, x, y, body, end) ==
    Plain("foreach", "", Ref(f, l, 0, end, 10), <<Id(f, l, 8, x), Id(f, l, 12, y)>> \o body)

Token(name) == [type |-> "token", name |-> name, parts |-> <<>>]
Condition(id) == [type |-> "condition", name |-> "", parts |-> <<id>>]
If(f, l, parts, end) == Plain("if", "", Ref(f, l, 0, end, 5), parts)

Simple(f, l) ==
    {Assign(f, l, "x", "y"), Add(f, l, "x", "y"), Sum(f, l, "x", "y"), List(f, l, "y", "x"),
     Text(f, l, "x"), Call(f, l, "x"), Method(f, l, "y", "x")}

Few(f, l) == {Assign(f, l, "x", "y"), Call(f, l, "x"), Assign(f, l, "y", "x")}

Straight ==
    {<<a, b, c>> : a \in Few(top, 0) \union {Subdir(top, 0)},
                   b \in Simple(top, 1) \union {Subdir(top, 1)}, c \in Few(top, 2)}
Lines ==
    {<<a, Long(top, 1, "x", "y"), b>> : a \in Few(top, 0), b \in Few(top, 3)}
Loops ==
    {<<a, Foreach(top, 1, "x", "y", <<b, c>>, 4), d>> :
        a \in Few(top, 0), b \in {Call(top, 2, "x"), Assign(top, 2, "y", "x")},
        c \in {Method(top, 3, "y", "x"), Add(top, 3, "x", "y")}, d \in Few(top, 5)}
Branches ==
    {<<a, If(top, 1, <<Token("if"), Condition(Id(top, 1, 3, "x")), b,
                       Token("elif"), Condition(Id(top, 3, 5, "y")), c,
                       Token("else"), d, Token("endif")>>, 7)>> :
        a \in Few(top, 0), b \in Few(top, 2), c \in Few(top, 4), d \in Few(top, 6)}

SubTexts == {<<Assign(sub, 0, "x", "y")>>, <<Call(sub, 0, "x"), Subdir(sub, 1)>>,
             <<Subdir(sub, 0), Assign(sub, 1, "x", "x")>>}

Project(t, s) == [f \in MCFile |-> IF f = top THEN t ELSE IF f = sub THEN s
                                   ELSE <<Assign(leaf, 0, "x", "y"), Call(leaf, 1, "y")>>]

(* No text includes sub twice: that would merge it twice. *)
OneCall(t) == Cardinality({k \in DOMAIN t : IsSubdir(t[k])}) <= 1

MCTexts == {Project(t, s) : t \in {u \in Straight \union Lines : OneCall(u)}, s \in SubTexts}
           \union {Project(t, <<>>) : t \in Loops \union Branches}

(* The variable of a loop is assigned in its body. *)
LoopTexts ==
    {Project(<<a, Foreach(top, 1, "x", "y", <<Call(top, 2, "x"), b>>, 4)>>, <<>>) :
        a \in Few(top, 0), b \in Simple(top, 3)}

MCStatements == UNION {ToSet(t[f]) : f \in MCFile, t \in MCTexts \union LoopTexts}

Parts(nodes) == UNION {ToSet(n.parts) : n \in nodes}

(* The nodes, down to the value of a keyword in a call that is assigned.      *)
MCSecond == Parts(MCStatements)
MCThird  == Parts(MCSecond)
MCNodes  == UNION {MCStatements, MCSecond, MCThird, Parts(MCThird)}
MCNode   == MCNodes

MCDepth[n \in MCNode] ==
    IF n.parts = <<>> THEN 0 ELSE 1 + Max({MCDepth[p] : p \in ToSet(n.parts)})
MCRank == [f \in MCFile |-> IF f = top THEN 2 ELSE IF f = sub THEN 1 ELSE 0]

(* The projects are written as the proofs suppose.                            *)
ASSUME MCLayout == Layout(MCDepth, MCRank)
=============================================================================
