---------------------------- MODULE MCSymbolTree ----------------------------
(* Four nested directories; lists of two statements, with one level of        *)
(* foreach and if.  OncePrograms and TwicePrograms lead down only (MCStmt),   *)
(* AnyPrograms anywhere (AnyStmt).                                            *)
EXTENDS MergeCorrect

MCDir == {"/", "/a", "/a/b", "/a/b/c", "/gone"}
MCExists == MCDir \ {"/gone"}
MCArg == {"x", "a", "b", "c", "a/b", "gone", "", "..", "v", "1"}
MCLiteral == {"a", "b", "c", "a/b", "gone", "", ".."}

(* "": the directory itself, as for a variable of two letters; "..": the one  *)
(* above; "v": a variable of one letter; "1": a number.                       *)
MCResolve == [d \in MCDir |-> [arg \in MCArg |->
    CASE arg = ""                   -> d
      [] arg = "v"                  -> "skipped"
      [] arg = "1"                  -> "null"
      [] arg = ".." /\ d = "/a"     -> "/"
      [] arg = ".." /\ d = "/a/b"   -> "/a"
      [] arg = "a" /\ d = "/"       -> "/a"
      [] arg = "a/b" /\ d = "/"     -> "/a/b"
      [] arg = "b" /\ d = "/a"      -> "/a/b"
      [] arg = "c" /\ d = "/a/b"   -> "/a/b/c"
      [] OTHER                      -> "/gone"]]

S(kind, arg)        == [kind |-> kind, arg |-> arg, body |-> <<>>]
Compound(kind, body) == [kind |-> kind, arg |-> "x", body |-> body]

Assign == S("assign", "x")
Other  == S("other", "x")

Simple(d) == {Assign, Other} \union
    {S("subdir", arg) : arg \in IF d = "/" THEN {"a", "a/b", "gone", "v", "1"}
                                ELSE IF d = "/a" THEN {"b"}
                                ELSE IF d = "/a/b" THEN {"c"} ELSE {}}

(* build() passes over the first statement of a foreach; here it is one that  *)
(* leaves no data.                                                            *)
Blocks(d) == {Compound("foreach", <<Other, s>>) : s \in Simple(d)}
             \union {Compound("if", <<Assign, s>>) : s \in Simple(d)}
             \union {Compound("if", <<s, Other>>) : s \in Simple(d) \ {Assign, Other}}

Lists(set) == {<<>>} \union {<<s>> : s \in set} \union (set \X set)

Project(top, a, b) ==
    [d \in MCDir |-> CASE d = "/" -> top [] d = "/a" -> a [] d = "/a/b" -> b
                       [] d = "/a/b/c" -> <<Assign>> [] OTHER -> <<>>]

Nested == {Project(top, <<Assign, s>>, <<t, Assign>>) :
              top \in Lists(Simple("/")) \union (Simple("/") \X Blocks("/"))
                      \union (Blocks("/") \X Simple("/")),
              s \in Simple("/a") \union Blocks("/a"), t \in Simple("/a/b")}

(* The names that merge() looks up for a statement. *)
Names(s) ==
    LET calls == {t \in {s} \union IF s.kind = "if" THEN ToSet(s.body) ELSE {} : t.kind = "subdir"}
    IN {t.arg : t \in calls} \cap MCLiteral

OncePrograms ==
    {p \in Nested : Len(p["/"]) = 2 => Names(p["/"][1]) \cap Names(p["/"][2]) = {}}

(* The two calls are in the branches of different selection statements, of    *)
(* which Meson may run one only.                                              *)
TwicePrograms ==
    {Project(<<s, t>>, a, <<Assign>>) :
        s \in {Compound("if", <<Assign, S("subdir", "a")>>)},
        t \in {Compound("if", <<S("subdir", "a"), Other>>)},
        a \in Lists(Simple("/a") \union Blocks("/a"))}

Within(s) == {s} \union ToSet(s.body)
MCStmt == UNION {UNION {Within(s) : s \in Simple(d) \union Blocks(d)} : d \in MCDir}

(* Projects whose calls lead up, down and back to the directory itself, from  *)
(* any place of a block but the first of a foreach, which build() passes over:*)
(* a call there leaves no data, and one of a number is no harm.               *)
Anyhow(d) == {Assign} \union
    CASE d = "/"  -> {S("assign", "1")} \union {S("subdir", arg) : arg \in {"a", "", "v", "1"}}
      [] d = "/a" -> {S("subdir", arg) : arg \in {"b", "", ".."}}
      [] OTHER    -> {S("subdir", arg) : arg \in {"..", "1"}}

Passed == {Other, S("subdir", "v"), S("subdir", "1")}

Pairs(set) == {pair \in set \X set : pair[1] # pair[2]}

AnyBlocks(d) ==
    {Compound("foreach", <<s, t>>) : s \in Passed, t \in Anyhow(d)}
    \union {Compound("if", body) : body \in Pairs(Anyhow(d))}

AnyPrograms ==
    {Project(top, a, <<s>>) :
        top \in Pairs(Anyhow("/")) \union {<<t>> : t \in Anyhow("/") \union AnyBlocks("/")},
        a \in {<<t>> : t \in Anyhow("/a") \union AnyBlocks("/a")},
        s \in Anyhow("/a/b")}

AnyStmt == UNION {UNION {Within(s) : s \in Anyhow(d) \union AnyBlocks(d)} : d \in MCDir}

TreeStmt     == MCStmt \union AnyStmt
TreePrograms == OncePrograms \union AnyPrograms

MCRank == [d \in MCDir |-> CASE d = "/" -> 0 [] d = "/a" -> 1 [] d = "/a/b" -> 2 [] OTHER -> 3]

(* Projects of these statements are of the kind TreeComplete is claimed for.  *)
ASSUME TameAssumption ==
    Stmt = MCStmt => Tame(3, MCRank, [s \in MCStmt |-> IF s.body = <<>> THEN 0 ELSE 1])

(* And of those, OncePrograms are of the kind MergedInOrder is claimed for.   *)
ASSUME OnceAssumption ==
    Stmt = MCStmt => \A p \in OncePrograms : Once([s \in MCStmt |-> Names(s)], p)
=============================================================================
