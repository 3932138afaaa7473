---------------------------- MODULE MCDocStore -----------------------------
(***************************************************************************)
(* Files with some sections of three nested classes and one of their own,  *)
(* one method of which has the name of a method of its super type.         *)
(***************************************************************************)
EXTENDS DocStore

CONSTANTS tgt, build_tgt, exe, file, full_path, path, text, long

MCClass == {tgt, build_tgt, exe, file}
MCSuper == tgt :> None @@ build_tgt :> tgt @@ exe :> build_tgt @@ file :> None
MCMethods ==
  tgt :> {full_path} @@ build_tgt :> {path} @@ exe :> {full_path} @@ file :> {full_path}

MCLength ==
  tgt :> 3 @@ build_tgt :> 9 @@ exe :> 3 @@ file :> 4 @@ full_path :> 9 @@ path :> 4
    @@ text :> 1 @@ long :> 40

Section(n, owner, t) == [name |-> n, owner |-> owner, docs |-> t]

(* The sections of a file in any order, each at most once. *)
Orders(sections) == UNION {SetToSeqs(S) : S \in SUBSET sections}

MCFiles ==
  [classes |-> Orders({Section(c, Super[c], IF c = exe THEN long ELSE text) : c \in Class \ {file}}),
   methods |-> Orders({Section(m, c, text) : <<c, m>> \in {<<tgt, full_path>>, <<exe, full_path>>}}
                        \union {Section(path, build_tgt, long), Section(path, None, text)})]
=============================================================================
