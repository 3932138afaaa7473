-------------------------- MODULE SymbolTreeProofs --------------------------
(***************************************************************************)
(* Theorems about SymbolTree and SymbolTreeCorrect, for every project and  *)
(* every depth.                                                            *)
(***************************************************************************)
EXTENDS SymbolTreeCorrect, NaturalOrder

(* The calls are of directories, with statements of the project to do.        *)
StackOK ==
    /\ \E S : stack \in Seq(S)
    /\ stack # <<>>
    /\ \A i \in DOMAIN stack : stack[i].dir \in Dir /\ stack[i].work \in Seq(Stmt)
    /\ \A d \in Dir : program[d] \in Seq(Stmt)

(* The stack is a sequence of n frames; it is t now.                          *)
Frames(t, n) == n \in Nat \ {0} /\ (\E S : t \in Seq(S)) /\ Len(t) = n /\ DOMAIN t = 1 .. n

LEMMA StackFrames ==
    ASSUME StackOK
    PROVE  Frames(stack, Len(stack)) /\ Len(stack) \in 1 .. Len(stack)
  BY DEF StackOK, Frames

(* A call with other work and more data. *)
Grown(f, w, x) == [dir |-> f.dir, work |-> w, datas |-> f.datas \o x, childFiles |-> f.childFiles]

LEMMA ContinueFrames ==
    ASSUME StackOK, NEW w, NEW x
    PROVE  /\ Frames(Continue(w, x), Len(stack))
           /\ \A i \in 1 .. Len(stack) :
                 Continue(w, x)[i] = IF i = Len(stack) THEN Grown(Current, w, x) ELSE stack[i]
<1> DEFINE n == Len(stack)
           e == Grown(Current, w, x)
<1>1. PICK S : stack \in Seq(S)
  BY DEF StackOK
<1>2. n \in Nat \ {0} /\ n \in 1 .. n /\ DOMAIN stack = 1 .. n
  BY StackFrames DEF Frames
<1>3. Continue(w, x) = [stack EXCEPT ![n] = e]
  BY DEF Continue, Grown
<1> HIDE DEF e
<1>4. [stack EXCEPT ![n] = e] \in Seq(S \union {e})
  BY <1>1, <1>2
<1>5. Len([stack EXCEPT ![n] = e]) = n
  BY <1>1, <1>2
<1>6. ASSUME NEW i \in 1 .. n
      PROVE  [stack EXCEPT ![n] = e][i] = IF i = n THEN e ELSE stack[i]
  BY <1>2
<1>7. Frames(Continue(w, x), n)
  BY <1>2, <1>3, <1>4, <1>5 DEF Frames
<1>8. QED
  BY <1>3, <1>6, <1>7 DEF e

(* Replacing the work and the data of the innermost call leaves the           *)
(* directories of the stack as they are.                                      *)
LEMMA ContinueStack ==
    ASSUME StackOK, NEW w \in Seq(Stmt), NEW x
    PROVE  /\ \E S : Continue(w, x) \in Seq(S)
           /\ Len(Continue(w, x)) = Len(stack)
           /\ \A i \in 1 .. Len(stack) : Continue(w, x)[i].dir = stack[i].dir
           /\ \A i \in 1 .. Len(stack) : Continue(w, x)[i].work \in Seq(Stmt)
<1>1. Grown(Current, w, x).dir = stack[Len(stack)].dir /\ Grown(Current, w, x).work = w
  BY DEF Grown, Current
<1>2. \A i \in 1 .. Len(stack) : stack[i].work \in Seq(Stmt)
  BY StackFrames DEF StackOK, Frames
<1>3. QED
  BY <1>1, <1>2, ContinueFrames DEF Frames

(* What is left to do of the innermost call, when it has a next statement.    *)
LEMMA NextStatement ==
    ASSUME StackOK, Current.work # <<>>
    PROVE  /\ Current.dir \in Dir
           /\ Statement \in Stmt
           /\ Tail(Current.work) \in Seq(Stmt)
           /\ Statement.body \in Seq(Stmt)
<1>1. Len(stack) \in DOMAIN stack
  <2>1. PICK S : stack \in Seq(S)
    BY DEF StackOK
  <2>2. QED
    BY <2>1 DEF StackOK
<1>2. Current.dir \in Dir /\ Current.work \in Seq(Stmt)
  BY <1>1 DEF StackOK, Current
<1>3. Statement \in Stmt /\ Tail(Current.work) \in Seq(Stmt)
  BY <1>2 DEF Statement
<1>4. QED
  BY <1>2, <1>3, StmtAssumption

(* The steps that stay in the current call. *)
LEMMA StaysInCall ==
    ASSUME StackOK, NEW w \in Seq(Stmt), NEW x, stack' = Continue(w, x), UNCHANGED program
    PROVE  StackOK'
<1>1. PICK S : stack \in Seq(S)
  BY DEF StackOK
<1>2. PICK T : stack' \in Seq(T)
  BY ContinueStack
<1>3. /\ Len(stack') = Len(stack)
      /\ \A i \in 1 .. Len(stack) : stack'[i].dir = stack[i].dir
      /\ \A i \in 1 .. Len(stack) : stack'[i].work \in Seq(Stmt)
  BY ContinueStack
<1>4. DOMAIN stack = 1 .. Len(stack) /\ DOMAIN stack' = 1 .. Len(stack)
  BY <1>1, <1>2, <1>3
<1>5. stack' # <<>>
  BY <1>1, <1>2, <1>3 DEF StackOK
<1>6. \A i \in DOMAIN stack' : stack'[i].dir \in Dir /\ stack'[i].work \in Seq(Stmt)
  BY <1>3, <1>4 DEF StackOK
<1>7. QED
  BY <1>2, <1>5, <1>6 DEF StackOK

(* A call of build() starts: a frame more. *)
LEMMA EnterFrames ==
    ASSUME StackOK, EnterSubdir
    PROVE  /\ Frames(stack', Len(stack) + 1)
           /\ \A i \in 1 .. Len(stack) :
                 stack'[i] = Continue(Tail(Current.work), <<Subdir(Statement.arg)>>)[i]
           /\ stack'[Len(stack) + 1] = Frame(Target)
<1> DEFINE n == Len(stack)
           caller == Continue(Tail(Current.work), <<Subdir(Statement.arg)>>)
           callee == Frame(Target)
<1>1. n \in Nat \ {0}
  BY StackFrames DEF Frames
<1>2. Frames(caller, n)
  BY ContinueFrames
<1>3. stack' = Append(caller, callee)
  BY DEF EnterSubdir
<1> HIDE DEF caller, callee
<1>4. PICK T : caller \in Seq(T)
  BY <1>2 DEF Frames
<1>5. caller \in Seq(T \union {callee}) /\ Len(caller) = n
  BY <1>2, <1>4 DEF Frames
<1>6. stack' \in Seq(T \union {callee})
  BY <1>3, <1>5
<1>7. Len(stack') = n + 1 /\ stack'[n + 1] = callee /\ \A i \in 1 .. n : stack'[i] = caller[i]
  BY <1>3, <1>5, <1>1
<1>8. DOMAIN stack' = 1 .. n + 1
  BY <1>6, <1>7
<1>9. QED
  BY <1>1, <1>6, <1>7, <1>8 DEF Frames, caller, callee

LEMMA EntersCall ==
    ASSUME StackOK, EnterSubdir
    PROVE  StackOK'
<1> DEFINE n == Len(stack)
<1>2. n \in 1 .. n /\ n \in Nat /\ DOMAIN stack = 1 .. n
  BY StackFrames DEF Frames
<1>3. /\ Current.dir \in Dir
      /\ Statement \in Stmt /\ Statement.kind = "subdir"
      /\ Tail(Current.work) \in Seq(Stmt)
  BY NextStatement DEF EnterSubdir, Analyse
<1>4. Target \in Exists /\ Target \in Dir
  BY DirAssumption DEF EnterSubdir
<1>8. program' = program
  BY DEF EnterSubdir, Analyse
<1>9. Frame(Target).dir = Target /\ Frame(Target).work \in Seq(Stmt)
  BY <1>4 DEF Frame, StackOK
<1>11. (\E S : stack' \in Seq(S)) /\ Len(stack') = n + 1 /\ DOMAIN stack' = 1 .. n + 1
  BY EnterFrames DEF Frames
<1>13. /\ stack'[n + 1].dir = Target /\ stack'[n + 1].work \in Seq(Stmt)
       /\ \A i \in 1 .. n : stack'[i].dir = stack[i].dir /\ stack'[i].work \in Seq(Stmt)
  <2> DEFINE w == Tail(Current.work)
             x == <<Subdir(Statement.arg)>>
  <2>1. w \in Seq(Stmt)
    BY <1>3
  <2>2. \A i \in 1 .. n : stack'[i] = Continue(w, x)[i]
    BY EnterFrames
  <2> HIDE DEF w, x
  <2>3. \A i \in 1 .. n : Continue(w, x)[i].dir = stack[i].dir /\ Continue(w, x)[i].work \in Seq(Stmt)
    BY <2>1, ContinueStack
  <2>4. QED
    BY <1>9, <2>2, <2>3, EnterFrames
<1>14. \A i \in DOMAIN stack' : stack'[i].dir \in Dir /\ stack'[i].work \in Seq(Stmt)
  BY <1>2, <1>4, <1>11, <1>13 DEF StackOK
<1>15. stack' # <<>>
  BY <1>2, <1>11
<1>16. QED
  BY <1>8, <1>11, <1>14, <1>15 DEF StackOK

(* A call of build() returns to its caller: a frame less. *)
Received == [dir |-> Caller.dir, work |-> Caller.work,
             datas |-> Append(Caller.datas, Tree(Returned)),
             childFiles |-> Append(Caller.childFiles, Returned.dir)]

LEMMA ReturnFrames ==
    ASSUME StackOK, Return, Len(stack) > 1
    PROVE  /\ Frames(stack', Len(stack) - 1)
           /\ \A i \in 1 .. Len(stack) - 1 :
                 stack'[i] = IF i = Len(stack) - 1 THEN Received ELSE stack[i]
<1> DEFINE m == Len(stack) - 1
           e == Received
           rest == SubSeq(stack, 1, m)
<1>1. PICK S : stack \in Seq(S)
  BY DEF StackOK
<1>2. m \in Nat \ {0} /\ m \in 1 .. m /\ Len(stack) # 1
  <2>1. Len(stack) \in Nat
    BY StackFrames DEF Frames
  <2>2. \A k \in Nat : k > 1 => k - 1 \in Nat \ {0} /\ k - 1 \in 1 .. k - 1 /\ k # 1
    OBVIOUS
  <2>3. QED
    BY <2>1, <2>2, Zenon
<1>3. stack' = [rest EXCEPT ![m] = e]
  BY <1>2, Zenon DEF Return, Received
<1>4. rest \in Seq(S) /\ Len(rest) = m /\ \A i \in 1 .. m : rest[i] = stack[i]
  BY <1>1, <1>2
<1> HIDE DEF m, e, rest
<1>5. DOMAIN rest = 1 .. m
  BY <1>4
<1>6. stack' \in Seq(S \union {e}) /\ Len(stack') = m /\ DOMAIN stack' = 1 .. m
  BY <1>2, <1>3, <1>4, <1>5
<1>7. \A i \in 1 .. m : stack'[i] = IF i = m THEN e ELSE stack[i]
  BY <1>2, <1>3, <1>4, <1>5
<1>8. Frames(stack', m)
  BY <1>2, <1>6 DEF Frames
<1>9. QED
  BY <1>7, <1>8 DEF m, e

LEMMA LeavesCall ==
    ASSUME StackOK, Return
    PROVE  StackOK'
<1> DEFINE n == Len(stack)
<1>1. n \in 1 .. n /\ n \in Nat /\ DOMAIN stack = 1 .. n
  BY StackFrames DEF Frames
<1>2. CASE UNCHANGED stack
  BY <1>2 DEF StackOK, Return
<1>3. CASE n > 1
  <2>1. (\E S : stack' \in Seq(S)) /\ Len(stack') = n - 1 /\ DOMAIN stack' = 1 .. n - 1
    BY <1>3, ReturnFrames DEF Frames
  <2>2. Received.dir = stack[n - 1].dir /\ Received.work = stack[n - 1].work
    BY DEF Received, Caller
  <2>3. \A i \in 1 .. n - 1 : stack'[i].dir = stack[i].dir /\ stack'[i].work = stack[i].work
    BY <1>3, <2>2, ReturnFrames
  <2>4. \A i \in 1 .. n - 1 : i \in DOMAIN stack
    BY <1>1
  <2>5. stack' # <<>>
    BY <1>1, <1>3, <2>1
  <2>6. \A i \in DOMAIN stack' : stack'[i].dir \in Dir /\ stack'[i].work \in Seq(Stmt)
    BY <2>1, <2>3, <2>4 DEF StackOK
  <2>7. QED
    BY <2>1, <2>5, <2>6 DEF StackOK, Return
<1>4. QED
  BY <1>1, <1>2, <1>3 DEF Return

LEMMA StackStarts ==
    ASSUME Init
    PROVE  StackOK
<1>1. Frame(Top).dir = Top /\ Frame(Top).work = program[Top]
  BY DEF Frame
<1>2. \A d \in Dir : program[d] \in Seq(Stmt)
  BY ProgramAssumption DEF Init
<1>3. stack = <<Frame(Top)>>
  BY DEF Init
<1>4. stack \in Seq({Frame(Top)}) /\ DOMAIN stack = {1} /\ stack[1] = Frame(Top)
  BY <1>3
<1>5. QED
  BY <1>1, <1>2, <1>3, <1>4, DirAssumption DEF StackOK

LEMMA StackStays ==
    ASSUME StackOK, [Next]_vars
    PROVE  StackOK'
<1>1. ASSUME Current.work # <<>>
      PROVE  /\ Tail(Current.work) \in Seq(Stmt)
             /\ Statement.body \o Tail(Current.work) \in Seq(Stmt)
             /\ SubSeq(Statement.body, 2, Len(Statement.body)) \o Tail(Current.work) \in Seq(Stmt)
  <2>1. Tail(Current.work) \in Seq(Stmt) /\ Statement.body \in Seq(Stmt)
    BY <1>1, NextStatement
  <2>2. SubSeq(Statement.body, 2, Len(Statement.body)) \in Seq(Stmt)
    BY <2>1
  <2>3. QED
    BY <2>1, <2>2
<1>2. CASE AnalyseAssignment
  BY <1>1, <1>2, StaysInCall DEF AnalyseAssignment, Analyse
<1>3. CASE AnalyseOther
  BY <1>1, <1>3, StaysInCall DEF AnalyseOther, Analyse
<1>4. CASE AnalyseForeach
  BY <1>1, <1>4, StaysInCall DEF AnalyseForeach, Analyse
<1>5. CASE AnalyseSelection
  BY <1>1, <1>5, StaysInCall DEF AnalyseSelection, Analyse
<1>6. CASE SkipSubdir
  BY <1>1, <1>6, StaysInCall DEF SkipSubdir, Analyse
<1>7. CASE MissingSubdir
  BY <1>1, <1>7, StaysInCall DEF MissingSubdir, Analyse
<1>8. CASE EnterSubdir
  BY <1>8, EntersCall
<1>9. CASE StackOverflow \/ NullNodeCrash
  BY <1>9 DEF StackOverflow, NullNodeCrash, Analyse, StackOK
<1>10. CASE Return
  BY <1>10, LeavesCall
<1>11. CASE UNCHANGED vars
  BY <1>11 DEF vars, StackOK
<1>12. QED
  BY <1>2, <1>3, <1>4, <1>5, <1>6, <1>7, <1>8, <1>9, <1>10, <1>11 DEF Next

-----------------------------------------------------------------------------
(* The statements that build() comes to.  That Met unfolds needs no bound on  *)
(* the nesting of blocks: what can be reached from a statement is a solution. *)

From(s) == IF s.kind = "foreach" THEN 2 ELSE 1

Meeting(f, s) == {s} \union UNION {f[s.body[i]] : i \in From(s) .. Len(s.body)}

Meets(f) == f = [s \in Stmt |-> Meeting(f, s)]

Closed(C) == \A u \in C : \A i \in From(u) .. Len(u.body) : u.body[i] \in C

Reachable(s) == {t \in Stmt : \A C \in SUBSET Stmt : s \in C /\ Closed(C) => t \in C}

LEMMA BodyType ==
    ASSUME NEW s \in Stmt
    PROVE  /\ s.body \in Seq(Stmt) /\ From(s) \in {1, 2} /\ Len(s.body) \in Nat
           /\ \A i \in From(s) .. Len(s.body) : i \in 1 .. Len(s.body) /\ s.body[i] \in Stmt
<1>1. s.body \in Seq(Stmt)
  BY StmtAssumption
<1>2. QED
  BY <1>1 DEF From

LEMMA ReachableUnfolds ==
    ASSUME NEW s \in Stmt
    PROVE  Reachable(s) = {s} \union UNION {Reachable(s.body[i]) : i \in From(s) .. Len(s.body)}
<1> DEFINE C == {s} \union UNION {Reachable(s.body[i]) : i \in From(s) .. Len(s.body)}
<1>1. \A u \in Stmt : u \in Reachable(u) /\ Reachable(u) \subseteq Stmt
  BY DEF Reachable
<1>2. ASSUME NEW u \in Stmt PROVE Closed(Reachable(u))
  BY BodyType DEF Reachable, Closed
<1>3. C \subseteq Reachable(s)
  <2>1. SUFFICES ASSUME NEW i \in From(s) .. Len(s.body), NEW t \in Reachable(s.body[i]),
                        NEW D \in SUBSET Stmt, s \in D, Closed(D)
                 PROVE  t \in D
    BY <1>1, BodyType DEF Reachable
  <2>2. s.body[i] \in D
    BY <2>1 DEF Closed
  <2>3. QED
    BY <2>1, <2>2 DEF Reachable
<1>4. C \subseteq Stmt /\ s \in C
  BY <1>1, BodyType
<1>5. Closed(C)
  <2>1. SUFFICES ASSUME NEW u \in C, NEW j \in From(u) .. Len(u.body)
                 PROVE  u.body[j] \in C
    BY DEF Closed
  <2>2. CASE u = s
    BY <1>1, <2>1, <2>2, BodyType
  <2>3. CASE u # s
    <3>1. PICK i \in From(s) .. Len(s.body) : u \in Reachable(s.body[i])
      BY <2>3
    <3>2. u.body[j] \in Reachable(s.body[i])
      BY <1>2, <3>1, BodyType DEF Closed
    <3>3. QED
      BY <3>2
  <2>4. QED
    BY <2>2, <2>3
<1>6. Reachable(s) \subseteq C
  <2> HIDE DEF C
  <2>1. QED
    BY <1>4, <1>5 DEF Reachable
<1>7. QED
  BY <1>3, <1>6

LEMMA MetUnfolds == \A s \in Stmt : Met[s] = Meeting(Met, s)
<1> DEFINE F == CHOOSE f : Meets(f)
           R == [s \in Stmt |-> Reachable(s)]
<1>1. ASSUME NEW s \in Stmt PROVE Reachable(s) = Meeting(R, s)
  <2>1. \A i \in From(s) .. Len(s.body) : R[s.body[i]] = Reachable(s.body[i])
    BY BodyType
  <2> HIDE DEF R
  <2>2. {R[s.body[i]] : i \in From(s) .. Len(s.body)}
          = {Reachable(s.body[i]) : i \in From(s) .. Len(s.body)}
    BY <2>1
  <2>3. QED
    BY <2>2, ReachableUnfolds DEF Meeting
<1>2. Meets(R)
  BY <1>1 DEF Meets
<1>3. Met = F
  BY DEF Met, Meets, Meeting, From
<1>4. Meets(F)
  <2> HIDE DEF R
  <2>1. QED
    BY <1>2
<1> HIDE DEF F
<1>5. F = [s \in Stmt |-> Meeting(F, s)]
  BY <1>4 DEF Meets
<1>6. QED
  BY <1>3, <1>5

LEMMA MetInConcat ==
    ASSUME NEW v \in Seq(Stmt), NEW w \in Seq(Stmt)
    PROVE  MetIn(v \o w) = MetIn(v) \union MetIn(w)
<1>1. Len(v) \in Nat /\ Len(w) \in Nat /\ DOMAIN v = 1 .. Len(v) /\ DOMAIN w = 1 .. Len(w)
  OBVIOUS
<1>2. /\ DOMAIN (v \o w) = 1 .. Len(v) + Len(w)
      /\ \A i \in 1 .. Len(v) : (v \o w)[i] = v[i]
      /\ \A i \in 1 .. Len(w) : (v \o w)[Len(v) + i] = w[i]
  OBVIOUS
<1>3. \A i \in 1 .. Len(v) + Len(w) : i \in 1 .. Len(v) \/ \E j \in 1 .. Len(w) : i = Len(v) + j
  <2>1. ASSUME NEW i \in 1 .. Len(v) + Len(w), i \notin 1 .. Len(v)
        PROVE  \E j \in 1 .. Len(w) : i = Len(v) + j
    <3>1. i - Len(v) \in 1 .. Len(w) /\ i = Len(v) + (i - Len(v))
      BY <1>1, <2>1
    <3>2. QED
      BY <3>1
  <2>2. QED
    BY <2>1
<1>4. /\ \A i \in 1 .. Len(v) : i \in 1 .. Len(v) + Len(w)
      /\ \A i \in 1 .. Len(w) : Len(v) + i \in 1 .. Len(v) + Len(w)
  BY <1>1
<1> DEFINE u == v \o w
<1>5. MetIn(u) \subseteq MetIn(v) \union MetIn(w)
  <2>1. SUFFICES ASSUME NEW i \in 1 .. Len(v) + Len(w)
                 PROVE  Met[u[i]] \subseteq MetIn(v) \union MetIn(w)
    BY <1>2 DEF MetIn
  <2>2. (\E j \in DOMAIN v : u[i] = v[j]) \/ (\E j \in DOMAIN w : u[i] = w[j])
    BY <1>1, <1>2, <1>3
  <2> HIDE DEF u
  <2>3. QED
    BY <2>2 DEF MetIn
<1>6. MetIn(v) \union MetIn(w) \subseteq MetIn(u)
  <2>1. /\ \A j \in DOMAIN v : \E i \in DOMAIN u : u[i] = v[j]
        /\ \A j \in DOMAIN w : \E i \in DOMAIN u : u[i] = w[j]
    BY <1>1, <1>2, <1>4
  <2> HIDE DEF u
  <2>2. QED
    BY <2>1 DEF MetIn
<1>7. QED
  BY <1>5, <1>6

(* A statement, and what its body comes to.                                   *)
LEMMA MetOfBody ==
    ASSUME NEW s \in Stmt
    PROVE  /\ s.kind = "foreach" => Met[s] = {s} \union MetIn(SubSeq(s.body, 2, Len(s.body)))
           /\ s.kind # "foreach" => Met[s] = {s} \union MetIn(s.body)
<1> DEFINE b == s.body
           n == Len(b)
           r == SubSeq(b, 2, n)
<1>1. b \in Seq(Stmt) /\ n \in Nat /\ DOMAIN b = 1 .. n
  BY BodyType
<1>2. Met[s] = {s} \union UNION {Met[b[i]] : i \in From(s) .. n}
  BY MetUnfolds DEF Meeting
<1> HIDE DEF b
<1>3. CASE s.kind = "foreach"
  <2>1. DOMAIN r = 1 .. (IF 2 <= n THEN n - 1 ELSE 0) /\ \A i \in DOMAIN r : r[i] = b[i + 1]
    BY <1>1
  <2>2. /\ \A i \in 2 .. n : i - 1 \in DOMAIN r /\ r[i - 1] = b[i]
        /\ \A i \in DOMAIN r : i + 1 \in 2 .. n
    <3> HIDE DEF r
    <3>1. QED
      BY <1>1, <2>1
  <2> HIDE DEF r
  <2>3. UNION {Met[b[i]] : i \in 2 .. n} = UNION {Met[r[i]] : i \in DOMAIN r}
    <3>1. /\ \A i \in 2 .. n : \E j \in DOMAIN r : b[i] = r[j]
          /\ \A j \in DOMAIN r : \E i \in 2 .. n : b[i] = r[j]
      BY <2>1, <2>2
    <3>2. {Met[b[i]] : i \in 2 .. n} = {Met[r[i]] : i \in DOMAIN r}
      BY <3>1
    <3>3. QED
      BY <3>2
  <2>4. QED
    BY <1>2, <1>3, <2>3 DEF r, From, b, MetIn
<1>4. CASE s.kind # "foreach"
  BY <1>1, <1>2, <1>4 DEF From, MetIn, b
<1>5. QED
  BY <1>3, <1>4

(* The first element and the others. *)
LEMMA HeadAndTail ==
    ASSUME NEW T, NEW w \in Seq(T), w # <<>>
    PROVE  /\ Head(w) \in T /\ Tail(w) \in Seq(T) /\ <<Head(w)>> \in Seq(T)
           /\ w = <<Head(w)>> \o Tail(w)
<1>1. 1 \in 1 .. Len(w) /\ Len(w) \in 1 .. Len(w)
  OBVIOUS
<1>2. w = <<w[1]>> \o SubSeq(w, 1 + 1, Len(w))
  BY <1>1, SubSeqRecursiveFirst, SubSeqFull
<1>3. QED
  BY <1>2, TailIsSubSeq, HeadTailProperties

(* The next statement of a call, and what the statements that take its place  *)
(* and the others come to.                                                    *)
LEMMA WorkUnfolds ==
    ASSUME NEW v \in Seq(Stmt), v # <<>>
    PROVE  LET s == Head(v)
               b == SubSeq(s.body, 2, Len(s.body))
           IN /\ s \in MetIn(v)
              /\ s.kind \notin {"foreach", "if"} => MetIn(v) = {s} \union MetIn(Tail(v))
              /\ s.kind = "foreach" => MetIn(v) = {s} \union MetIn(b \o Tail(v))
              /\ s.kind = "if" => MetIn(v) = {s} \union MetIn(s.body \o Tail(v))
<1> DEFINE s == Head(v)
           t == Tail(v)
           one == <<s>>
           b == SubSeq(s.body, 2, Len(s.body))
<1>1. s \in Stmt /\ t \in Seq(Stmt) /\ one \in Seq(Stmt) /\ v = one \o t
  BY HeadAndTail
<1>2. s.body \in Seq(Stmt) /\ b \in Seq(Stmt)
  BY <1>1, BodyType
<1>3. MetIn(one) = Met[s]
  BY DEF MetIn
<1>4. s.kind \notin {"foreach", "if"} => MetIn(s.body) = {}
  <2>1. s.kind \notin {"foreach", "if"} => s.body = <<>>
    BY <1>1, StmtAssumption
  <2>2. MetIn(<<>>) = {}
    BY DEF MetIn
  <2>3. QED
    BY <2>1, <2>2
<1>5. /\ s.kind = "foreach" => Met[s] = {s} \union MetIn(b)
      /\ s.kind # "foreach" => Met[s] = {s} \union MetIn(s.body)
  BY <1>1, MetOfBody
<1> HIDE DEF s, t, one, b
<1>6. MetIn(v) = Met[s] \union MetIn(t)
  BY <1>1, <1>3, MetInConcat
<1>7. MetIn(b \o t) = MetIn(b) \union MetIn(t) /\ MetIn(s.body \o t) = MetIn(s.body) \union MetIn(t)
  BY <1>1, <1>2, MetInConcat
<1>8. QED
  BY <1>4, <1>5, <1>6, <1>7 DEF s, t, b
-----------------------------------------------------------------------------
(* Which projects build() does not survive. *)

(* The calls that have not returned: n directories, t[i].dir each, of which    *)
(* each calls the next, with nothing to do that its file does not say.        *)
Called(p, t, n) ==
    /\ n <= MaxDepth /\ t[1].dir = Top
    /\ \A i \in 1 .. n : t[i].dir \in Exists /\ MetIn(t[i].work) \subseteq MetIn(p[t[i].dir])
    /\ \A i \in 1 .. n - 1 : \E s \in MetIn(p[t[i].dir]) : Enters(s, t[i].dir, t[i + 1].dir)

(* Statement s leads on along the way c of length m at its k-th directory.    *)
Ahead(s, c, m, k) == IF k = m THEN Fatal(s, c[m], m) ELSE Enters(s, c[k], c[k + 1])

(* The first k calls are on the way c, with the statement yet to come that    *)
(* leads on, whatever the calls above them do.                                *)
Heeds(t, n, c, m, k) ==
    /\ k \in 1 .. m /\ k \in 1 .. n
    /\ \A i \in 1 .. k : t[i].dir = c[i]
    /\ \E s \in MetIn(t[k].work) : Ahead(s, c, m, k)

Ways(p) == {w \in [m : 1 .. MaxDepth, c : UNION {[1 .. m -> Exists] : m \in 1 .. MaxDepth}] :
              w.c \in [1 .. w.m -> Exists] /\ Way(p, w.c, w.m)}

Heading(p, t, n) == \A w \in Ways(p) : \E k \in 1 .. n : Heeds(t, n, w.c, w.m, k)

LEMMA DoomedHasWay == \A p : Doomed(p) <=> Ways(p) # {}
<1>1. ASSUME NEW p, Doomed(p) PROVE Ways(p) # {}
  <2>1. PICK m \in 1 .. MaxDepth : \E c \in [1 .. m -> Exists] : Way(p, c, m)
    BY <1>1 DEF Doomed
  <2>2. PICK c \in [1 .. m -> Exists] : Way(p, c, m)
    BY <2>1
  <2>3. [m |-> m, c |-> c] \in Ways(p)
    BY <2>2 DEF Ways
  <2>4. QED
    BY <2>3
<1>2. ASSUME NEW p, NEW w \in Ways(p) PROVE Doomed(p)
  BY <1>2 DEF Ways, Doomed
<1>3. QED
  BY <1>1, <1>2

(* The start of a way leads on.                                               *)
LEMMA WayLeadsOn ==
    ASSUME NEW p, NEW w \in Ways(p), NEW k \in 1 .. w.m
    PROVE  \E s \in MetIn(p[w.c[k]]) : Ahead(s, w.c, w.m, k)
<1>1. w.m \in Nat /\ Way(p, w.c, w.m)
  BY ProgramAssumption DEF Ways
<1>2. CASE k = w.m
  BY <1>1, <1>2 DEF Way, Ahead
<1>3. CASE k # w.m
  <2>1. k \in 1 .. w.m - 1
    BY <1>1, <1>3
  <2>2. QED
    BY <1>1, <1>3, <2>1 DEF Way, Ahead
<1>4. QED
  BY <1>2, <1>3

(* The innermost call goes on to work w.                                      *)
LEMMA GoesOn ==
    ASSUME NEW p, NEW t, NEW n \in Nat \ {0}, NEW u, NEW x, NEW w,
           Called(p, t, n), Heading(p, t, n),
           MetIn(t[n].work) = {x} \union MetIn(w),
           \A e : ~Enters(x, t[n].dir, e), ~Fatal(x, t[n].dir, n),
           \A i \in 1 .. n : u[i].dir = t[i].dir /\ (i # n => u[i].work = t[i].work),
           u[n].work = w
    PROVE  Called(p, u, n) /\ Heading(p, u, n)
<1>1. \A i \in 1 .. n : MetIn(u[i].work) \subseteq MetIn(t[i].work)
  OBVIOUS
<1>2. Called(p, u, n)
  <2>1. \A i \in 1 .. n - 1 : i \in 1 .. n /\ i + 1 \in 1 .. n
    OBVIOUS
  <2>2. 1 \in 1 .. n
    OBVIOUS
  <2>3. QED
    BY <1>1, <2>1, <2>2 DEF Called
<1>3. ASSUME NEW y \in Ways(p) PROVE \E k \in 1 .. n : Heeds(u, n, y.c, y.m, k)
  <2>1. PICK k \in 1 .. n : Heeds(t, n, y.c, y.m, k)
    BY DEF Heading
  <2>2. PICK s \in MetIn(t[k].work) : Ahead(s, y.c, y.m, k)
    BY <2>1 DEF Heeds
  <2>3. s \in MetIn(u[k].work)
    <3>1. CASE k # n
      BY <3>1
    <3>2. CASE k = n
      <4>1. t[n].dir = y.c[n] /\ n \in 1 .. y.m
        BY <2>1, <3>2 DEF Heeds
      <4>2. s # x
        BY <2>2, <3>2, <4>1 DEF Ahead
      <4>3. QED
        BY <3>2, <4>2
    <3>3. QED
      BY <3>1, <3>2
  <2>4. \A i \in 1 .. k : u[i].dir = y.c[i]
    <3>1. \A i \in 1 .. k : i \in 1 .. n
      OBVIOUS
    <3>2. QED
      BY <2>1, <3>1 DEF Heeds
  <2>5. QED
    BY <2>1, <2>2, <2>3, <2>4 DEF Heeds
<1>4. QED
  BY <1>2, <1>3 DEF Heading

(* Statement x makes the innermost call make another.                         *)
LEMMA GoesDown ==
    ASSUME NEW p, NEW t, NEW n \in Nat \ {0}, NEW u, NEW x, NEW w, NEW d,
           Called(p, t, n), Heading(p, t, n), n < MaxDepth,
           MetIn(t[n].work) = {x} \union MetIn(w), Enters(x, t[n].dir, d),
           \A i \in 1 .. n : u[i].dir = t[i].dir /\ (i # n => u[i].work = t[i].work),
           u[n].work = w, u[n + 1].dir = d, u[n + 1].work = p[d]
    PROVE  Called(p, u, n + 1) /\ Heading(p, u, n + 1)
<1>1. \A i \in 1 .. n : MetIn(u[i].work) \subseteq MetIn(t[i].work)
  OBVIOUS
<1>2. MaxDepth \in Nat /\ NullNode \notin Exists
  BY ProgramAssumption, DirAssumption
<1>3. Called(p, u, n + 1)
  <2>1. n + 1 <= MaxDepth /\ u[1].dir = Top
    BY <1>2 DEF Called
  <2>2. ASSUME NEW i \in 1 .. n + 1
        PROVE  u[i].dir \in Exists /\ MetIn(u[i].work) \subseteq MetIn(p[u[i].dir])
    <3>1. CASE i \in 1 .. n
      BY <1>1, <3>1 DEF Called
    <3>2. CASE i = n + 1
      BY <3>2 DEF Enters
    <3>3. QED
      BY <3>1, <3>2
  <2>3. ASSUME NEW i \in 1 .. (n + 1) - 1
        PROVE  \E s \in MetIn(p[u[i].dir]) : Enters(s, u[i].dir, u[i + 1].dir)
    <3>1. CASE i = n
      <4>1. x \in MetIn(p[t[n].dir])
        BY n \in 1 .. n, SMTT(30) DEF Called
      <4>2. QED
        BY <3>1, <4>1
    <3>2. CASE i # n
      <4>1. i \in 1 .. n /\ i \in 1 .. n - 1 /\ i + 1 \in 1 .. n
        BY <3>2
      <4>2. QED
        BY <4>1 DEF Called
    <3>3. QED
      BY <3>1, <3>2
  <2>4. QED
    BY <2>1, <2>2, <2>3 DEF Called
<1>4. ASSUME NEW y \in Ways(p) PROVE \E k \in 1 .. n + 1 : Heeds(u, n + 1, y.c, y.m, k)
  <2>1. PICK k \in 1 .. n : Heeds(t, n, y.c, y.m, k)
    BY DEF Heading
  <2>2. PICK s \in MetIn(t[k].work) : Ahead(s, y.c, y.m, k)
    BY <2>1 DEF Heeds
  <2>3. /\ k \in 1 .. y.m /\ y.m \in Nat /\ y.m <= MaxDepth
        /\ \A i \in 1 .. k : i \in 1 .. n /\ u[i].dir = y.c[i]
    BY <1>2, <2>1 DEF Heeds, Ways
  <2>4. CASE s \in MetIn(u[k].work)
    <3>1. Heeds(u, n + 1, y.c, y.m, k)
      BY <2>2, <2>3, <2>4 DEF Heeds
    <3>2. QED
      BY <3>1
  <2>5. CASE s \notin MetIn(u[k].work)
    <3>1. k = n /\ s = x
      BY <2>5
    <3>2. t[n].dir = y.c[n]
      BY <2>1, <3>1 DEF Heeds
    <3>3. k # y.m
      <4>1. SUFFICES ASSUME k = y.m PROVE FALSE
        OBVIOUS
      <4>2. Fatal(x, y.c[n], n)
        BY <2>2, <3>1, <4>1 DEF Ahead
      <4>3. QED
        BY <1>2, <3>2, <4>2 DEF Fatal, Enters
    <3>4. y.c[n + 1] = d
      BY <2>2, <3>1, <3>2, <3>3 DEF Ahead, Enters
    <3>5. n + 1 \in 1 .. y.m
      BY <2>3, <3>1, <3>3
    <3>6. \A i \in 1 .. n + 1 : u[i].dir = y.c[i]
      BY <2>3, <3>1, <3>4
    <3>7. \E z \in MetIn(u[n + 1].work) : Ahead(z, y.c, y.m, n + 1)
      BY <3>4, <3>5, WayLeadsOn
    <3>8. Heeds(u, n + 1, y.c, y.m, n + 1)
      BY <3>5, <3>6, <3>7 DEF Heeds
    <3>9. QED
      BY <3>8
  <2>6. QED
    BY <2>4, <2>5
<1>5. QED
  BY <1>3, <1>4 DEF Heading

(* A call that has nothing left to do is not the last one on any way.         *)
LEMMA GoesUp ==
    ASSUME NEW p, NEW t, NEW n \in Nat \ {0}, NEW u,
           Called(p, t, n), Heading(p, t, n), t[n].work = <<>>,
           \A i \in 1 .. n - 1 : u[i].dir = t[i].dir /\ u[i].work = t[i].work
    PROVE  /\ n # 1 => Called(p, u, n - 1) /\ Heading(p, u, n - 1)
           /\ n = 1 => Ways(p) = {}
<1>1. MetIn(t[n].work) = {}
  BY DEF MetIn
<1>2. \A i \in 1 .. n - 1 : i \in 1 .. n
  OBVIOUS
<1>3. ASSUME NEW y \in Ways(p)
      PROVE  \E k \in 1 .. n - 1 : Heeds(t, n, y.c, y.m, k)
  <2>1. PICK k \in 1 .. n : Heeds(t, n, y.c, y.m, k)
    BY DEF Heading
  <2>2. k # n
    BY <1>1, <2>1 DEF Heeds
  <2>3. k \in 1 .. n - 1
    BY <2>2
  <2>4. QED
    BY <2>1, <2>3
<1>4. ASSUME n # 1 PROVE Called(p, u, n - 1)
  <2>1. \A i \in 1 .. (n - 1) - 1 : i \in 1 .. n - 1 /\ i + 1 \in 1 .. n - 1
    OBVIOUS
  <2>2. n - 1 <= MaxDepth /\ 1 \in 1 .. n - 1
    BY <1>4, ProgramAssumption DEF Called
  <2>3. \A i \in 1 .. (n - 1) - 1 : \E s \in MetIn(p[u[i].dir]) : Enters(s, u[i].dir, u[i + 1].dir)
    BY <2>1 DEF Called
  <2>4. QED
    BY <1>2, <2>2, <2>3 DEF Called
<1>5. ASSUME NEW y \in Ways(p), NEW k \in 1 .. n - 1, Heeds(t, n, y.c, y.m, k)
      PROVE  Heeds(u, n - 1, y.c, y.m, k)
  <2>1. \A i \in 1 .. k : i \in 1 .. n - 1
    OBVIOUS
  <2>2. QED
    BY <1>5, <2>1 DEF Heeds
<1>6. Heading(p, u, n - 1)
  BY <1>3, <1>5 DEF Heading
<1>7. QED
  BY <1>3, <1>4, <1>6

(* A fatal statement of the innermost call ends a way.                        *)
LEMMA FatalDooms ==
    ASSUME NEW p, NEW t, NEW n \in Nat \ {0}, Called(p, t, n),
           NEW s \in MetIn(t[n].work), Fatal(s, t[n].dir, n)
    PROVE  Doomed(p)
<1> DEFINE c == [i \in 1 .. n |-> t[i].dir]
<1>1. n \in 1 .. MaxDepth
  BY ProgramAssumption DEF Called
<1>2. c \in [1 .. n -> Exists]
  BY DEF Called
<1>3. c[1] = Top
  BY DEF Called
<1>4. \A i \in 1 .. n - 1 : \E x \in MetIn(p[c[i]]) : Enters(x, c[i], c[i + 1])
  <2>1. \A i \in 1 .. n - 1 : i \in 1 .. n /\ i + 1 \in 1 .. n
    OBVIOUS
  <2>2. QED
    BY <2>1 DEF Called
<1>5. \E x \in MetIn(p[c[n]]) : Fatal(x, c[n], n)
  <2>1. c[n] = t[n].dir /\ s \in MetIn(p[t[n].dir])
    BY DEF Called
  <2> HIDE DEF c
  <2>2. QED
    BY <2>1
<1> HIDE DEF c
<1>6. Way(p, c, n)
  BY <1>3, <1>4, <1>5 DEF Way
<1>7. QED
  BY <1>1, <1>2, <1>6 DEF Doomed

(* What the calls are, as long as build() goes on.                            *)
Underway == Called(program, stack, Len(stack)) /\ Heading(program, stack, Len(stack))

(* The innermost call goes on to work w, past a statement that is not fatal   *)
(* and calls nothing.                                                         *)
LEMMA StaysUnderway ==
    ASSUME StackOK, Underway, Current.work # <<>>, NEW w, NEW x, stack' = Continue(w, x),
           MetIn(Current.work) = {Statement} \union MetIn(w),
           Statement.kind # "subdir" \/ Target \notin Exists,
           Statement.kind \notin {"assign", "subdir"} \/ Target # NullNode,
           program' = program
    PROVE  Underway'
<1> DEFINE n == Len(stack)
           u == stack'
<1>1. n \in Nat \ {0} /\ Frames(u, n) /\ Current = stack[n]
  BY ContinueFrames DEF Frames, Current
<1>2. \A i \in 1 .. n : u[i] = IF i = n THEN Grown(Current, w, x) ELSE stack[i]
  BY ContinueFrames
<1>3. Grown(Current, w, x).dir = Current.dir /\ Grown(Current, w, x).work = w
  BY DEF Grown
<1>4. (\A i \in 1 .. n : u[i].dir = stack[i].dir /\ (i # n => u[i].work = stack[i].work)) /\ u[n].work = w
  BY <1>1, <1>2, <1>3
<1>5. (\A e : ~Enters(Statement, Current.dir, e)) /\ ~Fatal(Statement, Current.dir, n)
  BY DEF Enters, Fatal, Target
<1>6. Called(program, u, n) /\ Heading(program, u, n)
  <2> HIDE DEF n, u
  <2>1. Called(program, stack, n) /\ Heading(program, stack, n)
    BY DEF Underway, n
  <2>2. QED
    BY <1>1, <1>4, <1>5, <2>1, GoesOn
<1>7. QED
  BY <1>1, <1>6 DEF Underway, Frames

LEMMA EntersUnderway ==
    ASSUME StackOK, Underway, EnterSubdir, MetIn(Current.work) = {Statement} \union MetIn(Tail(Current.work))
    PROVE  Underway'
<1> DEFINE n == Len(stack)
           u == stack'
           w == Tail(Current.work)
           x == <<Subdir(Statement.arg)>>
<1>1. /\ n \in Nat \ {0} /\ Frames(u, n + 1) /\ Current = stack[n]
      /\ \A i \in 1 .. n : u[i] = Continue(w, x)[i]
      /\ u[n + 1] = Frame(Target)
  BY StackFrames, EnterFrames DEF Frames, Current
<1>2. Enters(Statement, Current.dir, Target) /\ n < MaxDepth /\ program' = program
  BY DEF EnterSubdir, Analyse, Enters, Target
<1>3. u[n + 1].dir = Target /\ u[n + 1].work = program[Target]
  BY <1>1 DEF Frame
<1> HIDE DEF w, x
<1>4. \A i \in 1 .. n : u[i] = IF i = n THEN Grown(Current, w, x) ELSE stack[i]
  BY <1>1, ContinueFrames
<1>5. Grown(Current, w, x).dir = Current.dir /\ Grown(Current, w, x).work = w
  BY DEF Grown
<1>6. (\A i \in 1 .. n : u[i].dir = stack[i].dir /\ (i # n => u[i].work = stack[i].work)) /\ u[n].work = w
  BY <1>1, <1>4, <1>5
<1>7. Called(program, u, n + 1) /\ Heading(program, u, n + 1)
  <2>1. Called(program, stack, n) /\ Heading(program, stack, n)
    BY DEF Underway
  <2>2. MetIn(stack[n].work) = {Statement} \union MetIn(w)
    BY <1>1 DEF w
  <2> HIDE DEF n, u
  <2>3. QED
    BY <1>1, <1>2, <1>3, <1>6, <2>1, <2>2, GoesDown
<1>8. QED
  BY <1>1, <1>2, <1>7 DEF Underway, Frames

LEMMA LeavesUnderway ==
    ASSUME StackOK, Underway, Return
    PROVE  /\ Len(stack) # 1 => Underway'
           /\ Len(stack) = 1 => ~Doomed(program)
<1> DEFINE n == Len(stack)
           u == stack'
<1>1. /\ n \in Nat \ {0} /\ Current = stack[n] /\ Current.work = <<>> /\ program' = program
      /\ Called(program, stack, n) /\ Heading(program, stack, n)
  BY StackFrames DEF Frames, Current, Return, Underway
<1>2. CASE n # 1
  <2>1. n > 1
    BY <1>1, <1>2
  <2>2. Frames(u, n - 1) /\ \A i \in 1 .. n - 1 : u[i] = IF i = n - 1 THEN Received ELSE stack[i]
    BY <2>1, ReturnFrames
  <2>3. Received.dir = stack[n - 1].dir /\ Received.work = stack[n - 1].work
    BY DEF Received, Caller
  <2>4. \A i \in 1 .. n - 1 : u[i].dir = stack[i].dir /\ u[i].work = stack[i].work
    BY <2>2, <2>3
  <2>5. Called(program, u, n - 1) /\ Heading(program, u, n - 1)
    <3> HIDE DEF n, u
    <3>1. QED
      BY <1>1, <1>2, <2>4, GoesUp
  <2>6. QED
    BY <1>1, <1>2, <2>2, <2>5 DEF Underway, Frames
<1>3. CASE n = 1
  <2>1. \A i \in 1 .. n - 1 : stack[i].dir = stack[i].dir /\ stack[i].work = stack[i].work
    OBVIOUS
  <2>2. Ways(program) = {}
    <3> HIDE DEF n
    <3>1. QED
      BY <1>1, <1>3, <2>1, GoesUp
  <2>3. QED
    BY <1>3, <2>2, DoomedHasWay
<1>4. QED
  BY <1>2, <1>3

(* Every project that leads back into a directory that is being built, and    *)
(* every one with a call or an assignment whose name is a null node, ends the *)
(* process, no matter when build() comes to it; every other one that the      *)
(* machine stack has room for is built to the end.  It holds of all projects, *)
(* whatever their calls lead to (symbol_tree.vala:136-154).                   *)
THEOREM BuildSurvives == Spec => []DiesIffDoomed
<1> DEFINE Inv == StackOK /\ (status = "building" => Underway) /\ DiesIffDoomed
<1>1. Init => Inv
  <2> SUFFICES ASSUME Init PROVE Inv
    OBVIOUS
  <2>1. StackOK /\ status = "building" /\ stack = <<Frame(Top)>>
    BY StackStarts DEF Init
  <2>2. Len(stack) = 1 /\ stack[1].dir = Top /\ stack[1].work = program[Top]
    BY <2>1 DEF Frame
  <2>3. Called(program, stack, 1)
    BY <2>2, DirAssumption, ProgramAssumption DEF Called
  <2>4. ASSUME NEW w \in Ways(program) PROVE Heeds(stack, 1, w.c, w.m, 1)
    <3>1. 1 \in 1 .. w.m /\ w.c[1] = Top
      BY ProgramAssumption DEF Ways, Way
    <3>2. \E s \in MetIn(program[w.c[1]]) : Ahead(s, w.c, w.m, 1)
      BY <3>1, WayLeadsOn
    <3>3. QED
      BY <2>2, <3>1, <3>2 DEF Heeds
  <2>5. Heading(program, stack, 1)
    BY <2>4 DEF Heading
  <2>6. QED
    BY <2>1, <2>2, <2>3, <2>5 DEF Underway, DiesIffDoomed
<1>2. Inv /\ [Next]_vars => Inv'
  <2> SUFFICES ASSUME Inv, [Next]_vars PROVE Inv'
    OBVIOUS
  <2> DEFINE v == Current.work
             s == Statement
             body == SubSeq(s.body, 2, Len(s.body))
  <2>1. StackOK'
    BY StackStays
  <2>2. ASSUME status' = "building", Underway' PROVE Inv'
    BY <2>1, <2>2 DEF DiesIffDoomed
  <2>3. ASSUME NEW kind, Analyse(kind)
        PROVE  /\ Underway /\ v # <<>> /\ s.kind = kind /\ program' = program
               /\ status = "building" /\ s \in MetIn(v)
               /\ kind \notin {"foreach", "if"} => MetIn(v) = {s} \union MetIn(Tail(v))
               /\ kind = "foreach" => MetIn(v) = {s} \union MetIn(body \o Tail(v))
               /\ kind = "if" => MetIn(v) = {s} \union MetIn(s.body \o Tail(v))
    <3>1. v \in Seq(Stmt) /\ v # <<>> /\ s = Head(v) /\ s.kind = kind
      BY <2>3, StackFrames DEF Analyse, StackOK, Frames, Current, Statement
    <3>2. Underway /\ program' = program /\ status = "building"
      BY <2>3 DEF Analyse
    <3>3. QED
      BY <3>1, <3>2, WorkUnfolds
  <2>4. CASE AnalyseAssignment
    BY <2>2, <2>3, <2>4, StaysUnderway DEF AnalyseAssignment
  <2>5. CASE AnalyseOther
    BY <2>2, <2>3, <2>5, StaysUnderway DEF AnalyseOther
  <2>6. CASE AnalyseForeach
    BY <2>2, <2>3, <2>6, StaysUnderway DEF AnalyseForeach
  <2>7. CASE AnalyseSelection
    BY <2>2, <2>3, <2>7, StaysUnderway DEF AnalyseSelection
  <2>8. CASE SkipSubdir
    BY <2>2, <2>3, <2>8, StaysUnderway, ProgramAssumption, DirAssumption DEF SkipSubdir
  <2>9. CASE MissingSubdir
    BY <2>2, <2>3, <2>9, StaysUnderway, ProgramAssumption DEF MissingSubdir
  <2>10. CASE EnterSubdir
    BY <2>2, <2>3, <2>10, EntersUnderway DEF EnterSubdir
  <2>11. CASE StackOverflow \/ NullNodeCrash
    <3>1. /\ v # <<>> /\ s \in MetIn(v) /\ Underway /\ program' = program /\ status' = "crashed"
          /\ \/ s.kind \in {"assign", "subdir"} /\ Target = NullNode
             \/ s.kind = "subdir" /\ Target \in Exists /\ Len(stack) = MaxDepth
      BY <2>3, <2>11 DEF StackOverflow, NullNodeCrash
    <3>2. Fatal(s, Current.dir, Len(stack))
      BY <3>1 DEF Fatal, Enters, Target
    <3>3. Doomed(program)
      BY <3>1, <3>2, StackFrames, FatalDooms DEF Underway, Frames, Current
    <3>4. QED
      BY <2>1, <3>1, <3>3 DEF DiesIffDoomed
  <2>12. CASE Return
    <3>1. status = "building" /\ Underway /\ program' = program
      BY <2>12 DEF Return
    <3>2. CASE Len(stack) = 1
      <4>1. ~Doomed(program) /\ ~(Len(stack) > 1)
        BY <2>12, <3>1, <3>2, LeavesUnderway
      <4>2. status' = "done"
        BY <2>12, <4>1, Zenon DEF Return
      <4>3. QED
        BY <2>1, <3>1, <4>1, <4>2 DEF DiesIffDoomed
    <3>3. CASE Len(stack) # 1
      <4>1. Underway'
        BY <2>12, <3>1, <3>3, LeavesUnderway
      <4>2. status' = "building"
        BY <2>12, <3>1, <3>3, Zenon DEF Return
      <4>3. QED
        BY <2>2, <4>1, <4>2
    <3>4. QED
      BY <3>2, <3>3
  <2>13. CASE UNCHANGED vars
    BY <2>1, <2>13 DEF vars, Underway, DiesIffDoomed
  <2>14. QED
    BY <2>4, <2>5, <2>6, <2>7, <2>8, <2>9, <2>10, <2>11, <2>12, <2>13 DEF Next
<1>3. Inv => DiesIffDoomed
  OBVIOUS
<1>4. QED
  BY <1>1, <1>2, <1>3, PTL DEF Spec

(* Directories around and among which calls lead, the workspace folder one of *)
(* them: a file that includes its own directory is the least such circle.     *)
Circular(p) ==
    \E S \in SUBSET Exists :
        Top \in S /\ \A d \in S : \E e \in S : \E s \in MetIn(p[d]) : Enters(s, d, e)

LEMMA CircularIsDoomed == \A p : Circular(p) => Doomed(p)
<1> SUFFICES ASSUME NEW p, Circular(p) PROVE Doomed(p)
  OBVIOUS
<1>1. PICK S \in SUBSET Exists :
        Top \in S /\ \A d \in S : \E e \in S : \E s \in MetIn(p[d]) : Enters(s, d, e)
  BY DEF Circular
<1> DEFINE Chain(c, k) ==
             /\ c \in [1 .. k + 1 -> S] /\ c[1] = Top
             /\ \A i \in 1 .. k : \E s \in MetIn(p[c[i]]) : Enters(s, c[i], c[i + 1])
           K == {k \in Nat : \E c : Chain(c, k)}
<1>2. 0 \in K
  <2>1. Chain([i \in 1 .. 0 + 1 |-> Top], 0)
    BY <1>1
  <2>2. QED
    BY <2>1
<1>3. ASSUME NEW k \in Nat, k \in K PROVE k + 1 \in K
  <2>1. PICK c : Chain(c, k)
    BY <1>3
  <2>2. k + 1 \in 1 .. k + 1 /\ c[k + 1] \in S
    BY <2>1
  <2>3. PICK e \in S : \E s \in MetIn(p[c[k + 1]]) : Enters(s, c[k + 1], e)
    BY <1>1, <2>2
  <2> DEFINE h == [i \in 1 .. (k + 1) + 1 |-> IF i \in 1 .. k + 1 THEN c[i] ELSE e]
  <2>4. h \in [1 .. (k + 1) + 1 -> S] /\ h[1] = Top
    BY <2>1
  <2>5. h[(k + 1) + 1] = e /\ \A i \in 1 .. k + 1 : h[i] = c[i]
    OBVIOUS
  <2> HIDE DEF h
  <2>6. ASSUME NEW i \in 1 .. k + 1
        PROVE  \E s \in MetIn(p[h[i]]) : Enters(s, h[i], h[i + 1])
    <3>1. CASE i = k + 1
      BY <2>3, <2>5, <3>1
    <3>2. CASE i # k + 1
      <4>1. i \in 1 .. k /\ i + 1 \in 1 .. k + 1
        BY <3>2
      <4>2. QED
        BY <2>1, <2>5, <4>1
    <3>3. QED
      BY <3>1, <3>2
  <2>7. Chain(h, k + 1)
    BY <2>4, <2>6
  <2> HIDE DEF Chain
  <2>8. QED
    BY <2>7
<1>4. \A k \in Nat : k \in K
  <2> HIDE DEF K
  <2>1. QED
    BY <1>2, <1>3, InductionOnNaturals
<1> DEFINE n == MaxDepth
<1>5. n - 1 \in Nat /\ (n - 1) + 1 = n /\ n \in 1 .. n
  BY ProgramAssumption
<1> HIDE DEF n
<1>6. PICK c : Chain(c, n - 1)
  <2> HIDE DEF Chain
  <2>1. QED
    BY <1>4, <1>5
<1>7. c \in [1 .. n -> S] /\ c \in [1 .. n -> Exists]
  BY <1>5, <1>6
<1>8. \E s \in MetIn(p[c[n]]) : Fatal(s, c[n], n)
  <2>1. PICK e \in S : \E s \in MetIn(p[c[n]]) : Enters(s, c[n], e)
    BY <1>1, <1>5, <1>7
  <2>2. QED
    BY <2>1 DEF Fatal, n
<1>9. Way(p, c, n)
  BY <1>6, <1>8 DEF Way
<1>10. QED
  BY <1>5, <1>7, <1>9 DEF Doomed, n

(* However much room the machine stack has: a project of which a file leads   *)
(* back to itself is never loaded, for nothing keeps build() from a directory *)
(* it is in (symbol_tree.vala:145).                                           *)
THEOREM CircularNeverBuilt == Spec => [](Circular(program) => status # "done")
<1>1. DiesIffDoomed => (Circular(program) => status # "done")
  BY CircularIsDoomed DEF DiesIffDoomed
<1>2. QED
  BY <1>1, BuildSurvives, PTL
-----------------------------------------------------------------------------
(* What a function on the elements of a sequence gathers along it. *)
Gathers(g, T, V) == g \in [T -> Seq(V)]

Image(g, w) == [i \in DOMAIN w |-> g[w[i]]]

LEMMA ImageType ==
    ASSUME NEW V, NEW T, NEW g, Gathers(g, T, V), NEW w \in Seq(T)
    PROVE  /\ Image(g, w) \in Seq(Seq(V)) /\ Len(Image(g, w)) = Len(w)
           /\ \A i \in 1 .. Len(w) : Image(g, w)[i] = g[w[i]]
<1> DEFINE n == Len(w)
<1>1. n \in Nat /\ DOMAIN w = 1 .. n /\ \A i \in 1 .. n : w[i] \in T
  BY LenProperties
<1>2. \A i \in 1 .. n : g[w[i]] \in Seq(V)
  BY <1>1 DEF Gathers
<1>3. Image(g, w) = [i \in 1 .. n |-> g[w[i]]]
  BY <1>1 DEF Image
<1> HIDE DEF n
<1>4. [i \in 1 .. n |-> g[w[i]]] \in Seq(Seq(V))
  BY <1>1, <1>2
<1>5. Len([i \in 1 .. n |-> g[w[i]]]) = n
  BY <1>1, <1>4
<1>6. QED
  BY <1>3, <1>4, <1>5 DEF n

LEMMA GatherIs == \A g, w : Gather(g, w) = FlattenSeq(Image(g, w))
  BY DEF Gather, Image

LEMMA GatherType ==
    ASSUME NEW V, NEW T, NEW g, Gathers(g, T, V), NEW w \in Seq(T)
    PROVE  Gather(g, w) \in Seq(V)
  BY GatherIs, ImageType, FlattenType

LEMMA GatherEmpty == \A g : Gather(g, <<>>) = <<>>
<1>1. ASSUME NEW g PROVE Image(g, <<>>) = <<>>
  BY DEF Image
<1>2. FlattenSeq(<<>>) = <<>>
  BY DEF FlattenSeq
<1>3. QED
  BY <1>1, <1>2, GatherIs

LEMMA GatherConcat ==
    ASSUME NEW V, NEW T, NEW g, Gathers(g, T, V), NEW v \in Seq(T), NEW w \in Seq(T)
    PROVE  Gather(g, v \o w) = Gather(g, v) \o Gather(g, w)
<1> DEFINE a == Image(g, v)
           b == Image(g, w)
           c == Image(g, v \o w)
<1>1. v \o w \in Seq(T) /\ Len(v \o w) = Len(v) + Len(w)
  BY ConcatProperties
<1>2. a \in Seq(Seq(V)) /\ Len(a) = Len(v) /\ \A i \in 1 .. Len(v) : a[i] = g[v[i]]
  BY ImageType
<1>3. b \in Seq(Seq(V)) /\ Len(b) = Len(w) /\ \A i \in 1 .. Len(w) : b[i] = g[w[i]]
  BY ImageType
<1>4. c \in Seq(Seq(V)) /\ Len(c) = Len(v \o w) /\ \A i \in 1 .. Len(v \o w) : c[i] = g[(v \o w)[i]]
  <2> DEFINE u == v \o w
  <2>1. u \in Seq(T)
    BY <1>1
  <2> HIDE DEF u
  <2>2. /\ Image(g, u) \in Seq(Seq(V)) /\ Len(Image(g, u)) = Len(u)
        /\ \A i \in 1 .. Len(u) : Image(g, u)[i] = g[u[i]]
    BY <2>1, ImageType
  <2>3. QED
    BY <2>2 DEF u
<1> HIDE DEF a, b, c
<1>5. /\ a \o b \in Seq(Seq(V)) /\ Len(a \o b) = Len(a) + Len(b)
      /\ \A i \in 1 .. Len(a) + Len(b) : (a \o b)[i] = IF i <= Len(a) THEN a[i] ELSE b[i - Len(a)]
  BY <1>2, <1>3, ConcatProperties, ZenonT(40)
<1>6. ASSUME NEW i \in 1 .. Len(c) PROVE c[i] = (a \o b)[i]
  <2>1. /\ (v \o w)[i] = IF i <= Len(v) THEN v[i] ELSE w[i - Len(v)]
        /\ Len(v) \in Nat /\ Len(w) \in Nat /\ i \in 1 .. Len(v) + Len(w)
    BY <1>1, <1>4, ConcatProperties
  <2>2. (a \o b)[i] = IF i <= Len(v) THEN a[i] ELSE b[i - Len(v)]
    BY <1>2, <1>3, <1>5, <2>1
  <2>3. c[i] = g[(v \o w)[i]]
    BY <1>4
  <2>4. CASE i <= Len(v)
    <3>1. i \in 1 .. Len(v)
      BY <2>1, <2>4
    <3>2. QED
      BY <1>2, <2>1, <2>2, <2>3, <2>4, <3>1
  <2>5. CASE ~(i <= Len(v))
    <3>1. i - Len(v) \in 1 .. Len(w)
      BY <2>1, <2>5
    <3>2. b[i - Len(v)] = g[w[i - Len(v)]]
      BY <1>3, <3>1
    <3>3. QED
      BY <2>1, <2>2, <2>3, <2>5, <3>2
  <2>6. QED
    BY <2>4, <2>5
<1>7. c = a \o b
  <2>1. Len(c) = Len(a \o b)
    BY <1>1, <1>2, <1>3, <1>4, <1>5
  <2>2. QED
    BY <1>4, <1>5, <1>6, <2>1, SeqEqual
<1>8. FlattenSeq(a \o b) = FlattenSeq(a) \o FlattenSeq(b)
  BY <1>2, <1>3, FlattenConcat
<1>9. QED
  BY <1>7, <1>8, GatherIs DEF a, b, c

LEMMA GatherOne ==
    ASSUME NEW V, NEW T, NEW g, Gathers(g, T, V), NEW s \in T
    PROVE  Gather(g, <<s>>) = g[s]
<1> DEFINE x == g[s]
           e == <<>>
<1>1. Image(g, <<s>>) = <<x>>
  BY DEF Image
<1>2. e \in Seq(Seq(V)) /\ x \in Seq(V)
  BY DEF Gathers
<1> HIDE DEF x
<1>3. Append(e, x) = <<x>>
  OBVIOUS
<1>4. FlattenSeq(Append(e, x)) = FlattenSeq(e) \o x
  <2> HIDE DEF e
  <2>1. QED
    BY <1>2, FlattenAppend
<1>5. FlattenSeq(e) = <<>>
  BY <1>2, FlattenType
<1>6. <<>> \o x = x
  BY <1>2, ConcatEmptySeq
<1>7. QED
  BY <1>1, <1>3, <1>4, <1>5, <1>6, GatherIs DEF x

(* Functions that agree on the elements of a sequence. *)
LEMMA GatherLocal ==
    ASSUME NEW T, NEW w \in Seq(T), NEW f, NEW h, \A i \in DOMAIN w : f[w[i]] = h[w[i]]
    PROVE  Gather(f, w) = Gather(h, w)
<1>1. Image(f, w) = Image(h, w)
  BY DEF Image
<1>2. QED
  BY <1>1, GatherIs
-----------------------------------------------------------------------------
(* The statements that the blocks of a project come to. *)

Opening(f, s) == IF s.kind \in {"foreach", "if"} THEN Gather(f, s.body) ELSE <<s>>

Opens(f) == f = [s \in Stmt |-> Opening(f, s)]

(* Blocks that nest finitely deep can be opened. *)
LEMMA OpensExists ==
    ASSUME NEW n, NEW rank, NEW depth, Tame(n, rank, depth)
    PROVE  \E f \in [Stmt -> Seq(Stmt)] : Opens(f)
<1> DEFINE Upto(f, k) == \A s \in Stmt : depth[s] < k => f[s] = Opening(f, s)
           S == {k \in Nat : \E f \in [Stmt -> Seq(Stmt)] : Upto(f, k)}
<1>1. /\ n \in Nat /\ depth \in [Stmt -> Nat] /\ \A s \in Stmt : depth[s] <= n
      /\ \A s \in Stmt : \A i \in DOMAIN s.body : depth[s.body[i]] < depth[s]
  BY DEF Tame, Nesting
<1>2. \A s \in Stmt : s.body \in Seq(Stmt)
  BY StmtAssumption
<1>3. 0 \in S
  <2> DEFINE f == [s \in Stmt |-> <<>>]
  <2>1. f \in [Stmt -> Seq(Stmt)] /\ Upto(f, 0)
    BY <1>1
  <2>2. QED
    BY <2>1
<1>4. ASSUME NEW k \in Nat, k \in S PROVE k + 1 \in S
  <2>1. PICK f \in [Stmt -> Seq(Stmt)] : Upto(f, k)
    BY <1>4
  <2> DEFINE h == [s \in Stmt |-> Opening(f, s)]
  <2>2. h \in [Stmt -> Seq(Stmt)]
    <3>1. ASSUME NEW s \in Stmt PROVE Opening(f, s) \in Seq(Stmt)
      <4>1. Gathers(f, Stmt, Stmt)
        BY DEF Gathers
      <4>2. Gather(f, s.body) \in Seq(Stmt)
        BY <1>2, <4>1, GatherType
      <4>3. QED
        BY <4>2 DEF Opening
    <3>2. QED
      BY <3>1
  <2>3. ASSUME NEW s \in Stmt, depth[s] < k + 1
        PROVE  h[s] = Opening(h, s)
    <3>1. ASSUME NEW i \in DOMAIN s.body PROVE f[s.body[i]] = h[s.body[i]]
      <4>1. s.body[i] \in Stmt
        BY <1>2
      <4>2. depth[s.body[i]] < k
        BY <1>1, <2>3, <4>1
      <4>3. QED
        BY <2>1, <4>1, <4>2
    <3>2. Gather(f, s.body) = Gather(h, s.body)
      <4> HIDE DEF h
      <4>1. QED
        BY <1>2, <3>1, GatherLocal
    <3>3. QED
      BY <3>2 DEF Opening
  <2>4. Upto(h, k + 1)
    BY <2>3
  <2> HIDE DEF h
  <2>5. QED
    BY <2>2, <2>4
<1>5. \A k \in Nat : k \in S
  <2> HIDE DEF S
  <2>1. QED
    BY <1>3, <1>4, InductionOnNaturals
<1>6. PICK f \in [Stmt -> Seq(Stmt)] : Upto(f, n + 1)
  <2>1. n + 1 \in S
    <3> HIDE DEF S
    <3>1. QED
      BY <1>1, <1>5
  <2> HIDE DEF Upto
  <2>2. QED
    BY <2>1
<1>7. \A s \in Stmt : f[s] = Opening(f, s)
  BY <1>1, <1>6
<1>8. f = [s \in Stmt |-> Opening(f, s)]
  <2> HIDE DEF Upto
  <2>1. QED
    BY <1>6, <1>7
<1>9. QED
  BY <1>8 DEF Opens

LEMMA OpenedUnfolds ==
    ASSUME NEW n, NEW rank, NEW depth, Tame(n, rank, depth)
    PROVE  /\ Gathers(Opened, Stmt, Stmt)
           /\ \A s \in Stmt : Opened[s] = Opening(Opened, s)
<1> DEFINE F == CHOOSE f : Opens(f)
<1>1. Opened = F
  BY DEF Opened, Opens, Opening
<1>2. Opens(F)
  BY OpensExists
<1> HIDE DEF F
<1>3. F = [s \in Stmt |-> Opening(F, s)]
  BY <1>2 DEF Opens
<1>4. \A s \in Stmt : F[s] = Opening(F, s)
  BY <1>3
<1>5. Stmt \subseteq {s \in Stmt : F[s] \in Seq(Stmt)}
  <2> DEFINE S == {s \in Stmt : F[s] \in Seq(Stmt)}
             h == [s \in Stmt |-> IF s \in S THEN F[s] ELSE <<>>]
  <2>1. Gathers(h, Stmt, Stmt)
    BY DEF Gathers
  <2>2. /\ depth \in [Stmt -> Nat]
        /\ \A s \in Stmt : \A i \in DOMAIN s.body : depth[s.body[i]] < depth[s]
    BY DEF Tame, Nesting
  <2>3. ASSUME NEW t \in Stmt, \A u \in Stmt : depth[u] < depth[t] => u \in S
        PROVE  t \in S
    <3>1. t.body \in Seq(Stmt)
      BY StmtAssumption
    <3>2. ASSUME NEW i \in DOMAIN t.body PROVE F[t.body[i]] = h[t.body[i]]
      <4>1. t.body[i] \in Stmt
        BY <3>1
      <4>2. t.body[i] \in S
        BY <2>2, <2>3, <4>1
      <4>3. QED
        BY <4>1, <4>2
    <3> HIDE DEF h
    <3>3. Gather(F, t.body) = Gather(h, t.body)
      BY <3>1, <3>2, GatherLocal
    <3>4. Gather(h, t.body) \in Seq(Stmt)
      BY <2>1, <3>1, GatherType
    <3>5. Opening(F, t) \in Seq(Stmt)
      BY <3>3, <3>4 DEF Opening
    <3>6. QED
      BY <1>4, <3>5
  <2> HIDE DEF S
  <2>4. Stmt \subseteq S
    BY <2>2, <2>3, InductionByDepth
  <2>5. QED
    BY <2>4 DEF S
<1>6. Gathers(F, Stmt, Stmt)
  BY <1>3, <1>5 DEF Gathers
<1>7. QED
  BY <1>1, <1>4, <1>6
-----------------------------------------------------------------------------
(* The trees of a project. *)

(* What the statements add to a tree in directory d, when f are the trees of  *)
(* the directories.                                                           *)
Datas(f, d) == [s \in Stmt |-> DataOf(s, d, f[Resolve[d][s.arg]])]
Children(d) == [s \in Stmt |-> ChildOf(s, d)]

Building(f, p, d) ==
    [dir        |-> d,
     datas      |-> Gather(Datas(f, d), Gather(Opened, p[d])),
     childFiles |-> <<d>> \o Gather(Children(d), Gather(Opened, p[d]))]

Builds(f, p) == f = [d \in Dir |-> Building(f, p, d)]

LEMMA BuildingLocal ==
    ASSUME NEW f, NEW h, NEW p, NEW d \in Dir,
           \A s \in Stmt : s.kind = "subdir" /\ Resolve[d][s.arg] \in Exists =>
                             f[Resolve[d][s.arg]] = h[Resolve[d][s.arg]]
    PROVE  Building(f, p, d) = Building(h, p, d)
<1>1. \A s \in Stmt : DataOf(s, d, f[Resolve[d][s.arg]]) = DataOf(s, d, h[Resolve[d][s.arg]])
  BY DEF DataOf
<1>2. Datas(f, d) = Datas(h, d)
  BY <1>1 DEF Datas
<1>3. QED
  BY <1>2 DEF Building

(* Projects whose subdir() calls lead strictly down have trees. *)
LEMMA BuildsExists ==
    ASSUME NEW n, NEW rank, NEW depth, Tame(n, rank, depth), NEW p
    PROVE  \E f : Builds(f, p)
<1> DEFINE Upto(f, k) == \A d \in Dir : n - rank[d] < k => f[d] = Building(f, p, d)
           S == {k \in Nat : \E f : Upto(f, k)}
<1>1. /\ n \in Nat /\ rank \in [Dir -> Nat] /\ \A d \in Dir : rank[d] <= n
      /\ \A d \in Dir, s \in Stmt :
            s.kind = "subdir" /\ Resolve[d][s.arg] \in Exists => rank[Resolve[d][s.arg]] > rank[d]
  BY DEF Tame, Down
<1>2. 0 \in S
  BY <1>1
<1>3. ASSUME NEW k \in Nat, k \in S PROVE k + 1 \in S
  <2>1. PICK f : Upto(f, k)
    BY <1>3
  <2> DEFINE h == [d \in Dir |-> Building(f, p, d)]
  <2>2. ASSUME NEW d \in Dir, n - rank[d] < k + 1
        PROVE  h[d] = Building(h, p, d)
    <3>1. ASSUME NEW s \in Stmt, s.kind = "subdir", Resolve[d][s.arg] \in Exists
          PROVE  f[Resolve[d][s.arg]] = h[Resolve[d][s.arg]]
      <4> DEFINE t == Resolve[d][s.arg]
      <4>1. t \in Dir /\ rank[t] > rank[d]
        BY <1>1, <3>1, DirAssumption
      <4>2. n - rank[t] < k
        BY <1>1, <2>2, <4>1
      <4> HIDE DEF t
      <4>3. f[t] = Building(f, p, t)
        BY <2>1, <4>1, <4>2
      <4>4. h[t] = Building(f, p, t)
        BY <4>1
      <4>5. QED
        BY <4>3, <4>4 DEF t
    <3>2. h[d] = Building(f, p, d)
      OBVIOUS
    <3> HIDE DEF h
    <3>3. Building(f, p, d) = Building(h, p, d)
      BY <3>1, BuildingLocal
    <3>4. QED
      BY <3>2, <3>3
  <2>3. Upto(h, k + 1)
    BY <2>2
  <2> HIDE DEF h, Upto
  <2>4. QED
    BY <2>3
<1>4. \A k \in Nat : k \in S
  <2> HIDE DEF S
  <2>1. QED
    BY <1>2, <1>3, InductionOnNaturals
<1>5. PICK f : Upto(f, n + 1)
  <2>1. n + 1 \in S
    <3> HIDE DEF S
    <3>1. QED
      BY <1>1, <1>4
  <2> HIDE DEF Upto
  <2>2. QED
    BY <2>1
<1> DEFINE h == [d \in Dir |-> f[d]]
<1>6. \A d \in Dir : f[d] = Building(f, p, d)
  <2>1. \A d \in Dir : n - rank[d] < n + 1
    <3>1. n \in Nat /\ \A d \in Dir : rank[d] \in Nat
      BY <1>1
    <3>2. \A r \in Nat : n - r < n + 1
      BY <3>1
    <3>3. QED
      BY <3>1, <3>2, Zenon
  <2>2. QED
    BY <1>5, <2>1, Zenon
<1>7. ASSUME NEW d \in Dir PROVE h[d] = Building(h, p, d)
  <2>1. ASSUME NEW s \in Stmt, s.kind = "subdir", Resolve[d][s.arg] \in Exists
        PROVE  f[Resolve[d][s.arg]] = h[Resolve[d][s.arg]]
    BY <2>1, DirAssumption
  <2>2. h[d] = f[d]
    OBVIOUS
  <2> HIDE DEF h
  <2>3. Building(f, p, d) = Building(h, p, d)
    BY <2>1, BuildingLocal
  <2>4. QED
    BY <1>6, <2>2, <2>3
<1>8. h = [d \in Dir |-> h[d]]
  OBVIOUS
<1> HIDE DEF h
<1>9. h = [d \in Dir |-> Building(h, p, d)]
  BY <1>7, <1>8
<1>10. QED
  BY <1>9 DEF Builds

LEMMA TreesUnfold ==
    ASSUME NEW n, NEW rank, NEW depth, Tame(n, rank, depth), NEW p, NEW d \in Dir
    PROVE  TreesOf(p)[d] = Building(TreesOf(p), p, d)
<1> DEFINE F == CHOOSE f : Builds(f, p)
<1>1. TreesOf(p) = F
  BY DEF TreesOf, Builds, Building, Datas, Children
<1>2. Builds(F, p)
  BY BuildsExists
<1> HIDE DEF F
<1>3. F = [c \in Dir |-> Building(F, p, c)]
  BY <1>2 DEF Builds
<1>4. F[d] = Building(F, p, d)
  BY <1>3
<1>5. QED
  BY <1>1, <1>4
-----------------------------------------------------------------------------
(* What the statements that a call has yet to analyse will add. *)

Rest(g, w) == Gather(g, Gather(Opened, w))

(* The hypotheses of the lemmas on it.                                        *)
Adds(g, V) ==
    /\ Gathers(Opened, Stmt, Stmt) /\ Gathers(g, Stmt, V)
    /\ \A s \in Stmt : Opened[s] = Opening(Opened, s)

LEMMA RestConcat ==
    ASSUME NEW V, NEW g, Adds(g, V), NEW v \in Seq(Stmt), NEW w \in Seq(Stmt)
    PROVE  /\ Rest(g, v) \in Seq(V)
           /\ Rest(g, v \o w) = Rest(g, v) \o Rest(g, w)
<1>1. Gather(Opened, v) \in Seq(Stmt) /\ Gather(Opened, w) \in Seq(Stmt)
  BY GatherType DEF Adds
<1>2. Gather(Opened, v \o w) = Gather(Opened, v) \o Gather(Opened, w)
  BY GatherConcat DEF Adds
<1> DEFINE x == Gather(Opened, v)
           y == Gather(Opened, w)
<1>3. x \in Seq(Stmt) /\ y \in Seq(Stmt)
  BY <1>1
<1>4. Gathers(g, Stmt, V)
  BY DEF Adds
<1> HIDE DEF x, y
<1>5. Gather(g, x \o y) = Gather(g, x) \o Gather(g, y) /\ Gather(g, x) \in Seq(V)
  BY <1>3, <1>4, GatherConcat, GatherType, SMTT(30)
<1>6. QED
  BY <1>2, <1>5 DEF Rest, x, y

LEMMA RestOne ==
    ASSUME NEW V, NEW g, Adds(g, V), NEW s \in Stmt
    PROVE  /\ s.kind \notin {"foreach", "if"} => Rest(g, <<s>>) = g[s]
           /\ s.kind \in {"foreach", "if"} => Rest(g, <<s>>) = Rest(g, s.body)
<1>1. Gather(Opened, <<s>>) = Opening(Opened, s)
  BY GatherOne DEF Adds
<1>2. s.kind \notin {"foreach", "if"} => Gather(g, <<s>>) = g[s]
  BY GatherOne DEF Adds
<1>3. QED
  BY <1>1, <1>2 DEF Rest, Opening

(* The first of the statements to analyse, and the others. *)
LEMMA RestUnfolds ==
    ASSUME NEW V, NEW g, Adds(g, V), NEW w \in Seq(Stmt), w # <<>>
    PROVE  LET s == Head(w)
           IN /\ s.kind \notin {"foreach", "if"} => Rest(g, w) = g[s] \o Rest(g, Tail(w))
              /\ s.kind \in {"foreach", "if"} => Rest(g, w) = Rest(g, s.body \o Tail(w))
<1> DEFINE s == Head(w)
           one == <<s>>
           t == Tail(w)
<1>1. s \in Stmt /\ t \in Seq(Stmt) /\ one \in Seq(Stmt) /\ w = one \o t
  BY HeadAndTail
<1>2. s.body \in Seq(Stmt)
  BY <1>1, StmtAssumption
<1>3. /\ s.kind \notin {"foreach", "if"} => Rest(g, one) = g[s]
      /\ s.kind \in {"foreach", "if"} => Rest(g, one) = Rest(g, s.body)
  <2> HIDE DEF s
  <2>1. QED
    BY <1>1, RestOne
<1> HIDE DEF s, one, t
<1>4. Rest(g, w) = Rest(g, one) \o Rest(g, t)
  BY <1>1, RestConcat
<1>5. Rest(g, s.body \o t) = Rest(g, s.body) \o Rest(g, t)
  BY <1>1, <1>2, RestConcat
<1>6. QED
  BY <1>3, <1>4, <1>5 DEF s, t

(* What build() passes over of a foreach adds nothing. *)
LEMMA RestOfForeach ==
    ASSUME NEW V, NEW g, Adds(g, V), NEW body \in Seq(Stmt), NEW t \in Seq(Stmt),
           body # <<>> => Head(body).kind = "other",
           \A s \in Stmt : s.kind = "other" => g[s] = <<>>
    PROVE  /\ SubSeq(body, 2, Len(body)) \in Seq(Stmt)
           /\ Rest(g, SubSeq(body, 2, Len(body)) \o t) = Rest(g, body \o t)
<1> DEFINE b == SubSeq(body, 2, Len(body))
<1>1. CASE body = <<>>
  <2>1. b = <<>>
    BY <1>1, SubSeqEmpty
  <2>2. QED
    BY <1>1, <2>1
<1>2. CASE body # <<>>
  <2>1. Head(body) \in Stmt /\ Tail(body) \in Seq(Stmt) /\ b = Tail(body)
    BY <1>2, HeadAndTail, TailIsSubSeq
  <2> HIDE DEF b
  <2>2. Rest(g, body) = g[Head(body)] \o Rest(g, b)
    BY <1>2, <2>1, RestUnfolds
  <2>3. g[Head(body)] = <<>>
    BY <1>2, <2>1
  <2>4. Rest(g, b) \in Seq(V)
    BY <2>1, RestConcat
  <2>5. Rest(g, body) = Rest(g, b)
    BY <2>2, <2>3, <2>4, ConcatEmptySeq
  <2>6. Rest(g, body \o t) = Rest(g, body) \o Rest(g, t)
    BY RestConcat
  <2>7. Rest(g, b \o t) = Rest(g, b) \o Rest(g, t)
    BY <2>1, RestConcat
  <2>8. QED
    BY <2>1, <2>5, <2>6, <2>7 DEF b
<1>3. QED
  BY <1>1, <1>2
-----------------------------------------------------------------------------
(* What a call has collected, what it waits for and what it has yet to        *)
(* analyse are the tree of its directory.                                     *)

Values(p) ==
    {Symbol(a, d) : a \in Arg, d \in Dir} \union {Subdir(a) : a \in Arg}
    \union {Tree(TreesOf(p)[d]) : d \in Dir}

DatasIn(p, d) == Datas(TreesOf(p), d)

LEMMA DatasAdd ==
    ASSUME NEW n, NEW rank, NEW depth, Tame(n, rank, depth), NEW p, NEW d \in Dir
    PROVE  /\ Adds(DatasIn(p, d), Values(p)) /\ Adds(Children(d), Dir)
           /\ \A s \in Stmt : s.kind = "other" => DatasIn(p, d)[s] = <<>> /\ Children(d)[s] = <<>>
<1>1. \A s \in Stmt : s.arg \in Arg
  BY StmtAssumption
<1>2. ASSUME NEW s \in Stmt, NEW t
      PROVE  t = TreesOf(p)[Resolve[d][s.arg]] => DataOf(s, d, t) \in Seq(Values(p))
  <2>1. SUFFICES ASSUME t = TreesOf(p)[Resolve[d][s.arg]] PROVE DataOf(s, d, t) \in Seq(Values(p))
    OBVIOUS
  <2>2. Symbol(s.arg, d) \in Values(p) /\ Subdir(s.arg) \in Values(p)
    BY <1>1 DEF Values
  <2>3. Resolve[d][s.arg] \in Exists => Tree(t) \in Values(p)
    BY <2>1, DirAssumption DEF Values
  <2> HIDE DEF Symbol, Subdir, Tree, Values
  <2>4. QED
    BY <2>2, <2>3 DEF DataOf
<1>3. Gathers(DatasIn(p, d), Stmt, Values(p))
  BY <1>2 DEF Gathers, DatasIn, Datas
<1>4. Gathers(Children(d), Stmt, Dir)
  BY DirAssumption DEF Gathers, Children, ChildOf
<1>5. \A s \in Stmt : s.kind = "other" => DatasIn(p, d)[s] = <<>> /\ Children(d)[s] = <<>>
  BY DEF DatasIn, Datas, DataOf, Children, ChildOf
<1>6. QED
  BY <1>3, <1>4, <1>5, OpenedUnfolds DEF Adds

(* Frame f is of project p; x are the data and y the child_files that it      *)
(* waits for.                                                                 *)
Whole(p, f, x, y) ==
    /\ f.dir \in Dir /\ f.work \in Seq(Stmt)
    /\ f.datas \in Seq(Values(p)) /\ f.childFiles \in Seq(Dir)
    /\ (f.datas \o x) \o Rest(DatasIn(p, f.dir), f.work) = TreesOf(p)[f.dir].datas
    /\ (f.childFiles \o y) \o Rest(Children(f.dir), f.work) = TreesOf(p)[f.dir].childFiles

Sequences4(V, a, x, y, b) == a \in Seq(V) /\ x \in Seq(V) /\ y \in Seq(V) /\ b \in Seq(V)

LEMMA FourConcat ==
    ASSUME NEW V, NEW a, NEW x, NEW y, NEW b, Sequences4(V, a, x, y, b)
    PROVE  ((a \o x) \o y) \o b = (a \o <<>>) \o ((x \o y) \o b)
<1> USE DEF Sequences4
<1>1. a \o x \in Seq(V) /\ y \o b \in Seq(V)
  BY ConcatProperties
<1>2. ASSUME NEW q \in Seq(V) PROVE (a \o x) \o q = a \o (x \o q)
  BY ConcatAssociative, SMTT(30)
<1>3. ASSUME NEW q \in Seq(V) PROVE (q \o y) \o b = q \o (y \o b)
  BY ConcatAssociative, SMTT(30)
<1>4. (x \o y) \o b = x \o (y \o b)
  BY <1>3
<1>5. (a \o x) \o (y \o b) = a \o (x \o (y \o b))
  BY <1>1, <1>2, Zenon
<1>6. ((a \o x) \o y) \o b = (a \o x) \o (y \o b)
  BY <1>1, <1>3, Zenon
<1>7. a \o <<>> = a
  BY ConcatEmptySeq
<1>8. QED
  BY <1>4, <1>5, <1>6, <1>7, Zenon

(* Of what a call in directory d has yet to analyse, now v and then w, x is   *)
(* collected, z and y are waited for.                                         *)
Splits(p, d, v, w, x, z, y) ==
    /\ w \in Seq(Stmt) /\ x \in Seq(Values(p)) /\ z \in Seq(Values(p)) /\ y \in Seq(Dir)
    /\ Rest(DatasIn(p, d), v) = (x \o z) \o Rest(DatasIn(p, d), w)
    /\ Rest(Children(d), v) = y \o Rest(Children(d), w)

(* The call goes on. *)
LEMMA WholeContinues ==
    ASSUME NEW n, NEW rank, NEW depth, Tame(n, rank, depth), NEW p,
           NEW f, Whole(p, f, <<>>, <<>>), NEW w, NEW x, NEW z, NEW y, Splits(p, f.dir, f.work, w, x, z, y)
    PROVE  Whole(p, Grown(f, w, x), z, y)
<1> DEFINE d == f.dir
           g == DatasIn(p, d)
           h == Children(d)
           e == Grown(f, w, x)
<1>1. /\ d \in Dir /\ f.datas \in Seq(Values(p)) /\ f.childFiles \in Seq(Dir)
      /\ w \in Seq(Stmt) /\ x \in Seq(Values(p)) /\ z \in Seq(Values(p)) /\ y \in Seq(Dir)
  BY DEF Whole, Splits
<1>2. e.dir = d /\ e.work = w /\ e.datas = f.datas \o x /\ e.childFiles = f.childFiles
  BY DEF Grown
<1>3. Rest(g, w) \in Seq(Values(p)) /\ Rest(h, w) \in Seq(Dir)
  <2> HIDE DEF d, g, h
  <2>1. Adds(g, Values(p)) /\ Adds(h, Dir)
    BY <1>1, DatasAdd DEF g, h
  <2>2. QED
    BY <1>1, <2>1, RestConcat
<1>4. (e.datas \o z) \o Rest(g, w) = TreesOf(p)[d].datas
  <2> DEFINE r == Rest(g, w)
             a == f.datas
  <2>1. Sequences4(Values(p), a, x, z, r)
    BY <1>1, <1>3 DEF Sequences4
  <2>2. ((a \o x) \o z) \o r = (a \o <<>>) \o ((x \o z) \o r)
    <3> HIDE DEF a, r
    <3>1. QED
      BY <2>1, FourConcat
  <2>3. (a \o <<>>) \o Rest(g, f.work) = TreesOf(p)[d].datas
    BY DEF Whole
  <2>4. Rest(g, f.work) = (x \o z) \o r
    BY DEF Splits
  <2> HIDE DEF a, r, g, d
  <2>5. QED
    BY <1>2, <2>2, <2>3, <2>4, Zenon DEF a, r
<1>5. (e.childFiles \o y) \o Rest(h, w) = TreesOf(p)[d].childFiles
  <2> DEFINE r == Rest(h, w)
             a == f.childFiles
  <2>1. a \in Seq(Dir) /\ y \in Seq(Dir) /\ r \in Seq(Dir)
    BY <1>1, <1>3
  <2>2. (a \o y) \o r = a \o (y \o r)
    <3> HIDE DEF a, r
    <3>1. QED
      BY <2>1, ConcatAssociative
  <2>3. (a \o <<>>) \o Rest(h, f.work) = TreesOf(p)[d].childFiles
    BY DEF Whole
  <2>4. a \o <<>> = a
    BY <2>1, ConcatEmptySeq
  <2>5. Rest(h, f.work) = y \o r
    BY DEF Splits
  <2> HIDE DEF a, r, h, d
  <2>6. QED
    BY <1>2, <2>2, <2>3, <2>4, <2>5, Zenon DEF a, r
<1>6. e.datas \in Seq(Values(p))
  BY <1>1, <1>2, ConcatProperties
<1> HIDE DEF e
<1>7. QED
  BY <1>1, <1>2, <1>4, <1>5, <1>6 DEF Whole, e

(* A call starts with nothing collected. *)
LEMMA WholeStarts ==
    ASSUME NEW n, NEW rank, NEW depth, Tame(n, rank, depth), NEW p, NEW d \in Dir, p[d] \in Seq(Stmt),
           NEW f, f = [dir |-> d, work |-> p[d], datas |-> <<>>, childFiles |-> <<d>>]
    PROVE  Whole(p, f, <<>>, <<>>)
<1> DEFINE g == DatasIn(p, d)
           h == Children(d)
           one == <<d>>
<1>1. Adds(g, Values(p)) /\ Adds(h, Dir)
  BY DatasAdd
<1>2. TreesOf(p)[d] = Building(TreesOf(p), p, d)
  BY TreesUnfold
<1>3. TreesOf(p)[d].datas = Rest(g, p[d]) /\ TreesOf(p)[d].childFiles = one \o Rest(h, p[d])
  BY <1>2 DEF Building, Rest, DatasIn
<1>4. /\ f.dir = d /\ f.work = p[d] /\ f.datas = <<>> /\ f.childFiles = one
      /\ one \in Seq(Dir) /\ <<>> \in Seq(Values(p))
  OBVIOUS
<1> HIDE DEF g, h, one
<1>5. Rest(g, p[d]) \in Seq(Values(p)) /\ Rest(h, p[d]) \in Seq(Dir)
  BY <1>1, RestConcat
<1>6. /\ (f.datas \o <<>>) \o Rest(g, p[d]) = Rest(g, p[d])
      /\ f.childFiles \o <<>> = one
  BY <1>4, <1>5, ConcatEmptySeq
<1>7. QED
  BY <1>3, <1>4, <1>6 DEF Whole, g, h

(* A call that has nothing to analyse any more has the tree. *)
LEMMA WholeEnds ==
    ASSUME NEW n, NEW rank, NEW depth, Tame(n, rank, depth), NEW p,
           NEW f, Whole(p, f, <<>>, <<>>), f.work = <<>>
    PROVE  [dir |-> f.dir, datas |-> f.datas, childFiles |-> f.childFiles] = TreesOf(p)[f.dir]
<1> DEFINE d == f.dir
           t == TreesOf(p)[d]
<1>1. /\ d \in Dir /\ f.datas \in Seq(Values(p)) /\ f.childFiles \in Seq(Dir)
      /\ (f.datas \o <<>>) \o Rest(DatasIn(p, d), <<>>) = t.datas
      /\ (f.childFiles \o <<>>) \o Rest(Children(d), <<>>) = t.childFiles
  BY DEF Whole
<1>2. \A g : Rest(g, <<>>) = <<>>
  BY GatherEmpty DEF Rest
<1>3. f.datas = t.datas /\ f.childFiles = t.childFiles
  BY <1>1, <1>2, ConcatEmptySeq
<1>4. t = Building(TreesOf(p), p, d)
  BY <1>1, TreesUnfold
<1>5. t = [dir |-> d, datas |-> t.datas, childFiles |-> t.childFiles]
  BY <1>4 DEF Building
<1>6. QED
  BY <1>3, <1>5

(* The caller gets what it waited for. *)
LEMMA WholeReceives ==
    ASSUME NEW p, NEW c, NEW d \in Dir, NEW t, t = TreesOf(p)[d], t.dir = d,
           Whole(p, c, <<Tree(t)>>, <<d>>),
           NEW e, e = [dir |-> c.dir, work |-> c.work, datas |-> Append(c.datas, Tree(t)),
                       childFiles |-> Append(c.childFiles, t.dir)]
    PROVE  Whole(p, e, <<>>, <<>>)
<1> DEFINE v == Tree(t)
<1>1. v \in Values(p)
  BY DEF Values
<1> HIDE DEF v
<1>2. /\ e.dir = c.dir /\ e.work = c.work
      /\ e.datas = Append(c.datas, v) /\ e.childFiles = Append(c.childFiles, d)
  BY DEF v
<1>3. c.datas \in Seq(Values(p)) /\ c.childFiles \in Seq(Dir)
  BY DEF Whole
<1>4. /\ e.datas = c.datas \o <<v>> /\ e.datas \in Seq(Values(p))
      /\ e.childFiles = c.childFiles \o <<d>> /\ e.childFiles \in Seq(Dir)
  <2>1. c.datas \o <<v>> = Append(c.datas, v) /\ Append(c.datas, v) \in Seq(Values(p))
    BY <1>1, <1>3, AppendIsConcat, AppendProperties
  <2>2. c.childFiles \o <<d>> = Append(c.childFiles, d) /\ Append(c.childFiles, d) \in Seq(Dir)
    BY <1>3, AppendIsConcat, AppendProperties
  <2>3. QED
    BY <1>2, <2>1, <2>2
<1>5. e.datas \o <<>> = e.datas /\ e.childFiles \o <<>> = e.childFiles
  BY <1>4, ConcatEmptySeq
<1>6. QED
  BY <1>2, <1>4, <1>5 DEF Whole, v

(* What the next statement of a call in directory d makes of it. *)
AtWork(n, rank, depth, p, d, v) ==
    Tame(n, rank, depth) /\ d \in Dir /\ v \in Seq(Stmt) /\ v # <<>>

LEMMA SplitLeaf ==
    ASSUME NEW n, NEW rank, NEW depth, NEW p, NEW d, NEW v, AtWork(n, rank, depth, p, d, v),
           Head(v).kind \notin {"foreach", "if"},
           NEW x \in Seq(Values(p)), NEW z \in Seq(Values(p)), NEW y \in Seq(Dir),
           DatasIn(p, d)[Head(v)] = x \o z, Children(d)[Head(v)] = y
    PROVE  Splits(p, d, v, Tail(v), x, z, y)
<1>1. Adds(DatasIn(p, d), Values(p)) /\ Adds(Children(d), Dir)
  BY DatasAdd DEF AtWork
<1>2. Tail(v) \in Seq(Stmt)
  BY HeadAndTail DEF AtWork
<1>3. \A V, g : Adds(g, V) => Rest(g, v) = g[Head(v)] \o Rest(g, Tail(v))
  BY RestUnfolds DEF AtWork
<1>4. /\ Rest(DatasIn(p, d), v) = DatasIn(p, d)[Head(v)] \o Rest(DatasIn(p, d), Tail(v))
      /\ Rest(Children(d), v) = Children(d)[Head(v)] \o Rest(Children(d), Tail(v))
  BY <1>1, <1>3, Zenon
<1>5. /\ Rest(DatasIn(p, d), v) = (x \o z) \o Rest(DatasIn(p, d), Tail(v))
      /\ Rest(Children(d), v) = y \o Rest(Children(d), Tail(v))
  BY <1>4, Zenon
<1>6. QED
  BY <1>2, <1>5, Zenon DEF Splits

LEMMA SplitBlock ==
    ASSUME NEW n, NEW rank, NEW depth, NEW p, NEW d, NEW v, AtWork(n, rank, depth, p, d, v),
           NEW w \in Seq(Stmt),
           \A V, g : Adds(g, V) /\ (\A s \in Stmt : s.kind = "other" => g[s] = <<>>)
                     => Rest(g, v) = Rest(g, w)
    PROVE  Splits(p, d, v, w, <<>>, <<>>, <<>>)
<1> DEFINE g == DatasIn(p, d)
           h == Children(d)
           e == <<>>
<1>1. /\ Adds(g, Values(p)) /\ Adds(h, Dir)
      /\ \A s \in Stmt : s.kind = "other" => g[s] = <<>> /\ h[s] = <<>>
  BY DatasAdd DEF AtWork
<1> HIDE DEF g, h
<1>2. Rest(g, v) = Rest(g, w) /\ Rest(h, v) = Rest(h, w)
  BY <1>1
<1>3. Rest(g, w) \in Seq(Values(p)) /\ Rest(h, w) \in Seq(Dir)
  BY <1>1, RestConcat
<1>4. e \in Seq(Values(p)) /\ e \in Seq(Dir)
  OBVIOUS
<1>5. e \o e = e /\ e \o Rest(g, w) = Rest(g, w) /\ e \o Rest(h, w) = Rest(h, w)
  BY <1>3, <1>4, ConcatEmptySeq
<1> HIDE DEF e
<1>6. Splits(p, d, v, w, e, e, e)
  BY <1>2, <1>4, <1>5 DEF Splits, g, h
<1>7. QED
  BY <1>6 DEF e

LEMMA SplitSelection ==
    ASSUME NEW n, NEW rank, NEW depth, NEW p, NEW d, NEW v, AtWork(n, rank, depth, p, d, v),
           Head(v).kind = "if"
    PROVE  Splits(p, d, v, Head(v).body \o Tail(v), <<>>, <<>>, <<>>)
<1>1. Head(v) \in Stmt /\ Tail(v) \in Seq(Stmt) /\ Head(v).body \in Seq(Stmt)
  BY HeadAndTail, StmtAssumption DEF AtWork
<1>2. Head(v).body \o Tail(v) \in Seq(Stmt)
  BY <1>1, ConcatProperties
<1>3. \A V, g : Adds(g, V) => Rest(g, v) = Rest(g, Head(v).body \o Tail(v))
  BY RestUnfolds DEF AtWork
<1>4. QED
  BY <1>2, <1>3, SplitBlock

LEMMA SplitForeach ==
    ASSUME NEW n, NEW rank, NEW depth, NEW p, NEW d, NEW v, AtWork(n, rank, depth, p, d, v),
           Head(v).kind = "foreach"
    PROVE  Splits(p, d, v, SubSeq(Head(v).body, 2, Len(Head(v).body)) \o Tail(v), <<>>, <<>>, <<>>)
<1> DEFINE body == Head(v).body
           t == Tail(v)
           b == SubSeq(body, 2, Len(body))
<1>1. Head(v) \in Stmt /\ t \in Seq(Stmt) /\ body \in Seq(Stmt)
  BY HeadAndTail, StmtAssumption DEF AtWork
<1>2. body # <<>> => Head(body).kind = "other"
  BY <1>1 DEF AtWork, Tame
<1>3. \A V, g : Adds(g, V) => Rest(g, v) = Rest(g, body \o t)
  BY RestUnfolds DEF AtWork
<1> HIDE DEF body, t
<1>4. b \in Seq(Stmt)
  BY <1>1
<1>5. b \o t \in Seq(Stmt)
  <2> HIDE DEF b
  <2>1. QED
    BY <1>1, <1>4, ConcatProperties
<1>6. ASSUME NEW V, NEW g, Adds(g, V), \A s \in Stmt : s.kind = "other" => g[s] = <<>>
      PROVE  Rest(g, v) = Rest(g, b \o t)
  <2>1. Rest(g, b \o t) = Rest(g, body \o t)
    BY <1>1, <1>2, <1>6, RestOfForeach
  <2>2. QED
    BY <1>3, <1>6, <2>1
<1> HIDE DEF b
<1>7. Splits(p, d, v, b \o t, <<>>, <<>>, <<>>)
  BY <1>5, <1>6, SplitBlock
<1>8. QED
  BY <1>7 DEF b, body, t

(* Two values, one after the other. *)
LEMMA PairConcat ==
    ASSUME NEW V, NEW x \in V, NEW y \in V
    PROVE  <<x>> \o <<y>> = <<x, y>>
<1>1. Append(<<x>>, y) = <<x>> \o <<y>>
  BY AppendIsConcat
<1> DEFINE u == Append(<<x>>, y)
           w == <<x, y>>
<1>2. u \in Seq(V) /\ Len(u) = 2 /\ u[1] = x /\ u[2] = y
  BY AppendProperties
<1>3. w \in Seq(V) /\ Len(w) = 2 /\ w[1] = x /\ w[2] = y
  OBVIOUS
<1> HIDE DEF u, w
<1>4. Len(u) = Len(w) /\ \A i \in 1 .. Len(u) : u[i] = w[i]
  BY <1>2, <1>3
<1>5. u = w
  BY <1>2, <1>3, <1>4, SeqEqual
<1>6. QED
  BY <1>1, <1>5 DEF u, w

(* What the statements that are no blocks add: the next of call (d, v), whose *)
(* argument leads to r.                                                       *)
Adding(p, d, v, s, r) ==
    /\ s.kind = "assign" => Splits(p, d, v, Tail(v), <<Symbol(s.arg, d)>>, <<>>, <<>>)
    /\ s.kind = "other" => Splits(p, d, v, Tail(v), <<>>, <<>>, <<>>)
    /\ s.kind = "subdir" /\ r \notin Dir => Splits(p, d, v, Tail(v), <<>>, <<>>, <<>>)
    /\ s.kind = "subdir" /\ r \in Dir \ Exists =>
          Splits(p, d, v, Tail(v), <<Subdir(s.arg)>>, <<>>, <<>>)
    /\ s.kind = "subdir" /\ r \in Exists =>
          Splits(p, d, v, Tail(v), <<Subdir(s.arg)>>, <<Tree(TreesOf(p)[r])>>, <<r>>)

LEMMA SplitsOf ==
    ASSUME NEW n, NEW rank, NEW depth, NEW p, NEW d, NEW v, AtWork(n, rank, depth, p, d, v),
           NEW s, s = Head(v), NEW r, r = Resolve[d][s.arg]
    PROVE  Adding(p, d, v, s, r)
<1> DEFINE e == <<>>
           sym == Symbol(s.arg, d)
           sub == Subdir(s.arg)
           tree == Tree(TreesOf(p)[r])
<1>1. s \in Stmt /\ s.arg \in Arg /\ d \in Dir
  BY HeadAndTail, StmtAssumption DEF AtWork
<1>2. sym \in Values(p) /\ sub \in Values(p) /\ (r \in Dir => tree \in Values(p))
  BY <1>1 DEF Values
<1>3. /\ DatasIn(p, d)[s] = DataOf(s, d, TreesOf(p)[r]) /\ Children(d)[s] = ChildOf(s, d)
  BY <1>1 DEF DatasIn, Datas, Children
<1>4. Exists \subseteq Dir
  BY DirAssumption
<1>5. /\ s.kind = "assign" => DatasIn(p, d)[s] = <<sym>> /\ Children(d)[s] = e
      /\ s.kind = "other" => DatasIn(p, d)[s] = e /\ Children(d)[s] = e
      /\ s.kind = "subdir" /\ r \notin Dir => DatasIn(p, d)[s] = e /\ Children(d)[s] = e
      /\ s.kind = "subdir" /\ r \in Dir \ Exists => DatasIn(p, d)[s] = <<sub>> /\ Children(d)[s] = e
      /\ s.kind = "subdir" /\ r \in Exists => DatasIn(p, d)[s] = <<sub, tree>> /\ Children(d)[s] = <<r>>
  BY <1>3, <1>4 DEF DataOf, ChildOf
<1> HIDE DEF sym, sub, tree
<1>6. /\ <<sym>> \in Seq(Values(p)) /\ <<sub>> \in Seq(Values(p))
      /\ e \in Seq(Values(p)) /\ e \in Seq(Dir)
      /\ r \in Exists => <<tree>> \in Seq(Values(p)) /\ <<r>> \in Seq(Dir)
  BY <1>2, <1>4
<1>7. <<sym>> \o e = <<sym>> /\ <<sub>> \o e = <<sub>> /\ e \o e = e
  BY <1>6, ConcatEmptySeq
<1>8. r \in Exists => <<sub>> \o <<tree>> = <<sub, tree>>
  <2>1. SUFFICES ASSUME r \in Exists PROVE <<sub>> \o <<tree>> = <<sub, tree>>
    OBVIOUS
  <2>2. tree \in Values(p)
    BY <1>2, <1>4, <2>1
  <2>3. QED
    BY <1>2, <2>2, PairConcat
<1>9. \A x, z, y : /\ x \in Seq(Values(p)) /\ z \in Seq(Values(p)) /\ y \in Seq(Dir)
                   /\ s.kind \notin {"foreach", "if"}
                   /\ DatasIn(p, d)[s] = x \o z /\ Children(d)[s] = y
                   => Splits(p, d, v, Tail(v), x, z, y)
  BY SplitLeaf
<1> HIDE DEF e
<1>10. s.kind = "assign" => Splits(p, d, v, Tail(v), <<sym>>, e, e)
  BY <1>5, <1>6, <1>7, <1>9
<1>11. s.kind = "other" \/ (s.kind = "subdir" /\ r \notin Dir) => Splits(p, d, v, Tail(v), e, e, e)
  BY <1>5, <1>6, <1>7, <1>9
<1>12. s.kind = "subdir" /\ r \in Dir \ Exists => Splits(p, d, v, Tail(v), <<sub>>, e, e)
  BY <1>5, <1>6, <1>7, <1>9
<1>13. s.kind = "subdir" /\ r \in Exists => Splits(p, d, v, Tail(v), <<sub>>, <<tree>>, <<r>>)
  BY <1>5, <1>6, <1>8, <1>9
<1>14. QED
  BY <1>10, <1>11, <1>12, <1>13 DEF Adding, e, sym, sub, tree
-----------------------------------------------------------------------------
(* The calls of build() that have not returned, t, on their way through the   *)
(* project p: each waits for the tree of the next.                            *)

Waits(p, f, d) == Whole(p, f, <<Tree(TreesOf(p)[d])>>, <<d>>)

Collecting(p, t, n) ==
    /\ Frames(t, n) /\ t[1].dir = Top
    /\ Whole(p, t[n], <<>>, <<>>)
    /\ \A i \in 1 .. n - 1 : Waits(p, t[i], t[i + 1].dir)

LEMMA CollectingOn ==
    ASSUME NEW p, NEW t, NEW n, Collecting(p, t, n), NEW u, Frames(u, n), NEW e,
           \A i \in 1 .. n : u[i] = IF i = n THEN e ELSE t[i],
           e.dir = t[n].dir, Whole(p, e, <<>>, <<>>)
    PROVE  Collecting(p, u, n)
<1>1. n \in Nat \ {0}
  BY DEF Frames
<1>2. u[n] = e /\ \A i \in 1 .. n : u[i].dir = t[i].dir
  BY <1>1
<1>3. u[1].dir = Top
  BY <1>1, <1>2 DEF Collecting
<1>4. ASSUME NEW i \in 1 .. n - 1 PROVE Waits(p, u[i], u[i + 1].dir)
  <2>1. i \in 1 .. n /\ i + 1 \in 1 .. n /\ i # n
    BY <1>1
  <2>2. u[i] = t[i] /\ u[i + 1].dir = t[i + 1].dir
    BY <1>2, <2>1
  <2>3. QED
    BY <2>2 DEF Collecting
<1>5. QED
  BY <1>2, <1>3, <1>4 DEF Collecting

LEMMA CollectingDown ==
    ASSUME NEW p, NEW t, NEW n, Collecting(p, t, n), NEW u, Frames(u, n + 1), NEW e,
           \A i \in 1 .. n : u[i] = IF i = n THEN e ELSE t[i],
           e.dir = t[n].dir, Waits(p, e, u[n + 1].dir), Whole(p, u[n + 1], <<>>, <<>>)
    PROVE  Collecting(p, u, n + 1)
<1>1. n \in Nat \ {0}
  BY DEF Collecting, Frames
<1>2. u[n] = e /\ \A i \in 1 .. n : u[i].dir = t[i].dir
  BY <1>1
<1>3. u[1].dir = Top
  BY <1>1, <1>2 DEF Collecting
<1>4. ASSUME NEW i \in 1 .. n PROVE Waits(p, u[i], u[i + 1].dir)
  <2>1. CASE i = n
    BY <1>2, <2>1
  <2>2. CASE i # n
    <3>1. i \in 1 .. n - 1 /\ i + 1 \in 1 .. n
      BY <1>1, <2>2
    <3>2. u[i] = t[i] /\ u[i + 1].dir = t[i + 1].dir
      BY <1>2, <2>2, <3>1
    <3>3. QED
      BY <3>1, <3>2 DEF Collecting
  <2>3. QED
    BY <2>1, <2>2
<1>5. \A i \in 1 .. (n + 1) - 1 : i \in 1 .. n
  BY <1>1
<1>6. \A i \in 1 .. (n + 1) - 1 : Waits(p, u[i], u[i + 1].dir)
  BY <1>4, <1>5, Zenon
<1>7. QED
  BY <1>3, <1>6 DEF Collecting

LEMMA CollectingUp ==
    ASSUME NEW p, NEW t, NEW n, Collecting(p, t, n), n > 1, NEW u, Frames(u, n - 1), NEW e,
           \A i \in 1 .. n - 1 : u[i] = IF i = n - 1 THEN e ELSE t[i],
           e.dir = t[n - 1].dir, Whole(p, e, <<>>, <<>>)
    PROVE  Collecting(p, u, n - 1)
<1>1. n \in Nat \ {0} /\ n - 1 \in 1 .. n - 1 /\ 1 \in 1 .. n - 1
  <2>1. n \in Nat
    BY DEF Collecting, Frames
  <2>2. QED
    BY <2>1
<1>2. u[n - 1] = e /\ \A i \in 1 .. n - 1 : u[i].dir = t[i].dir
  BY <1>1
<1>3. u[1].dir = Top
  BY <1>1, <1>2 DEF Collecting
<1>4. ASSUME NEW i \in 1 .. (n - 1) - 1 PROVE Waits(p, u[i], u[i + 1].dir)
  <2>1. i \in 1 .. n - 1 /\ i + 1 \in 1 .. n - 1 /\ i # n - 1
    BY <1>1
  <2>2. u[i] = t[i] /\ u[i + 1].dir = t[i + 1].dir
    BY <1>2, <2>1
  <2>3. QED
    BY <2>1, <2>2 DEF Collecting
<1>5. QED
  BY <1>2, <1>3, <1>4 DEF Collecting

(* The steps that stay in the current call. *)
LEMMA ContinueCollects ==
    ASSUME NEW n, NEW rank, NEW depth, Tame(n, rank, depth),
           StackOK, Collecting(program, stack, Len(stack)), NEW w, NEW x,
           Splits(program, Current.dir, Current.work, w, x, <<>>, <<>>),
           stack' = Continue(w, x), program' = program
    PROVE  Collecting(program, stack, Len(stack))'
<1> DEFINE e == Grown(Current, w, x)
           m == Len(stack)
<1>1. Whole(program, Current, <<>>, <<>>)
  BY DEF Collecting, Current
<1>2. Whole(program, e, <<>>, <<>>)
  BY <1>1, WholeContinues
<1>3. e.dir = stack[m].dir
  BY DEF Grown, Current
<1>4. Frames(stack', m) /\ \A i \in 1 .. m : stack'[i] = IF i = m THEN e ELSE stack[i]
  BY ContinueFrames
<1>5. Len(stack') = m
  BY <1>4 DEF Frames
<1> HIDE DEF e
<1>6. Collecting(program, stack', m)
  BY <1>2, <1>3, <1>4, CollectingOn
<1>7. QED
  BY <1>5, <1>6

LEMMA EnterCollects ==
    ASSUME NEW n, NEW rank, NEW depth, Tame(n, rank, depth),
           StackOK, Collecting(program, stack, Len(stack)), EnterSubdir,
           Splits(program, Current.dir, Current.work, Tail(Current.work), <<Subdir(Statement.arg)>>,
                  <<Tree(TreesOf(program)[Target])>>, <<Target>>)
    PROVE  Collecting(program, stack, Len(stack))'
<1> DEFINE w == Tail(Current.work)
           x == <<Subdir(Statement.arg)>>
           e == Grown(Current, w, x)
           m == Len(stack)
<1>1. Whole(program, Current, <<>>, <<>>)
  BY DEF Collecting, Current
<1>2. Waits(program, e, Target)
  BY <1>1, WholeContinues DEF Waits
<1>3. e.dir = stack[m].dir
  BY DEF Grown, Current
<1>4. Target \in Dir /\ program[Target] \in Seq(Stmt)
  BY DirAssumption DEF EnterSubdir, StackOK
<1>5. Whole(program, Frame(Target), <<>>, <<>>) /\ Frame(Target).dir = Target
  BY <1>4, WholeStarts DEF Frame
<1>6. /\ Frames(stack', m + 1) /\ stack'[m + 1] = Frame(Target)
      /\ \A i \in 1 .. m : stack'[i] = Continue(w, x)[i]
  BY EnterFrames
<1> HIDE DEF w, x
<1>7. \A i \in 1 .. m : stack'[i] = IF i = m THEN e ELSE stack[i]
  BY <1>6, ContinueFrames
<1>8. Len(stack') = m + 1 /\ program' = program
  BY <1>6 DEF Frames, EnterSubdir, Analyse
<1> HIDE DEF e
<1>9. Collecting(program, stack', m + 1)
  BY <1>2, <1>3, <1>5, <1>6, <1>7, CollectingDown, SMTT(30)
<1>10. QED
  BY <1>8, <1>9

LEMMA ReturnCollects ==
    ASSUME NEW n, NEW rank, NEW depth, Tame(n, rank, depth),
           StackOK, Collecting(program, stack, Len(stack)), Return
    PROVE  /\ Collecting(program, stack, Len(stack))'
           /\ Len(stack) = 1 => result' = TreesOf(program)[Top]
<1> DEFINE m == Len(stack)
           p == program
<1>1. Whole(p, Current, <<>>, <<>>)
  BY DEF Collecting, Current
<1>2. Returned = TreesOf(p)[Current.dir] /\ Current.dir \in Dir
  BY <1>1, WholeEnds DEF Return, Returned, Whole
<1>3. CASE m = 1
  <2>1. ~(m > 1)
    BY <1>3
  <2>2. UNCHANGED <<stack, program>> /\ result' = Returned
    BY <2>1, Zenon DEF Return
  <2>3. Current.dir = Top
    BY <1>3 DEF Collecting, Current
  <2>4. QED
    BY <1>2, <2>2, <2>3
<1>4. CASE m > 1
  <2>1. m \in Nat /\ m - 1 \in 1 .. m - 1 /\ (m - 1) + 1 = m
    <3>1. m \in Nat
      BY StackFrames DEF Frames
    <3>2. QED
      BY <1>4, <3>1
  <2>2. Frames(stack', m - 1) /\ \A i \in 1 .. m - 1 : stack'[i] = IF i = m - 1 THEN Received ELSE stack[i]
    BY <1>4, ReturnFrames
  <2>3. Waits(p, Caller, Current.dir)
    <3>1. Waits(p, stack[m - 1], stack[(m - 1) + 1].dir)
      BY <2>1 DEF Collecting
    <3>2. QED
      BY <2>1, <3>1 DEF Caller, Current
  <2>4. Returned.dir = Current.dir
    BY DEF Returned
  <2>5. Whole(p, Received, <<>>, <<>>)
    BY <1>2, <2>3, <2>4, WholeReceives DEF Waits, Received
  <2>6. Received.dir = stack[m - 1].dir
    BY DEF Received, Caller
  <2>7. Collecting(p, stack', m - 1)
    <3> HIDE DEF m, p
    <3>1. Collecting(p, stack, m)
      BY DEF m, p
    <3>2. QED
      BY <1>4, <2>2, <2>5, <2>6, <3>1, CollectingUp
  <2>8. Len(stack') = m - 1 /\ program' = program
    BY <2>2 DEF Frames, Return
  <2>9. QED
    BY <1>4, <2>1, <2>7, <2>8
<1>5. QED
  BY <1>3, <1>4, StackFrames DEF Frames

(* A finished tree is the tree of the workspace folder, for every project     *)
(* whose subdir() calls lead strictly down and whose foreach statements lose  *)
(* nothing to the loop that starts one child late: build() collects every     *)
(* assignment and every included directory, in the order of the program,      *)
(* however deep files and blocks nest (symbol_tree.vala:83-190).              *)
THEOREM BuildComplete ==
    ASSUME NEW n, NEW rank, NEW depth, Tame(n, rank, depth)
    PROVE  Spec => []TreeComplete
<1> DEFINE Inv == /\ StackOK
                  /\ Collecting(program, stack, Len(stack))
                  /\ TreeComplete
<1>1. Init => Inv
  <2> SUFFICES ASSUME Init PROVE Inv
    OBVIOUS
  <2>1. StackOK
    BY StackStarts
  <2>2. stack = <<Frame(Top)>> /\ status = "building"
    BY DEF Init
  <2>3. Top \in Dir /\ program[Top] \in Seq(Stmt)
    BY <2>1, DirAssumption DEF StackOK
  <2>4. Whole(program, Frame(Top), <<>>, <<>>) /\ Frame(Top).dir = Top
    BY <2>3, WholeStarts DEF Frame
  <2>5. Len(stack) = 1 /\ stack[1] = Frame(Top)
    BY <2>2
  <2>6. Frames(stack, 1)
    BY <2>1, <2>5, StackFrames
  <2>7. Collecting(program, stack, 1)
    BY <2>4, <2>5, <2>6 DEF Collecting
  <2>8. QED
    BY <2>1, <2>2, <2>5, <2>7 DEF TreeComplete
<1>2. Inv /\ [Next]_vars => Inv'
  <2> SUFFICES ASSUME Inv, [Next]_vars PROVE Inv'
    OBVIOUS
  <2> DEFINE d == Current.dir
             v == Current.work
             s == Statement
  <2>1. StackOK'
    BY StackStays
  <2>2. ASSUME NEW kind, Analyse(kind)
        PROVE  /\ AtWork(n, rank, depth, program, d, v) /\ s = Head(v) /\ s.kind = kind
               /\ program' = program /\ result' = result /\ status = "building"
    BY <2>2, NextStatement DEF Analyse, AtWork, Statement, StackOK
  <2>3. ASSUME NEW kind, Analyse(kind)
        PROVE  Adding(program, d, v, s, Target) /\ s.kind = kind
    BY <2>2, <2>3, SplitsOf, Zenon DEF Target
  <2>4. ASSUME NEW kind, Analyse(kind), NEW w, NEW x, Splits(program, d, v, w, x, <<>>, <<>>),
               stack' = Continue(w, x), UNCHANGED status
        PROVE  Inv'
    <3>1. Collecting(program, stack, Len(stack))'
      BY <2>2, <2>4, ContinueCollects
    <3>2. status' # "done"
      BY <2>2, <2>4
    <3>3. QED
      BY <2>1, <3>1, <3>2 DEF TreeComplete
  <2>5. CASE AnalyseAssignment
    <3>1. Splits(program, d, v, Tail(v), <<Symbol(s.arg, d)>>, <<>>, <<>>)
      BY <2>3, <2>5 DEF AnalyseAssignment, Adding
    <3>2. QED
      BY <2>4, <2>5, <3>1 DEF AnalyseAssignment
  <2>6. CASE AnalyseOther
    <3>1. Splits(program, d, v, Tail(v), <<>>, <<>>, <<>>)
      BY <2>3, <2>6 DEF AnalyseOther, Adding
    <3>2. QED
      BY <2>4, <2>6, <3>1 DEF AnalyseOther
  <2>7. CASE AnalyseForeach
    <3>1. Splits(program, d, v, SubSeq(s.body, 2, Len(s.body)) \o Tail(v), <<>>, <<>>, <<>>)
      BY <2>2, <2>7, SplitForeach DEF AnalyseForeach
    <3>2. QED
      BY <2>4, <2>7, <3>1 DEF AnalyseForeach
  <2>8. CASE AnalyseSelection
    <3>1. Splits(program, d, v, s.body \o Tail(v), <<>>, <<>>, <<>>)
      BY <2>2, <2>8, SplitSelection DEF AnalyseSelection
    <3>2. QED
      BY <2>4, <2>8, <3>1 DEF AnalyseSelection
  <2>9. CASE SkipSubdir
    <3>1. Target \notin Dir
      BY <2>9, ProgramAssumption DEF SkipSubdir
    <3>2. Splits(program, d, v, Tail(v), <<>>, <<>>, <<>>)
      BY <2>3, <2>9, <3>1 DEF SkipSubdir, Adding
    <3>3. QED
      BY <2>4, <2>9, <3>2 DEF SkipSubdir
  <2>10. CASE MissingSubdir
    <3>1. Splits(program, d, v, Tail(v), <<Subdir(s.arg)>>, <<>>, <<>>)
      BY <2>3, <2>10 DEF MissingSubdir, Adding
    <3>2. QED
      BY <2>4, <2>10, <3>1 DEF MissingSubdir
  <2>11. CASE EnterSubdir
    <3>1. Splits(program, d, v, Tail(v), <<Subdir(s.arg)>>, <<Tree(TreesOf(program)[Target])>>, <<Target>>)
      BY <2>3, <2>11 DEF EnterSubdir, Adding
    <3>2. Collecting(program, stack, Len(stack))'
      BY <2>11, <3>1, EnterCollects
    <3>3. status' # "done"
      BY <2>2, <2>11 DEF EnterSubdir
    <3>4. QED
      BY <2>1, <3>2, <3>3 DEF TreeComplete
  <2>12. CASE StackOverflow \/ NullNodeCrash
    <3>1. status' = "crashed" /\ UNCHANGED <<program, stack>>
      BY <2>12 DEF StackOverflow, NullNodeCrash, Analyse
    <3>2. QED
      BY <2>1, <3>1 DEF TreeComplete
  <2>13. CASE Return
    <3>1. /\ Collecting(program, stack, Len(stack))'
          /\ Len(stack) = 1 => result' = TreesOf(program)[Top]
      BY <2>13, ReturnCollects
    <3>2. program' = program /\ (status' = "done" => Len(stack) = 1)
      BY <2>13 DEF Return
    <3>3. QED
      BY <2>1, <3>1, <3>2 DEF TreeComplete
  <2>14. CASE UNCHANGED vars
    BY <2>1, <2>14 DEF vars, TreeComplete
  <2>15. QED
    BY <2>5, <2>6, <2>7, <2>8, <2>9, <2>10, <2>11, <2>12, <2>13, <2>14 DEF Next
<1>3. QED
  BY <1>1, <1>2, PTL DEF Spec
=============================================================================
