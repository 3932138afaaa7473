--------------------------- MODULE MesonLspAnswers --------------------------
(***************************************************************************)
(* Theorems about the replies of module MesonLsp: none rests on a text the *)
(* user has replaced before asking (AnswersFresh), and the server          *)
(* implements module Replies (RepliesSpec).                                *)
(***************************************************************************)
EXTENDS MesonLspProofs, NaturalOrder

USE RootAssumption, ContentAssumption, BehaviourAssumption

-----------------------------------------------------------------------------
(***************************************************************************)
(* AnswersFresh speaks of replies; the strengthening speaks of the calls   *)
(* that still wait in the pipe, and of what the server will have of a file *)
(* when it comes to them: the text it has now, when no load_tree comes     *)
(* before; else the text of the last load_tree about the file that comes   *)
(* before, or of the overlay when none does, and where that is no text the *)
(* file on disk.  Each of these must be a text seen since the call.        *)
(***************************************************************************)
CausesLoad(m) == m.method = "didSave" \/ (m.method = "didChange" /\ m.text # NoText)

LoadsOf(s, f, k) == {j \in 1 .. k - 1 : CausesLoad(s[j]) /\ s[j].file = f}

(* With patch t, file f is in S as the server reads it from d.                *)
Seen(S, f, t, d) == <<f, IF t # NoText THEN t ELSE d>> \in S

(* Call k of pipe s, seen S, has a fresh f: patch p, merged text a, disk d.   *)
FreshAt(s, k, f, p, a, d, S) ==
    /\ (\A j \in 1 .. k - 1 : ~CausesLoad(s[j])) /\ a # NoText => <<f, a>> \in S
    /\ LoadsOf(s, f, k) = {} => Seen(S, f, p, d)
    /\ \A j \in LoadsOf(s, f, k) : IsLast(j, LoadsOf(s, f, k)) => Seen(S, f, s[j].text, d)

(* Every call, waiting or replied to, has its history.                        *)
CallsKnown ==
    /\ \A k \in Calls(toServer) : toServer[k].id \in DOMAIN seen
    /\ \A k \in Calls(toClient) : toClient[k].id \in DOMAIN seen

(* What the user sees now has been seen since every call.                     *)
ViewSeen ==
    \A i \in DOMAIN seen, f \in File \ Volatile : <<f, View(buffer, disk, f)>> \in seen[i]

(* Without a didSave in the pipe a merged text is that of overlay or disk.    *)
AstCurrent ==
    \A f \in File \ Volatile :
        (\A k \in DOMAIN toServer : toServer[k].method # "didSave") /\ ast[f] # NoText =>
            ast[f] = TextOf(tree.patches, f)

CallsFresh ==
    \A k \in Calls(toServer), f \in File \ Volatile :
        FreshAt(toServer, k, f, tree.patches[f], ast[f], disk[f], seen[toServer[k].id])

Initializing == \E k \in DOMAIN toServer : toServer[k].method = "initialize"

AnswersInv ==
    /\ CallsKnown
    /\ \A f \in File \ Volatile : disk[f] \in Content
    /\ ~hasRoot => ast = Blank
    /\ phase = "fresh" \/ Initializing => ~hasRoot
    /\ RootStable => ViewSeen
    /\ RootStable /\ hasRoot /\ running => AstCurrent /\ CallsFresh
    /\ AnswersFresh

(* Taking a message off the pipe shifts the loads that come before a call.    *)
LEMMA TailLoads ==
    ASSUME NEW s \in Seq(ToServer), s # <<>>, NEW f, NEW k \in 2 .. Len(s)
    PROVE  /\ \A j : j \in LoadsOf(Tail(s), f, k - 1) <=>
                     j \in Nat /\ j # 0 /\ j + 1 \in LoadsOf(s, f, k)
           /\ \A j \in LoadsOf(Tail(s), f, k - 1) : Tail(s)[j] = s[j + 1]
           /\ \A j \in LoadsOf(Tail(s), f, k - 1) :
                 IsLast(j, LoadsOf(Tail(s), f, k - 1)) => IsLast(j + 1, LoadsOf(s, f, k))
<1>1. k \in Nat /\ \A j \in 1 .. k - 2 : Tail(s)[j] = s[j + 1]
  OBVIOUS
<1>2. \A j : j \in LoadsOf(Tail(s), f, k - 1) <=>
               j \in Nat /\ j # 0 /\ j + 1 \in LoadsOf(s, f, k)
  BY <1>1 DEF LoadsOf
<1>3. \A j \in LoadsOf(Tail(s), f, k - 1) : Tail(s)[j] = s[j + 1]
  BY <1>1 DEF LoadsOf
<1>4. ASSUME NEW j \in LoadsOf(Tail(s), f, k - 1), IsLast(j, LoadsOf(Tail(s), f, k - 1)),
             NEW i \in LoadsOf(s, f, k)
      PROVE  i <= j + 1
  <2>1. j \in Nat /\ i \in 1 .. k - 1
    BY <1>2 DEF LoadsOf
  <2>2. CASE i = 1
    BY <2>1, <2>2
  <2>3. CASE i # 1
    <3>1. i - 1 \in LoadsOf(Tail(s), f, k - 1)
      BY <1>2, <2>1, <2>3
    <3>2. QED
      BY <1>4, <2>1, <3>1 DEF IsLast
  <2>4. QED
    BY <2>2, <2>3
<1>5. QED
  BY <1>2, <1>3, <1>4 DEF IsLast

(* Serving the head of the pipe keeps a waiting call fresh: q is the patch of *)
(* f after it, b the merged text.                                             *)
LEMMA FreshTail ==
    ASSUME NEW s \in Seq(ToServer), s # <<>>, NEW f, NEW k \in 2 .. Len(s),
           NEW p, NEW a, NEW d, NEW S, FreshAt(s, k, f, p, a, d, S), NEW q, NEW b,
           q = IF CausesLoad(Head(s)) /\ Head(s).file = f THEN Head(s).text ELSE p,
           CausesLoad(Head(s)) => b = NoText \/ b = (IF q # NoText THEN q ELSE d),
           ~CausesLoad(Head(s)) => b = a
    PROVE  FreshAt(Tail(s), k - 1, f, q, b, d, S)
<1>0. /\ \A j : j \in LoadsOf(Tail(s), f, k - 1) <=>
                    j \in Nat /\ j # 0 /\ j + 1 \in LoadsOf(s, f, k)
      /\ \A j \in LoadsOf(Tail(s), f, k - 1) : Tail(s)[j] = s[j + 1]
      /\ \A j \in LoadsOf(Tail(s), f, k - 1) :
            IsLast(j, LoadsOf(Tail(s), f, k - 1)) => IsLast(j + 1, LoadsOf(s, f, k))
  BY TailLoads
<1>1. Head(s) = s[1] /\ 1 \in 1 .. k - 1 /\ k \in Nat
  OBVIOUS
<1>2. ASSUME LoadsOf(Tail(s), f, k - 1) = {}
      PROVE  Seen(S, f, q, d)
  <2>1. \A j \in LoadsOf(s, f, k) : j = 1
    <3> SUFFICES ASSUME NEW j \in LoadsOf(s, f, k), j # 1
                 PROVE  j - 1 \in LoadsOf(Tail(s), f, k - 1)
      BY <1>2
    <3>1. j \in 1 .. k - 1
      BY DEF LoadsOf
    <3>2. j - 1 \in Nat /\ j - 1 # 0 /\ (j - 1) + 1 = j
      BY <1>1, <3>1
    <3>3. QED
      BY <3>2, <1>0
  <2>2. CASE 1 \in LoadsOf(s, f, k)
    <3>1. IsLast(1, LoadsOf(s, f, k))
      BY <2>1 DEF IsLast
    <3>2. Seen(S, f, s[1].text, d)
      BY <2>2, <3>1 DEF FreshAt
    <3>3. q = s[1].text
      BY <1>1, <2>2 DEF LoadsOf
    <3>4. QED
      BY <3>2, <3>3
  <2>3. CASE 1 \notin LoadsOf(s, f, k)
    <3>1. LoadsOf(s, f, k) = {} /\ q = p
      BY <1>1, <2>1, <2>3 DEF LoadsOf
    <3>2. QED
      BY <3>1 DEF FreshAt
  <2>4. QED
    BY <2>2, <2>3
<1>3. ASSUME \A j \in 1 .. (k - 1) - 1 : ~CausesLoad(Tail(s)[j]), b # NoText
      PROVE  <<f, b>> \in S
  <2>1. CASE CausesLoad(Head(s))
    <3>1. LoadsOf(Tail(s), f, k - 1) = {}
      BY <1>3 DEF LoadsOf
    <3>2. QED
      BY <1>2, <1>3, <2>1, <3>1 DEF Seen
  <2>2. CASE ~CausesLoad(Head(s))
    <3>1. ASSUME NEW j \in 1 .. k - 1
          PROVE  ~CausesLoad(s[j])
      <4>1. CASE j = 1
        BY <1>1, <2>2, <4>1
      <4>2. CASE j # 1
        <5>1. j - 1 \in 1 .. (k - 1) - 1 /\ Tail(s)[j - 1] = s[j]
          BY <1>1, <4>2
        <5>2. QED
          BY <1>3, <5>1
      <4>3. QED
        BY <4>1, <4>2
    <3>2. QED
      BY <1>3, <2>2, <3>1 DEF FreshAt
  <2>3. QED
    BY <2>1, <2>2
<1>4. ASSUME NEW j \in LoadsOf(Tail(s), f, k - 1), IsLast(j, LoadsOf(Tail(s), f, k - 1))
      PROVE  Seen(S, f, Tail(s)[j].text, d)
  <2>1. /\ j + 1 \in LoadsOf(s, f, k) /\ IsLast(j + 1, LoadsOf(s, f, k))
        /\ Tail(s)[j] = s[j + 1]
    BY <1>4, <1>0
  <2>2. \A i \in LoadsOf(s, f, k) : IsLast(i, LoadsOf(s, f, k)) => Seen(S, f, s[i].text, d)
    BY DEF FreshAt
  <2>3. QED
    BY <2>1, <2>2
<1>5. QED
  BY <1>2, <1>3, <1>4 DEF FreshAt

(* What comes later in the pipe and what is seen later change nothing for a   *)
(* call, nor does a new text on disk that has been seen.                      *)
LEMMA FreshGrow ==
    ASSUME NEW s, NEW t, NEW k \in Nat, NEW f, NEW p, NEW a, NEW d, NEW e, NEW S, NEW R,
           FreshAt(s, k, f, p, a, d, S),
           \A j \in 1 .. k - 1 : t[j] = s[j],
           S \subseteq R,
           e = d \/ <<f, e>> \in R
    PROVE  FreshAt(t, k, f, p, a, e, R)
<1>1. LoadsOf(t, f, k) = LoadsOf(s, f, k)
  <2>1. \A j : j \in LoadsOf(t, f, k) <=> j \in LoadsOf(s, f, k)
    BY DEF LoadsOf
  <2>2. QED
    BY <2>1
<1>2. \A j \in LoadsOf(t, f, k) : t[j] = s[j]
  BY DEF LoadsOf
<1>3. \A x : Seen(S, f, x, d) => Seen(R, f, x, e)
  BY DEF Seen
<1>4. QED
  BY <1>1, <1>2, <1>3 DEF FreshAt

(* The last word about f is what load_tree does last to f before the end of   *)
(* the pipe, as the last word is one the server heeds.                        *)
LEMMA LastWordLoads ==
    ASSUME NEW st \in Seq(ToServer), NEW f, Heard(st, f)
    PROVE  LET L == LoadsOf(st, f, Len(st) + 1)
           IN  /\ L = {} => Notices(st, f) = {}
               /\ \A j \in L : IsLast(j, L) => j \in Notices(st, f) /\ IsLast(j, Notices(st, f))
<1> DEFINE L == LoadsOf(st, f, Len(st) + 1)
           N == Notices(st, f)
<1>1. L \subseteq N
  BY DEF LoadsOf, Notices, CausesLoad
<1>2. Len(st) \in Nat /\ N \in SUBSET (1 .. Len(st))
  BY DEF Notices
<1>3. ASSUME N # {}
      PROVE  \E i \in N : IsLast(i, N) /\ i \in L
  <2>1. PICK i \in N : \A j \in N : j <= i
    BY <1>2, <1>3, LastPosition
  <2>2. IsLast(i, N)
    BY <2>1 DEF IsLast
  <2>3. st[i].method = "didChange" => st[i].text # NoText
    BY <2>2 DEF Heard
  <2>4. CausesLoad(st[i]) /\ st[i].file = f
    BY <2>3 DEF Notices, CausesLoad
  <2>5. i \in L
    BY <1>2, <2>4 DEF LoadsOf
  <2>6. QED
    BY <2>2, <2>5
<1>4. ASSUME NEW j \in L, IsLast(j, L)
      PROVE  j \in N /\ IsLast(j, N)
  <2>1. PICK i \in N : IsLast(i, N) /\ i \in L
    BY <1>1, <1>3
  <2>2. i <= j /\ j <= i /\ i \in Nat /\ j \in Nat
    BY <1>1, <1>2, <1>4, <2>1 DEF IsLast
  <2>3. i = j
    BY <2>2
  <2>4. QED
    BY <2>1, <2>3
<1>5. QED
  BY <1>3, <1>4

(* A call the editor makes is fresh: what the server will have of each file   *)
(* when it comes to the call is what the user sees now.                       *)
LEMMA AskedFresh ==
    ASSUME TypeOK, OverlayInv, AnswersInv, RootStable, hasRoot, running,
           NEW f \in File \ Volatile, NEW S,
           <<f, View(buffer, disk, f)>> \in S,
           f \in unheard => {f} \X Content \subseteq S
    PROVE  FreshAt(toServer, Len(toServer) + 1, f, tree.patches[f], ast[f], disk[f], S)
<1> DEFINE n == Len(toServer) + 1
           L == LoadsOf(toServer, f, n)
<1>1. /\ toServer \in Seq(ToServer) /\ n - 1 = Len(toServer)
      /\ tree.patches[f] \in Text /\ ast[f] \in Text
      /\ disk[f] \in Content
  BY DEF TypeOK, AnswersInv
<1>2. L \in SUBSET (1 .. Len(toServer)) /\ \A j \in L : toServer[j].text \in Text
  BY <1>1 DEF LoadsOf, ToServer
<1>3. ASSUME \A j \in 1 .. n - 1 : ~CausesLoad(toServer[j]), ast[f] # NoText
      PROVE  L = {} /\ ast[f] = TextOf(tree.patches, f)
  <2>1. \A j \in DOMAIN toServer : toServer[j].method # "didSave"
    BY <1>1, <1>3 DEF CausesLoad
  <2>2. ast[f] = TextOf(tree.patches, f)
    BY <1>3, <2>1 DEF AnswersInv, AstCurrent
  <2>3. QED
    BY <1>3, <2>2 DEF LoadsOf
<1>4. CASE f \in unheard
  <2>1. \A t \in Text : t # NoText => <<f, t>> \in S
    BY <1>4 DEF Text
  <2>2. \A t \in Text : Seen(S, f, t, disk[f])
    BY <1>1, <2>1, ContentAssumption DEF Seen, Text
  <2>3. QED
    BY <1>1, <1>2, <2>1, <2>2 DEF FreshAt
<1>5. CASE f \notin unheard
  <2>1. Heard(toServer, f) /\ Faithful(toServer, tree.patches[f], buffer[f], f)
    BY <1>5 DEF OverlayInv
  <2>2. Seen(S, f, buffer[f], disk[f])
    BY DEF View, Seen
  <2>3. L = {} => Seen(S, f, tree.patches[f], disk[f])
    BY <1>1, <2>1, <2>2, LastWordLoads DEF Faithful
  <2>4. ASSUME NEW j \in L, IsLast(j, L)
        PROVE  Seen(S, f, toServer[j].text, disk[f])
    <3>1. j \in Notices(toServer, f) /\ IsLast(j, Notices(toServer, f))
      BY <1>1, <2>1, <2>4, LastWordLoads
    <3>2. toServer[j].text = buffer[f]
      BY <2>1, <3>1 DEF Faithful
    <3>3. QED
      BY <2>2, <3>2
  <2>5. (\A j \in 1 .. n - 1 : ~CausesLoad(toServer[j])) /\ ast[f] # NoText => <<f, ast[f]>> \in S
    BY <1>3, <2>3 DEF Seen, TextOf
  <2>6. QED
    BY <2>3, <2>4, <2>5 DEF FreshAt
<1>6. QED
  BY <1>4, <1>5

(* The history of a call only grows while the editor sends a message; so what *)
(* has been seen since a call stays seen.                                     *)
LEMMA SendKeeps ==
    ASSUME TypeOK, AnswersInv, NEW msg \in ToServer, toServer' = Append(toServer, msg),
           UNCHANGED <<tree, ast, hasRoot, running, toClient>>,
           \A i \in DOMAIN seen : i \in DOMAIN seen' /\ seen[i] \subseteq seen'[i],
           RootStable => \A f \in File \ Volatile :
              disk'[f] = disk[f] \/ \A i \in DOMAIN seen : <<f, disk'[f]>> \in seen'[i]
    PROVE  /\ AnswersFresh'
           /\ \A k \in Calls(toServer) : k \in DOMAIN toServer' /\ toServer'[k] = toServer[k]
           /\ \A k \in Calls(toServer') : k \in Calls(toServer) \/ k = Len(toServer) + 1
           /\ RootStable /\ hasRoot /\ running =>
                 \A k \in Calls(toServer), f \in File \ Volatile :
                    FreshAt(toServer', k, f, tree'.patches[f], ast'[f], disk'[f],
                            seen'[toServer'[k].id])
<1>1. toServer \in Seq(ToServer)
  BY DEF TypeOK
<1>2. /\ DOMAIN toServer = 1 .. Len(toServer)
      /\ DOMAIN toServer' = 1 .. Len(toServer) + 1
      /\ \A k \in 1 .. Len(toServer) : toServer'[k] = toServer[k]
  BY <1>1
<1>3. \A k \in Calls(toServer) : k \in DOMAIN toServer' /\ toServer'[k] = toServer[k]
  BY <1>2 DEF Calls
<1>4. \A k \in Calls(toServer') : k \in Calls(toServer) \/ k = Len(toServer) + 1
  BY <1>2 DEF Calls
<1>5. AnswersFresh'
  BY DEF AnswersInv, AnswersFresh, CallsKnown, Calls, RootStable
<1>6. ASSUME RootStable, hasRoot, running, NEW k \in Calls(toServer), NEW f \in File \ Volatile
      PROVE  FreshAt(toServer', k, f, tree'.patches[f], ast'[f], disk'[f],
                     seen'[toServer'[k].id])
  <2>1. FreshAt(toServer, k, f, tree.patches[f], ast[f], disk[f], seen[toServer[k].id])
    BY <1>6 DEF AnswersInv, CallsFresh
  <2>2. toServer[k].id \in DOMAIN seen /\ toServer'[k].id = toServer[k].id
    BY <1>3 DEF AnswersInv, CallsKnown
  <2>3. k \in Nat /\ \A j \in 1 .. k - 1 : toServer'[j] = toServer[j]
    BY <1>2 DEF Calls
  <2>4. seen[toServer[k].id] \subseteq seen'[toServer[k].id]
    BY <2>2
  <2>5. disk'[f] = disk[f] \/ <<f, disk'[f]>> \in seen'[toServer[k].id]
    BY <1>6, <2>2
  <2> DEFINE S == seen[toServer[k].id]
             R == seen'[toServer[k].id]
             t == toServer'
             e == disk'[f]
  <2>6. /\ FreshAt(toServer, k, f, tree.patches[f], ast[f], disk[f], S)
        /\ \A j \in 1 .. k - 1 : t[j] = toServer[j]
        /\ S \subseteq R
        /\ e = disk[f] \/ <<f, e>> \in R
    BY <2>1, <2>3, <2>4, <2>5
  <2>7. FreshAt(t, k, f, tree.patches[f], ast[f], e, R)
    <3> HIDE DEF S, R, t, e
    <3>1. QED
      BY <2>3, <2>6, FreshGrow
  <2>8. QED
    BY <2>2, <2>7
<1>7. QED
  BY <1>3, <1>4, <1>5, <1>6

(* A step of the editor that is no call: every text the user comes to see is  *)
(* put down in the history of all calls, and what is saved has been seen.     *)
LEMMA NoticeAnswers ==
    ASSUME TypeOK, Startup, AnswersInv, NEW msg \in ToServer, toServer' = Append(toServer, msg),
           msg.id = 0, msg.method = "initialize" => ~hasRoot,
           phase = "ready" \/ (phase = "fresh" /\ phase' # "fresh" /\ msg.method = "initialize"),
           phase = "ready" => phase' = "ready",
           UNCHANGED <<tree, ast, hasRoot, running, toClient>>,
           \A i \in DOMAIN seen : seen[i] \subseteq seen'[i],
           DOMAIN seen' = DOMAIN seen,
           disk' = disk \/ msg.method = "didSave",
           \A f \in File \ Volatile : disk'[f] \in Content,
           RootStable => ViewSeen',
           RootStable => \A f \in File \ Volatile :
              disk'[f] = disk[f] \/ \A i \in DOMAIN seen : <<f, disk'[f]>> \in seen'[i]
    PROVE  AnswersInv'
<1>1. toServer \in Seq(ToServer)
  BY DEF TypeOK
<1>2. toServer'[Len(toServer) + 1] = msg /\ Len(toServer) + 1 \in DOMAIN toServer'
  BY <1>1
<1>3. /\ AnswersFresh'
      /\ \A k \in Calls(toServer') : k \in Calls(toServer) /\ toServer'[k] = toServer[k]
      /\ RootStable /\ hasRoot /\ running => CallsFresh'
  BY <1>2, SendKeeps DEF CallsFresh, Calls
<1>4. CallsKnown'
  BY <1>3 DEF AnswersInv, CallsKnown
<1>5. RootStable /\ hasRoot /\ running => AstCurrent'
  <2> SUFFICES ASSUME RootStable, hasRoot, running, NEW f \in File \ Volatile,
                      \A k \in DOMAIN toServer' : toServer'[k].method # "didSave",
                      ast[f] # NoText
               PROVE  ast[f] = TextOf(tree.patches, f)'
    BY DEF AstCurrent
  <2>1. disk' = disk
    BY <1>2
  <2>2. \A k \in DOMAIN toServer : k \in DOMAIN toServer' /\ toServer'[k] = toServer[k]
    BY <1>1
  <2>3. ast[f] = TextOf(tree.patches, f)
    BY <2>2 DEF AnswersInv, AstCurrent
  <2>4. QED
    BY <2>1, <2>3 DEF TextOf
<1>6. phase' = "fresh" \/ Initializing' => ~hasRoot
  <2>1. CASE phase = "fresh"
    BY <2>1 DEF AnswersInv
  <2>2. CASE phase = "ready"
    <3>1. \A k \in DOMAIN toServer : toServer[k].method # "initialize"
      BY <2>2 DEF Startup
    <3>2. \A k \in DOMAIN toServer' : toServer'[k] = msg \/ \E j \in DOMAIN toServer : toServer'[k] = toServer[j]
      BY <1>1
    <3>3. Initializing' => msg.method = "initialize"
      BY <3>1, <3>2 DEF Initializing
    <3>4. QED
      BY <2>2, <3>3
  <2>3. QED
    BY <2>1, <2>2
<1>7. (~hasRoot => ast = Blank)' /\ (\A f \in File \ Volatile : disk[f] \in Content)'
  BY DEF AnswersInv, Blank
<1>8. (phase = "fresh" \/ Initializing => ~hasRoot)'
  BY <1>6
<1>9. (RootStable => ViewSeen)' /\ (RootStable /\ hasRoot /\ running => AstCurrent /\ CallsFresh)'
  BY <1>3, <1>5 DEF RootStable
<1>10. QED
  BY <1>3, <1>4, <1>7, <1>8, <1>9 DEF AnswersInv

(* A call begins its history with what the user sees, and is fresh.           *)
LEMMA AskAnswers ==
    ASSUME TypeOK, OverlayInv, AnswersInv, NEW m \in Call, NEW f \in File, Ask(m, f)
    PROVE  AnswersInv'
<1> DEFINE n == Len(toServer) + 1
           i == Len(seen) + 1
           msg == Request(m, f, i)
           S == {<<g, View(buffer, disk, g)>> : g \in File} \union (unheard \X Content)
<1>1. /\ phase = "ready" /\ running
      /\ toServer' = Append(toServer, msg) /\ seen' = Append(seen, S)
      /\ UNCHANGED <<phase, buffer, disk, tree, ast, hasRoot, running, toClient>>
  BY DEF Ask, SendToServer, editorVars, diskVars, serverVars
<1>2. /\ toServer \in Seq(ToServer)
      /\ seen \in Seq(SUBSET (File \X (Content \union {Absent, Unreadable})))
      /\ i \in 0 .. MaxCalls
  BY DEF TypeOK, Ask
<1>3. msg \in ToServer /\ msg.id = i /\ msg.method \notin {"didSave", "initialize"}
  BY <1>2, EditorMessageType DEF Request, Text, Call, Handled
<1>4. /\ \A j \in DOMAIN seen : j \in DOMAIN seen' /\ seen'[j] = seen[j] /\ j # i
      /\ i \in DOMAIN seen' /\ seen'[i] = S
      /\ \A j \in DOMAIN seen' : j \in DOMAIN seen \/ j = i
  BY <1>1, <1>2
<1>5. /\ n \in DOMAIN toServer' /\ toServer'[n] = msg
      /\ \A k \in DOMAIN toServer : k \in DOMAIN toServer' /\ toServer'[k] = toServer[k]
      /\ \A k \in DOMAIN toServer' : k \in DOMAIN toServer \/ k = n
  BY <1>1, <1>2
<1> HIDE DEF msg
<1>6. /\ AnswersFresh'
      /\ \A k \in Calls(toServer') : k \in Calls(toServer) \/ k = n
      /\ RootStable /\ hasRoot /\ running =>
            \A k \in Calls(toServer), g \in File \ Volatile :
               FreshAt(toServer', k, g, tree'.patches[g], ast'[g], disk'[g],
                       seen'[toServer'[k].id])
  BY <1>1, <1>3, <1>4, SendKeeps
<1>7. CallsKnown'
  BY <1>1, <1>3, <1>4, <1>5, <1>6 DEF AnswersInv, CallsKnown, Calls
<1>8. (phase = "fresh" \/ Initializing => ~hasRoot)'
  BY <1>1, <1>3, <1>5 DEF AnswersInv, Initializing
<1>9. RootStable => ViewSeen'
  BY <1>1, <1>4 DEF AnswersInv, ViewSeen, View
<1>10. ASSUME RootStable, hasRoot
       PROVE  AstCurrent'
  BY <1>1, <1>5, <1>10 DEF AnswersInv, AstCurrent, TextOf
<1>11. ASSUME RootStable, hasRoot, NEW g \in File \ Volatile
       PROVE  FreshAt(toServer', n, g, tree'.patches[g], ast'[g], disk'[g], S)
  <2>1. FreshAt(toServer, n, g, tree.patches[g], ast[g], disk[g], S)
    <3>1. <<g, View(buffer, disk, g)>> \in S /\ (g \in unheard => {g} \X Content \subseteq S)
      OBVIOUS
    <3> HIDE DEF S
    <3>2. QED
      BY <1>1, <1>11, <3>1, AskedFresh
  <2>2. n \in Nat /\ \A j \in 1 .. n - 1 : toServer'[j] = toServer[j]
    BY <1>2, <1>5
  <2> DEFINE t == toServer'
  <2>3. FreshAt(t, n, g, tree.patches[g], ast[g], disk[g], S)
    <3> HIDE DEF S, t
    <3>1. S \subseteq S /\ \A j \in 1 .. n - 1 : t[j] = toServer[j]
      BY <2>2 DEF t
    <3> HIDE DEF n
    <3>2. QED
      BY <2>1, <2>2, <3>1, FreshGrow
  <2>4. QED
    BY <1>1, <2>3
<1>12. RootStable /\ hasRoot => CallsFresh'
  <2> SUFFICES ASSUME RootStable, hasRoot, NEW k \in Calls(toServer'), NEW g \in File \ Volatile
               PROVE  FreshAt(toServer', k, g, tree'.patches[g], ast'[g], disk'[g],
                              seen'[toServer'[k].id])
    BY DEF CallsFresh
  <2>1. CASE k \in Calls(toServer)
    BY <1>1, <1>6, <2>1
  <2>2. CASE k = n
    <3>1. seen'[toServer'[k].id] = S
      BY <1>3, <1>4, <1>5, <2>2
    <3> HIDE DEF S, n
    <3>2. QED
      BY <1>11, <2>2, <3>1
  <2>3. QED
    BY <1>6, <2>1, <2>2
<1>13. (~hasRoot => ast = Blank)' /\ (\A g \in File \ Volatile : disk[g] \in Content)'
  BY <1>1 DEF AnswersInv, Blank
<1>14. (RootStable => ViewSeen)' /\ (RootStable /\ hasRoot /\ running => AstCurrent /\ CallsFresh)'
  BY <1>1, <1>9, <1>10, <1>12 DEF RootStable
<1>15. QED
  BY <1>6, <1>7, <1>8, <1>13, <1>14 DEF AnswersInv

(* What Witness puts down is all it does to the histories.                    *)
LEMMA WitnessGrows ==
    ASSUME TypeOK, NEW f, NEW t, Witness(f, t)
    PROVE  /\ DOMAIN seen' = DOMAIN seen
           /\ \A i \in DOMAIN seen : seen'[i] = seen[i] \union {<<f, t>>}
BY DEF Witness

(* A step of the editor keeps the strengthening.                              *)
LEMMA EditorAnswers ==
    ASSUME TypeOK, OverlayInv, AnswersInv, Editor
    PROVE  AnswersInv'
<1> USE DEF diskVars, serverVars, historyVars
<1>1. 0 \in 0 .. MaxCalls /\ NoText \in Text /\ Content \subseteq Text
  BY DEF Text
<1>2. /\ buffer \in [File -> Text] /\ disk \in [File -> Content \union {Absent, Unreadable}]
      /\ Startup
  BY DEF TypeOK, OverlayInv
<1>3. CASE Initialize
  <2>1. PICK r \in BOOLEAN : SendToServer(InitializeRequest(r))
    BY <1>3 DEF Initialize
  <2>2. /\ InitializeRequest(r) \in ToServer /\ InitializeRequest(r).id = 0
        /\ InitializeRequest(r).method = "initialize"
    BY <1>1, EditorMessageType DEF InitializeRequest
  <2>3. /\ phase = "fresh" /\ phase' = "starting"
        /\ toServer' = Append(toServer, InitializeRequest(r))
        /\ UNCHANGED <<buffer, disk, seen, tree, ast, hasRoot, running, toClient>>
    BY <1>3, <2>1 DEF Initialize, SendToServer
  <2>4. ~hasRoot /\ (RootStable => ViewSeen') /\ \A f \in File \ Volatile : disk'[f] \in Content
    BY <2>3 DEF AnswersInv, ViewSeen, View
  <2>5. QED
    BY <1>2, <2>2, <2>3, <2>4, NoticeAnswers
<1>4. ASSUME NEW f \in File, NEW c \in Content, Edit(f, c)
      PROVE  AnswersInv'
  <2>1. PICK t \in {c, NoText} : SendToServer(Notification("didChange", f, t))
    BY <1>4 DEF Edit
  <2>2. /\ Notification("didChange", f, t) \in ToServer
        /\ Notification("didChange", f, t).id = 0
        /\ Notification("didChange", f, t).method = "didChange"
    BY <1>1, EditorMessageType DEF Notification
  <2>3. /\ phase = "ready" /\ phase' = "ready"
        /\ toServer' = Append(toServer, Notification("didChange", f, t))
        /\ buffer' = [buffer EXCEPT ![f] = c]
        /\ UNCHANGED <<disk, tree, ast, hasRoot, running, toClient>>
    BY <1>4, <2>1 DEF Edit, SendToServer
  <2>4. /\ DOMAIN seen' = DOMAIN seen
        /\ \A i \in DOMAIN seen : seen'[i] = seen[i] \union {<<f, c>>}
    BY <1>4, WitnessGrows DEF Edit
  <2>5. RootStable => ViewSeen'
    BY <1>2, <2>3, <2>4, NoText \notin Content DEF AnswersInv, ViewSeen, View
  <2>6. \A g \in File \ Volatile : disk'[g] \in Content
    BY <2>3 DEF AnswersInv
  <2>7. QED
    BY <1>2, <2>2, <2>3, <2>4, <2>5, <2>6, NoticeAnswers
<1>5. ASSUME NEW f \in File, Save(f)
      PROVE  AnswersInv'
  <2>1. /\ Notification("didSave", f, NoText) \in ToServer
        /\ Notification("didSave", f, NoText).id = 0
        /\ Notification("didSave", f, NoText).method = "didSave"
    BY <1>1, EditorMessageType DEF Notification, Notice
  <2>2. /\ phase = "ready" /\ phase' = "ready" /\ buffer[f] \in Content
        /\ toServer' = Append(toServer, Notification("didSave", f, NoText))
        /\ buffer' = [buffer EXCEPT ![f] = NoText] /\ disk' = [disk EXCEPT ![f] = buffer[f]]
        /\ UNCHANGED <<seen, tree, ast, hasRoot, running, toClient>>
    BY <1>2, <1>5 DEF Save, SendToServer, Text
  <2>3. \A g \in File : View(buffer', disk', g) = View(buffer, disk, g)
    BY <1>2, <2>2 DEF View
  <2>4. RootStable => ViewSeen'
    BY <2>2, <2>3 DEF AnswersInv, ViewSeen
  <2>5. \A g \in File \ Volatile : disk'[g] \in Content
    BY <1>2, <2>2 DEF AnswersInv
  <2>6. RootStable => \A g \in File \ Volatile :
           disk'[g] = disk[g] \/ \A i \in DOMAIN seen : <<g, disk'[g]>> \in seen'[i]
    BY <1>2, <2>2 DEF AnswersInv, ViewSeen, View
  <2>7. QED
    BY <1>2, <2>1, <2>2, <2>4, <2>5, <2>6, NoticeAnswers
<1>6. ASSUME NEW f \in File, Discard(f)
      PROVE  AnswersInv'
  <2>1. /\ Notification("didClose", f, NoText) \in ToServer
        /\ Notification("didClose", f, NoText).id = 0
        /\ Notification("didClose", f, NoText).method = "didClose"
    BY <1>1, EditorMessageType DEF Notification, Notice
  <2>2. /\ phase = "ready" /\ phase' = "ready"
        /\ toServer' = Append(toServer, Notification("didClose", f, NoText))
        /\ buffer' = [buffer EXCEPT ![f] = NoText]
        /\ UNCHANGED <<disk, tree, ast, hasRoot, running, toClient>>
    BY <1>6 DEF Discard, SendToServer
  <2>3. /\ DOMAIN seen' = DOMAIN seen
        /\ \A i \in DOMAIN seen : seen'[i] = seen[i] \union {<<f, disk[f]>>}
    BY <1>6, WitnessGrows DEF Discard
  <2>4. RootStable => ViewSeen'
    BY <1>2, <2>2, <2>3 DEF AnswersInv, ViewSeen, View
  <2>5. \A g \in File \ Volatile : disk'[g] \in Content
    BY <2>2 DEF AnswersInv
  <2>6. QED
    BY <1>2, <2>1, <2>2, <2>3, <2>4, <2>5, NoticeAnswers
<1>7. ASSUME NEW m \in Call, NEW f \in File, Ask(m, f)
      PROVE  AnswersInv'
  BY <1>7, AskAnswers
<1>8. QED
  BY <1>3, <1>4, <1>5, <1>6, <1>7 DEF Editor

(* Reading a message and changes of volatile files do not touch what the      *)
(* waiting calls will find in the other files.                                *)
LEMMA OutsideAnswers ==
    ASSUME TypeOK, Startup, AnswersInv,
           ClientReceive \/ (\E f \in File : FileChanges(f)) \/ OptionsFileChanges
    PROVE  AnswersInv'
<1>1. UNCHANGED <<toServer, buffer, tree, ast, hasRoot, running, seen>>
  BY DEF ClientReceive, FileChanges, OptionsFileChanges, editorVars, serverVars, historyVars
<1>2. \A f \in File \ Volatile : disk'[f] = disk[f]
  BY DEF ClientReceive, FileChanges, OptionsFileChanges, diskVars, TypeOK
<1>3. phase' = "fresh" => phase = "fresh"
  BY DEF ClientReceive, FileChanges, OptionsFileChanges, editorVars
<1>4. \/ toClient' = toClient
      \/ toClient # <<>> /\ toClient' = Tail(toClient)
  BY DEF ClientReceive, FileChanges, OptionsFileChanges, editorVars
<1>5. \A k \in DOMAIN toClient' : \E j \in DOMAIN toClient : toClient'[k] = toClient[j]
  <2>1. toClient \in Seq(ToClient)
    BY DEF TypeOK
  <2>2. CASE toClient # <<>> /\ toClient' = Tail(toClient)
    <3>1. \A k \in DOMAIN toClient' : k + 1 \in DOMAIN toClient /\ toClient'[k] = toClient[k + 1]
      BY <2>1, <2>2
    <3>2. QED
      BY <3>1
  <2>3. QED
    BY <1>4, <2>2
<1>6. CallsKnown'
  BY <1>1, <1>5 DEF AnswersInv, CallsKnown, Calls
<1>7. AnswersFresh'
  BY <1>1, <1>5 DEF AnswersInv, AnswersFresh, RootStable
<1>8. (RootStable => ViewSeen)'
  BY <1>1, <1>2 DEF AnswersInv, ViewSeen, View, RootStable
<1>9. (RootStable /\ hasRoot /\ running => AstCurrent /\ CallsFresh)'
  <2> SUFFICES ASSUME RootStable, hasRoot, running PROVE AstCurrent' /\ CallsFresh'
    BY <1>1 DEF RootStable
  <2>1. AstCurrent'
    BY <1>1, <1>2 DEF AnswersInv, AstCurrent, TextOf
  <2>2. CallsFresh'
    BY <1>1, <1>2 DEF AnswersInv, CallsFresh, Calls
  <2>3. QED
    BY <2>1, <2>2
<1>10. (~hasRoot => ast = Blank)' /\ (\A f \in File \ Volatile : disk[f] \in Content)'
  BY <1>1, <1>2 DEF AnswersInv, Blank
<1>11. (phase = "fresh" \/ Initializing => ~hasRoot)'
  BY <1>1, <1>3 DEF AnswersInv, Initializing
<1>12. QED
  BY <1>6, <1>7, <1>8, <1>9, <1>10, <1>11 DEF AnswersInv

(* Serving a message that is not initialize keeps the strengthening, provided *)
(* load_tree takes the message's text for its file, merges overlay and disk,  *)
(* and is the only thing that replaces the merged texts.                      *)
LEMMA ServedAnswers ==
    ASSUME TypeOK, AnswersInv, NEW methods, Receive(methods),
           hasRoot' = hasRoot, running' => running,
           ~hasRoot => ast' = ast,
           CallsKnown', AnswersFresh',
           RootStable /\ hasRoot /\ running' =>
              \A f \in File \ Volatile :
                 /\ tree'.patches[f] = IF CausesLoad(Head(toServer)) /\ Head(toServer).file = f
                                       THEN Head(toServer).text ELSE tree.patches[f]
                 /\ CausesLoad(Head(toServer)) =>
                       ast'[f] = NoText \/ ast'[f] = TextOf(tree'.patches, f)
                 /\ ~CausesLoad(Head(toServer)) => ast'[f] = ast[f]
    PROVE  AnswersInv'
<1> DEFINE msg == Head(toServer)
<1>1. /\ toServer \in Seq(ToServer) /\ toServer # <<>> /\ toServer' = Tail(toServer)
      /\ running
      /\ UNCHANGED <<phase, buffer, disk, seen>>
  BY DEF Receive, TypeOK, editorVars, diskVars, historyVars
<1>2. /\ msg = toServer[1] /\ 1 \in DOMAIN toServer
      /\ \A k \in DOMAIN toServer' : /\ k + 1 \in 2 .. Len(toServer) /\ k \in Nat
                                     /\ k + 1 \in DOMAIN toServer
                                     /\ toServer'[k] = toServer[k + 1]
      /\ \A k \in DOMAIN toServer : k = 1 \/ (k - 1 \in DOMAIN toServer' /\ toServer'[k - 1] = toServer[k])
  BY <1>1
<1>3. (~hasRoot => ast = Blank)' /\ (\A f \in File \ Volatile : disk[f] \in Content)'
  BY <1>1 DEF AnswersInv, Blank
<1>4. (phase = "fresh" \/ Initializing => ~hasRoot)'
  BY <1>1, <1>2 DEF AnswersInv, Initializing
<1>5. (RootStable => ViewSeen)'
  BY <1>1 DEF AnswersInv, RootStable, ViewSeen, View
<1>6. ASSUME RootStable, hasRoot, running'
      PROVE  AstCurrent'
  <2> SUFFICES ASSUME NEW f \in File \ Volatile, ast'[f] # NoText,
                      \A k \in DOMAIN toServer' : toServer'[k].method # "didSave"
               PROVE  ast'[f] = TextOf(tree'.patches, f)
    BY <1>1 DEF AstCurrent, TextOf
  <2>1. CASE CausesLoad(msg)
    BY <1>6, <2>1
  <2>2. CASE ~CausesLoad(msg)
    <3>1. \A k \in DOMAIN toServer : toServer[k].method # "didSave"
      BY <1>2, <2>2 DEF CausesLoad
    <3>2. ast[f] = TextOf(tree.patches, f)
      BY <1>1, <1>6, <2>2, <3>1 DEF AnswersInv, AstCurrent
    <3>3. QED
      BY <1>6, <2>2, <3>2 DEF TextOf
  <2>3. QED
    BY <2>1, <2>2
<1>7. ASSUME RootStable, hasRoot, running', NEW k \in Calls(toServer'), NEW f \in File \ Volatile
      PROVE  FreshAt(toServer', k, f, tree'.patches[f], ast'[f], disk[f], seen[toServer'[k].id])
  <2> DEFINE n == k + 1
             S == seen[toServer[n].id]
             p == tree.patches[f]
             q == tree'.patches[f]
             a == ast[f]
             b == ast'[f]
             d == disk[f]
  <2>1. /\ n \in 2 .. Len(toServer) /\ n - 1 = k
        /\ n \in Calls(toServer) /\ toServer'[k] = toServer[n]
    BY <1>2 DEF Calls
  <2>2. FreshAt(toServer, n, f, p, a, d, S)
    BY <1>1, <1>7, <2>1 DEF AnswersInv, CallsFresh
  <2>3. q = IF CausesLoad(msg) /\ msg.file = f THEN msg.text ELSE p
    BY <1>7
  <2>4. CausesLoad(msg) => b = NoText \/ b = (IF q # NoText THEN q ELSE d)
    BY <1>7 DEF TextOf
  <2>5. ~CausesLoad(msg) => b = a
    BY <1>7
  <2> HIDE DEF n, S, p, q, a, b, d
  <2>6. FreshAt(Tail(toServer), n - 1, f, q, b, d, S)
    BY <1>1, <2>1, <2>2, <2>3, <2>4, <2>5, FreshTail
  <2>7. QED
    BY <1>1, <2>1, <2>6 DEF n, S, p, q, a, b, d
<1>8. (RootStable /\ hasRoot /\ running => AstCurrent /\ CallsFresh)'
  BY <1>1, <1>6, <1>7 DEF RootStable, CallsFresh
<1>9. QED
  BY <1>3, <1>4, <1>5, <1>8 DEF AnswersInv

(* What load_tree writes is no reply to a call.                               *)
LEMMA LoadTreeSilent ==
    ASSUME TypeOK, NEW p \in [File -> Text], NEW reply,
           reply = <<>> \/ reply = <<Reply(0, Root, NoText)>>, LoadTree(p, reply)
    PROVE  /\ Calls(toClient') = Calls(toClient)
           /\ \A k \in Calls(toClient') : toClient'[k] = toClient[k]
<1> DEFINE blank == Reply(0, Root, NoText)
<1>1. PICK m \in [File -> Text] : Publish(m, reply) \/ Publish(m, <<>>)
  BY LoadTreePublishes
<1> DEFINE batch == Diagnostics(tree.childFiles, m)
<1>2. /\ batch \in ToClient /\ blank \in ToClient
      /\ batch.id = 0 /\ blank.id = 0
  BY MessageType, BlankType, 0 \in 0 .. MaxCalls DEF TypeOK, Text, Diagnostics, Reply
<1>3. toClient \in Seq(ToClient) /\ Append(toClient, batch) \in Seq(ToClient)
  BY <1>2 DEF TypeOK
<1>4. \/ toClient' = Append(toClient, batch)
      \/ toClient' = Append(Append(toClient, batch), blank)
  <2>1. \/ toClient' = toClient \o <<batch>> \o <<>>
        \/ toClient' = toClient \o <<batch>> \o <<blank>>
    BY <1>1 DEF Publish
  <2> HIDE DEF batch, blank
  <2>2. QED
    BY <1>2, <1>3, <2>1, ConcatAppend
<1> HIDE DEF batch, blank
<1>5. \A k \in DOMAIN toClient' :
         (k \in DOMAIN toClient /\ toClient'[k] = toClient[k]) \/ toClient'[k].id = 0
  BY <1>2, <1>3, <1>4, SMTT(30)
<1>6. DOMAIN toClient \subseteq DOMAIN toClient' /\ \A k \in DOMAIN toClient : toClient'[k] = toClient[k]
  BY <1>2, <1>3, <1>4
<1>7. QED
  BY <1>5, <1>6 DEF Calls

(* load_tree merges, for every file it reaches, its overlay text or the file. *)
LEMMA LoadTreeTexts ==
    ASSUME TypeOK, RootThere, RootStable, hasRoot', running',
           NEW p \in [File -> Text], NEW reply, LoadTree(p, reply)
    PROVE  /\ tree'.patches = p
           /\ \A f \in File : ast'[f] = NoText \/ ast'[f] = TextOf(p, f)
BY LoadTreeOverlay DEF Merge

(* load_tree without a workspace folder leaves everything as it was.          *)
LEMMA LoadTreeRootless ==
    ASSUME NEW p, NEW reply, LoadTree(p, reply), ~hasRoot'
    PROVE  UNCHANGED <<ast, running>>
BY DEF LoadTree, NoMesonBuild, BuildCrashes, OptionsCrash, OptionsMalformed, Analyse, Rebuild

(* A message that makes the server load the tree anew.                        *)
LEMMA LoadAnswers ==
    ASSUME TypeOK, OverlayInv, AnswersInv, NEW methods, Receive(methods), UNCHANGED hasRoot,
           CausesLoad(Head(toServer)),
           LoadTree([tree.patches EXCEPT ![Head(toServer).file] = Head(toServer).text], <<>>)
    PROVE  AnswersInv'
<1> DEFINE msg == Head(toServer)
           p == [tree.patches EXCEPT ![msg.file] = msg.text]
<1>1. /\ msg \in ToServer
      /\ toServer \in Seq(ToServer) /\ toServer # <<>> /\ toServer' = Tail(toServer)
      /\ running
      /\ UNCHANGED <<disk, seen>>
  BY ReceiveType DEF Receive, TypeOK, diskVars, historyVars
<1>2. p \in [File -> Text] /\ tree.patches \in [File -> Text]
  BY <1>1 DEF TypeOK, ToServer
<1>3. \A k \in Calls(toClient') : k \in Calls(toClient) /\ toClient'[k] = toClient[k]
  BY <1>2, LoadTreeSilent
<1>4. AnswersFresh'
  BY <1>1, <1>3 DEF AnswersInv, AnswersFresh, Calls, RootStable
<1>5. \A k \in Calls(toServer') : k + 1 \in Calls(toServer) /\ toServer'[k] = toServer[k + 1]
  BY <1>1 DEF Calls
<1>6. CallsKnown'
  BY <1>1, <1>3, <1>5 DEF AnswersInv, CallsKnown
<1>7. ~hasRoot => ast' = ast
  BY LoadTreeRootless
<1>8. ASSUME RootStable, hasRoot, running', NEW f \in File \ Volatile
      PROVE  /\ tree'.patches[f] = IF msg.file = f THEN msg.text ELSE tree.patches[f]
             /\ ast'[f] = NoText \/ ast'[f] = TextOf(tree'.patches, f)
  <2>1. RootThere
    BY DEF OverlayInv
  <2>2. tree'.patches = p /\ (ast'[f] = NoText \/ ast'[f] = TextOf(p, f))
    <3> HIDE DEF p
    <3>1. QED
      BY <1>2, <1>8, <2>1, LoadTreeTexts DEF p
  <2>3. QED
    BY <1>2, <2>2
<1>9. QED
  BY <1>1, <1>4, <1>6, <1>7, <1>8, ServedAnswers

(* A call with a handler: what the reply points into is the text merged for a *)
(* file, and nothing came between the call and the reply but what the user    *)
(* has seen.                                                                  *)
LEMMA QueryAnswers ==
    ASSUME TypeOK, AnswersInv, NEW methods, Receive(methods), methods \subseteq Handled,
           NEW f \in File, NEW t \in Text, t = NoText \/ t = ast[f],
           Answer(Head(toServer).id, f, t)
    PROVE  AnswersInv'
<1> DEFINE msg == Head(toServer)
           r == Reply(msg.id, f, t)
<1>1. /\ toServer \in Seq(ToServer) /\ toServer # <<>> /\ toServer' = Tail(toServer)
      /\ msg \in ToServer /\ msg.method \in Handled
      /\ msg = toServer[1] /\ 1 \in DOMAIN toServer
      /\ running
      /\ UNCHANGED <<disk, seen, tree, ast, running, hasRoot>>
  BY ReceiveType DEF Receive, TypeOK, diskVars, historyVars, Answer, serverVars
<1>2. r \in ToClient /\ r.id = msg.id /\ r.file = f /\ r.text = t
  <2>1. msg.id \in 0 .. MaxCalls
    BY <1>1 DEF ToServer
  <2>2. r \in ToClient
    BY <2>1, MessageType, BlankType
  <2>3. QED
    BY <2>2 DEF Reply
<1>3. toClient \in Seq(ToClient) /\ toClient' = Append(toClient, r)
  BY DEF TypeOK, Answer
<1> HIDE DEF r
<1>4. \A k \in DOMAIN toClient' :
         (k \in DOMAIN toClient /\ toClient'[k] = toClient[k]) \/ toClient'[k] = r
  BY <1>2, <1>3
<1>5. \A k \in Calls(toServer') : k + 1 \in Calls(toServer) /\ toServer'[k] = toServer[k + 1]
  BY <1>1 DEF Calls
<1>6. msg.id # 0 => 1 \in Calls(toServer) /\ msg.id \in DOMAIN seen
  BY <1>1 DEF AnswersInv, CallsKnown, Calls
<1>7. CallsKnown'
  BY <1>1, <1>2, <1>4, <1>5, <1>6 DEF AnswersInv, CallsKnown, Calls
<1>8. ASSUME RootStable, msg.id # 0, t # NoText, f \notin Volatile
      PROVE  <<f, t>> \in seen[msg.id]
  <2>1. t = ast[f] /\ hasRoot
    BY <1>8 DEF AnswersInv, Blank
  <2>2. FreshAt(toServer, 1, f, tree.patches[f], ast[f], disk[f], seen[msg.id])
    BY <1>1, <1>6, <1>8, <2>1 DEF AnswersInv, CallsFresh
  <2>3. 1 .. 1 - 1 = {}
    OBVIOUS
  <2>4. QED
    BY <1>8, <2>1, <2>2, <2>3 DEF FreshAt
<1>9. AnswersFresh'
  BY <1>1, <1>2, <1>4, <1>8 DEF AnswersInv, AnswersFresh, RootStable
<1>10. ~CausesLoad(msg)
  BY <1>1 DEF CausesLoad, Handled
<1>11. QED
  BY <1>1, <1>7, <1>9, <1>10, ServedAnswers

(* A message the server disregards only leaves the pipe.                      *)
LEMMA IgnoredAnswers ==
    ASSUME TypeOK, AnswersInv, NEW methods, Receive(methods), ~CausesLoad(Head(toServer)),
           UNCHANGED <<toClient, serverVars>>
    PROVE  AnswersInv'
<1>1. /\ toServer \in Seq(ToServer) /\ toServer # <<>> /\ toServer' = Tail(toServer)
      /\ UNCHANGED <<disk, seen, toClient, tree, ast, running, hasRoot>>
  BY DEF Receive, TypeOK, diskVars, historyVars, serverVars
<1>2. \A k \in Calls(toServer') : k + 1 \in Calls(toServer) /\ toServer'[k] = toServer[k + 1]
  BY <1>1 DEF Calls
<1>3. CallsKnown' /\ AnswersFresh'
  BY <1>1, <1>2 DEF AnswersInv, CallsKnown, AnswersFresh, Calls, RootStable
<1>4. QED
  BY <1>1, <1>3, ServedAnswers

(* initialize is the only message there is when it is served, and finds the   *)
(* server without a tree.                                                     *)
LEMMA InitializeAnswers ==
    ASSUME TypeOK, OverlayInv, AnswersInv, HandleInitialize
    PROVE  AnswersInv'
<1>1. /\ toServer \in Seq(ToServer) /\ toServer # <<>> /\ toServer' = Tail(toServer)
      /\ toServer[1].method = "initialize" /\ 1 \in DOMAIN toServer
      /\ UNCHANGED <<phase, buffer, disk, seen>>
  BY DEF HandleInitialize, Receive, TypeOK, editorVars, diskVars, historyVars
<1>2. phase = "starting" /\ Len(toServer) = 1
  BY <1>1 DEF OverlayInv, Startup
<1>3. toServer' = <<>>
  BY <1>1, <1>2
<1>4. ~hasRoot /\ ast = Blank
  BY <1>1 DEF AnswersInv, Initializing
<1>5. LoadTree(Blank, <<Reply(0, Root, NoText)>>)
  BY DEF HandleInitialize
<1>6. \A k \in Calls(toClient') : k \in Calls(toClient) /\ toClient'[k] = toClient[k]
  BY <1>5, BlankType, LoadTreeSilent
<1>7. CallsKnown' /\ AnswersFresh'
  BY <1>1, <1>3, <1>6 DEF AnswersInv, CallsKnown, AnswersFresh, Calls, RootStable
<1>8. (~hasRoot => ast = Blank)'
  BY <1>4, <1>5, LoadTreeRootless DEF Blank
<1>9. (RootStable /\ hasRoot /\ running => AstCurrent /\ CallsFresh)'
  <2> SUFFICES ASSUME RootStable, hasRoot', running' PROVE AstCurrent' /\ CallsFresh'
    BY DEF RootStable
  <2>1. RootThere
    BY DEF OverlayInv
  <2>2. tree'.patches = Blank /\ \A f \in File : ast'[f] = NoText \/ ast'[f] = TextOf(Blank, f)
    BY <1>5, <2>1, BlankType, LoadTreeTexts
  <2>3. AstCurrent'
    BY <1>1, <2>2 DEF AstCurrent, TextOf
  <2>4. CallsFresh'
    BY <1>3 DEF CallsFresh, Calls
  <2>5. QED
    BY <2>3, <2>4
<1>10. (RootStable => ViewSeen)' /\ (\A f \in File \ Volatile : disk[f] \in Content)'
  BY <1>1 DEF AnswersInv, RootStable, ViewSeen, View
<1>11. (phase = "fresh" \/ Initializing => ~hasRoot)'
  BY <1>1, <1>2, <1>3 DEF Initializing
<1>12. QED
  BY <1>7, <1>8, <1>9, <1>10, <1>11 DEF AnswersInv

(* A step of the server keeps the strengthening.                              *)
LEMMA ServerAnswers ==
    ASSUME TypeOK, OverlayInv, AnswersInv, Server
    PROVE  AnswersInv'
<1> DEFINE msg == Head(toServer)
<1>1. ast \in [File -> Text] /\ NoText \in Text
  BY DEF TypeOK, Text
<1>2. CASE HandleInitialize
  BY <1>2, InitializeAnswers
<1>3. CASE HandleDidChange
  <2>1. Receive({"didChange"}) /\ hasRoot' = hasRoot /\ msg.method = "didChange"
    BY <1>3 DEF HandleDidChange, Receive
  <2>2. CASE msg.text = NoText /\ UNCHANGED <<toClient, tree, ast, options, running, published>>
    BY <2>1, <2>2, IgnoredAnswers DEF CausesLoad, serverVars
  <2>3. CASE msg.text # NoText /\ LoadTree(DidChangePatches(msg), <<>>)
    BY <2>1, <2>3, LoadAnswers DEF CausesLoad, DidChangePatches
  <2>4. QED
    BY <1>3, <2>2, <2>3 DEF HandleDidChange
<1>4. CASE HandleDidSave
  <2>1. Receive({"didSave"}) /\ hasRoot' = hasRoot
    BY <1>4 DEF HandleDidSave
  <2>2. msg.method = "didSave" /\ msg.text = NoText
    BY <2>1, ReceiveType DEF ToServer
  <2>3. LoadTree([tree.patches EXCEPT ![msg.file] = msg.text], <<>>)
    BY <1>4, <2>2 DEF HandleDidSave, DidSavePatches
  <2>4. QED
    BY <2>1, <2>2, <2>3, LoadAnswers DEF CausesLoad
<1>5. CASE HandleOther
  <2>1. Receive({"didClose"} \union (Call \ Handled)) /\ UNCHANGED <<toClient, serverVars>>
    BY <1>5 DEF HandleOther
  <2>2. ~CausesLoad(msg)
    BY <2>1 DEF Receive, CausesLoad, Call, Handled
  <2>3. QED
    BY <2>1, <2>2, IgnoredAnswers
<1>6. CASE Hover \/ DocumentSymbol
  <2>1. PICK m \in {"hover", "documentSymbol"} : Receive({m})
    BY <1>6 DEF Hover, DocumentSymbol
  <2>2. msg.file \in File
    BY <2>1, ReceiveType DEF ToServer
  <2>3. Answer(msg.id, msg.file, ast[msg.file]) /\ ast[msg.file] \in Text
    BY <1>1, <1>6, <2>2 DEF Hover, DocumentSymbol
  <2>4. {m} \subseteq Handled
    BY DEF Handled
  <2>5. QED
    BY <2>1, <2>2, <2>3, <2>4, QueryAnswers
<1>7. CASE Definition
  <2>1. Receive({"definition"}) /\ {"definition"} \subseteq Handled
    BY <1>7 DEF Definition, Handled
  <2>2. msg.file \in File
    BY <2>1, ReceiveType DEF ToServer
  <2>3. ASSUME ast[msg.file] # NoText
        PROVE  Includes[msg.file][ast[msg.file]] \subseteq File
    <3>1. ast[msg.file] \in Content
      BY <1>1, <2>2, <2>3 DEF Text
    <3>2. QED
      BY <2>2, <3>1, IncludesAssumption
  <2>4. \/ Answer(msg.id, msg.file, NoText)
        \/ \E g \in File : Answer(msg.id, g, ast[g])
    BY <1>7, <2>3 DEF Definition
  <2>5. PICK g \in File, t \in Text : (t = NoText \/ t = ast[g]) /\ Answer(msg.id, g, t)
    BY <1>1, <2>2, <2>4
  <2>6. QED
    BY <2>1, <2>5, QueryAnswers
<1>8. QED
  BY <1>2, <1>3, <1>4, <1>5, <1>6, <1>7 DEF Server

(* The strengthening holds in every state.                                    *)
LEMMA AnswersInvariant == Spec => []AnswersInv
<1>1. Init => AnswersInv
  <2> SUFFICES ASSUME Init PROVE AnswersInv
    OBVIOUS
  <2>1. toServer = <<>> /\ toClient = <<>> /\ seen = <<>>
    BY DEF Init
  <2>2. Calls(toServer) = {} /\ Calls(toClient) = {} /\ DOMAIN seen = {} /\ ~Initializing
    BY <2>1 DEF Calls, Initializing
  <2>3. CallsKnown /\ AnswersFresh /\ ViewSeen
    BY <2>1, <2>2 DEF CallsKnown, AnswersFresh, ViewSeen
  <2>4. QED
    BY <2>2, <2>3 DEF Init, AnswersInv
<1>2. TypeOK /\ OverlayInv /\ AnswersInv /\ [Next]_vars => AnswersInv'
  <2> SUFFICES ASSUME TypeOK, OverlayInv, AnswersInv, [Next]_vars PROVE AnswersInv'
    OBVIOUS
  <2>1. CASE UNCHANGED vars
    <3>1. UNCHANGED <<phase, buffer, toServer, toClient, disk, running, hasRoot, tree, ast, seen>>
      BY <2>1 DEF vars, editorVars, diskVars, serverVars, historyVars
    <3>2. (CallsKnown /\ AnswersFresh)' /\ (RootStable => ViewSeen)'
      BY <3>1 DEF AnswersInv, CallsKnown, AnswersFresh, ViewSeen, View, Calls, RootStable
    <3>3. (RootStable /\ hasRoot /\ running => AstCurrent /\ CallsFresh)'
      BY <3>1 DEF AnswersInv, AstCurrent, CallsFresh, TextOf, Calls, RootStable
    <3>4. QED
      BY <3>1, <3>2, <3>3 DEF AnswersInv, Initializing, Blank
  <2>2. CASE Server
    BY <2>2, ServerAnswers
  <2>3. CASE Editor
    BY <2>3, EditorAnswers
  <2>4. CASE ClientReceive \/ (\E f \in File : FileChanges(f)) \/ OptionsFileChanges
    BY <2>4, OutsideAnswers DEF OverlayInv
  <2>5. QED
    BY <2>1, <2>2, <2>3, <2>4 DEF Next
<1>3. QED
  BY TypeCorrect, OverlayInvariant, <1>1, <1>2, PTL DEF Spec

(* Whatever is edited, saved, closed and asked while a call waits, and        *)
(* whatever happens to other files: a reply points into a text the user has   *)
(* had in that file since the call.                                           *)
THEOREM AnswersAreFresh == Spec => []AnswersFresh
<1>1. AnswersInv => AnswersFresh
  BY DEF AnswersInv
<1>2. QED
  BY AnswersInvariant, <1>1, PTL

-----------------------------------------------------------------------------
(***************************************************************************)
(* The server implements module Replies because the pipes are queues: the  *)
(* calls are numbered as they are made, so the replies the editor has, the *)
(* replies on their way and the calls that wait come in this order.        *)
(***************************************************************************)
Ordered(s) == \A j, k \in Calls(s) : j < k => s[j].id < s[k].id

CallsOrdered ==
    /\ \A k \in Calls(toClient) : toClient[k].type = "reply"
    /\ \A j \in DOMAIN answers : answers[j].id \in DOMAIN seen
    /\ Ordered(toClient)
    /\ Ordered(toServer)
    /\ \A j \in DOMAIN answers, k \in Calls(toClient) : answers[j].id < toClient[k].id
    /\ \A j \in DOMAIN answers, k \in Calls(toServer) : answers[j].id < toServer[k].id
    /\ \A j \in Calls(toClient), k \in Calls(toServer) : toClient[j].id < toServer[k].id

(* Serving a message takes it off its pipe and replies to no other call.      *)
LEMMA ServerCalls ==
    ASSUME TypeOK, Server
    PROVE  /\ toServer # <<>> /\ toServer' = Tail(toServer)
           /\ UNCHANGED <<answers, seen>>
           /\ \/ /\ Calls(toClient') = Calls(toClient)
                 /\ \A k \in Calls(toClient) : toClient'[k] = toClient[k]
              \/ \E f \in File, t \in Text :
                    toClient' = Append(toClient, Reply(Head(toServer).id, f, t))
<1> DEFINE msg == Head(toServer)
           Silent == /\ Calls(toClient') = Calls(toClient)
                     /\ \A k \in Calls(toClient) : toClient'[k] = toClient[k]
<1>1. ASSUME NEW methods, Receive(methods)
      PROVE  /\ toServer # <<>> /\ toServer' = Tail(toServer)
             /\ UNCHANGED <<answers, seen>>
             /\ msg \in ToServer
  BY <1>1, ReceiveType DEF Receive, editorVars, historyVars
<1>2. /\ ast \in [File -> Text] /\ NoText \in Text
      /\ tree.patches \in [File -> Text]
  BY DEF TypeOK, Text
<1>3. CASE HandleInitialize
  <2>1. Silent
    BY <1>3, BlankType, LoadTreeSilent DEF HandleInitialize
  <2>2. QED
    BY <1>1, <1>3, <2>1 DEF HandleInitialize
<1>4. CASE HandleDidChange
  <2>1. msg.text \in Text
    BY <1>1, <1>4 DEF HandleDidChange, ToServer
  <2>2. DidChangePatches(msg) \in [File -> Text]
    BY <1>2, <2>1 DEF DidChangePatches
  <2>3. LoadTree(DidChangePatches(msg), <<>>) => Silent
    BY <2>2, LoadTreeSilent
  <2>4. Silent
    BY <1>4, <2>3 DEF HandleDidChange
  <2>5. QED
    BY <1>1, <1>4, <2>4 DEF HandleDidChange
<1>5. CASE HandleDidSave
  <2>1. DidSavePatches(msg) \in [File -> Text]
    BY <1>2 DEF DidSavePatches
  <2>2. Silent
    BY <1>5, <2>1, LoadTreeSilent DEF HandleDidSave
  <2>3. QED
    BY <1>1, <1>5, <2>2 DEF HandleDidSave
<1>6. CASE HandleOther
  BY <1>1, <1>6 DEF HandleOther
<1>7. CASE Hover \/ DocumentSymbol \/ Definition
  <2>1. msg.file \in File
    BY <1>1, <1>7 DEF Hover, DocumentSymbol, Definition, ToServer
  <2>2. ASSUME ast[msg.file] # NoText
        PROVE  Includes[msg.file][ast[msg.file]] \subseteq File
    <3>1. ast[msg.file] \in Content
      BY <1>2, <2>1, <2>2 DEF Text
    <3>2. QED
      BY <2>1, <3>1, IncludesAssumption
  <2>3. \E f \in File : Answer(msg.id, f, NoText) \/ Answer(msg.id, f, ast[f])
    BY <1>7, <2>1, <2>2 DEF Hover, DocumentSymbol, Definition
  <2>4. \E f \in File, t \in Text : toClient' = Append(toClient, Reply(msg.id, f, t))
    BY <1>2, <2>3 DEF Answer
  <2>5. QED
    BY <1>1, <1>7, <2>4 DEF Hover, DocumentSymbol, Definition
<1>8. QED
  BY <1>3, <1>4, <1>5, <1>6, <1>7 DEF Server

Place == File \X (Content \union {Absent, Unreadable})

(* The editor numbers its calls, and what it notices goes to all histories.   *)
LEMMA EditorCalls ==
    ASSUME TypeOK, Editor
    PROVE  /\ UNCHANGED <<answers, toClient>>
           /\ \E msg : /\ toServer' = Append(toServer, msg)
                       /\ \/ /\ msg.id = 0
                             /\ \/ seen' = seen
                                \/ \E p \in Place :
                                      seen' = [i \in DOMAIN seen |-> seen[i] \union {p}]
                          \/ /\ msg.id = Len(seen) + 1
                             /\ \E S \in SUBSET Place : seen' = Append(seen, S)
<1> USE DEF SendToServer, historyVars, editorVars
<1>1. /\ disk \in [File -> Content \union {Absent, Unreadable}]
      /\ buffer \in [File -> Text]
      /\ unheard \subseteq File
  BY DEF TypeOK
<1>2. CASE Initialize
  BY <1>2 DEF Initialize, InitializeRequest
<1>3. ASSUME NEW f \in File, NEW c \in Content, Edit(f, c)
      PROVE  /\ UNCHANGED <<answers, toClient>>
             /\ \E msg : toServer' = Append(toServer, msg) /\ msg.id = 0
             /\ \E p \in Place : seen' = [i \in DOMAIN seen |-> seen[i] \union {p}]
  <2>1. UNCHANGED <<answers, toClient>>
    BY <1>3 DEF Edit
  <2>2. \E msg : toServer' = Append(toServer, msg) /\ msg.id = 0
    BY <1>3 DEF Edit, Notification
  <2>3. <<f, c>> \in Place /\ seen' = [i \in DOMAIN seen |-> seen[i] \union {<<f, c>>}]
    BY <1>3 DEF Edit, Witness, Place
  <2>4. QED
    BY <2>1, <2>2, <2>3
<1>4. ASSUME NEW f \in File, Save(f)
      PROVE  /\ UNCHANGED <<answers, toClient, seen>>
             /\ \E msg : toServer' = Append(toServer, msg) /\ msg.id = 0
  BY <1>4 DEF Save, Notification
<1>5. ASSUME NEW f \in File, Discard(f)
      PROVE  /\ UNCHANGED <<answers, toClient>>
             /\ \E msg : toServer' = Append(toServer, msg) /\ msg.id = 0
             /\ \E p \in Place : seen' = [i \in DOMAIN seen |-> seen[i] \union {p}]
  <2>1. UNCHANGED <<answers, toClient>>
    BY <1>5 DEF Discard
  <2>2. \E msg : toServer' = Append(toServer, msg) /\ msg.id = 0
    BY <1>5 DEF Discard, Notification
  <2>3. /\ <<f, disk[f]>> \in Place
        /\ seen' = [i \in DOMAIN seen |-> seen[i] \union {<<f, disk[f]>>}]
    BY <1>1, <1>5 DEF Discard, Witness, Place
  <2>4. QED
    BY <2>1, <2>2, <2>3
<1>6. ASSUME NEW m \in Call, NEW f \in File, Ask(m, f)
      PROVE  /\ UNCHANGED <<answers, toClient>>
             /\ \E msg : toServer' = Append(toServer, msg) /\ msg.id = Len(seen) + 1
             /\ \E S \in SUBSET Place : seen' = Append(seen, S)
  <2> DEFINE S == {<<g, View(buffer, disk, g)>> : g \in File} \union (unheard \X Content)
  <2>1. \A g \in File : View(buffer, disk, g) \in Content \union {Absent, Unreadable}
    BY <1>1 DEF View, Text
  <2>2. S \subseteq Place
    BY <1>1, <2>1 DEF Place
  <2>3. seen' = Append(seen, S) /\ UNCHANGED <<answers, toClient>>
    BY <1>6 DEF Ask
  <2>4. \E msg : toServer' = Append(toServer, msg) /\ msg.id = Len(seen) + 1
    BY <1>6 DEF Ask, Request
  <2> HIDE DEF S
  <2>5. QED
    BY <2>2, <2>3, <2>4
<1>7. QED
  BY <1>2, <1>3, <1>4, <1>5, <1>6 DEF Editor

(* Taking a message off a pipe shifts the calls among the others.             *)
LEMMA TailCalls ==
    ASSUME NEW M, NEW s \in Seq(M), s # <<>>
    PROVE  /\ Head(s) = s[1] /\ (1 \in Calls(s) <=> Head(s).id # 0)
           /\ \A k \in Calls(Tail(s)) : k \in Nat /\ k + 1 \in Calls(s) /\ Tail(s)[k] = s[k + 1]
           /\ \A k \in Calls(s) : /\ k \in Nat
                                  /\ k = 1 \/ (k > 1 /\ k - 1 \in Calls(Tail(s)) /\ Tail(s)[k - 1] = s[k])
BY DEF Calls

(* A call that comes last in a pipe comes last in the order when its number   *)
(* is the largest.                                                            *)
LEMMA OrderedAppend ==
    ASSUME NEW M, NEW s \in Seq(M), NEW m, Ordered(s), m.id \in Nat,
           \A k \in Calls(s) : s[k].id < m.id \/ m.id = 0
    PROVE  Ordered(Append(s, m))
<1> SUFFICES ASSUME NEW j \in Calls(Append(s, m)), NEW k \in Calls(Append(s, m)), j < k
             PROVE  Append(s, m)[j].id < Append(s, m)[k].id
  BY DEF Ordered
<1> DEFINE t == Append(s, m)
           n == Len(s) + 1
<1>1. n \in Nat
  OBVIOUS
<1>2. \A i \in Calls(s) : i \in Calls(t) /\ t[i] = s[i] /\ i \in Nat /\ i < n
  BY DEF Calls
<1>3. \A i \in Calls(t) : i \in Calls(s) \/ (i = n /\ t[i] = m /\ m.id # 0)
  BY DEF Calls
<1> HIDE DEF t, n
<1>4. j \in Calls(s)
  BY <1>1, <1>2, <1>3 DEF t
<1>5. CASE k \in Calls(s)
  BY <1>2, <1>4, <1>5 DEF Ordered, t
<1>6. CASE k \notin Calls(s)
  BY <1>2, <1>3, <1>4, <1>6 DEF t
<1>7. QED
  BY <1>5, <1>6

(* Taking a message off a pipe keeps its calls in order.                      *)
LEMMA OrderedTail ==
    ASSUME NEW M, NEW s \in Seq(M), s # <<>>, Ordered(s)
    PROVE  Ordered(Tail(s))
<1> SUFFICES ASSUME NEW j \in Calls(Tail(s)), NEW k \in Calls(Tail(s)), j < k
             PROVE  Tail(s)[j].id < Tail(s)[k].id
  BY DEF Ordered
<1>1. /\ j \in Nat /\ j + 1 \in Calls(s) /\ Tail(s)[j] = s[j + 1]
      /\ k \in Nat /\ k + 1 \in Calls(s) /\ Tail(s)[k] = s[k + 1]
  BY TailCalls, Zenon
<1>2. j + 1 < k + 1
  BY <1>1
<1>3. QED
  BY <1>1, <1>2 DEF Ordered

(* The order of the calls is kept by every step.                              *)
LEMMA OrderKept ==
    ASSUME TypeOK, CallsKnown, CallsOrdered, [Next]_vars
    PROVE  CallsOrdered'
<1>1. /\ toServer \in Seq(ToServer) /\ toClient \in Seq(ToClient) /\ answers \in Seq(ToClient)
      /\ seen \in Seq(SUBSET (File \X (Content \union {Absent, Unreadable})))
  BY DEF TypeOK
<1>2. DOMAIN seen = 1 .. Len(seen) /\ Len(seen) \in Nat
  BY <1>1
<1>3. CASE Server
  <2>1. /\ toServer # <<>> /\ toServer' = Tail(toServer)
        /\ UNCHANGED <<answers, seen>>
    BY <1>3, ServerCalls
  <2>2. Ordered(toServer')
    BY <1>1, <2>1, OrderedTail DEF CallsOrdered
  <2>3. \A k \in Calls(toServer') : k \in Nat /\ k + 1 \in Calls(toServer) /\ toServer'[k] = toServer[k + 1]
    BY <1>1, <2>1, TailCalls
  <2>4. CASE /\ Calls(toClient') = Calls(toClient)
             /\ \A k \in Calls(toClient) : toClient'[k] = toClient[k]
    BY <2>1, <2>2, <2>3, <2>4, ZenonT(40) DEF CallsOrdered, Ordered
  <2>5. ASSUME NEW f \in File, NEW t \in Text,
               toClient' = Append(toClient, Reply(Head(toServer).id, f, t))
        PROVE  CallsOrdered'
    <3> DEFINE h == Head(toServer)
               r == Reply(h.id, f, t)
    <3>1. h = toServer[1] /\ (1 \in Calls(toServer) <=> h.id # 0) /\ h.id \in Nat
      <4>1. h \in ToServer
        BY <1>1, <2>1
      <4>2. QED
        BY <1>1, <2>1, <4>1, TailCalls, MaxCalls \in Nat DEF ToServer
    <3>2. r.id = h.id /\ r.type = "reply"
      BY DEF Reply
    <3>3. h.id # 0 => /\ \A j \in DOMAIN answers : answers[j].id < h.id
                      /\ \A k \in Calls(toClient) : toClient[k].id < h.id
                      /\ \A k \in Calls(toServer') : h.id < toServer'[k].id
      <4>1. \A k \in Nat : k + 1 \in Calls(toServer) /\ k # 0 => 1 < k + 1
        OBVIOUS
      <4>2. \A k \in Calls(toServer') : k # 0
        BY <1>1, <2>1 DEF Calls
      <4>3. QED
        BY <2>3, <3>1, <4>1, <4>2 DEF CallsOrdered, Ordered
    <3> HIDE DEF h, r
    <3>4. Ordered(toClient')
      BY <1>1, <2>5, <3>1, <3>2, <3>3, OrderedAppend DEF CallsOrdered, h, r
    <3>5. \A k \in Calls(toClient') : \/ k \in Calls(toClient) /\ toClient'[k] = toClient[k]
                                      \/ toClient'[k] = r /\ h.id # 0
      <4>1. toClient' = Append(toClient, r)
        BY <2>5 DEF h, r
      <4>2. QED
        BY <1>1, <3>2, <4>1 DEF Calls
    <3>6. QED
      BY <2>1, <2>2, <2>3, <3>2, <3>3, <3>4, <3>5 DEF CallsOrdered
  <2>6. QED
    BY <1>3, <2>4, <2>5, ServerCalls
<1>4. CASE Editor
  <2>1. PICK msg : /\ toServer' = Append(toServer, msg)
                   /\ \/ /\ msg.id = 0
                         /\ \/ seen' = seen
                            \/ \E p \in Place : seen' = [i \in DOMAIN seen |-> seen[i] \union {p}]
                      \/ /\ msg.id = Len(seen) + 1
                         /\ \E S \in SUBSET Place : seen' = Append(seen, S)
    BY <1>4, EditorCalls
  <2>2. UNCHANGED <<answers, toClient>>
    BY <1>4, EditorCalls
  <2>3. DOMAIN seen \subseteq DOMAIN seen'
    BY <1>1, <2>1
  <2>4. \A k \in Calls(toServer') :
           \/ k \in Calls(toServer) /\ toServer'[k] = toServer[k]
           \/ toServer'[k] = msg /\ msg.id = Len(seen) + 1
    <3>1. msg.id = 0 \/ msg.id = Len(seen) + 1
      BY <2>1
    <3>2. \A k \in Calls(toServer') :
             k \in Calls(toServer) \/ (toServer'[k] = msg /\ msg.id # 0)
      BY <1>1, <2>1 DEF Calls
    <3>3. \A k \in Calls(toServer) : toServer'[k] = toServer[k]
      BY <1>1, <2>1 DEF Calls
    <3>4. QED
      BY <3>1, <3>2, <3>3
  <2>5. \A k \in Calls(toServer) : toServer[k].id < msg.id \/ msg.id = 0
    BY <1>2, <2>1 DEF CallsKnown
  <2>6. Ordered(toServer')
    <3>1. msg.id \in Nat
      BY <1>2, <2>1
    <3>2. Ordered(toServer)
      BY DEF CallsOrdered
    <3>3. QED
      BY <1>1, <2>1, <2>5, <3>1, <3>2, OrderedAppend, Zenon
  <2>7. /\ \A j \in DOMAIN answers : answers[j].id < Len(seen) + 1
        /\ \A j \in Calls(toClient) : toClient[j].id < Len(seen) + 1
    BY <1>2 DEF CallsOrdered, CallsKnown
  <2>8. QED
    BY <2>2, <2>3, <2>4, <2>6, <2>7 DEF CallsOrdered
<1>5. CASE ClientReceive
  <2>1. /\ toClient # <<>> /\ toClient' = Tail(toClient)
        /\ UNCHANGED <<toServer, seen>>
        /\ answers' = answers \/ (answers' = Append(answers, Head(toClient)) /\ Head(toClient).id # 0)
    BY <1>5 DEF ClientReceive, historyVars
  <2>2. Ordered(toClient')
    BY <1>1, <2>1, OrderedTail DEF CallsOrdered
  <2>3. \A k \in Calls(toClient') : k \in Nat /\ k + 1 \in Calls(toClient) /\ k # 0 /\ toClient'[k] = toClient[k + 1]
    <3>1. \A k \in Calls(toClient') : k # 0
      BY <1>1, <2>1 DEF Calls
    <3>2. QED
      BY <1>1, <2>1, <3>1, TailCalls
  <2>4. CASE answers' = answers
    BY <2>1, <2>2, <2>3, <2>4 DEF CallsOrdered
  <2>5. CASE answers' = Append(answers, Head(toClient)) /\ Head(toClient).id # 0
    <3>1. 1 \in Calls(toClient) /\ Head(toClient) = toClient[1]
      BY <1>1, <2>1, <2>5, TailCalls
    <3>2. \A j \in DOMAIN answers' : \/ j \in DOMAIN answers /\ answers'[j] = answers[j]
                                     \/ answers'[j] = toClient[1]
      BY <1>1, <2>5, <3>1
    <3>3. toClient[1].id \in DOMAIN seen
      BY <3>1 DEF CallsKnown
    <3>4. \A k \in Calls(toClient') : toClient[1].id < toClient'[k].id
      <4>1. \A k \in Nat : k # 0 => 1 < k + 1
        OBVIOUS
      <4>2. QED
        BY <2>3, <3>1, <4>1 DEF CallsOrdered, Ordered
    <3>5. \A k \in Calls(toServer) : toClient[1].id < toServer[k].id
      BY <3>1 DEF CallsOrdered
    <3>6. QED
      BY <2>1, <2>2, <2>3, <3>2, <3>3, <3>4, <3>5, ZenonT(40) DEF CallsOrdered
  <2>6. QED
    BY <2>1, <2>4, <2>5
<1>6. CASE (\E f \in File : FileChanges(f)) \/ OptionsFileChanges \/ UNCHANGED vars
  <2>1. UNCHANGED <<toServer, toClient, answers, seen>>
    BY <1>6 DEF FileChanges, OptionsFileChanges, vars, editorVars, historyVars
  <2>2. QED
    BY <2>1 DEF CallsOrdered, Ordered, Calls
<1>7. QED
  BY <1>3, <1>4, <1>5, <1>6 DEF Next

(* The order holds in every state.                                            *)
LEMMA OrderInvariant == Spec => []CallsOrdered
<1>1. Init => CallsOrdered
  BY DEF Init, CallsOrdered, Ordered, Calls
<1>2. AnswersInv => CallsKnown
  BY DEF AnswersInv
<1>3. QED
  BY TypeCorrect, AnswersInvariant, OrderKept, <1>1, <1>2, PTL DEF Spec

Sent == {CallReply(toClient[i]) : i \in Calls(toClient)}
Received == [i \in DOMAIN answers |-> CallReply(answers[i])]

(* In the terms of module Replies a step of the server replies to one call    *)
(* that comes after all calls replied to, or does nothing.                    *)
LEMMA ServerReplies ==
    ASSUME TypeOK, Volatile = {}, CallsKnown, CallsOrdered, AnswersFresh', CallsOrdered', Server
    PROVE  \/ UNCHANGED <<seen, Sent, Received>>
           \/ \E i \in DOMAIN seen : Requests!Reply(i)
<1> DEFINE h == Head(toServer)
<1>1. /\ toServer \in Seq(ToServer) /\ toClient \in Seq(ToClient)
      /\ toServer # <<>> /\ toServer' = Tail(toServer)
      /\ UNCHANGED <<answers, seen>>
  BY ServerCalls DEF TypeOK
<1>2. Received' = Received
  BY <1>1 DEF Received
<1>3. CASE /\ Calls(toClient') = Calls(toClient)
           /\ \A k \in Calls(toClient) : toClient'[k] = toClient[k]
  <2>1. Sent' = Sent
    BY <1>3 DEF Sent
  <2>2. QED
    BY <1>1, <1>2, <2>1
<1>4. ASSUME NEW f \in File, NEW t \in Text, toClient' = Append(toClient, Reply(h.id, f, t))
      PROVE  \/ UNCHANGED <<seen, Sent, Received>>
             \/ \E i \in DOMAIN seen : Requests!Reply(i)
  <2> DEFINE n == Len(toClient) + 1
             r == Reply(h.id, f, t)
             place == IF t = NoText THEN NoText ELSE <<f, t>>
  <2>1. /\ r.id = h.id /\ r.file = f /\ r.text = t
        /\ CallReply(r) = [call |-> h.id, place |-> place]
    BY DEF Reply, CallReply
  <2> HIDE DEF r
  <2>2. /\ \A k \in Calls(toClient) : /\ k \in Calls(toClient') /\ toClient'[k] = toClient[k]
                                      /\ k \in Nat /\ k < n
        /\ \A k \in Calls(toClient') : k \in Calls(toClient) \/ k = n
        /\ toClient'[n] = r /\ n \in DOMAIN toClient' /\ n \in Nat
        /\ n \in Calls(toClient') <=> r.id # 0
    BY <1>1, <1>4 DEF Calls, r
  <2> HIDE DEF n
  <2>3. CASE r.id = 0
    <3>1. Calls(toClient') = Calls(toClient)
      BY <2>2, <2>3
    <3>2. Sent' = Sent
      BY <2>2, <3>1 DEF Sent
    <3>3. QED
      BY <1>1, <1>2, <3>2
  <2>4. CASE r.id # 0
    <3>1. h.id \in DOMAIN seen
      BY <1>1, <2>1, <2>4, TailCalls DEF CallsKnown
    <3>2. Sent' = Sent \union {CallReply(r)}
      BY <2>2, <2>4 DEF Sent
    <3>3. \A s \in Sent : s.call < h.id
      BY <2>1, <2>2, <2>4 DEF CallsOrdered, Ordered, Sent, CallReply
    <3>4. \A k \in DOMAIN Received : Received[k].call < h.id
      BY <1>1, <2>1, <2>2, <2>4 DEF CallsOrdered, Received, CallReply
    <3>5. place \in seen[h.id] \union {NoText}
      BY <1>1, <2>1, <2>2, <2>4 DEF AnswersFresh, RootStable
    <3>6. Requests!Reply(h.id)
      BY <1>1, <1>2, <2>1, <3>2, <3>3, <3>4, <3>5 DEF Requests!Reply, Sent, Received
    <3>7. QED
      BY <3>1, <3>6
  <2>5. QED
    BY <2>3, <2>4
<1>5. QED
  BY <1>3, <1>4, ServerCalls

(* A step of the editor makes a call, shows a text or does nothing.           *)
LEMMA EditorReplies ==
    ASSUME TypeOK, Editor
    PROVE  UNCHANGED <<seen, Sent, Received>> \/ Requests!Call \/ Requests!Change
<1>1. UNCHANGED <<Sent, Received>>
  BY EditorCalls DEF Sent, Received, Calls
<1>2. \/ seen' = seen
      \/ \E p \in Place : seen' = [i \in DOMAIN seen |-> seen[i] \union {p}]
      \/ \E S \in SUBSET Place : seen' = Append(seen, S)
  BY EditorCalls
<1>3. QED
  BY <1>1, <1>2 DEF Requests!Call, Requests!Change, Sent, Received, Place

(* Reading a reply to a call receives the reply to the earliest call.         *)
LEMMA ClientReplies ==
    ASSUME TypeOK, CallsOrdered, ClientReceive
    PROVE  UNCHANGED <<seen, Sent, Received>> \/ Requests!Receive
<1> DEFINE h == Head(toClient)
<1>1. /\ toClient \in Seq(ToClient) /\ answers \in Seq(ToClient)
      /\ toClient # <<>> /\ toClient' = Tail(toClient)
      /\ seen' = seen
  BY DEF TypeOK, ClientReceive, historyVars
<1>2. /\ h = toClient[1] /\ (1 \in Calls(toClient) <=> h.id # 0)
      /\ \A k \in Calls(toClient') : /\ k \in Nat /\ k + 1 \in Calls(toClient)
                                     /\ toClient'[k] = toClient[k + 1]
      /\ \A k \in Calls(toClient) : /\ k \in Nat
                                    /\ k = 1 \/ (/\ k > 1 /\ k - 1 \in Calls(toClient')
                                                 /\ toClient'[k - 1] = toClient[k])
  BY <1>1, TailCalls
<1>3. \A k \in Calls(toClient') : k + 1 # 1
  BY <1>1 DEF Calls
<1>4. CASE h.id = 0
  <2>1. answers' = answers
    BY <1>4 DEF ClientReceive
  <2>2. Sent' = Sent
    BY <1>2, <1>4 DEF Sent
  <2>3. QED
    BY <1>1, <2>1, <2>2 DEF Received
<1>5. CASE h.id # 0
  <2>1. answers' = Append(answers, h)
    BY <1>2, <1>5 DEF ClientReceive, CallsOrdered
  <2>2. Received' = Append(Received, CallReply(h))
    BY <1>1, <2>1 DEF Received
  <2>3. CallReply(h) \in Sent
    BY <1>2, <1>5 DEF Sent
  <2>4. \A k \in Calls(toClient) : k # 1 => h.id < toClient[k].id
    BY <1>2, <1>5 DEF CallsOrdered, Ordered
  <2>5. CallReply(h).call = h.id /\ \A k \in Calls(toClient) : toClient[k].id \in Nat
    <3>1. \A m \in ToClient : m.id \in Nat
      BY DEF ToClient
    <3>2. \A k \in Calls(toClient) : toClient[k] \in ToClient
      BY <1>1 DEF Calls
    <3>3. QED
      BY <3>1, <3>2 DEF CallReply
  <2>6. ASSUME NEW s \in Sent
        PROVE  s = CallReply(h) \/ (h.id < s.call /\ s \in Sent')
    <3>1. PICK k \in Calls(toClient) : s = CallReply(toClient[k])
      BY DEF Sent
    <3>2. CASE k = 1
      BY <1>2, <3>1, <3>2
    <3>3. CASE k # 1
      <4>1. h.id < s.call
        BY <2>4, <3>1, <3>3 DEF CallReply
      <4>2. k - 1 \in Calls(toClient') /\ toClient'[k - 1] = toClient[k]
        BY <1>2, <3>3
      <4>3. s \in Sent'
        BY <3>1, <4>2 DEF Sent
      <4>4. QED
        BY <4>1, <4>3
    <3>4. QED
      BY <3>2, <3>3
  <2>7. ASSUME NEW s \in Sent'
        PROVE  s \in Sent /\ s # CallReply(h)
    <3>1. PICK k \in Calls(toClient') : s = CallReply(toClient'[k])
      BY DEF Sent
    <3>2. k + 1 \in Calls(toClient) /\ k + 1 # 1 /\ s = CallReply(toClient[k + 1])
      BY <1>2, <1>3, <3>1
    <3>3. h.id < s.call
      BY <2>4, <3>2 DEF CallReply
    <3>4. h.id \in Nat
      BY <1>2, <1>5, <2>5
    <3>5. s # CallReply(h)
      BY <2>5, <3>3, <3>4
    <3>6. QED
      BY <3>2, <3>5 DEF Sent
  <2>8. Sent' = Sent \ {CallReply(h)}
    <3>1. CallReply(h) \notin Sent'
      BY <2>7
    <3>2. QED
      BY <2>6, <2>7, <3>1
  <2>9. \A s \in Sent : CallReply(h).call <= s.call
    <3>1. \A s \in Sent : s.call = h.id \/ h.id < s.call
      BY <2>5, <2>6
    <3>2. h.id \in Nat /\ \A s \in Sent : s.call \in Nat
      BY <1>2, <1>5, <2>5 DEF Sent, CallReply
    <3>3. QED
      BY <2>5, <3>1, <3>2
  <2>10. Requests!Receive
    BY <1>1, <2>2, <2>3, <2>8, <2>9 DEF Requests!Receive, Sent, Received
  <2>11. QED
    BY <2>10
<1>6. QED
  BY <1>4, <1>5

(* When the files are only the editor's, the server implements Replies: the   *)
(* editor gets at most one reply for each call, in the order of the calls,    *)
(* and each points into a text it has had there since the call.               *)
THEOREM RepliesRefined ==
    ASSUME Volatile = {}
    PROVE  Spec => RepliesSpec
<1>1. Init => Requests!Init
  BY DEF Init, Requests!Init, Calls
<1>2. /\ TypeOK /\ CallsKnown /\ CallsOrdered /\ (CallsOrdered /\ AnswersFresh)'
      /\ [Next]_vars
      => [Requests!Next]_(Requests!vars)
  <2> SUFFICES ASSUME TypeOK, CallsKnown, CallsOrdered, CallsOrdered', AnswersFresh',
                      [Next]_vars
               PROVE  [Requests!Next]_(Requests!vars)
    OBVIOUS
  <2>0. \/ Requests!Call \/ Requests!Change \/ Requests!Receive
        \/ \E i \in DOMAIN seen : Requests!Reply(i)
        => Requests!Next
    BY DEF Requests!Next
  <2>1. UNCHANGED <<seen, Sent, Received>> => [Requests!Next]_(Requests!vars)
    BY DEF Requests!vars, Sent, Received
  <2>2. CASE Server
    BY <2>0, <2>1, <2>2, ServerReplies
  <2>3. CASE Editor
    BY <2>0, <2>1, <2>3, EditorReplies
  <2>4. CASE ClientReceive
    BY <2>0, <2>1, <2>4, ClientReplies
  <2>5. CASE (\E f \in File : FileChanges(f)) \/ OptionsFileChanges \/ UNCHANGED vars
    <3>1. UNCHANGED <<toClient, answers, seen>>
      BY <2>5 DEF FileChanges, OptionsFileChanges, vars, editorVars, historyVars
    <3>2. UNCHANGED <<seen, Sent, Received>>
      BY <3>1 DEF Sent, Received, Calls
    <3>3. QED
      BY <2>1, <3>2
  <2>6. QED
    BY <2>2, <2>3, <2>4, <2>5 DEF Next
<1>3. AnswersInv => CallsKnown /\ AnswersFresh
  BY DEF AnswersInv
<1>4. QED
  BY TypeCorrect, AnswersInvariant, OrderInvariant, <1>1, <1>2, <1>3, PTL
     DEF Spec, RepliesSpec, Requests!Spec
=============================================================================
