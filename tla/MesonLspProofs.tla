--------------------------- MODULE MesonLspProofs ---------------------------
(***************************************************************************)
(* Theorems about module MesonLsp, for every project, every set of texts   *)
(* and every bound: its types, the overlay (OverlayFaithful), the          *)
(* diagnostics (NoStaleDiagnostics), and what it comes to when nothing is  *)
(* under way: the tree is the tree of what the user sees (SettledTree) and *)
(* the editor shows its faults (SettledMarks).                             *)
(***************************************************************************)
EXTENDS MesonLsp, TLAPS

USE RootAssumption, ContentAssumption, BehaviourAssumption

(* What load_tree assigns. *)
ServerType ==
    /\ toClient \in Seq(ToClient)
    /\ running \in BOOLEAN
    /\ hasRoot \in BOOLEAN
    /\ tree \in [patches : [File -> Text], childFiles : SUBSET File]
    /\ ast \in [File -> Text]
    /\ options \in {"empty", "builtin", "project"}
    /\ published \in [File -> Text]

(* What load_tree leaves alone. *)
OtherType ==
    /\ phase \in {"fresh", "starting", "ready"}
    /\ buffer \in [File -> Text]
    /\ shown \in [File -> Text]
    /\ answers \in Seq(ToClient)
    /\ toServer \in Seq(ToServer)
    /\ disk \in [File -> Content \union {Absent, Unreadable}]
    /\ optionsFile \in OptionsState
    /\ seen \in Seq(SUBSET (File \X (Content \union {Absent, Unreadable})))
    /\ unheard \in SUBSET File

(* The two halves of the type invariant. *)
LEMMA TypeHalves == TypeOK <=> ServerType /\ OtherType
BY DEF TypeOK, ServerType, OtherType

(* A batch of diagnostics and a reply are messages to the client.             *)
LEMMA MessageType ==
    ASSUME NEW S \in SUBSET File, NEW m \in [File -> Text],
           NEW i \in 0 .. MaxCalls, NEW f \in File, NEW t \in Text
    PROVE  Diagnostics(S, m) \in ToClient /\ Reply(i, f, t) \in ToClient
BY DEF Diagnostics, Reply, ToClient, Blank, Text

(* Publishing keeps marks texts of files. *)
LEMMA AfterType ==
    ASSUME NEW marks \in [File -> Text], NEW batch \in ToClient
    PROVE  After(marks, batch) \in [File -> Text]
BY DEF After, ToClient, Text

(* merge() and the analysis return texts of files. *)
LEMMA MergeType ==
    ASSUME TypeOK, NEW p \in [File -> Text]
    PROVE  disk[Root] # Absent => Merge(p) \in [File -> Text]
<1> SUFFICES ASSUME disk[Root] # Absent PROVE Merge(p) \in [File -> Text]
  OBVIOUS
<1>1. ASSUME NEW f \in Reached(p) PROVE disk[f] # Absent
  <2> DEFINE S == {g \in File : disk[g] # Absent}
  <2>1. Root \in S
    OBVIOUS
  <2>2. \A g \in S : Subdirs(p, g) \subseteq S
    BY IncludesAssumption DEF Subdirs, TextOf
  <2>3. QED
    BY <1>1, <2>1, <2>2 DEF Reached
<1>2. ASSUME NEW f \in File, f \in Reached(p), TextOf(p, f) # Unreadable
      PROVE  TextOf(p, f) \in Text
  BY <1>1, <1>2 DEF TextOf, TypeOK, Text
<1>3. QED
  BY <1>2 DEF Merge, Text

(* Publishing sends messages of the protocol and records texts of files. *)
LEMMA PublishType ==
    ASSUME TypeOK, NEW m \in [File -> Text], NEW reply \in Seq(ToClient), Publish(m, reply)
    PROVE  toClient' \in Seq(ToClient) /\ published' \in [File -> Text]
<1>1. tree.childFiles \in SUBSET File
  BY DEF TypeOK
<1>2. Diagnostics(tree.childFiles, m) \in ToClient
  BY <1>1, MessageType, 0 \in 0 .. MaxCalls DEF Text
<1>3. toClient' \in Seq(ToClient)
  BY <1>2 DEF Publish, TypeOK
<1>4. published' \in [File -> Text]
  BY <1>2, AfterType DEF Publish, TypeOK
<1>5. QED
  BY <1>3, <1>4

LEMMA BlankType == Blank \in [File -> Text]
BY DEF Blank, Text

LEMMA MarksType ==
    ASSUME NEW a \in [File -> Text]
    PROVE  Marks(a) \in [File -> Text]
BY DEF Marks, Text

LEMMA BuildType ==
    ASSUME NEW p \in [File -> Text]
    PROVE  Build(p) \in [patches : [File -> Text], childFiles : SUBSET File]
<1>1. Subdirs(p, Root) \in SUBSET File
  BY IncludesAssumption DEF Subdirs
<1>2. NullTree \in [patches : [File -> Text], childFiles : SUBSET File]
  BY BlankType DEF NullTree
<1>3. QED
  BY <1>1, <1>2 DEF Build

(* load_tree keeps the server's variables in their types. *)
LEMMA LoadTreeType ==
    ASSUME TypeOK, NEW p \in [File -> Text], NEW reply \in Seq(ToClient),
           hasRoot' \in BOOLEAN, LoadTree(p, reply)
    PROVE  ServerType'
<1>1. /\ Blank \in [File -> Text]
      /\ <<>> \in Seq(ToClient)
  BY BlankType
<1>2. ASSUME Rebuild(p)
      PROVE  /\ tree' \in [patches : [File -> Text], childFiles : SUBSET File]
             /\ ast' \in [File -> Text]
             /\ Marks(Merge(p)) \in [File -> Text]
  <2>1. Merge(p) \in [File -> Text]
    BY <1>2, MergeType DEF Rebuild
  <2>2. QED
    BY <1>2, <2>1, BuildType, MarksType DEF Rebuild
<1>3. CASE NoMesonBuild(reply)
  <2>1. toClient' \in Seq(ToClient) /\ published' \in [File -> Text]
    BY <1>1, <1>3, PublishType DEF NoMesonBuild
  <2>2. QED
    BY <1>3, <2>1 DEF NoMesonBuild, ServerType, TypeOK
<1>4. CASE BuildCrashes(p)
  <2>1. toClient' \in Seq(ToClient) /\ published' \in [File -> Text]
    BY <1>1, <1>4, PublishType DEF BuildCrashes
  <2>2. QED
    BY <1>4, <2>1 DEF BuildCrashes, ServerType, TypeOK
<1>5. CASE OptionsCrash(p)
  <2>1. toClient' \in Seq(ToClient) /\ published' \in [File -> Text]
    BY <1>1, <1>5, PublishType DEF OptionsCrash
  <2>2. QED
    BY <1>2, <1>5, <2>1 DEF OptionsCrash, ServerType, TypeOK
<1>6. CASE OptionsMalformed(p, reply)
  <2>1. toClient' \in Seq(ToClient) /\ published' \in [File -> Text]
    BY <1>1, <1>6, PublishType DEF OptionsMalformed
  <2>2. QED
    BY <1>2, <1>6, <2>1 DEF OptionsMalformed, ServerType, TypeOK
<1>7. CASE Analyse(p, reply)
  <2>1. toClient' \in Seq(ToClient) /\ published' \in [File -> Text]
    BY <1>2, <1>7, PublishType DEF Analyse
  <2>2. QED
    BY <1>2, <1>7, <2>1 DEF Analyse, ServerType, TypeOK
<1>8. QED
  BY <1>3, <1>4, <1>5, <1>6, <1>7 DEF LoadTree

(* Every load_tree publishes one batch, and writes at most the reply to       *)
(* initialize after it.                                                       *)
LEMMA LoadTreePublishes ==
    ASSUME TypeOK, NEW p \in [File -> Text], NEW reply, LoadTree(p, reply)
    PROVE  \E m \in [File -> Text] : Publish(m, reply) \/ Publish(m, <<>>)
<1>1. Rebuild(p) => Marks(Merge(p)) \in [File -> Text]
  BY MergeType, MarksType DEF Rebuild
<1>2. QED
  BY <1>1, BlankType DEF LoadTree, NoMesonBuild, BuildCrashes, OptionsCrash, OptionsMalformed,
                         Analyse

(* load_tree writes its batch and, for initialize, the reply after it.        *)
LEMMA ConcatAppend ==
    ASSUME NEW S, NEW s \in Seq(S), NEW a \in S, NEW b \in S
    PROVE  /\ s \o <<a>> \o <<>> = Append(s, a)
           /\ s \o <<a>> \o <<b>> = Append(Append(s, a), b)
<1>1. s \o <<a>> = Append(s, a) /\ Append(s, a) \in Seq(S)
  OBVIOUS
<1>2. \A t \in Seq(S) : t \o <<>> = t /\ t \o <<b>> = Append(t, b)
  OBVIOUS
<1>3. QED
  BY <1>1, <1>2

(* Taking a message off stdin leaves everything but the server in its type.   *)
LEMMA ReceiveType ==
    ASSUME TypeOK, NEW methods, Receive(methods)
    PROVE  /\ OtherType'
           /\ Head(toServer) \in ToServer
           /\ Head(toServer).method \in methods
<1>1. Head(toServer) \in ToServer /\ toServer' \in Seq(ToServer)
  BY DEF Receive, TypeOK
<1>2. QED
  BY <1>1 DEF Receive, OtherType, TypeOK, editorVars, diskVars, historyVars

(* A query only adds its reply to stdout. *)
LEMMA AnswerType ==
    ASSUME TypeOK, NEW i \in 0 .. MaxCalls, NEW f \in File, NEW t \in Text, Answer(i, f, t)
    PROVE  ServerType'
<1>1. Reply(i, f, t) \in ToClient
  BY MessageType, BlankType
<1>2. QED
  BY <1>1 DEF Answer, serverVars, ServerType, TypeOK

(* A handler keeps the types. *)
LEMMA ServerStepType ==
    ASSUME TypeOK, Server
    PROVE  TypeOK'
<1> DEFINE msg == Head(toServer)
<1>1. ASSUME NEW methods, Receive(methods)
      PROVE  /\ OtherType'
             /\ msg.file \in File
             /\ msg.text \in Text
             /\ msg.id \in 0 .. MaxCalls
             /\ msg.root \in BOOLEAN
             /\ msg.method \in methods
  BY <1>1, ReceiveType DEF ToServer
<1>2. tree.patches \in [File -> Text]
  BY DEF TypeOK
<1>3. CASE HandleInitialize
  <2>1. <<Reply(0, Root, NoText)>> \in Seq(ToClient)
    BY MessageType, BlankType, 0 \in 0 .. MaxCalls, NoText \in Text DEF Text
  <2>2. hasRoot' \in BOOLEAN /\ OtherType'
    BY <1>1, <1>3 DEF HandleInitialize
  <2>3. ServerType'
    BY <1>3, <2>1, <2>2, BlankType, LoadTreeType DEF HandleInitialize
  <2>4. QED
    BY <2>2, <2>3, TypeHalves DEF TypeOK, ServerType, OtherType
<1>4. CASE HandleDidChange
  <2>1. hasRoot' \in BOOLEAN /\ OtherType'
    BY <1>1, <1>4 DEF HandleDidChange, TypeOK
  <2>2. DidChangePatches(msg) \in [File -> Text]
    BY <1>1, <1>2, <1>4 DEF HandleDidChange, DidChangePatches
  <2>3. CASE UNCHANGED <<toClient, tree, ast, options, running, published>>
    BY <2>1, <2>3 DEF TypeOK, OtherType
  <2>4. CASE LoadTree(DidChangePatches(msg), <<>>)
    <3>1. ServerType'
      BY <2>1, <2>2, <2>4, <<>> \in Seq(ToClient), LoadTreeType
    <3>2. QED
      BY <2>1, <3>1 DEF TypeOK, ServerType, OtherType
  <2>5. QED
    BY <1>4, <2>3, <2>4 DEF HandleDidChange
<1>5. CASE HandleDidSave
  <2>1. hasRoot' \in BOOLEAN /\ OtherType'
    BY <1>1, <1>5 DEF HandleDidSave, TypeOK
  <2>2. DidSavePatches(msg) \in [File -> Text]
    BY <1>1, <1>2, <1>5 DEF HandleDidSave, DidSavePatches, Text
  <2>3. ServerType'
    BY <1>5, <2>1, <2>2, <<>> \in Seq(ToClient), LoadTreeType DEF HandleDidSave
  <2>4. QED
    BY <2>1, <2>3 DEF TypeOK, ServerType, OtherType
<1>6. CASE HandleOther
  BY <1>1, <1>6 DEF HandleOther, serverVars, TypeOK, OtherType
<1>7. CASE Hover
  <2>1. OtherType' /\ ast[msg.file] \in Text
    BY <1>1, <1>7 DEF Hover, TypeOK
  <2>2. ServerType'
    BY <1>1, <1>7, <2>1, AnswerType DEF Hover
  <2>3. QED
    BY <2>1, <2>2 DEF TypeOK, ServerType, OtherType
<1>8. CASE DocumentSymbol
  <2>1. OtherType' /\ ast[msg.file] \in Text
    BY <1>1, <1>8 DEF DocumentSymbol, TypeOK
  <2>2. ServerType'
    BY <1>1, <1>8, <2>1, AnswerType DEF DocumentSymbol
  <2>3. QED
    BY <2>1, <2>2 DEF TypeOK, ServerType, OtherType
<1>9. CASE Definition
  <2>1. OtherType' /\ NoText \in Text
    BY <1>1, <1>9 DEF Definition, Text
  <2>2. PICK g \in File : Answer(msg.id, g, NoText) \/ Answer(msg.id, g, ast[g])
    <3>1. msg.file \in File
      BY <1>1, <1>9 DEF Definition
    <3>2. ASSUME ast[msg.file] # NoText
          PROVE  Includes[msg.file][ast[msg.file]] \subseteq File
      <4>1. ast[msg.file] \in Content
        BY <3>1, <3>2 DEF TypeOK, Text
      <4>2. QED
        BY <3>1, <4>1, IncludesAssumption
    <3>3. QED
      BY <1>9, <3>1, <3>2 DEF Definition
  <2>3. ast[g] \in Text
    BY DEF TypeOK
  <2>4. ServerType'
    BY <1>1, <1>9, <2>1, <2>2, <2>3, AnswerType DEF Definition
  <2>5. QED
    BY <2>1, <2>4 DEF TypeOK, ServerType, OtherType
<1>10. QED
  BY <1>3, <1>4, <1>5, <1>6, <1>7, <1>8, <1>9 DEF Server

(* Writing to stdin and extending the history of the calls. *)
LEMMA SendType ==
    ASSUME TypeOK, NEW msg \in ToServer, SendToServer(msg)
    PROVE  toServer' \in Seq(ToServer)
BY DEF SendToServer, TypeOK

LEMMA WitnessType ==
    ASSUME TypeOK, NEW f \in File, NEW t \in Content \union {Absent, Unreadable}, Witness(f, t)
    PROVE  seen' \in Seq(SUBSET (File \X (Content \union {Absent, Unreadable})))
<1> DEFINE Places == SUBSET (File \X (Content \union {Absent, Unreadable}))
<1>1. /\ seen \in Seq(Places)
      /\ \A i \in DOMAIN seen : seen[i] \union {<<f, t>>} \in Places
  BY DEF TypeOK
<1>2. seen' = [i \in 1 .. Len(seen) |-> seen[i] \union {<<f, t>>}]
  BY <1>1 DEF Witness
<1>3. QED
  BY <1>1, <1>2

(* Every message the editor writes is one of the protocol. *)
LEMMA EditorMessageType ==
    ASSUME NEW f \in File, NEW t \in Text, NEW i \in 0 .. MaxCalls
    PROVE  /\ Notification("didChange", f, t) \in ToServer
           /\ \A n \in Notice : Notification(n, f, NoText) \in ToServer
           /\ \A m \in Call : Request(m, f, i) \in ToServer
           /\ \A r \in BOOLEAN : InitializeRequest(r) \in ToServer
BY DEF Notification, Request, InitializeRequest, ToServer, Text, Notice

(* A step of the editor keeps the types. *)
LEMMA EditorStepType ==
    ASSUME TypeOK, Editor
    PROVE  TypeOK'
<1> USE DEF diskVars, serverVars, historyVars, editorVars
<1>0. 0 \in 0 .. MaxCalls /\ NoText \in Text /\ Content \subseteq Text
  BY DEF Text
<1>1. CASE Initialize
  <2>1. toServer' \in Seq(ToServer)
    BY <1>0, <1>1, EditorMessageType, SendType DEF Initialize
  <2>2. QED
    BY <1>1, <2>1 DEF Initialize, TypeOK
<1>2. ASSUME NEW f \in File, NEW c \in Content, Edit(f, c)
      PROVE  TypeOK'
  <2>1. toServer' \in Seq(ToServer)
    BY <1>0, <1>2, EditorMessageType, SendType DEF Edit, Notice
  <2>2. seen' \in Seq(SUBSET (File \X (Content \union {Absent, Unreadable})))
    BY <1>2, WitnessType DEF Edit
  <2>3. buffer' \in [File -> Text] /\ unheard' \in SUBSET File
    BY <1>0, <1>2 DEF Edit, TypeOK
  <2>4. QED
    BY <1>2, <2>1, <2>2, <2>3 DEF Edit, TypeOK
<1>3. ASSUME NEW f \in File, Save(f)
      PROVE  TypeOK'
  <2>1. toServer' \in Seq(ToServer)
    BY <1>0, <1>3, EditorMessageType, SendType DEF Save, Notice
  <2>2. buffer' \in [File -> Text] /\ unheard' \in SUBSET File
    BY <1>0, <1>3 DEF Save, TypeOK
  <2>3. disk' \in [File -> Content \union {Absent, Unreadable}]
    BY <1>3 DEF Save, TypeOK, Text
  <2>4. QED
    BY <1>3, <2>1, <2>2, <2>3 DEF Save, TypeOK
<1>4. ASSUME NEW f \in File, Discard(f)
      PROVE  TypeOK'
  <2>1. toServer' \in Seq(ToServer)
    BY <1>0, <1>4, EditorMessageType, SendType DEF Discard, Notice
  <2>2. disk[f] \in Content \union {Absent, Unreadable}
    BY DEF TypeOK
  <2>3. seen' \in Seq(SUBSET (File \X (Content \union {Absent, Unreadable})))
    BY <1>4, <2>2, WitnessType DEF Discard
  <2>4. buffer' \in [File -> Text] /\ unheard' \in SUBSET File
    BY <1>0, <1>4 DEF Discard, TypeOK
  <2>5. QED
    BY <1>4, <2>1, <2>3, <2>4 DEF Discard, TypeOK
<1>5. ASSUME NEW m \in Call, NEW f \in File, Ask(m, f)
      PROVE  TypeOK'
  <2>1. Len(seen) + 1 \in 0 .. MaxCalls
    BY <1>5 DEF Ask, TypeOK
  <2>2. toServer' \in Seq(ToServer)
    BY <1>0, <1>5, <2>1, EditorMessageType, SendType DEF Ask
  <2>3. \A g \in File : View(buffer, disk, g) \in Content \union {Absent, Unreadable}
    BY DEF View, TypeOK, Text
  <2>4. seen' \in Seq(SUBSET (File \X (Content \union {Absent, Unreadable})))
    BY <1>5, <2>3 DEF Ask, TypeOK
  <2>5. QED
    BY <1>5, <2>2, <2>4 DEF Ask, TypeOK
<1>6. QED
  BY <1>1, <1>2, <1>3, <1>4, <1>5 DEF Editor

LEMMA ClientReceiveType ==
    ASSUME TypeOK, ClientReceive
    PROVE  TypeOK'
<1>1. Head(toClient) \in ToClient /\ toClient' \in Seq(ToClient)
  BY DEF ClientReceive, TypeOK
<1>2. After(shown, Head(toClient)) \in [File -> Text]
  BY <1>1, AfterType DEF TypeOK
<1>3. shown' \in [File -> Text]
  BY <1>2 DEF ClientReceive, TypeOK
<1>4. answers' \in Seq(ToClient)
  <2>1. answers' = answers \/ answers' = Append(answers, Head(toClient))
    BY DEF ClientReceive
  <2>2. answers \in Seq(ToClient)
    BY DEF TypeOK
  <2>3. QED
    BY <1>1, <2>1, <2>2
<1>5. phase' \in {"fresh", "starting", "ready"}
  BY DEF ClientReceive, TypeOK
<1>6. QED
  BY <1>1, <1>3, <1>4, <1>5 DEF ClientReceive, TypeOK, diskVars, serverVars, historyVars

LEMMA OutsideType ==
    ASSUME TypeOK, (\E f \in File : FileChanges(f)) \/ OptionsFileChanges
    PROVE  TypeOK'
BY DEF FileChanges, OptionsFileChanges, TypeOK, editorVars, serverVars, historyVars, diskVars

(* Every variable keeps its type, whatever the project and the bounds: no     *)
(* handler puts a text on disk's side of the type (Absent, Unreadable) into   *)
(* the overlay or the tree, and only protocol messages are in the pipes.      *)
THEOREM TypeCorrect == Spec => []TypeOK
<1>1. Init => TypeOK
  <2> SUFFICES ASSUME Init PROVE TypeOK
    OBVIOUS
  <2>1. Blank \in [File -> Text]
    BY BlankType
  <2>2. NullTree \in [patches : [File -> Text], childFiles : SUBSET File]
    BY BlankType DEF NullTree
  <2>3. /\ disk \in [File -> Content \union {Absent, Unreadable}]
        /\ optionsFile \in OptionsState
    BY DEF Init
  <2>4. <<>> \in Seq(ToServer) /\ <<>> \in Seq(ToClient)
    OBVIOUS
  <2>5. <<>> \in Seq(SUBSET (File \X (Content \union {Absent, Unreadable})))
    OBVIOUS
  <2>6. QED
    BY <2>1, <2>2, <2>3, <2>4, <2>5 DEF Init, TypeOK
<1>2. TypeOK /\ [Next]_vars => TypeOK'
  <2> SUFFICES ASSUME TypeOK, [Next]_vars PROVE TypeOK'
    OBVIOUS
  <2>1. CASE UNCHANGED vars
    BY <2>1 DEF vars, editorVars, diskVars, serverVars, historyVars, TypeOK
  <2>2. CASE Next
    BY <2>2, ServerStepType, EditorStepType, ClientReceiveType, OutsideType DEF Next
  <2>3. QED
    BY <2>1, <2>2
<1>3. QED
  BY <1>1, <1>2, PTL DEF Spec

-----------------------------------------------------------------------------
(***************************************************************************)
(* OverlayFaithful.  By itself it is not inductive: nothing in it says     *)
(* that a didChange the server disregards is not taken for its word        *)
(* (Heard), that the initialize request, which rebuilds the tree with an   *)
(* empty overlay, is served before the first edit (Startup), and that      *)
(* load_tree always finds a root it can read (RootThere).                  *)
(***************************************************************************)
Notices(s, f) == {i \in DOMAIN s : s[i].method \in {"didChange", "didSave"} /\ s[i].file = f}

IsLast(i, S) == \A j \in S : j <= i

(* What pipe s, overlay p and buffer b say of one file f agree. *)
Faithful(s, p, b, f) ==
    /\ Notices(s, f) = {} => p = b
    /\ \A i \in Notices(s, f) : IsLast(i, Notices(s, f)) => s[i].text = b

Heard(s, f) ==
    \A i \in Notices(s, f) :
        IsLast(i, Notices(s, f)) => (s[i].method = "didChange" => s[i].text # NoText)

RootThere == RootStable => disk[Root] \in Content

NoReply == \A k \in DOMAIN toClient : toClient[k].type # "reply"

Startup ==
    /\ phase = "fresh" => toServer = <<>> /\ NoReply
    /\ phase # "ready" =>
          /\ buffer = Blank
          /\ tree.patches = Blank
          /\ \A i \in DOMAIN toServer : toServer[i].method = "initialize"
    /\ \A i \in DOMAIN toServer : toServer[i].method = "initialize" =>
          /\ phase = "starting"
          /\ Len(toServer) = 1
          /\ NoReply

OverlayInv ==
    /\ RootThere
    /\ Startup
    /\ \A f \in File \ unheard : Heard(toServer, f)
    /\ RootStable /\ hasRoot /\ running =>
          \A f \in File \ unheard : Faithful(toServer, tree.patches[f], buffer[f], f)

(* Appending a message that is not about f changes nothing for f. *)
LEMMA AppendOther ==
    ASSUME NEW s \in Seq(ToServer), NEW m \in ToServer, NEW f,
           m.method \notin {"didChange", "didSave"} \/ m.file # f
    PROVE  /\ Heard(s, f) => Heard(Append(s, m), f)
           /\ \A p, b : Faithful(s, p, b, f) => Faithful(Append(s, m), p, b, f)
<1>1. \A i \in 1 .. Len(s) : Append(s, m)[i] = s[i]
  OBVIOUS
<1>2. Append(s, m)[Len(s) + 1] = m /\ DOMAIN Append(s, m) = 1 .. Len(s) + 1
  OBVIOUS
<1>3. Notices(Append(s, m), f) = Notices(s, f)
  BY <1>1, <1>2 DEF Notices
<1>4. \A i \in Notices(s, f) : Append(s, m)[i] = s[i]
  BY <1>1 DEF Notices
<1>5. QED
  BY <1>3, <1>4 DEF Heard, Faithful

(* Appending a message about f makes it the last word. *)
LEMMA AppendThis ==
    ASSUME NEW s \in Seq(ToServer), NEW m \in ToServer,
           m.method \in {"didChange", "didSave"},
           m.method = "didChange" => m.text # NoText
    PROVE  /\ Heard(Append(s, m), m.file)
           /\ \A p : Faithful(Append(s, m), p, m.text, m.file)
<1> DEFINE n == Len(s) + 1
           N == Notices(Append(s, m), m.file)
<1>1. n \in N /\ Append(s, m)[n] = m
  BY DEF Notices
<1>2. \A i \in N : i \in 1 .. n
  BY DEF Notices
<1>3. \A i \in N : IsLast(i, N) => i = n
  BY <1>1, <1>2 DEF IsLast
<1>4. QED
  BY <1>1, <1>3 DEF Heard, Faithful

(* Taking a message off the pipe shifts the positions of the others. *)
LEMMA TailNotices ==
    ASSUME NEW s \in Seq(ToServer), s # <<>>, NEW f
    PROVE  /\ \A i : i \in Notices(Tail(s), f) <=> i \in Nat /\ i + 1 \in Notices(s, f) /\ i # 0
           /\ \A i \in Notices(Tail(s), f) : Tail(s)[i] = s[i + 1]
           /\ \A i \in Notices(Tail(s), f) :
                 IsLast(i, Notices(Tail(s), f)) => IsLast(i + 1, Notices(s, f))
<1>1. /\ DOMAIN Tail(s) = 1 .. Len(s) - 1
      /\ DOMAIN s = 1 .. Len(s)
      /\ \A i \in 1 .. Len(s) - 1 : Tail(s)[i] = s[i + 1]
  OBVIOUS
<1>2. \A i : i \in Notices(Tail(s), f) <=> i \in Nat /\ i + 1 \in Notices(s, f) /\ i # 0
  BY <1>1 DEF Notices
<1>3. \A i \in Notices(Tail(s), f) : Tail(s)[i] = s[i + 1]
  BY <1>1 DEF Notices
<1>4. ASSUME NEW i \in Notices(Tail(s), f), IsLast(i, Notices(Tail(s), f)),
             NEW j \in Notices(s, f)
      PROVE  j <= i + 1
  <2>1. i \in Nat /\ j \in 1 .. Len(s)
    BY <1>2 DEF Notices
  <2>2. CASE j = 1
    BY <2>1, <2>2
  <2>3. CASE j # 1
    <3>1. j - 1 \in Notices(Tail(s), f)
      BY <1>2, <2>1, <2>3
    <3>2. QED
      BY <1>4, <2>1, <3>1 DEF IsLast
  <2>4. QED
    BY <2>2, <2>3
<1>5. QED
  BY <1>2, <1>3, <1>4 DEF IsLast

(* What remains in the pipe is heard as before. *)
LEMMA TailHeard ==
    ASSUME NEW s \in Seq(ToServer), s # <<>>, NEW f, Heard(s, f)
    PROVE  Heard(Tail(s), f)
BY TailNotices DEF Heard

(* The last word about f, when it stays in the pipe, stays the last word.     *)
LEMMA TailLastWord ==
    ASSUME NEW s \in Seq(ToServer), s # <<>>, NEW f, NEW p, NEW b, Faithful(s, p, b, f),
           NEW i \in Notices(Tail(s), f), IsLast(i, Notices(Tail(s), f))
    PROVE  Tail(s)[i].text = b
<1>1. i + 1 \in Notices(s, f) /\ IsLast(i + 1, Notices(s, f)) /\ Tail(s)[i] = s[i + 1]
  BY TailNotices
<1>2. QED
  BY <1>1 DEF Faithful

(* A file the head of the pipe is not about is not affected by serving it.    *)
LEMMA TailOther ==
    ASSUME NEW s \in Seq(ToServer), s # <<>>, NEW f, NEW p, NEW b,
           Head(s).method \notin {"didChange", "didSave"} \/ Head(s).file # f,
           Faithful(s, p, b, f)
    PROVE  Faithful(Tail(s), p, b, f)
<1>1. 1 \notin Notices(s, f)
  BY DEF Notices
<1>2. Notices(Tail(s), f) = {} => p = b
  <2> SUFFICES ASSUME NEW j \in Notices(s, f) PROVE j - 1 \in Notices(Tail(s), f)
    BY DEF Faithful
  <2>1. j \in 1 .. Len(s) /\ j # 1
    BY <1>1 DEF Notices
  <2>2. QED
    BY <2>1, TailNotices
<1>3. \A i \in Notices(Tail(s), f) : IsLast(i, Notices(Tail(s), f)) => Tail(s)[i].text = b
  BY TailLastWord
<1>4. QED
  BY <1>2, <1>3 DEF Faithful

(* Serving the head of the pipe sets the overlay of its file to the last      *)
(* word; when the server disregards the head, it was not the last word.       *)
LEMMA TailThis ==
    ASSUME NEW s \in Seq(ToServer), s # <<>>, NEW f, NEW p, NEW b,
           Head(s).method = "didChange" \/ Head(s).method = "didSave",
           Head(s).file = f, Faithful(s, p, b, f), Heard(s, f)
    PROVE  /\ Faithful(Tail(s), Head(s).text, b, f)
           /\ Head(s).method = "didChange" /\ Head(s).text = NoText
                => \A q : Faithful(Tail(s), q, b, f)
<1>1. 1 \in Notices(s, f) /\ Head(s) = s[1]
  BY DEF Notices
<1>2. ASSUME NEW q, Notices(Tail(s), f) = {},
             \/ q = Head(s).text
             \/ Head(s).method = "didChange" /\ Head(s).text = NoText
      PROVE  q = b
  <2>1. IsLast(1, Notices(s, f))
    <3> SUFFICES ASSUME NEW j \in Notices(s, f) PROVE j <= 1
      BY DEF IsLast
    <3>1. j \in 1 .. Len(s)
      BY DEF Notices
    <3>2. j # 1 => j - 1 \in Notices(Tail(s), f)
      BY <3>1, TailNotices
    <3>3. QED
      BY <1>2, <3>1, <3>2
  <2>2. QED
    BY <1>1, <1>2, <2>1 DEF Faithful, Heard
<1>3. \A i \in Notices(Tail(s), f) : IsLast(i, Notices(Tail(s), f)) => Tail(s)[i].text = b
  BY TailLastWord
<1>4. QED
  BY <1>2, <1>3 DEF Faithful

(* With a readable root, a load_tree the server survives installs its overlay *)
(* and merges the files under it.                                             *)
LEMMA LoadTreeOverlay ==
    ASSUME TypeOK, RootThere, RootStable, NEW p \in [File -> Text], NEW reply,
           hasRoot', running', LoadTree(p, reply)
    PROVE  /\ tree'.patches = p
           /\ ast' = Merge(p)
<1>1. disk[Root] \in Content
  BY DEF RootThere
<1>2. TextOf(p, Root) # Unreadable
  BY <1>1 DEF TextOf, Text
<1>3. Build(p).patches = p
  BY <1>2 DEF Build
<1>4. ~NoMesonBuild(reply)
  BY <1>1 DEF NoMesonBuild, Text
<1>5. QED
  BY <1>3, <1>4 DEF LoadTree, BuildCrashes, OptionsCrash, OptionsMalformed, Analyse, Rebuild

(* The overlay after load_tree is the new one, the old one, or none at all.   *)
LEMMA LoadTreePatches ==
    ASSUME NEW p, NEW reply, LoadTree(p, reply)
    PROVE  tree'.patches \in {p, tree.patches, Blank}
BY DEF LoadTree, NoMesonBuild, BuildCrashes, OptionsCrash, OptionsMalformed, Analyse,
       Rebuild, Build, NullTree

(* A step of the server leaves the initialize request first and alone.        *)
LEMMA ServerStartup ==
    ASSUME TypeOK, Startup, Server
    PROVE  Startup'
<1>1. ASSUME NEW methods, Receive(methods)
      PROVE  /\ toServer # <<>> /\ toServer' = Tail(toServer)
             /\ phase' = phase /\ buffer' = buffer
             /\ toServer[1].method \in methods
  BY <1>1 DEF Receive, editorVars
<1>2. toServer \in Seq(ToServer)
  BY DEF TypeOK
<1>3. CASE HandleInitialize
  <2>1. toServer[1].method = "initialize" /\ 1 \in DOMAIN toServer
    BY <1>1, <1>2, <1>3 DEF HandleInitialize
  <2>2. phase = "starting" /\ Len(toServer) = 1
    BY <2>1 DEF Startup
  <2>3. toServer' = <<>>
    BY <1>1, <1>2, <1>3, <2>2 DEF HandleInitialize
  <2>4. tree'.patches = Blank
    BY <1>3, <2>2, LoadTreePatches DEF HandleInitialize, Startup
  <2>5. phase' = "starting" /\ buffer' = Blank
    BY <1>1, <1>3, <2>2 DEF HandleInitialize, Startup
  <2>6. QED
    BY <2>3, <2>4, <2>5 DEF Startup, Blank
<1>4. CASE \E methods : Receive(methods) /\ "initialize" \notin methods
  <2>1. 1 \in DOMAIN toServer /\ toServer[1].method # "initialize"
    BY <1>1, <1>2, <1>4
  <2>2. phase = "ready"
    BY <2>1 DEF Startup, TypeOK
  <2>3. \A i \in DOMAIN toServer : toServer[i].method # "initialize"
    BY <2>2 DEF Startup
  <2>4. \A i \in DOMAIN toServer' : toServer'[i].method # "initialize"
    BY <1>1, <1>2, <1>4, <2>3
  <2>5. phase' = "ready"
    BY <1>1, <1>4, <2>2
  <2>6. QED
    BY <2>4, <2>5 DEF Startup
<1>5. QED
  BY <1>3, <1>4 DEF Server, HandleDidChange, HandleDidSave, HandleOther, Hover,
                    DocumentSymbol, Definition, Call, Handled

(* So does a step of the editor. *)
LEMMA EditorStartup ==
    ASSUME TypeOK, Startup, Editor
    PROVE  Startup'
<1>1. toServer \in Seq(ToServer)
  BY DEF TypeOK
<1>2. CASE Initialize
  <2>1. PICK r \in BOOLEAN : SendToServer(InitializeRequest(r))
    BY <1>2 DEF Initialize
  <2>2. toServer = <<>> /\ NoReply
    BY <1>2 DEF Initialize, Startup
  <2>3. toServer' = <<InitializeRequest(r)>>
    BY <2>1, <2>2 DEF SendToServer
  <2>4. InitializeRequest(r).method = "initialize"
    BY DEF InitializeRequest
  <2>5. NoReply' /\ phase' = "starting" /\ buffer' = buffer /\ tree' = tree
    BY <1>2, <2>2 DEF Initialize, NoReply, serverVars
  <2>6. buffer = Blank /\ tree.patches = Blank
    BY <1>2 DEF Initialize, Startup
  <2>7. QED
    BY <2>3, <2>4, <2>5, <2>6 DEF Startup, Blank
<1>3. ASSUME NEW msg \in ToServer, SendToServer(msg), msg.method # "initialize",
             phase = "ready", phase' = "ready"
      PROVE  Startup'
  <2>1. \A i \in DOMAIN toServer : toServer[i].method # "initialize"
    BY <1>3 DEF Startup
  <2>2. \A i \in DOMAIN toServer' : toServer'[i].method # "initialize"
    BY <1>1, <1>3, <2>1 DEF SendToServer
  <2>3. QED
    BY <1>3, <2>2 DEF Startup
<1>4. 0 \in 0 .. MaxCalls /\ NoText \in Text /\ Content \subseteq Text
  BY DEF Text
<1>5. ASSUME NEW n \in Notice, NEW f \in File, NEW t \in Text, n = "didChange" \/ t = NoText
      PROVE  Notification(n, f, t) \in ToServer /\ Notification(n, f, t).method # "initialize"
  BY <1>4, <1>5, EditorMessageType DEF Notification, Notice
<1>6. ASSUME NEW f \in File, NEW c \in Content, Edit(f, c)
      PROVE  Startup'
  BY <1>3, <1>4, <1>5, <1>6 DEF Edit, Notice
<1>7. ASSUME NEW f \in File, Save(f) \/ Discard(f)
      PROVE  Startup'
  BY <1>3, <1>4, <1>5, <1>7 DEF Save, Discard, Notice
<1>8. ASSUME NEW m \in Call, NEW f \in File, Ask(m, f)
      PROVE  Startup'
  <2>1. Len(seen) + 1 \in 0 .. MaxCalls
    BY <1>8 DEF Ask, TypeOK
  <2>2. Request(m, f, Len(seen) + 1) \in ToServer
    BY <1>4, <2>1, EditorMessageType
  <2>3. Request(m, f, Len(seen) + 1).method # "initialize"
    BY DEF Request, Call, Handled
  <2>4. QED
    BY <1>3, <1>8, <2>2, <2>3 DEF Ask, editorVars
<1>9. QED
  BY <1>2, <1>6, <1>7, <1>8 DEF Editor

(* The editor is ready only when a reply has come, and no reply comes before  *)
(* the initialize request has been served.                                    *)
LEMMA ClientStartup ==
    ASSUME TypeOK, Startup, ClientReceive
    PROVE  Startup'
<1>1. toClient \in Seq(ToClient) /\ toClient # <<>> /\ toClient' = Tail(toClient)
  BY DEF TypeOK, ClientReceive
<1>2. toServer' = toServer /\ buffer' = buffer /\ tree' = tree
  BY DEF ClientReceive, serverVars
<1>3. CASE Head(toClient).type = "diagnostics"
  <2>1. phase' = phase
    BY <1>3 DEF ClientReceive
  <2>2. NoReply => NoReply'
    BY <1>1 DEF NoReply
  <2>3. QED
    BY <1>2, <2>1, <2>2 DEF Startup, Blank
<1>4. CASE Head(toClient).type = "reply"
  <2>1. phase' = "ready"
    BY <1>4 DEF ClientReceive
  <2>2. ~NoReply
    BY <1>1, <1>4 DEF NoReply
  <2>3. \A i \in DOMAIN toServer : toServer[i].method # "initialize"
    BY <2>2 DEF Startup
  <2>4. QED
    BY <1>2, <2>1, <2>3 DEF Startup
<1>5. QED
  BY <1>3, <1>4 DEF ClientReceive

(* A step of the server keeps the invariant: load_tree installs exactly the   *)
(* overlay the message calls for.                                             *)
LEMMA ServerFaithful ==
    ASSUME TypeOK, OverlayInv, Server
    PROVE  OverlayInv'
<1> DEFINE msg == Head(toServer)
<1>1. ASSUME NEW methods, Receive(methods)
      PROVE  /\ toServer # <<>> /\ toServer' = Tail(toServer)
             /\ running
             /\ buffer' = buffer /\ unheard' = unheard /\ disk' = disk
             /\ msg \in ToServer /\ msg.method \in methods
             /\ \A f \in File \ unheard' : Heard(toServer', f)
  <2>1. toServer # <<>> /\ toServer' = Tail(toServer) /\ running
    BY <1>1 DEF Receive
  <2>2. buffer' = buffer /\ unheard' = unheard /\ disk' = disk
    BY <1>1 DEF Receive, editorVars, historyVars, diskVars
  <2>3. msg \in ToServer /\ msg.method \in methods
    BY <1>1, ReceiveType
  <2>4. \A f \in File \ unheard' : Heard(toServer', f)
    BY <2>1, <2>2, TailHeard DEF OverlayInv, TypeOK
  <2>5. QED
    BY <2>1, <2>2, <2>3, <2>4
<1>2. Startup'
  BY ServerStartup DEF OverlayInv
<1>3. RootThere'
  <2>1. disk' = disk
    BY <1>1 DEF Server, HandleInitialize, HandleDidChange, HandleDidSave, HandleOther,
                Hover, DocumentSymbol, Definition
  <2>2. QED
    BY <2>1 DEF OverlayInv, RootThere, RootStable
<1>4. ASSUME NEW methods, Receive(methods), methods \cap {"didChange", "didSave"} = {},
             UNCHANGED <<tree, running, hasRoot>>
      PROVE  OverlayInv'
  <2> SUFFICES ASSUME RootStable, hasRoot', running', NEW f \in File \ unheard'
               PROVE  Faithful(toServer', tree'.patches[f], buffer'[f], f)
    BY <1>1, <1>2, <1>3, <1>4 DEF OverlayInv
  <2>1. Faithful(toServer, tree.patches[f], buffer[f], f)
    BY <1>1, <1>4 DEF OverlayInv
  <2>2. msg.method \notin {"didChange", "didSave"}
    BY <1>1, <1>4
  <2>3. toServer \in Seq(ToServer) /\ toServer # <<>>
    BY <1>1, <1>4 DEF TypeOK
  <2>4. Faithful(Tail(toServer), tree.patches[f], buffer[f], f)
    BY <2>1, <2>2, <2>3, TailOther
  <2>5. QED
    BY <1>1, <1>4, <2>4
<1>5. CASE HandleInitialize
  <2> SUFFICES ASSUME RootStable, hasRoot', running', NEW f \in File \ unheard'
               PROVE  Faithful(toServer', tree'.patches[f], buffer'[f], f)
    BY <1>1, <1>2, <1>3, <1>5 DEF OverlayInv, HandleInitialize
  <2>1. toServer[1].method = "initialize" /\ 1 \in DOMAIN toServer
    BY <1>1, <1>5 DEF HandleInitialize, TypeOK
  <2>2. phase # "ready" /\ Len(toServer) = 1
    BY <2>1 DEF OverlayInv, Startup
  <2>3. toServer' = <<>>
    BY <1>1, <1>5, <2>2 DEF HandleInitialize, TypeOK
  <2>4. buffer' = Blank
    BY <1>1, <1>5, <2>2 DEF HandleInitialize, OverlayInv, Startup
  <2>5. tree'.patches = Blank
    BY <1>5, <2>2, LoadTreePatches DEF HandleInitialize, OverlayInv, Startup
  <2>6. QED
    BY <2>3, <2>4, <2>5 DEF Faithful, Notices
<1>6. CASE HandleDidChange
  <2> SUFFICES ASSUME RootStable, hasRoot', running', NEW f \in File \ unheard'
               PROVE  Faithful(toServer', tree'.patches[f], buffer'[f], f)
    BY <1>1, <1>2, <1>3, <1>6 DEF OverlayInv, HandleDidChange
  <2>1. /\ toServer \in Seq(ToServer) /\ toServer # <<>> /\ toServer' = Tail(toServer)
        /\ msg \in ToServer /\ msg.method = "didChange"
        /\ buffer' = buffer /\ hasRoot
        /\ tree.patches \in [File -> Text] /\ msg.file \in File /\ msg.text \in Text
    BY <1>1, <1>6 DEF HandleDidChange, TypeOK, ToServer
  <2>2. Faithful(toServer, tree.patches[f], buffer[f], f) /\ Heard(toServer, f)
    BY <1>1, <1>6, <2>1 DEF OverlayInv, HandleDidChange
  <2>3. CASE msg.text = NoText
    <3>1. tree' = tree
      BY <1>6, <2>3 DEF HandleDidChange
    <3>2. CASE msg.file = f
      <4>1. Faithful(Tail(toServer), tree.patches[f], buffer[f], f)
        BY <2>1, <2>2, <2>3, <3>2, TailThis
      <4>2. QED
        BY <2>1, <3>1, <4>1
    <3>3. CASE msg.file # f
      BY <2>1, <2>2, <3>1, <3>3, TailOther
    <3>4. QED
      BY <3>2, <3>3
  <2>4. CASE msg.text # NoText
    <3>1. DidChangePatches(msg) \in [File -> Text]
      BY <2>1 DEF DidChangePatches
    <3>2. tree'.patches = DidChangePatches(msg)
      BY <1>6, <2>4, <3>1, LoadTreeOverlay DEF HandleDidChange, OverlayInv
    <3>3. CASE msg.file = f
      <4>1. tree'.patches[f] = msg.text
        BY <2>1, <3>2, <3>3 DEF DidChangePatches
      <4>2. Faithful(Tail(toServer), msg.text, buffer[f], f)
        BY <2>1, <2>2, <3>3, TailThis
      <4>3. QED
        BY <2>1, <4>1, <4>2
    <3>4. CASE msg.file # f
      <4>1. tree'.patches[f] = tree.patches[f]
        BY <2>1, <3>2, <3>4 DEF DidChangePatches
      <4>2. QED
        BY <2>1, <2>2, <3>4, <4>1, TailOther
    <3>5. QED
      BY <3>3, <3>4
  <2>5. QED
    BY <2>3, <2>4
<1>7. CASE HandleDidSave
  <2> SUFFICES ASSUME RootStable, hasRoot', running', NEW f \in File \ unheard'
               PROVE  Faithful(toServer', tree'.patches[f], buffer'[f], f)
    BY <1>1, <1>2, <1>3, <1>7 DEF OverlayInv, HandleDidSave
  <2>1. /\ toServer \in Seq(ToServer) /\ toServer # <<>> /\ toServer' = Tail(toServer)
        /\ msg \in ToServer /\ msg.method = "didSave" /\ msg.text = NoText
        /\ buffer' = buffer /\ hasRoot
        /\ tree.patches \in [File -> Text] /\ msg.file \in File
    BY <1>1, <1>7 DEF HandleDidSave, TypeOK, ToServer
  <2>2. Faithful(toServer, tree.patches[f], buffer[f], f) /\ Heard(toServer, f)
    BY <1>1, <1>7, <2>1 DEF OverlayInv, HandleDidSave
  <2>3. DidSavePatches(msg) \in [File -> Text]
    BY <2>1 DEF DidSavePatches, Text
  <2>4. tree'.patches = DidSavePatches(msg)
    BY <1>7, <2>3, LoadTreeOverlay DEF HandleDidSave, OverlayInv
  <2>5. CASE msg.file = f
    <3>1. tree'.patches[f] = NoText
      BY <2>1, <2>4, <2>5 DEF DidSavePatches
    <3>2. Faithful(Tail(toServer), NoText, buffer[f], f)
      BY <2>1, <2>2, <2>5, TailThis
    <3>3. QED
      BY <2>1, <3>1, <3>2
  <2>6. CASE msg.file # f
    <3>1. tree'.patches[f] = tree.patches[f]
      BY <2>1, <2>4, <2>6 DEF DidSavePatches
    <3>2. QED
      BY <2>1, <2>2, <2>6, <3>1, TailOther
  <2>7. QED
    BY <2>5, <2>6
<1>8. CASE HandleOther \/ Hover \/ DocumentSymbol \/ Definition
  BY <1>4, <1>8 DEF HandleOther, Hover, DocumentSymbol, Definition, Answer, serverVars,
                    Call, Handled
<1>9. QED
  BY <1>5, <1>6, <1>7, <1>8 DEF Server

(* A step of the editor keeps it: what it sends is what it shows. *)
LEMMA EditorFaithful ==
    ASSUME TypeOK, OverlayInv, Editor
    PROVE  OverlayInv'
<1>1. Startup'
  BY EditorStartup DEF OverlayInv
<1>2. toServer \in Seq(ToServer) /\ buffer \in [File -> Text] /\ unheard \in SUBSET File
  BY DEF TypeOK
<1>3. 0 \in 0 .. MaxCalls /\ NoText \in Text /\ Content \subseteq Text
  BY DEF Text
<1>4. ASSUME NEW m \in ToServer, SendToServer(m), NEW f \in File,
             m.method \notin {"didChange", "didSave"} \/ m.file # f,
             f \notin unheard, tree' = tree, hasRoot' = hasRoot, running' = running,
             buffer'[f] = buffer[f]
      PROVE  /\ Heard(toServer', f)
             /\ RootStable /\ hasRoot' /\ running' =>
                   Faithful(toServer', tree'.patches[f], buffer'[f], f)
  <2>1. toServer' = Append(toServer, m)
    BY <1>4 DEF SendToServer
  <2>2. Heard(toServer, f)
    BY <1>4 DEF OverlayInv
  <2>3. RootStable /\ hasRoot /\ running => Faithful(toServer, tree.patches[f], buffer[f], f)
    BY <1>4 DEF OverlayInv
  <2>4. Heard(Append(toServer, m), f)
    BY <1>2, <1>4, <2>2, AppendOther
  <2>5. RootStable /\ hasRoot /\ running =>
           Faithful(Append(toServer, m), tree.patches[f], buffer[f], f)
    BY <1>2, <1>4, <2>3, AppendOther
  <2>6. QED
    BY <1>4, <2>1, <2>4, <2>5
<1>5. ASSUME NEW m \in ToServer, SendToServer(m),
             m.method = "didChange" \/ m.method = "didSave",
             m.method = "didChange" => m.text # NoText,
             buffer'[m.file] = m.text
      PROVE  /\ Heard(toServer', m.file)
             /\ Faithful(toServer', tree'.patches[m.file], buffer'[m.file], m.file)
  <2>1. toServer' = Append(toServer, m)
    BY <1>5 DEF SendToServer
  <2>2. /\ Heard(Append(toServer, m), m.file)
        /\ Faithful(Append(toServer, m), tree'.patches[m.file], m.text, m.file)
    BY <1>2, <1>5, AppendThis
  <2>3. QED
    BY <1>5, <2>1, <2>2
<1>6. CASE Initialize
  <2>1. PICK r \in BOOLEAN : SendToServer(InitializeRequest(r))
    BY <1>6 DEF Initialize
  <2>2. /\ InitializeRequest(r) \in ToServer
        /\ InitializeRequest(r).method \notin {"didChange", "didSave"}
    BY <1>3, EditorMessageType DEF InitializeRequest
  <2>3. /\ buffer' = buffer /\ tree' = tree /\ hasRoot' = hasRoot /\ running' = running
        /\ unheard' = unheard /\ disk' = disk
    BY <1>6 DEF Initialize, serverVars, historyVars, diskVars
  <2>4. RootThere'
    BY <2>3 DEF OverlayInv, RootThere, RootStable
  <2>5. QED
    BY <1>1, <1>4, <2>1, <2>2, <2>3, <2>4 DEF OverlayInv
<1>7. ASSUME NEW f \in File, NEW c \in Content, Edit(f, c)
      PROVE  OverlayInv'
  <2>1. /\ buffer' = [buffer EXCEPT ![f] = c] /\ tree' = tree /\ hasRoot' = hasRoot
        /\ running' = running /\ disk' = disk
    BY <1>7 DEF Edit, serverVars, diskVars
  <2>2. RootThere'
    BY <2>1 DEF OverlayInv, RootThere, RootStable
  <2>3. PICK t \in {c, NoText} :
           /\ SendToServer(Notification("didChange", f, t))
           /\ t = c => unheard' = unheard \ {f}
           /\ t # c => unheard' = unheard \union {f}
    BY <1>7, <1>3 DEF Edit
  <2>4. /\ Notification("didChange", f, t) \in ToServer
        /\ Notification("didChange", f, t).method = "didChange"
        /\ Notification("didChange", f, t).file = f
        /\ Notification("didChange", f, t).text = t
    BY <1>3, EditorMessageType DEF Notification
  <2>5. ASSUME NEW g \in File \ unheard'
        PROVE  /\ Heard(toServer', g)
               /\ RootStable /\ hasRoot' /\ running' =>
                     Faithful(toServer', tree'.patches[g], buffer'[g], g)
    <3>1. CASE g # f
      BY <1>2, <1>4, <2>1, <2>3, <2>4, <2>5, <3>1
    <3>2. CASE g = f
      <4>1. t = c /\ t # NoText /\ buffer'[f] = t
        BY <1>2, <2>1, <2>3, <2>5, <3>2
      <4>2. QED
        BY <1>5, <2>3, <2>4, <3>2, <4>1
    <3>3. QED
      BY <3>1, <3>2
  <2>6. QED
    BY <1>1, <2>2, <2>5 DEF OverlayInv
<1>8. ASSUME NEW f \in File, Save(f)
      PROVE  OverlayInv'
  <2>1. /\ buffer' = [buffer EXCEPT ![f] = NoText] /\ disk' = [disk EXCEPT ![f] = buffer[f]]
        /\ tree' = tree /\ hasRoot' = hasRoot /\ running' = running
        /\ unheard' = unheard \ {f}
        /\ buffer[f] \in Content
        /\ SendToServer(Notification("didSave", f, NoText))
    BY <1>2, <1>8 DEF Save, serverVars, Text
  <2>2. RootThere'
    BY <2>1 DEF OverlayInv, RootThere, RootStable, TypeOK
  <2>3. /\ Notification("didSave", f, NoText) \in ToServer
        /\ Notification("didSave", f, NoText).method = "didSave"
        /\ Notification("didSave", f, NoText).file = f
        /\ Notification("didSave", f, NoText).text = NoText
    BY <1>3, EditorMessageType DEF Notification, Notice
  <2>4. ASSUME NEW g \in File \ unheard'
        PROVE  /\ Heard(toServer', g)
               /\ RootStable /\ hasRoot' /\ running' =>
                     Faithful(toServer', tree'.patches[g], buffer'[g], g)
    <3>1. CASE g # f
      BY <1>2, <1>4, <2>1, <2>3, <2>4, <3>1
    <3>2. CASE g = f
      <4>1. buffer'[f] = NoText
        BY <1>2, <2>1
      <4>2. QED
        BY <1>5, <2>1, <2>3, <3>2, <4>1
    <3>3. QED
      BY <3>1, <3>2
  <2>5. QED
    BY <1>1, <2>2, <2>4 DEF OverlayInv
<1>9. ASSUME NEW f \in File, Discard(f)
      PROVE  OverlayInv'
  <2>1. /\ buffer' = [buffer EXCEPT ![f] = NoText] /\ disk' = disk
        /\ tree' = tree /\ hasRoot' = hasRoot /\ running' = running
        /\ unheard' = unheard \union {f}
        /\ SendToServer(Notification("didClose", f, NoText))
    BY <1>9 DEF Discard, serverVars, diskVars
  <2>2. RootThere'
    BY <2>1 DEF OverlayInv, RootThere, RootStable
  <2>3. /\ Notification("didClose", f, NoText) \in ToServer
        /\ Notification("didClose", f, NoText).method \notin {"didChange", "didSave"}
    BY <1>3, EditorMessageType DEF Notification, Notice
  <2>4. \A g \in File \ unheard' : buffer'[g] = buffer[g] /\ g \notin unheard
    BY <1>2, <2>1
  <2>5. QED
    BY <1>1, <1>4, <2>1, <2>2, <2>3, <2>4 DEF OverlayInv
<1>10. ASSUME NEW m \in Call, NEW f \in File, Ask(m, f)
       PROVE  OverlayInv'
  <2>1. /\ buffer' = buffer /\ tree' = tree /\ hasRoot' = hasRoot /\ running' = running
        /\ unheard' = unheard /\ disk' = disk
        /\ SendToServer(Request(m, f, Len(seen) + 1))
    BY <1>10 DEF Ask, serverVars, diskVars, editorVars
  <2>2. RootThere'
    BY <2>1 DEF OverlayInv, RootThere, RootStable
  <2>3. Len(seen) + 1 \in 0 .. MaxCalls
    BY <1>10 DEF Ask, TypeOK
  <2>4. /\ Request(m, f, Len(seen) + 1) \in ToServer
        /\ Request(m, f, Len(seen) + 1).method \notin {"didChange", "didSave"}
    BY <1>3, <2>3, EditorMessageType DEF Request, Call, Handled
  <2>5. QED
    BY <1>1, <1>4, <2>1, <2>2, <2>4 DEF OverlayInv
<1>11. QED
  BY <1>6, <1>7, <1>8, <1>9, <1>10 DEF Editor

(* No other step writes the pipe, the overlay, a buffer or a stable file.     *)
LEMMA OutsideFaithful ==
    ASSUME TypeOK, OverlayInv,
           ClientReceive \/ (\E f \in File : FileChanges(f)) \/ OptionsFileChanges
    PROVE  OverlayInv'
<1>1. /\ toServer' = toServer /\ buffer' = buffer /\ unheard' = unheard
      /\ tree' = tree /\ hasRoot' = hasRoot /\ running' = running
  BY DEF ClientReceive, FileChanges, OptionsFileChanges, editorVars, serverVars, historyVars
<1>2. RootThere'
  BY DEF ClientReceive, FileChanges, OptionsFileChanges, diskVars, OverlayInv, RootThere,
         RootStable, TypeOK
<1>3. Startup'
  <2>1. CASE ClientReceive
    BY <2>1, ClientStartup DEF OverlayInv
  <2>2. CASE (\E f \in File : FileChanges(f)) \/ OptionsFileChanges
    <3>1. phase' = phase /\ toClient' = toClient
      BY <2>2 DEF FileChanges, OptionsFileChanges, editorVars
    <3>2. QED
      BY <1>1, <3>1 DEF OverlayInv, Startup, NoReply, Blank
  <2>3. QED
    BY <2>1, <2>2
<1>4. QED
  BY <1>1, <1>2, <1>3 DEF OverlayInv

(* The strengthening is an invariant. *)
LEMMA OverlayInvariant == Spec => []OverlayInv
<1>1. Init => OverlayInv
  <2> SUFFICES ASSUME Init PROVE OverlayInv
    OBVIOUS
  <2>1. RootThere /\ Startup
    BY DEF Init, RootThere, RootStable, Startup, NoReply, NullTree
  <2>2. \A f \in File : Heard(toServer, f) /\ Faithful(toServer, tree.patches[f], buffer[f], f)
    BY DEF Init, Heard, Faithful, Notices, NullTree
  <2>3. QED
    BY <2>1, <2>2 DEF OverlayInv
<1>2. TypeOK /\ OverlayInv /\ [Next]_vars => OverlayInv'
  <2> SUFFICES ASSUME TypeOK, OverlayInv, [Next]_vars PROVE OverlayInv'
    OBVIOUS
  <2>1. CASE UNCHANGED vars
    BY <2>1 DEF vars, editorVars, diskVars, serverVars, historyVars, OverlayInv, RootThere,
                RootStable, Startup, NoReply, Blank
  <2>2. CASE Next
    BY <2>2, ServerFaithful, EditorFaithful, OutsideFaithful DEF Next
  <2>3. QED
    BY <2>1, <2>2
<1>3. QED
  BY TypeCorrect, <1>1, <1>2, PTL DEF Spec

(* For every project, every interleaving of edits, saves, discards, calls and *)
(* unannounced changes of files other than the root: the server's overlay,    *)
(* with what is still in the pipe, is the editor's unsaved text.              *)
THEOREM OverlayFollowsEditor == Spec => []OverlayFaithful
<1>1. OverlayInv => OverlayFaithful
  BY DEF OverlayInv, OverlayFaithful, Serving, Faithful, Notices, IsLast, About
<1>2. QED
  BY OverlayInvariant, <1>1, PTL

-----------------------------------------------------------------------------
(***************************************************************************)
(* NoStaleDiagnostics, for projects without nested subdirs.  load_tree     *)
(* clears child_files of the old tree, so every file with diagnostics must *)
(* be in child_files: that is what the strengthening adds.                 *)
(***************************************************************************)
DiagnosticsInv ==
    \A f \in File : published[f] # NoText => f \in tree.childFiles /\ published[f] = ast[f]

(* Without nested subdirs build() visits the files of child_files only.       *)
LEMMA ReachedShallow ==
    ASSUME Shallow, NEW p
    PROVE  Reached(p) \subseteq {Root} \union Subdirs(p, Root)
<1> DEFINE S == {Root} \union Subdirs(p, Root)
<1>1. S \in SUBSET File
  BY IncludesAssumption DEF Subdirs
<1>2. \A g \in S : Subdirs(p, g) \subseteq S
  <2> SUFFICES ASSUME NEW g \in S, g # Root PROVE Subdirs(p, g) = {}
    OBVIOUS
  <2>1. g \in File \ {Root}
    BY <1>1
  <2>2. QED
    BY <2>1 DEF Shallow, Subdirs
<1>3. Root \in S
  OBVIOUS
<1>4. QED
  BY <1>1, <1>2, <1>3 DEF Reached

(* What is published for the tree load_tree builds is about its child_files.  *)
LEMMA MarksInChildFiles ==
    ASSUME Shallow, TypeOK, NEW p \in [File -> Text], NEW f \in File,
           Marks(Merge(p))[f] # NoText
    PROVE  f \in Build(p).childFiles /\ Marks(Merge(p))[f] = Merge(p)[f]
<1>1. Marks(Merge(p))[f] = Merge(p)[f] /\ Merge(p)[f] # NoText
  BY DEF Marks
<1>2. f \in Reached(p) /\ TextOf(p, f) # Unreadable
  BY <1>1 DEF Merge
<1>3. f \in {Root} \union Subdirs(p, Root)
  BY <1>2, ReachedShallow
<1>4. TextOf(p, Root) # Unreadable
  BY <1>2, <1>3, Unreadable \notin Content DEF Subdirs, Text
<1>5. QED
  BY <1>1, <1>3, <1>4 DEF Build

(* Publishing marks m: only files cleared or marked anew have diagnostics.    *)
LEMMA PublishedMarks ==
    ASSUME TypeOK, DiagnosticsInv, NEW m \in [File -> Text], NEW reply, Publish(m, reply)
    PROVE  \A f \in File : published'[f] = m[f]
BY DEF Publish, After, Diagnostics, DiagnosticsInv, TypeOK

LEMMA LoadTreeDiagnostics ==
    ASSUME Shallow, TypeOK, DiagnosticsInv, NEW p \in [File -> Text], NEW reply, LoadTree(p, reply)
    PROVE  DiagnosticsInv'
<1>1. ASSUME NEW r, Publish(Blank, r)
      PROVE  DiagnosticsInv'
  <2>1. \A f \in File : published'[f] = NoText
    BY <1>1, BlankType, PublishedMarks DEF Blank
  <2>2. QED
    BY <2>1 DEF DiagnosticsInv
<1>2. CASE Analyse(p, reply)
  <2>1. tree' = Build(p) /\ ast' = Merge(p) /\ disk[Root] # Absent
    BY <1>2 DEF Analyse, Rebuild
  <2>2. Marks(Merge(p)) \in [File -> Text]
    BY <2>1, MergeType, MarksType
  <2>3. \A f \in File : published'[f] = Marks(Merge(p))[f]
    BY <1>2, <2>2, PublishedMarks DEF Analyse
  <2>4. QED
    BY <2>1, <2>3, MarksInChildFiles DEF DiagnosticsInv
<1>3. QED
  BY <1>1, <1>2 DEF LoadTree, NoMesonBuild, BuildCrashes, OptionsCrash, OptionsMalformed

(* The strengthening is an invariant. *)
LEMMA DiagnosticsInvariant ==
    ASSUME Shallow
    PROVE  Spec => []DiagnosticsInv
<1>1. Init => DiagnosticsInv
  BY DEF Init, DiagnosticsInv, Blank
<1>2. TypeOK /\ DiagnosticsInv /\ [Next]_vars => DiagnosticsInv'
  <2> SUFFICES ASSUME TypeOK, DiagnosticsInv, [Next]_vars PROVE DiagnosticsInv'
    OBVIOUS
  <2>1. ASSUME UNCHANGED <<tree, ast, published>>
        PROVE  DiagnosticsInv'
    BY <2>1 DEF DiagnosticsInv
  <2>2. CASE UNCHANGED vars
    BY <2>1, <2>2 DEF vars, serverVars
  <2>3. CASE Server
    <3>1. tree.patches \in [File -> Text] /\ NoText \in Text
      BY DEF TypeOK, Text
    <3>2. CASE HandleInitialize
      BY <3>2, BlankType, LoadTreeDiagnostics DEF HandleInitialize
    <3>3. CASE HandleDidChange
      <4>1. Head(toServer).text \in Text
        BY <3>3, ReceiveType DEF HandleDidChange, ToServer
      <4>2. DidChangePatches(Head(toServer)) \in [File -> Text]
        BY <3>1, <4>1 DEF DidChangePatches
      <4>3. QED
        BY <2>1, <3>3, <4>2, LoadTreeDiagnostics DEF HandleDidChange
    <3>4. CASE HandleDidSave
      <4>1. DidSavePatches(Head(toServer)) \in [File -> Text]
        BY <3>1 DEF DidSavePatches
      <4>2. QED
        BY <3>4, <4>1, LoadTreeDiagnostics DEF HandleDidSave
    <3>5. CASE HandleOther \/ Hover \/ DocumentSymbol \/ Definition
      BY <2>1, <3>5 DEF HandleOther, Hover, DocumentSymbol, Definition, Answer, serverVars
    <3>6. QED
      BY <2>3, <3>2, <3>3, <3>4, <3>5 DEF Server
  <2>4. CASE Editor
    BY <2>1, <2>4 DEF Editor, Initialize, Edit, Save, Discard, Ask, serverVars
  <2>5. CASE ClientReceive \/ (\E f \in File : FileChanges(f)) \/ OptionsFileChanges
    BY <2>1, <2>5 DEF ClientReceive, FileChanges, OptionsFileChanges, serverVars
  <2>6. QED
    BY <2>2, <2>3, <2>4, <2>5 DEF Next
<1>3. QED
  BY TypeCorrect, <1>1, <1>2, PTL DEF Spec

(* In a project without nested subdirs no diagnostics outlive their text,     *)
(* whatever happens to the files, the root included.                          *)
THEOREM DiagnosticsFresh ==
    ASSUME Shallow
    PROVE  Spec => []NoStaleDiagnostics
<1>1. TypeOK /\ DiagnosticsInv => NoStaleDiagnostics
  BY DEF DiagnosticsInv, NoStaleDiagnostics
<1>2. QED
  BY TypeCorrect, DiagnosticsInvariant, <1>1, PTL
-----------------------------------------------------------------------------
(***************************************************************************)
(* SettledTree is not inductive: between a save, which changes the file,   *)
(* and the load_tree its didSave causes, the tree is of the files as they  *)
(* were.  The strengthening says that this is the only excuse: without a   *)
(* didSave in the pipe the tree is that of the overlay and the files.      *)
(***************************************************************************)
SavePending == \E i \in DOMAIN toServer : toServer[i].method = "didSave"

TreeInv ==
    Volatile = {} =>
        /\ \A f \in File : disk[f] \in Content
        /\ hasRoot /\ running /\ ~SavePending => ast = Merge(tree.patches)

(* What merge() returns depends on the overlay and the files only.            *)
LEMMA MergeOfSame ==
    ASSUME disk' = disk, NEW p, tree'.patches = p
    PROVE  Merge(tree.patches)' = Merge(p)
<1>1. \A f \in File : TextOf(tree.patches, f)' = TextOf(p, f)
  BY DEF TextOf
<1>2. \A f \in File : Subdirs(tree.patches, f)' = Subdirs(p, f)
  BY <1>1 DEF Subdirs
<1>3. Reached(tree.patches)' = Reached(p)
  BY <1>2 DEF Reached
<1>4. QED
  BY <1>1, <1>3 DEF Merge

(* A handler that loads the tree leaves it that of its overlay; the others    *)
(* take nothing but a message that is no didSave off the pipe.                *)
LEMMA ServerTree ==
    ASSUME TypeOK, TreeInv, Server
    PROVE  TreeInv'
<1> SUFFICES ASSUME Volatile = {}
             PROVE  /\ \A f \in File : disk'[f] \in Content
                    /\ hasRoot' /\ running' /\ ~SavePending' => ast' = Merge(tree.patches)'
  BY DEF TreeInv
<1> DEFINE msg == Head(toServer)
<1>1. ASSUME NEW methods, Receive(methods)
      PROVE  /\ disk' = disk
             /\ running
             /\ msg \in ToServer /\ msg.method \in methods
             /\ msg.method # "didSave" /\ SavePending => SavePending'
  <2>1. /\ toServer \in Seq(ToServer) /\ toServer # <<>> /\ toServer' = Tail(toServer)
        /\ disk' = disk /\ running
    BY <1>1 DEF Receive, TypeOK, diskVars
  <2>2. msg \in ToServer /\ msg.method \in methods
    BY <1>1, ReceiveType
  <2>3. ASSUME msg.method # "didSave", NEW i \in DOMAIN toServer, toServer[i].method = "didSave"
        PROVE  i - 1 \in DOMAIN toServer' /\ toServer'[i - 1] = toServer[i]
    <3>1. i \in 1 .. Len(toServer) /\ i # 1
      BY <2>1, <2>3
    <3>2. QED
      BY <2>1, <3>1
  <2>4. QED
    BY <2>1, <2>2, <2>3 DEF SavePending
<1>2. disk' = disk
  BY <1>1 DEF Server, HandleInitialize, HandleDidChange, HandleDidSave, HandleOther,
              Hover, DocumentSymbol, Definition
<1>3. \A f \in File : disk[f] \in Content
  BY DEF TreeInv
<1>4. ASSUME NEW p \in [File -> Text], NEW reply, LoadTree(p, reply)
      PROVE  hasRoot' /\ running' => ast' = Merge(tree.patches)'
  <2>1. RootThere /\ RootStable
    BY <1>3 DEF RootThere, RootStable
  <2>2. QED
    BY <1>2, <1>4, <2>1, LoadTreeOverlay, MergeOfSame
<1>5. ASSUME NEW methods, Receive(methods), "didSave" \notin methods,
             UNCHANGED <<tree, ast, running, hasRoot>>
      PROVE  hasRoot' /\ running' /\ ~SavePending' => ast' = Merge(tree.patches)'
  <2>1. ~SavePending' => ~SavePending
    BY <1>1, <1>5
  <2>2. Merge(tree.patches)' = Merge(tree.patches)
    BY <1>2, <1>5, MergeOfSame
  <2>3. QED
    BY <1>5, <2>1, <2>2 DEF TreeInv
<1>6. tree.patches \in [File -> Text] /\ NoText \in Text
  BY DEF TypeOK, Text
<1>7. CASE HandleInitialize
  BY <1>2, <1>3, <1>4, <1>7, BlankType DEF HandleInitialize
<1>8. CASE HandleDidChange
  <2>1. CASE UNCHANGED <<toClient, tree, ast, options, running, published>>
    BY <1>2, <1>3, <1>5, <1>8, <2>1 DEF HandleDidChange
  <2>2. CASE LoadTree(DidChangePatches(msg), <<>>)
    <3>1. msg.text \in Text
      BY <1>1, <1>8 DEF HandleDidChange, ToServer
    <3>2. DidChangePatches(msg) \in [File -> Text]
      BY <1>6, <3>1 DEF DidChangePatches
    <3>3. QED
      BY <1>2, <1>3, <1>4, <2>2, <3>2
  <2>3. QED
    BY <1>8, <2>1, <2>2 DEF HandleDidChange
<1>9. CASE HandleDidSave
  <2>1. DidSavePatches(msg) \in [File -> Text]
    BY <1>6 DEF DidSavePatches
  <2>2. QED
    BY <1>2, <1>3, <1>4, <1>9, <2>1 DEF HandleDidSave
<1>10. CASE HandleOther \/ Hover \/ DocumentSymbol \/ Definition
  BY <1>2, <1>3, <1>5, <1>10 DEF HandleOther, Hover, DocumentSymbol, Definition, Answer,
                                 serverVars, Call, Handled
<1>11. QED
  BY <1>7, <1>8, <1>9, <1>10 DEF Server

(* Of all other steps only a save writes a file, and it sends a didSave.      *)
LEMMA OthersTree ==
    ASSUME TypeOK, TreeInv,
           Editor \/ ClientReceive \/ (\E f \in File : FileChanges(f)) \/ OptionsFileChanges
    PROVE  TreeInv'
<1> SUFFICES ASSUME Volatile = {}
             PROVE  /\ \A f \in File : disk'[f] \in Content
                    /\ hasRoot' /\ running' /\ ~SavePending' => ast' = Merge(tree.patches)'
  BY DEF TreeInv
<1>1. \A f \in File : disk[f] \in Content
  BY DEF TreeInv
<1>2. toServer \in Seq(ToServer) /\ disk \in [File -> Content \union {Absent, Unreadable}]
  BY DEF TypeOK
<1>3. UNCHANGED <<tree, ast, running, hasRoot>>
  BY DEF Editor, Initialize, Edit, Save, Discard, Ask, ClientReceive, FileChanges,
         OptionsFileChanges, serverVars
<1>4. ASSUME SavePending, toServer' = toServer \/ (\E msg : toServer' = Append(toServer, msg))
      PROVE  SavePending'
  <2>1. PICK i \in DOMAIN toServer : toServer[i].method = "didSave"
    BY <1>4 DEF SavePending
  <2>2. i \in DOMAIN toServer' /\ toServer'[i] = toServer[i]
    BY <1>2, <1>4
  <2>3. QED
    BY <2>1, <2>2 DEF SavePending
<1>5. toServer' = toServer \/ (\E msg : toServer' = Append(toServer, msg))
  BY DEF Editor, Initialize, Edit, Save, Discard, Ask, ClientReceive, FileChanges,
         OptionsFileChanges, SendToServer, editorVars
<1>6. CASE disk' = disk
  <2>1. Merge(tree.patches)' = Merge(tree.patches)
    BY <1>3, <1>6, MergeOfSame
  <2>2. QED
    BY <1>1, <1>3, <1>4, <1>5, <1>6, <2>1 DEF TreeInv
<1>7. ASSUME NEW f \in File, Save(f)
      PROVE  SavePending' /\ (\A g \in File : disk'[g] \in Content)
  <2>1. toServer' = Append(toServer, Notification("didSave", f, NoText))
    BY <1>7 DEF Save, SendToServer
  <2>2. /\ Len(toServer) + 1 \in DOMAIN toServer'
        /\ toServer'[Len(toServer) + 1] = Notification("didSave", f, NoText)
    BY <1>2, <2>1
  <2>3. buffer[f] \in Content /\ disk' = [disk EXCEPT ![f] = buffer[f]]
    BY <1>7 DEF Save, TypeOK, Text
  <2>4. QED
    BY <1>1, <1>2, <2>2, <2>3 DEF SavePending, Notification
<1>8. disk' = disk \/ \E f \in File : Save(f)
  BY DEF Editor, Initialize, Edit, Discard, Ask, ClientReceive, FileChanges,
         OptionsFileChanges, diskVars
<1>9. QED
  BY <1>6, <1>7, <1>8

(* When the server has served everything the editor sent, and disregarded     *)
(* none of it, what it answers from is what the user sees, in every file of   *)
(* the project, whatever order of edits, saves and calls led there.           *)
THEOREM TreeSettles == Spec => []SettledTree
<1>1. Init => TreeInv
  BY DEF Init, TreeInv
<1>2. TypeOK /\ TreeInv /\ [Next]_vars => TreeInv'
  <2> SUFFICES ASSUME TypeOK, TreeInv, [Next]_vars PROVE TreeInv'
    OBVIOUS
  <2>1. CASE UNCHANGED vars
    <3>1. UNCHANGED <<toServer, disk, hasRoot, running, ast, tree>>
      BY <2>1 DEF vars, serverVars, diskVars
    <3>2. Merge(tree.patches)' = Merge(tree.patches)
      BY <3>1, MergeOfSame
    <3>3. QED
      BY <3>1, <3>2 DEF TreeInv, SavePending
  <2>2. CASE Next
    BY <2>2, ServerTree, OthersTree DEF Next
  <2>3. QED
    BY <2>1, <2>2
<1>3. TypeOK /\ TreeInv /\ OverlayFaithful => SettledTree
  <2> SUFFICES ASSUME TypeOK, TreeInv, OverlayFaithful, Volatile = {}, Serving,
                      toServer = <<>>, unheard = {}
               PROVE  ast = Merge(buffer)
    BY DEF SettledTree
  <2>1. ~SavePending /\ RootStable /\ hasRoot /\ running
    BY DEF SavePending, RootStable, Serving
  <2>2. ast = Merge(tree.patches)
    BY <2>1 DEF TreeInv
  <2>3. \A f \in File : About(f) = {}
    BY DEF About
  <2>4. \A f \in File : tree.patches[f] = buffer[f]
    BY <2>1, <2>3 DEF OverlayFaithful
  <2>5. tree.patches = buffer
    BY <2>4 DEF TypeOK
  <2>6. QED
    BY <2>2, <2>5
<1>4. QED
  BY TypeCorrect, OverlayFollowsEditor, <1>1, <1>2, <1>3, PTL DEF Spec

-----------------------------------------------------------------------------
(***************************************************************************)
(* SettledMarks speaks of what the editor shows; it follows from what the  *)
(* server has published, because the last batch in the pipe that says      *)
(* anything of a file, or the editor when there is none, has the mark last *)
(* published for it (Delivered), and from what load_tree publishes for the *)
(* tree it builds (MarksOfTree).                                           *)
(***************************************************************************)
Batches(s, f) ==
    {k \in DOMAIN s : s[k].type = "diagnostics" /\ (s[k].marks[f] # NoText \/ f \in s[k].cleared)}

(* What pipe s says last of file f, or, when it says nothing, mark m, is p.   *)
Delivered(s, m, p, f) ==
    /\ Batches(s, f) = {} => m = p
    /\ \A k \in Batches(s, f) : IsLast(k, Batches(s, f)) => s[k].marks[f] = p

MarksOfTree ==
    RootStable /\ hasRoot /\ running =>
        published = IF options = "empty" THEN Blank ELSE Marks(ast)

MarksInv ==
    /\ MarksOfTree
    /\ \A f \in File : Delivered(toClient, shown[f], published[f], f)

(* A message that is no batch about f changes nothing for f.                  *)
LEMMA AppendSilent ==
    ASSUME NEW s \in Seq(ToClient), NEW msg \in ToClient, NEW f, NEW m, NEW p,
           msg.type = "reply" \/ (msg.marks[f] = NoText /\ f \notin msg.cleared),
           Delivered(s, m, p, f)
    PROVE  Delivered(Append(s, msg), m, p, f)
<1>1. \A k \in 1 .. Len(s) : Append(s, msg)[k] = s[k]
  OBVIOUS
<1>2. Append(s, msg)[Len(s) + 1] = msg /\ DOMAIN Append(s, msg) = 1 .. Len(s) + 1
  OBVIOUS
<1>3. Batches(Append(s, msg), f) = Batches(s, f)
  BY <1>1, <1>2 DEF Batches
<1>4. \A k \in Batches(s, f) : Append(s, msg)[k] = s[k]
  BY <1>1 DEF Batches
<1>5. QED
  BY <1>3, <1>4 DEF Delivered

(* A batch about f is the last one about f.                                   *)
LEMMA AppendBatch ==
    ASSUME NEW s \in Seq(ToClient), NEW msg \in ToClient, NEW f, NEW m,
           msg.type = "diagnostics", msg.marks[f] # NoText \/ f \in msg.cleared
    PROVE  Delivered(Append(s, msg), m, msg.marks[f], f)
<1> DEFINE n == Len(s) + 1
           B == Batches(Append(s, msg), f)
<1>1. n \in B /\ Append(s, msg)[n] = msg
  BY DEF Batches
<1>2. \A k \in B : k \in 1 .. n
  BY DEF Batches
<1>3. \A k \in B : IsLast(k, B) => k = n
  BY <1>1, <1>2 DEF IsLast
<1>4. QED
  BY <1>1, <1>3 DEF Delivered

(* Reading a message shifts the positions of the others.                      *)
LEMMA TailBatches ==
    ASSUME NEW s \in Seq(ToClient), s # <<>>, NEW f
    PROVE  /\ \A k : k \in Batches(Tail(s), f) <=> k \in Nat /\ k + 1 \in Batches(s, f) /\ k # 0
           /\ \A k \in Batches(Tail(s), f) : Tail(s)[k] = s[k + 1]
           /\ \A k \in Batches(Tail(s), f) :
                 IsLast(k, Batches(Tail(s), f)) => IsLast(k + 1, Batches(s, f))
<1>1. /\ DOMAIN Tail(s) = 1 .. Len(s) - 1
      /\ DOMAIN s = 1 .. Len(s)
      /\ \A k \in 1 .. Len(s) - 1 : Tail(s)[k] = s[k + 1]
  OBVIOUS
<1>2. \A k : k \in Batches(Tail(s), f) <=> k \in Nat /\ k + 1 \in Batches(s, f) /\ k # 0
  BY <1>1 DEF Batches
<1>3. \A k \in Batches(Tail(s), f) : Tail(s)[k] = s[k + 1]
  BY <1>1 DEF Batches
<1>4. ASSUME NEW k \in Batches(Tail(s), f), IsLast(k, Batches(Tail(s), f)),
             NEW j \in Batches(s, f)
      PROVE  j <= k + 1
  <2>1. k \in Nat /\ j \in 1 .. Len(s)
    BY <1>2 DEF Batches
  <2>2. CASE j = 1
    BY <2>1, <2>2
  <2>3. CASE j # 1
    <3>1. j - 1 \in Batches(Tail(s), f)
      BY <1>2, <2>1, <2>3
    <3>2. QED
      BY <1>4, <2>1, <3>1 DEF IsLast
  <2>4. QED
    BY <2>2, <2>3
<1>5. QED
  BY <1>2, <1>3, <1>4 DEF IsLast

(* What the pipe says last of f after the head is read: nothing, and then the *)
(* head said it, or what it said before.                                      *)
LEMMA TailDelivered ==
    ASSUME NEW s \in Seq(ToClient), s # <<>>, NEW f, NEW m, NEW p, Delivered(s, m, p, f), NEW n,
           1 \in Batches(s, f) => n = Head(s).marks[f],
           1 \notin Batches(s, f) => n = m
    PROVE  Delivered(Tail(s), n, p, f)
<1>1. ASSUME Batches(Tail(s), f) = {}
      PROVE  n = p
  <2>1. \A j \in Batches(s, f) : j = 1
    <3> SUFFICES ASSUME NEW j \in Batches(s, f), j # 1 PROVE j - 1 \in Batches(Tail(s), f)
      BY <1>1
    <3>1. j \in 1 .. Len(s)
      BY DEF Batches
    <3>2. QED
      BY <3>1, TailBatches
  <2>2. CASE 1 \in Batches(s, f)
    <3>1. IsLast(1, Batches(s, f)) /\ Head(s) = s[1]
      BY <2>1 DEF IsLast
    <3>2. QED
      BY <2>2, <3>1 DEF Delivered
  <2>3. CASE 1 \notin Batches(s, f)
    BY <2>1, <2>3 DEF Delivered
  <2>4. QED
    BY <2>2, <2>3
<1>2. ASSUME NEW k \in Batches(Tail(s), f), IsLast(k, Batches(Tail(s), f))
      PROVE  Tail(s)[k].marks[f] = p
  <2>1. k + 1 \in Batches(s, f) /\ IsLast(k + 1, Batches(s, f)) /\ Tail(s)[k] = s[k + 1]
    BY <1>2, TailBatches
  <2>2. QED
    BY <2>1 DEF Delivered
<1>3. QED
  BY <1>1, <1>2 DEF Delivered

(* Publishing keeps the editor on the way to the marks last published.        *)
LEMMA PublishDelivered ==
    ASSUME TypeOK, NEW m \in [File -> Text], NEW reply, Publish(m, reply),
           reply = <<>> \/ reply = <<Reply(0, Root, NoText)>>,
           \A f \in File : Delivered(toClient, shown[f], published[f], f),
           shown' = shown
    PROVE  \A f \in File : Delivered(toClient', shown'[f], published'[f], f)
<1> DEFINE batch == Diagnostics(tree.childFiles, m)
           blank == Reply(0, Root, NoText)
<1>1. batch \in ToClient /\ blank \in ToClient
  BY MessageType, BlankType, 0 \in 0 .. MaxCalls DEF TypeOK, Text
<1>2. toClient \in Seq(ToClient) /\ Append(toClient, batch) \in Seq(ToClient)
  BY <1>1 DEF TypeOK
<1>3. \/ toClient' = Append(toClient, batch)
      \/ toClient' = Append(Append(toClient, batch), blank)
  BY <1>1, <1>2, ConcatAppend DEF Publish
<1>4. /\ batch.type = "diagnostics" /\ batch.marks = m /\ batch.cleared = tree.childFiles
      /\ blank.type = "reply"
  BY DEF Diagnostics, Reply
<1>5. ASSUME NEW f \in File
      PROVE  Delivered(Append(toClient, batch), shown[f], published'[f], f)
  <2>1. published'[f] = IF m[f] # NoText THEN m[f]
                        ELSE IF f \in tree.childFiles THEN NoText ELSE published[f]
    BY <1>4 DEF Publish, After
  <2>2. CASE m[f] # NoText \/ f \in tree.childFiles
    <3>1. published'[f] = batch.marks[f]
      BY <1>4, <2>1, <2>2
    <3>2. QED
      BY <1>1, <1>2, <1>4, <2>2, <3>1, AppendBatch
  <2>3. CASE m[f] = NoText /\ f \notin tree.childFiles
    <3>1. published'[f] = published[f]
      BY <2>1, <2>3
    <3>2. QED
      BY <1>1, <1>2, <1>4, <2>3, <3>1, AppendSilent
  <2>4. QED
    BY <2>2, <2>3
<1>6. ASSUME NEW f \in File
      PROVE  Delivered(Append(Append(toClient, batch), blank), shown[f], published'[f], f)
  BY <1>1, <1>2, <1>4, <1>5, AppendSilent
<1>7. QED
  BY <1>3, <1>5, <1>6

(* What load_tree publishes for the tree it builds are the marks of that      *)
(* tree, and none without options.                                            *)
LEMMA LoadTreeMarks ==
    ASSUME Shallow, TypeOK, DiagnosticsInv, RootThere, NEW p \in [File -> Text],
           NEW reply \in Seq(ToClient), LoadTree(p, reply)
    PROVE  MarksOfTree'
<1> SUFFICES ASSUME RootStable, hasRoot', running'
             PROVE  published' = IF options' = "empty" THEN Blank ELSE Marks(ast)'
  BY DEF MarksOfTree, RootStable
<1>1. disk[Root] \in Content
  BY DEF RootThere
<1>2. ASSUME NEW m \in [File -> Text], Publish(m, reply)
      PROVE  published' = m
  <2>1. published' \in [File -> Text]
    BY <1>2, PublishType
  <2>2. \A f \in File : published'[f] = m[f]
    BY <1>2, PublishedMarks
  <2>3. QED
    BY <2>1, <2>2
<1>3. CASE OptionsMalformed(p, reply)
  BY <1>2, <1>3, BlankType DEF OptionsMalformed
<1>4. CASE Analyse(p, reply)
  <2>1. ast' = Merge(p) /\ disk[Root] # Absent
    BY <1>4 DEF Analyse, Rebuild
  <2>2. Marks(ast)' = Marks(Merge(p)) /\ Marks(Merge(p)) \in [File -> Text]
    BY <2>1, MergeType, MarksType DEF Marks
  <2>3. published' = Marks(Merge(p))
    BY <1>2, <1>4, <2>2 DEF Analyse
  <2>4. QED
    BY <1>4, <2>2, <2>3 DEF Analyse
<1>5. ~NoMesonBuild(reply) /\ ~BuildCrashes(p) /\ ~OptionsCrash(p)
  BY <1>1 DEF NoMesonBuild, BuildCrashes, OptionsCrash, Text
<1>6. QED
  BY <1>3, <1>4, <1>5 DEF LoadTree

(* A handler that loads the tree publishes its marks; the others write        *)
(* nothing but a reply.                                                       *)
LEMMA ServerMarks ==
    ASSUME Shallow, TypeOK, DiagnosticsInv, RootThere, MarksInv, Server
    PROVE  MarksInv'
<1> DEFINE msg == Head(toServer)
           Way == \A f \in File : Delivered(toClient, shown[f], published[f], f)
           blank == Reply(0, Root, NoText)
<1>1. ASSUME NEW methods, Receive(methods)
      PROVE  /\ shown' = shown
             /\ msg \in ToServer /\ msg.method \in methods
  BY <1>1, ReceiveType DEF Receive, editorVars
<1>2. ASSUME NEW p \in [File -> Text], NEW reply \in Seq(ToClient), LoadTree(p, reply),
             reply = <<>> \/ reply = <<blank>>, shown' = shown
      PROVE  MarksInv'
  <2>1. MarksOfTree'
    BY <1>2, LoadTreeMarks
  <2>2. PICK m \in [File -> Text] : Publish(m, reply) \/ Publish(m, <<>>)
    BY <1>2, LoadTreePublishes
  <2>3. Way'
    BY <1>2, <2>2, PublishDelivered DEF MarksInv
  <2>4. QED
    BY <2>1, <2>3 DEF MarksInv
<1>3. ASSUME shown' = shown, UNCHANGED <<toClient, published, running, hasRoot, options, ast>>
      PROVE  MarksInv'
  BY <1>3 DEF MarksInv, MarksOfTree, RootStable, Blank, Marks
<1>4. ASSUME shown' = shown, NEW i \in 0 .. MaxCalls, NEW f \in File, NEW t \in Text,
             Answer(i, f, t)
      PROVE  MarksInv'
  <2>1. Reply(i, f, t) \in ToClient /\ Reply(i, f, t).type = "reply"
    BY MessageType, BlankType DEF Reply
  <2>2. toClient \in Seq(ToClient) /\ toClient' = Append(toClient, Reply(i, f, t))
    BY <1>4 DEF Answer, TypeOK
  <2>3. UNCHANGED <<running, hasRoot, options, ast, published>>
    BY <1>4 DEF Answer, serverVars
  <2>4. \A g \in File : Delivered(toClient', shown[g], published[g], g)
    BY <2>1, <2>2, AppendSilent DEF MarksInv
  <2>5. QED
    BY <1>4, <2>3, <2>4 DEF MarksInv, MarksOfTree, RootStable, Blank, Marks
<1>5. tree.patches \in [File -> Text] /\ ast \in [File -> Text] /\ NoText \in Text
  BY DEF TypeOK, Text
<1>6. <<>> \in Seq(ToClient) /\ <<blank>> \in Seq(ToClient)
  BY <1>5, MessageType, BlankType, 0 \in 0 .. MaxCalls
<1>7. CASE HandleInitialize
  BY <1>1, <1>2, <1>6, <1>7, BlankType DEF HandleInitialize
<1>8. CASE HandleDidChange
  <2>1. msg.text \in Text /\ shown' = shown /\ hasRoot' = hasRoot
    BY <1>1, <1>8 DEF HandleDidChange, ToServer
  <2>2. DidChangePatches(msg) \in [File -> Text]
    BY <1>5, <2>1 DEF DidChangePatches
  <2>3. QED
    BY <1>2, <1>3, <1>6, <1>8, <2>1, <2>2 DEF HandleDidChange
<1>9. CASE HandleDidSave
  <2>1. DidSavePatches(msg) \in [File -> Text]
    BY <1>5 DEF DidSavePatches
  <2>2. QED
    BY <1>1, <1>2, <1>6, <1>9, <2>1 DEF HandleDidSave
<1>10. CASE HandleOther
  BY <1>1, <1>3, <1>10 DEF HandleOther, serverVars
<1>11. CASE Hover \/ DocumentSymbol \/ Definition
  <2>1. shown' = shown /\ msg.file \in File /\ msg.id \in 0 .. MaxCalls
    BY <1>1, <1>11 DEF Hover, DocumentSymbol, Definition, ToServer
  <2>2. ASSUME ast[msg.file] # NoText
        PROVE  Includes[msg.file][ast[msg.file]] \subseteq File
    <3>1. ast[msg.file] \in Content
      BY <1>5, <2>1, <2>2 DEF Text
    <3>2. QED
      BY <2>1, <3>1, IncludesAssumption
  <2>3. \E f \in File : Answer(msg.id, f, NoText) \/ Answer(msg.id, f, ast[f])
    BY <1>11, <2>1, <2>2 DEF Hover, DocumentSymbol, Definition
  <2>4. QED
    BY <1>4, <1>5, <2>1, <2>3
<1>12. QED
  BY <1>7, <1>8, <1>9, <1>10, <1>11 DEF Server

(* Reading a batch brings the editor to what the batch says.                  *)
LEMMA ClientMarks ==
    ASSUME TypeOK, MarksInv, ClientReceive
    PROVE  MarksInv'
<1>1. UNCHANGED <<running, hasRoot, options, ast, published>>
  BY DEF ClientReceive, serverVars
<1>2. toClient \in Seq(ToClient) /\ toClient # <<>> /\ toClient' = Tail(toClient)
  BY DEF ClientReceive, TypeOK
<1>3. ASSUME NEW f \in File
      PROVE  Delivered(Tail(toClient), shown'[f], published[f], f)
  <2>1. Delivered(toClient, shown[f], published[f], f)
    BY DEF MarksInv
  <2>2. 1 \in Batches(toClient, f) <=>
           /\ Head(toClient).type = "diagnostics"
           /\ Head(toClient).marks[f] # NoText \/ f \in Head(toClient).cleared
    BY <1>2 DEF Batches
  <2>3. CASE Head(toClient).type = "diagnostics"
    <3>1. shown'[f] = IF Head(toClient).marks[f] # NoText THEN Head(toClient).marks[f]
                      ELSE IF f \in Head(toClient).cleared THEN NoText ELSE shown[f]
      BY <2>3 DEF ClientReceive, After
    <3>2. QED
      BY <1>2, <2>1, <2>2, <2>3, <3>1, TailDelivered
  <2>4. CASE Head(toClient).type = "reply"
    <3>1. shown'[f] = shown[f]
      BY <2>4 DEF ClientReceive
    <3>2. QED
      BY <1>2, <2>1, <2>2, <2>4, <3>1, TailDelivered
  <2>5. QED
    BY <2>3, <2>4 DEF ClientReceive
<1>4. QED
  BY <1>1, <1>2, <1>3 DEF MarksInv, MarksOfTree, RootStable, Blank, Marks

(* In a project without nested subdirs, whatever happens to its files other   *)
(* than the root: when both pipes are empty the editor shows every fault of   *)
(* the tree the server works on and no other.                                 *)
THEOREM MarksSettle ==
    ASSUME Shallow
    PROVE  Spec => []SettledMarks
<1>1. Init => MarksInv
  <2> SUFFICES ASSUME Init PROVE MarksInv
    OBVIOUS
  <2>1. \A f \in File : Delivered(toClient, shown[f], published[f], f)
    BY DEF Init, Delivered, Batches, Blank
  <2>2. QED
    BY <2>1 DEF Init, MarksInv, MarksOfTree
<1>2. TypeOK /\ OverlayInv /\ DiagnosticsInv /\ MarksInv /\ [Next]_vars => MarksInv'
  <2> SUFFICES ASSUME TypeOK, RootThere, DiagnosticsInv, MarksInv, [Next]_vars PROVE MarksInv'
    BY DEF OverlayInv
  <2>1. ASSUME UNCHANGED <<shown, toClient, running, hasRoot, options, ast, published>>
        PROVE  MarksInv'
    BY <2>1 DEF MarksInv, MarksOfTree, RootStable, Blank, Marks
  <2>2. CASE Server
    BY <2>2, ServerMarks
  <2>3. CASE ClientReceive
    BY <2>3, ClientMarks
  <2>4. CASE \/ Editor \/ (\E f \in File : FileChanges(f)) \/ OptionsFileChanges
             \/ UNCHANGED vars
    BY <2>1, <2>4 DEF Editor, Initialize, Edit, Save, Discard, Ask, FileChanges,
                      OptionsFileChanges, vars, editorVars, serverVars
  <2>5. QED
    BY <2>2, <2>3, <2>4 DEF Next
<1>3. TypeOK /\ MarksInv => SettledMarks
  <2> SUFFICES ASSUME TypeOK, MarksInv, RootStable, Serving, toClient = <<>>
               PROVE  shown = IF options = "empty" THEN Blank ELSE Marks(ast)
    BY DEF SettledMarks
  <2>1. \A f \in File : shown[f] = published[f]
    BY DEF MarksInv, Delivered, Batches
  <2>2. shown = published
    BY <2>1 DEF TypeOK
  <2>3. QED
    BY <2>2 DEF MarksInv, MarksOfTree, Serving
<1>4. QED
  BY TypeCorrect, OverlayInvariant, DiagnosticsInvariant, <1>1, <1>2, <1>3, PTL DEF Spec
=============================================================================
