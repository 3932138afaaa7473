------------------------------ MODULE MesonLsp ------------------------------
(***************************************************************************)
(* The language server of src/server.vala with its editor, the two pipes   *)
(* between them and the files on disk.                                     *)
(*                                                                         *)
(* The server is one GLib main loop: jsonrpc-glib hands it one message at  *)
(* a time and reads the next one when the handler has returned, so a       *)
(* handler is one step.  What is concurrent is everything around it: the   *)
(* editor goes on typing, saving, closing and asking while its earlier     *)
(* messages wait in the pipe, and files change on disk with no message.    *)
(*                                                                         *)
(* A text is abstracted to what the handlers tell apart: the meson.build   *)
(* files its subdir() calls name (Includes) and whether the analysis       *)
(* complains about it (Faulty).                                            *)
(***************************************************************************)
EXTENDS Integers, Sequences, FiniteSets

CONSTANTS
    File,           \* the meson.build files of the project
    Root,           \* the meson.build of the workspace folder
    Content,        \* the texts a file may have
    Includes,       \* Includes[f][c]: the files that text c of f includes by subdir()
    Faulty,         \* the texts in which the analysis finds something to report
    NoText,         \* no text: no unsaved text, no overlay, not in the tree, no mark
    Absent,         \* on disk: there is no such file
    Unreadable,     \* on disk: the file is there and cannot be read as text
    Volatile,       \* the files that other programs change, remove or lock
    OptionsStates,  \* the states meson_options.txt goes through (see OptionsState)
    Wayward,        \* TRUE: the editor may send what the server disregards (didClose,
                    \* a didChange with several changes, calls without a handler)
    MaxPipe,        \* bound on the messages in one pipe
    MaxCalls        \* bound on the calls the editor makes

(* "absent": no such file; "parsed": the parser found a build definition;     *)
(* "malformed": a syntax error hides it, or the file cannot be read;          *)
(* "blank": nothing in it but white space and comments.                       *)
OptionsState == {"absent", "parsed", "malformed", "blank"}

Text == Content \union {NoText}

ASSUME RootAssumption == Root \in File

ASSUME ContentAssumption ==
    /\ NoText \notin Content
    /\ Absent \notin Text
    /\ Unreadable \notin Text \union {Absent}
    /\ Faulty \subseteq Content

(* A file includes files of deeper directories only.  What SymbolTree.build   *)
(* does with other includes is the subject of module SymbolTree.              *)
ASSUME IncludesAssumption ==
    /\ Includes \in [File -> [Content -> SUBSET File]]
    /\ \E rank \in [File -> 0 .. Cardinality(File)] :
          \A f \in File, c \in Content : \A g \in Includes[f][c] : rank[g] > rank[f]

ASSUME BehaviourAssumption ==
    /\ Volatile \subseteq File
    /\ OptionsStates \subseteq OptionsState
    /\ OptionsStates # {}
    /\ Wayward \in BOOLEAN
    /\ MaxPipe \in Nat \ {0}
    /\ MaxCalls \in Nat

VARIABLES
    phase,          \* the editor: "fresh", "starting" (initialize sent) or "ready"
    buffer,         \* the editor: the unsaved text of each file
    shown,          \* the editor: the diagnosed text it shows marks for
    answers,        \* the editor: the replies it has received
    toServer,       \* stdin of the server
    toClient,       \* its stdout
    disk,           \* the files
    optionsFile,    \* meson_options.txt of the workspace folder
    running,        \* the server process is alive
    hasRoot,        \* base_uri is a folder and not null
    tree,           \* this.tree: the patches it was built with and its child_files
    ast,            \* this.ast: the text of every file merged into it
    options,        \* this.options: "empty", "builtin" or "project"
    published,      \* history: the last diagnostics the server sent for each file
    seen,           \* history: what the editor had in each file since each call
    unheard         \* history: the files whose last editor event the server disregards

editorVars  == <<phase, buffer, shown, answers>>
diskVars    == <<disk, optionsFile>>
serverVars  == <<running, hasRoot, tree, ast, options, published>>
historyVars == <<seen, unheard>>
vars == <<editorVars, toServer, toClient, diskVars, serverVars, historyVars>>

-----------------------------------------------------------------------------
(* The messages. *)

Handled == {"hover", "definition", "documentSymbol"}
Call    == Handled \union {"documentHighlight"}
Notice  == {"didChange", "didSave", "didClose"}

(* A didChange carries its text when it holds exactly one change, else NoText. *)
ToServer == {m \in [method : Notice \union Call \union {"initialize"},
                    file : File, text : Text, id : 0 .. MaxCalls, root : BOOLEAN] :
                m.method # "didChange" => m.text = NoText}

Notification(m, f, t) == [method |-> m, file |-> f, text |-> t, id |-> 0, root |-> TRUE]
Request(m, f, i)      == [method |-> m, file |-> f, text |-> NoText, id |-> i, root |-> TRUE]
InitializeRequest(r)  == [method |-> "initialize", file |-> Root, text |-> NoText,
                          id |-> 0, root |-> r]

Blank == [f \in File |-> NoText]

(* "diagnostics" is one batch of publishDiagnostics: an empty list for every  *)
(* file of cleared, and after these one list for every file with a mark.      *)
ToClient == [type : {"diagnostics", "reply"}, cleared : SUBSET File,
             marks : [File -> Text], id : 0 .. MaxCalls, file : File, text : Text]

Diagnostics(S, m) == [type |-> "diagnostics", cleared |-> S, marks |-> m,
                      id |-> 0, file |-> Root, text |-> NoText]
Reply(i, f, t)    == [type |-> "reply", cleared |-> {}, marks |-> Blank,
                      id |-> i, file |-> f, text |-> t]

After(marks, batch) ==
    [f \in File |-> IF batch.marks[f] # NoText THEN batch.marks[f]
                    ELSE IF f \in batch.cleared THEN NoText ELSE marks[f]]

-----------------------------------------------------------------------------
(* SymbolTree.build with overlay p, and merge. *)

TextOf(p, f) == IF p[f] # NoText THEN p[f] ELSE disk[f]

(* Mutant of Subdirs: nobody asks whether the file exists. *)
SubdirsUnchecked(p, f) == IF TextOf(p, f) \in Content THEN Includes[f][TextOf(p, f)] ELSE {}

Subdirs(p, f) ==
    IF TextOf(p, f) \in Content
    THEN {g \in Includes[f][TextOf(p, f)] : disk[g] # Absent} ELSE {}

(* The files build() visits: the least set with the root and its subdirs. *)
Reached(p) ==
    {f \in File : \A S \in SUBSET File :
        Root \in S /\ (\A g \in S : Subdirs(p, g) \subseteq S) => f \in S}

NullTree == [patches |-> Blank, childFiles |-> {}]

(* Mutant of Build: the subdirs are not recorded in child_files. *)
BuildNoChildren(p) == [patches |-> p, childFiles |-> {Root}]

(* Mutant of Build: the file itself is not recorded in child_files. *)
BuildNoSelf(p) == [patches |-> p, childFiles |-> Subdirs(p, Root)]

(* An unreadable root makes build() return null; without a tree the next      *)
(* overlay starts empty and no file is cleared, as with NullTree.             *)
Build(p) == IF TextOf(p, Root) = Unreadable THEN NullTree
            ELSE [patches |-> p, childFiles |-> {Root} \union Subdirs(p, Root)]

Merge(p) == [f \in File |-> IF f \in Reached(p) /\ TextOf(p, f) # Unreadable
                            THEN TextOf(p, f) ELSE NoText]

(* build() of an unreadable subdir returns null and its caller reads st.file. *)
SubdirUnreadable(p) == \E f \in Reached(p) \ {Root} : TextOf(p, f) = Unreadable

Marks(a) == [f \in File |-> IF a[f] \in Faulty THEN a[f] ELSE NoText]

-----------------------------------------------------------------------------
(* load_tree *)

Publish(m, reply) ==
    /\ toClient' = toClient \o <<Diagnostics(tree.childFiles, m)>> \o reply
    /\ published' = After(published, Diagnostics(tree.childFiles, m))

NoMesonBuild(reply) ==
    /\ ~hasRoot' \/ disk[Root] = Absent
    /\ Publish(Blank, reply)
    /\ UNCHANGED <<tree, ast, options, running>>

BuildCrashes(p) ==
    /\ hasRoot' /\ disk[Root] # Absent
    /\ SubdirUnreadable(p)
    /\ options' = "empty"
    /\ running' = FALSE
    /\ Publish(Blank, <<>>)
    /\ UNCHANGED <<tree, ast>>

(* Mutant of Rebuild: the old patches are merged. *)
RebuildOldPatches(p) ==
    /\ hasRoot' /\ disk[Root] # Absent
    /\ ~SubdirUnreadable(p)
    /\ tree' = Build(p)
    /\ ast' = Merge(tree.patches)

Rebuild(p) ==
    /\ hasRoot' /\ disk[Root] # Absent
    /\ ~SubdirUnreadable(p)
    /\ tree' = Build(p)
    /\ ast' = Merge(p)

OptionsCrash(p) ==
    /\ Rebuild(p)
    /\ optionsFile = "blank"
    /\ options' = "empty"
    /\ running' = FALSE
    /\ Publish(Blank, <<>>)

(* Mutant of OptionsMalformed: diagnostics are published without options. *)
OptionsIgnored(p, reply) ==
    /\ Rebuild(p)
    /\ optionsFile = "malformed"
    /\ options' = "empty"
    /\ Publish(Marks(Merge(p)), reply)
    /\ UNCHANGED running

OptionsMalformed(p, reply) ==
    /\ Rebuild(p)
    /\ optionsFile = "malformed"
    /\ options' = "empty"
    /\ Publish(Blank, reply)
    /\ UNCHANGED running

Analyse(p, reply) ==
    /\ Rebuild(p)
    /\ optionsFile \in {"absent", "parsed"}
    /\ options' = IF optionsFile = "parsed" THEN "project" ELSE "builtin"
    /\ Publish(Marks(Merge(p)), reply)
    /\ UNCHANGED running

LoadTree(p, reply) ==
    \/ NoMesonBuild(reply)
    \/ BuildCrashes(p)
    \/ OptionsCrash(p)
    \/ OptionsMalformed(p, reply)
    \/ Analyse(p, reply)

-----------------------------------------------------------------------------
(* The handlers. *)

Receive(methods) ==
    /\ running
    /\ toServer # <<>>
    /\ Head(toServer).method \in methods
    /\ Len(toClient) < MaxPipe
    /\ toServer' = Tail(toServer)
    /\ UNCHANGED <<editorVars, diskVars, historyVars>>

HandleInitialize ==
    /\ Receive({"initialize"})
    /\ hasRoot' = Head(toServer).root
    /\ LoadTree(Blank, <<Reply(0, Root, NoText)>>)

(* Mutant of DidChangePatches: the other patches are not copied. *)
DidChangeForgets(msg) == [Blank EXCEPT ![msg.file] = msg.text]

DidChangePatches(msg) == [tree.patches EXCEPT ![msg.file] = msg.text]

HandleDidChange ==
    /\ Receive({"didChange"})
    /\ UNCHANGED hasRoot
    /\ \/ /\ Head(toServer).text = NoText
          /\ UNCHANGED <<toClient, tree, ast, options, running, published>>
       \/ /\ Head(toServer).text # NoText
          /\ LoadTree(DidChangePatches(Head(toServer)), <<>>)

(* Mutant of DidSavePatches: the patch of the saved file is kept. *)
DidSaveKeeps(msg) == tree.patches

DidSavePatches(msg) == [tree.patches EXCEPT ![msg.file] = NoText]

HandleDidSave ==
    /\ Receive({"didSave"})
    /\ UNCHANGED hasRoot
    /\ LoadTree(DidSavePatches(Head(toServer)), <<>>)

(* didClose is not in the switch of notification(); a call outside the switch *)
(* of handle_call() is reported as handled and never replied to.              *)
HandleOther ==
    /\ Receive({"didClose"} \union (Call \ Handled))
    /\ UNCHANGED <<toClient, serverVars>>

(* Mutant of Answer: the reply overtakes what is in the pipe. *)
AnswerFirst(i, f, t) ==
    /\ toClient' = <<Reply(i, f, t)>> \o toClient
    /\ UNCHANGED serverVars

Answer(i, f, t) ==
    /\ toClient' = Append(toClient, Reply(i, f, t))
    /\ UNCHANGED serverVars

(* Mutant of Hover: no null reply where nothing is found. *)
HoverSilent ==
    /\ Receive({"hover"})
    /\ IF ast[Head(toServer).file] = NoText
       THEN UNCHANGED <<toClient, serverVars>>
       ELSE Answer(Head(toServer).id, Head(toServer).file, ast[Head(toServer).file])

(* The statements of the file are searched; null when it is not in the tree. *)
Hover ==
    /\ Receive({"hover"})
    /\ Answer(Head(toServer).id, Head(toServer).file, ast[Head(toServer).file])

DocumentSymbol ==
    /\ Receive({"documentSymbol"})
    /\ Answer(Head(toServer).id, Head(toServer).file, ast[Head(toServer).file])

(* The identifier under the cursor is searched in every merged file; with no  *)
(* identifier there, a subdir() call leads to the file it names, if it exists *)
(* by now.  Null when there is neither.                                       *)
Definition ==
    /\ Receive({"definition"})
    /\ LET f == Head(toServer).file
           merged == {g \in File : ast[g] # NoText}
           named  == {g \in Includes[f][ast[f]] : disk[g] # Absent}
       IN \/ Answer(Head(toServer).id, f, NoText)
          \/ /\ f \in merged
             /\ \E g \in merged \union named :
                    Answer(Head(toServer).id, g, ast[g])

Server ==
    \/ HandleInitialize \/ HandleDidChange \/ HandleDidSave \/ HandleOther
    \/ Hover \/ DocumentSymbol \/ Definition

-----------------------------------------------------------------------------
(* The editor (external). *)

(* What the user sees in a file: the unsaved text, or the file itself. *)
View(b, d, f) == IF b[f] # NoText THEN b[f] ELSE d[f]

SendToServer(msg) ==
    /\ running
    /\ Len(toServer) < MaxPipe
    /\ toServer' = Append(toServer, msg)

(* Every call still in the system has now been open while f showed t. *)
Witness(f, t) == seen' = [i \in DOMAIN seen |-> seen[i] \union {<<f, t>>}]

Initialize ==
    /\ phase = "fresh"
    /\ phase' = "starting"
    /\ \E r \in BOOLEAN : SendToServer(InitializeRequest(r))
    /\ UNCHANGED <<buffer, shown, answers, toClient, diskVars, serverVars, historyVars>>

Edit(f, c) ==
    /\ phase = "ready"
    /\ c # View(buffer, disk, f)
    /\ buffer' = [buffer EXCEPT ![f] = c]
    /\ Witness(f, c)
    /\ \/ /\ SendToServer(Notification("didChange", f, c))
          /\ unheard' = unheard \ {f}
       \/ /\ Wayward
          /\ SendToServer(Notification("didChange", f, NoText))
          /\ unheard' = unheard \union {f}
    /\ UNCHANGED <<phase, shown, answers, toClient, diskVars, serverVars>>

Save(f) ==
    /\ phase = "ready"
    /\ buffer[f] # NoText
    /\ disk' = [disk EXCEPT ![f] = buffer[f]]
    /\ buffer' = [buffer EXCEPT ![f] = NoText]
    /\ unheard' = unheard \ {f}
    /\ SendToServer(Notification("didSave", f, NoText))
    /\ UNCHANGED <<phase, shown, answers, toClient, optionsFile, serverVars, seen>>

(* The file is closed and its unsaved text thrown away. *)
Discard(f) ==
    /\ Wayward
    /\ phase = "ready"
    /\ buffer[f] # NoText
    /\ buffer' = [buffer EXCEPT ![f] = NoText]
    /\ unheard' = unheard \union {f}
    /\ Witness(f, disk[f])
    /\ SendToServer(Notification("didClose", f, NoText))
    /\ UNCHANGED <<phase, shown, answers, toClient, diskVars, serverVars>>

(* A call is about what the user sees now; in a file whose last event the     *)
(* server disregards it may be about anything.                                *)
Ask(m, f) ==
    /\ phase = "ready"
    /\ m \in Handled \/ Wayward
    /\ Len(seen) < MaxCalls
    /\ SendToServer(Request(m, f, Len(seen) + 1))
    /\ seen' = Append(seen, {<<g, View(buffer, disk, g)>> : g \in File}
                              \union (unheard \X Content))
    /\ UNCHANGED <<editorVars, toClient, diskVars, serverVars, unheard>>

ClientReceive ==
    /\ toClient # <<>>
    /\ toClient' = Tail(toClient)
    /\ LET msg == Head(toClient)
       IN \/ /\ msg.type = "diagnostics"
             /\ shown' = After(shown, msg)
             /\ UNCHANGED <<phase, answers>>
          \/ /\ msg.type = "reply"
             /\ phase' = "ready"
             /\ answers' = IF msg.id = 0 THEN answers ELSE Append(answers, msg)
             /\ UNCHANGED shown
    /\ UNCHANGED <<buffer, toServer, diskVars, serverVars, historyVars>>

Editor ==
    \/ Initialize
    \/ \E f \in File : Save(f) \/ Discard(f)
    \/ \E f \in File, c \in Content : Edit(f, c)
    \/ \E m \in Call, f \in File : Ask(m, f)

-----------------------------------------------------------------------------
(* Other programs (external). *)

FileChanges(f) ==
    /\ f \in Volatile
    /\ \E c \in Content \union {Absent, Unreadable} : disk' = [disk EXCEPT ![f] = c]
    /\ UNCHANGED <<editorVars, toServer, toClient, optionsFile, serverVars, historyVars>>

OptionsFileChanges ==
    /\ optionsFile' \in OptionsStates \ {optionsFile}
    /\ UNCHANGED <<editorVars, toServer, toClient, disk, serverVars, historyVars>>

Init ==
    /\ phase = "fresh"
    /\ buffer = Blank /\ shown = Blank /\ answers = <<>>
    /\ toServer = <<>> /\ toClient = <<>>
    /\ disk \in [File -> Content \union {Absent}]
    /\ \A f \in File \ Volatile : disk[f] \in Content
    /\ optionsFile \in OptionsStates
    /\ running = TRUE /\ hasRoot = FALSE
    /\ tree = NullTree /\ ast = Blank /\ options = "empty"
    /\ published = Blank
    /\ seen = <<>> /\ unheard = {}

Next ==
    \/ Server
    \/ Editor
    \/ ClientReceive
    \/ \E f \in File : FileChanges(f)
    \/ OptionsFileChanges

Spec == Init /\ [][Next]_vars

(* The main loop serves every message, and the editor reads every reply. *)
Fairness == WF_vars(Server) /\ WF_vars(ClientReceive)

FairSpec == Spec /\ Fairness
-----------------------------------------------------------------------------
(* Properties. *)

(* Every variable stays in its type: the overlay, the tree and the marks are  *)
(* texts of files, and both pipes hold only messages of the protocol.         *)
TypeOK ==
    /\ phase \in {"fresh", "starting", "ready"}
    /\ buffer \in [File -> Text]
    /\ shown \in [File -> Text]
    /\ answers \in Seq(ToClient)
    /\ toServer \in Seq(ToServer)
    /\ toClient \in Seq(ToClient)
    /\ disk \in [File -> Content \union {Absent, Unreadable}]
    /\ optionsFile \in OptionsState
    /\ running \in BOOLEAN
    /\ hasRoot \in BOOLEAN
    /\ tree \in [patches : [File -> Text], childFiles : SUBSET File]
    /\ ast \in [File -> Text]
    /\ options \in {"empty", "builtin", "project"}
    /\ published \in [File -> Text]
    /\ seen \in Seq(SUBSET (File \X (Content \union {Absent, Unreadable})))
    /\ unheard \in SUBSET File

(* The workspace folder has a meson.build that nothing but the editor writes. *)
RootStable == Root \notin Volatile

(* The server works on the project: it was given its folder.                  *)
Serving == phase = "ready" /\ hasRoot /\ running

About(f) == {i \in DOMAIN toServer :
                toServer[i].method \in {"didChange", "didSave"} /\ toServer[i].file = f}

(* The overlay follows the editor: for a file the server is told everything   *)
(* about, the last notification in the pipe, or the overlay when none is      *)
(* left, holds exactly the unsaved text.  It takes every didChange to set its *)
(* patch, every didSave to remove it, and every load_tree in between to carry *)
(* the patches of the other files along (server.vala:108-123).                *)
OverlayFaithful ==
    RootStable /\ Serving =>
        \A f \in File \ unheard :
            /\ About(f) = {} => tree.patches[f] = buffer[f]
            /\ \A i \in About(f) :
                  (\A j \in About(f) : j <= i) => toServer[i].text = buffer[f]

(* When the pipe is empty, the merged tree is the tree of what the user sees. *)
SettledTree ==
    Volatile = {} /\ Serving /\ toServer = <<>> /\ unheard = {} =>
        ast = Merge(buffer)

(* No reply rests on an outdated text: the text of every file a reply points  *)
(* into is one the editor has had for that file since it asked.  (It may be a *)
(* later one: didSave makes the server read the file as it is by then.)       *)
AnswersFresh ==
    RootStable =>
        \A i \in DOMAIN toClient :
            LET r == toClient[i]
            IN r.id # 0 /\ r.text # NoText /\ r.file \notin Volatile =>
                  <<r.file, r.text>> \in seen[r.id]

(* No subdir has subdirs of its own. *)
Shallow == \A f \in File \ {Root}, c \in Content : Includes[f][c] = {}

(* No file keeps diagnostics of a text the server has replaced: load_tree     *)
(* withdraws what it published for the old tree (server.vala:235-245).        *)
NoStaleDiagnostics ==
    \A f \in File : published[f] \in {NoText, ast[f]}

(* With nothing under way the editor shows the faults of the tree, all of     *)
(* them and no others; none while meson_options.txt does not parse.           *)
SettledMarks ==
    RootStable /\ Serving /\ toServer = <<>> /\ toClient = <<>> =>
        shown = IF options = "empty" THEN Blank ELSE Marks(ast)

(* A reply to a call, as module Replies sees it. *)
CallReply(m) == [call  |-> m.id,
                 place |-> IF m.text = NoText THEN NoText ELSE <<m.file, m.text>>]

Calls(s) == {i \in DOMAIN s : s[i].id # 0}

Requests == INSTANCE Replies WITH
    Place    <- File \X (Content \union {Absent, Unreadable}),
    Nowhere  <- NoText,
    since    <- seen,
    sent     <- {CallReply(toClient[i]) : i \in Calls(toClient)},
    received <- [i \in DOMAIN answers |-> CallReply(answers[i])]

(* Replies come in the order of the calls, at most one for each, and point    *)
(* into nothing but what the user has seen since (when the files are only     *)
(* written by the editor).                                                    *)
RepliesSpec == Requests!Spec

(* Every call with a handler gets its reply, unless the server dies.          *)
Answered(i) == \E k \in DOMAIN answers : answers[k].id = i
HandledCallAnswered ==
    \A i \in 1 .. MaxCalls :
        (\E k \in DOMAIN toServer : toServer[k].id = i /\ toServer[k].method \in Handled)
            ~> (Answered(i) \/ ~running)

(* Once the user stops, with nothing left that the server disregarded, the    *)
(* editor comes to show exactly the faults of the project as the user sees    *)
(* it, and keeps showing them (when all files are the editor's own and        *)
(* meson_options.txt never breaks).                                           *)
Converges ==
    <>[](toServer = <<>> /\ unheard = {}) => <>[](Serving => shown = Marks(Merge(buffer)))

(* Every capability initialize announces is served (server.vala:133-136).     *)
AdvertisedCallAnswered ==
    \A i \in 1 .. MaxCalls : Len(seen) >= i ~> (Answered(i) \/ ~running)
=============================================================================
