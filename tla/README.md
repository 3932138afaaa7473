# A formal model of the Meson language server

The modules in this directory specify the language server of this repository
(`src/src`, written in Vala) in TLA+. TLC checks them on small instances, TLAPS
proves the most important results for every value of the constants.

    tlc -config MCCalls.cfg MCMesonLsp.tla       # one run; the table below lists them
    tlapm MesonLspProofs.tla                     # the proofs

Paths below are relative to the repository.

## 1. The system

An editor starts the server and talks LSP to it over two pipes. The server holds
the Meson project of one workspace folder: it parses `meson.build` and the files
included by `subdir()`, merges them into one AST, deduces types, publishes
diagnostics, and answers hover, definition and documentSymbol calls.

    editor --didChange, didSave, calls--> stdin --> MesonLsp (server.vala)
       ^                                              | build, merge   | reads
       |                                              v                v
       +--<-- stdout <--publishDiagnostics, replies   SymbolTree    meson_options.txt
                                                      | parses, reads
                                                      v
                              tree-sitter grammar, meson.build files, overlay

There is one thread. jsonrpc-glib takes a message from stdin, runs its handler to
the end on the GLib main loop and only then takes the next. Nothing inside a
handler is preempted, but everything around it moves on: the editor types, saves
and asks while its earlier messages wait, and other programs write files that the
server reads without being told.

### Inventory

| part | source | state | operations | what makes it correct |
|---|---|---|---|---|
| language server | `src/src/server.vala` | `base_uri`, `tree`, `ast`, `options` | `initialize`, `did_change`, `did_save`, `hover`, `definition`, `document_symbol`, `load_tree` | the overlay is what the editor has; diagnostics belong to the current texts; each call is answered once, in order, from a text the user has seen |
| symbol tree | `src/src/symbol_tree.vala` | `datas`, `patches`, `child_files`, `file` of each tree | `build`, `analyze_statement`, `merge`, `analyze_ast_stmt` | every included file and every assignment is found, once, in program order; `build` ends |
| options reader | `src/src/server.vala:259-396` | `options` | part of `load_tree` | the options are those of the file, or the built-in ones, never those of an earlier file |
| AST construction | `src/src/ast.vala` (`parse`) | none | one `parse` per node kind | the blocks and arguments of the AST are those of the text |
| AST queries | `src/src/ast.vala` (`hover`, `find_*`, `document_symbols`, `jump_to_subdir`, `SourceReference.contains`) | none | searches by position or name | the innermost node under the cursor; the definition that is in force there |
| type deduction | `src/src/ast.vala` (`MesonEnv`, `compare_types_func`, `deduce_types`, `fill_diagnostics`) | the variables found so far, sets of types | `register`, `merge`, `find_identifier`, `add_types` | a set of types holds each type once; the last assignment counts |
| type registry | `src/src/obj/type_registry.vala`, `populate.vala`, `module_populate.vala` | a table, written once at start | `find_type`, `find_method`, ... | a method is found in the type or its nearest base |
| documentation store | `src/src/obj/doc_populator.vala`, `src/docs/*.vala` | none (a byte array made at build time) | `encode_*`, `populate_docs`, `load_methods` | what is decoded is what was encoded; no assertion fails |
| protocol objects, utilities | `src/src/protocol.vala`, `util.vala` | none | serialisation | - |
| main program | `src/src/main.vala` | none | opens pipes, runs the loop | - |
| parser | `src/parser/src` (tree-sitter), `src/parser/parser.c` (generated tables) | versions of the parse, a stack of counted nodes they share, the finished tree | `ts_parser_parse`: advance, reduce, recover, condense | the tree has every token of the text; a correct file has no error; the parse ends; no node is freed while it is reached |

Interactions: `load_tree` calls `SymbolTree.build` and `merge`, reads
`meson_options.txt`, calls `fill_diagnostics` and sends notifications; the call
handlers only read `ast` and `options`; `did_change` and `did_save` only compute a
new overlay and call `load_tree`.

Hard behaviours:
- order: a `didSave` handled while a later `didChange` of the same file waits;
  edits of several files that share one overlay; calls between notifications;
- stale state: `build` reads the disk when a message is *handled*; diagnostics are
  withdrawn by the `child_files` of the tree that is being replaced; `didClose` is
  not handled at all;
- partial failure: `load_tree` has three early returns (no `meson.build`; no
  syntax tree; `meson_options.txt` without a build definition), each after some
  state has changed, and two ways to die half way (an unreadable subdir, a blank
  options file);
- recursion: `build` calls itself for whatever `subdir()` resolves to, its own directory included;
- sets by comparison: the sets of types are trees ordered by `compare_types_func`, which
  is no ordering of lists;
- unsigned counts: the decoder of the documentation stops at exactly zero bytes left;
- error recovery: while a file is typed it is wrong most of the time, and the parser keeps
  several versions of it, which split, merge, swap and are dropped in loops over them.

PROJECT.json lists every hazard with its line and the properties that look for it.

## 2. The modules

| module | what it is |
|---|---|
| `MesonLsp` | editor, pipes, disk and server; every handler is one action |
| `Replies` | abstract specification: what a caller may expect of the replies |
| `MesonLspProofs` | theorems about the types, the overlay and the diagnostics of `MesonLsp`, and about what it comes to when nothing is under way |
| `MesonLspAnswers` | theorems about the replies of `MesonLsp`, and that it implements `Replies` |
| `NaturalOrder` | lemmas about least naturals, induction, recursive functions and flattened sequences, for the proofs |
| `MCMesonLsp` | instances of `MesonLsp` for TLC |
| `SymbolTree` | `build` and `analyze_statement`, a statement per step, with the call stack |
| `SymbolTreeCorrect` | the tree that `build` should return, as a recursive function of the program, and the projects it is claimed for (`Tame`); the projects that `build` does not survive (`Doomed`) |
| `SymbolTreeProofs` | theorems about `SymbolTree` and `SymbolTreeCorrect` |
| `MCSymbolTree` | the projects of the `SymbolTree` runs |
| `Merge` | `merge` and `analyze_ast_stmt`, run on the tree that `SymbolTree` built |
| `MergeCorrect` | the merged program, by recursion over the text, and the projects it is claimed for (`Once`) |
| `MergeProofs` | theorem about `Merge` and `MergeCorrect` |
| `SourceRef` | `SourceReference.contains` and the comparator of `definition` |
| `Ast` | what the parse keeps of a node, and the searches in the AST |
| `Queries`, `MCQueries` | the calls on the merged AST, and how the texts are laid out (`Layout`); the projects of the runs |
| `QueriesProofs` | theorems about `SourceRef`, `Ast` and `Queries` |
| `Types` | the deduced types, `compare_types_func` and `Gee.TreeSet` |
| `TypeEnv`, `MCTypeEnv` | `MesonEnv`, `deduce_types`, `fill_diagnostics` beside a run of the file by Meson; the build files of the run |
| `DocStore`, `MCDocStore` | encoders and decoder of the documentation; the files of the run |
| `DocStoreProofs` | theorems about `DocStore` |
| `Subtree`, `Stack` | subtrees and the graph-structured stack of the parser |
| `Versions`, `VersionsProofs` | how two versions of a parse compare; theorems about it |
| `Parser`, `ParserCorrect`, `MCParser` | the parse loop and error recovery; what they promise; the tables and texts of the run |

### MesonLsp

| variable | in the code |
|---|---|
| `tree` | `this.tree`: its `patches` and `child_files`. `NullTree` stands for null, which differs in nothing the handlers do |
| `ast` | `this.ast`: the text each file had when it was merged, `NoText` if it is not in the tree |
| `options` | `this.options`: cleared, built-in only, or with those of the project |
| `hasRoot`, `running` | `base_uri` is a folder; the process is alive |
| `toServer`, `toClient` | stdin and stdout, first in first out |
| `disk`, `optionsFile` | the files |
| `phase`, `buffer`, `shown`, `answers` | the editor (external): its unsaved texts, the marks it shows, the replies it has |
| `published`, `seen`, `unheard` | history, for the properties only |

| action | in the code |
|---|---|
| `HandleInitialize`, `HandleDidChange`, `HandleDidSave` | `initialize`, `did_change`, `did_save`, each with all of `load_tree` |
| `LoadTree` = `NoMesonBuild`, `BuildCrashes`, `OptionsCrash`, `OptionsMalformed`, `Analyse` | the ways through `load_tree`: early return at 246; null tree read at `symbol_tree.vala:146`; null node at 274; early return at 276; to the end |
| `Hover`, `DocumentSymbol`, `Definition` | the call handlers |
| `HandleOther` | a notification or a call that the switch does not know |
| `Edit`, `Save`, `Discard`, `Ask`, `Initialize`, `ClientReceive` | the editor (external) |
| `FileChanges`, `OptionsFileChanges` | other programs (external) |

Abstractions:
- A text is a value; `Includes` says which files its `subdir()` calls name, `Faulty`
  whether the analysis complains. That a file's diagnostics depend on its own text
  alone is a simplification: an undefined variable may be defined elsewhere.
- Withdrawals and publications of one `load_tree` are one message: nothing can come
  between them in the pipe, and the editor applies them in that order.
- Handler and disk: a handler sees one state of the disk. In the code a file may change
  between two reads of one `load_tree`, so that a handler sees some files as they were
  before and some as they are after; these mixtures are left out.
- Vala without run-time checks calls a method of a null object with null; the
  handlers then answer null (`ast == null`) or die (`st.file`, null nodes).
- `Definition` may point to any merged file or answer null: which symbol it prefers
  is not modelled.
- The `Reached` files are the least set closed under `subdir()`; how the recursion
  finds them and how their statements are merged is the subject of `SymbolTree` and
  `Merge`; where that goes wrong (below) is left out of `MesonLsp`: `Includes` is acyclic
  by `IncludesAssumption`, and stands for calls outside of `foreach`. What becomes of the other
  projects is the subject of `DiesIffDoomed`: a cyclic one is never built.
- The editor sends whole texts (the server announces full synchronisation), opens no
  two buffers for a file, and spells URIs as GLib does. `Wayward` lets it also send
  what the server disregards: `didClose`, a `didChange` with several changes, calls
  without a handler.

### SymbolTree

`program` gives each directory its statements; `stack` holds one record for each call
of `build()` that has not returned: directory, statements left, `datas` and
`child_files`. One action handles one statement: `AnalyseAssignment`,
`AnalyseForeach`, `AnalyseSelection`, `AnalyseOther`, and for `subdir()`
`EnterSubdir`, `MissingSubdir`, `SkipSubdir` (no name is left between the quotes),
`NullNodeCrash` (the argument is no string literal and the node three levels down is
null) and `StackOverflow`. `Return` pops the call and adds its tree to the caller's
`datas` and `child_files`. `Resolve` is what joining a path and a name leads to; it may be the
directory itself (an empty name, a variable of two letters) or one above it.
Positions and file names of symbols are left out.

`MaxDepth` stands for the machine stack. Nothing in the code keeps `build` from entering a
directory it is in, so the question is which projects it survives. `Doomed` answers it by the
program alone: along some chain of `subdir()` calls from the workspace folder (`Way`) there comes a
statement that a call does not survive (`Fatal`: a null node, or one more call where there is no
room). `Met` are the statements that `analyze_statement` comes to, the first of a `foreach` not
among them.

### Merge

`Merge` extends `SymbolTree`: when `build` is done, `merge` begins (`load_tree` calls the
two one after the other). Vala's lists are objects; two lists may hold the same statement, whose
block is then one object. Here a list has a name: the names of the `subdir()` calls that lead from
the result down to its tree (`path`), and where it stands in the file of this tree (`at`: `<<>>`
is the file, `<<k>>` the block of its k-th statement). With the name goes the text as it was parsed.
A statement is named in the same way and names the list in its block (`Block`), wherever it was
inserted. `lists` holds the lists that were extended; `List` is a list as it is. `loops` is the stack
of the `for` loops under way. `MergeSubdir` calls `merge` of the tree that was found;
`FinishSubdir` inserts its statements into the list of the caller and moves the index on;
`MergeSelection` and `FinishBlock` loop over the block of an `if`; `PassStatement` is
everything else, a `foreach` included, whose body `merge` does not look into. The blocks
of one `if` are one list here.

### SourceRef, Ast, Queries

`Queries` takes the merge of a project as `MesonLsp` does, but keeps the statements: each
text is a list of statements with the places of their tokens; here the calls of `subdir()`
stand at the top level (`Merge` has those in blocks). `Node` is the set of the nodes of the
texts. The searches of `ast.vala` are virtual methods, which each class of nodes overrides, and
they are of two kinds. `Search` asks a node itself and then, one after the other, some of its
parts, until one answers; so do `FindIdentifier` (what is under the cursor) and `SubdirCall`
(`jump_to_subdir`). `Collect` has what the parts give and then what the node does; so do
`FindSymbol` (the definitions of a name) and `DocumentSymbols`. For each of the four one
operator says what a class of nodes answers itself (`NameAt`, `CallAt`, `Defined`, `SymbolOf`) and
another which parts it asks, in which order (`Within`, `Nested`, `Bodies`, `Listed`). `IsKept`,
`Conditions` and `Blocks` are what `SelectionStatement.parse` keeps of the tokens of an `if`, as it
looks for a token `else if`. `Definition` is the whole handler: the file of a `subdir()` call if
there is no name, or the sort and the first of the definitions; `Sort` is Gee's merge sort
(external), since with a comparator that is no ordering the outcome depends on it.

`Layout` says how texts are written, and the proofs suppose it: a node stands in its file, around its parts
(`Placed`); the nodes of different statements or parts have different places (`Scattered`); at
one position there is one name and one `subdir()` call (`Apart`); each class has the parts that
the grammar gives it, so that a statement is no part of an expression (`Shaped`); nodes end
(`Deepens`); the calls of `subdir()` lead down (`Includes`) and no two to the same file
(`IncludesOnce`: Meson refuses to enter a folder twice). TLC evaluates it for the projects of
the runs (`MCLayout`).

### Types, TypeEnv

A type is a record, a set of types a red-black tree built by Gee's own insertion
(external): what a comparison that is no ordering does to a set depends on the shape of the
tree. A `Gee.HashSet` is iterated in the order of the addresses of its elements, which
`Init` chooses. `Assignment`, `Selection` and `Iteration` take one statement each, as
`fill_diagnostics` does, whole: `positions` is the list of variables, `last` what was
reported. `vals` is what the variables hold in a run by Meson that takes the same
statements (external, from the language's rules), and `sure` the variables whose deduction
is about this run: one that was assigned in a block the run did not take has a deduction
that is about the other one.

### DocStore

`Encode` writes one section, `Decode` reads one, `Assign` hands one text to its class or
method; `Open` and `Close` are the ends of the decoder's loop. `left` is `bytes_left`,
an unsigned count that wraps at `Word` (2^32 in the code). A blob is a sequence of cells
(a byte, a length, the bytes of a name or text); a decoder that is one field off finds a
cell of another kind and fails.

The module assumes of the two files what the repository's have: each of the 31 headings of
`docs/objects.txt` names a registered type and its registered super type, each of the 117 of
`docs/methods.txt` a method its own type registers (`FilesAssumption`), and a blob (some 41 KB)
fits into 2^32 bytes (`WordAssumption`). `LET` functions take the place of the loops that add up
lengths and go along super types.

### Subtree, Stack, Parser

The stack is a record of nodes and heads; every function of `stack.c` is one operator on
it. `sound` is cleared where an `assert` would fail; freed nodes stay, with no references,
so that counts can be compared with what reaches a node. `Iter` is `stack__iter` with its
callbacks. `Parser` has one operator for each function of `parser.c`, one more where a
function goes on with what another has returned, and one action for each step of `ts_parser_parse`: `Advance` (`ts_parser__advance` of one version),
`PassVersion` (a version that is paused or halted), `Condense` (`ts_parser__condense_stack`
with the recovery it begins, and the end of the loop), `Finished`. Versions and nodes are
numbered from 1.

The grammar is a constant. `MCParser` gives the part of the generated tables
(`src/parser/parser.c`) that concerns calls, identifiers, parentheses and comments, with the
state numbers of the file; a token stands on a line of its own. Every entry of these states
for these tokens is there, default reductions and `RECOVER` entries included.

The model was compared with the compiled parser: for all texts of up to 5 tokens (3,410)
and 300 random ones of 6 to 12, each advance (version, number of versions, state) and the
finished tree with its error costs are the same, but for `ts_subtree_balance`, which
rearranges repetitions after the parse and is not modelled.

Left out, because the server does not use it: the reuse of an old tree
(`parse_string` is always called without one), included ranges, time limit and
cancellation; because the grammar has none: external tokens, keywords, dynamic precedence,
aliases in the modelled rules. The characters of a token, the reference counts of subtrees
and the size limit of the node pool are abstracted.

## 3. The runs

| run | instance | shows |
|---|---|---|
| `calls` | root and one subdir; edits, saves, discards and a call | `AnswersFresh`: a reply points into a text the user has had since asking; `OverlayFaithful`, `NoStaleDiagnostics`, `SettledTree` |
| `order` | two calls of any kind, one file | `RepliesSpec` (refinement of `Replies`), `HandledCallAnswered`, `Converges` |
| `disk` | the subdir's file and the options file change unannounced, up to the crashes | `TypeOK`, `SettledMarks` |
| `deep` | three nested directories | finding: `NoStaleDiagnostics` is violated |
| `advertised` | one documentHighlight call | finding: `AdvertisedCallAnswered` is violated |
| `tree` | projects of four nested directories, with room for three calls: `subdir()` calls that lead down, up and to the directory itself, numbers and short variables, anywhere in a block; no name included twice in a file | `DiesIffDoomed`: the process dies of the `Doomed` projects and of no others; `TreeComplete`, `MergedInOrder`, `MergeEnds` |
| `twice` | the same name in two `if` statements | finding: `MergedInOrder` is violated |
| `queries` | cursors at and around every token of small projects | `VariableRecognised`, `NearestDefinition`, `SubdirFollowed`, `SymbolsOfFile` |
| `navigate` | a `foreach` whose body assigns its variable | finding: `NearestDefinition` is violated |
| `types` | build files of three statements over two variables | `Sound`: what a variable holds is among the types deduced; `NoFalseAlarm`; `EachTypeOnce` |
| `docs` | every order and subset of the sections of four classes and their methods | `LeftExact`; `RoundTrip`: what is assigned is what was encoded, and nothing fails; `Restored`; `Populated` |
| `parser` | every text of up to four tokens, unknown characters included, and those of up to three after a broken call; nodes with room for two links, walks for two paths, products that wrap at 2048 | `CountsExact`, `AssertionsHold`, `Lossless`, `ErrorsIffInvalid`, `WorkBounded`, `BestFirst` |

Bounds, and why they are enough:
- *Files*: two files give every relation there is between a file and its parent
  (patched or not, in the tree or not); a third level is needed exactly for
  `child_files`, and has a run of its own (`deep`).
- *Texts*: two, so that a text can include the subdir or not, be faulty or not,
  and so that an old text differs from the new one.
- *`MaxPipe`* 2 or 3 (1 where one message is enough): a `didSave` and a later `didChange` of the same file, or a call
  between two notifications, need two or three places. `Receive` waits while the
  outgoing pipe is full, as a blocking write would.
- *`MaxCalls`* 1 or 2: order between replies needs two.
- *`MaxDepth`* is 3 in `tree`, where the four directories may nest deeper, so that both
  complete trees of three levels and the end of the machine stack occur, which a circle of two
  directories fills unevenly; it is 4 in `twice`.
- *`Volatile`* in `disk` is the subdir's file. The root's file is the editor's own in every run,
  as most properties are stated for such a root (`RootStable`); that a root which vanishes or locks, so
  that `build` returns null, leaves no diagnostics behind is proved and not run (`DiagnosticsFresh`).
- *Statements*: lists of two with one level of `foreach` and `if` reach every branch of
  `analyze_statement`, before and after a recursive call.

- *Cursors* of `queries`: each line, at the ends of the tokens, inside them and outside; the
  columns where nothing changes are left out. The nodes nest three deep below a statement.
- *Build files* of `types`: three statements are an assignment, a change of it (or a block
  taken or not) and a use; the expressions include nested lists, functions with
  several return types, options and `any`. `MaxDepth` 2 (128 in the code) makes the limit
  of `merge` occur.
- *`Word`* of `docs` is 4096, more than any of its blobs: the count wraps exactly if more is
  subtracted than there is. In `parser` it is
  2048, so that a product wraps and a version is kept that would be dropped (a cost of 610 with
  7 nodes beside a cost of 896). The theorems hold for each value.
- *Texts* of `parser`: four tokens suffice for a missing token, for going back to an earlier
  state, for several versions at once and their merging; 300 random longer texts agreed with
  the C parser and kept the properties. Up to four tokens nodes have two links at most, and walks
  two paths. After `id ( ( )`, which is `Broken`, one more `(` and an identifier make it three. So
  `MAX_LINK_COUNT` and `MAX_ITERATOR_COUNT` are 2 (8 and 64 in the code): the short texts are parsed
  as with the limits of the code, and some of the longer ones run into both. `MAX_VERSION_COUNT`
  is that of the code; the properties hold with version counts of 1 and 2 as well. `NodesPerToken`
  (16) is the bound `WorkBounded` states; no text is exempt from it.

Deadlock is not checked where the system may stop: the process can die (`disk`), a call is
answered once (`queries`, `navigate`), and building, merging, the analysis and the decoding
come to an end (`tree`, `twice`, `types`, `docs`). The parser's end is a step of its own, so
that any other halt is a deadlock.

Fairness. `Fairness` of `MesonLsp` is `WF(Server) /\ WF(ClientReceive)`: the main loop
runs whenever a message waits and handlers do not block, and an editor reads its pipe.
Nothing is assumed of the user or of other programs, who may stop for ever. Calls are
answered in pipe order, so weak fairness of the server as a whole is enough.
`FairMergeSpec` and the specification of `DocStore` have weak fairness of `Next`: a call of
a function runs to its end. `Parser` states none: that a parse ends is a bound on the nodes
it makes (`WorkBounded`), which needs no fairness.

## 4. What the runs found

1. *Diagnostics of nested subdirs stay* (`deep`). `load_tree` withdraws the diagnostics of
   `tree.child_files`, and `build` puts only its own file and its direct subdirs there
   (`symbol_tree.vala:148`). A file two levels down that was faulty and is repaired keeps
   its marks.
2. *documentHighlight is announced and never answered* (`advertised`). `initialize` sets
   `documentHighlightProvider` (`server.vala:136`); `handle_call` has no case for it and
   returns true.
3. *A subdir included in two branches is merged twice* (`twice`). The tree is looked up by
   name (`symbol_tree.vala:48`) and extended in place; what it includes itself is doubled.
4. *A click in the head of a foreach leads into its body* (`navigate`). The comparator of
   `definition` calls each of two definitions greater than the other when one is below the
   cursor (`server.vala:183`), and `find_symbol` lists the body first.

Also observed, in behaviour no documentation speaks of; the properties allow for it:
- The first statement of a `foreach` is passed over: `analyze_statement` begins at named child 3
  (`symbol_tree.vala:164`), the body at 2 (`ast.vala:646`). A directory whose `subdir()` call stands
  there is not in the tree, and an assignment there leaves no symbol. `Tame` leaves such loops out of
  `TreeComplete`; `DiesIffDoomed` counts on the statement being passed over (a call of a number
  stands there and does no harm).
- `subdir('')`, `subdir('.')` and `subdir(xy)` with a variable of two letters recur until
  the stack is full (`DiesIffDoomed` says which projects end so, and that no others do);
- the condition of an `elif` is dropped and its block joined to the one before;
- the name of a method is taken for a variable; the identifiers in arguments and arrays are
  not listed as symbols;
- `x = files(..)` and then `x += ..` with values of several types can leave a type
  twice in a set with an object type (`EachTypeOnce` excepts these); `+` forgets what `any`
  may be; a `foreach` over, or a condition on, something that is only known as `any` is reported (`NoFalseAlarm`
  excuses what is unknown); `get_variable()` is looked up among the options
  (`ast.vala:1468`); assignments of blocks that are not taken count like all others;
- the topmost ancestor is missing from the heading of a class (`doc_populator.vala:99` asks
  for a key, and only classes with a super class are keys);
- the empty file is an error to the grammar;
- `ts_parser__recover_to_state` walks over an array that `ts_stack_pop_error` empties and
  fills (`parser.c:1088`); it reads no entry after that which was overwritten.

## 5. The proofs

`MesonLspProofs` proves, for every project, set of texts, bound and both kinds of editor:
- `TypeCorrect`: `Spec => []TypeOK`. From the module's assumptions only.
- `OverlayFollowsEditor`: `Spec => []OverlayFaithful`. The property is not inductive: it
  says nothing before the editor is ready. `OverlayInv` adds that a stable root has a
  text on disk (`RootThere`; otherwise `load_tree` might return early and drop the
  patches), that before the first reply the pipes hold the `initialize` exchange and the
  overlay is empty (`Startup`), that the last waiting notification about a file the server
  is told everything about is not a `didChange` it disregards (`Heard`), and the property
  itself, file by file (`Faithful`). Sending a message appends the newest word on one file
  and leaves what is said of the others; receiving one removes the oldest word, and when it
  was the last one about its file the overlay becomes exactly that word.
- `DiagnosticsFresh`: `Shallow => (Spec => []NoStaleDiagnostics)`. Run `deep` shows that the
  assumption is needed. `DiagnosticsInv` adds that a file with diagnostics is in
  `tree.childFiles`, so that the next `load_tree` withdraws them: in a project without
  nested subdirs, `build` reaches the root and its direct subdirs only, which is what
  `child_files` holds.

Of what the server comes to when nothing is under way it proves:
- `TreeSettles`: `Spec => []SettledTree`. A `didSave` is sent after the file was written, so
  until it is handled the tree is that of files as they were. `TreeInv` says that this is
  the only excuse: when no `didSave` is in the pipe, `ast` is what `merge` makes of the overlay
  and the files. With `OverlayInv` and nothing in the pipe, overlay over files is what the
  user sees.
- `MarksSettle`: `Shallow => (Spec => []SettledMarks)`. `MarksInv` says, file by file, what
  the editor will show once it has taken every batch in the pipe (`Delivered`: the last batch
  about the file, or else what is shown now), and that this is what the server believes
  published (`published`); and that `published` marks the faulty files of `ast` and no others
  (`MarksOfTree`). `Shallow` is needed for the reason `deep` shows.

`MesonLspAnswers` proves of the replies:
- `AnswersAreFresh`: `Spec => []AnswersFresh`. A reply is fresh because of what happened to the
  call while it waited, so `AnswersInv` speaks of waiting calls: whatever the server will
  have of a file when it comes to the call is a text seen since the call was made. That is the
  text it has now if no `load_tree` comes before the call; otherwise the text of the last
  message about the file that comes before, or of the overlay if there is none, or of the disk
  where these are no text (`FreshAt`). Handling the first message moves a text from
  the third case to the second, or to the first when no other load comes before the call.
- `RepliesRefined`: `Volatile = {} => (Spec => RepliesSpec)`: `MesonLsp` implements `Replies`.
  `Ask` of any call is `Call`; `Edit`, `Save` and `Discard` add what the user sees to
  every `seen[i]` and are `Change`; `Hover`, `DocumentSymbol` and `Definition` are `Reply`;
  `ClientReceive` of a reply is `Receive`; every other step is a stutter. That a reply is
  newer than those before it is `CallsOrdered`: the identifiers grow along the outgoing pipe,
  from there to the replies received, and from both to the calls that still wait. That it
  points into a text seen is `AnswersInv`. With other programs writing files the replies may
  point into texts the user has not seen, hence the hypothesis.

`SymbolTreeProofs` proves, for any statements and any depth:
- `BuildSurvives`: `Spec => []DiesIffDoomed`. Nothing is assumed of where `subdir()` calls lead
  or of how blocks nest. The property speaks of the end; the invariant (`Underway`) of a build under
  way says two things. The stack is a chain of calls (`Called`): each directory on it has a statement
  that calls the next, and what is left to do in it is part of its program, so that a fatal statement
  that is come to makes the project `Doomed` (`FatalDooms`). And every fatal way of the program is
  still being followed (`Heading`): the stack agrees with it up to some call, which has yet to come to
  the statement that the way goes on with (`Heeds`). A statement that is done and neither leads
  along the way nor kills leaves it so (`GoesOn`), a call that is entered carries it one further or
  leaves it where it was, and one that returns had nothing left to do, so the way was not headed there. When the
  last call returns no way is left, so there was none. `Met` unfolds although no rank of the blocks is
  given: the statements reachable from a statement are a solution of its equation.
- `CircularNeverBuilt`: `Spec => [](Circular(program) => status # "done")`. From `BuildSurvives`: when
  calls lead from the workspace folder into a circle, there are ways of every length, one of
  them as long as the stack. So `IncludesAssumption` of `MesonLsp` leaves out only projects that never get a tree.
- `BuildComplete`: `Tame(n, rank, depth) => (Spec => []TreeComplete)`. A finished tree is
  `TreesOf(program)[Top]`: every assignment and every included directory, under its file and in
  program order, and `child_files` in that order. The property speaks of the end only. The
  inductive invariant (`Collecting`) says of every call of `build()` on the stack that what it
  has collected, followed by what it waits for (the tree of the call above it; nothing, at the
  top of the stack) and by what its remaining statements come to (`Rest`), is the data of its directory's
  tree, and likewise for `child_files`. A statement moves its own contribution from the last
  part to the first (`Splits`), or, when it enters a directory, to the second; a block is
  replaced by its statements, which leaves the last part as it is; a call that returns turns
  the second part of its caller into the first. Everything comes to sequences concatenated,
  and the `Flatten*`, `Gather*` and `Rest*` lemmas say how `FlattenSeq` distributes over them.
  That `Opened` and `TreesOf` unfold at all needs the functions to exist (`OpensExists`,
  `BuildsExists`), by induction on the rank and the depth. `Tame` has what the claim needs:
  `subdir()` leads strictly down (else there is no such tree); blocks nest finitely, with a common
  bound on both ranks, which any finite project has; and the first statement of a `foreach`, which `build` passes
  over (section 4), is neither an assignment nor a `subdir()`. `MCSymbolTree` has TLC
  evaluate `Tame` for the statements of projects that lead down (`TameAssumption`, in `twice`). No bound on the machine
  stack is assumed: a call for which there is no room ends the process, and nothing is returned.

`MergeProofs` proves, for any project, any nesting of its blocks and any number of files:
- `MergeInOrder`: `Tidy(n, rank, depth, names) => (MergeSpec => []MergedInOrder)`. When `merge` is
  done, the result with its blocks unfolded is `InOrder` of the root: the statements of the program
  as Meson runs them. The property says nothing before the end. The inductive invariant (`Running`)
  speaks of every loop under way: it has passed so many statements of the text, the list is what
  these were made into (`Made`: a statement, or behind it in the text and before it in the list
  all of the file it includes), followed by the others as parsed (`Left`), and the index stands at
  the first of these (`Passed`); and the list of each loop is one that the statement leads to
  where the loop around it is. Lists that are merged are `Over`, and what the statements to come
  lead to is as parsed (`Fresh`). That a step on one list spoils nothing said about the others
  is `BelowApart`: all that a statement leads to has a name below that of the statement, and what is
  below one statement of a list is not below another. `MergeSubdir` takes the
  first tree that stands behind a `Subdir` of that name, and it is the right one because in a tree
  as `build` makes it (`BuildComplete`) every tree stands behind the name that leads to it
  (`Coupled`, `IncludedIs`); that its call is found at all is `PartSound`. When the loops have
  ended, the merged lists unfold to the text in order (`MergedAsClaimed`), by induction on
  how deep the lists stand over the files they include and their blocks (`Deepness`), where
  `Unfolded`, `InLoop` and `InOrder` exist and are as they read by `RecursionByDepth`.
  `Tidy` is `Tame` together with `Once`: in each file the statements that `merge` looks at are to be
  apart in the names that they look up. This cannot be dropped, as `twice` shows. A name that leads to
  a directory twice by two ways (`'a'` in one file and `'a/b'` in the other) is allowed. TLC evaluates both for
  the projects of `tree` that lead down (`TameAssumption`, `OnceAssumption`, in `twice`).

`QueriesProofs` proves of a place that it contains exactly the positions from its start to its
end, over any number of lines (`ContainsIsInterval`); of the comparator of `definition` that it is
a strict weak order of the definitions that are not below the cursor (`ComparatorOrders`),
and that it is none with the others (`ComparatorConfused`), which is what `navigate` shows. Of
the calls it proves, for any files, statements, nesting and cursor positions that have a `Layout`:
- `VariablesRecognised`: `Spec => []VariableRecognised`, and `SubdirsFollowed`:
  `Spec => []SubdirFollowed`. That a search finds only what is there: what it answers, some node
  below answers (`FoundBelow`), and that node stands in the file asked about and covers the
  cursor (`NameIsThere`); `Apart` leaves only one such node. That it misses nothing: a search
  that answers null has asked every node it goes down to (`NothingMissed`), every node
  around a variable covers the cursor with it, and the parse keeps all but the conditions
  of elifs (`ParsedKeeps`), so that the way from the statement to the variable is gone to
  its end (`IdentifierNotMissed`). That the statement is in the merged file: `TreeMerged`, from
  the recursion along `subdir()` (`MergedFollows`).
- `SymbolsListed`: `Spec => []SymbolsOfFile`. A symbol is that of a node below (`SymbolsFrom`);
  a definition is reached, as nothing but selections and loops is around it, whose statements
  are all listed (`StatementsAbove`, `StatementsListed`). None is listed twice: different nodes
  below one node have different places (`SymbolsInjective`), and so have those of
  different statements, unless a statement is merged twice. It is not (`MergedInjective`):
  if two calls merged the same file, one would be in what the other merges (`UnderOne`,
  by induction from the common file upwards), and a file above both would include it too.
- Their invariant (`Answered`) says that `ast` is the merged file of the root, and that a reply is
  what the searches find in it; for a jump, that its target was there when it was given
  (`Jumped`), as files may vanish before the reply is read.

`VersionsProofs` proves of `ts_parser__compare_versions`, for every cost, count, precedence
and width of the product: it says the same whichever version is given first
(`CompareMirrored`); to be better is a strict weak order (`BetterOrders`); a version is
dropped only for one that costs less and is in no error the other is not in
(`TakenForCheaper`). Condensing the stack goes on comparing with the status of a version it
has already swapped away (`parser.c:1643`); that the result is ordered (`BestFirst`, checked)
rests on this.

`DocStoreProofs` proves, for any files as assumed above, any lengths and any acyclic super types:
- `DecodedIsEncoded`: `Spec => []RoundTrip`, and `LeftIsExact`: `Spec => []LeftExact`. Neither is
  inductive, as `left` is a number and a blob a sequence of cells. `CodecInv` says where the
  sections begin in the blob (`LaidOut`; `Written` while it grows), and that the decoder stands at
  the beginning of the section after those it has read, with as many bytes left as the sections
  to come have (`DecodedTo`). `SectionRead` is the step: at the beginning of a section, with less
  than `Word` bytes left, the decoder reads that section, subtracts its size and passes its
  assertions. `SizeOfRest` connects the bytes of the cells with those of the sections. The loop
  ends at zero and not before the last section because every section has bytes.
- `DocsRestored`: `Spec => []Restored`. `Restoring` says what the first n sections of a file have
  left at the classes and methods. A class has the chain of its proper ancestors over it
  (`ExtendsChain`, by induction on the depth of a type), and a method that its type registers is
  found there and in no super type (`OwnMethodFound`).

`NaturalOrder` has the lemmas these rest on. The library's induction theorems take an operator,
which the provers cannot instantiate; stated for sets, they follow from the order of the naturals
being well founded (`WFMin`): `InductionOnNaturals`, `InductionByDepth`, and that a recursive
function exists whose argument descends (`RecursionDown`) or that asks any number of lower
arguments (`RecursionByDepth`), without which nothing is known of `SumFrom`, `Extends`,
`Merged` or a search of the AST. The `Flatten*`, `Elements*` and `Injective*` lemmas say what
`FlattenSeq` gives.

Only model-checked: `Converges`, `HandledCallAnswered`, `MergeEnds` and `Populated` (liveness, out of
the prover's reach); the properties of `types` and `parser` (they rest on RECURSIVE operators
over trees or graphs; see the plan); and
`NearestDefinition`, which does not hold of every project with a `Layout`: `navigate` refutes it for
such projects, and `queries` shows it for those without an assignment to the variable of a loop in its body.

## 6. Not modelled, and the plan

Not modelled: logging, timing and the layout of messages; serialisation; the tables of types
and methods and the parse tables, which are data; `hover`, whose text is put together from the
documentation; the diagnostics of calls, methods, operators and accesses; the option records;
`flatten`, which nothing calls. Of the parser: `query.c`, `tree_cursor.c`, `get_changed_ranges.c` and the edits of
a tree, none of which the server calls; the lexer, generated from the grammar; the UTF-8
tables. 25,913 of the repository's 41,029 lines of C are the generated tables, and a further
ten thousand are these files and the headers; the logic of the server is the Vala code.

Next, in this order:

| module | subject | properties and theorems |
|---|---|---|
| proofs | `EachTypeOnce` of `TypeEnv` | `merge` leaves no type twice in a tree set |
| proofs | the counts of `Stack` | `Retain` and `Release` keep counts and references equal |
| `Options` | the reader of `meson_options.txt` | options are those of the last file; built-in ones win |
| `Calls` | the diagnostics of calls and methods | arguments against parameters, no false report |
