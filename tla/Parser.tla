------------------------------- MODULE Parser ------------------------------
(***************************************************************************)
(* The parser the server reads every build file with                       *)
(* (src/parser/src/parser.c): versions of the parse advance over the same  *)
(* tokens; one that meets a token its state has no action for is paused,   *)
(* and when all are, the best recovers, by making up a missing token, by   *)
(* going back to a state that takes the token, or by skipping the token.   *)
(*                                                                         *)
(* The program always parses a text from nothing and from a string: what   *)
(* reuses an old tree, the included ranges, the external scanner and the   *)
(* time limit are left out, and a token is the same in every lex state.    *)
(*                                                                         *)
(* A parser is a record [stack, finished_tree, accept_count].              *)
(***************************************************************************)
EXTENDS Stack, Versions

CONSTANTS
  Table,      \* the actions of a state for a token
  Goto,       \* the state after a nonterminal
  Texts,      \* the texts to parse, sequences of tokens
  MAX_VERSION_COUNT,            \* 6 in the code
  MAX_VERSION_COUNT_OVERFLOW,   \* 4 in the code
  MAX_SUMMARY_DEPTH             \* 16 in the code

Infinite == 2147483647      \* UINT_MAX in the code

VARIABLES
  text,           \* the tokens of the file
  parser,         \* stack, finished tree and how often the parse was accepted
  version,        \* the version to advance next
  last_position,  \* the furthest a version has come
  done            \* the parse is over

vars == <<text, parser, version, last_position, done>>

-----------------------------------------------------------------------------
(***************************************************************************)
(* The language.                                                           *)
(***************************************************************************)
Shift(state) == [type |-> "Shift", state |-> state, extra |-> FALSE, repetition |-> FALSE]
ShiftExtra == [Shift(ERROR_STATE) EXCEPT !.extra = TRUE]
ShiftRepeat(state) == [Shift(state) EXCEPT !.repetition = TRUE]
ReduceBy(symbol, count) == [type |-> "Reduce", symbol |-> symbol, count |-> count]
Accept == [type |-> "Accept"]
Recover == [type |-> "Recover"]

TokenSymbols == UNION {DOMAIN Table[state] : state \in DOMAIN Table} \ {end}

Actions(state, symbol) ==
  IF symbol \in DOMAIN Table[state] THEN Table[state][symbol] ELSE << >>

NextState(state, symbol) ==
  LET actions == Actions(state, symbol)
      last == Last(actions)
  IN  IF symbol \in {error, error_repeat} THEN ERROR_STATE
      ELSE IF symbol \in TokenSymbols \union {end}
      THEN IF actions = << >> \/ last.type # "Shift" THEN ERROR_STATE
           ELSE IF last.extra THEN state ELSE last.state
      ELSE IF symbol \in DOMAIN Goto[state] THEN Goto[state][symbol] ELSE ERROR_STATE

HasActions(state, symbol) == Actions(state, symbol) # << >>

HasReduceAction(state, symbol) ==
  HasActions(state, symbol) /\ Actions(state, symbol)[1].type = "Reduce"

(* The token at a position: the text ends with one that stays.  A          *)
(* character of no token is one, for it would be met again and again if it *)
(* were left where it is.                                                  *)
TokenLeft(position) ==
  IF position = Len(text) THEN Leaf(end)
  ELSE IF text[position + 1] = error THEN [Leaf(error) EXCEPT !.total = 0, !.size = 0]
  ELSE Leaf(text[position + 1])
TokenAt(position) == IF position < Len(text) THEN Leaf(text[position + 1]) ELSE Leaf(end)

-----------------------------------------------------------------------------
(***************************************************************************)
(* Choosing between versions and between trees.                            *)
(***************************************************************************)
VersionStatus(s, v) ==
  [cost |-> StackErrorCost(s, v) + IF IsPaused(s, v) THEN ERROR_COST_PER_SKIPPED_TREE ELSE 0,
   node_count |-> NodeCountSinceError(s, v),
   dynamic_precedence |-> 0,     \* no rule of the language has one
   is_in_error |-> IsPaused(s, v) \/ State(s, v) = ERROR_STATE]

(* [exists, stack]: the versions asked have their nodes counted. *)
BetterVersionExists(p, v, is_in_error, cost) ==
  LET s == p.stack
      status == [VersionStatus(s, v) EXCEPT !.cost = cost, !.is_in_error = is_in_error]
      others == {i \in DOMAIN s.heads :
                   i # v /\ IsActive(s, i) /\ Position(s, i) >= Position(s, v)}
      better == {i \in others :
                   LET c == CompareVersions(status, VersionStatus(s, i))
                   IN  c = "TakeRight" \/ (c = "PreferRight" /\ CanMerge(s, i, v))}
      asked == IF better = {} THEN others ELSE {i \in others : i <= Smallest(better)}
  IN  IF p.finished_tree # Null /\ ErrorCost(p.finished_tree) <= cost
      THEN [exists |-> TRUE, stack |-> s]
      ELSE [exists |-> better # {},
            stack |-> FoldLeft(Counted, s, SetToSeq(asked \union {v}))]

(* Whether right is to replace left. *)
SelectTree(left, right) ==
  \/ left = Null
  \/ /\ right # Null
     /\ \/ ErrorCost(right) < ErrorCost(left)
        \/ /\ ErrorCost(right) = ErrorCost(left)
           /\ ErrorCost(left) > 0 \/ Compare(left, right) = 1

-----------------------------------------------------------------------------
(***************************************************************************)
(* Steps of one version; [parser or stack, version] where one is returned. *)
(***************************************************************************)
(* A tree pushed on v, and the extras that come after it. *)
PushParent(s, v, parent, extras, state) ==
  PushAll(Push(s, v, parent, state), v, extras, state)

(* v is merged into the first of the versions that take it in. *)
MergeInto(s, v, candidates) ==
  LET into == {j \in candidates : CanMerge(s, j, v)}
  IN  IF into = {} THEN s ELSE Merge(s, Smallest(into), v)

(* The array of trees that makes the children, of those that lead to one   *)
(* version.                                                                *)
SelectChildren(symbol, arrays) ==
  FoldLeft(LAMBDA best, trees :
             IF SelectTree(NewNode(symbol, WithoutExtras(best)),
                           NewNode(symbol, WithoutExtras(trees)))
             THEN trees ELSE best,
           Head(arrays), Tail(arrays))

(* What one of the versions the pop has made becomes. *)
ReduceSlice(s, v, slice_version, symbol, trees) ==
  IF slice_version - 1 > MAX_VERSION_COUNT + MAX_VERSION_COUNT_OVERFLOW
  THEN RemoveVersion(s, slice_version)
  ELSE MergeInto(PushParent(s, slice_version, NewNode(symbol, WithoutExtras(trees)),
                            TrailingExtras(trees), NextState(State(s, slice_version), symbol)),
                 slice_version, 1 .. slice_version - 1 \ {v})

(* All of them in their order; those removed before one lower its number. *)
ReduceSlices(pop, v, symbol) ==
  LET popped == {pop.slices[i].version : i \in DOMAIN pop.slices}
      Arrays(w) == LET those == SelectSeq(pop.slices, LAMBDA sl : sl.version = w)
                   IN  [i \in DOMAIN those |-> those[i].subtrees]
  IN  FoldLeft(LAMBDA s, w : ReduceSlice(s, v, w - (VersionCount(pop.stack) - VersionCount(s)),
                                         symbol, SelectChildren(symbol, Arrays(w))),
               pop.stack, SetToSortSeq(popped, <))

(* The first of the versions that are new after a reduction. *)
FirstNew(before, after) ==
  IF VersionCount(after) > VersionCount(before) THEN VersionCount(before) + 1 ELSE None

Reduced(before, after) == [stack |-> after, version |-> FirstNew(before, after)]

Reduce(s, v, symbol, count) == Reduced(s, ReduceSlices(PopCount(s, v, count), v, symbol))

(* The root without what stands before the last tree that is no extra. *)
RootShort(trees) ==
  LET j == CHOOSE k \in DOMAIN trees :
             ~trees[k].extra /\ \A i \in k + 1 .. Len(trees) : trees[i].extra
  IN  NewNode(trees[j].symbol, trees[j].children \o SubSeq(trees, j + 1, Len(trees)))

(* The children of the last tree that is no extra, spliced in, are the root's. *)
Root(trees) ==
  LET j == CHOOSE k \in DOMAIN trees :
             ~trees[k].extra /\ \A i \in k + 1 .. Len(trees) : trees[i].extra
  IN  NewNode(trees[j].symbol, SubSeq(trees, 1, j - 1) \o trees[j].children
                                 \o SubSeq(trees, j + 1, Len(trees)))

AcceptPopped(p, v, pop) ==
  LET rooted == \A i \in DOMAIN pop.slices :
                  \E j \in DOMAIN pop.slices[i].subtrees : ~pop.slices[i].subtrees[j].extra
      roots == [i \in DOMAIN pop.slices |-> Root(pop.slices[i].subtrees)]
  IN  IF ~rooted THEN [p EXCEPT !.stack.sound = FALSE]
      ELSE [stack |-> Halt(RemoveVersion(pop.stack, pop.slices[1].version), v),
            finished_tree |-> FoldLeft(LAMBDA best, root : IF SelectTree(best, root) THEN root ELSE best,
                                       p.finished_tree, roots),
            accept_count |-> p.accept_count + Len(pop.slices)]

AcceptVersion(p, v, lookahead) ==
  IF lookahead.symbol # end THEN [p EXCEPT !.stack.sound = FALSE]
  ELSE AcceptPopped(p, v, PopAll(Push(p.stack, v, lookahead, 1), v))

-----------------------------------------------------------------------------
(***************************************************************************)
(* Error recovery.                                                         *)
(***************************************************************************)
(* The different reductions a state has for some tokens, in their order. *)
ReduceActions(state, symbols) ==
  LET found == FlattenSeq([i \in DOMAIN symbols |->
                             SelectSeq(Actions(state, symbols[i]), LAMBDA a : a.type = "Reduce" /\ a.count > 0)])
  IN  SelectSeq([i \in DOMAIN found |-> <<i, found[i]>>],
                LAMBDA x : \A j \in 1 .. x[1] - 1 : found[j] # x[2])

HasShiftAction(state, symbols) ==
  \E i \in DOMAIN symbols : \E a \in ToSet(Actions(state, symbols[i])) :
    a.type = "Recover" \/ (a.type = "Shift" /\ ~a.extra /\ ~a.repetition)

(* A version, here v, reduced in every way the tokens allow; the walk over *)
(* the versions is [stack, v, turn, can_shift], and starting the version   *)
(* it begins at.  A version that can but be reduced gives way to what it   *)
(* becomes, or to nothing when there is one token and it is not taken.     *)
AfterReductions(walk, reduced, starting, symbols) ==
  LET v == walk.v
      shifts == HasShiftAction(State(walk.stack, v), symbols)
      on == [stack |-> reduced.stack, turn |-> walk.turn + 1, can_shift |-> walk.can_shift \/ shifts,
             v |-> IF v = starting THEN VersionCount(walk.stack) + 1 ELSE v + 1]
  IN  IF ~shifts /\ reduced.version # None /\ walk.turn < MAX_VERSION_COUNT
      THEN [on EXCEPT !.stack = RenumberVersion(@, reduced.version, v), !.v = v]
      ELSE IF ~shifts /\ Len(symbols) = 1 THEN [on EXCEPT !.stack = RemoveVersion(@, v)]
      ELSE on

PotentialTurn(walk, starting, first, symbols) ==
  LET s == walk.stack
      v == walk.v
      into == {j \in first + 1 .. v - 1 : CanMerge(s, j, v)}
  IN  IF into # {} THEN [walk EXCEPT !.stack = Merge(s, Smallest(into), v), !.turn = @ + 1]
      ELSE AfterReductions(walk,
                           FoldLeft(LAMBDA r, x : Reduce(r.stack, v, x[2].symbol, x[2].count),
                                    [stack |-> s, version |-> None],
                                    ReduceActions(State(s, v), symbols)),
                           starting, symbols)

RECURSIVE Potential(_, _, _, _)
Potential(walk, starting, first, symbols) ==
  IF walk.v > VersionCount(walk.stack) THEN walk
  ELSE Potential(PotentialTurn(walk, starting, first, symbols), starting, first, symbols)

(* All that version could be reduced to, before the token or before any    *)
(* (which end of file stands for too), as versions of their own.           *)
DoAllPotentialReductions(s, v, symbol) ==
  Potential([stack |-> s, v |-> v, turn |-> 0, can_shift |-> FALSE], v, VersionCount(s),
            IF symbol = end THEN SetToSortSeq(TokenSymbols, <) ELSE <<symbol>>)

(* The trees skipped on the way back become an error that is an extra. *)
PushSkipped(error_trees, v, subtrees, goal_state) ==
  LET trees == IF error_trees.trees = << >> THEN subtrees
               ELSE error_trees.trees[1].children \o subtrees
      skipped == WithoutExtras(trees)
      s == error_trees.stack
  IN  IF skipped = << >> THEN PushAll(s, v, TrailingExtras(trees), goal_state)
      ELSE PushParent(s, v, NewErrorNode(skipped, TRUE), TrailingExtras(trees), goal_state)

RecoverSlice(s, v, subtrees, goal_state) ==
  IF State(s, v) # goal_state THEN Halt(s, v)
  ELSE PushSkipped(PopError(s, v), v, subtrees, goal_state)

(* Only the first of the arrays of a version is looked at. *)
RecoverPopped(pop, goal_state) ==
  LET firsts == SelectSeq([i \in DOMAIN pop.slices |-> <<i, pop.slices[i]>>],
                  LAMBDA x : x[1] = 1 \/ pop.slices[x[1] - 1].version # x[2].version)
  IN  [stack |-> FoldLeft(LAMBDA st, x : RecoverSlice(st, x[2].version, x[2].subtrees, goal_state),
                          pop.stack, firsts),
       did |-> \E i \in DOMAIN firsts : State(pop.stack, firsts[i][2].version) = goal_state,
       better |-> FALSE]

RecoverToState(s, v, depth, goal_state) == RecoverPopped(PopCount(s, v, depth), goal_state)

(* An entry of the summary that is no way back. *)
NoWayBack(s, v, entry, count) ==
  \/ entry.state = ERROR_STATE \/ entry.position = Position(s, v)
  \/ \E j \in 1 .. count : State(s, j) = entry.state /\ Position(s, j) = Position(s, v)

(* Strategy 1: back to the first state of the summary that takes the token *)
(* and is worth it; [stack, did, better]: whether it was, and whether the  *)
(* search ended because another version is better.                         *)
TryEntry(p, r, v, lookahead, entry, count) ==
  LET s == r.stack
      depth == entry.depth + IF NodeCountSinceError(s, v) > 0 THEN 1 ELSE 0
      tokens == Position(s, v) - entry.position
      new_cost == StackErrorCost(s, v) + entry.depth * ERROR_COST_PER_SKIPPED_TREE
                    + SkippedText(2 * tokens, tokens)
      asked == BetterVersionExists([p EXCEPT !.stack = s], v, FALSE, new_cost)
  IN  IF r.did \/ r.better \/ NoWayBack(s, v, entry, count) THEN r
      ELSE IF asked.exists \/ ~HasActions(entry.state, lookahead.symbol)
      THEN [stack |-> asked.stack, did |-> FALSE, better |-> asked.exists]
      ELSE RecoverToState(asked.stack, v, depth, entry.state)

(* count is how many versions there were. *)
RecoverToSummary(p, v, lookahead, count) ==
  FoldLeft(LAMBDA r, entry : TryEntry(p, r, v, lookahead, entry, count),
           [stack |-> Counted(p.stack, v), did |-> FALSE, better |-> FALSE],
           IF IsError(lookahead) THEN << >> ELSE p.stack.heads[v].summary)

RemoveInactive(s, from) ==
  FoldRight(LAMBDA v, st : IF IsActive(st, v) THEN st ELSE RemoveVersion(st, v),
            [i \in 1 .. VersionCount(s) - from |-> from + i], s)

(* The token skipped: an error of its own, or one more in the error on top. *)
GrowError(pop, v, skipped) ==
  LET first == pop.slices[1]
      one == FoldLeft(LAMBDA s, i : RemoveVersion(s, first.version + 1), pop.stack,
                      [i \in 1 .. VersionCount(pop.stack) - first.version |-> i])
  IN  Push(RenumberVersion(one, first.version, v), v,
           NewNode(error_repeat, Append(first.subtrees, skipped)), ERROR_STATE)

SkipToken(s, v, lookahead) ==
  LET last == Last(Actions(1, lookahead.symbol))
      extra == HasActions(1, lookahead.symbol) /\ last.type = "Shift" /\ last.extra
      skipped == NewNode(error_repeat, <<[lookahead EXCEPT !.extra = @ \/ extra]>>)
  IN  IF NodeCountSinceError(s, v) = 0 THEN Push(s, v, skipped, ERROR_STATE)
      ELSE GrowError(PopCount(s, v, 1), v, skipped)

(* The error on top of all at the end of file, here as an extra too. *)
ErrorAtEndExtra == NewErrorNode(<< >>, TRUE)
ErrorAtEnd == NewErrorNode(<< >>, FALSE)

(* Strategy 2: the end of file is an error too, any other token is skipped. *)
SkipUnlessBetter(p, v, lookahead, new_cost) ==
  LET asked == BetterVersionExists(p, v, FALSE, new_cost)
  IN  [p EXCEPT !.stack = IF asked.exists THEN Halt(asked.stack, v)
                          ELSE SkipToken(asked.stack, v, lookahead)]

AfterSummary(p, v, lookahead, did, new_cost) ==
  IF did /\ VersionCount(p.stack) > MAX_VERSION_COUNT THEN [p EXCEPT !.stack = Halt(@, v)]
  ELSE IF lookahead.symbol = end
  THEN AcceptVersion([p EXCEPT !.stack = Push(@, v, ErrorAtEnd, 1)], v, lookahead)
  ELSE SkipUnlessBetter(p, v, lookahead, new_cost)

Recovered(p, v, lookahead, back) ==
  AfterSummary([p EXCEPT !.stack = RemoveInactive(back.stack, VersionCount(p.stack))], v, lookahead,
               back.did,
               StackErrorCost(p.stack, v) + ERROR_COST_PER_SKIPPED_TREE
                 + SkippedText(lookahead.size, lookahead.total))

RecoverVersion(p, v, lookahead) ==
  Recovered(p, v, lookahead, RecoverToSummary(p, v, lookahead, VersionCount(p.stack)))

(* A version with the first missing token after which the parse goes on;   *)
(* can_shift tells that there is one.                                      *)
InsertMissing(s, v, lookahead) ==
  FoldLeft(LAMBDA r, missing :
             LET after == NextState(State(s, v), missing)
                 copy == VersionCount(r.stack) + 1
             IN  IF r.can_shift \/ after \in {ERROR_STATE, State(s, v)}
                    \/ ~HasReduceAction(after, lookahead.symbol)
                 THEN r
                 ELSE DoAllPotentialReductions(
                        Push(CopyVersion(r.stack, v), copy, MissingLeaf(missing), after),
                        copy, lookahead.symbol),
           [stack |-> s, can_shift |-> FALSE], SetToSortSeq(TokenSymbols, <))

PushError(r, v, lookahead) ==
  [(IF r.can_shift THEN r ELSE InsertMissing(r.stack, v, lookahead)) EXCEPT
     !.stack = Push(@, v, Null, ERROR_STATE)]

(* The version and those it could be reduced to, an error on each of them, *)
(* merged into one.                                                        *)
MergeErrors(reduced, v, lookahead, previous) ==
  LET new == [i \in 1 .. VersionCount(reduced) - previous |-> previous + i]
  IN  FoldLeft(LAMBDA s, w : IF CanMerge(s, v, previous + 1) THEN Merge(s, v, previous + 1)
                             ELSE [s EXCEPT !.sound = FALSE],
               FoldLeft(LAMBDA r, w : PushError(r, w, lookahead),
                        [stack |-> reduced, can_shift |-> FALSE], <<v>> \o new).stack,
               new)

HandleError(p, v, lookahead) ==
  RecoverVersion([p EXCEPT !.stack =
                    RecordSummary(MergeErrors(DoAllPotentialReductions(@, v, end).stack, v, lookahead,
                                              VersionCount(@)),
                                  v, MAX_SUMMARY_DEPTH)],
                 v, lookahead)

-----------------------------------------------------------------------------
(***************************************************************************)
(* ts_parser__advance: the actions of the table until one takes the token, *)
(* or none is left.                                                        *)
(***************************************************************************)
Takes(action) ==
  action.type \in {"Accept", "Recover"} \/ (action.type = "Shift" /\ ~action.repetition)

(* The reductions the table has for the token, one after the other;        *)
(* version is the last that one has made.                                  *)
ReduceFor(s, v, actions) ==
  LET Later(last, r) == [r EXCEPT !.version = IF @ = None THEN last ELSE @]
  IN  FoldLeft(LAMBDA r, a : Later(r.version, Reduce(r.stack, v, a.symbol, a.count)),
               [stack |-> s, version |-> None],
               SelectSeq(actions, LAMBDA a : a.type = "Reduce"))

RECURSIVE AdvanceVersion(_, _, _)
AdvanceVersion(p, v, lookahead) ==
  LET state == State(p.stack, v)
      actions == Actions(state, lookahead.symbol)
      taking == {i \in DOMAIN actions : Takes(actions[i])}
      before == IF taking = {} THEN actions ELSE SubSeq(actions, 1, Smallest(taking) - 1)
      type == IF taking = {} THEN "None" ELSE actions[Smallest(taking)].type
      Act(q, reduced) ==
        CASE type = "Shift" ->
               LET action == actions[Smallest(taking)]
               IN  [q EXCEPT !.stack = Push(@, v, [lookahead EXCEPT !.extra = action.extra],
                                            IF action.extra THEN state ELSE action.state)]
          [] type = "Accept" -> AcceptVersion(q, v, lookahead)
          [] type = "Recover" \/ (type = "None" /\ reduced = None /\ state = ERROR_STATE) ->
               RecoverVersion(q, v, lookahead)
          [] type = "None" /\ reduced # None ->
               AdvanceVersion([q EXCEPT !.stack = RenumberVersion(@, reduced, v)], v, lookahead)
          [] type = "None" /\ reduced = None /\ state # ERROR_STATE ->
               [q EXCEPT !.stack = Pause(@, v, lookahead)]
      Go(r) == Act([p EXCEPT !.stack = r.stack], r.version)
  IN  Go(ReduceFor(p.stack, v, before))

-----------------------------------------------------------------------------
(***************************************************************************)
(* ts_parser__condense_stack.                                              *)
(***************************************************************************)
(* Version i, whose status was taken when its turn came, against those     *)
(* from j on: [stack, i], i the version whose turn is over.                *)
RECURSIVE CondenseOne(_, _, _, _)
CondenseOne(s, i, j, status_i) ==
  LET counted == Counted(s, j)
      result == CompareVersions(VersionStatus(counted, j), status_i)
      Next_(st, to) == CondenseOne(st, i, to, status_i)
  IN  IF j >= i THEN [stack |-> s, i |-> i]
      ELSE CASE result = "TakeLeft" -> [stack |-> RemoveVersion(counted, i), i |-> i - 1]
             [] result = "TakeRight" ->
                  CondenseOne(RemoveVersion(counted, j), i - 1, j, status_i)
             [] result \in {"PreferLeft", "None", "PreferRight"} /\ CanMerge(counted, j, i) ->
                  [stack |-> Merge(counted, j, i), i |-> i - 1]
             [] result \in {"PreferLeft", "None"} /\ ~CanMerge(counted, j, i) ->
                  Next_(counted, j + 1)
             [] result = "PreferRight" /\ ~CanMerge(counted, j, i) ->
                  Next_(SwapVersions(counted, i, j), j + 1)

(* [stack, cost]: cost is the least of those that are in no error. *)
RECURSIVE CondenseFrom(_, _, _)
CondenseFrom(s, i, cost) ==
  LET counted == Counted(s, i)
      status == VersionStatus(counted, i)
      Go(one) == CondenseFrom(one.stack, one.i + 1,
                              IF ~status.is_in_error /\ status.cost < cost THEN status.cost ELSE cost)
  IN  IF i > VersionCount(s) THEN [stack |-> s, cost |-> cost]
      ELSE IF IsHalted(s, i) THEN CondenseFrom(RemoveVersion(s, i), i, cost)
      ELSE Go(CondenseOne(counted, i, 1, status))

Truncate(s) ==
  FoldLeft(LAMBDA st, i : RemoveVersion(st, MAX_VERSION_COUNT + 1), s,
           [i \in 1 .. VersionCount(s) - MAX_VERSION_COUNT |-> i])

(* The first of the paused versions recovers, if nothing before it goes    *)
(* on; the others are dropped.  n is how many of the versions are left.    *)
RECURSIVE ResumeFrom(_, _, _, _, _)
ResumeFrom(p, i, n, has_unpaused, cost) ==
  LET s == p.stack
  IN  IF i > n THEN [parser |-> p, cost |-> cost]
      ELSE IF ~IsPaused(s, i) THEN ResumeFrom(p, i + 1, n, TRUE, cost)
      ELSE IF ~has_unpaused /\ p.accept_count < MAX_VERSION_COUNT
      THEN ResumeFrom(HandleError([p EXCEPT !.stack = Resume(s, i)], i,
                                  s.heads[i].lookahead_when_paused),
                      i + 1, n, TRUE, StackErrorCost(s, i))
      ELSE ResumeFrom([p EXCEPT !.stack = RemoveVersion(s, i)], i, n - 1, has_unpaused, cost)

ResumeFirst(p, s, cost) == ResumeFrom([p EXCEPT !.stack = s], 1, VersionCount(s), FALSE, cost)

CondenseStack(p) ==
  LET Go(condensed) == ResumeFirst(p, Truncate(condensed.stack), condensed.cost)
  IN  Go(CondenseFrom(p.stack, 1, Infinite))

-----------------------------------------------------------------------------
(***************************************************************************)
(* ts_parser_parse.                                                        *)
(***************************************************************************)
Init ==
  /\ text \in Texts
  /\ parser = [stack |-> New, finished_tree |-> Null, accept_count |-> 0]
  /\ version = 1
  /\ last_position = 0
  /\ done = FALSE

InRange == ~done /\ version <= VersionCount(parser.stack)

Advance ==
  /\ InRange /\ IsActive(parser.stack, version)
  /\ parser' = AdvanceVersion(parser, version, TokenAt(Position(parser.stack, version)))
  /\ LET position == Position(parser'.stack, version)
         ahead == position > last_position \/ (version > 1 /\ position = last_position)
     IN  IF ahead THEN last_position' = position /\ version' = version + 1
                  ELSE UNCHANGED <<last_position, version>>
  /\ UNCHANGED <<text, done>>

PassVersion ==
  /\ InRange /\ ~IsActive(parser.stack, version)
  /\ version' = version + 1
  /\ UNCHANGED <<text, parser, last_position, done>>

Condense ==
  /\ ~done /\ version > VersionCount(parser.stack)
  /\ \E condensed \in {CondenseStack(parser)} :
       LET finished == condensed.parser.finished_tree
       IN  /\ parser' = condensed.parser
           /\ done' = \/ finished # Null /\ ErrorCost(finished) < condensed.cost
                      \/ VersionCount(parser.stack) = 0
  /\ version' = 1
  /\ UNCHANGED <<text, last_position>>

Finished == done /\ UNCHANGED vars

Next == Advance \/ PassVersion \/ Condense \/ Finished

Spec == Init /\ [][Next]_vars
=============================================================================
