------------------------------- MODULE Stack -------------------------------
(***************************************************************************)
(* The graph-structured stack of the parser (src/parser/src/stack.c).  A   *)
(* head stands for a version of the parse and points to the node on top;   *)
(* the links of a node lead to the nodes below, by the subtree between.    *)
(* Versions that come to the same state and position share their nodes,    *)
(* which are counted and freed by hand.                                    *)
(*                                                                         *)
(* The stack is a record [nodes, heads, sound]; every operation of the     *)
(* file is an operator on it, and clears sound where an assertion fails.   *)
(* Nodes and versions are numbered from 1; a freed node has no references  *)
(* and its number is not used again.                                       *)
(***************************************************************************)
EXTENDS Subtree

CONSTANTS
  MAX_LINK_COUNT,       \* 8 in the code
  MAX_ITERATOR_COUNT    \* 64 in the code

ERROR_STATE == 0
None == 0               \* no version, no node

Smallest(S) == CHOOSE x \in S : \A y \in S : x <= y
MaxOf(a, b) == IF a < b THEN b ELSE a

-----------------------------------------------------------------------------
(***************************************************************************)
(* Nodes.                                                                  *)
(***************************************************************************)
Retain(nodes, n) == [nodes EXCEPT ![n].ref_count = @ + 1]

RECURSIVE Release(_, _)
Release(nodes, n) ==
  LET less == [nodes EXCEPT ![n].ref_count = @ - 1]
  IN  IF less[n].ref_count > 0 THEN less
      ELSE FoldLeft(LAMBDA ns, link : Release(ns, link.node), less, nodes[n].links)

(* A node above another; the head's reference to that becomes the link's.  *)
NodeNew(nodes, below, subtree, state) ==
  [state |-> state, position |-> nodes[below].position + subtree.total, ref_count |-> 1,
   error_cost |-> nodes[below].error_cost + ErrorCost(subtree),
   node_count |-> nodes[below].node_count + subtree.node_count,
   links |-> <<[node |-> below, subtree |-> subtree]>>]

BaseNode ==
  [state |-> 1, position |-> 0, ref_count |-> 2, error_cost |-> 0, node_count |-> 0,
   links |-> << >>]

SubtreeIsEquivalent(left, right) ==
  \/ left = right
  \/ /\ left # Null /\ right # Null
     /\ left.symbol = right.symbol
     /\ \/ ErrorCost(left) > 0 /\ ErrorCost(right) > 0
        \/ /\ left.padding = right.padding /\ left.total = right.total
           /\ Len(left.children) = Len(right.children)
           /\ left.extra = right.extra

(* A link more for a node that has room for it, which then counts the node *)
(* the link leads to.                                                      *)
NewLinkLeaks(nodes, n, link) ==   \* counts it whether there is room or not
  LET retained == Retain(nodes, link.node)
  IN  IF Len(nodes[n].links) = MAX_LINK_COUNT THEN retained
      ELSE [retained EXCEPT
              ![n].links = Append(@, link),
              ![n].node_count = MaxOf(@, nodes[link.node].node_count + link.subtree.node_count)]

NewLink(nodes, n, link) ==
  IF Len(nodes[n].links) = MAX_LINK_COUNT THEN nodes
  ELSE [Retain(nodes, link.node) EXCEPT
          ![n].links = Append(@, link),
          ![n].node_count = MaxOf(@, nodes[link.node].node_count + link.subtree.node_count)]

(* A link that leads where an equivalent one leads is dropped; if only the *)
(* nodes it leads to could be one, their links are merged instead.         *)
RECURSIVE AddLink(_, _, _)
AddLink(nodes, n, link) ==
  LET Mergeable(m) == /\ nodes[m].state = nodes[link.node].state
                      /\ nodes[m].position = nodes[link.node].position
      same == {i \in DOMAIN nodes[n].links :
                 /\ SubtreeIsEquivalent(nodes[n].links[i].subtree, link.subtree)
                 /\ nodes[n].links[i].node = link.node \/ Mergeable(nodes[n].links[i].node)}
      existing == nodes[n].links[Smallest(same)]
  IN  CASE link.node = n -> nodes
        [] link.node # n /\ same # {} ->
             IF existing.node = link.node THEN nodes
             ELSE FoldLeft(LAMBDA ns, l : AddLink(ns, existing.node, l), nodes,
                           nodes[link.node].links)
        [] OTHER -> NewLink(nodes, n, link)

-----------------------------------------------------------------------------
(***************************************************************************)
(* Versions.                                                               *)
(***************************************************************************)
New ==
  [nodes |-> <<BaseNode>>, sound |-> TRUE,
   heads |-> <<[node |-> 1, summary |-> << >>, node_count_at_last_error |-> 0,
                status |-> "active", lookahead_when_paused |-> Null]>>]

VersionCount(s) == Len(s.heads)
Top(s, v) == s.nodes[s.heads[v].node]
State(s, v) == Top(s, v).state
Position(s, v) == Top(s, v).position
IsActive(s, v) == s.heads[v].status = "active"
IsPaused(s, v) == s.heads[v].status = "paused"
IsHalted(s, v) == s.heads[v].status = "halted"

StackErrorCost(s, v) ==
  Top(s, v).error_cost +
    IF IsPaused(s, v) \/ (State(s, v) = ERROR_STATE /\ Top(s, v).links[1].subtree = Null)
    THEN ERROR_COST_PER_RECOVERY ELSE 0

NodeCountSinceError(s, v) ==
  MaxOf(0, Top(s, v).node_count - s.heads[v].node_count_at_last_error)

(* What asking for that count changes. *)
Counted(s, v) ==
  [s EXCEPT !.heads[v].node_count_at_last_error =
     IF Top(s, v).node_count < @ THEN Top(s, v).node_count ELSE @]

Push(s, v, subtree, state) ==
  LET node == NodeNew(s.nodes, s.heads[v].node, subtree, state)
  IN  [s EXCEPT
         !.nodes = Append(@, node),
         !.heads[v].node = Len(s.nodes) + 1,
         !.heads[v].node_count_at_last_error = IF subtree = Null THEN node.node_count ELSE @]

PushAll(s, v, trees, state) == FoldLeft(LAMBDA st, t : Push(st, v, t, state), s, trees)

RemoveVersion(s, v) ==
  [s EXCEPT !.nodes = Release(@, s.heads[v].node), !.heads = RemoveAt(@, v)]

(* Version v1 takes the place of v2. *)
RenumberVersion(s, v1, v2) ==
  IF v1 = v2 THEN s
  ELSE IF ~(v2 < v1 /\ v1 <= VersionCount(s)) THEN [s EXCEPT !.sound = FALSE]
  ELSE LET source == IF s.heads[v1].summary = << >>
                     THEN [s.heads[v1] EXCEPT !.summary = s.heads[v2].summary]
                     ELSE s.heads[v1]
       IN  [s EXCEPT !.nodes = Release(@, s.heads[v2].node),
                     !.heads = RemoveAt([@ EXCEPT ![v2] = source], v1)]

(* Versions left in the order they came in. *)
KeepVersions(s, v1, v2) == s

SwapVersions(s, v1, v2) ==
  [s EXCEPT !.heads[v1] = s.heads[v2], !.heads[v2] = s.heads[v1]]

CopyVersion(s, v) ==
  [s EXCEPT !.nodes = Retain(@, s.heads[v].node),
            !.heads = Append(@, [s.heads[v] EXCEPT !.summary = << >>])]

CanMerge(s, v1, v2) ==
  /\ IsActive(s, v1) /\ IsActive(s, v2)
  /\ State(s, v1) = State(s, v2)
  /\ Position(s, v1) = Position(s, v2)
  /\ Top(s, v1).error_cost = Top(s, v2).error_cost

(* The stack when v2 could be merged into v1. *)
Merge(s, v1, v2) ==
  LET nodes == FoldLeft(LAMBDA ns, l : AddLink(ns, s.heads[v1].node, l), s.nodes, Top(s, v2).links)
      count == IF State(s, v1) = ERROR_STATE THEN nodes[s.heads[v1].node].node_count
               ELSE s.heads[v1].node_count_at_last_error
  IN  RemoveVersion([s EXCEPT !.nodes = nodes, !.heads[v1].node_count_at_last_error = count], v2)

Halt(s, v) == [s EXCEPT !.heads[v].status = "halted"]

Pause(s, v, lookahead) ==
  [s EXCEPT !.heads[v].status = "paused", !.heads[v].lookahead_when_paused = lookahead,
            !.heads[v].node_count_at_last_error = Top(s, v).node_count]

Resume(s, v) ==
  [s EXCEPT !.sound = @ /\ IsPaused(s, v),
            !.heads[v].status = "active", !.heads[v].lookahead_when_paused = Null]

-----------------------------------------------------------------------------
(***************************************************************************)
(* stack__iter: walks from the top of a version down every path at once.   *)
(* A walk is [callback, ...] with what the callback keeps; the paths it    *)
(* pops become versions of their own, one for each node they end at.       *)
(***************************************************************************)
AddSlice(s, slices, original, node, subtrees) ==
  LET same == {i \in DOMAIN slices : s.heads[slices[i].version].node = node}
      last == CHOOSE i \in same : \A j \in same : j <= i
      head == [s.heads[original] EXCEPT !.node = node, !.summary = << >>, !.status = "active",
                                        !.lookahead_when_paused = Null]
  IN  IF same # {}
      THEN [stack |-> s,
            slices |-> InsertAt(slices, last + 1,
                                [version |-> slices[last].version, subtrees |-> subtrees])]
      ELSE [stack |-> [s EXCEPT !.nodes = Retain(@, node), !.heads = Append(@, head)],
            slices |-> Append(slices, [version |-> VersionCount(s) + 1, subtrees |-> subtrees])]

(* [pop, stop] of the callback for an iterator, and what it then keeps. *)
Callback(s, walk, iterator) ==
  LET depth == iterator.subtree_count
      state == s.nodes[iterator.node].state
      Answer(pop, stop) == [pop |-> pop, stop |-> stop, walk |-> walk]
  IN  CASE walk.callback = "pop_count" -> Answer(depth = walk.goal, depth = walk.goal)
        [] walk.callback = "pop_all" -> Answer(s.nodes[iterator.node].links = << >>, FALSE)
        [] walk.callback = "pop_error" ->
             IF iterator.subtrees = << >> THEN Answer(FALSE, FALSE)
             ELSE LET found == ~walk.found_error /\ IsError(iterator.subtrees[1])
                  IN  [pop |-> found, stop |-> TRUE,
                       walk |-> [walk EXCEPT !.found_error = @ \/ found]]
        [] walk.callback = "summarize" ->
             LET known == \E i \in DOMAIN walk.summary :
                            /\ walk.summary[i].depth = depth /\ walk.summary[i].state = state
                            /\ \A j \in i .. Len(walk.summary) : walk.summary[j].depth >= depth
                 entry == [position |-> s.nodes[iterator.node].position, depth |-> depth,
                           state |-> state]
             IN  [pop |-> FALSE, stop |-> depth > walk.max_depth,
                  walk |-> IF known \/ depth > walk.max_depth THEN walk
                           ELSE [walk EXCEPT !.summary = Append(@, entry)]]

Follow(iterator, link) ==
  [node |-> link.node,
   subtrees |-> IF link.subtree = Null THEN iterator.subtrees
                ELSE Append(iterator.subtrees, link.subtree),
   subtree_count |-> iterator.subtree_count + IF link.subtree.extra THEN 0 ELSE 1]

(* One iterator's turn in a round: it leads on along the first link, and   *)
(* new iterators along the others for as long as there is room.            *)
Turn(r, iterator, version) ==
  LET links == r.stack.nodes[iterator.node].links
      answer == Callback(r.stack, r.walk, iterator)
      popped == IF answer.pop
                THEN AddSlice(r.stack, r.slices, version, iterator.node, Reverse(iterator.subtrees))
                ELSE [stack |-> r.stack, slices |-> r.slices]
      stop == answer.stop \/ links = << >>
      room == MaxOf(0, MAX_ITERATOR_COUNT - r.size)
      branches == IF stop THEN << >>
                  ELSE SubSeq(links, 2, Smallest({Len(links), 1 + room}))
  IN  [r EXCEPT !.stack = popped.stack, !.slices = popped.slices, !.walk = answer.walk,
                !.kept = IF stop THEN @ ELSE Append(@, Follow(iterator, links[1])),
                !.added = @ \o [i \in DOMAIN branches |-> Follow(iterator, branches[i])],
                !.size = @ + Len(branches) - IF stop THEN 1 ELSE 0]

RECURSIVE Rounds(_, _)
Rounds(r, version) ==
  LET iterators == r.kept \o r.added
  IN  IF iterators = << >> THEN r
      ELSE Rounds(FoldLeft(LAMBDA acc, i : Turn(acc, i, version),
                           [r EXCEPT !.kept = << >>, !.added = << >>], iterators),
                  version)

Iter(s, version, walk) ==
  Rounds([stack |-> s, slices |-> << >>, walk |-> walk, added |-> << >>, size |-> 1,
          kept |-> <<[node |-> s.heads[version].node, subtrees |-> << >>, subtree_count |-> 0]>>],
         version)

PopCount(s, version, count) == Iter(s, version, [callback |-> "pop_count", goal |-> count])
PopAll(s, version) == Iter(s, version, [callback |-> "pop_all"])

(* The one error popped; what it leaves takes the place of the version. *)
ErrorPopped(s, pop, version) ==
  IF pop.slices = << >> THEN [stack |-> s, trees |-> << >>]
  ELSE [stack |-> [RenumberVersion(pop.stack, pop.slices[1].version, version) EXCEPT
                     !.sound = @ /\ Len(pop.slices) = 1],
        trees |-> pop.slices[1].subtrees]

(* The error on top of a version, if there is one, taken off. *)
PopError(s, version) ==
  IF \E i \in DOMAIN Top(s, version).links : IsError(Top(s, version).links[i].subtree)
  THEN ErrorPopped(s, Iter(s, version, [callback |-> "pop_error", found_error |-> FALSE]), version)
  ELSE [stack |-> s, trees |-> << >>]

RecordSummary(s, version, max_depth) ==
  [s EXCEPT !.heads[version].summary =
     Iter(s, version, [callback |-> "summarize", summary |-> << >>,
                       max_depth |-> max_depth]).walk.summary]
=============================================================================
