----------------------------- MODULE Versions ------------------------------
(***************************************************************************)
(* How two versions of a parse compare (ts_parser__compare_versions of     *)
(* src/parser/src/parser.c): which is to be preferred, and whether so much *)
(* that the other is dropped.  A status is a record of cost, node_count,   *)
(* dynamic_precedence and is_in_error.                                     *)
(***************************************************************************)
EXTENDS Integers

CONSTANT Word    \* 2^32 in the code: what an unsigned product wraps at

MAX_COST_DIFFERENCE == 16 * 100

(* The comparison of a with b when b is not the better one. *)
ByCost(a, b) ==
  ((b.cost - a.cost) * (1 + a.node_count)) % Word > MAX_COST_DIFFERENCE

ByPrecedence(a, b) ==
  IF a.dynamic_precedence > b.dynamic_precedence THEN "PreferLeft"
  ELSE IF b.dynamic_precedence > a.dynamic_precedence THEN "PreferRight"
  ELSE "None"

CompareVersions(a, b) ==
  IF ~a.is_in_error /\ b.is_in_error
  THEN IF a.cost < b.cost THEN "TakeLeft" ELSE "PreferLeft"
  ELSE IF a.is_in_error /\ ~b.is_in_error
  THEN IF b.cost < a.cost THEN "TakeRight" ELSE "PreferRight"
  ELSE IF a.cost < b.cost THEN IF ByCost(a, b) THEN "TakeLeft" ELSE "PreferLeft"
  ELSE IF b.cost < a.cost THEN IF ByCost(b, a) THEN "TakeRight" ELSE "PreferRight"
  ELSE ByPrecedence(a, b)
=============================================================================
