--------------------------- MODULE VersionsProofs --------------------------
(***************************************************************************)
(* How versions compare, proved for every cost and count, those whose      *)
(* product wraps included.  Condensing the stack puts a version in its     *)
(* place among those already ordered by comparing it once with each and    *)
(* moving the others up, with the status it had when its turn came: that   *)
(* is right only if the comparison does not depend on which version is     *)
(* given first and is an ordering.                                         *)
(***************************************************************************)
EXTENDS Versions, TLAPS

Status ==
  [cost : Nat, node_count : Nat, dynamic_precedence : Int, is_in_error : BOOLEAN]

Mirror(comparison) ==
  CASE comparison = "TakeLeft" -> "TakeRight"
    [] comparison = "PreferLeft" -> "PreferRight"
    [] comparison = "PreferRight" -> "PreferLeft"
    [] comparison = "TakeRight" -> "TakeLeft"
    [] comparison = "None" -> "None"

Better(a, b) == CompareVersions(a, b) \in {"TakeLeft", "PreferLeft"}

-----------------------------------------------------------------------------
(* When a version is better: it is in no error and the other is, else it   *)
(* costs less, else it has the higher precedence.                          *)
LEMMA BetterWhen ==
  ASSUME NEW a \in Status, NEW b \in Status
  PROVE  Better(a, b) <=>
           \/ ~a.is_in_error /\ b.is_in_error
           \/ /\ (a.is_in_error <=> b.is_in_error)
              /\ \/ a.cost < b.cost
                 \/ a.cost = b.cost /\ a.dynamic_precedence > b.dynamic_precedence
<1>1. CASE ~a.is_in_error /\ b.is_in_error
  BY <1>1, SMT DEF Status, Better, CompareVersions, ByPrecedence
<1>2. CASE a.is_in_error /\ ~b.is_in_error
  BY <1>2, SMT DEF Status, Better, CompareVersions, ByPrecedence
<1>3. CASE (a.is_in_error <=> b.is_in_error) /\ a.cost < b.cost
  BY <1>3, SMT DEF Status, Better, CompareVersions, ByPrecedence
<1>4. CASE (a.is_in_error <=> b.is_in_error) /\ b.cost < a.cost
  BY <1>4, SMT DEF Status, Better, CompareVersions, ByPrecedence
<1>5. CASE (a.is_in_error <=> b.is_in_error) /\ a.cost = b.cost
  BY <1>5, SMT DEF Status, Better, CompareVersions, ByPrecedence
<1> QED
  BY <1>1, <1>2, <1>3, <1>4, <1>5, SMT DEF Status

(* It does not matter which of two versions is given first                 *)
(* (ts_parser__compare_versions): the comparison of b with a says of them  *)
(* what that of a with b says.                                             *)
THEOREM CompareMirrored ==
  ASSUME NEW a \in Status, NEW b \in Status
  PROVE  CompareVersions(b, a) = Mirror(CompareVersions(a, b))
<1>1. CASE ~a.is_in_error /\ b.is_in_error
  BY <1>1, SMT DEF Status, CompareVersions, ByPrecedence, Mirror
<1>2. CASE a.is_in_error /\ ~b.is_in_error
  BY <1>2, SMT DEF Status, CompareVersions, ByPrecedence, Mirror
<1>3. CASE (a.is_in_error <=> b.is_in_error) /\ a.cost < b.cost
  BY <1>3, SMT DEF Status, CompareVersions, ByPrecedence, Mirror
<1>4. CASE (a.is_in_error <=> b.is_in_error) /\ b.cost < a.cost
  BY <1>4, SMT DEF Status, CompareVersions, ByPrecedence, Mirror
<1>5. CASE (a.is_in_error <=> b.is_in_error) /\ a.cost = b.cost
  BY <1>5, SMT DEF Status, CompareVersions, ByPrecedence, Mirror
<1> QED
  BY <1>1, <1>2, <1>3, <1>4, <1>5, SMT DEF Status

(* Being better is a strict weak ordering (ts_parser__condense_stack puts  *)
(* versions in order with it): no version is better than itself, one that  *)
(* is better than another is better than all that is no better than that,  *)
(* and between versions of which none is better nothing is.                *)
THEOREM BetterOrders ==
  ASSUME NEW a \in Status, NEW b \in Status, NEW c \in Status
  PROVE  /\ ~Better(a, a)
         /\ Better(a, b) /\ ~Better(c, b) => Better(a, c)
<1>1. ~Better(a, a)
  BY BetterWhen, SMT DEF Status
<1>2. ASSUME Better(a, b), ~Better(c, b)
      PROVE  Better(a, c)
  <2>1. CASE ~a.is_in_error /\ b.is_in_error
    BY <1>2, <2>1, BetterWhen, SMT DEF Status
  <2>2. CASE (a.is_in_error <=> b.is_in_error)
    BY <1>2, <2>2, BetterWhen, SMT DEF Status
  <2> QED
    BY <1>2, <2>1, <2>2, BetterWhen, SMT DEF Status
<1> QED
  BY <1>1, <1>2

(* A version is removed for another only if that costs less and is not in  *)
(* an error the version itself is not in: the best version of all is never *)
(* removed.                                                                *)
THEOREM TakenForCheaper ==
  ASSUME NEW a \in Status, NEW b \in Status, CompareVersions(a, b) = "TakeLeft"
  PROVE  a.cost < b.cost /\ (a.is_in_error => b.is_in_error)
<1>1. CASE ~a.is_in_error /\ b.is_in_error
  BY <1>1, SMT DEF Status, CompareVersions, ByPrecedence
<1>2. CASE a.is_in_error /\ ~b.is_in_error
  BY <1>2, SMT DEF Status, CompareVersions, ByPrecedence
<1>3. CASE (a.is_in_error <=> b.is_in_error)
  BY <1>3, SMT DEF Status, CompareVersions, ByPrecedence
<1> QED
  BY <1>1, <1>2, <1>3, SMT DEF Status
=============================================================================
