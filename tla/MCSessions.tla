------------------------------ MODULE MCSessions ------------------------------
(***************************************************************************)
(* Two user names; fields of a form that are missing, as long as may be    *)
(* and longer than the limit, of a body of up to two bytes beyond its own. *)
(* The configured limit is negative, zero, the least and the largest that  *)
(* is allowed, or one more.                                                *)
(***************************************************************************)
EXTENDS Sessions, Integers

CONSTANTS root, admin

TwoUsers     == {root, admin}
ThreeLengths == {0, 1, 3}
FiveLimits   == {-1, 0, 1, 3, 4}
=============================================================================
