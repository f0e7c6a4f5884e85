------------------------------ MODULE Ratings ------------------------------
(***************************************************************************)
(* The content ratings of a character record and of an option, and their   *)
(* order.  The same ordered tuple is written out four times in the code    *)
(* (option loader, record gate, safety filter, creator view); this module  *)
(* is the one reading of it that every other module extends.               *)
(***************************************************************************)
EXTENDS Integers

Ratings == {"standard", "mature", "explicit"}

RatingOrder ==
  [r \in Ratings |-> IF r = "standard" THEN 0
                     ELSE IF r = "mature" THEN 1 ELSE 2]

(* r is at or below s: content rated r is admissible on a record rated s.  *)
AtMost(r, s) == RatingOrder[r] <= RatingOrder[s]

============================================================================
