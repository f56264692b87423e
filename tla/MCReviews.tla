----------------------------- MODULE MCReviews -----------------------------
(* Two administrators, either of whom may make or check a request, two     *)
(* handlers and two requests: enough for two decisions on one case, or one *)
(* decision checked twice.                                                 *)
EXTENDS Compliance, TLC

Symmetric == Permutations(Staff) \cup Permutations(Handlers)
=============================================================================
