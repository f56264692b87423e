----------------------------- MODULE MCSessions -----------------------------
(* Two handlers, so that any two calls overlap; codes and sessions for a   *)
(* login, a rotation and a reset; one attempt too many is in reach.        *)
EXTENDS Sessions, TLC

Symmetric == Permutations(Handlers)
=============================================================================
