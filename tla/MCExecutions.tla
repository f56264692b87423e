---------------------------- MODULE MCExecutions ----------------------------
(***************************************************************************)
(* Values of Orders' constants for TLC: an order of two shares, with an    *)
(* execution for each of them that just fit its reserve together, and one  *)
(* for both that is dearer than the reserve and, after another, too large; *)
(* and beside it an order of one share, with a reserve of its own and no   *)
(* execution.                                                              *)
(***************************************************************************)
EXTENDS Executions, TLC

CONSTANTS o1, o2, w1, w2

MCSides == {[o \in OrderIds |-> IF o = o1 THEN p[1] ELSE p[2]] :
              p \in {<<"BUY", "BUY">>, <<"SELL", "SELL">>}}
MCQuantity == [o \in OrderIds |-> IF o = o1 THEN 2 ELSE 1]
MCMaxAmount == [o \in OrderIds |-> IF o = o1 THEN 3 ELSE 2]
MCLines == {[ref |-> 1, order |-> o1, qty |-> 1, amount |-> 1],
            [ref |-> 2, order |-> o1, qty |-> 1, amount |-> 2],
            [ref |-> 3, order |-> o1, qty |-> 2, amount |-> 4]}
MCSymmetry == Permutations(Workers)
=============================================================================
