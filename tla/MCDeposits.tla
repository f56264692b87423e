----------------------------- MODULE MCDeposits -----------------------------
(* Values of Deposits' constants for TLC.                                  *)
EXTENDS Deposits, TLC

CONSTANTS i1, i2, w1, w2

MCAmount == [i \in Intents |-> IF i = i1 THEN 1 ELSE 2]
MCSymmetry == Permutations(Workers)
=============================================================================
