------------------------------ MODULE MCLedger ------------------------------
(***************************************************************************)
(* A small ledger for TLC: a user with AVAILABLE and RESERVED, the         *)
(* provider's clearing account and a fee account.                          *)
(***************************************************************************)
EXTENDS Ledger, TLC

CONSTANTS s1, s2, k1, k2

Zero == [a \in {"available", "reserved", "clearing", "fees"} |-> 0]

MCAccounts == DOMAIN Zero
MCUserAccounts == {"available", "reserved"}
\* An id order that is neither the order of the debits nor that of the credits.
MCRank == [clearing |-> 1, available |-> 2, fees |-> 3, reserved |-> 4]

Deposit == [Zero EXCEPT !["available"] = 1, !["clearing"] = -1]
Reserve == [Zero EXCEPT !["available"] = -1, !["reserved"] = 1]
\* An adjustment that shares no account with a deposit.
Rebate  == [Zero EXCEPT !["fees"] = -1, !["reserved"] = 1]
\* Refused by normalise.
Lopsided == [Zero EXCEPT !["available"] = 1, !["reserved"] = 1]

MCMovements == {Deposit, Reserve, Rebate, Lopsided}

Symmetry == Permutations({s1, s2}) \cup Permutations({k1, k2})
=============================================================================
