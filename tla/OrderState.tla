----------------------------- MODULE OrderState -----------------------------
(***************************************************************************)
(* order-state.ts: the statuses of an order and the transitions that the   *)
(* services validate, as sets.                                             *)
(***************************************************************************)
EXTENDS Integers

FINAL_STATUSES == {"EXECUTED", "REJECTED", "CANCELLED", "EXPIRED", "ADJUSTED"}

\* Statuses in which the SDB still holds the order and may execute it.
OPEN_AT_SDB == {"TRANSMITTED", "ACKNOWLEDGED", "PARTIALLY_EXECUTED"}

Statuses == {"PENDING"} \cup OPEN_AT_SDB \cup FINAL_STATUSES

isFinal(s) == s \in FINAL_STATUSES

TRANSITIONS ==
  [s \in Statuses |->
     CASE s = "PENDING" -> {"TRANSMITTED", "CANCELLED", "REJECTED", "ADJUSTED"}
       [] s = "TRANSMITTED" -> {"ACKNOWLEDGED", "REJECTED", "PARTIALLY_EXECUTED", "EXECUTED",
                                "EXPIRED", "ADJUSTED"}
       [] s = "ACKNOWLEDGED" -> {"PARTIALLY_EXECUTED", "EXECUTED", "EXPIRED", "REJECTED", "ADJUSTED"}
       [] s = "PARTIALLY_EXECUTED" -> {"PARTIALLY_EXECUTED", "EXECUTED", "EXPIRED", "ADJUSTED"}
       [] OTHER -> {}]

canTransition(from, to) == to \in TRANSITIONS[from]

\* applyFill: refused beyond the quantity, final once the quantity is reached.
fillAllowed(filled, qty, quantity) == qty > 0 /\ filled + qty <= quantity
fillStatus(filled, qty, quantity) ==
  IF filled + qty = quantity THEN "EXECUTED" ELSE "PARTIALLY_EXECUTED"
=============================================================================
