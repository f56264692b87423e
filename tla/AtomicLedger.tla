---------------------------- MODULE AtomicLedger ----------------------------
(***************************************************************************)
(* What the ledger promises its callers (header of                         *)
(* src/src/modules/ledger/ledger.types.ts): a journal that only grows, in  *)
(* which a transaction appends its postings all at once, every posting     *)
(* sums to zero, every key occurs once, a reversal negates the original,   *)
(* and no USER account is ever left below zero.                            *)
(***************************************************************************)
EXTENDS Integers, FiniteSets, Functions

CONSTANTS Accounts, UserAccounts

VARIABLES journal, balance

Init == journal = {} /\ balance = [a \in Accounts |-> 0]

Balanced(p) == SumFunctionOnSet(p.delta, Accounts) = 0

\* Nobody else in the journal J has p's key; a reversal cancels its original.
Fits(p, J) ==
  /\ \A q \in J : (q.key = p.key /\ q.rev = p.rev) => q = p
  /\ p.rev => \E o \in J : /\ o.key = p.key /\ ~o.rev
                           /\ \A a \in Accounts : p.delta[a] = -o.delta[a]

Apply ==
  LET batch == journal' \ journal
  IN /\ journal \subseteq journal'
     /\ batch # {}
     /\ \A p \in batch : Balanced(p) /\ Fits(p, journal')
     /\ balance' = [a \in Accounts |-> balance[a] + SumFunction([p \in batch |-> p.delta[a]])]
     /\ \A a \in UserAccounts : balance'[a] >= 0

Spec == Init /\ [][Apply]_<<journal, balance>>
=============================================================================
