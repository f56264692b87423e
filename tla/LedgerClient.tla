---------------------------- MODULE LedgerClient ----------------------------
(***************************************************************************)
(* LedgerService.post as the other modules call it: one atomic step that   *)
(* returns the transaction already posted under the key, refuses to        *)
(* overdraw a USER account, or appends a posting.  Ledger.tla shows that   *)
(* the interleaved statements of the service implement such steps.         *)
(***************************************************************************)
EXTENDS Integers, Functions

CONSTANTS Accounts, UserAccounts

VARIABLES journal, balance

Init == journal = {} /\ balance = [a \in Accounts |-> 0]

Posted(k) == \E r \in journal : r.key = k

Refused(k, delta) == /\ ~Posted(k)
                     /\ \E a \in UserAccounts : delta[a] < 0 /\ balance[a] + delta[a] < 0

Post(k, delta) ==
  \/ Posted(k) /\ UNCHANGED <<journal, balance>>
  \/ /\ ~Posted(k) /\ ~Refused(k, delta)
     /\ journal' = journal \cup {[key |-> k, rev |-> FALSE, delta |-> delta]}
     /\ balance' = [a \in Accounts |-> balance[a] + delta[a]]

\* The postings and reversals of one transaction of the caller.
Posting(k, delta) == [key |-> k, rev |-> FALSE, delta |-> delta]
Reversal(k) ==
  LET original == CHOOSE r \in journal : r.key = k /\ ~r.rev
  IN [key |-> k, rev |-> TRUE, delta |-> [a \in Accounts |-> -original.delta[a]]]
Reversed(k) == \E r \in journal : r.key = k /\ r.rev

PostAll(postings) ==
  LET fresh == {p \in postings : ~\E r \in journal : r.key = p.key /\ r.rev = p.rev}
      change(a) == SumFunction([p \in fresh |-> p.delta[a]])
  IN /\ \A a \in UserAccounts : change(a) < 0 => balance[a] + change(a) >= 0
     /\ journal' = journal \cup fresh
     /\ balance' = [a \in Accounts |-> balance[a] + change(a)]
=============================================================================
