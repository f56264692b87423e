---------------------------- MODULE LedgerProofs ----------------------------
(***************************************************************************)
(* What holds of the ledger for every set of sessions, keys, accounts and  *)
(* movements: its types, that a key is written once, that no USER account  *)
(* is ever overdrawn, that reversals are exact and answers true, that the  *)
(* interleaved statements implement AtomicLedger, and that posts in        *)
(* transactions of their own never deadlock.                               *)
(***************************************************************************)
EXTENDS Ledger, SumLemmas, TLAPS

USE ConstantsAssumption

\* A call in progress is a call, it has been counted, and whoever is about to
\* publish has the id it publishes.
Shape == \A s \in Sessions :
  /\ pc[s] \notin {"idle", "open"} => call[s] \in Call
  /\ pc[s] # "idle" => calls[s] \in 1..MaxCalls
  /\ pc[s] \in {"commit", "publish"} => answer[s] \in Ids
  /\ pc[s] = "create" => want[s] \in Accounts

TypeInv == TypeOK /\ Shape

LEMMA MovementTypes ==
  /\ NoMovement \in [Accounts -> Int]
  /\ \A d \in [Accounts -> Int] : Negated(d) \in [Accounts -> Int]
BY DEF NoMovement, Negated

\* The row found under a key is a row of the table that was searched.
LEMMA RowOfIsARow ==
  ASSUME NEW R, NEW c, HasKey(R, c)
  PROVE  RowOf(R, c) \in R
BY DEF HasKey, RowOf

LEMMA VisibleRows ==
  ASSUME TypeOK, NEW s \in Sessions
  PROVE  Visible(s) \in SUBSET Row
BY DEF TypeOK, Visible

LEMMA ForgetWritesTypes ==
  ASSUME TypeOK, NEW s \in Sessions, ForgetWrites(s)
  PROVE  /\ lock' \in [Accounts -> Sessions \cup {None}]
         /\ wrote' \in [Sessions -> SUBSET Row]
         /\ pend' \in [Sessions -> [Accounts -> Int]]
         /\ made' \in [Sessions -> SUBSET Accounts]
         /\ marks' \in [Sessions -> SUBSET Ids]
BY MovementTypes DEF TypeOK, ForgetWrites

\* Whatever makes a transaction fail, a rollback keeps the types.
LEMMA RollbackTypes ==
  ASSUME TypeInv, NEW s \in Sessions, NEW label \in {"idle", "reread"}, Rollback(s, label),
         pc[s] \notin {"idle", "open"} \/ label = "idle",
         answer' \in [Sessions -> Ids \cup {None}], attempt' \in [Sessions -> Nat],
         \A t \in Sessions \ {s} : answer'[t] = answer[t]
  PROVE  TypeInv'
<1>1. TypeOK'
  <2>1. want' \in [Sessions -> Accounts \cup {None}] /\ pc' \in [Sessions -> Labels]
    BY DEF TypeInv, TypeOK, Rollback, Goto, Labels
  <2>2. /\ lock' \in [Accounts -> Sessions \cup {None}]
        /\ wrote' \in [Sessions -> SUBSET Row]
        /\ pend' \in [Sessions -> [Accounts -> Int]]
        /\ made' \in [Sessions -> SUBSET Accounts]
        /\ marks' \in [Sessions -> SUBSET Ids]
    BY ForgetWritesTypes DEF TypeInv, Rollback
  <2>3. QED
    BY <2>1, <2>2 DEF TypeInv, TypeOK, Rollback, tables, request
<1>2. Shape'
  BY DEF TypeInv, TypeOK, Shape, Rollback, Goto, tables, request, Labels
<1>3. QED
  BY <1>1, <1>2 DEF TypeInv

LEMMA ThrowTypes ==
  ASSUME TypeInv, NEW s \in Sessions, Throw(s)
  PROVE  TypeInv'
<1>1. /\ answer' \in [Sessions -> Ids \cup {None}] /\ attempt' \in [Sessions -> Nat]
      /\ \A t \in Sessions \ {s} : answer'[t] = answer[t]
  BY DEF TypeInv, TypeOK, Throw
<1>2. QED
  BY <1>1, RollbackTypes DEF Throw

LEMMA UniqueViolationTypes ==
  ASSUME TypeInv, NEW s \in Sessions, pc[s] \notin {"idle", "open"}, UniqueViolation(s)
  PROVE  TypeInv'
<1>1. CASE mode[s] = "own"
  BY <1>1, RollbackTypes DEF UniqueViolation, TypeInv, TypeOK
<1>2. CASE mode[s] # "own"
  BY <1>2, ThrowTypes DEF UniqueViolation
<1>3. QED
  BY <1>1, <1>2

LEMMA ReturnExistingTypes ==
  ASSUME TypeInv, NEW s \in Sessions, pc[s] \in {"read", "check"}, ReturnExisting(s)
  PROVE  TypeInv'
<1>1. RowOf(Visible(s), call[s]) \in Row
  BY RowOfIsARow, VisibleRows DEF ReturnExisting, TypeInv
<1>2. RowOf(Visible(s), call[s]).id \in Ids
  BY <1>1 DEF Row
<1>3. TypeOK'
  BY <1>2 DEF TypeInv, TypeOK, ReturnExisting, Goto, Labels, tables, request, writes
<1>4. Shape'
  BY <1>2 DEF TypeInv, TypeOK, Shape, ReturnExisting, Goto, tables, request, writes
<1>5. QED
  BY <1>3, <1>4 DEF TypeInv

LEMMA CommitTypes ==
  ASSUME TypeOK, NEW s \in Sessions, Publishable(s), ForgetWrites(s)
  PROVE  /\ rows' \in SUBSET Row /\ reversed' \in SUBSET Ids
         /\ accounts' \in SUBSET Accounts /\ balance' \in [Accounts -> Int]
BY DEF TypeOK, Publishable

\* The first statement of a call.
LEMMA RequestTypes ==
  ASSUME TypeInv, NEW s \in Sessions, Request(s)
  PROVE  TypeInv'
<1>1. ASSUME NEW m \in {"own", "caller"}, NEW c \in Call, NEW label \in {"read", "original"},
             Admit(s, m, c), Goto(s, label),
             UNCHANGED <<tables, events, lock, want, writes>>
      PROVE  TypeInv'
  <2>1. calls[s] \in 0..MaxCalls /\ calls[s] < MaxCalls
    BY <1>1 DEF Admit, TypeInv, TypeOK
  <2>2. calls' \in [Sessions -> 0..MaxCalls] /\ calls'[s] \in 1..MaxCalls
    BY <1>1, <2>1 DEF Admit, TypeInv, TypeOK
  <2>3. TypeOK'
    BY <1>1, <2>2 DEF Admit, TypeInv, TypeOK, Goto, Labels, tables, writes
  <2>4. Shape'
    BY <1>1, <2>2 DEF Admit, TypeInv, TypeOK, Shape, Goto, tables, writes
  <2>5. QED
    BY <2>3, <2>4 DEF TypeInv
<1>2. ASSUME NEW m \in {"own", "caller"}, NEW k \in Keys, Reverse(s, m, k)
      PROVE  TypeInv'
  <2>1. [key |-> k, rev |-> TRUE, delta |-> NoMovement] \in Call
    BY MovementTypes DEF Call
  <2>2. QED
    BY <1>1, <1>2, <2>1 DEF Reverse
<1>3. ASSUME NEW m \in {"own", "caller"}, NEW k \in Keys, NEW d \in Movements, Post(s, m, k, d)
      PROVE  TypeInv'
  <2>1. [key |-> k, rev |-> FALSE, delta |-> d] \in Call
    BY DEF Call
  <2>2. QED
    BY <1>1, <1>3, <2>1 DEF Post
<1>4. ASSUME NEW d \in Movements, PostMalformed(s, d)
      PROVE  TypeInv'
  BY <1>4, ThrowTypes DEF PostMalformed
<1>5. QED
  BY <1>2, <1>3, <1>4 DEF Request

\* One step per statement.
LEMMA StepTypes ==
  ASSUME TypeInv, NEW s \in Sessions, Step(s)
  PROVE  TypeInv'
<1> USE DEF TypeInv
<1>1. CASE ReadOriginal(s)
  <2>1. CASE Throw(s)
    BY <2>1, ThrowTypes
  <2>2. CASE ~Throw(s)
    <3>1. PICK r \in Visible(s) :
            /\ call' = [call EXCEPT ![s].delta = Negated(r.delta)]
            /\ Goto(s, "read")
            /\ UNCHANGED <<tables, events, lock, mode, attempt, want, calls, answer, writes>>
      BY <1>1, <2>2 DEF ReadOriginal
    <3>2. call[s] \in Call
      BY <1>1 DEF ReadOriginal, Shape
    <3>3. Negated(r.delta) \in [Accounts -> Int]
      BY VisibleRows, MovementTypes DEF Row
    <3>4. call' \in [Sessions -> Call \cup {None}] /\ call'[s] \in Call
      BY <3>1, <3>2, <3>3 DEF TypeOK, Call
    <3>5. TypeOK'
      BY <3>1, <3>4 DEF TypeOK, Goto, Labels, tables, writes
    <3>6. Shape'
      BY <1>1, <3>1, <3>4 DEF ReadOriginal, TypeOK, Shape, Goto, tables, writes
    <3>7. QED
      BY <3>5, <3>6
  <2>3. QED
    BY <2>1, <2>2
<1>2. CASE ReadKey(s)
  <2>1. CASE ReturnExisting(s)
    BY <1>2, <2>1, ReturnExistingTypes DEF ReadKey
  <2>2. CASE ~ReturnExisting(s)
    BY <1>2, <2>2 DEF ReadKey, TypeOK, Shape, Goto, Labels, tables, request, writes
  <2>3. QED
    BY <2>1, <2>2
<1>3. CASE EnsureAccount(s)
  <2>1. ASSUME NEW label \in {"lock", "create"}, Goto(s, label),
               want' \in [Sessions -> Accounts \cup {None}],
               label = "create" => want'[s] \in Accounts,
               \A t \in Sessions \ {s} : want'[t] = want[t]
        PROVE  TypeInv'
    <3>1. TypeOK'
      BY <1>3, <2>1 DEF EnsureAccount, TypeOK, Goto, Labels, tables, request, writes
    <3>2. Shape'
      BY <1>3, <2>1 DEF EnsureAccount, TypeOK, Shape, Goto, tables, request, writes
    <3>3. QED
      BY <3>1, <3>2
  <2>2. CASE Goto(s, "lock") /\ UNCHANGED want
    BY <2>1, <2>2 DEF TypeOK
  <2>3. ASSUME NEW a \in Touched(call[s].delta) \ (accounts \cup made[s]),
               want' = [want EXCEPT ![s] = a], Goto(s, "create")
        PROVE  TypeInv'
    <3>1. a \in Accounts
      BY DEF Touched
    <3>2. QED
      BY <2>1, <2>3, <3>1 DEF TypeOK
  <2>4. QED
    BY <1>3, <2>2, <2>3 DEF EnsureAccount
<1>4. CASE CreateAccount(s)
  <2>1. CASE UniqueViolation(s)
    BY <1>4, <2>1, UniqueViolationTypes DEF CreateAccount
  <2>2. CASE /\ made' = [made EXCEPT ![s] = @ \cup {want[s]}]
             /\ want' = [want EXCEPT ![s] = None]
             /\ Goto(s, "ensure")
             /\ UNCHANGED <<tables, events, lock, request, attempt, answer, wrote, pend, marks>>
    <3>1. want[s] \in Accounts
      BY <1>4 DEF CreateAccount, Shape
    <3>2. made' \in [Sessions -> SUBSET Accounts]
      BY <2>2, <3>1 DEF TypeOK
    <3>3. TypeOK'
      BY <2>2, <3>2 DEF TypeOK, Goto, Labels, tables, request
    <3>4. Shape'
      BY <1>4, <2>2 DEF CreateAccount, TypeOK, Shape, Goto, tables, request
    <3>5. QED
      BY <3>3, <3>4
  <2>3. QED
    BY <1>4, <2>1, <2>2 DEF CreateAccount
<1>5. CASE LockAccounts(s)
  <2>1. pc[s] = "lock"
    BY <1>5 DEF LockAccounts
  <2>2. CASE Goto(s, "check") /\ UNCHANGED lock
    <3>1. TypeOK'
      BY <1>5, <2>2 DEF LockAccounts, TypeOK, Goto, Labels, tables, request, writes
    <3>2. Shape'
      BY <1>5, <2>1, <2>2 DEF LockAccounts, TypeOK, Shape, Goto, tables, request, writes
    <3>3. QED
      BY <3>1, <3>2
  <2>3. CASE lock' = [lock EXCEPT ![NextToLock(s)] = s] /\ UNCHANGED pc
    <3>1. lock' \in [Accounts -> Sessions \cup {None}]
      BY <2>3 DEF TypeOK
    <3>2. TypeOK'
      BY <1>5, <2>3, <3>1 DEF LockAccounts, TypeOK, tables, request, writes
    <3>3. Shape'
      BY <1>5, <2>3 DEF LockAccounts, Shape, tables, request, writes
    <3>4. QED
      BY <3>2, <3>3
  <2>4. QED
    BY <1>5, <2>2, <2>3 DEF LockAccounts
<1>6. CASE CheckBalances(s)
  <2>1. CASE ReturnExisting(s)
    BY <1>6, <2>1, ReturnExistingTypes DEF CheckBalances
  <2>2. CASE Throw(s)
    BY <2>2, ThrowTypes
  <2>3. CASE ~ReturnExisting(s) /\ ~Throw(s)
    BY <1>6, <2>3 DEF CheckBalances, TypeOK, Shape, Goto, Labels, tables, request, writes
  <2>4. QED
    BY <2>1, <2>2, <2>3
<1>7. CASE Insert(s)
  <2>1. CASE UniqueViolation(s)
    BY <1>7, <2>1, UniqueViolationTypes DEF Insert
  <2>2. CASE ~UniqueViolation(s)
    <3> DEFINE row == [id |-> <<s, calls[s]>>, key |-> call[s].key, rev |-> call[s].rev,
                       delta |-> call[s].delta]
    <3>1. row \in Row /\ row.id = <<s, calls[s]>> /\ row.delta = call[s].delta
      BY <1>7 DEF Insert, Shape, Row, Call, Ids
    <3>2. row.id \in Ids /\ row.delta \in [Accounts -> Int]
      BY <3>1 DEF Row
    <3>3. InsertRow(s)
      BY <1>7, <2>2 DEF Insert
    <3>4. wrote' \in [Sessions -> SUBSET Row]
      BY <3>1, <3>3 DEF InsertRow, TypeOK
    <3>5. pend' \in [Sessions -> [Accounts -> Int]]
      BY <3>2, <3>3 DEF InsertRow, TypeOK
    <3>6. answer' \in [Sessions -> Ids \cup {None}] /\ answer'[s] \in Ids
          /\ \A t \in Sessions \ {s} : answer'[t] = answer[t]
      BY <3>2, <3>3 DEF InsertRow, TypeOK
    <3>7. marks' \in [Sessions -> SUBSET Ids]
      <4>1. \A r \in Visible(s) : r.id \in Ids
        BY VisibleRows DEF Row
      <4>2. marks' = [marks EXCEPT ![s] = @ \cup
                       {r.id : r \in {q \in Visible(s) : row.rev /\ q.key = row.key /\ ~q.rev}}]
        BY <3>3 DEF InsertRow
      <4>3. {r.id : r \in {q \in Visible(s) : row.rev /\ q.key = row.key /\ ~q.rev}} \subseteq Ids
        BY <4>1
      <4>4. QED
        BY <4>2, <4>3 DEF TypeOK
    <3>8. TypeOK'
      BY <1>7, <2>2, <3>4, <3>5, <3>6, <3>7
         DEF Insert, TypeOK, Goto, Labels, tables, request
    <3>9. Shape'
      BY <1>7, <2>2, <3>6 DEF Insert, TypeOK, Shape, Goto, tables, request
    <3>10. QED
      BY <3>8, <3>9
  <2>3. QED
    BY <2>1, <2>2
<1>8. CASE CommitOwn(s)
  <2>1. TypeOK'
    BY <1>8, CommitTypes, ForgetWritesTypes DEF CommitOwn, TypeOK, Goto, Labels, request
  <2>2. Shape'
    BY <1>8 DEF CommitOwn, TypeOK, Shape, Goto, request
  <2>3. QED
    BY <2>1, <2>2
<1>9. CASE PublishPosted(s)
  <2>1. answer[s] \in Ids
    BY <1>9 DEF PublishPosted, Shape
  <2>2. QED
    BY <1>9, <2>1 DEF PublishPosted, TypeOK, Shape, Goto, Labels, tables, request, writes
<1>10. CASE Reread(s)
  <2>1. ASSUME NEW label \in {"idle", "read"}, Goto(s, label),
               NEW n \in Nat, attempt' = [attempt EXCEPT ![s] = n],
               answer' \in [Sessions -> Ids \cup {None}],
               \A t \in Sessions \ {s} : answer'[t] = answer[t]
        PROVE  TypeInv'
    <3>1. TypeOK'
      BY <1>10, <2>1 DEF Reread, TypeOK, Goto, Labels, tables, request, writes
    <3>2. Shape'
      BY <1>10, <2>1 DEF Reread, TypeOK, Shape, Goto, tables, request, writes
    <3>3. QED
      BY <3>1, <3>2
  <2>2. CASE /\ HasKey(rows, call[s])
             /\ answer' = [answer EXCEPT ![s] = RowOf(rows, call[s]).id]
             /\ Goto(s, "idle") /\ attempt' = [attempt EXCEPT ![s] = 0]
    <3>1. RowOf(rows, call[s]).id \in Ids
      BY <2>2, RowOfIsARow DEF TypeOK, Row
    <3>2. QED
      BY <2>1, <2>2, <3>1 DEF TypeOK
  <2>3. CASE /\ attempt' = [attempt EXCEPT ![s] = @ + 1]
             /\ Goto(s, "read") /\ UNCHANGED answer
    <3>1. attempt[s] + 1 \in Nat
      BY DEF TypeOK
    <3>2. QED
      BY <2>1, <2>3, <3>1 DEF TypeOK
  <2>4. CASE attempt' = [attempt EXCEPT ![s] = 0] /\ Goto(s, "idle") /\ UNCHANGED answer
    BY <2>1, <2>4 DEF TypeOK
  <2>5. QED
    BY <1>10, <2>2, <2>3, <2>4 DEF Reread
<1>11. CASE CommitCaller(s)
  <2>1. TypeOK'
    BY <1>11, CommitTypes, ForgetWritesTypes DEF CommitCaller, TypeOK, Goto, Labels, request
  <2>2. Shape'
    BY <1>11 DEF CommitCaller, TypeOK, Shape, Goto, request
  <2>3. QED
    BY <2>1, <2>2
<1>12. CASE DeadlockVictim(s)
  BY <1>12, ThrowTypes DEF DeadlockVictim
<1>13. QED
  BY <1>1, <1>2, <1>3, <1>4, <1>5, <1>6, <1>7, <1>8, <1>9, <1>10, <1>11, <1>12 DEF Step

\* Every variable keeps its type, whatever the sessions do.
THEOREM TypeCorrect == Spec => []TypeInv
<1>1. Init => TypeInv
  BY MovementTypes DEF Init, TypeInv, TypeOK, Shape, Labels
<1>2. TypeInv /\ [Next]_vars => TypeInv'
  <2>1. ASSUME TypeInv, NEW s \in Sessions, Request(s) \/ Step(s) \/ Abort(s)
        PROVE  TypeInv'
    BY <2>1, RequestTypes, StepTypes, ThrowTypes DEF Abort
  <2>2. TypeInv /\ UNCHANGED vars => TypeInv'
    BY DEF TypeInv, TypeOK, Shape, vars, tables, writes
  <2>3. QED
    BY <2>1, <2>2 DEF Next
<1>3. QED
  BY <1>1, <1>2, PTL DEF Spec

\* Every reachable state is well typed, whatever the sessions, the keys, the
\* accounts and the movements asked for.
THEOREM TypesHold == Spec => []TypeOK
<1>1. TypeInv => TypeOK
  BY DEF TypeInv
<1>2. QED
  BY <1>1, TypeCorrect, PTL

-----------------------------------------------------------------------------
(* What a step can do to the journal and to the balances: roll a           *)
(* transaction back, commit it, insert a row under the unique index, or    *)
(* leave both alone.                                                       *)

Undo(s) == ForgetWrites(s) /\ UNCHANGED <<tables, call>> /\ pc'[s] \in {"idle", "reread"}
Commit(s) == Publishable(s) /\ ForgetWrites(s) /\ UNCHANGED call /\ pc'[s] \in {"idle", "publish"}
InsertNew(s) ==
  /\ pc[s] = "insert" /\ pc'[s] \in {"commit", "publish"}
  /\ \A t \in Sessions : ~BlockedOnInsert(s, t)
  /\ ~HasKey(Visible(s), call[s])
  /\ InsertRow(s)
  /\ UNCHANGED <<tables, lock, call>>
Quiet(s) == UNCHANGED <<tables, wrote, pend>>

LEMMA RollbackUndoes ==
  ASSUME NEW s \in Sessions, TypeOK, Throw(s) \/ UniqueViolation(s)
  PROVE  Undo(s) /\ \A t \in Sessions \ {s} : pc'[t] = pc[t]
BY DEF Throw, UniqueViolation, Rollback, Undo, Goto, request, TypeOK

LEMMA StepEffects ==
  ASSUME TypeOK, NEW s \in Sessions, Request(s) \/ Step(s) \/ Abort(s)
  PROVE  Undo(s) \/ Commit(s) \/ InsertNew(s) \/ Quiet(s)
<1>1. CASE Request(s)
  BY <1>1, RollbackUndoes DEF Request, Reverse, Post, PostMalformed, Quiet, writes
<1>2. CASE ReadOriginal(s)
  BY <1>2, RollbackUndoes DEF ReadOriginal, Quiet, writes
<1>3. CASE ReadKey(s) \/ EnsureAccount(s) \/ LockAccounts(s) \/ PublishPosted(s) \/ Reread(s)
  BY <1>3 DEF ReadKey, ReturnExisting, EnsureAccount, LockAccounts, PublishPosted, Reread,
              Quiet, writes
<1>4. CASE CreateAccount(s)
  BY <1>4, RollbackUndoes DEF CreateAccount, Quiet
<1>5. CASE CheckBalances(s)
  BY <1>5, RollbackUndoes DEF CheckBalances, ReturnExisting, Quiet, writes
<1>6. CASE Insert(s)
  <2>1. CASE UniqueViolation(s)
    BY <2>1, RollbackUndoes
  <2>2. CASE ~HasKey(Visible(s), call[s])
    BY <1>6, <2>2, RollbackUndoes DEF Insert, InsertNew, Goto, request, TypeOK
  <2>3. QED
    BY <1>6, <2>1, <2>2 DEF Insert
<1>7. CASE CommitOwn(s) \/ CommitCaller(s)
  BY <1>7 DEF CommitOwn, CommitCaller, Commit, Goto, request, TypeOK
<1>8. CASE DeadlockVictim(s) \/ Abort(s)
  BY <1>8, RollbackUndoes DEF DeadlockVictim, Abort
<1>9. QED
  BY <1>1, <1>2, <1>3, <1>4, <1>5, <1>6, <1>7, <1>8 DEF Step

\* The unique index: a step never puts a second row under a key.
LEMMA StepKeyOnce ==
  ASSUME TypeInv, KeyOnce, NEW s \in Sessions, Request(s) \/ Step(s) \/ Abort(s)
  PROVE  KeyOnce'
<1> USE DEF TypeInv
<1>1. CASE Undo(s)
  <2>1. rows' = rows /\ \A t \in Sessions : wrote'[t] \subseteq wrote[t]
    BY <1>1 DEF Undo, ForgetWrites, TypeOK, tables
  <2>2. QED
    BY <2>1 DEF KeyOnce, Uncommitted, SameKey
<1>2. CASE Commit(s)
  <2>1. rows' = rows \cup wrote[s] /\ \A t \in Sessions : wrote'[t] \subseteq wrote[t]
    BY <1>2 DEF Commit, Publishable, ForgetWrites, TypeOK
  <2>2. QED
    BY <2>1 DEF KeyOnce, Uncommitted, SameKey
<1>3. CASE InsertNew(s)
  <2> DEFINE row == [id |-> <<s, calls[s]>>, key |-> call[s].key, rev |-> call[s].rev,
                     delta |-> call[s].delta]
  <2>1. rows' = rows /\ wrote' = [wrote EXCEPT ![s] = @ \cup {row}]
    BY <1>3 DEF InsertNew, InsertRow, tables
  <2>2. \A r \in rows \cup Uncommitted : ~SameKey(r, row)
    BY <1>3 DEF InsertNew, BlockedOnInsert, HasKey, Visible, Uncommitted, SameKey
  <2>3. \A r \in rows \cup Uncommitted : ~SameKey(row, r)
    BY <2>2 DEF SameKey
  <2>4. Uncommitted' \subseteq Uncommitted \cup {row}
    BY <2>1 DEF Uncommitted, TypeOK
  <2>5. \A r, q \in rows' \cup Uncommitted' :
          (r \in rows \cup Uncommitted \/ r = row) /\ (q \in rows \cup Uncommitted \/ q = row)
    BY <2>1, <2>4
  <2> HIDE DEF row
  <2>6. QED
    BY <2>2, <2>3, <2>5 DEF KeyOnce, SameKey
<1>4. CASE Quiet(s)
  BY <1>4 DEF Quiet, KeyOnce, Uncommitted, SameKey, tables
<1>5. QED
  BY <1>1, <1>2, <1>3, <1>4, StepEffects

\* An idempotency key is written at most once, in every interleaving.
THEOREM KeysAreWrittenOnce == Spec => []KeyOnce
<1>1. Init => KeyOnce
  BY DEF Init, KeyOnce, Uncommitted
<1>2. TypeInv /\ KeyOnce /\ [Next]_vars => KeyOnce'
  <2>1. ASSUME TypeInv, KeyOnce, NEW s \in Sessions, Request(s) \/ Step(s) \/ Abort(s)
        PROVE  KeyOnce'
    BY <2>1, StepKeyOnce
  <2>2. KeyOnce /\ UNCHANGED vars => KeyOnce'
    BY DEF KeyOnce, Uncommitted, SameKey, vars, tables, writes
  <2>3. QED
    BY <2>1, <2>2 DEF Next
<1>3. QED
  BY <1>1, <1>2, TypeCorrect, PTL DEF Spec

-----------------------------------------------------------------------------
(* No account of a user goes below zero.  Alone this is not inductive: it  *)
(* holds because an account is only moved by the holder of its row lock,   *)
(* which checked its movement against a balance nobody else can change.    *)

LockedWrites == \A s \in Sessions, a \in Accounts : pend[s][a] # 0 => lock[a] = s
LockedAccounts == \A s \in Sessions, a \in Accounts :
  (pc[s] \in {"check", "insert"} /\ call[s].delta[a] # 0) => lock[a] = s
Checked == \A s \in Sessions, a \in UserAccounts :
  (pc[s] = "insert" /\ call[s].delta[a] < 0) => sumAccount(s, a) + call[s].delta[a] >= 0

OverdraftInv == LockedWrites /\ LockedAccounts /\ Checked /\ NoOverdraft

\* Before a session reaches the check, a step that moves no money changes nothing
\* of its locks but the ones it takes.
Preparing(s) ==
  /\ Quiet(s)
  /\ pc'[s] \notin {"check", "insert"}
  /\ \A a \in Accounts : lock'[a] = lock[a] \/ (lock[a] = None /\ lock'[a] = s)
Locked(s) ==
  /\ UNCHANGED <<tables, wrote, pend, lock, call>>
  /\ pc'[s] = "check" /\ \A a \in Accounts : call[s].delta[a] # 0 => lock[a] = s
Accepted(s) ==
  /\ UNCHANGED <<tables, wrote, pend, lock, call>>
  /\ pc[s] = "check" /\ pc'[s] = "insert" /\ Overdrawn(s) = {}

LEMMA Prepares ==
  ASSUME TypeOK, NEW s \in Sessions, UNCHANGED <<tables, lock, writes>>,
         NEW q, q \notin {"check", "insert"}, Goto(s, q)
  PROVE  Preparing(s)
BY DEF Preparing, Quiet, Goto, writes, TypeOK

LEMMA QuietSteps ==
  ASSUME TypeInv, NEW s \in Sessions, Request(s) \/ Step(s) \/ Abort(s)
  PROVE  \/ Undo(s) \/ Commit(s) \/ InsertNew(s)
         \/ Preparing(s) \/ Locked(s) \/ Accepted(s)
<1> USE DEF TypeInv
<1>1. CASE Request(s)
  <2>1. CASE \E d \in Movements : PostMalformed(s, d)
    BY <2>1, RollbackUndoes DEF PostMalformed
  <2>2. CASE \E q \in {"read", "original"} : Goto(s, q) /\ UNCHANGED <<tables, events, lock, want, writes>>
    BY <2>2, Prepares
  <2>3. QED
    BY <1>1, <2>1, <2>2 DEF Request, Reverse, Post
<1>2. CASE ReadOriginal(s) \/ ReadKey(s) \/ EnsureAccount(s) \/ PublishPosted(s) \/ Reread(s)
  <2>1. CASE Throw(s)
    BY <2>1, RollbackUndoes
  <2>2. CASE ReturnExisting(s)
    BY <2>2, Prepares DEF ReturnExisting, writes
  <2>3. CASE ReadOriginal(s) /\ ~Throw(s)
    BY <2>3, Prepares DEF ReadOriginal
  <2>4. CASE ReadKey(s) /\ ~ReturnExisting(s)
    BY <2>4, Prepares DEF ReadKey
  <2>5. CASE EnsureAccount(s)
    BY <2>5, Prepares DEF EnsureAccount
  <2>6. CASE PublishPosted(s)
    BY <2>6, Prepares DEF PublishPosted
  <2>7. CASE Reread(s)
    BY <2>7, Prepares DEF Reread
  <2>8. QED
    BY <1>2, <2>1, <2>2, <2>3, <2>4, <2>5, <2>6, <2>7
<1>3. CASE CreateAccount(s)
  BY <1>3, RollbackUndoes DEF CreateAccount, Preparing, Quiet, Goto, TypeOK
<1>4. CASE LockAccounts(s)
  <2>1. CASE ToLock(s) = {} /\ Goto(s, "check") /\ UNCHANGED lock
    <3>1. \A a \in Accounts : call[s].delta[a] # 0 => lock[a] = s
      BY <2>1 DEF ToLock, Touched
    <3>2. QED
      BY <1>4, <2>1, <3>1 DEF LockAccounts, Locked, Goto, request, writes, TypeOK
  <2>2. CASE /\ lock[NextToLock(s)] = None /\ UNCHANGED pc
             /\ lock' = [lock EXCEPT ![NextToLock(s)] = s]
    BY <1>4, <2>2 DEF LockAccounts, Preparing, Quiet, writes, TypeOK
  <2>3. QED
    BY <1>4, <2>1, <2>2 DEF LockAccounts
<1>5. CASE CheckBalances(s)
  <2>1. CASE ReturnExisting(s)
    BY <1>5, <2>1 DEF CheckBalances, ReturnExisting, Preparing, Quiet, Goto, writes, TypeOK
  <2>2. CASE Throw(s)
    BY <2>2, RollbackUndoes
  <2>3. CASE ~ReturnExisting(s) /\ ~Throw(s)
    BY <1>5, <2>3 DEF CheckBalances, Accepted, Goto, request, writes, TypeOK
  <2>4. QED
    BY <2>1, <2>2, <2>3
<1>6. CASE Insert(s)
  <2>1. CASE UniqueViolation(s)
    BY <2>1, RollbackUndoes
  <2>2. CASE ~HasKey(Visible(s), call[s])
    BY <1>6, <2>2, RollbackUndoes DEF Insert, InsertNew, Goto, request, TypeOK
  <2>3. QED
    BY <1>6, <2>1, <2>2 DEF Insert
<1>7. CASE CommitOwn(s) \/ CommitCaller(s)
  BY <1>7 DEF CommitOwn, CommitCaller, Commit, Goto, request, TypeOK
<1>8. CASE DeadlockVictim(s) \/ Abort(s)
  BY <1>8, RollbackUndoes DEF DeadlockVictim, Abort
<1>9. QED
  BY <1>1, <1>2, <1>3, <1>4, <1>5, <1>6, <1>7, <1>8 DEF Step

\* The other sessions stay where they are.
LEMMA OthersWait ==
  ASSUME TypeOK, NEW s \in Sessions, Request(s) \/ Step(s) \/ Abort(s),
         NEW t \in Sessions \ {s}
  PROVE  pc'[t] = pc[t] /\ call'[t] = call[t]
<1>1. CASE Request(s)
  BY <1>1 DEF Request, Reverse, Post, PostMalformed, Admit, Throw, Rollback, Goto, request, TypeOK
<1>2. CASE Throw(s) \/ UniqueViolation(s) \/ ReturnExisting(s)
  BY <1>2 DEF Throw, UniqueViolation, ReturnExisting, Rollback, Goto, request, TypeOK
<1>3. CASE Step(s)
  BY <1>2, <1>3 DEF Step, ReadOriginal, ReadKey, EnsureAccount, CreateAccount, LockAccounts,
     CheckBalances, Insert, CommitOwn, PublishPosted, Reread, CommitCaller, DeadlockVictim,
     Goto, request, TypeOK
<1>4. QED
  BY <1>1, <1>2, <1>3 DEF Abort

LEMMA StepOverdraft ==
  ASSUME TypeInv, OverdraftInv, NEW s \in Sessions, Request(s) \/ Step(s) \/ Abort(s)
  PROVE  OverdraftInv'
<1> USE DEF TypeInv
<1>0. \A t \in Sessions \ {s} : pc'[t] = pc[t] /\ call'[t] = call[t]
  BY OthersWait
<1>n. None \notin Sessions
  OBVIOUS
<1>1. CASE Undo(s)
  <2>1. /\ balance' = balance /\ call' = call
        /\ \A a \in Accounts : /\ pend'[s][a] = 0
                               /\ lock[a] # s => lock'[a] = lock[a]
        /\ \A t \in Sessions \ {s} : pend'[t] = pend[t]
        /\ pc'[s] \notin {"check", "insert"}
    BY <1>1 DEF Undo, ForgetWrites, NoMovement, TypeOK, tables
  <2>2. LockedWrites' /\ LockedAccounts' /\ Checked'
    BY <1>0, <2>1 DEF OverdraftInv, LockedWrites, LockedAccounts, Checked, sumAccount
  <2>3. NoOverdraft'
    BY <2>1 DEF OverdraftInv, NoOverdraft, sumAccount, TypeOK
  <2>4. QED
    BY <2>2, <2>3 DEF OverdraftInv
<1>2. CASE Commit(s)
  <2>1. /\ \A a \in Accounts : balance'[a] = balance[a] + pend[s][a]
        /\ call' = call
        /\ \A a \in Accounts : /\ pend'[s][a] = 0
                               /\ lock[a] # s => lock'[a] = lock[a]
        /\ \A t \in Sessions \ {s} : pend'[t] = pend[t]
        /\ pc'[s] \notin {"check", "insert"}
    BY <1>2 DEF Commit, Publishable, ForgetWrites, NoMovement, TypeOK
  <2>2. LockedWrites' /\ LockedAccounts'
    BY <1>0, <2>1 DEF OverdraftInv, LockedWrites, LockedAccounts
  <2>3. ASSUME NEW t \in Sessions, NEW a \in UserAccounts, pc'[t] = "insert", call'[t].delta[a] < 0
        PROVE  sumAccount(t, a)' + call'[t].delta[a] >= 0
    <3>1. t # s /\ pc[t] = "insert" /\ call[t].delta[a] < 0 /\ a \in Accounts
      BY <1>0, <2>1, <2>3
    <3>2. call[t] \in Call
      BY <3>1 DEF Shape
    <3>3. call[t].delta[a] \in Int
      BY <3>1, <3>2 DEF Call
    <3>4. lock[a] = t
      BY <3>1, <3>3 DEF OverdraftInv, LockedAccounts
    <3>5. pend[s][a] = 0
      BY <3>1, <3>4 DEF OverdraftInv, LockedWrites
    <3>6. sumAccount(t, a)' = sumAccount(t, a)
      BY <2>1, <3>1, <3>5 DEF sumAccount, TypeOK
    <3>7. QED
      BY <2>1, <3>1, <3>6 DEF OverdraftInv, Checked
  <2>4. ASSUME NEW a \in UserAccounts, NEW t \in Sessions
        PROVE  balance'[a] >= 0 /\ sumAccount(t, a)' >= 0
    <3>1. balance[a] + pend[s][a] >= 0 /\ balance[a] + pend[t][a] >= 0
      BY DEF OverdraftInv, NoOverdraft, sumAccount
    <3>2. t # s => (pend[s][a] = 0 \/ pend[t][a] = 0)
      BY DEF OverdraftInv, LockedWrites
    <3>3. balance[a] \in Int /\ pend[s][a] \in Int /\ pend[t][a] \in Int
      BY DEF TypeOK
    <3>4. QED
      BY <2>1, <3>1, <3>2, <3>3 DEF sumAccount
  <2>5. NoOverdraft'
    BY <2>4 DEF NoOverdraft
  <2>6. QED
    BY <2>2, <2>3, <2>5 DEF OverdraftInv, Checked
<1>3. CASE InsertNew(s)
  <2>1. call[s] \in Call
    BY <1>3 DEF InsertNew, Shape
  <2>2. /\ balance' = balance /\ lock' = lock /\ call' = call
        /\ \A a \in Accounts : pend'[s][a] = pend[s][a] + call[s].delta[a]
        /\ \A t \in Sessions \ {s} : pend'[t] = pend[t]
        /\ pc[s] = "insert" /\ pc'[s] \notin {"check", "insert"}
    BY <1>3 DEF InsertNew, InsertRow, TypeOK, tables
  <2>3. \A a \in Accounts : call[s].delta[a] \in Int /\ pend[s][a] \in Int /\ balance[a] \in Int
    BY <2>1 DEF Call, TypeOK
  <2>4. \A a \in Accounts : call[s].delta[a] # 0 => lock[a] = s
    BY <2>2 DEF OverdraftInv, LockedAccounts
  <2>5. LockedWrites'
    BY <2>2, <2>3, <2>4 DEF OverdraftInv, LockedWrites
  <2>6. LockedAccounts' /\ Checked'
    BY <1>0, <2>2 DEF OverdraftInv, LockedAccounts, Checked, sumAccount
  <2>7. \A a \in UserAccounts : sumAccount(s, a)' >= 0
    <3> SUFFICES ASSUME NEW a \in UserAccounts PROVE sumAccount(s, a)' >= 0
      OBVIOUS
    <3>1. sumAccount(s, a)' = sumAccount(s, a) + call[s].delta[a]
      BY <2>2, <2>3 DEF sumAccount
    <3>2. sumAccount(s, a) >= 0 /\ sumAccount(s, a) \in Int
      BY <2>3 DEF OverdraftInv, NoOverdraft, sumAccount
    <3>3. CASE call[s].delta[a] < 0
      BY <2>2, <3>1, <3>3 DEF OverdraftInv, Checked
    <3>4. CASE call[s].delta[a] >= 0
      BY <2>3, <3>1, <3>2, <3>4
    <3>5. QED
      BY <2>3, <3>3, <3>4
  <2>8. NoOverdraft'
    BY <2>2, <2>7 DEF OverdraftInv, NoOverdraft, sumAccount
  <2>9. QED
    BY <2>5, <2>6, <2>8 DEF OverdraftInv
<1>4. CASE Preparing(s)
  <2>1. balance' = balance /\ pend' = pend
    BY <1>4 DEF Preparing, Quiet, tables
  <2>2. NoOverdraft' /\ Checked'
    BY <1>0, <1>4, <2>1 DEF Preparing, OverdraftInv, NoOverdraft, Checked, sumAccount
  <2>3. LockedWrites' /\ LockedAccounts'
    BY <1>0, <1>n, <1>4, <2>1 DEF Preparing, OverdraftInv, LockedWrites, LockedAccounts
  <2>4. QED
    BY <2>2, <2>3 DEF OverdraftInv
<1>5. CASE Locked(s)
  BY <1>0, <1>5 DEF Locked, OverdraftInv, LockedWrites, LockedAccounts, Checked, NoOverdraft,
                    sumAccount, tables
<1>6. CASE Accepted(s)
  <2>1. \A a \in UserAccounts : call[s].delta[a] < 0 => sumAccount(s, a) + call[s].delta[a] >= 0
    <3> SUFFICES ASSUME NEW a \in UserAccounts, call[s].delta[a] < 0
                 PROVE  sumAccount(s, a) + call[s].delta[a] >= 0
      OBVIOUS
    <3>1. call[s] \in Call /\ a \in Accounts
      BY <1>6 DEF Accepted, Shape
    <3>2. call[s].delta[a] \in Int /\ sumAccount(s, a) \in Int
      BY <3>1 DEF Call, TypeOK, sumAccount
    <3>3. ~(sumAccount(s, a) + call[s].delta[a] < 0)
      BY <1>6 DEF Accepted, Overdrawn, Guarded
    <3>4. QED
      BY <3>2, <3>3
  <2>2. QED
    BY <1>0, <1>6, <2>1 DEF Accepted, OverdraftInv, LockedWrites, LockedAccounts, Checked,
                            NoOverdraft, sumAccount, tables
<1>7. QED
  BY <1>1, <1>2, <1>3, <1>4, <1>5, <1>6, QuietSteps

\* Concurrent postings never overdraw an account of a user.
THEOREM UsersAreNeverOverdrawn == Spec => []NoOverdraft
<1>1. Init => OverdraftInv
  BY DEF Init, OverdraftInv, LockedWrites, LockedAccounts, Checked, NoOverdraft, NoMovement,
         sumAccount
<1>2. TypeInv /\ OverdraftInv /\ [Next]_vars => OverdraftInv'
  <2>1. ASSUME TypeInv, OverdraftInv, NEW s \in Sessions, Request(s) \/ Step(s) \/ Abort(s)
        PROVE  OverdraftInv'
    BY <2>1, StepOverdraft
  <2>2. OverdraftInv /\ UNCHANGED vars => OverdraftInv'
    BY DEF OverdraftInv, LockedWrites, LockedAccounts, Checked, NoOverdraft, sumAccount, vars,
           tables, writes, request
  <2>3. QED
    BY <2>1, <2>2 DEF Next
<1>3. OverdraftInv => NoOverdraft
  BY DEF OverdraftInv
<1>4. QED
  BY <1>1, <1>2, <1>3, TypeCorrect, PTL DEF Spec

-----------------------------------------------------------------------------
(* What a caller is told, and reversals.  A session at work has no answer; *)
(* one that was answered sees the row it was answered with.                *)

Working == {"original", "read", "ensure", "create", "lock", "check", "insert", "reread"}
\* Past the guards of reverse: the new entries are known.
Entered == {"read", "ensure", "create", "lock", "check", "insert"}

\* q is the reversal of r.
Cancels(q, r) == q.rev /\ ~r.rev /\ r.key = q.key /\ q.delta = Negated(r.delta)

\* What a step does to the books and to the session's call.
Undone(s) ==
  /\ ForgetWrites(s) /\ UNCHANGED <<rows, reversed, mode, call, calls>>
  /\ \/ pc'[s] = "idle" /\ answer'[s] = None
     \/ pc[s] \in Working /\ pc'[s] = "reread" /\ answer'[s] = answer[s]
Committing(s) ==
  /\ Publishable(s) /\ ForgetWrites(s) /\ UNCHANGED <<mode, call, calls, answer>>
  /\ pc[s] \notin Working /\ pc'[s] \in {"idle", "publish"}
Inserted(s) ==
  /\ pc[s] = "insert" /\ pc'[s] = IF mode[s] = "own" THEN "commit" ELSE "publish"
  /\ ~HasKey(Visible(s), call[s])
  /\ InsertRow(s)
  /\ UNCHANGED <<rows, reversed, mode, call, calls>>

Unwritten == UNCHANGED <<rows, reversed, wrote, marks>>
Admitted(s) ==
  /\ pc[s] \in {"idle", "open"} /\ pc'[s] \in {"read", "original"}
  /\ calls'[s] = calls[s] + 1 /\ answer'[s] = None
  /\ pc'[s] = "read" => ~call'[s].rev
Original(s) ==
  /\ pc[s] = "original" /\ pc'[s] = "read"
  /\ UNCHANGED <<mode, calls, answer>>
  /\ call'[s].rev => \E r \in Visible(s) : Cancels(call'[s], r)
Moving(s) ==
  /\ pc[s] \in Working /\ pc'[s] \in Working
  /\ UNCHANGED <<mode, call, calls, answer>>
  /\ pc'[s] = "reread" => pc[s] = "reread"
  /\ pc'[s] \in Entered => pc[s] \in Entered \/ ~call[s].rev
Answering(s) ==
  /\ pc[s] \in Working /\ pc'[s] \in {"commitExisting", "open", "idle"}
  /\ pc'[s] = "idle" => pc[s] = "reread"
  /\ UNCHANGED <<mode, call, calls>>
  /\ \E r \in Visible(s) : r.id = answer'[s] /\ SameKey(r, call[s])
GivingUp(s) ==
  /\ pc[s] = "reread" /\ pc'[s] = "idle"
  /\ UNCHANGED <<mode, call, calls, answer>>
Publishing(s) ==
  /\ pc[s] = "publish" /\ pc'[s] = IF mode[s] = "own" THEN "idle" ELSE "open"
  /\ UNCHANGED <<mode, call, calls, answer>>
Waiting(s) ==
  Unwritten /\ (\/ Admitted(s) \/ Original(s) \/ Moving(s) \/ Answering(s)
                \/ GivingUp(s) \/ Publishing(s))

Effect(s) == Undone(s) \/ Committing(s) \/ Inserted(s) \/ Waiting(s)

LEMMA ThrowEffect ==
  ASSUME TypeOK, NEW s \in Sessions, Throw(s)
  PROVE  Effect(s)
BY DEF Throw, Rollback, Goto, Effect, Undone, tables, request, TypeOK

LEMMA ViolationEffect ==
  ASSUME TypeOK, NEW s \in Sessions, UniqueViolation(s), pc[s] \in Working
  PROVE  Effect(s)
<1>1. CASE mode[s] = "own"
  BY <1>1 DEF UniqueViolation, Rollback, Goto, Effect, Undone, tables, request, TypeOK
<1>2. QED
  BY <1>1, ThrowEffect DEF UniqueViolation

\* A row that was found under the key of the call is an answer to it.
LEMMA RowOfAnswers ==
  ASSUME NEW R, NEW c, HasKey(R, c)
  PROVE  RowOf(R, c) \in R /\ SameKey(RowOf(R, c), c)
BY DEF HasKey, RowOf

LEMMA ExistingEffect ==
  ASSUME TypeOK, NEW s \in Sessions, ReturnExisting(s), pc[s] \in Working
  PROVE  Effect(s)
<1>1. \E r \in Visible(s) : r.id = answer'[s] /\ SameKey(r, call[s])
  BY RowOfAnswers DEF ReturnExisting, TypeOK
<1>2. pc'[s] \in {"commitExisting", "open"} /\ UNCHANGED <<rows, reversed, wrote, marks, mode, call, calls>>
  BY DEF ReturnExisting, Goto, TypeOK, tables, request, writes
<1>3. QED
  BY <1>1, <1>2 DEF Effect, Waiting, Answering, Unwritten

LEMMA RequestEffects ==
  ASSUME TypeOK, NEW s \in Sessions, Request(s)
  PROVE  Effect(s)
<1>1. ASSUME NEW m \in {"own", "caller"}, NEW c, NEW label \in {"read", "original"},
             Admit(s, m, c), Goto(s, label), label = "read" => ~c.rev,
             UNCHANGED <<tables, events, lock, want, writes>>
      PROVE  Effect(s)
  BY <1>1 DEF Admit, Goto, Effect, Waiting, Admitted, Unwritten, tables, writes, TypeOK
<1>2. ASSUME NEW m \in {"own", "caller"}, NEW k \in Keys, Reverse(s, m, k)
      PROVE  Effect(s)
  BY <1>1, <1>2 DEF Reverse
<1>3. ASSUME NEW m \in {"own", "caller"}, NEW k \in Keys, NEW d \in Movements, Post(s, m, k, d)
      PROVE  Effect(s)
  BY <1>1, <1>3 DEF Post
<1>4. ASSUME NEW d \in Movements, PostMalformed(s, d)
      PROVE  Effect(s)
  BY <1>4, ThrowEffect DEF PostMalformed
<1>5. QED
  BY <1>2, <1>3, <1>4 DEF Request

LEMMA MovingEffect ==
  ASSUME TypeOK, NEW s \in Sessions, Moving(s), Unwritten
  PROVE  Effect(s)
BY DEF Effect, Waiting

LEMMA StatementEffects ==
  ASSUME TypeInv, NEW s \in Sessions, Step(s)
  PROVE  Effect(s)
<1> USE DEF TypeInv
<1>1. CASE ReadOriginal(s)
  <2>1. CASE Throw(s)
    BY <2>1, ThrowEffect
  <2>2. CASE ~Throw(s)
    <3>1. PICK r \in Visible(s) :
            /\ r.key = call[s].key /\ ~r.rev
            /\ call' = [call EXCEPT ![s].delta = Negated(r.delta)]
            /\ pc[s] = "original" /\ Goto(s, "read")
            /\ UNCHANGED <<tables, events, lock, mode, attempt, want, calls, answer, writes>>
      BY <1>1, <2>2 DEF ReadOriginal
    <3>2. call[s] \in Call
      BY <3>1 DEF Shape
    <3>3. /\ call'[s].key = call[s].key /\ call'[s].rev = call[s].rev
          /\ call'[s].delta = Negated(r.delta)
      BY <3>1, <3>2 DEF Call, TypeOK
    <3>4. call'[s].rev => Cancels(call'[s], r)
      BY <3>1, <3>3 DEF Cancels
    <3>5. QED
      BY <3>1, <3>4 DEF Effect, Waiting, Original, Unwritten, Goto, tables, writes, TypeOK
  <2>3. QED
    BY <2>1, <2>2
<1>2. CASE ReadKey(s)
  <2>1. CASE ReturnExisting(s)
    BY <1>2, <2>1, ExistingEffect DEF ReadKey, Working
  <2>2. CASE ~ReturnExisting(s)
    BY <1>2, <2>2, MovingEffect DEF ReadKey, Moving, Unwritten, Working, Entered, Goto, tables, request,
       writes, TypeOK
  <2>3. QED
    BY <2>1, <2>2
<1>3. CASE EnsureAccount(s) \/ LockAccounts(s)
  BY <1>3, MovingEffect DEF EnsureAccount, LockAccounts, Moving, Unwritten, Working, Entered, Goto,
     tables, request, writes, TypeOK
<1>4. CASE CreateAccount(s)
  <2>1. CASE UniqueViolation(s)
    BY <1>4, <2>1, ViolationEffect DEF CreateAccount, Working
  <2>2. CASE ~UniqueViolation(s)
    BY <1>4, <2>2, MovingEffect DEF CreateAccount, Moving, Unwritten, Working, Entered, Goto,
       tables, request, TypeOK
  <2>3. QED
    BY <2>1, <2>2
<1>5. CASE CheckBalances(s)
  <2>1. CASE ReturnExisting(s)
    BY <1>5, <2>1, ExistingEffect DEF CheckBalances, Working
  <2>2. CASE Throw(s)
    BY <2>2, ThrowEffect
  <2>3. CASE ~ReturnExisting(s) /\ ~Throw(s)
    BY <1>5, <2>3, MovingEffect DEF CheckBalances, Moving, Unwritten, Working, Entered, Goto,
       tables, request, writes, TypeOK
  <2>4. QED
    BY <2>1, <2>2, <2>3
<1>6. CASE Insert(s)
  <2>1. CASE UniqueViolation(s)
    BY <1>6, <2>1, ViolationEffect DEF Insert, Working
  <2>2. CASE ~UniqueViolation(s)
    BY <1>6, <2>2 DEF Insert, Effect, Inserted, Goto, tables, request, TypeOK
  <2>3. QED
    BY <2>1, <2>2
<1>7. CASE CommitOwn(s) \/ CommitCaller(s)
  BY <1>7 DEF CommitOwn, CommitCaller, Effect, Committing, Working, Goto, request, TypeOK
<1>8. CASE PublishPosted(s)
  BY <1>8 DEF PublishPosted, Effect, Waiting, Publishing, Unwritten, Goto, tables, request, writes, TypeOK
<1>9. CASE Reread(s)
  <2>1. /\ pc[s] = "reread" /\ UNCHANGED <<rows, reversed, wrote, marks, mode, call, calls>>
    BY <1>9 DEF Reread, tables, request, writes
  <2>2. CASE /\ HasKey(rows, call[s]) /\ pc'[s] = "idle"
             /\ answer' = [answer EXCEPT ![s] = RowOf(rows, call[s]).id]
    <3>1. RowOf(rows, call[s]) \in Visible(s) /\ SameKey(RowOf(rows, call[s]), call[s])
      BY <2>2, RowOfAnswers DEF Visible
    <3>2. answer'[s] = RowOf(rows, call[s]).id
      BY <2>2 DEF TypeOK
    <3>3. Answering(s)
      BY <2>1, <2>2, <3>1, <3>2 DEF Answering, Working
    <3>4. QED
      BY <2>1, <3>3 DEF Effect, Waiting, Unwritten
  <2>3. CASE pc'[s] = "read" /\ ~call[s].rev /\ UNCHANGED answer
    BY <2>1, <2>3, MovingEffect DEF Moving, Unwritten, Working, Entered
  <2>4. CASE pc'[s] = "idle" /\ UNCHANGED answer
    BY <2>1, <2>4 DEF Effect, Waiting, GivingUp, Unwritten
  <2>5. QED
    BY <1>9, <2>2, <2>3, <2>4 DEF Reread, Goto, TypeOK
<1>10. CASE DeadlockVictim(s)
  BY <1>10, ThrowEffect DEF DeadlockVictim
<1>11. QED
  BY <1>1, <1>2, <1>3, <1>4, <1>5, <1>6, <1>7, <1>8, <1>9, <1>10 DEF Step

LEMMA OthersUntouched ==
  ASSUME TypeOK, NEW s \in Sessions, Request(s) \/ Step(s) \/ Abort(s),
         NEW t \in Sessions \ {s}
  PROVE  /\ mode'[t] = mode[t] /\ calls'[t] = calls[t] /\ answer'[t] = answer[t]
         /\ wrote'[t] = wrote[t] /\ marks'[t] = marks[t]
<1>1. CASE Throw(s) \/ UniqueViolation(s)
  BY <1>1 DEF Throw, UniqueViolation, Rollback, ForgetWrites, request, TypeOK
<1>2. CASE ReturnExisting(s)
  BY <1>2 DEF ReturnExisting, request, writes, TypeOK
<1>3. CASE Request(s)
  BY <1>1, <1>3 DEF Request, Reverse, Post, PostMalformed, Admit, writes, TypeOK
<1>4. CASE Insert(s)
  BY <1>1, <1>4 DEF Insert, InsertRow, request, TypeOK
<1>5. CASE CommitOwn(s) \/ CommitCaller(s)
  BY <1>5 DEF CommitOwn, CommitCaller, ForgetWrites, request, TypeOK
<1>6. CASE ReadOriginal(s) \/ ReadKey(s) \/ EnsureAccount(s) \/ CreateAccount(s)
  BY <1>1, <1>2, <1>6 DEF ReadOriginal, ReadKey, EnsureAccount, CreateAccount, request, writes, TypeOK
<1>7. CASE LockAccounts(s) \/ CheckBalances(s) \/ PublishPosted(s) \/ Reread(s)
  BY <1>1, <1>2, <1>7 DEF LockAccounts, CheckBalances, PublishPosted, Reread, request, writes, TypeOK
<1>8. QED
  BY <1>1, <1>3, <1>4, <1>5, <1>6, <1>7 DEF Step, Abort, DeadlockVictim

LEMMA StepsHaveEffects ==
  ASSUME TypeInv, NEW s \in Sessions, Request(s) \/ Step(s) \/ Abort(s)
  PROVE  Effect(s)
BY RequestEffects, StatementEffects, ThrowEffect DEF Abort, TypeInv

-----------------------------------------------------------------------------
(* Ids: a session numbers its calls, and a call inserts one row at most.   *)

Numbered == \A r \in rows \cup Uncommitted :
  /\ r.id[2] <= calls[r.id[1]]
  /\ pc[r.id[1]] \in Working => r.id[2] < calls[r.id[1]]
IdOnce == \A r, q \in rows \cup Uncommitted : r.id = q.id => r = q

LEMMA StepNumbers ==
  ASSUME TypeInv, Numbered, IdOnce, NEW s \in Sessions, Request(s) \/ Step(s) \/ Abort(s)
  PROVE  Numbered' /\ IdOnce'
<1> USE DEF TypeInv
<1> DEFINE row == [id |-> <<s, calls[s]>>, key |-> call[s].key, rev |-> call[s].rev,
                   delta |-> call[s].delta]
<1>1. \A t \in Sessions \ {s} : pc'[t] = pc[t] /\ calls'[t] = calls[t]
  BY OthersWait, OthersUntouched
<1>2. \A r \in rows \cup Uncommitted : r.id \in Sessions \X Nat /\ calls[r.id[1]] \in Nat
  BY DEF TypeOK, Uncommitted, Row, Ids
<1>3. CASE /\ rows' \cup Uncommitted' \subseteq rows \cup Uncommitted
           /\ calls'[s] \in {calls[s], calls[s] + 1}
           /\ pc'[s] \in Working => pc[s] \in Working \/ calls'[s] = calls[s] + 1
  <2>1. IdOnce'
    BY <1>3 DEF IdOnce
  <2>2. ASSUME NEW r \in rows' \cup Uncommitted'
        PROVE  /\ r.id[2] <= calls'[r.id[1]]
               /\ pc'[r.id[1]] \in Working => r.id[2] < calls'[r.id[1]]
    <3>1. r \in rows \cup Uncommitted /\ r.id[1] \in Sessions /\ r.id[2] \in Nat
      BY <1>2, <1>3
    <3>2. CASE r.id[1] = s
      BY <1>2, <1>3, <3>1, <3>2 DEF Numbered
    <3>3. CASE r.id[1] # s
      BY <1>1, <3>1, <3>3 DEF Numbered
    <3>4. QED
      BY <3>2, <3>3
  <2>3. QED
    BY <2>1, <2>2 DEF Numbered
<1>4. CASE Undone(s)
  <2>1. rows' = rows /\ \A t \in Sessions : wrote'[t] \subseteq wrote[t]
    BY <1>4 DEF Undone, ForgetWrites, TypeOK
  <2>2. calls' = calls /\ (pc'[s] \in Working => pc[s] \in Working)
    BY <1>4 DEF Undone, Working
  <2>3. QED
    BY <1>3, <2>1, <2>2 DEF Uncommitted
<1>5. CASE Committing(s)
  <2>1. rows' = rows \cup wrote[s] /\ \A t \in Sessions : wrote'[t] \subseteq wrote[t]
    BY <1>5 DEF Committing, Publishable, ForgetWrites, TypeOK
  <2>2. calls' = calls /\ pc'[s] \notin Working
    BY <1>5 DEF Committing, Working
  <2>3. QED
    BY <1>3, <2>1, <2>2 DEF Uncommitted
<1>6. CASE Inserted(s)
  <2>1. rows' = rows /\ wrote' = [wrote EXCEPT ![s] = @ \cup {row}] /\ calls' = calls
    BY <1>6 DEF Inserted, InsertRow
  <2>2. rows' \cup Uncommitted' \subseteq rows \cup Uncommitted \cup {row}
    BY <2>1 DEF Uncommitted, TypeOK
  <2>3. pc[s] \in Working /\ pc'[s] \notin Working
    BY <1>6 DEF Inserted, Working
  <2>4. row.id = <<s, calls[s]>>
    OBVIOUS
  <2>5. \A r \in rows \cup Uncommitted : r.id # row.id
    BY <1>2, <2>3, <2>4 DEF Numbered
  <2> HIDE DEF row
  <2>6. IdOnce'
    BY <2>2, <2>5 DEF IdOnce
  <2>7. ASSUME NEW r \in rows' \cup Uncommitted'
        PROVE  /\ r.id[2] <= calls'[r.id[1]]
               /\ pc'[r.id[1]] \in Working => r.id[2] < calls'[r.id[1]]
    <3>1. CASE r = row
      BY <2>1, <2>3, <2>4, <3>1 DEF TypeOK
    <3>2. CASE r # row
      <4>1. r \in rows \cup Uncommitted /\ r.id[1] \in Sessions
        BY <1>2, <2>2, <3>2
      <4>2. QED
        BY <1>1, <2>1, <2>3, <4>1 DEF Numbered
    <3>3. QED
      BY <3>1, <3>2
  <2>8. QED
    BY <2>6, <2>7 DEF Numbered
<1>7. CASE Waiting(s)
  <2>1. rows' \cup Uncommitted' = rows \cup Uncommitted
    BY <1>7 DEF Waiting, Unwritten, Uncommitted
  <2>2. CASE Admitted(s)
    BY <1>3, <2>1, <2>2 DEF Admitted
  <2>3. CASE ~Admitted(s)
    BY <1>3, <1>7, <2>1, <2>3 DEF Waiting, Original, Moving, Answering, GivingUp, Publishing, Working
  <2>4. QED
    BY <2>2, <2>3
<1>8. QED
  BY <1>4, <1>5, <1>6, <1>7, StepsHaveEffects DEF Effect

-----------------------------------------------------------------------------
(* The books: in what is committed, and in what each session sees, the     *)
(* reversals and the REVERSED marks are each other's.                      *)

Backed(R, M) ==
  /\ \A q \in R : q.rev => \E r \in R : Cancels(q, r) /\ r.id \in M
  /\ \A i \in M : \E q, r \in R : q.rev /\ ~r.rev /\ q.key = r.key /\ r.id = i

LEMMA BackedUnion ==
  ASSUME NEW R, NEW S, NEW M, NEW N, Backed(R, M), Backed(S, N)
  PROVE  Backed(R \cup S, M \cup N)
BY DEF Backed

Undoing(s) == (pc[s] \in Entered /\ call[s].rev) => \E r \in Visible(s) : Cancels(call[s], r)
Told(s) ==
  /\ pc[s] \in Working => answer[s] = None
  /\ answer[s] # None => \E r \in Visible(s) : r.id = answer[s] /\ SameKey(r, call[s])
\* A transaction that has ended has left nothing uncommitted.
Ended(s) == (pc[s] \in {"idle", "reread"} \/ (pc[s] = "publish" /\ mode[s] = "own")) => wrote[s] = {}

BookInv ==
  /\ Numbered /\ IdOnce /\ KeyOnce
  /\ Backed(rows, reversed)
  /\ \A s \in Sessions : /\ Backed(Visible(s), reversed \cup marks[s])
                         /\ Undoing(s) /\ Told(s) /\ Ended(s)

\* What the others see grows with the commits of a session.
LEMMA OthersBooks ==
  ASSUME TypeInv, BookInv, NEW s \in Sessions, Request(s) \/ Step(s) \/ Abort(s),
         NEW t \in Sessions \ {s},
         \/ UNCHANGED <<rows, reversed>>
         \/ rows' = rows \cup wrote[s] /\ reversed' = reversed \cup marks[s]
  PROVE  (Backed(Visible(t), reversed \cup marks[t]) /\ Undoing(t) /\ Told(t) /\ Ended(t))'
<1> USE DEF TypeInv
<1>1. /\ pc'[t] = pc[t] /\ call'[t] = call[t] /\ mode'[t] = mode[t] /\ answer'[t] = answer[t]
      /\ wrote'[t] = wrote[t] /\ marks'[t] = marks[t]
  BY OthersWait, OthersUntouched
<1>2. Visible(t) \subseteq Visible(t)'
  BY <1>1 DEF Visible
<1>3. Undoing(t)' /\ Told(t)' /\ Ended(t)'
  BY <1>1, <1>2 DEF BookInv, Undoing, Told, Ended
<1>4. Backed(Visible(t), reversed \cup marks[t])'
  <2>1. CASE UNCHANGED <<rows, reversed>>
    BY <1>1, <2>1 DEF BookInv, Visible, Backed
  <2>2. CASE rows' = rows \cup wrote[s] /\ reversed' = reversed \cup marks[s]
    <3>1. Backed(Visible(s) \cup Visible(t), (reversed \cup marks[s]) \cup (reversed \cup marks[t]))
      BY BackedUnion DEF BookInv
    <3>2. /\ Visible(t)' = Visible(s) \cup Visible(t)
          /\ (reversed \cup marks[t])' = (reversed \cup marks[s]) \cup (reversed \cup marks[t])
      BY <1>1, <2>2 DEF Visible
    <3>3. QED
      BY <3>1, <3>2 DEF Backed
  <2>3. QED
    BY <2>1, <2>2
<1>5. QED
  BY <1>3, <1>4

\* A step keeps the books, and what the session was told is true of them.
LEMMA StepBooks ==
  ASSUME TypeInv, BookInv, NEW s \in Sessions, Request(s) \/ Step(s) \/ Abort(s)
  PROVE  BookInv'
<1> USE DEF TypeInv
<1> DEFINE Mine == Backed(Visible(s), reversed \cup marks[s]) /\ Undoing(s) /\ Told(s) /\ Ended(s)
<1>1. Numbered' /\ IdOnce' /\ KeyOnce'
  BY StepNumbers, StepKeyOnce DEF BookInv
<1>2. ASSUME Backed(rows, reversed)', Mine',
             \/ UNCHANGED <<rows, reversed>>
             \/ rows' = rows \cup wrote[s] /\ reversed' = reversed \cup marks[s]
      PROVE  BookInv'
  BY <1>1, <1>2, OthersBooks DEF BookInv
<1>3. CASE Undone(s)
  <2>1. /\ UNCHANGED <<rows, reversed, mode, call>> /\ wrote'[s] = {} /\ marks'[s] = {}
        /\ pc'[s] \in {"idle", "reread"} /\ answer'[s] = None
    BY <1>3 DEF Undone, ForgetWrites, TypeOK, BookInv, Told
  <2>2. Backed(rows, reversed)' /\ Visible(s)' = rows /\ (reversed \cup marks[s])' = reversed
    BY <2>1 DEF BookInv, Backed, Visible
  <2>3. Backed(Visible(s), reversed \cup marks[s])'
    BY <2>2 DEF BookInv, Backed
  <2>4. Undoing(s)' /\ Told(s)' /\ Ended(s)'
    BY <2>1 DEF Undoing, Told, Ended, Entered
  <2>5. QED
    BY <1>2, <2>1, <2>2, <2>3, <2>4
<1>4. CASE Committing(s)
  <2>1. /\ rows' = rows \cup wrote[s] /\ reversed' = reversed \cup marks[s]
        /\ wrote'[s] = {} /\ marks'[s] = {}
        /\ call' = call /\ answer' = answer /\ pc'[s] \in {"idle", "publish"}
    BY <1>4 DEF Committing, Publishable, ForgetWrites, TypeOK
  <2>2. /\ Visible(s)' = Visible(s) /\ rows' = Visible(s)
        /\ (reversed \cup marks[s])' = reversed \cup marks[s]
    BY <2>1 DEF Visible
  <2>3. Backed(rows, reversed)' /\ Backed(Visible(s), reversed \cup marks[s])'
    BY <2>1, <2>2 DEF BookInv, Backed
  <2>4. Undoing(s)' /\ Told(s)' /\ Ended(s)'
    BY <2>1, <2>2 DEF BookInv, Undoing, Told, Ended, Entered, Working
  <2>5. QED
    BY <1>2, <2>1, <2>3, <2>4
<1>5. CASE Inserted(s)
  <2> DEFINE row == [id |-> <<s, calls[s]>>, key |-> call[s].key, rev |-> call[s].rev,
                     delta |-> call[s].delta]
             found == {r \in Visible(s) : row.rev /\ r.key = row.key /\ ~r.rev}
  <2>1. /\ UNCHANGED <<rows, reversed, mode, call>>
        /\ wrote' = [wrote EXCEPT ![s] = @ \cup {row}]
        /\ marks' = [marks EXCEPT ![s] = @ \cup {r.id : r \in found}]
        /\ answer' = [answer EXCEPT ![s] = row.id]
    BY <1>5 DEF Inserted, InsertRow
  <2>2. /\ Visible(s)' = Visible(s) \cup {row}
        /\ (reversed \cup marks[s])' = (reversed \cup marks[s]) \cup {r.id : r \in found}
        /\ answer'[s] = row.id
    BY <2>1 DEF Visible, TypeOK
  <2>3. row.rev => \E r \in found : Cancels(row, r)
    BY <1>5 DEF BookInv, Undoing, Inserted, Entered, Cancels
  <2>4. \A r \in found : row.rev /\ ~r.rev /\ row.key = r.key /\ r \in Visible(s)
    OBVIOUS
  <2>5. SameKey(row, call[s])
    BY DEF SameKey
  <2> HIDE DEF row, found
  <2>6. Backed(Visible(s), reversed \cup marks[s])'
    <3>1. Backed(Visible(s), reversed \cup marks[s])
      BY DEF BookInv
    <3>2. \A r \in found : r.id \in (reversed \cup marks[s])'
      BY <2>2
    <3>3. \A q \in Visible(s)' : q.rev =>
             \E r \in Visible(s)' : Cancels(q, r) /\ r.id \in (reversed \cup marks[s])'
      BY <2>2, <2>3, <2>4, <3>1, <3>2 DEF Backed
    <3>4. \A i \in (reversed \cup marks[s])' :
             \E q, r \in Visible(s)' : q.rev /\ ~r.rev /\ q.key = r.key /\ r.id = i
      BY <2>2, <2>4, <3>1 DEF Backed
    <3>5. QED
      BY <3>3, <3>4 DEF Backed
  <2>7. Backed(rows, reversed)'
    BY <2>1 DEF BookInv, Backed
  <2>8. Undoing(s)' /\ Told(s)' /\ Ended(s)'
    <3>1. pc'[s] \notin Working \cup Entered /\ pc'[s] \notin {"idle", "reread"}
          /\ (pc'[s] = "publish" => mode'[s] # "own")
      BY <1>5, <2>1 DEF Inserted, Working, Entered
    <3>2. QED
      BY <2>1, <2>2, <2>5, <3>1 DEF Undoing, Told, Ended
  <2>9. QED
    BY <1>2, <2>1, <2>6, <2>7, <2>8
<1>6. CASE Waiting(s)
  <2>1. UNCHANGED <<rows, reversed, wrote, marks>> /\ Visible(s)' = Visible(s)
    BY <1>6 DEF Waiting, Unwritten, Visible
  <2>2. Backed(rows, reversed)' /\ Backed(Visible(s), reversed \cup marks[s])'
    BY <2>1 DEF BookInv, Backed
  <2>3. Undoing(s) /\ Told(s) /\ Ended(s)
    BY DEF BookInv
  <2>4. Undoing(s)' /\ Told(s)' /\ Ended(s)'
    <3>1. CASE Admitted(s)
      BY <2>1, <2>3, <3>1 DEF Admitted, Undoing, Told, Ended, Working, Entered
    <3>2. CASE Original(s)
      BY <2>1, <2>3, <3>2 DEF Original, Undoing, Told, Ended, Working, Entered
    <3>3. CASE Moving(s)
      BY <2>1, <2>3, <3>3 DEF Moving, Undoing, Told, Ended, Working, Entered
    <3>4. CASE Answering(s)
      BY <2>1, <2>3, <3>4 DEF Answering, Undoing, Told, Ended, Working, Entered
    <3>5. CASE GivingUp(s) \/ Publishing(s)
      BY <2>1, <2>3, <3>5 DEF GivingUp, Publishing, Undoing, Told, Ended, Working, Entered
    <3>6. QED
      BY <1>6, <3>1, <3>2, <3>3, <3>4, <3>5 DEF Waiting
  <2>5. QED
    BY <1>2, <2>1, <2>2, <2>4
<1>7. QED
  BY <1>3, <1>4, <1>5, <1>6, StepsHaveEffects DEF Effect

\* The books hold in every interleaving of posts, reversals, commits and aborts.
THEOREM BooksHold == Spec => []BookInv
<1>1. Init => BookInv
  BY DEF Init, BookInv, Numbered, IdOnce, KeyOnce, Uncommitted, Visible, Backed, Undoing, Told, Ended,
         Entered, Working
<1>2. TypeInv /\ BookInv /\ [Next]_vars => BookInv'
  <2>1. ASSUME TypeInv, BookInv, NEW s \in Sessions, Request(s) \/ Step(s) \/ Abort(s)
        PROVE  BookInv'
    BY <2>1, StepBooks
  <2>2. BookInv /\ UNCHANGED vars => BookInv'
    BY DEF BookInv, Numbered, IdOnce, KeyOnce, Uncommitted, Visible, Backed, Undoing, Told, Ended,
           SameKey, vars, tables, writes, request
  <2>3. QED
    BY <2>1, <2>2 DEF Next
<1>3. QED
  BY <1>1, <1>2, TypeCorrect, PTL DEF Spec

\* A row is REVERSED exactly when its reversal is in the journal, and the reversal
\* moves back what the original moved (reverse and its concurrent retries).
THEOREM ReversalsAreExact == Spec => []ReversedIffReversal
<1>1. TypeOK /\ BookInv => ReversedIffReversal
  <2> SUFFICES ASSUME TypeOK, BookInv PROVE ReversedIffReversal
    OBVIOUS
  <2>1. Backed(rows, reversed)
    BY DEF BookInv
  <2>2. ASSUME NEW r \in rows, ~r.rev, r.id \in reversed
        PROVE  \E q \in rows : q.rev /\ q.key = r.key
    <3>1. PICK q \in rows, o \in rows : q.rev /\ ~o.rev /\ q.key = o.key /\ o.id = r.id
      BY <2>1, <2>2 DEF Backed
    <3>2. o = r
      BY <3>1 DEF BookInv, IdOnce
    <3>3. QED
      BY <3>1, <3>2
  <2>3. ASSUME NEW r \in rows, ~r.rev, NEW q \in rows, q.rev, q.key = r.key
        PROVE  r.id \in reversed
    <3>1. PICK o \in rows : Cancels(q, o) /\ o.id \in reversed
      BY <2>1, <2>3 DEF Backed
    <3>2. SameKey(o, r)
      BY <2>3, <3>1 DEF TypeOK, Row, Cancels, SameKey
    <3>3. QED
      BY <3>1, <3>2 DEF BookInv, KeyOnce
  <2>4. \A q \in rows : q.rev => \E r \in rows : Cancels(q, r)
    BY <2>1 DEF Backed
  <2>5. QED
    BY <2>2, <2>3, <2>4 DEF ReversedIffReversal, Cancels
<1>2. QED
  BY <1>1, BooksHold, TypesHold, PTL

\* Whoever is told that a posting is done, or announces it from a transaction of its
\* own, finds it committed under the key asked for, also after a unique violation
\* and a retry (post, reverse).
THEOREM AnswersAreTrue == Spec => []AnswerIsPosted
<1>1. BookInv => AnswerIsPosted
  BY DEF BookInv, Told, Ended, AnswerIsPosted, Answered, Visible
<1>2. QED
  BY <1>1, BooksHold, PTL

-----------------------------------------------------------------------------
(* What a transaction is about to commit: rows of its own that sum to      *)
(* zero, and their sum per account, which is what its commit adds to the   *)
(* balances.                                                               *)

SumsToZero(d) == SumFunctionOnSet(d, Accounts) = 0
Zeroes ==
  /\ \A r \in rows \cup Uncommitted : SumsToZero(r.delta)
  /\ \A s \in Sessions : pc[s] \notin {"idle", "open"} => SumsToZero(call[s].delta)

\* What the rows R move of account a.
Moved(R, a) == SumFunctionOnSet([r \in R |-> r.delta[a]], R)
Written == \A s \in Sessions :
  /\ IsFiniteSet(wrote[s])
  /\ \A r \in wrote[s] : r \notin rows /\ r.id[1] = s
  /\ \A a \in Accounts : pend[s][a] = Moved(wrote[s], a)

PostInv == Zeroes /\ Written

LEMMA NoMovementIsZero == SumsToZero(NoMovement)
BY SumOfZeros DEF SumsToZero, NoMovement

LEMMA NegatedIsZero ==
  ASSUME NEW d \in [Accounts -> Int], SumsToZero(d)
  PROVE  SumsToZero(Negated(d))
<1>1. \A a \in Accounts : d[a] \in Int /\ Negated(d)[a] = -d[a]
  BY DEF Negated
<1>2. SumFunctionOnSet(d, Accounts) + SumFunctionOnSet(Negated(d), Accounts) = 0
  BY <1>1, SumNegated
<1>3. SumFunctionOnSet(Negated(d), Accounts) \in Int
  BY <1>1, SumType
<1>4. QED
  BY <1>2, <1>3 DEF SumsToZero

LEMMA NothingMoved == \A a : Moved({}, a) = 0
BY SumOfNothing DEF Moved

\* One row more.
LEMMA MovedByOneMore ==
  ASSUME NEW R \in SUBSET Row, IsFiniteSet(R), NEW q \in Row, q \notin R, NEW a \in Accounts
  PROVE  Moved(R \cup {q}, a) = Moved(R, a) + q.delta[a]
<1> DEFINE T == R \cup {q}
           f == [r \in R |-> r.delta[a]]
           g == [r \in T |-> r.delta[a]]
<1>1. \A r \in T : g[r] = r.delta[a] /\ r.delta[a] \in Int
  BY DEF Row
<1>2. (\A r \in R : f[r] = g[r]) /\ (\A r \in T : g[r] \in Int) /\ q \in T
  BY <1>1
<1>3. g[q] = q.delta[a]
  BY <1>1
<1> HIDE DEF f, g
<1>4. SumFunctionOnSet(g, R \cup {q}) = SumFunctionOnSet(g, R) + g[q]
  BY <1>2, SumAdd
<1>5. SumFunctionOnSet(f, R) = SumFunctionOnSet(g, R)
  BY <1>2, SumSame
<1>6. QED
  BY <1>3, <1>4, <1>5 DEF f, g, Moved

\* A session that is past the start of a call holds a movement that sums to zero:
\* the one it posts or, of a reversal, the one it negates.
LEMMA CallsStayZero ==
  ASSUME TypeInv, Zeroes, NEW s \in Sessions, Request(s) \/ Step(s) \/ Abort(s),
         pc'[s] \notin {"idle", "open"}
  PROVE  SumsToZero(call'[s].delta)
<1> USE DEF TypeInv
<1>1. CASE pc[s] \notin {"idle", "open"} /\ call' = call
  BY <1>1 DEF Zeroes
<1>2. CASE Throw(s)
  BY <1>2 DEF Throw, Rollback, Goto, TypeOK
<1>3. CASE Request(s)
  <2>1. ASSUME NEW m \in {"own", "caller"}, NEW c \in Call, Admit(s, m, c), SumsToZero(c.delta)
        PROVE  SumsToZero(call'[s].delta)
    BY <2>1 DEF Admit, TypeOK
  <2>2. ASSUME NEW m \in {"own", "caller"}, NEW k \in Keys, Reverse(s, m, k)
        PROVE  SumsToZero(call'[s].delta)
    <3> DEFINE c == [key |-> k, rev |-> TRUE, delta |-> NoMovement]
    <3>1. c \in Call /\ c.delta = NoMovement
      BY MovementTypes DEF Call
    <3>2. Admit(s, m, c)
      BY <2>2 DEF Reverse
    <3> HIDE DEF c
    <3>3. QED
      BY <2>1, <3>1, <3>2, NoMovementIsZero
  <2>3. ASSUME NEW m \in {"own", "caller"}, NEW k \in Keys, NEW d \in Movements, Post(s, m, k, d)
        PROVE  SumsToZero(call'[s].delta)
    <3> DEFINE c == [key |-> k, rev |-> FALSE, delta |-> d]
    <3>1. c \in Call /\ c.delta = d
      BY DEF Call
    <3>2. Admit(s, m, c) /\ SumsToZero(d)
      BY <2>3 DEF Post, Normalised, SumsToZero
    <3> HIDE DEF c
    <3>3. QED
      BY <2>1, <3>1, <3>2
  <2>4. QED
    BY <1>2, <1>3, <2>2, <2>3 DEF Request, PostMalformed
<1>4. CASE ReadOriginal(s) /\ ~Throw(s)
  <2>1. PICK r \in Visible(s) : call' = [call EXCEPT ![s].delta = Negated(r.delta)]
    BY <1>4 DEF ReadOriginal
  <2>2. call[s] \in Call
    BY <1>4 DEF ReadOriginal, Shape
  <2>3. call'[s].delta = Negated(r.delta)
    BY <2>1, <2>2 DEF Call, TypeOK
  <2>4. r.delta \in [Accounts -> Int] /\ SumsToZero(r.delta)
    BY VisibleRows DEF Zeroes, Visible, Uncommitted, Row
  <2>5. QED
    BY <2>3, <2>4, NegatedIsZero
<1>5. CASE pc[s] \notin {"idle", "open"} /\ (UniqueViolation(s) \/ ReturnExisting(s))
  BY <1>1, <1>2, <1>5 DEF UniqueViolation, ReturnExisting, Rollback, request
<1>6. CASE PublishPosted(s) \/ CommitCaller(s)
  BY <1>6 DEF PublishPosted, CommitCaller, Goto, TypeOK
<1>7. CASE ReadKey(s) \/ EnsureAccount(s) \/ CreateAccount(s) \/ LockAccounts(s) \/ CheckBalances(s)
  BY <1>1, <1>2, <1>5, <1>7 DEF ReadKey, EnsureAccount, CreateAccount, LockAccounts, CheckBalances,
     request
<1>8. CASE Insert(s) \/ CommitOwn(s) \/ Reread(s)
  BY <1>1, <1>5, <1>8 DEF Insert, CommitOwn, Reread, request
<1>9. QED
  BY <1>2, <1>3, <1>4, <1>6, <1>7, <1>8 DEF Step, Abort, ReadOriginal, DeadlockVictim

\* What the others have written stays theirs.
LEMMA StepPosts ==
  ASSUME TypeInv, BookInv, PostInv, NEW s \in Sessions, Request(s) \/ Step(s) \/ Abort(s)
  PROVE  PostInv'
<1> USE DEF TypeInv
<1> DEFINE row == [id |-> <<s, calls[s]>>, key |-> call[s].key, rev |-> call[s].rev,
                   delta |-> call[s].delta]
           WrittenBy(t) == /\ IsFiniteSet(wrote[t])
                           /\ \A r \in wrote[t] : r \notin rows /\ r.id[1] = t
                           /\ \A a \in Accounts : pend[t][a] = Moved(wrote[t], a)
<1>1. \A t \in Sessions : pc'[t] \notin {"idle", "open"} => SumsToZero(call'[t].delta)
  BY CallsStayZero, OthersWait DEF PostInv, Zeroes
<1>2. \A t \in Sessions : WrittenBy(t)
  BY DEF PostInv, Written
<1>3. \A t \in Sessions : (\A r \in wrote[t] : r.id[1] = t) /\ wrote[t] \in SUBSET Row
  BY <1>2 DEF TypeOK
<1>4. CASE Undo(s)
  <2>1. /\ rows' = rows /\ wrote'[s] = {} /\ pend'[s] = NoMovement
        /\ \A t \in Sessions \ {s} : wrote'[t] = wrote[t] /\ pend'[t] = pend[t]
    BY <1>4 DEF Undo, ForgetWrites, TypeOK, tables
  <2>2. WrittenBy(s)'
    BY <2>1, NothingMoved, FS_EmptySet DEF NoMovement
  <2>3. \A t \in Sessions \ {s} : WrittenBy(t)'
    BY <1>2, <2>1
  <2>4. Written'
    BY <2>2, <2>3 DEF Written
  <2>5. rows' \cup Uncommitted' \subseteq rows \cup Uncommitted
    BY <2>1 DEF Uncommitted
  <2>6. QED
    BY <1>1, <2>4, <2>5 DEF PostInv, Zeroes
<1>5. CASE Commit(s)
  <2>1. /\ rows' = rows \cup wrote[s] /\ wrote'[s] = {} /\ pend'[s] = NoMovement
        /\ \A t \in Sessions \ {s} : wrote'[t] = wrote[t] /\ pend'[t] = pend[t]
    BY <1>5 DEF Commit, Publishable, ForgetWrites, TypeOK
  <2>2. WrittenBy(s)'
    BY <2>1, NothingMoved, FS_EmptySet DEF NoMovement
  <2>3. ASSUME NEW t \in Sessions \ {s}
        PROVE  WrittenBy(t)'
    <3>1. \A r \in wrote[t] : r \notin rows \cup wrote[s]
      BY <1>2, <1>3
    <3>2. QED
      BY <1>2, <2>1, <3>1
  <2>4. Written'
    BY <2>2, <2>3 DEF Written
  <2>5. rows' \cup Uncommitted' \subseteq rows \cup Uncommitted
    BY <2>1 DEF Uncommitted
  <2>6. QED
    BY <1>1, <2>4, <2>5 DEF PostInv, Zeroes
<1>6. CASE InsertNew(s)
  <2>1. call[s] \in Call /\ SumsToZero(call[s].delta)
    BY <1>6 DEF InsertNew, Shape, PostInv, Zeroes
  <2>2. row \in Row /\ row.id[1] = s /\ row.delta = call[s].delta /\ SameKey(row, call[s])
    BY <1>6, <2>1 DEF InsertNew, Shape, Row, Call, Ids, SameKey
  <2>3. /\ rows' = rows /\ wrote' = [wrote EXCEPT ![s] = @ \cup {row}]
        /\ pend' = [pend EXCEPT ![s] = [a \in Accounts |-> pend[s][a] + row.delta[a]]]
    BY <1>6 DEF InsertNew, InsertRow, tables
  <2>4. row \notin rows \cup wrote[s]
    BY <1>6, <2>2 DEF InsertNew, HasKey, Visible
  <2> HIDE DEF row
  <2>5. /\ wrote'[s] = wrote[s] \cup {row}
        /\ \A a \in Accounts : pend'[s][a] = pend[s][a] + row.delta[a]
        /\ \A t \in Sessions \ {s} : wrote'[t] = wrote[t] /\ pend'[t] = pend[t]
    BY <2>3 DEF TypeOK
  <2>6. WrittenBy(s)'
    <3>1. IsFiniteSet(wrote[s] \cup {row})
      BY <1>2, FS_AddElement
    <3>2. \A r \in wrote[s] \cup {row} : r \notin rows /\ r.id[1] = s
      BY <1>2, <2>2, <2>4
    <3>3. ASSUME NEW a \in Accounts
          PROVE  pend'[s][a] = Moved(wrote'[s], a)
      <4>1. IsFiniteSet(wrote[s]) /\ wrote[s] \in SUBSET Row /\ row \notin wrote[s]
        BY <1>2, <1>3, <2>4
      <4>2. Moved(wrote[s] \cup {row}, a) = Moved(wrote[s], a) + row.delta[a]
        BY <2>2, <4>1, MovedByOneMore
      <4>3. pend[s][a] = Moved(wrote[s], a)
        BY <1>2
      <4>4. pend'[s][a] = pend[s][a] + row.delta[a] /\ wrote'[s] = wrote[s] \cup {row}
        BY <2>5
      <4>5. QED
        BY ONLY <4>2, <4>3, <4>4
    <3>4. QED
      BY <2>3, <2>5, <3>1, <3>2, <3>3
  <2>7. \A t \in Sessions \ {s} : WrittenBy(t)'
    BY <1>2, <2>3, <2>5
  <2>8. Written'
    BY <2>6, <2>7 DEF Written
  <2>9. rows' \cup Uncommitted' \subseteq rows \cup Uncommitted \cup {row}
    BY <2>3, <2>5 DEF Uncommitted
  <2>10. \A r \in rows' \cup Uncommitted' : SumsToZero(r.delta)
    BY <2>1, <2>2, <2>9 DEF PostInv, Zeroes
  <2>11. QED
    BY <1>1, <2>8, <2>10 DEF PostInv, Zeroes
<1>7. CASE Quiet(s)
  <2>1. rows' = rows /\ wrote' = wrote /\ pend' = pend
    BY <1>7 DEF Quiet, tables
  <2>2. Written'
    BY <2>1 DEF PostInv, Written
  <2>3. QED
    BY <1>1, <2>1, <2>2 DEF PostInv, Zeroes, Uncommitted
<1>8. QED
  BY <1>4, <1>5, <1>6, <1>7, StepEffects

THEOREM PostsHold == Spec => []PostInv
<1>1. Init => PostInv
  BY NothingMoved, FS_EmptySet DEF Init, PostInv, Zeroes, Written, Uncommitted, NoMovement
<1>2. TypeInv /\ BookInv /\ PostInv /\ [Next]_vars => PostInv'
  <2>1. ASSUME TypeInv, BookInv, PostInv, NEW s \in Sessions, Request(s) \/ Step(s) \/ Abort(s)
        PROVE  PostInv'
    BY <2>1, StepPosts
  <2>2. PostInv /\ UNCHANGED vars => PostInv'
    BY DEF PostInv, Zeroes, Written, Uncommitted, vars, tables, writes, request
  <2>3. QED
    BY <2>1, <2>2 DEF Next
<1>3. QED
  BY <1>1, <1>2, TypeCorrect, BooksHold, PTL DEF Spec

-----------------------------------------------------------------------------
(* The promise of AtomicLedger.  Every statement but a commit leaves the   *)
(* journal and the balances as they are; a commit appends its rows.        *)

Posting(r) == [key |-> r.key, rev |-> r.rev, delta |-> r.delta]

LEMMA JournalPostings == Journal = {Posting(r) : r \in rows}
BY DEF Journal, Posting

\* The sums of the promise are those of this module.
LEMMA SamePromise ==
  /\ \A f, S : Promise!SumFunctionOnSet(f, S) = SumFunctionOnSet(f, S)
  /\ \A f : Promise!SumFunction(f) = SumFunction(f)
BY Zenon DEF Promise!SumFunctionOnSet, Promise!SumFunction, Promise!FoldFunctionOnSet,
   Promise!MapThenFoldSet, SumFunctionOnSet, SumFunction, FoldFunctionOnSet, MapThenFoldSet

\* What a set of postings moves is what their rows move.
LEMMA MovedByPostings ==
  ASSUME NEW R \in SUBSET Row, IsFiniteSet(R), NEW a \in Accounts,
         \A r, q \in R : SameKey(r, q) => r = q
  PROVE  SumFunction([p \in {Posting(r) : r \in R} |-> p.delta[a]]) = Moved(R, a)
<1> DEFINE B == {Posting(r) : r \in R}
           f == [r \in R |-> r.delta[a]]
           g == [p \in B |-> p.delta[a]]
           h == [r \in R |-> Posting(r)]
<1>1. \A r \in R : h[r] = Posting(r) /\ h[r] \in B
  OBVIOUS
<1>2. \A r \in R : f[r] \in Int /\ g[h[r]] = f[r]
  <2>1. \A r \in R : r.delta[a] \in Int /\ Posting(r).delta = r.delta
    BY DEF Row, Posting
  <2>2. QED
    BY <1>1, <2>1
<1>3. \A r, q \in R : h[r] = h[q] => r = q
  BY <1>1 DEF Posting, SameKey
<1>4. {h[r] : r \in R} = B
  BY <1>1
<1>5. SumFunctionOnSet(g, B) = SumFunctionOnSet(f, R)
  <2> HIDE DEF B, f, g, h
  <2>1. QED
    BY <1>2, <1>3, <1>4, SumOverImages
<1>6. DOMAIN g = B
  OBVIOUS
<1> HIDE DEF B, f, g
<1>7. SumFunction(g) = SumFunctionOnSet(f, R)
  BY <1>5, <1>6 DEF SumFunction
<1>8. QED
  BY <1>7 DEF B, f, g, Moved

\* A commit that wrote something is an append of the promise.
LEMMA CommitAppends ==
  ASSUME TypeInv, TypeInv', BookInv, BookInv', PostInv, NoOverdraft',
         NEW s \in Sessions, Commit(s), wrote[s] # {}
  PROVE  Promise!Apply
<1> USE DEF TypeInv
<1> DEFINE batch == {Posting(r) : r \in wrote[s]}
<1>1. /\ rows' = rows \cup wrote[s]
      /\ balance' = [a \in Accounts |-> balance[a] + pend[s][a]]
  BY DEF Commit, Publishable
<1>2. /\ wrote[s] \in SUBSET Row /\ IsFiniteSet(wrote[s])
      /\ \A r \in wrote[s] : r \notin rows /\ SumsToZero(r.delta)
      /\ \A a \in Accounts : pend[s][a] = Moved(wrote[s], a)
  BY DEF TypeOK, PostInv, Written, Zeroes, Uncommitted
<1>3. \A r, q \in rows' : SameKey(r, q) => r = q
  BY DEF BookInv, KeyOnce
<1>4. \A r, q \in rows' : Posting(r) = Posting(q) => r = q
  BY <1>3 DEF Posting, SameKey
<1>5. Journal' = {Posting(r) : r \in rows'}
  BY DEF Journal, Posting
<1>6. Journal' \ Journal = batch /\ Journal \subseteq Journal' /\ batch # {}
  <2>1. \A r \in wrote[s] : Posting(r) \notin Journal
    BY <1>1, <1>2, <1>4, JournalPostings
  <2>2. \A p \in Journal' : p \in Journal \/ p \in batch
    BY <1>1, <1>5, JournalPostings
  <2>3. batch \subseteq Journal' /\ Journal \subseteq Journal'
    BY <1>1, <1>5, JournalPostings
  <2>4. QED
    BY <2>1, <2>2, <2>3
<1>7. ASSUME NEW p \in batch
      PROVE  Promise!Balanced(p) /\ Promise!Fits(p, Journal')
  <2>1. PICK r \in wrote[s] : p = Posting(r)
    OBVIOUS
  <2>2. r \in rows' /\ r \in Row /\ SumsToZero(r.delta)
    BY <1>1, <1>2
  <2>3. p.key = r.key /\ p.rev = r.rev /\ p.delta = r.delta
    BY <2>1 DEF Posting
  <2>4. Promise!Balanced(p)
    BY <2>2, <2>3, SamePromise DEF Promise!Balanced, SumsToZero
  <2>5. ASSUME NEW q \in Journal', q.key = p.key, q.rev = p.rev
        PROVE  q = p
    <3>1. PICK o \in rows' : q = Posting(o)
      BY <1>5
    <3>2. o.key = q.key /\ o.rev = q.rev
      BY <3>1 DEF Posting
    <3>3. SameKey(o, r)
      BY <2>3, <2>5, <3>2 DEF SameKey
    <3>4. o = r
      BY <1>3, <2>2, <3>3
    <3>5. QED
      BY <2>1, <3>1, <3>4
  <2>6. ASSUME p.rev
        PROVE  \E o \in Journal' : /\ o.key = p.key /\ ~o.rev
                                   /\ \A a \in Accounts : p.delta[a] = -o.delta[a]
    <3>1. PICK o \in rows' : Cancels(r, o)
      BY <2>2, <2>3, <2>6 DEF BookInv, Backed
    <3>2. Posting(o) \in Journal' /\ Posting(o).key = o.key /\ Posting(o).rev = o.rev
          /\ Posting(o).delta = o.delta
      BY <1>5 DEF Posting
    <3>3. \A a \in Accounts : r.delta[a] = -o.delta[a]
      BY <3>1 DEF Cancels, Negated
    <3>4. QED
      BY <2>3, <3>1, <3>2, <3>3 DEF Cancels
  <2> HIDE DEF batch
  <2>7. QED
    BY <2>4, <2>5, <2>6 DEF Promise!Fits
<1>8. balance' = [a \in Accounts |-> balance[a] + Promise!SumFunction([p \in batch |-> p.delta[a]])]
  <2>1. \A r, q \in wrote[s] : SameKey(r, q) => r = q
    BY <1>1, <1>3
  <2>2. ASSUME NEW a \in Accounts
        PROVE  pend[s][a] = Promise!SumFunction([p \in batch |-> p.delta[a]])
    <3>1. SumFunction([p \in batch |-> p.delta[a]]) = Moved(wrote[s], a)
      BY <1>2, <2>1, MovedByPostings
    <3>2. QED
      BY <1>2, <3>1, SamePromise
  <2> HIDE DEF batch
  <2>3. QED
    BY <1>1, <2>2
<1>9. \A a \in UserAccounts : balance'[a] >= 0
  BY DEF NoOverdraft
<1> HIDE DEF batch
<1>10. QED
  BY <1>6, <1>7, <1>8, <1>9 DEF Promise!Apply

\* The statements of concurrent sessions, their locks, retries and rollbacks
\* implement the promise: each commit appends its postings at once, balanced, under
\* keys of their own, reversals exact and nobody overdrawn (postIn, reverse).
THEOREM KeepsThePromise == Spec => ImplementsPromise
<1>1. Init => Promise!Init
  BY DEF Init, Promise!Init, Journal, NoMovement
<1>2. ASSUME TypeInv, TypeInv', BookInv, BookInv', PostInv, NoOverdraft', [Next]_vars
      PROVE  [Promise!Apply]_<<Journal, balance>>
  <2>1. CASE UNCHANGED <<rows, balance>>
    BY <2>1 DEF Journal
  <2>2. ASSUME NEW s \in Sessions, Commit(s), wrote[s] = {}
        PROVE  UNCHANGED <<rows, balance>>
    <3>1. rows' = rows /\ balance' = [a \in Accounts |-> balance[a] + pend[s][a]]
      BY <2>2 DEF Commit, Publishable
    <3>2. ASSUME NEW a \in Accounts
          PROVE  pend[s][a] = 0
      <4>1. pend[s][a] = Moved(wrote[s], a)
        BY <1>2 DEF PostInv, Written
      <4>2. QED
        BY <2>2, <4>1, NothingMoved
    <3>3. balance \in [Accounts -> Int]
      BY <1>2 DEF TypeInv, TypeOK
    <3>4. QED
      BY <3>1, <3>2, <3>3
  <2>3. ASSUME NEW s \in Sessions, Request(s) \/ Step(s) \/ Abort(s)
        PROVE  Promise!Apply \/ UNCHANGED <<rows, balance>>
    <3>1. Undo(s) \/ Commit(s) \/ InsertNew(s) \/ Quiet(s)
      BY <1>2, <2>3, StepEffects DEF TypeInv
    <3>2. QED
      BY <1>2, <2>2, <3>1, CommitAppends DEF Undo, InsertNew, Quiet, tables
  <2>4. QED
    BY <1>2, <2>1, <2>3 DEF Next, vars, tables
<1>3. QED
  BY <1>1, <1>2, TypeCorrect, BooksHold, PostsHold, UsersAreNeverOverdrawn, PTL
     DEF Spec, ImplementsPromise, Promise!Spec

-----------------------------------------------------------------------------
(* Deadlocks.  A posting in a transaction of its own takes its locks after *)
(* everything it writes is known and before it writes: at every moment the *)
(* rows it holds rank below those it still asks for.                       *)

Held(s) == {a \in Accounts : lock[a] = s}
InOrder(s) == \A a \in Held(s), b \in ToLock(s) : Rank[a] < Rank[b]
Unlocked(s) == \/ pc[s] \in {"idle", "reread"}
               \/ mode[s] = "own" /\ pc[s] \in {"original", "read", "ensure", "create", "publish"}
Unwriting(s) == \/ pc[s] \in {"idle", "reread"}
                \/ mode[s] = "own" /\ pc[s] \in Working \cup {"publish"}

OrderOf(s) == /\ Unlocked(s) => Held(s) = {}
              /\ Unwriting(s) => wrote[s] = {}
              /\ (mode[s] = "own" /\ pc[s] = "lock") => InOrder(s)
OrderInv == \A s \in Sessions : OrderOf(s)

\* The lowest of the rows still to be locked is one of them.
LEMMA NextIsLowest ==
  ASSUME NEW s \in Sessions, ToLock(s) # {}
  PROVE  /\ NextToLock(s) \in ToLock(s) /\ NextToLock(s) \in Accounts
         /\ \A b \in ToLock(s) : Rank[NextToLock(s)] <= Rank[b]
<1> DEFINE depth == [a \in Accounts |-> -Rank[a]]
<1>1. ToLock(s) \subseteq Accounts
  BY DEF ToLock, Touched
<1>2. IsFiniteSet(ToLock(s)) /\ \A a \in ToLock(s) : depth[a] \in Int
  BY <1>1, FS_Subset
<1>3. PICK a \in ToLock(s) : \A b \in ToLock(s) : depth[b] <= depth[a]
  <2> HIDE DEF depth
  <2>1. QED
    BY <1>2, Highest
<1>4. ASSUME NEW b \in ToLock(s)
      PROVE  Rank[a] <= Rank[b]
  <2>1. a \in Accounts /\ b \in Accounts
    BY <1>1
  <2>2. depth[a] = -Rank[a] /\ depth[b] = -Rank[b] /\ Rank[a] \in Int /\ Rank[b] \in Int
    BY <2>1
  <2>3. depth[b] <= depth[a]
    BY <1>3
  <2> HIDE DEF depth
  <2>4. QED
    BY <2>2, <2>3
<1>5. QED
  BY <1>1, <1>3, <1>4 DEF NextToLock

\* A session takes and gives up its own locks only.
LEMMA OthersLocks ==
  ASSUME TypeOK, NEW s \in Sessions, Request(s) \/ Step(s) \/ Abort(s),
         NEW t \in Sessions \ {s}
  PROVE  Held(t)' = Held(t)
<1> USE DEF Held
<1>1. CASE Throw(s) \/ UniqueViolation(s)
  BY <1>1 DEF Throw, UniqueViolation, Rollback, ForgetWrites
<1>2. CASE UNCHANGED lock
  BY <1>2
<1>3. CASE Request(s)
  BY <1>1, <1>3 DEF Request, Reverse, Post, PostMalformed
<1>4. CASE CommitOwn(s) \/ CommitCaller(s)
  BY <1>4 DEF CommitOwn, CommitCaller, ForgetWrites
<1>5. CASE LockAccounts(s)
  <2>1. CASE lock[NextToLock(s)] = None /\ lock' = [lock EXCEPT ![NextToLock(s)] = s]
    BY <2>1 DEF TypeOK
  <2>2. QED
    BY <1>2, <1>5, <2>1 DEF LockAccounts
<1>6. CASE ReadOriginal(s) \/ ReadKey(s) \/ EnsureAccount(s) \/ CreateAccount(s) \/ CheckBalances(s)
  BY <1>1, <1>6 DEF ReadOriginal, ReadKey, ReturnExisting, EnsureAccount, CreateAccount, CheckBalances
<1>7. CASE Insert(s) \/ PublishPosted(s) \/ Reread(s)
  BY <1>1, <1>7 DEF Insert, PublishPosted, Reread
<1>8. QED
  BY <1>1, <1>3, <1>4, <1>5, <1>6, <1>7 DEF Step, Abort, DeadlockVictim

\* What keeps a session in order: it gives up everything, or it moves on without
\* taking a lock or writing a row.
LEMMA EndOrders ==
  ASSUME TypeOK, NEW s \in Sessions, ForgetWrites(s), pc'[s] # "lock"
  PROVE  OrderOf(s)'
<1>1. wrote'[s] = {}
  BY DEF ForgetWrites, TypeOK
<1>2. Held(s)' = {}
  BY DEF ForgetWrites, Held
<1>3. QED
  BY <1>1, <1>2 DEF OrderOf

LEMMA ThrowOrders ==
  ASSUME TypeOK, NEW s \in Sessions, Throw(s) \/ UniqueViolation(s)
  PROVE  OrderOf(s)'
<1>1. ForgetWrites(s) /\ pc'[s] # "lock"
  BY DEF Throw, UniqueViolation, Rollback, Goto, TypeOK
<1>2. QED
  BY <1>1, EndOrders

LEMMA MoveOrders ==
  ASSUME NEW s \in Sessions, OrderOf(s), lock' = lock, wrote' = wrote,
         Unlocked(s)' => Unlocked(s), Unwriting(s)' => Unwriting(s),
         (mode'[s] = "own" /\ pc'[s] = "lock") => Unlocked(s)
  PROVE  OrderOf(s)'
<1>1. Held(s)' = Held(s) /\ wrote'[s] = wrote[s]
  BY DEF Held
<1>2. QED
  BY <1>1 DEF OrderOf, InOrder

LEMMA StepOrders ==
  ASSUME TypeInv, OrderInv, NEW s \in Sessions, Request(s) \/ Step(s) \/ Abort(s)
  PROVE  OrderOf(s)'
<1> USE DEF TypeInv
<1>0. OrderOf(s)
  BY DEF OrderInv
<1>1. CASE Request(s)
  <2>1. CASE \E d \in Movements : PostMalformed(s, d)
    BY <2>1, ThrowOrders DEF PostMalformed
  <2>2. ASSUME NEW m \in {"own", "caller"}, NEW c, NEW label \in {"read", "original"},
               Admit(s, m, c), Goto(s, label), UNCHANGED <<tables, events, lock, want, writes>>
        PROVE  OrderOf(s)'
    <3>1. lock' = lock /\ wrote' = wrote /\ mode'[s] = m /\ pc'[s] = label
      BY <2>2 DEF writes, Admit, Goto, TypeOK
    <3>2. m = "own" => pc[s] = "idle"
      BY <2>2 DEF Admit
    <3>3. QED
      BY <1>0, <3>1, <3>2, MoveOrders DEF Unlocked, Unwriting
  <2>3. QED
    BY <1>1, <2>1, <2>2 DEF Request, Reverse, Post
<1>2. CASE ReturnExisting(s)
  <2>1. lock' = lock /\ wrote' = wrote /\ pc'[s] \in {"commitExisting", "open"}
    BY <1>2 DEF ReturnExisting, Goto, writes, TypeOK
  <2>2. QED
    BY <1>0, <2>1, MoveOrders DEF Unlocked, Unwriting, Working
<1>3. CASE Throw(s) \/ UniqueViolation(s)
  BY <1>3, ThrowOrders
<1>4. CASE ReadOriginal(s) /\ ~Throw(s)
  <2>1. lock' = lock /\ wrote' = wrote /\ mode' = mode /\ pc[s] = "original" /\ pc'[s] = "read"
    BY <1>4 DEF ReadOriginal, Goto, writes, TypeOK
  <2>2. QED
    BY <1>0, <2>1, MoveOrders DEF Unlocked, Unwriting, Working
<1>5. CASE ReadKey(s) /\ ~ReturnExisting(s)
  <2>1. lock' = lock /\ wrote' = wrote /\ mode' = mode /\ pc[s] = "read" /\ pc'[s] = "ensure"
    BY <1>5 DEF ReadKey, Goto, writes, request, TypeOK
  <2>2. QED
    BY <1>0, <2>1, MoveOrders DEF Unlocked, Unwriting, Working
<1>6. CASE EnsureAccount(s)
  <2>1. lock' = lock /\ wrote' = wrote /\ mode' = mode /\ pc[s] = "ensure"
        /\ pc'[s] \in {"lock", "create"}
    BY <1>6 DEF EnsureAccount, Goto, writes, request, TypeOK
  <2>2. QED
    BY <1>0, <2>1, MoveOrders DEF Unlocked, Unwriting, Working
<1>7. CASE CreateAccount(s) /\ ~UniqueViolation(s)
  <2>1. lock' = lock /\ wrote' = wrote /\ mode' = mode /\ pc[s] = "create" /\ pc'[s] = "ensure"
    BY <1>7 DEF CreateAccount, Goto, request, TypeOK
  <2>2. QED
    BY <1>0, <2>1, MoveOrders DEF Unlocked, Unwriting, Working
<1>8. CASE LockAccounts(s)
  <2>1. wrote' = wrote /\ mode' = mode /\ call' = call /\ pc[s] = "lock"
    BY <1>8 DEF LockAccounts, writes, request
  <2>2. CASE Goto(s, "check") /\ UNCHANGED lock
    <3>1. pc'[s] = "check"
      BY <2>2 DEF Goto, TypeOK
    <3>2. QED
      BY <1>0, <2>1, <2>2, <3>1, MoveOrders DEF Unlocked, Unwriting, Working
  <2>3. CASE /\ ToLock(s) # {} /\ UNCHANGED pc
             /\ lock' = [lock EXCEPT ![NextToLock(s)] = s]
    <3> DEFINE n == NextToLock(s)
    <3>1. n \in ToLock(s) /\ n \in Accounts /\ \A b \in ToLock(s) : Rank[n] <= Rank[b]
      BY <2>3, NextIsLowest
    <3> HIDE DEF n
    <3>2. lock' = [lock EXCEPT ![n] = s]
      BY <2>3 DEF n
    <3>3. Held(s)' = Held(s) \cup {n} /\ ToLock(s)' = ToLock(s) \ {n}
      BY <2>1, <3>1, <3>2 DEF TypeOK, Held, ToLock, Touched
    <3>4. ToLock(s) \subseteq Accounts
      BY DEF ToLock, Touched
    <3>5. \A b \in ToLock(s) \ {n} : Rank[n] < Rank[b]
      <4>1. \A b \in ToLock(s) \ {n} : Rank[n] # Rank[b] /\ Rank[n] \in Nat /\ Rank[b] \in Nat
        BY <3>1, <3>4
      <4>2. QED
        BY <3>1, <4>1
    <3>6. mode[s] = "own" => InOrder(s)'
      BY <1>0, <2>1, <3>3, <3>5 DEF OrderOf, InOrder
    <3>7. QED
      BY <1>0, <2>1, <2>3, <3>6 DEF OrderOf, Unlocked, Unwriting
  <2>4. QED
    BY <1>8, <2>2, <2>3 DEF LockAccounts
<1>9. CASE CheckBalances(s) /\ ~ReturnExisting(s) /\ ~Throw(s)
  <2>1. lock' = lock /\ wrote' = wrote /\ mode' = mode /\ pc[s] = "check" /\ pc'[s] = "insert"
    BY <1>9 DEF CheckBalances, Goto, writes, request, TypeOK
  <2>2. QED
    BY <1>0, <2>1, MoveOrders DEF Unlocked, Unwriting, Working
<1>10. CASE Insert(s) /\ ~UniqueViolation(s)
  <2>1. mode' = mode /\ pc'[s] = IF mode[s] = "own" THEN "commit" ELSE "publish"
    BY <1>10 DEF Insert, Goto, request, TypeOK
  <2>2. QED
    BY <2>1 DEF OrderOf, Unlocked, Unwriting, Working
<1>11. CASE CommitOwn(s) \/ CommitCaller(s)
  <2>1. ForgetWrites(s) /\ pc'[s] # "lock"
    BY <1>11 DEF CommitOwn, CommitCaller, Goto, TypeOK
  <2>2. QED
    BY <2>1, EndOrders
<1>12. CASE PublishPosted(s)
  <2>1. lock' = lock /\ wrote' = wrote /\ mode' = mode /\ pc[s] = "publish"
        /\ pc'[s] = IF mode[s] = "own" THEN "idle" ELSE "open"
    BY <1>12 DEF PublishPosted, Goto, writes, request, TypeOK
  <2>2. QED
    BY <1>0, <2>1, MoveOrders DEF Unlocked, Unwriting, Working
<1>13. CASE Reread(s)
  <2>1. lock' = lock /\ wrote' = wrote /\ mode' = mode /\ pc[s] = "reread"
        /\ pc'[s] \in {"idle", "read"}
    BY <1>13 DEF Reread, Goto, writes, request, TypeOK
  <2>2. QED
    BY <1>0, <2>1, MoveOrders DEF Unlocked, Unwriting, Working
<1>14. CASE DeadlockVictim(s) \/ Abort(s)
  BY <1>14, ThrowOrders DEF DeadlockVictim, Abort
<1>15. QED
  BY <1>1, <1>2, <1>3, <1>4, <1>5, <1>6, <1>7, <1>8, <1>9, <1>10, <1>11, <1>12, <1>13, <1>14 DEF Step

THEOREM OrderHolds == Spec => []OrderInv
<1>1. Init => OrderInv
  BY DEF Init, OrderInv, OrderOf, Held
<1>2. TypeInv /\ OrderInv /\ [Next]_vars => OrderInv'
  <2>1. ASSUME TypeInv, OrderInv, NEW s \in Sessions, Request(s) \/ Step(s) \/ Abort(s)
        PROVE  OrderInv'
    <3>1. ASSUME NEW t \in Sessions \ {s}
          PROVE  OrderOf(t)'
      <4>1. pc'[t] = pc[t] /\ call'[t] = call[t] /\ mode'[t] = mode[t] /\ wrote'[t] = wrote[t]
        BY <2>1, OthersWait, OthersUntouched DEF TypeInv
      <4>2. Held(t)' = Held(t)
        BY <2>1, OthersLocks DEF TypeInv
      <4>3. ToLock(t)' = ToLock(t)
        BY <4>1, <4>2 DEF ToLock, Touched, Held
      <4>4. QED
        BY <2>1, <4>1, <4>2, <4>3 DEF OrderInv, OrderOf, Unlocked, Unwriting, InOrder
    <3>2. QED
      BY <2>1, <3>1, StepOrders DEF OrderInv
  <2>2. OrderInv /\ UNCHANGED vars => OrderInv'
    BY DEF OrderInv, OrderOf, Unlocked, Unwriting, InOrder, Held, ToLock, Touched, vars, tables,
           writes, request
  <2>3. QED
    BY <2>1, <2>2 DEF Next
<1>3. QED
  BY <1>1, <1>2, TypeCorrect, PTL DEF Spec

\* Postings in transactions of their own never wait for each other in a circle: whoever
\* is waited for waits for an account of a higher rank, and there is a highest
\* (postIn, SELECT ... ORDER BY id FOR UPDATE).
THEOREM OwnPostsDoNotDeadlock == Spec => []OwnPostsNeverDeadlock
<1>1. OrderInv => OwnPostsNeverDeadlock
  <2> SUFFICES ASSUME OrderInv,
                      NEW D \in SUBSET {s \in Sessions : mode[s] = "own" /\ made[s] = {}},
                      Cycle(D)
               PROVE  FALSE
    BY DEF OwnPostsNeverDeadlock
  <2>1. D # {} /\ \A s \in D : \E t \in D : WaitsFor(s, t)
    BY DEF Cycle
  <2>2. ASSUME NEW s \in D, NEW t \in D, WaitsFor(s, t)
        PROVE  BlockedOnLock(s, t)
    <3>1. made[t] = {} /\ mode[t] = "own"
      OBVIOUS
    <3>2. pc[t] \in Working
      BY <2>1 DEF WaitsFor, BlockedOnLock, BlockedOnCreate, BlockedOnInsert, Working
    <3>3. wrote[t] = {}
      BY <3>1, <3>2 DEF OrderInv, OrderOf, Unwriting
    <3>4. QED
      BY <2>2, <3>1, <3>3 DEF WaitsFor, BlockedOnCreate, BlockedOnInsert, HasKey
  <2> DEFINE Wanted == {NextToLock(s) : s \in D}
  <2>3. ASSUME NEW s \in D
        PROVE  /\ pc[s] = "lock" /\ ToLock(s) # {} /\ InOrder(s)
               /\ NextToLock(s) \in ToLock(s) /\ NextToLock(s) \in Accounts
    <3>1. PICK t \in D : BlockedOnLock(s, t)
      BY <2>1, <2>2
    <3>2. pc[s] = "lock" /\ ToLock(s) # {}
      BY <3>1 DEF BlockedOnLock
    <3>3. QED
      BY <3>2, NextIsLowest DEF OrderInv, OrderOf
  <2>4. IsFiniteSet(Wanted) /\ Wanted # {} /\ \A a \in Wanted : a \in Accounts /\ Rank[a] \in Int
    <3>1. Wanted \subseteq Accounts
      BY <2>3
    <3>2. QED
      BY <2>1, <3>1, FS_Subset
  <2>5. PICK a \in Wanted : \A b \in Wanted : Rank[b] <= Rank[a]
    <3> HIDE DEF Wanted
    <3>1. QED
      BY <2>4, Highest
  <2>6. PICK s \in D : a = NextToLock(s)
    OBVIOUS
  <2>7. PICK t \in D : BlockedOnLock(s, t)
    BY <2>1, <2>2
  <2>8. a \in Held(t)
    BY <2>3, <2>6, <2>7 DEF BlockedOnLock, Held
  <2>9. Rank[a] < Rank[NextToLock(t)]
    BY <2>3, <2>8 DEF InOrder
  <2>10. Rank[NextToLock(t)] <= Rank[a]
    BY <2>5
  <2>11. Rank[a] \in Nat /\ Rank[NextToLock(t)] \in Nat
    BY <2>3, <2>4
  <2>12. QED
    BY <2>9, <2>10, <2>11
<1>2. QED
  BY <1>1, OrderHolds, PTL
=============================================================================
