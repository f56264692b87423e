------------------------------- MODULE Ledger -------------------------------
(***************************************************************************)
(* LedgerService (src/src/modules/ledger/ledger.service.ts): the double    *)
(* entry book through which all money moves, at the grain of its SQL       *)
(* statements under PostgreSQL's READ COMMITTED.                           *)
(*                                                                         *)
(* A session is one request being served.  It runs post or reverse either  *)
(* in a transaction of the ledger's own ("own", with the retry loop) or in *)
(* a transaction of the caller ("caller", which may contain several        *)
(* posts, and which the caller commits or rolls back).  The entries of a   *)
(* posting are abstracted to its movement: the net delta of every account, *)
(* zero where the posting has no entry.                                    *)
(***************************************************************************)
EXTENDS Integers, FiniteSets, Functions

CONSTANTS
  Sessions,      \* concurrent requests, each on its own database connection
  Keys,          \* idempotency keys of ordinary postings
  Accounts,      \* ledger accounts (owner, currency, kind)
  UserAccounts,  \* those whose ownerType is USER
  Rank,          \* the order of the account ids, Accounts -> Nat
  Movements,     \* what callers ask to post, a set of Accounts -> Int
  MaxCalls,      \* bound: post/reverse calls a session makes
  None

ASSUME ConstantsAssumption ==
  /\ IsFiniteSet(Accounts)
  /\ UserAccounts \subseteq Accounts
  /\ Rank \in [Accounts -> Nat]
  /\ \A a, b \in Accounts : Rank[a] = Rank[b] => a = b
  /\ Movements \subseteq [Accounts -> Int]
  /\ MaxCalls \in Nat
  /\ None \notin Accounts \cup Sessions \cup (Sessions \X Nat)

VARIABLES
  \* committed tables
  rows,      \* LedgerTxn and its LedgerEntry rows
  reversed,  \* ids of the LedgerTxn whose status is REVERSED
  accounts,  \* LedgerAccount rows
  balance,   \* SUM(amount) of the committed entries of each account
  events,    \* ids for which LedgerTxnPosted was published
  \* database locks: the session that holds each account's row lock
  lock,
  \* what each session is doing
  pc, mode, call, attempt, want, calls, answer,
  \* the uncommitted writes of each session's transaction
  wrote, pend, made, marks

tables == <<rows, reversed, accounts, balance>>
request == <<mode, call, calls>>
writes == <<wrote, pend, made, marks>>
vars == <<tables, events, lock, pc, mode, call, attempt, want, calls, answer, writes>>

NoMovement == [a \in Accounts |-> 0]
Touched(delta) == {a \in Accounts : delta[a] # 0}

\* Mutant: the sign of a reversal is forgotten.
NegatedNot(delta) == delta

Negated(delta) == [a \in Accounts |-> -delta[a]]

\* normalise: at least two entries, and their sum is zero.
Normalised(delta) == /\ Cardinality(Touched(delta)) >= 2
                     /\ SumFunctionOnSet(delta, Accounts) = 0

\* The key of a posting; `reversal:<id>` is the pair of the original's key and TRUE.
Ids == Sessions \X (1..MaxCalls)
Row == [id : Ids, key : Keys, rev : BOOLEAN, delta : [Accounts -> Int]]
Call == [key : Keys, rev : BOOLEAN, delta : [Accounts -> Int]]
Labels == {"idle", "original", "read", "ensure", "create", "lock", "check", "insert",
           "commit", "commitExisting", "publish", "reread", "open"}
SameKey(r, q) == r.key = q.key /\ r.rev = q.rev

\* READ COMMITTED: a statement of s sees what is committed and what s wrote itself.
Visible(s) == rows \cup wrote[s]
HasKey(R, c) == \E r \in R : SameKey(r, c)
RowOf(R, c) == CHOOSE r \in R : SameKey(r, c)

Init ==
  /\ rows = {} /\ reversed = {} /\ accounts = {} /\ events = {}
  /\ balance = NoMovement
  /\ lock = [a \in Accounts |-> None]
  /\ pc = [s \in Sessions |-> "idle"]
  /\ mode = [s \in Sessions |-> "own"]
  /\ call = [s \in Sessions |-> None]
  /\ attempt = [s \in Sessions |-> 0]
  /\ want = [s \in Sessions |-> None]
  /\ calls = [s \in Sessions |-> 0]
  /\ answer = [s \in Sessions |-> None]
  /\ wrote = [s \in Sessions |-> {}]
  /\ pend = [s \in Sessions |-> NoMovement]
  /\ made = [s \in Sessions |-> {}]
  /\ marks = [s \in Sessions |-> {}]

Goto(s, label) == pc' = [pc EXCEPT ![s] = label]

-----------------------------------------------------------------------------
(* The end of a transaction.                                               *)

\* COMMIT: the transaction's writes become visible and its locks are released.
Publishable(s) == /\ rows' = rows \cup wrote[s]
                  /\ reversed' = reversed \cup marks[s]
                  /\ accounts' = accounts \cup made[s]
                  /\ balance' = [a \in Accounts |-> balance[a] + pend[s][a]]

ForgetWrites(s) ==
  /\ wrote' = [wrote EXCEPT ![s] = {}]
  /\ pend' = [pend EXCEPT ![s] = NoMovement]
  /\ made' = [made EXCEPT ![s] = {}]
  /\ marks' = [marks EXCEPT ![s] = {}]
  /\ lock' = [a \in Accounts |-> IF lock[a] = s THEN None ELSE lock[a]]

\* ROLLBACK, with the session left at `label`.
Rollback(s, label) ==
  /\ ForgetWrites(s)
  /\ want' = [want EXCEPT ![s] = None]
  /\ Goto(s, label)
  /\ UNCHANGED <<tables, events, request>>

\* An exception that leaves the ledger: the transaction (the caller's too) rolls back.
Throw(s) == /\ Rollback(s, "idle")
            /\ answer' = [answer EXCEPT ![s] = None]
            /\ attempt' = [attempt EXCEPT ![s] = 0]

-----------------------------------------------------------------------------
(* post and reverse, statement by statement.                               *)

Admit(s, m, c) ==
  /\ calls[s] < MaxCalls
  /\ calls' = [calls EXCEPT ![s] = @ + 1]
  /\ pc[s] = "idle" \/ (pc[s] = "open" /\ m = "caller")
  /\ mode' = [mode EXCEPT ![s] = m]
  /\ call' = [call EXCEPT ![s] = c]
  /\ answer' = [answer EXCEPT ![s] = None]
  /\ attempt' = [attempt EXCEPT ![s] = 0]

\* post: a movement that normalise refuses never reaches the database.
Post(s, m, k, d) ==
  /\ Admit(s, m, [key |-> k, rev |-> FALSE, delta |-> d])
  /\ Normalised(d)
  /\ Goto(s, "read")
  /\ UNCHANGED <<tables, events, lock, want, writes>>

\* normalise throws: nothing has been written by this call, and a caller's
\* transaction is rolled back by the exception.
PostMalformed(s, d) ==
  /\ pc[s] = "open"
  /\ ~Normalised(d)
  /\ Throw(s)

\* reverse: the call starts by reading the original transaction.
Reverse(s, m, k) ==
  /\ Admit(s, m, [key |-> k, rev |-> TRUE, delta |-> NoMovement])
  /\ Goto(s, "original")
  /\ UNCHANGED <<tables, events, lock, want, writes>>

\* reverse's guards: found, not itself a REVERSAL (ordinary keys only lead to
\* ordinary rows), not REVERSED yet; the new entries negate the original's.
ReadOriginal(s) ==
  /\ pc[s] = "original"
  /\ LET found == {r \in Visible(s) : r.key = call[s].key /\ ~r.rev}
     IN \/ /\ \A r \in found : r.id \in reversed \cup marks[s]
           /\ Throw(s)
        \/ \E r \in found :
             /\ r.id \notin reversed \cup marks[s]
             /\ call' = [call EXCEPT ![s].delta = Negated(r.delta)]
             /\ Goto(s, "read")
             /\ UNCHANGED <<tables, events, lock, mode, attempt, want, calls, answer, writes>>

\* Mutant: the caller gets the key back, not the transaction.
ReturnExistingKey(s) ==
  /\ HasKey(Visible(s), call[s])
  /\ answer' = [answer EXCEPT ![s] = call[s].key]
  /\ Goto(s, IF mode[s] = "own" THEN "commitExisting" ELSE "open")
  /\ UNCHANGED <<tables, events, lock, request, attempt, want, writes>>

\* postIn returns the transaction already stored under the key.
ReturnExisting(s) ==
  /\ HasKey(Visible(s), call[s])
  /\ answer' = [answer EXCEPT ![s] = RowOf(Visible(s), call[s]).id]
  /\ Goto(s, IF mode[s] = "own" THEN "commitExisting" ELSE "open")
  /\ UNCHANGED <<tables, events, lock, request, attempt, want, writes>>

\* postIn's first lookup of the key.
ReadKey(s) ==
  /\ pc[s] = "read"
  /\ \/ ReturnExisting(s)
     \/ /\ ~HasKey(Visible(s), call[s])
        /\ Goto(s, "ensure")
        /\ UNCHANGED <<tables, events, lock, request, attempt, want, answer, writes>>

\* ensureAccount, the lookup: either every account exists or one is to be created.
EnsureAccount(s) ==
  /\ pc[s] = "ensure"
  /\ LET missing == Touched(call[s].delta) \ (accounts \cup made[s])
     IN \/ /\ missing = {}
           /\ Goto(s, "lock")
           /\ UNCHANGED want
        \/ \E a \in missing :
             /\ want' = [want EXCEPT ![s] = a]
             /\ Goto(s, "create")
  /\ UNCHANGED <<tables, events, lock, request, attempt, answer, writes>>

\* An insert waits while another transaction holds the same unique value uncommitted.
BlockedOnCreate(s, t) == pc[s] = "create" /\ t # s /\ want[s] \in made[t]
BlockedOnInsert(s, t) == pc[s] = "insert" /\ t # s /\ HasKey(wrote[t], call[s])

\* ensureAccount, the insert: fails when the account was committed meanwhile.
UniqueViolation(s) ==
  IF mode[s] = "own" THEN Rollback(s, "reread") /\ UNCHANGED <<answer, attempt>>
                     ELSE Throw(s)

CreateAccount(s) ==
  /\ pc[s] = "create"
  /\ \A t \in Sessions : ~BlockedOnCreate(s, t)
  /\ \/ want[s] \in accounts /\ UniqueViolation(s)
     \/ /\ want[s] \notin accounts
        /\ made' = [made EXCEPT ![s] = @ \cup {want[s]}]
        /\ want' = [want EXCEPT ![s] = None]
        /\ Goto(s, "ensure")
        /\ UNCHANGED <<tables, events, lock, request, attempt, answer, wrote, pend, marks>>

\* SELECT ... ORDER BY id FOR UPDATE: the next row to lock is the lowest not yet held.
ToLock(s) == {a \in Touched(call[s].delta) : lock[a] # s}
\* Mutant: the rows are locked in the order of the entries, debits first.
NextToLockByEntry(s) ==
  CHOOSE a \in ToLock(s) : \A b \in ToLock(s) : call[s].delta[a] <= call[s].delta[b]

NextToLock(s) == CHOOSE a \in ToLock(s) : \A b \in ToLock(s) : Rank[a] <= Rank[b]
BlockedOnLock(s, t) == /\ pc[s] = "lock" /\ t # s
                       /\ ToLock(s) # {} /\ lock[NextToLock(s)] = t

\* Mutant: balances are read without FOR UPDATE.
LockNothing(s) ==
  /\ pc[s] = "lock"
  /\ Goto(s, "check")
  /\ UNCHANGED <<tables, events, lock, request, attempt, want, answer, writes>>

LockAccounts(s) ==
  /\ pc[s] = "lock"
  /\ \/ /\ ToLock(s) = {}
        /\ Goto(s, "check")
        /\ UNCHANGED lock
     \/ /\ ToLock(s) # {}
        /\ lock[NextToLock(s)] = None
        /\ lock' = [lock EXCEPT ![NextToLock(s)] = s]
        /\ UNCHANGED pc
  /\ UNCHANGED <<tables, events, request, attempt, want, answer, writes>>

\* sumAccount in the transaction, and the accounts that the posting would overdraw.
sumAccount(s, a) == balance[a] + pend[s][a]
Guarded == UserAccounts
Overdrawn(s) == {a \in Guarded : /\ call[s].delta[a] < 0
                                 /\ sumAccount(s, a) + call[s].delta[a] < 0}

\* The key is looked up again under the locks, then the non-negative rule.
CheckBalances(s) ==
  /\ pc[s] = "check"
  /\ \/ ReturnExisting(s)
     \/ ~HasKey(Visible(s), call[s]) /\ Overdrawn(s) # {} /\ Throw(s)
     \/ /\ ~HasKey(Visible(s), call[s])
        /\ Overdrawn(s) = {}
        /\ Goto(s, "insert")
        /\ UNCHANGED <<tables, events, lock, request, attempt, want, answer, writes>>

\* Mutant: the original of a reversal stays POSTED.
InsertRowUnmarked(s) ==
  LET row == [id |-> <<s, calls[s]>>, key |-> call[s].key, rev |-> call[s].rev,
              delta |-> call[s].delta]
  IN /\ wrote' = [wrote EXCEPT ![s] = @ \cup {row}]
     /\ pend' = [pend EXCEPT ![s] = [a \in Accounts |-> pend[s][a] + row.delta[a]]]
     /\ answer' = [answer EXCEPT ![s] = row.id]
     /\ UNCHANGED marks

\* The insert of the transaction and its entries, under the unique index on the
\* key; reverse then marks the original REVERSED in the same transaction.
InsertRow(s) ==
  LET row == [id |-> <<s, calls[s]>>, key |-> call[s].key, rev |-> call[s].rev,
              delta |-> call[s].delta]
  IN /\ wrote' = [wrote EXCEPT ![s] = @ \cup {row}]
     /\ pend' = [pend EXCEPT ![s] = [a \in Accounts |-> pend[s][a] + row.delta[a]]]
     /\ marks' = [marks EXCEPT ![s] = @ \cup
                   {r.id : r \in {q \in Visible(s) : row.rev /\ q.key = row.key /\ ~q.rev}}]
     /\ answer' = [answer EXCEPT ![s] = row.id]

\* Mutant: the key has no unique index; the lookups alone guard it.
InsertUnindexed(s) ==
  /\ pc[s] = "insert"
  /\ InsertRow(s)
  /\ Goto(s, IF mode[s] = "own" THEN "commit" ELSE "publish")
  /\ UNCHANGED <<tables, events, lock, request, attempt, want, made>>

Insert(s) ==
  /\ pc[s] = "insert"
  /\ \A t \in Sessions : ~BlockedOnInsert(s, t)
  /\ \/ HasKey(Visible(s), call[s]) /\ UniqueViolation(s)
     \/ /\ ~HasKey(Visible(s), call[s])
        /\ InsertRow(s)
        /\ Goto(s, IF mode[s] = "own" THEN "commit" ELSE "publish")
        /\ UNCHANGED <<tables, events, lock, request, attempt, want, made>>

\* The ledger's own transaction commits, when it created a row and when it did not.
CommitOwn(s) ==
  /\ pc[s] \in {"commit", "commitExisting"}
  /\ Publishable(s)
  /\ ForgetWrites(s)
  /\ Goto(s, IF pc[s] = "commit" THEN "publish" ELSE "idle")
  /\ UNCHANGED <<events, request, attempt, want, answer>>

\* publishPosted: after the commit of the ledger's own transaction, but inside
\* the caller's.
PublishPosted(s) ==
  /\ pc[s] = "publish"
  /\ events' = events \cup {answer[s]}
  /\ Goto(s, IF mode[s] = "own" THEN "idle" ELSE "open")
  /\ UNCHANGED <<tables, lock, request, attempt, want, answer, writes>>

\* Mutant: the violation is swallowed and the rolled back transaction returned.
RereadNothing(s) ==
  /\ pc[s] = "reread"
  /\ answer' = [answer EXCEPT ![s] = <<s, calls[s]>>]
  /\ attempt' = [attempt EXCEPT ![s] = 0]
  /\ Goto(s, "idle")
  /\ UNCHANGED <<tables, events, lock, request, want, writes>>

\* post's handler of a unique violation: return the winner's transaction, or try
\* again (two more attempts); reverse has no second attempt.
Reread(s) ==
  /\ pc[s] = "reread"
  /\ LET exhausted == attempt[s] >= 2
     IN \/ /\ HasKey(rows, call[s]) /\ ~exhausted
           /\ answer' = [answer EXCEPT ![s] = RowOf(rows, call[s]).id]
           /\ Goto(s, "idle")
           /\ attempt' = [attempt EXCEPT ![s] = 0]
        \/ /\ ~HasKey(rows, call[s]) /\ ~call[s].rev /\ ~exhausted
           /\ attempt' = [attempt EXCEPT ![s] = @ + 1]
           /\ Goto(s, "read")
           /\ UNCHANGED answer
        \/ /\ exhausted \/ (call[s].rev /\ ~HasKey(rows, call[s]))
           /\ attempt' = [attempt EXCEPT ![s] = 0]
           /\ Goto(s, "idle")
           /\ UNCHANGED answer
  /\ UNCHANGED <<tables, events, lock, request, want, writes>>

-----------------------------------------------------------------------------
(* The caller of a caller-owned transaction, failures and the database.    *)

CommitCaller(s) ==
  /\ pc[s] = "open"
  /\ Publishable(s)
  /\ ForgetWrites(s)
  /\ Goto(s, "idle")
  /\ UNCHANGED <<events, request, attempt, want, answer>>

\* The caller throws after a post, the 30 s transaction timeout fires, or the
\* process or its connection is lost: nothing uncommitted survives.
Abort(s) == pc[s] # "idle" /\ Throw(s)

WaitsFor(s, t) == BlockedOnLock(s, t) \/ BlockedOnCreate(s, t) \/ BlockedOnInsert(s, t)
Cycle(D) == D # {} /\ \A s \in D : \E t \in D : WaitsFor(s, t)

\* PostgreSQL's deadlock detector cancels one transaction of the cycle.
DeadlockVictim(s) ==
  /\ \E D \in SUBSET Sessions : s \in D /\ Cycle(D)
  /\ Throw(s)

-----------------------------------------------------------------------------
\* The steps that the event loop and the database carry out once a call is made.
Step(s) == \/ ReadOriginal(s) \/ ReadKey(s) \/ EnsureAccount(s) \/ CreateAccount(s)
           \/ LockAccounts(s) \/ CheckBalances(s) \/ Insert(s) \/ CommitOwn(s)
           \/ PublishPosted(s) \/ Reread(s) \/ CommitCaller(s) \/ DeadlockVictim(s)

Request(s) == \/ \E m \in {"own", "caller"}, k \in Keys :
                     Reverse(s, m, k) \/ \E d \in Movements : Post(s, m, k, d)
              \/ \E d \in Movements : PostMalformed(s, d)

Next == \E s \in Sessions : Request(s) \/ Step(s) \/ Abort(s)

Spec == Init /\ [][Next]_vars

-----------------------------------------------------------------------------
(* Properties.                                                             *)

\* Every variable has its type; ids come from Ids and keys from Keys.
TypeOK ==
  /\ rows \in SUBSET Row
  /\ reversed \in SUBSET Ids
  /\ accounts \in SUBSET Accounts
  /\ balance \in [Accounts -> Int]
  /\ events \in SUBSET Ids
  /\ lock \in [Accounts -> Sessions \cup {None}]
  /\ pc \in [Sessions -> Labels]
  /\ mode \in [Sessions -> {"own", "caller"}]
  /\ call \in [Sessions -> Call \cup {None}]
  /\ attempt \in [Sessions -> Nat]
  /\ want \in [Sessions -> Accounts \cup {None}]
  /\ calls \in [Sessions -> 0..MaxCalls]
  /\ answer \in [Sessions -> Ids \cup {None}]
  /\ wrote \in [Sessions -> SUBSET Row]
  /\ pend \in [Sessions -> [Accounts -> Int]]
  /\ made \in [Sessions -> SUBSET Accounts]
  /\ marks \in [Sessions -> SUBSET Ids]

\* No interleaving of concurrent debits leaves a USER account below zero, in
\* what is committed or in what a transaction is about to commit (the row locks
\* taken before the balances are read, ledger.service.ts:107-130).
NoOverdraft == \A a \in UserAccounts :
  /\ balance[a] >= 0
  /\ \A s \in Sessions : sumAccount(s, a) >= 0

\* A key is written once, whichever sessions race to post it and whether or not
\* they share an account whose lock would order them (idempotencyKey unique).
Uncommitted == UNION {wrote[s] : s \in Sessions}
KeyOnce == \A r, q \in rows \cup Uncommitted : SameKey(r, q) => r = q

\* A transaction is REVERSED exactly when the journal holds its REVERSAL, and the
\* REVERSAL moves back, account by account, what the original moved (reverse).
ReversedIffReversal ==
  /\ \A r \in rows : ~r.rev =>
       (r.id \in reversed <=> \E q \in rows : q.rev /\ q.key = r.key)
  /\ \A q \in rows : q.rev =>
       \E r \in rows : ~r.rev /\ r.key = q.key /\ q.delta = Negated(r.delta)

\* A session that was told its posting is done (created, or already there), or that
\* announces it from a transaction of its own, finds it committed under the key it
\* asked for: a retry after a unique violation never answers with a transaction that
\* was rolled back, and post publishes after its $transaction (post, reverse).
Answered(s) == pc[s] = "idle" \/ (pc[s] = "publish" /\ mode[s] = "own")
AnswerIsPosted == \A s \in Sessions :
  (Answered(s) /\ answer[s] # None) =>
    \E r \in rows : r.id = answer[s] /\ SameKey(r, call[s])

\* Postings in transactions of their own, over accounts that exist, never wait
\* for each other in a circle: the locks are taken in id order.
OwnPostsNeverDeadlock ==
  ~\E D \in SUBSET {s \in Sessions : mode[s] = "own" /\ made[s] = {}} : Cycle(D)

\* The statements of concurrent sessions implement the promise of AtomicLedger:
\* each commit is one append to its journal.
Journal == {[key |-> r.key, rev |-> r.rev, delta |-> r.delta] : r \in rows}
Promise == INSTANCE AtomicLedger WITH journal <- Journal, balance <- balance
ImplementsPromise == Promise!Spec
=============================================================================
