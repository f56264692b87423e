---------------------------- MODULE Withdrawals ----------------------------
(***************************************************************************)
(* Withdrawal intents (PaymentDirection.OUT): PaymentsService with the WDR *)
(* files of BatchesService and the CSH lines of ReconciliationService, one *)
(* action for what runs between two awaits.  A request moves the user's    *)
(* money from AVAILABLE to WITHDRAWABLE, the payout moves it out, a        *)
(* failure moves it back; the SDB that pays out is external.               *)
(***************************************************************************)
EXTENDS Integers, FiniteSets, Functions

CONSTANTS
  Intents,      \* withdrawal intents of one user
  Amount,       \* their amounts
  Funds,        \* what AVAILABLE may hold at the start
  DailyCap,     \* withdrawalDailyCapXaf
  Workers,      \* requests being served
  MaxSettles,   \* bound: CSH lines and forced completions handled
  MaxFails,     \* bound: calls of failWithdrawal
  MaxFaults     \* bound: exceptions and crashes

ASSUME WithdrawalConstants ==
  /\ IsFiniteSet(Intents)
  /\ Amount \in [Intents -> Nat \ {0}]
  /\ Funds \subseteq Nat /\ DailyCap \in Nat
  /\ MaxSettles \in Nat /\ MaxFails \in Nat /\ MaxFaults \in Nat

VARIABLES
  state,       \* PaymentIntent.state; "none" before the row exists
  batched,     \* intents whose batchId is set
  batches,     \* how many WDR batches exist
  instructed,  \* intents listed in a WDR file the SDB has
  paidOut,     \* intents the SDB paid out
  forced,      \* intents whose PAYMENT_FORCE_COMPLETE was approved and executed
  journal, balance,   \* the ledger
  h,           \* each handler: where it is, its task, its intent or its WDR lines
  simulated,   \* the providers' simulated mode
  funds,       \* AVAILABLE at the start
  settles, fails, faults

rows == <<state, batched, batches, forced>>
sdb == <<instructed, paidOut>>
ledger == <<journal, balance>>
setting == <<simulated, funds>>
bounds == <<settles, fails, faults>>
vars == <<rows, sdb, ledger, h, setting, bounds>>

Accounts == {"available", "withdrawable", "clearing"}
States == {"none", "CREATED", "PENDING", "PAID", "FAILED"}

Book == INSTANCE LedgerClient WITH UserAccounts <- {"available", "withdrawable"}
Transfer(x, from, to) ==
  [a \in Accounts |-> IF a = from THEN -x ELSE IF a = to THEN x ELSE 0]

\* LedgerKeys.withdrawReserve, withdraw and withdrawRelease.
ReserveKey(i) == <<"withdraw-reserve", i>>
\* Mutant: the key follows the reference of the CSH line or approval.
PayoutKeyByTask(i, t) == <<"withdraw", i, t>>
PayoutKey(i, t) == <<"withdraw", i>>
ReleaseKey(i) == <<"withdraw-release", i>>

Reserved(i) == Book!Posted(ReserveKey(i))
Debited(i) == \E r \in journal : r.key[1] = "withdraw" /\ r.key[2] = i
Released(i) == Book!Posted(ReleaseKey(i))

Idle == [at |-> "idle"]

Init ==
  /\ state = [i \in Intents |-> "none"]
  /\ batched = {} /\ batches = 0 /\ forced = {} /\ instructed = {} /\ paidOut = {}
  /\ journal = {}
  /\ funds \in Funds
  /\ balance = [a \in Accounts |-> IF a = "available" THEN funds ELSE 0]
  /\ h = [w \in Workers |-> Idle]
  /\ simulated \in BOOLEAN
  /\ settles = 0 /\ fails = 0 /\ faults = 0

At(w, label) == h[w].at = label
on(w) == h[w].on
Goto(w, label) == h' = [h EXCEPT ![w].at = label]
Finish(w) == h' = [h EXCEPT ![w] = Idle]
SetState(i, s) == state' = [state EXCEPT ![i] = s]
Begin(w, t, x, label) ==
  /\ h[w] = Idle
  /\ h' = [h EXCEPT ![w] = [at |-> label, task |-> t, on |-> x]]

-----------------------------------------------------------------------------
(* requestWithdrawal                                                       *)

CapUsed == SumFunctionOnSet(Amount, {i \in Intents : state[i] \in {"PENDING", "PAID"}})

\* enforceWithdrawalCap, a read that nothing locks.
RequestWithdrawal(w, i) ==
  /\ state[i] = "none"
  /\ \A v \in Workers : ~(At(v, "insert") /\ on(v) = i)  \* a fresh uuid
  /\ CapUsed + Amount[i] <= DailyCap
  /\ Begin(w, "request", i, "insert")
  /\ UNCHANGED <<rows, sdb, ledger, setting, bounds>>

\* Mutant: the intent is PENDING before its funds are reserved.
InsertPending(w) ==
  /\ At(w, "insert")
  /\ SetState(on(w), "PENDING")
  /\ Goto(w, "reserve")
  /\ UNCHANGED <<batched, batches, forced, sdb, ledger, setting, bounds>>

InsertIntent(w) ==
  /\ At(w, "insert")
  /\ SetState(on(w), "CREATED")
  /\ Goto(w, "reserve")
  /\ UNCHANGED <<batched, batches, forced, sdb, ledger, setting, bounds>>

\* Mutant: the ledger's refusal is swallowed, and the intent opened all the same.
ReserveSwallowed(w) ==
  LET i == on(w)
      d == Transfer(Amount[i], "available", "withdrawable")
  IN /\ At(w, "reserve")
     /\ \/ Book!Refused(ReserveKey(i), d) /\ UNCHANGED ledger
        \/ Book!Post(ReserveKey(i), d)
     /\ Goto(w, "open")
     /\ UNCHANGED <<rows, sdb, setting, bounds>>

\* The RESERVE posting: the ledger's refusal is the balance check.
ReserveFunds(w) ==
  LET i == on(w)
      d == Transfer(Amount[i], "available", "withdrawable")
  IN /\ At(w, "reserve")
     /\ \/ Book!Refused(ReserveKey(i), d) /\ Goto(w, "refuse") /\ UNCHANGED ledger
        \/ Book!Post(ReserveKey(i), d) /\ Goto(w, "open")
     /\ UNCHANGED <<rows, sdb, setting, bounds>>

\* Mutant: a refused reserve is not recorded.
RefuseNothing(w) ==
  /\ At(w, "refuse")
  /\ Finish(w)
  /\ UNCHANGED <<rows, sdb, ledger, setting, bounds>>

RefuseIntent(w) ==
  /\ At(w, "refuse")
  /\ SetState(on(w), "FAILED")
  /\ Finish(w)
  /\ UNCHANGED <<batched, batches, forced, sdb, ledger, setting, bounds>>

\* PENDING; the simulated mode pays at once.
OpenIntent(w) ==
  /\ At(w, "open")
  /\ SetState(on(w), "PENDING")
  /\ IF simulated THEN Goto(w, "read") ELSE Finish(w)
  /\ UNCHANGED <<batched, batches, forced, sdb, ledger, setting, bounds>>

-----------------------------------------------------------------------------
(* markWithdrawalPaid, and who calls it                                    *)

CanSettle == settles < MaxSettles /\ settles' = settles + 1

\* runDaily: the CSH line of a payout whose intent is PENDING; for any other
\* state it is matched or becomes an open item.
CshLine(w, i) ==
  /\ i \in paidOut
  /\ state[i] = "PENDING"
  /\ CanSettle /\ Begin(w, "csh", i, "read")
  /\ UNCHANGED <<rows, sdb, ledger, setting, fails, faults>>

\* forceComplete of an approved request.
ForceComplete(w, i) ==
  /\ state[i] = "PENDING"
  /\ CanSettle /\ Begin(w, "force", i, "read")
  /\ forced' = forced \cup {i}
  /\ UNCHANGED <<state, batched, batches, sdb, ledger, setting, fails, faults>>

\* Only PENDING is paid: PAID is returned as it is, anything else is an error.
ReadForPayment(w) ==
  /\ At(w, "read")
  /\ IF state[on(w)] = "PENDING" THEN Goto(w, "debit") ELSE Finish(w)
  /\ UNCHANGED <<rows, sdb, ledger, setting, bounds>>

\* Mutant: the ledger's refusal is swallowed.
DebitSwallowed(w) ==
  LET i == on(w)
      k == PayoutKey(i, h[w].task)
      d == Transfer(Amount[i], "withdrawable", "clearing")
  IN /\ At(w, "debit")
     /\ \/ Book!Refused(k, d) /\ UNCHANGED ledger
        \/ Book!Post(k, d)
     /\ Goto(w, "settle")
     /\ UNCHANGED <<rows, sdb, setting, bounds>>

DebitFunds(w) ==
  LET i == on(w)
      k == PayoutKey(i, h[w].task)
      d == Transfer(Amount[i], "withdrawable", "clearing")
  IN /\ At(w, "debit")
     /\ \/ Book!Refused(k, d) /\ Finish(w) /\ UNCHANGED ledger
        \/ Book!Post(k, d) /\ Goto(w, "settle")
     /\ UNCHANGED <<rows, sdb, setting, bounds>>

MarkPaid(w) ==
  /\ At(w, "settle")
  /\ SetState(on(w), "PAID")
  /\ Finish(w)
  /\ UNCHANGED <<batched, batches, forced, sdb, ledger, setting, bounds>>

-----------------------------------------------------------------------------
(* failWithdrawal (exported; nothing under src/ calls it yet)              *)

FailWithdrawal(w, i) ==
  /\ state[i] \in {"CREATED", "PENDING", "PAID"}
  /\ fails < MaxFails /\ fails' = fails + 1
  /\ Begin(w, "fail", i, "readFail")
  /\ UNCHANGED <<rows, sdb, ledger, setting, settles, faults>>

ReadForFailure(w) ==
  /\ At(w, "readFail")
  /\ IF state[on(w)] = "PENDING" THEN Goto(w, "release") ELSE Finish(w)
  /\ UNCHANGED <<rows, sdb, ledger, setting, bounds>>

ReleaseFunds(w) ==
  LET i == on(w)
      d == Transfer(Amount[i], "withdrawable", "available")
  IN /\ At(w, "release")
     /\ \/ Book!Refused(ReleaseKey(i), d) /\ Finish(w) /\ UNCHANGED ledger
        \/ Book!Post(ReleaseKey(i), d) /\ Goto(w, "failed")
     /\ UNCHANGED <<rows, sdb, setting, bounds>>

MarkFailed(w) ==
  /\ At(w, "failed")
  /\ SetState(on(w), "FAILED")
  /\ Finish(w)
  /\ UNCHANGED <<batched, batches, forced, sdb, ledger, setting, bounds>>

-----------------------------------------------------------------------------
(* buildWdrBatch and the SDB                                               *)

\* findMany of the PENDING intents that are in no batch.
ListPending(w) ==
  LET lines == {i \in Intents : state[i] = "PENDING" /\ i \notin batched}
  IN /\ lines # {}
     /\ Begin(w, "wdr", lines, "sequence")
     /\ UNCHANGED <<rows, sdb, ledger, setting, bounds>>

\* nextSequence, kept as the number of batches counted.
NextSequence(w) ==
  /\ At(w, "sequence")
  /\ h' = [h EXCEPT ![w] = [at |-> "batch", task |-> "wdr", on |-> on(w), seen |-> batches]]
  /\ UNCHANGED <<rows, sdb, ledger, setting, bounds>>

\* The transaction that creates the batch and sets the batchId of its lines; a
\* batch of the same sequence has the same unique fileName.
WriteBatch(w) ==
  /\ At(w, "batch")
  /\ \/ h[w].seen # batches /\ Finish(w) /\ UNCHANGED <<batched, batches>>
     \/ /\ h[w].seen = batches
        /\ batches' = batches + 1
        /\ batched' = batched \cup on(w)
        /\ Goto(w, "submit")
  /\ UNCHANGED <<state, forced, sdb, ledger, setting, bounds>>

\* connector.submitWithdrawals: the file of the lines listed at the start.
SubmitWdr(w) ==
  /\ At(w, "submit")
  /\ instructed' = instructed \cup on(w)
  /\ Finish(w)
  /\ UNCHANGED <<rows, paidOut, ledger, setting, bounds>>

\* External: the SDB pays what it was instructed to pay.
SdbPays(i) ==
  /\ i \in instructed \ paidOut
  /\ paidOut' = paidOut \cup {i}
  /\ UNCHANGED <<rows, instructed, ledger, h, setting, bounds>>

-----------------------------------------------------------------------------
CanFault == faults < MaxFaults /\ faults' = faults + 1

\* A statement or the ledger call of w throws; only the RESERVE posting is inside
\* a try, and its catch records the refusal.
Throw(w) ==
  /\ CanFault
  /\ h[w] # Idle
  /\ IF At(w, "reserve") THEN Goto(w, "refuse") ELSE Finish(w)
  /\ UNCHANGED <<rows, sdb, ledger, setting, settles, fails>>

\* The process dies: every handler in flight is lost.
Crash ==
  /\ CanFault
  /\ \E w \in Workers : h[w] # Idle
  /\ h' = [w \in Workers |-> Idle]
  /\ UNCHANGED <<rows, sdb, ledger, setting, settles, fails>>

Request(w) == \/ ListPending(w)
              \/ \E i \in Intents : \/ RequestWithdrawal(w, i) \/ CshLine(w, i)
                                    \/ ForceComplete(w, i) \/ FailWithdrawal(w, i)

Step(w) == \/ InsertIntent(w) \/ ReserveFunds(w) \/ RefuseIntent(w) \/ OpenIntent(w)
           \/ ReadForPayment(w) \/ DebitFunds(w) \/ MarkPaid(w)
           \/ ReadForFailure(w) \/ ReleaseFunds(w) \/ MarkFailed(w)
           \/ NextSequence(w) \/ WriteBatch(w) \/ SubmitWdr(w)

Next == \/ \E w \in Workers : Request(w) \/ Step(w) \/ Throw(w)
        \/ Crash
        \/ \E i \in Intents : SdbPays(i)

Spec == Init /\ [][Next]_vars

-----------------------------------------------------------------------------
(* Properties.                                                             *)

\* Money only leaves WITHDRAWABLE for a withdrawal that put it there, paid or
\* failed: a request whose reserve is not posted, or was refused, is never settled
\* with what the others have reserved (markWithdrawalPaid, failWithdrawal).
SettledWasReserved == \A i \in Intents : Debited(i) \/ Released(i) => Reserved(i)

\* A withdrawal leaves the ledger at most once, however often the CSH lines, the
\* forced completions and the simulated mode pay it, with retries after crashes:
\* what has left is the sum of the withdrawals debited.
OneDebitPerWithdrawal ==
  balance["clearing"] = SumFunctionOnSet(Amount, {i \in Intents : Debited(i)})

\* An intent reads PAID only when the ledger was debited (markWithdrawalPaid).
PaidIsDebited == \A i \in Intents : state[i] = "PAID" => Debited(i)

\* While failWithdrawal has not been called, what WITHDRAWABLE holds covers every
\* PENDING withdrawal still to be paid: a payout is never refused by the ledger.
PendingIsCovered ==
  fails = 0 =>
    SumFunctionOnSet(Amount, {i \in Intents : state[i] = "PENDING" /\ ~Debited(i)})
      <= balance["withdrawable"]

\* Without an exception or a crash no request ends with its intent in CREATED,
\* where nothing would ever pay it, release it or expire it (requestWithdrawal).
NoneLeftCreated ==
  faults = 0 => \A i \in Intents :
    state[i] = "CREATED" => \E w \in Workers : h[w] # Idle /\ h[w].task = "request" /\ on(w) = i
=============================================================================
