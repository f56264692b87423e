------------------------------ MODULE Deposits ------------------------------
(***************************************************************************)
(* Deposit intents (PaymentDirection.IN): PaymentsService with its webhook *)
(* controller and expiry job, one action for what runs between two awaits. *)
(* Handlers interleave freely; an exception or a crash can hit any of them *)
(* at any await.  The provider and the payer are external.                 *)
(***************************************************************************)
EXTENDS Integers, FiniteSets, Functions

CONSTANTS
  Intents,     \* deposit intents that may be created
  Amount,      \* their amounts, Intents -> Nat
  DepositCap,  \* pilotDepositCapXaf
  Workers,     \* requests being served: createDeposit, webhooks, rechecks, approvals
  Job,         \* the expiry job
  MaxStarts,   \* bound: webhooks, rechecks and forced completions
  MaxFaults    \* bound: exceptions and crashes

ASSUME DepositConstants ==
  /\ IsFiniteSet(Intents)
  /\ Amount \in [Intents -> Nat \ {0}]
  /\ DepositCap \in Nat /\ MaxStarts \in Nat /\ MaxFaults \in Nat
  /\ Job \notin Workers

VARIABLES
  state,    \* PaymentIntent.state; "none" before the row exists
  due,      \* expiresAt has passed
  charge,   \* at the provider: "none", "pending", "paid" or "failed"
  forced,   \* intents whose PAYMENT_FORCE_COMPLETE was approved and executed
  journal, balance,   \* the ledger
  h,        \* each handler: where it is, what it runs, its intent, the state or answer it saw
  todo,     \* what is left of the job's findMany, <<intent, state read>>
  starts, faults

rows == <<state, forced>>
world == <<due, charge>>
ledger == <<journal, balance>>
handler == <<h, todo>>
bounds == <<starts, faults>>
vars == <<rows, world, ledger, handler, bounds>>

Handlers == Workers \cup {Job}
States == {"none", "CREATED", "PENDING", "PAID", "FAILED", "EXPIRED"}
\* Mutant: CREATED is forgotten.
OpenPending == {"PENDING"}
Open == {"CREATED", "PENDING"}  \* OPEN_STATES

Book == INSTANCE LedgerClient WITH Accounts <- {"available", "clearing"},
                                   UserAccounts <- {"available"}
\* Mutant: one key per trigger instead of one per intent.
DepositKeyBySource(i, t) == <<"deposit", i, t>>
DepositKey(i, t) == <<"deposit", i>>
\* Mutant: the clearing leg has the sign of the credit.
MovementSameSign(i) == [a \in {"available", "clearing"} |-> Amount[i]]
Movement(i) == [a \in {"available", "clearing"} |-> IF a = "available" THEN Amount[i]
                                                                      ELSE -Amount[i]]
Credits(i) == {r \in journal : r.key[2] = i}
Credited(i) == Credits(i) # {}

Idle == [at |-> "idle"]

Init ==
  /\ state = [i \in Intents |-> "none"]
  /\ due = [i \in Intents |-> FALSE]
  /\ charge = [i \in Intents |-> "none"]
  /\ forced = {}
  /\ Book!Init
  /\ h = [w \in Handlers |-> Idle]
  /\ todo = {}
  /\ starts = 0 /\ faults = 0

At(w, label) == h[w].at = label
on(w) == h[w].on
Goto(w, label) == h' = [h EXCEPT ![w].at = label]
GotoSeeing(w, label, x) == h' = [h EXCEPT ![w].at = label, ![w].saw = x]
Finish(w) == h' = [h EXCEPT ![w] = Idle]
SetState(i, s) == state' = [state EXCEPT ![i] = s]
Begin(w, t, i, label) ==
  /\ h[w] = Idle
  /\ h' = [h EXCEPT ![w] = [at |-> label, task |-> t, on |-> i, saw |-> "none"]]

JobAgain == h' = [h EXCEPT ![Job] = [at |-> "next"]]

\* confirmDeposit returns the intent in state s to its caller; the job goes on
\* to expire it when that state is open.
Return(w, s) ==
  IF h[w].task # "job" THEN Finish(w)
                       ELSE IF s \in Open THEN Goto(w, "expire") ELSE JobAgain

-----------------------------------------------------------------------------
(* createDeposit                                                           *)

PaidTotal == SumFunctionOnSet(Amount, {i \in Intents : state[i] = "PAID"})

\* enforceDepositCap: only what is PAID counts.
CreateDeposit(w, i) ==
  /\ state[i] = "none"
  /\ \A v \in Workers : ~(At(v, "insert") /\ on(v) = i)  \* a fresh uuid
  /\ PaidTotal + Amount[i] <= DepositCap
  /\ Begin(w, "create", i, "insert")
  /\ UNCHANGED <<rows, world, ledger, todo, bounds>>

InsertIntent(w) ==
  /\ At(w, "insert")
  /\ SetState(on(w), "CREATED")
  /\ Goto(w, "request")
  /\ UNCHANGED <<forced, world, ledger, todo, bounds>>

\* requestCollection: the provider queues, refuses or at once collects the charge;
\* an error tells nothing about whether the request arrived.
RequestCollection(w) ==
  /\ At(w, "request")
  /\ \/ \E c \in {"pending", "failed", "paid"} :
          /\ charge' = [charge EXCEPT ![on(w)] = c]
          /\ GotoSeeing(w, "record", c)
     \/ \E c \in {"none", "pending"} :
          /\ charge' = [charge EXCEPT ![on(w)] = c]
          /\ Goto(w, "reopen")
  /\ UNCHANGED <<rows, due, ledger, todo, bounds>>

\* Mutant: an answer PAID is recorded as it comes.
RecordPaid(w) ==
  /\ At(w, "record")
  /\ SetState(on(w), IF h[w].saw = "paid" THEN "PAID" ELSE "PENDING")
  /\ IF h[w].saw = "paid" THEN Goto(w, "read") ELSE Finish(w)
  /\ UNCHANGED <<forced, world, ledger, todo, bounds>>

\* The unconditional update with the provider's answer; PAID is confirmed at once.
RecordRequest(w) ==
  /\ At(w, "record")
  /\ SetState(on(w), IF h[w].saw = "failed" THEN "FAILED" ELSE "PENDING")
  /\ IF h[w].saw = "paid" THEN Goto(w, "read") ELSE Finish(w)
  /\ UNCHANGED <<forced, world, ledger, todo, bounds>>

\* Mutant: a request that failed is taken for a refusal.
FailOnError(w) ==
  /\ At(w, "reopen")
  /\ SetState(on(w), "FAILED")
  /\ Finish(w)
  /\ UNCHANGED <<forced, world, ledger, todo, bounds>>

\* The catch of createDeposit: keep the intent open.
Reopen(w) ==
  /\ At(w, "reopen")
  /\ SetState(on(w), "PENDING")
  /\ Finish(w)
  /\ UNCHANGED <<forced, world, ledger, todo, bounds>>

-----------------------------------------------------------------------------
(* confirmDeposit and creditDeposit, and who calls them                    *)

CanStart == starts < MaxStarts /\ starts' = starts + 1

\* A callback (recordWebhook and the controller) or adminRecheck; neither is
\* believed, both go through confirmDeposit.
Webhook(w, i) ==
  /\ state[i] \notin {"none", "PAID"}
  /\ CanStart /\ Begin(w, "webhook", i, "read")
  /\ UNCHANGED <<rows, world, ledger, todo, faults>>

AdminRecheck(w, i) ==
  /\ state[i] # "none"
  /\ CanStart /\ Begin(w, "recheck", i, "read")
  /\ UNCHANGED <<rows, world, ledger, todo, faults>>

\* forceComplete of an approved request credits without asking the provider.
ForceComplete(w, i) ==
  /\ state[i] \notin {"none", "PAID"}
  /\ CanStart /\ Begin(w, "force", i, "credit")
  /\ forced' = forced \cup {i}
  /\ UNCHANGED <<state, world, ledger, todo, faults>>

ReadIntent(w) ==
  /\ At(w, "read")
  /\ LET s == state[on(w)]
     IN IF s \in {"PAID", "FAILED"} THEN Return(w, s)
        ELSE GotoSeeing(w, "query", s)
  /\ UNCHANGED <<rows, world, ledger, todo, bounds>>

\* Mutant: the answer given to requestCollection or the callback is believed.
QueryNothing(w) ==
  /\ At(w, "query")
  /\ Goto(w, "credit")
  /\ UNCHANGED <<rows, world, ledger, todo, bounds>>

\* queryStatus: an unknown charge is PENDING; an error returns the intent as read.
QueryStatus(w) ==
  /\ At(w, "query")
  /\ \/ Return(w, h[w].saw)
     \/ Goto(w, CASE charge[on(w)] = "paid" -> "credit"
                  [] charge[on(w)] = "failed" -> "fail"
                  [] OTHER -> "patch")
  /\ UNCHANGED <<rows, world, ledger, todo, bounds>>

CreditDeposit(w) ==
  /\ At(w, "credit")
  /\ Book!Post(DepositKey(on(w), h[w].task), Movement(on(w)))
  /\ Goto(w, "settle")
  /\ UNCHANGED <<rows, world, todo, bounds>>

SettleIntent(w) ==
  /\ At(w, "settle")
  /\ SetState(on(w), "PAID")
  /\ Return(w, "PAID")
  /\ UNCHANGED <<forced, world, ledger, todo, bounds>>

FailIntent(w) ==
  /\ At(w, "fail")
  /\ SetState(on(w), "FAILED")
  /\ Return(w, "FAILED")
  /\ UNCHANGED <<forced, world, ledger, todo, bounds>>

\* Still pending at the provider: only providerStatus is written.
PatchStatus(w) ==
  /\ At(w, "patch")
  /\ Return(w, state[on(w)])
  /\ UNCHANGED <<rows, world, ledger, todo, bounds>>

-----------------------------------------------------------------------------
(* The expiry job: one at a time (its running flag)                        *)

\* Mutant: the query does not filter on the state.
JobStartAll ==
  LET stale == {i \in Intents : due[i]}
  IN /\ stale # {}
     /\ h[Job] = Idle
     /\ JobAgain
     /\ todo' = {<<i, state[i]>> : i \in stale}
     /\ UNCHANGED <<rows, world, ledger, bounds>>

\* findMany of the open intents that are due.
JobStart ==
  LET stale == {i \in Intents : state[i] \in Open /\ due[i]}
  IN /\ stale # {}
     /\ h[Job] = Idle
     /\ JobAgain
     /\ todo' = {<<i, state[i]>> : i \in stale}
     /\ UNCHANGED <<rows, world, ledger, bounds>>

\* The next of them: a PENDING intent gets a last confirmDeposit first.
JobNext ==
  /\ At(Job, "next")
  /\ \/ todo = {} /\ Finish(Job) /\ UNCHANGED todo
     \/ \E t \in todo :
          /\ todo' = todo \ {t}
          /\ h' = [h EXCEPT ![Job] = [at |-> IF t[2] = "PENDING" THEN "read" ELSE "expire",
                                     task |-> "job", on |-> t[1], saw |-> t[2]]]
  /\ UNCHANGED <<rows, world, ledger, bounds>>

\* Mutant: the state is not tested again in the update.
ExpireAny ==
  /\ At(Job, "expire")
  /\ SetState(on(Job), "EXPIRED")
  /\ JobAgain
  /\ UNCHANGED <<forced, world, ledger, todo, bounds>>

\* updateMany where the state is still open.
Expire ==
  /\ At(Job, "expire")
  /\ SetState(on(Job), IF state[on(Job)] \in Open THEN "EXPIRED" ELSE state[on(Job)])
  /\ JobAgain
  /\ UNCHANGED <<forced, world, ledger, todo, bounds>>

-----------------------------------------------------------------------------
(* Exceptions, crashes, the clock, the payer                               *)

Confirming == {"read", "credit", "settle", "fail", "patch"}

CanFail == faults < MaxFaults /\ faults' = faults + 1

\* A statement or the ledger call of w throws (a post may have been committed by
\* then).  The catch of createDeposit reopens the intent, the catch of the job
\* around confirmDeposit goes on to expire it; otherwise the handler ends.
Throw(w) ==
  /\ CanFail
  /\ h[w].at \notin {"idle", "request", "query"}
  /\ \/ /\ h[w].at \in Confirming \cup {"record"} /\ h[w].task \in {"create", "job"}
        /\ Goto(w, IF w = Job THEN "expire" ELSE "reopen")
        /\ UNCHANGED todo
     \/ /\ h[w].at \in Confirming => h[w].task \notin {"create", "job"}
        /\ h[w].at # "record"
        /\ Finish(w)
        /\ todo' = IF w = Job THEN {} ELSE todo
  /\ UNCHANGED <<rows, world, ledger, starts>>

\* The process dies: every handler in flight is lost.
Crash ==
  /\ CanFail
  /\ \E w \in Handlers : h[w] # Idle
  /\ h' = [w \in Handlers |-> Idle]
  /\ todo' = {}
  /\ UNCHANGED <<rows, world, ledger, starts>>

Elapse(i) ==
  /\ state[i] # "none" /\ ~due[i]
  /\ due' = [due EXCEPT ![i] = TRUE]
  /\ UNCHANGED <<rows, charge, ledger, handler, bounds>>

\* The payer accepts or declines the charge; both are final at the provider.
PayerAnswers(i) ==
  /\ charge[i] = "pending"
  /\ \E c \in {"paid", "failed"} : charge' = [charge EXCEPT ![i] = c]
  /\ UNCHANGED <<rows, due, ledger, handler, bounds>>

-----------------------------------------------------------------------------
Step(w) ==
  \/ InsertIntent(w) \/ RequestCollection(w) \/ RecordRequest(w) \/ Reopen(w)
  \/ ReadIntent(w) \/ QueryStatus(w) \/ CreditDeposit(w) \/ SettleIntent(w)
  \/ FailIntent(w) \/ PatchStatus(w)

RunJob == JobStart \/ JobNext \/ Expire \/ Step(Job)

Request(w) == \E i \in Intents : \/ CreateDeposit(w, i) \/ Webhook(w, i)
                                \/ AdminRecheck(w, i) \/ ForceComplete(w, i)

Next == \/ \E w \in Workers : Request(w) \/ Step(w)
        \/ RunJob
        \/ \E w \in Handlers : Throw(w)
        \/ Crash
        \/ \E i \in Intents : Elapse(i) \/ PayerAnswers(i)

Spec == Init /\ [][Next]_vars

\* Started handlers go on, the scheduler calls the job every minute, time passes.
Fairness == /\ \A w \in Workers : WF_vars(Step(w))
            /\ WF_vars(RunJob)
            /\ \A i \in Intents : WF_vars(Elapse(i))

FairSpec == Spec /\ Fairness

-----------------------------------------------------------------------------
(* Properties.                                                             *)

\* Every variable has its type.
TypeOK ==
  /\ state \in [Intents -> States]
  /\ due \in [Intents -> BOOLEAN]
  /\ charge \in [Intents -> {"none", "pending", "paid", "failed"}]
  /\ forced \subseteq Intents
  /\ h \in [Handlers -> {Idle, [at |-> "next"]} \cup
                [at : {"insert", "request", "record", "reopen", "query", "expire"} \cup Confirming,
                 task : {"create", "webhook", "recheck", "force", "job"},
                 on : Intents,
                 saw : States \cup {"pending", "paid", "failed"}]]
  /\ todo \subseteq Intents \X Open
  /\ starts \in 0..MaxStarts /\ faults \in 0..MaxFaults

\* The golden rule (payments.service.ts:69-72): whatever callbacks and answers
\* say, a deposit is only credited once the provider has collected it, or when a
\* maker and a checker forced it.
CreditedWasCollected ==
  \A i \in Intents : Credited(i) => charge[i] = "paid" \/ i \in forced

\* A deposit is credited once, by however many of the creation, the callbacks, the
\* rechecks, the job and a forced completion, with retries after exceptions and
\* crashes: the balance is the sum of the deposits credited (creditDeposit).
OneCreditPerDeposit ==
  balance["available"] = SumFunctionOnSet(Amount, {i \in Intents : Credited(i)})

\* An intent reads PAID only when the user has the money (creditDeposit: ledger first).
PaidIsCredited == \A i \in Intents : state[i] = "PAID" => Credited(i)

\* An intent is never FAILED while the provider has the payer's money: an error is
\* never taken for a refusal (createDeposit's catch, confirmDeposit).
CollectedNeverFailed == \A i \in Intents : charge[i] = "paid" => state[i] # "FAILED"

\* A deposit credited between the job's findMany and its update is not expired
\* (expireStaleIntents).
ExpiryNeverBuriesPaid ==
  [][\A i \in Intents : state[i] = "PAID" => state'[i] # "EXPIRED"]_vars

\* Every intent that is left open is closed in the end, by its confirmation or by
\* the job, whatever is lost (expireStaleIntents).
OpenIsClosed == \A i \in Intents :
  state[i] \in {"CREATED", "PENDING"} ~> state[i] \notin {"CREATED", "PENDING"}

\* What deposits post is what the ledger promises to journal: balanced, each key
\* once, no user below zero (creditDeposit's entries).
Promise == INSTANCE AtomicLedger WITH Accounts <- {"available", "clearing"},
                                      UserAccounts <- {"available"}
PostsFitThePromise == Promise!Spec
=============================================================================
