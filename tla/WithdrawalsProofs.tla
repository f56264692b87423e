------------------------- MODULE WithdrawalsProofs -------------------------
(***************************************************************************)
(* What holds of withdrawals for every set of intents, workers and amounts *)
(* and any number of exceptions and crashes: nothing is settled that was   *)
(* not reserved, PAID means debited, without a fault no request leaves its *)
(* intent in CREATED, each withdrawal is debited once, what is held covers *)
(* those that wait, and what is posted fits the promise of the ledger.     *)
(***************************************************************************)
EXTENDS Withdrawals, SumLemmas, TLAPS

USE WithdrawalConstants

\* Where a request is that has inserted its intent and not yet opened or refused it.
Creating == {"reserve", "refuse", "open"}
Paying == {"read", "debit", "settle"}
Failing == {"readFail", "release", "failed"}
Labels == {"insert"} \cup Creating \cup Paying \cup Failing
Serving == [at : Labels, task : {"request", "csh", "force", "fail"}, on : Intents]
Filing == [at : {"sequence"}, task : {"wdr"}, on : SUBSET Intents]
          \cup [at : {"batch", "submit"}, task : {"wdr"}, on : SUBSET Intents, seen : Nat]
Handlers == {Idle} \cup Serving \cup Filing

Types ==
  /\ state \in [Intents -> States]
  /\ h \in [Workers -> Handlers]
  /\ batches \in Nat /\ faults \in Nat

\* What a handler relies on at the await it has reached.
Relies(w) ==
  /\ h[w].at \in Creating \cup {"insert"} => h[w].task = "request"
  /\ h[w].at \in {"open", "debit", "settle", "release", "failed"} => Reserved(on(w))
  /\ At(w, "settle") => Debited(on(w))

\* What a row says of the journal.
Rows == \A i \in Intents :
  /\ state[i] \in {"PENDING", "PAID"} => Reserved(i)
  /\ state[i] = "PAID" => Debited(i)
  /\ Debited(i) \/ Released(i) => Reserved(i)

Held == faults = 0 => \A i \in Intents :
  state[i] = "CREATED" => \E w \in Workers : h[w].at \in Creating /\ on(w) = i

Inv == Types /\ (\A w \in Workers : Relies(w)) /\ Rows /\ Held

LEMMA InitInv == Init => Inv
BY DEF Init, Inv, Types, Handlers, States, Idle, Relies, Rows, Held, Creating, At,
       Debited, Released, Book!Posted

-----------------------------------------------------------------------------
(* The ledger only grows, by the key that was posted.                      *)

Grows == \A i \in Intents :
  /\ Reserved(i) => Reserved(i)'
  /\ Debited(i) => Debited(i)'
  /\ Released(i) => Released(i)'

LEMMA JournalStays == ASSUME UNCHANGED ledger PROVE Grows
BY DEF ledger, Grows, Reserved, Debited, Released, Book!Posted

LEMMA PostAppends ==
  ASSUME NEW k, NEW d, Book!Post(k, d)
  PROVE  /\ journal \subseteq journal' /\ (\E r \in journal' : r.key = k)
         /\ \A r \in journal' \ journal : r.key = k
<1> DEFINE row == [key |-> k, rev |-> FALSE, delta |-> d]
<1>1. \/ journal' = journal /\ \E r \in journal : r.key = k
      \/ journal' = journal \cup {row}
  BY Zenon DEF Book!Post, Book!Posted
<1>2. row.key = k
  OBVIOUS
<1> HIDE DEF row
<1>3. QED
  BY <1>1, <1>2

LEMMA ReservePosted ==
  ASSUME NEW i \in Intents, NEW d, Book!Post(ReserveKey(i), d)
  PROVE  /\ Grows /\ Reserved(i)'
         /\ \A j \in Intents : (Debited(j)' => Debited(j)) /\ (Released(j)' => Released(j))
BY PostAppends DEF Grows, Reserved, Debited, Released, Book!Posted, ReserveKey, ReleaseKey

LEMMA PayoutPosted ==
  ASSUME NEW i \in Intents, NEW t, NEW d, Book!Post(PayoutKey(i, t), d)
  PROVE  /\ Grows /\ Debited(i)'
         /\ \A j \in Intents : (Debited(j)' => j = i \/ Debited(j)) /\ (Released(j)' => Released(j))
<1> DEFINE k == PayoutKey(i, t)
<1>1. /\ journal \subseteq journal' /\ (\E r \in journal' : r.key = k)
      /\ \A r \in journal' \ journal : r.key = k
  BY PostAppends
<1>2. k = <<"withdraw", i>>
  BY DEF PayoutKey
<1> HIDE DEF k
<1>3. Grows /\ Debited(i)'
  BY <1>1, <1>2 DEF Grows, Reserved, Debited, Released, Book!Posted
<1>4. \A j \in Intents : Debited(j)' => j = i \/ Debited(j)
  BY <1>1, <1>2 DEF Debited
<1>5. \A j \in Intents : Released(j)' => Released(j)
  BY <1>1, <1>2 DEF Released, Book!Posted, ReleaseKey
<1>6. QED
  BY <1>3, <1>4, <1>5

LEMMA ReleasePosted ==
  ASSUME NEW i \in Intents, NEW d, Book!Post(ReleaseKey(i), d)
  PROVE  /\ Grows
         /\ \A j \in Intents : (Debited(j)' => Debited(j)) /\ (Released(j)' => j = i \/ Released(j))
BY PostAppends DEF Grows, Reserved, Debited, Released, Book!Posted, ReserveKey, ReleaseKey

-----------------------------------------------------------------------------
(* Handlers.                                                               *)

Others(w) == h' \in [Workers -> Handlers] /\ \A v \in Workers \ {w} : h'[v] = h[v]

LEMMA ServingAt ==
  ASSUME Types, NEW w \in Workers, h[w].at \in Labels
  PROVE  h[w] \in Serving /\ on(w) \in Intents
<1>1. h[w] \in Serving
  BY DEF Types, Handlers, Idle, Filing, Labels, Creating, Paying, Failing
<1>2. QED
  BY <1>1 DEF Serving, on

LEMMA GotoMoves ==
  ASSUME Types, NEW w \in Workers, h[w].at \in Labels, NEW l \in Labels, Goto(w, l)
  PROVE  /\ Others(w) /\ h'[w].at = l
         /\ h'[w].on = h[w].on /\ h'[w].task = h[w].task
<1>1. h[w] \in Serving /\ h' = [h EXCEPT ![w] = [h[w] EXCEPT !.at = l]]
  BY ServingAt DEF Goto
<1>2. [h[w] EXCEPT !.at = l] \in Serving
  BY <1>1 DEF Serving
<1>3. h'[w] = [h[w] EXCEPT !.at = l]
  BY <1>1 DEF Types
<1>4. QED
  BY <1>1, <1>2, <1>3 DEF Others, Handlers, Serving, Types

LEMMA FinishMoves ==
  ASSUME Types, NEW w \in Workers, Finish(w)
  PROVE  Others(w) /\ h'[w].at = "idle"
BY DEF Types, Finish, Others, Handlers, Idle

LEMMA BeginMoves ==
  ASSUME Types, NEW w \in Workers, NEW t \in {"request", "csh", "force", "fail"},
         NEW i \in Intents, NEW l \in Labels, Begin(w, t, i, l)
  PROVE  /\ Others(w) /\ h[w].at = "idle"
         /\ h'[w].at = l /\ h'[w].task = t /\ h'[w].on = i
<1>1. [at |-> l, task |-> t, on |-> i] \in Serving
  BY DEF Serving
<1>2. QED
  BY <1>1 DEF Types, Begin, Others, Handlers, Idle

\* What a step has to show of its own handler and of the rows; the other handlers
\* keep what they rely on.
LEMMA StepKeeps ==
  ASSUME Inv, NEW w \in Workers, Others(w), Grows, Relies(w)', Rows',
         state' \in [Intents -> States], batches' \in Nat, faults' \in Nat,
         faults' = 0 => faults = 0,
         faults' = 0 => \A i \in Intents : state'[i] = "CREATED" =>
             \/ h'[w].at \in Creating /\ h'[w].on = i
             \/ state[i] = "CREATED" /\ ~(h[w].at \in Creating /\ h[w].on = i)
  PROVE  Inv'
<1>1. Types'
  BY DEF Inv, Types, Others
<1>2. ASSUME NEW v \in Workers \ {w}
      PROVE  Relies(v)'
  <2>1. h'[v] = h[v] /\ Relies(v)
    BY DEF Others, Inv
  <2>2. CASE h[v].at \in Labels
    <3>1. on(v) \in Intents
      BY <2>2, ServingAt DEF Inv
    <3>2. QED
      BY <2>1, <3>1 DEF Relies, Grows, At, on
  <2>3. CASE h[v].at \notin Labels
    BY <2>1, <2>3 DEF Relies, At, Labels, Creating, Paying, Failing
  <2>4. QED
    BY <2>2, <2>3
<1>3. Held'
  <2> SUFFICES ASSUME faults' = 0, NEW i \in Intents, state'[i] = "CREATED"
               PROVE  \E v \in Workers : h'[v].at \in Creating /\ h'[v].on = i
    BY DEF Held, on
  <2>1. CASE h'[w].at \in Creating /\ h'[w].on = i
    BY <2>1
  <2>2. CASE state[i] = "CREATED" /\ ~(h[w].at \in Creating /\ h[w].on = i)
    <3>1. PICK v \in Workers : h[v].at \in Creating /\ h[v].on = i
      BY <2>2 DEF Inv, Held, on
    <3>2. QED
      BY <2>2, <3>1 DEF Others
  <2>3. QED
    BY <2>1, <2>2
<1>4. QED
  BY <1>1, <1>2, <1>3 DEF Inv

LEMMA RowsStay == ASSUME Rows, UNCHANGED <<state, ledger>> PROVE Rows' /\ Grows
BY JournalStays DEF Rows, ledger, Reserved, Debited, Released, Book!Posted

\* A step of a handler that changes no row and no account, and leaves the
\* handler idle or where it relies on nothing new.
LEMMA HandlerStep ==
  ASSUME Inv, NEW w \in Workers, Others(w), UNCHANGED <<state, ledger>>, Relies(w)',
         batches' \in Nat, faults' \in Nat, faults' = 0 => faults = 0,
         (faults' = 0 /\ h[w].at \in Creating) => h'[w].at \in Creating /\ h'[w].on = h[w].on
  PROVE  Inv'
BY StepKeeps, RowsStay DEF Inv, Types

\* A step that writes the handler's own row, and posts nothing.
LEMMA RowStep ==
  ASSUME Inv, NEW w \in Workers, h[w].at \in Labels, NEW s \in States \ {"none"}, SetState(on(w), s),
         Others(w), UNCHANGED <<ledger, batches, faults>>, Relies(w)',
         s \in {"PENDING", "PAID"} => Reserved(on(w)),
         s = "PAID" => Debited(on(w)),
         s = "CREATED" => h'[w].at \in Creating /\ h'[w].on = on(w)
  PROVE  Inv'
<1>1. on(w) \in Intents
  BY ServingAt DEF Inv
<1>2. state' \in [Intents -> States] /\ state'[on(w)] = s
      /\ \A i \in Intents \ {on(w)} : state'[i] = state[i]
  BY <1>1 DEF Inv, Types, SetState
<1>3. Grows /\ \A i \in Intents : (Reserved(i)' <=> Reserved(i)) /\ (Debited(i)' <=> Debited(i))
                                  /\ (Released(i)' <=> Released(i))
  BY JournalStays DEF ledger, Reserved, Debited, Released, Book!Posted
<1>4. Rows'
  BY <1>2, <1>3 DEF Inv, Rows
<1>5. QED
  BY <1>2, <1>3, <1>4, StepKeeps DEF Inv, Types, on

-----------------------------------------------------------------------------
(* One step per action.                                                    *)

LEMMA RequestSteps ==
  ASSUME Inv, NEW w \in Workers,
         \/ \E i \in Intents : RequestWithdrawal(w, i)
         \/ InsertIntent(w) \/ ReserveFunds(w) \/ RefuseIntent(w) \/ OpenIntent(w)
  PROVE  Inv'
<1> USE DEF Labels, Creating, Paying, Failing
<1>t. Types /\ Relies(w)
  BY DEF Inv
<1>1. ASSUME NEW i \in Intents, RequestWithdrawal(w, i)
      PROVE  Inv'
  <2>1. Others(w) /\ h[w].at = "idle" /\ h'[w].at = "insert" /\ h'[w].task = "request"
    BY <1>t, <1>1, BeginMoves DEF RequestWithdrawal
  <2>2. Relies(w)'
    BY <2>1 DEF Relies, At
  <2>3. QED
    BY <1>1, <2>1, <2>2, HandlerStep DEF RequestWithdrawal, rows, bounds, Inv, Types
<1>2. CASE InsertIntent(w)
  <2>1. /\ h[w].at = "insert" /\ Others(w) /\ h'[w].at = "reserve"
        /\ h'[w].on = h[w].on /\ h'[w].task = h[w].task
    BY <1>t, <1>2, GotoMoves DEF InsertIntent, At
  <2>2. Relies(w)'
    BY <1>t, <2>1 DEF Relies, At
  <2>3. QED
    BY <1>2, <2>1, <2>2, RowStep DEF InsertIntent, States, on, bounds
<1>3. CASE ReserveFunds(w)
  <2>1. PICK i \in Intents : i = on(w) /\ h[w].at = "reserve" /\ h[w].task = "request"
    BY <1>t, <1>3, ServingAt DEF ReserveFunds, At, Relies
  <2> DEFINE d == Transfer(Amount[i], "available", "withdrawable")
  <2>2. /\ \/ Goto(w, "refuse") /\ UNCHANGED ledger
           \/ Book!Post(ReserveKey(i), d) /\ Goto(w, "open")
        /\ UNCHANGED <<state, batches, faults>>
    BY <1>3, <2>1 DEF ReserveFunds, rows, bounds
  <2>3. CASE Goto(w, "refuse") /\ UNCHANGED ledger
    <3>1. /\ Others(w) /\ h'[w].at = "refuse"
          /\ h'[w].on = h[w].on /\ h'[w].task = h[w].task
      BY <1>t, <2>1, <2>3, GotoMoves
    <3>2. Relies(w)'
      BY <2>1, <3>1 DEF Relies, At
    <3>3. QED
      BY <2>2, <2>3, <3>1, <3>2, HandlerStep DEF Inv, Types
  <2>4. CASE Book!Post(ReserveKey(i), d) /\ Goto(w, "open")
    <3>1. /\ Others(w) /\ h'[w].at = "open"
          /\ h'[w].on = h[w].on /\ h'[w].task = h[w].task
      BY <1>t, <2>1, <2>4, GotoMoves
    <3> HIDE DEF d
    <3>2. /\ Grows /\ Reserved(i)'
          /\ \A j \in Intents : (Debited(j)' => Debited(j)) /\ (Released(j)' => Released(j))
      BY <2>1, <2>4, ReservePosted
    <3>3. Relies(w)'
      BY <2>1, <3>1, <3>2 DEF Relies, At, on
    <3>4. Rows'
      BY <2>2, <3>2 DEF Inv, Rows, Grows
    <3>5. QED
      BY <2>2, <3>1, <3>2, <3>3, <3>4, StepKeeps DEF Inv, Types
  <2>5. QED
    BY <2>2, <2>3, <2>4
<1>4. CASE RefuseIntent(w)
  <2>1. h[w].at = "refuse" /\ Others(w) /\ h'[w].at = "idle"
    BY <1>t, <1>4, FinishMoves DEF RefuseIntent, At
  <2>2. Relies(w)'
    BY <2>1 DEF Relies, At
  <2>3. QED
    BY <1>4, <2>1, <2>2, RowStep DEF RefuseIntent, States, bounds
<1>5. CASE OpenIntent(w)
  <2>1. h[w].at = "open" /\ Reserved(on(w))
    BY <1>t, <1>5 DEF OpenIntent, At, Relies
  <2>2. Others(w) /\ h'[w].at \in {"read", "idle"}
    BY <1>t, <1>5, <2>1, GotoMoves, FinishMoves DEF OpenIntent
  <2>3. Relies(w)'
    BY <2>2 DEF Relies, At
  <2>4. QED
    BY <1>5, <2>1, <2>2, <2>3, RowStep DEF OpenIntent, States, bounds
<1>6. QED
  BY <1>1, <1>2, <1>3, <1>4, <1>5

LEMMA PaymentSteps ==
  ASSUME Inv, NEW w \in Workers,
         \/ \E i \in Intents : CshLine(w, i) \/ ForceComplete(w, i)
         \/ ReadForPayment(w) \/ DebitFunds(w) \/ MarkPaid(w)
  PROVE  Inv'
<1> USE DEF Labels, Creating, Paying, Failing
<1>t. Types /\ Relies(w) /\ Rows
  BY DEF Inv
<1>1. ASSUME NEW i \in Intents, CshLine(w, i) \/ ForceComplete(w, i)
      PROVE  Inv'
  <2>1. Others(w) /\ h[w].at = "idle" /\ h'[w].at = "read"
    BY <1>t, <1>1, BeginMoves DEF CshLine, ForceComplete
  <2>2. Relies(w)'
    BY <2>1 DEF Relies, At
  <2>3. QED
    BY <1>1, <2>1, <2>2, HandlerStep DEF CshLine, ForceComplete, rows, Inv, Types
<1>2. CASE ReadForPayment(w)
  <2>1. h[w].at = "read" /\ on(w) \in Intents
    BY <1>t, <1>2, ServingAt DEF ReadForPayment, At
  <2>2. CASE state[on(w)] = "PENDING" /\ Goto(w, "debit")
    <3>1. Others(w) /\ h'[w].at = "debit" /\ h'[w].on = h[w].on
      BY <1>t, <2>1, <2>2, GotoMoves
    <3>2. Reserved(on(w))'
      BY <1>t, <1>2, <2>1, <2>2, <3>1, JournalStays DEF Rows, Grows, ReadForPayment, on
    <3>3. Relies(w)'
      BY <3>1, <3>2 DEF Relies, At
    <3>4. QED
      BY <1>2, <2>1, <3>1, <3>3, HandlerStep DEF ReadForPayment, rows, bounds, Inv, Types
  <2>3. CASE Finish(w)
    <3>1. Others(w) /\ h'[w].at = "idle"
      BY <1>t, <2>3, FinishMoves
    <3>2. Relies(w)'
      BY <3>1 DEF Relies, At
    <3>3. QED
      BY <1>2, <2>1, <3>1, <3>2, HandlerStep DEF ReadForPayment, rows, bounds, Inv, Types
  <2>4. QED
    BY <1>2, <2>2, <2>3 DEF ReadForPayment
<1>3. CASE DebitFunds(w)
  <2>1. PICK i \in Intents, t \in {h[w].task} :
          i = on(w) /\ h[w].at = "debit" /\ Reserved(i)
    BY <1>t, <1>3, ServingAt DEF DebitFunds, At, Relies
  <2> DEFINE k == PayoutKey(i, t)
             d == Transfer(Amount[i], "withdrawable", "clearing")
  <2>2. /\ \/ Finish(w) /\ UNCHANGED ledger
           \/ Book!Post(k, d) /\ Goto(w, "settle")
        /\ UNCHANGED <<state, batches, faults>>
    BY <1>3, <2>1 DEF DebitFunds, rows, bounds
  <2>3. CASE Finish(w) /\ UNCHANGED ledger
    <3>1. Others(w) /\ h'[w].at = "idle"
      BY <1>t, <2>3, FinishMoves
    <3>2. Relies(w)'
      BY <3>1 DEF Relies, At
    <3>3. QED
      BY <2>1, <2>2, <2>3, <3>1, <3>2, HandlerStep DEF Inv, Types
  <2>4. CASE Book!Post(k, d) /\ Goto(w, "settle")
    <3>1. Others(w) /\ h'[w].at = "settle" /\ h'[w].on = h[w].on
      BY <1>t, <2>1, <2>4, GotoMoves
    <3> HIDE DEF d
    <3>2. /\ Grows /\ Debited(i)'
          /\ \A j \in Intents : (Debited(j)' => j = i \/ Debited(j)) /\ (Released(j)' => Released(j))
      BY <2>1, <2>4, PayoutPosted
    <3>3. Relies(w)'
      BY <2>1, <3>1, <3>2 DEF Relies, At, on, Grows
    <3>4. Rows'
      BY <1>t, <2>1, <2>2, <3>2 DEF Rows, Grows
    <3>5. QED
      BY <2>1, <2>2, <3>1, <3>2, <3>3, <3>4, StepKeeps DEF Inv, Types
  <2>5. QED
    BY <2>2, <2>3, <2>4
<1>4. CASE MarkPaid(w)
  <2>1. h[w].at = "settle" /\ Reserved(on(w)) /\ Debited(on(w))
    BY <1>t, <1>4 DEF MarkPaid, At, Relies
  <2>2. Others(w) /\ h'[w].at = "idle"
    BY <1>t, <1>4, FinishMoves DEF MarkPaid
  <2>3. Relies(w)'
    BY <2>2 DEF Relies, At
  <2>4. QED
    BY <1>4, <2>1, <2>2, <2>3, RowStep DEF MarkPaid, States, bounds
<1>5. QED
  BY <1>1, <1>2, <1>3, <1>4

LEMMA FailureSteps ==
  ASSUME Inv, NEW w \in Workers,
         \/ \E i \in Intents : FailWithdrawal(w, i)
         \/ ReadForFailure(w) \/ ReleaseFunds(w) \/ MarkFailed(w)
  PROVE  Inv'
<1> USE DEF Labels, Creating, Paying, Failing
<1>t. Types /\ Relies(w) /\ Rows
  BY DEF Inv
<1>1. ASSUME NEW i \in Intents, FailWithdrawal(w, i)
      PROVE  Inv'
  <2>1. Others(w) /\ h[w].at = "idle" /\ h'[w].at = "readFail"
    BY <1>t, <1>1, BeginMoves DEF FailWithdrawal
  <2>2. Relies(w)'
    BY <2>1 DEF Relies, At
  <2>3. QED
    BY <1>1, <2>1, <2>2, HandlerStep DEF FailWithdrawal, rows, Inv, Types
<1>2. CASE ReadForFailure(w)
  <2>1. h[w].at = "readFail" /\ on(w) \in Intents
    BY <1>t, <1>2, ServingAt DEF ReadForFailure, At
  <2>2. CASE state[on(w)] = "PENDING" /\ Goto(w, "release")
    <3>1. Others(w) /\ h'[w].at = "release" /\ h'[w].on = h[w].on
      BY <1>t, <2>1, <2>2, GotoMoves
    <3>2. Reserved(on(w))'
      BY <1>t, <1>2, <2>1, <2>2, <3>1, JournalStays DEF Rows, Grows, ReadForFailure, on
    <3>3. Relies(w)'
      BY <3>1, <3>2 DEF Relies, At
    <3>4. QED
      BY <1>2, <2>1, <3>1, <3>3, HandlerStep DEF ReadForFailure, rows, bounds, Inv, Types
  <2>3. CASE Finish(w)
    <3>1. Others(w) /\ h'[w].at = "idle"
      BY <1>t, <2>3, FinishMoves
    <3>2. Relies(w)'
      BY <3>1 DEF Relies, At
    <3>3. QED
      BY <1>2, <2>1, <3>1, <3>2, HandlerStep DEF ReadForFailure, rows, bounds, Inv, Types
  <2>4. QED
    BY <1>2, <2>2, <2>3 DEF ReadForFailure
<1>3. CASE ReleaseFunds(w)
  <2>1. PICK i \in Intents : i = on(w) /\ h[w].at = "release" /\ Reserved(i)
    BY <1>t, <1>3, ServingAt DEF ReleaseFunds, At, Relies
  <2> DEFINE d == Transfer(Amount[i], "withdrawable", "available")
  <2>2. /\ \/ Finish(w) /\ UNCHANGED ledger
           \/ Book!Post(ReleaseKey(i), d) /\ Goto(w, "failed")
        /\ UNCHANGED <<state, batches, faults>>
    BY <1>3, <2>1 DEF ReleaseFunds, rows, bounds
  <2>3. CASE Finish(w) /\ UNCHANGED ledger
    <3>1. Others(w) /\ h'[w].at = "idle"
      BY <1>t, <2>3, FinishMoves
    <3>2. Relies(w)'
      BY <3>1 DEF Relies, At
    <3>3. QED
      BY <2>1, <2>2, <2>3, <3>1, <3>2, HandlerStep DEF Inv, Types
  <2>4. CASE Book!Post(ReleaseKey(i), d) /\ Goto(w, "failed")
    <3>1. Others(w) /\ h'[w].at = "failed" /\ h'[w].on = h[w].on
      BY <1>t, <2>1, <2>4, GotoMoves
    <3> HIDE DEF d
    <3>2. /\ Grows
          /\ \A j \in Intents : (Debited(j)' => Debited(j)) /\ (Released(j)' => j = i \/ Released(j))
      BY <2>1, <2>4, ReleasePosted
    <3>3. Relies(w)'
      BY <2>1, <3>1, <3>2 DEF Relies, At, on, Grows
    <3>4. Rows'
      BY <1>t, <2>1, <2>2, <3>2 DEF Rows, Grows
    <3>5. QED
      BY <2>1, <2>2, <3>1, <3>2, <3>3, <3>4, StepKeeps DEF Inv, Types
  <2>5. QED
    BY <2>2, <2>3, <2>4
<1>4. CASE MarkFailed(w)
  <2>1. h[w].at = "failed" /\ Others(w) /\ h'[w].at = "idle"
    BY <1>t, <1>4, FinishMoves DEF MarkFailed, At
  <2>2. Relies(w)'
    BY <2>1 DEF Relies, At
  <2>3. QED
    BY <1>4, <2>1, <2>2, RowStep DEF MarkFailed, States, bounds
<1>5. QED
  BY <1>1, <1>2, <1>3, <1>4

LEMMA FileMoves ==
  ASSUME Types, NEW w \in Workers,
         ListPending(w) \/ NextSequence(w) \/ WriteBatch(w) \/ SubmitWdr(w)
  PROVE  Others(w) /\ h'[w].at \in {"idle", "sequence", "batch", "submit"}
<1>1. CASE ListPending(w)
  <2> DEFINE lines == {i \in Intents : state[i] = "PENDING" /\ i \notin batched}
  <2>1. [at |-> "sequence", task |-> "wdr", on |-> lines] \in Filing
    BY DEF Filing
  <2>2. h' = [h EXCEPT ![w] = [at |-> "sequence", task |-> "wdr", on |-> lines]]
    BY <1>1 DEF ListPending, Begin
  <2> HIDE DEF lines
  <2>3. QED
    BY <2>1, <2>2 DEF Types, Others, Handlers
<1>2. CASE NextSequence(w)
  <2>1. h[w] \in Filing
    BY <1>2 DEF NextSequence, At, Types, Handlers, Idle, Serving, Labels, Creating, Paying, Failing
  <2>2. on(w) \in SUBSET Intents
    BY <2>1 DEF Filing, on
  <2>3. [at |-> "batch", task |-> "wdr", on |-> on(w), seen |-> batches] \in Filing
    BY <2>2 DEF Types, Filing
  <2>4. QED
    BY <1>2, <2>3 DEF NextSequence, Types, Others, Handlers
<1>3. CASE WriteBatch(w) /\ ~Finish(w)
  <2>1. h[w] \in Filing /\ h' = [h EXCEPT ![w] = [h[w] EXCEPT !.at = "submit"]] /\ h[w].at = "batch"
    BY <1>3 DEF WriteBatch, At, Goto, Types, Handlers, Idle, Serving, Labels, Creating, Paying, Failing
  <2>2. [h[w] EXCEPT !.at = "submit"] \in Filing /\ [h[w] EXCEPT !.at = "submit"].at = "submit"
    BY <2>1 DEF Filing
  <2>3. QED
    BY <2>1, <2>2 DEF Types, Others, Handlers
<1>4. CASE Finish(w)
  BY <1>4, FinishMoves
<1>5. QED
  BY <1>1, <1>2, <1>3, <1>4 DEF SubmitWdr

LEMMA FileSteps ==
  ASSUME Inv, NEW w \in Workers,
         ListPending(w) \/ NextSequence(w) \/ WriteBatch(w) \/ SubmitWdr(w)
  PROVE  Inv'
<1>t. Types
  BY DEF Inv
<1>1. /\ UNCHANGED <<state, ledger, faults>> /\ batches' \in Nat
      /\ h[w].at \in {"idle", "sequence", "batch", "submit"}
  BY DEF ListPending, NextSequence, WriteBatch, SubmitWdr, Begin, Idle, At, Inv, Types, rows, bounds
<1>2. Others(w) /\ h'[w].at \in {"idle", "sequence", "batch", "submit"}
  BY <1>t, FileMoves
<1>3. Relies(w)'
  BY <1>2 DEF Relies, At, Creating
<1>4. QED
  BY <1>1, <1>2, <1>3, HandlerStep DEF Inv, Types, Creating

\* An exception in one handler, or the end of all of them.
LEMMA FaultSteps ==
  ASSUME Inv, Crash \/ \E w \in Workers : Throw(w)
  PROVE  Inv'
<1> USE DEF Labels, Creating, Paying, Failing
<1>t. Types /\ Rows
  BY DEF Inv
<1>f. faults' \in Nat /\ faults' # 0 /\ UNCHANGED <<state, ledger, batches>>
  BY <1>t DEF Crash, Throw, CanFault, Types, rows
<1>1. ASSUME NEW w \in Workers, Throw(w)
      PROVE  Inv'
  <2>1. CASE At(w, "reserve") /\ Goto(w, "refuse")
    <3>1. Others(w) /\ h'[w].at = "refuse" /\ h'[w].task = h[w].task
      BY <1>t, <2>1, GotoMoves DEF At
    <3>2. Relies(w)'
      BY <2>1, <3>1 DEF Relies, At, Inv
    <3>3. QED
      BY <1>f, <3>1, <3>2, HandlerStep DEF Inv, Types
  <2>2. CASE Finish(w)
    <3>1. Others(w) /\ h'[w].at = "idle"
      BY <1>t, <2>2, FinishMoves
    <3>2. Relies(w)'
      BY <3>1 DEF Relies, At
    <3>3. QED
      BY <1>f, <3>1, <3>2, HandlerStep DEF Inv, Types
  <2>3. QED
    BY <1>1, <2>1, <2>2 DEF Throw
<1>2. CASE Crash
  <2>1. \A w \in Workers : h'[w] = Idle
    BY <1>2 DEF Crash
  <2>2. Types'
    BY <1>t, <1>f, <1>2 DEF Crash, Types, Handlers
  <2>3. (\A w \in Workers : Relies(w)') /\ Held'
    BY <1>f, <2>1 DEF Relies, Held, At, Idle
  <2>4. QED
    BY <1>t, <1>f, <2>2, <2>3, RowsStay DEF Inv
<1>3. QED
  BY <1>1, <1>2

LEMMA NextInv == Inv /\ [Next]_vars => Inv'
<1> SUFFICES ASSUME Inv, [Next]_vars PROVE Inv'
  OBVIOUS
<1>1. ASSUME NEW w \in Workers, Request(w) \/ Step(w)
      PROVE  Inv'
  BY <1>1, RequestSteps, PaymentSteps, FailureSteps, FileSteps DEF Request, Step
<1>2. CASE UNCHANGED <<state, batches, faults, journal, balance, h>>
  BY <1>2, RowsStay DEF Inv, Types, Relies, Held, At, on, ledger, Reserved, Debited, Book!Posted
<1>3. ASSUME NEW i \in Intents, SdbPays(i)
      PROVE  Inv'
  BY <1>2, <1>3 DEF SdbPays, rows, ledger, bounds
<1>4. CASE UNCHANGED vars
  BY <1>2, <1>4 DEF vars, rows, ledger, bounds
<1>5. QED
  BY <1>1, <1>3, <1>4, FaultSteps DEF Next

\* The rows, the handlers and the journal stay consistent, whatever interleaves.
THEOREM InvHolds == Spec => []Inv
BY InitInv, NextInv, PTL DEF Spec

\* Nothing leaves WITHDRAWABLE, paid or released, for a withdrawal that did not put
\* it there (markWithdrawalPaid, failWithdrawal).
THEOREM SettlesWhatItReserved == Spec => []SettledWasReserved
<1>1. Inv => SettledWasReserved
  BY DEF Inv, Rows, SettledWasReserved
<1>2. QED
  BY <1>1, InvHolds, PTL

\* An intent reads PAID only when the ledger was debited (markWithdrawalPaid).
THEOREM PaidMeansDebited == Spec => []PaidIsDebited
<1>1. Inv => PaidIsDebited
  BY DEF Inv, Rows, PaidIsDebited
<1>2. QED
  BY <1>1, InvHolds, PTL

\* Without a fault a request that has inserted its intent is still there to open or
\* to refuse it (requestWithdrawal).
THEOREM RequestsFinish == Spec => []NoneLeftCreated
<1>1. Inv => NoneLeftCreated
  <2> SUFFICES ASSUME Inv, faults = 0, NEW i \in Intents, state[i] = "CREATED"
               PROVE  \E w \in Workers : h[w] # Idle /\ h[w].task = "request" /\ on(w) = i
    BY DEF NoneLeftCreated
  <2>1. PICK w \in Workers : h[w].at \in Creating /\ on(w) = i
    BY DEF Inv, Held
  <2>2. h[w] # Idle /\ h[w].task = "request"
    BY <2>1 DEF Inv, Relies, Idle, Creating
  <2>3. QED
    BY <2>1, <2>2
<1>2. QED
  BY <1>1, InvHolds, PTL

-----------------------------------------------------------------------------
(* Money: what each account holds is a sum over the withdrawals.           *)

Total(S) == SumFunctionOnSet(Amount, S)
ReservedSet == {i \in Intents : Reserved(i)}
DebitedSet == {i \in Intents : Debited(i)}
ReleasedSet == {i \in Intents : Released(i)}

\* Every posting is of one of the three kinds, so that an account moves exactly
\* when a withdrawal gets its posting.
OwnKeys == \A r \in journal : \E i \in Intents :
  r.key \in {ReserveKey(i), <<"withdraw", i>>, ReleaseKey(i)}
Money ==
  /\ OwnKeys
  /\ balance \in [Accounts -> Int]
  /\ balance["clearing"] = Total(DebitedSet)
  /\ balance["withdrawable"] = Total(ReservedSet) - Total(DebitedSet) - Total(ReleasedSet)

Reserving(i) == Book!Post(ReserveKey(i), Transfer(Amount[i], "available", "withdrawable"))
PayingOut(i, t) == Book!Post(PayoutKey(i, t), Transfer(Amount[i], "withdrawable", "clearing"))
Releasing(i) == Book!Post(ReleaseKey(i), Transfer(Amount[i], "withdrawable", "available"))

\* A posting under a key that is there changes nothing; under a new one it moves
\* what it says.
LEMMA PostMoves ==
  ASSUME balance \in [Accounts -> Int], NEW k, NEW x \in Int, NEW from \in Accounts, NEW to \in Accounts,
         from # to, Book!Post(k, Transfer(x, from, to))
  PROVE  \/ Book!Posted(k) /\ UNCHANGED ledger
         \/ /\ ~Book!Posted(k)
            /\ balance' \in [Accounts -> Int]
            /\ balance'[from] = balance[from] - x /\ balance'[to] = balance[to] + x
            /\ \A a \in Accounts \ {from, to} : balance'[a] = balance[a]
<1> DEFINE d == Transfer(x, from, to)
<1>1. d \in [Accounts -> Int] /\ d[from] = -x /\ d[to] = x /\ \A a \in Accounts \ {from, to} : d[a] = 0
  BY DEF Transfer
<1> HIDE DEF d
<1>2. CASE Book!Posted(k) /\ UNCHANGED <<journal, balance>>
  BY <1>2 DEF ledger
<1>3. CASE ~Book!Posted(k) /\ balance' = [a \in Accounts |-> balance[a] + d[a]]
  BY <1>1, <1>3
<1>4. QED
  BY <1>2, <1>3 DEF Book!Post, d

\* Keys tell the three kinds and the withdrawals apart.
LEMMA KeysKept ==
  ASSUME OwnKeys, NEW i \in Intents, NEW k \in {ReserveKey(i), <<"withdraw", i>>, ReleaseKey(i)},
         NEW d, Book!Post(k, d)
  PROVE  OwnKeys'
<1>1. \A r \in journal' \ journal : r.key = k
  BY PostAppends
<1>2. QED
  BY <1>1 DEF OwnKeys, ReserveKey, ReleaseKey

LEMMA DebitedByKey ==
  ASSUME OwnKeys, NEW i \in Intents
  PROVE  Debited(i) <=> Book!Posted(<<"withdraw", i>>)
BY DEF OwnKeys, Debited, Book!Posted, ReserveKey, ReleaseKey

LEMMA SetsFinite ==
  /\ \A S \in SUBSET Intents : IsFiniteSet(S) /\ Total(S) \in Nat
  /\ \A S \in SUBSET Intents : \A i \in Intents \ S : Total(S \cup {i}) = Total(S) + Amount[i]
<1>1. ASSUME NEW S \in SUBSET Intents
      PROVE  IsFiniteSet(S) /\ Total(S) \in Nat
  <2>1. IsFiniteSet(S) /\ \A x \in S : Amount[x] \in Nat
    BY FS_Subset
  <2>2. QED
    BY <2>1, SumType DEF Total
<1>2. ASSUME NEW S \in SUBSET Intents, NEW i \in Intents \ S
      PROVE  Total(S \cup {i}) = Total(S) + Amount[i]
  <2>1. \A x \in S \cup {i} : Amount[x] \in Int
    OBVIOUS
  <2>2. QED
    BY <1>1, <2>1, SumAdd DEF Total
<1>3. QED
  BY <1>1, <1>2

LEMMA MoneyStays == ASSUME Money, UNCHANGED ledger PROVE Money'
BY DEF Money, ledger, OwnKeys, ReservedSet, DebitedSet, ReleasedSet, Reserved, Debited, Released,
       Book!Posted

LEMMA MoneyReserved ==
  ASSUME Money, NEW i \in Intents, Reserving(i)
  PROVE  Money'
<1>1. CASE Book!Posted(ReserveKey(i)) /\ UNCHANGED ledger
  BY <1>1, MoneyStays
<1>2. CASE /\ ~Book!Posted(ReserveKey(i))
           /\ balance' \in [Accounts -> Int]
           /\ balance'["withdrawable"] = balance["withdrawable"] + Amount[i]
           /\ balance'["clearing"] = balance["clearing"]
  <2>1. /\ Grows /\ Reserved(i)'
        /\ \A j \in Intents : (Debited(j)' => Debited(j)) /\ (Released(j)' => Released(j))
    BY ReservePosted DEF Reserving
  <2>2. \A j \in Intents : Reserved(j)' => j = i \/ Reserved(j)
    BY PostAppends DEF Reserving, Reserved, Book!Posted, ReserveKey
  <2>3. /\ ReservedSet' = ReservedSet \cup {i} /\ i \in Intents \ ReservedSet
        /\ DebitedSet' = DebitedSet /\ ReleasedSet' = ReleasedSet
    BY <1>2, <2>1, <2>2 DEF Grows, ReservedSet, DebitedSet, ReleasedSet, Reserved
  <2>4. OwnKeys'
    BY KeysKept DEF Money, Reserving
  <2>5. Total(ReservedSet') = Total(ReservedSet) + Amount[i]
    BY <2>3, SetsFinite DEF ReservedSet
  <2>6. Total(ReservedSet) \in Nat /\ Total(DebitedSet) \in Nat /\ Total(ReleasedSet) \in Nat
    BY SetsFinite DEF ReservedSet, DebitedSet, ReleasedSet
  <2>7. QED
    BY <1>2, <2>3, <2>4, <2>5, <2>6 DEF Money, Total
<1>3. QED
  BY <1>1, <1>2, PostMoves DEF Money, Reserving, Accounts

LEMMA MoneyPaid ==
  ASSUME Money, NEW i \in Intents, NEW t, PayingOut(i, t)
  PROVE  Money'
<1> DEFINE k == PayoutKey(i, t)
<1>k. k = <<"withdraw", i>>
  BY DEF PayoutKey
<1>1. CASE UNCHANGED ledger
  BY <1>1, MoneyStays
<1>2. CASE /\ ~Book!Posted(k)
           /\ balance' \in [Accounts -> Int]
           /\ balance'["withdrawable"] = balance["withdrawable"] - Amount[i]
           /\ balance'["clearing"] = balance["clearing"] + Amount[i]
  <2>1. /\ Grows /\ Debited(i)'
        /\ \A j \in Intents : (Debited(j)' => j = i \/ Debited(j)) /\ (Released(j)' => Released(j))
    BY PayoutPosted DEF PayingOut
  <2>2. \A j \in Intents : Reserved(j)' => Reserved(j)
    BY <1>k, PostAppends DEF PayingOut, Reserved, Book!Posted, ReserveKey
  <2>3. ~Debited(i)
    BY <1>2, <1>k, DebitedByKey DEF Money
  <2>4. /\ DebitedSet' = DebitedSet \cup {i} /\ i \in Intents \ DebitedSet
        /\ ReservedSet' = ReservedSet /\ ReleasedSet' = ReleasedSet
    BY <2>1, <2>2, <2>3 DEF Grows, ReservedSet, DebitedSet, ReleasedSet
  <2>5. OwnKeys'
    BY <1>k, KeysKept DEF Money, PayingOut
  <2>6. Total(DebitedSet') = Total(DebitedSet) + Amount[i]
    BY <2>4, SetsFinite DEF DebitedSet
  <2>7. Total(ReservedSet) \in Nat /\ Total(DebitedSet) \in Nat /\ Total(ReleasedSet) \in Nat
    BY SetsFinite DEF ReservedSet, DebitedSet, ReleasedSet
  <2>8. QED
    BY <1>2, <2>4, <2>5, <2>6, <2>7 DEF Money, Total
<1>3. QED
  BY <1>1, <1>2, PostMoves DEF Money, PayingOut, Accounts

LEMMA MoneyReleased ==
  ASSUME Money, NEW i \in Intents, Releasing(i)
  PROVE  Money'
<1>1. CASE UNCHANGED ledger
  BY <1>1, MoneyStays
<1>2. CASE /\ ~Book!Posted(ReleaseKey(i))
           /\ balance' \in [Accounts -> Int]
           /\ balance'["withdrawable"] = balance["withdrawable"] - Amount[i]
           /\ balance'["clearing"] = balance["clearing"]
  <2>1. /\ Grows /\ Released(i)'
        /\ \A j \in Intents : (Debited(j)' => Debited(j)) /\ (Released(j)' => j = i \/ Released(j))
    BY ReleasePosted, PostAppends DEF Releasing, Released, Book!Posted
  <2>2. \A j \in Intents : Reserved(j)' => Reserved(j)
    BY PostAppends DEF Releasing, Reserved, Book!Posted, ReserveKey, ReleaseKey
  <2>3. /\ ReleasedSet' = ReleasedSet \cup {i} /\ i \in Intents \ ReleasedSet
        /\ DebitedSet' = DebitedSet /\ ReservedSet' = ReservedSet
    BY <1>2, <2>1, <2>2 DEF Grows, ReservedSet, DebitedSet, ReleasedSet, Released
  <2>4. OwnKeys'
    BY KeysKept DEF Money, Releasing
  <2>5. Total(ReleasedSet') = Total(ReleasedSet) + Amount[i]
    BY <2>3, SetsFinite DEF ReleasedSet
  <2>6. Total(ReservedSet) \in Nat /\ Total(DebitedSet) \in Nat /\ Total(ReleasedSet) \in Nat
    BY SetsFinite DEF ReservedSet, DebitedSet, ReleasedSet
  <2>7. QED
    BY <1>2, <2>3, <2>4, <2>5, <2>6 DEF Money, Total
<1>3. QED
  BY <1>1, <1>2, PostMoves DEF Money, Releasing, Accounts

\* What a step posts, if it posts.
LEMMA Postings ==
  ASSUME Inv, [Next]_vars
  PROVE  \/ UNCHANGED ledger
         \/ \E i \in Intents : Reserving(i) \/ (\E t : PayingOut(i, t))
         \/ (\E w \in Workers : h[w].at \in Failing) /\ \E i \in Intents : Releasing(i)
<1> USE DEF Labels, Creating, Paying, Failing
<1>1. ASSUME NEW w \in Workers, ReserveFunds(w)
      PROVE  UNCHANGED ledger \/ \E i \in Intents : Reserving(i)
  BY <1>1, ServingAt DEF Inv, ReserveFunds, Reserving, At
<1>2. ASSUME NEW w \in Workers, DebitFunds(w)
      PROVE  UNCHANGED ledger \/ \E i \in Intents : \E t : PayingOut(i, t)
  BY <1>2, ServingAt DEF Inv, DebitFunds, PayingOut, At
<1>3. ASSUME NEW w \in Workers, ReleaseFunds(w)
      PROVE  UNCHANGED ledger \/ (h[w].at \in Failing /\ \E i \in Intents : Releasing(i))
  BY <1>3, ServingAt DEF Inv, ReleaseFunds, Releasing, At
<1>4. ASSUME NEW w \in Workers,
             \/ InsertIntent(w) \/ RefuseIntent(w) \/ OpenIntent(w) \/ ReadForPayment(w)
             \/ MarkPaid(w) \/ ReadForFailure(w) \/ MarkFailed(w)
             \/ NextSequence(w) \/ WriteBatch(w) \/ SubmitWdr(w)
      PROVE  UNCHANGED ledger
  BY <1>4 DEF InsertIntent, RefuseIntent, OpenIntent, ReadForPayment, MarkPaid, ReadForFailure,
              MarkFailed, NextSequence, WriteBatch, SubmitWdr
<1>5. ASSUME NEW w \in Workers, Request(w)
      PROVE  UNCHANGED ledger
  BY <1>5 DEF Request, ListPending, RequestWithdrawal, CshLine, ForceComplete, FailWithdrawal
<1>6. ASSUME \/ UNCHANGED vars \/ Crash \/ (\E w \in Workers : Throw(w)) \/ \E i \in Intents : SdbPays(i)
      PROVE  UNCHANGED ledger
  BY <1>6 DEF vars, Crash, Throw, SdbPays
<1>7. QED
  BY <1>1, <1>2, <1>3, <1>4, <1>5, <1>6 DEF Next, Step

LEMMA MoneyNext == Inv /\ Money /\ [Next]_vars => Money'
<1> SUFFICES ASSUME Inv, Money, [Next]_vars PROVE Money'
  OBVIOUS
<1>1. QED
  BY Postings, MoneyStays, MoneyReserved, MoneyPaid, MoneyReleased

LEMMA MoneyInit == Init => Money
<1> SUFFICES ASSUME Init PROVE Money
  OBVIOUS
<1>1. ReservedSet = {} /\ DebitedSet = {} /\ ReleasedSet = {} /\ OwnKeys
  BY DEF Init, ReservedSet, DebitedSet, ReleasedSet, Reserved, Debited, Released, Book!Posted, OwnKeys
<1>2. Total({}) = 0
  BY SumOfNothing DEF Total
<1>3. balance \in [Accounts -> Int] /\ balance["clearing"] = 0 /\ balance["withdrawable"] = 0
  BY DEF Init, Accounts
<1>4. QED
  BY <1>1, <1>2, <1>3 DEF Money

\* Until failWithdrawal is called no handler is in it, and nothing is released.
Unfailed ==
  /\ fails \in Nat
  /\ fails = 0 => ReleasedSet = {} /\ \A w \in Workers : h[w].at \notin Failing

\* A handler gets into failWithdrawal by a call of it.
LEMMA FailureCalled ==
  ASSUME Inv, [Next]_vars, fails \in Nat,
         NEW v \in Workers, h'[v].at \in Failing, h[v].at \notin Failing
  PROVE  fails' = fails + 1
<1> USE DEF Labels, Creating, Paying, Failing
<1>t. Types
  BY DEF Inv
<1>1. ASSUME NEW w \in Workers, v # w, Others(w)
      PROVE  FALSE
  BY <1>1 DEF Others
<1>2. ASSUME NEW w \in Workers,
             \E i \in Intents : RequestWithdrawal(w, i) \/ CshLine(w, i) \/ ForceComplete(w, i)
      PROVE  FALSE
  BY <1>t, <1>1, <1>2, BeginMoves DEF RequestWithdrawal, CshLine, ForceComplete
<1>3. ASSUME NEW w \in Workers,
             InsertIntent(w) \/ ReserveFunds(w) \/ OpenIntent(w) \/ ReadForPayment(w) \/ DebitFunds(w)
      PROVE  FALSE
  <2>1. h[w].at \in Labels
    BY <1>3 DEF InsertIntent, ReserveFunds, OpenIntent, ReadForPayment, DebitFunds, At
  <2>2. Finish(w) \/ \E l \in Labels \ Failing : Goto(w, l)
    BY <1>3 DEF InsertIntent, ReserveFunds, OpenIntent, ReadForPayment, DebitFunds
  <2>3. Others(w) /\ h'[w].at \notin Failing
    BY <1>t, <2>1, <2>2, GotoMoves, FinishMoves
  <2>4. QED
    BY <1>1, <2>3
<1>4. ASSUME NEW w \in Workers, Finish(w)
      PROVE  FALSE
  BY <1>t, <1>1, <1>4, FinishMoves
<1>5. ASSUME NEW w \in Workers, ReadForFailure(w) \/ ReleaseFunds(w)
      PROVE  FALSE
  <2>1. h[w].at \in Failing
    BY <1>5 DEF ReadForFailure, ReleaseFunds, At
  <2>2. Finish(w) \/ \E l \in Labels : Goto(w, l)
    BY <1>5 DEF ReadForFailure, ReleaseFunds
  <2>3. Others(w)
    BY <1>t, <2>1, <2>2, GotoMoves, FinishMoves
  <2>4. QED
    BY <1>1, <2>1, <2>3
<1>6. ASSUME NEW w \in Workers, ListPending(w) \/ NextSequence(w) \/ WriteBatch(w)
      PROVE  FALSE
  BY <1>1, <1>6, FileMoves DEF Inv
<1>7. ASSUME NEW w \in Workers, Throw(w)
      PROVE  FALSE
  <2>1. CASE At(w, "reserve") /\ Goto(w, "refuse")
    BY <1>t, <1>1, <2>1, GotoMoves DEF At
  <2>2. QED
    BY <1>4, <1>7, <2>1 DEF Throw
<1>8. ASSUME Crash \/ UNCHANGED vars \/ \E i \in Intents : SdbPays(i)
      PROVE  FALSE
  BY <1>8 DEF Crash, Idle, vars, SdbPays
<1>9. ASSUME NEW w \in Workers, \E i \in Intents : FailWithdrawal(w, i)
      PROVE  fails' = fails + 1
  BY <1>9 DEF FailWithdrawal
<1>10. QED
  BY <1>2, <1>3, <1>4, <1>5, <1>6, <1>7, <1>8, <1>9
     DEF Next, Request, Step, RefuseIntent, MarkPaid, MarkFailed, SubmitWdr

LEMMA FailsCounted == ASSUME [Next]_vars, fails \in Nat PROVE fails' \in {fails, fails + 1}
BY DEF Next, Request, Step, vars, bounds, Crash, Throw, SdbPays, ListPending, RequestWithdrawal,
       CshLine, ForceComplete, FailWithdrawal, InsertIntent, ReserveFunds, RefuseIntent, OpenIntent,
       ReadForPayment, DebitFunds, MarkPaid, ReadForFailure, ReleaseFunds, MarkFailed,
       NextSequence, WriteBatch, SubmitWdr

LEMMA UnfailedNext == Inv /\ Unfailed /\ [Next]_vars => Unfailed'
<1> SUFFICES ASSUME Inv, Unfailed, [Next]_vars PROVE Unfailed'
  OBVIOUS
<1>1. fails' \in {fails, fails + 1} /\ fails \in Nat
  BY FailsCounted DEF Unfailed
<1>2. ASSUME fails' = 0
      PROVE  ReleasedSet' = {} /\ \A w \in Workers : h'[w].at \notin Failing
  <2>1. fails = 0 /\ ReleasedSet = {} /\ \A w \in Workers : h[w].at \notin Failing
    BY <1>1, <1>2 DEF Unfailed
  <2>2. \A w \in Workers : h'[w].at \notin Failing
    BY <1>1, <1>2, <2>1, FailureCalled
  <2>3. \A i \in Intents : ~Released(i)'
    <3>1. \A i \in Intents : ~Released(i)
      BY <2>1 DEF ReleasedSet
    <3>2. CASE UNCHANGED ledger
      BY <3>1, <3>2 DEF ledger, Released, Book!Posted
    <3>3. CASE \E i \in Intents : Reserving(i) \/ \E t : PayingOut(i, t)
      BY <3>1, <3>3, ReservePosted, PayoutPosted DEF Reserving, PayingOut
    <3>4. QED
      BY <2>1, <3>2, <3>3, Postings
  <2>4. QED
    BY <2>2, <2>3 DEF ReleasedSet
<1>3. QED
  BY <1>1, <1>2 DEF Unfailed

LEMMA UnfailedInit == Init => Unfailed
BY DEF Init, Unfailed, ReleasedSet, Released, Book!Posted, Idle, Failing

LEMMA MoneyHolds == Spec => [](Inv /\ Money /\ Unfailed)
<1>1. Init => Inv /\ Money /\ Unfailed
  BY InitInv, MoneyInit, UnfailedInit
<1>2. Inv /\ Money /\ Unfailed /\ [Next]_vars => (Inv /\ Money /\ Unfailed)'
  BY NextInv, MoneyNext, UnfailedNext
<1>3. QED
  BY <1>1, <1>2, PTL DEF Spec

\* What has left through CLEARING is the sum of the withdrawals debited: however the
\* CSH lines, the forced completions and the retries interleave, none is debited
\* twice (markWithdrawalPaid, LedgerKeys.withdraw).
THEOREM DebitsOnce == Spec => []OneDebitPerWithdrawal
<1>1. Money => OneDebitPerWithdrawal
  BY DEF Money, Total, DebitedSet, OneDebitPerWithdrawal
<1>2. QED
  BY <1>1, MoneyHolds, PTL

\* While failWithdrawal has not been called WITHDRAWABLE covers what is PENDING: it
\* holds the withdrawals reserved and not debited, and those PENDING are among them.
THEOREM CoversPending == Spec => []PendingIsCovered
<1>1. Inv /\ Money /\ Unfailed => PendingIsCovered
  <2> SUFFICES ASSUME Inv, Money, Unfailed, fails = 0
               PROVE  SumFunctionOnSet(Amount, {i \in Intents : state[i] = "PENDING" /\ ~Debited(i)})
                        <= balance["withdrawable"]
    BY DEF PendingIsCovered
  <2> DEFINE due == {i \in Intents : state[i] = "PENDING" /\ ~Debited(i)}
             held == ReservedSet \ DebitedSet
  <2>1. DebitedSet \subseteq ReservedSet /\ due \subseteq held /\ held \subseteq Intents
    BY DEF Inv, Rows, ReservedSet, DebitedSet
  <2>2. IsFiniteSet(ReservedSet) /\ IsFiniteSet(held) /\ \A i \in Intents : Amount[i] \in Int
    BY SetsFinite DEF ReservedSet
  <2>3. ReservedSet \subseteq Intents
    BY DEF ReservedSet
  <2> HIDE DEF due, held
  <2>4. Total(ReservedSet \ DebitedSet) = Total(ReservedSet) - Total(DebitedSet)
    BY <2>1, <2>2, <2>3, SumDifference DEF Total
  <2>5. Total(due) <= Total(held)
    BY <2>1, <2>2, SumGrows DEF Total
  <2>6. Total(ReleasedSet) = 0
    BY SumOfNothing DEF Unfailed, Total
  <2>7. Total(ReservedSet) \in Nat /\ Total(DebitedSet) \in Nat /\ Total(due) \in Nat
    BY <2>1, <2>3, SetsFinite
  <2>8. Total(due) <= balance["withdrawable"]
    BY <2>4, <2>5, <2>6, <2>7 DEF Money, held
  <2>9. QED
    BY <2>8 DEF Total, due
<1>2. QED
  BY <1>1, MoneyHolds, PTL

----------------------------------------------------------------------------
(* The promise of the ledger, from the funds a client starts with.         *)

Promise == INSTANCE AtomicLedger WITH UserAccounts <- {"available", "withdrawable"}

NobodyOwes == balance["available"] >= 0 /\ balance["withdrawable"] >= 0

\* The sums of the promise are those of this module.
LEMMA SamePromise ==
  /\ \A f, S : Promise!SumFunctionOnSet(f, S) = SumFunctionOnSet(f, S)
  /\ \A f : Promise!SumFunction(f) = SumFunction(f)
BY Zenon DEF Promise!SumFunctionOnSet, Promise!SumFunction, Promise!FoldFunctionOnSet,
   Promise!MapThenFoldSet, SumFunctionOnSet, SumFunction, FoldFunctionOnSet, MapThenFoldSet

LEMMA TransferBalances ==
  ASSUME NEW x \in Int, NEW from \in Accounts, NEW to \in Accounts, from # to
  PROVE  /\ Transfer(x, from, to) \in [Accounts -> Int]
         /\ SumFunctionOnSet(Transfer(x, from, to), Accounts) = 0
<1> DEFINE d == Transfer(x, from, to)
           rest == Accounts \ {from, to}
<1>1. /\ d \in [Accounts -> Int] /\ d[from] = -x /\ d[to] = x
      /\ \A a \in rest : d[a] = 0
  BY DEF Transfer
<1> HIDE DEF d
<1>2. IsFiniteSet(Accounts) /\ IsFiniteSet(Accounts \ {from}) /\ IsFiniteSet(rest)
  <2>1. IsFiniteSet({"available"} \cup {"withdrawable"}) /\ IsFiniteSet({"clearing"})
    BY FS_Singleton, FS_Union
  <2>2. IsFiniteSet(({"available"} \cup {"withdrawable"}) \cup {"clearing"})
    BY <2>1, FS_Union
  <2>3. Accounts = ({"available"} \cup {"withdrawable"}) \cup {"clearing"}
    BY DEF Accounts
  <2>4. IsFiniteSet(Accounts)
    BY <2>2, <2>3
  <2>5. QED
    BY <2>4, FS_Difference
<1>3. (Accounts \ {from}) \ {to} = rest /\ to \in Accounts \ {from}
  OBVIOUS
<1>4. \A a \in Accounts : d[a] \in Int
  BY <1>1
<1>5. SumFunctionOnSet(d, Accounts) = d[from] + SumFunctionOnSet(d, Accounts \ {from})
  BY <1>2, <1>4, SumRemove
<1>6. SumFunctionOnSet(d, Accounts \ {from}) = d[to] + SumFunctionOnSet(d, rest)
  BY <1>2, <1>3, <1>4, SumRemove
<1>7. SumFunctionOnSet(d, rest) = 0
  BY <1>1, <1>2, SumOfZeros
<1>8. SumFunctionOnSet(d, Accounts) = 0
  BY <1>1, <1>5, <1>6, <1>7
<1>9. QED
  BY <1>1, <1>8 DEF d

\* One posting under a new key that overdraws nobody is a step of the promise.
LEMMA PostApplies ==
  ASSUME balance \in [Accounts -> Int], NobodyOwes, NEW k,
         NEW x \in Int, NEW from \in Accounts, NEW to \in Accounts, from # to,
         Book!Post(k, Transfer(x, from, to))
  PROVE  NobodyOwes' /\ [Promise!Apply]_ledger
<1> DEFINE d == Transfer(x, from, to)
           p == [key |-> k, rev |-> FALSE, delta |-> d]
           val(a) == [q \in {p} |-> q.delta[a]]
<1>1. d \in [Accounts -> Int] /\ SumFunctionOnSet(d, Accounts) = 0
  BY TransferBalances
<1>2. CASE UNCHANGED ledger
  BY <1>2 DEF ledger, NobodyOwes
<1>3. CASE ~UNCHANGED ledger
  <2>1. /\ ~Book!Posted(k) /\ ~Book!Refused(k, d)
        /\ journal' = journal \cup {p}
        /\ balance' = [a \in Accounts |-> balance[a] + d[a]]
    BY <1>3 DEF Book!Post, ledger
  <2>2. p.key = k /\ p.rev = FALSE /\ p.delta = d
    OBVIOUS
  <2> HIDE DEF d, p
  <2>3. \A q \in journal : q.key # k
    BY <2>1 DEF Book!Posted
  <2>4. NobodyOwes'
    <3>1. ASSUME NEW a \in {"available", "withdrawable"} PROVE balance'[a] >= 0
      <4>1. balance[a] \in Int /\ d[a] \in Int /\ balance[a] >= 0 /\ a \in Accounts
        BY <1>1 DEF NobodyOwes, Accounts
      <4>2. ~(d[a] < 0 /\ balance[a] + d[a] < 0)
        BY <2>1 DEF Book!Refused
      <4>3. balance'[a] = balance[a] + d[a]
        BY <2>1, <4>1
      <4>4. QED
        BY <4>1, <4>2, <4>3
    <3>2. QED
      BY <3>1 DEF NobodyOwes
  <2>5. journal' \ journal = {p} /\ journal \subseteq journal'
    BY <2>1, <2>2, <2>3
  <2>6. Promise!Balanced(p)
    BY <1>1, <2>2, SamePromise DEF Promise!Balanced
  <2>7. Promise!Fits(p, journal')
    BY <2>1, <2>2, <2>3 DEF Promise!Fits
  <2>8. ASSUME NEW a \in Accounts
        PROVE  SumFunction(val(a)) = d[a]
    <3> DEFINE f == val(a)
    <3>1. DOMAIN f = {p} /\ f[p] = d[a] /\ d[a] \in Int
      BY <1>1, <2>2
    <3> HIDE DEF f
    <3>2. SumFunctionOnSet(f, {p}) = f[p] + SumFunctionOnSet(f, {p} \ {p})
      <4>1. IsFiniteSet({p}) /\ p \in {p} /\ \A q \in {p} : f[q] \in Int
        BY <3>1, FS_Singleton
      <4>2. QED
        BY <4>1, SumRemove
    <3>3. {p} \ {p} = {}
      OBVIOUS
    <3>4. SumFunctionOnSet(f, {p}) = d[a]
      BY <3>1, <3>2, <3>3, SumOfNothing
    <3>5. SumFunction(f) = d[a]
      BY <3>1, <3>4 DEF SumFunction
    <3>6. QED
      BY <3>5 DEF f
  <2>9. balance' = [a \in Accounts |-> balance[a] + SumFunction(val(a))]
    <3> HIDE DEF val
    <3>1. QED
      BY <2>1, <2>8
  <2>10. balance' = [a \in Accounts |-> balance[a] + Promise!SumFunction([q \in {p} |-> q.delta[a]])]
    BY <2>9, SamePromise
  <2>11. Promise!Apply
    BY <2>4, <2>5, <2>6, <2>7, <2>10 DEF Promise!Apply, NobodyOwes
  <2>12. QED
    BY <2>4, <2>11
<1>4. QED
  BY <1>2, <1>3

LEMMA EveryStepFits ==
  ASSUME Inv, Money, NobodyOwes, [Next]_vars
  PROVE  NobodyOwes' /\ [Promise!Apply]_ledger
<1>1. balance \in [Accounts -> Int] /\ \A i \in Intents : Amount[i] \in Int
  BY DEF Money
<1>2. /\ "available" \in Accounts /\ "withdrawable" \in Accounts /\ "clearing" \in Accounts
      /\ "available" # "withdrawable" /\ "withdrawable" # "clearing"
  BY DEF Accounts
<1>3. CASE UNCHANGED ledger
  BY <1>3 DEF ledger, NobodyOwes
<1>4. ASSUME NEW i \in Intents, Reserving(i) \/ Releasing(i) \/ \E t : PayingOut(i, t)
      PROVE  NobodyOwes' /\ [Promise!Apply]_ledger
  <2>1. CASE Reserving(i)
    BY <1>1, <1>2, <2>1, PostApplies DEF Reserving
  <2>2. CASE Releasing(i)
    BY <1>1, <1>2, <2>2, PostApplies DEF Releasing
  <2>3. CASE \E t : PayingOut(i, t)
    BY <1>1, <1>2, <2>3, PostApplies DEF PayingOut
  <2>4. QED
    BY <1>4, <2>1, <2>2, <2>3
<1>5. QED
  BY <1>3, <1>4, Postings

\* What withdrawals post is what the ledger promises to journal, whatever the client has
\* at the start: each posting of requestWithdrawal, markWithdrawalPaid and
\* failWithdrawal is balanced, under a key of its own, and leaves neither AVAILABLE nor
\* WITHDRAWABLE below zero.
THEOREM PostsFit == Spec => []NobodyOwes /\ [][Promise!Apply]_ledger
<1>1. Init => NobodyOwes
  <2> SUFFICES ASSUME Init PROVE NobodyOwes
    OBVIOUS
  <2>1. balance["available"] = funds /\ balance["withdrawable"] = 0 /\ funds \in Nat
    BY DEF Init, Accounts
  <2>2. QED
    BY <2>1 DEF NobodyOwes
<1>2. Inv /\ Money /\ NobodyOwes /\ [Next]_vars => NobodyOwes' /\ [Promise!Apply]_ledger
  BY EveryStepFits
<1>3. QED
  BY <1>1, <1>2, MoneyHolds, PTL DEF Spec
=============================================================================
