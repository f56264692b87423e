------------------------------- MODULE Fees -------------------------------
(***************************************************************************)
(* The fee schedules (fees.service.ts) of one type of fee: those of a      *)
(* market, and the global ones it falls back on.  An approved FEE_CHANGE   *)
(* (approvals-executors.service.ts) replaces the active schedules of its   *)
(* market; an administrator also adds or deactivates one directly.         *)
(* effectiveTo is only read of active rows: what closing a row writes      *)
(* there is left out.                                                      *)
(***************************************************************************)
EXTENDS Settings

CONSTANTS
    Global,       \* marketId null
    MarketIds,
    RateOf,       \* what a schedule may charge, by a name: [isPercentage, value, min, max]
    Windows       \* bound: effectiveFrom and effectiveTo of what is added directly

ASSUME FeesAssumption ==
    /\ Global \notin MarketIds
    /\ \A name \in DOMAIN RateOf : RateOf[name].value \in Nat /\ RateOf[name].min \in Nat
    /\ \A w \in Windows : w.from \in 0 .. MaxTime /\ w.to \in 0 .. Null

VARIABLE schedules    \* FeeSchedule rows in the order of their creation

----------------------------------------------------------------------------
(* Amounts, in XAF, which has no decimals; a percentage gives hundredths.  *)

Unlimited == -1       \* maxAmount null; minAmount null is 0

roundMoney(hundredths) == (hundredths + 50) \div 100

\* Raised to the floor, then cut at the cap.
bounded(fee, rate) ==
    LET raised == IF fee < 100 * rate.min THEN 100 * rate.min ELSE fee
    IN  IF rate.max # Unlimited /\ raised > 100 * rate.max THEN 100 * rate.max ELSE raised

percentageFee(base, rate) == roundMoney(bounded(base * rate.value, rate))

applySchedule(rate, gross) ==
    IF rate.isPercentage THEN percentageFee(gross, rate) ELSE roundMoney(bounded(100 * rate.value, rate))

----------------------------------------------------------------------------
\* findFirst, by effectiveFrom desc: any of the latest.
InWindow(m, at) ==
    {i \in DOMAIN schedules : /\ schedules[i].market = m
                              /\ schedules[i].active
                              /\ schedules[i].from <= at /\ at < schedules[i].to}
LatestOf(m, at) ==
    {i \in InWindow(m, at) : \A j \in InWindow(m, at) : schedules[j].from <= schedules[i].from}

\* The schedule of the market, else the global one.
activeSchedule(m, at) == IF LatestOf(m, at) # {} THEN LatestOf(m, at) ELSE LatestOf(Global, at)

Schedule(m, name, from, to) ==
    [market |-> m, rate |-> name, from |-> from, to |-> to, active |-> TRUE]
Inactive(rows) ==
    [i \in DOMAIN schedules |->
        IF i \in rows THEN [schedules[i] EXCEPT !.active = FALSE] ELSE schedules[i]]

\* The seed gives the first market its schedule; another has none.
FeesInit ==
    schedules \in {<<>>} \cup {<<Schedule(m, name, 0, Null)>> : m \in MarketIds, name \in DOMAIN RateOf}

\* The rows a fee change has updated in its transaction.
Locked(rows) == \E g \in Handlers : task[g].op = "insertSchedule" /\ todo[g] \cap rows # {}

----------------------------------------------------------------------------
(* create and deactivate; each ends with its entry in the audit log. *)

CreateFee(h, m, name, w) ==
    /\ Start(h, "lockChain", EVENT, Nobody, "", 0)
    /\ schedules' = Append(schedules, Schedule(m, name, w.from, w.to))
    /\ UNCHANGED <<approvals, ran, crashes, auditVars, settingsVars>>

DeactivateFee(h, i) ==
    /\ Start(h, "lockChain", EVENT, Nobody, "", 0)
    /\ ~Locked({i})
    /\ schedules' = Inactive({i})
    /\ UNCHANGED <<approvals, ran, crashes, auditVars, settingsVars>>

----------------------------------------------------------------------------
(* FEE_CHANGE. *)

RequestFeeChange(s, m, name) ==
    /\ Requested(s, "FEE_CHANGE", m, name)
    /\ UNCHANGED <<task, auditVars, settingsVars, schedules>>

FeeChange(h) ==
    /\ Executing(h, "FEE_CHANGE")
    /\ task' = [task EXCEPT ![h].op = "matchSchedules", ![h].id = now]
    /\ UNCHANGED <<approvals, ran, calls, crashes, auditVars, settingsVars, schedules>>

\* updateMany finds the active rows ...
MatchSchedules(h) ==
    /\ task[h].op = "matchSchedules"
    /\ todo' = [todo EXCEPT ![h] = {i \in DOMAIN schedules :
            schedules[i].market = approvals[task[h].appr].target /\ schedules[i].active}]
    /\ Goto(h, "lockSchedules")
    /\ UNCHANGED <<approvals, ran, calls, crashes, chain, chainLock, prevHash, settingsVars, schedules>>

\* Mutant: the update is committed on its own.
LockAndClose(h) ==
    /\ task[h].op = "lockSchedules"
    /\ schedules' = Inactive(todo[h])
    /\ Goto(h, "insertSchedule")
    /\ UNCHANGED <<approvals, ran, calls, crashes, auditVars, settingsVars>>

\* ... and waits for those another transaction has updated, to leave them alone
\* if they are no longer active.
LockSchedules(h) ==
    /\ task[h].op = "lockSchedules"
    /\ ~Locked(todo[h])
    /\ todo' = [todo EXCEPT ![h] = {i \in @ : schedules[i].active}]
    /\ Goto(h, "insertSchedule")
    /\ UNCHANGED <<approvals, ran, calls, crashes, chain, chainLock, prevHash, settingsVars, schedules>>

\* The new row, and the commit of the two.
InsertSchedule(h) ==
    LET change == approvals[task[h].appr] IN
    /\ task[h].op = "insertSchedule"
    /\ schedules' = Append(Inactive(todo[h]),
                           Schedule(change.target, change.decision, task[h].id, Null))
    /\ todo' = [todo EXCEPT ![h] = {}]
    /\ Committed(h)
    /\ Record(h, LOG)
    /\ UNCHANGED <<approvals, calls, crashes, chain, chainLock, prevHash, settingsVars>>

DirectFeeStep(h) ==
    \/ \E m \in MarketIds \cup {Global}, name \in DOMAIN RateOf, w \in Windows :
          CreateFee(h, m, name, w)
    \/ \E i \in DOMAIN schedules : DeactivateFee(h, i)

FeeChangeStep(h) == FeeChange(h) \/ MatchSchedules(h) \/ LockSchedules(h) \/ InsertSchedule(h)

FeeStep(h) == DirectFeeStep(h) \/ FeeChangeStep(h)

----------------------------------------------------------------------------
\* A change of fees never leaves a market without the schedule it had: old and
\* new rows change together (approvals-executors.service.ts:116), whatever other
\* changes, orders and stops of the process come between.  Only a request to
\* deactivate one, or the end of its window, takes a schedule away.
FeesHaveNoGap ==
    [][now' = now /\ calls' = calls =>
          \A m \in MarketIds : activeSchedule(m, now) # {} => activeSchedule(m, now)' # {}]_schedules
=============================================================================
